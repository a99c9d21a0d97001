--------------------------- MODULE MCLibretroSmoke ---------------------------
(***************************************************************************)
(* TLC instance of the libretro host and its smoke test.                   *)
(***************************************************************************)
EXTENDS LibretroSmoke

\* The size of the content, the same turned by 90 degrees, and a larger one.
TurnedSizes == {<<1, 2>>, <<2, 1>>, <<2, 2>>}
Upright == <<1, 2>>
=============================================================================
