--------------------------- MODULE MCLibretroCore ---------------------------
(***************************************************************************)
(* TLC instance of the libretro core with its keys.  Games are             *)
(* interchangeable.                                                        *)
(***************************************************************************)
EXTENDS LibretroInput, TLC

Symmetry == Permutations(Games)

\* The layer switch with a button that gives the star key in its layer, and, in
\* the other layer, the star key with another one.
TwoPads == {{"Select", "L2"}, {"L", "A"}}
=============================================================================
