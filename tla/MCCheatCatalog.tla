--------------------------- MODULE MCCheatCatalog ---------------------------
(***************************************************************************)
(* TLC instances of CheatCatalog.  Titles are interchangeable; cheats are  *)
(* not, because some are on by default.                                    *)
(***************************************************************************)
EXTENDS CheatCatalog, TLC

Symmetry == Permutations(Titles)
=============================================================================
