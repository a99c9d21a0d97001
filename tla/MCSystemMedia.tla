--------------------------- MODULE MCSystemMedia ---------------------------
(***************************************************************************)
(* TLC instances of SystemMedia.  Firmware sets are interchangeable.       *)
(***************************************************************************)
EXTENDS SystemMedia, TLC

Symmetry == Permutations(Firmwares)
=============================================================================
