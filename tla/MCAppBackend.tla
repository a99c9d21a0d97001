---------------------------- MODULE MCAppBackend ----------------------------
(***************************************************************************)
(* TLC instances of AppBackend.  Titles under the same profile are         *)
(* interchangeable.                                                        *)
(***************************************************************************)
EXTENDS AppBackend, TLC

Symmetry == Permutations(Titles \ Diagnostic)
=============================================================================
