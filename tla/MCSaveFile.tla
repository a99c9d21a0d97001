----------------------------- MODULE MCSaveFile -----------------------------
(***************************************************************************)
(* TLC instances of SaveFile.  Contents are interchangeable, so are the    *)
(* callers, which makes both symmetry sets.                                *)
(***************************************************************************)
EXTENDS SaveFile, TLC

Symmetry == Permutations(Procs) \union Permutations(Data)
=============================================================================
