----------------------------- MODULE MCBootstrap -----------------------------
(***************************************************************************)
(* TLC instance of Bootstrap.                                              *)
(***************************************************************************)
EXTENDS Bootstrap
=============================================================================
