---------------------------- MODULE MCHostBackend ----------------------------
(***************************************************************************)
(* TLC instance of HostBackend.                                            *)
(***************************************************************************)
EXTENDS HostBackend, TLC

CONSTANTS jit, precise

\* Each adapter has a CPU the other does not know.
OwnCPUs == {<<"application", "cpu", jit>>, <<"system", "cpu", precise>>}
=============================================================================
