--------------------------- MODULE MCRemoteInput ---------------------------
(***************************************************************************)
(* TLC instance of RemoteInput: callers of one process.                    *)
(***************************************************************************)
EXTENDS RemoteInput, TLC

CONSTANTS c1, c2, p1, p2, p3, shell

\* p1 and p2 are one content under two names.
Digests == (p1 :> "d" @@ p2 :> "d" @@ p3 :> "e")
OneProcess == (c1 :> shell @@ c2 :> shell)
=============================================================================
