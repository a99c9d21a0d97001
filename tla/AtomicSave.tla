----------------------------- MODULE AtomicSave -----------------------------
(***************************************************************************)
(* What internal/savefile promises its callers: a save is one register.    *)
(* A write either installs its value and succeeds, or fails and leaves the *)
(* register alone; a read returns the register; a crash abandons the call  *)
(* and never touches the register.  SaveFile.tla is shown to implement it. *)
(***************************************************************************)
CONSTANTS
    Procs,      \* goroutines or processes calling Replace and ReadFile
    Data,       \* contents of regular save files
    Absent,     \* there is no file
    Irregular   \* the path names a directory or a symbolic link

VARIABLES
    stored,     \* what a read that does not fail returns
    job,        \* [Procs -> {"idle", "read", "write", "written"}]
    value,      \* the content each writer was given, Absent for the others
    reply,      \* outcome of the last call of each process
    got         \* content the last successful read of each process returned

vars == <<stored, job, value, reply, got>>

Contents == Data \union {Absent, Irregular}

Init ==
    /\ stored \in Contents
    /\ job = [p \in Procs |-> "idle"]
    /\ value = [p \in Procs |-> Absent]
    /\ reply = [p \in Procs |-> "none"]
    /\ got = [p \in Procs |-> Absent]

WriteBegin(p, v) ==
    /\ job[p] = "idle"
    /\ job' = [job EXCEPT ![p] = "write"]
    /\ value' = [value EXCEPT ![p] = v]
    /\ reply' = [reply EXCEPT ![p] = "none"]
    /\ UNCHANGED <<stored, got>>

\* The one step at which a write takes effect.  It never replaces a path that
\* is not a regular file.
Commit(p) ==
    /\ job[p] = "write"
    /\ stored # Irregular
    /\ stored' = value[p]
    /\ job' = [job EXCEPT ![p] = "written"]
    /\ UNCHANGED <<value, reply, got>>

Leave(p, outcome) ==
    /\ job' = [job EXCEPT ![p] = "idle"]
    /\ value' = [value EXCEPT ![p] = Absent]
    /\ reply' = [reply EXCEPT ![p] = outcome]

WriteReturn(p) ==
    /\ job[p] = "written"
    /\ Leave(p, "ok")
    /\ UNCHANGED <<stored, got>>

ReadBegin(p) ==
    /\ job[p] = "idle"
    /\ job' = [job EXCEPT ![p] = "read"]
    /\ reply' = [reply EXCEPT ![p] = "none"]
    /\ UNCHANGED <<stored, value, got>>

ReadReturn(p) ==
    /\ job[p] = "read"
    /\ stored # Irregular
    /\ Leave(p, "ok")
    /\ got' = [got EXCEPT ![p] = stored]
    /\ UNCHANGED stored

\* An error is reported only for a call that has changed nothing.
Abort(p) ==
    /\ job[p] \in {"read", "write"}
    /\ Leave(p, "failed")
    /\ UNCHANGED <<stored, got>>

Crash(p) ==
    /\ job[p] # "idle"
    /\ Leave(p, "none")
    /\ UNCHANGED <<stored, got>>

Next ==
    \E p \in Procs :
        \/ \E v \in Data : WriteBegin(p, v)
        \/ Commit(p)
        \/ WriteReturn(p)
        \/ ReadBegin(p)
        \/ ReadReturn(p)
        \/ Abort(p)
        \/ Crash(p)

Spec == Init /\ [][Next]_vars
=============================================================================
