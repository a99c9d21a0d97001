------------------------------ MODULE SaveFile ------------------------------
(***************************************************************************)
(* internal/savefile: Recover, Open/ReadFile and Replace on one save path, *)
(* one file-system call per step, so that a crash or a second process can  *)
(* come between any two of them.  Every call may fail without effect.      *)
(*                                                                         *)
(* target and bak are the directory entries path and path+".bak"; archives *)
(* holds the contents of the path+".bak-preserved-*" files, whose names    *)
(* are unique.  A writer's temporary file has a unique name too, so it is  *)
(* represented by the content val[p] the writer carries; one left behind   *)
(* by a crash is never read again.                                         *)
(***************************************************************************)
CONSTANTS
    Procs,      \* callers of the package
    Data,       \* contents of regular files
    Absent,     \* no directory entry
    Irregular,  \* a directory, symbolic link or other non-regular entry
    Serialized  \* TRUE: every caller holds the one operationMu of a process;
                \* FALSE: callers are separate processes (GUI, "aram save")

ASSUME SaveFileAssumption ==
    /\ Absent \notin Data
    /\ Irregular \notin Data
    /\ Absent # Irregular
    /\ Serialized \in BOOLEAN

VARIABLES
    target,     \* the save file
    bak,        \* its .bak
    archives,   \* contents preserved under unique names
    pc,         \* the next file-system call of each process
    val,        \* content of the writer's temporary file, Absent for a reader
    had,        \* Replace's hadTarget
    reply,      \* outcome of the last call
    got,        \* content the last successful ReadFile returned
    owed        \* history: contents that no install has superseded

vars == <<target, bak, archives, pc, val, had, reply, got, owed>>

Contents == Data \union {Absent, Irregular}

\* The content the next ReadFile returns if no call fails.
Durable == IF target # Absent THEN target ELSE bak

Init ==
    /\ target \in Contents
    /\ bak \in Contents
    /\ archives = {}
    /\ pc = [p \in Procs |-> "idle"]
    /\ val = [p \in Procs |-> Absent]
    /\ had = [p \in Procs |-> FALSE]
    /\ reply = [p \in Procs |-> "none"]
    /\ got = [p \in Procs |-> Absent]
    /\ owed = {target, bak} \intersect Data

-----------------------------------------------------------------------------

Goto(p, label) == pc' = [pc EXCEPT ![p] = label]

Files == <<target, bak, archives>>

\* The call returns: the caller's deferred os.Remove drops the temporary file.
Return(p, outcome) ==
    /\ Goto(p, "idle")
    /\ val' = [val EXCEPT ![p] = Absent]
    /\ had' = [had EXCEPT ![p] = FALSE]
    /\ reply' = [reply EXCEPT ![p] = outcome]

\* An lstat, rename, open, copy or remove reports an error and the call gives
\* up with no further effect.
Fails(p, label) ==
    /\ pc[p] = label
    /\ Return(p, "failed")
    /\ UNCHANGED <<Files, got, owed>>

Admitted(p) ==
    /\ pc[p] = "idle"
    /\ Serialized => \A q \in Procs : pc[q] = "idle"

\* A caller has written, synced and closed its temporary file, and Replace
\* has found it regular.
BeginReplace(p, v) ==
    /\ Admitted(p)
    /\ Goto(p, "lstatTarget")
    /\ val' = [val EXCEPT ![p] = v]
    /\ reply' = [reply EXCEPT ![p] = "none"]
    /\ UNCHANGED <<Files, had, got, owed>>

BeginRead(p) ==
    /\ Admitted(p)
    /\ Goto(p, "lstatTarget")
    /\ reply' = [reply EXCEPT ![p] = "none"]
    /\ UNCHANGED <<Files, val, had, got, owed>>

AfterRecover(p) == IF val[p] = Absent THEN "open" ELSE "checkTarget"

\* Faulty: Recover restores a backup even over an existing target.
LstatTargetIgnored(p) ==
    /\ pc[p] = "lstatTarget"
    /\ target # Irregular
    /\ Goto(p, "lstatBackup")
    /\ UNCHANGED <<Files, val, had, reply, got, owed>>

\* Recover: an entry that exists ends it, with an error unless it is regular.
LstatTarget(p) ==
    /\ pc[p] = "lstatTarget"
    /\ target # Irregular
    /\ Goto(p, IF target = Absent THEN "lstatBackup" ELSE AfterRecover(p))
    /\ UNCHANGED <<Files, val, had, reply, got, owed>>

LstatBackup(p) ==
    /\ pc[p] = "lstatBackup"
    /\ bak # Irregular
    /\ Goto(p, IF bak = Absent THEN AfterRecover(p) ELSE "recover")
    /\ UNCHANGED <<Files, val, had, reply, got, owed>>

\* os.Rename replaces whatever the destination has become meanwhile.
RecoverRename(p) ==
    /\ pc[p] = "recover"
    /\ bak # Absent
    /\ target' = bak
    /\ bak' = Absent
    /\ Goto(p, AfterRecover(p))
    /\ UNCHANGED <<archives, val, had, reply, got, owed>>

\* os.Open and io.ReadAll; a missing file is the caller's "no save yet".
OpenRead(p) ==
    /\ pc[p] = "open"
    /\ target # Irregular
    /\ Return(p, "ok")
    /\ got' = [got EXCEPT ![p] = target]
    /\ UNCHANGED <<Files, owed>>

-----------------------------------------------------------------------------

CheckTarget(p) ==
    /\ pc[p] = "checkTarget"
    /\ target # Irregular
    /\ Goto(p, IF target = Absent THEN "install" ELSE "preserve")
    /\ UNCHANGED <<Files, val, had, reply, got, owed>>

\* Faulty: the backup is overwritten by the next rename.
PreserveNothing(p) ==
    /\ pc[p] = "preserve"
    /\ bak # Irregular
    /\ Goto(p, "retain")
    /\ UNCHANGED <<Files, val, had, reply, got, owed>>

\* Faulty: the backup is archived without asking whether it is a file.
PreserveAnything(p) ==
    /\ pc[p] = "preserve"
    /\ IF bak = Absent
         THEN Goto(p, "retain") /\ UNCHANGED archives
         ELSE Goto(p, "removeBackup") /\ archives' = archives \union {bak}
    /\ UNCHANGED <<target, bak, val, had, reply, got, owed>>

\* preserveBackup up to the point where the archive is complete.
Preserve(p) ==
    /\ pc[p] = "preserve"
    /\ bak # Irregular
    /\ IF bak = Absent
         THEN Goto(p, "retain") /\ UNCHANGED archives
         ELSE Goto(p, "removeBackup") /\ archives' = archives \union {bak}
    /\ UNCHANGED <<target, bak, val, had, reply, got, owed>>

RemoveBackup(p) ==
    /\ pc[p] = "removeBackup"
    /\ bak' = Absent
    /\ Goto(p, "retain")
    /\ UNCHANGED <<target, archives, val, had, reply, got, owed>>

Retain(p) ==
    /\ pc[p] = "retain"
    /\ target # Absent
    /\ bak' = target
    /\ target' = Absent
    /\ had' = [had EXCEPT ![p] = TRUE]
    /\ Goto(p, "install")
    /\ UNCHANGED <<archives, val, reply, got, owed>>

\* The new save replaces the one a reader would have seen, and only that one.
Install(p) ==
    /\ pc[p] = "install"
    /\ target' = val[p]
    /\ Goto(p, "discard")
    /\ owed' = (owed \ {Durable}) \union {val[p]}
    /\ UNCHANGED <<bak, archives, val, had, reply, got>>

\* The install rename failed: roll back if there was a target, else give up.
InstallFails(p) ==
    /\ pc[p] = "install"
    /\ IF had[p]
         THEN Goto(p, "rollback") /\ UNCHANGED <<val, had, reply>>
         ELSE Return(p, "failed")
    /\ UNCHANGED <<Files, got, owed>>

Rollback(p) ==
    /\ pc[p] = "rollback"
    /\ bak # Absent
    /\ target' = bak
    /\ bak' = Absent
    /\ Return(p, "failed")
    /\ UNCHANGED <<archives, got, owed>>

\* Removing the retained copy is best effort and its failure is ignored.
Discard(p) ==
    /\ pc[p] = "discard"
    /\ \/ had[p] /\ bak' = Absent
       \/ UNCHANGED bak
    /\ Return(p, "ok")
    /\ UNCHANGED <<target, archives, got, owed>>

\* The calls whose failure ends Recover, ReadFile or Replace at once.
GivesUp == {"lstatTarget", "lstatBackup", "recover", "open", "checkTarget",
            "preserve", "removeBackup", "retain", "rollback"}

\* The process dies between two file-system calls and is started again.
Crash(p) ==
    /\ pc[p] # "idle"
    /\ Return(p, "none")
    /\ UNCHANGED <<Files, got, owed>>

Next ==
    \E p \in Procs :
        \/ \E v \in Data : BeginReplace(p, v)
        \/ BeginRead(p)
        \/ LstatTarget(p)
        \/ LstatBackup(p)
        \/ RecoverRename(p)
        \/ OpenRead(p)
        \/ CheckTarget(p)
        \/ Preserve(p)
        \/ RemoveBackup(p)
        \/ Retain(p)
        \/ Install(p)
        \/ InstallFails(p)
        \/ Rollback(p)
        \/ Discard(p)
        \/ \E label \in GivesUp : Fails(p, label)
        \/ Crash(p)

Spec == Init /\ [][Next]_vars

-----------------------------------------------------------------------------

Labels == GivesUp \union {"idle", "install", "discard"}

\* Types of the variables: in particular only regular content is ever archived.
TypeOK ==
    /\ target \in Contents
    /\ bak \in Contents
    /\ archives \subseteq Data
    /\ pc \in [Procs -> Labels]
    /\ val \in [Procs -> Data \union {Absent}]
    /\ had \in [Procs -> BOOLEAN]
    /\ reply \in [Procs -> {"none", "ok", "failed"}]
    /\ got \in [Procs -> Data \union {Absent}]
    /\ owed \subseteq Data

\* Replace loses nothing: every content that was on disk and that no install
\* has superseded, a leftover .bak included, is still in the save, its .bak
\* or an archive, whatever failed and wherever a process died.
NothingLost == owed \subseteq {target, bak} \union archives

\* "retaining the previous file until the new file is installed" (savefile.go:1):
\* once there is a save, some copy of some save is on disk.  One process keeps
\* this; two processes that replace the same file at once do not.
SomeCopyKept == owed # {} => ({target, bak} \union archives) \intersect Data # {}

\* The register of AtomicSave is what the next reader would see.
Job(p) ==
    CASE pc[p] = "idle" -> "idle"
      [] pc[p] = "discard" -> "written"
      [] OTHER -> IF val[p] = Absent THEN "read" ELSE "write"

Register == INSTANCE AtomicSave
    WITH stored <- Durable, job <- [p \in Procs |-> Job(p)], value <- val

\* A save behaves as one atomic register: reads return the last installed
\* content, a failed or crashed Replace has changed nothing a reader sees
\* unless it had installed, and a successful one has installed.
RegisterSpec == Register!Spec
=============================================================================
