---------------------------- MODULE SystemMedia ----------------------------
(***************************************************************************)
(* systemintegration.Backend: one whole-phone machine at a time and the    *)
(* flash and NAND media of each firmware set on disk.  Every operation     *)
(* holds operationMu, so it is one action; its alternatives are the points *)
(* at which the machine or the disk makes it fail.  Media persistence is   *)
(* on (Options.DisableMediaPersistence is FALSE, the default).             *)
(*                                                                         *)
(* A media file is the atomic register of AtomicSave.  Any disk call may   *)
(* fail, which is also how storage that is away for a while looks.         *)
(* aram-core's system machine is external: running it may change its media *)
(* and ends in any way cpu.Result can report.                              *)
(***************************************************************************)
EXTENDS Naturals

CONSTANTS
    Firmwares,  \* content identities of firmware sets
    MaxWrites,  \* bound: how often guests change their media
    NoMachine,  \* backend.machine == nil
    Absent,     \* neither the media file nor its .bak exists
    Unreadable, \* a regular file that readMediaFile rejects
    Irregular,  \* a path that is not a regular file
    Unknown     \* history: what the file held could not be established

VARIABLES
    machine,        \* NoMachine or [content, media]
    state,          \* frontend.BackendState
    restoreFailed,  \* mediaRestoreFailed
    restorePending, \* mediaRestorePending
    warning,        \* mediaWarning # ""
    disk,           \* media file of each firmware set
    based,          \* history: the file content this session descends from
    written,        \* how many media contents guests have produced
    reply           \* the call this step returned from, "failed" if with an error

flags == <<restoreFailed, restorePending, warning>>
vars == <<machine, state, flags, disk, based, written, reply>>

\* Media 0 is what a fresh machine is provisioned with.
Media == 0 .. MaxWrites
Files == Media \union {Absent, Unreadable, Irregular}
Regular == Media \union {Unreadable}
Machines == [content : Firmwares, media : Media]
Loaded == machine # NoMachine

ASSUME SystemMediaAssumption ==
    /\ MaxWrites \in Nat
    /\ NoMachine \notin Machines
    /\ \A token \in {Absent, Unreadable, Irregular, Unknown} : token \notin Media
    /\ Unreadable \notin {Absent, Irregular, Unknown}
    /\ Absent \notin {Irregular, Unknown}
    /\ Irregular # Unknown

\* Media files of earlier sessions may be there already.
Init ==
    /\ machine = NoMachine
    /\ state = "empty"
    /\ restoreFailed = FALSE
    /\ restorePending = FALSE
    /\ warning = FALSE
    /\ disk \in [Firmwares -> {0, Absent, Unreadable, Irregular}]
    /\ based = Unknown
    /\ written = 0
    /\ reply = "none"

-----------------------------------------------------------------------------
(* Pieces shared by the operations. *)

Replies(call) == reply' = call

\* Backend.Capability.
OfferedIn ==
    [start |-> {"ready", "paused", "stopped"},
     pauseResume |-> {"running", "paused"},
     stop |-> {"running", "paused"},
     reset |-> {"ready", "running", "paused", "stopped"},
     frame |-> {"ready", "paused"}]

Supports(command) == state \in OfferedIn[command]

File == disk[machine.content]

\* Faulty: a session that could not look at the file writes it all the same.
GuardedIfFailed == restoreFailed

\* persistCurrentMedia must leave the file alone: it could not be restored, or
\* it has only now become visible to a session that started without it.
Guarded == restoreFailed \/ (restorePending /\ File \in Regular)

\* What is on disk after a persistCurrentMedia that reports no error.
CanPersist == Guarded \/ File # Irregular
Persisted ==
    IF Guarded THEN disk ELSE [disk EXCEPT ![machine.content] = machine.media]

\* Faulty: the file found late is left pending and looked for again.
PersistKeepsPending ==
    /\ CanPersist
    /\ disk' = Persisted
    /\ based' = IF Guarded THEN based ELSE machine.media
    /\ restoreFailed' = Guarded
    /\ UNCHANGED restorePending
    /\ warning' = IF restorePending THEN Guarded ELSE warning

\* Faulty: any persistCurrentMedia without an error takes the warning down.
PersistHidesWarning ==
    /\ CanPersist
    /\ disk' = Persisted
    /\ based' = IF Guarded THEN based ELSE machine.media
    /\ restoreFailed' = Guarded
    /\ restorePending' = FALSE
    /\ warning' = FALSE

PersistMedia ==
    /\ CanPersist
    /\ disk' = Persisted
    /\ based' = IF Guarded THEN based ELSE machine.media
    /\ restoreFailed' = Guarded
    /\ restorePending' = FALSE
    /\ warning' = IF restorePending THEN Guarded ELSE warning

\* A path, lstat, SaveMedia or write error; nothing has been touched.
PersistFails == ~restoreFailed /\ UNCHANGED <<disk, based, flags>>

\* restoreMedia of the candidate for firmware c, and what is published with it.
\* Any failure leaves the candidate as a fresh machine.
RestoreMedia(c) ==
    \/ /\ disk'[c] \in Media
       /\ machine' = [content |-> c, media |-> disk'[c]]
       /\ based' = disk'[c]
       /\ restoreFailed' = FALSE
       /\ restorePending' = FALSE
       /\ warning' = FALSE
    \/ /\ disk'[c] = Absent
       /\ machine' = [content |-> c, media |-> 0]
       /\ based' = Absent
       /\ restoreFailed' = FALSE
       /\ restorePending' = FALSE
       /\ warning' = FALSE
    \/ /\ disk'[c] \in Regular
       /\ machine' = [content |-> c, media |-> 0]
       /\ based' = Unknown
       /\ restoreFailed' = TRUE
       /\ restorePending' = FALSE
       /\ warning' = TRUE
    \/ /\ machine' = [content |-> c, media |-> 0]
       /\ based' = Unknown
       /\ restoreFailed' = FALSE
       /\ restorePending' = TRUE
       /\ warning' = TRUE

\* machine.Run: the media may change, and the run ends in one of the states
\* given or with an error.
GuestRuns(ends) ==
    /\ \/ UNCHANGED <<machine, written>>
       \/ /\ written < MaxWrites
          /\ written' = written + 1
          /\ machine' = [machine EXCEPT !.media = written + 1]
    /\ state' \in ends \union {"faulted"}
    /\ Replies(IF state' = "faulted" THEN "failed" ELSE "frame")

-----------------------------------------------------------------------------
(* Open and Close. *)

\* The directory is not a firmware set, or no machine can be built for it.
OpenRejected ==
    /\ Replies("failed")
    /\ UNCHANGED <<machine, state, flags, disk, based, written>>

OpenCannotSave ==
    /\ Loaded
    /\ PersistFails
    /\ Replies("failed")
    /\ UNCHANGED <<machine, state, written>>

\* Faulty: the file is restored into the candidate before the session in
\* progress has been saved.
OpenRestoresFirst(c) ==
    /\ IF Loaded THEN CanPersist /\ disk' = Persisted ELSE UNCHANGED disk
    /\ disk[c] \in Media
    /\ machine' = [content |-> c, media |-> disk[c]]
    /\ based' = disk[c]
    /\ restoreFailed' = FALSE
    /\ restorePending' = FALSE
    /\ warning' = FALSE
    /\ state' = "ready"
    /\ Replies("open")
    /\ UNCHANGED written

\* Faulty: the session in progress is dropped without being saved.
OpenForgetsToSave(c) ==
    /\ UNCHANGED disk
    /\ RestoreMedia(c)
    /\ state' = "ready"
    /\ Replies("open")
    /\ UNCHANGED written

\* The session in progress is saved before the new one's media are read.
Open(c) ==
    /\ IF Loaded THEN CanPersist /\ disk' = Persisted ELSE UNCHANGED disk
    /\ RestoreMedia(c)
    /\ state' = "ready"
    /\ Replies("open")
    /\ UNCHANGED written

\* A Close that cannot save keeps the whole session for a retry.  An error of
\* the machine's own Close is reported after everything has been dropped.
Close ==
    /\ \/ /\ Loaded
          /\ PersistFails
          /\ Replies("failed")
          /\ UNCHANGED <<machine, state>>
       \/ /\ IF Loaded THEN CanPersist /\ disk' = Persisted ELSE UNCHANGED disk
          /\ machine' = NoMachine
          /\ state' = "empty"
          /\ restoreFailed' = FALSE
          /\ restorePending' = FALSE
          /\ warning' = FALSE
          /\ based' = Unknown
          /\ Replies("close") \/ (Loaded /\ Replies("closedWithError"))
    /\ UNCHANGED written

\* The operating system ends the process; only the media files remain.
Kill ==
    /\ Loaded
    /\ machine' = NoMachine
    /\ state' = "empty"
    /\ restoreFailed' = FALSE
    /\ restorePending' = FALSE
    /\ warning' = FALSE
    /\ based' = Unknown
    /\ Replies("none")
    /\ UNCHANGED <<disk, written>>

-----------------------------------------------------------------------------
(* ExecuteCommand and RunFrame: any error leaves the state faulted. *)

Start ==
    /\ Supports("start")
    /\ state' = "running"
    /\ Replies("start")
    /\ UNCHANGED <<machine, flags, disk, based, written>>

PauseResume ==
    /\ Supports("pauseResume")
    /\ state' = IF state = "running" THEN "paused" ELSE "running"
    /\ Replies("pauseResume")
    /\ UNCHANGED <<machine, flags, disk, based, written>>

\* machine.Stop fails, or the media of the stopped machine cannot be saved:
\* either way the session is faulted.
Stop ==
    /\ Supports("stop")
    /\ \/ state' = "stopped" /\ PersistMedia /\ Replies("stop")
       \/ /\ state' = "faulted"
          /\ Replies("failed")
          /\ UNCHANGED <<disk, based, flags>>
    /\ UNCHANGED <<machine, written>>

\* PowerCycle keeps the media.
Reset ==
    /\ Supports("reset")
    /\ \/ state' = "ready" /\ Replies("reset")
       \/ state' = "faulted" /\ Replies("failed")
    /\ UNCHANGED <<machine, flags, disk, based, written>>

Frame ==
    /\ Supports("frame")
    /\ GuestRuns({state, "paused", "stopped"})
    /\ UNCHANGED <<flags, disk, based>>

RunFrame ==
    /\ state = "running"
    /\ GuestRuns({"running", "paused", "stopped"})
    /\ UNCHANGED <<flags, disk, based>>

Next ==
    \/ OpenRejected
    \/ OpenCannotSave
    \/ \E c \in Firmwares : Open(c)
    \/ Close
    \/ Kill
    \/ Start
    \/ PauseResume
    \/ Stop
    \/ Reset
    \/ Frame
    \/ RunFrame

Spec == Init /\ [][Next]_vars

-----------------------------------------------------------------------------

\* Types of the variables; there is a state exactly when there is a machine,
\* and a failed restore is no longer pending.
TypeOK ==
    /\ machine \in Machines \union {NoMachine}
    /\ state \in {"empty", "ready", "running", "paused", "stopped", "faulted"}
    /\ Loaded <=> state # "empty"
    /\ restoreFailed \in BOOLEAN
    /\ restorePending \in BOOLEAN
    /\ ~(restoreFailed /\ restorePending)
    /\ warning \in BOOLEAN
    /\ disk \in [Firmwares -> Files]
    /\ based \in Files \union {Unknown}
    /\ written \in 0 .. MaxWrites
    /\ reply \in {"none", "failed", "open", "close", "closedWithError", "start",
                  "pauseResume", "stop", "reset", "frame"}

\* "A fresh machine opened after a restore error must not replace the user's
\* unreadable media with its default contents" (backend.go:750), nor those that
\* only come back into view during the session (backend.go:760): a media file
\* is only overwritten by a session that descends from exactly that file.
MediaPreserved ==
    [][\A c \in Firmwares :
         disk[c] \in Regular /\ disk'[c] # disk[c]
         => Loaded /\ machine.content = c /\ based = disk[c]]_vars

\* "The warning remains visible" (backend.go:751): as long as a session may end
\* without being saved, the user is told.
UnsavedIsWarned == restoreFailed \/ restorePending => warning

\* A session is only replaced or closed with its media on disk, or under a
\* warning; a stop that reports success has saved them too.
HandOver ==
    [][ /\ Loaded
        /\ reply' \in {"open", "close", "closedWithError", "stop"}
        => disk'[machine.content] = machine.media \/ warning ]_vars

\* Without a warning the session is at least as recent as its media file,
\* through any sequence of failed saves, replacements and killed processes.
NoSilentRollback ==
    Loaded /\ ~warning =>
        \/ disk[machine.content] = Absent
        \/ /\ disk[machine.content] \in Media
           /\ disk[machine.content] <= machine.media
=============================================================================
