----------------------------- MODULE AppBackend -----------------------------
(***************************************************************************)
(* integration.Backend: one application machine at a time, its run intent, *)
(* and the saves, save states and backups of every title on disk.          *)
(*                                                                         *)
(* Every operation below holds operationMu from entry to return, so it is  *)
(* one action; the alternatives of an action are the points at which the   *)
(* core or the disk makes it fail.  A process killed inside an operation   *)
(* leaves the disk as one of those alternatives does and nothing else, so  *)
(* Kill needs no finer steps.  A disk write is the atomic register of      *)
(* AtomicSave.  aram-core's machine is external: executing guest code may  *)
(* change the writable storage and ends in any state the core can report.  *)
(*                                                                         *)
(* The frame sequence and the cheat catalog, which lock-free callers read  *)
(* in the middle of an Open, have modules of their own.                    *)
(***************************************************************************)
EXTENDS Naturals

CONSTANTS
    Titles,     \* input SHA-256 identities
    Diagnostic, \* titles under the GVM diagnostic profile
    Slots,      \* save-state slots in use
    MaxWrites,  \* bound: how often guests change their storage
    NoMachine,  \* backend.machine == nil
    Empty       \* empty writable storage, or no file

VARIABLES
    machine,      \* NoMachine or [title, state, storage]
    runRequested, \* the product-level running intent
    disk,         \* savedata.bin of each title
    slots,        \* slot-N.aramstate files in each title's directory
    backup,       \* the last .aramsave exported for each title
    panel,        \* the memory panel's Session: "none", "stale" or "current"
    selected,     \* memoryTool.selected # nil
    fresh,        \* history: memory was not replaced since the selection
    rolled,       \* history: the user restored an older storage
    written,      \* how many storage contents guests have produced
    reply         \* the call this step returned from, "failed" if with an error

files == <<disk, slots, backup>>
tool == <<panel, selected, fresh>>
vars == <<machine, runRequested, disk, slots, backup, panel, selected, fresh,
          rolled, written, reply>>
counts == <<rolled, written>>

\* A storage content names the title whose guest produced it.
Storage == (Titles \X (1 .. MaxWrites)) \union {Empty}
States == {"ready", "running", "paused", "stopped", "faulted"}
Machines == [title : Titles, state : States, storage : Storage]
Loaded == machine # NoMachine

ASSUME AppBackendAssumption ==
    /\ Diagnostic \subseteq Titles
    /\ MaxWrites \in Nat
    /\ Empty \notin Titles \X (1 .. MaxWrites)
    /\ NoMachine \notin Machines \union Storage
    /\ NoMachine \notin [title : Titles, content : Storage]

\* A save-state file: the header's InputSHA256 and the machine it snapshots.
SlotFiles == [title : Titles, storage : Storage]

CanContinue(m) == m.state \in {"ready", "running", "paused"}

Init ==
    /\ machine = NoMachine
    /\ runRequested = FALSE
    /\ disk = [t \in Titles |-> Empty]
    /\ slots = [t \in Titles |-> [s \in Slots |-> {}]]
    /\ backup = [t \in Titles |-> {}]
    /\ panel = "none"
    /\ selected = FALSE
    /\ fresh = FALSE
    /\ rolled = FALSE
    /\ written = 0
    /\ reply = "none"

-----------------------------------------------------------------------------
(* Pieces shared by the operations. *)

\* Backend.State: the running intent outranks the core's own state.
State ==
    IF Loaded
      THEN IF runRequested /\ CanContinue(machine) THEN "running" ELSE machine.state
      ELSE "empty"

\* Backend.Capability: the states each command is offered in.
OfferedIn ==
    [start |-> {"ready", "paused", "stopped"},
     pauseResume |-> {"running", "paused"},
     stop |-> {"running", "paused"},
     reset |-> States \ {"faulted"},
     frame |-> {"ready", "paused"},
     saveState |-> States,
     loadState |-> States]

Supports(command) ==
    /\ Loaded
    /\ machine.title \in Diagnostic =>
         /\ command \notin {"pauseResume", "frame", "saveState", "loadState"}
         /\ command = "start" => State = "ready"
    /\ State \in OfferedIn[command]

Replies(call) == reply' = call

\* invalidateMemoryTool: a new session, no selection.
InvalidateMemoryTool ==
    /\ panel' = IF panel = "none" THEN "none" ELSE "stale"
    /\ selected' = FALSE

\* persistSaveData of machine m, and whether it reported success: an export or
\* a write may fail without effect, and an empty export writes nothing.
PersistSaveData(m, ok) ==
    disk' = IF ok /\ m.storage # Empty
              THEN [disk EXCEPT ![m.title] = m.storage]
              ELSE disk

\* Guest code runs: m becomes n.  It may produce a new storage content, and
\* the core reports an error (ok = FALSE) or one of its states.
GuestRuns(m, n, ok) ==
    /\ n \in [title : {m.title},
              state : IF ok THEN {"running", "paused", "stopped"}
                            ELSE {m.state, "faulted"},
              storage : {m.storage} \union
                        ({m.title} \X {k \in {written + 1} : k <= MaxWrites})]
    /\ written' = IF n.storage = m.storage THEN written ELSE written + 1
    /\ machine' = n

\* Faulty: the core is left without a loaded image.
RebootsEmpty(m) == [m EXCEPT !.state = "empty"]

\* The core's Reset re-bootstraps the guest and keeps its writable storage; a
\* Reset that fails may leave the machine faulted.
Rebooted(m) == [m EXCEPT !.state = "ready"]
Faulted(m) == [m EXCEPT !.state = "faulted"]

-----------------------------------------------------------------------------
(* Open and Close. *)

\* inspectSource, the factory or the core's Load fails, or firmware was asked
\* for: nothing has been touched.
OpenRejected ==
    /\ Replies("failed")
    /\ UNCHANGED <<machine, runRequested, files, tool, counts>>

\* The current title cannot be saved: the candidate is closed, the title stays.
OpenCannotSave ==
    /\ Loaded
    /\ PersistSaveData(machine, FALSE)
    /\ Replies("failed")
    /\ UNCHANGED <<machine, runRequested, slots, backup, tool, counts>>

\* The new title's save cannot be read or imported, after the current one was
\* saved: the candidate is closed, the title stays.
OpenCannotRestore ==
    /\ IF Loaded THEN PersistSaveData(machine, TRUE) ELSE UNCHANGED disk
    /\ Replies("failed")
    /\ UNCHANGED <<machine, runRequested, slots, backup, tool, counts>>

\* Faulty: the new title's save is read before the current one is written.
OpenRestoresFirst(t) ==
    /\ IF Loaded THEN PersistSaveData(machine, TRUE) ELSE UNCHANGED disk
    /\ machine' = [title |-> t, state |-> "ready", storage |-> disk[t]]
    /\ runRequested' = FALSE
    /\ InvalidateMemoryTool
    /\ fresh' = FALSE
    /\ Replies("open")
    /\ rolled' = FALSE
    /\ UNCHANGED <<slots, backup, written>>

\* Faulty: the current title is not saved when it is replaced.
OpenForgetsToSave(t) ==
    /\ UNCHANGED disk
    /\ machine' = [title |-> t, state |-> "ready", storage |-> disk[t]]
    /\ runRequested' = FALSE
    /\ InvalidateMemoryTool
    /\ fresh' = FALSE
    /\ Replies("open")
    /\ rolled' = FALSE
    /\ UNCHANGED <<slots, backup, written>>

\* The current title is saved first, the new one restored from what is then on
\* disk and published, the old machine closed.
Open(t) ==
    /\ IF Loaded THEN PersistSaveData(machine, TRUE) ELSE UNCHANGED disk
    /\ machine' = [title |-> t, state |-> "ready", storage |-> disk'[t]]
    /\ runRequested' = FALSE
    /\ InvalidateMemoryTool
    /\ fresh' = FALSE
    /\ Replies("open")
    /\ rolled' = FALSE
    /\ UNCHANGED <<slots, backup, written>>

\* A Close that cannot save keeps everything for a retry.  An error of the
\* core's own Close is reported after everything has been dropped.
Close ==
    /\ \/ /\ Loaded
          /\ PersistSaveData(machine, FALSE)
          /\ Replies("failed")
          /\ UNCHANGED <<machine, runRequested, tool, rolled>>
       \/ /\ IF Loaded THEN PersistSaveData(machine, TRUE) ELSE UNCHANGED disk
          /\ machine' = NoMachine
          /\ runRequested' = FALSE
          /\ InvalidateMemoryTool
          /\ fresh' = FALSE
          /\ rolled' = FALSE
          /\ \/ Replies("close")
             \/ Loaded /\ Replies("closedWithError")
    /\ UNCHANGED <<slots, backup, written>>

\* The operating system ends the process; only files remain.
Kill ==
    /\ Loaded
    /\ machine' = NoMachine
    /\ runRequested' = FALSE
    /\ panel' = "none"
    /\ selected' = FALSE
    /\ fresh' = FALSE
    /\ rolled' = FALSE
    /\ Replies("none")
    /\ UNCHANGED <<files, written>>

-----------------------------------------------------------------------------
(* ExecuteCommand and RunFrame. *)

\* Start on a stopped guest resets it first, which may itself fail.
Start ==
    /\ Supports("start")
    /\ \/ /\ machine.state = "stopped"
          /\ InvalidateMemoryTool
          /\ Replies("failed")
          /\ machine' \in {machine, Faulted(machine)}
          /\ UNCHANGED <<runRequested, fresh, written>>
       \/ /\ fresh' = (fresh /\ machine.state # "stopped")
          /\ \E n \in Machines, ok \in BOOLEAN :
               /\ GuestRuns(IF machine.state = "stopped"
                              THEN Rebooted(machine) ELSE machine, n, ok)
               /\ runRequested' = IF ok THEN CanContinue(n) ELSE runRequested
               /\ IF machine.state = "stopped" \/ (ok /\ ~CanContinue(n))
                    THEN InvalidateMemoryTool
                    ELSE UNCHANGED <<panel, selected>>
               /\ Replies(IF ok THEN "start" ELSE "failed")
    /\ UNCHANGED <<files, rolled>>

PauseResume ==
    /\ Supports("pauseResume")
    /\ runRequested' = (~runRequested /\ CanContinue(machine))
    /\ Replies("pauseResume")
    /\ UNCHANGED <<machine, files, tool, counts>>

\* Faulty: the storage is left to the next Close.
StopWithoutSaving ==
    /\ Supports("stop")
    /\ InvalidateMemoryTool
    /\ runRequested' = FALSE
    /\ machine' = [machine EXCEPT !.state = "stopped"]
    /\ Replies("stop")
    /\ UNCHANGED <<files, fresh, counts>>

Stop ==
    /\ Supports("stop")
    /\ InvalidateMemoryTool
    /\ runRequested' = FALSE
    /\ \/ Replies("failed") /\ UNCHANGED <<machine, disk>>
       \/ \E saved \in BOOLEAN :
            /\ machine' = [machine EXCEPT !.state = "stopped"]
            /\ PersistSaveData(machine, saved)
            /\ Replies(IF saved THEN "stop" ELSE "failed")
    /\ UNCHANGED <<slots, backup, fresh, counts>>

\* The machine is reset even when saving failed; both errors are reported.
Reset ==
    /\ Supports("reset")
    /\ runRequested' = FALSE
    /\ InvalidateMemoryTool
    /\ \E saved, booted \in BOOLEAN :
         /\ PersistSaveData(machine, saved)
         /\ machine' \in IF booted THEN {Rebooted(machine)}
                         ELSE {machine, Faulted(machine)}
         /\ fresh' = (fresh /\ ~booted)
         /\ Replies(IF saved /\ booted THEN "reset" ELSE "failed")
    /\ UNCHANGED <<slots, backup, counts>>

\* Frame advance: a guest that ends here is not flushed, unlike in RunFrame.
Frame ==
    /\ Supports("frame")
    /\ \E n \in Machines, ok \in BOOLEAN :
         /\ GuestRuns(machine, n, ok)
         /\ IF ok /\ ~CanContinue(n)
              THEN InvalidateMemoryTool
              ELSE UNCHANGED <<panel, selected>>
         /\ Replies(IF ok THEN "frame" ELSE "failed")
    /\ UNCHANGED <<runRequested, files, fresh, rolled>>

\* Faulty: the run intent survives a guest that ended.
RunFrameKeepsIntent ==
    /\ Loaded
    /\ runRequested
    /\ \E n \in Machines :
         /\ GuestRuns(machine, n, TRUE)
         /\ PersistSaveData(n, ~CanContinue(n))
         /\ IF CanContinue(n) THEN UNCHANGED <<panel, selected>> ELSE InvalidateMemoryTool
         /\ Replies("runFrame")
    /\ UNCHANGED <<runRequested, slots, backup, fresh, rolled>>

\* One guest frame of the play loop.  A core error drops the intent; a guest
\* that ended drops it too and its storage is written.
RunFrame ==
    /\ Loaded
    /\ runRequested
    /\ \E n \in Machines :
         \/ /\ GuestRuns(machine, n, FALSE)
            /\ runRequested' = FALSE
            /\ Replies("failed")
            /\ UNCHANGED <<disk, panel, selected>>
         \/ /\ GuestRuns(machine, n, TRUE)
            /\ CanContinue(n)
            /\ Replies("runFrame")
            /\ UNCHANGED <<runRequested, disk, panel, selected>>
         \/ \E saved \in BOOLEAN :
              /\ GuestRuns(machine, n, TRUE)
              /\ ~CanContinue(n)
              /\ InvalidateMemoryTool
              /\ runRequested' = FALSE
              /\ PersistSaveData(n, saved)
              /\ Replies(IF saved THEN "runFrame" ELSE "failed")
    /\ UNCHANGED <<slots, backup, fresh, rolled>>

-----------------------------------------------------------------------------
(* Save states, save backups and the flush of a mobile host. *)

Snapshot(m) == [title |-> m.title, storage |-> m.storage]

\* The slot is replaced first; only then is the save file written.
SaveState(s) ==
    /\ Supports("saveState")
    /\ \/ Replies("failed") /\ UNCHANGED <<slots, disk>>
       \/ \E saved \in BOOLEAN :
            /\ slots' = [slots EXCEPT ![machine.title][s] = {Snapshot(machine)}]
            /\ PersistSaveData(machine, saved)
            /\ Replies(IF saved THEN "saveState" ELSE "failed")
    /\ UNCHANGED <<machine, runRequested, backup, tool, counts>>

\* Faulty: the header of the slot file is not compared with the loaded title.
LoadAnyState(s) ==
    /\ Supports("loadState")
    /\ InvalidateMemoryTool
    /\ \E file \in slots[machine.title][s], state \in States :
         /\ machine' = [machine EXCEPT !.state = state, !.storage = file.storage]
         /\ runRequested' = (runRequested /\ CanContinue(machine'))
         /\ fresh' = FALSE
         /\ rolled' = TRUE
         /\ Replies("loadState")
    /\ UNCHANGED <<files, written>>

\* Faulty: the memory tool survives a state load.
LoadStateKeepsTool(s) ==
    /\ Supports("loadState")
    /\ \E file \in slots[machine.title][s], state \in States :
         /\ file.title = machine.title
         /\ machine' = [machine EXCEPT !.state = state, !.storage = file.storage]
         /\ runRequested' = (runRequested /\ CanContinue(machine'))
         /\ fresh' = FALSE
         /\ rolled' = TRUE
         /\ Replies("loadState")
    /\ UNCHANGED <<files, panel, selected, written>>

\* The slot must exist, carry this title's header and be accepted by the core,
\* which rejects a bad one before it changes anything.
LoadState(s) ==
    /\ Supports("loadState")
    /\ InvalidateMemoryTool
    /\ \/ /\ Replies("failed")
          /\ UNCHANGED <<machine, runRequested, fresh, rolled>>
       \/ \E file \in slots[machine.title][s], state \in States :
            /\ file.title = machine.title
            /\ machine' = [machine EXCEPT !.state = state, !.storage = file.storage]
            /\ runRequested' = (runRequested /\ CanContinue(machine'))
            /\ fresh' = FALSE
            /\ rolled' = TRUE
            /\ Replies("loadState")
    /\ UNCHANGED <<files, written>>

\* FlushSaveData, called while the Android Activity pauses.
FlushSaveData ==
    /\ Loaded
    /\ \E saved \in BOOLEAN :
         /\ PersistSaveData(machine, saved)
         /\ Replies(IF saved THEN "flush" ELSE "failed")
    /\ UNCHANGED <<machine, runRequested, slots, backup, tool, counts>>

\* The portable backup is written through to the save file as well.
ExportSaveData ==
    /\ Loaded
    /\ \/ /\ machine.storage # Empty
          /\ PersistSaveData(machine, TRUE)
          /\ backup' = [backup EXCEPT ![machine.title] = {Snapshot(machine)}]
          /\ Replies("export")
       \/ Replies("failed") /\ UNCHANGED <<disk, backup>>
    /\ UNCHANGED <<machine, runRequested, slots, tool, counts>>

\* A restored backup reaches the running machine before the save file, so a
\* failed write leaves it in memory only.
ImportSaveData(t) ==
    /\ Loaded
    /\ \/ Replies("failed") /\ UNCHANGED <<machine, disk, rolled>>
       \/ \E file \in backup[t], saved \in BOOLEAN :
            /\ file.title = machine.title
            /\ machine' = [machine EXCEPT !.storage = file.storage]
            /\ PersistSaveData(machine', saved)
            /\ rolled' = TRUE
            /\ Replies(IF saved THEN "import" ELSE "failed")
    /\ UNCHANGED <<runRequested, slots, backup, tool, written>>

-----------------------------------------------------------------------------
(* The memory tool, as far as its session protects it. *)

\* ToolSnapshot, or any request answered with a refreshed snapshot; it drops a
\* selection that can no longer be read.
MemorySnapshot ==
    /\ Loaded
    /\ panel' = "current"
    /\ selected' \in {selected, FALSE}
    /\ Replies("memory")
    /\ UNCHANGED <<machine, runRequested, files, fresh, counts>>

\* A scan, refine or reset starts a session of its own.
MemoryScan ==
    /\ Loaded
    /\ panel = "current"
    /\ selected' = FALSE
    /\ Replies("memory")
    /\ UNCHANGED <<machine, runRequested, files, panel, fresh, counts>>

MemorySelect ==
    /\ Loaded
    /\ panel = "current"
    /\ selected' = TRUE
    /\ fresh' = TRUE
    /\ Replies("memory")
    /\ UNCHANGED <<machine, runRequested, files, panel, counts>>

\* A write needs the current session and a selection.  It pokes guest memory,
\* which is not writable storage, so no variable but the reply moves.
MemoryWrite ==
    /\ Loaded
    /\ panel = "current"
    /\ selected
    /\ Replies("memoryWrite")
    /\ UNCHANGED <<machine, runRequested, files, tool, counts>>

\* A user copies a save-state file into another title's directory.
UserCopiesSlot(from, to, s) ==
    /\ slots' = [slots EXCEPT ![to][s] = slots[from][s]]
    /\ Replies("none")
    /\ UNCHANGED <<machine, runRequested, disk, backup, tool, counts>>

Next ==
    \/ OpenRejected
    \/ OpenCannotSave
    \/ OpenCannotRestore
    \/ \E t \in Titles : Open(t) \/ ImportSaveData(t)
    \/ Close
    \/ Kill
    \/ Start
    \/ PauseResume
    \/ Stop
    \/ Reset
    \/ Frame
    \/ RunFrame
    \/ \E s \in Slots : SaveState(s) \/ LoadState(s)
    \/ FlushSaveData
    \/ ExportSaveData
    \/ MemorySnapshot
    \/ MemoryScan
    \/ MemorySelect
    \/ MemoryWrite
    \/ \E from, to \in Titles, s \in Slots : UserCopiesSlot(from, to, s)

Spec == Init /\ [][Next]_vars

-----------------------------------------------------------------------------

Calls == {"none", "failed", "open", "close", "closedWithError", "start",
          "pauseResume", "stop", "reset", "frame", "runFrame", "saveState",
          "loadState", "flush", "export", "import", "memory", "memoryWrite"}

\* Types of the variables; a published machine is never in the core's empty
\* state.
TypeOK ==
    /\ machine \in Machines \union {NoMachine}
    /\ runRequested \in BOOLEAN
    /\ disk \in [Titles -> Storage]
    /\ slots \in [Titles -> [Slots -> SUBSET SlotFiles]]
    /\ backup \in [Titles -> SUBSET SlotFiles]
    /\ panel \in {"none", "stale", "current"}
    /\ selected \in BOOLEAN
    /\ fresh \in BOOLEAN
    /\ rolled \in BOOLEAN
    /\ written \in 0 .. MaxWrites
    /\ reply \in Calls

\* Storage content b may belong to title t.
Owns(t, b) == b = Empty \/ b[1] = t

\* A title's storage, save file, save states and backups only ever hold what
\* its own guest wrote, although slot files and backups can be moved around
\* by the user and every path is derived from the title loaded at that moment.
TitleKeepsItsSaves ==
    /\ Loaded => Owns(machine.title, machine.storage)
    /\ \A t \in Titles : Owns(t, disk[t])
    /\ \A t \in Titles : \A file \in backup[t] : Owns(file.title, file.storage)
    /\ \A t \in Titles, s \in Slots :
         \A file \in slots[t][s] : Owns(file.title, file.storage)

\* The play loop is only asked to run a machine that can continue: no stop,
\* reset, fault, guest exit, load or replacement leaves the intent behind.
RunIntent == runRequested => Loaded /\ CanContinue(machine)

\* docs/frontend.md:62: a memory selection that a request of the current
\* session can write through was made in the memory the guest has now.
SelectionIsFresh == panel = "current" /\ selected => Loaded /\ fresh

\* A call that reports success after promising to save has the machine's
\* storage on disk, and so has a play-loop frame that ended the guest.
SyncedReplies ==
    /\ Loaded
    /\ machine.storage # Empty
    /\ \/ reply \in {"stop", "reset", "saveState", "flush", "export", "import"}
       \/ reply = "runFrame" /\ ~CanContinue(machine)
    => disk[machine.title] = machine.storage

Age(b) == IF b = Empty THEN 0 ELSE b[2]

\* Unless the user loaded a save state or a backup, the machine is never older
\* than its save file, through any sequence of failed saves, reopened titles
\* and killed processes: writing it back cannot lose progress.
NoSilentRollback ==
    Loaded /\ ~rolled => Age(disk[machine.title]) <= Age(machine.storage)

\* A machine is only replaced or closed once its storage is on disk.
HandOver ==
    [][ /\ Loaded
        /\ machine.storage # Empty
        /\ reply' \in {"open", "close", "closedWithError"}
        => disk'[machine.title] = machine.storage ]_vars

\* The backend implements the host of one title at a time that the libretro
\* core implements.  A save file that cannot be read is an outcome of Open
\* here, not a content of disk, so no file holds Unreadable.
Session == INSTANCE SaveSession WITH
    Contents <- Storage,
    Unreadable <- NoMachine,
    NoSession <- NoMachine,
    current <- IF Loaded
                 THEN [title |-> machine.title, content |-> machine.storage]
                 ELSE NoMachine,
    stored <- disk

SessionSpec == Session!Spec
=============================================================================
