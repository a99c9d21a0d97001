---------------------------- MODULE LibretroCore ----------------------------
(***************************************************************************)
(* The libretro core: libretro.Core behind the bridge of cmd/aram-libretro *)
(* and the retro_ functions of libretro.c, as far as sessions and saves    *)
(* are concerned.  A front end calls one function at a time, so each is    *)
(* one action; its alternatives are the points at which the machine or the *)
(* disk makes it fail.  A save file is the atomic register of AtomicSave.  *)
(*                                                                         *)
(* The front end keeps to libretro.h: it runs only what it has loaded, and *)
(* unloads before it deinitializes.  aram-core's machine is external, as   *)
(* in AppBackend.  Video, audio and input are in LibretroHost and          *)
(* LibretroInput.                                                          *)
(***************************************************************************)
EXTENDS Naturals

CONSTANTS
    Games,      \* SHA-256 identities of contents
    MaxWrites,  \* bound: how often guests change their storage
    NoMachine,  \* core.machine == nil
    NoGame,     \* the front end has no game loaded
    Empty,      \* empty writable storage, or no save file
    Unreadable  \* a save file that cannot be read or imported

VARIABLES
    ready,      \* bridge.core # nil
    directory,  \* saveDirectory # ""
    machine,    \* NoMachine or [game, state, storage]
    started,    \* core.started
    game,       \* the game the front end was told is loaded
    disk,       \* <sha256>.aramsave of each game
    slot,       \* a save state the front end keeps, as a set of at most one
    rolled,     \* history: the user loaded an older state
    written,    \* how many storage contents guests have produced
    reply       \* the call this step returned from, "failed" if with an error

vars == <<ready, directory, machine, started, game, disk, slot, rolled,
          written, reply>>
session == <<ready, directory, game>>

\* A storage content names the game whose guest produced it; number 0 is what
\* an earlier session left on disk.
Storage == (Games \X (0 .. MaxWrites)) \union {Empty}
States == {"ready", "running", "paused", "stopped", "faulted"}
Machines == [game : Games, state : States, storage : Storage]
Loaded == machine # NoMachine

ASSUME LibretroCoreAssumption ==
    /\ MaxWrites \in Nat
    /\ NoMachine \notin Machines \union [title : Games, content : Storage]
    /\ NoGame \notin Games
    /\ Empty \notin Games \X (0 .. MaxWrites)
    /\ Unreadable \notin Storage

\* The envelope binds a state to the SHA-256 of its content.
SlotFiles == Machines

CanContinue(m) == m.state \in {"ready", "running", "paused"}
Halted(m) == m.state \in {"stopped", "faulted"}

Init ==
    /\ ready = FALSE
    /\ directory = FALSE
    /\ machine = NoMachine
    /\ started = FALSE
    /\ game = NoGame
    /\ disk \in [Games -> Storage \union {Unreadable}]
    /\ \A g \in Games : disk[g] \in {Empty, Unreadable, <<g, 0>>}
    /\ slot = {}
    /\ rolled = FALSE
    /\ written = 0
    /\ reply = "none"

-----------------------------------------------------------------------------
(* Pieces shared by the calls. *)

Replies(call) == reply' = call

\* persistSaveData of machine m: there may be no path to write to, or nothing
\* to write.  An export, directory or write error leaves the file alone.
Persisted(m) ==
    IF directory /\ m.storage # Empty
      THEN [disk EXCEPT ![m.game] = m.storage]
      ELSE disk
PersistFails == directory

\* Faulty: the session is dropped although it could not be saved.
UnloadGivesUp ==
    /\ PersistFails
    /\ machine' = NoMachine
    /\ started' = FALSE
    /\ UNCHANGED disk

\* Core.Unload that could not save: the machine stays for a retry, paused if
\* it was running and Pause succeeded.
UnloadFails ==
    /\ PersistFails
    /\ \/ UNCHANGED <<machine, started>>
       \/ /\ machine.state = "running"
          /\ machine' = [machine EXCEPT !.state = "paused"]
          /\ started' = FALSE
    /\ UNCHANGED disk

\* Faulty: the next machine is taken for a started one.
UnloadedStarted ==
    /\ disk' = IF Loaded THEN Persisted(machine) ELSE disk
    /\ machine' = NoMachine
    /\ UNCHANGED started

\* Core.Unload that saved, whatever releaseControls, Pause and Close reported.
Unloaded ==
    /\ disk' = IF Loaded THEN Persisted(machine) ELSE disk
    /\ machine' = NoMachine
    /\ started' = FALSE

\* Guest code runs: m becomes n.  It may produce a new storage content, and
\* the machine reports an error (ok = FALSE) or one of its states.
GuestRuns(m, n, ok) ==
    /\ n \in [game : {m.game},
              state : IF ok THEN {"running", "paused", "stopped"}
                            ELSE {m.state, "stopped", "faulted"},
              storage : {m.storage} \union
                        ({m.game} \X {k \in {written + 1} : k <= MaxWrites})]
    /\ written' = IF n.storage = m.storage THEN written ELSE written + 1
    /\ machine' = n

-----------------------------------------------------------------------------
(* The calls of the front end. *)

\* A new core; the front end may have no save directory to offer.
RetroInit ==
    /\ ~ready
    /\ ready' = TRUE
    /\ directory' \in BOOLEAN
    /\ Replies("init")
    /\ UNCHANGED <<machine, started, game, disk, slot, rolled, written>>

\* The bridge closes the core, ignores the error and forgets it.
RetroDeinit ==
    /\ ready
    /\ game = NoGame
    /\ \/ Unloaded
       \/ /\ Loaded
          /\ PersistFails
          /\ machine' = NoMachine
          /\ started' = FALSE
          /\ UNCHANGED disk
    /\ ready' = FALSE
    /\ directory' = FALSE
    /\ rolled' = FALSE
    /\ Replies("deinit")
    /\ UNCHANGED <<game, slot, written>>

\* No data, no XRGB8888, or a buffer the bridge rejects.
LoadRefused ==
    /\ ready
    /\ game = NoGame
    /\ Replies("failed")
    /\ UNCHANGED <<session, machine, started, disk, slot, rolled, written>>

\* Faulty: the error of the Unload is lost and the old session taken for the
\* new one.
LoadIgnoresUnload ==
    /\ ready
    /\ game = NoGame
    /\ Loaded
    /\ UnloadFails
    /\ game' \in Games
    /\ Replies("load")
    /\ UNCHANGED <<ready, directory, slot, rolled, written>>

\* The session an earlier unload left behind still cannot be saved.
LoadCannotReplace ==
    /\ ready
    /\ game = NoGame
    /\ Loaded
    /\ UnloadFails
    /\ Replies("failed")
    /\ UNCHANGED <<session, slot, rolled, written>>

\* The old session is closed, but its Close reports an error, the content is no
\* application, no machine can be made of it, or its save cannot be read or
\* imported.
LoadFails ==
    /\ ready
    /\ game = NoGame
    /\ Unloaded
    /\ rolled' = FALSE
    /\ Replies("failed")
    /\ UNCHANGED <<session, slot, written>>

\* Faulty: a save that cannot be read is treated as none.
RestoredAnyhow(g) ==
    IF directory /\ disk'[g] # Unreadable THEN disk'[g] ELSE Empty

\* Faulty: the save is read before the session left behind has been saved.
RestoredFirst(g) == IF directory THEN disk[g] ELSE Empty

\* What a new machine for g starts from, unless its save is unreadable.
Restored(g) == IF directory THEN disk'[g] ELSE Empty

LoadGame(g) ==
    /\ ready
    /\ game = NoGame
    /\ disk' = IF Loaded THEN Persisted(machine) ELSE disk
    /\ Restored(g) # Unreadable
    /\ machine' = [game |-> g, state |-> "ready", storage |-> Restored(g)]
    /\ started' = FALSE
    /\ game' = g
    /\ rolled' = FALSE
    /\ Replies("load")
    /\ UNCHANGED <<ready, directory, slot, written>>

\* The front end is not told whether it worked.
RetroUnloadGame ==
    /\ game # NoGame
    /\ \/ UnloadFails /\ Replies("failed") /\ UNCHANGED rolled
       \/ Unloaded /\ Replies("unload") /\ rolled' = FALSE
    /\ game' = NoGame
    /\ UNCHANGED <<ready, directory, slot, written>>

\* A key event is rejected before the guest has run.
RunRefused ==
    /\ game # NoGame
    /\ Replies("failed")
    /\ UNCHANGED <<session, machine, started, disk, slot, rolled, written>>

\* Start or StepFrame reports an error.
RunFails ==
    /\ game # NoGame
    /\ ~Halted(machine)
    /\ \E n \in Machines : GuestRuns(machine, n, FALSE)
    /\ Replies("failed")
    /\ UNCHANGED <<session, started, disk, slot, rolled>>

\* A halted guest holds its last frame; another is started, or stepped if it
\* was.  A guest that has run and exited is saved, the error ignored.  There
\* may be no picture to return in the end.
Run ==
    /\ game # NoGame
    /\ IF Halted(machine)
         THEN UNCHANGED <<machine, written>>
         ELSE \E n \in Machines : GuestRuns(machine, n, TRUE)
    /\ LET running == IF Halted(machine) \/ started
                        THEN started ELSE CanContinue(machine')
           exits == running /\ machine'.state = "stopped"
       IN  /\ started' = (running /\ ~exits)
           /\ disk' \in IF exits THEN {disk, Persisted(machine')}
                                 ELSE {disk}
    /\ Replies("run") \/ Replies("failed")
    /\ UNCHANGED <<session, slot, rolled>>

\* The machine's Reset keeps the writable storage, and nothing is saved before.
RetroReset ==
    /\ game # NoGame
    /\ \/ /\ machine' \in {machine, [machine EXCEPT !.state = "faulted"]}
          /\ UNCHANGED started
          /\ Replies("failed")
       \/ /\ machine' = [machine EXCEPT !.state = "ready"]
          /\ started' = FALSE
          /\ Replies("reset")
    /\ UNCHANGED <<session, disk, slot, rolled, written>>

RetroSerialize ==
    /\ game # NoGame
    /\ \/ slot' = {machine} /\ Replies("serialize")
       \/ UNCHANGED slot /\ Replies("failed")
    /\ UNCHANGED <<session, machine, started, disk, rolled, written>>

\* Faulty: the digest in the envelope is not compared.
UnserializeAny ==
    /\ game # NoGame
    /\ \E file \in slot :
         /\ machine' = [file EXCEPT !.game = machine.game]
         /\ started' = CanContinue(file)
         /\ rolled' = TRUE
         /\ Replies("unserialize")
    /\ UNCHANGED <<session, disk, slot, written>>

\* A state of other content is rejected, and a bad one by the machine before it
\* changes anything.
RetroUnserialize ==
    /\ game # NoGame
    /\ \/ Replies("failed") /\ UNCHANGED <<machine, started, rolled>>
       \/ \E file \in slot :
            /\ file.game = machine.game
            /\ machine' = file
            /\ started' = CanContinue(file)
            /\ rolled' = TRUE
            /\ Replies("unserialize")
    /\ UNCHANGED <<session, disk, slot, written>>

\* The operating system ends the front end; files remain.
Kill ==
    /\ ready
    /\ ready' = FALSE
    /\ directory' = FALSE
    /\ machine' = NoMachine
    /\ started' = FALSE
    /\ game' = NoGame
    /\ rolled' = FALSE
    /\ Replies("none")
    /\ UNCHANGED <<disk, slot, written>>

Next ==
    \/ RetroInit
    \/ RetroDeinit
    \/ LoadRefused
    \/ LoadCannotReplace
    \/ LoadFails
    \/ \E g \in Games : LoadGame(g)
    \/ RetroUnloadGame
    \/ RunRefused
    \/ RunFails
    \/ Run
    \/ RetroReset
    \/ RetroSerialize
    \/ RetroUnserialize
    \/ Kill

Spec == Init /\ [][Next]_vars

\* A front end calls retro_run for every frame of a loaded game.
FairSpec == Spec /\ WF_vars(Run)

-----------------------------------------------------------------------------

\* Types of the variables; a game is only started in a machine.
TypeOK ==
    /\ ready \in BOOLEAN
    /\ directory \in BOOLEAN
    /\ machine \in Machines \union {NoMachine}
    /\ started \in BOOLEAN
    /\ started => Loaded
    /\ ready \/ (~directory /\ ~Loaded)
    /\ game \in Games \union {NoGame}
    /\ disk \in [Games -> Storage \union {Unreadable}]
    /\ slot \in SUBSET SlotFiles
    /\ rolled \in BOOLEAN
    /\ written \in 0 .. MaxWrites
    /\ reply \in {"none", "failed", "init", "deinit", "load", "unload", "run",
                  "reset", "serialize", "unserialize"}

\* The front end's idea of the loaded game and the machine agree, although a
\* failed unload leaves a machine the front end knows nothing of: what
\* retro_run, retro_reset and the states act on is the game it last loaded.
RunsWhatWasLoaded ==
    game # NoGame => Loaded /\ machine.game = game

\* Storage content b may belong to game g.
Owns(g, b) == b \in {Empty, Unreadable} \/ b[1] = g

\* No sequence of loads, failed unloads and states moves the storage of one
\* content into the save or the state of another.
SavesStayWithTheirGame ==
    /\ Loaded => Owns(machine.game, machine.storage)
    /\ \A g \in Games : Owns(g, disk[g])
    /\ \A file \in slot : Owns(file.game, file.storage)

Age(b) == IF b \in {Empty, Unreadable} THEN 0 ELSE b[2] + 1

\* Unless the user loaded a state, a session is never older than its save file,
\* through any sequence of failed unloads, retries, killed front ends and
\* reloads: saving it cannot lose progress, nor replace a save that could not
\* be read.
NoSilentRollback ==
    Loaded /\ directory /\ ~rolled =>
        /\ disk[machine.game] # Unreadable
        /\ Age(disk[machine.game]) <= Age(machine.storage)

\* "Retain the loaded machine and save identity so unloading can be retried"
\* (core.go:298): as long as the core lives, a machine is only dropped or
\* replaced once its storage is on disk.
HandOver ==
    [][ /\ Loaded /\ directory
        /\ machine.storage # Empty
        /\ machine' = NoMachine \/ reply' = "load"
        /\ reply' \notin {"deinit", "none"}
        => disk'[machine.game] = machine.storage ]_vars

\* The core implements the abstract host.  Without a save directory there is no
\* session, as far as saves go.
Session == INSTANCE SaveSession WITH
    Titles <- Games,
    Contents <- Storage,
    NoSession <- NoMachine,
    current <- IF Loaded /\ directory
                 THEN [title |-> machine.game, content |-> machine.storage]
                 ELSE NoMachine,
    stored <- disk

SessionSpec == Session!Spec

Unsaved ==
    /\ Loaded /\ directory
    /\ machine.storage # Empty
    /\ disk[machine.game] # machine.storage

InPlay == game # NoGame /\ machine.state = "running"

\* What a game that is played for ever has written is saved at some time.
\* libretro.h:1309-1310: "Cores that use this environment callback should flush
\* their save data to disk periodically and when unloading".
FlushedPeriodically ==
    Unsaved /\ InPlay ~> ~Unsaved \/ ~InPlay
=============================================================================
