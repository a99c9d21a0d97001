------------------------- MODULE LibretroCoreProofs -------------------------
(***************************************************************************)
(* Proofs about LibretroCore and LibretroInput, for any set of contents,   *)
(* any number of writes and any set of button combinations.                *)
(* RunsWhatWasLoaded is inductive together with the types, and the other   *)
(* invariants rest on both: whose storage is where, and how old it can be. *)
(* With the types alone, every call then maps to a step of the abstract    *)
(* SaveSession, or to none.  The invariants of the keys are inductive      *)
(* together: the keys of the machine stay those in core.controls, event by *)
(* event, and a call that returns has moved both to what it was asked for. *)
(* A core with keys is a core, so what holds of LibretroCore holds of it.  *)
(***************************************************************************)
EXTENDS LibretroInput, TLAPS

Typed == TypeOK /\ RunsWhatWasLoaded

\* Numbers of writes are handed out in order: no storage is newer than the
\* last.
Aged ==
    /\ Loaded => Age(machine.storage) <= written + 1
    /\ \A g \in Games : Age(disk[g]) <= written + 1
    /\ \A file \in slot : Age(file.storage) <= written + 1

-----------------------------------------------------------------------------
(* Pieces of the calls. *)

LEMMA PersistedTyped ==
    ASSUME TypeOK, NEW m \in Machines
    PROVE  Persisted(m) \in [Games -> Storage \union {Unreadable}]
BY DEF TypeOK, Persisted, Machines

LEMMA UnloadedTyped ==
    ASSUME TypeOK, Unloaded
    PROVE  /\ disk' \in [Games -> Storage \union {Unreadable}]
           /\ machine' = NoMachine
           /\ started' = FALSE
BY PersistedTyped DEF TypeOK, Unloaded, Loaded

LEMMA UnloadFailsTyped ==
    ASSUME TypeOK, Loaded, UnloadFails
    PROVE  /\ machine' \in Machines
           /\ machine'.game = machine.game
           /\ machine'.storage = machine.storage
           /\ started' \in BOOLEAN
           /\ disk' = disk
BY DEF TypeOK, Loaded, UnloadFails, Machines, States

\* What a guest can have done when it has run.
LEMMA GuestRunsTyped ==
    ASSUME TypeOK, machine \in Machines, NEW n \in Machines, NEW ok \in BOOLEAN,
           GuestRuns(machine, n, ok)
    PROVE  /\ machine' = n
           /\ n.game = machine.game
           /\ written' \in 0 .. MaxWrites
           /\ \/ n.storage = machine.storage /\ written' = written
              \/ n.storage = <<machine.game, written + 1>> /\ written' = written + 1
<1> USE LibretroCoreAssumption DEF TypeOK
<1>1. machine' = n /\ n.game = machine.game
    BY DEF GuestRuns
<1>2. n.storage = machine.storage
        \/ n.storage \in {machine.game} \X {k \in {written + 1} : k <= MaxWrites}
    BY DEF GuestRuns
<1>3. CASE n.storage = machine.storage
    BY <1>1, <1>3 DEF GuestRuns
<1>4. CASE n.storage # machine.storage
  <2>1. n.storage = <<machine.game, written + 1>> /\ written + 1 <= MaxWrites
    BY <1>2, <1>4
  <2>2. written' = written + 1
    BY <1>4 DEF GuestRuns
  <2> QED
    BY <1>1, <2>1, <2>2
<1> QED
    BY <1>3, <1>4

\* The outcomes of Run: a guest may have run, and its exit may have been saved.
LEMMA RunOutcome ==
    ASSUME Typed, Run
    PROVE  /\ machine \in Machines /\ machine' \in Machines
           /\ machine'.game = machine.game
           /\ started' \in BOOLEAN
           /\ written' \in 0 .. MaxWrites
           /\ \/ machine'.storage = machine.storage /\ written' = written
              \/ /\ machine'.storage = <<machine.game, written + 1>>
                 /\ written' = written + 1
           /\ disk' \in {disk, Persisted(machine')}
           /\ UNCHANGED <<session, slot, rolled>>
           /\ reply' \in {"run", "failed"}
<1>1. machine \in Machines
    BY DEF Typed, TypeOK, RunsWhatWasLoaded, Loaded, Run
<1>2. CASE Halted(machine)
  <2>1. machine' = machine /\ written' = written
    BY <1>2 DEF Run
  <2> QED
    BY <1>1, <1>2, <2>1 DEF Run, Replies, Typed, TypeOK
<1>3. CASE ~Halted(machine)
  <2>1. PICK n \in Machines : GuestRuns(machine, n, TRUE)
    BY <1>3 DEF Run
  <2>2. started' \in BOOLEAN
    BY <1>3 DEF Run, CanContinue, Typed, TypeOK
  <2> QED
    BY <1>1, <1>3, <2>1, <2>2, GuestRunsTyped DEF Run, Replies, Typed
<1> QED
    BY <1>2, <1>3

LEMMA RunFailsOutcome ==
    ASSUME Typed, RunFails
    PROVE  /\ machine \in Machines /\ machine' \in Machines
           /\ machine'.game = machine.game
           /\ written' \in 0 .. MaxWrites
           /\ \/ machine'.storage = machine.storage /\ written' = written
              \/ /\ machine'.storage = <<machine.game, written + 1>>
                 /\ written' = written + 1
           /\ UNCHANGED <<session, started, disk, slot, rolled>>
           /\ reply' = "failed"
<1>1. machine \in Machines
    BY DEF Typed, TypeOK, RunsWhatWasLoaded, Loaded, RunFails
<1>2. PICK n \in Machines : GuestRuns(machine, n, FALSE)
    BY DEF RunFails
<1> QED
    BY <1>1, <1>2, GuestRunsTyped DEF RunFails, Replies, Typed

LEMMA LoadGameOutcome ==
    ASSUME TypeOK, NEW g \in Games, LoadGame(g)
    PROVE  /\ disk' \in [Games -> Storage \union {Unreadable}]
           /\ machine' \in Machines
           /\ machine'.game = g
           /\ machine'.storage = IF directory THEN disk'[g] ELSE Empty
           /\ directory => disk'[g] # Unreadable
<1>1. disk' \in [Games -> Storage \union {Unreadable}]
    BY PersistedTyped DEF TypeOK, LoadGame, Loaded
<1>2. Restored(g) \in Storage
    BY <1>1 DEF LoadGame, Restored, Storage
<1>3. machine' = [game |-> g, state |-> "ready", storage |-> Restored(g)]
    BY DEF LoadGame
<1> QED
    BY <1>1, <1>2, <1>3 DEF Machines, States, Restored, LoadGame

-----------------------------------------------------------------------------
(* Types, and the game that runs. *)

LEMMA TypedInit == Init => Typed
<1> SUFFICES ASSUME Init PROVE Typed
    OBVIOUS
<1>1. disk \in [Games -> Storage \union {Unreadable}]
    BY DEF Init
<1>2. /\ ready \in BOOLEAN /\ directory = FALSE /\ machine = NoMachine
      /\ started = FALSE /\ game = NoGame /\ rolled = FALSE /\ reply = "none"
    BY DEF Init
<1>3. slot \in SUBSET SlotFiles
    BY DEF Init
<1>4. written \in 0 .. MaxWrites
    BY LibretroCoreAssumption DEF Init
<1>5. RunsWhatWasLoaded
    BY <1>2 DEF RunsWhatWasLoaded
<1> QED
    BY <1>1, <1>2, <1>3, <1>4, <1>5 DEF Typed, TypeOK, Loaded

LEMMA TypedStep == Typed /\ [Next]_vars => Typed'
<1> SUFFICES ASSUME Typed, [Next]_vars PROVE Typed'
    OBVIOUS
<1> USE LibretroCoreAssumption
    DEF Typed, TypeOK, RunsWhatWasLoaded, Loaded, Replies, session, SlotFiles
<1>1. CASE RetroInit
    BY <1>1 DEF RetroInit
<1>2. CASE RetroDeinit
    BY <1>2, UnloadedTyped DEF RetroDeinit
<1>3. CASE LoadRefused
    BY <1>3 DEF LoadRefused
<1>4. CASE LoadCannotReplace
    BY <1>4, UnloadFailsTyped DEF LoadCannotReplace
<1>5. CASE LoadFails
    BY <1>5, UnloadedTyped DEF LoadFails
<1>6. ASSUME NEW g \in Games, LoadGame(g) PROVE Typed'
    BY <1>6, LoadGameOutcome DEF LoadGame
<1>7. CASE RetroUnloadGame
    BY <1>7, UnloadedTyped, UnloadFailsTyped DEF RetroUnloadGame
<1>8. CASE RunRefused
    BY <1>8 DEF RunRefused
<1>9. CASE RunFails
    BY <1>9, RunFailsOutcome
<1>10. CASE Run
    BY <1>10, RunOutcome, PersistedTyped
<1>11. CASE RetroReset
  <2>1. machine \in Machines
    BY <1>11 DEF RetroReset
  <2>2. machine' \in Machines /\ machine'.game = machine.game
    BY <1>11, <2>1 DEF RetroReset, Machines, States
  <2> QED
    BY <1>11, <2>1, <2>2 DEF RetroReset
<1>12. CASE RetroSerialize
    BY <1>12 DEF RetroSerialize
<1>13. CASE RetroUnserialize
  <2>1. CASE UNCHANGED <<machine, started, rolled>> /\ reply' = "failed"
    BY <1>13, <2>1 DEF RetroUnserialize
  <2>2. ASSUME NEW file \in slot, file.game = machine.game, machine' = file,
               started' = CanContinue(file), rolled' = TRUE,
               reply' = "unserialize"
        PROVE  Typed'
    <3>1. file \in Machines
      OBVIOUS
    <3>2. started' \in BOOLEAN
      BY <2>2 DEF CanContinue
    <3> QED
      BY <1>13, <2>2, <3>1, <3>2 DEF RetroUnserialize
  <2> QED
    BY <1>13, <2>1, <2>2 DEF RetroUnserialize
<1>14. CASE Kill
    BY <1>14 DEF Kill
<1>15. CASE UNCHANGED vars
    BY <1>15 DEF vars
<1> QED
    BY <1>1, <1>2, <1>3, <1>4, <1>5, <1>6, <1>7, <1>8, <1>9, <1>10, <1>11,
       <1>12, <1>13, <1>14, <1>15 DEF Next

LEMMA TypedHolds == Spec => []Typed
BY TypedInit, TypedStep, PTL DEF Spec

\* Types; a core that is not initialized has no machine.
THEOREM TypeCorrect == Spec => []TypeOK
BY TypedHolds, PTL DEF Typed

\* The front end's game is the machine's, through every failed unload.
THEOREM RunsWhatItLoaded == Spec => []RunsWhatWasLoaded
BY TypedHolds, PTL DEF Typed

-----------------------------------------------------------------------------
(* What saving does to the disk. *)

\* A session is saved in the file of its own game, and nowhere else.
LEMMA PersistedAt ==
    ASSUME TypeOK, NEW m \in Machines, NEW g \in Games
    PROVE  \/ Persisted(m)[g] = disk[g]
           \/ g = m.game /\ Persisted(m)[g] = m.storage
BY DEF TypeOK, Persisted, Machines

LEMMA PersistedThere ==
    ASSUME TypeOK, NEW m \in Machines
    PROVE  /\ directory /\ m.storage # Empty => Persisted(m)[m.game] = m.storage
           /\ ~directory \/ m.storage = Empty => Persisted(m) = disk
BY DEF TypeOK, Persisted, Machines

\* The calls that save the session they close.
LEMMA ClosedAt ==
    ASSUME TypeOK, NEW g \in Games,
           disk' = IF Loaded THEN Persisted(machine) ELSE disk
    PROVE  \/ disk'[g] = disk[g]
           \/ Loaded /\ g = machine.game /\ disk'[g] = machine.storage
BY PersistedAt DEF TypeOK, Loaded

-----------------------------------------------------------------------------
(* Whose storage is where. *)

LEMMA OwnsInit == Init => SavesStayWithTheirGame
<1> SUFFICES ASSUME Init PROVE SavesStayWithTheirGame
    OBVIOUS
<1>1. ASSUME NEW g \in Games PROVE Owns(g, disk[g])
  <2>1. Owns(g, <<g, 0>>) /\ Owns(g, Empty) /\ Owns(g, Unreadable)
    BY DEF Owns
  <2>2. disk[g] \in {Empty, Unreadable, <<g, 0>>}
    BY DEF Init
  <2> QED
    BY <2>1, <2>2
<1> QED
    BY <1>1 DEF Init, SavesStayWithTheirGame, Loaded

LEMMA OwnsStep ==
    Typed /\ SavesStayWithTheirGame /\ [Next]_vars => SavesStayWithTheirGame'
<1> SUFFICES ASSUME Typed, SavesStayWithTheirGame, [Next]_vars
             PROVE  SavesStayWithTheirGame'
    OBVIOUS
<1> USE DEF SavesStayWithTheirGame, Loaded
<1>t. TypeOK
    BY DEF Typed
<1>new. ASSUME NEW g \in Games, NEW k \in Nat PROVE Owns(g, <<g, k>>)
    BY DEF Owns
\* A closed session leaves its storage in its own file.
<1>closed. ASSUME NEW g \in Games,
                  disk' = IF Loaded THEN Persisted(machine) ELSE disk
           PROVE  Owns(g, disk'[g])
    BY <1>closed, <1>t, ClosedAt
<1>1. CASE RetroInit
    BY <1>1 DEF RetroInit
<1>2. CASE RetroDeinit
    BY <1>2, <1>closed DEF RetroDeinit, Unloaded
<1>3. CASE LoadRefused
    BY <1>3 DEF LoadRefused, session
<1>4. CASE LoadCannotReplace
    BY <1>4, <1>t, UnloadFailsTyped DEF LoadCannotReplace
<1>5. CASE LoadFails
    BY <1>5, <1>closed DEF LoadFails, Unloaded
<1>6. ASSUME NEW g \in Games, LoadGame(g) PROVE SavesStayWithTheirGame'
  <2>1. \A h \in Games : Owns(h, disk'[h])
    BY <1>6, <1>closed DEF LoadGame
  <2>2. Owns(g, machine'.storage) /\ machine'.game = g
    BY <1>6, <1>t, <2>1, LoadGameOutcome DEF Owns
  <2> QED
    BY <1>6, <2>1, <2>2 DEF LoadGame
<1>7. CASE RetroUnloadGame
  <2>1. CASE UnloadFails
    BY <1>7, <1>t, <2>1, UnloadFailsTyped
    DEF RetroUnloadGame, UnloadFails, Typed, RunsWhatWasLoaded
  <2>2. CASE Unloaded
    BY <1>7, <2>2, <1>closed DEF RetroUnloadGame, Unloaded
  <2> QED
    BY <1>7, <2>1, <2>2 DEF RetroUnloadGame
<1>8. CASE RunRefused
    BY <1>8 DEF RunRefused
<1>9. CASE RunFails
  <2>1. Owns(machine'.game, machine'.storage)
    BY <1>9, <1>t, <1>new, RunFailsOutcome, LibretroCoreAssumption
    DEF TypeOK, Machines
  <2> QED
    BY <1>9, <2>1, RunFailsOutcome
<1>10. CASE Run
  <2>1. machine' \in Machines /\ Owns(machine'.game, machine'.storage)
    <3>1. /\ machine \in Machines /\ machine' \in Machines
          /\ machine'.game = machine.game
          /\ \/ machine'.storage = machine.storage
             \/ machine'.storage = <<machine.game, written + 1>>
      BY <1>10, RunOutcome
    <3>2. machine.game \in Games /\ Owns(machine.game, machine.storage)
      BY <3>1, LibretroCoreAssumption DEF Machines
    <3>3. written + 1 \in Nat
      BY <1>t, LibretroCoreAssumption DEF TypeOK
    <3> QED
      BY <3>1, <3>2, <3>3, <1>new
  <2>2. \A g \in Games : Owns(g, disk'[g])
    BY <1>10, <1>t, <2>1, RunOutcome, PersistedAt
  <2> QED
    BY <1>10, <2>1, <2>2, RunOutcome
<1>11. CASE RetroReset
  <2>1. machine \in Machines
    BY <1>11 DEF Typed, TypeOK, RunsWhatWasLoaded, RetroReset
  <2>2. machine'.game = machine.game /\ machine'.storage = machine.storage
    BY <1>11, <2>1 DEF RetroReset, Machines
  <2> QED
    BY <1>11, <2>1, <2>2 DEF RetroReset, Typed, RunsWhatWasLoaded
<1>12. CASE RetroSerialize
    BY <1>12 DEF RetroSerialize, Typed, RunsWhatWasLoaded
<1>13. CASE RetroUnserialize
    BY <1>13 DEF RetroUnserialize
<1>14. CASE Kill
    BY <1>14 DEF Kill
<1>15. CASE UNCHANGED vars
    BY <1>15 DEF vars
<1> QED
    BY <1>1, <1>2, <1>3, <1>4, <1>5, <1>6, <1>7, <1>8, <1>9, <1>10, <1>11,
       <1>12, <1>13, <1>14, <1>15 DEF Next

\* No content's storage gets into the save or the state of another.
THEOREM SavesStayTheirOwn == Spec => []SavesStayWithTheirGame
BY OwnsInit, OwnsStep, TypedHolds, PTL DEF Spec

-----------------------------------------------------------------------------
(* How old a save can be. *)

LEMMA Ages ==
    ASSUME NEW g \in Games, NEW k \in 0 .. MaxWrites
    PROVE  <<g, k>> \in Storage /\ Age(<<g, k>>) = k + 1
BY LibretroCoreAssumption DEF Storage, Age

LEMMA AgeIsNat ==
    ASSUME NEW b \in Storage \union {Unreadable}
    PROVE  Age(b) \in Nat
<1>1. CASE b \in {Empty, Unreadable}
    BY <1>1 DEF Age
<1>2. CASE b \notin {Empty, Unreadable}
  <2>1. PICK g \in Games, k \in 0 .. MaxWrites : b = <<g, k>>
    BY <1>2 DEF Storage
  <2> QED
    BY <2>1, Ages
<1> QED
    BY <1>1, <1>2

Sound == Aged /\ NoSilentRollback

LEMMA SoundInit == Init => Sound
<1> SUFFICES ASSUME Init PROVE Sound
    OBVIOUS
<1>1. ASSUME NEW g \in Games PROVE Age(disk[g]) <= written + 1
  <2>1. Age(<<g, 0>>) = 1
    BY Ages, LibretroCoreAssumption
  <2>2. Age(Empty) = 0 /\ Age(Unreadable) = 0
    BY DEF Age
  <2> QED
    BY <2>1, <2>2 DEF Init
<1> QED
    BY <1>1 DEF Init, Sound, Aged, NoSilentRollback, Loaded

\* What a guest leaves behind is as new as what it found, or newer than all.
LEMMA GuestAges ==
    ASSUME Typed, Sound, machine \in Machines, machine' \in Machines,
           machine'.game = machine.game,
           written' \in 0 .. MaxWrites,
           \/ machine'.storage = machine.storage /\ written' = written
           \/ /\ machine'.storage = <<machine.game, written + 1>>
              /\ written' = written + 1
    PROVE  /\ Age(machine.storage) <= Age(machine'.storage)
           /\ Age(machine'.storage) <= written' + 1
           /\ written <= written'
<1>1. /\ Age(machine.storage) \in Nat /\ Age(machine.storage) <= written + 1
      /\ machine.game \in Games /\ written \in Nat
    BY AgeIsNat, LibretroCoreAssumption
    DEF Machines, Sound, Aged, Loaded, Typed, TypeOK
<1>2. CASE machine'.storage = machine.storage /\ written' = written
    BY <1>1, <1>2
<1>3. CASE machine'.storage = <<machine.game, written + 1>>
           /\ written' = written + 1
  <2>1. Age(machine'.storage) = written + 2
    BY <1>1, <1>3, Ages
  <2> QED
    BY <1>1, <1>3, <2>1
<1> QED
    BY <1>2, <1>3

LEMMA SoundStep == Typed /\ Sound /\ [Next]_vars => Sound'
<1> SUFFICES ASSUME Typed, Sound, [Next]_vars PROVE Sound'
    OBVIOUS
<1> USE DEF Sound, Aged, NoSilentRollback, Loaded
<1>t. TypeOK
    BY DEF Typed
<1>n. /\ NoMachine \notin Machines
      /\ Unreadable \notin Storage
      /\ written \in Nat
      /\ \A m \in Machines : m.storage \in Storage /\ m.game \in Games
    BY <1>t, LibretroCoreAssumption DEF TypeOK, Machines
\* A closed session leaves nothing newer than itself in any file.
<1>closed. ASSUME disk' = IF Loaded THEN Persisted(machine) ELSE disk
           PROVE  \A g \in Games : Age(disk'[g]) <= written + 1
    BY <1>closed, <1>t, ClosedAt
<1>1. CASE RetroInit
    BY <1>1, <1>t DEF RetroInit, TypeOK
<1>2. CASE RetroDeinit
    BY <1>2, <1>closed DEF RetroDeinit, Unloaded
<1>3. CASE LoadRefused
    BY <1>3 DEF LoadRefused, session
<1>4. CASE LoadCannotReplace
    BY <1>4, <1>t, UnloadFailsTyped DEF LoadCannotReplace, session
<1>5. CASE LoadFails
    BY <1>5, <1>closed DEF LoadFails, Unloaded
<1>6. ASSUME NEW g \in Games, LoadGame(g) PROVE Sound'
  <2>1. \A h \in Games : Age(disk'[h]) <= written + 1
    BY <1>6, <1>closed DEF LoadGame
  <2>2. machine'.game = g /\ machine'.storage \in {disk'[g], Empty}
    BY <1>6, <1>t, LoadGameOutcome
  <2>3. directory => machine'.storage = disk'[g] /\ disk'[g] # Unreadable
    BY <1>6, <1>t, LoadGameOutcome
  <2>4. Age(disk'[g]) \in Nat
    BY <1>6, <1>t, LoadGameOutcome, AgeIsNat
  <2>5. Age(machine'.storage) <= written + 1
    BY <2>1, <2>2, <1>n DEF Age
  <2> QED
    BY <1>6, <2>1, <2>2, <2>3, <2>4, <2>5 DEF LoadGame
<1>7. CASE RetroUnloadGame
  <2>1. CASE UnloadFails /\ UNCHANGED rolled
    BY <1>7, <1>t, <2>1, UnloadFailsTyped
    DEF RetroUnloadGame, Typed, RunsWhatWasLoaded
  <2>2. CASE Unloaded
    BY <1>7, <2>2, <1>closed DEF RetroUnloadGame, Unloaded
  <2> QED
    BY <1>7, <2>1, <2>2 DEF RetroUnloadGame
<1>8. CASE RunRefused
    BY <1>8 DEF RunRefused, session
<1>9. CASE RunFails
  <2>1. /\ Age(machine.storage) <= Age(machine'.storage)
        /\ Age(machine'.storage) <= written' + 1
        /\ written <= written' /\ written' \in Nat
        /\ Age(machine.storage) \in Nat /\ Age(machine'.storage) \in Nat
    BY <1>9, <1>n, RunFailsOutcome, GuestAges, AgeIsNat
  <2>2. /\ machine \in Machines /\ machine'.game = machine.game
        /\ UNCHANGED <<session, disk, slot, rolled>>
    BY <1>9, RunFailsOutcome
  <2>3. \A g \in Games : Age(disk[g]) \in Nat
    BY <1>t, AgeIsNat DEF TypeOK
  <2>4. \A file \in slot : Age(file.storage) \in Nat
    BY <1>t, <1>n, AgeIsNat DEF TypeOK, SlotFiles
  <2>5. Aged'
    BY <2>1, <2>2, <2>3, <2>4, <1>n
  <2>6. NoSilentRollback'
    BY <2>1, <2>2, <2>3, <1>n DEF session
  <2> QED
    BY <2>5, <2>6
<1>10. CASE Run
  <2>1. /\ Age(machine.storage) <= Age(machine'.storage)
        /\ Age(machine'.storage) <= written' + 1
        /\ written <= written' /\ written' \in Nat
        /\ Age(machine.storage) \in Nat /\ Age(machine'.storage) \in Nat
    BY <1>10, <1>n, RunOutcome, GuestAges, AgeIsNat
  <2>2. /\ machine \in Machines /\ machine' \in Machines
        /\ machine'.game = machine.game
        /\ UNCHANGED <<session, slot, rolled>>
        /\ disk' \in {disk, Persisted(machine')}
    BY <1>10, RunOutcome
  <2>3. \A g \in Games : Age(disk[g]) \in Nat
    BY <1>t, AgeIsNat DEF TypeOK
  <2>4. \A file \in slot : Age(file.storage) \in Nat
    BY <1>t, <1>n, AgeIsNat DEF TypeOK, SlotFiles
  <2>5. \A g \in Games :
          disk'[g] = disk[g] \/ (g = machine.game /\ disk'[g] = machine'.storage)
    BY <1>t, <2>2, PersistedAt
  <2>6. Aged'
    BY <2>1, <2>2, <2>3, <2>4, <2>5, <1>n
  <2>7. NoSilentRollback'
    BY <2>1, <2>2, <2>3, <2>5, <1>n DEF session
  <2> QED
    BY <2>6, <2>7
<1>11. CASE RetroReset
  <2>1. machine \in Machines
    BY <1>11, <1>t DEF Typed, TypeOK, RunsWhatWasLoaded, RetroReset
  <2>2. machine'.game = machine.game /\ machine'.storage = machine.storage
    BY <1>11, <2>1 DEF RetroReset, Machines
  <2> QED
    BY <1>11, <1>n, <2>1, <2>2 DEF RetroReset, session
<1>12. CASE RetroSerialize
    BY <1>12 DEF RetroSerialize, session, Typed, RunsWhatWasLoaded
<1>13. CASE RetroUnserialize
    BY <1>13 DEF RetroUnserialize, session
<1>14. CASE Kill
    BY <1>14 DEF Kill
<1>15. CASE UNCHANGED vars
    BY <1>15 DEF vars
<1> QED
    BY <1>1, <1>2, <1>3, <1>4, <1>5, <1>6, <1>7, <1>8, <1>9, <1>10, <1>11,
       <1>12, <1>13, <1>14, <1>15 DEF Next

\* Saving a session loses no progress and replaces no save that could not be
\* read, unless the user loaded an older state.
THEOREM SavesNeverRollBack == Spec => []NoSilentRollback
<1>1. Spec => []Sound
    BY SoundInit, SoundStep, TypedHolds, PTL DEF Spec
<1>2. Sound => NoSilentRollback
    BY DEF Sound
<1> QED
    BY <1>1, <1>2, PTL

-----------------------------------------------------------------------------
(* What becomes of a session that ends. *)

\* The state function of SaveSession's current session.
Current ==
    IF Loaded /\ directory
      THEN [title |-> machine.game, content |-> machine.storage]
      ELSE NoMachine

LEMMA CurrentIsSession ==
    ASSUME TypeOK, Loaded, directory
    PROVE  /\ Current = [title |-> machine.game, content |-> machine.storage]
           /\ Current # NoMachine
BY LibretroCoreAssumption DEF TypeOK, Current, Loaded, Machines

\* The abstract save of the current session is what persistSaveData writes.
LEMMA SavedIsPersisted ==
    ASSUME TypeOK, Loaded, directory
    PROVE  Session!Saved(Current) = Persisted(machine)
<1>1. Current.title = machine.game /\ Current.content = machine.storage
    BY CurrentIsSession
<1> QED
    BY <1>1 DEF Session!Saved, Persisted

LEMMA ClosesSession ==
    ASSUME TypeOK, Unloaded
    PROVE  Session!Close \/ UNCHANGED <<Current, disk>>
<1>1. Current' = NoMachine
    BY DEF Unloaded, Current, Loaded
<1>2. CASE Loaded /\ directory
  <2>1. Current # NoMachine /\ disk' = Session!Saved(Current)
    BY <1>2, CurrentIsSession, SavedIsPersisted DEF Unloaded
  <2> QED
    BY <1>1, <2>1 DEF Session!Close, Current
<1>3. CASE Loaded /\ ~directory
    BY <1>1, <1>3, PersistedThere DEF Unloaded, Current, TypeOK, Loaded
<1>4. CASE ~Loaded
    BY <1>1, <1>4 DEF Unloaded, Current
<1> QED
    BY <1>2, <1>3, <1>4

\* A step that keeps the machine's game and saves what it holds, or nothing.
LEMMA PlaysSession ==
    ASSUME TypeOK, Loaded, machine' \in Machines,
           machine'.game = machine.game, directory' = directory,
           disk' \in {disk, Persisted(machine')}
    PROVE  Session!Play \/ UNCHANGED <<Current, disk>>
<1>l. machine \in Machines /\ Loaded'
    BY LibretroCoreAssumption DEF TypeOK, Loaded
<1>1. CASE directory
  <2>1. Current # NoMachine /\ Current.title = machine.game
    BY <1>1, CurrentIsSession
  <2>2. /\ Current' = [title |-> machine'.game, content |-> machine'.storage]
        /\ machine'.storage \in Storage
    BY <1>1, <1>l DEF Current, Machines
  <2>3. Session!Saved(Current') = Persisted(machine')
    BY <1>1, <2>2 DEF Session!Saved, Persisted
  <2>4. Current' \in [title : {Current.title}, content : Storage]
    BY <2>1, <2>2
  <2> QED
    BY <2>1, <2>3, <2>4 DEF Session!Play, Current
<1>2. CASE ~directory
    BY <1>2, PersistedThere DEF Current
<1> QED
    BY <1>1, <1>2 DEF TypeOK

\* As long as the core lives, a session only ends once it is on disk.
THEOREM HandOverIsSafe == Spec => HandOver
<1>1. ASSUME Typed, [Next]_vars
      PROVE  [ /\ Loaded /\ directory
               /\ machine.storage # Empty
               /\ machine' = NoMachine \/ reply' = "load"
               /\ reply' \notin {"deinit", "none"}
               => disk'[machine.game] = machine.storage ]_vars
  <2> SUFFICES ASSUME Next, Loaded, directory, machine.storage # Empty,
                      machine' = NoMachine \/ reply' = "load",
                      reply' \notin {"deinit", "none"}
               PROVE  disk'[machine.game] = machine.storage
    BY <1>1
  <2> USE DEF Replies
  <2>t. /\ TypeOK /\ RunsWhatWasLoaded
        /\ machine \in Machines /\ machine # NoMachine /\ ready
        /\ NoMachine \notin Machines
    BY <1>1, LibretroCoreAssumption DEF Typed, TypeOK, Loaded
  \* Whatever closes the session saves it.
  <2>saves. ASSUME disk' = IF Loaded THEN Persisted(machine) ELSE disk
            PROVE  disk'[machine.game] = machine.storage
    BY <2>saves, <2>t, PersistedThere
  <2>1. CASE RetroInit
    BY <2>1, <2>t DEF RetroInit
  <2>2. CASE RetroDeinit
    BY <2>2 DEF RetroDeinit
  <2>3. CASE LoadRefused
    BY <2>3, <2>t DEF LoadRefused
  <2>4. CASE LoadCannotReplace
    BY <2>4, <2>t, UnloadFailsTyped DEF LoadCannotReplace
  <2>5. CASE LoadFails
    BY <2>5, <2>saves DEF LoadFails, Unloaded
  <2>6. ASSUME NEW g \in Games, LoadGame(g)
        PROVE  disk'[machine.game] = machine.storage
    BY <2>6, <2>saves DEF LoadGame
  <2>7. CASE RetroUnloadGame
    <3>1. CASE UnloadFails /\ reply' = "failed"
      BY <2>t, <3>1, UnloadFailsTyped
    <3>2. CASE Unloaded
      BY <2>saves, <3>2 DEF Unloaded
    <3> QED
      BY <2>7, <3>1, <3>2 DEF RetroUnloadGame
  <2>8. CASE RunRefused
    BY <2>8, <2>t DEF RunRefused
  <2>9. CASE RunFails
    BY <1>1, <2>9, <2>t, RunFailsOutcome
  <2>10. CASE Run
    BY <1>1, <2>10, <2>t, RunOutcome
  <2>11. CASE RetroReset
    <3>1. machine' \in Machines
      BY <2>11, <2>t DEF RetroReset, Machines, States
    <3> QED
      BY <2>11, <2>t, <3>1 DEF RetroReset
  <2>12. CASE RetroSerialize
    BY <2>12, <2>t DEF RetroSerialize
  <2>13. CASE RetroUnserialize
    BY <2>13, <2>t DEF RetroUnserialize, TypeOK, SlotFiles
  <2>14. CASE Kill
    BY <2>14 DEF Kill
  <2> QED
    BY <2>1, <2>2, <2>3, <2>4, <2>5, <2>6, <2>7, <2>8, <2>9, <2>10, <2>11,
       <2>12, <2>13, <2>14 DEF Next
<1> QED
  BY <1>1, TypedHolds, PTL DEF Spec, HandOver

-----------------------------------------------------------------------------
(* The refinement. *)

LEMMA SwitchesSession ==
    ASSUME TypeOK, NEW g \in Games, LoadGame(g)
    PROVE  Session!Switch(g) \/ UNCHANGED <<Current, disk>>
<1>1. /\ machine' \in Machines /\ machine'.game = g
      /\ machine'.storage = IF directory THEN disk'[g] ELSE Empty
      /\ directory => disk'[g] # Unreadable
    BY LoadGameOutcome
<1>2. directory' = directory /\ Loaded'
    BY <1>1, LibretroCoreAssumption DEF LoadGame, Loaded
<1>3. CASE directory
  <2>1. Current' = [title |-> g, content |-> disk'[g]]
    BY <1>1, <1>2, <1>3 DEF Current
  <2>2. disk' = IF Current = NoMachine THEN disk ELSE Session!Saved(Current)
    <3>1. CASE Loaded
      BY <1>3, <3>1, CurrentIsSession, SavedIsPersisted DEF LoadGame
    <3>2. CASE ~Loaded
      BY <3>2 DEF LoadGame, Current
    <3> QED
      BY <3>1, <3>2
  <2> QED
    BY <1>1, <1>3, <2>1, <2>2 DEF Session!Switch, Current
<1>4. CASE ~directory
  <2>1. disk' = disk
    BY <1>4, PersistedThere DEF LoadGame, TypeOK, Loaded
  <2> QED
    BY <1>2, <1>4, <2>1 DEF Current
<1> QED
  BY <1>3, <1>4

LEMMA StepsOfSession ==
    ASSUME Typed, [Next]_vars
    PROVE  [Session!Next]_Session!vars
<1> DEFINE Goal == Session!Next \/ UNCHANGED <<Current, disk>>
<1> SUFFICES Goal
    BY DEF Session!vars, Current
<1>t. TypeOK /\ RunsWhatWasLoaded /\ NoMachine \notin Machines
    BY LibretroCoreAssumption DEF Typed
<1>close. ASSUME Unloaded PROVE Goal
    BY <1>t, <1>close, ClosesSession DEF Session!Next
<1>abandon. ASSUME machine' = NoMachine, disk' = disk PROVE Goal
    BY <1>abandon DEF Session!Next, Session!Abandon, Loaded, Current
<1>keep. ASSUME Loaded, UnloadFails, directory' = directory PROVE Goal
  <2>1. Current' = Current /\ disk' = disk
    BY <1>t, <1>keep, UnloadFailsTyped DEF Loaded, Current
  <2> QED
    BY <2>1
<1>play. ASSUME Loaded, machine' \in Machines, machine'.game = machine.game,
                directory' = directory, disk' \in {disk, Persisted(machine')}
         PROVE  Goal
    BY <1>t, <1>play, PlaysSession DEF Session!Next
<1>still. ASSUME UNCHANGED <<machine, directory, disk>> PROVE Goal
    BY <1>still DEF Current, Loaded
<1> HIDE DEF Goal
<1>in. game # NoGame => Loaded /\ machine \in Machines
    BY <1>t DEF RunsWhatWasLoaded, TypeOK, Loaded
<1>1. CASE RetroInit
  <2>1. ~Loaded /\ ~Loaded' /\ disk' = disk
    BY <1>1, <1>t DEF RetroInit, TypeOK, Loaded
  <2> QED
    BY <2>1 DEF Goal, Current
<1>2. CASE RetroDeinit
    BY <1>2, <1>close, <1>abandon DEF RetroDeinit
<1>3. CASE LoadRefused
    BY <1>3, <1>still DEF LoadRefused, session
<1>4. CASE LoadCannotReplace
    BY <1>4, <1>keep DEF LoadCannotReplace, session
<1>5. CASE LoadFails
    BY <1>5, <1>close DEF LoadFails
<1>6. ASSUME NEW g \in Games, LoadGame(g) PROVE Goal
    BY <1>6, <1>t, SwitchesSession DEF Goal, Session!Next
<1>7. CASE RetroUnloadGame
    BY <1>7, <1>in, <1>close, <1>keep DEF RetroUnloadGame
<1>8. CASE RunRefused
    BY <1>8, <1>still DEF RunRefused, session
<1>9. CASE RunFails
    BY <1>9, <1>t, <1>play, RunFailsOutcome DEF session, Loaded
<1>10. CASE Run
    BY <1>10, <1>t, <1>play, RunOutcome DEF session, Loaded
<1>11. CASE RetroReset
  <2>1. machine' \in Machines /\ machine'.game = machine.game
    BY <1>11, <1>in DEF RetroReset, Machines, States
  <2> QED
    BY <1>11, <1>in, <1>play, <2>1 DEF RetroReset, session
<1>12. CASE RetroSerialize
    BY <1>12, <1>still DEF RetroSerialize, session
<1>13. CASE RetroUnserialize
    BY <1>13, <1>t, <1>in, <1>play, <1>still
    DEF RetroUnserialize, session, TypeOK, SlotFiles
<1>14. CASE Kill
    BY <1>14, <1>abandon DEF Kill
<1>15. CASE UNCHANGED vars
    BY <1>15, <1>still DEF vars
<1> QED
    BY <1>1, <1>2, <1>3, <1>4, <1>5, <1>6, <1>7, <1>8, <1>9, <1>10, <1>11,
       <1>12, <1>13, <1>14, <1>15 DEF Next

\* The core keeps the promises of SaveSession: a session starts from the save
\* of its title, only it stores for that title, and it is stored before
\* another takes its place.
THEOREM ImplementsSession == Spec => SessionSpec
<1>1. Init => Session!Init
    BY DEF Init, Session!Init, Loaded
<1>2. Typed /\ [Next]_vars => [Session!Next]_Session!vars
    BY StepsOfSession
<1> QED
    BY <1>1, <1>2, TypedHolds, PTL DEF Spec, SessionSpec, Session!Spec

-----------------------------------------------------------------------------
(* The core with its keys. *)

KeysInv == KeysTypeOK /\ KeysAreKnown /\ PadIsHeld

-----------------------------------------------------------------------------
(* The key events of one queueControls. *)

\* All events together make the set what it should be.
LEMMA AfterAll ==
    ASSUME NEW next PROVE After(controls, next, Changed(next)) = next
BY DEF After, Changed

\* Any of them leave a set of controls a set of controls.
LEMMA AfterTyped ==
    ASSUME NEW set \in SUBSET Controls, NEW next \in SUBSET Controls, NEW changes
    PROVE  After(set, next, changes) \in SUBSET Controls
BY DEF After

\* Both layers map buttons to controls the machine knows.
LEMMA LayersAreControls ==
    /\ \A b \in DOMAIN Plain : Plain[b] \in Controls
    /\ \A b \in DOMAIN Numeric : Numeric[b] \in Controls
<1>1. Len(HandsetControls) = 23 /\ DOMAIN HandsetControls = 1 .. 23
    BY DEF HandsetControls
<1>2. \A i \in 1 .. 23 : HandsetControls[i] \in Controls
    BY <1>1 DEF Controls
<1>3. {"up", "down", "left", "right", "ok", "back", "soft-left", "soft-right"}
        \subseteq Controls
  <2>1. /\ HandsetControls[1] = "up" /\ HandsetControls[2] = "down"
        /\ HandsetControls[3] = "left" /\ HandsetControls[4] = "right"
        /\ HandsetControls[5] = "ok" /\ HandsetControls[6] = "back"
        /\ HandsetControls[7] = "soft-left" /\ HandsetControls[8] = "soft-right"
    BY DEF HandsetControls
  <2> QED
    BY <1>2, <2>1
<1>4. {"menu", "send", "end", "star", "hash"} \subseteq Controls
  <2>1. /\ HandsetControls[9] = "menu" /\ HandsetControls[10] = "send"
        /\ HandsetControls[11] = "end" /\ HandsetControls[12] = "star"
        /\ HandsetControls[13] = "hash"
    BY DEF HandsetControls
  <2> QED
    BY <1>2, <2>1
<1>5. {"num0", "num1", "num2", "num3", "num4", "num5", "num6", "num7", "num8",
       "num9"} \subseteq Controls
  <2>1. /\ HandsetControls[14] = "num0" /\ HandsetControls[15] = "num1"
        /\ HandsetControls[16] = "num2" /\ HandsetControls[17] = "num3"
        /\ HandsetControls[18] = "num4" /\ HandsetControls[19] = "num5"
        /\ HandsetControls[20] = "num6" /\ HandsetControls[21] = "num7"
        /\ HandsetControls[22] = "num8" /\ HandsetControls[23] = "num9"
    BY DEF HandsetControls
  <2> QED
    BY <1>2, <2>1
<1>6. \A b \in DOMAIN Plain : Plain[b] \in Controls
    BY <1>3, <1>4 DEF Plain
<1>7. \A b \in DOMAIN Numeric : Numeric[b] \in Controls
    BY <1>4, <1>5 DEF Numeric
<1> QED
    BY <1>6, <1>7

LEMMA MappedIsControls == \A p : Mapped(p) \in SUBSET Controls
BY LayersAreControls DEF Mapped

LEMMA QueuedMoves ==
    ASSUME KeysInv, NEW next \in SUBSET Controls, Queued(next)
    PROVE  keys' = next /\ controls' = next
BY AfterAll DEF KeysInv, KeysAreKnown, Queued

LEMMA QueueFailsKeeps ==
    ASSUME KeysInv, NEW next \in SUBSET Controls, QueueFails(next)
    PROVE  /\ keys' \in SUBSET Controls
           /\ controls' = keys'
<1>1. PICK i \in DOMAIN HandsetControls :
          /\ keys' = After(keys, next, Earlier(next, i))
          /\ controls' = After(controls, next, Earlier(next, i))
    BY DEF QueueFails
<1> QED
    BY <1>1, AfterTyped DEF KeysInv, KeysTypeOK, KeysAreKnown

-----------------------------------------------------------------------------

LEMMA KeysInvInit == PlayInit => KeysInv
BY DEF PlayInit, Init, KeysInv, KeysTypeOK, KeysAreKnown, PadIsHeld

\* A call that leaves all keys up, whatever it returns.
LEMMA DroppedKeeps == ASSUME KeysInv, Dropped, reply' # "run" PROVE KeysInv'
BY DEF Dropped, KeysInv, KeysTypeOK, KeysAreKnown, PadIsHeld

\* A call that fails and leaves the keys in any state the core knows.
LEMMA FailedKeeps ==
    ASSUME KeysInv, reply' = "failed", pad' \in SUBSET Buttons,
           keys' \in SUBSET Controls, controls' = keys'
    PROVE  KeysInv'
BY DEF KeysInv, KeysTypeOK, KeysAreKnown, PadIsHeld

LEMMA ReleasedKeeps == ASSUME KeysInv, Released, reply' = "failed" PROVE KeysInv'
<1>1. pad' \in SUBSET Buttons
    BY DEF Released
<1>2. CASE Queued({})
    BY <1>1, <1>2, QueuedMoves, FailedKeeps
<1>3. CASE QueueFails({})
    BY <1>1, <1>3, QueueFailsKeeps, FailedKeeps
<1> QED
    BY <1>2, <1>3 DEF Released

LEMMA RunKeeps == ASSUME KeysInv, NEW p \in Pads, PlayRun(p) PROVE KeysInv'
<1>1. p \in SUBSET Buttons /\ Mapped(p) \in SUBSET Controls
    BY PadsAssumption, MappedIsControls
<1>2. keys' = Mapped(p) /\ controls' = Mapped(p) /\ pad' = p
    BY <1>1, QueuedMoves DEF PlayRun
<1>3. reply' \in {"run", "failed"}
    BY DEF PlayRun, Run, RunFails, Replies
<1>4. Mapped(pad') = Mapped(p)
    BY <1>2
<1>5. PadIsHeld'
    BY <1>2, <1>3, <1>4 DEF PadIsHeld, Mapped
<1> QED
    BY <1>1, <1>2, <1>3, <1>5 DEF KeysInv, KeysTypeOK, KeysAreKnown

LEMMA ReleasingKeeps ==
    ASSUME KeysInv, Queued({}), pad' = {}, reply' # "run" PROVE KeysInv'
<1>1. Dropped
    BY QueuedMoves DEF Dropped
<1> QED
    BY <1>1, DroppedKeeps

LEMMA KeysInvStep == KeysInv /\ [PlayNext]_playVars => KeysInv'
<1> SUFFICES ASSUME KeysInv, [PlayNext]_playVars PROVE KeysInv'
    OBVIOUS
<1>1. CASE PlayDeinit
    BY <1>1, DroppedKeeps DEF PlayDeinit, RetroDeinit, Replies
<1>2. CASE PlayCannotReplace
    BY <1>2, ReleasedKeeps DEF PlayCannotReplace, LoadCannotReplace, Replies
<1>3. CASE PlayLoadFails
    BY <1>3, DroppedKeeps DEF PlayLoadFails, LoadFails, Replies
<1>4. CASE PlayLoad
    BY <1>4, DroppedKeeps DEF PlayLoad, LoadGame, Replies
<1>5. CASE PlayUnload
  <2>1. CASE Dropped
    BY <1>5, <2>1, DroppedKeeps DEF PlayUnload, RetroUnloadGame, Replies
  <2>2. CASE machine' # NoMachine
    <3>1. Released
      BY <1>5, <2>2 DEF PlayUnload
    <3>2. reply' = "failed"
      BY <1>5, <2>2 DEF PlayUnload, RetroUnloadGame, Unloaded, Replies
    <3> QED
      BY <3>1, <3>2, ReleasedKeeps
  <2> QED
    BY <1>5, <2>1, <2>2 DEF PlayUnload
<1>6. ASSUME NEW p \in Pads, PlayRefused(p) PROVE KeysInv'
  <2>1. p \in SUBSET Buttons /\ Mapped(p) \in SUBSET Controls
    BY PadsAssumption, MappedIsControls
  <2>2. reply' = "failed" /\ pad' = p /\ QueueFails(Mapped(p))
    BY <1>6 DEF PlayRefused, RunRefused, Replies
  <2> QED
    BY <2>1, <2>2, QueueFailsKeeps, FailedKeeps
<1>7. ASSUME NEW p \in Pads, PlayRun(p) PROVE KeysInv'
    BY <1>7, RunKeeps
<1>8. CASE PlayReset
  <2>1. reply' \in {"reset", "failed"} /\ pad' = {}
    BY <1>8 DEF PlayReset, RetroReset, Replies
  <2>2. CASE Queued({})
    BY <2>1, <2>2, ReleasingKeeps
  <2>3. CASE QueueFails({}) /\ reply' = "failed"
    BY <2>1, <2>3, ReleasedKeeps DEF Released
  <2> QED
    BY <1>8, <2>2, <2>3 DEF PlayReset
<1>9. CASE PlayUnserialize
  <2>1. reply' \in {"unserialize", "failed"} /\ pad' = {}
    BY <1>9 DEF PlayUnserialize, RetroUnserialize, Replies
  <2>2. CASE Queued({})
    BY <2>1, <2>2, ReleasingKeeps
  <2>3. CASE QueueFails({}) /\ reply' = "failed"
    BY <2>1, <2>3, ReleasedKeeps DEF Released
  <2>4. CASE reply' = "failed" /\ UNCHANGED <<keys, controls>>
    BY <2>1, <2>4, FailedKeeps DEF KeysInv, KeysTypeOK, KeysAreKnown
  <2> QED
    BY <1>9, <2>2, <2>3, <2>4 DEF PlayUnserialize
<1>10. CASE PlayOther
  <2>1. reply' \in {"init", "serialize", "failed"}
    BY <1>10 DEF PlayOther, RetroInit, LoadRefused, RetroSerialize, Replies
  <2>2. pad' = {} /\ keys' = keys /\ controls' = controls
    BY <1>10 DEF PlayOther
  <2> QED
    BY <2>1, <2>2 DEF KeysInv, KeysTypeOK, KeysAreKnown, PadIsHeld
<1>11. CASE PlayKill
    BY <1>11, DroppedKeeps DEF PlayKill, Kill, Replies
<1>12. CASE UNCHANGED playVars
    BY <1>12 DEF playVars, vars, keyVars, KeysInv, KeysTypeOK, KeysAreKnown,
                 PadIsHeld, Mapped
<1> QED
    BY <1>1, <1>2, <1>3, <1>4, <1>5, <1>6, <1>7, <1>8, <1>9, <1>10, <1>11,
       <1>12 DEF PlayNext

LEMMA KeysInvHolds == PlaySpec => []KeysInv
BY KeysInvInit, KeysInvStep, PTL DEF PlaySpec

\* The keys of the machine and the core's record of them stay controls of the
\* handset, whatever buttons the pad sends.
THEOREM KeysTypeCorrect == PlaySpec => []KeysTypeOK
BY KeysInvHolds, PTL DEF KeysInv

\* No sequence of rejected key events, failed unloads and states makes the
\* record differ from the machine.
THEOREM KeysStayKnown == PlaySpec => []KeysAreKnown
BY KeysInvHolds, PTL DEF KeysInv

\* Every frame that runs does so with the keys of the pad, and no session, reset
\* or loaded state starts with a key of the one before.
THEOREM PadStaysHeld == PlaySpec => []PadIsHeld
BY KeysInvHolds, PTL DEF KeysInv

\* A core with keys is a core: what is proved of LibretroCore holds of it.
THEOREM KeysOnlyAdd == PlaySpec => Spec
<1>1. PlayInit => Init
    BY DEF PlayInit
<1>2. [PlayNext]_playVars => [Next]_vars
  <2> SUFFICES ASSUME [PlayNext]_playVars PROVE [Next]_vars
    OBVIOUS
  <2>1. CASE PlayNext
    BY <2>1 DEF PlayNext, PlayDeinit, PlayCannotReplace, PlayLoadFails, PlayLoad,
                PlayUnload, PlayRefused, PlayRun, PlayReset, PlayUnserialize,
                PlayOther, PlayKill, Next
  <2>2. CASE UNCHANGED playVars
    BY <2>2 DEF playVars
  <2> QED
    BY <2>1, <2>2
<1> QED
    BY <1>1, <1>2, PTL DEF PlaySpec, Spec
=============================================================================
