-------------------------- MODULE AppBackendProofs --------------------------
(***************************************************************************)
(* Proofs about AppBackend: its type invariant and the properties its run  *)
(* checks, for any set of titles, any number of slots and any bound on the *)
(* guests' writes.                                                         *)
(***************************************************************************)
EXTENDS AppBackend, TLAPS

-----------------------------------------------------------------------------
(* Types. *)

LEMMA TypedInit == Init => TypeOK
<1> SUFFICES ASSUME Init PROVE TypeOK
    OBVIOUS
<1>1. disk \in [Titles -> Storage]
    BY DEF Init, Storage
<1>2. slots \in [Titles -> [Slots -> SUBSET SlotFiles]]
    BY DEF Init
<1>3. backup \in [Titles -> SUBSET SlotFiles]
    BY DEF Init
<1>4. written \in 0 .. MaxWrites
    BY AppBackendAssumption DEF Init
<1> QED
    BY <1>1, <1>2, <1>3, <1>4 DEF Init, TypeOK, Calls

\* The pieces every operation is made of keep the types.
LEMMA PersistTyped ==
    ASSUME TypeOK, NEW m \in Machines, NEW ok \in BOOLEAN,
           PersistSaveData(m, ok)
    PROVE  disk' \in [Titles -> Storage]
BY DEF TypeOK, PersistSaveData, Machines

LEMMA GuestTyped ==
    ASSUME TypeOK, NEW m \in Machines, NEW n, NEW ok \in BOOLEAN,
           GuestRuns(m, n, ok)
    PROVE  /\ n \in Machines
           /\ n.title = m.title
           /\ n.storage = m.storage \/ n.storage = <<m.title, written + 1>>
           /\ machine' = n
           /\ written' \in 0 .. MaxWrites
           /\ written' >= written
           /\ n.storage # m.storage => written' = written + 1
<1> DEFINE States2 == IF ok THEN {"running", "paused", "stopped"}
                            ELSE {m.state, "faulted"}
<1> DEFINE New == {m.title} \X {k \in {written + 1} : k <= MaxWrites}
<1>1. n \in [title : {m.title}, state : States2, storage : {m.storage} \union New]
    BY DEF GuestRuns
<1>2. States2 \subseteq States
    BY DEF States, Machines
<1>3. \A b \in New : /\ b = <<m.title, written + 1>>
                     /\ b \in Storage
                     /\ written + 1 <= MaxWrites
    BY AppBackendAssumption DEF TypeOK, Storage, Machines
<1>4. n.title = m.title /\ n.state \in States2 /\ n.storage \in {m.storage} \union New
    BY <1>1
<1>5. n \in Machines
    BY <1>1, <1>2, <1>3 DEF Machines
<1>6. machine' = n /\ written' = IF n.storage = m.storage THEN written ELSE written + 1
    BY DEF GuestRuns
<1> HIDE DEF States2, New
<1> QED
    BY <1>3, <1>4, <1>5, <1>6, AppBackendAssumption DEF TypeOK

\* A machine changed in its state or its storage is still one.
LEMMA MachineTyped ==
    ASSUME NEW m \in Machines, NEW state \in States, NEW b \in Storage
    PROVE  /\ [m EXCEPT !.state = state] \in Machines
           /\ [m EXCEPT !.storage = b] \in Machines
           /\ [m EXCEPT !.state = state, !.storage = b] \in Machines
BY DEF Machines

LEMMA ResetTyped ==
    ASSUME NEW m \in Machines
    PROVE  /\ Rebooted(m) \in Machines
           /\ Faulted(m) \in Machines
           /\ Snapshot(m) \in SlotFiles
BY DEF Machines, States, Rebooted, Faulted, Snapshot, SlotFiles

LEMMA ToolTyped ==
    ASSUME TypeOK, InvalidateMemoryTool
    PROVE  panel' \in {"none", "stale", "current"} /\ selected' \in BOOLEAN
BY DEF TypeOK, InvalidateMemoryTool

\* A loaded save state or an imported backup leaves a machine of the same title.
LEMMA LoadTyped ==
    ASSUME TypeOK, NEW s \in Slots, LoadState(s)
    PROVE  machine \in Machines /\ machine' \in Machines
<1>1. machine \in Machines
    BY DEF TypeOK, LoadState, Supports, Loaded
<1>2. \A file \in slots[machine.title][s] : file.storage \in Storage
    BY <1>1 DEF TypeOK, SlotFiles, Machines
<1>3. ASSUME NEW file \in slots[machine.title][s], NEW state \in States
      PROVE  [machine EXCEPT !.state = state, !.storage = file.storage] \in Machines
    BY <1>1, <1>2, <1>3, MachineTyped
<1>4. machine' = machine
      \/ \E file \in slots[machine.title][s], state \in States :
           machine' = [machine EXCEPT !.state = state, !.storage = file.storage]
    BY DEF LoadState
<1> QED
    BY <1>1, <1>3, <1>4

LEMMA ImportTyped ==
    ASSUME TypeOK, NEW t \in Titles, ImportSaveData(t)
    PROVE  machine \in Machines /\ machine' \in Machines
<1>1. machine \in Machines /\ machine.state \in States
    BY DEF TypeOK, ImportSaveData, Machines, Loaded
<1>2. \A file \in backup[t] : file.storage \in Storage
    BY DEF TypeOK, SlotFiles
<1> QED
    BY <1>1, <1>2, MachineTyped DEF ImportSaveData

LEMMA TypedStep == TypeOK /\ [Next]_vars => TypeOK'
<1> SUFFICES ASSUME TypeOK, [Next]_vars
             PROVE  TypeOK'
    OBVIOUS
<1> USE DEF Loaded, Replies, files, tool, counts
<1>t. /\ machine \in Machines \union {NoMachine}
      /\ runRequested \in BOOLEAN
      /\ disk \in [Titles -> Storage]
      /\ slots \in [Titles -> [Slots -> SUBSET SlotFiles]]
      /\ backup \in [Titles -> SUBSET SlotFiles]
      /\ panel \in {"none", "stale", "current"}
      /\ selected \in BOOLEAN
      /\ fresh \in BOOLEAN
      /\ rolled \in BOOLEAN
      /\ written \in 0 .. MaxWrites
      /\ reply \in Calls
    BY DEF TypeOK
<1>1. CASE OpenRejected
    BY <1>1, <1>t DEF OpenRejected, TypeOK, Calls
<1>2. CASE OpenCannotSave
    BY <1>2, <1>t, PersistTyped DEF OpenCannotSave, TypeOK, Calls
<1>3. CASE OpenCannotRestore
    BY <1>3, <1>t, PersistTyped DEF OpenCannotRestore, TypeOK, Calls
<1>4. ASSUME NEW t \in Titles, Open(t)
      PROVE  TypeOK'
  <2>1. disk' \in [Titles -> Storage]
      BY <1>4, <1>t, PersistTyped DEF Open
  <2>2. machine' \in Machines
      BY <1>4, <2>1 DEF Open, Machines, States
  <2> QED
      BY <1>4, <1>t, <2>1, <2>2, ToolTyped DEF Open, TypeOK, Calls
<1>5. CASE Close
  <2>1. disk' \in [Titles -> Storage]
      BY <1>5, <1>t, PersistTyped DEF Close
  <2> QED
      BY <1>5, <1>t, <2>1, ToolTyped DEF Close, TypeOK, Calls
<1>6. CASE Kill
    BY <1>6, <1>t DEF Kill, TypeOK, Calls
<1>7. CASE Start
  <2>1. machine \in Machines
      BY <1>7, <1>t DEF Start, Supports
  <2>a. ASSUME machine' \in {machine, Faulted(machine)}, UNCHANGED written
        PROVE  machine' \in Machines /\ written' \in 0 .. MaxWrites
      BY <2>a, <1>t, <2>1, ResetTyped
  <2>b. ASSUME NEW n \in Machines, NEW ok \in BOOLEAN,
               GuestRuns(IF machine.state = "stopped"
                           THEN Rebooted(machine) ELSE machine, n, ok)
        PROVE  machine' \in Machines /\ written' \in 0 .. MaxWrites
    <3>1. CASE machine.state = "stopped"
        BY <2>b, <3>1, <2>1, ResetTyped, GuestTyped
    <3>2. CASE machine.state # "stopped"
        BY <2>b, <3>2, <2>1, GuestTyped
    <3> QED
        BY <3>1, <3>2
  <2>2. machine' \in Machines /\ written' \in 0 .. MaxWrites
      BY <1>7, <2>a, <2>b DEF Start
  <2>3. panel' \in {"none", "stale", "current"} /\ selected' \in BOOLEAN
      BY <1>7, <1>t, ToolTyped DEF Start
  <2>c. \A n : CanContinue(n) \in BOOLEAN
      BY DEF CanContinue
  <2>4. runRequested' \in BOOLEAN /\ fresh' \in BOOLEAN
      BY <1>7, <1>t, <2>c DEF Start
  <2>5. reply' \in Calls /\ UNCHANGED <<disk, slots, backup, rolled>>
      BY <1>7 DEF Start, Calls
  <2> QED
      BY <1>t, <2>2, <2>3, <2>4, <2>5 DEF TypeOK
<1>8. CASE PauseResume
    BY <1>8, <1>t DEF PauseResume, TypeOK, Calls, CanContinue
<1>9. CASE Stop
  <2>1. machine \in Machines
      BY <1>9, <1>t DEF Stop, Supports
  <2>2. machine' \in Machines /\ disk' \in [Titles -> Storage]
      BY <1>9, <1>t, <2>1, PersistTyped, MachineTyped DEF Stop, Storage, States
  <2> QED
      BY <1>9, <1>t, <2>2, ToolTyped DEF Stop, TypeOK, Calls
<1>10. CASE Reset
  <2>1. machine \in Machines
      BY <1>10, <1>t DEF Reset, Supports
  <2>2. machine' \in Machines
      BY <1>10, <2>1, ResetTyped DEF Reset
  <2>3. disk' \in [Titles -> Storage]
      BY <1>10, <1>t, <2>1, PersistTyped DEF Reset
  <2> QED
      BY <1>10, <1>t, <2>2, <2>3, ToolTyped DEF Reset, TypeOK, Calls
<1>11. CASE Frame
  <2>1. machine \in Machines
      BY <1>11, <1>t DEF Frame, Supports
  <2>2. machine' \in Machines /\ written' \in 0 .. MaxWrites
      BY <1>11, <2>1, GuestTyped DEF Frame
  <2> QED
      BY <1>11, <1>t, <2>2, ToolTyped DEF Frame, TypeOK, Calls
<1>12. CASE RunFrame
  <2>1. machine \in Machines
      BY <1>12, <1>t DEF RunFrame
  <2>2. machine' \in Machines /\ written' \in 0 .. MaxWrites
      BY <1>12, <2>1, GuestTyped DEF RunFrame
  <2>3. disk' \in [Titles -> Storage]
      BY <1>12, <1>t, <2>1, GuestTyped, PersistTyped DEF RunFrame
  <2> QED
      BY <1>12, <1>t, <2>2, <2>3, ToolTyped DEF RunFrame, TypeOK, Calls
<1>13. ASSUME NEW s \in Slots, SaveState(s)
       PROVE  TypeOK'
  <2>1. machine \in Machines
      BY <1>13, <1>t DEF SaveState, Supports
  <2>2. slots' \in [Titles -> [Slots -> SUBSET SlotFiles]]
    <3>1. Snapshot(machine) \in SlotFiles /\ machine.title \in Titles
        BY <2>1, ResetTyped DEF Machines
    <3>2. {Snapshot(machine)} \in SUBSET SlotFiles
        BY <3>1
    <3> DEFINE row == [slots[machine.title] EXCEPT ![s] = {Snapshot(machine)}]
    <3>3. row \in [Slots -> SUBSET SlotFiles]
        BY <1>t, <3>1, <3>2
    <3>4. slots' = slots \/ slots' = [slots EXCEPT ![machine.title] = row]
        BY <1>13 DEF SaveState
    <3> HIDE DEF row
    <3> QED
        BY <1>t, <3>1, <3>3, <3>4
  <2>3. disk' \in [Titles -> Storage]
      BY <1>13, <1>t, <2>1, PersistTyped DEF SaveState
  <2> QED
      BY <1>13, <1>t, <2>2, <2>3 DEF SaveState, TypeOK, Calls
<1>14. ASSUME NEW s \in Slots, LoadState(s)
       PROVE  TypeOK'
  <2>1. machine' \in Machines
      BY <1>14, LoadTyped
  <2>2. \A n : CanContinue(n) \in BOOLEAN
      BY DEF CanContinue
  <2>3. runRequested' \in BOOLEAN
      BY <1>14, <1>t, <2>2 DEF LoadState
  <2> QED
      BY <1>14, <1>t, <2>1, <2>3, ToolTyped DEF LoadState, TypeOK, Calls
<1>15. CASE FlushSaveData
    BY <1>15, <1>t, PersistTyped DEF FlushSaveData, TypeOK, Calls
<1>16. CASE ExportSaveData
  <2>1. disk' \in [Titles -> Storage]
      BY <1>16, <1>t, PersistTyped DEF ExportSaveData
  <2>2. backup' \in [Titles -> SUBSET SlotFiles]
    <3>1. Snapshot(machine) \in SlotFiles /\ machine.title \in Titles
        BY <1>16, <1>t, ResetTyped DEF ExportSaveData, Machines
    <3>2. {Snapshot(machine)} \in SUBSET SlotFiles
        BY <3>1
    <3>3. backup' = backup \/ backup' = [backup EXCEPT ![machine.title] = {Snapshot(machine)}]
        BY <1>16 DEF ExportSaveData
    <3> QED
        BY <1>t, <3>1, <3>2, <3>3
  <2> QED
      BY <1>16, <1>t, <2>1, <2>2 DEF ExportSaveData, TypeOK, Calls
<1>17. ASSUME NEW t \in Titles, ImportSaveData(t)
       PROVE  TypeOK'
  <2>1. machine' \in Machines
      BY <1>17, ImportTyped
  <2>2. disk' \in [Titles -> Storage]
      BY <1>17, <1>t, <2>1, PersistTyped DEF ImportSaveData
  <2> QED
      BY <1>17, <1>t, <2>1, <2>2 DEF ImportSaveData, TypeOK, Calls
<1>18. CASE MemorySnapshot
    BY <1>18, <1>t DEF MemorySnapshot, TypeOK, Calls
<1>19. CASE MemoryScan
    BY <1>19, <1>t DEF MemoryScan, TypeOK, Calls
<1>20. CASE MemorySelect
    BY <1>20, <1>t DEF MemorySelect, TypeOK, Calls
<1>21. CASE MemoryWrite
    BY <1>21, <1>t DEF MemoryWrite, TypeOK, Calls
<1>22. ASSUME NEW from \in Titles, NEW to \in Titles, NEW s \in Slots,
              UserCopiesSlot(from, to, s)
       PROVE  TypeOK'
    BY <1>22, <1>t DEF UserCopiesSlot, TypeOK, Calls
<1>23. CASE UNCHANGED vars
    BY <1>23, <1>t DEF vars, TypeOK
<1> QED
    BY <1>1, <1>2, <1>3, <1>4, <1>5, <1>6, <1>7, <1>8, <1>9, <1>10, <1>11, <1>12,
       <1>13, <1>14, <1>15, <1>16, <1>17, <1>18, <1>19, <1>20, <1>21, <1>22, <1>23
    DEF Next

\* The variables always have their types, whatever fails or dies.
THEOREM TypeCorrect == Spec => []TypeOK
<1> QED
    BY TypedInit, TypedStep, PTL DEF Spec

-----------------------------------------------------------------------------
(* The run intent. *)

LEMMA RunIntentStep == TypeOK /\ RunIntent /\ [Next]_vars => RunIntent'
<1> SUFFICES ASSUME TypeOK, RunIntent, [Next]_vars, runRequested'
             PROVE  Loaded' /\ CanContinue(machine)'
    BY DEF RunIntent
<1> USE DEF Loaded, CanContinue
<1>t. machine \in Machines \union {NoMachine} /\ machine' \in Machines \union {NoMachine}
    BY TypedStep DEF TypeOK
\* Start is offered to no running machine, so a start that fails finds no intent.
<1>1. CASE Start
  <2>1. ~runRequested
      BY <1>1 DEF Start, Supports, State, RunIntent, OfferedIn
  <2>2. PICK n \in Machines, ok \in BOOLEAN :
             /\ GuestRuns(IF machine.state = "stopped"
                            THEN Rebooted(machine) ELSE machine, n, ok)
             /\ runRequested' = IF ok THEN CanContinue(n) ELSE runRequested
      BY <1>1, <2>1 DEF Start
  <2> QED
      BY <2>1, <2>2, AppBackendAssumption DEF GuestRuns
<1>2. CASE PauseResume
    BY <1>2 DEF PauseResume, Supports
\* A frame command is only offered to a machine that no play loop runs.
<1>3. CASE Frame
    BY <1>3 DEF Frame, Supports, State, RunIntent, OfferedIn
<1>4. CASE RunFrame
  <2>1. PICK n \in Machines : GuestRuns(machine, n, TRUE) /\ CanContinue(n)
      BY <1>4 DEF RunFrame
  <2> QED
      BY <2>1, AppBackendAssumption DEF GuestRuns
<1>5. ASSUME NEW s \in Slots, LoadState(s)
      PROVE  Loaded' /\ CanContinue(machine)'
  <2>1. machine' \in Machines
      BY <1>5, LoadTyped
  <2>2. CanContinue(machine)'
      BY <1>5 DEF LoadState, RunIntent
  <2> QED
      BY <2>1, <2>2, AppBackendAssumption
<1>6. ASSUME NEW t \in Titles, ImportSaveData(t)
      PROVE  Loaded' /\ CanContinue(machine)'
  <2>1. machine \in Machines /\ machine' \in Machines
      BY <1>6, ImportTyped
  <2>2. runRequested /\ CanContinue(machine)
      BY <1>6 DEF ImportSaveData, RunIntent
  <2>3. machine'.state = machine.state
      BY <1>6, <2>1 DEF ImportSaveData, Machines
  <2> QED
      BY <2>1, <2>2, <2>3, AppBackendAssumption
<1>7. CASE \/ \E t \in Titles : Open(t)
           \/ Close \/ Kill \/ Stop \/ Reset
    BY <1>7 DEF Open, Close, Kill, Stop, Reset, RunIntent
<1>8. CASE UNCHANGED <<machine, runRequested>>
    BY <1>8 DEF RunIntent
<1> QED
  <2>1. CASE \/ OpenRejected \/ OpenCannotSave \/ OpenCannotRestore
             \/ \E s \in Slots : SaveState(s)
             \/ FlushSaveData \/ ExportSaveData
             \/ MemorySnapshot \/ MemoryScan \/ MemorySelect \/ MemoryWrite
             \/ \E from, to \in Titles, s \in Slots : UserCopiesSlot(from, to, s)
             \/ UNCHANGED vars
      BY <1>8, <2>1 DEF OpenRejected, OpenCannotSave, OpenCannotRestore, SaveState,
         FlushSaveData, ExportSaveData, MemorySnapshot, MemoryScan, MemorySelect,
         MemoryWrite, UserCopiesSlot, vars
  <2> QED
      BY <1>1, <1>2, <1>3, <1>4, <1>5, <1>6, <1>7, <2>1 DEF Next

\* The play loop is only asked to run a machine that can continue.
THEOREM RunIntentIsSound == Spec => []RunIntent
<1>1. Init => RunIntent
    BY DEF Init, RunIntent
<1> QED
    BY <1>1, TypedInit, TypedStep, RunIntentStep, PTL DEF Spec

-----------------------------------------------------------------------------
(* The memory tool's selection. *)

\* Inductive form of SelectionIsFresh: whatever the panel's session is, a
\* selection was made in the present memory.
SelectedIsFresh == selected => Loaded /\ fresh

LEMMA SelectedStep == TypeOK /\ SelectedIsFresh /\ [Next]_vars => SelectedIsFresh'
<1> SUFFICES ASSUME TypeOK, SelectedIsFresh, [Next]_vars, selected'
             PROVE  Loaded' /\ fresh'
    BY DEF SelectedIsFresh
<1> USE DEF Loaded, tool, InvalidateMemoryTool
<1>t. machine \in Machines \union {NoMachine} /\ machine' \in Machines \union {NoMachine}
    BY TypedStep DEF TypeOK
\* Only a start that found the guest stopped replaces memory, and it
\* invalidates the tool.
<1>1. CASE Start
  <2>1. machine.state # "stopped" /\ UNCHANGED <<selected, fresh>> /\ Loaded
      BY <1>1, <1>t DEF Start, SelectedIsFresh, Supports
  <2>2. machine' \in Machines
      BY <1>1, <2>1 DEF Start, GuestRuns
  <2> QED
      BY <2>1, <2>2, AppBackendAssumption DEF SelectedIsFresh
<1>2. CASE Frame \/ RunFrame
  <2>1. machine' \in Machines /\ selected /\ fresh' = fresh
      BY <1>2 DEF Frame, RunFrame, GuestRuns
  <2> QED
      BY <2>1, AppBackendAssumption DEF SelectedIsFresh
<1>3. ASSUME NEW t \in Titles, ImportSaveData(t)
      PROVE  Loaded' /\ fresh'
  <2>1. machine' \in Machines
      BY <1>3, ImportTyped
  <2> QED
      BY <1>3, <2>1, AppBackendAssumption DEF ImportSaveData, SelectedIsFresh
<1>4. CASE \/ \E t \in Titles : Open(t)
           \/ Close \/ Kill \/ Stop \/ Reset
           \/ \E s \in Slots : LoadState(s)
           \/ MemoryScan \/ MemorySelect
    BY <1>4 DEF Open, Close, Kill, Stop, Reset, LoadState, MemoryScan, MemorySelect,
       SelectedIsFresh
<1>5. CASE UNCHANGED <<machine, fresh>> /\ selected' \in {selected, FALSE}
    BY <1>5 DEF SelectedIsFresh
<1> QED
  <2>1. CASE \/ OpenRejected \/ OpenCannotSave \/ OpenCannotRestore \/ PauseResume
             \/ \E s \in Slots : SaveState(s)
             \/ FlushSaveData \/ ExportSaveData \/ MemorySnapshot \/ MemoryWrite
             \/ \E from, to \in Titles, s \in Slots : UserCopiesSlot(from, to, s)
             \/ UNCHANGED vars
      BY <1>5, <2>1 DEF OpenRejected, OpenCannotSave, OpenCannotRestore, PauseResume,
         SaveState, FlushSaveData, ExportSaveData, MemorySnapshot, MemoryWrite,
         UserCopiesSlot, vars
  <2> QED
      BY <1>1, <1>2, <1>3, <1>4, <2>1 DEF Next

\* A memory write accepted for the panel's current session reaches the memory
\* its selection was made in.
THEOREM SelectionStaysFresh == Spec => []SelectionIsFresh
<1>1. Init => SelectedIsFresh
    BY DEF Init, SelectedIsFresh
<1>2. SelectedIsFresh => SelectionIsFresh
    BY DEF SelectedIsFresh, SelectionIsFresh
<1> QED
    BY <1>1, <1>2, TypedInit, TypedStep, SelectedStep, PTL DEF Spec

-----------------------------------------------------------------------------
(* Every title keeps its own saves, and no storage is newer than the last   *)
(* one a guest produced: the inductive invariant has one conjunct for each  *)
(* place a storage content can be in.                                       *)

Genuine(t, b) == Owns(t, b) /\ Age(b) <= written

MachineGenuine == Loaded => Genuine(machine.title, machine.storage)
DiskGenuine == \A t \in Titles : Genuine(t, disk[t])
BackupsGenuine == \A t \in Titles : \A file \in backup[t] : Genuine(file.title, file.storage)
SlotsGenuine == \A t \in Titles, s \in Slots :
                  \A file \in slots[t][s] : Genuine(file.title, file.storage)

GenuineInv == MachineGenuine /\ DiskGenuine /\ BackupsGenuine /\ SlotsGenuine

LEMMA AgeTyped == \A b \in Storage : Age(b) \in Nat
BY AppBackendAssumption DEF Age, Storage

\* Guests only ever add to the storage contents there are.
LEMMA WrittenGrows ==
    ASSUME TypeOK, [Next]_vars
    PROVE  written \in Nat /\ written' \in Nat /\ written <= written'
<1> USE DEF counts
<1>1. written \in Nat
    BY AppBackendAssumption DEF TypeOK
<1>2. \A m, n, ok : GuestRuns(m, n, ok) => written' \in {written, written + 1}
    BY DEF GuestRuns
<1>3. written' \in {written, written + 1}
    BY <1>2 DEF Next, vars, OpenRejected, OpenCannotSave, OpenCannotRestore, Open, Close,
       Kill, Start, PauseResume, Stop, Reset, Frame, RunFrame, SaveState, LoadState,
       FlushSaveData, ExportSaveData, ImportSaveData, MemorySnapshot, MemoryScan,
       MemorySelect, MemoryWrite, UserCopiesSlot
<1> QED
    BY <1>1, <1>3

\* What was genuine stays genuine.
LEMMA StaysGenuine ==
    ASSUME TypeOK, [Next]_vars, NEW t, NEW b \in Storage, Genuine(t, b)
    PROVE  Genuine(t, b)'
BY WrittenGrows, AgeTyped DEF Genuine, Owns, Age

LEMMA PersistGenuine ==
    ASSUME TypeOK, [Next]_vars, DiskGenuine, NEW m \in Machines,
           Owns(m.title, m.storage), Age(m.storage) <= written',
           NEW ok \in BOOLEAN, PersistSaveData(m, ok)
    PROVE  DiskGenuine'
<1>0. disk \in [Titles -> Storage]
    BY DEF TypeOK
<1>1. \A t \in Titles : disk'[t] = disk[t] \/ (t = m.title /\ disk'[t] = m.storage)
    BY <1>0 DEF PersistSaveData
<1>2. \A t \in Titles : disk[t] \in Storage
    BY <1>0
<1>3. ASSUME NEW t \in Titles PROVE Genuine(t, disk[t])'
  <2>1. CASE disk'[t] = disk[t]
    <3>1. Owns(t, disk[t]) /\ Age(disk[t]) <= written /\ Age(disk[t]) \in Nat
        BY <1>2, AgeTyped DEF DiskGenuine, Genuine
    <3>2. Owns(t, disk'[t]) /\ Age(disk'[t]) <= written'
        BY <2>1, <3>1, WrittenGrows
    <3> QED
        BY <3>2 DEF Genuine, Owns, Age
  <2>2. CASE t = m.title /\ disk'[t] = m.storage
    <3>1. Owns(t, disk'[t]) /\ Age(disk'[t]) <= written'
        BY <2>2
    <3> QED
        BY <3>1 DEF Genuine, Owns, Age
  <2> QED
      BY <1>1, <2>1, <2>2
<1> QED
    BY <1>3 DEF DiskGenuine

LEMMA GuestGenuine ==
    ASSUME TypeOK, NEW m \in Machines, Genuine(m.title, m.storage),
           NEW n, NEW ok \in BOOLEAN, GuestRuns(m, n, ok)
    PROVE  /\ n \in Machines
           /\ n.title = m.title
           /\ Owns(n.title, n.storage)
           /\ Age(n.storage) <= written'
           /\ n.storage # m.storage => Age(n.storage) = written + 1
           /\ machine' = n
<1>1. /\ n \in Machines /\ n.title = m.title /\ machine' = n
      /\ n.storage = m.storage \/ n.storage = <<m.title, written + 1>>
      /\ n.storage # m.storage => written' = written + 1
      /\ written \in Nat /\ written' \in Nat /\ written' >= written
    BY GuestTyped, AppBackendAssumption DEF TypeOK
<1>2. Age(m.storage) \in Nat /\ n.storage \in Storage /\ m.storage \in Storage
    BY <1>1, AgeTyped DEF Machines
<1>3. CASE n.storage = m.storage
    BY <1>1, <1>2, <1>3 DEF Genuine
<1>4. CASE n.storage # m.storage
  <2>1. n.storage = <<m.title, written + 1>> /\ n.storage # Empty
      BY <1>1, <1>2, <1>4, GuestTyped, AppBackendAssumption DEF Storage, Age, Machines, GuestRuns
  <2> QED
      BY <1>1, <1>4, <2>1 DEF Owns, Age
<1> QED
    BY <1>3, <1>4

\* What the next state demands of a storage content of title t.
Kept(t, b) == Owns(t, b) /\ Age(b) <= written'

LEMMA GenuineStep == TypeOK /\ GenuineInv /\ [Next]_vars => GenuineInv'
<1> SUFFICES ASSUME TypeOK, GenuineInv, [Next]_vars
             PROVE  MachineGenuine' /\ DiskGenuine' /\ BackupsGenuine' /\ SlotsGenuine'
    BY DEF GenuineInv
<1> USE DEF Loaded, files, counts
<1>t. /\ machine \in Machines \union {NoMachine}
      /\ disk \in [Titles -> Storage]
      /\ slots \in [Titles -> [Slots -> SUBSET SlotFiles]]
      /\ backup \in [Titles -> SUBSET SlotFiles]
    BY DEF TypeOK
<1>i. MachineGenuine /\ DiskGenuine /\ BackupsGenuine /\ SlotsGenuine
    BY DEF GenuineInv
\* Where a content is kept or was genuine before, it is genuine after the step.
<1>k. \A t \in Titles, b \in Storage : Genuine(t, b) => Kept(t, b)
    BY WrittenGrows, AgeTyped DEF Genuine, Kept
<1>n. (Loaded' => Kept(machine'.title, machine'.storage)) => MachineGenuine'
    BY DEF MachineGenuine, Genuine, Kept, Owns, Age
<1>m. Loaded => /\ machine \in Machines
                /\ Genuine(machine.title, machine.storage)
                /\ Kept(machine.title, machine.storage)
    BY <1>t, <1>i, <1>k DEF MachineGenuine, Machines
<1>d. UNCHANGED disk => DiskGenuine'
  <2>1. \A t \in Titles : Kept(t, disk[t])
      BY <1>t, <1>i, <1>k DEF DiskGenuine
  <2> QED
      BY <2>1 DEF DiskGenuine, Genuine, Kept, Owns, Age
<1>b. UNCHANGED backup => BackupsGenuine'
  <2>1. \A t \in Titles : \A file \in backup[t] : Kept(file.title, file.storage)
      BY <1>t, <1>i, <1>k DEF BackupsGenuine, SlotFiles
  <2> QED
      BY <2>1 DEF BackupsGenuine, Genuine, Kept, Owns, Age
<1>f. \A t \in Titles, s \in Slots :
        \A file \in slots[t][s] : Kept(file.title, file.storage)
    BY <1>t, <1>i, <1>k DEF SlotsGenuine, SlotFiles
<1>s. UNCHANGED slots => SlotsGenuine'
    BY <1>f DEF SlotsGenuine, Genuine, Kept, Owns, Age
<1>p. \A ok \in BOOLEAN : Loaded /\ PersistSaveData(machine, ok) => DiskGenuine'
    BY <1>m, <1>i, PersistGenuine DEF Kept
<1>1. CASE OpenCannotSave \/ OpenCannotRestore
    BY <1>1, <1>p, <1>b, <1>s, <1>d, <1>n, <1>m DEF OpenCannotSave, OpenCannotRestore
<1>2. ASSUME NEW t \in Titles, Open(t)
      PROVE  MachineGenuine' /\ DiskGenuine' /\ BackupsGenuine' /\ SlotsGenuine'
  <2>1. DiskGenuine'
      BY <1>2, <1>p, <1>d DEF Open
  <2>2. Kept(machine'.title, machine'.storage)
      BY <1>2, <2>1 DEF Open, DiskGenuine, Genuine, Kept, Owns, Age
  <2> QED
      BY <1>2, <2>1, <2>2, <1>n, <1>b, <1>s DEF Open
<1>3. CASE Close
    BY <1>3, <1>p, <1>b, <1>s, <1>d, <1>n, <1>m DEF Close
<1>4. CASE Kill
    BY <1>4, <1>b, <1>s, <1>d, <1>n DEF Kill
<1>5. CASE Start
  <2>1. Loaded /\ UNCHANGED <<disk, slots, backup>>
      BY <1>5 DEF Start, Supports
  <2>2. /\ Rebooted(machine) \in Machines
        /\ Genuine(Rebooted(machine).title, Rebooted(machine).storage)
        /\ Kept(Faulted(machine).title, Faulted(machine).storage)
      BY <1>m, <2>1, ResetTyped DEF Rebooted, Faulted, Machines
  <2>3. ASSUME NEW n \in Machines, NEW ok \in BOOLEAN,
               GuestRuns(IF machine.state = "stopped"
                           THEN Rebooted(machine) ELSE machine, n, ok)
        PROVE  Kept(machine'.title, machine'.storage)
    <3>1. CASE machine.state = "stopped"
        BY <2>3, <3>1, <2>2, GuestGenuine DEF Kept
    <3>2. CASE machine.state # "stopped"
        BY <2>3, <3>2, <2>1, <1>m, GuestGenuine DEF Kept
    <3> QED
        BY <3>1, <3>2
  <2>4. ASSUME machine' \in {machine, Faulted(machine)}
        PROVE  Kept(machine'.title, machine'.storage)
      BY <2>4, <2>1, <2>2, <1>m
  <2>5. Kept(machine'.title, machine'.storage)
      BY <1>5, <2>3, <2>4 DEF Start
  <2> QED
      BY <2>1, <2>5, <1>n, <1>b, <1>s, <1>d
<1>6. CASE Stop
  <2>1. Loaded /\ UNCHANGED <<slots, backup>>
      BY <1>6 DEF Stop, Supports
  <2>2. machine'.title = machine.title /\ machine'.storage = machine.storage
      BY <1>6, <1>m, <2>1 DEF Stop, Machines
  <2>3. DiskGenuine'
      BY <1>6, <1>p, <1>d, <2>1 DEF Stop
  <2> QED
      BY <2>1, <2>2, <2>3, <1>m, <1>n, <1>b, <1>s
<1>7. CASE Reset
  <2>1. Loaded /\ UNCHANGED <<slots, backup>>
      BY <1>7 DEF Reset, Supports
  <2>2. machine'.title = machine.title /\ machine'.storage = machine.storage
      BY <1>7, <1>m, <2>1 DEF Reset, Rebooted, Faulted, Machines
  <2>3. DiskGenuine'
      BY <1>7, <1>p, <2>1 DEF Reset
  <2> QED
      BY <2>1, <2>2, <2>3, <1>m, <1>n, <1>b, <1>s
<1>8. CASE Frame
  <2>1. Loaded /\ UNCHANGED <<disk, slots, backup>>
      BY <1>8 DEF Frame, Supports
  <2>2. Kept(machine'.title, machine'.storage)
      BY <1>8, <1>m, <2>1, GuestGenuine DEF Frame, Kept
  <2> QED
      BY <2>1, <2>2, <1>n, <1>b, <1>s, <1>d
<1>9. CASE RunFrame
  <2>1. Loaded /\ UNCHANGED <<slots, backup>>
      BY <1>9 DEF RunFrame
  <2>2. PICK n \in Machines, ok \in BOOLEAN, saved \in BOOLEAN :
             /\ GuestRuns(machine, n, ok)
             /\ UNCHANGED disk \/ PersistSaveData(n, saved)
      BY <1>9 DEF RunFrame
  <2>3. Kept(n.title, n.storage) /\ machine' = n
      BY <2>1, <2>2, <1>m, GuestGenuine DEF Kept
  <2>4. DiskGenuine'
      BY <2>2, <2>3, <1>d, <1>i, PersistGenuine DEF Kept
  <2> QED
      BY <2>1, <2>3, <2>4, <1>n, <1>b, <1>s
<1>10. ASSUME NEW s \in Slots, SaveState(s)
       PROVE  MachineGenuine' /\ DiskGenuine' /\ BackupsGenuine' /\ SlotsGenuine'
  <2>1. Loaded /\ UNCHANGED <<machine, backup>>
      BY <1>10 DEF SaveState, Supports
  <2>2. DiskGenuine'
      BY <1>10, <1>p, <1>d, <2>1 DEF SaveState
  <2>3. \A t \in Titles, r \in Slots :
           slots'[t][r] = slots[t][r] \/ slots'[t][r] = {Snapshot(machine)}
      BY <1>10, <1>t DEF SaveState
  <2>4. \A t \in Titles, r \in Slots :
          \A file \in slots'[t][r] : Kept(file.title, file.storage)
      BY <2>1, <2>3, <1>m, <1>f DEF Snapshot
  <2>5. SlotsGenuine'
      BY <2>4 DEF SlotsGenuine, Genuine, Kept, Owns, Age
  <2> QED
      BY <2>1, <2>2, <2>5, <1>m, <1>n, <1>b
\* The header of a slot file names the loaded title, so what it holds belongs
\* to that title wherever the file came from.
<1>11. ASSUME NEW s \in Slots, LoadState(s)
       PROVE  MachineGenuine' /\ DiskGenuine' /\ BackupsGenuine' /\ SlotsGenuine'
  <2>1. Loaded /\ UNCHANGED <<disk, slots, backup>>
      BY <1>11 DEF LoadState, Supports
  <2>2. ASSUME NEW file \in slots[machine.title][s], NEW state \in States,
               file.title = machine.title,
               machine' = [machine EXCEPT !.state = state, !.storage = file.storage]
        PROVE  Kept(machine'.title, machine'.storage)
    <3>1. Kept(file.title, file.storage)
        BY <1>f, <1>m, <2>1 DEF Machines
    <3>2. machine'.title = machine.title /\ machine'.storage = file.storage
        BY <2>2, <1>m, <2>1 DEF Machines
    <3> QED
        BY <2>2, <3>1, <3>2
  <2>3. Kept(machine'.title, machine'.storage)
      BY <1>11, <2>1, <2>2, <1>m DEF LoadState
  <2> QED
      BY <2>1, <2>3, <1>n, <1>b, <1>s, <1>d
<1>12. CASE FlushSaveData
    BY <1>12, <1>p, <1>b, <1>s, <1>m, <1>n DEF FlushSaveData
<1>13. CASE ExportSaveData
  <2>1. Loaded /\ UNCHANGED <<machine, slots>>
      BY <1>13 DEF ExportSaveData
  <2>2. DiskGenuine'
      BY <1>13, <1>p, <1>d, <2>1 DEF ExportSaveData
  <2>3. backup' = backup \/ backup' = [backup EXCEPT ![machine.title] = {Snapshot(machine)}]
      BY <1>13 DEF ExportSaveData
  <2>4. \A t \in Titles : \A file \in backup'[t] : Kept(file.title, file.storage)
    <3>1. \A t \in Titles : backup'[t] = backup[t] \/ backup'[t] = {Snapshot(machine)}
        BY <2>3, <1>t
    <3>2. \A t \in Titles : \A file \in backup[t] : Kept(file.title, file.storage)
        BY <1>t, <1>i, <1>k DEF BackupsGenuine, SlotFiles
    <3> QED
        BY <3>1, <3>2, <2>1, <1>m DEF Snapshot
  <2>5. BackupsGenuine'
      BY <2>4 DEF BackupsGenuine, Genuine, Kept, Owns, Age
  <2> QED
      BY <2>1, <2>2, <2>5, <1>m, <1>n, <1>s
<1>14. ASSUME NEW t \in Titles, ImportSaveData(t)
       PROVE  MachineGenuine' /\ DiskGenuine' /\ BackupsGenuine' /\ SlotsGenuine'
  <2>1. /\ Loaded /\ UNCHANGED <<slots, backup>>
        /\ machine \in Machines /\ machine' \in Machines
      BY <1>14, ImportTyped DEF ImportSaveData
  <2>2. \A file \in backup[t] : Kept(file.title, file.storage)
      BY <1>t, <1>i, <1>k DEF BackupsGenuine, SlotFiles
  <2>3. Kept(machine'.title, machine'.storage)
      BY <1>14, <1>m, <2>1, <2>2 DEF ImportSaveData, Machines
  <2>4. UNCHANGED disk \/ \E ok \in BOOLEAN : PersistSaveData(machine', ok)
      BY <1>14 DEF ImportSaveData
  <2>5. DiskGenuine'
      BY <2>1, <2>3, <2>4, <1>d, <1>i, PersistGenuine DEF Kept
  <2> QED
      BY <2>1, <2>3, <2>5, <1>n, <1>b, <1>s
<1>15. ASSUME NEW from \in Titles, NEW to \in Titles, NEW s \in Slots,
              UserCopiesSlot(from, to, s)
       PROVE  MachineGenuine' /\ DiskGenuine' /\ BackupsGenuine' /\ SlotsGenuine'
  <2>1. UNCHANGED <<machine, disk, backup>>
      BY <1>15 DEF UserCopiesSlot
  <2>2. \A t \in Titles, r \in Slots :
           slots'[t][r] = slots[t][r] \/ slots'[t][r] = slots[from][s]
      BY <1>15, <1>t DEF UserCopiesSlot
  <2>3. SlotsGenuine'
      BY <2>2, <1>f DEF SlotsGenuine, Genuine, Kept, Owns, Age
  <2> QED
      BY <2>1, <2>3, <1>m, <1>n, <1>b, <1>d
<1>16. CASE UNCHANGED <<machine, disk, slots, backup>>
    BY <1>16, <1>m, <1>n, <1>b, <1>s, <1>d
<1> QED
  <2>1. CASE \/ OpenRejected \/ PauseResume
             \/ MemorySnapshot \/ MemoryScan \/ MemorySelect \/ MemoryWrite
             \/ UNCHANGED vars
      BY <1>16, <2>1 DEF OpenRejected, PauseResume, MemorySnapshot, MemoryScan,
         MemorySelect, MemoryWrite, vars
  <2> QED
      BY <1>1, <1>2, <1>3, <1>4, <1>5, <1>6, <1>7, <1>8, <1>9, <1>10, <1>11, <1>12,
         <1>13, <1>14, <1>15, <2>1 DEF Next

LEMMA GenuineInit == Init => GenuineInv
BY DEF Init, GenuineInv, MachineGenuine, DiskGenuine, BackupsGenuine, SlotsGenuine,
   Genuine, Owns, Age, Loaded

\* No sequence of opens, loads, imports, moved files and failures lets the
\* storage of one title reach the machine or a file of another.
THEOREM SavesStayWithTheirTitle == Spec => []TitleKeepsItsSaves
<1>1. GenuineInv => TitleKeepsItsSaves
    BY DEF GenuineInv, MachineGenuine, DiskGenuine, BackupsGenuine, SlotsGenuine,
       Genuine, TitleKeepsItsSaves
<1> QED
    BY <1>1, TypedInit, TypedStep, GenuineInit, GenuineStep, PTL DEF Spec

-----------------------------------------------------------------------------
(* Progress is not rolled back, and success means that it is on disk. *)

\* Saving a machine leaves its own save file no newer than the machine.
LEMMA PersistNotNewer ==
    ASSUME TypeOK, NEW m \in Machines, NEW ok \in BOOLEAN, PersistSaveData(m, ok),
           Age(disk[m.title]) <= Age(m.storage)
    PROVE  Age(disk'[m.title]) <= Age(m.storage)
<1>1. disk \in [Titles -> Storage] /\ m.title \in Titles /\ m.storage \in Storage
    BY DEF TypeOK, Machines
<1>2. disk'[m.title] = disk[m.title] \/ disk'[m.title] = m.storage
    BY <1>1 DEF PersistSaveData
<1>3. Age(m.storage) <= Age(m.storage)
    BY <1>1, AgeTyped
<1> QED
    BY <1>2, <1>3

\* Guest code only makes a storage newer than its save file.
LEMMA GuestNotOlder ==
    ASSUME TypeOK, DiskGenuine, NEW m \in Machines, Genuine(m.title, m.storage),
           NEW n, NEW ok \in BOOLEAN, GuestRuns(m, n, ok),
           Age(disk[m.title]) <= Age(m.storage)
    PROVE  Age(disk[n.title]) <= Age(n.storage)
<1>1. /\ n.title = m.title
      /\ n.storage # m.storage => Age(n.storage) = written + 1
    BY GuestGenuine
<1>2. Age(disk[m.title]) <= written /\ disk[m.title] \in Storage /\ written \in Nat
    BY AppBackendAssumption DEF DiskGenuine, Genuine, Machines, TypeOK
<1>3. Age(disk[m.title]) \in Nat
    BY <1>2, AgeTyped
<1> QED
    BY <1>1, <1>2, <1>3

LEMMA RollbackStep ==
    TypeOK /\ GenuineInv /\ NoSilentRollback /\ [Next]_vars => NoSilentRollback'
<1> SUFFICES ASSUME TypeOK, GenuineInv, NoSilentRollback, [Next]_vars,
                    Loaded', ~rolled'
             PROVE  Age(disk'[machine'.title]) <= Age(machine'.storage)
    BY DEF NoSilentRollback, Age
<1> USE DEF Loaded, files, counts
<1>t. /\ machine \in Machines \union {NoMachine} /\ machine' \in Machines \union {NoMachine}
      /\ disk' \in [Titles -> Storage]
    BY TypedStep DEF TypeOK
<1>g. DiskGenuine /\ (Loaded => machine \in Machines /\ Genuine(machine.title, machine.storage))
    BY <1>t DEF GenuineInv, MachineGenuine
<1>m. Loaded /\ ~rolled => Age(disk[machine.title]) <= Age(machine.storage)
    BY DEF NoSilentRollback
<1>p. \A ok \in BOOLEAN : Loaded /\ ~rolled /\ PersistSaveData(machine, ok)
        => Age(disk'[machine.title]) <= Age(machine.storage)
    BY <1>g, <1>m, PersistNotNewer
<1>u. ASSUME UNCHANGED <<machine, rolled>>,
             UNCHANGED disk \/ \E ok \in BOOLEAN : PersistSaveData(machine, ok)
      PROVE  Age(disk'[machine'.title]) <= Age(machine'.storage)
    BY <1>u, <1>p, <1>m
<1>1. CASE OpenCannotSave \/ OpenCannotRestore
  <2>1. /\ UNCHANGED <<machine, rolled>>
        /\ UNCHANGED disk \/ \E ok \in BOOLEAN : PersistSaveData(machine, ok)
      BY <1>1 DEF OpenCannotSave, OpenCannotRestore
  <2> QED
      BY <2>1, <1>u
\* What is restored is read after the title in place has been written.
<1>2. ASSUME NEW t \in Titles, Open(t)
      PROVE  Age(disk'[machine'.title]) <= Age(machine'.storage)
  <2>1. machine'.title = t /\ machine'.storage = disk'[t] /\ disk'[t] \in Storage
      BY <1>2, <1>t DEF Open
  <2> QED
      BY <2>1, AgeTyped
<1>3. CASE Close
  <2>1. UNCHANGED <<machine, rolled>> /\ \E ok \in BOOLEAN : PersistSaveData(machine, ok)
      BY <1>3 DEF Close
  <2> QED
      BY <2>1, <1>u
<1>4. CASE Kill
    BY <1>4 DEF Kill
<1>5. CASE Start
  <2>1. Loaded /\ ~rolled /\ UNCHANGED disk
      BY <1>5 DEF Start, Supports
  <2>2. /\ Rebooted(machine) \in Machines
        /\ Rebooted(machine).title = machine.title
        /\ Rebooted(machine).storage = machine.storage
        /\ Faulted(machine).title = machine.title
        /\ Faulted(machine).storage = machine.storage
      BY <1>g, <2>1, ResetTyped DEF Rebooted, Faulted, Machines
  <2>3. ASSUME NEW n \in Machines, NEW ok \in BOOLEAN,
               GuestRuns(IF machine.state = "stopped"
                           THEN Rebooted(machine) ELSE machine, n, ok)
        PROVE  Age(disk[machine'.title]) <= Age(machine'.storage)
    <3>1. CASE machine.state = "stopped"
        BY <2>3, <3>1, <2>1, <2>2, <1>g, <1>m, GuestNotOlder, GuestGenuine
    <3>2. CASE machine.state # "stopped"
        BY <2>3, <3>2, <2>1, <1>g, <1>m, GuestNotOlder, GuestGenuine
    <3> QED
        BY <3>1, <3>2
  <2>4. ASSUME machine' \in {machine, Faulted(machine)}
        PROVE  Age(disk[machine'.title]) <= Age(machine'.storage)
      BY <2>4, <2>1, <2>2, <1>m
  <2> QED
      BY <1>5, <2>1, <2>3, <2>4 DEF Start
<1>6. CASE Stop
  <2>1. Loaded /\ ~rolled
      BY <1>6 DEF Stop, Supports
  <2>2. machine'.title = machine.title /\ machine'.storage = machine.storage
      BY <1>6, <1>g, <2>1 DEF Stop, Machines
  <2> QED
      BY <1>6, <1>p, <1>m, <2>1, <2>2 DEF Stop
<1>7. CASE Reset
  <2>1. Loaded /\ ~rolled
      BY <1>7 DEF Reset, Supports
  <2>2. machine'.title = machine.title /\ machine'.storage = machine.storage
      BY <1>7, <1>g, <2>1 DEF Reset, Rebooted, Faulted, Machines
  <2> QED
      BY <1>7, <1>p, <2>1, <2>2 DEF Reset
<1>8. CASE Frame
  <2>1. Loaded /\ ~rolled /\ UNCHANGED disk
      BY <1>8 DEF Frame, Supports
  <2> QED
      BY <1>8, <2>1, <1>g, <1>m, GuestNotOlder, GuestGenuine DEF Frame
<1>9. CASE RunFrame
  <2>1. Loaded /\ ~rolled
      BY <1>9 DEF RunFrame
  <2>2. PICK n \in Machines, ok \in BOOLEAN, saved \in BOOLEAN :
             /\ GuestRuns(machine, n, ok)
             /\ UNCHANGED disk \/ PersistSaveData(n, saved)
      BY <1>9 DEF RunFrame
  <2>3. machine' = n /\ Age(disk[n.title]) <= Age(n.storage)
      BY <2>1, <2>2, <1>g, <1>m, GuestNotOlder, GuestGenuine
  <2> QED
      BY <2>2, <2>3, PersistNotNewer
<1>10. CASE \/ \E s \in Slots : SaveState(s)
            \/ FlushSaveData \/ ExportSaveData
  <2>1. /\ UNCHANGED <<machine, rolled>>
        /\ UNCHANGED disk \/ \E ok \in BOOLEAN : PersistSaveData(machine, ok)
      BY <1>10 DEF SaveState, FlushSaveData, ExportSaveData
  <2> QED
      BY <2>1, <1>u
<1>11. CASE \/ \E s \in Slots : LoadState(s)
            \/ \E t \in Titles : ImportSaveData(t)
  <2>1. UNCHANGED <<machine, rolled, disk>>
      BY <1>11 DEF LoadState, ImportSaveData
  <2> QED
      BY <2>1, <1>u
<1>12. CASE UNCHANGED <<machine, disk, rolled>>
    BY <1>12, <1>m
<1> QED
  <2>1. CASE \/ OpenRejected \/ PauseResume
             \/ MemorySnapshot \/ MemoryScan \/ MemorySelect \/ MemoryWrite
             \/ \E from, to \in Titles, s \in Slots : UserCopiesSlot(from, to, s)
             \/ UNCHANGED vars
      BY <1>12, <2>1 DEF OpenRejected, PauseResume, MemorySnapshot, MemoryScan,
         MemorySelect, MemoryWrite, UserCopiesSlot, vars
  <2> QED
      BY <1>1, <1>2, <1>3, <1>4, <1>5, <1>6, <1>7, <1>8, <1>9, <1>10, <1>11, <2>1 DEF Next

\* Unless the user loaded an older state or backup, the machine is never older
\* than its save file: no failed save, reopened title or killed process makes
\* writing it back lose progress.
THEOREM ProgressIsNotRolledBack == Spec => []NoSilentRollback
<1>1. Init => NoSilentRollback
    BY DEF Init, NoSilentRollback, Loaded
<1> QED
    BY <1>1, TypedInit, TypedStep, GenuineInit, GenuineStep, RollbackStep, PTL DEF Spec

\* A successful save has the storage of the machine on disk.
LEMMA PersistSaves ==
    ASSUME TypeOK, NEW m \in Machines, m.storage # Empty, PersistSaveData(m, TRUE)
    PROVE  disk'[m.title] = m.storage
<1>1. disk \in [Titles -> Storage] /\ m.title \in Titles
    BY DEF TypeOK, Machines
<1> QED
    BY <1>1 DEF PersistSaveData

\* A machine is only replaced or closed once its storage is on disk.
THEOREM HandOverIsSafe == Spec => HandOver
<1>1. ASSUME TypeOK, [Next]_vars
      PROVE  [/\ Loaded
              /\ machine.storage # Empty
              /\ reply' \in {"open", "close", "closedWithError"}
              => disk'[machine.title] = machine.storage]_vars
  <2> SUFFICES ASSUME Next, Loaded, machine.storage # Empty,
                      reply' \in {"open", "close", "closedWithError"},
                      ~ UNCHANGED vars
               PROVE  disk'[machine.title] = machine.storage
      BY <1>1
  <2>t. machine \in Machines
      BY <1>1 DEF TypeOK, Loaded
  <2>1. ASSUME NEW t \in Titles, Open(t)
        PROVE  disk'[machine.title] = machine.storage
      BY <1>1, <2>1, <2>t, PersistSaves DEF Open
  <2>2. CASE Close
      BY <1>1, <2>2, <2>t, PersistSaves DEF Close, Replies
  <2> QED
      BY <2>1, <2>2
      DEF Next, Replies, OpenRejected, OpenCannotSave, OpenCannotRestore, Kill, Start,
          PauseResume, Stop, Reset, Frame, RunFrame, SaveState, LoadState,
          FlushSaveData, ExportSaveData, ImportSaveData, MemorySnapshot,
          MemoryScan, MemorySelect, MemoryWrite, UserCopiesSlot
<1> QED
    BY <1>1, TypedInit, TypedStep, PTL DEF Spec, HandOver

LEMMA SyncedStep == TypeOK /\ SyncedReplies /\ [Next]_vars => SyncedReplies'
<1> SUFFICES ASSUME TypeOK, SyncedReplies, Next, Loaded', machine'.storage # Empty,
                    \/ reply' \in {"stop", "reset", "saveState", "flush", "export", "import"}
                    \/ reply' = "runFrame" /\ ~CanContinue(machine)'
             PROVE  disk'[machine'.title] = machine'.storage
    BY DEF SyncedReplies, vars, CanContinue, Loaded
<1> USE DEF Loaded, Replies
<1>t. machine \in Machines \union {NoMachine} /\ machine' \in Machines \union {NoMachine}
    BY TypedStep DEF TypeOK
<1>p. ASSUME machine' \in Machines, PersistSaveData(machine', TRUE)
      PROVE  disk'[machine'.title] = machine'.storage
    BY <1>p, PersistSaves
<1>q. ASSUME machine \in Machines, machine'.title = machine.title,
             machine'.storage = machine.storage, PersistSaveData(machine, TRUE)
      PROVE  disk'[machine'.title] = machine'.storage
    BY <1>q, PersistSaves
<1>1. CASE Stop
  <2>1. machine \in Machines /\ PersistSaveData(machine, TRUE)
      BY <1>1, <1>t DEF Stop, Supports
  <2>2. machine'.title = machine.title /\ machine'.storage = machine.storage
      BY <1>1, <2>1 DEF Stop, Machines
  <2> QED
      BY <2>1, <2>2, <1>q
<1>2. CASE Reset
  <2>1. machine \in Machines /\ PersistSaveData(machine, TRUE)
      BY <1>2, <1>t DEF Reset, Supports
  <2>2. machine'.title = machine.title /\ machine'.storage = machine.storage
      BY <1>2, <2>1 DEF Reset, Rebooted, Faulted, Machines
  <2> QED
      BY <2>1, <2>2, <1>q
<1>3. CASE \/ \E s \in Slots : SaveState(s)
           \/ FlushSaveData \/ ExportSaveData
  <2>1. machine \in Machines /\ UNCHANGED machine /\ PersistSaveData(machine, TRUE)
      BY <1>3, <1>t DEF SaveState, FlushSaveData, ExportSaveData, Supports
  <2> QED
      BY <2>1, <1>q
<1>4. ASSUME NEW t \in Titles, ImportSaveData(t)
      PROVE  disk'[machine'.title] = machine'.storage
    BY <1>4, <1>t, <1>p DEF ImportSaveData
<1>5. CASE RunFrame
  <2>1. machine' \in Machines /\ PersistSaveData(machine', TRUE)
      BY <1>5 DEF RunFrame, GuestRuns, CanContinue
  <2> QED
      BY <2>1, <1>p
<1> QED
    BY <1>1, <1>2, <1>3, <1>4, <1>5
    DEF Next, OpenRejected, OpenCannotSave, OpenCannotRestore, Open, Close, Kill, Start,
        PauseResume, Frame, LoadState, MemorySnapshot, MemoryScan, MemorySelect,
        MemoryWrite, UserCopiesSlot

\* A call that reports success after promising to save has saved.
THEOREM SuccessIsSaved == Spec => []SyncedReplies
<1>1. Init => SyncedReplies
    BY DEF Init, SyncedReplies, Loaded
<1> QED
    BY <1>1, TypedInit, TypedStep, SyncedStep, PTL DEF Spec

-----------------------------------------------------------------------------
(* The backend as a host of one title at a time. *)

\* The state function of SaveSession's current session.
Current ==
    IF Loaded THEN [title |-> machine.title, content |-> machine.storage]
              ELSE NoMachine

\* What is on disk once machine m has been saved.
Persisted(m) ==
    IF m.storage = Empty THEN disk ELSE [disk EXCEPT ![m.title] = m.storage]

LEMMA CurrentIsSession ==
    ASSUME TypeOK, Loaded
    PROVE  /\ Current # NoMachine
           /\ Current.title = machine.title /\ Current.content = machine.storage
           /\ Session!Saved(Current) = Persisted(machine)
<1>1. machine.title \in Titles /\ machine.storage \in Storage
    BY DEF TypeOK, Loaded, Machines
<1>2. Current = [title |-> machine.title, content |-> machine.storage]
    BY DEF Current
<1>3. Current \in [title : Titles, content : Storage]
    BY <1>1, <1>2
<1> QED
    BY <1>2, <1>3, AppBackendAssumption DEF Session!Saved, Persisted

\* A successful save installs what the abstract session saves, a failed one
\* nothing.
LEMMA PersistOutcome ==
    ASSUME NEW m, NEW ok \in BOOLEAN, PersistSaveData(m, ok)
    PROVE  /\ disk' \in {disk, Persisted(m)}
           /\ ok => disk' = Persisted(m)
BY DEF PersistSaveData, Persisted

\* The title goes on, and may be saved as it is then.
LEMMA PlaysSession ==
    ASSUME TypeOK, Loaded, machine' \in Machines, machine'.title = machine.title,
           disk' \in {disk, Persisted(machine')}
    PROVE  Session!Play
<1>1. Loaded'
    BY AppBackendAssumption DEF Loaded
<1>2. /\ Current' = [title |-> machine'.title, content |-> machine'.storage]
      /\ machine'.storage \in Storage
    BY <1>1 DEF Current, Machines
<1>3. Session!Saved(Current') = Persisted(machine')
    BY <1>2 DEF Session!Saved, Persisted
<1>4. Current' \in [title : {Current.title}, content : Storage]
    BY <1>2, CurrentIsSession
<1> QED
    BY <1>3, <1>4, CurrentIsSession DEF Session!Play, Current

\* Saving is a matter of title and storage: a machine that only changes its
\* state may be saved before or after.
LEMMA SavesSession ==
    ASSUME TypeOK, Loaded, machine' \in Machines, machine'.title = machine.title,
           machine'.storage = machine.storage,
           NEW ok \in BOOLEAN, PersistSaveData(machine, ok)
    PROVE  Session!Play
<1>1. disk' \in {disk, Persisted(machine)}
    BY PersistOutcome
<1>2. Persisted(machine') = Persisted(machine)
    BY DEF Persisted
<1> QED
    BY <1>1, <1>2, PlaysSession

\* An open saves the session it replaces, and starts from what is then stored.
LEMMA OpenSwitches ==
    ASSUME TypeOK, TypeOK', NEW t \in Titles, Open(t)
    PROVE  Session!Switch(t)
<1>1. disk' = IF Current = NoMachine THEN disk ELSE Session!Saved(Current)
  <2>1. CASE Loaded
    BY <2>1, CurrentIsSession, PersistOutcome DEF Open
  <2>2. CASE ~Loaded
    BY <2>2 DEF Open, Current
  <2> QED
    BY <2>1, <2>2
<1>2. disk'[t] \in Storage
    BY DEF TypeOK
<1>3. machine' = [title |-> t, state |-> "ready", storage |-> disk'[t]]
    BY DEF Open
<1>4. machine' \in Machines
    BY <1>2, <1>3 DEF Machines, States
<1>5. Current' = [title |-> t, content |-> disk'[t]]
    BY <1>3, <1>4, AppBackendAssumption DEF Current, Loaded
<1> QED
    BY <1>1, <1>2, <1>5, AppBackendAssumption DEF Session!Switch, Current

LEMMA StartKeepsTitle ==
    ASSUME TypeOK, machine \in Machines, Start
    PROVE  machine' \in Machines /\ machine'.title = machine.title
<1> DEFINE m == IF machine.state = "stopped" THEN Rebooted(machine) ELSE machine
<1>1. m \in Machines /\ m.title = machine.title
    BY DEF Rebooted, Machines, States
<1>2. CASE machine' \in {machine, Faulted(machine)}
    BY <1>2 DEF Faulted, Machines, States
<1>3. CASE \E n \in Machines, ok \in BOOLEAN : GuestRuns(m, n, ok)
    BY <1>1, <1>3, GuestTyped
<1> QED
    BY <1>2, <1>3 DEF Start

LEMMA StepsOfSession ==
    ASSUME TypeOK, TypeOK', [Next]_vars
    PROVE  [Session!Next]_Session!vars
<1> DEFINE Goal == Session!Next \/ UNCHANGED <<Current, disk>>
<1> SUFFICES Goal
    BY DEF Session!vars, Current
<1>still. ASSUME UNCHANGED <<machine, disk>> PROVE Goal
    BY <1>still DEF Current, Loaded
<1>play. ASSUME Loaded, machine' \in Machines, machine'.title = machine.title,
                disk' \in {disk, Persisted(machine')}
         PROVE  Goal
    BY <1>play, PlaysSession DEF Session!Next
<1>save. ASSUME Loaded, machine' \in Machines, machine'.title = machine.title,
                machine'.storage = machine.storage,
                NEW ok \in BOOLEAN, PersistSaveData(machine, ok)
         PROVE  Goal
    BY <1>save, SavesSession DEF Session!Next
<1>drop. ASSUME machine' = NoMachine, disk' = disk PROVE Goal
    BY <1>drop DEF Session!Next, Session!Abandon, Current, Loaded
<1> HIDE DEF Goal
<1>t. /\ Loaded => machine \in Machines
      /\ Loaded /\ UNCHANGED machine => machine' \in Machines /\ machine' = machine
    BY DEF TypeOK, Loaded
<1>1. CASE OpenCannotSave
    BY <1>1, <1>t, <1>save DEF OpenCannotSave
<1>2. CASE OpenCannotRestore
    BY <1>2, <1>t, <1>save, <1>still DEF OpenCannotRestore
<1>3. ASSUME NEW t \in Titles, Open(t) PROVE Goal
    BY <1>3, OpenSwitches DEF Goal, Session!Next
<1>4. CASE Close
  <2>1. CASE machine' # NoMachine
    BY <1>4, <2>1, <1>t, <1>save DEF Close
  <2>2. CASE machine' = NoMachine /\ ~Loaded
    BY <1>4, <2>2, <1>drop, AppBackendAssumption DEF Close
  <2>3. CASE machine' = NoMachine /\ Loaded
    <3>1. PersistSaveData(machine, TRUE)
      BY <1>4, <2>3 DEF Close, Loaded
    <3>2. disk' = Session!Saved(Current) /\ Current # NoMachine /\ Current' = NoMachine
      BY <2>3, <3>1, PersistOutcome, CurrentIsSession DEF Current, Loaded
    <3> QED
      BY <3>2 DEF Goal, Session!Next, Session!Close, Current
  <2> QED
    BY <2>1, <2>2, <2>3
<1>5. CASE Kill
    BY <1>5, <1>drop DEF Kill, files
<1>6. CASE Start
  <2>1. Loaded /\ UNCHANGED disk /\ machine \in Machines
    BY <1>6, <1>t DEF Start, Supports, files
  <2>2. machine' \in Machines /\ machine'.title = machine.title
    BY <1>6, <2>1, StartKeepsTitle
  <2> QED
    BY <2>1, <2>2, <1>play
<1>7. CASE Stop
  <2>1. Loaded /\ machine \in Machines
    BY <1>7, <1>t DEF Stop, Supports
  <2>2. CASE UNCHANGED <<machine, disk>>
    BY <2>2, <1>still
  <2>3. CASE /\ machine' = [machine EXCEPT !.state = "stopped"]
             /\ \E saved \in BOOLEAN : PersistSaveData(machine, saved)
    <3>1. /\ machine' \in Machines /\ machine'.title = machine.title
          /\ machine'.storage = machine.storage
      BY <2>1, <2>3 DEF Machines, States
    <3> QED
      BY <2>1, <2>3, <3>1, <1>save
  <2> QED
    BY <1>7, <2>2, <2>3 DEF Stop
<1>8. CASE Reset
  <2>1. Loaded /\ machine \in Machines
    BY <1>8, <1>t DEF Reset, Supports
  <2>2. /\ machine' \in Machines /\ machine'.title = machine.title
        /\ machine'.storage = machine.storage
    BY <1>8, <2>1 DEF Reset, Rebooted, Faulted, Machines, States
  <2> QED
    BY <1>8, <2>1, <2>2, <1>save DEF Reset
<1>9. CASE Frame
  <2>1. Loaded /\ machine \in Machines /\ UNCHANGED disk
    BY <1>9, <1>t DEF Frame, Supports, files
  <2>2. machine' \in Machines /\ machine'.title = machine.title
    BY <1>9, <2>1, GuestTyped DEF Frame
  <2> QED
    BY <2>1, <2>2, <1>play
<1>10. CASE RunFrame
  <2>1. Loaded /\ machine \in Machines
    BY <1>10, <1>t DEF RunFrame
  <2>2. PICK n \in Machines, ok \in BOOLEAN :
           /\ GuestRuns(machine, n, ok)
           /\ UNCHANGED disk \/ \E saved \in BOOLEAN : PersistSaveData(n, saved)
    BY <1>10 DEF RunFrame
  <2>3. machine' = n /\ n.title = machine.title
    BY <2>1, <2>2, GuestTyped
  <2>4. disk' \in {disk, Persisted(machine')}
    BY <2>2, <2>3, PersistOutcome
  <2> QED
    BY <2>1, <2>3, <2>4, <1>play
<1>11. ASSUME NEW s \in Slots, SaveState(s) PROVE Goal
    BY <1>11, <1>t, <1>save, <1>still DEF SaveState, Supports
<1>12. ASSUME NEW s \in Slots, LoadState(s) PROVE Goal
  <2>1. Loaded /\ machine \in Machines /\ UNCHANGED disk
    BY <1>12, <1>t DEF LoadState, Supports, files
  <2>2. machine' \in Machines
    BY <1>12, LoadTyped
  <2>3. machine'.title = machine.title
    BY <1>12, <2>1 DEF LoadState, Machines
  <2> QED
    BY <2>1, <2>2, <2>3, <1>play
<1>13. CASE FlushSaveData
    BY <1>13, <1>t, <1>save DEF FlushSaveData
<1>14. CASE ExportSaveData
    BY <1>14, <1>t, <1>save, <1>still DEF ExportSaveData
<1>15. ASSUME NEW t \in Titles, ImportSaveData(t) PROVE Goal
  <2>1. Loaded /\ machine \in Machines
    BY <1>15, <1>t DEF ImportSaveData
  <2>2. CASE UNCHANGED <<machine, disk>>
    BY <2>2, <1>still
  <2>3. CASE \E file \in backup[t], saved \in BOOLEAN :
               /\ machine' = [machine EXCEPT !.storage = file.storage]
               /\ PersistSaveData(machine', saved)
    <3>1. machine' \in Machines /\ machine'.title = machine.title
      <4>1. machine' \in Machines
        BY <1>15, ImportTyped
      <4> QED
        BY <2>1, <2>3, <4>1 DEF Machines
    <3>2. disk' \in {disk, Persisted(machine')}
      BY <2>3, PersistOutcome
    <3> QED
      BY <2>1, <3>1, <3>2, <1>play
  <2> QED
    BY <1>15, <2>2, <2>3 DEF ImportSaveData
<1> QED
  <2>1. CASE \/ OpenRejected \/ PauseResume
             \/ MemorySnapshot \/ MemoryScan \/ MemorySelect \/ MemoryWrite
             \/ (\E from, to \in Titles, s \in Slots : UserCopiesSlot(from, to, s))
             \/ UNCHANGED vars
    BY <2>1, <1>still DEF OpenRejected, PauseResume, MemorySnapshot, MemoryScan,
       MemorySelect, MemoryWrite, UserCopiesSlot, vars, files
  <2> QED
    BY <1>1, <1>2, <1>3, <1>4, <1>5, <1>6, <1>7, <1>8, <1>9, <1>10, <1>11,
       <1>12, <1>13, <1>14, <1>15, <2>1 DEF Next

\* The backend keeps the promises of SaveSession: a title starts from what is
\* stored for it, only it stores for that title, and it is stored before
\* another takes its place.
THEOREM ImplementsSession == Spec => SessionSpec
<1>1. Init => Session!Init
    BY DEF Init, Session!Init, Loaded, Storage
<1>2. TypeOK /\ TypeOK' /\ [Next]_vars => [Session!Next]_Session!vars
    BY StepsOfSession
<1> QED
    BY <1>1, <1>2, TypedInit, TypedStep, PTL DEF Spec, SessionSpec, Session!Spec
=============================================================================
