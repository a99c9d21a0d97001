------------------------- MODULE SystemMediaProofs -------------------------
(***************************************************************************)
(* Proofs about SystemMedia, for any set of firmware sets and any bound on *)
(* the guests' writes.  Everything follows from one inductive invariant:   *)
(* a session that is neither guarded nor pending owns its media file, and  *)
(* media contents only grow.                                               *)
(***************************************************************************)
EXTENDS SystemMedia, TLAPS

\* What a session without a warning started from, it is not older than.
Aged ==
    /\ \A c \in Firmwares : disk[c] \in Media => disk[c] <= written
    /\ Loaded => machine.media <= written
    /\ Loaded /\ ~warning => \/ based = Absent
                             \/ based \in Media /\ based <= machine.media

\* The file of a session that may write it is the one the session descends from.
FileIsBased ==
    Loaded /\ ~restoreFailed /\ ~restorePending => disk[machine.content] = based

IInv == TypeOK /\ UnsavedIsWarned /\ FileIsBased /\ Aged

-----------------------------------------------------------------------------

LEMMA Tokens ==
    /\ 0 \in Media
    /\ Absent \notin Media /\ Unreadable \notin Media
    /\ Irregular \notin Media /\ Unknown \notin Media
    /\ Absent # Unreadable /\ Absent # Irregular /\ Absent # Unknown
    /\ Unreadable # Irregular /\ Unreadable # Unknown /\ Irregular # Unknown
BY SystemMediaAssumption DEF Media

LEMMA IInvInit == Init => IInv
<1> SUFFICES ASSUME Init PROVE IInv
    OBVIOUS
<1>1. ~Loaded
    BY DEF Init, Loaded
<1>2. \A c \in Firmwares : disk[c] \in {0, Absent, Unreadable, Irregular}
    BY DEF Init
<1>3. disk \in [Firmwares -> Files]
    BY Tokens DEF Init, Files
<1>4. TypeOK
    <2>1. written \in 0 .. MaxWrites
        BY SystemMediaAssumption DEF Init
    <2> QED
        BY <1>1, <1>3, <2>1 DEF Init, TypeOK
<1>5. \A c \in Firmwares : disk[c] \in Media => disk[c] <= written
    BY <1>2, Tokens DEF Init
<1> QED
    BY <1>1, <1>4, <1>5 DEF Init, IInv, UnsavedIsWarned, FileIsBased, Aged

\* A persist without an error: the file either stays, because the session does
\* not own it, or becomes the machine's media.
LEMMA PersistEffect ==
    ASSUME IInv, Loaded, CanPersist, disk' = Persisted, machine \in Machines
    PROVE  /\ disk' \in [Firmwares -> Files]
           /\ \A c \in Firmwares : c # machine.content => disk'[c] = disk[c]
           /\ Guarded => disk' = disk /\ warning
           /\ ~Guarded => /\ disk'[machine.content] = machine.media
                          /\ File \in Regular => based = File
           /\ \A c \in Firmwares : disk'[c] \in Media => disk'[c] <= written
<1>1. machine.content \in Firmwares /\ machine.media \in Media
    BY DEF Machines
<1>2. disk \in [Firmwares -> Files] /\ machine.media \in Files
    BY <1>1 DEF IInv, TypeOK, Files
<1>3. CASE Guarded
    BY <1>2, <1>3 DEF Persisted, Guarded, IInv, UnsavedIsWarned, Aged
<1>4. CASE ~Guarded
    <2>1. disk' = [disk EXCEPT ![machine.content] = machine.media]
        BY <1>4 DEF Persisted
    <2>2. File \in Regular => based = File
        BY <1>4 DEF Guarded, File, IInv, FileIsBased
    <2>3. \A c \in Firmwares : disk'[c] \in Media => disk'[c] <= written
        BY <1>1, <1>2, <2>1 DEF IInv, Aged
    <2> QED
        BY <1>1, <1>2, <1>4, <2>1, <2>2, <2>3
<1> QED
    BY <1>3, <1>4

\* The candidate that an Open publishes satisfies the invariant, whatever was
\* saved before.
LEMMA RestoreInv ==
    ASSUME IInv, NEW c \in Firmwares, RestoreMedia(c),
           disk' \in [Firmwares -> Files],
           \A d \in Firmwares : disk'[d] \in Media => disk'[d] <= written,
           state' = "ready", reply' = "open", written' = written
    PROVE  IInv'
<1>1. /\ written \in 0 .. MaxWrites
      /\ 0 \in Media
      /\ machine' \in Machines
      /\ machine'.content = c
    BY Tokens DEF RestoreMedia, Machines, IInv, TypeOK
<1>2. Loaded'
    BY <1>1, SystemMediaAssumption DEF Loaded
<1>3. TypeOK'
    BY <1>1, <1>2 DEF TypeOK, RestoreMedia, Files
<1>4. UnsavedIsWarned' /\ FileIsBased'
    BY <1>1 DEF UnsavedIsWarned, FileIsBased, RestoreMedia
<1>5. machine'.media <= written'
      /\ (~warning' => \/ based' = Absent
                       \/ based' \in Media /\ based' <= machine'.media)
    <2>1. CASE machine' = [content |-> c, media |-> disk'[c]] /\ based' = disk'[c]
               /\ disk'[c] \in Media
        <3>1. disk'[c] <= disk'[c]
            BY <2>1 DEF Media
        <3> QED
            BY <2>1, <3>1
    <2>2. CASE machine' = [content |-> c, media |-> 0]
               /\ (based' = Absent \/ warning')
        BY <1>1, <2>2
    <2> QED
        BY <2>1, <2>2 DEF RestoreMedia
<1> QED
    BY <1>3, <1>4, <1>5 DEF IInv, Aged

\* A machine whose guest runs keeps its file and grows.
LEMMA GuestInv ==
    ASSUME IInv, Loaded, NEW ends, ends \subseteq {"ready", "running", "paused", "stopped"},
           GuestRuns(ends), UNCHANGED <<flags, disk, based>>
    PROVE  IInv'
<1>1. machine \in Machines
    BY DEF IInv, TypeOK, Loaded
<1>2. /\ machine' \in Machines
      /\ machine'.content = machine.content
      /\ written' \in 0 .. MaxWrites
      /\ written <= written'
      /\ machine'.media <= written'
      /\ machine.media <= machine'.media
    <2>1. CASE UNCHANGED <<machine, written>>
        BY <1>1, <2>1, SystemMediaAssumption DEF IInv, TypeOK, Aged, Machines, Media
    <2>2. CASE /\ written < MaxWrites
               /\ written' = written + 1
               /\ machine' = [machine EXCEPT !.media = written + 1]
        <3>1. written + 1 \in Media /\ machine.media <= written + 1
            BY <1>1, <2>2, SystemMediaAssumption DEF IInv, TypeOK, Aged, Machines, Media
        <3> QED
            BY <1>1, <2>2, <3>1, SystemMediaAssumption
            DEF IInv, TypeOK, Aged, Machines, Media
    <2> QED
        BY <2>1, <2>2 DEF GuestRuns
<1>3. Loaded'
    BY <1>2, SystemMediaAssumption DEF Loaded
<1>4. state' \in {"ready", "running", "paused", "stopped", "faulted"}
      /\ reply' \in {"failed", "frame"}
    BY DEF GuestRuns, Replies
<1>5. TypeOK'
    BY <1>2, <1>3, <1>4 DEF IInv, TypeOK, flags
<1>6. UnsavedIsWarned' /\ FileIsBased'
    BY <1>2 DEF IInv, UnsavedIsWarned, FileIsBased, flags
<1>7. \A c \in Firmwares : disk'[c] \in Media => disk'[c] <= written'
    BY <1>2, SystemMediaAssumption DEF IInv, TypeOK, Aged, Media
<1>8. ~warning' => \/ based' = Absent
                   \/ based' \in Media /\ based' <= machine'.media
    BY <1>1, <1>2 DEF IInv, Aged, flags, Media, Machines
<1> QED
    BY <1>2, <1>5, <1>6, <1>7, <1>8 DEF IInv, Aged

\* A step that touches neither the machine nor its files.
LEMMA QuietInv ==
    ASSUME IInv, UNCHANGED <<machine, flags, disk, based, written>>,
           Loaded <=> state' # "empty",
           state' \in {"empty", "ready", "running", "paused", "stopped", "faulted"},
           reply' \in {"none", "failed", "open", "close", "closedWithError", "start",
                       "pauseResume", "stop", "reset", "frame"}
    PROVE  IInv'
BY DEF IInv, TypeOK, UnsavedIsWarned, FileIsBased, Aged, Loaded, flags

LEMMA IInvStep == IInv /\ [Next]_vars => IInv'
<1> SUFFICES ASSUME IInv, [Next]_vars PROVE IInv'
    OBVIOUS
<1>t. TypeOK
    BY DEF IInv
<1>1. CASE OpenRejected
    BY <1>1, <1>t, QuietInv DEF OpenRejected, Replies, TypeOK
<1>2. CASE OpenCannotSave
    BY <1>2, <1>t, QuietInv DEF OpenCannotSave, PersistFails, Replies, TypeOK
<1>3. ASSUME NEW c \in Firmwares, Open(c) PROVE IInv'
    <2>1. /\ disk' \in [Firmwares -> Files]
          /\ \A d \in Firmwares : disk'[d] \in Media => disk'[d] <= written
        <3>1. CASE ~Loaded
            BY <1>3, <3>1 DEF Open, IInv, TypeOK, Aged
        <3>2. CASE Loaded
            BY <1>3, <3>2, PersistEffect DEF Open, IInv, TypeOK, Loaded
        <3> QED
            BY <3>1, <3>2
    <2> QED
        BY <1>3, <2>1, RestoreInv DEF Open, Replies
<1>4. CASE Close
    <2>1. CASE /\ PersistFails
               /\ reply' = "failed"
               /\ UNCHANGED <<machine, state, written>>
        BY <2>1, <1>t, QuietInv DEF PersistFails, TypeOK
    <2>2. CASE /\ IF Loaded THEN CanPersist /\ disk' = Persisted ELSE UNCHANGED disk
               /\ machine' = NoMachine
               /\ state' = "empty"
               /\ restoreFailed' = FALSE
               /\ restorePending' = FALSE
               /\ warning' = FALSE
               /\ based' = Unknown
               /\ reply' \in {"close", "closedWithError"}
               /\ UNCHANGED written
        <3>1. /\ disk' \in [Firmwares -> Files]
              /\ \A d \in Firmwares : disk'[d] \in Media => disk'[d] <= written
            <4>1. CASE ~Loaded
                BY <2>2, <4>1 DEF IInv, TypeOK, Aged
            <4>2. CASE Loaded
                BY <2>2, <4>2, PersistEffect DEF IInv, TypeOK, Loaded
            <4> QED
                BY <4>1, <4>2
        <3> QED
            BY <1>t, <2>2, <3>1
            DEF IInv, TypeOK, UnsavedIsWarned, FileIsBased, Aged, Loaded
    <2> QED
        BY <1>4, <2>1, <2>2 DEF Close, Replies
<1>5. CASE Kill
    BY <1>5 DEF Kill, Replies, IInv, TypeOK, UnsavedIsWarned, FileIsBased, Aged, Loaded
<1>6. CASE Start
    BY <1>6, <1>t, QuietInv DEF Start, Supports, OfferedIn, Replies, TypeOK
<1>7. CASE PauseResume
    BY <1>7, <1>t, QuietInv DEF PauseResume, Supports, OfferedIn, Replies, TypeOK
<1>8. CASE Stop
    <2>1. Loaded /\ machine \in Machines
        BY <1>8, <1>t DEF Stop, Supports, OfferedIn, TypeOK, Loaded
    <2>2. CASE state' = "faulted" /\ reply' = "failed" /\ UNCHANGED <<disk, based, flags>>
        BY <1>8, <1>t, <2>1, <2>2, QuietInv DEF Stop
    <2>3. CASE state' = "stopped" /\ PersistMedia /\ reply' = "stop"
        <3>1. machine' = machine /\ written' = written
            BY <1>8 DEF Stop
        <3>2. /\ disk' \in [Firmwares -> Files]
              /\ Guarded => disk' = disk /\ warning
              /\ ~Guarded => disk'[machine.content] = machine.media
              /\ \A c \in Firmwares : disk'[c] \in Media => disk'[c] <= written
            BY <2>1, <2>3, PersistEffect DEF PersistMedia
        <3>3. machine.media \in Media /\ machine.media \in Files
              /\ machine.media <= machine.media
            BY <2>1 DEF Machines, Media, Files
        <3>4. TypeOK'
            BY <1>t, <2>1, <2>3, <3>1, <3>2, <3>3
            DEF TypeOK, PersistMedia, Guarded, Loaded
        <3>5. UnsavedIsWarned'
            BY <1>t, <2>3, <3>2 DEF UnsavedIsWarned, PersistMedia, Guarded, IInv, TypeOK
        <3>6. FileIsBased'
            BY <2>3, <3>1, <3>2 DEF FileIsBased, PersistMedia
        <3>7. Aged'
            BY <1>t, <2>1, <2>3, <3>1, <3>2, <3>3
            DEF Aged, PersistMedia, Guarded, IInv, UnsavedIsWarned, TypeOK, Loaded
        <3> QED
            BY <3>4, <3>5, <3>6, <3>7 DEF IInv
    <2> QED
        BY <1>8, <2>2, <2>3 DEF Stop, Replies
<1>9. CASE Reset
    BY <1>9, <1>t, QuietInv DEF Reset, Supports, OfferedIn, Replies, TypeOK
<1>10. CASE Frame
    BY <1>10, <1>t, GuestInv DEF Frame, Supports, OfferedIn, TypeOK
<1>11. CASE RunFrame
    BY <1>11, <1>t, GuestInv DEF RunFrame, TypeOK
<1>12. CASE UNCHANGED vars
    BY <1>12, <1>t, QuietInv DEF vars, TypeOK
<1> QED
    BY <1>1, <1>2, <1>3, <1>4, <1>5, <1>6, <1>7, <1>8, <1>9, <1>10, <1>11, <1>12
    DEF Next

LEMMA Invariant == Spec => []IInv
    BY IInvInit, IInvStep, PTL DEF Spec

-----------------------------------------------------------------------------

\* Type correctness of systemintegration.Backend's fields and of its files.
THEOREM TypeCorrect == Spec => []TypeOK
<1>1. IInv => TypeOK
    BY DEF IInv
<1> QED
    BY <1>1, Invariant, PTL

\* persistCurrentMedia and restoreMedia never leave a session that may end
\* unsaved without a warning.
THEOREM UnsavedSessionsAreWarned == Spec => []UnsavedIsWarned
<1>1. IInv => UnsavedIsWarned
    BY DEF IInv
<1> QED
    BY <1>1, Invariant, PTL

\* Without a warning the session is never older than its media file.
THEOREM MediaAreNotRolledBack == Spec => []NoSilentRollback
<1>1. IInv => NoSilentRollback
    <2> SUFFICES ASSUME IInv, Loaded, ~warning
                 PROVE  \/ disk[machine.content] = Absent
                        \/ /\ disk[machine.content] \in Media
                           /\ disk[machine.content] <= machine.media
        BY DEF NoSilentRollback
    <2>1. disk[machine.content] = based
        BY DEF IInv, UnsavedIsWarned, FileIsBased
    <2> QED
        BY <2>1 DEF IInv, Aged
<1> QED
    BY <1>1, Invariant, PTL

\* A media file is only overwritten by a session that descends from it.
THEOREM MediaArePreserved == Spec => MediaPreserved
<1> DEFINE Kept == \A c \in Firmwares :
                     disk[c] \in Regular /\ disk'[c] # disk[c]
                     => Loaded /\ machine.content = c /\ based = disk[c]
<1>1. IInv /\ [Next]_vars => [Kept]_vars
    <2> SUFFICES ASSUME IInv, Next, NEW c \in Firmwares,
                        disk[c] \in Regular, disk'[c] # disk[c]
                 PROVE  Loaded /\ machine.content = c /\ based = disk[c]
        BY DEF vars
    <2>1. Loaded /\ CanPersist /\ disk' = Persisted
        BY DEF Next, OpenRejected, OpenCannotSave, Open, Close, Kill, Start,
               PauseResume, Stop, Reset, Frame, RunFrame, PersistFails, PersistMedia,
               Supports, OfferedIn, IInv, TypeOK, Loaded
    <2>2. machine \in Machines
        BY <2>1 DEF IInv, TypeOK, Loaded
    <2> QED
        BY <2>1, <2>2, PersistEffect DEF File
<1> QED
    BY <1>1, Invariant, PTL DEF Spec, MediaPreserved

\* A session is handed over with its media on disk or under a warning.
THEOREM HandOverIsSafe == Spec => HandOver
<1> DEFINE Safe == /\ Loaded
                   /\ reply' \in {"open", "close", "closedWithError", "stop"}
                   => disk'[machine.content] = machine.media \/ warning
<1>1. IInv /\ [Next]_vars => [Safe]_vars
    <2> SUFFICES ASSUME IInv, Next, Loaded,
                        reply' \in {"open", "close", "closedWithError", "stop"}
                 PROVE  disk'[machine.content] = machine.media \/ warning
        BY DEF vars
    <2>1. CanPersist /\ disk' = Persisted
        BY DEF Next, OpenRejected, OpenCannotSave, Open, Close, Kill, Start,
               PauseResume, Stop, Reset, Frame, RunFrame, GuestRuns, PersistMedia,
               Replies
    <2>2. machine \in Machines
        BY DEF IInv, TypeOK, Loaded
    <2> QED
        BY <2>1, <2>2, PersistEffect
<1> QED
    BY <1>1, Invariant, PTL DEF Spec, HandOver
=============================================================================
