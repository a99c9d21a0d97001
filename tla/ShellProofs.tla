---------------------------- MODULE ShellProofs ----------------------------
(***************************************************************************)
(* Proofs about the three components the shell drives without a title in   *)
(* between: the downloads of RemoteInput, the router of HostBackend and    *)
(* the pictures of FramePublish.  None of them reads another's state.      *)
(*                                                                         *)
(* RemoteInput, for any links, contents, callers and number of deaths and  *)
(* damaged files.  That returned packages persist needs callers of one     *)
(* process, and files that can be read.  The invariant is then the mutual  *)
(* exclusion of the digest lock, and that a call which found no good       *)
(* package works on one that was not returned to anybody.                  *)
(*                                                                         *)
(* HostBackend, for any inputs, settings and refusals: where inputs are    *)
(* held and which settings are in force is inductive with the types.       *)
(*                                                                         *)
(* FramePublish, for any pictures, titles and presentations: the numbers   *)
(* published so far, and those that polls can still publish before the     *)
(* guest draws again, are together no more than it has drawn.              *)
(***************************************************************************)
EXTENDS RemoteInput, HostBackend, FramePublish, TLAPS

-----------------------------------------------------------------------------
(* Downloads. *)

\* The goroutines of one process.
OneProcess == \A c, d \in Callers : ProcessOf[c] = ProcessOf[d]

Replacing == {"remove", "stage", "fetch", "activate", "discard"}

Exclusive ==
    \A c, d \in Callers :
        at[c] \in Locked /\ at[d] \in Locked /\ Digest[wants[c]] = Digest[wants[d]]
            => c = d

NotGiven == \A c \in Callers : at[c] \in Replacing => wants[c] \notin given

PackagesInv == TypeOK /\ Exclusive /\ NotGiven /\ PackagesPersist

-----------------------------------------------------------------------------
(* Types of a download, and who owns a staging file. *)

InputTyped == TypeOK /\ StagingIsOwned

LEMMA InputTypedInit == Init => InputTyped
BY RemoteInputAssumption DEF Init, InputTyped, TypeOK, StagingIsOwned, Steps

LEMMA InputTypedStep == InputTyped /\ [Next]_vars => InputTyped'
<1> SUFFICES ASSUME InputTyped, [Next]_vars PROVE InputTyped'
    OBVIOUS
<1> USE RemoteInputAssumption
    DEF InputTyped, TypeOK, StagingIsOwned, Steps, Goto, Return, Fail, counts
<1>1. ASSUME NEW c \in Callers, NEW p \in Packages, Resolve(c, p) PROVE InputTyped'
    BY <1>1 DEF Resolve
<1>2. ASSUME NEW c \in Callers, Lock(c) PROVE InputTyped'
    BY <1>2 DEF Lock
<1>3. ASSUME NEW c \in Callers, Match(c) PROVE InputTyped'
    BY <1>3 DEF Match
<1>4. ASSUME NEW c \in Callers, Remove(c) PROVE InputTyped'
    BY <1>4 DEF Remove
<1>5. ASSUME NEW c \in Callers, Stage(c) PROVE InputTyped'
    BY <1>5 DEF Stage
<1>6. ASSUME NEW c \in Callers, Fetch(c) PROVE InputTyped'
    BY <1>6 DEF Fetch
<1>7. ASSUME NEW c \in Callers, Activate(c) PROVE InputTyped'
    BY <1>7 DEF Activate
<1>8. ASSUME NEW c \in Callers, Discard(c) PROVE InputTyped'
    BY <1>8 DEF Discard
<1>9. ASSUME NEW c \in Callers, Crash(ProcessOf[c]) PROVE InputTyped'
    BY <1>9 DEF Crash
<1>10. ASSUME NEW p \in Packages, Damage(p) PROVE InputTyped'
    BY <1>10 DEF Damage
<1>11. CASE UNCHANGED vars
    BY <1>11 DEF vars
<1> QED
    BY <1>1, <1>2, <1>3, <1>4, <1>5, <1>6, <1>7, <1>8, <1>9, <1>10, <1>11
    DEF Next, Download

LEMMA InputTypedHolds == Spec => []InputTyped
BY InputTypedInit, InputTypedStep, PTL DEF Spec

\* Types; a call wants a package exactly as long as it is under way.
THEOREM InputTypeCorrect == Spec => []TypeOK
BY InputTypedHolds, PTL DEF InputTyped

\* No call that has ended owns a staging file, whichever step failed.
THEOREM StagingStaysOwned == Spec => []StagingIsOwned
BY InputTypedHolds, PTL DEF InputTyped

-----------------------------------------------------------------------------
(* The lock of a digest. *)

\* A call that does not hold the lock yet, or holds it already, cannot come to
\* share it: only Lock enters Locked, and wishes only change outside.
LEMMA ExclusiveStep ==
    ASSUME OneProcess, TypeOK, Exclusive, [Next]_vars
    PROVE  Exclusive'
<1> USE DEF TypeOK, Exclusive, Locked, Steps, Goto, Return, Fail, counts
<1>1. ASSUME NEW c \in Callers, NEW p \in Packages, Resolve(c, p) PROVE Exclusive'
    BY <1>1 DEF Resolve
<1>2. ASSUME NEW c \in Callers, Lock(c) PROVE Exclusive'
  <2>1. \A d \in Callers : ~(at[d] \in Locked /\ Digest[wants[d]] = Digest[wants[c]])
    BY <1>2 DEF Lock, LockFree, Holds, OneProcess
  <2> QED
    BY <1>2, <2>1 DEF Lock
<1>3. ASSUME NEW c \in Callers, Match(c) PROVE Exclusive'
    BY <1>3 DEF Match
<1>4. ASSUME NEW c \in Callers, Remove(c) PROVE Exclusive'
    BY <1>4 DEF Remove
<1>5. ASSUME NEW c \in Callers, Stage(c) PROVE Exclusive'
    BY <1>5 DEF Stage
<1>6. ASSUME NEW c \in Callers, Fetch(c) PROVE Exclusive'
    BY <1>6 DEF Fetch
<1>7. ASSUME NEW c \in Callers, Activate(c) PROVE Exclusive'
    BY <1>7 DEF Activate
<1>8. ASSUME NEW c \in Callers, Discard(c) PROVE Exclusive'
    BY <1>8 DEF Discard
<1>9. ASSUME NEW c \in Callers, Crash(ProcessOf[c]) PROVE Exclusive'
    BY <1>9 DEF Crash
<1>10. ASSUME NEW p \in Packages, Damage(p) PROVE Exclusive'
    BY <1>10 DEF Damage
<1>11. CASE UNCHANGED vars
    BY <1>11 DEF vars
<1> QED
    BY <1>1, <1>2, <1>3, <1>4, <1>5, <1>6, <1>7, <1>8, <1>9, <1>10, <1>11
    DEF Next, Download

\* A call that returns takes its package from nobody who is replacing it.
LEMMA ReturnsItsOwn ==
    ASSUME TypeOK, Exclusive, NEW c \in Callers, at[c] \in Locked,
           NEW d \in Callers, at[d] \in Replacing, d # c
    PROVE  wants[d] # wants[c]
BY DEF TypeOK, Exclusive, Locked, Replacing, Steps

LEMMA PersistStep ==
    ASSUME ~ReadsFail, PackagesInv, [Next]_vars
    PROVE  NotGiven' /\ PackagesPersist'
<1> USE DEF PackagesInv, TypeOK, NotGiven, PackagesPersist, Replacing, Steps, Goto,
            Fail, counts
<1> DEFINE Goal == NotGiven' /\ PackagesPersist'
<1>1. ASSUME NEW c \in Callers, NEW p \in Packages, Resolve(c, p) PROVE Goal
    BY <1>1 DEF Resolve
<1>2. ASSUME NEW c \in Callers, Lock(c) PROVE Goal
    BY <1>2 DEF Lock
<1>3. ASSUME NEW c \in Callers, Match(c) PROVE Goal
  <2>1. CASE library[wants[c]] = "good" /\ Return(c)
    <3>1. \A d \in Callers : d # c /\ at[d] \in Replacing => wants[d] # wants[c]
      BY <1>3, ReturnsItsOwn DEF Match, Locked
    <3>2. library' = library
      BY <1>3 DEF Match
    <3> QED
      BY <2>1, <3>1, <3>2 DEF Return
  <2>2. CASE library[wants[c]] # "good" /\ Goto(c, "remove")
    BY <1>3, <2>2 DEF Match
  <2> QED
    BY <1>3, <2>1, <2>2 DEF Match
<1>4. ASSUME NEW c \in Callers, Remove(c) PROVE Goal
    BY <1>4 DEF Remove
<1>5. ASSUME NEW c \in Callers, Stage(c) PROVE Goal
    BY <1>5 DEF Stage
<1>6. ASSUME NEW c \in Callers, Fetch(c) PROVE Goal
    BY <1>6 DEF Fetch
<1>7. ASSUME NEW c \in Callers, Activate(c) PROVE Goal
  <2>1. CASE library' = [library EXCEPT ![wants[c]] = "good"] /\ Return(c)
    <3>1. \A d \in Callers : d # c /\ at[d] \in Replacing => wants[d] # wants[c]
      BY <1>7, ReturnsItsOwn DEF Activate, Locked
    <3> QED
      BY <1>7, <2>1, <3>1 DEF Return, Activate
  <2>2. CASE Goto(c, "discard") /\ UNCHANGED <<library, wants, parts, given>>
    BY <1>7, <2>2 DEF Activate
  <2> QED
    BY <1>7, <2>1, <2>2 DEF Activate
<1>8. ASSUME NEW c \in Callers, Discard(c) PROVE Goal
    BY <1>8 DEF Discard
<1>9. ASSUME NEW c \in Callers, Crash(ProcessOf[c]) PROVE Goal
    BY <1>9 DEF Crash
<1>10. ASSUME NEW p \in Packages, Damage(p) PROVE Goal
    BY <1>10 DEF Damage
<1>11. CASE UNCHANGED vars
    BY <1>11 DEF vars
<1> QED
    BY <1>1, <1>2, <1>3, <1>4, <1>5, <1>6, <1>7, <1>8, <1>9, <1>10, <1>11
    DEF Next, Download

\* Callers of one process that can read their library: a package that was
\* returned stays whole, whatever fails, is damaged or dies around it.
THEOREM PackagesStay ==
    ASSUME OneProcess, ~ReadsFail
    PROVE  Spec => []PackagesPersist
<1>1. Init => PackagesInv
  <2> SUFFICES ASSUME Init PROVE PackagesInv
    OBVIOUS
  <2>1. TypeOK
    BY InputTypedInit DEF InputTyped
  <2>2. Exclusive /\ NotGiven /\ PackagesPersist
    BY DEF Init, Exclusive, NotGiven, PackagesPersist, Locked, Replacing, Steps
  <2> QED
    BY <2>1, <2>2 DEF PackagesInv
<1>2. PackagesInv /\ InputTyped /\ [Next]_vars => PackagesInv'
  <2> SUFFICES ASSUME PackagesInv, InputTyped, [Next]_vars PROVE PackagesInv'
    OBVIOUS
  <2>1. TypeOK'
    BY InputTypedStep DEF InputTyped
  <2>2. Exclusive'
    BY ExclusiveStep DEF PackagesInv
  <2>3. NotGiven' /\ PackagesPersist'
    BY PersistStep
  <2> QED
    BY <2>1, <2>2, <2>3 DEF PackagesInv
<1>3. PackagesInv => PackagesPersist
    BY DEF PackagesInv
<1> QED
    BY <1>1, <1>2, <1>3, InputTypedHolds, PTL DEF Spec

-----------------------------------------------------------------------------
(* The host router. *)

RouterInv == RouterTypeOK /\ OneInput /\ SettingsFollow

LEMMA OtherAdapter ==
    ASSUME NEW a \in Adapters
    PROVE  /\ Other(a) \in Adapters /\ Other(a) # a /\ Other(Other(a)) = a
           /\ \A b \in Adapters : b = a \/ b = Other(a)
BY DEF Adapters, Other

\* An Open that fails or succeeds leaves the other adapter as it was.
LEMMA AdapterOpensHere ==
    ASSUME RouterTypeOK, NEW a \in Adapters, NEW i \in Inputs, AdapterFor(i) = a,
           AdapterOpens(a, i)
    PROVE  /\ input' \in [Adapters -> Inputs \union {NoInput}]
           /\ \A b \in Adapters : input'[b] # NoInput => AdapterFor(input'[b]) = b
           /\ unsaved' \in [Adapters -> BOOLEAN]
           /\ \A b \in Adapters : unsaved'[b] => input'[b] # NoInput
           /\ \A b \in Adapters \ {a} : input'[b] = input[b]
           /\ reply' \in {"opened", "failed"}
<1> USE HostBackendAssumption DEF RouterTypeOK, inputs
<1>1. CASE Holding(a, i) /\ reply' = "opened"
    BY <1>1 DEF Holding
<1>2. CASE Holding(a, NoInput) /\ reply' = "failed"
    BY <1>2 DEF Holding
<1>3. CASE UNCHANGED inputs /\ reply' = "failed"
    BY <1>3
<1> QED
    BY <1>1, <1>2, <1>3 DEF AdapterOpens, KeepsUnsaved

\* What has been remembered reaches the adapter it is replayed to.
LEMMA ReplayedSettings ==
    ASSUME RouterTypeOK, NEW a \in Adapters, Replays(a), active' = a,
           UNCHANGED remembered
    PROVE  /\ applied' \in [Adapters -> [Kinds -> Values \union {Unset}]]
           /\ SettingsFollow'
<1> DEFINE replayed == [k \in Kinds |->
        IF remembered[k] # Unset /\ Accepts(a, k, remembered[k])
          THEN remembered[k] ELSE applied[a][k]]
<1>1. /\ applied \in [Adapters -> [Kinds -> Values \union {Unset}]]
      /\ remembered \in [Kinds -> Values \union {Unset}]
    BY DEF RouterTypeOK
<1>2. replayed \in [Kinds -> Values \union {Unset}]
    BY <1>1
<1>3. applied' = [applied EXCEPT ![a] = replayed]
    BY DEF Replays
<1>4. applied'[a] = replayed
    BY <1>1, <1>3
<1>5. SettingsFollow'
    BY <1>4 DEF SettingsFollow, Accepts, Configurable
<1> HIDE DEF replayed
<1> QED
    BY <1>1, <1>2, <1>3, <1>5

LEMMA RouterInvInit == RouterInit => RouterInv
<1> SUFFICES ASSUME RouterInit PROVE RouterInv
    OBVIOUS
<1> USE HostBackendAssumption DEF RouterInit, Adapters
<1>1. RouterTypeOK
    BY DEF RouterTypeOK
<1>2. OneInput /\ SettingsFollow
    BY DEF OneInput, Other, SettingsFollow
<1> QED
    BY <1>1, <1>2 DEF RouterInv

LEMMA RouterInvStep == RouterInv /\ [RouterNext]_routerVars => RouterInv'
<1> SUFFICES ASSUME RouterInv, [RouterNext]_routerVars PROVE RouterInv'
    OBVIOUS
<1> USE HostBackendAssumption DEF RouterInv, inputs, settings
<1>1. active \in Adapters /\ Other(active) \in Adapters /\ Other(active) # active
    BY OtherAdapter DEF RouterTypeOK
<1>2. ASSUME UNCHANGED <<active, settings>> PROVE SettingsFollow'
    BY <1>2 DEF SettingsFollow, Accepts, Configurable
<1>3. ASSUME NEW i \in Inputs, OpenSame(i) PROVE RouterInv'
  <2>1. /\ AdapterFor(i) = active /\ AdapterOpens(active, i)
        /\ UNCHANGED <<active, settings>>
    BY <1>3 DEF OpenSame
  <2>2. RouterTypeOK'
    BY <1>1, <2>1, AdapterOpensHere DEF RouterTypeOK
  <2>3. OneInput'
    BY <1>1, <2>1, AdapterOpensHere DEF OneInput
  <2> QED
    BY <1>2, <2>1, <2>2, <2>3
<1>4. ASSUME NEW i \in Inputs, OpenCannotClose(i) PROVE RouterInv'
  <2>1. /\ reply' = "failed" /\ UNCHANGED <<active, settings>>
        /\ UNCHANGED inputs \/ Holding(active, NoInput)
    BY <1>4 DEF OpenCannotClose, KeepsUnsaved
  <2>2. RouterTypeOK'
    BY <1>1, <2>1 DEF RouterTypeOK, Holding
  <2>3. OneInput'
    BY <1>1, <2>1 DEF OneInput, Holding, RouterTypeOK
  <2> QED
    BY <1>2, <2>1, <2>2, <2>3
<1>5. ASSUME NEW i \in Inputs, OpenOther(i) PROVE RouterInv'
  <2> DEFINE next == AdapterFor(i)
  <2>1. /\ next \in Adapters /\ next # active /\ active' = next
        /\ Replays(next) /\ UNCHANGED remembered
        /\ reply' \in {"opened", "failed"}
        /\ input' \in {[NoInputs EXCEPT ![next] = i], NoInputs}
        /\ unsaved' = [a \in Adapters |-> FALSE]
    BY <1>5 DEF OpenOther, AdapterFor, Adapters
  <2>2. /\ applied' \in [Adapters -> [Kinds -> Values \union {Unset}]]
        /\ SettingsFollow'
    BY <2>1, ReplayedSettings
  <2>3. /\ input' \in [Adapters -> Inputs \union {NoInput}]
        /\ \A a \in Adapters : input'[a] # NoInput => a = next /\ input'[a] = i
    BY <2>1 DEF NoInputs
  <2>4. RouterTypeOK'
    BY <2>1, <2>2, <2>3 DEF RouterTypeOK
  <2>5. OneInput'
    BY <2>1, <2>3, OtherAdapter DEF OneInput
  <2> QED
    BY <2>2, <2>4, <2>5
<1>6. CASE Play
  <2>1. RouterTypeOK'
    BY <1>1, <1>6 DEF Play, RouterTypeOK
  <2>2. OneInput'
    BY <1>6 DEF Play, OneInput
  <2> QED
    BY <1>2, <1>6, <2>1, <2>2 DEF Play
<1>7. CASE CloseActive
  <2>1. /\ reply' \in {"closed", "failed"} /\ UNCHANGED <<active, settings>>
        /\ UNCHANGED inputs \/ Holding(active, NoInput)
    BY <1>7 DEF CloseActive, KeepsUnsaved
  <2>2. RouterTypeOK'
    BY <1>1, <2>1 DEF RouterTypeOK, Holding
  <2>3. OneInput'
    BY <1>1, <2>1 DEF OneInput, Holding, RouterTypeOK
  <2> QED
    BY <1>2, <2>1, <2>2, <2>3
<1>8. ASSUME NEW k \in Kinds, NEW v \in Values, Configure(k, v) PROVE RouterInv'
  <2>1. RouterTypeOK'
    BY <1>1, <1>8 DEF Configure, RouterTypeOK
  <2>2. OneInput'
    BY <1>8 DEF Configure, OneInput
  <2>3. SettingsFollow'
    <3> SUFFICES ASSUME NEW j \in Kinds, remembered'[j] # Unset,
                        Accepts(active', j, remembered'[j])
                 PROVE  applied'[active'][j] = remembered'[j]
      BY DEF SettingsFollow, Accepts, Configurable
    <3>1. active' = active
      BY <1>8 DEF Configure
    <3>2. CASE j = k
      <4>1. remembered'[j] = v
        BY <1>8, <3>2 DEF Configure, RouterTypeOK
      <4>2. applied' = [applied EXCEPT ![active][k] = v]
        BY <1>8, <3>1, <3>2, <4>1 DEF Configure
      <4> QED
        BY <1>1, <3>1, <3>2, <4>1, <4>2 DEF RouterTypeOK
    <3>3. CASE j # k
      <4>1. remembered'[j] = remembered[j]
        BY <1>8, <3>3 DEF Configure, RouterTypeOK
      <4>2. applied'[active][j] = applied[active][j]
        BY <1>1, <1>8, <3>3 DEF Configure, RouterTypeOK
      <4> QED
        BY <3>1, <4>1, <4>2 DEF SettingsFollow
    <3> QED
      BY <3>2, <3>3
  <2> QED
    BY <2>1, <2>2, <2>3
<1>9. CASE UNCHANGED routerVars
    BY <1>9 DEF routerVars, RouterTypeOK, OneInput, SettingsFollow, Accepts,
                Configurable
<1> QED
    BY <1>3, <1>4, <1>5, <1>6, <1>7, <1>8, <1>9 DEF RouterNext

LEMMA RouterInvHolds == RouterSpec => []RouterInv
BY RouterInvInit, RouterInvStep, PTL DEF RouterSpec

\* Through every switch, failed close and failed open, only the active adapter
\* holds an input (hostbackend.Backend.Open, Close).
THEOREM RouterStaysConsistent == RouterSpec => []RouterConsistent
<1>1. RouterInv => RouterConsistent
    BY DEF RouterInv, RouterConsistent
<1> QED
    BY <1>1, RouterInvHolds, PTL

\* A setting is in force in the active adapter whenever it was chosen, unless
\* the adapter refuses it (applyRememberedSettings, Configure*).
THEOREM SettingsAlwaysFollow == RouterSpec => []SettingsFollow
<1>1. RouterInv => SettingsFollow
    BY DEF RouterInv
<1> QED
    BY <1>1, RouterInvHolds, PTL

-----------------------------------------------------------------------------
(* Published frames. *)

\* What the UI thread will publish is decided: it has the picture, or its
\* machine has stopped.
Known == ui = "picture" \/ (ui = "machine" /\ held.title # title)

Numbers == IF presenting THEN 0 .. MaxDraws ELSE Pictures

\* No open or close straddles a poll of a core that numbers its presentations.
Ordered == presenting /\ ~Straddle

\* How many new numbers polls can still publish before the guest draws again.
Changes(a, b) == IF a = b THEN 0 ELSE 1
Pending ==
    IF Known THEN Changes(baseline, held.number) + Changes(held.number, Number)
             ELSE Changes(baseline, Number)

FrameTyped ==
    /\ FrameTypeOK
    /\ held \in [title : 0 .. opened, picture : Pictures \union {None},
                 number : Numbers \union {None}]
    /\ shown \in [title : 0 .. opened, picture : Pictures \union {None},
                  sequence : 0 .. MaxDraws + 1]
    /\ Known => held.number # None /\ held.picture # None
    /\ ui # "idle" => held.title # 0
    /\ Ordered /\ ui # "idle" => held.title = title

\* A number published for a title, or yet to be, is one of its drawings; where
\* an open can straddle a poll, one more may be left of the title before.
NumbersInv ==
    /\ title # 0 => sequence + Pending <= drawn + (IF Ordered THEN 0 ELSE 1)
    /\ title = 0 => sequence <= 1 /\ (sequence = 1 => ui = "idle")

\* The number of the published picture tells it from a later one, and the shell
\* shows what was published.
ShownInv ==
    /\ shown.sequence = sequence
    /\ ~presenting =>
         /\ sequence # 0 => shown.picture = baseline
         /\ Known => held.picture = held.number
    /\ Ordered /\ title # 0 =>
         /\ Known => /\ held.number <= drawn
                     /\ held.number = drawn => held.picture = screen
         /\ sequence # 0 => /\ baseline <= drawn
                            /\ baseline = drawn => shown.picture = screen

FrameInv == FrameTyped /\ NumbersInv /\ ShownInv

LEMMA NumberTyped ==
    ASSUME FrameTypeOK
    PROVE  Number \in Numbers /\ Number # None
BY FramePublishAssumption DEF FrameTypeOK, Number, Numbers

LEMMA FrameInvInit == FrameInit => FrameInv
<1> SUFFICES ASSUME FrameInit PROVE FrameInv
    OBVIOUS
<1> USE FramePublishAssumption DEF FrameInit, NothingHeld, NothingShown
<1>1. FrameTypeOK
    BY DEF FrameTypeOK
<1>2. FrameTyped
    BY <1>1 DEF FrameTyped, Known, Ordered
<1>3. NumbersInv
    BY DEF NumbersInv
<1>4. ShownInv
    BY DEF ShownInv, Known
<1> QED
    BY <1>2, <1>3, <1>4 DEF FrameInv

\* What an open or a close makes of the picture being read.
LEMMA Outlived ==
    ASSUME FrameTyped, Outlives, title' # title, title' \in {0, opened + 1},
           opened' \in {opened, opened + 1}, UNCHANGED presenting,
           title' = 0 \/ opened' = opened + 1
    PROVE  /\ held' \in [title : 0 .. opened', picture : Pictures \union {None},
                         number : Numbers \union {None}]
           /\ ui' = ui
           /\ Known' => held'.number # None /\ held'.picture # None
           /\ ui # "idle" => held'.title # 0 /\ ~Ordered
           /\ Ordered => ~Known'
           /\ ~presenting /\ (Known => held.picture = held.number)
                => (Known' => held'.picture = held'.number)
<1> USE FramePublishAssumption DEF FrameTyped
<1>1. opened \in Nat /\ title \in 0 .. opened
    BY DEF FrameTypeOK
<1>2. Current \in [title : 0 .. opened, picture : Pictures \union {None},
                   number : Numbers \union {None}]
      /\ Current.picture = screen /\ Current.picture # None
      /\ Current.number = Number /\ Current.number # None /\ Current.title = title
    BY <1>1, NumberTyped DEF Current, FrameTypeOK
<1>3. ui' = ui /\ (ui = "idle" \/ ~Ordered)
    BY DEF Outlives, Ordered
<1>4. CASE ui = "machine" /\ held.title = title
  <2>1. held' = Current
    BY <1>4 DEF Outlives
  <2>2. ~presenting => Number = screen
    BY DEF Number
  <2> QED
    BY <1>1, <1>2, <1>3, <1>4, <2>1, <2>2
<1>5. CASE ~(ui = "machine" /\ held.title = title)
  <2>1. held' = held
    BY <1>5 DEF Outlives
  <2>2. Known' => Known
    BY <1>3, <1>5, <2>1 DEF Known
  <2> QED
    BY <1>1, <1>3, <2>1, <2>2 DEF Known
<1> QED
    BY <1>4, <1>5

LEMMA OpenKeepsFrames == ASSUME FrameInv, Open PROVE FrameInv'
<1> USE FramePublishAssumption
<1>1. /\ opened \in Nat /\ opened < MaxTitles /\ MaxTitles \in Nat
      /\ title \in 0 .. opened /\ presenting \in BOOLEAN
    BY DEF FrameInv, FrameTyped, FrameTypeOK, Open
<1>2. /\ Outlives /\ opened' = opened + 1 /\ title' = opened + 1
      /\ screen' = Blank /\ drawn' = 1 /\ sequence' = 0 /\ baseline' = None
      /\ shown' = NothingShown /\ presenting' = presenting
    BY DEF Open, Forgets
<1>3. /\ held' \in [title : 0 .. opened', picture : Pictures \union {None},
                    number : Numbers \union {None}]
      /\ ui' = ui
      /\ Known' => held'.number # None /\ held'.picture # None
      /\ ui # "idle" => held'.title # 0 /\ ~Ordered
      /\ Ordered => ~Known'
      /\ ~presenting => (Known' => held'.picture = held'.number)
    BY <1>1, <1>2, Outlived DEF FrameInv, ShownInv
<1>4. Numbers' = Numbers /\ (Ordered' <=> Ordered)
    BY <1>2 DEF Numbers, Ordered
<1>5. FrameTypeOK'
    BY <1>1, <1>2, <1>3 DEF FrameTypeOK, NothingShown, FrameInv, FrameTyped
<1>6. FrameTyped'
  <2>1. shown' \in [title : 0 .. opened', picture : Pictures \union {None},
                    sequence : 0 .. MaxDraws + 1]
    BY <1>1, <1>2 DEF NothingShown
  <2> QED
    BY <1>3, <1>4, <1>5, <2>1 DEF FrameTyped
<1>7. NumbersInv'
  <2>1. title' # 0
    BY <1>1, <1>2
  <2> QED
    BY <1>2, <1>3, <1>4, <2>1 DEF NumbersInv, Pending, Changes
<1>8. ShownInv'
    BY <1>2, <1>3, <1>4 DEF ShownInv, NothingShown
<1> QED
    BY <1>6, <1>7, <1>8 DEF FrameInv

LEMMA CloseKeepsFrames == ASSUME FrameInv, Close PROVE FrameInv'
<1> USE FramePublishAssumption
<1>1. /\ opened \in Nat /\ title \in 0 .. opened /\ title # 0
      /\ presenting \in BOOLEAN
    BY DEF FrameInv, FrameTyped, FrameTypeOK, Close
<1>2. /\ Outlives /\ opened' = opened /\ title' = 0
      /\ screen' = screen /\ drawn' = drawn /\ sequence' = 0 /\ baseline' = None
      /\ shown' = NothingShown /\ presenting' = presenting
    BY DEF Close, Forgets, guest
<1>3. /\ held' \in [title : 0 .. opened', picture : Pictures \union {None},
                    number : Numbers \union {None}]
      /\ ui' = ui
      /\ Known' => held'.number # None /\ held'.picture # None
      /\ ui # "idle" => held'.title # 0 /\ ~Ordered
      /\ ~presenting => (Known' => held'.picture = held'.number)
    BY <1>1, <1>2, Outlived DEF FrameInv, ShownInv
<1>4. Numbers' = Numbers /\ (Ordered' <=> Ordered)
    BY <1>2 DEF Numbers, Ordered
<1>5. FrameTypeOK'
    BY <1>1, <1>2, <1>3 DEF FrameTypeOK, NothingShown, FrameInv, FrameTyped
<1>6. FrameTyped'
  <2>1. shown' \in [title : 0 .. opened', picture : Pictures \union {None},
                    sequence : 0 .. MaxDraws + 1]
    BY <1>1, <1>2 DEF NothingShown
  <2> QED
    BY <1>3, <1>4, <1>5, <2>1 DEF FrameTyped
<1>7. NumbersInv' /\ ShownInv'
    BY <1>2, <1>3, <1>4 DEF NumbersInv, ShownInv, NothingShown
<1> QED
    BY <1>6, <1>7 DEF FrameInv

LEMMA DrawKeepsFrames == ASSUME FrameInv, Draw PROVE FrameInv'
<1> USE FramePublishAssumption
<1>1. /\ title # 0 /\ drawn \in Nat /\ drawn < MaxDraws /\ drawn' = drawn + 1
      /\ screen' \in Pictures /\ presenting \in BOOLEAN
      /\ UNCHANGED <<presenting, title, opened, baseline, sequence, ui, held, shown>>
    BY DEF Draw, published, FrameInv, FrameTyped, FrameTypeOK
<1>2. Numbers' = Numbers /\ (Ordered' <=> Ordered) /\ (Known' <=> Known)
    BY <1>1 DEF Numbers, Ordered, Known
<1>3. FrameTypeOK'
    BY <1>1 DEF FrameInv, FrameTyped, FrameTypeOK
<1>4. FrameTyped'
    BY <1>1, <1>2, <1>3 DEF FrameInv, FrameTyped
<1>5. NumbersInv'
    BY <1>1, <1>2 DEF FrameInv, FrameTyped, FrameTypeOK, NumbersInv, Pending, Changes
<1>6. ShownInv'
  <2>1. Ordered /\ Known => held.number \in 0 .. MaxDraws
    BY DEF FrameInv, FrameTyped, Ordered, Numbers
  <2>2. Ordered /\ sequence # 0 => baseline \in 0 .. MaxDraws
    BY DEF FrameInv, FrameTyped, FrameTypeOK, Ordered
  <2> QED
    BY <1>1, <1>2, <2>1, <2>2 DEF FrameInv, ShownInv
<1> QED
    BY <1>4, <1>5, <1>6 DEF FrameInv

LEMMA ReadMachineKeepsFrames == ASSUME FrameInv, ReadMachine PROVE FrameInv'
<1> USE FramePublishAssumption
<1>1. /\ ui = "idle" /\ ui' = "machine" /\ title # 0 /\ presenting \in BOOLEAN
      /\ held' = [title |-> title, picture |-> None, number |-> None]
      /\ UNCHANGED <<presenting, title, opened, screen, drawn, baseline, sequence,
                     shown>>
    BY DEF ReadMachine, published, guest, NothingHeld, FrameInv, FrameTyped,
           FrameTypeOK
<1>2. Numbers' = Numbers /\ (Ordered' <=> Ordered) /\ ~Known' /\ ~Known
    BY <1>1 DEF Numbers, Ordered, Known
<1>3. FrameTypeOK'
    BY <1>1 DEF FrameInv, FrameTyped, FrameTypeOK
<1>4. FrameTyped'
    BY <1>1, <1>2, <1>3 DEF FrameInv, FrameTyped, FrameTypeOK
<1>5. NumbersInv'
    BY <1>1, <1>2 DEF FrameInv, NumbersInv, Pending, Number
<1>6. ShownInv'
    BY <1>1, <1>2 DEF FrameInv, ShownInv
<1> QED
    BY <1>4, <1>5, <1>6 DEF FrameInv

LEMMA ReadPictureKeepsFrames == ASSUME FrameInv, ReadPicture PROVE FrameInv'
<1> USE FramePublishAssumption
<1>1. /\ ui = "machine" /\ ui' = "picture" /\ presenting \in BOOLEAN
      /\ held' = IF held.title = title THEN Current ELSE held
      /\ UNCHANGED <<presenting, title, opened, screen, drawn, baseline, sequence,
                     shown>>
    BY DEF ReadPicture, published, guest, FrameInv, FrameTyped, FrameTypeOK
<1>2. /\ Numbers' = Numbers /\ (Ordered' <=> Ordered) /\ Known'
      /\ Known <=> held.title # title
    BY <1>1 DEF Numbers, Ordered, Known
<1>3. Current = [title |-> title, picture |-> screen, number |-> Number]
      /\ Number \in Numbers /\ Number # None /\ screen \in Pictures /\ screen # None
      /\ title \in 0 .. opened /\ Number' = Number
      /\ (presenting => Number = drawn) /\ (~presenting => Number = screen)
    BY <1>1, NumberTyped DEF Current, FrameInv, FrameTyped, FrameTypeOK, Number
<1>4. FrameTypeOK'
    BY <1>1, <1>3 DEF FrameInv, FrameTyped, FrameTypeOK
<1>5. FrameTyped'
    BY <1>1, <1>2, <1>3, <1>4 DEF FrameInv, FrameTyped
<1>6. NumbersInv'
  <2>1. CASE held.title = title
    <3>1. held'.number = Number
      BY <1>1, <1>3, <2>1
    <3>2. title # 0
      BY <1>1, <2>1 DEF FrameInv, FrameTyped
    <3> QED
      BY <1>1, <1>2, <1>3, <2>1, <3>1, <3>2
      DEF FrameInv, FrameTyped, FrameTypeOK, NumbersInv, Pending, Changes
  <2>2. CASE held.title # title
    BY <1>1, <1>2, <1>3, <2>2 DEF FrameInv, NumbersInv, Pending
  <2> QED
    BY <2>1, <2>2
<1>7. ShownInv'
  <2>1. CASE held.title = title
    <3>1. held'.number = Number /\ held'.picture = screen
      BY <1>1, <1>3, <2>1
    <3>2. Ordered => held'.number = drawn
      BY <1>3, <3>1 DEF Ordered
    <3>3. drawn \in Nat
      BY DEF FrameInv, FrameTyped, FrameTypeOK
    <3> QED
      BY <1>1, <1>2, <1>3, <3>1, <3>2, <3>3 DEF FrameInv, ShownInv
  <2>2. CASE held.title # title
    BY <1>1, <1>2, <2>2 DEF FrameInv, ShownInv
  <2> QED
    BY <2>1, <2>2
<1> QED
    BY <1>5, <1>6, <1>7 DEF FrameInv

LEMMA PublishKeepsFrames == ASSUME FrameInv, Publish PROVE FrameInv'
<1> USE FramePublishAssumption
<1>1. /\ ui = "picture" /\ ui' = "idle" /\ presenting \in BOOLEAN
      /\ held' = NothingHeld
      /\ UNCHANGED <<presenting, title, opened, screen, drawn>>
    BY DEF Publish, guest, FrameInv, FrameTyped, FrameTypeOK
<1>2. /\ Numbers' = Numbers /\ (Ordered' <=> Ordered) /\ ~Known' /\ Known
      /\ Number' = Number
    BY <1>1 DEF Numbers, Ordered, Known, Number
<1>3. /\ held.number \in Numbers /\ held.number # None
      /\ held.picture \in Pictures /\ held.picture # None /\ held.title \in 0 .. opened
      /\ sequence \in Nat /\ (sequence = 0 <=> baseline = None)
      /\ drawn \in 0 .. MaxDraws /\ opened \in Nat
    BY <1>2 DEF FrameInv, FrameTyped, FrameTypeOK
<1>4. /\ baseline' = held.number
      /\ sequence' = sequence + Changes(baseline, held.number)
      /\ sequence' \in Nat /\ sequence' # 0
  <2>1. CASE held.number = baseline
    BY <1>3, <2>1 DEF Publish, published, Changes
  <2>2. CASE held.number # baseline
    BY <1>3, <2>2 DEF Publish, Changes
  <2> QED
    BY <2>1, <2>2
<1>5. /\ title # 0 => sequence' + Changes(baseline', Number) <= drawn + (IF Ordered THEN 0 ELSE 1)
      /\ title = 0 => sequence' <= 1
    BY <1>1, <1>2, <1>3, <1>4
    DEF FrameInv, NumbersInv, Pending, Changes
<1>6. sequence' <= MaxDraws + 1
    BY <1>3, <1>4, <1>5 DEF Changes
<1>7. shown' = IF sequence' = shown.sequence THEN shown
                 ELSE [title |-> held.title, picture |-> held.picture,
                       sequence |-> sequence']
    BY DEF Publish, Shows
<1>8. shown' \in [title : 0 .. opened, picture : Pictures \union {None},
                  sequence : 0 .. MaxDraws + 1]
    BY <1>3, <1>4, <1>6, <1>7 DEF FrameInv, FrameTyped
<1>9. FrameTypeOK'
  <2>1. held'.title \in 0 .. opened /\ held'.picture \in Pictures \union {None}
    BY <1>1, <1>3 DEF NothingHeld
  <2> QED
    BY <1>1, <1>3, <1>4, <1>6, <1>8, <2>1 DEF FrameInv, FrameTyped, FrameTypeOK, Numbers
<1>10. FrameTyped'
  <2>1. held' \in [title : 0 .. opened, picture : Pictures \union {None},
                   number : Numbers \union {None}]
    BY <1>1, <1>3 DEF NothingHeld
  <2> QED
    BY <1>1, <1>2, <1>8, <1>9, <2>1 DEF FrameTyped
<1>11. NumbersInv'
    BY <1>1, <1>2, <1>5 DEF NumbersInv, Pending
<1>12. ShownInv'
  <2>1. shown.sequence = sequence
    BY DEF FrameInv, ShownInv
  <2>2. CASE held.number = baseline
    <3>1. sequence' = sequence /\ shown' = shown
      BY <1>3, <1>4, <1>7, <2>1, <2>2 DEF Changes
    <3> QED
      BY <1>1, <1>2, <1>3, <1>4, <2>1, <2>2, <3>1 DEF FrameInv, ShownInv
  <2>3. CASE held.number # baseline
    <3>1. sequence' # sequence
      BY <1>3, <1>4, <2>3 DEF Changes
    <3>2. shown'.sequence = sequence' /\ shown'.picture = held.picture
      BY <1>7, <2>1, <3>1
    <3> QED
      BY <1>1, <1>2, <1>3, <1>4, <3>2 DEF FrameInv, ShownInv
  <2> QED
    BY <2>2, <2>3
<1> QED
    BY <1>10, <1>11, <1>12 DEF FrameInv

LEMMA FrameInvStep == FrameInv /\ [FrameNext]_frameVars => FrameInv'
<1>1. ASSUME FrameInv, UNCHANGED frameVars PROVE FrameInv'
    BY <1>1 DEF frameVars, FrameInv, FrameTyped, FrameTypeOK, NumbersInv,
                ShownInv, Known, Numbers, Number, Pending, Ordered
<1> QED
    BY <1>1, OpenKeepsFrames, CloseKeepsFrames, DrawKeepsFrames,
       ReadMachineKeepsFrames, ReadPictureKeepsFrames, PublishKeepsFrames
    DEF FrameNext, VideoFrame

LEMMA FrameInvHolds == FrameSpec => []FrameInv
BY FrameInvInit, FrameInvStep, PTL DEF FrameSpec

LEMMA PendingIsSome ==
    ASSUME FrameInv
    PROVE  title # 0 => sequence <= drawn + (IF Ordered THEN 0 ELSE 1)
BY FramePublishAssumption
DEF FrameInv, FrameTyped, FrameTypeOK, NumbersInv, Pending, Changes

\* Where no open or close straddles a poll, a core that numbers its
\* presentations never gets more numbers from publishVideoFrame than it has
\* presented, however often the shell asks.
THEOREM NumbersFollowRedraws ==
    ASSUME ~Straddle
    PROVE  FrameSpec => []FrameConsistent
<1>1. FrameInv => FrameConsistent
  <2> SUFFICES ASSUME FrameInv PROVE FrameTypeOK /\ NumbersAreRedraws
    BY DEF FrameConsistent
  <2>1. FrameTypeOK
    BY DEF FrameInv, FrameTyped
  <2>2. NumbersAreRedraws
    BY <2>1, PendingIsSome DEF NumbersAreRedraws, Ordered, FrameTypeOK
  <2> QED
    BY <2>1, <2>2
<1> QED
    BY <1>1, FrameInvHolds, PTL

\* Also where they do, and for a core whose pixels are compared: the poll that
\* straddled the opening costs one number, and no other poll does.
THEOREM OneNumberMore == FrameSpec => [](title # 0 => sequence <= drawn + 1)
<1>1. FrameInv => (title # 0 => sequence <= drawn + 1)
  <2> SUFFICES ASSUME FrameInv, title # 0 PROVE sequence <= drawn + 1
    OBVIOUS
  <2>1. drawn \in Nat /\ sequence \in Nat
    BY FramePublishAssumption DEF FrameInv, FrameTyped, FrameTypeOK
  <2> QED
    BY <2>1, PendingIsSome
<1> QED
    BY <1>1, FrameInvHolds, PTL

\* Once nothing is left to publish, the shell shows what the guest shows.
UpToDate ==
    title # 0 /\ baseline = Number /\ (presenting => ~Straddle)
        => shown.picture = screen

\* A number that is published, and so not published again, is that of the
\* picture the shell has: comparing numbers never hides a redraw.  It is the
\* safety half of LastPictureShown.
THEOREM PublishedIsShown == FrameSpec => []UpToDate
<1>1. FrameInv => UpToDate
  <2> SUFFICES ASSUME FrameInv, title # 0, baseline = Number,
                      presenting => ~Straddle
               PROVE  shown.picture = screen
    BY DEF UpToDate
  <2>1. sequence # 0
    BY NumberTyped DEF FrameInv, FrameTyped, FrameTypeOK
  <2>2. presenting \in BOOLEAN
    BY DEF FrameInv, FrameTyped, FrameTypeOK
  <2>3. CASE presenting
    BY <2>1, <2>3 DEF FrameInv, ShownInv, Number, Ordered
  <2>4. CASE ~presenting
    BY <2>1, <2>4 DEF FrameInv, ShownInv, Number
  <2> QED
    BY <2>2, <2>3, <2>4
<1> QED
    BY <1>1, FrameInvHolds, PTL
=============================================================================
