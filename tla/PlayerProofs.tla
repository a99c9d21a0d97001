---------------------------- MODULE PlayerProofs ----------------------------
(***************************************************************************)
(* Proofs about what the player asks of a running title: keys held down,   *)
(* and cheats switched on and off.  Neither reads the other's state.       *)
(*                                                                         *)
(* KeyHolds, for any finite set of host controls, any mapping onto guest   *)
(* keys, any minimum hold and any frame budget.  The inductive invariant   *)
(* says what the counters of QueueInput stand for: sources[k] is at least  *)
(* the number of host controls that hold k, and exactly that unless a      *)
(* release of k has been refused; a key is down exactly while it is        *)
(* counted or pending; and the time left on a hold makes up for what is    *)
(* missing since the last press.                                           *)
(*                                                                         *)
(* CheatCatalog, for any titles, cheats, defaults, calls and number of     *)
(* opens.  The types hold however calls overlap.  The rest is proved for a *)
(* shell that waits for each call, and fails for one that does not: then   *)
(* the one call in flight works on the loaded title, and each cheat of an  *)
(* imported catalog is as the choices and the defaults say, is in doubt,   *)
(* or has just been switched and is about to be recorded.                  *)
(***************************************************************************)
EXTENDS KeyHolds, CheatCatalog, FiniteSetTheorems, TLAPS

-----------------------------------------------------------------------------
(* Keys. *)

Holders(k) == {s \in pressed : KeyOf[s] = k}

Counted ==
    \A k \in Keys :
        /\ sources[k] >= Cardinality(Holders(k))
        /\ k \notin jammed => sources[k] = Cardinality(Holders(k))

DownIffHeld == \A k \in Keys : k \in down <=> sources[k] > 0 \/ k \in pending

Clocked == \A k \in Keys : left[k] + since[k] >= MinimumHold

IInv == TypeOK /\ Counted /\ DownIffHeld /\ Clocked

-----------------------------------------------------------------------------
(* The number of holders of a key. *)

LEMMA HoldersFinite ==
    ASSUME TypeOK, NEW k \in Keys
    PROVE  IsFiniteSet(Holders(k)) /\ Cardinality(Holders(k)) \in Nat
<1>1. Holders(k) \in SUBSET Sources
    BY DEF Holders, TypeOK
<1> QED
    BY <1>1, KeyHoldsAssumption, FS_Subset, FS_CardinalityType

\* A pressed source is one of the holders of its key, and then the key's count
\* is positive and the key is down.
LEMMA PressedCounts ==
    ASSUME IInv, NEW s \in pressed
    PROVE  /\ KeyOf[s] \in Keys
           /\ sources[KeyOf[s]] >= 1
           /\ KeyOf[s] \in down
<1>1. KeyOf[s] \in Keys /\ s \in Holders(KeyOf[s])
    BY KeyHoldsAssumption DEF IInv, TypeOK, Holders
<1>2. Cardinality(Holders(KeyOf[s])) # 0 /\ Cardinality(Holders(KeyOf[s])) \in Nat
    BY <1>1, HoldersFinite, FS_EmptySet DEF IInv
<1>3. sources[KeyOf[s]] \in Nat /\ sources[KeyOf[s]] >= Cardinality(Holders(KeyOf[s]))
    BY <1>1 DEF IInv, TypeOK, Counted
<1>4. sources[KeyOf[s]] >= 1
    BY <1>2, <1>3
<1> QED
    BY <1>1, <1>3, <1>4 DEF IInv, DownIffHeld

\* One more source of a key, or one less, moves the number of its holders by
\* one and that of no other key.
LEMMA HoldersAdd ==
    ASSUME TypeOK, NEW s \in Sources \ pressed, pressed' = pressed \union {s},
           NEW k \in Keys
    PROVE  Cardinality(Holders(k)') =
             IF k = KeyOf[s] THEN Cardinality(Holders(k)) + 1 ELSE Cardinality(Holders(k))
<1>1. s \notin Holders(k)
    BY DEF Holders
<1>2. CASE k = KeyOf[s]
    <2>1. Holders(k)' = Holders(k) \union {s}
        BY <1>2 DEF Holders
    <2> QED
        BY <1>1, <1>2, <2>1, HoldersFinite, FS_AddElement
<1>3. CASE k # KeyOf[s]
    <2>1. Holders(k)' = Holders(k)
        BY <1>3 DEF Holders
    <2> QED
        BY <1>3, <2>1
<1> QED
    BY <1>2, <1>3

LEMMA HoldersRemove ==
    ASSUME TypeOK, NEW s \in pressed, pressed' = pressed \ {s}, NEW k \in Keys
    PROVE  Cardinality(Holders(k)') =
             IF k = KeyOf[s] THEN Cardinality(Holders(k)) - 1 ELSE Cardinality(Holders(k))
<1>1. CASE k = KeyOf[s]
    <2>1. Holders(k)' = Holders(k) \ {s} /\ s \in Holders(k)
        BY <1>1 DEF Holders
    <2>2. Cardinality(Holders(k) \ {s}) = Cardinality(Holders(k)) - 1
        BY <2>1, HoldersFinite, FS_RemoveElement
    <2> QED
        BY <1>1, <2>1, <2>2
<1>2. CASE k # KeyOf[s]
    <2>1. Holders(k)' = Holders(k)
        BY <1>2 DEF Holders
    <2> QED
        BY <1>2, <2>1
<1> QED
    BY <1>1, <1>2

-----------------------------------------------------------------------------
(* The inductive invariant. *)

LEMMA IInvInit == Init => IInv
<1> SUFFICES ASSUME Init PROVE IInv
    OBVIOUS
<1>1. TypeOK
    BY KeyHoldsAssumption DEF Init, TypeOK, States
<1>2. \A k \in Keys : Holders(k) = {}
    BY DEF Init, Holders
<1>3. Counted
    BY <1>2, FS_EmptySet DEF Counted, Init
<1>4. DownIffHeld /\ Clocked
    BY KeyHoldsAssumption DEF DownIffHeld, Clocked, Init
<1> QED
    BY <1>1, <1>3, <1>4 DEF IInv

\* resetInputState on a machine whose keys are up.
LEMMA AllUpInv ==
    ASSUME AllUp, state' \in States
    PROVE  IInv'
<1>1. TypeOK'
    BY KeyHoldsAssumption DEF AllUp, TypeOK
<1>2. \A k \in Keys : Holders(k)' = {}
    BY DEF AllUp, Holders
<1>3. Counted'
    BY <1>2, FS_EmptySet DEF Counted, AllUp
<1>4. DownIffHeld' /\ Clocked'
    BY KeyHoldsAssumption DEF DownIffHeld, Clocked, AllUp
<1> QED
    BY <1>1, <1>3, <1>4 DEF IInv

\* A change of state that leaves the keypad alone.
LEMMA QuietInv ==
    ASSUME IInv, UNCHANGED <<down, pressed, holds, since, jammed>>,
           state' \in States, state' = "empty" => state = "empty"
    PROVE  IInv'
BY DEF IInv, TypeOK, Counted, DownIffHeld, Clocked, Holders, holds

LEMMA PressInv ==
    ASSUME IInv, NEW s \in Sources, Press(s)
    PROVE  IInv'
<1> DEFINE k == KeyOf[s]
<1>1. /\ k \in Keys
      /\ TypeOK
      /\ s \in Sources \ pressed
      /\ pressed' = pressed \union {s}
      /\ sources' = [sources EXCEPT ![k] = sources[k] + 1]
      /\ left' = [left EXCEPT ![k] = MinimumHold]
      /\ pending' = pending \ {k}
      /\ since' = [since EXCEPT ![k] = 0]
      /\ down' = IF sources[k] = 0 THEN down \union {k} ELSE down
      /\ UNCHANGED <<state, jammed>>
      /\ state # "empty"
    BY KeyHoldsAssumption DEF Press, IInv
<1> HIDE DEF k
<1>2. TypeOK'
    BY <1>1, KeyHoldsAssumption DEF TypeOK
<1>3. Counted'
    <2> SUFFICES ASSUME NEW j \in Keys
                 PROVE  /\ sources'[j] >= Cardinality(Holders(j)')
                        /\ j \notin jammed' => sources'[j] = Cardinality(Holders(j)')
        BY DEF Counted
    <2>1. Cardinality(Holders(j)') =
            IF j = k THEN Cardinality(Holders(j)) + 1 ELSE Cardinality(Holders(j))
        BY <1>1, HoldersAdd DEF k
    <2>2. Cardinality(Holders(j)) \in Nat
        BY <1>1, HoldersFinite
    <2>3. sources[j] \in Nat
        BY <1>1 DEF TypeOK
    <2>4. sources'[j] = IF j = k THEN sources[j] + 1 ELSE sources[j]
        BY <1>1 DEF TypeOK
    <2>5. /\ sources[j] >= Cardinality(Holders(j))
          /\ j \notin jammed => sources[j] = Cardinality(Holders(j))
        BY DEF IInv, Counted
    <2> QED
        BY <1>1, <2>1, <2>2, <2>3, <2>4, <2>5
<1>4. DownIffHeld'
    BY <1>1 DEF IInv, DownIffHeld, TypeOK
<1>5. Clocked'
    BY <1>1, KeyHoldsAssumption DEF IInv, Clocked, TypeOK
<1> QED
    BY <1>2, <1>3, <1>4, <1>5 DEF IInv

LEMMA ReleaseInv ==
    ASSUME IInv, NEW s \in Sources, Release(s)
    PROVE  IInv'
<1> DEFINE k == KeyOf[s]
<1>1. /\ TypeOK
      /\ s \in pressed
      /\ k \in Keys
      /\ sources[k] \in Nat
      /\ sources[k] >= 1
      /\ k \in down
      /\ pressed' = pressed \ {s}
      /\ UNCHANGED <<state, since>>
    BY PressedCounts DEF Release, IInv, TypeOK
<1>2. \A j \in Keys :
        /\ Cardinality(Holders(j)) \in Nat
        /\ sources[j] \in Nat
        /\ Cardinality(Holders(j)') =
             IF j = k THEN Cardinality(Holders(j)) - 1 ELSE Cardinality(Holders(j))
        /\ sources[j] >= Cardinality(Holders(j))
        /\ j \notin jammed => sources[j] = Cardinality(Holders(j))
    BY <1>1, HoldersFinite, HoldersRemove DEF IInv, Counted, TypeOK
<1>3. \/ /\ sources[k] > 1
         /\ sources' = [sources EXCEPT ![k] = sources[k] - 1]
         /\ UNCHANGED <<down, left, pending, jammed>>
      \/ /\ sources[k] = 1
         /\ sources' = [sources EXCEPT ![k] = 0]
         /\ pending' = pending \union {k}
         /\ UNCHANGED <<down, left, jammed>>
      \/ /\ sources[k] = 1
         /\ left[k] = 0
         /\ down' = down \ {k}
         /\ sources' = [sources EXCEPT ![k] = 0]
         /\ left' = [left EXCEPT ![k] = 0]
         /\ pending' = pending \ {k}
         /\ UNCHANGED jammed
      \/ /\ sources[k] = 1
         /\ jammed' = jammed \union {k}
         /\ UNCHANGED <<down, holds>>
    BY <1>1 DEF Release, Forget
<1>4. \A j \in Keys : Cardinality(Holders(j)') \in Int
    BY <1>1, <1>2
<1> HIDE DEF k
<1>5. CASE /\ sources[k] > 1
           /\ sources' = [sources EXCEPT ![k] = sources[k] - 1]
           /\ UNCHANGED <<down, left, pending, jammed>>
    <2>1. TypeOK'
        BY <1>1, <1>5 DEF TypeOK
    <2>2. Counted'
        BY <1>1, <1>2, <1>5 DEF TypeOK, Counted
    <2>3. DownIffHeld'
        BY <1>1, <1>5 DEF IInv, DownIffHeld, TypeOK
    <2> QED
        BY <1>1, <1>5, <2>1, <2>2, <2>3 DEF IInv, Clocked
<1>6. CASE /\ sources[k] = 1
           /\ sources' = [sources EXCEPT ![k] = 0]
           /\ pending' = pending \union {k}
           /\ UNCHANGED <<down, left, jammed>>
    <2>1. TypeOK'
        BY <1>1, <1>6 DEF TypeOK
    <2>2. Counted'
        BY <1>1, <1>2, <1>6 DEF TypeOK, Counted
    <2>3. DownIffHeld'
        BY <1>1, <1>6 DEF IInv, DownIffHeld, TypeOK
    <2> QED
        BY <1>1, <1>6, <2>1, <2>2, <2>3 DEF IInv, Clocked
<1>7. CASE /\ sources[k] = 1
           /\ left[k] = 0
           /\ down' = down \ {k}
           /\ sources' = [sources EXCEPT ![k] = 0]
           /\ left' = [left EXCEPT ![k] = 0]
           /\ pending' = pending \ {k}
           /\ UNCHANGED jammed
    <2>1. TypeOK'
        BY <1>1, <1>7, KeyHoldsAssumption DEF TypeOK
    <2>2. Counted'
        BY <1>1, <1>2, <1>7 DEF TypeOK, Counted
    <2>3. DownIffHeld'
        BY <1>1, <1>7 DEF IInv, DownIffHeld, TypeOK
    <2>4. left' = left
        BY <1>7, <1>1 DEF TypeOK
    <2> QED
        BY <1>1, <2>1, <2>2, <2>3, <2>4 DEF IInv, Clocked
<1>8. CASE /\ sources[k] = 1
           /\ jammed' = jammed \union {k}
           /\ UNCHANGED <<down, holds>>
    <2>1. TypeOK'
        BY <1>1, <1>8 DEF TypeOK, holds
    <2>2. Counted'
        BY <1>1, <1>2, <1>4, <1>8 DEF TypeOK, Counted, holds
    <2> QED
        BY <1>1, <1>8, <2>1, <2>2 DEF IInv, DownIffHeld, Clocked, holds
<1> QED
    BY <1>3, <1>5, <1>6, <1>7, <1>8

\* After n instructions, the clock of every key is right, and a release that is
\* due comes no earlier than the minimum after the last press.
LEMMA ExecuteClock ==
    ASSUME IInv, NEW n \in 0 .. FrameBudget, Execute(n)
    PROVE  /\ left' \in [Keys -> 0 .. MinimumHold]
           /\ since' \in [Keys -> 0 .. MinimumHold]
           /\ Clocked'
           /\ \A k \in Due(n) : since'[k] >= MinimumHold
<1>1. n \in Nat /\ MinimumHold \in Nat
    BY KeyHoldsAssumption
<1>2. \A k \in Keys :
        /\ left[k] \in 0 .. MinimumHold
        /\ since[k] \in 0 .. MinimumHold
        /\ left[k] + since[k] >= MinimumHold
    BY DEF IInv, TypeOK, Clocked
<1>3. \A k \in Keys :
        /\ left'[k] = IF left[k] <= n THEN 0 ELSE left[k] - n
        /\ since'[k] = IF since[k] + n <= MinimumHold THEN since[k] + n ELSE MinimumHold
    BY DEF Execute, Least
<1>4. \A k \in Keys :
        /\ left'[k] \in 0 .. MinimumHold
        /\ since'[k] \in 0 .. MinimumHold
        /\ left'[k] + since'[k] >= MinimumHold
        /\ left[k] <= n => since'[k] >= MinimumHold
    BY <1>1, <1>2, <1>3
<1>5. left' \in [Keys -> 0 .. MinimumHold] /\ since' \in [Keys -> 0 .. MinimumHold]
    BY <1>4 DEF Execute
<1>6. \A k \in Due(n) : k \in Keys /\ left[k] <= n
    BY DEF Due, IInv, TypeOK
<1> QED
    BY <1>4, <1>5, <1>6 DEF Clocked

\* Flushing some of the releases that are due.
LEMMA FlushInv ==
    ASSUME IInv, NEW n \in 0 .. FrameBudget, Execute(n),
           NEW released \in SUBSET Due(n), Flush(released),
           UNCHANGED <<pressed, jammed>>, state # "empty", state' \in States \ {"empty"}
    PROVE  IInv'
<1>1. \A k \in released : k \in Keys /\ k \in pending /\ sources[k] = 0
    BY DEF Due, IInv, TypeOK
<1>2. sources' = sources
    BY <1>1 DEF Flush, IInv, TypeOK
<1>3. TypeOK'
    BY <1>1, <1>2, ExecuteClock DEF IInv, TypeOK, Flush
<1>4. Counted'
    BY <1>2 DEF IInv, Counted, Holders
<1>5. DownIffHeld'
    BY <1>1, <1>2 DEF IInv, DownIffHeld, Flush, TypeOK
<1> QED
    BY <1>3, <1>4, <1>5, ExecuteClock DEF IInv

LEMMA RunInv ==
    ASSUME IInv, state \in {"ready", "running", "paused"}, RunMachine
    PROVE  IInv'
<1>1. PICK n \in 0 .. FrameBudget :
        /\ Execute(n)
        /\ UNCHANGED <<pressed, jammed>>
        /\ \/ state' = "faulted" /\ UNCHANGED <<down, sources, pending>>
           \/ /\ \E released \in SUBSET Due(n) : Flush(released)
              /\ state' \in {state, "paused", "stopped", "faulted"}
    BY DEF RunMachine
<1>2. CASE state' = "faulted" /\ UNCHANGED <<down, sources, pending>>
    <2>1. TypeOK'
        BY <1>1, <1>2, ExecuteClock DEF IInv, TypeOK, States
    <2>2. Counted' /\ DownIffHeld'
        BY <1>1, <1>2 DEF IInv, Counted, DownIffHeld, Holders
    <2> QED
        BY <1>1, <2>1, <2>2, ExecuteClock DEF IInv
<1>3. CASE /\ \E released \in SUBSET Due(n) : Flush(released)
           /\ state' \in {state, "paused", "stopped", "faulted"}
    BY <1>1, <1>3, FlushInv DEF States
<1> QED
    BY <1>1, <1>2, <1>3

LEMMA IInvStep == IInv /\ [Next]_vars => IInv'
<1> SUFFICES ASSUME IInv, [Next]_vars PROVE IInv'
    OBVIOUS
<1>t. state \in States
    BY DEF IInv, TypeOK
<1>1. ASSUME NEW s \in Sources, Press(s) PROVE IInv'
    BY <1>1, PressInv
<1>2. ASSUME NEW s \in Sources, Release(s) PROVE IInv'
    BY <1>2, ReleaseInv
<1>3. CASE RunFrame
    BY <1>3, RunInv DEF RunFrame
<1>4. CASE Frame
    BY <1>4, RunInv DEF Frame
<1>5. CASE Open
    BY <1>5, AllUpInv DEF Open, States
<1>6. CASE Close
    BY <1>6, AllUpInv DEF Close, States
<1>7. CASE Switch
    BY <1>7, QuietInv DEF Switch, States
<1>8. CASE Reset
    BY <1>8, AllUpInv, QuietInv DEF Reset, States
<1>9. CASE UNCHANGED vars
    BY <1>9, <1>t, QuietInv DEF vars
<1> QED
    BY <1>1, <1>2, <1>3, <1>4, <1>5, <1>6, <1>7, <1>8, <1>9 DEF Next

LEMMA Invariant == Spec => []IInv
    BY IInvInit, IInvStep, PTL DEF Spec

-----------------------------------------------------------------------------

\* Type correctness of the keypad state of systemintegration.Backend.
THEOREM TypeCorrect == Spec => []TypeOK
<1>1. IInv => TypeOK
    BY DEF IInv
<1> QED
    BY <1>1, Invariant, PTL

\* QueueInput and flushInputReleases never let go of a key that a host control
\* still holds.
THEOREM HeldKeysStayDown == Spec => []HeldKeysAreDown
<1>1. IInv => HeldKeysAreDown
    BY PressedCounts DEF HeldKeysAreDown
<1> QED
    BY <1>1, Invariant, PTL

\* A key is down only because a host control holds it, its release is pending,
\* or its release has been refused by the machine.
THEOREM KeysAreNotStuck == Spec => []NoStuckKeys
<1>1. IInv => NoStuckKeys
    <2> SUFFICES ASSUME IInv, NEW k \in down \ jammed, k \notin pending
                 PROVE  \E s \in pressed : KeyOf[s] = k
        BY DEF NoStuckKeys
    <2>1. k \in Keys /\ sources[k] > 0
        BY DEF IInv, TypeOK, DownIffHeld
    <2>2. Cardinality(Holders(k)) # 0
        BY <2>1 DEF IInv, Counted
    <2>3. Holders(k) # {}
        BY <2>2, FS_EmptySet
    <2> QED
        BY <2>3 DEF Holders
<1> QED
    BY <1>1, Invariant, PTL

\* No click is shorter than the minimum hold.
THEOREM ClicksAreGuaranteed == Spec => ClicksAreSeen
<1> DEFINE Seen == \A k \in down \ down' : since'[k] >= MinimumHold
<1>1. IInv /\ [Next]_vars => [Seen]_vars
    <2> SUFFICES ASSUME IInv, Next, NEW k \in down \ down'
                 PROVE  since'[k] >= MinimumHold
        OBVIOUS
    <2>1. k \in Keys /\ MinimumHold \in Nat
        BY KeyHoldsAssumption DEF IInv, TypeOK
    <2>2. ASSUME NEW s \in Sources, Press(s) PROVE FALSE
        BY <2>2 DEF Press
    <2>3. ASSUME NEW s \in Sources, Release(s) PROVE since'[k] >= MinimumHold
        <3>1. /\ k = KeyOf[s]
              /\ left[k] = 0
              /\ since' = since
            BY <2>3 DEF Release
        <3>2. left[k] + since[k] >= MinimumHold /\ since[k] \in 0 .. MinimumHold
            BY <2>1 DEF IInv, Clocked, TypeOK
        <3> QED
            BY <2>1, <3>1, <3>2
    <2>4. CASE RunMachine
        <3>1. PICK n \in 0 .. FrameBudget :
                /\ Execute(n)
                /\ \/ UNCHANGED down
                   \/ \E released \in SUBSET Due(n) : Flush(released)
            BY <2>4 DEF RunMachine
        <3>2. k \in Due(n)
            BY <3>1 DEF Flush
        <3> QED
            BY <3>1, <3>2, ExecuteClock
    <2>5. CASE AllUp
        BY <2>1, <2>5 DEF AllUp
    <2> QED
        BY <2>2, <2>3, <2>4, <2>5
        DEF Next, RunFrame, Frame, Open, Close, Switch, Reset
<1> QED
    BY <1>1, Invariant, PTL DEF Spec, ClicksAreSeen

-----------------------------------------------------------------------------
(* The types of the cheat catalog, however calls overlap. *)

\* The libraries, the backend's fields and the files of choices.
CheatData ==
    /\ library \in [Libraries -> [title : Titles \union {NoTitle},
                                  catalog : BOOLEAN, on : SUBSET Cheats]]
    /\ current \in 0 .. opened
    /\ opened \in 0 .. MaxOpens
    /\ identity \in Titles \union {NoTitle}
    /\ choices \in [Titles -> [Cheats -> Choices]]
    /\ doubt \subseteq Cheats
    /\ \A n \in 1 .. opened : library[n].title \in Titles

\* What has been imported is known by its identity.
CheatFlag ==
    /\ imported \in BOOLEAN
    /\ imported = (identity # NoTitle)

\* Where the calls are and what they have read: those in flight know a
\* library, and those that import or record a title.
CheatLocals ==
    /\ pc \in [Procs -> Labels]
    /\ lib \in [Procs -> 0 .. opened]
    /\ refresh \in [Procs -> BOOLEAN]
    /\ ident \in [Procs -> Titles \union {NoTitle}]
    /\ todo \in [Procs -> SUBSET Decisions]
    /\ doing \in [Procs -> SUBSET Decisions]
    /\ chosen \in [Procs -> [Cheats -> Choices]]
    /\ result \in [Procs -> {"none", "ok", "failed"}]
    /\ \A p \in Procs : pc[p] # "idle" => lib[p] # 0
    /\ \A p \in Procs : pc[p] \in {"import", "apply", "publish", "save"}
                          => ident[p] \in Titles

CheatTyped == CheatData /\ CheatFlag /\ CheatLocals

LEMMA CheatTypedTypes == CheatTyped => CheatTypeOK
BY DEF CheatTyped, CheatTypeOK, CheatData, CheatFlag, CheatLocals

LEMMA NoChoicesTyped == NoChoices \in [Cheats -> Choices]
BY DEF NoChoices, Choices

LEMMA CheatTypedInit == CheatInit => CheatTyped
<1> SUFFICES ASSUME CheatInit PROVE CheatTyped
    OBVIOUS
<1> USE CheatCatalogAssumption, NoChoicesTyped DEF CheatInit
<1>1. CheatData
    BY DEF CheatData
<1>2. CheatFlag
    BY DEF CheatFlag
<1>3. CheatLocals
    BY DEF CheatLocals, Labels
<1> QED
    BY <1>1, <1>2, <1>3 DEF CheatTyped

LEMMA SameFlag == ASSUME CheatFlag, UNCHANGED <<imported, identity>> PROVE CheatFlag'
BY DEF CheatFlag

LEMMA SameLocals == ASSUME CheatLocals, UNCHANGED locals, opened' = opened
                    PROVE  CheatLocals'
BY DEF CheatLocals, locals

LEMMA SameData ==
    ASSUME CheatData, doubt' \subseteq Cheats,
           UNCHANGED <<library, current, opened, identity, choices>>
    PROVE  CheatData'
BY DEF CheatData

\* A step that only switches cheats of a library, or imports its catalog,
\* leaves the titles as they are.
LEMMA CatalogAside ==
    ASSUME CheatData, UNCHANGED <<current, opened, identity, choices>>,
           doubt' \in SUBSET Cheats,
           library' \in [Libraries -> [title : Titles \union {NoTitle},
                                       catalog : BOOLEAN, on : SUBSET Cheats]],
           \A n \in Libraries : library'[n].title = library[n].title
    PROVE  CheatData'
BY CheatCatalogAssumption DEF CheatData, Libraries

LEMMA LibrarySwitched ==
    ASSUME CheatData, UNCHANGED <<current, opened, identity, choices>>,
           doubt' \in SUBSET Cheats, NEW n, NEW on \in SUBSET Cheats,
           library' = library \/ library' = [library EXCEPT ![n].on = on]
    PROVE  CheatData'
<1>1. library' \in [Libraries -> [title : Titles \union {NoTitle},
                                  catalog : BOOLEAN, on : SUBSET Cheats]]
      /\ \A m \in Libraries : library'[m].title = library[m].title
    BY DEF CheatData
<1> QED
    BY <1>1, CatalogAside

\* A call that returns gives up all it had read.
LEMMA ReturnTyped ==
    ASSUME CheatLocals, NEW p \in Procs, NEW outcome \in {"ok", "failed"},
           Return(p, outcome), opened' = opened
    PROVE  CheatLocals'
<1>1. /\ pc' = [pc EXCEPT ![p] = "idle"] /\ pc' \in [Procs -> Labels]
      /\ ident' = [ident EXCEPT ![p] = NoTitle]
      /\ ident' \in [Procs -> Titles \union {NoTitle}]
      /\ todo' \in [Procs -> SUBSET Decisions]
    BY DEF Return, Goto, Labels, CheatLocals
<1> QED
    BY <1>1 DEF Return, CheatLocals

\* The cheats an application turns on, and those it fails for.
LEMMA AppliedTyped ==
    ASSUME CheatData, CheatLocals, NEW p \in Procs, Apply(p)
    PROVE  \E stuck \in SUBSET Cheats, on \in SUBSET Cheats :
             /\ library' = [library EXCEPT ![lib[p]].on = on]
             /\ doubt' = IF lib[p] = current THEN stuck ELSE doubt
<1> DEFINE target == Resolved(choices[ident[p]])
           old == library[lib[p]].on
<1>1. target \in SUBSET Cheats
    BY DEF Resolved
<1>2. PICK stuck \in SUBSET ((target \ old) \union (old \ target)) :
             /\ library' = [library EXCEPT ![lib[p]].on =
                              (target \ stuck) \union (old \intersect stuck)]
             /\ doubt' = IF lib[p] = current THEN stuck ELSE doubt
    BY DEF Apply
<1>3. old \in SUBSET Cheats
    <2>1. lib[p] \in Libraries
      BY CheatCatalogAssumption DEF CheatData, CheatLocals, Libraries, Apply
    <2> QED
      BY <2>1 DEF CheatData
<1> HIDE DEF target, old
<1>4. /\ stuck \in SUBSET Cheats
      /\ (target \ stuck) \union (old \intersect stuck) \in SUBSET Cheats
    BY <1>1, <1>2, <1>3
<1> QED
    BY <1>2, <1>4 DEF old

LEMMA CheatTypedStep == CheatTyped /\ [CheatNext]_cheatVars => CheatTyped'
<1> SUFFICES ASSUME CheatData, CheatFlag, CheatLocals, [CheatNext]_cheatVars
             PROVE  CheatTyped'
    BY DEF CheatTyped
<1> USE CheatCatalogAssumption DEF Goto, Labels
<1>1. ASSUME NEW t \in Titles, OpenPublishes(t) PROVE CheatTyped'
  <2>1. opened \in Nat /\ opened + 1 \in Libraries /\ opened' = opened + 1
    BY <1>1 DEF OpenPublishes, CheatData, Libraries
  <2>2. /\ library' \in [Libraries -> [title : Titles \union {NoTitle},
                                       catalog : BOOLEAN, on : SUBSET Cheats]]
        /\ \A n \in 1 .. opened' : library'[n].title \in Titles
    <3>1. [library EXCEPT ![opened + 1].title = t]
            \in [Libraries -> [title : Titles \union {NoTitle},
                              catalog : BOOLEAN, on : SUBSET Cheats]]
      BY <2>1 DEF CheatData
    <3>2. \A n \in 1 .. opened + 1 :
            /\ n \in Libraries
            /\ n = opened + 1 \/ n \in 1 .. opened
      BY <2>1 DEF Libraries, CheatData
    <3> QED
      BY <1>1, <2>1, <3>1, <3>2 DEF OpenPublishes, CheatData
  <2>3. /\ current' \in 0 .. opened' /\ opened' \in 0 .. MaxOpens
        /\ doubt' \subseteq Cheats /\ identity' \in Titles \union {NoTitle}
        /\ choices' \in [Titles -> [Cheats -> Choices]]
    BY <1>1, <2>1 DEF OpenPublishes, CheatData, Libraries
  <2>7. CheatData'
    BY <2>2, <2>3 DEF CheatData
  <2>4. CheatFlag'
    BY <1>1 DEF OpenPublishes, CheatFlag
  <2>5. lib' \in [Procs -> 0 .. opened'] /\ lib'[Opener] # 0
    BY <1>1, <2>1 DEF OpenPublishes, CheatLocals, Procs
  <2>6. CheatLocals'
    BY <1>1, <2>1, <2>5 DEF OpenPublishes, CheatLocals, Procs
  <2> QED
    BY <2>7, <2>4, <2>6 DEF CheatTyped
<1>2. CASE CloseBackend
  <2>1. CheatData'
    BY <1>2 DEF CloseBackend, CheatData
  <2>2. CheatFlag'
    BY <1>2 DEF CloseBackend, CheatFlag
  <2> QED
    BY <1>2, <2>1, <2>2, SameLocals DEF CloseBackend, CheatTyped
<1>3. ASSUME NEW p \in Requests, NEW again \in BOOLEAN, BeginSnapshot(p, again)
      PROVE  CheatTyped'
  <2>1. CheatLocals'
    BY <1>3 DEF BeginSnapshot, CheatData, CheatLocals, Procs, backend
  <2> QED
    BY <1>3, <2>1, SameData, SameFlag DEF BeginSnapshot, CheatData, CheatTyped, backend
<1>4. ASSUME NEW p \in Requests, NEW wanted \in SUBSET Cheats, BeginToggle(p, wanted)
      PROVE  CheatTyped'
  <2>1. todo' \in [Procs -> SUBSET Decisions]
    BY <1>4 DEF BeginToggle, CheatLocals
  <2>2. CheatLocals'
    BY <1>4, <2>1 DEF BeginToggle, CheatData, CheatLocals, Procs, backend
  <2> QED
    BY <1>4, <2>2, SameData, SameFlag DEF BeginToggle, CheatData, CheatTyped, backend
<1>5. ASSUME NEW p \in Requests, NEW d \in todo[p], SetEnabled(p, d)
      PROVE  CheatTyped'
  <2>1. p \in Procs /\ d \in Decisions /\ pc[p] = "toggle" /\ lib[p] # 0
    BY <1>5 DEF SetEnabled, CheatLocals, Procs
  <2>2. /\ todo' \in [Procs -> SUBSET Decisions]
        /\ doing' \in [Procs -> SUBSET Decisions]
        /\ pc' = pc \/ pc' = [pc EXCEPT ![p] = "record"]
    BY <1>5, <2>1 DEF SetEnabled, CheatLocals
  <2>3. CheatLocals'
    BY <1>5, <2>1, <2>2 DEF SetEnabled, CheatLocals
  <2>4. PICK on \in SUBSET Cheats :
           library' = library \/ library' = [library EXCEPT ![lib[p]].on = on]
    <3>1. d[1] \in Cheats /\ library[lib[p]].on \in SUBSET Cheats
      BY <2>1 DEF Decisions, CheatData, CheatLocals, Libraries
    <3>2. /\ library[lib[p]].on \union {d[1]} \in SUBSET Cheats
          /\ library[lib[p]].on \ {d[1]} \in SUBSET Cheats
      BY <3>1
    <3> QED
      BY <1>5, <3>2 DEF SetEnabled
  <2>5. UNCHANGED <<current, opened, identity, choices>> /\ doubt' \in SUBSET Cheats
    BY <1>5 DEF SetEnabled, CheatData
  <2>6. CheatData'
    BY <2>4, <2>5, LibrarySwitched
  <2> QED
    BY <1>5, <2>3, <2>6, SameFlag DEF SetEnabled, CheatTyped
<1>6. ASSUME NEW p \in Requests, ReadChoices(p) PROVE CheatTyped'
  <2>1. p \in Procs /\ pc[p] = "record" /\ lib[p] # 0
    BY <1>6 DEF ReadChoices, CheatLocals, Procs
  <2>2. CheatLocals'
    <3>1. CASE identity = NoTitle
      BY <1>6, <2>1, <3>1 DEF ReadChoices, CheatLocals, backend
    <3>2. CASE identity # NoTitle
      <4>1. identity \in Titles /\ choices[identity] \in [Cheats -> Choices]
        BY <3>2 DEF CheatData
      <4>2. /\ ident' \in [Procs -> Titles \union {NoTitle}]
            /\ chosen' \in [Procs -> [Cheats -> Choices]]
        <5>1. /\ ident' = [ident EXCEPT ![p] = identity]
              /\ chosen' = [chosen EXCEPT ![p] = choices[identity]]
          BY <1>6, <3>2 DEF ReadChoices
        <5>2. /\ ident \in [Procs -> Titles \union {NoTitle}]
              /\ chosen \in [Procs -> [Cheats -> Choices]]
          BY DEF CheatLocals
        <5> QED
          BY <4>1, <5>1, <5>2
      <4> QED
        BY <1>6, <2>1, <3>2, <4>1, <4>2 DEF ReadChoices, CheatLocals, backend
    <3> QED
      BY <3>1, <3>2
  <2> QED
    BY <1>6, <2>2, SameData, SameFlag DEF ReadChoices, CheatData, CheatTyped, backend
<1>7. ASSUME NEW p \in Requests, SaveChoices(p) PROVE CheatTyped'
  <2>1. p \in Procs /\ pc[p] = "save" /\ lib[p] # 0 /\ ident[p] \in Titles
    BY <1>7 DEF SaveChoices, CheatLocals, Procs
  <2>2. CheatLocals'
    BY <1>7, <2>1, NoChoicesTyped DEF SaveChoices, CheatLocals, backend
  <2>3. doubt' \subseteq Cheats
    <3>1. Toggled(p) \subseteq Cheats
      BY <2>1 DEF Toggled, CheatLocals, Decisions
    <3> QED
      BY <1>7, <3>1 DEF SaveChoices, CheatData
  <2>4. choices' \in [Titles -> [Cheats -> Choices]]
    <3>1. library[lib[p]].title \in Titles
      BY <2>1 DEF CheatData, CheatLocals
    <3>2. chosen[p] \in [Cheats -> Choices]
      BY <2>1 DEF CheatLocals
    <3>3. \A c \in Cheats :
            <<library[lib[p]].title, <<c, TRUE>> \in doing[p]>> \in Choices
      <4>1. \A c \in Cheats : (<<c, TRUE>> \in doing[p]) \in BOOLEAN
        OBVIOUS
      <4> QED
        BY <3>1, <4>1 DEF Choices
    <3>4. [c \in Cheats |-> IF c \in Toggled(p)
             THEN <<library[lib[p]].title, <<c, TRUE>> \in doing[p]>>
             ELSE chosen[p][c]] \in [Cheats -> Choices]
      BY <3>2, <3>3
    <3> QED
      BY <1>7, <2>1, <3>4 DEF SaveChoices, CheatData
  <2>5. CheatData'
    BY <1>7, <2>3, <2>4 DEF SaveChoices, CheatData, backend
  <2> QED
    BY <1>7, <2>2, <2>5, SameFlag DEF SaveChoices, backend, CheatTyped
<1>8. ASSUME NEW p \in Requests, EndToggles(p) PROVE CheatTyped'
  <2>1. p \in Procs /\ pc[p] = "toggle" /\ lib[p] # 0
    BY <1>8 DEF EndToggles, CheatLocals, Procs
  <2>2. CheatLocals'
    <3>1. CASE current = 0
      BY <1>8, <2>1, <3>1, ReturnTyped DEF EndToggles, backend
    <3>2. CASE current # 0
      <4>1. lib' \in [Procs -> 0 .. opened'] /\ lib'[p] # 0
        BY <1>8, <2>1, <3>2 DEF EndToggles, CheatData, CheatLocals, backend
      <4> QED
        BY <1>8, <2>1, <3>2, <4>1 DEF EndToggles, CheatLocals, backend
    <3> QED
      BY <3>1, <3>2
  <2> QED
    BY <1>8, <2>2, SameData, SameFlag DEF EndToggles, CheatData, CheatTyped, backend
<1>9. ASSUME NEW p \in Procs, ReadImported(p) PROVE CheatTyped'
  <2>1. lib[p] # 0
    BY <1>9 DEF ReadImported, CheatLocals
  <2>2. CheatLocals'
    <3>1. CASE Return(p, "ok")
      BY <1>9, <3>1, ReturnTyped DEF ReadImported, backend
    <3>2. CASE Goto(p, "identify") /\ UNCHANGED <<lib, refresh, ident, todo,
                                                  doing, chosen, result>>
      BY <1>9, <2>1, <3>2 DEF ReadImported, CheatLocals, backend
    <3> QED
      BY <1>9, <3>1, <3>2 DEF ReadImported
  <2> QED
    BY <1>9, <2>2, SameData, SameFlag DEF ReadImported, CheatData, CheatTyped, backend
<1>10. ASSUME NEW p \in Procs, ReadIdentities(p) PROVE CheatTyped'
  <2>1. lib[p] # 0
    BY <1>10 DEF ReadIdentities, CheatLocals
  <2>2. CheatLocals'
    <3>1. CASE current = 0
      BY <1>10, <3>1, ReturnTyped DEF ReadIdentities, backend
    <3>2. CASE current # 0
      <4>1. library[current].title \in Titles
        BY <3>2 DEF CheatData
      <4>2. ident' \in [Procs -> Titles \union {NoTitle}]
        BY <1>10, <3>2, <4>1 DEF ReadIdentities, CheatLocals
      <4> QED
        BY <1>10, <2>1, <3>2, <4>1, <4>2 DEF ReadIdentities, CheatLocals, backend
    <3> QED
      BY <3>1, <3>2
  <2> QED
    BY <1>10, <2>2, SameData, SameFlag DEF ReadIdentities, CheatData, CheatTyped, backend
<1>11. ASSUME NEW p \in Procs, LoadFails(p) PROVE CheatTyped'
  <2>1. CheatLocals'
    BY <1>11, ReturnTyped DEF LoadFails, backend
  <2> QED
    BY <1>11, <2>1, SameData, SameFlag DEF LoadFails, CheatData, CheatTyped, backend
<1>12. ASSUME NEW p \in Procs, Import(p) PROVE CheatTyped'
  <2>1. lib[p] # 0 /\ ident[p] \in Titles
    BY <1>12 DEF Import, CheatLocals
  <2>2. CheatLocals'
    BY <1>12, <2>1 DEF Import, CheatLocals
  <2>3. library' \in [Libraries -> [title : Titles \union {NoTitle},
                                    catalog : BOOLEAN, on : SUBSET Cheats]]
        /\ \A n \in Libraries : library'[n].title = library[n].title
    BY <1>12 DEF Import, CheatData
  <2>4. UNCHANGED <<current, opened, identity, choices>> /\ doubt' \in SUBSET Cheats
    BY <1>12 DEF Import, CheatData
  <2>5. CheatData'
    BY <2>3, <2>4, CatalogAside
  <2> QED
    BY <1>12, <2>2, <2>5, SameFlag DEF Import, CheatTyped
<1>13. ASSUME NEW p \in Procs, Apply(p) PROVE CheatTyped'
  <2>1. lib[p] # 0 /\ ident[p] \in Titles
    BY <1>13 DEF Apply, CheatLocals
  <2>2. CheatLocals'
    BY <1>13, <2>1 DEF Apply, CheatLocals
  <2>3. PICK stuck \in SUBSET Cheats, on \in SUBSET Cheats :
           /\ library' = [library EXCEPT ![lib[p]].on = on]
           /\ doubt' = IF lib[p] = current THEN stuck ELSE doubt
    BY <1>13, <2>1, AppliedTyped
  <2>4. doubt' \in SUBSET Cheats
    BY <2>3 DEF CheatData
  <2>5. UNCHANGED <<current, opened, identity, choices>>
    BY <1>13 DEF Apply
  <2>6. CheatData'
    BY <2>3, <2>4, <2>5, LibrarySwitched
  <2> QED
    BY <1>13, <2>2, <2>6, SameFlag DEF Apply, CheatTyped
<1>14. ASSUME NEW p \in Procs, Publish(p) PROVE CheatTyped'
  <2>1. ident[p] \in Titles
    BY <1>14 DEF Publish, CheatLocals
  <2>2. CheatLocals'
    BY <1>14, ReturnTyped DEF Publish
  <2>3. CheatData'
    BY <1>14, <2>1 DEF Publish, CheatData
  <2>4. CheatFlag'
    BY <1>14, <2>1 DEF Publish, CheatFlag
  <2> QED
    BY <2>2, <2>3, <2>4 DEF CheatTyped
<1>15. CASE UNCHANGED cheatVars
  <2>1. CheatData'
    BY <1>15, SameData DEF cheatVars, backend, CheatData
  <2> QED
    BY <1>15, <2>1, SameFlag, SameLocals DEF cheatVars, CheatTyped, backend
<1> QED
    BY <1>1, <1>2, <1>3, <1>4, <1>5, <1>6, <1>7, <1>8, <1>9, <1>10, <1>11,
       <1>12, <1>13, <1>14, <1>15 DEF CheatNext

-----------------------------------------------------------------------------
(* The cheats of the loaded title, for a shell that waits for each call.   *)

\* There is one call in flight at most.
OneCall == \A p, q \in Procs : pc[p] # "idle" /\ pc[q] # "idle" => p = q

\* A cheat is on exactly when the loaded title's choices and the defaults say.
Agrees(c) ==
    (c \in library[current].on) <=> (c \in Resolved(choices[library[current].title]))

\* p has switched c and has not yet recorded it.
Switching(p, c) == pc[p] \in {"record", "save"} /\ c \in Toggled(p)

\* What p works on is of the loaded title, and stays true until it is used.
CallOnCurrent(p) ==
    /\ pc[p] # "idle" => lib[p] = current
    /\ pc[p] \in {"import", "apply", "publish"} => ident[p] = library[current].title
    /\ pc[p] \in {"apply", "publish"} => library[current].catalog
    /\ pc[p] = "publish" => \A c \in Cheats \ doubt : Agrees(c)
    /\ pc[p] \in {"record", "save"} =>
         \E d \in Decisions : /\ doing[p] = {d}
                              /\ d[1] \in library[lib[p]].on <=> d[2] = TRUE
    /\ pc[p] = "save" => /\ ident[p] = library[current].title
                         /\ chosen[p] = choices[ident[p]]

\* What has been imported is the loaded title's catalog, and its cheats are
\* as they should be but for those in doubt and the one being switched.
ImportedIsCurrent ==
    imported => /\ current # 0
                /\ identity = library[current].title
                /\ library[current].catalog
                /\ \A c \in Cheats \ doubt :
                     Agrees(c) \/ \E p \in Procs : Switching(p, c)

\* An Open that has ended well has imported its catalog.
OpenImported ==
    result[Opener] = "ok" => lib[Opener] # 0 /\ library[lib[Opener]].catalog

SeqInv ==
    /\ OneCall
    /\ \A p \in Procs : CallOnCurrent(p)
    /\ ImportedIsCurrent
    /\ OpenImported
    /\ ChoicesKeyedByTitle

LEMMA SeqInit == CheatInit => SeqInv
<1> SUFFICES ASSUME CheatInit PROVE SeqInv
    OBVIOUS
<1>1. OneCall /\ \A p \in Procs : CallOnCurrent(p)
    BY DEF CheatInit, OneCall, CallOnCurrent
<1>2. ImportedIsCurrent
    BY DEF CheatInit, ImportedIsCurrent
<1>3. OpenImported
    BY DEF CheatInit, OpenImported, Procs
<1>4. ChoicesKeyedByTitle
    BY DEF CheatInit, ChoicesKeyedByTitle, NoChoices
<1> QED
    BY <1>1, <1>2, <1>3, <1>4 DEF SeqInv

\* Which cheats are on is a question of each cheat's own choice.
LEMMA ResolvedSame ==
    ASSUME NEW c \in Cheats, NEW one, NEW other, one[c] = other[c]
    PROVE  c \in Resolved(one) <=> c \in Resolved(other)
BY DEF Resolved

LEMMA ResolvedChosen ==
    ASSUME NEW c \in Cheats, NEW decided, NEW t, NEW on \in BOOLEAN, decided[c] = <<t, on>>
    PROVE  c \in Resolved(decided) <=> on = TRUE
<1>1. decided[c] # Unset
    BY DEF Unset
<1>2. c \in Resolved(decided) <=> decided[c][2]
    BY <1>1 DEF Resolved
<1>3. decided[c][2] = on
    OBVIOUS
<1> QED
    BY <1>2, <1>3

\* While p runs the others are idle, before and after its step.
LEMMA OneRuns ==
    ASSUME OneCall, NEW p \in Procs, pc[p] # "idle"
    PROVE  \A q \in Procs \ {p} : pc[q] = "idle"
BY DEF OneCall

LEMMA OneMoves ==
    ASSUME pc \in [Procs -> Labels], NEW p \in Procs,
           \A q \in Procs \ {p} : pc[q] = "idle",
           NEW label, pc' = [pc EXCEPT ![p] = label]
    PROVE  /\ OneCall' /\ pc'[p] = label
           /\ \A q \in Procs \ {p} : pc'[q] = "idle" /\ CallOnCurrent(q)'
BY DEF OneCall, CallOnCurrent

\* Nothing is being switched, and nothing a cheat depends on changes.
LEMMA ImportedKept ==
    ASSUME ImportedIsCurrent, NEW p \in Procs, pc[p] \notin {"record", "save"},
           \A q \in Procs \ {p} : pc[q] = "idle",
           UNCHANGED <<library, current, imported, identity, choices, doubt>>
    PROVE  ImportedIsCurrent'
<1>1. \A c \in Cheats, q \in Procs : ~Switching(q, c)
    BY DEF Switching
<1> QED
    BY <1>1 DEF ImportedIsCurrent, Agrees

\* Catalogs stay imported, so an Open that has ended stays right until the next.
LEMMA OpenKept ==
    ASSUME OpenImported, result'[Opener] = "ok" => result[Opener] = "ok",
           lib'[Opener] = lib[Opener],
           library[lib[Opener]].catalog => library'[lib[Opener]].catalog
    PROVE  OpenImported'
BY DEF OpenImported

\* The step of each call that changes what a cheat depends on.
LEMMA SeqSetEnabled ==
    ASSUME CheatTyped, SeqInv, NEW p \in Requests, NEW d \in todo[p], SetEnabled(p, d)
    PROVE  SeqInv'
<1>1. /\ p \in Procs /\ p # Opener /\ Opener \in Procs
      /\ pc \in [Procs -> Labels] /\ doing \in [Procs -> SUBSET Decisions]
      /\ pc[p] = "toggle" /\ d \in Decisions
    BY CheatCatalogAssumption DEF CheatTyped, CheatLocals, Procs, SetEnabled
<1>2. /\ lib[p] = current /\ lib[p] # 0
      /\ \A q \in Procs \ {p} : pc[q] = "idle"
    BY <1>1, OneRuns DEF SeqInv, CallOnCurrent, CheatTyped, CheatLocals
<1>3. UNCHANGED <<current, imported, identity, choices, doubt, lib, ident,
                  chosen, result>>
    BY DEF SetEnabled
<1>4. CASE UNCHANGED <<library, pc, doing>>
  <2>1. OneCall' /\ \A q \in Procs : CallOnCurrent(q)'
    BY <1>3, <1>4 DEF SeqInv, OneCall, CallOnCurrent, Agrees
  <2>2. ImportedIsCurrent'
    BY <1>1, <1>2, <1>3, <1>4, ImportedKept DEF SeqInv
  <2>3. OpenImported' /\ ChoicesKeyedByTitle'
    BY <1>3, <1>4 DEF SeqInv, OpenImported, ChoicesKeyedByTitle
  <2> QED
    BY <2>1, <2>2, <2>3 DEF SeqInv
<1>5. CASE /\ library' = [library EXCEPT ![lib[p]].on =
                            IF d[2] THEN @ \union {d[1]} ELSE @ \ {d[1]}]
           /\ doing' = [doing EXCEPT ![p] = {d}]
           /\ pc' = [pc EXCEPT ![p] = "record"]
  <2>1. current \in Libraries
    BY <1>1, <1>2, CheatCatalogAssumption DEF CheatTyped, CheatData, CheatLocals, Libraries
  <2>2. /\ d[1] \in library'[current].on <=> d[2] = TRUE
        /\ library'[current].title = library[current].title
        /\ library'[current].catalog = library[current].catalog
        /\ \A c : c # d[1] => (c \in library'[current].on <=> c \in library[current].on)
    <3>1. library \in [Libraries -> [title : Titles \union {NoTitle},
                                     catalog : BOOLEAN, on : SUBSET Cheats]]
      BY DEF CheatTyped, CheatData
    <3>2. d[2] \in BOOLEAN /\ d[1] \in Cheats
      BY <1>1 DEF Decisions
    <3> QED
      BY <1>2, <1>5, <2>1, <3>1, <3>2
  <2>3. /\ OneCall' /\ pc'[p] = "record"
        /\ \A q \in Procs \ {p} : CallOnCurrent(q)'
    BY <1>1, <1>2, <1>5, OneMoves
  <2>4. doing'[p] = {d}
    BY <1>1, <1>5
  <2>5. CallOnCurrent(p)'
    BY <1>1, <1>2, <1>3, <2>2, <2>3, <2>4 DEF CallOnCurrent
  <2>6. ImportedIsCurrent'
    <3> SUFFICES ASSUME imported
                 PROVE  \A c \in Cheats \ doubt :
                          Agrees(c)' \/ \E q \in Procs : Switching(q, c)'
      BY <1>3, <2>2 DEF SeqInv, ImportedIsCurrent
    <3>1. \A q \in Procs, c \in Cheats : ~Switching(q, c)
      BY <1>1, <1>2 DEF Switching
    <3>2. \A c \in Cheats \ doubt : Agrees(c)
      BY <3>1 DEF SeqInv, ImportedIsCurrent
    <3>3. Switching(p, d[1])'
      BY <2>3, <2>4 DEF Switching, Toggled
    <3>4. \A c \in Cheats \ doubt : c # d[1] => Agrees(c)'
      BY <1>3, <2>2, <3>2 DEF Agrees
    <3> QED
      BY <1>1, <3>3, <3>4
  <2>7. OpenImported'
    <3>1. library[lib[Opener]].catalog => library'[lib[Opener]].catalog
      <4>1. lib[Opener] = 0 \/ lib[Opener] \in Libraries
        BY <1>1, CheatCatalogAssumption DEF CheatTyped, CheatData, CheatLocals, Libraries
      <4>2. 0 \notin Libraries /\ lib[p] \in Libraries
        BY <1>2, <2>1 DEF Libraries
      <4> QED
        BY <1>5, <4>1, <4>2 DEF CheatTyped, CheatData
    <3> QED
      BY <1>3, <3>1, OpenKept DEF SeqInv
  <2>8. ChoicesKeyedByTitle'
    BY <1>3 DEF SeqInv, ChoicesKeyedByTitle
  <2> QED
    BY <2>3, <2>5, <2>6, <2>7, <2>8 DEF SeqInv
<1> QED
    BY <1>4, <1>5 DEF SetEnabled, Goto

LEMMA SeqReadChoices ==
    ASSUME CheatTyped, SeqInv, NEW p \in Requests, ReadChoices(p)
    PROVE  SeqInv'
<1>1. /\ p \in Procs /\ p # Opener /\ Opener \in Procs
      /\ pc \in [Procs -> Labels] /\ ident \in [Procs -> Titles \union {NoTitle}]
      /\ chosen \in [Procs -> [Cheats -> Choices]] /\ pc[p] = "record"
    BY CheatCatalogAssumption DEF CheatTyped, CheatLocals, Procs, ReadChoices
<1>2. /\ lib[p] = current /\ \A q \in Procs \ {p} : pc[q] = "idle"
    BY <1>1, OneRuns DEF SeqInv, CallOnCurrent
<1>3. UNCHANGED <<library, current, imported, identity, choices, doubt, lib, result>>
    BY DEF ReadChoices, backend
<1>4. OpenImported' /\ ChoicesKeyedByTitle'
    BY <1>3 DEF SeqInv, OpenImported, ChoicesKeyedByTitle
<1>5. CASE identity = NoTitle
  <2>1. pc' = [pc EXCEPT ![p] = "toggle"] /\ ~imported
    BY <1>5 DEF ReadChoices, Goto, CheatTyped, CheatFlag
  <2>2. /\ OneCall' /\ pc'[p] = "toggle"
        /\ \A q \in Procs \ {p} : CallOnCurrent(q)'
    BY <1>1, <1>2, <2>1, OneMoves
  <2>3. CallOnCurrent(p)'
    BY <1>2, <1>3, <2>2 DEF CallOnCurrent
  <2>4. ImportedIsCurrent'
    BY <1>3, <2>1 DEF ImportedIsCurrent
  <2> QED
    BY <1>4, <2>2, <2>3, <2>4 DEF SeqInv
<1>6. CASE identity # NoTitle
  <2>1. /\ pc' = [pc EXCEPT ![p] = "save"] /\ UNCHANGED doing
        /\ ident' = [ident EXCEPT ![p] = identity]
        /\ chosen' = [chosen EXCEPT ![p] = choices[identity]]
        /\ imported
    BY <1>6 DEF ReadChoices, Goto, CheatTyped, CheatFlag
  <2>2. /\ OneCall' /\ pc'[p] = "save"
        /\ \A q \in Procs \ {p} : pc'[q] = "idle" /\ CallOnCurrent(q)'
    BY <1>1, <1>2, <2>1, OneMoves
  <2>3. identity = library[current].title
    BY <2>1 DEF SeqInv, ImportedIsCurrent
  <2>4. ident'[p] = identity /\ chosen'[p] = choices[identity]
    BY <1>1, <2>1
  <2>5. \E d \in Decisions : doing[p] = {d} /\ (d[1] \in library[lib[p]].on <=> d[2] = TRUE)
    BY <1>1 DEF SeqInv, CallOnCurrent
  <2>6. CallOnCurrent(p)'
    BY <1>2, <1>3, <2>1, <2>2, <2>3, <2>4, <2>5 DEF CallOnCurrent
  <2>7. \A c \in Cheats, q \in Procs : Switching(q, c) => Switching(q, c)'
    BY <1>1, <1>2, <2>1, <2>2 DEF Switching, Toggled
  <2>8. ImportedIsCurrent'
    BY <1>3, <2>7 DEF SeqInv, ImportedIsCurrent, Agrees
  <2> QED
    BY <1>4, <2>2, <2>6, <2>8 DEF SeqInv
<1> QED
    BY <1>5, <1>6

LEMMA SeqSaveChoices ==
    ASSUME CheatTyped, SeqInv, NEW p \in Requests, SaveChoices(p)
    PROVE  SeqInv'
<1>1. /\ p \in Procs /\ p # Opener /\ Opener \in Procs
      /\ pc \in [Procs -> Labels] /\ pc[p] = "save"
    BY CheatCatalogAssumption DEF CheatTyped, CheatLocals, Procs, SaveChoices
<1>2. /\ lib[p] = current /\ \A q \in Procs \ {p} : pc[q] = "idle"
      /\ ident[p] = library[current].title /\ ident[p] \in Titles
      /\ chosen[p] = choices[ident[p]]
    BY <1>1, OneRuns DEF SeqInv, CallOnCurrent, CheatTyped, CheatLocals
<1>3. PICK d \in Decisions :
         doing[p] = {d} /\ (d[1] \in library[current].on <=> d[2] = TRUE)
    BY <1>1, <1>2 DEF SeqInv, CallOnCurrent
<1>4. /\ UNCHANGED <<library, current, imported, identity, lib, result>>
      /\ pc' = [pc EXCEPT ![p] = "toggle"]
    BY DEF SaveChoices, backend, Goto
<1>5. /\ OneCall' /\ pc'[p] = "toggle"
      /\ \A q \in Procs \ {p} : CallOnCurrent(q)'
    BY <1>1, <1>2, <1>4, OneMoves
<1>6. CallOnCurrent(p)'
    BY <1>2, <1>4, <1>5 DEF CallOnCurrent
<1>7. OpenImported'
    BY <1>4 DEF SeqInv, OpenImported
<1>8. d[1] \in Cheats /\ d[2] \in BOOLEAN /\ d = <<d[1], d[2]>> /\ Toggled(p) = {d[1]}
    BY <1>3 DEF Decisions, Toggled
<1>9. imported => \A c \in Cheats \ doubt : Agrees(c) \/ c = d[1]
    BY <1>2, <1>8, <1>1 DEF SeqInv, ImportedIsCurrent, Switching
<1>10. CASE UNCHANGED choices /\ doubt' = doubt \union {d[1]}
  <2>1. ImportedIsCurrent'
    BY <1>4, <1>9, <1>10 DEF SeqInv, ImportedIsCurrent, Agrees
  <2> QED
    BY <1>4, <1>5, <1>6, <1>7, <1>10, <2>1 DEF SeqInv, ChoicesKeyedByTitle
<1>11. CASE /\ choices' = [choices EXCEPT ![ident[p]] =
                 [c \in Cheats |-> IF c \in Toggled(p)
                    THEN <<library[lib[p]].title, <<c, TRUE>> \in doing[p]>>
                    ELSE chosen[p][c]]]
            /\ doubt' = doubt \ {d[1]}
  <2> DEFINE title == library[current].title
             on == <<d[1], TRUE>> \in doing[p]
  <2>1. choices \in [Titles -> [Cheats -> Choices]] /\ title \in Titles
    BY <1>2 DEF CheatTyped, CheatData
  <2>2. on \in BOOLEAN /\ (on <=> d[2] = TRUE)
    <3>1. on <=> <<d[1], TRUE>> = d
      BY <1>3
    <3>2. <<d[1], TRUE>> = <<d[1], d[2]>> <=> d[2] = TRUE
      OBVIOUS
    <3>3. on \in BOOLEAN
      OBVIOUS
    <3>4. d = <<d[1], d[2]>>
      BY <1>8
    <3>5. on <=> d[2] = TRUE
      BY <3>1, <3>2, <3>4
    <3> QED
      BY <3>3, <3>5
  <2>3. /\ choices'[title][d[1]] = <<title, on>>
        /\ \A c \in Cheats : c # d[1] => choices'[title][c] = choices[title][c]
        /\ \A t \in Titles : t # title => choices'[t] = choices[t]
    BY <1>2, <1>8, <1>11, <2>1
  <2> HIDE DEF on
  <2>4. ChoicesKeyedByTitle'
    BY <1>8, <2>1, <2>3 DEF SeqInv, ChoicesKeyedByTitle
  <2>5. ImportedIsCurrent'
    <3> SUFFICES ASSUME imported, NEW c \in Cheats \ doubt' PROVE Agrees(c)'
      BY <1>4 DEF SeqInv, ImportedIsCurrent
    <3>1. CASE c = d[1]
      <4>1. c \in Resolved(choices'[title]) <=> on = TRUE
        <5>1. choices'[title][c] = <<title, on>> /\ on \in BOOLEAN
          BY <2>2, <2>3, <3>1
        <5> QED
          BY <5>1, ResolvedChosen
      <4> QED
        BY <1>3, <1>4, <2>2, <3>1, <4>1 DEF Agrees
    <3>2. CASE c # d[1]
      <4>1. c \in Resolved(choices'[title]) <=> c \in Resolved(choices[title])
        BY <2>3, <3>2, ResolvedSame
      <4>2. Agrees(c)
        BY <1>9, <1>11, <3>2
      <4> QED
        BY <1>4, <4>1, <4>2 DEF Agrees
    <3> QED
      BY <3>1, <3>2
  <2> QED
    BY <1>5, <1>6, <1>7, <2>4, <2>5 DEF SeqInv
<1> QED
    BY <1>2, <1>8, <1>10, <1>11 DEF SaveChoices

LEMMA SeqImport ==
    ASSUME CheatTyped, SeqInv, NEW p \in Procs, Import(p)
    PROVE  SeqInv'
<1>1. /\ pc \in [Procs -> Labels] /\ pc[p] = "import" /\ Opener \in Procs
      /\ lib[p] = current /\ ident[p] = library[current].title
      /\ \A q \in Procs \ {p} : pc[q] = "idle"
    BY OneRuns DEF CheatTyped, CheatLocals, Import, SeqInv, CallOnCurrent, Procs
<1>2. current \in Libraries
    BY <1>1, CheatCatalogAssumption DEF CheatTyped, CheatData, CheatLocals, Libraries
<1>3. /\ UNCHANGED <<current, imported, identity, choices, doubt, lib, ident, result>>
      /\ library' = [library EXCEPT ![current].catalog = TRUE]
      /\ pc' = [pc EXCEPT ![p] = "apply"]
    BY <1>1 DEF Import, Goto
<1>4. /\ library'[current].title = library[current].title
      /\ library'[current].on = library[current].on
      /\ library'[current].catalog
      /\ \A n \in Libraries : library[n].catalog => library'[n].catalog
    BY <1>2, <1>3 DEF CheatTyped, CheatData
<1>5. /\ OneCall' /\ pc'[p] = "apply"
      /\ \A q \in Procs \ {p} : CallOnCurrent(q)'
    BY <1>1, <1>3, OneMoves
<1>6. CallOnCurrent(p)'
    BY <1>1, <1>3, <1>4, <1>5 DEF CallOnCurrent
<1>7. ImportedIsCurrent'
  <2>1. \A q \in Procs, c \in Cheats : ~Switching(q, c)
    BY <1>1 DEF Switching
  <2> QED
    BY <1>3, <1>4, <2>1 DEF SeqInv, ImportedIsCurrent, Agrees
<1>8. OpenImported'
  <2>1. lib[Opener] = 0 \/ lib[Opener] \in Libraries
    BY <1>1, CheatCatalogAssumption DEF CheatTyped, CheatData, CheatLocals, Libraries
  <2> QED
    BY <1>3, <1>4, <2>1 DEF SeqInv, OpenImported
<1>9. ChoicesKeyedByTitle'
    BY <1>3 DEF SeqInv, ChoicesKeyedByTitle
<1> QED
    BY <1>5, <1>6, <1>7, <1>8, <1>9 DEF SeqInv

LEMMA SeqApply ==
    ASSUME CheatTyped, SeqInv, NEW p \in Procs, Apply(p)
    PROVE  SeqInv'
<1> DEFINE title == library[current].title
           target == Resolved(choices[title])
           old == library[current].on
<1>1. /\ pc \in [Procs -> Labels] /\ pc[p] = "apply" /\ Opener \in Procs
      /\ lib[p] = current /\ ident[p] = title /\ library[current].catalog
      /\ \A q \in Procs \ {p} : pc[q] = "idle"
    BY OneRuns DEF CheatTyped, CheatLocals, Apply, SeqInv, CallOnCurrent, Procs
<1>2. current \in Libraries
    BY <1>1, CheatCatalogAssumption DEF CheatTyped, CheatData, CheatLocals, Libraries
<1>3. PICK stuck \in SUBSET ((target \ old) \union (old \ target)) :
         /\ library' = [library EXCEPT ![current].on =
                          (target \ stuck) \union (old \intersect stuck)]
         /\ doubt' = stuck
    BY <1>1 DEF Apply
<1>4. /\ UNCHANGED <<current, imported, identity, choices, lib, ident, result>>
      /\ pc' = [pc EXCEPT ![p] = "publish"]
    BY DEF Apply, Goto
<1> HIDE DEF target, old
<1>5. /\ library'[current].title = title
      /\ library'[current].on = (target \ stuck) \union (old \intersect stuck)
      /\ library'[current].catalog
      /\ \A n \in Libraries : library[n].catalog => library'[n].catalog
    BY <1>1, <1>2, <1>3 DEF CheatTyped, CheatData
<1>6. \A c \in Cheats \ doubt' : c \in library'[current].on <=> c \in target
    BY <1>3, <1>5
<1>7. \A c \in Cheats \ doubt' : Agrees(c)'
    BY <1>4, <1>5, <1>6 DEF Agrees, target
<1>8. /\ OneCall' /\ pc'[p] = "publish"
      /\ \A q \in Procs \ {p} : CallOnCurrent(q)'
    BY <1>1, <1>4, OneMoves
<1>9. CallOnCurrent(p)'
    BY <1>1, <1>4, <1>5, <1>7, <1>8 DEF CallOnCurrent
<1>10. ImportedIsCurrent'
    BY <1>4, <1>5, <1>7 DEF SeqInv, ImportedIsCurrent
<1>11. OpenImported'
  <2>1. lib[Opener] = 0 \/ lib[Opener] \in Libraries
    BY <1>1, CheatCatalogAssumption DEF CheatTyped, CheatData, CheatLocals, Libraries
  <2> QED
    BY <1>4, <1>5, <2>1 DEF SeqInv, OpenImported
<1>12. ChoicesKeyedByTitle'
    BY <1>4 DEF SeqInv, ChoicesKeyedByTitle
<1> QED
    BY <1>8, <1>9, <1>10, <1>11, <1>12 DEF SeqInv

LEMMA SeqPublish ==
    ASSUME CheatTyped, SeqInv, NEW p \in Procs, Publish(p)
    PROVE  SeqInv'
<1>1. /\ pc \in [Procs -> Labels] /\ result \in [Procs -> {"none", "ok", "failed"}]
      /\ pc[p] = "publish" /\ Opener \in Procs
    BY DEF CheatTyped, CheatLocals, Publish, Procs
<1>2. /\ lib[p] = current /\ lib[p] # 0 /\ ident[p] = library[current].title
      /\ library[current].catalog /\ \A c \in Cheats \ doubt : Agrees(c)
      /\ \A q \in Procs \ {p} : pc[q] = "idle"
    BY <1>1, OneRuns DEF CheatTyped, CheatLocals, SeqInv, CallOnCurrent
<1>3. /\ UNCHANGED <<library, current, choices, doubt, lib>>
      /\ identity' = ident[p] /\ pc' = [pc EXCEPT ![p] = "idle"]
      /\ result' = [result EXCEPT ![p] = "ok"]
    BY DEF Publish, Return, Goto
<1>4. /\ OneCall' /\ pc'[p] = "idle"
      /\ \A q \in Procs \ {p} : CallOnCurrent(q)'
    BY <1>1, <1>2, <1>3, OneMoves
<1>5. CallOnCurrent(p)'
    BY <1>4 DEF CallOnCurrent
<1>6. ImportedIsCurrent'
    BY <1>2, <1>3 DEF ImportedIsCurrent, Agrees
<1>7. OpenImported'
    BY <1>1, <1>2, <1>3 DEF SeqInv, OpenImported
<1>8. ChoicesKeyedByTitle'
    BY <1>3 DEF SeqInv, ChoicesKeyedByTitle
<1> QED
    BY <1>4, <1>5, <1>6, <1>7, <1>8 DEF SeqInv

LEMMA SeqStep ==
    ASSUME ~Overlap, CheatTyped, CheatTyped', SeqInv, [CheatNext]_cheatVars
    PROVE  SeqInv'
<1> USE CheatCatalogAssumption DEF Goto
<1>a. /\ pc \in [Procs -> Labels] /\ lib \in [Procs -> 0 .. opened]
      /\ result \in [Procs -> {"none", "ok", "failed"}]
      /\ Opener \in Procs /\ Opener \notin Requests
      /\ \A p \in Requests : p \in Procs
    BY DEF CheatTyped, CheatLocals, Procs
<1>b. /\ OneCall /\ \A p \in Procs : CallOnCurrent(p)
      /\ ImportedIsCurrent /\ OpenImported /\ ChoicesKeyedByTitle
    BY DEF SeqInv
<1>c. ASSUME NEW p \in Procs, Admitted(p)
      PROVE  /\ \A q \in Procs : pc[q] = "idle"
             /\ \A q \in Procs \ {p} : pc[q] = "idle"
    BY <1>c DEF Admitted
<1>1. ASSUME NEW t \in Titles, OpenPublishes(t) PROVE SeqInv'
  <2>1. /\ pc' = [pc EXCEPT ![Opener] = "ensure"]
        /\ \A q \in Procs \ {Opener} : pc[q] = "idle"
    BY <1>1, <1>a, <1>c DEF OpenPublishes
  <2>2. /\ OneCall' /\ pc'[Opener] = "ensure"
        /\ \A q \in Procs \ {Opener} : CallOnCurrent(q)'
    BY <1>a, <2>1, OneMoves
  <2>3. CallOnCurrent(Opener)'
    BY <1>1, <1>a, <2>2 DEF OpenPublishes, CallOnCurrent
  <2>4. ImportedIsCurrent'
    BY <1>1 DEF OpenPublishes, ImportedIsCurrent
  <2>5. OpenImported'
    BY <1>1, <1>a DEF OpenPublishes, OpenImported
  <2>6. ChoicesKeyedByTitle'
    BY <1>1, <1>b DEF OpenPublishes, ChoicesKeyedByTitle
  <2> QED
    BY <2>2, <2>3, <2>4, <2>5, <2>6 DEF SeqInv
<1>2. CASE CloseBackend
  <2>1. \A q \in Procs : pc'[q] = "idle"
    BY <1>2, <1>a, <1>c DEF CloseBackend, locals
  <2>2. OneCall' /\ \A q \in Procs : CallOnCurrent(q)'
    BY <2>1 DEF OneCall, CallOnCurrent
  <2>3. ImportedIsCurrent'
    BY <1>2 DEF CloseBackend, ImportedIsCurrent
  <2>4. OpenImported'
    BY <1>2, <1>b DEF CloseBackend, OpenImported, locals
  <2>5. ChoicesKeyedByTitle'
    BY <1>2, <1>b DEF CloseBackend, ChoicesKeyedByTitle
  <2> QED
    BY <2>2, <2>3, <2>4, <2>5 DEF SeqInv
<1>3. ASSUME NEW p \in Requests, NEW again \in BOOLEAN, BeginSnapshot(p, again)
      PROVE  SeqInv'
  <2>1. /\ pc' = [pc EXCEPT ![p] = "ensure"]
        /\ \A q \in Procs \ {p} : pc[q] = "idle" /\ pc[p] = "idle"
    BY <1>3, <1>a, <1>c DEF BeginSnapshot
  <2>2. /\ OneCall' /\ pc'[p] = "ensure"
        /\ \A q \in Procs \ {p} : CallOnCurrent(q)'
    BY <1>a, <2>1, OneMoves
  <2>3. CallOnCurrent(p)'
    BY <1>3, <1>a, <2>2 DEF BeginSnapshot, CallOnCurrent, backend
  <2>4. pc[p] = "idle" /\ UNCHANGED <<library, current, imported, identity, choices, doubt>>
    BY <1>3 DEF BeginSnapshot, backend, Admitted
  <2>5. ImportedIsCurrent'
    BY <1>a, <1>b, <2>1, <2>4, ImportedKept
  <2>6. OpenImported' /\ ChoicesKeyedByTitle'
    BY <1>3, <1>a, <1>b, <2>4 DEF BeginSnapshot, OpenImported, ChoicesKeyedByTitle
  <2> QED
    BY <2>2, <2>3, <2>5, <2>6 DEF SeqInv
<1>4. ASSUME NEW p \in Requests, NEW wanted \in SUBSET Cheats, BeginToggle(p, wanted)
      PROVE  SeqInv'
  <2>1. /\ pc' = [pc EXCEPT ![p] = "toggle"]
        /\ \A q \in Procs \ {p} : pc[q] = "idle"
    BY <1>4, <1>a, <1>c DEF BeginToggle
  <2>2. /\ OneCall' /\ pc'[p] = "toggle"
        /\ \A q \in Procs \ {p} : CallOnCurrent(q)'
    BY <1>a, <2>1, OneMoves
  <2>3. CallOnCurrent(p)'
    BY <1>4, <1>a, <2>2 DEF BeginToggle, CallOnCurrent, backend
  <2>4. pc[p] = "idle" /\ UNCHANGED <<library, current, imported, identity, choices, doubt>>
    BY <1>4 DEF BeginToggle, backend, Admitted
  <2>5. ImportedIsCurrent'
    BY <1>a, <1>b, <2>1, <2>4, ImportedKept
  <2>6. OpenImported' /\ ChoicesKeyedByTitle'
    BY <1>4, <1>a, <1>b, <2>4 DEF BeginToggle, OpenImported, ChoicesKeyedByTitle
  <2> QED
    BY <2>2, <2>3, <2>5, <2>6 DEF SeqInv
<1>5. ASSUME NEW p \in Requests, NEW d \in todo[p], SetEnabled(p, d) PROVE SeqInv'
    BY <1>5, SeqSetEnabled
<1>6. ASSUME NEW p \in Requests, ReadChoices(p) PROVE SeqInv'
    BY <1>6, SeqReadChoices
<1>7. ASSUME NEW p \in Requests, SaveChoices(p) PROVE SeqInv'
    BY <1>7, SeqSaveChoices
<1>8. ASSUME NEW p \in Requests, EndToggles(p) PROVE SeqInv'
  <2>1. /\ p \in Procs /\ pc[p] = "toggle" /\ p # Opener
        /\ \A q \in Procs \ {p} : pc[q] = "idle"
    BY <1>8, <1>a, <1>b, OneRuns DEF EndToggles
  <2>2. UNCHANGED <<library, current, imported, identity, choices, doubt>>
    BY <1>8 DEF EndToggles, backend
  <2>3. PICK label \in {"idle", "ensure"} : pc' = [pc EXCEPT ![p] = label]
    BY <1>8 DEF EndToggles, Return
  <2>4. /\ OneCall' /\ pc'[p] = label
        /\ \A q \in Procs \ {p} : CallOnCurrent(q)'
    BY <1>a, <2>1, <2>3, OneMoves
  <2>5. CallOnCurrent(p)'
    BY <1>8, <1>a, <2>2, <2>3, <2>4 DEF EndToggles, Return, CallOnCurrent
  <2>6. ImportedIsCurrent'
    BY <1>b, <2>1, <2>2, ImportedKept
  <2>7. OpenImported' /\ ChoicesKeyedByTitle'
    BY <1>8, <1>a, <1>b, <2>1, <2>2
    DEF EndToggles, Return, OpenImported, ChoicesKeyedByTitle
  <2> QED
    BY <2>4, <2>5, <2>6, <2>7 DEF SeqInv
<1>9. ASSUME NEW p \in Procs, ReadImported(p) PROVE SeqInv'
  <2>1. /\ pc[p] = "ensure" /\ lib[p] = current
        /\ \A q \in Procs \ {p} : pc[q] = "idle"
    BY <1>9, <1>b, OneRuns DEF ReadImported, CallOnCurrent
  <2>2. UNCHANGED <<library, current, imported, identity, choices, doubt>> /\ UNCHANGED lib
    BY <1>9 DEF ReadImported, backend, Return
  <2>3. PICK label \in {"idle", "identify"} : pc' = [pc EXCEPT ![p] = label]
    BY <1>9 DEF ReadImported, Return
  <2>4. /\ OneCall' /\ pc'[p] = label
        /\ \A q \in Procs \ {p} : CallOnCurrent(q)'
    BY <1>a, <2>1, <2>3, OneMoves
  <2>5. CallOnCurrent(p)'
    BY <2>1, <2>2, <2>3, <2>4 DEF CallOnCurrent
  <2>6. ImportedIsCurrent'
    BY <1>b, <2>1, <2>2, ImportedKept
  <2>7. OpenImported'
    <3>1. CASE imported /\ ~refresh[p]
      <4>1. lib[p] # 0 /\ library[lib[p]].catalog
        BY <1>b, <2>1, <3>1 DEF ImportedIsCurrent
      <4>2. result' = [result EXCEPT ![p] = "ok"]
        BY <1>9, <3>1 DEF ReadImported, Return
      <4> QED
        BY <1>a, <1>b, <2>2, <4>1, <4>2 DEF OpenImported
    <3>2. CASE ~(imported /\ ~refresh[p])
      BY <1>9, <1>b, <2>2, <3>2 DEF ReadImported, OpenImported
    <3> QED
      BY <3>1, <3>2
  <2>8. ChoicesKeyedByTitle'
    BY <1>b, <2>2 DEF ChoicesKeyedByTitle
  <2> QED
    BY <2>4, <2>5, <2>6, <2>7, <2>8 DEF SeqInv
<1>10. ASSUME NEW p \in Procs, ReadIdentities(p) PROVE SeqInv'
  <2>1. /\ pc[p] = "identify" /\ lib[p] = current
        /\ \A q \in Procs \ {p} : pc[q] = "idle"
    BY <1>10, <1>b, OneRuns DEF ReadIdentities, CallOnCurrent
  <2>2. UNCHANGED <<library, current, imported, identity, choices, doubt>> /\ UNCHANGED lib
    BY <1>10 DEF ReadIdentities, backend, Return
  <2>3. PICK label \in {"idle", "import"} :
           /\ pc' = [pc EXCEPT ![p] = label]
           /\ label = "import" => /\ ident' = [ident EXCEPT ![p] = library[current].title]
                                  /\ UNCHANGED result
           /\ label = "idle" => result' = [result EXCEPT ![p] = "failed"]
    BY <1>10 DEF ReadIdentities, Return
  <2>4. /\ OneCall' /\ pc'[p] = label
        /\ \A q \in Procs \ {p} : CallOnCurrent(q)'
    BY <1>a, <2>1, <2>3, OneMoves
  <2>5. CallOnCurrent(p)'
    <3>1. ident \in [Procs -> Titles \union {NoTitle}]
      BY DEF CheatTyped, CheatLocals
    <3> QED
      BY <2>1, <2>2, <2>3, <2>4, <3>1 DEF CallOnCurrent
  <2>6. ImportedIsCurrent'
    BY <1>b, <2>1, <2>2, ImportedKept
  <2>7. OpenImported' /\ ChoicesKeyedByTitle'
    BY <1>a, <1>b, <2>2, <2>3 DEF OpenImported, ChoicesKeyedByTitle
  <2> QED
    BY <2>4, <2>5, <2>6, <2>7 DEF SeqInv
<1>11. ASSUME NEW p \in Procs, LoadFails(p) PROVE SeqInv'
  <2>1. /\ pc[p] = "import"
        /\ \A q \in Procs \ {p} : pc[q] = "idle"
    BY <1>11, <1>b, OneRuns DEF LoadFails
  <2>2. /\ UNCHANGED <<library, current, imported, identity, choices, doubt>>
        /\ UNCHANGED lib /\ pc' = [pc EXCEPT ![p] = "idle"]
        /\ result' = [result EXCEPT ![p] = "failed"]
    BY <1>11 DEF LoadFails, backend, Return
  <2>3. /\ OneCall' /\ pc'[p] = "idle"
        /\ \A q \in Procs \ {p} : CallOnCurrent(q)'
    BY <1>a, <2>1, <2>2, OneMoves
  <2>4. CallOnCurrent(p)'
    BY <2>3 DEF CallOnCurrent
  <2>5. ImportedIsCurrent'
    BY <1>b, <2>1, <2>2, ImportedKept
  <2>6. OpenImported' /\ ChoicesKeyedByTitle'
    BY <1>a, <1>b, <2>2 DEF OpenImported, ChoicesKeyedByTitle
  <2> QED
    BY <2>3, <2>4, <2>5, <2>6 DEF SeqInv
<1>12. ASSUME NEW p \in Procs, Import(p) PROVE SeqInv'
    BY <1>12, SeqImport
<1>13. ASSUME NEW p \in Procs, Apply(p) PROVE SeqInv'
    BY <1>13, SeqApply
<1>14. ASSUME NEW p \in Procs, Publish(p) PROVE SeqInv'
    BY <1>14, SeqPublish
<1>15. CASE UNCHANGED cheatVars
  <2>1. UNCHANGED <<library, current, imported, identity, choices, doubt, pc, lib,
                    ident, doing, chosen, result>>
    BY <1>15 DEF cheatVars, backend, locals
  <2>2. OneCall' /\ \A p \in Procs : CallOnCurrent(p)'
    BY <1>b, <2>1 DEF OneCall, CallOnCurrent, Agrees
  <2>3. ImportedIsCurrent'
    BY <1>b, <2>1 DEF ImportedIsCurrent, Agrees, Switching, Toggled
  <2>4. OpenImported' /\ ChoicesKeyedByTitle'
    BY <1>b, <2>1 DEF OpenImported, ChoicesKeyedByTitle
  <2> QED
    BY <2>2, <2>3, <2>4 DEF SeqInv
<1> QED
    BY <1>1, <1>2, <1>3, <1>4, <1>5, <1>6, <1>7, <1>8, <1>9, <1>10, <1>11,
       <1>12, <1>13, <1>14, <1>15 DEF CheatNext

-----------------------------------------------------------------------------

\* The types of the cheat catalog's state hold however calls overlap, and a
\* catalog identity is known exactly while a catalog is imported.
THEOREM CheatTypeCorrect == CheatSpec => []CheatTypeOK
<1>1. CheatTyped /\ [CheatNext]_cheatVars => CheatTyped'
    BY CheatTypedStep
<1> QED
    BY <1>1, CheatTypedInit, CheatTypedTypes, PTL DEF CheatSpec

LEMMA SeqInvariant == ASSUME ~Overlap PROVE CheatSpec => [](CheatTyped /\ SeqInv)
<1>1. CheatTyped /\ SeqInv /\ [CheatNext]_cheatVars => (CheatTyped /\ SeqInv)'
    BY CheatTypedStep, SeqStep
<1> QED
    BY <1>1, CheatTypedInit, SeqInit, PTL DEF CheatSpec

\* A recorded choice outranks the catalog's default: for a shell that waits for
\* each call, between calls the cheats of the loaded title are what its
\* choices and the defaults say, but for those that could not be applied or
\* recorded.
THEOREM ChoicesAreKept == ASSUME ~Overlap PROVE CheatSpec => []Consistent
<1>1. CheatTyped /\ SeqInv => ChoicesOutrankDefaults
  <2> SUFFICES ASSUME SeqInv, imported, \A p \in Procs : pc[p] = "idle"
               PROVE  \A c \in Cheats \ doubt : Agrees(c)
    BY DEF ChoicesOutrankDefaults, Agrees
  <2> QED
    BY DEF SeqInv, ImportedIsCurrent, Switching
<1>2. CheatTyped /\ SeqInv => Consistent
    BY <1>1, CheatTypedTypes DEF Consistent
<1> QED
    BY <1>2, SeqInvariant, PTL

\* An Open that returns without an error has the catalog of its title imported
\* before it does, for a shell that waits for each call.
THEOREM OpensImport == ASSUME ~Overlap PROVE CheatSpec => []DefaultsBeforeOpenReturns
<1>1. SeqInv => DefaultsBeforeOpenReturns
    BY DEF SeqInv, OpenImported, DefaultsBeforeOpenReturns
<1> QED
    BY <1>1, SeqInvariant, PTL

\* Choices are recorded under the identity of the title they were made for,
\* for a shell that waits for each call.
THEOREM ChoicesStayWithTheirTitle ==
    ASSUME ~Overlap PROVE CheatSpec => []ChoicesKeyedByTitle
<1>1. SeqInv => ChoicesKeyedByTitle
    BY DEF SeqInv
<1> QED
    BY <1>1, SeqInvariant, PTL
=============================================================================
