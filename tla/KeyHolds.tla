------------------------------ MODULE KeyHolds ------------------------------
(***************************************************************************)
(* systemintegration.Backend's keypad: QueueInput, flushInputReleases and  *)
(* resetInputState.  Several host controls may press one guest key, and a  *)
(* key stays down for a minimum number of guest instructions, so that the  *)
(* guest's slow keypad scan cannot miss a click.  Every operation holds    *)
(* operationMu.                                                            *)
(*                                                                         *)
(* A hold's releaseAfter is kept as the instructions left until it, which  *)
(* bounds the model without bounding the instruction count.  The system    *)
(* machine is external: PowerCycle and a new machine have all keys up.     *)
(***************************************************************************)
EXTENDS Naturals, FiniteSets

CONSTANTS
    Sources,     \* host controls, e.g. menu and soft-left
    Keys,        \* guest controls of the loaded machine
    KeyOf,       \* QueueInput's mapping from host to guest controls
    MinimumHold, \* Options.MinimumInputInstructions
    FrameBudget  \* Options.InstructionsPerFrame

ASSUME KeyHoldsAssumption ==
    /\ IsFiniteSet(Sources)
    /\ KeyOf \in [Sources -> Keys]
    /\ MinimumHold \in Nat
    /\ FrameBudget \in Nat \ {0}

VARIABLES
    state,   \* frontend.BackendState
    down,    \* guest keys that are pressed in the machine
    pressed, \* inputSources: host controls that are pressed
    sources, \* inputHolds[key].sources, 0 without an entry
    left,    \* instructions until inputHolds[key].releaseAfter
    pending, \* keys whose inputHolds[key].releasePending is set
    since,   \* history: instructions since the last press, up to MinimumHold
    jammed   \* history: keys whose release has failed in QueueInput

holds == <<sources, left, pending>>
vars == <<state, down, pressed, holds, since, jammed>>

States == {"empty", "ready", "running", "paused", "stopped", "faulted"}

AllUp ==
    /\ down' = {}
    /\ pressed' = {}
    /\ sources' = [k \in Keys |-> 0]
    /\ left' = [k \in Keys |-> 0]
    /\ pending' = {}
    /\ since' = [k \in Keys |-> MinimumHold]
    /\ jammed' = {}

Init ==
    /\ state = "empty"
    /\ down = {}
    /\ pressed = {}
    /\ sources = [k \in Keys |-> 0]
    /\ left = [k \in Keys |-> 0]
    /\ pending = {}
    /\ since = [k \in Keys |-> MinimumHold]
    /\ jammed = {}

-----------------------------------------------------------------------------
(* QueueInput. *)

\* Faulty: each press adds another minimum hold to the one in progress.
PressAddsUp(s) ==
    LET k == KeyOf[s] IN
    /\ state # "empty"
    /\ s \notin pressed
    /\ down' = down \union {k}
    /\ pressed' = pressed \union {s}
    /\ sources' = [sources EXCEPT ![k] = @ + 1]
    /\ left' = [left EXCEPT ![k] = @ + MinimumHold]
    /\ pending' = pending \ {k}
    /\ since' = [since EXCEPT ![k] = 0]
    /\ UNCHANGED <<state, jammed>>

\* A further source of a key that is down only extends the hold.  A press that
\* SetKey refuses changes nothing, like one of a source that is down already.
Press(s) ==
    LET k == KeyOf[s] IN
    /\ state # "empty"
    /\ s \notin pressed
    /\ down' = IF sources[k] = 0 THEN down \union {k} ELSE down
    /\ pressed' = pressed \union {s}
    /\ sources' = [sources EXCEPT ![k] = @ + 1]
    /\ left' = [left EXCEPT ![k] = MinimumHold]
    /\ pending' = pending \ {k}
    /\ since' = [since EXCEPT ![k] = 0]
    /\ UNCHANGED <<state, jammed>>

\* The hold of k is gone, so the next press begins a new one.
Forget(k) ==
    /\ sources' = [sources EXCEPT ![k] = 0]
    /\ left' = [left EXCEPT ![k] = 0]
    /\ pending' = pending \ {k}

\* Faulty: a click shorter than the guest's keypad scan is let go at once.
ReleaseAtOnce(s) ==
    LET k == KeyOf[s] IN
    /\ s \in pressed
    /\ pressed' = pressed \ {s}
    /\ \/ /\ sources[k] > 1
          /\ sources' = [sources EXCEPT ![k] = @ - 1]
          /\ UNCHANGED <<down, left, pending, jammed>>
       \/ /\ sources[k] <= 1
          /\ down' = down \ {k}
          /\ Forget(k)
          /\ UNCHANGED jammed
    /\ UNCHANGED <<state, since>>

\* Faulty: the first of several sources to let go releases the key.
ReleaseIgnoresOthers(s) ==
    LET k == KeyOf[s] IN
    /\ s \in pressed
    /\ pressed' = pressed \ {s}
    /\ IF left[k] > 0
         THEN pending' = pending \union {k} /\ UNCHANGED <<down, sources, left>>
         ELSE down' = down \ {k} /\ Forget(k)
    /\ UNCHANGED <<state, since, jammed>>

\* The last source to let go releases the key, or leaves that to a frame that
\* ends after the minimum.  If SetKey fails, the source is forgotten but the
\* hold still counts it.
Release(s) ==
    LET k == KeyOf[s] IN
    /\ s \in pressed
    /\ pressed' = pressed \ {s}
    /\ \/ /\ sources[k] > 1
          /\ sources' = [sources EXCEPT ![k] = @ - 1]
          /\ UNCHANGED <<down, left, pending, jammed>>
       \/ /\ sources[k] <= 1
          /\ left[k] > 0
          /\ sources' = [sources EXCEPT ![k] = 0]
          /\ pending' = pending \union {k}
          /\ UNCHANGED <<down, left, jammed>>
       \/ /\ sources[k] <= 1
          /\ left[k] = 0
          /\ \/ /\ down' = down \ {k}
                /\ Forget(k)
                /\ UNCHANGED jammed
             \/ /\ jammed' = jammed \union {k}
                /\ UNCHANGED <<down, holds>>
    /\ UNCHANGED <<state, since>>

-----------------------------------------------------------------------------
(* runMachineFrame: machine.Run, then flushInputReleases. *)

Least(a, b) == IF a <= b THEN a ELSE b

\* The machine executes n instructions.
Execute(n) ==
    /\ left' = [k \in Keys |-> IF left[k] <= n THEN 0 ELSE left[k] - n]
    /\ since' = [k \in Keys |-> Least(since[k] + n, MinimumHold)]

\* Faulty: a release that is due is taken off the list but never sent.
FlushDrops(released) ==
    /\ UNCHANGED <<down, sources>>
    /\ pending' = pending \ released

\* These keys are let go and their holds deleted.
Flush(released) ==
    /\ down' = down \ released
    /\ pending' = pending \ released
    /\ sources' = [k \in Keys |-> IF k \in released THEN 0 ELSE sources[k]]

\* Faulty: a release waits for a source that will never let go again.
DueInverted(n) == {k \in pending : sources[k] # 0 /\ left[k] <= n}

\* Releases that are due once n instructions have run.
Due(n) == {k \in pending : sources[k] = 0 /\ left[k] <= n}

\* The machine fails before anything is flushed, a release fails after some
\* have gone out, or all that are due go out and the run ends in one of these
\* states.  Only a run that ends on its budget leaves the state as it is.
RunMachine ==
    \E n \in 0 .. FrameBudget :
        /\ Execute(n)
        /\ \/ state' = "faulted" /\ UNCHANGED <<down, sources, pending>>
           \/ \E released \in SUBSET Due(n) :
                /\ released # Due(n)
                /\ Flush(released)
                /\ state' = "faulted"
           \/ /\ Flush(Due(n))
              /\ \/ n = FrameBudget /\ UNCHANGED state
                 \/ state' \in {"paused", "stopped", "faulted"}
        /\ UNCHANGED <<pressed, jammed>>

RunFrame == state = "running" /\ RunMachine

Frame == state \in {"ready", "paused"} /\ RunMachine

-----------------------------------------------------------------------------
(* The other operations, as far as they concern the keypad. *)

\* Open publishes a new machine; Close drops the current one.
Open ==
    /\ state' = "ready"
    /\ AllUp

Close ==
    /\ state # "empty"
    /\ state' = "empty"
    /\ AllUp

\* Start, pause, resume and stop leave the keypad alone, also when they fail.
Switch ==
    /\ \/ state \in {"ready", "paused", "stopped"} /\ state' = "running"
       \/ state = "running" /\ state' = "paused"
       \/ state \in {"running", "paused"} /\ state' \in {"stopped", "faulted"}
    /\ UNCHANGED <<down, pressed, holds, since, jammed>>

Reset ==
    /\ state \notin {"empty", "faulted"}
    /\ \/ state' = "ready" /\ AllUp
       \/ state' = "faulted" /\ UNCHANGED <<down, pressed, holds, since, jammed>>

Next ==
    \/ \E s \in Sources : Press(s) \/ Release(s)
    \/ RunFrame
    \/ Frame
    \/ Open
    \/ Close
    \/ Switch
    \/ Reset

Spec == Init /\ [][Next]_vars

\* The shell goes on calling RunFrame for as long as the phone is running.
FairSpec == Spec /\ WF_vars(RunFrame)

-----------------------------------------------------------------------------

\* Types of the variables; a hold never lasts longer than the minimum.
TypeOK ==
    /\ state \in States
    /\ down \subseteq Keys
    /\ pressed \subseteq Sources
    /\ sources \in [Keys -> Nat]
    /\ left \in [Keys -> 0 .. MinimumHold]
    /\ pending \subseteq Keys
    /\ since \in [Keys -> 0 .. MinimumHold]
    /\ jammed \subseteq Keys
    /\ state = "empty" => down = {} /\ pressed = {}

\* However presses, releases and frames interleave, the guest sees a key down
\* for as long as any host control that maps to it is down.
HeldKeysAreDown == \A s \in pressed : KeyOf[s] \in down

\* A key is down only while a host control holds it or its release is pending;
\* only a release that SetKey itself refused can leave it stuck.
NoStuckKeys ==
    \A k \in down \ jammed :
        k \in pending \/ \E s \in pressed : KeyOf[s] = k

\* "MinimumInputInstructions prevents a normal host click from disappearing
\* between the much slower guest keypad scans" (backend.go:57): apart from a
\* reset, a key goes up no earlier than that after its last press.
ClicksAreSeen ==
    [][\A k \in down \ down' : since'[k] >= MinimumHold]_vars

\* A pending release reaches the guest, unless the key is pressed again or the
\* phone stops running.
PendingIsReleased ==
    \A k \in Keys :
        k \in pending ~> \/ k \notin down
                         \/ \E s \in pressed : KeyOf[s] = k
                         \/ state # "running"
=============================================================================
