---------------------------- MODULE HostBackend ----------------------------
(***************************************************************************)
(* The host router, hostbackend/backend.go: one backend for application    *)
(* titles and whole phones.  It closes the outgoing adapter, makes the     *)
(* other active, replays the settings it remembers and opens the input     *)
(* there.  The adapters are seen through what AppBackend and SystemMedia   *)
(* show of them: an input that cannot be saved stays, and one that is      *)
(* closed has been saved.                                                  *)
(***************************************************************************)
EXTENDS Naturals, FiniteSets

CONSTANTS
    Inputs,     \* files and firmware directories
    Firmware,   \* those of them that are opened as firmware
    Kinds,      \* "audio", "font", "cpu", "display"
    Values,     \* what a setting can be
    Rejects,    \* <<adapter, kind, value>>: an adapter refuses this value
    NoInput,
    Unset       \* nothing configured: a nil pointer, an adapter's default

VARIABLES
    active,     \* the adapter calls go to
    input,      \* the input each adapter holds
    unsaved,    \* what its guest wrote is not on disk
    remembered, \* the router's settings
    applied,    \* the settings of each adapter
    reply       \* what the call returned

routerVars == <<active, input, unsaved, remembered, applied, reply>>
inputs == <<input, unsaved>>
settings == <<remembered, applied>>

Adapters == {"application", "system"}
AdapterFor(i) == IF i \in Firmware THEN "system" ELSE "application"
Other(a) == IF a = "system" THEN "application" ELSE "system"

\* The optional interfaces each adapter implements.
Configurable(a) == IF a = "application" THEN Kinds ELSE Kinds \cap {"audio", "cpu"}
Accepts(a, k, v) == k \in Configurable(a) /\ <<a, k, v>> \notin Rejects

ASSUME HostBackendAssumption ==
    /\ Firmware \subseteq Inputs
    /\ Kinds \subseteq {"audio", "font", "cpu", "display"}
    /\ NoInput \notin Inputs
    /\ Unset \notin Values

RouterInit ==
    /\ active = "application"
    /\ input = [a \in Adapters |-> NoInput]
    /\ unsaved = [a \in Adapters |-> FALSE]
    /\ remembered = [k \in Kinds |-> Unset]
    /\ applied = [a \in Adapters |-> [k \in Kinds |-> Unset]]
    /\ reply = "none"

-----------------------------------------------------------------------------
(* The adapters. *)

NoInputs == [a \in Adapters |-> NoInput]

Holding(a, i) ==
    /\ input' = [input EXCEPT ![a] = i]
    /\ unsaved' = [unsaved EXCEPT ![a] = FALSE]

\* An adapter that cannot save its input keeps it.
KeepsUnsaved(a) == unsaved[a] /\ UNCHANGED inputs

\* Open of an adapter: a bad input leaves the one it holds, a bad save or a
\* failed restore comes after the old one has been saved and closed.
AdapterOpens(a, i) ==
    \/ Holding(a, i) /\ reply' = "opened"
    \/ Holding(a, NoInput) /\ reply' = "failed"
    \/ KeepsUnsaved(a) /\ reply' = "failed"
    \/ UNCHANGED inputs /\ reply' = "failed"

\* Faulty: the settings are replayed to the adapter that is left.
ReplaysToOld(a) == UNCHANGED applied

\* applyRememberedSettings to adapter a: what it refuses, it ignores.
Replays(a) ==
    applied' = [applied EXCEPT ![a] = [k \in Kinds |->
        IF remembered[k] # Unset /\ Accepts(a, k, remembered[k])
          THEN remembered[k] ELSE applied[a][k]]]

-----------------------------------------------------------------------------
(* The calls of the shell, one at a time. *)

\* Faulty: the adapter in charge opens whatever is asked for.
OpenActive(i) ==
    /\ AdapterOpens(active, i)
    /\ UNCHANGED <<active, settings>>

OpenSame(i) ==
    /\ AdapterFor(i) = active
    /\ AdapterOpens(active, i)
    /\ UNCHANGED <<active, settings>>

\* Faulty: an error of the outgoing adapter's Close is ignored.
OpenOtherAnyway(i) ==
    /\ AdapterFor(i) # active
    /\ KeepsUnsaved(active)
    /\ active' = Other(active)
    /\ Replays(Other(active))
    /\ reply' = "failed"
    /\ UNCHANGED remembered

\* The outgoing adapter cannot save, or reports an error after it has closed.
OpenCannotClose(i) ==
    /\ AdapterFor(i) # active
    /\ KeepsUnsaved(active) \/ (input[active] # NoInput /\ Holding(active, NoInput))
    /\ reply' = "failed"
    /\ UNCHANGED <<active, settings>>

\* The outgoing input is closed before the new one is looked at.
OpenOther(i) ==
    LET next == AdapterFor(i)
    IN  /\ next # active
        /\ active' = next
        /\ Replays(next)
        /\ \/ reply' = "opened" /\ input' = [NoInputs EXCEPT ![next] = i]
           \/ reply' = "failed" /\ input' = NoInputs
        /\ unsaved' = [a \in Adapters |-> FALSE]
        /\ UNCHANGED remembered

\* Stop commits what the guest wrote, RunFrame lets it write.
Play ==
    /\ input[active] # NoInput
    /\ unsaved' \in {[unsaved EXCEPT ![active] = TRUE],
                     [unsaved EXCEPT ![active] = FALSE]}
    /\ reply' = "played"
    /\ UNCHANGED <<active, input, settings>>

\* The active adapter stays the active one.
CloseActive ==
    /\ \/ Holding(active, NoInput) /\ reply' \in {"closed", "failed"}
       \/ KeepsUnsaved(active) /\ reply' = "failed"
    /\ UNCHANGED <<active, settings>>

\* ConfigureAudio, Font, CPU, Display: a choice is remembered even if the
\* active adapter has no use for it, or rejects it.
Configure(k, v) ==
    /\ remembered' = [remembered EXCEPT ![k] = v]
    /\ applied' = IF Accepts(active, k, v)
                    THEN [applied EXCEPT ![active][k] = v] ELSE applied
    /\ reply' = IF k \in Configurable(active) /\ ~Accepts(active, k, v)
                  THEN "failed" ELSE "configured"
    /\ UNCHANGED <<active, inputs>>

RouterNext ==
    \/ \E i \in Inputs : OpenSame(i) \/ OpenCannotClose(i) \/ OpenOther(i)
    \/ Play
    \/ CloseActive
    \/ \E k \in Kinds, v \in Values : Configure(k, v)

RouterSpec == RouterInit /\ [][RouterNext]_routerVars

-----------------------------------------------------------------------------

\* Types of the variables; an adapter holds inputs of its own kind.
RouterTypeOK ==
    /\ active \in Adapters
    /\ input \in [Adapters -> Inputs \union {NoInput}]
    /\ \A a \in Adapters : input[a] # NoInput => AdapterFor(input[a]) = a
    /\ unsaved \in [Adapters -> BOOLEAN]
    /\ \A a \in Adapters : unsaved[a] => input[a] # NoInput
    /\ remembered \in [Kinds -> Values \union {Unset}]
    /\ applied \in [Adapters -> [Kinds -> Values \union {Unset}]]
    /\ reply \in {"none", "opened", "closed", "failed", "played", "configured"}

\* Only the active adapter ever holds an input: no title keeps running, holds
\* its files or waits for its save behind a phone, or the other way round,
\* whatever Close and Open reported on the way.
OneInput == input[Other(active)] = NoInput

\* The types, and where inputs are held.
RouterConsistent == RouterTypeOK /\ OneInput

\* hostbackend/backend.go:46-49: a choice made before a switch, between
\* switches or while the other adapter was active is in force in the active
\* one; only what it refuses is not.
SettingsFollow ==
    \A k \in Kinds :
        remembered[k] # Unset /\ Accepts(active, k, remembered[k])
            => applied[active][k] = remembered[k]
=============================================================================
