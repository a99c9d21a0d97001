---------------------------- MODULE LibretroInput ----------------------------
(***************************************************************************)
(* The libretro core with its keys: the two layers libretro/input.go maps  *)
(* a RetroPad to, and how libretro.Core keeps the machine's keys equal to  *)
(* what the pad holds although any key event may be rejected half way.     *)
(* Each call is the one of LibretroCore with what it does to the keys.     *)
(*                                                                         *)
(* aram-core's machine is external: it takes a key event or rejects it,    *)
(* and neither a reset nor a state presses keys.                           *)
(***************************************************************************)
EXTENDS LibretroCore, Sequences

CONSTANTS
    Pads        \* sets of buttons the player may hold

VARIABLES
    keys,       \* keys the machine holds down
    controls,   \* core.controls
    pad         \* the buttons of the retro_run that has just returned

keyVars == <<keys, controls, pad>>
playVars == <<vars, keyVars>>

Plain ==
    [Up |-> "up", Down |-> "down", Left |-> "left", Right |-> "right",
     A |-> "ok", B |-> "back", X |-> "soft-left", Y |-> "soft-right",
     Start |-> "menu", L |-> "star", R |-> "hash", L2 |-> "send", R2 |-> "end"]

Numeric ==
    [Up |-> "num2", Down |-> "num8", Left |-> "num4", Right |-> "num6",
     A |-> "num5", B |-> "num0", X |-> "num1", Y |-> "num3",
     L |-> "num7", R |-> "num9", L2 |-> "star", R2 |-> "hash"]

\* The order in which queueControls compares the controls.
HandsetControls ==
    <<"up", "down", "left", "right", "ok", "back", "soft-left", "soft-right",
      "menu", "send", "end", "star", "hash", "num0", "num1", "num2", "num3",
      "num4", "num5", "num6", "num7", "num8", "num9">>

Buttons == DOMAIN Plain \union {"Select"}
Controls == {HandsetControls[i] : i \in DOMAIN HandsetControls}

ASSUME PadsAssumption == Pads \subseteq SUBSET Buttons

\* Faulty: the layer switch is passed on to the machine.
MappedStray(p) ==
    (p \cap {"Select"}) \union {Plain[b] : b \in p \cap DOMAIN Plain}

\* mappedControls: holding Select switches to the numeric layer.
Mapped(p) ==
    IF "Select" \in p THEN {Numeric[b] : b \in p \cap DOMAIN Numeric}
                      ELSE {Plain[b] : b \in p \cap DOMAIN Plain}

PlayInit ==
    /\ Init
    /\ keys = {}
    /\ controls = {}
    /\ pad = {}

-----------------------------------------------------------------------------
(* Pieces of libretro.Core. *)

Changed(next) == (controls \ next) \union (next \ controls)

\* The changes queueControls makes before it comes to number i.
Earlier(next, i) == Changed(next) \cap {HandsetControls[j] : j \in 1 .. (i - 1)}

\* What set holds after the events of changes: each presses or releases.
After(set, next, changes) == (set \ (changes \ next)) \union (changes \cap next)

\* Faulty: only the record of the keys is brought up to date.
QueuedQuietly(next) ==
    /\ keys' = After(keys, next, Changed(next) \cap next)
    /\ controls' = next

\* queueControls: an event for each control that differs.
Queued(next) ==
    /\ keys' = After(keys, next, Changed(next))
    /\ controls' = After(controls, next, Changed(next))

\* Faulty: a control is recorded before the machine has taken its event.
RecordedFirst(next) ==
    \E i \in DOMAIN HandsetControls :
        /\ HandsetControls[i] \in Changed(next)
        /\ keys' = After(keys, next, Earlier(next, i))
        /\ controls' = After(controls, next, Earlier(next, i + 1))

\* The machine rejects the event of control i; those before it were taken.
QueueFails(next) ==
    \E i \in DOMAIN HandsetControls :
        /\ HandsetControls[i] \in Changed(next)
        /\ keys' = After(keys, next, Earlier(next, i))
        /\ controls' = After(controls, next, Earlier(next, i))

\* A machine that is closed takes its keys along, and a new one has none.
Dropped == keys' = {} /\ controls' = {} /\ pad' = {}

\* releaseControls, with or without an error.
Released ==
    /\ Queued({}) \/ QueueFails({})
    /\ pad' = {}

-----------------------------------------------------------------------------
(* The calls of the front end. *)

PlayDeinit == RetroDeinit /\ Dropped

\* Core.Unload goes on after a rejected release, and keeps the machine only if
\* the save could not be written.
PlayCannotReplace == LoadCannotReplace /\ Released

PlayLoadFails == LoadFails /\ Dropped

PlayLoad == (\E g \in Games : LoadGame(g)) /\ Dropped

PlayUnload ==
    /\ RetroUnloadGame
    /\ IF machine' = NoMachine THEN Dropped ELSE Released

\* Nothing runs if the machine rejects an event.
PlayRefused(p) ==
    /\ RunRefused
    /\ QueueFails(Mapped(p))
    /\ pad' = p

\* The frame may still fail once its keys are down.
PlayRun(p) ==
    /\ RunFails \/ Run
    /\ Queued(Mapped(p))
    /\ pad' = p

\* Faulty: the machine is reset with the keys still down.
ResetHolding ==
    /\ RetroReset
    /\ pad' = {}
    /\ UNCHANGED <<keys, controls>>

PlayReset ==
    /\ RetroReset
    /\ \/ Queued({})
       \/ QueueFails({}) /\ machine' = machine /\ reply' = "failed"
    /\ pad' = {}

\* A state that is not for this content is rejected before keys are released.
PlayUnserialize ==
    /\ RetroUnserialize
    /\ \/ Queued({})
       \/ QueueFails({}) /\ reply' = "failed"
       \/ reply' = "failed" /\ UNCHANGED <<keys, controls>>
    /\ pad' = {}

\* The calls that press and release nothing.
PlayOther ==
    /\ RetroInit \/ LoadRefused \/ RetroSerialize
    /\ pad' = {}
    /\ UNCHANGED <<keys, controls>>

PlayKill == Kill /\ Dropped

PlayNext ==
    \/ PlayDeinit
    \/ PlayCannotReplace
    \/ PlayLoadFails
    \/ PlayLoad
    \/ PlayUnload
    \/ \E p \in Pads : PlayRefused(p) \/ PlayRun(p)
    \/ PlayReset
    \/ PlayUnserialize
    \/ PlayOther
    \/ PlayKill

PlaySpec == PlayInit /\ [][PlayNext]_playVars

-----------------------------------------------------------------------------

\* Types of the variables that LibretroCore has not.
KeysTypeOK ==
    /\ keys \in SUBSET Controls
    /\ controls \in SUBSET Controls
    /\ pad \in SUBSET Buttons

\* Whatever was rejected, and whichever session an unload left behind, the core
\* knows which keys are down: it never presses a pressed key, nor leaves one
\* down that it takes for released.
KeysAreKnown == controls = keys

\* A frame runs with the keys of the pad, all of them and no others, however
\* many earlier frames, resets and unloads failed half way.
\* A new game, a reset and a loaded state start with no key down.
PadIsHeld ==
    /\ reply = "run" => keys = Mapped(pad)
    /\ reply \in {"load", "reset", "unserialize"} => keys = {}
=============================================================================
