# Verification of ARAM

TLA+ models of the host side of ARAM (`mirusu400/aram-emu`), TLC configurations
that check them on small instances, and TLAPS proofs of the properties that
matter most for every value of the constants. The guest cores (`aram-core`), the
shell (`aram-frontend`) and the cheat engine are other repositories; they appear
only as what the code here assumes of them.

    tlc -workers 4 -config AppBackend.cfg MCAppBackend.tla    # one run
    tlapm AppBackendProofs.tla                                # one proof module

`PROJECT.json` lists the runs, the mutants that show each property can fail, the
source lines each definition models, the findings, the hazards and the theorems.

## 1. Inventory

Paths are relative to the repository. "OM" is a backend's `operationMu`, held from
entry to return of the operations that say so; "mu" its state lock, held for single
reads and writes.

| component | state | operations | hard because | right when |
|---|---|---|---|---|
| **Save files** `internal/savefile` | a path, its `.bak`, `.bak-preserved-*`, a temporary file | Recover, Open/ReadFile, Replace | three to five file-system calls, any of which fails or is the last before a crash; no lock of its own | no content that was not superseded is lost; callers see one atomic register |
| **Application backend** `integration/backend.go`, `savedata*.go` | machine, run intent, input identity, `savedata.bin` and `slot-N.aramstate` of each title | Open, Close, start/pause/stop/reset/frame, RunFrame, save and load state, flush, export, import (all under OM) | each has half a dozen error returns in the middle; the guest may end in any of them; the process may be killed | saves stay with their title, never go back silently, are on disk before a title is replaced; the run intent matches the machine |
| **Memory tool** `integration/memory.go` | session number, selection, last scan | snapshot, scan, select, write | the panel is drawn from an earlier snapshot; the machine may have been replaced or reloaded since | a write never goes through a selection of other memory |
| **Frame publication** `integration/frame_change.go`, `VideoFrame` | frame sequence, comparison baseline | VideoFrame, lock-free against OM | reads the machine, then takes mu; an Open resets the sequence in between | the shell ends up with the last picture, and gets a new number only for a redraw |
| **Cheat catalog** `integration/cheats.go` | library, imported flag, identity, `choices/<identity>.json` | import at Open, Cheat Manager snapshot, refresh, toggle | the Cheat Manager does not take OM and waits up to 20 s for the network | defaults applied before Open returns, choices kept under the right title and above the defaults |
| **System backend** `systemintegration/backend.go` | phone machine, media flags, `.arammedia` of each firmware, key holds | as the application backend, plus QueueInput | media that cannot be read must survive; storage may come back late; clicks are shorter than a keypad scan | media not descended from are never overwritten, unsaved sessions are warned of, keys follow the host controls |
| **Product updates** `internal/bootstrap`, `cmd/aram/main.go` | `versions/<digest>` directories, `current.json` | ForwardToInstalled, PruneRuntimes, Install, Launch | several processes share a directory without a lock and may end anywhere | the selected and the running runtimes stay complete; forwarding ends |
| **Host router** `hostbackend` | active adapter, remembered settings | Open (selects and closes the other adapter), Close, settings, pass-through | Close of the outgoing adapter may fail half way; settings are made while the other adapter is active | only the active adapter holds an input; every remembered setting is in force in it |
| **Libretro core** `libretro`, `cmd/aram-libretro/main.go` | machine, game identity, held controls, save path | load, run, serialize, reset, unload, deinitialize | an unload that cannot save keeps its machine although the front end is not told; any key event may be rejected; the front end may be killed | the front end runs what it loaded, with the keys of the pad; saves stay with their game and do not go back |
| **Libretro host** `cmd/aram-libretro/libretro.c` | buffers and capacities, last size, negotiated abilities, in static variables | the retro_ functions and the callbacks they make | statics outlive a front end; an allocation or a frame fails in the middle; geometry changes with any frame | pictures have the announced size, one per frame; sound once and in order |
| **Libretro smoke test** `cmd/aram-libretro/testhost/smoke.c` | counters, exit code | one fixed sequence of calls | a failed frame may look like a picture | a core that passes has shown pictures |
| **Remote input** `internal/remoteinput` | downloads directory, per-digest locks | Resolve, Download | network, crash and a second process between check and rename | a returned path holds what its digest names |
| **Android host** `mobile`, `android/` | pending import, held controls, intents consumed | activity callbacks, import thread | the system kills and recreates the activity at any time, also while a document is being imported | an import is neither lost nor opened twice, no control stays held |
| **Save command line** `cmd/aram/savecli.go` | none | export, import | a second process on the GUI's saves | as the save files |

Interaction: the shell calls the host router, which passes every call to its active
adapter (the application or the system backend); both keep their files through
`internal/savefile`, as do the libretro core and the save command line. The
application backend owns the cheat catalog and the memory tool and calls into the core.
`cmd/aram` decides in `main` which installed copy runs at all.

Not modelled at all, because there is no state or protocol in it: diagnostics and
debugger views, haptics, icons, probes and benchmarks, the web page, the carrier
answers, packaging scripts. The web build is single-threaded and keeps a save in one
`localStorage` call.

## 2. Modules

| module | models | composed with |
|---|---|---|
| `AtomicSave` | what a save file promises: one atomic register | |
| `SaveFile` | `internal/savefile`, one file-system call per step | refines `AtomicSave` through `Register == INSTANCE AtomicSave WITH ...` |
| `AppBackend` | `integration.Backend` and the memory tool, one operation per action | refines `SaveSession`; its `disk` is an `AtomicSave` register per title |
| `CheatCatalog` | the unlocked steps of the cheat catalog beside Open and Close | |
| `SystemMedia` | life cycle and media of `systemintegration.Backend` | its `disk` is an `AtomicSave` register per firmware |
| `KeyHolds` | QueueInput, flushInputReleases and resetInputState | |
| `Bootstrap` | product updates between processes | |
| `SaveSession` | what a host of one title at a time promises about saves | |
| `LibretroCore` | `libretro.Core` and its bridge: sessions, saves, states | refines `SaveSession` through `Session == INSTANCE SaveSession WITH ...`; its `disk` is an `AtomicSave` register per game |
| `LibretroInput` | the same calls with the keys they press and release | extends `LibretroCore`; each action is one of its actions and what that does to the keys |
| `LibretroHost` | the C half of the libretro core, over several front ends | sees the core through its results |
| `LibretroSmoke` | the smoke test's `main` | its calls are steps of `LibretroHost`; beside it, any front ends |
| `RemoteInput` | a download into the package library, step by step | |
| `HostBackend` | the host router | sees `AppBackend` and `SystemMedia` as adapters that save or keep their input |
| `FramePublish` | VideoFrame beside Open, Close and the guest | |
| `MC...` | symmetry sets and the one non-trivial constant, for TLC | |
| `...Proofs` | inductive invariants and theorems; `PlayerProofs`, `ShellProofs`, `LibretroCoreProofs` and `LibretroHostProofs` each take in several modules | |

**SaveFile.** `target` and `bak` are directory entries, `archives` the contents of the
preserved backups. A caller's `pc` names its next file-system call; every such call can
fail (`Fails`, `InstallFails`) and the process can die before it (`Crash`). `owed` is
history: what was on disk and no install has superseded. Temporary files have unique
names and are represented by the content their writer carries.

**AppBackend.** `machine` is `[title, state, storage]`. OM makes each operation one
action; its disjuncts are the points where the core or the disk ends it with an error, in
the order of the code, so a kill inside an operation leaves nothing a disjunct does not.
Contents are `<<title, n>>`: whose guest wrote it, and how recent it is. `panel` is the
session the memory panel was drawn with, `fresh` whether memory has been replaced since
the selection. `rolled` records that the user asked for older progress (loading a state,
importing a backup), which is the only excuse for going back. A trap that ends the guest,
a core that refuses to reset, an export that fails are all outcomes of the external
machine.

**CheatCatalog.** A call holds `pc` and its locals (the library pointer, the identity it
has resolved, the choices it has read), because the code reads them under mu, lets go,
waits, and writes under mu again. `Opener` is the import inside Open.

**SystemMedia.** `restoreFailed`, `restorePending` and `warning` are the three flags of
the backend; `disk` holds for each firmware a content, no file, an unreadable file or
something that is not a file. `based` is history: the content the session descends from.

**KeyHolds.** `sources`, `left` and `pending` are the fields of `inputHold`, with
`releaseAfter` kept relative to the present position so that time needs no bound;
`pressed` is `inputSources`; `since` and `jammed` are history: the time since the last
press, and keys whose release `SetKey` refused.

**Bootstrap.** `versions` says how much of each runtime directory is there, `marker` is
`current.json`. A copy's `pc` names its next look at or change of the shared directory:
`forward`, `decide` (ForwardToInstalled), `list`, `protect`, `discard` (PruneRuntimes),
`gui`, then `check` ... `launch` (Install, writeCurrentRuntime, Launch). A copy that
forwards gives its slot to the copy it launches, as `main` returns.

**LibretroCore.** `machine`, `started` and `directory` are the fields of `Core`; `game` is
what the front end believes is loaded, which a failed unload makes differ from `machine`.
Each `retro_` function is one action or one per outcome: `LoadCannotReplace` (the session
left behind cannot be saved), `LoadFails` (it is closed, but nothing replaces it), `LoadGame`.
`Kill` is the end of the front end at any time. As in `AppBackend`, a content names its
game and its age. To `SaveSession` a step is: `Play` (run, reset, state), `Switch`
(load), `Close` or `Abandon` (kill, or a deinitialization that gives up).

**LibretroInput.** `keys` is what the machine holds down, `controls` the core's record of
it. `QueueFails` stops at any of the events, in the order of `handsetControls`, since the
machine may reject each. `PlayRun(p)` is `Run` after the events for the pad `p`.

**LibretroHost.** The variables are the statics of `libretro.c` and `bridge.last`. An area is
`[buffer, capacity]`, so that freeing one and forgetting the other is visible. The
allocator's answers are parameters of `RetroRun`. Sound is a queue of numbered chunks; a
machine queues up to two in a frame. `told`, `seen`, `heard` and `dropped` are what front
ends have been given, or lost for a reason.

**LibretroSmoke.** `at` numbers the calls of `main`, 0 meaning front ends that are no test;
`frames`, `geometries` and `exit` are its counters and its exit code.

**RemoteInput.** A caller's `at` names its next step of `download`: `lock`, `match`, `remove`,
`stage`, `fetch`, `activate`, `discard`. `library` says whether each package is missing, damaged
or good; `parts` who owns a staging file; `given` is history: packages some call has returned.

**HostBackend.** `input` and `unsaved` are what each adapter holds, `remembered` and `applied`
the settings of the router and of the adapters. `Accepts` says which settings an adapter
takes: the router ignores what it refuses.

**FramePublish.** The UI thread reads the machine, reads its picture and publishes in three
steps; an open or close may come between any two. `baseline` and `sequence` are what the
backend compares with and hands out. `presenting` tells the two kinds of core apart: those
that number their presentations, and those whose pixels are compared.

## 3. Runs

| run | expects | question and bounds |
|---|---|---|
| `save_file` | pass | Two callers of one process (OM serializes them), three contents: nothing lost (`NothingLost`), and the register is implemented (`RegisterSpec`). Three contents give a target, a backup and a new save that all differ; a fourth could only repeat an archive. |
| `app_backend` | pass | Two ordinary titles, one slot, guests that write twice in all. Two titles are needed for states and backups of the wrong title, two writes for an older and a newer save. `Diagnostic = {}`: a third, diagnostic title takes the run beyond five minutes; the theorems cover any `Diagnostic`. |
| `cheat_catalog` | pass | A shell that waits for each call; three opens of two titles (A, B, A), two cheats, one on by default. |
| `cheat_catalog_wrong_title` | violation | One Cheat Manager request beside an Open. |
| `system_media` | pass | Two firmwares, three writes, every kind of file left by earlier sessions. |
| `key_holds` | pass | Three controls on two keys, so that two share one; a minimum hold of three and a frame of two instructions, so that a hold spans frames. |
| `bootstrap` | pass | Two slots (an update needs the installer and its replacement), three builds (selected, kept, discarded), three extractions, on macOS paths; the user starts or updates one copy at a time, and every step may fail or be the last. |
| `libretro_core` | pass | Two games (a state and a save of the wrong one), one write after what an earlier session left, one state; two pads in different layers that share the star key, so that a change releases, presses and keeps keys. The proofs hold for any of these. |
| `libretro_host` | pass | The smoke test, or two front ends in turn. Three sizes: a picture, the same turned, and a larger one, since a check of one side only would miss a turn. Three chunks of sound with two drained per frame, so that one is left. |
| `remote_input` | pass | Two callers of one process and three links, two of which pin the same content; one death and one file damaged from outside. |
| `host_backend` | pass | A title and two phones; two settings, one of which only one adapter knows, and a value each adapter refuses. |
| `frame_publish` | pass | Three titles in turn, four presentations each, three pictures; both kinds of core. |

What the passing runs show:

* `AppBackend`: `TitleKeepsItsSaves` (no sequence of loads, imports and persists moves
  storage between titles), `NoSilentRollback` (a machine is never older than its file
  unless the user rolled back), `HandOver` (replaced or closed only after saving),
  `SyncedReplies` (success of a saving call means saved), `RunIntent` and
  `SelectionIsFresh`.
* `CheatCatalog`: defaults before Open returns, choices under their title, and above the
  defaults.
* `SystemMedia`: `MediaPreserved`, `UnsavedIsWarned`, `NoSilentRollback`, `HandOver`.
* `KeyHolds`: `HeldKeysAreDown`, `NoStuckKeys`, `ClicksAreSeen`, and `PendingIsReleased`
  under fairness.
* `Bootstrap`: `SelectionIsWhole`, `NoHollowRuntime`, `StartingIsWhole`, and
  `StartsTerminate` under fairness.
* `LibretroCore`, `LibretroInput`: `RunsWhatWasLoaded` (a machine left by a failed unload is
  never mistaken for the game), `SavesStayWithTheirGame`, `HandOver`, `SessionSpec` (the
  refinement: among other things, a session starts from what is stored, and never from
  what could not be read), `PadIsHeld` (a frame runs with exactly the keys of the pad,
  whatever was rejected before).
* `LibretroHost`: `TypeOK`, which includes that a capacity is what is allocated, so no copy
  runs over; `DrawnAsAnnounced`, `PicturePerRun`, `NoSoundLost`, `SoundOnce`. `LibretroSmoke`:
  `PassMeansPictures`.
* `RemoteInput`: `PackagesPersist` (a returned path keeps a good package), and `Answered`
  under fairness.
* `HostBackend`: one adapter holds an input (in `RouterConsistent`), `SettingsFollow`.
* `FramePublish`: `LastPictureShown` under fairness; no more numbers than redraws (in
  `FrameConsistent`).

All type invariants are proved (section 4). A run checks one where it is part of a property:
in `Consistent`, `RouterConsistent` and `FrameConsistent`, and as `LibretroHost!TypeOK`.

**Fairness.** Four specifications assume any.

* `KeyHolds!FairSpec` has `WF(RunFrame)`: the shell calls RunFrame on every tick of its game
  loop while the phone runs. There is no fairness on input or commands.
* `Bootstrap!FairSpec` has `WF(Startup(p))`: `main` runs from ForwardToInstalled to the
  window in a straight line, without waiting for anything. It may still be killed.
* `RemoteInput!FairSpec` has weak fairness for the steps of a download, which end because
  the HTTP client has a timeout, and strong fairness for `Lock`: a Go mutex hands itself to
  the goroutine that has waited longest (starvation mode).
* `FramePublish!FrameFairSpec` has `WF(VideoFrame)`: the shell asks for a frame on every tick.

All other properties of the runs are safety and hold without fairness (`LibretroCore!FairSpec`
serves a disagreement below only).

**Assumptions about the surroundings.** `OneAtATime` in `Bootstrap` is about the user: no
copy is started or updated while another is starting or updating (copies already in
their window are allowed, the one that installed the update among them); nothing in
`internal/bootstrap` serializes processes. `Serialized` in `SaveFile`, `Overlap` in
`CheatCatalog`, `ProcessOf` and `ReadsFail` in `RemoteInput` and `Straddle` in `FramePublish`
likewise name what their passing runs assume. The next section says what happens
without each.

### Disagreements

What the code does against what a comment, a document or a test says. The first is a run
of its own and quoted in `PROJECT.json`; the others are found by the same configurations with
the one change given, and the property added to the `INVARIANTS` or `PROPERTIES`.

| property | change | what happens |
|---|---|---|
| `ChoicesKeyedByTitle` | run `cheat_catalog_wrong_title` | A Cheat Manager request of the previous title that ends after the next one opened publishes its identity (`cheats.go:428`), and choices are recorded under the wrong title. |
| `DefaultsBeforeOpenReturns` | the configuration of that run | The same request marks the catalog as imported while the next title opens (`cheats.go:426`), and Open returns without the defaults that `backend.go:246` promises. |
| `SaveFile!SomeCopyKept` | `Serialized = FALSE` | The GUI and `aram save import` share no lock: one removes the `.bak` the other has just retained and is about to need (`savefile.go:99`). |
| `Bootstrap!LaunchesFindASelection` | none | `writeCurrentRuntime` removes the marker before it renames the new one (`bootstrap.go:325`); a process that ends in between leaves no selection, though line 80 says "atomically selects". |
| `Bootstrap!InstallerStaysWhole` | none | The previous runtime that is kept is the one extracted last (`prune.go:64`), which need not be the one that still installs (`prune.go:21-23`). |
| `Bootstrap!SelectionIsWhole` | `OneAtATime = FALSE` | A prune discards by an old list what an update has just selected (`prune.go:66`). |
| `LibretroCore!FlushedPeriodically` | module `LibretroCore`, `SPECIFICATION FairSpec`, no pads | Saves are written at unload, replacement and exit only; `libretro.h:1309-1310` asks for "periodically". |
| `LibretroHost!GeometryOnlyInRun` | none | `retro_load_game` announces a geometry (`libretro.c:273`); `libretro.h:1541` allows it within `retro_run` only. |
| `LibretroHost!RepeatsAPicture` | none | The first frame of a game fails and is repeated, though there is none: the size was set at load (`libretro.c:198-200`). |
| `LibretroHost!LogsToItsFrontEnd` | none | A front end without a log interface inherits the previous one's callback (`libretro.c:106`). |
| `PackagesPersist` | `ReadsFail = TRUE`, or `ProcessOf` giving the two callers different processes | A package that cannot be read for a moment is removed like a corrupt one (`remoteinput.go:209-213`); a second process removes what the first has returned. |
| `LastPictureShown` | `Straddle = TRUE`, without `FrameConsistent` | A poll of the old title that publishes after the new one opened records its presentation number; the new title's picture of that number is never shown (`frame_change.go:54`). |

## 4. Proofs

| module | theorems | argument |
|---|---|---|
| `SaveFileProofs` | `TypeCorrect`, `NothingIsLost`, `ImplementsRegister` | At most one caller is inside; its `pc` tells which of target and backup still hold what is owed. Each step maps to a step of `AtomicSave` or to a stutter. The last two assume `Serialized`. |
| `AppBackendProofs` | eight: types, one for each property of the run, and `ImplementsSession` | The storage of the machine and of every file names its own title; the file is never newer than the machine unless rolled back; the run intent implies a machine that can continue. Every operation maps to one of `SaveSession` or to a stutter, as in the libretro core: `Open` to `Switch`, all that may write the save while a title is loaded to `Play`. |
| `SystemMediaProofs` | five | A session with clear flags descends from the content of its file (`FileIsBased`), and the file is no newer than the session (`Aged`). |
| `PlayerProofs`, `KeyHolds` | four | `sources[k]` counts the controls that hold `k` (with cardinalities of finite sets); a key is down exactly while counted or pending; `left + since` is at least the minimum. |
| `PlayerProofs`, `CheatCatalog` | four | `CheatTyped` holds however calls overlap. For the properties, `SeqInv`: the one call in flight works on the loaded title (`CallOnCurrent`), and each cheat of an imported catalog is as choices and defaults say, in doubt, or just switched and about to be recorded (`ImportedIsCurrent`). The last three assume `~Overlap`, without which they are false. |
| `LibretroCoreProofs`, `LibretroCore` | six | `Typed` (types, and `RunsWhatWasLoaded`, which says where the front end's belief and the machine agree) and `Aged` (contents stay with their game and are no older than the file, unless a state was loaded). Every action maps to one of `SaveSession` or to a stutter; a load, which saves one session and starts the next, maps to `Switch`. |
| `LibretroCoreProofs`, `LibretroInput` | four | The record equals the machine's keys after any prefix of the events (`After` of both sets with the same changes), and all events together reach what was asked for (`AfterAll`). `KeysOnlyAdd` carries the theorems of `LibretroCore` over. |
| `LibretroHostProofs` | seven | `PictureInv`: what was negotiated and announced is what the last picture was made with, over front ends, games and failed allocations. `SoundInv`: the queue holds the last chunks the machine made, in order and without a gap, and all of them are later than anything heard or dropped. `SmokeIsAFrontEnd` shows each step of the smoke test to be one of `LibretroHost`, so both invariants hold of the test; `PassProvesPictures` adds what its counters count. |
| `ShellProofs`, `RemoteInput` | three | Whoever is past the lock is alone with its digest (`Exclusive`), and a package that is being replaced is none that was returned (`NotGiven`). `PackagesStay` assumes `OneProcess` and `~ReadsFail`. |
| `ShellProofs`, `HostBackend` | two | `RouterConsistent` and `SettingsFollow` are inductive together: a switch replays the settings to the adapter it opens, and selects it only when the other has let go. |
| `ShellProofs`, `FramePublish` | three | The numbers published so far and those that polls can still publish before the guest draws again are no more than it has drawn. `NumbersFollowRedraws` assumes `~Straddle`; where an open may straddle a poll it is false, and `OneNumberMore` holds: one number too many at most. `PublishedIsShown` is the safety half of `LastPictureShown`. |
| `BootstrapProofs` | four | All copies but one are idle or in their window (`Alone`), and `Sound(p)` is what that one relies on: its update touches only directories without an executable, and its prune neither the selected runtime nor its own. All four assume `OneAtATime`. |

Each invariant `IInv` was checked with TLC before it was proved; the properties alone are
not inductive, because they do not say what an operation in the middle has already
read. The proofs assume only the named `ASSUME`s of the modules (types and
distinctness of constants) and the assumptions named in the table. They hold for any
number of titles, slots, writes, firmwares, controls, keys, cheats, requests, opens, copies,
builds, games, pads, frame sizes, sound chunks, settings, callers and packages.

Proved and in no run: the other type invariants, `NoSilentRollback` of the libretro core (a
session is never older than its file), `KeysAreKnown`, `StagingIsOwned` (a download that
ended, at whichever step, leaves no staging file), `SessionSpec` of the application backend
(TLC was run on it with one write), `OneNumberMore` and `PublishedIsShown`.

Only model-checked: the liveness properties `PendingIsReleased`, `StartsTerminate`, `Answered`
and `LastPictureShown` (TLAPS does not reason about fairness), and every disagreement. Every
other property of the passing runs is a theorem.

## 5. Limits

* A crash is a killed process. Loss of power, and with it the order in which directory
  entries reach the disk, is not modelled: the code syncs files but not directories.
* `SystemMedia` has `DisableMediaPersistence = FALSE`, the default. A file that looks
  missing is missing; a directory that is not mounted is indistinguishable to the code.
* Cores are external: they may end a call in any state they can report, and keep
  media and storage over a reset as `ExportSaveData` and `SaveMedia` are used here.
  `PowerCycle` releases all keys.
* Contents are opaque. Checksums, headers and size limits of the file formats decide only
  "readable or not"; scan predicates and number formats of the memory tool are left out.
* `AppBackend` and `SystemMedia` leave out video, audio, font, CPU and display
  configuration, none of which changes the state they keep.
* `Bootstrap` extracts an archive in one step (it is staged out of sight), and leaves out
  `.trash-*` and day-old `.install-*` directories, which nothing runs from.
* `NoStuckKeys` exempts keys whose release `SetKey` refused: the code does not retry.
* `LibretroCore` takes a loaded state not to press keys, and `LibretroHost` leaves out the
  conversion of pixels and channels. `libretro.h`, nearly all of the C in the repository
  by lines, is the vendored interface: declarations that no definition can stand for, so
  the share of C lines the map covers says nothing; `libretro.c` and `smoke.c` are covered.
* `LibretroCore` and `RemoteInput`: a process may die between any two steps, but a `.part` file it
  leaves under its random name is not followed further.
* `HostBackend`: calls are one after the other. The shell makes them from one goroutine.
* `FramePublish` follows the application backend. The whole-phone backend reads pixels and
  hash in two calls of the core; whether these can tear depends on the core.
* Hazards seen and not modelled: two concurrent cheat toggles of one title, of which one
  is lost (`cheats.go:444`); an empty export that leaves the previous save in place
  (`savedata.go:70`); an empty flash section that would be written but not read back
  (`systemintegration/backend.go:922`); the save of a guest that ends in a single Frame
  and is killed before the next flush (`backend.go:569`); a machine that rejects the release
  of one key for ever, so that every later call of the libretro core fails.

## Not modelled

* **Android host.** Read, not modelled: a picked save backup may outlive its process and
  be imported into a new runtime (`MainActivity.onActivityResult` uses the restored
  `pendingDocumentKind`, while `PendingImportRecovery.java:11` says such backups are cancelled);
  an activity that is destroyed detaches the host of its successor (`mobile.go:191-192`); a
  shortcut opened during an import is replaced by that import.
* **Deep links, Android flavours, debugger, probes, icons, web player, carrier answers**: no
  protocol of their own; see the notes in `PROJECT.json`.

## 6. Plan

1. `AndroidImport`: document import, process death and recovery; the host across activity
   instances; `HeldControls`.
2. Proofs of the safety halves of the remaining liveness properties: that a forwarding never
   returns to a runtime it came from, that a pending release has time left, and that a digest
   lock is always held by a caller that will give it up.
3. `CheatCatalog` with concurrent toggles, and a reference for which of them may be lost.
4. `LibretroHost` composed with `LibretroCore`, so that the size and sound of a frame come
   from the session that made them.
5. The presentation calls of both backends, and a run that composes `SaveFile` directly
   under `AppBackend` on a smaller instance.
