------------------------------ MODULE Bootstrap ------------------------------
(***************************************************************************)
(* internal/bootstrap and its callers in cmd/aram/main.go: several running *)
(* copies of the product that forward to the installed runtime, prune the  *)
(* superseded ones and install updates, one look at or change of the       *)
(* shared directory per step.  A copy may end between any two steps.       *)
(*                                                                         *)
(* A build is named by the digest its runtime directory is named by; a     *)
(* launcher is a copy outside that directory and stands for its contents.  *)
(* A directory renamed to ".trash-*" or staged as ".install-*" is never    *)
(* run from, so their deletion (prune.go:49-54) is no step of the model.   *)
(***************************************************************************)
EXTENDS Naturals, FiniteSets

CONSTANTS
    Procs,        \* slots for running copies
    Builds,       \* product archives
    Launchers,    \* copies outside the runtime directory
    None,         \* no marker, launcher, image, build or process
    KeepPrevious, \* PruneRuntimes's argument, keptPreviousRuntimes in main.go
    MaxInstalls,  \* bound: archives extracted in one behaviour
    Bundled,      \* TRUE: macOS, where a runtime runs from inside a bundle and
                  \* never at the path the marker selects
    OneAtATime    \* TRUE: the user starts or updates one copy at a time

ASSUME BootstrapAssumption ==
    /\ Builds \intersect Launchers = {}
    /\ None \notin Procs \union Builds \union Launchers
    /\ None \notin [exe : Builds, launcher : Launchers \union {None}]
    /\ KeepPrevious \in Nat
    /\ MaxInstalls \in Nat
    /\ Bundled \in BOOLEAN
    /\ OneAtATime \in BOOLEAN

VARIABLES
    versions,     \* each build's directory: "absent", "partial" (without the
                  \* executable), "hollow" (the executable but not all else), "whole"
    installedAt,  \* its modification time, counted in extractions
    marker,       \* current.json: the selected build and the launcher's digest
    extracted,    \* archives extracted so far
    pc,           \* the next step of each copy
    image,        \* the build or launcher each copy runs from
    mark,         \* the marker it has read, or is about to write
    todo,         \* the directories its PruneRuntimes still goes through
    build,        \* the build it installs
    staged,       \* modification time of its staging directory
    selectedOnce, \* history: some Install has selected a runtime
    installer     \* history: the runtime copy whose update made the last launch

disk == <<versions, installedAt, marker, extracted>>
local == <<image, mark, todo, build, staged>>
history == <<selectedOnce, installer>>
vars == <<disk, pc, local, history>>

Markers == [exe : Builds, launcher : Launchers \union {None}]

HasExecutable(b) == versions[b] \in {"hollow", "whole"}

\* A directory left without its executable is what Install calls incomplete.
Init ==
    /\ versions \in [Builds -> {"absent", "partial"}]
    /\ installedAt = [b \in Builds |-> 0]
    /\ marker = None
    /\ extracted = 0
    /\ pc = [p \in Procs |-> "idle"]
    /\ image = [p \in Procs |-> None]
    /\ mark = [p \in Procs |-> None]
    /\ todo = [p \in Procs |-> {}]
    /\ build = [p \in Procs |-> None]
    /\ staged = [p \in Procs |-> 0]
    /\ selectedOnce = FALSE
    /\ installer = None

-----------------------------------------------------------------------------

Goto(p, label) == pc' = [pc EXCEPT ![p] = label]

Admitted == OneAtATime => \A q \in Procs : pc[q] \in {"idle", "gui"}

\* The user starts a launcher, or a runtime some shortcut or link handler
\* still names.
StartProduct(p, i) ==
    /\ pc[p] = "idle"
    /\ Admitted
    /\ i \in Builds => versions[i] = "whole"
    /\ Goto(p, "forward")
    /\ image' = [image EXCEPT ![p] = i]
    /\ installer' = None
    /\ UNCHANGED <<disk, mark, todo, build, staged, selectedOnce>>

\* The user quits or the process dies.
End(p) ==
    /\ pc[p] # "idle"
    /\ Goto(p, "idle")
    /\ image' = [image EXCEPT ![p] = None]
    /\ mark' = [mark EXCEPT ![p] = None]
    /\ todo' = [todo EXCEPT ![p] = {}]
    /\ build' = [build EXCEPT ![p] = None]
    /\ staged' = [staged EXCEPT ![p] = 0]
    /\ installer' = IF installer = p THEN None ELSE installer
    /\ UNCHANGED <<disk, selectedOnce>>

-----------------------------------------------------------------------------
(* ForwardToInstalled *)

ReadMarker(p) ==
    /\ pc[p] = "forward"
    /\ mark' = [mark EXCEPT ![p] = marker]
    /\ Goto(p, IF marker = None THEN "list" ELSE "decide")
    /\ UNCHANGED <<disk, image, todo, build, staged, history>>

\* Faulty: a runtime tells whether it is the selected one by its path.
ShouldForwardByPath(m, i) ==
    IF i \in Builds THEN Bundled \/ i # m.exe ELSE i = m.launcher

\* The selected runtime continues in process and a superseded one defers; a
\* launcher defers when it is the recorded build.
ShouldForward(m, i) ==
    LET samePath == ~Bundled /\ i = m.exe
    IN  ~samePath /\ IF i \in Builds THEN i # m.exe ELSE i = m.launcher

\* The copy hands over and returns: the slot goes to the runtime it launched.
Forward(p) ==
    /\ pc[p] = "decide"
    /\ HasExecutable(mark[p].exe)
    /\ ShouldForward(mark[p], image[p])
    /\ Goto(p, "forward")
    /\ image' = [image EXCEPT ![p] = mark[p].exe]
    /\ mark' = [mark EXCEPT ![p] = None]
    /\ UNCHANGED <<disk, todo, build, staged, history>>

\* It need not forward, the selected executable is gone, or a call failed,
\* which is reported and ignored.
RunItself(p) ==
    /\ pc[p] = "decide"
    /\ Goto(p, "list")
    /\ UNCHANGED <<disk, local, history>>

-----------------------------------------------------------------------------
(* PruneRuntimes *)

ListRuntimes(p) ==
    /\ pc[p] = "list"
    /\ todo' = [todo EXCEPT ![p] = {b \in Builds : versions[b] # "absent"}]
    /\ Goto(p, "protect")
    /\ UNCHANGED <<disk, image, mark, build, staged, history>>

Selected == {b \in Builds : marker # None /\ marker.exe = b /\ HasExecutable(b)}

\* Faulty: only the selected runtime is kept.
ProtectedSelected(p) == Selected

ProtectedRuntimes(p) == Selected \union ({image[p]} \intersect Builds)

\* A directory that is gone has no time and sorts last.
InstalledAt(b) == IF versions[b] = "absent" THEN 0 ELSE installedAt[b]

\* The most recently installed of the rest are kept, ties going by name.
Protect(p) ==
    /\ pc[p] = "protect"
    /\ LET candidates == todo[p] \ ProtectedRuntimes(p)
       IN  \E kept \in SUBSET candidates :
             /\ \/ kept = candidates /\ Cardinality(kept) <= KeepPrevious
                \/ Cardinality(kept) = KeepPrevious
             /\ \A k \in kept, b \in candidates \ kept : InstalledAt(k) >= InstalledAt(b)
             /\ todo' = [todo EXCEPT ![p] = candidates \ kept]
    /\ Goto(p, "discard")
    /\ UNCHANGED <<disk, image, mark, build, staged, history>>

\* What a RemoveAll may have left of a directory so far.
Emptied(content) ==
    CASE content = "whole"   -> {"hollow", "partial", "absent"}
      [] content = "hollow"  -> {"partial", "absent"}
      [] content = "partial" -> {"partial", "absent"}
      [] content = "absent"  -> {"absent"}

\* Faulty: the directory is emptied where it stands.
DiscardInPlace(p, b) ==
    /\ pc[p] = "discard"
    /\ b \in todo[p]
    /\ \E content \in Emptied(versions[b]) : versions' = [versions EXCEPT ![b] = content]
    /\ todo' = [todo EXCEPT ![p] = @ \ {b}]
    /\ UNCHANGED <<installedAt, marker, extracted, pc, image, mark, build, staged, history>>

\* discardRuntime renames the directory aside, or leaves it alone when that
\* fails, as on Windows while something in it runs.
Discard(p, b) ==
    /\ pc[p] = "discard"
    /\ b \in todo[p]
    /\ \/ versions' = [versions EXCEPT ![b] = "absent"]
       \/ UNCHANGED versions
    /\ todo' = [todo EXCEPT ![p] = @ \ {b}]
    /\ UNCHANGED <<installedAt, marker, extracted, pc, image, mark, build, staged, history>>

EndPrune(p) ==
    /\ pc[p] = "discard"
    /\ todo[p] = {}
    /\ Goto(p, "gui")
    /\ mark' = [mark EXCEPT ![p] = None]
    /\ UNCHANGED <<disk, image, todo, build, staged, history>>

-----------------------------------------------------------------------------
(* InstallProductUpdate: Install, writeCurrentRuntime, Launch *)

BeginInstall(p, b) ==
    /\ pc[p] = "gui"
    /\ Admitted
    /\ build' = [build EXCEPT ![p] = b]
    /\ Goto(p, "check")
    /\ installer' = None
    /\ UNCHANGED <<disk, image, mark, todo, staged, selectedOnce>>

\* Faulty: an existing directory is taken for a complete runtime.
CheckDirectory(p) ==
    /\ pc[p] = "check"
    /\ Goto(p, IF versions[build[p]] # "absent" THEN "existing" ELSE "extract")
    /\ UNCHANGED <<disk, local, history>>

\* A directory with a regular executable is reused as it is.
CheckRuntime(p) ==
    /\ pc[p] = "check"
    /\ Goto(p, IF HasExecutable(build[p]) THEN "existing" ELSE "extract")
    /\ UNCHANGED <<disk, local, history>>

ExtractArchive(p) ==
    /\ pc[p] = "extract"
    /\ extracted < MaxInstalls
    /\ extracted' = extracted + 1
    /\ staged' = [staged EXCEPT ![p] = extracted + 1]
    /\ Goto(p, "target")
    /\ UNCHANGED <<versions, installedAt, marker, image, mark, todo, build, history>>

StatTarget(p) ==
    /\ pc[p] = "target"
    /\ Goto(p, IF versions[build[p]] = "absent" THEN "activate" ELSE "clear")
    /\ UNCHANGED <<disk, local, history>>

\* os.RemoveAll of the incomplete runtime, a few entries at a time.
ClearTarget(p) ==
    /\ pc[p] = "clear"
    /\ \E content \in Emptied(versions[build[p]]) :
         /\ versions' = [versions EXCEPT ![build[p]] = content]
         /\ Goto(p, IF content = "absent" THEN "activate" ELSE "clear")
    /\ UNCHANGED <<installedAt, marker, extracted, local, history>>

\* os.Rename replaces no directory that has entries; the staging directory
\* keeps its modification time.
Activate(p) ==
    /\ pc[p] = "activate"
    /\ ~HasExecutable(build[p])
    /\ versions' = [versions EXCEPT ![build[p]] = "whole"]
    /\ installedAt' = [installedAt EXCEPT ![build[p]] = staged[p]]
    /\ Goto(p, "existing")
    /\ UNCHANGED <<marker, extracted, local, history>>

\* Faulty: the copy that installs is recorded wherever it runs from.
LauncherItself(p) == image[p]

\* An installed runtime leaves the recorded launcher alone.
Launcher(p) ==
    IF image[p] \notin Builds THEN image[p]
    ELSE IF marker = None THEN None ELSE marker.launcher

PrepareMarker(p) ==
    /\ pc[p] = "existing"
    /\ mark' = [mark EXCEPT ![p] = [exe |-> build[p], launcher |-> Launcher(p)]]
    /\ Goto(p, "unmark")
    /\ UNCHANGED <<disk, image, todo, build, staged, history>>

\* os.Remove of the old marker, whose failure is ignored.
RemoveMarker(p) ==
    /\ pc[p] = "unmark"
    /\ marker' \in {marker, None}
    /\ Goto(p, "select")
    /\ UNCHANGED <<versions, installedAt, extracted, local, history>>

SelectRuntime(p) ==
    /\ pc[p] = "select"
    /\ marker' = mark[p]
    /\ selectedOnce' = TRUE
    /\ Goto(p, "launch")
    /\ UNCHANGED <<versions, installedAt, extracted, local, installer>>

\* The copy that installed the update lives on while its replacement starts.
Launch(p, q) ==
    /\ pc[p] = "launch"
    /\ pc[q] = "idle"
    /\ HasExecutable(build[p])
    /\ pc' = [pc EXCEPT ![p] = "gui", ![q] = "forward"]
    /\ image' = [image EXCEPT ![q] = build[p]]
    /\ mark' = [mark EXCEPT ![p] = None]
    /\ build' = [build EXCEPT ![p] = None]
    /\ staged' = [staged EXCEPT ![p] = 0]
    /\ installer' = IF image[p] \in Builds /\ versions[image[p]] = "whole" THEN p ELSE None
    /\ UNCHANGED <<disk, todo, selectedOnce>>

Installing == {"check", "extract", "target", "clear", "activate", "existing",
               "unmark", "select", "launch"}

\* Any step may fail, which ends the update where it stands.
InstallFails(p) ==
    /\ pc[p] \in Installing
    /\ Goto(p, "gui")
    /\ mark' = [mark EXCEPT ![p] = None]
    /\ build' = [build EXCEPT ![p] = None]
    /\ staged' = [staged EXCEPT ![p] = 0]
    /\ UNCHANGED <<disk, image, todo, history>>

-----------------------------------------------------------------------------

\* What main does before the window opens.
Startup(p) ==
    \/ ReadMarker(p)
    \/ Forward(p)
    \/ RunItself(p)
    \/ ListRuntimes(p)
    \/ Protect(p)
    \/ \E b \in Builds : Discard(p, b)
    \/ EndPrune(p)

Update(p) ==
    \/ \E b \in Builds : BeginInstall(p, b)
    \/ CheckRuntime(p)
    \/ ExtractArchive(p)
    \/ StatTarget(p)
    \/ ClearTarget(p)
    \/ Activate(p)
    \/ PrepareMarker(p)
    \/ RemoveMarker(p)
    \/ SelectRuntime(p)
    \/ \E q \in Procs : Launch(p, q)
    \/ InstallFails(p)

Next ==
    \E p \in Procs :
        \/ \E i \in Builds \union Launchers : StartProduct(p, i)
        \/ End(p)
        \/ Startup(p)
        \/ Update(p)

Spec == Init /\ [][Next]_vars

\* main runs straight through to the window.
FairSpec == Spec /\ \A p \in Procs : WF_vars(Startup(p))

-----------------------------------------------------------------------------

Starting == {"forward", "decide", "list", "protect", "discard"}

\* Types of the variables; in particular no runtime is recorded as a launcher.
TypeOK ==
    /\ versions \in [Builds -> {"absent", "partial", "hollow", "whole"}]
    /\ installedAt \in [Builds -> 0 .. MaxInstalls]
    /\ marker \in Markers \union {None}
    /\ extracted \in 0 .. MaxInstalls
    /\ pc \in [Procs -> Starting \union Installing \union {"idle", "gui"}]
    /\ image \in [Procs -> Builds \union Launchers \union {None}]
    /\ mark \in [Procs -> Markers \union {None}]
    /\ todo \in [Procs -> SUBSET Builds]
    /\ build \in [Procs -> Builds \union {None}]
    /\ staged \in [Procs -> 0 .. MaxInstalls]
    /\ selectedOnce \in BOOLEAN
    /\ installer \in Procs \union {None}

\* Wherever installations, failures and process ends fall, the runtime the
\* marker selects is complete: no prune takes it away and no failed install
\* selects what it did not finish.
SelectionIsWhole == marker # None => versions[marker.exe] = "whole"

\* No directory is ever "hollow", with an executable that Install "would later
\* mistake for a complete runtime" (prune.go:28).
NoHollowRuntime == \A b \in Builds : versions[b] # "hollow"

\* A runtime that is starting is never taken away under its own process.
StartingIsWhole ==
    \A p \in Procs :
        pc[p] \in Starting /\ image[p] \in Builds => versions[image[p]] = "whole"

\* Copies do not forward to each other for ever: every start ends in a window.
StartsTerminate == \A p \in Procs : pc[p] = "forward" ~> pc[p] \in {"gui", "idle"}

\* "atomically selects it for subsequent launches" (bootstrap.go:80): once a
\* runtime has been selected, no launch finds that there is none.
LaunchesFindASelection ==
    \A p \in Procs : pc[p] = "list" /\ mark[p] = None => ~selectedOnce

\* "keeping one previous runtime leaves that process whole until the next
\* launch" (prune.go:22): so it does for the copy that installed the update.
InstallerStaysWhole == installer # None => versions[image[installer]] = "whole"
=============================================================================
