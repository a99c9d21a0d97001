--------------------------- MODULE BootstrapProofs ---------------------------
(***************************************************************************)
(* Proofs about Bootstrap, for any number of copies, builds and launchers, *)
(* any number of previous runtimes kept and on every platform.  The safety *)
(* theorems assume that the user starts or updates one copy at a time; TLC *)
(* shows that they fail without it.  The inductive invariant then says     *)
(* that all copies but one are idle or in their window, and what the one   *)
(* that is not may rely on: an update finds its runtime complete from the  *)
(* moment it goes on to the marker and touches only directories without an *)
(* executable before, and a prune goes through neither the selected        *)
(* runtime nor its own.                                                    *)
(***************************************************************************)
EXTENDS Bootstrap, TLAPS

Quiet == {"idle", "gui"}

Alone ==
    \A p \in Procs, q \in Procs :
        pc[p] \notin Quiet /\ pc[q] \notin Quiet => p = q

\* What a copy relies on in the middle of its start or of an update.
Sound(p) ==
    /\ pc[p] \in Installing => build[p] \in Builds
    /\ pc[p] \in {"extract", "target", "clear", "activate"} => ~HasExecutable(build[p])
    /\ pc[p] \in {"existing", "unmark", "select", "launch"} => versions[build[p]] = "whole"
    /\ pc[p] \in {"unmark", "select"} => mark[p] # None /\ mark[p].exe = build[p]
    /\ pc[p] = "decide" => mark[p] # None
    /\ pc[p] = "discard" => image[p] \notin todo[p]
    /\ pc[p] = "discard" /\ marker # None => marker.exe \notin todo[p]
    /\ pc[p] \in Starting /\ image[p] \in Builds => versions[image[p]] = "whole"

IInv ==
    /\ TypeOK
    /\ Alone
    /\ \A p \in Procs : Sound(p)
    /\ SelectionIsWhole
    /\ NoHollowRuntime

-----------------------------------------------------------------------------
(* Types. *)

LEMMA TypeInit == Init => TypeOK
<1> SUFFICES ASSUME Init PROVE TypeOK
    OBVIOUS
<1>1. 0 \in 0 .. MaxInstalls
    BY BootstrapAssumption
<1>2. versions \in [Builds -> {"absent", "partial", "hollow", "whole"}]
    BY DEF Init
<1> QED
    BY <1>1, <1>2 DEF Init, TypeOK

LEMMA TypeStartup ==
    ASSUME TypeOK, NEW p \in Procs, Startup(p), Sound(p)
    PROVE  TypeOK'
<1> USE DEF TypeOK, Goto, disk, local, history
<1>1. CASE ReadMarker(p)
    BY <1>1 DEF ReadMarker, Starting, Installing
<1>2. CASE Forward(p)
    <2>1. mark[p] \in Markers
        BY <1>2 DEF Forward, Sound
    <2>2. mark[p].exe \in Builds
        BY <2>1 DEF Markers
    <2> QED
        BY <1>2, <2>2 DEF Forward, Starting, Installing
<1>3. CASE RunItself(p)
    BY <1>3 DEF RunItself, Starting, Installing
<1>4. CASE ListRuntimes(p)
    BY <1>4 DEF ListRuntimes, Starting, Installing
<1>5. CASE Protect(p)
    BY <1>5 DEF Protect, Starting, Installing
<1>6. ASSUME NEW b \in Builds, Discard(p, b) PROVE TypeOK'
    BY <1>6 DEF Discard
<1>7. CASE EndPrune(p)
    BY <1>7 DEF EndPrune, Starting, Installing
<1> QED
    BY <1>1, <1>2, <1>3, <1>4, <1>5, <1>6, <1>7 DEF Startup

LEMMA EmptiedType ==
    ASSUME NEW content \in {"absent", "partial", "hollow", "whole"}
    PROVE  /\ Emptied(content) \subseteq {"absent", "partial", "hollow", "whole"}
           /\ content \in {"absent", "partial"} => Emptied(content) \subseteq {"absent", "partial"}
<1>1. CASE content = "whole"
    BY <1>1 DEF Emptied
<1>2. CASE content = "hollow"
    BY <1>2 DEF Emptied
<1>3. CASE content = "partial"
    BY <1>3 DEF Emptied
<1>4. CASE content = "absent"
    BY <1>4 DEF Emptied
<1> QED
    BY <1>1, <1>2, <1>3, <1>4

LEMMA TypeUpdate ==
    ASSUME TypeOK, NEW p \in Procs, Update(p), Sound(p)
    PROVE  TypeOK'
<1> USE DEF TypeOK, Goto, disk, local, history
<1>0. pc[p] \in Installing => build[p] \in Builds
    BY DEF Sound
<1>1. ASSUME NEW b \in Builds, BeginInstall(p, b) PROVE TypeOK'
    BY <1>1 DEF BeginInstall, Installing
<1>2. CASE CheckRuntime(p)
    BY <1>2 DEF CheckRuntime, Installing
<1>3. CASE ExtractArchive(p)
    BY <1>3, BootstrapAssumption DEF ExtractArchive, Installing
<1>4. CASE StatTarget(p)
    BY <1>4 DEF StatTarget, Installing
<1>5. CASE ClearTarget(p)
    BY <1>0, <1>5, EmptiedType DEF ClearTarget, Installing
<1>6. CASE Activate(p)
    BY <1>0, <1>6 DEF Activate, Installing
<1>7. CASE PrepareMarker(p)
    <2>1. Launcher(p) \in Launchers \union {None}
        BY DEF Launcher, Markers
    <2>2. [exe |-> build[p], launcher |-> Launcher(p)] \in Markers
        BY <1>0, <1>7, <2>1 DEF PrepareMarker, Markers, Installing
    <2> QED
        BY <1>7, <2>2 DEF PrepareMarker, Installing
<1>8. CASE RemoveMarker(p)
    BY <1>8 DEF RemoveMarker, Installing
<1>9. CASE SelectRuntime(p)
    BY <1>9 DEF SelectRuntime, Installing
<1>10. ASSUME NEW q \in Procs, Launch(p, q) PROVE TypeOK'
    BY <1>0, <1>10, BootstrapAssumption DEF Launch, Starting, Installing
<1>11. CASE InstallFails(p)
    BY <1>11, BootstrapAssumption DEF InstallFails
<1> QED
    BY <1>1, <1>2, <1>3, <1>4, <1>5, <1>6, <1>7, <1>8, <1>9, <1>10, <1>11 DEF Update

LEMMA TypeStep == IInv /\ [Next]_vars => TypeOK'
<1> SUFFICES ASSUME IInv, [Next]_vars PROVE TypeOK'
    OBVIOUS
<1>1. TypeOK /\ \A p \in Procs : Sound(p)
    BY DEF IInv
<1>2. ASSUME NEW p \in Procs, NEW i \in Builds \union Launchers, StartProduct(p, i)
      PROVE  TypeOK'
    BY <1>1, <1>2 DEF TypeOK, StartProduct, Goto, disk, Starting
<1>3. ASSUME NEW p \in Procs, End(p) PROVE TypeOK'
    BY <1>1, <1>3, BootstrapAssumption DEF TypeOK, End, Goto, disk
<1>4. CASE UNCHANGED vars
    BY <1>1, <1>4 DEF TypeOK, vars, disk, local, history
<1> QED
    BY <1>1, <1>2, <1>3, <1>4, TypeStartup, TypeUpdate DEF Next

-----------------------------------------------------------------------------
(* Only one copy is in the middle of something, before and after a step. *)

LEMMA OthersQuiet ==
    ASSUME Alone, NEW p \in Procs, pc[p] \notin Quiet, NEW q \in Procs, q # p
    PROVE  pc[q] \in Quiet
BY DEF Alone

\* A copy that is idle or in its window relies on nothing.
LEMMA QuietIsSound ==
    ASSUME NEW p \in Procs, pc[p] \in Quiet
    PROVE  Sound(p)
BY DEF Sound, Quiet, Installing, Starting

\* What is left to show of a step that leaves all copies but p quiet.
LEMMA OneMoves ==
    ASSUME TypeOK', NEW p \in Procs,
           \A q \in Procs : q # p => pc'[q] \in Quiet,
           Sound(p)', SelectionIsWhole', NoHollowRuntime'
    PROVE  IInv'
<1>1. Alone'
    BY DEF Alone, Quiet
<1>2. ASSUME NEW q \in Procs PROVE Sound(q)'
    BY DEF Sound, Quiet, Installing, Starting
<1> QED
    BY <1>1, <1>2 DEF IInv

-----------------------------------------------------------------------------
(* The steps of a start. *)

LEMMA StartupKeeps ==
    ASSUME IInv, NEW p \in Procs, Startup(p), TypeOK'
    PROVE  IInv'
<1> USE DEF Goto, disk, local, history
<1>1. /\ TypeOK
      /\ Sound(p)
      /\ SelectionIsWhole
      /\ NoHollowRuntime
    BY DEF IInv
<1>2. pc[p] \in Starting
    BY DEF Startup, ReadMarker, Forward, RunItself, ListRuntimes, Protect, Discard,
           EndPrune, Starting
<1>3. \A q \in Procs : q # p => pc[q] \in Quiet
    BY <1>2, OthersQuiet DEF IInv, Quiet, Starting
<1>4. /\ \A q \in Procs : q # p => pc'[q] = pc[q]
      /\ marker' = marker
      /\ build' = build
    BY <1>1 DEF Startup, ReadMarker, Forward, RunItself, ListRuntimes, Protect, Discard,
                EndPrune, TypeOK
<1>5. ASSUME versions' = versions
      PROVE  SelectionIsWhole' /\ NoHollowRuntime'
    BY <1>1, <1>4, <1>5 DEF SelectionIsWhole, NoHollowRuntime
<1>6. CASE ReadMarker(p)
    <2>1. Sound(p)'
        BY <1>1, <1>2, <1>6 DEF ReadMarker, Sound, TypeOK, Starting, Installing
    <2> QED
        BY <1>3, <1>4, <1>5, <1>6, <2>1, OneMoves DEF ReadMarker
<1>7. CASE Forward(p)
    <2>1. mark[p].exe \in Builds /\ HasExecutable(mark[p].exe)
        BY <1>1, <1>7 DEF Forward, Sound, TypeOK, Markers
    <2>2. versions[mark[p].exe] = "whole"
        BY <1>1, <2>1 DEF HasExecutable, NoHollowRuntime
    <2>3. Sound(p)'
        BY <1>1, <1>7, <2>2 DEF Forward, Sound, TypeOK, Installing
    <2> QED
        BY <1>3, <1>4, <1>5, <1>7, <2>3, OneMoves DEF Forward
<1>8. CASE RunItself(p)
    <2>1. Sound(p)'
        BY <1>1, <1>2, <1>8 DEF RunItself, Sound, TypeOK, Starting, Installing
    <2> QED
        BY <1>3, <1>4, <1>5, <1>8, <2>1, OneMoves DEF RunItself
<1>9. CASE ListRuntimes(p)
    <2>1. Sound(p)'
        BY <1>1, <1>2, <1>9 DEF ListRuntimes, Sound, TypeOK, Starting, Installing
    <2> QED
        BY <1>3, <1>4, <1>5, <1>9, <2>1, OneMoves DEF ListRuntimes
<1>10. CASE Protect(p)
    <2>1. todo'[p] \subseteq todo[p] \ ProtectedRuntimes(p)
        BY <1>1, <1>10 DEF Protect, TypeOK
    <2>2. image[p] \in Builds => image[p] \in ProtectedRuntimes(p)
        BY DEF ProtectedRuntimes
    <2>3. todo'[p] \subseteq Builds
        BY <1>1, <2>1 DEF TypeOK
    <2>4. marker # None => marker.exe \in ProtectedRuntimes(p)
        BY <1>1 DEF ProtectedRuntimes, Selected, SelectionIsWhole, HasExecutable, TypeOK, Markers
    <2>5. Sound(p)'
        BY <1>1, <1>2, <1>10, <2>1, <2>2, <2>3, <2>4
        DEF Protect, Sound, TypeOK, Starting, Installing
    <2> QED
        BY <1>3, <1>4, <1>5, <1>10, <2>5, OneMoves DEF Protect
<1>11. ASSUME NEW b \in Builds, Discard(p, b) PROVE IInv'
    <2>1. b # image[p] /\ (marker # None => b # marker.exe)
        BY <1>1, <1>11 DEF Discard, Sound
    <2>2. versions' \in {versions, [versions EXCEPT ![b] = "absent"]}
        BY <1>11 DEF Discard
    <2>3. SelectionIsWhole' /\ NoHollowRuntime'
        BY <1>1, <1>4, <2>1, <2>2 DEF SelectionIsWhole, NoHollowRuntime, TypeOK, Markers
    <2>4. Sound(p)'
        BY <1>1, <1>11, <2>1, <2>2 DEF Discard, Sound, TypeOK, Starting, Installing
    <2> QED
        BY <1>3, <1>4, <2>3, <2>4, OneMoves
<1>12. CASE EndPrune(p)
    <2>1. Sound(p)'
        BY <1>1, <1>12, QuietIsSound DEF EndPrune, Sound, TypeOK, Starting, Installing
    <2> QED
        BY <1>3, <1>4, <1>5, <1>12, <2>1, OneMoves DEF EndPrune
<1> QED
    BY <1>6, <1>7, <1>8, <1>9, <1>10, <1>11, <1>12 DEF Startup

-----------------------------------------------------------------------------
(* The steps of an update. *)

\* While the directory to install to has no executable, the selected runtime
\* is another one.
LEMMA TargetIsNotSelected ==
    ASSUME SelectionIsWhole, NEW b \in Builds, ~HasExecutable(b), marker # None
    PROVE  marker.exe # b
BY DEF SelectionIsWhole, HasExecutable

LEMMA UpdateKeeps ==
    ASSUME IInv, OneAtATime, NEW p \in Procs, Update(p), TypeOK'
    PROVE  IInv'
<1> USE DEF Goto, disk, local, history
<1>1. /\ TypeOK
      /\ Sound(p)
      /\ SelectionIsWhole
      /\ NoHollowRuntime
    BY DEF IInv
<1>2. ASSUME pc[p] \in Installing
      PROVE  /\ build[p] \in Builds
             /\ \A q \in Procs : q # p => pc[q] \in Quiet
    BY <1>1, <1>2, OthersQuiet DEF IInv, Quiet, Installing, Sound
<1>3. ASSUME marker' = marker, versions' = versions
      PROVE  SelectionIsWhole' /\ NoHollowRuntime'
    BY <1>1, <1>3 DEF SelectionIsWhole, NoHollowRuntime
<1>4. ASSUME NEW b \in Builds, BeginInstall(p, b) PROVE IInv'
    <2>1. \A q \in Procs : q # p => pc'[q] \in Quiet
        BY <1>1, <1>4 DEF BeginInstall, Admitted, Quiet, TypeOK
    <2>2. Sound(p)'
        BY <1>1, <1>4 DEF BeginInstall, Sound, TypeOK, Starting, Installing
    <2> QED
        BY <1>3, <1>4, <2>1, <2>2, OneMoves DEF BeginInstall
<1>5. CASE CheckRuntime(p)
    <2>1. \A q \in Procs : q # p => pc'[q] \in Quiet
        BY <1>1, <1>2, <1>5 DEF CheckRuntime, Installing, TypeOK
    <2>2. HasExecutable(build[p]) => versions[build[p]] = "whole"
        BY <1>1, <1>2, <1>5 DEF CheckRuntime, HasExecutable, NoHollowRuntime, Installing
    <2>3. Sound(p)'
        BY <1>1, <1>2, <1>5, <2>2
        DEF CheckRuntime, HasExecutable, Sound, TypeOK, Starting, Installing
    <2> QED
        BY <1>3, <1>5, <2>1, <2>3, OneMoves DEF CheckRuntime
<1>6. CASE ExtractArchive(p)
    <2>1. \A q \in Procs : q # p => pc'[q] \in Quiet
        BY <1>1, <1>2, <1>6 DEF ExtractArchive, Installing, TypeOK
    <2>2. Sound(p)'
        BY <1>1, <1>6 DEF ExtractArchive, HasExecutable, Sound, TypeOK, Starting, Installing
    <2> QED
        BY <1>3, <1>6, <2>1, <2>2, OneMoves DEF ExtractArchive
<1>7. CASE StatTarget(p)
    <2>1. \A q \in Procs : q # p => pc'[q] \in Quiet
        BY <1>1, <1>2, <1>7 DEF StatTarget, Installing, TypeOK
    <2>2. Sound(p)'
        BY <1>1, <1>7 DEF StatTarget, HasExecutable, Sound, TypeOK, Starting, Installing
    <2> QED
        BY <1>3, <1>7, <2>1, <2>2, OneMoves DEF StatTarget
<1>8. CASE ClearTarget(p)
    <2>1. \A q \in Procs : q # p => pc'[q] \in Quiet
        BY <1>1, <1>2, <1>8 DEF ClearTarget, Installing, TypeOK
    <2>2. build[p] \in Builds /\ ~HasExecutable(build[p])
        BY <1>1, <1>2, <1>8 DEF ClearTarget, Sound, Installing
    <2>3. versions[build[p]] \in {"absent", "partial"}
        BY <1>1, <2>2 DEF HasExecutable, TypeOK
    <2>4. PICK content \in Emptied(versions[build[p]]) :
            /\ versions' = [versions EXCEPT ![build[p]] = content]
            /\ Goto(p, IF content = "absent" THEN "activate" ELSE "clear")
        BY <1>8 DEF ClearTarget
    <2>5. content \in {"absent", "partial"}
        BY <2>3, <2>4, EmptiedType
    <2>6. SelectionIsWhole' /\ NoHollowRuntime'
        BY <1>1, <1>8, <2>2, <2>4, <2>5, TargetIsNotSelected
        DEF ClearTarget, SelectionIsWhole, NoHollowRuntime, TypeOK, Markers
    <2>7. Sound(p)'
        BY <1>1, <1>8, <2>2, <2>4, <2>5
        DEF ClearTarget, HasExecutable, Sound, TypeOK, Starting, Installing
    <2> QED
        BY <2>1, <2>6, <2>7, OneMoves
<1>9. CASE Activate(p)
    <2>1. \A q \in Procs : q # p => pc'[q] \in Quiet
        BY <1>1, <1>2, <1>9 DEF Activate, Installing, TypeOK
    <2>2. build[p] \in Builds
        BY <1>2, <1>9 DEF Activate, Installing
    <2>3. SelectionIsWhole' /\ NoHollowRuntime'
        BY <1>1, <1>9, <2>2 DEF Activate, SelectionIsWhole, NoHollowRuntime, TypeOK, Markers
    <2>4. Sound(p)'
        BY <1>1, <1>9, <2>2 DEF Activate, Sound, TypeOK, Starting, Installing
    <2> QED
        BY <2>1, <2>3, <2>4, OneMoves
<1>10. CASE PrepareMarker(p)
    <2>1. \A q \in Procs : q # p => pc'[q] \in Quiet
        BY <1>1, <1>2, <1>10 DEF PrepareMarker, Installing, TypeOK
    <2>2. [exe |-> build[p], launcher |-> Launcher(p)] # None
        <3>1. Launcher(p) \in Launchers \union {None}
            BY <1>1 DEF TypeOK, Launcher, Markers
        <3> QED
            BY <1>2, <1>10, <3>1, BootstrapAssumption DEF PrepareMarker, Installing
    <2>3. Sound(p)'
        BY <1>1, <1>10, <2>2 DEF PrepareMarker, Sound, TypeOK, Starting, Installing
    <2> QED
        BY <1>3, <1>10, <2>1, <2>3, OneMoves DEF PrepareMarker
<1>11. CASE RemoveMarker(p)
    <2>1. \A q \in Procs : q # p => pc'[q] \in Quiet
        BY <1>1, <1>2, <1>11 DEF RemoveMarker, Installing, TypeOK
    <2>2. SelectionIsWhole' /\ NoHollowRuntime'
        BY <1>1, <1>11 DEF RemoveMarker, SelectionIsWhole, NoHollowRuntime
    <2>3. Sound(p)'
        BY <1>1, <1>11 DEF RemoveMarker, Sound, TypeOK, Starting, Installing
    <2> QED
        BY <2>1, <2>2, <2>3, OneMoves
<1>12. CASE SelectRuntime(p)
    <2>1. \A q \in Procs : q # p => pc'[q] \in Quiet
        BY <1>1, <1>2, <1>12 DEF SelectRuntime, Installing, TypeOK
    <2>2. SelectionIsWhole' /\ NoHollowRuntime'
        BY <1>1, <1>12 DEF SelectRuntime, Sound, SelectionIsWhole, NoHollowRuntime
    <2>3. Sound(p)'
        BY <1>1, <1>12 DEF SelectRuntime, Sound, TypeOK, Starting, Installing
    <2> QED
        BY <2>1, <2>2, <2>3, OneMoves
<1>13. ASSUME NEW q \in Procs, Launch(p, q) PROVE IInv'
    <2>1. p # q /\ pc'[p] = "gui" /\ \A r \in Procs : r # q => pc'[r] \in Quiet
        BY <1>1, <1>2, <1>13 DEF Launch, Quiet, Installing, TypeOK
    <2>2. build[p] \in Builds /\ versions[build[p]] = "whole"
        BY <1>1, <1>2, <1>13 DEF Launch, Sound, Installing
    <2>3. Sound(q)'
        BY <1>1, <1>13, <2>1, <2>2 DEF Launch, Sound, TypeOK, Starting, Installing
    <2> QED
        BY <1>3, <1>13, <2>1, <2>3, OneMoves DEF Launch
<1>14. CASE InstallFails(p)
    <2>1. \A q \in Procs : pc'[q] \in Quiet
        BY <1>1, <1>2, <1>14 DEF InstallFails, Quiet, TypeOK
    <2>2. Sound(p)'
        BY <1>1, <1>14 DEF InstallFails, Sound, TypeOK, Starting, Installing
    <2> QED
        BY <1>3, <1>14, <2>1, <2>2, OneMoves DEF InstallFails
<1> QED
    BY <1>4, <1>5, <1>6, <1>7, <1>8, <1>9, <1>10, <1>11, <1>12, <1>13, <1>14 DEF Update

-----------------------------------------------------------------------------
(* The inductive invariant. *)

LEMMA IInvInit == Init => IInv
<1> SUFFICES ASSUME Init PROVE IInv
    OBVIOUS
<1>1. Alone /\ \A p \in Procs : Sound(p)
    BY DEF Init, Alone, Quiet, Sound, Starting, Installing
<1>2. SelectionIsWhole /\ NoHollowRuntime
    BY DEF Init, SelectionIsWhole, NoHollowRuntime
<1> QED
    BY <1>1, <1>2, TypeInit DEF IInv

LEMMA IInvStep ==
    ASSUME OneAtATime
    PROVE  IInv /\ [Next]_vars => IInv'
<1> SUFFICES ASSUME IInv, [Next]_vars PROVE IInv'
    OBVIOUS
<1> USE DEF Goto, disk, local, history
<1>1. TypeOK /\ TypeOK' /\ Alone /\ SelectionIsWhole /\ NoHollowRuntime
    BY TypeStep DEF IInv
<1>2. ASSUME NEW p \in Procs, NEW i \in Builds \union Launchers, StartProduct(p, i)
      PROVE  IInv'
    <2>1. \A q \in Procs : q # p => pc'[q] \in Quiet
        BY <1>1, <1>2 DEF StartProduct, Admitted, Quiet, TypeOK
    <2>2. Sound(p)'
        BY <1>1, <1>2 DEF StartProduct, Sound, TypeOK, Starting, Installing
    <2>3. SelectionIsWhole' /\ NoHollowRuntime'
        BY <1>1, <1>2 DEF StartProduct, SelectionIsWhole, NoHollowRuntime
    <2> QED
        BY <1>1, <2>1, <2>2, <2>3, OneMoves
<1>3. ASSUME NEW p \in Procs, End(p) PROVE IInv'
    <2>1. /\ marker' = marker /\ versions' = versions
          /\ pc' = [pc EXCEPT ![p] = "idle"]
          /\ \A q \in Procs : q # p => /\ build'[q] = build[q] /\ mark'[q] = mark[q]
                                       /\ image'[q] = image[q] /\ todo'[q] = todo[q]
        BY <1>1, <1>3 DEF End, TypeOK
    <2>2. ASSUME NEW q \in Procs, q # p PROVE Sound(q)'
        BY <1>1, <2>1, <2>2 DEF IInv, Sound, HasExecutable, TypeOK
    <2>3. Sound(p)'
        BY <1>1, <2>1 DEF Sound, TypeOK, Starting, Installing
    <2>4. Alone'
        BY <1>1, <2>1 DEF Alone, Quiet, TypeOK
    <2>5. SelectionIsWhole' /\ NoHollowRuntime'
        BY <1>1, <2>1 DEF SelectionIsWhole, NoHollowRuntime
    <2> QED
        BY <1>1, <2>2, <2>3, <2>4, <2>5 DEF IInv
<1>4. CASE UNCHANGED vars
    <2>1. Alone' /\ \A p \in Procs : Sound(p)'
        BY <1>1, <1>4 DEF IInv, Alone, Sound, HasExecutable, vars
    <2>2. SelectionIsWhole' /\ NoHollowRuntime'
        BY <1>1, <1>4 DEF SelectionIsWhole, NoHollowRuntime, vars
    <2> QED
        BY <1>1, <2>1, <2>2 DEF IInv
<1> QED
    BY <1>1, <1>2, <1>3, <1>4, StartupKeeps, UpdateKeeps DEF Next

LEMMA Invariant == ASSUME OneAtATime PROVE Spec => []IInv
BY IInvInit, IInvStep, PTL DEF Spec

-----------------------------------------------------------------------------
(* The theorems. *)

\* Types, and no runtime is ever recorded as a launcher (bootstrap.go:278).
THEOREM TypeCorrect == ASSUME OneAtATime PROVE Spec => []TypeOK
<1>1. IInv => TypeOK
    BY DEF IInv
<1> QED
    BY <1>1, Invariant, PTL

\* The runtime the marker selects is complete, whatever fails or dies.
THEOREM SelectionStaysWhole == ASSUME OneAtATime PROVE Spec => []SelectionIsWhole
<1>1. IInv => SelectionIsWhole
    BY DEF IInv
<1> QED
    BY <1>1, Invariant, PTL

\* Nothing leaves a directory that Install would mistake for a runtime
\* (prune.go:25).
THEOREM NothingIsHollow == ASSUME OneAtATime PROVE Spec => []NoHollowRuntime
<1>1. IInv => NoHollowRuntime
    BY DEF IInv
<1> QED
    BY <1>1, Invariant, PTL

\* A starting runtime is not taken away under its own process.
THEOREM StartersStayWhole == ASSUME OneAtATime PROVE Spec => []StartingIsWhole
<1>1. IInv => StartingIsWhole
    BY DEF IInv, Sound, StartingIsWhole
<1> QED
    BY <1>1, Invariant, PTL
=============================================================================
