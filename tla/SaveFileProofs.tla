--------------------------- MODULE SaveFileProofs ---------------------------
(***************************************************************************)
(* TLAPS proofs about SaveFile for any set of callers and contents: types, *)
(* no lost copies and the refinement of AtomicSave, the last two for the   *)
(* callers of one process.                                                 *)
(***************************************************************************)
EXTENDS SaveFile, TLAPS

\* Past Recover, only a writer goes on, with the content it is to install.
Writing == {"checkTarget", "preserve", "removeBackup", "retain", "install",
            "rollback", "discard"}

WritersCarryData == \A p \in Procs : pc[p] \in Writing => val[p] \in Data

\* At most one call is under way.
Exclusive == \A p, q \in Procs : pc[p] # "idle" /\ pc[q] # "idle" => p = q

\* What a caller has established about the two directory entries by the time
\* it reaches each file-system call.
Prepared(p) ==
    /\ pc[p] \in {"idle", "lstatTarget", "lstatBackup", "recover", "open",
                  "checkTarget", "preserve", "removeBackup", "retain"} => ~had[p]
    /\ pc[p] \in {"idle", "open"} => val[p] = Absent
    /\ pc[p] = "lstatBackup" => target = Absent
    /\ pc[p] = "recover" => target = Absent /\ bak \in Data
    /\ pc[p] \in {"open", "checkTarget"} /\ target = Absent => bak = Absent
    /\ pc[p] \in {"preserve", "removeBackup", "retain", "discard"} => target \in Data
    /\ pc[p] = "removeBackup" => bak \in archives
    /\ pc[p] = "retain" => bak = Absent
    /\ pc[p] = "install" => target = Absent /\ (~had[p] => bak = Absent)
    /\ pc[p] = "rollback" => had[p] /\ target = Absent
    /\ had[p] /\ pc[p] \in {"install", "rollback"} => bak \in Data
    /\ pc[p] = "discard" => (had[p] => bak = target \/ bak \notin owed)

\* The inductive invariant: TypeOK says nothing of the order of the calls, and
\* NothingLost alone is not preserved by Install, Retain or Discard.
IInv ==
    /\ TypeOK
    /\ WritersCarryData
    /\ Exclusive
    /\ \A p \in Procs : Prepared(p)
    /\ NothingLost

-----------------------------------------------------------------------------

Typed == TypeOK /\ WritersCarryData

LEMMA TypedStep == Typed /\ [Next]_vars => Typed'
<1> USE SaveFileAssumption
<1> SUFFICES ASSUME Typed, [Next]_vars PROVE Typed'
  OBVIOUS
<1> USE DEF Typed, TypeOK, WritersCarryData, Writing, Contents, Labels, GivesUp,
            Goto, Return, Files, AfterRecover
<1>1. ASSUME NEW p \in Procs, NEW v \in Data, BeginReplace(p, v)
      PROVE Typed'
  BY <1>1 DEF BeginReplace
<1>2. ASSUME NEW p \in Procs, BeginRead(p)
      PROVE Typed'
  BY <1>2 DEF BeginRead
<1>3. ASSUME NEW p \in Procs, LstatTarget(p)
      PROVE Typed'
  BY <1>3 DEF LstatTarget
<1>4. ASSUME NEW p \in Procs, LstatBackup(p)
      PROVE Typed'
  BY <1>4 DEF LstatBackup
<1>5. ASSUME NEW p \in Procs, RecoverRename(p)
      PROVE Typed'
  BY <1>5 DEF RecoverRename
<1>6. ASSUME NEW p \in Procs, OpenRead(p)
      PROVE Typed'
  BY <1>6 DEF OpenRead
<1>7. ASSUME NEW p \in Procs, CheckTarget(p)
      PROVE Typed'
  BY <1>7 DEF CheckTarget
<1>8. ASSUME NEW p \in Procs, Preserve(p)
      PROVE Typed'
  BY <1>8 DEF Preserve
<1>9. ASSUME NEW p \in Procs, RemoveBackup(p)
      PROVE Typed'
  BY <1>9 DEF RemoveBackup
<1>10. ASSUME NEW p \in Procs, Retain(p)
      PROVE Typed'
  BY <1>10 DEF Retain
<1>11. ASSUME NEW p \in Procs, Install(p)
      PROVE Typed'
  BY <1>11 DEF Install
<1>12. ASSUME NEW p \in Procs, InstallFails(p)
      PROVE Typed'
  <2>1. CASE had[p]
    BY <1>12, <2>1 DEF InstallFails
  <2>2. CASE ~had[p]
    <3>1. Return(p, "failed") /\ UNCHANGED <<target, bak, archives, got, owed>>
      BY ONLY <1>12, <2>2 DEF InstallFails, Files
    <3>2. TypeOK'
      BY <3>1
    <3>3. WritersCarryData'
      BY <3>1
    <3>4. QED
      BY <3>2, <3>3
  <2>3. QED
    BY <2>1, <2>2
<1>13. ASSUME NEW p \in Procs, Rollback(p)
      PROVE Typed'
  BY <1>13 DEF Rollback
<1>14. ASSUME NEW p \in Procs, Discard(p)
      PROVE Typed'
  BY <1>14 DEF Discard
<1>15. ASSUME NEW p \in Procs, NEW label \in GivesUp, Fails(p, label)
      PROVE Typed'
  BY <1>15 DEF Fails
<1>16. ASSUME NEW p \in Procs, Crash(p)
      PROVE Typed'
  BY <1>16 DEF Crash
<1>17. CASE UNCHANGED vars
  BY <1>17 DEF vars
<1>18. QED
  BY <1>1, <1>2, <1>3, <1>4, <1>5, <1>6, <1>7, <1>8, <1>9, <1>10, <1>11, <1>12, <1>13, <1>14, <1>15, <1>16, <1>17 DEF Next

LEMMA TypedInit == Init => Typed
  BY SaveFileAssumption
  DEF Init, Typed, TypeOK, WritersCarryData, Contents, Labels, GivesUp, Writing

\* Every variable keeps its type (TypeOK), for one process or for many.
THEOREM TypeCorrect == Spec => []TypeOK
<1>1. Typed => TypeOK
  BY DEF Typed
<1>2. QED
  BY <1>1, TypedInit, TypedStep, PTL DEF Spec

-----------------------------------------------------------------------------

LEMMA IInvInit == Init => IInv
<1> SUFFICES ASSUME Init PROVE IInv
  OBVIOUS
<1>1. Typed
  BY TypedInit
<1>2. Exclusive /\ NothingLost
  BY DEF Init, Exclusive, NothingLost
<1>3. \A p \in Procs : Prepared(p)
  BY DEF Init, Prepared
<1>4. QED
  BY <1>1, <1>2, <1>3 DEF IInv, Typed

\* With one call at a time, what a caller has established stays true until its
\* next step: each action only has to prepare the step that follows it.
LEMMA IInvStep == ASSUME Serialized PROVE IInv /\ [Next]_vars => IInv'
<1> USE SaveFileAssumption
<1> SUFFICES ASSUME IInv, [Next]_vars PROVE IInv'
  OBVIOUS
<1>1. Typed'
  BY TypedStep DEF IInv, Typed
<1>2. Exclusive' /\ (\A q \in Procs : Prepared(q)') /\ NothingLost'
  <2> USE DEF IInv, TypeOK, Exclusive, Prepared, NothingLost, Contents, Labels,
              GivesUp, Goto, Return, Files, AfterRecover, WritersCarryData, Writing
  <2>1. ASSUME NEW p \in Procs, NEW v \in Data, BeginReplace(p, v)
        PROVE Exclusive' /\ (\A q \in Procs : Prepared(q)') /\ NothingLost'
    <3>1. Exclusive'
      BY <2>1 DEF BeginReplace, Admitted
    <3>2. \A q \in Procs : Prepared(q)'
      BY <2>1 DEF BeginReplace, Admitted
    <3>3. NothingLost'
      BY <2>1 DEF BeginReplace, Admitted
    <3>4. QED
      BY <3>1, <3>2, <3>3
  <2>2. ASSUME NEW p \in Procs, BeginRead(p)
        PROVE Exclusive' /\ (\A q \in Procs : Prepared(q)') /\ NothingLost'
    <3>1. Exclusive'
      BY <2>2 DEF BeginRead, Admitted
    <3>2. \A q \in Procs : Prepared(q)'
      BY <2>2 DEF BeginRead, Admitted
    <3>3. NothingLost'
      BY <2>2 DEF BeginRead, Admitted
    <3>4. QED
      BY <3>1, <3>2, <3>3
  <2>3. ASSUME NEW p \in Procs, LstatTarget(p)
        PROVE Exclusive' /\ (\A q \in Procs : Prepared(q)') /\ NothingLost'
    <3>1. Exclusive'
      BY <2>3 DEF LstatTarget
    <3>2. \A q \in Procs : Prepared(q)'
      BY <2>3 DEF LstatTarget
    <3>3. NothingLost'
      BY <2>3 DEF LstatTarget
    <3>4. QED
      BY <3>1, <3>2, <3>3
  <2>4. ASSUME NEW p \in Procs, LstatBackup(p)
        PROVE Exclusive' /\ (\A q \in Procs : Prepared(q)') /\ NothingLost'
    <3>1. Exclusive'
      BY <2>4 DEF LstatBackup
    <3>2. \A q \in Procs : Prepared(q)'
      BY <2>4 DEF LstatBackup
    <3>3. NothingLost'
      BY <2>4 DEF LstatBackup
    <3>4. QED
      BY <3>1, <3>2, <3>3
  <2>5. ASSUME NEW p \in Procs, RecoverRename(p)
        PROVE Exclusive' /\ (\A q \in Procs : Prepared(q)') /\ NothingLost'
    <3>1. Exclusive'
      BY <2>5 DEF RecoverRename
    <3>2. \A q \in Procs : Prepared(q)'
      BY <2>5 DEF RecoverRename
    <3>3. NothingLost'
      BY <2>5 DEF RecoverRename
    <3>4. QED
      BY <3>1, <3>2, <3>3
  <2>6. ASSUME NEW p \in Procs, OpenRead(p)
        PROVE Exclusive' /\ (\A q \in Procs : Prepared(q)') /\ NothingLost'
    <3>1. Exclusive'
      BY <2>6 DEF OpenRead
    <3>2. \A q \in Procs : Prepared(q)'
      BY <2>6 DEF OpenRead
    <3>3. NothingLost'
      BY <2>6 DEF OpenRead
    <3>4. QED
      BY <3>1, <3>2, <3>3
  <2>7. ASSUME NEW p \in Procs, CheckTarget(p)
        PROVE Exclusive' /\ (\A q \in Procs : Prepared(q)') /\ NothingLost'
    <3>1. Exclusive'
      BY <2>7 DEF CheckTarget
    <3>2. \A q \in Procs : Prepared(q)'
      BY <2>7 DEF CheckTarget
    <3>3. NothingLost'
      BY <2>7 DEF CheckTarget
    <3>4. QED
      BY <3>1, <3>2, <3>3
  <2>8. ASSUME NEW p \in Procs, Preserve(p)
        PROVE Exclusive' /\ (\A q \in Procs : Prepared(q)') /\ NothingLost'
    <3>1. Exclusive'
      BY <2>8 DEF Preserve
    <3>2. \A q \in Procs : Prepared(q)'
      BY <2>8 DEF Preserve
    <3>3. NothingLost'
      BY <2>8 DEF Preserve
    <3>4. QED
      BY <3>1, <3>2, <3>3
  <2>9. ASSUME NEW p \in Procs, RemoveBackup(p)
        PROVE Exclusive' /\ (\A q \in Procs : Prepared(q)') /\ NothingLost'
    <3>1. Exclusive'
      BY <2>9 DEF RemoveBackup
    <3>2. \A q \in Procs : Prepared(q)'
      BY <2>9 DEF RemoveBackup
    <3>3. NothingLost'
      BY <2>9 DEF RemoveBackup
    <3>4. QED
      BY <3>1, <3>2, <3>3
  <2>10. ASSUME NEW p \in Procs, Retain(p)
        PROVE Exclusive' /\ (\A q \in Procs : Prepared(q)') /\ NothingLost'
    <3>1. Exclusive'
      BY <2>10 DEF Retain
    <3>2. \A q \in Procs : Prepared(q)'
      BY <2>10 DEF Retain
    <3>3. NothingLost'
      BY <2>10 DEF Retain
    <3>4. QED
      BY <3>1, <3>2, <3>3
  <2>11. ASSUME NEW p \in Procs, Install(p)
        PROVE Exclusive' /\ (\A q \in Procs : Prepared(q)') /\ NothingLost'
    <3>1. Exclusive'
      BY <2>11 DEF Install, Durable
    <3>2. \A q \in Procs : Prepared(q)'
      BY <2>11 DEF Install, Durable
    <3>3. NothingLost'
      BY <2>11 DEF Install, Durable
    <3>4. QED
      BY <3>1, <3>2, <3>3
  <2>12. ASSUME NEW p \in Procs, InstallFails(p)
        PROVE Exclusive' /\ (\A q \in Procs : Prepared(q)') /\ NothingLost'
    <3>1. Exclusive'
      BY <2>12 DEF InstallFails
    <3>2. \A q \in Procs : Prepared(q)'
      BY <2>12 DEF InstallFails
    <3>3. NothingLost'
      BY <2>12 DEF InstallFails
    <3>4. QED
      BY <3>1, <3>2, <3>3
  <2>13. ASSUME NEW p \in Procs, Rollback(p)
        PROVE Exclusive' /\ (\A q \in Procs : Prepared(q)') /\ NothingLost'
    <3>1. Exclusive'
      BY <2>13 DEF Rollback
    <3>2. \A q \in Procs : Prepared(q)'
      BY <2>13 DEF Rollback
    <3>3. NothingLost'
      BY <2>13 DEF Rollback
    <3>4. QED
      BY <3>1, <3>2, <3>3
  <2>14. ASSUME NEW p \in Procs, Discard(p)
        PROVE Exclusive' /\ (\A q \in Procs : Prepared(q)') /\ NothingLost'
    <3>1. Exclusive'
      BY <2>14 DEF Discard
    <3>2. \A q \in Procs : Prepared(q)'
      BY <2>14 DEF Discard
    <3>3. NothingLost'
      BY <2>14 DEF Discard
    <3>4. QED
      BY <3>1, <3>2, <3>3
  <2>15. ASSUME NEW p \in Procs, NEW label \in GivesUp, Fails(p, label)
        PROVE Exclusive' /\ (\A q \in Procs : Prepared(q)') /\ NothingLost'
    <3>1. Exclusive'
      BY <2>15 DEF Fails
    <3>2. \A q \in Procs : Prepared(q)'
      BY <2>15 DEF Fails
    <3>3. NothingLost'
      BY <2>15 DEF Fails
    <3>4. QED
      BY <3>1, <3>2, <3>3
  <2>16. ASSUME NEW p \in Procs, Crash(p)
        PROVE Exclusive' /\ (\A q \in Procs : Prepared(q)') /\ NothingLost'
    <3>1. Exclusive'
      BY <2>16 DEF Crash
    <3>2. \A q \in Procs : Prepared(q)'
      BY <2>16 DEF Crash
    <3>3. NothingLost'
      BY <2>16 DEF Crash
    <3>4. QED
      BY <3>1, <3>2, <3>3
  <2>17. CASE UNCHANGED vars
    BY <2>17 DEF vars
  <2>18. QED
    BY ONLY [Next]_vars, <2>1, <2>2, <2>3, <2>4, <2>5, <2>6, <2>7, <2>8, <2>9, <2>10, <2>11, <2>12, <2>13, <2>14, <2>15, <2>16, <2>17 DEF Next
<1>3. QED
  BY <1>1, <1>2 DEF IInv, Typed

\* NothingLost for the callers of one process, whatever fails and wherever it
\* is killed: no content that a reader could still want is ever dropped.
THEOREM NothingIsLost == ASSUME Serialized PROVE Spec => []NothingLost
<1>1. IInv => NothingLost
  BY DEF IInv
<1>2. QED
  BY <1>1, IInvInit, IInvStep, PTL DEF Spec

-----------------------------------------------------------------------------

\* The two facts about the mapping that every case below uses: only the job of
\* the process that moves can change, and the register only through a rename.
LEMMA StepsOfRegister ==
  ASSUME IInv, IInv', Serialized, [Next]_vars
  PROVE  [Register!Next]_Register!vars
<1> USE SaveFileAssumption
<1> DEFINE J == [q \in Procs |-> Job(q)]
<1>0. ASSUME NEW p \in Procs, NEW label \in Labels, NEW w \in Data \union {Absent},
             pc' = [pc EXCEPT ![p] = label], val' = [val EXCEPT ![p] = w]
      PROVE  J' = [J EXCEPT ![p] = Job(p)']
  BY <1>0 DEF IInv, TypeOK, Job
<1>ret. ASSUME NEW p \in Procs, NEW outcome, Return(p, outcome)
        PROVE  J' = [J EXCEPT ![p] = "idle"]
  <2>1. /\ pc' = [pc EXCEPT ![p] = "idle"]
        /\ val' = [val EXCEPT ![p] = Absent]
    BY <1>ret DEF Return, Goto
  <2>2. Job(p)' = "idle"
    BY <2>1 DEF IInv, TypeOK, Job
  <2>3. QED
    BY <1>0, <2>1, <2>2 DEF Labels
<1> USE DEF IInv, TypeOK, Contents, Labels, GivesUp, Goto, Return, Files
<1>1. ASSUME NEW p \in Procs, NEW v \in Data, BeginReplace(p, v)
      PROVE  Register!WriteBegin(p, v)
  <2>1. J' = [J EXCEPT ![p] = "write"] /\ Job(p) = "idle"
    <3>1. pc[p] = "idle" /\ pc' = [pc EXCEPT ![p] = "lstatTarget"] /\ val' = [val EXCEPT ![p] = v]
      BY <1>1 DEF BeginReplace, Admitted
    <3>2. J' = [J EXCEPT ![p] = Job(p)']
      BY <1>0, <3>1
    <3>3. Job(p) = "idle" /\ Job(p)' = "write"
      BY <3>1 DEF Job
    <3>4. QED
      BY <3>2, <3>3
  <2>2. QED
    BY <1>1, <2>1 DEF BeginReplace, Register!WriteBegin, Durable
<1>2. ASSUME NEW p \in Procs, BeginRead(p)
      PROVE  Register!ReadBegin(p)
  <2>1. J' = [J EXCEPT ![p] = "read"] /\ Job(p) = "idle"
    <3>1. val[p] = Absent /\ val' = [val EXCEPT ![p] = Absent]
      BY <1>2 DEF BeginRead, Admitted, Prepared
    <3>2. pc[p] = "idle" /\ pc' = [pc EXCEPT ![p] = "lstatTarget"]
      BY <1>2 DEF BeginRead, Admitted
    <3>3. J' = [J EXCEPT ![p] = Job(p)']
      BY <1>0, <3>1, <3>2
    <3>4. Job(p) = "idle" /\ Job(p)' = "read"
      BY <3>1, <3>2 DEF Job
    <3>5. QED
      BY <3>3, <3>4
  <2>2. QED
    BY <1>2, <2>1 DEF BeginRead, Register!ReadBegin, Durable
<1>3. ASSUME NEW p \in Procs, Install(p)
      PROVE  Register!Commit(p)
  <2>1. val[p] \in Data /\ val' = [val EXCEPT ![p] = val[p]]
    BY <1>3 DEF Install, WritersCarryData, Writing
  <2>2. J' = [J EXCEPT ![p] = "written"] /\ Job(p) = "write"
    <3>1. J' = [J EXCEPT ![p] = Job(p)']
      BY <1>3, <1>0, <2>1 DEF Install
    <3>2. Job(p) = "write" /\ Job(p)' = "written"
      BY <1>3, <2>1 DEF Install, Job
    <3>3. QED
      BY <3>1, <3>2
  <2>3. Durable # Irregular /\ Durable' = val[p]
    BY <1>3, <2>1 DEF Install, Durable, Prepared
  <2>4. QED
    BY <1>3, <2>2, <2>3 DEF Install, Register!Commit
<1>4. ASSUME NEW p \in Procs, Discard(p)
      PROVE  Register!WriteReturn(p)
  <2>1. J' = [J EXCEPT ![p] = "idle"] /\ Job(p) = "written"
    <3>1. J' = [J EXCEPT ![p] = "idle"]
      BY ONLY <1>4, <1>ret DEF Discard
    <3>2. Job(p) = "written"
      BY <1>4 DEF Discard, Job
    <3>3. QED
      BY <3>1, <3>2
  <2>2. Durable' = Durable
    BY <1>4 DEF Discard, Durable, Prepared
  <2>3. QED
    BY <1>4, <2>1, <2>2 DEF Discard, Register!WriteReturn, Register!Leave
<1>5. ASSUME NEW p \in Procs, OpenRead(p)
      PROVE  Register!ReadReturn(p)
  <2>1. J' = [J EXCEPT ![p] = "idle"] /\ Job(p) = "read"
    <3>1. J' = [J EXCEPT ![p] = "idle"]
      BY ONLY <1>5, <1>ret DEF OpenRead
    <3>2. Job(p) = "read"
      BY <1>5 DEF OpenRead, Job, Prepared
    <3>3. QED
      BY <3>1, <3>2
  <2>2. Durable' = Durable /\ Durable = target
    BY <1>5 DEF OpenRead, Durable, Prepared
  <2>3. QED
    BY <1>5, <2>1, <2>2 DEF OpenRead, Register!ReadReturn, Register!Leave
<1>6. ASSUME NEW p \in Procs, NEW label \in GivesUp, Fails(p, label)
      PROVE  Register!Abort(p)
  <2>1. J' = [J EXCEPT ![p] = "idle"] /\ Job(p) \in {"read", "write"}
    <3>1. J' = [J EXCEPT ![p] = "idle"]
      BY ONLY <1>6, <1>ret DEF Fails
    <3>2. Job(p) \in {"read", "write"}
      BY <1>6 DEF Fails, Job
    <3>3. QED
      BY <3>1, <3>2
  <2>2. QED
    BY <1>6, <2>1 DEF Fails, Durable, Register!Abort, Register!Leave
<1>7. ASSUME NEW p \in Procs, Rollback(p)
      PROVE  Register!Abort(p)
  <2>1. J' = [J EXCEPT ![p] = "idle"] /\ Job(p) \in {"read", "write"}
    <3>1. J' = [J EXCEPT ![p] = "idle"]
      BY ONLY <1>7, <1>ret DEF Rollback
    <3>2. Job(p) \in {"read", "write"}
      BY <1>7 DEF Rollback, Job
    <3>3. QED
      BY <3>1, <3>2
  <2>2. Durable' = Durable
    BY <1>7 DEF Rollback, Durable, Prepared
  <2>3. QED
    BY <1>7, <2>1, <2>2 DEF Rollback, Register!Abort, Register!Leave
<1>8. ASSUME NEW p \in Procs, Crash(p)
      PROVE  Register!Crash(p)
  <2>1. J' = [J EXCEPT ![p] = "idle"] /\ Job(p) # "idle"
    <3>1. J' = [J EXCEPT ![p] = "idle"]
      BY ONLY <1>8, <1>ret DEF Crash
    <3>2. Job(p) # "idle"
      BY <1>8 DEF Crash, Job
    <3>3. QED
      BY <3>1, <3>2
  <2>2. QED
    BY <1>8, <2>1 DEF Crash, Durable, Register!Crash, Register!Leave
<1>9. ASSUME NEW p \in Procs, InstallFails(p)
      PROVE  Register!Abort(p) \/ UNCHANGED Register!vars
  <2>1. CASE had[p]
    <3>1. J' = J
      BY <1>9, <2>1 DEF InstallFails, Job
    <3>2. QED
      BY <1>9, <2>1, <3>1 DEF InstallFails, Durable, Register!vars
  <2>2. CASE ~had[p]
    <3>1. J' = [J EXCEPT ![p] = "idle"] /\ Job(p) = "write"
      <4>1. val[p] # Absent
        BY <1>9 DEF InstallFails, WritersCarryData, Writing
      <4>2. J' = [J EXCEPT ![p] = "idle"]
        BY <1>9, <1>ret, <2>2 DEF InstallFails
      <4>3. Job(p) = "write"
        BY <1>9, <4>1 DEF InstallFails, Job
      <4>4. QED
        BY <4>2, <4>3
    <3>2. QED
      BY <1>9, <2>2, <3>1 DEF InstallFails, Durable, Register!Abort, Register!Leave
  <2>3. QED
    BY <2>1, <2>2
<1>10. ASSUME NEW p \in Procs, LstatTarget(p)
      PROVE  UNCHANGED Register!vars
  <2>1. J' = J
    BY <1>10 DEF LstatTarget, Job, AfterRecover
  <2>2. Durable' = Durable
    BY <1>10 DEF LstatTarget, Durable, Prepared
  <2>3. QED
    BY <1>10, <2>1, <2>2 DEF LstatTarget, Register!vars
<1>11. ASSUME NEW p \in Procs, LstatBackup(p)
      PROVE  UNCHANGED Register!vars
  <2>1. J' = J
    BY <1>11 DEF LstatBackup, Job, AfterRecover
  <2>2. Durable' = Durable
    BY <1>11 DEF LstatBackup, Durable, Prepared
  <2>3. QED
    BY <1>11, <2>1, <2>2 DEF LstatBackup, Register!vars
<1>12. ASSUME NEW p \in Procs, RecoverRename(p)
      PROVE  UNCHANGED Register!vars
  <2>1. J' = J
    BY <1>12 DEF RecoverRename, Job, AfterRecover
  <2>2. Durable' = Durable
    BY <1>12 DEF RecoverRename, Durable, Prepared
  <2>3. QED
    BY <1>12, <2>1, <2>2 DEF RecoverRename, Register!vars
<1>13. ASSUME NEW p \in Procs, CheckTarget(p)
      PROVE  UNCHANGED Register!vars
  <2>1. J' = J
    BY <1>13 DEF CheckTarget, Job, AfterRecover
  <2>2. Durable' = Durable
    BY <1>13 DEF CheckTarget, Durable, Prepared
  <2>3. QED
    BY <1>13, <2>1, <2>2 DEF CheckTarget, Register!vars
<1>14. ASSUME NEW p \in Procs, Preserve(p)
      PROVE  UNCHANGED Register!vars
  <2>1. J' = J
    BY <1>14 DEF Preserve, Job, AfterRecover
  <2>2. Durable' = Durable
    BY <1>14 DEF Preserve, Durable, Prepared
  <2>3. QED
    BY <1>14, <2>1, <2>2 DEF Preserve, Register!vars
<1>15. ASSUME NEW p \in Procs, RemoveBackup(p)
      PROVE  UNCHANGED Register!vars
  <2>1. J' = J
    BY <1>15 DEF RemoveBackup, Job, AfterRecover
  <2>2. Durable' = Durable
    BY <1>15 DEF RemoveBackup, Durable, Prepared
  <2>3. QED
    BY <1>15, <2>1, <2>2 DEF RemoveBackup, Register!vars
<1>16. ASSUME NEW p \in Procs, Retain(p)
      PROVE  UNCHANGED Register!vars
  <2>1. J' = J
    BY <1>16 DEF Retain, Job, AfterRecover
  <2>2. Durable' = Durable
    BY <1>16 DEF Retain, Durable, Prepared
  <2>3. QED
    BY <1>16, <2>1, <2>2 DEF Retain, Register!vars
<1>17. CASE UNCHANGED vars
  BY <1>17 DEF vars, Register!vars, Durable, Job
<1>18. QED
  BY <1>1, <1>2, <1>3, <1>4, <1>5, <1>6, <1>7, <1>8, <1>9, <1>10, <1>11, <1>12, <1>13, <1>14, <1>15, <1>16, <1>17 DEF Next, Register!Next

\* RegisterSpec: for the callers of one process the step-by-step Replace and
\* Recover are indistinguishable from one atomic register.
THEOREM ImplementsRegister == ASSUME Serialized PROVE Spec => RegisterSpec
<1>1. Init => Register!Init
  BY DEF Init, Register!Init, Durable, Job, Contents, Register!Contents
<1>2. IInv /\ IInv' /\ [Next]_vars => [Register!Next]_Register!vars
  BY StepsOfRegister
<1>3. QED
  BY <1>1, <1>2, IInvInit, IInvStep, PTL DEF Spec, RegisterSpec, Register!Spec

=============================================================================
