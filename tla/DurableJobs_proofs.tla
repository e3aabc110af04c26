------------------------ MODULE DurableJobs_proofs ------------------------
(***************************************************************************)
(* Proofs about DurableJobs, for any number of requests, keys, payloads    *)
(* and worker slots, both engines and any number of crashes.               *)
(***************************************************************************)
EXTENDS DurableJobs, FiniteSetTheorems, TLAPS

-----------------------------------------------------------------------------
(* Control points *)

LEMMA ControlPoints ==
    /\ Opening = {"submit", "start", "prepare", "persist", "finish", "failing", "cancel"}
    /\ Open = {"inSubmit", "inStart", "inPrepare", "inPersist", "inFinish", "inFailing", "inCancel"}
    /\ \A p \in Opening : Inside[p] \in Open
    /\ \A p \in Opening \cup Open : Raise[p] \in {"raised", "failing"}
    /\ Opening \cup Open \cup {"done", "raised", "dispatch", "working", "store", "kill"} = Points
  BY DEF Opening, Open, Inside, Raise, Points, Ended

\* Leaving a unit of work keeps the types of what it touches.
LEMMA CloseType ==
    ASSUME TypeOK, NEW r \in Requests, NEW p \in Points, Close(r, p)
    PROVE  /\ writer' \in Requests \cup {Nobody}
           /\ snap' \in [Requests -> [Jobs -> Status]]
           /\ pc' \in [Requests -> Points]
           /\ target' = target /\ executed' = executed /\ crashes' = crashes
  <1>1. NoRows \in [Jobs -> Status]
    BY DEF NoRows, Status
  <1> QED
    BY <1>1 DEF TypeOK, Close, Goto

LEMMA CommitType ==
    ASSUME TypeOK, NEW r \in Requests, NEW p \in Points, NEW answer \in Status,
           pc[r] \in Open, Commit(r, p, answer)
    PROVE  /\ writer' \in Requests \cup {Nobody}
           /\ snap' \in [Requests -> [Jobs -> Status]]
           /\ pc' \in [Requests -> Points]
           /\ reply' \in [Requests -> Status]
           /\ target' = target /\ executed' = executed /\ crashes' = crashes
  <1>1. PICK lost \in {FALSE, ConnectionMayFail} :
            /\ Close(r, IF lost THEN Raise[pc[r]] ELSE p)
            /\ reply' = IF lost THEN reply ELSE [reply EXCEPT ![r] = answer]
    BY DEF Commit
  <1>2. (IF lost THEN Raise[pc[r]] ELSE p) \in Points
    BY ControlPoints
  <1>3. reply' \in [Requests -> Status]
    BY <1>1 DEF TypeOK
  <1> HIDE DEF Requests, Jobs, Points, Status, TypeOK, Close
  <1> QED
    BY <1>1, <1>2, <1>3, CloseType

LEMMA RollbackType ==
    ASSUME TypeOK, NEW r \in Requests, pc[r] \in Open, Rollback(r)
    PROVE  TypeOK'
  <1>1. Raise[pc[r]] \in Points
    BY ControlPoints
  <1>2. Close(r, Raise[pc[r]]) /\ UNCHANGED <<database, objects, pool, reply>>
    BY DEF Rollback
  <1> QED
    BY <1>1, <1>2, CloseType DEF TypeOK, database, pool

\* Types when only the control point of a request moves.
LEMMA GotoType ==
    ASSUME TypeOK, NEW r \in Requests, NEW p \in Points, Goto(r, p)
    PROVE  pc' \in [Requests -> Points]
  BY DEF TypeOK, Goto

LEMMA AuditType ==
    ASSUME TypeOK, NEW r \in Requests, NEW action \in Actions, NEW status \in Status
    PROVE  audit \cup {AuditRow(r, action, status)}
               \in SUBSET [by : Requests, action : Actions, job : Jobs, status : Status]
  BY DEF TypeOK, AuditRow

LEMMA RowType ==
    ASSUME TypeOK, NEW r \in Requests, NEW status \in Status
    PROVE  [row EXCEPT ![target[r]] = status] \in [Jobs -> Status]
  BY DEF TypeOK

-----------------------------------------------------------------------------
(* Type correctness *)

LEMMA TypeInit == Init => TypeOK
  <1> SUFFICES ASSUME Init PROVE TypeOK
    OBVIOUS
  <1>1. NoRows \in [Jobs -> Status]
    BY DEF NoRows, Status
  <1>2. {"submit", "kill"} \subseteq Points /\ "ABSENT" \in Status
    BY DEF Points, Opening, Inside, Status
  <1>3. pc \in [Requests -> Points]
    BY <1>2 DEF Init
  <1>4. active = {} /\ doomed = {}
    BY DEF Init, Pool!EmptyPool
  <1>5. 0 \in 0..MaxCrashes
    BY BoundsAssumption
  <1> QED
    BY <1>1, <1>2, <1>3, <1>4, <1>5 DEF Init, TypeOK

\* The unit of work of a request is left by a commit that may change rows,
\* products and the audit log within their types.
LEMMA CommitKeepsType ==
    ASSUME TypeOK, NEW r \in Requests, NEW p \in Points, NEW answer \in Status,
           pc[r] \in Open, Commit(r, p, answer),
           row' \in [Jobs -> Status], product' \in SUBSET Jobs,
           audit' \in SUBSET [by : Requests, action : Actions, job : Jobs, status : Status],
           UNCHANGED <<objects, pool>>
    PROVE  TypeOK'
  <1> HIDE DEF Commit
  <1>1. /\ writer' \in Requests \cup {Nobody}
        /\ snap' \in [Requests -> [Jobs -> Status]]
        /\ pc' \in [Requests -> Points]
        /\ reply' \in [Requests -> Status]
        /\ target' = target /\ executed' = executed /\ crashes' = crashes
    BY CommitType
  <1> QED
    BY <1>1 DEF TypeOK, pool

LEMMA TypeUnitOfWork ==
    ASSUME TypeOK, NEW r \in Requests, UnitOfWork(r)
    PROVE  TypeOK'
  <1>1. CASE Begin(r)
    <2>1. RowsOfKey(r) \in [Jobs -> Status]
      BY DEF TypeOK, RowsOfKey, Status
    <2>2. Inside[pc[r]] \in Points
      BY <1>1, ControlPoints DEF Begin
    <2>3. pc' \in [Requests -> Points]
      BY <1>1, <2>2 DEF Begin, Goto, TypeOK
    <2> QED
      BY <1>1, <2>1, <2>3 DEF Begin, TypeOK, database, pool
  <1>2. CASE WriterBusy(r)
    <2>1. Raise[pc[r]] \in Points
      BY <1>2, ControlPoints DEF WriterBusy
    <2>2. pc' \in [Requests -> Points]
      BY <1>2, <2>1 DEF WriterBusy, Goto, TypeOK
    <2> QED
      BY <1>2, <2>2 DEF WriterBusy, TypeOK, database, pool
  <1>3. CASE Disconnect(r)
    BY <1>3, RollbackType DEF Disconnect
  <1> QED
    BY <1>1, <1>2, <1>3 DEF UnitOfWork

LEMMA TypeSubmit ==
    ASSUME TypeOK, NEW r \in Submitters, Submit(r)
    PROVE  TypeOK'
  <1>0. /\ r \in Requests /\ target[r] \in Jobs /\ snap[r][target[r]] \in Status
        /\ reply[r] \in Status /\ row[target[r]] \in Status
    BY DEF Requests, TypeOK
  <1>p. /\ {"start", "prepare", "dispatch", "finish", "failing", "done", "raised",
            "working", "store", "persist"} \subseteq Points
        /\ {"inSubmit", "inStart", "inPrepare", "inPersist", "inFinish", "inFailing"} \subseteq Open
        /\ {"QUEUED", "RUNNING", "SUCCEEDED", "FAILED"} \subseteq Status
        /\ {"JOB_SUBMIT", "JOB_SUBMIT_REUSE"} \subseteq Actions
    BY ControlPoints DEF Points, Ended, Status, Terminal, Actions
  <1>1. CASE UnitOfWork(r)
    BY <1>0, <1>1, TypeUnitOfWork
  <1>2. CASE ReuseJob(r)
    BY <1>0, <1>p, <1>2, CommitKeepsType, AuditType DEF ReuseJob, TypeOK
  <1>3. CASE RefuseJob(r) \/ StartRefused(r) \/ PersistRefused(r) \/ FailureLost(r)
    BY <1>0, <1>p, <1>3, RollbackType DEF RefuseJob, StartRefused, PersistRefused, FailureLost
  <1>4. CASE AcceptJob(r)
    BY <1>0, <1>p, <1>4, CommitKeepsType, AuditType, RowType DEF AcceptJob, TypeOK
  <1>5. CASE StartJob(r)
    BY <1>0, <1>p, <1>5, CommitKeepsType, RowType DEF StartJob, Transition, TypeOK
  <1>6. CASE PrepareInput(r)
    <2>1. PICK p \in {"dispatch", "failing"} : Close(r, p)
      BY <1>6 DEF PrepareInput
    <2> QED
      BY <1>0, <1>p, <1>6, <2>1, CloseType DEF PrepareInput, TypeOK, database, pool
  <1>7. CASE Dispatch(r)
    BY <1>0, <1>p, <1>7, GotoType DEF Dispatch, TypeOK, database, Pool!Admit
  <1>8. CASE DispatchRefused(r)
    BY <1>0, <1>p, <1>8, GotoType DEF DispatchRefused, TypeOK, database, pool
  <1>9. CASE WorkerReturns(r)
    <2>1. pc' \in [Requests -> Points]
      BY <1>0, <1>p, <1>9, GotoType DEF WorkerReturns
    <2> QED
      BY <1>0, <1>9, <2>1 DEF WorkerReturns, TypeOK, database, Pool!Settle
  <1>10. CASE StoreObject(r)
    <2>1. pc' \in [Requests -> Points]
      BY <1>0, <1>p, <1>10, GotoType DEF StoreObject
    <2> QED
      BY <1>0, <1>10, <2>1 DEF StoreObject, TypeOK, database, pool
  <1>11. CASE PersistOutcome(r)
    <2>1. product' \in SUBSET Jobs
      BY <1>0, <1>11 DEF PersistOutcome, TypeOK
    <2> QED
      BY <1>0, <1>p, <1>11, <2>1, CommitKeepsType, RowType DEF PersistOutcome, Transition, TypeOK
  <1>12. CASE RecordFailure(r)
    BY <1>0, <1>p, <1>12, CommitKeepsType, RowType DEF RecordFailure, Transition, TypeOK
  <1>13. CASE ReportEnded(r)
    BY <1>0, <1>p, <1>13, CommitKeepsType DEF ReportEnded, TypeOK, database
  <1>14. CASE FinishJob(r)
    <2>1. CASE snap[r][target[r]] \in {"RUNNING", "SUCCEEDED"}
      <3>1. /\ pc[r] = "inFinish" /\ Commit(r, "done", "SUCCEEDED")
            /\ row' = [row EXCEPT ![target[r]] = "SUCCEEDED"]
            /\ UNCHANGED <<product, audit, objects, pool>>
        BY <1>14, <2>1 DEF FinishJob
      <3>2. row' \in [Jobs -> Status] /\ product' \in SUBSET Jobs
        BY <1>0, <1>p, <3>1, RowType DEF TypeOK
      <3> QED
        BY <1>0, <1>p, <3>1, <3>2, CommitKeepsType DEF TypeOK
    <2>2. CASE snap[r][target[r]] \notin {"RUNNING", "SUCCEEDED"}
      BY <1>0, <1>p, <1>14, <2>2, CloseType DEF FinishJob, TypeOK, pool
    <2> QED
      BY <2>1, <2>2
  <1> QED
    BY <1>1, <1>2, <1>3, <1>4, <1>5, <1>6, <1>7, <1>8, <1>9, <1>10, <1>11, <1>12, <1>13, <1>14
       DEF Submit

LEMMA TypeCancel ==
    ASSUME TypeOK, NEW c \in Cancellers, Cancel(c)
    PROVE  TypeOK'
  <1>0. c \in Requests /\ target[c] \in Jobs /\ snap[c][target[c]] \in Status
    BY DEF Requests, TypeOK
  <1>p. /\ {"cancel", "done"} \subseteq Points /\ "inCancel" \in Open
        /\ "CANCELLED" \in Status /\ {"JOB_CANCEL", "JOB_CANCEL_NOOP"} \subseteq Actions
    BY ControlPoints DEF Points, Ended, Status, Terminal, Actions
  <1>1. CASE StopWorker(c)
    BY <1>0, <1>p, <1>1, GotoType DEF StopWorker, TypeOK, database, Pool!Doom
  <1>2. CASE UnitOfWork(c)
    BY <1>0, <1>2, TypeUnitOfWork
  <1>3. CASE CancelJob(c)
    BY <1>0, <1>p, <1>3, CommitKeepsType, AuditType, RowType DEF CancelJob, TypeOK
  <1>4. CASE CancelNoop(c)
    BY <1>0, <1>p, <1>4, CommitKeepsType, AuditType DEF CancelNoop, TypeOK
  <1>5. CASE CancelRefused(c)
    BY <1>0, <1>p, <1>5, RollbackType DEF CancelRefused
  <1> QED
    BY <1>1, <1>2, <1>3, <1>4, <1>5 DEF Cancel

LEMMA TypeStep == TypeOK /\ [Next]_vars => TypeOK'
  <1> SUFFICES ASSUME TypeOK, [Next]_vars PROVE TypeOK'
    OBVIOUS
  <1>1. CASE \E r \in Submitters : Submit(r)
    BY <1>1, TypeSubmit
  <1>2. CASE \E c \in Cancellers : Cancel(c)
    BY <1>2, TypeCancel
  <1>3. CASE Crash
    <2>1. {"submit", "kill", "done", "raised"} \subseteq Points
      BY ControlPoints DEF Points, Ended
    <2>2. pc' \in [Requests -> Points]
      BY <1>3, <2>1 DEF Crash, TypeOK
    <2>3. snap' \in [Requests -> [Jobs -> Status]]
      BY <1>3 DEF Crash, NoRows, Status
    <2>4. crashes' \in 0..MaxCrashes
      BY <1>3, BoundsAssumption DEF Crash, TypeOK
    <2> QED
      BY <1>3, <2>2, <2>3, <2>4 DEF Crash, TypeOK, database
  <1>4. CASE UNCHANGED vars
    BY <1>4 DEF vars, database, pool, TypeOK
  <1> QED
    BY <1>1, <1>2, <1>3, <1>4 DEF Next

\* The state keeps its types.
THEOREM TypeCorrect == Spec => []TypeOK
  BY TypeInit, TypeStep, PTL DEF Spec

-----------------------------------------------------------------------------
(* Success and products together *)

\* A request that still has to answer a success has seen it committed.  This is
\* what makes OutcomeAtomic inductive: FinishJob may then only confirm it.
FinishHolds ==
    \A r \in Requests :
        /\ pc[r] \in {"finish", "inFinish"} => row[target[r]] = "SUCCEEDED"
        /\ pc[r] = "inFinish" => snap[r][target[r]] = "SUCCEEDED"

OutcomeInv == TypeOK /\ OutcomeAtomic /\ FinishHolds

\* How a step of one request may touch rows and products.
RowStep ==
    \/ UNCHANGED <<row, product>>
    \/ \E j \in Jobs, s \in Status \ {"SUCCEEDED"} :
          row[j] # "SUCCEEDED" /\ row' = [row EXCEPT ![j] = s] /\ product' = product
    \/ \E j \in Jobs :
          row' = [row EXCEPT ![j] = "SUCCEEDED"] /\ product' = product \cup {j}

\* A step of r moves r alone, and to the final unit of work only after a success.
Moves(r) ==
    /\ target' = target
    /\ \A q \in Requests \ {r} : pc'[q] = pc[q] /\ snap'[q] = snap[q]
    /\ pc'[r] = "finish" => row'[target[r]] = "SUCCEEDED"
    /\ pc'[r] = "inFinish" => pc[r] = "finish" /\ snap'[r][target[r]] = row[target[r]]

LEMMA CloseMoves ==
    ASSUME TypeOK, NEW r \in Requests, NEW p \in Points, Close(r, p)
    PROVE  /\ target' = target /\ pc'[r] = p
           /\ \A q \in Requests \ {r} : pc'[q] = pc[q] /\ snap'[q] = snap[q]
  BY DEF TypeOK, Close, Goto

LEMMA CommitMoves ==
    ASSUME TypeOK, NEW r \in Requests, NEW p \in Points, NEW answer \in Status,
           pc[r] \in Open, Commit(r, p, answer)
    PROVE  /\ target' = target /\ pc'[r] \in {p, "raised", "failing"}
           /\ \A q \in Requests \ {r} : pc'[q] = pc[q] /\ snap'[q] = snap[q]
  <1>1. PICK lost \in {FALSE, ConnectionMayFail} : Close(r, IF lost THEN Raise[pc[r]] ELSE p)
    BY DEF Commit
  <1>2. Raise[pc[r]] \in {"raised", "failing"} /\ Raise[pc[r]] \in Points
    BY ControlPoints
  <1> HIDE DEF Points, Requests, Status, Open
  <1> DEFINE point == IF lost THEN Raise[pc[r]] ELSE p
  <1>3. point \in Points /\ point \in {p, "raised", "failing"}
    BY <1>2
  <1>4. Close(r, point)
    BY <1>1
  <1> HIDE DEF point
  <1> QED
    BY <1>3, <1>4, CloseMoves

LEMMA RollbackMoves ==
    ASSUME TypeOK, NEW r \in Requests, pc[r] \in Open, Rollback(r)
    PROVE  Moves(r) /\ RowStep
  <1>1. Raise[pc[r]] \in {"raised", "failing"} /\ Raise[pc[r]] \in Points
    BY ControlPoints
  <1>2. Close(r, Raise[pc[r]]) /\ UNCHANGED <<row, product>>
    BY DEF Rollback, database
  <1>3. /\ target' = target /\ pc'[r] = Raise[pc[r]]
        /\ \A q \in Requests \ {r} : pc'[q] = pc[q] /\ snap'[q] = snap[q]
    BY <1>1, <1>2, CloseMoves
  <1> QED
    BY <1>1, <1>2, <1>3 DEF Moves, RowStep

\* A step that only sets the control point, outside any unit of work.
LEMMA GotoMoves ==
    ASSUME TypeOK, NEW r \in Requests, NEW p \in Points \ {"finish", "inFinish"}, Goto(r, p),
           UNCHANGED <<database, target, snap>>
    PROVE  Moves(r) /\ RowStep
  BY DEF TypeOK, Goto, Moves, RowStep, database

LEMMA UnitOfWorkMoves ==
    ASSUME TypeOK, NEW r \in Requests, UnitOfWork(r)
    PROVE  Moves(r) /\ RowStep
  <1>0. TypeOK /\ target[r] \in Jobs
    BY DEF TypeOK
  <1>1. CASE Begin(r)
    <2>1. Inside[pc[r]] = "inFinish" => pc[r] = "finish"
      BY <1>1 DEF Begin, Opening, Inside
    <2>2. Inside[pc[r]] # "finish"
      BY <1>1, ControlPoints DEF Begin
    <2>3. RowsOfKey(r)[target[r]] = row[target[r]]
      BY <1>0 DEF RowsOfKey
    <2> QED
      BY <1>0, <1>1, <2>1, <2>2, <2>3 DEF Begin, Goto, TypeOK, Moves, RowStep, database
  <1>2. CASE WriterBusy(r)
    <2>1. Raise[pc[r]] \in {"raised", "failing"}
      BY <1>2, ControlPoints DEF WriterBusy
    <2> QED
      BY <1>0, <1>2, <2>1 DEF WriterBusy, Goto, TypeOK, Moves, RowStep, database
  <1>3. CASE Disconnect(r)
    BY <1>3, RollbackMoves DEF Disconnect
  <1> QED
    BY <1>1, <1>2, <1>3 DEF UnitOfWork

LEMMA SubmitMoves ==
    ASSUME TypeOK, FinishHolds, NEW r \in Submitters, Submit(r)
    PROVE  Moves(r) /\ RowStep
  <1>0. /\ r \in Requests /\ target[r] \in Jobs /\ snap[r][target[r]] \in Status
        /\ reply[r] \in Status
    BY DEF Requests, TypeOK
  <1>p. /\ {"start", "prepare", "dispatch", "working", "store", "persist", "finish",
            "failing", "done", "raised"} \subseteq Points
        /\ {"inSubmit", "inStart", "inPrepare", "inPersist", "inFinish", "inFailing"} \subseteq Open
        /\ {"QUEUED", "RUNNING", "FAILED"} \subseteq Status \ {"SUCCEEDED"}
        /\ "SUCCEEDED" \in Status
    BY ControlPoints DEF Points, Ended, Status, Terminal
  <1>1. CASE UnitOfWork(r)
    BY <1>0, <1>1, UnitOfWorkMoves
  <1>2. CASE ReuseJob(r)
    <2>1. pc[r] = "inSubmit" /\ Commit(r, "done", snap[r][target[r]])
      BY <1>2 DEF ReuseJob
    <2>2. UNCHANGED <<row, product>>
      BY <1>2 DEF ReuseJob
    <2> QED
      BY <1>0, <1>p, <2>1, <2>2, CommitMoves DEF Moves, RowStep
  <1>3. CASE RefuseJob(r) \/ StartRefused(r) \/ PersistRefused(r) \/ FailureLost(r)
    BY <1>0, <1>p, <1>3, RollbackMoves DEF RefuseJob, StartRefused, PersistRefused, FailureLost
  <1>4. CASE AcceptJob(r)
    <2>1. pc[r] = "inSubmit" /\ Commit(r, "start", reply[r])
      BY <1>4 DEF AcceptJob
    <2>2. /\ row[target[r]] # "SUCCEEDED" /\ product' = product
          /\ row' = [row EXCEPT ![target[r]] = "QUEUED"]
      BY <1>4 DEF AcceptJob
    <2> QED
      BY <1>0, <1>p, <2>1, <2>2, CommitMoves DEF Moves, RowStep
  <1>5. CASE StartJob(r)
    <2> DEFINE p == IF "prepare" \in StagesOf(target[r]) THEN "prepare" ELSE "dispatch"
    <2>1. pc[r] = "inStart" /\ Commit(r, p, reply[r])
      BY <1>5 DEF StartJob
    <2>2. /\ row[target[r]] # "SUCCEEDED" /\ product' = product
          /\ row' = [row EXCEPT ![target[r]] = "RUNNING"]
      BY <1>5 DEF StartJob, Transition
    <2>3. p \in Points /\ p \in {"prepare", "dispatch"}
      BY <1>p
    <2> HIDE DEF p
    <2> QED
      BY <1>0, <1>p, <2>1, <2>2, <2>3, CommitMoves DEF Moves, RowStep
  <1>6. CASE PrepareInput(r)
    <2>1. PICK p \in {"dispatch", "failing"} : Close(r, p)
      BY <1>6 DEF PrepareInput
    <2>2. UNCHANGED <<row, product>>
      BY <1>6 DEF PrepareInput, database
    <2> QED
      BY <1>0, <1>p, <2>1, <2>2, CloseMoves DEF Moves, RowStep
  <1>7. CASE Dispatch(r) \/ DispatchRefused(r)
    BY <1>0, <1>p, <1>7, GotoMoves DEF Dispatch, DispatchRefused
  <1>8. CASE WorkerReturns(r)
    BY <1>0, <1>p, <1>8, GotoMoves DEF WorkerReturns
  <1>9. CASE StoreObject(r)
    BY <1>0, <1>p, <1>9, GotoMoves DEF StoreObject
  <1>10. CASE PersistOutcome(r)
    <2>1. pc[r] = "inPersist" /\ Commit(r, "finish", reply[r])
      BY <1>10 DEF PersistOutcome
    <2>2. /\ row' = [row EXCEPT ![target[r]] = "SUCCEEDED"]
          /\ product' = product \cup {target[r]}
      BY <1>10 DEF PersistOutcome, Transition
    <2>3. row'[target[r]] = "SUCCEEDED"
      BY <1>0, <2>2 DEF TypeOK
    <2> QED
      BY <1>0, <1>p, <2>1, <2>2, <2>3, CommitMoves DEF Moves, RowStep
  <1>11. CASE RecordFailure(r)
    <2>1. pc[r] = "inFailing" /\ Commit(r, "done", "FAILED")
      BY <1>11 DEF RecordFailure
    <2>2. /\ row[target[r]] # "SUCCEEDED" /\ product' = product
          /\ row' = [row EXCEPT ![target[r]] = "FAILED"]
      BY <1>11 DEF RecordFailure, Transition
    <2> QED
      BY <1>0, <1>p, <2>1, <2>2, CommitMoves DEF Moves, RowStep
  <1>12. CASE ReportEnded(r)
    <2>1. pc[r] = "inFailing" /\ Commit(r, "done", snap[r][target[r]])
      BY <1>12 DEF ReportEnded
    <2>2. UNCHANGED <<row, product>>
      BY <1>12 DEF ReportEnded, database
    <2> QED
      BY <1>0, <1>p, <2>1, <2>2, CommitMoves DEF Moves, RowStep
  <1>13. CASE FinishJob(r)
    <2>1. snap[r][target[r]] = "SUCCEEDED" /\ row[target[r]] = "SUCCEEDED"
      BY <1>0, <1>13 DEF FinishJob, FinishHolds
    <2>2. /\ pc[r] = "inFinish" /\ Commit(r, "done", "SUCCEEDED")
          /\ row' = [row EXCEPT ![target[r]] = "SUCCEEDED"] /\ product' = product
      BY <1>13, <2>1 DEF FinishJob
    <2>3. row' = row
      BY <1>0, <2>1, <2>2 DEF TypeOK
    <2> QED
      BY <1>0, <1>p, <2>2, <2>3, CommitMoves DEF Moves, RowStep
  <1> QED
    BY <1>1, <1>2, <1>3, <1>4, <1>5, <1>6, <1>7, <1>8, <1>9, <1>10, <1>11, <1>12, <1>13
       DEF Submit

LEMMA CancelMoves ==
    ASSUME TypeOK, NEW c \in Cancellers, Cancel(c)
    PROVE  Moves(c) /\ RowStep
  <1>0. c \in Requests /\ target[c] \in Jobs /\ snap[c][target[c]] \in Status
    BY DEF Requests, TypeOK
  <1>p. /\ {"cancel", "done"} \subseteq Points /\ "inCancel" \in Open
        /\ "CANCELLED" \in Status \ {"SUCCEEDED"}
    BY ControlPoints DEF Points, Ended, Status, Terminal
  <1>1. CASE StopWorker(c)
    BY <1>0, <1>p, <1>1, GotoMoves DEF StopWorker
  <1>2. CASE UnitOfWork(c)
    BY <1>0, <1>2, UnitOfWorkMoves
  <1>3. CASE CancelJob(c)
    <2>1. pc[c] = "inCancel" /\ Commit(c, "done", "CANCELLED")
      BY <1>3 DEF CancelJob
    <2>2. /\ row[target[c]] # "SUCCEEDED" /\ product' = product
          /\ row' = [row EXCEPT ![target[c]] = "CANCELLED"]
      BY <1>3 DEF CancelJob
    <2> QED
      BY <1>0, <1>p, <2>1, <2>2, CommitMoves DEF Moves, RowStep
  <1>4. CASE CancelNoop(c)
    <2>1. pc[c] = "inCancel" /\ Commit(c, "done", snap[c][target[c]])
      BY <1>4 DEF CancelNoop
    <2>2. UNCHANGED <<row, product>>
      BY <1>4 DEF CancelNoop
    <2> QED
      BY <1>0, <1>p, <2>1, <2>2, CommitMoves DEF Moves, RowStep
  <1>5. CASE CancelRefused(c)
    BY <1>0, <1>p, <1>5, RollbackMoves DEF CancelRefused
  <1> QED
    BY <1>1, <1>2, <1>3, <1>4, <1>5 DEF Cancel

\* A success stays, and products go with it.
LEMMA RowStepKeeps ==
    ASSUME TypeOK, OutcomeAtomic, RowStep
    PROVE  /\ OutcomeAtomic'
           /\ \A j \in Jobs : row[j] = "SUCCEEDED" => row'[j] = "SUCCEEDED"
  BY DEF TypeOK, OutcomeAtomic, RowStep

LEMMA MovesKeeps ==
    ASSUME OutcomeInv, NEW r \in Requests, Moves(r), RowStep, TypeOK'
    PROVE  OutcomeInv'
  <1>1. OutcomeAtomic' /\ \A j \in Jobs : row[j] = "SUCCEEDED" => row'[j] = "SUCCEEDED"
    BY RowStepKeeps DEF OutcomeInv
  <1>2. \A q \in Requests : target[q] \in Jobs
    BY DEF OutcomeInv, TypeOK
  <1>3. ASSUME NEW q \in Requests
        PROVE  /\ pc'[q] \in {"finish", "inFinish"} => row'[target'[q]] = "SUCCEEDED"
               /\ pc'[q] = "inFinish" => snap'[q][target'[q]] = "SUCCEEDED"
    <2>1. CASE q = r
      BY <1>1, <1>2, <2>1 DEF OutcomeInv, FinishHolds, Moves
    <2>2. CASE q # r
      BY <1>1, <1>2, <2>2 DEF OutcomeInv, FinishHolds, Moves
    <2> QED
      BY <2>1, <2>2
  <1>4. FinishHolds'
    BY <1>3 DEF FinishHolds
  <1> QED
    BY <1>1, <1>4 DEF OutcomeInv

LEMMA OutcomeStep == OutcomeInv /\ [Next]_vars => OutcomeInv'
  <1> SUFFICES ASSUME OutcomeInv, [Next]_vars PROVE OutcomeInv'
    OBVIOUS
  <1>0. TypeOK /\ FinishHolds /\ TypeOK' /\ Submitters \subseteq Requests /\ Cancellers \subseteq Requests
    BY TypeStep DEF OutcomeInv, Requests
  <1>1. CASE \E r \in Submitters : Submit(r)
    BY <1>0, <1>1, SubmitMoves, MovesKeeps
  <1>2. CASE \E c \in Cancellers : Cancel(c)
    BY <1>0, <1>2, CancelMoves, MovesKeeps
  <1>3. CASE Crash
    BY <1>0, <1>3 DEF Crash, OutcomeInv, OutcomeAtomic, FinishHolds, TypeOK, database
  <1>4. CASE UNCHANGED vars
    BY <1>0, <1>4 DEF vars, database, OutcomeInv, OutcomeAtomic, FinishHolds
  <1> QED
    BY <1>1, <1>2, <1>3, <1>4 DEF Next

LEMMA OutcomeInit == Init => OutcomeInv
  <1> SUFFICES ASSUME Init PROVE OutcomeInv
    OBVIOUS
  <1>1. TypeOK
    BY TypeInit
  <1>2. OutcomeAtomic /\ FinishHolds
    BY DEF Init, NoRows, OutcomeAtomic, FinishHolds
  <1> QED
    BY <1>1, <1>2 DEF OutcomeInv

\* A job's release and outputs are visible exactly when its row says SUCCEEDED,
\* under any interleaving of submits, cancels, crashes and lost acknowledgements.
THEOREM OutcomesAreAtomic == Spec => []OutcomeAtomic
  <1>1. OutcomeInv => OutcomeAtomic
    BY DEF OutcomeInv
  <1> QED
    BY <1>1, OutcomeInit, OutcomeStep, PTL DEF Spec

-----------------------------------------------------------------------------
(* One execution of a job *)

\* A request owns the job it accepted until it ends.
Owning == Points \ ({"submit", "inSubmit", "kill", "cancel", "inCancel"} \cup Ended)
Owns(r, j) == pc[r] \in Owning /\ target[r] = j

\* The inductive invariant: an accepted job has at most one request that owns
\* it, and nobody else has dispatched its worker; an absent job has neither.
SingleOwner ==
    /\ \A r \in Requests, j \in Jobs :
          Owns(r, j) => row[j] # "ABSENT" /\ executed[j] \subseteq {r}
    /\ \A r, s \in Requests, j \in Jobs : Owns(r, j) /\ Owns(s, j) => r = s
    /\ \A j \in Jobs : row[j] = "ABSENT" => executed[j] = {}

\* A canceller never owns a job.
CancellersApart ==
    \A c \in Cancellers : pc[c] \in {"kill", "cancel", "inCancel", "done", "raised"}

OwnerInv == TypeOK /\ SingleOwner /\ CancellersApart /\ AtMostOneExecution

\* What a step of r may do to owners, rows and executions: it becomes an owner
\* only by accepting an absent job, and only an owner dispatches.
Tracks(r) ==
    /\ target' = target
    /\ \A q \in Requests \ {r} : pc'[q] = pc[q]
    /\ pc'[r] \in Owning => \/ pc[r] \in Owning
                            \/ row[target[r]] = "ABSENT" /\ row'[target[r]] # "ABSENT"
    /\ \A j \in Jobs : row[j] # "ABSENT" => row'[j] # "ABSENT"
    /\ \/ executed' = executed
       \/ /\ pc[r] \in Owning
          /\ executed' = [executed EXCEPT ![target[r]] = @ \cup {r}]

LEMMA OwningPoints ==
    Owning = {"start", "inStart", "prepare", "inPrepare", "dispatch", "working", "store",
              "persist", "inPersist", "finish", "inFinish", "failing", "inFailing"}
  BY DEF Owning, Points, Opening, Open, Inside, Ended

LEMMA CommitPoint ==
    ASSUME TypeOK, NEW r \in Requests, NEW p \in Points, NEW answer \in Status,
           pc[r] \in Open, Commit(r, p, answer)
    PROVE  /\ target' = target /\ executed' = executed
           /\ pc'[r] \in {p, Raise[pc[r]]}
           /\ \A q \in Requests \ {r} : pc'[q] = pc[q]
  <1>1. PICK lost \in {FALSE, ConnectionMayFail} : Close(r, IF lost THEN Raise[pc[r]] ELSE p)
    BY DEF Commit
  <1> DEFINE point == IF lost THEN Raise[pc[r]] ELSE p
  <1>2. point \in {p, Raise[pc[r]]} /\ point \in Points
    BY ControlPoints
  <1>3. Close(r, point)
    BY <1>1
  <1> HIDE DEF point, Points, Requests, Status, Open, Raise
  <1>4. executed' = executed
    BY <1>3 DEF Close
  <1> QED
    BY <1>2, <1>3, <1>4, CloseMoves

LEMMA RollbackTracks ==
    ASSUME TypeOK, NEW r \in Requests, pc[r] \in Open, Rollback(r)
    PROVE  Tracks(r)
  <1>1. /\ Raise[pc[r]] \in Points
        /\ Raise[pc[r]] \in Owning => pc[r] \in Owning
    BY ControlPoints, OwningPoints DEF Raise
  <1>2. Close(r, Raise[pc[r]]) /\ row' = row /\ executed' = executed
    BY DEF Rollback, database, Close
  <1> QED
    BY <1>1, <1>2, CloseMoves DEF Tracks

\* The control point moves within the owner's part, and no row changes.
LEMMA OwnerTracks ==
    ASSUME TypeOK, NEW r \in Requests, pc[r] \in Owning, NEW p \in Points, Goto(r, p),
           UNCHANGED <<row, target, executed>>
    PROVE  Tracks(r)
  BY DEF TypeOK, Goto, Tracks

LEMMA UnitOfWorkTracks ==
    ASSUME TypeOK, NEW r \in Requests, UnitOfWork(r)
    PROVE  Tracks(r)
  <1>1. CASE Begin(r)
    <2>1. Inside[pc[r]] \in Owning => pc[r] \in Owning
      BY <1>1, OwningPoints DEF Begin, Opening, Inside
    <2> QED
      BY <1>1, <2>1 DEF Begin, Goto, TypeOK, Tracks, database
  <1>2. CASE WriterBusy(r)
    <2>1. Raise[pc[r]] \in Owning => pc[r] \in Owning
      BY <1>2, OwningPoints DEF WriterBusy, Opening, Inside, Raise
    <2> QED
      BY <1>2, <2>1 DEF WriterBusy, Goto, TypeOK, Tracks, database
  <1>3. CASE Disconnect(r)
    BY <1>3, RollbackTracks DEF Disconnect
  <1> QED
    BY <1>1, <1>2, <1>3 DEF UnitOfWork

LEMMA SubmitTracks ==
    ASSUME TypeOK, NEW r \in Submitters, Submit(r)
    PROVE  Tracks(r)
  <1>0. /\ r \in Requests /\ target[r] \in Jobs /\ snap[r][target[r]] \in Status
        /\ reply[r] \in Status
    BY DEF Requests, TypeOK
  <1>p. /\ {"start", "prepare", "dispatch", "working", "store", "persist", "finish",
            "failing", "done", "raised"} \subseteq Points
        /\ {"inSubmit", "inStart", "inPrepare", "inPersist", "inFinish", "inFailing"} \subseteq Open
        /\ {"QUEUED", "RUNNING", "FAILED", "SUCCEEDED"} \subseteq Status
    BY ControlPoints DEF Points, Ended, Status, Terminal
  <1>1. CASE UnitOfWork(r)
    BY <1>0, <1>1, UnitOfWorkTracks
  <1>2. CASE ReuseJob(r)
    <2>1. pc[r] = "inSubmit" /\ Commit(r, "done", snap[r][target[r]]) /\ row' = row
      BY <1>2 DEF ReuseJob
    <2>2. "done" \notin Owning /\ Raise["inSubmit"] \notin Owning
      BY OwningPoints DEF Raise
    <2> QED
      BY <1>0, <1>p, <2>1, <2>2, CommitPoint DEF Tracks
  <1>3. CASE RefuseJob(r) \/ StartRefused(r) \/ PersistRefused(r) \/ FailureLost(r)
    BY <1>0, <1>p, <1>3, RollbackTracks DEF RefuseJob, StartRefused, PersistRefused, FailureLost
  <1>4. CASE AcceptJob(r)
    <2>1. /\ pc[r] = "inSubmit" /\ Commit(r, "start", reply[r]) /\ row[target[r]] = "ABSENT"
          /\ row' = [row EXCEPT ![target[r]] = "QUEUED"]
      BY <1>4 DEF AcceptJob
    <2>2. row'[target[r]] = "QUEUED" /\ \A j \in Jobs : row[j] # "ABSENT" => row'[j] # "ABSENT"
      BY <1>0, <2>1 DEF TypeOK
    <2> QED
      BY <1>0, <1>p, <2>1, <2>2, CommitPoint DEF Tracks
  <1>5. CASE StartJob(r)
    <2> DEFINE p == IF "prepare" \in StagesOf(target[r]) THEN "prepare" ELSE "dispatch"
    <2>1. /\ pc[r] = "inStart" /\ Commit(r, p, reply[r])
          /\ row' = [row EXCEPT ![target[r]] = "RUNNING"]
      BY <1>5 DEF StartJob, Transition
    <2>2. \A j \in Jobs : row[j] # "ABSENT" => row'[j] # "ABSENT"
      BY <1>0, <2>1 DEF TypeOK
    <2>3. p \in Points
      BY <1>p
    <2> HIDE DEF p
    <2> QED
      BY <1>0, <1>p, <2>1, <2>2, <2>3, CommitPoint, OwningPoints DEF Tracks
  <1>6. CASE PrepareInput(r)
    <2>1. PICK p \in {"dispatch", "failing"} : Close(r, p)
      BY <1>6 DEF PrepareInput
    <2>2. pc[r] = "inPrepare" /\ row' = row /\ executed' = executed
      BY <1>6, <2>1 DEF PrepareInput, database, Close
    <2> QED
      BY <1>0, <1>p, <2>1, <2>2, CloseMoves, OwningPoints DEF Tracks
  <1>7. CASE Dispatch(r)
    <2>1. pc[r] \in Owning
      BY <1>7, OwningPoints DEF Dispatch
    <2> QED
      BY <1>0, <1>p, <1>7, <2>1 DEF Dispatch, Goto, TypeOK, Tracks, database
  <1>8. CASE DispatchRefused(r) \/ WorkerReturns(r) \/ StoreObject(r)
    <2>1. pc[r] \in Owning
      BY <1>8, OwningPoints DEF DispatchRefused, WorkerReturns, StoreObject
    <2>2. UNCHANGED <<row, target, executed>>
      BY <1>8 DEF DispatchRefused, WorkerReturns, StoreObject, database
    <2>3. \E p \in {"failing", "store", "persist"} : Goto(r, p)
      BY <1>8 DEF DispatchRefused, WorkerReturns, StoreObject
    <2> QED
      BY <1>0, <1>p, <2>1, <2>2, <2>3, OwnerTracks
  <1>9. CASE PersistOutcome(r)
    <2>1. /\ pc[r] = "inPersist" /\ Commit(r, "finish", reply[r])
          /\ row' = [row EXCEPT ![target[r]] = "SUCCEEDED"]
      BY <1>9 DEF PersistOutcome, Transition
    <2>2. \A j \in Jobs : row[j] # "ABSENT" => row'[j] # "ABSENT"
      BY <1>0, <2>1 DEF TypeOK
    <2> QED
      BY <1>0, <1>p, <2>1, <2>2, CommitPoint, OwningPoints DEF Tracks
  <1>10. CASE RecordFailure(r)
    <2>1. /\ pc[r] = "inFailing" /\ Commit(r, "done", "FAILED")
          /\ row' = [row EXCEPT ![target[r]] = "FAILED"]
      BY <1>10 DEF RecordFailure, Transition
    <2>2. \A j \in Jobs : row[j] # "ABSENT" => row'[j] # "ABSENT"
      BY <1>0, <2>1 DEF TypeOK
    <2> QED
      BY <1>0, <1>p, <2>1, <2>2, CommitPoint, OwningPoints DEF Tracks
  <1>11. CASE ReportEnded(r)
    <2>1. pc[r] = "inFailing" /\ Commit(r, "done", snap[r][target[r]]) /\ row' = row
      BY <1>11 DEF ReportEnded, database
    <2> QED
      BY <1>0, <1>p, <2>1, CommitPoint, OwningPoints DEF Tracks
  <1>12. CASE FinishJob(r)
    <2>1. CASE snap[r][target[r]] \in {"RUNNING", "SUCCEEDED"}
      <3>1. /\ pc[r] = "inFinish" /\ Commit(r, "done", "SUCCEEDED")
            /\ row' = [row EXCEPT ![target[r]] = "SUCCEEDED"]
        BY <1>12, <2>1 DEF FinishJob
      <3>2. \A j \in Jobs : row[j] # "ABSENT" => row'[j] # "ABSENT"
        BY <1>0, <3>1 DEF TypeOK
      <3> QED
        BY <1>0, <1>p, <3>1, <3>2, CommitPoint, OwningPoints DEF Tracks
    <2>2. CASE snap[r][target[r]] \notin {"RUNNING", "SUCCEEDED"}
      <3>1. pc[r] = "inFinish" /\ Close(r, "raised") /\ row' = row /\ executed' = executed
        BY <1>12, <2>2 DEF FinishJob, Close
      <3> QED
        BY <1>0, <1>p, <3>1, CloseMoves, OwningPoints DEF Tracks
    <2> QED
      BY <2>1, <2>2
  <1> QED
    BY <1>1, <1>2, <1>3, <1>4, <1>5, <1>6, <1>7, <1>8, <1>9, <1>10, <1>11, <1>12 DEF Submit

\* A step of a canceller also stays in its own part of the control points.
LEMMA CancelTracks ==
    ASSUME TypeOK, CancellersApart, NEW c \in Cancellers, Cancel(c)
    PROVE  Tracks(c) /\ pc'[c] \in {"kill", "cancel", "inCancel", "done", "raised"}
  <1>0. /\ c \in Requests /\ target[c] \in Jobs /\ snap[c][target[c]] \in Status
        /\ pc[c] \in {"kill", "cancel", "inCancel", "done", "raised"}
    BY DEF Requests, TypeOK, CancellersApart
  <1>p. /\ {"cancel", "done", "raised"} \subseteq Points /\ "inCancel" \in Open
        /\ "CANCELLED" \in Status /\ Raise["inCancel"] = "raised"
        /\ {"cancel", "inCancel", "done", "raised"} \cap Owning = {}
    BY ControlPoints, OwningPoints DEF Points, Ended, Status, Terminal, Raise
  <1>1. CASE StopWorker(c)
    BY <1>0, <1>p, <1>1 DEF StopWorker, Goto, TypeOK, Tracks, database
  <1>2. CASE Begin(c) \/ WriterBusy(c)
    <2>1. pc[c] = "cancel"
      BY <1>0, <1>2 DEF Begin, WriterBusy, Opening, Inside
    <2>2. pc'[c] \in {"inCancel", "raised"}
      BY <1>0, <1>2, <2>1 DEF Begin, WriterBusy, Goto, Inside, Raise, TypeOK
    <2> QED
      BY <1>0, <1>2, <2>2, UnitOfWorkTracks DEF UnitOfWork
  <1>3. CASE CancelJob(c)
    <2>1. /\ pc[c] = "inCancel" /\ Commit(c, "done", "CANCELLED")
          /\ row' = [row EXCEPT ![target[c]] = "CANCELLED"]
      BY <1>3 DEF CancelJob
    <2>2. \A j \in Jobs : row[j] # "ABSENT" => row'[j] # "ABSENT"
      BY <1>0, <2>1 DEF TypeOK
    <2> QED
      BY <1>0, <1>p, <2>1, <2>2, CommitPoint DEF Tracks
  <1>4. CASE CancelNoop(c)
    <2>1. pc[c] = "inCancel" /\ Commit(c, "done", snap[c][target[c]]) /\ row' = row
      BY <1>4 DEF CancelNoop
    <2> QED
      BY <1>0, <1>p, <2>1, CommitPoint DEF Tracks
  <1>5. CASE CancelRefused(c) \/ Disconnect(c)
    <2>0. pc[c] = "inCancel" /\ Rollback(c)
      BY <1>0, <1>5, ControlPoints DEF CancelRefused, Disconnect
    <2>1. Close(c, "raised")
      BY <1>p, <2>0 DEF Rollback
    <2> QED
      BY <1>0, <1>p, <2>0, <2>1, RollbackTracks, CloseMoves
  <1> QED
    BY <1>1, <1>2, <1>3, <1>4, <1>5 DEF Cancel, UnitOfWork

LEMMA TracksKeeps ==
    ASSUME TypeOK, SingleOwner, AtMostOneExecution, NEW r \in Requests, Tracks(r)
    PROVE  SingleOwner' /\ AtMostOneExecution'
  <1>0. target[r] \in Jobs /\ executed \in [Jobs -> SUBSET Submitters]
    BY DEF TypeOK
  <1>1. \A q \in Requests, j \in Jobs :
            Owns(q, j)' => \/ Owns(q, j)
                           \/ q = r /\ j = target[r] /\ row[j] = "ABSENT" /\ row'[j] # "ABSENT"
    BY DEF Tracks, Owns
  <1>2. \A j \in Jobs : \/ executed'[j] = executed[j]
                        \/ Owns(r, j) /\ executed'[j] = executed[j] \cup {r}
    BY <1>0 DEF Tracks, Owns
  <1>3. \A q \in Requests, j \in Jobs :
            Owns(q, j)' => row'[j] # "ABSENT" /\ executed'[j] \subseteq {q}
    BY <1>1, <1>2 DEF SingleOwner, Tracks
  <1>4. \A q, s \in Requests, j \in Jobs : Owns(q, j)' /\ Owns(s, j)' => q = s
    BY <1>1 DEF SingleOwner
  <1>5. \A j \in Jobs : row'[j] = "ABSENT" => executed'[j] = {}
    BY <1>2 DEF SingleOwner, Tracks
  <1>6. \A j \in Jobs : \A q, s \in executed'[j] : q = s
    BY <1>2 DEF SingleOwner, AtMostOneExecution
  <1> QED
    BY <1>3, <1>4, <1>5, <1>6 DEF SingleOwner, AtMostOneExecution

LEMMA OwnerStep == OwnerInv /\ [Next]_vars => OwnerInv'
  <1> SUFFICES ASSUME OwnerInv, [Next]_vars PROVE OwnerInv'
    OBVIOUS
  <1>0. /\ TypeOK /\ SingleOwner /\ CancellersApart /\ AtMostOneExecution /\ TypeOK'
        /\ Submitters \subseteq Requests /\ Cancellers \subseteq Requests
        /\ Submitters \cap Cancellers = {}
    BY TypeStep, RequestsAssumption DEF OwnerInv, Requests
  <1>1. CASE \E r \in Submitters : Submit(r)
    <2>1. PICK r \in Submitters : Submit(r)
      BY <1>1
    <2>2. Tracks(r)
      BY <1>0, <2>1, SubmitTracks
    <2>3. CancellersApart'
      BY <1>0, <2>2 DEF Tracks, CancellersApart
    <2> QED
      BY <1>0, <2>2, <2>3, TracksKeeps DEF OwnerInv
  <1>2. CASE \E c \in Cancellers : Cancel(c)
    <2>1. PICK c \in Cancellers : Cancel(c)
      BY <1>2
    <2>2. Tracks(c) /\ pc'[c] \in {"kill", "cancel", "inCancel", "done", "raised"}
      BY <1>0, <2>1, CancelTracks
    <2>3. CancellersApart'
      BY <1>0, <2>2 DEF Tracks, CancellersApart
    <2> QED
      BY <1>0, <2>2, <2>3, TracksKeeps DEF OwnerInv
  <1>3. CASE Crash
    <2>1. /\ pc' = [r \in Requests |-> IF pc[r] \in {"submit", "kill", "done"} THEN pc[r] ELSE "raised"]
          /\ row' = row /\ executed' = executed
      BY <1>3 DEF Crash, database
    <2>2. \A r \in Requests, j \in Jobs : ~Owns(r, j)'
      BY <2>1, OwningPoints DEF Owns
    <2>3. CancellersApart'
      BY <1>0, <2>1 DEF CancellersApart
    <2> QED
      BY <1>0, <2>1, <2>2, <2>3 DEF OwnerInv, SingleOwner, AtMostOneExecution
  <1>4. CASE UNCHANGED vars
    BY <1>0, <1>4 DEF vars, database, OwnerInv, SingleOwner, Owns, CancellersApart,
                      AtMostOneExecution
  <1> QED
    BY <1>1, <1>2, <1>3, <1>4 DEF Next

LEMMA OwnerInit == Init => OwnerInv
  <1> SUFFICES ASSUME Init PROVE OwnerInv
    OBVIOUS
  <1>1. TypeOK
    BY TypeInit
  <1>2. CancellersApart
    BY RequestsAssumption DEF Init, CancellersApart, Requests
  <1>3. \A r \in Requests, j \in Jobs : ~Owns(r, j)
    BY OwningPoints DEF Init, Owns
  <1>4. SingleOwner /\ AtMostOneExecution
    BY <1>3 DEF Init, SingleOwner, AtMostOneExecution
  <1> QED
    BY <1>1, <1>2, <1>4 DEF OwnerInv

\* However often a request is repeated, and whatever crashes, a job's worker is
\* dispatched by at most one request.
THEOREM ExecutedAtMostOnce == Spec => []AtMostOneExecution
  <1>1. OwnerInv => AtMostOneExecution
    BY DEF OwnerInv
  <1> QED
    BY <1>1, OwnerInit, OwnerStep, PTL DEF Spec

-----------------------------------------------------------------------------
(* One job per key, under the single writer *)

\* Whoever is inside a unit of work holds the lease, so what it read is current.
LeaseHolds ==
    \A r \in Requests : pc[r] \in Open => writer = r /\ snap[r] = RowsOfKey(r)

KeyInv == TypeOK /\ LeaseHolds /\ OneJobPerKey

\* A step of r is outside any unit of work, opens one under a free lease, or
\* closes its own; only then do rows appear, and only AcceptJob adds one.
Leased(r) ==
    /\ target' = target
    /\ \A q \in Requests \ {r} : pc'[q] = pc[q] /\ snap'[q] = snap[q]
    /\ \/ pc[r] \notin Open /\ pc'[r] \notin Open /\ writer' = writer /\ row' = row
       \/ /\ pc[r] \notin Open /\ writer = Nobody /\ writer' = r
          /\ row' = row /\ snap'[r] = RowsOfKey(r)
       \/ /\ pc[r] \in Open /\ pc'[r] \notin Open
          /\ \/ \A j \in Jobs : row[j] = "ABSENT" => row'[j] = "ABSENT"
             \/ KeyHolders(r) = {} /\ row' = [row EXCEPT ![target[r]] = "QUEUED"]

LEMMA OutsideOpen ==
    /\ Open \cap (Opening \cup {"dispatch", "working", "store", "kill", "done", "raised"}) = {}
    /\ {"start", "prepare", "dispatch", "working", "store", "persist", "finish", "failing",
        "cancel", "done", "raised"} \subseteq Points
    /\ {"start", "prepare", "persist", "finish", "failing", "cancel"} \subseteq Opening
  BY ControlPoints

LEMMA RollbackLeased ==
    ASSUME TypeOK, NEW r \in Requests, pc[r] \in Open, Rollback(r)
    PROVE  Leased(r)
  <1>1. Raise[pc[r]] \in {"raised", "failing"} /\ Raise[pc[r]] \in Points
    BY ControlPoints
  <1>2. Close(r, Raise[pc[r]]) /\ row' = row
    BY DEF Rollback, database
  <1>3. pc'[r] \notin Open
    BY <1>1, <1>2, CloseMoves, OutsideOpen
  <1> QED
    BY <1>1, <1>2, <1>3, CloseMoves DEF Leased

\* A commit that makes no absent row present.
LEMMA CommitLeased ==
    ASSUME TypeOK, NEW r \in Requests, pc[r] \in Open, NEW p \in Points \ Open,
           NEW answer \in Status, Commit(r, p, answer),
           \/ \A j \in Jobs : row[j] = "ABSENT" => row'[j] = "ABSENT"
           \/ KeyHolders(r) = {} /\ row' = [row EXCEPT ![target[r]] = "QUEUED"]
    PROVE  Leased(r)
  <1>1. /\ target' = target /\ pc'[r] \in {p, "raised", "failing"}
        /\ \A q \in Requests \ {r} : pc'[q] = pc[q] /\ snap'[q] = snap[q]
    BY CommitMoves
  <1>2. pc'[r] \notin Open
    BY <1>1, OutsideOpen
  <1> QED
    BY <1>1, <1>2 DEF Leased

LEMMA UnitOfWorkLeased ==
    ASSUME TypeOK, Engine = "SQLITE", NEW r \in Requests, UnitOfWork(r)
    PROVE  Leased(r)
  <1>1. CASE Begin(r)
    <2>1. pc[r] \notin Open
      BY <1>1, OutsideOpen DEF Begin
    <2> QED
      BY <1>1, <2>1 DEF Begin, Goto, TypeOK, Leased, database
  <1>2. CASE WriterBusy(r)
    <2>1. Raise[pc[r]] \notin Open /\ pc[r] \notin Open
      BY <1>2, OutsideOpen, ControlPoints DEF WriterBusy
    <2> QED
      BY <1>2, <2>1 DEF WriterBusy, Goto, TypeOK, Leased, database
  <1>3. CASE Disconnect(r)
    BY <1>3, RollbackLeased DEF Disconnect
  <1> QED
    BY <1>1, <1>2, <1>3 DEF UnitOfWork

\* A step between units of work.
LEMMA GotoLeased ==
    ASSUME TypeOK, NEW r \in Requests, pc[r] \notin Open, NEW p \in Points \ Open, Goto(r, p),
           UNCHANGED <<row, writer, target, snap>>
    PROVE  Leased(r)
  BY DEF TypeOK, Goto, Leased

LEMMA SubmitLeased ==
    ASSUME TypeOK, Engine = "SQLITE", LeaseHolds, NEW r \in Submitters, Submit(r)
    PROVE  Leased(r)
  <1>0. /\ r \in Requests /\ target[r] \in Jobs /\ snap[r][target[r]] \in Status
        /\ reply[r] \in Status
    BY DEF Requests, TypeOK
  <1>p. /\ {"start", "prepare", "dispatch", "working", "store", "persist", "finish",
            "failing", "done", "raised"} \subseteq Points \ Open
        /\ {"inSubmit", "inStart", "inPrepare", "inPersist", "inFinish", "inFailing"} \subseteq Open
        /\ {"dispatch", "working", "store"} \cap Open = {}
        /\ {"FAILED", "SUCCEEDED"} \subseteq Status
    BY ControlPoints, OutsideOpen DEF Status, Terminal
  <1>s. pc[r] \in Open => snap[r][target[r]] = row[target[r]]
    BY <1>0 DEF LeaseHolds, RowsOfKey
  <1>1. CASE UnitOfWork(r)
    BY <1>0, <1>1, UnitOfWorkLeased
  <1>2. CASE ReuseJob(r)
    <2>1. pc[r] = "inSubmit" /\ Commit(r, "done", snap[r][target[r]]) /\ row' = row
      BY <1>2 DEF ReuseJob
    <2> QED
      BY <1>0, <1>p, <2>1, CommitLeased
  <1>3. CASE RefuseJob(r) \/ StartRefused(r) \/ PersistRefused(r) \/ FailureLost(r)
    BY <1>0, <1>p, <1>3, RollbackLeased DEF RefuseJob, StartRefused, PersistRefused, FailureLost
  <1>4. CASE AcceptJob(r)
    <2>1. /\ pc[r] = "inSubmit" /\ Commit(r, "start", reply[r]) /\ KeyHolders(r) = {}
          /\ row' = [row EXCEPT ![target[r]] = "QUEUED"]
      BY <1>4 DEF AcceptJob
    <2> QED
      BY <1>0, <1>p, <2>1, CommitLeased
  <1>5. CASE StartJob(r)
    <2> DEFINE p == IF "prepare" \in StagesOf(target[r]) THEN "prepare" ELSE "dispatch"
    <2>1. /\ pc[r] = "inStart" /\ Commit(r, p, reply[r]) /\ row[target[r]] # "ABSENT"
          /\ row' = [row EXCEPT ![target[r]] = "RUNNING"]
      BY <1>5 DEF StartJob, Transition
    <2>2. \A j \in Jobs : row[j] = "ABSENT" => row'[j] = "ABSENT"
      BY <1>0, <2>1 DEF TypeOK
    <2>3. p \in Points \ Open
      BY <1>p
    <2> HIDE DEF p
    <2> QED
      BY <1>0, <1>p, <2>1, <2>2, <2>3, CommitLeased
  <1>6. CASE PrepareInput(r)
    <2>1. PICK p \in {"dispatch", "failing"} : Close(r, p)
      BY <1>6 DEF PrepareInput
    <2>2. pc[r] = "inPrepare" /\ row' = row
      BY <1>6 DEF PrepareInput, database
    <2> QED
      BY <1>0, <1>p, <2>1, <2>2, CloseMoves DEF Leased
  <1>7. CASE Dispatch(r) \/ DispatchRefused(r) \/ WorkerReturns(r) \/ StoreObject(r)
    <2>1. pc[r] \in {"dispatch", "working", "store"} /\ UNCHANGED <<row, writer, target, snap>>
      BY <1>7 DEF Dispatch, DispatchRefused, WorkerReturns, StoreObject, database
    <2>2. \E p \in {"failing", "working", "store", "persist"} : Goto(r, p)
      BY <1>7 DEF Dispatch, DispatchRefused, WorkerReturns, StoreObject
    <2> QED
      BY <1>0, <1>p, <2>1, <2>2, GotoLeased
  <1>8. CASE PersistOutcome(r)
    <2>1. /\ pc[r] = "inPersist" /\ Commit(r, "finish", reply[r]) /\ row[target[r]] # "ABSENT"
          /\ row' = [row EXCEPT ![target[r]] = "SUCCEEDED"]
      BY <1>8 DEF PersistOutcome, Transition
    <2>2. \A j \in Jobs : row[j] = "ABSENT" => row'[j] = "ABSENT"
      BY <1>0, <2>1 DEF TypeOK
    <2> QED
      BY <1>0, <1>p, <2>1, <2>2, CommitLeased
  <1>9. CASE RecordFailure(r)
    <2>1. /\ pc[r] = "inFailing" /\ Commit(r, "done", "FAILED") /\ row[target[r]] # "ABSENT"
          /\ row' = [row EXCEPT ![target[r]] = "FAILED"]
      BY <1>9 DEF RecordFailure, Transition
    <2>2. \A j \in Jobs : row[j] = "ABSENT" => row'[j] = "ABSENT"
      BY <1>0, <2>1 DEF TypeOK
    <2> QED
      BY <1>0, <1>p, <2>1, <2>2, CommitLeased
  <1>10. CASE ReportEnded(r)
    <2>1. pc[r] = "inFailing" /\ Commit(r, "done", snap[r][target[r]]) /\ row' = row
      BY <1>10 DEF ReportEnded, database
    <2> QED
      BY <1>0, <1>p, <2>1, CommitLeased
  <1>11. CASE FinishJob(r)
    <2>1. CASE snap[r][target[r]] \in {"RUNNING", "SUCCEEDED"}
      <3>1. /\ pc[r] = "inFinish" /\ Commit(r, "done", "SUCCEEDED")
            /\ row' = [row EXCEPT ![target[r]] = "SUCCEEDED"]
        BY <1>11, <2>1 DEF FinishJob
      <3>2. row[target[r]] # "ABSENT"
        BY <1>p, <1>s, <2>1, <3>1
      <3>3. \A j \in Jobs : row[j] = "ABSENT" => row'[j] = "ABSENT"
        BY <1>0, <3>1, <3>2 DEF TypeOK
      <3> QED
        BY <1>0, <1>p, <3>1, <3>3, CommitLeased
    <2>2. CASE snap[r][target[r]] \notin {"RUNNING", "SUCCEEDED"}
      <3>1. pc[r] = "inFinish" /\ Close(r, "raised") /\ row' = row
        BY <1>11, <2>2 DEF FinishJob
      <3> QED
        BY <1>0, <1>p, <3>1, CloseMoves DEF Leased
    <2> QED
      BY <2>1, <2>2
  <1> QED
    BY <1>1, <1>2, <1>3, <1>4, <1>5, <1>6, <1>7, <1>8, <1>9, <1>10, <1>11 DEF Submit

LEMMA CancelLeased ==
    ASSUME TypeOK, Engine = "SQLITE", NEW c \in Cancellers, Cancel(c)
    PROVE  Leased(c)
  <1>0. c \in Requests /\ target[c] \in Jobs /\ snap[c][target[c]] \in Status
    BY DEF Requests, TypeOK
  <1>p. /\ {"cancel", "done"} \subseteq Points \ Open /\ "inCancel" \in Open /\ "kill" \notin Open
        /\ "CANCELLED" \in Status
    BY ControlPoints, OutsideOpen DEF Status, Terminal
  <1>1. CASE StopWorker(c)
    BY <1>0, <1>p, <1>1, GotoLeased DEF StopWorker, database
  <1>2. CASE UnitOfWork(c)
    BY <1>0, <1>2, UnitOfWorkLeased
  <1>3. CASE CancelJob(c)
    <2>1. /\ pc[c] = "inCancel" /\ Commit(c, "done", "CANCELLED") /\ row[target[c]] # "ABSENT"
          /\ row' = [row EXCEPT ![target[c]] = "CANCELLED"]
      BY <1>3 DEF CancelJob
    <2>2. \A j \in Jobs : row[j] = "ABSENT" => row'[j] = "ABSENT"
      BY <1>0, <2>1 DEF TypeOK
    <2> QED
      BY <1>0, <1>p, <2>1, <2>2, CommitLeased
  <1>4. CASE CancelNoop(c)
    <2>1. pc[c] = "inCancel" /\ Commit(c, "done", snap[c][target[c]]) /\ row' = row
      BY <1>4 DEF CancelNoop
    <2> QED
      BY <1>0, <1>p, <2>1, CommitLeased
  <1>5. CASE CancelRefused(c)
    BY <1>0, <1>p, <1>5, RollbackLeased DEF CancelRefused
  <1> QED
    BY <1>1, <1>2, <1>3, <1>4, <1>5 DEF Cancel

LEMMA LeasedKeeps ==
    ASSUME KeyInv, NEW r \in Requests, Leased(r)
    PROVE  LeaseHolds' /\ OneJobPerKey'
  <1>0. /\ target[r] \in Jobs /\ row \in [Jobs -> Status]
        /\ LeaseHolds /\ OneJobPerKey /\ target' = target
    BY DEF KeyInv, TypeOK, Leased
  <1>n. Nobody \notin Requests
    BY RequestsAssumption
  <1>1. CASE pc[r] \notin Open /\ pc'[r] \notin Open /\ writer' = writer /\ row' = row
    BY <1>0, <1>1 DEF LeaseHolds, OneJobPerKey, Leased, RowsOfKey
  <1>2. CASE /\ pc[r] \notin Open /\ writer = Nobody /\ writer' = r
             /\ row' = row /\ snap'[r] = RowsOfKey(r)
    <2>1. \A q \in Requests : pc[q] \notin Open
      BY <1>0, <1>n, <1>2 DEF LeaseHolds
    <2>2. RowsOfKey(r)' = RowsOfKey(r)
      BY <1>0, <1>2 DEF RowsOfKey
    <2>3. LeaseHolds'
      BY <1>2, <2>1, <2>2 DEF LeaseHolds, Leased
    <2> QED
      BY <1>0, <1>2, <2>3 DEF OneJobPerKey
  <1>3. CASE pc[r] \in Open /\ pc'[r] \notin Open
    <2>1. \A q \in Requests : pc'[q] \notin Open
      BY <1>0, <1>3 DEF LeaseHolds, Leased
    <2>2. LeaseHolds'
      BY <2>1 DEF LeaseHolds
    <2>3. CASE \A j \in Jobs : row[j] = "ABSENT" => row'[j] = "ABSENT"
      BY <1>0, <2>2, <2>3 DEF OneJobPerKey
    <2>4. CASE KeyHolders(r) = {} /\ row' = [row EXCEPT ![target[r]] = "QUEUED"]
      <3>1. snap[r] = RowsOfKey(r)
        BY <1>0, <1>3 DEF LeaseHolds
      <3>2. \A j \in Jobs : KeyOf(j) = KeyOf(target[r]) => row[j] = "ABSENT"
        BY <2>4, <3>1 DEF KeyHolders, RowsOfKey
      <3>3. \A j \in Jobs : row'[j] # "ABSENT" => j = target[r] \/ row[j] # "ABSENT"
        BY <1>0, <2>4
      <3> QED
        BY <1>0, <2>2, <3>2, <3>3 DEF OneJobPerKey
    <2> QED
      BY <1>3, <2>3, <2>4 DEF Leased
  <1> QED
    BY <1>1, <1>2, <1>3 DEF Leased

LEMMA KeyStep == Engine = "SQLITE" /\ KeyInv /\ [Next]_vars => KeyInv'
  <1> SUFFICES ASSUME Engine = "SQLITE", KeyInv, [Next]_vars PROVE KeyInv'
    OBVIOUS
  <1>0. /\ TypeOK /\ LeaseHolds /\ OneJobPerKey /\ TypeOK'
        /\ Submitters \subseteq Requests /\ Cancellers \subseteq Requests
    BY TypeStep DEF KeyInv, Requests
  <1>1. CASE \E r \in Submitters : Submit(r)
    BY <1>0, <1>1, SubmitLeased, LeasedKeeps DEF KeyInv
  <1>2. CASE \E c \in Cancellers : Cancel(c)
    BY <1>0, <1>2, CancelLeased, LeasedKeeps DEF KeyInv
  <1>3. CASE Crash
    <2>1. /\ pc' = [r \in Requests |-> IF pc[r] \in {"submit", "kill", "done"} THEN pc[r] ELSE "raised"]
          /\ row' = row
      BY <1>3 DEF Crash, database
    <2>2. \A r \in Requests : pc'[r] \notin Open
      BY <2>1, ControlPoints, OutsideOpen
    <2> QED
      BY <1>0, <2>1, <2>2 DEF KeyInv, LeaseHolds, OneJobPerKey
  <1>4. CASE UNCHANGED vars
    BY <1>0, <1>4 DEF vars, database, KeyInv, LeaseHolds, OneJobPerKey, RowsOfKey
  <1> QED
    BY <1>1, <1>2, <1>3, <1>4 DEF Next

LEMMA KeyInit == Init => KeyInv
  <1> SUFFICES ASSUME Init PROVE KeyInv
    OBVIOUS
  <1>1. TypeOK
    BY TypeInit
  <1>2. \A r \in Requests : pc[r] \notin Open
    BY ControlPoints, OutsideOpen DEF Init
  <1>3. LeaseHolds /\ OneJobPerKey
    BY <1>2 DEF Init, NoRows, LeaseHolds, OneJobPerKey
  <1> QED
    BY <1>1, <1>3 DEF KeyInv

\* Under the writer lease of the SQLite engine an idempotency key never
\* identifies two accepted jobs: what submit read under the key is still so
\* when it inserts the row.
THEOREM KeysAreExclusive == ASSUME Engine = "SQLITE" PROVE Spec => []OneJobPerKey
  <1>1. KeyInv /\ [Next]_vars => KeyInv'
    BY KeyStep
  <1>2. KeyInv => OneJobPerKey
    BY DEF KeyInv
  <1> QED
    BY <1>1, <1>2, KeyInit, PTL DEF Spec

-----------------------------------------------------------------------------
(* What a step of a request leaves in the database, and what that keeps true *)

\* Points of a request whose job has been started.
Started == {"prepare", "inPrepare", "dispatch", "working", "store", "persist", "inPersist",
            "finish", "inFinish", "failing", "inFailing"}
StartedHolds == \A r \in Requests : pc[r] \in Started => row[target[r]] \notin {"ABSENT", "QUEUED"}

Persisting == {"persist", "inPersist"}
Stored(j) == "store" \in StagesOf(j) => j \in objects
StoredHolds == \A r \in Requests : pc[r] \in Persisting => Stored(target[r])

\* An end that a unit of work has read is final: it is still there when it is left.
EndsReadStand == \A r \in Requests, j \in Jobs : snap[r][j] \in Terminal => row[j] = snap[r][j]

\* The entries of the audit log, one by one.
AuditInv ==
    /\ \A a \in audit :
          /\ a.action = "JOB_SUBMIT" => row[a.job] # "ABSENT"
          /\ a.action = "JOB_CANCEL" => row[a.job] = "CANCELLED"
          /\ a.action = "JOB_CANCEL_NOOP" => a.status \in Terminal /\ a.status = row[a.job]
    /\ \A j \in Jobs :
          /\ row[j] # "ABSENT" => \E a \in audit : a.job = j /\ a.action = "JOB_SUBMIT"
          /\ row[j] = "CANCELLED" => \E a \in audit : a.job = j /\ a.action = "JOB_CANCEL"
    /\ \A a, b \in audit :
          a.job = b.job /\ a.action = b.action /\ a.action \in {"JOB_SUBMIT", "JOB_CANCEL"} => a = b

HistoryInv ==
    /\ TypeOK /\ FinishHolds /\ StartedHolds /\ StoredHolds /\ EndsReadStand
    /\ AuditInv /\ ReplyStands /\ ArtifactBeforeRelease

Becomes(j, status) == row' = [row EXCEPT ![j] = status]
Logs(r, action, status) == audit' = audit \cup {AuditRow(r, action, status)}

\* The seven ways to write to the database: a job starts, ends or is accepted, or
\* only the audit log tells of the request.
Writes(r) ==
    LET j == target[r] IN
    \/ UNCHANGED <<row, product, audit>>
    \/ \E status \in Status : Logs(r, "JOB_SUBMIT_REUSE", status) /\ UNCHANGED <<row, product>>
    \/ /\ snap[r][j] \in Terminal /\ Logs(r, "JOB_CANCEL_NOOP", snap[r][j])
       /\ UNCHANGED <<row, product>>
    \/ /\ pc[r] = "inSubmit" /\ KeyHolders(r) = {} /\ row[j] = "ABSENT"
       /\ Becomes(j, "QUEUED") /\ Logs(r, "JOB_SUBMIT", "QUEUED") /\ UNCHANGED product
    \/ row[j] = "QUEUED" /\ Becomes(j, "RUNNING") /\ UNCHANGED <<product, audit>>
    \/ /\ pc[r] = "inPersist" /\ row[j] = "RUNNING"
       /\ Becomes(j, "SUCCEEDED") /\ product' = product \cup {j} /\ UNCHANGED audit
    \/ row[j] = "RUNNING" /\ Becomes(j, "FAILED") /\ UNCHANGED <<product, audit>>
    \/ /\ row[j] \in {"QUEUED", "RUNNING"}
       /\ Becomes(j, "CANCELLED") /\ Logs(r, "JOB_CANCEL", "CANCELLED") /\ UNCHANGED product

\* The rest of a step: r alone moves, into the points of a started job by starting
\* it, to the commit of its outcome with the artifact stored; it is answered with
\* the status it has read or written.
Steps(r) ==
    /\ target' = target /\ objects \subseteq objects'
    /\ \A q \in Requests \ {r} : pc'[q] = pc[q] /\ snap'[q] = snap[q] /\ reply'[q] = reply[q]
    /\ snap'[r] \in {NoRows, RowsOfKey(r), snap[r]}
    /\ reply'[r] \in {reply[r], snap[r][target[r]], row'[target[r]]}
    /\ pc'[r] \in Started => pc[r] \in Started \/ row'[target[r]] = "RUNNING"
    /\ pc'[r] \in Persisting => pc[r] \in Persisting \/ Stored(target[r])'

Effect(r) == Steps(r) /\ Writes(r)

LEMMA CloseSteps ==
    ASSUME TypeOK, NEW r \in Requests, NEW p \in Points, Close(r, p), reply' = reply,
           objects' = objects, p \in Started => pc[r] \in Started, p \notin Persisting
    PROVE  Steps(r)
  <1>1. snap'[r] = NoRows /\ pc'[r] = p
    BY DEF Close, Goto, TypeOK
  <1> QED
    BY <1>1, CloseMoves DEF Steps

LEMMA CommitSteps ==
    ASSUME TypeOK, NEW r \in Requests, NEW p \in Points, NEW answer \in Status,
           pc[r] \in Open, Commit(r, p, answer), objects' = objects,
           answer \in {reply[r], snap[r][target[r]], row'[target[r]]},
           p \in Started => pc[r] \in Started \/ row'[target[r]] = "RUNNING",
           p \notin Persisting
    PROVE  Steps(r)
  <1>1. PICK lost \in {FALSE, ConnectionMayFail} :
            /\ Close(r, IF lost THEN Raise[pc[r]] ELSE p)
            /\ reply' = IF lost THEN reply ELSE [reply EXCEPT ![r] = answer]
    BY DEF Commit
  <1>2. /\ \A q \in Requests \ {r} : reply'[q] = reply[q]
        /\ reply'[r] \in {reply[r], snap[r][target[r]], row'[target[r]]}
    BY <1>1 DEF TypeOK
  <1>3. /\ Raise[pc[r]] \in Points /\ Raise[pc[r]] \notin Persisting
        /\ Raise[pc[r]] \in Started => pc[r] \in Started
    BY ControlPoints DEF Raise, Started, Persisting
  <1> DEFINE point == IF lost THEN Raise[pc[r]] ELSE p
  <1>4. /\ point \in Points /\ point \notin Persisting
        /\ point \in Started => pc[r] \in Started \/ row'[target[r]] = "RUNNING"
    BY <1>3
  <1>5. Close(r, point)
    BY <1>1
  <1> HIDE DEF point, Points, Requests, Status, Open, Raise
  <1>6. snap'[r] = NoRows
    BY <1>5 DEF Close, TypeOK
  <1> QED
    BY <1>2, <1>4, <1>5, <1>6, CloseMoves DEF Steps

LEMMA RollbackEffect ==
    ASSUME TypeOK, NEW r \in Requests, pc[r] \in Open, Rollback(r)
    PROVE  Effect(r)
  <1>1. /\ Raise[pc[r]] \in Points /\ Raise[pc[r]] \notin Persisting
        /\ Raise[pc[r]] \in Started => pc[r] \in Started
    BY ControlPoints DEF Raise, Started, Persisting
  <1>2. /\ Close(r, Raise[pc[r]]) /\ reply' = reply /\ objects' = objects
        /\ UNCHANGED <<row, product, audit>>
    BY DEF Rollback, database
  <1>3. Steps(r)
    BY <1>1, <1>2, CloseSteps
  <1> QED
    BY <1>2, <1>3 DEF Effect, Writes

LEMMA UnitOfWorkEffect ==
    ASSUME TypeOK, NEW r \in Requests, UnitOfWork(r)
    PROVE  Effect(r)
  <1>1. CASE Begin(r)
    <2>1. /\ Inside[pc[r]] \in Started => pc[r] \in Started
          /\ Inside[pc[r]] \in Persisting => pc[r] \in Persisting
      BY <1>1 DEF Begin, Opening, Inside, Started, Persisting
    <2>2. /\ pc'[r] = Inside[pc[r]] /\ snap'[r] = RowsOfKey(r)
          /\ \A q \in Requests \ {r} : pc'[q] = pc[q] /\ snap'[q] = snap[q]
      BY <1>1 DEF Begin, Goto, TypeOK
    <2>3. UNCHANGED <<row, product, audit, objects, target, reply>>
      BY <1>1 DEF Begin, database
    <2> QED
      BY <2>1, <2>2, <2>3 DEF Effect, Writes, Steps
  <1>2. CASE WriterBusy(r)
    <2>1. /\ Raise[pc[r]] \in Started => pc[r] \in Started
          /\ Raise[pc[r]] \notin Persisting
      BY <1>2 DEF WriterBusy, Opening, Inside, Raise, Started, Persisting
    <2>2. pc'[r] = Raise[pc[r]] /\ \A q \in Requests \ {r} : pc'[q] = pc[q]
      BY <1>2 DEF WriterBusy, Goto, TypeOK
    <2>3. UNCHANGED <<row, product, audit, objects, target, reply, snap>>
      BY <1>2 DEF WriterBusy, database
    <2> QED
      BY <2>1, <2>2, <2>3 DEF Effect, Writes, Steps
  <1>3. CASE Disconnect(r)
    BY <1>3, RollbackEffect DEF Disconnect
  <1> QED
    BY <1>1, <1>2, <1>3 DEF UnitOfWork

\* A step that only sets the control point, outside any unit of work.
LEMMA GotoEffect ==
    ASSUME TypeOK, NEW r \in Requests, NEW p \in Points, Goto(r, p), objects \subseteq objects',
           UNCHANGED <<database, target, snap, reply>>,
           p \in Started => pc[r] \in Started,
           p \in Persisting => pc[r] \in Persisting \/ Stored(target[r])'
    PROVE  Effect(r)
  <1>1. pc'[r] = p /\ \A q \in Requests \ {r} : pc'[q] = pc[q]
    BY DEF Goto, TypeOK
  <1> QED
    BY <1>1 DEF Effect, Writes, Steps, database

LEMMA SubmitEffect ==
    ASSUME TypeOK, FinishHolds, StartedHolds, NEW r \in Submitters, Submit(r)
    PROVE  Effect(r)
  <1>0. /\ r \in Requests /\ target[r] \in Jobs /\ snap[r][target[r]] \in Status
        /\ reply[r] \in Status /\ row \in [Jobs -> Status]
    BY DEF Requests, TypeOK
  <1>p. /\ {"start", "prepare", "dispatch", "working", "store", "persist", "finish",
            "failing", "done", "raised"} \subseteq Points
        /\ {"inSubmit", "inStart", "inPrepare", "inPersist", "inFinish", "inFailing"} \subseteq Open
        /\ {"QUEUED", "RUNNING", "FAILED", "SUCCEEDED"} \subseteq Status
        /\ {"start", "done", "raised"} \cap Started = {}
        /\ {"start", "prepare", "dispatch", "working", "store", "finish", "failing", "done",
            "raised"} \cap Persisting = {}
        /\ {"dispatch", "working", "store", "inPrepare", "inPersist", "inFinish", "inFailing"}
               \subseteq Started
    BY ControlPoints DEF Points, Ended, Status, Terminal, Started, Persisting
  <1>w. ASSUME NEW s \in Status, row' = [row EXCEPT ![target[r]] = s] PROVE row'[target[r]] = s
    BY <1>0, <1>w
  <1>1. CASE UnitOfWork(r)
    BY <1>0, <1>1, UnitOfWorkEffect
  <1>2. CASE ReuseJob(r)
    <2>1. /\ pc[r] = "inSubmit" /\ Commit(r, "done", snap[r][target[r]]) /\ objects' = objects
          /\ Logs(r, "JOB_SUBMIT_REUSE", snap[r][target[r]]) /\ UNCHANGED <<row, product>>
      BY <1>2 DEF ReuseJob, Logs
    <2>2. Steps(r)
      BY <1>0, <1>p, <2>1, CommitSteps
    <2> QED
      BY <1>0, <2>1, <2>2 DEF Effect, Writes
  <1>3. CASE RefuseJob(r) \/ StartRefused(r) \/ PersistRefused(r) \/ FailureLost(r)
    BY <1>0, <1>p, <1>3, RollbackEffect DEF RefuseJob, StartRefused, PersistRefused, FailureLost
  <1>4. CASE AcceptJob(r)
    <2>1. /\ pc[r] = "inSubmit" /\ Commit(r, "start", reply[r]) /\ objects' = objects
          /\ KeyHolders(r) = {} /\ row[target[r]] = "ABSENT" /\ Becomes(target[r], "QUEUED")
          /\ Logs(r, "JOB_SUBMIT", "QUEUED") /\ UNCHANGED product
      BY <1>4 DEF AcceptJob, Becomes, Logs
    <2>2. Steps(r)
      BY <1>0, <1>p, <2>1, CommitSteps
    <2> QED
      BY <2>1, <2>2 DEF Effect, Writes
  <1>5. CASE StartJob(r)
    <2> DEFINE p == IF "prepare" \in StagesOf(target[r]) THEN "prepare" ELSE "dispatch"
    <2>1. /\ pc[r] = "inStart" /\ Commit(r, p, reply[r]) /\ objects' = objects
          /\ row[target[r]] = "QUEUED" /\ Becomes(target[r], "RUNNING")
          /\ UNCHANGED <<product, audit>>
      BY <1>5 DEF StartJob, Transition, Becomes
    <2>2. row'[target[r]] = "RUNNING"
      BY <1>p, <1>w, <2>1 DEF Becomes
    <2>3. p \in Points /\ p \notin Persisting
      BY <1>p
    <2> HIDE DEF p
    <2>4. Steps(r)
      BY <1>0, <1>p, <2>1, <2>2, <2>3, CommitSteps
    <2> QED
      BY <2>1, <2>4 DEF Effect, Writes
  <1>6. CASE PrepareInput(r)
    <2>1. PICK p \in {"dispatch", "failing"} : Close(r, p)
      BY <1>6 DEF PrepareInput
    <2>2. /\ pc[r] = "inPrepare" /\ UNCHANGED <<row, product, audit>>
          /\ objects' = objects /\ reply' = reply
      BY <1>6 DEF PrepareInput, database
    <2>3. Steps(r)
      BY <1>0, <1>p, <2>1, <2>2, CloseSteps
    <2> QED
      BY <2>2, <2>3 DEF Effect, Writes
  <1>7. CASE Dispatch(r) \/ DispatchRefused(r)
    BY <1>0, <1>p, <1>7, GotoEffect DEF Dispatch, DispatchRefused
  <1>8. CASE WorkerReturns(r)
    <2>1. /\ pc[r] \in Started /\ objects' = objects /\ UNCHANGED <<database, target, snap, reply>>
      BY <1>p, <1>8 DEF WorkerReturns
    <2>2. CASE \E p \in {"failing", "store"} : Goto(r, p)
      BY <1>0, <1>p, <2>1, <2>2, GotoEffect
    <2>3. CASE "store" \notin StagesOf(target[r]) /\ Goto(r, "persist")
      <3>1. Stored(target[r])'
        BY <2>1, <2>3 DEF Stored, StagesOf
      <3> QED
        BY <1>0, <1>p, <2>1, <2>3, <3>1, GotoEffect
    <2> QED
      BY <1>8, <2>2, <2>3 DEF WorkerReturns
  <1>9. CASE StoreObject(r)
    <2>1. /\ pc[r] \in Started /\ UNCHANGED <<database, target, snap, reply>>
      BY <1>p, <1>9 DEF StoreObject
    <2>2. CASE objects' = objects \cup {target[r]} /\ Goto(r, "persist")
      <3>1. Stored(target[r])'
        BY <2>1, <2>2 DEF Stored
      <3> QED
        BY <1>0, <1>p, <2>1, <2>2, <3>1, GotoEffect
    <2>3. CASE objects' = objects /\ Goto(r, "failing")
      BY <1>0, <1>p, <2>1, <2>3, GotoEffect
    <2> QED
      BY <1>9, <2>2, <2>3 DEF StoreObject
  <1>10. CASE PersistOutcome(r)
    <2>1. /\ pc[r] = "inPersist" /\ Commit(r, "finish", reply[r]) /\ objects' = objects
          /\ row[target[r]] = "RUNNING" /\ Becomes(target[r], "SUCCEEDED")
          /\ product' = product \cup {target[r]} /\ UNCHANGED audit
      BY <1>10 DEF PersistOutcome, Transition, Becomes
    <2>2. Steps(r)
      BY <1>0, <1>p, <2>1, CommitSteps
    <2> QED
      BY <2>1, <2>2 DEF Effect, Writes
  <1>11. CASE RecordFailure(r)
    <2>1. /\ pc[r] = "inFailing" /\ Commit(r, "done", "FAILED") /\ objects' = objects
          /\ row[target[r]] \in {"QUEUED", "RUNNING"} /\ Becomes(target[r], "FAILED")
          /\ UNCHANGED <<product, audit>>
      BY <1>11 DEF RecordFailure, Transition, Becomes
    <2>2. row[target[r]] = "RUNNING"
      BY <1>0, <1>p, <2>1 DEF StartedHolds
    <2>3. row'[target[r]] = "FAILED"
      BY <1>p, <1>w, <2>1 DEF Becomes
    <2>4. Steps(r)
      BY <1>0, <1>p, <2>1, <2>3, CommitSteps
    <2> QED
      BY <2>1, <2>2, <2>4 DEF Effect, Writes
  <1>12. CASE ReportEnded(r)
    <2>1. /\ pc[r] = "inFailing" /\ Commit(r, "done", snap[r][target[r]]) /\ objects' = objects
          /\ UNCHANGED <<row, product, audit>>
      BY <1>12 DEF ReportEnded, database
    <2>2. Steps(r)
      BY <1>0, <1>p, <2>1, CommitSteps
    <2> QED
      BY <2>1, <2>2 DEF Effect, Writes
  <1>13. CASE FinishJob(r)
    <2>1. snap[r][target[r]] = "SUCCEEDED" /\ row[target[r]] = "SUCCEEDED"
      BY <1>0, <1>13 DEF FinishJob, FinishHolds
    <2>2. /\ pc[r] = "inFinish" /\ Commit(r, "done", "SUCCEEDED") /\ objects' = objects
          /\ row' = [row EXCEPT ![target[r]] = "SUCCEEDED"] /\ UNCHANGED <<product, audit>>
      BY <1>13, <2>1 DEF FinishJob
    <2>3. row' = row
      BY <1>0, <2>1, <2>2
    <2>4. Steps(r)
      BY <1>0, <1>p, <2>1, <2>2, CommitSteps
    <2> QED
      BY <2>2, <2>3, <2>4 DEF Effect, Writes
  <1> QED
    BY <1>1, <1>2, <1>3, <1>4, <1>5, <1>6, <1>7, <1>8, <1>9, <1>10, <1>11, <1>12, <1>13
       DEF Submit

LEMMA CancelEffect ==
    ASSUME TypeOK, NEW c \in Cancellers, Cancel(c)
    PROVE  Effect(c)
  <1>0. /\ c \in Requests /\ target[c] \in Jobs /\ snap[c][target[c]] \in Status
        /\ row \in [Jobs -> Status]
    BY DEF Requests, TypeOK
  <1>p. /\ {"cancel", "done"} \subseteq Points /\ "inCancel" \in Open
        /\ {"cancel", "done"} \cap (Started \cup Persisting) = {} /\ "CANCELLED" \in Status
    BY ControlPoints DEF Points, Ended, Status, Terminal, Started, Persisting
  <1>1. CASE StopWorker(c)
    BY <1>0, <1>p, <1>1, GotoEffect DEF StopWorker
  <1>2. CASE UnitOfWork(c)
    BY <1>0, <1>2, UnitOfWorkEffect
  <1>3. CASE CancelJob(c)
    <2>1. /\ pc[c] = "inCancel" /\ Commit(c, "done", "CANCELLED") /\ objects' = objects
          /\ row[target[c]] \in {"QUEUED", "RUNNING"} /\ Becomes(target[c], "CANCELLED")
          /\ Logs(c, "JOB_CANCEL", "CANCELLED") /\ UNCHANGED product
      BY <1>3 DEF CancelJob, Becomes, Logs
    <2>2. row'[target[c]] = "CANCELLED"
      BY <1>0, <1>p, <2>1 DEF Becomes
    <2>3. Steps(c)
      BY <1>0, <1>p, <2>1, <2>2, CommitSteps
    <2> QED
      BY <2>1, <2>3 DEF Effect, Writes
  <1>4. CASE CancelNoop(c)
    <2>1. /\ pc[c] = "inCancel" /\ Commit(c, "done", snap[c][target[c]]) /\ objects' = objects
          /\ snap[c][target[c]] \in Terminal
          /\ Logs(c, "JOB_CANCEL_NOOP", snap[c][target[c]]) /\ UNCHANGED <<row, product>>
      BY <1>4 DEF CancelNoop, Logs
    <2>2. Steps(c)
      BY <1>0, <1>p, <2>1, CommitSteps
    <2> QED
      BY <2>1, <2>2 DEF Effect, Writes
  <1>5. CASE CancelRefused(c)
    BY <1>0, <1>p, <1>5, RollbackEffect DEF CancelRefused
  <1> QED
    BY <1>1, <1>2, <1>3, <1>4, <1>5 DEF Cancel

\* An end is final, a started job is never queued again, an accepted one stays.
LEMMA WritesKeep ==
    ASSUME TypeOK, NEW r \in Requests, Writes(r), NEW j \in Jobs
    PROVE  /\ row[j] \in Terminal => row'[j] = row[j]
           /\ row[j] \notin {"ABSENT", "QUEUED"} => row'[j] \notin {"ABSENT", "QUEUED"}
           /\ row[j] # "ABSENT" => row'[j] # "ABSENT"
  <1>1. target[r] \in Jobs /\ row \in [Jobs -> Status]
    BY DEF TypeOK
  <1>2. Terminal \cap {"ABSENT", "QUEUED", "RUNNING"} = {}
    BY DEF Terminal
  <1> QED
    BY <1>1, <1>2 DEF Writes, Becomes

LEMMA AuditKeeps ==
    ASSUME TypeOK, AuditInv, EndsReadStand, NEW r \in Requests, Writes(r)
    PROVE  AuditInv'
  <1>0. /\ target[r] \in Jobs /\ row \in [Jobs -> Status] /\ \A a \in audit : a.job \in Jobs
        /\ Terminal = {"SUCCEEDED", "FAILED", "CANCELLED"}
    BY DEF TypeOK, Terminal
  <1>w. ASSUME NEW action \in Actions, NEW status \in Status
        PROVE  /\ AuditRow(r, action, status).action = action
               /\ AuditRow(r, action, status).job = target[r]
               /\ AuditRow(r, action, status).status = status
    BY DEF AuditRow
  <1>a. {"JOB_SUBMIT", "JOB_SUBMIT_REUSE", "JOB_CANCEL", "JOB_CANCEL_NOOP"} = Actions
        /\ {"QUEUED", "RUNNING", "SUCCEEDED", "FAILED", "CANCELLED"} \subseteq Status
    BY DEF Actions, Status, Terminal
  <1>1. CASE UNCHANGED <<row, audit>>
    BY <1>1 DEF AuditInv
  <1>2. ASSUME NEW a, a.job = target[r], audit' = audit \cup {a}, row' = row,
               \/ a.action = "JOB_SUBMIT_REUSE"
               \/ a.action = "JOB_CANCEL_NOOP" /\ a.status \in Terminal /\ a.status = row[a.job]
        PROVE  AuditInv'
    BY <1>2 DEF AuditInv
  <1>3. CASE \E status \in Status : Logs(r, "JOB_SUBMIT_REUSE", status) /\ UNCHANGED <<row, product>>
    <2>1. PICK status \in Status : audit' = audit \cup {AuditRow(r, "JOB_SUBMIT_REUSE", status)}
      BY <1>3 DEF Logs
    <2> QED
      BY <1>a, <1>w, <1>2, <1>3, <2>1
  <1>4. CASE /\ snap[r][target[r]] \in Terminal
             /\ Logs(r, "JOB_CANCEL_NOOP", snap[r][target[r]]) /\ UNCHANGED <<row, product>>
    <2> DEFINE status == snap[r][target[r]]
    <2>1. status \in Status /\ status \in Terminal /\ row[target[r]] = status
      BY <1>0, <1>4 DEF EndsReadStand, Status
    <2>2. audit' = audit \cup {AuditRow(r, "JOB_CANCEL_NOOP", status)} /\ row' = row
      BY <1>4 DEF Logs
    <2> HIDE DEF status
    <2> QED
      BY <1>a, <1>w, <1>2, <2>1, <2>2
  <1>5. CASE /\ row[target[r]] = "ABSENT" /\ Becomes(target[r], "QUEUED")
             /\ Logs(r, "JOB_SUBMIT", "QUEUED")
    <2> DEFINE a == AuditRow(r, "JOB_SUBMIT", "QUEUED")
    <2>1. a.action = "JOB_SUBMIT" /\ a.job = target[r] /\ audit' = audit \cup {a}
      BY <1>a, <1>w, <1>5 DEF Logs
    <2>2. /\ row'[target[r]] = "QUEUED" /\ \A j \in Jobs : j # target[r] => row'[j] = row[j]
      BY <1>0, <1>5 DEF Becomes
    <2>3. \A b \in audit : b.job = target[r] => b.action \notin {"JOB_SUBMIT", "JOB_CANCEL", "JOB_CANCEL_NOOP"}
      BY <1>0, <1>5 DEF AuditInv
    <2> HIDE DEF a
    <2> QED
      BY <1>0, <1>5, <2>1, <2>2, <2>3 DEF AuditInv
  <1>6. CASE /\ row[target[r]] \in {"QUEUED", "RUNNING"} /\ Becomes(target[r], "CANCELLED")
             /\ Logs(r, "JOB_CANCEL", "CANCELLED")
    <2> DEFINE a == AuditRow(r, "JOB_CANCEL", "CANCELLED")
    <2>1. a.action = "JOB_CANCEL" /\ a.job = target[r] /\ audit' = audit \cup {a}
      BY <1>a, <1>w, <1>6 DEF Logs
    <2>2. /\ row'[target[r]] = "CANCELLED" /\ \A j \in Jobs : j # target[r] => row'[j] = row[j]
      BY <1>0, <1>6 DEF Becomes
    <2>3. \A b \in audit : b.job = target[r] => b.action \notin {"JOB_CANCEL", "JOB_CANCEL_NOOP"}
      BY <1>0, <1>6 DEF AuditInv
    <2> HIDE DEF a
    <2> QED
      BY <1>0, <1>6, <2>1, <2>2, <2>3 DEF AuditInv
  <1>7. ASSUME NEW status \in {"RUNNING", "SUCCEEDED", "FAILED"}, Becomes(target[r], status),
               row[target[r]] \in {"QUEUED", "RUNNING"}, audit' = audit
        PROVE  AuditInv'
    <2>1. row'[target[r]] = status /\ \A j \in Jobs : j # target[r] => row'[j] = row[j]
      BY <1>0, <1>7 DEF Becomes
    <2> QED
      BY <1>0, <1>7, <2>1 DEF AuditInv
  <1> QED
    BY <1>1, <1>3, <1>4, <1>5, <1>6, <1>7 DEF Writes

LEMMA EffectKeeps ==
    ASSUME HistoryInv, NEW r \in Requests, Effect(r), TypeOK', FinishHolds'
    PROVE  HistoryInv'
  <1>0. /\ TypeOK /\ Steps(r) /\ Writes(r) /\ target' = target
        /\ \A q \in Requests : target[q] \in Jobs
    BY DEF HistoryInv, Effect, Steps, TypeOK
  <1>1. \A j \in Jobs : /\ row[j] \in Terminal => row'[j] = row[j]
                        /\ row[j] \notin {"ABSENT", "QUEUED"} => row'[j] \notin {"ABSENT", "QUEUED"}
    BY <1>0, WritesKeep
  <1>2. StartedHolds'
    <2>1. ASSUME NEW q \in Requests, pc'[q] \in Started
          PROVE  row'[target[q]] \notin {"ABSENT", "QUEUED"}
      <3>1. CASE pc[q] \in Started
        BY <1>0, <1>1, <3>1 DEF HistoryInv, StartedHolds
      <3>2. CASE pc[q] \notin Started
        BY <1>0, <2>1, <3>2 DEF Steps
      <3> QED
        BY <3>1, <3>2
    <2> QED
      BY <1>0, <2>1 DEF StartedHolds
  <1>3. StoredHolds'
    <2>1. \A j \in Jobs : Stored(j) => Stored(j)'
      BY <1>0 DEF Steps, Stored
    <2> QED
      BY <1>0, <2>1 DEF HistoryInv, StoredHolds, Steps
  <1>4. EndsReadStand'
    <2>1. ASSUME NEW q \in Requests, NEW j \in Jobs, snap'[q][j] \in Terminal
          PROVE  row[j] = snap'[q][j]
      <3>1. "ABSENT" \notin Terminal
        BY DEF Terminal
      <3>2. snap'[q] \in {NoRows, RowsOfKey(q), snap[q]}
        BY <1>0 DEF Steps
      <3> QED
        BY <2>1, <3>1, <3>2 DEF HistoryInv, EndsReadStand, NoRows, RowsOfKey
    <2> QED
      BY <1>1, <2>1 DEF EndsReadStand
  <1>5. AuditInv'
    BY <1>0, AuditKeeps DEF HistoryInv
  <1>6. ReplyStands'
    <2>1. ASSUME NEW q \in Requests, reply'[q] \in Terminal PROVE row'[target[q]] = reply'[q]
      <3>1. reply'[q] \in {reply[q], snap[q][target[q]], row'[target[q]]}
        BY <1>0 DEF Steps
      <3> QED
        BY <1>0, <1>1, <2>1, <3>1 DEF HistoryInv, ReplyStands, EndsReadStand
    <2> QED
      BY <1>0, <2>1 DEF ReplyStands
  <1>7. ArtifactBeforeRelease'
    <2>1. \/ product' = product
          \/ pc[r] = "inPersist" /\ product' = product \cup {target[r]}
      BY <1>0, Zenon DEF Writes
    <2>2. \A j \in product' : Stored(j)
      BY <2>1 DEF HistoryInv, ArtifactBeforeRelease, StoredHolds, Persisting, Stored
    <2> QED
      BY <1>0, <2>2 DEF ArtifactBeforeRelease, Stored, Steps
  <1> QED
    BY <1>2, <1>3, <1>4, <1>5, <1>6, <1>7 DEF HistoryInv

LEMMA HistoryStep == HistoryInv /\ OutcomeInv /\ [Next]_vars => HistoryInv'
  <1> SUFFICES ASSUME HistoryInv, OutcomeInv, [Next]_vars PROVE HistoryInv'
    OBVIOUS
  <1>0. /\ TypeOK /\ FinishHolds /\ StartedHolds /\ TypeOK' /\ FinishHolds'
        /\ Submitters \subseteq Requests /\ Cancellers \subseteq Requests
    BY OutcomeStep DEF HistoryInv, OutcomeInv, Requests
  <1>1. CASE \E r \in Submitters : Submit(r)
    BY <1>0, <1>1, SubmitEffect, EffectKeeps
  <1>2. CASE \E c \in Cancellers : Cancel(c)
    BY <1>0, <1>2, CancelEffect, EffectKeeps
  <1>3. CASE Crash
    <2>1. \A r \in Requests : pc'[r] \notin Started \cup Persisting
      BY <1>0, <1>3 DEF Crash, Started, Persisting
    <2>2. UNCHANGED <<row, product, audit, objects, target, reply>> /\ snap' = [r \in Requests |-> NoRows]
      BY <1>3 DEF Crash, database
    <2>3. EndsReadStand'
      BY <2>2 DEF EndsReadStand, NoRows, Terminal
    <2>4. AuditInv' /\ ReplyStands' /\ ArtifactBeforeRelease'
      BY <2>2 DEF HistoryInv, AuditInv, ReplyStands, ArtifactBeforeRelease
    <2> QED
      BY <1>0, <2>1, <2>3, <2>4 DEF HistoryInv, StartedHolds, StoredHolds
  <1>4. CASE UNCHANGED vars
    BY <1>0, <1>4 DEF vars, database, HistoryInv, StartedHolds, StoredHolds, Stored, EndsReadStand,
                      AuditInv, ReplyStands, ArtifactBeforeRelease
  <1> QED
    BY <1>1, <1>2, <1>3, <1>4 DEF Next

LEMMA HistoryInit == Init => HistoryInv
  <1> SUFFICES ASSUME Init PROVE HistoryInv
    OBVIOUS
  <1>1. TypeOK /\ FinishHolds
    BY OutcomeInit DEF OutcomeInv
  <1>2. \A r \in Requests : pc[r] \notin Started \cup Persisting
    BY DEF Init, Started, Persisting
  <1>3. "ABSENT" \notin Terminal
    BY DEF Terminal
  <1> QED
    BY <1>1, <1>2, <1>3 DEF Init, NoRows, HistoryInv, StartedHolds, StoredHolds, EndsReadStand,
                            AuditInv, ReplyStands, ArtifactBeforeRelease

LEMMA HistoryAlways == Spec => []HistoryInv
BY OutcomeInit, OutcomeStep, HistoryInit, HistoryStep, PTL DEF Spec

\* A job's success, and with it its release, is committed only after the artifact
\* its command writes has been stored, and no later step takes the artifact away.
THEOREM ArtifactsFirst == Spec => []ArtifactBeforeRelease
  <1>1. HistoryInv => ArtifactBeforeRelease
    BY DEF HistoryInv
  <1> QED
    BY <1>1, HistoryAlways, PTL

\* The ended status a client has been told is the one the row keeps: neither the
\* cancel nor the executor of another request writes over an end.
THEOREM RepliesStand == Spec => []ReplyStands
  <1>1. HistoryInv => ReplyStands
    BY DEF HistoryInv
  <1> QED
    BY <1>1, HistoryAlways, PTL

\* The audit log and the row of a job agree: one JOB_SUBMIT entry for an accepted
\* job and one JOB_CANCEL entry for a cancelled one, of whichever requests, and a
\* JOB_CANCEL_NOOP entry names the status that stays.
THEOREM AuditTellsHistory == Spec => []AuditAgrees
  <1>1. ASSUME HistoryInv PROVE AuditAgrees
    <2>0. AuditInv
      BY <1>1 DEF HistoryInv
    <2> SUFFICES ASSUME NEW j \in Jobs
                 PROVE  /\ row[j] # "ABSENT" <=> Entries(j, "JOB_SUBMIT") # {}
                        /\ row[j] = "CANCELLED" <=> Entries(j, "JOB_CANCEL") # {}
                        /\ \A action \in {"JOB_SUBMIT", "JOB_CANCEL"} :
                              Cardinality(Entries(j, action)) <= 1
                        /\ \A a \in Entries(j, "JOB_CANCEL_NOOP") : a.status = row[j]
      BY DEF AuditAgrees
    <2>1. row[j] # "ABSENT" <=> Entries(j, "JOB_SUBMIT") # {}
      BY <2>0 DEF AuditInv, Entries
    <2>2. row[j] = "CANCELLED" <=> Entries(j, "JOB_CANCEL") # {}
      BY <2>0 DEF AuditInv, Entries
    <2>3. ASSUME NEW action \in {"JOB_SUBMIT", "JOB_CANCEL"}
          PROVE  Cardinality(Entries(j, action)) <= 1
      <3>1. CASE Entries(j, action) = {}
        <4>1. Cardinality(Entries(j, action)) = 0
          BY <3>1, FS_EmptySet
        <4> QED
          BY <4>1
      <3>2. CASE Entries(j, action) # {}
        <4>1. PICK a \in Entries(j, action) : TRUE
          BY <3>2
        <4>2. Entries(j, action) = {a}
          BY <2>0, <4>1 DEF AuditInv, Entries
        <4>3. Cardinality({a}) = 1
          BY FS_Singleton
        <4> QED
          BY <4>2, <4>3
      <3> QED
        BY <3>1, <3>2
    <2>4. \A a \in Entries(j, "JOB_CANCEL_NOOP") : a.status = row[j]
      BY <2>0 DEF AuditInv, Entries
    <2> QED
      BY <2>1, <2>2, <2>3, <2>4
  <1> QED
    BY <1>1, HistoryAlways, PTL

-----------------------------------------------------------------------------
(* The service implements the lifecycle it promises *)

LEMMA LifecycleInit == Init => Lifecycle!Init
  BY DEF Init, NoRows, Jobs, Lifecycle!Init, Lifecycle!Jobs

\* Under the writer lease what submit read of its key is still so.
LEMMA FreshKey ==
    ASSUME Engine = "SQLITE", KeyInv, NEW r \in Requests, pc[r] = "inSubmit",
           KeyHolders(r) = {}, NEW i \in Jobs, i[1] = target[r][1]
    PROVE  row[i] = "ABSENT"
  <1>1. snap[r] = RowsOfKey(r)
    BY ControlPoints DEF KeyInv, LeaseHolds
  <1>2. snap[r][i] = row[i]
    BY <1>1 DEF RowsOfKey, KeyOf
  <1> QED
    BY <1>2 DEF KeyHolders

\* Each way to write to the database is a step of the lifecycle, or none of it.
LEMMA WritesRefine ==
    ASSUME TypeOK, Engine = "SQLITE" => KeyInv, NEW r \in Requests, Writes(r)
    PROVE  [Lifecycle!Next]_<<row, product>>
  <1> DEFINE j == target[r]
  <1>0. j \in Jobs /\ Jobs = Lifecycle!Jobs
    BY DEF TypeOK, Jobs, Lifecycle!Jobs
  <1>1. CASE UNCHANGED <<row, product>>
    BY <1>1
  <1>2. CASE /\ pc[r] = "inSubmit" /\ KeyHolders(r) = {} /\ row[j] = "ABSENT"
             /\ Becomes(j, "QUEUED") /\ UNCHANGED product
    <2>1. Engine = "SQLITE" => \A i \in Jobs : i[1] = j[1] => row[i] = "ABSENT"
      BY <1>2, FreshKey
    <2> QED
      BY <1>0, <1>2, <2>1 DEF Becomes, Lifecycle!Next, Lifecycle!Accept
  <1>3. CASE row[j] = "QUEUED" /\ Becomes(j, "RUNNING") /\ UNCHANGED product
    BY <1>0, <1>3 DEF Becomes, Lifecycle!Next, Lifecycle!Start
  <1>4. CASE row[j] = "RUNNING" /\ Becomes(j, "SUCCEEDED") /\ product' = product \cup {j}
    BY <1>0, <1>4 DEF Becomes, Lifecycle!Next, Lifecycle!Complete
  <1>5. CASE row[j] = "RUNNING" /\ Becomes(j, "FAILED") /\ UNCHANGED product
    BY <1>0, <1>5 DEF Becomes, Lifecycle!Next, Lifecycle!Fail
  <1>6. CASE row[j] \in {"QUEUED", "RUNNING"} /\ Becomes(j, "CANCELLED") /\ UNCHANGED product
    BY <1>0, <1>6 DEF Becomes, Lifecycle!Next, Lifecycle!Cancel, Lifecycle!Active
  <1> HIDE DEF j
  <1>7. \/ UNCHANGED <<row, product>>
        \/ /\ pc[r] = "inSubmit" /\ KeyHolders(r) = {} /\ row[j] = "ABSENT"
           /\ Becomes(j, "QUEUED") /\ UNCHANGED product
        \/ row[j] = "QUEUED" /\ Becomes(j, "RUNNING") /\ UNCHANGED product
        \/ row[j] = "RUNNING" /\ Becomes(j, "SUCCEEDED") /\ product' = product \cup {j}
        \/ row[j] = "RUNNING" /\ Becomes(j, "FAILED") /\ UNCHANGED product
        \/ row[j] \in {"QUEUED", "RUNNING"} /\ Becomes(j, "CANCELLED") /\ UNCHANGED product
    BY Zenon DEF Writes, j
  <1> QED
    BY <1>1, <1>2, <1>3, <1>4, <1>5, <1>6, <1>7

LEMMA StepRefines ==
    ASSUME HistoryInv, Engine = "SQLITE" => KeyInv, [Next]_vars
    PROVE  [Lifecycle!Next]_<<row, product>>
  <1>0. TypeOK /\ FinishHolds /\ StartedHolds
        /\ Submitters \subseteq Requests /\ Cancellers \subseteq Requests
    BY DEF HistoryInv, Requests
  <1>1. CASE \E r \in Submitters : Submit(r)
    <2>1. PICK r \in Submitters : Submit(r)
      BY <1>1
    <2>2. Writes(r)
      BY <1>0, <2>1, SubmitEffect DEF Effect
    <2> QED
      BY <1>0, <2>2, WritesRefine
  <1>2. CASE \E c \in Cancellers : Cancel(c)
    <2>1. PICK c \in Cancellers : Cancel(c)
      BY <1>2
    <2>2. Writes(c)
      BY <1>0, <2>1, CancelEffect DEF Effect
    <2> QED
      BY <1>0, <2>2, WritesRefine
  <1>3. CASE Crash \/ UNCHANGED vars
    BY <1>3 DEF Crash, vars, database
  <1> QED
    BY <1>1, <1>2, <1>3 DEF Next

\* On both engines the rows and the products of jobs live as JobLifecycle says:
\* a job ends once and for good, its products appear in the step in which it
\* succeeds, and under the writer lease its key is refused to other payloads.
THEOREM LifecycleImplemented == Spec => ImplementsLifecycle
  <1>1. Init => (Engine = "SQLITE" => KeyInv)
    BY KeyInit
  <1>2. (Engine = "SQLITE" => KeyInv) /\ [Next]_vars => (Engine = "SQLITE" => KeyInv)'
    BY KeyStep
  <1>3. HistoryInv /\ (Engine = "SQLITE" => KeyInv) /\ [Next]_vars
            => [Lifecycle!Next]_<<row, product>>
    BY StepRefines
  <1> QED
    BY <1>1, <1>2, <1>3, LifecycleInit, HistoryAlways, PTL
       DEF Spec, ImplementsLifecycle, Lifecycle!Spec, Lifecycle!abstractVars
=============================================================================
