----------------------------- MODULE DurableJobs -----------------------------
(***************************************************************************)
(* The durable job service: DurableApplicationJobControl.submit and cancel *)
(* with the executor, the dispatcher's pool and the units of work they run *)
(* in.  A request is an HTTP handler thread.  Each unit of work is two     *)
(* steps, so that other requests run between its reads and its commit:     *)
(*   - SQLITE: opening takes the process-wide writer lease or fails at     *)
(*     once (SINGLE_WRITER_BUSY), so what was read is current at commit;   *)
(*   - POSTGRES: units of work overlap under READ COMMITTED, and a write   *)
(*     is guarded by the compare-and-set on the status.                    *)
(* Statuses, products and audit rows are database state and survive a      *)
(* crash of the backend; requests, the lease and the pool do not.          *)
(***************************************************************************)
EXTENDS Naturals, FiniteSets

CONSTANTS
    Submitters,   \* requests that submit a job
    Cancellers,   \* requests that cancel one
    Keys,         \* idempotency keys
    Payloads,     \* request hashes
    Stages,       \* what the command of a payload does: "prepare", "store"
    Engine,       \* "SQLITE" or "POSTGRES"
    Capacity,     \* max_workers of the dispatcher
    ConnectionMayFail,  \* whether the database may drop out, even while it commits
    MaxCrashes,   \* bound on backend crashes
    Nobody        \* the lease holder when the lease is free

Requests == Submitters \cup Cancellers
Jobs == Keys \X Payloads
KeyOf(j) == j[1]
StagesOf(j) == Stages[j[2]]

ASSUME RequestsAssumption == /\ Submitters \cap Cancellers = {}
                             /\ Nobody \notin Requests
ASSUME StagesAssumption == Stages \in [Payloads -> SUBSET {"prepare", "store"}]
ASSUME EngineAssumption == Engine \in {"SQLITE", "POSTGRES"}
ASSUME BoundsAssumption == /\ Capacity \in Nat \ {0}
                           /\ MaxCrashes \in Nat
                           /\ ConnectionMayFail \in BOOLEAN

VARIABLES
    row,       \* committed status of each job's row, "ABSENT" if there is none
    product,   \* jobs whose outputs and release are committed
    audit,     \* committed audit rows of the job actions
    objects,   \* jobs whose artifact is in the object store
    active,    \* jobs holding a worker slot
    doomed,    \* active jobs whose worker a cancel has stopped
    writer,    \* request holding the SQLite writer lease
    pc,        \* what each request does next
    target,    \* the job a request is about
    snap,      \* statuses read by the open unit of work of a request
    reply,     \* status in the response of a request
    executed,  \* requests that dispatched each job's worker (history)
    crashes    \* crashes so far

database == <<row, product, audit>>
pool == <<active, doomed>>
vars == <<database, objects, pool, writer, pc, target, snap, reply, executed, crashes>>

Pool == INSTANCE WorkerPool

Terminal == {"SUCCEEDED", "FAILED", "CANCELLED"}
\* SUBMITTED exists only inside the transaction that also queues the job.
Status == {"ABSENT", "QUEUED", "RUNNING"} \cup Terminal

NoRows == [j \in Jobs |-> "ABSENT"]

\* A point where a unit of work opens, and the point inside it.
Inside == [submit  |-> "inSubmit",  start  |-> "inStart",  prepare |-> "inPrepare",
           persist |-> "inPersist", finish |-> "inFinish", failing |-> "inFailing",
           cancel  |-> "inCancel"]
Opening == DOMAIN Inside
Open == {Inside[p] : p \in Opening}

\* Mutant of Raise: no exception of the executor is caught and recorded.
RaiseUncaught == [p \in Opening \cup Open |-> "raised"]

\* Where an exception in a unit of work leads: one raised by the executor is
\* caught and recorded, any other reaches the client as an error.
Raise == [submit  |-> "raised",  inSubmit  |-> "raised",
          start   |-> "raised",  inStart   |-> "raised",
          prepare |-> "failing", inPrepare |-> "failing",
          persist |-> "failing", inPersist |-> "failing",
          finish  |-> "raised",  inFinish  |-> "raised",
          failing |-> "raised",  inFailing |-> "raised",
          cancel  |-> "raised",  inCancel  |-> "raised"]

Ended == {"done", "raised"}
Points == {"dispatch", "working", "store", "kill"}
          \cup Opening \cup Open \cup Ended

Actions == {"JOB_SUBMIT", "JOB_SUBMIT_REUSE", "JOB_CANCEL", "JOB_CANCEL_NOOP"}
AuditRow(r, action, status) ==
    [by |-> r, action |-> action, job |-> target[r], status |-> status]

Goto(r, p) == pc' = [pc EXCEPT ![r] = p]

-----------------------------------------------------------------------------
(* Units of work *)

Init ==
    /\ row = NoRows
    /\ product = {}
    /\ audit = {}
    /\ objects = {}
    /\ Pool!EmptyPool
    /\ writer = Nobody
    /\ pc = [r \in Requests |-> IF r \in Submitters THEN "submit" ELSE "kill"]
    /\ target \in [Requests -> Jobs]
    /\ snap = [r \in Requests |-> NoRows]
    /\ reply = [r \in Requests |-> "ABSENT"]
    /\ executed = [j \in Jobs |-> {}]
    /\ crashes = 0

\* The rows a unit of work of r can see: those of the job key it is about.
RowsOfKey(r) == [j \in Jobs |-> IF KeyOf(j) = KeyOf(target[r]) THEN row[j] ELSE "ABSENT"]

Begin(r) ==
    /\ pc[r] \in Opening
    /\ Engine = "SQLITE" => writer = Nobody
    /\ writer' = IF Engine = "SQLITE" THEN r ELSE writer
    /\ snap' = [snap EXCEPT ![r] = RowsOfKey(r)]
    /\ Goto(r, Inside[pc[r]])
    /\ UNCHANGED <<database, objects, pool, target, reply, executed, crashes>>

\* The lease is held by another request: the unit of work is not opened.
WriterBusy(r) ==
    /\ pc[r] \in Opening
    /\ Engine = "SQLITE"
    /\ writer # Nobody
    /\ Goto(r, Raise[pc[r]])
    /\ UNCHANGED <<database, objects, pool, writer, target, snap, reply, executed, crashes>>

\* Leaving a unit of work gives the lease back; p is the next point.
Close(r, p) ==
    /\ writer' = IF writer = r THEN Nobody ELSE writer
    /\ snap' = [snap EXCEPT ![r] = NoRows]
    /\ Goto(r, p)
    /\ UNCHANGED <<target, executed, crashes>>

\* The database commits.  The client library may still raise, its
\* acknowledgement lost with the connection: then the answer is not given.
Commit(r, p, answer) ==
    \E lost \in {FALSE, ConnectionMayFail} :
        /\ Close(r, IF lost THEN Raise[pc[r]] ELSE p)
        /\ reply' = IF lost THEN reply ELSE [reply EXCEPT ![r] = answer]

Rollback(r) ==
    /\ Close(r, Raise[pc[r]])
    /\ UNCHANGED <<database, objects, pool, reply>>

\* A statement fails, or the commit does without taking effect.
Disconnect(r) ==
    /\ pc[r] \in Open
    /\ ConnectionMayFail
    /\ Rollback(r)

-----------------------------------------------------------------------------
(* submit: accept the job, or reuse or refuse its key *)

\* Mutant of KeyHolders: the job is looked up by its id, not by its key.
KeyHoldersById(r) == {j \in {target[r]} : snap[r][j] # "ABSENT"}

\* Jobs the unit of work of r read under the job key.
KeyHolders(r) == {j \in Jobs : snap[r][j] # "ABSENT"}

ReuseJob(r) ==
    /\ pc[r] = "inSubmit"
    /\ KeyHolders(r) = {target[r]}
    /\ audit' = audit \cup {AuditRow(r, "JOB_SUBMIT_REUSE", snap[r][target[r]])}
    /\ Commit(r, "done", snap[r][target[r]])
    /\ UNCHANGED <<row, product, objects, pool>>

\* Another request holds the key, several rows do, or (POSTGRES) a row of the
\* key appeared after the first look: B3_JOB_IDEMPOTENCY_CONFLICT,
\* B3_COMPUTE_JOB_KEY_CARDINALITY, or the immutable and primary key conflicts.
RefuseJob(r) ==
    /\ pc[r] = "inSubmit"
    /\ \/ KeyHolders(r) \notin {{}, {target[r]}}
       \/ KeyHolders(r) = {} /\ RowsOfKey(r) # NoRows
    /\ Rollback(r)

\* Mutant of AcceptJob: the insert replaces a row that is already there.
AcceptJobUpserts(r) ==
    /\ pc[r] = "inSubmit"
    /\ KeyHolders(r) = {}
    /\ row' = [row EXCEPT ![target[r]] = "QUEUED"]
    /\ audit' = audit \cup {AuditRow(r, "JOB_SUBMIT", "QUEUED")}
    /\ Commit(r, "start", reply[r])
    /\ UNCHANGED <<product, objects, pool>>

\* Only job_id is unique in registry.compute_job: job_key is not.
AcceptJob(r) ==
    /\ pc[r] = "inSubmit"
    /\ KeyHolders(r) = {}
    /\ row[target[r]] = "ABSENT"
    /\ row' = [row EXCEPT ![target[r]] = "QUEUED"]
    /\ audit' = audit \cup {AuditRow(r, "JOB_SUBMIT", "QUEUED")}
    /\ Commit(r, "start", reply[r])
    /\ UNCHANGED <<product, objects, pool>>

-----------------------------------------------------------------------------
(* submit: run the accepted job *)

\* Mutant of Transition: the update is not conditional on the status read.
TransitionUnconditional(r, from, to) ==
    /\ snap[r][target[r]] \in from
    /\ row' = [row EXCEPT ![target[r]] = to]

\* DurableJobControl._transition: allowed from what it read, and still so at
\* the compare-and-set.
Transition(r, from, to) ==
    /\ snap[r][target[r]] \in from
    /\ row[target[r]] = snap[r][target[r]]
    /\ row' = [row EXCEPT ![target[r]] = to]

StartJob(r) ==
    /\ pc[r] = "inStart"
    /\ Transition(r, {"QUEUED"}, "RUNNING")
    /\ Commit(r, IF "prepare" \in StagesOf(target[r]) THEN "prepare" ELSE "dispatch", reply[r])
    /\ UNCHANGED <<product, audit, objects, pool>>

StartRefused(r) ==
    /\ pc[r] = "inStart"
    /\ ~(snap[r][target[r]] = "QUEUED" /\ row[target[r]] = "QUEUED")
    /\ Rollback(r)

\* The input snapshot is read in a unit of work that leaves nothing behind: it
\* is not committed, or has only read.
PrepareInput(r) ==
    /\ pc[r] = "inPrepare"
    /\ \E p \in {"dispatch", "failing"} : Close(r, p)
    /\ UNCHANGED <<database, objects, pool, reply>>

Dispatch(r) ==
    /\ pc[r] = "dispatch"
    /\ Pool!Admit(target[r])
    /\ executed' = [executed EXCEPT ![target[r]] = @ \cup {r}]
    /\ Goto(r, "working")
    /\ UNCHANGED <<database, objects, writer, target, snap, reply, crashes>>

\* WorkerBackpressureError, or a payload refused before it is dispatched.
DispatchRefused(r) ==
    /\ pc[r] = "dispatch"
    /\ Goto(r, "failing")
    /\ UNCHANGED <<database, objects, pool, writer, target, snap, reply, executed, crashes>>

\* Mutant of WorkerReturns: the result of a stopped worker is waited for.
WorkerReturnsUnlessStopped(r) ==
    /\ pc[r] = "working"
    /\ target[r] \notin doomed
    /\ Pool!Settle(target[r])
    /\ Goto(r, "failing") \/ Goto(r, IF "store" \in StagesOf(target[r]) THEN "store" ELSE "persist")
    /\ UNCHANGED <<database, objects, writer, target, snap, reply, executed, crashes>>

\* The dispatch ends with a result, or by timeout, cancel or worker failure.
WorkerReturns(r) ==
    /\ pc[r] = "working"
    /\ Pool!Settle(target[r])
    /\ Goto(r, "failing") \/ Goto(r, IF "store" \in StagesOf(target[r]) THEN "store" ELSE "persist")
    /\ UNCHANGED <<database, objects, writer, target, snap, reply, executed, crashes>>

\* Mutant of StoreObject: an error of the object store is swallowed.
StoreObjectUnchecked(r) ==
    /\ pc[r] = "store"
    /\ objects' \in {objects, objects \cup {target[r]}}
    /\ Goto(r, "persist")
    /\ UNCHANGED <<database, pool, writer, target, snap, reply, executed, crashes>>

\* The artifact goes to the object store before the transaction that refers to it.
StoreObject(r) ==
    /\ pc[r] = "store"
    /\ \/ objects' = objects \cup {target[r]} /\ Goto(r, "persist")
       \/ UNCHANGED objects /\ Goto(r, "failing")
    /\ UNCHANGED <<database, pool, writer, target, snap, reply, executed, crashes>>

\* Release, outputs and the job's success are committed together.
PersistOutcome(r) ==
    /\ pc[r] = "inPersist"
    /\ Transition(r, {"RUNNING"}, "SUCCEEDED")
    /\ product' = product \cup {target[r]}
    /\ Commit(r, "finish", reply[r])
    /\ UNCHANGED <<audit, objects, pool>>

\* The job is no longer running, the replayed input drifted, or the
\* publication was refused: nothing of the unit of work stays.
PersistRefused(r) ==
    /\ pc[r] = "inPersist"
    /\ Rollback(r)

-----------------------------------------------------------------------------
(* submit: record the outcome and answer *)

RecordFailure(r) ==
    /\ pc[r] = "inFailing"
    /\ Transition(r, {"QUEUED", "RUNNING"}, "FAILED")
    /\ Commit(r, "done", "FAILED")
    /\ UNCHANGED <<product, audit, objects, pool>>

\* The job ended otherwise meanwhile: its status is the answer.
ReportEnded(r) ==
    /\ pc[r] = "inFailing"
    /\ snap[r][target[r]] \in Terminal
    /\ Commit(r, "done", snap[r][target[r]])
    /\ UNCHANGED <<database, objects, pool>>

FailureLost(r) ==
    /\ pc[r] = "inFailing"
    /\ snap[r][target[r]] \notin Terminal
    /\ row[target[r]] # snap[r][target[r]]
    /\ Rollback(r)

\* The executor has already recorded the success; a job it left running is
\* succeeded here, any other status raises B3_JOB_TERMINAL_STATE_INVALID.
FinishJob(r) ==
    /\ pc[r] = "inFinish"
    /\ IF snap[r][target[r]] \in {"RUNNING", "SUCCEEDED"}
       THEN /\ row' = [row EXCEPT ![target[r]] = "SUCCEEDED"]
            /\ Commit(r, "done", "SUCCEEDED")
       ELSE /\ Close(r, "raised")
            /\ UNCHANGED <<row, reply>>
    /\ UNCHANGED <<product, audit, objects, pool>>

-----------------------------------------------------------------------------
(* cancel *)

\* The worker is stopped first, outside any unit of work.
StopWorker(c) ==
    /\ pc[c] = "kill"
    /\ Pool!Doom(target[c])
    /\ Goto(c, "cancel")
    /\ UNCHANGED <<database, objects, writer, target, snap, reply, executed, crashes>>

\* Mutant of CancelJob: a job that has ended is cancelled as well.
CancelAnyJob(c) ==
    /\ pc[c] = "inCancel"
    /\ snap[c][target[c]] # "ABSENT"
    /\ row' = [row EXCEPT ![target[c]] = "CANCELLED"]
    /\ audit' = audit \cup {AuditRow(c, "JOB_CANCEL", "CANCELLED")}
    /\ Commit(c, "done", "CANCELLED")
    /\ UNCHANGED <<product, objects, pool>>

CancelJob(c) ==
    /\ pc[c] = "inCancel"
    /\ snap[c][target[c]] \in {"QUEUED", "RUNNING"}
    /\ row[target[c]] \in {"QUEUED", "RUNNING"}
    /\ row' = [row EXCEPT ![target[c]] = "CANCELLED"]
    /\ audit' = audit \cup {AuditRow(c, "JOB_CANCEL", "CANCELLED")}
    /\ Commit(c, "done", "CANCELLED")
    /\ UNCHANGED <<product, objects, pool>>

CancelNoop(c) ==
    /\ pc[c] = "inCancel"
    /\ snap[c][target[c]] \in Terminal
    /\ audit' = audit \cup {AuditRow(c, "JOB_CANCEL_NOOP", snap[c][target[c]])}
    /\ Commit(c, "done", snap[c][target[c]])
    /\ UNCHANGED <<row, product, objects, pool>>

\* Mutant of CancelRefused: the audit row is written in a transaction of its own.
CancelRefusedAudited(c) ==
    /\ pc[c] = "inCancel"
    /\ snap[c][target[c]] \notin Terminal
    /\ audit' = audit \cup {AuditRow(c, "JOB_CANCEL", "CANCELLED")}
    /\ Close(c, "raised")
    /\ UNCHANGED <<row, product, objects, pool, reply>>

\* No such job; the status moved under the compare-and-set; or the reason has
\* outer blanks, which the handler accepts and the reason code and the audit
\* row do not.
CancelRefused(c) ==
    /\ pc[c] = "inCancel"
    /\ Rollback(c)

-----------------------------------------------------------------------------
(* A crash of the backend ends every request under way. *)

Crash ==
    /\ crashes < MaxCrashes
    /\ crashes' = crashes + 1
    /\ pc' = [r \in Requests |-> IF pc[r] \in {"submit", "kill", "done"} THEN pc[r] ELSE "raised"]
    /\ writer' = Nobody
    /\ active' = {} /\ doomed' = {}
    /\ snap' = [r \in Requests |-> NoRows]
    /\ UNCHANGED <<database, objects, target, reply, executed>>

UnitOfWork(r) == Begin(r) \/ WriterBusy(r) \/ Disconnect(r)

Submit(r) ==
    \/ UnitOfWork(r)
    \/ ReuseJob(r) \/ RefuseJob(r) \/ AcceptJob(r)
    \/ StartJob(r) \/ StartRefused(r)
    \/ PrepareInput(r) \/ Dispatch(r) \/ DispatchRefused(r)
    \/ WorkerReturns(r) \/ StoreObject(r)
    \/ PersistOutcome(r) \/ PersistRefused(r)
    \/ RecordFailure(r) \/ ReportEnded(r) \/ FailureLost(r)
    \/ FinishJob(r)

Cancel(c) ==
    \/ StopWorker(c) \/ UnitOfWork(c)
    \/ CancelJob(c) \/ CancelNoop(c) \/ CancelRefused(c)

Next ==
    \/ \E r \in Submitters : Submit(r)
    \/ \E c \in Cancellers : Cancel(c)
    \/ Crash

\* A handler thread runs on once its request has arrived; when a request
\* arrives is the client's choice.
Spec == Init /\ [][Next]_vars
FairSpec ==
    /\ Spec
    /\ \A r \in Submitters : WF_vars(pc[r] # "submit" /\ Submit(r))
    /\ \A c \in Cancellers : WF_vars(pc[c] # "kill" /\ Cancel(c))

-----------------------------------------------------------------------------
(* Properties *)

\* Types of the state.  The submitter's and canceller's threads, the rows of
\* the database and the pool of the dispatcher.
TypeOK ==
    /\ row \in [Jobs -> Status]
    /\ product \in SUBSET Jobs
    /\ audit \in SUBSET [by : Requests, action : Actions, job : Jobs, status : Status]
    /\ objects \in SUBSET Jobs
    /\ active \in SUBSET Jobs
    /\ doomed \in SUBSET active
    /\ writer \in Requests \cup {Nobody}
    /\ pc \in [Requests -> Points]
    /\ target \in [Requests -> Jobs]
    /\ snap \in [Requests -> [Jobs -> Status]]
    /\ reply \in [Requests -> Status]
    /\ executed \in [Jobs -> SUBSET Submitters]
    /\ crashes \in 0..MaxCrashes

\* A job's release and outputs are visible exactly when its row says SUCCEEDED,
\* whatever cancels, crashes and lost acknowledgements come between the steps.
OutcomeAtomic == product = {j \in Jobs : row[j] = "SUCCEEDED"}

\* "Same key + different request conflicts": one idempotency key never
\* identifies two accepted jobs.
OneJobPerKey ==
    \A i, j \in Jobs : row[i] # "ABSENT" /\ row[j] # "ABSENT" /\ KeyOf(i) = KeyOf(j) => i = j

\* However often a request is repeated, its work is dispatched at most once.
AtMostOneExecution == \A j \in Jobs : \A r, s \in executed[j] : r = s

\* The audit log tells the history of the row: an accepted job has exactly one
\* JOB_SUBMIT entry, a cancelled one exactly one JOB_CANCEL entry, and a
\* JOB_CANCEL_NOOP entry names the status the job has for good.
Entries(j, action) == {a \in audit : a.job = j /\ a.action = action}
AuditAgrees ==
    \A j \in Jobs :
        /\ row[j] # "ABSENT" <=> Entries(j, "JOB_SUBMIT") # {}
        /\ row[j] = "CANCELLED" <=> Entries(j, "JOB_CANCEL") # {}
        /\ \A action \in {"JOB_SUBMIT", "JOB_CANCEL"} : Cardinality(Entries(j, action)) <= 1
        /\ \A a \in Entries(j, "JOB_CANCEL_NOOP") : a.status = row[j]

\* A client that was answered with an ended job was told its final status.
ReplyStands == \A r \in Requests : reply[r] \in Terminal => row[target[r]] = reply[r]

\* A committed release never refers to an artifact that is not stored yet.
ArtifactBeforeRelease ==
    \A j \in product : "store" \in StagesOf(j) => j \in objects

\* The rows and products follow the lifecycle the service promises; the key of
\* an accepted job is refused to others under the single writer.
Lifecycle == INSTANCE JobLifecycle WITH ExclusiveKeys <- (Engine = "SQLITE")
ImplementsLifecycle == Lifecycle!Spec

\* Every request that has arrived is answered or refused: no unit of work, pool
\* or worker makes one wait for ever.
RequestsAnswered ==
    \A r \in Requests : pc[r] \notin {"submit", "kill"} ~> pc[r] \in Ended

\* A request that has had a job accepted and goes on to run it.
Executing(r) == pc[r] \notin {"submit", "inSubmit"} \cup Ended

\* "Durable state reaches ... SUCCEEDED or fail-closed terminal states": an accepted
\* job ends, or its request breaks off with an error, and that it does only where it
\* cannot write an end: another request holds the writer lease as the job starts or
\* its failure is recorded, or the backend crashes.
AcceptedJobEnds ==
    /\ \A j \in Jobs : row[j] # "ABSENT" ~>
          row[j] \in Terminal \/ \E r \in Submitters : target[r] = j /\ pc[r] = "raised"
    /\ [][\A r \in Submitters :
             Executing(r) /\ pc'[r] = "raised" /\ row'[target[r]] \notin Terminal =>
                 \/ pc[r] \in {"start", "failing"} /\ writer \notin {Nobody, r}
                 \/ crashes' # crashes]_vars
=============================================================================
