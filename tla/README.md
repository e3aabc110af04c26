# A TLA+ verification of the TPAA back end

TPAA turns recorded training sessions into published assessment products.  A
desktop or service back end accepts *jobs* over HTTP, runs the work of each in a
separate worker process, and publishes the result as an immutable *release*
into a relational database (SQLite on the desktop, PostgreSQL for the service)
and an object store on the file system.  Later jobs derive further products from
earlier ones, instructors approve them, and operators back both stores up.  The
repository's own words for what must hold are "fail closed", "no partial
product", "sole current pointer" and "registered objects are never deleted"; the
modules here say what those mean of the code, check them with TLC on small
instances and prove the safety properties with TLAPS for instances of any size.

Paths below are relative to the repository; its packages lie in `src/`.

1. [The system](#1-the-system) - inventory of components
2. [The modules](#2-the-modules) - what is modelled, and how it maps to the code
3. [The runs](#3-the-runs) - what TLC checks, bounds, fairness
4. [What the code does otherwise](#4-what-the-code-does-otherwise) - disagreements with its documents
5. [The proofs](#5-the-proofs)
6. [What is not modelled](#6-what-is-not-modelled)
7. [Plan](#7-plan)

## 1. The system

### 1.1 Components that are modelled

| component | code | state | operations |
|---|---|---|---|
| Durable job service | `tpaa_runtime/durable_jobs.py`, `tpaa_application/durable_job_control.py`, `tpaa_storage/compute_job.py` | `registry.compute_job` rows, audit rows; the handler threads | submit, cancel, get; per command prepare, dispatch, store, persist |
| Worker dispatcher | `tpaa_platform/worker.py` | admission set, process table, cancel flags, one process and pipe per dispatch | dispatch, cancel, close, drain |
| Units of work | `tpaa_storage/sqlite_repository.py`, `postgres_repository.py` | the open transaction, the process-wide SQLite writer lease | enter, commit, rollback, exit |
| Release ledgers | `tpaa_storage/core_publication_ledger.py`, `sqlite_product_repository.py`, `postgres_product_repository.py`, `tpaa_application/p2_release.py` | `registry.analysis_release`, `release_scope_pointer`, `training_session.current_release_id`, idempotency rows | publish (core), register (product), publish (P2) |
| Object publication and recovery | `tpaa_storage/product_publication.py`, `object_seal.py`, `object_store.py`, `tpaa_runtime/persistence.py` | staging files, sealed files, `registry.object_reference` | stage, seal, register; recover sealed orphans, recover staging orphans |
| Derivation of products P1 to P6 | `tpaa_runtime/production_downstream.py`, `production_job_output.py`, `tpaa_application/source_import.py`, `p2_` to `p6_persistence.py`, `p4_p5_compute_input.py` | the rows of sessions, observations, cohorts, twins, assessments, models; artifacts and models in the object store | per command prepare (rolled back), compute, replay and persist; approve, release a model |
| Review of products | `tpaa_application/m8_workspace.py`, `m9_workspace.py`, `tpaa_assessment/p4_revision.py`, `p5_assessment.py`, `p6_recommendation.py`, `tpaa_runtime/durable_repositories.py`, `durable_longitudinal.py` | revisions and their results, status of annotations, audit rows, request memory of the process | transitions of P4, P5, notes, recommendations; debrief annotations; forecast runs; release of a model |
| Backup and recovery | `tpaa_runtime/recovery.py`, `tpaa_platform/filesync.py` | backup directory with manifest, staging directories, the restored place | back up, verify, restore, on the desktop and as a service |
| Desktop back end | `tpaa_gui/local_backend.py`, `tpaa_api/local_backend_child.py` | the controller's state, port and token; a child process and its pipes | start, status, request, shutdown; boot, serve, drain |
| Metrics | `tpaa_metric/catalog_engine.py`, `m3_identification.py`, `m3_track.py`, `m3_datalink.py` | none between calls: a plan, the results of a batch, the rows of a payload | compile a plan, run a batch, count from intervals and sequence positions |
| HTTP API | `tpaa_api/app.py`, `unified.py` | none | its job endpoints are the requests of the job service, its review and annotation endpoints the calls of the review |

How they interact.  An HTTP handler thread runs `submit` to its end: it accepts
the job in one transaction, starts it in a second, and calls the executor, which
(per command) reads its input in a third, dispatches the worker, writes an
artifact to the object store and commits release, outputs and the job's success
in a fourth; a fifth records the outcome.  `cancel` comes from another thread: it
tells the dispatcher to stop the worker and only then opens a transaction.  The
dispatcher is shared by all threads.  A release is published through one of three
ledgers, each with a locking scheme of its own.  Objects are sealed outside any
transaction and registered inside one; the recoveries compare the two.  What one
job has persisted the next one reads: the third transaction of a job writes rows
and is rolled back, and the fourth writes them again around the worker's product.
Reviews use no worker: they read in one transaction, decide in memory, and write
revision and audit row in two more; only the debrief does all of that in one.  A backup copies database and objects of a
system that goes on publishing.  On the desktop all of this runs in a child
process that the GUI spawns and ends.

### 1.2 Which behaviour is hard, and what makes each component correct

* **Job service.**  Five transactions with a cancel, another submission of the
  key, a crash or a lost acknowledgement between any two; on PostgreSQL they
  overlap, on SQLite one fails at once when another is open.  Correct means: a
  job's products are visible exactly with its success; the work of a job runs at
  most once however often a client repeats itself; one key is one job; what a
  client is told and what the audit log says stays true; an accepted job ends.
* **Dispatcher.**  A dispatch, a cancel and a process race over three shared
  tables.  Correct means: slots are exactly those of the dispatches in flight; a
  cancel hits the dispatch it was meant for and no later one; the result of a
  stopped worker is not used; no worker is at work after its dispatch; a worker that
  never answers does not hold anything for ever.
* **Ledgers.**  A read of the pointer and the write that depends on it.  Correct
  means: one pointer per scope, one gapless chain of releases, one release per
  key, no lost update, and receipts that stay true; no deadlock of the two locks.
* **Derivation.**  Two jobs write the same rows, or rows that a third was computed
  from; the content of a row is hashed into its key in part only.  Correct means: a
  product was computed from rows that are committed as its worker saw them, and
  nothing that readers of a committed product open is missing.
* **Review.**  A lookup of a request id and the entry of it, a read of a revision and
  the write of its successor, lie in different steps, and the memory of requests in
  no database.  Correct means: a reply stands; one id is one request; a model is
  released once; a result follows its assessment; an annotation is revised once.
* **Backup.**  Two stores are copied one after the other while both change, and put
  back one after the other.  Correct means: no reference without its object; a
  restore that reports success is whole, one that fails leaves nothing.
* **Desktop.**  A child that may be slow, hang, die, or talk out of turn between any
  two steps.  Correct means: no process is left behind; what is called ready is what
  runs; every call returns.
* **Metrics.**  Counts over intervals that touch, overlap or leave gaps, over numbers
  that wrap, over metrics computed from other metrics.  A count that is off by one
  boundary looks like any other result.  Correct means: what is counted is what the
  rows say instant by instant; a batch has, and commits to, all it is derived from.
* **Objects.**  A store and a registry without a common transaction, and sweeps
  that remove what looks orphaned.  Correct means: what is registered is there
  with its bytes; what is orphaned goes in the end.

Every place where this can go wrong is listed as a hazard in `PROJECT.json`, at
its line, with the properties that would catch it.

### 1.3 Components that are not modelled

Listed with reasons in [section 6](#6-what-is-not-modelled).

## 2. The modules

| module | kind | about |
|---|---|---|
| `JobLifecycle` | abstract | the life of a job row, and the one step that makes its products visible |
| `DurableJobs` | detailed | the job service; implements `JobLifecycle`, uses the actions of `WorkerPool` |
| `DurableJobs_proofs` | proofs | eight theorems about `DurableJobs` |
| `WorkerPool` | abstract | what a bounded dispatcher promises: admit, doom, settle |
| `WorkerDispatch` | detailed | `SpawnWorkerDispatcher` with its processes; implements `WorkerPool` |
| `WorkerDispatch_proofs` | proofs | its invariants, and that it implements `WorkerPool` |
| `ReleaseChain` | abstract | a scope's releases as a chain with a current end and keys used once |
| `ReleaseLedger` | detailed | the three publication routes on both engines; implements `ReleaseChain` |
| `ReleaseLedger_proofs` | proofs | its invariants, and that it implements `ReleaseChain` |
| `ObjectPublication` | detailed | staging, sealing, registration, and both recoveries |
| `ObjectPublication_proofs` | proofs | its safety invariants, whatever runs beside each other |
| `DerivedProducts` | detailed | the commands P1 to P6 as the rows they prepare, read and persist |
| `DerivedProducts_proofs` | proofs | its invariants, from any healthy database |
| `AssessmentReview` | detailed | review calls, their request memory and what they store |
| `AssessmentReview_proofs` | proofs | its five invariants |
| `BackupRestore` | detailed | backup of a publishing system, restore with failures |
| `LocalBackend` | detailed | the desktop's controller and its child |
| `Runtime_proofs` | proofs | the safety invariants of `BackupRestore` and of `LocalBackend` |
| `MetricCatalog` | algorithm | plan, batches and lineage of the metric engine |
| `AssociationMetrics` | algorithm | interval counting over an association relation |
| `LinkSequence` | algorithm | loss and disorder of a link whose numbers wrap |
| `Metrics_proofs` | proofs | the invariants of the three, for every input |
| `MC...` | instances | constants and symmetry for TLC |

`DerivedProducts` opens up what `DurableJobs` leaves as a choice: whether the
persistence of a job is refused (`PersistRefused` there, `Drifted` and `Accepts`
here).  It leaves out in turn what `DurableJobs` is about: accepting, cancelling,
retrying and recording.

`DurableJobs` takes the dispatcher through the three actions of `WorkerPool`
instead of its code, and `WorkerDispatch` is checked to implement these: the two
are checked separately and fit together at that interface.

Operators whose comment says *Mutant of X* are not part of a model.  Each is X
with a plausible fault in it (a dropped guard, a missing reset, a swapped
order).  Putting it in the place of X makes TLC find the property it is paired
with in `PROJECT.json` violated; they document that each property depends on
the code being as it is.

### 2.1 DurableJobs

A job is a pair of key and payload, as `job_id` is `uuid5` of the key and the
request hash.  State: `row` (committed status of every job), `product` (jobs
whose release and outputs are committed), `audit`, `objects` (artifacts in the
store), the pool (`active`, `doomed`), `writer` (the SQLite lease), and per
request its point `pc`, the job it is about, the rows its open unit of work has
read (`snap`) and its `reply`.  `executed` is history.

| action | code |
|---|---|
| `Begin`, `WriterBusy` | a unit of work opens and reads the rows of its key; on SQLite only with the lease, else it raises at once |
| `ReuseJob`, `RefuseJob`, `AcceptJob` | first transaction of `submit` |
| `StartJob`, `StartRefused` | its second transaction |
| `PrepareInput` | the input snapshot of a P2 to P6 command |
| `Dispatch`, `DispatchRefused`, `WorkerReturns` | the call of the dispatcher |
| `StoreObject` | the artifact goes to the object store |
| `PersistOutcome`, `PersistRefused` | release, outputs and success, or nothing |
| `RecordFailure`, `ReportEnded`, `FailureLost` | the `except` branch of `submit` |
| `FinishJob` | its last transaction |
| `StopWorker`, `CancelJob`, `CancelNoop`, `CancelRefused` | `cancel` |
| `Disconnect`, the `lost` of `Commit` | the database drops out; a commit that took effect may still raise |
| `Crash` | the back end dies: threads, lease, pool and open transactions go, rows and files stay |

A unit of work is two steps, its reads and its commit.  On SQLite the lease lies
between them; on PostgreSQL other requests do, and a write is the compare-and-set
of `ComputeJobRepository.cas_update`.  `Raise` is the table of where an exception
leads at each point: into the failure branch inside the executor, to the client
everywhere else.  Which stages a command has is the constant `Stages`.

Abstracted: what the payload, outputs and release contain; whether an input has
drifted (`PersistRefused` may always happen); `SUBMITTED`, which no other
transaction ever sees; `get`, which changes nothing; `update_progress`, which has
no caller.

### 2.2 WorkerDispatch

One constant per call of `dispatch` and of `cancel`.  `active` and `closed` are
the admission controller's, `processes` and `cancelled` the dispatcher's tables,
`proc` and `mail` the worker process and its pipe.  Steps are cut where a lock is
taken or a process is looked at: `Acquire`/`Refuse`, `StartProcess`, `Register`,
the polling loop with its five ways out (`Timeout`, `Receive`, `ReceiveFails`,
`SeeCancel`, `SeeExit`), `Join`, `Cleanup`, `Release`; `Lookup` and `Terminate` for
`cancel`; `SendResult`, `Raise`, `Exit` and `WorkerCrash` for the process;
`CloseAdmission`.  `drain` only waits, and ends as every dispatch does
(`DispatchEnds`).

A worker whose command or whose send raises closes its pipe and exits a moment later
(`worker.py:217`).  In that moment `poll` reports the end of file, `recv` raises
`EOFError`, and the dispatch goes through its `finally` block, which neither
terminates nor joins (`worker.py:363`); a result that does not unpickle has the same
end.  `ReceiveFails` is that way out: the process may be alive when the dispatch is
done, but only with its pipe closed and after an error.

Assumed: SIGTERM ends a worker within the two seconds the code joins it; a worker that
has begun to send its result finishes or dies, since `recv` has no deadline and would
wait for the rest of a message.
`SetupFails` is the exception of `Pipe()` or `Process()` before the `try` block,
which leaves the slot taken.  `WorkerPool` does not promise that a slot is given
back, so it is implemented all the same; `DurableJobs` takes every dispatch to
settle, which leaves this failure out.

### 2.3 ReleaseLedger

A publisher is one call in a transaction of its own: `Request` (the caller reads
the state it builds on, or repeats an earlier call with its arguments), `Begin` or
`WriterBusy`, `LockKey`, `LockScope`, then one of `Reuse`, `ReadPointer`,
`Refuse`, and `Publish` or `PublishLost`; `Abort` at any point.  The routes
differ as in the code:

| | locks on PostgreSQL | compares | also writes |
|---|---|---|---|
| core | key, then the session's row | token and parent | the session's current release |
| product | key, then an advisory lock of the scope | token | |
| P2 | none | token | |

`pointer` is a set of rows per scope, not a value, because the table has neither
a primary key nor a unique constraint: an update needs exactly one row with the
token that was read, an insert needs nothing.

Assumed: routes name their keys apart, as the code's key suffixes do; a scope is
published by one route; a release id is fixed by its content.
Abstracted: membership rows and prerequisite checks, which make a publication be
refused (`Abort`).

### 2.4 ObjectPublication

`Stage`, `VerifyStaged`, `FindSealed`, `WriteSealed`, `ConfirmSealed`, `Register`
are the steps of one publication, cut where the file system is touched; `Fail` is
an error or the death of the process at any of them.  A sealed recovery reads the
registry (`ReadRegistry`), lists the store (`ListSealed`) and removes file by file,
each only with the hash that was listed (`RemoveSealed`, or `HashChanged`).  A staging
recovery is told the operations under way (`NameActive`), lists the store later
(`ListStaging`) and removes what belongs to none of them (`RemoveStaging`).  Any of
them starts at any time, and a call may publish any bytes under any URI with any
operation id; the code forbids none of it.

Three races can then take an object.  A sweep that read the registry before the first
registration of a URI removes what was sealed for it; two overlapping first
publications with different bytes overwrite each other, since `seal` looks for the file
outside the lock under which `put_bytes` replaces it; a staging recovery removes the
bytes of an operation that began after it was told which are under way, and of two
publications of the same request the first to seal removes the staging object of both.
The history variables `exposed` (URIs) and `crossed` (publications) record who has been
in such a race, from the overlap and not from its outcome; the invariants promise the
rest, and of those only what the code still keeps.  Each of their conditions is needed:
without any one of them TLC finds a behaviour that loses an object.

### 2.5 DerivedProducts

A row is its primary key, its other columns, the rows its writer or a foreign key
requires (`refs`), and the rows and objects its readers open (`uses`, `uris`).  A
key holds what the code hashes into the identity of the product and nothing else,
which is what makes two jobs meet in a row they disagree on: the time of a request
is in the body of an attribution run but not in its key, the order of sessions in
the bodies of a twin's segments, the first target in the body of a cohort dataset.
`Accepts` is the `register_*` operation all repositories share: insert, or find
exactly the same row.

| action | code |
|---|---|
| `Prepare` | the transaction before the worker, rolled back; its context artifacts stay in the object store |
| `Compute` | the worker; Parquet and the attribution model are written here |
| `Persist`, `Commit` | the transaction after it: what was prepared is written again and compared with what the worker was given, then the product |
| `Fail` | any refusal, lost connection, cancel or failed worker |
| `Approve`, `ReleaseModel` | the reviews that later commands depend on |

`Prepared`, `Needs` and `Product` say per command (`P2Prepared` to `P6Product`)
which rows it writes before its worker, reads, and writes after it.  On SQLite `Persist` holds the writer lease up
to its `Commit`; on PostgreSQL transactions overlap and a row is inserted once.

Abstracted: every figure in the products; validation that looks at one request
only; which of the rows a reader opens are joined in one statement.

### 2.6 AssessmentReview

Every product is changed by writing a successor whose identity is the hash of the
revision before it, the state and the time the client sends; so a revision is the
path of steps that leads to it, and two calls derive the same one exactly if they
ask for the same.  A forecast run leaves the time out of its identity
(`SameIdentity`, `p6_persistence.py:266`): the same run made at another time is refused
when it is stored.  Only a model is changed in place.  A call is `Read` (a
transaction), `Look` (transition and request memory), `Remember`, `Register` and
`Audit` (a transaction each) or `Deny`; the P4, P5, annotation and recommendation
workflows remember a request before they store, M9's runs, drafts and releases
after they have audited.  A debrief command (`debrief` in the call) ends in
`Annotate`, one transaction for annotation, audit row and the status of its target
(`superseded`); it looks request ids up in the audit ledger (`Known`), and its commit
may be acknowledged or not.  `Look` and `Annotate` are two steps because such
transactions overlap on PostgreSQL, where nothing compares the status again.
`Restart` empties memory and ends calls.  `drafts` is
the portfolio under review and stays; a draft carries whether it has an ED2
result and whether its sources are fit for release.

Abstracted: the content of annotations and recommendations, authority policies,
the computation of a run, the views of a debrief.  `after` and `life` are history: which calls had ended
when a call began, and in which life of the process it ran.

### 2.7 BackupRestore

Publications go on beside the backup: a temporary file, its replacement by
`os.replace`, the reference; a publisher may die and recovery then removes its
object.  The backup copies the database, lists the tree, hashes each file, copies
each file, writes the manifest and renames its staging directory.  A restore
verifies the backup against its manifest, stages, puts the database and then the
objects in place.  Files are absent, in part, whole or damaged.  The profiles
differ where the code does: on the desktop a restore that fails removes the
database it placed, for a service `pg_restore` fills a database that must be
empty, is no transaction, and is left as it is.  The clean-up of a failed restore may
fail itself (`Leftovers`): the first `unlink` that raises skips the rest, and
`rmtree` removes what it can (`recovery.py:303`).

Its specification is `RecoverySpec`, so that one module can be about this component
and the next.

Assumed: one backup and one restore at a time (two restores into one place at the
same time are not kept apart by the code); a registered object is not removed by
recovery (see 2.4); the place of a failed or dead restore is cleared by an operator.
Abstracted: the manifest's own hash, the commands' output, the sizes.

### 2.8 LocalBackend

The controller is a single thread, so `call` says what its running call does next:
`start` (spawn, send the token, read the ready line, ask for readiness and for the
version, return the status), `status`, `request_json`, `shutdown` (request, signal,
kill).  The child boots, serves, drains, hangs or dies between any two of these,
may print something else before its ready line, and may be given a port that an
earlier child had.  `DesktopDies` closes both pipes.

Assumed: the operating system does not give the port of a dead child to a stranger
while the controller still polls it; a killed process ends.  Abstracted: poll
intervals; an exception other than `LocalBackendError` in `start` leaves the
same state as one of `Failed`.

### 2.9 MetricCatalog, AssociationMetrics, LinkSequence

The metrics are pure functions, so these modules let their input grow and compare
what the code computes with a definition of what it means.  Each has a specification
of its own (`CatalogSpec`, `AssociationSpec`, `LinkSpec`), about which the theorems
are.  `MCMetrics` lets a behaviour grow one of the three inputs and leaves the others
as they are: each of its steps is a step or a stutter of each of them.

`MetricCatalog`: `Declare` writes a dependency into the catalog, `Compile` is
`build_catalog_metric_execution_plan` with `_topological_order` (waves of what is
ready, by catalog index), `Request` is `_execution_definitions` (passes over the plan
until nothing is added), `Evaluate` one metric of `execute`, `Break` whatever makes it
raise.  A hash is the set of metrics that went into it.

`AssociationMetrics`: a row says that a track stood for a target over an interval,
`Associate` adds one.  Merging, segments, episodes, swaps and identity segments are
folds over the ordered rows, as the loops of the code are.  Identity segments, drops
and the intersection of validity and opportunity are taken over the rows of pairs.
The same merging stands in five more plugin modules.

`LinkSequence`: a sender numbers its messages from any position on; `Deliver` hands
over any of them, late, again, or never.

Abstracted: microseconds become steps; rows with equal track, target and interval are
one; whether an association was correct or wrong; parsing and validation of
payloads; authorities, operators, schemas and the output of a metric; plugin versions.

## 3. The runs

Each run is a `.cfg` and an `MC` module; `PROJECT.json` says in a sentence what
it shows.  Symmetry is declared over sets whose members the model never tells
apart (requests, dispatches, keys, operations, calls, stamps, URIs, tracks, targets), and never in a
run with a liveness property.  Deadlock is not checked: each system legitimately
stops when every call has been answered.

| run | what it asks | instance |
|---|---|---|
| `jobs_sqlite` | the job service under the writer lease: keys, artifacts, that every request is answered and accepted jobs end or lose the lease | 3 submitters and 1 canceller of one key, 2 commands, 1 slot, 1 crash |
| `jobs_postgres` | rows, products, audit, replies and lifecycle where transactions overlap and the connection may drop, also during a commit | 2 submitters, 1 canceller, 2 keys, 2 commands, 1 slot, 1 crash |
| `dispatch` | all safety of the dispatcher, that it is a `WorkerPool`, that dispatches end | 2 dispatches, 2 cancels, 2 jobs, 1 slot |
| `ledger` | the routes publish one chain beside each other, lose no update and do not wait for each other | both engines; 3 publishers, a core scope and a product of 2 releases each, an observation of 1, 2 keys |
| `objects` | registered objects stay exact and publications keep what they need, but for the races of 2.4; orphans go in the end | 2 publications, 2 operation ids, 2 URIs, 2 contents, the second call with any operation id and the URI or the bytes of the first, one recovery of each kind at any time |
| `products` | a job's inputs are committed, no product misses what its readers open, contexts stay usable | both engines, six scenarios of two to four jobs over a past of up to eight |
| `review` | replies stand, ids stand for one request, a model is released once, results follow, an annotation is revised once | 3 calls, 2 request ids, 2 times, 2 lives of the process, six portfolios |
| `backup` | a backup is consistent, a restore all or nothing | both profiles, 3 objects, 2 restores |
| `desktop` | no process is left, requests go only to the backend that runs, calls return, orphans end | 2 ports, 3 starts |
| `metrics` | the counts are what the rows and messages say; a batch has its lineage | 3 tracks, 2 targets, 4 instants, 4 rows (5 beside a swap), threshold 2, gap 1; modulus 4, 5 messages sent, 4 received; 4 metrics, 3 dependencies |
| `jobs_keyrace`, `objects_sweep` | disagreements, see section 4 | 2 submissions of a key; a publication and a recovery |

Properties of the job service are divided between its runs so that each is asked
where it is hardest: what overlap could break on PostgreSQL, what the lease must
give on SQLite.

**Why the bounds are enough for the cases that matter.**  The races here are
between two actors; a third shows the consequence (a resubmission after two
racing submissions, a publication on top of two concurrent ones, a call answered
from what two others left).  Two payloads under one key give the conflict, two
keys an unrelated job that competes for the slot and the lease.  One slot makes
the limit bite with two dispatches.  One crash is enough because a crash leaves no
state but rows and files, and an abandoned job is the same after the next crash.
The scenarios of `products` are those in which two jobs share a row: one session
imported twice, one cohort with two targets, one twin under two orders and one
anchor under two histories, one context assessed twice, one model trained twice and
read by two runs, and an order taken by another session.  A backup meets an object
that is complete, one being written and one being reclaimed.  A third start of the
desktop may be given the port of the first.  Four rows make a swap, or two tracks on
a target before and after a gap; five messages over a modulus of four reach past a
whole turn; three dependencies make a chain that one pass over the plan does not close.
The bounds are the constants
`MaxCrashes`, `Capacity`, `Lives`, `Attempts`, `Starts`, `Horizon`, `MaxRows`,
`MaxSent`, `MaxReceived`, `MaxBindings`, the scenarios and the sizes
of the sets; nothing else is bounded.

**Fairness.**  `DurableJobs!FairSpec` lets a handler thread run on once its
request has arrived (weak fairness; when a request arrives is not assumed).  It is
checked on SQLite, where a step may find the lease taken; on PostgreSQL none does.
`WorkerReturns` is part of it because the dispatcher ends every dispatch, which
`DispatchEnds` shows.  `WorkerDispatch!FairSpec` lets the thread of an admitted
dispatch run on and its deadline pass; it assumes nothing of the worker, of
cancels or of `close`.  The fair specification of `ledger` lets a made call be
served; lock waits end when the holder ends.  `ObjectPublication!FairSpec` lets
publications end and supposes an environment: an operator who runs the recoveries
again and again, not every run being cut short at the same point (strong fairness
of its steps).  Nothing in the code schedules the recoveries, so `OrphansReclaimed`
says that they suffice, not that they happen.  `LocalBackend!Spec` lets the running
call of the controller go on, because each of its waits has a deadline, and a child
that does not hang.

**What the properties say.**  The comment over each is the statement.  In short:

| component | properties |
|---|---|
| job service | `OutcomeAtomic`, `ArtifactBeforeRelease` (products and success), `AtMostOneExecution`, `OneJobPerKey` (repeats and keys), `AuditAgrees`, `ReplyStands` (what was told stays true), `AcceptedJobEnds`, `RequestsAnswered` (ends), `ImplementsLifecycle` |
| dispatcher | `SlotsMatchDispatches`, `WorkersSettled` (resources), `ImplementsPool` (cancels and results), `DispatchEnds` |
| ledgers | `LinearChain`, `NoLostUpdate`, `ImplementsChain`, `CallsAnswered` |
| objects | `RegisteredExact`, `PublicationUndisturbed`, `OrphansReclaimed` |
| derivation | `InputsCommitted`, `ProductsReadable`, `ContextsUsable` |
| review | `ReplyStands`, `ConflictsRefused`, `ReleasedOnce`, `ResultFollows`, `RevisedOnce` |
| backup | `BackupResolves`, `RestoreAllOrNothing` |
| desktop | `NoBackendLeft`, `ReadyServes`, `CallsEnd`, `OrphanEnds` |
| metrics | `DwellsExact`, `EpisodesExact`, `SwapsExact`, `SequencesExact`, `LineageComplete` |

`SlotsMatchDispatches`, `LinearChain`, `InputsCommitted` and the `ReplyStands` of the
review have the `TypeOK` of their module as first conjunct.

**Refinement.**  `ImplementsLifecycle` maps rows and products to themselves;
`ImplementsPool` takes a slot as given back when the tables are cleared;
`ImplementsChain` reads the chain of a scope off the numbers of its release rows,
for the scopes whose publications exclude each other.

## 4. What the code does otherwise

Two runs check a property each that a document of the repository states and that
the code does not keep.  TLC's counterexample is the shortest story of each.

1. **`jobs_keyrace`** - on PostgreSQL, two submissions of one key with different
   payloads that overlap both find the key free and are both accepted.  Afterwards
   every submission of the key fails (`B3_COMPUTE_JOB_KEY_CARDINALITY`).
2. **`objects_sweep`** - a sealed recovery that read the registry before a
   publication registered its object removes the object
   (`RegisteredNeverDeleted`).

The following have no run of their own.  Where the modules contain the behaviour,
the properties are stated so as not to promise the contrary, and the hazard in
`PROJECT.json` says so.

* On SQLite the writer lease never waits.  A job whose start, or whose recording of a
  failure, meets a lease held by another request is left QUEUED or RUNNING until it
  is cancelled, against `PRCB_ACCEPTANCE_CONTRACT.json:21` (`durable_jobs.py:1864`).
* A dispatch whose pipe or process object cannot be made keeps its slot
  (`worker.py:297`); `SlotsMatchDispatches` shows that nothing else does.
* A dispatch in which `recv` raises neither terminates nor joins its worker
  (`worker.py:318`, `worker.py:363`), which may then exit after it;
  `WorkersSettled` shows that it has nothing left to do.
* A publication that begins while a staging recovery lists the store may lose its
  staging bytes and fail: the caller's ids are frozen before the listing
  (`product_publication.py:347`).
* Two first publications of a URI with different bytes that overlap may both pass their
  checks until the second has replaced what the first registers (`object_seal.py:52`).
* On PostgreSQL two first P2 publications in a scope both insert a pointer row
  (`p2_release.py:274`), against the sole pointer of
  `M1_E_PUBLICATION_BACKEND_IMPLEMENTATION_DESIGN.md:85`.
* On PostgreSQL two assessments of one context can both bind its role model, and the
  context cannot be assessed again (`production_downstream.py:1136`).
* A P6 model can no longer be read once another session of its scope has been given
  the order of one of its sessions (`p6_persistence.py:466`).
* Review requests are remembered in memory only: after a restart the same request id
  is a new request (`m8_workspace.py:565`, `m9_workspace.py:445`).
* Notes on assessments and debrief annotations share the table `debrief.annotation`.
  A note takes its release id from the client without a check (`m8_workspace.py:496`);
  one note that names a longitudinal release makes the debrief of that release fail
  for good, since it has no audit row of the debrief (`durable_longitudinal.py:713`).
* On PostgreSQL two overlapping debrief commands on one annotation both supersede it
  (`durable_longitudinal.py:938`, `RevisedOnce` leaves that case out), and two
  overlapping ones with one request id leave an id that every repeat refuses
  (`M4_ANNOTATION_REQUEST_CARDINALITY`).
* The view of a debrief as of a time compares times as text, so that `...00Z` sorts
  after `...00.5Z`, and shows the status of annotations as it is today
  (`durable_longitudinal.py:1089`).
* A temporary file that a backup hashes in part and copies whole makes a backup that
  no restore accepts; the staging directory of a backup that died refuses every
  later one (`recovery.py:104`, `recovery.py:190`).
* A start of the desktop back end may end with a `BrokenPipeError` or an HTTP
  exception, for which `run_desktop` has no handler (`desktop.py:30`).
* `P1_METRIC_CATALOG.json:4054` calls a target duplicated while several tracks
  represent it "continuously".  `_qualified_multiplicity_episodes` never sees a time in
  which nothing at all is associated, so an episode lasts through it; such a time is in
  the numerator of P1-ID-006 and not in the denominator, and the ratio can exceed one
  (tracks A and B on one target over [0, 1) and [3, 4): 4 to 2).  `EpisodesExact`
  promises nothing of an episode that lasts through such a time, but that it contains
  every stretch that is continuous.
* P1-ID-003 counts an exchange when "the exchanged assignment persists"
  (`P1_METRIC_CATALOG.json:3913`).  `_id003` measures how long the whole relation stays
  as it is, so an unrelated track that appears or ends within the threshold hides a swap,
  and of two exchanges at one instant none is counted (`m3_identification.py:505`).
  `SwapsExact` promises that what is counted is such a swap, and that one is counted
  beside which nothing else changes.
* P1-ID-007 adds up the rows of a pair without merging them: overlapping rows make the
  identity dwell longer than the time it covers (`m3_identification.py:612`);
  `DwellsExact` speaks of pairs whose rows do not overlap.
* P1-DL-003 and P1-DL-004 rank positions from the first one received: a message sent
  before it and received after it ranks nearly a modulus ahead, as lost messages and
  never as out of order (`m3_datalink.py:471`).

## 5. The proofs

Every safety invariant and every refinement that a passing run checks is also a
theorem: it holds for every value of the constants, whatever the number of requests,
publishers, calls, jobs, ports, tracks or metrics.  Proofs stand in modules whose
names end in `_proofs`.  All of those about processes have the same shape.  The property alone is
seldom kept by every step, so it is strengthened to an inductive invariant whose
parts have names; the initial states satisfy it, one lemma per action or group of
actions shows that a step keeps it, and it implies the property.

| proof module | theorems (property) | inductive invariant |
|---|---|---|
| `DurableJobs_proofs` | `TypeCorrect`, `OutcomesAreAtomic`, `ExecutedAtMostOnce`, `KeysAreExclusive`, `ArtifactsFirst`, `RepliesStand`, `AuditTellsHistory`, `LifecycleImplemented` | `OutcomeInv`, `OwnerInv`, `KeyInv`, `HistoryInv` |
| `WorkerDispatch_proofs` | `SlotsMatch`, `WorkersAreSettled`, `PoolImplemented` | `SlotInv`, `TableInv`, `WorkerInv` |
| `ReleaseLedger_proofs` | `ScopesAreChains`, `UpdatesAreKept`, `LedgerIsChain` | `CountInv`, `LockInv`, `WriteInv`, `SightInv`, `OriginInv`, `ChainInv` |
| `ObjectPublication_proofs` | `RegisteredStaysExact`, `NothingDisturbed` | `SealInv` (`Steady`), `StageInv` (`Safe`) |
| `DerivedProducts_proofs` | `InputsAreCommitted`, `ProductsStayReadable`, `ContextsStayUsable`, `FromNothing` | `StoreInv`, `OpenInv`, `LeaseInv`, `InputInv`, `SubjectInv` |
| `AssessmentReview_proofs` | `ResultsFollow`, `RepliesStand`, `ModelsReleasedOnce`, `NotesRevisedOnce`, `RequestsMeanOneThing` | `CallsInv`, `StateInv`, and for each theorem `ResultsInv`, `ReplyInv`, `RevisedInv`, `ConflictInv` |
| `Runtime_proofs` | `BackupConsistent`, `RestoreAtomic` | `SealedInv`, `BackupInv`, `SourceInv`, `PlaceInv` |
| | `NoneLeftBehind`, `ReadyIsServed` | `ChildInv`, `StateInv` |
| `Metrics_proofs` | `SequencesExactAlways`, `LineageCompleteAlways`, `SwapsExactAlways`, `EpisodesExactAlways`, `DwellsExactAlways` | `LinkType`, `PlanInv`, `BatchInv`, `RelationInv` |

The assumptions are those on the constants in the modules, which TLC evaluates in
every run, and two conditions that stand in the theorems themselves:

* `KeysAreExclusive` is for `Engine = "SQLITE"`.  On PostgreSQL it is false
  (`jobs_keyrace`).
* `DerivedProducts_proofs` supposes `PastHealthy`: the rows that a behaviour starts
  with are a database that satisfies the properties.  The run `products` checks
  its invariants in the first state too, so its scenarios satisfy it; `FromNothing`
  is the case without a past, where nothing is supposed.

Further assumptions that the proofs made explicit: a recovery run sweeps either
sealed or staged objects (`RunnerAssumption`), no port is the absent one
(`PortAssumption`), there are finitely many releases to publish
(`ReleasesAssumption`), products of the review have a kind, and a result only if
they are assessments (`PortfoliosAssumption`), a backend lives at least once
(`LivesAssumption`), jobs have one of the nine commands (`CommandsAssumption`), and
there are finitely many tracks, targets and metrics (`MetricConstants`,
`CatalogConstants`): a payload has finitely many rows, a catalog is a list.

### 5.1 DurableJobs

| theorem | says | needs |
|---|---|---|
| `TypeCorrect` | `Spec => []TypeOK` | |
| `OutcomesAreAtomic` | `OutcomeAtomic`, on both engines, with crashes and lost acknowledgements | `FinishHolds`: a request about to confirm a success has seen it committed |
| `ExecutedAtMostOnce` | `AtMostOneExecution`, on both engines | `SingleOwner`: an accepted job has at most one owner and only it has dispatched; `CancellersApart` |
| `KeysAreExclusive` | `OneJobPerKey`, on SQLite | `LeaseHolds`: whoever is inside a unit of work holds the lease and has read what is there now |
| `ArtifactsFirst` | `ArtifactBeforeRelease` | `StoredHolds`: a request at its last unit of work has stored what its command writes |
| `RepliesStand` | `ReplyStands` | `EndsReadStand`: an ended status that a unit of work has read is still there when it is left |
| `AuditTellsHistory` | `AuditAgrees` | `AuditInv`: the entries one by one; `StartedHolds` |
| `LifecycleImplemented` | `ImplementsLifecycle`, on both engines | all of the above, and `KeyInv` on SQLite |

`FinishJob` writes SUCCEEDED without adding a product; only `FinishHolds`
excludes a row it would change.  A step of an arbitrary second owner would
execute a job twice; only `SingleOwner` excludes it, and it holds because the sole
way to become an owner is to insert an absent row, whose primary key is unique.
`AcceptJob` looks only at what it read; only `LeaseHolds` makes that current.  On
PostgreSQL an answer may rest on a row read before another transaction committed;
`EndsReadStand` is why that does no harm: what may have been overtaken is never an
end.  The last four theorems share one lemma, which lists the seven ways in which
a step may write to the database and its audit log.

### 5.2 WorkerDispatch

`SlotInv` ties the slots to the dispatches that hold one (`Holds`), leaked slots
included.  `TableInv` says that a registered process belongs to a dispatch of that
job which has not settled: a cancel hits the dispatch it was meant for.  `WorkerInv`
says where a worker may be at work, that one which outlives the wait for it does so
after an error, and that a success is decided when the worker has exited.  `PoolImplemented` maps a slot as given back in the step that clears the
tables; each other step is an action of `WorkerPool` or a stutter.

### 5.3 ReleaseLedger

A writer is right because what it read still stands (`WriteInv`), which follows from
what it holds (`LockInv`): the lease on SQLite, on PostgreSQL the lock of its key and
then of its scope.  Two first publications of a scope have no pointer row to lock;
the scope lock covers them, and the P2 route without it is left out of the chain
(`Serialised`).  `ChainInv` alone is not inductive: a number is new only because none
is higher than there are rows (`CountInv`), and a token a caller has seen is worth
comparing only because it was the end of the chain once (`SightInv`).  `OriginInv`
leads a row back to the call that asked for it.  `LedgerIsChain` reads the chain off
the numbers; that a publication appends to it is the lemma `AppendFunction`, about
sequences given as functions.

### 5.4 ObjectPublication

Nothing is supposed of callers and operators.  `Steady(u)` is what holds of a URI that
is not exposed: before its first registration the publications under way meet no sweep
and agree on its bytes, so what one confirms is what it registers; afterwards nobody
rewrites it with other bytes, and no sweep has it in its listing, since each has read the
registry with it.  `Safe(p)` says of a publication that met nobody when it began that
every staging recovery was told of it and that it has no twin.  Both are kept because
`exposed` and `crossed` grow at the two moments at which an overlap can begin: when a
publication starts, and when a sweep reads the registry.

### 5.5 DerivedProducts

Rows are ordered by nothing but time, and transactions overlap.  `Brings(d, new, uris)`
is what a transaction promises of the rows it has inserted but not committed: added
to `d` they leave a database in which every reference resolves and no reader misses a
row or an object.  The lemma `BringsGrows` shows that the promise survives the commits of
others, as rows are never removed and the one column that changes is the status of a
model (`Grown`); `HealthyAdds` that it is kept when the transaction commits, because
it fails if one of its keys is there.  That every job makes that promise, whatever
its command, is `JobShaped`, from one lemma per command about the rows it writes:
a key stands for one row and readers open rows of the job or rows its worker was
given.  `InputInv` carries what a worker was given over to the commit: those rows
were committed or come with the product, since the second transaction refuses a
replay that differs.  `LeaseInv` gives `ContextsUsable` on SQLite, where a binding is
written only if none is there.

### 5.6 AssessmentReview

Every answer goes back to a writer: `Sound` says what a call at each point has read
and looked up, `Remembered` that memory holds the answer of a writer.  A replay may
answer a call long after its first answer was lost, in another life of the backend;
`ReplyInv` says for each product what that answer may be, and for models that a call
which found the model unreleased began before any release it did not overlap.
`RevisedInv` follows a revision to the call that wrote it, which need not be one that
was answered.  `ConflictInv` is about request ids: where a call was alone with its id,
memory (in the debrief the audit log) holds exactly what it stood for, and
whoever is about to write under that id began before.

### 5.7 BackupRestore

One invariant in five parts.  `TypeInv` are the types.  `SealedInv`: the publisher of
a registered object counts as having registered it, which recovery and dying
publishers respect, and what is sealed or registered is whole.  `BackupInv`: while
files are listed and hashed the copied database names only objects that are
registered; while they are hashed, each of these is still to be hashed or whole in
the manifest; from then on the manifest resolves every reference, as does that of a
finished backup.  This is the argument of the code, database first, and the reason
why the mutant with the two swapped fails.  `SourceInv`: a backup that is there is
finished, and a restore that runs or has succeeded works on files equal to the
manifest.  `PlaceInv`: for each point of a restore, what stands in its place and
what it has staged, which is nothing or that backup's.  `RestoreAllOrNothing` alone
says nothing between the two renames and is not inductive.

### 5.8 LocalBackend

`ChildInv` says what is in the pipes of the running child: the token it was told and
the port it tells are those of this start.  `StateInv` says what the controller's
state means for the child.  That no stray process exists is a part of the types
there (`strays = 0`), and is kept because every way into a new start goes through a
state in which the last child is dead.  `ReadyIsServed` is in part about steps: a
request is admitted by `Observed`, which polls the process in the same step, and what it
finds alive has the port and the token by `ChildInv`.

### 5.9 Metrics

The state of these modules is the input, so the invariants are little more than types
and the work is in showing what the code's loops compute.  They are folds, over lists,
over sets in an order, over sets in any order.

**Folds.** The library's induction takes a predicate as a parameter, which no installed
prover can instantiate.  `NaturalInduction` is the same principle about sets, from the
well-foundedness of the numbers; with it `FoldExists` shows that there is a function
that satisfies the recursive equation of a fold, so that the `CHOOSE` of the community
modules names one, and each loop is unfolded once into a chain of states
(`OrderUnfolds`, `PassUnfolds`, `ClosureUnfolds`, `SegmentsUnfold`, `FinalUnfolds`,
`MergedUnfolds`, `StintsUnfold`): the first is the start, each further one is the loop's
body applied to the one before, the last is the result.  From there a proof is an
ordinary invariant argument, a lemma `...Keeps` for one turn of the loop.  `OrderRanks`
and `InOrderLists` say that sorting lists each member once and in order, whatever
`CHOOSE` picks.  `SumsCount` says what a sum over a set in any order is: if each term is
the size of a set and these sets are disjoint, the size of their union.

**Link.** `RanksAreDistances`: if the first message received is the least and none is a
modulus away, a rank is the distance from the first message, although positions wrap.
Loss and disorder are then counts of distances (`CountsAreThoseSent`), and the rates are
fractions in any case (`RatesAreFractions`).

**Catalog.** Lineage is a least closed set, not a fold (`LineageLeast`).  Each wave that
does not end the order makes it longer, so after as many waves as there are metrics
nothing more is ready (`OrderComplete`).  If something of a closed delivery is left
then, a metric of it is on a cycle (`StuckOnCycle`); an order of everything excludes
cycles and dependencies outside the delivery (`OrderedEnds`).  A pass that adds nothing
has reached the closure, and there are as many passes as metrics (`ClosureIsLineage`).
`BatchInv` then says that what is executed and what is left make up the lineage of the
request.

**Association.** Between two boundaries no row begins or ends (`ElementaryAre`), so the
segments cover every instant with an association, are constant inside and differ where
they meet (`SegmentsAre`, `SegmentChain`).  Swaps are read off neighbouring segments
(`SwapsAre`), which tells exactly what the code counts; that this is an exchange that
persists (`CountedIsTraded`), once (`CountedIsOne`), and that an undisturbed one is among
it (`TradeIsCounted`) follows.  An episode is followed as a state that is open since some instant;
`Closing` shows that one turn of the loop keeps what was closed exactly the maximal
stretches that have ended, for every key at once (`FollowsNext`), although the loop goes
over segments and over keys (`EpisodesAre`).  What was continuous lies in one of these
(`StretchAround`), and where nothing was idle the two are the same (`SeveralNowIs`).  Merged intervals are the maximal stretches of the instants
covered (`MergedAre`), and so durations, intersections and drops are counts of instants
(`DurationIs`, `IntersectionIs`, `DropsAre`).  Identity segments join stretches across
gaps of at most `MaxGap`; that they are the maximal stretches of the instants between
two of the same pair no farther apart (`Bridged`) is `StintsJoin` and `StintsAre`.  Two
counts over keys, `TargetDwell` and `DuplicateDwell`, are sizes of sets of key and
instant, so that one is compared with the other by inclusion (`DuplicatesAre`,
`LongestIs`).

### 5.10 What proving changed

* Two cases of `LocalBackend!Answers` overlapped, so that the answer was a `CHOOSE`
  among both; they now exclude each other as the branches of the code do.
* `ReleasedOnce` once promised that two answered releases of a model overlapped.
  With four calls that is false, and no run has four: the answers may be replays of
  calls that overlapped and were not answered themselves.  It now speaks of the calls
  the answers go back to.
* `RevisedOnce` is not inductive over answered calls: a revision whose answer was lost
  has successors, too.  The invariant follows every writer (`Wrote`).
* `MetricCatalog` sorted and filtered with `SortSeq` and `SelectSeq`, whose recursive
  definitions no prover can use.  A wave is now listed by the ranks of its members
  (`ByIndex`), and a batch keeps the set of what is left, whose order is that of the plan.
* In `AssociationMetrics` the finiteness of tracks and targets was never said, and without
  it no sum or order exists.

### 5.11 Model-checked only

Liveness, which needs fairness and `ENABLED`: `RequestsAnswered`, `AcceptedJobEnds`,
`DispatchEnds`, `CallsAnswered`, `OrphansReclaimed`, `CallsEnd`, `OrphanEnds`.

## 6. What is not modelled

| component | why |
|---|---|
| In-memory job control and publications (`job_control.py`, `m1_repository.py`, `m1_` to `m3_publication.py`) | stand-ins of one process behind one lock, for development and tests |
| Longitudinal releases (`m4_release.py`, `durable_longitudinal.py`) and the views of a debrief | trends are numeric; production refuses to publish a longitudinal release (`M4_PRODUCTION_PUBLICATION_REQUIRES_GOVERNED_WORKER`) and reads what is seeded; the annotations are part of `AssessmentReview` |
| Development backup (`backup_restore.py`) | replaced by the production backup |
| Schema bootstrap and migrations | run once before anything modelled |
| Audit ledger | the rows of jobs and reviews are part of their modules; it only inserts |
| Acquisition of the file lock | `put_bytes` and `delete_object` are atomic steps of `ObjectPublication`; replacement is a step in `BackupRestore` |
| Ingest, world, context, episode, capability, observation, the numeric metric families | deterministic numeric code in one worker; floating point is out of reach |
| GUI, read endpoints, readiness, configuration, identity | keep no state, or show it |
| Code generation, generated code, qualification harness, developer tools | not part of the running product |

The last three rows are the bulk of the repository: numeric code, generated
registries and schemas, and the harness that compares reports.  It has no
interleavings and no state between calls, so there is little a model could say that a
unit test does not, and most of it is floating point.  That is why the modules stand
for a small share of all lines and for most of those that change shared state.

Out of reach of the proofs: liveness under fairness.

## 7. Plan

1. **Abstract specifications.**  What `JobLifecycle`, `WorkerPool` and `ReleaseChain` promise,
   proved about them and carried to the detailed modules by the refinements.
2. **`JobControl`, `M1Publication`** - the in-memory stand-ins as implementations of
   `JobLifecycle` and `ReleaseChain`.
3. **Bootstrap** - creation of the schema with a crash between any two statements.
4. **Pure algorithms** - after the metrics of 2.9 the response and band counting of
   `m3_air.py`, the matching of `sns_detection.py`, stage revision and time alignment,
   each against a reference definition over small inputs; the lemmas about folds, orders and
   sums of `Metrics_proofs` are about no metric in particular and serve these, too.
