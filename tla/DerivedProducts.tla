--------------------------- MODULE DerivedProducts ---------------------------
(***************************************************************************)
(* The products that jobs derive from one another: a P1 job imports a      *)
(* session, P2 adjusts its observations, P3 builds a capability twin from  *)
(* them, P4 and P5 assess it, P6 trains a model on the assessments and     *)
(* forecasts with it.  A job writes and reads rows in a transaction that   *)
(* it rolls back, computes in a worker, and writes the same rows and its   *)
(* product in a second one (tpaa_runtime/durable_jobs.py and               *)
(* production_downstream.py over the repositories of tpaa_application).    *)
(*                                                                         *)
(* A row is its primary key, its other columns, the rows its writer or a   *)
(* foreign key requires, the rows and the objects its readers open.  A key *)
(* holds what the identity of the product is hashed from; the figures that *)
(* the products consist of are left out.                                   *)
(***************************************************************************)
EXTENDS Naturals, FiniteSets, Sequences

CONSTANTS
    Scenarios,  \* sets of requests that are made together
    Requests,   \* scenario -> job -> its request
    Past,       \* scenario -> jobs that have succeeded one by one before
    SessionOf   \* observation -> its training session

Commands == {"P1", "P2", "P3", "P3E", "P4", "P5", "P6", "FORECAST", "COUNTERFACTUAL"}

ASSUME CommandsAssumption ==
    \A s \in Scenarios :
        /\ \A j \in DOMAIN Requests[s] : Requests[s][j].cmd \in Commands
        /\ Past[s] \subseteq DOMAIN Requests[s]

VARIABLES
    engine,     \* "SQLITE" or "POSTGRES"
    scenario,   \* the requests of this behaviour
    db,         \* committed rows
    objects,    \* URIs that hold bytes in the object store
    phase,      \* job -> how far its execution is
    input,      \* job -> the rows its worker was given
    txn         \* job -> the rows its open transaction has inserted

vars == <<engine, scenario, db, objects, phase, input, txn>>

request == Requests[scenario]
Jobs == DOMAIN request
Cmd(j) == request[j].cmd

-----------------------------------------------------------------------------
(* Rows *)

Row(key, columns, refs, uses, uris) ==
    [key |-> key, body |-> <<key[1]>> \o columns, refs |-> refs, uses |-> uses, uris |-> uris]

Keys(rows) == {r.key : r \in rows}
Table(d, name) == {r \in d : r.key[1] = name}

\* Mutant of Accepts: a row that exists is taken as it is.
AcceptsAnyBody(d, R) == \A r \in R : r.refs \subseteq Keys(d \cup R)

\* Every register operation: a row whose key exists must be the same row, and
\* what the writer or a foreign key refers to must be there.
Accepts(d, R) ==
    /\ \A r \in R, s \in d : r.key = s.key => r = s
    /\ \A r \in R : r.refs \subseteq Keys(d \cup R)

\* A context artifact with its managed object.
ContextRow(name) == Row(<<"artifact", name>>, <<>>, {}, {}, {<<"context", name>>})

\* P1: source provenance with the session, the canonical Parquet dataset (its
\* manifest holds the hash of the request), the release, its observations of metrics
\* whose definitions all sessions share.
ImportRow(q) == Row(<<"source", q.session>>, <<q.at>>, {}, {}, {})
ParquetRow(q) == Row(<<"parquet", q.session>>, <<q.at>>, {}, {}, {<<"parquet", q.session>>})
ReleaseRow(j) ==
    Row(<<"release", request[j].session>>, <<j>>, {<<"parquet", request[j].session>>}, {}, {})
DefinitionRow == Row(<<"definition">>, <<>>, {}, {}, {})
ObservationRow(q, o) ==
    Row(<<"observation", o>>, <<>>, {<<"release", q.session>>, <<"definition">>},
        {}, {})

\* P2: factor features; the frozen cohort dataset, identified by the cohort, with
\* the workspace it was prepared for.
Observed(q) == q.cohort \cup {q.target}
FeatureKey(o) == <<"features", o>>
FeatureRow(o) ==
    Row(FeatureKey(o), <<>>, {<<"observation", o>>, <<"artifact", "specs">>}, {}, {})
CohortKey(q) == <<"cohort", q.cohort>>
CohortRow(q) == Row(CohortKey(q), <<q.target>>, {FeatureKey(o) : o \in Observed(q)}, {}, {})

\* The attribution run, identified without its time, and the adjusted estimate,
\* whose release is the job's own.
RunKey(q) == <<"run", q.cohort, q.target>>
RunRow(q) == Row(RunKey(q), <<q.at>>, {}, {CohortKey(q)}, {<<"p2-model", q.cohort, q.target>>})
AdjustedKey(j) == <<"adjusted", j>>
AdjustedRow(j) ==
    LET q == request[j] IN
    Row(AdjustedKey(j), <<q.target>>, {RunKey(q), <<"observation", q.target>>},
        {CohortKey(q)}, {})

\* P3: the order of the sessions in a scope, the configuration with the session
\* it is anchored at.
SessionAt(q, i) == SessionOf[request[q.history[i]].target]
Sessions(q) == {SessionAt(q, i) : i \in DOMAIN q.history}
OrderKey(scope, s, n) == <<"order", scope, s, n>>
OrderRows(q) ==
    {Row(OrderKey(q.scope, s, q.order[s]), <<>>, {<<"source", s>>}, {}, {}) : s \in Sessions(q)}
ConfigKey(q) == <<"configuration", q.config>>
ConfigRow(q) == Row(ConfigKey(q), <<SessionAt(q, 1)>>, {<<"source", SessionAt(q, 1)>>}, {}, {})

\* The frozen lifecycle segment of a history, its validation and training sets.
\* Their identities leave out the order of the sessions, which they hold.
AdjustedKeys(q) == {AdjustedKey(q.history[i]) : i \in DOMAIN q.history}
SegmentKey(q) == <<"segment", q.history, q.scope, q.config>>
SegmentRow(q) ==
    Row(SegmentKey(q), <<q.order>>,
        AdjustedKeys(q) \cup Keys(OrderRows(q)) \cup {ConfigKey(q)}, {}, {})
ValidationKey(q) == <<"validation", SegmentKey(q)>>
ValidationRow(q) == Row(ValidationKey(q), <<q.order>>, {SegmentKey(q)}, {}, {})
TrainingKey(q) == <<"training", SegmentKey(q)>>
TrainingRow(q) ==
    Row(TrainingKey(q), <<q.order, q.at>>, {SegmentKey(q), ValidationKey(q)}, {}, {})

\* A model's bytes with their reference.
ManagedRow(key) == Row(<<"managed", key>>, <<>>, {}, {}, {key})

\* The component: a model, identified by the content of its sets, and its surface.
ComponentKey(q) == <<"component", TrainingKey(q), q.order>>
SurfaceKey(q) == <<"surface", ComponentKey(q)>>
ComponentRow(q) ==
    Row(ComponentKey(q), <<q.at>>, {TrainingKey(q), <<"managed", ComponentKey(q)>>},
        {SurfaceKey(q)}, {ComponentKey(q)})
SurfaceRow(q) ==
    Row(SurfaceKey(q), <<q.at>>, {ComponentKey(q), <<"managed", SurfaceKey(q)>>},
        {}, {SurfaceKey(q)})
Component(q) ==
    {SegmentRow(q), ValidationRow(q), TrainingRow(q), ManagedRow(ComponentKey(q)),
     ManagedRow(SurfaceKey(q)), ComponentRow(q), SurfaceRow(q)}

\* The twin and one estimate per session.
TwinKey(q) == <<"twin", ComponentKey(q)>>
TwinRow(q) == Row(TwinKey(q), <<q.at>>, {ComponentKey(q), SurfaceKey(q), ConfigKey(q)}, {}, {})
EstimateKey(q, s) == <<"estimate", ComponentKey(q), q.order[s]>>
EstimateRow(q, s, at) ==
    Row(EstimateKey(q, s), <<at>>, {TwinKey(q), ComponentKey(q), SurfaceKey(q)}, {}, {})

\* P4: the subject, the scope of its interactions, a revision with its result.
Assessed(q) == EstimateKey(request[q.build], q.session)
RoleKey == <<"artifact", "role">>
SubjectKey(q) == <<"subject", Assessed(q)>>
SubjectRow(q) == Row(SubjectKey(q), <<>>, {Assessed(q), RoleKey}, {}, {})
ScopeRow(q) == Row(<<"p4_scope", Assessed(q)>>, <<>>, {SubjectKey(q), RoleKey}, {}, {})
RevisionKey(q, state) == <<"p4_revision", Assessed(q), state>>
RevisionRow(q, state) == Row(RevisionKey(q, state), <<>>, {SubjectKey(q)}, {}, {})
ResultRow(key) == Row(<<"result", key>>, <<>>, {key}, {}, {})
Assessment(q, state) == {RevisionRow(q, state), ResultRow(RevisionKey(q, state))}

\* context_artifact_binding has no primary key: two writers leave two rows.
BindingRow(j) == Row(<<"binding", request[j].context, j>>, <<>>, {RoleKey}, {}, {})
Bindings(d, c) == {r \in Table(d, "binding") : r.key[2] = c}

\* P5: the composition with its participants, the selection of its input, a revision
\* with its result.
Members(q, state) == {RevisionKey(request[m], state) : m \in q.members}
CompositionKey(q) == <<"composition", q.members>>
CompositionRow(q) == Row(CompositionKey(q), <<>>, Members(q, "DRAFT"), {}, {})
SelectionRow(q) ==
    Row(<<"selection", q.members>>, <<>>, {CompositionKey(q)} \cup Members(q, "DRAFT"), {}, {})
MissionKey(q) == <<"p5_revision", q.members>>
MissionRow(q) == Row(MissionKey(q), <<>>, {CompositionKey(q)} \cup Members(q, "DRAFT"), {}, {})

\* P6: the training and validation sets, the model, the input, a request of each kind.
\* The status of a model is the one column that is ever updated.
DatasetKeys(q) == {<<"p6_dataset", type, q.members>> : type \in {"training", "validation"}}
DatasetRows(q) ==
    {Row(key, <<>>, Members(q, "APPROVED") \cup {Assessed(request[m]) : m \in q.members}, {}, {}) :
        key \in DatasetKeys(q)}
ModelKey(q) == <<"model", q.members>>
ModelRow(q, status) ==
    Row(ModelKey(q), <<q.at, status>>, DatasetKeys(q) \cup {<<"managed", ModelKey(q)>>}, {},
        {ModelKey(q)})
InputKey(q) == <<"p6_input", q.members>>
InputRow(q) == Row(InputKey(q), <<>>, {}, Members(q, "APPROVED"), {})
QuestionKey(cmd, q) == <<"p6_request", cmd, q.members>>
QuestionRow(cmd, q) == Row(QuestionKey(cmd, q), <<>>, {ModelKey(q), InputKey(q)}, {}, {})

\* A forecast hangs on a run that is found or made, a counterfactual is its own run.
ForecastRunRow(q) == Row(<<"forecast_run", q.members>>, <<>>, {InputKey(q)}, {ModelKey(q)}, {})
ForecastRow(q) ==
    Row(<<"forecast", q.members>>, <<>>,
        {<<"forecast_run", q.members>>, QuestionKey("FORECAST", q), ModelKey(q), InputKey(q)},
        {}, {})
CounterfactualRow(q) ==
    Row(<<"counterfactual", q.members>>, <<>>, {QuestionKey("COUNTERFACTUAL", q)},
        {ModelKey(q)}, {})

\* The receipt of a job: production_job_output.
OutputRow(j, rows) == Row(<<"output", j>>, <<>>, Keys(rows), {}, {})

-----------------------------------------------------------------------------
(* What a command writes before its worker, reads, and writes after it *)

\* The rows of the preparation.
P2Prepared(q) ==
    {ContextRow("specs"), CohortRow(q)} \cup {FeatureRow(o) : o \in Observed(q)}
P3Prepared(q) == OrderRows(q) \cup {ConfigRow(q)}
P4Prepared(j, d) ==
    {ContextRow("role")} \cup
    (IF Bindings(d, request[j].context) = {} THEN {BindingRow(j)} ELSE {})

Prepared(j, d) ==
    CASE Cmd(j) = "P2" -> P2Prepared(request[j])
      [] Cmd(j) = "P3" -> P3Prepared(request[j])
      [] Cmd(j) = "P4" -> P4Prepared(j, d)
      [] OTHER -> {}

\* The objects that the preparation writes: those of its context artifacts.
PreparedObjects(j) == UNION {r.uris : r \in Prepared(j, db)}

\* A P6 build finds the assignment of a training row by session and order.
OrderOf(q) == OrderKey(request[q.build].scope, q.session, request[q.build].order[q.session])

\* The rows that the input of a worker is made from.
P2Needs(q) ==
    {<<"observation", o>> : o \in Observed(q)} \cup {FeatureKey(o) : o \in Observed(q)}
        \cup {CohortKey(q), <<"release", SessionOf[q.target]>>}
P3Needs(q) == AdjustedKeys(q) \cup Keys(OrderRows(q)) \cup {ConfigKey(q)}
TwinKeys(q) == {TwinKey(q), ComponentKey(q), SurfaceKey(q), TrainingKey(q)}
P4Needs(q) ==
    {Assessed(q), RoleKey} \cup TwinKeys(request[q.build]) \cup AdjustedKeys(request[q.build])
P5Needs(q) == Members(q, "DRAFT") \cup {SubjectKey(request[m]) : m \in q.members}
P6Needs(q) ==
    Members(q, "APPROVED")
        \cup UNION {{Assessed(request[m]), OrderOf(request[m])} : m \in q.members}
        \cup UNION {TwinKeys(request[request[m].build]) : m \in q.members}
RunNeeds(q) == {QuestionKey(q.cmd, q), InputKey(q), ModelKey(q)}

Needs(j) ==
    LET q == request[j] IN
    CASE q.cmd = "P2" -> P2Needs(q)
      [] q.cmd = "P3" -> P3Needs(q)
      [] q.cmd = "P3E" -> TwinKeys(request[q.build])
      [] q.cmd = "P4" -> P4Needs(q)
      [] q.cmd = "P5" -> P5Needs(q)
      [] q.cmd = "P6" -> P6Needs(q)
      [] q.cmd \in {"FORECAST", "COUNTERFACTUAL"} -> RunNeeds(q)

\* A P6 model is read by rebuilding it: a training row must find exactly one
\* current assignment of its order in its scope, whatever the session.
Rebuildable(d, q) ==
    \A m \in q.members : LET key == OrderOf(request[m]) IN
        Cardinality({r \in Table(d, "order") : r.key[2] = key[2] /\ r.key[4] = key[4]}) = 1

\* The preparation of a command succeeds.
Ready(j, d) ==
    LET q == request[j]
        after == d \cup Prepared(j, d)
    IN  /\ Accepts(d, Prepared(j, d))
        /\ Needs(j) \subseteq Keys(after)
        /\ \A r \in d : r.key \in Needs(j) => r.uris \subseteq objects
        /\ q.cmd = "P4" => Cardinality(Bindings(after, q.context)) = 1
        /\ q.cmd = "FORECAST" => Rebuildable(d, q)

Given(j, d) == {r \in d \cup Prepared(j, d) : r.key \in Needs(j)}

\* The product of a worker, as the rows that its persistence registers.
P1Product(j) ==
    LET q == request[j] IN
    {ImportRow(q), DefinitionRow, ParquetRow(q), ReleaseRow(j)}
        \cup {ObservationRow(q, o) : o \in q.observations}
P2Product(j) == {RunRow(request[j]), AdjustedRow(j)}
P3Product(q) == Component(q) \cup {TwinRow(q)} \cup {EstimateRow(q, s, q.at) : s \in Sessions(q)}
P3EProduct(q) == {EstimateRow(request[q.build], q.session, q.at)}
P4Product(q) == {SubjectRow(q), ScopeRow(q)} \cup Assessment(q, "DRAFT")
P5Product(q) == {CompositionRow(q), SelectionRow(q), MissionRow(q), ResultRow(MissionKey(q))}
P6Product(q) ==
    {ManagedRow(ModelKey(q)), ModelRow(q, "VALIDATED"), InputRow(q)} \cup DatasetRows(q)
        \cup {QuestionRow(cmd, q) : cmd \in {"FORECAST", "COUNTERFACTUAL"}}
ForecastProduct(q) == {ForecastRunRow(q), ForecastRow(q)}

\* The receipt of the job is registered with its product.
Receipted(j, rows) == rows \cup {OutputRow(j, rows)}

Product(j) ==
    LET q == request[j] IN
    CASE q.cmd = "P1" -> P1Product(j)
      [] q.cmd = "P2" -> P2Product(j)
      [] q.cmd = "P3" -> Receipted(j, P3Product(q))
      [] q.cmd = "P3E" -> P3EProduct(q)
      [] q.cmd = "P4" -> Receipted(j, P4Product(q))
      [] q.cmd = "P5" -> Receipted(j, P5Product(q))
      [] q.cmd = "P6" -> Receipted(j, P6Product(q))
      [] q.cmd = "FORECAST" -> Receipted(j, ForecastProduct(q))
      [] q.cmd = "COUNTERFACTUAL" -> Receipted(j, {CounterfactualRow(q)})

ProductObjects(j) == UNION {r.uris : r \in Product(j)}

-----------------------------------------------------------------------------
(* The execution of a job *)

\* Rows and objects of the jobs of the past, run one by one.
PastRows == UNION {Product(j) \cup Prepared(j, {}) : j \in Past[scenario]}

Init ==
    /\ engine \in {"SQLITE", "POSTGRES"}
    /\ scenario \in Scenarios
    /\ db = PastRows
    /\ objects = UNION {r.uris : r \in PastRows}
    /\ phase = [j \in Jobs |-> IF j \in Past[scenario] THEN "succeeded" ELSE "idle"]
    /\ input = [j \in Jobs |-> {}]
    /\ txn = [j \in Jobs |-> {}]

Goto(j, step) == phase' = [phase EXCEPT ![j] = step]

\* Mutant of Leased: a transaction opens without the writer lease.
UnLeased == TRUE

\* A unit of work opens: SQLite has one writer at a time.
Leased == engine = "SQLITE" => \A j \in Jobs : phase[j] # "open"

\* The first transaction, which is rolled back: only objects remain.
Prepare(j) ==
    /\ phase[j] = "idle" /\ Cmd(j) # "P1"
    /\ Leased
    /\ Ready(j, db)
    /\ input' = [input EXCEPT ![j] = Given(j, db)]
    /\ objects' = objects \cup PreparedObjects(j)
    /\ Goto(j, "prepared")
    /\ UNCHANGED <<engine, scenario, db, txn>>

\* The worker.  Parquet (P1) and the attribution model (P2) are written at once.
Compute(j) ==
    /\ phase[j] = (IF Cmd(j) = "P1" THEN "idle" ELSE "prepared")
    /\ objects' = objects \cup (IF Cmd(j) \in {"P1", "P2"} THEN ProductObjects(j) ELSE {})
    /\ Goto(j, "computed")
    /\ UNCHANGED <<engine, scenario, db, input, txn>>

\* Mutant of Replayed: the preparation is not repeated.
ReplayedNothing(j) == {}

\* The rows that the second transaction prepares again, before the product.
Replayed(j) == Prepared(j, db)

\* The replay does not reproduce what the worker was given.
Drifted(j) ==
    Cmd(j) \in {"P2", "P3", "P4", "P5", "P6"} /\ ~(Ready(j, db) /\ Given(j, db) = input[j])

\* The second transaction up to its commit: the new rows, and for P3 and P6 the
\* objects of the models.
Persist(j) ==
    /\ phase[j] = "computed"
    /\ Leased
    /\ ~Drifted(j)
    /\ Accepts(db, Replayed(j) \cup Product(j))
    /\ txn' = [txn EXCEPT ![j] = {r \in Replayed(j) \cup Product(j) : r.key \notin Keys(db)}]
    /\ objects' = objects \cup PreparedObjects(j) \cup ProductObjects(j)
    /\ Goto(j, "open")
    /\ UNCHANGED <<engine, scenario, db, input>>

\* PostgreSQL lets a row be inserted once: the later transaction fails.
Commit(j) ==
    /\ phase[j] = "open"
    /\ Keys(txn[j]) \cap Keys(db) = {}
    /\ db' = db \cup txn[j]
    /\ txn' = [txn EXCEPT ![j] = {}]
    /\ Goto(j, "succeeded")
    /\ UNCHANGED <<engine, scenario, objects, input>>

\* A refusal, a busy writer, a failed worker, a cancel or a lost connection: the
\* job fails, its transaction is rolled back, the objects stay.
Fail(j) ==
    /\ phase[j] \in {"idle", "prepared", "computed", "open"}
    /\ txn' = [txn EXCEPT ![j] = {}]
    /\ Goto(j, "failed")
    /\ UNCHANGED <<engine, scenario, db, objects, input>>

\* The instructor approves a P4 draft: a further revision of the subject, with the
\* result.
Approve(j) ==
    /\ Cmd(j) = "P4" /\ phase[j] = "succeeded"
    /\ Leased
    /\ RevisionKey(request[j], "APPROVED") \notin Keys(db)
    /\ db' = db \cup Assessment(request[j], "APPROVED")
    /\ UNCHANGED <<engine, scenario, objects, phase, input, txn>>

\* The release of a P6 model, which is rebuilt first.
ReleaseModel(j) ==
    /\ Cmd(j) = "P6"
    /\ Leased
    /\ ModelRow(request[j], "VALIDATED") \in db
    /\ Rebuildable(db, request[j])
    /\ db' = (db \ {ModelRow(request[j], "VALIDATED")}) \cup {ModelRow(request[j], "PUBLISHED")}
    /\ UNCHANGED <<engine, scenario, objects, phase, input, txn>>

Next ==
    \E j \in Jobs :
        \/ Prepare(j) \/ Compute(j) \/ Persist(j) \/ Commit(j) \/ Fail(j)
        \/ Approve(j) \/ ReleaseModel(j)

Spec == Init /\ [][Next]_vars

-----------------------------------------------------------------------------
(* Properties *)

\* Types, and primary keys: a key stands for one row.
TypeOK ==
    /\ engine \in {"SQLITE", "POSTGRES"} /\ scenario \in Scenarios
    /\ \A r, s \in db : r.key = s.key => r = s
    /\ phase \in [Jobs -> {"idle", "prepared", "computed", "open", "succeeded", "failed"}]
    /\ DOMAIN input = Jobs
    /\ \A j \in Jobs : txn[j] # {} => phase[j] = "open"

\* What identifies a row and cannot change: all but the status of a model.
Fixed(r) == <<r.key, IF r.key[1] = "model" THEN SubSeq(r.body, 1, 2) ELSE r.body>>

\* A job that succeeded was computed from committed rows: every row its worker was
\* given, read or prepared in a transaction that was rolled back, is in the
\* database as the worker saw it.
InputsCommitted ==
    /\ TypeOK
    /\ \A j \in Jobs : phase[j] = "succeeded" =>
        {Fixed(r) : r \in input[j]} \subseteq {Fixed(r) : r \in db}

\* Nothing that a committed product is read from is missing: the rows it refers to and
\* the rows and objects its readers open are there, and an adjusted estimate and its
\* cohort dataset name the same target, although the dataset is identified by the
\* cohort alone.  Whether a model is still found unambiguously is Rebuildable.
ProductsReadable ==
    /\ \A r \in db : r.refs \cup r.uses \subseteq Keys(db) /\ r.uris \subseteq objects
    /\ \A r \in Table(db, "adjusted"), c \in Table(db, "cohort") :
          c.key \in r.uses => c.body[2] = r.body[2]

\* On SQLite a context keeps at most one binding of its role model, so a later
\* assessment of the context finds exactly one.
ContextsUsable ==
    engine = "SQLITE" =>
        \A r \in Table(db, "binding") : Cardinality(Bindings(db, r.key[2])) <= 1
=============================================================================
