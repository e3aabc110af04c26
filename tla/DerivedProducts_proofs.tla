------------------------ MODULE DerivedProducts_proofs ------------------------
(***************************************************************************)
(* What holds of the derivation of products for every set of requests,     *)
(* however many jobs share rows, on both engines.  The database that a     *)
(* behaviour starts with must be one itself (PastHealthy).                 *)
(***************************************************************************)
EXTENDS DerivedProducts, FiniteSetTheorems, SequenceTheorems, TLAPS

-----------------------------------------------------------------------------
(* The inductive invariant *)

\* A primary key stands for one row.
Keyed(rows) == \A r, s \in rows : r.key = s.key => r = s

\* What the rows refer to and their readers open is among the keys, or stored.
Resolved(rows, keys) == \A r \in rows : r.refs \cup r.uses \subseteq keys
Stored(rows, uris) == \A r \in rows : r.uris \subseteq uris

\* An adjusted estimate has the target of the cohort dataset it uses.
Aimed(r, c) ==
    r.key[1] = "adjusted" /\ c.key[1] = "cohort" /\ c.key \in r.uses => c.body[2] = r.body[2]

\* A context has one binding of its role model.
BoundOnce(rows) ==
    \A r, s \in rows : r.key[1] = "binding" /\ s.key[1] = "binding" /\ r.key[2] = s.key[2] => r = s

\* An ED2 result hangs on its revision.
Anchored(rows) == \A r \in rows : r.key[1] = "result" => r.key[2] \in r.refs

FixedOf(rows) == {Fixed(r) : r \in rows}

\* A database that can be read, next to the objects that are stored.
Healthy(d, uris) ==
    /\ Keyed(d) /\ Resolved(d, Keys(d)) /\ Stored(d, uris) /\ Anchored(d)
    /\ \A r, c \in d : Aimed(r, c)

\* New rows that leave it readable if no row with one of their keys is there.
Brings(d, new, uris) ==
    /\ Keyed(new) /\ Resolved(new, Keys(d) \cup Keys(new)) /\ Stored(new, uris) /\ Anchored(new)
    /\ \A r \in new, c \in d \cup new : (c \in d => c.key \notin Keys(new)) => Aimed(r, c)

\* The rows of the past are one database.  The run of this module satisfies it: its
\* invariants are those of the first state, too.
PastHealthy ==
    /\ Keyed(PastRows)
    /\ Resolved(PastRows, Keys(PastRows))
    /\ \A r, c \in PastRows : Aimed(r, c)
    /\ BoundOnce(PastRows)

\* Commands whose preparation is not replayed, as it writes nothing.
Readers == {"P3E", "FORECAST", "COUNTERFACTUAL"}
Runs == {"FORECAST", "COUNTERFACTUAL"}

TypeInv ==
    /\ engine \in {"SQLITE", "POSTGRES"} /\ scenario \in Scenarios
    /\ phase \in [Jobs -> {"idle", "prepared", "computed", "open", "succeeded", "failed"}]
    /\ DOMAIN input = Jobs /\ DOMAIN txn = Jobs
    /\ \A j \in Jobs : txn[j] # {} => phase[j] = "open"

\* The committed rows.
StoreInv == Healthy(db, objects) /\ (engine = "SQLITE" => BoundOnce(db))

\* The rows of a transaction, on top of whatever has been committed by now.
OpenInv == \A j \in Jobs : Brings(db, txn[j], objects)

\* Under the lease nothing is committed between a transaction's reads and its commit.
LeaseInv == engine = "SQLITE" => \A j \in Jobs : phase[j] = "open" =>
    /\ \A k \in Jobs : phase[k] = "open" => k = j
    /\ BoundOnce(db \cup txn[j])

\* What the worker was given: nothing, committed rows, or rows that the transaction
\* of the product brings with it.
InputOf(j) ==
    /\ phase[j] = "idle" \/ Cmd(j) = "P1" => input[j] = {}
    /\ Cmd(j) \in Readers \/ phase[j] = "succeeded" => FixedOf(input[j]) \subseteq FixedOf(db)
    /\ phase[j] = "open" => FixedOf(input[j]) \subseteq FixedOf(db) \cup FixedOf(txn[j])

InputInv == \A j \in Jobs : InputOf(j)

\* What later steps of a job refer to.
Subject(j) == SubjectKey(request[j])
Model(j) == ModelKey(request[j])

SubjectOf(j) ==
    /\ Cmd(j) = "P4" /\ phase[j] = "succeeded" => Subject(j) \in Keys(db)
    /\ Cmd(j) = "P4" /\ phase[j] = "open" => Subject(j) \in Keys(db) \cup Keys(txn[j])
    /\ Cmd(j) \in Runs /\ phase[j] \in {"prepared", "computed", "open"} => Model(j) \in Keys(db)

SubjectInv == \A j \in Jobs : SubjectOf(j)

Inv == TypeInv /\ StoreInv /\ OpenInv /\ LeaseInv /\ InputInv /\ SubjectInv

-----------------------------------------------------------------------------
(* The rows of a job *)

Opened(rows, keys) == \A r \in rows : r.uses \subseteq keys

\* What all sets of rows that a job writes have in common: one row for a key, readers
\* that open rows of the job or rows its worker needed, results with their revision,
\* and no binding but those given.
Shaped(rows, needs, bindings) ==
    /\ Keyed(rows) /\ Anchored(rows) /\ Opened(rows, Keys(rows) \cup needs)
    /\ \A r, c \in rows : Aimed(r, c)
    /\ \A r \in rows : r.key[1] = "adjusted" => r.uses \subseteq Keys(rows)
    /\ \A r \in rows : r.key[1] = "binding" => r \in bindings

LEMMA ShapedPlain ==
    ASSUME NEW R, NEW needs, NEW bindings, Keyed(R),
           \A r \in R : /\ r.key[1] # "adjusted" /\ r.uses \subseteq Keys(R) \cup needs
                        /\ r.key[1] = "result" => r.key[2] \in r.refs
                        /\ r.key[1] = "binding" => r \in bindings
    PROVE  Shaped(R, needs, bindings)
  <1>1. \A r, c \in R : Aimed(r, c)
    BY DEF Aimed
  <1> QED
    BY <1>1 DEF Shaped, Anchored, Opened

LEMMA ImportShaped ==
    ASSUME NEW j PROVE Shaped(P1Product(j), {}, {})
  <1> DEFINE q == request[j]
             R == P1Product(j)
  <1>1. /\ ImportRow(q).key[1] = "source" /\ ImportRow(q).uses = {}
        /\ DefinitionRow.key[1] = "definition" /\ DefinitionRow.uses = {}
        /\ ParquetRow(q).key[1] = "parquet" /\ ParquetRow(q).uses = {}
        /\ ReleaseRow(j).key[1] = "release" /\ ReleaseRow(j).uses = {}
    BY DEF Row, ImportRow, DefinitionRow, ParquetRow, ReleaseRow
  <1>2. ASSUME NEW o
        PROVE  ObservationRow(q, o).key = <<"observation", o>> /\ ObservationRow(q, o).uses = {}
    BY DEF Row, ObservationRow
  <1>3. \A r \in R : r \in {ImportRow(q), DefinitionRow, ParquetRow(q), ReleaseRow(j)}
                      \/ \E o : r = ObservationRow(q, o)
    BY DEF P1Product
  <1> HIDE DEF R, q
  <1>4. \A r \in R : /\ r.uses = {}
                     /\ r.key[1] \in {"source", "definition", "parquet", "release", "observation"}
    BY <1>1, <1>2, <1>3
  <1>5. Keyed(R)
    <2> SUFFICES ASSUME NEW r \in R, NEW s \in R, r.key = s.key PROVE r = s
      BY DEF Keyed
    <2>1. CASE r.key[1] = "observation"
      <3>1. PICK o, p : r = ObservationRow(q, o) /\ s = ObservationRow(q, p)
        BY <1>1, <1>3, <2>1
      <3>2. <<"observation", o>> = <<"observation", p>>
        BY <1>2, <3>1
      <3> QED
        BY <3>1, <3>2
    <2>2. CASE r.key[1] # "observation"
      BY <1>1, <1>2, <1>3, <2>2
    <2> QED
      BY <2>1, <2>2
  <1>6. Shaped(R, {}, {})
    BY <1>4, <1>5, ShapedPlain
  <1> QED
    BY <1>6 DEF R

LEMMA AdjustShaped ==
    ASSUME NEW j PROVE Shaped(P2Prepared(request[j]) \cup P2Product(j), {}, {})
  <1> DEFINE q == request[j]
             R == P2Prepared(q) \cup P2Product(j)
             art == ContextRow("specs")
             cohort == CohortRow(q)
             run == RunRow(q)
             adjusted == AdjustedRow(j)
  <1>1. /\ art.key[1] = "artifact" /\ art.uses = {}
        /\ cohort.key[1] = "cohort" /\ cohort.uses = {} /\ cohort.key = CohortKey(q)
        /\ run.key[1] = "run" /\ run.uses = {CohortKey(q)}
        /\ adjusted.key[1] = "adjusted" /\ adjusted.uses = {CohortKey(q)}
    BY DEF Row, ContextRow, CohortRow, CohortKey, RunRow, RunKey, AdjustedRow, AdjustedKey
  <1>2. cohort.body[2] = q.target /\ adjusted.body[2] = q.target
    BY DEF Row, CohortRow, CohortKey, AdjustedRow, AdjustedKey
  <1>3. ASSUME NEW o PROVE FeatureRow(o).key = <<"features", o>> /\ FeatureRow(o).uses = {}
    BY DEF Row, FeatureRow, FeatureKey
  <1>4. \A r \in R : r \in {art, cohort, run, adjusted} \/ \E o : r = FeatureRow(o)
    BY DEF P2Prepared, P2Product
  <1>5. cohort \in R
    BY DEF P2Prepared
  <1> HIDE DEF R, q, art, cohort, run, adjusted
  <1>6. Keyed(R)
    <2> SUFFICES ASSUME NEW r \in R, NEW s \in R, r.key = s.key PROVE r = s
      BY DEF Keyed
    <2>1. CASE r.key[1] = "features"
      <3>1. PICK o, p : r = FeatureRow(o) /\ s = FeatureRow(p)
        BY <1>1, <1>4, <2>1
      <3>2. <<"features", o>> = <<"features", p>>
        BY <1>3, <3>1
      <3> QED
        BY <3>1, <3>2
    <2>2. CASE r.key[1] # "features"
      BY <1>1, <1>3, <1>4, <2>2
    <2> QED
      BY <2>1, <2>2
  <1>7. \A r \in R : /\ r.key[1] \in {"artifact", "cohort", "run", "adjusted", "features"}
                     /\ r.key[1] = "adjusted" => r = adjusted
                     /\ r.key[1] = "cohort" => r = cohort
                     /\ r.uses \subseteq {cohort.key}
    BY <1>1, <1>3, <1>4
  <1>8. Anchored(R) /\ \A r \in R : r.key[1] # "binding"
    BY <1>7 DEF Anchored
  <1>9. Opened(R, Keys(R) \cup {})
    BY <1>5, <1>7 DEF Opened, Keys
  <1>10. \A r, c \in R : Aimed(r, c)
    BY <1>2, <1>7 DEF Aimed
  <1>11. \A r \in R : r.uses \subseteq Keys(R)
    BY <1>9 DEF Opened
  <1>12. Shaped(R, {}, {})
    BY <1>6, <1>8, <1>9, <1>10, <1>11 DEF Shaped
  <1> QED
    BY <1>12 DEF R, q

\* The receipt of a job comes with rows of other tables.
LEMMA ReceiptedShaped ==
    ASSUME NEW j, NEW R, NEW needs, NEW bindings, Shaped(R, needs, bindings),
           \A r \in R : r.key[1] # "output", NEW rows
    PROVE  Shaped(R \cup {OutputRow(j, rows)}, needs, bindings)
  <1> DEFINE out == OutputRow(j, rows)
             S == R \cup {out}
  <1>1. out.key[1] = "output" /\ out.uses = {}
    BY DEF Row, OutputRow
  <1> HIDE DEF out
  <1>2. Keyed(S)
    BY <1>1 DEF Shaped, Keyed
  <1>3. Anchored(S) /\ Opened(S, Keys(S) \cup needs)
    BY <1>1 DEF Shaped, Anchored, Opened, Keys
  <1>4. \A r, c \in S : Aimed(r, c)
    BY <1>1 DEF Shaped, Aimed
  <1>5. \A r \in S : r.key[1] = "adjusted" => r.uses \subseteq Keys(S)
    BY <1>1 DEF Shaped, Keys
  <1> QED
    BY <1>1, <1>2, <1>3, <1>4, <1>5 DEF Shaped, out


LEMMA TwinShaped ==
    ASSUME NEW q
    PROVE  /\ Shaped(P3Prepared(q) \cup P3Product(q), {}, {})
           /\ \A r \in P3Prepared(q) \cup P3Product(q) : r.key[1] # "output"
  <1> DEFINE R == P3Prepared(q) \cup P3Product(q)
             order(s) == Row(OrderKey(q.scope, s, q.order[s]), <<>>, {<<"source", s>>}, {}, {})
             configuration == ConfigRow(q)
             segment == SegmentRow(q)
             validation == ValidationRow(q)
             training == TrainingRow(q)
             component == ComponentRow(q)
             surface == SurfaceRow(q)
             twin == TwinRow(q)
             estimate(n) == Row(<<"estimate", ComponentKey(q), n>>, <<q.at>>,
                                {TwinKey(q), ComponentKey(q), SurfaceKey(q)}, {}, {})
  <1>1. /\ configuration.key[1] = "configuration" /\ configuration.uses = {}
        /\ segment.key[1] = "segment" /\ segment.uses = {}
        /\ validation.key[1] = "validation" /\ validation.uses = {}
        /\ training.key[1] = "training" /\ training.uses = {}
    BY DEF Row, ConfigRow, ConfigKey, SegmentRow, SegmentKey, ValidationRow, ValidationKey,
           TrainingRow, TrainingKey
  <1>2. /\ component.key[1] = "component" /\ component.uses = {SurfaceKey(q)}
        /\ surface.key[1] = "surface" /\ surface.uses = {} /\ surface.key = SurfaceKey(q)
        /\ twin.key[1] = "twin" /\ twin.uses = {}
    BY DEF Row, ComponentRow, ComponentKey, SurfaceRow, SurfaceKey, TwinRow, TwinKey
  <1>3. ASSUME NEW s PROVE order(s).key = <<"order", q.scope, s, q.order[s]>> /\ order(s).uses = {}
    BY DEF Row, OrderKey
  <1>4. ASSUME NEW n
        PROVE  estimate(n).key = <<"estimate", ComponentKey(q), n>> /\ estimate(n).uses = {}
    BY DEF Row
  <1>5. ASSUME NEW key
        PROVE  ManagedRow(key).key = <<"managed", key>> /\ ManagedRow(key).uses = {}
    BY DEF Row, ManagedRow
  <1>6. \A r \in R : \/ r \in {configuration, segment, validation, training, component, surface, twin}
                     \/ \E s : r = order(s)
                     \/ \E key : r = ManagedRow(key)
                     \/ \E n : r = estimate(n)
    <2>1. \A r \in OrderRows(q) : \E s : r = order(s)
      BY DEF OrderRows
    <2>2. \A s : EstimateRow(q, s, q.at) = estimate(q.order[s])
      BY DEF EstimateRow, EstimateKey
    <2>3. \A r \in P3Prepared(q) : r = configuration \/ \E s : r = order(s)
      BY <2>1 DEF P3Prepared
    <2>4. \A r \in Component(q) : \/ r \in {segment, validation, training, component, surface}
                                 \/ \E key : r = ManagedRow(key)
      BY DEF Component
    <2> HIDE DEF estimate
    <2>5. \A r \in P3Product(q) : r \in Component(q) \/ r = twin \/ \E n : r = estimate(n)
      BY <2>2 DEF P3Product
    <2> HIDE DEF order, configuration, segment, validation, training, component, surface, twin
    <2> QED
      BY <2>3, <2>4, <2>5
  <1>7. surface \in R
    BY DEF P3Product, Component
  <1> HIDE DEF R, order, configuration, segment, validation, training, component, surface,
               twin, estimate
  <1>8. Keyed(R)
    <2> SUFFICES ASSUME NEW r \in R, NEW s \in R, r.key = s.key PROVE r = s
      BY DEF Keyed
    <2>1. CASE r.key[1] = "order"
      <3>1. PICK o, p : r = order(o) /\ s = order(p)
        BY <1>1, <1>2, <1>4, <1>5, <1>6, <2>1
      <3>2. <<"order", q.scope, o, q.order[o]>> = <<"order", q.scope, p, q.order[p]>>
        BY <1>3, <3>1
      <3>3. o = p
        BY <3>2
      <3> QED
        BY <3>1, <3>3
    <2>2. CASE r.key[1] = "managed"
      <3>1. PICK o, p : r = ManagedRow(o) /\ s = ManagedRow(p)
        BY <1>1, <1>2, <1>3, <1>4, <1>6, <2>2
      <3>2. <<"managed", o>> = <<"managed", p>>
        BY <1>5, <3>1
      <3> QED
        BY <3>1, <3>2
    <2>3. CASE r.key[1] = "estimate"
      <3>1. PICK o, p : r = estimate(o) /\ s = estimate(p)
        BY <1>1, <1>2, <1>3, <1>5, <1>6, <2>3
      <3>2. <<"estimate", ComponentKey(q), o>> = <<"estimate", ComponentKey(q), p>>
        BY <1>4, <3>1
      <3> QED
        BY <3>1, <3>2
    <2>4. CASE r.key[1] \notin {"order", "managed", "estimate"}
      <3>1. r \in {configuration, segment, validation, training, component, surface, twin}
        BY <1>3, <1>4, <1>5, <1>6, <2>4
      <3>2. s \in {configuration, segment, validation, training, component, surface, twin}
        BY <1>3, <1>4, <1>5, <1>6, <2>4
      <3> QED
        BY <1>1, <1>2, <3>1, <3>2
    <2> QED
      BY <2>1, <2>2, <2>3, <2>4
  <1>9. \A r \in R : /\ r.key[1] \in {"configuration", "segment", "validation", "training",
                                      "component",
                                      "surface", "twin", "order", "managed", "estimate"}
                     /\ r.uses \subseteq {surface.key}
    BY <1>1, <1>2, <1>3, <1>4, <1>5, <1>6
  <1>10. surface.key \in Keys(R)
    BY <1>7 DEF Keys
  <1>11. Shaped(R, {}, {})
    BY <1>8, <1>9, <1>10, ShapedPlain
  <1> QED
    BY <1>9, <1>11 DEF R

LEMMA EstimateShaped ==
    ASSUME NEW q PROVE Shaped(P3EProduct(q), {}, {})
  <1> DEFINE r == EstimateRow(request[q.build], q.session, q.at)
  <1>1. r.key[1] = "estimate" /\ r.uses = {}
    BY DEF Row, EstimateRow, EstimateKey
  <1>2. P3EProduct(q) = {r}
    BY DEF P3EProduct
  <1> HIDE DEF r
  <1>3. Keyed({r})
    BY DEF Keyed
  <1> QED
    BY <1>1, <1>2, <1>3, ShapedPlain

LEMMA AssessShaped ==
    ASSUME NEW j, NEW d, NEW q, q = request[j]
    PROVE  /\ Shaped(P4Prepared(j, d) \cup P4Product(q), {},
                     {b \in {BindingRow(j)} : Bindings(d, q.context) = {}})
           /\ \A r \in P4Prepared(j, d) \cup P4Product(q) : r.key[1] # "output"
           /\ SubjectKey(q) \in Keys(P4Product(q))
           /\ BindingRow(j).key = <<"binding", q.context, j>>
  <1> DEFINE R == P4Prepared(j, d) \cup P4Product(q)
             art == ContextRow("role")
             bound == BindingRow(j)
             subject == SubjectRow(q)
             scope == ScopeRow(q)
             revision == RevisionRow(q, "DRAFT")
             result == ResultRow(RevisionKey(q, "DRAFT"))
  <1>1. /\ art.key[1] = "artifact" /\ art.uses = {}
        /\ bound.key = <<"binding", q.context, j>> /\ bound.uses = {}
        /\ subject.key[1] = "subject" /\ subject.uses = {} /\ subject.key = SubjectKey(q)
        /\ scope.key[1] = "p4_scope" /\ scope.uses = {}
        /\ revision.key[1] = "p4_revision" /\ revision.uses = {}
    BY DEF Row, ContextRow, BindingRow, SubjectRow, SubjectKey, ScopeRow, RevisionRow, RevisionKey
  <1>2. /\ result.key[1] = "result" /\ result.uses = {}
        /\ result.key[2] \in result.refs
    BY DEF Row, ResultRow
  <1>3. \A r \in R : \/ r \in {art, subject, scope, revision, result}
                     \/ r = bound /\ Bindings(d, q.context) = {}
    BY DEF P4Prepared, P4Product, Assessment
  <1>4. subject \in P4Product(q)
    BY DEF P4Product
  <1> HIDE DEF R, art, bound, subject, scope, revision, result
  <1>b. bound.key[1] = "binding"
    <2>1. bound.key[1] = <<"binding", q.context, j>>[1]
      BY <1>1
    <2> QED
      BY <2>1
  <1>t. /\ art.key[1] = "artifact" /\ bound.key[1] = "binding" /\ subject.key[1] = "subject"
        /\ scope.key[1] = "p4_scope" /\ revision.key[1] = "p4_revision" /\ result.key[1] = "result"
    BY <1>1, <1>2, <1>b
  <1>5. Keyed(R)
    <2> SUFFICES ASSUME NEW r \in R, NEW s \in R, r.key = s.key PROVE r = s
      BY DEF Keyed
    <2>2. /\ r \in {art, subject, scope, revision, result, bound}
          /\ s \in {art, subject, scope, revision, result, bound}
      BY <1>3
    <2> QED
      BY <1>t, <2>2
  <1>6. \A r \in R : /\ r.key[1] \in {"artifact", "binding", "subject", "p4_scope",
                                      "p4_revision", "result"}
                     /\ r.uses = {}
                     /\ r.key[1] = "result" => r.key[2] \in r.refs
                     /\ r.key[1] = "binding" => r = bound /\ Bindings(d, q.context) = {}
    <2>1. \A r \in {art, bound, subject, scope, revision, result} : r.uses = {}
      BY <1>1, <1>2
    <2> QED
      BY <1>2, <1>3, <1>t, <2>1
  <1>7. Shaped(R, {}, {b \in {bound} : Bindings(d, q.context) = {}})
    BY <1>5, <1>6, ShapedPlain
  <1> QED
    BY <1>1, <1>4, <1>6, <1>7 DEF R, bound, Keys

LEMMA ComposeShaped ==
    ASSUME NEW q
    PROVE  Shaped(P5Product(q), {}, {}) /\ \A r \in P5Product(q) : r.key[1] # "output"
  <1> DEFINE composition == CompositionRow(q)
             selection == SelectionRow(q)
             mission == MissionRow(q)
             result == ResultRow(MissionKey(q))
  <1>1. /\ composition.key[1] = "composition" /\ composition.uses = {}
        /\ selection.key[1] = "selection" /\ selection.uses = {}
        /\ mission.key[1] = "p5_revision" /\ mission.uses = {}
    BY DEF Row, CompositionRow, CompositionKey, SelectionRow, MissionRow, MissionKey
  <1>2. /\ result.key[1] = "result" /\ result.uses = {} /\ result.key[2] \in result.refs
    BY DEF Row, ResultRow
  <1>3. P5Product(q) = {composition, selection, mission, result}
    BY DEF P5Product
  <1> HIDE DEF composition, selection, mission, result
  <1>4. Keyed({composition, selection, mission, result})
    BY <1>1, <1>2 DEF Keyed
  <1>5. Shaped({composition, selection, mission, result}, {}, {})
    BY <1>1, <1>2, <1>4, ShapedPlain
  <1> QED
    BY <1>1, <1>2, <1>3, <1>5

LEMMA TrainShaped ==
    ASSUME NEW q
    PROVE  Shaped(P6Product(q), P6Needs(q), {}) /\ \A r \in P6Product(q) : r.key[1] # "output"
  <1> DEFINE R == P6Product(q)
             managed == ManagedRow(ModelKey(q))
             model == ModelRow(q, "VALIDATED")
             given == InputRow(q)
             refs == Members(q, "APPROVED") \cup {Assessed(request[m]) : m \in q.members}
             dataset(key) == Row(key, <<>>, refs, {}, {})
  <1>1. /\ managed.key[1] = "managed" /\ managed.uses = {}
        /\ model.key[1] = "model" /\ model.uses = {}
        /\ given.key[1] = "p6_input" /\ given.uses = Members(q, "APPROVED")
    BY DEF Row, ManagedRow, ModelRow, ModelKey, InputRow, InputKey
  <1>2. ASSUME NEW key PROVE dataset(key).key = key /\ dataset(key).uses = {}
    BY DEF Row
  <1>3. ASSUME NEW cmd
        PROVE  QuestionRow(cmd, q).key = <<"p6_request", cmd, q.members>> /\ QuestionRow(cmd, q).uses = {}
    BY DEF Row, QuestionRow, QuestionKey
  <1>4. ASSUME NEW key \in DatasetKeys(q) PROVE key[1] = "p6_dataset"
    <2>1. PICK type \in {"training", "validation"} : key = <<"p6_dataset", type, q.members>>
      BY DEF DatasetKeys
    <2> QED
      BY <2>1
  <1>5. \A r \in DatasetRows(q) : \E key \in DatasetKeys(q) : r = dataset(key)
    BY DEF DatasetRows
  <1>6. \A r \in R : \/ r \in {managed, model, given}
                     \/ \E key \in DatasetKeys(q) : r = dataset(key)
                     \/ \E cmd : r = QuestionRow(cmd, q)
    <2> HIDE DEF dataset
    <2> QED
      BY <1>5 DEF P6Product
  <1> HIDE DEF R, managed, model, given, dataset
  <1>7. Keyed(R)
    <2> SUFFICES ASSUME NEW r \in R, NEW s \in R, r.key = s.key PROVE r = s
      BY DEF Keyed
    <2>1. CASE r.key[1] = "p6_dataset"
      <3>1. PICK o, p : r = dataset(o) /\ s = dataset(p)
        BY <1>1, <1>3, <1>6, <2>1
      <3> QED
        BY <1>2, <3>1
    <2>2. CASE r.key[1] = "p6_request"
      <3>1. PICK o, p : r = QuestionRow(o, q) /\ s = QuestionRow(p, q)
        BY <1>1, <1>2, <1>4, <1>6, <2>2
      <3>2. <<"p6_request", o, q.members>> = <<"p6_request", p, q.members>>
        BY <1>3, <3>1
      <3>3. o = p
        BY <3>2
      <3> QED
        BY <3>1, <3>3
    <2>3. CASE r.key[1] \notin {"p6_dataset", "p6_request"}
      <3>1. r \in {managed, model, given} /\ s \in {managed, model, given}
        BY <1>2, <1>3, <1>4, <1>6, <2>3
      <3> QED
        BY <1>1, <3>1
    <2> QED
      BY <2>1, <2>2, <2>3
  <1>8. \A r \in R : /\ r.key[1] \in {"managed", "model", "p6_input", "p6_dataset", "p6_request"}
                     /\ r.uses \subseteq Members(q, "APPROVED")
    BY <1>1, <1>2, <1>3, <1>4, <1>6
  <1>9. Members(q, "APPROVED") \subseteq P6Needs(q)
    BY DEF P6Needs
  <1>10. Shaped(R, P6Needs(q), {})
    BY <1>7, <1>8, <1>9, ShapedPlain
  <1> QED
    BY <1>8, <1>10 DEF R

LEMMA RunsShaped ==
    ASSUME NEW q
    PROVE  /\ Shaped(ForecastProduct(q), {ModelKey(q)}, {})
           /\ Shaped({CounterfactualRow(q)}, {ModelKey(q)}, {})
           /\ \A r \in ForecastProduct(q) \cup {CounterfactualRow(q)} : r.key[1] # "output"
  <1> DEFINE run == ForecastRunRow(q)
             forecast == ForecastRow(q)
             other == CounterfactualRow(q)
  <1>1. /\ run.key[1] = "forecast_run" /\ run.uses = {ModelKey(q)}
        /\ forecast.key[1] = "forecast" /\ forecast.uses = {}
        /\ other.key[1] = "counterfactual" /\ other.uses = {ModelKey(q)}
    BY DEF Row, ForecastRunRow, ForecastRow, CounterfactualRow
  <1>2. ForecastProduct(q) = {run, forecast}
    BY DEF ForecastProduct
  <1> HIDE DEF run, forecast, other
  <1>3. Keyed({run, forecast}) /\ Keyed({other})
    BY <1>1 DEF Keyed
  <1>4. Shaped({run, forecast}, {ModelKey(q)}, {}) /\ Shaped({other}, {ModelKey(q)}, {})
    BY <1>1, <1>3, ShapedPlain
  <1> QED
    BY <1>1, <1>2, <1>4 DEF other


\* What the readers of a job's rows open beside these.
Beside(j) ==
    IF Cmd(j) = "P6" THEN P6Needs(request[j])
    ELSE IF Cmd(j) \in Runs THEN {ModelKey(request[j])} ELSE {}

Written(j, d) == Prepared(j, d) \cup Product(j)

LEMMA JobShaped ==
    ASSUME scenario \in Scenarios, NEW j \in Jobs, NEW d
    PROVE  /\ Shaped(Written(j, d), Beside(j),
                     {b \in {BindingRow(j)} : Cmd(j) = "P4" /\ Bindings(d, request[j].context) = {}})
           /\ Beside(j) \subseteq Needs(j) \/ Beside(j) = {}
           /\ Cmd(j) = "P4" => SubjectKey(request[j]) \in Keys(Product(j))
           /\ BindingRow(j).key = <<"binding", request[j].context, j>>
  <1> DEFINE q == request[j]
             B == {b \in {BindingRow(j)} : Cmd(j) = "P4" /\ Bindings(d, request[j].context) = {}}
  <1>1. q.cmd \in Commands /\ Cmd(j) = q.cmd
    BY CommandsAssumption DEF Jobs, request, Cmd
  <1>2. BindingRow(j).key = <<"binding", request[j].context, j>>
    BY AssessShaped
  <1>3. ASSUME NEW R, NEW needs, Shaped(R, needs, {}) PROVE Shaped(R, needs, B)
    BY <1>3 DEF Shaped
  <1>4. ASSUME NEW R, NEW needs, NEW P, NEW rows,
               Shaped(P \cup rows, needs, B), \A r \in P \cup rows : r.key[1] # "output"
        PROVE  Shaped(P \cup Receipted(j, rows), needs, B)
    <2>1. P \cup Receipted(j, rows) = (P \cup rows) \cup {OutputRow(j, rows)}
      BY DEF Receipted
    <2> HIDE DEF B
    <2> QED
      BY <1>4, <2>1, ReceiptedShaped
  <1>5. CASE Cmd(j) = "P1"
    <2>1. Written(j, d) = P1Product(j) /\ Beside(j) = {}
      BY <1>1, <1>5 DEF Written, Prepared, Product, Beside, Runs
    <2> QED
      BY <1>2, <1>3, <1>5, <2>1, ImportShaped
  <1>6. CASE Cmd(j) = "P2"
    <2>1. Written(j, d) = P2Prepared(q) \cup P2Product(j) /\ Beside(j) = {}
      BY <1>1, <1>6 DEF Written, Prepared, Product, Beside, Runs
    <2> QED
      BY <1>2, <1>3, <1>6, <2>1, AdjustShaped
  <1>7. CASE Cmd(j) = "P3"
    <2>1. Written(j, d) = P3Prepared(q) \cup Receipted(j, P3Product(q)) /\ Beside(j) = {}
      BY <1>1, <1>7 DEF Written, Prepared, Product, Beside, Runs
    <2>2. Shaped(P3Prepared(q) \cup P3Product(q), {}, B)
      BY <1>3, TwinShaped
    <2> DEFINE rows == P3Product(q)
    <2>3. /\ Shaped(P3Prepared(q) \cup rows, {}, B)
          /\ \A r \in P3Prepared(q) \cup rows : r.key[1] # "output"
      BY <2>2, TwinShaped
    <2> HIDE DEF B
    <2>4. Shaped(Written(j, d), {}, B)
      <3> HIDE DEF rows
      <3>1. Shaped(P3Prepared(q) \cup Receipted(j, rows), {}, B)
        BY <1>4, <2>3
      <3> QED
        BY <2>1, <3>1 DEF rows
    <2> QED
      BY <1>2, <1>7, <2>1, <2>4 DEF B
  <1>8. CASE Cmd(j) = "P3E"
    <2>1. Written(j, d) = P3EProduct(q) /\ Beside(j) = {}
      BY <1>1, <1>8 DEF Written, Prepared, Product, Beside, Runs
    <2> QED
      BY <1>2, <1>3, <1>8, <2>1, EstimateShaped
  <1>9. CASE Cmd(j) = "P4"
    <2>1. Written(j, d) = P4Prepared(j, d) \cup Receipted(j, P4Product(q)) /\ Beside(j) = {}
          /\ Product(j) = Receipted(j, P4Product(q))
      BY <1>1, <1>9 DEF Written, Prepared, Product, Beside, Runs
    <2>2. Shaped(P4Prepared(j, d) \cup P4Product(q), {}, B)
      BY <1>9, AssessShaped
    <2>3. SubjectKey(q) \in Keys(Product(j))
      BY <2>1, AssessShaped DEF Receipted, Keys
    <2> DEFINE P == P4Prepared(j, d)
               rows == P4Product(q)
    <2>4. Shaped(P \cup rows, {}, B) /\ \A r \in P \cup rows : r.key[1] # "output"
      BY <2>2, AssessShaped
    <2>5. Written(j, d) = P \cup Receipted(j, rows)
      BY <2>1
    <2> HIDE DEF B, P, rows
    <2>6. Shaped(P \cup Receipted(j, rows), {}, B)
      BY <1>4, <2>4
    <2> QED
      BY <1>2, <2>1, <2>3, <2>5, <2>6 DEF B
  <1>10. CASE Cmd(j) = "P5"
    <2>1. Written(j, d) = {} \cup Receipted(j, P5Product(q)) /\ Beside(j) = {}
      BY <1>1, <1>10 DEF Written, Prepared, Product, Beside, Runs
    <2>2. Shaped({} \cup P5Product(q), {}, B)
      BY <1>3, ComposeShaped
    <2> DEFINE rows == P5Product(q)
    <2>3. Shaped({} \cup rows, {}, B) /\ \A r \in {} \cup rows : r.key[1] # "output"
      BY <2>2, ComposeShaped
    <2>4. Written(j, d) = {} \cup Receipted(j, rows)
      BY <2>1
    <2> HIDE DEF B, rows
    <2>5. Shaped({} \cup Receipted(j, rows), {}, B)
      BY <1>4, <2>3
    <2> QED
      BY <1>2, <1>10, <2>1, <2>4, <2>5 DEF B
  <1>11. CASE Cmd(j) = "P6"
    <2>1. /\ Written(j, d) = {} \cup Receipted(j, P6Product(q)) /\ Beside(j) = P6Needs(q)
          /\ Needs(j) = P6Needs(q)
      BY <1>1, <1>11 DEF Written, Prepared, Product, Beside, Runs, Needs
    <2>2. Shaped({} \cup P6Product(q), P6Needs(q), B)
      BY <1>3, TrainShaped
    <2> DEFINE rows == P6Product(q)
    <2>3. Shaped({} \cup rows, P6Needs(q), B) /\ \A r \in {} \cup rows : r.key[1] # "output"
      BY <2>2, TrainShaped
    <2>4. Written(j, d) = {} \cup Receipted(j, rows)
      BY <2>1
    <2> HIDE DEF B, rows
    <2>5. Shaped({} \cup Receipted(j, rows), P6Needs(q), B)
      BY <1>4, <2>3
    <2> QED
      BY <1>2, <1>11, <2>1, <2>4, <2>5 DEF B
  <1>12. CASE Cmd(j) \in Runs
    <2> DEFINE P == IF Cmd(j) = "FORECAST" THEN ForecastProduct(q) ELSE {CounterfactualRow(q)}
    <2>1. /\ Written(j, d) = {} \cup Receipted(j, P) /\ Beside(j) = {ModelKey(q)}
          /\ Needs(j) = RunNeeds(q)
      BY <1>1, <1>12 DEF Written, Prepared, Product, Beside, Runs, Needs
    <2>2. Shaped({} \cup P, {ModelKey(q)}, B) /\ \A r \in {} \cup P : r.key[1] # "output"
      BY <1>3, RunsShaped
    <2> HIDE DEF B, P
    <2>3. Shaped(Written(j, d), {ModelKey(q)}, B)
      <3>1. Shaped({} \cup Receipted(j, P), {ModelKey(q)}, B)
        BY <1>4, <2>2
      <3> QED
        BY <2>1, <3>1
    <2>4. ModelKey(q) \in Needs(j)
      BY <2>1 DEF RunNeeds
    <2> QED
      BY <1>2, <1>12, <2>1, <2>3, <2>4 DEF B, Runs
  <1> QED
    BY <1>1, <1>5, <1>6, <1>7, <1>8, <1>9, <1>10, <1>11, <1>12 DEF Commands, Runs


-----------------------------------------------------------------------------
(* How a database grows *)

\* An exchange of rows: keys stay, and what changes under a key is a model.
Grown(d, e) ==
    /\ Keys(d) \subseteq Keys(e) /\ FixedOf(d) \subseteq FixedOf(e)
    /\ \A c \in d : c \in e \/ c.key[1] = "model"
    /\ \A c \in e : c \in d \/ c.key \notin Keys(d) \/ c.key[1] = "model"

\* New rows under new keys leave the database readable.
LEMMA HealthyAdds ==
    ASSUME NEW d, NEW new, NEW uris, Healthy(d, uris), Brings(d, new, uris),
           Keys(new) \cap Keys(d) = {}
    PROVE  Healthy(d \cup new, uris) /\ Grown(d, d \cup new)
  <1>1. Keys(d \cup new) = Keys(d) \cup Keys(new)
    BY DEF Keys
  <1>2. \A r \in d : r.key \in Keys(d)
    BY DEF Keys
  <1>3. \A r \in new : r.key \in Keys(new)
    BY DEF Keys
  <1>4. Keyed(d \cup new)
    BY <1>2, <1>3 DEF Keyed, Healthy, Brings
  <1>5. Resolved(d \cup new, Keys(d \cup new))
    BY <1>1 DEF Resolved, Healthy, Brings
  <1>6. Stored(d \cup new, uris) /\ Anchored(d \cup new)
    BY DEF Stored, Anchored, Healthy, Brings
  <1>7. ASSUME NEW r \in d \cup new, NEW c \in d \cup new PROVE Aimed(r, c)
    <2>1. CASE r \in new
      BY <1>2, <1>3, <1>7, <2>1 DEF Brings
    <2>2. CASE r \in d /\ c \in d
      BY <2>2 DEF Healthy
    <2>3. CASE r \in d /\ c \in new
      BY <1>3, <2>3 DEF Healthy, Resolved, Aimed
    <2> QED
      BY <2>1, <2>2, <2>3
  <1>8. Grown(d, d \cup new)
    BY <1>1, <1>3 DEF Grown, FixedOf
  <1> QED
    BY <1>4, <1>5, <1>6, <1>7, <1>8 DEF Healthy

\* A transaction keeps its promise while others commit.
LEMMA BringsGrows ==
    ASSUME NEW d, NEW e, NEW new, NEW uris, NEW more, Grown(d, e), uris \subseteq more,
           Brings(d, new, uris)
    PROVE  Brings(e, new, more)
  <1>1. Resolved(new, Keys(e) \cup Keys(new)) /\ Stored(new, more)
    BY DEF Resolved, Stored, Grown, Brings
  <1>2. ASSUME NEW r \in new, NEW c \in e \cup new, c \in e => c.key \notin Keys(new)
        PROVE  Aimed(r, c)
    <2>1. CASE c.key[1] = "model"
      BY <2>1 DEF Aimed
    <2>2. CASE c \in d \cup new /\ c.key[1] # "model"
      BY <1>2, <2>2 DEF Brings, Grown
    <2>3. CASE c \in e /\ c.key \notin Keys(d)
      BY <1>2, <2>3 DEF Brings, Resolved, Aimed
    <2> QED
      BY <1>2, <2>1, <2>2, <2>3 DEF Grown
  <1> QED
    BY <1>1, <1>2 DEF Brings

LEMMA HealthyStores ==
    ASSUME NEW d, NEW uris, NEW more, uris \subseteq more, Healthy(d, uris)
    PROVE  Healthy(d, more) /\ Grown(d, d)
  BY DEF Healthy, Stored, Grown

\* A further revision of an assessment with its result.
LEMMA AssessmentBrings ==
    ASSUME NEW d, NEW q, NEW state, NEW uris, Healthy(d, uris), SubjectKey(q) \in Keys(d),
           RevisionKey(q, state) \notin Keys(d)
    PROVE  /\ Brings(d, Assessment(q, state), uris)
           /\ Keys(Assessment(q, state)) \cap Keys(d) = {}
           /\ \A r \in Assessment(q, state) : r.key[1] # "binding"
  <1> DEFINE revision == RevisionRow(q, state)
             result == ResultRow(RevisionKey(q, state))
             key == RevisionKey(q, state)
  <1>1. /\ revision.key = key /\ key[1] = "p4_revision" /\ revision.refs = {SubjectKey(q)}
        /\ revision.uses = {} /\ revision.uris = {}
    BY DEF Row, RevisionRow, RevisionKey
  <1>2. /\ result.key = <<"result", key>> /\ result.refs = {key}
        /\ result.uses = {} /\ result.uris = {}
    BY DEF Row, ResultRow
  <1>3. Assessment(q, state) = {revision, result}
    BY DEF Assessment
  <1> HIDE DEF revision, result, key
  <1>4. result.key[1] = "result" /\ result.key[2] = key
    BY <1>2
  <1>5. Keys({revision, result}) = {key, result.key}
    BY <1>1 DEF Keys
  <1>6. result.key \notin Keys(d)
    <2>1. SUFFICES ASSUME NEW s \in d, s.key = result.key PROVE FALSE
      BY DEF Keys
    <2>2. key \in s.refs
      BY <1>4, <2>1 DEF Healthy, Anchored
    <2> QED
      BY <2>2 DEF Healthy, Resolved, key
  <1>7. Keyed({revision, result}) /\ Anchored({revision, result})
    BY <1>1, <1>2, <1>4 DEF Keyed, Anchored
  <1>8. /\ Resolved({revision, result}, Keys(d) \cup {key, result.key})
        /\ Stored({revision, result}, uris)
    BY <1>1, <1>2 DEF Resolved, Stored
  <1>9. \A r \in {revision, result} : \A c : Aimed(r, c)
    BY <1>1, <1>4 DEF Aimed
  <1>10. Brings(d, {revision, result}, uris)
    BY <1>5, <1>7, <1>8, <1>9 DEF Brings
  <1> QED
    BY <1>1, <1>3, <1>4, <1>5, <1>6, <1>10 DEF key

\* The identity of a row ends before its status.
LEMMA BeforeStatus ==
    ASSUME NEW table, NEW at, NEW s, NEW t
    PROVE  SubSeq(<<table>> \o <<at, s>>, 1, 2) = SubSeq(<<table>> \o <<at, t>>, 1, 2)
  <1> DEFINE S == {table, at, s, t}
             front == <<table>>
             old == <<at, s>>
             new == <<at, t>>
  <1>1. front \in Seq(S) /\ old \in Seq(S) /\ new \in Seq(S)
    OBVIOUS
  <1>2. /\ Len(front) = 1 /\ front[1] = table /\ Len(old) = 2 /\ Len(new) = 2 /\ old[1] = at
        /\ new[1] = at
    OBVIOUS
  <1> HIDE DEF S, front, old, new
  <1>a. ASSUME NEW b \in Seq(S), Len(b) = 2, b[1] = at
        PROVE  /\ front \o b \in Seq(S) /\ Len(front \o b) = 3
               /\ (front \o b)[1] = table /\ (front \o b)[2] = at
    <2> DEFINE ab == front \o b
    <2>0. /\ ab \in Seq(S) /\ Len(ab) = Len(front) + Len(b)
          /\ \A i \in 1..Len(front) + Len(b) :
                ab[i] = IF i <= Len(front) THEN front[i] ELSE b[i - Len(front)]
      BY <1>1, <1>a, ConcatProperties
    <2> HIDE DEF ab
    <2>1. /\ ab \in Seq(S) /\ Len(ab) = 3
          /\ \A i \in 1..3 : ab[i] = IF i <= 1 THEN front[i] ELSE b[i - 1]
      BY <2>0, <1>2, <1>a
    <2> USE DEF ab
    <2> QED
      BY <1>2, <1>a, <2>1
  <1>3. /\ front \o old \in Seq(S) /\ Len(front \o old) = 3
        /\ (front \o old)[1] = table /\ (front \o old)[2] = at
    BY <1>1, <1>2, <1>a
  <1>4. /\ front \o new \in Seq(S) /\ Len(front \o new) = 3
        /\ (front \o new)[1] = table /\ (front \o new)[2] = at
    BY <1>1, <1>2, <1>a
  <1>5. ASSUME NEW b \in Seq(S), Len(b) = 3
        PROVE  /\ SubSeq(b, 1, 2) \in Seq(S) /\ Len(SubSeq(b, 1, 2)) = 2
               /\ SubSeq(b, 1, 2)[1] = b[1] /\ SubSeq(b, 1, 2)[2] = b[2]
    <2>1. \A i \in 1..2 : b[i] \in S
      BY <1>5
    <2> QED
      BY <2>1, SubSeqProperties
  <1>6. SubSeq(front \o old, 1, 2) = SubSeq(front \o new, 1, 2)
    <2> DEFINE a == SubSeq(front \o old, 1, 2)
               b == SubSeq(front \o new, 1, 2)
    <2>1. /\ a \in Seq(S) /\ b \in Seq(S) /\ Len(a) = 2 /\ Len(b) = 2
          /\ a[1] = b[1] /\ a[2] = b[2]
      BY <1>3, <1>4, <1>5
    <2> HIDE DEF a, b
    <2>2. \A i \in 1..Len(a) : a[i] = b[i]
      BY <2>1
    <2>3. a = b
      BY <2>1, <2>2, SeqEqual
    <2> QED
      BY <2>3 DEF a, b
  <1> QED
    BY <1>6 DEF front, old, new

\* The release of a model changes the status in its row and nothing else.
LEMMA ModelKeeps ==
    ASSUME NEW q, NEW d, NEW uris, Healthy(d, uris), ModelRow(q, "VALIDATED") \in d
    PROVE  LET e == (d \ {ModelRow(q, "VALIDATED")}) \cup {ModelRow(q, "PUBLISHED")} IN
           Healthy(e, uris) /\ Grown(d, e) /\ (BoundOnce(d) => BoundOnce(e))
  <1> DEFINE old == ModelRow(q, "VALIDATED")
             new == ModelRow(q, "PUBLISHED")
             e == (d \ {old}) \cup {new}
  <1>1. /\ old.key = new.key /\ old.refs = new.refs /\ old.uses = new.uses /\ old.uris = new.uris
        /\ new.key = ModelKey(q)
    BY DEF Row, ModelRow
  <1>2. new.key[1] = "model"
    BY <1>1 DEF ModelKey
  <1>3. Fixed(new) = Fixed(old)
    <2>1. /\ old.body = <<ModelKey(q)[1]>> \o <<q.at, "VALIDATED">>
          /\ new.body = <<ModelKey(q)[1]>> \o <<q.at, "PUBLISHED">>
      BY DEF Row, ModelRow
    <2>2. SubSeq(old.body, 1, 2) = SubSeq(new.body, 1, 2)
      BY <2>1, BeforeStatus
    <2> QED
      BY <1>1, <1>2, <2>2 DEF Fixed
  <1> HIDE DEF old, new
  <1>4. Keys(e) = Keys(d)
    BY <1>1 DEF Keys, old
  <1>5. Keyed(e)
    BY <1>1 DEF Keyed, Healthy, old
  <1>6. Resolved(e, Keys(d)) /\ Stored(e, uris) /\ Anchored(e)
    BY <1>1, <1>2 DEF Resolved, Stored, Anchored, Healthy, old
  <1>7. \A r, c \in e : Aimed(r, c)
    BY <1>2 DEF Aimed, Healthy
  <1>8. Grown(d, e)
    <2>1. FixedOf(d) \subseteq FixedOf(e)
      BY <1>3 DEF FixedOf
    <2> QED
      BY <1>1, <1>2, <1>4, <2>1 DEF Grown
  <1>9. BoundOnce(d) => BoundOnce(e)
    BY <1>2 DEF BoundOnce
  <1>10. Healthy(e, uris)
    BY <1>4, <1>5, <1>6, <1>7 DEF Healthy
  <1> QED
    BY <1>8, <1>9, <1>10 DEF old, new


-----------------------------------------------------------------------------
(* The second transaction of a job *)

\* The rows that a registration adds, by the rules of the register operations.
LEMMA ShapedBrings ==
    ASSUME NEW d, NEW uris, NEW more, NEW W, NEW needs, NEW bindings, NEW new,
           Healthy(d, uris), Shaped(W, needs, bindings), Accepts(d, W),
           needs \subseteq Keys(d) \cup Keys(W), Stored(W, more),
           new = {r \in W : r.key \notin Keys(d)}
    PROVE  /\ Brings(d, new, more)
           /\ W \subseteq d \cup new
           /\ Keys(W) \subseteq Keys(d) \cup Keys(new)
  <1>1. W \subseteq d \cup new
    BY DEF Accepts, Keys
  <1>2. Keys(W) \subseteq Keys(d) \cup Keys(new) /\ Keys(d \cup W) \subseteq Keys(d) \cup Keys(new)
    BY <1>1 DEF Keys
  <1>3. Keyed(new) /\ Anchored(new) /\ Stored(new, more)
    BY DEF Shaped, Keyed, Anchored, Stored
  <1>4. Resolved(new, Keys(d) \cup Keys(new))
    BY <1>2 DEF Resolved, Shaped, Opened, Accepts
  <1>5. ASSUME NEW r \in new, NEW c \in d \cup new, c \in d => c.key \notin Keys(new)
        PROVE  Aimed(r, c)
    <2>1. CASE c \in W
      BY <2>1 DEF Shaped
    <2>2. CASE c \in d /\ c \notin W
      <3>1. c.key \notin Keys(W)
        BY <2>2 DEF Accepts, Keys
      <3> QED
        BY <3>1 DEF Shaped, Aimed
    <2> QED
      BY <2>1, <2>2
  <1> QED
    BY <1>1, <1>2, <1>3, <1>4, <1>5 DEF Brings

\* A binding is written only where the context has none.
LEMMA BindsOnce ==
    ASSUME NEW j, NEW d, NEW new, BoundOnce(d),
           \A r \in new : r.key[1] = "binding" =>
               r \in {b \in {BindingRow(j)} : Cmd(j) = "P4" /\ Bindings(d, request[j].context) = {}}
    PROVE  BoundOnce(d \cup new)
  <1> DEFINE context == request[j].context
  <1>1. BindingRow(j).key[2] = context
    BY AssessShaped DEF Row, BindingRow
  <1>2. ASSUME NEW r \in new, r.key[1] = "binding", NEW s \in d, s.key[1] = "binding"
        PROVE  s.key[2] # context
    <2>1. Bindings(d, context) = {}
      BY <1>2
    <2> QED
      BY <1>2, <2>1 DEF Bindings, Table
  <1>3. \A r \in new : r.key[1] = "binding" => r = BindingRow(j)
    OBVIOUS
  <1> HIDE DEF context
  <1> QED
    BY <1>1, <1>2, <1>3 DEF BoundOnce

LEMMA Reading ==
    ASSUME NEW j, NEW d, Cmd(j) \in Readers \/ Cmd(j) = "P6"
    PROVE  Prepared(j, d) = {}
  BY DEF Prepared, Readers

\* What the second transaction writes, without the steps that come with it.
LEMMA Registers ==
    ASSUME TypeInv, StoreInv, InputInv, SubjectInv, NEW j \in Jobs, Persist(j)
    PROVE  LET new == {r \in Written(j, db) : r.key \notin Keys(db)} IN
           /\ Brings(db, new, objects')
           /\ txn' = [txn EXCEPT ![j] = new] /\ objects \subseteq objects'
           /\ BoundOnce(db) => BoundOnce(db \cup new)
           /\ FixedOf(input[j]) \subseteq FixedOf(db) \cup FixedOf(new)
           /\ Cmd(j) = "P4" => Subject(j) \in Keys(db) \cup Keys(new)
  <1> DEFINE W == Written(j, db)
             new == {r \in W : r.key \notin Keys(db)}
             B == {b \in {BindingRow(j)} : Cmd(j) = "P4" /\ Bindings(db, request[j].context) = {}}
  <1>1. scenario \in Scenarios /\ Healthy(db, objects)
    BY DEF TypeInv, StoreInv
  <1>2. /\ Accepts(db, W) /\ txn' = [txn EXCEPT ![j] = new]
        /\ phase[j] = "computed" /\ ~Drifted(j)
        /\ objects' = objects \cup PreparedObjects(j) \cup ProductObjects(j)
    BY DEF Persist, Replayed, Written
  <1>3. /\ Shaped(W, Beside(j), B)
        /\ Beside(j) \subseteq Needs(j) \/ Beside(j) = {}
        /\ Cmd(j) = "P4" => SubjectKey(request[j]) \in Keys(Product(j))
    BY <1>1, JobShaped
  <1>4. Stored(W, objects') /\ objects \subseteq objects'
    BY <1>2 DEF Stored, Written, PreparedObjects, ProductObjects
  <1>5. Beside(j) \subseteq Keys(db) \cup Keys(W)
    <2>1. CASE Cmd(j) = "P6"
      <3>1. Needs(j) \subseteq Keys(db \cup Prepared(j, db))
        BY <1>2, <2>1 DEF Drifted, Ready
      <3> QED
        BY <1>3, <2>1, <3>1, Reading
    <2>2. CASE Cmd(j) \in Runs
      <3>1. Beside(j) = {Model(j)}
        BY <2>2 DEF Beside, Runs, Model
      <3>2. Model(j) \in Keys(db)
        BY <1>2, <2>2 DEF SubjectInv, SubjectOf
      <3> QED
        BY <3>1, <3>2
    <2> QED
      BY <2>1, <2>2 DEF Beside
  <1>6. /\ Brings(db, new, objects') /\ W \subseteq db \cup new
        /\ Keys(W) \subseteq Keys(db) \cup Keys(new)
    <2>1. new = {r \in W : r.key \notin Keys(db)}
      OBVIOUS
    <2>2. /\ Shaped(W, Beside(j), B) /\ Accepts(db, W) /\ Stored(W, objects')
          /\ Beside(j) \subseteq Keys(db) \cup Keys(W)
      BY <1>2, <1>3, <1>4, <1>5
    <2> HIDE DEF W, B, new
    <2> QED
      BY <1>1, <2>1, <2>2, ShapedBrings
  <1>7. BoundOnce(db) => BoundOnce(db \cup new)
    <2>1. \A r \in new : r.key[1] = "binding" => r \in B
      BY <1>3 DEF Shaped
    <2> HIDE DEF new
    <2> QED
      BY <2>1, BindsOnce
  <1>8. FixedOf(input[j]) \subseteq FixedOf(db) \cup FixedOf(new)
    <2>1. Cmd(j) \in Commands
      BY <1>1, CommandsAssumption DEF Cmd, Jobs, request
    <2>2. CASE Cmd(j) = "P1"
      BY <2>2 DEF InputInv, InputOf, FixedOf
    <2>3. CASE Cmd(j) \in Readers
      BY <2>3 DEF InputInv, InputOf
    <2>4. CASE Cmd(j) \in {"P2", "P3", "P4", "P5", "P6"}
      <3>1. input[j] \subseteq db \cup Prepared(j, db)
        BY <1>2, <2>4 DEF Drifted, Given
      <3>2. input[j] \subseteq db \cup new
        BY <1>6, <3>1 DEF Written
      <3> QED
        BY <3>2 DEF FixedOf
    <2> QED
      BY <2>1, <2>2, <2>3, <2>4 DEF Commands, Readers
  <1>9. Cmd(j) = "P4" => Subject(j) \in Keys(db) \cup Keys(new)
    <2>1. Keys(Product(j)) \subseteq Keys(W)
      BY DEF Keys, Written
    <2> QED
      BY <1>3, <1>6, <2>1 DEF Subject
  <1> QED
    BY <1>2, <1>4, <1>6, <1>7, <1>8, <1>9


-----------------------------------------------------------------------------
(* Every step keeps the invariant *)

LEMMA Same ==
    ASSUME scenario' = scenario
    PROVE  /\ Jobs' = Jobs
           /\ \A j : Cmd(j)' = Cmd(j) /\ Subject(j)' = Subject(j) /\ Model(j)' = Model(j)
  <1>1. request' = request
    BY DEF request
  <1> QED
    BY <1>1 DEF Jobs, Cmd, Subject, SubjectKey, Assessed, EstimateKey, ComponentKey, TrainingKey,
                SegmentKey, Model, ModelKey

\* A job that does not move keeps its promise while the database grows.
LEMMA OthersStay ==
    ASSUME Inv, scenario' = scenario, objects \subseteq objects', Grown(db, db'), NEW k \in Jobs,
           phase'[k] = phase[k], input'[k] = input[k], txn'[k] = txn[k]
    PROVE  Brings(db', txn'[k], objects') /\ InputOf(k)' /\ SubjectOf(k)'
  <1>1. Brings(db, txn[k], objects) /\ InputOf(k) /\ SubjectOf(k)
    BY DEF Inv, OpenInv, InputInv, SubjectInv
  <1>2. Brings(db', txn[k], objects')
    BY <1>1, BringsGrows
  <1>3. InputOf(k)'
    BY <1>1, Same DEF InputOf, Grown
  <1>4. SubjectOf(k)'
    BY <1>1, Same DEF SubjectOf, Grown
  <1> QED
    BY <1>2, <1>3, <1>4

LEMMA NothingBrings == ASSUME NEW d, NEW uris PROVE Brings(d, {}, uris)
  BY DEF Brings, Keyed, Resolved, Stored, Anchored, Keys

\* A job prepares: its worker reads what is committed or what it will write.
LEMMA PrepareStep == ASSUME Inv, NEW j \in Jobs, Prepare(j) PROVE Inv'
  <1>1. /\ scenario' = scenario /\ engine' = engine /\ db' = db /\ txn' = txn
        /\ phase' = [phase EXCEPT ![j] = "prepared"] /\ input' = [input EXCEPT ![j] = Given(j, db)]
        /\ objects \subseteq objects' /\ phase[j] = "idle" /\ Cmd(j) # "P1"
    BY DEF Prepare, Goto
  <1>2. /\ phase'[j] = "prepared" /\ input'[j] = Given(j, db)
        /\ \A k \in Jobs : k # j => phase'[k] = phase[k] /\ input'[k] = input[k]
    BY <1>1 DEF Inv, TypeInv
  <1>3. TypeInv'
    BY <1>1, <1>2, Same DEF Inv, TypeInv
  <1>4. Healthy(db, objects') /\ Grown(db, db)
    BY <1>1, HealthyStores DEF Inv, StoreInv
  <1>5. StoreInv'
    BY <1>1, <1>4 DEF Inv, StoreInv
  <1>6. LeaseInv'
    BY <1>1, <1>2, Same DEF Inv, LeaseInv
  <1>7. ASSUME NEW k \in Jobs, k # j
        PROVE  Brings(db', txn'[k], objects') /\ InputOf(k)' /\ SubjectOf(k)'
    BY <1>1, <1>2, <1>4, <1>7, OthersStay
  <1>8. Brings(db', txn'[j], objects')
    BY <1>1, <1>4, BringsGrows DEF Inv, OpenInv
  <1>9. ASSUME Cmd(j) \in Readers PROVE input'[j] \subseteq db
    BY <1>2, <1>9, Reading DEF Given
  <1>10. InputOf(j)'
    BY <1>1, <1>2, <1>9, Same DEF InputOf, FixedOf
  <1>11. SubjectOf(j)'
    <2>1. ASSUME Cmd(j) \in Runs PROVE Model(j) \in Keys(db)
      <3>1. Model(j) \in Needs(j)
        BY <2>1 DEF Model, Needs, RunNeeds, Runs, Cmd
      <3>2. Needs(j) \subseteq Keys(db \cup Prepared(j, db))
        BY DEF Prepare, Ready
      <3> QED
        BY <2>1, <3>1, <3>2, Reading DEF Runs, Readers
    <2> QED
      BY <1>1, <1>2, <2>1, Same DEF SubjectOf
  <1>12. OpenInv' /\ InputInv' /\ SubjectInv'
    BY <1>1, <1>7, <1>8, <1>10, <1>11, Same DEF OpenInv, InputInv, SubjectInv
  <1> QED
    BY <1>3, <1>5, <1>6, <1>12 DEF Inv

\* A worker computes: only objects are written.
LEMMA ComputeStep == ASSUME Inv, NEW j \in Jobs, Compute(j) PROVE Inv'
  <1>1. /\ scenario' = scenario /\ engine' = engine /\ db' = db /\ txn' = txn /\ input' = input
        /\ phase' = [phase EXCEPT ![j] = "computed"]
        /\ objects \subseteq objects' /\ phase[j] = (IF Cmd(j) = "P1" THEN "idle" ELSE "prepared")
    BY DEF Compute, Goto
  <1>2. /\ phase'[j] = "computed" /\ \A k \in Jobs : k # j => phase'[k] = phase[k]
    BY <1>1 DEF Inv, TypeInv
  <1>3. TypeInv'
    BY <1>1, <1>2, Same DEF Inv, TypeInv
  <1>4. Healthy(db, objects') /\ Grown(db, db)
    BY <1>1, HealthyStores DEF Inv, StoreInv
  <1>5. StoreInv'
    BY <1>1, <1>4 DEF Inv, StoreInv
  <1>6. LeaseInv'
    BY <1>1, <1>2, Same DEF Inv, LeaseInv
  <1>7. ASSUME NEW k \in Jobs, k # j
        PROVE  Brings(db', txn'[k], objects') /\ InputOf(k)' /\ SubjectOf(k)'
    BY <1>1, <1>2, <1>4, <1>7, OthersStay
  <1>8. Brings(db', txn'[j], objects')
    BY <1>1, <1>4, BringsGrows DEF Inv, OpenInv
  <1>9. InputOf(j) /\ SubjectOf(j)
    BY DEF Inv, InputInv, SubjectInv
  <1>10. InputOf(j)' /\ SubjectOf(j)'
    BY <1>1, <1>2, <1>9, Same DEF InputOf, SubjectOf, Runs
  <1>11. OpenInv' /\ InputInv' /\ SubjectInv'
    BY <1>1, <1>7, <1>8, <1>10, Same DEF OpenInv, InputInv, SubjectInv
  <1> QED
    BY <1>3, <1>5, <1>6, <1>11 DEF Inv

\* The second transaction of a job opens.
LEMMA PersistStep == ASSUME Inv, NEW j \in Jobs, Persist(j) PROVE Inv'
  <1> DEFINE new == {r \in Written(j, db) : r.key \notin Keys(db)}
  <1>1. /\ scenario' = scenario /\ engine' = engine /\ db' = db /\ input' = input
        /\ phase' = [phase EXCEPT ![j] = "open"] /\ phase[j] = "computed" /\ Leased
    BY DEF Persist, Goto
  <1>2. /\ Brings(db, new, objects')
        /\ txn' = [txn EXCEPT ![j] = new] /\ objects \subseteq objects'
        /\ BoundOnce(db) => BoundOnce(db \cup new)
        /\ FixedOf(input[j]) \subseteq FixedOf(db) \cup FixedOf(new)
        /\ Cmd(j) = "P4" => Subject(j) \in Keys(db) \cup Keys(new)
    BY Registers DEF Inv
  <1> HIDE DEF new
  <1>3. /\ phase'[j] = "open" /\ txn'[j] = new
        /\ \A k \in Jobs : k # j => phase'[k] = phase[k] /\ txn'[k] = txn[k]
    BY <1>1, <1>2 DEF Inv, TypeInv
  <1>4. TypeInv'
    BY <1>1, <1>2, <1>3, Same DEF Inv, TypeInv
  <1>5. Healthy(db, objects') /\ Grown(db, db)
    BY <1>2, HealthyStores DEF Inv, StoreInv
  <1>6. StoreInv'
    BY <1>1, <1>5 DEF Inv, StoreInv
  <1>7. LeaseInv'
    BY <1>1, <1>2, <1>3, Same DEF Inv, StoreInv, LeaseInv, Leased
  <1>8. ASSUME NEW k \in Jobs, k # j
        PROVE  Brings(db', txn'[k], objects') /\ InputOf(k)' /\ SubjectOf(k)'
    BY <1>1, <1>2, <1>3, <1>5, <1>8, OthersStay
  <1>9. InputOf(j) /\ SubjectOf(j)
    BY DEF Inv, InputInv, SubjectInv
  <1>10. Brings(db', txn'[j], objects')
    BY <1>1, <1>2, <1>3
  <1>11. InputOf(j)'
    BY <1>1, <1>2, <1>3, <1>9, Same DEF InputOf
  <1>12. SubjectOf(j)'
    BY <1>1, <1>2, <1>3, <1>9, Same DEF SubjectOf
  <1>13. OpenInv' /\ InputInv' /\ SubjectInv'
    BY <1>1, <1>8, <1>10, <1>11, <1>12, Same DEF OpenInv, InputInv, SubjectInv
  <1> QED
    BY <1>4, <1>6, <1>7, <1>13 DEF Inv

\* It commits: none of its keys has been committed meanwhile.
LEMMA CommitStep == ASSUME Inv, NEW j \in Jobs, Commit(j) PROVE Inv'
  <1>1. /\ scenario' = scenario /\ engine' = engine /\ objects' = objects /\ input' = input
        /\ db' = db \cup txn[j] /\ txn' = [txn EXCEPT ![j] = {}]
        /\ phase' = [phase EXCEPT ![j] = "succeeded"] /\ phase[j] = "open"
        /\ Keys(txn[j]) \cap Keys(db) = {}
    BY DEF Commit, Goto
  <1>2. /\ phase'[j] = "succeeded" /\ txn'[j] = {}
        /\ \A k \in Jobs : k # j => phase'[k] = phase[k] /\ txn'[k] = txn[k]
    BY <1>1 DEF Inv, TypeInv
  <1>3. TypeInv'
    BY <1>1, <1>2, Same DEF Inv, TypeInv
  <1>4. Healthy(db', objects') /\ Grown(db, db')
    BY <1>1, HealthyAdds DEF Inv, StoreInv, OpenInv
  <1>5. engine = "SQLITE" => BoundOnce(db') /\ \A k \in Jobs : phase[k] = "open" => k = j
    BY <1>1 DEF Inv, LeaseInv
  <1>6. StoreInv'
    BY <1>1, <1>4, <1>5 DEF StoreInv
  <1>7. LeaseInv'
    BY <1>1, <1>2, <1>5, Same DEF LeaseInv
  <1>8. ASSUME NEW k \in Jobs, k # j
        PROVE  Brings(db', txn'[k], objects') /\ InputOf(k)' /\ SubjectOf(k)'
    BY <1>1, <1>2, <1>4, <1>8, OthersStay
  <1>9. InputOf(j) /\ SubjectOf(j)
    BY DEF Inv, InputInv, SubjectInv
  <1>10. Brings(db', txn'[j], objects')
    BY <1>2, NothingBrings
  <1>11. InputOf(j)'
    BY <1>1, <1>2, <1>9, Same DEF InputOf, FixedOf
  <1>12. SubjectOf(j)'
    BY <1>1, <1>2, <1>9, Same DEF SubjectOf, Keys
  <1>13. OpenInv' /\ InputInv' /\ SubjectInv'
    BY <1>1, <1>8, <1>10, <1>11, <1>12, Same DEF OpenInv, InputInv, SubjectInv
  <1> QED
    BY <1>3, <1>6, <1>7, <1>13 DEF Inv

\* It fails: its rows are gone.
LEMMA FailStep == ASSUME Inv, NEW j \in Jobs, Fail(j) PROVE Inv'
  <1>1. /\ scenario' = scenario /\ engine' = engine /\ objects' = objects /\ input' = input
        /\ db' = db /\ txn' = [txn EXCEPT ![j] = {}]
        /\ phase' = [phase EXCEPT ![j] = "failed"]
    BY DEF Fail, Goto
  <1>2. /\ phase'[j] = "failed" /\ txn'[j] = {}
        /\ \A k \in Jobs : k # j => phase'[k] = phase[k] /\ txn'[k] = txn[k]
    BY <1>1 DEF Inv, TypeInv
  <1>3. TypeInv'
    BY <1>1, <1>2, Same DEF Inv, TypeInv
  <1>4. Healthy(db', objects') /\ Grown(db, db')
    BY <1>1, HealthyStores DEF Inv, StoreInv
  <1>5. StoreInv'
    BY <1>1, <1>4 DEF Inv, StoreInv
  <1>6. LeaseInv'
    BY <1>1, <1>2, Same DEF Inv, LeaseInv
  <1>7. ASSUME NEW k \in Jobs, k # j
        PROVE  Brings(db', txn'[k], objects') /\ InputOf(k)' /\ SubjectOf(k)'
    BY <1>1, <1>2, <1>4, <1>7, OthersStay
  <1>8. InputOf(j) /\ SubjectOf(j)
    BY DEF Inv, InputInv, SubjectInv
  <1>9. Brings(db', txn'[j], objects')
    BY <1>2, NothingBrings
  <1>10. InputOf(j)' /\ SubjectOf(j)'
    BY <1>1, <1>2, <1>8, Same DEF InputOf, SubjectOf
  <1>11. OpenInv' /\ InputInv' /\ SubjectInv'
    BY <1>1, <1>7, <1>9, <1>10, Same DEF OpenInv, InputInv, SubjectInv
  <1> QED
    BY <1>3, <1>5, <1>6, <1>11 DEF Inv

\* The instructor approves an assessment, in a transaction of its own.
LEMMA ApproveStep == ASSUME Inv, NEW j \in Jobs, Approve(j) PROVE Inv'
  <1> DEFINE new == Assessment(request[j], "APPROVED")
  <1>1. /\ scenario' = scenario /\ engine' = engine /\ objects' = objects /\ input' = input
        /\ db' = db \cup new /\ txn' = txn /\ phase' = phase /\ Leased
    BY DEF Approve
  <1>2. SubjectKey(request[j]) \in Keys(db) /\ RevisionKey(request[j], "APPROVED") \notin Keys(db)
    BY DEF Approve, Inv, SubjectInv, SubjectOf, Subject
  <1>3. /\ Brings(db, new, objects) /\ Keys(new) \cap Keys(db) = {}
        /\ \A r \in new : r.key[1] # "binding"
    BY <1>2, AssessmentBrings DEF Inv, StoreInv
  <1> HIDE DEF new
  <1>4. Healthy(db', objects') /\ Grown(db, db')
    BY <1>1, <1>3, HealthyAdds DEF Inv, StoreInv
  <1>5. BoundOnce(db) => BoundOnce(db')
    BY <1>1, <1>3 DEF BoundOnce
  <1>6. TypeInv' /\ StoreInv'
    BY <1>1, <1>4, <1>5, Same DEF Inv, TypeInv, StoreInv
  <1>7. LeaseInv'
    BY <1>1, Same DEF Inv, LeaseInv, Leased
  <1>8. ASSUME NEW k \in Jobs PROVE Brings(db', txn'[k], objects') /\ InputOf(k)' /\ SubjectOf(k)'
    BY <1>1, <1>4, OthersStay
  <1>9. OpenInv' /\ InputInv' /\ SubjectInv'
    BY <1>1, <1>8, Same DEF OpenInv, InputInv, SubjectInv
  <1> QED
    BY <1>6, <1>7, <1>9 DEF Inv

\* A model is released.
LEMMA ReleaseStep == ASSUME Inv, NEW j \in Jobs, ReleaseModel(j) PROVE Inv'
  <1> DEFINE old == ModelRow(request[j], "VALIDATED")
             new == ModelRow(request[j], "PUBLISHED")
  <1>1. /\ scenario' = scenario /\ engine' = engine /\ objects' = objects /\ input' = input
        /\ db' = (db \ {old}) \cup {new} /\ txn' = txn /\ phase' = phase /\ Leased
    BY DEF ReleaseModel
  <1>2. /\ Healthy(db', objects') /\ Grown(db, db')
        /\ BoundOnce(db) => BoundOnce(db')
    <2>1. old \in db /\ Healthy(db, objects)
      BY DEF ReleaseModel, Inv, StoreInv
    <2>2. LET e == (db \ {old}) \cup {new} IN
          Healthy(e, objects) /\ Grown(db, e) /\ (BoundOnce(db) => BoundOnce(e))
      BY <2>1, ModelKeeps
    <2> HIDE DEF old, new
    <2> QED
      BY <1>1, <2>2
  <1> HIDE DEF old, new
  <1>3. TypeInv' /\ StoreInv'
    BY <1>1, <1>2, Same DEF Inv, TypeInv, StoreInv
  <1>4. LeaseInv'
    BY <1>1, Same DEF Inv, LeaseInv, Leased
  <1>5. ASSUME NEW k \in Jobs PROVE Brings(db', txn'[k], objects') /\ InputOf(k)' /\ SubjectOf(k)'
    BY <1>1, <1>2, OthersStay
  <1>6. OpenInv' /\ InputInv' /\ SubjectInv'
    BY <1>1, <1>5, Same DEF OpenInv, InputInv, SubjectInv
  <1> QED
    BY <1>3, <1>4, <1>6 DEF Inv

LEMMA InvStep == Inv /\ [Next]_vars => Inv'
  <1>1. ASSUME Inv, UNCHANGED vars PROVE Inv'
    <2>1. UNCHANGED <<engine, scenario, db, objects, phase, input, txn>> /\ scenario' = scenario
      BY <1>1 DEF vars
    <2>2. ASSUME NEW k \in Jobs PROVE InputOf(k)' /\ SubjectOf(k)'
      BY <1>1, <2>1, Same DEF Inv, InputInv, InputOf, SubjectInv, SubjectOf
    <2> QED
      BY <1>1, <2>1, <2>2, Same
      DEF Inv, TypeInv, StoreInv, OpenInv, LeaseInv, InputInv, SubjectInv
  <1> QED
    BY <1>1, PrepareStep, ComputeStep, PersistStep, CommitStep, FailStep, ApproveStep, ReleaseStep
    DEF Next

\* The products of the past are the first database.
LEMMA InvInit == Init /\ PastHealthy => Inv
  <1> SUFFICES ASSUME Init, PastHealthy PROVE Inv
    OBVIOUS
  <1>1. /\ scenario \in Scenarios /\ engine \in {"SQLITE", "POSTGRES"} /\ db = PastRows
        /\ objects = UNION {r.uris : r \in db}
        /\ input = [j \in Jobs |-> {}] /\ txn = [j \in Jobs |-> {}]
        /\ phase = [j \in Jobs |-> IF j \in Past[scenario] THEN "succeeded" ELSE "idle"]
    BY DEF Init
  <1>2. Past[scenario] \subseteq Jobs
    BY <1>1, CommandsAssumption DEF Jobs, request
  <1>3. PastRows = UNION {Written(j, {}) : j \in Past[scenario]}
    BY DEF PastRows, Written
  <1>4. Anchored(db)
    <2>1. ASSUME NEW r \in db PROVE \E j \in Past[scenario] : r \in Written(j, {})
      BY <1>1, <1>3
    <2>2. ASSUME NEW j \in Past[scenario] PROVE Anchored(Written(j, {}))
      BY <1>1, <1>2, JobShaped DEF Shaped
    <2> QED
      BY <2>1, <2>2 DEF Anchored
  <1>5. Stored(db, objects)
    BY <1>1 DEF Stored
  <1>6. StoreInv
    BY <1>1, <1>4, <1>5 DEF StoreInv, Healthy, PastHealthy
  <1>7. TypeInv /\ LeaseInv
    BY <1>1 DEF TypeInv, LeaseInv
  <1>8. OpenInv
    BY <1>1, NothingBrings DEF OpenInv
  <1>9. InputInv
    BY <1>1 DEF InputInv, InputOf, FixedOf
  <1>10. SubjectInv
    <2>1. ASSUME NEW j \in Jobs, Cmd(j) = "P4", j \in Past[scenario] PROVE Subject(j) \in Keys(db)
      <3>1. Subject(j) \in Keys(Product(j))
        BY <1>1, <2>1, JobShaped DEF Subject
      <3>2. Product(j) \subseteq db
        BY <1>1, <2>1 DEF PastRows
      <3> QED
        BY <3>1, <3>2 DEF Keys
    <2> QED
      BY <1>1, <2>1 DEF SubjectInv, SubjectOf
  <1> QED
    BY <1>6, <1>7, <1>8, <1>9, <1>10 DEF Inv

LEMMA InvAlways == Spec /\ PastHealthy => []Inv
BY InvInit, InvStep, PTL DEF Spec

-----------------------------------------------------------------------------
(* The theorems *)

\* A job that succeeded was computed from committed rows, although it read them, and
\* some of them it only prepared, in a transaction that was rolled back: the second
\* transaction prepares the same rows again or finds them as they were.
THEOREM InputsAreCommitted == Spec /\ PastHealthy => []InputsCommitted
  <1>1. Inv => InputsCommitted
    BY DEF Inv, TypeInv, StoreInv, Healthy, Keyed, InputInv, InputOf, InputsCommitted, TypeOK,
           FixedOf
  <1> QED
    BY <1>1, InvAlways, PTL

\* Every committed product has the rows and the objects its readers open, and an
\* adjusted estimate has the target that its cohort dataset names, whichever job froze
\* the dataset of that cohort first.
THEOREM ProductsStayReadable == Spec /\ PastHealthy => []ProductsReadable
  <1>1. Inv => ProductsReadable
    BY DEF Inv, StoreInv, Healthy, Resolved, Stored, Aimed, ProductsReadable, Table
  <1> QED
    BY <1>1, InvAlways, PTL

\* On SQLite no two assessments of a context bind its role model twice, so the context
\* can be assessed again.
THEOREM ContextsStayUsable == Spec /\ PastHealthy => []ContextsUsable
  <1>1. ASSUME Inv, engine = "SQLITE", NEW r \in Table(db, "binding")
        PROVE  Cardinality(Bindings(db, r.key[2])) <= 1
    <2>1. Bindings(db, r.key[2]) = {r}
      BY <1>1 DEF Inv, StoreInv, BoundOnce, Bindings, Table
    <2>2. Cardinality(Bindings(db, r.key[2])) = 1
      BY <2>1, FS_Singleton
    <2> QED
      BY <2>2
  <1>2. Inv => ContextsUsable
    BY <1>1 DEF ContextsUsable
  <1> QED
    BY <1>2, InvAlways, PTL

\* Where no job has run before there is nothing to suppose: whatever is derived from
\* an empty database, in any order and with any failures, is healthy.
COROLLARY FromNothing ==
    ASSUME \A s \in Scenarios : Past[s] = {}
    PROVE  Spec => [](InputsCommitted /\ ProductsReadable /\ ContextsUsable)
  <1>1. Init => PastHealthy
    <2> SUFFICES ASSUME Init PROVE PastHealthy
      OBVIOUS
    <2>1. PastRows = {}
      BY DEF Init, PastRows
    <2> QED
      BY <2>1 DEF PastHealthy, Keyed, Resolved, BoundOnce
  <1> QED
    BY <1>1, InputsAreCommitted, ProductsStayReadable, ContextsStayUsable, PTL DEF Spec

===============================================================================
