---------------------------- MODULE MetricCatalog ----------------------------
(* The catalog engine of src/tpaa_metric/catalog_engine.py: a catalog says of *)
(* every metric what it is computed from, a plan puts the metrics of one      *)
(* delivery into an order, a batch runs a requested part of the plan, and     *)
(* every record commits by its hash to the records it was derived from.  A    *)
(* metric is its index in the catalog; a hash is the set of the metrics whose *)
(* inputs and definitions went into it.                                       *)
EXTENDS Naturals, SequencesExt

CONSTANTS
    Metrics,        \* catalog indexes
    MaxBindings     \* bound: dependencies declared in the catalog

ASSUME CatalogConstants ==
    /\ IsFiniteSet(Metrics) /\ Metrics = 1 .. Cardinality(Metrics)
    /\ MaxBindings \in Nat

VARIABLES
    upstream,       \* the catalog: which metrics each metric is computed from
    stage,          \* "catalog", "refused", "planned", "running", "failed", "keyerror", "done"
    scope,          \* the metrics of the delivery
    plan,           \* the same, in execution order
    requested,      \* metric_codes of the batch
    todo,           \* what is left to execute of it
    hashes          \* result_hashes: what each executed metric commits to

catalog == <<upstream, stage, scope, plan, requested, todo, hashes>>

CatalogInit ==
    /\ upstream = [m \in Metrics |-> {}]
    /\ stage = "catalog"
    /\ scope = {} /\ plan = <<>> /\ requested = {} /\ todo = {} /\ hashes = <<>>

\* the catalog is written before anything is compiled from it
Declare(m, d) ==
    /\ stage = "catalog"
    /\ d \notin upstream[m]
    /\ Cardinality(UNION {{m2} \X upstream[m2] : m2 \in Metrics}) < MaxBindings
    /\ upstream' = [upstream EXCEPT ![m] = @ \cup {d}]
    /\ UNCHANGED <<stage, scope, plan, requested, todo, hashes>>

-----------------------------------------------------------------------------

\* some metrics in the order of their catalog indexes
ByIndex(metrics) ==
    [n \in 1 .. Cardinality(metrics) |->
        CHOOSE m \in metrics : Cardinality({d \in metrics : d < m}) = n - 1]

\* one wave: every metric whose dependencies are all ordered, by catalog index
Wave(selected, order) ==
    LET ready == {m \in selected \ ToSet(order) : upstream[m] \subseteq ToSet(order)}
    IN  order \o ByIndex(ready)

TopologicalOrder(selected) ==
    FoldLeft(LAMBDA order, n : Wave(selected, order), <<>>, [n \in Metrics |-> n])

\* a dependency outside the delivery has no authority, one on a cycle no turn
Compile(selected) ==
    /\ stage = "catalog"
    /\ scope' = selected
    /\ LET order == TopologicalOrder(selected) IN
          IF (\E m \in selected : ~(upstream[m] \subseteq selected)) \/ ToSet(order) # selected
          THEN stage' = "refused" /\ UNCHANGED plan
          ELSE stage' = "planned" /\ plan' = order
    /\ UNCHANGED <<upstream, requested, todo, hashes>>

\* one pass over the plan, which adds the dependencies of what is in so far
Pass(closure) ==
    FoldLeft(LAMBDA in, m : IF m \in in THEN in \cup upstream[m] ELSE in, closure, plan)

\* Mutant of Closure: a single pass
ClosureOnePass(codes) == Pass(codes)

\* passes until nothing changes
Closure(codes) == FoldLeft(LAMBDA in, m : Pass(in), codes, plan)

\* a batch asks for some metrics of the plan, or for unknown ones and is refused
Request(codes) ==
    /\ stage = "planned" /\ codes # {}
    /\ IF codes \subseteq ToSet(plan)
       THEN /\ stage' = "running"
            /\ requested' = codes
            /\ todo' = ToSet(plan) \cap Closure(codes)
       ELSE stage' = "failed" /\ UNCHANGED <<requested, todo>>
    /\ UNCHANGED <<upstream, scope, plan, hashes>>

\* The next metric of the batch.  It fails without an input payload, without a
\* plugin or on an output that breaks the contract; a dependency that has no
\* hash is a KeyError.
Evaluate ==
    /\ stage = "running"
    /\ \E n \in DOMAIN plan :
          /\ plan[n] \in todo /\ \A k \in 1 .. n - 1 : plan[k] \notin todo
          /\ LET m == plan[n] IN
                IF upstream[m] \subseteq DOMAIN hashes
                THEN /\ hashes' = [x \in DOMAIN hashes \cup {m} |->
                                      IF x = m THEN {m} \cup UNION {hashes[d] : d \in upstream[m]}
                                      ELSE hashes[x]]
                     /\ todo' = todo \ {m}
                     /\ stage' = IF todo' = {} THEN "done" ELSE "running"
                ELSE stage' = "keyerror" /\ UNCHANGED <<todo, hashes>>
    /\ UNCHANGED <<upstream, scope, plan, requested>>

Break ==
    /\ stage = "running"
    /\ stage' = "failed"
    /\ UNCHANGED <<upstream, scope, plan, requested, todo, hashes>>

CatalogNext ==
    \/ \E m, d \in Metrics : Declare(m, d)
    \/ \E selected \in SUBSET Metrics : Compile(selected)
    \/ \E codes \in SUBSET Metrics : Request(codes)
    \/ Evaluate
    \/ Break

CatalogSpec == CatalogInit /\ [][CatalogNext]_catalog

-----------------------------------------------------------------------------

\* everything a set of metrics is derived from, itself included: what is in
\* every set that holds it and the dependencies of its own members
Closed(codes) == \A m \in codes : upstream[m] \subseteq codes
Lineage(codes) ==
    {m \in Metrics : \A in \in SUBSET Metrics : codes \subseteq in /\ Closed(in) => m \in in}

\* A catalog compiles exactly when its dependencies can be followed to an end
\* within the delivery.  A batch of any part of the plan never misses the result
\* of a dependency, whichever order the catalog lists them in, and when it is
\* done its records are the requested metrics and all they are derived from, each
\* committing to the whole of its own lineage: what is computed for a part of
\* the plan is what is computed for the whole.
LineageComplete ==
    LET ending == Closed(scope) /\ \A m \in scope : m \notin Lineage(upstream[m]) IN
    /\ stage # "keyerror"
    /\ stage = "refused" => ~ending
    /\ stage \notin {"catalog", "refused"} =>
          ending /\ ToSet(plan) = scope /\ Len(plan) = Cardinality(scope)
    /\ stage = "done" =>
          /\ DOMAIN hashes = Lineage(requested)
          /\ \A m \in DOMAIN hashes : hashes[m] = Lineage({m})

=============================================================================
