------------------------------ MODULE MCMetrics ------------------------------
(* Small inputs of the metrics for TLC: a behaviour collects rows of a        *)
(* relation, runs a link, or compiles a catalog and runs a batch; they have   *)
(* nothing to do with each other.  The last row joins only relations in which *)
(* a swap is counted: it takes four rows to have one, and a fifth to have     *)
(* something else change beside it.                                           *)
EXTENDS AssociationMetrics, LinkSequence, MetricCatalog, TLC

Init == EmptyRelation /\ LinkInit /\ CatalogInit

NoCatalog == upstream = [m \in Metrics |-> {}] /\ stage = "catalog"
NoLink == sent = 0 /\ origin = 0

Collect ==
    /\ NoLink /\ NoCatalog
    /\ Cardinality(relation) = MaxRows - 1 => Swaps # {}
    /\ \E row \in Row : Associate(row)
    /\ UNCHANGED <<link, catalog>>

Transmit ==
    /\ relation = {} /\ NoCatalog
    /\ LinkNext
    /\ UNCHANGED <<relation, catalog>>

Evaluation ==
    /\ relation = {} /\ NoLink
    /\ CatalogNext
    /\ UNCHANGED <<relation, link>>

Spec == Init /\ [][Collect \/ Transmit \/ Evaluation]_<<relation, link, catalog>>

Interchangeable == Permutations(Tracks) \cup Permutations(Targets)

=============================================================================
