---------------------------- MODULE MCDurableJobs ----------------------------
(* Instances of DurableJobs for model checking. *)
EXTENDS DurableJobs, TLC

CONSTANTS p1, p2

\* p1 is an import (P1), which stores a dataset; p2 an attribution (P2), which
\* prepares its input and stores a model.
MCStages == (p1 :> {"store"}) @@ (p2 :> {"prepare", "store"})

Symmetry == Permutations(Submitters) \cup Permutations(Cancellers) \cup Permutations(Keys)
=============================================================================
