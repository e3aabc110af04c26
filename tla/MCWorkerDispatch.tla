--------------------------- MODULE MCWorkerDispatch ---------------------------
(* Instances of WorkerDispatch for model checking. *)
EXTENDS WorkerDispatch, TLC

Symmetry == Permutations(Dispatchers) \cup Permutations(Cancellers) \cup Permutations(Jobs)
=============================================================================
