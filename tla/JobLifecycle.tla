---------------------------- MODULE JobLifecycle ----------------------------
(***************************************************************************)
(* What the durable job service promises about a compute job: the life of  *)
(* one registry.compute_job row, and the one step in which the products of *)
(* the job become visible.  DurableJobs is shown to implement it.          *)
(***************************************************************************)
CONSTANTS
    Keys,           \* job keys, the clients' idempotency keys
    Payloads,       \* request hashes
    ExclusiveKeys   \* whether a second request under a used key is refused

VARIABLES
    row,      \* committed status of each job, "ABSENT" before it is accepted
    product   \* jobs whose release and outputs are committed

abstractVars == <<row, product>>

\* job_id is uuid5 of the job key and the request hash: the pair stands for it.
Jobs == Keys \X Payloads

Terminal == {"SUCCEEDED", "FAILED", "CANCELLED"}
Active == {"QUEUED", "RUNNING"}
Status == {"ABSENT"} \cup Active \cup Terminal

Init ==
    /\ row = [j \in Jobs |-> "ABSENT"]
    /\ product = {}

Accept(j) ==
    /\ row[j] = "ABSENT"
    /\ ExclusiveKeys => \A i \in Jobs : i[1] = j[1] => row[i] = "ABSENT"
    /\ row' = [row EXCEPT ![j] = "QUEUED"]
    /\ UNCHANGED product

Start(j) ==
    /\ row[j] = "QUEUED"
    /\ row' = [row EXCEPT ![j] = "RUNNING"]
    /\ UNCHANGED product

\* The products and the success are one step: neither is seen without the other.
Complete(j) ==
    /\ row[j] = "RUNNING"
    /\ row' = [row EXCEPT ![j] = "SUCCEEDED"]
    /\ product' = product \cup {j}

Fail(j) ==
    /\ row[j] = "RUNNING"
    /\ row' = [row EXCEPT ![j] = "FAILED"]
    /\ UNCHANGED product

Cancel(j) ==
    /\ row[j] \in Active
    /\ row' = [row EXCEPT ![j] = "CANCELLED"]
    /\ UNCHANGED product

Next ==
    \E j \in Jobs : Accept(j) \/ Start(j) \/ Complete(j) \/ Fail(j) \/ Cancel(j)

Spec == Init /\ [][Next]_abstractVars
=============================================================================
