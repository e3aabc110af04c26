----------------------------- MODULE WorkerPool -----------------------------
(***************************************************************************)
(* What the bounded worker dispatcher promises to a job: a slot is granted *)
(* to at most one dispatch of a job and to at most Capacity jobs, a cancel *)
(* only marks a dispatch in flight, and settling gives the slot and the    *)
(* mark back together.  WorkerDispatch is shown to implement it, and       *)
(* DurableJobs is built on its actions.                                    *)
(***************************************************************************)
EXTENDS Naturals, FiniteSets

CONSTANTS Jobs, Capacity

VARIABLES
    active,   \* jobs that hold an admission slot
    doomed    \* active jobs whose worker a cancel has asked to stop

poolVars == <<active, doomed>>

EmptyPool == active = {} /\ doomed = {}

\* Admission refuses, without waiting, a job in flight or a full pool.
Admissible(j) == j \notin active /\ Cardinality(active) < Capacity

Admit(j) ==
    /\ Admissible(j)
    /\ active' = active \cup {j}
    /\ UNCHANGED doomed

\* A cancel that finds no worker of the job to stop changes nothing; one that
\* finds it does not promise that the dispatch fails.
Doom(j) ==
    /\ doomed' \in {doomed, doomed \cup ({j} \cap active)}
    /\ UNCHANGED active

\* Mutant of Settle: the mark outlives the dispatch.
SettleKeepsMark(j) ==
    /\ j \in active
    /\ active' = active \ {j}
    /\ UNCHANGED doomed

Settle(j) ==
    /\ j \in active
    /\ active' = active \ {j}
    /\ doomed' = doomed \ {j}

PoolNext == \E j \in Jobs : Admit(j) \/ Doom(j) \/ Settle(j)

PoolSpec == EmptyPool /\ [][PoolNext]_poolVars
=============================================================================
