------------------------ MODULE WorkerDispatch_proofs ------------------------
(***************************************************************************)
(* Proofs about WorkerDispatch, for any number of calls, jobs and slots:   *)
(* slots match dispatches, no stopped worker's result is used, and the     *)
(* dispatcher implements WorkerPool.                                       *)
(***************************************************************************)
EXTENDS WorkerDispatch, FiniteSetTheorems, TLAPS

\* Dispatches whose job holds a slot.
Holds(d) == pc[d] \in InFlight \/ outcome[d] = "unmade"

\* No dispatch shares the job of one in flight, also not one that leaked its slot.
SlotInv ==
    /\ IsFiniteSet(active)
    /\ active = {job[d] : d \in {e \in Dispatchers : Holds(e)}}
    /\ \A d, e \in Dispatchers : pc[d] \in InFlight /\ Holds(e) /\ job[d] = job[e] => d = e
    /\ \A d \in Dispatchers : outcome[d] = "unmade" => pc[d] = "done"

\* A registered process belongs to a dispatch of that job that has not settled.
TableInv ==
    \A j \in Jobs : processes[j] # Nobody =>
        job[processes[j]] = j /\ pc[processes[j]] \in {"poll", "join", "cleanup"}

\* No worker lives before its dispatch starts it; one at work is waited for; one whose
\* result can be read is not at work; one that outlives the wait does so after an error.
\* A success is decided when the worker has exited.
WorkerInv ==
    \A d \in Dispatchers :
        /\ pc[d] \in {"acquire", "setup"} => proc[d] = "none"
        /\ d \in mail => proc[d] \notin {"none", "running"}
        /\ proc[d] = "running" => pc[d] \in {"register", "poll"}
        /\ pc[d] \in {"cleanup", "release", "done"} /\ Alive(d) => outcome[d] = "error"
        /\ outcome[d] = "ok" => proc[d] = "exited" /\ pc[d] \in {"cleanup", "release", "done"}

Inv == TypeOK /\ SlotInv /\ TableInv /\ WorkerInv

-----------------------------------------------------------------------------
LEMMA InitHolds == Init => Inv
<1> SUFFICES ASSUME Init PROVE Inv
    OBVIOUS
<1>1. TypeOK
    BY DEF Init, TypeOK
<1>2. SlotInv
    BY FS_EmptySet DEF Init, SlotInv, Holds, InFlight
<1>3. TableInv /\ WorkerInv
    BY DEF Init, TableInv, WorkerInv, Alive
<1> QED BY <1>1, <1>2, <1>3 DEF Inv

-----------------------------------------------------------------------------
(* A step that keeps the holders of the slots keeps SlotInv. *)

LEMMA SameHolders ==
    ASSUME SlotInv, UNCHANGED <<active, job>>,
           \A d \in Dispatchers : (pc'[d] \in InFlight <=> pc[d] \in InFlight)
                                  /\ (outcome'[d] = "unmade" <=> outcome[d] = "unmade")
                                  /\ (outcome[d] = "unmade" => pc'[d] = "done")
    PROVE  SlotInv'
<1>1. \A d \in Dispatchers : Holds(d)' <=> Holds(d)
    BY DEF Holds
<1> QED BY <1>1 DEF SlotInv

\* A dispatch in flight that goes on, ends its wait or fails.
Going(d) ==
    \/ StartProcess(d) \/ Timeout(d) \/ Receive(d) \/ ReceiveFails(d) \/ SeeCancel(d) \/ SeeExit(d) \/ Join(d)

LEMMA GoingHolds == ASSUME Inv, NEW d \in Dispatchers, Going(d) PROVE Inv'
<1> USE DEF Inv
<1>u. UNCHANGED <<active, closed, processes, cancelled, job, cpc, victim>>
    BY DEF Going, StartProcess, Timeout, Receive, ReceiveFails, SeeCancel, SeeExit, Join,
           tables, cancels
<1>1. TypeOK'
    BY DEF Going, StartProcess, Timeout, Receive, ReceiveFails, SeeCancel, SeeExit, Join, Goto,
           End, Stop, TypeOK, InFlight, tables, workers, cancels
<1>2. SlotInv'
    <2>1. /\ pc[d] \in InFlight /\ outcome[d] # "unmade" /\ outcome'[d] # "unmade"
          /\ pc'[d] \in InFlight
          /\ \A e \in Dispatchers \ {d} : pc'[e] = pc[e] /\ outcome'[e] = outcome[e]
        BY DEF Going, StartProcess, Timeout, Receive, ReceiveFails, SeeCancel, SeeExit, Join,
               Goto, End, TypeOK, SlotInv, InFlight
    <2> QED BY <2>1, <1>u, SameHolders DEF SlotInv
<1>3. TableInv'
    <2>1. \A e \in Dispatchers : pc[e] \in {"poll", "join", "cleanup"} =>
             pc'[e] \in {"poll", "join", "cleanup"}
        BY DEF Going, StartProcess, Timeout, Receive, ReceiveFails, SeeCancel, SeeExit, Join,
               Goto, TypeOK
    <2> QED BY <2>1, <1>u DEF TableInv, TypeOK
<1>4. WorkerInv'
    <2>1. \A e \in Dispatchers \ {d} : /\ pc'[e] = pc[e] /\ proc'[e] = proc[e]
                                      /\ outcome'[e] = outcome[e] /\ (e \in mail' => e \in mail)
        BY DEF Going, StartProcess, Timeout, Receive, ReceiveFails, SeeCancel, SeeExit, Join, Goto,
               End, Stop, TypeOK, workers
    <2>a. pc[d] \in {"setup", "poll", "join"} /\ (d \in mail' => d \in mail)
        BY DEF Going, StartProcess, Timeout, Receive, ReceiveFails, SeeCancel, SeeExit, Join,
               workers
    <2>b. pc'[d] \notin {"acquire", "setup"}
        BY DEF Going, StartProcess, Timeout, Receive, ReceiveFails, SeeCancel, SeeExit, Join, Goto,
               TypeOK
    <2>c. proc'[d] = "running" => pc'[d] = "register"
        BY DEF Going, StartProcess, Timeout, Receive, ReceiveFails, SeeCancel, SeeExit, Join, Goto,
               Stop, Alive, TypeOK, WorkerInv, workers
    <2>d. d \in mail' => proc'[d] \notin {"none", "running"}
        BY DEF Going, StartProcess, Timeout, Receive, ReceiveFails, SeeCancel, SeeExit, Join, Goto,
               Stop, Alive, TypeOK, WorkerInv, workers
    <2>3. pc'[d] \in {"cleanup", "release", "done"} /\ Alive(d)' => outcome'[d] = "error"
        BY DEF Going, StartProcess, Timeout, Receive, ReceiveFails, SeeCancel, SeeExit, Join, Goto,
               End, Stop, Alive, TypeOK, WorkerInv, workers
    <2>4. outcome'[d] = "ok" => proc'[d] = "exited" /\ pc'[d] \in {"cleanup", "release", "done"}
        BY DEF Going, StartProcess, Timeout, Receive, ReceiveFails, SeeCancel, SeeExit, Join, Goto,
               End, Stop, Alive, TypeOK, WorkerInv, workers
    <2> QED BY <2>1, <2>b, <2>c, <2>d, <2>3, <2>4 DEF WorkerInv, Alive
<1> QED BY <1>1, <1>2, <1>3, <1>4

-----------------------------------------------------------------------------
(* Admission, registration and settlement *)

LEMMA AcquireHolds == ASSUME Inv, NEW d \in Dispatchers, Acquire(d) PROVE Inv'
<1> USE DEF Inv
<1>1. TypeOK' /\ WorkerInv'
    BY DEF Acquire, Goto, TypeOK, WorkerInv, Alive, InFlight, workers, cancels
<1>2. SlotInv'
    <2>1. ~Holds(d) /\ Holds(d)' /\ pc'[d] \in InFlight /\ outcome' = outcome /\ job' = job
        BY DEF Acquire, Goto, TypeOK, SlotInv, Holds, InFlight
    <2>2. \A e \in Dispatchers \ {d} : pc'[e] = pc[e] /\ (Holds(e)' <=> Holds(e))
        BY DEF Acquire, Goto, TypeOK, Holds
    <2>3. active' = active \cup {job[d]} /\ job[d] \notin active
        BY DEF Acquire
    <2>4. IsFiniteSet(active')
        BY <2>3, FS_AddElement DEF SlotInv
    <2>5. active' = {job'[e] : e \in {f \in Dispatchers : Holds(f)'}}
        BY <2>1, <2>2, <2>3 DEF SlotInv
    <2>6. \A e \in Dispatchers : Holds(e) => job[e] # job[d]
        BY <2>3 DEF SlotInv
    <2>7. \A e \in Dispatchers : outcome'[e] = "unmade" => pc'[e] = "done"
        BY <2>1, <2>2 DEF Acquire, SlotInv
    <2>8. \A e, f \in Dispatchers :
             pc'[e] \in InFlight /\ Holds(f)' /\ job[e] = job[f] => e = f
        BY <2>1, <2>2, <2>6 DEF SlotInv, Holds
    <2> QED BY <2>1, <2>4, <2>5, <2>7, <2>8 DEF SlotInv
<1>3. TableInv'
    BY DEF Acquire, Goto, TypeOK, TableInv
<1> QED BY <1>1, <1>2, <1>3

LEMMA SetupFailsHolds == ASSUME Inv, NEW d \in Dispatchers, SetupFails(d) PROVE Inv'
<1> USE DEF Inv
<1>1. TypeOK' /\ WorkerInv'
    BY DEF SetupFails, Goto, End, TypeOK, WorkerInv, Alive, InFlight, tables, workers, cancels
<1>2. SlotInv'
    <2>1. /\ Holds(d) /\ Holds(d)' /\ pc'[d] = "done"
          /\ \A e \in Dispatchers \ {d} : pc'[e] = pc[e] /\ outcome'[e] = outcome[e]
          /\ UNCHANGED <<active, job>>
        BY DEF SetupFails, Goto, End, TypeOK, Holds, InFlight, tables
    <2>2. \A e \in Dispatchers : Holds(e)' <=> Holds(e)
        BY <2>1 DEF Holds
    <2> QED BY <2>1, <2>2 DEF SlotInv, InFlight
<1>3. TableInv'
    BY DEF SetupFails, Goto, TypeOK, TableInv, tables
<1> QED BY <1>1, <1>2, <1>3

LEMMA RegisterHolds == ASSUME Inv, NEW d \in Dispatchers, Register(d) PROVE Inv'
<1> USE DEF Inv
<1>1. TypeOK' /\ WorkerInv'
    BY DEF Register, Goto, TypeOK, WorkerInv, Alive, InFlight, workers, cancels
<1>2. SlotInv'
    BY SameHolders DEF Register, Goto, TypeOK, SlotInv, InFlight
<1>3. TableInv'
    BY NobodyAssumption DEF Register, Goto, TypeOK, TableInv
<1> QED BY <1>1, <1>2, <1>3

LEMMA CleanupHolds == ASSUME Inv, NEW d \in Dispatchers, Cleanup(d) PROVE Inv'
<1> USE DEF Inv
<1>1. TypeOK' /\ WorkerInv'
    BY DEF Cleanup, Goto, TypeOK, WorkerInv, Alive, InFlight, workers, cancels
<1>2. SlotInv'
    BY SameHolders DEF Cleanup, Goto, TypeOK, SlotInv, InFlight
<1>3. TableInv'
    <2> SUFFICES ASSUME NEW j \in Jobs, processes'[j] # Nobody
                 PROVE  job'[processes'[j]] = j /\ pc'[processes'[j]] \in {"poll", "join", "cleanup"}
        BY DEF TableInv
    <2>1. j # job[d] /\ processes'[j] = processes[j] /\ job' = job
        BY DEF Cleanup, TypeOK
    <2>2. processes[j] \in Dispatchers /\ processes[j] # d
        BY <2>1 DEF TypeOK, TableInv
    <2> QED BY <2>1, <2>2 DEF Cleanup, Goto, TypeOK, TableInv
<1> QED BY <1>1, <1>2, <1>3

LEMMA ReleaseHolds == ASSUME Inv, NEW d \in Dispatchers, Release(d) PROVE Inv'
<1> USE DEF Inv
<1>1. TypeOK' /\ WorkerInv'
    BY DEF Release, Goto, TypeOK, WorkerInv, Alive, InFlight, workers, cancels
<1>2. SlotInv'
    <2>1. /\ pc[d] \in InFlight /\ Holds(d) /\ ~Holds(d)' /\ pc'[d] = "done"
          /\ outcome' = outcome /\ job' = job
        BY DEF Release, Goto, TypeOK, SlotInv, Holds, InFlight
    <2>2. \A e \in Dispatchers \ {d} : pc'[e] = pc[e] /\ (Holds(e)' <=> Holds(e))
        BY DEF Release, Goto, TypeOK, Holds
    <2>3. \A e \in Dispatchers \ {d} : Holds(e) => job[e] # job[d]
        BY <2>1 DEF SlotInv
    <2>4. active' = active \ {job[d]} /\ IsFiniteSet(active')
        BY FS_RemoveElement DEF Release, SlotInv
    <2>5. active' = {job'[e] : e \in {f \in Dispatchers : Holds(f)'}}
        BY <2>1, <2>2, <2>3, <2>4 DEF SlotInv
    <2>6. \A e, f \in Dispatchers :
             pc'[e] \in InFlight /\ Holds(f)' /\ job[e] = job[f] => e = f
        BY <2>1, <2>2 DEF SlotInv, InFlight
    <2>7. \A e \in Dispatchers : outcome'[e] = "unmade" => pc'[e] = "done"
        BY <2>1, <2>2 DEF SlotInv
    <2> QED BY <2>1, <2>4, <2>5, <2>6, <2>7 DEF SlotInv
<1>3. TableInv'
    BY DEF Release, Goto, TypeOK, TableInv
<1> QED BY <1>1, <1>2, <1>3

LEMMA RefuseHolds == ASSUME Inv, NEW d \in Dispatchers, Refuse(d) PROVE Inv'
<1> USE DEF Inv
<1>1. TypeOK' /\ WorkerInv' /\ TableInv'
    BY DEF Refuse, Goto, End, TypeOK, WorkerInv, Alive, TableInv, InFlight, tables, workers, cancels
<1>2. SlotInv'
    BY SameHolders DEF Refuse, Goto, End, TypeOK, SlotInv, InFlight, tables
<1> QED BY <1>1, <1>2

-----------------------------------------------------------------------------
(* Workers, cancels and close touch no slot. *)

LEMMA OthersHold ==
    ASSUME Inv,
           \/ \E d \in Dispatchers : WorkerStep(d)
           \/ \E c \in Cancellers : CancelStep(c)
           \/ CloseAdmission
    PROVE  Inv'
<1> USE DEF Inv
<1>u. UNCHANGED <<active, processes, calls>>
    BY DEF WorkerStep, SendResult, Raise, Exit, WorkerCrash, CancelStep, Lookup, Terminate,
           CloseAdmission, tables
<1>1. SlotInv' /\ TableInv'
    BY <1>u, SameHolders DEF SlotInv, TableInv, calls
<1>2. TypeOK'
    <2>1. ASSUME NEW d \in Dispatchers, WorkerStep(d) PROVE TypeOK'
        BY <2>1 DEF WorkerStep, SendResult, Raise, Exit, WorkerCrash, TypeOK, tables, calls, cancels
    <2>2. ASSUME NEW c \in Cancellers, Lookup(c) PROVE TypeOK'
        <3>1. job[c] \in Jobs /\ processes[job[c]] \in Dispatchers \cup {Nobody}
            BY DEF TypeOK
        <3> QED BY <2>2, <3>1 DEF Lookup, TypeOK, workers, calls
    <2>3. ASSUME NEW c \in Cancellers, Terminate(c) PROVE TypeOK'
        BY <2>3 DEF Terminate, Stop, Alive, TypeOK, tables, calls
    <2>4. CASE CloseAdmission
        BY <2>4 DEF CloseAdmission, TypeOK, workers, calls, cancels
    <2> QED BY <2>1, <2>2, <2>3, <2>4 DEF CancelStep
<1>3. WorkerInv'
    BY DEF WorkerStep, SendResult, Raise, Exit, WorkerCrash, CancelStep, Lookup, Terminate,
           CloseAdmission, Stop, Alive, TypeOK, WorkerInv, workers, calls
<1> QED BY <1>1, <1>2, <1>3

LEMMA StepHolds == Inv /\ [Next]_vars => Inv'
<1> SUFFICES ASSUME Inv, [Next]_vars PROVE Inv'
    OBVIOUS
<1>1. CASE UNCHANGED vars
    BY <1>1 DEF vars, tables, workers, calls, cancels, Inv, TypeOK, SlotInv, Holds, TableInv,
           WorkerInv, Alive
<1>2. ASSUME NEW d \in Dispatchers, DispatchStep(d) PROVE Inv'
    BY <1>2, GoingHolds, AcquireHolds, SetupFailsHolds, RegisterHolds, CleanupHolds, ReleaseHolds,
       RefuseHolds DEF DispatchStep, Going
<1> QED BY <1>1, <1>2, OthersHold DEF Next

LEMMA InvAlways == Spec => []Inv
BY InitHolds, StepHolds, PTL DEF Spec

\* For any number of calls a job is in flight once, and a slot is held by a job
\* in flight or one whose setup raised, and by no other.
THEOREM SlotsMatch == Spec => []SlotsMatchDispatches
<1>1. Inv => SlotsMatchDispatches
    BY DEF Inv, SlotInv, Holds, SlotsMatchDispatches, Unmade
<1> QED BY <1>1, InvAlways, PTL

\* A dispatch that has ended leaves no worker at work, leaves a process alive only when
\* recv raised, and has used the result of no worker that was stopped, whoever cancelled
\* and whenever.
THEOREM WorkersAreSettled == Spec => []WorkersSettled
<1>1. Inv => WorkersSettled
    BY DEF Inv, WorkerInv, WorkersSettled, Alive
<1> QED BY <1>1, InvAlways, PTL

-----------------------------------------------------------------------------
(* Refinement: cleanup gives back slot and mark at once, as seen by the pool;  *)
(* the release of the slot that follows is a stutter.                          *)

\* Slots as the pool sees them.
Settled == {job[d] : d \in {e \in Dispatchers : pc[e] = "release"}}
Slots == active \ Settled

LEMMA PoolInit == Init => Pool!EmptyPool
BY DEF Init, Pool!EmptyPool

LEMMA PoolCardinality == \A S : Pool!Cardinality(S) = Cardinality(S)
BY DEF Pool!Cardinality, Cardinality

LEMMA AcquireRefines == ASSUME Inv, NEW d \in Dispatchers, Acquire(d) PROVE Pool!PoolNext
<1> USE DEF Inv
<1>1. job[d] \in Jobs /\ job[d] \notin active /\ cancelled' = cancelled
    BY DEF Acquire, TypeOK
<1>2. Settled' = Settled
    BY DEF Acquire, Goto, TypeOK, Settled
<1>3. job[d] \notin Settled
    BY <1>1 DEF Settled, SlotInv, Holds, InFlight
<1>4. Slots' = Slots \cup {job[d]}
    BY <1>2, <1>3 DEF Acquire, Slots
<1>5. Cardinality(Slots) < Capacity
    <2>1. Slots \in SUBSET active
        BY DEF Slots
    <2>2. Cardinality(Slots) <= Cardinality(active)
        BY <2>1, FS_Subset DEF SlotInv
    <2>3. Cardinality(Slots) \in Nat /\ Cardinality(active) \in Nat
        BY <2>1, FS_Subset, FS_CardinalityType DEF SlotInv
    <2> QED BY <2>2, <2>3, CapacityAssumption DEF Acquire
<1>6. \E j \in Jobs : Pool!Admit(j)
    BY <1>1, <1>3, <1>4, <1>5, PoolCardinality DEF Pool!Admit, Pool!Admissible, Slots, Settled
<1> QED BY <1>6 DEF Pool!PoolNext

LEMMA CleanupRefines == ASSUME Inv, NEW d \in Dispatchers, Cleanup(d) PROVE Pool!PoolNext
<1> USE DEF Inv
<1>1. job[d] \in Jobs /\ active' = active /\ cancelled' = cancelled \ {job[d]} /\ job' = job
    BY DEF Cleanup, TypeOK
<1>2. \A e \in Dispatchers : pc'[e] = "release" <=> pc[e] = "release" \/ e = d
    BY DEF Cleanup, Goto, TypeOK
<1>3. Slots' = Slots \ {job[d]}
    BY <1>1, <1>2 DEF Slots, Settled
<1>4. job[d] \in Slots
    <2>1. job[d] \in active
        BY DEF Cleanup, SlotInv, Holds, InFlight
    <2>2. \A e \in Dispatchers : pc[e] = "release" => job[e] # job[d]
        BY DEF Cleanup, SlotInv, Holds, InFlight
    <2> QED BY <2>1, <2>2 DEF Slots, Settled
<1>5. \E j \in Jobs : Pool!Settle(j)
    BY <1>1, <1>3, <1>4 DEF Pool!Settle, Slots, Settled
<1> QED BY <1>5 DEF Pool!PoolNext

LEMMA LookupRefines == ASSUME Inv, NEW c \in Cancellers, Lookup(c) PROVE [Pool!PoolNext]_(Pool!poolVars)
<1> USE DEF Inv
<1>1. job[c] \in Jobs /\ UNCHANGED <<active, pc, job>>
    BY DEF Lookup, TypeOK, calls
<1>2. Slots' = Slots
    BY <1>1 DEF Slots, Settled
<1>3. CASE processes[job[c]] = Nobody
    BY <1>2, <1>3 DEF Lookup, Pool!poolVars, Slots, Settled
<1>4. CASE processes[job[c]] # Nobody
    <2> DEFINE d == processes[job[c]]
    <2>1. d \in Dispatchers /\ job[d] = job[c] /\ pc[d] \in {"poll", "join", "cleanup"}
        BY <1>1, <1>4 DEF TypeOK, TableInv
    <2>2. job[c] \in Slots
        BY <2>1 DEF SlotInv, Holds, InFlight, Slots, Settled
    <2>3. Pool!Doom(job[c])
        BY <1>2, <1>4, <2>2 DEF Lookup, Pool!Doom, Slots, Settled
    <2> QED BY <1>1, <2>3 DEF Pool!PoolNext
<1> QED BY <1>3, <1>4

LEMMA ReleaseRefines == ASSUME Inv, NEW d \in Dispatchers, Release(d) PROVE UNCHANGED Pool!poolVars
<1> USE DEF Inv
<1>1. \A e \in Dispatchers : pc'[e] = "release" <=> pc[e] = "release" /\ e # d
    BY DEF Release, Goto, TypeOK
<1>2. Slots' = Slots
    BY <1>1 DEF Release, Slots, Settled
<1> QED BY <1>2 DEF Release, Pool!poolVars, Slots, Settled

\* Every other step leaves slots, marks and the set of settled dispatches alone.
LEMMA OtherRefines ==
    ASSUME Inv,
           \/ \E d \in Dispatchers :
                 Going(d) \/ SetupFails(d) \/ Register(d) \/ Refuse(d) \/ WorkerStep(d)
           \/ \E c \in Cancellers : Terminate(c)
           \/ CloseAdmission
    PROVE  UNCHANGED Pool!poolVars
<1> USE DEF Inv
<1>1. UNCHANGED <<active, cancelled, job>>
    BY DEF Going, StartProcess, Timeout, Receive, ReceiveFails, SeeCancel, SeeExit, Join,
           SetupFails, Register, Refuse, WorkerStep, SendResult, Raise, Exit, WorkerCrash,
           Terminate, CloseAdmission, tables, calls
<1>2. \A e \in Dispatchers : pc'[e] = "release" <=> pc[e] = "release"
    BY DEF Going, StartProcess, Timeout, Receive, ReceiveFails, SeeCancel, SeeExit, Join,
           SetupFails, Register, Refuse, WorkerStep, SendResult, Raise, Exit, WorkerCrash,
           Terminate, CloseAdmission, Goto, TypeOK, calls
<1> QED BY <1>1, <1>2 DEF Pool!poolVars

LEMMA StepRefines == Inv /\ [Next]_vars => [Pool!PoolNext]_(Pool!poolVars)
<1> SUFFICES ASSUME Inv, [Next]_vars PROVE [Pool!PoolNext]_(Pool!poolVars)
    OBVIOUS
<1>1. CASE UNCHANGED vars
    BY <1>1 DEF vars, tables, calls, Pool!poolVars
<1>2. ASSUME NEW d \in Dispatchers, DispatchStep(d) PROVE [Pool!PoolNext]_(Pool!poolVars)
    BY <1>2, AcquireRefines, CleanupRefines, ReleaseRefines, OtherRefines DEF DispatchStep, Going
<1> QED BY <1>1, <1>2, LookupRefines, OtherRefines DEF Next, CancelStep

\* However dispatches, cancels and workers interleave, slots and marks change as
\* those of the pool on which the job service is built: a slot goes to a job that
\* has none while there is room, and slot and mark end together.
THEOREM PoolImplemented == Spec => ImplementsPool
BY PoolInit, StepRefines, InvAlways, PTL DEF Spec, ImplementsPool, Pool!PoolSpec
=============================================================================
