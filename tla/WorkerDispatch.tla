--------------------------- MODULE WorkerDispatch ---------------------------
(***************************************************************************)
(* SpawnWorkerDispatcher: dispatch and cancel with the admission           *)
(* controller, the process table, the cancel flags and the spawned worker  *)
(* processes.  A dispatcher is one call of dispatch, a canceller one call  *)
(* of cancel; a step lies between two acquisitions of a lock or two        *)
(* observations of the process.  SIGTERM is taken to end a worker within   *)
(* the two seconds the code waits for it, and a worker that has begun to   *)
(* send to finish or die: recv has no deadline.                            *)
(***************************************************************************)
EXTENDS Naturals, FiniteSets

CONSTANTS
    Dispatchers,    \* calls of dispatch
    Cancellers,     \* calls of cancel
    Jobs,           \* job ids
    Capacity,       \* max_workers
    Nobody          \* entry of the process table with no process

ASSUME CapacityAssumption == Capacity \in Nat \ {0}
ASSUME NobodyAssumption == Nobody \notin Dispatchers

VARIABLES
    active,     \* admission: job ids holding a slot
    closed,     \* admission: no further job is admitted
    processes,  \* the dispatch whose process is registered for a job
    cancelled,  \* jobs a cancel has flagged
    proc,       \* worker process of each dispatch: at work; its result sent, or raised, with
                \* its end of the pipe closed; gone with code 0, or with another
    mail,       \* dispatches whose pipe holds the worker's result
    pc,         \* what each dispatch does next
    job,        \* the job of a dispatch or of a cancel
    outcome,    \* how a dispatch ended
    cpc,        \* what each cancel does next
    victim      \* dispatch whose process a cancel has taken from the table

tables == <<active, closed, processes, cancelled>>
workers == <<proc, mail>>
calls == <<pc, job, outcome>>
cancels == <<cpc, victim>>
vars == <<tables, workers, calls, cancels>>

Init ==
    /\ active = {}
    /\ closed = FALSE
    /\ processes = [j \in Jobs |-> Nobody]
    /\ cancelled = {}
    /\ proc = [d \in Dispatchers |-> "none"]
    /\ mail = {}
    /\ pc = [d \in Dispatchers |-> "acquire"]
    /\ job \in [Dispatchers \cup Cancellers -> Jobs]
    /\ outcome = [d \in Dispatchers |-> "none"]
    /\ cpc = [c \in Cancellers |-> "lookup"]
    /\ victim = [c \in Cancellers |-> Nobody]

Goto(d, p) == pc' = [pc EXCEPT ![d] = p]
End(d, result) == outcome' = [outcome EXCEPT ![d] = result]

Alive(d) == proc[d] \in {"running", "sent", "raised"}

\* terminate() and join(2.0) on a process that is still alive.
Stop(d) == proc' = [proc EXCEPT ![d] = IF Alive(d) THEN "killed" ELSE @]

-----------------------------------------------------------------------------
(* dispatch *)

Refuse(d) ==
    /\ pc[d] = "acquire"
    /\ closed \/ job[d] \in active \/ Cardinality(active) >= Capacity
    /\ Goto(d, "done") /\ End(d, "refused")
    /\ UNCHANGED <<tables, workers, job, cancels>>

Acquire(d) ==
    /\ pc[d] = "acquire"
    /\ ~closed /\ job[d] \notin active /\ Cardinality(active) < Capacity
    /\ active' = active \cup {job[d]}
    /\ Goto(d, "setup")
    /\ UNCHANGED <<closed, processes, cancelled, workers, job, outcome, cancels>>

\* The pipe and the process object are made before the try block, so an
\* exception here leaves the slot taken.
SetupFails(d) ==
    /\ pc[d] = "setup"
    /\ Goto(d, "done") /\ End(d, "unmade")
    /\ UNCHANGED <<tables, workers, job, cancels>>

StartProcess(d) ==
    /\ pc[d] = "setup"
    /\ \/ proc' = [proc EXCEPT ![d] = "running"] /\ Goto(d, "register") /\ UNCHANGED outcome
       \/ UNCHANGED proc /\ Goto(d, "cleanup") /\ End(d, "error")
    /\ UNCHANGED <<tables, mail, job, cancels>>

Register(d) ==
    /\ pc[d] = "register"
    /\ processes' = [processes EXCEPT ![job[d]] = d]
    /\ Goto(d, "poll")
    /\ UNCHANGED <<active, closed, cancelled, workers, job, outcome, cancels>>

\* Mutants of Timeout: the worker is left running; the function returns before
\* the finally block; the deadline is not looked at while the worker is alive.
TimeoutKeepsWorker(d) ==
    /\ pc[d] = "poll"
    /\ End(d, "timeout") /\ Goto(d, "cleanup")
    /\ UNCHANGED <<tables, workers, job, cancels>>

TimeoutSkipsCleanup(d) ==
    /\ pc[d] = "poll"
    /\ Stop(d) /\ End(d, "timeout") /\ Goto(d, "done")
    /\ UNCHANGED <<tables, mail, job, cancels>>

TimeoutIfDead(d) ==
    /\ pc[d] = "poll"
    /\ ~Alive(d)
    /\ Stop(d) /\ End(d, "timeout") /\ Goto(d, "cleanup")
    /\ UNCHANGED <<tables, mail, job, cancels>>

\* The deadline is looked at before the pipe: a result that arrives at the
\* deadline is dropped.
Timeout(d) ==
    /\ pc[d] = "poll"
    /\ Stop(d) /\ End(d, "timeout") /\ Goto(d, "cleanup")
    /\ UNCHANGED <<tables, mail, job, cancels>>

Receive(d) ==
    /\ pc[d] = "poll"
    /\ d \in mail
    /\ mail' = mail \ {d}
    /\ Goto(d, "join")
    /\ UNCHANGED <<tables, proc, job, outcome, cancels>>

\* recv raises: what was sent does not unpickle, or the worker has closed its end
\* of the pipe without a result and may yet be alive; nobody stops or awaits it.
ReceiveFails(d) ==
    /\ pc[d] = "poll"
    /\ d \in mail \/ proc[d] \in {"raised", "killed"}
    /\ mail' = mail \ {d}
    /\ End(d, "error") /\ Goto(d, "cleanup")
    /\ UNCHANGED <<tables, proc, job, cancels>>

SeeCancel(d) ==
    /\ pc[d] = "poll"
    /\ job[d] \in cancelled
    /\ Stop(d) /\ End(d, "cancelled") /\ Goto(d, "cleanup")
    /\ UNCHANGED <<tables, mail, job, cancels>>

\* The process is seen dead with nothing in the pipe.
SeeExit(d) ==
    /\ pc[d] = "poll"
    /\ proc[d] = "killed" /\ d \notin mail
    /\ End(d, "error") /\ Goto(d, "cleanup")
    /\ UNCHANGED <<tables, workers, job, cancels>>

\* Mutant of Join: the exit code is not looked at.
JoinAnyExit(d) ==
    /\ pc[d] = "join"
    /\ Stop(d)
    /\ End(d, "ok")
    /\ Goto(d, "cleanup")
    /\ UNCHANGED <<tables, mail, job, cancels>>

\* A result counts only if its process then exits by itself with code 0 and
\* the result names this dispatch.
Join(d) ==
    /\ pc[d] = "join"
    /\ Stop(d)
    /\ \/ proc[d] = "exited" /\ End(d, "ok")
       \/ End(d, "error")
    /\ Goto(d, "cleanup")
    /\ UNCHANGED <<tables, mail, job, cancels>>

\* Mutant of Cleanup: the cancel flag of the job is not reset.
CleanupKeepsFlag(d) ==
    /\ pc[d] = "cleanup"
    /\ processes' = [processes EXCEPT ![job[d]] = Nobody]
    /\ Goto(d, "release")
    /\ UNCHANGED <<active, closed, cancelled, workers, job, outcome, cancels>>

Cleanup(d) ==
    /\ pc[d] = "cleanup"
    /\ processes' = [processes EXCEPT ![job[d]] = Nobody]
    /\ cancelled' = cancelled \ {job[d]}
    /\ Goto(d, "release")
    /\ UNCHANGED <<active, closed, workers, job, outcome, cancels>>

Release(d) ==
    /\ pc[d] = "release"
    /\ active' = active \ {job[d]}
    /\ Goto(d, "done")
    /\ UNCHANGED <<closed, processes, cancelled, workers, job, outcome, cancels>>

-----------------------------------------------------------------------------
(* the worker process *)

SendResult(d) ==
    /\ proc[d] = "running"
    /\ proc' = [proc EXCEPT ![d] = "sent"]
    /\ mail' = mail \cup {d}
    /\ UNCHANGED <<tables, calls, cancels>>

\* The command or the send raises: the finally block closes the pipe.
Raise(d) ==
    /\ proc[d] = "running"
    /\ proc' = [proc EXCEPT ![d] = "raised"]
    /\ UNCHANGED <<tables, mail, calls, cancels>>

Exit(d) ==
    /\ proc[d] = "sent"
    /\ proc' = [proc EXCEPT ![d] = "exited"]
    /\ UNCHANGED <<tables, mail, calls, cancels>>

\* The exit after an exception, or a crash at any point.
WorkerCrash(d) ==
    /\ Alive(d)
    /\ proc' = [proc EXCEPT ![d] = "killed"]
    /\ UNCHANGED <<tables, mail, calls, cancels>>

-----------------------------------------------------------------------------
(* cancel and close *)

Lookup(c) ==
    /\ cpc[c] = "lookup"
    /\ IF processes[job[c]] = Nobody
       THEN /\ cpc' = [cpc EXCEPT ![c] = "done"]
            /\ UNCHANGED <<cancelled, victim>>
       ELSE /\ cancelled' = cancelled \cup {job[c]}
            /\ victim' = [victim EXCEPT ![c] = processes[job[c]]]
            /\ cpc' = [cpc EXCEPT ![c] = "terminate"]
    /\ UNCHANGED <<active, closed, processes, workers, calls>>

Terminate(c) ==
    /\ cpc[c] = "terminate"
    /\ Stop(victim[c])
    /\ cpc' = [cpc EXCEPT ![c] = "done"]
    /\ UNCHANGED <<tables, mail, calls, victim>>

CloseAdmission ==
    /\ ~closed
    /\ closed' = TRUE
    /\ UNCHANGED <<active, processes, cancelled, workers, calls, cancels>>

DispatchStep(d) ==
    \/ Refuse(d) \/ Acquire(d) \/ SetupFails(d) \/ StartProcess(d) \/ Register(d)
    \/ Timeout(d) \/ Receive(d) \/ ReceiveFails(d) \/ SeeCancel(d) \/ SeeExit(d)
    \/ Join(d) \/ Cleanup(d) \/ Release(d)
WorkerStep(d) == SendResult(d) \/ Raise(d) \/ Exit(d) \/ WorkerCrash(d)
CancelStep(c) == Lookup(c) \/ Terminate(c)

Next ==
    \/ \E d \in Dispatchers : DispatchStep(d) \/ WorkerStep(d)
    \/ \E c \in Cancellers : CancelStep(c)
    \/ CloseAdmission

\* The thread of an admitted dispatch runs on and its deadline passes; a worker
\* need not make progress, and nobody need call dispatch, cancel or close.
Spec == Init /\ [][Next]_vars
FairSpec == Spec /\ \A d \in Dispatchers : WF_vars(pc[d] # "acquire" /\ DispatchStep(d))

-----------------------------------------------------------------------------
(* Properties *)

InFlight == {"setup", "register", "poll", "join", "cleanup", "release"}

\* Types of the admission, the process table and the calls.
TypeOK ==
    /\ active \in SUBSET Jobs
    /\ closed \in BOOLEAN
    /\ processes \in [Jobs -> Dispatchers \cup {Nobody}]
    /\ cancelled \in SUBSET Jobs
    /\ proc \in [Dispatchers -> {"none", "running", "sent", "raised", "exited", "killed"}]
    /\ mail \in SUBSET Dispatchers
    /\ pc \in [Dispatchers -> {"acquire", "done"} \cup InFlight]
    /\ job \in [Dispatchers \cup Cancellers -> Jobs]
    /\ outcome \in [Dispatchers -> {"none", "refused", "unmade", "error", "timeout",
                               "cancelled", "ok"}]
    /\ cpc \in [Cancellers -> {"lookup", "terminate", "done"}]
    /\ victim \in [Cancellers -> Dispatchers \cup {Nobody}]
    /\ \A c \in Cancellers : cpc[c] = "terminate" => victim[c] \in Dispatchers

\* A job is in flight in at most one dispatch, and the jobs that hold a slot are
\* exactly those in flight and those whose setup, before the try block, raised:
\* every other way a dispatch can end gives its slot back.
Unmade == {d \in Dispatchers : outcome[d] = "unmade"}
SlotsMatchDispatches ==
    /\ TypeOK
    /\ active = {job[d] : d \in {e \in Dispatchers : pc[e] \in InFlight} \cup Unmade}
    /\ \A d, e \in Dispatchers :
          pc[d] \in InFlight /\ pc[e] \in InFlight /\ job[d] = job[e] => d = e

\* A dispatch that has ended leaves no worker at work.  A process outlives its
\* dispatch only after an error, when recv raised: it has closed its pipe and has
\* nothing left to do.  A dispatch succeeds only with a worker that exited by itself:
\* the result of one that was stopped, by whomever and however late, is never used.
WorkersSettled ==
    \A d \in Dispatchers :
        /\ pc[d] \in {"release", "done"} /\ Alive(d) =>
              proc[d] # "running" /\ outcome[d] = "error"
        /\ outcome[d] = "ok" => proc[d] = "exited"

\* Slots, flags and settling follow the pool the job service is built on.
Pool == INSTANCE WorkerPool WITH
            active <- active \ {job[d] : d \in {e \in Dispatchers : pc[e] = "release"}},
            doomed <- cancelled
ImplementsPool == Pool!PoolSpec

\* Every admitted dispatch ends, whatever its worker does.
DispatchEnds == \A d \in Dispatchers : pc[d] = "setup" ~> pc[d] = "done"
=============================================================================
