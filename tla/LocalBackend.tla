----------------------------- MODULE LocalBackend -----------------------------
(***************************************************************************)
(* The desktop's backend (tpaa_gui/local_backend.py and its child, tpaa_   *)
(* api/local_backend_child.py): the controller spawns a process, hands it  *)
(* a token over its stdin, waits with deadlines for it to listen and to    *)
(* answer, and ends it by request, signal and kill.  The child may be      *)
(* slow, hang or die between any two steps, and so may the desktop.        *)
(***************************************************************************)
EXTENDS Naturals, Sequences

CONSTANTS
    Ports,   \* TCP ports the child may be given
    Starts   \* bound: how often the backend is started

None == "None"
NoToken == 0  \* tokens are numbered by the start that makes them

ASSUME PortAssumption == None \notin Ports

VARIABLES
    desktop,  \* is the desktop process alive
    call,     \* what the controller's running call does next, "none" between calls
    state,    \* LocalBackendController._state
    failure,  \* _failure_code
    port,     \* _port
    token,    \* _token
    heard,    \* what /readiness answered
    reply,    \* how the last request ended
    spawned,  \* children spawned so far
    strays,   \* children alive that no controller knows any more
    child     \* the process of the controller

control == <<call, state, failure, port, token, heard, reply>>
processes == <<desktop, spawned, strays, child>>
vars == <<processes, control>>

\* The child: how far it is, what it was told, what its stdin and stdout hold,
\* and whether it was sent SIGTERM.
Newborn == [life |-> "booting", port |-> None, token |-> NoToken,
            stdin |-> <<>>, stdout |-> <<>>, term |-> FALSE]
Unborn == [Newborn EXCEPT !.life = "none"]
Alive == child.life \in {"booting", "serving", "draining", "hung"}

Init ==
    /\ desktop = TRUE
    /\ call = "none"
    /\ state = "STOPPED"
    /\ failure = None /\ port = None /\ token = NoToken
    /\ heard = None /\ reply = None
    /\ spawned = 0
    /\ strays = 0
    /\ child = Unborn

-----------------------------------------------------------------------------
(* start *)

\* The running call goes on to c in state s; what it does not name stays.
Goto(c, s) ==
    /\ desktop
    /\ call' = c
    /\ state' = s

\* Any exception of start: the code is kept, and shutdown is called.
Failed(code) ==
    /\ Goto("stop", "NOT_READY")
    /\ failure' = code
    /\ UNCHANGED <<processes, port, token, heard, reply>>

\* Mutant of Running: start does not look at the process it has.
RunningUnseen == FALSE

\* A process that poll() does not report as ended.
Running == Alive

\* Popen succeeds, or it fails and leaves the old process and state.
Start ==
    /\ call = "none" /\ ~Running /\ spawned < Starts
    /\ failure' = None
    /\ port' = None
    /\ token' = spawned + 1
    /\ spawned' = spawned + 1
    /\ UNCHANGED <<desktop, heard, reply>>
    /\ \/ /\ Goto("send", "SPAWNED")
          /\ child' = Newborn
          /\ strays' = strays + (IF Alive THEN 1 ELSE 0)
       \/ Goto("none", state) /\ UNCHANGED <<child, strays>>

Send(type, secret) ==
    [child EXCEPT !.stdin = Append(@, [type |-> type, token |-> secret])]

SendStart ==
    /\ call = "send"
    /\ \/ /\ Alive
          /\ Goto("listen", "CONFIG_SENT")
          /\ child' = Send("START", token)
          /\ UNCHANGED <<desktop, spawned, strays, failure, port, token, heard, reply>>
       \/ ~Alive /\ Failed("CONTROL_CHANNEL_CLOSED")

Accepted(record) == record.type = "LISTENING"

\* One line of the child's stdout, before the deadline.
ReadListening ==
    /\ call = "listen"
    /\ \/ /\ child.stdout # <<>>
          /\ LET record == Head(child.stdout)
             IN  \/ /\ Accepted(record)
                    /\ Goto("readiness", "HTTP_HANDSHAKE")
                    /\ port' = record.port
                    /\ UNCHANGED <<processes, failure, token, heard, reply>>
                 \/ ~Accepted(record) /\ Failed("INVALID_LISTENING_RECORD")
       \/ ~Alive /\ child.stdout = <<>> /\ Failed("CONTROL_CHANNEL_CLOSED")
       \/ Alive /\ child.stdout = <<>> /\ Failed("STARTUP_TIMEOUT")

\* What a request to the port can end with while the child is as it is now: a
\* child that serves may be slow, and knows its own token only.
Answers ==
    {"timeout"} \cup
    IF child.life # "serving" \/ child.port # port THEN {}
    ELSE IF child.token = token THEN {"ok", "bad"} ELSE {"unauthorized"}

\* _get_json: polls until the deadline, gives up on a dead child.
GetReadiness ==
    /\ call = "readiness"
    /\ \/ /\ heard' \in Answers \ {"timeout"}
          /\ Goto("version", state)
          /\ UNCHANGED <<processes, failure, port, token, reply>>
       \/ Alive /\ Failed("HTTP_HANDSHAKE_TIMEOUT")
       \/ ~Alive /\ Failed("BACKEND_EXITED")

\* Both answers are judged together; start returns the status, which polls.
GetVersion ==
    /\ call = "version"
    /\ \/ /\ "ok" \in Answers /\ heard = "ok"
          /\ Goto("return", "READY")
          /\ UNCHANGED <<processes, failure, port, token, heard, reply>>
       \/ heard # "ok" /\ Failed("READINESS_NOT_READY")
       \/ Alive /\ Failed("VERSION_HANDSHAKE_FAILED")
       \/ ~Alive /\ Failed("BACKEND_EXITED")

-----------------------------------------------------------------------------
(* status and request_json *)

\* Mutant of Observed: the process is not polled.
ObservedUnpolled == state

\* The state after status has polled the process.
Observed ==
    IF child.life = "dead" /\ state \notin {"EXITED", "STOPPED"} THEN "NOT_READY" ELSE state

Look(c) ==
    /\ Goto(c, Observed)
    /\ failure' = IF Observed # state THEN "BACKEND_EXITED" ELSE failure
    /\ UNCHANGED <<processes, port, token, heard>>

\* The GUI asks for the status, or start returns it.
Status ==
    /\ call \in {"none", "return"}
    /\ Look("none")
    /\ UNCHANGED reply

\* A request is admitted by the status and sent after it.
Request ==
    /\ call = "none"
    /\ \/ Observed = "READY" /\ Look("request") /\ reply' = None
       \/ Observed # "READY" /\ Look("none") /\ reply' = "BACKEND_NOT_READY"

Answer ==
    /\ call = "request"
    /\ Goto("none", state)
    /\ reply' \in Answers
    /\ UNCHANGED <<processes, failure, port, token, heard>>

-----------------------------------------------------------------------------
(* shutdown *)

Exited ==
    /\ Goto("none", "EXITED")
    /\ port' = None
    /\ token' = NoToken
    /\ UNCHANGED <<failure, heard, reply, desktop, spawned, strays>>

\* A child that is gone is not written to.
Shutdown ==
    /\ call \in {"none", "stop"}
    /\ \/ ~Alive /\ Exited /\ UNCHANGED child
       \/ /\ Alive
          /\ Goto("graceful", "SHUTDOWN_SENT")
          /\ child' = Send("SHUTDOWN", NoToken)
          /\ UNCHANGED <<desktop, spawned, strays, failure, port, token, heard, reply>>

\* Mutant of WaitGraceful: the wait has no deadline.
WaitForever == call = "graceful" /\ ~Alive /\ Exited /\ UNCHANGED child

\* The child ends within five seconds or is sent SIGTERM.
WaitGraceful ==
    /\ call = "graceful"
    /\ \/ ~Alive /\ Exited /\ UNCHANGED child
       \/ /\ Alive
          /\ Goto("terminated", state)
          /\ child' = [child EXCEPT !.term = TRUE]
          /\ UNCHANGED <<desktop, spawned, strays, failure, port, token, heard, reply>>

\* Mutant of WaitTerminated: a child that ignores the signal is left.
WaitTerminatedOnly == call = "terminated" /\ Exited /\ UNCHANGED child

\* It ends within two seconds more or is killed and waited for.
WaitTerminated ==
    /\ call = "terminated"
    /\ Exited
    /\ child' = [child EXCEPT !.life = "dead"]

-----------------------------------------------------------------------------
(* the child *)

Change(c) ==
    /\ child' = c
    /\ UNCHANGED <<control, desktop, spawned, strays>>

Dies == Change([child EXCEPT !.life = "dead"])
Told(type) == child.stdin # <<>> /\ Head(child.stdin).type = type
StdinClosed == ~desktop /\ child.stdin = <<>>

\* START is read, a port bound, LISTENING written; something else may have been
\* printed before it.  Nobody reads the stdout of an orphan: the write fails.
Boot ==
    /\ child.life = "booting"
    /\ \/ /\ Told("START") /\ desktop
          /\ \E p \in Ports, other \in {<<>>, <<[type |-> "OTHER", port |-> "?"]>>} :
                Change([child EXCEPT !.life = "serving", !.port = p,
                                     !.token = Head(child.stdin).token,
                                     !.stdin = Tail(@),
                                     !.stdout = other \o <<[type |-> "LISTENING", port |-> p]>>])
       \/ StdinClosed /\ Dies
       \/ Told("START") /\ ~desktop /\ Dies

\* Mutant of ReadControl: a closed stdin is read again.
ReadControlOpen ==
    /\ child.life = "serving" /\ Told("SHUTDOWN")
    /\ Change([child EXCEPT !.life = "draining", !.stdin = Tail(@)])

\* SHUTDOWN lets the server finish; a closed stdin ends the loop.
ReadControl ==
    /\ child.life = "serving"
    /\ \/ Told("SHUTDOWN") /\ Change([child EXCEPT !.life = "draining", !.stdin = Tail(@)])
       \/ StdinClosed /\ Dies

\* The server is joined for 4.5 seconds, done or not.
Drain == child.life = "draining" /\ Dies

Obey == child.term /\ Alive /\ Dies

Crash == Alive /\ Dies

Hang == child.life \in {"booting", "serving", "draining"} /\ Change([child EXCEPT !.life = "hung"])

-----------------------------------------------------------------------------
\* The desktop process dies and its end of the pipes is closed.
DesktopDies ==
    /\ desktop
    /\ desktop' = FALSE
    /\ UNCHANGED <<control, spawned, strays, child>>

Proceed ==
    \/ SendStart \/ ReadListening \/ GetReadiness \/ GetVersion
    \/ (call = "return" /\ Status)
    \/ Answer
    \/ (call = "stop" /\ Shutdown)
    \/ WaitGraceful \/ WaitTerminated

Live == Boot \/ ReadControl \/ Drain

Next ==
    \/ Proceed \/ Live
    \/ Start \/ Request
    \/ (call = "none" /\ (Status \/ Shutdown))
    \/ Obey \/ Crash \/ Hang
    \/ DesktopDies

\* Every wait of a call has a deadline; a child that does not hang goes on.
Spec == Init /\ [][Next]_vars /\ WF_vars(Proceed) /\ WF_vars(Live)

-----------------------------------------------------------------------------
(* Properties *)

\* No backend is left behind: once shutdown has returned, also the one a failed
\* start makes, its process is gone, however it hung or when it answered; and no
\* start loses a process that still runs.
NoBackendLeft ==
    /\ call = "none" /\ state = "EXITED" => ~Alive
    /\ strays = 0

\* A request is admitted only to a backend that runs at that moment: a dead one
\* admits none, however long it was called ready.  While a backend called ready runs,
\* over restarts, late answers and ports used again, the port and the token are its
\* own, and no request is refused for its token.
ReadyServes ==
    /\ [](state = "READY" /\ Alive => child.port = port /\ child.token = token /\ port # None)
    /\ [](reply # "unauthorized")
    /\ [][call # "request" /\ call' = "request" =>
             Alive /\ child.port = port /\ child.token = token]_vars

\* Every call of the controller returns, hang or not: each wait has a deadline.
CallsEnd == (call # "none") ~> (call = "none" \/ ~desktop)

\* A child whose desktop has died ends by itself, unless it hangs.
OrphanEnds == (~desktop) ~> (~Alive \/ child.life = "hung")
==============================================================================
