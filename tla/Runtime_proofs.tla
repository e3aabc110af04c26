---------------------------- MODULE Runtime_proofs ----------------------------
(***************************************************************************)
(* Proofs about the two components of the runtime that hold processes and  *)
(* directories rather than records.  LocalBackend, for any number of ports *)
(* and of starts: no backend is left behind, and one that is called ready  *)
(* is the one that runs.  BackupRestore, for any set of objects and any    *)
(* number of attempts: a backup of a running system resolves, and a        *)
(* restore is all or nothing.                                              *)
(***************************************************************************)
EXTENDS LocalBackend, BackupRestore, SequenceTheorems, TLAPS

-----------------------------------------------------------------------------
(* LocalBackend. *)

Messages == [type : {"START", "SHUTDOWN"}, token : Nat]
Lines == [type : {"LISTENING"}, port : Ports] \cup [type : {"OTHER"}, port : {"?"}]
Children == [life : {"none", "booting", "serving", "draining", "hung", "dead"},
             port : Ports \cup {None}, token : Nat, stdin : Seq(Messages), stdout : Seq(Lines),
             term : BOOLEAN]

TypeInv ==
    /\ desktop \in BOOLEAN
    /\ port \in Ports \cup {None}
    /\ token \in Nat
    /\ spawned \in Nat
    /\ strays = 0
    /\ child \in Children

\* What the controller has told the child that runs, and what that tells it, is
\* of this start: its token and the port the child has bound.
ChildInv ==
    Alive =>
        /\ \A i \in 1 .. Len(child.stdin) :
              child.stdin[i].type = "START" => child.stdin[i].token = token
        /\ \A i \in 1 .. Len(child.stdout) :
              child.stdout[i].type = "LISTENING" => child.stdout[i].port = child.port
        /\ child.life = "booting" => child.port = None /\ child.stdout = <<>>
        /\ child.port # None => child.token = token
        /\ child.life = "serving" => child.port # None

\* What the controller says of the child.
StateInv ==
    /\ state = "EXITED" => ~Alive
    /\ state = "READY" => child.life # "none"
    /\ state = "READY" /\ Alive => child.port = port /\ port # None
    /\ reply # "unauthorized"

Inv == TypeInv /\ ChildInv /\ StateInv

-----------------------------------------------------------------------------
(* Answers and states *)

LEMMA UnbornChild == Unborn \in Children /\ Newborn \in Children
<1>1. <<>> \in Seq(Messages) /\ <<>> \in Seq(Lines)
    OBVIOUS
<1>2. Newborn \in Children
    BY <1>1 DEF Newborn, Children, NoToken
<1>3. Unborn \in Children
    BY <1>2 DEF Unborn, Children
<1> QED BY <1>2, <1>3

\* Only a child that serves on the port and knows the token answers well, and
\* none that this controller has started refuses it.
LEMMA AnswersOfChild ==
    ASSUME Inv
    PROVE  /\ "ok" \in Answers => child.life = "serving" /\ child.port = port /\ child.token = token
           /\ "unauthorized" \notin Answers
<1>1. CASE child.life # "serving" \/ child.port # port
    <2>1. Answers = {"timeout"}
        BY <1>1 DEF Answers
    <2> QED BY <2>1
<1>2. CASE child.life = "serving" /\ child.port = port
    <2>1. child.token = token
        BY <1>2 DEF Inv, ChildInv, Alive
    <2>2. Answers = {"timeout", "ok", "bad"}
        BY <1>2, <2>1 DEF Answers
    <2> QED BY <1>2, <2>1, <2>2
<1> QED BY <1>1, <1>2

\* A step that leaves the child, the port and the token alone and does not go to
\* READY or EXITED.
LEMMA Quiet ==
    ASSUME Inv, desktop' \in BOOLEAN, UNCHANGED <<spawned, strays, child, port, token>>,
           state' \in {state} \/ state' \notin {"READY", "EXITED"},
           reply' = reply \/ reply' # "unauthorized"
    PROVE  Inv'
<1>1. Alive' <=> Alive
    BY DEF Alive
<1> QED BY <1>1 DEF Inv, TypeInv, ChildInv, StateInv

\* The running call ends with the process gone.
LEMMA ExitHolds ==
    ASSUME Inv, Exited,
           \/ child' = child /\ ~Alive
           \/ child' = [child EXCEPT !.life = "dead"]
    PROVE  Inv'
<1>1. child' \in Children /\ ~Alive'
    BY DEF Inv, TypeInv, Children, Alive
<1> QED BY <1>1 DEF Inv, TypeInv, ChildInv, StateInv, Exited, Goto, NoToken

-----------------------------------------------------------------------------
(* The controller *)

LEMMA StartHolds == ASSUME Inv, Start PROVE Inv'
<1> USE DEF Inv
<1>1. ~Alive /\ token' \in Nat /\ spawned' \in Nat /\ port' = None /\ UNCHANGED <<desktop, reply>>
    BY DEF Start, Running, TypeInv
<1>2. CASE child' = Newborn
    <2>1. strays' = 0 /\ state' = "SPAWNED"
        BY <1>1, <1>2 DEF Start, TypeInv, Goto, Newborn, Alive
    <2> QED BY <1>1, <1>2, <2>1, UnbornChild DEF TypeInv, ChildInv, StateInv, Newborn, NoToken
<1>3. CASE UNCHANGED <<child, strays, state>>
    BY <1>1, <1>3 DEF TypeInv, ChildInv, StateInv, Alive
<1> QED BY <1>2, <1>3 DEF Start, Goto

\* A message to the child is of this start.
LEMMA SendHolds ==
    ASSUME Inv, NEW type \in {"START", "SHUTDOWN"}, NEW secret \in {token, NoToken},
           type = "START" => secret = token,
           child' = Send(type, secret), state' \notin {"READY", "EXITED"},
           UNCHANGED <<desktop, spawned, strays, port, token, reply>>
    PROVE  Inv'
<1> USE DEF Inv
<1> DEFINE m == [type |-> type, token |-> secret]
<1>1. m \in Messages /\ child.stdin \in Seq(Messages)
    BY DEF TypeInv, Messages, Children, NoToken
<1>2. /\ child' \in Children /\ child'.stdin = Append(child.stdin, m)
      /\ child'.life = child.life /\ child'.port = child.port /\ child'.token = child.token
      /\ child'.stdout = child.stdout
    <2>1. child \in Children /\ Append(child.stdin, m) \in Seq(Messages)
        BY <1>1 DEF TypeInv
    <2>2. child' = [child EXCEPT !.stdin = Append(child.stdin, m)]
        BY DEF Send
    <2> QED BY <2>1, <2>2 DEF Children
<1>3. \A i \in 1 .. Len(child'.stdin) :
         \/ i \in 1 .. Len(child.stdin) /\ child'.stdin[i] = child.stdin[i]
         \/ child'.stdin[i] = m
    BY <1>1, <1>2
<1>4. Alive' <=> Alive
    BY <1>2 DEF Alive
<1>5. ChildInv'
    BY <1>2, <1>3, <1>4 DEF ChildInv
<1> QED BY <1>2, <1>4, <1>5 DEF TypeInv, StateInv

LEMMA FailedQuiet == ASSUME Inv, NEW code, Failed(code) PROVE Inv'
BY Quiet DEF Failed, Goto, processes, Inv, TypeInv

LEMMA LookQuiet ==
    ASSUME Inv, NEW c, Look(c), reply' = reply \/ reply' # "unauthorized" PROVE Inv'
BY Quiet DEF Look, Goto, Observed, processes, Inv, TypeInv

LEMMA SendStartHolds == ASSUME Inv, SendStart PROVE Inv'
<1>1. CASE ~Alive
    BY <1>1, FailedQuiet DEF SendStart
<1>2. CASE Alive
    BY <1>2, SendHolds, FailedQuiet DEF SendStart, Goto
<1> QED BY <1>1, <1>2

LEMMA ListenHolds == ASSUME Inv, ReadListening PROVE Inv'
<1> USE DEF Inv
<1>1. CASE \E code : Failed(code)
    BY <1>1, FailedQuiet
<1>2. CASE ~ \E code : Failed(code)
    <2> DEFINE record == Head(child.stdout)
    <2>1. /\ child.stdout # <<>> /\ Accepted(record) /\ port' = record.port
          /\ state' = "HTTP_HANDSHAKE" /\ UNCHANGED <<processes, token, reply>>
        BY <1>2 DEF ReadListening, Goto
    <2>2. child.stdout \in Seq(Lines) /\ record = child.stdout[1] /\ 1 \in 1 .. Len(child.stdout)
        BY <2>1 DEF TypeInv, Children
    <2>3. port' \in Ports
        <3>1. record \in Lines /\ record.type = "LISTENING"
            BY <2>1, <2>2 DEF Accepted
        <3> QED BY <2>1, <3>1 DEF Lines
    <2> QED BY <2>1, <2>3 DEF TypeInv, ChildInv, StateInv, Alive, processes
<1> QED BY <1>1, <1>2

LEMMA ReadinessHolds == ASSUME Inv, GetReadiness PROVE Inv'
<1>1. CASE \E code : Failed(code)
    BY <1>1, FailedQuiet
<1>2. CASE ~ \E code : Failed(code)
    BY <1>2, Quiet DEF GetReadiness, Goto, processes, Inv, TypeInv
<1> QED BY <1>1, <1>2

LEMMA VersionHolds == ASSUME Inv, GetVersion PROVE Inv'
<1> USE DEF Inv
<1>1. CASE \E code : Failed(code)
    BY <1>1, FailedQuiet
<1>2. CASE ~ \E code : Failed(code)
    <2>1. "ok" \in Answers /\ UNCHANGED <<processes, port, token, reply>> /\ state' = "READY"
        BY <1>2 DEF GetVersion, Goto
    <2>2. child.life = "serving" /\ child.port = port /\ child.token = token
        BY <2>1, AnswersOfChild
    <2> QED BY <2>1, <2>2 DEF TypeInv, ChildInv, StateInv, Alive, processes
<1> QED BY <1>1, <1>2

LEMMA GuiHolds == ASSUME Inv, Status \/ Request \/ Answer PROVE Inv'
<1>1. CASE Status
    BY <1>1, LookQuiet DEF Status
<1>2. CASE Request
    BY <1>2, LookQuiet DEF Request, None
<1>3. CASE Answer
    BY <1>3, Quiet, AnswersOfChild DEF Answer, Goto, processes, Inv, TypeInv
<1> QED BY <1>1, <1>2, <1>3

LEMMA ShutdownHolds == ASSUME Inv, Shutdown PROVE Inv'
<1>1. CASE ~Alive
    BY <1>1, ExitHolds DEF Shutdown
<1>2. CASE Alive
    BY <1>2, SendHolds DEF Shutdown, Goto
<1> QED BY <1>1, <1>2

LEMMA WaitHolds == ASSUME Inv, WaitGraceful \/ WaitTerminated PROVE Inv'
<1> USE DEF Inv
<1>1. CASE WaitTerminated
    BY <1>1, ExitHolds DEF WaitTerminated
<1>2. CASE WaitGraceful /\ ~Alive
    BY <1>2, ExitHolds DEF WaitGraceful
<1>3. CASE WaitGraceful /\ Alive
    <2>1. child' = [child EXCEPT !.term = TRUE] /\ state' = state
          /\ UNCHANGED <<desktop, spawned, strays, port, token, reply>>
        BY <1>3 DEF WaitGraceful, Goto
    <2>2. /\ child' \in Children /\ child'.stdin = child.stdin /\ child'.stdout = child.stdout
          /\ child'.life = child.life /\ child'.port = child.port /\ child'.token = child.token
        BY <2>1 DEF TypeInv, Children
    <2> QED BY <2>1, <2>2 DEF TypeInv, ChildInv, StateInv, Alive
<1> QED BY <1>1, <1>2, <1>3

-----------------------------------------------------------------------------
(* The child *)

LEMMA DeathHolds == ASSUME Inv, Dies PROVE Inv'
<1>1. child' \in Children /\ child'.life = "dead"
    BY DEF Dies, Change, Inv, TypeInv, Children
<1> QED BY <1>1 DEF Dies, Change, control, Inv, TypeInv, ChildInv, StateInv, Alive

LEMMA HangHolds == ASSUME Inv, Hang PROVE Inv'
<1> USE DEF Inv
<1>1. /\ child' \in Children /\ child'.life = "hung" /\ child.life \in {"booting", "serving", "draining"}
      /\ child'.stdin = child.stdin /\ child'.stdout = child.stdout
      /\ child'.port = child.port /\ child'.token = child.token
    <2>1. child' = [child EXCEPT !.life = "hung"] /\ child.life \in {"booting", "serving", "draining"}
        BY DEF Hang, Change
    <2>2. child \in Children
        BY DEF TypeInv
    <2> QED BY <2>1, <2>2 DEF Children
<1> QED BY <1>1 DEF Hang, Change, control, TypeInv, ChildInv, StateInv, Alive

\* What is left of the stdin after its first message is read.
LEMMA TailOfStdin ==
    ASSUME Inv, child.stdin # <<>>
    PROVE  /\ Head(child.stdin) \in Messages /\ Head(child.stdin) = child.stdin[1]
           /\ 1 \in 1 .. Len(child.stdin)
           /\ Tail(child.stdin) \in Seq(Messages)
           /\ \A i \in 1 .. Len(Tail(child.stdin)) :
                 i + 1 \in 1 .. Len(child.stdin) /\ Tail(child.stdin)[i] = child.stdin[i + 1]
<1>1. child.stdin \in Seq(Messages)
    BY DEF Inv, TypeInv, Children
<1> QED BY <1>1, HeadTailProperties

LEMMA BootHolds == ASSUME Inv, Boot PROVE Inv'
<1> USE DEF Inv
<1>1. CASE Dies
    BY <1>1, DeathHolds
<1>2. CASE ~Dies
    <2>1. PICK p \in Ports, other \in {<<>>, <<[type |-> "OTHER", port |-> "?"]>>} :
             Change([child EXCEPT !.life = "serving", !.port = p, !.token = Head(child.stdin).token,
                                  !.stdin = Tail(@),
                                  !.stdout = other \o <<[type |-> "LISTENING", port |-> p]>>])
        BY <1>2 DEF Boot
    <2>2. child.life = "booting" /\ child.stdin # <<>> /\ Head(child.stdin).type = "START"
        BY <1>2 DEF Boot, Told
    <2> DEFINE out == other \o <<[type |-> "LISTENING", port |-> p]>>
    <2>3. /\ out \in Seq(Lines)
          /\ \A i \in 1 .. Len(out) : out[i].type = "LISTENING" => out[i].port = p
        <3> DEFINE line == [type |-> "LISTENING", port |-> p]
                   noise == [type |-> "OTHER", port |-> "?"]
        <3>1. line \in Lines /\ noise \in Lines /\ noise.type # "LISTENING" /\ line.port = p
            BY DEF Lines
        <3> HIDE DEF line, noise
        <3>2. other \in Seq(Lines) /\ \A i \in 1 .. Len(other) : other[i] = noise
            <4>1. other = <<>> \/ other = <<noise>>
                BY DEF noise
            <4>2. CASE other = <<>>
                BY <4>2
            <4>3. CASE other = <<noise>>
                BY <3>1, <4>3
            <4> QED BY <4>1, <4>2, <4>3
        <3>3. <<line>> \in Seq(Lines) /\ Len(<<line>>) = 1 /\ <<line>>[1] = line
            BY <3>1
        <3>4. /\ out \in Seq(Lines) /\ Len(out) = Len(other) + 1
              /\ \A i \in 1 .. Len(out) : out[i] = line \/ (i \in 1 .. Len(other) /\ out[i] = other[i])
            <4>1. out = other \o <<line>>
                BY DEF line
            <4> HIDE DEF out
            <4> QED BY <3>2, <3>3, <4>1, ConcatProperties
        <3> HIDE DEF out
        <3> QED BY <3>1, <3>2, <3>4
    <2>4. Head(child.stdin).token = token
        BY <2>2, TailOfStdin DEF ChildInv, Alive
    <2>5. /\ child' \in Children /\ child'.life = "serving" /\ child'.port = p /\ child'.token = token
          /\ child'.stdin = Tail(child.stdin) /\ child'.stdout = out
        <3>1. /\ child \in Children /\ Tail(child.stdin) \in Seq(Messages) /\ token \in Nat
            BY <2>2, TailOfStdin DEF TypeInv
        <3> HIDE DEF out
        <3> QED BY <2>1, <2>3, <2>4, <3>1 DEF Change, Children, out
    <2>6. \A i \in 1 .. Len(child'.stdin) : child'.stdin[i].type = "START" => child'.stdin[i].token = token
        BY <2>2, <2>5, TailOfStdin DEF ChildInv, Alive
    <2>7. UNCHANGED <<control, desktop, spawned, strays>> /\ p # None
        BY <2>1, PortAssumption DEF Change
    <2>8. state # "READY" /\ state # "EXITED"
        BY <2>2 DEF ChildInv, StateInv, Alive
    <2> HIDE DEF out
    <2> QED BY <2>3, <2>5, <2>6, <2>7, <2>8 DEF control, TypeInv, ChildInv, StateInv
<1> QED BY <1>1, <1>2

LEMMA ControlHolds == ASSUME Inv, ReadControl PROVE Inv'
<1> USE DEF Inv
<1>1. CASE Dies
    BY <1>1, DeathHolds
<1>2. CASE ~Dies
    <2>1. /\ Change([child EXCEPT !.life = "draining", !.stdin = Tail(@)])
          /\ child.life = "serving" /\ child.stdin # <<>>
        BY <1>2 DEF ReadControl, Told
    <2>2. /\ child' \in Children /\ child'.life = "draining" /\ child'.stdin = Tail(child.stdin)
          /\ child'.stdout = child.stdout /\ child'.port = child.port /\ child'.token = child.token
        BY <2>1, TailOfStdin DEF Change, TypeInv, Children
    <2>3. \A i \in 1 .. Len(child'.stdin) : child'.stdin[i].type = "START" => child'.stdin[i].token = token
        BY <2>1, <2>2, TailOfStdin DEF ChildInv, Alive
    <2> QED BY <2>1, <2>2, <2>3 DEF Change, control, TypeInv, ChildInv, StateInv, Alive
<1> QED BY <1>1, <1>2

-----------------------------------------------------------------------------
LEMMA InitHolds == Init => Inv
BY UnbornChild DEF Init, Inv, TypeInv, ChildInv, StateInv, Unborn, Newborn, Alive, NoToken, None

LEMMA StepHolds == Inv /\ [Next]_vars => Inv'
<1> SUFFICES ASSUME Inv, [Next]_vars PROVE Inv'
    OBVIOUS
<1>1. CASE UNCHANGED vars
    BY <1>1 DEF vars, processes, control, Inv, TypeInv, ChildInv, StateInv, Alive
<1>2. CASE Proceed
    BY <1>2, SendStartHolds, ListenHolds, ReadinessHolds, VersionHolds, GuiHolds, ShutdownHolds,
       WaitHolds DEF Proceed
<1>3. CASE Live \/ Obey \/ Crash \/ Hang
    BY <1>3, BootHolds, ControlHolds, DeathHolds, HangHolds DEF Live, Drain, Obey, Crash
<1>4. CASE DesktopDies
    BY <1>4, Quiet DEF DesktopDies, control
<1> QED BY <1>1, <1>2, <1>3, <1>4, StartHolds, GuiHolds, ShutdownHolds DEF Next

LEMMA InvAlways == Spec => []Inv
BY InitHolds, StepHolds, PTL DEF Spec

\* For any number of starts: once shutdown has returned its backend is gone, and no
\* start loses one that still runs.
THEOREM NoneLeftBehind == Spec => []NoBackendLeft
<1>1. Inv => NoBackendLeft
    BY DEF Inv, TypeInv, StateInv, NoBackendLeft
<1> QED BY <1>1, InvAlways, PTL

\* What the invariant says of a backend that is called ready, and what a step may admit.
ReadyIsOwn ==
    state = "READY" /\ Alive => child.port = port /\ child.token = token /\ port # None
Admits == call # "request" /\ call' = "request"
OwnBackend == Alive /\ child.port = port /\ child.token = token

LEMMA OwnWhenReady == Inv => ReadyIsOwn /\ reply # "unauthorized"
BY DEF Inv, ChildInv, StateInv, ReadyIsOwn

\* The poll of request_json tells a dead child, and a ready one has been spawned.
LEMMA RequestAdmits == ASSUME Inv, Request, Admits PROVE OwnBackend
<1>1. Observed = "READY"
    BY DEF Request, Look, Goto, Admits
<1>2. state = "READY" /\ child.life # "dead"
    BY <1>1 DEF Observed
<1>3. child.life \in {"none", "booting", "serving", "draining", "hung", "dead"}
    BY DEF Inv, TypeInv, Children
<1>4. Alive
    BY <1>2, <1>3 DEF Inv, StateInv, Alive
<1> QED BY <1>2, <1>4, OwnWhenReady DEF ReadyIsOwn, OwnBackend

LEMMA StepAdmits == Inv /\ [Next]_vars => [Admits => OwnBackend]_vars
<1> SUFFICES ASSUME Inv, Next, Admits PROVE OwnBackend
    OBVIOUS
<1>1. CASE Proceed \/ Start
    BY <1>1 DEF Proceed, Start, SendStart, ReadListening, GetReadiness, GetVersion, Status, Answer,
       Shutdown, WaitGraceful, WaitTerminated, Failed, Exited, Look, Goto, Admits
<1>2. CASE Live \/ Obey \/ Crash \/ Hang \/ DesktopDies
    BY <1>2 DEF Live, Boot, ReadControl, Drain, Obey, Crash, Hang, DesktopDies, Dies, Change, control,
       Admits
<1>3. CASE call = "none" /\ (Status \/ Shutdown)
    BY <1>3 DEF Status, Shutdown, Exited, Look, Goto, Admits
<1> QED BY <1>1, <1>2, <1>3, RequestAdmits DEF Next

\* A request is admitted only to a backend that runs, the one of the last start, at its
\* own port and with its own token; none is ever refused for its token.
THEOREM ReadyIsServed == Spec => ReadyServes
<1>1. Spec => []Inv /\ [][Next]_vars
    BY InvAlways, PTL DEF Spec
<1>2. Spec => []ReadyIsOwn /\ [](reply # "unauthorized")
    BY <1>1, OwnWhenReady, PTL
<1>3. Spec => [][Admits => OwnBackend]_vars
    BY <1>1, StepAdmits, PTL
<1> QED BY <1>2, <1>3 DEF ReadyServes, ReadyIsOwn, Admits, OwnBackend

-----------------------------------------------------------------------------
(* BackupRestore: backup and restore. *)

Trees == [Files -> Holdings]
Directories == [there : BOOLEAN, db : SUBSET Uris, manifest : Trees, files : Trees,
                todo : SUBSET Files]
Places == [db : SUBSET (SUBSET Uris), objects : SUBSET Trees,
           dbStaging : SUBSET (SUBSET Uris), objectStaging : SUBSET Trees]

RecoveryType ==
    /\ profile \in {"DESKTOP", "SERVICE"}
    /\ registry \in SUBSET Uris
    /\ disk \in Trees
    /\ writer \in [Uris -> {"idle", "part", "whole", "sealed", "registered", "dead", "reclaimed"}]
    /\ bpc \in {"idle", "database", "list", "hash", "copy", "manifest", "done"}
    /\ staging \in Directories
    /\ backup \in Directories
    /\ rpc \in {"idle", "stage", "database", "objects", "ok", "failed", "stuck", "dead"}
    /\ target \in Places

\* What is registered was sealed before, and nobody removes it.
SealedInv ==
    /\ \A u \in registry : writer[u] = "registered"
    /\ \A u \in Uris : writer[u] \in {"sealed", "registered"} => disk[<<u, "object">>] = "whole"

\* The objects of the snapshot are listed, then hashed.
BackupInv ==
    /\ bpc \in {"list", "hash"} => staging.db \subseteq registry
    /\ bpc = "hash" => \A u \in staging.db :
          <<u, "object">> \in staging.todo \/ staging.manifest[<<u, "object">>] = "whole"
    /\ bpc \in {"copy", "manifest"} => Resolves(staging.db, staging.manifest)
    /\ Resolves(backup.db, backup.manifest)

\* While a restore runs the backup does not change.
SourceInv ==
    /\ backup.there => bpc = "done"
    /\ rpc \in {"stage", "database", "objects", "ok"} =>
          backup.there /\ backup.files = backup.manifest

PlaceInv ==
    /\ rpc # "ok" => target.objects = {}
    /\ rpc \in {"idle", "failed", "stage"} =>
          /\ target.objectStaging = {}
          /\ profile = "DESKTOP" => target.db = {} /\ target.dbStaging = {}
    /\ rpc = "database" => target.objectStaging = {backup.files}
    /\ rpc = "objects" => target.objectStaging = {backup.files} /\ target.db = {backup.db}
    /\ rpc = "ok" => target.objects = {backup.files} /\ target.db = {backup.db}

RecoveryInv == RecoveryType /\ SealedInv /\ BackupInv /\ SourceInv /\ PlaceInv

-----------------------------------------------------------------------------
LEMMA EmptyTree == Empty \in Trees /\ \A u \in Uris : <<u, "object">> \in Files
BY DEF Empty, Trees, Files, Holdings

LEMMA NoDirectory ==
    /\ Nothing \in Directories /\ Directory(TRUE) \in Directories
    /\ Nothing.db = {} /\ ~Nothing.there
BY EmptyTree DEF Nothing, Directory, Directories

LEMMA RecoveryStarts == RecoveryInit => RecoveryInv
<1> SUFFICES ASSUME RecoveryInit PROVE RecoveryInv
    OBVIOUS
<1>1. RecoveryType
    BY EmptyTree, NoDirectory DEF RecoveryInit, RecoveryType, Places
<1>2. SealedInv /\ SourceInv /\ PlaceInv
    BY NoDirectory DEF RecoveryInit, SealedInv, SourceInv, PlaceInv
<1>3. BackupInv
    BY NoDirectory DEF RecoveryInit, BackupInv, Resolves
<1> QED BY <1>1, <1>2, <1>3 DEF RecoveryInv

-----------------------------------------------------------------------------
(* A publication only adds whole objects to what is registered. *)

LEMMA Publishes ==
    ASSUME RecoveryInv, NEW u \in Uris,
           \/ OpenTemporary(u) \/ FillTemporary(u) \/ ReplaceObject(u)
           \/ RegisterObject(u) \/ WriterDies(u) \/ ReclaimOrphan(u)
    PROVE  RecoveryInv'
<1> USE DEF RecoveryInv
<1>f. /\ <<u, "object">> \in Files /\ <<u, "temporary">> \in Files
      /\ \A v \in Uris : <<v, "object">> \in Files
    BY DEF Files
<1>u. UNCHANGED <<profile, copying, restoring>>
    BY DEF OpenTemporary, FillTemporary, ReplaceObject, RegisterObject, WriterDies, ReclaimOrphan,
           Write
<1>1. registry \subseteq registry' /\ RecoveryType' /\ SealedInv'
    <2>1. CASE OpenTemporary(u) \/ FillTemporary(u)
        BY <2>1, <1>f DEF OpenTemporary, FillTemporary, Write, copying, restoring, RecoveryType, SealedInv,
              Trees, Holdings
    <2>2. CASE ReplaceObject(u)
        BY <2>2, <1>f DEF ReplaceObject, Write, copying, restoring, RecoveryType, SealedInv, Trees, Holdings
    <2>3. CASE RegisterObject(u)
        BY <2>3, <1>f DEF RegisterObject, copying, restoring, RecoveryType, SealedInv
    <2>4. CASE WriterDies(u)
        BY <2>4, <1>f DEF WriterDies, Write, copying, restoring, RecoveryType, SealedInv
    <2>5. CASE ReclaimOrphan(u)
        BY <2>5, <1>f DEF ReclaimOrphan, Write, copying, restoring, RecoveryType, SealedInv, Trees,
              Holdings
    <2> QED BY <2>1, <2>2, <2>3, <2>4, <2>5
<1>2. BackupInv'
    BY <1>u, <1>1 DEF BackupInv, Resolves, copying
<1>3. SourceInv' /\ PlaceInv'
    BY <1>u DEF SourceInv, PlaceInv, copying, restoring
<1> QED BY <1>1, <1>2, <1>3

-----------------------------------------------------------------------------
(* The backup: the snapshot is taken before the tree is listed. *)

LEMMA BacksUp ==
    ASSUME RecoveryInv,
           \/ BeginBackup \/ CopyDatabase \/ ListObjects \/ HashedAll \/ CopiedAll
           \/ FinishBackup \/ BackupFails \/ BackupDies
           \/ \E f \in Files : HashObject(f) \/ CopyObject(f)
    PROVE  RecoveryInv'
<1> USE DEF RecoveryInv
<1>u. UNCHANGED <<profile, publication, restoring>>
    BY DEF BeginBackup, CopyDatabase, ListObjects, HashedAll, CopiedAll, FinishBackup,
           BackupFails, BackupDies, HashObject, CopyObject, AmendStaging
<1>f. \A v \in Uris : <<v, "object">> \in Files
    BY DEF Files
<1>s. SealedInv'
    BY <1>u DEF SealedInv, publication
<1>1. CASE BeginBackup
    <2>1. RecoveryType' /\ backup' = backup /\ bpc' = "database" /\ ~backup.there
        BY <1>1, <1>u, NoDirectory DEF BeginBackup, AmendStaging, RecoveryType, publication, restoring
    <2> QED BY <2>1, <1>u, <1>s DEF BackupInv, SourceInv, PlaceInv, restoring
<1>2. CASE CopyDatabase
    <2>1. RecoveryType' /\ backup' = backup /\ bpc' = "list" /\ bpc = "database"
        BY <1>2, <1>u DEF CopyDatabase, AmendStaging, RecoveryType, Directories, publication, restoring
    <2>2. staging'.db = registry'
        BY <1>2, <1>u DEF CopyDatabase, AmendStaging, RecoveryType, Directories, publication
    <2> QED BY <2>1, <2>2, <1>u, <1>s DEF BackupInv, SourceInv, PlaceInv, restoring
<1>3. CASE ListObjects
    <2>1. /\ RecoveryType' /\ backup' = backup /\ bpc' = "hash" /\ bpc = "list"
          /\ staging'.db = staging.db /\ staging'.todo = Present(disk)
        BY <1>3, <1>u DEF ListObjects, AmendStaging, RecoveryType, Directories, Present, publication,
              restoring
    <2>2. \A v \in staging.db : <<v, "object">> \in Present(disk)
        BY <2>1, <1>f DEF BackupInv, SealedInv, RecoveryType, Present
    <2> QED BY <2>1, <2>2, <1>u, <1>s DEF BackupInv, SourceInv, PlaceInv, restoring, publication
<1>4. ASSUME NEW f \in Files, HashObject(f) PROVE RecoveryInv'
    <2>1. /\ RecoveryType' /\ backup' = backup /\ bpc' = "hash" /\ bpc = "hash"
          /\ staging'.db = staging.db /\ staging'.todo = staging.todo \ {f}
          /\ staging'.manifest = [staging.manifest EXCEPT ![f] = disk[f]]
        BY <1>4, <1>u DEF HashObject, AmendStaging, RecoveryType, Directories, Trees, publication, restoring
    <2>2. ASSUME NEW v \in staging.db
          PROVE  \/ <<v, "object">> \in staging'.todo
                 \/ staging'.manifest[<<v, "object">>] = "whole"
        <3>1. v \in registry /\ v \in Uris /\ disk[<<v, "object">>] = "whole"
            BY <2>1 DEF BackupInv, SealedInv, RecoveryType
        <3>2. staging.manifest \in Trees
            BY DEF RecoveryType, Directories
        <3>3. CASE f = <<v, "object">>
            BY <3>1, <3>2, <3>3, <2>1 DEF Trees
        <3>4. CASE f # <<v, "object">>
            BY <3>1, <3>2, <3>4, <2>1, <1>f DEF Trees, BackupInv
        <3> QED BY <3>3, <3>4
    <2> QED BY <2>1, <2>2, <1>u, <1>s DEF BackupInv, SourceInv, PlaceInv, restoring, publication
<1>5. CASE HashedAll
    <2>1. /\ RecoveryType' /\ backup' = backup /\ bpc' = "copy" /\ bpc = "hash" /\ staging.todo = {}
          /\ staging'.db = staging.db /\ staging'.manifest = staging.manifest
        BY <1>5, <1>u DEF HashedAll, AmendStaging, RecoveryType, Directories, Present, publication, restoring
    <2> QED BY <2>1, <1>u, <1>s DEF BackupInv, Resolves, SourceInv, PlaceInv, restoring
<1>6. ASSUME NEW f \in Files, CopyObject(f) PROVE RecoveryInv'
    <2>1. /\ RecoveryType' /\ backup' = backup /\ bpc' = "copy" /\ bpc = "copy"
          /\ staging'.db = staging.db /\ staging'.manifest = staging.manifest
        BY <1>6, <1>u DEF CopyObject, AmendStaging, RecoveryType, Directories, Trees, publication, restoring
    <2> QED BY <2>1, <1>u, <1>s DEF BackupInv, Resolves, SourceInv, PlaceInv, restoring
<1>7. CASE CopiedAll
    <2>1. /\ RecoveryType' /\ backup' = backup /\ bpc' = "manifest" /\ bpc = "copy" /\ staging' = staging
        BY <1>7, <1>u DEF CopiedAll, AmendStaging, RecoveryType, publication, restoring
    <2> QED BY <2>1, <1>u, <1>s DEF BackupInv, Resolves, SourceInv, PlaceInv, restoring
<1>8. CASE FinishBackup
    <2>1. /\ RecoveryType' /\ backup' = staging /\ bpc' = "done" /\ bpc = "manifest"
          /\ ~backup.there
        BY <1>8, <1>u, NoDirectory DEF FinishBackup, RecoveryType, SourceInv, publication, restoring
    <2>2. rpc \in {"idle", "failed", "stuck", "dead"}
        BY <2>1 DEF SourceInv, RecoveryType
    <2> QED BY <2>1, <2>2, <1>u, <1>s DEF BackupInv, Resolves, SourceInv, PlaceInv, restoring
<1>9. CASE BackupFails \/ BackupDies
    <2>1. RecoveryType' /\ backup' = backup /\ bpc' = "idle" /\ ~backup.there
        BY <1>9, <1>u, NoDirectory DEF BackupFails, BackupDies, RecoveryType, SourceInv, publication, restoring
    <2> QED BY <2>1, <1>u, <1>s DEF BackupInv, Resolves, SourceInv, PlaceInv, restoring
<1> QED BY <1>1, <1>2, <1>3, <1>4, <1>5, <1>6, <1>7, <1>8, <1>9

-----------------------------------------------------------------------------
(* The restore. *)

LEMMA Damages == ASSUME RecoveryInv, NEW f \in Files, Corrupt(f) PROVE RecoveryInv'
<1> USE DEF RecoveryInv
<1>1. /\ backup' \in Directories /\ backup'.there = backup.there /\ backup'.db = backup.db
      /\ backup'.manifest = backup.manifest
    BY DEF Corrupt, RecoveryType, Directories, Trees, Holdings
<1>2. UNCHANGED <<profile, publication, bpc, staging, restoring>> /\ ~InRestore /\ rpc # "ok"
    BY DEF Corrupt
<1>3. RecoveryType' /\ SealedInv' /\ PlaceInv'
    BY <1>1, <1>2 DEF RecoveryType, SealedInv, PlaceInv, InRestore, publication, restoring
<1>4. BackupInv' /\ SourceInv'
    BY <1>1, <1>2 DEF BackupInv, Resolves, SourceInv, InRestore, publication, restoring
<1> QED BY <1>3, <1>4

\* What a clean-up leaves, with what pg_restore left of a service's database.
Patched(t, db) == IF profile = "SERVICE" THEN [t EXCEPT !.db = db] ELSE t

LEMMA Restores ==
    ASSUME RecoveryInv,
           \/ BeginRestore \/ StageFiles \/ RestoreDatabase \/ RestoreObjects
           \/ RestoreFails \/ RestoreDies \/ OperatorClears
    PROVE  RecoveryInv'
<1> USE DEF RecoveryInv
<1>u. UNCHANGED <<profile, publication, copying>>
    BY DEF BeginRestore, StageFiles, RestoreDatabase, RestoreObjects, RestoreFails, RestoreDies,
           OperatorClears, AmendTarget
<1>s. SealedInv' /\ BackupInv'
    BY <1>u DEF SealedInv, BackupInv, Resolves, publication, copying
<1>t. /\ target.db \in SUBSET (SUBSET Uris) /\ target.dbStaging \in SUBSET (SUBSET Uris)
      /\ target.objects \in SUBSET Trees /\ target.objectStaging \in SUBSET Trees
      /\ backup.db \in SUBSET Uris /\ backup.files \in Trees
      /\ target = [db |-> target.db, objects |-> target.objects,
                   dbStaging |-> target.dbStaging, objectStaging |-> target.objectStaging]
    BY DEF RecoveryType, Places, Directories
<1>1. CASE BeginRestore
    BY <1>1, <1>u, <1>s DEF BeginRestore, InRestore, Clean, Verified, RecoveryType, SourceInv, PlaceInv, publication,
          copying
<1>2. CASE StageFiles
    BY <1>2, <1>u, <1>s, <1>t DEF StageFiles, AmendTarget, RecoveryType, Places, SourceInv, PlaceInv,
          publication, copying
<1>3. CASE RestoreDatabase
    BY <1>3, <1>u, <1>s, <1>t DEF RestoreDatabase, AmendTarget, RecoveryType, Places, SourceInv, PlaceInv,
          publication, copying
<1>4. CASE RestoreObjects
    BY <1>4, <1>u, <1>s, <1>t DEF RestoreObjects, AmendTarget, RecoveryType, Places, SourceInv, PlaceInv,
          publication, copying
<1>r. \A db \in Remains : db \in SUBSET (SUBSET Uris)
    BY <1>t DEF Remains
<1>5. CASE RestoreFails
    <2>1. PICK db \in Remains :
             \/ AmendTarget(Patched(CleanUp, db), "failed")
             \/ \E t \in Leftovers \ {CleanUp} : AmendTarget(Patched(t, db), "stuck")
        BY <1>5 DEF RestoreFails, Patched
    <2>2. /\ CleanUp \in Places /\ CleanUp.objects = {} /\ CleanUp.objectStaging = {}
          /\ profile = "DESKTOP" => CleanUp.db = {} /\ CleanUp.dbStaging = {}
        BY <1>t, <1>5 DEF CleanUp, Places, RestoreFails, InRestore, PlaceInv
    <2>3. \A t \in Leftovers : t \in Places /\ t.objects = {}
        <3>1. target \in Places /\ target.objects = {}
            BY <1>5 DEF RestoreFails, InRestore, PlaceInv, RecoveryType
        <3>2. \A o \in {{}, target.objectStaging}, d \in {CleanUp.db, target.db} :
                 /\ [CleanUp EXCEPT !.objectStaging = o, !.db = d] \in Places
                 /\ [CleanUp EXCEPT !.objectStaging = o, !.db = d].objects = {}
            BY <1>t, <2>2 DEF Places
        <3>3. ASSUME NEW t \in Leftovers
              PROVE  \/ t = target
                     \/ \E o \in {{}, target.objectStaging}, d \in {CleanUp.db, target.db} :
                           t = [CleanUp EXCEPT !.objectStaging = o, !.db = d]
            BY DEF Leftovers
        <3> QED BY <3>1, <3>2, <3>3
    <2>4. CASE AmendTarget(Patched(CleanUp, db), "failed")
        <3>1. /\ target' \in Places /\ rpc' = "failed"
              /\ target'.objects = {} /\ target'.objectStaging = {}
              /\ profile = "DESKTOP" => target'.db = {} /\ target'.dbStaging = {}
            <4>1. target' = Patched(CleanUp, db) /\ rpc' = "failed"
                BY <2>4 DEF AmendTarget
            <4>2. /\ Patched(CleanUp, db) \in Places /\ Patched(CleanUp, db).objects = {}
                  /\ Patched(CleanUp, db).objectStaging = {}
                  /\ profile = "DESKTOP" => Patched(CleanUp, db) = CleanUp
                BY <2>2, <1>r DEF Patched, Places
            <4> QED BY <2>2, <4>1, <4>2
        <3> QED BY <3>1, <1>u, <1>s DEF RecoveryType, SourceInv, PlaceInv, publication, copying
    <2>5. CASE \E t \in Leftovers \ {CleanUp} : AmendTarget(Patched(t, db), "stuck")
        <3>1. target' \in Places /\ rpc' = "stuck" /\ target'.objects = {}
            <4>1. PICK t \in Leftovers : target' = Patched(t, db) /\ rpc' = "stuck"
                BY <2>5 DEF AmendTarget
            <4>2. Patched(t, db) \in Places /\ Patched(t, db).objects = {}
                BY <2>3, <1>r DEF Patched, Places
            <4> QED BY <4>1, <4>2
        <3> QED BY <3>1, <1>u, <1>s DEF RecoveryType, SourceInv, PlaceInv, publication, copying
    <2> QED BY <2>1, <2>4, <2>5
<1>6. CASE RestoreDies
    <2>1. target' \in Places /\ target'.objects = {} /\ rpc' = "dead"
        BY <1>6, <1>t, <1>r DEF RestoreDies, InRestore, AmendTarget, Places, PlaceInv
    <2> QED BY <2>1, <1>u, <1>s DEF RecoveryType, SourceInv, PlaceInv, publication, copying
<1>7. CASE OperatorClears
    BY <1>7, <1>u, <1>s DEF OperatorClears, AmendTarget, RecoveryType, Places, SourceInv, PlaceInv,
          publication, copying
<1> QED BY <1>1, <1>2, <1>3, <1>4, <1>5, <1>6, <1>7

-----------------------------------------------------------------------------
LEMMA RecoverySteps == RecoveryInv /\ [RecoveryNext]_recovery => RecoveryInv'
<1> SUFFICES ASSUME RecoveryInv, [RecoveryNext]_recovery PROVE RecoveryInv'
    OBVIOUS
<1>1. CASE UNCHANGED recovery
    BY <1>1 DEF recovery, publication, copying, restoring, RecoveryInv, RecoveryType, SealedInv, BackupInv, Resolves,
          SourceInv, PlaceInv
<1>2. CASE RecoveryNext
    BY <1>2, Publishes, BacksUp, Damages, Restores DEF RecoveryNext
<1> QED BY <1>1, <1>2

LEMMA RecoveryAlways == RecoverySpec => []RecoveryInv
BY RecoveryStarts, RecoverySteps, PTL DEF RecoverySpec

\* However publication, reclamation and the backup interleave, the references of
\* a backup's database find their whole objects in its manifest.
THEOREM BackupConsistent == RecoverySpec => []BackupResolves
<1>1. RecoveryInv => BackupResolves
    BY DEF RecoveryInv, BackupInv, BackupResolves
<1> QED BY <1>1, RecoveryAlways, PTL

\* A restore that succeeds has both stores of a backup that resolves; any other has
\* put no object in place, and one that failed and could clean up has left no staging
\* and on the desktop no database.
THEOREM RestoreAtomic == RecoverySpec => []RestoreAllOrNothing
<1>1. RecoveryInv => RestoreAllOrNothing
    BY DEF RecoveryInv, BackupInv, SourceInv, PlaceInv, RestoreAllOrNothing
<1> QED BY <1>1, RecoveryAlways, PTL
=============================================================================
