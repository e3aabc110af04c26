--------------------------- MODULE AssessmentReview ---------------------------
(***************************************************************************)
(* The review of derived products: an instructor moves a P4 or P5          *)
(* assessment through its approval states, annotates it, runs a forecast,  *)
(* has a recommendation drafted and approved, releases a model (M8 and M9  *)
(* workspace of tpaa_application over the workflows of tpaa_assessment and *)
(* the durable repositories of tpaa_runtime). The debrief of M4 writes     *)
(* annotations into the same table (tpaa_runtime/durable_longitudinal.py). *)
(*                                                                         *)
(* Nothing but a model is changed in place: every call writes a new        *)
(* revision, whose identity is the hash of the revision it supersedes, the *)
(* state and the time of creation that the client sends; the time of a run *)
(* is only stored.  So a revision is here the path of steps that leads to  *)
(* it.  A call is answered again from a dictionary in memory, keyed by the *)
(* client's request id; it is not locked, and a restart empties it.  The   *)
(* debrief needs no dictionary: it finds a request id in the audit ledger, *)
(* in the transaction in which it stores the annotation.                   *)
(***************************************************************************)
EXTENDS Naturals, Sequences, FiniteSets

CONSTANTS
    Portfolios, \* sets of drafts, the products under review
    Calls,      \* one handler thread each
    Requests,   \* request ids that clients send
    Stamps,     \* times of creation that clients send
    Lives       \* bound: how often the backend starts

VARIABLES
    drafts,     \* the products of this behaviour
    revisions,  \* committed revisions
    results,    \* committed revisions with an ED2 result
    superseded, \* annotations whose status is SUPERSEDED
    audit,      \* rows of the audit ledger
    memory,     \* workflow -> request id -> what it stands for, if known
    call,       \* call -> its arguments and how far it is
    life        \* how often the backend has started

vars == <<drafts, revisions, results, superseded, audit, memory, call, life>>

Kinds == {"P4", "P5", "NOTE", "REC", "RUN", "MODEL"}
Workflows == Kinds \cup {"M9", "M4"}

\* Only assessments have an ED2 result.
ASSUME PortfoliosAssumption ==
    \A p \in Portfolios :
        /\ p \subseteq [kind : Kinds, result : BOOLEAN, fit : BOOLEAN]
        /\ \A d \in p : d.result => d.kind \in {"P4", "P5"}
ASSUME LivesAssumption == Lives \in Nat \ {0}

\* The state a product is in before the first call.
Start(kind) == CASE kind \in {"P4", "P5"} -> "DRAFT" [] kind = "MODEL" -> "VALIDATED"
                 [] OTHER -> "NONE"

State(rev) ==
    IF rev.path = <<>> THEN Start(rev.draft.kind) ELSE rev.path[Len(rev.path)].state

Transitions(kind) ==
    CASE kind \in {"P4", "P5"} -> {<<"DRAFT", "IN_REVIEW">>, <<"IN_REVIEW", "APPROVED">>,
                                   <<"IN_REVIEW", "REJECTED">>, <<"APPROVED", "DRAFT">>,
                                   <<"REJECTED", "DRAFT">>}
      [] kind = "NOTE" -> {<<"NONE", "ACTIVE">>, <<"ACTIVE", "ACTIVE">>, <<"ACTIVE", "DELETED">>}
      [] kind = "REC" -> {<<"NONE", "DRAFT">>, <<"DRAFT", "IN_REVIEW">>, <<"IN_REVIEW", "APPROVED">>,
                          <<"IN_REVIEW", "REJECTED">>, <<"APPROVED", "RELEASED">>}
      [] kind = "RUN" -> {<<"NONE", "PUBLISHED_PROJECTION">>}
      [] kind = "MODEL" -> {<<"VALIDATED", "PUBLISHED">>}

Targets(kind) == {t[2] : t \in Transitions(kind)}

\* M9 runs, drafts and releases first and remembers the request when all is
\* done; the workflows remember it before anything is stored.
InM9(a) == a.of.draft.kind \in {"RUN", "MODEL"} \/ (a.of.draft.kind = "REC" /\ a.of.path = <<>>)
Workflow(a) == CASE a.debrief -> "M4" [] InM9(a) -> "M9" [] OTHER -> a.of.draft.kind

\* An annotation that the debrief wrote: its identity names its request.
Debriefed(rev) == rev.draft.kind = "NOTE" /\ rev.path # <<>> /\ rev.path[Len(rev.path)].by # {}

\* Mutant of Admitted: a model is released whatever its status.
AdmittedPublished(a) ==
    \/ a.of.draft.kind = "MODEL"
    \/ <<State(a.of), a.target>> \in Transitions(a.of.draft.kind)

\* Mutant of Admitted: the debrief takes a superseded annotation for an active one.
AdmittedSuperseded(a) ==
    /\ <<State(a.of), a.target>> \in Transitions(a.of.draft.kind)
    /\ a.of.draft.kind \in {"RUN", "MODEL"} => a.of.draft.fit

\* The computation of a run and the release of a model also need fit sources; the
\* target of a debrief command is active.
Admitted(a) ==
    /\ <<State(a.of), a.target>> \in Transitions(a.of.draft.kind)
    /\ a.debrief => a.of \notin superseded
    /\ a.of.draft.kind \in {"RUN", "MODEL"} => a.of.draft.fit

\* The revision a call derives, with the time the client sends.  That of a
\* recommendation and of a debrief command names its request.
Derived(a) ==
    LET by == IF a.debrief \/ (a.of.draft.kind = "REC" /\ ~InM9(a)) THEN {a.req} ELSE {}
    IN  [a.of EXCEPT !.path = Append(@, [state |-> a.target, at |-> a.at, by |-> by])]

\* The fingerprint of a request: that of a recommendation's draft has no time,
\* that of a model's release not the state the model was read in, and an
\* annotation of the debrief is identified by its own.
Fingerprint(a) ==
    CASE a.debrief -> <<Derived(a)>>
      [] a.of.draft.kind = "MODEL" -> <<a.of.draft, a.at>>
      [] InM9(a) /\ a.of.draft.kind = "REC" -> <<a.of.draft>>
      [] OTHER -> <<a.of, a.target, a.at>>

\* What a request id is known to stand for; the debrief's are in the audit ledger.
Known(a) ==
    IF a.debrief
    THEN {[fingerprint |-> <<e.rev>>, rev |-> e.rev] :
             e \in {e \in audit : Debriefed(e.rev) /\ e.req = a.req}}
    ELSE memory[Workflow(a)][a.req]

-----------------------------------------------------------------------------
Init ==
    /\ drafts \in Portfolios
    /\ revisions = {[draft |-> d, path |-> <<>>] : d \in drafts}
    /\ results = {r \in revisions : r.draft.result}
    /\ superseded = {}
    /\ audit = {}
    /\ memory = [w \in Workflows |-> [q \in Requests |-> {}]]
    /\ call = [c \in Calls |-> [pc |-> "idle"]]
    /\ life = 1

Ended == {"ok", "failed"}

Goto(c, pc) == call' = [call EXCEPT ![c].pc = pc]

\* A read transaction loads the revision that the call is about; the sources of
\* a recommendation to be released must be fit for it.  M8 revises its own notes
\* only and deletes none.
Read(c, rev, target, at, req, debrief) ==
    /\ call[c].pc = "idle"
    /\ rev \in revisions
    /\ rev.draft.kind = "RUN" => rev.path = <<>>
    /\ IF debrief THEN rev.draft.kind = "NOTE" ELSE ~Debriefed(rev) /\ target # "DELETED"
    /\ State(rev) = "NONE" => <<"NONE", target>> \in Transitions(rev.draft.kind)
    /\ call' = [call EXCEPT ![c] =
          [pc |-> IF target = "RELEASED" /\ ~rev.draft.fit THEN "failed" ELSE "look",
           of |-> rev, target |-> target, at |-> at, req |-> req, debrief |-> debrief,
           rev |-> rev, life |-> life,
           after |-> {d \in Calls : call[d].pc \in Ended}]]
    /\ UNCHANGED <<drafts, revisions, results, superseded, audit, memory, life>>

\* Mutant of Conflict: the fingerprints of a request id are not compared.
ConflictUnseen(a) == FALSE

\* A request id that stands for something else, or for two things.
Conflict(a) == Known(a) # {} /\ \E k \in Known(a) : k.fingerprint # Fingerprint(a)

\* Mutant of AfterReuse: a remembered revision is taken to be stored.
AfterReuseAnswered(a) == "ok"

\* M9 and the debrief know of nothing that they have not stored.
StoresFirst(a) == InM9(a) \/ a.debrief

\* A remembered answer of a workflow may not have been stored, and is registered
\* again.
AfterReuse(a) == IF StoresFirst(a) THEN "ok" ELSE "register"

\* The transition is checked and the request looked up; a denial is audited, but
\* for one of the debrief, a conflict within M9 and a model not fit for release.
\* The debrief does this in the transaction that it registers in; two of them may
\* overlap on PostgreSQL.
Look(c) ==
    LET a == call[c]
        reused == Known(a) # {} /\ ~Conflict(a) /\ (StoresFirst(a) \/ Admitted(a))
        fresh == Known(a) = {} /\ Admitted(a)
        silent == a.debrief \/ (InM9(a) /\ (Conflict(a) \/ a.of.draft.kind = "MODEL"))
    IN  /\ a.pc = "look"
        /\ call' = [call EXCEPT ![c].rev = IF reused THEN (CHOOSE k \in Known(a) : TRUE).rev
                                           ELSE IF fresh THEN Derived(a) ELSE @,
                                ![c].pc = CASE reused -> AfterReuse(a)
                                            [] fresh /\ StoresFirst(a) -> "register"
                                            [] fresh /\ ~StoresFirst(a) -> "remember"
                                            [] OTHER -> IF silent THEN "failed" ELSE "deny"]
        /\ UNCHANGED <<drafts, revisions, results, superseded, audit, memory, life>>

Remember(c) ==
    LET a == call[c]
    IN  /\ a.pc = "remember"
        /\ memory' = [memory EXCEPT ![Workflow(a)][a.req] =
                           {[fingerprint |-> Fingerprint(a), rev |-> a.rev]}]
        /\ Goto(c, IF InM9(a) THEN "ok" ELSE "register")
        /\ UNCHANGED <<drafts, revisions, results, superseded, audit, life>>

\* A model's row is updated, whatever release it has by now; every other
\* revision is inserted, unless it exists.
Commit(rev) ==
    (IF rev.draft.kind = "MODEL" THEN {r \in revisions : r.draft # rev.draft} ELSE revisions)
        \cup {rev}

\* Mutant of Continued: looks for the result under the new revision.
ContinuedFromNew(a) == IF a.rev \in results THEN {a.rev} ELSE {}

\* The ED2 result of an assessment follows it into its next revision.
Continued(a) == IF a.of \in results THEN {a.rev} ELSE {}

\* A run is identified by its question and its result, without the time; everything
\* else by all it consists of.
SameIdentity(r, s) ==
    r = s \/ (r.draft.kind = "RUN" /\ r.draft = s.draft /\ r.path # <<>> /\ s.path # <<>>)

Entry(a, outcome) == [req |-> a.req, rev |-> a.rev, outcome |-> outcome]

\* One write transaction stores the revision and its result.  What is stored under
\* its identity must be the same: a run made at another time is refused, and so is a
\* note that is no longer as M8 wrote it.
Register(c) ==
    LET a == call[c]
    IN  /\ a.pc = "register" /\ ~a.debrief
        /\ a.rev \notin superseded
        /\ \A r \in revisions : SameIdentity(r, a.rev) => r = a.rev
        /\ revisions' = Commit(a.rev)
        /\ results' = results \cup Continued(a)
        /\ Goto(c, "audit")
        /\ UNCHANGED <<drafts, superseded, audit, memory, life>>

\* The debrief inserts its annotation with the audit row and sets the status of the
\* target, whatever that is by now; the answer to its commit may be lost.
Annotate(c) ==
    LET a == call[c]
    IN  /\ a.pc = "register" /\ a.debrief
        /\ a.rev \notin revisions
        /\ revisions' = revisions \cup {a.rev}
        /\ superseded' = superseded \cup ({a.of} \cap {r \in revisions : r.path # <<>>})
        /\ audit' = audit \cup {Entry(a, "ALLOW")}
        /\ \E pc \in Ended : Goto(c, pc)
        /\ UNCHANGED <<drafts, results, memory, life>>

\* The audit ledger is written in a transaction of its own.
Audit(c) ==
    LET a == call[c]
    IN  /\ a.pc = "audit"
        /\ audit' = audit \cup {Entry(a, "ALLOW")}
        /\ Goto(c, IF InM9(a) THEN "remember" ELSE "ok")
        /\ UNCHANGED <<drafts, revisions, results, superseded, memory, life>>

Deny(c) ==
    /\ call[c].pc = "deny"
    /\ audit' = audit \cup {Entry(call[c], "DENY")}
    /\ Goto(c, "failed")
    /\ UNCHANGED <<drafts, revisions, results, superseded, memory, life>>

\* A transaction finds another revision under the identity of its own or the writer
\* lease taken, loses its connection or loses the race for a primary key; it leaves
\* nothing and the call ends.
Fail(c) ==
    /\ call[c].pc \in {"register", "audit", "deny"}
    /\ Goto(c, "failed")
    /\ UNCHANGED <<drafts, revisions, results, superseded, audit, memory, life>>

\* The backend stops and starts: calls and memory are lost.
Restart ==
    /\ life < Lives
    /\ life' = life + 1
    /\ memory' = [w \in Workflows |-> [q \in Requests |-> {}]]
    /\ call' = [c \in Calls |-> IF call[c].pc \in Ended \cup {"idle"} THEN call[c]
                               ELSE [call[c] EXCEPT !.pc = "failed"]]
    /\ UNCHANGED <<drafts, revisions, results, superseded, audit>>

Next ==
    \/ \E c \in Calls :
        \/ \E rev \in revisions, at \in Stamps, req \in Requests :
              \E target \in Targets(rev.draft.kind), debrief \in BOOLEAN :
                 Read(c, rev, target, at, req, debrief)
        \/ Look(c)
        \/ Remember(c)
        \/ Register(c)
        \/ Annotate(c)
        \/ Audit(c)
        \/ Deny(c)
        \/ Fail(c)
    \/ Restart

Spec == Init /\ [][Next]_vars

-----------------------------------------------------------------------------
(* Properties *)

Answered == {c \in Calls : call[c].pc = "ok"}

\* Types: a revision belongs to a draft of the behaviour and every step on its
\* path is a transition of its kind.
TypeOK ==
    /\ \A r \in revisions : r.draft \in drafts /\ \A i \in 1..Len(r.path) :
          <<State([r EXCEPT !.path = SubSeq(@, 1, i - 1)]), r.path[i].state>>
              \in Transitions(r.draft.kind)
    /\ results \subseteq revisions /\ superseded \subseteq revisions
    /\ \A e \in audit : e.req \in Requests /\ e.outcome \in {"ALLOW", "DENY"}
    /\ \A w \in Workflows, q \in Requests : Cardinality(memory[w][q]) <= 1
    /\ \A c \in Calls : call[c].pc \in Ended \cup {"idle", "look", "remember", "register", "audit", "deny"}
    /\ life \in 1..Lives

\* Two calls that ran at the same time.
Overlap(c, d) == c \notin call[d].after /\ d \notin call[c].after

\* A reply stands: the revision it names is stored and its audit row written,
\* also where the answer came from memory and the first attempt to store it
\* failed.  (A model's publication time may be that of a release that
\* overlapped the one that was answered.)
ReplyStands ==
    /\ TypeOK
    /\ \A c \in Answered :
        /\ [req |-> call[c].req, rev |-> call[c].rev, outcome |-> "ALLOW"] \in audit
        /\ \/ call[c].rev \in revisions
           \/ /\ call[c].rev.draft.kind = "MODEL"
              /\ \E d \in Calls, e \in Answered :
                    /\ call[d].pc # "idle" /\ call[d].rev \in revisions
                    /\ call[e].rev = call[c].rev /\ Overlap(d, e)

SameRequest(c, d) ==
    /\ call[c].life = call[d].life \/ call[c].debrief
    /\ call[c].req = call[d].req
    /\ Workflow(call[c]) = Workflow(call[d])

\* As long as the backend runs, and in the debrief for ever, a request id stands for
\* one thing: a call made after another was answered under the same id, and
\* answered itself, got the same revision for the same request.  (Nothing is promised to calls that are
\* made with one id at one time: lookup and entry are two steps.)
ConflictsRefused ==
    \A d \in Answered : \A c \in call[d].after \cap Answered :
        /\ SameRequest(c, d)
        /\ \A e \in Calls \ {c} : call[e].pc # "idle" /\ SameRequest(e, c) => ~Overlap(c, e)
        => call[c].rev = call[d].rev /\ Fingerprint(call[c]) = Fingerprint(call[d])

\* A model is released once, unless two releases run at the same time: answers that
\* name different releases of it, whenever they were given and in whichever life of
\* the backend, go back to calls that were answered with them and that overlapped.
ReleasedOnce ==
    \A c, d \in Answered :
        /\ call[c].rev # call[d].rev
        /\ call[c].rev.draft = call[d].rev.draft
        /\ call[c].rev.draft.kind = "MODEL"
        => \E e, f \in Answered :
              call[e].rev = call[c].rev /\ call[f].rev = call[d].rev /\ Overlap(e, f)

\* A revision has an ED2 result exactly if the assessment it comes from has one,
\* whatever order its successors were stored in.
ResultFollows == \A r \in revisions : r \in results <=> r.draft.result

\* A debrief command takes its target out of use: an annotation has two successors
\* from the debrief only if the calls that made them overlapped, answered or not.
RevisedOnce ==
    \A r, s \in {r \in revisions : Debriefed(r)} :
        LET target == SubSeq(r.path, 1, Len(r.path) - 1)
        IN  /\ r # s /\ r.draft = s.draft /\ target # <<>>
            /\ SubSeq(s.path, 1, Len(s.path) - 1) = target
            => \E c, d \in Calls :
                  /\ call[c].pc # "idle" /\ call[d].pc # "idle"
                  /\ call[c].rev = r /\ call[d].rev = s /\ Overlap(c, d)
===============================================================================
