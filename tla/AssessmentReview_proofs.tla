----------------------- MODULE AssessmentReview_proofs -----------------------
(***************************************************************************)
(* What holds of the review of derived products for every set of products, *)
(* calls, request ids and times of creation.                               *)
(***************************************************************************)
EXTENDS AssessmentReview, FiniteSetTheorems, TLAPS

-----------------------------------------------------------------------------
(* Revisions: paths of steps that are transitions of their kind *)

Drafts == UNION Portfolios
States == UNION {Targets(kind) : kind \in Kinds}
Steps == [state : States, at : Stamps, by : SUBSET Requests]

Legal(r) == \A i \in 1..Len(r.path) :
    <<State([r EXCEPT !.path = SubSeq(@, 1, i - 1)]), r.path[i].state>> \in Transitions(r.draft.kind)

Revs == {r \in [draft : Drafts, path : Seq(Steps)] : Legal(r)}

\* The revision that one more step makes of r.
Extended(r, step) == [r EXCEPT !.path = Append(@, step)]

LEMMA DraftType == \A d \in Drafts : d.kind \in Kinds /\ d \in [kind : Kinds, result : BOOLEAN, fit : BOOLEAN]
                                     /\ (d.result => d.kind \in {"P4", "P5"})
  BY PortfoliosAssumption DEF Drafts

LEMMA ExtendedPath ==
    ASSUME NEW r \in [draft : Drafts, path : Seq(Steps)], NEW step \in Steps
    PROVE  /\ Extended(r, step) \in [draft : Drafts, path : Seq(Steps)]
           /\ Extended(r, step).draft = r.draft
           /\ Len(Extended(r, step).path) = Len(r.path) + 1
           /\ Extended(r, step).path # <<>>
           /\ Extended(r, step).path[Len(r.path) + 1] = step
           /\ \A i \in 1..Len(r.path) : Extended(r, step).path[i] = r.path[i]
           /\ \A n \in 0..Len(r.path) :
                 SubSeq(Extended(r, step).path, 1, n) = SubSeq(r.path, 1, n)
           /\ SubSeq(r.path, 1, Len(r.path)) = r.path
  <1>1. Extended(r, step) = [draft |-> r.draft, path |-> Append(r.path, step)]
    BY DEF Extended
  <1>2. r.path \in Seq(Steps) /\ r.draft \in Drafts
    OBVIOUS
  <1> QED
    BY <1>1, <1>2

LEMMA ExtendedLegal ==
    ASSUME NEW r \in Revs, NEW step \in Steps,
           <<State(r), step.state>> \in Transitions(r.draft.kind)
    PROVE  Extended(r, step) \in Revs
  <1> DEFINE s == Extended(r, step)
  <1>0. r \in [draft : Drafts, path : Seq(Steps)] /\ Legal(r)
    BY DEF Revs
  <1>1. /\ s \in [draft : Drafts, path : Seq(Steps)] /\ s.draft = r.draft
        /\ Len(s.path) = Len(r.path) + 1 /\ s.path[Len(r.path) + 1] = step
        /\ \A i \in 1..Len(r.path) : s.path[i] = r.path[i]
        /\ \A n \in 0..Len(r.path) : SubSeq(s.path, 1, n) = SubSeq(r.path, 1, n)
        /\ SubSeq(r.path, 1, Len(r.path)) = r.path
    BY <1>0, ExtendedPath
  <1> HIDE DEF s
  <1>2. ASSUME NEW i \in 1..Len(s.path)
        PROVE  <<State([s EXCEPT !.path = SubSeq(@, 1, i - 1)]), s.path[i].state>>
                   \in Transitions(s.draft.kind)
    <2>1. Len(r.path) \in Nat
      BY <1>0
    <2>2. i - 1 \in 0..Len(r.path)
      BY <1>1, <2>1
    <2>3. [s EXCEPT !.path = SubSeq(@, 1, i - 1)] = [r EXCEPT !.path = SubSeq(@, 1, i - 1)]
      BY <1>0, <1>1, <2>2
    <2>4. CASE i \in 1..Len(r.path)
      BY <1>0, <1>1, <2>3, <2>4 DEF Legal
    <2>5. CASE i = Len(r.path) + 1
      <3>1. [r EXCEPT !.path = SubSeq(@, 1, i - 1)] = r
        BY <1>0, <1>1, <2>1, <2>5
      <3> QED
        BY <1>1, <2>3, <2>5, <3>1
    <2> QED
      BY <1>1, <2>1, <2>4, <2>5
  <1> QED
    BY <1>1, <1>2 DEF Revs, Legal, s

\* A revision without steps is in the state in which its draft starts; one with
\* steps is in the state of the last, which its kind can reach.
LEMMA StateReached ==
    ASSUME NEW r \in Revs
    PROVE  r.path # <<>> => State(r) \in Targets(r.draft.kind)
  <1> SUFFICES ASSUME r.path # <<>> PROVE State(r) \in Targets(r.draft.kind)
    OBVIOUS
  <1>1. r.path \in Seq(Steps) /\ Legal(r)
    BY DEF Revs
  <1>2. Len(r.path) \in 1..Len(r.path)
    BY <1>1
  <1>3. <<State([r EXCEPT !.path = SubSeq(@, 1, Len(r.path) - 1)]), r.path[Len(r.path)].state>>
            \in Transitions(r.draft.kind)
    BY <1>1, <1>2 DEF Legal
  <1>4. State(r) = r.path[Len(r.path)].state
    BY DEF State
  <1> HIDE DEF Transitions
  <1> QED
    BY <1>3, <1>4 DEF Targets

-----------------------------------------------------------------------------
(* Calls: what they are about and how far they are *)

Points == Ended \cup {"look", "remember", "register", "audit", "deny"}
LiveCalls == [pc : Points, of : Revs, target : States, at : Stamps, req : Requests,
              debrief : BOOLEAN, rev : Revs, life : Nat, after : SUBSET Calls]
Idle == [pc |-> "idle"]

Begun(c) == call[c].pc # "idle"
UnderWay(c) == Begun(c) /\ call[c].pc \notin Ended

\* The same arguments, and so the same derived revision and fingerprint.
Alike(a, b) == /\ a.of = b.of /\ a.target = b.target /\ a.at = b.at /\ a.req = b.req
               /\ a.debrief = b.debrief /\ a.life = b.life /\ a.after = b.after

\* The transition that the call asks for is one of its kind.
Allowed(a) == <<State(a.of), a.target>> \in Transitions(a.of.draft.kind)

\* What a request id stands for, as the call a knows it.
Prints == {<<r>> : r \in Revs} \cup {<<d>> : d \in Drafts} \cup (Drafts \X Stamps)
          \cup (Revs \X States \X Stamps)
Memo(a) == [fingerprint |-> Fingerprint(a), rev |-> a.rev]

\* A call that may have made an entry in the memory of a workflow.
Writer(d) ==
    /\ Begun(d) /\ ~call[d].debrief
    /\ call[d].pc # "look" /\ (InM9(call[d]) => call[d].pc = "ok")
    /\ call[d].rev = Derived(call[d])

Sound(c) ==
    /\ call[c].of.draft \in drafts /\ call[c].rev.draft = call[c].of.draft
    /\ call[c].debrief => call[c].of.draft.kind = "NOTE"
    /\ call[c].debrief => call[c].pc \in Ended \cup {"look", "register"}
    /\ ~call[c].debrief => ~Debriefed(call[c].rev)
    /\ call[c].pc = "look" => call[c].rev = call[c].of
    /\ call[c].pc \in {"remember", "register", "audit"} =>
          call[c].rev = Derived(call[c]) /\ Allowed(call[c])
    /\ call[c].life <= life
    /\ UnderWay(c) => call[c].life = life
    /\ \A d \in call[c].after : Begun(d) /\ call[d].pc \in Ended

\* An entry in the memory of a workflow is one that a call of this behaviour made.
Remembered(w, q) ==
    \/ memory[w][q] = {}
    \/ \E d \in Calls : /\ Writer(d) /\ Workflow(call[d]) = w /\ call[d].req = q
                        /\ memory[w][q] = {Memo(call[d])}

CallsInv ==
    /\ call \in [Calls -> LiveCalls \cup {Idle}]
    /\ \A c \in Calls : Begun(c) => Sound(c)

StateInv ==
    /\ drafts \in Portfolios
    /\ revisions \subseteq Revs /\ \A r \in revisions : r.draft \in drafts
    /\ life \in 1..Lives
    /\ memory \in [Workflows -> [Requests -> SUBSET [fingerprint : Prints, rev : Revs]]]
    /\ \A w \in Workflows, q \in Requests : Remembered(w, q)
    /\ audit \subseteq [req : Requests, rev : Revs, outcome : {"ALLOW", "DENY"}]
    /\ \A e \in audit : Debriefed(e.rev) => e.outcome = "ALLOW" /\ e.rev \in revisions

LEMMA AlikeSame ==
    ASSUME NEW a, NEW b, Alike(a, b)
    PROVE  /\ Derived(a) = Derived(b) /\ InM9(a) = InM9(b) /\ Workflow(a) = Workflow(b)
           /\ Fingerprint(a) = Fingerprint(b) /\ Allowed(a) = Allowed(b)
           /\ StoresFirst(a) = StoresFirst(b)
  <1>1. Derived(a) = Derived(b) /\ InM9(a) = InM9(b)
    BY DEF Alike, Derived, InM9
  <1> QED
    BY <1>1 DEF Alike, Workflow, Fingerprint, Allowed, StoresFirst

LEMMA CallType == ASSUME CallsInv, NEW c \in Calls, Begun(c) PROVE call[c] \in LiveCalls
  BY DEF CallsInv, Begun, Idle

LEMMA LiveFields ==
    ASSUME NEW a \in LiveCalls
    PROVE  /\ a.pc \in Points /\ a.of \in Revs /\ a.target \in States /\ a.at \in Stamps
           /\ a.req \in Requests /\ a.debrief \in BOOLEAN /\ a.rev \in Revs /\ a.life \in Nat
           /\ a.after \subseteq Calls
           /\ a.of.draft \in Drafts /\ a.of.path \in Seq(Steps)
  BY DEF LiveCalls, Revs

\* What a permitted call derives: one step more than the revision it is about, and
\* an annotation of the debrief if and only if the call is the debrief's.
LEMMA DerivedSound ==
    ASSUME NEW a \in LiveCalls, Allowed(a), a.debrief => a.of.draft.kind = "NOTE"
    PROVE  /\ Derived(a) \in Revs /\ Derived(a).draft = a.of.draft
           /\ Derived(a).path # <<>>
           /\ SubSeq(Derived(a).path, 1, Len(Derived(a).path) - 1) = a.of.path
           /\ State(Derived(a)) = a.target
           /\ Debriefed(Derived(a)) <=> a.debrief
           /\ a.debrief => \A q : a.req = q <=> q \in Derived(a).path[Len(Derived(a).path)].by
  <1> DEFINE by == IF a.debrief \/ (a.of.draft.kind = "REC" /\ ~InM9(a)) THEN {a.req} ELSE {}
             step == [state |-> a.target, at |-> a.at, by |-> by]
  <1>0. /\ a.target \in States /\ a.at \in Stamps /\ a.req \in Requests /\ a.of \in Revs
        /\ a.of \in [draft : Drafts, path : Seq(Steps)] /\ a.debrief \in BOOLEAN
    BY LiveFields DEF Revs
  <1>1. by \in SUBSET Requests /\ (a.of.draft.kind = "NOTE" => (by # {} <=> a.debrief))
        /\ (a.debrief => by = {a.req})
    BY <1>0
  <1>2. Derived(a) = Extended(a.of, step)
    BY DEF Derived, Extended
  <1>3. step \in Steps /\ step.state = a.target /\ step.by = by
    BY <1>0, <1>1 DEF Steps
  <1> HIDE DEF step, by
  <1>4. Extended(a.of, step) \in Revs
    BY <1>0, <1>3, ExtendedLegal DEF Allowed
  <1> DEFINE s == Extended(a.of, step)
  <1>5. /\ s.draft = a.of.draft /\ s.path # <<>> /\ Len(s.path) = Len(a.of.path) + 1
        /\ s.path[Len(a.of.path) + 1] = step
        /\ \A n \in 0..Len(a.of.path) : SubSeq(s.path, 1, n) = SubSeq(a.of.path, 1, n)
        /\ SubSeq(a.of.path, 1, Len(a.of.path)) = a.of.path
    <2> HIDE DEF Steps
    <2> QED
      BY <1>0, <1>3, ExtendedPath
  <1>s. Derived(a) = s
    BY <1>2
  <1> HIDE DEF s
  <1>6. Len(a.of.path) \in Nat
    BY <1>0
  <1>7. SubSeq(Derived(a).path, 1, Len(Derived(a).path) - 1) = a.of.path
    BY <1>5, <1>6, <1>s
  <1>8. State(Derived(a)) = a.target
    BY <1>3, <1>5, <1>6, <1>s DEF State
  <1>9. Debriefed(Derived(a)) <=> a.debrief
    BY <1>1, <1>3, <1>5, <1>6, <1>s DEF Debriefed
  <1>10. a.debrief => \A q : a.req = q <=> q \in Derived(a).path[Len(Derived(a).path)].by
    BY <1>1, <1>3, <1>5, <1>6, <1>s
  <1> QED
    BY <1>2, <1>4, <1>5, <1>s, <1>7, <1>8, <1>9, <1>10

LEMMA PrintType ==
    ASSUME NEW a \in LiveCalls, Allowed(a), a.debrief => a.of.draft.kind = "NOTE"
    PROVE  Fingerprint(a) \in Prints
  <1>1. Derived(a) \in Revs
    BY DerivedSound
  <1>2. /\ a.of \in Revs /\ a.target \in States /\ a.at \in Stamps /\ a.of.draft \in Drafts
    BY LiveFields
  <1> QED
    BY <1>1, <1>2 DEF Fingerprint, Prints

-----------------------------------------------------------------------------
(* What a step does to the calls *)

\* c alone moves, to the point p, its revision unless it is set being the same.
Moves(c, p) ==
    /\ call' \in [Calls -> LiveCalls \cup {Idle}]
    /\ \A d \in Calls \ {c} : call'[d] = call[d]
    /\ call'[c] \in LiveCalls /\ Alike(call'[c], call[c]) /\ call'[c].pc = p

LEMMA GotoMoves ==
    ASSUME CallsInv, NEW c \in Calls, Begun(c), NEW p \in Points, Goto(c, p)
    PROVE  Moves(c, p) /\ call'[c].rev = call[c].rev
  <1>1. call[c] \in LiveCalls /\ call \in [Calls -> LiveCalls \cup {Idle}]
    BY CallType DEF CallsInv
  <1>2. call' = [call EXCEPT ![c] = [call[c] EXCEPT !.pc = p]]
    BY DEF Goto
  <1>3. /\ call'[c] = [call[c] EXCEPT !.pc = p]
        /\ \A d \in Calls \ {c} : call'[d] = call[d]
    BY <1>1, <1>2
  <1>4. call'[c] \in LiveCalls /\ Alike(call'[c], call[c]) /\ call'[c].pc = p
        /\ call'[c].rev = call[c].rev
    BY <1>1, <1>3 DEF Alike, LiveCalls
  <1> QED
    BY <1>1, <1>2, <1>3, <1>4 DEF Moves

\* What Look finds: the id is known for the same request, or it is new and the
\* transition is permitted, or the call ends in a failure.
LEMMA LookFinds ==
    ASSUME CallsInv, NEW c \in Calls, Look(c), \A k \in Known(call[c]) : k.rev \in Revs
    PROVE  /\ Begun(c) /\ call[c].pc = "look"
           /\ UNCHANGED <<drafts, revisions, results, superseded, audit, memory, life>>
           /\ \/ /\ \E k \in Known(call[c]) : call'[c].rev = k.rev
                 /\ \A k \in Known(call[c]) : k.fingerprint = Fingerprint(call[c])
                 /\ \/ StoresFirst(call[c]) /\ Moves(c, "ok")
                    \/ ~StoresFirst(call[c]) /\ Admitted(call[c]) /\ Moves(c, "register")
              \/ /\ Known(call[c]) = {} /\ Admitted(call[c])
                 /\ call'[c].rev = Derived(call[c])
                 /\ \/ StoresFirst(call[c]) /\ Moves(c, "register")
                    \/ ~StoresFirst(call[c]) /\ Moves(c, "remember")
              \/ /\ call'[c].rev = call[c].rev
                 /\ Moves(c, "failed") \/ (Moves(c, "deny") /\ ~call[c].debrief)
  <1> DEFINE a == call[c]
             reused == Known(a) # {} /\ ~Conflict(a) /\ (StoresFirst(a) \/ Admitted(a))
             fresh == Known(a) = {} /\ Admitted(a)
             silent == a.debrief \/ (InM9(a) /\ (Conflict(a) \/ a.of.draft.kind = "MODEL"))
             rev == IF reused THEN (CHOOSE k \in Known(a) : TRUE).rev ELSE IF fresh THEN Derived(a) ELSE a.rev
             pc == CASE reused -> AfterReuse(a)
                     [] fresh /\ StoresFirst(a) -> "register"
                     [] fresh /\ ~StoresFirst(a) -> "remember"
                     [] OTHER -> IF silent THEN "failed" ELSE "deny"
  <1>0. a.pc = "look" /\ UNCHANGED <<drafts, revisions, results, superseded, audit, memory, life>>
        /\ call' = [call EXCEPT ![c] = [call[c] EXCEPT !.rev = rev, !.pc = pc]]
    BY DEF Look
  <1>1. Begun(c) /\ a \in LiveCalls /\ call \in [Calls -> LiveCalls \cup {Idle}]
        /\ (a.debrief => a.of.draft.kind = "NOTE") /\ a.debrief \in BOOLEAN
    BY <1>0, CallType, LiveFields DEF CallsInv, Sound, Begun
  <1>2. pc \in Points
    BY DEF Points, Ended, AfterReuse
  <1>3. Admitted(a) => Allowed(a)
    BY DEF Admitted, Allowed
  <1>4. Admitted(a) => Derived(a) \in Revs
    BY <1>1, <1>3, DerivedSound
  <1>5. reused => \E k \in Known(a) : rev = k.rev
    OBVIOUS
  <1>6. rev \in Revs
    BY <1>1, <1>4, <1>5, LiveFields
  <1> HIDE DEF rev, pc
  <1>7. /\ call'[c] = [call[c] EXCEPT !.rev = rev, !.pc = pc]
        /\ \A d \in Calls \ {c} : call'[d] = call[d]
    BY <1>0, <1>1
  <1>8. Moves(c, pc) /\ call'[c].rev = rev
    <2>1. call'[c] \in LiveCalls /\ Alike(call'[c], call[c]) /\ call'[c].pc = pc
          /\ call'[c].rev = rev
      BY <1>1, <1>2, <1>6, <1>7 DEF Alike, LiveCalls
    <2> QED
      BY <1>0, <1>1, <1>7, <2>1 DEF Moves
  <1>9. CASE reused
    <2>1. \A k \in Known(a) : k.fingerprint = Fingerprint(a)
      BY <1>9 DEF Conflict
    <2>2. pc = (IF StoresFirst(a) THEN "ok" ELSE "register")
      BY <1>9 DEF pc, AfterReuse
    <2> QED
      BY <1>0, <1>1, <1>5, <1>8, <1>9, <2>1, <2>2
  <1>10. CASE fresh
    <2>1. ~reused
      BY <1>10
    <2>2. rev = Derived(a) /\ pc = (IF StoresFirst(a) THEN "register" ELSE "remember")
      BY <1>10, <2>1 DEF rev, pc
    <2> QED
      BY <1>0, <1>1, <1>8, <1>10, <2>2
  <1>11. CASE ~reused /\ ~fresh
    <2>1. rev = a.rev /\ pc = (IF silent THEN "failed" ELSE "deny")
      BY <1>11 DEF rev, pc
    <2>2. pc = "failed" \/ (pc = "deny" /\ ~a.debrief)
      BY <2>1
    <2> QED
      BY <1>0, <1>1, <1>8, <2>1, <2>2
  <1> QED
    BY <1>9, <1>10, <1>11

\* A call that begins: it is about a stored revision, and everything that has ended
\* came before it.
LEMMA ReadBegins ==
    ASSUME CallsInv, StateInv, NEW c \in Calls, NEW rev \in revisions, NEW at \in Stamps,
           NEW req \in Requests, NEW target \in Targets(rev.draft.kind), NEW debrief \in BOOLEAN,
           Read(c, rev, target, at, req, debrief)
    PROVE  /\ call[c].pc = "idle"
           /\ call' \in [Calls -> LiveCalls \cup {Idle}]
           /\ \A d \in Calls \ {c} : call'[d] = call[d]
           /\ call'[c] \in LiveCalls /\ call'[c].pc \in {"look", "failed"}
           /\ call'[c].of = rev /\ call'[c].rev = rev /\ call'[c].debrief = debrief
           /\ call'[c].life = life
           /\ call'[c].after = {d \in Calls : call[d].pc \in Ended}
           /\ debrief => rev.draft.kind = "NOTE"
           /\ ~debrief => ~Debriefed(rev)
           /\ UNCHANGED <<drafts, revisions, results, superseded, audit, memory, life>>
  <1> DEFINE pc == IF target = "RELEASED" /\ ~rev.draft.fit THEN "failed" ELSE "look"
             a == [pc |-> pc, of |-> rev, target |-> target, at |-> at, req |-> req,
                   debrief |-> debrief, rev |-> rev, life |-> life,
                   after |-> {d \in Calls : call[d].pc \in Ended}]
  <1>1. call' = [call EXCEPT ![c] = a] /\ call \in [Calls -> LiveCalls \cup {Idle}]
    BY DEF Read, CallsInv
  <1>2. pc \in {"look", "failed"} /\ {"look", "failed"} \subseteq Points
    BY DEF Points, Ended
  <1>3. rev \in Revs /\ target \in States /\ life \in Nat
    BY DraftType, LivesAssumption DEF StateInv, States, Revs
  <1> HIDE DEF pc
  <1>4. a \in LiveCalls
    BY <1>2, <1>3 DEF LiveCalls
  <1>5. call'[c] = a /\ \A d \in Calls \ {c} : call'[d] = call[d]
    BY <1>1
  <1>6. call' \in [Calls -> LiveCalls \cup {Idle}]
    BY <1>1, <1>4
  <1> QED
    BY <1>2, <1>4, <1>5, <1>6 DEF Read

-----------------------------------------------------------------------------
(* What a request id is known to stand for *)

\* Requests of one workflow with one fingerprint are about one product; outside M9
\* they derive the same revision.
LEMMA FingerprintTells ==
    ASSUME NEW a \in LiveCalls, NEW b \in LiveCalls, ~a.debrief, ~b.debrief,
           Workflow(a) = Workflow(b), a.req = b.req, Fingerprint(a) = Fingerprint(b)
    PROVE  /\ a.of.draft = b.of.draft
           /\ ~InM9(a) => Derived(a) = Derived(b)
  <1>0. a.of.draft.kind \in Kinds /\ b.of.draft.kind \in Kinds
    BY LiveFields, DraftType
  <1>1. InM9(a) <=> InM9(b)
    BY <1>0 DEF Workflow, Kinds
  <1>2. CASE ~InM9(a)
    <2>1. a.of.draft.kind \notin {"MODEL"} /\ b.of.draft.kind \notin {"MODEL"}
      BY <1>1, <1>2 DEF InM9
    <2>2. <<a.of, a.target, a.at>> = <<b.of, b.target, b.at>>
      BY <1>1, <1>2, <2>1 DEF Fingerprint
    <2>3. a.of = b.of /\ a.target = b.target /\ a.at = b.at
      BY <2>2
    <2>4. Derived(a) = Derived(b)
      BY <1>1, <1>2, <2>3 DEF Derived
    <2> QED
      BY <2>3, <2>4
  <1>3. CASE InM9(a)
    <2>1. \A x1, x2, x3, y1, y2, z : <<z>> # <<y1, y2>> /\ <<z>> # <<x1, x2, x3>> /\ <<y1, y2>> # <<x1, x2, x3>>
      OBVIOUS
    <2>2. ASSUME NEW x, InM9(x), ~x.debrief
          PROVE  \/ x.of.draft.kind = "MODEL" /\ Fingerprint(x) = <<x.of.draft, x.at>>
                 \/ x.of.draft.kind = "REC" /\ Fingerprint(x) = <<x.of.draft>>
                 \/ x.of.draft.kind = "RUN" /\ Fingerprint(x) = <<x.of, x.target, x.at>>
      BY <2>2 DEF Fingerprint, InM9
    <2>3. \/ Fingerprint(a) = <<a.of.draft, a.at>> /\ Fingerprint(b) = <<b.of.draft, b.at>>
          \/ Fingerprint(a) = <<a.of.draft>> /\ Fingerprint(b) = <<b.of.draft>>
          \/ Fingerprint(a) = <<a.of, a.target, a.at>> /\ Fingerprint(b) = <<b.of, b.target, b.at>>
      BY <1>1, <1>3, <2>1, <2>2
    <2> QED
      BY <1>3, <2>3
  <1> QED
    BY <1>2, <1>3

LEMMA KnownSound ==
    ASSUME CallsInv, StateInv, NEW c \in Calls, Begun(c)
    PROVE  /\ \A k \in Known(call[c]) : k.rev \in Revs /\ k = [fingerprint |-> k.fingerprint, rev |-> k.rev]
           /\ call[c].debrief => \A k \in Known(call[c]) :
                 /\ k.fingerprint = <<k.rev>> /\ k.rev \in revisions /\ Debriefed(k.rev)
                 /\ [req |-> call[c].req, rev |-> k.rev, outcome |-> "ALLOW"] \in audit
           /\ ~call[c].debrief =>
                 \/ Known(call[c]) = {}
                 \/ \E d \in Calls : /\ Writer(d) /\ Workflow(call[d]) = Workflow(call[c])
                                     /\ call[d].req = call[c].req
                                     /\ Known(call[c]) = {Memo(call[d])}
  <1> DEFINE a == call[c]
  <1>0. a \in LiveCalls /\ a.req \in Requests /\ a.of.draft.kind \in Kinds /\ a.debrief \in BOOLEAN
    BY CallType, LiveFields, DraftType
  <1>1. CASE a.debrief
    <2>1. Known(a) = {[fingerprint |-> <<e.rev>>, rev |-> e.rev] :
                        e \in {e \in audit : Debriefed(e.rev) /\ e.req = a.req}}
      BY <1>1 DEF Known
    <2>2. ASSUME NEW k \in Known(a)
          PROVE  /\ k.rev \in Revs /\ k = [fingerprint |-> k.fingerprint, rev |-> k.rev]
                 /\ k.fingerprint = <<k.rev>> /\ k.rev \in revisions /\ Debriefed(k.rev)
                 /\ [req |-> a.req, rev |-> k.rev, outcome |-> "ALLOW"] \in audit
      <3>1. PICK e \in audit : /\ Debriefed(e.rev) /\ e.req = a.req
                               /\ k = [fingerprint |-> <<e.rev>>, rev |-> e.rev]
        BY <2>1
      <3>2. e = [req |-> e.req, rev |-> e.rev, outcome |-> e.outcome] /\ e.outcome = "ALLOW"
            /\ e.rev \in revisions /\ e.rev \in Revs
        BY <3>1 DEF StateInv
      <3> QED
        BY <3>1, <3>2
    <2> QED
      BY <1>1, <2>2
  <1>2. CASE ~a.debrief
    <2>1. Known(a) = memory[Workflow(a)][a.req]
      BY <1>2 DEF Known
    <2>2. Workflow(a) \in Workflows
      BY <1>0 DEF Workflow, Workflows
    <2>3. memory[Workflow(a)][a.req] \in SUBSET [fingerprint : Prints, rev : Revs]
      BY <1>0, <2>2 DEF StateInv
    <2> HIDE DEF a
    <2> QED
      BY <1>0, <1>2, <2>1, <2>2, <2>3 DEF StateInv, Remembered, a
  <1> QED
    BY <1>0, <1>1, <1>2

\* An answer that is known for the same request is one for the same product, and one
\* that is still to be stored is the revision that the call derives itself.
LEMMA ReuseSound ==
    ASSUME CallsInv, StateInv, NEW c \in Calls, Begun(c), NEW k \in Known(call[c]),
           k.fingerprint = Fingerprint(call[c])
    PROVE  /\ k = [fingerprint |-> Fingerprint(call[c]), rev |-> k.rev]
           /\ k.rev.draft = call[c].of.draft
           /\ ~call[c].debrief => ~Debriefed(k.rev)
           /\ ~InM9(call[c]) => k.rev = Derived(call[c])
  <1> DEFINE a == call[c]
  <1>0. /\ a \in LiveCalls /\ a.debrief \in BOOLEAN /\ (a.debrief => a.of.draft.kind = "NOTE")
        /\ k = [fingerprint |-> Fingerprint(a), rev |-> k.rev]
    BY CallType, LiveFields, KnownSound DEF CallsInv, Sound
  <1>1. CASE a.debrief
    <2>1. <<k.rev>> = <<Derived(a)>>
      BY <1>0, <1>1, KnownSound DEF Fingerprint
    <2>2. k.rev = Derived(a)
      BY <2>1
    <2>3. Derived(a).draft = a.of.draft
      BY <1>0, LiveFields DEF Derived, Revs
    <2> QED
      BY <1>0, <1>1, <2>2, <2>3
  <1>2. CASE ~a.debrief
    <2>1. PICK d \in Calls : /\ Writer(d) /\ Workflow(call[d]) = Workflow(a)
                             /\ call[d].req = a.req /\ Known(a) = {Memo(call[d])}
      BY <1>2, KnownSound
    <2>2. k.rev = call[d].rev /\ Fingerprint(call[d]) = Fingerprint(a) /\ Begun(d)
          /\ ~call[d].debrief /\ call[d].rev = Derived(call[d])
      BY <2>1 DEF Memo, Writer
    <2>3. call[d] \in LiveCalls /\ call[d].rev.draft = call[d].of.draft
          /\ ~Debriefed(call[d].rev)
      BY <2>2, CallType DEF CallsInv, Sound
    <2>4. call[d].of.draft = a.of.draft /\ (~InM9(a) => Derived(call[d]) = Derived(a))
      BY <1>0, <1>2, <2>1, <2>2, <2>3, FingerprintTells
    <2> QED
      BY <1>0, <1>2, <2>2, <2>3, <2>4
  <1> QED
    BY <1>0, <1>1, <1>2

-----------------------------------------------------------------------------
(* The calls and the state stay sound *)

LEMMA MovedSound ==
    ASSUME CallsInv, NEW c \in Calls, Begun(c), NEW p \in Points, Moves(c, p),
           UNCHANGED <<drafts, life>>, call[c].pc \notin Ended,
           call'[c].rev.draft = call[c].of.draft,
           ~call[c].debrief => ~Debriefed(call'[c].rev),
           call[c].debrief => p \in Ended \cup {"look", "register"},
           p = "look" => call'[c].rev = call[c].of,
           p \in {"remember", "register", "audit"} =>
               call'[c].rev = Derived(call[c]) /\ Allowed(call[c])
    PROVE  CallsInv'
  <1>0. /\ p # "idle" /\ call'[c] \in LiveCalls /\ call'[c].pc = p /\ Alike(call'[c], call[c])
        /\ call' \in [Calls -> LiveCalls \cup {Idle}]
        /\ \A d \in Calls \ {c} : call'[d] = call[d]
    BY DEF Moves, Points, Ended
  <1>1. \A d \in Calls : Begun(d) /\ call[d].pc \in Ended => Begun(d)' /\ call'[d].pc \in Ended
    BY <1>0 DEF Begun
  <1>2. Sound(c)
    BY DEF CallsInv
  <1>3. Derived(call'[c]) = Derived(call[c]) /\ Allowed(call'[c]) = Allowed(call[c])
    BY <1>0, AlikeSame
  <1>4. Sound(c)'
    BY <1>0, <1>1, <1>2, <1>3, CallType, LiveFields DEF Sound, Alike, Begun, UnderWay
  <1>5. ASSUME NEW d \in Calls \ {c}, Begun(d)' PROVE Sound(d)'
    <2>1. Begun(d) /\ Sound(d) /\ call'[d] = call[d] /\ call[d] \in LiveCalls
      BY <1>0, <1>5, CallType DEF CallsInv, Begun
    <2> QED
      BY <1>1, <2>1, LiveFields DEF Sound, Begun, UnderWay
  <1> QED
    BY <1>0, <1>4, <1>5 DEF CallsInv

LEMMA CallsStep == CallsInv /\ StateInv /\ [Next]_vars => CallsInv'
  <1> SUFFICES ASSUME CallsInv, StateInv, [Next]_vars PROVE CallsInv'
    OBVIOUS
  <1>p. {"ok", "failed"} = Ended /\ "idle" \notin Points
        /\ {"ok", "failed", "look", "remember", "register", "audit", "deny"} = Points
    BY DEF Points, Ended
  <1>1. ASSUME NEW c \in Calls, NEW rev \in revisions, NEW at \in Stamps, NEW req \in Requests,
               NEW target \in Targets(rev.draft.kind), NEW debrief \in BOOLEAN,
               Read(c, rev, target, at, req, debrief)
        PROVE  CallsInv'
    <2>1. /\ call[c].pc = "idle"
          /\ call' \in [Calls -> LiveCalls \cup {Idle}]
          /\ \A d \in Calls \ {c} : call'[d] = call[d]
          /\ call'[c] \in LiveCalls /\ call'[c].pc \in {"look", "failed"}
          /\ call'[c].of = rev /\ call'[c].rev = rev /\ call'[c].debrief = debrief
          /\ call'[c].life = life
          /\ call'[c].after = {d \in Calls : call[d].pc \in Ended}
          /\ debrief => rev.draft.kind = "NOTE"
          /\ ~debrief => ~Debriefed(rev)
          /\ UNCHANGED <<drafts, revisions, results, superseded, audit, memory, life>>
      BY <1>1, ReadBegins
    <2>2. \A d \in Calls : call[d].pc \in Ended => Begun(d)' /\ call'[d].pc \in Ended
      BY <1>p, <2>1 DEF Begun
    <2>3. Sound(c)'
      BY <1>p, <2>1, <2>2 DEF Sound, UnderWay, StateInv
    <2>4. ASSUME NEW d \in Calls \ {c}, Begun(d)' PROVE Sound(d)'
      <3>1. Begun(d) /\ Sound(d) /\ call'[d] = call[d] /\ call[d].after \subseteq Calls
        BY <2>1, <2>4, CallType, LiveFields DEF CallsInv, Begun
      <3> QED
        BY <2>1, <2>2, <3>1 DEF Sound, Begun, UnderWay
    <2> QED
      BY <2>1, <2>3, <2>4 DEF CallsInv
  <1>2. ASSUME NEW c \in Calls, Look(c) PROVE CallsInv'
    <2>1. Begun(c) /\ call[c].pc = "look" /\ UNCHANGED <<drafts, life>>
      BY <1>2 DEF Look, Begun
    <2>2. call[c] \in LiveCalls /\ call[c].debrief \in BOOLEAN /\ Sound(c)
      BY <2>1, CallType, LiveFields DEF CallsInv
    <2>3. Admitted(call[c]) => Allowed(call[c])
      BY DEF Admitted, Allowed
    <2>4. \A k \in Known(call[c]) : k.rev \in Revs
      BY <2>1, KnownSound
    <2>5. Allowed(call[c]) => /\ Derived(call[c]).draft = call[c].of.draft
                              /\ Debriefed(Derived(call[c])) <=> call[c].debrief
      BY <2>2, DerivedSound DEF Sound
    <2>6. CASE /\ \E k \in Known(call[c]) : call'[c].rev = k.rev
               /\ \A k \in Known(call[c]) : k.fingerprint = Fingerprint(call[c])
               /\ \/ StoresFirst(call[c]) /\ Moves(c, "ok")
                  \/ ~StoresFirst(call[c]) /\ Admitted(call[c]) /\ Moves(c, "register")
      <3>1. /\ call'[c].rev.draft = call[c].of.draft
            /\ ~call[c].debrief => ~Debriefed(call'[c].rev)
            /\ ~StoresFirst(call[c]) => call'[c].rev = Derived(call[c])
        BY <2>1, <2>6, ReuseSound DEF StoresFirst
      <3> QED
        BY <1>p, <2>1, <2>2, <2>3, <2>6, <3>1, MovedSound DEF StoresFirst
    <2>7. CASE /\ Known(call[c]) = {} /\ Admitted(call[c])
               /\ call'[c].rev = Derived(call[c])
               /\ \/ StoresFirst(call[c]) /\ Moves(c, "register")
                  \/ ~StoresFirst(call[c]) /\ Moves(c, "remember")
      BY <1>p, <2>1, <2>2, <2>3, <2>5, <2>7, MovedSound DEF StoresFirst
    <2>8. CASE /\ call'[c].rev = call[c].rev
               /\ Moves(c, "failed") \/ (Moves(c, "deny") /\ ~call[c].debrief)
      BY <1>p, <2>1, <2>2, <2>8, MovedSound DEF Sound
    <2> QED
      BY <1>2, <2>4, <2>6, <2>7, <2>8, LookFinds
  <1>3. ASSUME NEW c \in Calls, NEW p \in Points \ {"look"}, Goto(c, p), UNCHANGED <<drafts, life>>,
               call[c].pc \in {"remember", "register", "audit", "deny"},
               call[c].debrief => p \in Ended \cup {"register"},
               p \in {"remember", "register", "audit"} =>
                   call[c].pc \in {"remember", "register", "audit"}
        PROVE  CallsInv'
    <2>1. Begun(c) /\ Sound(c) /\ call[c].pc \notin Ended
      BY <1>p, <1>3 DEF CallsInv, Begun
    <2>2. Moves(c, p) /\ call'[c].rev = call[c].rev
      BY <1>3, <2>1, GotoMoves
    <2> QED
      BY <1>3, <2>1, <2>2, MovedSound DEF Sound
  <1>4. ASSUME NEW c \in Calls, Remember(c) \/ Register(c) \/ Annotate(c) \/ Audit(c) \/ Deny(c) \/ Fail(c)
        PROVE  CallsInv'
    <2>1. Begun(c) /\ Sound(c)
      BY <1>4 DEF Remember, Register, Annotate, Audit, Deny, Fail, CallsInv, Begun
    <2>2. CASE Remember(c)
      BY <1>p, <1>3, <2>1, <2>2 DEF Remember, Sound
    <2>3. CASE Register(c)
      BY <1>p, <1>3, <2>3 DEF Register
    <2>4. CASE Annotate(c)
      BY <1>p, <1>3, <2>4 DEF Annotate
    <2>5. CASE Audit(c)
      BY <1>p, <1>3, <2>1, <2>5 DEF Audit, Sound
    <2>6. CASE Deny(c) \/ Fail(c)
      BY <1>p, <1>3, <2>6 DEF Deny, Fail
    <2> QED
      BY <1>4, <2>2, <2>3, <2>4, <2>5, <2>6
  <1>5. CASE Restart
    <2>1. /\ life' = life + 1 /\ drafts' = drafts /\ life \in Nat
          /\ \A c \in Calls : call'[c] = IF call[c].pc \in Ended \cup {"idle"} THEN call[c]
                                         ELSE [call[c] EXCEPT !.pc = "failed"]
          /\ call' = [c \in Calls |-> call'[c]]
      BY <1>5, LivesAssumption DEF Restart, StateInv
    <2>2. ASSUME NEW c \in Calls
          PROVE  /\ call'[c] \in LiveCalls \cup {Idle}
                 /\ Begun(c)' <=> Begun(c)
                 /\ Begun(c) => /\ call'[c].pc \in Ended /\ Alike(call'[c], call[c])
                                /\ call'[c].rev = call[c].rev
      <3>1. CASE call[c].pc \in Ended \cup {"idle"}
        BY <2>1, <3>1 DEF CallsInv, Begun, Alike
      <3>2. CASE call[c].pc \notin Ended \cup {"idle"}
        <4>1. call[c] \in LiveCalls /\ call'[c] = [call[c] EXCEPT !.pc = "failed"]
          BY <2>1, <3>2, CallType DEF Begun
        <4> QED
          BY <1>p, <3>2, <4>1 DEF Begun, Alike, LiveCalls
      <3> QED
        BY <3>1, <3>2
    <2>3. ASSUME NEW c \in Calls, Begun(c)' PROVE Sound(c)'
      <3>1. Begun(c) /\ Sound(c) /\ call[c].life \in Nat /\ call[c].after \subseteq Calls
        BY <2>2, <2>3, CallType, LiveFields DEF CallsInv
      <3> QED
        BY <1>p, <2>1, <2>2, <3>1 DEF Sound, Alike, UnderWay
    <2> QED
      BY <2>1, <2>2, <2>3 DEF CallsInv
  <1>6. CASE UNCHANGED vars
    BY <1>6 DEF vars, CallsInv, Sound, Begun, UnderWay
  <1> QED
    BY <1>1, <1>2, <1>4, <1>5, <1>6 DEF Next

\* A call keeps its arguments once it has begun, its revision once it has looked, and
\* everything once it has ended.
LEMMA CallsStay ==
    ASSUME CallsInv, StateInv, [Next]_vars, NEW d \in Calls, Begun(d)
    PROVE  /\ Begun(d)' /\ Alike(call'[d], call[d])
           /\ call[d].pc # "look" => call'[d].rev = call[d].rev /\ call'[d].pc # "look"
           /\ call[d].pc \in Ended => call'[d] = call[d]
  <1>p. {"ok", "failed"} = Ended /\ "idle" \notin Points /\ Ended \subseteq Points
        /\ {"look", "remember", "register", "audit", "deny"} \subseteq Points
    BY DEF Points, Ended
  <1>0. ASSUME call'[d] = call[d]
        PROVE  /\ Begun(d)' /\ Alike(call'[d], call[d])
               /\ call[d].pc # "look" => call'[d].rev = call[d].rev /\ call'[d].pc # "look"
               /\ call[d].pc \in Ended => call'[d] = call[d]
    BY <1>0 DEF Begun, Alike
  <1>1. CASE \E c \in Calls \ {d} :
               \/ \E rev \in revisions, at \in Stamps, req \in Requests :
                     \E target \in Targets(rev.draft.kind), debrief \in BOOLEAN :
                        Read(c, rev, target, at, req, debrief)
               \/ \E p \in Points : Moves(c, p)
    BY <1>0, <1>1, ReadBegins DEF Moves
  <1>2. CASE \E p \in Points \ {"look"} :
                /\ Moves(d, p) /\ call[d].pc \notin Ended
                /\ call[d].pc # "look" => call'[d].rev = call[d].rev
    BY <1>p, <1>2 DEF Moves, Begun
  <1>3. ASSUME NEW c \in Calls, Look(c) PROVE \E p \in Points \ {"look"} : Moves(c, p) /\ call[c].pc = "look"
    <2>1. \A k \in Known(call[c]) : k.rev \in Revs
      BY <1>3, KnownSound DEF Look, Begun
    <2> QED
      BY <1>p, <1>3, <2>1, LookFinds
  <1>4. ASSUME NEW c \in Calls,
               Remember(c) \/ Register(c) \/ Annotate(c) \/ Audit(c) \/ Deny(c) \/ Fail(c)
        PROVE  \E p \in Points \ {"look"} :
                  Moves(c, p) /\ call[c].pc \notin Ended /\ call'[c].rev = call[c].rev
    <2>1. \E p \in Points \ {"look"} : Goto(c, p)
      BY <1>p, <1>4 DEF Remember, Register, Annotate, Audit, Deny, Fail
    <2>2. Begun(c) /\ call[c].pc \notin Ended
      BY <1>p, <1>4 DEF Remember, Register, Annotate, Audit, Deny, Fail, Begun
    <2> QED
      BY <2>1, <2>2, GotoMoves
  <1>5. CASE Restart
    <2>1. call'[d] = IF call[d].pc \in Ended \cup {"idle"} THEN call[d]
                     ELSE [call[d] EXCEPT !.pc = "failed"]
      BY <1>5 DEF Restart
    <2>2. CASE call[d].pc \notin Ended
      <3>1. call'[d] = [call[d] EXCEPT !.pc = "failed"] /\ call[d] \in LiveCalls
        BY <2>1, <2>2, CallType DEF Begun
      <3> QED
        BY <2>2, <3>1 DEF Begun, Alike, LiveCalls
    <2> QED
      BY <1>0, <2>1, <2>2
  <1>6. CASE UNCHANGED vars
    BY <1>0, <1>6 DEF vars
  <1>7. ASSUME NEW c \in Calls,
               \/ \E rev \in revisions, at \in Stamps, req \in Requests :
                     \E target \in Targets(rev.draft.kind), debrief \in BOOLEAN :
                        Read(c, rev, target, at, req, debrief)
               \/ Look(c) \/ Remember(c) \/ Register(c) \/ Annotate(c) \/ Audit(c) \/ Deny(c) \/ Fail(c)
        PROVE  /\ Begun(d)' /\ Alike(call'[d], call[d])
               /\ call[d].pc # "look" => call'[d].rev = call[d].rev /\ call'[d].pc # "look"
               /\ call[d].pc \in Ended => call'[d] = call[d]
    <2>1. CASE c # d
      BY <1>1, <1>3, <1>4, <1>7, <2>1
    <2>2. CASE c = d /\ Look(c)
      <3>1. \E p \in Points \ {"look"} : Moves(d, p) /\ call[d].pc = "look"
        BY <1>3, <2>2
      <3> QED
        BY <1>2, <1>p, <3>1
    <2>3. CASE c = d /\ (Remember(c) \/ Register(c) \/ Annotate(c) \/ Audit(c) \/ Deny(c) \/ Fail(c))
      BY <1>2, <1>4, <2>3
    <2>4. CASE c = d /\ \E rev \in revisions, at \in Stamps, req \in Requests :
                          \E target \in Targets(rev.draft.kind), debrief \in BOOLEAN :
                             Read(c, rev, target, at, req, debrief)
      BY <2>4 DEF Read, Begun
    <2> QED
      BY <1>7, <2>1, <2>2, <2>3, <2>4
  <1> QED
    BY <1>5, <1>6, <1>7 DEF Next

\* Only a model's revisions are ever replaced.
LEMMA CommitKeeps ==
    ASSUME NEW rev
    PROVE  /\ rev \in Commit(rev)
           /\ \A r \in Commit(rev) : r = rev \/ r \in revisions
           /\ \A r \in revisions : r \in Commit(rev) \/ (r.draft = rev.draft /\ r.draft.kind = "MODEL")
           /\ rev.draft.kind = "MODEL" => \A r \in Commit(rev) : r.draft = rev.draft => r = rev
  BY DEF Commit

\* Only a registration and an annotation write revisions and results.
LEMMA WritersOfRevisions ==
    ASSUME [Next]_vars
    PROVE  (\E c \in Calls : Register(c) \/ Annotate(c)) \/ UNCHANGED <<revisions, results, superseded>>
  <1>1. ASSUME NEW c \in Calls,
               \E rev \in revisions, at \in Stamps, req \in Requests :
                  \E target \in Targets(rev.draft.kind), debrief \in BOOLEAN :
                     Read(c, rev, target, at, req, debrief)
        PROVE  UNCHANGED <<revisions, results, superseded>>
    BY <1>1 DEF Read
  <1>2. ASSUME NEW c \in Calls, Look(c) \/ Remember(c) \/ Audit(c) PROVE UNCHANGED <<revisions, results, superseded>>
    BY <1>2 DEF Look, Remember, Audit
  <1>3. ASSUME NEW c \in Calls, Deny(c) \/ Fail(c) PROVE UNCHANGED <<revisions, results, superseded>>
    BY <1>3 DEF Deny, Fail
  <1>4. Restart \/ UNCHANGED vars => UNCHANGED <<revisions, results, superseded>>
    BY DEF Restart, vars
  <1> QED
    BY <1>1, <1>2, <1>3, <1>4 DEF Next

LEMMA RevisionsStay ==
    ASSUME [Next]_vars, NEW r \in revisions, r.draft.kind # "MODEL"
    PROVE  r \in revisions'
  <1>1. ASSUME NEW c \in Calls, Register(c) PROVE r \in revisions'
    BY <1>1, CommitKeeps DEF Register
  <1>2. ASSUME NEW c \in Calls, Annotate(c) PROVE r \in revisions'
    BY <1>2 DEF Annotate
  <1> QED
    BY <1>1, <1>2, WritersOfRevisions

LEMMA MemoryStays ==
    ASSUME CallsInv, StateInv, [Next]_vars, NEW w \in Workflows, NEW q \in Requests,
           memory'[w][q] = memory[w][q]
    PROVE  Remembered(w, q)'
  <1>1. CASE memory[w][q] = {}
    BY <1>1 DEF Remembered
  <1>2. CASE \E d \in Calls : /\ Writer(d) /\ Workflow(call[d]) = w /\ call[d].req = q
                              /\ memory[w][q] = {Memo(call[d])}
    <2>1. PICK d \in Calls : /\ Writer(d) /\ Workflow(call[d]) = w /\ call[d].req = q
                             /\ memory[w][q] = {Memo(call[d])}
      BY <1>2
    <2>2. /\ Begun(d)' /\ Alike(call'[d], call[d]) /\ call'[d].rev = call[d].rev
          /\ call[d].pc \in Ended => call'[d] = call[d]
          /\ call'[d].pc # "look"
      BY <2>1, CallsStay DEF Writer
    <2>3. /\ Derived(call'[d]) = Derived(call[d]) /\ InM9(call'[d]) = InM9(call[d])
          /\ Workflow(call'[d]) = Workflow(call[d]) /\ Fingerprint(call'[d]) = Fingerprint(call[d])
      BY <2>2, AlikeSame
    <2>5. Writer(d)'
      BY <2>1, <2>2, <2>3 DEF Writer, Ended, Alike
    <2>6. Memo(call'[d]) = Memo(call[d])
      BY <2>2, <2>3 DEF Memo
    <2> QED
      BY <2>1, <2>2, <2>3, <2>5, <2>6 DEF Remembered, Alike
  <1> QED
    BY <1>1, <1>2 DEF StateInv, Remembered

LEMMA StateStep == CallsInv /\ StateInv /\ [Next]_vars => StateInv'
  <1> SUFFICES ASSUME CallsInv, StateInv, [Next]_vars PROVE StateInv'
    OBVIOUS
  <1>1. \A r \in revisions : r.draft.kind # "MODEL" => r \in revisions'
    BY RevisionsStay
  <1>2. ASSUME UNCHANGED <<revisions, memory, audit>>, drafts' = drafts, life' \in 1..Lives
        PROVE  StateInv'
    <2>1. \A w \in Workflows, q \in Requests : Remembered(w, q)'
      BY <1>2, MemoryStays
    <2> QED
      BY <1>2, <2>1 DEF StateInv
  <1>3. ASSUME NEW c \in Calls, Remember(c) PROVE StateInv'
    <2> DEFINE a == call[c]
    <2>1. Begun(c) /\ a \in LiveCalls /\ Sound(c) /\ ~a.debrief /\ a.pc = "remember"
      BY <1>3, CallType, LiveFields DEF Remember, Begun, CallsInv, Sound, Ended
    <2>2. a.req \in Requests /\ a.rev \in Revs /\ a.of.draft.kind \in Kinds
          /\ a.rev = Derived(a) /\ Allowed(a) /\ Fingerprint(a) \in Prints
      BY <2>1, LiveFields, DraftType, PrintType DEF Sound
    <2>3. Workflow(a) \in Workflows
      BY <2>1, <2>2 DEF Workflow, Workflows
    <2> PICK w0 \in Workflows, q0 \in Requests : w0 = Workflow(a) /\ q0 = a.req
      BY <2>2, <2>3
    <2>4. memory' = [memory EXCEPT ![w0][q0] = {Memo(a)}]
          /\ UNCHANGED <<drafts, revisions, audit, life>>
      BY <1>3 DEF Remember, Memo
    <2>5. {Memo(a)} \in SUBSET [fingerprint : Prints, rev : Revs]
      BY <2>2 DEF Memo
    <2>6. \E p \in {"ok", "register"} : Moves(c, p) /\ (InM9(a) => p = "ok") /\ call'[c].rev = a.rev
      <3>1. Goto(c, IF InM9(a) THEN "ok" ELSE "register")
        BY <1>3 DEF Remember
      <3>2. {"ok", "register"} \subseteq Points
        BY DEF Points, Ended
      <3> QED
        BY <2>1, <3>1, <3>2, GotoMoves
    <2>7. /\ Begun(c)' /\ Alike(call'[c], a) /\ call'[c].rev = a.rev
          /\ call'[c].pc # "look" /\ (InM9(a) => call'[c].pc = "ok")
      BY <2>6 DEF Moves, Begun
    <2>8. /\ Derived(call'[c]) = Derived(a) /\ InM9(call'[c]) = InM9(a)
          /\ Workflow(call'[c]) = w0 /\ Fingerprint(call'[c]) = Fingerprint(a)
      BY <2>7, AlikeSame
    <2>9. Writer(c)' /\ Memo(call'[c]) = Memo(a) /\ call'[c].req = q0
      BY <2>1, <2>2, <2>7, <2>8 DEF Writer, Memo, Alike
    <2> HIDE DEF a
    <2>10. memory' \in [Workflows -> [Requests -> SUBSET [fingerprint : Prints, rev : Revs]]]
      BY <2>2, <2>3, <2>4, <2>5 DEF StateInv
    <2>11. memory'[w0][q0] = {Memo(a)}
           /\ \A w \in Workflows, q \in Requests :
                 <<w, q>> # <<w0, q0>> => memory'[w][q] = memory[w][q]
      BY <2>2, <2>3, <2>4 DEF StateInv
    <2>12. \A w \in Workflows, q \in Requests : Remembered(w, q)'
      <3>1. Remembered(w0, q0)'
        BY <2>8, <2>9, <2>11 DEF Remembered
      <3> QED
        BY <2>11, <3>1, MemoryStays
    <2> QED
      BY <2>4, <2>10, <2>12 DEF StateInv
  <1>4. ASSUME NEW c \in Calls, Register(c) PROVE StateInv'
    <2>1. Begun(c) /\ Sound(c) /\ call[c].rev \in Revs
      BY <1>4, CallType, LiveFields DEF Register, Begun, CallsInv
    <2>2. /\ revisions' = Commit(call[c].rev) /\ UNCHANGED <<drafts, audit, memory, life>>
      BY <1>4 DEF Register
    <2>3. revisions' \subseteq Revs /\ \A r \in revisions' : r.draft \in drafts
      BY <2>1, <2>2, CommitKeeps DEF StateInv, Sound
    <2>4. \A w \in Workflows, q \in Requests : Remembered(w, q)'
      BY <2>2, MemoryStays
    <2>5. \A e \in audit : Debriefed(e.rev) => e.outcome = "ALLOW" /\ e.rev \in revisions'
      BY <1>1 DEF StateInv, Debriefed
    <2> QED
      BY <2>2, <2>3, <2>4, <2>5 DEF StateInv
  <1>5. ASSUME NEW c \in Calls, Annotate(c) PROVE StateInv'
    <2>1. Begun(c) /\ Sound(c) /\ call[c].rev \in Revs /\ call[c].req \in Requests
      BY <1>5, CallType, LiveFields DEF Annotate, Begun, CallsInv
    <2>2. /\ revisions' = revisions \cup {call[c].rev}
          /\ audit' = audit \cup {[req |-> call[c].req, rev |-> call[c].rev, outcome |-> "ALLOW"]}
          /\ UNCHANGED <<drafts, memory, life>>
      BY <1>5 DEF Annotate, Entry
    <2>3. \A w \in Workflows, q \in Requests : Remembered(w, q)'
      BY <2>2, MemoryStays
    <2> QED
      BY <2>1, <2>2, <2>3 DEF StateInv, Sound
  <1>6. ASSUME NEW c \in Calls, Audit(c) \/ Deny(c) PROVE StateInv'
    <2>1. Begun(c) /\ Sound(c) /\ call[c].rev \in Revs /\ call[c].req \in Requests
          /\ call[c].debrief \in BOOLEAN
      BY <1>6, CallType, LiveFields DEF Audit, Deny, Begun, CallsInv
    <2>2. PICK outcome \in {"ALLOW", "DENY"} :
              audit' = audit \cup {[req |-> call[c].req, rev |-> call[c].rev, outcome |-> outcome]}
      BY <1>6 DEF Audit, Deny, Entry
    <2>3. UNCHANGED <<drafts, revisions, memory, life>>
      BY <1>6 DEF Audit, Deny
    <2>4. ~Debriefed(call[c].rev)
      BY <1>6, <2>1 DEF Sound, Audit, Deny, Ended
    <2>5. \A w \in Workflows, q \in Requests : Remembered(w, q)'
      BY <2>3, MemoryStays
    <2> QED
      BY <2>1, <2>2, <2>3, <2>4, <2>5 DEF StateInv
  <1>7. CASE Restart
    <2>1. memory' = [w \in Workflows |-> [q \in Requests |-> {}]] /\ life' \in 1..Lives
          /\ UNCHANGED <<drafts, revisions, audit>>
      BY <1>7, LivesAssumption DEF Restart, StateInv
    <2>2. \A w \in Workflows, q \in Requests : Remembered(w, q)'
      BY <2>1 DEF Remembered
    <2> QED
      BY <2>1, <2>2 DEF StateInv
  <1>8. CASE \E c \in Calls :
              \/ \E rev \in revisions, at \in Stamps, req \in Requests :
                    \E target \in Targets(rev.draft.kind), debrief \in BOOLEAN :
                       Read(c, rev, target, at, req, debrief)
              \/ Look(c) \/ Fail(c)
    <2>1. ASSUME NEW c \in Calls,
                 \E rev \in revisions, at \in Stamps, req \in Requests :
                    \E target \in Targets(rev.draft.kind), debrief \in BOOLEAN :
                       Read(c, rev, target, at, req, debrief)
          PROVE  UNCHANGED <<revisions, memory, audit, drafts, life>>
      BY <2>1 DEF Read
    <2>2. ASSUME NEW c \in Calls, Look(c) \/ Fail(c)
          PROVE  UNCHANGED <<revisions, memory, audit, drafts, life>>
      BY <2>2 DEF Look, Fail
    <2>3. UNCHANGED <<revisions, memory, audit, drafts, life>>
      BY <1>8, <2>1, <2>2
    <2> QED
      BY <1>2, <2>3 DEF StateInv
  <1>9. CASE UNCHANGED vars
    BY <1>2, <1>9 DEF vars, StateInv
  <1> QED
    BY <1>3, <1>4, <1>5, <1>6, <1>7, <1>8, <1>9 DEF Next

LEMMA SoundInit == Init => CallsInv /\ StateInv
  <1> SUFFICES ASSUME Init PROVE CallsInv /\ StateInv
    OBVIOUS
  <1>1. CallsInv
    BY DEF Init, CallsInv, Begun, Idle
  <1>2. revisions \subseteq Revs /\ \A r \in revisions : r.draft \in drafts
    <2>1. ASSUME NEW d \in drafts
          PROVE  [draft |-> d, path |-> <<>>] \in Revs
      <3>1. d \in Drafts
        BY DEF Init, Drafts
      <3>2. 1..Len(<<>>) = {} /\ <<>> \in Seq(Steps)
        OBVIOUS
      <3> QED
        BY <3>1, <3>2 DEF Revs, Legal
    <2> QED
      BY <2>1 DEF Init
  <1>3. \A w \in Workflows, q \in Requests : Remembered(w, q)
    BY DEF Init, Remembered
  <1> QED
    BY <1>1, <1>2, <1>3, LivesAssumption DEF Init, StateInv

-----------------------------------------------------------------------------
(* Results follow the assessments they belong to *)

ResultsInv ==
    /\ results \subseteq revisions /\ ResultFollows
    /\ superseded \subseteq revisions /\ \A r \in superseded : r.draft.kind = "NOTE"
    /\ \A c \in Calls : Begun(c) /\ call[c].of.draft.kind # "MODEL" => call[c].of \in revisions

LEMMA ResultsStep == CallsInv /\ StateInv /\ ResultsInv /\ [Next]_vars => ResultsInv'
  <1> SUFFICES ASSUME CallsInv, StateInv, ResultsInv, [Next]_vars PROVE ResultsInv'
    OBVIOUS
  <1>0. \A r \in revisions \cup revisions' :
            /\ r.draft.kind \in Kinds /\ (r.draft.result => r.draft.kind \in {"P4", "P5"})
    BY StateStep, DraftType DEF StateInv, Revs
  <1>1. \A r \in revisions : r.draft.kind # "MODEL" => r \in revisions'
    BY RevisionsStay
  <1>2. ASSUME NEW c \in Calls, Begun(c)', call'[c].of.draft.kind # "MODEL"
        PROVE  call'[c].of \in revisions'
    <2>1. CASE Begun(c)
      <3>1. call'[c].of = call[c].of
        BY <2>1, CallsStay DEF Alike
      <3> QED
        BY <1>1, <1>2, <2>1, <3>1 DEF ResultsInv
    <2>2. CASE ~Begun(c)
      <3>1. PICK d \in Calls, rev \in revisions, at \in Stamps, req \in Requests :
                 \E target \in Targets(rev.draft.kind), debrief \in BOOLEAN :
                    Read(d, rev, target, at, req, debrief)
        <4>1. ASSUME NEW p, NEW d \in Calls, Begun(d), Goto(d, p) PROVE call'[c] = call[c]
          BY <2>2, <4>1 DEF Goto, CallsInv
        <4> QED
          BY <1>2, <2>2, <4>1 DEF Next, vars, Look, Remember, Register, Annotate, Audit, Deny, Fail,
                                  Restart, Begun, CallsInv
      <3>2. call'[c].of = rev /\ revisions' = revisions
        BY <1>2, <2>2, <3>1, ReadBegins DEF Begun
      <3> QED
        BY <3>2
    <2> QED
      BY <2>1, <2>2
  <1>3. CASE UNCHANGED <<revisions, results, superseded>>
    BY <1>2, <1>3 DEF ResultsInv, ResultFollows
  <1>4. ASSUME NEW c \in Calls, Register(c) PROVE ResultsInv'
    <2> DEFINE a == call[c]
    <2>1. /\ Begun(c) /\ Sound(c) /\ a.of.draft \in Drafts /\ a.rev.draft = a.of.draft
      BY <1>4, CallType, LiveFields DEF Register, Begun, CallsInv, Sound
    <2>2. /\ revisions' = Commit(a.rev) /\ results' = results \cup Continued(a)
          /\ superseded' = superseded
      BY <1>4 DEF Register
    <2>3. Continued(a) = IF a.rev.draft.result THEN {a.rev} ELSE {}
      <3>1. a.of \in results <=> a.of.draft.result
        BY <2>1, DraftType DEF ResultsInv, ResultFollows
      <3> QED
        BY <2>1, <3>1 DEF Continued
    <2>4. \A r \in results : r.draft.kind # "MODEL"
      BY <1>0 DEF ResultsInv, ResultFollows
    <2>5. /\ a.rev \in revisions' /\ \A r \in revisions' : r = a.rev \/ r \in revisions
      BY <2>2, CommitKeeps
    <2>6. results' \subseteq revisions' /\ superseded' \subseteq revisions'
      BY <1>1, <2>2, <2>3, <2>4, <2>5 DEF ResultsInv
    <2>7. ResultFollows'
      BY <2>2, <2>3, <2>5 DEF ResultsInv, ResultFollows
    <2> QED
      BY <1>2, <2>2, <2>6, <2>7 DEF ResultsInv
  <1>5. ASSUME NEW c \in Calls, Annotate(c) PROVE ResultsInv'
    <2> DEFINE a == call[c]
    <2>1. /\ Begun(c) /\ Sound(c) /\ a.rev.draft.kind = "NOTE" /\ a.of.draft.kind = "NOTE"
      BY <1>5 DEF Annotate, Begun, CallsInv, Sound
    <2>2. a.of \in revisions /\ a.rev \in revisions'
      BY <1>5, <2>1 DEF ResultsInv, Annotate
    <2>3. ~a.rev.draft.result
      BY <1>0, <2>1, <2>2
    <2> QED
      BY <1>2, <1>5, <2>1, <2>2, <2>3 DEF Annotate, ResultsInv, ResultFollows
  <1> QED
    BY <1>3, <1>4, <1>5, WritersOfRevisions

LEMMA ResultsInit == Init => ResultsInv
  BY DEF Init, ResultsInv, ResultFollows, Begun

LEMMA ResultsAlways == Spec => [](CallsInv /\ StateInv /\ ResultsInv)
BY SoundInit, CallsStep, StateStep, ResultsInit, ResultsStep, PTL DEF Spec

\* A revision has an ED2 result exactly if its assessment has one: a call continues
\* the result of the revision it has read, whichever calls registered theirs meanwhile.
THEOREM ResultsFollow == Spec => []ResultFollows
  <1>1. ResultsInv => ResultFollows
    BY DEF ResultsInv
  <1> QED
    BY <1>1, ResultsAlways, PTL

\* Revisions are paths of permitted transitions, and a workflow remembers at most one
\* answer of a request id.
LEMMA StateTyped == CallsInv /\ StateInv /\ ResultsInv => TypeOK
  <1> SUFFICES ASSUME CallsInv, StateInv, ResultsInv PROVE TypeOK
    OBVIOUS
  <1>1. \A r \in revisions : r.draft \in drafts /\ \A i \in 1..Len(r.path) :
            <<State([r EXCEPT !.path = SubSeq(@, 1, i - 1)]), r.path[i].state>>
                \in Transitions(r.draft.kind)
    BY DEF StateInv, Revs, Legal
  <1>2. ASSUME NEW w \in Workflows, NEW q \in Requests PROVE Cardinality(memory[w][q]) <= 1
    <2>0. Remembered(w, q)
      BY DEF StateInv
    <2>1. memory[w][q] = {} \/ \E x : memory[w][q] = {x}
      BY <2>0 DEF Remembered
    <2>2. Cardinality(memory[w][q]) \in {0, 1}
      BY <2>1, FS_Singleton, FS_EmptySet
    <2> QED
      BY <2>2
  <1>3. \A c \in Calls :
            call[c].pc \in Ended \cup {"idle", "look", "remember", "register", "audit", "deny"}
    BY CallType, LiveFields DEF Points, Begun
  <1> QED
    BY <1>1, <1>2, <1>3 DEF TypeOK, StateInv, ResultsInv

-----------------------------------------------------------------------------
(* A reply stands: what was answered is stored and audited *)

Audited(c) == [req |-> call[c].req, rev |-> call[c].rev, outcome |-> "ALLOW"] \in audit

\* The calls past the transaction in which they have registered their revision, and
\* those past the one that audits it.
Recorded(c) == call[c].pc = "ok" \/ (call[c].pc = "remember" /\ InM9(call[c]))
Registered(c) == call[c].pc = "audit" \/ Recorded(c)

About(c, m) == Begun(c) /\ call[c].of.draft = m

\* A call about the model m that found it unreleased.
Early(c, m) == About(c, m) /\ call[c].of.path = <<>>

\* An answer that is about a model is that of a call which released it itself.
Released(rev, m) == \E e \in Calls : Early(e, m) /\ call[e].pc = "ok" /\ call[e].rev = rev

Unreleased(m) == \E r \in revisions : r.draft = m /\ r.path = <<>>

\* The release that a model has now is that of a call which found it unreleased and
\* which no other such call has seen ended.
Publisher(d, m) ==
    /\ Early(d, m) /\ call[d].pc # "look" /\ call[d].rev \in revisions
    /\ \A e \in Calls : Early(e, m) => d \notin call[e].after

Answer(c) ==
    /\ Recorded(c) => Audited(c)
    /\ Registered(c) =>
          IF call[c].of.draft.kind = "MODEL" THEN ~Unreleased(call[c].of.draft)
                                             ELSE call[c].rev \in revisions
    /\ call[c].of.draft.kind = "MODEL" /\ call[c].pc = "ok" =>
          Released(call[c].rev, call[c].of.draft)

Models == {m \in drafts : m.kind = "MODEL"}

ModelInv(m) ==
    /\ \A c \in Calls : Early(c, m) =>
          \A d \in call[c].after : About(d, m) => call[d].pc = "failed"
    /\ Unreleased(m) \/ \E d \in Calls : Publisher(d, m)

ReplyInv == /\ \A c \in Calls : Begun(c) => Answer(c)
            /\ \A m \in Models : ModelInv(m)

\* Only an unreleased model is released.
LEMMA ReleasesEarly ==
    ASSUME CallsInv, NEW c \in Calls, Begun(c), call[c].of.draft.kind = "MODEL", Allowed(call[c])
    PROVE  call[c].of.path = <<>>
  <1>1. call[c].of \in Revs
    BY CallType, LiveFields
  <1>2. Targets("MODEL") = {"PUBLISHED"} /\ Transitions("MODEL") = {<<"VALIDATED", "PUBLISHED">>}
    BY DEF Targets, Transitions
  <1>3. State(call[c].of) = "VALIDATED"
    BY <1>2 DEF Allowed
  <1> QED
    BY <1>1, <1>2, <1>3, StateReached

\* No step makes a model unreleased again, and none removes an audit row.
LEMMA StoresGrow ==
    ASSUME CallsInv, StateInv, [Next]_vars
    PROVE  /\ audit \subseteq audit' /\ drafts' = drafts
           /\ \A m : Unreleased(m)' => Unreleased(m)
  <1>1. ASSUME NEW c \in Calls, Register(c)
        PROVE  \A m : Unreleased(m)' => Unreleased(m)
    <2>1. call[c] \in LiveCalls /\ Sound(c) /\ call[c].rev = Derived(call[c]) /\ Allowed(call[c])
      BY <1>1, CallType DEF Register, Begun, CallsInv, Sound
    <2>2. call[c].rev.path # <<>>
      BY <2>1, DerivedSound DEF Sound
    <2>3. \A r \in revisions' : r = call[c].rev \/ r \in revisions
      BY <1>1, CommitKeeps DEF Register
    <2> QED
      BY <2>2, <2>3 DEF Unreleased
  <1>2. ASSUME NEW c \in Calls, Annotate(c)
        PROVE  \A m : Unreleased(m)' => Unreleased(m)
    <2>1. call[c] \in LiveCalls /\ Sound(c) /\ call[c].rev = Derived(call[c]) /\ Allowed(call[c])
      BY <1>2, CallType DEF Annotate, Begun, CallsInv, Sound
    <2>2. call[c].rev.path # <<>>
      BY <2>1, DerivedSound DEF Sound
    <2> QED
      BY <1>2, <2>2 DEF Unreleased, Annotate
  <1>3. ASSUME NEW c \in Calls, Annotate(c) \/ Audit(c) \/ Deny(c)
        PROVE  audit \subseteq audit' /\ drafts' = drafts
    BY <1>3 DEF Annotate, Audit, Deny
  <1>4. CASE UNCHANGED <<audit, drafts, revisions>>
    BY <1>4 DEF Unreleased
  <1>5. ASSUME NEW c \in Calls, Audit(c) \/ Deny(c) PROVE \A m : Unreleased(m)' => Unreleased(m)
    BY <1>5 DEF Audit, Deny, Unreleased
  <1>6. ASSUME NEW c \in Calls, Register(c) PROVE audit \subseteq audit' /\ drafts' = drafts
    BY <1>6 DEF Register
  <1>7. ASSUME NEW c \in Calls, Look(c) \/ Remember(c) \/ Fail(c) PROVE UNCHANGED <<audit, drafts, revisions>>
    BY <1>7 DEF Look, Remember, Fail
  <1>8. ASSUME NEW c \in Calls, NEW rev, NEW at, NEW req, NEW target, NEW debrief,
               Read(c, rev, target, at, req, debrief)
        PROVE  UNCHANGED <<audit, drafts, revisions>>
    BY <1>8 DEF Read
  <1>9. CASE Restart \/ UNCHANGED vars
    BY <1>4, <1>9 DEF Restart, vars
  <1> QED
    BY <1>1, <1>2, <1>3, <1>4, <1>5, <1>6, <1>7, <1>8, <1>9 DEF Next

LEMMA ReleasedStays ==
    ASSUME CallsInv, StateInv, [Next]_vars, NEW rev, NEW m, Released(rev, m)
    PROVE  Released(rev, m)'
  <1>1. PICK e \in Calls : Early(e, m) /\ call[e].pc = "ok" /\ call[e].rev = rev
    BY DEF Released
  <1>2. call'[e] = call[e]
    BY <1>1, CallsStay DEF Early, About, Ended
  <1> QED
    BY <1>1, <1>2 DEF Released, Early, About, Begun

LEMMA AnswerStays ==
    ASSUME CallsInv, StateInv, [Next]_vars, NEW c \in Calls, Begun(c), Answer(c),
           Recorded(c)' => Recorded(c), Registered(c)' => Registered(c),
           call'[c].pc = "ok" => call[c].pc = "ok"
    PROVE  Answer(c)'
  <1>1. /\ Begun(c)' /\ Alike(call'[c], call[c])
        /\ call[c].pc # "look" => call'[c].rev = call[c].rev
    BY CallsStay
  <1>2. Sound(c)
    BY DEF CallsInv
  <1>3. Recorded(c)' => Audited(c)'
    <2>1. Recorded(c) => call[c].pc # "look"
      BY DEF Recorded
    <2> QED
      BY <1>1, <2>1, StoresGrow DEF Answer, Audited, Alike
  <1>4. Registered(c) => call[c].pc # "look"
    BY DEF Registered, Recorded
  <1> PICK m, rev : m = call[c].of.draft /\ rev = call[c].rev
    OBVIOUS
  <1>5. ASSUME Registered(c)', m.kind = "MODEL" PROVE Unreleased(m)' => FALSE
    BY <1>5, StoresGrow DEF Answer
  <1>6. ASSUME Registered(c)', m.kind # "MODEL" PROVE rev \in revisions'
    BY <1>2, <1>6, RevisionsStay DEF Answer, Sound
  <1>7. ASSUME m.kind = "MODEL", call'[c].pc = "ok" PROVE Released(rev, m)'
    BY <1>7, ReleasedStays DEF Answer
  <1>8. call'[c].of.draft = m /\ (Registered(c)' => call'[c].rev = rev)
    BY <1>1, <1>4 DEF Alike
  <1>9. Registered(c)' => IF call'[c].of.draft.kind = "MODEL"
                          THEN (~Unreleased(call[c].of.draft))' ELSE call'[c].rev \in revisions'
    BY <1>5, <1>6, <1>8 DEF Unreleased
  <1>10. call'[c].of.draft.kind = "MODEL" /\ call'[c].pc = "ok"
            => Released(call[c].rev, call[c].of.draft)'
    <2>1. call'[c].pc = "ok" => Registered(c)'
      BY DEF Registered, Recorded
    <2> QED
      BY <1>7, <1>8, <2>1 DEF Released, Early, About
  <1> QED
    BY <1>3, <1>9, <1>10 DEF Answer

LEMMA AnswersStay ==
    ASSUME CallsInv, StateInv, [Next]_vars, \A c \in Calls : Begun(c) => Answer(c),
           NEW c \in Calls, \A d \in Calls \ {c} : call'[d] = call[d],
           Begun(c)' => Answer(c)'
    PROVE  \A d \in Calls : Begun(d)' => Answer(d)'
  <1> SUFFICES ASSUME NEW d \in Calls \ {c}, Begun(d)' PROVE Answer(d)'
    OBVIOUS
  <1>1. Begun(d) /\ call'[d] = call[d]
    BY DEF Begun
  <1>2. Recorded(d)' = Recorded(d) /\ Registered(d)' = Registered(d)
    BY <1>1 DEF Registered, Recorded
  <1> QED
    BY <1>1, <1>2, AnswerStays

\* A step of c that neither registers nor records its revision.
LEMMA AnswerLater ==
    ASSUME CallsInv, StateInv, [Next]_vars, \A c \in Calls : Begun(c) => Answer(c),
           NEW c \in Calls, Begun(c), NEW p \in Points, Moves(c, p),
           p \in {"failed", "deny", "register"} \/ (p = "remember" /\ ~InM9(call[c]))
    PROVE  \A d \in Calls : Begun(d)' => Answer(d)'
  <1>1. ~Registered(c)' /\ ~Recorded(c)' /\ call'[c].pc # "ok"
    BY AlikeSame DEF Moves, Registered, Recorded
  <1> QED
    BY <1>1, AnswerStays, AnswersStay DEF Moves

LEMMA AnswersStep ==
    ASSUME CallsInv, StateInv, ResultsInv, ReplyInv, [Next]_vars
    PROVE  \A c \in Calls : Begun(c)' => Answer(c)'
  <1>p. {"ok", "failed"} = Ended /\ Ended \subseteq Points
        /\ {"look", "remember", "register", "audit", "deny"} \subseteq Points
    BY DEF Points, Ended
  <1>0. \A c \in Calls : Begun(c) => Answer(c)
    BY DEF ReplyInv
  <1>1. ASSUME NEW c \in Calls, NEW rev \in revisions, NEW at \in Stamps, NEW req \in Requests,
               NEW target \in Targets(rev.draft.kind), NEW debrief \in BOOLEAN,
               Read(c, rev, target, at, req, debrief)
        PROVE  \A d \in Calls : Begun(d)' => Answer(d)'
    <2>1. /\ \A d \in Calls \ {c} : call'[d] = call[d]
          /\ call'[c].pc \in {"look", "failed"}
      BY <1>1, ReadBegins
    <2>2. Answer(c)'
      BY <2>1 DEF Answer, Registered, Recorded
    <2> QED
      BY <1>0, <2>1, <2>2, AnswersStay
  <1>2. ASSUME NEW c \in Calls, Look(c) PROVE \A d \in Calls : Begun(d)' => Answer(d)'
    <2> DEFINE a == call[c]
    <2>1. Begun(c) /\ a.pc = "look" /\ UNCHANGED <<drafts, revisions, audit>>
      BY <1>2 DEF Look, Begun
    <2>2. a \in LiveCalls /\ a.debrief \in BOOLEAN /\ Sound(c)
      BY <2>1, CallType, LiveFields DEF CallsInv
    <2>3. \A k \in Known(a) : k.rev \in Revs
      BY <2>1, KnownSound
    <2>4. CASE \E p \in {"register", "remember", "failed", "deny"} :
                  Moves(c, p) /\ (p = "remember" => ~InM9(a))
      BY <1>0, <1>p, <2>1, <2>4, AnswerLater
    <2>5. CASE /\ \E k \in Known(a) : call'[c].rev = k.rev
               /\ \A k \in Known(a) : k.fingerprint = Fingerprint(a)
               /\ StoresFirst(a) /\ Moves(c, "ok")
      <3>1. PICK k \in Known(a) : call'[c].rev = k.rev
        BY <2>5
      <3>2. Alike(call'[c], a) /\ call'[c].pc = "ok" /\ \A d \in Calls \ {c} : call'[d] = call[d]
        BY <2>5 DEF Moves
      <3>3. CASE a.debrief
        <4>1. k.rev \in revisions /\ [req |-> a.req, rev |-> k.rev, outcome |-> "ALLOW"] \in audit
              /\ a.of.draft.kind # "MODEL"
          BY <2>1, <2>2, <3>3, KnownSound DEF Sound
        <4>2. Answer(c)'
          BY <2>1, <3>1, <3>2, <4>1 DEF Answer, Audited, Alike
        <4> QED
          BY <1>0, <3>2, <4>2, AnswersStay
      <3>4. CASE ~a.debrief
        <4>1. PICK d \in Calls : /\ Writer(d) /\ Workflow(call[d]) = Workflow(a)
                                 /\ call[d].req = a.req /\ Known(a) = {Memo(call[d])}
          BY <2>1, <3>1, <3>4, KnownSound
        <4>2. k.rev = call[d].rev /\ Begun(d) /\ Sound(d) /\ Answer(d)
          BY <1>0, <4>1 DEF Memo, Writer, CallsInv
        <4>3. k.rev.draft = a.of.draft
          BY <2>1, <2>5, <3>1, ReuseSound
        <4>4. call[d].of.draft = a.of.draft
          BY <4>2, <4>3 DEF Sound
        <4>5. InM9(call[d])
          <5>1. a.of.draft.kind \in Kinds /\ InM9(a)
            BY <2>2, <2>5, <3>4, LiveFields, DraftType DEF StoresFirst
          <5>2. Workflow(call[d]) = "M9"
            BY <3>4, <4>1, <5>1 DEF Workflow
          <5>3. call[d].of.draft.kind # "M9"
            BY <4>4, <5>1 DEF Kinds
          <5> QED
            BY <5>2, <5>3 DEF Workflow
        <4>6. call[d].pc = "ok"
          BY <4>1, <4>5 DEF Writer
        <4> PICK m, rev : m = a.of.draft /\ rev = k.rev
          OBVIOUS
        <4>7. /\ [req |-> a.req, rev |-> rev, outcome |-> "ALLOW"] \in audit
              /\ IF m.kind = "MODEL" THEN ~Unreleased(m) ELSE rev \in revisions
              /\ m.kind = "MODEL" => Released(rev, m)
          BY <4>1, <4>2, <4>4, <4>6 DEF Answer, Audited, Registered, Recorded
        <4>8. m.kind = "MODEL" => Released(rev, m)'
          BY <4>7, ReleasedStays
        <4>9. Unreleased(m)' => Unreleased(m)
          BY StoresGrow
        <4>10. call'[c].of.draft = m /\ call'[c].rev = rev /\ call'[c].req = a.req
          BY <3>1, <3>2 DEF Alike
        <4>11. Audited(c)'
          BY <2>1, <4>7, <4>10 DEF Audited
        <4>12. IF call'[c].of.draft.kind = "MODEL" THEN (~Unreleased(call[c].of.draft))'
                                                   ELSE call'[c].rev \in revisions'
          BY <2>1, <4>7, <4>9, <4>10 DEF Unreleased
        <4>13. call'[c].of.draft.kind = "MODEL" => Released(call[c].rev, call[c].of.draft)'
          BY <4>8, <4>10 DEF Released, Early, About
        <4>14. Answer(c)'
          BY <4>11, <4>12, <4>13 DEF Answer
        <4> QED
          BY <1>0, <3>2, <4>14, AnswersStay
      <3> QED
        BY <2>2, <3>3, <3>4
    <2>6. ~StoresFirst(a) => ~InM9(a)
      BY DEF StoresFirst
    <2> QED
      BY <1>2, <2>3, <2>4, <2>5, <2>6, LookFinds
  <1>3. ASSUME NEW c \in Calls, Register(c) PROVE \A d \in Calls : Begun(d)' => Answer(d)'
    <2>1. Begun(c) /\ Moves(c, "audit") /\ call'[c].rev = call[c].rev
          /\ Sound(c) /\ call[c] \in LiveCalls /\ call[c].rev = Derived(call[c]) /\ Allowed(call[c])
      BY <1>p, <1>3, GotoMoves, CallType DEF Register, Begun, CallsInv, Sound
    <2>2. /\ call'[c].pc = "audit" /\ call'[c].of = call[c].of
          /\ \A d \in Calls \ {c} : call'[d] = call[d]
      BY <2>1 DEF Moves, Alike
    <2>3. revisions' = Commit(call[c].rev) /\ call[c].rev.path # <<>>
      BY <1>3, <2>1, DerivedSound DEF Register, Sound
    <2>4. call'[c].rev \in revisions'
      BY <2>1, <2>3, CommitKeeps
    <2>5. call[c].of.draft.kind = "MODEL" => (~Unreleased(call[c].of.draft))'
      BY <2>1, <2>2, <2>3, CommitKeeps DEF Sound, Unreleased
    <2>6. Answer(c)'
      BY <2>2, <2>4, <2>5 DEF Answer, Recorded
    <2> QED
      BY <1>0, <2>2, <2>6, AnswersStay
  <1>4. ASSUME NEW c \in Calls, Annotate(c) PROVE \A d \in Calls : Begun(d)' => Answer(d)'
    <2>1. Begun(c) /\ Sound(c) /\ \E p \in Ended : Moves(c, p) /\ call'[c].rev = call[c].rev
      BY <1>p, <1>4, GotoMoves DEF Annotate, Begun, CallsInv
    <2>2. call'[c].rev = call[c].rev /\ call'[c].of = call[c].of /\ call'[c].req = call[c].req
          /\ \A d \in Calls \ {c} : call'[d] = call[d]
      BY <2>1 DEF Moves, Alike
    <2>3. Audited(c)' /\ call'[c].rev \in revisions' /\ call'[c].of.draft.kind # "MODEL"
      BY <1>4, <2>1, <2>2 DEF Annotate, Entry, Audited, Sound
    <2>4. Answer(c)'
      BY <2>3 DEF Answer
    <2> QED
      BY <1>0, <2>2, <2>4, AnswersStay
  <1>5. ASSUME NEW c \in Calls, Audit(c) PROVE \A d \in Calls : Begun(d)' => Answer(d)'
    <2>1. Begun(c) /\ Answer(c) /\ Registered(c) /\ call[c] \in LiveCalls
          /\ Moves(c, IF InM9(call[c]) THEN "remember" ELSE "ok") /\ call'[c].rev = call[c].rev
      BY <1>0, <1>p, <1>5, GotoMoves, CallType DEF Audit, Begun, Registered
    <2>2. /\ call'[c].rev = call[c].rev /\ call'[c].of = call[c].of /\ call'[c].req = call[c].req
          /\ \A d \in Calls \ {c} : call'[d] = call[d]
      BY <2>1 DEF Moves, Alike
    <2>3. Audited(c)'
      BY <1>5, <2>2 DEF Audit, Entry, Audited
    <2>4. IF call'[c].of.draft.kind = "MODEL" THEN (~Unreleased(call[c].of.draft))'
                                              ELSE call'[c].rev \in revisions'
      BY <1>5, <2>1, <2>2 DEF Audit, Answer, Unreleased
    <2>5. call[c].of.draft.kind = "MODEL" => call'[c].pc = "remember"
      BY <2>1 DEF InM9, Moves
    <2>6. Answer(c)'
      BY <2>2, <2>3, <2>4, <2>5 DEF Answer
    <2> QED
      BY <1>0, <2>2, <2>6, AnswersStay
  <1>6. ASSUME NEW c \in Calls, Remember(c) PROVE \A d \in Calls : Begun(d)' => Answer(d)'
    <2>1. Begun(c) /\ Answer(c) /\ Sound(c) /\ call[c] \in LiveCalls
          /\ Moves(c, IF InM9(call[c]) THEN "ok" ELSE "register") /\ call'[c].rev = call[c].rev
          /\ Allowed(call[c]) /\ call[c].pc = "remember"
      BY <1>0, <1>p, <1>6, GotoMoves, CallType DEF Remember, Begun, CallsInv, Sound
    <2>2. CASE ~InM9(call[c])
      BY <1>0, <1>p, <2>1, <2>2, AnswerLater
    <2>3. CASE InM9(call[c])
      <3>1. /\ call'[c].rev = call[c].rev /\ call'[c].of = call[c].of /\ call'[c].req = call[c].req
            /\ call'[c].pc = "ok" /\ \A d \in Calls \ {c} : call'[d] = call[d]
        BY <2>1, <2>3 DEF Moves, Alike
      <3>2. Registered(c) /\ Recorded(c)
        BY <2>1, <2>3 DEF Registered, Recorded
      <3>3. Audited(c)'
        BY <1>6, <2>1, <3>1, <3>2 DEF Answer, Audited, Remember
      <3>4. IF call'[c].of.draft.kind = "MODEL" THEN (~Unreleased(call[c].of.draft))'
                                                ELSE call'[c].rev \in revisions'
        BY <1>6, <2>1, <3>1, <3>2 DEF Answer, Unreleased, Remember
      <3>5. call[c].of.draft.kind = "MODEL" => Released(call[c].rev, call[c].of.draft)'
        <4>1. call[c].of.draft.kind = "MODEL" => call[c].of.path = <<>>
          BY <2>1, ReleasesEarly
        <4> QED
          BY <3>1, <4>1 DEF Released, Early, About, Begun
      <3>6. Answer(c)'
        BY <3>1, <3>3, <3>4, <3>5 DEF Answer
      <3> QED
        BY <1>0, <3>1, <3>6, AnswersStay
    <2> QED
      BY <2>2, <2>3
  <1>7. ASSUME NEW c \in Calls, Deny(c) \/ Fail(c) PROVE \A d \in Calls : Begun(d)' => Answer(d)'
    <2>1. Begun(c) /\ Moves(c, "failed")
      BY <1>p, <1>7, GotoMoves DEF Deny, Fail, Begun
    <2> QED
      BY <1>0, <1>p, <2>1, AnswerLater
  <1>8. CASE Restart
    <2>1. ASSUME NEW c \in Calls, Begun(c)' PROVE Answer(c)'
      <3>0. call'[c] = IF call[c].pc \in Ended \cup {"idle"} THEN call[c]
                       ELSE [call[c] EXCEPT !.pc = "failed"]
        BY <1>8 DEF Restart
      <3>1. CASE call[c].pc \in Ended \cup {"idle"}
        <4>1. call'[c] = call[c] /\ Begun(c)
          BY <2>1, <3>0, <3>1 DEF Begun
        <4>2. Recorded(c)' = Recorded(c) /\ Registered(c)' = Registered(c)
          BY <4>1 DEF Registered, Recorded
        <4> QED
          BY <1>0, <4>1, <4>2, AnswerStays
      <3>2. CASE call[c].pc \notin Ended \cup {"idle"}
        <4>1. call[c] \in LiveCalls /\ call'[c] = [call[c] EXCEPT !.pc = "failed"]
          BY <3>0, <3>2, CallType DEF Begun
        <4>2. call'[c].pc = "failed"
          BY <4>1 DEF LiveCalls
        <4> QED
          BY <4>2 DEF Answer, Registered, Recorded
      <3> QED
        BY <3>1, <3>2
    <2> QED
      BY <2>1
  <1>9. CASE UNCHANGED vars
    <2>1. ASSUME NEW c \in Calls, Begun(c)' PROVE Answer(c)'
      <3>1. call' = call /\ Begun(c)
        BY <1>9, <2>1 DEF vars, Begun
      <3>2. Recorded(c)' = Recorded(c) /\ Registered(c)' = Registered(c)
        BY <3>1 DEF Registered, Recorded
      <3> QED
        BY <1>0, <3>1, <3>2, AnswerStays
    <2> QED
      BY <2>1
  <1> QED
    BY <1>1, <1>2, <1>3, <1>4, <1>5, <1>6, <1>7, <1>8, <1>9 DEF Next

\* A call only begins by reading a stored revision.
LEMMA CallBegins ==
    ASSUME CallsInv, StateInv, [Next]_vars, NEW c \in Calls, ~Begun(c), Begun(c)'
    PROVE  /\ call'[c].of \in revisions /\ call'[c].pc \in {"look", "failed"}
           /\ call'[c].after = {d \in Calls : call[d].pc \in Ended}
           /\ \A d \in Calls \ {c} : call'[d] = call[d]
           /\ UNCHANGED <<drafts, revisions, results, superseded, audit, memory, life>>
  <1>1. ASSUME NEW p, NEW d \in Calls, Begun(d), Goto(d, p) PROVE call'[c] = call[c]
    BY <1>1 DEF Goto, CallsInv
  <1>2. PICK d \in Calls, rev \in revisions, at \in Stamps, req \in Requests :
            \E target \in Targets(rev.draft.kind), debrief \in BOOLEAN :
               Read(d, rev, target, at, req, debrief)
    BY <1>1 DEF Next, vars, Look, Remember, Register, Annotate, Audit, Deny, Fail, Restart,
                Begun, CallsInv
  <1>3. d = c
    BY <1>2, ReadBegins DEF Begun
  <1> QED
    BY <1>2, <1>3, ReadBegins

LEMMA ModelStep ==
    ASSUME CallsInv, StateInv, ReplyInv, [Next]_vars, NEW m \in Models
    PROVE  ModelInv(m)'
  <1>0. ModelInv(m) /\ m.kind = "MODEL" /\ \A c \in Calls : Begun(c) => Answer(c)
    BY DEF ReplyInv, Models
  <1>1. ASSUME NEW c \in Calls, Early(c, m)'
        PROVE  \/ Early(c, m) /\ call'[c].after = call[c].after
               \/ /\ Unreleased(m) /\ call'[c].after = {d \in Calls : call[d].pc \in Ended}
                  /\ revisions' = revisions
    <2>1. CASE Begun(c)
      BY <1>1, <2>1, CallsStay DEF Early, About, Alike
    <2>2. CASE ~Begun(c)
      <3>1. /\ call'[c].of \in revisions /\ revisions' = revisions
            /\ call'[c].after = {d \in Calls : call[d].pc \in Ended}
        BY <1>1, <2>2, CallBegins DEF Early, About
      <3> QED
        BY <1>1, <3>1 DEF Early, About, Unreleased
    <2> QED
      BY <2>1, <2>2
  <1>2. ASSUME NEW c \in Calls, Early(c, m)', NEW d \in call'[c].after, About(d, m)'
        PROVE  call'[d].pc = "failed"
    <2>1. CASE Early(c, m) /\ call'[c].after = call[c].after
      <3>1. d \in Calls /\ Begun(d) /\ call[d].pc \in Ended
        BY <1>2, <2>1, CallType, LiveFields DEF Early, About, CallsInv, Sound
      <3>2. call'[d] = call[d]
        BY <3>1, CallsStay
      <3> QED
        BY <1>0, <1>2, <2>1, <3>1, <3>2 DEF ModelInv, About
    <2>2. CASE Unreleased(m) /\ call'[c].after = {e \in Calls : call[e].pc \in Ended}
      <3>1. d \in Calls /\ Begun(d) /\ call[d].pc \in Ended
        BY <1>2, <2>2 DEF Begun, Ended
      <3>2. call'[d] = call[d] /\ Answer(d) /\ call[d].of.draft = m
        BY <1>0, <1>2, <3>1, CallsStay DEF About
      <3>3. call[d].pc # "ok"
        BY <1>0, <2>2, <3>2 DEF Answer, Registered, Recorded
      <3> QED
        BY <3>1, <3>2, <3>3 DEF Ended
    <2> QED
      BY <1>1, <1>2, <2>1, <2>2
  <1>3. ASSUME NEW c \in Calls, Register(c), call[c].of.draft = m
        PROVE  Publisher(c, m)'
    <2>1. Begun(c) /\ Sound(c) /\ call[c].pc = "register" /\ Allowed(call[c]) /\ {"audit"} \subseteq Points
      BY <1>3 DEF Register, Begun, CallsInv, Sound, Points
    <2>2. Moves(c, "audit") /\ call'[c].rev = call[c].rev
      BY <1>3, <2>1, GotoMoves DEF Register
    <2>3. Early(c, m)
      BY <1>0, <1>3, <2>1, ReleasesEarly DEF Early, About
    <2>4. Early(c, m)' /\ call'[c].pc # "look"
      BY <2>2, <2>3 DEF Moves, Early, About, Alike, Begun
    <2>5. call'[c].rev \in revisions'
      BY <1>3, <2>2, CommitKeeps DEF Register
    <2>6. ASSUME NEW e \in Calls, Early(e, m)' PROVE c \notin call'[e].after
      <3>1. CASE Early(e, m) /\ call'[e].after = call[e].after
        BY <2>1, <3>1 DEF Early, About, CallsInv, Sound, Ended
      <3>2. CASE call'[e].after = {d \in Calls : call[d].pc \in Ended}
        BY <2>1, <3>2 DEF Ended
      <3> QED
        BY <1>1, <2>6, <3>1, <3>2
    <2> QED
      BY <2>4, <2>5, <2>6 DEF Publisher
  <1>4. ASSUME \A r \in revisions : r.draft = m => r \in revisions'
        PROVE  Unreleased(m)' \/ \E d \in Calls : Publisher(d, m)'
    <2>1. CASE Unreleased(m)
      BY <1>4, <2>1 DEF Unreleased
    <2>2. CASE ~Unreleased(m)
      <3>1. PICK d \in Calls : Publisher(d, m)
        BY <1>0, <2>2 DEF ModelInv
      <3>2. Begun(d) /\ call[d].pc # "look" /\ Sound(d)
        BY <3>1 DEF Publisher, Early, About, CallsInv
      <3>3. Begun(d)' /\ Alike(call'[d], call[d]) /\ call'[d].rev = call[d].rev /\ call'[d].pc # "look"
        BY <3>2, CallsStay
      <3>4. Early(d, m)' /\ call'[d].rev \in revisions'
        BY <1>4, <3>1, <3>2, <3>3 DEF Publisher, Early, About, Alike, Sound
      <3>5. ASSUME NEW e \in Calls, Early(e, m)' PROVE d \notin call'[e].after
        BY <1>1, <2>2, <3>1, <3>5 DEF Publisher
      <3> QED
        BY <3>3, <3>4, <3>5 DEF Publisher
    <2> QED
      BY <2>1, <2>2
  <1>5. \/ \E c \in Calls : Register(c) /\ call[c].of.draft = m
        \/ \A r \in revisions : r.draft = m => r \in revisions'
    <2>1. ASSUME NEW c \in Calls, Register(c), call[c].of.draft # m
          PROVE  \A r \in revisions : r.draft = m => r \in revisions'
      <3>1. call[c].rev.draft # m
        BY <2>1 DEF Register, CallsInv, Sound, Begun
      <3> QED
        BY <2>1, <3>1, CommitKeeps DEF Register
    <2>2. ASSUME NEW c \in Calls, Annotate(c) PROVE revisions \subseteq revisions'
      BY <2>2 DEF Annotate
    <2>3. CASE revisions' = revisions
      BY <2>3
    <2> QED
      BY <2>1, <2>2, <2>3, WritersOfRevisions
  <1> QED
    BY <1>2, <1>3, <1>4, <1>5 DEF ModelInv

LEMMA ReplyStep == CallsInv /\ StateInv /\ ResultsInv /\ ReplyInv /\ [Next]_vars => ReplyInv'
  <1> SUFFICES ASSUME CallsInv, StateInv, ResultsInv, ReplyInv, [Next]_vars PROVE ReplyInv'
    OBVIOUS
  <1>1. Models' = Models
    BY StoresGrow DEF Models
  <1>2. \A m \in Models : ModelInv(m)'
    BY ModelStep
  <1> QED
    BY <1>1, <1>2, AnswersStep DEF ReplyInv

LEMMA ReplyInit == Init => ReplyInv
  <1> SUFFICES ASSUME Init PROVE ReplyInv
    OBVIOUS
  <1>1. \A c \in Calls : ~Begun(c)
    BY DEF Init, Begun
  <1>2. ASSUME NEW m \in Models PROVE Unreleased(m)
    <2>1. [draft |-> m, path |-> <<>>] \in revisions
      BY DEF Init, Models
    <2> QED
      BY <2>1 DEF Unreleased
  <1> QED
    BY <1>1, <1>2 DEF ReplyInv, ModelInv, Early, About

LEMMA ReplyAlways == Spec => [](CallsInv /\ StateInv /\ ResultsInv /\ ReplyInv)
BY SoundInit, CallsStep, StateStep, ResultsInit, ResultsStep, ReplyInit, ReplyStep, PTL DEF Spec

\* Two answered calls that both found a model unreleased ran at the same time.
LEMMA ReleasesOverlap ==
    ASSUME CallsInv, ReplyInv, NEW m \in Models, NEW e \in Calls, Early(e, m), call[e].pc = "ok",
           NEW f \in Calls, Early(f, m), call[f].pc = "ok"
    PROVE  Overlap(e, f)
  BY DEF ReplyInv, ModelInv, Early, Overlap

\* A reply stands: whatever calls overlap, fail or lose their answer, the revision it
\* names is stored and audited; a model's may have given way to a release at the same time.
THEOREM RepliesStand == Spec => []ReplyStands
  <1>1. ASSUME CallsInv, StateInv, ResultsInv, ReplyInv PROVE ReplyStands
    <2>1. TypeOK
      BY <1>1, StateTyped
    <2>2. ASSUME NEW c \in Answered
          PROVE  /\ Audited(c)
                 /\ \/ call[c].rev \in revisions
                    \/ /\ call[c].rev.draft.kind = "MODEL"
                       /\ \E d \in Calls, e \in Answered :
                             /\ call[d].pc # "idle" /\ call[d].rev \in revisions
                             /\ call[e].rev = call[c].rev /\ Overlap(d, e)
      <3>1. c \in Calls /\ Begun(c) /\ Sound(c) /\ Answer(c) /\ call[c].pc = "ok"
        BY <1>1, <2>2 DEF Answered, Begun, CallsInv, ReplyInv
      <3>2. Audited(c) /\ (call[c].of.draft.kind # "MODEL" => call[c].rev \in revisions)
        BY <3>1 DEF Answer, Registered, Recorded
      <3>3. CASE call[c].of.draft.kind = "MODEL"
        <4> DEFINE m == call[c].of.draft
        <4>1. m \in Models /\ call[c].rev.draft = m
          BY <3>1, <3>3 DEF Models, Sound
        <4>2. ~Unreleased(m) /\ Released(call[c].rev, m)
          BY <3>1, <3>3 DEF Answer, Registered, Recorded
        <4>3. PICK e \in Calls : Early(e, m) /\ call[e].pc = "ok" /\ call[e].rev = call[c].rev
          BY <4>2 DEF Released
        <4>4. PICK d \in Calls : Publisher(d, m)
          BY <1>1, <4>1, <4>2 DEF ReplyInv, ModelInv
        <4>5. d \notin call[e].after
          BY <4>3, <4>4 DEF Publisher
        <4>6. e \notin call[d].after
          BY <1>1, <4>1, <4>3, <4>4 DEF Publisher, ReplyInv, ModelInv, Early
        <4>7. e \in Answered /\ call[d].pc # "idle" /\ call[d].rev \in revisions
          BY <4>3, <4>4 DEF Answered, Publisher, Early, About, Begun
        <4> QED
          BY <3>2, <3>3, <4>1, <4>3, <4>5, <4>6, <4>7 DEF Overlap
      <3> QED
        BY <3>2, <3>3
    <2> QED
      BY <2>1, <2>2 DEF ReplyStands, Audited
  <1> QED
    BY <1>1, ReplyAlways, PTL

\* A model is released once unless releases run at the same time: an answer that is
\* given again, from the memory of any life of the backend, is that of a call which
\* found the model unreleased.
THEOREM ModelsReleasedOnce == Spec => []ReleasedOnce
  <1>1. ASSUME CallsInv, StateInv, ResultsInv, ReplyInv PROVE ReleasedOnce
    <2> SUFFICES ASSUME NEW c \in Answered, NEW d \in Answered,
                        call[c].rev.draft = call[d].rev.draft, call[c].rev.draft.kind = "MODEL"
                 PROVE  \E e, f \in Answered :
                           /\ call[e].rev = call[c].rev /\ call[f].rev = call[d].rev
                           /\ Overlap(e, f)
      BY DEF ReleasedOnce
    <2> DEFINE m == call[c].rev.draft
    <2>1. \A x \in {c, d} : /\ x \in Calls /\ call[x].of.draft = m /\ m \in Models
                            /\ Answer(x) /\ call[x].pc = "ok"
      BY <1>1 DEF Answered, Begun, CallsInv, Sound, ReplyInv, Models
    <2>2. Released(call[c].rev, m) /\ Released(call[d].rev, m)
      BY <2>1 DEF Answer, Models
    <2>3. PICK e \in Calls : Early(e, m) /\ call[e].pc = "ok" /\ call[e].rev = call[c].rev
      BY <2>2 DEF Released
    <2>4. PICK f \in Calls : Early(f, m) /\ call[f].pc = "ok" /\ call[f].rev = call[d].rev
      BY <2>2 DEF Released
    <2>5. Overlap(e, f)
      BY <1>1, <2>1, <2>3, <2>4, ReleasesOverlap
    <2> QED
      BY <2>3, <2>4, <2>5 DEF Answered
  <1> QED
    BY <1>1, ReplyAlways, PTL

-----------------------------------------------------------------------------
(* The debrief revises an annotation once *)

\* r is one step further than t.
Extends(r, t) == r.draft = t.draft /\ SubSeq(r.path, 1, Len(r.path) - 1) = t.path

\* A call of the debrief that has stored r, whether it was answered or not.
Wrote(c, r) == /\ Begun(c) /\ call[c].debrief /\ call[c].pc \in Ended
               /\ call[c].rev = r /\ Extends(r, call[c].of)

\* A call of the debrief that has looked and may still store its revision of r.
Revising(d) == /\ Begun(d) /\ call[d].debrief /\ call[d].pc = "register"
               /\ call[d].of.path # <<>>

\* Two successors of one annotation.
Siblings(r, s) == /\ r # s /\ r.draft = s.draft /\ Debriefed(r) /\ Debriefed(s)
                  /\ SubSeq(r.path, 1, Len(r.path) - 1) # <<>>
                  /\ SubSeq(s.path, 1, Len(s.path) - 1) = SubSeq(r.path, 1, Len(r.path) - 1)
Together(r, s) == \E c, d \in Calls : Wrote(c, r) /\ Wrote(d, s) /\ Overlap(c, d)

RevisedInv ==
    /\ \A r \in revisions : Debriefed(r) =>
          \E c \in Calls : Wrote(c, r) /\ (call[c].of.path # <<>> => call[c].of \in superseded)
    /\ \A d \in Calls : Revising(d) =>
          \A r \in revisions : Debriefed(r) /\ Extends(r, call[d].of) =>
             \E c \in Calls : Wrote(c, r) /\ c \notin call[d].after
    /\ \A r, s \in revisions : Siblings(r, s) => Together(r, s)

LEMMA WroteStays ==
    ASSUME CallsInv, StateInv, [Next]_vars, NEW c \in Calls, NEW r, Wrote(c, r)
    PROVE  Wrote(c, r)' /\ call'[c] = call[c]
  <1>1. call'[c] = call[c]
    BY CallsStay DEF Wrote
  <1> QED
    BY <1>1 DEF Wrote, Begun

LEMMA SupersededGrows == ASSUME [Next]_vars PROVE superseded \subseteq superseded'
  <1>1. ASSUME NEW c \in Calls, Annotate(c) PROVE superseded \subseteq superseded'
    BY <1>1 DEF Annotate
  <1>2. ASSUME NEW c \in Calls, Look(c) \/ Remember(c) \/ Register(c) \/ Audit(c) \/ Deny(c) \/ Fail(c)
        PROVE  superseded' = superseded
    BY <1>2 DEF Look, Remember, Register, Audit, Deny, Fail
  <1>3. ASSUME NEW c \in Calls, NEW rev \in revisions, NEW at \in Stamps, NEW req \in Requests,
               NEW target \in Targets(rev.draft.kind), NEW debrief \in BOOLEAN,
               Read(c, rev, target, at, req, debrief)
        PROVE  superseded' = superseded
    BY <1>3 DEF Read
  <1>4. Restart \/ UNCHANGED vars => superseded' = superseded
    BY DEF Restart, vars
  <1> QED
    BY <1>1, <1>2, <1>3, <1>4 DEF Next

\* What a step adds to the annotations of the debrief is what one call annotates.
LEMMA DebriefedAdded ==
    ASSUME CallsInv, StateInv, [Next]_vars
    PROVE  \/ \A r \in revisions' : Debriefed(r) => r \in revisions
           \/ \E c \in Calls : Annotate(c) /\ revisions' = revisions \cup {call[c].rev}
  <1>1. ASSUME NEW c \in Calls, Register(c)
        PROVE  \A r \in revisions' : Debriefed(r) => r \in revisions
    <2>1. ~Debriefed(call[c].rev)
      BY <1>1, CallType, LiveFields DEF Register, CallsInv, Sound, Begun
    <2> QED
      BY <1>1, <2>1, CommitKeeps DEF Register
  <1>2. ASSUME NEW c \in Calls, Annotate(c)
        PROVE  revisions' = revisions \cup {call[c].rev}
    BY <1>2 DEF Annotate
  <1>3. CASE revisions' = revisions
    BY <1>3
  <1> QED
    BY <1>1, <1>2, <1>3, WritersOfRevisions

\* A call that comes to revise has found its target active, and so revised by nobody.
LEMMA RevisingBegins ==
    ASSUME CallsInv, StateInv, [Next]_vars, NEW d \in Calls, Revising(d)', ~Revising(d)
    PROVE  Begun(d) /\ revisions' = revisions /\ call[d].of \notin superseded /\ call[d].of \in Revs
  <1>1. call'[d].pc = "register" /\ call'[d] # call[d] /\ call'[d].debrief
    BY DEF Revising, Begun
  <1>2. Begun(d)
    BY <1>1, CallBegins DEF Revising
  <1>3. call'[d].debrief = call[d].debrief /\ Sound(d) /\ call[d] \in LiveCalls
    BY <1>2, CallsStay, CallType DEF Alike, CallsInv
  <1>4. ASSUME NEW c \in Calls, NEW p, Begun(c), Goto(c, p)
        PROVE  c = d /\ p = "register"
    <2>1. c = d
      BY <1>1, <1>4 DEF Goto, CallsInv
    <2>2. call'[d].pc = p
      BY <1>3, <1>4, <2>1 DEF Goto, CallsInv, LiveCalls
    <2> QED
      BY <1>1, <2>1, <2>2
  <1>5. \E c \in Calls : Look(c)
    <2>1. ASSUME NEW c \in Calls, NEW rev \in revisions, NEW at \in Stamps, NEW req \in Requests,
                 NEW target \in Targets(rev.draft.kind), NEW debrief \in BOOLEAN,
                 Read(c, rev, target, at, req, debrief)
          PROVE  FALSE
      BY <1>1, <1>2, <2>1, ReadBegins DEF Begun
    <2>2. ASSUME NEW c \in Calls, Remember(c) PROVE FALSE
      BY <1>1, <1>3, <1>4, <2>2 DEF Remember, Begun, Sound, Ended
    <2>3. ASSUME NEW c \in Calls, Register(c) \/ Annotate(c) \/ Audit(c) \/ Deny(c) \/ Fail(c)
          PROVE  FALSE
      <3>1. Begun(c) /\ \E p \in {"audit", "ok", "failed", "remember"} : Goto(c, p)
        BY <2>3 DEF Register, Annotate, Audit, Deny, Fail, Begun, Ended
      <3> QED
        BY <1>4, <3>1
    <2>4. ASSUME Restart PROVE FALSE
      <3>1. call'[d] = [call[d] EXCEPT !.pc = "failed"]
        BY <1>1, <2>4 DEF Restart
      <3> QED
        BY <1>1, <1>3, <3>1 DEF LiveCalls
    <2>5. call' # call
      BY <1>1
    <2> QED
      BY <2>1, <2>2, <2>3, <2>4, <2>5 DEF Next, vars
  <1>6. PICK c \in Calls : Look(c)
    BY <1>5
  <1>7. /\ Begun(c) /\ \A k \in Known(call[c]) : k.rev \in Revs
        /\ revisions' = revisions
    BY <1>6, KnownSound DEF Look, Begun
  <1>8. c = d
    BY <1>1, <1>6, <1>7, LookFinds DEF Moves
  <1>9. Admitted(call[d])
    BY <1>1, <1>3, <1>6, <1>7, <1>8, LookFinds DEF Moves, StoresFirst
  <1>10. call[d].of \notin superseded
    BY <1>1, <1>3, <1>9 DEF Admitted
  <1> QED
    BY <1>2, <1>3, <1>7, <1>10, LiveFields

LEMMA RevisedStep ==
    CallsInv /\ StateInv /\ ResultsInv /\ RevisedInv /\ [Next]_vars => RevisedInv'
  <1> SUFFICES ASSUME CallsInv, StateInv, ResultsInv, RevisedInv, [Next]_vars PROVE RevisedInv'
    OBVIOUS
  <1>1. ASSUME NEW d \in Calls, Annotate(d)
        PROVE  /\ Begun(d) /\ Sound(d) /\ Wrote(d, call[d].rev)' /\ call'[d].after = call[d].after
               /\ call'[d].of = call[d].of /\ call'[d].rev = call[d].rev
               /\ call[d].of.path # <<>> => call[d].of \in superseded'
               /\ Extends(call[d].rev, call[d].of) /\ call[d].pc = "register" /\ call[d].debrief
    <2>1. Begun(d) /\ Sound(d) /\ call[d] \in LiveCalls /\ call[d].pc = "register" /\ call[d].debrief
      BY <1>1, CallType DEF Annotate, Begun, CallsInv
    <2>2. \E p \in Ended : Moves(d, p) /\ call'[d].rev = call[d].rev
      BY <1>1, <2>1, GotoMoves DEF Annotate, Points
    <2>3. Extends(call[d].rev, call[d].of)
      BY <2>1, DerivedSound DEF Sound, Extends
    <2>4. call[d].of \in revisions
      BY <2>1 DEF ResultsInv, Sound
    <2>5. call[d].of.path # <<>> => call[d].of \in superseded'
      BY <1>1, <2>4 DEF Annotate
    <2>6. Begun(d)' /\ Alike(call'[d], call[d]) /\ call'[d].pc \in Ended /\ call'[d].rev = call[d].rev
      BY <2>1, <2>2, CallsStay DEF Moves
    <2> QED
      BY <2>1, <2>3, <2>5, <2>6 DEF Wrote, Alike
  <1>2. ASSUME NEW r \in revisions', Debriefed(r)
        PROVE  \E c \in Calls : Wrote(c, r)' /\ (call'[c].of.path # <<>> => call'[c].of \in superseded')
    <2>1. CASE r \in revisions
      <3>1. PICK c \in Calls : Wrote(c, r) /\ (call[c].of.path # <<>> => call[c].of \in superseded)
        BY <1>2, <2>1 DEF RevisedInv
      <3> QED
        BY <3>1, WroteStays, SupersededGrows
    <2>2. CASE r \notin revisions
      <3>1. PICK c \in Calls : Annotate(c) /\ r = call[c].rev
        BY <1>2, <2>2, DebriefedAdded
      <3> QED
        BY <1>1, <3>1
    <2> QED
      BY <2>1, <2>2
  <1>3. ASSUME NEW d \in Calls, Revising(d)', NEW r \in revisions', Debriefed(r),
               Extends(r, call'[d].of)
        PROVE  \E c \in Calls : Wrote(c, r)' /\ c \notin call'[d].after
    <2>1. Begun(d) /\ call'[d].of = call[d].of /\ call'[d].after = call[d].after
      <3>1. Begun(d)
        BY <1>3, RevisingBegins DEF Revising
      <3> QED
        BY <3>1, CallsStay DEF Alike
    <2>2. CASE r \in revisions /\ Revising(d)
      <3>1. PICK c \in Calls : Wrote(c, r) /\ c \notin call[d].after
        BY <1>3, <2>1, <2>2 DEF RevisedInv
      <3> QED
        BY <2>1, <3>1, WroteStays
    <2>3. CASE r \notin revisions
      <3>1. PICK c \in Calls : Annotate(c) /\ r = call[c].rev
        BY <1>3, <2>3, DebriefedAdded
      <3>2. Wrote(c, r)' /\ call[c].pc \notin Ended
        BY <1>1, <3>1 DEF Ended
      <3>3. c \notin call[d].after
        BY <2>1, <3>2 DEF CallsInv, Sound
      <3> QED
        BY <2>1, <3>2, <3>3
    <2>4. CASE r \in revisions /\ ~Revising(d)
      <3>1. call[d].of \notin superseded /\ call[d].of \in Revs
        BY <1>3, <2>4, RevisingBegins
      <3>2. PICK c \in Calls : Wrote(c, r) /\ (call[c].of.path # <<>> => call[c].of \in superseded)
        BY <1>3, <2>4 DEF RevisedInv
      <3>3. call[c].of \in Revs /\ call[c].of.draft = call[d].of.draft /\ call[c].of.path = call[d].of.path
        BY <1>3, <2>1, <3>2, CallType, LiveFields DEF Wrote, Extends
      <3>4. call[c].of = call[d].of
        BY <3>1, <3>3 DEF Revs
      <3>5. call[d].of.path # <<>>
        BY <1>3, <2>1 DEF Revising
      <3> QED
        BY <3>1, <3>2, <3>4, <3>5
    <2> QED
      BY <2>2, <2>3, <2>4
  <1>4. ASSUME NEW r \in revisions', NEW s \in revisions', Siblings(r, s)
        PROVE  Together(r, s)'
    <2>1. ASSUME NEW x \in revisions, NEW y \in revisions', y \notin revisions, Siblings(x, y)
          PROVE  Together(x, y)' /\ Together(y, x)'
      <3>1. PICK d \in Calls : Annotate(d) /\ y = call[d].rev
        BY <2>1, DebriefedAdded DEF Siblings
      <3>2. /\ Begun(d) /\ Extends(y, call[d].of) /\ call[d].debrief /\ call[d].pc = "register"
            /\ Wrote(d, y)' /\ call'[d].after = call[d].after
        BY <1>1, <3>1
      <3>3. Extends(x, call[d].of) /\ Revising(d) /\ Debriefed(x)
        BY <2>1, <3>2 DEF Extends, Revising, Siblings
      <3>4. PICK c \in Calls : Wrote(c, x) /\ c \notin call[d].after
        BY <2>1, <3>3 DEF RevisedInv
      <3>5. Wrote(c, x)' /\ call'[c] = call[c]
        BY <3>4, WroteStays
      <3>6. d \notin call[c].after
        BY <3>2, <3>4 DEF CallsInv, Sound, Wrote, Ended
      <3> QED
        BY <3>2, <3>4, <3>5, <3>6 DEF Together, Overlap
    <2>2. CASE r \in revisions /\ s \in revisions
      <3>1. PICK c \in Calls, d \in Calls : Wrote(c, r) /\ Wrote(d, s) /\ Overlap(c, d)
        BY <1>4, <2>2 DEF RevisedInv, Together
      <3> QED
        BY <3>1, WroteStays DEF Together, Overlap
    <2>3. CASE r \notin revisions /\ s \notin revisions
      BY <1>4, <2>3, DebriefedAdded DEF Siblings
    <2>4. Siblings(s, r)
      BY <1>4 DEF Siblings
    <2> QED
      BY <1>4, <2>1, <2>2, <2>3, <2>4
  <1> QED
    BY <1>2, <1>3, <1>4 DEF RevisedInv

LEMMA RevisedInit == Init => RevisedInv
  <1> SUFFICES ASSUME Init PROVE RevisedInv
    OBVIOUS
  <1>1. \A r \in revisions : ~Debriefed(r)
    BY DEF Init, Debriefed
  <1>2. \A d \in Calls : ~Revising(d)
    BY DEF Init, Revising, Begun
  <1> QED
    BY <1>1, <1>2 DEF RevisedInv, Siblings

\* The debrief takes what it revises out of use: two successors of one annotation come
\* from calls that overlapped, whichever of their answers were lost.
THEOREM NotesRevisedOnce == Spec => []RevisedOnce
  <1>1. RevisedInv => RevisedOnce
    BY DEF RevisedInv, RevisedOnce, Siblings, Together, Wrote, Begun
  <1> QED
    BY <1>1, SoundInit, CallsStep, StateStep, ResultsInit, ResultsStep, RevisedInit, RevisedStep, PTL
       DEF Spec

-----------------------------------------------------------------------------
(* A request id stands for one thing *)

\* c is answered, or holds the revision that it will be answered with; e has found its
\* request id new and has yet to make it known.
Decided(c) == call[c].pc = "ok" \/ (call[c].pc \in {"register", "audit"} /\ ~StoresFirst(call[c]))
Writing(e) == call[e].pc = "remember" \/ (call[e].pc \in {"register", "audit"} /\ StoresFirst(call[e]))

\* No call under the same id ran at the same time; what c made known is not forgotten.
Alone(c) == \A e \in Calls \ {c} : Begun(e) /\ SameRequest(e, c) => ~Overlap(c, e)
Current(c) == call[c].debrief \/ call[c].life = life

SameId(c, d) == call[c].req = call[d].req /\ Workflow(call[c]) = Workflow(call[d])

ConflictInv ==
    /\ \A c \in Calls : Decided(c) /\ Current(c) /\ Alone(c) => Known(call[c]) = {Memo(call[c])}
    /\ \A c \in Calls : call[c].pc = "register" /\ call[c].debrief /\ Alone(c) => Known(call[c]) = {}
    /\ \A c, e \in Calls : Decided(c) /\ Current(c) /\ Alone(c) /\ Writing(e) /\ SameId(c, e)
                              => c \notin call[e].after
    /\ \A c, d \in Calls : call[c].pc = "ok" /\ Alone(c) /\ Decided(d) /\ c \in call[d].after
                              /\ SameRequest(c, d)
                              => Memo(call[c]) = Memo(call[d])

LEMMA WorkflowTells ==
    ASSUME NEW a \in LiveCalls, NEW b \in LiveCalls, Workflow(a) = Workflow(b),
           a.debrief => a.of.draft.kind = "NOTE", b.debrief => b.of.draft.kind = "NOTE"
    PROVE  a.debrief = b.debrief /\ StoresFirst(a) = StoresFirst(b)
           /\ (a.req = b.req => Known(a) = Known(b))
  <1>1. /\ a.of.draft.kind \in Kinds /\ b.of.draft.kind \in Kinds
        /\ a.debrief \in BOOLEAN /\ b.debrief \in BOOLEAN
    BY LiveFields, DraftType
  <1>2. Workflow(a) = IF a.debrief THEN "M4" ELSE IF InM9(a) THEN "M9" ELSE a.of.draft.kind
    BY DEF Workflow, InM9
  <1>3. Workflow(b) = IF b.debrief THEN "M4" ELSE IF InM9(b) THEN "M9" ELSE b.of.draft.kind
    BY DEF Workflow, InM9
  <1>4. a.debrief = b.debrief /\ (~a.debrief => InM9(a) = InM9(b))
    BY <1>1, <1>2, <1>3 DEF Kinds, InM9
  <1>5. a.req = b.req => Known(a) = Known(b)
    BY <1>4 DEF Known
  <1> QED
    BY <1>4, <1>5 DEF StoresFirst

\* What is known for the same request is one thing.
LEMMA ReuseOne ==
    ASSUME CallsInv, StateInv, NEW c \in Calls, Begun(c), NEW k \in Known(call[c]),
           \A x \in Known(call[c]) : x.fingerprint = Fingerprint(call[c])
    PROVE  Known(call[c]) = {k} /\ k = [fingerprint |-> Fingerprint(call[c]), rev |-> k.rev]
  <1>1. k = [fingerprint |-> Fingerprint(call[c]), rev |-> k.rev]
    BY ReuseSound
  <1>2. CASE call[c].debrief
    <2>1. ASSUME NEW x \in Known(call[c]) PROVE x = k
      <3>1. <<x.rev>> = <<k.rev>>
        BY <1>2, KnownSound
      <3>2. x.rev = k.rev
        BY <3>1
      <3> QED
        BY <1>1, <3>2, ReuseSound
    <2> QED
      BY <1>1, <2>1
  <1>3. CASE ~call[c].debrief
    BY <1>1, <1>3, KnownSound
  <1> QED
    BY <1>2, <1>3

\* How what a request id stands for comes to change: by a restart of the backend, or
\* by a call under the same id that has found it new.
LEMMA KnownTells ==
    ASSUME CallsInv, StateInv, [Next]_vars, NEW c \in Calls, Begun(c)
    PROVE  /\ call[c] \in LiveCalls /\ call[c].req \in Requests /\ Workflow(call[c]) \in Workflows
           /\ ~call[c].debrief => /\ Known(call[c]) = memory[Workflow(call[c])][call[c].req]
                                  /\ Known(call[c])' = memory'[Workflow(call[c])][call[c].req]
           /\ call[c].debrief =>
                 /\ Known(call[c]) = {[fingerprint |-> <<e.rev>>, rev |-> e.rev] :
                                         e \in {e \in audit : Debriefed(e.rev) /\ e.req = call[c].req}}
                 /\ Known(call[c])' = {[fingerprint |-> <<e.rev>>, rev |-> e.rev] :
                                         e \in {e \in audit' : Debriefed(e.rev) /\ e.req = call[c].req}}
           /\ UNCHANGED <<memory, audit>> => Known(call[c])' = Known(call[c])
  <1> DEFINE a == call[c]
  <1>0. a \in LiveCalls /\ a.req \in Requests /\ a.debrief \in BOOLEAN /\ Workflow(a) \in Workflows
    <2>1. a \in LiveCalls /\ a.of.draft.kind \in Kinds
      BY CallType, LiveFields, DraftType
    <2> QED
      BY <2>1, LiveFields DEF Workflow, Workflows
  <1>1. call'[c].req = a.req /\ Workflow(call'[c]) = Workflow(a) /\ call'[c].debrief = a.debrief
    BY CallsStay, AlikeSame DEF Alike
  <1>2. ~a.debrief => Known(a) = memory[Workflow(a)][a.req] /\ Known(a)' = memory'[Workflow(a)][a.req]
    BY <1>1 DEF Known
  <1> DEFINE Rows(log) == {[fingerprint |-> <<e.rev>>, rev |-> e.rev] :
                              e \in {e \in log : Debriefed(e.rev) /\ e.req = a.req}}
  <1>3. a.debrief => Known(a) = Rows(audit) /\ Known(a)' = Rows(audit')
    BY <1>1 DEF Known
  <1>4. UNCHANGED <<memory, audit>> => Known(a)' = Known(a)
    BY <1>0, <1>2, <1>3
  <1> QED
    BY <1>0, <1>2, <1>3, <1>4

LEMMA MemoryEntered ==
    ASSUME CallsInv, StateInv, [Next]_vars, NEW c \in Calls, Begun(c), NEW e \in Calls, Remember(e)
    PROVE  /\ Begun(e) /\ UnderWay(e) /\ Writing(e)
           /\ SameId(c, e) => Known(call[c])' = {Memo(call[e])}
           /\ ~SameId(c, e) => Known(call[c])' = Known(call[c])
  <1>1. Begun(e) /\ Sound(e) /\ UnderWay(e) /\ Writing(e) /\ call[e] \in LiveCalls
        /\ ~call[e].debrief /\ (call[c].debrief => call[c].of.draft.kind = "NOTE")
    BY CallType DEF Remember, Begun, CallsInv, Sound, UnderWay, Ended, Writing
  <1>2. call[e].req \in Requests /\ Workflow(call[e]) \in Workflows
    BY <1>1, KnownTells
  <1>3. memory' = [memory EXCEPT ![Workflow(call[e])][call[e].req] = {Memo(call[e])}] /\ audit' = audit
    BY DEF Remember, Memo
  <1>4. ASSUME SameId(c, e) PROVE Known(call[c])' = {Memo(call[e])}
    <2>1. ~call[c].debrief
      BY <1>1, <1>4, CallType, WorkflowTells DEF SameId
    <2>2. memory'[Workflow(call[c])][call[c].req] = {Memo(call[e])}
      BY <1>2, <1>3, <1>4 DEF SameId, StateInv
    <2> QED
      BY <2>1, <2>2, KnownTells
  <1>5. ASSUME ~SameId(c, e) PROVE Known(call[c])' = Known(call[c])
    <2>1. memory'[Workflow(call[c])][call[c].req] = memory[Workflow(call[c])][call[c].req]
      BY <1>2, <1>3, <1>5, KnownTells DEF SameId, StateInv
    <2>2. call[c].debrief \in BOOLEAN
      BY CallType, LiveFields
    <2>3. CASE call[c].debrief
      BY <1>3, <2>3, KnownTells
    <2>4. CASE ~call[c].debrief
      BY <2>1, <2>4, KnownTells
    <2> QED
      BY <2>2, <2>3, <2>4
  <1> QED
    BY <1>1, <1>4, <1>5

LEMMA AuditEntered ==
    ASSUME CallsInv, StateInv, [Next]_vars, NEW c \in Calls, Begun(c), NEW e \in Calls, Annotate(e)
    PROVE  /\ Begun(e) /\ UnderWay(e) /\ Writing(e) /\ call'[e].pc \in Ended
           /\ SameId(c, e) => Known(call[c])' = Known(call[c]) \cup {Memo(call[e])}
           /\ ~SameId(c, e) => Known(call[c])' = Known(call[c])
  <1> DEFINE entry == [req |-> call[e].req, rev |-> call[e].rev, outcome |-> "ALLOW"]
             Row(x) == [fingerprint |-> <<x.rev>>, rev |-> x.rev]
  <1>1. Begun(e) /\ Sound(e) /\ UnderWay(e) /\ Writing(e) /\ call[e] \in LiveCalls
        /\ call[e].debrief /\ call[e].rev = Derived(call[e]) /\ Allowed(call[e])
    BY CallType DEF Annotate, Begun, CallsInv, Sound, UnderWay, Ended, Writing, StoresFirst
  <1>2. Memo(call[e]) = Row(entry)
    BY <1>1 DEF Memo, Fingerprint, Sound
  <1>3. audit' = audit \cup {entry} /\ memory' = memory
    BY DEF Annotate, Entry
  <1>4. call'[e].pc \in Ended
    <2>1. PICK p \in Ended : Goto(e, p)
      BY DEF Annotate
    <2> QED
      BY <1>1, <2>1, GotoMoves DEF Moves, Points
  <1>5. ASSUME SameId(c, e) PROVE Known(call[c])' = Known(call[c]) \cup {Memo(call[e])}
    <2>1. call[c].debrief /\ call[c].req = call[e].req
      BY <1>1, <1>5, CallType, WorkflowTells DEF SameId, CallsInv, Sound
    <2>2. Debriefed(entry.rev) /\ entry.req = call[c].req
      BY <1>1, <2>1, DerivedSound DEF Sound
    <2> HIDE DEF entry
    <2>3. Known(call[c])' = Known(call[c]) \cup {Row(entry)}
      BY <1>3, <2>1, <2>2, KnownTells
    <2> QED
      BY <1>2, <2>3
  <1>6. ASSUME ~SameId(c, e) PROVE Known(call[c])' = Known(call[c])
    <2>1. CASE call[c].debrief
      <3>1. call[c].of.draft.kind = "NOTE" /\ call[e].of.draft.kind = "NOTE"
        BY <1>1, <2>1 DEF CallsInv, Sound
      <3>2. entry.req # call[c].req
        BY <1>1, <1>6, <2>1, <3>1 DEF SameId, Workflow, InM9
      <3> HIDE DEF entry
      <3> QED
        BY <1>3, <2>1, <3>2, KnownTells
    <2>2. CASE ~call[c].debrief
      BY <1>3, <2>2, KnownTells
    <2> QED
      BY <2>1, <2>2
  <1> QED
    BY <1>1, <1>4, <1>5, <1>6

LEMMA KnownChanges ==
    ASSUME CallsInv, StateInv, [Next]_vars, NEW c \in Calls, Begun(c)
    PROVE  \/ Known(call[c])' = Known(call[c])
           \/ ~call[c].debrief /\ life' = life + 1
           \/ \E e \in Calls : /\ Remember(e) \/ Annotate(e)
                               /\ Begun(e) /\ UnderWay(e) /\ Writing(e) /\ SameId(c, e)
  <1> DEFINE Goal == \/ Known(call[c])' = Known(call[c])
                     \/ ~call[c].debrief /\ life' = life + 1
                     \/ \E e \in Calls : /\ Remember(e) \/ Annotate(e)
                                         /\ Begun(e) /\ UnderWay(e) /\ Writing(e) /\ SameId(c, e)
  <1>1. UNCHANGED <<memory, audit>> => Goal
    BY KnownTells
  <1>2. ASSUME NEW e \in Calls, Remember(e) \/ Annotate(e) PROVE Goal
    BY <1>2, MemoryEntered, AuditEntered
  <1>3. ASSUME NEW e \in Calls, Audit(e) \/ Deny(e) PROVE Goal
    <2>1. Begun(e) /\ ~Debriefed(call[e].rev)
      BY <1>3, CallType, LiveFields DEF Audit, Deny, Begun, CallsInv, Sound, Ended
    <2>2. PICK outcome : audit' = audit \cup {[req |-> call[e].req, rev |-> call[e].rev, outcome |-> outcome]}
      BY <1>3 DEF Audit, Deny, Entry
    <2>3. memory' = memory
      BY <1>3 DEF Audit, Deny
    <2>4. (\A x \in audit' : Debriefed(x.rev) => x \in audit) /\ audit \subseteq audit'
      BY <2>1, <2>2
    <2>5. CASE call[c].debrief
      <3>1. {x \in audit' : Debriefed(x.rev) /\ x.req = call[c].req}
                = {x \in audit : Debriefed(x.rev) /\ x.req = call[c].req}
        BY <2>4
      <3> QED
        BY <2>5, <3>1, KnownTells
    <2>6. CASE ~call[c].debrief
      BY <2>3, <2>6, KnownTells
    <2> QED
      BY <2>5, <2>6
  <1>4. ASSUME Restart PROVE Goal
    <2>1. audit' = audit /\ life' = life + 1
      BY <1>4 DEF Restart
    <2>2. CASE call[c].debrief
      BY <2>1, <2>2, KnownTells
    <2> QED
      BY <2>1, <2>2
  <1>5. UNCHANGED vars => Goal
    BY <1>1 DEF vars
  <1>6. ASSUME NEW e \in Calls, Look(e) \/ Register(e) \/ Fail(e) PROVE Goal
    BY <1>1, <1>6 DEF Look, Register, Fail
  <1>7. ASSUME NEW e \in Calls, NEW rev \in revisions, NEW at \in Stamps, NEW req \in Requests,
               NEW target \in Targets(rev.draft.kind), NEW debrief \in BOOLEAN,
               Read(e, rev, target, at, req, debrief)
        PROVE  Goal
    BY <1>1, <1>7 DEF Read
  <1> HIDE DEF Goal
  <1>8. Goal
    BY <1>2, <1>3, <1>4, <1>5, <1>6, <1>7 DEF Next
  <1> QED
    BY <1>8 DEF Goal

\* What can happen to a call that has begun, and what it is then.
LEMMA CallMoves ==
    ASSUME CallsInv, StateInv, [Next]_vars, NEW c \in Calls, Begun(c)
    PROVE  \/ call'[c] = call[c]
           \/ call'[c].pc = "failed" /\ ~Annotate(c)
           \/ Look(c) /\ call[c].pc = "look"
           \/ Remember(c) /\ call[c].pc = "remember" /\ call'[c].pc = (IF InM9(call[c]) THEN "ok" ELSE "register")
           \/ Register(c) /\ call[c].pc = "register" /\ call'[c].pc = "audit"
           \/ Annotate(c) /\ call[c].pc = "register" /\ call'[c].pc \in Ended
           \/ Audit(c) /\ call[c].pc = "audit" /\ call'[c].pc = (IF InM9(call[c]) THEN "remember" ELSE "ok")
           \/ Deny(c) /\ call[c].pc = "deny" /\ call'[c].pc = "failed"
  <1> DEFINE Goal == \/ call'[c] = call[c]
                     \/ call'[c].pc = "failed" /\ ~Annotate(c)
                     \/ Look(c) /\ call[c].pc = "look"
                     \/ Remember(c) /\ call[c].pc = "remember" /\ call'[c].pc = (IF InM9(call[c]) THEN "ok" ELSE "register")
                     \/ Register(c) /\ call[c].pc = "register" /\ call'[c].pc = "audit"
                     \/ Annotate(c) /\ call[c].pc = "register" /\ call'[c].pc \in Ended
                     \/ Audit(c) /\ call[c].pc = "audit" /\ call'[c].pc = (IF InM9(call[c]) THEN "remember" ELSE "ok")
                     \/ Deny(c) /\ call[c].pc = "deny" /\ call'[c].pc = "failed"
  <1>1. call[c] \in LiveCalls /\ call \in [Calls -> LiveCalls \cup {Idle}]
    BY CallType DEF CallsInv
  <1>2. ASSUME NEW p, Goto(c, p) PROVE call'[c].pc = p
    BY <1>1, <1>2 DEF Goto, LiveCalls
  <1>3. ASSUME NEW d \in Calls, NEW p, Goto(d, p), d # c PROVE call'[c] = call[c]
    BY <1>1, <1>3 DEF Goto
  <1>4. CASE Restart
    <2>1. call'[c] = IF call[c].pc \in Ended \cup {"idle"} THEN call[c]
                     ELSE [call[c] EXCEPT !.pc = "failed"]
      BY <1>4 DEF Restart
    <2>2. call'[c] = call[c] \/ call'[c].pc = "failed"
      BY <1>1, <2>1 DEF LiveCalls
    <2>3. ~Annotate(c)
      BY <1>4 DEF Restart, Annotate, StateInv
    <2> QED
      BY <2>2, <2>3
  <1>5. ASSUME NEW d \in Calls, NEW rev \in revisions, NEW at \in Stamps, NEW req \in Requests,
               NEW target \in Targets(rev.draft.kind), NEW debrief \in BOOLEAN,
               Read(d, rev, target, at, req, debrief)
        PROVE  call'[c] = call[c]
    BY <1>1, <1>5 DEF Read, Begun
  <1>6. ASSUME NEW d \in Calls, Look(d) PROVE Goal
    BY <1>1, <1>6 DEF Look
  <1>7. ASSUME NEW d \in Calls, Remember(d) PROVE Goal
    <2>1. call[d].pc = "remember" /\ Goto(d, IF InM9(call[d]) THEN "ok" ELSE "register")
      BY <1>7 DEF Remember
    <2>2. CASE d = c
      <3>1. call'[c].pc = (IF InM9(call[c]) THEN "ok" ELSE "register")
        BY <1>2, <2>1, <2>2
      <3> QED
        BY <1>7, <2>1, <2>2, <3>1
    <2>3. CASE d # c
      BY <1>3, <2>1, <2>3
    <2> QED
      BY <2>2, <2>3
  <1>8. ASSUME NEW d \in Calls, Register(d) PROVE Goal
    BY <1>2, <1>3, <1>8 DEF Register
  <1>9. ASSUME NEW d \in Calls, Annotate(d) PROVE Goal
    BY <1>2, <1>3, <1>9 DEF Annotate
  <1>10. ASSUME NEW d \in Calls, Audit(d) PROVE Goal
    BY <1>2, <1>3, <1>10 DEF Audit
  <1>11. ASSUME NEW d \in Calls, Deny(d) PROVE Goal
    BY <1>2, <1>3, <1>11 DEF Deny
  <1>12. ASSUME NEW d \in Calls, Fail(d) PROVE Goal
    <2>1. call'[c] = call[c] \/ call'[c].pc = "failed"
      BY <1>2, <1>3, <1>12 DEF Fail
    <2>2. call'[c].pc = "failed" => Goal
      <3>1. Annotate(c) => Goal
        BY <1>9
      <3> QED
        BY <3>1
    <2> QED
      BY <2>1, <2>2
  <1>13. UNCHANGED vars => Goal
    BY DEF vars
  <1> HIDE DEF Goal
  <1>14. call'[c] = call[c] => Goal
    BY DEF Goal
  <1>15. Restart => Goal
    BY <1>4 DEF Goal
  <1>16. Goal
    BY <1>5, <1>6, <1>7, <1>8, <1>9, <1>10, <1>11, <1>12, <1>13, <1>14, <1>15 DEF Next
  <1> QED
    BY <1>16 DEF Goal

\* What c made known is not forgotten now if it is not in the next state, and it is
\* alone now if it is then.
LEMMA CurrentBefore ==
    ASSUME CallsInv, StateInv, [Next]_vars, NEW c \in Calls, Begun(c)
    PROVE  /\ Alone(c)' => Alone(c)
           /\ Current(c)' => Current(c) /\ (call[c].debrief \/ life' = life)
  <1>1. Alike(call'[c], call[c]) /\ Workflow(call'[c]) = Workflow(call[c])
    BY CallsStay, AlikeSame
  <1>2. ASSUME Alone(c)', NEW e \in Calls \ {c}, Begun(e), SameRequest(e, c)
        PROVE  ~Overlap(c, e)
    <2>1. Begun(e)' /\ Alike(call'[e], call[e]) /\ Workflow(call'[e]) = Workflow(call[e])
      BY <1>2, CallsStay, AlikeSame
    <2>2. SameRequest(e, c)'
      BY <1>1, <1>2, <2>1 DEF SameRequest, Alike
    <2>3. ~Overlap(c, e)'
      BY <1>2, <2>1, <2>2 DEF Alone
    <2> QED
      BY <1>1, <2>1, <2>3 DEF Overlap, Alike
  <1>3. life' = life \/ life' = life + 1
    <2>1. ASSUME NEW e \in Calls,
                 Look(e) \/ Remember(e) \/ Register(e) \/ Annotate(e) \/ Audit(e) \/ Deny(e) \/ Fail(e)
          PROVE  life' = life
      BY <2>1 DEF Look, Remember, Register, Annotate, Audit, Deny, Fail
    <2>2. ASSUME NEW e \in Calls, NEW rev \in revisions, NEW at \in Stamps, NEW req \in Requests,
                 NEW target \in Targets(rev.draft.kind), NEW debrief \in BOOLEAN,
                 Read(e, rev, target, at, req, debrief)
          PROVE  life' = life
      BY <2>2 DEF Read
    <2>3. Restart => life' = life + 1
      BY DEF Restart
    <2>4. UNCHANGED vars => life' = life
      BY DEF vars
    <2> QED
      BY <2>1, <2>2, <2>3, <2>4 DEF Next
  <1>4. call[c].life \in Nat /\ call[c].life <= life /\ life \in Nat
    BY CallType, LiveFields DEF CallsInv, Sound, StateInv
  <1>5. Current(c)' => Current(c) /\ (call[c].debrief \/ life' = life)
    BY <1>1, <1>3, <1>4 DEF Current, Alike
  <1> QED
    BY <1>2, <1>5 DEF Alone


\* When a call is decided: it finds its id known for the same request, or it makes
\* known what it has derived.
LEMMA DecidedBegins ==
    ASSUME CallsInv, StateInv, [Next]_vars, NEW c \in Calls, Decided(c)', ~Decided(c)
    PROVE  /\ Begun(c)
           /\ \/ /\ call[c].pc = "look" /\ UNCHANGED <<memory, audit>>
                 /\ \E k \in Known(call[c]) : call'[c].rev = k.rev
                 /\ \A k \in Known(call[c]) : k.fingerprint = Fingerprint(call[c])
              \/ Remember(c) /\ call'[c].rev = call[c].rev
              \/ Annotate(c) /\ call'[c].rev = call[c].rev
  <1>1. Begun(c) /\ call'[c] # call[c]
    BY CallBegins DEF Decided, Begun
  <1>2. /\ call'[c].rev = call[c].rev \/ call[c].pc = "look"
        /\ StoresFirst(call'[c]) = StoresFirst(call[c]) /\ Sound(c) /\ call[c] \in LiveCalls
    BY <1>1, CallsStay, AlikeSame, CallType DEF CallsInv
  <1>3. call'[c].pc = "ok" \/ (call'[c].pc \in {"register", "audit"} /\ ~StoresFirst(call[c]))
    BY <1>2 DEF Decided
  <1>4. CASE Look(c)
    <2>1. \A k \in Known(call[c]) : k.rev \in Revs
      BY <1>1, KnownSound
    <2> QED
      BY <1>1, <1>3, <1>4, <2>1, LookFinds DEF Moves
  <1>5. CASE Register(c)
    <2>1. call'[c].pc \in {"audit", "failed"} \/ call[c].pc # "register"
      BY <1>1, <1>5, CallMoves DEF Register, Annotate
    <2> QED
      BY <1>3, <1>5, <2>1 DEF Register, Decided
  <1>6. ASSUME Audit(c), call'[c].pc = (IF InM9(call[c]) THEN "remember" ELSE "ok") PROVE FALSE
    <2>1. ~InM9(call[c]) /\ call[c].pc = "audit" /\ ~call[c].debrief
      BY <1>2, <1>3, <1>6 DEF Audit, Sound, Ended
    <2> QED
      BY <2>1 DEF Decided, StoresFirst
  <1>7. Look(c) \/ Remember(c) \/ Register(c) \/ Annotate(c)
    BY <1>1, <1>3, <1>6, CallMoves
  <1> QED
    BY <1>1, <1>2, <1>4, <1>5, <1>7 DEF Remember, Annotate

\* A call that is to make something known has found its id new.
LEMMA WritingBegins ==
    ASSUME CallsInv, StateInv, [Next]_vars, NEW e \in Calls, Writing(e)', ~Writing(e)
    PROVE  Begun(e) /\ UnderWay(e) /\ Known(call[e]) = {} /\ UNCHANGED <<memory, audit>>
  <1>1. Begun(e) /\ call'[e] # call[e]
    BY CallBegins DEF Writing, Begun
  <1>2. StoresFirst(call'[e]) = StoresFirst(call[e]) /\ Sound(e) /\ call[e] \in LiveCalls
    BY <1>1, CallsStay, AlikeSame, CallType DEF CallsInv
  <1>3. call'[e].pc = "remember" \/ (call'[e].pc \in {"register", "audit"} /\ StoresFirst(call[e]))
    BY <1>2 DEF Writing
  <1>4. Look(e)
    <2>1. ~Remember(e)
      BY <1>3 DEF Remember, Writing
    <2>2. ~Register(e)
      <3>1. Register(e) => call[e].pc = "register"
        BY DEF Register
      <3>2. call[e].pc = "register" => call'[e].pc \notin {"remember"}
        BY <1>1, CallMoves DEF Register, Annotate, Ended
      <3> QED
        BY <1>3, <3>1, <3>2 DEF Writing
    <2>3. ASSUME Audit(e), call'[e].pc = (IF InM9(call[e]) THEN "remember" ELSE "ok") PROVE FALSE
      BY <1>3, <2>3 DEF Audit, Writing, StoresFirst
    <2> QED
      BY <1>1, <1>3, <2>1, <2>2, <2>3, CallMoves DEF Ended
  <1>5. \A k \in Known(call[e]) : k.rev \in Revs
    BY <1>1, KnownSound
  <1> QED
    BY <1>1, <1>3, <1>4, <1>5, LookFinds DEF Moves, UnderWay, Ended

\* Who is alone under an id meets nobody under way with it.
LEMMA NoneIntrudes ==
    ASSUME CallsInv, StateInv, NEW c \in Calls, NEW e \in Calls \ {c},
           Begun(c), UnderWay(e), SameId(c, e), Current(c), Alone(c)
    PROVE  c \in call[e].after
  <1>1. /\ call[c] \in LiveCalls /\ call[e] \in LiveCalls /\ Sound(c) /\ Sound(e) /\ Begun(e)
        /\ call[c].debrief = call[e].debrief
    BY CallType, WorkflowTells DEF UnderWay, CallsInv, Sound, SameId
  <1>2. SameRequest(e, c)
    BY <1>1 DEF SameRequest, SameId, Current, Sound
  <1>3. e \notin call[c].after
    BY <1>1 DEF Sound, UnderWay
  <1> QED
    BY <1>1, <1>2, <1>3 DEF Alone, Overlap


\* What a decided call made known, or found known, stands as long as nobody ran under
\* its id at the same time.
LEMMA DecidedStands ==
    ASSUME CallsInv, StateInv, ConflictInv, [Next]_vars, NEW c \in Calls,
           (Decided(c) /\ Current(c) /\ Alone(c))'
    PROVE  Known(call[c])' = {Memo(call[c])}'
  <1>1. Begun(c)
    BY CallBegins DEF Decided, Begun
  <1>2. /\ Alone(c) /\ Current(c) /\ (call[c].debrief \/ life' = life) /\ life \in Nat
        /\ Fingerprint(call'[c]) = Fingerprint(call[c])
        /\ call[c].pc # "look" => call'[c].rev = call[c].rev
    BY <1>1, CurrentBefore, CallsStay, AlikeSame DEF StateInv
  <1>3. CASE Decided(c)
    <2>1. Known(call[c]) = {Memo(call[c])}
      BY <1>2, <1>3 DEF ConflictInv
    <2>2. Memo(call'[c]) = Memo(call[c])
      BY <1>2, <1>3 DEF Memo, Decided
    <2>3. ASSUME NEW e \in Calls, UnderWay(e), Writing(e), SameId(c, e) PROVE FALSE
      <3>1. c # e
        BY <1>3, <2>3 DEF Decided, Writing
      <3> QED
        BY <1>1, <1>2, <1>3, <2>3, <3>1, NoneIntrudes DEF ConflictInv
    <2>4. Known(call[c])' = Known(call[c])
      BY <1>1, <1>2, <2>3, KnownChanges
    <2> QED
      BY <2>1, <2>2, <2>4
  <1>4. CASE ~Decided(c)
    <2>1. CASE /\ UNCHANGED <<memory, audit>>
               /\ \E k \in Known(call[c]) : call'[c].rev = k.rev
               /\ \A k \in Known(call[c]) : k.fingerprint = Fingerprint(call[c])
      <3>1. PICK k \in Known(call[c]) : call'[c].rev = k.rev
        BY <2>1
      <3>2. Known(call[c]) = {k} /\ k = [fingerprint |-> Fingerprint(call[c]), rev |-> k.rev]
        BY <1>1, <2>1, ReuseOne
      <3>3. Known(call[c])' = Known(call[c])
        BY <1>1, <2>1, KnownTells
      <3> QED
        BY <1>2, <3>1, <3>2, <3>3 DEF Memo
    <2>2. CASE Remember(c) /\ call'[c].rev = call[c].rev
      <3>1. Known(call[c])' = {Memo(call[c])}
        BY <1>1, <2>2, MemoryEntered DEF SameId
      <3> QED
        BY <1>2, <2>2, <3>1 DEF Memo
    <2>3. CASE Annotate(c) /\ call'[c].rev = call[c].rev
      <3>1. Known(call[c]) = {}
        BY <1>2, <2>3 DEF ConflictInv, Annotate
      <3>2. Known(call[c])' = {Memo(call[c])}
        BY <1>1, <2>3, <3>1, AuditEntered DEF SameId
      <3> QED
        BY <1>2, <2>3, <3>2 DEF Memo
    <2> QED
      BY <1>4, <2>1, <2>2, <2>3, DecidedBegins
  <1> QED
    BY <1>3, <1>4

\* A debrief that is to be stored is still new if nobody ran under its id.
LEMMA DebriefStaysNew ==
    ASSUME CallsInv, StateInv, ConflictInv, [Next]_vars, NEW c \in Calls,
           (call[c].pc = "register" /\ call[c].debrief /\ Alone(c))'
    PROVE  Known(call[c])' = {}
  <1>1. Begun(c)
    BY CallBegins DEF Begun
  <1>2. Alone(c) /\ call[c].debrief /\ Sound(c) /\ Current(c)
    BY <1>1, CurrentBefore, CallsStay DEF CallsInv, Alike, Current
  <1>3. CASE call[c].pc = "register"
    <2>1. Known(call[c]) = {}
      BY <1>2, <1>3 DEF ConflictInv
    <2>2. ASSUME NEW e \in Calls, Remember(e) \/ Annotate(e), Begun(e), UnderWay(e), SameId(c, e)
          PROVE  FALSE
      <3>1. c # e
        <4>1. Remember(e) => call[e].pc = "remember"
          BY DEF Remember
        <4>2. Annotate(e) => call'[e].pc # "register"
          BY <1>1, AuditEntered DEF Ended
        <4> QED
          BY <1>3, <2>2, <4>1, <4>2
      <3>2. c \in call[e].after
        BY <1>1, <1>2, <2>2, <3>1, NoneIntrudes
      <3> QED
        BY <1>3, <2>2, <3>2 DEF CallsInv, Sound, Ended
    <2> QED
      BY <1>1, <1>2, <2>1, <2>2, KnownChanges
  <1>4. CASE call[c].pc # "register"
    <2>1. Writing(c)' /\ ~Writing(c)
      BY <1>2, <1>4 DEF Writing, StoresFirst, Sound, Ended
    <2> QED
      BY <1>1, <2>1, WritingBegins, KnownTells
  <1> QED
    BY <1>3, <1>4

\* Whoever is to make something known did not begin after another was decided.
LEMMA WritersCameBefore ==
    ASSUME CallsInv, StateInv, ConflictInv, [Next]_vars, NEW c \in Calls, NEW e \in Calls,
           (Decided(c) /\ Current(c) /\ Alone(c) /\ Writing(e) /\ SameId(c, e))'
    PROVE  c \notin call'[e].after
  <1> SUFFICES ASSUME c \in call'[e].after PROVE FALSE
    OBVIOUS
  <1>1. Begun(c) /\ Begun(e)
    BY CallBegins DEF Decided, Writing, Begun
  <1>2. /\ Alone(c) /\ Current(c) /\ SameId(c, e) /\ c \in call[e].after
        /\ call[c] \in LiveCalls /\ call[e] \in LiveCalls /\ Sound(c) /\ Sound(e)
    BY <1>1, CurrentBefore, CallsStay, AlikeSame, CallType DEF Alike, SameId, CallsInv
  <1>3. call[c].pc \in Ended /\ call'[c] = call[c]
    BY <1>1, <1>2, CallsStay DEF Sound
  <1>4. Decided(c)
    BY <1>3 DEF Decided, Ended
  <1>5. Known(call[c]) # {} /\ ~Writing(e)
    BY <1>2, <1>4 DEF ConflictInv
  <1>6. Known(call[e]) = {}
    BY <1>5, WritingBegins
  <1>7. Known(call[c]) = Known(call[e])
    BY <1>2, WorkflowTells DEF SameId, Sound
  <1> QED
    BY <1>5, <1>6, <1>7

\* Whoever is decided after another was answered has the same request and revision.
LEMMA LaterAgrees ==
    ASSUME CallsInv, StateInv, ConflictInv, [Next]_vars, NEW c \in Calls, NEW d \in Calls,
           (/\ call[c].pc = "ok" /\ Alone(c) /\ Decided(d) /\ c \in call[d].after
            /\ SameRequest(c, d))'
    PROVE  Memo(call'[c]) = Memo(call'[d])
  <1>1. Begun(c) /\ Begun(d)
    BY CallBegins DEF Decided, Begun
  <1>2. /\ Alone(c) /\ SameRequest(c, d) /\ c \in call[d].after
        /\ call[c] \in LiveCalls /\ call[d] \in LiveCalls /\ Sound(c) /\ Sound(d)
        /\ Fingerprint(call'[d]) = Fingerprint(call[d])
        /\ call[d].pc # "look" => call'[d].rev = call[d].rev
    BY <1>1, CurrentBefore, CallsStay, AlikeSame, CallType DEF Alike, SameRequest, CallsInv
  <1>3. call'[c] = call[c] /\ Decided(c) /\ call[c].pc = "ok"
    <2>1. call[c].pc \in Ended
      BY <1>2 DEF Sound
    <2> QED
      BY <1>1, <2>1, CallsStay DEF Decided
  <1>4. CASE Decided(d)
    <2>1. Memo(call[c]) = Memo(call[d])
      BY <1>2, <1>3, <1>4 DEF ConflictInv
    <2>2. Memo(call'[d]) = Memo(call[d])
      BY <1>2, <1>4 DEF Memo, Decided
    <2> QED
      BY <1>3, <2>1, <2>2
  <1>5. CASE ~Decided(d)
    <2>1. UnderWay(d)
      BY <1>1, <1>5, DecidedBegins DEF UnderWay, Remember, Annotate, Ended
    <2>2. Current(c) /\ SameId(c, d)
      BY <1>2, <2>1 DEF Current, SameRequest, SameId, Sound
    <2>3. Known(call[c]) = {Memo(call[c])} /\ Known(call[d]) = Known(call[c])
      BY <1>2, <1>3, <2>2, WorkflowTells DEF ConflictInv, SameId, Sound
    <2>4. ~Writing(d)
      BY <1>2, <1>3, <2>2 DEF ConflictInv
    <2>5. \E k \in Known(call[d]) : call'[d].rev = k.rev
          /\ \A x \in Known(call[d]) : x.fingerprint = Fingerprint(call[d])
      BY <1>1, <1>5, <2>4, DecidedBegins, MemoryEntered, AuditEntered
    <2>6. PICK k \in Known(call[d]) : /\ call'[d].rev = k.rev
                                      /\ \A x \in Known(call[d]) : x.fingerprint = Fingerprint(call[d])
      BY <2>5
    <2>7. k = [fingerprint |-> Fingerprint(call[d]), rev |-> k.rev]
      BY <1>1, <2>6, ReuseOne
    <2>8. Memo(call'[d]) = k
      BY <1>2, <2>6, <2>7 DEF Memo
    <2> QED
      BY <1>3, <2>3, <2>8
  <1> QED
    BY <1>4, <1>5

LEMMA ConflictStep == CallsInv /\ StateInv /\ ConflictInv /\ [Next]_vars => ConflictInv'
  <1> SUFFICES ASSUME CallsInv, StateInv, ConflictInv, [Next]_vars PROVE ConflictInv'
    OBVIOUS
  <1>1. \A c \in Calls : (Decided(c) /\ Current(c) /\ Alone(c))' => Known(call[c])' = {Memo(call[c])}'
    BY DecidedStands
  <1>2. \A c \in Calls : (call[c].pc = "register" /\ call[c].debrief /\ Alone(c))' => Known(call[c])' = {}
    BY DebriefStaysNew
  <1>3. \A c, e \in Calls :
            (Decided(c) /\ Current(c) /\ Alone(c) /\ Writing(e) /\ SameId(c, e))' => c \notin call'[e].after
    BY WritersCameBefore
  <1>4. \A c, d \in Calls :
            (/\ call[c].pc = "ok" /\ Alone(c) /\ Decided(d) /\ c \in call[d].after
             /\ SameRequest(c, d))'
            => Memo(call'[c]) = Memo(call'[d])
    BY LaterAgrees
  <1> QED
    BY <1>1, <1>2, <1>3, <1>4 DEF ConflictInv

LEMMA ConflictInit == Init => ConflictInv
  <1> SUFFICES ASSUME Init PROVE ConflictInv
    OBVIOUS
  <1>1. \A c \in Calls : call[c].pc = "idle"
    BY DEF Init
  <1>2. \A c \in Calls : ~Decided(c) /\ ~Writing(c) /\ call[c].pc # "register"
    BY <1>1 DEF Decided, Writing
  <1> QED
    BY <1>2 DEF ConflictInv

\* As long as the backend runs, and in the debrief across its restarts, a request id
\* that one call was answered under, with no other at the same time, stands for what
\* that call asked: a later answer under it is the same revision for the same request.
THEOREM RequestsMeanOneThing == Spec => []ConflictsRefused
  <1>1. CallsInv /\ ConflictInv => ConflictsRefused
    <2> SUFFICES ASSUME CallsInv, ConflictInv, NEW d \in Answered, NEW c \in call[d].after \cap Answered,
                        SameRequest(c, d), Alone(c)
                 PROVE  call[c].rev = call[d].rev /\ Fingerprint(call[c]) = Fingerprint(call[d])
      BY DEF ConflictsRefused, Alone, Begun
    <2>1. Memo(call[c]) = Memo(call[d])
      BY DEF ConflictInv, Answered, Decided
    <2> QED
      BY <2>1 DEF Memo
  <1> QED
    BY <1>1, SoundInit, CallsStep, StateStep, ConflictInit, ConflictStep, PTL DEF Spec

===============================================================================
