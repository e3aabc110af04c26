--------------------------- MODULE ReleaseLedger ---------------------------
(***************************************************************************)
(* Publication of a release in a scope: CorePublicationLedger.publish, the *)
(* product ledgers' register and P2ReleaseRepository.publish, each in its  *)
(* unit of work, against registry.analysis_release, compute_job and        *)
(* release_scope_pointer.  A publisher is one call in its own transaction. *)
(*   - SQLITE: the transaction opens under the process-wide writer lease,  *)
(*     or fails at once.                                                   *)
(*   - POSTGRES: transactions overlap under READ COMMITTED.  The core and  *)
(*     the product route lock the idempotency key and then the scope; the  *)
(*     P2 route locks nothing.                                             *)
(* The pointer table has no primary key and no unique constraint.          *)
(***************************************************************************)
EXTENDS Naturals, FiniteSets

CONSTANTS
    Publishers,   \* calls that publish
    Keys,         \* idempotency keys; for the P2 route, jobs
    Releases,     \* release ids, each fixed by the content of the release
    Scopes,       \* scope keys
    ScopeOf,      \* scope a release belongs to
    RouteOf,      \* code path that publishes in a scope
    Nobody,       \* holder of a free lock
    None          \* no release

Routes == {"core", "product", "p2"}

ASSUME ScopeAssumption == ScopeOf \in [Releases -> Scopes]
ASSUME RouteAssumption == RouteOf \in [Scopes -> Routes]
ASSUME AbsentAssumption == Nobody \notin Publishers /\ None \notin Releases
ASSUME ReleasesAssumption == IsFiniteSet(Releases)

VARIABLES
    engine,     \* storage of the deployment, "SQLITE" or "POSTGRES"
    releases,   \* committed release rows with the key of their job
    pointer,    \* committed pointer rows of each scope
    session,    \* training_session.current_release_id of the core scopes
    writer,     \* publisher holding the SQLite writer lease
    keyLock,    \* publisher holding the lock of a key
    scopeLock,  \* publisher holding the lock of a scope
    pc,         \* what each publisher does next
    call,       \* arguments of each call
    seen,       \* pointer rows each transaction has read
    receipt     \* release number returned to each caller, 0 for none

tables == <<engine, releases, pointer, session>>
locks == <<writer, keyLock, scopeLock>>
vars == <<tables, locks, pc, call, seen, receipt>>

\* Routes name their keys apart: "<key>:P1_RELEASE", a product's key, a job id.
CallKeys == Keys \X Routes
Parents == Releases \cup {None}

Release(p) == call[p].release
Key(p) == call[p].key
Scope(p) == ScopeOf[Release(p)]
Route(p) == RouteOf[Scope(p)]

RowsOf(s) == {x \in releases : ScopeOf[x.release] = s}
KeyRows(k) == {x \in releases : x.key = k}

\* What a reader of the pointer rows takes for the state of the scope.
Token(rows) == IF rows = {} THEN 0 ELSE (CHOOSE x \in rows : TRUE).token
Current(rows) == IF rows = {} THEN None ELSE (CHOOSE x \in rows : TRUE).release

\* allocate_p2_release_id: the id of a P2 release is derived from its job.
P2IdsOf(p, q) == Key(p) = Key(q) <=> Release(p) = Release(q)

Init ==
    /\ engine \in {"SQLITE", "POSTGRES"}
    /\ releases = {}
    /\ pointer = [s \in Scopes |-> {}]
    /\ session = [s \in Scopes |-> None]
    /\ writer = Nobody
    /\ keyLock = [k \in CallKeys |-> Nobody]
    /\ scopeLock = [s \in Scopes |-> Nobody]
    /\ pc = [p \in Publishers |-> "idle"]
    /\ call \in [Publishers -> [key : CallKeys, release : Releases, expected : {0}, parent : {None}]]
    /\ \A p \in Publishers : Key(p)[2] = Route(p)
    /\ \A p, q \in Publishers : Route(p) = "p2" => P2IdsOf(p, q)
    /\ seen = [p \in Publishers |-> {}]
    /\ receipt = [p \in Publishers |-> 0]

Goto(p, point) == pc' = [pc EXCEPT ![p] = point]

Without(p, lock) == [x \in DOMAIN lock |-> IF lock[x] = p THEN Nobody ELSE lock[x]]

\* Mutant of End: the locks belong to the connection, not to the transaction.
EndKeepsLocks(p, answer) ==
    /\ writer' = IF writer = p THEN Nobody ELSE writer
    /\ seen' = [seen EXCEPT ![p] = {}]
    /\ receipt' = [receipt EXCEPT ![p] = answer]
    /\ Goto(p, "done")
    /\ UNCHANGED <<call, keyLock, scopeLock>>

\* The transaction of p ends and gives back every lock it holds.
End(p, answer) ==
    /\ writer' = IF writer = p THEN Nobody ELSE writer
    /\ keyLock' = Without(p, keyLock)
    /\ scopeLock' = Without(p, scopeLock)
    /\ seen' = [seen EXCEPT ![p] = {}]
    /\ receipt' = [receipt EXCEPT ![p] = answer]
    /\ Goto(p, "done")
    /\ UNCHANGED call

Rollback(p) == End(p, 0) /\ UNCHANGED tables

-----------------------------------------------------------------------------
(* The caller, the unit of work and the locks *)

\* The caller builds on the state it sees, or repeats an earlier call.
Request(p) ==
    /\ pc[p] = "idle"
    /\ \/ call' = [call EXCEPT ![p].expected = Token(pointer[Scope(p)]),
                               ![p].parent = Current(pointer[Scope(p)])]
       \/ \E q \in Publishers :
             /\ pc[q] # "idle" /\ Key(q) = Key(p) /\ Release(q) = Release(p)
             /\ call' = [call EXCEPT ![p] = call[q]]
    /\ Goto(p, "open")
    /\ UNCHANGED <<tables, locks, seen, receipt>>

Begin(p) ==
    /\ pc[p] = "open"
    /\ engine = "SQLITE" => writer = Nobody
    /\ writer' = IF engine = "SQLITE" THEN p ELSE writer
    /\ Goto(p, IF engine = "SQLITE" \/ Route(p) = "p2" THEN "read" ELSE "lockKey")
    /\ UNCHANGED <<tables, keyLock, scopeLock, call, seen, receipt>>

WriterBusy(p) ==
    /\ pc[p] = "open"
    /\ engine = "SQLITE" /\ writer # Nobody
    /\ Rollback(p)

LockKey(p) ==
    /\ pc[p] = "lockKey"
    /\ keyLock[Key(p)] = Nobody
    /\ keyLock' = [keyLock EXCEPT ![Key(p)] = p]
    /\ Goto(p, "lockScope")
    /\ UNCHANGED <<tables, writer, scopeLock, call, seen, receipt>>

\* Mutant of LockScope: the session row is read without FOR UPDATE.
LockScopeShared(p) ==
    /\ pc[p] = "lockScope"
    /\ Goto(p, "read")
    /\ UNCHANGED <<tables, locks, call, seen, receipt>>

\* The row of the training session (core) or an advisory lock (product).
LockScope(p) ==
    /\ pc[p] = "lockScope"
    /\ scopeLock[Scope(p)] = Nobody
    /\ scopeLock' = [scopeLock EXCEPT ![Scope(p)] = p]
    /\ Goto(p, "read")
    /\ UNCHANGED <<tables, writer, keyLock, call, seen, receipt>>

-----------------------------------------------------------------------------
(* The reads, and the answers they give *)

\* The key already stands for exactly this release: its receipt is repeated.
\* For a P2 job that is over there is no receipt, it is not running any more.
Reuse(p) ==
    /\ pc[p] = "read"
    /\ Route(p) # "p2"
    /\ \E x \in KeyRows(Key(p)) :
          /\ KeyRows(Key(p)) = {x} /\ x.release = Release(p)
          /\ End(p, x.no)
    /\ UNCHANGED tables

\* Mutant of BuiltOn: the expected token is not compared.
BuiltOnAnyToken(p, rows) ==
    /\ Cardinality(rows) <= 1
    /\ Route(p) = "core" => \A x \in releases : x.release # Release(p)

\* The compare-and-set of the pointer's token; the core route also checks that
\* the release was built on the current one and is not published yet.
BuiltOn(p, rows) ==
    /\ Cardinality(rows) <= 1
    /\ Token(rows) = call[p].expected
    /\ Route(p) = "core" => /\ Current(rows) = call[p].parent
                            /\ \A x \in releases : x.release # Release(p)

\* Mutant of ReadPointer: the key is not looked up.
ReadPointerAnyKey(p) ==
    /\ pc[p] = "read"
    /\ BuiltOn(p, pointer[Scope(p)])
    /\ seen' = [seen EXCEPT ![p] = pointer[Scope(p)]]
    /\ Goto(p, "write")
    /\ UNCHANGED <<tables, locks, call, receipt>>

ReadPointer(p) ==
    /\ pc[p] = "read"
    /\ KeyRows(Key(p)) = {}
    /\ BuiltOn(p, pointer[Scope(p)])
    /\ seen' = [seen EXCEPT ![p] = pointer[Scope(p)]]
    /\ Goto(p, "write")
    /\ UNCHANGED <<tables, locks, call, receipt>>

\* The key stands for something else, the token is stale, or the pointer has
\* several rows.
Refuse(p) ==
    /\ pc[p] = "read"
    /\ \/ ~BuiltOn(p, pointer[Scope(p)])
       \/ \E x \in KeyRows(Key(p)) : x.release # Release(p) \/ Route(p) = "p2"
    /\ Rollback(p)

-----------------------------------------------------------------------------
(* The writes and the commit *)

\* What the statements of the transaction need at commit: fresh primary keys of
\* the job and the release, for P2 a job still running, and one pointer row to
\* update.  A first pointer row needs nothing.
Writable(p) ==
    /\ \A x \in releases : x.release # Release(p)
    /\ Route(p) = "p2" => KeyRows(Key(p)) = {}
    /\ seen[p] # {} =>
          Cardinality({x \in pointer[Scope(p)] : x.token = Token(seen[p])}) = 1

\* Both the release row and the pointer carry the next token.
NewPointer(p) == [release |-> Release(p), token |-> Token(seen[p]) + 1]

\* UPDATE ... WHERE version_token = the token read, or INSERT.
PointerAfter(p) ==
    {x \in pointer[Scope(p)] : seen[p] = {} \/ x.token # Token(seen[p])} \cup {NewPointer(p)}

Publish(p) ==
    /\ pc[p] = "write"
    /\ Writable(p)
    /\ releases' = releases \cup
          {[release |-> Release(p), no |-> Token(seen[p]) + 1,
            parent |-> Current(seen[p]), key |-> Key(p)]}
    /\ pointer' = [pointer EXCEPT ![Scope(p)] = PointerAfter(p)]
    /\ session' = IF Route(p) = "core" THEN [session EXCEPT ![Scope(p)] = Release(p)] ELSE session
    /\ End(p, Token(seen[p]) + 1)
    /\ UNCHANGED engine

PublishLost(p) ==
    /\ pc[p] = "write"
    /\ ~Writable(p)
    /\ Rollback(p)

\* Any statement may fail, or the connection be lost, before the commit.
Abort(p) ==
    /\ pc[p] \in {"lockKey", "lockScope", "read", "write"}
    /\ Rollback(p)

Serve(p) ==
    \/ Begin(p) \/ WriterBusy(p) \/ LockKey(p) \/ LockScope(p)
    \/ Reuse(p) \/ ReadPointer(p) \/ Refuse(p)
    \/ Publish(p) \/ PublishLost(p)

Next == \E p \in Publishers : Request(p) \/ Serve(p) \/ Abort(p)

\* A call that has been made is served: its thread runs on.
Spec == Init /\ [][Next]_vars
FairSpec == Spec /\ \A p \in Publishers : WF_vars(Serve(p))

-----------------------------------------------------------------------------
(* Properties *)

Numbers == 1..Cardinality(Releases)

\* Types of the tables, the locks and the calls.
TypeOK ==
    /\ engine \in {"SQLITE", "POSTGRES"}
    /\ releases \in SUBSET [release : Releases, no : Numbers, parent : Parents, key : CallKeys]
    /\ pointer \in [Scopes -> SUBSET [release : Releases, token : Numbers]]
    /\ session \in [Scopes -> Parents]
    /\ writer \in Publishers \cup {Nobody}
    /\ keyLock \in [CallKeys -> Publishers \cup {Nobody}]
    /\ scopeLock \in [Scopes -> Publishers \cup {Nobody}]
    /\ pc \in [Publishers -> {"idle", "open", "lockKey", "lockScope", "read", "write", "done"}]
    /\ call \in [Publishers -> [key : CallKeys, release : Releases,
                                expected : {0} \cup Numbers, parent : Parents]]
    /\ seen \in [Publishers -> SUBSET [release : Releases, token : Numbers]]
    /\ receipt \in [Publishers -> {0} \cup Numbers]

\* Scopes whose publications exclude each other.
Serialised(s) == engine = "SQLITE" \/ RouteOf[s] # "p2"

\* The releases of a serialised scope are one chain: numbered without gap or
\* double, each the child of the one before, the one pointer row at the last and
\* the training session's row, written by the core route, at the same release.
LinearChain ==
    /\ TypeOK
    /\ \A s \in {t \in Scopes : Serialised(t)} :
        /\ Cardinality(pointer[s]) <= 1
        /\ RouteOf[s] = "core" => session[s] = Current(pointer[s])
        /\ {x.no : x \in RowsOf(s)} = 1..Token(pointer[s])
        /\ \A x, y \in RowsOf(s) : x.no = y.no => x = y
        /\ \A x \in RowsOf(s) :
              /\ x.no = Token(pointer[s]) => x.release = Current(pointer[s])
              /\ x.no = 1 => x.parent = None
              /\ \A y \in RowsOf(s) : y.no = x.no + 1 => y.parent = x.release

\* No lost and no double update: an idempotency key or P2 job publishes at most
\* one release, and every release of a serialised scope was asked for by a caller
\* that saw exactly the release and the token it landed on, also where only the
\* token is compared.
NoLostUpdate ==
    /\ \A x, y \in releases : x.key = y.key => x = y
    /\ \A x \in {y \in releases : Serialised(ScopeOf[y.release])} : \E p \in Publishers :
        /\ Release(p) = x.release /\ Key(p) = x.key
        /\ call[p].expected = x.no - 1 /\ call[p].parent = x.parent

\* On either engine the scopes of the locking routes publish as the chain of
\* ReleaseChain does.
SerialScopes == {s \in Scopes : RouteOf[s] # "p2"}
SerialRows == {x \in releases : ScopeOf[x.release] \in SerialScopes}
Numbered(s, n) == (CHOOSE x \in RowsOf(s) : x.no = n).release
Chain == INSTANCE ReleaseChain WITH
            Scopes <- SerialScopes,
            Keys <- CallKeys,
            chain <- [s \in SerialScopes |-> [n \in 1..Cardinality(RowsOf(s)) |-> Numbered(s, n)]],
            current <- [s \in SerialScopes |-> Current(pointer[s])],
            keyed <- [k \in CallKeys |->
                         IF KeyRows(k) \cap SerialRows = {} THEN None
                         ELSE (CHOOSE x \in KeyRows(k) \cap SerialRows : TRUE).release]
ImplementsChain == Chain!Spec

\* Every call is answered: no two transactions wait for each other's locks.
CallsAnswered == \A p \in Publishers : pc[p] = "open" ~> pc[p] = "done"
=============================================================================
