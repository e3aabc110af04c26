------------------------- MODULE ReleaseLedger_proofs -------------------------
(***************************************************************************)
(* Proofs about ReleaseLedger, for any number of publishers, releases and  *)
(* scopes and on both engines: a serialised scope has one linear chain of  *)
(* releases, no update is lost or done twice, and the locking routes       *)
(* implement ReleaseChain.                                                 *)
(***************************************************************************)
EXTENDS ReleaseLedger, FiniteSetTheorems, SequenceTheorems, TLAPS

Rows == [release : Releases, no : Nat, parent : Parents, key : CallKeys]
PointerRows == [release : Releases, token : Nat]
CallRecords == [key : CallKeys, release : Releases, expected : Nat, parent : Parents]

TypeInv ==
    /\ engine \in {"SQLITE", "POSTGRES"}
    /\ releases \in SUBSET Rows
    /\ pointer \in [Scopes -> SUBSET PointerRows]
    /\ session \in [Scopes -> Parents]
    /\ writer \in Publishers \cup {Nobody}
    /\ keyLock \in [CallKeys -> Publishers \cup {Nobody}]
    /\ scopeLock \in [Scopes -> Publishers \cup {Nobody}]
    /\ pc \in [Publishers -> {"idle", "open", "lockKey", "lockScope", "read", "write", "done"}]
    /\ call \in [Publishers -> CallRecords]
    /\ seen \in [Publishers -> SUBSET PointerRows]
    /\ receipt \in [Publishers -> Nat]
    /\ \A p \in Publishers : Key(p)[2] = Route(p)

\* No number is higher than there are releases, each of which is published once.
Published == Cardinality(releases)
CountInv ==
    /\ IsFiniteSet(releases)
    /\ \A x, y \in releases : x.release = y.release => x = y
    /\ \A x \in releases : 1 <= x.no /\ x.no <= Published
    /\ \A s \in Scopes : \A y \in pointer[s] : 1 <= y.token /\ y.token <= Published
    /\ \A p \in Publishers : \A y \in seen[p] : 1 <= y.token /\ y.token <= Published
    /\ \A p \in Publishers : call[p].expected <= Published /\ receipt[p] <= Published

\* What a transaction holds: the writer lease, or its key and then its scope.
LockInv ==
    \A p \in Publishers :
        /\ pc[p] \in {"lockKey", "lockScope"} => engine = "POSTGRES" /\ Route(p) # "p2"
        /\ engine = "SQLITE" /\ pc[p] \in {"read", "write"} => writer = p
        /\ engine = "POSTGRES" /\ Route(p) # "p2" =>
              /\ pc[p] \in {"lockScope", "read", "write"} => keyLock[Key(p)] = p
              /\ pc[p] \in {"read", "write"} => scopeLock[Scope(p)] = p

\* What a transaction has read still stands when it writes.
WriteInv ==
    \A p \in Publishers : pc[p] = "write" =>
        /\ Route(p) # "p2" => KeyRows(Key(p)) = {}
        /\ Serialised(Scope(p)) =>
              /\ seen[p] = pointer[Scope(p)]
              /\ call[p].expected = Token(seen[p]) /\ call[p].parent = Current(seen[p])

\* What a caller has seen was the end of the chain once: its token tells its release.
SightInv ==
    \A p \in Publishers : Serialised(Scope(p)) =>
        \/ call[p].expected = 0 /\ call[p].parent = None
        \/ \E x \in RowsOf(Scope(p)) : x.no = call[p].expected /\ x.release = call[p].parent

OriginInv ==
    /\ \A x, y \in releases : x.key = y.key => x = y
    /\ \A x \in releases : Serialised(ScopeOf[x.release]) => \E p \in Publishers :
          /\ pc[p] # "idle" /\ Release(p) = x.release /\ Key(p) = x.key
          /\ call[p].expected = x.no - 1 /\ call[p].parent = x.parent

Single(rows) == rows = {} \/ \E y \in PointerRows : rows = {y}

ChainOf(s) ==
    /\ Single(pointer[s])
    /\ RouteOf[s] = "core" => session[s] = Current(pointer[s])
    /\ Cardinality(RowsOf(s)) = Token(pointer[s])
    /\ \A x \in RowsOf(s) : 1 <= x.no /\ x.no <= Token(pointer[s])
    /\ \A n \in 1 .. Token(pointer[s]) : \E x \in RowsOf(s) : x.no = n
    /\ \A x, y \in RowsOf(s) : x.no = y.no => x = y
    /\ \A x \in RowsOf(s) :
          /\ x.no = Token(pointer[s]) => x.release = Current(pointer[s])
          /\ x.no = 1 => x.parent = None
          /\ \A y \in RowsOf(s) : y.no = x.no + 1 => y.parent = x.release

ChainInv == \A s \in Scopes : Serialised(s) => ChainOf(s)

Inv == TypeInv /\ CountInv /\ LockInv /\ WriteInv /\ SightInv /\ OriginInv /\ ChainInv

-----------------------------------------------------------------------------
(* What is read off a set of pointer rows *)

LEMMA EmptyToken == Token({}) = 0 /\ Current({}) = None
BY DEF Token, Current

LEMMA SingleToken == \A y : Token({y}) = y.token /\ Current({y}) = y.release
BY DEF Token, Current

LEMMA SomeToken ==
    ASSUME NEW rows \in SUBSET PointerRows
    PROVE  /\ Token(rows) \in Nat /\ Current(rows) \in Parents
           /\ rows # {} => \E y \in rows : Token(rows) = y.token /\ Current(rows) = y.release
<1>1. CASE rows = {}
    BY <1>1, EmptyToken DEF Parents
<1>2. CASE rows # {}
    <2>1. (CHOOSE x \in rows : TRUE) \in rows
        BY <1>2
    <2> QED BY <1>2, <2>1 DEF Token, Current, PointerRows, Parents
<1> QED BY <1>1, <1>2

\* The scope, the key and the route of a call are its own.
LEMMA CallTypes ==
    ASSUME Inv, NEW p \in Publishers
    PROVE  /\ Release(p) \in Releases /\ Key(p) \in CallKeys /\ Scope(p) \in Scopes
           /\ Route(p) \in Routes /\ Key(p)[2] = Route(p)
           /\ call[p].expected \in Nat /\ call[p].parent \in Parents
BY ScopeAssumption, RouteAssumption DEF Inv, TypeInv, CallRecords, Release, Key, Scope, Route

LEMMA RowTypes ==
    ASSUME Inv, NEW s \in Scopes
    PROVE  /\ RowsOf(s) \subseteq releases /\ RowsOf(s) \subseteq Rows /\ IsFiniteSet(RowsOf(s))
           /\ Token(pointer[s]) \in Nat /\ Current(pointer[s]) \in Parents
<1>1. RowsOf(s) \in SUBSET releases
    BY DEF RowsOf
<1>2. IsFiniteSet(RowsOf(s))
    BY <1>1, FS_Subset DEF Inv, CountInv
<1>3. pointer[s] \in SUBSET PointerRows
    BY DEF Inv, TypeInv
<1> QED BY <1>1, <1>2, <1>3, SomeToken DEF Inv, TypeInv

-----------------------------------------------------------------------------
LEMMA InitHolds == Init => Inv
<1> SUFFICES ASSUME Init PROVE Inv
    OBVIOUS
<1>1. TypeInv
    BY DEF Init, TypeInv, CallRecords, Parents
<1>2. CountInv
    BY <1>1, FS_EmptySet DEF Init, CountInv, Published
<1>3. LockInv /\ WriteInv
    BY DEF Init, LockInv, WriteInv
<1>4. SightInv /\ OriginInv
    BY DEF Init, SightInv, OriginInv
<1>5. ChainInv
    <2>1. \A s \in Scopes : RowsOf(s) = {} /\ pointer[s] = {} /\ session[s] = None
        BY DEF Init, RowsOf
    <2> QED BY <2>1, EmptyToken, FS_EmptySet DEF ChainInv, ChainOf, Single
<1> QED BY <1>1, <1>2, <1>3, <1>4, <1>5 DEF Inv

-----------------------------------------------------------------------------
(* Steps that leave the tables alone *)

\* Of two publications in a serialised scope, or with one key of a locking route,
\* at most one is past its locks.
LEMMA Excluded ==
    ASSUME Inv, NEW p \in Publishers, NEW q \in Publishers,
           pc[p] \in {"read", "write"}, pc[q] \in {"read", "write"},
           \/ Scope(p) = Scope(q) /\ Serialised(Scope(p))
           \/ Key(p) = Key(q) /\ Route(p) # "p2"
    PROVE  p = q
<1>1. CASE engine = "SQLITE"
    BY <1>1 DEF Inv, LockInv
<1>2. CASE engine = "POSTGRES"
    <2>1. Route(p) # "p2" /\ Route(q) # "p2"
        BY <1>2, CallTypes DEF Serialised, Route
    <2> QED BY <1>2, <2>1 DEF Inv, LockInv
<1> QED BY <1>1, <1>2 DEF Inv, TypeInv

\* The tables are read by all the invariants but the locks'.
LEMMA TablesKept ==
    ASSUME Inv, UNCHANGED <<tables, call>>, CountInv', WriteInv',
           \A p \in Publishers : pc[p] # "idle" => pc'[p] # "idle"
    PROVE  SightInv' /\ OriginInv' /\ ChainInv'
<1>1. SightInv'
    BY DEF Inv, SightInv, Serialised, RowsOf, Scope, Release, tables
<1>2. OriginInv'
    BY DEF Inv, OriginInv, Serialised, Release, Key, tables
<1>3. ChainInv'
    <2>1. \A s \in Scopes : RowsOf(s)' = RowsOf(s) /\ (Serialised(s)' <=> Serialised(s))
        BY DEF RowsOf, Serialised, tables
    <2>2. \A s \in Scopes : ChainOf(s) => ChainOf(s)'
        BY <2>1 DEF ChainOf, Single, tables
    <2> QED BY <2>1, <2>2 DEF Inv, ChainInv
<1> QED BY <1>1, <1>2, <1>3

LEMMA LocksHold == ASSUME Inv, NEW p \in Publishers, Begin(p) \/ LockKey(p) \/ LockScope(p) PROVE Inv'
<1> USE DEF Inv
<1>u. UNCHANGED <<tables, call, seen, receipt>>
    BY DEF Begin, LockKey, LockScope
<1>1. /\ pc'[p] \in {"read", "lockKey", "lockScope"} /\ pc[p] # "write"
      /\ \A q \in Publishers \ {p} : pc'[q] = pc[q]
    BY DEF Begin, LockKey, LockScope, Goto, TypeInv
<1>2. TypeInv'
    BY <1>u, <1>1, CallTypes DEF Begin, LockKey, LockScope, Goto, TypeInv, Key, Route, Scope, Release, tables
<1>3. CountInv'
    BY <1>u DEF CountInv, Published, tables
<1>4. LockInv'
    <2>1. CASE Begin(p)
        BY <2>1, <1>u, AbsentAssumption DEF Begin, Goto, TypeInv, LockInv, Key, Route, Scope, Release, tables
    <2>2. CASE LockKey(p)
        BY <2>2, <1>u, AbsentAssumption, CallTypes DEF LockKey, Goto, TypeInv, LockInv, Key, Route, Scope, Release, tables
    <2>3. CASE LockScope(p)
        BY <2>3, <1>u, AbsentAssumption, CallTypes DEF LockScope, Goto, TypeInv, LockInv, Key, Route, Scope, Release, tables
    <2> QED BY <2>1, <2>2, <2>3
<1>5. WriteInv'
    BY <1>u, <1>1 DEF WriteInv, KeyRows, Serialised, Key, Route, Scope, Release, tables
<1>6. SightInv' /\ OriginInv' /\ ChainInv'
    BY <1>u, <1>1, <1>3, <1>5, TablesKept
<1> QED BY <1>2, <1>3, <1>4, <1>5, <1>6

LEMMA EndHolds ==
    ASSUME Inv, NEW p \in Publishers, NEW answer \in Nat, answer <= Published,
           pc[p] # "idle", End(p, answer), UNCHANGED tables
    PROVE  Inv'
<1> USE DEF Inv
<1>1. /\ pc'[p] = "done" /\ seen'[p] = {} /\ receipt'[p] = answer /\ call' = call
      /\ \A q \in Publishers \ {p} :
            pc'[q] = pc[q] /\ seen'[q] = seen[q] /\ receipt'[q] = receipt[q]
    BY DEF End, Goto, TypeInv
<1>2. /\ writer' = IF writer = p THEN Nobody ELSE writer
      /\ \A k \in CallKeys : keyLock'[k] = IF keyLock[k] = p THEN Nobody ELSE keyLock[k]
      /\ \A s \in Scopes : scopeLock'[s] = IF scopeLock[s] = p THEN Nobody ELSE scopeLock[s]
    BY DEF End, Without, TypeInv
<1>3. TypeInv'
    BY <1>1 DEF End, Goto, Without, TypeInv, Key, Route, Scope, Release, tables
<1>4. CountInv'
    BY <1>1 DEF CountInv, Published, tables
<1>5. LockInv'
    BY <1>1, <1>2, CallTypes DEF LockInv, Key, Route, Scope, Release, tables
<1>6. WriteInv'
    BY <1>1 DEF WriteInv, KeyRows, Serialised, Key, Route, Scope, Release, tables
<1>7. SightInv' /\ OriginInv' /\ ChainInv'
    BY <1>1, <1>4, <1>6, TablesKept
<1> QED BY <1>3, <1>4, <1>5, <1>6, <1>7

LEMMA EndingsHold ==
    ASSUME Inv, NEW p \in Publishers,
           WriterBusy(p) \/ Reuse(p) \/ Refuse(p) \/ PublishLost(p) \/ Abort(p)
    PROVE  Inv'
<1>0. Published \in Nat
    BY FS_CardinalityType DEF Inv, CountInv, Published
<1>1. CASE Reuse(p)
    <2>1. PICK x \in KeyRows(Key(p)) : End(p, x.no)
        BY <1>1 DEF Reuse
    <2>2. x.no \in Nat /\ x.no <= Published
        BY DEF KeyRows, Inv, TypeInv, Rows, CountInv
    <2> QED BY <1>1, <2>1, <2>2, EndHolds DEF Reuse
<1>2. CASE WriterBusy(p) \/ Refuse(p) \/ PublishLost(p) \/ Abort(p)
    BY <1>0, <1>2, EndHolds DEF WriterBusy, Refuse, PublishLost, Abort, Rollback
<1> QED BY <1>1, <1>2

-----------------------------------------------------------------------------
(* The caller and the reads *)

LEMMA RequestHolds == ASSUME Inv, NEW p \in Publishers, Request(p) PROVE Inv'
<1> USE DEF Inv
<1>u. UNCHANGED <<tables, locks, seen, receipt>>
    BY DEF Request
<1>1. /\ pc[p] = "idle" /\ pc'[p] = "open" /\ \A q \in Publishers \ {p} : pc'[q] = pc[q]
      /\ pc' \in [Publishers -> {"idle", "open", "lockKey", "lockScope", "read", "write", "done"}]
    BY DEF Request, Goto, TypeInv
<1>2. /\ call' \in [Publishers -> CallRecords]
      /\ \A q \in Publishers : call'[q].key = call[q].key /\ call'[q].release = call[q].release
      /\ \A q \in Publishers \ {p} : call'[q] = call[q]
      /\ \/ /\ call'[p].expected = Token(pointer[Scope(p)])
            /\ call'[p].parent = Current(pointer[Scope(p)])
         \/ \E q \in Publishers :
               /\ Scope(q) = Scope(p) /\ call'[p].expected = call[q].expected
               /\ call'[p].parent = call[q].parent
    <2>1. CASE call' = [call EXCEPT ![p].expected = Token(pointer[Scope(p)]),
                                    ![p].parent = Current(pointer[Scope(p)])]
        <3>1. Token(pointer[Scope(p)]) \in Nat /\ Current(pointer[Scope(p)]) \in Parents
            BY CallTypes, RowTypes
        <3> QED BY <2>1, <3>1 DEF TypeInv, CallRecords
    <2>2. ASSUME NEW q \in Publishers, Key(q) = Key(p), Release(q) = Release(p),
                 call' = [call EXCEPT ![p] = call[q]]
          PROVE  /\ call' \in [Publishers -> CallRecords]
                 /\ \A r \in Publishers :
                       call'[r].key = call[r].key /\ call'[r].release = call[r].release
                 /\ \A r \in Publishers \ {p} : call'[r] = call[r]
                 /\ Scope(q) = Scope(p) /\ call'[p].expected = call[q].expected
                 /\ call'[p].parent = call[q].parent
        BY <2>2 DEF TypeInv, Key, Release, Scope
    <2> QED BY <2>1, <2>2 DEF Request
<1>3. \A q \in Publishers : /\ Key(q)' = Key(q) /\ Release(q)' = Release(q)
                            /\ Scope(q)' = Scope(q) /\ Route(q)' = Route(q)
    BY <1>2 DEF Key, Release, Scope, Route
<1>4. TypeInv'
    BY <1>u, <1>1, <1>2, <1>3 DEF TypeInv, tables, locks
<1>5. CountInv'
    <2>1. call'[p].expected <= Published
        <3>1. Token(pointer[Scope(p)]) <= Published
            <4>1. pointer[Scope(p)] \in SUBSET PointerRows /\ Scope(p) \in Scopes
                BY CallTypes DEF TypeInv
            <4>2. Published \in Nat
                BY FS_CardinalityType DEF CountInv, Published
            <4>3. CASE pointer[Scope(p)] = {}
                BY <4>2, <4>3, EmptyToken
            <4>4. CASE pointer[Scope(p)] # {}
                <5>1. PICK y \in pointer[Scope(p)] : Token(pointer[Scope(p)]) = y.token
                    BY <4>1, <4>4, SomeToken
                <5> QED BY <4>1, <5>1 DEF CountInv
            <4> QED BY <4>3, <4>4
        <3> QED BY <3>1, <1>2 DEF CountInv
    <2>2. Published' = Published
        BY <1>u DEF Published, tables
    <2> QED BY <2>1, <2>2, <1>u, <1>2 DEF CountInv, tables
<1>6. LockInv'
    BY <1>u, <1>1, <1>3 DEF LockInv, tables, locks
<1>7. WriteInv'
    BY <1>u, <1>1, <1>2, <1>3 DEF WriteInv, KeyRows, Serialised, tables
<1>8. SightInv'
    <2>0. \A s \in Scopes : RowsOf(s)' = RowsOf(s) /\ (Serialised(s)' <=> Serialised(s))
        BY <1>u DEF RowsOf, Serialised, tables
    <2> SUFFICES ASSUME NEW q \in Publishers, Serialised(Scope(q))
                 PROVE  \/ call'[q].expected = 0 /\ call'[q].parent = None
                        \/ \E x \in RowsOf(Scope(q)) :
                              x.no = call'[q].expected /\ x.release = call'[q].parent
        BY <2>0, <1>3, CallTypes DEF SightInv
    <2>1. CASE q # p
        BY <2>1, <1>2 DEF SightInv
    <2>2. CASE q = p
        <3>1. CASE \E r \in Publishers :
                      /\ Scope(r) = Scope(p) /\ call'[p].expected = call[r].expected
                      /\ call'[p].parent = call[r].parent
            BY <2>2, <3>1 DEF SightInv
        <3>2. CASE /\ call'[p].expected = Token(pointer[Scope(p)])
                   /\ call'[p].parent = Current(pointer[Scope(p)])
            <4> DEFINE s == Scope(p)
            <4>1. s \in Scopes /\ ChainOf(s) /\ Token(pointer[s]) \in Nat
                BY <2>2, CallTypes, RowTypes DEF ChainInv
            <4>2. CASE pointer[s] = {}
                BY <2>2, <3>2, <4>2, EmptyToken
            <4>3. CASE pointer[s] # {}
                <5>1. Token(pointer[s]) \in 1 .. Token(pointer[s])
                    BY <4>1, <4>3, SomeToken DEF CountInv, TypeInv
                <5>2. PICK x \in RowsOf(s) : x.no = Token(pointer[s])
                    BY <4>1, <5>1 DEF ChainOf
                <5>3. x.release = Current(pointer[s])
                    BY <4>1, <5>2 DEF ChainOf
                <5> QED BY <2>2, <3>2, <5>2, <5>3
            <4> QED BY <4>2, <4>3
        <3> QED BY <1>2, <3>1, <3>2
    <2> QED BY <2>1, <2>2
<1>9. OriginInv'
    BY <1>u, <1>1, <1>2, <1>3 DEF OriginInv, Serialised, tables
<1>10. ChainInv'
    <2>1. \A s \in Scopes : RowsOf(s)' = RowsOf(s) /\ (Serialised(s)' <=> Serialised(s))
        BY <1>u DEF RowsOf, Serialised, tables
    <2>2. \A s \in Scopes : ChainOf(s) => ChainOf(s)'
        BY <1>u, <2>1 DEF ChainOf, Single, tables
    <2> QED BY <2>1, <2>2 DEF ChainInv
<1> QED BY <1>4, <1>5, <1>6, <1>7, <1>8, <1>9, <1>10

\* A publication that passes the compare-and-set has seen the end of the chain.
LEMMA ReadHolds == ASSUME Inv, NEW p \in Publishers, ReadPointer(p) PROVE Inv'
<1> USE DEF Inv
<1>u. UNCHANGED <<tables, locks, call, receipt>>
    BY DEF ReadPointer
<1>1. /\ pc[p] = "read" /\ pc'[p] = "write" /\ seen'[p] = pointer[Scope(p)]
      /\ \A q \in Publishers \ {p} : pc'[q] = pc[q] /\ seen'[q] = seen[q]
    BY DEF ReadPointer, Goto, TypeInv
<1>2. TypeInv'
    BY <1>u, <1>1, CallTypes DEF ReadPointer, Goto, TypeInv, Key, Route, Scope, Release, tables, locks
<1>3. CountInv'
    BY <1>u, <1>1, CallTypes DEF CountInv, Published, tables
<1>4. LockInv'
    BY <1>u, <1>1 DEF LockInv, Key, Route, Scope, Release, tables, locks
<1>5. WriteInv'
    <2> DEFINE s == Scope(p)
    <2>1. KeyRows(Key(p)) = {} /\ Token(pointer[s]) = call[p].expected
        BY DEF ReadPointer, BuiltOn
    <2>2. ASSUME Serialised(s) PROVE call[p].parent = Current(pointer[s])
        <3>1. s \in Scopes /\ ChainOf(s) /\ Single(pointer[s])
            BY <2>2, CallTypes DEF ChainInv, ChainOf
        <3>2. CASE call[p].expected = 0 /\ call[p].parent = None
            <4>1. pointer[s] = {}
                BY <2>1, <3>1, <3>2, SomeToken DEF CountInv, TypeInv
            <4> QED BY <3>2, <4>1, EmptyToken
        <3>3. CASE \E x \in RowsOf(s) : x.no = call[p].expected /\ x.release = call[p].parent
            BY <2>1, <3>1, <3>3 DEF ChainOf
        <3> QED BY <2>2, <3>2, <3>3 DEF SightInv
    <2> QED BY <1>u, <1>1, <2>1, <2>2 DEF WriteInv, KeyRows, Serialised, Key, Route, Scope, Release, tables
<1>6. SightInv' /\ OriginInv' /\ ChainInv'
    BY <1>u, <1>1, <1>3, <1>5, TablesKept
<1> QED BY <1>2, <1>3, <1>4, <1>5, <1>6

-----------------------------------------------------------------------------
(* The publication itself *)

NewRow(p) == [release |-> Release(p), no |-> Token(seen[p]) + 1,
              parent |-> Current(seen[p]), key |-> Key(p)]

\* The row a publication adds is a row of a new release under a new key.
LEMMA RowIsNew ==
    ASSUME Inv, NEW p \in Publishers, Publish(p)
    PROVE  /\ NewRow(p) \in Rows /\ NewRow(p).no = Token(seen[p]) + 1
           /\ NewRow(p).release = Release(p) /\ NewRow(p).key = Key(p)
           /\ NewRow(p).parent = Current(seen[p])
           /\ releases' = releases \cup {NewRow(p)}
           /\ KeyRows(Key(p)) = {}
           /\ \A x \in releases : x.release # Release(p) /\ x.key # Key(p)
           /\ NewRow(p) \notin releases
           /\ Published \in Nat /\ Published' = Published + 1 /\ IsFiniteSet(releases')
           /\ Token(seen[p]) \in Nat /\ Token(seen[p]) <= Published
<1>1. seen[p] \in SUBSET PointerRows
    BY DEF Inv, TypeInv
<1>2. Token(seen[p]) \in Nat /\ Current(seen[p]) \in Parents
    BY <1>1, SomeToken
<1>3. /\ NewRow(p) \in Rows /\ NewRow(p).no = Token(seen[p]) + 1
      /\ NewRow(p).release = Release(p) /\ NewRow(p).key = Key(p)
      /\ NewRow(p).parent = Current(seen[p])
    BY <1>2, CallTypes DEF NewRow, Rows
<1>4. releases' = releases \cup {NewRow(p)}
    BY DEF Publish, NewRow
<1>5. KeyRows(Key(p)) = {} /\ \A x \in releases : x.release # Release(p)
    BY DEF Publish, Writable, Inv, WriteInv
<1>6. \A x \in releases : x.key # Key(p)
    BY <1>5 DEF KeyRows
<1>7. Published \in Nat /\ Published' = Published + 1 /\ IsFiniteSet(releases')
    BY <1>3, <1>4, <1>5, FS_AddElement, FS_CardinalityType DEF Inv, CountInv, Published
<1>8. Token(seen[p]) <= Published
    <2>1. CASE seen[p] = {}
        BY <1>7, <2>1, EmptyToken
    <2>2. CASE seen[p] # {}
        <3>1. PICK y \in seen[p] : Token(seen[p]) = y.token
            BY <1>1, <2>2, SomeToken
        <3> QED BY <3>1 DEF Inv, CountInv
    <2> QED BY <2>1, <2>2
<1> QED BY <1>2, <1>3, <1>4, <1>5, <1>6, <1>7, <1>8

\* What a publication does to the other variables.
LEMMA PublishEffect ==
    ASSUME Inv, NEW p \in Publishers, Publish(p)
    PROVE  /\ engine' = engine /\ call' = call /\ pc[p] = "write" /\ pc'[p] = "done"
           /\ seen'[p] = {} /\ receipt'[p] = Token(seen[p]) + 1
           /\ \A q \in Publishers \ {p} :
                 pc'[q] = pc[q] /\ seen'[q] = seen[q] /\ receipt'[q] = receipt[q]
           /\ writer' = IF writer = p THEN Nobody ELSE writer
           /\ \A k \in CallKeys : keyLock'[k] = IF keyLock[k] = p THEN Nobody ELSE keyLock[k]
           /\ \A s \in Scopes : scopeLock'[s] = IF scopeLock[s] = p THEN Nobody ELSE scopeLock[s]
           /\ pointer'[Scope(p)] = PointerAfter(p)
           /\ \A s \in Scopes \ {Scope(p)} : pointer'[s] = pointer[s] /\ session'[s] = session[s]
           /\ RouteOf[Scope(p)] = "core" => session'[Scope(p)] = Release(p)
BY CallTypes DEF Inv, Publish, End, Goto, Without, TypeInv, Route

LEMMA PublishTypes == ASSUME Inv, NEW p \in Publishers, Publish(p) PROVE TypeInv'
<1> USE DEF Inv
<1>1. releases' \in SUBSET Rows
    BY RowIsNew DEF TypeInv
<1>2. pointer' \in [Scopes -> SUBSET PointerRows]
    <2>1. NewPointer(p) \in PointerRows
        BY RowIsNew, CallTypes DEF NewPointer, PointerRows
    <2>2. PointerAfter(p) \in SUBSET PointerRows
        BY <2>1, CallTypes DEF PointerAfter, TypeInv
    <2> QED BY <2>2 DEF Publish, TypeInv
<1>3. session' \in [Scopes -> Parents]
    BY CallTypes DEF Publish, TypeInv, Parents
<1>4. receipt' \in [Publishers -> Nat]
    <2>1. Token(seen[p]) + 1 \in Nat
        BY RowIsNew
    <2>2. receipt' = [receipt EXCEPT ![p] = Token(seen[p]) + 1]
        BY DEF Publish, End
    <2> QED BY <2>1, <2>2 DEF TypeInv
<1> QED BY <1>1, <1>2, <1>3, <1>4
        DEF Publish, End, Goto, Without, TypeInv, Key, Route, Scope, Release

LEMMA PublishCounts == ASSUME Inv, NEW p \in Publishers, Publish(p) PROVE CountInv'
<1> USE DEF Inv
<1>1. \A x, y \in releases' : x.release = y.release => x = y
    BY RowIsNew DEF CountInv
<1>2. \A x \in releases' : 1 <= x.no /\ x.no <= Published'
    BY RowIsNew DEF CountInv, TypeInv, Rows
<1>3. \A s \in Scopes : \A y \in pointer'[s] : 1 <= y.token /\ y.token <= Published'
    <2>1. ASSUME NEW s \in Scopes, NEW y \in pointer[s] PROVE 1 <= y.token /\ y.token <= Published'
        <3>1. y \in PointerRows
            BY DEF TypeInv
        <3> QED BY <3>1, RowIsNew DEF CountInv, PointerRows
    <2>2. 1 <= NewPointer(p).token /\ NewPointer(p).token <= Published'
        BY RowIsNew DEF NewPointer
    <2>3. \A y \in PointerAfter(p) : 1 <= y.token /\ y.token <= Published'
        BY <2>1, <2>2, CallTypes DEF PointerAfter
    <2> QED BY <2>1, <2>3, PublishEffect
<1>4. \A q \in Publishers : \A y \in seen'[q] : 1 <= y.token /\ y.token <= Published'
    <2>1. ASSUME NEW q \in Publishers, NEW y \in seen[q] PROVE 1 <= y.token /\ y.token <= Published'
        <3>1. y \in PointerRows
            BY DEF TypeInv
        <3> QED BY <3>1, RowIsNew DEF CountInv, PointerRows
    <2> QED BY <2>1, PublishEffect
<1>5. \A q \in Publishers : call'[q].expected <= Published' /\ receipt'[q] <= Published'
    BY PublishEffect, RowIsNew, CallTypes DEF CountInv, TypeInv
<1> QED BY <1>1, <1>2, <1>3, <1>4, <1>5, RowIsNew DEF CountInv

LEMMA PublishLocks == ASSUME Inv, NEW p \in Publishers, Publish(p) PROVE LockInv'
BY PublishEffect, CallTypes DEF Inv, LockInv, Key, Route, Scope, Release

LEMMA PublishWrites == ASSUME Inv, NEW p \in Publishers, Publish(p) PROVE WriteInv'
<1> USE DEF Inv
<1>1. \A q \in Publishers : /\ Key(q)' = Key(q) /\ Release(q)' = Release(q)
                            /\ Scope(q)' = Scope(q) /\ Route(q)' = Route(q)
                            /\ Serialised(Scope(q))' = Serialised(Scope(q))
    BY PublishEffect DEF Key, Release, Scope, Route, Serialised
<1> SUFFICES ASSUME NEW q \in Publishers, pc'[q] = "write"
             PROVE  /\ Route(q) # "p2" => KeyRows(Key(q))' = {}
                    /\ Serialised(Scope(q)) =>
                          /\ seen'[q] = pointer'[Scope(q)]
                          /\ call'[q].expected = Token(seen'[q])
                          /\ call'[q].parent = Current(seen'[q])
    BY <1>1 DEF WriteInv, Token, Current
<1>2. q # p /\ pc[q] = "write" /\ pc[p] = "write" /\ seen'[q] = seen[q] /\ call' = call
    BY PublishEffect
<1>3. ASSUME Route(q) # "p2" PROVE KeyRows(Key(q))' = {}
    <2>1. Key(q) # Key(p)
        BY <1>2, <1>3, Excluded
    <2>2. KeyRows(Key(q)) = {}
        BY <1>2, <1>3 DEF WriteInv
    <2> QED BY <1>1, <2>1, <2>2, RowIsNew DEF KeyRows
<1>4. ASSUME Serialised(Scope(q)) PROVE pointer'[Scope(q)] = pointer[Scope(q)]
    <2>1. Scope(q) # Scope(p)
        BY <1>2, <1>4, Excluded
    <2> QED BY <2>1, PublishEffect, CallTypes
<1> QED BY <1>2, <1>3, <1>4 DEF WriteInv

LEMMA PublishSights == ASSUME Inv, NEW p \in Publishers, Publish(p) PROVE SightInv' /\ OriginInv'
<1> USE DEF Inv
<1>1. \A q \in Publishers : /\ Key(q)' = Key(q) /\ Release(q)' = Release(q)
                            /\ Scope(q)' = Scope(q) /\ call'[q] = call[q]
    BY PublishEffect DEF Key, Release, Scope
<1>2. \A s \in Scopes : RowsOf(s) \subseteq RowsOf(s)' /\ Serialised(s)' = Serialised(s)
    BY RowIsNew, PublishEffect DEF RowsOf, Serialised
<1>3. SightInv'
    BY <1>1, <1>2, CallTypes DEF SightInv
<1>4. \A x, y \in releases' : x.key = y.key => x = y
    BY RowIsNew DEF OriginInv
<1>5. ASSUME NEW x \in releases', Serialised(ScopeOf[x.release])'
      PROVE  \E q \in Publishers :
                /\ pc'[q] # "idle" /\ Release(q) = x.release /\ Key(q) = x.key
                /\ call[q].expected = x.no - 1 /\ call[q].parent = x.parent
    <2>0. Serialised(ScopeOf[x.release])
        BY <1>5, PublishEffect DEF Serialised
    <2>1. CASE x = NewRow(p)
        <3>1. Serialised(Scope(p))
            BY <2>0, <2>1, RowIsNew DEF Scope
        <3>2. call[p].expected = Token(seen[p]) /\ call[p].parent = Current(seen[p])
            BY <3>1, PublishEffect DEF WriteInv
        <3>3. Token(seen[p]) = x.no - 1
            BY <2>1, RowIsNew
        <3> QED BY <2>1, <3>2, <3>3, RowIsNew, PublishEffect
    <2>2. CASE x \in releases
        <3>1. PICK q \in Publishers :
                /\ pc[q] # "idle" /\ Release(q) = x.release /\ Key(q) = x.key
                /\ call[q].expected = x.no - 1 /\ call[q].parent = x.parent
            BY <2>0, <2>2 DEF OriginInv
        <3>2. pc'[q] # "idle"
            BY <3>1, PublishEffect
        <3> QED BY <3>1, <3>2
    <2> QED BY <1>5, <2>1, <2>2, RowIsNew
<1> QED BY <1>1, <1>3, <1>4, <1>5 DEF OriginInv

\* In a serialised scope the new release is the end of the chain.
LEMMA PublishExtends ==
    ASSUME Inv, NEW p \in Publishers, Publish(p), NEW s \in Scopes, s = Scope(p), Serialised(s)
    PROVE  /\ seen[p] = pointer[s] /\ pointer'[s] = {NewPointer(p)}
           /\ Token(pointer'[s]) = Token(pointer[s]) + 1 /\ Current(pointer'[s]) = Release(p)
           /\ RowsOf(s)' = RowsOf(s) \cup {NewRow(p)} /\ NewRow(p) \notin RowsOf(s)
<1> USE DEF Inv
<1>1. seen[p] = pointer[s] /\ Single(pointer[s])
    BY PublishEffect, CallTypes DEF WriteInv, ChainInv, ChainOf
<1>2. PointerAfter(p) = {NewPointer(p)}
    <2>1. CASE pointer[s] = {}
        BY <2>1 DEF PointerAfter
    <2>2. CASE \E y \in PointerRows : pointer[s] = {y}
        <3>1. PICK y \in PointerRows : pointer[s] = {y}
            BY <2>2
        <3>2. Token(seen[p]) = y.token /\ seen[p] # {}
            BY <1>1, <3>1, SingleToken
        <3> QED BY <3>1, <3>2 DEF PointerAfter
    <2> QED BY <1>1, <2>1, <2>2 DEF Single
<1>3. pointer'[s] = {NewPointer(p)}
    BY <1>2, PublishEffect
<1>4. Token(pointer'[s]) = Token(pointer[s]) + 1 /\ Current(pointer'[s]) = Release(p)
    <2>1. /\ Token({NewPointer(p)}) = NewPointer(p).token
          /\ Current({NewPointer(p)}) = NewPointer(p).release
        BY SingleToken
    <2>2. NewPointer(p).token = Token(seen[p]) + 1 /\ NewPointer(p).release = Release(p)
        BY DEF NewPointer
    <2> QED BY <1>1, <1>3, <2>1, <2>2
<1>5. RowsOf(s)' = RowsOf(s) \cup {NewRow(p)}
    <2>1. ScopeOf[NewRow(p).release] = s
        BY RowIsNew DEF Scope
    <2>2. \A x : x \in RowsOf(s)' <=> x \in RowsOf(s) \/ x = NewRow(p)
        BY <2>1, RowIsNew DEF RowsOf
    <2> QED BY <2>2
<1> QED BY <1>1, <1>3, <1>4, <1>5, RowIsNew DEF RowsOf

LEMMA PublishChains == ASSUME Inv, NEW p \in Publishers, Publish(p) PROVE ChainInv'
<1> USE DEF Inv
<1>1. \A s \in Scopes : Serialised(s)' = Serialised(s)
    BY PublishEffect DEF Serialised
<1>2. ASSUME NEW s \in Scopes, s # Scope(p), ChainOf(s) PROVE ChainOf(s)'
    <2>1. RowsOf(s)' = RowsOf(s)
        <3>1. ScopeOf[NewRow(p).release] # s
            BY <1>2, RowIsNew DEF Scope
        <3> QED BY <3>1, RowIsNew DEF RowsOf
    <2>2. pointer'[s] = pointer[s] /\ session'[s] = session[s]
        BY <1>2, PublishEffect
    <2> QED BY <1>2, <2>1, <2>2 DEF ChainOf, Single
<1>3. ASSUME NEW s \in Scopes, s = Scope(p), Serialised(s) PROVE ChainOf(s)'
    <2> DEFINE new == NewRow(p)
               rows == RowsOf(s)
               last == Token(pointer[s])
    <2>2. ChainOf(s)
        BY <1>3 DEF ChainInv
    <2>3. /\ pointer'[s] = {NewPointer(p)} /\ Token(pointer'[s]) = last + 1
          /\ Current(pointer'[s]) = Release(p) /\ RowsOf(s)' = rows \cup {new}
        BY <1>3, PublishExtends
    <2>4. /\ new.no = last + 1 /\ new.release = Release(p) /\ new.parent = Current(pointer[s])
          /\ new \notin rows /\ last \in Nat
        BY <1>3, PublishExtends, RowIsNew
    <2>5. rows \subseteq Rows /\ IsFiniteSet(rows) /\ pointer[s] \in SUBSET PointerRows
        BY RowTypes DEF TypeInv
    <2>6. /\ Single(pointer[s]) /\ Cardinality(rows) = last
          /\ \A x \in rows : x.no \in Nat /\ 1 <= x.no /\ x.no <= last
          /\ \A n \in 1 .. last : \E x \in rows : x.no = n
          /\ \A x, y \in rows : x.no = y.no => x = y
          /\ \A x \in rows :
                /\ x.no = last => x.release = Current(pointer[s])
                /\ x.no = 1 => x.parent = None
                /\ \A y \in rows : y.no = x.no + 1 => y.parent = x.release
        BY <2>2, <2>5 DEF ChainOf, Rows
    <2>7. last = 0 => new.parent = None
        <3>1. ASSUME last = 0 PROVE pointer[s] = {}
            BY <2>5, <3>1, SomeToken DEF CountInv
        <3> QED BY <2>4, <3>1, EmptyToken
    <2>8. Single(pointer'[s])
        <3>1. NewPointer(p) \in PointerRows
            BY RowIsNew, CallTypes DEF NewPointer, PointerRows
        <3> QED BY <2>3, <3>1 DEF Single
    <2>9. RouteOf[s] = "core" => session'[s] = Current(pointer'[s])
        BY <1>3, <2>3, PublishEffect
    <2> HIDE DEF new, rows, last
    <2>10. Cardinality(rows \cup {new}) = last + 1
        BY <2>4, <2>5, <2>6, FS_AddElement
    <2>11. \A x \in rows \cup {new} : 1 <= x.no /\ x.no <= last + 1
        BY <2>4, <2>6
    <2>12. \A n \in 1 .. last + 1 : \E x \in rows \cup {new} : x.no = n
        <3> SUFFICES ASSUME NEW n \in 1 .. last + 1 PROVE \E x \in rows \cup {new} : x.no = n
            OBVIOUS
        <3>1. CASE n = last + 1
            BY <2>4, <3>1
        <3>2. CASE n \in 1 .. last
            BY <2>6, <3>2
        <3> QED BY <2>4, <3>1, <3>2
    <2>13. \A x, y \in rows \cup {new} : x.no = y.no => x = y
        BY <2>4, <2>6
    <2>14. \A x \in rows \cup {new} :
              /\ x.no = last + 1 => x.release = Release(p)
              /\ x.no = 1 => x.parent = None
        BY <2>4, <2>6, <2>7
    <2>15. \A x, y \in rows \cup {new} : y.no = x.no + 1 => y.parent = x.release
        <3> SUFFICES ASSUME NEW x \in rows \cup {new}, NEW y \in rows \cup {new}, y.no = x.no + 1
                     PROVE  y.parent = x.release
            OBVIOUS
        <3>1. CASE x = new
            BY <2>4, <2>11, <3>1
        <3>2. CASE x \in rows /\ y = new
            BY <2>4, <2>6, <3>2
        <3>3. CASE x \in rows /\ y \in rows
            BY <2>6, <3>3
        <3> QED BY <3>1, <3>2, <3>3
    <2>16. /\ Token(pointer[s])' = last + 1 /\ Current(pointer[s])' = Release(p)
           /\ RowsOf(s)' = rows \cup {new} /\ pointer[s]' = pointer'[s] /\ session[s]' = session'[s]
        BY <2>3 DEF Token, Current
    <2>17. Cardinality(RowsOf(s))' = Token(pointer[s])'
        BY <2>10, <2>16
    <2>18. Single(pointer[s])' /\ (RouteOf[s] = "core" => session[s]' = Current(pointer[s])')
        BY <2>3, <2>8, <2>9, <2>16 DEF Single
    <2> QED BY <2>11, <2>12, <2>13, <2>14, <2>15, <2>16, <2>17, <2>18 DEF ChainOf
<1> QED BY <1>1, <1>2, <1>3 DEF ChainInv

LEMMA PublishHolds == ASSUME Inv, NEW p \in Publishers, Publish(p) PROVE Inv'
BY PublishTypes, PublishCounts, PublishLocks, PublishWrites, PublishSights, PublishChains DEF Inv

LEMMA StepHolds == Inv /\ [Next]_vars => Inv'
<1> SUFFICES ASSUME Inv, [Next]_vars PROVE Inv'
    OBVIOUS
<1>1. CASE UNCHANGED vars
    <2>1. /\ UNCHANGED <<tables, call>> /\ pc' = pc /\ seen' = seen /\ receipt' = receipt
          /\ writer' = writer /\ keyLock' = keyLock /\ scopeLock' = scopeLock
        BY <1>1 DEF vars, locks
    <2>2. TypeInv' /\ CountInv' /\ LockInv' /\ WriteInv'
        BY <2>1 DEF Inv, TypeInv, CountInv, Published, LockInv, WriteInv, KeyRows, Serialised,
                    Key, Route, Scope, Release, tables
    <2> QED BY <2>1, <2>2, TablesKept DEF Inv
<1>2. CASE Next
    BY <1>2, RequestHolds, LocksHold, EndingsHold, ReadHolds, PublishHolds DEF Next, Serve
<1> QED BY <1>1, <1>2

LEMMA InvAlways == Spec => []Inv
BY InitHolds, StepHolds, PTL DEF Spec

-----------------------------------------------------------------------------
(* The properties *)

\* Every release row is of a release of its own, so there are no more of them.
LEMMA Bounded == Inv => Published \in Nat /\ Published <= Cardinality(Releases)
<1> SUFFICES ASSUME Inv PROVE Published \in Nat /\ Published <= Cardinality(Releases)
    OBVIOUS
<1> DEFINE f == [x \in releases |-> x.release]
<1>1. f \in Injection(releases, Releases)
    BY DEF Inv, TypeInv, CountInv, Rows, Injection, IsInjective
<1> QED BY <1>1, ReleasesAssumption, FS_Injection, FS_CardinalityType DEF Inv, CountInv, Published

LEMMA InvTypeOK == Inv => TypeOK
<1> SUFFICES ASSUME Inv PROVE TypeOK
    OBVIOUS
<1> USE DEF Inv, TypeInv, CountInv
<1> DEFINE N == Cardinality(Releases)
<1>1. N \in Nat /\ Published \in Nat /\ Published <= N
    BY Bounded, ReleasesAssumption, FS_CardinalityType
<1> HIDE DEF N
<1>2. Numbers = 1 .. N
    BY DEF Numbers, N
<1>3. releases \in SUBSET [release : Releases, no : Numbers, parent : Parents, key : CallKeys]
    BY <1>1, <1>2 DEF Rows
<1>4. \A y \in PointerRows : 1 <= y.token /\ y.token <= Published =>
         y \in [release : Releases, token : Numbers]
    BY <1>1, <1>2 DEF PointerRows
<1>5. pointer \in [Scopes -> SUBSET [release : Releases, token : Numbers]]
    BY <1>4
<1>6. seen \in [Publishers -> SUBSET [release : Releases, token : Numbers]]
    BY <1>4
<1>7. \A n \in Nat : n <= Published => n \in {0} \cup Numbers
    BY <1>1, <1>2
<1>8. receipt \in [Publishers -> {0} \cup Numbers]
    BY <1>7
<1>9. call \in [Publishers -> [key : CallKeys, release : Releases,
                               expected : {0} \cup Numbers, parent : Parents]]
    BY <1>7 DEF CallRecords
<1> QED BY <1>3, <1>5, <1>6, <1>8, <1>9 DEF TypeOK

LEMMA InvLinear == Inv => LinearChain
<1> SUFFICES ASSUME Inv, NEW s \in Scopes, Serialised(s)
             PROVE  /\ Cardinality(pointer[s]) <= 1
                    /\ {x.no : x \in RowsOf(s)} = 1..Token(pointer[s])
                    /\ ChainOf(s)
    BY InvTypeOK DEF LinearChain, ChainOf
<1>1. ChainOf(s)
    BY DEF Inv, ChainInv
<1>2. Cardinality(pointer[s]) <= 1
    <2>1. CASE pointer[s] = {}
        BY <2>1, FS_EmptySet
    <2>2. CASE \E y \in PointerRows : pointer[s] = {y}
        <3>1. PICK y \in PointerRows : pointer[s] = {y}
            BY <2>2
        <3>2. Cardinality({y}) = 1
            BY FS_Singleton
        <3> QED BY <3>1, <3>2
    <2> QED BY <1>1, <2>1, <2>2 DEF ChainOf, Single
<1>3. {x.no : x \in RowsOf(s)} = 1..Token(pointer[s])
    BY <1>1, RowTypes DEF ChainOf, Rows
<1> QED BY <1>1, <1>2, <1>3

\* Whatever publishers, engine and failures: the releases of a scope whose
\* publications exclude each other are one chain, numbered without gap or double,
\* each the child of the one before, with the pointer and the session's row at its
\* end (publish, _lock_current_pointer and the compare-and-set of the token).
THEOREM ScopesAreChains == Spec => []LinearChain
BY InvAlways, InvLinear, PTL

\* A key publishes at most one release, and what lands in a serialised scope is what
\* its caller asked for on the release and the token that caller had seen.
THEOREM UpdatesAreKept == Spec => []NoLostUpdate
<1>1. Inv => NoLostUpdate
    BY DEF Inv, OriginInv, NoLostUpdate
<1> QED BY <1>1, InvAlways, PTL

-----------------------------------------------------------------------------
(* The locking routes implement ReleaseChain *)

LEMMA AppendFunction ==
    ASSUME NEW S, NEW n \in Nat, NEW f \in [1 .. n -> S], NEW g \in [1 .. n + 1 -> S], NEW r \in S,
           \A i \in 1 .. n : g[i] = f[i], g[n + 1] = r
    PROVE  g = Append(f, r)
<1>1. f \in Seq(S) /\ Len(f) = n /\ g \in Seq(S) /\ Len(g) = n + 1
    OBVIOUS
<1>2. /\ Append(f, r) \in Seq(S) /\ Len(Append(f, r)) = n + 1
      /\ \A i \in 1 .. n : Append(f, r)[i] = f[i] /\ Append(f, r)[n + 1] = r
    BY <1>1, AppendProperties
<1>3. Append(f, r)[n + 1] = r
    BY <1>1, AppendProperties
<1>4. \A i \in 1 .. Len(g) : g[i] = Append(f, r)[i]
    BY <1>1, <1>2, <1>3
<1> QED BY <1>1, <1>2, <1>4, SeqEqual

\* The chain of a scope that ReleaseChain sees.
ChainAt(s) == [n \in 1 .. Cardinality(RowsOf(s)) |-> Numbered(s, n)]
KeyedRows(k) == KeyRows(k) \cap SerialRows
KeyedAt(k) == IF KeyedRows(k) = {} THEN None ELSE (CHOOSE x \in KeyedRows(k) : TRUE).release

\* A row of the scope is the chain's element at its number.
Elements(s) ==
    /\ Cardinality(RowsOf(s)) = Token(pointer[s]) /\ Token(pointer[s]) \in Nat
    /\ \A x \in RowsOf(s) : x.no \in 1 .. Token(pointer[s]) /\ ChainAt(s)[x.no] = x.release
    /\ \A n \in 1 .. Token(pointer[s]) : \E x \in RowsOf(s) : x.no = n
    /\ ChainAt(s) \in [1 .. Token(pointer[s]) -> Releases]
AllElements == \A s \in SerialScopes : Elements(s)

LEMMA ChainElements == Inv => AllElements
<1> SUFFICES ASSUME Inv, NEW s \in SerialScopes PROVE Elements(s)
    BY DEF AllElements
<1>1. s \in Scopes /\ ChainOf(s)
    BY DEF Inv, ChainInv, SerialScopes, Serialised
<1>2. /\ Cardinality(RowsOf(s)) = Token(pointer[s]) /\ Token(pointer[s]) \in Nat
      /\ RowsOf(s) \subseteq Rows
      /\ \A n \in 1 .. Token(pointer[s]) : \E x \in RowsOf(s) : x.no = n
    BY <1>1, RowTypes DEF ChainOf
<1>3. ASSUME NEW x \in RowsOf(s)
      PROVE  x.no \in 1 .. Token(pointer[s]) /\ Numbered(s, x.no) = x.release
    <2>1. x.no \in 1 .. Token(pointer[s])
        BY <1>1, <1>2 DEF ChainOf, Rows
    <2>2. \A y \in RowsOf(s) : y.no = x.no => y = x
        BY <1>1 DEF ChainOf
    <2>3. (CHOOSE y \in RowsOf(s) : y.no = x.no) = x
        BY <2>2
    <2> QED BY <2>1, <2>3 DEF Numbered
<1>4. \A n \in 1 .. Token(pointer[s]) : Numbered(s, n) \in Releases
    BY <1>2, <1>3 DEF Rows
<1>5. \A n \in 1 .. Token(pointer[s]) : ChainAt(s)[n] = Numbered(s, n)
    BY <1>2 DEF ChainAt
<1>6. ChainAt(s) \in [1 .. Token(pointer[s]) -> Releases]
    BY <1>2, <1>4 DEF ChainAt
<1> QED BY <1>2, <1>3, <1>5, <1>6 DEF Elements

LEMMA NextElements == Inv' => AllElements'
BY ChainElements, PTL

LEMMA ChainInit == Init => Chain!Init
<1> SUFFICES ASSUME Init PROVE Chain!Init
    OBVIOUS
<1>1. \A s \in SerialScopes : RowsOf(s) = {} /\ pointer[s] = {}
    BY DEF Init, RowsOf, SerialScopes
<1>2. \A s \in SerialScopes : ChainAt(s) = <<>>
    BY <1>1, FS_EmptySet DEF ChainAt
<1>3. \A s \in SerialScopes : Current(pointer[s]) = None
    BY <1>1, EmptyToken
<1>4. \A k \in CallKeys : KeyedAt(k) = None
    BY DEF Init, KeyedAt, KeyedRows, KeyRows
<1> QED BY <1>2, <1>3, <1>4 DEF Chain!Init, ChainAt, KeyedAt, KeyedRows

\* A scope to which no row is added keeps its chain.
LEMMA ChainKept ==
    ASSUME NEW s \in SerialScopes, RowsOf(s)' = RowsOf(s), pointer'[s] = pointer[s]
    PROVE  ChainAt(s)' = ChainAt(s) /\ Current(pointer[s])' = Current(pointer[s])
BY DEF ChainAt, Numbered, Current

LEMMA ChainStutter ==
    ASSUME \A s \in SerialScopes : RowsOf(s)' = RowsOf(s) /\ pointer'[s] = pointer[s],
           SerialRows' = SerialRows
    PROVE  UNCHANGED Chain!chainVars
<1>1. \A s \in SerialScopes : ChainAt(s)' = ChainAt(s) /\ Current(pointer[s])' = Current(pointer[s])
    BY ChainKept
<1>2. \A k \in CallKeys : KeyedAt(k)' = KeyedAt(k)
    <2> SUFFICES ASSUME NEW k \in CallKeys PROVE KeyedAt(k)' = KeyedAt(k)
        OBVIOUS
    <2>1. KeyedRows(k)' = KeyedRows(k)
        BY DEF KeyedRows, KeyRows, SerialRows
    <2> QED BY <2>1 DEF KeyedAt
<1> QED BY <1>1, <1>2 DEF Chain!chainVars, ChainAt, KeyedAt, KeyedRows

\* A publication of a locking route appends its release to the chain of its scope.
LEMMA PublishAppends ==
    ASSUME Inv, NEW p \in Publishers, Publish(p), NEW s \in SerialScopes, s = Scope(p), Inv'
    PROVE  /\ ChainAt(s)' = Append(ChainAt(s), Release(p))
           /\ Current(pointer[s])' = Release(p)
<1> DEFINE last == Token(pointer[s])
<1>1. s \in Scopes /\ Serialised(s)
    BY DEF SerialScopes, Serialised
<1>2. /\ Token(pointer[s])' = last + 1 /\ Current(pointer[s])' = Release(p)
      /\ RowsOf(s)' = RowsOf(s) \cup {NewRow(p)}
      /\ seen[p] = pointer[s] /\ NewRow(p).no = last + 1 /\ NewRow(p).release = Release(p)
    BY <1>1, PublishExtends, RowIsNew DEF Token, Current
<1>3. /\ ChainAt(s) \in [1 .. last -> Releases] /\ last \in Nat
      /\ \A n \in 1 .. last : \E x \in RowsOf(s) : x.no = n
      /\ \A x \in RowsOf(s) : x.no \in 1 .. last /\ ChainAt(s)[x.no] = x.release
      /\ Cardinality(RowsOf(s)) = last
    BY ChainElements DEF AllElements, Elements
<1>4. Elements(s)'
    BY NextElements DEF AllElements, SerialScopes
<1>5. /\ ChainAt(s)' \in [1 .. last + 1 -> Releases]
      /\ \A x \in RowsOf(s)' : ChainAt(s)'[x.no] = x.release
      /\ Cardinality(RowsOf(s))' = last + 1
    BY <1>2, <1>4 DEF Elements
<1>6. Release(p) \in Releases /\ NewRow(p) \in RowsOf(s)' /\ RowsOf(s) \subseteq RowsOf(s)'
    BY <1>2, CallTypes
<1>7. ChainAt(s)'[last + 1] = Release(p)
    BY <1>2, <1>5, <1>6
<1>8. ASSUME NEW n \in 1 .. last PROVE ChainAt(s)'[n] = ChainAt(s)[n]
    BY <1>3, <1>5, <1>6
<1> QED BY <1>2, <1>3, <1>5, <1>6, <1>7, <1>8, AppendFunction

\* It publishes a release that no chain has, under a key that stands for none.
LEMMA PublishRefines ==
    ASSUME Inv, Inv', NEW p \in Publishers, Publish(p), Scope(p) \in SerialScopes
    PROVE  Chain!Next
<1>0. PICK t \in SerialScopes : t = Scope(p)
    OBVIOUS
<1>1. /\ ChainAt(t)' = Append(ChainAt(t), Release(p)) /\ Current(pointer[t])' = Release(p)
    BY <1>0, PublishAppends
<1>2. \A s \in SerialScopes \ {t} :
         ChainAt(s)' = ChainAt(s) /\ Current(pointer[s])' = Current(pointer[s])
    <2> SUFFICES ASSUME NEW s \in SerialScopes \ {t}
                 PROVE  ChainAt(s)' = ChainAt(s) /\ Current(pointer[s])' = Current(pointer[s])
        OBVIOUS
    <2>1. ScopeOf[NewRow(p).release] # s
        BY <1>0, RowIsNew DEF Scope
    <2>2. RowsOf(s)' = RowsOf(s)
        BY <2>1, RowIsNew DEF RowsOf
    <2>3. pointer'[s] = pointer[s]
        BY <1>0, PublishEffect DEF SerialScopes
    <2> QED BY <2>2, <2>3, ChainKept
<1>3. SerialRows' = SerialRows \cup {NewRow(p)}
    BY RowIsNew DEF SerialRows, Scope, SerialScopes
<1>4. PICK k \in CallKeys : k = Key(p)
    BY CallTypes
<1>5. KeyedRows(k) = {} /\ KeyedRows(k)' = {NewRow(p)}
    BY <1>3, <1>4, RowIsNew DEF KeyedRows, KeyRows
<1>6. KeyedAt(k) = None /\ KeyedAt(k)' = Release(p)
    <2>1. (CHOOSE x \in {NewRow(p)} : TRUE) = NewRow(p)
        OBVIOUS
    <2> QED BY <1>5, <2>1, RowIsNew DEF KeyedAt
<1>7. \A j \in CallKeys \ {k} : KeyedAt(j)' = KeyedAt(j)
    <2> SUFFICES ASSUME NEW j \in CallKeys \ {k} PROVE KeyedAt(j)' = KeyedAt(j)
        OBVIOUS
    <2>1. KeyedRows(j)' = KeyedRows(j)
        BY <1>3, <1>4, RowIsNew DEF KeyedRows, KeyRows
    <2> QED BY <2>1 DEF KeyedAt
<1>8. Release(p) \in Releases \ Chain!Published
    <2>1. ASSUME NEW s \in SerialScopes, NEW n \in DOMAIN ChainAt(s)
          PROVE  ChainAt(s)[n] # Release(p)
        <3>1. Elements(s)
            BY ChainElements DEF AllElements
        <3>2. n \in 1 .. Token(pointer[s])
            BY <2>1, <3>1 DEF Elements
        <3>3. PICK x \in RowsOf(s) : x.no = n
            BY <3>1, <3>2 DEF Elements
        <3>4. ChainAt(s)[n] = x.release /\ x \in releases
            BY <3>1, <3>3 DEF Elements, RowsOf
        <3> QED BY <3>4, RowIsNew
    <2> QED BY <2>1, CallTypes DEF Chain!Published, ChainAt
<1>9. /\ [s \in SerialScopes |-> ChainAt(s)]'
             = [[s \in SerialScopes |-> ChainAt(s)] EXCEPT ![t] = Append(@, Release(p))]
      /\ [s \in SerialScopes |-> Current(pointer[s])]'
             = [[s \in SerialScopes |-> Current(pointer[s])] EXCEPT ![t] = Release(p)]
      /\ [j \in CallKeys |-> KeyedAt(j)]'
             = [[j \in CallKeys |-> KeyedAt(j)] EXCEPT ![k] = Release(p)]
    BY <1>1, <1>2, <1>6, <1>7 DEF SerialScopes
<1>10. Chain!Publish(k, t, Release(p))
    BY <1>6, <1>9 DEF Chain!Publish, ChainAt, KeyedAt, KeyedRows
<1> QED BY <1>8, <1>10 DEF Chain!Next

LEMMA StepRefines == Inv /\ Inv' /\ [Next]_vars => [Chain!Next]_(Chain!chainVars)
<1> SUFFICES ASSUME Inv, Inv', [Next]_vars PROVE [Chain!Next]_(Chain!chainVars)
    OBVIOUS
<1>1. CASE UNCHANGED <<releases, pointer>>
    BY <1>1, ChainStutter DEF RowsOf, SerialRows
<1>2. ASSUME NEW p \in Publishers, Publish(p), Scope(p) \notin SerialScopes
      PROVE  UNCHANGED Chain!chainVars
    <2>1. \A s \in SerialScopes : RowsOf(s)' = RowsOf(s) /\ pointer'[s] = pointer[s]
        <3>1. \A s \in SerialScopes : pointer'[s] = pointer[s]
            BY <1>2, PublishEffect DEF SerialScopes
        <3>2. \A s \in SerialScopes : RowsOf(s)' = RowsOf(s)
            BY <1>2, RowIsNew DEF RowsOf, Scope
        <3> QED BY <3>1, <3>2
    <2>2. SerialRows' = SerialRows
        BY <1>2, RowIsNew DEF SerialRows, Scope, SerialScopes
    <2> QED BY <2>1, <2>2, ChainStutter
<1>3. ASSUME NEW p \in Publishers, Request(p) \/ Serve(p) \/ Abort(p), ~Publish(p)
      PROVE  UNCHANGED <<releases, pointer>>
    BY <1>3 DEF Request, Serve, Abort, Begin, WriterBusy, LockKey, LockScope, Reuse, ReadPointer,
                Refuse, PublishLost, Rollback, tables
<1> QED BY <1>1, <1>2, <1>3, PublishRefines DEF Next, vars, tables

\* On both engines the scopes of the core and the product route publish as
\* ReleaseChain does: at the end of one chain, each release once, each key once.
THEOREM LedgerIsChain == Spec => ImplementsChain
<1>1. Inv /\ [Next]_vars => Inv'
    BY StepHolds
<1> QED BY <1>1, ChainInit, StepRefines, InvAlways, PTL DEF Spec, ImplementsChain, Chain!Spec
===============================================================================
