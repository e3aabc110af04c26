----------------------- MODULE ObjectPublication_proofs -----------------------
(***************************************************************************)
(* Proofs about ObjectPublication, for any number of publications, of      *)
(* recoveries and of objects: registered objects stay exact and a running  *)
(* publication is not disturbed, whatever runs beside it.                  *)
(***************************************************************************)
EXTENDS ObjectPublication, TLAPS

SealedOrphans == [uri : Uris, bytes : Contents]

TypeInv ==
    /\ staging \in SUBSET Requests
    /\ sealed \in [Uris -> Contents \cup {None}]
    /\ registry \in [Uris -> Contents \cup {None}]
    /\ pc \in [Publishers -> {"stage", "verify", "seal", "write", "confirm", "register",
                              "published", "failed"}]
    /\ request \in [Publishers -> Requests]
    /\ rpc \in [Recoverers -> {"idle", "list", "remove"}]
    /\ DOMAIN known = Recoverers /\ DOMAIN todo = Recoverers
    /\ \A r \in SealedRecoveries : todo[r] \subseteq SealedOrphans

\* What holds of a URI while it is not exposed.  A publication under way before the
\* first registration meets no sweep and no other bytes; a registered object is as
\* registered, whoever rewrites it writes the same, and no sweep is about to take it.
Steady(u) ==
    /\ registry[u] # None => sealed[u] = registry[u]
    /\ \A p \in InFlight : Uri(p) = u =>
          /\ registry[u] = None =>
                Sweeping = {} /\ \A q \in InFlight : Uri(q) = u => Bytes(q) = Bytes(p)
          /\ registry[u] # None /\ pc[p] \in {"write", "confirm"} => Bytes(p) = registry[u]
          /\ pc[p] = "register" => sealed[u] = Bytes(p)
    /\ registry[u] # None => \A r \in SealedRecoveries :
          /\ rpc[r] = "list" => u \in known[r]
          /\ rpc[r] = "remove" => \A f \in todo[r] : f.uri # u

SealInv == \A u \in Uris \ exposed : Steady(u)

\* A publication that still has to read its staging bytes and met nobody when it
\* began: they are there, every staging recovery was told of it, it has no twin.
Safe(p) ==
    pc[p] = "verify" /\ p \notin crossed =>
        /\ request[p] \in staging
        /\ \A r \in StagingRecoveries : rpc[r] # "idle" => request[p].op \in known[r]
        /\ \A q \in Twins(p) : q = p

StageInv ==
    /\ \A p \in Publishers : Safe(p)
    /\ \A r \in StagingRecoveries : rpc[r] = "remove" => \A f \in todo[r] : f.op \notin known[r]

Inv == TypeInv /\ SealInv /\ StageInv

-----------------------------------------------------------------------------
LEMMA InitHolds == Init => Inv
<1> SUFFICES ASSUME Init PROVE Inv
    OBVIOUS
<1>1. TypeInv
    BY DEF Init, TypeInv, Requests, Recoverers
<1>2. SealInv /\ StageInv
    BY DEF Init, SealInv, Steady, InFlight, Recoverers, StageInv, Safe
<1> QED BY <1>1, <1>2 DEF Inv

\* What a step of a publication leaves alone.
LEMMA PublisherFrame ==
    ASSUME NEW p \in Publishers, TypeInv, Stage(p) \/ PublishStep(p) \/ Fail(p)
    PROVE  /\ UNCHANGED <<request, rpc, known, todo>>
           /\ \A q \in Publishers \ {p} : pc'[q] = pc[q]
           /\ exposed \subseteq exposed' /\ crossed \subseteq crossed'
           /\ request[p] \in Requests /\ Uri(p) \in Uris /\ Bytes(p) \in Contents
<1>1. CASE Stage(p)
    BY <1>1 DEF Stage, Meets, Goto, TypeInv, recoveries, Requests, Uri, Bytes
<1>2. CASE PublishStep(p) \/ Fail(p)
    BY <1>2 DEF PublishStep, VerifyStaged, FindSealed, WriteSealed, ConfirmSealed, Register, Fail,
           Goto, TypeInv, recoveries, history, Requests, Uri, Bytes
<1> QED BY <1>1, <1>2

LEMMA PublisherTypes ==
    ASSUME NEW p \in Publishers, TypeInv, Stage(p) \/ PublishStep(p) \/ Fail(p)
    PROVE  TypeInv'
<1>u. /\ UNCHANGED <<request, rpc, known, todo>>
      /\ request[p] \in Requests /\ Uri(p) \in Uris /\ Bytes(p) \in Contents
    BY PublisherFrame
<1>1. CASE Stage(p) \/ Fail(p) \/ VerifyStaged(p) \/ FindSealed(p)
    BY <1>1, <1>u DEF Stage, Fail, VerifyStaged, FindSealed, Goto, TypeInv, files
<1>2. CASE WriteSealed(p) \/ ConfirmSealed(p) \/ Register(p)
    BY <1>2, <1>u DEF WriteSealed, ConfirmSealed, Register, Goto, TypeInv, files
<1> QED BY <1>1, <1>2 DEF PublishStep

-----------------------------------------------------------------------------
(* Publications keep sealed objects *)

LEMMA StageKeepsSealed ==
    ASSUME Inv, NEW p \in Publishers, Stage(p), NEW u \in Uris \ exposed'
    PROVE  Steady(u)'
<1> USE DEF Inv
<1>f. /\ UNCHANGED <<request, rpc, known, todo, sealed, registry>>
      /\ \A q \in Publishers \ {p} : pc'[q] = pc[q]
      /\ u \in Uris \ exposed /\ Uri(p) \in Uris
    BY PublisherFrame DEF Stage
<1>1. Steady(u)
    BY <1>f DEF SealInv
<1>2. pc[p] = "stage" /\ pc'[p] = "verify" /\ p \notin InFlight /\ InFlight' = InFlight \cup {p}
    BY <1>f DEF Stage, Goto, TypeInv, InFlight
<1>3. /\ Sweeping' = Sweeping
      /\ \A q \in Publishers : Uri(q)' = Uri(q) /\ Bytes(q)' = Bytes(q)
    BY <1>f DEF Sweeping, Uri, Bytes
<1>4. Uri(p) = u /\ registry[u] = None =>
          Sweeping = {} /\ \A q \in InFlight : Uri(q) = u => Bytes(q) = Bytes(p)
    BY <1>f DEF Stage, Meets
<1>5. InFlight \subseteq Publishers
    BY DEF InFlight
<1>6. ASSUME NEW q \in InFlight', Uri(q) = u
      PROVE  /\ registry[u] = None =>
                   Sweeping = {} /\ \A o \in InFlight' : Uri(o) = u => Bytes(o) = Bytes(q)
             /\ registry[u] # None /\ pc'[q] \in {"write", "confirm"} => Bytes(q) = registry[u]
             /\ pc'[q] = "register" => sealed[u] = Bytes(q)
    BY <1>1, <1>2, <1>4, <1>5, <1>6, <1>f DEF Steady
<1> QED BY <1>1, <1>2, <1>3, <1>5, <1>6, <1>f DEF Steady

\* A step that only ends a publication, or finds the object, leaves the store alone.
LEMMA QuietKeepsSealed ==
    ASSUME Inv, NEW p \in Publishers, VerifyStaged(p) \/ FindSealed(p) \/ ConfirmSealed(p) \/ Fail(p),
           NEW u \in Uris \ exposed'
    PROVE  Steady(u)'
<1> USE DEF Inv
<1>f. /\ UNCHANGED <<request, rpc, known, todo, sealed, registry, exposed>>
      /\ \A q \in Publishers \ {p} : pc'[q] = pc[q]
      /\ u \in Uris \ exposed /\ Uri(p) \in Uris
    BY PublisherFrame DEF PublishStep, VerifyStaged, FindSealed, ConfirmSealed, Fail, files, history
<1>1. Steady(u)
    BY <1>f DEF SealInv
<1>2. /\ p \in InFlight /\ InFlight' \subseteq InFlight /\ InFlight \subseteq Publishers
      /\ Sweeping' = Sweeping
      /\ \A q \in Publishers : Uri(q)' = Uri(q) /\ Bytes(q)' = Bytes(q)
    BY <1>f DEF VerifyStaged, FindSealed, ConfirmSealed, Fail, Goto, InFlight, Sweeping, TypeInv,
           Uri, Bytes
<1>3. /\ pc'[p] = "write" => sealed[Uri(p)] = None
      /\ pc'[p] = "confirm" => sealed[Uri(p)] = Bytes(p)
      /\ pc'[p] = "register" => sealed[Uri(p)] = Bytes(p)
    BY DEF VerifyStaged, FindSealed, ConfirmSealed, Fail, Goto, TypeInv
<1>4. ASSUME NEW q \in InFlight', Uri(q) = u
      PROVE  /\ registry[u] # None /\ pc'[q] \in {"write", "confirm"} => Bytes(q) = registry[u]
             /\ pc'[q] = "register" => sealed[u] = Bytes(q)
    BY <1>1, <1>2, <1>3, <1>4, <1>f DEF Steady
<1> QED BY <1>1, <1>2, <1>4, <1>f DEF Steady

LEMMA WriteKeepsSealed ==
    ASSUME Inv, NEW p \in Publishers, WriteSealed(p), NEW u \in Uris \ exposed'
    PROVE  Steady(u)'
<1> USE DEF Inv
<1>f. /\ UNCHANGED <<request, rpc, known, todo, registry, exposed>>
      /\ \A q \in Publishers \ {p} : pc'[q] = pc[q]
      /\ u \in Uris \ exposed /\ Uri(p) \in Uris /\ Bytes(p) \in Contents
    BY PublisherFrame DEF PublishStep, WriteSealed, history
<1>1. Steady(u)
    BY <1>f DEF SealInv
<1>2. /\ pc[p] = "write" /\ pc'[p] = "confirm" /\ p \in InFlight
      /\ InFlight' = InFlight /\ InFlight \subseteq Publishers /\ Sweeping' = Sweeping
      /\ \A q \in Publishers : Uri(q)' = Uri(q) /\ Bytes(q)' = Bytes(q)
      /\ sealed'[u] = IF u = Uri(p) THEN Bytes(p) ELSE sealed[u]
    BY <1>f DEF WriteSealed, Goto, InFlight, Sweeping, TypeInv, Uri, Bytes
<1>3. registry[u] # None => sealed'[u] = registry[u]
    BY <1>1, <1>2 DEF Steady
<1>4. ASSUME NEW q \in InFlight, Uri(q) = u
      PROVE  /\ registry[u] # None /\ pc'[q] \in {"write", "confirm"} => Bytes(q) = registry[u]
             /\ pc'[q] = "register" => sealed'[u] = Bytes(q)
    <2>1. CASE u # Uri(p)
        BY <2>1, <1>1, <1>2, <1>4, <1>f DEF Steady
    <2>2. CASE u = Uri(p)
        BY <2>2, <1>1, <1>2, <1>4, <1>f DEF Steady
    <2> QED BY <2>1, <2>2
<1> QED BY <1>1, <1>2, <1>3, <1>4, <1>f DEF Steady

LEMMA RegisterKeepsSealed ==
    ASSUME Inv, NEW p \in Publishers, Register(p), NEW u \in Uris \ exposed'
    PROVE  Steady(u)'
<1> USE DEF Inv
<1>f. /\ UNCHANGED <<request, rpc, known, todo, sealed, exposed>>
      /\ \A q \in Publishers \ {p} : pc'[q] = pc[q]
      /\ u \in Uris \ exposed /\ Uri(p) \in Uris /\ Bytes(p) \in Contents
    BY PublisherFrame DEF PublishStep, Register, files, history
<1>1. Steady(u)
    BY <1>f DEF SealInv
<1>2. /\ pc[p] = "register" /\ p \in InFlight
      /\ InFlight' = InFlight \ {p} /\ InFlight \subseteq Publishers /\ Sweeping' = Sweeping
      /\ \A q \in Publishers : Uri(q)' = Uri(q) /\ Bytes(q)' = Bytes(q)
      /\ registry[Uri(p)] \in {None, Bytes(p)}
      /\ registry'[u] = IF u = Uri(p) THEN Bytes(p) ELSE registry[u]
    BY <1>f DEF Register, Goto, InFlight, Sweeping, TypeInv, Uri, Bytes
<1>3. CASE u # Uri(p)
    BY <1>1, <1>2, <1>3, <1>f DEF Steady
<1>4. CASE u = Uri(p)
    <2>1. sealed[u] = Bytes(p) /\ registry'[u] = Bytes(p) /\ Bytes(p) # None
        BY <1>1, <1>2, <1>4, <1>f, NoneAssumption DEF Steady
    <2>2. ASSUME NEW q \in InFlight', Uri(q) = u
          PROVE  /\ pc'[q] \in {"write", "confirm"} => Bytes(q) = registry'[u]
                 /\ pc'[q] = "register" => sealed[u] = Bytes(q)
        BY <1>1, <1>2, <1>4, <1>f, <2>1, <2>2 DEF Steady
    <2>3. ASSUME NEW r \in SealedRecoveries
          PROVE  /\ rpc[r] = "list" => u \in known[r]
                 /\ rpc[r] = "remove" => \A f \in todo[r] : f.uri # u
        <3>1. CASE registry[u] = None
            BY <3>1, <1>1, <1>2, <1>4 DEF Steady, Sweeping
        <3>2. CASE registry[u] # None
            BY <3>2, <1>1 DEF Steady
        <3> QED BY <3>1, <3>2
    <2> QED BY <1>2, <1>f, <2>1, <2>2, <2>3 DEF Steady
<1> QED BY <1>3, <1>4

-----------------------------------------------------------------------------
(* Publications keep staging objects *)

LEMMA StageKeepsStaging == ASSUME Inv, NEW p \in Publishers, Stage(p) PROVE StageInv'
<1> USE DEF Inv
<1>f. /\ UNCHANGED <<request, rpc, known, todo>>
      /\ \A q \in Publishers \ {p} : pc'[q] = pc[q]
    BY PublisherFrame
<1>1. /\ pc[p] = "stage" /\ pc'[p] = "verify" /\ staging' = staging \cup {request[p]}
      /\ crossed' = crossed \cup Twins(p) \cup
            {q \in {p} : \/ Twins(p) # {}
                         \/ \E r \in StagingRecoveries :
                               rpc[r] # "idle" /\ request[p].op \notin known[r]}
    BY DEF Stage, Goto, Meets, TypeInv
<1>2. \A q \in Publishers : \A o \in Twins(q)' : o \in Twins(q) \/ (o = p /\ request[q] = request[p])
    BY <1>1, <1>f DEF Twins
<1>3. ASSUME NEW q \in Publishers, pc'[q] = "verify", q \notin crossed'
      PROVE  /\ request[q] \in staging'
             /\ \A r \in StagingRecoveries : rpc[r] # "idle" => request[q].op \in known[r]
             /\ \A o \in Twins(q)' : o = q
    <2>1. CASE q = p
        <3>1. Twins(p) = {}
            BY <1>1, <1>3, <2>1
        <3> QED BY <1>1, <1>2, <1>3, <2>1, <3>1
    <2>2. CASE q # p
        <3>1. Safe(q) /\ pc[q] = "verify" /\ q \notin crossed /\ q \notin Twins(p)
            BY <1>1, <1>3, <1>f, <2>2 DEF StageInv
        <3>2. request[q] # request[p]
            BY <3>1 DEF Twins
        <3> QED BY <1>1, <1>2, <3>1, <3>2 DEF Safe
    <2> QED BY <2>1, <2>2
<1>4. \A q \in Publishers : Safe(q)'
    BY <1>3, <1>f DEF Safe
<1> QED BY <1>4, <1>f DEF StageInv

LEMMA PublishKeepsStaging ==
    ASSUME Inv, NEW p \in Publishers, PublishStep(p) \/ Fail(p)
    PROVE  StageInv'
<1> USE DEF Inv
<1>f. /\ UNCHANGED <<request, rpc, known, todo>>
      /\ \A q \in Publishers \ {p} : pc'[q] = pc[q]
      /\ crossed \subseteq crossed'
    BY PublisherFrame
<1>1. /\ pc'[p] # "verify"
      /\ pc'[p] \in {"seal", "write", "confirm"} => pc[p] \in {"verify", "seal", "write"}
      /\ staging' = staging \/ (pc[p] = "confirm" /\ staging' = staging \ {request[p]})
    BY DEF PublishStep, VerifyStaged, FindSealed, WriteSealed, ConfirmSealed, Register, Fail, Goto,
           TypeInv, files
<1>2. \A q \in Publishers : Twins(q)' \subseteq Twins(q)
    BY <1>1, <1>f DEF Twins
<1>3. ASSUME NEW q \in Publishers, pc'[q] = "verify", q \notin crossed'
      PROVE  /\ request[q] \in staging'
             /\ \A r \in StagingRecoveries : rpc[r] # "idle" => request[q].op \in known[r]
             /\ \A o \in Twins(q)' : o = q
    <2>1. q # p /\ pc[q] = "verify" /\ q \notin crossed /\ Safe(q)
        BY <1>1, <1>3, <1>f DEF StageInv
    <2>2. pc[p] = "confirm" => request[p] # request[q]
        BY <2>1 DEF Safe, Twins
    <2> QED BY <1>1, <1>2, <2>1, <2>2 DEF Safe
<1>4. \A q \in Publishers : Safe(q)'
    BY <1>3, <1>f DEF Safe
<1> QED BY <1>4, <1>f DEF StageInv

LEMMA PublishHolds ==
    ASSUME Inv, NEW p \in Publishers, Stage(p) \/ PublishStep(p) \/ Fail(p)
    PROVE  Inv'
<1>1. TypeInv'
    BY PublisherTypes DEF Inv
<1>2. SealInv'
    BY StageKeepsSealed, QuietKeepsSealed, WriteKeepsSealed, RegisterKeepsSealed DEF SealInv, PublishStep
<1>3. StageInv'
    BY StageKeepsStaging, PublishKeepsStaging
<1> QED BY <1>1, <1>2, <1>3 DEF Inv

-----------------------------------------------------------------------------
(* Recoveries *)

\* A recovery that ends, whole or cut short, or that adds nothing to its list.
LEMMA EndHolds ==
    ASSUME Inv, NEW r \in Recoverers, Finish(r) \/ Cut(r)
    PROVE  Inv'
<1> USE DEF Inv
<1>u. UNCHANGED <<files, registry, publications, history>>
    BY DEF Finish, Cut
<1>1. /\ todo'[r] \subseteq todo[r] /\ rpc'[r] = "idle"
      /\ DOMAIN known' = Recoverers /\ DOMAIN todo' = Recoverers
      /\ \A s \in Recoverers \ {r} :
            todo'[s] = todo[s] /\ known'[s] = known[s] /\ rpc'[s] = rpc[s]
    BY DEF Finish, Cut, TypeInv
<1>2. TypeInv'
    BY <1>u, <1>1 DEF Finish, Cut, TypeInv, Recoverers, files, publications
<1>3. SealInv'
    <2> SUFFICES ASSUME NEW u \in Uris \ exposed, Steady(u) PROVE Steady(u)'
        BY <1>u DEF SealInv, history
    <2>1. /\ Sweeping' \subseteq Sweeping /\ InFlight' = InFlight
          /\ \A q \in Publishers : Uri(q)' = Uri(q) /\ Bytes(q)' = Bytes(q)
        BY <1>u, <1>1 DEF Sweeping, InFlight, Recoverers, publications, Uri, Bytes
    <2> QED BY <1>u, <1>1, <2>1 DEF Steady, Recoverers, files, publications, InFlight
<1>4. StageInv'
    BY <1>u, <1>1 DEF StageInv, Safe, Twins, Recoverers, files, publications, history
<1> QED BY <1>2, <1>3, <1>4

LEMMA ReadHolds == ASSUME Inv, NEW r \in Recoverers, ReadRegistry(r) PROVE Inv'
<1> USE DEF Inv
<1>u. UNCHANGED <<files, registry, publications, todo, crossed>> /\ r \in SealedRecoveries
    BY DEF ReadRegistry
<1>1. /\ rpc'[r] = "list" /\ known'[r] = {u \in Uris : registry[u] # None}
      /\ \A s \in Recoverers \ {r} : rpc'[s] = rpc[s] /\ known'[s] = known[s]
      /\ exposed' = exposed \cup {u \in Uris : registry[u] = None /\ \E p \in InFlight : Uri(p) = u}
      /\ r \notin StagingRecoveries
    BY <1>u, RunnerAssumption DEF ReadRegistry, TypeInv
<1>2. TypeInv'
    BY <1>u DEF ReadRegistry, TypeInv, files, publications
<1>3. SealInv'
    <2> SUFFICES ASSUME NEW u \in Uris \ exposed' PROVE Steady(u)'
        BY DEF SealInv
    <2>1. Steady(u) /\ (registry[u] = None => \A p \in InFlight : Uri(p) # u)
        BY <1>1 DEF SealInv
    <2>2. /\ InFlight' = InFlight /\ InFlight \subseteq Publishers
          /\ \A q \in Publishers : Uri(q)' = Uri(q) /\ Bytes(q)' = Bytes(q)
        BY <1>u DEF InFlight, publications, Uri, Bytes
    <2> QED BY <1>u, <1>1, <2>1, <2>2 DEF Steady, Recoverers, files, publications
<1>4. StageInv'
    BY <1>u, <1>1 DEF StageInv, Safe, Twins, Recoverers, files, publications
<1> QED BY <1>2, <1>3, <1>4

LEMMA NameHolds == ASSUME Inv, NEW r \in Recoverers, NameActive(r) PROVE Inv'
<1> USE DEF Inv
<1>u. /\ UNCHANGED <<files, registry, publications, todo, history>>
      /\ r \in StagingRecoveries /\ r \notin SealedRecoveries
    BY RunnerAssumption DEF NameActive
<1>1. /\ rpc'[r] = "list" /\ known'[r] = {request[p].op : p \in InFlight}
      /\ \A s \in Recoverers \ {r} : rpc'[s] = rpc[s] /\ known'[s] = known[s]
    BY DEF NameActive, TypeInv
<1>2. TypeInv'
    BY <1>u DEF NameActive, TypeInv, files, publications
<1>3. SealInv'
    <2> SUFFICES ASSUME NEW u \in Uris \ exposed, Steady(u) PROVE Steady(u)'
        BY <1>u DEF SealInv, history
    <2>1. /\ Sweeping' = Sweeping /\ InFlight' = InFlight /\ InFlight \subseteq Publishers
          /\ \A q \in Publishers : Uri(q)' = Uri(q) /\ Bytes(q)' = Bytes(q)
        BY <1>u, <1>1 DEF Sweeping, InFlight, Recoverers, publications, Uri, Bytes
    <2> QED BY <1>u, <1>1, <2>1 DEF Steady, Recoverers, files, publications
<1>4. StageInv'
    <2>1. \A p \in Publishers : pc[p] = "verify" => request[p].op \in known'[r]
        BY <1>1 DEF InFlight
    <2>2. \A p \in Publishers : Safe(p)'
        BY <1>u, <1>1, <2>1 DEF StageInv, Safe, Twins, Recoverers, files, publications, history
    <2> QED BY <1>u, <1>1, <2>2 DEF StageInv, Recoverers
<1> QED BY <1>2, <1>3, <1>4

\* A listing that takes no registered object and no staging object of an operation the
\* recovery was told of.
LEMMA ListHolds == ASSUME Inv, NEW r \in Recoverers, ListSealed(r) \/ ListStaging(r) PROVE Inv'
<1> USE DEF Inv
<1>u. UNCHANGED <<files, registry, publications, known, history>>
    BY DEF ListSealed, ListStaging, List
<1>1. /\ rpc[r] = "list" /\ rpc'[r] = "remove" /\ DOMAIN todo' = Recoverers
      /\ rpc' \in [Recoverers -> {"idle", "list", "remove"}]
      /\ \A s \in Recoverers \ {r} : rpc'[s] = rpc[s] /\ todo'[s] = todo[s]
    BY DEF ListSealed, ListStaging, List, TypeInv
<1>2. r \in SealedRecoveries =>
          todo'[r] \subseteq SealedOrphans /\ \A f \in todo'[r] : f.uri \notin known[r]
    BY RunnerAssumption DEF ListSealed, ListStaging, List, TypeInv, SealedOrphans
<1>3. r \in StagingRecoveries => \A f \in todo'[r] : f.op \notin known[r]
    BY RunnerAssumption DEF ListSealed, ListStaging, List, TypeInv
<1>4. TypeInv'
    BY <1>u, <1>1, <1>2 DEF TypeInv, Recoverers, files, publications
<1>5. SealInv'
    <2> SUFFICES ASSUME NEW u \in Uris \ exposed, Steady(u) PROVE Steady(u)'
        BY <1>u DEF SealInv, history
    <2>1. /\ Sweeping' = Sweeping /\ InFlight' = InFlight /\ InFlight \subseteq Publishers
          /\ \A q \in Publishers : Uri(q)' = Uri(q) /\ Bytes(q)' = Bytes(q)
        BY <1>u, <1>1 DEF Sweeping, InFlight, Recoverers, publications, Uri, Bytes
    <2>2. registry[u] # None => \A s \in SealedRecoveries :
              /\ rpc'[s] = "list" => u \in known[s]
              /\ rpc'[s] = "remove" => \A f \in todo'[s] : f.uri # u
        BY <1>1, <1>2 DEF Steady, Recoverers
    <2> QED BY <1>u, <2>1, <2>2 DEF Steady, files, publications
<1>6. StageInv'
    <2>1. \A p \in Publishers : Safe(p)'
        BY <1>u, <1>1 DEF StageInv, Safe, Twins, Recoverers, files, publications, history
    <2> QED BY <1>u, <1>1, <1>3, <2>1 DEF StageInv, Recoverers
<1> QED BY <1>4, <1>5, <1>6

LEMMA RemoveSealedHolds ==
    ASSUME Inv, NEW r \in Recoverers, NEW f \in todo[r], RemoveSealed(r, f)
    PROVE  Inv'
<1> USE DEF Inv
<1>u. UNCHANGED <<staging, registry, publications, rpc, known, history>>
    BY DEF RemoveSealed
<1>r. /\ r \in SealedRecoveries /\ r \notin StagingRecoveries /\ r \in Sweeping
      /\ rpc[r] = "remove" /\ f \in SealedOrphans /\ f.uri \in Uris
    BY RunnerAssumption DEF RemoveSealed, TypeInv, Sweeping, SealedOrphans
<1>1. /\ todo'[r] \subseteq todo[r] /\ \A s \in Recoverers \ {r} : todo'[s] = todo[s]
      /\ sealed' = [sealed EXCEPT ![f.uri] = None] /\ DOMAIN todo' = Recoverers
    BY DEF RemoveSealed, TypeInv
<1>2. TypeInv'
    BY <1>u, <1>r, <1>1 DEF TypeInv, Recoverers, publications
<1>3. SealInv'
    <2> SUFFICES ASSUME NEW u \in Uris \ exposed, Steady(u) PROVE Steady(u)'
        BY <1>u DEF SealInv, history
    <2>1. /\ Sweeping' = Sweeping /\ InFlight' = InFlight /\ InFlight \subseteq Publishers
          /\ \A q \in Publishers : Uri(q)' = Uri(q) /\ Bytes(q)' = Bytes(q)
        BY <1>u DEF Sweeping, InFlight, publications, Uri, Bytes
    <2>2. u = f.uri => registry[u] = None /\ \A p \in InFlight : Uri(p) # u
        BY <1>r DEF Steady
    <2>3. u # f.uri => sealed'[u] = sealed[u]
        BY <1>1 DEF TypeInv
    <2> QED BY <1>u, <1>1, <2>1, <2>2, <2>3 DEF Steady, Recoverers, publications
<1>4. StageInv'
    BY <1>u, <1>r, <1>1 DEF StageInv, Safe, Twins, Recoverers, publications, history
<1> QED BY <1>2, <1>3, <1>4

LEMMA RemoveStagingHolds ==
    ASSUME Inv, NEW r \in Recoverers, NEW f \in todo[r], RemoveStaging(r, f)
    PROVE  Inv'
<1> USE DEF Inv
<1>u. UNCHANGED <<sealed, registry, publications, rpc, known, history>>
    BY DEF RemoveStaging
<1>r. r \in StagingRecoveries /\ r \notin SealedRecoveries /\ rpc[r] = "remove"
    BY RunnerAssumption DEF RemoveStaging
<1>1. /\ todo'[r] \subseteq todo[r] /\ \A s \in Recoverers \ {r} : todo'[s] = todo[s]
      /\ staging' = staging \ {f} /\ DOMAIN todo' = Recoverers
    BY DEF RemoveStaging, TypeInv
<1>2. TypeInv'
    BY <1>u, <1>r, <1>1 DEF TypeInv, Recoverers, publications
<1>3. SealInv'
    <2> SUFFICES ASSUME NEW u \in Uris \ exposed, Steady(u) PROVE Steady(u)'
        BY <1>u DEF SealInv, history
    <2>1. /\ Sweeping' = Sweeping /\ InFlight' = InFlight /\ InFlight \subseteq Publishers
          /\ \A q \in Publishers : Uri(q)' = Uri(q) /\ Bytes(q)' = Bytes(q)
        BY <1>u DEF Sweeping, InFlight, publications, Uri, Bytes
    <2> QED BY <1>u, <1>r, <1>1, <2>1 DEF Steady, Recoverers, publications
<1>4. StageInv'
    <2>1. ASSUME NEW p \in Publishers, pc[p] = "verify", p \notin crossed PROVE request[p] # f
        BY <1>r, <2>1 DEF StageInv, Safe
    <2>2. \A p \in Publishers : Safe(p)'
        BY <1>u, <1>1, <2>1 DEF StageInv, Safe, Twins, publications, history
    <2> QED BY <1>u, <1>1, <2>2 DEF StageInv, Recoverers
<1> QED BY <1>2, <1>3, <1>4

LEMMA StepHolds == Inv /\ [Next]_vars => Inv'
<1> SUFFICES ASSUME Inv, [Next]_vars PROVE Inv'
    OBVIOUS
<1>1. CASE UNCHANGED vars
    <2>1. UNCHANGED <<staging, sealed, registry, pc, request, rpc, known, todo, exposed, crossed>>
        BY <1>1 DEF vars, files, publications, recoveries, history
    <2> QED BY <2>1 DEF Inv, TypeInv, SealInv, Steady, StageInv, Safe, Twins, InFlight, Sweeping,
              Uri, Bytes
<1>2. ASSUME NEW p \in Publishers, Stage(p) \/ PublishStep(p) \/ Fail(p) PROVE Inv'
    BY <1>2, PublishHolds
<1>3. ASSUME NEW r \in Recoverers, RecoveryStep(r) \/ Stop(r) PROVE Inv'
    <2>1. CASE Stop(r)
        BY <2>1, EndHolds DEF Stop
    <2>2. CASE RecoveryStep(r)
        BY <2>2, ReadHolds, NameHolds, ListHolds, RemoveSealedHolds, RemoveStagingHolds, EndHolds
           DEF RecoveryStep, HashChanged
    <2> QED BY <1>3, <2>1, <2>2
<1> QED BY <1>1, <1>2, <1>3 DEF Next

LEMMA InvAlways == Spec => []Inv
BY InitHolds, StepHolds, PTL DEF Spec

\* For any calls and recoveries, whatever their interleaving and failures: what is
\* registered is in the store with exactly its bytes, unless its first registration
\* overlapped a sweep or other bytes.
THEOREM RegisteredStaysExact == Spec => []RegisteredExact
<1>1. Inv => RegisteredExact
    BY DEF Inv, SealInv, Steady, RegisteredExact
<1> QED BY <1>1, InvAlways, PTL

\* Likewise no recovery takes the staging bytes of a publication it was told of, and
\* none, told or not, makes a publication register what is not sealed.
THEOREM NothingDisturbed == Spec => []PublicationUndisturbed
<1>1. ASSUME Inv, NEW p \in Publishers
      PROVE  /\ pc[p] = "verify" /\ p \notin crossed => request[p] \in staging
             /\ pc[p] = "register" /\ Uri(p) \notin exposed => sealed[Uri(p)] = Bytes(p)
    <2>1. pc[p] = "verify" /\ p \notin crossed => request[p] \in staging
        BY <1>1 DEF Inv, StageInv, Safe
    <2>2. pc[p] = "register" /\ Uri(p) \notin exposed => sealed[Uri(p)] = Bytes(p)
        BY <1>1 DEF Inv, TypeInv, Requests, SealInv, Steady, InFlight, Uri, Bytes
    <2> QED BY <2>1, <2>2
<1>2. Inv => PublicationUndisturbed
    BY <1>1 DEF PublicationUndisturbed
<1> QED BY <1>2, InvAlways, PTL
===============================================================================
