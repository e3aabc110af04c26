------------------------- MODULE ObjectPublication -------------------------
(***************************************************************************)
(* Immutable objects: ProductPublicationCoordinator.publish over           *)
(* LocalSealedObjectFlow and LocalObjectStore, and the two recoveries that *)
(* remove orphaned files.  The object store and the database share no      *)
(* transaction: a publication writes staging bytes, seals them under their *)
(* logical URI and only then registers the URI in its unit of work, and a  *)
(* recovery compares a listing of the store with the registry it read.     *)
(***************************************************************************)
EXTENDS FiniteSets

CONSTANTS
    Publishers,         \* calls of publish
    SealedRecoveries,   \* runners of the recovery of sealed orphans
    StagingRecoveries,  \* runners of the recovery of staging orphans
    Operations,         \* operation ids
    Uris,               \* logical URIs of sealed objects
    Contents,           \* bytes
    MayPublish,         \* requests each call may be made with
    None                \* no object

\* A staging URI holds the operation id, the digest and the last name of the URI.
Requests == [op : Operations, uri : Uris, bytes : Contents]

ASSUME RequestAssumption == MayPublish \in [Publishers -> SUBSET Requests]
ASSUME NoneAssumption == None \notin Contents
ASSUME RunnerAssumption == SealedRecoveries \cap StagingRecoveries = {}

VARIABLES
    staging,   \* staging objects in the store
    sealed,    \* sealed object under each URI
    registry,  \* committed registry.object_reference: bytes of each URI
    pc,        \* what each publication does next
    request,   \* what each call publishes
    rpc,       \* what each recovery does next
    known,     \* registered URIs or operations under way, as a recovery was told them
    todo,      \* listed objects a recovery still has to remove
    exposed,   \* history: URIs whose first registration has met a sweep or other bytes
    crossed    \* history: publications whose staging object somebody else may remove

files == <<staging, sealed>>
publications == <<pc, request>>
recoveries == <<rpc, known, todo>>
history == <<exposed, crossed>>
vars == <<files, registry, publications, recoveries, history>>

Recoverers == SealedRecoveries \cup StagingRecoveries

Init ==
    /\ staging = {}
    /\ sealed = [u \in Uris |-> None]
    /\ registry = [u \in Uris |-> None]
    /\ pc = [p \in Publishers |-> "stage"]
    /\ request \in {w \in [Publishers -> Requests] : \A p \in Publishers : w[p] \in MayPublish[p]}
    /\ rpc = [r \in Recoverers |-> "idle"]
    /\ known = [r \in Recoverers |-> {}]
    /\ todo = [r \in Recoverers |-> {}]
    /\ exposed = {} /\ crossed = {}

Uri(p) == request[p].uri
Bytes(p) == request[p].bytes

InFlight == {p \in Publishers : pc[p] \notin {"stage", "published", "failed"}}
Sweeping == {r \in SealedRecoveries : rpc[r] # "idle"}

Goto(p, point) == pc' = [pc EXCEPT ![p] = point]

-----------------------------------------------------------------------------
(* publish: stage, seal, register *)

\* Publications of the same request that still need or will remove its staging object.
Twins(p) ==
    {q \in Publishers : pc[q] \in {"verify", "seal", "write", "confirm"} /\ request[q] = request[p]}

\* What a publication that begins now can meet: sweeps that have read the registry
\* without its URI, other bytes on their way to it, staging recoveries that were not
\* told of its operation, a twin.
Meets(p) ==
    /\ exposed' = exposed \cup
          {u \in {Uri(p)} : /\ registry[u] = None
                            /\ \/ Sweeping # {}
                               \/ \E q \in InFlight : Uri(q) = u /\ Bytes(q) # Bytes(p)}
    /\ crossed' = crossed \cup Twins(p) \cup
          {q \in {p} : \/ Twins(p) # {}
                       \/ \E r \in StagingRecoveries :
                             rpc[r] # "idle" /\ request[p].op \notin known[r]}

Stage(p) ==
    /\ pc[p] = "stage"
    /\ staging' = staging \cup {request[p]}
    /\ Goto(p, "verify")
    /\ Meets(p)
    /\ UNCHANGED <<sealed, registry, request, recoveries>>

\* Mutant of VerifyStaged: missing staging bytes are taken for sealed ones.
VerifyStagedOrSealed(p) ==
    /\ pc[p] = "verify"
    /\ Goto(p, IF request[p] \in staging THEN "seal" ELSE "register")
    /\ UNCHANGED <<files, registry, request, recoveries, history>>

\* The staging object is read back, and read again for sealing.
VerifyStaged(p) ==
    /\ pc[p] = "verify"
    /\ Goto(p, IF request[p] \in staging THEN "seal" ELSE "failed")
    /\ UNCHANGED <<files, registry, request, recoveries, history>>

\* An object already under the URI must hold the same bytes; else it is written.
FindSealed(p) ==
    /\ pc[p] = "seal"
    /\ Goto(p, CASE sealed[Uri(p)] = None -> "write"
                 [] sealed[Uri(p)] = Bytes(p) -> "confirm"
                 [] OTHER -> "failed")
    /\ UNCHANGED <<files, registry, request, recoveries, history>>

\* Under the lock of the file, but the file may have come since it was looked for.
WriteSealed(p) ==
    /\ pc[p] = "write"
    /\ sealed' = [sealed EXCEPT ![Uri(p)] = Bytes(p)]
    /\ Goto(p, "confirm")
    /\ UNCHANGED <<staging, registry, request, recoveries, history>>

\* The sealed bytes are read back and the staging object removed.
ConfirmSealed(p) ==
    /\ pc[p] = "confirm"
    /\ IF sealed[Uri(p)] = Bytes(p)
       THEN staging' = staging \ {request[p]} /\ Goto(p, "register")
       ELSE UNCHANGED staging /\ Goto(p, "failed")
    /\ UNCHANGED <<sealed, registry, request, recoveries, history>>

\* One unit of work; its commit may take effect although the caller sees it fail.
Register(p) ==
    /\ pc[p] = "register"
    /\ registry[Uri(p)] \in {None, Bytes(p)}
    /\ registry' = [registry EXCEPT ![Uri(p)] = Bytes(p)]
    /\ Goto(p, "published") \/ Goto(p, "failed")
    /\ UNCHANGED <<files, request, recoveries, history>>

\* Other bytes are registered, the pointer's token is stale, or the database
\* fails; or, at any point, the process dies.  The files stay.
Fail(p) ==
    /\ p \in InFlight
    /\ Goto(p, "failed")
    /\ UNCHANGED <<files, registry, request, recoveries, history>>

-----------------------------------------------------------------------------
(* recovery: read the registry or the operations under way, list the store,    *)
(* remove what is in the listing only                                          *)

ReadRegistry(r) ==
    /\ rpc[r] = "idle" /\ r \in SealedRecoveries
    /\ known' = [known EXCEPT ![r] = {u \in Uris : registry[u] # None}]
    /\ rpc' = [rpc EXCEPT ![r] = "list"]
    /\ exposed' = exposed \cup
          {u \in Uris : registry[u] = None /\ \E p \in InFlight : Uri(p) = u}
    /\ UNCHANGED <<files, registry, publications, todo, crossed>>

\* The caller names the operations under way before the store is listed.
NameActive(r) ==
    /\ rpc[r] = "idle" /\ r \in StagingRecoveries
    /\ known' = [known EXCEPT ![r] = {request[p].op : p \in InFlight}]
    /\ rpc' = [rpc EXCEPT ![r] = "list"]
    /\ UNCHANGED <<files, registry, publications, todo, history>>

List(r, listed) ==
    /\ rpc[r] = "list"
    /\ todo' = [todo EXCEPT ![r] = listed]
    /\ rpc' = [rpc EXCEPT ![r] = "remove"]
    /\ UNCHANGED <<files, registry, publications, known, history>>

\* Mutant of ListSealed: the registry is not taken out of the listing.
ListSealedRegistered(r) ==
    /\ r \in SealedRecoveries
    /\ List(r, {[uri |-> u, bytes |-> sealed[u]] : u \in {v \in Uris : sealed[v] # None}})

ListSealed(r) ==
    /\ r \in SealedRecoveries
    /\ List(r, {[uri |-> u, bytes |-> sealed[u]] :
                    u \in {v \in Uris \ known[r] : sealed[v] # None}})

\* Mutants of ListStaging: operations under way are not spared; the operations
\* of dead publications are spared as well.
ListStagingAll(r) ==
    /\ r \in StagingRecoveries
    /\ List(r, staging)

ListStagingUnknown(r) ==
    /\ r \in StagingRecoveries
    /\ List(r, {f \in staging : \A p \in Publishers : request[p].op # f.op})

\* An operation that has begun since the caller named them is not spared.
ListStaging(r) ==
    /\ r \in StagingRecoveries
    /\ List(r, {f \in staging : f.op \notin known[r]})

RemoveSealed(r, f) ==
    /\ rpc[r] = "remove" /\ r \in SealedRecoveries /\ f \in todo[r]
    /\ sealed[f.uri] \in {None, f.bytes}
    /\ sealed' = [sealed EXCEPT ![f.uri] = None]
    /\ todo' = [todo EXCEPT ![r] = @ \ {f}]
    /\ UNCHANGED <<staging, registry, publications, rpc, known, history>>

RemoveStaging(r, f) ==
    /\ rpc[r] = "remove" /\ r \in StagingRecoveries /\ f \in todo[r]
    /\ staging' = staging \ {f}
    /\ todo' = [todo EXCEPT ![r] = @ \ {f}]
    /\ UNCHANGED <<sealed, registry, publications, rpc, known, history>>

Finish(r) ==
    /\ rpc[r] = "remove" /\ todo[r] = {}
    /\ rpc' = [rpc EXCEPT ![r] = "idle"]
    /\ known' = [known EXCEPT ![r] = {}]
    /\ UNCHANGED <<files, registry, publications, todo, history>>

Cut(r) ==
    /\ rpc' = [rpc EXCEPT ![r] = "idle"]
    /\ known' = [known EXCEPT ![r] = {}]
    /\ todo' = [todo EXCEPT ![r] = {}]
    /\ UNCHANGED <<files, registry, publications, history>>

\* "object hash changed before delete"
HashChanged(r, f) ==
    /\ rpc[r] = "remove" /\ r \in SealedRecoveries /\ f \in todo[r]
    /\ sealed[f.uri] \notin {None, f.bytes}
    /\ Cut(r)

\* A file is gone while it is listed, the store or the database fails, or the
\* process dies.
Stop(r) == rpc[r] # "idle" /\ Cut(r)

PublishStep(p) ==
    \/ VerifyStaged(p) \/ FindSealed(p) \/ WriteSealed(p)
    \/ ConfirmSealed(p) \/ Register(p)

RecoveryStep(r) ==
    \/ ReadRegistry(r) \/ ListSealed(r) \/ NameActive(r) \/ ListStaging(r)
    \/ \E f \in todo[r] : RemoveSealed(r, f) \/ HashChanged(r, f) \/ RemoveStaging(r, f)
    \/ Finish(r)

Next ==
    \/ \E p \in Publishers : Stage(p) \/ PublishStep(p) \/ Fail(p)
    \/ \E r \in Recoverers : RecoveryStep(r) \/ Stop(r)

\* A publication under way ends, one way or the other; the operator runs the
\* recoveries again and again, and not every run is cut short at the same point.
Spec == Init /\ [][Next]_vars
FairSpec ==
    /\ Spec
    /\ \A p \in Publishers : WF_vars(PublishStep(p) \/ Fail(p))
    /\ \A r \in Recoverers : WF_vars(RecoveryStep(r))
    /\ \A r \in SealedRecoveries :
          /\ SF_vars(ReadRegistry(r)) /\ SF_vars(ListSealed(r))
          /\ SF_vars(\E f \in todo[r] : RemoveSealed(r, f))
    /\ \A r \in StagingRecoveries :
          /\ SF_vars(NameActive(r)) /\ SF_vars(ListStaging(r))
          /\ SF_vars(\E f \in todo[r] : RemoveStaging(r, f))

-----------------------------------------------------------------------------
(* Properties *)

\* What the registry names is in the store with exactly the registered bytes, through
\* failures, recoveries and publications of the same URI.  The one way to lose it is a
\* race with its first registration: a sweep that overlaps that publication, from the
\* sweep's read of the registry on, or overlapping publications with other bytes.
RegisteredExact ==
    \A u \in Uris \ exposed : registry[u] # None => sealed[u] = registry[u]

\* The same of every registered object, as the documents have it: "registered immutable
\* objects are never deleted".
RegisteredNeverDeleted == \A u \in Uris : registry[u] # None => sealed[u] = registry[u]

\* A publication under way keeps its staging bytes until it has read them, unless it
\* began while a staging recovery ran that was not told of its operation, or has a
\* twin.  Also such a one registers only what is sealed with its bytes, unless its
\* URI is exposed: a recovery makes it fail, and nothing is registered.
PublicationUndisturbed ==
    \A p \in Publishers :
        /\ pc[p] = "verify" /\ p \notin crossed => request[p] \in staging
        /\ pc[p] = "register" /\ Uri(p) \notin exposed => sealed[Uri(p)] = Bytes(p)

\* "Interrupted staging is reclaimable": whatever dead publications left in the staging
\* area or sealed without registration goes in the end, so that again and again the
\* store holds registered objects only.
OrphansReclaimed ==
    []<>(staging = {} /\ \A u \in Uris : sealed[u] # None => registry[u] # None)
=============================================================================
