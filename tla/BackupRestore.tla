---------------------------- MODULE BackupRestore ----------------------------
(***************************************************************************)
(* Production backup and recovery (tpaa_runtime/recovery.py): a backup     *)
(* copies the database and then the object tree of a system that goes on   *)
(* publishing, and a restore brings both into a clean place.  The two      *)
(* stores share no transaction, neither when they are written nor when     *)
(* they are copied.                                                        *)
(***************************************************************************)
EXTENDS Naturals

CONSTANTS
    Uris,     \* objects that are published
    Attempts  \* bound: how often a restore is started

VARIABLES
    profile,   \* "DESKTOP" or "SERVICE"
    registry,  \* URIs of committed object references
    disk,      \* file of the object tree -> what it holds
    writer,    \* URI -> how far its publication is
    bpc,       \* what the backup does next
    staging,   \* the staging directory of the backup being made
    backup,    \* the destination, once a backup is made
    rpc,       \* what the restore does next
    attempt,   \* how often a restore was started
    target     \* what the restore works on: database, objects and their staging

publication == <<registry, disk, writer>>
copying == <<bpc, staging, backup>>
restoring == <<rpc, attempt, target>>
recovery == <<profile, publication, copying, restoring>>

\* Every object has a file, and while it is written a temporary one beside it.
Files == Uris \X {"object", "temporary"}
Holdings == {"absent", "part", "whole", "corrupt"}
Empty == [f \in Files |-> "absent"]
Present(tree) == {f \in Files : tree[f] # "absent"}

\* A directory with a backup: database, manifest, files, what is left to do.
Directory(there) ==
    [there |-> there, db |-> {}, manifest |-> Empty, files |-> Empty, todo |-> {}]
Nothing == Directory(FALSE)

\* Every reference of a database finds its object.
Resolves(db, tree) == \A u \in db : tree[<<u, "object">>] = "whole"

RecoveryInit ==
    /\ profile \in {"DESKTOP", "SERVICE"}
    /\ registry = {}
    /\ disk = Empty
    /\ writer = [u \in Uris |-> "idle"]
    /\ bpc = "idle"
    /\ staging = Nothing
    /\ backup = Nothing
    /\ rpc = "idle"
    /\ attempt = 0
    /\ target = [db |-> {}, objects |-> {}, dbStaging |-> {}, objectStaging |-> {}]

-----------------------------------------------------------------------------
(* publication: a temporary file, its replacement, the reference *)

Write(u, from, to, tree) ==
    /\ writer[u] = from
    /\ writer' = [writer EXCEPT ![u] = to]
    /\ disk' = tree
    /\ UNCHANGED <<profile, registry, copying, restoring>>

OpenTemporary(u) ==
    Write(u, "idle", "part", [disk EXCEPT ![<<u, "temporary">>] = "part"])

FillTemporary(u) ==
    Write(u, "part", "whole", [disk EXCEPT ![<<u, "temporary">>] = "whole"])

ReplaceObject(u) ==
    Write(u, "whole", "sealed", [disk EXCEPT ![<<u, "temporary">>] = "absent",
                                             ![<<u, "object">>] = "whole"])

RegisterObject(u) ==
    /\ writer[u] = "sealed"
    /\ writer' = [writer EXCEPT ![u] = "registered"]
    /\ registry' = registry \cup {u}
    /\ UNCHANGED <<profile, disk, copying, restoring>>

\* The publisher dies; recovery removes the object it has not registered.
WriterDies(u) ==
    /\ writer[u] \in {"part", "whole", "sealed"}
    /\ Write(u, writer[u], "dead", disk)

ReclaimOrphan(u) ==
    /\ disk[<<u, "object">>] # "absent"
    /\ Write(u, "dead", "reclaimed", [disk EXCEPT ![<<u, "object">>] = "absent"])

InRestore == rpc \in {"stage", "database", "objects"}

-----------------------------------------------------------------------------
(* create_desktop_production_backup, create_service_production_backup *)

AmendStaging(s, pc) ==
    /\ staging' = s
    /\ bpc' = pc
    /\ UNCHANGED <<profile, publication, backup, restoring>>

\* Neither the destination nor its staging directory may exist.
BeginBackup ==
    /\ bpc = "idle" /\ ~backup.there /\ ~staging.there
    /\ AmendStaging(Directory(TRUE), "database")

\* Mutant of CopyDatabase: the object tree is listed first.
CopyDatabaseLast ==
    \/ /\ bpc = "database" /\ staging.todo = {}
       /\ AmendStaging([staging EXCEPT !.todo = Present(disk)], "hash")
    \/ /\ bpc = "manifest" /\ staging.db = {} /\ registry # {}
       /\ AmendStaging([staging EXCEPT !.db = registry], "manifest")

\* A snapshot of the committed database.
CopyDatabase ==
    /\ bpc = "database"
    /\ AmendStaging([staging EXCEPT !.db = registry], "list")

\* All files but those of locks, temporary ones too.
ListObjects ==
    /\ bpc = "list"
    /\ AmendStaging([staging EXCEPT !.todo = Present(disk)], "hash")

HashObject(f) ==
    /\ bpc = "hash" /\ f \in staging.todo /\ disk[f] # "absent"
    /\ AmendStaging([staging EXCEPT !.manifest[f] = disk[f], !.todo = @ \ {f}], "hash")

\* Each file is hashed when it is listed and copied after all are hashed.
HashedAll ==
    /\ bpc = "hash" /\ staging.todo = {}
    /\ AmendStaging([staging EXCEPT !.todo = Present(staging.manifest)], "copy")

CopyObject(f) ==
    /\ bpc = "copy" /\ f \in staging.todo /\ disk[f] # "absent"
    /\ AmendStaging([staging EXCEPT !.files[f] = disk[f], !.todo = @ \ {f}], "copy")

CopiedAll ==
    /\ bpc = "copy" /\ staging.todo = {}
    /\ AmendStaging(staging, "manifest")

FinishBackup ==
    /\ bpc = "manifest"
    /\ backup' = staging
    /\ staging' = Nothing
    /\ bpc' = "done"
    /\ UNCHANGED <<profile, publication, restoring>>

\* A file is gone, a command or the disk fails: the staging directory is removed.
\* Where that fails too, it stays as after BackupDies.
BackupFails ==
    /\ bpc \notin {"idle", "done"}
    /\ staging' = Nothing
    /\ bpc' = "idle"
    /\ UNCHANGED <<profile, publication, backup, restoring>>

\* The process dies; its staging directory refuses every later backup.
BackupDies ==
    /\ bpc \notin {"idle", "done"}
    /\ bpc' = "idle"
    /\ UNCHANGED <<profile, publication, staging, backup, restoring>>

\* A file of the backup is damaged while no restore reads it.
Corrupt(f) ==
    /\ bpc = "done" /\ ~InRestore /\ rpc # "ok"
    /\ backup.files[f] \notin {"absent", "corrupt"}
    /\ backup' = [backup EXCEPT !.files[f] = "corrupt"]
    /\ UNCHANGED <<profile, publication, bpc, staging, restoring>>

-----------------------------------------------------------------------------
(* restore_desktop_production_backup, restore_service_production_backup *)

AmendTarget(t, pc) ==
    /\ target' = t
    /\ rpc' = pc
    /\ UNCHANGED <<profile, publication, copying, attempt>>

\* Every file has the hash and the size of the manifest.
Verified(b) == b.files = b.manifest

\* Nothing may be in the place of what is restored or of its staging; a service
\* database is not looked at, pg_restore fails on it later.
Clean ==
    /\ profile = "DESKTOP" => target.db = {} /\ target.dbStaging = {}
    /\ target.objects = {} /\ target.objectStaging = {}

BeginRestore ==
    /\ ~InRestore /\ attempt < Attempts
    /\ backup.there /\ Verified(backup) /\ Clean
    /\ rpc' = "stage"
    /\ attempt' = attempt + 1
    /\ UNCHANGED <<profile, publication, copying, target>>

StageFiles ==
    /\ rpc = "stage"
    /\ AmendTarget([target EXCEPT !.dbStaging = IF profile = "DESKTOP" THEN {backup.db} ELSE {},
                                  !.objectStaging = {backup.files}], "database")

\* Desktop: the copy takes the place of the database.  Service: pg_restore fills
\* the target database, which must be empty.
RestoreDatabase ==
    /\ rpc = "database" /\ target.db = {}
    /\ AmendTarget([target EXCEPT !.db = {backup.db}, !.dbStaging = {}], "objects")

RestoreObjects ==
    /\ rpc = "objects"
    /\ AmendTarget([target EXCEPT !.objects = target.objectStaging, !.objectStaging = {}], "ok")

\* Mutant of CleanUp: the database that was put in place stays.
CleanUpStaging == [target EXCEPT !.dbStaging = {}, !.objectStaging = {}]

\* Staging is removed, on the desktop the database too; not that of a service.
CleanUp == [target EXCEPT !.dbStaging = {}, !.objectStaging = {},
                          !.db = IF profile = "DESKTOP" THEN {} ELSE @]

\* pg_restore is no transaction: where it stops, part of the database is left.
Remains == IF profile = "SERVICE" /\ rpc = "database" THEN {target.db, {{}}} ELSE {target.db}

\* What stays if a removal fails: where the first raises nothing more is removed,
\* the object staging is removed as far as it goes, the last may raise again.
Leftovers ==
    {target} \cup
    {[CleanUp EXCEPT !.objectStaging = o, !.db = d] :
        o \in {{}, target.objectStaging}, d \in {CleanUp.db, target.db}}

RestoreFails ==
    /\ InRestore
    /\ \E db \in Remains :
          LET With(t) == IF profile = "SERVICE" THEN [t EXCEPT !.db = db] ELSE t
          IN  \/ AmendTarget(With(CleanUp), "failed")
              \/ \E t \in Leftovers \ {CleanUp} : AmendTarget(With(t), "stuck")

RestoreDies ==
    /\ InRestore
    /\ \E db \in Remains : AmendTarget([target EXCEPT !.db = db], "dead")

\* An operator clears the place of an attempt that died or left something.
OperatorClears ==
    /\ rpc \in {"dead", "failed", "stuck"}
    /\ AmendTarget([db |-> {}, objects |-> {}, dbStaging |-> {}, objectStaging |-> {}], "idle")

-----------------------------------------------------------------------------
RecoveryNext ==
    \/ \E u \in Uris : \/ OpenTemporary(u) \/ FillTemporary(u) \/ ReplaceObject(u)
                       \/ RegisterObject(u) \/ WriterDies(u) \/ ReclaimOrphan(u)
    \/ BeginBackup \/ CopyDatabase \/ ListObjects \/ HashedAll \/ CopiedAll
    \/ FinishBackup \/ BackupFails \/ BackupDies
    \/ \E f \in Files : HashObject(f) \/ CopyObject(f) \/ Corrupt(f)
    \/ BeginRestore \/ StageFiles \/ RestoreDatabase \/ RestoreObjects
    \/ RestoreFails \/ RestoreDies \/ OperatorClears

RecoverySpec == RecoveryInit /\ [][RecoveryNext]_recovery

-----------------------------------------------------------------------------
(* Properties *)

\* A backup of a running system is consistent: whatever was published or
\* reclaimed while it was made, each reference of its database finds its whole
\* object among the hashes of its manifest.
BackupResolves == Resolves(backup.db, backup.manifest)

\* A restore is all or nothing: one that succeeded has put both stores of the
\* backup in place and every reference resolves, whatever was damaged, failed or
\* left over before.  Any other has put no object in place, and one that failed and
\* could clean up has left no staging and on the desktop no database.
RestoreAllOrNothing ==
    /\ rpc = "ok" =>
          /\ target.db = {backup.db} /\ target.objects = {backup.manifest}
          /\ Resolves(backup.db, backup.manifest)
    /\ rpc # "ok" => target.objects = {}
    /\ rpc \in {"idle", "failed"} =>
          /\ target.objectStaging = {}
          /\ profile = "DESKTOP" => target.db = {} /\ target.dbStaging = {}
==============================================================================
