------------------------------ MODULE TenantKeys ------------------------------
(***************************************************************************)
(* The data keys of one organization (one purpose, one key-encryption key) *)
(* in tenant_encryption_keys, the cache of unwrapped keys each process     *)
(* has, rotation, and the shredding of the organization.                   *)
(*                                                                         *)
(* Transactions run under READ COMMITTED and (org, purpose, version) is    *)
(* unique.  Restoring an organization, cancelling the deletion of a KMS    *)
(* key and the cache's size limit are left out.                            *)
(***************************************************************************)
EXTENDS Naturals, FiniteSets

CONSTANTS
    Processes,          \* API and worker processes
    Versions,           \* key versions 1, 2, ...: a bound on rotations
    NoKey,
    NoProcess,
    MaxKmsFaults        \* bound: calls KMS fails

ASSUME KeyOptions ==
    /\ Versions \subseteq Nat \ {0} /\ 1 \in Versions
    /\ NoKey \notin Versions /\ NoProcess \notin Processes
    /\ MaxKmsFaults \in Nat

VARIABLES
    orgDeleted,         \* organization.deletedAt
    keyRow,             \* per version: its row
    kek,                \* the key-encryption key in KMS
    dekCache,           \* per process: versions it holds unwrapped
    user,               \* per process: the encrypt or decrypt under way
    rotation,           \* per process: the rotation under way
    shred,              \* the shredding: how far it is, its process, the
                        \* versions it read, whether KMS failed it
    kmsFaults,
    lateRotation,       \* history: a rotation committed after the shredding
                        \* had deactivated the rows
    lateUse             \* history: processes that put a key into their cache
                        \* while or after their shredding evicted it

keyVars == <<orgDeleted, keyRow, kek, dekCache, user, rotation, shred,
             kmsFaults, lateRotation, lateUse>>

KeyTypeOK ==
    /\ orgDeleted \in BOOLEAN
    /\ keyRow \in [Versions -> {"none", "active", "inactive"}]
    /\ kek \in {"enabled", "disabled"}
    /\ dekCache \in [Processes -> SUBSET Versions]
    /\ user \in [Processes -> [pc : {"idle", "resolve", "unwrap", "fill"},
                               key : Versions \cup {NoKey}]]
    /\ rotation \in [Processes ->
                        [pc : {"idle", "checked", "read"},
                         latest : Versions \cup {0}]]
    /\ shred \in [pc : {"none", "read", "deactivated", "evicted", "done"},
                  by : Processes \cup {NoProcess}, keys : SUBSET Versions,
                  failed : BOOLEAN]
    /\ kmsFaults \in 0 .. MaxKmsFaults
    /\ lateRotation \in BOOLEAN
    /\ lateUse \subseteq Processes

Resting == [pc |-> "idle", key |-> NoKey]
NotRotating == [pc |-> "idle", latest |-> 0]

(* The seed's ensureActiveDek has made version 1.                          *)
KeyInit ==
    /\ orgDeleted = FALSE
    /\ keyRow = [k \in Versions |-> IF k = 1 THEN "active" ELSE "none"]
    /\ kek = "enabled"
    /\ dekCache = [p \in Processes |-> {}]
    /\ user = [p \in Processes |-> Resting]
    /\ rotation = [p \in Processes |-> NotRotating]
    /\ shred = [pc |-> "none", by |-> NoProcess, keys |-> {}, failed |-> FALSE]
    /\ kmsFaults = 0
    /\ lateRotation = FALSE
    /\ lateUse = {}

Made == {k \in Versions : keyRow[k] # "none"}
Deactivated == shred.pc \in {"deactivated", "evicted", "done"}
Evicted == shred.pc \in {"evicted", "done"}

-----------------------------------------------------------------------------
(* encryptForOrg, decryptEnvelopeV2, resolveDekPlaintext                   *)

(* loadActiveDekRow                                                        *)
StartEncrypt(p) ==
    /\ user[p] = Resting
    /\ \E k \in Versions :
          /\ keyRow[k] = "active"
          /\ user' = [user EXCEPT ![p] = [pc |-> "resolve", key |-> k]]
    /\ UNCHANGED <<orgDeleted, keyRow, kek, dekCache, rotation, shred,
                   kmsFaults, lateRotation, lateUse>>

(* An envelope names its key, active or not.                               *)
StartDecrypt(p, k) ==
    /\ user[p] = Resting /\ k \in Made
    /\ user' = [user EXCEPT ![p] = [pc |-> "resolve", key |-> k]]
    /\ UNCHANGED <<orgDeleted, keyRow, kek, dekCache, rotation, shred,
                   kmsFaults, lateRotation, lateUse>>

Resolve(p) ==
    /\ user[p].pc = "resolve"
    /\ user' = [user EXCEPT ![p] = IF user[p].key \in dekCache[p] THEN Resting
                                   ELSE [@ EXCEPT !.pc = "unwrap"]]
    /\ UNCHANGED <<orgDeleted, keyRow, kek, dekCache, rotation, shred,
                   kmsFaults, lateRotation, lateUse>>

(* KMS unwraps the key, or refuses.                                        *)
Unwrap(p) ==
    /\ user[p].pc = "unwrap"
    /\ user' = [user EXCEPT ![p] = IF kek = "enabled"
                                   THEN [@ EXCEPT !.pc = "fill"] ELSE Resting]
    /\ UNCHANGED <<orgDeleted, keyRow, kek, dekCache, rotation, shred,
                   kmsFaults, lateRotation, lateUse>>

NoteUse(p) == lateUse' = IF Evicted /\ p = shred.by THEN lateUse \cup {p}
                         ELSE lateUse

Fill(p) ==
    /\ user[p].pc = "fill"
    /\ dekCache' = [dekCache EXCEPT ![p] = @ \cup {user[p].key}]
    /\ user' = [user EXCEPT ![p] = Resting]
    /\ NoteUse(p)
    /\ UNCHANGED <<orgDeleted, keyRow, kek, rotation, shred, kmsFaults,
                   lateRotation>>

(* Defect: an entry that is used stays.                                    *)
ExpireUnused(p, k) ==
    /\ k \in dekCache[p] /\ user[p].key # k
    /\ dekCache' = [dekCache EXCEPT ![p] = @ \ {k}]
    /\ UNCHANGED <<orgDeleted, keyRow, kek, user, rotation, shred, kmsFaults,
                   lateRotation, lateUse>>

(* ttlMs after it was set                                                  *)
Expire(p, k) ==
    /\ k \in dekCache[p]
    /\ dekCache' = [dekCache EXCEPT ![p] = @ \ {k}]
    /\ UNCHANGED <<orgDeleted, keyRow, kek, user, rotation, shred, kmsFaults,
                   lateRotation, lateUse>>

-----------------------------------------------------------------------------
(* POST /platform/orgs/:id/rotate-dek                                      *)

CheckOrg(p) ==
    /\ rotation[p].pc = "idle" /\ ~orgDeleted
    /\ rotation' = [rotation EXCEPT ![p].pc = "checked"]
    /\ UNCHANGED <<orgDeleted, keyRow, kek, dekCache, user, shred, kmsFaults,
                   lateRotation, lateUse>>

(* The transaction reads the latest version, and KMS makes a key.          *)
ReadLatest(p) ==
    /\ rotation[p].pc = "checked"
    /\ rotation' = [rotation EXCEPT
                       ![p] = IF kek = "disabled" THEN NotRotating
                              ELSE [pc |-> "read",
                                    latest |-> CHOOSE k \in Made :
                                                  \A j \in Made : j <= k]]
    /\ UNCHANGED <<orgDeleted, keyRow, kek, dekCache, user, shred, kmsFaults,
                   lateRotation, lateUse>>

(* Defect: what was active stays active.                                   *)
CommitRotationBeside(p) ==
    LET next == rotation[p].latest + 1 IN
    /\ rotation[p].pc = "read"
    /\ next \in Versions
    /\ IF keyRow[next] # "none"
       THEN UNCHANGED <<keyRow, dekCache, lateRotation, lateUse>>
       ELSE /\ keyRow' = [keyRow EXCEPT ![next] = "active"]
            /\ dekCache' = [dekCache EXCEPT ![p] = @ \cup {next}]
            /\ lateRotation' = (lateRotation \/ Deactivated)
            /\ NoteUse(p)
    /\ rotation' = [rotation EXCEPT ![p] = NotRotating]
    /\ UNCHANGED <<orgDeleted, kek, user, shred, kmsFaults>>

(* The next version, if no other rotation has made it; the active ones are *)
(* deactivated.                                                            *)
CommitRotation(p) ==
    LET next == rotation[p].latest + 1 IN
    /\ rotation[p].pc = "read"
    /\ next \in Versions
    /\ IF keyRow[next] # "none"
       THEN UNCHANGED <<keyRow, dekCache, lateRotation, lateUse>>
       ELSE /\ keyRow' = [k \in Versions |->
                             IF k = next THEN "active"
                             ELSE IF keyRow[k] = "active" THEN "inactive"
                             ELSE keyRow[k]]
            /\ dekCache' = [dekCache EXCEPT ![p] = @ \cup {next}]
            /\ lateRotation' = (lateRotation \/ Deactivated)
            /\ NoteUse(p)
    /\ rotation' = [rotation EXCEPT ![p] = NotRotating]
    /\ UNCHANGED <<orgDeleted, kek, user, shred, kmsFaults>>

-----------------------------------------------------------------------------
(* DELETE /platform/orgs/:id, then .../cryptoshred                         *)

SoftDelete ==
    /\ ~orgDeleted
    /\ orgDeleted' = TRUE
    /\ UNCHANGED <<keyRow, kek, dekCache, user, rotation, shred, kmsFaults,
                   lateRotation, lateUse>>

StartShred(p) ==
    /\ orgDeleted /\ shred.pc = "none"
    /\ shred' = [shred EXCEPT !.pc = "read", !.by = p, !.keys = Made]
    /\ UNCHANGED <<orgDeleted, keyRow, kek, dekCache, user, rotation,
                   kmsFaults, lateRotation, lateUse>>

(* Defect: the keys the shredding read are deactivated, no others.         *)
DeactivateSeen ==
    /\ shred.pc = "read"
    /\ keyRow' = [k \in Versions |-> IF k \in shred.keys THEN "inactive"
                                                         ELSE keyRow[k]]
    /\ shred' = [shred EXCEPT !.pc = "deactivated"]
    /\ UNCHANGED <<orgDeleted, kek, dekCache, user, rotation, kmsFaults,
                   lateRotation, lateUse>>

Deactivate ==
    /\ shred.pc = "read"
    /\ keyRow' = [k \in Versions |-> IF keyRow[k] = "active" THEN "inactive"
                                                             ELSE keyRow[k]]
    /\ shred' = [shred EXCEPT !.pc = "deactivated"]
    /\ UNCHANGED <<orgDeleted, kek, dekCache, user, rotation, kmsFaults,
                   lateRotation, lateUse>>

(* Defect: the cache is left as it is.                                     *)
EvictNothing ==
    /\ shred.pc = "deactivated"
    /\ shred' = [shred EXCEPT !.pc = "evicted"]
    /\ UNCHANGED <<orgDeleted, keyRow, kek, dekCache, user, rotation,
                   kmsFaults, lateRotation, lateUse>>

(* The keys it has read leave the cache of its own process.                *)
Evict ==
    /\ shred.pc = "deactivated"
    /\ dekCache' = [dekCache EXCEPT ![shred.by] = @ \ shred.keys]
    /\ shred' = [shred EXCEPT !.pc = "evicted"]
    /\ UNCHANGED <<orgDeleted, keyRow, kek, user, rotation, kmsFaults,
                   lateRotation, lateUse>>

(* disableKey and scheduleKeyDeletion; either of them disables the key,    *)
(* what both fail is recorded.                                             *)
DisableKek ==
    /\ shred.pc = "evicted"
    /\ \/ /\ kek' = "disabled"
          /\ shred' = [shred EXCEPT !.pc = "done"]
          /\ UNCHANGED kmsFaults
       \/ /\ kmsFaults < MaxKmsFaults
          /\ kmsFaults' = kmsFaults + 1
          /\ shred' = [shred EXCEPT !.pc = "done", !.failed = TRUE]
          /\ UNCHANGED kek
    /\ UNCHANGED <<orgDeleted, keyRow, dekCache, user, rotation,
                   lateRotation, lateUse>>

-----------------------------------------------------------------------------

Use(p) ==
    \/ StartEncrypt(p) \/ (\E k \in Versions : StartDecrypt(p, k))
    \/ Resolve(p) \/ Unwrap(p) \/ Fill(p)

Shredding == (\E p \in Processes : StartShred(p)) \/ Deactivate \/ Evict
             \/ DisableKek

KeyNext ==
    \/ \E p \in Processes :
          \/ Use(p) \/ CheckOrg(p) \/ ReadLatest(p) \/ CommitRotation(p)
          \/ \E k \in Versions : Expire(p, k)
    \/ SoftDelete
    \/ Shredding

(* Calls go on, and cached keys get old.                                   *)
KeyFairness ==
    \A p \in Processes :
        /\ WF_keyVars(Resolve(p) \/ Unwrap(p) \/ Fill(p))
        /\ WF_keyVars(ReadLatest(p) \/ CommitRotation(p))
        /\ \A k \in Versions : WF_keyVars(Expire(p, k))

-----------------------------------------------------------------------------
(* Properties                                                              *)

(* Rotations that overlap leave one key active, the newest, which is the   *)
(* one every process encrypts with.                                        *)
OneActiveKey ==
    \A k \in Versions : keyRow[k] = "active" =>
        \A j \in Made : j <= k /\ (keyRow[j] = "active" => j = k)

(* After the shredding has deactivated the rows a key is active only when  *)
(* a rotation that had begun before the organization was deleted commits   *)
(* so late.                                                                *)
ActiveAfterShredNeedsLateRotation ==
    Deactivated /\ (\E k \in Versions : keyRow[k] = "active") => lateRotation

(* The process that shreds holds a key after that only when an encrypt, a  *)
(* decrypt or a rotation of its own put it there after the eviction, or    *)
(* a rotation made it after the shredding had read which keys there are.   *)
ShredderForgets ==
    Evicted /\ shred.by \notin lateUse =>
        dekCache[shred.by] \cap shred.keys = {}

(* A shredding KMS does not fail takes hold in every process: once its     *)
(* cached keys are old nothing of the organization can be decrypted there. *)
ShredTakesHold ==
    <>[](shred.pc = "done" /\ ~shred.failed =>
             \A p \in Processes : dekCache[p] = {})

(* An organization has one key to encrypt with, none after its shredding,  *)
(* and the process that shreds keeps none, but where a late rotation or a  *)
(* late use is to blame.                                                   *)
KeysAreAccountedFor ==
    /\ KeyTypeOK
    /\ OneActiveKey
    /\ ActiveAfterShredNeedsLateRotation
    /\ ShredderForgets
=============================================================================
