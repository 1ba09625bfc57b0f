----------------------------- MODULE TenantsProofs -----------------------------
(***************************************************************************)
(* What always holds of the keys of a tenant, of the erasure of a person   *)
(* and of the links between snapshots and applications, for any number of  *)
(* processes, versions, requests, records, snapshots and replicas.         *)
(***************************************************************************)
EXTENDS MCTenants, NumberSets

(***************************************************************************)
(* The data keys of an organization                                        *)
(***************************************************************************)

KeyUserRec == [pc : {"idle", "resolve", "unwrap", "fill"},
               key : Versions \cup {NoKey}]
RotationRec == [pc : {"idle", "checked", "read"}, latest : Versions \cup {0}]
ShredRec == [pc : {"none", "read", "deactivated", "evicted", "done"},
             by : Processes \cup {NoProcess}, keys : SUBSET Versions,
             failed : BOOLEAN]

(* There is a newest version.                                              *)
NewestIsThere == \E k \in Made : \A j \in Made : j <= k

(* Of the rotations that read the same latest version the first to commit  *)
(* makes the next one.                                                     *)
RotationIsSound(p) ==
    rotation[p].pc = "read" =>
        /\ rotation[p].latest \in Made
        /\ \/ rotation[p].latest + 1 \in Made
           \/ \A j \in Made : j <= rotation[p].latest

KeyIInv ==
    /\ KeyTypeOK
    /\ NewestIsThere
    /\ \A p \in Processes : RotationIsSound(p)
    /\ \A p \in Processes : user[p].pc # "idle" => user[p].key \in Versions
    /\ shred.pc # "none" => shred.by \in Processes
    /\ OneActiveKey
    /\ ActiveAfterShredNeedsLateRotation
    /\ ShredderForgets

LEMMA KeyBounds ==
    /\ Versions \subseteq Nat \ {0} /\ 1 \in Versions /\ 1 \in Nat
    /\ NoKey \notin Versions /\ NoProcess \notin Processes
    /\ MaxKmsFaults \in Nat
BY KeyOptions

LEMMA KeyTypes ==
    KeyTypeOK <=>
        /\ orgDeleted \in BOOLEAN
        /\ keyRow \in [Versions -> {"none", "active", "inactive"}]
        /\ kek \in {"enabled", "disabled"}
        /\ dekCache \in [Processes -> SUBSET Versions]
        /\ user \in [Processes -> KeyUserRec]
        /\ rotation \in [Processes -> RotationRec]
        /\ shred \in ShredRec
        /\ kmsFaults \in 0 .. MaxKmsFaults
        /\ lateRotation \in BOOLEAN /\ lateUse \subseteq Processes
BY DEF KeyTypeOK, KeyUserRec, RotationRec, ShredRec

LEMMA KeyInitIInv == KeyInit => KeyIInv
<1>. SUFFICES ASSUME KeyInit PROVE KeyIInv
  OBVIOUS
<1>1. /\ keyRow \in [Versions -> {"none", "active", "inactive"}]
      /\ Made = {1} /\ \A k \in Versions : keyRow[k] = "active" => k = 1
  BY KeyBounds DEF KeyInit, Made
<1>2. Resting \in KeyUserRec /\ Resting.pc = "idle"
  BY DEF Resting, KeyUserRec
<1>3. NotRotating \in RotationRec /\ NotRotating.pc = "idle"
  BY DEF NotRotating, RotationRec
<1> DEFINE none == [pc |-> "none", by |-> NoProcess, keys |-> {}, failed |-> FALSE]
<1>4. none \in ShredRec /\ none.pc = "none"
  BY DEF ShredRec
<1>5. shred = none
  BY DEF KeyInit
<1>. HIDE DEF none
<1>6. KeyTypeOK
  <2>1. /\ kmsFaults \in 0 .. MaxKmsFaults
        /\ dekCache \in [Processes -> SUBSET Versions]
    BY KeyBounds DEF KeyInit
  <2>2. user \in [Processes -> KeyUserRec] /\ rotation \in [Processes -> RotationRec]
    BY <1>2, <1>3 DEF KeyInit
  <2>. QED  BY <1>1, <1>4, <1>5, <2>1, <2>2, KeyTypes DEF KeyInit
<1>7. NewestIsThere /\ OneActiveKey
  BY <1>1, KeyBounds DEF NewestIsThere, OneActiveKey
<1>8. \A p \in Processes : user[p].pc = "idle" /\ rotation[p].pc = "idle"
  BY <1>2, <1>3 DEF KeyInit
<1>9. /\ \A p \in Processes : RotationIsSound(p)
      /\ ActiveAfterShredNeedsLateRotation /\ ShredderForgets
  BY <1>4, <1>5, <1>8 DEF RotationIsSound, ActiveAfterShredNeedsLateRotation,
                     ShredderForgets, Deactivated, Evicted
<1>. QED  BY <1>4, <1>5, <1>6, <1>7, <1>8, <1>9 DEF KeyIInv

(* The keys and the shredding stay as they are, the caches lose keys.      *)
LEMMA KeyUsesKeepIInv ==
    ASSUME KeyIInv, KeyTypeOK',
           UNCHANGED <<keyRow, shred, lateRotation>>,
           \A p \in Processes : \/ rotation'[p] = rotation[p]
                                \/ rotation'[p].pc # "read"
                                \/ /\ rotation'[p].latest \in Made
                                   /\ \A j \in Made : j <= rotation'[p].latest,
           \A p \in Processes : user'[p].pc # "idle" => user'[p].key \in Versions,
           lateUse \subseteq lateUse',
           \A p \in Processes : \/ dekCache'[p] \subseteq dekCache[p]
                                \/ Evicted /\ p = shred.by => p \in lateUse'
    PROVE  KeyIInv'
<1>1. Made' = Made /\ Evicted' = Evicted /\ Deactivated' = Deactivated
  BY DEF Made, Evicted, Deactivated
<1>2. NewestIsThere' /\ OneActiveKey' /\ ActiveAfterShredNeedsLateRotation'
  BY <1>1 DEF KeyIInv, NewestIsThere, OneActiveKey,
              ActiveAfterShredNeedsLateRotation
<1>3. \A p \in Processes : RotationIsSound(p)'
  BY <1>1 DEF KeyIInv, RotationIsSound
<1>4. ShredderForgets'
  <2>1. Evicted => shred.by \in Processes
    BY DEF Evicted, KeyIInv
  <2>. QED  BY <1>1, <2>1 DEF KeyIInv, ShredderForgets
<1>. QED  BY <1>2, <1>3, <1>4 DEF KeyIInv

LEMMA KeyUserStepKeepsIInv ==
    ASSUME KeyIInv, NEW p \in Processes, NEW x \in KeyUserRec,
           user' = [user EXCEPT ![p] = x],
           x.pc # "idle" => x.key \in Versions,
           dekCache' \in [Processes -> SUBSET Versions],
           lateUse' \subseteq Processes, lateUse \subseteq lateUse',
           \A q \in Processes : \/ dekCache'[q] \subseteq dekCache[q]
                                \/ Evicted /\ q = shred.by => q \in lateUse',
           UNCHANGED <<orgDeleted, keyRow, kek, rotation, shred, kmsFaults,
                       lateRotation>>
    PROVE  KeyIInv'
<1>1. /\ user' \in [Processes -> KeyUserRec] /\ user'[p] = x
      /\ \A q \in Processes \ {p} : user'[q] = user[q]
  BY KeyTypes DEF KeyIInv
<1>2. KeyTypeOK'
  BY <1>1 DEF KeyIInv, KeyTypeOK, KeyUserRec
<1>. QED  BY <1>1, <1>2, KeyUsesKeepIInv DEF KeyIInv

LEMMA UsesKeepKeyIInv ==
    ASSUME KeyIInv, NEW p \in Processes, Use(p)
    PROVE  KeyIInv'
<1>0. /\ user \in [Processes -> KeyUserRec] /\ user[p] \in KeyUserRec
      /\ user[p].pc # "idle" => user[p].key \in Versions
      /\ dekCache \in [Processes -> SUBSET Versions] /\ lateUse \subseteq Processes
  BY KeyTypes DEF KeyIInv
<1>1. Resting \in KeyUserRec /\ Resting.pc = "idle"
  BY DEF Resting, KeyUserRec
<1>2. ASSUME NEW k \in Versions, user' = [user EXCEPT ![p] = [pc |-> "resolve", key |-> k]],
             UNCHANGED <<orgDeleted, keyRow, kek, dekCache, rotation, shred,
                         kmsFaults, lateRotation, lateUse>>
      PROVE  KeyIInv'
  <2> DEFINE x == [pc |-> "resolve", key |-> k]
  <2>1. x \in KeyUserRec /\ x.key \in Versions /\ user' = [user EXCEPT ![p] = x]
    BY <1>2 DEF KeyUserRec
  <2>. HIDE DEF x
  <2>. QED  BY <1>0, <1>2, <2>1, KeyUserStepKeepsIInv
<1>3. ASSUME NEW pc \in {"unwrap", "fill"}, user[p].pc # "idle",
             user' = [user EXCEPT ![p] = [user[p] EXCEPT !.pc = pc]],
             UNCHANGED <<orgDeleted, keyRow, kek, dekCache, rotation, shred,
                         kmsFaults, lateRotation, lateUse>>
      PROVE  KeyIInv'
  <2> DEFINE x == [user[p] EXCEPT !.pc = pc]
  <2>1. x \in KeyUserRec /\ x.key \in Versions /\ user' = [user EXCEPT ![p] = x]
    BY <1>0, <1>3 DEF KeyUserRec
  <2>. HIDE DEF x
  <2>. QED  BY <1>0, <1>3, <2>1, KeyUserStepKeepsIInv
<1>4. ASSUME user' = [user EXCEPT ![p] = Resting],
             UNCHANGED <<orgDeleted, keyRow, kek, dekCache, rotation, shred,
                         kmsFaults, lateRotation, lateUse>>
      PROVE  KeyIInv'
  BY <1>0, <1>1, <1>4, KeyUserStepKeepsIInv
<1>5. CASE StartEncrypt(p)
  BY <1>2, <1>5 DEF StartEncrypt
<1>6. ASSUME NEW k \in Versions, StartDecrypt(p, k) PROVE KeyIInv'
  BY <1>2, <1>6 DEF StartDecrypt
<1>7. CASE Resolve(p)
  <2>1. CASE user[p].key \in dekCache[p]
    BY <1>0, <1>4, <1>7, <2>1 DEF Resolve
  <2>2. CASE user[p].key \notin dekCache[p]
    BY <1>0, <1>3, <1>7, <2>2 DEF Resolve
  <2>. QED  BY <2>1, <2>2
<1>8. CASE Unwrap(p)
  <2>1. CASE kek = "enabled"
    BY <1>0, <1>3, <1>8, <2>1 DEF Unwrap
  <2>2. CASE kek # "enabled"
    BY <1>0, <1>4, <1>8, <2>2 DEF Unwrap
  <2>. QED  BY <2>1, <2>2
<1>9. CASE Fill(p)
  <2>1. /\ dekCache' \in [Processes -> SUBSET Versions]
        /\ \A q \in Processes \ {p} : dekCache'[q] = dekCache[q]
    BY <1>0, <1>9 DEF Fill
  <2>2. /\ lateUse' \subseteq Processes /\ lateUse \subseteq lateUse'
        /\ Evicted /\ p = shred.by => p \in lateUse'
    BY <1>0, <1>9 DEF Fill, NoteUse
  <2>. QED  BY <1>1, <1>9, <2>1, <2>2, KeyUserStepKeepsIInv DEF Fill
<1>. QED  BY <1>5, <1>6, <1>7, <1>8, <1>9 DEF Use

LEMMA RotationReadsKeepKeyIInv ==
    ASSUME KeyIInv, NEW p \in Processes, CheckOrg(p) \/ ReadLatest(p)
    PROVE  KeyIInv'
<1>0. rotation \in [Processes -> RotationRec] /\ rotation[p] \in RotationRec
  BY KeyTypes DEF KeyIInv
<1>1. ASSUME NEW x \in RotationRec, rotation' = [rotation EXCEPT ![p] = x],
             x.pc # "read" \/ (x.latest \in Made /\ \A j \in Made : j <= x.latest),
             UNCHANGED <<orgDeleted, keyRow, kek, dekCache, user, shred, kmsFaults,
                         lateRotation, lateUse>>
      PROVE  KeyIInv'
  <2>1. /\ rotation' \in [Processes -> RotationRec] /\ rotation'[p] = x
        /\ \A q \in Processes \ {p} : rotation'[q] = rotation[q]
    BY <1>0, <1>1
  <2>2. KeyTypeOK'
    BY <1>1, <2>1 DEF KeyIInv, KeyTypeOK, RotationRec
  <2>3. \A q \in Processes :
           \/ rotation'[q] = rotation[q] \/ rotation'[q].pc # "read"
           \/ /\ rotation'[q].latest \in Made
              /\ \A j \in Made : j <= rotation'[q].latest
    BY <1>1, <2>1
  <2>4. \A q \in Processes : user'[q].pc # "idle" => user'[q].key \in Versions
    BY <1>1 DEF KeyIInv
  <2>. QED  BY <1>1, <2>2, <2>3, <2>4, KeyUsesKeepIInv
<1>2. CASE CheckOrg(p)
  <2> DEFINE x == [rotation[p] EXCEPT !.pc = "checked"]
  <2>1. x \in RotationRec /\ x.pc # "read" /\ rotation' = [rotation EXCEPT ![p] = x]
    BY <1>0, <1>2 DEF RotationRec, CheckOrg
  <2>. HIDE DEF x
  <2>. QED  BY <1>1, <1>2, <2>1 DEF CheckOrg
<1>3. CASE ReadLatest(p) /\ kek = "disabled"
  <2>1. NotRotating \in RotationRec /\ NotRotating.pc # "read"
    BY DEF NotRotating, RotationRec
  <2>. QED  BY <1>1, <1>3, <2>1 DEF ReadLatest
<1>4. CASE ReadLatest(p) /\ kek # "disabled"
  <2> DEFINE k == CHOOSE k \in Made : \A j \in Made : j <= k
             x == [pc |-> "read", latest |-> k]
  <2>1. k \in Made /\ \A j \in Made : j <= k
    BY DEF KeyIInv, NewestIsThere
  <2>2. rotation' = [rotation EXCEPT ![p] = x]
    BY <1>4 DEF ReadLatest
  <2>. HIDE DEF k
  <2>3. x \in RotationRec /\ x.latest = k
    BY <2>1 DEF RotationRec, Made
  <2>. HIDE DEF x
  <2>. QED  BY <1>1, <1>4, <2>1, <2>2, <2>3 DEF ReadLatest
<1>. QED  BY <1>2, <1>3, <1>4

(* A rotation that commits makes the newest key, and the only active one.  *)
LEMMA CommitRotationKeepsKeyIInv ==
    ASSUME KeyIInv, NEW p \in Processes, CommitRotation(p)
    PROVE  KeyIInv'
<1> DEFINE next == rotation[p].latest + 1
<1>0. /\ rotation \in [Processes -> RotationRec] /\ RotationIsSound(p)
      /\ keyRow \in [Versions -> {"none", "active", "inactive"}]
      /\ dekCache \in [Processes -> SUBSET Versions] /\ lateUse \subseteq Processes
      /\ lateRotation \in BOOLEAN
  BY KeyTypes DEF KeyIInv
<1>1. /\ rotation[p].pc = "read" /\ next \in Versions
      /\ rotation' = [rotation EXCEPT ![p] = NotRotating]
      /\ UNCHANGED <<orgDeleted, kek, user, shred, kmsFaults>>
  BY DEF CommitRotation
<1>2. /\ rotation' \in [Processes -> RotationRec]
      /\ \A q \in Processes : rotation'[q] = rotation[q] \/ rotation'[q].pc # "read"
  <2>1. NotRotating \in RotationRec /\ NotRotating.pc # "read"
    BY DEF NotRotating, RotationRec
  <2>. QED  BY <1>0, <1>1, <2>1
<1>3. CASE keyRow[next] # "none"
  <2>1. UNCHANGED <<keyRow, dekCache, lateRotation, lateUse>>
    BY <1>3 DEF CommitRotation
  <2>2. KeyTypeOK'
    BY <1>1, <1>2, <2>1 DEF KeyIInv, KeyTypeOK, RotationRec
  <2>3. \A q \in Processes : user'[q].pc # "idle" => user'[q].key \in Versions
    BY <1>1 DEF KeyIInv
  <2>. QED  BY <1>1, <1>2, <2>1, <2>2, <2>3, KeyUsesKeepIInv
<1>4. CASE keyRow[next] = "none"
  <2>1. /\ keyRow' = [k \in Versions |->
                         IF k = next THEN "active"
                         ELSE IF keyRow[k] = "active" THEN "inactive"
                         ELSE keyRow[k]]
        /\ dekCache' = [dekCache EXCEPT ![p] = dekCache[p] \cup {next}]
        /\ lateRotation' = (lateRotation \/ Deactivated)
        /\ NoteUse(p)
    BY <1>0, <1>4 DEF CommitRotation
  <2>2. /\ keyRow' \in [Versions -> {"none", "active", "inactive"}]
        /\ keyRow'[next] = "active"
        /\ \A k \in Versions \ {next} : keyRow'[k] # "active"
        /\ \A k \in Versions \ {next} : keyRow'[k] = "none" <=> keyRow[k] = "none"
    BY <1>0, <1>1, <2>1
  <2>3. dekCache' \in [Processes -> SUBSET Versions]
        /\ \A q \in Processes \ {p} : dekCache'[q] = dekCache[q]
    BY <1>0, <1>1, <2>1
  <2>4. /\ lateUse' \subseteq Processes /\ lateUse \subseteq lateUse'
        /\ Evicted /\ p = shred.by => p \in lateUse'
    BY <1>0, <2>1 DEF NoteUse
  <2>5. KeyTypeOK'
    <3>1. lateRotation' \in BOOLEAN
      BY <2>1
    <3>. QED  BY <1>1, <1>2, <2>2, <2>3, <2>4, <3>1
              DEF KeyIInv, KeyTypeOK, RotationRec
  <2>6. Made' = Made \cup {next} /\ next \notin Made
    BY <1>1, <1>4, <2>2 DEF Made
  <2>7. /\ rotation[p].latest \in Made /\ \A j \in Made : j <= rotation[p].latest
        /\ \A j \in Made' : j \in Nat
    BY <1>0, <1>1, <2>6, KeyBounds DEF RotationIsSound, Made
  <2>. HIDE DEF next
  <2>8. next \in Nat /\ rotation[p].latest < next /\ \A j \in Made' : j <= next
    BY <2>6, <2>7 DEF next
  <2>9. NewestIsThere' /\ OneActiveKey'
    BY <1>1, <2>2, <2>6, <2>8 DEF NewestIsThere, OneActiveKey, Made
  <2>10. ASSUME NEW q \in Processes PROVE RotationIsSound(q)'
    <3>. SUFFICES ASSUME rotation[q].pc = "read", rotation'[q] = rotation[q]
                  PROVE  RotationIsSound(q)'
      BY <1>2 DEF RotationIsSound
    <3>1. /\ rotation[q].latest \in Made
          /\ \/ rotation[q].latest + 1 \in Made
             \/ \A j \in Made : j <= rotation[q].latest
      BY DEF KeyIInv, RotationIsSound
    <3>2. CASE rotation[q].latest + 1 \in Made
      BY <2>6, <3>1, <3>2 DEF RotationIsSound
    <3>3. CASE \A j \in Made : j <= rotation[q].latest
      <4>1. rotation[q].latest = rotation[p].latest
        BY <2>6, <2>7, <3>1, <3>3
      <4>. QED  BY <2>6, <3>1, <4>1 DEF RotationIsSound, next
    <3>. QED  BY <3>1, <3>2, <3>3
  <2>11. Evicted' = Evicted /\ Deactivated' = Deactivated
    BY <1>1 DEF Evicted, Deactivated
  <2>12. ActiveAfterShredNeedsLateRotation'
    BY <2>1, <2>11 DEF ActiveAfterShredNeedsLateRotation
  <2>13. ShredderForgets'
    <3>1. Evicted => shred.by \in Processes
      BY DEF KeyIInv, Evicted
    <3>. QED  BY <1>1, <2>3, <2>4, <2>11, <3>1 DEF KeyIInv, ShredderForgets
  <2>. QED  BY <1>1, <2>5, <2>9, <2>10, <2>12, <2>13 DEF KeyIInv
<1>. QED  BY <1>0, <1>1, <1>3, <1>4

(* The steps of the shredding                                              *)
LEMMA ShreddingKeepsKeyIInv ==
    ASSUME KeyIInv, Shredding
    PROVE  KeyIInv'
<1>0. /\ keyRow \in [Versions -> {"none", "active", "inactive"}]
      /\ dekCache \in [Processes -> SUBSET Versions] /\ shred \in ShredRec
      /\ kmsFaults \in 0 .. MaxKmsFaults
  BY KeyTypes DEF KeyIInv
<1>1. ASSUME NEW p \in Processes, StartShred(p) PROVE KeyIInv'
  <2> DEFINE x == [shred EXCEPT !.pc = "read", !.by = p, !.keys = Made]
  <2>1. x \in ShredRec /\ x.pc = "read" /\ x.by = p /\ shred' = x
    BY <1>0, <1>1 DEF ShredRec, Made, StartShred
  <2>. HIDE DEF x
  <2>2. UNCHANGED <<orgDeleted, keyRow, kek, dekCache, user, rotation,
                    kmsFaults, lateRotation, lateUse>>
    BY <1>1 DEF StartShred
  <2>3. KeyTypeOK' /\ Made' = Made
    BY <2>1, <2>2 DEF KeyIInv, KeyTypeOK, ShredRec, Made
  <2>4. \A q \in Processes : RotationIsSound(q)'
    BY <2>2, <2>3 DEF KeyIInv, RotationIsSound
  <2>5. NewestIsThere' /\ OneActiveKey'
    BY <2>2, <2>3 DEF KeyIInv, NewestIsThere, OneActiveKey
  <2>6. ActiveAfterShredNeedsLateRotation' /\ ShredderForgets'
    BY <2>1 DEF ActiveAfterShredNeedsLateRotation, ShredderForgets, Deactivated,
                Evicted
  <2>. QED  BY <2>1, <2>2, <2>3, <2>4, <2>5, <2>6 DEF KeyIInv
<1>2. CASE Deactivate
  <2> DEFINE x == [shred EXCEPT !.pc = "deactivated"]
  <2>1. x \in ShredRec /\ x.pc = "deactivated" /\ x.by = shred.by /\ shred' = x
        /\ shred.pc = "read"
    BY <1>0, <1>2 DEF ShredRec, Deactivate
  <2>. HIDE DEF x
  <2>2. UNCHANGED <<orgDeleted, kek, dekCache, user, rotation, kmsFaults,
                    lateRotation, lateUse>>
    BY <1>2 DEF Deactivate
  <2>3. /\ keyRow' \in [Versions -> {"none", "active", "inactive"}]
        /\ \A k \in Versions : /\ keyRow'[k] # "active"
                               /\ keyRow'[k] = "none" <=> keyRow[k] = "none"
    BY <1>0, <1>2 DEF Deactivate
  <2>4. KeyTypeOK' /\ Made' = Made
    BY <2>1, <2>2, <2>3 DEF KeyIInv, KeyTypeOK, ShredRec, Made
  <2>5. \A q \in Processes : RotationIsSound(q)'
    BY <2>2, <2>4 DEF KeyIInv, RotationIsSound
  <2>6. NewestIsThere' /\ OneActiveKey' /\ ActiveAfterShredNeedsLateRotation'
    BY <2>3, <2>4 DEF KeyIInv, NewestIsThere, OneActiveKey,
                      ActiveAfterShredNeedsLateRotation
  <2>7. ShredderForgets'
    BY <2>1 DEF ShredderForgets, Evicted
  <2>. QED  BY <2>1, <2>2, <2>4, <2>5, <2>6, <2>7 DEF KeyIInv
<1>3. CASE Evict
  <2> DEFINE x == [shred EXCEPT !.pc = "evicted"]
  <2>1. /\ x \in ShredRec /\ x.pc = "evicted" /\ x.by = shred.by
        /\ x.keys = shred.keys /\ shred' = x /\ shred.pc = "deactivated"
    BY <1>0, <1>3 DEF ShredRec, Evict
  <2>. HIDE DEF x
  <2>2. UNCHANGED <<orgDeleted, keyRow, kek, user, rotation, kmsFaults,
                    lateRotation, lateUse>>
    BY <1>3 DEF Evict
  <2>3. shred.by \in Processes
    BY <2>1 DEF KeyIInv
  <2>4. /\ dekCache' \in [Processes -> SUBSET Versions]
        /\ dekCache'[shred.by] = dekCache[shred.by] \ shred.keys
    BY <1>0, <1>3, <2>3 DEF Evict
  <2>5. KeyTypeOK' /\ Made' = Made
    BY <2>1, <2>2, <2>4 DEF KeyIInv, KeyTypeOK, ShredRec, Made
  <2>6. \A q \in Processes : RotationIsSound(q)'
    BY <2>2, <2>5 DEF KeyIInv, RotationIsSound
  <2>7. NewestIsThere' /\ OneActiveKey' /\ ActiveAfterShredNeedsLateRotation'
    BY <2>1, <2>2, <2>5 DEF KeyIInv, NewestIsThere, OneActiveKey,
                       ActiveAfterShredNeedsLateRotation, Deactivated
  <2>8. ShredderForgets'
    BY <2>1, <2>4 DEF ShredderForgets
  <2>. QED  BY <2>1, <2>2, <2>5, <2>6, <2>7, <2>8 DEF KeyIInv
<1>4. CASE DisableKek
  <2>1. /\ shred.pc = "evicted" /\ shred' \in ShredRec /\ shred'.pc = "done"
        /\ shred'.by = shred.by /\ shred'.keys = shred.keys
        /\ kek' \in {"enabled", "disabled"} /\ kmsFaults' \in 0 .. MaxKmsFaults
        /\ UNCHANGED <<orgDeleted, keyRow, dekCache, user, rotation,
                       lateRotation, lateUse>>
    <3>1. kek' \in {"enabled", "disabled"} /\ kmsFaults' \in 0 .. MaxKmsFaults
      BY <1>0, <1>4, KeyBounds DEF DisableKek, KeyIInv, KeyTypeOK
    <3>2. \/ shred' = [shred EXCEPT !.pc = "done"]
          \/ shred' = [shred EXCEPT !.pc = "done", !.failed = TRUE]
      BY <1>4 DEF DisableKek
    <3>. QED  BY <1>0, <1>4, <3>1, <3>2 DEF DisableKek, ShredRec
  <2>2. KeyTypeOK' /\ Made' = Made
    BY <2>1 DEF KeyIInv, KeyTypeOK, ShredRec, Made
  <2>3. \A q \in Processes : RotationIsSound(q)'
    BY <2>1, <2>2 DEF KeyIInv, RotationIsSound
  <2>4. NewestIsThere' /\ OneActiveKey' /\ ActiveAfterShredNeedsLateRotation'
    BY <2>1, <2>2 DEF KeyIInv, NewestIsThere, OneActiveKey,
                      ActiveAfterShredNeedsLateRotation, Deactivated
  <2>5. ShredderForgets'
    BY <2>1 DEF KeyIInv, ShredderForgets, Evicted
  <2>. QED  BY <2>1, <2>2, <2>3, <2>4, <2>5 DEF KeyIInv
<1>. QED  BY <1>1, <1>2, <1>3, <1>4 DEF Shredding

LEMMA KeyStepKeepsIInv == KeyIInv /\ [KeyNext]_keyVars => KeyIInv'
<1>. SUFFICES ASSUME KeyIInv, [KeyNext]_keyVars PROVE KeyIInv'
  OBVIOUS
<1>0. KeyTypeOK /\ dekCache \in [Processes -> SUBSET Versions]
      /\ \A q \in Processes : user[q].pc # "idle" => user[q].key \in Versions
  BY KeyTypes DEF KeyIInv
<1>1. ASSUME NEW p \in Processes, NEW k \in Versions, Expire(p, k) PROVE KeyIInv'
  <2>1. /\ dekCache' \in [Processes -> SUBSET Versions]
        /\ \A q \in Processes : dekCache'[q] \subseteq dekCache[q]
        /\ UNCHANGED <<orgDeleted, keyRow, kek, user, rotation, shred, kmsFaults,
                       lateRotation, lateUse>>
    BY <1>0, <1>1 DEF Expire
  <2>2. KeyTypeOK'
    BY <1>0, <2>1 DEF KeyTypeOK
  <2>. QED  BY <1>0, <2>1, <2>2, KeyUsesKeepIInv
<1>2. CASE SoftDelete
  <2>1. UNCHANGED <<keyRow, kek, dekCache, user, rotation, shred, kmsFaults,
                    lateRotation, lateUse>> /\ orgDeleted' = TRUE
    BY <1>2 DEF SoftDelete
  <2>2. KeyTypeOK'
    BY <1>0, <2>1 DEF KeyTypeOK
  <2>. QED  BY <1>0, <2>1, <2>2, KeyUsesKeepIInv
<1>3. CASE UNCHANGED keyVars
  <2>1. KeyTypeOK'
    BY <1>0, <1>3 DEF keyVars, KeyTypeOK
  <2>. QED  BY <1>0, <1>3, <2>1, KeyUsesKeepIInv DEF keyVars
<1>. QED  BY <1>1, <1>2, <1>3, UsesKeepKeyIInv, RotationReadsKeepKeyIInv,
            CommitRotationKeepsKeyIInv, ShreddingKeepsKeyIInv DEF KeyNext

-----------------------------------------------------------------------------
(***************************************************************************)
(* Erasure                                                                 *)
(***************************************************************************)

RequestStates == {"none", "PENDING", "PROCESSING", "COMPLETED", "FAILED"}
RecordRec == [holds : Contents, hashed : BOOLEAN, raw : BOOLEAN]
ProcessingRec ==
    [pc : {"idle", "begin", "applications", "enrichments", "abort"},
     of : Requests \cup {NoRequest}, found : SUBSET Records]

ErasureTypes ==
    /\ request \in [Requests -> RequestStates]
    /\ counted \in [Requests -> 0 .. Cardinality(Records)]
    /\ asking \in Nat
    /\ record \in [Records -> RecordRec]
    /\ processing \in [Processors -> ProcessingRec]
    /\ held \subseteq Applications \X {"v1", "zero"}
    /\ erasureFaults \in 0 .. MaxErasureFaults
    /\ racingSubmits \in BOOLEAN
    /\ overlapped \subseteq Requests
    /\ missed \subseteq Records /\ rewritten \subseteq Records

Fresh == {q \in Requests : request[q] = "none"}

(* Every submission that asks has a request to make, and if no two asked   *)
(* at once, there is at most one and no open request beside it.            *)
AskingIsSound ==
    /\ asking <= Cardinality(Fresh)
    /\ ~racingSubmits =>
          /\ asking <= 1
          /\ asking = 1 => \A q \in Requests : request[q] # "PENDING"

(* A processor has a request to itself, and to none that is completed, but *)
(* for overlaps.                                                           *)
RequestsAreHeldOpenly ==
    /\ \A p \in Processors :
          /\ processing[p].pc = "idle" <=> processing[p].of = NoRequest
          /\ processing[p].of \in Requests => request[processing[p].of] # "none"
    /\ \A p, o \in Processors :
          processing[p].of = processing[o].of =>
              p = o \/ processing[p].of \in overlapped \cup {NoRequest}
    /\ \A q \in Requests : request[q] = "COMPLETED" /\ q \notin overlapped =>
          \A p \in Processors : processing[p].of # q

Live(r) == record[r].hashed \/ record[r].holds \in {"v1", "v2"}

(* Only the re-encryption worker brings data back without its hash.        *)
RecordIsSound(r) ==
    /\ record[r].hashed => record[r].holds \in {"v1", "v2"}
    /\ Live(r) /\ ~record[r].hashed => r \in rewritten

CopiesAreOfRecords ==
    \A a \in Applications, h \in {"v1", "zero"} :
        <<a, h>> \in held => record[a].holds # "none"

(* What a transaction has not found came later or was written back.        *)
ScanIsComplete(p) ==
    /\ processing[p].pc = "applications" =>
          \A a \in Applications :
              Live(a) => a \in processing[p].found \cup missed \cup rewritten
    /\ processing[p].pc = "enrichments" =>
          \A r \in Records :
              Live(r) => r \in processing[p].found \cup missed \cup rewritten

ErasureIInv ==
    /\ ErasureTypes
    /\ AskingIsSound /\ OneOpenRequest
    /\ RequestsAreHeldOpenly
    /\ \A r \in Records : RecordIsSound(r)
    /\ CopiesAreOfRecords
    /\ \A p \in Processors : ScanIsComplete(p)
    /\ CompletedMeansErased

LEMMA ErasureBounds ==
    /\ IsFiniteSet(Requests) /\ IsFiniteSet(Records)
    /\ Cardinality(Requests) \in Nat /\ Cardinality(Records) \in Nat
    /\ NoRequest \notin Requests /\ MaxErasureFaults \in Nat
    /\ Enrichments \cap Applications = {} /\ Applications \subseteq Records
BY ErasureOptions, FS_Union, FS_CardinalityType DEF Records

LEMMA UnworkedIsIdle ==
    Unworked \in ProcessingRec /\ Unworked.pc = "idle" /\ Unworked.of = NoRequest
BY DEF Unworked, ProcessingRec

LEMMA FreshIsFinite ==
    IsFiniteSet(Fresh) /\ Cardinality(Fresh) \in Nat
    /\ Cardinality(Fresh) <= Cardinality(Requests)
<1>1. Fresh \in SUBSET Requests
  BY DEF Fresh
<1>. QED  BY <1>1, ErasureBounds, FS_Subset, FS_CardinalityType

LEMMA ErasureIInvIsEnough == ErasureIInv => ErasuresAreSound
<1>. SUFFICES ASSUME ErasureIInv PROVE ErasuresAreSound
  OBVIOUS
<1>1. asking \in 0 .. Cardinality(Requests)
  BY FreshIsFinite, ErasureBounds DEF ErasureIInv, ErasureTypes, AskingIsSound
<1>2. ErasureTypeOK
  BY <1>1 DEF ErasureIInv, ErasureTypes, ErasureTypeOK, RequestStates, RecordRec,
              ProcessingRec
<1>. QED  BY <1>2 DEF ErasureIInv, ErasuresAreSound

LEMMA ErasureInitIInv == ErasureInit => ErasureIInv
<1>. SUFFICES ASSUME ErasureInit PROVE ErasureIInv
  OBVIOUS
<1>1. PICK n \in Applications \cup {0} :
         record = [r \in Records |->
                      IF r \in Applications /\ r <= n
                      THEN [holds |-> "v1", hashed |-> TRUE, raw |-> FALSE]
                      ELSE Absent]
  BY DEF ErasureInit
<1>2. \A r \in Records : /\ record[r] \in RecordRec
                         /\ record[r].hashed <=> record[r].holds \in {"v1", "v2"}
  <2>1. /\ [holds |-> "v1", hashed |-> TRUE, raw |-> FALSE] \in RecordRec
        /\ Absent \in RecordRec /\ Absent.holds = "none" /\ ~Absent.hashed
    BY DEF RecordRec, Contents, Absent
  <2>. QED  BY <1>1, <2>1
<1>3. record \in [Records -> RecordRec]
  BY <1>1, <1>2
<1>4. \A p \in Processors : processing[p] = Unworked
  BY DEF ErasureInit
<1>5. ErasureTypes
  <2>1. /\ request \in [Requests -> RequestStates]
        /\ processing \in [Processors -> ProcessingRec]
    BY UnworkedIsIdle DEF ErasureInit, RequestStates
  <2>2. /\ counted \in [Requests -> 0 .. Cardinality(Records)]
        /\ erasureFaults \in 0 .. MaxErasureFaults
    BY ErasureBounds DEF ErasureInit
  <2>. QED  BY <1>3, <2>1, <2>2 DEF ErasureInit, ErasureTypes
<1>6. AskingIsSound /\ OneOpenRequest
  BY FreshIsFinite DEF ErasureInit, AskingIsSound, OneOpenRequest
<1>7. RequestsAreHeldOpenly /\ \A p \in Processors : ScanIsComplete(p)
  BY <1>4, UnworkedIsIdle, ErasureBounds
     DEF RequestsAreHeldOpenly, ScanIsComplete, ErasureInit
<1>8. \A r \in Records : RecordIsSound(r)
  BY <1>2 DEF RecordIsSound, Live
<1>9. CopiesAreOfRecords /\ CompletedMeansErased
  BY DEF CopiesAreOfRecords, CompletedMeansErased, ErasureInit
<1>. QED  BY <1>5, <1>6, <1>7, <1>8, <1>9 DEF ErasureIInv

(* A processor goes on with its request, or leaves it undecided.           *)
LEMMA ProcessorStepKeepsErasureIInv ==
    ASSUME ErasureIInv, NEW p \in Processors, NEW x \in ProcessingRec,
           processing' = [processing EXCEPT ![p] = x],
           x = Unworked \/ (x.of = processing[p].of /\ x.pc # "idle"
                            /\ processing[p].pc # "idle"),
           x.pc = "applications" =>
               \A a \in Applications : Live(a) => a \in x.found \cup missed \cup rewritten,
           x.pc = "enrichments" =>
               \A r \in Records : Live(r) => r \in x.found \cup missed \cup rewritten,
           UNCHANGED <<request, counted, asking, record, held, racingSubmits,
                       overlapped, missed, rewritten>>,
           erasureFaults' \in 0 .. MaxErasureFaults
    PROVE  ErasureIInv'
<1>1. /\ processing' \in [Processors -> ProcessingRec] /\ processing'[p] = x
      /\ \A o \in Processors \ {p} : processing'[o] = processing[o]
  BY DEF ErasureIInv, ErasureTypes
<1>2. ErasureTypes'
  BY <1>1 DEF ErasureIInv, ErasureTypes
<1>3. AskingIsSound' /\ OneOpenRequest' /\ CompletedMeansErased' /\ CopiesAreOfRecords'
  BY DEF ErasureIInv, AskingIsSound, Fresh, OneOpenRequest, CompletedMeansErased,
         CopiesAreOfRecords
<1>4. \A r \in Records : RecordIsSound(r)' /\ (Live(r)' <=> Live(r))
  BY DEF ErasureIInv, RecordIsSound, Live
<1>5. ASSUME NEW o \in Processors PROVE ScanIsComplete(o)'
  <2>1. CASE o = p
    BY <1>1, <1>4, <2>1, ErasureBounds DEF ScanIsComplete
  <2>2. CASE o # p
    BY <1>1, <1>4, <2>2, ErasureBounds DEF ErasureIInv, ScanIsComplete
  <2>. QED  BY <2>1, <2>2
<1>6. RequestsAreHeldOpenly'
  BY <1>1, UnworkedIsIdle, ErasureBounds DEF ErasureIInv, RequestsAreHeldOpenly
<1>. QED  BY <1>2, <1>3, <1>4, <1>5, <1>6 DEF ErasureIInv

LEMMA TakeUpKeepsErasureIInv ==
    ASSUME ErasureIInv, NEW p \in Processors, NEW q \in Requests, Process(p, q)
    PROVE  ErasureIInv'
<1> DEFINE x == [Unworked EXCEPT !.pc = "begin", !.of = q]
<1>1. x \in ProcessingRec /\ x.pc = "begin" /\ x.of = q
  BY DEF ProcessingRec, Unworked
<1>2. /\ request[q] # "COMPLETED" /\ request[q] # "none"
      /\ processing' = [processing EXCEPT ![p] = x]
      /\ overlapped' = IF \E o \in Processors : processing[o].of = q
                       THEN overlapped \cup {q} ELSE overlapped
      /\ UNCHANGED <<request, counted, asking, record, held, erasureFaults,
                     racingSubmits, missed, rewritten>>
  BY DEF Process, TakeUp
<1>. HIDE DEF x
<1>3. /\ processing' \in [Processors -> ProcessingRec] /\ processing'[p] = x
      /\ \A o \in Processors \ {p} : processing'[o] = processing[o]
  BY <1>1, <1>2 DEF ErasureIInv, ErasureTypes
<1>4. ErasureTypes'
  BY <1>2, <1>3 DEF ErasureIInv, ErasureTypes
<1>5. AskingIsSound' /\ OneOpenRequest' /\ CompletedMeansErased' /\ CopiesAreOfRecords'
  BY <1>2 DEF ErasureIInv, AskingIsSound, Fresh, OneOpenRequest,
              CompletedMeansErased, CopiesAreOfRecords
<1>6. \A r \in Records : RecordIsSound(r)' /\ (Live(r)' <=> Live(r))
  BY <1>2 DEF ErasureIInv, RecordIsSound, Live
<1>7. ASSUME NEW o \in Processors PROVE ScanIsComplete(o)'
  <2>1. CASE o = p
    BY <1>1, <1>3, <2>1 DEF ScanIsComplete
  <2>2. CASE o # p
    BY <1>2, <1>3, <1>6, <2>2, ErasureBounds DEF ErasureIInv, ScanIsComplete
  <2>. QED  BY <2>1, <2>2
<1>8. RequestsAreHeldOpenly'
  <2>1. ASSUME NEW o \in Processors
        PROVE  /\ processing'[o].pc = "idle" <=> processing'[o].of = NoRequest
               /\ processing'[o].of \in Requests => request'[processing'[o].of] # "none"
    BY <1>1, <1>2, <1>3, ErasureBounds DEF ErasureIInv, RequestsAreHeldOpenly
  <2>2. ASSUME NEW o \in Processors, NEW b \in Processors,
               processing'[o].of = processing'[b].of, o # b
        PROVE  processing'[o].of \in overlapped' \cup {NoRequest}
    <3>1. CASE o # p /\ b # p
      BY <1>2, <1>3, <2>2, <3>1 DEF ErasureIInv, RequestsAreHeldOpenly
    <3>2. CASE o = p \/ b = p
      BY <1>1, <1>2, <1>3, <2>2, <3>2
    <3>. QED  BY <3>1, <3>2
  <2>3. ASSUME NEW r \in Requests, request'[r] = "COMPLETED", r \notin overlapped',
               NEW o \in Processors
        PROVE  processing'[o].of # r
    <3>1. r # q /\ r \notin overlapped /\ request[r] = "COMPLETED"
      BY <1>2, <2>3
    <3>. QED  BY <1>1, <1>3, <3>1 DEF ErasureIInv, RequestsAreHeldOpenly
  <2>. QED  BY <2>1, <2>2, <2>3 DEF RequestsAreHeldOpenly
<1>. QED  BY <1>4, <1>5, <1>6, <1>7, <1>8 DEF ErasureIInv

(* The transactions' reads, aborts and deaths                              *)
LEMMA TransactionsKeepErasureIInv ==
    ASSUME ErasureIInv, NEW p \in Processors,
           ScanApplications(p) \/ ScanEnrichments(p) \/ AbortErasure(p)
               \/ ProcessorDies(p)
    PROVE  ErasureIInv'
<1>0. /\ processing \in [Processors -> ProcessingRec] /\ processing[p] \in ProcessingRec
      /\ erasureFaults \in 0 .. MaxErasureFaults
      /\ \A r \in Records : RecordIsSound(r)
  BY DEF ErasureIInv, ErasureTypes
<1>1. /\ UNCHANGED <<request, counted, asking, record, held, racingSubmits,
                     overlapped, missed, rewritten>>
      /\ erasureFaults' \in 0 .. MaxErasureFaults
  BY <1>0, ErasureBounds
     DEF ScanApplications, ScanEnrichments, AbortErasure, ProcessorDies,
         ErasureFault
<1>2. CASE ScanApplications(p)
  <2> DEFINE x == [processing[p] EXCEPT !.pc = "applications",
                                        !.found = LiveApplications]
  <2>1. LiveApplications \subseteq Records
    BY ErasureBounds DEF LiveApplications
  <2>2. /\ x \in ProcessingRec /\ x.pc = "applications"
        /\ x.found = LiveApplications /\ x.of = processing[p].of
    BY <1>0, <2>1 DEF ProcessingRec
  <2>3. processing' = [processing EXCEPT ![p] = x] /\ processing[p].pc = "begin"
    BY <1>0, <1>2 DEF ScanApplications
  <2>. HIDE DEF x
  <2>4. \A a \in Applications : Live(a) => a \in x.found \cup missed \cup rewritten
    BY <1>0, <2>2, ErasureBounds DEF LiveApplications, RecordIsSound
  <2>. QED  BY <1>1, <2>2, <2>3, <2>4, ProcessorStepKeepsErasureIInv
<1>3. CASE ScanEnrichments(p)
  <2> DEFINE f == processing[p].found \cup LiveEnrichments
             x == [processing[p] EXCEPT !.pc = "enrichments", !.found = f]
  <2>1. f \subseteq Records
    BY <1>0 DEF LiveEnrichments, Records, ProcessingRec
  <2>2. /\ x \in ProcessingRec /\ x.pc = "enrichments" /\ x.found = f
        /\ x.of = processing[p].of
    BY <1>0, <2>1 DEF ProcessingRec
  <2>3. processing' = [processing EXCEPT ![p] = x] /\ processing[p].pc = "applications"
    BY <1>0, <1>3 DEF ScanEnrichments
  <2>. HIDE DEF x
  <2>4. \A r \in Records : Live(r) => r \in x.found \cup missed \cup rewritten
    <3>. SUFFICES ASSUME NEW r \in Records, Live(r)
                  PROVE  r \in x.found \cup missed \cup rewritten
      OBVIOUS
    <3>1. CASE r \in Applications
      BY <2>2, <2>3, <3>1 DEF ErasureIInv, ScanIsComplete
    <3>2. CASE r \in Enrichments
      BY <1>0, <2>2, <3>2 DEF LiveEnrichments, RecordIsSound
    <3>. QED  BY <3>1, <3>2 DEF Records
  <2>. QED  BY <1>1, <2>2, <2>3, <2>4, ProcessorStepKeepsErasureIInv
<1>4. CASE AbortErasure(p)
  <2> DEFINE x == [processing[p] EXCEPT !.pc = "abort", !.found = {}]
  <2>1. x \in ProcessingRec /\ x.pc = "abort" /\ x.of = processing[p].of
    BY <1>0 DEF ProcessingRec
  <2>2. processing' = [processing EXCEPT ![p] = x] /\ processing[p].pc # "idle"
    BY <1>0, <1>4 DEF AbortErasure, InTransaction
  <2>. HIDE DEF x
  <2>. QED  BY <1>1, <2>1, <2>2, ProcessorStepKeepsErasureIInv
<1>5. CASE ProcessorDies(p)
  BY <1>1, <1>5, UnworkedIsIdle, ProcessorStepKeepsErasureIInv DEF ProcessorDies
<1>. QED  BY <1>2, <1>3, <1>4, <1>5

(* A request is decided, by a processor that then leaves it.               *)
LEMMA DecisionKeepsErasureIInv ==
    ASSUME ErasureIInv, NEW p \in Processors, NEW q \in Requests,
           NEW status \in {"COMPLETED", "FAILED"},
           processing[p].of = q, processing' = [processing EXCEPT ![p] = Unworked],
           request' = [request EXCEPT ![q] = status]
    PROVE  /\ processing' \in [Processors -> ProcessingRec]
           /\ processing'[p].pc = "idle"
           /\ \A o \in Processors \ {p} : processing'[o] = processing[o]
           /\ request' \in [Requests -> RequestStates] /\ request'[q] = status
           /\ \A r \in Requests \ {q} : request'[r] = request[r]
           /\ UNCHANGED <<asking, racingSubmits>> => AskingIsSound' /\ OneOpenRequest'
           /\ UNCHANGED overlapped => RequestsAreHeldOpenly'
<1>1. /\ processing' \in [Processors -> ProcessingRec] /\ processing'[p] = Unworked
      /\ \A o \in Processors \ {p} : processing'[o] = processing[o]
  BY UnworkedIsIdle DEF ErasureIInv, ErasureTypes
<1>2. /\ request' \in [Requests -> RequestStates] /\ request'[q] = status
      /\ \A r \in Requests \ {q} : request'[r] = request[r]
  BY DEF ErasureIInv, ErasureTypes, RequestStates
<1>3. ASSUME UNCHANGED <<asking, racingSubmits>> PROVE AskingIsSound' /\ OneOpenRequest'
  <2>1. request[q] # "none"
    BY DEF ErasureIInv, RequestsAreHeldOpenly
  <2>2. Fresh' = Fresh
    BY <1>2, <2>1 DEF Fresh
  <2>. QED  BY <1>2, <1>3, <2>2 DEF ErasureIInv, AskingIsSound, OneOpenRequest
<1>4. ASSUME UNCHANGED overlapped PROVE RequestsAreHeldOpenly'
  <2>1. ASSUME NEW o \in Processors
        PROVE  /\ processing'[o].pc = "idle" <=> processing'[o].of = NoRequest
               /\ processing'[o].of \in Requests => request'[processing'[o].of] # "none"
    BY <1>1, <1>2, UnworkedIsIdle, ErasureBounds DEF ErasureIInv, RequestsAreHeldOpenly
  <2>2. ASSUME NEW o \in Processors, NEW b \in Processors,
               processing'[o].of = processing'[b].of, o # b
        PROVE  processing'[o].of \in overlapped \cup {NoRequest}
    BY <1>1, <2>2, UnworkedIsIdle DEF ErasureIInv, RequestsAreHeldOpenly
  <2>3. ASSUME NEW r \in Requests, request'[r] = "COMPLETED", r \notin overlapped,
               NEW o \in Processors
        PROVE  processing'[o].of # r
    <3>1. CASE r = q
      BY <1>1, <2>3, <3>1, UnworkedIsIdle, ErasureBounds
         DEF ErasureIInv, RequestsAreHeldOpenly
    <3>2. CASE r # q
      BY <1>1, <1>2, <2>3, <3>2, UnworkedIsIdle, ErasureBounds
         DEF ErasureIInv, RequestsAreHeldOpenly
    <3>. QED  BY <3>1, <3>2
  <2>. QED  BY <1>4, <2>1, <2>2, <2>3 DEF RequestsAreHeldOpenly
<1>. QED  BY <1>1, <1>2, <1>3, <1>4, UnworkedIsIdle

LEMMA CommitKeepsErasureIInv ==
    ASSUME ErasureIInv, NEW p \in Processors, CommitErasure(p)
    PROVE  ErasureIInv'
<1>0. /\ processing \in [Processors -> ProcessingRec] /\ processing[p] \in ProcessingRec
      /\ record \in [Records -> RecordRec]
  BY DEF ErasureIInv, ErasureTypes
<1>1. /\ processing[p].pc = "enrichments"
      /\ processing' = [processing EXCEPT ![p] = Unworked]
      /\ rewritten' = rewritten \ processing[p].found
      /\ UNCHANGED <<asking, held, erasureFaults, racingSubmits, overlapped, missed>>
  BY DEF CommitErasure
<1>2. PICK q \in Requests : q = processing[p].of
  BY <1>0, <1>1 DEF ErasureIInv, RequestsAreHeldOpenly, ProcessingRec
<1>3. PICK found \in SUBSET Records : found = processing[p].found
  BY <1>0 DEF ProcessingRec
<1>4. /\ request' = [request EXCEPT ![q] = "COMPLETED"]
      /\ counted' = [counted EXCEPT ![q] = Cardinality(found)]
      /\ record' = [r \in Records |->
                       IF r \in found
                       THEN [record[r] EXCEPT !.holds = "zero", !.hashed = FALSE]
                       ELSE record[r]]
  BY <1>2, <1>3 DEF CommitErasure
<1>5. /\ processing' \in [Processors -> ProcessingRec] /\ processing'[p].pc = "idle"
      /\ \A o \in Processors \ {p} : processing'[o] = processing[o]
      /\ request' \in [Requests -> RequestStates]
      /\ AskingIsSound' /\ OneOpenRequest' /\ RequestsAreHeldOpenly'
  BY <1>1, <1>2, <1>4, DecisionKeepsErasureIInv
<1>6. Cardinality(found) \in 0 .. Cardinality(Records)
  BY ErasureBounds, FS_Subset, FS_CardinalityType
<1>7. counted' \in [Requests -> 0 .. Cardinality(Records)]
  BY <1>4, <1>6 DEF ErasureIInv, ErasureTypes
<1>8. ASSUME NEW r \in Records
      PROVE  /\ record'[r] \in RecordRec
             /\ r \in found => record'[r].holds = "zero" /\ ~record'[r].hashed
             /\ r \notin found => record'[r] = record[r]
  BY <1>0, <1>4 DEF RecordRec, Contents
<1>9. record' \in [Records -> RecordRec]
  BY <1>4, <1>8
<1>10. ErasureTypes'
  BY <1>1, <1>3, <1>5, <1>7, <1>9 DEF ErasureIInv, ErasureTypes
<1>11. \A r \in Records : Live(r)' => r \notin found /\ Live(r)
  BY <1>8 DEF Live
<1>12. \A r \in Records : RecordIsSound(r)'
  BY <1>1, <1>3, <1>8, <1>11 DEF ErasureIInv, RecordIsSound, Live
<1>13. CopiesAreOfRecords'
  BY <1>1, <1>8, ErasureBounds DEF ErasureIInv, CopiesAreOfRecords
<1>14. ASSUME NEW o \in Processors PROVE ScanIsComplete(o)'
  <2>1. CASE o = p
    BY <1>5, <2>1 DEF ScanIsComplete
  <2>2. CASE o # p
    BY <1>1, <1>3, <1>5, <1>11, <2>2, ErasureBounds DEF ErasureIInv, ScanIsComplete
  <2>. QED  BY <2>1, <2>2
<1>15. CompletedMeansErased'
  <2>. SUFFICES ASSUME NEW r \in Records, Live(r)'
                PROVE  r \in missed' \cup rewritten'
    BY DEF CompletedMeansErased, Live
  <2>1. r \notin found /\ Live(r)
    BY <1>11
  <2>2. r \in found \cup missed \cup rewritten
    BY <1>1, <1>3, <2>1 DEF ErasureIInv, ScanIsComplete
  <2>. QED  BY <1>1, <1>3, <2>1, <2>2
<1>. QED  BY <1>5, <1>10, <1>12, <1>13, <1>14, <1>15 DEF ErasureIInv

LEMMA FailureKeepsErasureIInv ==
    ASSUME ErasureIInv, NEW p \in Processors, RecordFailure(p)
    PROVE  ErasureIInv'
<1>0. processing[p] \in ProcessingRec
  BY DEF ErasureIInv, ErasureTypes
<1>1. /\ processing[p].pc = "abort"
      /\ processing' = [processing EXCEPT ![p] = Unworked]
      /\ UNCHANGED <<counted, asking, record, held, erasureFaults,
                     racingSubmits, overlapped, missed, rewritten>>
  BY DEF RecordFailure
<1>2. PICK q \in Requests : q = processing[p].of
  BY <1>0, <1>1 DEF ErasureIInv, RequestsAreHeldOpenly, ProcessingRec
<1>3. request' = [request EXCEPT ![q] = "FAILED"]
  BY <1>2 DEF RecordFailure
<1>4. /\ processing' \in [Processors -> ProcessingRec] /\ processing'[p].pc = "idle"
      /\ \A o \in Processors \ {p} : processing'[o] = processing[o]
      /\ request' \in [Requests -> RequestStates] /\ request'[q] = "FAILED"
      /\ \A r \in Requests \ {q} : request'[r] = request[r]
      /\ AskingIsSound' /\ OneOpenRequest' /\ RequestsAreHeldOpenly'
  BY <1>1, <1>2, <1>3, DecisionKeepsErasureIInv
<1>5. ErasureTypes'
  BY <1>1, <1>4 DEF ErasureIInv, ErasureTypes
<1>6. \A r \in Records : RecordIsSound(r)' /\ (Live(r)' <=> Live(r))
  BY <1>1 DEF ErasureIInv, RecordIsSound, Live
<1>7. CopiesAreOfRecords'
  BY <1>1 DEF ErasureIInv, CopiesAreOfRecords
<1>8. ASSUME NEW o \in Processors PROVE ScanIsComplete(o)'
  <2>1. CASE o = p
    BY <1>4, <2>1 DEF ScanIsComplete
  <2>2. CASE o # p
    BY <1>1, <1>4, <1>6, <2>2, ErasureBounds DEF ErasureIInv, ScanIsComplete
  <2>. QED  BY <2>1, <2>2
<1>9. CompletedMeansErased'
  BY <1>1, <1>4 DEF ErasureIInv, CompletedMeansErased
<1>. QED  BY <1>4, <1>5, <1>6, <1>7, <1>8, <1>9 DEF ErasureIInv

(* A submission looks for open requests, and then makes one.               *)
LEMMA SubmissionsKeepErasureIInv ==
    ASSUME ErasureIInv, Ask \/ \E q \in Requests : Submit(q)
    PROVE  ErasureIInv'
<1>0. asking \in Nat /\ asking <= Cardinality(Fresh) /\ racingSubmits \in BOOLEAN
      /\ request \in [Requests -> RequestStates]
  BY DEF ErasureIInv, ErasureTypes, AskingIsSound
<1>1. UNCHANGED <<counted, record, processing, held, erasureFaults, overlapped,
                  missed, rewritten>>
  BY DEF Ask, Submit
<1>2. /\ \A r \in Records : RecordIsSound(r)'
      /\ \A p \in Processors : ScanIsComplete(p)'
      /\ CopiesAreOfRecords'
  BY <1>1 DEF ErasureIInv, RecordIsSound, ScanIsComplete, Live, CopiesAreOfRecords
<1>3. CASE Ask
  <2>1. /\ asking < Cardinality(Fresh) /\ asking' = asking + 1
        /\ \A q \in Requests : request[q] # "PENDING"
        /\ racingSubmits' = (racingSubmits \/ asking > 0)
        /\ request' = request
    BY <1>3 DEF Ask, Fresh
  <2>2. ErasureTypes'
    BY <1>0, <1>1, <2>1 DEF ErasureIInv, ErasureTypes
  <2>3. AskingIsSound'
    <3>1. Fresh' = Fresh
      BY <2>1 DEF Fresh
    <3>2. asking + 1 <= Cardinality(Fresh)
      BY <1>0, <2>1, FreshIsFinite
    <3>3. ~racingSubmits' => ~(asking > 0)
      BY <2>1, Zenon
    <3>4. ~racingSubmits' => asking' = 1
      BY <1>0, <2>1, <3>3
    <3>. QED  BY <2>1, <3>1, <3>2, <3>4 DEF AskingIsSound
  <2>4. OneOpenRequest' /\ RequestsAreHeldOpenly' /\ CompletedMeansErased'
    BY <1>1, <2>1 DEF ErasureIInv, OneOpenRequest, RequestsAreHeldOpenly,
                      CompletedMeansErased
  <2>. QED  BY <1>2, <2>2, <2>3, <2>4 DEF ErasureIInv
<1>4. ASSUME NEW q \in Requests, Submit(q) PROVE ErasureIInv'
  <2>1. /\ asking > 0 /\ request[q] = "none" /\ asking' = asking - 1
        /\ request' = [request EXCEPT ![q] = "PENDING"]
        /\ UNCHANGED racingSubmits
    BY <1>4 DEF Submit
  <2>2. /\ request' \in [Requests -> RequestStates] /\ request'[q] = "PENDING"
        /\ \A r \in Requests \ {q} : request'[r] = request[r]
    BY <1>0, <2>1 DEF RequestStates
  <2>3. ErasureTypes'
    BY <1>0, <1>1, <2>1, <2>2 DEF ErasureIInv, ErasureTypes
  <2>4. AskingIsSound'
    <3>1. Fresh' = Fresh \ {q} /\ q \in Fresh
      BY <2>1, <2>2 DEF Fresh
    <3>2. Cardinality(Fresh \ {q}) = Cardinality(Fresh) - 1
      BY <3>1, FreshIsFinite, FS_RemoveElement
    <3>3. asking' <= Cardinality(Fresh')
      BY <1>0, <2>1, <3>1, <3>2, FreshIsFinite
    <3>4. ~racingSubmits => asking' = 0
      BY <1>0, <2>1 DEF ErasureIInv, AskingIsSound
    <3>. QED  BY <2>1, <3>3, <3>4 DEF AskingIsSound
  <2>5. OneOpenRequest'
    <3>1. ~racingSubmits => asking = 1
      BY <1>0, <2>1 DEF ErasureIInv, AskingIsSound
    <3>2. ~racingSubmits => \A r \in Requests : request[r] # "PENDING"
      BY <3>1 DEF ErasureIInv, AskingIsSound
    <3>. QED  BY <2>1, <2>2, <3>2 DEF OneOpenRequest
  <2>6. RequestsAreHeldOpenly' /\ CompletedMeansErased'
    BY <1>1, <2>1, <2>2 DEF ErasureIInv, RequestsAreHeldOpenly, CompletedMeansErased
  <2>. QED  BY <1>2, <2>3, <2>4, <2>5, <2>6 DEF ErasureIInv
<1>. QED  BY <1>3, <1>4

(* A record comes, or is written back from a copy: excused if that happens *)
(* while somebody erases or after.                                         *)
LEMMA RecordsKeepErasureIInv ==
    ASSUME ErasureIInv, NEW r \in Records, NEW x \in RecordRec,
           record' = [record EXCEPT ![r] = x],
           x.holds = "v2",
           x.hashed \/ r \in rewritten',
           missed \subseteq missed', missed' \subseteq Records,
           rewritten \subseteq rewritten', rewritten' \subseteq Records,
           held' \subseteq held,
           \/ Live(r)
           \/ r \in rewritten'
           \/ /\ \A p \in Processors :
                    /\ processing[p].pc = "applications" =>
                          r \in missed' \/ r \notin Applications
                    /\ processing[p].pc = "enrichments" => r \in missed'
              /\ \A q \in Requests : request[q] = "COMPLETED" => r \in missed',
           UNCHANGED <<request, counted, asking, processing, erasureFaults,
                       racingSubmits, overlapped>>
    PROVE  ErasureIInv'
<1>1. /\ record' \in [Records -> RecordRec] /\ record'[r] = x
      /\ \A s \in Records \ {r} : record'[s] = record[s]
  BY DEF ErasureIInv, ErasureTypes
<1>2. ErasureTypes'
  BY <1>1 DEF ErasureIInv, ErasureTypes
<1>3. AskingIsSound' /\ OneOpenRequest' /\ RequestsAreHeldOpenly'
  BY DEF ErasureIInv, AskingIsSound, Fresh, OneOpenRequest, RequestsAreHeldOpenly
<1>4. \A s \in Records \ {r} : Live(s)' <=> Live(s)
  BY <1>1 DEF Live
<1>5. \A s \in Records : RecordIsSound(s)'
  BY <1>1, <1>4 DEF ErasureIInv, RecordIsSound, Live
<1>6. CopiesAreOfRecords'
  BY <1>1, ErasureBounds DEF ErasureIInv, CopiesAreOfRecords
<1>7. ASSUME NEW p \in Processors PROVE ScanIsComplete(p)'
  BY <1>1, <1>4, ErasureBounds DEF ErasureIInv, ScanIsComplete
<1>8. CompletedMeansErased'
  <2>. SUFFICES ASSUME NEW q \in Requests, request[q] = "COMPLETED",
                       NEW s \in Records, Live(s)'
                PROVE  s \in missed' \cup rewritten'
    BY DEF CompletedMeansErased, Live
  <2>1. Live(s) => s \in missed \cup rewritten
    BY DEF ErasureIInv, CompletedMeansErased, Live
  <2>. QED  BY <1>4, <2>1
<1>. QED  BY <1>2, <1>3, <1>5, <1>6, <1>7, <1>8 DEF ErasureIInv

(* The re-encryption worker's copies come and go.                          *)
LEMMA CopiesKeepErasureIInv ==
    ASSUME ErasureIInv,
           held' \subseteq Applications \X {"v1", "zero"},
           \A a \in Applications, h \in {"v1", "zero"} :
               <<a, h>> \in held' => <<a, h>> \in held \/ record[a].holds # "none",
           erasureFaults' \in 0 .. MaxErasureFaults,
           UNCHANGED <<request, counted, asking, record, processing,
                       racingSubmits, overlapped, missed, rewritten>>
    PROVE  ErasureIInv'
<1>1. ErasureTypes'
  BY DEF ErasureIInv, ErasureTypes
<1>2. AskingIsSound' /\ OneOpenRequest' /\ RequestsAreHeldOpenly'
      /\ CompletedMeansErased' /\ CopiesAreOfRecords'
  BY DEF ErasureIInv, AskingIsSound, Fresh, OneOpenRequest, RequestsAreHeldOpenly,
         CompletedMeansErased, CopiesAreOfRecords
<1>3. /\ \A r \in Records : RecordIsSound(r)'
      /\ \A p \in Processors : ScanIsComplete(p)'
  BY DEF ErasureIInv, RecordIsSound, ScanIsComplete, Live
<1>. QED  BY <1>1, <1>2, <1>3 DEF ErasureIInv

LEMMA ErasureStepKeepsIInv == ErasureIInv /\ [ErasureNext]_erasureVars => ErasureIInv'
<1>. SUFFICES ASSUME ErasureIInv, [ErasureNext]_erasureVars PROVE ErasureIInv'
  OBVIOUS
<1>0. /\ record \in [Records -> RecordRec]
      /\ held \subseteq Applications \X {"v1", "zero"}
      /\ missed \subseteq Records /\ rewritten \subseteq Records
      /\ erasureFaults \in 0 .. MaxErasureFaults /\ CopiesAreOfRecords
  BY DEF ErasureIInv, ErasureTypes
<1>1. ASSUME NEW r \in Records, RecordArrives(r) PROVE ErasureIInv'
  <2> DEFINE x == [holds |-> "v2", hashed |-> TRUE, raw |-> r \in Enrichments]
  <2>1. x \in RecordRec /\ x.holds = "v2" /\ x.hashed
    BY DEF RecordRec, Contents
  <2>2. /\ record' = [record EXCEPT ![r] = x]
        /\ missed' =
              IF \/ r \in Applications /\ \E p \in Processors :
                                             processing[p].pc = "applications"
                 \/ \E p \in Processors : processing[p].pc = "enrichments"
                 \/ \E q \in Requests : request[q] = "COMPLETED"
              THEN missed \cup {r} ELSE missed
        /\ UNCHANGED <<request, counted, asking, processing, held, erasureFaults,
                       racingSubmits, overlapped, rewritten>>
    BY <1>1 DEF RecordArrives
  <2>. HIDE DEF x
  <2>3. /\ missed \subseteq missed' /\ missed' \subseteq Records
        /\ \A p \in Processors :
              /\ processing[p].pc = "applications" =>
                    r \in missed' \/ r \notin Applications
              /\ processing[p].pc = "enrichments" => r \in missed'
        /\ \A q \in Requests : request[q] = "COMPLETED" => r \in missed'
    BY <1>0, <2>2
  <2>. QED  BY <1>0, <2>1, <2>2, <2>3, RecordsKeepErasureIInv
<1>2. CASE Ask \/ \E q \in Requests : Submit(q)
  BY <1>2, SubmissionsKeepErasureIInv
<1>3. ASSUME NEW p \in Processors,
             \/ \E q \in Requests : Process(p, q)
             \/ ProcessingStep(p) \/ AbortErasure(p) \/ ProcessorDies(p)
      PROVE  ErasureIInv'
  BY <1>3, TakeUpKeepsErasureIInv, TransactionsKeepErasureIInv,
     CommitKeepsErasureIInv, FailureKeepsErasureIInv DEF ProcessingStep
<1>4. CASE ReadOld
  <2> DEFINE oldest == {a \in NotV2 : Cardinality({b \in NotV2 : b < a})
                                         < ReencryptBatch}
  <2>1. /\ held' = {<<a, record[a].holds>> : a \in oldest}
        /\ UNCHANGED <<request, counted, asking, record, processing, erasureFaults,
                       racingSubmits, overlapped, missed, rewritten>>
    BY <1>4 DEF ReadOld
  <2>2. \A a \in oldest : a \in Applications /\ record[a].holds \in {"v1", "zero"}
    BY DEF NotV2
  <2>. HIDE DEF oldest
  <2>3. held' \subseteq Applications \X {"v1", "zero"}
    BY <2>1, <2>2
  <2>4. \A a \in Applications, h \in {"v1", "zero"} :
           <<a, h>> \in held' => record[a].holds # "none"
    BY <2>1, <2>2
  <2>. QED  BY <1>0, <2>1, <2>3, <2>4, CopiesKeepErasureIInv
<1>5. ASSUME NEW a \in Applications, WriteBack(a) PROVE ErasureIInv'
  <2> DEFINE x == [record[a] EXCEPT !.holds = "v2"]
  <2>1. x \in RecordRec /\ x.holds = "v2" /\ x.hashed = record[a].hashed
        /\ record[a] \in RecordRec /\ a \in Records
    BY <1>0, ErasureBounds DEF RecordRec, Contents
  <2>2. /\ record' = [record EXCEPT ![a] = x] /\ <<a, "v1">> \in held
        /\ rewritten' = IF record[a].holds = "zero" THEN rewritten \cup {a}
                        ELSE rewritten
        /\ held' = held \ {<<a, "v1">>}
        /\ UNCHANGED <<request, counted, asking, processing, erasureFaults,
                       racingSubmits, overlapped, missed>>
    BY <1>0, <1>5, <2>1 DEF WriteBack
  <2>. HIDE DEF x
  <2>3. record[a].holds # "none"
    BY <1>0, <2>2 DEF CopiesAreOfRecords
  <2>4. record[a].holds = "zero" \/ Live(a)
    BY <2>1, <2>3 DEF RecordRec, Contents, Live
  <2>5. /\ rewritten \subseteq rewritten' /\ rewritten' \subseteq Records
        /\ held' \subseteq held /\ (Live(a) \/ a \in rewritten')
    BY <1>0, <2>1, <2>2, <2>4
  <2>6. x.hashed \/ a \in rewritten'
    BY <2>1, <2>2, <2>4 DEF ErasureIInv, RecordIsSound
  <2>. QED  BY <1>0, <2>1, <2>2, <2>5, <2>6, RecordsKeepErasureIInv
<1>6. ASSUME NEW a \in Applications, SkipBadRow(a) PROVE ErasureIInv'
  <2>1. held' \subseteq held
        /\ UNCHANGED <<request, counted, asking, record, processing, erasureFaults,
                       racingSubmits, overlapped, missed, rewritten>>
    BY <1>6 DEF SkipBadRow
  <2>. QED  BY <1>0, <2>1, CopiesKeepErasureIInv
<1>7. CASE ReencryptionFails
  <2>1. held' \subseteq held /\ erasureFaults' \in 0 .. MaxErasureFaults
        /\ UNCHANGED <<request, counted, asking, record, processing,
                       racingSubmits, overlapped, missed, rewritten>>
    BY <1>0, <1>7, ErasureBounds DEF ReencryptionFails, ErasureFault
  <2>. QED  BY <1>0, <2>1, CopiesKeepErasureIInv
<1>8. CASE UNCHANGED erasureVars
  BY <1>0, <1>8, CopiesKeepErasureIInv DEF erasureVars
<1>. QED  BY <1>1, <1>2, <1>3, <1>4, <1>5, <1>6, <1>7, <1>8
         DEF ErasureNext, Reencryption

-----------------------------------------------------------------------------
(***************************************************************************)
(* The correlation linker                                                  *)
(***************************************************************************)

SnapshotRec == [about : Hashes, names : LinkApplications \cup {NoApplication},
                link : LinkApplications \cup {NoApplication}, erased : BOOLEAN]
LinkerRec == [pc : {"rest", "rows", "id", "person", "write"},
              batch : SUBSET Snapshots, row : Snapshots \cup {0},
              match : LinkApplications \cup {NoApplication}]

Has(l, s) == s \in linker[l].batch \/ s = linker[l].row

(* What the look found still stands, but for what came or went since.      *)
MatchIsSound(l) ==
    LET s == linker[l].row IN
    /\ linker[l].match \in LinkApplications
    /\ \/ snapshot[s].names = linker[l].match
       \/ snapshot[s].erased
       \/ InWindow(s) \ arrivedSince[l] = {linker[l].match}

LinkerIsSound(l) ==
    /\ linker[l].pc \in {"rest", "rows"} => linker[l].row = 0
    /\ linker[l].pc \in {"id", "person", "write"} => linker[l].row \in Snapshots
    /\ linker[l].pc = "rows" => linker[l].batch # {}
    /\ linker[l].row \notin linker[l].batch
    /\ \A s \in Snapshots : Has(l, s) => snapshot[s].about # Nobody
    /\ linker[l].pc = "write" => MatchIsSound(l)

(* A snapshot that one replica at most has had in hand is not linked while *)
(* it is.                                                                  *)
HeldUnlinked(s) ==
    s \notin sharedRows => \A l \in Linkers : Has(l, s) =>
        /\ snapshot[s].link = NoApplication
        /\ \A k \in Linkers : Has(k, s) => k = l

LinkIInv ==
    /\ LinkTypeOK
    /\ \A s \in Snapshots : snapshot[s].about = Nobody => snapshot[s] = NoSnapshot
    /\ \A l \in Linkers : LinkerIsSound(l)
    /\ \A s \in Snapshots : HeldUnlinked(s)

LEMMA LinkBounds ==
    /\ Snapshots \subseteq Nat /\ 0 \notin Snapshots /\ IsFiniteSet(Snapshots)
    /\ LinkApplications \subseteq Nat /\ IsFiniteSet(LinkApplications)
    /\ NoApplication \notin LinkApplications /\ Nobody \notin People
    /\ MaxLinkFaults \in Nat /\ LinkWindow \in Nat
BY LinkOptions

LEMMA LinkTypes ==
    LinkTypeOK <=>
        /\ snapshot \in [Snapshots -> SnapshotRec]
        /\ origin \in [LinkApplications -> [hash : Hashes, at : Moments \cup {0}]]
        /\ linker \in [Linkers -> LinkerRec]
        /\ linkFaults \in 0 .. MaxLinkFaults
        /\ arrivedSince \in [Linkers -> SUBSET LinkApplications]
        /\ sharedRows \subseteq Snapshots
BY DEF LinkTypeOK, SnapshotRec, LinkerRec

LEMMA RestingHasNothing ==
    /\ LinkerResting \in LinkerRec /\ LinkerResting.pc = "rest"
    /\ LinkerResting.batch = {} /\ LinkerResting.row = 0
    /\ LinkerResting.match = NoApplication
BY DEF LinkerResting, LinkerRec

LEMMA NextRowHasWhatIsLeft ==
    ASSUME NEW l, NEW left \in SUBSET Snapshots
    PROVE  /\ NextRow(l, left) \in LinkerRec
           /\ NextRow(l, left).batch = left /\ NextRow(l, left).row = 0
           /\ NextRow(l, left).pc \in {"rest", "rows"}
           /\ NextRow(l, left).pc = "rows" => left # {}
<1>1. CASE left = {}
  BY <1>1, RestingHasNothing DEF NextRow
<1>2. CASE left # {}
  <2>1. NextRow(l, left) = [pc |-> "rows", batch |-> left, row |-> 0,
                            match |-> NoApplication]
    BY <1>2 DEF NextRow, LinkerResting
  <2>. QED  BY <1>2, <2>1 DEF LinkerRec
<1>. QED  BY <1>1, <1>2

LEMMA LinkInitIInv == LinkInit => LinkIInv
<1>. SUFFICES ASSUME LinkInit PROVE LinkIInv
  OBVIOUS
<1>1. NoSnapshot \in SnapshotRec /\ Unborn \in [hash : Hashes, at : Moments \cup {0}]
  BY DEF NoSnapshot, SnapshotRec, Unborn, Hashes
<1>2. LinkTypeOK
  BY <1>1, LinkTypes, LinkBounds, RestingHasNothing DEF LinkInit
<1>3. \A l \in Linkers : linker[l] = LinkerResting
  BY DEF LinkInit
<1>4. \A l \in Linkers, s \in Snapshots : ~Has(l, s)
  BY <1>3, LinkBounds, RestingHasNothing DEF Has
<1>5. \A l \in Linkers : LinkerIsSound(l)
  BY <1>3, <1>4, RestingHasNothing DEF LinkerIsSound
<1>6. \A s \in Snapshots : snapshot[s] = NoSnapshot
  BY DEF LinkInit
<1>. QED  BY <1>2, <1>4, <1>5, <1>6 DEF LinkIInv, HeldUnlinked

(* What replica l may go on with as x                                      *)
MoveIsSound(l, x) ==
    /\ x.pc \in {"rest", "rows"} => x.row = 0
    /\ x.pc \in {"id", "person", "write"} => x.row \in Snapshots
    /\ x.pc = "rows" => x.batch # {}
    /\ x.row \notin x.batch
    /\ \A s \in Snapshots : s \in x.batch \/ s = x.row => snapshot[s].about # Nobody
    /\ x.pc = "write" =>
          /\ x.match \in LinkApplications
          /\ \/ snapshot[x.row].names = x.match
             \/ snapshot[x.row].erased
             \/ InWindow(x.row) = {x.match} /\ arrivedSince'[l] = {}

(* Links are all that it changes of the snapshots: of those it has in hand *)
(* no longer.                                                              *)
OnlyLinksChange ==
    /\ snapshot' \in [Snapshots -> SnapshotRec]
    /\ \A s \in Snapshots :
          /\ snapshot'[s].about = snapshot[s].about
          /\ snapshot'[s].names = snapshot[s].names
          /\ snapshot'[s].erased = snapshot[s].erased
          /\ snapshot[s].about = Nobody => snapshot'[s] = snapshot[s]

HoldsStayOpen(l, x) ==
    \A s \in Snapshots : s \notin sharedRows' =>
        /\ s \in x.batch \/ s = x.row =>
              /\ snapshot'[s].link = NoApplication
              /\ \A k \in Linkers : Has(k, s) => k = l
        /\ \A k \in Linkers :
              k # l /\ Has(k, s) => snapshot'[s].link = snapshot[s].link

LEMMA LinkerStepKeepsLinkIInv ==
    ASSUME LinkIInv, NEW l \in Linkers, NEW x \in LinkerRec,
           linker' = [linker EXCEPT ![l] = x],
           UNCHANGED origin, linkFaults' \in 0 .. MaxLinkFaults,
           arrivedSince' = [arrivedSince EXCEPT ![l] = {}] \/ UNCHANGED arrivedSince,
           sharedRows \subseteq sharedRows', sharedRows' \subseteq Snapshots,
           MoveIsSound(l, x), OnlyLinksChange, HoldsStayOpen(l, x)
    PROVE  LinkIInv'
<1>0. /\ LinkTypeOK /\ linker \in [Linkers -> LinkerRec]
      /\ arrivedSince \in [Linkers -> SUBSET LinkApplications]
  BY LinkTypes DEF LinkIInv
<1>1. linker' \in [Linkers -> LinkerRec] /\ linker'[l] = x
      /\ \A k \in Linkers \ {l} : linker'[k] = linker[k]
  BY <1>0
<1>2. /\ arrivedSince' \in [Linkers -> SUBSET LinkApplications]
      /\ \A k \in Linkers \ {l} : arrivedSince'[k] = arrivedSince[k]
  BY <1>0
<1>3. LinkTypeOK'
  BY <1>0, <1>1, <1>2 DEF LinkTypeOK, SnapshotRec, LinkerRec, OnlyLinksChange
<1>4. \A s \in Snapshots : InWindow(s)' = InWindow(s)
  BY DEF InWindow, OnlyLinksChange
<1>5. \A k \in Linkers \ {l} : \A s : Has(k, s)' <=> Has(k, s)
  BY <1>1 DEF Has
<1>6. \A s : Has(l, s)' <=> s \in x.batch \/ s = x.row
  BY <1>1 DEF Has
<1>7. ASSUME NEW k \in Linkers PROVE LinkerIsSound(k)'
  <2>1. CASE k # l
    <3>1. LinkerIsSound(k)
      BY DEF LinkIInv
    <3>2. MatchIsSound(k) /\ linker[k].row \in Snapshots => MatchIsSound(k)'
      BY <1>1, <1>2, <1>4, <2>1 DEF MatchIsSound, OnlyLinksChange
    <3>. QED  BY <1>1, <1>5, <2>1, <3>1, <3>2 DEF LinkerIsSound, OnlyLinksChange
  <2>2. CASE k = l
    <3>1. x.pc = "write" => MatchIsSound(l)'
      BY <1>1, <1>4 DEF MatchIsSound, MoveIsSound, OnlyLinksChange
    <3>. QED  BY <1>1, <1>6, <2>2, <3>1 DEF LinkerIsSound, MoveIsSound, OnlyLinksChange
  <2>. QED  BY <2>1, <2>2
<1>8. ASSUME NEW s \in Snapshots PROVE HeldUnlinked(s)'
  <2>. SUFFICES ASSUME s \notin sharedRows', NEW k \in Linkers, Has(k, s)'
                PROVE  /\ snapshot'[s].link = NoApplication
                       /\ \A j \in Linkers : Has(j, s)' => j = k
    BY DEF HeldUnlinked
  <2>1. HeldUnlinked(s) /\ s \notin sharedRows
    BY DEF LinkIInv
  <2>2. CASE k = l
    BY <1>5, <1>6, <2>2 DEF HoldsStayOpen
  <2>3. CASE k # l
    <3>1. Has(k, s) /\ ~Has(l, s)' /\ snapshot'[s].link = snapshot[s].link
      BY <1>5, <1>6, <2>3 DEF HoldsStayOpen
    <3>. QED  BY <1>5, <2>1, <2>3, <3>1 DEF HeldUnlinked
  <2>. QED  BY <2>2, <2>3
<1>9. \A s \in Snapshots : snapshot'[s].about = Nobody => snapshot'[s] = NoSnapshot
  BY DEF LinkIInv, OnlyLinksChange
<1>. QED  BY <1>3, <1>7, <1>8, <1>9 DEF LinkIInv, NoSnapshot

(* Snapshots and applications come and persons are erased: what replicas   *)
(* hold stays as it was.                                                   *)
LEMMA WorldKeepsLinkIInv ==
    ASSUME LinkIInv, LinkTypeOK', UNCHANGED <<linker, sharedRows>>,
           \A s \in Snapshots : snapshot'[s].about = Nobody =>
                                   snapshot'[s] = NoSnapshot,
           \A s \in Snapshots : snapshot[s].about # Nobody =>
              /\ snapshot'[s].about = snapshot[s].about
              /\ snapshot'[s].names = snapshot[s].names
              /\ snapshot'[s].link = snapshot[s].link
              /\ snapshot[s].erased => snapshot'[s].erased,
           \A l \in Linkers, s \in Snapshots : snapshot[s].about # Nobody /\
              linker[l].pc = "write" =>
                 \/ snapshot'[s].erased
                 \/ \A a \in LinkApplications :
                       a \in (InWindow(s) \ arrivedSince[l])'
                          <=> a \in InWindow(s) \ arrivedSince[l]
    PROVE  LinkIInv'
<1>1. \A l \in Linkers : \A s : Has(l, s)' <=> Has(l, s)
  BY DEF Has
<1>2. ASSUME NEW l \in Linkers PROVE LinkerIsSound(l)'
  <2>1. LinkerIsSound(l)
    BY DEF LinkIInv
  <2>2. \A s \in Snapshots : Has(l, s)' => snapshot'[s].about # Nobody
    BY <1>1, <2>1 DEF LinkerIsSound
  <2>3. ASSUME linker[l].pc = "write" PROVE MatchIsSound(l)'
    <3>1. /\ MatchIsSound(l) /\ linker[l].row \in Snapshots
          /\ snapshot[linker[l].row].about # Nobody
      BY <2>1, <2>3 DEF LinkerIsSound, Has
    <3>2. \A s : InWindow(s) \subseteq LinkApplications /\ InWindow(s)' \subseteq LinkApplications
      BY DEF InWindow
    <3>. QED  BY <2>3, <3>1, <3>2 DEF MatchIsSound
  <2>. QED  BY <2>1, <2>2, <2>3 DEF LinkerIsSound
<1>3. ASSUME NEW s \in Snapshots PROVE HeldUnlinked(s)'
  <2>1. HeldUnlinked(s) /\ \A l \in Linkers : Has(l, s) => snapshot[s].about # Nobody
    BY DEF LinkIInv, LinkerIsSound
  <2>. QED  BY <1>1, <2>1 DEF HeldUnlinked
<1>. QED  BY <1>2, <1>3 DEF LinkIInv, NoSnapshot

LEMMA ArrivalsKeepLinkIInv ==
    ASSUME LinkIInv,
           \/ \E s \in Snapshots : SnapshotArrives(s)
           \/ \E a \in LinkApplications : ApplicationArrives(a)
    PROVE  LinkIInv'
<1>0. /\ LinkTypeOK /\ snapshot \in [Snapshots -> SnapshotRec]
      /\ origin \in [LinkApplications -> [hash : Hashes, at : Moments \cup {0}]]
      /\ arrivedSince \in [Linkers -> SUBSET LinkApplications]
  BY LinkTypes DEF LinkIInv
<1>1. ASSUME NEW s \in Snapshots, SnapshotArrives(s) PROVE LinkIInv'
  <2>1. PICK n \in NewSnapshots : snapshot' = [snapshot EXCEPT ![s] = n]
    BY <1>1 DEF SnapshotArrives
  <2>2. /\ n \in SnapshotRec /\ n.about # Nobody
        /\ snapshot[s].about = Nobody
        /\ UNCHANGED <<origin, linker, linkFaults, arrivedSince, sharedRows>>
    <3>1. n \in SnapshotRec /\ n.about \in People
      BY DEF NewSnapshots, SnapshotRec, Hashes
    <3>. QED  BY <1>1, <3>1, LinkBounds DEF SnapshotArrives, NoSnapshot
  <2>3. snapshot' \in [Snapshots -> SnapshotRec]
        /\ \A t \in Snapshots : snapshot'[t] = IF t = s THEN n ELSE snapshot[t]
    BY <1>0, <2>1, <2>2
  <2>4. LinkTypeOK'
    BY <1>0, <2>2, <2>3 DEF LinkTypeOK, SnapshotRec
  <2>5. \A t \in Snapshots : snapshot[t].about # Nobody =>
           InWindow(t)' = InWindow(t)
    BY <2>2, <2>3 DEF InWindow
  <2>6. \A t \in Snapshots : snapshot'[t].about = Nobody => snapshot'[t] = NoSnapshot
    BY <2>2, <2>3 DEF LinkIInv
  <2>. QED  BY <2>2, <2>3, <2>4, <2>5, <2>6, WorldKeepsLinkIInv
<1>2. ASSUME NEW a \in LinkApplications, ApplicationArrives(a) PROVE LinkIInv'
  <2>1. PICK p \in People, m \in Moments :
           origin' = [origin EXCEPT ![a] = [hash |-> p, at |-> m]]
    BY <1>2 DEF ApplicationArrives
  <2>2. /\ origin[a] = Unborn
        /\ arrivedSince' = [l \in Linkers |->
                               IF linker[l].pc \in {"person", "write"}
                               THEN arrivedSince[l] \cup {a} ELSE arrivedSince[l]]
        /\ UNCHANGED <<snapshot, linker, linkFaults, sharedRows>>
    BY <1>2 DEF ApplicationArrives
  <2>3. /\ origin' \in [LinkApplications -> [hash : Hashes, at : Moments \cup {0}]]
        /\ \A b \in LinkApplications : b # a => origin'[b] = origin[b]
    BY <1>0, <2>1 DEF Hashes
  <2>4. arrivedSince' \in [Linkers -> SUBSET LinkApplications]
    BY <1>0, <2>2
  <2>5. LinkTypeOK'
    BY <1>0, <2>2, <2>3, <2>4 DEF LinkTypeOK
  <2>6. ASSUME NEW l \in Linkers, NEW s \in Snapshots, linker[l].pc = "write",
               NEW b \in LinkApplications
        PROVE  b \in (InWindow(s) \ arrivedSince[l])'
                  <=> b \in InWindow(s) \ arrivedSince[l]
    <3>1. arrivedSince'[l] = arrivedSince[l] \cup {a}
      BY <2>2, <2>6
    <3>2. CASE b = a
      BY <2>2, <3>1, <3>2 DEF InWindow
    <3>3. CASE b # a
      <4>1. origin'[b] = origin[b]
        BY <2>3, <3>3
      <4>. QED  BY <2>2, <3>1, <3>3, <4>1 DEF InWindow
    <3>. QED  BY <3>2, <3>3
  <2>. QED  BY <2>2, <2>5, <2>6, WorldKeepsLinkIInv DEF LinkIInv
<1>. QED  BY <1>1, <1>2

LEMMA ErasePersonKeepsLinkIInv ==
    ASSUME LinkIInv, NEW p \in People, ErasePerson(p)
    PROVE  LinkIInv'
<1>0. /\ LinkTypeOK /\ snapshot \in [Snapshots -> SnapshotRec]
      /\ origin \in [LinkApplications -> [hash : Hashes, at : Moments \cup {0}]]
  BY LinkTypes DEF LinkIInv
<1>1. UNCHANGED <<linker, linkFaults, arrivedSince, sharedRows>>
  BY DEF ErasePerson
<1>2. ASSUME NEW s \in Snapshots
      PROVE  /\ snapshot'[s] \in SnapshotRec
             /\ snapshot'[s].about = snapshot[s].about
             /\ snapshot'[s].names = snapshot[s].names
             /\ snapshot'[s].link = snapshot[s].link
             /\ snapshot[s].erased => snapshot'[s].erased
             /\ snapshot[s].about = p => snapshot'[s].erased
             /\ snapshot[s].about # p => snapshot'[s] = snapshot[s]
  <2>1. snapshot'[s] = IF snapshot[s].about = p
                       THEN [snapshot[s] EXCEPT !.erased = TRUE]
                       ELSE snapshot[s]
    BY DEF ErasePerson
  <2>2. snapshot[s] \in SnapshotRec
    BY <1>0
  <2>. QED  BY <2>1, <2>2 DEF SnapshotRec
<1>3. snapshot' \in [Snapshots -> SnapshotRec]
  <2>1. snapshot' = [s \in Snapshots |-> snapshot'[s]]
    BY DEF ErasePerson
  <2>. QED  BY <1>2, <2>1
<1>4. ASSUME NEW a \in LinkApplications
      PROVE  /\ origin'[a] \in [hash : Hashes, at : Moments \cup {0}]
             /\ origin[a].hash # p => origin'[a] = origin[a]
             /\ origin'[a].hash = origin[a].hash \/ origin'[a].hash = Nobody
  <2>1. origin'[a] = IF origin[a].hash = p THEN [origin[a] EXCEPT !.hash = Nobody]
                     ELSE origin[a]
    BY DEF ErasePerson
  <2>2. origin[a] \in [hash : Hashes, at : Moments \cup {0}]
    BY <1>0
  <2>. QED  BY <2>1, <2>2 DEF Hashes
<1>5. origin' \in [LinkApplications -> [hash : Hashes, at : Moments \cup {0}]]
  <2>1. origin' = [a \in LinkApplications |-> origin'[a]]
    BY DEF ErasePerson
  <2>. QED  BY <1>4, <2>1
<1>6. LinkTypeOK'
  BY <1>0, <1>1, <1>3, <1>5 DEF LinkTypeOK, SnapshotRec
<1>7. ASSUME NEW s \in Snapshots, snapshot[s].about \notin {p, Nobody}
      PROVE  \A a \in LinkApplications : a \in InWindow(s)' <=> a \in InWindow(s)
  <2>. SUFFICES ASSUME NEW a \in LinkApplications
                PROVE  a \in InWindow(s)' <=> a \in InWindow(s)
    OBVIOUS
  <2>1. snapshot'[s] = snapshot[s]
    BY <1>2, <1>7
  <2>2. CASE origin[a].hash = p
    <3>1. origin'[a].hash # snapshot[s].about
      BY <1>4, <1>7, <2>2
    <3>. QED  BY <1>7, <2>1, <2>2, <3>1 DEF InWindow
  <2>3. CASE origin[a].hash # p
    <3>1. origin'[a] = origin[a]
      BY <1>4, <2>3
    <3>. QED  BY <2>1, <3>1 DEF InWindow
  <2>. QED  BY <2>2, <2>3
<1>8. \A s \in Snapshots : snapshot'[s].about = Nobody => snapshot'[s] = NoSnapshot
  BY <1>2, LinkBounds DEF LinkIInv
<1>. QED  BY <1>1, <1>2, <1>6, <1>7, <1>8, WorldKeepsLinkIInv

(* A replica that goes on with what it had in hand                         *)
LEMMA RowWorkKeepsLinkIInv ==
    ASSUME LinkIInv, NEW l \in Linkers, NEW x \in LinkerRec,
           linker' = [linker EXCEPT ![l] = x],
           UNCHANGED <<snapshot, origin, linkFaults, sharedRows>>,
           arrivedSince' = [arrivedSince EXCEPT ![l] = {}] \/ UNCHANGED arrivedSince,
           x.pc \in {"rest", "rows"} => x.row = 0,
           x.pc \in {"id", "person", "write"} => x.row \in Snapshots,
           x.pc = "rows" => x.batch # {},
           x.row \notin x.batch,
           \A s \in Snapshots : s \in x.batch \/ s = x.row => Has(l, s),
           x.pc = "write" =>
              /\ x.match \in LinkApplications
              /\ \/ snapshot[x.row].names = x.match
                 \/ InWindow(x.row) = {x.match} /\ arrivedSince'[l] = {}
    PROVE  LinkIInv'
<1>1. linkFaults' \in 0 .. MaxLinkFaults /\ sharedRows' \subseteq Snapshots
  BY LinkTypes DEF LinkIInv
<1>2. \A s \in Snapshots : s \in x.batch \/ s = x.row => snapshot[s].about # Nobody
  BY DEF LinkIInv, LinkerIsSound
<1>3. MoveIsSound(l, x)
  BY <1>2 DEF MoveIsSound
<1>4. OnlyLinksChange
  BY LinkTypes DEF LinkIInv, OnlyLinksChange
<1>5. HoldsStayOpen(l, x)
  BY DEF LinkIInv, HeldUnlinked, HoldsStayOpen
<1>6. sharedRows \subseteq sharedRows'
  OBVIOUS
<1>. QED  BY <1>1, <1>3, <1>4, <1>5, <1>6, LinkerStepKeepsLinkIInv

LEMMA LinkStepKeepsIInv == LinkIInv /\ [LinkNext]_linkVars => LinkIInv'
<1>. SUFFICES ASSUME LinkIInv, [LinkNext]_linkVars PROVE LinkIInv'
  OBVIOUS
<1>0. /\ LinkTypeOK /\ snapshot \in [Snapshots -> SnapshotRec]
      /\ linker \in [Linkers -> LinkerRec] /\ linkFaults \in 0 .. MaxLinkFaults
      /\ sharedRows \subseteq Snapshots
      /\ arrivedSince \in [Linkers -> SUBSET LinkApplications]
  BY LinkTypes DEF LinkIInv
<1>1. ASSUME NEW l \in Linkers PROVE LinkerIsSound(l) /\ linker[l] \in LinkerRec
  BY <1>0 DEF LinkIInv
<1>2. ASSUME NEW l \in Linkers, NEW s \in Snapshots, Has(l, s), s \notin sharedRows
      PROVE  /\ snapshot[s].link = NoApplication
             /\ \A k \in Linkers \ {l} : ~Has(k, s)
  BY <1>2 DEF LinkIInv, HeldUnlinked
<1>3. ASSUME NEW l \in Linkers, ReadBatch(l) PROVE LinkIInv'
  <2>1. /\ linker[l] = LinkerResting
        /\ linker' = [linker EXCEPT ![l] = NextRow(l, Newest)]
        /\ sharedRows' = sharedRows \cup
              {s \in Newest : \E k \in Linkers \ {l} :
                                 s \in linker[k].batch \/ s = linker[k].row}
        /\ UNCHANGED <<snapshot, origin, linkFaults, arrivedSince>>
    BY <1>3 DEF ReadBatch
  <2>2. /\ Newest \subseteq Snapshots
        /\ \A s \in Newest : snapshot[s] # NoSnapshot /\ snapshot[s].link = NoApplication
    BY DEF Newest, Unlinked
  <2> DEFINE x == NextRow(l, Newest)
  <2>3. /\ x \in LinkerRec /\ x.batch = Newest /\ x.row = 0
        /\ x.pc \in {"rest", "rows"} /\ (x.pc = "rows" => Newest # {})
    BY <2>2, NextRowHasWhatIsLeft
  <2>4. linker' = [linker EXCEPT ![l] = x]
    BY <2>1
  <2>. HIDE DEF x
  <2>5. \A s \in Newest : snapshot[s].about # Nobody
    BY <2>2 DEF LinkIInv
  <2>6. sharedRows \subseteq sharedRows' /\ sharedRows' \subseteq Snapshots
    BY <1>0, <2>1, <2>2
  <2>7. MoveIsSound(l, x)
    BY <2>2, <2>3, <2>5, LinkBounds DEF MoveIsSound
  <2>8. OnlyLinksChange
    BY <1>0, <2>1 DEF OnlyLinksChange
  <2>9. HoldsStayOpen(l, x)
    <3>1. \A s \in Snapshots : s \in x.batch \/ s = x.row => s \in Newest
      BY <2>3, LinkBounds
    <3>2. \A s \in Newest, k \in Linkers : s \notin sharedRows' /\ Has(k, s) => k = l
      BY <2>1 DEF Has
    <3>. QED  BY <2>1, <2>2, <3>1, <3>2 DEF HoldsStayOpen
  <2>10. UNCHANGED <<origin, arrivedSince>> /\ linkFaults' \in 0 .. MaxLinkFaults
    BY <1>0, <2>1
  <2>. QED  BY <2>3, <2>4, <2>6, <2>7, <2>8, <2>9, <2>10, LinkerStepKeepsLinkIInv
<1>4. ASSUME NEW l \in Linkers, TakeRow(l) PROVE LinkIInv'
  <2> DEFINE s == Max(linker[l].batch)
             x == [linker[l] EXCEPT !.pc = "id", !.row = s,
                                    !.batch = linker[l].batch \ {s}]
  <2>1. /\ linker[l].pc = "rows" /\ linker[l].batch # {}
        /\ UNCHANGED <<snapshot, origin, linkFaults, arrivedSince, sharedRows>>
    BY <1>1, <1>4 DEF TakeRow, LinkerIsSound
  <2>2. linker[l].batch \in SUBSET Snapshots
    BY <1>1 DEF LinkerRec
  <2>3. s \in linker[l].batch /\ s \in Snapshots
    <3>1. IsFiniteSet(linker[l].batch) /\ linker[l].batch \in SUBSET Nat
      BY <2>2, LinkBounds, FS_Subset
    <3>. QED  BY <2>1, <2>2, <3>1, MaxIsOneOf
  <2>4. linker' = [linker EXCEPT ![l] = x]
    BY <1>0, <1>4 DEF TakeRow, LinkerRec
  <2>. HIDE DEF s
  <2>5. x \in LinkerRec /\ x.pc = "id" /\ x.row = s /\ x.batch = linker[l].batch \ {s}
    BY <1>1, <2>2, <2>3 DEF LinkerRec
  <2>. HIDE DEF x
  <2>6. \A t \in Snapshots : t \in x.batch \/ t = x.row => Has(l, t)
    BY <2>3, <2>5 DEF Has
  <2>. QED  BY <2>1, <2>3, <2>4, <2>5, <2>6, RowWorkKeepsLinkIInv
<1>5. ASSUME NEW l \in Linkers, MatchId(l) PROVE LinkIInv'
  <2> DEFINE named == snapshot[linker[l].row].names
             x == IF named # NoApplication /\ origin[named] # Unborn
                  THEN [linker[l] EXCEPT !.pc = "write", !.match = named]
                  ELSE [linker[l] EXCEPT !.pc = "person"]
  <2>1. /\ linker[l].pc = "id" /\ linker[l].row \in Snapshots
        /\ linker[l].row \notin linker[l].batch
        /\ arrivedSince' = [arrivedSince EXCEPT ![l] = {}]
        /\ UNCHANGED <<snapshot, origin, linkFaults, sharedRows>>
    BY <1>1, <1>5 DEF MatchId, LinkerIsSound
  <2>2. linker' = [linker EXCEPT ![l] = x]
    BY <1>0, <1>5 DEF MatchId, LinkerRec
  <2>3. snapshot[linker[l].row] \in SnapshotRec
    BY <1>0, <2>1
  <2>4. /\ x \in LinkerRec /\ x.row = linker[l].row /\ x.batch = linker[l].batch
        /\ x.pc \in {"write", "person"}
        /\ x.pc = "write" => /\ x.match \in LinkApplications
                             /\ snapshot[x.row].names = x.match
    BY <1>1, <2>1, <2>3 DEF LinkerRec, SnapshotRec
  <2>. HIDE DEF x
  <2>5. \A t \in Snapshots : t \in x.batch \/ t = x.row => Has(l, t)
    BY <2>4 DEF Has
  <2>. QED  BY <2>1, <2>2, <2>4, <2>5, RowWorkKeepsLinkIInv
<1>6. ASSUME NEW l \in Linkers, MatchPerson(l) PROVE LinkIInv'
  <2> DEFINE found == InWindow(linker[l].row)
             x == IF Cardinality(found) = 1
                  THEN [linker[l] EXCEPT !.pc = "write",
                                         !.match = CHOOSE a \in found : TRUE]
                  ELSE NextRow(l, linker[l].batch)
  <2>1. /\ linker[l].pc = "person" /\ linker[l].row \in Snapshots
        /\ linker[l].row \notin linker[l].batch
        /\ arrivedSince' = [arrivedSince EXCEPT ![l] = {}] /\ arrivedSince'[l] = {}
        /\ UNCHANGED <<snapshot, origin, linkFaults, sharedRows>>
    BY <1>0, <1>1, <1>6 DEF MatchPerson, LinkerIsSound
  <2>2. linker' = [linker EXCEPT ![l] = x]
    BY <1>6 DEF MatchPerson
  <2>3. found \subseteq LinkApplications /\ IsFiniteSet(found)
    BY LinkBounds, FS_Subset DEF InWindow
  <2>4. Cardinality(found) = 1 =>
           /\ (CHOOSE a \in found : TRUE) \in LinkApplications
           /\ found = {CHOOSE a \in found : TRUE}
    BY <2>3, FS_Singleton
  <2>5. /\ NextRow(l, linker[l].batch) \in LinkerRec
        /\ NextRow(l, linker[l].batch).batch = linker[l].batch
        /\ NextRow(l, linker[l].batch).row = 0
        /\ NextRow(l, linker[l].batch).pc \in {"rest", "rows"}
        /\ NextRow(l, linker[l].batch).pc = "rows" => linker[l].batch # {}
    BY <1>1, NextRowHasWhatIsLeft DEF LinkerRec
  <2>. HIDE DEF found
  <2>6. CASE Cardinality(found) = 1
    <3>1. /\ x \in LinkerRec /\ x.row = linker[l].row /\ x.batch = linker[l].batch
          /\ x.pc = "write" /\ x.match \in LinkApplications /\ found = {x.match}
      BY <1>1, <2>1, <2>4, <2>6 DEF LinkerRec
    <3>. HIDE DEF x
    <3>2. InWindow(x.row) = {x.match}
      BY <3>1 DEF found
    <3>3. \A t \in Snapshots : t \in x.batch \/ t = x.row => Has(l, t)
      BY <3>1 DEF Has
    <3>. QED  BY <2>1, <2>2, <3>1, <3>2, <3>3, RowWorkKeepsLinkIInv
  <2>7. CASE Cardinality(found) # 1
    <3>1. x = NextRow(l, linker[l].batch)
      BY <2>7
    <3>2. /\ x \in LinkerRec /\ x.row = 0 /\ x.batch = linker[l].batch
          /\ x.pc \in {"rest", "rows"} /\ (x.pc = "rows" => x.batch # {})
      BY <2>5, <3>1
    <3>. HIDE DEF x
    <3>3. \A t \in Snapshots : t \in x.batch \/ t = x.row => Has(l, t)
      BY <3>2, LinkBounds DEF Has
    <3>4. x.row \notin x.batch
      BY <1>1, <3>2, LinkBounds DEF LinkerRec
    <3>. QED  BY <2>1, <2>2, <3>2, <3>3, <3>4, RowWorkKeepsLinkIInv
  <2>. QED  BY <2>6, <2>7
<1>7. ASSUME NEW l \in Linkers, WriteLink(l) PROVE LinkIInv'
  <2> DEFINE x == NextRow(l, linker[l].batch)
             r == linker[l].row
             y == [snapshot[r] EXCEPT !.link = linker[l].match]
  <2>1. /\ linker[l].pc = "write" /\ r \in Snapshots /\ r \notin linker[l].batch
        /\ linker[l].match \in LinkApplications
        /\ snapshot[r].about # Nobody /\ Has(l, r)
        /\ arrivedSince' = [arrivedSince EXCEPT ![l] = {}]
        /\ UNCHANGED <<origin, linkFaults, sharedRows>>
    BY <1>1, <1>7 DEF WriteLink, LinkerIsSound, MatchIsSound, Has
  <2>2. linker' = [linker EXCEPT ![l] = x] /\ snapshot' = [snapshot EXCEPT ![r] = y]
    BY <1>0, <1>7, <2>1 DEF WriteLink, SnapshotRec
  <2>3. /\ x \in LinkerRec /\ x.row = 0 /\ x.batch = linker[l].batch
        /\ x.pc \in {"rest", "rows"} /\ (x.pc = "rows" => x.batch # {})
    BY <1>1, NextRowHasWhatIsLeft DEF LinkerRec
  <2>4. /\ y \in SnapshotRec /\ y.about = snapshot[r].about
        /\ y.names = snapshot[r].names /\ y.erased = snapshot[r].erased
    BY <1>0, <2>1 DEF SnapshotRec
  <2>. HIDE DEF x, y, r
  <2>5. snapshot' \in [Snapshots -> SnapshotRec]
        /\ \A t \in Snapshots : snapshot'[t] = IF t = r THEN y ELSE snapshot[t]
    BY <1>0, <2>1, <2>2, <2>4
  <2>6. \A t \in Snapshots : t \in x.batch \/ t = x.row => Has(l, t) /\ t # r
    BY <2>1, <2>3, LinkBounds DEF Has
  <2>7. MoveIsSound(l, x)
    <3>1. \A t \in Snapshots : t \in x.batch \/ t = x.row => snapshot[t].about # Nobody
      BY <1>1, <2>6 DEF LinkerIsSound
    <3>2. x.row \notin x.batch
      BY <1>1, <2>3, LinkBounds DEF LinkerRec
    <3>. QED  BY <2>3, <3>1, <3>2 DEF MoveIsSound
  <2>8. OnlyLinksChange
    BY <2>1, <2>4, <2>5 DEF OnlyLinksChange
  <2>9. HoldsStayOpen(l, x)
    <3>1. \A t \in Snapshots, k \in Linkers :
             t \notin sharedRows /\ Has(l, t) /\ Has(k, t) => k = l
      BY <1>2
    <3>2. \A t \in Snapshots : t \notin sharedRows /\ Has(l, t) =>
             snapshot[t].link = NoApplication
      BY <1>2
    <3>. QED  BY <2>1, <2>5, <2>6, <3>1, <3>2 DEF HoldsStayOpen
  <2>10. /\ UNCHANGED origin /\ linkFaults' \in 0 .. MaxLinkFaults
         /\ sharedRows \subseteq sharedRows' /\ sharedRows' \subseteq Snapshots
    BY <1>0, <2>1
  <2>. QED  BY <2>1, <2>2, <2>3, <2>7, <2>8, <2>9, <2>10, LinkerStepKeepsLinkIInv
<1>8. ASSUME NEW l \in Linkers, BatchFails(l) PROVE LinkIInv'
  <2>1. /\ linker' = [linker EXCEPT ![l] = LinkerResting]
        /\ linkFaults' \in 0 .. MaxLinkFaults
        /\ arrivedSince' = [arrivedSince EXCEPT ![l] = {}]
        /\ UNCHANGED <<snapshot, origin, sharedRows>>
    BY <1>0, <1>8, LinkBounds DEF BatchFails
  <2>2. MoveIsSound(l, LinkerResting)
    BY RestingHasNothing, LinkBounds DEF MoveIsSound
  <2>3. OnlyLinksChange
    BY <1>0, <2>1 DEF OnlyLinksChange
  <2>4. HoldsStayOpen(l, LinkerResting)
    BY <2>1, RestingHasNothing, LinkBounds DEF HoldsStayOpen
  <2>5. sharedRows \subseteq sharedRows' /\ sharedRows' \subseteq Snapshots
    BY <1>0, <2>1
  <2>. QED  BY <2>1, <2>2, <2>3, <2>4, <2>5, RestingHasNothing, LinkerStepKeepsLinkIInv
<1>9. CASE UNCHANGED linkVars
  <2>1. LinkTypeOK'
    BY <1>0, <1>9 DEF linkVars, LinkTypeOK
  <2>2. \A s \in Snapshots : InWindow(s)' = InWindow(s)
    BY <1>9 DEF linkVars, InWindow
  <2>. QED  BY <1>9, <2>1, <2>2, WorldKeepsLinkIInv DEF linkVars, LinkIInv
<1>. QED  BY <1>3, <1>4, <1>5, <1>6, <1>7, <1>8, <1>9, ArrivalsKeepLinkIInv,
            ErasePersonKeepsLinkIInv DEF LinkNext, LinkerStep

(* What LinksAreUnambiguous and LinksStay say of a step                    *)
LinkIsUnambiguous ==
    \A s \in Snapshots, a \in LinkApplications :
        snapshot[s].link # a /\ snapshot'[s].link = a =>
            \/ snapshot[s].names = a
            \/ \E l \in Linkers :
                  /\ linker[l].row = s /\ linker[l].match = a
                  /\ \/ snapshot[s].erased
                     \/ InWindow(s) \ arrivedSince[l] = {a}

LinkStays ==
    \A s \in Snapshots :
        snapshot[s].link # NoApplication /\ s \notin sharedRows =>
            snapshot'[s].link = snapshot[s].link

LEMMA LinkStepIsRight ==
    ASSUME LinkIInv, [LinkNext]_linkVars
    PROVE  LinkIsUnambiguous /\ LinkStays
<1>0. /\ snapshot \in [Snapshots -> SnapshotRec]
      /\ linker \in [Linkers -> LinkerRec]
  BY LinkTypes DEF LinkIInv
<1>1. ASSUME NEW s \in Snapshots, SnapshotArrives(s)
      PROVE  LinkIsUnambiguous /\ LinkStays
  <2>1. PICK n \in NewSnapshots : snapshot' = [snapshot EXCEPT ![s] = n]
    BY <1>1 DEF SnapshotArrives
  <2>2. n.link = NoApplication /\ snapshot[s].link = NoApplication
    BY <1>1 DEF NewSnapshots, SnapshotArrives, NoSnapshot
  <2>3. \A t \in Snapshots : snapshot'[t].link = snapshot[t].link
    BY <1>0, <2>1, <2>2
  <2>. QED  BY <2>3 DEF LinkIsUnambiguous, LinkStays
<1>2. ASSUME NEW p \in People, ErasePerson(p)
      PROVE  LinkIsUnambiguous /\ LinkStays
  <2>1. ASSUME NEW s \in Snapshots PROVE snapshot'[s].link = snapshot[s].link
    <3>1. snapshot'[s] = IF snapshot[s].about = p
                         THEN [snapshot[s] EXCEPT !.erased = TRUE]
                         ELSE snapshot[s]
      BY <1>2 DEF ErasePerson
    <3>2. snapshot[s] \in SnapshotRec
      BY <1>0
    <3>. QED  BY <3>1, <3>2 DEF SnapshotRec
  <2>. QED  BY <2>1 DEF LinkIsUnambiguous, LinkStays
<1>3. ASSUME NEW l \in Linkers, WriteLink(l)
      PROVE  LinkIsUnambiguous /\ LinkStays
  <2> DEFINE r == linker[l].row
  <2>1. /\ linker[l].pc = "write" /\ r \in Snapshots
        /\ MatchIsSound(l) /\ Has(l, r)
    BY <1>3 DEF WriteLink, LinkIInv, LinkerIsSound, Has
  <2>2. /\ snapshot'[r].link = linker[l].match
        /\ \A s \in Snapshots \ {r} : snapshot'[s] = snapshot[s]
    <3>1. snapshot[r] \in SnapshotRec
      BY <1>0, <2>1
    <3>. QED  BY <1>0, <1>3, <2>1, <3>1 DEF WriteLink, SnapshotRec
  <2>3. LinkIsUnambiguous
    BY <2>1, <2>2 DEF LinkIsUnambiguous, MatchIsSound
  <2>4. r \notin sharedRows => snapshot[r].link = NoApplication
    BY <2>1 DEF LinkIInv, HeldUnlinked
  <2>. QED  BY <2>2, <2>3, <2>4 DEF LinkStays
<1>4. CASE UNCHANGED snapshot
  BY <1>4 DEF LinkIsUnambiguous, LinkStays
<1>. QED  BY <1>1, <1>2, <1>3, <1>4
         DEF LinkNext, LinkerStep, linkVars, ApplicationArrives, ReadBatch, TakeRow,
             MatchId, MatchPerson, BatchFails

-----------------------------------------------------------------------------
(* The behaviours of MCTenants: a part takes its own steps, or none.       *)

LEMMA TenantsStepIsOfItsPart ==
    [TenantsNext]_<<part, keyVars, erasureVars, linkVars>> =>
        [KeyNext]_keyVars /\ [ErasureNext]_erasureVars /\ [LinkNext]_linkVars
BY DEF TenantsNext

(* The key service: an organization has one active key version at a time,  *)
(* one that is active after a shred was made by a rotation the shred ran   *)
(* into, and the process that shredded has none of the keys left but those *)
(* a request of its own put back.                                          *)
THEOREM KeysAreAlwaysAccountedFor == TenantsSpec => []KeysAreAccountedFor
<1>1. TenantsInit => KeyIInv
  BY KeyInitIInv DEF TenantsInit
<1>2. KeyIInv /\ [TenantsNext]_<<part, keyVars, erasureVars, linkVars>> => KeyIInv'
  BY TenantsStepIsOfItsPart, KeyStepKeepsIInv
<1>3. KeyIInv => KeysAreAccountedFor
  BY DEF KeyIInv, KeysAreAccountedFor
<1>. QED  BY <1>1, <1>2, <1>3, PTL DEF TenantsSpec

LEMMA ErasureInvariantHolds == TenantsSpec => []ErasureIInv
<1>1. TenantsInit => ErasureIInv
  BY ErasureInitIInv DEF TenantsInit
<1>2. ErasureIInv /\ [TenantsNext]_<<part, keyVars, erasureVars, linkVars>>
         => ErasureIInv'
  BY TenantsStepIsOfItsPart, ErasureStepKeepsIInv
<1>. QED  BY <1>1, <1>2, PTL DEF TenantsSpec

(* The erasure service: two requests of a person are open only after two   *)
(* submissions at once, and of a completed request nothing is left but     *)
(* what came after the scan or what the re-encryption worker wrote back.   *)
THEOREM ErasuresAreAlwaysSound == TenantsSpec => []ErasuresAreSound
BY ErasureInvariantHolds, ErasureIInvIsEnough, PTL

(* Nobody has a completed request, unless it was had twice.                *)
LEMMA ErasureStepKeepsCompletions ==
    ASSUME ErasureIInv, [ErasureNext]_erasureVars,
           NEW q \in Requests, request[q] = "COMPLETED", q \notin overlapped
    PROVE  request'[q] = "COMPLETED" /\ counted'[q] = counted[q]
<1>0. /\ request \in [Requests -> RequestStates]
      /\ counted \in [Requests -> 0 .. Cardinality(Records)]
      /\ \A p \in Processors : processing[p].of # q
  BY DEF ErasureIInv, ErasureTypes, RequestsAreHeldOpenly
<1>1. ASSUME NEW p \in Processors, CommitErasure(p)
      PROVE  request'[q] = "COMPLETED" /\ counted'[q] = counted[q]
  BY <1>0, <1>1 DEF CommitErasure
<1>2. ASSUME NEW p \in Processors, RecordFailure(p)
      PROVE  request'[q] = "COMPLETED" /\ counted'[q] = counted[q]
  BY <1>0, <1>2 DEF RecordFailure
<1>3. ASSUME NEW r \in Requests, Submit(r)
      PROVE  request'[q] = "COMPLETED" /\ counted'[q] = counted[q]
  BY <1>0, <1>3 DEF Submit
<1>. QED  BY <1>0, <1>1, <1>2, <1>3
         DEF ErasureNext, ProcessingStep, Reencryption, erasureVars, RecordArrives,
             Ask, Process, TakeUp, ScanApplications, ScanEnrichments, AbortErasure,
             ProcessorDies, ReadOld, WriteBack, SkipBadRow, ReencryptionFails

(* Two processors that had a request at once are all that can undo its     *)
(* completion or change its counts.                                        *)
THEOREM CompletionIsAlwaysFinal == TenantsSpec => CompletionIsFinal
<1> DEFINE Final == \A q \in Requests :
              request[q] = "COMPLETED" /\ q \notin overlapped =>
                  request'[q] = "COMPLETED" /\ counted'[q] = counted[q]
<1>1. ErasureIInv /\ [TenantsNext]_<<part, keyVars, erasureVars, linkVars>>
         => [Final]_erasureVars
  <2>. SUFFICES ASSUME ErasureIInv, [ErasureNext]_erasureVars PROVE [Final]_erasureVars
    BY TenantsStepIsOfItsPart
  <2>. QED  BY ErasureStepKeepsCompletions
<1>2. TenantsSpec => [][Final]_erasureVars
  <2>. HIDE DEF Final
  <2>. QED  BY <1>1, ErasureInvariantHolds, PTL DEF TenantsSpec
<1>. QED  BY <1>2 DEF CompletionIsFinal

LEMMA LinkInvariantHolds == TenantsSpec => []LinkIInv
<1>1. TenantsInit => LinkIInv
  BY LinkInitIInv DEF TenantsInit
<1>2. LinkIInv /\ [TenantsNext]_<<part, keyVars, erasureVars, linkVars>>
         => LinkIInv'
  BY TenantsStepIsOfItsPart, LinkStepKeepsIInv
<1>. QED  BY <1>1, <1>2, PTL DEF TenantsSpec

(* The correlation linker: a link is to the application the snapshot names *)
(* or to the only one of its person around it when the replica looked, and *)
(* it is never changed unless two replicas had the snapshot at once.       *)
THEOREM LinksAreAlwaysRight == TenantsSpec => LinksAreRight
<1>1. LinkIInv /\ [TenantsNext]_<<part, keyVars, erasureVars, linkVars>>
         => [LinkIsUnambiguous]_linkVars /\ [LinkStays]_linkVars
  BY TenantsStepIsOfItsPart, LinkStepIsRight
<1>2. TenantsSpec => [][LinkIsUnambiguous]_linkVars /\ [][LinkStays]_linkVars
  BY <1>1, LinkInvariantHolds, PTL DEF TenantsSpec
<1>3. LinkIInv => LinkTypeOK
  BY DEF LinkIInv
<1>4. TenantsSpec => []LinkTypeOK
  BY <1>3, LinkInvariantHolds, PTL
<1>. QED  BY <1>2, <1>4
         DEF LinksAreRight, LinksAreUnambiguous, LinksStay, LinkIsUnambiguous, LinkStays
=============================================================================
