------------------------------ MODULE MCTenants ------------------------------
(***************************************************************************)
(* What is kept of people and of tenants, for TLC: the keys a tenant's     *)
(* data is encrypted under (TenantKeys), the erasure of a person and the   *)
(* re-encryption of old rows (Erasure), and the linking of credit          *)
(* snapshots to applications (CorrelationLinker).  A behaviour is one of   *)
(* the part that its initial state names.                                  *)
(***************************************************************************)
EXTENDS TenantKeys, Erasure, CorrelationLinker, TLC

VARIABLE part

TenantsInit ==
    /\ part \in {"keys", "erasure", "links"}
    /\ KeyInit /\ ErasureInit /\ LinkInit
    /\ part # "erasure" => \A r \in Records : record[r] = Absent

TenantsNext ==
    \/ /\ part = "keys" /\ KeyNext
       /\ UNCHANGED <<part, erasureVars, linkVars>>
    \/ /\ part = "erasure" /\ ErasureNext
       /\ UNCHANGED <<part, keyVars, linkVars>>
    \/ /\ part = "links" /\ LinkNext
       /\ UNCHANGED <<part, keyVars, erasureVars>>

(* The fairness of the parts, each in its own behaviours                   *)
TenantsFairness ==
    /\ \A p \in Processes :
          /\ WF_keyVars(part = "keys" /\ (Resolve(p) \/ Unwrap(p) \/ Fill(p)))
          /\ WF_keyVars(part = "keys" /\ (ReadLatest(p) \/ CommitRotation(p)))
          /\ \A k \in Versions : WF_keyVars(part = "keys" /\ Expire(p, k))
    /\ \A p \in Processors :
          WF_erasureVars(part = "erasure" /\ ProcessingStep(p))
    /\ WF_erasureVars(/\ part = "erasure"
                      /\ \E q \in Requests : Process(LifecycleWorker, q))
    /\ WF_erasureVars(part = "erasure" /\ Reencryption)
    /\ \A l \in Linkers : WF_linkVars(part = "links" /\ LinkerStep(l))

TenantsSpec ==
    /\ TenantsInit /\ [][TenantsNext]_<<part, keyVars, erasureVars, linkVars>>
    /\ TenantsFairness

-----------------------------------------------------------------------------

(* What was asked for takes hold in the end: a shredded key is forgotten   *)
(* everywhere, a request for erasure is decided, an old row is rewritten,  *)
(* a snapshot that names its application is linked to it.                  *)
(* A behaviour being of one part, this is ShredTakesHold,                  *)
(* RequestsAreDecided, OldRowsAreReencrypted, LinkableSnapshotsAreLinked.  *)
TenantWorkEnds ==
    /\ ShredTakesHold
    /\ []<>(EveryRequestIsDecided /\ NoOldRowIsNext /\ NoneIsLinkable)
=============================================================================
