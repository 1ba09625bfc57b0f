--------------------------- MODULE ApplicationDrain ---------------------------
(***************************************************************************)
(* EazepayAppProcessor: how events of the EazePay App reach one            *)
(* application, its merchant and the tenant's ledger.                      *)
(*                                                                         *)
(* An event is handled in one interactive transaction: it looks its rows   *)
(* up, then writes, announces on the WebSocket channel and commits.        *)
(* Several events are in progress together and see only what others        *)
(* committed.  A unique violation inside the transaction is caught by the  *)
(* handler, but Postgres has aborted the transaction by then and its       *)
(* COMMIT rolls everything back without an error.                          *)
(***************************************************************************)
CONSTANT Events     \* deliveries, each with an idempotency key of its own

Kinds == {"offer", "contract", "contract without lender", "decline", "funding",
          "onboarding", "offboarding", "revenue", "unmapped", "malformed"}

VARIABLES
    kind,               \* what each event says, "none" before it is received
    row,                \* status of each webhook_events row
    at,                 \* where the handling of each event is
    verdict,            \* what the lookups decided
    application,        \* status of the application, "none" before it exists
    partner,            \* the merchant: "none", "active" or "deleted"
    ledger,             \* events that have a row in revenue_events
    decisions,          \* events that have a row in lender_decisions
    published,          \* events that were published as revenue.event
    aborted             \* events whose transaction failed or was lost

domain == <<application, partner, ledger, decisions>>
drainVars == <<kind, row, at, verdict, domain, published, aborted>>

(* lenderName is optional in the envelope of a contract.                   *)
Contracts == {"contract", "contract without lender"}

Statuses == {"OFFERED", "CONTRACTED", "DECLINED", "FUNDED"}

OfKind(k) == {e \in Events : kind[e] = k}
ApplicationEvents ==
    {e \in Events : kind[e] \in Contracts \cup {"offer", "decline", "funding"}}
PartnerEvents == OfKind("onboarding") \cup OfKind("offboarding")
LedgerEvents == OfKind("funding") \cup OfKind("revenue")

DrainTypeOK ==
    /\ kind \in [Events -> Kinds \cup {"none"}]
    /\ row \in [Events -> {"none", "RECEIVED", "QUARANTINED", "PROCESSED",
                           "FAILED"}]
    /\ at \in [Events -> {"idle", "lookup", "write", "commit", "finish",
                          "failed", "over"}]
    /\ verdict \in [Events -> {"none", "apply", "quarantine", "drop", "doomed"}]
    /\ application \in Statuses \cup {"none"}
    /\ partner \in {"none", "active", "deleted"}
    /\ ledger \subseteq LedgerEvents
    /\ decisions \subseteq OfKind("contract")
    /\ published \subseteq LedgerEvents
    /\ aborted \subseteq Events
    /\ \A e \in Events : /\ at[e] = "idle" <=> row[e] = "none"
                         /\ at[e] = "idle" <=> kind[e] = "none"
                         /\ at[e] \in {"write", "commit"} => verdict[e] # "none"
                         /\ row[e] = "QUARANTINED" => at[e] \in {"finish", "over"}

(* A tenant in use: a merchant may be onboarded, and have made an offer.   *)
DrainInit ==
    /\ kind = [e \in Events |-> "none"]
    /\ row = [e \in Events |-> "none"]
    /\ at = [e \in Events |-> "idle"]
    /\ verdict = [e \in Events |-> "none"]
    /\ partner \in {"none", "active"}
    /\ application \in IF partner = "none" THEN {"none"} ELSE {"none", "OFFERED"}
    /\ ledger = {} /\ decisions = {} /\ published = {} /\ aborted = {}

(* The ledger key: fundings of the application share one, and so do the    *)
(* deliveries of one revenue or repayment event of the vendor.             *)
KeyOf(e) == kind[e]

(* Rows the event's transaction writes and holds locked until it ends.     *)
Locks(e) ==
    (IF e \in ApplicationEvents THEN {"application"} ELSE {})
    \cup (IF e \in PartnerEvents THEN {"partner"} ELSE {})
    \cup (IF e \in LedgerEvents THEN {KeyOf(e)} ELSE {})

Blocked(e) ==
    /\ verdict[e] = "apply"
    /\ \E d \in Events \ {e} : /\ at[d] = "commit"
                               /\ verdict[d] \in {"apply", "doomed"}
                               /\ Locks(d) \cap Locks(e) # {}

-----------------------------------------------------------------------------

(* Defect: the event is handled before its row exists.                     *)
ReceiveUnrecorded(e) ==
    /\ at[e] = "idle"
    /\ \E k \in Kinds : kind' = [kind EXCEPT ![e] = k]
    /\ at' = [at EXCEPT ![e] = "lookup"]
    /\ UNCHANGED <<row, verdict, domain, published, aborted>>

(* POST /ingestion/events creates the row and calls the processor.         *)
ReceiveDelivery(e) ==
    /\ at[e] = "idle"
    /\ \E k \in Kinds : kind' = [kind EXCEPT ![e] = k]
    /\ row' = [row EXCEPT ![e] = "RECEIVED"]
    /\ at' = [at EXCEPT ![e] = "lookup"]
    /\ UNCHANGED <<verdict, domain, published, aborted>>

(* What each handler needs to find before it writes; the brand of an       *)
(* unmapped event has no organisation.                                     *)
Finds(e) ==
    CASE kind[e] \in {"offer", "revenue"} -> partner = "active"
      [] kind[e] \in Contracts \cup {"decline", "funding"} -> application # "none"
      [] kind[e] = "offboarding" -> partner # "none"
      [] kind[e] = "onboarding" -> TRUE
      [] kind[e] = "unmapped" -> FALSE

(* parse, resolveOrgId and the first query of the handler.                 *)
Lookup(e) ==
    /\ at[e] = "lookup"
    /\ verdict' = [verdict EXCEPT ![e] =
                      IF kind[e] = "malformed" THEN "drop"
                      ELSE IF Finds(e) THEN "apply" ELSE "quarantine"]
    /\ at' = [at EXCEPT ![e] = "write"]
    /\ UNCHANGED <<kind, row, domain, published, aborted>>

(* Defect: the key of the ledger row is not checked.                       *)
WriteUnchecked(e) ==
    /\ at[e] = "write" /\ ~Blocked(e)
    /\ published' = published \cup
                       {d \in {e} : verdict[e] = "apply" /\ e \in LedgerEvents}
    /\ at' = [at EXCEPT ![e] = "commit"]
    /\ UNCHANGED <<kind, row, verdict, domain, aborted>>

(* The writes up to the commit: a duplicate key aborts the transaction, a  *)
(* new ledger row is published.                                            *)
Write(e) ==
    LET writesLedger == verdict[e] = "apply" /\ e \in LedgerEvents
        duplicate == writesLedger /\ \E d \in ledger : KeyOf(d) = KeyOf(e)
    IN
    /\ at[e] = "write" /\ ~Blocked(e)
    /\ verdict' = [verdict EXCEPT ![e] = IF duplicate THEN "doomed" ELSE @]
    /\ published' = IF writesLedger /\ ~duplicate THEN published \cup {e}
                                                  ELSE published
    /\ at' = [at EXCEPT ![e] = "commit"]
    /\ UNCHANGED <<kind, row, domain, aborted>>

StatusAfter(e) ==
    CASE kind[e] = "offer" -> "OFFERED"
      [] kind[e] \in Contracts -> "CONTRACTED"
      [] kind[e] = "decline" -> "DECLINED"
      [] kind[e] = "funding" -> "FUNDED"
      [] OTHER -> application

PartnerAfter(e) ==
    CASE kind[e] = "onboarding" /\ partner = "none" -> "active"
      [] kind[e] = "offboarding" -> "deleted"
      [] OTHER -> partner

(* Defect: the ledger and decision rows are left to another connection.    *)
ApplyStatusOnly(e) ==
    /\ application' = StatusAfter(e)
    /\ partner' = PartnerAfter(e)
    /\ UNCHANGED <<ledger, decisions>>

(* Onboarding a deleted merchant updates its name and leaves it deleted.   *)
Apply(e) ==
    /\ application' = StatusAfter(e)
    /\ partner' = PartnerAfter(e)
    /\ ledger' = ledger \cup ({e} \cap LedgerEvents)
    /\ decisions' = decisions \cup ({e} \cap OfKind("contract"))

(* COMMIT: the quarantine marks the row; a doomed transaction rolls back.  *)
Commit(e) ==
    /\ at[e] = "commit"
    /\ at' = [at EXCEPT ![e] = "finish"]
    /\ row' = IF verdict[e] = "quarantine"
                THEN [row EXCEPT ![e] = "QUARANTINED"] ELSE row
    /\ IF verdict[e] = "apply" THEN Apply(e) ELSE UNCHANGED domain
    /\ UNCHANGED <<kind, verdict, published, aborted>>

(* Defect: the error is swallowed and the event counts as handled.         *)
TransactionFailsQuietly(e) ==
    /\ at[e] \in {"lookup", "write", "commit"}
    /\ at' = [at EXCEPT ![e] = "finish"]
    /\ UNCHANGED <<kind, row, verdict, domain, published, aborted>>

(* The database or the publish fails, or the transaction times out.        *)
TransactionFails(e) ==
    /\ at[e] \in {"lookup", "write", "commit"}
    /\ at' = [at EXCEPT ![e] = "failed"]
    /\ aborted' = aborted \cup {e}
    /\ UNCHANGED <<kind, row, verdict, domain, published>>

Ends(e) ==
    /\ at' = [at EXCEPT ![e] = "over"]
    /\ verdict' = [verdict EXCEPT ![e] = "none"]

(* WebhookProcessor marks the row PROCESSED whatever the drain decided.    *)
MarkDrained(e) ==
    /\ at[e] = "finish"
    /\ row' = [row EXCEPT ![e] = "PROCESSED"]
    /\ Ends(e)
    /\ UNCHANGED <<kind, domain, published, aborted>>

(* Its catch: the drain threw, or that update or the audit after it did.   *)
MarkFailed(e) ==
    /\ at[e] \in {"failed", "finish"}
    /\ row' = [row EXCEPT ![e] = "FAILED"]
    /\ Ends(e)
    /\ UNCHANGED <<kind, domain, published, aborted>>

(* The process dies; nothing retries an inline event.                      *)
Crash(e) ==
    /\ at[e] \notin {"idle", "over"}
    /\ Ends(e)
    /\ aborted' = IF at[e] \in {"lookup", "write", "commit"}
                    THEN aborted \cup {e} ELSE aborted
    /\ UNCHANGED <<kind, row, domain, published>>

-----------------------------------------------------------------------------

DrainNext ==
    \E e \in Events :
        \/ ReceiveDelivery(e) \/ Lookup(e) \/ Write(e) \/ Commit(e)
        \/ TransactionFails(e) \/ MarkDrained(e) \/ MarkFailed(e)
        \/ Crash(e)

DrainSpec == DrainInit /\ [][DrainNext]_drainVars

-----------------------------------------------------------------------------
(* Properties                                                              *)

(* The tables of a tenant agree, in whatever order events commit: an       *)
(* application that is FUNDED has its funding in the ledger, and one that  *)
(* is CONTRACTED has the lender's decision, if each contract names one.    *)
StatusIsBackedByItsRecords ==
    /\ application = "FUNDED" => ledger \cap OfKind("funding") # {}
    /\ application = "CONTRACTED" =>
        decisions # {} \/ OfKind("contract without lender") # {}

(* However often a funding or a revenue event is sent under new delivery   *)
(* keys, the ledger has one row for it, also when two are in progress.     *)
LedgerHasOneRowPerKey ==
    \A d, e \in ledger : KeyOf(d) = KeyOf(e) => d = e

(* Dashboards and the ledger agree: every ledger row was published, and an *)
(* published event without a row has its transaction open or lost it.      *)
AnnouncementsMatchTheLedger ==
    /\ ledger \subseteq published
    /\ \A e \in published : e \in ledger \/ e \in aborted \/ at[e] = "commit"

(* The comment on quarantine says the operator can later triage such a     *)
(* row: handling an event to its end does not take it out of quarantine.   *)
QuarantinedAwaitTriage ==
    [][\A e \in Events : row[e] = "QUARANTINED" => row'[e] # "PROCESSED"]_drainVars

(* The tenant's books agree: statuses, decisions, ledger, announcements.   *)
BooksAgree ==
    /\ DrainTypeOK
    /\ StatusIsBackedByItsRecords
    /\ LedgerHasOneRowPerKey
    /\ AnnouncementsMatchTheLedger
=============================================================================
