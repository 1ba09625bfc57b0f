------------------------------ MODULE VendorDrains ------------------------------
(***************************************************************************)
(* How revenue that the other vendors report reaches the ledger: HighSale, *)
(* Aurean AI and Aurean Recruitment, whose drains work in one transaction  *)
(* and quarantine what names an unknown merchant, and MiCamp, whose        *)
(* handler throws instead.                                                 *)
(*                                                                         *)
(* One tenant, one merchant.  Amounts are left out: an event stands for    *)
(* its figures.                                                            *)
(***************************************************************************)
EXTENDS Naturals, FiniteSets

CONSTANTS
    VendorEvents,       \* deliveries
    References,         \* what the ledger key of a report is made of: the
                        \* vendor's event id, for MiCamp the time it is for
    NoReport,
    VendorTries,        \* attempts of a job
    MaxVendorFaults     \* bound: steps that fail, workers that die

ASSUME VendorOptions ==
    VendorTries \in Nat \ {0} /\ MaxVendorFaults \in Nat

(* revenue.accrued and revenue.recorded, commission.earned and             *)
(* placement.rescinded; processing and reversal.                           *)
DrainKinds == {"accrual", "commission", "clawback"}
MicampKinds == {"fee", "reversal"}
RevenueKinds == DrainKinds \cup MicampKinds

(* Events that are only announced or audited; payloads that do not parse.  *)
OtherKinds == {"notice", "unparsed", "unparsed fee"}

Reports == [kind : RevenueKinds, ref : References] \cup [kind : OtherKinds]

ASSUME NoReportIsNone == NoReport \notin Reports

VARIABLES
    report,             \* per event: what it says
    vendorRow,          \* status of its webhook_events row
    vendorJob,          \* its job: how far it is, attempts begun
    merchant,
    revenueRows,        \* revenue_events: key, and the event it is from
    vendorFaults,
    unfound             \* history: events whose last lookup of the merchant
                        \* found none

vendorVars == <<report, vendorRow, vendorJob, merchant, revenueRows,
                vendorFaults, unfound>>

VendorTypeOK ==
    /\ report \in [VendorEvents -> Reports \cup {NoReport}]
    /\ vendorRow \in [VendorEvents -> {"none", "RECEIVED", "QUARANTINED",
                                       "PROCESSED", "FAILED"}]
    /\ vendorJob \in [VendorEvents ->
                         [pc : {"none", "waiting", "lookup", "write", "finish",
                                "failing", "over"},
                          tries : 0 .. VendorTries]]
    /\ merchant \in {"none", "active", "deleted"}
    /\ revenueRows \subseteq [key : RevenueKinds \X References,
                              of : VendorEvents]
    /\ vendorFaults \in 0 .. MaxVendorFaults
    /\ unfound \subseteq VendorEvents

VendorInit ==
    /\ report = [e \in VendorEvents |-> NoReport]
    /\ vendorRow = [e \in VendorEvents |-> "none"]
    /\ vendorJob = [e \in VendorEvents |-> [pc |-> "none", tries |-> 0]]
    /\ merchant \in {"none", "active"}
    /\ revenueRows = {} /\ vendorFaults = 0 /\ unfound = {}

VendorPc(e, pc) == vendorJob' = [vendorJob EXCEPT ![e].pc = pc]

(* Defect: clawbacks have the keys of commissions.                         *)
OneKeyPerPlacement(r) ==
    <<IF r.kind = "clawback" THEN "commission" ELSE r.kind, r.ref>>

(* Each kind has a prefix of its own.                                      *)
RevenueKey(r) == <<r.kind, r.ref>>

Booked(e) == \E row \in revenueRows : row.key = RevenueKey(report[e])

-----------------------------------------------------------------------------
(* The tenant's merchants                                                  *)

(* The external id of a deleted merchant is not given again.               *)
CreateMerchant ==
    /\ merchant = "none"
    /\ merchant' = "active"
    /\ UNCHANGED <<report, vendorRow, vendorJob, revenueRows, vendorFaults,
                   unfound>>

DeleteMerchant ==
    /\ merchant = "active"
    /\ merchant' = "deleted"
    /\ UNCHANGED <<report, vendorRow, vendorJob, revenueRows, vendorFaults,
                   unfound>>

-----------------------------------------------------------------------------
(* The jobs                                                                *)

(* Stored and enqueued: Outbox, WebhookPipeline.                           *)
ReceiveReport(e) ==
    /\ report[e] = NoReport
    /\ \E r \in Reports : report' = [report EXCEPT ![e] = r]
    /\ vendorRow' = [vendorRow EXCEPT ![e] = "RECEIVED"]
    /\ VendorPc(e, "waiting")
    /\ UNCHANGED <<merchant, revenueRows, vendorFaults, unfound>>

BeginReport(e) ==
    /\ vendorJob[e].pc = "waiting"
    /\ vendorJob' = [vendorJob EXCEPT ![e].pc = "lookup", ![e].tries = @ + 1]
    /\ UNCHANGED <<report, vendorRow, merchant, revenueRows, vendorFaults,
                   unfound>>

(* Nothing for the ledger; what a drain cannot parse is logged, what       *)
(* MiCamp's handler cannot is thrown.                                      *)
NotRevenue(e) ==
    /\ vendorJob[e].pc = "lookup" /\ report[e].kind \in OtherKinds
    /\ VendorPc(e, IF report[e].kind = "unparsed fee" THEN "failing"
                                                      ELSE "finish")
    /\ UNCHANGED <<report, vendorRow, merchant, revenueRows, vendorFaults,
                   unfound>>

FindMerchant(e) ==
    /\ vendorJob[e].pc = "lookup" /\ report[e].kind \in RevenueKinds
    /\ merchant = "active"
    /\ VendorPc(e, "write")
    /\ unfound' = unfound \ {e}
    /\ UNCHANGED <<report, vendorRow, merchant, revenueRows, vendorFaults>>

(* The drains quarantine the event, MiCamp's handler throws.               *)
MissMerchant(e) ==
    /\ vendorJob[e].pc = "lookup" /\ report[e].kind \in RevenueKinds
    /\ merchant # "active"
    /\ IF report[e].kind \in DrainKinds
       THEN /\ vendorRow' = [vendorRow EXCEPT ![e] = "QUARANTINED"]
            /\ VendorPc(e, "finish")
       ELSE VendorPc(e, "failing") /\ UNCHANGED vendorRow
    /\ unfound' = unfound \cup {e}
    /\ UNCHANGED <<report, merchant, revenueRows, vendorFaults>>

(* create and commit, whatever has become of the merchant; a unique        *)
(* violation is taken for the report having been recorded already.         *)
RecordReport(e) ==
    /\ vendorJob[e].pc = "write"
    /\ revenueRows' = IF Booked(e) THEN revenueRows
                      ELSE revenueRows \cup {[key |-> RevenueKey(report[e]),
                                              of |-> e]}
    /\ VendorPc(e, "finish")
    /\ UNCHANGED <<report, vendorRow, merchant, vendorFaults, unfound>>

VendorFault ==
    vendorFaults < MaxVendorFaults /\ vendorFaults' = vendorFaults + 1

(* Defect: a failure of the transaction is swallowed with the violation.   *)
ReportFailsQuietly(e) ==
    /\ vendorJob[e].pc \in {"lookup", "write", "finish"} /\ VendorFault
    /\ VendorPc(e, "finish")
    /\ UNCHANGED <<report, vendorRow, merchant, revenueRows, unfound>>

(* The database fails, or a publish or an audit after the commit.          *)
ReportFails(e) ==
    /\ vendorJob[e].pc \in {"lookup", "write", "finish"} /\ VendorFault
    /\ VendorPc(e, "failing")
    /\ UNCHANGED <<report, vendorRow, merchant, revenueRows, unfound>>

(* process: whatever the drain has decided.                                *)
MarkReportProcessed(e) ==
    /\ vendorJob[e].pc = "finish"
    /\ vendorRow' = [vendorRow EXCEPT ![e] = "PROCESSED"]
    /\ VendorPc(e, "over")
    /\ UNCHANGED <<report, merchant, revenueRows, vendorFaults, unfound>>

(* Defect: the job is not failed, and so not tried again.                  *)
MarkReportFailedOnly(e) ==
    /\ vendorJob[e].pc = "failing"
    /\ vendorRow' = [vendorRow EXCEPT ![e] = "FAILED"]
    /\ VendorPc(e, "over")
    /\ UNCHANGED <<report, merchant, revenueRows, vendorFaults, unfound>>

(* process's catch, which throws again for the queue to try again.         *)
MarkReportFailed(e) ==
    /\ vendorJob[e].pc = "failing"
    /\ vendorRow' = [vendorRow EXCEPT ![e] = "FAILED"]
    /\ VendorPc(e, IF vendorJob[e].tries < VendorTries THEN "waiting"
                                                       ELSE "over")
    /\ UNCHANGED <<report, merchant, revenueRows, vendorFaults, unfound>>

(* The worker dies: the queue gives the job out again.                     *)
ReportStalls(e) ==
    /\ vendorJob[e].pc \in {"lookup", "write", "finish", "failing"}
    /\ VendorFault
    /\ vendorJob' = [vendorJob EXCEPT ![e].pc = "waiting", ![e].tries = @ - 1]
    /\ UNCHANGED <<report, vendorRow, merchant, revenueRows, unfound>>

-----------------------------------------------------------------------------

VendorStep(e) ==
    \/ BeginReport(e) \/ NotRevenue(e) \/ FindMerchant(e) \/ MissMerchant(e)
    \/ RecordReport(e) \/ MarkReportProcessed(e) \/ MarkReportFailed(e)

VendorNext ==
    \/ CreateMerchant \/ DeleteMerchant
    \/ \E e \in VendorEvents :
          ReceiveReport(e) \/ VendorStep(e) \/ ReportFails(e) \/ ReportStalls(e)

(* The queue's workers run.                                                *)
VendorFairness == \A e \in VendorEvents : WF_vendorVars(VendorStep(e))

VendorSpec == VendorInit /\ [][VendorNext]_vendorVars /\ VendorFairness

-----------------------------------------------------------------------------
(* Properties                                                              *)

(* PROCESSED tells the truth about money: the report has its row in the    *)
(* ledger, its own or one of a report with the same key, unless the        *)
(* merchant was not found.  A commission and its clawback never stand for  *)
(* each other, though they may have one external id.                       *)
ProcessedRevenueIsBooked ==
    \A e \in VendorEvents :
        /\ vendorRow[e] = "PROCESSED" /\ report[e].kind \in RevenueKinds
        /\ e \notin unfound
        => \E row \in revenueRows :
              /\ row.key = RevenueKey(report[e])
              /\ report[row.of] = report[e]

SettledVendor(e) ==
    \/ report[e].kind \in OtherKinds
    \/ Booked(e) \/ e \in unfound
    \/ vendorRow[e] = "FAILED" /\ vendorJob[e].tries = VendorTries

EveryReportIsSettled ==
    \A e \in VendorEvents :
        \/ vendorJob[e].pc = "none"
        \/ vendorJob[e].pc = "over" /\ SettledVendor(e)

(* Reported revenue does not get stuck: it is booked, fails every attempt, *)
(* or names a merchant that is unknown.                                    *)
ReportedRevenueSettles == []<>EveryReportIsSettled
=============================================================================
