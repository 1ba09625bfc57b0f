------------------------------ MODULE MCDrains ------------------------------
(***************************************************************************)
(* Jobs and what they bring into the books, for TLC: the queue and         *)
(* processor of WebhookPipeline, the metering of PIXIE, the drains of the  *)
(* other vendors, and the lenders that are polled behind their breakers.   *)
(* A behaviour is one of the part that its initial state names.            *)
(***************************************************************************)
EXTENDS WebhookPipeline, PixieMetering, VendorDrains, LenderPolling,
        CircuitBreaker, TLC

VARIABLE part

drainsVars ==
    <<part, vars, meterVars, vendorVars, lenderVars, breakerVars>>

DrainsInit ==
    /\ part \in {"pipeline", "metering", "vendors", "lenders", "breaker"}
    /\ Init /\ MeterInit /\ VendorInit /\ LenderInit /\ BreakerInit
    /\ part # "vendors" => merchant = "none"

OthersRest ==
    /\ part' = part
    /\ part # "pipeline" => UNCHANGED vars
    /\ part # "metering" => UNCHANGED meterVars
    /\ part # "vendors" => UNCHANGED vendorVars
    /\ part # "lenders" => UNCHANGED lenderVars
    /\ part # "breaker" => UNCHANGED breakerVars

DrainsNext ==
    /\ OthersRest
    /\ \/ part = "pipeline" /\ Next
       \/ part = "metering" /\ MeterNext
       \/ part = "vendors" /\ VendorNext
       \/ part = "lenders" /\ LenderNext
       \/ part = "breaker" /\ BreakerNext

(* The fairness of the modules, each in its own behaviours                 *)
DrainsFairness ==
    /\ \A w \in Workers : WF_vars(part = "pipeline" /\ WorkerStep(w))
    /\ \A j \in Jobs : WF_vars(part = "pipeline" /\ RecoverStalled(j))
    /\ \A k \in Keys : WF_vars(part = "pipeline" /\ RetireRow(k))
    /\ \A e \in UsageEvents :
          WF_meterVars(part = "metering" /\ MeterStep(e))
    /\ \A e \in VendorEvents :
          WF_vendorVars(part = "vendors" /\ VendorStep(e))
    /\ \A w \in PollReplicas :
          WF_lenderVars(part = "lenders" /\ PollStep(w))
    /\ WF_breakerVars(part = "breaker" /\ Tick)
    /\ WF_breakerVars(part = "breaker" /\ \E c \in Calls : BeginProbe(c))
    /\ \A c \in Calls : WF_breakerVars(part = "breaker" /\ CallEnds(c))

DrainsSpec ==
    DrainsInit /\ [][DrainsNext]_drainsVars /\ DrainsFairness

-----------------------------------------------------------------------------

(* What vendors report is in the ledger as they report it, once.           *)
ReportsAreBookedRight ==
    /\ MeterTypeOK /\ VendorTypeOK
    /\ DaysAreChargedOnce
    /\ CumulativeCountsEachDay
    /\ ProcessedRevenueIsBooked

(* And it gets there: usage and revenue settle, outages are probed, rows   *)
(* follow the lenders.  A behaviour being of one part, this is             *)
(* UsageReachesTheLedger, ReportedRevenueSettles, OutagesAreProbed and     *)
(* RowsFollowLenders.                                                      *)
ReportsArrive ==
    []<>(/\ EveryUsageIsMetered /\ EveryReportIsSettled
         /\ RowsAreCurrent /\ state # "OPEN")
=============================================================================
