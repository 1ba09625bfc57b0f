----------------------------- MODULE PixieMetering -----------------------------
(***************************************************************************)
(* handlePixie: how usage events of PIXIE become a partner's daily metrics *)
(* and rows of the revenue ledger.                                         *)
(*                                                                         *)
(* One partner; an event reports one day.  Each statement is a transaction *)
(* of its own, jobs of different events run at once, and a job that fails  *)
(* is begun again from the start.  Money is counted in 1/Breakpoint units, *)
(* so that the sliding price is exact; the rounding to cents is left out.  *)
(***************************************************************************)
EXTENDS Integers, FiniteSets, Folds

CONSTANTS
    UsageEvents,
    Days,
    PullCounts,         \* figures a usage event may have
    Collectives,
    Breakpoint,         \* PIXIE_VOLUME_BREAKPOINT
    BaseCost,           \* PIXIE_COST_PER_PULL
    BaseCharge,         \* PIXIE_CHARGE_PER_PULL
    NoUsage,
    MeterTries,         \* attempts of a job
    MaxMeterFaults      \* bound: steps that fail, workers that die

ASSUME MeteringOptions ==
    /\ PullCounts \subseteq Nat /\ Collectives \subseteq Nat
    /\ Breakpoint \in Nat \ {0} /\ BaseCost \in Nat /\ BaseCharge \in Nat
    /\ MeterTries \in Nat \ {0} /\ MaxMeterFaults \in Nat
    /\ IsFiniteSet(Days)

VARIABLES
    usage,              \* per event: what it reports
    meterJob,           \* per event: its job, how far it is, the sum it read
    metric,             \* per day: the row of pixie_metrics; history: the sum
                        \* of all days' pulls when it was written
    ledgerRows,         \* revenue_events, by idempotency key
    meterFaults,
    staleSums           \* history: days whose metric was written from a sum
                        \* read before another metric was

meterVars == <<usage, meterJob, metric, ledgerRows, meterFaults, staleSums>>

CostPerPull(collective) ==
    IF collective >= Breakpoint THEN BaseCost * Breakpoint
    ELSE BaseCost * (2 * Breakpoint - collective)

(* computePixieMargin                                                      *)
Total(u) ==
    u.pulls * (BaseCharge * Breakpoint - CostPerPull(u.collective))

Usages == [day : Days, pulls : PullCounts, collective : Collectives]
Totals == {Total(u) : u \in Usages}
Metrics == [pulls : PullCounts, total : Totals, cumulative : Nat, sumThen : Nat]

ASSUME NoUsageIsNone == NoUsage \notin Usages \cup Metrics

MeterTypeOK ==
    /\ usage \in [UsageEvents -> Usages \cup {NoUsage}]
    /\ meterJob \in [UsageEvents ->
                        [pc : {"none", "waiting", "sum", "metric", "ledger",
                               "done", "failed"},
                         sum : Nat, tries : 0 .. MeterTries]]
    /\ metric \in [Days -> Metrics \cup {NoUsage}]
    /\ ledgerRows \subseteq [key : Days \cup UsageEvents, day : Days,
                             amount : Totals]
    /\ meterFaults \in 0 .. MaxMeterFaults
    /\ staleSums \subseteq Days

MeterInit ==
    /\ usage = [e \in UsageEvents |-> NoUsage]
    /\ meterJob = [e \in UsageEvents |-> [pc |-> "none", sum |-> 0, tries |-> 0]]
    /\ metric = [d \in Days |-> NoUsage]
    /\ ledgerRows = {}
    /\ meterFaults = 0
    /\ staleSums = {}

Measured == {d \in Days : metric[d] # NoUsage}
SumOfPulls == MapThenFoldSet(+, 0, LAMBDA d : metric[d].pulls,
                             LAMBDA ds : CHOOSE d \in ds : TRUE, Measured)
MeterPc(e, pc) == meterJob' = [meterJob EXCEPT ![e].pc = pc]

-----------------------------------------------------------------------------

(* The event is stored and its job enqueued: Outbox, WebhookPipeline.      *)
ReceiveUsage(e) ==
    /\ usage[e] = NoUsage
    /\ \E u \in Usages : usage' = [usage EXCEPT ![e] = u]
    /\ MeterPc(e, "waiting")
    /\ UNCHANGED <<metric, ledgerRows, meterFaults, staleSums>>

BeginUsage(e) ==
    /\ meterJob[e].pc = "waiting"
    /\ meterJob' = [meterJob EXCEPT ![e].pc = "sum", ![e].tries = @ + 1]
    /\ UNCHANGED <<usage, metric, ledgerRows, meterFaults, staleSums>>

(* aggregate: all of the partner's days, this one included                 *)
ReadSum(e) ==
    /\ meterJob[e].pc = "sum"
    /\ meterJob' = [meterJob EXCEPT ![e].pc = "metric", ![e].sum = SumOfPulls]
    /\ UNCHANGED <<usage, metric, ledgerRows, meterFaults, staleSums>>

(* Defect: the day's own pulls are not added.                              *)
UpsertMetricShort(e) ==
    LET u == usage[e] IN
    /\ meterJob[e].pc = "metric"
    /\ metric' = [metric EXCEPT ![u.day] =
                     [pulls |-> u.pulls, total |-> Total(u),
                      cumulative |-> meterJob[e].sum, sumThen |-> SumOfPulls]]
    /\ staleSums' = IF meterJob[e].sum # SumOfPulls \/ u.day \in Measured
                    THEN staleSums \cup {u.day} ELSE staleSums
    /\ MeterPc(e, IF Total(u) # 0 THEN "ledger" ELSE "done")
    /\ UNCHANGED <<usage, ledgerRows, meterFaults>>

(* upsert, by day; nothing is recorded in the ledger for a total of zero.  *)
UpsertMetric(e) ==
    LET u == usage[e] IN
    /\ meterJob[e].pc = "metric"
    /\ metric' = [metric EXCEPT ![u.day] =
                     [pulls |-> u.pulls, total |-> Total(u),
                      cumulative |-> meterJob[e].sum + u.pulls,
                      sumThen |-> SumOfPulls]]
    /\ staleSums' = IF meterJob[e].sum # SumOfPulls \/ u.day \in Measured
                    THEN staleSums \cup {u.day} ELSE staleSums
    /\ MeterPc(e, IF Total(u) # 0 THEN "ledger" ELSE "done")
    /\ UNCHANGED <<usage, ledgerRows, meterFaults>>

(* Defect: one idempotency key per event, not per day.                     *)
RecordPerEvent(e) ==
    LET u == usage[e] IN
    /\ meterJob[e].pc = "ledger"
    /\ ledgerRows' = ledgerRows \cup {[key |-> e, day |-> u.day,
                                       amount |-> Total(u)]}
    /\ MeterPc(e, "done")
    /\ UNCHANGED <<usage, metric, meterFaults, staleSums>>

(* recordRevenue: a row of this day stays as it is.                        *)
RecordRevenue(e) ==
    LET u == usage[e] IN
    /\ meterJob[e].pc = "ledger"
    /\ ledgerRows' = IF \E r \in ledgerRows : r.key = u.day THEN ledgerRows
                     ELSE ledgerRows \cup {[key |-> u.day, day |-> u.day,
                                           amount |-> Total(u)]}
    /\ MeterPc(e, "done")
    /\ UNCHANGED <<usage, metric, meterFaults, staleSums>>

Fault(e) ==
    /\ meterJob[e].pc \in {"sum", "metric", "ledger"}
    /\ meterFaults < MaxMeterFaults
    /\ meterFaults' = meterFaults + 1

(* Defect: a failed job is not tried again.                                *)
UsageFailsForGood(e) ==
    /\ Fault(e)
    /\ meterJob' = [meterJob EXCEPT ![e].pc = "failed", ![e].sum = 0]
    /\ UNCHANGED <<usage, metric, ledgerRows, staleSums>>

(* It throws or the worker dies; it is tried again from the start.         *)
UsageFails(e) ==
    /\ Fault(e)
    /\ meterJob' = [meterJob EXCEPT
                       ![e].pc = IF meterJob[e].tries < MeterTries
                                 THEN "waiting" ELSE "failed",
                       ![e].sum = 0]
    /\ UNCHANGED <<usage, metric, ledgerRows, staleSums>>

-----------------------------------------------------------------------------

MeterStep(e) ==
    BeginUsage(e) \/ ReadSum(e) \/ UpsertMetric(e) \/ RecordRevenue(e)

MeterNext ==
    \E e \in UsageEvents : ReceiveUsage(e) \/ MeterStep(e) \/ UsageFails(e)

(* The queue's workers run.                                                *)
MeterFairness == \A e \in UsageEvents : WF_meterVars(MeterStep(e))

MeterSpec == MeterInit /\ [][MeterNext]_meterVars /\ MeterFairness

-----------------------------------------------------------------------------
(* Properties                                                              *)

(* Events that report d.                                                   *)
Reporting(d) == {e \in UsageEvents : usage[e] # NoUsage /\ usage[e].day = d}

(* A day is charged for once, retried and corrected as it may be, and with *)
(* the figures of one of its reports.                                      *)
DaysAreChargedOnce ==
    \A d \in Days :
        LET rows == {r \in ledgerRows : r.day = d} IN
        /\ Cardinality(rows) <= 1
        /\ \A r \in rows : \E e \in Reporting(d) : r.amount = Total(usage[e])

(* A day's cumulative count holds its pulls and those of all days measured *)
(* before it, unless another metric was written between its sum and its    *)
(* row, or it had a row already: a retry or a correction counts it twice.  *)
CumulativeCountsEachDay ==
    \A d \in Measured \ staleSums :
        metric[d].cumulative = metric[d].sumThen + metric[d].pulls

GaveUp(e) == meterJob[e].pc = "failed" /\ meterJob[e].tries = MeterTries

Metered(e) ==
    LET u == usage[e] IN
    /\ u # NoUsage /\ metric[u.day] # NoUsage
    /\ \/ Reporting(u.day) # {e}
       \/ /\ metric[u.day].total = Total(u)
          /\ Total(u) # 0 => \E r \in ledgerRows :
                 r.day = u.day /\ r.amount = Total(u)

EveryUsageIsMetered ==
    \A e \in UsageEvents :
        meterJob[e].pc = "none" \/ GaveUp(e) \/ Metered(e)

(* What one event reports of a day ends up in the metrics and, if there is *)
(* anything to charge, as the same amount in the ledger; but for a job     *)
(* that fails every time.                                                  *)
UsageReachesTheLedger == []<>EveryUsageIsMetered
=============================================================================
