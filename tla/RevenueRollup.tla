---------------------------- MODULE RevenueRollup ----------------------------
(***************************************************************************)
(* The rollups of the revenue ledger: the scheduler that enqueues them     *)
(* (revenue.worker), the queue, and the worker that computes them          *)
(* (aggregation.worker).                                                   *)
(*                                                                         *)
(* Sums are sets of ledger rows, so that a sum is right when the set is.   *)
(* The worker's eleven queries are statements of their own, each seeing    *)
(* the tables of its moment; the ledger's total stands for them, and       *)
(* nothing is said of two columns of a row together.  The ledger's         *)
(* effective_at is the sender's: a row may come in for a day that is long  *)
(* over.                                                                   *)
(***************************************************************************)
EXTENDS Integers, FiniteSets

CONSTANTS
    LedgerRows,      \* rows the ledger may come to have
    NoDay,           \* the day of a row that has not come in
    LastDay,         \* bound: the last day of a behaviour
    DaysPerMonth,
    RollupSlots,     \* the worker's concurrency
    NoRollupJob,
    RollupTries,     \* attempts of a job
    MaxTicks,        \* bound: runs of the scheduler
    MaxRollupFaults  \* bound: errors, crashes and stalled jobs

ASSUME RollupAssumption ==
    /\ LastDay \in Nat /\ DaysPerMonth \in Nat \ {0}
    /\ NoDay \notin Int /\ NoRollupJob \notin Nat \X {"DAILY", "MONTHLY"}
    /\ RollupTries \in Nat \ {0} /\ MaxTicks \in Nat /\ MaxRollupFaults \in Nat

VARIABLES
    today,
    ledgerDay,       \* per ledger row: its day, NoDay before it is recorded
    ticks,           \* runs of the scheduler so far
    rollupJob,       \* per run and period: its job in the queue
    slot,            \* per slot: the job it computes and what it has read
    rollup,          \* per period: its row in revenue_aggregations
    rollupFaults,
    owed,            \* history, per period: what its completed jobs found in
                     \* the ledger when they began
    raced            \* history: periods that two jobs computed at once

rollupVars == <<today, ledgerDay, ticks, rollupJob, slot, rollup,
                rollupFaults, owed, raced>>

RollupDays == 0 .. LastDay
MonthOf(d) == d \div DaysPerMonth

(* `at` is the first day of a month's period, so that periodStart and      *)
(* period are the row's key.                                               *)
Daily(d) == [period |-> "DAILY", at |-> d]
Monthly(m) == [period |-> "MONTHLY", at |-> m * DaysPerMonth]
Periods ==
    {Daily(d) : d \in RollupDays} \cup {Monthly(MonthOf(d)) : d \in RollupDays}

RollupJobs == (1 .. MaxTicks) \X {"DAILY", "MONTHLY"}

(* The boundaries of a period, both ends included                          *)
Within(p, d) ==
    IF p.period = "DAILY" THEN d = p.at
    ELSE p.at <= d /\ d <= p.at + DaysPerMonth - 1

Recorded == {r \in LedgerRows : ledgerDay[r] # NoDay}
LedgerOf(p) == {r \in Recorded : Within(p, ledgerDay[r])}

SlotFree == [job |-> NoRollupJob, read |-> FALSE, found |-> {}, total |-> {},
             overlapped |-> FALSE]

NoRollup == [total |-> {}, written |-> FALSE]

RollupTypeOK ==
    /\ today \in RollupDays
    /\ ledgerDay \in [LedgerRows -> RollupDays \cup {NoDay}]
    /\ ticks \in 0 .. MaxTicks
    /\ rollupJob \in
          [RollupJobs -> [state : {"none", "waiting", "active", "done", "failed"},
                          tries : 0 .. RollupTries + 1, stalled : BOOLEAN,
                          of : Periods]]
    /\ slot \in
          [RollupSlots -> [job : RollupJobs \cup {NoRollupJob},
                           read : BOOLEAN,
                           found : SUBSET LedgerRows,
                           total : SUBSET LedgerRows,
                           overlapped : BOOLEAN]]
    /\ rollup \in [Periods -> [total : SUBSET LedgerRows,
                               written : BOOLEAN]]
    /\ rollupFaults \in 0 .. MaxRollupFaults
    /\ owed \in [Periods -> SUBSET LedgerRows]
    /\ raced \subseteq Periods

RollupInit ==
    /\ today = 0
    /\ ledgerDay = [r \in LedgerRows |-> NoDay]
    /\ ticks = 0
    /\ rollupJob = [j \in RollupJobs |->
                       [state |-> "none", tries |-> 0, stalled |-> FALSE,
                        of |-> Daily(0)]]
    /\ slot = [s \in RollupSlots |-> SlotFree]
    /\ rollup = [p \in Periods |-> NoRollup]
    /\ rollupFaults = 0
    /\ owed = [p \in Periods |-> {}]
    /\ raced = {}

-----------------------------------------------------------------------------

(* A drain appends to the ledger, for today or for a day before.           *)
RecordRow(r) ==
    /\ r \notin Recorded
    /\ \E d \in 0 .. today : ledgerDay' = [ledgerDay EXCEPT ![r] = d]
    /\ UNCHANGED <<today, ticks, rollupJob, slot, rollup, rollupFaults, owed,
                   raced>>

Midnight ==
    /\ today < LastDay
    /\ today' = today + 1
    /\ UNCHANGED <<ledgerDay, ticks, rollupJob, slot, rollup, rollupFaults,
                   owed, raced>>

(* What a run of the scheduler asks for: yesterday, and the month of today *)
Asked(period) ==
    IF period = "DAILY" THEN Daily(today - 1) ELSE Monthly(MonthOf(today))

(* tick: the external cron runs the scheduler, whenever it does (from the  *)
(* second day on: periods begin with day 0).  The run may fail between its *)
(* two jobs.                                                               *)
SchedulerRuns ==
    /\ ticks < MaxTicks /\ today > 0
    /\ ticks' = ticks + 1
    /\ \E added \in {{"DAILY"}, {"DAILY", "MONTHLY"}} :
          /\ rollupFaults' = rollupFaults + 2 - Cardinality(added)
          /\ rollupJob' =
                [j \in RollupJobs |->
                    IF j[1] = ticks + 1 /\ j[2] \in added
                    THEN [rollupJob[j] EXCEPT !.state = "waiting",
                                              !.of = Asked(j[2])]
                    ELSE rollupJob[j]]
    /\ rollupFaults' <= MaxRollupFaults
    /\ UNCHANGED <<today, ledgerDay, slot, rollup, owed, raced>>

Computing(p) ==
    {s \in RollupSlots : /\ slot[s].job # NoRollupJob
                         /\ rollupJob[slot[s].job].of = p}

(* A slot takes a waiting job.                                             *)
BeginRollup(s, j) ==
    /\ slot[s] = SlotFree /\ rollupJob[j].state = "waiting"
    /\ rollupJob' = [rollupJob EXCEPT ![j].state = "active",
                                      ![j].tries = @ + 1]
    /\ LET p == rollupJob[j].of
           others == Computing(p)
       IN  /\ slot' = [x \in RollupSlots |->
                 IF x = s
                 THEN [SlotFree EXCEPT !.job = j, !.found = LedgerOf(p),
                                   !.overlapped = others # {}]
                 ELSE IF x \in others
                 THEN [slot[x] EXCEPT !.overlapped = TRUE] ELSE slot[x]]
    /\ UNCHANGED <<today, ledgerDay, ticks, rollup, rollupFaults, owed, raced>>

(* The ledger is read.                                                     *)
ReadLedger(s) ==
    /\ slot[s].job # NoRollupJob /\ ~slot[s].read
    /\ slot' = [slot EXCEPT ![s].read = TRUE,
                            ![s].total = LedgerOf(rollupJob[slot[s].job].of)]
    /\ UNCHANGED <<today, ledgerDay, ticks, rollupJob, rollup, rollupFaults,
                   owed, raced>>

(* The job ends unless BullMQ has taken it for stalled and given it out.   *)
JobEnds(j, state) ==
    IF rollupJob[j].state = "active" THEN [rollupJob EXCEPT ![j].state = state]
    ELSE rollupJob

(* Defect: an existing row is left as it is.                               *)
CreateRollup(s) ==
    LET j == slot[s].job
        p == rollupJob[j].of
    IN  /\ slot[s].read
        /\ rollup' = IF rollup[p].written THEN rollup
                     ELSE [rollup EXCEPT ![p] = [total |-> slot[s].total,
                                                 written |-> TRUE]]
        /\ owed' = [owed EXCEPT ![p] = @ \cup slot[s].found]
        /\ raced' = IF slot[s].overlapped THEN raced \cup {p} ELSE raced \ {p}
        /\ rollupJob' = JobEnds(j, "done")
        /\ slot' = [slot EXCEPT ![s] = SlotFree]
        /\ UNCHANGED <<today, ledgerDay, ticks, rollupFaults>>

(* The sums are upserted under the period's key, and the job is done.      *)
UpsertRollup(s) ==
    LET j == slot[s].job
        p == rollupJob[j].of
    IN  /\ slot[s].read
        /\ rollup' = [rollup EXCEPT ![p] = [total |-> slot[s].total,
                                            written |-> TRUE]]
        /\ owed' = [owed EXCEPT ![p] = @ \cup slot[s].found]
        /\ raced' = IF slot[s].overlapped THEN raced \cup {p} ELSE raced \ {p}
        /\ rollupJob' = JobEnds(j, "done")
        /\ slot' = [slot EXCEPT ![s] = SlotFree]
        /\ UNCHANGED <<today, ledgerDay, ticks, rollupFaults>>

(* A query or the upsert fails: the job is retried, RollupTries in all.    *)
RollupFails(s) ==
    LET j == slot[s].job
    IN  /\ j # NoRollupJob /\ rollupFaults < MaxRollupFaults
        /\ rollupFaults' = rollupFaults + 1
        /\ rollupJob' = JobEnds(j, IF rollupJob[j].tries < RollupTries
                                THEN "waiting" ELSE "failed")
        /\ slot' = [slot EXCEPT ![s] = SlotFree]
        /\ UNCHANGED <<today, ledgerDay, ticks, rollup, owed, raced>>

(* The lock of a job lapses: BullMQ gives it out once more, whatever its   *)
(* tries, and fails it the second time.  A slot that computes it goes on   *)
(* if it lives.                                                            *)
RollupStalls(j) ==
    /\ rollupJob[j].state = "active" /\ rollupFaults < MaxRollupFaults
    /\ rollupFaults' = rollupFaults + 1
    /\ rollupJob' =
          [rollupJob EXCEPT ![j].state = IF rollupJob[j].stalled THEN "failed"
                                         ELSE "waiting",
                            ![j].stalled = TRUE]
    /\ \E dead \in BOOLEAN :
          slot' = [s \in RollupSlots |->
                      IF dead /\ slot[s].job = j THEN SlotFree ELSE slot[s]]
    /\ UNCHANGED <<today, ledgerDay, ticks, rollup, owed, raced>>

RollupNext ==
    \/ \E r \in LedgerRows : RecordRow(r)
    \/ Midnight
    \/ SchedulerRuns
    \/ \E s \in RollupSlots :
          \/ \E j \in RollupJobs : BeginRollup(s, j)
          \/ ReadLedger(s) \/ UpsertRollup(s) \/ RollupFails(s)
    \/ \E j \in RollupJobs : RollupStalls(j)

RollupSpec == RollupInit /\ [][RollupNext]_rollupVars

-----------------------------------------------------------------------------

(* A row has all that any of its period's completed jobs found in the      *)
(* ledger when it began, unless jobs of the period ran at once, and never  *)
(* anything of another period.                                             *)
RollupsAreOfTheLedger ==
    \A p \in Periods :
        /\ rollup[p].total \subseteq LedgerOf(p)
        /\ p \notin raced => owed[p] \subseteq rollup[p].total
=============================================================================
