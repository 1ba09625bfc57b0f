--------------------------- MODULE ScheduledReports ---------------------------
(***************************************************************************)
(* Report schedules and the sweep that turns a due one into an export.     *)
(*                                                                         *)
(* A schedule fires every Period units (advanceCron).  ReportRun rows,     *)
(* which nothing changes or acts on once they exist, are left out.  In the *)
(* code nothing gives a schedule its first nextRunAt: SetFirstRun stands   *)
(* for whoever writes it into the table, as the worker's header asks.  The *)
(* exports of one slot are not told apart.                                 *)
(***************************************************************************)
EXTENDS Naturals, FiniteSets

CONSTANTS
    Schedules,
    BadSchedules,       \* those whose cron expression or report type throws
    Sweepers,           \* processes of the scheduled-report worker
    NoTime,
    Period,             \* between two slots of a schedule
    SweepBatch,         \* BATCH_SIZE
    MaxReportTime,      \* bound: the clock
    MaxReportFaults     \* bound: crashes and errors of the database or Redis

ASSUME ReportOptions ==
    /\ BadSchedules \subseteq Schedules /\ NoTime \notin Nat
    /\ Period \in Nat \ {0} /\ SweepBatch \in Nat \ {0}
    /\ MaxReportTime \in Nat /\ MaxReportFaults \in Nat

VARIABLES
    reportClock,
    schedule,           \* per schedule: its row
    sweep,              \* per sweeper: the due schedules it read, and when;
                        \* the slot whose export it has not yet enqueued
    exported,           \* slots of schedules an export row was made for
    enqueued,           \* those whose export the queue was told of
    exportedAgain,      \* those a second export row was made for
    reportFaults,
    staleSweep          \* history: a sweep handled a schedule that had moved on

reportVars == <<reportClock, schedule, sweep, exported, enqueued,
                exportedAgain, reportFaults, staleSweep>>

Times == 0 .. MaxReportTime + Period

ReportTypeOK ==
    /\ reportClock \in 0 .. MaxReportTime
    /\ schedule \in [Schedules ->
                        [row : {"none", "row", "deleted"}, active : BOOLEAN,
                         next : Times \cup {NoTime}]]
    /\ \A w \in Sweepers :
          /\ sweep[w].todo \subseteq Schedules \X Times
          /\ sweep[w].made \subseteq exported
          /\ sweep[w].now \in Times
    /\ exported \subseteq Schedules \X Times
    /\ enqueued \subseteq exported /\ exportedAgain \subseteq exported
    /\ reportFaults \in 0 .. MaxReportFaults
    /\ staleSweep \in BOOLEAN

NoScheduleRow == [row |-> "none", active |-> FALSE, next |-> NoTime]
Swept == [todo |-> {}, made |-> {}, now |-> 0]

ReportInit ==
    /\ reportClock = 0
    /\ schedule = [s \in Schedules |-> NoScheduleRow]
    /\ sweep = [w \in Sweepers |-> Swept]
    /\ exported = {} /\ enqueued = {} /\ exportedAgain = {}
    /\ reportFaults = 0
    /\ staleSweep = FALSE

ReportFault ==
    reportFaults < MaxReportFaults /\ reportFaults' = reportFaults + 1

-----------------------------------------------------------------------------
(* The schedules' routes                                                   *)

(* POST: nextRunAt is left empty.  Whether the cron expression and the     *)
(* report type are any good is not looked at.                              *)
CreateSchedule(s) ==
    /\ schedule[s].row = "none"
    /\ schedule' = [schedule EXCEPT ![s] = [row |-> "row", active |-> TRUE,
                                            next |-> NoTime]]
    /\ UNCHANGED <<reportClock, sweep, exported, enqueued, exportedAgain,
                   reportFaults, staleSweep>>

(* PATCH with isActive                                                     *)
SwitchSchedule(s) ==
    /\ schedule[s].row = "row"
    /\ schedule' = [schedule EXCEPT ![s].active = ~@]
    /\ UNCHANGED <<reportClock, sweep, exported, enqueued, exportedAgain,
                   reportFaults, staleSweep>>

(* DELETE; the exports stay.                                               *)
DeleteSchedule(s) ==
    /\ schedule[s].row = "row"
    /\ schedule' = [schedule EXCEPT ![s] = [NoScheduleRow EXCEPT !.row = "deleted"]]
    /\ UNCHANGED <<reportClock, sweep, exported, enqueued, exportedAgain,
                   reportFaults, staleSweep>>

SetFirstRun(s) ==
    /\ schedule[s].row = "row" /\ schedule[s].next = NoTime
    /\ \E t \in reportClock .. reportClock + Period :
          schedule' = [schedule EXCEPT ![s].next = t]
    /\ UNCHANGED <<reportClock, sweep, exported, enqueued, exportedAgain,
                   reportFaults, staleSweep>>

-----------------------------------------------------------------------------
(* processOnce                                                             *)

DueAt(now) == {<<s, schedule[s].next>> : s \in {t \in Schedules :
                  /\ schedule[t].active
                  /\ schedule[t].next # NoTime /\ schedule[t].next <= now}}

(* The SweepBatch earliest ones                                            *)
Batches(due) ==
    {b \in SUBSET due :
        /\ Cardinality(b) <= SweepBatch
        /\ b = due \/ Cardinality(b) = SweepBatch
        /\ \A p \in b, q \in due \ b : p[2] <= q[2]}

ReportIdle(w) == sweep[w] = Swept

StartSweep(w) ==
    /\ ReportIdle(w)
    /\ DueAt(reportClock) # {}
    /\ \E b \in Batches(DueAt(reportClock)) :
          sweep' = [sweep EXCEPT ![w] = [todo |-> b, made |-> {},
                                         now |-> reportClock]]
    /\ UNCHANGED <<reportClock, schedule, exported, enqueued, exportedAgain,
                   reportFaults, staleSweep>>

NextUp(w, p) == /\ p \in sweep[w].todo /\ sweep[w].made = {}
                /\ \A q \in sweep[w].todo : p[2] <= q[2]

(* On with the next schedule                                               *)
GoesOn(w, left) ==
    sweep' = [sweep EXCEPT ![w] = IF left = {} THEN Swept
                                  ELSE [@ EXCEPT !.todo = left, !.made = {}]]

(* Defect: nextRunAt moves on from now, whatever the slot.                 *)
NextSlotFromNow(slot, now) == now + Period - 1

(* advanceCron from the slot, over and over until it is past now           *)
NextSlot(slot, now) ==
    CHOOSE t \in now + 1 .. now + Period : (t - slot) % Period = 0

(* The transaction: an export, and the schedule moves on from what the     *)
(* sweep read, wherever it is by now.                                      *)
MakeExport(w, p) ==
    LET s == p[1] IN
    /\ NextUp(w, p)
    /\ schedule[s].row = "row" /\ s \notin BadSchedules
    /\ exported' = exported \cup {p}
    /\ exportedAgain' = exportedAgain \cup ({p} \cap exported)
    /\ schedule' = [schedule EXCEPT ![s].next = NextSlot(p[2], sweep[w].now)]
    /\ staleSweep' = (staleSweep \/ schedule[s].next # p[2])
    /\ sweep' = [sweep EXCEPT ![w].todo = @ \ {p}, ![w].made = {p}]
    /\ UNCHANGED <<reportClock, enqueued, reportFaults>>

(* Defect: without the try and catch around it the sweep ends here.        *)
ReportEndsSweep(w, p) ==
    /\ NextUp(w, p)
    /\ schedule[p[1]].row # "row" \/ p[1] \in BadSchedules
    /\ sweep' = [sweep EXCEPT ![w] = Swept]
    /\ UNCHANGED <<reportClock, schedule, exported, enqueued, exportedAgain,
                   reportFaults, staleSweep>>

(* The transaction throws: the schedule is gone, or its cron expression or *)
(* report type is no good.                                                 *)
ReportFails(w, p) ==
    /\ NextUp(w, p)
    /\ schedule[p[1]].row # "row" \/ p[1] \in BadSchedules
    /\ GoesOn(w, sweep[w].todo \ {p})
    /\ UNCHANGED <<reportClock, schedule, exported, enqueued, exportedAgain,
                   reportFaults, staleSweep>>

EnqueueReport(w) ==
    /\ sweep[w].made # {}
    /\ enqueued' = enqueued \cup sweep[w].made
    /\ GoesOn(w, sweep[w].todo)
    /\ UNCHANGED <<reportClock, schedule, exported, exportedAgain,
                   reportFaults, staleSweep>>

(* The database or Redis fails, which the catch logs: once the export is   *)
(* made nothing will enqueue it any more.                                  *)
ReportErrs(w) ==
    /\ ReportFault
    /\ \/ \E p \in sweep[w].todo :
             NextUp(w, p) /\ GoesOn(w, sweep[w].todo \ {p})
       \/ sweep[w].made # {} /\ GoesOn(w, sweep[w].todo)
    /\ UNCHANGED <<reportClock, schedule, exported, enqueued, exportedAgain,
                   staleSweep>>

SweeperDies(w) ==
    /\ ~ReportIdle(w) /\ ReportFault
    /\ sweep' = [sweep EXCEPT ![w] = Swept]
    /\ UNCHANGED <<reportClock, schedule, exported, enqueued, exportedAgain,
                   staleSweep>>

ReportTick ==
    /\ reportClock < MaxReportTime
    /\ reportClock' = reportClock + 1
    /\ UNCHANGED <<schedule, sweep, exported, enqueued, exportedAgain,
                   reportFaults, staleSweep>>

-----------------------------------------------------------------------------

SweepStep(w) ==
    \/ StartSweep(w)
    \/ \E p \in sweep[w].todo : MakeExport(w, p) \/ ReportFails(w, p)
    \/ EnqueueReport(w)

ReportNext ==
    \/ \E s \in Schedules :
          \/ CreateSchedule(s) \/ SwitchSchedule(s) \/ DeleteSchedule(s)
          \/ SetFirstRun(s)
    \/ \E w \in Sweepers : SweepStep(w) \/ ReportErrs(w) \/ SweeperDies(w)
    \/ ReportTick

(* The worker polls, time passes.                                          *)
ReportFairness ==
    /\ \A w \in Sweepers : WF_reportVars(SweepStep(w))
    /\ WF_reportVars(ReportTick)

-----------------------------------------------------------------------------
(* Properties                                                              *)

(* A slot of a schedule gives two exports only when a sweep handled a      *)
(* schedule another sweep had already moved on: nothing keeps two          *)
(* processes of the worker apart.                                          *)
SlotsRepeatOnlyInRaces == exportedAgain # {} => staleSweep

BatchIsCrowded ==
    Cardinality({u \in BadSchedules : schedule[u].active}) >= SweepBatch

SchedulesAreServed ==
    \/ staleSweep \/ reportFaults > 0 \/ BatchIsCrowded
    \/ /\ exported \subseteq enqueued
       /\ \A s \in Schedules \ BadSchedules :
              ~schedule[s].active \/ schedule[s].next \notin 0 .. reportClock

(* A schedule that is due and can be run reaches the export queue, unless  *)
(* it is switched off, a race or a fault interferes, or schedules that     *)
(* cannot be run fill the batch.                                           *)
DueSchedulesReachTheQueue == []<>SchedulesAreServed
=============================================================================
