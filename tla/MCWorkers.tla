------------------------------ MODULE MCWorkers ------------------------------
(***************************************************************************)
(* The work done in the background, for TLC: what is sent out              *)
(* (OutboundDelivery), what is watched (AlertEngine) and what is produced  *)
(* (ScheduledReports, ExportQueue).  A behaviour is one of the part that   *)
(* its initial state names, the others staying as they are.                *)
(***************************************************************************)
EXTENDS OutboundDelivery, AlertEngine, ScheduledReports, ExportQueue, TLC

VARIABLE part

workVars == <<part, vars, alertVars, reportVars, exportVars>>

WorkersInit ==
    /\ part \in {"outbound", "alerts", "reports", "exports"}
    /\ Init /\ AlertInit /\ ReportInit /\ ExportInit
    /\ part # "alerts" => ~metricHot

OthersRest ==
    /\ part' = part
    /\ part # "outbound" => UNCHANGED vars
    /\ part # "alerts" => UNCHANGED alertVars
    /\ part # "reports" => UNCHANGED reportVars
    /\ part # "exports" => UNCHANGED exportVars

WorkersNext ==
    /\ OthersRest
    /\ \/ part = "outbound" /\ Next
       \/ part = "alerts" /\ AlertNext
       \/ part = "reports" /\ ReportNext
       \/ part = "exports" /\ ExportNext

(* The step each of the processes takes next, in the part that it is of    *)
StepOf(w) ==
    \/ part = "outbound" /\ DeliveryStep(w)
    \/ part = "alerts" /\ Cycle(w)
    \/ part = "reports" /\ SweepStep(w)
    \/ part = "exports" /\ ExecutorStep(w)

TimePasses ==
    \/ part = "alerts" /\ AlertTick
    \/ part = "reports" /\ ReportTick

QueueTakes(j) ==
    \/ part = "outbound" /\ \E w \in Workers : Take(w, j)
    \/ part = "exports" /\ EnqueueAsked(j)

QueueGivesUp(j) ==
    \/ part = "outbound" /\ MarkAbandoned(j)
    \/ part = "exports" /\ JobOfDeadLapses(j)

(* The fairness of the modules.  A behaviour stays in its part, so that it *)
(* is fair to a disjunction over the parts if it is to its part's disjunct.*)
WorkersFairness ==
    /\ \A w \in Workers : WF_workVars(StepOf(w) /\ OthersRest)
    /\ WF_workVars(TimePasses /\ OthersRest)
    /\ \A j \in Deliveries :
          /\ WF_workVars(QueueTakes(j) /\ OthersRest)
          /\ WF_workVars(QueueGivesUp(j) /\ OthersRest)
          /\ WF_workVars(/\ part = "outbound" /\ OthersRest
                         /\ Stall(j) /\ UNCHANGED faults)

WorkersSpec ==
    WorkersInit /\ [][WorkersNext]_workVars /\ WorkersFairness

-----------------------------------------------------------------------------

(* What a schedule asks for is exported once per slot but for races, and   *)
(* every export is accounted for.                                          *)
ScheduledExportsAreSound ==
    /\ ReportTypeOK /\ ExportTypeOK
    /\ SlotsRepeatOnlyInRaces

(* No part of the background work stops short: deliveries settle, alerts   *)
(* clear, schedules reach the queue and exports end.  A behaviour being of *)
(* one part, this is JobsSettle, AlertsClear, DueSchedulesReachTheQueue    *)
(* and ExportsSettle.                                                      *)
WorkersKeepUp ==
    []<>(/\ JobsSettled
         /\ metricHot \/ Firing = {}
         /\ SchedulesAreServed
         /\ ExportsSettled)
=============================================================================
