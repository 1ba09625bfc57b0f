------------------------------ MODULE AlertEngine ------------------------------
(***************************************************************************)
(* One alert rule, evaluated by replicas of the alert worker, and the      *)
(* alerts it fires, which operators acknowledge, snooze and resolve.       *)
(*                                                                         *)
(* Rules share nothing: the Redis keys alert:last and alert:lock are per   *)
(* rule.  Times are kept as ages, so that behaviours never end: a key that *)
(* has expired is as good as one two windows old, no cycle lasting longer  *)
(* than a window and a unit.  The replicas' clocks agree.                  *)
(***************************************************************************)
EXTENDS Naturals, FiniteSets, FiniteSetsExt

CONSTANTS
    Replicas,           \* processes of the alert worker
    AlertSlots,         \* alert rows in the order of firedAt: 1, 2, ...
    RuleWindow,         \* windowMinutes, in clock units
    LockTTL,            \* lockTtlSec, in clock units
    MaxLag,             \* bound: clock units a cycle may last
    MaxAlertFaults,     \* bound: crashes and errors
    MaxReopenings       \* bound: operators activating resolved alerts

ASSUME AlertOptions ==
    /\ IsFiniteSet(Replicas)
    /\ IsFiniteSet(AlertSlots) /\ AlertSlots \subseteq Nat \ {0}
    /\ RuleWindow \in Nat \ {0} /\ LockTTL \in 1 .. RuleWindow
    /\ MaxLag \in 0 .. RuleWindow + 1 /\ MaxAlertFaults \in Nat /\ MaxReopenings \in Nat

VARIABLES
    metricHot,          \* the rule's condition holds
    sinceLast,          \* age of alert:last, past 2 * RuleWindow once expired
    lockLeft,           \* time alert:lock still lives, 0 when there is none
    alertState,         \* per alert row
    announced,          \* alerts the dispatcher has written
    replica,            \* per replica: the cycle it runs
    alertFaults,
    reopenings,
    overlapped          \* history: two evaluations overlapped

alertVars == <<metricHot, sinceLast, lockLeft, alertState, announced, replica,
               alertFaults, reopenings, overlapped>>

NoAlert == 0
LastExpired == 2 * RuleWindow + 1
Active == {"OPEN", "ACKNOWLEDGED", "SNOOZED"}
Evaluating == {"mark", "evaluate", "look", "apply"}

AlertTypeOK ==
    /\ metricHot \in BOOLEAN
    /\ sinceLast \in 0 .. LastExpired
    /\ lockLeft \in 0 .. LockTTL
    /\ alertState \in [AlertSlots -> Active \cup {"none", "RESOLVED"}]
    /\ announced \subseteq AlertSlots
    /\ replica \in [Replicas ->
                       [pc : Evaluating \cup {"idle", "cadence", "lock",
                                              "dispatch"},
                        lag : 0 .. MaxLag,      \* age of the cycle's now
                        hit : BOOLEAN,
                        open : AlertSlots \cup {NoAlert}]]
    /\ alertFaults \in 0 .. MaxAlertFaults
    /\ reopenings \in 0 .. MaxReopenings
    /\ overlapped \in BOOLEAN

AtRest == [pc |-> "idle", lag |-> 0, hit |-> FALSE, open |-> NoAlert]

AlertInit ==
    /\ metricHot \in BOOLEAN
    /\ sinceLast = LastExpired
    /\ lockLeft = 0
    /\ alertState = [a \in AlertSlots |-> "none"]
    /\ announced = {}
    /\ replica = [r \in Replicas |-> AtRest]
    /\ alertFaults = 0
    /\ reopenings = 0
    /\ overlapped = FALSE

Firing == {a \in AlertSlots : alertState[a] \in Active}
Unused == {a \in AlertSlots : alertState[a] = "none"}
Goes(r, pc) == replica' = [replica EXCEPT ![r].pc = pc]
Ends(r) == replica' = [replica EXCEPT ![r] = AtRest]

-----------------------------------------------------------------------------
(* A replica's evaluation of the rule in one cycle                         *)

(* The cycle takes its now.                                                *)
StartCycle(r) ==
    /\ replica[r].pc = "idle"
    /\ Goes(r, "cadence")
    /\ UNCHANGED <<metricHot, sinceLast, lockLeft, alertState, announced,
                   alertFaults, reopenings, overlapped>>

(* alert:last missing, or at least a window older than the cycle's now     *)
Due(r) == \/ sinceLast = LastExpired
          \/ sinceLast >= replica[r].lag + RuleWindow

CheckCadence(r) ==
    /\ replica[r].pc = "cadence"
    /\ IF Due(r) THEN Goes(r, "lock") ELSE Ends(r)
    /\ UNCHANGED <<metricHot, sinceLast, lockLeft, alertState, announced,
                   alertFaults, reopenings, overlapped>>

TakeLock(r) ==
    /\ replica[r].pc = "lock"
    /\ IF lockLeft > 0
       THEN Ends(r) /\ UNCHANGED <<lockLeft, overlapped>>
       ELSE /\ Goes(r, "mark")
            /\ lockLeft' = LockTTL
            /\ overlapped' = (overlapped \/ \E q \in Replicas \ {r} :
                                                replica[q].pc \in Evaluating)
    /\ UNCHANGED <<metricHot, sinceLast, alertState, announced, alertFaults,
                   reopenings>>

(* alert:last becomes the cycle's now and the lock is deleted, whoever     *)
(* holds it by then; only after that the rule is evaluated.                *)
MarkEvaluated(r) ==
    /\ replica[r].pc = "mark"
    /\ sinceLast' = replica[r].lag
    /\ lockLeft' = 0
    /\ Goes(r, "evaluate")
    /\ UNCHANGED <<metricHot, alertState, announced, alertFaults, reopenings,
                   overlapped>>

(* A hit needs a row left for its alert: the bound of the model.           *)
Evaluate(r) ==
    /\ replica[r].pc = "evaluate"
    /\ metricHot => Cardinality({q \in Replicas : replica[q].hit})
                        < Cardinality(Unused)
    /\ replica' = [replica EXCEPT ![r].pc = "look", ![r].hit = metricHot]
    /\ UNCHANGED <<metricHot, sinceLast, lockLeft, alertState, announced,
                   alertFaults, reopenings, overlapped>>

(* Defect: an alert somebody has acknowledged or snoozed does not count.   *)
LookForOpen(r) ==
    LET open == {a \in AlertSlots : alertState[a] = "OPEN"} IN
    /\ replica[r].pc = "look"
    /\ replica' = [replica EXCEPT
                      ![r].pc = "apply",
                      ![r].open = IF open = {} THEN NoAlert ELSE Max(open)]
    /\ UNCHANGED <<metricHot, sinceLast, lockLeft, alertState, announced,
                   alertFaults, reopenings, overlapped>>

(* The latest alert that is not resolved                                   *)
Look(r) ==
    /\ replica[r].pc = "look"
    /\ replica' = [replica EXCEPT
                      ![r].pc = "apply",
                      ![r].open = IF Firing = {} THEN NoAlert ELSE Max(Firing)]
    /\ UNCHANGED <<metricHot, sinceLast, lockLeft, alertState, announced,
                   alertFaults, reopenings, overlapped>>

(* Defect: the alert is created and the cycle goes on to the next rule.    *)
FireUntold(r) ==
    /\ replica[r].pc = "apply"
    /\ replica[r].hit /\ replica[r].open = NoAlert
    /\ alertState' = [alertState EXCEPT ![Min(Unused)] = "OPEN"]
    /\ Ends(r)
    /\ UNCHANGED <<metricHot, sinceLast, lockLeft, announced, alertFaults,
                   reopenings, overlapped>>

Fire(r) ==
    /\ replica[r].pc = "apply"
    /\ replica[r].hit /\ replica[r].open = NoAlert
    /\ alertState' = [alertState EXCEPT ![Min(Unused)] = "OPEN"]
    /\ replica' = [replica EXCEPT ![r].pc = "dispatch", ![r].hit = FALSE,
                                  ![r].open = Min(Unused)]
    /\ UNCHANGED <<metricHot, sinceLast, lockLeft, announced, alertFaults,
                   reopenings, overlapped>>

(* Whatever an operator has done to the alert meanwhile                    *)
AutoResolve(r) ==
    /\ replica[r].pc = "apply"
    /\ ~replica[r].hit /\ replica[r].open # NoAlert
    /\ alertState' = [alertState EXCEPT ![replica[r].open] = "RESOLVED"]
    /\ Ends(r)
    /\ UNCHANGED <<metricHot, sinceLast, lockLeft, announced, alertFaults,
                   reopenings, overlapped>>

NothingToDo(r) ==
    /\ replica[r].pc = "apply"
    /\ replica[r].hit <=> replica[r].open # NoAlert
    /\ Ends(r)
    /\ UNCHANGED <<metricHot, sinceLast, lockLeft, alertState, announced,
                   alertFaults, reopenings, overlapped>>

Dispatch(r) ==
    /\ replica[r].pc = "dispatch"
    /\ announced' = announced \cup {replica[r].open}
    /\ Ends(r)
    /\ UNCHANGED <<metricHot, sinceLast, lockLeft, alertState, alertFaults,
                   reopenings, overlapped>>

(* The process dies, or a call throws and the rule's catch logs it: the    *)
(* lock stays until it expires, a fired alert stays unannounced.           *)
CycleFails(r) ==
    /\ replica[r].pc # "idle"
    /\ alertFaults < MaxAlertFaults
    /\ alertFaults' = alertFaults + 1
    /\ Ends(r)
    /\ UNCHANGED <<metricHot, sinceLast, lockLeft, alertState, announced,
                   reopenings, overlapped>>

-----------------------------------------------------------------------------
(* The operators' routes, which look at no state, and the world            *)

OperatorSets(a, s) ==
    /\ alertState[a] # "none" /\ alertState[a] # s
    /\ IF alertState[a] = "RESOLVED"
       THEN reopenings < MaxReopenings /\ reopenings' = reopenings + 1
       ELSE UNCHANGED reopenings
    /\ alertState' = [alertState EXCEPT ![a] = s]
    /\ UNCHANGED <<metricHot, sinceLast, lockLeft, announced, replica,
                   alertFaults, overlapped>>

Acknowledge(a) == OperatorSets(a, "ACKNOWLEDGED")
Snooze(a) == OperatorSets(a, "SNOOZED")
Resolve(a) == OperatorSets(a, "RESOLVED")

MetricChanges ==
    /\ metricHot' = ~metricHot
    /\ UNCHANGED <<sinceLast, lockLeft, alertState, announced, replica,
                   alertFaults, reopenings, overlapped>>

(* Defect: the lock has no time to live.                                   *)
AfterUnitKept(left) == left

AfterUnit(left) == IF left > 0 THEN left - 1 ELSE 0

AlertTick ==
    /\ \A r \in Replicas : replica[r].pc # "idle" => replica[r].lag < MaxLag
    /\ sinceLast' = IF sinceLast < LastExpired THEN sinceLast + 1
                                               ELSE LastExpired
    /\ lockLeft' = AfterUnit(lockLeft)
    /\ replica' = [r \in Replicas |->
                      IF replica[r].pc = "idle" THEN replica[r]
                      ELSE [replica[r] EXCEPT !.lag = @ + 1]]
    /\ UNCHANGED <<metricHot, alertState, announced, alertFaults, reopenings,
                   overlapped>>

-----------------------------------------------------------------------------

Cycle(r) ==
    \/ StartCycle(r) \/ CheckCadence(r) \/ TakeLock(r) \/ MarkEvaluated(r)
    \/ Evaluate(r) \/ Look(r) \/ Fire(r) \/ AutoResolve(r) \/ NothingToDo(r)
    \/ Dispatch(r)

AlertNext ==
    \/ \E r \in Replicas : Cycle(r) \/ CycleFails(r)
    \/ \E a \in AlertSlots : Acknowledge(a) \/ Snooze(a) \/ Resolve(a)
    \/ MetricChanges
    \/ AlertTick

AlertSpec == AlertInit /\ [][AlertNext]_alertVars

(* The poll loop sleeps and starts again; time passes.                     *)
AlertFairness ==
    /\ \A r \in Replicas : WF_alertVars(Cycle(r))
    /\ WF_alertVars(AlertTick)

-----------------------------------------------------------------------------
(* Properties                                                              *)

(* Two alerts of the rule are active at once only when two evaluations of  *)
(* it overlapped or an operator activated a resolved one: the lock, given  *)
(* up before the evaluation, and the cadence are all there is against it.  *)
DoubleFiresNeedOverlap ==
    Cardinality(Firing) > 1 => overlapped \/ reopenings > 0

(* An alert nobody was told of comes from a fault between its creation and *)
(* its dispatch, or is about to be dispatched.                             *)
SilentAlertsNeedFaults ==
    alertFaults = 0 =>
        \A a \in AlertSlots : alertState[a] # "none" =>
            \/ a \in announced
            \/ \E r \in Replicas : /\ replica[r].pc = "dispatch"
                                   /\ replica[r].open = a

(* Once the metric stays cool every alert gets resolved, whichever replica *)
(* died with the lock.                                                     *)
AlertsClear == []<>(metricHot \/ Firing = {})

(* Every alert is one for its condition and somebody was told of it, but   *)
(* for overlapping evaluations and faults.                                 *)
AlertsAreAccountedFor ==
    /\ AlertTypeOK
    /\ DoubleFiresNeedOverlap
    /\ SilentAlertsNeedFaults
=============================================================================
