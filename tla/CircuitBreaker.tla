---------------------------- MODULE CircuitBreaker ----------------------------
(***************************************************************************)
(* The per-lender CircuitBreaker, as the polling worker uses it: several   *)
(* polls of one lender are in flight in one process and end in any order.  *)
(*                                                                         *)
(* pollOne catches what the lender's adapter throws, so the worker records *)
(* a success then too; a failure is recorded when the poll times out or    *)
(* the database rejects it.                                                *)
(***************************************************************************)
EXTENDS Naturals, Sequences, FiniteSets

CONSTANTS
    Calls,              \* pollers of the process: MAX_PARALLEL
    Window,             \* windowSize
    ThresholdNum, ThresholdDen,     \* failureThreshold as a fraction
    Cooldown,           \* openDurationMs, in clock units
    CallTimeout         \* PER_CALL_TIMEOUT_MS, in clock units

(* 20 samples, 8 pollers; 30 seconds and 10 seconds                        *)
ASSUME BreakerOptions ==
    /\ Window \in Nat \ {0} /\ IsFiniteSet(Calls)
    /\ Cardinality(Calls) <= Window
    /\ ThresholdNum \in Nat /\ ThresholdDen \in Nat \ {0}
    /\ Cooldown \in Nat /\ CallTimeout \in Nat
    /\ CallTimeout <= Cooldown

VARIABLES
    state,
    samples,            \* rolling window of "ok" and "fail"
    sinceOpened,        \* time since openedAt, no longer counted past Cooldown
    probeInFlight,
    call                \* per poller: busy, for how long, as a probe

breaker == <<state, samples, sinceOpened, probeInFlight>>
breakerVars == <<breaker, call>>

BreakerTypeOK ==
    /\ state \in {"CLOSED", "OPEN", "HALF_OPEN"}
    /\ samples \in Seq({"ok", "fail"}) /\ Len(samples) <= Window
    /\ sinceOpened \in 0 .. Cooldown + 1
    /\ probeInFlight \in BOOLEAN
    /\ call \in [Calls -> [busy : BOOLEAN, age : 0 .. CallTimeout,
                           probe : BOOLEAN]]

Free == [busy |-> FALSE, age |-> 0, probe |-> FALSE]

BreakerInit ==
    /\ state = "CLOSED"
    /\ samples = << >>
    /\ sinceOpened = 0
    /\ probeInFlight = FALSE
    /\ call = [c \in Calls |-> Free]

Failures(s) == Cardinality({i \in DOMAIN s : s[i] = "fail"})
AtThreshold(s) == Failures(s) * ThresholdDen >= ThresholdNum * Len(s)

(* Defect: the window grows.                                               *)
PushUnbounded(s, sample) == Append(s, sample)

Push(s, sample) ==
    IF Len(s) = Window THEN Append(Tail(s), sample) ELSE Append(s, sample)

-----------------------------------------------------------------------------
(* shouldSkip                                                              *)

(* Defect: a probe in flight does not stop other calls.                    *)
BeginUnguarded(c) ==
    /\ ~call[c].busy
    /\ state \in {"CLOSED", "HALF_OPEN"}
    /\ call' = [call EXCEPT ![c].busy = TRUE]
    /\ UNCHANGED breaker

Begin(c) ==
    /\ ~call[c].busy
    /\ \/ state = "CLOSED"
       \/ state = "HALF_OPEN" /\ ~probeInFlight
    /\ call' = [call EXCEPT ![c].busy = TRUE]
    /\ UNCHANGED breaker

BeginProbe(c) ==
    /\ ~call[c].busy
    /\ state = "OPEN" /\ sinceOpened > Cooldown /\ ~probeInFlight
    /\ state' = "HALF_OPEN"
    /\ probeInFlight' = TRUE
    /\ call' = [call EXCEPT ![c].busy = TRUE, ![c].probe = TRUE]
    /\ UNCHANGED <<samples, sinceOpened>>

-----------------------------------------------------------------------------
(* recordSuccess and recordFailure                                         *)

BreakerSuccess ==
    \/ /\ state = "HALF_OPEN"
       /\ state' = "CLOSED"
       /\ samples' = << >>
       /\ probeInFlight' = FALSE
       /\ UNCHANGED sinceOpened
    \/ /\ state # "HALF_OPEN"
       /\ samples' = Push(samples, "ok")
       /\ UNCHANGED <<state, sinceOpened, probeInFlight>>

(* Defect: the probe that failed stays in flight.                          *)
ProbeFailsStuck ==
    /\ state = "HALF_OPEN"
    /\ state' = "OPEN"
    /\ sinceOpened' = 0
    /\ UNCHANGED <<samples, probeInFlight>>

ProbeFails ==
    /\ state = "HALF_OPEN"
    /\ state' = "OPEN"
    /\ sinceOpened' = 0
    /\ probeInFlight' = FALSE
    /\ UNCHANGED samples

(* Defect: the samples that tripped the breaker are kept.                  *)
SampleFailsKeeping ==
    LET pushed == Push(samples, "fail")
        trips == Len(pushed) >= Window /\ AtThreshold(pushed)
    IN
    /\ state # "HALF_OPEN"
    /\ samples' = pushed
    /\ state' = IF trips THEN "OPEN" ELSE state
    /\ sinceOpened' = IF trips THEN 0 ELSE sinceOpened
    /\ UNCHANGED probeInFlight

SampleFails ==
    LET pushed == Push(samples, "fail")
        trips == Len(pushed) >= Window /\ AtThreshold(pushed)
    IN
    /\ state # "HALF_OPEN"
    /\ samples' = IF trips THEN << >> ELSE pushed
    /\ state' = IF trips THEN "OPEN" ELSE state
    /\ sinceOpened' = IF trips THEN 0 ELSE sinceOpened
    /\ UNCHANGED probeInFlight

(* The lender answers, or its adapter throws and pollOne records that.     *)
Answered(c) ==
    /\ call[c].busy
    /\ BreakerSuccess
    /\ call' = [call EXCEPT ![c] = Free]

(* The poll times out, or the database fails it.                           *)
Rejected(c) ==
    /\ call[c].busy
    /\ ProbeFails \/ SampleFails
    /\ call' = [call EXCEPT ![c] = Free]

(* Time passes; no poll outlives its timeout.                              *)
Tick ==
    /\ \A c \in Calls : call[c].busy => call[c].age < CallTimeout
    /\ sinceOpened' = IF sinceOpened <= Cooldown THEN sinceOpened + 1
                                                 ELSE sinceOpened
    /\ call' = [c \in Calls |->
                   IF call[c].busy THEN [call[c] EXCEPT !.age = @ + 1]
                                   ELSE call[c]]
    /\ UNCHANGED <<state, samples, probeInFlight>>

-----------------------------------------------------------------------------

CallEnds(c) == Answered(c) \/ Rejected(c)

BreakerNext ==
    \/ \E c \in Calls : Begin(c) \/ BeginProbe(c) \/ CallEnds(c)
    \/ Tick

BreakerSpec == BreakerInit /\ [][BreakerNext]_breakerVars

(* Time passes, the worker sweeps its candidates again and again, and the  *)
(* timeout ends every poll.                                                *)
BreakerFairness ==
    /\ WF_breakerVars(Tick)
    /\ WF_breakerVars(\E c \in Calls : BeginProbe(c))
    /\ \A c \in Calls : WF_breakerVars(CallEnds(c))

BreakerFairSpec == BreakerSpec /\ BreakerFairness

-----------------------------------------------------------------------------
(* Properties                                                              *)

(* While the breaker is half open exactly one poll is in flight, the probe *)
(* itself: no poll started before the outage is left to decide for it, and *)
(* none starts beside it.  The window never holds more than its samples.   *)
HalfOpenHasOneProbe ==
    /\ BreakerTypeOK
    /\ state = "HALF_OPEN" =>
          /\ probeInFlight
          /\ \E c \in Calls : call[c].busy /\ call[c].probe
          /\ \A c, d \in Calls : call[c].busy /\ call[d].busy => c = d

(* Polls that were in flight when the breaker opened and fail afterwards   *)
(* do not start the cooldown again.                                        *)
CooldownIsNotExtended ==
    [][state = "OPEN" /\ state' = "OPEN" => sinceOpened' >= sinceOpened]_breakerVars

(* Every outage is probed: an open breaker gets half open, where the probe *)
(* that HalfOpenHasOneProbe tells of decides.                              *)
OutagesAreProbed == []<>(state # "OPEN")
=============================================================================
