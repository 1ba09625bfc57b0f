---------------------------- MODULE DrainsProofs ----------------------------
(***************************************************************************)
(* Proofs about the modules that bring in what lenders and vendors report: *)
(* the circuit breaker, the polling of decisions, the vendors' drains and  *)
(* the metering of PIXIE, for any number of calls, replicas and events and *)
(* any limits.                                                             *)
(***************************************************************************)
EXTENDS MCDrains, SequenceTheorems, NumberSets

(***************************************************************************)
(* The circuit breaker                                                     *)
(***************************************************************************)

Busy == {c \in Calls : call[c].busy}

(* What is in flight while the breaker is open was started before it       *)
(* opened, and cannot fill the window again.                               *)
OpenIsDraining ==
    /\ \A c \in Calls : ~call[c].busy => call[c] = Free
    /\ state = "OPEN" =>
          /\ \A c \in Calls : call[c].busy => call[c].age >= sinceOpened
          /\ Len(samples) + Cardinality(Busy) < Cardinality(Calls)
    /\ state = "HALF_OPEN" => Len(samples) < Cardinality(Calls)
    /\ state # "HALF_OPEN" => ~probeInFlight

BreakerIInv == HalfOpenHasOneProbe /\ OpenIsDraining

LEMMA CallsAreCountable ==
  /\ Cardinality(Calls) \in Nat
  /\ IsFiniteSet(Busy) /\ Cardinality(Busy) \in Nat
  /\ Cardinality(Busy) <= Cardinality(Calls)
<1>1. Busy \in SUBSET Calls
  BY DEF Busy
<1>2. IsFiniteSet(Busy) /\ Cardinality(Busy) <= Cardinality(Calls)
  BY <1>1, BreakerOptions, FS_Subset
<1>3. Cardinality(Busy) \in Nat /\ Cardinality(Calls) \in Nat
  BY <1>2, BreakerOptions, FS_CardinalityType
<1>. QED  BY <1>2, <1>3

LEMMA EmptyWindow == << >> \in Seq({"ok", "fail"}) /\ Len(<< >>) = 0
BY EmptySeq

LEMMA PushIsBounded ==
  ASSUME NEW s \in Seq({"ok", "fail"}), Len(s) <= Window,
         NEW x \in {"ok", "fail"}
  PROVE  /\ Push(s, x) \in Seq({"ok", "fail"}) /\ Len(Push(s, x)) <= Window
         /\ Len(Push(s, x)) <= Len(s) + 1
<1>. USE BreakerOptions
<1>1. Len(s) \in Nat /\ s \in Seq({"ok", "fail"})
  BY LenProperties
<1>2. CASE Len(s) = Window
  <2>1. s # << >>
    BY <1>2, EmptyWindow
  <2>2. /\ Tail(s) \in Seq({"ok", "fail"})
        /\ Len(Tail(s)) = Len(s) - 1
    BY <2>1, HeadTailProperties
  <2>3. /\ Append(Tail(s), x) \in Seq({"ok", "fail"})
        /\ Len(Append(Tail(s), x)) = Len(Tail(s)) + 1
    BY <2>2, AppendProperties
  <2>. QED  BY <1>1, <1>2, <2>2, <2>3 DEF Push
<1>3. CASE Len(s) # Window
  <2>1. /\ Append(s, x) \in Seq({"ok", "fail"})
        /\ Len(Append(s, x)) = Len(s) + 1
    BY AppendProperties
  <2>. QED  BY <1>1, <1>3, <2>1 DEF Push
<1>. QED  BY <1>2, <1>3

LEMMA BreakerInitIInv == BreakerInit => BreakerIInv
<1>. SUFFICES ASSUME BreakerInit PROVE BreakerIInv
  OBVIOUS
<1>. USE BreakerOptions DEF BreakerInit
<1>1. call \in [Calls -> [busy : BOOLEAN, age : 0 .. CallTimeout,
                          probe : BOOLEAN]]
  BY DEF Free
<1>2. samples \in Seq({"ok", "fail"}) /\ Len(samples) <= Window
  BY EmptyWindow
<1>3. sinceOpened \in 0 .. Cooldown + 1
  OBVIOUS
<1>4. probeInFlight \in BOOLEAN /\ state \in {"CLOSED", "OPEN", "HALF_OPEN"}
  OBVIOUS
<1>5. BreakerTypeOK
  BY <1>1, <1>2, <1>3, <1>4 DEF BreakerTypeOK
<1>. QED  BY <1>5 DEF BreakerIInv, HalfOpenHasOneProbe, OpenIsDraining

LEMMA EndedCallIsCounted ==
  ASSUME BreakerIInv, NEW c \in Calls, call[c].busy,
         call' = [call EXCEPT ![c] = Free]
  PROVE  /\ ~call'[c].busy /\ call'[c] = Free
         /\ \A d \in Calls \ {c} : call'[d] = call[d]
         /\ Busy' = Busy \ {c}
         /\ Cardinality(Busy') = Cardinality(Busy) - 1
         /\ Cardinality(Busy') \in Nat
         /\ call' \in [Calls -> [busy : BOOLEAN, age : 0 .. CallTimeout,
                                 probe : BOOLEAN]]
<1>. USE BreakerOptions DEF BreakerIInv, HalfOpenHasOneProbe, BreakerTypeOK
<1>1. ~call'[c].busy /\ call'[c] = Free
      /\ \A d \in Calls \ {c} : call'[d] = call[d]
  BY DEF Free
<1>2. Busy' = Busy \ {c} /\ c \in Busy
  BY <1>1 DEF Busy
<1>3. Cardinality(Busy \ {c}) = Cardinality(Busy) - 1
      /\ IsFiniteSet(Busy \ {c})
  BY <1>2, CallsAreCountable, FS_RemoveElement
<1>4. Cardinality(Busy \ {c}) \in Nat
  BY <1>3, FS_CardinalityType
<1>5. call' \in [Calls -> [busy : BOOLEAN, age : 0 .. CallTimeout,
                           probe : BOOLEAN]]
  BY DEF Free
<1>. QED  BY <1>1, <1>2, <1>3, <1>4, <1>5

LEMMA BreakerStepKeepsIInv ==
  BreakerIInv /\ [BreakerNext]_breakerVars => BreakerIInv'
<1>. SUFFICES ASSUME BreakerIInv, [BreakerNext]_breakerVars
              PROVE  BreakerIInv'
  OBVIOUS
<1>. USE BreakerOptions DEF BreakerIInv, HalfOpenHasOneProbe
<1>0. /\ Len(samples) \in Nat /\ Cardinality(Calls) \in Nat
      /\ Cardinality(Busy) \in Nat /\ IsFiniteSet(Busy) /\ BreakerTypeOK
  BY CallsAreCountable DEF BreakerTypeOK
<1>1. ASSUME NEW c \in Calls, Begin(c) PROVE BreakerIInv'
  <2>1. state = "CLOSED" /\ UNCHANGED breaker
        /\ call' = [call EXCEPT ![c].busy = TRUE]
    BY <1>1 DEF Begin
  <2>2. BreakerTypeOK'
    BY <2>1 DEF BreakerTypeOK, breaker
  <2>3. \A d \in Calls : ~call'[d].busy => call'[d] = Free
    BY <1>0, <2>1 DEF OpenIsDraining, BreakerTypeOK
  <2>. QED  BY <2>1, <2>2, <2>3 DEF OpenIsDraining, breaker
<1>2. ASSUME NEW c \in Calls, BeginProbe(c) PROVE BreakerIInv'
  <2>1. /\ ~call[c].busy
        /\ state = "OPEN" /\ sinceOpened > Cooldown /\ ~probeInFlight
        /\ state' = "HALF_OPEN"
        /\ probeInFlight' = TRUE
        /\ call' = [call EXCEPT ![c].busy = TRUE, ![c].probe = TRUE]
        /\ UNCHANGED <<samples, sinceOpened>>
    BY <1>2 DEF BeginProbe
  <2>2. BreakerTypeOK'
    BY <1>0, <2>1 DEF BreakerTypeOK
  <2>3. \A d \in Calls : ~call[d].busy
    BY <1>0, <2>1 DEF OpenIsDraining, BreakerTypeOK
  <2>4. /\ call'[c].busy /\ call'[c].probe
        /\ \A d \in Calls \ {c} : call'[d] = call[d]
    BY <1>0, <2>1 DEF BreakerTypeOK
  <2>5. Len(samples) < Cardinality(Calls)
    BY <1>0, <2>1 DEF OpenIsDraining
  <2>. QED  BY <2>1, <2>2, <2>3, <2>4, <2>5 DEF OpenIsDraining
<1>3. ASSUME NEW c \in Calls, Answered(c) PROVE BreakerIInv'
  <2>1. /\ ~call'[c].busy /\ call'[c] = Free /\ call[c].busy
        /\ \A d \in Calls \ {c} : call'[d] = call[d]
        /\ Cardinality(Busy') = Cardinality(Busy) - 1
        /\ call' \in [Calls -> [busy : BOOLEAN, age : 0 .. CallTimeout,
                                probe : BOOLEAN]]
    BY <1>3, EndedCallIsCounted DEF Answered
  <2>2. CASE state = "HALF_OPEN"
    <3>1. /\ state' = "CLOSED" /\ samples' = << >> /\ probeInFlight' = FALSE
          /\ UNCHANGED sinceOpened
      BY <1>3, <2>2 DEF Answered, BreakerSuccess
    <3>2. BreakerTypeOK'
      <4>1. samples' \in Seq({"ok", "fail"}) /\ Len(samples') <= Window
        BY <3>1, EmptyWindow
      <4>2. sinceOpened' \in 0 .. Cooldown + 1
        BY <1>0, <3>1 DEF BreakerTypeOK
      <4>3. /\ probeInFlight' \in BOOLEAN
            /\ state' \in {"CLOSED", "OPEN", "HALF_OPEN"}
        BY <3>1
      <4>. QED  BY <2>1, <4>1, <4>2, <4>3 DEF BreakerTypeOK
    <3>. QED  BY <2>1, <3>1, <3>2 DEF OpenIsDraining
  <2>3. CASE state # "HALF_OPEN"
    <3>1. /\ samples' = Push(samples, "ok")
          /\ UNCHANGED <<state, sinceOpened, probeInFlight>>
      BY <1>3, <2>3 DEF Answered, BreakerSuccess
    <3>2. /\ samples' \in Seq({"ok", "fail"}) /\ Len(samples') <= Window
          /\ Len(samples') <= Len(samples) + 1 /\ Len(samples') \in Nat
      BY <1>0, <3>1, PushIsBounded DEF BreakerTypeOK
    <3>3. BreakerTypeOK'
      <4>1. /\ sinceOpened' \in 0 .. Cooldown + 1
            /\ state' \in {"CLOSED", "OPEN", "HALF_OPEN"}
        BY <1>0, <3>1 DEF BreakerTypeOK
      <4>2. probeInFlight' = probeInFlight /\ probeInFlight \in BOOLEAN
        BY <1>0, <3>1, Zenon DEF BreakerTypeOK
      <4>. QED  BY <2>1, <3>2, <4>1, <4>2 DEF BreakerTypeOK
    <3>4. state = "OPEN" =>
             Len(samples') + Cardinality(Busy') < Cardinality(Calls)
      BY <1>0, <2>1, <3>2 DEF OpenIsDraining
    <3>5. \A d \in Calls : ~call'[d].busy => call'[d] = Free
      BY <2>1 DEF OpenIsDraining
    <3>6. \A d \in Calls :
             state = "OPEN" /\ call'[d].busy => call'[d].age >= sinceOpened'
      BY <2>1, <3>1 DEF OpenIsDraining
    <3>7. ~probeInFlight'
      BY <2>3, <3>1 DEF OpenIsDraining
    <3>. QED  BY <2>3, <3>1, <3>3, <3>4, <3>5, <3>6, <3>7 DEF OpenIsDraining
  <2>. QED  BY <2>2, <2>3
<1>4. ASSUME NEW c \in Calls, Rejected(c) PROVE BreakerIInv'
  <2>1. /\ ~call'[c].busy /\ call'[c] = Free /\ call[c].busy
        /\ \A d \in Calls \ {c} : call'[d] = call[d]
        /\ Cardinality(Busy') = Cardinality(Busy) - 1
        /\ Cardinality(Busy') \in Nat
        /\ call' \in [Calls -> [busy : BOOLEAN, age : 0 .. CallTimeout,
                                probe : BOOLEAN]]
    BY <1>4, EndedCallIsCounted DEF Rejected
  <2>2. CASE ProbeFails
    <3>1. /\ state = "HALF_OPEN" /\ state' = "OPEN" /\ sinceOpened' = 0
          /\ probeInFlight' = FALSE /\ UNCHANGED samples
      BY <2>2 DEF ProbeFails
    <3>2. \A d \in Calls : ~call'[d].busy
      BY <2>1, <3>1
    <3>3. Cardinality(Busy') = 0
      <4>1. Busy' = {}
        BY <3>2 DEF Busy
      <4>. QED  BY <4>1, FS_EmptySet
    <3>4. BreakerTypeOK'
      <4>1. /\ sinceOpened' \in 0 .. Cooldown + 1
            /\ state' \in {"CLOSED", "OPEN", "HALF_OPEN"}
        BY <3>1
      <4>2. probeInFlight' \in BOOLEAN
        BY <3>1
      <4>. QED  BY <1>0, <2>1, <3>1, <4>1, <4>2 DEF BreakerTypeOK
    <3>5. \A d \in Calls : ~call'[d].busy => call'[d] = Free
      BY <2>1 DEF OpenIsDraining
    <3>. QED  BY <1>0, <3>1, <3>2, <3>3, <3>4, <3>5 DEF OpenIsDraining
  <2>3. CASE SampleFails
    <3>. DEFINE pushed == Push(samples, "fail")
                trips == Len(pushed) >= Window /\ AtThreshold(pushed)
    <3>1. /\ state # "HALF_OPEN"
          /\ samples' = IF trips THEN << >> ELSE pushed
          /\ state' = IF trips THEN "OPEN" ELSE state
          /\ sinceOpened' = IF trips THEN 0 ELSE sinceOpened
          /\ UNCHANGED probeInFlight
      BY <2>3 DEF SampleFails
    <3>2. /\ pushed \in Seq({"ok", "fail"}) /\ Len(pushed) <= Window
          /\ Len(pushed) <= Len(samples) + 1 /\ Len(pushed) \in Nat
      BY <1>0, PushIsBounded DEF BreakerTypeOK
    <3>. HIDE DEF pushed
    <3>3. BreakerTypeOK'
      BY <1>0, <2>1, <3>1, <3>2 DEF BreakerTypeOK
    <3>4. \A d \in Calls : ~call'[d].busy => call'[d] = Free
      BY <2>1 DEF OpenIsDraining
    <3>5. CASE trips
      <4>1. Cardinality(Busy) <= Cardinality(Calls)
        BY CallsAreCountable
      <4>2. Len(samples') = 0
        BY <3>1, <3>5
      <4>3. \A d \in Calls : call'[d].age >= 0
        BY <3>3 DEF BreakerTypeOK
      <4>. QED  BY <1>0, <2>1, <3>1, <3>3, <3>4, <3>5, <4>1, <4>2, <4>3
               DEF OpenIsDraining
    <3>6. CASE ~trips
      <4>1. samples' = pushed /\ state' = state /\ sinceOpened' = sinceOpened
        BY <3>1, <3>6
      <4>2. state = "OPEN" =>
               Len(samples') + Cardinality(Busy') < Cardinality(Calls)
        BY <1>0, <2>1, <3>2, <4>1 DEF OpenIsDraining
      <4>. QED  BY <1>0, <2>1, <3>1, <3>3, <3>4, <4>1, <4>2
               DEF OpenIsDraining
    <3>. QED  BY <3>5, <3>6
  <2>. QED  BY <1>4, <2>2, <2>3 DEF Rejected
<1>5. ASSUME Tick PROVE BreakerIInv'
  <2>1. /\ UNCHANGED <<state, samples, probeInFlight>>
        /\ sinceOpened' = IF sinceOpened <= Cooldown THEN sinceOpened + 1
                                                     ELSE sinceOpened
    BY <1>5 DEF Tick
  <2>2. \A d \in Calls :
           /\ call'[d].busy = call[d].busy /\ call'[d].probe = call[d].probe
           /\ call[d].busy => call'[d].age = call[d].age + 1
           /\ ~call[d].busy => call'[d] = call[d]
           /\ call[d].busy => call[d].age < CallTimeout
    BY <1>0, <1>5 DEF Tick, BreakerTypeOK
  <2>3. BreakerTypeOK'
    <3>1. call' \in [Calls -> [busy : BOOLEAN, age : 0 .. CallTimeout,
                               probe : BOOLEAN]]
      <4>1. ASSUME NEW d \in Calls
            PROVE  (IF call[d].busy THEN [call[d] EXCEPT !.age = @ + 1]
                                    ELSE call[d])
                   \in [busy : BOOLEAN, age : 0 .. CallTimeout, probe : BOOLEAN]
        <5>1. call[d] \in [busy : BOOLEAN, age : 0 .. CallTimeout,
                           probe : BOOLEAN]
          BY <1>0 DEF BreakerTypeOK
        <5>2. call[d].busy => call[d].age + 1 \in 0 .. CallTimeout
          BY <2>2, <5>1
        <5>. QED  BY <5>1, <5>2
      <4>. QED  BY <1>5, <4>1 DEF Tick
    <3>. QED  BY <1>0, <2>1, <3>1 DEF BreakerTypeOK
  <2>4. Busy' = Busy
    BY <2>2 DEF Busy
  <2>5. \A d \in Calls : call[d].age \in Nat
    BY <1>0 DEF BreakerTypeOK
  <2>6. sinceOpened \in Nat
    BY <1>0 DEF BreakerTypeOK
  <2>. QED  BY <1>0, <2>1, <2>2, <2>3, <2>4, <2>5, <2>6 DEF OpenIsDraining
<1>6. CASE UNCHANGED breakerVars
  BY <1>6 DEF breakerVars, breaker, OpenIsDraining, BreakerTypeOK, Busy
<1>. QED  BY <1>1, <1>2, <1>3, <1>4, <1>5, <1>6 DEF BreakerNext, CallEnds

LEMMA BreakerIInvAlways == BreakerSpec => []BreakerIInv
BY BreakerInitIInv, BreakerStepKeepsIInv, PTL DEF BreakerSpec

(* CircuitBreaker: as long as no call outlives the cooldown and the        *)
(* process has no more pollers than the window has samples, exactly one    *)
(* poll is in flight while the breaker is half open, and it is the probe.  *)
THEOREM HalfOpenAlwaysHasOneProbe == BreakerSpec => []HalfOpenHasOneProbe
<1>1. BreakerIInv => HalfOpenHasOneProbe
  BY DEF BreakerIInv
<1>. QED  BY <1>1, BreakerIInvAlways, PTL

(* Under the same bounds, the failures of polls that were in flight when   *)
(* the breaker opened do not fill the window and start the cooldown again. *)
THEOREM CooldownIsNeverExtended == BreakerSpec => CooldownIsNotExtended
<1>1. BreakerIInv /\ [BreakerNext]_breakerVars =>
         [state = "OPEN" /\ state' = "OPEN" =>
             sinceOpened' >= sinceOpened]_breakerVars
  <2>. SUFFICES ASSUME BreakerIInv, [BreakerNext]_breakerVars,
                       state = "OPEN", state' = "OPEN"
                PROVE  sinceOpened' >= sinceOpened
    OBVIOUS
  <2>. USE BreakerOptions DEF BreakerIInv, HalfOpenHasOneProbe
  <2>0. /\ Len(samples) \in Nat /\ Cardinality(Calls) \in Nat
        /\ Cardinality(Busy) \in Nat /\ IsFiniteSet(Busy) /\ BreakerTypeOK
        /\ sinceOpened \in Nat
    BY CallsAreCountable DEF BreakerTypeOK
  <2>1. ASSUME NEW c \in Calls, Rejected(c) PROVE sinceOpened' = sinceOpened
    <3>. DEFINE pushed == Push(samples, "fail")
    <3>1. c \in Busy
      BY <2>1 DEF Rejected, Busy
    <3>2. Cardinality(Busy) >= 1
      BY <2>0, <3>1, FS_EmptySet
    <3>3. Len(pushed) <= Len(samples) + 1 /\ Len(pushed) \in Nat
      BY <2>0, PushIsBounded DEF BreakerTypeOK
    <3>. HIDE DEF pushed
    <3>4. ~(Len(pushed) >= Window)
      BY <2>0, <3>2, <3>3 DEF OpenIsDraining
    <3>. QED  BY <2>1, <3>4 DEF Rejected, ProbeFails, SampleFails, pushed
  <2>2. ASSUME NEW c \in Calls, Answered(c) PROVE sinceOpened' = sinceOpened
    BY <2>2 DEF Answered, BreakerSuccess
  <2>3. ASSUME NEW c \in Calls, Begin(c) \/ BeginProbe(c)
        PROVE  sinceOpened' = sinceOpened
    BY <2>3 DEF Begin, BeginProbe, breaker
  <2>4. ASSUME Tick PROVE sinceOpened' >= sinceOpened
    BY <2>0, <2>4 DEF Tick
  <2>. QED  BY <2>0, <2>1, <2>2, <2>3, <2>4
           DEF BreakerNext, CallEnds, breakerVars, breaker
<1>. QED  BY <1>1, BreakerIInvAlways, PTL
         DEF BreakerSpec, CooldownIsNotExtended

(***************************************************************************)
(* Lender decisions                                                        *)
(***************************************************************************)

Asking(w, d) == poll[w][d].pc \in {"ask", "write"}

(* A poll that asks a lender knows the row as it is, unless another one    *)
(* asked at the same time; only rows are polled.                           *)
PollsKnowTheirRows ==
    /\ \A w \in PollReplicas, d \in Decisions :
          /\ poll[w][d].pc # "idle" => decisionRow[d] # "none"
          /\ Asking(w, d) =>
                poll[w][d].before = decisionRow[d] \/ d \in overlappingPolls
    /\ \A v, w \in PollReplicas, d \in Decisions :
          v # w /\ Asking(v, d) /\ Asking(w, d) => d \in overlappingPolls

LenderIInv == ReportsHangTogether /\ PollsKnowTheirRows

PollRec == [pc : {"idle", "queued", "ask", "write"},
            before : Standings, answer : Standings]

LEMMA PollIsUpdated ==
  ASSUME LenderTypeOK, NEW w \in PollReplicas, NEW d \in Decisions,
         NEW x \in PollRec, poll' = [poll EXCEPT ![w][d] = x]
  PROVE  /\ poll' \in [PollReplicas -> [Decisions -> PollRec]]
         /\ poll'[w][d] = x
         /\ \A v \in PollReplicas, e \in Decisions :
               v # w \/ e # d => poll'[v][e] = poll[v][e]
<1>1. poll \in [PollReplicas -> [Decisions -> PollRec]]
  BY DEF LenderTypeOK, PollRec
<1>. QED  BY <1>1

LEMMA NoPollIsOne == NoPoll \in PollRec /\ NoPoll.pc = "idle"
BY DEF NoPoll, PollRec, Standings

LEMMA LenderInitIInv == LenderInit => LenderIInv
<1>. SUFFICES ASSUME LenderInit PROVE LenderIInv
  OBVIOUS
<1>1. \A w \in PollReplicas, d \in Decisions : poll[w][d] = NoPoll
  BY DEF LenderInit
<1>2. LenderTypeOK
  BY PollOptions, NoPollIsOne
     DEF LenderInit, LenderTypeOK, Standings, PollRec
<1>3. PollsKnowTheirRows
  BY <1>1, NoPollIsOne DEF PollsKnowTheirRows, Asking
<1>. QED  BY <1>2, <1>3 DEF LenderIInv, ReportsHangTogether,
            ReportsChainUnlessPollsOverlap, LenderInit

(* A poll that is given up, or was not begun, is nobody's concern.         *)
LEMMA PollEndsKeepsIInv ==
  ASSUME LenderIInv, NEW w \in PollReplicas, NEW d \in Decisions,
         poll' = [poll EXCEPT ![w][d] = NoPoll],
         UNCHANGED <<lender, decisionRow, overlappingPolls, brokenReport>>,
         pollFaults' \in 0 .. MaxPollFaults
  PROVE  LenderIInv'
<1>. USE DEF LenderIInv, ReportsHangTogether
<1>1. /\ poll' \in [PollReplicas -> [Decisions -> PollRec]]
      /\ poll'[w][d] = NoPoll
      /\ \A v \in PollReplicas, e \in Decisions :
            v # w \/ e # d => poll'[v][e] = poll[v][e]
  BY PollIsUpdated, NoPollIsOne
<1>2. LenderTypeOK'
  BY <1>1 DEF LenderTypeOK, PollRec
<1>3. \A v \in PollReplicas, e \in Decisions :
         /\ Asking(v, e)' => Asking(v, e) /\ poll'[v][e] = poll[v][e]
         /\ poll'[v][e].pc # "idle" => poll[v][e].pc # "idle"
  BY <1>1, NoPollIsOne DEF Asking
<1>4. PollsKnowTheirRows'
  BY <1>3 DEF PollsKnowTheirRows
<1>. QED  BY <1>2, <1>4 DEF ReportsChainUnlessPollsOverlap

LEMMA LenderStepKeepsIInv == LenderIInv /\ [LenderNext]_lenderVars => LenderIInv'
<1>. SUFFICES ASSUME LenderIInv, [LenderNext]_lenderVars PROVE LenderIInv'
  OBVIOUS
<1>. USE PollOptions DEF LenderIInv, ReportsHangTogether
<1>0. LenderTypeOK /\ PollsKnowTheirRows /\ brokenReport \subseteq overlappingPolls
      /\ poll \in [PollReplicas -> [Decisions -> PollRec]]
  BY DEF ReportsChainUnlessPollsOverlap, LenderTypeOK, PollRec
<1>1. ASSUME NEW d \in Decisions, SubmitToLender(d) \/ Contracted(d)
      PROVE  LenderIInv'
  <2>1. /\ decisionRow[d] = "none"
        /\ UNCHANGED <<lender, poll, pollFaults, overlappingPolls, brokenReport>>
        /\ decisionRow' \in [Decisions -> Standings \cup {"none"}]
        /\ \A e \in Decisions \ {d} : decisionRow'[e] = decisionRow[e]
    BY <1>0, <1>1 DEF SubmitToLender, Contracted, Next1, LenderTypeOK, Standings
  <2>2. LenderTypeOK'
    BY <1>0, <2>1 DEF LenderTypeOK
  <2>3. \A w \in PollReplicas : ~Asking(w, d) /\ poll[w][d].pc = "idle"
    BY <1>0, <2>1 DEF PollsKnowTheirRows, Asking
  <2>4. PollsKnowTheirRows'
    BY <1>0, <2>1, <2>3 DEF PollsKnowTheirRows, Asking
  <2>. QED  BY <1>0, <2>1, <2>2, <2>4 DEF ReportsChainUnlessPollsOverlap
<1>2. ASSUME NEW d \in Decisions, LenderMoves(d) PROVE LenderIInv'
  <2>1. /\ UNCHANGED <<decisionRow, poll, pollFaults, overlappingPolls,
                       brokenReport>>
        /\ lender' \in [Decisions -> Standings]
    BY <1>0, <1>2 DEF LenderMoves, LenderTypeOK
  <2>. QED  BY <1>0, <2>1 DEF LenderTypeOK, PollsKnowTheirRows, Asking,
               ReportsChainUnlessPollsOverlap
<1>3. ASSUME NEW w \in PollReplicas, StartBatch(w) PROVE LenderIInv'
  <2>1. /\ poll' = [poll EXCEPT ![w] =
                   [d \in Decisions |->
                       IF d \in Oldest(Candidates)
                       THEN [NoPoll EXCEPT !.pc = "queued",
                                           !.before = decisionRow[d]]
                       ELSE NoPoll]]
        /\ UNCHANGED <<lender, decisionRow, pollFaults, overlappingPolls,
                       brokenReport>>
    BY <1>3 DEF StartBatch
  <2>2. \A d \in Oldest(Candidates) : d \in Decisions /\ decisionRow[d] # "none"
    BY DEF Oldest, Candidates
  <2>3. \A d \in Decisions : /\ poll'[w][d] \in PollRec
                             /\ poll'[w][d].pc \in {"idle", "queued"}
                             /\ poll'[w][d].pc # "idle" => decisionRow[d] # "none"
    <3>. SUFFICES ASSUME NEW d \in Decisions
                  PROVE  /\ poll'[w][d] \in PollRec
                         /\ poll'[w][d].pc \in {"idle", "queued"}
                         /\ poll'[w][d].pc # "idle" => decisionRow[d] # "none"
      OBVIOUS
    <3>1. poll'[w][d] = IF d \in Oldest(Candidates)
                        THEN [NoPoll EXCEPT !.pc = "queued",
                                            !.before = decisionRow[d]]
                        ELSE NoPoll
      BY <1>0, <2>1
    <3>2. decisionRow[d] # "none" => decisionRow[d] \in Standings
      BY <1>0 DEF LenderTypeOK
    <3>. QED  BY <3>1, <3>2, <2>2, NoPollIsOne DEF PollRec, NoPoll
  <2>4. \A v \in PollReplicas : v # w => poll'[v] = poll[v]
    BY <1>0, <2>1
  <2>5. poll' \in [PollReplicas -> [Decisions -> PollRec]]
    <3>1. poll'[w] \in [Decisions -> PollRec]
      <4>1. poll'[w] = [d \in Decisions |-> poll'[w][d]]
        BY <1>0, <2>1
      <4>. QED  BY <2>3, <4>1
    <3>. QED  BY <1>0, <2>1, <2>4, <3>1
  <2>6. LenderTypeOK'
    BY <1>0, <2>1, <2>5 DEF LenderTypeOK, PollRec
  <2>7. PollsKnowTheirRows'
    <3>1. \A d \in Decisions : ~Asking(w, d)'
      BY <2>3 DEF Asking
    <3>2. \A v \in PollReplicas, d \in Decisions :
             v # w => poll'[v][d] = poll[v][d] /\ (Asking(v, d)' <=> Asking(v, d))
      BY <2>4 DEF Asking
    <3>3. ASSUME NEW v \in PollReplicas, NEW d \in Decisions
          PROVE  /\ poll'[v][d].pc # "idle" => decisionRow[d] # "none"
                 /\ Asking(v, d)' => poll'[v][d].before = decisionRow[d]
                                     \/ d \in overlappingPolls
      <4>1. CASE v = w
        BY <2>3, <3>1, <4>1
      <4>2. CASE v # w
        BY <1>0, <3>2, <4>2 DEF PollsKnowTheirRows
      <4>. QED  BY <4>1, <4>2
    <3>4. ASSUME NEW u \in PollReplicas, NEW v \in PollReplicas,
                 NEW d \in Decisions, u # v, Asking(u, d)', Asking(v, d)'
          PROVE  d \in overlappingPolls
      <4>1. u # w /\ v # w
        BY <3>1, <3>4
      <4>. QED  BY <1>0, <3>2, <3>4, <4>1 DEF PollsKnowTheirRows
    <3>. QED  BY <2>1, <3>3, <3>4 DEF PollsKnowTheirRows
  <2>. QED  BY <1>0, <2>1, <2>6, <2>7 DEF ReportsChainUnlessPollsOverlap
<1>4. ASSUME NEW w \in PollReplicas, NEW d \in Decisions, NotPolled(w, d)
      PROVE  LenderIInv'
  BY <1>0, <1>4, PollEndsKeepsIInv DEF NotPolled, LenderTypeOK
<1>5. ASSUME NEW w \in PollReplicas, NEW d \in Decisions, ReadDecision(w, d)
      PROVE  LenderIInv'
  <2>1. CASE decisionRow[d] = "FUNDED"
    BY <1>0, <1>5, <2>1, PollEndsKeepsIInv DEF ReadDecision, LenderTypeOK
  <2>2. CASE decisionRow[d] # "FUNDED"
    <3>. DEFINE x == [poll[w][d] EXCEPT !.pc = "ask", !.before = decisionRow[d]]
    <3>0. /\ poll[w][d].pc = "queued"
          /\ poll' = [poll EXCEPT ![w][d].pc = "ask",
                                  ![w][d].before = decisionRow[d]]
          /\ overlappingPolls' =
                IF \E v \in PollReplicas : d \in InFlight(v)
                THEN overlappingPolls \cup {d} ELSE overlappingPolls
          /\ UNCHANGED <<lender, decisionRow, pollFaults, brokenReport>>
      BY <1>5, <2>2 DEF ReadDecision
    <3>a. poll' = [poll EXCEPT ![w][d] = x]
      <4>. DEFINE p == [poll EXCEPT ![w][d].pc = "ask"]
      <4>1. /\ p \in [PollReplicas -> [Decisions -> PollRec]]
            /\ p = [poll EXCEPT ![w][d] = [poll[w][d] EXCEPT !.pc = "ask"]]
        BY <1>0 DEF PollRec
      <4>2. poll' = [p EXCEPT ![w][d].before = decisionRow[d]]
        BY <3>0
      <4>. HIDE DEF p
      <4>. QED  BY <1>0, <4>1, <4>2 DEF PollRec
    <3>1. /\ poll[w][d].pc = "queued"
          /\ poll' = [poll EXCEPT ![w][d] = x]
          /\ overlappingPolls' =
                IF \E v \in PollReplicas : d \in InFlight(v)
                THEN overlappingPolls \cup {d} ELSE overlappingPolls
          /\ UNCHANGED <<lender, decisionRow, pollFaults, brokenReport>>
      BY <3>0, <3>a
    <3>2. decisionRow[d] \in Standings /\ poll[w][d] \in PollRec
      BY <1>0, <3>1 DEF LenderTypeOK, PollsKnowTheirRows
    <3>3. x \in PollRec /\ x.pc = "ask" /\ x.before = decisionRow[d]
      BY <3>2 DEF PollRec
    <3>. HIDE DEF x
    <3>4. /\ poll' \in [PollReplicas -> [Decisions -> PollRec]]
          /\ poll'[w][d] = x
          /\ \A v \in PollReplicas, e \in Decisions :
                v # w \/ e # d => poll'[v][e] = poll[v][e]
      BY <1>0, <3>1, <3>3, PollIsUpdated
    <3>5. /\ overlappingPolls \subseteq overlappingPolls'
          /\ overlappingPolls' \subseteq Decisions
          /\ \A v \in PollReplicas : Asking(v, d) => d \in overlappingPolls'
      BY <1>0, <3>1 DEF LenderTypeOK, InFlight, Asking
    <3>6. LenderTypeOK'
      BY <1>0, <3>1, <3>4, <3>5 DEF LenderTypeOK, PollRec
    <3>7. PollsKnowTheirRows'
      <4>1. \A v \in PollReplicas, e \in Decisions :
               v # w \/ e # d => (Asking(v, e)' <=> Asking(v, e))
        BY <3>4 DEF Asking
      <4>2. ASSUME NEW v \in PollReplicas, NEW e \in Decisions
            PROVE  /\ poll'[v][e].pc # "idle" => decisionRow'[e] # "none"
                   /\ Asking(v, e)' => poll'[v][e].before = decisionRow'[e]
                                       \/ e \in overlappingPolls'
        <5>1. CASE v # w \/ e # d
          BY <1>0, <3>1, <3>4, <3>5, <4>1, <5>1 DEF PollsKnowTheirRows
        <5>2. CASE v = w /\ e = d
          BY <1>0, <3>1, <3>3, <3>4, <5>2 DEF PollsKnowTheirRows
        <5>. QED  BY <5>1, <5>2
      <4>3. ASSUME NEW u \in PollReplicas, NEW v \in PollReplicas,
                   NEW e \in Decisions, u # v, Asking(u, e)', Asking(v, e)'
            PROVE  e \in overlappingPolls'
        <5>1. CASE e # d
          BY <1>0, <3>5, <4>1, <4>3, <5>1 DEF PollsKnowTheirRows
        <5>2. CASE e = d
          BY <3>5, <4>1, <4>3, <5>2
        <5>. QED  BY <5>1, <5>2
      <4>. QED  BY <4>2, <4>3 DEF PollsKnowTheirRows
    <3>. QED  BY <1>0, <3>1, <3>5, <3>6, <3>7
             DEF ReportsChainUnlessPollsOverlap
  <2>. QED  BY <2>1, <2>2
<1>6. ASSUME NEW w \in PollReplicas, NEW d \in Decisions, Ask(w, d)
      PROVE  LenderIInv'
  <2>. DEFINE x == [poll[w][d] EXCEPT !.pc = "write", !.answer = lender[d]]
  <2>0. /\ poll[w][d].pc = "ask"
        /\ poll' = [poll EXCEPT ![w][d].pc = "write",
                                ![w][d].answer = lender[d]]
        /\ UNCHANGED <<lender, decisionRow, pollFaults, overlappingPolls,
                       brokenReport>>
    BY <1>6 DEF Ask
  <2>a. poll' = [poll EXCEPT ![w][d] = x]
    <3>. DEFINE p == [poll EXCEPT ![w][d].pc = "write"]
    <3>1. /\ p \in [PollReplicas -> [Decisions -> PollRec]]
          /\ p = [poll EXCEPT ![w][d] = [poll[w][d] EXCEPT !.pc = "write"]]
      BY <1>0 DEF PollRec
    <3>2. poll' = [p EXCEPT ![w][d].answer = lender[d]]
      BY <2>0
    <3>. HIDE DEF p
    <3>. QED  BY <1>0, <3>1, <3>2 DEF PollRec
  <2>1. /\ poll[w][d].pc = "ask"
        /\ poll' = [poll EXCEPT ![w][d] = x]
        /\ UNCHANGED <<lender, decisionRow, pollFaults, overlappingPolls,
                       brokenReport>>
    BY <2>0, <2>a
  <2>2. /\ x \in PollRec /\ x.pc = "write" /\ x.before = poll[w][d].before
    <3>1. lender[d] \in Standings /\ poll[w][d] \in PollRec
      BY <1>0 DEF LenderTypeOK
    <3>. QED  BY <3>1 DEF PollRec
  <2>. HIDE DEF x
  <2>3. /\ poll' \in [PollReplicas -> [Decisions -> PollRec]]
        /\ poll'[w][d] = x
        /\ \A v \in PollReplicas, e \in Decisions :
              v # w \/ e # d => poll'[v][e] = poll[v][e]
    BY <1>0, <2>1, <2>2, PollIsUpdated
  <2>4. \A v \in PollReplicas, e \in Decisions :
           /\ Asking(v, e)' <=> Asking(v, e)
           /\ poll'[v][e].before = poll[v][e].before
           /\ poll'[v][e].pc # "idle" => poll[v][e].pc # "idle"
    BY <2>1, <2>2, <2>3 DEF Asking
  <2>5. LenderTypeOK'
    BY <1>0, <2>1, <2>3 DEF LenderTypeOK, PollRec
  <2>6. PollsKnowTheirRows'
    BY <1>0, <2>1, <2>4 DEF PollsKnowTheirRows
  <2>. QED  BY <1>0, <2>1, <2>5, <2>6 DEF ReportsChainUnlessPollsOverlap
<1>7. ASSUME NEW w \in PollReplicas, NEW d \in Decisions, WriteAnswer(w, d)
      PROVE  LenderIInv'
  <2>1. /\ poll[w][d].pc = "write"
        /\ decisionRow' = [decisionRow EXCEPT ![d] = poll[w][d].answer]
        /\ brokenReport' = IF poll[w][d].before = decisionRow[d]
                           THEN brokenReport ELSE brokenReport \cup {d}
        /\ poll' = [poll EXCEPT ![w][d] = NoPoll]
        /\ UNCHANGED <<lender, pollFaults, overlappingPolls>>
    BY <1>7 DEF WriteAnswer
  <2>2. /\ poll' \in [PollReplicas -> [Decisions -> PollRec]]
        /\ poll'[w][d] = NoPoll
        /\ \A v \in PollReplicas, e \in Decisions :
              v # w \/ e # d => poll'[v][e] = poll[v][e]
    BY <1>0, <2>1, PollIsUpdated, NoPollIsOne
  <2>3. /\ poll[w][d].answer \in Standings
        /\ decisionRow' \in [Decisions -> Standings \cup {"none"}]
        /\ decisionRow'[d] # "none"
        /\ \A e \in Decisions \ {d} : decisionRow'[e] = decisionRow[e]
    BY <1>0, <2>1 DEF LenderTypeOK, PollRec, Standings
  <2>4. Asking(w, d) /\ ~Asking(w, d)'
    BY <2>1, <2>2, NoPollIsOne DEF Asking
  <2>5. brokenReport' \subseteq overlappingPolls
    BY <1>0, <2>1, <2>4 DEF PollsKnowTheirRows
  <2>6. LenderTypeOK'
    BY <1>0, <2>1, <2>2, <2>3, <2>5 DEF LenderTypeOK, PollRec
  <2>7. \A v \in PollReplicas, e \in Decisions :
           /\ Asking(v, e)' => /\ Asking(v, e) /\ poll'[v][e] = poll[v][e]
                               /\ v # w \/ e # d
           /\ poll'[v][e].pc # "idle" => poll[v][e].pc # "idle"
    BY <2>2, <2>4, NoPollIsOne DEF Asking
  <2>8. PollsKnowTheirRows'
    <3>1. ASSUME NEW v \in PollReplicas, NEW e \in Decisions
          PROVE  /\ poll'[v][e].pc # "idle" => decisionRow'[e] # "none"
                 /\ Asking(v, e)' => poll'[v][e].before = decisionRow'[e]
                                     \/ e \in overlappingPolls'
      <4>1. CASE e # d
        BY <1>0, <2>1, <2>3, <2>7, <4>1 DEF PollsKnowTheirRows
      <4>2. CASE e = d
        BY <1>0, <2>1, <2>3, <2>4, <2>7, <4>2 DEF PollsKnowTheirRows
      <4>. QED  BY <4>1, <4>2
    <3>2. \A u, v \in PollReplicas, e \in Decisions :
             u # v /\ Asking(u, e)' /\ Asking(v, e)' => e \in overlappingPolls'
      BY <1>0, <2>1, <2>7 DEF PollsKnowTheirRows
    <3>. QED  BY <3>1, <3>2 DEF PollsKnowTheirRows
  <2>. QED  BY <2>1, <2>5, <2>6, <2>8 DEF ReportsChainUnlessPollsOverlap
<1>8. ASSUME NEW w \in PollReplicas, NEW d \in Decisions, PollFails(w, d)
      PROVE  LenderIInv'
  <2>1. pollFaults' \in 0 .. MaxPollFaults
    BY <1>0, <1>8 DEF PollFails, LenderTypeOK
  <2>. QED  BY <1>0, <1>8, <2>1, PollEndsKeepsIInv DEF PollFails
<1>9. CASE UNCHANGED lenderVars
  BY <1>0, <1>9 DEF lenderVars, LenderTypeOK, PollsKnowTheirRows, Asking,
     ReportsChainUnlessPollsOverlap
<1>. QED  BY <1>1, <1>2, <1>3, <1>4, <1>5, <1>6, <1>7, <1>8, <1>9
         DEF LenderNext, PollStep

(* pollOne: whatever replicas poll, fail and overtake each other, a        *)
(* reporting event that does not start from what the row held is one of a  *)
(* decision that two replicas polled at once.                              *)
THEOREM ReportsAlwaysHangTogether == LenderSpec => []ReportsHangTogether
<1>1. LenderIInv => ReportsHangTogether
  BY DEF LenderIInv
<1>. QED  BY <1>1, LenderInitIInv, LenderStepKeepsIInv, PTL DEF LenderSpec

(***************************************************************************)
(* What the vendors report                                                 *)
(***************************************************************************)

VendorPcs == {"none", "waiting", "lookup", "write", "finish", "failing", "over"}

IsRevenue(e) == report[e] # NoReport /\ report[e].kind \in RevenueKinds

(* A row of the ledger has the key of the report it is from.               *)
RowsKnowTheirReports ==
    \A row \in revenueRows :
        IsRevenue(row.of) /\ row.key = RevenueKey(report[row.of])

(* A job that is about to finish, and an event marked processed for good,  *)
(* has its revenue in the ledger unless the merchant was not found.        *)
JobIsSound(e) ==
    LET job == vendorJob[e] IN
    /\ IF job.pc = "none" THEN job.tries = 0 ELSE report[e] # NoReport
    /\ job.pc = "waiting" => job.tries < VendorTries
    /\ job.pc \in {"lookup", "write", "finish", "failing"} => job.tries # 0
    /\ job.pc = "write" => IsRevenue(e) /\ e \notin unfound
    /\ job.pc = "finish" /\ IsRevenue(e) => Booked(e) \/ e \in unfound
    /\ vendorRow[e] = "PROCESSED" =>
          /\ job.pc = "over"
          /\ IsRevenue(e) => Booked(e) \/ e \in unfound

VendorIInv ==
    /\ VendorTypeOK
    /\ RowsKnowTheirReports
    /\ \A e \in VendorEvents : JobIsSound(e)

LEMMA JobMoves ==
  ASSUME VendorTypeOK, NEW e \in VendorEvents, NEW pc \in VendorPcs,
         NEW n \in 0 .. VendorTries,
         vendorJob' = [vendorJob EXCEPT ![e] = [pc |-> pc, tries |-> n]]
  PROVE  /\ vendorJob' \in [VendorEvents ->
                               [pc : VendorPcs, tries : 0 .. VendorTries]]
         /\ vendorJob'[e].pc = pc /\ vendorJob'[e].tries = n
         /\ \A x \in VendorEvents \ {e} : vendorJob'[x] = vendorJob[x]
<1>1. vendorJob \in [VendorEvents -> [pc : VendorPcs, tries : 0 .. VendorTries]]
  BY DEF VendorTypeOK, VendorPcs
<1>. QED  BY <1>1

LEMMA VendorPcIsAMove ==
  ASSUME VendorTypeOK, NEW e \in VendorEvents, NEW pc \in VendorPcs,
         VendorPc(e, pc)
  PROVE  /\ vendorJob[e].tries \in 0 .. VendorTries
         /\ vendorJob' \in [VendorEvents ->
                               [pc : VendorPcs, tries : 0 .. VendorTries]]
         /\ vendorJob'[e].pc = pc /\ vendorJob'[e].tries = vendorJob[e].tries
         /\ \A x \in VendorEvents \ {e} : vendorJob'[x] = vendorJob[x]
<1>1. vendorJob \in [VendorEvents -> [pc : VendorPcs, tries : 0 .. VendorTries]]
  BY DEF VendorTypeOK, VendorPcs
<1>. QED  BY <1>1 DEF VendorPc

(* What a step does not touch stays sound, whatever else gets booked.      *)
LEMMA OtherJobsStaySound ==
  ASSUME NEW x \in VendorEvents, JobIsSound(x),
         report'[x] = report[x], vendorJob'[x] = vendorJob[x],
         vendorRow'[x] = vendorRow[x],
         x \in unfound' <=> x \in unfound,
         revenueRows \subseteq revenueRows'
  PROVE  JobIsSound(x)'
BY DEF JobIsSound, IsRevenue, Booked, RevenueKey

LEMMA VendorInitIInv == VendorInit => VendorIInv
<1>. SUFFICES ASSUME VendorInit PROVE VendorIInv
  OBVIOUS
<1>1. VendorTypeOK
  BY VendorOptions DEF VendorInit, VendorTypeOK
<1>. QED  BY <1>1
     DEF VendorInit, VendorIInv, RowsKnowTheirReports, JobIsSound

(* A step of one job that leaves reports and ledger as they are.           *)
LEMMA JobStepKeepsIInv ==
  ASSUME VendorIInv, NEW e \in VendorEvents,
         UNCHANGED <<report, merchant, revenueRows>>,
         vendorJob' \in [VendorEvents ->
                            [pc : VendorPcs, tries : 0 .. VendorTries]],
         vendorRow' \in [VendorEvents -> {"none", "RECEIVED", "QUARANTINED",
                                          "PROCESSED", "FAILED"}],
         vendorFaults' \in 0 .. MaxVendorFaults,
         unfound' \subseteq VendorEvents,
         \A x \in VendorEvents \ {e} :
            /\ vendorJob'[x] = vendorJob[x] /\ vendorRow'[x] = vendorRow[x]
            /\ x \in unfound' <=> x \in unfound,
         JobIsSound(e)'
  PROVE  VendorIInv'
<1>. USE DEF VendorIInv
<1>1. VendorTypeOK'
  BY DEF VendorTypeOK, VendorPcs
<1>2. RowsKnowTheirReports'
  BY DEF RowsKnowTheirReports, IsRevenue, RevenueKey
<1>3. ASSUME NEW x \in VendorEvents \ {e} PROVE JobIsSound(x)'
  BY <1>3, OtherJobsStaySound
<1>. QED  BY <1>1, <1>2, <1>3

LEMMA VendorStepKeepsIInv == VendorIInv /\ [VendorNext]_vendorVars => VendorIInv'
<1>. SUFFICES ASSUME VendorIInv, [VendorNext]_vendorVars PROVE VendorIInv'
  OBVIOUS
<1>. USE VendorOptions
<1>0. /\ VendorTypeOK /\ RowsKnowTheirReports
      /\ \A e \in VendorEvents : JobIsSound(e)
      /\ vendorJob \in [VendorEvents ->
                           [pc : VendorPcs, tries : 0 .. VendorTries]]
      /\ vendorRow \in [VendorEvents -> {"none", "RECEIVED", "QUARANTINED",
                                         "PROCESSED", "FAILED"}]
      /\ report \in [VendorEvents -> Reports \cup {NoReport}]
      /\ vendorFaults \in 0 .. MaxVendorFaults /\ unfound \subseteq VendorEvents
  BY DEF VendorIInv, VendorTypeOK, VendorPcs
<1>1. ASSUME CreateMerchant \/ DeleteMerchant PROVE VendorIInv'
  <2>1. /\ merchant' \in {"none", "active", "deleted"}
        /\ UNCHANGED <<report, vendorRow, vendorJob, revenueRows, vendorFaults,
                       unfound>>
    BY <1>1 DEF CreateMerchant, DeleteMerchant
  <2>2. VendorTypeOK'
    BY <1>0, <2>1 DEF VendorTypeOK
  <2>3. RowsKnowTheirReports' /\ \A e \in VendorEvents : JobIsSound(e)'
    BY <1>0, <2>1
       DEF RowsKnowTheirReports, JobIsSound, IsRevenue, Booked, RevenueKey
  <2>. QED  BY <2>2, <2>3 DEF VendorIInv
<1>2. ASSUME NEW e \in VendorEvents, ReceiveReport(e) PROVE VendorIInv'
  <2>1. PICK r \in Reports : report' = [report EXCEPT ![e] = r]
    BY <1>2 DEF ReceiveReport
  <2>2. /\ report[e] = NoReport
        /\ vendorRow' = [vendorRow EXCEPT ![e] = "RECEIVED"]
        /\ VendorPc(e, "waiting")
        /\ UNCHANGED <<merchant, revenueRows, vendorFaults, unfound>>
    BY <1>2 DEF ReceiveReport
  <2>3. /\ vendorJob' \in [VendorEvents ->
                              [pc : VendorPcs, tries : 0 .. VendorTries]]
        /\ vendorJob'[e].pc = "waiting"
        /\ \A x \in VendorEvents \ {e} : vendorJob'[x] = vendorJob[x]
    BY <1>0, <2>2, VendorPcIsAMove DEF VendorPcs
  <2>4. /\ report' \in [VendorEvents -> Reports \cup {NoReport}]
        /\ report'[e] = r
        /\ \A x \in VendorEvents \ {e} : report'[x] = report[x]
        /\ vendorRow' \in [VendorEvents -> {"none", "RECEIVED", "QUARANTINED",
                                            "PROCESSED", "FAILED"}]
        /\ vendorRow'[e] = "RECEIVED"
        /\ \A x \in VendorEvents \ {e} : vendorRow'[x] = vendorRow[x]
    BY <1>0, <2>1, <2>2
  <2>5. VendorTypeOK'
    BY <1>0, <2>2, <2>3, <2>4 DEF VendorTypeOK, VendorPcs
  <2>6. RowsKnowTheirReports'
    <3>1. \A row \in revenueRows : row.of \in VendorEvents /\ row.of # e
      BY <1>0, <2>2 DEF RowsKnowTheirReports, IsRevenue, VendorTypeOK
    <3>. QED  BY <1>0, <2>2, <2>4, <3>1
             DEF RowsKnowTheirReports, IsRevenue, RevenueKey
  <2>7. JobIsSound(e)'
    <3>1. vendorJob[e].pc = "none" /\ vendorJob'[e].tries = vendorJob[e].tries
      BY <1>0, <2>2, VendorPcIsAMove DEF JobIsSound, VendorPcs
    <3>2. vendorJob'[e].tries = 0
      BY <1>0, <3>1 DEF JobIsSound
    <3>. QED  BY <1>0, <2>3, <2>4, <3>2, NoReportIsNone DEF JobIsSound
  <2>8. ASSUME NEW x \in VendorEvents \ {e} PROVE JobIsSound(x)'
    BY <1>0, <2>2, <2>3, <2>4, <2>8, OtherJobsStaySound
  <2>. QED  BY <2>5, <2>6, <2>7, <2>8 DEF VendorIInv
<1>3. ASSUME NEW e \in VendorEvents, BeginReport(e) PROVE VendorIInv'
  <2>1. /\ vendorJob[e].pc = "waiting"
        /\ vendorJob' = [vendorJob EXCEPT ![e].pc = "lookup",
                                          ![e].tries = @ + 1]
        /\ UNCHANGED <<report, vendorRow, merchant, revenueRows, vendorFaults,
                       unfound>>
    BY <1>3 DEF BeginReport
  <2>2. vendorJob[e].tries + 1 \in 0 .. VendorTries /\ vendorJob[e].tries + 1 # 0
    BY <1>0, <2>1 DEF JobIsSound
  <2>3. /\ vendorJob' \in [VendorEvents ->
                              [pc : VendorPcs, tries : 0 .. VendorTries]]
        /\ vendorJob'[e].pc = "lookup"
        /\ vendorJob'[e].tries = vendorJob[e].tries + 1
        /\ \A x \in VendorEvents \ {e} : vendorJob'[x] = vendorJob[x]
    BY <1>0, <2>1, <2>2 DEF VendorPcs
  <2>4. JobIsSound(e)'
    BY <1>0, <2>1, <2>2, <2>3 DEF JobIsSound
  <2>. QED  BY <1>0, <2>1, <2>3, <2>4, JobStepKeepsIInv
<1>4. ASSUME NEW e \in VendorEvents, NotRevenue(e) PROVE VendorIInv'
  <2>. DEFINE pc == IF report[e].kind = "unparsed fee" THEN "failing"
                                                       ELSE "finish"
  <2>1. /\ vendorJob[e].pc = "lookup" /\ report[e].kind \in OtherKinds
        /\ VendorPc(e, pc) /\ pc \in {"failing", "finish"}
        /\ UNCHANGED <<report, vendorRow, merchant, revenueRows, vendorFaults,
                       unfound>>
    BY <1>4 DEF NotRevenue
  <2>. HIDE DEF pc
  <2>2. /\ vendorJob' \in [VendorEvents ->
                              [pc : VendorPcs, tries : 0 .. VendorTries]]
        /\ vendorJob'[e].pc = pc /\ vendorJob'[e].tries = vendorJob[e].tries
        /\ \A x \in VendorEvents \ {e} : vendorJob'[x] = vendorJob[x]
    BY <1>0, <2>1, VendorPcIsAMove DEF VendorPcs
  <2>3. ~IsRevenue(e)' /\ ~IsRevenue(e)
    BY <2>1 DEF IsRevenue, RevenueKinds, DrainKinds, MicampKinds, OtherKinds
  <2>4. JobIsSound(e)'
    BY <1>0, <2>1, <2>2, <2>3 DEF JobIsSound
  <2>. QED  BY <1>0, <2>1, <2>2, <2>4, JobStepKeepsIInv
<1>5. ASSUME NEW e \in VendorEvents, FindMerchant(e) PROVE VendorIInv'
  <2>1. /\ vendorJob[e].pc = "lookup" /\ report[e].kind \in RevenueKinds
        /\ VendorPc(e, "write") /\ unfound' = unfound \ {e}
        /\ UNCHANGED <<report, vendorRow, merchant, revenueRows, vendorFaults>>
    BY <1>5 DEF FindMerchant
  <2>2. /\ vendorJob' \in [VendorEvents ->
                              [pc : VendorPcs, tries : 0 .. VendorTries]]
        /\ vendorJob'[e].pc = "write"
        /\ vendorJob'[e].tries = vendorJob[e].tries
        /\ \A x \in VendorEvents \ {e} : vendorJob'[x] = vendorJob[x]
    BY <1>0, <2>1, VendorPcIsAMove DEF VendorPcs
  <2>3. JobIsSound(e)'
    BY <1>0, <2>1, <2>2 DEF JobIsSound, IsRevenue
  <2>. QED  BY <1>0, <2>1, <2>2, <2>3, JobStepKeepsIInv
<1>6. ASSUME NEW e \in VendorEvents, MissMerchant(e) PROVE VendorIInv'
  <2>. DEFINE pc == IF report[e].kind \in DrainKinds THEN "finish" ELSE "failing"
  <2>1. /\ vendorJob[e].pc = "lookup" /\ VendorPc(e, pc)
        /\ pc \in {"failing", "finish"}
        /\ \/ vendorRow' = [vendorRow EXCEPT ![e] = "QUARANTINED"]
           \/ vendorRow' = vendorRow
        /\ unfound' = unfound \cup {e}
        /\ UNCHANGED <<report, merchant, revenueRows, vendorFaults>>
    BY <1>6 DEF MissMerchant
  <2>. HIDE DEF pc
  <2>2. /\ vendorJob' \in [VendorEvents ->
                              [pc : VendorPcs, tries : 0 .. VendorTries]]
        /\ vendorJob'[e].pc = pc /\ vendorJob'[e].tries = vendorJob[e].tries
        /\ \A x \in VendorEvents \ {e} : vendorJob'[x] = vendorJob[x]
    BY <1>0, <2>1, VendorPcIsAMove DEF VendorPcs
  <2>3. /\ vendorRow' \in [VendorEvents -> {"none", "RECEIVED", "QUARANTINED",
                                            "PROCESSED", "FAILED"}]
        /\ vendorRow'[e] # "PROCESSED"
        /\ \A x \in VendorEvents \ {e} : vendorRow'[x] = vendorRow[x]
    BY <1>0, <2>1 DEF JobIsSound
  <2>4. JobIsSound(e)'
    BY <1>0, <2>1, <2>2, <2>3 DEF JobIsSound
  <2>. QED  BY <1>0, <2>1, <2>2, <2>3, <2>4, JobStepKeepsIInv
<1>7. ASSUME NEW e \in VendorEvents, RecordReport(e) PROVE VendorIInv'
  <2>. DEFINE row == [key |-> RevenueKey(report[e]), of |-> e]
  <2>1. /\ vendorJob[e].pc = "write" /\ VendorPc(e, "finish")
        /\ revenueRows' = IF Booked(e) THEN revenueRows
                                       ELSE revenueRows \cup {row}
        /\ UNCHANGED <<report, vendorRow, merchant, vendorFaults, unfound>>
    BY <1>7 DEF RecordReport
  <2>2. /\ vendorJob' \in [VendorEvents ->
                              [pc : VendorPcs, tries : 0 .. VendorTries]]
        /\ vendorJob'[e].pc = "finish"
        /\ vendorJob'[e].tries = vendorJob[e].tries
        /\ \A x \in VendorEvents \ {e} : vendorJob'[x] = vendorJob[x]
    BY <1>0, <2>1, VendorPcIsAMove DEF VendorPcs
  <2>3. IsRevenue(e)
    BY <1>0, <2>1 DEF JobIsSound
  <2>4. row \in [key : RevenueKinds \X References, of : VendorEvents]
    <3>1. report[e] \in Reports /\ report[e].kind \in RevenueKinds
      BY <1>0, <2>3 DEF IsRevenue
    <3>2. report[e].ref \in References
      BY <3>1 DEF Reports, RevenueKinds, DrainKinds, MicampKinds, OtherKinds
    <3>. QED  BY <3>1, <3>2 DEF RevenueKey
  <2>5. row.key = RevenueKey(report[e]) /\ row.of = e
    OBVIOUS
  <2>. HIDE DEF row
  <2>6. /\ revenueRows \subseteq revenueRows'
        /\ revenueRows' \subseteq revenueRows \cup {row}
        /\ \E q \in revenueRows' : q.key = RevenueKey(report[e])
    BY <2>1, <2>5 DEF Booked
  <2>7. VendorTypeOK'
    BY <1>0, <2>1, <2>2, <2>4, <2>6 DEF VendorTypeOK, VendorPcs
  <2>8. RowsKnowTheirReports'
    BY <1>0, <2>1, <2>3, <2>5, <2>6
       DEF RowsKnowTheirReports, IsRevenue, RevenueKey
  <2>9. JobIsSound(e)'
    <3>1. Booked(e)'
      BY <2>1, <2>6 DEF Booked, RevenueKey
    <3>. QED  BY <1>0, <2>1, <2>2, <2>3, <3>1 DEF JobIsSound, IsRevenue
  <2>10. ASSUME NEW x \in VendorEvents \ {e} PROVE JobIsSound(x)'
    BY <1>0, <2>1, <2>2, <2>6, <2>10, OtherJobsStaySound
  <2>. QED  BY <2>7, <2>8, <2>9, <2>10 DEF VendorIInv
<1>8. ASSUME NEW e \in VendorEvents, MarkReportProcessed(e) PROVE VendorIInv'
  <2>1. /\ vendorJob[e].pc = "finish" /\ VendorPc(e, "over")
        /\ vendorRow' = [vendorRow EXCEPT ![e] = "PROCESSED"]
        /\ UNCHANGED <<report, merchant, revenueRows, vendorFaults, unfound>>
    BY <1>8 DEF MarkReportProcessed
  <2>2. /\ vendorJob' \in [VendorEvents ->
                              [pc : VendorPcs, tries : 0 .. VendorTries]]
        /\ vendorJob'[e].pc = "over"
        /\ \A x \in VendorEvents \ {e} : vendorJob'[x] = vendorJob[x]
    BY <1>0, <2>1, VendorPcIsAMove DEF VendorPcs
  <2>3. /\ vendorRow' \in [VendorEvents -> {"none", "RECEIVED", "QUARANTINED",
                                            "PROCESSED", "FAILED"}]
        /\ \A x \in VendorEvents \ {e} : vendorRow'[x] = vendorRow[x]
    BY <1>0, <2>1
  <2>4. JobIsSound(e)'
    BY <1>0, <2>1, <2>2 DEF JobIsSound, IsRevenue, Booked, RevenueKey
  <2>. QED  BY <1>0, <2>1, <2>2, <2>3, <2>4, JobStepKeepsIInv
<1>9. ASSUME NEW e \in VendorEvents, MarkReportFailed(e) PROVE VendorIInv'
  <2>. DEFINE pc == IF vendorJob[e].tries < VendorTries THEN "waiting" ELSE "over"
  <2>1. /\ vendorJob[e].pc = "failing" /\ VendorPc(e, pc)
        /\ pc \in {"waiting", "over"}
        /\ pc = "waiting" => vendorJob[e].tries < VendorTries
        /\ vendorRow' = [vendorRow EXCEPT ![e] = "FAILED"]
        /\ UNCHANGED <<report, merchant, revenueRows, vendorFaults, unfound>>
    BY <1>9 DEF MarkReportFailed
  <2>. HIDE DEF pc
  <2>2. /\ vendorJob' \in [VendorEvents ->
                              [pc : VendorPcs, tries : 0 .. VendorTries]]
        /\ vendorJob'[e].pc = pc /\ vendorJob'[e].tries = vendorJob[e].tries
        /\ \A x \in VendorEvents \ {e} : vendorJob'[x] = vendorJob[x]
    BY <1>0, <2>1, VendorPcIsAMove DEF VendorPcs
  <2>3. /\ vendorRow' \in [VendorEvents -> {"none", "RECEIVED", "QUARANTINED",
                                            "PROCESSED", "FAILED"}]
        /\ vendorRow'[e] = "FAILED"
        /\ \A x \in VendorEvents \ {e} : vendorRow'[x] = vendorRow[x]
    BY <1>0, <2>1
  <2>4. JobIsSound(e)'
    BY <1>0, <2>1, <2>2, <2>3 DEF JobIsSound
  <2>. QED  BY <1>0, <2>1, <2>2, <2>3, <2>4, JobStepKeepsIInv
<1>10. ASSUME NEW e \in VendorEvents, ReportFails(e) PROVE VendorIInv'
  <2>1. /\ vendorJob[e].pc \in {"lookup", "write", "finish"}
        /\ VendorPc(e, "failing") /\ vendorFaults' \in 0 .. MaxVendorFaults
        /\ UNCHANGED <<report, vendorRow, merchant, revenueRows, unfound>>
    BY <1>0, <1>10 DEF ReportFails, VendorFault
  <2>2. /\ vendorJob' \in [VendorEvents ->
                              [pc : VendorPcs, tries : 0 .. VendorTries]]
        /\ vendorJob'[e].pc = "failing"
        /\ vendorJob'[e].tries = vendorJob[e].tries
        /\ \A x \in VendorEvents \ {e} : vendorJob'[x] = vendorJob[x]
    BY <1>0, <2>1, VendorPcIsAMove DEF VendorPcs
  <2>3. JobIsSound(e)'
    BY <1>0, <2>1, <2>2 DEF JobIsSound
  <2>. QED  BY <1>0, <2>1, <2>2, <2>3, JobStepKeepsIInv
<1>11. ASSUME NEW e \in VendorEvents, ReportStalls(e) PROVE VendorIInv'
  <2>1. /\ vendorJob[e].pc \in {"lookup", "write", "finish", "failing"}
        /\ vendorFaults' \in 0 .. MaxVendorFaults
        /\ vendorJob' = [vendorJob EXCEPT ![e].pc = "waiting",
                                          ![e].tries = @ - 1]
        /\ UNCHANGED <<report, vendorRow, merchant, revenueRows, unfound>>
    BY <1>0, <1>11 DEF ReportStalls, VendorFault
  <2>2. /\ vendorJob[e].tries - 1 \in 0 .. VendorTries
        /\ vendorJob[e].tries - 1 < VendorTries
    BY <1>0, <2>1 DEF JobIsSound
  <2>3. /\ vendorJob' \in [VendorEvents ->
                              [pc : VendorPcs, tries : 0 .. VendorTries]]
        /\ vendorJob'[e].pc = "waiting"
        /\ vendorJob'[e].tries = vendorJob[e].tries - 1
        /\ \A x \in VendorEvents \ {e} : vendorJob'[x] = vendorJob[x]
    BY <1>0, <2>1, <2>2 DEF VendorPcs
  <2>4. JobIsSound(e)'
    BY <1>0, <2>1, <2>2, <2>3 DEF JobIsSound
  <2>. QED  BY <1>0, <2>1, <2>3, <2>4, JobStepKeepsIInv
<1>12. CASE UNCHANGED vendorVars
  <2>1. VendorTypeOK'
    BY <1>0, <1>12 DEF VendorTypeOK, vendorVars
  <2>2. RowsKnowTheirReports' /\ \A e \in VendorEvents : JobIsSound(e)'
    BY <1>0, <1>12 DEF vendorVars, RowsKnowTheirReports, JobIsSound, IsRevenue,
       Booked, RevenueKey
  <2>. QED  BY <2>1, <2>2 DEF VendorIInv
<1>. QED  BY <1>1, <1>2, <1>3, <1>4, <1>5, <1>6, <1>7, <1>8, <1>9, <1>10, <1>11,
            <1>12
         DEF VendorNext, VendorStep

(* Rows with one key are of reports that say the same: a key holds all     *)
(* that a report of revenue says.                                          *)
LEMMA KeysTellReportsApart ==
  ASSUME NEW r \in Reports, NEW s \in Reports, r.kind \in RevenueKinds,
         s.kind \in RevenueKinds, RevenueKey(r) = RevenueKey(s)
  PROVE  r = s
<1>1. r \in [kind : RevenueKinds, ref : References]
      /\ s \in [kind : RevenueKinds, ref : References]
  BY DEF Reports, RevenueKinds, DrainKinds, MicampKinds, OtherKinds
<1>2. r.kind = s.kind /\ r.ref = s.ref
  BY DEF RevenueKey
<1>. QED  BY <1>1, <1>2

LEMMA VendorIInvIsEnough == VendorIInv => ProcessedRevenueIsBooked
<1>. SUFFICES ASSUME VendorIInv, NEW e \in VendorEvents,
                     vendorRow[e] = "PROCESSED",
                     report[e].kind \in RevenueKinds, e \notin unfound
              PROVE  \E row \in revenueRows : /\ row.key = RevenueKey(report[e])
                                              /\ report[row.of] = report[e]
  BY DEF ProcessedRevenueIsBooked
<1>1. JobIsSound(e) /\ RowsKnowTheirReports /\ VendorTypeOK
  BY DEF VendorIInv
<1>2. IsRevenue(e)
  BY <1>1 DEF JobIsSound, IsRevenue
<1>3. PICK row \in revenueRows : row.key = RevenueKey(report[e])
  BY <1>1, <1>2 DEF JobIsSound, Booked
<1>4. IsRevenue(row.of) /\ RevenueKey(report[row.of]) = RevenueKey(report[e])
  BY <1>1, <1>3 DEF RowsKnowTheirReports
<1>5. report[e] \in Reports /\ report[row.of] \in Reports
  BY <1>1, <1>2, <1>4 DEF VendorTypeOK, IsRevenue
<1>6. report[row.of] = report[e]
  BY <1>2, <1>4, <1>5, KeysTellReportsApart DEF IsRevenue
<1>. QED  BY <1>3, <1>6

(***************************************************************************)
(* The metering of PIXIE                                                   *)
(***************************************************************************)

(* The fold of SumOfPulls, step by step: it is a natural number.           *)
Pick(ds) == CHOOSE d \in ds : TRUE

SumStep(sum, ds) ==
    IF ds = {} THEN 0
    ELSE metric[Pick(ds)].pulls + sum[ds \ {Pick(ds)}]

LEMMA SumOfPullsIsNatural ==
  ASSUME IsFiniteSet(Days), \A d \in Measured : metric[d].pulls \in Nat
  PROVE  SumOfPulls \in Nat
<1>. DEFINE Sums == SUBSET Measured
            sum == CHOOSE f : f = [ds \in Sums |-> SumStep(f, ds)]
<1>1. SumOfPulls = sum[Measured]
  BY DEF SumOfPulls, MapThenFoldSet, SumStep, Pick
<1>2. /\ \A ds \in Sums : Cardinality(ds) \in Nat
      /\ \A ds \in Sums : ds # {} =>
            /\ metric[Pick(ds)].pulls \in Nat
            /\ ds \ {Pick(ds)} \in Sums
            /\ Cardinality(ds \ {Pick(ds)}) = Cardinality(ds) - 1
  <2>1. IsFiniteSet(Measured)
    BY FS_Subset DEF Measured
  <2>2. ASSUME NEW ds \in Sums PROVE IsFiniteSet(ds) /\ Cardinality(ds) \in Nat
    BY <2>1, FS_Subset, FS_CardinalityType
  <2>3. ASSUME NEW ds \in Sums, ds # {}
        PROVE  /\ Pick(ds) \in ds
               /\ Cardinality(ds \ {Pick(ds)}) = Cardinality(ds) - 1
    <3>1. Pick(ds) \in ds
      BY <2>3 DEF Pick
    <3>. QED  BY <2>2, <3>1, FS_RemoveElement
  <2>. QED  BY <2>2, <2>3
<1>. HIDE DEF Sums
<1>3. \E f : f = [ds \in Sums |-> SumStep(f, ds)]
  <2>. HIDE DEF sum
  <2>. DEFINE Upto(n) == {ds \in Sums : Cardinality(ds) <= n}
              Short == {n \in Nat : ~ \E f : f = [ds \in Upto(n) |-> SumStep(f, ds)]}
  <2>1. ASSUME Short # {} PROVE FALSE
    <3>1. PICK n \in Short : \A m \in Short : n <= m
      BY <2>1, LeastNumber
    <3>0. n \in Nat /\ Short \subseteq Nat
      OBVIOUS
    <3>2. CASE n = 0
      <4>1. ASSUME NEW f, NEW ds \in Upto(0) PROVE SumStep(f, ds) = 0
        <5>1. ds \in Sums /\ Cardinality(ds) <= 0
          OBVIOUS
        <5>2. ASSUME ds # {} PROVE FALSE
          <6>1. /\ Cardinality(ds) \in Nat
                /\ Cardinality(ds \ {Pick(ds)}) \in Nat
                /\ Cardinality(ds \ {Pick(ds)}) = Cardinality(ds) - 1
            BY <1>2, <5>1, <5>2
          <6>. QED  BY <5>1, <6>1
        <5>. QED  BY <5>2 DEF SumStep
      <4>. DEFINE f == [ds \in Upto(0) |-> 0]
      <4>2. f = [ds \in Upto(0) |-> SumStep(f, ds)]
        BY <4>1
      <4>. QED  BY <3>1, <3>2, <4>2
    <3>3. CASE n # 0
      <4>0. n - 1 \in Nat /\ n - 1 < n
        BY <3>1, <3>3
      <4>1. n - 1 \notin Short
        <5>. HIDE DEF Short
        <5>. QED  BY <3>0, <3>1, <4>0
      <4>2. PICK f : f = [ds \in Upto(n - 1) |-> SumStep(f, ds)]
        BY <4>0, <4>1
      <4>. DEFINE g == [ds \in Upto(n) |-> SumStep(f, ds)]
      <4>3. ASSUME NEW ds \in Upto(n) PROVE SumStep(g, ds) = SumStep(f, ds)
        <5>1. CASE ds = {}
          BY <5>1 DEF SumStep
        <5>2. CASE ds # {}
          <6>1. ds \in Sums /\ ds \ {Pick(ds)} \in Upto(n - 1)
            BY <1>2, <3>0, <5>2
          <6>2. ds \ {Pick(ds)} \in Upto(n)
            BY <1>2, <3>0, <6>1
          <6>3. g[ds \ {Pick(ds)}] = f[ds \ {Pick(ds)}]
            BY <4>2, <6>1, <6>2
          <6>. HIDE DEF g
          <6>. QED  BY <5>2, <6>3 DEF SumStep
        <5>. QED  BY <5>1, <5>2
      <4>4. g = [ds \in Upto(n) |-> SumStep(g, ds)]
        BY <4>3
      <4>. HIDE DEF g
      <4>. QED  BY <3>1, <4>4
    <3>. QED  BY <3>2, <3>3
  <2>2. IsFiniteSet(Measured) /\ Cardinality(Measured) \in Nat
    BY FS_Subset, FS_CardinalityType DEF Measured
  <2>3. Upto(Cardinality(Measured)) = Sums
    BY <2>2, FS_Subset DEF Sums
  <2>. QED  BY <2>1, <2>2, <2>3
<1>4. \A ds \in Sums : sum[ds] = SumStep(sum, ds)
  <2>1. sum = [ds \in Sums |-> SumStep(sum, ds)]
    BY <1>3
  <2>. HIDE DEF sum
  <2>. QED  BY <2>1
<1>. HIDE DEF sum
<1>5. \A ds \in Sums : sum[ds] \in Nat
  <2>. DEFINE Bad == {n \in Nat : \E ds \in Sums : Cardinality(ds) = n
                                                   /\ sum[ds] \notin Nat}
  <2>1. ASSUME Bad # {} PROVE FALSE
    <3>1. PICK n \in Bad : \A m \in Bad : n <= m
      BY <2>1, LeastNumber
    <3>2. PICK ds \in Sums : Cardinality(ds) = n /\ sum[ds] \notin Nat
      BY <3>1
    <3>3. ds # {}
      BY <1>4, <3>2 DEF SumStep
    <3>4. /\ metric[Pick(ds)].pulls \in Nat
          /\ ds \ {Pick(ds)} \in Sums
          /\ Cardinality(ds \ {Pick(ds)}) = n - 1
          /\ n - 1 \in Nat
      BY <1>2, <3>2, <3>3
    <3>5. sum[ds \ {Pick(ds)}] \in Nat
      BY <3>1, <3>4
    <3>. QED  BY <1>4, <3>2, <3>3, <3>4, <3>5 DEF SumStep
  <2>. QED  BY <1>2, <2>1
<1>. QED  BY <1>1, <1>5 DEF Sums

MeterPcs == {"none", "waiting", "sum", "metric", "ledger", "done", "failed"}
MeterJobs == [pc : MeterPcs, sum : Nat, tries : 0 .. MeterTries]

MeterJobIsSound(e) ==
    LET job == meterJob[e] IN
    /\ IF job.pc = "none" THEN job.tries = 0 ELSE usage[e] # NoUsage
    /\ job.pc = "waiting" => job.tries < MeterTries

(* A charge is keyed by its day, and is what an event says of that day.    *)
ChargesAreOfDays ==
    /\ \A r \in ledgerRows :
          /\ r.key = r.day
          /\ \E e \in Reporting(r.day) : r.amount = Total(usage[e])
    /\ \A r, s \in ledgerRows : r.key = s.key => r = s

MeterIInv ==
    /\ MeterTypeOK
    /\ ChargesAreOfDays
    /\ CumulativeCountsEachDay
    /\ \A e \in UsageEvents : MeterJobIsSound(e)

LEMMA MeterPcIsAMove ==
  ASSUME MeterTypeOK, NEW e \in UsageEvents, NEW pc \in MeterPcs, MeterPc(e, pc)
  PROVE  /\ meterJob' \in [UsageEvents -> MeterJobs]
         /\ meterJob'[e].pc = pc /\ meterJob'[e].tries = meterJob[e].tries
         /\ \A x \in UsageEvents \ {e} : meterJob'[x] = meterJob[x]
<1>1. meterJob \in [UsageEvents -> MeterJobs]
  BY DEF MeterTypeOK, MeterJobs, MeterPcs
<1>. QED  BY <1>1 DEF MeterPc, MeterJobs

(* A step of one job that leaves what is reported, measured and charged.   *)
LEMMA MeterJobStepKeepsIInv ==
  ASSUME MeterIInv, NEW e \in UsageEvents,
         UNCHANGED <<usage, metric, ledgerRows, staleSums>>,
         meterJob' \in [UsageEvents -> MeterJobs],
         meterFaults' \in 0 .. MaxMeterFaults,
         \A x \in UsageEvents \ {e} : meterJob'[x] = meterJob[x],
         MeterJobIsSound(e)'
  PROVE  MeterIInv'
<1>. USE DEF MeterIInv
<1>1. MeterTypeOK'
  BY DEF MeterTypeOK, MeterJobs, MeterPcs
<1>2. ChargesAreOfDays'
  BY DEF ChargesAreOfDays, Reporting
<1>3. CumulativeCountsEachDay'
  BY DEF CumulativeCountsEachDay, Measured
<1>4. ASSUME NEW x \in UsageEvents \ {e} PROVE MeterJobIsSound(x)'
  BY <1>4 DEF MeterJobIsSound
<1>. QED  BY <1>1, <1>2, <1>3, <1>4

LEMMA MeterInitIInv == MeterInit => MeterIInv
<1>. SUFFICES ASSUME MeterInit PROVE MeterIInv
  OBVIOUS
<1>1. MeterTypeOK
  BY MeteringOptions DEF MeterInit, MeterTypeOK
<1>. QED  BY <1>1 DEF MeterInit, MeterIInv, ChargesAreOfDays, MeterJobIsSound,
            CumulativeCountsEachDay, Measured

LEMMA MeterStepKeepsIInv == MeterIInv /\ [MeterNext]_meterVars => MeterIInv'
<1>. SUFFICES ASSUME MeterIInv, [MeterNext]_meterVars PROVE MeterIInv'
  OBVIOUS
<1>. USE MeteringOptions
<1>0. /\ MeterTypeOK /\ ChargesAreOfDays /\ CumulativeCountsEachDay
      /\ \A e \in UsageEvents : MeterJobIsSound(e)
      /\ meterJob \in [UsageEvents -> MeterJobs]
      /\ usage \in [UsageEvents -> Usages \cup {NoUsage}]
      /\ metric \in [Days -> Metrics \cup {NoUsage}]
      /\ meterFaults \in 0 .. MaxMeterFaults
  BY DEF MeterIInv, MeterTypeOK, MeterJobs, MeterPcs
<1>a. SumOfPulls \in Nat
  <2>1. ASSUME NEW d \in Measured PROVE metric[d].pulls \in Nat
    <3>1. metric[d] \in Metrics
      BY <1>0 DEF Measured
    <3>. QED  BY <3>1 DEF Metrics
  <2>. QED  BY <2>1, SumOfPullsIsNatural
<1>b. ASSUME NEW e \in UsageEvents, usage[e] # NoUsage
      PROVE  /\ usage[e].day \in Days /\ usage[e].pulls \in PullCounts
             /\ usage[e].pulls \in Nat /\ Total(usage[e]) \in Totals
  <2>1. usage[e] \in Usages
    BY <1>0, <1>b
  <2>. QED  BY <2>1 DEF Usages, Totals
<1>1. ASSUME NEW e \in UsageEvents, ReceiveUsage(e) PROVE MeterIInv'
  <2>1. PICK u \in Usages : usage' = [usage EXCEPT ![e] = u]
    BY <1>1 DEF ReceiveUsage
  <2>2. /\ usage[e] = NoUsage /\ MeterPc(e, "waiting")
        /\ UNCHANGED <<metric, ledgerRows, meterFaults, staleSums>>
    BY <1>1 DEF ReceiveUsage
  <2>3. /\ meterJob' \in [UsageEvents -> MeterJobs]
        /\ meterJob'[e].pc = "waiting"
        /\ meterJob'[e].tries = meterJob[e].tries
        /\ \A x \in UsageEvents \ {e} : meterJob'[x] = meterJob[x]
    BY <1>0, <2>2, MeterPcIsAMove DEF MeterPcs
  <2>4. /\ usage' \in [UsageEvents -> Usages \cup {NoUsage}]
        /\ usage'[e] # NoUsage
        /\ \A x \in UsageEvents \ {e} : usage'[x] = usage[x]
    BY <1>0, <2>1, NoUsageIsNone
  <2>5. MeterTypeOK'
    BY <1>0, <2>2, <2>3, <2>4 DEF MeterTypeOK, MeterJobs, MeterPcs
  <2>6. ChargesAreOfDays'
    <3>1. ASSUME NEW r \in ledgerRows
          PROVE  r.key = r.day
                 /\ \E x \in Reporting(r.day)' : r.amount = Total(usage'[x])
      <4>1. PICK x \in Reporting(r.day) : r.amount = Total(usage[x])
        BY <1>0 DEF ChargesAreOfDays
      <4>2. x \in UsageEvents \ {e}
        BY <2>2, <4>1 DEF Reporting
      <4>3. usage'[x] = usage[x] /\ x \in Reporting(r.day)'
        BY <2>4, <4>1, <4>2 DEF Reporting
      <4>. QED  BY <1>0, <4>1, <4>3 DEF ChargesAreOfDays
    <3>. QED  BY <1>0, <2>2, <3>1 DEF ChargesAreOfDays
  <2>7. CumulativeCountsEachDay'
    BY <1>0, <2>2 DEF CumulativeCountsEachDay, Measured
  <2>8. MeterJobIsSound(e)'
    <3>1. meterJob[e].tries = 0
      BY <1>0, <2>2 DEF MeterJobIsSound
    <3>. QED  BY <2>3, <2>4, <3>1 DEF MeterJobIsSound
  <2>9. ASSUME NEW x \in UsageEvents \ {e} PROVE MeterJobIsSound(x)'
    BY <1>0, <2>3, <2>4, <2>9 DEF MeterJobIsSound
  <2>. QED  BY <2>5, <2>6, <2>7, <2>8, <2>9 DEF MeterIInv
<1>2. ASSUME NEW e \in UsageEvents, BeginUsage(e) PROVE MeterIInv'
  <2>1. /\ meterJob[e].pc = "waiting"
        /\ meterJob' = [meterJob EXCEPT ![e].pc = "sum", ![e].tries = @ + 1]
        /\ UNCHANGED <<usage, metric, ledgerRows, meterFaults, staleSums>>
    BY <1>2 DEF BeginUsage
  <2>2. meterJob[e].tries + 1 \in 0 .. MeterTries /\ usage[e] # NoUsage
    BY <1>0, <2>1 DEF MeterJobIsSound, MeterJobs
  <2>3. /\ meterJob' \in [UsageEvents -> MeterJobs]
        /\ meterJob'[e].pc = "sum"
        /\ \A x \in UsageEvents \ {e} : meterJob'[x] = meterJob[x]
    BY <1>0, <2>1, <2>2 DEF MeterJobs, MeterPcs
  <2>4. MeterJobIsSound(e)'
    BY <2>1, <2>2, <2>3 DEF MeterJobIsSound
  <2>. QED  BY <1>0, <2>1, <2>3, <2>4, MeterJobStepKeepsIInv
<1>3. ASSUME NEW e \in UsageEvents, ReadSum(e) PROVE MeterIInv'
  <2>1. /\ meterJob[e].pc = "sum"
        /\ meterJob' = [meterJob EXCEPT ![e].pc = "metric",
                                        ![e].sum = SumOfPulls]
        /\ UNCHANGED <<usage, metric, ledgerRows, meterFaults, staleSums>>
    BY <1>3 DEF ReadSum
  <2>2. /\ meterJob' \in [UsageEvents -> MeterJobs]
        /\ meterJob'[e].pc = "metric"
        /\ \A x \in UsageEvents \ {e} : meterJob'[x] = meterJob[x]
    BY <1>0, <1>a, <2>1 DEF MeterJobs, MeterPcs
  <2>3. MeterJobIsSound(e)'
    BY <1>0, <2>1, <2>2 DEF MeterJobIsSound
  <2>. QED  BY <1>0, <2>1, <2>2, <2>3, MeterJobStepKeepsIInv
<1>4. ASSUME NEW e \in UsageEvents, UpsertMetric(e) PROVE MeterIInv'
  <2>. DEFINE day == usage[e].day
              row == [pulls |-> usage[e].pulls, total |-> Total(usage[e]),
                      cumulative |-> meterJob[e].sum + usage[e].pulls,
                      sumThen |-> SumOfPulls]
              pc == IF Total(usage[e]) # 0 THEN "ledger" ELSE "done"
  <2>1. /\ meterJob[e].pc = "metric"
        /\ metric' = [metric EXCEPT ![day] = row]
        /\ staleSums' = IF meterJob[e].sum # SumOfPulls \/ day \in Measured
                        THEN staleSums \cup {day} ELSE staleSums
        /\ MeterPc(e, pc) /\ pc \in {"ledger", "done"}
        /\ UNCHANGED <<usage, ledgerRows, meterFaults>>
    BY <1>4 DEF UpsertMetric
  <2>2. usage[e] # NoUsage /\ meterJob[e].sum \in Nat
    BY <1>0, <2>1 DEF MeterJobIsSound, MeterJobs
  <2>3. /\ day \in Days /\ usage[e].pulls \in PullCounts
        /\ usage[e].pulls \in Nat /\ Total(usage[e]) \in Totals
    BY <1>b, <2>2
  <2>4. row \in Metrics
    BY <1>a, <2>2, <2>3 DEF Metrics
  <2>5. row.cumulative = meterJob[e].sum + row.pulls /\ row.sumThen = SumOfPulls
    OBVIOUS
  <2>. HIDE DEF day, row, pc
  <2>6. /\ metric' \in [Days -> Metrics \cup {NoUsage}]
        /\ metric'[day] = row
        /\ \A d \in Days \ {day} : metric'[d] = metric[d]
    BY <1>0, <2>1, <2>3, <2>4
  <2>7. /\ meterJob' \in [UsageEvents -> MeterJobs] /\ meterJob'[e].pc = pc
        /\ \A x \in UsageEvents \ {e} : meterJob'[x] = meterJob[x]
    BY <1>0, <2>1, MeterPcIsAMove DEF MeterPcs
  <2>8. MeterTypeOK'
    BY <1>0, <2>1, <2>3, <2>6, <2>7 DEF MeterTypeOK, MeterJobs, MeterPcs
  <2>9. ChargesAreOfDays'
    BY <1>0, <2>1 DEF ChargesAreOfDays, Reporting
  <2>10. CumulativeCountsEachDay'
    <3>. SUFFICES ASSUME NEW d \in Days, metric'[d] # NoUsage, d \notin staleSums'
                  PROVE  metric'[d].cumulative
                         = metric'[d].sumThen + metric'[d].pulls
      BY DEF CumulativeCountsEachDay, Measured
    <3>1. CASE d = day
      <4>1. meterJob[e].sum = SumOfPulls
        BY <2>1, <3>1
      <4>. QED  BY <2>5, <2>6, <3>1, <4>1
    <3>2. CASE d # day
      <4>1. metric'[d] = metric[d] /\ d \notin staleSums
        BY <2>1, <2>6, <3>2
      <4>. QED  BY <1>0, <4>1 DEF CumulativeCountsEachDay, Measured
    <3>. QED  BY <3>1, <3>2
  <2>11. ASSUME NEW x \in UsageEvents PROVE MeterJobIsSound(x)'
    BY <1>0, <2>1, <2>2, <2>7 DEF MeterJobIsSound
  <2>. QED  BY <2>8, <2>9, <2>10, <2>11 DEF MeterIInv
<1>5. ASSUME NEW e \in UsageEvents, RecordRevenue(e) PROVE MeterIInv'
  <2>. DEFINE day == usage[e].day
              row == [key |-> day, day |-> day, amount |-> Total(usage[e])]
  <2>1. /\ meterJob[e].pc = "ledger" /\ MeterPc(e, "done")
        /\ ledgerRows' = IF \E r \in ledgerRows : r.key = day THEN ledgerRows
                         ELSE ledgerRows \cup {row}
        /\ UNCHANGED <<usage, metric, meterFaults, staleSums>>
    BY <1>5 DEF RecordRevenue
  <2>2. usage[e] # NoUsage
    BY <1>0, <2>1 DEF MeterJobIsSound
  <2>3. /\ row \in [key : Days \cup UsageEvents, day : Days, amount : Totals]
        /\ row.key = day /\ row.day = day /\ row.amount = Total(usage[e])
    BY <1>b, <2>2
  <2>4. e \in Reporting(day)
    BY <2>2 DEF Reporting
  <2>. HIDE DEF day, row
  <2>5. /\ meterJob' \in [UsageEvents -> MeterJobs]
        /\ meterJob'[e].pc = "done"
        /\ \A x \in UsageEvents \ {e} : meterJob'[x] = meterJob[x]
    BY <1>0, <2>1, MeterPcIsAMove DEF MeterPcs
  <2>6. MeterTypeOK'
    BY <1>0, <2>1, <2>3, <2>5 DEF MeterTypeOK, MeterJobs, MeterPcs
  <2>7. ChargesAreOfDays'
    <3>1. \A r \in ledgerRows' :
             r.key = r.day
             /\ \E x \in Reporting(r.day) : r.amount = Total(usage[x])
      BY <1>0, <2>1, <2>3, <2>4 DEF ChargesAreOfDays
    <3>2. \A r, s \in ledgerRows' : r.key = s.key => r = s
      BY <1>0, <2>1, <2>3 DEF ChargesAreOfDays
    <3>. QED  BY <2>1, <3>1, <3>2 DEF ChargesAreOfDays, Reporting
  <2>8. CumulativeCountsEachDay'
    BY <1>0, <2>1 DEF CumulativeCountsEachDay, Measured
  <2>9. ASSUME NEW x \in UsageEvents PROVE MeterJobIsSound(x)'
    BY <1>0, <2>1, <2>2, <2>5 DEF MeterJobIsSound
  <2>. QED  BY <2>6, <2>7, <2>8, <2>9 DEF MeterIInv
<1>6. ASSUME NEW e \in UsageEvents, UsageFails(e) PROVE MeterIInv'
  <2>. DEFINE pc == IF meterJob[e].tries < MeterTries THEN "waiting" ELSE "failed"
  <2>1. /\ meterJob[e].pc \in {"sum", "metric", "ledger"}
        /\ meterJob' = [meterJob EXCEPT ![e].pc = pc, ![e].sum = 0]
        /\ meterFaults' \in 0 .. MaxMeterFaults
        /\ pc \in {"waiting", "failed"}
        /\ pc = "waiting" => meterJob[e].tries < MeterTries
        /\ UNCHANGED <<usage, metric, ledgerRows, staleSums>>
    BY <1>0, <1>6 DEF UsageFails, Fault
  <2>. HIDE DEF pc
  <2>2. /\ meterJob' \in [UsageEvents -> MeterJobs]
        /\ meterJob'[e].pc = pc /\ meterJob'[e].tries = meterJob[e].tries
        /\ \A x \in UsageEvents \ {e} : meterJob'[x] = meterJob[x]
    BY <1>0, <2>1 DEF MeterJobs, MeterPcs
  <2>3. MeterJobIsSound(e)'
    BY <1>0, <2>1, <2>2 DEF MeterJobIsSound
  <2>. QED  BY <1>0, <2>1, <2>2, <2>3, MeterJobStepKeepsIInv
<1>7. CASE UNCHANGED meterVars
  BY <1>0, <1>7 DEF meterVars, MeterIInv, MeterTypeOK, ChargesAreOfDays, Reporting,
     CumulativeCountsEachDay, Measured, MeterJobIsSound, MeterJobs, MeterPcs
<1>. QED  BY <1>1, <1>2, <1>3, <1>4, <1>5, <1>6, <1>7 DEF MeterNext, MeterStep

LEMMA MeterIInvIsEnough == MeterIInv => DaysAreChargedOnce
<1>. SUFFICES ASSUME MeterIInv, NEW d \in Days
              PROVE  LET rows == {r \in ledgerRows : r.day = d} IN
                     /\ Cardinality(rows) <= 1
                     /\ \A r \in rows :
                           \E e \in Reporting(d) : r.amount = Total(usage[e])
  BY DEF DaysAreChargedOnce
<1>. DEFINE rows == {r \in ledgerRows : r.day = d}
<1>1. \A r, s \in rows : r = s
  BY DEF MeterIInv, ChargesAreOfDays
<1>2. \A r \in rows : \E e \in Reporting(d) : r.amount = Total(usage[e])
  BY DEF MeterIInv, ChargesAreOfDays
<1>3. CASE rows = {}
  BY <1>2, <1>3, FS_EmptySet
<1>4. CASE rows # {}
  <2>1. PICK r \in rows : TRUE
    BY <1>4
  <2>2. rows = {r}
    BY <1>1, <2>1
  <2>3. Cardinality(rows) = 1
    BY <2>2, FS_Singleton
  <2>. QED  BY <1>2, <2>3
<1>. QED  BY <1>3, <1>4

(***************************************************************************)
(* All of them at once                                                     *)
(***************************************************************************)

LEMMA DrainsStepIsOneOfEach ==
  [DrainsNext]_drainsVars =>
      [MeterNext]_meterVars /\ [VendorNext]_vendorVars
BY DEF DrainsNext, OthersRest, drainsVars

(* handlePixie and the vendors' drains: whatever fails, is tried again or  *)
(* comes at once, a day is charged for once and with what was reported of  *)
(* it, its cumulative count misses nothing but in a race, and revenue that *)
(* is marked processed is in the ledger as it was reported.                *)
THEOREM ReportsAreAlwaysBookedRight == DrainsSpec => []ReportsAreBookedRight
<1>. DEFINE IInv == MeterIInv /\ VendorIInv
<1>1. DrainsInit => IInv
  BY MeterInitIInv, VendorInitIInv DEF DrainsInit
<1>2. IInv /\ [DrainsNext]_drainsVars => IInv'
  BY DrainsStepIsOneOfEach, MeterStepKeepsIInv, VendorStepKeepsIInv
<1>3. IInv => ReportsAreBookedRight
  BY MeterIInvIsEnough, VendorIInvIsEnough
     DEF ReportsAreBookedRight, MeterIInv, VendorIInv
<1>. QED  BY <1>1, <1>2, <1>3, PTL DEF DrainsSpec
=============================================================================
