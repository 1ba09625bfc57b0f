----------------------------- MODULE LenderPolling -----------------------------
(***************************************************************************)
(* Lender decisions, and the polling worker's replicas that ask lenders    *)
(* how they stand.                                                         *)
(*                                                                         *)
(* A decision is in one of four standings: PENDING; APPROVED, not funded;  *)
(* FUNDED; DECLINED.  Amounts are left out, and so is when the breaker     *)
(* skips a lender: a skip is a fault here (CircuitBreaker has the rest).   *)
(***************************************************************************)
EXTENDS Naturals, FiniteSets

CONSTANTS
    Decisions,          \* decision rows, in the order of decisionTimestamp
    Polled,             \* those submitToLender made, for a lender we can poll
    PollReplicas,       \* processes of the lender-polling worker
    PollBatch,          \* BATCH_SIZE
    PollParallel,       \* MAX_PARALLEL
    MaxPollFaults       \* bound: polls that fail or are skipped

ASSUME PollOptions ==
    /\ Decisions \subseteq Nat \ {0} /\ Polled \subseteq Decisions
    /\ PollBatch \in Nat \ {0} /\ PollParallel \in Nat \ {0}
    /\ MaxPollFaults \in Nat

VARIABLES
    lender,             \* per decision: how it stands with the lender
    decisionRow,        \* per decision: how it stands in lender_decisions
    poll,               \* per replica and decision: its poll
    pollFaults,
    overlappingPolls,   \* history: decisions two replicas polled at once
    brokenReport        \* history: decisions with a reporting event whose
                        \* "before" was not what the row held

lenderVars == <<lender, decisionRow, poll, pollFaults, overlappingPolls,
                brokenReport>>

Standings == {"PENDING", "APPROVED", "FUNDED", "DECLINED"}

LenderTypeOK ==
    /\ lender \in [Decisions -> Standings]
    /\ decisionRow \in [Decisions -> Standings \cup {"none"}]
    /\ poll \in [PollReplicas -> [Decisions ->
                    [pc : {"idle", "queued", "ask", "write"},
                     before : Standings, answer : Standings]]]
    /\ pollFaults \in 0 .. MaxPollFaults
    /\ overlappingPolls \subseteq Decisions
    /\ brokenReport \subseteq Decisions

NoPoll == [pc |-> "idle", before |-> "PENDING", answer |-> "PENDING"]

LenderInit ==
    /\ lender = [d \in Decisions |-> IF d \in Polled THEN "PENDING"
                                                     ELSE "APPROVED"]
    /\ decisionRow = [d \in Decisions |-> "none"]
    /\ poll = [w \in PollReplicas |-> [d \in Decisions |-> NoPoll]]
    /\ pollFaults = 0
    /\ overlappingPolls = {} /\ brokenReport = {}

-----------------------------------------------------------------------------
(* Where decisions come from, and what lenders do                          *)

Next1(d) == /\ decisionRow[d] = "none"
            /\ \A c \in Decisions : c < d => decisionRow[c] # "none"

(* submitToLender's upsert and its SUBMIT event, in one transaction        *)
SubmitToLender(d) ==
    /\ Next1(d) /\ d \in Polled
    /\ decisionRow' = [decisionRow EXCEPT ![d] = "PENDING"]
    /\ UNCHANGED <<lender, poll, pollFaults, overlappingPolls, brokenReport>>

(* application.contracted: a row without externalDecisionId                *)
Contracted(d) ==
    /\ Next1(d) /\ d \notin Polled
    /\ decisionRow' = [decisionRow EXCEPT ![d] = "APPROVED"]
    /\ UNCHANGED <<lender, poll, pollFaults, overlappingPolls, brokenReport>>

LenderMoves(d) ==
    /\ d \in Polled /\ decisionRow[d] # "none"
    /\ \E s \in Standings :
          /\ \/ lender[d] = "PENDING" /\ s \in {"APPROVED", "DECLINED"}
             \/ lender[d] = "APPROVED" /\ s = "FUNDED"
          /\ lender' = [lender EXCEPT ![d] = s]
    /\ UNCHANGED <<decisionRow, poll, pollFaults, overlappingPolls,
                   brokenReport>>

-----------------------------------------------------------------------------
(* processBatch and pollOne                                                *)

(* Defect: approved decisions that are not funded yet are not looked at.   *)
PendingOnly == {d \in Decisions : decisionRow[d] = "PENDING"}

(* Pending or not funded                                                   *)
Candidates == {d \in Decisions : decisionRow[d] \notin {"none", "FUNDED"}}

Oldest(S) == {d \in S : Cardinality({c \in S : c < d}) < PollBatch}

StartBatch(w) ==
    /\ Candidates # {}
    /\ \A d \in Decisions : poll[w][d] = NoPoll
    /\ poll' = [poll EXCEPT ![w] =
                   [d \in Decisions |->
                       IF d \in Oldest(Candidates)
                       THEN [NoPoll EXCEPT !.pc = "queued",
                                           !.before = decisionRow[d]]
                       ELSE NoPoll]]
    /\ UNCHANGED <<lender, decisionRow, pollFaults, overlappingPolls,
                   brokenReport>>

InFlight(w) == {d \in Decisions : poll[w][d].pc \in {"ask", "write"}}

(* No adapter, one that calls back, or no externalDecisionId               *)
NotPolled(w, d) ==
    /\ poll[w][d].pc = "queued" /\ d \notin Polled
    /\ poll' = [poll EXCEPT ![w][d] = NoPoll]
    /\ UNCHANGED <<lender, decisionRow, pollFaults, overlappingPolls,
                   brokenReport>>

(* Defect: the poll goes by the row as the batch read it.                  *)
ReadNothing(w, d) ==
    /\ poll[w][d].pc = "queued" /\ d \in Polled
    /\ Cardinality(InFlight(w)) < PollParallel
    /\ poll' = [poll EXCEPT ![w][d].pc = "ask"]
    /\ overlappingPolls' = IF \E v \in PollReplicas : d \in InFlight(v)
                           THEN overlappingPolls \cup {d} ELSE overlappingPolls
    /\ UNCHANGED <<lender, decisionRow, pollFaults, brokenReport>>

(* pollOne reads the row again; funded is final.                           *)
ReadDecision(w, d) ==
    /\ poll[w][d].pc = "queued" /\ d \in Polled
    /\ Cardinality(InFlight(w)) < PollParallel
    /\ IF decisionRow[d] = "FUNDED"
       THEN /\ poll' = [poll EXCEPT ![w][d] = NoPoll]
            /\ UNCHANGED overlappingPolls
       ELSE /\ poll' = [poll EXCEPT ![w][d].pc = "ask",
                                    ![w][d].before = decisionRow[d]]
            /\ overlappingPolls' =
                  IF \E v \in PollReplicas : d \in InFlight(v)
                  THEN overlappingPolls \cup {d} ELSE overlappingPolls
    /\ UNCHANGED <<lender, decisionRow, pollFaults, brokenReport>>

Ask(w, d) ==
    /\ poll[w][d].pc = "ask"
    /\ poll' = [poll EXCEPT ![w][d].pc = "write", ![w][d].answer = lender[d]]
    /\ UNCHANGED <<lender, decisionRow, pollFaults, overlappingPolls,
                   brokenReport>>

(* The row becomes the answer, whatever it holds by now, and a reporting   *)
(* event tells what the poll read before from what it wrote.               *)
WriteAnswer(w, d) ==
    /\ poll[w][d].pc = "write"
    /\ decisionRow' = [decisionRow EXCEPT ![d] = poll[w][d].answer]
    /\ brokenReport' = IF poll[w][d].before = decisionRow[d] THEN brokenReport
                       ELSE brokenReport \cup {d}
    /\ poll' = [poll EXCEPT ![w][d] = NoPoll]
    /\ UNCHANGED <<lender, pollFaults, overlappingPolls>>

(* The breaker skips the lender, its adapter throws, the database or the   *)
(* timeout ends the poll: nothing but, at most, a POLL_FAILED event.       *)
PollFails(w, d) ==
    /\ d \in Polled /\ poll[w][d].pc # "idle"
    /\ pollFaults < MaxPollFaults
    /\ pollFaults' = pollFaults + 1
    /\ poll' = [poll EXCEPT ![w][d] = NoPoll]
    /\ UNCHANGED <<lender, decisionRow, overlappingPolls, brokenReport>>

-----------------------------------------------------------------------------

PollStep(w) ==
    \/ StartBatch(w)
    \/ \E d \in Decisions :
          NotPolled(w, d) \/ ReadDecision(w, d) \/ Ask(w, d) \/ WriteAnswer(w, d)

LenderNext ==
    \/ \E d \in Decisions : SubmitToLender(d) \/ Contracted(d) \/ LenderMoves(d)
    \/ \E w \in PollReplicas :
          PollStep(w) \/ \E d \in Decisions : PollFails(w, d)

LenderSpec == LenderInit /\ [][LenderNext]_lenderVars

(* The poll loop goes on.                                                  *)
LenderFairness == \A w \in PollReplicas : WF_lenderVars(PollStep(w))

-----------------------------------------------------------------------------
(* Properties                                                              *)

(* Reporting events tell every change of a decision from what it was to    *)
(* what it is, unless two replicas polled it at once.                      *)
ReportsChainUnlessPollsOverlap == brokenReport \subseteq overlappingPolls

(* A decision ends up as its lender has it, even when an older answer      *)
(* overtakes a newer one, unless a whole batch of older decisions never    *)
(* gets funded: contracted and declined ones stay candidates for ever.     *)
Unfunded(d) == {c \in Candidates : c < d}

RowsAreCurrent ==
    \A d \in Polled :
        \/ decisionRow[d] \in {"none", lender[d]}
        \/ Cardinality(Unfunded(d)) >= PollBatch
RowsFollowLenders == []<>RowsAreCurrent

(* What subscribers are told of decisions hangs together.                  *)
ReportsHangTogether == LenderTypeOK /\ ReportsChainUnlessPollsOverlap
=============================================================================
