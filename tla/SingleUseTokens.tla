---------------------------- MODULE SingleUseTokens ----------------------------
(***************************************************************************)
(* The two tokens of a session that may be used once: the step-up token    *)
(* that a critical platform action asks for, remembered as consumed by the *)
(* process that has seen it, and the WebSocket ticket, kept in Redis until *)
(* it is consumed.                                                         *)
(***************************************************************************)
EXTENDS Naturals, FiniteSets

CONSTANTS
    StepUpTokens,
    WsTickets,
    Pods,               \* API processes
    NotSigned,
    StepUpTtl,          \* STEP_UP_TTL_SECONDS
    TicketTtl,          \* of the ticket and of its Redis key
    PruneThreshold,
    MaxTokenTime        \* bound: the clock

ASSUME TokenOptions ==
    /\ NotSigned \notin Nat /\ StepUpTtl \in Nat /\ TicketTtl \in Nat
    /\ PruneThreshold \in Nat /\ MaxTokenTime \in Nat

VARIABLES
    tokenClock,
    stepUp,             \* per step-up token: its iat
    consumedJtis,       \* per pod: the tokens it remembers
    passed,             \* history: per token and pod, the ages it passed at
    ticket,             \* per WebSocket ticket: its iat
    ticketKeys,         \* the tickets Redis holds
    sockets             \* history: per ticket, the sockets it opened

tokenVars == <<tokenClock, stepUp, consumedJtis, passed, ticket, ticketKeys,
               sockets>>

TokenTimes == 0 .. MaxTokenTime

TokenTypeOK ==
    /\ tokenClock \in TokenTimes
    /\ stepUp \in [StepUpTokens -> TokenTimes \cup {NotSigned}]
    /\ consumedJtis \in [Pods -> SUBSET StepUpTokens]
    /\ passed \in [StepUpTokens \X Pods -> SUBSET (0 .. StepUpTtl)]
    /\ ticket \in [WsTickets -> TokenTimes \cup {NotSigned}]
    /\ ticketKeys \subseteq WsTickets
    /\ sockets \in [WsTickets -> Nat]

TokenInit ==
    /\ tokenClock = 0
    /\ stepUp = [j \in StepUpTokens |-> NotSigned]
    /\ consumedJtis = [p \in Pods |-> {}]
    /\ passed = [u \in StepUpTokens \X Pods |-> {}]
    /\ ticket = [t \in WsTickets |-> NotSigned]
    /\ ticketKeys = {}
    /\ sockets = [t \in WsTickets |-> 0]

-----------------------------------------------------------------------------
(* Step-up                                                                 *)

(* issueStepUpToken                                                        *)
IssueStepUp(j) ==
    /\ stepUp[j] = NotSigned
    /\ stepUp' = [stepUp EXCEPT ![j] = tokenClock]
    /\ UNCHANGED <<tokenClock, consumedJtis, passed, ticket, ticketKeys,
                   sockets>>

Age(j) == tokenClock - stepUp[j]

(* Defect: past the threshold everything is forgotten.                     *)
PruneAll(remembered) ==
    IF Cardinality(remembered) > PruneThreshold THEN {} ELSE remembered

(* Past the threshold what has expired is forgotten: exp <= now.           *)
Prune(remembered) ==
    IF Cardinality(remembered) > PruneThreshold
    THEN {j \in remembered : stepUp[j] + StepUpTtl > tokenClock}
    ELSE remembered

(* requireMfaStepUp lets the request pass: age <= StepUpTtl.  A pod runs   *)
(* it without a break.                                                     *)
PassStepUp(j, p) ==
    /\ stepUp[j] # NotSigned
    /\ Age(j) <= StepUpTtl
    /\ j \notin consumedJtis[p]
    /\ consumedJtis' = [consumedJtis EXCEPT ![p] = Prune(@ \cup {j})]
    /\ passed' = [passed EXCEPT ![<<j, p>>] = @ \cup {Age(j)}]
    /\ UNCHANGED <<tokenClock, stepUp, ticket, ticketKeys, sockets>>

(* A process that starts again remembers nothing.                          *)
PodRestarts(p) ==
    /\ consumedJtis[p] # {}
    /\ consumedJtis' = [consumedJtis EXCEPT ![p] = {}]
    /\ passed' = [u \in StepUpTokens \X Pods |->
                     IF u[2] = p THEN {} ELSE passed[u]]
    /\ UNCHANGED <<tokenClock, stepUp, ticket, ticketKeys, sockets>>

-----------------------------------------------------------------------------
(* WebSocket tickets                                                       *)

(* issueWsTicket                                                           *)
IssueTicket(t) ==
    /\ ticket[t] = NotSigned
    /\ ticket' = [ticket EXCEPT ![t] = tokenClock]
    /\ ticketKeys' = ticketKeys \cup {t}
    /\ UNCHANGED <<tokenClock, stepUp, consumedJtis, passed, sockets>>

(* Defect: GET, where it is GETDEL.                                        *)
ReadTicket(t) ==
    /\ ticket[t] # NotSigned /\ tokenClock < ticket[t] + TicketTtl
    /\ t \in ticketKeys /\ sockets[t] < 2
    /\ sockets' = [sockets EXCEPT ![t] = @ + 1]
    /\ UNCHANGED <<tokenClock, stepUp, consumedJtis, passed, ticket,
                   ticketKeys>>

(* consumeWsTicket: the signature's exp, then GETDEL                       *)
ConsumeTicket(t) ==
    /\ ticket[t] # NotSigned /\ tokenClock < ticket[t] + TicketTtl
    /\ t \in ticketKeys
    /\ ticketKeys' = ticketKeys \ {t}
    /\ sockets' = [sockets EXCEPT ![t] = @ + 1]
    /\ UNCHANGED <<tokenClock, stepUp, consumedJtis, passed, ticket>>

(* A second passes; Redis lets keys expire.                                *)
TokenTick ==
    /\ tokenClock < MaxTokenTime
    /\ tokenClock' = tokenClock + 1
    /\ ticketKeys' = {t \in ticketKeys : tokenClock + 1 < ticket[t] + TicketTtl}
    /\ UNCHANGED <<stepUp, consumedJtis, passed, ticket, sockets>>

-----------------------------------------------------------------------------

TokenNext ==
    \/ \E j \in StepUpTokens :
          IssueStepUp(j) \/ \E p \in Pods : PassStepUp(j, p)
    \/ \E p \in Pods : PodRestarts(p)
    \/ \E t \in WsTickets : IssueTicket(t) \/ ConsumeTicket(t)
    \/ TokenTick

TokenSpec == TokenInit /\ [][TokenNext]_tokenVars

-----------------------------------------------------------------------------
(* Properties                                                              *)

(* However many tokens a process remembers and forgets, none passes there  *)
(* again before its last second.  (In that second it may: the freshness    *)
(* check still lets it through, and pruning already forgets it.)           *)
StepUpPassesOnce ==
    \A u \in StepUpTokens \X Pods :
        Cardinality(passed[u] \ {StepUpTtl}) <= 1

(* A ticket opens one socket, through whatever processes it is presented.  *)
TicketsOpenOneSocket == \A t \in WsTickets : sockets[t] <= 1

(* Both kinds of tokens are used once.                                     *)
TokensAreUsedOnce == TokenTypeOK /\ StepUpPassesOnce /\ TicketsOpenOneSocket
=============================================================================
