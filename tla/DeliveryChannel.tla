--------------------------- MODULE DeliveryChannel ---------------------------
(***************************************************************************)
(* What the transactional outbox promises to the code on either side of    *)
(* it: a message that was sent stays owed until it has been delivered at   *)
(* least once and then settled, or is parked for an operator.  A settled   *)
(* message is never delivered again.  How sweepers share the work, and     *)
(* what happens when one of them dies, is not visible here.                *)
(***************************************************************************)
EXTENDS Naturals

CONSTANT Msgs           \* everything that may ever be sent

VARIABLES
    sent,               \* messages whose row was committed by a producer
    delivered,          \* number of times each message was handed over
    settled,            \* messages the channel no longer owes anything
    parked              \* messages that wait for an operator (the DLQ)

channelVars == <<sent, delivered, settled, parked>>

Owed == sent \ (settled \cup parked)

ChannelTypeOK ==
    /\ sent \subseteq Msgs
    /\ delivered \in [Msgs -> Nat]
    /\ settled \subseteq sent
    /\ parked \subseteq sent

ChannelInit ==
    /\ sent = {}
    /\ delivered = [m \in Msgs |-> 0]
    /\ settled = {}
    /\ parked = {}

-----------------------------------------------------------------------------

(* A producer's transaction commits a row.                                 *)
Send(m) ==
    /\ m \in Msgs \ sent
    /\ sent' = sent \cup {m}
    /\ UNCHANGED <<delivered, settled, parked>>

(* The message reaches its queue; it may have been there before.           *)
Deliver(m) ==
    /\ m \in Owed
    /\ delivered' = [delivered EXCEPT ![m] = @ + 1]
    /\ UNCHANGED <<sent, settled, parked>>

(* A batch ends: S was delivered and is done with, P exhausted its         *)
(* attempts.                                                               *)
Retire(S, P) ==
    /\ S \subseteq Owed
    /\ P \subseteq Owed \ S
    /\ \A m \in S : delivered[m] > 0
    /\ settled' = settled \cup S
    /\ parked' = parked \cup P
    /\ UNCHANGED <<sent, delivered>>

(* An operator puts a parked message back.                                 *)
Unpark(m) ==
    /\ m \in parked
    /\ parked' = parked \ {m}
    /\ UNCHANGED <<sent, delivered, settled>>

ChannelNext ==
    \/ \E m \in Msgs : Send(m) \/ Deliver(m) \/ Unpark(m)
    \/ \E S, P \in SUBSET Msgs : Retire(S, P)

ChannelSpec == ChannelInit /\ [][ChannelNext]_channelVars
=============================================================================
