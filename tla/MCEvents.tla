------------------------------ MODULE MCEvents ------------------------------
(***************************************************************************)
(* Events on their way in, for TLC: the ingest paths of WebhookPipeline,   *)
(* and the replay of what is quarantined.  A behaviour is one of the part  *)
(* that its initial state names, the other staying as it is.               *)
(***************************************************************************)
EXTENDS WebhookPipeline, TenantOffboarding, TLC

VARIABLE part

Interchangeable == Permutations(Requests)

EventsInit ==
    /\ part \in {"pipeline", "offboarding"}
    /\ Init /\ OffboardInit

EventsNext ==
    \/ /\ part = "pipeline" /\ Next
       /\ UNCHANGED <<part, offboardVars>>
    \/ /\ part = "offboarding" /\ OffboardNext
       /\ UNCHANGED <<part, vars>>

EventsSpec ==
    EventsInit /\ [][EventsNext]_<<part, vars, offboardVars>>
=============================================================================
