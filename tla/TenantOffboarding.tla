--------------------------- MODULE TenantOffboarding ---------------------------
(***************************************************************************)
(* The offboarding of an organization: what it does to the events the      *)
(* EazePay App has sent for it, while they are swept, processed and        *)
(* replayed out of quarantine.                                             *)
(*                                                                         *)
(* The archive and the shredding of the keys change no event (TenantKeys   *)
(* has the latter); they are steps that can fail.  How a row becomes a job *)
(* and a job is tried is in Outbox and WebhookPipeline: here a row is      *)
(* published once, and a job that fails is tried again or not.             *)
(***************************************************************************)
EXTENDS Naturals, FiniteSets

CONSTANTS
    OrgEvents,          \* webhook_events
    Operators,          \* POST /platform/orgs/:id/offboard
    Replayers,          \* POST /platform/eazepay-app/quarantine/:id/replay
    NoEvent,
    MaxCopiesOfEvent,   \* bound: rows and jobs of one event at a time
    MaxOffboardFaults   \* bound: offboardings that fail or die on the way

ASSUME OffboardingOptions ==
    /\ NoEvent \notin OrgEvents
    /\ MaxCopiesOfEvent \in Nat \ {0} /\ MaxOffboardFaults \in Nat

Orgs == {"ours", "other"}

VARIABLES
    orgGone,            \* organization.deletedAt of ours
    eventRow,           \* per event: its status
    eventOrg,           \* per event: its orgId
    outboxCopies,       \* per event: its unpublished outbox rows, by orgId
    jobCopies,          \* per event: its jobs, waiting and at a worker
    offboarding,        \* per operator: the last stage that is done
    offboarded,         \* an offboarding has gone all the way
    replay,             \* per replayer: the event it found in quarantine, the
                        \* organization of the new row, whether it moves there
    offboardFaults,
    late,               \* history: events with a job when they were
                        \* quarantined, or that came after the purge
    reopened,           \* history: events that were replayed
    crossed,            \* history: events two replays had at once, or that
                        \* were replayed with a job under way
    interrupted         \* history: an offboarding ended after its purge

offboardVars == <<orgGone, eventRow, eventOrg, outboxCopies, jobCopies,
                  offboarding, offboarded, replay, offboardFaults, late,
                  reopened, crossed, interrupted>>

OffboardTypeOK ==
    /\ orgGone \in BOOLEAN /\ offboarded \in BOOLEAN /\ interrupted \in BOOLEAN
    /\ eventRow \in [OrgEvents -> {"none", "RECEIVED", "PROCESSED", "FAILED",
                                   "QUARANTINED"}]
    /\ eventOrg \in [OrgEvents -> Orgs]
    /\ outboxCopies \in [OrgEvents -> [Orgs -> 0 .. MaxCopiesOfEvent]]
    /\ jobCopies \in [OrgEvents ->
                        [waiting : 0 .. MaxCopiesOfEvent,
                         taken : 0 .. MaxCopiesOfEvent]]
    /\ offboarding \in [Operators -> {"none", "deleted", "archived",
                                      "shredded", "purged"}]
    /\ replay \in [Replayers -> [of : OrgEvents \cup {NoEvent}, to : Orgs,
                                 moves : BOOLEAN]]
    /\ offboardFaults \in 0 .. MaxOffboardFaults
    /\ late \subseteq OrgEvents /\ reopened \subseteq OrgEvents
    /\ crossed \subseteq OrgEvents

NoReplay == [of |-> NoEvent, to |-> "ours", moves |-> FALSE]
NoCopies == [o \in Orgs |-> 0]

OffboardInit ==
    /\ orgGone = FALSE /\ offboarded = FALSE /\ interrupted = FALSE
    /\ eventRow = [e \in OrgEvents |-> "none"]
    /\ eventOrg = [e \in OrgEvents |-> "ours"]
    /\ outboxCopies = [e \in OrgEvents |-> NoCopies]
    /\ jobCopies = [e \in OrgEvents |-> [waiting |-> 0, taken |-> 0]]
    /\ offboarding = [u \in Operators |-> "none"]
    /\ replay = [r \in Replayers |-> NoReplay]
    /\ offboardFaults = 0
    /\ late = {} /\ reopened = {} /\ crossed = {}

HasJob(e) == jobCopies[e].waiting + jobCopies[e].taken > 0
RowsOf(e) == outboxCopies[e]["ours"] + outboxCopies[e]["other"]
Copies(e) == RowsOf(e) + jobCopies[e].waiting + jobCopies[e].taken
Purged == offboarded \/ interrupted
          \/ \E u \in Operators : offboarding[u] = "purged"

-----------------------------------------------------------------------------
(* Ingest, sweep, worker                                                   *)

(* The event and its row.  The route has looked the organization up before *)
(* and inserts whatever has become of it by now.                           *)
ReceiveEvent(e) ==
    /\ eventRow[e] = "none"
    /\ eventRow' = [eventRow EXCEPT ![e] = "RECEIVED"]
    /\ outboxCopies' = [outboxCopies EXCEPT ![e]["ours"] = 1]
    /\ late' = IF Purged THEN late \cup {e} ELSE late
    /\ UNCHANGED <<orgGone, eventOrg, jobCopies, offboarding, offboarded,
                   replay, offboardFaults, reopened, crossed, interrupted>>

PublishCopy(e, o) ==
    /\ outboxCopies[e][o] > 0
    /\ outboxCopies' = [outboxCopies EXCEPT ![e][o] = @ - 1]
    /\ jobCopies' = [jobCopies EXCEPT ![e].waiting = @ + 1]
    /\ UNCHANGED <<orgGone, eventRow, eventOrg, offboarding, offboarded,
                   replay, offboardFaults, late, reopened, crossed,
                   interrupted>>

TakeCopy(e) ==
    /\ jobCopies[e].waiting > 0
    /\ jobCopies' = [jobCopies EXCEPT ![e].waiting = @ - 1, ![e].taken = @ + 1]
    /\ UNCHANGED <<orgGone, eventRow, eventOrg, outboxCopies, offboarding,
                   offboarded, replay, offboardFaults, late, reopened,
                   crossed, interrupted>>

(* The processor sets the status, whatever it is by now.                   *)
CopyEnds(e) ==
    /\ jobCopies[e].taken > 0
    /\ \E s \in {"PROCESSED", "FAILED"}, again \in {0, 1} :
          /\ again = 1 => s = "FAILED"
          /\ eventRow' = [eventRow EXCEPT ![e] = s]
          /\ jobCopies' = [jobCopies EXCEPT ![e].taken = @ - 1,
                                            ![e].waiting = @ + again]
    /\ UNCHANGED <<orgGone, eventOrg, outboxCopies, offboarding, offboarded,
                   replay, offboardFaults, late, reopened, crossed,
                   interrupted>>

-----------------------------------------------------------------------------
(* TenantOffboardingService.offboard                                       *)

Stage(u, before, after) ==
    /\ offboarding[u] = before
    /\ offboarding' = [offboarding EXCEPT ![u] = after]

(* Of an organization already deleted the offboarding is resumed.          *)
DeleteOrg(u) ==
    /\ Stage(u, "none", "deleted")
    /\ orgGone' = TRUE
    /\ UNCHANGED <<eventRow, eventOrg, outboxCopies, jobCopies, offboarded,
                   replay, offboardFaults, late, reopened, crossed,
                   interrupted>>

ArchiveOrg(u) ==
    /\ Stage(u, "deleted", "archived")
    /\ UNCHANGED <<orgGone, eventRow, eventOrg, outboxCopies, jobCopies,
                   offboarded, replay, offboardFaults, late, reopened,
                   crossed, interrupted>>

ShredOrg(u) ==
    /\ Stage(u, "archived", "shredded")
    /\ UNCHANGED <<orgGone, eventRow, eventOrg, outboxCopies, jobCopies,
                   offboarded, replay, offboardFaults, late, reopened,
                   crossed, interrupted>>

(* Defect: the outbox is left to the sweeper.                              *)
PurgeNothing(u) ==
    /\ Stage(u, "shredded", "purged")
    /\ UNCHANGED <<orgGone, eventRow, eventOrg, outboxCopies, jobCopies,
                   offboarded, replay, offboardFaults, late, reopened,
                   crossed, interrupted>>

(* outboxEvent.deleteMany, by orgId                                        *)
PurgeOutbox(u) ==
    /\ Stage(u, "shredded", "purged")
    /\ outboxCopies' = [e \in OrgEvents |->
                           [outboxCopies[e] EXCEPT !["ours"] = 0]]
    /\ UNCHANGED <<orgGone, eventRow, eventOrg, jobCopies, offboarded, replay,
                   offboardFaults, late, reopened, crossed, interrupted>>

Open == {e \in OrgEvents : eventOrg[e] = "ours"
                           /\ eventRow[e] \in {"RECEIVED", "PROCESSED",
                                               "FAILED"}}

(* webhookEvent.updateMany, by orgId; the audit row ends the offboarding.  *)
QuarantineEvents(u) ==
    /\ Stage(u, "purged", "none")
    /\ eventRow' = [e \in OrgEvents |-> IF e \in Open THEN "QUARANTINED"
                                        ELSE eventRow[e]]
    /\ late' = late \cup {e \in Open : HasJob(e) \/ RowsOf(e) > 0}
    /\ reopened' = reopened \ Open
    /\ offboarded' = TRUE
    /\ UNCHANGED <<orgGone, eventOrg, outboxCopies, jobCopies, replay,
                   offboardFaults, crossed, interrupted>>

(* A stage throws or the process dies; the operator may begin again.       *)
OffboardingFails(u) ==
    /\ offboarding[u] # "none"
    /\ offboardFaults < MaxOffboardFaults
    /\ offboardFaults' = offboardFaults + 1
    /\ offboarding' = [offboarding EXCEPT ![u] = "none"]
    /\ interrupted' = (interrupted \/ offboarding[u] = "purged")
    /\ UNCHANGED <<orgGone, eventRow, eventOrg, outboxCopies, jobCopies,
                   offboarded, replay, late, reopened, crossed>>

-----------------------------------------------------------------------------
(* Replay                                                                  *)

(* Defect: the event's status is not looked at.                            *)
FindAny(r, e, to, moves) ==
    /\ replay[r] = NoReplay
    /\ eventRow[e] # "none"
    /\ IF moves THEN to = "ours" => ~orgGone ELSE to = eventOrg[e]
    /\ replay' = [replay EXCEPT ![r] = [of |-> e, to |-> to, moves |-> moves]]
    /\ UNCHANGED <<orgGone, eventRow, eventOrg, outboxCopies, jobCopies,
                   offboarding, offboarded, offboardFaults, late, reopened,
                   crossed, interrupted>>

(* With reassignToOrgId the event moves to an organization that is not     *)
(* deleted; its own organization is not looked at.                         *)
FindQuarantined(r, e, to, moves) ==
    /\ replay[r] = NoReplay
    /\ eventRow[e] = "QUARANTINED"
    /\ IF moves THEN to = "ours" => ~orgGone ELSE to = eventOrg[e]
    /\ replay' = [replay EXCEPT ![r] = [of |-> e, to |-> to, moves |-> moves]]
    /\ UNCHANGED <<orgGone, eventRow, eventOrg, outboxCopies, jobCopies,
                   offboarding, offboarded, offboardFaults, late, reopened,
                   crossed, interrupted>>

(* Defect: the status is set back and no row appended.                     *)
ReplayRowless(r) ==
    LET e == replay[r].of IN
    /\ e # NoEvent
    /\ eventRow' = [eventRow EXCEPT ![e] = "RECEIVED"]
    /\ eventOrg' = IF replay[r].moves
                   THEN [eventOrg EXCEPT ![e] = replay[r].to] ELSE eventOrg
    /\ replay' = [replay EXCEPT ![r] = NoReplay]
    /\ reopened' = reopened \cup {e}
    /\ UNCHANGED <<orgGone, outboxCopies, jobCopies, offboarding, offboarded,
                   offboardFaults, late, crossed, interrupted>>

(* The transaction, whatever the status is by now.                         *)
ReplayEvent(r) ==
    LET e == replay[r].of IN
    /\ e # NoEvent
    /\ Copies(e) < MaxCopiesOfEvent
    /\ eventRow' = [eventRow EXCEPT ![e] = "RECEIVED"]
    /\ eventOrg' = IF replay[r].moves
                   THEN [eventOrg EXCEPT ![e] = replay[r].to] ELSE eventOrg
    /\ outboxCopies' = [outboxCopies EXCEPT ![e][replay[r].to] = @ + 1]
    /\ replay' = [replay EXCEPT ![r] = NoReplay]
    /\ reopened' = reopened \cup {e}
    /\ crossed' = IF HasJob(e) \/ RowsOf(e) > 0 \/ eventRow[e] # "QUARANTINED"
                  THEN crossed \cup {e} ELSE crossed
    /\ UNCHANGED <<orgGone, jobCopies, offboarding, offboarded,
                   offboardFaults, late, interrupted>>

-----------------------------------------------------------------------------

OffboardNext ==
    \/ \E e \in OrgEvents :
          \/ ReceiveEvent(e) \/ TakeCopy(e) \/ CopyEnds(e)
          \/ \E o \in Orgs : PublishCopy(e, o)
          \/ \E r \in Replayers, to \in Orgs, moves \in BOOLEAN :
                FindQuarantined(r, e, to, moves)
    \/ \E u \in Operators :
          \/ DeleteOrg(u) \/ ArchiveOrg(u) \/ ShredOrg(u) \/ PurgeOutbox(u)
          \/ QuarantineEvents(u) \/ OffboardingFails(u)
    \/ \E r \in Replayers : ReplayEvent(r)

OffboardSpec == OffboardInit /\ [][OffboardNext]_offboardVars

-----------------------------------------------------------------------------
(* Properties                                                              *)

(* Once an organization is offboarded its events stay in quarantine, but   *)
(* for those replayed since, those that came while it was going on, and    *)
(* those with a job the purge of the outbox does not reach.                *)
OffboardedStayQuarantined ==
    offboarded => Open \subseteq late \cup reopened

(* An event in RECEIVED is on its way to a worker: a row, a job or a       *)
(* worker has it.  Not so where an offboarding has ended between its purge *)
(* and its quarantine, or replays have crossed each other or a job.        *)
ReceivedEventsAreUnderWay ==
    \A e \in OrgEvents :
        eventRow[e] = "RECEIVED" =>
            \/ RowsOf(e) > 0 \/ HasJob(e)
            \/ e \in crossed \/ interrupted
            \/ \E u \in Operators : offboarding[u] = "purged"

(* An event is at most once on its way, unless replays have crossed: a     *)
(* replay is not given to one that has not come to rest.                   *)
EventsAreUnderWayOnce ==
    \A e \in OrgEvents \ crossed :
        Copies(e) <= 1

(* The three of them: events of the organization are where their status    *)
(* says.                                                                   *)
StatusTellsWhereEventsAre ==
    /\ OffboardTypeOK
    /\ OffboardedStayQuarantined
    /\ ReceivedEventsAreUnderWay
    /\ EventsAreUnderWayOnce
=============================================================================
