--------------------------- MODULE WebhookPipeline ---------------------------
(***************************************************************************)
(* One webhook from the HTTP request to the revenue ledger: the ingest     *)
(* handlers, the table webhook_events, the Redis replay cache, the outbox, *)
(* the BullMQ queue and the WebhookProcessor.                              *)
(*                                                                         *)
(* The outbox appears as the DeliveryChannel that Outbox implements; each  *)
(* delivery adds one job.  A key stands for an (org, source, idempotency   *)
(* key) triple, and by its source it takes one of three routes:            *)
(*   signed      PIXIE, MICAMP: signature middleware, then route handler   *)
(*   integrated  EAZEPAY_APP and the business sources: one handler         *)
(*   inline      POST /ingestion: processed inside the request             *)
(***************************************************************************)
EXTENDS Naturals

CONSTANTS
    SignedKeys, IntegratedKeys, InlineKeys,
    Requests,           \* HTTP requests that can be under way together
    Workers,            \* job slots of the webhook workers
    NoKey, NoWorker,
    MaxTries,           \* attempts of the queue's defaultJobOptions
    MaxStalls,          \* maxStalledCount of BullMQ
    MaxCopies,          \* bound: jobs the channel may add for one key
    MaxFaults           \* bound: crashes, lost locks, failed catch blocks

Keys == SignedKeys \cup IntegratedKeys \cup InlineKeys
Jobs == Keys \X (1 .. MaxCopies)
NoJob == <<NoKey, 0>>
Runners == Workers \cup Requests

ASSUME RoutesAreDisjoint ==
    /\ SignedKeys \cap IntegratedKeys = {}
    /\ InlineKeys \cap (SignedKeys \cup IntegratedKeys) = {}
ASSUME RunnersAreDisjoint == Workers \cap Requests = {}
ASSUME NothingIsNothing == NoKey \notin Keys /\ NoWorker \notin Workers
ASSUME BoundsAreNaturals ==
    /\ MaxTries \in Nat \ {0}
    /\ MaxCopies \in Nat \ {0}
    /\ MaxStalls \in Nat
    /\ MaxFaults \in Nat

VARIABLES
    event,              \* status of the webhook_events row of a key
    cache,              \* keys with a cached 202 in Redis
    acked,              \* keys some request has answered 202 for
    req,                \* per request: where its handler is, and its key
    sent, delivered, settled, parked,       \* the outbox
    jobState, lock, tries, stalls,          \* the BullMQ jobs
    run,                \* per worker or request: its WebhookProcessor call
    recorded,           \* keys whose revenue_events row exists
    announced,          \* revenue.event messages published, per key
    faults              \* counter behind MaxFaults

channelVars == <<sent, delivered, settled, parked>>
jobVars == <<jobState, lock, tries, stalls>>
ledgerVars == <<recorded, announced>>
vars == <<event, cache, acked, req, channelVars, jobVars, run, ledgerVars,
          faults>>

Channel == INSTANCE DeliveryChannel WITH Msgs <- Keys

HandlerPcs == {"idle", "cache", "prior", "insert", "append", "warm", "reply",
               "processing"}
RunSteps == {"idle", "handle", "announce", "mark", "audit", "catch", "done",
             "thrown"}

TypeOK ==
    /\ event \in [Keys -> {"none", "RECEIVED", "PROCESSED", "FAILED"}]
    /\ cache \subseteq Keys
    /\ acked \subseteq Keys
    /\ req \in [Requests -> [pc : HandlerPcs, key : Keys \cup {NoKey}]]
    /\ Channel!ChannelTypeOK
    /\ jobState \in [Jobs -> {"none", "waiting", "active", "completed",
                              "failed"}]
    /\ lock \in [Jobs -> Workers \cup {NoWorker}]
    /\ tries \in [Jobs -> 0 .. MaxTries]
    /\ stalls \in [Jobs -> 0 .. MaxStalls + 1]
    /\ run \in [Runners -> [step : RunSteps, job : Jobs \cup {NoJob},
                            key : Keys \cup {NoKey}]]
    /\ recorded \subseteq Keys
    /\ announced \in [Keys -> Nat]
    /\ faults \in 0 .. MaxFaults

IdleRequest == [pc |-> "idle", key |-> NoKey]
IdleRun == [step |-> "idle", job |-> NoJob, key |-> NoKey]

Init ==
    /\ event = [k \in Keys |-> "none"]
    /\ cache = {} /\ acked = {}
    /\ req = [r \in Requests |-> IdleRequest]
    /\ Channel!ChannelInit
    /\ jobState = [j \in Jobs |-> "none"]
    /\ lock = [j \in Jobs |-> NoWorker]
    /\ tries = [j \in Jobs |-> 0]
    /\ stalls = [j \in Jobs |-> 0]
    /\ run = [p \in Runners |-> IdleRun]
    /\ recorded = {}
    /\ announced = [k \in Keys |-> 0]
    /\ faults = 0

-----------------------------------------------------------------------------
(* The ingest handlers                                                     *)

At(r, pc) == req[r].pc = pc
Key(r) == req[r].key
Goto(r, pc) == req' = [req EXCEPT ![r].pc = pc]

(* A vendor sends a webhook, for the first time or again; signature,       *)
(* timestamp and envelope are valid.                                       *)
Arrive(r, k) ==
    /\ At(r, "idle")
    /\ req' = [req EXCEPT ![r] =
                  [pc |-> IF k \in InlineKeys THEN "insert" ELSE "cache",
                   key |-> k]]
    /\ UNCHANGED <<event, cache, acked, channelVars, jobVars, run, ledgerVars,
                   faults>>

(* Layer 1: a cached response is sent as it is.                            *)
ReadCache(r) ==
    /\ At(r, "cache")
    /\ Goto(r, IF Key(r) \in cache THEN "reply" ELSE "prior")
    /\ UNCHANGED <<event, cache, acked, channelVars, jobVars, run, ledgerVars,
                   faults>>

(* Defect: the replay cache is warmed before the event is durable.         *)
ReadPriorWarming(r) ==
    /\ At(r, "prior")
    /\ cache' = cache \cup {Key(r)}
    /\ Goto(r, IF event[Key(r)] # "none" THEN "warm" ELSE "insert")
    /\ UNCHANGED <<event, acked, channelVars, jobVars, run, ledgerVars, faults>>

(* Layer 2: findUnique on (org, source, key).                              *)
ReadPrior(r) ==
    /\ At(r, "prior")
    /\ Goto(r, IF event[Key(r)] # "none" THEN "warm" ELSE "insert")
    /\ UNCHANGED <<event, cache, acked, channelVars, jobVars, run, ledgerVars,
                   faults>>

(* Defect: a request that loses the race carries on to the route handler.  *)
LosesInsertRaceGoesOn(r) ==
    /\ At(r, "insert")
    /\ Key(r) \notin InlineKeys
    /\ event[Key(r)] # "none"
    /\ Goto(r, "append")
    /\ UNCHANGED <<event, cache, acked, channelVars, jobVars, run, ledgerVars,
                   faults>>

(* Another request with the same key came first: P2002, answered 500.      *)
LosesInsertRace(r) ==
    /\ At(r, "insert")
    /\ Key(r) \notin InlineKeys
    /\ event[Key(r)] # "none"
    /\ req' = [req EXCEPT ![r] = IdleRequest]
    /\ UNCHANGED <<event, cache, acked, channelVars, jobVars, run, ledgerVars,
                   faults>>

SetStatus(k, s) == event' = [event EXCEPT ![k] = s]

Receive(r) ==
    /\ At(r, "insert")
    /\ event[Key(r)] = "none"
    /\ SetStatus(Key(r), "RECEIVED")

(* The middleware commits the event by itself.                             *)
InsertSigned(r) ==
    /\ Key(r) \in SignedKeys
    /\ Receive(r)
    /\ Goto(r, "append")
    /\ UNCHANGED <<cache, acked, channelVars, jobVars, run, ledgerVars, faults>>

(* The route handler appends the outbox row in a transaction of its own.   *)
AppendSigned(r) ==
    /\ At(r, "append")
    /\ Channel!Send(Key(r))
    /\ Goto(r, "reply")
    /\ UNCHANGED <<event, cache, acked, jobVars, run, ledgerVars, faults>>

(* Defect: the outbox row is left to a later transaction.                  *)
InsertIntegratedSplit(r) ==
    /\ Key(r) \in IntegratedKeys
    /\ Receive(r)
    /\ Goto(r, "append")
    /\ UNCHANGED <<cache, acked, channelVars, jobVars, run, ledgerVars, faults>>

(* The event and its outbox row are committed together.                    *)
InsertIntegrated(r) ==
    /\ Key(r) \in IntegratedKeys
    /\ Receive(r)
    /\ Channel!Send(Key(r))
    /\ Goto(r, "warm")
    /\ UNCHANGED <<cache, acked, jobVars, run, ledgerVars, faults>>

(* Defect: a failed event is simply processed again.                       *)
InsertInlineRetrying(r) ==
    /\ Key(r) \in InlineKeys
    /\ At(r, "insert")
    /\ IF event[Key(r)] \in {"none", "FAILED"}
         THEN /\ SetStatus(Key(r), "RECEIVED")
              /\ Goto(r, "processing")
              /\ run' = [run EXCEPT ![r] = [step |-> "handle", job |-> NoJob,
                                            key |-> Key(r)]]
         ELSE Goto(r, "reply") /\ UNCHANGED <<event, run>>
    /\ UNCHANGED <<cache, acked, channelVars, jobVars, ledgerVars, faults>>

(* create, or on P2002 answer with the row that is there.                  *)
InsertInline(r) ==
    /\ Key(r) \in InlineKeys
    /\ \/ /\ Receive(r)
          /\ Goto(r, "processing")
          /\ run' = [run EXCEPT ![r] = [step |-> "handle", job |-> NoJob,
                                        key |-> Key(r)]]
       \/ /\ At(r, "insert")
          /\ event[Key(r)] # "none"
          /\ Goto(r, "reply")
          /\ UNCHANGED <<event, run>>
    /\ UNCHANGED <<cache, acked, channelVars, jobVars, ledgerVars, faults>>

(* The processor has returned, or thrown, inside the request.              *)
FinishInline(r) ==
    /\ At(r, "processing")
    /\ run[r].step \in {"done", "thrown"}
    /\ run' = [run EXCEPT ![r] = IdleRun]
    /\ IF run[r].step = "done"
         THEN Goto(r, "reply")
         ELSE req' = [req EXCEPT ![r] = IdleRequest]
    /\ UNCHANGED <<event, cache, acked, channelVars, jobVars, ledgerVars,
                   faults>>

WarmCache(r) ==
    /\ At(r, "warm")
    /\ cache' = cache \cup {Key(r)}
    /\ Goto(r, "reply")
    /\ UNCHANGED <<event, acked, channelVars, jobVars, run, ledgerVars, faults>>

Reply(r) ==
    /\ At(r, "reply")
    /\ acked' = acked \cup {Key(r)}
    /\ req' = [req EXCEPT ![r] = IdleRequest]
    /\ UNCHANGED <<event, cache, channelVars, jobVars, run, ledgerVars, faults>>

(* An await of the handler throws (answered 500), or the process dies:     *)
(* nothing after this point happens.                                       *)
Abandon(r) ==
    /\ ~At(r, "idle")
    /\ req' = [req EXCEPT ![r] = IdleRequest]
    /\ run' = [run EXCEPT ![r] = IdleRun]
    /\ UNCHANGED <<event, cache, acked, channelVars, jobVars, ledgerVars,
                   faults>>

CacheExpires(k) ==
    /\ k \in cache
    /\ cache' = cache \ {k}
    /\ UNCHANGED <<event, acked, req, channelVars, jobVars, run, ledgerVars,
                   faults>>

-----------------------------------------------------------------------------
(* The outbox and the queue                                                *)

(* The sweeper's dispatch adds a job; the queue is given no job id, so     *)
(* every delivery is a job of its own.                                     *)
EnqueueWebhook(k) ==
    /\ delivered[k] < MaxCopies
    /\ Channel!Deliver(k)
    /\ jobState' = [jobState EXCEPT ![<<k, delivered[k] + 1>>] = "waiting"]
    /\ UNCHANGED <<event, cache, acked, req, lock, tries, stalls, run,
                   ledgerVars, faults>>

RetireRow(k) ==
    /\ \E S, P \in SUBSET Keys : k \in S \cup P /\ Channel!Retire(S, P)
    /\ UNCHANGED <<event, cache, acked, req, jobVars, run, ledgerVars, faults>>

ReplayRow(k) ==
    /\ Channel!Unpark(k)
    /\ UNCHANGED <<event, cache, acked, req, jobVars, run, ledgerVars, faults>>

TakeJob(w, j) ==
    /\ run[w].step = "idle"
    /\ jobState[j] = "waiting"
    /\ jobState' = [jobState EXCEPT ![j] = "active"]
    /\ lock' = [lock EXCEPT ![j] = w]
    /\ run' = [run EXCEPT ![w] = [step |-> "handle", job |-> j, key |-> j[1]]]
    /\ UNCHANGED <<event, cache, acked, req, channelVars, tries, stalls,
                   ledgerVars, faults>>

(* Defect: the last attempt is followed by one more.                       *)
LastTryLate(j) == tries[j] >= MaxTries

LastTry(j) == tries[j] + 1 >= MaxTries

(* The outcome of a job counts only while its worker still has the lock.   *)
FinishJob(w) ==
    LET j == run[w].job IN
    /\ run[w].step \in {"done", "thrown"}
    /\ run' = [run EXCEPT ![w] = IdleRun]
    /\ IF jobState[j] = "active" /\ lock[j] = w
         THEN /\ lock' = [lock EXCEPT ![j] = NoWorker]
              /\ \/ /\ run[w].step = "done"
                    /\ jobState' = [jobState EXCEPT ![j] = "completed"]
                    /\ UNCHANGED tries
                 \/ /\ run[w].step = "thrown"
                    /\ tries' = [tries EXCEPT ![j] = @ + 1]
                    /\ jobState' = [jobState EXCEPT ![j] =
                                       IF LastTry(j) THEN "failed"
                                                     ELSE "waiting"]
         ELSE UNCHANGED <<jobState, lock, tries>>
    /\ UNCHANGED <<event, cache, acked, req, channelVars, stalls, ledgerVars,
                   faults>>

CrashWorker(w) ==
    /\ faults < MaxFaults
    /\ run[w].step # "idle"
    /\ run' = [run EXCEPT ![w] = IdleRun]
    /\ faults' = faults + 1
    /\ UNCHANGED <<event, cache, acked, req, channelVars, jobVars, ledgerVars>>

(* The stalled-job check finds an active job whose lock was not renewed.   *)
Requeue(j) ==
    /\ jobState[j] = "active"
    /\ stalls' = [stalls EXCEPT ![j] = @ + 1]
    /\ lock' = [lock EXCEPT ![j] = NoWorker]
    /\ jobState' = [jobState EXCEPT ![j] =
                       IF stalls[j] + 1 > MaxStalls THEN "failed" ELSE "waiting"]
    /\ UNCHANGED <<event, cache, acked, req, channelVars, tries, run,
                   ledgerVars>>

Abandoned(j) == \A w \in Workers : lock[j] = w => run[w].job # j

RecoverStalled(j) == Abandoned(j) /\ Requeue(j) /\ UNCHANGED faults

(* A worker that is alive but blocked loses its lock, and runs on.         *)
LoseLock(j) ==
    /\ ~Abandoned(j)
    /\ faults < MaxFaults
    /\ Requeue(j)
    /\ faults' = faults + 1

-----------------------------------------------------------------------------
(* WebhookProcessor.process, run by a worker or inside an inline request   *)

Step(p, step) == run' = [run EXCEPT ![p].step = step]

(* The outbox payload of an integrated source carries the envelope at its  *)
(* top level, so the job has no field `payload` for the processor to read. *)
HasPayload(k) == k \notin IntegratedKeys

(* Defect: the conflict on the ledger key is swallowed around the create   *)
(* alone.                                                                  *)
HandleAnnouncing(p) ==
    /\ run[p].step = "handle"
    /\ recorded' = IF HasPayload(run[p].key)
                     THEN recorded \cup {run[p].key} ELSE recorded
    /\ Step(p, IF HasPayload(run[p].key) THEN "announce" ELSE "catch")
    /\ UNCHANGED <<event, cache, acked, req, channelVars, jobVars, announced,
                   faults>>

(* Defect: the event is marked without its ledger row.                     *)
HandleMarking(p) ==
    /\ run[p].step = "handle"
    /\ Step(p, IF HasPayload(run[p].key) THEN "mark" ELSE "catch")
    /\ UNCHANGED <<event, cache, acked, req, channelVars, jobVars, ledgerVars,
                   faults>>

(* recordRevenue: create the ledger row and go on to announce it; on P2002 *)
(* it was recorded before and the handler returns.                         *)
Handle(p) ==
    LET k == run[p].key IN
    /\ run[p].step = "handle"
    /\ recorded' = IF HasPayload(k) THEN recorded \cup {k} ELSE recorded
    /\ Step(p, IF ~HasPayload(k) THEN "catch"
               ELSE IF k \in recorded THEN "mark" ELSE "announce")
    /\ UNCHANGED <<event, cache, acked, req, channelVars, jobVars, announced,
                   faults>>

Announce(p) ==
    /\ run[p].step = "announce"
    /\ announced' = [announced EXCEPT ![run[p].key] = @ + 1]
    /\ Step(p, "mark")
    /\ UNCHANGED <<event, cache, acked, req, channelVars, jobVars, recorded,
                   faults>>

MarkProcessed(p) ==
    /\ run[p].step = "mark"
    /\ SetStatus(run[p].key, "PROCESSED")
    /\ Step(p, "audit")
    /\ UNCHANGED <<cache, acked, req, channelVars, jobVars, ledgerVars, faults>>

(* writeAuditLog after the update is still inside the try.                 *)
AuditProcessed(p) ==
    /\ run[p].step = "audit"
    /\ Step(p, "done")
    /\ UNCHANGED <<event, cache, acked, req, channelVars, jobVars, ledgerVars,
                   faults>>

Throw(p) ==
    /\ run[p].step \in {"handle", "announce", "mark", "audit"}
    /\ Step(p, "catch")
    /\ UNCHANGED <<event, cache, acked, req, channelVars, jobVars, ledgerVars,
                   faults>>

(* Defect: the catch block only rethrows.                                  *)
CatchRethrows(p) ==
    /\ run[p].step = "catch"
    /\ Step(p, "thrown")
    /\ UNCHANGED <<event, cache, acked, req, channelVars, jobVars, ledgerVars,
                   faults>>

(* Defect: the catch block tries the event again instead of rethrowing.    *)
CatchRetries(p) ==
    /\ run[p].step = "catch"
    /\ SetStatus(run[p].key, "FAILED")
    /\ Step(p, "handle")
    /\ UNCHANGED <<cache, acked, req, channelVars, jobVars, ledgerVars, faults>>

Catch(p) ==
    /\ run[p].step = "catch"
    /\ SetStatus(run[p].key, "FAILED")
    /\ Step(p, "thrown")
    /\ UNCHANGED <<cache, acked, req, channelVars, jobVars, ledgerVars, faults>>

(* The update of the catch block fails as well.                            *)
CatchFails(p) ==
    /\ faults < MaxFaults
    /\ run[p].step = "catch"
    /\ Step(p, "thrown")
    /\ faults' = faults + 1
    /\ UNCHANGED <<event, cache, acked, req, channelVars, jobVars, ledgerVars>>

-----------------------------------------------------------------------------

Process(p) ==
    \/ Handle(p)
    \/ Announce(p)
    \/ MarkProcessed(p)
    \/ AuditProcessed(p)
    \/ Throw(p)
    \/ Catch(p)

IngestStep(r) ==
    \/ ReadCache(r)
    \/ ReadPrior(r)
    \/ LosesInsertRace(r)
    \/ InsertSigned(r)
    \/ AppendSigned(r)
    \/ InsertIntegrated(r)
    \/ InsertInline(r)
    \/ FinishInline(r)
    \/ WarmCache(r)
    \/ Reply(r)

WorkerStep(w) ==
    \/ \E j \in Jobs : TakeJob(w, j)
    \/ Process(w)
    \/ FinishJob(w)

Next ==
    \/ \E r \in Requests :
          \/ \E k \in Keys : Arrive(r, k)
          \/ IngestStep(r)
          \/ Process(r)
          \/ Abandon(r)
    \/ \E k \in Keys :
          \/ CacheExpires(k)
          \/ EnqueueWebhook(k)
          \/ RetireRow(k)
          \/ ReplayRow(k)
    \/ \E w \in Workers : WorkerStep(w) \/ CrashWorker(w)
    \/ \E p \in Runners : CatchFails(p)
    \/ \E j \in Jobs : RecoverStalled(j) \/ LoseLock(j)

Spec == Init /\ [][Next]_vars

(* A worker slot that has a job, or could take one, goes on; the stalled   *)
(* check runs for as long as any worker does.  That every outbox row is    *)
(* retired is what EveryRowSettles of Outbox establishes.  Vendors,        *)
(* operators and HTTP requests are not assumed to do anything.             *)
Fairness ==
    /\ \A w \in Workers : WF_vars(WorkerStep(w))
    /\ \A j \in Jobs : WF_vars(RecoverStalled(j))
    /\ \A k \in Keys : WF_vars(RetireRow(k))

FairSpec == Spec /\ Fairness

-----------------------------------------------------------------------------
(* Properties                                                              *)

(* An integrated event and its outbox row exist together, whatever crashes *)
(* and whichever request wins the race for a key; a signed event may lack  *)
(* the row, an outbox row never lacks the event.                           *)
EventsAreScheduled ==
    /\ \A k \in IntegratedKeys : event[k] # "none" <=> k \in sent
    /\ \A k \in sent : event[k] # "none"

(* Only the request that created a signed event can append its outbox row, *)
(* so a key is appended once however often the vendor sends it.            *)
OneAppenderPerKey ==
    \A r \in Requests :
        At(r, "append") =>
            /\ Key(r) \notin sent
            /\ \A q \in Requests \ {r} : At(q, "append") => Key(q) # Key(r)

(* A 202, cached or not, is only ever given for a durable event; for an    *)
(* integrated source also for a scheduled one.                             *)
AckedIsDurable ==
    \A k \in acked \cup cache :
        /\ event[k] # "none"
        /\ k \in IntegratedKeys => k \in sent

(* An event shows PROCESSED only once its revenue is in the ledger, with   *)
(* duplicate jobs, lost locks and retries in any order.                    *)
ProcessedIsRecorded ==
    \A k \in Keys : event[k] = "PROCESSED" => k \in recorded

(* Duplicate jobs and retries never announce the same revenue twice.       *)
AnnouncedAtMostOnce == \A k \in Keys : announced[k] <= 1

(* Of several requests with one key, in parallel or one after the other,   *)
(* only the one that created the event runs the processor for it.          *)
OneProcessorPerInlineKey ==
    \A r, q \in Requests :
        r # q /\ run[r].key \in InlineKeys => run[r].key # run[q].key

(* Unless a worker died, stalled or could not write the status, a job that *)
(* used up its attempts leaves an event that is not RECEIVED any more; and *)
(* with a single job, the event shows what became of the job.              *)
JobOutcomeIsVisible ==
    faults = 0 =>
        \A j \in Jobs :
            LET k == j[1] IN
            /\ jobState[j] = "failed" => event[k] # "RECEIVED"
            /\ delivered[k] = 1 /\ jobState[j] = "failed" => event[k] = "FAILED"
            /\ delivered[k] = 1 /\ jobState[j] = "completed" =>
                  event[k] = "PROCESSED"

(* An outbox row ends in the outbox DLQ, or with all its jobs finished.    *)
ScheduledWorkEnds ==
    \A k \in Keys :
        k \in sent ~>
            \/ k \in parked
            \/ /\ delivered[k] > 0
               /\ \A n \in 1 .. MaxCopies :
                     jobState[<<k, n>>] \in {"none", "completed", "failed"}

(* webhook.routes.ts and outbox.ts say that a crash between persisting a   *)
(* webhook and acknowledging it loses nothing: what was acknowledged is    *)
(* scheduled, or some request is about to schedule it.                     *)
AckedIsScheduled ==
    \A k \in acked \cap SignedKeys :
        \/ k \in sent
        \/ \E r \in Requests : At(r, "append") /\ Key(r) = k

(* webhook.service.ts says the envelope is "passed it through in the       *)
(* outbox payload" for the processor: without any fault, and without an    *)
(* error of the handler, a job reaches its handler.                        *)
JobsReachTheirHandler ==
    [][\A w \in Workers : Handle(w) => run'[w].step # "catch"]_vars
=============================================================================
