--------------------------- MODULE OutboundDelivery ---------------------------
(***************************************************************************)
(* Outbound webhooks: OutboundWebhookService and its worker.               *)
(*                                                                         *)
(* A publish fans out to subscriptions, one delivery row and one queue job *)
(* each; a caller whose publish throws may publish the event again.  A     *)
(* worker takes the job, marks the row, posts, records the answer.  BullMQ *)
(* gives a stalled job to another worker while the first may still be at   *)
(* it; the first then finds its lock lost and cannot finish the job, but   *)
(* nothing stops its writes to the row.                                    *)
(***************************************************************************)
EXTENDS Naturals, FiniteSets

CONSTANTS
    Publishers,         \* events being published
    Subs,               \* subscriptions
    Deliveries,         \* delivery rows that may be created
    Workers,
    NoSub, NoPublisher, NoDelivery, NoWorker,
    MaxTries,           \* attempts of the queue: 6
    MaxStalls,          \* maxStalledCount of BullMQ: 1
    MaxPublishes,       \* bound on publishes of one event
    MaxFaults           \* bound on crashes, errors and lost answers

ASSUME NamesAreDistinct ==
    /\ NoSub \notin Subs /\ NoPublisher \notin Publishers
    /\ NoDelivery \notin Deliveries /\ NoWorker \notin Workers
ASSUME BoundsAreNaturals ==
    /\ MaxTries \in Nat \ {0} /\ MaxStalls \in Nat
    /\ MaxPublishes \in Nat /\ MaxFaults \in Nat

VARIABLES
    fan,                \* per event: subscriptions left, row not enqueued yet
    publishes,          \* per event: how often it was published
    row,                \* webhook_deliveries
    job,                \* the queue's job of each row
    worker,             \* per worker: delivery, step, attempt count it read
    posts,              \* per row: how often the subscriber was sent it
    marking,            \* rows whose ABANDONED update is under way
    spared,             \* rows whose last answer or mark was lost to an error
    faults

vars == <<fan, publishes, row, job, worker, posts, marking, spared, faults>>

Statuses == {"PENDING", "RETRYING", "SUCCESS", "FAILED", "ABANDONED"}

TypeOK ==
    /\ fan \in [Publishers -> [left : SUBSET Subs,
                               row : Deliveries \cup {NoDelivery}]]
    /\ publishes \in [Publishers -> 0 .. MaxPublishes]
    /\ row \in [Deliveries -> [sub : Subs \cup {NoSub},
                               by : Publishers \cup {NoPublisher},
                               status : Statuses, attempts : Nat]]
    /\ job \in [Deliveries -> [state : {"none", "waiting", "active", "done",
                                        "failed"},
                               holder : Workers \cup {NoWorker},
                               tries : 0 .. MaxTries, stalls : 0 .. MaxStalls]]
    /\ worker \in [Workers -> [at : Deliveries \cup {NoDelivery},
                               step : {"idle", "mark", "post", "record",
                                       "accepted", "finish", "retry"},
                               seen : Nat]]
    /\ posts \in [Deliveries -> Nat]
    /\ marking \subseteq Deliveries
    /\ spared \subseteq Deliveries
    /\ faults \in 0 .. MaxFaults
    /\ \A d \in Deliveries :
          /\ job[d].state # "none" => row[d].sub # NoSub
          /\ job[d].state = "active" <=> job[d].holder # NoWorker
          /\ d \in marking => job[d].state = "failed"
    /\ \A w \in Workers : worker[w].step = "idle" <=> worker[w].at = NoDelivery

NoFan == [left |-> {}, row |-> NoDelivery]
NoRow == [sub |-> NoSub, by |-> NoPublisher, status |-> "PENDING",
          attempts |-> 0]
NoJob == [state |-> "none", holder |-> NoWorker, tries |-> 0, stalls |-> 0]
Idle == [at |-> NoDelivery, step |-> "idle", seen |-> 0]

Init ==
    /\ fan = [p \in Publishers |-> NoFan]
    /\ publishes = [p \in Publishers |-> 0]
    /\ row = [d \in Deliveries |-> NoRow]
    /\ job = [d \in Deliveries |-> NoJob]
    /\ worker = [w \in Workers |-> Idle]
    /\ posts = [d \in Deliveries |-> 0]
    /\ marking = {} /\ spared = {}
    /\ faults = 0

Fault == faults < MaxFaults /\ faults' = faults + 1

-----------------------------------------------------------------------------
(* Publishing                                                              *)

(* dispatch reads the active subscriptions of the tenant; replay and test  *)
(* are a publish to the one subscription.                                  *)
Publish(p, S) ==
    /\ fan[p] = NoFan
    /\ publishes[p] < MaxPublishes
    /\ fan' = [fan EXCEPT ![p].left = S]
    /\ publishes' = [publishes EXCEPT ![p] = @ + 1]
    /\ UNCHANGED <<row, job, worker, posts, marking, spared, faults>>

(* Defect: the loop starts over at the same subscription.                  *)
CreateRowKeeping(p, s, d) ==
    /\ s \in fan[p].left /\ fan[p].row = NoDelivery
    /\ row[d] = NoRow
    /\ fan' = [fan EXCEPT ![p].row = d]
    /\ row' = [row EXCEPT ![d].sub = s, ![d].by = p]
    /\ UNCHANGED <<publishes, job, worker, posts, marking, spared, faults>>

CreateRow(p, s, d) ==
    /\ s \in fan[p].left /\ fan[p].row = NoDelivery
    /\ row[d] = NoRow
    /\ fan' = [fan EXCEPT ![p] = [left |-> @.left \ {s}, row |-> d]]
    /\ row' = [row EXCEPT ![d].sub = s, ![d].by = p]
    /\ UNCHANGED <<publishes, job, worker, posts, marking, spared, faults>>

Enqueue(p) ==
    LET d == fan[p].row IN
    /\ d # NoDelivery
    /\ fan' = [fan EXCEPT ![p].row = NoDelivery]
    /\ job' = [job EXCEPT ![d].state = "waiting"]
    /\ UNCHANGED <<publishes, row, worker, posts, marking, spared, faults>>

(* Postgres or Redis fails, or the process dies: the rest is not done.     *)
PublishFails(p) ==
    /\ fan[p] # NoFan /\ Fault
    /\ fan' = [fan EXCEPT ![p] = NoFan]
    /\ UNCHANGED <<publishes, row, job, worker, posts, marking, spared>>

-----------------------------------------------------------------------------
(* Delivering                                                              *)

Holds(w) == job[worker[w].at].holder = w
Take(w, d) ==
    /\ worker[w] = Idle
    /\ job[d].state = "waiting"
    /\ job' = [job EXCEPT ![d].state = "active", ![d].holder = w]
    /\ worker' = [worker EXCEPT ![w] =
                     [at |-> d, seen |-> row[d].attempts,
                      step |-> IF row[d].status = "SUCCESS" THEN "finish"
                                                            ELSE "mark"]]
    /\ UNCHANGED <<fan, publishes, row, posts, marking, spared, faults>>

(* Status and count come from the row as it was read.                      *)
MarkRetrying(w) ==
    LET d == worker[w].at IN
    /\ worker[w].step = "mark"
    /\ row' = [row EXCEPT ![d].status = "RETRYING",
                          ![d].attempts = worker[w].seen + 1]
    /\ worker' = [worker EXCEPT ![w].step = "post"]
    /\ UNCHANGED <<fan, publishes, job, posts, marking, spared, faults>>

(* Defect: no answer counts as accepted.                                   *)
PostOptimistic(w) ==
    LET d == worker[w].at IN
    /\ worker[w].step = "post"
    /\ \E arrives \in BOOLEAN, answer \in {"accepted", "record"} :
          /\ posts' = IF arrives THEN [posts EXCEPT ![d] = @ + 1] ELSE posts
          /\ worker' = [worker EXCEPT ![w].step = answer]
    /\ UNCHANGED <<fan, publishes, row, job, marking, spared, faults>>

(* send: the subscriber may take the request whatever answer comes back.   *)
Post(w) ==
    LET d == worker[w].at IN
    /\ worker[w].step = "post"
    /\ \E arrives \in BOOLEAN, answer \in {"accepted", "record"} :
          /\ answer = "accepted" => arrives
          /\ posts' = IF arrives THEN [posts EXCEPT ![d] = @ + 1] ELSE posts
          /\ worker' = [worker EXCEPT ![w].step = answer]
    /\ UNCHANGED <<fan, publishes, row, job, marking, spared, faults>>

(* Defect: the throw after a failure is outside the else.                  *)
RecordSuccessThrowing(w) ==
    LET d == worker[w].at IN
    /\ worker[w].step = "accepted"
    /\ row' = [row EXCEPT ![d].status = "SUCCESS"]
    /\ worker' = [worker EXCEPT ![w].step = "retry"]
    /\ UNCHANGED <<fan, publishes, job, posts, marking, spared, faults>>

RecordSuccess(w) ==
    LET d == worker[w].at IN
    /\ worker[w].step = "accepted"
    /\ row' = [row EXCEPT ![d].status = "SUCCESS"]
    /\ worker' = [worker EXCEPT ![w].step = "finish"]
    /\ UNCHANGED <<fan, publishes, job, posts, marking, spared, faults>>

RecordFailure(w) ==
    LET d == worker[w].at IN
    /\ worker[w].step = "record"
    /\ row' = [row EXCEPT ![d].status = "FAILED"]
    /\ worker' = [worker EXCEPT ![w].step = "retry"]
    /\ UNCHANGED <<fan, publishes, job, posts, marking, spared, faults>>

(* The success update fails, or commits and its answer is lost: the catch  *)
(* records a failure over it.                                              *)
RecordSuccessFails(w) ==
    LET d == worker[w].at IN
    /\ worker[w].step = "accepted" /\ Fault
    /\ \E committed \in BOOLEAN :
          row' = IF committed THEN [row EXCEPT ![d].status = "SUCCESS"] ELSE row
    /\ worker' = [worker EXCEPT ![w].step = "record"]
    /\ spared' = spared \cup {d}
    /\ UNCHANGED <<fan, publishes, job, posts, marking>>

(* Another statement of deliver fails: the attempt is over.                *)
AttemptFails(w) ==
    /\ worker[w].step \in {"mark", "record"} /\ Fault
    /\ worker' = [worker EXCEPT ![w].step = "retry"]
    /\ UNCHANGED <<fan, publishes, row, job, posts, marking, spared>>

(* The job completes, unless the lock was lost.                            *)
Complete(w) ==
    /\ worker[w].step = "finish"
    /\ job' = IF Holds(w)
                THEN [job EXCEPT ![worker[w].at].state = "done",
                                 ![worker[w].at].holder = NoWorker]
                ELSE job
    /\ worker' = [worker EXCEPT ![w] = Idle]
    /\ UNCHANGED <<fan, publishes, row, posts, marking, spared, faults>>

(* Defect: one attempt too many.                                           *)
FailLate(w) ==
    LET d == worker[w].at
        last == job[d].tries >= MaxTries
    IN
    /\ worker[w].step = "retry"
    /\ IF Holds(w)
         THEN /\ job' = [job EXCEPT
                            ![d].state = IF last THEN "failed" ELSE "waiting",
                            ![d].holder = NoWorker, ![d].tries = @ + 1]
              /\ marking' = IF last THEN marking \cup {d} ELSE marking
         ELSE UNCHANGED <<job, marking>>
    /\ worker' = [worker EXCEPT ![w] = Idle]
    /\ UNCHANGED <<fan, publishes, row, posts, spared, faults>>

(* Defect: attempts are not counted.                                       *)
FailUncounted(w) ==
    LET d == worker[w].at
        last == job[d].tries + 1 >= MaxTries
    IN
    /\ worker[w].step = "retry"
    /\ IF Holds(w)
         THEN /\ job' = [job EXCEPT
                            ![d].state = IF last THEN "failed" ELSE "waiting",
                            ![d].holder = NoWorker]
              /\ marking' = IF last THEN marking \cup {d} ELSE marking
         ELSE UNCHANGED <<job, marking>>
    /\ worker' = [worker EXCEPT ![w] = Idle]
    /\ UNCHANGED <<fan, publishes, row, posts, spared, faults>>

(* Defect: the failed callback does not mark the row.                      *)
FailUnmarked(w) ==
    LET d == worker[w].at
        last == job[d].tries + 1 >= MaxTries
    IN
    /\ worker[w].step = "retry"
    /\ IF Holds(w)
         THEN /\ job' = [job EXCEPT
                            ![d].state = IF last THEN "failed" ELSE "waiting",
                            ![d].holder = NoWorker, ![d].tries = @ + 1]
         ELSE UNCHANGED job
    /\ worker' = [worker EXCEPT ![w] = Idle]
    /\ UNCHANGED <<fan, publishes, row, posts, marking, spared, faults>>

(* It fails: back to the queue, or for good after the last attempt, when   *)
(* the failed callback starts marking the row.                             *)
Fail(w) ==
    LET d == worker[w].at
        last == job[d].tries + 1 >= MaxTries
    IN
    /\ worker[w].step = "retry"
    /\ IF Holds(w)
         THEN /\ job' = [job EXCEPT
                            ![d].state = IF last THEN "failed" ELSE "waiting",
                            ![d].holder = NoWorker, ![d].tries = @ + 1]
              /\ marking' = IF last THEN marking \cup {d} ELSE marking
         ELSE UNCHANGED <<job, marking>>
    /\ worker' = [worker EXCEPT ![w] = Idle]
    /\ UNCHANGED <<fan, publishes, row, posts, spared, faults>>

MarkAbandoned(d) ==
    /\ d \in marking
    /\ marking' = marking \ {d}
    /\ row' = [row EXCEPT ![d].status = "ABANDONED"]
    /\ UNCHANGED <<fan, publishes, job, worker, posts, spared, faults>>

MarkAbandonedFails(d) ==
    /\ d \in marking /\ Fault
    /\ marking' = marking \ {d}
    /\ spared' = spared \cup {d}
    /\ UNCHANGED <<fan, publishes, row, job, worker, posts>>

(* The stalled check finds the lock expired: the worker died, or is slow   *)
(* and still at it.  It gives the job back; beyond the limit it fails the  *)
(* job with attempts unused, and the callback marks nothing.               *)
Stall(d) ==
    /\ job[d].state = "active"
    /\ IF worker[job[d].holder].at = d THEN Fault ELSE UNCHANGED faults
    /\ job' = [job EXCEPT ![d] =
                  IF job[d].stalls < MaxStalls
                    THEN [job[d] EXCEPT !.state = "waiting", !.holder = NoWorker,
                                        !.stalls = @ + 1]
                    ELSE [job[d] EXCEPT !.state = "failed", !.holder = NoWorker]]
    /\ UNCHANGED <<fan, publishes, row, worker, posts, marking, spared>>

(* A worker process dies: its job stays active until the stalled check.    *)
WorkerDies(w) ==
    /\ worker[w] # Idle /\ Fault
    /\ worker' = [worker EXCEPT ![w] = Idle]
    /\ UNCHANGED <<fan, publishes, row, job, posts, marking, spared>>

-----------------------------------------------------------------------------

DeliveryStep(w) ==
    \/ MarkRetrying(w) \/ Post(w) \/ RecordSuccess(w) \/ RecordFailure(w)
    \/ Complete(w) \/ Fail(w)

Next ==
    \/ \E p \in Publishers :
          \/ \E S \in SUBSET Subs \ {{}} : Publish(p, S)
          \/ \E s \in Subs, d \in Deliveries : CreateRow(p, s, d)
          \/ Enqueue(p) \/ PublishFails(p)
    \/ \E w \in Workers :
          \/ \E d \in Deliveries : Take(w, d)
          \/ DeliveryStep(w)
          \/ RecordSuccessFails(w) \/ AttemptFails(w) \/ WorkerDies(w)
    \/ \E d \in Deliveries :
          MarkAbandoned(d) \/ MarkAbandonedFails(d) \/ Stall(d)

Spec == Init /\ [][Next]_vars

(* Workers run, promises settle, and the stalled check is a timer of every *)
(* worker that is up.                                                      *)
Fairness ==
    /\ \A w \in Workers : WF_vars(DeliveryStep(w))
    /\ \A d \in Deliveries :
          /\ WF_vars(\E w \in Workers : Take(w, d))
          /\ WF_vars(MarkAbandoned(d))
          /\ WF_vars(Stall(d) /\ UNCHANGED faults)

FairSpec == Spec /\ Fairness

-----------------------------------------------------------------------------
(* Properties                                                              *)

(* A row says SUCCESS only if the subscriber was sent it.                  *)
SuccessWasPosted ==
    \A d \in Deliveries : row[d].status = "SUCCESS" => posts[d] > 0

(* However workers overlap, a subscriber sees a row at most once for each  *)
(* attempt of the queue and each stall.                                    *)
PostsAreBounded ==
    \A d \in Deliveries : posts[d] <= MaxTries + job[d].stalls

(* A row that succeeded keeps saying so unless its job stalled, two        *)
(* workers being at it, or the success was recorded and its answer lost.   *)
OnlyFaultsUndoSuccess ==
    [][\A d \in Deliveries :
          row[d].status = "SUCCESS" /\ row'[d].status # "SUCCESS"
          => job[d].stalls > 0 \/ d \in spared]_vars

(* An event reaches a subscription in as many rows as it was published.    *)
RowsAreCountedByPublishes ==
    \A p \in Publishers, s \in Subs :
        Cardinality({d \in Deliveries : row[d].by = p /\ row[d].sub = s})
        <= publishes[p]

JobsSettled ==
    \A d \in Deliveries :
        job[d].state # "none" =>
            \/ row[d].status \in {"SUCCESS", "ABANDONED"}
            \/ d \in spared
            \/ job[d].state \in {"done", "failed"} /\ job[d].stalls > 0

(* Every job in the queue settles, with workers dying, slow or failing     *)
(* half way: the row becomes SUCCESS or ABANDONED, unless an error ate its *)
(* last update, or the job ended and had stalled: then the worker that had *)
(* lost it may have written last, or nothing marked the row.               *)
JobsSettle == []<>JobsSettled

(* A row tells what was done for it: it is one of its publish, was posted  *)
(* if it says so, and not oftener than the queue let it.                   *)
DeliveriesAreAccountedFor ==
    /\ TypeOK
    /\ SuccessWasPosted
    /\ PostsAreBounded
    /\ RowsAreCountedByPublishes
=============================================================================
