------------------------------- MODULE Outbox -------------------------------
(***************************************************************************)
(* The table outbox_events, the sweeper replicas of outbox.worker.ts, the  *)
(* operator's DLQ replay and the retention sweep.                          *)
(*                                                                         *)
(* A row is named by the rank of its created_at, so r < q says that r was  *)
(* created before q; rows may become visible in any order, because         *)
(* created_at is fixed when the producing transaction starts and the row   *)
(* appears when it commits.                                                *)
(*                                                                         *)
(* A sweep is one Postgres transaction: the claim locks the batch, the     *)
(* updates of each row stay private to the transaction (done, failed)      *)
(* until the commit, but the BullMQ job that dispatch adds is outside the  *)
(* transaction and survives a rollback.                                    *)
(***************************************************************************)
EXTENDS Naturals, FiniteSets

CONSTANTS
    Rows,               \* outbox_events that may be written, by created_at
    Sweepers,           \* replicas of the sweeper process
    Operators,          \* platform operators using the DLQ replay route
    NoRow,              \* "no row"
    BatchSize,          \* OUTBOX_BATCH_SIZE
    MaxAttempts,        \* OUTBOX_MAX_ATTEMPTS
    MaxFaults,          \* bound: rolled-back sweeps and lost acknowledgements
    MaxReplays          \* bound: DLQ replays

ASSUME RowsAreRanks == Rows \subseteq Nat
ASSUME NoRowIsNoRow == NoRow \notin Rows
ASSUME LimitsArePositive ==
    /\ BatchSize \in Nat \ {0}
    /\ MaxAttempts \in Nat \ {0}
    /\ MaxFaults \in Nat
    /\ MaxReplays \in Nat

VARIABLES
    appended,           \* rows a producer has committed, deleted ones included
    pruned,             \* rows the retention sweep deleted
    published,          \* rows with published_at set
    dlqed,              \* rows with dlqed_at set
    attempts,           \* attempt_count
    batch,              \* per sweeper: the rows its transaction has locked
    done,               \* per sweeper: published in the open transaction
    failed,             \* per sweeper: failed in the open transaction
    replaying,          \* per operator: the row found in the DLQ, not yet reset
    dispatched,         \* jobs that dispatch has put on the row's queue
    faults, replays     \* counters behind MaxFaults and MaxReplays

tableVars == <<appended, pruned, published, dlqed, attempts>>
sweepVars == <<batch, done, failed>>
vars == <<tableVars, sweepVars, replaying, dispatched, faults, replays>>

TypeOK ==
    /\ appended \subseteq Rows
    /\ pruned \subseteq Rows
    /\ published \subseteq Rows
    /\ dlqed \subseteq Rows
    /\ attempts \in [Rows -> 0 .. MaxAttempts]
    /\ batch \in [Sweepers -> SUBSET Rows]
    /\ done \in [Sweepers -> SUBSET Rows]
    /\ failed \in [Sweepers -> SUBSET Rows]
    /\ replaying \in [Operators -> Rows \cup {NoRow}]
    /\ dispatched \in [Rows -> Nat]
    /\ faults \in 0 .. MaxFaults
    /\ replays \in 0 .. MaxReplays

Init ==
    /\ appended = {} /\ pruned = {} /\ published = {} /\ dlqed = {}
    /\ attempts = [r \in Rows |-> 0]
    /\ batch = [s \in Sweepers |-> {}]
    /\ done = [s \in Sweepers |-> {}]
    /\ failed = [s \in Sweepers |-> {}]
    /\ replaying = [o \in Operators |-> NoRow]
    /\ dispatched = [r \in Rows |-> 0]
    /\ faults = 0
    /\ replays = 0

-----------------------------------------------------------------------------
(* Producers                                                               *)

(* appendToOutbox: the row exists once the producer's transaction commits. *)
AppendToOutbox(r) ==
    /\ r \notin appended
    /\ appended' = appended \cup {r}
    /\ UNCHANGED <<pruned, published, dlqed, attempts, sweepVars, replaying,
                   dispatched, faults, replays>>

-----------------------------------------------------------------------------
(* Sweepers                                                                *)

Locked == UNION {batch[s] : s \in Sweepers}

(* Defects of the claim: no row locks, no published_at test, no dlqed_at    *)
(* test.                                                                   *)
ClaimableUnlocked == (appended \ pruned) \ (published \cup dlqed)
ClaimableIfPublished == ((appended \ pruned) \ dlqed) \ Locked
ClaimableIfDlqed == ((appended \ pruned) \ published) \ Locked

(* The WHERE clause of the claim, without the rows SKIP LOCKED passes over.*)
Claimable == ((appended \ pruned) \ (published \cup dlqed)) \ Locked

(* ORDER BY created_at ASC LIMIT batch_size                                *)
OldestOf(S, B) ==
    /\ B \subseteq S
    /\ \A r \in B, q \in S \ B : r < q
    /\ \/ B = S /\ Cardinality(S) <= BatchSize
       \/ Cardinality(B) = BatchSize

Claim(s) ==
    /\ batch[s] = {}
    /\ Claimable # {}
    /\ \E B \in SUBSET Claimable :
          /\ OldestOf(Claimable, B)
          /\ batch' = [batch EXCEPT ![s] = B]
    /\ UNCHANGED <<tableVars, done, failed, replaying, dispatched, faults,
                   replays>>

Untried(s) == batch[s] \ (done[s] \cup failed[s])

(* The loop takes the claimed rows in the order of the claim.              *)
IsNext(s, r) ==
    /\ r \in Untried(s)
    /\ \A q \in Untried(s) : r <= q

(* dispatch succeeds and publishedAt is set inside the transaction.        *)
DispatchOk(s, r) ==
    /\ IsNext(s, r)
    /\ dispatched' = [dispatched EXCEPT ![r] = @ + 1]
    /\ done' = [done EXCEPT ![s] = @ \cup {r}]
    /\ UNCHANGED <<tableVars, batch, failed, replaying, faults, replays>>

(* Defect: the catch block marks the row published.                        *)
DispatchFailsMarked(s, r) ==
    /\ IsNext(s, r)
    /\ done' = [done EXCEPT ![s] = @ \cup {r}]
    /\ UNCHANGED <<tableVars, batch, failed, replaying, dispatched, faults,
                   replays>>

(* dispatch throws and nothing reached the queue: the catch block bumps    *)
(* attempt_count inside the transaction.                                   *)
DispatchFails(s, r) ==
    /\ IsNext(s, r)
    /\ failed' = [failed EXCEPT ![s] = @ \cup {r}]
    /\ UNCHANGED <<tableVars, batch, done, replaying, dispatched, faults,
                   replays>>

(* Redis took the job but the acknowledgement was lost: for the sweeper    *)
(* this is a failure like any other.                                       *)
DispatchUnacknowledged(s, r) ==
    /\ faults < MaxFaults
    /\ IsNext(s, r)
    /\ dispatched' = [dispatched EXCEPT ![r] = @ + 1]
    /\ failed' = [failed EXCEPT ![s] = @ \cup {r}]
    /\ faults' = faults + 1
    /\ UNCHANGED <<tableVars, batch, done, replaying, replays>>

(* Defect: the attempt under way is not counted.                           *)
ExhaustedLate(s) == {r \in failed[s] : attempts[r] >= MaxAttempts}

(* Rows whose next attempt is the last one.                                *)
Exhausted(s) == {r \in failed[s] : attempts[r] + 1 >= MaxAttempts}

EndSweep(s) ==
    /\ batch' = [batch EXCEPT ![s] = {}]
    /\ done' = [done EXCEPT ![s] = {}]
    /\ failed' = [failed EXCEPT ![s] = {}]

(* Defects: one failed row keeps the whole batch unpublished; a failure    *)
(* does not count as an attempt.                                           *)
CommitAllOrNothing(s) ==
    /\ batch[s] # {}
    /\ Untried(s) = {}
    /\ published' = IF failed[s] = {} THEN published \cup done[s] ELSE published
    /\ attempts' = [r \in Rows |->
                       IF r \in failed[s] THEN attempts[r] + 1 ELSE attempts[r]]
    /\ dlqed' = dlqed \cup Exhausted(s)
    /\ EndSweep(s)
    /\ UNCHANGED <<appended, pruned, replaying, dispatched, faults, replays>>

CommitUncounted(s) ==
    /\ batch[s] # {}
    /\ Untried(s) = {}
    /\ published' = published \cup done[s]
    /\ EndSweep(s)
    /\ UNCHANGED <<appended, pruned, dlqed, attempts, replaying, dispatched,
                   faults, replays>>

(* Every claimed row was tried: the updates become visible together.       *)
Commit(s) ==
    /\ batch[s] # {}
    /\ Untried(s) = {}
    /\ published' = published \cup done[s]
    /\ attempts' = [r \in Rows |->
                       IF r \in failed[s] THEN attempts[r] + 1 ELSE attempts[r]]
    /\ dlqed' = dlqed \cup Exhausted(s)
    /\ EndSweep(s)
    /\ UNCHANGED <<appended, pruned, replaying, dispatched, faults, replays>>

(* The process dies, the transaction times out or its commit fails: the    *)
(* updates are gone, the jobs are not.                                     *)
Rollback(s) ==
    /\ faults < MaxFaults
    /\ batch[s] # {}
    /\ EndSweep(s)
    /\ faults' = faults + 1
    /\ UNCHANGED <<tableVars, replaying, dispatched, replays>>

-----------------------------------------------------------------------------
(* Operators and retention                                                 *)

(* POST /platform/outbox/dlq/:id/replay reads the row and tests dlqedAt... *)
ReplayFind(o, r) ==
    /\ replaying[o] = NoRow
    /\ replays < MaxReplays
    /\ r \in dlqed \ pruned
    /\ replaying' = [replaying EXCEPT ![o] = r]
    /\ replays' = replays + 1
    /\ UNCHANGED <<tableVars, sweepVars, dispatched, faults>>

(* ...and resets it in a later statement, with no condition on what the    *)
(* row has become.  The update waits for a sweeper that holds the row; on  *)
(* a row that retention has deleted it matches nothing.                    *)
ReplayReset(o) ==
    LET r == replaying[o] IN
    /\ r \in Rows
    /\ r \notin Locked
    /\ replaying' = [replaying EXCEPT ![o] = NoRow]
    /\ IF r \in pruned
         THEN UNCHANGED <<dlqed, attempts>>
         ELSE /\ dlqed' = dlqed \ {r}
              /\ attempts' = [attempts EXCEPT ![r] = 0]
    /\ UNCHANGED <<appended, pruned, published, sweepVars, dispatched, faults,
                   replays>>

(* retention.worker.ts deletes published rows past their age, never rows   *)
(* of the DLQ.                                                             *)
PruneOutbox(r) ==
    /\ r \in published \ (dlqed \cup pruned)
    /\ pruned' = pruned \cup {r}
    /\ UNCHANGED <<appended, published, dlqed, attempts, sweepVars, replaying,
                   dispatched, faults, replays>>

-----------------------------------------------------------------------------

Dispatch(s, r) ==
    \/ DispatchOk(s, r)
    \/ DispatchFails(s, r)
    \/ DispatchUnacknowledged(s, r)

SweeperStep(s) ==
    \/ Claim(s)
    \/ \E r \in Rows : Dispatch(s, r)
    \/ Commit(s)

Next ==
    \/ \E r \in Rows : AppendToOutbox(r) \/ PruneOutbox(r)
    \/ \E s \in Sweepers : SweeperStep(s) \/ Rollback(s)
    \/ \E o \in Operators : ReplayReset(o) \/ \E r \in Rows : ReplayFind(o, r)

Spec == Init /\ [][Next]_vars

(* The main loop of a sweeper calls processOnce for as long as it runs,    *)
(* and a sweep that neither dies nor times out tries every row and         *)
(* commits.  Nothing is assumed of producers, operators or retention, nor  *)
(* of whether a dispatch succeeds.                                         *)
Fairness == \A s \in Sweepers : WF_vars(SweeperStep(s))

FairSpec == Spec /\ Fairness

-----------------------------------------------------------------------------
(* Properties                                                              *)

(* FOR UPDATE SKIP LOCKED inside one transaction: two replicas never work  *)
(* on the same row, and a row under way is still unpublished and outside   *)
(* the DLQ.                                                                *)
SweepersNeverShareARow ==
    \A s \in Sweepers :
        /\ batch[s] \cap (published \cup dlqed \cup pruned) = {}
        /\ \A t \in Sweepers \ {s} : batch[s] \cap batch[t] = {}

(* A row is put on its queue at most once more than there were rollbacks   *)
(* and lost acknowledgements: retries after failures, several replicas and *)
(* DLQ replays by themselves never duplicate a job.                        *)
DuplicatesNeedFaults == \A r \in Rows : dispatched[r] <= 1 + faults

(* A row leaves the sweep set only after its job reached the queue, or     *)
(* with all its attempts used up; retention deletes no row that was not    *)
(* delivered.                                                              *)
NothingIsDropped ==
    /\ \A r \in published \cup pruned : dispatched[r] > 0
    /\ \A r \in dlqed : attempts[r] = MaxAttempts

(* A committed published_at is final: no sweeper dispatches the row again, *)
(* whatever an operator replays meanwhile.                                 *)
PublishedIsFinal ==
    [][\A r \in published : /\ r \in published'
                            /\ dispatched'[r] = dispatched[r]]_vars

(* An appended row is eventually published or parked in the DLQ.           *)
EveryRowSettles ==
    \A r \in Rows : r \in appended ~> r \in published \cup dlqed

(* The table and its sweepers implement the delivery channel.              *)
Channel == INSTANCE DeliveryChannel
    WITH Msgs <- Rows, sent <- appended, delivered <- dispatched,
         settled <- published, parked <- dlqed

ImplementsChannel == Channel!ChannelSpec
=============================================================================
