---------------------------- MODULE OutboxProofs ----------------------------
(***************************************************************************)
(* Proofs about Outbox for any number of rows, sweepers and operators and  *)
(* any batch size, attempt limit and bound.  One inductive invariant,      *)
(* IInv, carries every safety theorem and the refinement.                  *)
(***************************************************************************)
EXTENDS Outbox, TLAPS

(* The rows a transaction has finished with are rows it holds.             *)
SweepsAreConsistent ==
    \A s \in Sweepers :
        /\ done[s] \subseteq batch[s]
        /\ failed[s] \subseteq batch[s]
        /\ done[s] \cap failed[s] = {}

(* Every mark is on a row that was appended, and only published rows are   *)
(* deleted.                                                                *)
MarksAreOnRows ==
    /\ published \subseteq appended
    /\ dlqed \subseteq appended
    /\ pruned \subseteq published
    /\ \A s \in Sweepers : batch[s] \subseteq appended

(* A row is in the DLQ exactly when its attempts are used up.              *)
AttemptsDecideTheDlq ==
    \A r \in Rows : IF r \in dlqed THEN attempts[r] = MaxAttempts
                                   ELSE attempts[r] < MaxAttempts

(* A row that no transaction, committed or open, counts as published has   *)
(* had a job only through a fault.                                         *)
UnsettledJobsAreFaults ==
    \A r \in Rows :
        /\ dispatched[r] <= 1 + faults
        /\ r \notin published /\ (\A s \in Sweepers : r \notin done[s])
              => dispatched[r] <= faults

(* Published, or about to be: the job is on the queue.                     *)
DoneMeansDispatched ==
    /\ \A r \in published : dispatched[r] > 0
    /\ \A s \in Sweepers : \A r \in done[s] : dispatched[r] > 0

IInv ==
    /\ TypeOK
    /\ SweepsAreConsistent
    /\ MarksAreOnRows
    /\ SweepersNeverShareARow
    /\ AttemptsDecideTheDlq
    /\ UnsettledJobsAreFaults
    /\ DoneMeansDispatched

-----------------------------------------------------------------------------

LEMMA InitIInv == Init => IInv
<1>. SUFFICES ASSUME Init PROVE IInv
  OBVIOUS
<1>. USE LimitsArePositive DEF Init
<1>1. TypeOK /\ SweepsAreConsistent /\ MarksAreOnRows
  BY NoRowIsNoRow DEF TypeOK, SweepsAreConsistent, MarksAreOnRows
<1>2. SweepersNeverShareARow /\ AttemptsDecideTheDlq
  BY DEF SweepersNeverShareARow, AttemptsDecideTheDlq
<1>3. UnsettledJobsAreFaults /\ DoneMeansDispatched
  BY DEF UnsettledJobsAreFaults, DoneMeansDispatched
<1>. QED  BY <1>1, <1>2, <1>3 DEF IInv

LEMMA AppendKeepsIInv ==
  ASSUME IInv, NEW r \in Rows, AppendToOutbox(r)
  PROVE  IInv'
BY DEF IInv, TypeOK, SweepsAreConsistent, MarksAreOnRows,
   SweepersNeverShareARow, AttemptsDecideTheDlq, UnsettledJobsAreFaults,
   DoneMeansDispatched, AppendToOutbox, sweepVars

LEMMA PruneKeepsIInv ==
  ASSUME IInv, NEW r \in Rows, PruneOutbox(r)
  PROVE  IInv'
BY DEF IInv, TypeOK, SweepsAreConsistent, MarksAreOnRows,
   SweepersNeverShareARow, AttemptsDecideTheDlq, UnsettledJobsAreFaults,
   DoneMeansDispatched, PruneOutbox, sweepVars

LEMMA ClaimKeepsIInv ==
  ASSUME IInv, NEW s \in Sweepers, Claim(s)
  PROVE  IInv'
<1>. USE DEF IInv, tableVars
<1>1. PICK B \in SUBSET Claimable : batch' = [batch EXCEPT ![s] = B]
  BY DEF Claim
<1>2. B \subseteq Rows /\ B \subseteq appended
      /\ B \cap (published \cup dlqed \cup pruned) = {}
      /\ \A t \in Sweepers : B \cap batch[t] = {}
  BY <1>1 DEF Claimable, Locked, TypeOK
<1>3. /\ batch'[s] = B
      /\ \A t \in Sweepers \ {s} : batch'[t] = batch[t]
  BY <1>1 DEF TypeOK
<1>4. done[s] = {} /\ failed[s] = {}
  BY DEF Claim, SweepsAreConsistent
<1>5. TypeOK'
  BY <1>1, <1>2 DEF TypeOK, Claim
<1>6. SweepsAreConsistent' /\ MarksAreOnRows'
  BY <1>2, <1>3, <1>4 DEF SweepsAreConsistent, MarksAreOnRows, Claim
<1>7. SweepersNeverShareARow'
  BY <1>2, <1>3 DEF SweepersNeverShareARow, Claim
<1>8. AttemptsDecideTheDlq' /\ UnsettledJobsAreFaults' /\ DoneMeansDispatched'
  BY DEF AttemptsDecideTheDlq, UnsettledJobsAreFaults, DoneMeansDispatched,
     Claim
<1>. QED  BY <1>5, <1>6, <1>7, <1>8

LEMMA DispatchOkKeepsIInv ==
  ASSUME IInv, NEW s \in Sweepers, NEW r \in Rows, DispatchOk(s, r)
  PROVE  IInv'
<1>. USE DEF IInv, tableVars
<1>1. r \in batch[s] /\ r \notin done[s] /\ r \notin failed[s]
  BY DEF DispatchOk, IsNext, Untried
<1>2. /\ done'[s] = done[s] \cup {r}
      /\ \A t \in Sweepers \ {s} : done'[t] = done[t]
      /\ UNCHANGED <<batch, failed, published, dlqed, pruned, appended,
                     attempts, faults, replays, replaying>>
  BY DEF DispatchOk, TypeOK
<1>3. /\ dispatched'[r] = dispatched[r] + 1
      /\ \A q \in Rows \ {r} : dispatched'[q] = dispatched[q]
      /\ dispatched[r] \in Nat
  BY DEF DispatchOk, TypeOK
<1>4. dispatched[r] <= faults
  <2>1. r \notin published
    BY <1>1 DEF SweepersNeverShareARow
  <2>2. \A t \in Sweepers : r \notin done[t]
    BY <1>1 DEF SweepersNeverShareARow, SweepsAreConsistent
  <2>. QED  BY <2>1, <2>2 DEF UnsettledJobsAreFaults
<1>5. TypeOK'
  BY <1>2 DEF TypeOK, DispatchOk
<1>6. SweepsAreConsistent' /\ MarksAreOnRows'
  BY <1>1, <1>2 DEF SweepsAreConsistent, MarksAreOnRows
<1>7. SweepersNeverShareARow' /\ AttemptsDecideTheDlq'
  BY <1>2 DEF SweepersNeverShareARow, AttemptsDecideTheDlq
<1>8. UnsettledJobsAreFaults'
  BY <1>2, <1>3, <1>4 DEF UnsettledJobsAreFaults, TypeOK
<1>9. DoneMeansDispatched'
  BY <1>2, <1>3, <1>5 DEF DoneMeansDispatched, TypeOK
<1>. QED  BY <1>5, <1>6, <1>7, <1>8, <1>9

LEMMA DispatchFailsKeepsIInv ==
  ASSUME IInv, NEW s \in Sweepers, NEW r \in Rows, DispatchFails(s, r)
  PROVE  IInv'
<1>. USE DEF IInv, tableVars
<1>1. r \in batch[s] /\ r \notin done[s] /\ r \notin failed[s]
  BY DEF DispatchFails, IsNext, Untried
<1>2. /\ failed'[s] = failed[s] \cup {r}
      /\ \A t \in Sweepers \ {s} : failed'[t] = failed[t]
      /\ UNCHANGED <<batch, done, published, dlqed, pruned, appended,
                     attempts, faults, replays, replaying, dispatched>>
  BY DEF DispatchFails, TypeOK
<1>3. TypeOK'
  BY <1>2 DEF TypeOK, DispatchFails
<1>4. SweepsAreConsistent' /\ MarksAreOnRows'
  BY <1>1, <1>2 DEF SweepsAreConsistent, MarksAreOnRows
<1>5. SweepersNeverShareARow' /\ AttemptsDecideTheDlq'
  BY <1>2 DEF SweepersNeverShareARow, AttemptsDecideTheDlq
<1>6. UnsettledJobsAreFaults' /\ DoneMeansDispatched'
  BY <1>2 DEF UnsettledJobsAreFaults, DoneMeansDispatched
<1>. QED  BY <1>3, <1>4, <1>5, <1>6

LEMMA DispatchUnacknowledgedKeepsIInv ==
  ASSUME IInv, NEW s \in Sweepers, NEW r \in Rows, DispatchUnacknowledged(s, r)
  PROVE  IInv'
<1>. USE DEF IInv, tableVars
<1>1. r \in batch[s] /\ r \notin done[s] /\ r \notin failed[s]
  BY DEF DispatchUnacknowledged, IsNext, Untried
<1>2. /\ failed'[s] = failed[s] \cup {r}
      /\ \A t \in Sweepers \ {s} : failed'[t] = failed[t]
      /\ UNCHANGED <<batch, done, published, dlqed, pruned, appended,
                     attempts, replays, replaying>>
  BY DEF DispatchUnacknowledged, TypeOK
<1>3. /\ dispatched'[r] = dispatched[r] + 1
      /\ \A q \in Rows \ {r} : dispatched'[q] = dispatched[q]
      /\ faults' = faults + 1
  BY DEF DispatchUnacknowledged, TypeOK
<1>4. dispatched[r] <= faults
  <2>1. r \notin published
    BY <1>1 DEF SweepersNeverShareARow
  <2>2. \A t \in Sweepers : r \notin done[t]
    BY <1>1 DEF SweepersNeverShareARow, SweepsAreConsistent
  <2>. QED  BY <2>1, <2>2 DEF UnsettledJobsAreFaults
<1>5. TypeOK'
  <2>1. faults' \in 0 .. MaxFaults
    BY <1>3, LimitsArePositive DEF TypeOK, DispatchUnacknowledged
  <2>. QED  BY <1>2, <2>1 DEF TypeOK, DispatchUnacknowledged
<1>6. SweepsAreConsistent' /\ MarksAreOnRows'
  BY <1>1, <1>2 DEF SweepsAreConsistent, MarksAreOnRows
<1>7. SweepersNeverShareARow' /\ AttemptsDecideTheDlq'
  BY <1>2 DEF SweepersNeverShareARow, AttemptsDecideTheDlq
<1>8. UnsettledJobsAreFaults'
  BY <1>2, <1>3, <1>4, LimitsArePositive DEF UnsettledJobsAreFaults, TypeOK
<1>9. DoneMeansDispatched'
  BY <1>2, <1>3, <1>5 DEF DoneMeansDispatched, TypeOK
<1>. QED  BY <1>5, <1>6, <1>7, <1>8, <1>9

LEMMA CommitKeepsIInv ==
  ASSUME IInv, NEW s \in Sweepers, Commit(s)
  PROVE  IInv'
<1>. USE DEF IInv
<1>1. /\ batch'[s] = {} /\ done'[s] = {} /\ failed'[s] = {}
      /\ \A t \in Sweepers \ {s} : /\ batch'[t] = batch[t]
                                   /\ done'[t] = done[t]
                                   /\ failed'[t] = failed[t]
  BY DEF Commit, EndSweep, TypeOK
<1>2. /\ published' = published \cup done[s]
      /\ dlqed' = dlqed \cup Exhausted(s)
      /\ UNCHANGED <<appended, pruned, replaying, dispatched, faults, replays>>
  BY DEF Commit
<1>3. /\ \A r \in failed[s] : /\ r \in batch[s]
                              /\ r \notin dlqed
                              /\ attempts'[r] = attempts[r] + 1
      /\ \A r \in Rows \ failed[s] : attempts'[r] = attempts[r]
  BY DEF Commit, SweepsAreConsistent, SweepersNeverShareARow, TypeOK
<1>4. \A r \in Rows : attempts[r] \in Nat /\ dispatched[r] \in Nat
  BY LimitsArePositive DEF TypeOK
<1>5. AttemptsDecideTheDlq'
  BY <1>2, <1>3, <1>4, LimitsArePositive
  DEF AttemptsDecideTheDlq, Exhausted, TypeOK
<1>6. TypeOK'
  <2>1. /\ batch' \in [Sweepers -> SUBSET Rows]
        /\ done' \in [Sweepers -> SUBSET Rows]
        /\ failed' \in [Sweepers -> SUBSET Rows]
    BY DEF Commit, EndSweep, TypeOK
  <2>2. attempts' \in [Rows -> 0 .. MaxAttempts]
    <3>1. attempts' = [r \in Rows |-> attempts'[r]]
      BY DEF Commit
    <3>2. \A r \in Rows : attempts'[r] \in Nat
      BY <1>3, <1>4
    <3>3. \A r \in Rows : attempts'[r] <= MaxAttempts
      BY <1>5, <3>2, LimitsArePositive DEF AttemptsDecideTheDlq
    <3>. QED  BY <3>1, <3>2, <3>3, LimitsArePositive
  <2>3. published' \subseteq Rows /\ dlqed' \subseteq Rows
    BY <1>2 DEF Exhausted, TypeOK
  <2>. QED  BY <1>2, <2>1, <2>2, <2>3 DEF TypeOK
<1>7. SweepsAreConsistent'
  BY <1>1 DEF SweepsAreConsistent
<1>8. MarksAreOnRows'
  BY <1>1, <1>2 DEF MarksAreOnRows, SweepsAreConsistent, Exhausted
<1>9. SweepersNeverShareARow'
  BY <1>1, <1>2 DEF SweepersNeverShareARow, SweepsAreConsistent, Exhausted
<1>10. UnsettledJobsAreFaults'
  BY <1>1, <1>2 DEF UnsettledJobsAreFaults
<1>11. DoneMeansDispatched'
  BY <1>1, <1>2 DEF DoneMeansDispatched
<1>. QED  BY <1>5, <1>6, <1>7, <1>8, <1>9, <1>10, <1>11

LEMMA RollbackKeepsIInv ==
  ASSUME IInv, NEW s \in Sweepers, Rollback(s)
  PROVE  IInv'
<1>. USE DEF IInv, tableVars
<1>1. /\ batch'[s] = {} /\ done'[s] = {} /\ failed'[s] = {}
      /\ \A t \in Sweepers \ {s} : /\ batch'[t] = batch[t]
                                   /\ done'[t] = done[t]
                                   /\ failed'[t] = failed[t]
  BY DEF Rollback, EndSweep, TypeOK
<1>2. /\ UNCHANGED <<appended, pruned, published, dlqed, attempts, replaying,
                     dispatched, replays>>
      /\ faults' = faults + 1
  BY DEF Rollback
<1>3. TypeOK'
  <2>1. /\ batch' \in [Sweepers -> SUBSET Rows]
        /\ done' \in [Sweepers -> SUBSET Rows]
        /\ failed' \in [Sweepers -> SUBSET Rows]
    BY DEF Rollback, EndSweep, TypeOK
  <2>2. faults' \in 0 .. MaxFaults
    BY <1>2, LimitsArePositive DEF Rollback, TypeOK
  <2>. QED  BY <1>2, <2>1, <2>2 DEF TypeOK
<1>4. SweepsAreConsistent' /\ MarksAreOnRows' /\ SweepersNeverShareARow'
  BY <1>1, <1>2 DEF SweepsAreConsistent, MarksAreOnRows, SweepersNeverShareARow
<1>5. AttemptsDecideTheDlq'
  BY <1>2 DEF AttemptsDecideTheDlq
<1>6. UnsettledJobsAreFaults'
  <2>1. faults \in Nat /\ \A r \in Rows : dispatched[r] \in Nat
    BY LimitsArePositive DEF TypeOK
  <2>. QED  BY <1>2, <2>1 DEF UnsettledJobsAreFaults
<1>7. DoneMeansDispatched'
  BY <1>1, <1>2 DEF DoneMeansDispatched
<1>. QED  BY <1>3, <1>4, <1>5, <1>6, <1>7

LEMMA ReplayFindKeepsIInv ==
  ASSUME IInv, NEW o \in Operators, NEW r \in Rows, ReplayFind(o, r)
  PROVE  IInv'
<1>. USE DEF IInv, tableVars, sweepVars
<1>1. TypeOK'
  BY LimitsArePositive DEF ReplayFind, TypeOK
<1>2. SweepsAreConsistent' /\ MarksAreOnRows' /\ SweepersNeverShareARow'
  BY DEF ReplayFind, SweepsAreConsistent, MarksAreOnRows,
     SweepersNeverShareARow
<1>3. AttemptsDecideTheDlq' /\ UnsettledJobsAreFaults' /\ DoneMeansDispatched'
  BY DEF ReplayFind, AttemptsDecideTheDlq, UnsettledJobsAreFaults,
     DoneMeansDispatched
<1>. QED  BY <1>1, <1>2, <1>3

LEMMA ReplayResetKeepsIInv ==
  ASSUME IInv, NEW o \in Operators, ReplayReset(o)
  PROVE  IInv'
<1>. USE DEF IInv, sweepVars
<1>1. UNCHANGED <<appended, pruned, published, batch, done, failed,
                  dispatched, faults, replays>>
  BY DEF ReplayReset
<1>2. PICK r \in Rows :
         \/ UNCHANGED <<dlqed, attempts>>
         \/ /\ dlqed' = dlqed \ {r}
            /\ attempts' = [attempts EXCEPT ![r] = 0]
  BY DEF ReplayReset
<1>3. /\ dlqed' \subseteq dlqed
      /\ \A q \in Rows : \/ attempts'[q] = 0 /\ q \notin dlqed'
                         \/ attempts'[q] = attempts[q] /\ (q \in dlqed <=> q \in dlqed')
  BY <1>2 DEF TypeOK
<1>4. TypeOK'
  <2>1. attempts' \in [Rows -> 0 .. MaxAttempts]
    BY <1>2, LimitsArePositive DEF TypeOK
  <2>2. replaying' \in [Operators -> Rows \cup {NoRow}]
    BY DEF ReplayReset, TypeOK
  <2>. QED  BY <1>1, <1>3, <2>1, <2>2 DEF TypeOK
<1>5. SweepsAreConsistent' /\ MarksAreOnRows' /\ SweepersNeverShareARow'
  BY <1>1, <1>3 DEF SweepsAreConsistent, MarksAreOnRows, SweepersNeverShareARow
<1>6. AttemptsDecideTheDlq'
  BY <1>3, LimitsArePositive DEF AttemptsDecideTheDlq
<1>7. UnsettledJobsAreFaults' /\ DoneMeansDispatched'
  BY <1>1 DEF UnsettledJobsAreFaults, DoneMeansDispatched
<1>. QED  BY <1>4, <1>5, <1>6, <1>7

LEMMA NextKeepsIInv == IInv /\ [Next]_vars => IInv'
<1>. SUFFICES ASSUME IInv, [Next]_vars PROVE IInv'
  OBVIOUS
<1>1. CASE \E r \in Rows : AppendToOutbox(r) \/ PruneOutbox(r)
  BY <1>1, AppendKeepsIInv, PruneKeepsIInv
<1>2. CASE \E s \in Sweepers : SweeperStep(s) \/ Rollback(s)
  BY <1>2, ClaimKeepsIInv, DispatchOkKeepsIInv, DispatchFailsKeepsIInv,
     DispatchUnacknowledgedKeepsIInv, CommitKeepsIInv, RollbackKeepsIInv
  DEF SweeperStep, Dispatch
<1>3. CASE \E o \in Operators : ReplayReset(o) \/ \E r \in Rows : ReplayFind(o, r)
  BY <1>3, ReplayResetKeepsIInv, ReplayFindKeepsIInv
<1>4. CASE UNCHANGED vars
  BY <1>4 DEF vars, tableVars, sweepVars, IInv, TypeOK, SweepsAreConsistent,
     MarksAreOnRows, SweepersNeverShareARow, AttemptsDecideTheDlq,
     UnsettledJobsAreFaults, DoneMeansDispatched
<1>. QED  BY <1>1, <1>2, <1>3, <1>4 DEF Next

(* The inductive invariant holds in every reachable state.                 *)
THEOREM OutboxInvariant == Spec => []IInv
BY InitIInv, NextKeepsIInv, PTL DEF Spec

-----------------------------------------------------------------------------
(* The theorems a reader should know of                                    *)

(* Every column and every open transaction keeps its type.                 *)
THEOREM OutboxTypeCorrect == Spec => []TypeOK
BY OutboxInvariant, PTL DEF IInv

(* However many replicas sweep, no two hold the same row, and a row that   *)
(* is held is unpublished, outside the DLQ and not deleted.                *)
THEOREM NoSharedRow == Spec => []SweepersNeverShareARow
BY OutboxInvariant, PTL DEF IInv

(* A job is duplicated at most once per rolled-back sweep or lost          *)
(* acknowledgement, for any number of sweepers, failures and DLQ replays.  *)
THEOREM DuplicatesAreFaults == Spec => []DuplicatesNeedFaults
<1>1. IInv => DuplicatesNeedFaults
  BY DEF IInv, UnsettledJobsAreFaults, DuplicatesNeedFaults
<1>. QED  BY <1>1, OutboxInvariant, PTL

(* A row is marked published or deleted only after its job was queued, and *)
(* parked only after MaxAttempts failures.                                 *)
THEOREM NoRowDropped == Spec => []NothingIsDropped
<1>1. IInv => NothingIsDropped
  BY DEF IInv, TypeOK, MarksAreOnRows, DoneMeansDispatched,
     AttemptsDecideTheDlq, NothingIsDropped
<1>. QED  BY <1>1, OutboxInvariant, PTL

(* A dispatch takes a row its sweeper holds, hence an unpublished one.     *)
LEMMA DispatchTakesUnpublished ==
  ASSUME IInv, NEW s \in Sweepers, NEW q \in Rows, Dispatch(s, q)
  PROVE  /\ q \in appended \ (published \cup dlqed)
         /\ \A r \in Rows \ {q} : dispatched'[r] = dispatched[r]
         /\ UNCHANGED tableVars
BY DEF IInv, TypeOK, Dispatch, DispatchOk, DispatchFails,
   DispatchUnacknowledged, IsNext, Untried, SweepersNeverShareARow,
   MarksAreOnRows

(* A published row stays published and is never dispatched again.          *)
THEOREM PublicationIsFinal == Spec => PublishedIsFinal
<1>1. ASSUME IInv, [Next]_vars, NEW r \in published
      PROVE  r \in published' /\ dispatched'[r] = dispatched[r]
  <2>0. r \in Rows
    BY <1>1 DEF IInv, TypeOK
  <2>1. CASE \E s \in Sweepers, q \in Rows : Dispatch(s, q)
    BY <1>1, <2>0, <2>1, DispatchTakesUnpublished DEF tableVars
  <2>2. CASE ~ \E s \in Sweepers, q \in Rows : Dispatch(s, q)
    BY <1>1, <2>2 DEF Next, SweeperStep, AppendToOutbox, PruneOutbox, Claim,
       Commit, Rollback, ReplayReset, ReplayFind, vars, tableVars, sweepVars
  <2>. QED  BY <2>1, <2>2
<1>2. IInv /\ [Next]_vars =>
         [\A r \in published : /\ r \in published'
                               /\ dispatched'[r] = dispatched[r]]_vars
  BY <1>1
<1>. QED  BY <1>2, OutboxInvariant, PTL DEF Spec, PublishedIsFinal

-----------------------------------------------------------------------------
(* Refinement: the table and its sweepers implement the delivery channel   *)

LEMMA InitImplementsChannel == Init => Channel!ChannelInit
BY DEF Init, Channel!ChannelInit

LEMMA DispatchImplementsChannel ==
  ASSUME IInv, NEW s \in Sweepers, NEW r \in Rows, Dispatch(s, r)
  PROVE  Channel!Deliver(r) \/ UNCHANGED Channel!channelVars
<1>1. r \in Channel!Owed
  BY DispatchTakesUnpublished DEF Channel!Owed
<1>2. CASE dispatched' = [dispatched EXCEPT ![r] = @ + 1]
  BY <1>1, <1>2, DispatchTakesUnpublished DEF Channel!Deliver, tableVars
<1>3. CASE dispatched' = dispatched
  BY <1>3, DispatchTakesUnpublished DEF Channel!channelVars, tableVars
<1>. QED
  BY <1>2, <1>3 DEF Dispatch, DispatchOk, DispatchFails, DispatchUnacknowledged

LEMMA CommitImplementsChannel ==
  ASSUME IInv, NEW s \in Sweepers, Commit(s)
  PROVE  Channel!Retire(done[s], Exhausted(s))
BY DEF IInv, TypeOK, SweepsAreConsistent, MarksAreOnRows,
   SweepersNeverShareARow, DoneMeansDispatched, Commit, Exhausted,
   Channel!Retire, Channel!Owed

LEMMA ReplayImplementsChannel ==
  ASSUME IInv, NEW o \in Operators, ReplayReset(o)
  PROVE  (\E r \in Rows : Channel!Unpark(r)) \/ UNCHANGED Channel!channelVars
BY DEF ReplayReset, Channel!Unpark, Channel!channelVars

LEMMA NextImplementsChannel ==
  IInv /\ [Next]_vars => [Channel!ChannelNext]_(Channel!channelVars)
<1>. SUFFICES ASSUME IInv, [Next]_vars
              PROVE  Channel!ChannelNext \/ UNCHANGED Channel!channelVars
  OBVIOUS
<1>1. ASSUME NEW r \in Rows, AppendToOutbox(r)
      PROVE  Channel!Send(r)
  BY <1>1 DEF AppendToOutbox, Channel!Send
<1>2. ASSUME NEW s \in Sweepers, Commit(s)
      PROVE  Channel!ChannelNext
  <2>1. done[s] \in SUBSET Rows /\ Exhausted(s) \in SUBSET Rows
    BY DEF IInv, TypeOK, Exhausted
  <2>. QED  BY <1>2, <2>1, CommitImplementsChannel DEF Channel!ChannelNext
<1>3. ASSUME NEW s \in Sweepers, Claim(s) \/ Rollback(s)
      PROVE  UNCHANGED Channel!channelVars
  BY <1>3 DEF Claim, Rollback, tableVars, Channel!channelVars
<1>4. ASSUME NEW r \in Rows, PruneOutbox(r)
      PROVE  UNCHANGED Channel!channelVars
  BY <1>4 DEF PruneOutbox, Channel!channelVars
<1>5. ASSUME NEW o \in Operators, NEW r \in Rows, ReplayFind(o, r)
      PROVE  UNCHANGED Channel!channelVars
  BY <1>5 DEF ReplayFind, tableVars, Channel!channelVars
<1>6. CASE UNCHANGED vars
  BY <1>6 DEF vars, tableVars, Channel!channelVars
<1>. QED
  BY <1>1, <1>2, <1>3, <1>4, <1>5, <1>6, DispatchImplementsChannel,
     ReplayImplementsChannel
  DEF Next, SweeperStep, Channel!ChannelNext

(* Every behaviour of the outbox is a behaviour of the channel: each step  *)
(* sends, delivers, retires or unparks a message, or is invisible.         *)
THEOREM OutboxImplementsChannel == Spec => ImplementsChannel
BY OutboxInvariant, InitImplementsChannel, NextImplementsChannel, PTL
DEF Spec, ImplementsChannel, Channel!ChannelSpec
=============================================================================
