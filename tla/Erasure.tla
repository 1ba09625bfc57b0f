-------------------------------- MODULE Erasure --------------------------------
(***************************************************************************)
(* Requests to be forgotten, the transaction that zeroes a person's        *)
(* records, and the worker that re-encrypts old records meanwhile.         *)
(*                                                                         *)
(* All records are one person's.  The status PROCESSING is written inside  *)
(* the transaction, so that nobody else ever sees it; what Postgres does   *)
(* with an update of a locked row is that it waits, so the zeroing and the *)
(* commit are one step here.                                               *)
(***************************************************************************)
EXTENDS Naturals, FiniteSets

CONSTANTS
    Requests,
    Applications,       \* 1, 2, ... in the order they are created
    Enrichments,        \* credit_enrichments, which HighSale's snapshots make
    Processors,         \* the lifecycle worker and requests of admins
    LifecycleWorker,
    NoRequest,
    ReencryptBatch,     \* BATCH_SIZE of the re-encryption worker
    MaxErasureFaults    \* bound: aborted transactions, failures, crashes

ASSUME ErasureOptions ==
    /\ IsFiniteSet(Requests)
    /\ IsFiniteSet(Applications) /\ IsFiniteSet(Enrichments)
    /\ Applications \subseteq Nat /\ Enrichments \cap Applications = {}
    /\ LifecycleWorker \in Processors /\ NoRequest \notin Requests
    /\ ReencryptBatch \in Nat \ {0} /\ MaxErasureFaults \in Nat

Records == Applications \cup Enrichments

VARIABLES
    request,            \* per request: its status
    counted,            \* per request: applicationsScrubbed and
                        \* creditEnrichmentsScrubbed
    asking,             \* submissions that have found no open request
    record,             \* per record: what its columns of personal data hold,
                        \* whether its lookup hash still is the person's, and
                        \* whether rawPayload holds the data in the clear
    processing,         \* per processor: its request, how far it is, and the
                        \* records its transaction has found
    held,               \* the re-encryption worker's batch of copied rows
    erasureFaults,
    racingSubmits,      \* history: two submissions were asking at once
    overlapped,         \* history: requests two processors had at once
    missed,             \* history: records that came after a scan
    rewritten           \* history: records written again after the zeroing

erasureVars == <<request, counted, asking, record, processing, held,
                 erasureFaults, racingSubmits, overlapped, missed, rewritten>>

Contents == {"none", "v1", "v2", "zero"}

ErasureTypeOK ==
    /\ request \in [Requests -> {"none", "PENDING", "PROCESSING", "COMPLETED",
                                 "FAILED"}]
    /\ counted \in [Requests -> 0 .. Cardinality(Records)]
    /\ asking \in 0 .. Cardinality(Requests)
    /\ record \in [Records -> [holds : Contents, hashed : BOOLEAN,
                            raw : BOOLEAN]]
    /\ processing \in [Processors ->
                          [pc : {"idle", "begin", "applications",
                                 "enrichments", "abort"},
                           of : Requests \cup {NoRequest},
                           found : SUBSET Records]]
    /\ held \subseteq Applications \X {"v1", "zero"}
    /\ erasureFaults \in 0 .. MaxErasureFaults
    /\ racingSubmits \in BOOLEAN
    /\ overlapped \subseteq Requests
    /\ missed \subseteq Records /\ rewritten \subseteq Records

Absent == [holds |-> "none", hashed |-> FALSE, raw |-> FALSE]
Unworked == [pc |-> "idle", of |-> NoRequest, found |-> {}]

(* The oldest applications may date from before the organizations' keys.   *)
ErasureInit ==
    /\ request = [q \in Requests |-> "none"]
    /\ counted = [q \in Requests |-> 0]
    /\ asking = 0
    /\ \E n \in Applications \cup {0} :
          record = [r \in Records |->
                       IF r \in Applications /\ r <= n
                       THEN [holds |-> "v1", hashed |-> TRUE, raw |-> FALSE]
                       ELSE Absent]
    /\ processing = [p \in Processors |-> Unworked]
    /\ held = {}
    /\ erasureFaults = 0
    /\ racingSubmits = FALSE
    /\ overlapped = {} /\ missed = {} /\ rewritten = {}

ErasureFault ==
    erasureFaults < MaxErasureFaults /\ erasureFaults' = erasureFaults + 1

-----------------------------------------------------------------------------
(* The records                                                             *)

(* A new application or snapshot, which is stored as it came besides; a    *)
(* webhook for one that exists leaves these columns alone.                 *)
RecordArrives(r) ==
    /\ record[r] = Absent
    /\ r \in Applications =>
          \A a \in Applications : a < r => record[a] # Absent
    /\ record' = [record EXCEPT ![r] = [holds |-> "v2", hashed |-> TRUE,
                                        raw |-> r \in Enrichments]]
    /\ missed' =
          IF \/ r \in Applications /\ \E p \in Processors :
                                         processing[p].pc = "applications"
             \/ \E p \in Processors : processing[p].pc = "enrichments"
             \/ \E q \in Requests : request[q] = "COMPLETED"
          THEN missed \cup {r} ELSE missed
    /\ UNCHANGED <<request, counted, asking, processing, held, erasureFaults,
                   racingSubmits, overlapped, rewritten>>

-----------------------------------------------------------------------------
(* submit                                                                  *)

(* Defect: open requests are not looked for.                               *)
AskAlways ==
    /\ asking < Cardinality({q \in Requests : request[q] = "none"})
    /\ asking' = asking + 1
    /\ racingSubmits' = (racingSubmits \/ asking > 0)
    /\ UNCHANGED <<request, counted, record, processing, held, erasureFaults,
                   overlapped, missed, rewritten>>

(* No request of the person is open.                                       *)
Ask ==
    /\ asking < Cardinality({q \in Requests : request[q] = "none"})
    /\ \A q \in Requests : request[q] \notin {"PENDING", "PROCESSING"}
    /\ asking' = asking + 1
    /\ racingSubmits' = (racingSubmits \/ asking > 0)
    /\ UNCHANGED <<request, counted, record, processing, held, erasureFaults,
                   overlapped, missed, rewritten>>

Submit(q) ==
    /\ asking > 0 /\ request[q] = "none"
    /\ asking' = asking - 1
    /\ request' = [request EXCEPT ![q] = "PENDING"]
    /\ UNCHANGED <<counted, record, processing, held, erasureFaults,
                   racingSubmits, overlapped, missed, rewritten>>

-----------------------------------------------------------------------------
(* processInner                                                            *)

TakeUp(p, q) ==
    /\ processing[p] = Unworked
    /\ processing' = [processing EXCEPT ![p] = [Unworked EXCEPT !.pc = "begin",
                                                                !.of = q]]
    /\ overlapped' = IF \E o \in Processors : processing[o].of = q
                     THEN overlapped \cup {q} ELSE overlapped
    /\ UNCHANGED <<request, counted, asking, record, held, erasureFaults,
                   racingSubmits, missed, rewritten>>

(* Defect: a completed request is processed again.                         *)
ProcessAgain(p, q) ==
    /\ request[q] \in {"PENDING", "PROCESSING", "COMPLETED"}
    /\ p = LifecycleWorker => request[q] = "PENDING"
    /\ TakeUp(p, q)

(* A completed request is answered, a failed one refused.  The lifecycle   *)
(* worker looks for pending ones only.                                     *)
Process(p, q) ==
    /\ request[q] \in {"PENDING", "PROCESSING"}
    /\ p = LifecycleWorker => request[q] = "PENDING"
    /\ TakeUp(p, q)

InTransaction(p) == processing[p].pc \in {"applications", "enrichments"}
RowFree(q) == \A o \in Processors : processing[o].of = q => ~InTransaction(o)
LiveApplications == {a \in Applications : record[a].hashed}
LiveEnrichments == {e \in Enrichments : record[e].hashed}

(* Defect: PROCESSING is committed before the transaction begins.          *)
ScanApplicationsVisibly(p) ==
    /\ processing[p].pc = "begin" /\ RowFree(processing[p].of)
    /\ processing' = [processing EXCEPT ![p].pc = "applications",
                                        ![p].found = LiveApplications]
    /\ request' = [request EXCEPT ![processing[p].of] = "PROCESSING"]
    /\ UNCHANGED <<counted, asking, record, held, erasureFaults,
                   racingSubmits, overlapped, missed, rewritten>>

(* The transaction locks the request's row, whatever its status is by now, *)
(* and looks for the person's applications.                                *)
ScanApplications(p) ==
    /\ processing[p].pc = "begin" /\ RowFree(processing[p].of)
    /\ processing' = [processing EXCEPT ![p].pc = "applications",
                                        ![p].found = LiveApplications]
    /\ UNCHANGED <<request, counted, asking, record, held, erasureFaults,
                   racingSubmits, overlapped, missed, rewritten>>

(* Defect: enrichments are not looked for.                                 *)
ScanNoEnrichments(p) ==
    /\ processing[p].pc = "applications"
    /\ processing' = [processing EXCEPT ![p].pc = "enrichments"]
    /\ UNCHANGED <<request, counted, asking, record, held, erasureFaults,
                   racingSubmits, overlapped, missed, rewritten>>

(* Those not deleted: deletedAt is set with the zeroing only.              *)
ScanEnrichments(p) ==
    /\ processing[p].pc = "applications"
    /\ processing' = [processing EXCEPT ![p].pc = "enrichments",
                                        ![p].found = @ \cup LiveEnrichments]
    /\ UNCHANGED <<request, counted, asking, record, held, erasureFaults,
                   racingSubmits, overlapped, missed, rewritten>>

(* What it has found is zeroed, the request completed and counted.         *)
CommitErasure(p) ==
    LET q == processing[p].of IN
    /\ processing[p].pc = "enrichments"
    /\ record' = [r \in Records |->
                     IF r \in processing[p].found
                     THEN [record[r] EXCEPT !.holds = "zero", !.hashed = FALSE]
                     ELSE record[r]]
    /\ request' = [request EXCEPT ![q] = "COMPLETED"]
    /\ counted' = [counted EXCEPT ![q] = Cardinality(processing[p].found)]
    /\ processing' = [processing EXCEPT ![p] = Unworked]
    /\ rewritten' = rewritten \ processing[p].found
    /\ UNCHANGED <<asking, held, erasureFaults, racingSubmits, overlapped,
                   missed>>

(* The transaction is rolled back, and the catch ...                       *)
AbortErasure(p) ==
    /\ processing[p].pc = "begin" \/ InTransaction(p)
    /\ ErasureFault
    /\ processing' = [processing EXCEPT ![p].pc = "abort", ![p].found = {}]
    /\ UNCHANGED <<request, counted, asking, record, held, racingSubmits,
                   overlapped, missed, rewritten>>

(* ... records the failure, whatever the request's status is by now.       *)
RecordFailure(p) ==
    /\ processing[p].pc = "abort" /\ RowFree(processing[p].of)
    /\ request' = [request EXCEPT ![processing[p].of] = "FAILED"]
    /\ processing' = [processing EXCEPT ![p] = Unworked]
    /\ UNCHANGED <<counted, asking, record, held, erasureFaults,
                   racingSubmits, overlapped, missed, rewritten>>

(* It dies; or the recording fails as well, which is swallowed.            *)
ProcessorDies(p) ==
    /\ processing[p] # Unworked /\ ErasureFault
    /\ processing' = [processing EXCEPT ![p] = Unworked]
    /\ UNCHANGED <<request, counted, asking, record, held, racingSubmits,
                   overlapped, missed, rewritten>>

-----------------------------------------------------------------------------
(* The re-encryption worker                                                *)

(* Whatever does not begin with the version byte of v2                     *)
NotV2 == {a \in Applications : record[a].holds \in {"v1", "zero"}}

(* Copies of the ReencryptBatch oldest                                     *)
ReadOld ==
    /\ held = {}
    /\ LET oldest == {a \in NotV2 : Cardinality({b \in NotV2 : b < a})
                                       < ReencryptBatch}
       IN  oldest # {} /\ held' = {<<a, record[a].holds>> : a \in oldest}
    /\ UNCHANGED <<request, counted, asking, record, processing,
                   erasureFaults, racingSubmits, overlapped, missed,
                   rewritten>>

(* The copy is decrypted and written back under the organization's key,    *)
(* whatever the row holds by now; its hash is left alone.                  *)
WriteBack(a) ==
    /\ <<a, "v1">> \in held
    /\ record' = [record EXCEPT ![a].holds = "v2"]
    /\ rewritten' = IF record[a].holds = "zero" THEN rewritten \cup {a}
                    ELSE rewritten
    /\ held' = held \ {<<a, "v1">>}
    /\ UNCHANGED <<request, counted, asking, processing, erasureFaults,
                   racingSubmits, overlapped, missed>>

(* Defect: a row that cannot be decrypted ends the batch.                  *)
BadRowEndsBatch(a) ==
    /\ <<a, "zero">> \in held
    /\ held' = {}
    /\ UNCHANGED <<request, counted, asking, record, processing,
                   erasureFaults, racingSubmits, overlapped, missed,
                   rewritten>>

(* An erased row cannot be decrypted: it is skipped, and stays as it is.   *)
SkipBadRow(a) ==
    /\ <<a, "zero">> \in held
    /\ held' = held \ {<<a, "zero">>}
    /\ UNCHANGED <<request, counted, asking, record, processing,
                   erasureFaults, racingSubmits, overlapped, missed,
                   rewritten>>

(* KMS or the database fails one row, or the worker dies with all of them. *)
ReencryptionFails ==
    /\ held # {} /\ ErasureFault
    /\ held' \in {{}} \cup {held \ {h} : h \in held}
    /\ UNCHANGED <<request, counted, asking, record, processing,
                   racingSubmits, overlapped, missed, rewritten>>

-----------------------------------------------------------------------------

ProcessingStep(p) ==
    \/ ScanApplications(p) \/ ScanEnrichments(p) \/ CommitErasure(p)
    \/ RecordFailure(p)

Reencryption ==
    ReadOld \/ \E a \in Applications : WriteBack(a) \/ SkipBadRow(a)

ErasureNext ==
    \/ \E r \in Records : RecordArrives(r)
    \/ Ask \/ \E q \in Requests : Submit(q)
    \/ \E p \in Processors :
          \/ \E q \in Requests : Process(p, q)
          \/ ProcessingStep(p) \/ AbortErasure(p) \/ ProcessorDies(p)
    \/ Reencryption \/ ReencryptionFails

(* What has begun goes on, the lifecycle worker takes up what is pending,  *)
(* and the re-encryption worker runs.                                      *)
ErasureFairness ==
    /\ \A p \in Processors : WF_erasureVars(ProcessingStep(p))
    /\ WF_erasureVars(\E q \in Requests : Process(LifecycleWorker, q))
    /\ WF_erasureVars(Reencryption)

ErasureSpec == ErasureInit /\ [][ErasureNext]_erasureVars /\ ErasureFairness

-----------------------------------------------------------------------------
(* Properties                                                              *)

(* Two requests of one person are open only when two submissions looked    *)
(* for one at the same time.                                               *)
OneOpenRequest ==
    \A q, r \in Requests :
        q # r /\ request[q] = "PENDING" /\ request[r] = "PENDING"
            => racingSubmits

(* Once a request is completed nothing of the person is left, neither in   *)
(* an application nor in an enrichment, but what came after the scan and   *)
(* what the re-encryption worker wrote back from a copy made before.       *)
CompletedMeansErased ==
    (\E q \in Requests : request[q] = "COMPLETED") =>
        \A r \in Records :
            record[r].hashed \/ record[r].holds \in {"v1", "v2"} =>
                r \in missed \cup rewritten

(* A completed request stays so, with its counts, unless two processors    *)
(* had it at once: then the later one overwrites it, as failed even.       *)
CompletionIsFinal ==
    [][\A q \in Requests :
          request[q] = "COMPLETED" /\ q \notin overlapped =>
              request'[q] = "COMPLETED" /\ counted'[q] = counted[q]
      ]_erasureVars

EveryRequestIsDecided ==
    \A q \in Requests : request[q] \in {"none", "COMPLETED", "FAILED"}

(* A request that is submitted is decided: no crash leaves it in between.  *)
RequestsAreDecided == []<>EveryRequestIsDecided

NoOldRowIsNext ==
    \A a \in Applications :
        record[a].holds = "v1" =>
            Cardinality({b \in Applications :
                            b < a /\ record[b].holds = "zero"})
                >= ReencryptBatch

(* The re-encryption worker gets to every old application, unless erased   *)
(* ones before it fill the batch: these never leave it.                    *)
OldRowsAreReencrypted == []<>NoOldRowIsNext

(* The claim of the service's header: of what a completed request found,   *)
(* the person's data is irrecoverable.                                     *)
NothingIsLeft ==
    (\E q \in Requests : request[q] = "COMPLETED") =>
        \A r \in Records : record[r].raw => r \in missed \cup rewritten

(* A request that is completed has done its work, and was asked for once.  *)
ErasuresAreSound ==
    /\ ErasureTypeOK
    /\ OneOpenRequest
    /\ CompletedMeansErased
=============================================================================
