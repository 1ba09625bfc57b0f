----------------------------- MODULE ExportQueue -----------------------------
(***************************************************************************)
(* POST /exports, the export queue and ExportService.runExport.            *)
(*                                                                         *)
(* The rows an export gathers, their format and the storage are left out.  *)
(* The executors share what the code's worker slots share: the export's    *)
(* row and BullMQ's job.                                                   *)
(***************************************************************************)
EXTENDS Naturals

CONSTANTS
    Executors,          \* slots of the export worker
    Exports,            \* identifiers of export rows
    NoExport, NoExecutor,
    ExportTries,        \* attempts of an export job
    MaxExportFaults,    \* bound: crashes and errors of the database or Redis
    MaxExportStalls     \* bound: running jobs BullMQ takes for stalled

ASSUME ExportOptions ==
    /\ NoExport \notin Exports /\ NoExecutor \notin Executors
    /\ ExportTries \in Nat \ {0}
    /\ MaxExportFaults \in Nat /\ MaxExportStalls \in Nat

VARIABLES
    export,             \* per export: the status of its row
    asking,             \* exports POST /exports has created, not yet enqueued
    exportJob,          \* per export: its job in the queue
    executor,           \* per executor: the export it runs, and how far it is
    exportFaults, exportStalls,
    sharedRun           \* history: exports two executors ran at once

exportVars == <<export, asking, exportJob, executor, exportFaults,
                exportStalls, sharedRun>>

ExportTypeOK ==
    /\ export \in [Exports -> {"none", "PENDING", "RUNNING", "COMPLETED",
                               "FAILED"}]
    /\ asking \subseteq Exports
    /\ exportJob \in [Exports ->
                         [state : {"none", "waiting", "active", "done",
                                   "failed"},
                          tries : 0 .. ExportTries, stalls : 0 .. 2,
                          owner : Executors \cup {NoExecutor}]]
    /\ executor \in [Executors ->
                        [pc : {"idle", "load", "mark", "gather", "complete",
                               "fail", "return", "throw"},
                         of : Exports \cup {NoExport}]]
    /\ exportFaults \in 0 .. MaxExportFaults
    /\ exportStalls \in 0 .. MaxExportStalls
    /\ sharedRun \subseteq Exports

Vacant == [pc |-> "idle", of |-> NoExport]

ExportInit ==
    /\ export = [e \in Exports |-> "none"]
    /\ asking = {}
    /\ exportJob = [e \in Exports |-> [state |-> "none", tries |-> 0,
                                       stalls |-> 0, owner |-> NoExecutor]]
    /\ executor = [x \in Executors |-> Vacant]
    /\ exportFaults = 0 /\ exportStalls = 0
    /\ sharedRun = {}

ExportFault ==
    exportFaults < MaxExportFaults /\ exportFaults' = exportFaults + 1

-----------------------------------------------------------------------------
(* POST /exports                                                           *)

AskExport(e) ==
    /\ export[e] = "none"
    /\ export' = [export EXCEPT ![e] = "PENDING"]
    /\ asking' = asking \cup {e}
    /\ UNCHANGED <<exportJob, executor, exportFaults, exportStalls, sharedRun>>

EnqueueAsked(e) ==
    /\ e \in asking
    /\ exportJob' = [exportJob EXCEPT ![e].state = "waiting"]
    /\ asking' = asking \ {e}
    /\ UNCHANGED <<export, executor, exportStalls,
                   sharedRun, exportFaults>>

AskingFails(e) ==
    /\ e \in asking /\ ExportFault
    /\ asking' = asking \ {e}
    /\ UNCHANGED <<export, exportJob, executor, exportStalls, sharedRun>>

-----------------------------------------------------------------------------
(* The export worker and runExport                                         *)

TakeJob(x, e) ==
    /\ executor[x].pc = "idle" /\ exportJob[e].state = "waiting"
    /\ exportJob' = [exportJob EXCEPT ![e].state = "active", ![e].owner = x]
    /\ executor' = [executor EXCEPT ![x] = [pc |-> "load", of |-> e]]
    /\ sharedRun' = IF \E y \in Executors : executor[y].of = e
                    THEN sharedRun \cup {e} ELSE sharedRun
    /\ UNCHANGED <<export, asking, exportStalls,
                   exportFaults>>

Proceeds(x, pc) == executor' = [executor EXCEPT ![x].pc = pc]
Sets(x, status) == export' = [export EXCEPT ![executor[x].of] = status]

(* Defect: a retry runs what is already completed.                         *)
LoadAnyway(x) ==
    /\ executor[x].pc = "load"
    /\ Proceeds(x, "mark")
    /\ UNCHANGED <<export, asking, exportJob,
                   exportStalls, sharedRun, exportFaults>>

Load(x) ==
    /\ executor[x].pc = "load"
    /\ Proceeds(x, IF export[executor[x].of] = "COMPLETED"
                   THEN "return" ELSE "mark")
    /\ UNCHANGED <<export, asking, exportJob,
                   exportStalls, sharedRun, exportFaults>>

MarkRunning(x) ==
    /\ executor[x].pc = "mark"
    /\ Sets(x, "RUNNING")
    /\ Proceeds(x, "gather")
    /\ UNCHANGED <<asking, exportJob, exportStalls,
                   sharedRun, exportFaults>>

(* gatherRows and the storage's write succeed or throw.                    *)
Gather(x) ==
    /\ executor[x].pc = "gather"
    /\ Proceeds(x, "complete") \/ Proceeds(x, "fail")
    /\ UNCHANGED <<export, asking, exportJob,
                   exportStalls, sharedRun, exportFaults>>

CompleteExport(x) ==
    /\ executor[x].pc = "complete"
    /\ Sets(x, "COMPLETED")
    /\ Proceeds(x, "return")
    /\ UNCHANGED <<asking, exportJob, exportStalls,
                   sharedRun, exportFaults>>

(* Defect: the catch rethrows without a word in the row.                   *)
MarkFailedNot(x) ==
    /\ executor[x].pc = "fail"
    /\ Proceeds(x, "throw")
    /\ UNCHANGED <<export, asking, exportJob,
                   exportStalls, sharedRun, exportFaults>>

MarkFailed(x) ==
    /\ executor[x].pc = "fail"
    /\ Sets(x, "FAILED")
    /\ Proceeds(x, "throw")
    /\ UNCHANGED <<asking, exportJob, exportStalls,
                   sharedRun, exportFaults>>

(* BullMQ settles the job, unless it has given it to another executor.     *)
JobEnds(x) ==
    LET e == executor[x].of
        job == exportJob[e]
    IN
    /\ executor[x].pc \in {"return", "throw"}
    /\ exportJob' =
          IF job.state # "active" \/ job.owner # x THEN exportJob
          ELSE [exportJob EXCEPT
                   ![e].owner = NoExecutor,
                   ![e].tries = @ + 1,
                   ![e].state = IF executor[x].pc = "return" THEN "done"
                                ELSE IF job.tries + 1 < ExportTries
                                     THEN "waiting" ELSE "failed"]
    /\ executor' = [executor EXCEPT ![x] = Vacant]
    /\ UNCHANGED <<export, asking, exportStalls,
                   sharedRun, exportFaults>>

(* The database rejects one of runExport's statements.                     *)
ExportErrs(x) ==
    /\ executor[x].pc \in {"load", "mark", "complete", "fail"} /\ ExportFault
    /\ Proceeds(x, IF executor[x].pc = "complete" THEN "fail" ELSE "throw")
    /\ UNCHANGED <<export, asking, exportJob,
                   exportStalls, sharedRun>>

ExecutorDies(x) ==
    /\ executor[x].pc # "idle" /\ ExportFault
    /\ executor' = [executor EXCEPT ![x] = Vacant]
    /\ UNCHANGED <<export, asking, exportJob,
                   exportStalls, sharedRun>>

(* The lock of an active job lapses: its executor is dead, or slow.  One   *)
(* stall is forgiven.                                                      *)
Lapses(e) ==
    exportJob' = [exportJob EXCEPT
                     ![e].owner = NoExecutor, ![e].stalls = @ + 1,
                     ![e].state = IF exportJob[e].stalls = 0 THEN "waiting"
                                                             ELSE "failed"]

JobOfDeadLapses(e) ==
    /\ exportJob[e].state = "active"
    /\ executor[exportJob[e].owner].of # e
    /\ Lapses(e)
    /\ UNCHANGED <<export, asking, executor,
                   exportStalls, sharedRun, exportFaults>>

JobOfSlowLapses(e) ==
    /\ exportJob[e].state = "active"
    /\ executor[exportJob[e].owner].of = e
    /\ exportStalls < MaxExportStalls
    /\ exportStalls' = exportStalls + 1
    /\ Lapses(e)
    /\ UNCHANGED <<export, asking, executor,
                   sharedRun, exportFaults>>

-----------------------------------------------------------------------------

ExecutorStep(x) ==
    \/ \E e \in Exports : TakeJob(x, e)
    \/ Load(x) \/ MarkRunning(x) \/ Gather(x) \/ CompleteExport(x) \/ MarkFailed(x)
    \/ JobEnds(x)

ExportNext ==
    \/ \E e \in Exports :
          \/ AskExport(e) \/ EnqueueAsked(e) \/ AskingFails(e)
          \/ JobOfDeadLapses(e) \/ JobOfSlowLapses(e)
    \/ \E x \in Executors : ExecutorStep(x) \/ ExportErrs(x) \/ ExecutorDies(x)

(* Requests go on, the worker takes jobs, BullMQ looks for stalled ones.   *)
ExportFairness ==
    /\ \A x \in Executors : WF_exportVars(ExecutorStep(x))
    /\ \A e \in Exports : /\ WF_exportVars(EnqueueAsked(e))
                          /\ WF_exportVars(JobOfDeadLapses(e))

-----------------------------------------------------------------------------
(* Properties                                                              *)

(* An export whose file can be downloaded loses it only when two executors *)
(* ran it at once; a retry after the completion does not touch it.         *)
CompletionUndoneOnlyInRaces ==
    [][\A e \in Exports :
          export[e] = "COMPLETED" /\ export'[e] # "COMPLETED"
              => e \in sharedRun]_exportVars

ExportsSettled ==
    \A e \in Exports :
        export[e] \in {"none", "COMPLETED", "FAILED"} \/ exportFaults > 0

(* Every export that is asked for is completed or failed in the end,       *)
(* however often it is tried and whichever jobs stall, unless a crash or   *)
(* an error hits between two of its steps.                                 *)
ExportsSettle == []<>ExportsSettled
=============================================================================
