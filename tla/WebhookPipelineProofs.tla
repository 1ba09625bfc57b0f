------------------------ MODULE WebhookPipelineProofs ------------------------
(***************************************************************************)
(* Proofs about WebhookPipeline for any sets of keys, requests and workers *)
(* and any limits.  The invariant says what backs each thing in flight:    *)
(* a request past the insert is backed by an event, a job by an outbox     *)
(* row, a running processor by an event and, past its handler, by a ledger *)
(* row.  At the end, what holds of the events of an organization that is  *)
(* offboarded (TenantOffboarding).                                         *)
(***************************************************************************)
EXTENDS MCEvents, TLAPS

RequestsAreBacked ==
    \A r \in Requests :
        /\ ~At(r, "idle") => Key(r) \in Keys
        /\ req[r].pc \in {"append", "warm", "reply", "processing"} =>
              event[Key(r)] # "none"
        /\ At(r, "append") => Key(r) \in SignedKeys /\ Key(r) \notin sent

RunsAreBacked ==
    \A p \in Runners :
        IF run[p].step = "idle"
          THEN run[p].key = NoKey
          ELSE /\ run[p].key \in Keys
               /\ event[run[p].key] # "none"
               /\ p \in Workers => /\ run[p].job \in Jobs
                                   /\ run[p].key = run[p].job[1]
               /\ run[p].step \in {"announce", "mark", "audit", "done"} =>
                     run[p].key \in recorded

JobsAreBacked ==
    \A k \in Keys : \A n \in 1 .. MaxCopies :
        /\ n > delivered[k] => jobState[<<k, n>>] = "none"
        /\ IF jobState[<<k, n>>] = "none"
             THEN tries[<<k, n>>] = 0 /\ stalls[<<k, n>>] = 0
             ELSE k \in sent
        /\ jobState[<<k, n>>] \in {"waiting", "active"} =>
              tries[<<k, n>>] < MaxTries /\ stalls[<<k, n>>] <= MaxStalls

(* Whoever is about to announce a ledger row is the one that created it.   *)
AnnouncersAreUnique ==
    /\ \A k \in Keys : k \notin recorded => announced[k] = 0
    /\ \A p \in Runners :
          run[p].step = "announce" =>
              /\ announced[run[p].key] = 0
              /\ \A q \in Runners \ {p} :
                    run[q].step = "announce" => run[q].key # run[p].key

Scheduling == EventsAreScheduled /\ OneAppenderPerKey /\ AckedIsDurable

Booking == ProcessedIsRecorded /\ AnnouncedAtMostOnce /\ AnnouncersAreUnique

IInv ==
    /\ TypeOK
    /\ RequestsAreBacked
    /\ RunsAreBacked
    /\ JobsAreBacked
    /\ Scheduling
    /\ Booking
    /\ OneProcessorPerInlineKey

-----------------------------------------------------------------------------

LEMMA InitIInv == Init => IInv
<1>. SUFFICES ASSUME Init PROVE IInv
  OBVIOUS
<1>. USE NothingIsNothing, BoundsAreNaturals DEF Init, IdleRequest, IdleRun
<1>1. TypeOK
  BY DEF TypeOK, HandlerPcs, RunSteps, Channel!ChannelInit,
     Channel!ChannelTypeOK, Jobs
<1>2. RequestsAreBacked /\ RunsAreBacked /\ OneProcessorPerInlineKey
  BY DEF RequestsAreBacked, RunsAreBacked, OneProcessorPerInlineKey, At, Key,
     Runners, Keys
<1>3. JobsAreBacked
  BY DEF JobsAreBacked, Jobs, Channel!ChannelInit
<1>4. Scheduling
  BY DEF Scheduling, EventsAreScheduled, OneAppenderPerKey, AckedIsDurable,
     At, Key, Keys, Channel!ChannelInit
<1>5. Booking
  BY DEF Booking, ProcessedIsRecorded, AnnouncedAtMostOnce,
     AnnouncersAreUnique
<1>. QED  BY <1>1, <1>2, <1>3, <1>4, <1>5 DEF IInv

-----------------------------------------------------------------------------
(* Requests                                                                *)

LEMMA MoveKeepsIInv ==
  ASSUME IInv, NEW r \in Requests,
         \/ \E k \in Keys : Arrive(r, k)
         \/ ReadCache(r) \/ ReadPrior(r) \/ LosesInsertRace(r)
  PROVE  IInv'
<1>. USE DEF IInv, Arrive, ReadCache, ReadPrior, LosesInsertRace, Goto, At,
         Key, IdleRequest, channelVars, jobVars, ledgerVars
<1>1. /\ UNCHANGED <<event, cache, acked, channelVars, jobVars, run,
                     ledgerVars, faults>>
      /\ \A q \in Requests \ {r} : req'[q] = req[q]
  BY DEF TypeOK
<1>2. /\ req' \in [Requests -> [pc : HandlerPcs, key : Keys \cup {NoKey}]]
      /\ req'[r].pc \in {"idle", "cache", "prior", "insert", "warm", "reply"}
      /\ req'[r].pc # "idle" => req'[r].key \in Keys
      /\ req'[r].pc \in {"warm", "reply"} => event[req'[r].key] # "none"
  BY DEF TypeOK, RequestsAreBacked, Scheduling, AckedIsDurable, HandlerPcs
<1>3. TypeOK'
  BY <1>1, <1>2 DEF TypeOK, Channel!ChannelTypeOK
<1>4. RequestsAreBacked' /\ OneAppenderPerKey'
  BY <1>1, <1>2 DEF RequestsAreBacked, Scheduling, OneAppenderPerKey
<1>5. RunsAreBacked' /\ JobsAreBacked' /\ Booking' /\ OneProcessorPerInlineKey'
  BY <1>1 DEF RunsAreBacked, JobsAreBacked, Booking, ProcessedIsRecorded,
     AnnouncedAtMostOnce, AnnouncersAreUnique, OneProcessorPerInlineKey
<1>6. Scheduling'
  BY <1>1, <1>4 DEF Scheduling, EventsAreScheduled, AckedIsDurable
<1>. QED  BY <1>3, <1>4, <1>5, <1>6

(* The three inserts create the event of a key that had none, so neither a *)
(* request, nor a run, nor a job, nor an outbox row was backed by it.      *)
LEMMA FreshKey ==
  ASSUME IInv, NEW k \in Keys, event[k] = "none"
  PROVE  /\ k \notin sent /\ k \notin acked /\ k \notin cache
         /\ \A q \in Requests : At(q, "append") => Key(q) # k
         /\ \A p \in Runners : run[p].key # k
         /\ \A n \in 1 .. MaxCopies : jobState[<<k, n>>] = "none"
<1>. USE DEF IInv
<1>1. k \notin sent /\ k \notin acked /\ k \notin cache
  BY DEF Scheduling, EventsAreScheduled, AckedIsDurable
<1>2. \A q \in Requests : At(q, "append") => Key(q) # k
  BY DEF RequestsAreBacked, At
<1>3. \A p \in Runners : run[p].key # k
  BY NothingIsNothing DEF RunsAreBacked
<1>4. \A n \in 1 .. MaxCopies : jobState[<<k, n>>] = "none"
  BY <1>1 DEF JobsAreBacked
<1>. QED  BY <1>1, <1>2, <1>3, <1>4

LEMMA InsertSignedKeepsIInv ==
  ASSUME IInv, NEW r \in Requests, InsertSigned(r)
  PROVE  IInv'
<1>. USE DEF InsertSigned, Receive, SetStatus, Goto, At, Key, channelVars,
         jobVars, ledgerVars
<1>. DEFINE k == Key(r)
<1>1. k \in SignedKeys /\ k \in Keys /\ k \notin IntegratedKeys
  BY RoutesAreDisjoint DEF Keys
<1>2. /\ k \notin sent
      /\ \A q \in Requests : At(q, "append") => Key(q) # k
      /\ \A p \in Runners : run[p].key # k
  BY <1>1, FreshKey
<1>3. /\ event'[k] = "RECEIVED"
      /\ \A j \in Keys \ {k} : event'[j] = event[j]
      /\ req'[r] = [pc |-> "append", key |-> k]
      /\ \A q \in Requests \ {r} : req'[q] = req[q]
      /\ UNCHANGED <<cache, acked, channelVars, jobVars, run, ledgerVars,
                     faults>>
  BY <1>1 DEF IInv, TypeOK
<1>4. TypeOK'
  BY <1>1, <1>3 DEF IInv, TypeOK, Channel!ChannelTypeOK, HandlerPcs
<1>5. RequestsAreBacked' /\ OneAppenderPerKey'
  BY <1>1, <1>2, <1>3 DEF IInv, RequestsAreBacked, Scheduling,
     OneAppenderPerKey
<1>6. RunsAreBacked'
  BY <1>2, <1>3 DEF IInv, RunsAreBacked
<1>7. JobsAreBacked' /\ AnnouncersAreUnique' /\ OneProcessorPerInlineKey'
  BY <1>3 DEF IInv, JobsAreBacked, Booking, AnnouncersAreUnique,
     OneProcessorPerInlineKey
<1>8. EventsAreScheduled' /\ AckedIsDurable'
  BY <1>1, <1>2, <1>3 DEF IInv, TypeOK, Scheduling, EventsAreScheduled,
     AckedIsDurable, Keys
<1>9. ProcessedIsRecorded' /\ AnnouncedAtMostOnce'
  BY <1>3 DEF IInv, Booking, ProcessedIsRecorded, AnnouncedAtMostOnce
<1>. QED  BY <1>4, <1>5, <1>6, <1>7, <1>8, <1>9 DEF IInv, Scheduling, Booking

LEMMA InsertIntegratedKeepsIInv ==
  ASSUME IInv, NEW r \in Requests, InsertIntegrated(r)
  PROVE  IInv'
<1>. USE DEF InsertIntegrated, Receive, SetStatus, Goto, At, Key, jobVars,
         ledgerVars, Channel!Send
<1>. DEFINE k == Key(r)
<1>1. k \in IntegratedKeys /\ k \in Keys
  BY DEF Keys
<1>2. /\ \A q \in Requests : At(q, "append") => Key(q) # k
      /\ \A p \in Runners : run[p].key # k
      /\ \A n \in 1 .. MaxCopies : jobState[<<k, n>>] = "none"
  BY <1>1, FreshKey
<1>3. /\ event'[k] = "RECEIVED"
      /\ \A j \in Keys \ {k} : event'[j] = event[j]
      /\ req'[r] = [pc |-> "warm", key |-> k]
      /\ \A q \in Requests \ {r} : req'[q] = req[q]
      /\ sent' = sent \cup {k}
      /\ UNCHANGED <<cache, acked, delivered, settled, parked, jobVars, run,
                     ledgerVars, faults>>
  BY <1>1 DEF IInv, TypeOK
<1>4. TypeOK'
  BY <1>1, <1>3 DEF IInv, TypeOK, Channel!ChannelTypeOK, HandlerPcs
<1>5. RequestsAreBacked' /\ OneAppenderPerKey'
  BY <1>1, <1>2, <1>3 DEF IInv, RequestsAreBacked, Scheduling,
     OneAppenderPerKey
<1>6. RunsAreBacked'
  BY <1>2, <1>3 DEF IInv, RunsAreBacked
<1>7. JobsAreBacked' /\ AnnouncersAreUnique' /\ OneProcessorPerInlineKey'
  BY <1>3 DEF IInv, JobsAreBacked, Booking, AnnouncersAreUnique,
     OneProcessorPerInlineKey
<1>8. EventsAreScheduled' /\ AckedIsDurable'
  BY <1>1, <1>3 DEF IInv, TypeOK, Scheduling, EventsAreScheduled,
     AckedIsDurable, Keys, Channel!ChannelTypeOK
<1>9. ProcessedIsRecorded' /\ AnnouncedAtMostOnce'
  BY <1>3 DEF IInv, Booking, ProcessedIsRecorded, AnnouncedAtMostOnce
<1>. QED  BY <1>4, <1>5, <1>6, <1>7, <1>8, <1>9 DEF IInv, Scheduling, Booking

LEMMA InsertInlineKeepsIInv ==
  ASSUME IInv, NEW r \in Requests, InsertInline(r)
  PROVE  IInv'
<1>. USE DEF At, Key, channelVars, jobVars, ledgerVars
<1>. DEFINE k == Key(r)
<1>1. /\ k \in InlineKeys /\ k \in Keys
      /\ k \notin SignedKeys /\ k \notin IntegratedKeys
  BY RoutesAreDisjoint DEF Keys, InsertInline
<1>2. CASE event[k] # "none"
  <2>1. /\ req' = [req EXCEPT ![r].pc = "reply"]
        /\ req'[r] = [pc |-> "reply", key |-> k]
        /\ \A q \in Requests \ {r} : req'[q] = req[q]
        /\ UNCHANGED <<event, cache, acked, channelVars, jobVars, run,
                       ledgerVars, faults>>
    BY <1>2 DEF InsertInline, Receive, SetStatus, Goto, IInv, TypeOK
  <2>2. TypeOK'
    BY <1>1, <2>1 DEF IInv, TypeOK, Channel!ChannelTypeOK, HandlerPcs
  <2>3. RequestsAreBacked' /\ Scheduling'
    BY <1>1, <1>2, <2>1 DEF IInv, RequestsAreBacked, Scheduling,
       OneAppenderPerKey, EventsAreScheduled, AckedIsDurable
  <2>4. /\ RunsAreBacked' /\ JobsAreBacked' /\ Booking'
        /\ OneProcessorPerInlineKey'
    BY <2>1 DEF IInv, RunsAreBacked, JobsAreBacked, Booking,
       AnnouncersAreUnique, OneProcessorPerInlineKey, ProcessedIsRecorded,
       AnnouncedAtMostOnce
  <2>. QED  BY <2>2, <2>3, <2>4 DEF IInv
<1>3. CASE event[k] = "none"
  <2>1. /\ k \notin sent
        /\ \A q \in Requests : At(q, "append") => Key(q) # k
        /\ \A p \in Runners : run[p].key # k
    BY <1>1, <1>3, FreshKey
  <2>2. r \in Runners /\ r \notin Workers
    BY RunnersAreDisjoint DEF Runners
  <2>3. /\ event' = [event EXCEPT ![k] = "RECEIVED"]
        /\ req' = [req EXCEPT ![r].pc = "processing"]
        /\ run' = [run EXCEPT ![r] = [step |-> "handle", job |-> NoJob,
                                      key |-> k]]
        /\ UNCHANGED <<cache, acked, channelVars, jobVars, ledgerVars, faults>>
    BY <1>3 DEF InsertInline, Receive, SetStatus, Goto
  <2>4. /\ event'[k] = "RECEIVED"
        /\ \A j \in Keys \ {k} : event'[j] = event[j]
        /\ req'[r] = [pc |-> "processing", key |-> k]
        /\ \A q \in Requests \ {r} : req'[q] = req[q]
        /\ run'[r] = [step |-> "handle", job |-> NoJob, key |-> k]
        /\ \A p \in Runners \ {r} : run'[p] = run[p]
    BY <1>1, <2>2, <2>3 DEF IInv, TypeOK
  <2>5. TypeOK'
    BY <1>1, <2>2, <2>3 DEF IInv, TypeOK, Channel!ChannelTypeOK, HandlerPcs,
       RunSteps
  <2>6. RequestsAreBacked' /\ OneAppenderPerKey'
    BY <1>1, <2>1, <2>3, <2>4 DEF IInv, RequestsAreBacked, Scheduling,
       OneAppenderPerKey
  <2>7. RunsAreBacked'
    BY <1>1, <2>1, <2>2, <2>3, <2>4 DEF IInv, RunsAreBacked
  <2>8. JobsAreBacked' /\ AnnouncersAreUnique'
    BY <2>3, <2>4 DEF IInv, JobsAreBacked, Booking, AnnouncersAreUnique
  <2>9. EventsAreScheduled' /\ AckedIsDurable'
    BY <1>1, <2>1, <2>3, <2>4 DEF IInv, TypeOK, Scheduling,
       EventsAreScheduled, AckedIsDurable, Keys
  <2>10. ProcessedIsRecorded' /\ AnnouncedAtMostOnce'
    BY <2>3, <2>4 DEF IInv, Booking, ProcessedIsRecorded, AnnouncedAtMostOnce
  <2>11. OneProcessorPerInlineKey'
    BY <2>1, <2>2, <2>4 DEF IInv, OneProcessorPerInlineKey, Runners
  <2>. QED  BY <2>5, <2>6, <2>7, <2>8, <2>9, <2>10, <2>11
            DEF IInv, Scheduling, Booking
<1>. QED  BY <1>2, <1>3

LEMMA AppendSignedKeepsIInv ==
  ASSUME IInv, NEW r \in Requests, AppendSigned(r)
  PROVE  IInv'
<1>. USE DEF AppendSigned, Goto, At, Key, jobVars, ledgerVars, Channel!Send
<1>. DEFINE k == Key(r)
<1>1. /\ k \in Keys /\ k \in SignedKeys /\ k \notin IntegratedKeys
      /\ event[k] # "none"
      /\ \A q \in Requests \ {r} : At(q, "append") => Key(q) # k
  BY RoutesAreDisjoint DEF IInv, RequestsAreBacked, Scheduling,
     OneAppenderPerKey
<1>2. /\ req'[r] = [pc |-> "reply", key |-> k]
      /\ \A q \in Requests \ {r} : req'[q] = req[q]
      /\ sent' = sent \cup {k}
      /\ UNCHANGED <<event, cache, acked, delivered, settled, parked, jobVars,
                     run, ledgerVars, faults>>
  BY DEF IInv, TypeOK
<1>3. TypeOK'
  BY <1>1, <1>2 DEF IInv, TypeOK, Channel!ChannelTypeOK, HandlerPcs
<1>4. RequestsAreBacked' /\ OneAppenderPerKey'
  BY <1>1, <1>2 DEF IInv, RequestsAreBacked, Scheduling, OneAppenderPerKey
<1>5. EventsAreScheduled' /\ AckedIsDurable'
  BY <1>1, <1>2 DEF IInv, Scheduling, EventsAreScheduled, AckedIsDurable
<1>6. /\ RunsAreBacked' /\ JobsAreBacked' /\ Booking'
      /\ OneProcessorPerInlineKey'
  BY <1>2 DEF IInv, RunsAreBacked, JobsAreBacked, Booking,
     AnnouncersAreUnique, OneProcessorPerInlineKey, ProcessedIsRecorded,
     AnnouncedAtMostOnce
<1>. QED  BY <1>3, <1>4, <1>5, <1>6 DEF IInv, Scheduling

LEMMA AnswerKeepsIInv ==
  ASSUME IInv, NEW r \in Requests, WarmCache(r) \/ Reply(r)
  PROVE  IInv'
<1>. USE DEF WarmCache, Reply, Goto, At, Key, IdleRequest, channelVars,
         jobVars, ledgerVars
<1>1. Key(r) \in Keys /\ event[Key(r)] # "none"
  BY DEF IInv, RequestsAreBacked
<1>2. /\ UNCHANGED <<event, channelVars, jobVars, run, ledgerVars, faults>>
      /\ cache' \subseteq cache \cup {Key(r)}
      /\ acked' \subseteq acked \cup {Key(r)}
      /\ \A q \in Requests \ {r} : req'[q] = req[q]
      /\ req'[r] \in {[pc |-> "reply", key |-> Key(r)], IdleRequest}
      /\ req' \in [Requests -> [pc : HandlerPcs, key : Keys \cup {NoKey}]]
  BY DEF IInv, TypeOK, HandlerPcs
<1>3. TypeOK'
  BY <1>1, <1>2 DEF IInv, TypeOK, Channel!ChannelTypeOK
<1>4. RequestsAreBacked' /\ OneAppenderPerKey'
  BY <1>1, <1>2 DEF IInv, RequestsAreBacked, Scheduling, OneAppenderPerKey
<1>5. EventsAreScheduled' /\ AckedIsDurable'
  BY <1>1, <1>2 DEF IInv, Scheduling, EventsAreScheduled, AckedIsDurable
<1>6. /\ RunsAreBacked' /\ JobsAreBacked' /\ Booking'
      /\ OneProcessorPerInlineKey'
  BY <1>2 DEF IInv, RunsAreBacked, JobsAreBacked, Booking,
     AnnouncersAreUnique, OneProcessorPerInlineKey, ProcessedIsRecorded,
     AnnouncedAtMostOnce
<1>. QED  BY <1>3, <1>4, <1>5, <1>6 DEF IInv, Scheduling

LEMMA ExpiryKeepsIInv ==
  ASSUME IInv, NEW k \in Keys, CacheExpires(k)
  PROVE  IInv'
<1>. USE DEF CacheExpires, channelVars, jobVars, ledgerVars, At, Key
<1>1. TypeOK' /\ Scheduling'
  BY DEF IInv, TypeOK, Channel!ChannelTypeOK, Scheduling, EventsAreScheduled,
     OneAppenderPerKey, AckedIsDurable
<1>2. /\ RequestsAreBacked' /\ RunsAreBacked' /\ JobsAreBacked' /\ Booking'
      /\ OneProcessorPerInlineKey'
  BY DEF IInv, RequestsAreBacked, RunsAreBacked, JobsAreBacked, Booking,
     AnnouncersAreUnique, OneProcessorPerInlineKey, ProcessedIsRecorded,
     AnnouncedAtMostOnce
<1>. QED  BY <1>1, <1>2 DEF IInv

-----------------------------------------------------------------------------
(* Runs that end                                                           *)

JobsTypeOK ==
    /\ jobState \in [Jobs -> {"none", "waiting", "active", "completed",
                              "failed"}]
    /\ lock \in [Jobs -> Workers \cup {NoWorker}]
    /\ tries \in [Jobs -> 0 .. MaxTries]
    /\ stalls \in [Jobs -> 0 .. MaxStalls + 1]

(* A run may end anywhere, and with it the request it was part of; what    *)
(* its job becomes is a matter of the queue alone.                         *)
LEMMA EndOfRunKeepsIInv ==
  ASSUME IInv, NEW p \in Runners,
         run' = [run EXCEPT ![p] = IdleRun],
         req' \in [Requests -> [pc : HandlerPcs, key : Keys \cup {NoKey}]],
         \A q \in Requests :
            \/ req'[q] = req[q]
            \/ req'[q] = IdleRequest
            \/ /\ req'[q] = [pc |-> "reply", key |-> Key(q)]
               /\ Key(q) \in Keys /\ event[Key(q)] # "none",
         faults' \in 0 .. MaxFaults,
         JobsTypeOK', JobsAreBacked',
         UNCHANGED <<event, cache, acked, channelVars, ledgerVars>>
  PROVE  IInv'
<1>. USE DEF channelVars, ledgerVars, At, Key, IdleRequest
<1>1. /\ run'[p] = IdleRun
      /\ \A q \in Runners \ {p} : run'[q] = run[q]
  BY DEF IInv, TypeOK
<1>2. TypeOK'
  BY DEF IInv, TypeOK, JobsTypeOK, Channel!ChannelTypeOK, IdleRun, RunSteps
<1>3. RequestsAreBacked' /\ Scheduling'
  BY DEF IInv, RequestsAreBacked, Scheduling, OneAppenderPerKey,
     EventsAreScheduled, AckedIsDurable
<1>4. RunsAreBacked' /\ OneProcessorPerInlineKey'
  BY <1>1, NothingIsNothing DEF IInv, RunsAreBacked, IdleRun,
     OneProcessorPerInlineKey, Runners, Keys
<1>5. Booking'
  BY <1>1 DEF IInv, Booking, AnnouncersAreUnique, ProcessedIsRecorded,
     AnnouncedAtMostOnce, IdleRun
<1>. QED  BY <1>2, <1>3, <1>4, <1>5 DEF IInv

LEMMA JobsUnchanged ==
  ASSUME IInv, UNCHANGED <<jobVars, sent, delivered>>
  PROVE  JobsTypeOK' /\ JobsAreBacked'
BY DEF IInv, TypeOK, JobsTypeOK, JobsAreBacked, jobVars

LEMMA FinishInlineKeepsIInv ==
  ASSUME IInv, NEW r \in Requests, FinishInline(r)
  PROVE  IInv'
<1>1. r \in Runners
  BY DEF Runners
<1>2. Key(r) \in Keys /\ event[Key(r)] # "none"
  BY DEF FinishInline, IInv, RequestsAreBacked, At, Key
<1>3. /\ req' \in [Requests -> [pc : HandlerPcs, key : Keys \cup {NoKey}]]
      /\ \A q \in Requests \ {r} : req'[q] = req[q]
      /\ req'[r] \in {IdleRequest, [pc |-> "reply", key |-> Key(r)]}
  BY DEF FinishInline, IInv, TypeOK, IdleRequest, HandlerPcs, Goto, Key
<1>4. faults' \in 0 .. MaxFaults /\ JobsTypeOK' /\ JobsAreBacked'
  BY JobsUnchanged DEF FinishInline, IInv, TypeOK, channelVars
<1>. QED  BY <1>1, <1>2, <1>3, <1>4, EndOfRunKeepsIInv DEF FinishInline

LEMMA AbandonKeepsIInv ==
  ASSUME IInv, NEW r \in Requests, Abandon(r)
  PROVE  IInv'
<1>1. r \in Runners
  BY DEF Runners
<1>2. /\ req' \in [Requests -> [pc : HandlerPcs, key : Keys \cup {NoKey}]]
      /\ \A q \in Requests \ {r} : req'[q] = req[q]
      /\ req'[r] = IdleRequest
  BY DEF Abandon, IInv, TypeOK, IdleRequest, HandlerPcs
<1>3. faults' \in 0 .. MaxFaults /\ JobsTypeOK' /\ JobsAreBacked'
  BY JobsUnchanged DEF Abandon, IInv, TypeOK, channelVars
<1>. QED  BY <1>1, <1>2, <1>3, EndOfRunKeepsIInv DEF Abandon

LEMMA CrashKeepsIInv ==
  ASSUME IInv, NEW w \in Workers, CrashWorker(w)
  PROVE  IInv'
<1>1. w \in Runners
  BY DEF Runners
<1>2. req' = req /\ req \in [Requests -> [pc : HandlerPcs,
                                          key : Keys \cup {NoKey}]]
  BY DEF CrashWorker, IInv, TypeOK
<1>3. faults' \in 0 .. MaxFaults
  BY BoundsAreNaturals DEF CrashWorker, IInv, TypeOK
<1>4. JobsTypeOK' /\ JobsAreBacked'
  BY JobsUnchanged DEF CrashWorker, channelVars
<1>. QED  BY <1>1, <1>2, <1>3, <1>4, EndOfRunKeepsIInv DEF CrashWorker

(* Jobs are pairs; JobsAreBacked speaks of their parts.                    *)
LEMMA JobParts ==
  ASSUME NEW j \in Jobs
  PROVE  /\ j[1] \in Keys /\ j[2] \in 1 .. MaxCopies
         /\ j = <<j[1], j[2]>>
         /\ \A k \in Keys, n \in 1 .. MaxCopies : <<k, n>> \in Jobs
BY DEF Jobs

LEMMA FinishJobKeepsIInv ==
  ASSUME IInv, NEW w \in Workers, FinishJob(w)
  PROVE  IInv'
<1>. DEFINE j == run[w].job
<1>1. w \in Runners /\ j \in Jobs
  BY DEF Runners, FinishJob, IInv, RunsAreBacked
<1>2. req' = req /\ req \in [Requests -> [pc : HandlerPcs,
                                          key : Keys \cup {NoKey}]]
  BY DEF FinishJob, IInv, TypeOK
<1>3. faults' \in 0 .. MaxFaults
  BY DEF FinishJob, IInv, TypeOK
<1>4. JobsTypeOK' /\ JobsAreBacked'
  <2>1. CASE jobState[j] = "active" /\ lock[j] = w
    <3>1. /\ lock' = [lock EXCEPT ![j] = NoWorker]
          /\ stalls' = stalls /\ sent' = sent /\ delivered' = delivered
      BY <2>1 DEF FinishJob, channelVars
    <3>2. /\ tries[j] < MaxTries
          /\ j[1] \in sent /\ ~(j[2] > delivered[j[1]])
      <4>. DEFINE k == j[1]
                  n == j[2]
      <4>1. k \in Keys /\ n \in 1 .. MaxCopies /\ j = <<k, n>>
        BY <1>1, JobParts
      <4>2. jobState[<<k, n>>] = "active"
        BY <2>1, <4>1
      <4>. QED  BY <4>1, <4>2 DEF IInv, JobsAreBacked
    <3>3. \/ tries' = tries
               /\ jobState' = [jobState EXCEPT ![j] = "completed"]
          \/ tries' = [tries EXCEPT ![j] = @ + 1]
               /\ jobState' = [jobState EXCEPT ![j] = "failed"]
          \/ tries' = [tries EXCEPT ![j] = @ + 1]
               /\ jobState' = [jobState EXCEPT ![j] = "waiting"]
               /\ tries[j] + 1 < MaxTries
      BY <1>1, <2>1, <3>2, BoundsAreNaturals
      DEF FinishJob, LastTry, IInv, TypeOK
    <3>4. JobsTypeOK'
      BY <1>1, <3>1, <3>2, <3>3, BoundsAreNaturals
      DEF JobsTypeOK, IInv, TypeOK
    <3>5. \A i \in Jobs \ {j} : jobState'[i] = jobState[i]
                                /\ tries'[i] = tries[i]
      BY <3>3 DEF IInv, TypeOK
    <3>6. /\ jobState'[j] \in {"completed", "failed", "waiting"}
          /\ jobState'[j] = "waiting" => tries'[j] < MaxTries
          /\ stalls[j] <= MaxStalls
      <4>. DEFINE k == j[1]
                  n == j[2]
      <4>1. k \in Keys /\ n \in 1 .. MaxCopies /\ j = <<k, n>>
        BY <1>1, JobParts
      <4>2. jobState[<<k, n>>] = "active"
        BY <2>1, <4>1
      <4>3. stalls[j] <= MaxStalls
        BY <4>1, <4>2 DEF IInv, JobsAreBacked
      <4>. QED  BY <1>1, <3>3, <4>3 DEF IInv, TypeOK
    <3>7. JobsAreBacked'
      <4>. SUFFICES ASSUME NEW k \in Keys, NEW n \in 1 .. MaxCopies
                    PROVE  /\ n > delivered[k] => jobState'[<<k, n>>] = "none"
                           /\ IF jobState'[<<k, n>>] = "none"
                                THEN tries'[<<k, n>>] = 0 /\ stalls[<<k, n>>] = 0
                                ELSE k \in sent
                           /\ jobState'[<<k, n>>] \in {"waiting", "active"} =>
                                 /\ tries'[<<k, n>>] < MaxTries
                                 /\ stalls[<<k, n>>] <= MaxStalls
        BY <3>1 DEF JobsAreBacked
      <4>1. <<k, n>> \in Jobs
        BY <1>1, JobParts
      <4>2. CASE <<k, n>> = j
        BY <3>2, <3>6, <4>2
      <4>3. CASE <<k, n>> # j
        BY <3>5, <4>1, <4>3 DEF IInv, JobsAreBacked
      <4>. QED  BY <4>2, <4>3
    <3>. QED  BY <3>4, <3>7
  <2>2. CASE ~(jobState[j] = "active" /\ lock[j] = w)
    BY <2>2, JobsUnchanged DEF FinishJob, jobVars, channelVars
  <2>. QED  BY <2>1, <2>2
<1>. QED  BY <1>1, <1>2, <1>3, <1>4, EndOfRunKeepsIInv DEF FinishJob

-----------------------------------------------------------------------------
(* The queue                                                               *)

(* One job changes, and stays backed by its outbox row.                    *)
LEMMA JobChange ==
  ASSUME IInv, NEW j \in Jobs,
         \A i \in Jobs \ {j} : /\ jobState'[i] = jobState[i]
                              /\ tries'[i] = tries[i]
                              /\ stalls'[i] = stalls[i],
         sent' = sent, j[1] \in sent,
         \A k \in Keys : delivered'[k] \in Nat /\ delivered'[k] >= delivered[k],
         j[2] <= delivered'[j[1]],
         jobState'[j] # "none",
         jobState'[j] \in {"waiting", "active"} =>
            tries'[j] < MaxTries /\ stalls'[j] <= MaxStalls
  PROVE  JobsAreBacked'
<1>. SUFFICES ASSUME NEW k \in Keys, NEW n \in 1 .. MaxCopies
              PROVE  /\ n > delivered'[k] => jobState'[<<k, n>>] = "none"
                     /\ IF jobState'[<<k, n>>] = "none"
                          THEN tries'[<<k, n>>] = 0 /\ stalls'[<<k, n>>] = 0
                          ELSE k \in sent
                     /\ jobState'[<<k, n>>] \in {"waiting", "active"} =>
                           /\ tries'[<<k, n>>] < MaxTries
                           /\ stalls'[<<k, n>>] <= MaxStalls
  BY DEF JobsAreBacked
<1>1. <<k, n>> \in Jobs
  BY JobParts
<1>2. delivered[k] \in Nat /\ delivered'[k] \in Nat
  BY DEF IInv, TypeOK, Channel!ChannelTypeOK
<1>3. CASE <<k, n>> = j
  BY <1>2, <1>3
<1>4. CASE <<k, n>> # j
  BY <1>1, <1>2, <1>4 DEF IInv, JobsAreBacked
<1>. QED  BY <1>3, <1>4

LEMMA EnqueueKeepsIInv ==
  ASSUME IInv, NEW k \in Keys, EnqueueWebhook(k)
  PROVE  IInv'
<1>. USE DEF EnqueueWebhook, Channel!Deliver, ledgerVars, At, Key
<1>. DEFINE n == delivered[k] + 1
            j == <<k, n>>
<1>1. /\ k \in sent /\ delivered[k] \in Nat /\ n \in 1 .. MaxCopies
      /\ j \in Jobs /\ j[1] = k /\ j[2] = n
  BY BoundsAreNaturals
  DEF IInv, TypeOK, Channel!ChannelTypeOK, Channel!Owed, Jobs
<1>2. jobState[j] = "none" /\ tries[j] = 0 /\ stalls[j] = 0
  BY <1>1 DEF IInv, JobsAreBacked
<1>3. /\ \A i \in Jobs \ {j} : jobState'[i] = jobState[i]
      /\ jobState'[j] = "waiting"
      /\ delivered'[k] = n
      /\ \A q \in Keys \ {k} : delivered'[q] = delivered[q]
      /\ \A q \in Keys : delivered[q] \in Nat
      /\ UNCHANGED <<event, cache, acked, req, sent, settled, parked, lock,
                     tries, stalls, run, recorded, announced, faults>>
  BY <1>1 DEF IInv, TypeOK, Channel!ChannelTypeOK
<1>4. TypeOK'
  BY <1>1, <1>3 DEF IInv, TypeOK, Channel!ChannelTypeOK
<1>5. JobsAreBacked'
  <2>1. \A q \in Keys : delivered'[q] \in Nat /\ delivered'[q] >= delivered[q]
    BY <1>1, <1>3
  <2>2. j[2] <= delivered'[j[1]]
    BY <1>1, <1>3
  <2>. QED  BY <1>1, <1>2, <1>3, <2>1, <2>2, JobChange, BoundsAreNaturals
<1>6. /\ RequestsAreBacked' /\ RunsAreBacked' /\ Scheduling' /\ Booking'
      /\ OneProcessorPerInlineKey'
  BY <1>3 DEF IInv, RequestsAreBacked, RunsAreBacked, Scheduling,
     EventsAreScheduled, OneAppenderPerKey, AckedIsDurable, Booking,
     AnnouncersAreUnique, OneProcessorPerInlineKey, ProcessedIsRecorded,
     AnnouncedAtMostOnce
<1>. QED  BY <1>4, <1>5, <1>6 DEF IInv

LEMMA RowKeepsIInv ==
  ASSUME IInv, NEW k \in Keys, RetireRow(k) \/ ReplayRow(k)
  PROVE  IInv'
<1>1. /\ UNCHANGED <<event, cache, acked, req, sent, delivered, jobVars, run,
                     ledgerVars, faults>>
      /\ settled' \subseteq sent /\ parked' \subseteq sent
  BY DEF RetireRow, ReplayRow, Channel!Retire, Channel!Unpark, Channel!Owed,
     IInv, TypeOK, Channel!ChannelTypeOK
<1>2. TypeOK'
  BY <1>1 DEF IInv, TypeOK, Channel!ChannelTypeOK, jobVars, ledgerVars
<1>3. /\ RequestsAreBacked' /\ RunsAreBacked' /\ JobsAreBacked'
      /\ Scheduling' /\ Booking' /\ OneProcessorPerInlineKey'
  BY <1>1 DEF IInv, RequestsAreBacked, RunsAreBacked, JobsAreBacked,
     Scheduling, EventsAreScheduled, OneAppenderPerKey, AckedIsDurable,
     Booking, AnnouncersAreUnique, OneProcessorPerInlineKey,
     ProcessedIsRecorded, AnnouncedAtMostOnce, jobVars, ledgerVars, At, Key
<1>. QED  BY <1>2, <1>3 DEF IInv

LEMMA TakeJobKeepsIInv ==
  ASSUME IInv, NEW w \in Workers, NEW j \in Jobs, TakeJob(w, j)
  PROVE  IInv'
<1>. USE DEF TakeJob, channelVars, ledgerVars, At, Key
<1>1. /\ j[1] \in Keys /\ j[2] \in 1 .. MaxCopies /\ j = <<j[1], j[2]>>
      /\ w \in Runners /\ w \notin Requests
  BY JobParts, RunnersAreDisjoint DEF Runners
<1>2. /\ j[1] \in sent /\ ~(j[2] > delivered[j[1]])
      /\ tries[j] < MaxTries /\ stalls[j] <= MaxStalls
      /\ event[j[1]] # "none"
  <2>. DEFINE k == j[1]
              n == j[2]
  <2>1. jobState[<<k, n>>] = "waiting"
    BY <1>1
  <2>2. /\ k \in sent /\ ~(n > delivered[k])
        /\ tries[<<k, n>>] < MaxTries /\ stalls[<<k, n>>] <= MaxStalls
    BY <1>1, <2>1 DEF IInv, JobsAreBacked
  <2>. QED  BY <1>1, <2>2 DEF IInv, Scheduling, EventsAreScheduled
<1>3. /\ jobState'[j] = "active"
      /\ \A i \in Jobs \ {j} : jobState'[i] = jobState[i]
      /\ run'[w] = [step |-> "handle", job |-> j, key |-> j[1]]
      /\ \A p \in Runners \ {w} : run'[p] = run[p]
      /\ \A k \in Keys : delivered[k] \in Nat
      /\ UNCHANGED <<event, cache, acked, req, channelVars, tries, stalls,
                     ledgerVars, faults>>
  BY <1>1 DEF IInv, TypeOK, Channel!ChannelTypeOK
<1>4. TypeOK'
  BY <1>1 DEF IInv, TypeOK, Channel!ChannelTypeOK, RunSteps
<1>5. JobsAreBacked'
  <2>1. \A k \in Keys : delivered'[k] \in Nat /\ delivered'[k] >= delivered[k]
    BY <1>3
  <2>2. j[2] <= delivered'[j[1]]
    BY <1>1, <1>2, <1>3
  <2>. QED  BY <1>2, <1>3, <2>1, <2>2, JobChange
<1>6. RunsAreBacked'
  BY <1>1, <1>2, <1>3 DEF IInv, RunsAreBacked
<1>7. RequestsAreBacked' /\ Scheduling' /\ OneProcessorPerInlineKey'
  BY <1>1, <1>3 DEF IInv, RequestsAreBacked, Scheduling, EventsAreScheduled,
     OneAppenderPerKey, AckedIsDurable, OneProcessorPerInlineKey, Runners
<1>8. Booking'
  BY <1>3 DEF IInv, Booking, AnnouncersAreUnique, ProcessedIsRecorded,
     AnnouncedAtMostOnce
<1>. QED  BY <1>4, <1>5, <1>6, <1>7, <1>8 DEF IInv

LEMMA RequeueKeepsIInv ==
  ASSUME IInv, NEW j \in Jobs, Requeue(j), faults' \in 0 .. MaxFaults
  PROVE  IInv'
<1>. USE DEF Requeue, channelVars, ledgerVars, At, Key
<1>1. /\ j[1] \in Keys /\ j[2] \in 1 .. MaxCopies /\ j = <<j[1], j[2]>>
  BY JobParts
<1>2. /\ j[1] \in sent /\ ~(j[2] > delivered[j[1]])
      /\ tries[j] < MaxTries /\ stalls[j] <= MaxStalls
  <2>. DEFINE k == j[1]
              n == j[2]
  <2>1. jobState[<<k, n>>] = "active"
    BY <1>1
  <2>. QED  BY <1>1, <2>1 DEF IInv, JobsAreBacked
<1>3. /\ jobState'[j] \in {"failed", "waiting"}
      /\ jobState'[j] = "waiting" => stalls'[j] <= MaxStalls
      /\ stalls' \in [Jobs -> 0 .. MaxStalls + 1]
      /\ \A i \in Jobs \ {j} : jobState'[i] = jobState[i]
                              /\ stalls'[i] = stalls[i]
      /\ \A k \in Keys : delivered[k] \in Nat
  BY <1>2, BoundsAreNaturals DEF IInv, TypeOK, Channel!ChannelTypeOK
<1>4. TypeOK'
  BY <1>3 DEF IInv, TypeOK, Channel!ChannelTypeOK
<1>5. JobsAreBacked'
  <2>1. \A k \in Keys : delivered'[k] \in Nat /\ delivered'[k] >= delivered[k]
    BY <1>3
  <2>2. j[2] <= delivered'[j[1]]
    BY <1>1, <1>2, <1>3
  <2>. QED  BY <1>2, <1>3, <2>1, <2>2, JobChange
<1>6. /\ RequestsAreBacked' /\ RunsAreBacked' /\ Scheduling' /\ Booking'
      /\ OneProcessorPerInlineKey'
  BY DEF IInv, RequestsAreBacked, RunsAreBacked, Scheduling,
     EventsAreScheduled, OneAppenderPerKey, AckedIsDurable, Booking,
     AnnouncersAreUnique, OneProcessorPerInlineKey, ProcessedIsRecorded,
     AnnouncedAtMostOnce
<1>. QED  BY <1>4, <1>5, <1>6 DEF IInv

-----------------------------------------------------------------------------
(* Steps of the processor                                                  *)

(* What a processor step leaves alone: requests, outbox and queue.         *)
LEMMA StepFrame ==
  ASSUME IInv, NEW p \in Runners, NEW s \in RunSteps \ {"idle"}, Step(p, s),
         run[p].step # "idle",
         UNCHANGED <<cache, acked, req, channelVars, jobVars>>
  PROVE  /\ run[p].key \in Keys /\ event[run[p].key] # "none"
         /\ run'[p] = [run[p] EXCEPT !.step = s]
         /\ run'[p].step = s /\ run'[p].key = run[p].key
         /\ run'[p].job = run[p].job
         /\ \A q \in Runners \ {p} : run'[q] = run[q]
         /\ run' \in [Runners -> [step : RunSteps, job : Jobs \cup {NoJob},
                                  key : Keys \cup {NoKey}]]
         /\ JobsAreBacked' /\ OneProcessorPerInlineKey'
<1>. USE DEF IInv, Step
<1>1. run[p].key \in Keys /\ event[run[p].key] # "none"
  BY DEF RunsAreBacked
<1>2. /\ run'[p] = [run[p] EXCEPT !.step = s]
      /\ run'[p].step = s /\ run'[p].key = run[p].key
      /\ run'[p].job = run[p].job
      /\ \A q \in Runners \ {p} : run'[q] = run[q]
      /\ run' \in [Runners -> [step : RunSteps, job : Jobs \cup {NoJob},
                               key : Keys \cup {NoKey}]]
  BY DEF TypeOK
<1>3. JobsAreBacked'
  BY JobsUnchanged DEF channelVars, jobVars
<1>4. OneProcessorPerInlineKey'
  BY <1>2 DEF OneProcessorPerInlineKey, Runners
<1>. QED  BY <1>1, <1>2, <1>3, <1>4

(* Moving on without touching the event or the ledger.                     *)
LEMMA MoveOnKeepsIInv ==
  ASSUME IInv, NEW p \in Runners, NEW s \in {"done", "catch", "thrown"},
         Step(p, s), run[p].step # "idle",
         s = "done" => run[p].step = "audit",
         faults' \in 0 .. MaxFaults,
         UNCHANGED <<event, cache, acked, req, channelVars, jobVars,
                     ledgerVars>>
  PROVE  IInv'
<1>. USE DEF channelVars, jobVars, ledgerVars, At, Key
<1>1. s \in RunSteps \ {"idle"}
  BY DEF RunSteps
<1>2. /\ run[p].key \in Keys /\ event[run[p].key] # "none"
      /\ run'[p].step = s /\ run'[p].key = run[p].key
      /\ run'[p].job = run[p].job
      /\ \A q \in Runners \ {p} : run'[q] = run[q]
      /\ run' \in [Runners -> [step : RunSteps, job : Jobs \cup {NoJob},
                               key : Keys \cup {NoKey}]]
      /\ JobsAreBacked' /\ OneProcessorPerInlineKey'
  BY <1>1, StepFrame
<1>3. TypeOK'
  BY <1>2 DEF IInv, TypeOK, Channel!ChannelTypeOK
<1>4. RequestsAreBacked' /\ Scheduling'
  BY DEF IInv, RequestsAreBacked, Scheduling, EventsAreScheduled,
     OneAppenderPerKey, AckedIsDurable
<1>5. RunsAreBacked'
  BY <1>2 DEF IInv, RunsAreBacked
<1>6. Booking'
  BY <1>2 DEF IInv, Booking, AnnouncersAreUnique, ProcessedIsRecorded,
     AnnouncedAtMostOnce
<1>. QED  BY <1>2, <1>3, <1>4, <1>5, <1>6 DEF IInv

LEMMA QuietStepKeepsIInv ==
  ASSUME IInv, NEW p \in Runners,
         AuditProcessed(p) \/ Throw(p) \/ CatchFails(p)
  PROVE  IInv'
<1>1. CASE AuditProcessed(p)
  BY <1>1, MoveOnKeepsIInv DEF AuditProcessed, IInv, TypeOK
<1>2. CASE Throw(p)
  BY <1>2, MoveOnKeepsIInv DEF Throw, IInv, TypeOK
<1>3. CASE CatchFails(p)
  <2>1. faults' \in 0 .. MaxFaults
    BY <1>3, BoundsAreNaturals DEF CatchFails, IInv, TypeOK
  <2>. QED  BY <1>3, <2>1, MoveOnKeepsIInv DEF CatchFails
<1>. QED  BY <1>1, <1>2, <1>3

(* The status of the event changes; it existed before.                     *)
LEMMA StatusKeepsIInv ==
  ASSUME IInv, NEW p \in Runners, MarkProcessed(p) \/ Catch(p)
  PROVE  IInv'
<1>. USE DEF MarkProcessed, Catch, SetStatus, channelVars, jobVars,
         ledgerVars, At, Key
<1>. DEFINE k == run[p].key
            s == IF run[p].step = "mark" THEN "audit" ELSE "thrown"
<1>1. /\ s \in RunSteps \ {"idle"} /\ Step(p, s) /\ run[p].step # "idle"
      /\ UNCHANGED <<cache, acked, req, channelVars, jobVars, ledgerVars,
                     faults>>
  BY DEF RunSteps
<1>2. /\ k \in Keys /\ event[k] # "none"
      /\ run'[p].step = s /\ run'[p].key = k /\ run'[p].job = run[p].job
      /\ \A q \in Runners \ {p} : run'[q] = run[q]
      /\ run' \in [Runners -> [step : RunSteps, job : Jobs \cup {NoJob},
                               key : Keys \cup {NoKey}]]
      /\ JobsAreBacked' /\ OneProcessorPerInlineKey'
  BY <1>1, StepFrame
<1>3. /\ event' \in [Keys -> {"none", "RECEIVED", "PROCESSED", "FAILED"}]
      /\ \A j \in Keys : event'[j] = "none" <=> event[j] = "none"
      /\ \A j \in Keys \ {k} : event'[j] = event[j]
      /\ event'[k] = "PROCESSED" => run[p].step = "mark"
  BY <1>2 DEF IInv, TypeOK
<1>4. TypeOK'
  BY <1>1, <1>2, <1>3 DEF IInv, TypeOK, Channel!ChannelTypeOK
<1>5. RequestsAreBacked'
  BY <1>1, <1>3 DEF IInv, RequestsAreBacked
<1>6. Scheduling'
  BY <1>1, <1>3, <1>4 DEF IInv, TypeOK, Scheduling, EventsAreScheduled,
     OneAppenderPerKey, AckedIsDurable, Channel!ChannelTypeOK, Keys
<1>7. run[p].step = "mark" => k \in recorded
  BY DEF IInv, RunsAreBacked
<1>8. RunsAreBacked'
  BY <1>1, <1>2, <1>3, <1>7 DEF IInv, RunsAreBacked
<1>9. ProcessedIsRecorded' /\ AnnouncedAtMostOnce' /\ AnnouncersAreUnique'
  BY <1>1, <1>2, <1>3, <1>7 DEF IInv, Booking, AnnouncersAreUnique,
     ProcessedIsRecorded, AnnouncedAtMostOnce
<1>. QED  BY <1>2, <1>4, <1>5, <1>6, <1>8, <1>9 DEF IInv, Booking

(* The ledger row of a key is created once, by the run that announces it.  *)
LEMMA HandleKeepsIInv ==
  ASSUME IInv, NEW p \in Runners, Handle(p)
  PROVE  IInv'
<1>. USE DEF channelVars, jobVars, ledgerVars, At, Key
<1>. DEFINE k == run[p].key
            s == IF ~HasPayload(k) THEN "catch"
                 ELSE IF k \in recorded THEN "mark" ELSE "announce"
<1>1. /\ s \in RunSteps \ {"idle"} /\ Step(p, s) /\ run[p].step # "idle"
      /\ UNCHANGED <<event, cache, acked, req, channelVars, jobVars,
                     announced, faults>>
  BY DEF RunSteps, Handle
<1>2. /\ k \in Keys /\ event[k] # "none"
      /\ run'[p].step = s /\ run'[p].key = k /\ run'[p].job = run[p].job
      /\ \A q \in Runners \ {p} : run'[q] = run[q]
      /\ run' \in [Runners -> [step : RunSteps, job : Jobs \cup {NoJob},
                               key : Keys \cup {NoKey}]]
      /\ JobsAreBacked' /\ OneProcessorPerInlineKey'
  BY <1>1, StepFrame
<1>3. /\ recorded \subseteq recorded' /\ recorded' \subseteq recorded \cup {k}
      /\ s = "mark" => k \in recorded
      /\ s = "announce" => k \in recorded' /\ k \notin recorded
      /\ s \notin {"done", "audit"}
  BY DEF Handle
<1>4. TypeOK'
  BY <1>1, <1>2, <1>3 DEF IInv, TypeOK, Channel!ChannelTypeOK
<1>5. RequestsAreBacked' /\ Scheduling'
  BY <1>1 DEF IInv, RequestsAreBacked, Scheduling, EventsAreScheduled,
     OneAppenderPerKey, AckedIsDurable
<1>6. RunsAreBacked'
  BY <1>1, <1>2, <1>3 DEF IInv, RunsAreBacked
<1>7. ProcessedIsRecorded' /\ AnnouncedAtMostOnce'
  BY <1>1, <1>3 DEF IInv, Booking, ProcessedIsRecorded, AnnouncedAtMostOnce
<1>8. AnnouncersAreUnique'
  <2>1. \A j \in Keys : j \notin recorded' => announced'[j] = 0
    BY <1>1, <1>3 DEF IInv, Booking, AnnouncersAreUnique
  <2>2. ASSUME NEW q \in Runners, run[q].step = "announce"
        PROVE  run[q].key \in recorded
    BY <2>2 DEF IInv, RunsAreBacked
  <2>3. ASSUME NEW q \in Runners, run'[q].step = "announce"
        PROVE  /\ announced'[run'[q].key] = 0
               /\ \A t \in Runners \ {q} :
                     run'[t].step = "announce" => run'[t].key # run'[q].key
    <3>1. CASE q = p
      BY <1>1, <1>2, <1>3, <2>2, <2>3, <3>1
      DEF IInv, Booking, AnnouncersAreUnique
    <3>2. CASE q # p
      BY <1>1, <1>2, <1>3, <2>2, <2>3, <3>2
      DEF IInv, Booking, AnnouncersAreUnique
    <3>. QED  BY <3>1, <3>2
  <2>. QED  BY <2>1, <2>3 DEF AnnouncersAreUnique
<1>. QED  BY <1>2, <1>4, <1>5, <1>6, <1>7, <1>8 DEF IInv, Booking

LEMMA AnnounceKeepsIInv ==
  ASSUME IInv, NEW p \in Runners, Announce(p)
  PROVE  IInv'
<1>. USE DEF Announce, channelVars, jobVars, ledgerVars, At, Key
<1>. DEFINE k == run[p].key
<1>1. "mark" \in RunSteps \ {"idle"} /\ run[p].step # "idle"
  BY DEF RunSteps
<1>2. /\ k \in Keys /\ event[k] # "none"
      /\ run'[p].step = "mark" /\ run'[p].key = k /\ run'[p].job = run[p].job
      /\ \A q \in Runners \ {p} : run'[q] = run[q]
      /\ run' \in [Runners -> [step : RunSteps, job : Jobs \cup {NoJob},
                               key : Keys \cup {NoKey}]]
      /\ JobsAreBacked' /\ OneProcessorPerInlineKey'
  BY <1>1, StepFrame
<1>3. k \in recorded /\ announced[k] = 0
  BY DEF IInv, RunsAreBacked, Booking, AnnouncersAreUnique
<1>4. announced'[k] = 1 /\ \A j \in Keys \ {k} : announced'[j] = announced[j]
  BY <1>2, <1>3 DEF IInv, TypeOK
<1>5. TypeOK'
  BY <1>2, <1>4 DEF IInv, TypeOK, Channel!ChannelTypeOK
<1>6. RequestsAreBacked' /\ Scheduling'
  BY DEF IInv, RequestsAreBacked, Scheduling, EventsAreScheduled,
     OneAppenderPerKey, AckedIsDurable
<1>7. RunsAreBacked'
  BY <1>2, <1>3 DEF IInv, RunsAreBacked
<1>8. ProcessedIsRecorded' /\ AnnouncedAtMostOnce'
  BY <1>4 DEF IInv, Booking, ProcessedIsRecorded, AnnouncedAtMostOnce
<1>9. AnnouncersAreUnique'
  <2>1. ASSUME NEW q \in Runners \ {p}, run[q].step = "announce"
        PROVE  run[q].key # k /\ run[q].key \in Keys
    BY <2>1 DEF IInv, RunsAreBacked, Booking, AnnouncersAreUnique
  <2>. QED  BY <1>2, <1>3, <1>4, <2>1 DEF IInv, Booking, AnnouncersAreUnique
<1>. QED  BY <1>2, <1>5, <1>6, <1>7, <1>8, <1>9 DEF IInv, Booking

-----------------------------------------------------------------------------

LEMMA NextKeepsIInv == IInv /\ [Next]_vars => IInv'
<1>. SUFFICES ASSUME IInv, [Next]_vars PROVE IInv'
  OBVIOUS
<1>1. ASSUME NEW p \in Runners, Process(p) PROVE IInv'
  BY <1>1, HandleKeepsIInv, AnnounceKeepsIInv, StatusKeepsIInv,
     QuietStepKeepsIInv DEF Process
<1>2. ASSUME NEW r \in Requests,
             \/ \E k \in Keys : Arrive(r, k)
             \/ IngestStep(r)
             \/ Abandon(r)
      PROVE  IInv'
  BY <1>2, MoveKeepsIInv, InsertSignedKeepsIInv, AppendSignedKeepsIInv,
     InsertIntegratedKeepsIInv, InsertInlineKeepsIInv, FinishInlineKeepsIInv,
     AnswerKeepsIInv, AbandonKeepsIInv DEF IngestStep
<1>3. ASSUME NEW k \in Keys,
             \/ CacheExpires(k)
             \/ EnqueueWebhook(k)
             \/ RetireRow(k)
             \/ ReplayRow(k)
      PROVE  IInv'
  BY <1>3, ExpiryKeepsIInv, EnqueueKeepsIInv, RowKeepsIInv
<1>4. ASSUME NEW w \in Workers,
             \/ \E j \in Jobs : TakeJob(w, j)
             \/ FinishJob(w)
             \/ CrashWorker(w)
      PROVE  IInv'
  BY <1>4, TakeJobKeepsIInv, FinishJobKeepsIInv, CrashKeepsIInv
<1>5. ASSUME NEW j \in Jobs, RecoverStalled(j) \/ LoseLock(j)
      PROVE  IInv'
  <2>1. faults' \in 0 .. MaxFaults
    BY <1>5, BoundsAreNaturals DEF RecoverStalled, LoseLock, IInv, TypeOK
  <2>. QED  BY <1>5, <2>1, RequeueKeepsIInv DEF RecoverStalled, LoseLock
<1>6. ASSUME NEW p \in Runners, CatchFails(p) PROVE IInv'
  BY <1>6, QuietStepKeepsIInv
<1>7. CASE UNCHANGED vars
  BY <1>7 DEF IInv, TypeOK, RequestsAreBacked, RunsAreBacked, JobsAreBacked,
     Scheduling, Booking, EventsAreScheduled, OneAppenderPerKey,
     AckedIsDurable, ProcessedIsRecorded, AnnouncedAtMostOnce,
     AnnouncersAreUnique, OneProcessorPerInlineKey, Channel!ChannelTypeOK,
     At, Key, vars, channelVars, jobVars, ledgerVars
<1>. QED  BY <1>1, <1>2, <1>3, <1>4, <1>5, <1>6, <1>7
          DEF Next, WorkerStep, Runners

(* IInv holds in every reachable state, for any keys, requests, workers    *)
(* and limits.                                                             *)
THEOREM PipelineInvariant == Spec => []IInv
<1>1. Init => IInv
  BY InitIInv
<1>2. IInv /\ [Next]_vars => IInv'
  BY NextKeepsIInv
<1>. QED  BY <1>1, <1>2, PTL DEF Spec

(* Requests, events, outbox rows, jobs and runs keep their types; no job   *)
(* is tried more than the queue's attempts allow.                          *)
THEOREM PipelineTypeCorrect == Spec => []TypeOK
<1>1. IInv => TypeOK
  BY DEF IInv
<1>. QED  BY <1>1, PipelineInvariant, PTL

(* An integrated event and its outbox row are always there together.       *)
THEOREM PipelineEventsAreScheduled == Spec => []EventsAreScheduled
<1>1. IInv => EventsAreScheduled
  BY DEF IInv, Scheduling
<1>. QED  BY <1>1, PipelineInvariant, PTL

(* A signed event is appended to the outbox at most once.                  *)
THEOREM PipelineOneAppender == Spec => []OneAppenderPerKey
<1>1. IInv => OneAppenderPerKey
  BY DEF IInv, Scheduling
<1>. QED  BY <1>1, PipelineInvariant, PTL

(* A 202 is only ever given for a durable event.                           *)
THEOREM PipelineAckedIsDurable == Spec => []AckedIsDurable
<1>1. IInv => AckedIsDurable
  BY DEF IInv, Scheduling
<1>. QED  BY <1>1, PipelineInvariant, PTL

(* A PROCESSED event is in the ledger, whatever jobs ran and failed.       *)
THEOREM PipelineProcessedIsRecorded == Spec => []ProcessedIsRecorded
<1>1. IInv => ProcessedIsRecorded
  BY DEF IInv, Booking
<1>. QED  BY <1>1, PipelineInvariant, PTL

(* Duplicate jobs, stalls and retries never announce revenue twice.        *)
THEOREM PipelineAnnouncesOnce == Spec => []AnnouncedAtMostOnce
<1>1. IInv => AnnouncedAtMostOnce
  BY DEF IInv, Booking
<1>. QED  BY <1>1, PipelineInvariant, PTL

(* One request alone processes an inline event.                            *)
THEOREM PipelineOneInlineProcessor == Spec => []OneProcessorPerInlineKey
<1>1. IInv => OneProcessorPerInlineKey
  BY DEF IInv
<1>. QED  BY <1>1, PipelineInvariant, PTL

-----------------------------------------------------------------------------
(* What becomes of a job shows in its event                                *)

(* Without a fault a worker's job is its own, from taking to finishing it. *)
JobsAreHeld ==
    /\ \A j \in Jobs : jobState[j] = "active" =>
          lock[j] \in Workers /\ run[lock[j]].step # "idle" /\ run[lock[j]].job = j
    /\ \A w \in Workers : run[w].step # "idle" =>
          jobState[run[w].job] = "active" /\ lock[run[w].job] = w

(* What a run has written is not RECEIVED, and is what it wrote if there   *)
(* is no other job of the key.                                             *)
RunsShow ==
    \A w \in Workers :
        LET k == run[w].key IN
        /\ run[w].step = "thrown" => event[k] # "RECEIVED"
        /\ delivered[k] = 1 /\ run[w].step = "thrown" => event[k] = "FAILED"
        /\ delivered[k] = 1 /\ run[w].step \in {"audit", "done"} =>
              event[k] = "PROCESSED"

(* Jobs are of keys from the outbox, requests process the other ones.      *)
RoutesArePartedInFlight ==
    /\ sent \cap InlineKeys = {}
    /\ \A r \in Requests : run[r].step # "idle" => run[r].key \in InlineKeys

FaultlessRunsShow == faults = 0 => JobsAreHeld /\ RunsShow

ShowInv == RoutesArePartedInFlight /\ FaultlessRunsShow /\ JobOutcomeIsVisible

LEMMA ShowInit == Init => ShowInv
<1>. SUFFICES ASSUME Init PROVE ShowInv
  OBVIOUS
<1>1. /\ \A p \in Runners : run[p].step = "idle"
      /\ \A j \in Jobs : jobState[j] = "none"
      /\ sent = {}
  BY DEF Init, IdleRun, Channel!ChannelInit
<1>2. Workers \subseteq Runners /\ Requests \subseteq Runners
  BY DEF Runners
<1>. QED  BY <1>1, <1>2 DEF ShowInv, RoutesArePartedInFlight, FaultlessRunsShow,
                            JobsAreHeld, RunsShow, JobOutcomeIsVisible

(* A job there is comes from the outbox, its key's event exists.           *)
LEMMA JobsHaveEvents ==
  ASSUME IInv, ShowInv, NEW j \in Jobs, jobState[j] # "none"
  PROVE  /\ j[1] \in Keys /\ j[1] \in sent /\ j[1] \notin InlineKeys
         /\ event[j[1]] # "none" /\ delivered[j[1]] > 0
         /\ delivered[j[1]] = 1 => j = <<j[1], 1>>
<1>1. PICK k \in Keys, n \in 1 .. MaxCopies : j = <<k, n>>
  BY DEF Jobs
<1>2. k \in sent /\ ~(n > delivered[k]) /\ delivered[k] \in Nat
  BY <1>1 DEF IInv, JobsAreBacked, TypeOK, Channel!ChannelTypeOK
<1>3. event[k] # "none" /\ k \notin InlineKeys
  BY <1>2 DEF IInv, Scheduling, EventsAreScheduled, ShowInv, RoutesArePartedInFlight
<1>4. n \in Nat /\ n >= 1 /\ n <= delivered[k]
  BY <1>2, BoundsAreNaturals
<1>. QED  BY <1>1, <1>2, <1>3, <1>4

(* Faults are only ever added.                                             *)
LEMMA FaultsOnlyGrow ==
  ASSUME IInv, faults' = faults + 1
  PROVE  FaultlessRunsShow' /\ JobOutcomeIsVisible'
<1>1. faults' # 0
  BY BoundsAreNaturals DEF IInv, TypeOK
<1>. QED  BY <1>1 DEF FaultlessRunsShow, JobOutcomeIsVisible

(* What requests, rows and caches do leaves jobs and their events alone.   *)
LEMMA OthersKeepShowInv ==
  ASSUME IInv, ShowInv,
         \A w \in Workers : run'[w] = run[w],
         \A r \in Requests : run'[r].step # "idle" => run'[r].key \in InlineKeys,
         \A k \in Keys \ InlineKeys : event[k] # "none" => event'[k] = event[k],
         sent' \cap InlineKeys = {},
         UNCHANGED <<delivered, jobState, lock, faults>>
  PROVE  ShowInv'
<1>1. RoutesArePartedInFlight'
  BY DEF RoutesArePartedInFlight
<1>2. ASSUME NEW j \in Jobs, jobState[j] # "none"
      PROVE  event'[j[1]] = event[j[1]]
  BY <1>2, JobsHaveEvents
<1>3. ASSUME faults = 0
      PROVE  JobsAreHeld' /\ RunsShow' /\ JobOutcomeIsVisible'
  <2>1. JobsAreHeld /\ RunsShow /\ JobOutcomeIsVisible
    BY <1>3 DEF ShowInv, FaultlessRunsShow
  <2>2. JobsAreHeld'
    <3>1. \A j \in Jobs : jobState[j] = "active" => run'[lock[j]] = run[lock[j]]
      BY <2>1 DEF JobsAreHeld
    <3>. QED  BY <2>1, <3>1 DEF JobsAreHeld
  <2>3. ASSUME NEW w \in Workers, run[w].step # "idle"
        PROVE  event'[run[w].key] = event[run[w].key]
    <3>1. run[w].job \in Jobs /\ run[w].key = run[w].job[1]
      BY <2>3 DEF IInv, RunsAreBacked, Runners
    <3>2. jobState[run[w].job] # "none"
      BY <2>1, <2>3 DEF JobsAreHeld
    <3>. QED  BY <1>2, <3>1, <3>2
  <2>4. RunsShow'
    <3>1. ASSUME NEW w \in Workers, run[w].step \in {"thrown", "audit", "done"}
          PROVE  event'[run[w].key] = event[run[w].key]
      BY <2>3, <3>1
    <3>. QED  BY <2>1, <3>1 DEF RunsShow
  <2>5. JobOutcomeIsVisible'
    BY <1>2, <2>1 DEF JobOutcomeIsVisible
  <2>. QED  BY <2>2, <2>4, <2>5
<1>. QED  BY <1>1, <1>3 DEF ShowInv, FaultlessRunsShow, JobOutcomeIsVisible

LEMMA IngestKeepsShowInv ==
  ASSUME IInv, ShowInv, NEW r \in Requests,
         \/ \E k \in Keys : Arrive(r, k)
         \/ IngestStep(r) \/ Abandon(r)
  PROVE  ShowInv'
<1>. USE DEF channelVars, jobVars, ledgerVars
<1>1. /\ \A w \in Workers : w \in Runners /\ w # r
      /\ \A q \in Requests : q \in Runners
      /\ run \in [Runners -> [step : RunSteps, job : Jobs \cup {NoJob},
                             key : Keys \cup {NoKey}]]
      /\ event \in [Keys -> {"none", "RECEIVED", "PROCESSED", "FAILED"}]
      /\ sent \cap InlineKeys = {}
      /\ \A q \in Requests : run[q].step # "idle" => run[q].key \in InlineKeys
  BY RunnersAreDisjoint DEF Runners, IInv, TypeOK, ShowInv, RoutesArePartedInFlight
<1>2. ASSUME UNCHANGED <<event, run, sent, delivered, jobVars, faults>>
      PROVE  ShowInv'
  BY <1>1, <1>2, OthersKeepShowInv
<1>3. CASE \E k \in Keys : Arrive(r, k)
  BY <1>2, <1>3 DEF Arrive
<1>4. CASE ReadCache(r) \/ ReadPrior(r) \/ LosesInsertRace(r) \/ WarmCache(r) \/ Reply(r)
  BY <1>2, <1>4 DEF ReadCache, ReadPrior, LosesInsertRace, WarmCache, Reply
<1>5. ASSUME Receive(r) PROVE \A k \in Keys : event[k] # "none" => event'[k] = event[k]
  BY <1>1, <1>5 DEF Receive, SetStatus
<1>6. CASE InsertSigned(r)
  BY <1>1, <1>5, <1>6, OthersKeepShowInv DEF InsertSigned
<1>7. CASE AppendSigned(r)
  <2>1. Key(r) \notin InlineKeys
    BY <1>7, RoutesAreDisjoint DEF AppendSigned, IInv, RequestsAreBacked
  <2>2. sent' \cap InlineKeys = {} /\ UNCHANGED <<delivered, event, run, jobVars, faults>>
    BY <1>1, <1>7, <2>1 DEF AppendSigned, Channel!Send
  <2>. QED  BY <1>1, <2>2, OthersKeepShowInv
<1>8. CASE InsertIntegrated(r)
  <2>1. Key(r) \notin InlineKeys
    BY <1>8, RoutesAreDisjoint DEF InsertIntegrated
  <2>2. sent' \cap InlineKeys = {} /\ UNCHANGED <<delivered, run, jobVars, faults>>
        /\ Receive(r)
    BY <1>1, <1>8, <2>1 DEF InsertIntegrated, Channel!Send
  <2>. QED  BY <1>1, <1>5, <2>2, OthersKeepShowInv
<1>9. CASE InsertInline(r)
  <2>1. /\ Key(r) \in InlineKeys
        /\ UNCHANGED <<sent, delivered, jobVars, faults>>
        /\ \/ Receive(r) /\ run' = [run EXCEPT ![r] = [step |-> "handle", job |-> NoJob,
                                                     key |-> Key(r)]]
           \/ UNCHANGED <<event, run>>
    BY <1>9 DEF InsertInline
  <2>2. \A k \in Keys : event[k] # "none" => event'[k] = event[k]
    BY <1>5, <2>1
  <2>3. /\ \A p \in Runners \ {r} : run'[p] = run[p]
        /\ run'[r] = run[r] \/ run'[r].key \in InlineKeys
    BY <1>1, <2>1
  <2>. QED  BY <1>1, <2>1, <2>2, <2>3, OthersKeepShowInv
<1>10. CASE FinishInline(r) \/ Abandon(r)
  <2>1. /\ run' = [run EXCEPT ![r] = IdleRun]
        /\ UNCHANGED <<event, sent, delivered, jobVars, faults>>
    BY <1>10 DEF FinishInline, Abandon
  <2>2. /\ \A p \in Runners \ {r} : run'[p] = run[p]
        /\ run'[r].step = "idle"
    BY <1>1, <2>1 DEF IdleRun
  <2>. QED  BY <1>1, <2>1, <2>2, OthersKeepShowInv
<1>. QED  BY <1>3, <1>4, <1>6, <1>7, <1>8, <1>9, <1>10 DEF IngestStep

LEMMA RowsKeepShowInv ==
  ASSUME IInv, ShowInv, NEW k \in Keys,
         CacheExpires(k) \/ RetireRow(k) \/ ReplayRow(k)
  PROVE  ShowInv'
<1>1. UNCHANGED <<event, run, sent, delivered, jobVars, faults>>
  BY DEF CacheExpires, RetireRow, ReplayRow, channelVars, Channel!Retire, Channel!Unpark
<1>. QED  BY <1>1, OthersKeepShowInv DEF jobVars, ShowInv, RoutesArePartedInFlight

(* A run goes a step on: what it writes is not RECEIVED, and fits its step. *)
LEMMA RunsKeepShowInv ==
  ASSUME IInv, ShowInv, NEW w \in Workers, NEW s \in RunSteps \ {"idle"},
         NEW e \in {"none", "RECEIVED", "PROCESSED", "FAILED"},
         run[w].step # "idle", Step(w, s),
         event' = [event EXCEPT ![run[w].key] = e],
         e = event[run[w].key] \/ e \in {"PROCESSED", "FAILED"},
         s = "thrown" => e = "FAILED",
         s = "audit" => e = "PROCESSED",
         s = "done" => run[w].step = "audit" /\ e = event[run[w].key],
         UNCHANGED <<channelVars, jobVars, faults>>
  PROVE  ShowInv'
<1>1. /\ \A q \in Workers : q \in Runners
      /\ \A r \in Requests : r \in Runners /\ r # w
      /\ run \in [Runners -> [step : RunSteps, job : Jobs \cup {NoJob},
                             key : Keys \cup {NoKey}]]
      /\ event \in [Keys -> {"none", "RECEIVED", "PROCESSED", "FAILED"}]
  BY RunnersAreDisjoint DEF Runners, IInv, TypeOK
<1>2. PICK k \in Keys, j \in Jobs : run[w].key = k /\ run[w].job = j /\ k = j[1]
  BY <1>1 DEF IInv, RunsAreBacked
<1>3. /\ run'[w].step = s /\ run'[w].key = k /\ run'[w].job = j
      /\ \A q \in Runners \ {w} : run'[q] = run[q]
  BY <1>1, <1>2 DEF Step
<1>4. event'[k] = e /\ \A i \in Keys \ {k} : event'[i] = event[i]
  BY <1>1, <1>2
<1>5. RoutesArePartedInFlight'
  BY <1>1, <1>3 DEF ShowInv, RoutesArePartedInFlight, channelVars
<1>6. ASSUME faults = 0 PROVE JobsAreHeld' /\ RunsShow' /\ JobOutcomeIsVisible'
  <2>1. JobsAreHeld /\ RunsShow /\ JobOutcomeIsVisible
    BY <1>6 DEF ShowInv, FaultlessRunsShow
  <2>2. jobState[j] = "active" /\ lock[j] = w
    BY <1>2, <2>1 DEF JobsAreHeld
  <2>3. delivered[k] = 1 => j = <<k, 1>>
    BY <1>2, <2>2, JobsHaveEvents
  <2>4. JobsAreHeld'
    <3>1. \A i \in Jobs : jobState[i] = "active" =>
             /\ lock[i] \in Workers
             /\ run'[lock[i]].job = run[lock[i]].job
             /\ run'[lock[i]].step # "idle"
      BY <1>1, <1>2, <1>3, <2>1 DEF JobsAreHeld
    <3>2. \A q \in Workers : run'[q].step # "idle" =>
             run[q].step # "idle" /\ run'[q].job = run[q].job
      BY <1>1, <1>2, <1>3
    <3>. QED  BY <2>1, <3>1, <3>2 DEF JobsAreHeld, jobVars
  <2>5. ASSUME NEW i \in Jobs, jobState[i] \in {"failed", "completed"}
        PROVE  /\ event[i[1]] # "RECEIVED" => event'[i[1]] # "RECEIVED"
               /\ delivered[i[1]] = 1 => event'[i[1]] = event[i[1]]
    <3>1. i[1] \in Keys /\ (delivered[i[1]] = 1 => i = <<i[1], 1>>)
      BY <2>5, JobsHaveEvents
    <3>2. delivered[i[1]] = 1 => i[1] # k
      BY <2>2, <2>3, <2>5, <3>1
    <3>. QED  BY <1>2, <1>4, <3>1, <3>2
  <2>6. JobOutcomeIsVisible'
    BY <1>6, <2>1, <2>5 DEF JobOutcomeIsVisible, channelVars, jobVars
  <2>7. ASSUME NEW q \in Workers, run[q].step # "idle", q # w
        PROVE  /\ run[q].key \in Keys
               /\ event[run[q].key] # "RECEIVED" => event'[run[q].key] # "RECEIVED"
               /\ delivered[run[q].key] = 1 => event'[run[q].key] = event[run[q].key]
    <3>1. PICK i \in Jobs : /\ run[q].job = i /\ run[q].key = i[1] /\ i[1] \in Keys
                            /\ jobState[i] = "active" /\ lock[i] = q
      BY <1>1, <2>1, <2>7 DEF IInv, RunsAreBacked, JobsAreHeld
    <3>2. delivered[i[1]] = 1 => i = <<i[1], 1>>
      BY <3>1, JobsHaveEvents
    <3>3. delivered[i[1]] = 1 => i[1] # k
      BY <2>2, <2>3, <2>7, <3>1, <3>2
    <3>. QED  BY <1>2, <1>4, <3>1, <3>3
  <2>8. RunsShow'
    <3>1. ASSUME NEW q \in Workers, q # w, run[q].step \in {"thrown", "audit", "done"}
          PROVE  /\ run[q].step = "thrown" => event'[run[q].key] # "RECEIVED"
                 /\ delivered[run[q].key] = 1 /\ run[q].step = "thrown" =>
                       event'[run[q].key] = "FAILED"
                 /\ delivered[run[q].key] = 1 /\ run[q].step \in {"audit", "done"} =>
                       event'[run[q].key] = "PROCESSED"
      BY <2>1, <2>7, <3>1 DEF RunsShow
    <3>2. /\ s = "thrown" => event'[k] = "FAILED"
          /\ delivered[k] = 1 /\ s \in {"audit", "done"} => event'[k] = "PROCESSED"
      BY <1>2, <1>4, <2>1 DEF RunsShow
    <3>3. \A q \in Workers \ {w} : run'[q] = run[q]
      BY <1>1, <1>3
    <3>. QED  BY <1>3, <3>1, <3>2, <3>3 DEF RunsShow, channelVars
  <2>. QED  BY <2>4, <2>6, <2>8
<1>. QED  BY <1>5, <1>6 DEF ShowInv, FaultlessRunsShow, JobOutcomeIsVisible

LEMMA ProcessKeepsShowInv ==
  ASSUME IInv, ShowInv, NEW p \in Runners, Process(p)
  PROVE  ShowInv'
<1>. USE DEF channelVars, jobVars, ledgerVars
<1>1. /\ run \in [Runners -> [step : RunSteps, job : Jobs \cup {NoJob},
                             key : Keys \cup {NoKey}]]
      /\ event \in [Keys -> {"none", "RECEIVED", "PROCESSED", "FAILED"}]
      /\ run[p].step # "idle" /\ run[p].key \in Keys
      /\ UNCHANGED <<channelVars, jobVars, faults>>
  BY DEF Process, Handle, Announce, MarkProcessed, AuditProcessed, Throw, Catch,
         IInv, TypeOK, RunsAreBacked
<1>2. PICK s \in RunSteps \ {"idle"},
           e \in {"none", "RECEIVED", "PROCESSED", "FAILED"} :
         /\ Step(p, s) /\ event' = [event EXCEPT ![run[p].key] = e]
         /\ e = event[run[p].key] \/ e \in {"PROCESSED", "FAILED"}
         /\ s = "thrown" => e = "FAILED"
         /\ s = "audit" => e = "PROCESSED"
         /\ s = "done" => run[p].step = "audit" /\ e = event[run[p].key]
  <2>1. ASSUME NEW s \in {"announce", "mark", "catch", "done"},
               Step(p, s), UNCHANGED event, s = "done" => run[p].step = "audit"
        PROVE  \E e \in {"none", "RECEIVED", "PROCESSED", "FAILED"} :
                 /\ event' = [event EXCEPT ![run[p].key] = e]
                 /\ e = event[run[p].key]
    BY <1>1, <2>1
  <2>2. {"announce", "mark", "catch", "done", "audit", "thrown"} \subseteq RunSteps \ {"idle"}
    BY DEF RunSteps
  <2>3. CASE Handle(p)
    <3> DEFINE s == IF ~HasPayload(run[p].key) THEN "catch"
                    ELSE IF run[p].key \in recorded THEN "mark" ELSE "announce"
    <3>1. s \in {"announce", "mark", "catch"} /\ Step(p, s) /\ UNCHANGED event
      BY <2>3 DEF Handle
    <3>. HIDE DEF s
    <3>. QED  BY <2>1, <2>2, <3>1
  <2>4. CASE Announce(p) \/ Throw(p) \/ AuditProcessed(p)
    BY <2>1, <2>2, <2>4 DEF Announce, Throw, AuditProcessed
  <2>5. CASE MarkProcessed(p)
    BY <2>2, <2>5 DEF MarkProcessed, SetStatus
  <2>6. CASE Catch(p)
    BY <2>2, <2>6 DEF Catch, SetStatus
  <2>. QED  BY <2>3, <2>4, <2>5, <2>6 DEF Process
<1>3. CASE p \in Workers
  BY <1>1, <1>2, <1>3, RunsKeepShowInv
<1>4. CASE p \in Requests
  <2>1. run[p].key \in InlineKeys
    BY <1>1, <1>4 DEF ShowInv, RoutesArePartedInFlight
  <2>2. /\ run'[p].key = run[p].key
        /\ \A q \in Runners \ {p} : run'[q] = run[q]
        /\ \A k \in Keys \ InlineKeys : event'[k] = event[k]
    BY <1>1, <1>2, <2>1 DEF Step
  <2>3. \A w \in Workers : run'[w] = run[w]
    BY <1>4, <2>2, RunnersAreDisjoint DEF Runners
  <2>4. \A r \in Requests : run'[r].step # "idle" => run'[r].key \in InlineKeys
    BY <1>4, <2>1, <2>2 DEF Runners, ShowInv, RoutesArePartedInFlight
  <2>5. sent' \cap InlineKeys = {}
    BY <1>1 DEF ShowInv, RoutesArePartedInFlight
  <2>. QED  BY <1>1, <2>2, <2>3, <2>4, <2>5, OthersKeepShowInv
<1>. QED  BY <1>3, <1>4 DEF Runners

LEMMA EnqueueKeepsShowInv ==
  ASSUME IInv, ShowInv, NEW k \in Keys, EnqueueWebhook(k)
  PROVE  ShowInv'
<1> DEFINE new == <<k, delivered[k] + 1>>
<1>1. /\ delivered \in [Keys -> Nat]
      /\ jobState \in [Jobs -> {"none", "waiting", "active", "completed", "failed"}]
      /\ delivered' = [delivered EXCEPT ![k] = @ + 1]
      /\ jobState' = [jobState EXCEPT ![new] = "waiting"]
      /\ delivered[k] < MaxCopies
      /\ UNCHANGED <<sent, event, lock, run, faults>>
  BY DEF EnqueueWebhook, Channel!Deliver, IInv, TypeOK, Channel!ChannelTypeOK
<1>2. new \in Jobs /\ jobState[new] = "none"
  <2>1. delivered[k] + 1 \in 1 .. MaxCopies /\ delivered[k] + 1 > delivered[k]
    BY <1>1, BoundsAreNaturals
  <2>. QED  BY <2>1 DEF IInv, JobsAreBacked, Jobs
<1>3. jobState'[new] = "waiting" /\ \A j \in Jobs \ {new} : jobState'[j] = jobState[j]
  BY <1>1, <1>2
<1>4. delivered'[k] = delivered[k] + 1
      /\ \A i \in Keys \ {k} : delivered'[i] = delivered[i]
  BY <1>1
<1>. HIDE DEF new
<1>5. ASSUME NEW j \in Jobs, jobState[j] # "none", delivered'[j[1]] = 1
      PROVE  delivered[j[1]] = 1
  <2>1. j[1] \in Keys /\ delivered[j[1]] > 0 /\ delivered[j[1]] \in Nat
    BY <1>1, <1>5, JobsHaveEvents
  <2>. QED  BY <1>4, <1>5, <2>1
<1>6. RoutesArePartedInFlight'
  BY <1>1 DEF ShowInv, RoutesArePartedInFlight
<1>7. ASSUME faults = 0 PROVE JobsAreHeld' /\ RunsShow' /\ JobOutcomeIsVisible'
  <2>1. JobsAreHeld /\ RunsShow /\ JobOutcomeIsVisible
    BY <1>7 DEF ShowInv, FaultlessRunsShow
  <2>2. \A w \in Workers : run[w].step # "idle" =>
           run[w].job \in Jobs /\ run[w].key = run[w].job[1]
    BY DEF IInv, RunsAreBacked, Runners
  <2>3. JobsAreHeld'
    BY <1>1, <1>2, <1>3, <2>1, <2>2 DEF JobsAreHeld
  <2>4. ASSUME NEW w \in Workers, run[w].step # "idle", delivered'[run[w].key] = 1
        PROVE  delivered[run[w].key] = 1
    <3>1. PICK j \in Jobs : run[w].job = j /\ run[w].key = j[1] /\ jobState[j] # "none"
      BY <2>1, <2>2, <2>4 DEF JobsAreHeld
    <3>. QED  BY <1>5, <2>4, <3>1
  <2>5. RunsShow'
    <3>1. ASSUME NEW w \in Workers, run[w].step \in {"thrown", "audit", "done"},
                 delivered'[run[w].key] = 1
          PROVE  delivered[run[w].key] = 1
      BY <2>4, <3>1
    <3>. QED  BY <1>1, <2>1, <3>1 DEF RunsShow
  <2>6. JobOutcomeIsVisible'
    BY <1>1, <1>2, <1>3, <1>5, <1>7, <2>1 DEF JobOutcomeIsVisible
  <2>. QED  BY <2>3, <2>5, <2>6
<1>. QED  BY <1>1, <1>6, <1>7 DEF ShowInv, FaultlessRunsShow, JobOutcomeIsVisible

LEMMA TakeJobKeepsShowInv ==
  ASSUME IInv, ShowInv, NEW w \in Workers, NEW j \in Jobs, TakeJob(w, j)
  PROVE  ShowInv'
<1>1. /\ run[w].step = "idle" /\ jobState[j] = "waiting"
      /\ jobState' = [jobState EXCEPT ![j] = "active"]
      /\ lock' = [lock EXCEPT ![j] = w]
      /\ run' = [run EXCEPT ![w] = [step |-> "handle", job |-> j, key |-> j[1]]]
      /\ UNCHANGED <<event, sent, delivered, faults>>
  BY DEF TakeJob, channelVars
<1>2. /\ \A q \in Workers : q \in Runners
      /\ \A r \in Requests : r \in Runners /\ r # w
      /\ run \in [Runners -> [step : RunSteps, job : Jobs \cup {NoJob},
                             key : Keys \cup {NoKey}]]
      /\ jobState \in [Jobs -> {"none", "waiting", "active", "completed", "failed"}]
      /\ lock \in [Jobs -> Workers \cup {NoWorker}]
  BY RunnersAreDisjoint DEF Runners, IInv, TypeOK
<1>3. /\ jobState'[j] = "active" /\ \A i \in Jobs \ {j} : jobState'[i] = jobState[i]
      /\ lock'[j] = w /\ \A i \in Jobs \ {j} : lock'[i] = lock[i]
      /\ run'[w].step = "handle" /\ run'[w].job = j /\ run'[w].key = j[1]
      /\ \A q \in Runners \ {w} : run'[q] = run[q]
  BY <1>1, <1>2
<1>4. RoutesArePartedInFlight'
  BY <1>1, <1>2, <1>3 DEF ShowInv, RoutesArePartedInFlight
<1>5. ASSUME faults = 0 PROVE JobsAreHeld' /\ RunsShow' /\ JobOutcomeIsVisible'
  <2>1. JobsAreHeld /\ RunsShow /\ JobOutcomeIsVisible
    BY <1>5 DEF ShowInv, FaultlessRunsShow
  <2>2. \A q \in Workers : run[q].step # "idle" => run[q].job \in Jobs
    BY DEF IInv, RunsAreBacked, Runners
  <2>3. JobsAreHeld'
    <3>1. ASSUME NEW i \in Jobs, jobState'[i] = "active"
          PROVE  lock'[i] \in Workers /\ run'[lock'[i]].step # "idle" /\ run'[lock'[i]].job = i
      <4>1. CASE i = j
        BY <1>3, <4>1
      <4>2. CASE i # j
        <5>1. /\ lock'[i] = lock[i] /\ lock[i] \in Workers
              /\ run[lock[i]].step # "idle" /\ run[lock[i]].job = i
          BY <1>3, <2>1, <3>1, <4>2 DEF JobsAreHeld
        <5>. QED  BY <1>1, <1>2, <1>3, <5>1
      <4>. QED  BY <4>1, <4>2
    <3>2. ASSUME NEW q \in Workers, run'[q].step # "idle"
          PROVE  jobState'[run'[q].job] = "active" /\ lock'[run'[q].job] = q
      <4>1. CASE q = w
        BY <1>3, <4>1
      <4>2. CASE q # w
        <5>1. /\ run'[q] = run[q] /\ run[q].job \in Jobs
              /\ jobState[run[q].job] = "active" /\ lock[run[q].job] = q
          BY <1>2, <1>3, <2>1, <2>2, <3>2, <4>2 DEF JobsAreHeld
        <5>. QED  BY <1>1, <1>3, <5>1
      <4>. QED  BY <4>1, <4>2
    <3>. QED  BY <3>1, <3>2 DEF JobsAreHeld
  <2>4. RunsShow'
    BY <1>1, <1>2, <1>3, <2>1 DEF RunsShow
  <2>5. JobOutcomeIsVisible'
    BY <1>1, <1>3, <1>5, <2>1 DEF JobOutcomeIsVisible
  <2>. QED  BY <2>3, <2>4, <2>5
<1>. QED  BY <1>1, <1>4, <1>5 DEF ShowInv, FaultlessRunsShow, JobOutcomeIsVisible

LEMMA FinishJobKeepsShowInv ==
  ASSUME IInv, ShowInv, NEW w \in Workers, FinishJob(w)
  PROVE  ShowInv'
<1>1. /\ run[w].step \in {"done", "thrown"} /\ run' = [run EXCEPT ![w] = IdleRun]
      /\ UNCHANGED <<event, sent, delivered, faults>>
  BY DEF FinishJob, channelVars
<1>2. /\ \A q \in Workers : q \in Runners
      /\ \A r \in Requests : r \in Runners /\ r # w
      /\ run \in [Runners -> [step : RunSteps, job : Jobs \cup {NoJob},
                             key : Keys \cup {NoKey}]]
      /\ jobState \in [Jobs -> {"none", "waiting", "active", "completed", "failed"}]
      /\ lock \in [Jobs -> Workers \cup {NoWorker}]
  BY RunnersAreDisjoint DEF Runners, IInv, TypeOK
<1>3. run'[w].step = "idle" /\ \A q \in Runners \ {w} : run'[q] = run[q]
  BY <1>1, <1>2 DEF IdleRun
<1>4. RoutesArePartedInFlight'
  BY <1>1, <1>2, <1>3 DEF ShowInv, RoutesArePartedInFlight
<1>5. ASSUME faults = 0 PROVE JobsAreHeld' /\ RunsShow' /\ JobOutcomeIsVisible'
  <2>1. JobsAreHeld /\ RunsShow /\ JobOutcomeIsVisible
    BY <1>5 DEF ShowInv, FaultlessRunsShow
  <2>2. PICK j \in Jobs : /\ run[w].job = j /\ run[w].key = j[1]
                          /\ jobState[j] = "active" /\ lock[j] = w
    BY <1>1, <1>2, <2>1 DEF IInv, RunsAreBacked, JobsAreHeld
  <2>3. PICK outcome \in {"completed", "failed", "waiting"} :
           /\ jobState' = [jobState EXCEPT ![j] = outcome]
           /\ lock' = [lock EXCEPT ![j] = NoWorker]
           /\ outcome = "completed" => run[w].step = "done"
           /\ outcome = "failed" => run[w].step = "thrown"
    BY <2>2 DEF FinishJob
  <2>4. /\ jobState'[j] = outcome /\ \A i \in Jobs \ {j} : jobState'[i] = jobState[i]
        /\ \A i \in Jobs \ {j} : lock'[i] = lock[i]
    BY <1>2, <2>3
  <2>5. JobsAreHeld'
    <3>1. ASSUME NEW i \in Jobs, jobState'[i] = "active"
          PROVE  lock'[i] \in Workers /\ run'[lock'[i]].step # "idle" /\ run'[lock'[i]].job = i
      <4>1. i # j
        BY <2>4, <3>1
      <4>2. /\ lock'[i] = lock[i] /\ lock[i] \in Workers
            /\ run[lock[i]].step # "idle" /\ run[lock[i]].job = i
        BY <2>1, <2>4, <3>1, <4>1 DEF JobsAreHeld
      <4>. QED  BY <1>2, <1>3, <2>2, <4>1, <4>2
    <3>2. ASSUME NEW q \in Workers, run'[q].step # "idle"
          PROVE  jobState'[run'[q].job] = "active" /\ lock'[run'[q].job] = q
      <4>1. q # w /\ run'[q] = run[q]
        BY <1>2, <1>3, <3>2
      <4>2. run[q].job \in Jobs /\ jobState[run[q].job] = "active" /\ lock[run[q].job] = q
        BY <1>2, <2>1, <3>2, <4>1 DEF IInv, RunsAreBacked, JobsAreHeld
      <4>. QED  BY <2>2, <2>4, <4>1, <4>2
    <3>. QED  BY <3>1, <3>2 DEF JobsAreHeld
  <2>6. RunsShow'
    BY <1>1, <1>2, <1>3, <2>1 DEF RunsShow
  <2>7. JobOutcomeIsVisible'
    <3>1. ASSUME NEW i \in Jobs
          PROVE  /\ jobState'[i] = "failed" => event[i[1]] # "RECEIVED"
                 /\ delivered[i[1]] = 1 /\ jobState'[i] = "failed" => event[i[1]] = "FAILED"
                 /\ delivered[i[1]] = 1 /\ jobState'[i] = "completed" =>
                       event[i[1]] = "PROCESSED"
      <4>1. CASE i = j
        BY <2>1, <2>2, <2>3, <2>4, <4>1 DEF RunsShow
      <4>2. CASE i # j
        BY <1>5, <2>1, <2>4, <4>2 DEF JobOutcomeIsVisible
      <4>. QED  BY <4>1, <4>2
    <3>. QED  BY <1>1, <3>1 DEF JobOutcomeIsVisible
  <2>. QED  BY <2>5, <2>6, <2>7
<1>. QED  BY <1>1, <1>4, <1>5 DEF ShowInv, FaultlessRunsShow, JobOutcomeIsVisible

(* Faults: a worker dies, loses its lock or cannot write.                  *)
LEMMA FaultsKeepShowInv ==
  ASSUME IInv, ShowInv,
         \/ \E w \in Workers : CrashWorker(w)
         \/ \E p \in Runners : CatchFails(p)
         \/ \E j \in Jobs : LoseLock(j)
  PROVE  ShowInv'
<1>1. faults' = faults + 1 /\ UNCHANGED sent
  BY DEF CrashWorker, CatchFails, LoseLock, Requeue, channelVars
<1>2. run \in [Runners -> [step : RunSteps, job : Jobs \cup {NoJob},
                           key : Keys \cup {NoKey}]]
      /\ \A r \in Requests : r \in Runners
  BY DEF IInv, TypeOK, Runners
<1>3. \A r \in Requests : run'[r].step # "idle" => run'[r].key \in InlineKeys
  <2>1. ASSUME NEW w \in Workers, CrashWorker(w)
        PROVE  \A r \in Requests : run'[r].step # "idle" => run'[r].key \in InlineKeys
    BY <1>2, <2>1 DEF CrashWorker, IdleRun, ShowInv, RoutesArePartedInFlight
  <2>2. ASSUME NEW p \in Runners, CatchFails(p)
        PROVE  \A r \in Requests : run'[r].step # "idle" => run'[r].key \in InlineKeys
    BY <1>2, <2>2 DEF CatchFails, Step, ShowInv, RoutesArePartedInFlight
  <2>3. ASSUME NEW j \in Jobs, LoseLock(j)
        PROVE  \A r \in Requests : run'[r].step # "idle" => run'[r].key \in InlineKeys
    BY <2>3 DEF LoseLock, Requeue, ShowInv, RoutesArePartedInFlight
  <2>. QED  BY <2>1, <2>2, <2>3
<1>. QED  BY <1>1, <1>3, FaultsOnlyGrow DEF ShowInv, RoutesArePartedInFlight

(* Without a fault no job stalls.                                          *)
LEMMA RecoveryKeepsShowInv ==
  ASSUME IInv, ShowInv, NEW j \in Jobs, RecoverStalled(j)
  PROVE  ShowInv'
<1>1. jobState[j] = "active" /\ Abandoned(j) /\ UNCHANGED <<sent, run, faults>>
  BY DEF RecoverStalled, Requeue, channelVars
<1>2. faults # 0
  BY <1>1 DEF ShowInv, FaultlessRunsShow, JobsAreHeld, Abandoned
<1>. QED  BY <1>1, <1>2 DEF ShowInv, FaultlessRunsShow, JobOutcomeIsVisible,
                            RoutesArePartedInFlight

LEMMA NextKeepsShowInv == IInv /\ ShowInv /\ [Next]_vars => ShowInv'
<1>. SUFFICES ASSUME IInv, ShowInv, [Next]_vars PROVE ShowInv'
  OBVIOUS
<1>1. CASE UNCHANGED vars
  BY <1>1, OthersKeepShowInv
     DEF vars, channelVars, jobVars, ShowInv, RoutesArePartedInFlight
<1>2. ASSUME NEW r \in Requests,
             (\E k \in Keys : Arrive(r, k)) \/ IngestStep(r) \/ Abandon(r)
      PROVE  ShowInv'
  BY <1>2, IngestKeepsShowInv
<1>3. ASSUME NEW p \in Runners, Process(p) PROVE ShowInv'
  BY <1>3, ProcessKeepsShowInv
<1>4. ASSUME NEW k \in Keys,
             CacheExpires(k) \/ EnqueueWebhook(k) \/ RetireRow(k) \/ ReplayRow(k)
      PROVE  ShowInv'
  BY <1>4, RowsKeepShowInv, EnqueueKeepsShowInv
<1>5. ASSUME NEW w \in Workers, (\E j \in Jobs : TakeJob(w, j)) \/ FinishJob(w)
      PROVE  ShowInv'
  BY <1>5, TakeJobKeepsShowInv, FinishJobKeepsShowInv
<1>6. CASE \/ \E w \in Workers : CrashWorker(w)
           \/ \E p \in Runners : CatchFails(p)
           \/ \E j \in Jobs : LoseLock(j)
  BY <1>6, FaultsKeepShowInv
<1>7. ASSUME NEW j \in Jobs, RecoverStalled(j) PROVE ShowInv'
  BY <1>7, RecoveryKeepsShowInv
<1>. QED  BY <1>1, <1>2, <1>3, <1>4, <1>5, <1>6, <1>7 DEF Next, WorkerStep, Runners

(* However many workers, attempts and copies of a job there are: unless    *)
(* one died, stalled or could not write, an event whose job used up its    *)
(* attempts is not RECEIVED any more, and shows what a single job came to. *)
THEOREM PipelineOutcomesShow == Spec => []JobOutcomeIsVisible
<1>1. Init => IInv /\ ShowInv
  BY InitIInv, ShowInit
<1>2. (IInv /\ ShowInv) /\ [Next]_vars => (IInv /\ ShowInv)'
  BY NextKeepsIInv, NextKeepsShowInv
<1>3. ShowInv => JobOutcomeIsVisible
  BY DEF ShowInv
<1>. QED  BY <1>1, <1>2, <1>3, PTL DEF Spec

(***************************************************************************)
(* The events of an organization that is offboarded                        *)
(***************************************************************************)

ReplayRec == [of : OrgEvents \cup {NoEvent}, to : Orgs, moves : BOOLEAN]

(* An event that has not come has no copy, and is of ours.                 *)
UnreceivedIsNowhere(e) ==
    eventRow[e] = "none" => Copies(e) = 0 /\ eventOrg[e] = "ours"

(* What is in quarantine is of ours, and a replay that found it there puts *)
(* its row where the event will be.                                        *)
QuarantineIsOurs(e) ==
    e \notin crossed =>
        /\ eventRow[e] = "QUARANTINED" => eventOrg[e] = "ours"
        /\ \A r \in Replayers :
              replay[r].of = e /\ ~replay[r].moves => replay[r].to = "ours"

(* The purge does not reach the row of an event that has moved away.       *)
MovedEventsKeepTheirRow(e) ==
    e \notin crossed /\ eventOrg[e] = "other" /\ eventRow[e] = "RECEIVED" =>
        outboxCopies[e]["other"] > 0 \/ HasJob(e)

(* Once offboarded, ours on its way is late or reopened, whatever its      *)
(* status.                                                                 *)
UnderWayIsExcused(e) ==
    offboarded /\ eventOrg[e] = "ours" /\ Copies(e) > 0 => e \in late \cup reopened

EventIInv(e) ==
    /\ offboarded /\ eventOrg[e] = "ours" /\ eventRow[e] \in {"RECEIVED", "PROCESSED", "FAILED"}
          => e \in late \cup reopened
    /\ eventRow[e] = "RECEIVED" =>
          \/ Copies(e) > 0 \/ e \in crossed \/ interrupted
          \/ \E u \in Operators : offboarding[u] = "purged"
    /\ e \notin crossed => Copies(e) <= 1
    /\ Copies(e) <= MaxCopiesOfEvent
    /\ eventRow[e] = "QUARANTINED" => offboarded
    /\ \A r \in Replayers : replay[r].of = e => eventRow[e] # "none"
    /\ UnreceivedIsNowhere(e)
    /\ QuarantineIsOurs(e)
    /\ MovedEventsKeepTheirRow(e)
    /\ UnderWayIsExcused(e)

OffboardIInv ==
    /\ OffboardTypeOK
    /\ \A e \in OrgEvents : EventIInv(e)

JobRec == [waiting : 0 .. MaxCopiesOfEvent, taken : 0 .. MaxCopiesOfEvent]

LEMMA CopyBounds == MaxCopiesOfEvent \in Nat \ {0} /\ NoEvent \notin OrgEvents
BY OffboardingOptions

(* The copies of an event are natural numbers.                             *)
LEMMA CopiesAreCounted ==
    ASSUME OffboardTypeOK, NEW e \in OrgEvents
    PROVE  /\ outboxCopies[e] \in [Orgs -> 0 .. MaxCopiesOfEvent]
           /\ outboxCopies[e]["ours"] \in Nat /\ outboxCopies[e]["other"] \in Nat
           /\ jobCopies[e] \in JobRec
           /\ jobCopies[e].waiting \in Nat /\ jobCopies[e].taken \in Nat
<1>1. outboxCopies[e] \in [Orgs -> 0 .. MaxCopiesOfEvent] /\ jobCopies[e] \in JobRec
  BY DEF OffboardTypeOK, JobRec
<1>. QED  BY <1>1, CopyBounds DEF Orgs, JobRec

LEMMA NoneInAll ==
    \A i, j, k, l \in Nat : i + j + k + l = 0 => j = 0 /\ k = 0 /\ l = 0
OBVIOUS

LEMMA StatusFollowsFromIInv == OffboardIInv => StatusTellsWhereEventsAre
<1>. SUFFICES ASSUME OffboardIInv PROVE StatusTellsWhereEventsAre
  OBVIOUS
<1>1. OffboardedStayQuarantined
  BY DEF OffboardIInv, EventIInv, OffboardedStayQuarantined, Open
<1>2. ReceivedEventsAreUnderWay
  <2>. SUFFICES ASSUME NEW e \in OrgEvents, eventRow[e] = "RECEIVED", Copies(e) > 0
                PROVE  RowsOf(e) > 0 \/ HasJob(e)
    BY DEF ReceivedEventsAreUnderWay, OffboardIInv, EventIInv
  <2>. QED  BY CopiesAreCounted DEF Copies, RowsOf, HasJob, OffboardIInv
<1>3. EventsAreUnderWayOnce
  BY DEF OffboardIInv, EventIInv, EventsAreUnderWayOnce
<1>. QED  BY <1>1, <1>2, <1>3 DEF OffboardIInv, StatusTellsWhereEventsAre

LEMMA OffboardInitIInv == OffboardInit => OffboardIInv
<1>. SUFFICES ASSUME OffboardInit PROVE OffboardIInv
  OBVIOUS
<1>1. OffboardTypeOK
  <2>1. /\ NoCopies \in [Orgs -> 0 .. MaxCopiesOfEvent]
        /\ [waiting |-> 0, taken |-> 0] \in JobRec
        /\ NoReplay \in ReplayRec
        /\ 0 \in 0 .. MaxOffboardFaults
    BY OffboardingOptions DEF NoCopies, NoReplay, JobRec, ReplayRec, Orgs
  <2>2. /\ outboxCopies \in [OrgEvents -> [Orgs -> 0 .. MaxCopiesOfEvent]]
        /\ jobCopies \in [OrgEvents -> JobRec]
        /\ replay \in [Replayers -> ReplayRec]
    BY <2>1 DEF OffboardInit
  <2>. QED  BY <2>1, <2>2 DEF OffboardInit, OffboardTypeOK, JobRec, ReplayRec, Orgs
<1>2. ASSUME NEW e \in OrgEvents PROVE EventIInv(e)
  <2>1. Copies(e) = 0
    BY DEF OffboardInit, NoCopies, Orgs, Copies, RowsOf
  <2>2. \A r \in Replayers : replay[r].of # e
    BY OffboardingOptions DEF OffboardInit, NoReplay
  <2>. QED  BY <2>1, <2>2, CopyBounds
           DEF OffboardInit, EventIInv, UnreceivedIsNowhere, QuarantineIsOurs,
               MovedEventsKeepTheirRow, UnderWayIsExcused
<1>. QED  BY <1>1, <1>2 DEF OffboardIInv

(* An event nothing is done to is as it was.                               *)
LEMMA UntouchedEventsKeepIInv ==
    ASSUME NEW e \in OrgEvents, EventIInv(e),
           eventRow'[e] = eventRow[e], eventOrg'[e] = eventOrg[e],
           outboxCopies'[e] = outboxCopies[e], jobCopies'[e] = jobCopies[e],
           offboarded' = offboarded, e \in late => e \in late',
           e \in reopened => e \in reopened', e \in crossed => e \in crossed',
           interrupted => interrupted',
           \A u \in Operators : offboarding[u] = "purged" =>
               offboarding'[u] = "purged" \/ interrupted',
           \A r \in Replayers : replay'[r] = replay[r] \/ replay'[r].of # e
    PROVE  EventIInv(e)'
<1>1. Copies(e)' = Copies(e) /\ HasJob(e)' = HasJob(e)
  BY DEF Copies, RowsOf, HasJob
<1>. QED  BY <1>1
         DEF EventIInv, UnreceivedIsNowhere, QuarantineIsOurs,
             MovedEventsKeepTheirRow, UnderWayIsExcused

LEMMA ReceiptKeepsIInv ==
    ASSUME OffboardIInv, NEW e \in OrgEvents, ReceiveEvent(e)
    PROVE  OffboardIInv'
<1>. USE CopyBounds DEF OffboardIInv
<1>1. OffboardTypeOK'
  BY DEF ReceiveEvent, OffboardTypeOK, Orgs
<1>2. ASSUME NEW f \in OrgEvents, f # e PROVE EventIInv(f)'
  BY <1>2, UntouchedEventsKeepIInv DEF ReceiveEvent, OffboardTypeOK
<1>3. EventIInv(e)'
  <2>1. Copies(e) = 0 /\ eventOrg[e] = "ours"
    BY DEF EventIInv, UnreceivedIsNowhere, ReceiveEvent
  <2>2. Copies(e)' = 1
    <3>1. /\ outboxCopies'[e]["ours"] = 1
          /\ outboxCopies'[e]["other"] = outboxCopies[e]["other"]
          /\ jobCopies'[e] = jobCopies[e]
      BY CopiesAreCounted DEF ReceiveEvent, OffboardTypeOK, Orgs
    <3>2. /\ outboxCopies[e]["other"] = 0
          /\ jobCopies[e].waiting = 0 /\ jobCopies[e].taken = 0
      BY <2>1, CopiesAreCounted, NoneInAll DEF Copies, RowsOf
    <3>. QED  BY <3>1, <3>2 DEF Copies, RowsOf
  <2>3. /\ eventRow'[e] = "RECEIVED" /\ eventOrg'[e] = "ours"
        /\ offboarded' => e \in late'
    BY <2>1 DEF ReceiveEvent, OffboardTypeOK, Purged
  <2>4. \A r \in Replayers : replay'[r].of # e
    BY DEF ReceiveEvent, EventIInv
  <2>. QED  BY <2>2, <2>3, <2>4
           DEF EventIInv, UnreceivedIsNowhere, QuarantineIsOurs,
               MovedEventsKeepTheirRow, UnderWayIsExcused
<1>. QED  BY <1>1, <1>2, <1>3

LEMMA PublishingKeepsIInv ==
    ASSUME OffboardIInv, NEW e \in OrgEvents, NEW o \in Orgs, PublishCopy(e, o)
    PROVE  OffboardIInv'
<1>. USE CopyBounds DEF OffboardIInv
<1>0. EventIInv(e)
  OBVIOUS
<1>1. /\ outboxCopies'[e] = [outboxCopies[e] EXCEPT ![o] = @ - 1]
      /\ jobCopies'[e] = [jobCopies[e] EXCEPT !.waiting = @ + 1]
      /\ outboxCopies[e][o] > 0
  BY DEF PublishCopy, OffboardTypeOK
<1>2. /\ Copies(e)' = Copies(e) /\ HasJob(e)' /\ Copies(e) > 0
      /\ outboxCopies'[e] \in [Orgs -> 0 .. MaxCopiesOfEvent]
      /\ jobCopies'[e] \in JobRec
  <2>. PICK row \in [Orgs -> 0 .. MaxCopiesOfEvent], j \in JobRec :
            row = outboxCopies[e] /\ j = jobCopies[e]
    BY CopiesAreCounted
  <2>1. /\ row["ours"] \in Nat /\ row["other"] \in Nat /\ j.waiting \in Nat /\ j.taken \in Nat
        /\ row[o] > 0 /\ row["ours"] + row["other"] + j.waiting + j.taken <= MaxCopiesOfEvent
    BY <1>0, <1>1, CopiesAreCounted DEF EventIInv, Copies, RowsOf
  <2>2. /\ outboxCopies'[e] = [row EXCEPT ![o] = @ - 1]
        /\ jobCopies'[e] = [j EXCEPT !.waiting = @ + 1]
    BY <1>1
  <2>. QED  BY <2>1, <2>2 DEF Copies, RowsOf, HasJob, Orgs, JobRec
<1>3. OffboardTypeOK'
  <2>. PICK row \in [Orgs -> 0 .. MaxCopiesOfEvent], j \in JobRec :
            row = outboxCopies'[e] /\ j = jobCopies'[e]
    BY <1>2
  <2>1. /\ outboxCopies' = [outboxCopies EXCEPT ![e] = row]
        /\ jobCopies' = [jobCopies EXCEPT ![e] = j]
    BY DEF PublishCopy, OffboardTypeOK
  <2>. QED  BY <2>1 DEF PublishCopy, OffboardTypeOK, JobRec
<1>4. ASSUME NEW f \in OrgEvents, f # e PROVE EventIInv(f)'
  BY <1>4, UntouchedEventsKeepIInv DEF PublishCopy, OffboardTypeOK
<1>5. EventIInv(e)'
  BY <1>0, <1>2 DEF PublishCopy, EventIInv, UnreceivedIsNowhere, QuarantineIsOurs,
                    MovedEventsKeepTheirRow, UnderWayIsExcused
<1>. QED  BY <1>3, <1>4, <1>5

LEMMA TakingKeepsIInv ==
    ASSUME OffboardIInv, NEW e \in OrgEvents, TakeCopy(e)
    PROVE  OffboardIInv'
<1>. USE CopyBounds DEF OffboardIInv
<1>0. EventIInv(e)
  OBVIOUS
<1>1. /\ Copies(e)' = Copies(e) /\ HasJob(e)' /\ Copies(e) > 0
      /\ jobCopies'[e] \in JobRec
  <2>. PICK j \in JobRec : j = jobCopies[e]
    BY CopiesAreCounted
  <2>1. /\ j.waiting \in Nat /\ j.taken \in Nat /\ j.waiting > 0
        /\ RowsOf(e) \in Nat /\ RowsOf(e)' = RowsOf(e)
        /\ RowsOf(e) + j.waiting + j.taken <= MaxCopiesOfEvent
    BY <1>0, CopiesAreCounted DEF EventIInv, Copies, RowsOf, TakeCopy
  <2>2. jobCopies'[e] = [j EXCEPT !.waiting = @ - 1, !.taken = @ + 1]
    BY DEF TakeCopy, OffboardTypeOK
  <2>3. /\ jobCopies'[e].waiting = j.waiting - 1 /\ jobCopies'[e].taken = j.taken + 1
        /\ jobCopies'[e] \in JobRec
    <3>1. /\ j.waiting - 1 \in 0 .. MaxCopiesOfEvent
          /\ j.taken + 1 \in 0 .. MaxCopiesOfEvent
      BY <2>1
    <3>2. jobCopies'[e] = [waiting |-> j.waiting - 1, taken |-> j.taken + 1]
      BY <2>2 DEF JobRec
    <3>. QED  BY <3>1, <3>2 DEF JobRec
  <2>4. /\ Copies(e) = RowsOf(e) + j.waiting + j.taken
        /\ Copies(e)' = RowsOf(e) + (j.waiting - 1) + (j.taken + 1)
        /\ HasJob(e)' <=> (j.waiting - 1) + (j.taken + 1) > 0
    BY <2>1, <2>3 DEF Copies, HasJob
  <2>. QED  BY <2>1, <2>3, <2>4
<1>2. OffboardTypeOK'
  <2>. PICK j \in JobRec : j = jobCopies'[e]
    BY <1>1
  <2>1. jobCopies' = [jobCopies EXCEPT ![e] = j]
    BY DEF TakeCopy, OffboardTypeOK
  <2>. QED  BY <2>1 DEF TakeCopy, OffboardTypeOK, JobRec
<1>3. ASSUME NEW f \in OrgEvents, f # e PROVE EventIInv(f)'
  BY <1>3, UntouchedEventsKeepIInv DEF TakeCopy, OffboardTypeOK
<1>4. EventIInv(e)'
  BY <1>0, <1>1 DEF TakeCopy, EventIInv, UnreceivedIsNowhere, QuarantineIsOurs,
                    MovedEventsKeepTheirRow, UnderWayIsExcused
<1>. QED  BY <1>2, <1>3, <1>4

(* A job can end of an event that was quarantined meanwhile: that is why   *)
(* what is under way must be excused before its status says so.            *)
LEMMA EndingKeepsIInv ==
    ASSUME OffboardIInv, NEW e \in OrgEvents, CopyEnds(e)
    PROVE  OffboardIInv'
<1>. USE CopyBounds DEF OffboardIInv
<1>. PICK s \in {"PROCESSED", "FAILED"}, again \in {0, 1} :
        /\ eventRow' = [eventRow EXCEPT ![e] = s]
        /\ jobCopies' = [jobCopies EXCEPT ![e].taken = @ - 1, ![e].waiting = @ + again]
  BY DEF CopyEnds
<1>0. EventIInv(e) /\ eventRow'[e] = s
  BY DEF OffboardTypeOK
<1>1. /\ Copies(e)' <= Copies(e) /\ Copies(e)' \in Nat /\ Copies(e) \in Nat /\ Copies(e) > 0
      /\ jobCopies'[e] \in JobRec
  <2>. PICK j \in JobRec : j = jobCopies[e]
    BY CopiesAreCounted
  <2>1. /\ j.waiting \in Nat /\ j.taken \in Nat /\ j.taken > 0
        /\ RowsOf(e) \in Nat /\ RowsOf(e)' = RowsOf(e)
        /\ RowsOf(e) + j.waiting + j.taken <= MaxCopiesOfEvent
    BY <1>0, CopiesAreCounted DEF EventIInv, Copies, RowsOf, CopyEnds
  <2>2. jobCopies'[e] = [j EXCEPT !.taken = @ - 1, !.waiting = @ + again]
    BY DEF OffboardTypeOK
  <2>3. /\ jobCopies'[e].waiting = j.waiting + again /\ jobCopies'[e].taken = j.taken - 1
        /\ jobCopies'[e] \in JobRec
    <3>1. /\ j.waiting + again \in 0 .. MaxCopiesOfEvent
          /\ j.taken - 1 \in 0 .. MaxCopiesOfEvent
      BY <2>1
    <3>2. jobCopies'[e] = [waiting |-> j.waiting + again, taken |-> j.taken - 1]
      BY <2>2 DEF JobRec
    <3>. QED  BY <3>1, <3>2 DEF JobRec
  <2>4. /\ Copies(e) = RowsOf(e) + j.waiting + j.taken
        /\ Copies(e)' = RowsOf(e) + (j.waiting + again) + (j.taken - 1)
    BY <2>1, <2>3 DEF Copies
  <2>. QED  BY <2>1, <2>3, <2>4
<1>2. OffboardTypeOK'
  <2>. PICK j \in JobRec : j = jobCopies'[e]
    BY <1>1
  <2>1. jobCopies' = [jobCopies EXCEPT ![e] = j]
    BY DEF OffboardTypeOK
  <2>. QED  BY <2>1 DEF CopyEnds, OffboardTypeOK, JobRec
<1>3. ASSUME NEW f \in OrgEvents, f # e PROVE EventIInv(f)'
  BY <1>3, UntouchedEventsKeepIInv DEF CopyEnds, OffboardTypeOK
<1>4. EventIInv(e)'
  BY <1>0, <1>1 DEF CopyEnds, EventIInv, UnreceivedIsNowhere, QuarantineIsOurs,
                    MovedEventsKeepTheirRow, UnderWayIsExcused
<1>. QED  BY <1>2, <1>3, <1>4

(* The stages before the purge.                                            *)
LEMMA StagesKeepIInv ==
    ASSUME OffboardIInv, NEW u \in Operators,
           DeleteOrg(u) \/ ArchiveOrg(u) \/ ShredOrg(u)
    PROVE  OffboardIInv'
<1>1. OffboardTypeOK'
  BY DEF OffboardIInv, OffboardTypeOK, DeleteOrg, ArchiveOrg, ShredOrg, Stage
<1>2. \A v \in Operators : offboarding[v] = "purged" => offboarding'[v] = "purged"
  BY DEF OffboardIInv, OffboardTypeOK, DeleteOrg, ArchiveOrg, ShredOrg, Stage
<1>3. UNCHANGED <<eventRow, eventOrg, outboxCopies, jobCopies, offboarded,
                  replay, late, reopened, crossed, interrupted>>
  BY DEF DeleteOrg, ArchiveOrg, ShredOrg
<1>4. ASSUME NEW f \in OrgEvents PROVE EventIInv(f)'
  BY <1>2, <1>3, UntouchedEventsKeepIInv DEF OffboardIInv
<1>. QED  BY <1>1, <1>4 DEF OffboardIInv

LEMMA PurgeKeepsIInv ==
    ASSUME OffboardIInv, NEW u \in Operators, PurgeOutbox(u)
    PROVE  OffboardIInv'
<1>. USE CopyBounds DEF OffboardIInv
<1>1. OffboardTypeOK'
  <2>1. ASSUME NEW e \in OrgEvents
        PROVE  [outboxCopies[e] EXCEPT !["ours"] = 0] \in [Orgs -> 0 .. MaxCopiesOfEvent]
    <3>. PICK row \in [Orgs -> 0 .. MaxCopiesOfEvent] : row = outboxCopies[e]
      BY CopiesAreCounted
    <3>1. 0 \in 0 .. MaxCopiesOfEvent
      OBVIOUS
    <3>2. \A o \in Orgs : [row EXCEPT !["ours"] = 0][o] \in 0 .. MaxCopiesOfEvent
      BY <3>1
    <3>. QED  BY <3>2
  <2>. QED  BY <2>1 DEF PurgeOutbox, Stage, OffboardTypeOK
<1>2. offboarding'[u] = "purged"
  BY DEF PurgeOutbox, Stage, OffboardTypeOK
<1>3. ASSUME NEW e \in OrgEvents PROVE EventIInv(e)'
  <2>1. /\ outboxCopies'[e]["ours"] = 0
        /\ outboxCopies'[e]["other"] = outboxCopies[e]["other"]
        /\ jobCopies'[e] = jobCopies[e]
    BY CopiesAreCounted DEF PurgeOutbox, Orgs
  <2>2. /\ Copies(e)' <= Copies(e) /\ Copies(e)' \in Nat /\ Copies(e) \in Nat
        /\ HasJob(e)' = HasJob(e)
    BY <2>1, CopiesAreCounted DEF Copies, RowsOf, HasJob
  <2>3. EventIInv(e)
    OBVIOUS
  <2>. QED  BY <1>2, <2>1, <2>2, <2>3
           DEF PurgeOutbox, EventIInv, UnreceivedIsNowhere, QuarantineIsOurs,
               MovedEventsKeepTheirRow, UnderWayIsExcused
<1>. QED  BY <1>1, <1>3

(* After the quarantine no event of ours is open.  What was in quarantine  *)
(* before, and under way, is excused since the offboarding that put it     *)
(* there; what is RECEIVED elsewhere has its row.                          *)
LEMMA QuarantineKeepsIInv ==
    ASSUME OffboardIInv, NEW u \in Operators, QuarantineEvents(u)
    PROVE  OffboardIInv'
<1>. USE DEF OffboardIInv
<1>1. OffboardTypeOK'
  BY DEF QuarantineEvents, Stage, OffboardTypeOK, Open
<1>2. ASSUME NEW e \in OrgEvents PROVE EventIInv(e)'
  <2>1. EventIInv(e) /\ Copies(e)' = Copies(e) /\ HasJob(e)' = HasJob(e)
    BY DEF QuarantineEvents, Copies, RowsOf, HasJob
  <2>2. eventRow'[e] = IF e \in Open THEN "QUARANTINED" ELSE eventRow[e]
    BY DEF QuarantineEvents
  <2>3. CASE e \in Open
    <3>1. Copies(e) > 0 => e \in late'
      BY <2>3, CopiesAreCounted DEF QuarantineEvents, Copies, HasJob, RowsOf
    <3>. QED  BY <2>1, <2>2, <2>3, <3>1
             DEF Open, QuarantineEvents, EventIInv, UnreceivedIsNowhere, QuarantineIsOurs,
                 MovedEventsKeepTheirRow, UnderWayIsExcused
  <2>4. CASE e \notin Open
    <3>1. eventRow'[e] = eventRow[e] /\ (e \in late \cup reopened => e \in (late \cup reopened)')
      BY <2>2, <2>4 DEF QuarantineEvents
    <3>2. eventOrg[e] = "ours" => eventRow[e] \in {"none", "QUARANTINED"}
      BY <2>4 DEF Open, OffboardTypeOK
    <3>3. eventOrg[e] = "ours" /\ Copies(e) > 0 => e \in (late \cup reopened)'
      BY <2>1, <3>1, <3>2, CopiesAreCounted
         DEF EventIInv, UnreceivedIsNowhere, UnderWayIsExcused, Copies, RowsOf
    <3>4. eventRow[e] = "RECEIVED" => Copies(e) > 0 \/ e \in crossed
      <4>. SUFFICES ASSUME eventRow[e] = "RECEIVED", e \notin crossed PROVE Copies(e) > 0
        OBVIOUS
      <4>1. eventOrg[e] = "other"
        BY <3>2 DEF OffboardTypeOK, Orgs
      <4>. QED  BY <2>1, <4>1, CopiesAreCounted
               DEF EventIInv, MovedEventsKeepTheirRow, HasJob, Copies, RowsOf
    <3>. QED  BY <2>1, <3>1, <3>2, <3>3, <3>4
             DEF QuarantineEvents, EventIInv, UnreceivedIsNowhere, QuarantineIsOurs,
                 MovedEventsKeepTheirRow, UnderWayIsExcused
  <2>. QED  BY <2>3, <2>4
<1>. QED  BY <1>1, <1>2

LEMMA FailureKeepsIInv ==
    ASSUME OffboardIInv, NEW u \in Operators, OffboardingFails(u)
    PROVE  OffboardIInv'
<1>1. OffboardTypeOK'
  BY OffboardingOptions DEF OffboardIInv, OffboardTypeOK, OffboardingFails
<1>2. \A v \in Operators : offboarding[v] = "purged" =>
          offboarding'[v] = "purged" \/ interrupted'
  BY DEF OffboardIInv, OffboardTypeOK, OffboardingFails
<1>3. ASSUME NEW f \in OrgEvents PROVE EventIInv(f)'
  BY <1>2, UntouchedEventsKeepIInv DEF OffboardIInv, OffboardingFails
<1>. QED  BY <1>1, <1>3 DEF OffboardIInv

LEMMA FindingKeepsIInv ==
    ASSUME OffboardIInv, NEW r \in Replayers, NEW e \in OrgEvents, NEW to \in Orgs,
           NEW moves \in BOOLEAN, FindQuarantined(r, e, to, moves)
    PROVE  OffboardIInv'
<1>. USE DEF OffboardIInv
<1>1. OffboardTypeOK'
  BY DEF FindQuarantined, OffboardTypeOK
<1>2. /\ replay'[r] = [of |-> e, to |-> to, moves |-> moves]
      /\ \A v \in Replayers : v # r => replay'[v] = replay[v]
  BY DEF FindQuarantined, OffboardTypeOK
<1>3. ASSUME NEW f \in OrgEvents, f # e PROVE EventIInv(f)'
  <2>1. \A v \in Replayers : replay'[v] = replay[v] \/ replay'[v].of # f
    BY <1>2, <1>3
  <2>. QED  BY <2>1, UntouchedEventsKeepIInv DEF FindQuarantined
<1>4. EventIInv(e)'
  <2>1. EventIInv(e) /\ Copies(e)' = Copies(e) /\ HasJob(e)' = HasJob(e)
    BY DEF FindQuarantined, Copies, RowsOf, HasJob
  <2>2. QuarantineIsOurs(e)'
    BY <1>2, <2>1 DEF FindQuarantined, EventIInv, QuarantineIsOurs
  <2>. QED  BY <1>2, <2>1, <2>2
           DEF FindQuarantined, EventIInv, UnreceivedIsNowhere,
               MovedEventsKeepTheirRow, UnderWayIsExcused
<1>. QED  BY <1>1, <1>3, <1>4

(* A replay that does not cross finds the event in quarantine, so of ours, *)
(* without a copy, and its row goes where the event goes.                  *)
LEMMA ReplayKeepsIInv ==
    ASSUME OffboardIInv, NEW r \in Replayers, ReplayEvent(r)
    PROVE  OffboardIInv'
<1>. USE CopyBounds DEF OffboardIInv
<1>. PICK x \in ReplayRec : x = replay[r]
  BY DEF OffboardTypeOK, ReplayRec
<1>. PICK e \in OrgEvents : e = x.of
  BY DEF ReplayEvent, ReplayRec
<1>0. EventIInv(e) /\ x.to \in Orgs /\ x.moves \in BOOLEAN
  BY DEF ReplayRec
<1>1. /\ eventRow'[e] = "RECEIVED"
      /\ eventOrg'[e] = IF x.moves THEN x.to ELSE eventOrg[e]
      /\ outboxCopies'[e] = [outboxCopies[e] EXCEPT ![x.to] = @ + 1]
      /\ jobCopies'[e] = jobCopies[e]
      /\ e \in reopened' /\ late' = late
      /\ e \notin crossed' => Copies(e) = 0 /\ e \notin crossed /\ eventRow[e] = "QUARANTINED"
      /\ replay'[r] = NoReplay /\ \A v \in Replayers : v # r => replay'[v] = replay[v]
  <2>1. e \notin crossed' => Copies(e) = 0 /\ e \notin crossed /\ eventRow[e] = "QUARANTINED"
    <3>1. e \notin crossed' =>
              /\ ~HasJob(e) /\ ~(RowsOf(e) > 0)
              /\ e \notin crossed /\ eventRow[e] = "QUARANTINED"
      BY DEF ReplayEvent
    <3>2. ~HasJob(e) /\ ~(RowsOf(e) > 0) => Copies(e) = 0
      <4>1. RowsOf(e) \in Nat
        BY CopiesAreCounted DEF RowsOf
      <4>. QED  BY <4>1, CopiesAreCounted DEF HasJob, Copies
    <3>. QED  BY <3>1, <3>2
  <2>. QED  BY <2>1, <1>0 DEF ReplayEvent, OffboardTypeOK
<1>2. /\ Copies(e)' = Copies(e) + 1 /\ Copies(e) \in Nat /\ Copies(e) < MaxCopiesOfEvent
      /\ outboxCopies'[e] \in [Orgs -> 0 .. MaxCopiesOfEvent]
      /\ outboxCopies'[e][x.to] > 0
  <2>. PICK row \in [Orgs -> 0 .. MaxCopiesOfEvent] : row = outboxCopies[e]
    BY CopiesAreCounted
  <2>1. row["ours"] \in Nat /\ row["other"] \in Nat
    BY CopiesAreCounted
  <2>2. /\ Copies(e) = row["ours"] + row["other"] + jobCopies[e].waiting + jobCopies[e].taken
        /\ jobCopies[e].waiting \in Nat /\ jobCopies[e].taken \in Nat
        /\ Copies(e) < MaxCopiesOfEvent
    BY CopiesAreCounted DEF Copies, RowsOf, ReplayEvent
  <2>3. outboxCopies'[e] = [row EXCEPT ![x.to] = @ + 1]
    BY <1>1
  <2>4. x.to = "ours" \/ x.to = "other"
    BY <1>0 DEF Orgs
  <2>. QED  BY <1>1, <2>1, <2>2, <2>3, <2>4 DEF Copies, RowsOf, Orgs
<1>3. OffboardTypeOK'
  <2>. PICK row \in [Orgs -> 0 .. MaxCopiesOfEvent] : row = outboxCopies'[e]
    BY <1>2
  <2>1. outboxCopies' = [outboxCopies EXCEPT ![e] = row]
    BY DEF ReplayEvent, OffboardTypeOK
  <2>2. /\ crossed' \subseteq OrgEvents /\ reopened' \subseteq OrgEvents
        /\ eventOrg' \in [OrgEvents -> Orgs]
        /\ replay' \in [Replayers -> ReplayRec]
    BY <1>0 DEF ReplayEvent, OffboardTypeOK, ReplayRec, NoReplay, Orgs
  <2>. QED  BY <2>1, <2>2 DEF ReplayEvent, OffboardTypeOK, ReplayRec
<1>4. ASSUME NEW f \in OrgEvents, f # e PROVE EventIInv(f)'
  <2>1. \A v \in Replayers : replay'[v] = replay[v] \/ replay'[v].of # f
    BY <1>1 DEF NoReplay
  <2>2. /\ eventRow'[f] = eventRow[f] /\ eventOrg'[f] = eventOrg[f]
        /\ outboxCopies'[f] = outboxCopies[f] /\ jobCopies'[f] = jobCopies[f]
        /\ f \in reopened => f \in reopened'
        /\ f \in crossed => f \in crossed'
    BY <1>4 DEF ReplayEvent, OffboardTypeOK
  <2>. QED  BY <2>1, <2>2, UntouchedEventsKeepIInv DEF ReplayEvent
<1>5. EventIInv(e)'
  <2>1. \A v \in Replayers : replay'[v].of = e => replay'[v] = replay[v]
    BY <1>1 DEF NoReplay
  <2>2. e \notin crossed' => e \notin crossed /\ eventOrg'[e] = x.to /\ Copies(e)' = 1
    BY <1>0, <1>1, <1>2 DEF EventIInv, QuarantineIsOurs
  <2>3. QuarantineIsOurs(e)'
    BY <1>0, <1>1, <2>1, <2>2 DEF EventIInv, QuarantineIsOurs
  <2>4. MovedEventsKeepTheirRow(e)'
    BY <1>2, <2>2 DEF MovedEventsKeepTheirRow
  <2>. QED  BY <1>1, <1>2, <2>2, <2>3, <2>4
           DEF EventIInv, UnreceivedIsNowhere, UnderWayIsExcused
<1>. QED  BY <1>3, <1>4, <1>5

LEMMA OffboardStepKeepsIInv ==
    ASSUME OffboardIInv, [OffboardNext]_offboardVars
    PROVE  OffboardIInv'
<1>1. CASE UNCHANGED offboardVars
  <2>1. ASSUME NEW e \in OrgEvents PROVE EventIInv(e)'
    BY <1>1, UntouchedEventsKeepIInv DEF offboardVars, OffboardIInv
  <2>. QED  BY <1>1, <2>1 DEF offboardVars, OffboardIInv, OffboardTypeOK
<1>2. CASE OffboardNext
  BY <1>2, ReceiptKeepsIInv, PublishingKeepsIInv, TakingKeepsIInv, EndingKeepsIInv,
     StagesKeepIInv, PurgeKeepsIInv, QuarantineKeepsIInv, FailureKeepsIInv,
     FindingKeepsIInv, ReplayKeepsIInv
     DEF OffboardNext
<1>. QED  BY <1>1, <1>2

(* Tenant offboarding: once it is through, the events of the organization  *)
(* stay in quarantine but for what was under way, came late or was         *)
(* replayed; a received event is on its way, and only once unless replays  *)
(* crossed.                                                                *)
THEOREM StatusAlwaysTells == EventsSpec => []StatusTellsWhereEventsAre
<1>1. EventsInit => OffboardIInv
  BY OffboardInitIInv DEF EventsInit
<1>2. OffboardIInv /\ [EventsNext]_<<part, vars, offboardVars>> => OffboardIInv'
  <2>1. [EventsNext]_<<part, vars, offboardVars>> => [OffboardNext]_offboardVars
    BY DEF EventsNext
  <2>. QED  BY <2>1, OffboardStepKeepsIInv
<1>. QED  BY <1>1, <1>2, StatusFollowsFromIInv, PTL DEF EventsSpec
=============================================================================
