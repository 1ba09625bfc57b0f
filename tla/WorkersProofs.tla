---------------------------- MODULE WorkersProofs ----------------------------
(***************************************************************************)
(* Proofs about the work done in the background, for any number of events, *)
(* workers, rules and schedules: what is sent out, what is watched and     *)
(* what is produced.                                                       *)
(***************************************************************************)
EXTENDS MCWorkers, NumberSets

(***************************************************************************)
(* Outbound webhooks                                                       *)
(***************************************************************************)

JobStates == {"none", "waiting", "active", "done", "failed"}
Steps == {"idle", "mark", "post", "record", "accepted", "finish", "retry"}

RowRec == [sub : Subs \cup {NoSub}, by : Publishers \cup {NoPublisher},
           status : Statuses, attempts : Nat]
JobRec == [state : JobStates, holder : Workers \cup {NoWorker},
           tries : 0 .. MaxTries, stalls : 0 .. MaxStalls]
WorkerRec == [at : Deliveries \cup {NoDelivery}, step : Steps, seen : Nat]
FanRec == [left : SUBSET Subs, row : Deliveries \cup {NoDelivery}]

(* Workers that have the delivery and may yet post it                      *)
Unposted(d) ==
    {w \in Workers : worker[w].at = d /\ worker[w].step \in {"mark", "post"}}

(* How often the job was taken at most, given how it stands                *)
Begun(d) ==
    IF job[d].state = "failed" THEN MaxTries + job[d].stalls
    ELSE IF job[d].state \in {"active", "done"}
         THEN job[d].tries + job[d].stalls + 1
         ELSE job[d].tries + job[d].stalls

JobIsConsistent(d) ==
    /\ job[d].state # "none" => row[d].sub # NoSub
    /\ job[d].state = "active" <=> job[d].holder # NoWorker
    /\ d \in marking => job[d].state = "failed"
    /\ job[d].state # "failed" => job[d].tries < MaxTries
    /\ \A w \in Workers : worker[w].at = d => job[d].state # "none"

PostsAreEarned(d) ==
    /\ row[d].status = "SUCCESS" => posts[d] > 0
    /\ \A w \in Workers :
          worker[w].at = d /\ worker[w].step = "accepted" => posts[d] > 0
    /\ IsFiniteSet(Unposted(d))
    /\ posts[d] + Cardinality(Unposted(d)) <= Begun(d)

(* A job that never stalled has one worker, which holds it or lost it for  *)
(* good, and which does not go on once it is done.                         *)
UnstalledIsQuiet(d) ==
    job[d].stalls = 0 =>
        /\ \A v, w \in Workers :
              worker[v].at = d /\ worker[w].at = d => v = w
        /\ \A w \in Workers : worker[w].at = d =>
              /\ job[d].holder = w \/ job[d].state = "failed"
              /\ d \notin marking
              /\ row[d].status = "SUCCESS" =>
                    d \in spared \/ worker[w].step = "finish"
        /\ row[d].status = "SUCCESS" /\ d \in marking => d \in spared

DeliveryIsSound(d) ==
    JobIsConsistent(d) /\ PostsAreEarned(d) /\ UnstalledIsQuiet(d)

(* A row that is not enqueued yet is one fan's, and has no job.            *)
FansHoldTheirRows ==
    /\ \A p \in Publishers : fan[p].row # NoDelivery =>
          row[fan[p].row].sub # NoSub /\ job[fan[p].row].state = "none"
    /\ \A p, q \in Publishers :
          fan[p].row # NoDelivery /\ fan[p].row = fan[q].row => p = q

RowsOf(p, s) == {d \in Deliveries : row[d].by = p /\ row[d].sub = s}

(* What is left of a fan is owed by its publish.                           *)
RowsAreOwed ==
    \A p \in Publishers, s \in Subs :
        /\ IsFiniteSet(RowsOf(p, s))
        /\ Cardinality(RowsOf(p, s)) + (IF s \in fan[p].left THEN 1 ELSE 0)
           <= publishes[p]

OutboundIInv ==
    /\ TypeOK
    /\ \A d \in Deliveries : DeliveryIsSound(d)
    /\ FansHoldTheirRows
    /\ RowsAreOwed

LEMMA OutboundTypes ==
  TypeOK <=> /\ fan \in [Publishers -> FanRec]
             /\ publishes \in [Publishers -> 0 .. MaxPublishes]
             /\ row \in [Deliveries -> RowRec]
             /\ job \in [Deliveries -> JobRec]
             /\ worker \in [Workers -> WorkerRec]
             /\ posts \in [Deliveries -> Nat]
             /\ marking \subseteq Deliveries /\ spared \subseteq Deliveries
             /\ faults \in 0 .. MaxFaults
             /\ \A d \in Deliveries :
                   /\ job[d].state # "none" => row[d].sub # NoSub
                   /\ job[d].state = "active" <=> job[d].holder # NoWorker
                   /\ d \in marking => job[d].state = "failed"
             /\ \A w \in Workers :
                   worker[w].step = "idle" <=> worker[w].at = NoDelivery
BY DEF TypeOK, FanRec, RowRec, JobRec, WorkerRec, JobStates, Steps

(* What of it concerns one delivery, one row, one job                      *)
LEMMA OneDelivery ==
  ASSUME OutboundIInv, NEW d \in Deliveries
  PROVE  /\ row[d] \in RowRec /\ job[d] \in JobRec /\ posts[d] \in Nat
         /\ job[d].tries \in 0 .. MaxTries /\ job[d].stalls \in 0 .. MaxStalls
         /\ IsFiniteSet(Unposted(d)) /\ Cardinality(Unposted(d)) \in Nat
         /\ JobIsConsistent(d) /\ PostsAreEarned(d) /\ UnstalledIsQuiet(d)
<1>1. row[d] \in RowRec /\ job[d] \in JobRec /\ posts[d] \in Nat
  BY OutboundTypes DEF OutboundIInv
<1>2. JobIsConsistent(d) /\ PostsAreEarned(d) /\ UnstalledIsQuiet(d)
  BY DEF OutboundIInv, DeliveryIsSound
<1>3. IsFiniteSet(Unposted(d)) /\ Cardinality(Unposted(d)) \in Nat
  BY <1>2, FS_CardinalityType DEF PostsAreEarned
<1>. QED  BY <1>1, <1>2, <1>3 DEF JobRec

LEMMA OneWorker ==
  ASSUME TypeOK, NEW w \in Workers
  PROVE  /\ worker[w] \in WorkerRec /\ worker[w].seen \in Nat
         /\ worker[w].step \in Steps
         /\ worker[w].at \in Deliveries \cup {NoDelivery}
         /\ worker[w].step = "idle" <=> worker[w].at = NoDelivery
         /\ worker[w].step # "idle" => worker[w].at \in Deliveries
<1>1. worker[w] \in WorkerRec
      /\ (worker[w].step = "idle" <=> worker[w].at = NoDelivery)
  BY OutboundTypes
<1>. QED  BY <1>1 DEF WorkerRec

LEMMA WorkerSteps ==
  ASSUME TypeOK, NEW w \in Workers, NEW s \in Steps,
         worker' = [worker EXCEPT ![w].step = s]
  PROVE  /\ worker' \in [Workers -> WorkerRec]
         /\ worker'[w].step = s /\ worker'[w].at = worker[w].at
         /\ \A v \in Workers \ {w} : worker'[v] = worker[v]
<1>1. worker \in [Workers -> WorkerRec]
  BY OutboundTypes
<1>. QED  BY <1>1 DEF WorkerRec

LEMMA WorkerLeaves ==
  ASSUME TypeOK, NEW w \in Workers, worker' = [worker EXCEPT ![w] = Idle]
  PROVE  /\ worker' \in [Workers -> WorkerRec]
         /\ worker'[w].step = "idle" /\ worker'[w].at = NoDelivery
         /\ \A v \in Workers \ {w} : worker'[v] = worker[v]
<1>1. worker \in [Workers -> WorkerRec] /\ Idle \in WorkerRec
  BY OutboundTypes DEF WorkerRec, Idle, Steps
<1>. QED  BY <1>1 DEF Idle

LEMMA OtherDeliveriesStaySound ==
  ASSUME NEW e \in Deliveries, DeliveryIsSound(e),
         row'[e] = row[e], job'[e] = job[e], posts'[e] = posts[e],
         e \in marking' <=> e \in marking, e \in spared' <=> e \in spared,
         \A v \in Workers : worker[v].at = e \/ worker'[v].at = e =>
                               worker'[v] = worker[v]
  PROVE  DeliveryIsSound(e)'
<1>1. Unposted(e)' = Unposted(e) /\ Begun(e)' = Begun(e)
  BY DEF Unposted, Begun
<1>2. \A v \in Workers : worker'[v].at = e =>
         worker[v].at = e /\ worker'[v].step = worker[v].step
  OBVIOUS
<1>3. JobIsConsistent(e)'
  BY <1>2 DEF DeliveryIsSound, JobIsConsistent
<1>4. PostsAreEarned(e)'
  BY <1>1, <1>2 DEF DeliveryIsSound, PostsAreEarned
<1>5. UnstalledIsQuiet(e)'
  BY <1>2 DEF DeliveryIsSound, UnstalledIsQuiet
<1>. QED  BY <1>3, <1>4, <1>5 DEF DeliveryIsSound

(* A step that is about one delivery and leaves the fans alone             *)
LEMMA DeliveryStepKeepsIInv ==
  ASSUME OutboundIInv, NEW d \in Deliveries, UNCHANGED <<fan, publishes>>,
         \A e \in Deliveries \ {d} :
            /\ row'[e] = row[e] /\ job'[e] = job[e] /\ posts'[e] = posts[e]
            /\ e \in marking' <=> e \in marking
            /\ e \in spared' <=> e \in spared,
         row' \in [Deliveries -> RowRec], job' \in [Deliveries -> JobRec],
         row'[d].sub = row[d].sub, row'[d].by = row[d].by,
         job'[d].state = "none" <=> job[d].state = "none",
         posts' \in [Deliveries -> Nat], faults' \in 0 .. MaxFaults,
         marking' \subseteq Deliveries, spared' \subseteq Deliveries,
         worker' \in [Workers -> WorkerRec],
         \A v \in Workers :
            \/ worker'[v] = worker[v]
            \/ /\ worker[v].at \in {d, NoDelivery}
               /\ worker'[v].at \in {d, NoDelivery}
               /\ worker'[v].step = "idle" <=> worker'[v].at = NoDelivery,
         DeliveryIsSound(d)'
  PROVE  OutboundIInv'
<1>. USE NamesAreDistinct
<1>0. /\ TypeOK /\ \A e \in Deliveries : DeliveryIsSound(e)
      /\ FansHoldTheirRows /\ RowsAreOwed
  BY DEF OutboundIInv
<1>1. ASSUME NEW e \in Deliveries \ {d} PROVE DeliveryIsSound(e)'
  <2>1. \A v \in Workers : worker[v].at = e \/ worker'[v].at = e =>
                              worker'[v] = worker[v]
    BY <1>1
  <2>. QED  BY <1>0, <1>1, <2>1, OtherDeliveriesStaySound
<1>2. \A e \in Deliveries : DeliveryIsSound(e)'
  BY <1>1
<1>3. TypeOK'
  <2>1. \A e \in Deliveries :
           /\ job'[e].state # "none" => row'[e].sub # NoSub
           /\ job'[e].state = "active" <=> job'[e].holder # NoWorker
           /\ e \in marking' => job'[e].state = "failed"
    BY <1>2 DEF DeliveryIsSound, JobIsConsistent
  <2>2. \A v \in Workers :
           worker'[v].step = "idle" <=> worker'[v].at = NoDelivery
    BY <1>0, OneWorker
  <2>3. /\ fan' \in [Publishers -> FanRec]
        /\ publishes' \in [Publishers -> 0 .. MaxPublishes]
    BY <1>0, OutboundTypes
  <2>. QED  BY <2>1, <2>2, <2>3
           DEF TypeOK, FanRec, RowRec, JobRec, WorkerRec, JobStates, Steps
<1>4. FansHoldTheirRows'
  <2>1. \A p \in Publishers : fan[p].row \in Deliveries \cup {NoDelivery}
    BY <1>0, OutboundTypes DEF FanRec
  <2>2. \A e \in Deliveries :
           /\ row'[e].sub = row[e].sub
           /\ job'[e].state = "none" <=> job[e].state = "none"
    OBVIOUS
  <2>. QED  BY <1>0, <2>1, <2>2 DEF FansHoldTheirRows
<1>5. RowsAreOwed'
  <2>1. \A e \in Deliveries : row'[e].sub = row[e].sub /\ row'[e].by = row[e].by
    OBVIOUS
  <2>2. \A p, s : RowsOf(p, s)' = RowsOf(p, s)
    BY <2>1 DEF RowsOf
  <2>. QED  BY <1>0, <2>2 DEF RowsAreOwed
<1>. QED  BY <1>2, <1>3, <1>4, <1>5 DEF OutboundIInv

LEMMA OutboundInitIInv == Init => OutboundIInv
<1>. SUFFICES ASSUME Init PROVE OutboundIInv
  OBVIOUS
<1>. USE NamesAreDistinct, BoundsAreNaturals
<1>1. /\ \A d \in Deliveries : row[d] = NoRow /\ job[d] = NoJob /\ posts[d] = 0
      /\ \A w \in Workers : worker[w] = Idle
      /\ \A p \in Publishers : fan[p] = NoFan /\ publishes[p] = 0
      /\ marking = {} /\ spared = {}
  BY DEF Init
<1>2. TypeOK
  <2>1. NoRow \in RowRec /\ NoJob \in JobRec /\ Idle \in WorkerRec
        /\ NoFan \in FanRec
    BY DEF NoRow, RowRec, NoJob, JobRec, Idle, WorkerRec, NoFan, FanRec, Statuses,
       JobStates, Steps
  <2>2. /\ fan \in [Publishers -> FanRec]
        /\ publishes \in [Publishers -> 0 .. MaxPublishes]
        /\ row \in [Deliveries -> RowRec]
        /\ job \in [Deliveries -> JobRec]
        /\ worker \in [Workers -> WorkerRec]
        /\ posts \in [Deliveries -> Nat]
        /\ faults \in 0 .. MaxFaults
    BY <2>1 DEF Init
  <2>. QED  BY <1>1, <2>2, OutboundTypes DEF NoJob, Idle
<1>3. ASSUME NEW d \in Deliveries PROVE DeliveryIsSound(d)
  <2>1. Unposted(d) = {}
    BY <1>1 DEF Unposted, Idle
  <2>2. JobIsConsistent(d)
    BY <1>1 DEF JobIsConsistent, NoJob, Idle
  <2>3. PostsAreEarned(d)
    BY <1>1, <2>1, FS_EmptySet DEF PostsAreEarned, Begun, NoJob, NoRow, Idle
  <2>4. UnstalledIsQuiet(d)
    BY <1>1 DEF UnstalledIsQuiet, NoRow, Idle
  <2>. QED  BY <2>2, <2>3, <2>4 DEF DeliveryIsSound
<1>4. FansHoldTheirRows
  BY <1>1 DEF FansHoldTheirRows, NoFan
<1>5. RowsAreOwed
  <2>1. \A p \in Publishers, s \in Subs : RowsOf(p, s) = {}
    BY <1>1 DEF RowsOf, NoRow
  <2>. QED  BY <1>1, <2>1, FS_EmptySet DEF RowsAreOwed, NoFan
<1>. QED  BY <1>2, <1>3, <1>4, <1>5 DEF OutboundIInv

LEMMA PublishKeepsIInv ==
  ASSUME OutboundIInv, NEW p \in Publishers, NEW S \in SUBSET Subs, Publish(p, S)
  PROVE  OutboundIInv'
<1>. USE NamesAreDistinct, BoundsAreNaturals
<1>0. /\ TypeOK /\ \A e \in Deliveries : DeliveryIsSound(e)
      /\ FansHoldTheirRows /\ RowsAreOwed
  BY DEF OutboundIInv
<1>1. /\ fan[p] = NoFan /\ publishes[p] < MaxPublishes
      /\ fan' = [fan EXCEPT ![p].left = S]
      /\ publishes' = [publishes EXCEPT ![p] = @ + 1]
      /\ UNCHANGED <<row, job, worker, posts, marking, spared, faults>>
  BY DEF Publish
<1>2. fan \in [Publishers -> FanRec]
      /\ publishes \in [Publishers -> 0 .. MaxPublishes]
  BY <1>0, OutboundTypes
<1>3. /\ fan' \in [Publishers -> FanRec]
      /\ \A q \in Publishers : fan'[q].row = fan[q].row
      /\ \A q \in Publishers \ {p} : fan'[q].left = fan[q].left
  BY <1>1, <1>2 DEF FanRec
<1>4. /\ publishes' \in [Publishers -> 0 .. MaxPublishes]
      /\ publishes'[p] = publishes[p] + 1 /\ publishes[p] \in Nat
      /\ \A q \in Publishers \ {p} : publishes'[q] = publishes[q]
  BY <1>1, <1>2
<1>5. TypeOK'
  BY <1>0, <1>1, <1>3, <1>4 DEF TypeOK, FanRec
<1>6. ASSUME NEW d \in Deliveries PROVE DeliveryIsSound(d)'
  BY <1>0, <1>1, OtherDeliveriesStaySound
<1>7. FansHoldTheirRows'
  BY <1>0, <1>1, <1>3 DEF FansHoldTheirRows
<1>8. RowsAreOwed'
  <2>. SUFFICES ASSUME NEW q \in Publishers, NEW s \in Subs
                PROVE  /\ IsFiniteSet(RowsOf(q, s)')
                       /\ Cardinality(RowsOf(q, s)')
                          + (IF s \in fan'[q].left THEN 1 ELSE 0) <= publishes'[q]
    BY DEF RowsAreOwed
  <2>1. RowsOf(q, s)' = RowsOf(q, s)
    BY <1>1 DEF RowsOf
  <2>2. /\ IsFiniteSet(RowsOf(q, s))
        /\ Cardinality(RowsOf(q, s)) + (IF s \in fan[q].left THEN 1 ELSE 0)
           <= publishes[q]
    BY <1>0 DEF RowsAreOwed
  <2>3. Cardinality(RowsOf(q, s)) \in Nat
    BY <2>2, FS_CardinalityType
  <2>4. CASE q = p
    <3>1. s \notin fan[p].left
      BY <1>1 DEF NoFan
    <3>2. Cardinality(RowsOf(q, s)) + 1 <= publishes'[q]
      BY <1>4, <2>2, <2>3, <2>4, <3>1
    <3>. QED  BY <2>1, <2>2, <2>3, <3>2, <1>4, <2>4
  <2>5. CASE q # p
    BY <1>3, <1>4, <2>1, <2>2, <2>5
  <2>. QED  BY <2>4, <2>5
<1>. QED  BY <1>5, <1>6, <1>7, <1>8 DEF OutboundIInv

LEMMA CreateRowKeepsIInv ==
  ASSUME OutboundIInv, NEW p \in Publishers, NEW s \in Subs, NEW d \in Deliveries,
         CreateRow(p, s, d)
  PROVE  OutboundIInv'
<1>. USE NamesAreDistinct, BoundsAreNaturals
<1>0. /\ TypeOK /\ \A e \in Deliveries : DeliveryIsSound(e)
      /\ FansHoldTheirRows /\ RowsAreOwed
  BY DEF OutboundIInv
<1>1. /\ s \in fan[p].left /\ fan[p].row = NoDelivery
      /\ row[d] = NoRow
      /\ fan' = [fan EXCEPT ![p] = [left |-> @.left \ {s}, row |-> d]]
      /\ UNCHANGED <<publishes, job, worker, posts, marking, spared, faults>>
  BY DEF CreateRow
<1>2. /\ fan \in [Publishers -> FanRec] /\ row \in [Deliveries -> RowRec]
      /\ publishes \in [Publishers -> 0 .. MaxPublishes]
  BY <1>0, OutboundTypes
<1>3. /\ fan' \in [Publishers -> FanRec]
      /\ fan'[p].row = d /\ fan'[p].left = fan[p].left \ {s}
      /\ \A q \in Publishers \ {p} : fan'[q] = fan[q]
  BY <1>1, <1>2 DEF FanRec
<1>4. /\ row' \in [Deliveries -> RowRec]
      /\ row'[d].sub = s /\ row'[d].by = p /\ row'[d].status = "PENDING"
      /\ \A e \in Deliveries \ {d} : row'[e] = row[e]
  <2>. DEFINE one == [row EXCEPT ![d].sub = s]
  <2>1. row' = [one EXCEPT ![d].by = p]
    BY DEF CreateRow
  <2>2. /\ one \in [Deliveries -> RowRec]
        /\ one[d].sub = s /\ one[d].status = row[d].status
        /\ \A e \in Deliveries \ {d} : one[e] = row[e]
    BY <1>2 DEF RowRec
  <2>3. row[d].status = "PENDING"
    BY <1>1 DEF NoRow
  <2>. HIDE DEF one
  <2>. QED  BY <2>1, <2>2, <2>3 DEF RowRec
<1>5. /\ row[d].sub = NoSub /\ row[d].by = NoPublisher /\ job[d].state = "none"
      /\ s # NoSub /\ p # NoPublisher
  <2>1. row[d].sub = NoSub /\ row[d].by = NoPublisher
    BY <1>1 DEF NoRow
  <2>. QED  BY <1>0, <2>1, OutboundTypes
<1>6. TypeOK'
  <2>1. \A e \in Deliveries : job'[e].state # "none" => row'[e].sub # NoSub
    BY <1>0, <1>1, <1>4, <1>5, OutboundTypes
  <2>. QED  BY <1>0, <1>1, <1>3, <1>4, <2>1 DEF TypeOK, FanRec, RowRec
<1>7. ASSUME NEW e \in Deliveries PROVE DeliveryIsSound(e)'
  <2>1. CASE e = d
    <3>1. DeliveryIsSound(d)
      BY <1>0
    <3>2. JobIsConsistent(d)'
      BY <1>1, <1>4, <1>5, <3>1 DEF DeliveryIsSound, JobIsConsistent
    <3>3. Unposted(d)' = Unposted(d) /\ Begun(d)' = Begun(d)
      BY <1>1 DEF Unposted, Begun
    <3>4. PostsAreEarned(d)'
      BY <1>1, <1>4, <3>1, <3>3 DEF DeliveryIsSound, PostsAreEarned
    <3>5. UnstalledIsQuiet(d)'
      BY <1>1, <1>4, <3>1 DEF DeliveryIsSound, UnstalledIsQuiet
    <3>. QED  BY <2>1, <3>2, <3>4, <3>5 DEF DeliveryIsSound
  <2>2. CASE e # d
    BY <1>0, <1>1, <1>4, <2>2, OtherDeliveriesStaySound
  <2>. QED  BY <2>1, <2>2
<1>8. FansHoldTheirRows'
  <2>1. \A q \in Publishers \ {p} : fan[q].row # d
    BY <1>0, <1>2, <1>5 DEF FansHoldTheirRows
  <2>2. \A q \in Publishers : fan[q].row \in Deliveries \cup {NoDelivery}
    BY <1>2 DEF FanRec
  <2>3. ASSUME NEW q \in Publishers, fan'[q].row # NoDelivery
        PROVE  row'[fan'[q].row].sub # NoSub /\ job'[fan'[q].row].state = "none"
    <3>1. CASE q = p
      BY <1>1, <1>3, <1>4, <1>5, <3>1
    <3>2. CASE q # p
      <4>1. fan'[q].row = fan[q].row /\ fan[q].row \in Deliveries \ {d}
        BY <1>3, <2>1, <2>2, <2>3, <3>2
      <4>. QED  BY <1>0, <1>1, <1>4, <4>1 DEF FansHoldTheirRows
    <3>. QED  BY <3>1, <3>2
  <2>4. ASSUME NEW q \in Publishers, NEW r \in Publishers,
               fan'[q].row # NoDelivery, fan'[q].row = fan'[r].row
        PROVE  q = r
    BY <1>0, <1>3, <2>1, <2>4 DEF FansHoldTheirRows
  <2>. QED  BY <2>3, <2>4 DEF FansHoldTheirRows
<1>9. RowsAreOwed'
  <2>. SUFFICES ASSUME NEW q \in Publishers, NEW z \in Subs
                PROVE  /\ IsFiniteSet(RowsOf(q, z)')
                       /\ Cardinality(RowsOf(q, z)')
                          + (IF z \in fan'[q].left THEN 1 ELSE 0) <= publishes'[q]
    BY DEF RowsAreOwed
  <2>1. /\ IsFiniteSet(RowsOf(q, z))
        /\ Cardinality(RowsOf(q, z)) + (IF z \in fan[q].left THEN 1 ELSE 0)
           <= publishes[q]
    BY <1>0 DEF RowsAreOwed
  <2>2. Cardinality(RowsOf(q, z)) \in Nat
    BY <2>1, FS_CardinalityType
  <2>3. CASE q = p /\ z = s
    <3>1. RowsOf(q, z)' = RowsOf(q, z) \cup {d} /\ d \notin RowsOf(q, z)
      BY <1>4, <1>5, <2>3 DEF RowsOf
    <3>2. /\ IsFiniteSet(RowsOf(q, z)')
          /\ Cardinality(RowsOf(q, z)') = Cardinality(RowsOf(q, z)) + 1
      BY <2>1, <3>1, FS_AddElement
    <3>3. z \in fan[q].left /\ z \notin fan'[q].left /\ publishes'[q] = publishes[q]
      BY <1>1, <1>3, <2>3
    <3>. QED  BY <2>1, <2>2, <3>2, <3>3
  <2>4. CASE ~(q = p /\ z = s)
    <3>1. RowsOf(q, z)' = RowsOf(q, z)
      BY <1>4, <1>5, <2>4 DEF RowsOf
    <3>2. (z \in fan'[q].left <=> z \in fan[q].left)
          /\ publishes'[q] = publishes[q]
      BY <1>1, <1>3, <2>4
    <3>. QED  BY <2>1, <3>1, <3>2
  <2>. QED  BY <2>3, <2>4
<1>. QED  BY <1>6, <1>7, <1>8, <1>9 DEF OutboundIInv

LEMMA FanEndsKeepsIInv ==
  ASSUME OutboundIInv, NEW p \in Publishers, NEW f \in FanRec,
         f.row = NoDelivery, f.left \subseteq fan[p].left,
         fan' = [fan EXCEPT ![p] = f], faults' \in 0 .. MaxFaults,
         UNCHANGED <<publishes, row, job, worker, posts, marking, spared>>
  PROVE  OutboundIInv'
<1>. USE NamesAreDistinct, BoundsAreNaturals
<1>0. /\ TypeOK /\ \A e \in Deliveries : DeliveryIsSound(e)
      /\ FansHoldTheirRows /\ RowsAreOwed
  BY DEF OutboundIInv
<1>1. /\ fan' \in [Publishers -> FanRec] /\ fan'[p] = f
      /\ \A q \in Publishers \ {p} : fan'[q] = fan[q]
      /\ publishes \in [Publishers -> 0 .. MaxPublishes]
  BY <1>0, OutboundTypes
<1>2. TypeOK'
  BY <1>0, <1>1 DEF TypeOK, FanRec
<1>3. ASSUME NEW d \in Deliveries PROVE DeliveryIsSound(d)'
  BY <1>0, OtherDeliveriesStaySound
<1>4. FansHoldTheirRows'
  BY <1>0, <1>1 DEF FansHoldTheirRows
<1>5. RowsAreOwed'
  <2>. SUFFICES ASSUME NEW q \in Publishers, NEW s \in Subs
                PROVE  /\ IsFiniteSet(RowsOf(q, s)')
                       /\ Cardinality(RowsOf(q, s)')
                          + (IF s \in fan'[q].left THEN 1 ELSE 0) <= publishes'[q]
    BY DEF RowsAreOwed
  <2>1. RowsOf(q, s)' = RowsOf(q, s)
    BY DEF RowsOf
  <2>2. /\ IsFiniteSet(RowsOf(q, s))
        /\ Cardinality(RowsOf(q, s)) + (IF s \in fan[q].left THEN 1 ELSE 0)
           <= publishes[q]
    BY <1>0 DEF RowsAreOwed
  <2>3. Cardinality(RowsOf(q, s)) \in Nat /\ publishes[q] \in Nat
    BY <1>1, <2>2, FS_CardinalityType
  <2>4. s \in fan'[q].left => s \in fan[q].left
    BY <1>1
  <2>. QED  BY <2>1, <2>2, <2>3, <2>4
<1>. QED  BY <1>2, <1>3, <1>4, <1>5 DEF OutboundIInv

LEMMA EnqueueKeepsIInv ==
  ASSUME OutboundIInv, NEW p \in Publishers, Enqueue(p)
  PROVE  OutboundIInv'
<1>. USE NamesAreDistinct, BoundsAreNaturals
<1>0. /\ TypeOK /\ \A e \in Deliveries : DeliveryIsSound(e)
      /\ FansHoldTheirRows /\ RowsAreOwed
  BY DEF OutboundIInv
<1>a. fan[p].row \in Deliveries
  <2>1. fan[p] \in FanRec
    BY <1>0, OutboundTypes
  <2>. QED  BY <2>1 DEF Enqueue, FanRec
<1>b. PICK d \in Deliveries : d = fan[p].row
  BY <1>a
<1>1. /\ d # NoDelivery
      /\ fan' = [fan EXCEPT ![p].row = NoDelivery]
      /\ job' = [job EXCEPT ![d].state = "waiting"]
      /\ UNCHANGED <<publishes, row, worker, posts, marking, spared, faults>>
  BY <1>b DEF Enqueue
<1>2. fan \in [Publishers -> FanRec] /\ job \in [Deliveries -> JobRec]
  BY <1>0, OutboundTypes
<1>3. d \in Deliveries /\ row[d].sub # NoSub /\ job[d].state = "none"
  BY <1>0, <1>1, <1>b DEF FansHoldTheirRows
<1>4. /\ fan' \in [Publishers -> FanRec]
      /\ fan'[p].row = NoDelivery
      /\ \A q \in Publishers : fan'[q].left = fan[q].left
      /\ \A q \in Publishers \ {p} : fan'[q].row = fan[q].row
  BY <1>1, <1>2 DEF FanRec
<1>5. /\ job' \in [Deliveries -> JobRec] /\ job'[d].state = "waiting"
      /\ job'[d].holder = job[d].holder /\ job'[d].tries = job[d].tries
      /\ job'[d].stalls = job[d].stalls
      /\ \A e \in Deliveries \ {d} : job'[e] = job[e]
  BY <1>1, <1>2, <1>3 DEF JobRec, JobStates
<1>6. \A q \in Publishers \ {p} : fan[q].row # d
  BY <1>0, <1>1, <1>b DEF FansHoldTheirRows
<1>7. ASSUME NEW e \in Deliveries PROVE DeliveryIsSound(e)'
  <2>1. CASE e = d
    <3>1. DeliveryIsSound(d)
      BY <1>0, <1>3
    <3>2. JobIsConsistent(d)'
      BY <1>1, <1>3, <1>5, <3>1 DEF DeliveryIsSound, JobIsConsistent
    <3>3. Unposted(d)' = Unposted(d) /\ Begun(d)' = Begun(d)
      BY <1>1, <1>3, <1>5 DEF Unposted, Begun
    <3>4. PostsAreEarned(d)'
      BY <1>1, <3>1, <3>3 DEF DeliveryIsSound, PostsAreEarned
    <3>5. UnstalledIsQuiet(d)'
      <4>1. \A w \in Workers : worker[w].at # d
        BY <1>3, <3>1 DEF DeliveryIsSound, JobIsConsistent
      <4>. QED  BY <1>1, <1>5, <3>1, <4>1 DEF DeliveryIsSound, UnstalledIsQuiet
    <3>. QED  BY <2>1, <3>2, <3>4, <3>5 DEF DeliveryIsSound
  <2>2. CASE e # d
    BY <1>0, <1>1, <1>5, <2>2, OtherDeliveriesStaySound
  <2>. QED  BY <2>1, <2>2
<1>8. TypeOK'
  <2>1. \A e \in Deliveries :
           /\ job'[e].state # "none" => row'[e].sub # NoSub
           /\ job'[e].state = "active" <=> job'[e].holder # NoWorker
           /\ e \in marking' => job'[e].state = "failed"
    BY <1>7 DEF DeliveryIsSound, JobIsConsistent
  <2>. QED  BY <1>0, <1>1, <1>4, <1>5, <2>1
           DEF TypeOK, FanRec, JobRec, JobStates
<1>9. FansHoldTheirRows'
  <2>1. \A q \in Publishers : fan[q].row \in Deliveries \cup {NoDelivery}
    BY <1>2 DEF FanRec
  <2>2. ASSUME NEW q \in Publishers, fan'[q].row # NoDelivery
        PROVE  row'[fan'[q].row].sub # NoSub /\ job'[fan'[q].row].state = "none"
    <3>1. q # p /\ fan'[q].row = fan[q].row /\ fan[q].row \in Deliveries \ {d}
      BY <1>4, <1>6, <2>1, <2>2
    <3>. QED  BY <1>0, <1>1, <1>5, <2>2, <3>1 DEF FansHoldTheirRows
  <2>3. ASSUME NEW q \in Publishers, NEW r \in Publishers,
               fan'[q].row # NoDelivery, fan'[q].row = fan'[r].row
        PROVE  q = r
    BY <1>0, <1>4, <2>3 DEF FansHoldTheirRows
  <2>. QED  BY <2>2, <2>3 DEF FansHoldTheirRows
<1>10. RowsAreOwed'
  <2>1. \A q, s : RowsOf(q, s)' = RowsOf(q, s)
    BY <1>1 DEF RowsOf
  <2>. QED  BY <1>0, <1>1, <1>4, <2>1 DEF RowsAreOwed
<1>. QED  BY <1>7, <1>8, <1>9, <1>10 DEF OutboundIInv

(* Workers that go on, or leave: who may yet post                          *)
LEMMA FewerMayPost ==
  ASSUME OutboundIInv, NEW d \in Deliveries, NEW w \in Workers,
         \A v \in Workers \ {w} : worker'[v] = worker[v],
         worker'[w].at = d => worker'[w].step \notin {"mark", "post"}
  PROVE  /\ IsFiniteSet(Unposted(d)') /\ Cardinality(Unposted(d)') \in Nat
         /\ Cardinality(Unposted(d)') <= Cardinality(Unposted(d))
         /\ w \in Unposted(d) =>
               Cardinality(Unposted(d)') = Cardinality(Unposted(d)) - 1
<1>1. IsFiniteSet(Unposted(d)) /\ Cardinality(Unposted(d)) \in Nat
  BY OneDelivery
<1>2. Unposted(d)' = Unposted(d) \ {w}
  BY DEF Unposted
<1>3. /\ IsFiniteSet(Unposted(d) \ {w})
      /\ Cardinality(Unposted(d) \ {w}) =
            IF w \in Unposted(d) THEN Cardinality(Unposted(d)) - 1
                                 ELSE Cardinality(Unposted(d))
  BY <1>1, FS_RemoveElement
<1>4. Cardinality(Unposted(d) \ {w}) \in Nat
  BY <1>3, FS_CardinalityType
<1>. QED  BY <1>1, <1>2, <1>3, <1>4

LEMMA MarkRetryingKeepsIInv ==
  ASSUME OutboundIInv, NEW w \in Workers, MarkRetrying(w) PROVE OutboundIInv'
<1>0. TypeOK
  BY DEF OutboundIInv
<1>1. PICK d \in Deliveries : d = worker[w].at
  BY <1>0, OneWorker DEF MarkRetrying
<1>2. /\ worker[w].step = "mark" /\ worker[w].at = d
      /\ row' = [row EXCEPT ![d].status = "RETRYING",
                            ![d].attempts = worker[w].seen + 1]
      /\ worker' = [worker EXCEPT ![w].step = "post"]
      /\ UNCHANGED <<fan, publishes, job, posts, marking, spared, faults>>
  BY <1>1 DEF MarkRetrying
<1>3. /\ row' \in [Deliveries -> RowRec] /\ row'[d].status = "RETRYING"
      /\ row'[d].sub = row[d].sub /\ row'[d].by = row[d].by
      /\ \A e \in Deliveries \ {d} : row'[e] = row[e]
  <2>. DEFINE one == [row EXCEPT ![d].status = "RETRYING"]
  <2>1. row' = [one EXCEPT ![d].attempts = worker[w].seen + 1]
    BY <1>2
  <2>2. /\ one \in [Deliveries -> RowRec]
        /\ one[d].status = "RETRYING"
        /\ one[d].sub = row[d].sub /\ one[d].by = row[d].by
        /\ \A e \in Deliveries \ {d} : one[e] = row[e]
    BY <1>0, OutboundTypes DEF RowRec, Statuses
  <2>3. worker[w].seen + 1 \in Nat
    BY <1>0, OneWorker
  <2>. HIDE DEF one
  <2>. QED  BY <2>1, <2>2, <2>3 DEF RowRec
<1>4. /\ worker' \in [Workers -> WorkerRec]
      /\ worker'[w].step = "post" /\ worker'[w].at = d
      /\ \A v \in Workers \ {w} : worker'[v] = worker[v]
  BY <1>0, <1>2, WorkerSteps DEF Steps
<1>5. JobIsConsistent(d) /\ PostsAreEarned(d) /\ UnstalledIsQuiet(d)
  BY OneDelivery
<1>6. DeliveryIsSound(d)'
  <2>1. JobIsConsistent(d)'
    BY <1>2, <1>3, <1>4, <1>5 DEF JobIsConsistent
  <2>2. Unposted(d)' = Unposted(d) /\ Begun(d)' = Begun(d)
    BY <1>2, <1>4 DEF Unposted, Begun
  <2>3. PostsAreEarned(d)'
    BY <1>2, <1>3, <1>4, <1>5, <2>2 DEF PostsAreEarned
  <2>4. UnstalledIsQuiet(d)'
    <3>1. \A v \in Workers : worker'[v].at = worker[v].at
      BY <1>2, <1>4
    <3>. QED  BY <1>2, <1>3, <1>5, <3>1 DEF UnstalledIsQuiet
  <2>. QED  BY <2>1, <2>3, <2>4 DEF DeliveryIsSound
<1>7. \A v \in Workers :
         \/ worker'[v] = worker[v]
         \/ /\ worker[v].at \in {d, NoDelivery} /\ worker'[v].at \in {d, NoDelivery}
            /\ worker'[v].step = "idle" <=> worker'[v].at = NoDelivery
  BY <1>2, <1>4, NamesAreDistinct
<1>8. job' \in [Deliveries -> JobRec] /\ posts' \in [Deliveries -> Nat]
      /\ faults' \in 0 .. MaxFaults /\ marking' \subseteq Deliveries
      /\ spared' \subseteq Deliveries
  BY <1>0, <1>2, OutboundTypes
<1>. QED  BY <1>2, <1>3, <1>4, <1>6, <1>7, <1>8, DeliveryStepKeepsIInv

LEMMA PostKeepsIInv ==
  ASSUME OutboundIInv, NEW w \in Workers, Post(w) PROVE OutboundIInv'
<1>0. TypeOK
  BY DEF OutboundIInv
<1>1. PICK d \in Deliveries : d = worker[w].at
  BY <1>0, OneWorker DEF Post
<1>2. PICK arrives \in BOOLEAN, answer \in {"accepted", "record"} :
         /\ answer = "accepted" => arrives
         /\ posts' = IF arrives THEN [posts EXCEPT ![d] = @ + 1] ELSE posts
         /\ worker' = [worker EXCEPT ![w].step = answer]
  BY <1>1 DEF Post
<1>3. /\ worker[w].step = "post" /\ worker[w].at = d
      /\ UNCHANGED <<fan, publishes, row, job, marking, spared, faults>>
  BY <1>1 DEF Post
<1>4. /\ worker' \in [Workers -> WorkerRec]
      /\ worker'[w].step = answer /\ worker'[w].at = d
      /\ \A v \in Workers \ {w} : worker'[v] = worker[v]
  BY <1>0, <1>2, <1>3, WorkerSteps DEF Steps
<1>5. /\ JobIsConsistent(d) /\ PostsAreEarned(d) /\ UnstalledIsQuiet(d)
      /\ posts[d] \in Nat /\ job[d].tries \in 0 .. MaxTries
      /\ job[d].stalls \in 0 .. MaxStalls /\ Cardinality(Unposted(d)) \in Nat
  BY OneDelivery
<1>6. /\ posts' \in [Deliveries -> Nat]
      /\ posts'[d] \in Nat /\ posts[d] <= posts'[d] /\ posts'[d] <= posts[d] + 1
      /\ answer = "accepted" => posts'[d] > 0
      /\ \A e \in Deliveries \ {d} : posts'[e] = posts[e]
  <2>1. posts \in [Deliveries -> Nat]
    BY <1>0, OutboundTypes
  <2>. QED  BY <1>2, <2>1
<1>7. DeliveryIsSound(d)'
  <2>1. JobIsConsistent(d)'
    BY <1>3, <1>4, <1>5 DEF JobIsConsistent
  <2>2. PostsAreEarned(d)'
    <3>1. /\ IsFiniteSet(Unposted(d)')
          /\ Cardinality(Unposted(d)') = Cardinality(Unposted(d)) - 1
      <4>1. w \in Unposted(d)
        BY <1>3 DEF Unposted
      <4>. QED  BY <1>4, <4>1, FewerMayPost
    <3>2. Begun(d)' = Begun(d) /\ Begun(d) \in Nat
      BY <1>3, <1>5, BoundsAreNaturals DEF Begun
    <3>3. posts[d] + Cardinality(Unposted(d)) <= Begun(d)
      BY <1>5 DEF PostsAreEarned
    <3>4. posts'[d] + Cardinality(Unposted(d)') <= Begun(d)'
      BY <1>5, <1>6, <3>1, <3>2, <3>3
    <3>5. /\ row'[d].status = "SUCCESS" => posts'[d] > 0
          /\ \A v \in Workers :
                worker'[v].at = d /\ worker'[v].step = "accepted"
                => posts'[d] > 0
      BY <1>3, <1>4, <1>5, <1>6 DEF PostsAreEarned
    <3>. QED  BY <3>1, <3>4, <3>5 DEF PostsAreEarned
  <2>3. UnstalledIsQuiet(d)'
    <3>1. \A v \in Workers : worker'[v].at = worker[v].at
      BY <1>3, <1>4
    <3>2. \A v \in Workers : worker'[v].step = "finish" <=> worker[v].step = "finish"
      BY <1>3, <1>4
    <3>. QED  BY <1>3, <1>5, <3>1, <3>2 DEF UnstalledIsQuiet
  <2>. QED  BY <2>1, <2>2, <2>3 DEF DeliveryIsSound
<1>8. \A v \in Workers :
         \/ worker'[v] = worker[v]
         \/ /\ worker[v].at \in {d, NoDelivery} /\ worker'[v].at \in {d, NoDelivery}
            /\ worker'[v].step = "idle" <=> worker'[v].at = NoDelivery
  BY <1>3, <1>4, NamesAreDistinct
<1>9. job' \in [Deliveries -> JobRec] /\ row' \in [Deliveries -> RowRec]
      /\ faults' \in 0 .. MaxFaults /\ marking' \subseteq Deliveries
      /\ spared' \subseteq Deliveries
  BY <1>0, <1>3, OutboundTypes
<1>. QED  BY <1>3, <1>4, <1>6, <1>7, <1>8, <1>9, DeliveryStepKeepsIInv

(* An answer is recorded, or is not: it was posted, and no one else is at  *)
(* it unless the job stalled.                                              *)
LEMMA RecordKeepsIInv ==
  ASSUME OutboundIInv, NEW w \in Workers, NEW d \in Deliveries,
         worker[w].at = d, NEW s \in {"finish", "retry", "record"},
         worker[w].step \in {"mark", "accepted", "record"},
         worker' = [worker EXCEPT ![w].step = s],
         row' \in [Deliveries -> RowRec],
         \A e \in Deliveries \ {d} : row'[e] = row[e],
         row'[d].sub = row[d].sub, row'[d].by = row[d].by,
         spared' \subseteq Deliveries, spared \subseteq spared',
         spared' \subseteq spared \cup {d},
         row'[d].status = "SUCCESS" =>
            \/ row' = row
            \/ worker[w].step = "accepted" /\ (s = "finish" \/ d \in spared'),
         UNCHANGED <<fan, publishes, job, posts, marking>>,
         faults' \in 0 .. MaxFaults
  PROVE  OutboundIInv'
<1>0. TypeOK
  BY DEF OutboundIInv
<1>1. /\ worker' \in [Workers -> WorkerRec]
      /\ worker'[w].step = s /\ worker'[w].at = d
      /\ \A v \in Workers \ {w} : worker'[v] = worker[v]
  BY <1>0, WorkerSteps DEF Steps
<1>2. /\ JobIsConsistent(d) /\ PostsAreEarned(d) /\ UnstalledIsQuiet(d)
      /\ posts[d] \in Nat /\ job[d].tries \in 0 .. MaxTries
      /\ job[d].stalls \in 0 .. MaxStalls /\ Cardinality(Unposted(d)) \in Nat
  BY OneDelivery
<1>3. DeliveryIsSound(d)'
  <2>1. JobIsConsistent(d)'
    BY <1>1, <1>2 DEF JobIsConsistent
  <2>2. PostsAreEarned(d)'
    <3>1. /\ IsFiniteSet(Unposted(d)') /\ Cardinality(Unposted(d)') \in Nat
          /\ Cardinality(Unposted(d)') <= Cardinality(Unposted(d))
      BY <1>1, FewerMayPost
    <3>2. Begun(d)' = Begun(d) /\ Begun(d) \in Nat
      BY <1>2, BoundsAreNaturals DEF Begun
    <3>3. posts'[d] + Cardinality(Unposted(d)') <= Begun(d)'
      <4>1. posts[d] + Cardinality(Unposted(d)) <= Begun(d)
        BY <1>2 DEF PostsAreEarned
      <4>. QED  BY <1>2, <3>1, <3>2, <4>1
    <3>4. row'[d].status = "SUCCESS" => posts'[d] > 0
      BY <1>2 DEF PostsAreEarned
    <3>5. \A v \in Workers :
             worker'[v].at = d /\ worker'[v].step = "accepted" => posts'[d] > 0
      BY <1>1, <1>2 DEF PostsAreEarned
    <3>. QED  BY <3>1, <3>3, <3>4, <3>5 DEF PostsAreEarned
  <2>3. UnstalledIsQuiet(d)'
    <3>1. \A v \in Workers : worker'[v].at = worker[v].at
      BY <1>1
    <3>2. ASSUME job[d].stalls = 0
          PROVE  /\ \A v \in Workers : worker[v].at = d => v = w
                 /\ d \notin marking
                 /\ job[d].holder = w \/ job[d].state = "failed"
                 /\ row[d].status = "SUCCESS" => d \in spared
      BY <1>2, <3>2 DEF UnstalledIsQuiet
    <3>3. ASSUME job[d].stalls = 0, row'[d].status = "SUCCESS", d \notin spared'
          PROVE  s = "finish"
      BY <3>2, <3>3
    <3>. QED  BY <1>1, <3>1, <3>2, <3>3 DEF UnstalledIsQuiet
  <2>. QED  BY <2>1, <2>2, <2>3 DEF DeliveryIsSound
<1>4. \A v \in Workers :
         \/ worker'[v] = worker[v]
         \/ /\ worker[v].at \in {d, NoDelivery} /\ worker'[v].at \in {d, NoDelivery}
            /\ worker'[v].step = "idle" <=> worker'[v].at = NoDelivery
  BY <1>1, NamesAreDistinct
<1>5. job' \in [Deliveries -> JobRec] /\ posts' \in [Deliveries -> Nat]
      /\ marking' \subseteq Deliveries
  BY <1>0, OutboundTypes
<1>. QED  BY <1>1, <1>3, <1>4, <1>5, DeliveryStepKeepsIInv

(* A worker is done with a job, or has died.                               *)
LEMMA LeaveKeepsIInv ==
  ASSUME OutboundIInv, NEW w \in Workers, NEW d \in Deliveries,
         worker[w].at = d, worker' = [worker EXCEPT ![w] = Idle],
         UNCHANGED <<fan, publishes, row, posts, spared>>,
         faults' \in 0 .. MaxFaults,
         \/ job' = job /\ marking' = marking
         \/ /\ Holds(w) /\ marking' = marking
            /\ job' = [job EXCEPT ![d].state = "done", ![d].holder = NoWorker]
         \/ /\ Holds(w) /\ worker[w].step = "retry"
            /\ LET last == job[d].tries + 1 >= MaxTries IN
               /\ job' = [job EXCEPT
                            ![d].state = IF last THEN "failed" ELSE "waiting",
                            ![d].holder = NoWorker, ![d].tries = @ + 1]
               /\ marking' = IF last THEN marking \cup {d} ELSE marking
  PROVE  OutboundIInv'
<1>. USE BoundsAreNaturals
<1>0. TypeOK /\ job \in [Deliveries -> JobRec] /\ marking \subseteq Deliveries
  BY OutboundTypes DEF OutboundIInv
<1>1. /\ worker' \in [Workers -> WorkerRec]
      /\ worker'[w].step = "idle" /\ worker'[w].at = NoDelivery
      /\ \A v \in Workers \ {w} : worker'[v] = worker[v]
  BY <1>0, WorkerLeaves
<1>2. /\ JobIsConsistent(d) /\ PostsAreEarned(d) /\ UnstalledIsQuiet(d)
      /\ posts[d] \in Nat /\ job[d].tries \in 0 .. MaxTries
      /\ job[d].stalls \in 0 .. MaxStalls /\ Cardinality(Unposted(d)) \in Nat
      /\ row[d] \in RowRec /\ job[d] \in JobRec
  BY OneDelivery
<1>3. PICK ends \in {"stays", "done", "again", "failed"} :
         /\ ends = "stays" => job' = job /\ marking' = marking
         /\ ends # "stays" => job[d].holder = w
         /\ ends = "done" =>
               /\ marking' = marking
               /\ job' = [job EXCEPT ![d] = [job[d] EXCEPT !.state = "done",
                                                      !.holder = NoWorker]]
         /\ ends \in {"again", "failed"} => worker[w].step = "retry"
         /\ ends = "again" =>
               /\ marking' = marking /\ job[d].tries + 1 < MaxTries
               /\ job' = [job EXCEPT ![d] =
                            [job[d] EXCEPT !.state = "waiting", !.holder = NoWorker,
                                  !.tries = job[d].tries + 1]]
         /\ ends = "failed" =>
               /\ marking' = marking \cup {d} /\ job[d].tries + 1 >= MaxTries
               /\ job' = [job EXCEPT ![d] =
                            [job[d] EXCEPT !.state = "failed", !.holder = NoWorker,
                                  !.tries = job[d].tries + 1]]
  <2>1. CASE job' = job /\ marking' = marking
    BY <2>1
  <2>2. CASE /\ Holds(w) /\ marking' = marking
             /\ job' = [job EXCEPT ![d].state = "done", ![d].holder = NoWorker]
    <3>1. job' = [job EXCEPT ![d] = [job[d] EXCEPT !.state = "done",
                                              !.holder = NoWorker]]
      BY <1>0, <2>2 DEF JobRec
    <3>. QED  BY <2>2, <3>1 DEF Holds
  <2>3. CASE /\ Holds(w) /\ worker[w].step = "retry"
             /\ LET last == job[d].tries + 1 >= MaxTries IN
                /\ job' = [job EXCEPT
                            ![d].state = IF last THEN "failed" ELSE "waiting",
                            ![d].holder = NoWorker, ![d].tries = @ + 1]
                /\ marking' = IF last THEN marking \cup {d} ELSE marking
    <3>1. CASE job[d].tries + 1 >= MaxTries
      <4>1. job' = [job EXCEPT ![d] = [job[d] EXCEPT !.state = "failed",
                           !.holder = NoWorker, !.tries = job[d].tries + 1]]
        BY <1>0, <2>3, <3>1 DEF JobRec
      <4>. QED  BY <2>3, <3>1, <4>1 DEF Holds
    <3>2. CASE ~(job[d].tries + 1 >= MaxTries)
      <4>1. job' = [job EXCEPT ![d] = [job[d] EXCEPT !.state = "waiting",
                           !.holder = NoWorker, !.tries = job[d].tries + 1]]
        BY <1>0, <2>3, <3>2 DEF JobRec
      <4>2. job[d].tries + 1 < MaxTries
        BY <1>2, <3>2
      <4>3. marking' = marking
        BY <2>3, <3>2
      <4>. QED  BY <2>3, <4>1, <4>2, <4>3 DEF Holds
    <3>. QED  BY <3>1, <3>2
  <2>. QED  BY <2>1, <2>2, <2>3
<1>4. ends # "stays" => /\ job[d].state = "active" /\ job[d].tries < MaxTries
                        /\ w # NoWorker
  BY <1>2, <1>3, NamesAreDistinct DEF JobIsConsistent
<1>5. /\ job' \in [Deliveries -> JobRec] /\ job'[d].stalls = job[d].stalls
      /\ \A e \in Deliveries \ {d} : job'[e] = job[e]
      /\ ends = "stays" => job'[d] = job[d]
      /\ ends # "stays" => job'[d].holder = NoWorker
      /\ ends = "done" => job'[d].state = "done" /\ job'[d].tries = job[d].tries
      /\ ends = "again" => /\ job'[d].state = "waiting"
                           /\ job'[d].tries = job[d].tries + 1
      /\ ends = "failed" => /\ job'[d].state = "failed"
                            /\ job'[d].tries = job[d].tries + 1
  <2>1. CASE ends = "stays"
    BY <1>0, <1>3, <2>1
  <2>2. CASE ends = "done"
    <3>. DEFINE x == [job[d] EXCEPT !.state = "done", !.holder = NoWorker]
    <3>2. /\ x \in JobRec /\ x.state = "done" /\ x.holder = NoWorker
          /\ x.tries = job[d].tries /\ x.stalls = job[d].stalls
      BY <1>2 DEF JobRec, JobStates
    <3>3. job' = [job EXCEPT ![d] = x]
      BY <1>3, <2>2
    <3>. HIDE DEF x
    <3>. QED  BY <1>0, <2>2, <3>2, <3>3
  <2>3. CASE ends = "again"
    <3>. DEFINE x == [job[d] EXCEPT !.state = "waiting", !.holder = NoWorker,
                                    !.tries = job[d].tries + 1]
    <3>1. job[d].tries + 1 \in 0 .. MaxTries
      BY <1>2, <1>4, <2>3
    <3>2. /\ x \in JobRec /\ x.state = "waiting" /\ x.holder = NoWorker
          /\ x.tries = job[d].tries + 1 /\ x.stalls = job[d].stalls
      BY <1>2, <3>1 DEF JobRec, JobStates
    <3>3. job' = [job EXCEPT ![d] = x]
      BY <1>3, <2>3
    <3>. HIDE DEF x
    <3>. QED  BY <1>0, <2>3, <3>2, <3>3
  <2>4. CASE ends = "failed"
    <3>. DEFINE x == [job[d] EXCEPT !.state = "failed", !.holder = NoWorker,
                                    !.tries = job[d].tries + 1]
    <3>1. job[d].tries + 1 \in 0 .. MaxTries
      BY <1>2, <1>4, <2>4
    <3>2. /\ x \in JobRec /\ x.state = "failed" /\ x.holder = NoWorker
          /\ x.tries = job[d].tries + 1 /\ x.stalls = job[d].stalls
      BY <1>2, <3>1 DEF JobRec, JobStates
    <3>3. job' = [job EXCEPT ![d] = x]
      BY <1>3, <2>4
    <3>. HIDE DEF x
    <3>. QED  BY <1>0, <2>4, <3>2, <3>3
  <2>. QED  BY <2>1, <2>2, <2>3, <2>4
<1>6. DeliveryIsSound(d)'
  <2>1. JobIsConsistent(d)'
    <3>1. CASE ends = "stays"
      BY <1>1, <1>2, <1>3, <3>1 DEF JobIsConsistent
    <3>2. CASE ends # "stays"
      BY <1>1, <1>2, <1>3, <1>4, <1>5, <3>2 DEF JobIsConsistent
    <3>. QED  BY <3>1, <3>2
  <2>2. PostsAreEarned(d)'
    <3>1. /\ IsFiniteSet(Unposted(d)') /\ Cardinality(Unposted(d)') \in Nat
          /\ Cardinality(Unposted(d)') <= Cardinality(Unposted(d))
      BY <1>1, NamesAreDistinct, FewerMayPost
    <3>2. Begun(d)' \in Nat /\ Begun(d) \in Nat /\ Begun(d) <= Begun(d)'
      BY <1>2, <1>3, <1>4, <1>5 DEF Begun
    <3>3. posts[d] + Cardinality(Unposted(d)) <= Begun(d)
      BY <1>2 DEF PostsAreEarned
    <3>4. posts'[d] + Cardinality(Unposted(d)') <= Begun(d)'
      BY <1>2, <3>1, <3>2, <3>3
    <3>5. \A v \in Workers : worker'[v].at = d => worker'[v] = worker[v]
      BY <1>1, NamesAreDistinct
    <3>. QED  BY <1>2, <3>1, <3>4, <3>5 DEF PostsAreEarned
  <2>3. UnstalledIsQuiet(d)'
    <3>. SUFFICES ASSUME job[d].stalls = 0 PROVE UnstalledIsQuiet(d)'
      BY <1>5 DEF UnstalledIsQuiet
    <3>1. \A v \in Workers : worker'[v].at # d
      BY <1>1, <1>2, NamesAreDistinct DEF UnstalledIsQuiet
    <3>2. row[d].status = "SUCCESS" /\ d \in marking' => d \in spared
      BY <1>2, <1>3 DEF UnstalledIsQuiet
    <3>. QED  BY <3>1, <3>2 DEF UnstalledIsQuiet
  <2>. QED  BY <2>1, <2>2, <2>3 DEF DeliveryIsSound
<1>7. \A v \in Workers :
         \/ worker'[v] = worker[v]
         \/ /\ worker[v].at \in {d, NoDelivery} /\ worker'[v].at \in {d, NoDelivery}
            /\ worker'[v].step = "idle" <=> worker'[v].at = NoDelivery
  BY <1>1
<1>8. /\ job'[d].state = "none" <=> job[d].state = "none"
      /\ \A e \in Deliveries \ {d} : e \in marking' <=> e \in marking
      /\ marking' \subseteq Deliveries
  BY <1>0, <1>3, <1>4, <1>5
<1>9. row' \in [Deliveries -> RowRec] /\ posts' \in [Deliveries -> Nat]
      /\ spared' \subseteq Deliveries
  BY <1>0, OutboundTypes
<1>. QED  BY <1>1, <1>5, <1>6, <1>7, <1>8, <1>9, DeliveryStepKeepsIInv

LEMMA TakeKeepsIInv ==
  ASSUME OutboundIInv, NEW w \in Workers, NEW d \in Deliveries, Take(w, d)
  PROVE  OutboundIInv'
<1>. USE BoundsAreNaturals, NamesAreDistinct
<1>. DEFINE s == IF row[d].status = "SUCCESS" THEN "finish" ELSE "mark"
<1>0. /\ TypeOK /\ job \in [Deliveries -> JobRec]
      /\ worker \in [Workers -> WorkerRec]
  BY OutboundTypes DEF OutboundIInv
<1>1. /\ worker[w] = Idle /\ job[d].state = "waiting"
      /\ job' = [job EXCEPT ![d].state = "active", ![d].holder = w]
      /\ worker' = [worker EXCEPT ![w] = [at |-> d, seen |-> row[d].attempts,
                                          step |-> s]]
      /\ UNCHANGED <<fan, publishes, row, posts, marking, spared, faults>>
      /\ worker[w].at = NoDelivery
  BY DEF Take, Idle
<1>2. /\ JobIsConsistent(d) /\ PostsAreEarned(d) /\ UnstalledIsQuiet(d)
      /\ posts[d] \in Nat /\ job[d].tries \in 0 .. MaxTries
      /\ job[d].stalls \in 0 .. MaxStalls /\ Cardinality(Unposted(d)) \in Nat
      /\ row[d] \in RowRec /\ job[d] \in JobRec /\ IsFiniteSet(Unposted(d))
  BY OneDelivery
<1>3. /\ s \in {"finish", "mark"}
      /\ row[d].status = "SUCCESS" => s = "finish"
  OBVIOUS
<1>. HIDE DEF s
<1>4. /\ worker' \in [Workers -> WorkerRec]
      /\ worker'[w].at = d /\ worker'[w].step = s
      /\ \A v \in Workers \ {w} : worker'[v] = worker[v]
  <2>. DEFINE x == [at |-> d, seen |-> row[d].attempts, step |-> s]
  <2>1. x \in WorkerRec /\ x.at = d /\ x.step = s
    BY <1>2, <1>3 DEF WorkerRec, RowRec, Steps
  <2>2. worker' = [worker EXCEPT ![w] = x]
    BY <1>1
  <2>. HIDE DEF x
  <2>. QED  BY <1>0, <2>1, <2>2
<1>5. /\ job' \in [Deliveries -> JobRec]
      /\ job'[d].state = "active" /\ job'[d].holder = w
      /\ job'[d].tries = job[d].tries /\ job'[d].stalls = job[d].stalls
      /\ \A e \in Deliveries \ {d} : job'[e] = job[e]
  <2>. DEFINE x == [job[d] EXCEPT !.state = "active", !.holder = w]
  <2>1. /\ x \in JobRec /\ x.state = "active" /\ x.holder = w
        /\ x.tries = job[d].tries /\ x.stalls = job[d].stalls
    BY <1>2 DEF JobRec, JobStates
  <2>2. job' = [job EXCEPT ![d] = x]
    BY <1>0, <1>1 DEF JobRec
  <2>. HIDE DEF x
  <2>. QED  BY <1>0, <2>1, <2>2
<1>6. DeliveryIsSound(d)'
  <2>1. JobIsConsistent(d)'
    BY <1>1, <1>2, <1>5 DEF JobIsConsistent
  <2>2. PostsAreEarned(d)'
    <3>1. Unposted(d)' = Unposted(d) \/ Unposted(d)' = Unposted(d) \cup {w}
      BY <1>1, <1>4 DEF Unposted
    <3>2. /\ IsFiniteSet(Unposted(d) \cup {w})
          /\ Cardinality(Unposted(d) \cup {w}) =
                IF w \in Unposted(d) THEN Cardinality(Unposted(d))
                                     ELSE Cardinality(Unposted(d)) + 1
      BY <1>2, FS_AddElement
    <3>3. /\ IsFiniteSet(Unposted(d)') /\ Cardinality(Unposted(d)') \in Nat
          /\ Cardinality(Unposted(d)') <= Cardinality(Unposted(d)) + 1
      BY <1>2, <3>1, <3>2
    <3>4. Begun(d)' = Begun(d) + 1 /\ Begun(d) \in Nat
      BY <1>1, <1>2, <1>5 DEF Begun
    <3>5. posts[d] + Cardinality(Unposted(d)) <= Begun(d)
      BY <1>2 DEF PostsAreEarned
    <3>6. posts'[d] + Cardinality(Unposted(d)') <= Begun(d)'
      BY <1>1, <1>2, <3>3, <3>4, <3>5
    <3>7. \A v \in Workers :
             worker'[v].at = d /\ worker'[v].step = "accepted" =>
             worker[v].at = d /\ worker[v].step = "accepted"
      BY <1>3, <1>4
    <3>. QED  BY <1>1, <1>2, <3>3, <3>6, <3>7 DEF PostsAreEarned
  <2>3. UnstalledIsQuiet(d)'
    <3>. SUFFICES ASSUME job[d].stalls = 0 PROVE UnstalledIsQuiet(d)'
      BY <1>5 DEF UnstalledIsQuiet
    <3>1. \A v \in Workers : worker[v].at # d
      <4>1. \A v \in Workers : job[d].holder # v
        BY <1>1, <1>2 DEF JobIsConsistent
      <4>. QED  BY <1>1, <1>2, <4>1 DEF UnstalledIsQuiet
    <3>2. \A v \in Workers : worker'[v].at = d => v = w
      BY <1>4, <3>1
    <3>3. d \notin marking'
      BY <1>1, <1>2 DEF JobIsConsistent
    <3>. QED  BY <1>1, <1>3, <1>4, <1>5, <3>2, <3>3 DEF UnstalledIsQuiet
  <2>. QED  BY <2>1, <2>2, <2>3 DEF DeliveryIsSound
<1>7. \A v \in Workers :
         \/ worker'[v] = worker[v]
         \/ /\ worker[v].at \in {d, NoDelivery} /\ worker'[v].at \in {d, NoDelivery}
            /\ worker'[v].step = "idle" <=> worker'[v].at = NoDelivery
  BY <1>1, <1>3, <1>4
<1>8. row' \in [Deliveries -> RowRec] /\ posts' \in [Deliveries -> Nat]
      /\ faults' \in 0 .. MaxFaults /\ marking' \subseteq Deliveries
      /\ spared' \subseteq Deliveries
  BY <1>0, <1>1, OutboundTypes
<1>. QED  BY <1>1, <1>4, <1>5, <1>6, <1>7, <1>8, DeliveryStepKeepsIInv

(* The row of a job that has failed is marked, or the mark is lost.        *)
LEMMA MarkingKeepsIInv ==
  ASSUME OutboundIInv, NEW d \in Deliveries, d \in marking,
         marking' = marking \ {d}, row' \in [Deliveries -> RowRec],
         row'[d].sub = row[d].sub, row'[d].by = row[d].by,
         row'[d].status = "SUCCESS" => row[d].status = "SUCCESS" /\ d \in spared',
         \A e \in Deliveries \ {d} : row'[e] = row[e],
         spared' = spared \/ spared' = spared \cup {d},
         UNCHANGED <<fan, publishes, job, worker, posts>>,
         faults' \in 0 .. MaxFaults
  PROVE  OutboundIInv'
<1>0. /\ TypeOK /\ marking \subseteq Deliveries /\ spared \subseteq Deliveries
  BY OutboundTypes DEF OutboundIInv
<1>1. JobIsConsistent(d) /\ PostsAreEarned(d) /\ UnstalledIsQuiet(d)
  BY OneDelivery
<1>3. DeliveryIsSound(d)'
  <2>1. JobIsConsistent(d)'
    BY <1>1 DEF JobIsConsistent
  <2>2. Unposted(d)' = Unposted(d) /\ Begun(d)' = Begun(d)
    BY DEF Unposted, Begun
  <2>3. PostsAreEarned(d)'
    BY <1>1, <2>2 DEF PostsAreEarned
  <2>4. UnstalledIsQuiet(d)'
    BY <1>1 DEF UnstalledIsQuiet
  <2>. QED  BY <2>1, <2>3, <2>4 DEF DeliveryIsSound
<1>4. /\ job' \in [Deliveries -> JobRec] /\ worker' \in [Workers -> WorkerRec]
      /\ posts' \in [Deliveries -> Nat]
  BY <1>0, OutboundTypes
<1>5. \A e \in Deliveries \ {d} : /\ e \in marking' <=> e \in marking
                                  /\ e \in spared' <=> e \in spared
  OBVIOUS
<1>6. marking' \subseteq Deliveries /\ spared' \subseteq Deliveries
  BY <1>0
<1>. QED  BY <1>3, <1>4, <1>5, <1>6, DeliveryStepKeepsIInv

LEMMA StallKeepsIInv ==
  ASSUME OutboundIInv, NEW d \in Deliveries, Stall(d) PROVE OutboundIInv'
<1>. USE BoundsAreNaturals, NamesAreDistinct
<1>0. /\ TypeOK /\ job \in [Deliveries -> JobRec] /\ faults \in 0 .. MaxFaults
  BY OutboundTypes DEF OutboundIInv
<1>1. /\ job[d].state = "active"
      /\ job' = [job EXCEPT ![d] =
                  IF job[d].stalls < MaxStalls
                    THEN [job[d] EXCEPT !.state = "waiting", !.holder = NoWorker,
                                        !.stalls = @ + 1]
                    ELSE [job[d] EXCEPT !.state = "failed", !.holder = NoWorker]]
      /\ UNCHANGED <<fan, publishes, row, worker, posts, marking, spared>>
  BY DEF Stall
<1>2. /\ JobIsConsistent(d) /\ PostsAreEarned(d) /\ UnstalledIsQuiet(d)
      /\ posts[d] \in Nat /\ job[d].tries \in 0 .. MaxTries
      /\ job[d].stalls \in 0 .. MaxStalls /\ Cardinality(Unposted(d)) \in Nat
      /\ job[d] \in JobRec
  BY OneDelivery
<1>3. faults' \in 0 .. MaxFaults
  BY <1>0 DEF Stall, Fault
<1>4. /\ job' \in [Deliveries -> JobRec]
      /\ job'[d].holder = NoWorker /\ job'[d].tries = job[d].tries
      /\ \A e \in Deliveries \ {d} : job'[e] = job[e]
      /\ \/ job'[d].state = "waiting" /\ job'[d].stalls = job[d].stalls + 1
         \/ job'[d].state = "failed" /\ job'[d].stalls = job[d].stalls
  <2>1. CASE job[d].stalls < MaxStalls
    <3>. DEFINE x == [job[d] EXCEPT !.state = "waiting", !.holder = NoWorker,
                                    !.stalls = @ + 1]
    <3>1. job[d].stalls + 1 \in 0 .. MaxStalls
      BY <1>2, <2>1
    <3>2. /\ x \in JobRec /\ x.state = "waiting" /\ x.holder = NoWorker
          /\ x.tries = job[d].tries /\ x.stalls = job[d].stalls + 1
      BY <1>2, <3>1 DEF JobRec, JobStates
    <3>3. job' = [job EXCEPT ![d] = x]
      BY <1>1, <2>1
    <3>. HIDE DEF x
    <3>. QED  BY <1>0, <3>2, <3>3
  <2>2. CASE ~(job[d].stalls < MaxStalls)
    <3>. DEFINE x == [job[d] EXCEPT !.state = "failed", !.holder = NoWorker]
    <3>2. /\ x \in JobRec /\ x.state = "failed" /\ x.holder = NoWorker
          /\ x.tries = job[d].tries /\ x.stalls = job[d].stalls
      BY <1>2 DEF JobRec, JobStates
    <3>3. job' = [job EXCEPT ![d] = x]
      BY <1>1, <2>2
    <3>. HIDE DEF x
    <3>. QED  BY <1>0, <3>2, <3>3
  <2>. QED  BY <2>1, <2>2
<1>5. DeliveryIsSound(d)'
  <2>1. JobIsConsistent(d)'
    BY <1>1, <1>2, <1>4 DEF JobIsConsistent
  <2>2. PostsAreEarned(d)'
    <3>1. Unposted(d)' = Unposted(d)
      BY <1>1 DEF Unposted
    <3>2. job[d].tries < MaxTries
      BY <1>1, <1>2 DEF JobIsConsistent
    <3>3. Begun(d) \in Nat /\ Begun(d)' \in Nat /\ Begun(d) <= Begun(d)'
      BY <1>1, <1>2, <1>4, <3>2 DEF Begun
    <3>4. posts'[d] + Cardinality(Unposted(d)') <= Begun(d)'
      BY <1>1, <1>2, <3>1, <3>3 DEF PostsAreEarned
    <3>. QED  BY <1>1, <1>2, <3>1, <3>4 DEF PostsAreEarned
  <2>3. UnstalledIsQuiet(d)'
    BY <1>1, <1>2, <1>4 DEF UnstalledIsQuiet
  <2>. QED  BY <2>1, <2>2, <2>3 DEF DeliveryIsSound
<1>6. /\ row' \in [Deliveries -> RowRec] /\ posts' \in [Deliveries -> Nat]
      /\ worker' \in [Workers -> WorkerRec] /\ marking' \subseteq Deliveries
      /\ spared' \subseteq Deliveries
  BY <1>0, <1>1, OutboundTypes
<1>7. (job'[d].state = "none" <=> job[d].state = "none")
      /\ \A v \in Workers : worker'[v] = worker[v]
  BY <1>1, <1>4
<1>. QED  BY <1>1, <1>3, <1>4, <1>5, <1>6, <1>7, DeliveryStepKeepsIInv

LEMMA OutboundStepKeepsIInv == OutboundIInv /\ [Next]_vars => OutboundIInv'
<1>. SUFFICES ASSUME OutboundIInv, [Next]_vars PROVE OutboundIInv'
  OBVIOUS
<1>0. /\ TypeOK /\ row \in [Deliveries -> RowRec] /\ faults \in 0 .. MaxFaults
      /\ fan \in [Publishers -> FanRec]
      /\ marking \subseteq Deliveries /\ spared \subseteq Deliveries
  BY OutboundTypes DEF OutboundIInv
<1>a. Fault => faults' \in 0 .. MaxFaults
  BY <1>0, BoundsAreNaturals DEF Fault
<1>b. ASSUME NEW w \in Workers, worker[w].step # "idle"
      PROVE  worker[w].at \in Deliveries
  BY <1>0, <1>b, OneWorker
<1>1. ASSUME NEW p \in Publishers, NEW S \in SUBSET Subs \ {{}}, Publish(p, S)
      PROVE  OutboundIInv'
  BY <1>1, PublishKeepsIInv
<1>2. ASSUME NEW p \in Publishers, NEW s \in Subs, NEW d \in Deliveries,
             CreateRow(p, s, d)
      PROVE  OutboundIInv'
  BY <1>2, CreateRowKeepsIInv
<1>3. ASSUME NEW p \in Publishers, Enqueue(p) PROVE OutboundIInv'
  BY <1>3, EnqueueKeepsIInv
<1>4. ASSUME NEW p \in Publishers, PublishFails(p) PROVE OutboundIInv'
  <2>1. NoFan \in FanRec /\ NoFan.row = NoDelivery /\ NoFan.left = {}
    BY DEF NoFan, FanRec
  <2>2. /\ fan' = [fan EXCEPT ![p] = NoFan] /\ faults' \in 0 .. MaxFaults
        /\ UNCHANGED <<publishes, row, job, worker, posts, marking, spared>>
    BY <1>4, <1>a DEF PublishFails
  <2>. QED  BY <2>1, <2>2, FanEndsKeepsIInv
<1>5. ASSUME NEW w \in Workers, NEW d \in Deliveries, Take(w, d)
      PROVE  OutboundIInv'
  BY <1>5, TakeKeepsIInv
<1>6. ASSUME NEW w \in Workers, MarkRetrying(w) PROVE OutboundIInv'
  BY <1>6, MarkRetryingKeepsIInv
<1>7. ASSUME NEW w \in Workers, Post(w) PROVE OutboundIInv'
  BY <1>7, PostKeepsIInv
<1>8. ASSUME NEW w \in Workers,
             RecordSuccess(w) \/ RecordFailure(w) \/ RecordSuccessFails(w)
             \/ AttemptFails(w)
      PROVE  OutboundIInv'
  <2>1. PICK d \in Deliveries : d = worker[w].at
    BY <1>8, <1>b
       DEF RecordSuccess, RecordFailure, RecordSuccessFails, AttemptFails
  <2>2. \A st \in Statuses :
           LET r == [row EXCEPT ![d].status = st] IN
           /\ r \in [Deliveries -> RowRec] /\ r[d].status = st
           /\ r[d].sub = row[d].sub /\ r[d].by = row[d].by
           /\ \A e \in Deliveries \ {d} : r[e] = row[e]
    BY <1>0 DEF RowRec
  <2>3. CASE RecordSuccess(w)
    <3>1. /\ worker[w].step = "accepted"
          /\ row' = [row EXCEPT ![d].status = "SUCCESS"]
          /\ worker' = [worker EXCEPT ![w].step = "finish"]
          /\ UNCHANGED <<fan, publishes, job, posts, marking, spared, faults>>
      BY <2>1, <2>3 DEF RecordSuccess
    <3>2. /\ row' \in [Deliveries -> RowRec]
          /\ row'[d].sub = row[d].sub /\ row'[d].by = row[d].by
          /\ \A e \in Deliveries \ {d} : row'[e] = row[e]
      BY <2>2, <3>1 DEF Statuses
    <3>. QED  BY <1>0, <2>1, <3>1, <3>2, RecordKeepsIInv
  <2>4. CASE RecordFailure(w)
    <3>1. /\ worker[w].step = "record"
          /\ row' = [row EXCEPT ![d].status = "FAILED"]
          /\ worker' = [worker EXCEPT ![w].step = "retry"]
          /\ UNCHANGED <<fan, publishes, job, posts, marking, spared, faults>>
      BY <2>1, <2>4 DEF RecordFailure
    <3>2. /\ row' \in [Deliveries -> RowRec] /\ row'[d].status # "SUCCESS"
          /\ row'[d].sub = row[d].sub /\ row'[d].by = row[d].by
          /\ \A e \in Deliveries \ {d} : row'[e] = row[e]
      BY <2>2, <3>1 DEF Statuses
    <3>. QED  BY <1>0, <2>1, <3>1, <3>2, RecordKeepsIInv
  <2>5. CASE RecordSuccessFails(w)
    <3>1. /\ worker[w].step = "accepted" /\ faults' \in 0 .. MaxFaults
          /\ row' = row \/ row' = [row EXCEPT ![d].status = "SUCCESS"]
          /\ worker' = [worker EXCEPT ![w].step = "record"]
          /\ spared' = spared \cup {d}
          /\ UNCHANGED <<fan, publishes, job, posts, marking>>
      BY <1>a, <2>1, <2>5 DEF RecordSuccessFails
    <3>2. /\ row' \in [Deliveries -> RowRec]
          /\ row'[d].sub = row[d].sub /\ row'[d].by = row[d].by
          /\ \A e \in Deliveries \ {d} : row'[e] = row[e]
      BY <1>0, <2>2, <3>1 DEF Statuses
    <3>3. /\ spared' \subseteq Deliveries /\ spared \subseteq spared'
          /\ spared' \subseteq spared \cup {d} /\ d \in spared'
      BY <1>0, <3>1
    <3>4. "record" \in {"finish", "retry", "record"}
          /\ worker[w].step \in {"mark", "accepted", "record"}
      BY <3>1
    <3>5. row'[d].status = "SUCCESS" =>
            \/ row' = row
            \/ worker[w].step = "accepted" /\ ("record" = "finish" \/ d \in spared')
      BY <3>1, <3>3
    <3>. QED  BY <2>1, <3>1, <3>2, <3>3, <3>4, <3>5, RecordKeepsIInv
  <2>6. CASE AttemptFails(w)
    <3>1. /\ worker[w].step \in {"mark", "record"} /\ faults' \in 0 .. MaxFaults
          /\ worker' = [worker EXCEPT ![w].step = "retry"]
          /\ UNCHANGED <<fan, publishes, row, job, posts, marking, spared>>
      BY <1>a, <2>6 DEF AttemptFails
    <3>. QED  BY <1>0, <2>1, <3>1, RecordKeepsIInv
  <2>. QED  BY <1>8, <2>3, <2>4, <2>5, <2>6
<1>9. ASSUME NEW w \in Workers, Complete(w) PROVE OutboundIInv'
  <2>1. PICK d \in Deliveries : d = worker[w].at
    BY <1>9, <1>b DEF Complete
  <2>. QED  BY <1>0, <1>9, <2>1, LeaveKeepsIInv DEF Complete
<1>10. ASSUME NEW w \in Workers, Fail(w) PROVE OutboundIInv'
  <2>1. PICK d \in Deliveries : d = worker[w].at
    BY <1>10, <1>b DEF Fail
  <2>. QED  BY <1>0, <1>10, <2>1, LeaveKeepsIInv DEF Fail
<1>11. ASSUME NEW w \in Workers, WorkerDies(w) PROVE OutboundIInv'
  <2>1. CASE worker[w].step # "idle"
    <3>1. PICK d \in Deliveries : d = worker[w].at
      BY <1>b, <2>1
    <3>. QED  BY <1>a, <1>11, <3>1, LeaveKeepsIInv DEF WorkerDies
  <2>2. CASE worker[w].step = "idle"
    <3>1. worker[w].at = NoDelivery
      BY <1>0, <2>2, OneWorker
    <3>2. /\ worker' \in [Workers -> WorkerRec]
          /\ \A v \in Workers : worker'[v].at = worker[v].at
                                /\ worker'[v].step = worker[v].step
      BY <1>0, <1>11, <2>2, <3>1, WorkerLeaves DEF WorkerDies
    <3>3. UNCHANGED <<fan, publishes, row, job, posts, marking, spared>>
          /\ faults' \in 0 .. MaxFaults
      BY <1>a, <1>11 DEF WorkerDies
    <3>4. \A d \in Deliveries : DeliveryIsSound(d)'
      <4>1. \A d \in Deliveries : Unposted(d)' = Unposted(d)
                                  /\ Begun(d)' = Begun(d)
        BY <3>2, <3>3 DEF Unposted, Begun
      <4>. QED  BY <3>2, <3>3, <4>1 DEF OutboundIInv, DeliveryIsSound,
                JobIsConsistent, PostsAreEarned, UnstalledIsQuiet
    <3>5. TypeOK'
      BY <1>0, <3>2, <3>3 DEF TypeOK, WorkerRec, Steps
    <3>6. FansHoldTheirRows' /\ RowsAreOwed'
      BY <3>3 DEF OutboundIInv, FansHoldTheirRows, RowsAreOwed, RowsOf
    <3>. QED  BY <3>4, <3>5, <3>6 DEF OutboundIInv
  <2>. QED  BY <2>1, <2>2
<1>12. ASSUME NEW d \in Deliveries, MarkAbandoned(d) \/ MarkAbandonedFails(d)
       PROVE  OutboundIInv'
  <2>1. CASE MarkAbandoned(d)
    <3>1. /\ d \in marking /\ marking' = marking \ {d}
          /\ row' = [row EXCEPT ![d].status = "ABANDONED"] /\ spared' = spared
          /\ UNCHANGED <<fan, publishes, job, worker, posts>>
          /\ faults' \in 0 .. MaxFaults
      BY <1>0, <2>1 DEF MarkAbandoned
    <3>2. /\ row' \in [Deliveries -> RowRec] /\ row'[d].status # "SUCCESS"
          /\ row'[d].sub = row[d].sub /\ row'[d].by = row[d].by
          /\ \A e \in Deliveries \ {d} : row'[e] = row[e]
      BY <1>0, <3>1 DEF RowRec, Statuses
    <3>. QED  BY <3>1, <3>2, MarkingKeepsIInv
  <2>2. CASE MarkAbandonedFails(d)
    BY <1>0, <1>a, <2>2, MarkingKeepsIInv DEF MarkAbandonedFails
  <2>. QED  BY <1>12, <2>1, <2>2
<1>13. ASSUME NEW d \in Deliveries, Stall(d) PROVE OutboundIInv'
  BY <1>13, StallKeepsIInv
<1>14. CASE UNCHANGED vars
  <2>1. TypeOK'
    BY <1>0, <1>14 DEF vars, TypeOK
  <2>2. ASSUME NEW d \in Deliveries PROVE DeliveryIsSound(d)'
    BY <1>14, OtherDeliveriesStaySound DEF vars, OutboundIInv
  <2>3. FansHoldTheirRows' /\ RowsAreOwed'
    BY <1>14 DEF vars, OutboundIInv, FansHoldTheirRows, RowsAreOwed, RowsOf
  <2>. QED  BY <2>1, <2>2, <2>3 DEF OutboundIInv
<1>. QED  BY <1>1, <1>2, <1>3, <1>4, <1>5, <1>6, <1>7, <1>8, <1>9, <1>10, <1>11,
            <1>12, <1>13, <1>14 DEF Next, DeliveryStep

LEMMA OutboundIInvIsEnough == OutboundIInv => DeliveriesAreAccountedFor
<1>. SUFFICES ASSUME OutboundIInv PROVE DeliveriesAreAccountedFor
  OBVIOUS
<1>1. TypeOK
  BY DEF OutboundIInv
<1>2. SuccessWasPosted
  BY OneDelivery DEF SuccessWasPosted, PostsAreEarned
<1>3. PostsAreBounded
  <2>. SUFFICES ASSUME NEW d \in Deliveries
                PROVE  posts[d] <= MaxTries + job[d].stalls
    BY DEF PostsAreBounded
  <2>1. /\ posts[d] \in Nat /\ job[d].tries \in 0 .. MaxTries
        /\ job[d].stalls \in 0 .. MaxStalls /\ Cardinality(Unposted(d)) \in Nat
        /\ PostsAreEarned(d) /\ JobIsConsistent(d)
    BY OneDelivery
  <2>2. Begun(d) \in Nat /\ Begun(d) <= MaxTries + job[d].stalls
    BY <2>1, BoundsAreNaturals DEF Begun, JobIsConsistent
  <2>3. posts[d] + Cardinality(Unposted(d)) <= Begun(d)
    BY <2>1 DEF PostsAreEarned
  <2>. QED  BY <2>1, <2>2, <2>3, BoundsAreNaturals
<1>4. RowsAreCountedByPublishes
  <2>. SUFFICES ASSUME NEW p \in Publishers, NEW s \in Subs
                PROVE  Cardinality(RowsOf(p, s)) <= publishes[p]
    BY DEF RowsAreCountedByPublishes, RowsOf
  <2>1. /\ IsFiniteSet(RowsOf(p, s))
        /\ Cardinality(RowsOf(p, s)) + (IF s \in fan[p].left THEN 1 ELSE 0)
           <= publishes[p]
    BY DEF OutboundIInv, RowsAreOwed
  <2>2. Cardinality(RowsOf(p, s)) \in Nat /\ publishes[p] \in Nat
    BY <1>1, <2>1, FS_CardinalityType, OutboundTypes, BoundsAreNaturals
  <2>. QED  BY <2>1, <2>2
<1>. QED  BY <1>1, <1>2, <1>3, <1>4 DEF DeliveriesAreAccountedFor

(* OutboundWebhookService and its worker: whatever overlaps, stalls and    *)
(* fails, a row that says SUCCESS was posted, a subscriber sees no row     *)
(* oftener than the queue and its stalls allow, and no event is in more    *)
(* rows of a subscription than it was published.                           *)
THEOREM DeliveriesAreAlwaysAccountedFor == Spec => []DeliveriesAreAccountedFor
BY OutboundInitIInv, OutboundStepKeepsIInv, OutboundIInvIsEnough, PTL DEF Spec

(* A row that succeeded stays so, unless its job stalled or an answer was  *)
(* lost: one worker at a time, and none that goes on after the success.    *)
THEOREM OnlyFaultsEverUndoSuccess == Spec => OnlyFaultsUndoSuccess
<1>1. OutboundIInv /\ [Next]_vars =>
         [\A d \in Deliveries :
             row[d].status = "SUCCESS" /\ row'[d].status # "SUCCESS"
             => job[d].stalls > 0 \/ d \in spared]_vars
  <2>. SUFFICES ASSUME OutboundIInv, [Next]_vars, NEW d \in Deliveries,
                       row[d].status = "SUCCESS", row'[d].status # "SUCCESS"
                PROVE  job[d].stalls > 0 \/ d \in spared
    OBVIOUS
  <2>. SUFFICES ASSUME job[d].stalls = 0, d \notin spared PROVE FALSE
    <3>1. job[d].stalls \in 0 .. MaxStalls
      BY OneDelivery
    <3>. QED  BY <3>1, BoundsAreNaturals
  <2>1. row \in [Deliveries -> RowRec]
    BY OutboundTypes DEF OutboundIInv
  <2>2. /\ d \notin marking
        /\ \A w \in Workers : worker[w].at = d => worker[w].step = "finish"
    BY OneDelivery DEF UnstalledIsQuiet
  <2>3. ASSUME NEW p \in Publishers, NEW s \in Subs, NEW e \in Deliveries,
               CreateRow(p, s, e)
        PROVE  FALSE
    <3>1. e # d
      BY <2>3 DEF CreateRow, NoRow
    <3>2. row'[d] = row[d]
      BY <2>1, <2>3, <3>1 DEF CreateRow
    <3>. QED  BY <3>2
  <2>4. ASSUME NEW w \in Workers, MarkRetrying(w) \/ RecordFailure(w)
        PROVE  FALSE
    <3>1. worker[w].at # d
      BY <2>2, <2>4 DEF MarkRetrying, RecordFailure
    <3>2. row'[d] = row[d]
      BY <2>1, <2>4, <3>1 DEF MarkRetrying, RecordFailure
    <3>. QED  BY <3>2
  <2>5. ASSUME NEW w \in Workers, RecordSuccess(w) \/ RecordSuccessFails(w)
        PROVE  FALSE
    <3>1. row' = row \/ row' = [row EXCEPT ![worker[w].at].status = "SUCCESS"]
      BY <2>5 DEF RecordSuccess, RecordSuccessFails
    <3>. QED  BY <2>1, <3>1 DEF RowRec
  <2>6. ASSUME NEW e \in Deliveries, MarkAbandoned(e) PROVE FALSE
    <3>1. e # d
      BY <2>2, <2>6 DEF MarkAbandoned
    <3>2. row'[d] = row[d]
      BY <2>1, <2>6, <3>1 DEF MarkAbandoned
    <3>. QED  BY <3>2
  <2>7. ASSUME row' = row PROVE FALSE
    BY <2>7
  <2>. QED  BY <2>3, <2>4, <2>5, <2>6, <2>7
           DEF Next, DeliveryStep, Publish, Enqueue, PublishFails, Take, Post,
               Complete, Fail, AttemptFails, WorkerDies, MarkAbandonedFails, Stall,
               vars
<1>. QED  BY <1>1, OutboundInitIInv, OutboundStepKeepsIInv, PTL
         DEF Spec, OnlyFaultsUndoSuccess

(***************************************************************************)
(* Scheduled reports                                                       *)
(***************************************************************************)

Slots == Schedules \X Times
ScheduleRec == [row : {"none", "row", "deleted"}, active : BOOLEAN,
                next : Times \cup {NoTime}]
SweepRec == [todo : SUBSET Slots, made : SUBSET Slots, now : Times]

(* A sweep works through slots that were due when it read them.            *)
SweepIsSound(w) ==
    /\ sweep[w].made \subseteq exported
    /\ sweep[w].now <= reportClock
    /\ \A p \in sweep[w].todo : p[2] <= sweep[w].now

(* A schedule is past the slots that were exported, unless it is gone or   *)
(* two sweeps raced for it.                                                *)
ExportedIsPast(p) ==
    staleSweep \/ schedule[p[1]].row = "deleted"
               \/ (schedule[p[1]].next \in Nat /\ p[2] < schedule[p[1]].next)

ReportTypes ==
    /\ reportClock \in 0 .. MaxReportTime
    /\ schedule \in [Schedules -> ScheduleRec]
    /\ sweep \in [Sweepers -> SweepRec]
    /\ exported \subseteq Slots
    /\ enqueued \subseteq exported /\ exportedAgain \subseteq exported
    /\ reportFaults \in 0 .. MaxReportFaults /\ staleSweep \in BOOLEAN

ReportIInv ==
    /\ ReportTypes
    /\ \A s \in Schedules : schedule[s].row = "none" => schedule[s].next = NoTime
    /\ \A w \in Sweepers : SweepIsSound(w)
    /\ \A p \in exported : ExportedIsPast(p)
    /\ SlotsRepeatOnlyInRaces

LEMMA PeriodsAreNatural ==
    /\ Period \in Nat \ {0} /\ NoTime \notin Nat
    /\ MaxReportTime \in Nat /\ MaxReportFaults \in Nat
BY ReportOptions

LEMMA TimesAreNatural == \A t \in Times : t \in Nat /\ t \in Int
BY PeriodsAreNatural DEF Times

(* Some moment within a period from now is a whole number of periods after *)
(* the slot: advanceCron ends.                                             *)
LEMMA NextSlotExists ==
    ASSUME NEW slot \in Nat, NEW now \in Nat, slot <= now
    PROVE  \E t \in now + 1 .. now + Period : (t - slot) % Period = 0
<1> DEFINE d == now - slot
           r == d % Period
           q == d \div Period
           t == now + Period - r
<1>0. Period \in Nat \ {0}
  BY PeriodsAreNatural
<1>1. d \in Nat
  BY DEF d
<1>2. r \in 0 .. Period - 1 /\ q \in Int /\ d = Period * q + r
  BY <1>0, <1>1, Z3
<1>3. t \in now + 1 .. now + Period
  BY <1>0, <1>2
<1>4. t - slot = Period * (q + 1)
  <2>1. Period * (q + 1) = Period * q + Period
    BY <1>0, <1>2
  <2>2. t - slot = d + Period - r
    BY <1>0, <1>1, <1>2
  <2>. QED  BY <1>0, <1>2, <2>1, <2>2
<1>5. (Period * (q + 1)) % Period = 0
  BY <1>0, <1>2, Z3
<1>. QED  BY <1>3, <1>4, <1>5

LEMMA NextSlotIsNext ==
    ASSUME NEW slot \in Nat, NEW now \in Nat, slot <= now
    PROVE  NextSlot(slot, now) \in now + 1 .. now + Period
<1>1. \E t \in now + 1 .. now + Period : (t - slot) % Period = 0
  BY NextSlotExists
<1>2. NextSlot(slot, now) = CHOOSE t \in now + 1 .. now + Period :
                               (t - slot) % Period = 0
  BY DEF NextSlot
<1> DEFINE S == {t \in now + 1 .. now + Period : (t - slot) % Period = 0}
<1>3. (CHOOSE t \in now + 1 .. now + Period : (t - slot) % Period = 0)
         \in now + 1 .. now + Period
  BY <1>1
<1>. QED  BY <1>2, <1>3

LEMMA ReportInitIInv == ReportInit => ReportIInv
<1>. SUFFICES ASSUME ReportInit PROVE ReportIInv
  OBVIOUS
<1>1. Swept \in SweepRec /\ NoScheduleRow \in ScheduleRec
  BY PeriodsAreNatural DEF Swept, NoScheduleRow, SweepRec, ScheduleRec, Times
<1>2. ReportTypes
  <2>1. /\ schedule \in [Schedules -> ScheduleRec]
        /\ sweep \in [Sweepers -> SweepRec]
    BY <1>1 DEF ReportInit
  <2>2. /\ reportClock \in 0 .. MaxReportTime
        /\ reportFaults \in 0 .. MaxReportFaults
    BY PeriodsAreNatural DEF ReportInit
  <2>. QED  BY <2>1, <2>2 DEF ReportInit, ReportTypes
<1>. QED
  BY <1>1, <1>2, PeriodsAreNatural
     DEF ReportInit, ReportIInv, SweepIsSound, Swept, SlotsRepeatOnlyInRaces,
         NoScheduleRow

LEMMA ReportIInvIsEnough == ReportIInv => ReportTypeOK /\ SlotsRepeatOnlyInRaces
<1>. SUFFICES ASSUME ReportIInv PROVE ReportTypeOK /\ SlotsRepeatOnlyInRaces
  OBVIOUS
<1>1. \A w \in Sweepers :
         /\ sweep[w].todo \subseteq Slots /\ sweep[w].made \subseteq exported
         /\ sweep[w].now \in Times
  BY DEF ReportIInv, ReportTypes, SweepRec, SweepIsSound
<1>2. ReportTypeOK
  BY <1>1 DEF ReportIInv, ReportTypes, ReportTypeOK, ScheduleRec, Slots
<1>. QED  BY <1>2 DEF ReportIInv

(* Steps on schedules alone: an operator's.                                *)
LEMMA OperatorsKeepReportIInv ==
    ASSUME ReportIInv, NEW s \in Schedules,
           CreateSchedule(s) \/ SwitchSchedule(s) \/ DeleteSchedule(s)
                             \/ SetFirstRun(s)
    PROVE  ReportIInv'
<1>1. /\ UNCHANGED <<reportClock, sweep, exported, enqueued, exportedAgain,
                     reportFaults, staleSweep>>
      /\ \E x \in ScheduleRec : schedule' = [schedule EXCEPT ![s] = x]
      /\ \/ schedule[s].row = "none" /\ schedule'[s].next = NoTime
                                     /\ schedule'[s].row = "row"
         \/ schedule'[s].row = "deleted"
         \/ schedule'[s].row = schedule[s].row /\ schedule'[s].next = schedule[s].next
         \/ schedule[s].row = "row" /\ schedule[s].next = NoTime
                                    /\ schedule'[s].row = "row"
  <2>0. schedule \in [Schedules -> ScheduleRec] /\ schedule[s] \in ScheduleRec
    BY DEF ReportIInv, ReportTypes
  <2>1. CASE CreateSchedule(s)
    <3> DEFINE x == [row |-> "row", active |-> TRUE, next |-> NoTime]
    <3>1. x \in ScheduleRec /\ x.row = "row" /\ x.next = NoTime
      BY DEF ScheduleRec
    <3>2. schedule' = [schedule EXCEPT ![s] = x]
      BY <2>1 DEF CreateSchedule
    <3>. HIDE DEF x
    <3>. QED  BY <2>0, <2>1, <3>1, <3>2 DEF CreateSchedule
  <2>2. CASE SwitchSchedule(s)
    <3> DEFINE x == [schedule[s] EXCEPT !.active = ~schedule[s].active]
    <3>1. x \in ScheduleRec /\ x.row = schedule[s].row /\ x.next = schedule[s].next
      BY <2>0 DEF ScheduleRec
    <3>2. schedule' = [schedule EXCEPT ![s] = x]
      BY <2>0, <2>2 DEF SwitchSchedule
    <3>. HIDE DEF x
    <3>. QED  BY <2>0, <2>2, <3>1, <3>2 DEF SwitchSchedule
  <2>3. CASE DeleteSchedule(s)
    <3> DEFINE x == [NoScheduleRow EXCEPT !.row = "deleted"]
    <3>1. x \in ScheduleRec /\ x.row = "deleted"
      BY DEF ScheduleRec, NoScheduleRow
    <3>2. schedule' = [schedule EXCEPT ![s] = x]
      BY <2>3 DEF DeleteSchedule
    <3>. HIDE DEF x
    <3>. QED  BY <2>0, <2>3, <3>1, <3>2 DEF DeleteSchedule
  <2>4. CASE SetFirstRun(s)
    <3>1. PICK t \in reportClock .. reportClock + Period :
             schedule' = [schedule EXCEPT ![s].next = t]
      BY <2>4 DEF SetFirstRun
    <3> DEFINE x == [schedule[s] EXCEPT !.next = t]
    <3>2. t \in Times
      BY <3>1, PeriodsAreNatural DEF Times, ReportIInv, ReportTypes
    <3>3. x \in ScheduleRec /\ x.row = schedule[s].row
      BY <2>0, <3>2 DEF ScheduleRec
    <3>4. schedule' = [schedule EXCEPT ![s] = x]
      BY <2>0, <3>1
    <3>. HIDE DEF x
    <3>. QED  BY <2>0, <2>4, <3>3, <3>4 DEF SetFirstRun
  <2>. QED  BY <2>1, <2>2, <2>3, <2>4
<1>2. schedule' \in [Schedules -> ScheduleRec]
      /\ \A u \in Schedules \ {s} : schedule'[u] = schedule[u]
  BY <1>1 DEF ReportIInv, ReportTypes
<1>3. \A p \in exported : ExportedIsPast(p)'
  <2>. SUFFICES ASSUME NEW p \in exported, ~staleSweep PROVE ExportedIsPast(p)'
    BY <1>1 DEF ExportedIsPast
  <2>1. /\ p[1] \in Schedules
        /\ schedule[p[1]].row = "deleted"
           \/ (schedule[p[1]].next \in Nat /\ p[2] < schedule[p[1]].next)
    BY DEF ReportIInv, ReportTypes, ExportedIsPast, Slots
  <2>2. p[1] # s => schedule'[p[1]] = schedule[p[1]]
    BY <1>2, <2>1
  <2>3. schedule[s].row = "none" => schedule[s].next = NoTime
    BY DEF ReportIInv
  <2>. QED  BY <1>1, <2>1, <2>2, <2>3, PeriodsAreNatural DEF ExportedIsPast
<1>4. ReportTypes'
  BY <1>1, <1>2 DEF ReportIInv, ReportTypes
<1>5. \A u \in Schedules : schedule'[u].row = "none" => schedule'[u].next = NoTime
  BY <1>1, <1>2 DEF ReportIInv
<1>6. \A w \in Sweepers : SweepIsSound(w)'
  BY <1>1 DEF ReportIInv, SweepIsSound
<1>. QED
  BY <1>1, <1>3, <1>4, <1>5, <1>6 DEF ReportIInv, SlotsRepeatOnlyInRaces

(* Steps of a sweep on what is left of it alone.                           *)
LEMMA SweepsKeepReportIInv ==
    ASSUME ReportIInv, NEW w \in Sweepers, NEW x \in SweepRec,
           sweep' = [sweep EXCEPT ![w] = x],
           x.made \subseteq exported', x.now <= reportClock,
           \A p \in x.todo : p[2] <= x.now,
           UNCHANGED <<reportClock, schedule, exported, exportedAgain,
                       staleSweep>>,
           reportFaults' \in 0 .. MaxReportFaults,
           enqueued' \subseteq exported
    PROVE  ReportIInv'
<1>1. /\ sweep' \in [Sweepers -> SweepRec] /\ sweep'[w] = x
      /\ \A v \in Sweepers \ {w} : sweep'[v] = sweep[v]
  BY DEF ReportIInv, ReportTypes
<1>2. ReportTypes'
  BY <1>1 DEF ReportIInv, ReportTypes
<1>3. \A v \in Sweepers : SweepIsSound(v)'
  BY <1>1 DEF ReportIInv, SweepIsSound
<1>4. \A p \in exported : ExportedIsPast(p)'
  BY DEF ReportIInv, ExportedIsPast
<1>. QED  BY <1>2, <1>3, <1>4 DEF ReportIInv, SlotsRepeatOnlyInRaces

(* On with the next schedule, or none                                      *)
LEMMA GoingOnKeepsReportIInv ==
    ASSUME ReportIInv, NEW w \in Sweepers, NEW left \in SUBSET sweep[w].todo,
           GoesOn(w, left) \/ sweep' = [sweep EXCEPT ![w] = Swept],
           UNCHANGED <<reportClock, schedule, exported, exportedAgain,
                       staleSweep>>,
           reportFaults' \in 0 .. MaxReportFaults,
           enqueued' \subseteq exported
    PROVE  ReportIInv'
<1>1. sweep \in [Sweepers -> SweepRec] /\ sweep[w] \in SweepRec /\ SweepIsSound(w)
  BY DEF ReportIInv, ReportTypes
<1> DEFINE y == [sweep[w] EXCEPT !.todo = left, !.made = {}]
<1>2. y \in SweepRec /\ y.todo = left /\ y.made = {} /\ y.now = sweep[w].now
  BY <1>1 DEF SweepRec
<1>3. /\ Swept \in SweepRec /\ Swept.made = {} /\ Swept.todo = {}
      /\ Swept.now <= reportClock
  BY PeriodsAreNatural DEF Swept, SweepRec, Times, ReportIInv, ReportTypes
<1>4. \/ sweep' = [sweep EXCEPT ![w] = Swept]
      \/ sweep' = [sweep EXCEPT ![w] = y]
  BY <1>1 DEF GoesOn
<1>. HIDE DEF y
<1>5. CASE sweep' = [sweep EXCEPT ![w] = Swept]
  BY <1>3, <1>5, SweepsKeepReportIInv
<1>6. CASE sweep' = [sweep EXCEPT ![w] = y]
  BY <1>1, <1>2, <1>6, SweepsKeepReportIInv DEF SweepIsSound
<1>. QED  BY <1>4, <1>5, <1>6

LEMMA StartSweepKeepsReportIInv ==
    ASSUME ReportIInv, NEW w \in Sweepers, StartSweep(w)
    PROVE  ReportIInv'
<1>1. PICK b \in Batches(DueAt(reportClock)) :
         sweep' = [sweep EXCEPT ![w] = [todo |-> b, made |-> {},
                                        now |-> reportClock]]
  BY DEF StartSweep
<1> DEFINE x == [todo |-> b, made |-> {}, now |-> reportClock]
<1>2. b \subseteq DueAt(reportClock)
  BY DEF Batches
<1>3. reportClock \in Times /\ reportClock \in Nat
  BY PeriodsAreNatural DEF ReportIInv, ReportTypes, Times
<1>4. \A p \in DueAt(reportClock) : p \in Slots /\ p[2] <= reportClock
  <2>. SUFFICES ASSUME NEW p \in DueAt(reportClock)
                PROVE  p \in Slots /\ p[2] <= reportClock
    OBVIOUS
  <2>1. PICK s \in Schedules : /\ p = <<s, schedule[s].next>>
                               /\ schedule[s].next # NoTime
                               /\ schedule[s].next <= reportClock
    BY DEF DueAt
  <2>2. schedule[s].next \in Times
    BY <2>1 DEF ReportIInv, ReportTypes, ScheduleRec
  <2>. QED  BY <2>1, <2>2 DEF Slots
<1>5. x \in SweepRec
  BY <1>2, <1>3, <1>4 DEF SweepRec
<1>6. x.made = {} /\ x.todo = b /\ x.now = reportClock
  OBVIOUS
<1>7. sweep' = [sweep EXCEPT ![w] = x]
  BY <1>1
<1>. HIDE DEF x
<1>8. x.made \subseteq exported' /\ x.now <= reportClock
      /\ \A p \in x.todo : p[2] <= x.now
  BY <1>2, <1>3, <1>4, <1>6
<1>9. /\ UNCHANGED <<reportClock, schedule, exported, exportedAgain, staleSweep>>
      /\ reportFaults' \in 0 .. MaxReportFaults /\ enqueued' \subseteq exported
  BY DEF StartSweep, ReportIInv, ReportTypes
<1>. QED  BY <1>5, <1>7, <1>8, <1>9, SweepsKeepReportIInv

(* The schedule moves past the slot that is exported.                      *)
LEMMA MakeExportKeepsReportIInv ==
    ASSUME ReportIInv, NEW w \in Sweepers, NEW p \in sweep[w].todo,
           MakeExport(w, p)
    PROVE  ReportIInv'
<1> DEFINE s == p[1]
           t == NextSlot(p[2], sweep[w].now)
           x == [schedule[s] EXCEPT !.next = t]
           y == [sweep[w] EXCEPT !.todo = sweep[w].todo \ {p}, !.made = {p}]
<1>1. /\ sweep \in [Sweepers -> SweepRec] /\ sweep[w] \in SweepRec
      /\ SweepIsSound(w) /\ schedule \in [Schedules -> ScheduleRec]
      /\ reportClock \in 0 .. MaxReportTime
  BY DEF ReportIInv, ReportTypes
<1>2. p \in Slots /\ s \in Schedules /\ p[2] \in Nat /\ sweep[w].now \in Nat
      /\ p[2] <= sweep[w].now /\ sweep[w].now <= reportClock
  BY <1>1, TimesAreNatural DEF SweepRec, SweepIsSound, Slots
<1>3. t \in sweep[w].now + 1 .. sweep[w].now + Period
  BY <1>2, NextSlotIsNext
<1>4. t \in Times /\ t \in Nat /\ p[2] < t
  BY <1>1, <1>2, <1>3, PeriodsAreNatural DEF Times
<1>5. x \in ScheduleRec /\ x.next = t /\ x.row = schedule[s].row
  BY <1>1, <1>2, <1>4 DEF ScheduleRec
<1>6. schedule' = [schedule EXCEPT ![s] = x]
  BY <1>1, <1>2 DEF MakeExport
<1>7. /\ y \in SweepRec /\ y.todo = sweep[w].todo \ {p} /\ y.made = {p}
      /\ y.now = sweep[w].now
  BY <1>1, <1>2 DEF SweepRec
<1>8. sweep' = [sweep EXCEPT ![w] = y]
  BY <1>1 DEF MakeExport
<1>9. /\ exported' = exported \cup {p}
      /\ exportedAgain' = exportedAgain \cup ({p} \cap exported)
      /\ staleSweep' = (staleSweep \/ schedule[s].next # p[2])
      /\ schedule[s].row = "row"
      /\ UNCHANGED <<reportClock, enqueued, reportFaults>>
  BY DEF MakeExport
<1>. HIDE DEF s, t, x, y
<1>10. /\ schedule' \in [Schedules -> ScheduleRec] /\ schedule'[s] = x
       /\ \A u \in Schedules \ {s} : schedule'[u] = schedule[u]
       /\ sweep' \in [Sweepers -> SweepRec] /\ sweep'[w] = y
       /\ \A v \in Sweepers \ {w} : sweep'[v] = sweep[v]
  BY <1>1, <1>2, <1>5, <1>6, <1>7, <1>8
<1>11. ReportTypes'
  BY <1>2, <1>9, <1>10 DEF ReportIInv, ReportTypes
<1>12. \A u \in Schedules : schedule'[u].row = "none" => schedule'[u].next = NoTime
  BY <1>5, <1>9, <1>10 DEF ReportIInv
<1>13. \A v \in Sweepers : SweepIsSound(v)'
  BY <1>1, <1>7, <1>9, <1>10 DEF ReportIInv, SweepIsSound
<1>14. ASSUME NEW q \in exported' PROVE ExportedIsPast(q)'
  <2>. SUFFICES ASSUME ~staleSweep, schedule[s].next = p[2]
                PROVE  ExportedIsPast(q)'
    BY <1>9 DEF ExportedIsPast, ReportIInv, ReportTypes
  <2>1. q \in Slots /\ q[1] \in Schedules /\ q[2] \in Nat
    BY <1>2, <1>9, TimesAreNatural DEF ReportIInv, ReportTypes, Slots
  <2>2. CASE q = p
    BY <1>4, <1>5, <1>10, <2>2 DEF ExportedIsPast, s
  <2>3. CASE q # p
    <3>1. ExportedIsPast(q)
      BY <1>9, <2>3 DEF ReportIInv
    <3>2. CASE q[1] # s
      BY <1>10, <2>1, <3>1, <3>2 DEF ExportedIsPast
    <3>3. CASE q[1] = s
      <4>1. q[2] < p[2]
        BY <1>9, <3>1, <3>3 DEF ExportedIsPast
      <4>2. q[2] < t
        BY <1>2, <1>4, <2>1, <4>1
      <4>. QED  BY <1>4, <1>5, <1>10, <3>3, <4>2 DEF ExportedIsPast
    <3>. QED  BY <3>2, <3>3
  <2>. QED  BY <2>2, <2>3
<1>15. SlotsRepeatOnlyInRaces'
  <2>1. p \in exported /\ ~staleSweep => schedule[s].next # p[2]
    BY <1>2, <1>9 DEF ReportIInv, ExportedIsPast, s
  <2>. QED  BY <1>9, <2>1 DEF ReportIInv, ReportTypes, SlotsRepeatOnlyInRaces
<1>. QED  BY <1>11, <1>12, <1>13, <1>14, <1>15 DEF ReportIInv

LEMMA ReportStepKeepsIInv == ReportIInv /\ [ReportNext]_reportVars => ReportIInv'
<1>. SUFFICES ASSUME ReportIInv, [ReportNext]_reportVars PROVE ReportIInv'
  OBVIOUS
<1>0. /\ reportFaults \in 0 .. MaxReportFaults /\ enqueued \subseteq exported
      /\ \A w \in Sweepers : SweepIsSound(w)
  BY DEF ReportIInv, ReportTypes
<1>1. ASSUME NEW s \in Schedules,
             CreateSchedule(s) \/ SwitchSchedule(s) \/ DeleteSchedule(s)
                               \/ SetFirstRun(s)
      PROVE  ReportIInv'
  BY <1>1, OperatorsKeepReportIInv
<1>2. ASSUME NEW w \in Sweepers, StartSweep(w) PROVE ReportIInv'
  BY <1>2, StartSweepKeepsReportIInv
<1>3. ASSUME NEW w \in Sweepers, NEW p \in sweep[w].todo, MakeExport(w, p)
      PROVE  ReportIInv'
  BY <1>3, MakeExportKeepsReportIInv
<1>4. ASSUME NEW w \in Sweepers, NEW p \in sweep[w].todo, ReportFails(w, p)
      PROVE  ReportIInv'
  <2>1. sweep[w].todo \ {p} \in SUBSET sweep[w].todo
    OBVIOUS
  <2>. QED  BY <1>0, <1>4, <2>1, GoingOnKeepsReportIInv DEF ReportFails
<1>5. ASSUME NEW w \in Sweepers, EnqueueReport(w) PROVE ReportIInv'
  <2>1. sweep[w].todo \in SUBSET sweep[w].todo
    OBVIOUS
  <2>2. enqueued' \subseteq exported
    BY <1>0, <1>5 DEF EnqueueReport, SweepIsSound
  <2>. QED  BY <1>0, <1>5, <2>1, <2>2, GoingOnKeepsReportIInv DEF EnqueueReport
<1>6. ASSUME NEW w \in Sweepers, ReportErrs(w) PROVE ReportIInv'
  <2>1. PICK left \in SUBSET sweep[w].todo : GoesOn(w, left)
    BY <1>6 DEF ReportErrs
  <2>2. reportFaults' \in 0 .. MaxReportFaults
    BY <1>0, <1>6, PeriodsAreNatural DEF ReportErrs, ReportFault
  <2>. QED  BY <1>0, <1>6, <2>1, <2>2, GoingOnKeepsReportIInv DEF ReportErrs
<1>7. ASSUME NEW w \in Sweepers, SweeperDies(w) PROVE ReportIInv'
  <2>1. reportFaults' \in 0 .. MaxReportFaults
    BY <1>0, <1>7, PeriodsAreNatural DEF SweeperDies, ReportFault
  <2>2. {} \in SUBSET sweep[w].todo
    OBVIOUS
  <2>. QED  BY <1>0, <1>7, <2>1, <2>2, GoingOnKeepsReportIInv DEF SweeperDies
<1>8. CASE ReportTick
  <2>1. /\ reportClock' = reportClock + 1 /\ reportClock < MaxReportTime
        /\ UNCHANGED <<schedule, sweep, exported, enqueued, exportedAgain,
                       reportFaults, staleSweep>>
    BY <1>8 DEF ReportTick
  <2>2. ReportTypes' /\ reportClock < reportClock'
    BY <2>1, PeriodsAreNatural DEF ReportIInv, ReportTypes
  <2>3. ASSUME NEW w \in Sweepers PROVE SweepIsSound(w)'
    <3>1. sweep[w].now \in Nat
      BY TimesAreNatural DEF ReportIInv, ReportTypes, SweepRec
    <3>. QED  BY <1>0, <2>1, <3>1 DEF SweepIsSound, ReportIInv, ReportTypes
  <2>. QED  BY <2>1, <2>2, <2>3
           DEF ReportIInv, ExportedIsPast, SlotsRepeatOnlyInRaces
<1>9. CASE UNCHANGED reportVars
  <2>. QED  BY <1>9 DEF reportVars, ReportIInv, ReportTypes, SweepIsSound,
                        ExportedIsPast, SlotsRepeatOnlyInRaces
<1>. QED  BY <1>1, <1>2, <1>3, <1>4, <1>5, <1>6, <1>7, <1>8, <1>9
         DEF ReportNext, SweepStep

(***************************************************************************)
(* Exports                                                                 *)
(***************************************************************************)

ExportJobRec ==
    [state : {"none", "waiting", "active", "done", "failed"},
     tries : 0 .. ExportTries, stalls : 0 .. 2,
     owner : Executors \cup {NoExecutor}]
ExecutorRec ==
    [pc : {"idle", "load", "mark", "gather", "complete", "fail", "return",
           "throw"},
     of : Exports \cup {NoExport}]

ExportTypes ==
    /\ export \in [Exports -> {"none", "PENDING", "RUNNING", "COMPLETED", "FAILED"}]
    /\ asking \subseteq Exports
    /\ exportJob \in [Exports -> ExportJobRec]
    /\ executor \in [Executors -> ExecutorRec]
    /\ exportFaults \in 0 .. MaxExportFaults
    /\ exportStalls \in 0 .. MaxExportStalls
    /\ sharedRun \subseteq Exports

(* A job is enqueued once, and only goes on while it has tries left.       *)
ExportIsSound(e) ==
    /\ export[e] = "none" => e \notin asking
    /\ export[e] = "none" \/ e \in asking =>
          exportJob[e].state = "none" /\ exportJob[e].tries = 0
                                      /\ exportJob[e].stalls = 0
    /\ exportJob[e].state \in {"waiting", "active"} =>
          exportJob[e].tries < ExportTries /\ exportJob[e].stalls <= 1
    /\ exportJob[e].state = "active" => exportJob[e].owner \in Executors

(* An executor that may yet change the row found it not completed.         *)
ExecutorIsSound(x) ==
    /\ executor[x].pc = "idle" <=> executor[x].of = NoExport
    /\ executor[x].of \in Exports => export[executor[x].of] # "none"
    /\ executor[x].pc \in {"mark", "gather", "complete", "fail"} =>
          \/ executor[x].of \in sharedRun
          \/ export[executor[x].of] # "COMPLETED"

ExecutorsShareOpenly ==
    \A x, y \in Executors :
        executor[x].of = executor[y].of =>
            x = y \/ executor[x].of \in sharedRun \cup {NoExport}

ExportIInv ==
    /\ ExportTypes
    /\ \A e \in Exports : ExportIsSound(e)
    /\ \A x \in Executors : ExecutorIsSound(x)
    /\ ExecutorsShareOpenly

LEMMA ExportBounds ==
    /\ NoExport \notin Exports /\ NoExecutor \notin Executors
    /\ ExportTries \in Nat \ {0} /\ MaxExportFaults \in Nat
    /\ MaxExportStalls \in Nat
BY ExportOptions

LEMMA ExportIInvIsEnough == ExportIInv => ExportTypeOK
BY DEF ExportIInv, ExportTypes, ExportTypeOK, ExportJobRec, ExecutorRec

LEMMA ExportInitIInv == ExportInit => ExportIInv
<1>. SUFFICES ASSUME ExportInit PROVE ExportIInv
  OBVIOUS
<1> DEFINE j == [state |-> "none", tries |-> 0, stalls |-> 0, owner |-> NoExecutor]
<1>1. j \in ExportJobRec /\ j.state = "none" /\ j.tries = 0 /\ j.stalls = 0
  BY ExportBounds DEF ExportJobRec
<1>2. exportJob = [e \in Exports |-> j]
  BY DEF ExportInit
<1>. HIDE DEF j
<1>3. Vacant \in ExecutorRec /\ Vacant.pc = "idle" /\ Vacant.of = NoExport
  BY DEF Vacant, ExecutorRec
<1>4. exportFaults \in 0 .. MaxExportFaults /\ exportStalls \in 0 .. MaxExportStalls
  BY ExportBounds DEF ExportInit
<1>5. ExportTypes
  BY <1>1, <1>2, <1>3, <1>4 DEF ExportInit, ExportTypes
<1>6. \A e \in Exports : ExportIsSound(e)
  BY <1>1, <1>2 DEF ExportInit, ExportIsSound
<1>7. \A x \in Executors : ExecutorIsSound(x)
  BY <1>3, ExportBounds DEF ExportInit, ExecutorIsSound
<1>8. ExecutorsShareOpenly
  BY <1>3 DEF ExportInit, ExecutorsShareOpenly
<1>. QED  BY <1>5, <1>6, <1>7, <1>8 DEF ExportIInv

(* An executor goes on with the export that it runs, or lets go of it.     *)
LEMMA ExecutorStepKeepsExportIInv ==
    ASSUME ExportIInv, NEW x \in Executors, NEW p \in ExecutorRec,
           executor' = [executor EXCEPT ![x] = p],
           p = Vacant \/ (p.of = executor[x].of /\ p.pc # "idle"
                                                /\ executor[x].pc # "idle"),
           p.pc \in {"mark", "gather", "complete", "fail"} =>
               p.of \in sharedRun \/ export'[p.of] # "COMPLETED",
           export' \in [Exports -> {"none", "PENDING", "RUNNING", "COMPLETED",
                                    "FAILED"}],
           \A e \in Exports : export'[e] # export[e] =>
                                  /\ e = executor[x].of
                                  /\ export'[e] # "none",
           UNCHANGED <<asking, exportJob, exportStalls, sharedRun>>,
           exportFaults' \in 0 .. MaxExportFaults
    PROVE  ExportIInv'
<1>1. /\ executor' \in [Executors -> ExecutorRec] /\ executor'[x] = p
      /\ \A y \in Executors \ {x} : executor'[y] = executor[y]
  BY DEF ExportIInv, ExportTypes
<1>2. ExportTypes'
  BY <1>1 DEF ExportIInv, ExportTypes
<1>3. \A e \in Exports : ExportIsSound(e)'
  BY DEF ExportIInv, ExportIsSound
<1>4. Vacant.pc = "idle" /\ Vacant.of = NoExport
  BY DEF Vacant
<1>5. ExecutorsShareOpenly'
  BY <1>1, <1>4 DEF ExportIInv, ExecutorsShareOpenly
<1>6. ASSUME NEW y \in Executors PROVE ExecutorIsSound(y)'
  <2>1. CASE y = x
    BY <1>1, <1>4, <2>1, ExportBounds DEF ExportIInv, ExecutorIsSound
  <2>2. CASE y # x
    <3>1. executor'[y] = executor[y] /\ executor[y] \in ExecutorRec
      BY <1>1, <2>2 DEF ExportIInv, ExportTypes
    <3>2. CASE executor[y].of \in Exports /\ export'[executor[y].of] # export[executor[y].of]
      BY <2>2, <3>1, <3>2, ExportBounds
         DEF ExportIInv, ExecutorsShareOpenly, ExecutorIsSound
    <3>3. CASE executor[y].of \in Exports /\ export'[executor[y].of] = export[executor[y].of]
      BY <3>1, <3>3 DEF ExportIInv, ExecutorIsSound
    <3>4. CASE executor[y].of = NoExport
      BY <3>1, <3>4 DEF ExportIInv, ExecutorIsSound
    <3>. QED  BY <3>1, <3>2, <3>3, <3>4 DEF ExecutorRec
  <2>. QED  BY <2>1, <2>2
<1>. QED  BY <1>2, <1>3, <1>5, <1>6 DEF ExportIInv

(* A step on one job alone.                                                *)
LEMMA JobStepKeepsExportIInv ==
    ASSUME ExportIInv, NEW e \in Exports, NEW j \in ExportJobRec,
           exportJob' = [exportJob EXCEPT ![e] = j],
           export[e] # "none", e \notin asking',
           asking' = asking \/ asking' = asking \ {e},
           j.state \in {"waiting", "active"} =>
               j.tries < ExportTries /\ j.stalls <= 1,
           j.state = "active" => j.owner \in Executors,
           exportStalls' \in 0 .. MaxExportStalls,
           UNCHANGED <<export, executor, exportFaults, sharedRun>>
    PROVE  ExportIInv'
<1>1. /\ exportJob' \in [Exports -> ExportJobRec] /\ exportJob'[e] = j
      /\ \A f \in Exports \ {e} : exportJob'[f] = exportJob[f]
  BY DEF ExportIInv, ExportTypes
<1>2. ExportTypes'
  BY <1>1 DEF ExportIInv, ExportTypes
<1>3. ASSUME NEW f \in Exports PROVE ExportIsSound(f)'
  BY <1>1 DEF ExportIInv, ExportIsSound
<1>. QED  BY <1>2, <1>3 DEF ExportIInv, ExecutorIsSound, ExecutorsShareOpenly

(* An executor takes up an export or lets go of it, while the job changes. *)
LEMMA HandOverKeepsExportIInv ==
    ASSUME ExportIInv, NEW e \in Exports, NEW j \in ExportJobRec,
           NEW x \in Executors, NEW p \in ExecutorRec,
           exportJob' = [exportJob EXCEPT ![e] = j],
           executor' = [executor EXCEPT ![x] = p],
           export[e] # "none", e \notin asking,
           p = Vacant \/ (p.pc = "load" /\ p.of = e),
           sharedRun \subseteq sharedRun', sharedRun' \subseteq Exports,
           p # Vacant => e \in sharedRun'
                         \/ \A y \in Executors : executor[y].of # e,
           j.state \in {"waiting", "active"} =>
               j.tries < ExportTries /\ j.stalls <= 1,
           j.state = "active" => j.owner \in Executors,
           UNCHANGED <<export, asking, exportFaults, exportStalls>>
    PROVE  ExportIInv'
<1>1. /\ exportJob' \in [Exports -> ExportJobRec] /\ exportJob'[e] = j
      /\ \A f \in Exports \ {e} : exportJob'[f] = exportJob[f]
      /\ executor' \in [Executors -> ExecutorRec] /\ executor'[x] = p
      /\ \A y \in Executors \ {x} : executor'[y] = executor[y]
  BY DEF ExportIInv, ExportTypes
<1>2. ExportTypes'
  BY <1>1 DEF ExportIInv, ExportTypes
<1>3. ASSUME NEW f \in Exports PROVE ExportIsSound(f)'
  BY <1>1 DEF ExportIInv, ExportIsSound
<1>4. Vacant.pc = "idle" /\ Vacant.of = NoExport
  BY DEF Vacant
<1>5. ASSUME NEW y \in Executors PROVE ExecutorIsSound(y)'
  <2>1. CASE y = x
    BY <1>1, <1>4, <2>1, ExportBounds DEF ExecutorIsSound
  <2>2. CASE y # x
    <3>1. ExecutorIsSound(y) /\ executor'[y] = executor[y]
      BY <1>1, <2>2 DEF ExportIInv
    <3>. QED  BY <3>1 DEF ExecutorIsSound
  <2>. QED  BY <2>1, <2>2
<1>6. ExecutorsShareOpenly'
  <2>. SUFFICES ASSUME NEW y \in Executors, NEW z \in Executors,
                       executor'[y].of = executor'[z].of, y # z,
                       executor'[y].of # NoExport
                PROVE  executor'[y].of \in sharedRun'
    BY DEF ExecutorsShareOpenly
  <2>1. CASE y # x /\ z # x
    BY <1>1, <2>1 DEF ExportIInv, ExecutorsShareOpenly
  <2>2. CASE y = x \/ z = x
    BY <1>1, <1>4, <2>2
  <2>. QED  BY <2>1, <2>2
<1>. QED  BY <1>2, <1>3, <1>5, <1>6 DEF ExportIInv

LEMMA AskExportKeepsIInv ==
    ASSUME ExportIInv, NEW e \in Exports, AskExport(e) PROVE ExportIInv'
<1>1. /\ export[e] = "none" /\ export' = [export EXCEPT ![e] = "PENDING"]
      /\ asking' = asking \cup {e}
      /\ UNCHANGED <<exportJob, executor, exportFaults, exportStalls, sharedRun>>
  BY DEF AskExport
<1>2. ExportTypes' /\ export'[e] = "PENDING"
      /\ \A f \in Exports \ {e} : export'[f] = export[f]
  BY <1>1 DEF ExportIInv, ExportTypes
<1>3. ASSUME NEW f \in Exports PROVE ExportIsSound(f)'
  BY <1>1, <1>2 DEF ExportIInv, ExportIsSound
<1>4. ASSUME NEW x \in Executors PROVE ExecutorIsSound(x)'
  <2>1. ExecutorIsSound(x) /\ executor[x] \in ExecutorRec
    BY DEF ExportIInv, ExportTypes
  <2>. QED  BY <1>1, <1>2, <2>1, ExportBounds DEF ExecutorIsSound, ExecutorRec
<1>. QED  BY <1>1, <1>2, <1>3, <1>4 DEF ExportIInv, ExecutorsShareOpenly

LEMMA JobsKeepExportIInv ==
    ASSUME ExportIInv, NEW e \in Exports,
           EnqueueAsked(e) \/ JobOfDeadLapses(e) \/ JobOfSlowLapses(e)
    PROVE  ExportIInv'
<1>0. /\ ExportIsSound(e) /\ exportJob[e] \in ExportJobRec
      /\ exportJob \in [Exports -> ExportJobRec]
      /\ exportStalls \in 0 .. MaxExportStalls
  BY DEF ExportIInv, ExportTypes
<1>1. CASE EnqueueAsked(e)
  <2> DEFINE j == [exportJob[e] EXCEPT !.state = "waiting"]
  <2>1. /\ j \in ExportJobRec /\ j.state = "waiting"
        /\ j.tries = exportJob[e].tries /\ j.stalls = exportJob[e].stalls
    BY <1>0 DEF ExportJobRec
  <2>2. exportJob' = [exportJob EXCEPT ![e] = j]
    BY <1>0, <1>1 DEF EnqueueAsked
  <2>. HIDE DEF j
  <2>3. j.tries < ExportTries /\ j.stalls <= 1 /\ export[e] # "none"
    BY <1>0, <1>1, <2>1, ExportBounds DEF EnqueueAsked, ExportIsSound
  <2>. QED  BY <1>0, <1>1, <2>1, <2>2, <2>3, JobStepKeepsExportIInv
            DEF EnqueueAsked
<1>2. CASE JobOfDeadLapses(e) \/ JobOfSlowLapses(e)
  <2> DEFINE k == exportJob[e].stalls + 1
             st == IF exportJob[e].stalls = 0 THEN "waiting" ELSE "failed"
             j == [exportJob[e] EXCEPT !.owner = NoExecutor, !.stalls = k,
                                       !.state = st]
  <2>1. exportJob[e].state = "active" /\ Lapses(e)
    BY <1>2 DEF JobOfDeadLapses, JobOfSlowLapses
  <2>2. k \in 0 .. 2 /\ (st = "waiting" => k <= 1)
        /\ exportJob[e].tries < ExportTries
    BY <1>0, <2>1 DEF ExportIsSound, ExportJobRec
  <2>3. /\ j \in ExportJobRec /\ j.state = st /\ j.stalls = k
        /\ j.tries = exportJob[e].tries
    BY <1>0, <2>2 DEF ExportJobRec
  <2>4. exportJob' = [exportJob EXCEPT ![e] = j]
    BY <1>0, <2>1 DEF Lapses
  <2>5. st # "active"
    OBVIOUS
  <2>. HIDE DEF j, k, st
  <2>6. export[e] # "none" /\ e \notin asking
    BY <1>0, <2>1 DEF ExportIsSound
  <2>7. exportStalls' \in 0 .. MaxExportStalls
    BY <1>0, <1>2, ExportBounds DEF JobOfDeadLapses, JobOfSlowLapses
  <2>8. UNCHANGED <<export, executor, exportFaults, sharedRun>> /\ asking' = asking
    BY <1>2 DEF JobOfDeadLapses, JobOfSlowLapses
  <2>. QED
    BY <2>2, <2>3, <2>4, <2>5, <2>6, <2>7, <2>8, JobStepKeepsExportIInv
<1>. QED  BY <1>1, <1>2

LEMMA AskingFailsKeepsExportIInv ==
    ASSUME ExportIInv, NEW e \in Exports, AskingFails(e) PROVE ExportIInv'
<1>1. /\ asking' = asking \ {e} /\ exportFaults' \in 0 .. MaxExportFaults
      /\ UNCHANGED <<export, exportJob, executor, exportStalls, sharedRun>>
  BY ExportBounds DEF AskingFails, ExportFault, ExportIInv, ExportTypes
<1>2. ExportTypes'
  BY <1>1 DEF ExportIInv, ExportTypes
<1>. QED  BY <1>1, <1>2 DEF ExportIInv, ExportIsSound, ExecutorIsSound,
                            ExecutorsShareOpenly

LEMMA TakeJobKeepsExportIInv ==
    ASSUME ExportIInv, NEW x \in Executors, NEW e \in Exports, TakeJob(x, e)
    PROVE  ExportIInv'
<1> DEFINE j == [exportJob[e] EXCEPT !.state = "active", !.owner = x]
           p == [pc |-> "load", of |-> e]
<1>0. /\ ExportIsSound(e) /\ exportJob[e] \in ExportJobRec
      /\ exportJob \in [Exports -> ExportJobRec] /\ sharedRun \subseteq Exports
      /\ executor \in [Executors -> ExecutorRec]
  BY DEF ExportIInv, ExportTypes
<1>1. /\ j \in ExportJobRec /\ j.state = "active" /\ j.owner = x
      /\ j.tries = exportJob[e].tries /\ j.stalls = exportJob[e].stalls
  BY <1>0 DEF ExportJobRec
<1>2. p \in ExecutorRec /\ p.pc = "load" /\ p.of = e /\ p # Vacant
  BY DEF ExecutorRec, Vacant
<1>3. /\ exportJob' = [exportJob EXCEPT ![e] = j]
      /\ executor' = [executor EXCEPT ![x] = p]
  BY <1>0 DEF TakeJob
<1>. HIDE DEF j, p
<1>4. /\ exportJob[e].state = "waiting"
      /\ sharedRun' = IF \E y \in Executors : executor[y].of = e
                      THEN sharedRun \cup {e} ELSE sharedRun
      /\ UNCHANGED <<export, asking, exportFaults, exportStalls>>
  BY DEF TakeJob
<1>5. /\ export[e] # "none" /\ e \notin asking
      /\ j.tries < ExportTries /\ j.stalls <= 1
  BY <1>0, <1>1, <1>4 DEF ExportIsSound
<1>6. sharedRun \subseteq sharedRun' /\ sharedRun' \subseteq Exports
      /\ (e \in sharedRun' \/ \A y \in Executors : executor[y].of # e)
  BY <1>0, <1>4
<1>. QED  BY <1>1, <1>2, <1>3, <1>4, <1>5, <1>6, HandOverKeepsExportIInv

(* The steps on the row of the export that an executor runs                *)
LEMMA RunsKeepExportIInv ==
    ASSUME ExportIInv, NEW x \in Executors,
           Load(x) \/ MarkRunning(x) \/ Gather(x) \/ CompleteExport(x)
                   \/ MarkFailed(x) \/ ExportErrs(x) \/ ExecutorDies(x)
    PROVE  ExportIInv'
<1> DEFINE e == executor[x].of
           At(pc) == [executor[x] EXCEPT !.pc = pc]
           Pcs == {"mark", "gather", "complete", "fail", "return", "throw"}
<1>0. /\ executor \in [Executors -> ExecutorRec] /\ executor[x] \in ExecutorRec
      /\ export \in [Exports -> {"none", "PENDING", "RUNNING", "COMPLETED", "FAILED"}]
      /\ ExecutorIsSound(x) /\ exportFaults \in 0 .. MaxExportFaults
  BY DEF ExportIInv, ExportTypes
<1>1. \A pc \in Pcs : At(pc) \in ExecutorRec /\ At(pc).pc = pc /\ At(pc).of = e
  BY <1>0 DEF ExecutorRec
<1>2. \A pc : Proceeds(x, pc) => executor' = [executor EXCEPT ![x] = At(pc)]
  BY <1>0 DEF Proceeds
<1>3. executor[x].pc # "idle"
  BY DEF Load, MarkRunning, Gather, CompleteExport, MarkFailed, ExportErrs, ExecutorDies
<1>4. e \in Exports /\ export[e] # "none"
  BY <1>0, <1>3 DEF ExecutorIsSound, ExecutorRec
<1>5. UNCHANGED <<asking, exportJob, exportStalls, sharedRun>>
      /\ exportFaults' \in 0 .. MaxExportFaults
  BY <1>0, ExportBounds
     DEF Load, MarkRunning, Gather, CompleteExport, MarkFailed, ExportErrs,
         ExecutorDies, ExportFault
<1>6. ASSUME NEW pc \in Pcs, Proceeds(x, pc), export' = export,
             pc \in {"mark", "gather", "complete", "fail"} =>
                 e \in sharedRun \/ export[e] # "COMPLETED"
      PROVE  ExportIInv'
  <2> DEFINE p == At(pc)
  <2>1. /\ p \in ExecutorRec /\ p.pc = pc /\ p.of = executor[x].of
        /\ executor' = [executor EXCEPT ![x] = p] /\ pc # "idle"
    BY <1>1, <1>2, <1>6
  <2>. HIDE DEF p
  <2>. QED  BY <1>0, <1>3, <1>5, <1>6, <2>1, ExecutorStepKeepsExportIInv
<1>7. ASSUME NEW pc \in Pcs, NEW status \in {"RUNNING", "COMPLETED", "FAILED"},
             Proceeds(x, pc), Sets(x, status),
             pc \in {"mark", "gather", "complete", "fail"} => status # "COMPLETED"
      PROVE  ExportIInv'
  <2> DEFINE p == At(pc)
  <2>1. /\ p \in ExecutorRec /\ p.pc = pc /\ p.of = executor[x].of
        /\ executor' = [executor EXCEPT ![x] = p] /\ pc # "idle"
    BY <1>1, <1>2, <1>7
  <2>. HIDE DEF p
  <2>2. /\ export' \in [Exports -> {"none", "PENDING", "RUNNING", "COMPLETED", "FAILED"}]
        /\ export'[e] = status
        /\ \A f \in Exports : export'[f] # export[f] => f = e /\ export'[f] # "none"
    BY <1>0, <1>4, <1>7 DEF Sets
  <2>. QED  BY <1>3, <1>4, <1>5, <1>7, <2>1, <2>2, ExecutorStepKeepsExportIInv
<1>. HIDE DEF At
<1>8. CASE Load(x)
  <2>1. CASE export[e] = "COMPLETED"
    BY <1>6, <1>8, <2>1 DEF Load
  <2>2. CASE export[e] # "COMPLETED"
    BY <1>6, <1>8, <2>2 DEF Load
  <2>. QED  BY <2>1, <2>2
<1>9. CASE MarkRunning(x)
  BY <1>7, <1>9 DEF MarkRunning
<1>10. CASE Gather(x)
  BY <1>0, <1>6, <1>10 DEF Gather, ExecutorIsSound
<1>11. CASE CompleteExport(x)
  BY <1>7, <1>11 DEF CompleteExport
<1>12. CASE MarkFailed(x)
  BY <1>7, <1>12 DEF MarkFailed
<1>13. CASE ExportErrs(x)
  <2>1. CASE executor[x].pc = "complete"
    BY <1>0, <1>6, <1>13, <2>1 DEF ExportErrs, ExecutorIsSound
  <2>2. CASE executor[x].pc # "complete"
    BY <1>6, <1>13, <2>2 DEF ExportErrs
  <2>. QED  BY <2>1, <2>2
<1>14. CASE ExecutorDies(x)
  <2>1. Vacant \in ExecutorRec /\ Vacant.pc = "idle"
    BY DEF Vacant, ExecutorRec
  <2>. QED  BY <1>0, <1>5, <1>14, <2>1, ExecutorStepKeepsExportIInv
            DEF ExecutorDies
<1>. QED  BY <1>8, <1>9, <1>10, <1>11, <1>12, <1>13, <1>14

LEMMA JobEndsKeepsExportIInv ==
    ASSUME ExportIInv, NEW x \in Executors, JobEnds(x) PROVE ExportIInv'
<1> DEFINE e == executor[x].of
           st == IF executor[x].pc = "return" THEN "done"
                 ELSE IF exportJob[e].tries + 1 < ExportTries
                      THEN "waiting" ELSE "failed"
           k == exportJob[e].tries + 1
           j == [exportJob[e] EXCEPT !.owner = NoExecutor, !.tries = k, !.state = st]
<1>0. /\ executor \in [Executors -> ExecutorRec] /\ executor[x] \in ExecutorRec
      /\ exportJob \in [Exports -> ExportJobRec] /\ ExecutorIsSound(x)
      /\ export \in [Exports -> {"none", "PENDING", "RUNNING", "COMPLETED", "FAILED"}]
      /\ exportFaults \in 0 .. MaxExportFaults /\ sharedRun \subseteq Exports
  BY DEF ExportIInv, ExportTypes
<1>1. /\ executor[x].pc \in {"return", "throw"}
      /\ executor' = [executor EXCEPT ![x] = Vacant]
      /\ UNCHANGED <<export, asking, exportStalls, sharedRun, exportFaults>>
  BY DEF JobEnds
<1>2. e \in Exports /\ export[e] # "none" /\ exportJob[e] \in ExportJobRec
      /\ ExportIsSound(e)
  BY <1>0, <1>1 DEF ExecutorIsSound, ExecutorRec, ExportIInv
<1>3. Vacant \in ExecutorRec /\ Vacant.pc = "idle"
  BY DEF Vacant, ExecutorRec
<1>4. CASE exportJob[e].state # "active" \/ exportJob[e].owner # x
  <2>1. exportJob' = exportJob
    BY <1>4 DEF JobEnds
  <2>. QED  BY <1>0, <1>1, <1>3, <2>1, ExecutorStepKeepsExportIInv
<1>5. CASE ~(exportJob[e].state # "active" \/ exportJob[e].owner # x)
  <2>1. /\ k \in 0 .. ExportTries /\ exportJob[e].stalls <= 1 /\ e \notin asking
        /\ st \in {"done", "waiting", "failed"} /\ (st = "waiting" => k < ExportTries)
    BY <1>2, <1>5, ExportBounds DEF ExportIsSound, ExportJobRec
  <2>2. exportJob' = [exportJob EXCEPT ![e] = j]
    BY <1>0, <1>2, <1>5 DEF JobEnds
  <2>3. /\ j \in ExportJobRec /\ j.state = st /\ j.tries = k
        /\ j.stalls = exportJob[e].stalls
    BY <1>2, <2>1 DEF ExportJobRec
  <2>. HIDE DEF j, k, st, e
  <2>. QED
    BY <1>0, <1>1, <1>2, <1>3, <2>1, <2>2, <2>3, HandOverKeepsExportIInv
<1>. QED  BY <1>4, <1>5

LEMMA ExportStepKeepsIInv == ExportIInv /\ [ExportNext]_exportVars => ExportIInv'
<1>. SUFFICES ASSUME ExportIInv, [ExportNext]_exportVars PROVE ExportIInv'
  OBVIOUS
<1>1. CASE UNCHANGED exportVars
  BY <1>1 DEF exportVars, ExportIInv, ExportTypes, ExportIsSound, ExecutorIsSound,
              ExecutorsShareOpenly
<1>2. ASSUME NEW e \in Exports,
             AskExport(e) \/ EnqueueAsked(e) \/ AskingFails(e)
                \/ JobOfDeadLapses(e) \/ JobOfSlowLapses(e)
      PROVE  ExportIInv'
  BY <1>2, AskExportKeepsIInv, JobsKeepExportIInv, AskingFailsKeepsExportIInv
<1>3. ASSUME NEW x \in Executors, ExecutorStep(x) \/ ExportErrs(x) \/ ExecutorDies(x)
      PROVE  ExportIInv'
  BY <1>3, TakeJobKeepsExportIInv, RunsKeepExportIInv, JobEndsKeepsExportIInv
     DEF ExecutorStep
<1>. QED  BY <1>1, <1>2, <1>3 DEF ExportNext

(***************************************************************************)
(* Both of them in MCWorkers, each in its part of the behaviours           *)
(***************************************************************************)

LEMMA ScheduledWorkIsKept ==
    ReportIInv /\ ExportIInv /\ [WorkersNext]_workVars => ReportIInv' /\ ExportIInv'
<1>. SUFFICES ASSUME ReportIInv, ExportIInv, [WorkersNext]_workVars
              PROVE  ReportIInv' /\ ExportIInv'
  OBVIOUS
<1>1. [ReportNext]_reportVars /\ [ExportNext]_exportVars
  BY DEF WorkersNext, OthersRest, workVars
<1>. QED  BY <1>1, ReportStepKeepsIInv, ExportStepKeepsIInv

(* The scheduled-report worker and the export queue: a slot gives a second *)
(* export only when two sweeps raced for its schedule, whatever fails or   *)
(* dies, and rows and jobs are always ones the code can make.              *)
THEOREM ScheduledExportsAreAlwaysSound == WorkersSpec => []ScheduledExportsAreSound
<1>1. WorkersInit => ReportIInv /\ ExportIInv
  BY ReportInitIInv, ExportInitIInv DEF WorkersInit
<1>2. ReportIInv /\ ExportIInv => ScheduledExportsAreSound
  BY ReportIInvIsEnough, ExportIInvIsEnough DEF ScheduledExportsAreSound
<1>. QED  BY <1>1, <1>2, ScheduledWorkIsKept, PTL DEF WorkersSpec

(* ExportService.runExport: a completed export loses its file only when    *)
(* two executors ran it at once; a retry after the completion returns.     *)
THEOREM CompletionsAreOnlyUndoneInRaces ==
    WorkersSpec => CompletionUndoneOnlyInRaces
<1>1. WorkersInit => ReportIInv /\ ExportIInv
  BY ReportInitIInv, ExportInitIInv DEF WorkersInit
<1>2. ExportIInv /\ [WorkersNext]_workVars =>
         [\A e \in Exports :
             export[e] = "COMPLETED" /\ export'[e] # "COMPLETED"
                 => e \in sharedRun]_exportVars
  <2>. SUFFICES ASSUME ExportIInv, [WorkersNext]_workVars, NEW e \in Exports,
                       export[e] = "COMPLETED", export'[e] # "COMPLETED"
                PROVE  e \in sharedRun
    OBVIOUS
  <2>1. /\ [ExportNext]_exportVars
        /\ export \in [Exports -> {"none", "PENDING", "RUNNING", "COMPLETED",
                                   "FAILED"}]
        /\ \A x \in Executors : ExecutorIsSound(x)
    BY DEF WorkersNext, OthersRest, workVars, ExportIInv, ExportTypes
  <2>2. ASSUME NEW x \in Executors, MarkRunning(x) \/ MarkFailed(x)
        PROVE  e \in sharedRun
    <3>1. executor[x].of = e /\ executor[x].pc \in {"mark", "fail"}
      BY <2>1, <2>2 DEF MarkRunning, MarkFailed, Sets
    <3>. QED  BY <2>1, <3>1 DEF ExecutorIsSound
  <2>3. ASSUME NEW x \in Executors, CompleteExport(x) PROVE FALSE
    BY <2>1, <2>3 DEF CompleteExport, Sets
  <2>4. ASSUME NEW f \in Exports, AskExport(f) PROVE FALSE
    BY <2>1, <2>4 DEF AskExport
  <2>. QED  BY <2>1, <2>2, <2>3, <2>4
           DEF ExportNext, ExecutorStep, EnqueueAsked, AskingFails, TakeJob, Load,
               Gather, JobEnds, ExportErrs, ExecutorDies, JobOfDeadLapses,
               JobOfSlowLapses, exportVars
<1>. QED  BY <1>1, <1>2, ScheduledWorkIsKept, PTL
         DEF WorkersSpec, CompletionUndoneOnlyInRaces

(***************************************************************************)
(* Alerts                                                                  *)
(***************************************************************************)

ReplicaRec ==
    [pc : Evaluating \cup {"idle", "cadence", "lock", "dispatch"},
     lag : 0 .. MaxLag, hit : BOOLEAN, open : AlertSlots \cup {NoAlert}]

Hits == {r \in Replicas : replica[r].hit}

(* What a replica holds of a rule in the middle of a cycle                 *)
ReplicaIsSound(r) ==
    /\ replica[r].hit => replica[r].pc \in {"look", "apply"}
    /\ replica[r].open # NoAlert => alertState[replica[r].open] # "none"
    /\ replica[r].pc = "dispatch" => replica[r].open # NoAlert

OverlapsAreSeen ==
    ~overlapped => \A r, q \in Replicas :
        replica[r].pc \in Evaluating /\ replica[q].pc \in Evaluating => r = q

(* Without overlaps one alert fires at most, and who found none is right.  *)
OneAlertFires ==
    \/ overlapped \/ reopenings > 0
    \/ /\ \A a, b \in Firing : a = b
       /\ \A r \in Replicas :
             replica[r].pc = "apply" /\ replica[r].open = NoAlert => Firing = {}

AlertIInv ==
    /\ AlertTypeOK
    /\ \A r \in Replicas : ReplicaIsSound(r)
    /\ Cardinality(Hits) <= Cardinality(Unused)
    /\ OverlapsAreSeen
    /\ OneAlertFires
    /\ SilentAlertsNeedFaults

LEMMA AlertBounds ==
    /\ IsFiniteSet(Replicas) /\ IsFiniteSet(AlertSlots)
    /\ AlertSlots \subseteq Nat /\ NoAlert \notin AlertSlots
    /\ RuleWindow \in Nat \ {0} /\ LockTTL \in Nat \ {0}
    /\ MaxLag \in Nat /\ MaxLag <= LastExpired /\ LastExpired \in Nat
    /\ MaxAlertFaults \in Nat /\ MaxReopenings \in Nat
BY AlertOptions DEF NoAlert, LastExpired

LEMMA AlertTypes ==
    AlertTypeOK <=>
        /\ metricHot \in BOOLEAN /\ sinceLast \in 0 .. LastExpired
        /\ lockLeft \in 0 .. LockTTL
        /\ alertState \in [AlertSlots -> Active \cup {"none", "RESOLVED"}]
        /\ announced \subseteq AlertSlots
        /\ replica \in [Replicas -> ReplicaRec]
        /\ alertFaults \in 0 .. MaxAlertFaults
        /\ reopenings \in 0 .. MaxReopenings /\ overlapped \in BOOLEAN
BY DEF AlertTypeOK, ReplicaRec

LEMMA RestIsSound ==
    /\ AtRest \in ReplicaRec /\ AtRest.pc = "idle" /\ ~AtRest.hit
    /\ AtRest.open = NoAlert /\ AtRest.lag = 0
BY AlertBounds DEF AtRest, ReplicaRec, Evaluating

LEMMA AlertInitIInv == AlertInit => AlertIInv
<1>. SUFFICES ASSUME AlertInit PROVE AlertIInv
  OBVIOUS
<1>1. AlertTypeOK
  <2>1. /\ alertState \in [AlertSlots -> Active \cup {"none", "RESOLVED"}]
        /\ replica \in [Replicas -> ReplicaRec]
    BY RestIsSound DEF AlertInit
  <2>2. /\ sinceLast \in 0 .. LastExpired /\ lockLeft \in 0 .. LockTTL
        /\ alertFaults \in 0 .. MaxAlertFaults
        /\ reopenings \in 0 .. MaxReopenings
    BY AlertBounds DEF AlertInit
  <2>. QED  BY <2>1, <2>2, AlertTypes DEF AlertInit
<1>2. \A r \in Replicas : replica[r] = AtRest
  BY DEF AlertInit
<1>3. \A r \in Replicas : ReplicaIsSound(r)
  BY <1>2, RestIsSound DEF ReplicaIsSound
<1>4. Hits = {} /\ Firing = {}
  BY <1>2, RestIsSound DEF Hits, Firing, Active, AlertInit
<1>5. Cardinality(Hits) <= Cardinality(Unused)
  <2>1. Unused \subseteq AlertSlots
    BY DEF Unused
  <2>2. Cardinality(Unused) \in Nat
    BY <2>1, AlertBounds, FS_Subset, FS_CardinalityType
  <2>. QED  BY <1>4, <2>2, FS_EmptySet
<1>6. OverlapsAreSeen
  BY <1>2, RestIsSound DEF OverlapsAreSeen, Evaluating
<1>7. OneAlertFires /\ SilentAlertsNeedFaults
  BY <1>4 DEF OneAlertFires, SilentAlertsNeedFaults, AlertInit
<1>. QED  BY <1>1, <1>3, <1>5, <1>6, <1>7 DEF AlertIInv

LEMMA AlertIInvIsEnough == AlertIInv => AlertsAreAccountedFor
<1>. SUFFICES ASSUME AlertIInv, Cardinality(Firing) > 1
              PROVE  overlapped \/ reopenings > 0
  BY DEF AlertIInv, AlertsAreAccountedFor, DoubleFiresNeedOverlap
<1>. SUFFICES ASSUME \A a, b \in Firing : a = b PROVE FALSE
  BY DEF AlertIInv, OneAlertFires
<1>1. CASE Firing = {}
  BY <1>1, FS_EmptySet
<1>2. CASE Firing # {}
  <2>1. PICK a \in Firing : TRUE
    BY <1>2
  <2>2. Firing = {a}
    BY <2>1
  <2>3. Cardinality(Firing) = 1
    BY <2>2, FS_Singleton
  <2>. QED  BY <2>3
<1>. QED  BY <1>1, <1>2

(* One replica goes on with its cycle, the alerts staying as they are.     *)
LEMMA CycleStepKeepsAlertIInv ==
    ASSUME AlertIInv, NEW r \in Replicas, NEW x \in ReplicaRec,
           replica' = [replica EXCEPT ![r] = x],
           UNCHANGED <<metricHot, alertState, reopenings>>,
           sinceLast' \in 0 .. LastExpired, lockLeft' \in 0 .. LockTTL,
           alertFaults' \in 0 .. MaxAlertFaults,
           announced \subseteq announced', announced' \subseteq AlertSlots,
           x.hit => x.pc \in {"look", "apply"},
           x.hit => replica[r].hit \/ Cardinality(Hits) < Cardinality(Unused),
           x.open # NoAlert => alertState[x.open] # "none",
           x.pc # "dispatch",
           overlapped' \in BOOLEAN, overlapped => overlapped',
           x.pc \in Evaluating /\ ~overlapped' =>
               \A q \in Replicas \ {r} : replica[q].pc \notin Evaluating,
           x.pc = "apply" /\ x.open = NoAlert => Firing = {},
           alertFaults' = 0 =>
               /\ alertFaults = 0
               /\ replica[r].pc = "dispatch" => replica[r].open \in announced'
    PROVE  AlertIInv'
<1>1. /\ replica' \in [Replicas -> ReplicaRec] /\ replica'[r] = x
      /\ \A q \in Replicas \ {r} : replica'[q] = replica[q]
  BY AlertTypes DEF AlertIInv
<1>2. AlertTypeOK'
  <2>1. /\ metricHot' \in BOOLEAN /\ reopenings' \in 0 .. MaxReopenings
        /\ alertState' \in [AlertSlots -> Active \cup {"none", "RESOLVED"}]
    BY DEF AlertIInv, AlertTypeOK
  <2>. QED  BY <1>1, <2>1 DEF AlertTypeOK, ReplicaRec
<1>3. ASSUME NEW q \in Replicas PROVE ReplicaIsSound(q)'
  BY <1>1 DEF AlertIInv, ReplicaIsSound
<1>4. Unused' = Unused /\ Firing' = Firing
  BY DEF Unused, Firing
<1>5. Cardinality(Hits)' <= Cardinality(Unused)'
  <2>1. Hits \subseteq Replicas /\ Unused \subseteq AlertSlots
    BY DEF Hits, Unused
  <2>2. /\ IsFiniteSet(Hits) /\ Cardinality(Hits) \in Nat
        /\ Cardinality(Unused) \in Nat
    BY <2>1, AlertBounds, FS_Subset, FS_CardinalityType
  <2>3. Hits' = IF x.hit THEN Hits \cup {r} ELSE Hits \ {r}
    BY <1>1 DEF Hits
  <2>4. Cardinality(Hits) <= Cardinality(Unused)
    BY DEF AlertIInv
  <2>5. CASE x.hit /\ r \notin Hits
    <3>1. Cardinality(Hits \cup {r}) = Cardinality(Hits) + 1
      BY <2>2, <2>5, FS_AddElement
    <3>2. Cardinality(Hits) < Cardinality(Unused)
      BY <2>5 DEF Hits
    <3>3. Hits' = Hits \cup {r}
      BY <2>3, <2>5
    <3>. QED  BY <1>4, <2>2, <3>1, <3>2, <3>3
  <2>6. CASE x.hit /\ r \in Hits
    <3>1. Hits' = Hits
      BY <2>3, <2>6
    <3>. QED  BY <1>4, <2>4, <3>1
  <2>7. CASE ~x.hit
    <3>1. /\ Cardinality(Hits \ {r}) \in Nat
          /\ Cardinality(Hits \ {r}) <= Cardinality(Hits)
      BY <2>1, <2>2, FS_Subset, FS_CardinalityType
    <3>2. Hits' = Hits \ {r}
      BY <2>3, <2>7
    <3>. QED  BY <1>4, <2>2, <2>4, <3>1, <3>2
  <2>. QED  BY <2>5, <2>6, <2>7
<1>6. OverlapsAreSeen'
  BY <1>1 DEF AlertIInv, OverlapsAreSeen
<1>7. OneAlertFires'
  BY <1>1, <1>4 DEF AlertIInv, OneAlertFires
<1>8. SilentAlertsNeedFaults'
  BY <1>1 DEF AlertIInv, SilentAlertsNeedFaults
<1>. QED  BY <1>2, <1>3, <1>5, <1>6, <1>7, <1>8 DEF AlertIInv

(* The steps of a cycle that change no alert                               *)
LEMMA CyclesKeepAlertIInv ==
    ASSUME AlertIInv, NEW r \in Replicas,
           \/ StartCycle(r) \/ CheckCadence(r) \/ TakeLock(r) \/ MarkEvaluated(r)
           \/ Evaluate(r) \/ Look(r) \/ NothingToDo(r) \/ Dispatch(r)
           \/ CycleFails(r)
    PROVE  AlertIInv'
<1> DEFINE To(pc) == [replica[r] EXCEPT !.pc = pc]
<1>0. /\ replica \in [Replicas -> ReplicaRec] /\ replica[r] \in ReplicaRec
      /\ ReplicaIsSound(r) /\ announced \subseteq AlertSlots
      /\ sinceLast \in 0 .. LastExpired /\ lockLeft \in 0 .. LockTTL
      /\ alertFaults \in 0 .. MaxAlertFaults /\ overlapped \in BOOLEAN
      /\ metricHot \in BOOLEAN
      /\ OverlapsAreSeen
  BY AlertTypes DEF AlertIInv
<1>1. \A pc \in Evaluating \cup {"idle", "cadence", "lock", "dispatch"} :
         /\ To(pc) \in ReplicaRec /\ To(pc).pc = pc
         /\ To(pc).hit = replica[r].hit /\ To(pc).open = replica[r].open
  BY <1>0 DEF ReplicaRec
<1>2. \A pc : Goes(r, pc) => replica' = [replica EXCEPT ![r] = To(pc)]
  BY <1>0 DEF Goes
<1>3. UNCHANGED <<alertState, reopenings>>
  BY DEF StartCycle, CheckCadence, TakeLock, MarkEvaluated, Evaluate, Look,
         NothingToDo, Dispatch, CycleFails
(* The replica goes on before it has looked, without a hit.                *)
<1>4. ASSUME NEW pc \in {"cadence", "lock", "mark", "evaluate"}, Goes(r, pc),
             ~replica[r].hit, replica[r].pc # "dispatch",
             sinceLast' \in 0 .. LastExpired, lockLeft' \in 0 .. LockTTL,
             overlapped' \in BOOLEAN, overlapped => overlapped',
             pc \in Evaluating /\ ~overlapped' =>
                 \A q \in Replicas \ {r} : replica[q].pc \notin Evaluating,
             UNCHANGED <<metricHot, announced, alertFaults>>
      PROVE  AlertIInv'
  <2> DEFINE x == To(pc)
  <2>1. /\ x \in ReplicaRec /\ x.pc = pc /\ ~x.hit /\ x.open = replica[r].open
        /\ replica' = [replica EXCEPT ![r] = x]
    BY <1>1, <1>2, <1>4 DEF Evaluating
  <2>2. x.open # NoAlert => alertState[x.open] # "none"
    BY <1>0, <2>1 DEF ReplicaIsSound
  <2>. HIDE DEF x
  <2>. QED  BY <1>0, <1>3, <1>4, <2>1, <2>2, CycleStepKeepsAlertIInv
(* The cycle ends.                                                         *)
<1>5. ASSUME Ends(r), UNCHANGED <<metricHot, sinceLast, lockLeft, overlapped>>,
             alertFaults' \in 0 .. MaxAlertFaults,
             announced \subseteq announced', announced' \subseteq AlertSlots,
             alertFaults' = 0 =>
                 /\ alertFaults = 0
                 /\ replica[r].pc = "dispatch" => replica[r].open \in announced'
      PROVE  AlertIInv'
  <2>1. replica' = [replica EXCEPT ![r] = AtRest]
    BY <1>5 DEF Ends
  <2>2. AtRest.pc \notin Evaluating /\ AtRest.pc # "dispatch" /\ AtRest.pc # "apply"
    BY RestIsSound DEF Evaluating
  <2>. QED  BY <1>0, <1>3, <1>5, <2>1, <2>2, RestIsSound, CycleStepKeepsAlertIInv
<1>. HIDE DEF To
<1>6. CASE StartCycle(r)
  BY <1>0, <1>4, <1>6 DEF StartCycle, ReplicaIsSound, Evaluating
<1>7. CASE CheckCadence(r)
  <2>1. replica[r].pc = "cadence" /\ ~replica[r].hit
        /\ UNCHANGED <<metricHot, sinceLast, lockLeft, announced, alertFaults,
                       overlapped>>
    BY <1>0, <1>7 DEF CheckCadence, ReplicaIsSound
  <2>2. CASE Due(r)
    BY <1>0, <1>4, <1>7, <2>1, <2>2 DEF CheckCadence, Evaluating
  <2>3. CASE ~Due(r)
    BY <1>0, <1>5, <1>7, <2>1, <2>3 DEF CheckCadence
  <2>. QED  BY <2>2, <2>3
<1>8. CASE TakeLock(r)
  <2>1. replica[r].pc = "lock" /\ ~replica[r].hit
        /\ UNCHANGED <<metricHot, sinceLast, announced, alertFaults>>
    BY <1>0, <1>8 DEF TakeLock, ReplicaIsSound
  <2>2. CASE lockLeft > 0
    BY <1>0, <1>5, <1>8, <2>1, <2>2 DEF TakeLock
  <2>3. CASE ~(lockLeft > 0)
    <3>1. /\ Goes(r, "mark") /\ lockLeft' = LockTTL
          /\ overlapped' = (overlapped \/ \E q \in Replicas \ {r} :
                                              replica[q].pc \in Evaluating)
      BY <1>8, <2>3 DEF TakeLock
    <3>2. lockLeft' \in 0 .. LockTTL /\ overlapped' \in BOOLEAN
      BY <1>0, <3>1, AlertBounds
    <3>. QED  BY <1>0, <1>4, <2>1, <3>1, <3>2
  <2>. QED  BY <2>2, <2>3
<1>9. CASE MarkEvaluated(r)
  <2>1. /\ replica[r].pc = "mark" /\ ~replica[r].hit /\ Goes(r, "evaluate")
        /\ sinceLast' = replica[r].lag /\ lockLeft' = 0
        /\ UNCHANGED <<metricHot, announced, alertFaults, overlapped>>
    BY <1>0, <1>9 DEF MarkEvaluated, ReplicaIsSound
  <2>2. sinceLast' \in 0 .. LastExpired /\ lockLeft' \in 0 .. LockTTL
    BY <1>0, <2>1, AlertBounds DEF ReplicaRec
  <2>3. ~overlapped => \A q \in Replicas \ {r} : replica[q].pc \notin Evaluating
    BY <1>0, <2>1 DEF OverlapsAreSeen, Evaluating
  <2>. QED  BY <1>0, <1>4, <2>1, <2>2, <2>3
<1>10. CASE Evaluate(r)
  <2> DEFINE x == [replica[r] EXCEPT !.pc = "look", !.hit = metricHot]
  <2>1. /\ x \in ReplicaRec /\ x.pc = "look" /\ x.hit = metricHot
        /\ x.open = replica[r].open
    BY <1>0 DEF ReplicaRec, Evaluating
  <2>2. replica' = [replica EXCEPT ![r] = x]
    BY <1>0, <1>10 DEF Evaluate
  <2>. HIDE DEF x
  <2>3. /\ replica[r].pc = "evaluate"
        /\ metricHot => Cardinality(Hits) < Cardinality(Unused)
        /\ UNCHANGED <<metricHot, sinceLast, lockLeft, announced, alertFaults,
                       overlapped>>
    BY <1>10 DEF Evaluate, Hits
  <2>4. ~overlapped => \A q \in Replicas \ {r} : replica[q].pc \notin Evaluating
    BY <1>0, <2>3 DEF OverlapsAreSeen, Evaluating
  <2>5. x.open # NoAlert => alertState[x.open] # "none"
    BY <1>0, <2>1 DEF ReplicaIsSound
  <2>. QED  BY <1>0, <1>3, <2>1, <2>2, <2>3, <2>4, <2>5, CycleStepKeepsAlertIInv
<1>11. CASE Look(r)
  <2> DEFINE a == IF Firing = {} THEN NoAlert ELSE Max(Firing)
             x == [replica[r] EXCEPT !.pc = "apply", !.open = a]
  <2>1. a \in AlertSlots \cup {NoAlert}
        /\ (a # NoAlert => alertState[a] # "none") /\ (a = NoAlert => Firing = {})
    <3>1. Firing \subseteq AlertSlots /\ Firing \in SUBSET Nat /\ IsFiniteSet(Firing)
      BY AlertBounds, FS_Subset DEF Firing
    <3>2. Firing # {} => Max(Firing) \in Firing
      BY <3>1, MaxIsOneOf
    <3>. QED  BY <3>1, <3>2, AlertBounds DEF Firing, Active
  <2>2. /\ x \in ReplicaRec /\ x.pc = "apply" /\ x.hit = replica[r].hit
        /\ x.open = a
    BY <1>0, <2>1 DEF ReplicaRec, Evaluating
  <2>3. replica' = [replica EXCEPT ![r] = x]
    BY <1>0, <1>11 DEF Look
  <2>. HIDE DEF x, a
  <2>4. /\ replica[r].pc = "look"
        /\ UNCHANGED <<metricHot, sinceLast, lockLeft, announced, alertFaults,
                       overlapped>>
    BY <1>11 DEF Look
  <2>5. ~overlapped => \A q \in Replicas \ {r} : replica[q].pc \notin Evaluating
    BY <1>0, <2>4 DEF OverlapsAreSeen, Evaluating
  <2>. QED  BY <1>0, <1>3, <2>1, <2>2, <2>3, <2>4, <2>5, CycleStepKeepsAlertIInv
<1>12. CASE NothingToDo(r)
  BY <1>0, <1>5, <1>12 DEF NothingToDo
<1>13. CASE Dispatch(r)
  <2>1. replica[r].open \in AlertSlots /\ announced' = announced \cup {replica[r].open}
    BY <1>0, <1>13 DEF Dispatch, ReplicaIsSound, ReplicaRec
  <2>. QED  BY <1>0, <1>5, <1>13, <2>1 DEF Dispatch
<1>14. CASE CycleFails(r)
  <2>1. alertFaults' \in 0 .. MaxAlertFaults /\ alertFaults' # 0
    BY <1>0, <1>14, AlertBounds DEF CycleFails
  <2>. QED  BY <1>0, <1>5, <1>14, <2>1 DEF CycleFails
<1>. QED  BY <1>6, <1>7, <1>8, <1>9, <1>10, <1>11, <1>12, <1>13, <1>14

(* An alert is created in the first row left, which there is for every hit.*)
LEMMA FireKeepsAlertIInv ==
    ASSUME AlertIInv, NEW r \in Replicas, Fire(r)
    PROVE  AlertIInv'
<1> DEFINE a == Min(Unused)
           x == [replica[r] EXCEPT !.pc = "dispatch", !.hit = FALSE, !.open = a]
<1>0. /\ replica \in [Replicas -> ReplicaRec] /\ replica[r] \in ReplicaRec
      /\ alertState \in [AlertSlots -> Active \cup {"none", "RESOLVED"}]
      /\ OverlapsAreSeen /\ Cardinality(Hits) <= Cardinality(Unused)
  BY AlertTypes DEF AlertIInv
<1>1. /\ replica[r].pc = "apply" /\ replica[r].hit /\ replica[r].open = NoAlert
      /\ UNCHANGED <<metricHot, sinceLast, lockLeft, announced, alertFaults,
                     reopenings, overlapped>>
  BY DEF Fire
<1>2. /\ Hits \subseteq Replicas /\ IsFiniteSet(Hits) /\ Cardinality(Hits) \in Nat
      /\ Unused \subseteq AlertSlots /\ IsFiniteSet(Unused)
      /\ Cardinality(Unused) \in Nat /\ r \in Hits
  <2>1. Hits \subseteq Replicas /\ Unused \subseteq AlertSlots /\ r \in Hits
    BY <1>1 DEF Hits, Unused
  <2>. QED  BY <2>1, AlertBounds, FS_Subset, FS_CardinalityType
<1>3. Cardinality(Hits \ {r}) = Cardinality(Hits) - 1
      /\ Cardinality(Hits \ {r}) \in Nat
  BY <1>2, FS_RemoveElement, FS_CardinalityType
<1>4. Unused # {}
  <2>1. Cardinality({}) = 0
    BY FS_EmptySet
  <2>. QED  BY <1>0, <1>2, <1>3, <2>1
<1>5. a \in Unused /\ a \in AlertSlots /\ a # NoAlert /\ alertState[a] = "none"
  <2>1. Unused \in SUBSET Nat
    BY <1>2, AlertBounds
  <2>2. a \in Unused
    BY <1>4, <2>1, MinIsOneOf
  <2>. QED  BY <1>2, <2>2, AlertBounds DEF Unused
<1>6. /\ x \in ReplicaRec /\ x.pc = "dispatch" /\ ~x.hit /\ x.open = a
  BY <1>0, <1>5 DEF ReplicaRec
<1>7. replica' = [replica EXCEPT ![r] = x]
      /\ alertState' = [alertState EXCEPT ![a] = "OPEN"]
  BY <1>0 DEF Fire
<1>. HIDE DEF a, x
<1>8. /\ replica' \in [Replicas -> ReplicaRec] /\ replica'[r] = x
      /\ \A q \in Replicas \ {r} : replica'[q] = replica[q]
      /\ alertState' \in [AlertSlots -> Active \cup {"none", "RESOLVED"}]
      /\ alertState'[a] = "OPEN"
      /\ \A b \in AlertSlots \ {a} : alertState'[b] = alertState[b]
  BY <1>0, <1>5, <1>6, <1>7 DEF Active
<1>9. AlertTypeOK'
  BY <1>1, <1>8 DEF AlertIInv, AlertTypeOK, ReplicaRec
<1>10. ASSUME NEW q \in Replicas PROVE ReplicaIsSound(q)'
  <2>1. CASE q = r
    BY <1>5, <1>6, <1>8, <2>1 DEF ReplicaIsSound
  <2>2. CASE q # r
    <3>1. ReplicaIsSound(q) /\ replica'[q] = replica[q] /\ replica[q] \in ReplicaRec
      BY <1>0, <1>8, <2>2 DEF AlertIInv
    <3>. QED  BY <1>5, <1>8, <3>1 DEF ReplicaIsSound, ReplicaRec
  <2>. QED  BY <2>1, <2>2
<1>11. Cardinality(Hits)' <= Cardinality(Unused)'
  <2>1. Hits' = Hits \ {r}
    BY <1>6, <1>8 DEF Hits
  <2>2. Unused' = Unused \ {a}
    BY <1>5, <1>8 DEF Unused
  <2>3. Cardinality(Unused \ {a}) = Cardinality(Unused) - 1
    BY <1>2, <1>5, FS_RemoveElement
  <2>. QED  BY <1>0, <1>2, <1>3, <2>1, <2>2, <2>3
<1>12. OverlapsAreSeen'
  <2>1. x.pc \notin Evaluating
    BY <1>6 DEF Evaluating
  <2>. QED  BY <1>0, <1>1, <1>8, <2>1 DEF OverlapsAreSeen
<1>13. OneAlertFires'
  <2>. SUFFICES ASSUME ~overlapped, ~(reopenings > 0) PROVE OneAlertFires'
    BY <1>1 DEF OneAlertFires
  <2>1. Firing = {}
    BY <1>1 DEF AlertIInv, OneAlertFires
  <2>2. Firing' = {a}
    BY <1>5, <1>8, <2>1 DEF Firing, Active
  <2>3. \A q \in Replicas : replica'[q].pc # "apply"
    BY <1>0, <1>1, <1>6, <1>8 DEF OverlapsAreSeen, Evaluating
  <2>. QED  BY <2>2, <2>3 DEF OneAlertFires
<1>14. SilentAlertsNeedFaults'
  <2>. SUFFICES ASSUME alertFaults = 0, NEW b \in AlertSlots,
                       alertState'[b] # "none", b \notin announced
                PROVE  \E q \in Replicas : replica'[q].pc = "dispatch"
                                           /\ replica'[q].open = b
    BY <1>1 DEF SilentAlertsNeedFaults
  <2>1. CASE b = a
    BY <1>6, <1>8, <2>1
  <2>2. CASE b # a
    <3>1. PICK q \in Replicas : replica[q].pc = "dispatch" /\ replica[q].open = b
      BY <1>8, <2>2 DEF AlertIInv, SilentAlertsNeedFaults
    <3>. QED  BY <1>1, <1>8, <3>1
  <2>. QED  BY <2>1, <2>2
<1>. QED  BY <1>9, <1>10, <1>11, <1>12, <1>13, <1>14 DEF AlertIInv

(* An alert there is gets another state, by a replica that lets go of the  *)
(* rule or by an operator.                                                 *)
LEMMA AlertChangeKeepsIInv ==
    ASSUME AlertIInv, NEW a \in AlertSlots, NEW s \in Active \cup {"RESOLVED"},
           alertState[a] # "none", alertState' = [alertState EXCEPT ![a] = s],
           reopenings' \in 0 .. MaxReopenings, reopenings <= reopenings',
           alertState[a] = "RESOLVED" /\ s # "RESOLVED" => reopenings' > 0,
           UNCHANGED <<metricHot, sinceLast, lockLeft, announced, alertFaults,
                       overlapped>>,
           \/ replica' = replica
           \/ \E r \in Replicas : /\ replica' = [replica EXCEPT ![r] = AtRest]
                                  /\ replica[r].pc = "apply"
    PROVE  AlertIInv'
<1>0. /\ replica \in [Replicas -> ReplicaRec]
      /\ alertState \in [AlertSlots -> Active \cup {"none", "RESOLVED"}]
      /\ OverlapsAreSeen /\ Cardinality(Hits) <= Cardinality(Unused)
      /\ reopenings \in 0 .. MaxReopenings
  BY AlertTypes DEF AlertIInv
<1>1. /\ alertState' \in [AlertSlots -> Active \cup {"none", "RESOLVED"}]
      /\ alertState'[a] = s /\ s # "none"
      /\ \A b \in AlertSlots \ {a} : alertState'[b] = alertState[b]
  BY <1>0 DEF Active
<1>2. /\ replica' \in [Replicas -> ReplicaRec]
      /\ \A q \in Replicas :
            \/ replica'[q] = replica[q]
            \/ replica'[q] = AtRest /\ replica[q].pc = "apply"
  BY <1>0, RestIsSound
<1>3. AlertTypeOK'
  BY <1>1, <1>2 DEF AlertIInv, AlertTypeOK, ReplicaRec
<1>4. ASSUME NEW q \in Replicas PROVE ReplicaIsSound(q)'
  <2>1. ReplicaIsSound(q) /\ replica[q] \in ReplicaRec
    BY <1>0 DEF AlertIInv
  <2>2. \A b \in AlertSlots : alertState[b] # "none" => alertState'[b] # "none"
    BY <1>1
  <2>. QED  BY <1>2, <2>1, <2>2, RestIsSound DEF ReplicaIsSound, ReplicaRec
<1>5. Cardinality(Hits)' <= Cardinality(Unused)'
  <2>1. Hits' \subseteq Hits
    BY <1>2, RestIsSound DEF Hits
  <2>2. Unused' = Unused
    BY <1>1 DEF Unused
  <2>3. Hits \subseteq Replicas /\ Unused \subseteq AlertSlots
    BY DEF Hits, Unused
  <2>4. IsFiniteSet(Hits) /\ IsFiniteSet(Unused)
    BY <2>3, AlertBounds, FS_Subset
  <2>5. /\ Cardinality(Hits) \in Nat /\ Cardinality(Hits') \in Nat
        /\ Cardinality(Hits') <= Cardinality(Hits) /\ Cardinality(Unused) \in Nat
    BY <2>1, <2>4, FS_Subset, FS_CardinalityType
  <2>. QED  BY <1>0, <2>2, <2>5
<1>6. OverlapsAreSeen'
  <2>1. AtRest.pc \notin Evaluating
    BY RestIsSound DEF Evaluating
  <2>. QED  BY <1>0, <1>2, <2>1 DEF OverlapsAreSeen
<1>7. OneAlertFires'
  <2>. SUFFICES ASSUME ~overlapped, ~(reopenings' > 0) PROVE OneAlertFires'
    BY DEF OneAlertFires
  <2>1. ~(reopenings > 0)
    BY <1>0, AlertBounds
  <2>2. Firing' \subseteq Firing
    <3>1. s \in Active => alertState[a] \in Active
      BY <1>0 DEF Active
    <3>. QED  BY <1>1, <3>1 DEF Firing
  <2>3. \A q \in Replicas : replica'[q].pc = "apply" => replica'[q] = replica[q]
    BY <1>2, RestIsSound
  <2>. QED  BY <2>1, <2>2, <2>3 DEF AlertIInv, OneAlertFires
<1>8. SilentAlertsNeedFaults'
  <2>. SUFFICES ASSUME alertFaults = 0, NEW b \in AlertSlots,
                       alertState'[b] # "none", b \notin announced
                PROVE  \E q \in Replicas : replica'[q].pc = "dispatch"
                                           /\ replica'[q].open = b
    BY DEF SilentAlertsNeedFaults
  <2>1. alertState[b] # "none"
    BY <1>1
  <2>2. PICK q \in Replicas : replica[q].pc = "dispatch" /\ replica[q].open = b
    BY <2>1 DEF AlertIInv, SilentAlertsNeedFaults
  <2>. QED  BY <1>2, <2>2
<1>. QED  BY <1>3, <1>4, <1>5, <1>6, <1>7, <1>8 DEF AlertIInv

(* Nothing but the metric, the ages and the lags change.                   *)
LEMMA TimeKeepsAlertIInv ==
    ASSUME AlertIInv, AlertTypeOK',
           UNCHANGED <<alertState, announced, alertFaults, reopenings, overlapped>>,
           \A r \in Replicas : /\ replica'[r].pc = replica[r].pc
                               /\ replica'[r].hit = replica[r].hit
                               /\ replica'[r].open = replica[r].open
    PROVE  AlertIInv'
<1>1. Hits' = Hits /\ Unused' = Unused /\ Firing' = Firing
  BY DEF Hits, Unused, Firing
<1>2. Cardinality(Hits)' <= Cardinality(Unused)'
  BY <1>1 DEF AlertIInv
<1>3. OneAlertFires'
  BY <1>1 DEF AlertIInv, OneAlertFires
<1>4. \A r \in Replicas : ReplicaIsSound(r)'
  BY DEF AlertIInv, ReplicaIsSound
<1>5. OverlapsAreSeen' /\ SilentAlertsNeedFaults'
  BY DEF AlertIInv, OverlapsAreSeen, SilentAlertsNeedFaults
<1>. QED  BY <1>2, <1>3, <1>4, <1>5 DEF AlertIInv

LEMMA AlertStepKeepsIInv == AlertIInv /\ [AlertNext]_alertVars => AlertIInv'
<1>. SUFFICES ASSUME AlertIInv, [AlertNext]_alertVars PROVE AlertIInv'
  OBVIOUS
<1>0. AlertTypeOK /\ replica \in [Replicas -> ReplicaRec]
      /\ reopenings \in 0 .. MaxReopenings
      /\ alertState \in [AlertSlots -> Active \cup {"none", "RESOLVED"}]
  BY AlertTypes DEF AlertIInv
<1>1. ASSUME NEW r \in Replicas, Cycle(r) \/ CycleFails(r) PROVE AlertIInv'
  <2>1. CASE Fire(r)
    BY <2>1, FireKeepsAlertIInv
  <2>2. CASE AutoResolve(r)
    <3>1. /\ replica[r].pc = "apply" /\ replica[r].open # NoAlert
          /\ alertState' = [alertState EXCEPT ![replica[r].open] = "RESOLVED"]
          /\ replica' = [replica EXCEPT ![r] = AtRest]
          /\ UNCHANGED <<metricHot, sinceLast, lockLeft, announced, alertFaults,
                         reopenings, overlapped>>
      BY <2>2 DEF AutoResolve, Ends
    <3>2. PICK a \in AlertSlots : a = replica[r].open /\ alertState[a] # "none"
      BY <1>0, <3>1 DEF AlertIInv, ReplicaIsSound, ReplicaRec
    <3>3. reopenings' \in 0 .. MaxReopenings /\ reopenings <= reopenings'
      BY <1>0, <3>1, AlertBounds
    <3>. QED  BY <3>1, <3>2, <3>3, AlertChangeKeepsIInv
  <2>. QED  BY <1>1, <2>1, <2>2, CyclesKeepAlertIInv DEF Cycle
<1>2. ASSUME NEW a \in AlertSlots, NEW s \in Active \cup {"RESOLVED"},
             OperatorSets(a, s)
      PROVE  AlertIInv'
  <2>1. /\ alertState[a] # "none" /\ alertState[a] # s
        /\ alertState' = [alertState EXCEPT ![a] = s]
        /\ UNCHANGED <<metricHot, sinceLast, lockLeft, announced, replica,
                       alertFaults, overlapped>>
    BY <1>2 DEF OperatorSets
  <2>2. /\ reopenings' \in 0 .. MaxReopenings /\ reopenings <= reopenings'
        /\ alertState[a] = "RESOLVED" => reopenings' > 0
    BY <1>0, <1>2, AlertBounds DEF OperatorSets
  <2>. QED  BY <2>1, <2>2, AlertChangeKeepsIInv
<1>3. CASE MetricChanges
  <2>1. AlertTypeOK'
    <3>1. metricHot' \in BOOLEAN
      BY <1>3 DEF MetricChanges
    <3>. QED  BY <1>0, <1>3, <3>1 DEF MetricChanges, AlertTypeOK
  <2>. QED  BY <1>3, <2>1, TimeKeepsAlertIInv DEF MetricChanges
<1>4. CASE AlertTick
  <2>1. ASSUME NEW r \in Replicas
        PROVE  /\ replica'[r] \in ReplicaRec
               /\ replica'[r].pc = replica[r].pc /\ replica'[r].hit = replica[r].hit
               /\ replica'[r].open = replica[r].open
    <3>1. replica'[r] = IF replica[r].pc = "idle" THEN replica[r]
                        ELSE [replica[r] EXCEPT !.lag = replica[r].lag + 1]
      BY <1>4 DEF AlertTick
    <3>2. replica[r] \in ReplicaRec
      BY <1>0
    <3>3. CASE replica[r].pc = "idle"
      BY <3>1, <3>2, <3>3
    <3>4. CASE replica[r].pc # "idle"
      <4>1. replica[r].lag + 1 \in 0 .. MaxLag
        BY <1>4, <3>2, <3>4, AlertBounds DEF AlertTick, ReplicaRec
      <4>. QED  BY <3>1, <3>2, <3>4, <4>1 DEF ReplicaRec
    <3>. QED  BY <3>3, <3>4
  <2>2. replica' \in [Replicas -> ReplicaRec]
    <3>1. replica' = [r \in Replicas |-> replica'[r]]
      BY <1>4 DEF AlertTick
    <3>. QED  BY <2>1, <3>1
  <2>3. sinceLast' \in 0 .. LastExpired /\ lockLeft' \in 0 .. LockTTL
    BY <1>0, <1>4, AlertBounds DEF AlertTick, AfterUnit, AlertTypeOK
  <2>4. UNCHANGED <<metricHot, alertState, announced, alertFaults, reopenings,
                    overlapped>>
    BY <1>4 DEF AlertTick
  <2>5. AlertTypeOK'
    BY <1>0, <2>2, <2>3, <2>4 DEF AlertTypeOK, ReplicaRec
  <2>. QED  BY <2>1, <2>4, <2>5, TimeKeepsAlertIInv
<1>5. CASE UNCHANGED alertVars
  <2>1. AlertTypeOK'
    BY <1>0, <1>5 DEF alertVars, AlertTypeOK
  <2>. QED  BY <1>5, <2>1, TimeKeepsAlertIInv DEF alertVars
<1>. QED  BY <1>1, <1>2, <1>3, <1>4, <1>5
         DEF AlertNext, Acknowledge, Snooze, Resolve, Active

(* The alert worker: two alerts of a rule are active at once only when two *)
(* evaluations overlapped or an operator reopened one, and an alert nobody *)
(* was told of comes from a fault.                                         *)
THEOREM AlertsAreAlwaysAccountedFor == AlertSpec => []AlertsAreAccountedFor
BY AlertInitIInv, AlertStepKeepsIInv, AlertIInvIsEnough, PTL DEF AlertSpec
=============================================================================
