--------------------------- MODULE CorrelationLinker ---------------------------
(***************************************************************************)
(* The worker that joins HighSale's credit snapshots with the applications *)
(* they were made for, one batch of unlinked snapshots after another.      *)
(*                                                                         *)
(* One organization.  A snapshot is known by the time it was pulled at.    *)
(***************************************************************************)
EXTENDS Integers, FiniteSets, FiniteSetsExt

CONSTANTS
    Snapshots,          \* times
    LinkApplications,   \* 1, 2, ... in the order they are created
    Moments,            \* times an application may be created at
    People,
    Linkers,            \* the worker's replicas
    NoApplication, Nobody,
    LinkWindow,         \* WINDOW_MS
    LinkBatch,          \* BATCH_SIZE
    MaxLinkFaults       \* bound: batches that end early

ASSUME LinkOptions ==
    /\ Snapshots \subseteq Nat \ {0} /\ IsFiniteSet(Snapshots)
    /\ LinkApplications \subseteq Nat /\ IsFiniteSet(LinkApplications)
    /\ Moments \subseteq Nat \ {0}
    /\ NoApplication \notin LinkApplications /\ Nobody \notin People
    /\ LinkWindow \in Nat /\ LinkBatch \in Nat \ {0} /\ MaxLinkFaults \in Nat

VARIABLES
    snapshot,           \* per snapshot: whom it is about, the application it
                        \* names, applicationId, and whether it is erased
    origin,             \* per application: whose hash it has and when it came
    linker,             \* per replica: its batch, how far it is, its match
    linkFaults,
    arrivedSince,       \* history, per replica: applications that came after
                        \* it looked for a match
    sharedRows          \* history: snapshots two replicas had in hand at once

linkVars == <<snapshot, origin, linker, linkFaults, arrivedSince, sharedRows>>

Hashes == People \cup {Nobody}
NewSnapshots == [about : People, names : LinkApplications \cup {NoApplication},
                 link : {NoApplication}, erased : {FALSE}]
NoSnapshot == [about |-> Nobody, names |-> NoApplication,
               link |-> NoApplication, erased |-> FALSE]
Unborn == [hash |-> Nobody, at |-> 0]
LinkerResting == [pc |-> "rest", batch |-> {}, row |-> 0, match |-> NoApplication]

LinkTypeOK ==
    /\ snapshot \in [Snapshots ->
                        [about : Hashes,
                         names : LinkApplications \cup {NoApplication},
                         link : LinkApplications \cup {NoApplication},
                         erased : BOOLEAN]]
    /\ origin \in [LinkApplications -> [hash : Hashes, at : Moments \cup {0}]]
    /\ linker \in [Linkers -> [pc : {"rest", "rows", "id", "person", "write"},
                               batch : SUBSET Snapshots,
                               row : Snapshots \cup {0},
                               match : LinkApplications \cup {NoApplication}]]
    /\ linkFaults \in 0 .. MaxLinkFaults
    /\ arrivedSince \in [Linkers -> SUBSET LinkApplications]
    /\ sharedRows \subseteq Snapshots

LinkInit ==
    /\ snapshot = [s \in Snapshots |-> NoSnapshot]
    /\ origin = [a \in LinkApplications |-> Unborn]
    /\ linker = [l \in Linkers |-> LinkerResting]
    /\ linkFaults = 0
    /\ arrivedSince = [l \in Linkers |-> {}]
    /\ sharedRows = {}

-----------------------------------------------------------------------------
(* What comes and goes meanwhile                                           *)

(* In any order, linked to nothing; it may name the application by the id  *)
(* the App has given it.                                                   *)
SnapshotArrives(s) ==
    /\ snapshot[s] = NoSnapshot
    /\ \E n \in NewSnapshots : snapshot' = [snapshot EXCEPT ![s] = n]
    /\ UNCHANGED <<origin, linker, linkFaults, arrivedSince, sharedRows>>

ApplicationArrives(a) ==
    /\ origin[a] = Unborn
    /\ \E p \in People, m \in Moments :
          /\ \A b \in LinkApplications :
                b < a => origin[b] # Unborn /\ origin[b].at <= m
          /\ origin' = [origin EXCEPT ![a] = [hash |-> p, at |-> m]]
    /\ arrivedSince' = [l \in Linkers |->
                           IF linker[l].pc \in {"person", "write"}
                           THEN arrivedSince[l] \cup {a} ELSE arrivedSince[l]]
    /\ UNCHANGED <<snapshot, linker, linkFaults, sharedRows>>

(* CommitErasure of Erasure: the hashes are zeroed, the snapshots deleted. *)
ErasePerson(p) ==
    /\ \E s \in Snapshots : snapshot[s].about = p /\ ~snapshot[s].erased
    /\ snapshot' = [s \in Snapshots |->
                       IF snapshot[s].about = p
                       THEN [snapshot[s] EXCEPT !.erased = TRUE]
                       ELSE snapshot[s]]
    /\ origin' = [a \in LinkApplications |->
                     IF origin[a].hash = p THEN [origin[a] EXCEPT !.hash = Nobody]
                     ELSE origin[a]]
    /\ UNCHANGED <<linker, linkFaults, arrivedSince, sharedRows>>

-----------------------------------------------------------------------------
(* resolveBatch                                                            *)

Unlinked == {s \in Snapshots : /\ snapshot[s] # NoSnapshot
                               /\ snapshot[s].link = NoApplication
                               /\ ~snapshot[s].erased}
Newest == {s \in Unlinked :
              Cardinality({t \in Unlinked : t > s}) < LinkBatch}

(* The replica goes on with its batch, or to its rest.                     *)
NextRow(l, left) ==
    IF left = {} THEN LinkerResting
    ELSE [LinkerResting EXCEPT !.pc = "rows", !.batch = left]

(* Defect: the sweep does not leave out what it has linked before.         *)
ReadAll(l) ==
    /\ linker[l] = LinkerResting
    /\ LET live == {s \in Snapshots : snapshot[s] # NoSnapshot} IN
       /\ live # {}
       /\ linker' = [linker EXCEPT ![l] = NextRow(l, {Max(live)})]
    /\ UNCHANGED <<snapshot, origin, linkFaults, arrivedSince, sharedRows>>

(* Defect: the oldest come first.                                          *)
ReadOldest(l) ==
    LET oldest == {s \in Unlinked :
                      Cardinality({t \in Unlinked : t < s}) < LinkBatch}
    IN
    /\ linker[l] = LinkerResting /\ oldest # {}
    /\ linker' = [linker EXCEPT ![l] = NextRow(l, oldest)]
    /\ sharedRows' = sharedRows \cup oldest
    /\ UNCHANGED <<snapshot, origin, linkFaults, arrivedSince>>

ReadBatch(l) ==
    /\ linker[l] = LinkerResting /\ Newest # {}
    /\ linker' = [linker EXCEPT ![l] = NextRow(l, Newest)]
    /\ sharedRows' = sharedRows \cup
          {s \in Newest : \E k \in Linkers \ {l} :
                             s \in linker[k].batch \/ s = linker[k].row}
    /\ UNCHANGED <<snapshot, origin, linkFaults, arrivedSince>>

(* The newest of the batch comes first.                                    *)
TakeRow(l) ==
    /\ linker[l].pc = "rows"
    /\ LET s == Max(linker[l].batch) IN
       linker' = [linker EXCEPT ![l].pc = "id", ![l].row = s,
                                ![l].batch = @ \ {s}]
    /\ UNCHANGED <<snapshot, origin, linkFaults, arrivedSince, sharedRows>>

(* Strategy 1: the application it names, whoever's it is.                  *)
MatchId(l) ==
    LET named == snapshot[linker[l].row].names
        found == named # NoApplication /\ origin[named] # Unborn
    IN
    /\ linker[l].pc = "id"
    /\ linker' = IF found
                 THEN [linker EXCEPT ![l].pc = "write", ![l].match = named]
                 ELSE [linker EXCEPT ![l].pc = "person"]
    /\ arrivedSince' = [arrivedSince EXCEPT ![l] = {}]
    /\ UNCHANGED <<snapshot, origin, linkFaults, sharedRows>>

(* Its person's applications of the days around it                         *)
InWindow(s) ==
    {a \in LinkApplications :
        /\ origin[a] # Unborn /\ origin[a].hash = snapshot[s].about
        /\ s - LinkWindow <= origin[a].at /\ origin[a].at <= s + LinkWindow}

(* Defect: of several applications the newest is taken.                    *)
MatchNewest(l) ==
    LET found == InWindow(linker[l].row) IN
    /\ linker[l].pc = "person"
    /\ linker' = [linker EXCEPT ![l] =
                     IF found # {} THEN [@ EXCEPT !.pc = "write",
                                                  !.match = Max(found)]
                     ELSE NextRow(l, @.batch)]
    /\ arrivedSince' = [arrivedSince EXCEPT ![l] = {}]
    /\ UNCHANGED <<snapshot, origin, linkFaults, sharedRows>>

(* Strategy 2: the one application that fits; none or several leave the    *)
(* snapshot as it is.                                                      *)
MatchPerson(l) ==
    LET found == InWindow(linker[l].row) IN
    /\ linker[l].pc = "person"
    /\ linker' = [linker EXCEPT ![l] =
                     IF Cardinality(found) = 1
                     THEN [@ EXCEPT !.pc = "write",
                                    !.match = CHOOSE a \in found : TRUE]
                     ELSE NextRow(l, @.batch)]
    /\ arrivedSince' = [arrivedSince EXCEPT ![l] = {}]
    /\ UNCHANGED <<snapshot, origin, linkFaults, sharedRows>>

(* update, by id: whether it is linked or erased by now is not looked at.  *)
WriteLink(l) ==
    /\ linker[l].pc = "write"
    /\ snapshot' = [snapshot EXCEPT ![linker[l].row].link = linker[l].match]
    /\ linker' = [linker EXCEPT ![l] = NextRow(l, @.batch)]
    /\ arrivedSince' = [arrivedSince EXCEPT ![l] = {}]
    /\ UNCHANGED <<origin, linkFaults, sharedRows>>

(* An error ends the batch, or the worker dies and is started again.       *)
BatchFails(l) ==
    /\ linker[l] # LinkerResting /\ linkFaults < MaxLinkFaults
    /\ linkFaults' = linkFaults + 1
    /\ linker' = [linker EXCEPT ![l] = LinkerResting]
    /\ arrivedSince' = [arrivedSince EXCEPT ![l] = {}]
    /\ UNCHANGED <<snapshot, origin, sharedRows>>

-----------------------------------------------------------------------------

LinkerStep(l) ==
    ReadBatch(l) \/ TakeRow(l) \/ MatchId(l) \/ MatchPerson(l) \/ WriteLink(l)

LinkNext ==
    \/ \E s \in Snapshots : SnapshotArrives(s)
    \/ \E a \in LinkApplications : ApplicationArrives(a)
    \/ \E p \in People : ErasePerson(p)
    \/ \E l \in Linkers : LinkerStep(l) \/ BatchFails(l)

(* The worker's loop runs.                                                 *)
LinkFairness == \A l \in Linkers : WF_linkVars(LinkerStep(l))

LinkSpec == LinkInit /\ [][LinkNext]_linkVars /\ LinkFairness

-----------------------------------------------------------------------------
(* Properties                                                              *)

(* A snapshot is linked to the application it names, or to the only one of *)
(* its person that was around it: one that came or was erased between the  *)
(* look and the update is all that can make the match ambiguous or wrong.  *)
LinksAreUnambiguous ==
    [][\A s \in Snapshots, a \in LinkApplications :
          snapshot[s].link # a /\ snapshot'[s].link = a =>
              \/ snapshot[s].names = a
              \/ \E l \in Linkers :
                    /\ linker[l].row = s /\ linker[l].match = a
                    /\ \/ snapshot[s].erased
                       \/ InWindow(s) \ arrivedSince[l] = {a}]_linkVars

(* A link is never changed, unless two replicas had the snapshot at once:  *)
(* the service calls resolving a row twice a no-op.                        *)
LinksStay ==
    [][\A s \in Snapshots :
          snapshot[s].link # NoApplication /\ s \notin sharedRows =>
              snapshot'[s].link = snapshot[s].link]_linkVars

(* Both of them: the linker tells its own header that a false link cannot  *)
(* be recovered from.                                                      *)
LinksAreRight == []LinkTypeOK /\ LinksAreUnambiguous /\ LinksStay

Linkable(s) ==
    /\ s \in Unlinked
    /\ \/ snapshot[s].names # NoApplication /\ origin[snapshot[s].names] # Unborn
       \/ Cardinality(InWindow(s)) = 1

Crowded(s) == Cardinality({t \in Unlinked : t > s}) >= LinkBatch

NoneIsLinkable == \A s \in Snapshots : ~Linkable(s) \/ Crowded(s)

(* A snapshot that fits one application for long enough is linked, unless  *)
(* newer ones that fit none or several fill the batch: the sweep always    *)
(* begins with the newest.                                                 *)
LinkableSnapshotsAreLinked == []<>NoneIsLinkable
=============================================================================
