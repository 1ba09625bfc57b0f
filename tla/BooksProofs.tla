------------------------------ MODULE BooksProofs ------------------------------
(***************************************************************************)
(* The books and their readers, for every number of events, rows, jobs and *)
(* pushes, and every page size: what the lists give page by page, what the *)
(* entries of an application agree on, what the rollups are sums of, and   *)
(* what a silo's snapshots hold.                                           *)
(***************************************************************************)
EXTENDS MCBooks, NumberSets

(***************************************************************************)
(* The lists page by page                                                  *)
(*                                                                         *)
(* The argument: what was returned is never beyond the cursor again, and   *)
(* what is not beyond the cursor and was listed all along was returned.    *)
(* Both rest on what a page is: its rows are newer than the candidates it  *)
(* leaves out, so that these are beyond the cursor made of its last row.   *)
(***************************************************************************)

Returned ==
    \A i \in returned : /\ i \in ListRows
                        /\ ~listEnded => (cursor # NoCursor /\ ~Beyond(i))

Steady ==
    \A i \in steady : /\ i \in ListRows /\ rows[i].fits
                      /\ listEnded \/ (cursor # NoCursor /\ ~Beyond(i))
                             => i \in returned

(* A search promises less: its last page has whatever matches.             *)
Searched ==
    /\ \A i \in steady : Listed(i)
    /\ listEnded => steady \subseteq returned

(* The strengthening.  A listing that has not started has returned and     *)
(* promised nothing.                                                       *)
PagingInv ==
    /\ PagingTypeOK
    /\ ~listEnded /\ cursor = NoCursor => returned = {} /\ steady = {}
    /\ ~searching => repeated = {} /\ Returned /\ Steady
    /\ searching => Searched

-----------------------------------------------------------------------------

(* A page is made of candidates.                                           *)
LEMMA PageWithin == \A S : Page(S) \subseteq S
BY DEF Page

(* Rows are in a total order.                                              *)
LEMMA NewerOrder ==
    ASSUME PagingTypeOK, NEW i \in ListRows, NEW j \in ListRows
    PROVE  /\ ~Newer(i, i)
           /\ Newer(i, j) => ~Newer(j, i)
           /\ i = j \/ Newer(i, j) \/ Newer(j, i)
           /\ \A k \in ListRows : Newer(i, j) /\ Newer(j, k) => Newer(i, k)
<1>1. \A k \in ListRows : k \in Nat /\ rows[k].time \in Nat
      BY PagingAssumption DEF PagingTypeOK, ListRows, Row
<1> QED BY <1>1 DEF Newer

(* A candidate that a page leaves out is older than every row of it: were  *)
(* it newer than one of them, that row would have more newer candidates    *)
(* than the page has room for.                                             *)
LEMMA LeftOutIsOlder ==
    ASSUME PagingTypeOK, NEW S \in SUBSET ListRows,
           NEW i \in Page(S), NEW j \in S, j \notin Page(S)
    PROVE  Newer(i, j)
<1> DEFINE Above(x) == {k \in S : Newer(k, x)}
<1>1. i \in S /\ i # j
      BY DEF Page
<1>2. SUFFICES ASSUME Newer(j, i) PROVE FALSE
      BY <1>1, NewerOrder
<1>3. Above(j) \subseteq Above(i)
      BY <1>1, <1>2, NewerOrder
<1>4. IsFiniteSet(S)
      BY FS_Subset, PagingAssumption DEF ListRows
<1>5. IsFiniteSet(Above(i)) /\ IsFiniteSet(Above(j))
      BY <1>4, FS_Subset
<1>6. Cardinality(Above(j)) <= Cardinality(Above(i))
      BY <1>3, <1>5, FS_Subset
<1>7. Cardinality(Above(i)) < Limit /\ ~(Cardinality(Above(j)) < Limit)
      BY DEF Page
<1>8. Cardinality(Above(i)) \in Nat /\ Cardinality(Above(j)) \in Nat
      BY <1>5, FS_CardinalityType
<1> QED BY <1>6, <1>7, <1>8, PagingAssumption

(* When no more than Limit rows are candidates, the page has all of them.  *)
LEMMA LastPageIsWhole ==
    ASSUME PagingTypeOK, NEW S \in SUBSET ListRows, ~(Cardinality(S) > Limit)
    PROVE  Page(S) = S
<1>1. SUFFICES ASSUME NEW i \in S
               PROVE  Cardinality({k \in S : Newer(k, i)}) < Limit
      BY DEF Page
<1> DEFINE Above == {k \in S : Newer(k, i)}
<1>2. IsFiniteSet(S)
      BY FS_Subset, PagingAssumption DEF ListRows
<1>3. /\ IsFiniteSet(S \ {i})
      /\ Cardinality(S \ {i}) = Cardinality(S) - 1
      BY <1>2, FS_RemoveElement
<1>4. Above \subseteq S \ {i}
      BY NewerOrder
<1>5. Cardinality(Above) <= Cardinality(S \ {i})
      BY <1>3, <1>4, FS_Subset
<1>6. Cardinality(Above) \in Nat /\ Cardinality(S) \in Nat
      BY <1>2, <1>3, <1>4, FS_Subset, FS_CardinalityType
<1> QED BY <1>3, <1>5, <1>6, PagingAssumption

-----------------------------------------------------------------------------

LEMMA PagingInitInv == PagingInit => PagingInv
BY DEF PagingInit, PagingInv, PagingTypeOK, Returned, Steady, Searched

LEMMA InsertInv ==
    ASSUME PagingInv, NEW i \in Ids, Insert(i)
    PROVE  PagingInv'
<1> USE NoneAssumption
<1>1. PagingTypeOK'
      BY DEF PagingInv, PagingTypeOK, Insert, ListingRests
<1>2. \A j \in ListRows : j # i /\ rows'[j] = rows[j] /\ j \in ListRows'
      BY DEF PagingInv, PagingTypeOK, Insert, ListRows
<1>3. UNCHANGED <<steady, returned, repeated, cursor, searching, listEnded>>
      BY DEF Insert, ListingRests
<1>4. \A j \in ListRows : Beyond(j)' <=> Beyond(j)
      BY <1>2, <1>3 DEF Beyond
<1>5. Returned => Returned'
      BY <1>2, <1>3, <1>4 DEF Returned
<1>6. Steady => Steady'
      BY <1>2, <1>3, <1>4 DEF Steady
<1>7. Searched => Searched'
      BY <1>2, <1>3 DEF Searched, Listed
<1> QED BY <1>1, <1>3, <1>5, <1>6, <1>7 DEF PagingInv

LEMMA UpdateInv ==
    ASSUME PagingInv, NEW i \in Ids, Update(i)
    PROVE  PagingInv'
<1> USE NoneAssumption
<1>0. PICK r \in Row :
          /\ r.time = rows[i].time
          /\ rows' = [rows EXCEPT ![i] = r]
          /\ steady' = IF r.fits /\ (searching => r.hit)
                       THEN steady ELSE steady \ {i}
      BY DEF Update
<1>1. PagingTypeOK'
      BY <1>0 DEF PagingInv, PagingTypeOK, Update, ListingRests
<1>2. \A j \in ListRows : /\ rows'[j].time = rows[j].time
                          /\ j # i => rows'[j] = rows[j]
                          /\ j \in ListRows'
      BY <1>0 DEF PagingInv, PagingTypeOK, ListRows
<1>3. UNCHANGED <<returned, repeated, cursor, searching, listEnded>>
      BY DEF Update, ListingRests
<1>4. \A j \in steady' : j \in steady /\ (j = i => Listed(j)')
  <2>1. rows'[i] = r /\ (i \in ListRows' <=> r # NoListRow)
        BY <1>0 DEF PagingInv, PagingTypeOK, ListRows
  <2>2. CASE r.fits /\ (searching => r.hit)
        BY <1>0, <1>3, <2>1, <2>2 DEF Listed
  <2>3. CASE ~(r.fits /\ (searching => r.hit))
        BY <1>0, <2>3
  <2> QED BY <2>2, <2>3
<1>5. \A j \in ListRows : Beyond(j)' <=> Beyond(j)
      BY <1>2, <1>3 DEF Beyond
<1>6. Returned => Returned'
      BY <1>2, <1>3, <1>5 DEF Returned
<1>7. ASSUME Steady PROVE Steady'
  <2>1. \A j \in steady' : j \in ListRows' /\ rows'[j].fits
        BY <1>2, <1>4, <1>7 DEF Steady, Listed
  <2> QED BY <1>3, <1>4, <1>5, <1>7, <2>1 DEF Steady
<1>8. ASSUME Searched PROVE Searched'
  <2>1. \A j \in steady : j # i => Listed(j)'
        BY <1>2, <1>3, <1>8 DEF Searched, Listed
  <2> QED BY <1>3, <1>4, <1>8, <2>1 DEF Searched
<1> QED BY <1>1, <1>3, <1>4, <1>6, <1>7, <1>8 DEF PagingInv

LEMMA FetchPageInv ==
    ASSUME PagingInv, FetchPage
    PROVE  PagingInv'
<1> DEFINE S == Candidates
           data == Page(S)
<1>1. /\ ~listEnded /\ PagingTypeOK
      /\ rows' = rows /\ searching' = searching
      /\ returned' = returned \cup data
      /\ repeated' = repeated \cup (returned \cap data)
      /\ listEnded' = ~(Cardinality(S) > Limit)
      /\ steady' = IF cursor = NoCursor
                   THEN {i \in Ids : Listed(i)} ELSE steady
      BY DEF FetchPage, PagingInv
<1>2. S \in SUBSET ListRows /\ data \subseteq S /\ ListRows \subseteq Ids
      BY PageWithin DEF Candidates, Selected, ListRows
<1>3. ListRows' = ListRows
      BY <1>1 DEF ListRows
<1>6. ASSUME searching PROVE \A i \in steady' : Listed(i)' /\ i \in S
  <2>1. \A i \in steady' : Listed(i)
        BY <1>1, <1>6 DEF PagingInv, Searched
  <2>2. \A i : Listed(i) => Listed(i)'
        BY <1>1, <1>3 DEF Listed
  <2> QED BY <1>2, <1>6, <2>1, <2>2
          DEF Listed, Candidates, Selected, ListRows
<1>4. CASE Cardinality(S) > Limit
  <2>1. PICK tail \in data :
           /\ \A i \in data : i = tail \/ Newer(i, tail)
           /\ cursor' = [time |-> rows[tail].time, id |-> tail]
        BY <1>4 DEF FetchPage
  <2>2. /\ rows[tail].time \in RowTimes /\ tail \in Ids
        /\ cursor'.time = rows[tail].time /\ cursor'.id = tail
        BY <1>1, <1>2, <2>1 DEF PagingTypeOK, ListRows, Row
  <2>3. cursor' \in Cursor /\ cursor' # NoCursor
        BY <2>1, <2>2, NoneAssumption DEF Cursor
  <2>4. \A i \in ListRows : Beyond(i)' <=> Newer(tail, i)
        BY <1>1, <1>2, <2>1, <2>2, PagingAssumption
        DEF Beyond, Newer, PagingTypeOK, ListRows, Row
  (* The page's rows are not beyond the new cursor, and the candidates     *)
  (* that are left are.                                                    *)
  <2>5. \A i \in data : ~Beyond(i)'
        BY <1>1, <1>2, <2>1, <2>4, NewerOrder
  <2>6. \A i \in S \ data : Beyond(i)'
        BY <1>1, <1>2, <2>1, <2>4, LeftOutIsOlder
  (* The cursor only moves to older rows.                                  *)
  <2>7. ~searching /\ cursor # NoCursor
           => \A i \in ListRows : ~Beyond(i) => ~Beyond(i)'
    <3>1. SUFFICES ASSUME ~searching, cursor # NoCursor,
                          NEW i \in ListRows, ~Beyond(i)
                   PROVE  ~Newer(tail, i)
          BY <2>4
    <3>2. Beyond(tail)
          BY <1>2, <2>1, <3>1 DEF Candidates, Selected
    <3>3. cursor.time \in Nat /\ cursor.id \in Nat
          BY <1>1, <3>1, PagingAssumption DEF PagingTypeOK, Cursor
    <3>4. /\ rows[i].time \in Nat /\ i \in Nat
          /\ rows[tail].time \in Nat /\ tail \in Nat
          BY <1>1, <1>2, <2>1, PagingAssumption
          DEF PagingTypeOK, ListRows, Row
    <3> QED BY <3>1, <3>2, <3>3, <3>4 DEF Beyond, Newer
  <2>8. listEnded' = FALSE
        BY <1>1, <1>4
  <2>9. PagingTypeOK'
        BY <1>1, <1>2, <2>3, <2>8 DEF PagingTypeOK
  <2>10. ASSUME ~searching PROVE repeated' = {} /\ Returned' /\ Steady'
    <3>1. \A i \in returned : cursor # NoCursor /\ ~Beyond(i) /\ i \in ListRows
          BY <1>1, <2>10 DEF PagingInv, Returned
    <3>2. \A i \in S : cursor # NoCursor => Beyond(i)
          BY <2>10 DEF Candidates, Selected
    <3>3. returned \cap data = {}
          BY <1>2, <3>1, <3>2
    <3>4. repeated' = {}
          BY <1>1, <2>10, <3>3 DEF PagingInv
    <3>5. Returned'
          BY <1>1, <1>2, <1>3, <2>3, <2>5, <2>7, <2>10, <3>1 DEF Returned
    <3>6. ASSUME NEW i \in steady', cursor = NoCursor
          PROVE  /\ i \in ListRows' /\ rows'[i].fits
                 /\ ~Beyond(i)' => i \in returned'
      <4>1. i \in S /\ rows[i].fits
            BY <1>1, <2>10, <3>6 DEF Candidates, Selected, Listed
      <4> QED BY <1>1, <1>2, <1>3, <2>6, <4>1
    <3>7. ASSUME NEW i \in steady', cursor # NoCursor
          PROVE  /\ i \in ListRows' /\ rows'[i].fits
                 /\ ~Beyond(i)' => i \in returned'
      <4>1. /\ i \in ListRows /\ rows[i].fits
            /\ ~Beyond(i) => i \in returned
            BY <1>1, <2>10, <3>7 DEF PagingInv, Steady
      <4>2. Beyond(i) => i \in S
            BY <1>2, <2>10, <4>1 DEF Candidates, Selected, ListRows
      <4> QED BY <1>1, <1>3, <2>6, <4>1, <4>2
    <3>8. Steady'
          BY <2>8, <3>6, <3>7 DEF Steady
    <3> QED BY <3>4, <3>5, <3>8
  <2>11. searching => Searched'
         BY <1>6, <2>8 DEF Searched
  <2> QED BY <1>1, <2>3, <2>9, <2>10, <2>11 DEF PagingInv
<1>5. CASE ~(Cardinality(S) > Limit)
  <2>1. cursor' = cursor
        BY <1>5 DEF FetchPage
  <2>2. data = S
        BY <1>1, <1>2, <1>5, LastPageIsWhole
  <2>3. listEnded' = TRUE
        BY <1>1, <1>5
  <2>4. PagingTypeOK'
        BY <1>1, <1>2, <2>1, <2>3 DEF PagingTypeOK
  <2>5. ASSUME ~searching PROVE repeated' = {} /\ Returned' /\ Steady'
    <3>1. \A i \in returned : cursor # NoCursor /\ ~Beyond(i) /\ i \in ListRows
          BY <1>1, <2>5 DEF PagingInv, Returned
    <3>2. \A i \in S : cursor # NoCursor => Beyond(i)
          BY <2>5 DEF Candidates, Selected
    <3>3. repeated' = {}
          BY <1>1, <1>2, <2>5, <3>1, <3>2 DEF PagingInv
    <3>4. Returned'
          BY <1>1, <1>2, <1>3, <2>3, <3>1 DEF Returned
    <3>5. ASSUME NEW i \in steady', cursor = NoCursor
          PROVE  i \in ListRows' /\ rows'[i].fits /\ i \in returned'
      <4>1. i \in S /\ rows[i].fits
            BY <1>1, <2>5, <3>5 DEF Candidates, Selected, Listed
      <4> QED BY <1>1, <1>2, <1>3, <2>2, <4>1
    <3>6. ASSUME NEW i \in steady', cursor # NoCursor
          PROVE  i \in ListRows' /\ rows'[i].fits /\ i \in returned'
      <4>1. /\ i \in ListRows /\ rows[i].fits
            /\ ~Beyond(i) => i \in returned
            BY <1>1, <2>5, <3>6 DEF PagingInv, Steady
      <4>2. Beyond(i) => i \in S
            BY <1>2, <2>5, <4>1 DEF Candidates, Selected, ListRows
      <4> QED BY <1>1, <1>3, <2>2, <4>1, <4>2
    <3>7. Steady'
          BY <3>5, <3>6 DEF Steady
    <3> QED BY <3>3, <3>4, <3>7
  <2>6. searching => Searched'
        BY <1>1, <1>6, <2>2 DEF Searched
  <2> QED BY <1>1, <2>3, <2>4, <2>5, <2>6 DEF PagingInv
<1> QED BY <1>4, <1>5

LEMMA PagingStepInv == PagingInv /\ [PagingNext]_pagingVars => PagingInv'
<1>1. SUFFICES ASSUME PagingInv, [PagingNext]_pagingVars PROVE PagingInv'
      OBVIOUS
<1>2. CASE \E i \in Ids : Insert(i)
      BY <1>1, <1>2, InsertInv
<1>3. CASE \E i \in Ids : Update(i)
      BY <1>1, <1>3, UpdateInv
<1>4. CASE FetchPage
      BY <1>1, <1>4, FetchPageInv
<1>5. CASE UNCHANGED pagingVars
      BY <1>1, <1>5
      DEF pagingVars, PagingInv, PagingTypeOK, Returned, Steady, Searched,
          Listed, ListRows, Beyond
<1> QED BY <1>1, <1>2, <1>3, <1>4, <1>5 DEF PagingNext

(* However the table is written to between the pages of a listing, none of *)
(* the rows that were listed all along is left out when it ends, and if it *)
(* does not search, none is given twice: pagination.ts with the lists of   *)
(* the three repositories.                                                 *)
THEOREM ListingsAreWhole == PagingSpec => []PagesCoverTheList
<1>1. PagingInv => PagesCoverTheList
      BY DEF PagingInv, Steady, Searched, PagesCoverTheList
<1> QED BY <1>1, PagingInitInv, PagingStepInv, PTL DEF PagingSpec

(***************************************************************************)
(* The EazePay App drain                                                   *)
(***************************************************************************)

EventTypeOK(e) ==
    /\ at[e] = "idle" <=> row[e] = "none"
    /\ at[e] = "idle" <=> kind[e] = "none"
    /\ at[e] \in {"write", "commit"} => verdict[e] # "none"
    /\ row[e] = "QUARANTINED" => at[e] \in {"finish", "over"}

(* The transaction that is about to add a row to the ledger                *)
Booking(e) == at[e] = "commit" /\ verdict[e] = "apply" /\ e \in LedgerEvents

(* It has checked its key and holds it, and has announced the row; who has *)
(* announced one otherwise is past its commit, or lost.                    *)
BookingIsSound(e) ==
    /\ Booking(e) =>
          /\ e \in published
          /\ \A d \in ledger : KeyOf(d) # KeyOf(e)
          /\ \A d \in Events : Booking(d) /\ KeyOf(d) = KeyOf(e) => d = e
    /\ e \in published =>
          /\ at[e] \notin {"idle", "lookup", "write"}
          /\ e \in ledger \/ e \in aborted \/ Booking(e)

DrainIInv ==
    /\ DrainTypeOK
    /\ \A e \in Events : BookingIsSound(e)
    /\ StatusIsBackedByItsRecords
    /\ LedgerHasOneRowPerKey
    /\ ledger \subseteq published

LEMMA DrainTypes ==
    DrainTypeOK =>
        /\ kind \in [Events -> Kinds \cup {"none"}]
        /\ row \in [Events -> {"none", "RECEIVED", "QUARANTINED", "PROCESSED",
                               "FAILED"}]
        /\ at \in [Events -> {"idle", "lookup", "write", "commit", "finish",
                              "failed", "over"}]
        /\ verdict \in [Events -> {"none", "apply", "quarantine", "drop", "doomed"}]
        /\ ledger \subseteq LedgerEvents /\ decisions \subseteq OfKind("contract")
        /\ published \subseteq LedgerEvents
        /\ \A e \in Events : EventTypeOK(e)
BY DEF DrainTypeOK, EventTypeOK

LEMMA DrainSets ==
    ASSUME DrainTypeOK
    PROVE  LedgerEvents \subseteq Events /\ ledger \subseteq Events
           /\ published \subseteq Events /\ decisions \subseteq Events
BY DrainTypes DEF LedgerEvents, OfKind

LEMMA DrainIInvIsEnough == DrainIInv => BooksAgree
<1>. SUFFICES ASSUME DrainIInv PROVE BooksAgree
  OBVIOUS
<1>1. DrainTypeOK /\ \A e \in published : e \in Events
  BY DrainSets DEF DrainIInv
<1>2. AnnouncementsMatchTheLedger
  BY <1>1 DEF DrainIInv, AnnouncementsMatchTheLedger, BookingIsSound, Booking
<1>. QED  BY <1>1, <1>2 DEF DrainIInv, BooksAgree

LEMMA DrainInitIInv == DrainInit => DrainIInv
<1>. SUFFICES ASSUME DrainInit PROVE DrainIInv
  OBVIOUS
<1>1. application \in {"none", "OFFERED"} /\ partner \in {"none", "active"}
  BY DEF DrainInit
<1>2. DrainTypeOK
  BY <1>1 DEF DrainInit, DrainTypeOK, Statuses
<1>3. \A e \in Events : BookingIsSound(e)
  BY DEF DrainInit, BookingIsSound, Booking
<1>. QED  BY <1>1, <1>2, <1>3 DEF DrainInit, DrainIInv, StatusIsBackedByItsRecords,
                                  LedgerHasOneRowPerKey

(* A step of an event that writes nothing to the books                     *)
LEMMA QuietDrainStepKeepsIInv ==
    ASSUME DrainIInv, DrainTypeOK', NEW e \in Events,
           UNCHANGED <<kind, application, partner, ledger, decisions, published>>,
           aborted \subseteq aborted',
           \A d \in Events \ {e} : at'[d] = at[d] /\ verdict'[d] = verdict[d],
           at[e] # "idle", at'[e] \notin {"idle"},
           e \in published => at'[e] \notin {"lookup", "write"},
           ~Booking(e)', Booking(e) => e \in aborted'
    PROVE  DrainIInv'
<1>1. LedgerEvents' = LedgerEvents
  BY DEF LedgerEvents, OfKind
<1>2. \A d \in Events : Booking(d)' => Booking(d)
  BY <1>1 DEF Booking
<1>3. \A d \in Events \ {e} : Booking(d)' <=> Booking(d)
  BY <1>1 DEF Booking
<1>4. ASSUME NEW d \in Events PROVE BookingIsSound(d)'
  <2>1. BookingIsSound(d)
    BY DEF DrainIInv
  <2>2. Booking(d)' => BookingIsSound(d)'
    BY <1>2, <2>1 DEF BookingIsSound, KeyOf, Booking
  <2>3. ~Booking(d)' => BookingIsSound(d)'
    BY <1>3, <2>1 DEF BookingIsSound
  <2>. QED  BY <2>2, <2>3
<1>5. StatusIsBackedByItsRecords' /\ LedgerHasOneRowPerKey'
  BY DEF DrainIInv, StatusIsBackedByItsRecords, LedgerHasOneRowPerKey, OfKind, KeyOf
<1>. QED  BY <1>4, <1>5 DEF DrainIInv

LEMMA ReceiveDeliveryKeepsDrainIInv ==
    ASSUME DrainIInv, NEW e \in Events, ReceiveDelivery(e)
    PROVE  DrainIInv'
<1>0. DrainTypeOK
  BY DEF DrainIInv
<1>1. PICK k \in Kinds : kind' = [kind EXCEPT ![e] = k]
  BY DEF ReceiveDelivery
<1>2. /\ at[e] = "idle" /\ kind[e] = "none"
      /\ row' = [row EXCEPT ![e] = "RECEIVED"] /\ at' = [at EXCEPT ![e] = "lookup"]
      /\ UNCHANGED <<verdict, application, partner, ledger, decisions, published,
                     aborted>>
  BY <1>0, DrainTypes DEF ReceiveDelivery, domain, EventTypeOK
<1>3. k # "none"
  BY DEF Kinds
<1>4. \A d \in Events \ {e} : kind'[d] = kind[d] /\ at'[d] = at[d]
  BY <1>0, <1>1, <1>2, DrainTypes
<1>5. \A d \in Events \ {e} : \A j : d \in OfKind(j)' <=> d \in OfKind(j)
  BY <1>4 DEF OfKind
<1>6. \A j \in Kinds : e \notin OfKind(j)
  BY <1>2 DEF OfKind, Kinds
<1>7. e \notin LedgerEvents /\ e \notin OfKind("contract")
      /\ e \notin ledger /\ e \notin decisions /\ e \notin published
  BY <1>0, <1>6, DrainTypes DEF LedgerEvents, Kinds
<1>8. LedgerEvents \subseteq LedgerEvents'
      /\ \A d \in Events \ {e} : d \in LedgerEvents' <=> d \in LedgerEvents
  BY <1>5, <1>7 DEF LedgerEvents, OfKind
<1>9. \A j \in Kinds : OfKind(j) \subseteq OfKind(j)'
  BY <1>5, <1>6 DEF OfKind
<1>10. DrainTypeOK'
  <2>1. ledger' \subseteq LedgerEvents' /\ published' \subseteq LedgerEvents'
        /\ decisions' \subseteq OfKind("contract")'
    BY <1>0, <1>2, <1>8, <1>9, DrainTypes DEF Kinds
  <2>2. ASSUME NEW d \in Events PROVE EventTypeOK(d)'
    BY <1>0, <1>1, <1>2, <1>3, <1>4, DrainTypes DEF EventTypeOK
  <2>3. /\ kind' \in [Events -> Kinds \cup {"none"}]
        /\ row' \in [Events -> {"none", "RECEIVED", "QUARANTINED", "PROCESSED",
                               "FAILED"}]
        /\ at' \in [Events -> {"idle", "lookup", "write", "commit", "finish",
                              "failed", "over"}]
    BY <1>0, <1>1, <1>2, DrainTypes
  <2>. QED  BY <1>0, <1>2, <2>1, <2>2, <2>3 DEF DrainTypeOK, EventTypeOK
<1>11. ~Booking(e)' /\ \A d \in Events \ {e} : Booking(d)' <=> Booking(d)
  BY <1>0, <1>2, <1>4, <1>8, DrainTypes DEF Booking
<1>12. ~Booking(e)
  BY <1>2 DEF Booking
<1>13. ASSUME NEW d \in Events PROVE BookingIsSound(d)'
  <2>1. BookingIsSound(d)
    BY DEF DrainIInv
  <2>2. CASE d = e
    BY <1>2, <1>7, <1>11, <2>2 DEF BookingIsSound
  <2>3. CASE d # e
    <3>1. \A f \in Events \ {e} : KeyOf(f)' = KeyOf(f)
      BY <1>4 DEF KeyOf
    <3>2. \A f \in ledger : f \in Events \ {e}
      BY <1>0, <1>7, DrainSets
    <3>. QED  BY <1>2, <1>4, <1>11, <1>12, <2>1, <2>3, <3>1, <3>2 DEF BookingIsSound
  <2>. QED  BY <2>2, <2>3
<1>14. StatusIsBackedByItsRecords'
  <2>1. OfKind("funding") \subseteq OfKind("funding")'
        /\ OfKind("contract without lender") \subseteq OfKind("contract without lender")'
    BY <1>9 DEF Kinds
  <2>. QED  BY <1>2, <2>1 DEF DrainIInv, StatusIsBackedByItsRecords
<1>15. LedgerHasOneRowPerKey'
  BY <1>0, <1>2, <1>4, <1>7, DrainTypes DEF DrainIInv, LedgerHasOneRowPerKey, KeyOf,
                                            LedgerEvents, OfKind
<1>. QED  BY <1>2, <1>10, <1>13, <1>14, <1>15 DEF DrainIInv

(* A transaction has checked its key while no other one held it.           *)
LEMMA WriteKeepsDrainIInv ==
    ASSUME DrainIInv, NEW e \in Events, Write(e)
    PROVE  DrainIInv'
<1> DEFINE writesLedger == verdict[e] = "apply" /\ e \in LedgerEvents
           duplicate == writesLedger /\ \E d \in ledger : KeyOf(d) = KeyOf(e)
<1>0. DrainTypeOK /\ ledger \subseteq Events /\ published \subseteq Events
      /\ LedgerEvents \subseteq Events
  BY DrainSets DEF DrainIInv
<1>1. /\ at[e] = "write" /\ ~Blocked(e)
      /\ verdict' = [verdict EXCEPT ![e] = IF duplicate THEN "doomed" ELSE verdict[e]]
      /\ published' = IF writesLedger /\ ~duplicate THEN published \cup {e}
                                                    ELSE published
      /\ at' = [at EXCEPT ![e] = "commit"]
      /\ UNCHANGED <<kind, row, application, partner, ledger, decisions, aborted>>
  BY <1>0, DrainTypes DEF Write, domain
<1>2. /\ at'[e] = "commit" /\ verdict'[e] = (IF duplicate THEN "doomed" ELSE verdict[e])
      /\ \A d \in Events \ {e} : at'[d] = at[d] /\ verdict'[d] = verdict[d]
  BY <1>0, <1>1, DrainTypes
<1>3. Booking(e)' <=> writesLedger /\ ~duplicate
  BY <1>1, <1>2 DEF Booking, LedgerEvents, OfKind
<1>4. \A d \in Events \ {e} : Booking(d)' <=> Booking(d)
  BY <1>1, <1>2 DEF Booking, LedgerEvents, OfKind
<1>5. ASSUME writesLedger, NEW d \in Events \ {e}, Booking(d) PROVE KeyOf(d) # KeyOf(e)
  <2>1. KeyOf(d) \in Locks(d) /\ KeyOf(e) \in Locks(e)
    BY <1>5 DEF Locks, Booking
  <2>2. Locks(d) \cap Locks(e) = {}
    BY <1>1, <1>5 DEF Blocked, Booking
  <2>. QED  BY <2>1, <2>2
<1>6. e \notin published
  BY <1>1 DEF DrainIInv, BookingIsSound
<1>7. DrainTypeOK'
  <2>1. /\ at' \in [Events -> {"idle", "lookup", "write", "commit", "finish",
                               "failed", "over"}]
        /\ verdict' \in [Events -> {"none", "apply", "quarantine", "drop", "doomed"}]
    BY <1>0, <1>1, DrainTypes
  <2>2. published' \subseteq LedgerEvents
    BY <1>0, <1>1, DrainTypes
  <2>3. ASSUME NEW d \in Events PROVE EventTypeOK(d)'
    BY <1>0, <1>1, <1>2, DrainTypes DEF EventTypeOK
  <2>. QED  BY <1>0, <1>1, <2>1, <2>2, <2>3
           DEF DrainTypeOK, EventTypeOK, LedgerEvents, OfKind
<1>8. ASSUME NEW d \in Events PROVE BookingIsSound(d)'
  <2>1. BookingIsSound(d)
    BY DEF DrainIInv
  <2>. HIDE DEF writesLedger
  <2>2. \A f \in Events : KeyOf(f)' = KeyOf(f)
    BY <1>1 DEF KeyOf
  <2>3. CASE d = e
    <3>1. Booking(e)' => e \in published' /\ \A f \in ledger : KeyOf(f) # KeyOf(e)
      BY <1>1, <1>3
    <3>2. Booking(e)' => \A f \in Events : Booking(f)' /\ KeyOf(f) = KeyOf(e) => f = e
      BY <1>3, <1>4, <1>5
    <3>3. e \in published' => Booking(e)'
      BY <1>1, <1>3, <1>6
    <3>. QED  BY <1>0, <1>1, <1>2, <2>2, <2>3, <3>1, <3>2, <3>3 DEF BookingIsSound
  <2>4. CASE d # e
    <3>1. Booking(d) /\ Booking(e)' => KeyOf(d) # KeyOf(e)
      BY <1>3, <1>5, <2>4
    <3>2. d \in published' <=> d \in published
      BY <1>1, <2>4
    <3>3. Booking(d)' => \A f \in Events : Booking(f)' /\ KeyOf(f) = KeyOf(d) => f = d
      BY <1>4, <2>1, <2>4, <3>1 DEF BookingIsSound
    <3>. QED  BY <1>0, <1>1, <1>2, <1>4, <2>1, <2>2, <2>4, <3>2, <3>3 DEF BookingIsSound
  <2>. QED  BY <2>3, <2>4
<1>9. StatusIsBackedByItsRecords' /\ LedgerHasOneRowPerKey'
  BY <1>1 DEF DrainIInv, StatusIsBackedByItsRecords, LedgerHasOneRowPerKey, OfKind, KeyOf
<1>10. ledger' \subseteq published'
  BY <1>1 DEF DrainIInv
<1>. QED  BY <1>7, <1>8, <1>9, <1>10 DEF DrainIInv

LEMMA CommitKeepsDrainIInv ==
    ASSUME DrainIInv, NEW e \in Events, Commit(e)
    PROVE  DrainIInv'
<1>0. DrainTypeOK /\ ledger \subseteq Events /\ published \subseteq Events
      /\ LedgerEvents \subseteq Events
  BY DrainSets DEF DrainIInv
<1>1. /\ at[e] = "commit" /\ at' = [at EXCEPT ![e] = "finish"]
      /\ row' = IF verdict[e] = "quarantine"
                THEN [row EXCEPT ![e] = "QUARANTINED"] ELSE row
      /\ UNCHANGED <<kind, verdict, published, aborted>>
  BY DEF Commit
<1>2. /\ at'[e] = "finish" /\ \A d \in Events \ {e} : at'[d] = at[d]
      /\ row'[e] # "none" /\ (row'[e] = "none" <=> row[e] = "none")
      /\ \A d \in Events \ {e} : row'[d] = row[d]
  BY <1>0, <1>1, DrainTypes DEF EventTypeOK
<1>3. UNCHANGED <<LedgerEvents, ApplicationEvents, PartnerEvents>>
      /\ (\A k : OfKind(k)' = OfKind(k)) /\ \A d : KeyOf(d)' = KeyOf(d)
  BY <1>1 DEF LedgerEvents, ApplicationEvents, PartnerEvents, OfKind, KeyOf
<1>4. /\ ledger' = (IF Booking(e) THEN ledger \cup {e} ELSE ledger)
      /\ decisions' = (IF verdict[e] = "apply" /\ e \in OfKind("contract")
                       THEN decisions \cup {e} ELSE decisions)
  <2>1. CASE verdict[e] = "apply"
    BY <1>1, <2>1 DEF Commit, Apply, Booking
  <2>2. CASE verdict[e] # "apply"
    BY <1>1, <2>2 DEF Commit, domain, Booking
  <2>. QED  BY <2>1, <2>2
<1>5. /\ application' \in Statuses \cup {"none"}
      /\ partner' \in {"none", "active", "deleted"}
      /\ application' = "FUNDED" =>
            application = "FUNDED" \/ (kind[e] = "funding" /\ verdict[e] = "apply")
      /\ application' = "CONTRACTED" =>
            application = "CONTRACTED" \/ (kind[e] \in Contracts /\ verdict[e] = "apply")
  <2>1. CASE verdict[e] # "apply"
    <3>1. UNCHANGED <<application, partner>>
      BY <2>1 DEF Commit, domain
    <3>. QED  BY <1>0, <3>1 DEF DrainTypeOK
  <2>2. CASE verdict[e] = "apply"
    <3>1. application' = StatusAfter(e) /\ partner' = PartnerAfter(e)
      BY <2>2 DEF Commit, Apply
    <3>2. partner' \in {"none", "active", "deleted"}
      BY <1>0, <3>1 DEF PartnerAfter, DrainTypeOK
    <3>3. application' = CASE kind[e] = "offer" -> "OFFERED"
                           [] kind[e] \in Contracts -> "CONTRACTED"
                           [] kind[e] = "decline" -> "DECLINED"
                           [] kind[e] = "funding" -> "FUNDED"
                           [] OTHER -> application
      BY <3>1 DEF StatusAfter
    <3>. QED  BY <1>0, <2>2, <3>2, <3>3 DEF DrainTypeOK, Statuses, Contracts
  <2>. QED  BY <2>1, <2>2
<1>6. Booking(e) => e \in LedgerEvents /\ e \in published
  BY DEF DrainIInv, BookingIsSound, Booking
<1>7. DrainTypeOK'
  <2>1. ledger' \subseteq LedgerEvents /\ decisions' \subseteq OfKind("contract")
        /\ published' \subseteq LedgerEvents
    BY <1>0, <1>1, <1>4, <1>6, DrainTypes
  <2>2. /\ at' \in [Events -> {"idle", "lookup", "write", "commit", "finish",
                               "failed", "over"}]
        /\ row' \in [Events -> {"none", "RECEIVED", "QUARANTINED", "PROCESSED",
                                "FAILED"}]
    BY <1>0, <1>1, DrainTypes
  <2>3. ASSUME NEW d \in Events PROVE EventTypeOK(d)'
    BY <1>0, <1>1, <1>2, DrainTypes DEF EventTypeOK
  <2>. QED  BY <1>0, <1>1, <1>3, <1>5, <2>1, <2>2, <2>3 DEF DrainTypeOK, EventTypeOK
<1>8. ~Booking(e)' /\ \A d \in Events \ {e} : Booking(d)' <=> Booking(d)
  BY <1>1, <1>2, <1>3 DEF Booking
<1>9. ASSUME NEW d \in Events PROVE BookingIsSound(d)'
  <2>1. BookingIsSound(d) /\ BookingIsSound(e)
    BY DEF DrainIInv
  <2>2. CASE d = e
    BY <1>1, <1>2, <1>4, <1>8, <2>1, <2>2 DEF BookingIsSound
  <2>3. CASE d # e
    <3>1. Booking(e) /\ Booking(d) => KeyOf(d) # KeyOf(e)
      BY <2>1, <2>3 DEF BookingIsSound
    <3>2. Booking(d) => \A f \in ledger' : KeyOf(f) # KeyOf(d)
      BY <1>4, <2>1, <3>1 DEF BookingIsSound
    <3>3. Booking(d) => \A f \in Events : Booking(f)' /\ KeyOf(f) = KeyOf(d) => f = d
      BY <1>8, <2>1 DEF BookingIsSound
    <3>. QED  BY <1>1, <1>2, <1>3, <1>4, <1>8, <2>1, <2>3, <3>2, <3>3 DEF BookingIsSound
  <2>. QED  BY <2>2, <2>3
<1>10. StatusIsBackedByItsRecords'
  <2>1. ledger \subseteq ledger' /\ decisions \subseteq decisions'
    BY <1>4
  <2>2. kind[e] = "funding" /\ verdict[e] = "apply" =>
           e \in ledger' /\ e \in OfKind("funding")
    BY <1>1, <1>4 DEF Booking, LedgerEvents, OfKind
  <2>3. kind[e] \in Contracts /\ verdict[e] = "apply" =>
           e \in decisions' \/ e \in OfKind("contract without lender")
    BY <1>4 DEF Contracts, OfKind
  <2>4. application' = "FUNDED" => ledger' \cap OfKind("funding") # {}
    BY <1>5, <2>1, <2>2 DEF DrainIInv, StatusIsBackedByItsRecords
  <2>5. application' = "CONTRACTED" =>
           decisions' # {} \/ OfKind("contract without lender") # {}
    BY <1>5, <2>1, <2>3 DEF DrainIInv, StatusIsBackedByItsRecords
  <2>. QED  BY <1>3, <2>4, <2>5 DEF StatusIsBackedByItsRecords
<1>11. LedgerHasOneRowPerKey'
  <2>1. LedgerHasOneRowPerKey
    BY DEF DrainIInv
  <2>2. Booking(e) => \A d \in ledger : KeyOf(d) # KeyOf(e)
    BY DEF DrainIInv, BookingIsSound
  <2>. QED  BY <1>3, <1>4, <2>1, <2>2 DEF LedgerHasOneRowPerKey
<1>12. ledger' \subseteq published'
  BY <1>1, <1>4, <1>6 DEF DrainIInv
<1>. QED  BY <1>7, <1>9, <1>10, <1>11, <1>12 DEF DrainIInv

LEMMA DrainStepKeepsIInv == DrainIInv /\ [DrainNext]_drainVars => DrainIInv'
<1>. SUFFICES ASSUME DrainIInv, [DrainNext]_drainVars PROVE DrainIInv'
  OBVIOUS
<1>0. /\ DrainTypeOK
      /\ row \in [Events -> {"none", "RECEIVED", "QUARANTINED", "PROCESSED",
                             "FAILED"}]
      /\ at \in [Events -> {"idle", "lookup", "write", "commit", "finish",
                            "failed", "over"}]
      /\ verdict \in [Events -> {"none", "apply", "quarantine", "drop", "doomed"}]
      /\ \A d \in Events : EventTypeOK(d)
  BY DrainTypes DEF DrainIInv
<1>1. ASSUME NEW e \in Events, UNCHANGED <<kind, application, partner, ledger,
                                           decisions, published>>,
             aborted' \in {aborted, aborted \cup {e}},
             NEW a \in {"write", "finish", "failed", "over"},
             NEW v \in {"none", "apply", "quarantine", "drop", "doomed"},
             NEW w \in {"RECEIVED", "QUARANTINED", "PROCESSED", "FAILED"},
             at' = [at EXCEPT ![e] = a], verdict' = [verdict EXCEPT ![e] = v],
             row' = [row EXCEPT ![e] = w], at[e] # "idle",
             a = "write" => at[e] = "lookup" /\ v # "none",
             w = "QUARANTINED" => a \in {"finish", "over"},
             at[e] = "commit" => e \in aborted'
      PROVE  DrainIInv'
  <2>1. /\ at' \in [Events -> {"idle", "lookup", "write", "commit", "finish",
                               "failed", "over"}]
        /\ verdict' \in [Events -> {"none", "apply", "quarantine", "drop", "doomed"}]
        /\ row' \in [Events -> {"none", "RECEIVED", "QUARANTINED", "PROCESSED",
                                "FAILED"}]
        /\ at'[e] = a /\ verdict'[e] = v /\ row'[e] = w
        /\ \A d \in Events \ {e} : /\ at'[d] = at[d] /\ verdict'[d] = verdict[d]
                                   /\ row'[d] = row[d]
    BY <1>0, <1>1
  <2>2. ASSUME NEW d \in Events PROVE EventTypeOK(d)'
    BY <1>0, <1>1, <2>1 DEF EventTypeOK
  <2>3. DrainTypeOK'
    BY <1>0, <1>1, <2>1, <2>2 DEF DrainTypeOK, EventTypeOK, LedgerEvents, OfKind
  <2>4. e \in published => a # "write"
    BY <1>1 DEF DrainIInv, BookingIsSound
  <2>5. ~Booking(e)' /\ (Booking(e) => e \in aborted')
    BY <1>1, <2>1 DEF Booking
  <2>. QED  BY <1>1, <2>1, <2>3, <2>4, <2>5, QuietDrainStepKeepsIInv
<1>2. ASSUME NEW e \in Events, Lookup(e) PROVE DrainIInv'
  <2> DEFINE v == IF kind[e] = "malformed" THEN "drop"
                  ELSE IF Finds(e) THEN "apply" ELSE "quarantine"
  <2>1. v \in {"none", "apply", "quarantine", "drop", "doomed"} /\ v # "none"
    OBVIOUS
  <2>2. /\ at[e] = "lookup" /\ at' = [at EXCEPT ![e] = "write"]
        /\ verdict' = [verdict EXCEPT ![e] = v]
        /\ UNCHANGED <<kind, row, application, partner, ledger, decisions,
                       published, aborted>>
    BY <1>2 DEF Lookup, domain
  <2>. HIDE DEF v
  <2>3. row' = [row EXCEPT ![e] = row[e]]
        /\ row[e] \in {"RECEIVED", "PROCESSED", "FAILED"}
    BY <1>0, <2>2 DEF EventTypeOK
  <2>. QED  BY <1>1, <2>1, <2>2, <2>3
<1>3. ASSUME NEW e \in Events, TransactionFails(e) PROVE DrainIInv'
  <2>1. /\ at[e] \in {"lookup", "write", "commit"}
        /\ at' = [at EXCEPT ![e] = "failed"] /\ aborted' = aborted \cup {e}
        /\ UNCHANGED <<kind, row, verdict, application, partner, ledger, decisions,
                       published>>
    BY <1>3 DEF TransactionFails, domain
  <2>2. /\ row' = [row EXCEPT ![e] = row[e]]
        /\ verdict' = [verdict EXCEPT ![e] = verdict[e]]
        /\ row[e] \in {"RECEIVED", "PROCESSED", "FAILED"}
        /\ verdict[e] \in {"none", "apply", "quarantine", "drop", "doomed"}
    BY <1>0, <2>1 DEF EventTypeOK
  <2>. QED  BY <1>1, <2>1, <2>2
<1>4. ASSUME NEW e \in Events, MarkDrained(e) PROVE DrainIInv'
  <2>1. /\ at[e] = "finish" /\ row' = [row EXCEPT ![e] = "PROCESSED"]
        /\ at' = [at EXCEPT ![e] = "over"] /\ verdict' = [verdict EXCEPT ![e] = "none"]
        /\ UNCHANGED <<kind, application, partner, ledger, decisions, published,
                       aborted>>
    BY <1>4 DEF MarkDrained, Ends, domain
  <2>. QED  BY <1>1, <2>1
<1>5. ASSUME NEW e \in Events, MarkFailed(e) PROVE DrainIInv'
  <2>1. /\ at[e] \in {"failed", "finish"} /\ row' = [row EXCEPT ![e] = "FAILED"]
        /\ at' = [at EXCEPT ![e] = "over"] /\ verdict' = [verdict EXCEPT ![e] = "none"]
        /\ UNCHANGED <<kind, application, partner, ledger, decisions, published,
                       aborted>>
    BY <1>5 DEF MarkFailed, Ends, domain
  <2>. QED  BY <1>1, <2>1
<1>6. ASSUME NEW e \in Events, Crash(e) PROVE DrainIInv'
  <2>1. /\ at[e] \notin {"idle", "over"}
        /\ at' = [at EXCEPT ![e] = "over"] /\ verdict' = [verdict EXCEPT ![e] = "none"]
        /\ aborted' = (IF at[e] \in {"lookup", "write", "commit"}
                       THEN aborted \cup {e} ELSE aborted)
        /\ UNCHANGED <<kind, row, application, partner, ledger, decisions, published>>
    BY <1>6 DEF Crash, Ends, domain
  <2>2. /\ row' = [row EXCEPT ![e] = row[e]]
        /\ row[e] \in {"RECEIVED", "QUARANTINED", "PROCESSED", "FAILED"}
    BY <1>0, <2>1 DEF EventTypeOK
  <2>. QED  BY <1>1, <2>1, <2>2
<1>7. CASE UNCHANGED drainVars
  <2>1. UNCHANGED <<kind, row, at, verdict, application, partner, ledger, decisions,
                    published, aborted>>
    BY <1>7 DEF drainVars, domain
  <2>2. LedgerEvents' = LedgerEvents /\ \A k : OfKind(k)' = OfKind(k)
    BY <2>1 DEF LedgerEvents, OfKind
  <2>3. DrainTypeOK'
    BY <1>0, <2>1, <2>2 DEF DrainTypeOK
  <2>4. \A d \in Events : BookingIsSound(d)'
    BY <2>1, <2>2 DEF DrainIInv, BookingIsSound, Booking, KeyOf
  <2>5. StatusIsBackedByItsRecords' /\ LedgerHasOneRowPerKey'
    BY <2>1, <2>2 DEF DrainIInv, StatusIsBackedByItsRecords, LedgerHasOneRowPerKey,
                      KeyOf
  <2>. QED  BY <2>1, <2>3, <2>4, <2>5 DEF DrainIInv
<1>. QED  BY <1>2, <1>3, <1>4, <1>5, <1>6, <1>7, ReceiveDeliveryKeepsDrainIInv,
            WriteKeepsDrainIInv, CommitKeepsDrainIInv DEF DrainNext

(***************************************************************************)
(* The rollups                                                             *)
(***************************************************************************)

RollupJobRec == [state : {"none", "waiting", "active", "done", "failed"},
                 tries : 0 .. RollupTries + 1, stalled : BOOLEAN, of : Periods]
SlotRec == [job : RollupJobs \cup {NoRollupJob}, read : BOOLEAN,
            found : SUBSET LedgerRows, total : SUBSET LedgerRows,
            overlapped : BOOLEAN]
RollupRec == [total : SUBSET LedgerRows, written : BOOLEAN]

(* A job that waits has a try left, or the one a stall gives it.           *)
JobIsSound(j) ==
    /\ j[1] > ticks => rollupJob[j].state = "none" /\ rollupJob[j].tries = 0
    /\ rollupJob[j].state = "waiting" => rollupJob[j].tries <= RollupTries
    /\ rollupJob[j].state \in {"waiting", "active"} /\ ~rollupJob[j].stalled =>
          /\ rollupJob[j].tries <= RollupTries
          /\ rollupJob[j].state = "waiting" => rollupJob[j].tries < RollupTries

PeriodOf(s) == rollupJob[slot[s].job].of

(* A computation that none has run into has found all that is owed.        *)
SlotIsSound(s) ==
    /\ slot[s].job = NoRollupJob => ~slot[s].read
    /\ slot[s].job # NoRollupJob =>
          /\ slot[s].job[1] <= ticks
          /\ slot[s].found \subseteq LedgerOf(PeriodOf(s))
          /\ slot[s].total \subseteq LedgerOf(PeriodOf(s))
          /\ slot[s].read => slot[s].found \subseteq slot[s].total
          /\ ~slot[s].overlapped =>
                /\ owed[PeriodOf(s)] \subseteq slot[s].found
                /\ Computing(PeriodOf(s)) \subseteq {s}

RollupIInv ==
    /\ RollupTypeOK
    /\ \A j \in RollupJobs : JobIsSound(j)
    /\ \A s \in RollupSlots : SlotIsSound(s)
    /\ \A p \in Periods : owed[p] \subseteq LedgerOf(p)
    /\ RollupsAreOfTheLedger

LEMMA RollupBounds ==
    /\ LastDay \in Nat /\ DaysPerMonth \in Nat \ {0} /\ NoDay \notin RollupDays
    /\ NoRollupJob \notin RollupJobs
    /\ RollupTries \in Nat \ {0} /\ MaxTicks \in Nat /\ MaxRollupFaults \in Nat
BY RollupAssumption DEF RollupDays, RollupJobs

LEMMA RollupTypes ==
    RollupTypeOK <=>
        /\ today \in RollupDays
        /\ ledgerDay \in [LedgerRows -> RollupDays \cup {NoDay}]
        /\ ticks \in 0 .. MaxTicks
        /\ rollupJob \in [RollupJobs -> RollupJobRec]
        /\ slot \in [RollupSlots -> SlotRec]
        /\ rollup \in [Periods -> RollupRec]
        /\ rollupFaults \in 0 .. MaxRollupFaults
        /\ owed \in [Periods -> SUBSET LedgerRows]
        /\ raced \subseteq Periods
BY DEF RollupTypeOK, RollupJobRec, SlotRec, RollupRec

LEMMA SlotFreeIsFree ==
    /\ SlotFree \in SlotRec /\ SlotFree.job = NoRollupJob /\ ~SlotFree.read
BY DEF SlotFree, SlotRec

LEMMA JobNumbers ==
    \A j \in RollupJobs : j[1] \in 1 .. MaxTicks
BY DEF RollupJobs

LEMMA RollupInitIInv == RollupInit => RollupIInv
<1>. SUFFICES ASSUME RollupInit PROVE RollupIInv
  OBVIOUS
<1>1. 0 \in RollupDays /\ Daily(0) \in Periods
  BY RollupBounds DEF RollupDays, Periods
<1>2. NoRollup \in RollupRec /\ NoRollup.total = {}
  BY DEF NoRollup, RollupRec
<1>3. [state |-> "none", tries |-> 0, stalled |-> FALSE, of |-> Daily(0)] \in RollupJobRec
  BY <1>1, RollupBounds DEF RollupJobRec
<1>4. RollupTypeOK
  <2>1. /\ today \in RollupDays /\ ticks \in 0 .. MaxTicks
        /\ rollupFaults \in 0 .. MaxRollupFaults /\ raced \subseteq Periods
    BY <1>1, RollupBounds DEF RollupInit
  <2>2. /\ ledgerDay \in [LedgerRows -> RollupDays \cup {NoDay}]
        /\ owed \in [Periods -> SUBSET LedgerRows]
    BY DEF RollupInit
  <2>3. /\ rollupJob \in [RollupJobs -> RollupJobRec]
        /\ slot \in [RollupSlots -> SlotRec] /\ rollup \in [Periods -> RollupRec]
    BY <1>2, <1>3, SlotFreeIsFree DEF RollupInit
  <2>. QED  BY <2>1, <2>2, <2>3, RollupTypes
<1>5. \A j \in RollupJobs : JobIsSound(j)
  BY DEF RollupInit, JobIsSound
<1>6. \A s \in RollupSlots : SlotIsSound(s)
  BY SlotFreeIsFree DEF RollupInit, SlotIsSound
<1>7. \A p \in Periods : owed[p] = {} /\ rollup[p].total = {}
  BY <1>2 DEF RollupInit
<1>. QED  BY <1>4, <1>5, <1>6, <1>7 DEF RollupIInv, RollupsAreOfTheLedger

(* Slots that give their jobs up, and jobs that change their state         *)
LEMMA GivingUpKeepsRollupIInv ==
    ASSUME RollupIInv, RollupTypeOK', UNCHANGED <<ledgerDay, ticks, rollup, owed, raced>>,
           \A j \in RollupJobs : rollupJob'[j].of = rollupJob[j].of,
           \A j \in RollupJobs : JobIsSound(j)',
           \A s \in RollupSlots : slot'[s] \in {slot[s], SlotFree}
    PROVE  RollupIInv'
<1>1. \A p : LedgerOf(p)' = LedgerOf(p)
  BY DEF LedgerOf, Recorded
<1>2. \A s \in RollupSlots : slot[s] \in SlotRec
  BY RollupTypes DEF RollupIInv
<1>3. ASSUME NEW s \in RollupSlots, slot'[s].job # NoRollupJob
      PROVE  slot'[s] = slot[s] /\ PeriodOf(s)' = PeriodOf(s) /\ slot[s].job \in RollupJobs
  BY <1>2, <1>3, SlotFreeIsFree DEF PeriodOf, SlotRec
<1>4. \A p : Computing(p)' \subseteq Computing(p)
  BY <1>3 DEF Computing, PeriodOf
<1>5. ASSUME NEW s \in RollupSlots PROVE SlotIsSound(s)'
  <2>1. SlotIsSound(s)
    BY DEF RollupIInv
  <2>2. CASE slot'[s].job = NoRollupJob
    BY <2>1, <2>2, SlotFreeIsFree DEF SlotIsSound
  <2>3. CASE slot'[s].job # NoRollupJob
    <3>1. slot'[s] = slot[s] /\ PeriodOf(s)' = PeriodOf(s)
      BY <1>3, <2>3
    <3>2. Computing(PeriodOf(s))' \subseteq Computing(PeriodOf(s))
      BY <1>4, <3>1
    <3>. QED  BY <1>1, <2>1, <2>3, <3>1, <3>2 DEF SlotIsSound
  <2>. QED  BY <2>2, <2>3
<1>6. RollupsAreOfTheLedger' /\ \A p \in Periods : owed'[p] \subseteq LedgerOf(p)'
  BY <1>1 DEF RollupIInv, RollupsAreOfTheLedger
<1>. QED  BY <1>5, <1>6 DEF RollupIInv

LEMMA JobEndsSoundly ==
    ASSUME RollupIInv, NEW j \in RollupJobs,
           NEW e \in {"waiting", "done", "failed"},
           e = "waiting" => rollupJob[j].tries < RollupTries,
           rollupJob' = JobEnds(j, e), UNCHANGED ticks
    PROVE  /\ rollupJob' \in [RollupJobs -> RollupJobRec]
           /\ \A k \in RollupJobs : rollupJob'[k].of = rollupJob[k].of
           /\ \A k \in RollupJobs : JobIsSound(k)'
<1>0. rollupJob \in [RollupJobs -> RollupJobRec]
  BY RollupTypes DEF RollupIInv
<1>1. CASE rollupJob[j].state # "active"
  <2>1. rollupJob' = rollupJob
    BY <1>1 DEF JobEnds
  <2>. QED  BY <1>0, <2>1 DEF RollupIInv, JobIsSound
<1>2. CASE rollupJob[j].state = "active"
  <2> DEFINE x == [rollupJob[j] EXCEPT !.state = e]
  <2>1. /\ x \in RollupJobRec /\ x.state = e /\ x.of = rollupJob[j].of
        /\ x.tries = rollupJob[j].tries /\ x.stalled = rollupJob[j].stalled
    BY <1>0 DEF RollupJobRec
  <2>2. rollupJob' = [rollupJob EXCEPT ![j] = x]
    BY <1>0, <1>2 DEF JobEnds, RollupJobRec
  <2>. HIDE DEF x
  <2>3. /\ rollupJob' \in [RollupJobs -> RollupJobRec] /\ rollupJob'[j] = x
        /\ \A k \in RollupJobs \ {j} : rollupJob'[k] = rollupJob[k]
    BY <1>0, <2>1, <2>2
  <2>4. JobIsSound(j)'
    <3>1. JobIsSound(j) /\ rollupJob[j].tries \in Nat /\ ~(j[1] > ticks)
      BY <1>0, <1>2 DEF RollupIInv, JobIsSound, RollupJobRec
    <3>2. x.state = "waiting" => x.tries < RollupTries
      BY <2>1
    <3>. QED  BY <2>1, <2>3, <3>1, <3>2, RollupBounds DEF JobIsSound
  <2>5. \A k \in RollupJobs \ {j} : JobIsSound(k)'
    BY <2>3 DEF RollupIInv, JobIsSound
  <2>. QED  BY <2>1, <2>3, <2>4, <2>5
<1>. QED  BY <1>1, <1>2

LEMMA RecordRowKeepsRollupIInv ==
    ASSUME RollupIInv, NEW r \in LedgerRows, RecordRow(r)
    PROVE  RollupIInv'
<1>0. RollupTypeOK
  BY DEF RollupIInv
<1>1. PICK d \in 0 .. today : ledgerDay' = [ledgerDay EXCEPT ![r] = d]
  BY DEF RecordRow
<1>2. /\ ledgerDay[r] = NoDay
      /\ UNCHANGED <<today, ticks, rollupJob, slot, rollup, rollupFaults, owed, raced>>
  BY DEF RecordRow, Recorded
<1>3. d \in RollupDays
  BY <1>0, RollupBounds DEF RollupTypeOK, RollupDays
<1>4. RollupTypeOK'
  <2>1. ledgerDay' \in [LedgerRows -> RollupDays \cup {NoDay}]
    BY <1>0, <1>1, <1>3, RollupTypes
  <2>. QED  BY <1>0, <1>2, <2>1 DEF RollupTypeOK
<1>5. \A p : LedgerOf(p) \subseteq LedgerOf(p)'
  <2>1. \A q \in LedgerRows : ledgerDay[q] # NoDay => ledgerDay'[q] = ledgerDay[q]
    BY <1>0, <1>1, <1>2, RollupTypes
  <2>. QED  BY <2>1 DEF LedgerOf, Recorded, Within
<1>6. \A p : Computing(p)' = Computing(p)
  BY <1>2 DEF Computing
<1>7. \A s \in RollupSlots : PeriodOf(s)' = PeriodOf(s)
  BY <1>2 DEF PeriodOf
<1>8. ASSUME NEW s \in RollupSlots PROVE SlotIsSound(s)'
  <2>1. SlotIsSound(s)
    BY DEF RollupIInv
  <2>2. /\ PeriodOf(s)' = PeriodOf(s) /\ LedgerOf(PeriodOf(s)) \subseteq LedgerOf(PeriodOf(s))'
        /\ Computing(PeriodOf(s))' = Computing(PeriodOf(s))
    BY <1>5, <1>6, <1>7
  <2>. QED  BY <1>2, <2>1, <2>2 DEF SlotIsSound
<1>9. \A j \in RollupJobs : JobIsSound(j)'
  BY <1>2 DEF RollupIInv, JobIsSound
<1>10. RollupsAreOfTheLedger' /\ \A p \in Periods : owed'[p] \subseteq LedgerOf(p)'
  <2>1. ASSUME NEW p \in Periods
        PROVE  /\ rollup[p].total \subseteq LedgerOf(p)'
               /\ p \notin raced => owed[p] \subseteq rollup[p].total
               /\ owed[p] \subseteq LedgerOf(p)'
    BY <1>5 DEF RollupIInv, RollupsAreOfTheLedger
  <2>. QED  BY <1>2, <2>1 DEF RollupsAreOfTheLedger
<1>. QED  BY <1>4, <1>8, <1>9, <1>10 DEF RollupIInv

LEMMA SchedulerRunsKeepsRollupIInv ==
    ASSUME RollupIInv, SchedulerRuns
    PROVE  RollupIInv'
<1>0. /\ RollupTypeOK /\ rollupJob \in [RollupJobs -> RollupJobRec]
      /\ today \in Nat /\ today <= LastDay /\ ticks \in Nat
      /\ rollupFaults \in 0 .. MaxRollupFaults
  BY RollupTypes, RollupBounds DEF RollupIInv, RollupDays
<1>1. PICK added \in {{"DAILY"}, {"DAILY", "MONTHLY"}} :
         /\ rollupFaults' = rollupFaults + 2 - Cardinality(added)
         /\ rollupJob' =
               [j \in RollupJobs |->
                   IF j[1] = ticks + 1 /\ j[2] \in added
                   THEN [rollupJob[j] EXCEPT !.state = "waiting", !.of = Asked(j[2])]
                   ELSE rollupJob[j]]
  BY DEF SchedulerRuns
<1>2. /\ ticks < MaxTicks /\ today > 0 /\ ticks' = ticks + 1
      /\ rollupFaults' <= MaxRollupFaults
      /\ UNCHANGED <<today, ledgerDay, slot, rollup, owed, raced>>
  BY DEF SchedulerRuns
<1>3. rollupFaults' \in 0 .. MaxRollupFaults
  <2>1. Cardinality({"DAILY"}) = 1
    BY FS_Singleton
  <2>2. Cardinality({"DAILY", "MONTHLY"}) = 2
    <3>1. IsFiniteSet({"DAILY"}) /\ "MONTHLY" \notin {"DAILY"}
      BY FS_Singleton
    <3>2. Cardinality({"DAILY"} \cup {"MONTHLY"}) = Cardinality({"DAILY"}) + 1
      BY <3>1, FS_AddElement
    <3>3. {"DAILY"} \cup {"MONTHLY"} = {"DAILY", "MONTHLY"}
      OBVIOUS
    <3>. QED  BY <2>1, <3>2, <3>3
  <2>3. Cardinality(added) = 1 \/ Cardinality(added) = 2
    BY <2>1, <2>2
  <2>4. rollupFaults' = rollupFaults + 2 - 1 \/ rollupFaults' = rollupFaults + 2 - 2
    BY <1>1, <2>3
  <2>. QED  BY <1>0, <1>2, <2>4, RollupBounds
<1>4. \A w : Asked(w) \in Periods
  <2>1. today \in RollupDays /\ today - 1 \in RollupDays
    BY <1>0, <1>2, RollupBounds DEF RollupDays
  <2>. QED  BY <2>1 DEF Asked, Periods
<1>5. ASSUME NEW j \in RollupJobs
      PROVE  /\ rollupJob'[j] \in RollupJobRec /\ JobIsSound(j)'
             /\ j[1] <= ticks => rollupJob'[j] = rollupJob[j]
  <2>1. j[1] \in Nat /\ JobIsSound(j) /\ rollupJob[j] \in RollupJobRec
    BY <1>0, JobNumbers DEF RollupIInv
  <2>2. CASE j[1] = ticks + 1 /\ j[2] \in added
    <3> DEFINE x == [rollupJob[j] EXCEPT !.state = "waiting", !.of = Asked(j[2])]
    <3>1. x \in RollupJobRec /\ x.state = "waiting" /\ x.tries = rollupJob[j].tries
      BY <1>4, <2>1 DEF RollupJobRec
    <3>2. rollupJob'[j] = x
      BY <1>1, <2>2
    <3>. HIDE DEF x
    <3>3. x.tries = 0
      BY <1>0, <2>1, <2>2, <3>1 DEF JobIsSound
    <3>4. JobIsSound(j)'
      BY <1>0, <1>2, <2>2, <3>1, <3>2, <3>3, RollupBounds DEF JobIsSound
    <3>. QED  BY <1>0, <2>2, <3>1, <3>2, <3>4
  <2>3. CASE ~(j[1] = ticks + 1 /\ j[2] \in added)
    <3>1. rollupJob'[j] = rollupJob[j]
      BY <1>1, <2>3
    <3>. QED  BY <1>0, <1>2, <2>1, <3>1 DEF JobIsSound
  <2>. QED  BY <2>2, <2>3
<1>6. RollupTypeOK'
  <2>1. rollupJob' = [j \in RollupJobs |-> rollupJob'[j]]
    BY <1>1
  <2>2. rollupJob' \in [RollupJobs -> RollupJobRec]
    BY <1>5, <2>1
  <2>. QED  BY <1>0, <1>2, <1>3, <2>2, RollupBounds DEF RollupTypeOK, RollupJobRec
<1>7. ASSUME NEW s \in RollupSlots, slot[s].job # NoRollupJob
      PROVE  PeriodOf(s)' = PeriodOf(s)
  <2>1. slot[s].job[1] <= ticks /\ slot[s].job \in RollupJobs
    BY <1>0, <1>7, RollupTypes DEF RollupIInv, SlotIsSound, SlotRec
  <2>2. rollupJob'[slot[s].job] = rollupJob[slot[s].job]
    BY <1>5, <2>1
  <2>. QED  BY <1>2, <2>2 DEF PeriodOf
<1>8. \A p : Computing(p)' = Computing(p)
  BY <1>2, <1>7 DEF Computing, PeriodOf
<1>9. ASSUME NEW s \in RollupSlots PROVE SlotIsSound(s)'
  <2>1. SlotIsSound(s) /\ slot[s].job # NoRollupJob => slot[s].job \in RollupJobs
    BY <1>0, RollupTypes DEF RollupIInv, SlotRec
  <2>2. CASE slot[s].job = NoRollupJob
    BY <1>2, <2>1, <2>2 DEF RollupIInv, SlotIsSound
  <2>3. CASE slot[s].job # NoRollupJob
    <3>1. /\ PeriodOf(s)' = PeriodOf(s) /\ LedgerOf(PeriodOf(s))' = LedgerOf(PeriodOf(s))
          /\ Computing(PeriodOf(s))' = Computing(PeriodOf(s))
      BY <1>2, <1>7, <1>8, <2>3 DEF LedgerOf, Recorded
    <3>2. SlotIsSound(s) /\ slot[s].job[1] \in Nat
      BY <2>1, <2>3, JobNumbers DEF RollupIInv
    <3>. QED  BY <1>0, <1>2, <2>3, <3>1, <3>2 DEF SlotIsSound
  <2>. QED  BY <2>2, <2>3
<1>10. RollupsAreOfTheLedger' /\ \A p \in Periods : owed'[p] \subseteq LedgerOf(p)'
  BY <1>2 DEF RollupIInv, RollupsAreOfTheLedger, LedgerOf, Recorded
<1>. QED  BY <1>5, <1>6, <1>9, <1>10 DEF RollupIInv

(* Whoever computes the period already has been run into.                  *)
LEMMA BeginKeepsRollupIInv ==
    ASSUME RollupIInv, NEW s \in RollupSlots, NEW j \in RollupJobs, BeginRollup(s, j)
    PROVE  RollupIInv'
<1> DEFINE x == [rollupJob[j] EXCEPT !.state = "active", !.tries = rollupJob[j].tries + 1]
<1>0. /\ RollupTypeOK /\ rollupJob \in [RollupJobs -> RollupJobRec]
      /\ slot \in [RollupSlots -> SlotRec] /\ rollupJob[j] \in RollupJobRec
      /\ j # NoRollupJob /\ j[1] \in Nat /\ ticks \in Nat
  BY RollupTypes, RollupBounds, JobNumbers DEF RollupIInv
<1>1. /\ slot[s] = SlotFree /\ rollupJob[j].state = "waiting"
      /\ rollupJob' = [rollupJob EXCEPT ![j] = x]
      /\ UNCHANGED <<today, ledgerDay, ticks, rollup, rollupFaults, owed, raced>>
  BY <1>0 DEF BeginRollup, RollupJobRec
<1>p. PICK p \in Periods : p = rollupJob[j].of
  BY <1>0 DEF RollupJobRec
<1>2. /\ JobIsSound(j) /\ rollupJob[j].tries <= RollupTries /\ j[1] <= ticks
      /\ rollupJob[j].tries + 1 \in 0 .. RollupTries + 1
  BY <1>0, <1>1, RollupBounds DEF RollupIInv, JobIsSound, RollupJobRec
<1>3. /\ x \in RollupJobRec /\ x.state = "active" /\ x.of = p
      /\ x.tries = rollupJob[j].tries + 1 /\ x.stalled = rollupJob[j].stalled
  BY <1>0, <1>2, <1>p DEF RollupJobRec
<1>. HIDE DEF x
<1>4. /\ rollupJob' \in [RollupJobs -> RollupJobRec] /\ rollupJob'[j] = x
      /\ \A k \in RollupJobs \ {j} : rollupJob'[k] = rollupJob[k]
      /\ \A k \in RollupJobs : rollupJob'[k].of = rollupJob[k].of
  BY <1>0, <1>1, <1>3, <1>p
<1>5. ASSUME NEW k \in RollupJobs PROVE JobIsSound(k)'
  <2>1. CASE k = j
    <3>1. ~x.stalled => x.tries <= RollupTries
      BY <1>0, <1>1, <1>2, <1>3, RollupBounds DEF JobIsSound, RollupJobRec
    <3>. QED  BY <1>0, <1>1, <1>2, <1>3, <1>4, <2>1, <3>1 DEF JobIsSound
  <2>2. CASE k # j
    BY <1>1, <1>4, <2>2 DEF RollupIInv, JobIsSound
  <2>. QED  BY <2>1, <2>2
<1>6. slot' = [y \in RollupSlots |->
                 IF y = s
                 THEN [SlotFree EXCEPT !.job = j, !.found = LedgerOf(p),
                                       !.overlapped = Computing(p) # {}]
                 ELSE IF y \in Computing(p)
                 THEN [slot[y] EXCEPT !.overlapped = TRUE] ELSE slot[y]]
  BY <1>p DEF BeginRollup
<1>7. /\ slot'[s] \in SlotRec /\ slot'[s].job = j /\ slot'[s].found = LedgerOf(p)
      /\ slot'[s].total = {} /\ ~slot'[s].read
      /\ slot'[s].overlapped <=> Computing(p) # {}
  <2>1. LedgerOf(p) \in SUBSET LedgerRows
    BY DEF LedgerOf, Recorded
  <2> DEFINE b == Computing(p) # {}
  <2>2. slot'[s] = [job |-> j, read |-> FALSE, found |-> LedgerOf(p), total |-> {},
                    overlapped |-> b]
    BY <1>6 DEF SlotFree
  <2>3. b \in BOOLEAN
    OBVIOUS
  <2>. HIDE DEF b
  <2>4. slot'[s] \in SlotRec
    BY <2>1, <2>2, <2>3 DEF SlotRec
  <2>5. /\ slot'[s].job = j /\ slot'[s].found = LedgerOf(p) /\ slot'[s].total = {}
        /\ ~slot'[s].read /\ slot'[s].overlapped = b
    BY <2>2
  <2>. QED  BY <2>4, <2>5 DEF b
<1>8. ASSUME NEW y \in RollupSlots \ {s}
      PROVE  /\ slot'[y] \in SlotRec /\ slot'[y].job = slot[y].job
             /\ slot'[y].found = slot[y].found /\ slot'[y].total = slot[y].total
             /\ slot'[y].read = slot[y].read
             /\ ~slot'[y].overlapped => ~slot[y].overlapped /\ y \notin Computing(p)
  <2>1. slot'[y] = IF y \in Computing(p)
                   THEN [slot[y] EXCEPT !.overlapped = TRUE] ELSE slot[y]
    BY <1>6
  <2>2. slot[y] \in SlotRec
    BY <1>0
  <2>. QED  BY <2>1, <2>2 DEF SlotRec
<1>9. RollupTypeOK'
  <2>1. slot' \in [RollupSlots -> SlotRec]
    <3>1. slot' = [y \in RollupSlots |-> slot'[y]]
      BY <1>6
    <3>. QED  BY <1>7, <1>8, <3>1
  <2>. QED  BY <1>0, <1>1, <1>4, <2>1 DEF RollupTypeOK, RollupJobRec, SlotRec
<1>10. /\ PeriodOf(s)' = p
       /\ \A y \in RollupSlots \ {s} : slot[y].job # NoRollupJob =>
             PeriodOf(y)' = PeriodOf(y)
  BY <1>0, <1>3, <1>4, <1>7, <1>8, <1>p DEF PeriodOf, SlotRec
<1>11. /\ \A q : Computing(q)' \subseteq Computing(q) \cup {s}
       /\ \A q : q # p => s \notin Computing(q)'
  BY <1>0, <1>8, <1>10 DEF Computing, PeriodOf
<1>12. \A q : LedgerOf(q)' = LedgerOf(q)
  BY <1>1 DEF LedgerOf, Recorded
<1>13. ASSUME NEW y \in RollupSlots PROVE SlotIsSound(y)'
  <2>1. CASE y = s
    <3>1. owed[p] \subseteq LedgerOf(p)
      BY <1>2 DEF RollupIInv
    <3>2. ~slot'[s].overlapped => Computing(p)' \subseteq {s}
      BY <1>7, <1>11
    <3>. QED  BY <1>0, <1>1, <1>2, <1>7, <1>10, <1>12, <2>1, <3>1, <3>2 DEF SlotIsSound
  <2>2. CASE y # s
    <3>1. SlotIsSound(y)
      BY DEF RollupIInv
    <3>2. CASE slot[y].job = NoRollupJob
      BY <1>8, <2>2, <3>1, <3>2 DEF SlotIsSound
    <3>3. CASE slot[y].job # NoRollupJob
      <4>1. PeriodOf(y)' = PeriodOf(y)
        BY <1>10, <2>2, <3>3
      <4>2. ~slot'[y].overlapped => Computing(PeriodOf(y))' \subseteq {y}
        <5>. SUFFICES ASSUME ~slot'[y].overlapped
                      PROVE  Computing(PeriodOf(y))' \subseteq {y}
          OBVIOUS
        <5>1. y \notin Computing(p) /\ ~slot[y].overlapped
          BY <1>8, <2>2
        <5>2. PeriodOf(y) # p
          BY <3>3, <5>1 DEF Computing, PeriodOf
        <5>3. Computing(PeriodOf(y)) \subseteq {y}
          BY <3>1, <3>3, <5>1 DEF SlotIsSound
        <5>. QED  BY <1>11, <4>1, <5>2, <5>3
      <4>3. ~slot'[y].overlapped => owed[PeriodOf(y)] \subseteq slot[y].found
        BY <1>8, <2>2, <3>1, <3>3 DEF SlotIsSound
      <4>. QED  BY <1>1, <1>8, <1>12, <2>2, <3>1, <3>3, <4>1, <4>2, <4>3 DEF SlotIsSound
    <3>. QED  BY <3>2, <3>3
  <2>. QED  BY <2>1, <2>2
<1>14. RollupsAreOfTheLedger' /\ \A q \in Periods : owed'[q] \subseteq LedgerOf(q)'
  BY <1>1, <1>12 DEF RollupIInv, RollupsAreOfTheLedger
<1>. QED  BY <1>5, <1>9, <1>13, <1>14 DEF RollupIInv

LEMMA ReadLedgerKeepsRollupIInv ==
    ASSUME RollupIInv, NEW s \in RollupSlots, ReadLedger(s)
    PROVE  RollupIInv'
<1> DEFINE x == [slot[s] EXCEPT !.read = TRUE, !.total = LedgerOf(PeriodOf(s))]
<1>0. RollupTypeOK /\ slot \in [RollupSlots -> SlotRec] /\ slot[s] \in SlotRec
  BY RollupTypes DEF RollupIInv
<1>1. /\ slot[s].job # NoRollupJob /\ slot' = [slot EXCEPT ![s] = x]
      /\ UNCHANGED <<today, ledgerDay, ticks, rollupJob, rollup, rollupFaults, owed,
                     raced>>
  BY <1>0 DEF ReadLedger, SlotRec, PeriodOf
<1>2. /\ x \in SlotRec /\ x.job = slot[s].job /\ x.found = slot[s].found
      /\ x.total = LedgerOf(PeriodOf(s)) /\ x.overlapped = slot[s].overlapped
  <2>1. LedgerOf(PeriodOf(s)) \in SUBSET LedgerRows
    BY DEF LedgerOf, Recorded
  <2>. QED  BY <1>0, <2>1 DEF SlotRec
<1>. HIDE DEF x
<1>3. /\ slot' \in [RollupSlots -> SlotRec] /\ slot'[s] = x
      /\ \A y \in RollupSlots \ {s} : slot'[y] = slot[y]
      /\ \A y \in RollupSlots : slot'[y].job = slot[y].job
  BY <1>0, <1>1, <1>2
<1>4. RollupTypeOK'
  BY <1>0, <1>1, <1>3 DEF RollupTypeOK, SlotRec
<1>5. /\ \A q : LedgerOf(q)' = LedgerOf(q)
      /\ \A y \in RollupSlots : PeriodOf(y)' = PeriodOf(y)
      /\ \A q : Computing(q)' = Computing(q)
  BY <1>1, <1>3 DEF LedgerOf, Recorded, PeriodOf, Computing
<1>6. ASSUME NEW y \in RollupSlots PROVE SlotIsSound(y)'
  <2>1. /\ SlotIsSound(y) /\ PeriodOf(y)' = PeriodOf(y)
        /\ LedgerOf(PeriodOf(y))' = LedgerOf(PeriodOf(y))
        /\ Computing(PeriodOf(y))' = Computing(PeriodOf(y))
    BY <1>5 DEF RollupIInv
  <2>2. CASE y = s
    BY <1>1, <1>2, <1>3, <2>1, <2>2 DEF SlotIsSound
  <2>3. CASE y # s
    BY <1>1, <1>3, <2>1, <2>3 DEF SlotIsSound
  <2>. QED  BY <2>2, <2>3
<1>7. \A j \in RollupJobs : JobIsSound(j)'
  BY <1>1 DEF RollupIInv, JobIsSound
<1>8. RollupsAreOfTheLedger' /\ \A q \in Periods : owed'[q] \subseteq LedgerOf(q)'
  BY <1>1, <1>5 DEF RollupIInv, RollupsAreOfTheLedger
<1>. QED  BY <1>4, <1>6, <1>7, <1>8 DEF RollupIInv

LEMMA UpsertKeepsRollupIInv ==
    ASSUME RollupIInv, NEW s \in RollupSlots, UpsertRollup(s)
    PROVE  RollupIInv'
<1>0. /\ RollupTypeOK /\ slot \in [RollupSlots -> SlotRec] /\ slot[s] \in SlotRec
      /\ rollupJob \in [RollupJobs -> RollupJobRec]
      /\ rollup \in [Periods -> RollupRec] /\ owed \in [Periods -> SUBSET LedgerRows]
      /\ raced \subseteq Periods
  BY RollupTypes DEF RollupIInv
<1>1. /\ slot[s].read /\ slot[s].job \in RollupJobs /\ slot[s].job # NoRollupJob
      /\ SlotIsSound(s)
  BY <1>0 DEF RollupIInv, UpsertRollup, SlotIsSound, SlotRec
<1>p. PICK p \in Periods : p = PeriodOf(s)
  BY <1>0, <1>1 DEF PeriodOf, RollupJobRec
<1>2. /\ rollup' = [rollup EXCEPT ![p] = [total |-> slot[s].total, written |-> TRUE]]
      /\ owed' = [owed EXCEPT ![p] = owed[p] \cup slot[s].found]
      /\ raced' = IF slot[s].overlapped THEN raced \cup {p} ELSE raced \ {p}
      /\ rollupJob' = JobEnds(slot[s].job, "done")
      /\ slot' = [slot EXCEPT ![s] = SlotFree]
      /\ UNCHANGED <<today, ledgerDay, ticks, rollupFaults>>
  BY <1>0, <1>p DEF UpsertRollup, PeriodOf
<1>3. /\ slot[s].total \subseteq LedgerOf(p) /\ slot[s].found \subseteq slot[s].total
      /\ slot[s].total \subseteq LedgerRows /\ slot[s].found \subseteq LedgerRows
      /\ ~slot[s].overlapped => owed[p] \subseteq slot[s].found
                                /\ Computing(p) \subseteq {s}
  BY <1>0, <1>1, <1>p DEF SlotIsSound, SlotRec
<1>4. /\ rollupJob' \in [RollupJobs -> RollupJobRec]
      /\ \A k \in RollupJobs : rollupJob'[k].of = rollupJob[k].of
      /\ \A k \in RollupJobs : JobIsSound(k)'
  BY <1>1, <1>2, JobEndsSoundly
<1>5. /\ slot' \in [RollupSlots -> SlotRec] /\ slot'[s] = SlotFree
      /\ \A y \in RollupSlots \ {s} : slot'[y] = slot[y]
  BY <1>0, <1>2, SlotFreeIsFree
<1>6. /\ rollup' \in [Periods -> RollupRec] /\ owed' \in [Periods -> SUBSET LedgerRows]
      /\ rollup'[p].total = slot[s].total /\ owed'[p] = owed[p] \cup slot[s].found
      /\ \A q \in Periods \ {p} : rollup'[q] = rollup[q] /\ owed'[q] = owed[q]
      /\ raced' \subseteq Periods
  BY <1>0, <1>2, <1>3 DEF RollupRec
<1>7. RollupTypeOK'
  BY <1>0, <1>2, <1>4, <1>5, <1>6 DEF RollupTypeOK, RollupJobRec, SlotRec, RollupRec
<1>8. ASSUME NEW y \in RollupSlots, slot'[y].job # NoRollupJob
      PROVE  y # s /\ slot'[y] = slot[y] /\ PeriodOf(y)' = PeriodOf(y)
  BY <1>0, <1>4, <1>5, <1>8, SlotFreeIsFree DEF PeriodOf, SlotRec
<1>9. \A q : LedgerOf(q)' = LedgerOf(q) /\ Computing(q)' \subseteq Computing(q)
  BY <1>2, <1>8 DEF LedgerOf, Recorded, Computing, PeriodOf
<1>10. ASSUME NEW y \in RollupSlots PROVE SlotIsSound(y)'
  <2>1. SlotIsSound(y)
    BY DEF RollupIInv
  <2>2. CASE slot'[y].job = NoRollupJob
    BY <1>5, <2>1, <2>2, SlotFreeIsFree DEF SlotIsSound
  <2>3. CASE slot'[y].job # NoRollupJob
    <3>1. y # s /\ slot'[y] = slot[y] /\ PeriodOf(y)' = PeriodOf(y)
      BY <1>8, <2>3
    <3>2. LedgerOf(PeriodOf(y))' = LedgerOf(PeriodOf(y))
          /\ Computing(PeriodOf(y))' \subseteq Computing(PeriodOf(y))
      BY <1>9, <3>1
    <3>3. ~slot[y].overlapped => owed'[PeriodOf(y)] \subseteq slot[y].found
      <4>1. PeriodOf(y) \in Periods
        BY <1>0, <2>3, <3>1 DEF PeriodOf, SlotRec, RollupJobRec
      <4>2. CASE PeriodOf(y) = p
        <5>1. s \in Computing(PeriodOf(y))
          BY <1>1, <1>p, <4>2 DEF Computing, PeriodOf
        <5>. QED  BY <2>1, <2>3, <3>1, <5>1 DEF SlotIsSound
      <4>3. CASE PeriodOf(y) # p
        BY <1>6, <2>1, <2>3, <3>1, <4>1, <4>3 DEF SlotIsSound
      <4>. QED  BY <4>2, <4>3
    <3>. QED  BY <1>2, <2>1, <2>3, <3>1, <3>2, <3>3 DEF SlotIsSound
  <2>. QED  BY <2>2, <2>3
<1>11. ASSUME NEW q \in Periods
       PROVE  /\ rollup'[q].total \subseteq LedgerOf(q)
              /\ q \notin raced' => owed'[q] \subseteq rollup'[q].total
              /\ owed'[q] \subseteq LedgerOf(q)
  <2>1. /\ rollup[q].total \subseteq LedgerOf(q) /\ owed[q] \subseteq LedgerOf(q)
        /\ q \notin raced => owed[q] \subseteq rollup[q].total
    BY DEF RollupIInv, RollupsAreOfTheLedger
  <2>2. CASE q = p
    BY <1>2, <1>3, <1>6, <2>1, <2>2
  <2>3. CASE q # p
    BY <1>2, <1>6, <2>1, <2>3
  <2>. QED  BY <2>2, <2>3
<1>12. RollupsAreOfTheLedger' /\ \A q \in Periods : owed'[q] \subseteq LedgerOf(q)'
  BY <1>9, <1>11 DEF RollupsAreOfTheLedger
<1>. QED  BY <1>4, <1>7, <1>10, <1>12 DEF RollupIInv

LEMMA RollupStepKeepsIInv == RollupIInv /\ [RollupNext]_rollupVars => RollupIInv'
<1>. SUFFICES ASSUME RollupIInv, [RollupNext]_rollupVars PROVE RollupIInv'
  OBVIOUS
<1>0. /\ RollupTypeOK /\ slot \in [RollupSlots -> SlotRec]
      /\ rollupJob \in [RollupJobs -> RollupJobRec]
      /\ rollupFaults \in 0 .. MaxRollupFaults
  BY RollupTypes DEF RollupIInv
<1>1. CASE Midnight
  <2>1. /\ today' \in RollupDays
        /\ UNCHANGED <<ledgerDay, ticks, rollupJob, slot, rollup, rollupFaults, owed,
                       raced>>
    BY <1>0, <1>1, RollupBounds DEF Midnight, RollupTypeOK, RollupDays
  <2>2. RollupTypeOK'
    BY <1>0, <2>1 DEF RollupTypeOK
  <2>3. \A j \in RollupJobs : JobIsSound(j)'
    BY <2>1 DEF RollupIInv, JobIsSound
  <2>. QED  BY <2>1, <2>2, <2>3, GivingUpKeepsRollupIInv
<1>2. ASSUME NEW s \in RollupSlots, RollupFails(s) PROVE RollupIInv'
  <2>1. /\ slot[s].job # NoRollupJob /\ slot[s].job \in RollupJobs
        /\ slot' = [slot EXCEPT ![s] = SlotFree]
        /\ UNCHANGED <<today, ledgerDay, ticks, rollup, owed, raced>>
    BY <1>0, <1>2 DEF RollupFails, SlotRec
  <2>2. rollupFaults' \in 0 .. MaxRollupFaults
    BY <1>0, <1>2, RollupBounds DEF RollupFails
  <2>3. /\ rollupJob' \in [RollupJobs -> RollupJobRec]
        /\ \A k \in RollupJobs : rollupJob'[k].of = rollupJob[k].of
        /\ \A k \in RollupJobs : JobIsSound(k)'
    <3> DEFINE e == IF rollupJob[slot[s].job].tries < RollupTries
                    THEN "waiting" ELSE "failed"
    <3>1. rollupJob' = JobEnds(slot[s].job, e)
      BY <1>2 DEF RollupFails
    <3>2. /\ e \in {"waiting", "done", "failed"}
          /\ e = "waiting" => rollupJob[slot[s].job].tries < RollupTries
      OBVIOUS
    <3>. HIDE DEF e
    <3>. QED  BY <2>1, <3>1, <3>2, JobEndsSoundly
  <2>4. slot' \in [RollupSlots -> SlotRec]
        /\ \A y \in RollupSlots : slot'[y] \in {slot[y], SlotFree}
    BY <1>0, <2>1, SlotFreeIsFree
  <2>5. RollupTypeOK'
    BY <1>0, <2>1, <2>2, <2>3, <2>4 DEF RollupTypeOK, RollupJobRec, SlotRec
  <2>. QED  BY <2>1, <2>3, <2>4, <2>5, GivingUpKeepsRollupIInv
<1>3. ASSUME NEW j \in RollupJobs, RollupStalls(j) PROVE RollupIInv'
  <2> DEFINE e == IF rollupJob[j].stalled THEN "failed" ELSE "waiting"
             x == [rollupJob[j] EXCEPT !.state = e, !.stalled = TRUE]
  <2>1. /\ rollupJob[j].state = "active" /\ rollupJob' = [rollupJob EXCEPT ![j] = x]
        /\ UNCHANGED <<today, ledgerDay, ticks, rollup, owed, raced>>
    BY <1>0, <1>3 DEF RollupStalls, RollupJobRec
  <2>2. rollupFaults' \in 0 .. MaxRollupFaults
    BY <1>0, <1>3, RollupBounds DEF RollupStalls
  <2>3. /\ e \in {"failed", "waiting"} /\ (e = "waiting" => ~rollupJob[j].stalled)
    OBVIOUS
  <2>. HIDE DEF e
  <2>4. /\ x \in RollupJobRec /\ x.state = e /\ x.stalled /\ x.of = rollupJob[j].of
        /\ x.tries = rollupJob[j].tries
    BY <1>0, <2>3 DEF RollupJobRec
  <2>. HIDE DEF x
  <2>5. /\ rollupJob' \in [RollupJobs -> RollupJobRec] /\ rollupJob'[j] = x
        /\ \A k \in RollupJobs \ {j} : rollupJob'[k] = rollupJob[k]
        /\ \A k \in RollupJobs : rollupJob'[k].of = rollupJob[k].of
    BY <1>0, <2>1, <2>4
  <2>6. ASSUME NEW k \in RollupJobs PROVE JobIsSound(k)'
    <3>1. JobIsSound(k)
      BY DEF RollupIInv
    <3>2. CASE k = j
      BY <2>1, <2>3, <2>4, <2>5, <3>1, <3>2 DEF JobIsSound
    <3>3. CASE k # j
      BY <2>1, <2>5, <3>1, <3>3 DEF JobIsSound
    <3>. QED  BY <3>2, <3>3
  <2>7. PICK dead \in BOOLEAN :
           slot' = [s \in RollupSlots |->
                       IF dead /\ slot[s].job = j THEN SlotFree ELSE slot[s]]
    BY <1>3 DEF RollupStalls
  <2>8. slot' \in [RollupSlots -> SlotRec]
        /\ \A y \in RollupSlots : slot'[y] \in {slot[y], SlotFree}
    BY <1>0, <2>7, SlotFreeIsFree
  <2>9. RollupTypeOK'
    BY <1>0, <2>1, <2>2, <2>5, <2>8 DEF RollupTypeOK, RollupJobRec, SlotRec
  <2>. QED  BY <2>1, <2>5, <2>6, <2>8, <2>9, GivingUpKeepsRollupIInv
<1>4. CASE UNCHANGED rollupVars
  <2>1. RollupTypeOK'
    BY <1>0, <1>4 DEF rollupVars, RollupTypeOK
  <2>2. \A j \in RollupJobs : JobIsSound(j)'
    BY <1>4 DEF rollupVars, RollupIInv, JobIsSound
  <2>. QED  BY <1>4, <2>1, <2>2, GivingUpKeepsRollupIInv DEF rollupVars
<1>. QED  BY <1>1, <1>2, <1>3, <1>4, RecordRowKeepsRollupIInv,
            SchedulerRunsKeepsRollupIInv, BeginKeepsRollupIInv,
            ReadLedgerKeepsRollupIInv, UpsertKeepsRollupIInv DEF RollupNext

(***************************************************************************)
(* The snapshots of silos                                                  *)
(***************************************************************************)

PushRec == [state : {"unsent", "open", "committed", "aborted"}, day : Days,
            names : [Tables -> SUBSET RowNames], next : 1 .. 5, waiting : BOOLEAN,
            targets : SUBSET SnapshotRow, removed : [Tables -> SUBSET SnapshotRow]]
PanelRec == [day : Days \cup {0}, rows : SUBSET SnapshotRow, done : BOOLEAN]

Committed(p) == push[p].state = "committed"

(* What an open transaction x of p has deleted, or is about to delete, is  *)
(* of its day, and but for that its day has rows of those it was crossed   *)
(* by.                                                                     *)
OpenIsSound(p, x) ==
    /\ \A t \in 1 .. TablesUsed : x.names[t] # {}
    /\ x.waiting => x.next <= TablesUsed
    /\ \A t \in 1 .. TablesUsed : \A r \in Snapshot(t, x.day) :
          /\ x.next > t => r \in x.removed[t] \/ r.by \in crossed[p]
          /\ x.waiting /\ x.next = t => r \in x.targets \/ r.by \in crossed[p]
    /\ \A t \in Tables : \A r \in x.removed[t] :
          Committed(r.by) /\ push[r.by].day = x.day
    /\ \A r \in x.targets : Committed(r.by) /\ push[r.by].day = x.day

PushIsSound(p) ==
    /\ push[p].state = "unsent" => push[p] = Unsent
    /\ push[p].state = "open" => OpenIsSound(p, push[p])
    /\ Committed(p) => \A t \in 1 .. TablesUsed : push[p].names[t] # {}

StoredIsCommitted == \A t \in Tables : \A r \in stored[t] : Committed(r.by)

LastIsCommitted == \A d \in Days : last[d] # NoPush => Committed(last[d])

DaysOf(t) == {d \in DaysUsed : Snapshot(t, d) # {}}

(* What the reader has seen is what there is, until it has seen it all.    *)
SeenIsSound(t, seen) ==
    /\ seen.done /\ seen.day = 0 => DaysOf(t) = {}
    /\ seen.day # 0 =>
          /\ seen.day \in DaysOf(t)
          /\ \A e \in DaysOf(t) : e <= seen.day
    /\ seen.done /\ seen.day # 0 => seen.rows = Snapshot(t, seen.day)

PanelIsSound ==
    ~blurred /\ ~PanelRead =>
        \A t \in 1 .. TablesUsed : SeenIsSound(t, panel[t])

SnapshotIInv ==
    /\ SnapshotTypeOK
    /\ StoredIsCommitted /\ LastIsCommitted
    /\ \A p \in Pushes : PushIsSound(p)
    /\ LastPushStands
    /\ PanelIsSound /\ PanelHalvesMatch

LEMMA SnapshotTypes ==
    SnapshotTypeOK <=>
        /\ surface \in Surfaces
        /\ push \in [Pushes -> PushRec]
        /\ stored \in [Tables -> SUBSET SnapshotRow]
        /\ last \in [Days -> Pushes \cup {NoPush}]
        /\ crossed \in [Pushes -> SUBSET Pushes]
        /\ panel \in [Tables -> PanelRec]
        /\ blurred \in BOOLEAN
BY DEF SnapshotTypeOK, PushRec, PanelRec

LEMMA TablesAreTwo ==
    /\ TablesUsed \in {1, 2} /\ Tables = {1, 2}
    /\ 1 .. TablesUsed \subseteq Tables /\ 1 \in 1 .. TablesUsed
    /\ DaysUsed \subseteq Days /\ DaysUsed # {}
BY SnapshotAssumption DEF TablesUsed, Tables, DaysUsed

LEMMA UnsentIsUnsent ==
    /\ Unsent \in PushRec /\ Unsent.state = "unsent"
    /\ [Unsent EXCEPT !.state = "aborted"] \in PushRec
    /\ [Unsent EXCEPT !.state = "aborted"].state = "aborted"
<1>1. [t \in Tables |-> {}] \in [Tables -> SUBSET RowNames]
      /\ [t \in Tables |-> {}] \in [Tables -> SUBSET SnapshotRow]
  OBVIOUS
<1> DEFINE none == [t \in Tables |-> {}]
<1>2. none \in [Tables -> SUBSET RowNames] /\ none \in [Tables -> SUBSET SnapshotRow]
  BY <1>1
<1>3. Unsent = [state |-> "unsent", day |-> 1, names |-> none, next |-> 1,
                waiting |-> FALSE, targets |-> {}, removed |-> none]
  BY DEF Unsent
<1>. HIDE DEF none
<1>4. 1 \in Days /\ 1 \in 1 .. 5
  BY SnapshotAssumption
<1>. QED  BY <1>2, <1>3, <1>4 DEF PushRec

LEMMA RowsOfAPush ==
    ASSUME SnapshotTypeOK, NEW p \in Pushes, NEW t \in Tables
    PROVE  /\ RowsOf(p, t) \subseteq SnapshotRow
           /\ \A r \in RowsOf(p, t) : r.by = p
           /\ push[p].names[t] # {} => RowsOf(p, t) # {}
<1>1. push[p].names[t] \subseteq RowNames
  BY SnapshotTypes DEF PushRec
<1> DEFINE names == push[p].names[t]
<1>2. RowsOf(p, t) = {[by |-> p, name |-> n] : n \in names}
  BY DEF RowsOf
<1>. HIDE DEF names
<1>3. \A n \in names : [by |-> p, name |-> n] \in SnapshotRow
  BY <1>1 DEF names, SnapshotRow
<1>4. \A r \in RowsOf(p, t) : \E n \in names : r = [by |-> p, name |-> n]
  BY <1>2
<1>5. RowsOf(p, t) \subseteq SnapshotRow /\ \A r \in RowsOf(p, t) : r.by = p
  BY <1>3, <1>4
<1>6. names # {} => RowsOf(p, t) # {}
  BY <1>2
<1>. QED  BY <1>5, <1>6 DEF names

LEMMA SnapshotInitIInv ==
    ASSUME SnapshotInit \/ NoSnapshots
    PROVE  SnapshotIInv
<1>1. panel = [t \in Tables |-> Unread] /\ crossed = [p \in Pushes |-> {}]
      /\ ~blurred /\ blurred \in BOOLEAN /\ surface \in Surfaces
  BY DEF SnapshotInit, NoSnapshots, Surfaces
<1>2. Unread \in PanelRec /\ ~Unread.done /\ Unread.day = 0
  BY DEF Unread, PanelRec
<1>3. PanelIsSound /\ PanelHalvesMatch
  BY <1>1, <1>2, TablesAreTwo DEF PanelIsSound, SeenIsSound, PanelHalvesMatch, PanelRead
<1>4. CASE NoSnapshots
  <2>1. /\ push = [p \in Pushes |-> Unsent] /\ stored = [t \in Tables |-> {}]
        /\ last = [d \in Days |-> NoPush]
    BY <1>4 DEF NoSnapshots
  <2>2. SnapshotTypeOK
    BY <1>1, <1>2, <2>1, SnapshotTypes, UnsentIsUnsent
  <2>3. /\ StoredIsCommitted /\ LastIsCommitted
        /\ \A p \in Pushes : PushIsSound(p)
    BY <2>1, UnsentIsUnsent
       DEF StoredIsCommitted, LastIsCommitted, PushIsSound, Committed
  <2>4. LastPushStands
    BY <2>1, TablesAreTwo DEF LastPushStands, Snapshot
  <2>. QED  BY <1>3, <2>2, <2>3, <2>4 DEF SnapshotIInv
<1>5. CASE SnapshotInit
  <2> DEFINE full == [t \in Tables |-> IF t <= TablesUsed THEN RowNames ELSE {}]
  <2>1. PICK first \in Pushes, d \in DaysUsed :
           /\ push = [p \in Pushes |->
                         IF p = first
                         THEN [Unsent EXCEPT !.state = "committed",
                                             !.day = d, !.names = full]
                         ELSE Unsent]
           /\ stored = [t \in Tables |-> [by : {first}, name : full[t]]]
           /\ last = [e \in Days |-> IF e = d THEN first ELSE NoPush]
    BY <1>5 DEF SnapshotInit
  <2> DEFINE x == [Unsent EXCEPT !.state = "committed", !.day = d, !.names = full]
  <2>2. full \in [Tables -> SUBSET RowNames] /\ d \in Days
    BY TablesAreTwo
  <2>3. \A t \in Tables : [by : {first}, name : full[t]] \in SUBSET SnapshotRow
    BY <2>2 DEF SnapshotRow
  <2>. HIDE DEF full
  <2>4. x \in PushRec /\ x.state = "committed" /\ x.day = d /\ x.names = full
    BY <2>2, UnsentIsUnsent DEF PushRec
  <2>5. push = [p \in Pushes |-> IF p = first THEN x ELSE Unsent]
    BY <2>1
  <2>. HIDE DEF x
  <2>6. push[first] = x /\ Committed(first) /\ \A p \in Pushes \ {first} : push[p] = Unsent
    BY <2>4, <2>5 DEF Committed
  <2>7. SnapshotTypeOK
    BY <1>1, <1>2, <2>1, <2>2, <2>3, <2>4, <2>5, SnapshotTypes, UnsentIsUnsent
  <2>8. StoredIsCommitted /\ LastIsCommitted
    BY <2>1, <2>6, SnapshotAssumption DEF StoredIsCommitted, LastIsCommitted
  <2>9. \A t \in 1 .. TablesUsed : full[t] = RowNames /\ t \in Tables
    BY TablesAreTwo DEF full
  <2>10. ASSUME NEW p \in Pushes PROVE PushIsSound(p)
    <3>1. CASE p = first
      BY <2>4, <2>6, <2>9, <3>1, SnapshotAssumption DEF PushIsSound, Committed
    <3>2. CASE p # first
      BY <2>6, <3>2, UnsentIsUnsent DEF PushIsSound, Committed
    <3>. QED  BY <3>1, <3>2
  <2>11. ASSUME NEW e \in DaysUsed, NEW t \in 1 .. TablesUsed
         PROVE  IF last[e] = NoPush THEN Snapshot(t, e) = {}
                ELSE /\ RowsOf(last[e], t) \subseteq Snapshot(t, e)
                     /\ \A r \in Snapshot(t, e) : r.by \in {last[e]} \cup crossed[last[e]]
    <3>1. stored[t] = [by : {first}, name : RowNames] /\ t \in Tables /\ e \in Days
      BY <2>1, <2>9, TablesAreTwo
    <3>2. \A r \in stored[t] : r.by = first
      BY <3>1
    <3>3. CASE e = d
      <4>1. last[e] = first /\ first # NoPush
        BY <2>1, <3>1, <3>3, SnapshotAssumption
      <4>2. RowsOf(first, t) \subseteq stored[t]
        BY <2>4, <2>6, <2>9, <3>1 DEF RowsOf
      <4>3. \A r \in stored[t] : push[r.by].day = e
        BY <2>4, <2>6, <3>2, <3>3
      <4>. QED  BY <3>2, <4>1, <4>2, <4>3 DEF Snapshot
    <3>4. CASE e # d
      <4>1. last[e] = NoPush
        BY <2>1, <3>1, <3>4
      <4>2. \A r \in stored[t] : push[r.by].day # e
        BY <2>4, <2>6, <3>2, <3>4
      <4>. QED  BY <4>1, <4>2 DEF Snapshot
    <3>. QED  BY <3>3, <3>4
  <2>12. LastPushStands
    BY <2>11 DEF LastPushStands
  <2>. QED  BY <1>3, <2>7, <2>8, <2>10, <2>12 DEF SnapshotIInv
<1>. QED  BY <1>4, <1>5

(* The rows of a day, of pushes that have been committed                   *)
LEMMA SnapshotsStay ==
    ASSUME StoredIsCommitted, NEW p \in Pushes, ~Committed(p),
           UNCHANGED stored, \A q \in Pushes \ {p} : push'[q] = push[q],
           SnapshotTypeOK
    PROVE  \A t \in Tables : \A d : Snapshot(t, d)' = Snapshot(t, d)
<1>1. \A t \in Tables : \A r \in stored[t] : r.by \in Pushes /\ r.by # p
  BY SnapshotTypes DEF StoredIsCommitted, SnapshotRow
<1>2. \A t \in Tables : \A r \in stored[t] : push'[r.by] = push[r.by]
  BY <1>1
<1>. QED  BY <1>2 DEF Snapshot

(* A step of a transaction that is not committed                           *)
LEMMA OpenStepKeepsSnapshotIInv ==
    ASSUME SnapshotIInv, NEW p \in Pushes, ~Committed(p), NEW x \in PushRec,
           x.state \in {"open", "aborted"}, x.state = "open" => OpenIsSound(p, x),
           push' = [push EXCEPT ![p] = x],
           UNCHANGED <<surface, stored, last, crossed, panel, blurred>>
    PROVE  SnapshotIInv'
<1>0. /\ SnapshotTypeOK /\ push \in [Pushes -> PushRec] /\ StoredIsCommitted
      /\ last \in [Days -> Pushes \cup {NoPush}]
  BY SnapshotTypes DEF SnapshotIInv
<1>1. /\ push' \in [Pushes -> PushRec] /\ push'[p] = x
      /\ \A q \in Pushes \ {p} : push'[q] = push[q]
  BY <1>0
<1>2. SnapshotTypeOK'
  BY <1>0, <1>1 DEF SnapshotTypeOK, PushRec
<1>3. \A q \in Pushes : Committed(q) => Committed(q)' /\ push'[q] = push[q] /\ q # p
  BY <1>1 DEF Committed
<1>4. \A q \in Pushes : Committed(q)' => Committed(q)
  BY <1>1 DEF Committed
<1>5. \A t \in Tables : \A d : Snapshot(t, d)' = Snapshot(t, d)
  BY <1>0, <1>1, SnapshotsStay
<1>6. UNCHANGED <<TablesUsed, DaysUsed>>
  BY DEF TablesUsed, DaysUsed
<1>7. StoredIsCommitted' /\ LastIsCommitted'
  <2>1. \A t \in Tables : \A r \in stored[t] : r.by \in Pushes
    BY <1>0, SnapshotTypes DEF SnapshotRow
  <2>2. \A d \in Days : last[d] # NoPush => last[d] \in Pushes
    BY <1>0
  <2>. QED  BY <1>3, <2>1, <2>2 DEF SnapshotIInv, StoredIsCommitted, LastIsCommitted
<1>8. ASSUME NEW q \in Pushes, NEW y \in PushRec, OpenIsSound(q, y)
      PROVE  OpenIsSound(q, y)'
  <2>1. /\ \A t \in Tables : \A r \in y.removed[t] : r.by \in Pushes
        /\ \A r \in y.targets : r.by \in Pushes
    BY DEF PushRec, SnapshotRow
  <2>2. \A t \in 1 .. TablesUsed : Snapshot(t, y.day)' = Snapshot(t, y.day)
    BY <1>5, TablesAreTwo
  <2>. QED  BY <1>3, <1>6, <1>8, <2>1, <2>2 DEF OpenIsSound
<1>9. ASSUME NEW q \in Pushes PROVE PushIsSound(q)'
  <2>1. PushIsSound(q) /\ push[q] \in PushRec
    BY <1>0 DEF SnapshotIInv
  <2>2. CASE q = p
    BY <1>1, <1>8, <2>2 DEF PushIsSound, Committed
  <2>3. CASE q # p
    <3>1. push[q].state = "open" => OpenIsSound(q, push[q])'
      BY <1>1, <1>8, <2>1, <2>3 DEF PushIsSound
    <3>. QED  BY <1>1, <1>6, <2>1, <2>3, <3>1 DEF PushIsSound, Committed, OpenIsSound
  <2>. QED  BY <2>2, <2>3
<1>10. ASSUME NEW q \in Pushes, Committed(q), NEW t \in Tables
       PROVE  RowsOf(q, t)' = RowsOf(q, t)
  BY <1>3, <1>10 DEF RowsOf
<1>11. LastPushStands'
  <2>1. ASSUME NEW d \in DaysUsed, NEW t \in 1 .. TablesUsed
        PROVE  IF last[d] = NoPush THEN Snapshot(t, d)' = {}
               ELSE /\ RowsOf(last[d], t)' \subseteq Snapshot(t, d)'
                    /\ \A r \in Snapshot(t, d)' : r.by \in {last[d]} \cup crossed[last[d]]
    <3>1. Snapshot(t, d)' = Snapshot(t, d) /\ t \in Tables /\ d \in Days
      BY <1>5, TablesAreTwo
    <3>2. CASE last[d] = NoPush
      BY <3>1, <3>2 DEF SnapshotIInv, LastPushStands
    <3>3. CASE last[d] # NoPush
      <4>1. last[d] \in Pushes /\ Committed(last[d])
        BY <1>0, <3>1, <3>3 DEF SnapshotIInv, LastIsCommitted
      <4>2. RowsOf(last[d], t)' = RowsOf(last[d], t)
        <5>1. PICK q \in Pushes : q = last[d]
          BY <4>1
        <5>2. RowsOf(q, t)' = RowsOf(q, t)
          BY <1>10, <3>1, <4>1, <5>1
        <5>3. last'[d] = q
          BY <5>1
        <5>. QED  BY <3>1, <4>1, <5>1, <5>2
      <4>. QED  BY <3>1, <3>3, <4>2 DEF SnapshotIInv, LastPushStands
    <3>. QED  BY <3>2, <3>3
  <2>. QED  BY <1>6, <2>1 DEF LastPushStands, RowsOf
<1>12. PanelIsSound' /\ PanelHalvesMatch'
  <2>1. \A t \in 1 .. TablesUsed : DaysOf(t)' = DaysOf(t) /\ t \in Tables
    BY <1>5, <1>6, TablesAreTwo DEF DaysOf
  <2>2. \A t \in 1 .. TablesUsed :
           Snapshot(t, panel[t].day)' = Snapshot(t, panel[t].day)
    BY <1>5, TablesAreTwo
  <2>. QED  BY <1>6, <2>1, <2>2
            DEF SnapshotIInv, PanelIsSound, SeenIsSound, PanelHalvesMatch, PanelRead
<1>. QED  BY <1>2, <1>7, <1>9, <1>11, <1>12 DEF SnapshotIInv

(* Statements of an open transaction                                       *)
LEMMA SendPushKeepsSnapshotIInv ==
    ASSUME SnapshotIInv, NEW p \in Pushes, SendPush(p)
    PROVE  SnapshotIInv'
<1>1. push[p].state = "unsent" /\ push[p] = Unsent /\ push \in [Pushes -> PushRec]
  BY SnapshotTypes DEF SendPush, SnapshotIInv, PushIsSound
<1>2. PICK d \in DaysUsed, names \in [Tables -> SUBSET RowNames] :
         /\ \A t \in Tables : names[t] = {} <=> t > TablesUsed
         /\ push' = [push EXCEPT ![p].state = "open", ![p].day = d, ![p].names = names]
  BY DEF SendPush
<1> DEFINE x == [Unsent EXCEPT !.state = "open", !.day = d, !.names = names]
<1>3. push' = [push EXCEPT ![p] = x]
  BY <1>1, <1>2
<1>4. x \in PushRec /\ x.state = "open" /\ x.names = names
  BY UnsentIsUnsent, TablesAreTwo DEF PushRec
<1>5. x.next = 1 /\ x.waiting = FALSE /\ x.targets = {}
      /\ \A t \in Tables : x.removed[t] = {}
  BY DEF Unsent
<1>. HIDE DEF x
<1>6. OpenIsSound(p, x)
  <2>1. \A t \in 1 .. TablesUsed : x.names[t] # {}
    BY <1>2, <1>4, TablesAreTwo
  <2>. QED  BY <1>5, <2>1 DEF OpenIsSound
<1>7. UNCHANGED <<surface, stored, last, crossed, panel, blurred>>
  BY DEF SendPush
<1>. QED  BY <1>1, <1>3, <1>4, <1>6, <1>7, OpenStepKeepsSnapshotIInv DEF Committed

LEMMA RollBackKeepsSnapshotIInv ==
    ASSUME SnapshotIInv, NEW p \in Pushes, RollBack(p)
    PROVE  SnapshotIInv'
<1> DEFINE x == [Unsent EXCEPT !.state = "aborted"]
<1>1. x \in PushRec /\ x.state = "aborted"
  BY UnsentIsUnsent
<1>2. push' = [push EXCEPT ![p] = x] /\ ~Committed(p)
      /\ UNCHANGED <<surface, stored, last, crossed, panel, blurred>>
  BY DEF RollBack, Open, Committed
<1>. HIDE DEF x
<1>. QED  BY <1>1, <1>2, OpenStepKeepsSnapshotIInv

LEMMA StartDeleteKeepsSnapshotIInv ==
    ASSUME SnapshotIInv, NEW p \in Pushes, StartDelete(p)
    PROVE  SnapshotIInv'
<1> DEFINE y == push[p]
           found == Snapshot(TableOf(y.next), y.day)
           x == [y EXCEPT !.waiting = TRUE, !.targets = found]
<1>1. /\ y.state = "open" /\ ~Committed(p) /\ y.next <= TablesUsed
      /\ UNCHANGED <<surface, stored, last, crossed, panel, blurred>>
      /\ push' = [push EXCEPT ![p].waiting = TRUE, ![p].targets = found]
  BY DEF StartDelete, Open, IsDelete, Committed
<1>2. push \in [Pushes -> PushRec] /\ y \in PushRec /\ OpenIsSound(p, y)
      /\ stored \in [Tables -> SUBSET SnapshotRow] /\ StoredIsCommitted
  BY <1>1, SnapshotTypes DEF SnapshotIInv, PushIsSound
<1>3. y.next \in 1 .. TablesUsed /\ TableOf(y.next) = y.next /\ y.next \in Tables
  BY <1>1, <1>2, TablesAreTwo DEF PushRec, TableOf
<1>4. found = Snapshot(y.next, y.day) /\ found \subseteq stored[y.next]
      /\ \A r \in found : push[r.by].day = y.day
  BY <1>3 DEF Snapshot
<1>5. found \in SUBSET SnapshotRow /\ \A r \in found : Committed(r.by)
  BY <1>2, <1>3, <1>4 DEF StoredIsCommitted
<1>. HIDE DEF found
<1>6. push' = [push EXCEPT ![p] = x]
  BY <1>1, <1>2
<1>7. /\ x \in PushRec /\ x.state = "open" /\ x.names = y.names /\ x.next = y.next
      /\ x.day = y.day /\ x.removed = y.removed /\ x.targets = found
  BY <1>1, <1>2, <1>5 DEF PushRec
<1>. HIDE DEF x, y
<1>8. OpenIsSound(p, x)
  <2>1. \A t \in 1 .. TablesUsed : \A r \in Snapshot(t, x.day) :
           x.next = t => r \in x.targets
    BY <1>4, <1>7
  <2>. QED  BY <1>1, <1>2, <1>4, <1>5, <1>7, <2>1 DEF OpenIsSound
<1>. QED  BY <1>1, <1>6, <1>7, <1>8, OpenStepKeepsSnapshotIInv

LEMMA FinishDeleteKeepsSnapshotIInv ==
    ASSUME SnapshotIInv, NEW p \in Pushes, FinishDelete(p)
    PROVE  SnapshotIInv'
<1> DEFINE y == push[p]
           t == TableOf(y.next)
           gone == y.targets \cap stored[t]
           swept == [y.removed EXCEPT ![t] = gone]
           x == [y EXCEPT !.waiting = FALSE, !.targets = {}, !.removed = swept,
                          !.next = y.next + 1]
<1>1. /\ y.state = "open" /\ y.waiting /\ ~Committed(p)
      /\ UNCHANGED <<surface, stored, last, crossed, panel, blurred>>
      /\ push' = [push EXCEPT ![p].waiting = FALSE, ![p].targets = {},
                              ![p].removed[t] = gone, ![p].next = @ + 1]
  BY DEF FinishDelete, Open, Committed
<1>2. push \in [Pushes -> PushRec] /\ y \in PushRec /\ OpenIsSound(p, y)
      /\ stored \in [Tables -> SUBSET SnapshotRow]
  BY <1>1, SnapshotTypes DEF SnapshotIInv, PushIsSound
<1>3. y.next \in 1 .. TablesUsed /\ t = y.next /\ t \in Tables
  BY <1>1, <1>2, TablesAreTwo DEF PushRec, TableOf, OpenIsSound
<1>4. gone \in SUBSET SnapshotRow /\ gone \subseteq y.targets
  BY <1>2, <1>3
<1>5. push' = [push EXCEPT ![p] = x]
  BY <1>1, <1>2
<1>6. /\ swept \in [Tables -> SUBSET SnapshotRow] /\ swept[t] = gone
      /\ \A u \in Tables \ {t} : swept[u] = y.removed[u]
  BY <1>2, <1>3, <1>4 DEF PushRec
<1>7. y.next + 1 \in 1 .. 5
  BY <1>2, <1>3, TablesAreTwo
<1>8. \A r \in Snapshot(t, y.day) : r \in gone \/ r.by \in crossed[p]
  <2>1. \A r \in Snapshot(t, y.day) : r \in y.targets \/ r.by \in crossed[p]
    BY <1>1, <1>2, <1>3 DEF OpenIsSound
  <2>. QED  BY <2>1 DEF Snapshot
<1>. HIDE DEF gone, swept, t
<1>9. /\ x \in PushRec /\ x.state = "open" /\ x.names = y.names /\ x.next = y.next + 1
      /\ x.day = y.day /\ x.removed = swept /\ x.targets = {} /\ x.waiting = FALSE
  BY <1>1, <1>2, <1>6, <1>7 DEF PushRec
<1>. HIDE DEF x, y
<1>10. OpenIsSound(p, x)
  <2>1. ASSUME NEW u \in 1 .. TablesUsed, NEW r \in Snapshot(u, x.day), x.next > u
        PROVE  r \in x.removed[u] \/ r.by \in crossed[p]
    <3>1. CASE u = t
      BY <1>6, <1>8, <1>9, <3>1
    <3>2. CASE u # t
      <4>1. y.next > u /\ u \in Tables
        BY <1>3, <1>9, <2>1, <3>2, TablesAreTwo
      <4>. QED  BY <1>2, <1>6, <1>9, <3>2, <4>1 DEF OpenIsSound
    <3>. QED  BY <3>1, <3>2
  <2>2. \A u \in Tables : \A r \in x.removed[u] :
           Committed(r.by) /\ push[r.by].day = x.day
    BY <1>2, <1>4, <1>6, <1>9 DEF OpenIsSound
  <2>. QED  BY <1>2, <1>9, <2>1, <2>2 DEF OpenIsSound
<1>. QED  BY <1>1, <1>5, <1>9, <1>10, OpenStepKeepsSnapshotIInv

LEMMA InsertRowsKeepsSnapshotIInv ==
    ASSUME SnapshotIInv, NEW p \in Pushes, InsertRows(p)
    PROVE  SnapshotIInv'
<1> DEFINE y == push[p]
           z == [Unsent EXCEPT !.state = "aborted"]
           x == [y EXCEPT !.next = y.next + 1]
<1>1. /\ y.state = "open" /\ ~Committed(p) /\ ~(y.next <= TablesUsed)
      /\ y.next <= 2 * TablesUsed
      /\ UNCHANGED <<surface, stored, last, crossed, panel, blurred>>
  BY DEF InsertRows, Open, Committed, IsDelete
<1>2. push \in [Pushes -> PushRec] /\ y \in PushRec /\ OpenIsSound(p, y)
  BY <1>1, SnapshotTypes DEF SnapshotIInv, PushIsSound
<1>3. push' = [push EXCEPT ![p] = z] \/ push' = [push EXCEPT ![p].next = @ + 1]
  BY DEF InsertRows
<1>4. CASE push' = [push EXCEPT ![p] = z]
  <2>1. z \in PushRec /\ z.state = "aborted"
    BY UnsentIsUnsent
  <2>. HIDE DEF z
  <2>. QED  BY <1>1, <1>4, <2>1, OpenStepKeepsSnapshotIInv
<1>5. CASE push' = [push EXCEPT ![p].next = @ + 1]
  <2>1. push' = [push EXCEPT ![p] = x]
    BY <1>2, <1>5
  <2>2. y.next \in 1 .. 5 /\ y.next + 1 \in 1 .. 5 /\ ~y.waiting
    <3>1. y.next \in 1 .. 5
      BY <1>2 DEF PushRec
    <3>2. ~y.waiting
      BY <1>1, <1>2, <3>1, TablesAreTwo DEF OpenIsSound
    <3>. QED  BY <1>1, <3>1, <3>2, TablesAreTwo
  <2>3. /\ x \in PushRec /\ x.state = "open" /\ x.names = y.names /\ x.next = y.next + 1
        /\ x.day = y.day /\ x.removed = y.removed /\ x.targets = y.targets
        /\ x.waiting = y.waiting
    BY <1>1, <1>2, <2>2 DEF PushRec
  <2>. HIDE DEF x, y
  <2>4. OpenIsSound(p, x)
    <3>1. \A u \in 1 .. TablesUsed : y.next > u
      BY <1>1, <2>2, TablesAreTwo
    <3>. QED  BY <1>2, <2>2, <2>3, <3>1 DEF OpenIsSound
  <2>. QED  BY <1>1, <2>1, <2>3, <2>4, OpenStepKeepsSnapshotIInv
<1>. QED  BY <1>3, <1>4, <1>5

(* A commit replaces the rows of its day with its own, and those of other  *)
(* days stand.                                                             *)
LEMMA CommitKeepsSnapshotIInv ==
    ASSUME SnapshotIInv, NEW p \in Pushes, CommitPush(p)
    PROVE  SnapshotIInv'
<1>a. push[p] \in PushRec /\ push[p].day \in Days
  BY SnapshotTypes DEF SnapshotIInv, PushRec
<1>b. PICK y \in PushRec : y = push[p]
  BY <1>a
<1>c. PICK d \in Days : d = y.day
  BY <1>a, <1>b
<1> DEFINE x == [y EXCEPT !.state = "committed", !.next = 1,
                          !.removed = Unsent.removed]
<1>1. /\ y.state = "open" /\ ~Committed(p) /\ y.next > 2 * TablesUsed
      /\ stored' = [t \in Tables |->
                       (stored[t] \ y.removed[t]) \cup RowsOf(p, t)]
      /\ push' = [push EXCEPT ![p].state = "committed", ![p].next = 1,
                              ![p].removed = Unsent.removed]
      /\ last' = [last EXCEPT ![d] = p]
      /\ crossed' = [q \in Pushes |->
                        IF q \in Open \ {p} /\ push[q].day = d
                        THEN crossed[q] \cup {p} ELSE crossed[q]]
      /\ blurred' = (blurred \/ (Reading /\ ~PanelRead))
      /\ UNCHANGED <<surface, panel>>
  BY <1>b, <1>c DEF CommitPush, Land, Open, Committed
<1>2. /\ SnapshotTypeOK /\ push \in [Pushes -> PushRec] /\ y \in PushRec
      /\ stored \in [Tables -> SUBSET SnapshotRow]
      /\ last \in [Days -> Pushes \cup {NoPush}]
      /\ crossed \in [Pushes -> SUBSET Pushes]
      /\ panel \in [Tables -> PanelRec] /\ blurred \in BOOLEAN
      /\ StoredIsCommitted /\ LastIsCommitted /\ LastPushStands
  BY <1>b, SnapshotTypes DEF SnapshotIInv
<1>3. OpenIsSound(p, y)
  BY <1>1, <1>b DEF SnapshotIInv, PushIsSound
<1>4. \A t \in 1 .. TablesUsed : y.next > t /\ t \in Tables
  BY <1>1, <1>2, TablesAreTwo DEF PushRec
<1>5. d \in Days /\ Unsent.removed = [t \in Tables |-> {}]
  BY DEF Unsent
<1>6. push' = [push EXCEPT ![p] = x]
  BY <1>1, <1>2, <1>b
<1>7. x \in PushRec /\ x.state = "committed" /\ x.day = d /\ x.names = y.names
  <2>1. Unsent.removed \in [Tables -> SUBSET SnapshotRow] /\ 1 \in 1 .. 5
    BY UnsentIsUnsent DEF PushRec
  <2>. QED  BY <1>2, <1>c, <2>1 DEF PushRec
<1>. HIDE DEF x
<1>8. /\ push' \in [Pushes -> PushRec] /\ push'[p] = x
      /\ \A q \in Pushes \ {p} : push'[q] = push[q]
  BY <1>2, <1>6, <1>7
<1>9. /\ \A q \in Pushes : push'[q].day = push[q].day /\ push'[q].names = push[q].names
      /\ \A q \in Pushes : Committed(q)' <=> Committed(q) \/ q = p
  <2>1. push'[p].day = push[p].day /\ push'[p].names = push[p].names /\ Committed(p)'
    BY <1>7, <1>8, <1>b, <1>c DEF Committed
  <2>. QED  BY <1>8, <2>1 DEF Committed
<1>10. \A q \in Pushes, t \in Tables : RowsOf(q, t)' = RowsOf(q, t)
  BY <1>9 DEF RowsOf
<1>11. \A t \in Tables :
          /\ RowsOf(p, t) \in SUBSET SnapshotRow /\ \A r \in RowsOf(p, t) : r.by = p
          /\ stored'[t] = (stored[t] \ y.removed[t]) \cup RowsOf(p, t)
  BY <1>1, <1>2, RowsOfAPush
<1>12. /\ stored' \in [Tables -> SUBSET SnapshotRow]
       /\ last' \in [Days -> Pushes \cup {NoPush}]
       /\ crossed' \in [Pushes -> SUBSET Pushes] /\ blurred' \in BOOLEAN
  <2>1. \A t \in Tables :
           (stored[t] \ y.removed[t]) \cup RowsOf(p, t) \in SUBSET SnapshotRow
    BY <1>2, <1>11
  <2>. QED  BY <1>1, <1>2, <1>5, <2>1
<1>13. SnapshotTypeOK'
  BY <1>1, <1>2, <1>8, <1>12 DEF SnapshotTypeOK, PushRec, PanelRec
<1>14. \A t \in Tables : \A r \in stored[t] : r.by \in Pushes /\ Committed(r.by)
  BY <1>2 DEF SnapshotRow, StoredIsCommitted
<1>15. StoredIsCommitted' /\ LastIsCommitted'
  <2>1. \A t \in Tables : \A r \in stored'[t] : Committed(r.by)'
    BY <1>9, <1>11, <1>14
  <2>2. \A e \in Days : last'[e] # NoPush => Committed(last[e])'
    <3>1. \A e \in Days : last'[e] = p \/ last'[e] = last[e]
      BY <1>1, <1>2, <1>5
    <3>2. \A e \in Days : last[e] # NoPush => last[e] \in Pushes /\ Committed(last[e])
      BY <1>2 DEF LastIsCommitted
    <3>3. ASSUME NEW e \in Days, last'[e] # NoPush PROVE Committed(last[e])'
      <4>1. PICK q \in Pushes : q = last'[e] /\ (q = p \/ Committed(q))
        BY <3>1, <3>2, <3>3
      <4>2. Committed(q)'
        BY <1>9, <4>1
      <4>. QED  BY <4>1, <4>2 DEF Committed
    <3>. QED  BY <3>3
  <2>. QED  BY <2>1, <2>2 DEF StoredIsCommitted, LastIsCommitted
<1>16. UNCHANGED <<TablesUsed, DaysUsed, PanelRead>>
  BY <1>1 DEF TablesUsed, DaysUsed, PanelRead
<1>17. \A t \in Tables, e \in Days :
          Snapshot(t, e)' = {r \in stored'[t] : push[r.by].day = e}
  <2>1. \A t \in Tables : \A r \in stored'[t] : r.by \in Pushes
    BY <1>12 DEF SnapshotRow
  <2>. QED  BY <1>9, <2>1 DEF Snapshot
<1>18. \A t \in Tables, e \in Days \ {d} : Snapshot(t, e)' = Snapshot(t, e)
  <2>1. \A t \in Tables : \A r \in y.removed[t] \cup RowsOf(p, t) : push[r.by].day = d
    BY <1>b, <1>c, <1>3, <1>11 DEF OpenIsSound
  <2>. QED  BY <1>11, <1>17, <2>1 DEF Snapshot
<1>19. \A t \in 1 .. TablesUsed : \A r \in Snapshot(t, d)' :
          \/ r \in RowsOf(p, t)
          \/ r \in Snapshot(t, d) /\ r.by \in crossed[p]
  <2>1. \A t \in 1 .. TablesUsed : \A r \in Snapshot(t, d) :
           r \in y.removed[t] \/ r.by \in crossed[p]
    BY <1>b, <1>c, <1>3, <1>4 DEF OpenIsSound
  <2>. QED  BY <1>4, <1>5, <1>11, <1>17, <2>1 DEF Snapshot
<1>20. \A t \in Tables : RowsOf(p, t) \subseteq Snapshot(t, d)'
  BY <1>b, <1>c, <1>11, <1>17
<1>21. /\ \A q \in Pushes : crossed[q] \subseteq crossed'[q]
       /\ \A q \in Pushes \ {p} : push[q].state = "open" /\ push[q].day = d
              => p \in crossed'[q]
  BY <1>1, <1>2 DEF Open
<1>22. LastPushStands'
  <2>1. ASSUME NEW e \in DaysUsed, NEW t \in 1 .. TablesUsed
        PROVE  IF last'[e] = NoPush THEN Snapshot(t, e)' = {}
               ELSE /\ RowsOf(last[e], t)' \subseteq Snapshot(t, e)'
                    /\ \A r \in Snapshot(t, e)' :
                          r.by \in {last'[e]} \cup crossed'[last'[e]]
    <3>1. t \in Tables /\ e \in Days
      BY TablesAreTwo
    <3>2. CASE e = d
      <4>1. last'[e] = p /\ p # NoPush
        BY <1>1, <1>2, <3>2, SnapshotAssumption
      <4>2. RowsOf(p, t)' \subseteq Snapshot(t, d)'
        BY <1>10, <1>20, <3>1
      <4>3. \A r \in Snapshot(t, d)' : r.by \in {p} \cup crossed'[p]
        BY <1>11, <1>19, <1>21, <3>1
      <4>4. RowsOf(last[e], t)' = RowsOf(p, t)'
        BY <4>1 DEF RowsOf
      <4>5. Snapshot(t, e)' = Snapshot(t, d)'
        BY <1>17, <3>1, <3>2
      <4>. QED  BY <4>1, <4>2, <4>3, <4>4, <4>5
    <3>3. CASE e # d
      <4>1. last'[e] = last[e] /\ Snapshot(t, e)' = Snapshot(t, e)
        BY <1>1, <1>2, <1>18, <3>1, <3>3
      <4>2. CASE last[e] = NoPush
        BY <1>2, <4>1, <4>2 DEF LastPushStands
      <4>3. CASE last[e] # NoPush
        <5>1. PICK q \in Pushes : q = last[e]
          BY <1>2, <3>1, <4>3
        <5>2. RowsOf(q, t) \subseteq Snapshot(t, e)
              /\ \A r \in Snapshot(t, e) : r.by \in {q} \cup crossed[q]
          BY <1>2, <4>3, <5>1 DEF LastPushStands
        <5>3. RowsOf(last[e], t)' = RowsOf(q, t)'
          BY <4>1, <5>1 DEF RowsOf
        <5>. QED  BY <1>10, <1>21, <3>1, <4>1, <4>3, <5>1, <5>2, <5>3
      <4>. QED  BY <4>2, <4>3
    <3>. QED  BY <3>2, <3>3
  <2>. QED  BY <1>16, <2>1 DEF LastPushStands, RowsOf
<1>23. ASSUME NEW q \in Pushes PROVE PushIsSound(q)'
  <2>1. PushIsSound(q) /\ push[q] \in PushRec
    BY <1>2 DEF SnapshotIInv
  <2>2. CASE q = p
    <3>1. push'[q].state = "committed" /\ push'[q].names = y.names
      BY <1>7, <1>8, <2>2
    <3>2. \A t \in 1 .. TablesUsed : y.names[t] # {}
      BY <1>3 DEF OpenIsSound
    <3>. QED  BY <1>16, <3>1, <3>2 DEF PushIsSound
  <2>3. CASE q # p
    <3>1. push'[q] = push[q] /\ (Committed(q)' <=> Committed(q))
      BY <1>8, <1>9, <2>3
    <3>2. ASSUME push[q].state = "open" PROVE OpenIsSound(q, push[q])'
      <4>0. PICK w \in PushRec : w = push[q]
        BY <2>1
      <4>1. OpenIsSound(q, w) /\ w.day \in Days
        BY <2>1, <3>2, <4>0 DEF PushIsSound, PushRec
      <4>2. \A t \in 1 .. TablesUsed : \A r \in Snapshot(t, w.day)' :
               r \in Snapshot(t, w.day) \/ r.by \in crossed'[q]
        <5>1. CASE w.day = d
          <6>1. p \in crossed'[q]
            BY <1>21, <2>3, <3>2, <4>0, <5>1
          <6>. QED  BY <1>4, <1>11, <1>19, <5>1, <6>1
        <5>2. CASE w.day # d
          BY <1>4, <1>18, <4>1, <5>2
        <5>. QED  BY <5>1, <5>2
      <4>3. /\ \A t \in Tables : \A r \in w.removed[t] : r.by \in Pushes
            /\ \A r \in w.targets : r.by \in Pushes
        BY DEF PushRec, SnapshotRow
      <4>4. /\ \A t \in Tables : \A r \in w.removed[t] :
                  Committed(r.by)' /\ push'[r.by].day = w.day
            /\ \A r \in w.targets : Committed(r.by)' /\ push'[r.by].day = w.day
        BY <1>9, <4>1, <4>3 DEF OpenIsSound
      <4>5. \A t \in 1 .. TablesUsed : \A r \in Snapshot(t, w.day)' :
               /\ w.next > t => r \in w.removed[t] \/ r.by \in crossed'[q]
               /\ w.waiting /\ w.next = t => r \in w.targets \/ r.by \in crossed'[q]
        BY <1>21, <4>1, <4>2 DEF OpenIsSound
      <4>6. push'[q] = w
        BY <3>1, <4>0
      <4>7. (\A t \in 1 .. TablesUsed : w.names[t] # {}) /\ (w.waiting => w.next <= TablesUsed)
        BY <4>1 DEF OpenIsSound
      <4>. QED  BY <1>16, <4>4, <4>5, <4>6, <4>7 DEF OpenIsSound
    <3>. QED  BY <1>16, <2>1, <3>1, <3>2 DEF PushIsSound
  <2>. QED  BY <2>2, <2>3
<1>24. PanelIsSound' /\ PanelHalvesMatch'
  <2>1. CASE blurred'
    BY <2>1 DEF PanelIsSound, PanelHalvesMatch
  <2>2. CASE ~blurred' /\ PanelRead
    <3>1. ~blurred
      BY <1>1, <2>2
    <3>. QED  BY <1>1, <1>16, <2>2, <3>1
              DEF SnapshotIInv, PanelIsSound, SeenIsSound, PanelHalvesMatch
  <2>3. CASE ~blurred' /\ ~PanelRead
    <3>1. \A t \in 1 .. TablesUsed : panel[t].day = 0 /\ ~panel[t].done
      BY <1>1, <2>3 DEF Reading
    <3>. QED  BY <1>1, <1>16, <2>3, <3>1 DEF PanelIsSound, SeenIsSound, PanelHalvesMatch
  <2>. QED  BY <2>1, <2>2, <2>3
<1>. QED  BY <1>13, <1>15, <1>22, <1>23, <1>24 DEF SnapshotIInv

-----------------------------------------------------------------------------

(* The panel is read                                                       *)

(* Only the panel changes.                                                 *)
LEMMA ReadingKeepsThePushes ==
    ASSUME SnapshotIInv, panel' \in [Tables -> PanelRec],
           UNCHANGED <<surface, push, stored, last, crossed, blurred>>
    PROVE  /\ SnapshotTypeOK' /\ StoredIsCommitted' /\ LastIsCommitted' /\ LastPushStands'
           /\ \A p \in Pushes : PushIsSound(p)'
           /\ UNCHANGED <<TablesUsed, DaysUsed>>
           /\ \A t \in Tables : \A d : Snapshot(t, d)' = Snapshot(t, d)
           /\ \A t \in Tables : DaysOf(t)' = DaysOf(t)
<1>1. SnapshotTypeOK'
  BY DEF SnapshotIInv, SnapshotTypeOK, PanelRec
<1>2. UNCHANGED <<TablesUsed, DaysUsed>>
  BY DEF TablesUsed, DaysUsed
<1>3. \A t \in Tables : \A d : Snapshot(t, d)' = Snapshot(t, d)
  BY DEF Snapshot
<1>4. \A t \in Tables : DaysOf(t)' = DaysOf(t)
  BY <1>2, <1>3 DEF DaysOf
<1>5. StoredIsCommitted' /\ LastIsCommitted' /\ LastPushStands'
  BY <1>2 DEF SnapshotIInv, StoredIsCommitted, LastIsCommitted, Committed,
              LastPushStands, RowsOf, Snapshot
<1>6. \A p \in Pushes : PushIsSound(p)'
  BY <1>2 DEF SnapshotIInv, PushIsSound, OpenIsSound, Committed, Snapshot
<1>. QED  BY <1>1, <1>2, <1>3, <1>4, <1>5, <1>6

(* While nothing is committed, the two tables are of the same days.        *)
LEMMA TablesHaveTheSameDays ==
    ASSUME SnapshotIInv, NEW t \in 1 .. TablesUsed, NEW d \in DaysUsed
    PROVE  /\ d \in DaysOf(t) <=> last[d] # NoPush
           /\ last[d] # NoPush =>
                 \E r \in Snapshot(t, d) : r.by = last[d]
<1>1. t \in Tables /\ d \in Days
  BY TablesAreTwo
<1>2. CASE last[d] = NoPush
  BY <1>2 DEF SnapshotIInv, LastPushStands, DaysOf
<1>3. CASE last[d] # NoPush
  <2>1. PICK q \in Pushes : q = last[d]
    BY <1>1, <1>3, SnapshotTypes DEF SnapshotIInv
  <2>2. Committed(q) /\ push[q].names[t] # {}
    BY <1>1, <1>3, <2>1 DEF SnapshotIInv, LastIsCommitted, PushIsSound
  <2>3. RowsOf(q, t) # {} /\ \A r \in RowsOf(q, t) : r.by = q
    BY <1>1, <2>2, RowsOfAPush DEF SnapshotIInv
  <2>4. RowsOf(q, t) \subseteq Snapshot(t, d)
    BY <1>3, <2>1 DEF SnapshotIInv, LastPushStands
  <2>. QED  BY <1>3, <2>1, <2>3, <2>4 DEF DaysOf
<1>. QED  BY <1>2, <1>3

LEMMA SeeingKeepsSnapshotIInv ==
    ASSUME SnapshotIInv, NEW t \in 1 .. TablesUsed, ~panel[t].done,
           NEW c \in PanelRec, SeenIsSound(t, c) \/ blurred,
           panel' = [panel EXCEPT ![t] = c],
           UNCHANGED <<surface, push, stored, last, crossed, blurred>>
    PROVE  SnapshotIInv'
<1>1. panel \in [Tables -> PanelRec] /\ t \in Tables /\ ~PanelRead
  BY SnapshotTypes, TablesAreTwo DEF SnapshotIInv, PanelRead
<1>2. panel' \in [Tables -> PanelRec] /\ panel'[t] = c
      /\ \A u \in Tables \ {t} : panel'[u] = panel[u]
  BY <1>1
<1>3. /\ SnapshotTypeOK' /\ StoredIsCommitted' /\ LastIsCommitted' /\ LastPushStands'
      /\ \A p \in Pushes : PushIsSound(p)'
      /\ UNCHANGED <<TablesUsed, DaysUsed>>
      /\ \A u \in Tables : \A d : Snapshot(u, d)' = Snapshot(u, d)
      /\ \A u \in Tables : DaysOf(u)' = DaysOf(u)
  BY <1>2, ReadingKeepsThePushes
<1>4. CASE blurred
  BY <1>3, <1>4 DEF SnapshotIInv, PanelIsSound, PanelHalvesMatch
<1>5. CASE ~blurred
  <2>1. \A u \in 1 .. TablesUsed : SeenIsSound(u, panel'[u])
    BY <1>1, <1>2, <1>5, TablesAreTwo DEF SnapshotIInv, PanelIsSound
  <2>2. \A u \in 1 .. TablesUsed : SeenIsSound(u, panel[u])'
    BY <1>3, <2>1, TablesAreTwo DEF SeenIsSound
  <2>3. PanelIsSound'
    BY <1>3, <2>2 DEF PanelIsSound
  <2>4. ASSUME PanelRead', NEW u \in 1 .. TablesUsed, NEW v \in 1 .. TablesUsed
        PROVE  /\ panel'[u].day = panel'[v].day
               /\ {r.by : r \in panel'[u].rows} \cap {r.by : r \in panel'[v].rows} = {}
                     => panel'[u].day = 0
    <3>1. panel'[u].done /\ panel'[v].done /\ u \in Tables /\ v \in Tables
      BY <1>3, <2>4, TablesAreTwo DEF PanelRead
    <3>2. SeenIsSound(u, panel'[u]) /\ SeenIsSound(v, panel'[v])
      BY <2>1
    <3>3. DaysOf(u) = DaysOf(v) /\ DaysOf(u) \subseteq Nat \ {0}
      <4>1. DaysOf(u) \subseteq DaysUsed /\ DaysOf(v) \subseteq DaysUsed
        BY DEF DaysOf
      <4>2. \A d \in DaysUsed : d \in DaysOf(u) <=> d \in DaysOf(v)
        BY TablesHaveTheSameDays
      <4>. QED  BY <4>1, <4>2, TablesAreTwo, SnapshotAssumption
    <3>4. panel'[u].day = panel'[v].day
      <4>1. CASE panel'[u].day = 0 \/ panel'[v].day = 0
        BY <3>1, <3>2, <3>3, <4>1 DEF SeenIsSound
      <4>2. CASE panel'[u].day # 0 /\ panel'[v].day # 0
        <5>1. panel'[u].day <= panel'[v].day /\ panel'[v].day <= panel'[u].day
          BY <3>2, <3>3, <4>2 DEF SeenIsSound
        <5>2. panel'[u].day \in Nat /\ panel'[v].day \in Nat
          BY <3>2, <3>3, <4>2 DEF SeenIsSound
        <5>. QED  BY <5>1, <5>2
      <4>. QED  BY <4>1, <4>2
    <3>5. CASE panel'[u].day # 0
      <4>1. PICK d \in DaysUsed : d = panel'[u].day /\ d \in DaysOf(u) /\ d \in DaysOf(v)
        BY <3>2, <3>3, <3>5 DEF SeenIsSound, DaysOf
      <4>2. panel'[u].rows = Snapshot(u, d) /\ panel'[v].rows = Snapshot(v, d)
        BY <3>1, <3>2, <3>4, <3>5, <4>1 DEF SeenIsSound
      <4>3. (\E r \in Snapshot(u, d) : r.by = last[d])
            /\ (\E r \in Snapshot(v, d) : r.by = last[d])
        BY <4>1, TablesHaveTheSameDays
      <4>. QED  BY <3>4, <4>2, <4>3
    <3>. QED  BY <3>4, <3>5
  <2>. QED  BY <1>3, <2>3, <2>4 DEF SnapshotIInv, PanelHalvesMatch
<1>. QED  BY <1>4, <1>5

LEMMA FindLatestKeepsSnapshotIInv ==
    ASSUME SnapshotIInv, NEW t \in Tables, FindLatest(t)
    PROVE  SnapshotIInv'
<1> DEFINE days == DaysOf(t)
           found == IF days = {} THEN [Unread EXCEPT !.done = TRUE]
                    ELSE [Unread EXCEPT !.day = CHOOSE d \in days :
                                            \A e \in days : e <= d]
<1>1. /\ t \in 1 .. TablesUsed /\ panel' = [panel EXCEPT ![t] = found]
      /\ panel[t] = Unread
      /\ UNCHANGED <<surface, push, stored, last, crossed, blurred>>
  BY TablesAreTwo DEF FindLatest, DaysOf
<1>2. panel \in [Tables -> PanelRec]
  BY SnapshotTypes DEF SnapshotIInv
<1>3. days \subseteq Days /\ days \in SUBSET Nat /\ IsFiniteSet(days)
  <2>1. days \subseteq Days
    BY TablesAreTwo DEF DaysOf
  <2>. QED  BY <2>1, SnapshotAssumption, FS_Subset
<1>4. PICK c \in PanelRec :
         /\ c = found
         /\ c.rows = {}
         /\ days = {} => c.done /\ c.day = 0
         /\ days # {} => ~c.done /\ c.day \in days /\ \A e \in days : e <= c.day
  <2>1. CASE days = {}
    <3>1. found = [day |-> 0, rows |-> {}, done |-> TRUE]
      BY <2>1 DEF Unread
    <3>2. found \in PanelRec
      BY <3>1 DEF PanelRec
    <3>. QED  BY <2>1, <3>1, <3>2
  <2>2. CASE days # {}
    <3>1. PICK m \in days : \A e \in days : m >= e
      BY <1>3, <2>2, FiniteSetsHaveMaxima
    <3>2. \A e \in days : e <= m
      BY <1>3, <3>1
    <3>3. PICK c \in days : /\ c = (CHOOSE d \in days : \A e \in days : e <= d)
                            /\ \A e \in days : e <= c
      BY <3>1, <3>2
    <3>4. found = [day |-> c, rows |-> {}, done |-> FALSE]
      BY <2>2, <3>3 DEF Unread
    <3>5. found \in PanelRec
      BY <1>3, <3>4 DEF PanelRec
    <3>6. found.day = c /\ found.rows = {} /\ found.done = FALSE
      BY <3>4
    <3>. QED  BY <2>2, <3>3, <3>5, <3>6
  <2>. QED  BY <2>1, <2>2
<1>5. panel' = [panel EXCEPT ![t] = c] /\ ~panel[t].done
  BY <1>1, <1>4 DEF Unread
<1>6. SeenIsSound(t, c)
  <2>1. CASE days = {}
    BY <1>4, <2>1 DEF SeenIsSound
  <2>2. CASE days # {}
    BY <1>4, <2>2 DEF SeenIsSound
  <2>. QED  BY <2>1, <2>2
<1>. QED  BY <1>1, <1>5, <1>6, SeeingKeepsSnapshotIInv

LEMMA FindRowsKeepsSnapshotIInv ==
    ASSUME SnapshotIInv, NEW t \in Tables, FindRows(t)
    PROVE  SnapshotIInv'
<1>1. /\ panel[t].day # 0 /\ ~panel[t].done
      /\ panel' = [panel EXCEPT ![t].rows = Snapshot(t, panel[t].day), ![t].done = TRUE]
      /\ UNCHANGED <<surface, push, stored, last, crossed, blurred>>
  BY DEF FindRows
<1>2. panel \in [Tables -> PanelRec] /\ stored \in [Tables -> SUBSET SnapshotRow]
  BY SnapshotTypes DEF SnapshotIInv
<1>3. PICK y \in PanelRec : y = panel[t]
  BY <1>2
<1>4. Snapshot(t, y.day) \in SUBSET SnapshotRow
  BY <1>2 DEF Snapshot
<1>5. PICK c \in PanelRec : c.done /\ c.day = y.day /\ c.rows = Snapshot(t, y.day)
                            /\ c = [y EXCEPT !.rows = Snapshot(t, y.day), !.done = TRUE]
  <2>1. PICK found \in SUBSET SnapshotRow : found = Snapshot(t, y.day)
    BY <1>4
  <2> DEFINE c == [y EXCEPT !.rows = found, !.done = TRUE]
  <2>2. c \in PanelRec /\ c.done /\ c.day = y.day /\ c.rows = found
    BY DEF PanelRec
  <2>3. c = [y EXCEPT !.rows = Snapshot(t, y.day), !.done = TRUE]
    BY <2>1
  <2>. HIDE DEF c
  <2>. QED  BY <2>1, <2>2, <2>3
<1>6. panel' = [panel EXCEPT ![t] = c]
  BY <1>1, <1>2, <1>3, <1>5
<1>7. CASE t \in 1 .. TablesUsed
  <2>1. SeenIsSound(t, c) \/ blurred
    <3>1. CASE ~blurred
      <4>1. SeenIsSound(t, y)
        BY <1>1, <1>3, <1>7, <3>1 DEF SnapshotIInv, PanelIsSound, PanelRead
      <4>. QED  BY <1>1, <1>3, <1>5, <4>1 DEF SeenIsSound
    <3>. QED  BY <3>1
  <2>. QED  BY <1>1, <1>6, <1>7, <2>1, SeeingKeepsSnapshotIInv
<1>8. CASE t \notin 1 .. TablesUsed
  <2>1. panel' \in [Tables -> PanelRec]
        /\ \A u \in 1 .. TablesUsed : panel'[u] = panel[u] /\ u \in Tables
    BY <1>2, <1>6, <1>8, TablesAreTwo
  <2>2. /\ SnapshotTypeOK' /\ StoredIsCommitted' /\ LastIsCommitted' /\ LastPushStands'
        /\ \A p \in Pushes : PushIsSound(p)'
        /\ UNCHANGED <<TablesUsed, DaysUsed>>
        /\ \A u \in Tables : \A d : Snapshot(u, d)' = Snapshot(u, d)
        /\ \A u \in Tables : DaysOf(u)' = DaysOf(u)
    BY <1>1, <2>1, ReadingKeepsThePushes
  <2>3. PanelRead' <=> PanelRead
    BY <2>1, <2>2 DEF PanelRead
  <2>4. ASSUME NEW u \in 1 .. TablesUsed, SeenIsSound(u, panel[u])
        PROVE  SeenIsSound(u, panel[u])'
    BY <2>1, <2>2, <2>4 DEF SeenIsSound
  <2>5. PanelIsSound'
    BY <1>1, <2>2, <2>3, <2>4 DEF SnapshotIInv, PanelIsSound
  <2>6. PanelHalvesMatch'
    <3>1. \A u \in 1 .. TablesUsed :
             /\ panel'[u].day = panel[u].day
             /\ {r.by : r \in panel'[u].rows} = {r.by : r \in panel[u].rows}
      BY <2>1
    <3>2. ASSUME PanelRead, ~blurred, NEW u \in 1 .. TablesUsed, NEW v \in 1 .. TablesUsed
          PROVE  /\ panel'[u].day = panel'[v].day
                 /\ {r.by : r \in panel'[u].rows} \cap {r.by : r \in panel'[v].rows} = {}
                       => panel'[u].day = 0
      <4>1. /\ panel[u].day = panel[v].day
            /\ {r.by : r \in panel[u].rows} \cap {r.by : r \in panel[v].rows} = {}
                  => panel[u].day = 0
        BY <3>2 DEF SnapshotIInv, PanelHalvesMatch
      <4>. QED  BY <3>1, <4>1
    <3>. QED  BY <1>1, <2>2, <2>3, <3>2 DEF PanelHalvesMatch
  <2>. QED  BY <2>2, <2>5, <2>6 DEF SnapshotIInv
<1>. QED  BY <1>7, <1>8

LEMMA SnapshotStepKeepsIInv ==
    ASSUME SnapshotIInv, [SnapshotNext]_snapshotVars
    PROVE  SnapshotIInv'
<1>1. CASE UNCHANGED snapshotVars
  <2>1. UNCHANGED <<surface, push, stored, last, crossed, panel, blurred>>
    BY <1>1 DEF snapshotVars
  <2>2. panel' \in [Tables -> PanelRec]
    BY <2>1, SnapshotTypes DEF SnapshotIInv
  <2>3. /\ SnapshotTypeOK' /\ StoredIsCommitted' /\ LastIsCommitted' /\ LastPushStands'
        /\ \A p \in Pushes : PushIsSound(p)'
        /\ UNCHANGED <<TablesUsed, DaysUsed>>
        /\ \A u \in Tables : \A d : Snapshot(u, d)' = Snapshot(u, d)
        /\ \A u \in Tables : DaysOf(u)' = DaysOf(u)
    BY <2>1, <2>2, ReadingKeepsThePushes
  <2>4. PanelIsSound' /\ PanelHalvesMatch'
    <3>1. \A u \in 1 .. TablesUsed : SeenIsSound(u, panel[u])' <=> SeenIsSound(u, panel[u])
      BY <2>1, <2>3, TablesAreTwo DEF SeenIsSound
    <3>. QED  BY <2>1, <2>3, <3>1
              DEF SnapshotIInv, PanelIsSound, PanelHalvesMatch, PanelRead
  <2>. QED  BY <2>3, <2>4 DEF SnapshotIInv
<1>2. ASSUME NEW p \in Pushes, SendPush(p) PROVE SnapshotIInv'
  BY <1>2, SendPushKeepsSnapshotIInv
<1>3. ASSUME NEW p \in Pushes, StartDelete(p) PROVE SnapshotIInv'
  BY <1>3, StartDeleteKeepsSnapshotIInv
<1>4. ASSUME NEW p \in Pushes, FinishDelete(p) PROVE SnapshotIInv'
  BY <1>4, FinishDeleteKeepsSnapshotIInv
<1>5. ASSUME NEW p \in Pushes, InsertRows(p) PROVE SnapshotIInv'
  BY <1>5, InsertRowsKeepsSnapshotIInv
<1>6. ASSUME NEW p \in Pushes, CommitPush(p) PROVE SnapshotIInv'
  BY <1>6, CommitKeepsSnapshotIInv
<1>7. ASSUME NEW p \in Pushes, RollBack(p) PROVE SnapshotIInv'
  BY <1>7, RollBackKeepsSnapshotIInv
<1>8. ASSUME NEW t \in Tables, FindLatest(t) PROVE SnapshotIInv'
  BY <1>8, FindLatestKeepsSnapshotIInv
<1>9. ASSUME NEW t \in Tables, FindRows(t) PROVE SnapshotIInv'
  BY <1>9, FindRowsKeepsSnapshotIInv
<1>. QED  BY <1>1, <1>2, <1>3, <1>4, <1>5, <1>6, <1>7, <1>8, <1>9 DEF SnapshotNext

(***************************************************************************)
(* The books together                                                      *)
(***************************************************************************)

BooksIInv ==
    /\ PagingInv /\ DrainIInv /\ RollupIInv /\ SnapshotIInv

(* An application's entries agree with its status, the rollups are of the  *)
(* ledger, and a silo's snapshots are those last pushed, whatever the      *)
(* number of events, workers, jobs, periods and pushes: the drains' writer *)
(* of entries, revenue-rollup.worker and portfolio.repository.             *)
THEOREM BooksAreAlwaysSound == BooksSpec => []BooksAreSound
<1>1. BooksInit => BooksIInv
  <2>. SUFFICES ASSUME BooksInit PROVE BooksIInv
    OBVIOUS
  <2>1. PagingInv
    BY PagingInitInv DEF BooksInit
  <2>2. DrainIInv
    BY DrainInitIInv DEF BooksInit
  <2>3. RollupIInv
    BY RollupInitIInv DEF BooksInit
  <2>4. SnapshotIInv
    BY SnapshotInitIInv DEF BooksInit
  <2>. QED  BY <2>1, <2>2, <2>3, <2>4 DEF BooksIInv
<1>2. BooksIInv /\ [BooksNext]_booksVars => BooksIInv'
  <2>. SUFFICES ASSUME BooksIInv, [BooksNext]_booksVars PROVE BooksIInv'
    OBVIOUS
  <2>1. /\ [PagingNext]_pagingVars /\ [DrainNext]_drainVars
        /\ [RollupNext]_rollupVars /\ [SnapshotNext]_snapshotVars
    BY DEF BooksNext, OthersRest, booksVars
  <2>2. PagingInv'
    BY <2>1, PagingStepInv DEF BooksIInv
  <2>3. DrainIInv'
    BY <2>1, DrainStepKeepsIInv DEF BooksIInv
  <2>4. RollupIInv'
    BY <2>1, RollupStepKeepsIInv DEF BooksIInv
  <2>5. SnapshotIInv'
    BY <2>1, SnapshotStepKeepsIInv DEF BooksIInv
  <2>. QED  BY <2>2, <2>3, <2>4, <2>5 DEF BooksIInv
<1>3. BooksIInv => BooksAreSound
  BY DrainIInvIsEnough
     DEF BooksIInv, BooksAreSound, PagingInv, RollupIInv, SnapshotIInv
<1>. QED  BY <1>1, <1>2, <1>3, PTL DEF BooksSpec
=============================================================================
