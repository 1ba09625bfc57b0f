---------------------------- MODULE KeysetPaging ----------------------------
(***************************************************************************)
(* A client that reads a list page by page while its table is written to.  *)
(*                                                                         *)
(* GET /applications, GET /revenue/ledger and GET /partners answer the     *)
(* newest `limit` rows beyond a cursor, ordered by time and then by id,    *)
(* and a cursor for the rest.  The table may change between two pages: a   *)
(* row is inserted with any time (the ledger's effective_at is the         *)
(* sender's, and a row written by a longer transaction, or read from the   *)
(* replica, shows up after younger ones), is updated so that it leaves or  *)
(* enters the filter, or is soft-deleted.  GET /partners can also be       *)
(* searched, which the repository combines with the cursor in its own way. *)
(***************************************************************************)
EXTENDS Integers, FiniteSets

CONSTANTS
    Ids,        \* the ids rows can have, ordered as their strings are
    RowTimes,   \* the instants rows can bear
    Limit,      \* rows of a page
    NoListRow,  \* the value of an id that no row has yet
    NoCursor    \* the cursor of the first page

ASSUME PagingAssumption ==
    /\ Ids \subseteq Nat /\ IsFiniteSet(Ids)
    /\ RowTimes \subseteq Nat
    /\ Limit \in Nat \ {0}

VARIABLES
    rows,       \* [Ids -> Row], NoListRow where there is none
    searching,  \* whether the listing has a search text
    cursor,     \* what the next page is asked with
    steady,     \* the rows listed ever since the first page was answered
    returned,   \* the rows the client was given
    repeated,   \* those it was given more than once
    listEnded   \* the last page said there are no more

pagingVars ==
    <<rows, searching, cursor, steady, returned, repeated, listEnded>>

(* `fits` says that the row passes the filters and is not deleted, `hit`   *)
(* that it contains the search text.                                       *)
Row == [time : RowTimes, fits : BOOLEAN, hit : BOOLEAN]

Cursor == [time : RowTimes, id : Ids]

(* What stands for no row and for no cursor is neither.                    *)
ASSUME NoneAssumption == NoListRow \notin Row /\ NoCursor \notin Cursor

ListRows == {i \in Ids : rows[i] # NoListRow}

(* orderBy: time descending, then id descending                            *)
Newer(i, j) ==
    \/ rows[i].time > rows[j].time
    \/ rows[i].time = rows[j].time /\ i > j

(* The cursor's condition: strictly older than the row it was made of      *)
Beyond(i) ==
    \/ rows[i].time < cursor.time
    \/ rows[i].time = cursor.time /\ i < cursor.id

(* What a listing is about: rows that fit, and if it searches, that match  *)
Listed(i) == i \in ListRows /\ rows[i].fits /\ (searching => rows[i].hit)

(* Defect: the cursor's time alone, without the id that breaks ties.       *)
SelectedByTime(i) ==
    /\ i \in ListRows /\ rows[i].fits
    /\ ~searching /\ (cursor # NoCursor => rows[i].time < cursor.time)

(* The where clause of the repositories.  PartnerRepository.list adds the  *)
(* cursor's alternatives to those of the search, all in one OR.            *)
Selected(i) ==
    /\ i \in ListRows /\ rows[i].fits
    /\ IF searching
       THEN rows[i].hit \/ (cursor # NoCursor /\ Beyond(i))
       ELSE cursor # NoCursor => Beyond(i)

Candidates == {i \in Ids : Selected(i)}

(* `take`: the newest Limit of a set of rows                               *)
Page(S) == {i \in S : Cardinality({j \in S : Newer(j, i)}) < Limit}

-----------------------------------------------------------------------------

PagingInit ==
    /\ rows = [i \in Ids |-> NoListRow]
    /\ searching \in BOOLEAN
    /\ cursor = NoCursor
    /\ steady = {} /\ returned = {} /\ repeated = {}
    /\ listEnded = FALSE

ListingRests == UNCHANGED <<searching, cursor, returned, repeated, listEnded>>

(* A row is created (a ledger row, an application, a partner).  Nothing    *)
(* orders its time after the times already there.                          *)
Insert(i) ==
    /\ rows[i] = NoListRow
    /\ \E r \in Row :
          /\ ~searching => r.hit
          /\ rows' = [rows EXCEPT ![i] = r]
    /\ steady' = steady
    /\ ListingRests

(* A row is updated or soft-deleted: it changes sides of the filter or of  *)
(* the search, and keeps its time and its id.                              *)
Update(i) ==
    /\ i \in ListRows
    /\ \E r \in Row :
          /\ r.time = rows[i].time
          /\ ~searching => r.hit
          /\ rows' = [rows EXCEPT ![i] = r]
          /\ steady' = IF r.fits /\ (searching => r.hit)
                       THEN steady ELSE steady \ {i}
    /\ ListingRests

(* Defect: the cursor is made of the extra row that tells there are more.  *)
FetchPageOverlooking ==
    LET data == Page(Candidates)
    IN  /\ ~listEnded
        /\ returned' = returned \cup data
        /\ repeated' = repeated \cup (returned \cap data)
        /\ listEnded' = ~(Cardinality(Candidates) > Limit)
        /\ IF listEnded' THEN cursor' = cursor
           ELSE \E extra \in Page(Candidates \ data) :
                   /\ \A i \in Candidates \ data : i = extra \/ Newer(extra, i)
                   /\ cursor' = [time |-> rows[extra].time, id |-> extra]
        /\ steady' = IF cursor = NoCursor
                     THEN {i \in Ids : Listed(i)} ELSE steady
        /\ UNCHANGED <<rows, searching>>

(* One page: the repository's query, and paginate.  limit + 1 rows are     *)
(* taken, which tells whether there are more than limit; the cursor is     *)
(* made of the page's last row.                                            *)
FetchPage ==
    LET data == Page(Candidates)
        hasMore == Cardinality(Candidates) > Limit
    IN  /\ ~listEnded
        /\ returned' = returned \cup data
        /\ repeated' = repeated \cup (returned \cap data)
        /\ listEnded' = ~hasMore
        /\ IF hasMore
           THEN \E tail \in data :
                   /\ \A i \in data : i = tail \/ Newer(i, tail)
                   /\ cursor' = [time |-> rows[tail].time, id |-> tail]
           ELSE cursor' = cursor
        /\ steady' = IF cursor = NoCursor
                     THEN {i \in Ids : Listed(i)} ELSE steady
        /\ UNCHANGED <<rows, searching>>

PagingNext ==
    \/ \E i \in Ids : Insert(i) \/ Update(i)
    \/ FetchPage

PagingSpec == PagingInit /\ [][PagingNext]_pagingVars

-----------------------------------------------------------------------------

PagingTypeOK ==
    /\ rows \in [Ids -> Row \cup {NoListRow}]
    /\ searching \in BOOLEAN
    /\ cursor \in Cursor \cup {NoCursor}
    /\ steady \subseteq Ids /\ returned \subseteq Ids /\ repeated \subseteq Ids
    /\ listEnded \in BOOLEAN

(* However the table changes between pages, a listing that comes to its    *)
(* end has given every row that was listed all along, and one that does    *)
(* not search gives no row twice.  (A search of more than a page gives its *)
(* first page over and over: its rows match whatever the cursor is.)       *)
PagesCoverTheList ==
    /\ listEnded => steady \subseteq returned
    /\ ~searching => repeated = {}
=============================================================================
