------------------------- MODULE PortfolioSnapshots -------------------------
(***************************************************************************)
(* The snapshots of a silo that operators push and the panels show         *)
(* (domains/portfolio): each push replaces a set of rows, by deleting and  *)
(* inserting in one transaction, at READ COMMITTED.                        *)
(*                                                                         *)
(* Revenue is two tables, channels and products, replaced together for     *)
(* one day; headcount is one table, replaced for one day; P&L and cohorts  *)
(* are one table, replaced whole.  A DELETE takes the rows that are        *)
(* committed when it starts, waits for other transactions that delete them *)
(* too, and passes over what those have meanwhile put in their place.  An  *)
(* INSERT waits for the same name in another transaction, and fails if it  *)
(* is committed.                                                           *)
(***************************************************************************)
EXTENDS Integers, FiniteSets

CONSTANTS
    Pushes,    \* the pushes of operators
    NoPush,
    RowNames,  \* channels, products, functions or months: unique in a snapshot
    Days       \* the days a push can be for

ASSUME SnapshotAssumption ==
    /\ NoPush \notin Pushes
    /\ Days \subseteq Nat \ {0} /\ 1 \in Days /\ IsFiniteSet(Days)
    /\ RowNames # {}

VARIABLES
    surface,  \* what the pushes are of
    push,     \* per push: its transaction
    stored,   \* per table: the committed rows, each with its push
    last,     \* history, per day: the last push committed
    crossed,  \* history, per push: those committed for its day while it was open
    panel,    \* per table: what the one reader has seen of it
    blurred   \* history: a push was committed while the reader read

snapshotVars == <<surface, push, stored, last, crossed, panel, blurred>>

Surfaces == {"revenue", "headcount", "whole"}

Tables == {1, 2}
TablesUsed == IF surface = "revenue" THEN 2 ELSE 1

(* P&L and cohorts are replaced without regard to a day: all days are one. *)
DaysUsed == IF surface = "whole" THEN {1} ELSE Days

(* The statements of a push: a DELETE per table, then an INSERT per table  *)
TableOf(n) == IF n <= TablesUsed THEN n ELSE n - TablesUsed
IsDelete(n) == n <= TablesUsed

SnapshotRow == [by : Pushes, name : RowNames]

Unsent == [state |-> "unsent", day |-> 1, names |-> [t \in Tables |-> {}],
           next |-> 1, waiting |-> FALSE, targets |-> {},
           removed |-> [t \in Tables |-> {}]]

Unread == [day |-> 0, rows |-> {}, done |-> FALSE]

SnapshotTypeOK ==
    /\ surface \in Surfaces
    /\ push \in [Pushes -> [state : {"unsent", "open", "committed", "aborted"},
                            day : Days,
                            names : [Tables -> SUBSET RowNames],
                            next : 1 .. 5,
                            waiting : BOOLEAN,
                            targets : SUBSET SnapshotRow,
                            removed : [Tables -> SUBSET SnapshotRow]]]
    /\ stored \in [Tables -> SUBSET SnapshotRow]
    /\ last \in [Days -> Pushes \cup {NoPush}]
    /\ crossed \in [Pushes -> SUBSET Pushes]
    /\ panel \in [Tables -> [day : Days \cup {0}, rows : SUBSET SnapshotRow,
                             done : BOOLEAN]]
    /\ blurred \in BOOLEAN

(* Some snapshot has been pushed before, with every name there is.         *)
SnapshotInit ==
    /\ surface \in Surfaces
    /\ \E first \in Pushes, d \in DaysUsed :
          LET full == [t \in Tables |-> IF t <= TablesUsed THEN RowNames ELSE {}]
          IN  /\ push = [p \in Pushes |->
                            IF p = first
                            THEN [Unsent EXCEPT !.state = "committed",
                                                !.day = d, !.names = full]
                            ELSE Unsent]
              /\ stored = [t \in Tables |-> [by : {first}, name : full[t]]]
              /\ last = [e \in Days |-> IF e = d THEN first ELSE NoPush]
    /\ crossed = [p \in Pushes |-> {}]
    /\ panel = [t \in Tables |-> Unread]
    /\ blurred = FALSE

-----------------------------------------------------------------------------

Open == {p \in Pushes : push[p].state = "open"}

(* The committed rows of a day                                             *)
Snapshot(t, d) == {r \in stored[t] : push[r.by].day = d}

RowsOf(p, t) == {[by |-> p, name |-> n] : n \in push[p].names[t]}

(* The names an open transaction has inserted, or deleted, in a table      *)
Inserted(q, t) ==
    IF push[q].next > TablesUsed + t THEN push[q].names[t] ELSE {}
Removed(q, t) == {r.name : r \in push[q].removed[t]}

(* An operator sends a snapshot; each of its tables has a row at least.    *)
SendPush(p) ==
    /\ push[p].state = "unsent"
    /\ \E d \in DaysUsed, names \in [Tables -> SUBSET RowNames] :
          /\ \A t \in Tables : names[t] = {} <=> t > TablesUsed
          /\ push' = [push EXCEPT ![p].state = "open", ![p].day = d,
                                  ![p].names = names]
    /\ UNCHANGED <<surface, stored, last, crossed, panel, blurred>>

(* Defect: the rows of all days are deleted.                               *)
StartDeleteAll(p) ==
    LET tx == push[p]
    IN  /\ p \in Open /\ IsDelete(tx.next) /\ ~tx.waiting
        /\ push' = [push EXCEPT ![p].waiting = TRUE,
                                ![p].targets = stored[TableOf(tx.next)]]
        /\ UNCHANGED <<surface, stored, last, crossed, panel, blurred>>

(* A DELETE starts: it sees the committed rows of its day.                 *)
StartDelete(p) ==
    LET tx == push[p]
    IN  /\ p \in Open /\ IsDelete(tx.next) /\ ~tx.waiting
        /\ push' = [push EXCEPT ![p].waiting = TRUE,
                                ![p].targets = Snapshot(TableOf(tx.next), tx.day)]
        /\ UNCHANGED <<surface, stored, last, crossed, panel, blurred>>

(* It goes on when no other open transaction has deleted a row of those,   *)
(* and deletes those that are left.                                        *)
FinishDelete(p) ==
    LET tx == push[p]
        t == TableOf(tx.next)
    IN  /\ p \in Open /\ tx.waiting
        /\ \A q \in Open \ {p} : tx.targets \cap push[q].removed[t] = {}
        /\ push' = [push EXCEPT ![p].waiting = FALSE, ![p].targets = {},
                                ![p].removed[t] = tx.targets \cap stored[t],
                                ![p].next = @ + 1]
        /\ UNCHANGED <<surface, stored, last, crossed, panel, blurred>>

(* An INSERT waits while another open transaction has inserted or deleted  *)
(* one of its names, and fails on a committed one: then all is rolled back.*)
InsertRows(p) ==
    LET tx == push[p]
        t == TableOf(tx.next)
        present == Snapshot(t, tx.day) \ tx.removed[t]
    IN  /\ p \in Open /\ ~IsDelete(tx.next) /\ tx.next <= 2 * TablesUsed
        /\ \A q \in Open \ {p} :
              push[q].day = tx.day =>
                 tx.names[t] \cap (Inserted(q, t) \cup Removed(q, t)) = {}
        /\ push' = IF \E r \in present : r.name \in tx.names[t]
                   THEN [push EXCEPT ![p] = [Unsent EXCEPT !.state = "aborted"]]
                   ELSE [push EXCEPT ![p].next = @ + 1]
        /\ UNCHANGED <<surface, stored, last, crossed, panel, blurred>>

(* A statement fails, waits too long or meets a deadlock, or the process   *)
(* dies: the transaction is rolled back.                                   *)
RollBack(p) ==
    /\ p \in Open
    /\ push' = [push EXCEPT ![p] = [Unsent EXCEPT !.state = "aborted"]]
    /\ UNCHANGED <<surface, stored, last, crossed, panel, blurred>>

Reading == \E t \in 1 .. TablesUsed : panel[t].day # 0 \/ panel[t].done

PanelRead == \A t \in 1 .. TablesUsed : panel[t].done

(* What a commit makes visible in the tables of `landing`                  *)
Land(p, landing) ==
    LET d == push[p].day
    IN  /\ stored' = [t \in Tables |->
                         IF t \in landing
                         THEN (stored[t] \ push[p].removed[t]) \cup RowsOf(p, t)
                         ELSE stored[t]]
        /\ push' = [push EXCEPT ![p].state = "committed", ![p].next = 1,
                                ![p].removed = Unsent.removed]
        /\ last' = [last EXCEPT ![d] = p]
        /\ crossed' = [q \in Pushes |->
                          IF q \in Open \ {p} /\ push[q].day = d
                          THEN crossed[q] \cup {p} ELSE crossed[q]]
        /\ blurred' = (blurred \/ (Reading /\ ~PanelRead))
        /\ UNCHANGED <<surface, panel>>

(* Defect: channels and products are transactions of their own, and the    *)
(* second fails.                                                           *)
CommitHalf(p) ==
    /\ p \in Open /\ push[p].next > 2 * TablesUsed
    /\ \E landing \in SUBSET Tables : landing # {} /\ Land(p, landing)

(* The transaction is committed, all its tables at once.                   *)
CommitPush(p) ==
    /\ p \in Open /\ push[p].next > 2 * TablesUsed
    /\ Land(p, Tables)

-----------------------------------------------------------------------------

(* The panel is read by two queries at once, one per table; each looks up  *)
(* the latest day there is, and then the rows of that day.                 *)
FindLatest(t) ==
    /\ t <= TablesUsed /\ panel[t] = Unread
    /\ LET days == {d \in DaysUsed : Snapshot(t, d) # {}}
       IN  panel' = [panel EXCEPT
               ![t] = IF days = {} THEN [Unread EXCEPT !.done = TRUE]
                      ELSE [Unread EXCEPT !.day = CHOOSE d \in days :
                                              \A e \in days : e <= d]]
    /\ UNCHANGED <<surface, push, stored, last, crossed, blurred>>

FindRows(t) ==
    /\ panel[t].day # 0 /\ ~panel[t].done
    /\ panel' = [panel EXCEPT ![t].rows = Snapshot(t, panel[t].day),
                              ![t].done = TRUE]
    /\ UNCHANGED <<surface, push, stored, last, crossed, blurred>>

SnapshotNext ==
    \/ \E p \in Pushes :
          \/ SendPush(p) \/ StartDelete(p) \/ FinishDelete(p)
          \/ InsertRows(p) \/ CommitPush(p) \/ RollBack(p)
    \/ \E t \in Tables : FindLatest(t) \/ FindRows(t)

SnapshotSpec == SnapshotInit /\ [][SnapshotNext]_snapshotVars

-----------------------------------------------------------------------------

(* replaceRevenue and its like: the tables hold, for each day, all of what *)
(* was pushed last, in both halves, and besides it nothing but rows of     *)
(* pushes that were committed while that one was open.                     *)
LastPushStands ==
    \A d \in DaysUsed, t \in 1 .. TablesUsed :
        IF last[d] = NoPush THEN Snapshot(t, d) = {}
        ELSE /\ RowsOf(last[d], t) \subseteq Snapshot(t, d)
             /\ \A r \in Snapshot(t, d) : r.by \in {last[d]} \cup crossed[last[d]]

(* GET .../revenue: a panel read while nothing was committed shows both    *)
(* halves as of one day, with the last push for it.                        *)
PanelHalvesMatch ==
    PanelRead /\ ~blurred =>
        \A t, u \in 1 .. TablesUsed :
            /\ panel[t].day = panel[u].day
            /\ {r.by : r \in panel[t].rows} \cap {r.by : r \in panel[u].rows} = {}
                  => panel[t].day = 0
=============================================================================
