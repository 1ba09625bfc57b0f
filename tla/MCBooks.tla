------------------------------- MODULE MCBooks -------------------------------
(***************************************************************************)
(* The books and their readers, for TLC: the entries an application's      *)
(* events make (ApplicationDrain), the tables read page by page            *)
(* (KeysetPaging) and summed up (RevenueRollup), and the snapshots of      *)
(* silos (PortfolioSnapshots).  A behaviour is one of the part that its    *)
(* initial state names, the others staying as they are.                    *)
(***************************************************************************)
EXTENDS ApplicationDrain, KeysetPaging, RevenueRollup, PortfolioSnapshots,
        TLC

VARIABLE part

booksVars == <<part, drainVars, pagingVars, rollupVars, snapshotVars>>

(* The configuration gives Pushes the values of Events and RowNames those  *)
(* of RollupSlots, as no behaviour has both: fewer permutations to try.    *)
Interchangeable == Permutations(Events) \cup Permutations(RollupSlots)

NoSnapshots ==
    /\ surface = "whole" /\ push = [p \in Pushes |-> Unsent]
    /\ stored = [t \in Tables |-> {}] /\ last = [d \in Days |-> NoPush]
    /\ crossed = [p \in Pushes |-> {}]
    /\ panel = [t \in Tables |-> Unread] /\ blurred = FALSE

BooksInit ==
    /\ part \in {"drain", "lists", "rollups", "snapshots"}
    /\ DrainInit /\ PagingInit /\ RollupInit
    /\ part # "drain" => partner = "none"
    /\ part # "lists" => ~searching
    /\ IF part = "snapshots" THEN SnapshotInit ELSE NoSnapshots

OthersRest ==
    /\ part' = part
    /\ part # "drain" => UNCHANGED drainVars
    /\ part # "lists" => UNCHANGED pagingVars
    /\ part # "rollups" => UNCHANGED rollupVars
    /\ part # "snapshots" => UNCHANGED snapshotVars

BooksNext ==
    /\ OthersRest
    /\ \/ part = "drain" /\ DrainNext
       \/ part = "lists" /\ PagingNext
       \/ part = "rollups" /\ RollupNext
       \/ part = "snapshots" /\ SnapshotNext

BooksSpec == BooksInit /\ [][BooksNext]_booksVars

-----------------------------------------------------------------------------

(* The books hang together: an application's status, decisions, ledger and *)
(* announcements; the rollups, which are sums of the ledger; and a silo's  *)
(* snapshots, which are those pushed last, in channels and products alike. *)
BooksAreSound ==
    /\ PagingTypeOK /\ RollupTypeOK /\ SnapshotTypeOK
    /\ BooksAgree
    /\ RollupsAreOfTheLedger
    /\ LastPushStands /\ PanelHalvesMatch
=============================================================================
