------------------------------ MODULE MCSessions ------------------------------
(***************************************************************************)
(* Instances of Sessions for TLC.  Requests are interchangeable, and so    *)
(* are tokens; families are not (some belong to investors).                *)
(***************************************************************************)
EXTENDS Sessions, TLC

Interchangeable == Permutations(Clients) \cup Permutations(Tokens)
=============================================================================
