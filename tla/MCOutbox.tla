------------------------------ MODULE MCOutbox ------------------------------
(***************************************************************************)
(* Instances of Outbox for TLC.  Sweepers and operators are               *)
(* interchangeable, so the safety runs use their symmetry.                 *)
(***************************************************************************)
EXTENDS Outbox, TLC

Replicas == Permutations(Sweepers) \cup Permutations(Operators)
=============================================================================
