-------------------------- MODULE MCApplicationDrain --------------------------
(***************************************************************************)
(* Instances of ApplicationDrain for TLC.  Deliveries are interchangeable: *)
(* each may turn out to be an event of any kind.                           *)
(***************************************************************************)
EXTENDS ApplicationDrain, TLC

Interchangeable == Permutations(Events)
=============================================================================
