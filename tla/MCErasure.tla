------------------------------ MODULE MCErasure ------------------------------
(***************************************************************************)
(* A small instance of Erasure alone: one request, one application, one    *)
(* credit enrichment.                                                      *)
(***************************************************************************)
EXTENDS Erasure, TLC
=============================================================================
