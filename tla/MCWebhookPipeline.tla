-------------------------- MODULE MCWebhookPipeline --------------------------
(***************************************************************************)
(* Instances of WebhookPipeline for TLC.  Requests are interchangeable, and *)
(* so are the job slots of the workers.                                    *)
(***************************************************************************)
EXTENDS WebhookPipeline, TLC

Interchangeable == Permutations(Requests) \cup Permutations(Workers)
=============================================================================
