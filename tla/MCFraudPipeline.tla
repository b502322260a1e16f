-------------------------- MODULE MCFraudPipeline --------------------------
(* Instances of FraudPipeline for TLC. *)
EXTENDS FraudPipeline
=============================================================================
