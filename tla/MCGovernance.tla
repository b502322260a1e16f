---------------------------- MODULE MCGovernance ----------------------------
(* An instance of Governance for TLC. *)
EXTENDS Governance, TLC
=============================================================================
