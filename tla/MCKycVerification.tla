-------------------------- MODULE MCKycVerification --------------------------
(* Instances of KycVerification for TLC; the values are in the cfg file. *)
EXTENDS KycVerification, TLC
=============================================================================
