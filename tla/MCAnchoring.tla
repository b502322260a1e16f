---------------------------- MODULE MCAnchoring ----------------------------
(* Instances of PublicVerification and Anchoring for TLC; values in the cfg files. *)
EXTENDS PublicVerification, TLC
=============================================================================
