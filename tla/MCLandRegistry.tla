--------------------------- MODULE MCLandRegistry ---------------------------
(* Instances of LandRegistry for TLC. *)
EXTENDS LandRegistry, TLC

\* Disputes are alike, and so are appeals.
Symmetric == Permutations(Dispute) \cup Permutations(Appeal)
=============================================================================
