-------------------------- MODULE MCChainVerifier --------------------------
(* Instances of ChainVerifier for TLC. *)
EXTENDS ChainVerifier, TLC

CONSTANTS api, cron, loop, thread, script

OneProcess == [w \in Writer |-> api]

\* With one process, districts, threads and payloads are each as good as another.
Interchangeable ==
    Permutations(District) \cup Permutations(Writer) \cup Permutations(Payload)

\* The API process and a cron script on the same database.
TwoProcesses == [w \in Writer |-> IF w = script THEN cron ELSE api]
=============================================================================
