---------------------------- MODULE MCCoSigning ----------------------------
(* Five signers of whom three must confirm: the backend, the daemon's two   *)
(* accounts and two who run neither program.                                *)
EXTENDS CoSigning, TLC
CONSTANTS c1, c2
CONSTANTS d1, b1, r1
MCFlushed == {[district |-> d1, batch |-> b1, root |-> r1]}
MCCoSigners == <<c1, c2>>
=============================================================================
