---------------------------- MODULE AnchoredLog ----------------------------
(***************************************************************************)
(* What anchoring promises of one district's ledger, without batches,      *)
(* transactions or failures: a log that only grows, of which an initial    *)
(* segment is anchored.  The segment only grows, never leaves a hole and   *)
(* never passes the end of the log.                                        *)
(***************************************************************************)
EXTENDS Naturals

VARIABLES
    length,      \* number of events in the log
    anchored     \* the events that are anchored

logVars == <<length, anchored>>

LogInit == length = 0 /\ anchored = {}

\* An event is appended, not anchored yet.
Extend == length' = length + 1 /\ UNCHANGED anchored

\* A longer initial segment becomes the anchored one.
Anchor ==
    /\ \E k \in 1..length : /\ anchored \subseteq 1..k /\ anchored # 1..k
                            /\ anchored' = 1..k
    /\ UNCHANGED length

LogNext == Extend \/ Anchor

LogSpec == LogInit /\ [][LogNext]_logVars
=============================================================================
