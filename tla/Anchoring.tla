----------------------------- MODULE Anchoring -----------------------------
(***************************************************************************)
(* The anchor service of backend/app/blockchain/anchor_service.py for one  *)
(* district: flush_district, called by the background loop and by the      *)
(* manual routes, and build_proof_for_event.                               *)
(*                                                                         *)
(* All of it runs on one event loop.  A flush is atomic up to its only     *)
(* await, the call of client.commit_batch through the breaker; there other *)
(* handlers append events and other flushes begin.  What follows the await *)
(* is three statements on an autocommitting connection: the process may    *)
(* die between them, and a to_thread job or another process may append.    *)
(*                                                                         *)
(* Events are their sequence numbers: AuditLedgerProofs shows that they    *)
(* are 1, 2, 3, ... per district.  A batch id, a fresh UUID in the code,   *)
(* is the position of the row in the anchors table.  A Merkle root is the  *)
(* set of sequence numbers of its leaves (hashing is assumed collision     *)
(* free; the leaves are in seq order on both sides).                       *)
(***************************************************************************)
EXTENDS Integers, Sequences, FiniteSets

CONSTANTS
    BatchSize,     \* anchor_flush_batch_size
    FlushLimit,    \* most events in a batch, 4 * anchor_flush_batch_size
    MayRevert,     \* whether the contract may reject a batch (paused, role lost)
    MaxEvents,     \* bound: events in the ledger
    MaxBatches,    \* bound: rows of the anchors table
    MaxTroubles    \* bound: breaker, RPC and database failures, manual flushes
                   \* and crashes of the process, together

ASSUME AnchoringAssumption ==
    /\ BatchSize \in Nat \ {0} /\ FlushLimit \in Nat \ {0} /\ MayRevert \in BOOLEAN
    /\ MaxEvents \in Nat /\ MaxBatches \in Nat /\ MaxTroubles \in Nat

NotAnchored == 0

VARIABLES
    anchored_in,   \* anchored_in[e]: the batch of event e, or NotAnchored
    anchors,       \* the rows of the anchors table, by batch id
    tx,            \* tx[b]: the transaction of batch b, as the chain knows it
    flights,       \* flushes suspended at the await, as [batch, by]
    receipt,       \* the flush that runs after its await: [batch, step]
    elapsed,       \* anchor_flush_interval_seconds passed since the newest row
    failures, forced, crashes

vars == <<anchored_in, anchors, tx, flights, receipt, elapsed, failures, forced, crashes>>

Caller   == {"loop", "manual"}
Status   == {"PENDING", "SUBMITTED", "CONFIRMED", "FAILED"}
TxState  == {"unsent", "pool", "mined", "reverted"}
Batch    == DOMAIN anchors
Running  == "running"
Idle     == [batch |-> 0, step |-> "idle"]

AnchorRow == [first_seq : Nat, last_seq : Nat, root : SUBSET Nat, status : Status]

TypeOK ==
    /\ anchored_in \in Seq(Nat)
    /\ anchors \in Seq(AnchorRow)
    /\ tx \in Seq(TxState) /\ Len(tx) = Len(anchors)
    /\ flights \subseteq [batch : 1..Len(anchors), by : Caller]
    /\ receipt \in [batch : 0..Len(anchors), step : {"idle", "mark", "emit"}]
    /\ elapsed \in BOOLEAN
    /\ failures \in Nat /\ forced \in Nat /\ crashes \in Nat

Init ==
    /\ anchored_in = <<>> /\ anchors = <<>> /\ tx = <<>>
    /\ flights = {} /\ receipt = Idle
    /\ elapsed = TRUE          \* _last_anchor_ts is 0.0 for a district without rows
    /\ failures = 0 /\ forced = 0 /\ crashes = 0

\* There is room for one more of the bounded steps.
Spare == failures + forced + crashes < MaxTroubles

-----------------------------------------------------------------------------
\* AuditLedger.append on behalf of any handler or job.
AppendEvent ==
    /\ Len(anchored_in) < MaxEvents
    /\ anchored_in' = Append(anchored_in, NotAnchored)
    /\ UNCHANGED <<anchors, tx, flights, receipt, elapsed, failures, forced, crashes>>

\* ledger.unanchored(limit): the first FlushLimit events not yet anchored.
Unanchored ==
    LET open == {e \in DOMAIN anchored_in : anchored_in[e] = NotAnchored}
    IN  {e \in open : Cardinality({f \in open : f < e}) < FlushLimit}

\* The loop awaits each flush before the next; manual routes do not wait for it.
MayBegin(by) ==
    /\ receipt.step = "idle" /\ Len(anchors) < MaxBatches
    /\ by = "loop" => \A f \in flights : f.by # "loop"
    /\ by = "manual" => Spare

\* Mutant: only a full batch is flushed, the interval is never looked at.
Due_FullBatchOnly(by) == by = "manual" \/ Cardinality(Unanchored) >= BatchSize

\* Not DEFERRED: forced, a full batch, or nothing written for an interval.
\* A row counts for the interval whatever became of its batch.
Due(by) == by = "manual" \/ Cardinality(Unanchored) >= BatchSize \/ elapsed

\* flush_district up to the await: the PENDING row with a fresh batch id.
InsertAnchor(by) ==
    /\ MayBegin(by) /\ Due(by)
    /\ \E first, last \in Unanchored :
          /\ \A e \in Unanchored : first <= e /\ e <= last
          /\ anchors' = Append(anchors, [first_seq |-> first, last_seq |-> last,
                                         root |-> Unanchored, status |-> "PENDING"])
    /\ tx' = Append(tx, "unsent")
    /\ elapsed' = FALSE
    /\ forced' = IF by = "manual" THEN forced + 1 ELSE forced
    /\ UNCHANGED <<anchored_in, receipt, crashes>>

\* The breaker lets the call through; the flush suspends.
BeginFlush(by) ==
    /\ InsertAnchor(by)
    /\ flights' = flights \cup {[batch |-> Len(anchors) + 1, by |-> by]}
    /\ UNCHANGED failures

\* CircuitOpenError: the row stays PENDING, the flush ends.  Whether the breaker is
\* open is left open here.
BreakerOpen(by) ==
    /\ Spare
    /\ InsertAnchor(by)
    /\ failures' = failures + 1
    /\ UNCHANGED flights

InFlight(b) == \E f \in flights : f.batch = b

\* commit_batch hands its signed transaction to the node.
SendTx(b) ==
    /\ InFlight(b) /\ tx[b] = "unsent"
    /\ tx' = [tx EXCEPT ![b] = "pool"]
    /\ UNCHANGED <<anchored_in, anchors, flights, receipt, elapsed, failures, forced, crashes>>

\* The chain executes it, whether or not anybody still waits.
MineTx(b) ==
    /\ tx[b] = "pool"
    /\ tx' = [tx EXCEPT ![b] = "mined"]
    /\ UNCHANGED <<anchored_in, anchors, flights, receipt, elapsed, failures, forced, crashes>>

RevertTx(b) ==
    /\ MayRevert /\ tx[b] = "pool"
    /\ tx' = [tx EXCEPT ![b] = "reverted"]
    /\ UNCHANGED <<anchored_in, anchors, flights, receipt, elapsed, failures, forced, crashes>>

\* Mutant: a status of the CHECK constraint that no code path expects.
ReceiptStatus_Reverted(b) == IF tx[b] = "reverted" THEN "REVERTED" ELSE "CONFIRMED"

\* The status commit_batch returns: the receipt's, or SUBMITTED when no receipt
\* came within the timeout.
ReceiptStatus(b) ==
    CASE tx[b] = "mined"    -> "CONFIRMED"
      [] tx[b] = "reverted" -> "FAILED"
      [] tx[b] = "pool"     -> "SUBMITTED"

\* The flush resumes with a receipt: first statement, the anchors row.
RecordReceipt(b) ==
    /\ receipt.step = "idle" /\ InFlight(b) /\ tx[b] # "unsent"
    /\ anchors' = [anchors EXCEPT ![b].status = ReceiptStatus(b)]
    /\ flights' = {f \in flights : f.batch # b}
    /\ receipt' = [batch |-> b, step |-> "mark"]
    /\ UNCHANGED <<anchored_in, tx, elapsed, failures, forced, crashes>>

\* Mutant: the UPDATE has no upper bound on seq.
MarkAnchored_Unbounded ==
    /\ receipt.step = "mark"
    /\ LET b == receipt.batch
       IN  anchored_in' = [e \in DOMAIN anchored_in |->
              IF /\ anchored_in[e] = NotAnchored
                 /\ anchors[b].first_seq <= e
              THEN b ELSE anchored_in[e]]
    /\ receipt' = [receipt EXCEPT !.step = "emit"]
    /\ UNCHANGED <<anchors, tx, flights, elapsed, failures, forced, crashes>>

\* Second statement: mark_anchored, whatever the status was.
MarkAnchored ==
    /\ receipt.step = "mark"
    /\ LET b == receipt.batch
       IN  anchored_in' = [e \in DOMAIN anchored_in |->
              IF /\ anchored_in[e] = NotAnchored
                 /\ anchors[b].first_seq <= e /\ e <= anchors[b].last_seq
              THEN b ELSE anchored_in[e]]
    /\ receipt' = [receipt EXCEPT !.step = "emit"]
    /\ UNCHANGED <<anchors, tx, flights, elapsed, failures, forced, crashes>>

\* Third statement: ANCHOR_COMMITTED is itself appended to the ledger, or the
\* best-effort audit_emit swallows an error.
EmitCommitted ==
    /\ receipt.step = "emit"
    /\ \/ /\ Len(anchored_in) < MaxEvents
          /\ anchored_in' = Append(anchored_in, NotAnchored)
       \/ UNCHANGED anchored_in
    /\ receipt' = Idle
    /\ UNCHANGED <<anchors, tx, flights, elapsed, failures, forced, crashes>>

\* commit_batch raises, before or after the transaction was sent.
CommitRaises(b) ==
    /\ receipt.step = "idle" /\ InFlight(b) /\ Spare
    /\ anchors' = [anchors EXCEPT ![b].status = "FAILED"]
    /\ flights' = {f \in flights : f.batch # b}
    /\ failures' = failures + 1
    /\ UNCHANGED <<anchored_in, tx, receipt, elapsed, forced, crashes>>

\* A statement after the await raises (the database stays locked past
\* busy_timeout): the flush ends there, the loop logs it and goes on.
StatementFails ==
    /\ Spare
    /\ \/ /\ receipt.step = "idle"
          /\ \E b \in Batch : /\ InFlight(b) /\ tx[b] # "unsent"
                             /\ flights' = {f \in flights : f.batch # b}
          /\ UNCHANGED receipt
       \/ /\ receipt.step = "mark" /\ receipt' = Idle
          /\ UNCHANGED flights
    /\ failures' = failures + 1
    /\ UNCHANGED <<anchored_in, anchors, tx, elapsed, forced, crashes>>

\* Mutant: on restart the events of a batch that was not settled are released.
Crash_Unmarks ==
    /\ Spare
    /\ flights # {} \/ receipt # Idle
    /\ anchored_in' = [e \in DOMAIN anchored_in |->
           IF anchored_in[e] = receipt.batch THEN NotAnchored ELSE anchored_in[e]]
    /\ flights' = {} /\ receipt' = Idle
    /\ crashes' = crashes + 1
    /\ UNCHANGED <<anchors, tx, elapsed, failures, forced>>

\* The process dies and is restarted: no flush survives, rows and transactions do.
Crash ==
    /\ Spare
    /\ flights # {} \/ receipt # Idle
    /\ flights' = {} /\ receipt' = Idle
    /\ crashes' = crashes + 1
    /\ UNCHANGED <<anchored_in, anchors, tx, elapsed, failures, forced>>

IntervalElapses ==
    /\ ~ elapsed
    /\ elapsed' = TRUE
    /\ UNCHANGED <<anchored_in, anchors, tx, flights, receipt, failures, forced, crashes>>

Next ==
    \/ AppendEvent
    \/ \E by \in Caller : BeginFlush(by) \/ BreakerOpen(by)
    \/ \E b \in Batch : \/ SendTx(b) \/ MineTx(b) \/ RevertTx(b)
                        \/ RecordReceipt(b) \/ CommitRaises(b)
    \/ MarkAnchored
    \/ EmitCommitted
    \/ StatementFails
    \/ Crash
    \/ IntervalElapses

Spec == Init /\ [][Next]_vars

\* The loop polls for ever and catches every exception; an await returns; the
\* chain mines what it accepted; time passes.  Nothing is assumed of manual
\* flushes, of failures or of business events.
Fairness ==
    /\ WF_vars(BeginFlush("loop"))
    /\ WF_vars(\E b \in Batch : RecordReceipt(b))
    /\ WF_vars(\E b \in Batch : SendTx(b))
    /\ WF_vars(\E b \in Batch : MineTx(b))
    /\ WF_vars(MarkAnchored)
    /\ WF_vars(EmitCommitted)
    /\ WF_vars(IntervalElapses)

FairSpec == Spec /\ Fairness

-----------------------------------------------------------------------------
IsAnchored(e) == anchored_in[e] # NotAnchored

\* The anchored events of a district are an initial segment of its ledger: no
\* interleaving of flushes, failures and crashes leaves a hole that a later
\* batch, which marks a range of sequence numbers, would have to jump over.
AnchoredIsPrefix ==
    \A e, f \in DOMAIN anchored_in : e < f /\ IsAnchored(f) => IsAnchored(e)

\* build_proof_for_event reads the leaves of an event's batch back as a range of
\* sequence numbers, although the root was computed from the events that were
\* unanchored before the await.  They are the same leaves, so the proof's root
\* is the committed one.
ProofLeaves(b) == {e \in DOMAIN anchored_in :
                      anchors[b].first_seq <= e /\ e <= anchors[b].last_seq}

ProofMatchesRoot ==
    \A e \in DOMAIN anchored_in : IsAnchored(e) =>
        /\ e \in anchors[anchored_in[e]].root
        /\ ProofLeaves(anchored_in[e]) = anchors[anchored_in[e]].root

\* An event is marked only for a batch whose transaction was sent and whose
\* outcome the row records: an attempt the breaker refused, one that raised before
\* sending or one a crash cut short takes no event out of the queue.
MarkedAfterReceipt ==
    \A e \in DOMAIN anchored_in : IsAnchored(e) =>
        /\ tx[anchored_in[e]] # "unsent"
        /\ anchors[anchored_in[e]].status # "PENDING"

\* A row that says CONFIRMED has its transaction on chain, whatever was late.
ConfirmedIsOnChain ==
    \A b \in Batch : anchors[b].status = "CONFIRMED" => tx[b] = "mined"

\* An anchored event stays in its batch: a later flush that overlaps it, or the
\* slower of two, does not move it to a batch whose root it may not be in.
AnchoringIsFinal ==
    [][\A e \in DOMAIN anchored_in : IsAnchored(e) =>
          e \in DOMAIN anchored_in' /\ anchored_in'[e] = anchored_in[e]]_vars

\* Once outages, crashes and manual flushes are over, every event is anchored in
\* a batch that reaches the chain, unless the contract rejects it:
\* docs/ARCHITECTURE.md:416, "anchors queue per district".
EventuallyOnChain ==
    \A e \in 1..MaxEvents :
        Len(anchored_in) >= e ~>
            /\ e \in DOMAIN anchored_in /\ IsAnchored(e)
            /\ tx[anchored_in[e]] \in {"mined", "reverted"}

\* docs/ARCHITECTURE.md:136, "On confirmation, writes the anchors row and marks
\* the events": no event is marked as anchored in a batch recorded as FAILED.
MarkedOnConfirmation ==
    \A e \in DOMAIN anchored_in : IsAnchored(e) =>
        anchors[anchored_in[e]].status # "FAILED"

\* How far that goes: the chain did reject such a batch.  One whose commit raised,
\* before or after it was sent, keeps no event out of the queue.
MarkedFailedWasReverted ==
    \A e \in DOMAIN anchored_in :
        IsAnchored(e) /\ anchors[anchored_in[e]].status = "FAILED" => tx[anchored_in[e]] = "reverted"

\* The ledger and its anchored events, forgetting batches, transactions, flights
\* and time, behave as AnchoredLog: each step extends the log, anchors a longer
\* initial segment of it, or changes neither.
Log == INSTANCE AnchoredLog WITH
          length   <- Len(anchored_in),
          anchored <- {e \in DOMAIN anchored_in : IsAnchored(e)}

ImplementsAnchoredLog == Log!LogSpec
=============================================================================
