-------------------------- MODULE AnchoringProofs --------------------------
(***************************************************************************)
(* The safety of anchoring, and of the public verdict on it, for every batch *)
(* size, flush limit and number of events, batches, failures, manual flushes *)
(* and crashes, on a chain that may or may not revert.  The assumption of  *)
(* Anchoring on its constants is all that is assumed.                      *)
(***************************************************************************)
EXTENDS PublicVerification, MerkleProofs, SequenceTheorems

\* Every batch was cut as a range that begins where the anchored prefix of its
\* time ended; what was anchored below it stays anchored.
BatchIsRange ==
    \A b \in Batch :
        /\ anchors[b].first_seq \in 1..anchors[b].last_seq
        /\ anchors[b].last_seq <= Len(anchored_in)
        /\ anchors[b].root = anchors[b].first_seq .. anchors[b].last_seq
        /\ \A e \in DOMAIN anchored_in : e < anchors[b].first_seq => IsAnchored(e)

\* An anchored event lies in the range of its batch.
MarkedInRange ==
    \A e \in DOMAIN anchored_in : IsAnchored(e) =>
        /\ anchored_in[e] \in Batch
        /\ anchors[anchored_in[e]].first_seq <= e
        /\ e <= anchors[anchored_in[e]].last_seq

\* A flush that is about to mark its events has recorded its receipt.
MarkHasReceipt ==
    receipt.step = "mark" =>
        /\ receipt.batch \in Batch
        /\ tx[receipt.batch] # "unsent"
        /\ anchors[receipt.batch].status # "PENDING"

\* The inductive invariant.  AnchoredIsPrefix alone is not inductive: that a
\* batch closes up with the anchored prefix is known when it is cut and used
\* when it is marked, any number of steps later, which is BatchIsRange.
AnchoringInv ==
    /\ TypeOK
    /\ AnchoredIsPrefix
    /\ BatchIsRange
    /\ MarkedInRange
    /\ MarkHasReceipt
    /\ MarkedAfterReceipt
    /\ ConfirmedIsOnChain

-----------------------------------------------------------------------------
\* The domain of the ledger and the two tables in terms of their lengths.
LEMMA Domains ==
    ASSUME TypeOK
    PROVE  /\ Len(anchored_in) \in Nat /\ DOMAIN anchored_in = 1..Len(anchored_in)
           /\ Len(anchors) \in Nat /\ Batch = 1..Len(anchors) /\ DOMAIN tx = Batch
BY DEF TypeOK, Batch

\* What a flush selects is the range of events that follows the anchored prefix.
LEMMA SelectedIsRange ==
    ASSUME TypeOK, AnchoredIsPrefix, NEW first \in Unanchored, NEW last \in Unanchored,
           \A e \in Unanchored : first <= e /\ e <= last
    PROVE  /\ Unanchored = first..last
           /\ first \in 1..last /\ last \in DOMAIN anchored_in
           /\ \A e \in DOMAIN anchored_in : e < first => IsAnchored(e)
<1> DEFINE open     == {e \in DOMAIN anchored_in : anchored_in[e] = NotAnchored}
           below(e) == {f \in open : f < e}
<1>1. Unanchored = {e \in open : Cardinality(below(e)) < FlushLimit}
  BY DEF Unanchored
<1>2. DOMAIN anchored_in = 1..Len(anchored_in) /\ Len(anchored_in) \in Nat
  BY Domains
<1>3. ASSUME NEW e, NEW f \in Unanchored, e \in open, e <= f
      PROVE  e \in Unanchored
  <2>1. IsFiniteSet(below(f))
    <3>1. IsFiniteSet(1..Len(anchored_in))
      BY <1>2, FS_Interval
    <3>2. below(f) \in SUBSET (1..Len(anchored_in))
      BY <1>2
    <3> QED
      BY <3>1, <3>2, FS_Subset
  <2>2. below(e) \in SUBSET below(f)
    BY <1>1, <1>2, <1>3
  <2>3. Cardinality(below(e)) <= Cardinality(below(f)) /\ IsFiniteSet(below(e))
    BY <2>1, <2>2, FS_Subset
  <2>4. Cardinality(below(e)) \in Nat /\ Cardinality(below(f)) \in Nat
    BY <2>1, <2>3, FS_CardinalityType
  <2>5. FlushLimit \in Nat /\ Cardinality(below(f)) < FlushLimit
    BY <1>1, <1>3, AnchoringAssumption
  <2>6. Cardinality(below(e)) < FlushLimit
    BY <2>3, <2>4, <2>5
  <2> QED
    BY <1>1, <1>3, <2>6
<1>4. first \in open /\ last \in open /\ first <= last
  BY <1>1
<1>5. first \in 1..last /\ last \in DOMAIN anchored_in
  BY <1>2, <1>4
<1>6. ASSUME NEW e \in DOMAIN anchored_in, e < first
      PROVE  IsAnchored(e)
  <2>1. SUFFICES ASSUME e \in open PROVE FALSE
    BY DEF IsAnchored
  <2>2. e <= first
    BY <1>2, <1>4, <1>6
  <2>3. e \in Unanchored
    BY <1>3, <2>1, <2>2
  <2> QED
    BY <1>2, <1>4, <1>6, <2>3
<1>7. ASSUME NEW e \in first..last
      PROVE  e \in Unanchored
  <2>1. e \in DOMAIN anchored_in /\ e <= last
    BY <1>2, <1>4
  <2>2. e \in open
    <3>1. SUFFICES ASSUME IsAnchored(e), first # e PROVE FALSE
      BY <1>4, <2>1 DEF IsAnchored
    <3>2. first < e
      BY <1>2, <1>4, <1>7, <2>1, <3>1
    <3>3. IsAnchored(first)
      BY <1>4, <2>1, <3>1, <3>2 DEF AnchoredIsPrefix
    <3> QED
      BY <1>4, <3>3 DEF IsAnchored
  <2> QED
    BY <1>3, <2>1, <2>2
<1>8. Unanchored \subseteq first..last
  BY <1>1, <1>2, <1>4
<1> QED
  BY <1>5, <1>6, <1>7, <1>8

\* The row a flush inserts describes a range that closes up with the prefix.
LEMMA InsertEffect ==
    ASSUME TypeOK, AnchoredIsPrefix, NEW by \in Caller, InsertAnchor(by)
    PROVE  \E first, last \in DOMAIN anchored_in :
              /\ first \in 1..last
              /\ anchors' = Append(anchors, [first_seq |-> first, last_seq |-> last,
                                             root |-> first..last, status |-> "PENDING"])
              /\ \A e \in DOMAIN anchored_in : e < first => IsAnchored(e)
<1>1. PICK first \in Unanchored, last \in Unanchored :
          /\ \A e \in Unanchored : first <= e /\ e <= last
          /\ anchors' = Append(anchors, [first_seq |-> first, last_seq |-> last,
                                         root |-> Unanchored, status |-> "PENDING"])
  BY DEF InsertAnchor
<1>2. /\ Unanchored = first..last /\ first \in 1..last /\ last \in DOMAIN anchored_in
      /\ \A e \in DOMAIN anchored_in : e < first => IsAnchored(e)
  BY <1>1, SelectedIsRange
<1>3. first \in DOMAIN anchored_in
  BY DEF Unanchored
<1> QED
  BY <1>1, <1>2, <1>3

-----------------------------------------------------------------------------
\* The type invariant is kept by every action.
LEMMA TypeInductive ==
    ASSUME TypeOK, AnchoredIsPrefix, [Next]_vars
    PROVE  TypeOK'
<1> USE DEF TypeOK, Caller
<1>1. CASE AppendEvent
  BY <1>1 DEF AppendEvent, NotAnchored
<1>2. ASSUME NEW by \in Caller, BeginFlush(by) \/ BreakerOpen(by)
      PROVE  TypeOK'
  <2>1. PICK first \in DOMAIN anchored_in, last \in DOMAIN anchored_in :
            anchors' = Append(anchors, [first_seq |-> first, last_seq |-> last,
                                        root |-> first..last, status |-> "PENDING"])
    <3>1. InsertAnchor(by)
      BY <1>2 DEF BeginFlush, BreakerOpen
    <3> QED
      BY <3>1, InsertEffect
  <2>2. [first_seq |-> first, last_seq |-> last,
         root |-> first..last, status |-> "PENDING"] \in AnchorRow
    BY Domains DEF AnchorRow, Status
  <2>3. anchors' \in Seq(AnchorRow) /\ Len(anchors') = Len(anchors) + 1
    BY <2>1, <2>2
  <2>4. tx' = Append(tx, "unsent") /\ UNCHANGED <<anchored_in, receipt, crashes>>
    BY <1>2 DEF BeginFlush, BreakerOpen, InsertAnchor
  <2>5. elapsed' = FALSE /\ forced' \in Nat /\ failures' \in Nat
    <3>1. elapsed' = FALSE /\ forced' \in {forced, forced + 1} /\ failures' \in {failures, failures + 1}
      BY <1>2 DEF BeginFlush, BreakerOpen, InsertAnchor
    <3> QED
      BY <3>1
  <2>6. flights' \subseteq [batch : 1..(Len(anchors) + 1), by : Caller]
    BY <1>2 DEF BeginFlush, BreakerOpen
  <2>7. tx' \in Seq(TxState) /\ Len(tx') = Len(anchors')
    BY <2>3, <2>4 DEF TxState
  <2>8. receipt' \in [batch : 0..Len(anchors'), step : {"idle", "mark", "emit"}]
    BY <2>3, <2>4
  <2>9. anchored_in' \in Seq(Nat) /\ crashes' \in Nat /\ elapsed' \in BOOLEAN
    BY <2>4, <2>5
  <2> QED
    BY <2>3, <2>5, <2>6, <2>7, <2>8, <2>9
<1>3. ASSUME NEW b \in Batch, SendTx(b) \/ MineTx(b) \/ RevertTx(b)
      PROVE  TypeOK'
  <2>1. b \in 1..Len(tx)
    BY Domains
  <2>2. PICK s \in TxState : tx' = [tx EXCEPT ![b] = s]
    BY <1>3 DEF SendTx, MineTx, RevertTx, TxState
  <2>3. tx' \in Seq(TxState) /\ Len(tx') = Len(tx)
    BY <2>1, <2>2, ExceptSeq
  <2> QED
    BY <1>3, <2>3 DEF SendTx, MineTx, RevertTx
<1>4. ASSUME NEW b \in Batch, RecordReceipt(b) \/ CommitRaises(b)
      PROVE  TypeOK'
  <2>1. b \in 1..Len(anchors) /\ anchors[b] \in AnchorRow /\ tx[b] \in TxState
    BY Domains
  <2>2. PICK s \in Status : anchors' = [anchors EXCEPT ![b].status = s]
    BY <1>4, <2>1 DEF RecordReceipt, CommitRaises, ReceiptStatus, TxState, Status
  <2>3. [anchors[b] EXCEPT !.status = s] \in AnchorRow
    BY <2>1, <2>2 DEF AnchorRow
  <2>4. anchors' = [anchors EXCEPT ![b] = [anchors[b] EXCEPT !.status = s]]
    BY <2>2
  <2>5. anchors' \in Seq(AnchorRow) /\ Len(anchors') = Len(anchors)
    BY <2>1, <2>3, <2>4, ExceptSeq
  <2> QED
    <3>1. flights' \subseteq flights /\ UNCHANGED <<anchored_in, tx, elapsed, forced, crashes>>
      BY <1>4 DEF RecordReceipt, CommitRaises
    <3>2. failures' \in Nat
      BY <1>4 DEF RecordReceipt, CommitRaises
    <3>3. receipt' \in [batch : 0..Len(anchors), step : {"idle", "mark", "emit"}]
      BY <1>4, <2>1 DEF RecordReceipt, CommitRaises
    <3> QED
      BY <2>5, <3>1, <3>2, <3>3
<1>5. CASE MarkAnchored
  <2>1. receipt.batch \in Nat
    OBVIOUS
  <2>2. /\ DOMAIN anchored_in' = 1..Len(anchored_in)
        /\ anchored_in' \in [1..Len(anchored_in) -> Nat]
    BY <1>5, <2>1 DEF MarkAnchored
  <2>3. anchored_in' \in Seq(Nat)
    <3>1. Len(anchored_in) \in Nat
      OBVIOUS
    <3>2. Seq(Nat) = UNION {[1..n -> Nat] : n \in Nat}
      BY SeqDef, Zenon
    <3> HIDE DEF TypeOK
    <3> QED
      BY <2>2, <3>1, <3>2
  <2> QED
    BY <1>5, <2>3 DEF MarkAnchored
<1>6. CASE EmitCommitted
  BY <1>6 DEF EmitCommitted, NotAnchored, Idle
<1>7. CASE Crash \/ StatementFails
  BY <1>7 DEF Crash, StatementFails, Idle
<1>8. CASE IntervalElapses
  BY <1>8 DEF IntervalElapses
<1>9. CASE UNCHANGED vars
  BY <1>9 DEF vars
<1> QED
  BY <1>1, <1>2, <1>3, <1>4, <1>5, <1>6, <1>7, <1>8, <1>9 DEF Next

\* What a step may do to the marks: append unmarked events, or mark the
\* unmarked events in the range of the receipt's batch.
LEMMA MarksEffect ==
    ASSUME TypeOK, AnchoredIsPrefix, [Next]_vars
    PROVE  \/ anchored_in' = anchored_in
           \/ anchored_in' = Append(anchored_in, NotAnchored) /\ anchors' = anchors /\ tx' = tx
           \/ MarkAnchored
BY DEF Next, vars, AppendEvent, BeginFlush, BreakerOpen, InsertAnchor, SendTx, MineTx,
       RevertTx, RecordReceipt, CommitRaises, EmitCommitted, StatementFails, Crash, IntervalElapses

\* The marks of the events that exist change only in MarkAnchored.
LEMMA MarksKept ==
    ASSUME TypeOK, AnchoredIsPrefix, [Next]_vars
    PROVE  /\ DOMAIN anchored_in \subseteq DOMAIN anchored_in'
           /\ \A e \in DOMAIN anchored_in : IsAnchored(e) => anchored_in'[e] = anchored_in[e]
           /\ ~ MarkAnchored =>
                \A e \in DOMAIN anchored_in' : anchored_in'[e] # NotAnchored =>
                    e \in DOMAIN anchored_in /\ anchored_in'[e] = anchored_in[e]
<1>1. CASE anchored_in' = anchored_in
  BY <1>1
<1>2. CASE anchored_in' = Append(anchored_in, NotAnchored)
  BY <1>2 DEF TypeOK
<1>3. CASE MarkAnchored
  BY <1>3 DEF MarkAnchored, IsAnchored
<1> QED
  BY <1>1, <1>2, <1>3, MarksEffect

\* What a step may do to the anchors table and the transactions.
LEMMA RowsKept ==
    ASSUME TypeOK, AnchoredIsPrefix, [Next]_vars, NEW b \in Batch
    PROVE  /\ b \in Batch'
           /\ anchors'[b].first_seq = anchors[b].first_seq
           /\ anchors'[b].last_seq = anchors[b].last_seq
           /\ anchors'[b].root = anchors[b].root
           /\ anchors[b].status # "PENDING" => anchors'[b].status # "PENDING"
           /\ tx[b] # "unsent" => tx'[b] # "unsent"
           /\ tx[b] = "mined" => tx'[b] = "mined"
<1> USE DEF TypeOK, Batch
<1>0. b \in 1..Len(anchors) /\ anchors[b] \in AnchorRow /\ tx[b] \in TxState
  BY Domains
<1>1. ASSUME NEW by \in Caller, InsertAnchor(by)
      PROVE  /\ b \in Batch' /\ anchors'[b] = anchors[b] /\ tx'[b] = tx[b]
  BY <1>0, <1>1, InsertEffect DEF InsertAnchor
<1>2. ASSUME NEW c \in Batch, SendTx(c) \/ MineTx(c) \/ RevertTx(c)
      PROVE  /\ anchors' = anchors
             /\ tx[b] # "unsent" => tx'[b] # "unsent"
             /\ tx[b] = "mined" => tx'[b] = "mined"
  BY <1>0, <1>2 DEF SendTx, MineTx, RevertTx
<1>3. ASSUME NEW c \in Batch, RecordReceipt(c) \/ CommitRaises(c)
      PROVE  /\ b \in Batch' /\ tx' = tx
             /\ anchors'[b].first_seq = anchors[b].first_seq
             /\ anchors'[b].last_seq = anchors[b].last_seq
             /\ anchors'[b].root = anchors[b].root
             /\ anchors[b].status # "PENDING" => anchors'[b].status # "PENDING"
  <2>1. c \in 1..Len(anchors) /\ anchors[c] \in AnchorRow /\ tx[c] \in TxState
    BY Domains
  <2>2. tx' = tx
    BY <1>3 DEF RecordReceipt, CommitRaises
  <2>3. PICK s \in Status \ {"PENDING"} : anchors' = [anchors EXCEPT ![c].status = s]
    BY <1>3, <2>1 DEF RecordReceipt, CommitRaises, ReceiptStatus, TxState, Status
  <2> QED
    BY <1>0, <2>1, <2>2, <2>3 DEF AnchorRow
<1>4. CASE \/ AppendEvent \/ MarkAnchored \/ EmitCommitted \/ StatementFails \/ Crash
         \/ IntervalElapses \/ UNCHANGED vars
  BY <1>4 DEF AppendEvent, MarkAnchored, EmitCommitted, StatementFails, Crash, IntervalElapses, vars
<1> QED
  BY <1>0, <1>1, <1>2, <1>3, <1>4 DEF Next, BeginFlush, BreakerOpen

-----------------------------------------------------------------------------
\* MarkAnchored in terms of the range of its batch.
LEMMA MarkEffect ==
    ASSUME AnchoringInv, MarkAnchored
    PROVE  LET b == receipt.batch
           IN  /\ b \in Batch /\ b # NotAnchored
               /\ UNCHANGED <<anchors, tx>>
               /\ DOMAIN anchored_in' = DOMAIN anchored_in
               /\ \A e \in DOMAIN anchored_in : IsAnchored(e) => anchored_in'[e] = anchored_in[e]
               /\ \A e \in DOMAIN anchored_in : ~ IsAnchored(e) =>
                     anchored_in'[e] = IF anchors[b].first_seq <= e /\ e <= anchors[b].last_seq
                                       THEN b ELSE NotAnchored
<1>1. receipt.batch \in Batch /\ receipt.batch # NotAnchored
  BY Domains DEF AnchoringInv, MarkAnchored, MarkHasReceipt, NotAnchored
<1> QED
  BY <1>1 DEF MarkAnchored, IsAnchored

\* Marking a batch's range keeps the anchored events an initial segment, since
\* everything below the range was anchored when the batch was cut.
LEMMA PrefixInductive ==
    ASSUME AnchoringInv, [Next]_vars
    PROVE  AnchoredIsPrefix'
<1> USE DEF AnchoringInv
<1>1. CASE MarkAnchored
  <2> DEFINE b == receipt.batch
  <2>1. DOMAIN anchored_in = 1..Len(anchored_in) /\ Len(anchored_in) \in Nat
    BY Domains
  <2>2. b \in Batch /\ anchors[b].first_seq \in 1..anchors[b].last_seq
        /\ anchors[b].last_seq \in Nat
    <3>1. b \in Batch /\ b \in 1..Len(anchors)
      BY <1>1, MarkEffect, Domains
    <3>2. anchors[b] \in AnchorRow
      BY <3>1 DEF TypeOK
    <3> QED
      BY <3>1, <3>2 DEF BatchIsRange, AnchorRow
  <2>3. ASSUME NEW e \in DOMAIN anchored_in', NEW f \in DOMAIN anchored_in',
               e < f, anchored_in'[f] # NotAnchored, anchored_in'[e] = NotAnchored
        PROVE  FALSE
    <3>1. e \in DOMAIN anchored_in /\ f \in DOMAIN anchored_in
      BY <1>1, MarkEffect
    <3>2. ~ IsAnchored(e)
      BY <1>1, <2>3, <3>1, MarkEffect DEF IsAnchored
    <3>3. ~ IsAnchored(f)
      BY <2>3, <3>1, <3>2 DEF AnchoredIsPrefix
    <3>4. f <= anchors[b].last_seq
      BY <1>1, <2>3, <3>1, <3>3, MarkEffect
    <3>5. ~ (anchors[b].first_seq <= e /\ e <= anchors[b].last_seq)
      BY <1>1, <2>2, <2>3, <3>1, <3>2, MarkEffect
    <3>6. e < anchors[b].first_seq
      BY <2>1, <2>2, <2>3, <3>1, <3>4, <3>5
    <3> QED
      BY <2>2, <3>1, <3>2, <3>6 DEF BatchIsRange
  <2> QED
    BY <2>3 DEF AnchoredIsPrefix, IsAnchored
<1>2. CASE ~ MarkAnchored
  <2>1. ASSUME NEW e \in DOMAIN anchored_in', NEW f \in DOMAIN anchored_in',
               e < f, anchored_in'[f] # NotAnchored
        PROVE  anchored_in'[e] # NotAnchored
    <3>1. f \in DOMAIN anchored_in /\ anchored_in'[f] = anchored_in[f]
      BY <1>2, <2>1, MarksKept
    <3>2. e \in DOMAIN anchored_in
      <4>1. anchored_in' \in Seq(Nat)
        BY TypeInductive DEF TypeOK
      <4> QED
        BY <2>1, <3>1, <4>1, Domains
    <3>3. IsAnchored(e)
      BY <2>1, <3>1, <3>2 DEF AnchoredIsPrefix, IsAnchored
    <3> QED
      BY <3>2, <3>3, MarksKept DEF IsAnchored
  <2> QED
    BY <2>1 DEF AnchoredIsPrefix, IsAnchored
<1> QED
  BY <1>1, <1>2

\* A new batch is cut as a range that closes up with the prefix; an old one keeps
\* its range, and what is anchored below it stays so.
LEMMA RangeInductive ==
    ASSUME AnchoringInv, [Next]_vars
    PROVE  BatchIsRange'
<1> USE DEF AnchoringInv
<1>1. Len(anchored_in) <= Len(anchored_in')
  <2>1. anchored_in' \in Seq(Nat) /\ anchored_in \in Seq(Nat)
    BY TypeInductive DEF TypeOK
  <2>2. DOMAIN anchored_in \subseteq DOMAIN anchored_in'
    BY MarksKept
  <2> QED
    BY <2>1, <2>2
<1>2. ASSUME NEW b \in Batch
      PROVE  /\ anchors'[b].first_seq \in 1..anchors'[b].last_seq
             /\ anchors'[b].last_seq <= Len(anchored_in')
             /\ anchors'[b].root = anchors'[b].first_seq .. anchors'[b].last_seq
             /\ \A e \in DOMAIN anchored_in' :
                   e < anchors'[b].first_seq => anchored_in'[e] # NotAnchored
  <2>1. /\ anchors'[b].first_seq = anchors[b].first_seq
        /\ anchors'[b].last_seq = anchors[b].last_seq
        /\ anchors'[b].root = anchors[b].root
    BY RowsKept
  <2>2. anchors[b].first_seq \in Nat /\ anchors[b].last_seq \in Nat
    <3>1. b \in 1..Len(anchors)
      BY Domains
    <3>2. anchors[b] \in AnchorRow
      BY <3>1 DEF TypeOK
    <3> QED
      BY <3>2 DEF AnchorRow
  <2>3. ASSUME NEW e \in DOMAIN anchored_in', e < anchors[b].first_seq
        PROVE  anchored_in'[e] # NotAnchored
    <3>1. anchored_in' \in Seq(Nat) /\ DOMAIN anchored_in = 1..Len(anchored_in)
          /\ Len(anchored_in) \in Nat
      BY TypeInductive, Domains DEF TypeOK
    <3>2. e \in Nat \ {0}
      BY <3>1
    <3>3. e \in DOMAIN anchored_in
      BY <2>2, <2>3, <3>1, <3>2 DEF BatchIsRange
    <3>4. IsAnchored(e)
      BY <2>3, <3>3 DEF BatchIsRange
    <3> QED
      BY <3>3, <3>4, MarksKept DEF IsAnchored
  <2>4. anchors[b].last_seq <= Len(anchored_in')
    <3>1. anchors[b].last_seq <= Len(anchored_in)
      BY DEF BatchIsRange
    <3>2. Len(anchored_in) \in Nat /\ Len(anchored_in') \in Nat
      BY TypeInductive DEF TypeOK
    <3> QED
      BY <1>1, <2>2, <3>1, <3>2
  <2> QED
    BY <2>1, <2>3, <2>4 DEF BatchIsRange
<1>3. ASSUME NEW b \in Batch', b \notin Batch
      PROVE  /\ anchors'[b].first_seq \in 1..anchors'[b].last_seq
             /\ anchors'[b].last_seq <= Len(anchored_in')
             /\ anchors'[b].root = anchors'[b].first_seq .. anchors'[b].last_seq
             /\ \A e \in DOMAIN anchored_in' :
                   e < anchors'[b].first_seq => anchored_in'[e] # NotAnchored
  <2>1. PICK by \in Caller : InsertAnchor(by)
    BY <1>3 DEF Next, vars, Batch, AppendEvent, BeginFlush, BreakerOpen, SendTx, MineTx, RevertTx,
                RecordReceipt, CommitRaises, MarkAnchored, EmitCommitted, StatementFails, Crash, IntervalElapses
  <2>2. PICK first \in DOMAIN anchored_in, last \in DOMAIN anchored_in :
              /\ first \in 1..last
              /\ anchors' = Append(anchors, [first_seq |-> first, last_seq |-> last,
                                             root |-> first..last, status |-> "PENDING"])
              /\ \A e \in DOMAIN anchored_in : e < first => IsAnchored(e)
    BY <2>1, InsertEffect
  <2>3. anchors'[b] = [first_seq |-> first, last_seq |-> last,
                       root |-> first..last, status |-> "PENDING"]
    BY <1>3, <2>2 DEF Batch, TypeOK
  <2>4. anchored_in' = anchored_in
    BY <2>1 DEF InsertAnchor
  <2>5. last <= Len(anchored_in)
    BY Domains
  <2>6. /\ anchors'[b].first_seq = first /\ anchors'[b].last_seq = last
        /\ anchors'[b].root = first..last
    BY <2>3
  <2>7. \A e \in DOMAIN anchored_in' : e < first => anchored_in'[e] # NotAnchored
    BY <2>2, <2>4 DEF IsAnchored
  <2>8. last <= Len(anchored_in')
    BY <2>4, <2>5
  <2> QED
    BY <2>2, <2>6, <2>7, <2>8
<1> QED
  BY <1>2, <1>3 DEF BatchIsRange, Batch, IsAnchored

\* Only MarkAnchored marks: with a batch that has its receipt, within its range.
LEMMA MarkedInductive ==
    ASSUME AnchoringInv, [Next]_vars
    PROVE  MarkedInRange' /\ MarkedAfterReceipt'
<1> USE DEF AnchoringInv
<1>1. SUFFICES ASSUME NEW e \in DOMAIN anchored_in', anchored_in'[e] # NotAnchored,
                      NEW b, b = anchored_in'[e]
               PROVE  /\ b \in Batch' /\ anchors'[b].first_seq <= e /\ e <= anchors'[b].last_seq
                      /\ tx'[b] # "unsent" /\ anchors'[b].status # "PENDING"
  BY DEF MarkedInRange, MarkedAfterReceipt, IsAnchored
<1>2. /\ b \in Batch /\ anchors[b].first_seq <= e /\ e <= anchors[b].last_seq
      /\ tx[b] # "unsent" /\ anchors[b].status # "PENDING"
  <2>1. CASE e \in DOMAIN anchored_in /\ IsAnchored(e)
    <3>1. anchored_in[e] = b
      BY <1>1, <2>1, MarksKept
    <3> QED
      BY <2>1, <3>1 DEF MarkedInRange, MarkedAfterReceipt
  <2>2. CASE MarkAnchored /\ ~ (e \in DOMAIN anchored_in /\ IsAnchored(e))
    <3>1. e \in DOMAIN anchored_in /\ ~ IsAnchored(e)
      BY <2>2, MarkEffect
    <3>2. b = receipt.batch /\ anchors[b].first_seq <= e /\ e <= anchors[b].last_seq
      BY <1>1, <2>2, <3>1, MarkEffect
    <3>3. receipt.step = "mark"
      BY <2>2 DEF MarkAnchored
    <3> QED
      BY <3>2, <3>3 DEF MarkHasReceipt
  <2>3. CASE ~ MarkAnchored
    <3>1. e \in DOMAIN anchored_in /\ IsAnchored(e)
      BY <1>1, <2>3, MarksKept DEF IsAnchored
    <3> QED
      BY <2>1, <3>1
  <2> QED
    BY <2>1, <2>2, <2>3
<1> QED
  BY <1>2, RowsKept

\* A flush reaches its mark only through RecordReceipt.
LEMMA MarkHasReceiptInductive ==
    ASSUME AnchoringInv, [Next]_vars
    PROVE  MarkHasReceipt'
<1> USE DEF AnchoringInv
<1>1. ASSUME NEW b \in Batch, RecordReceipt(b)
      PROVE  MarkHasReceipt'
  <2>1. b \in 1..Len(anchors) /\ anchors[b] \in AnchorRow /\ tx[b] \in TxState
    BY Domains DEF TypeOK
  <2>2. /\ receipt' = [batch |-> b, step |-> "mark"] /\ tx' = tx /\ tx[b] # "unsent"
        /\ anchors' = [anchors EXCEPT ![b].status = ReceiptStatus(b)]
    BY <1>1 DEF RecordReceipt
  <2>3. ReceiptStatus(b) # "PENDING"
    BY <2>1, <2>2 DEF ReceiptStatus, TxState
  <2> QED
    BY <2>1, <2>2, <2>3 DEF MarkHasReceipt, AnchorRow, TypeOK, Batch
<1>2. CASE receipt' = receipt
  BY <1>2, RowsKept DEF MarkHasReceipt
<1>3. CASE receipt'.step # "mark"
  BY <1>3 DEF MarkHasReceipt
<1>4. MarkAnchored \/ EmitCommitted \/ StatementFails \/ Crash =>
          receipt'.step # "mark" \/ receipt' = receipt
  BY DEF MarkAnchored, EmitCommitted, StatementFails, Crash, Idle, TypeOK
<1>5. \/ \E b \in Batch : RecordReceipt(b)
      \/ MarkAnchored \/ EmitCommitted \/ StatementFails \/ Crash \/ receipt' = receipt
  BY DEF Next, vars, AppendEvent, BeginFlush, BreakerOpen, InsertAnchor, SendTx, MineTx, RevertTx,
         CommitRaises, IntervalElapses
<1> QED
  BY <1>1, <1>2, <1>3, <1>4, <1>5

\* CONFIRMED is written only for a mined transaction, and mined is for ever.
LEMMA ConfirmedInductive ==
    ASSUME AnchoringInv, [Next]_vars
    PROVE  ConfirmedIsOnChain'
<1> USE DEF AnchoringInv
<1>1. SUFFICES ASSUME NEW b \in Batch', anchors'[b].status = "CONFIRMED"
               PROVE  tx'[b] = "mined"
  BY DEF ConfirmedIsOnChain
<1>2. ASSUME NEW by \in Caller, InsertAnchor(by)
      PROVE  b \in Batch /\ anchors[b].status = "CONFIRMED"
  <2>1. PICK first, last : anchors' = Append(anchors, [first_seq |-> first, last_seq |-> last,
                                            root |-> first..last, status |-> "PENDING"])
    BY <1>2, InsertEffect
  <2>2. b \in 1..(Len(anchors) + 1)
    BY <1>1, <2>1 DEF Batch, TypeOK
  <2>3. b # Len(anchors) + 1
    BY <1>1, <2>1 DEF TypeOK
  <2> QED
    BY <1>1, <2>1, <2>2, <2>3, Domains DEF TypeOK
<1>3. ASSUME NEW c \in Batch, RecordReceipt(c)
      PROVE  tx'[b] = "mined"
  <2>1. c \in 1..Len(anchors) /\ anchors[c] \in AnchorRow /\ tx[c] \in TxState
    BY Domains DEF TypeOK
  <2>2. /\ tx' = tx /\ tx[c] # "unsent"
        /\ anchors' = [anchors EXCEPT ![c].status = ReceiptStatus(c)]
    BY <1>3 DEF RecordReceipt
  <2>3. CASE b = c
    BY <1>1, <2>1, <2>2, <2>3 DEF ReceiptStatus, TxState, AnchorRow, TypeOK
  <2>4. CASE b # c
    BY <1>1, <2>1, <2>2, <2>4 DEF ConfirmedIsOnChain, TypeOK, Batch
  <2> QED
    BY <2>3, <2>4
<1>4. ASSUME NEW c \in Batch, CommitRaises(c)
      PROVE  b \in Batch /\ anchors[b].status = "CONFIRMED"
  <2>1. c \in 1..Len(anchors) /\ anchors[c] \in AnchorRow
    BY Domains DEF TypeOK
  <2>2. anchors' = [anchors EXCEPT ![c].status = "FAILED"]
    BY <1>4 DEF CommitRaises
  <2> QED
    BY <1>1, <2>1, <2>2 DEF AnchorRow, TypeOK, Batch
<1>5. ASSUME b \in Batch, anchors[b].status = "CONFIRMED"
      PROVE  tx'[b] = "mined"
  BY <1>5, RowsKept DEF ConfirmedIsOnChain
<1>6. \/ \E by \in Caller : InsertAnchor(by)
      \/ \E c \in Batch : RecordReceipt(c) \/ CommitRaises(c)
      \/ anchors' = anchors
  BY DEF Next, vars, AppendEvent, BeginFlush, BreakerOpen, SendTx, MineTx, RevertTx,
         MarkAnchored, EmitCommitted, StatementFails, Crash, IntervalElapses
<1> QED
  BY <1>1, <1>2, <1>3, <1>4, <1>5, <1>6 DEF Batch

-----------------------------------------------------------------------------
\* No event, no batch, no flight: the invariant holds vacuously.
LEMMA InvInit == Init => AnchoringInv
<1> SUFFICES ASSUME Init PROVE AnchoringInv
  OBVIOUS
<1>1. DOMAIN anchored_in = {} /\ DOMAIN anchors = {}
  <2>1. DOMAIN <<>> = {}
    OBVIOUS
  <2> QED
    BY <2>1 DEF Init
<1>2. TypeOK
  <2>1. <<>> \in Seq(Nat) /\ <<>> \in Seq(AnchorRow) /\ <<>> \in Seq(TxState) /\ Len(<<>>) = 0
    OBVIOUS
  <2>2. Idle \in [batch : 0..0, step : {"idle", "mark", "emit"}]
    BY DEF Idle
  <2> QED
    BY <2>1, <2>2 DEF Init, TypeOK
<1>3. MarkHasReceipt
  BY DEF Init, Idle, MarkHasReceipt
<1> QED
  BY <1>1, <1>2, <1>3 DEF AnchoringInv, AnchoredIsPrefix, BatchIsRange, MarkedInRange,
        MarkedAfterReceipt, ConfirmedIsOnChain, Batch

LEMMA InvInductive == AnchoringInv /\ [Next]_vars => AnchoringInv'
<1> SUFFICES ASSUME AnchoringInv, [Next]_vars PROVE AnchoringInv'
  OBVIOUS
<1>1. TypeOK'
  BY TypeInductive DEF AnchoringInv
<1>2. AnchoredIsPrefix' /\ BatchIsRange'
  BY PrefixInductive, RangeInductive
<1>3. MarkedInRange' /\ MarkedAfterReceipt' /\ MarkHasReceipt' /\ ConfirmedIsOnChain'
  BY MarkedInductive, MarkHasReceiptInductive, ConfirmedInductive
<1> QED
  BY <1>1, <1>2, <1>3 DEF AnchoringInv

LEMMA AnchoringInvariant == Spec => []AnchoringInv
BY InvInit, InvInductive, PTL DEF Spec

\* Every variable keeps its type: in particular the row's status is one of the
\* four the code writes, and no flush refers to a row that is not there.
THEOREM AnchoringTypes == Spec => []TypeOK
<1>1. AnchoringInv => TypeOK
  BY DEF AnchoringInv
<1> QED
  BY <1>1, AnchoringInvariant, PTL

\* Whatever flushes overlap, fail or die, the anchored events of a district stay
\* an initial segment of its ledger.
THEOREM AnchoredPrefix == Spec => []AnchoredIsPrefix
<1>1. AnchoringInv => AnchoredIsPrefix
  BY DEF AnchoringInv
<1> QED
  BY <1>1, AnchoringInvariant, PTL

LEMMA InvMatchesRoots == AnchoringInv => ProofMatchesRoot
<1> SUFFICES ASSUME AnchoringInv, NEW e \in DOMAIN anchored_in, IsAnchored(e),
                    NEW b, b = anchored_in[e]
             PROVE  e \in anchors[b].root /\ ProofLeaves(b) = anchors[b].root
  BY DEF ProofMatchesRoot
<1>1. b \in Batch /\ anchors[b].first_seq <= e /\ e <= anchors[b].last_seq
  BY DEF AnchoringInv, MarkedInRange
<1>2. /\ anchors[b].first_seq \in 1..anchors[b].last_seq
      /\ anchors[b].last_seq <= Len(anchored_in)
      /\ anchors[b].root = anchors[b].first_seq .. anchors[b].last_seq
  BY <1>1 DEF AnchoringInv, BatchIsRange
<1>3. DOMAIN anchored_in = 1..Len(anchored_in) /\ Len(anchored_in) \in Nat
  BY Domains DEF AnchoringInv
<1>4. anchors[b].last_seq \in Nat
  <2>1. b \in 1..Len(anchors) /\ anchors \in Seq(AnchorRow)
    BY <1>1, Domains DEF AnchoringInv, TypeOK
  <2>2. anchors[b] \in AnchorRow
    BY <2>1
  <2> QED
    BY <2>2 DEF AnchorRow
<1> QED
  BY <1>1, <1>2, <1>3, <1>4 DEF ProofLeaves

\* The leaves build_proof_for_event reads back are those whose root the batch
\* committed, and the event is among them.
THEOREM ProofsMatchRoots == Spec => []ProofMatchesRoot
BY InvMatchesRoots, AnchoringInvariant, PTL

\* No event leaves the queue for an attempt that never reached the chain.
THEOREM MarksFollowReceipts == Spec => []MarkedAfterReceipt
<1>1. AnchoringInv => MarkedAfterReceipt
  BY DEF AnchoringInv
<1> QED
  BY <1>1, AnchoringInvariant, PTL

\* CONFIRMED in the anchors table is true of the chain.
THEOREM ConfirmedOnChain == Spec => []ConfirmedIsOnChain
<1>1. AnchoringInv => ConfirmedIsOnChain
  BY DEF AnchoringInv
<1> QED
  BY <1>1, AnchoringInvariant, PTL

\* The batch of an anchored event never changes.
THEOREM AnchoringFinal == Spec => AnchoringIsFinal
<1>1. AnchoringInv /\ [Next]_vars =>
        [\A e \in DOMAIN anchored_in : IsAnchored(e) =>
            e \in DOMAIN anchored_in' /\ anchored_in'[e] = anchored_in[e]]_vars
  BY MarksKept DEF AnchoringInv
<1> QED
  BY <1>1, AnchoringInvariant, PTL DEF Spec, AnchoringIsFinal

-----------------------------------------------------------------------------
(***************************************************************************)
(* What a FAILED batch with anchored events is.                            *)
(***************************************************************************)

\* A flush that still waits has not marked anything, nor is it about to.
FlightsUnmarked ==
    \A b \in Batch : InFlight(b) =>
        /\ \A e \in DOMAIN anchored_in : anchored_in[e] # b
        /\ receipt.step = "mark" => receipt.batch # b

\* FAILED for a batch that marks, or is about to, is the receipt's word.
FailedByChain ==
    \A b \in Batch :
        /\ \/ receipt.step = "mark" /\ receipt.batch = b
           \/ \E e \in DOMAIN anchored_in : anchored_in[e] = b
        /\ anchors[b].status = "FAILED"
        => tx[b] = "reverted"

FailedInv == AnchoringInv /\ FlightsUnmarked /\ FailedByChain

\* Which batches have events from now on: those that had, and the one that marks.
LEMMA NewMarks ==
    ASSUME AnchoringInv, [Next]_vars, NEW e \in DOMAIN anchored_in', NEW b \in Batch, anchored_in'[e] = b
    PROVE  \/ e \in DOMAIN anchored_in /\ anchored_in[e] = b
           \/ MarkAnchored /\ receipt.step = "mark" /\ receipt.batch = b
<1>1. b # NotAnchored
  BY Domains DEF AnchoringInv, NotAnchored
<1>2. TypeOK /\ AnchoredIsPrefix
  BY DEF AnchoringInv
<1>3. CASE e \in DOMAIN anchored_in /\ IsAnchored(e)
  BY <1>2, <1>3, MarksKept
<1>4. CASE MarkAnchored /\ ~ (e \in DOMAIN anchored_in /\ IsAnchored(e))
  <2>1. e \in DOMAIN anchored_in /\ ~ IsAnchored(e)
    BY <1>4, MarkEffect
  <2> QED
    BY <1>1, <1>4, <2>1, MarkEffect DEF MarkAnchored
<1>5. CASE ~ MarkAnchored
  BY <1>1, <1>2, <1>3, <1>5, MarksKept DEF IsAnchored
<1> QED
  BY <1>3, <1>4, <1>5

\* A verdict of the chain stands.
LEMMA RevertedStays ==
    ASSUME AnchoringInv, [Next]_vars, NEW b \in Batch, tx[b] = "reverted"
    PROVE  tx'[b] = "reverted"
<1>1. TypeOK /\ b \in 1..Len(anchors) /\ tx \in Seq(TxState) /\ Len(tx) = Len(anchors)
  BY Domains DEF AnchoringInv, TypeOK
<1>2. ASSUME NEW c \in Batch, SendTx(c) \/ MineTx(c) \/ RevertTx(c)
      PROVE  tx'[b] = "reverted"
  <2>1. tx[c] # "reverted" /\ \E s : tx' = [tx EXCEPT ![c] = s]
    BY <1>2 DEF SendTx, MineTx, RevertTx
  <2> QED
    BY <1>1, <2>1
<1>3. tx' = tx \/ tx' = Append(tx, "unsent") \/ \E c \in Batch : SendTx(c) \/ MineTx(c) \/ RevertTx(c)
  BY DEF Next, vars, AppendEvent, BeginFlush, BreakerOpen, InsertAnchor, RecordReceipt, CommitRaises,
         MarkAnchored, EmitCommitted, StatementFails, Crash, IntervalElapses
<1> QED
  BY <1>1, <1>2, <1>3

LEMMA UnmarkedInductive ==
    ASSUME FailedInv, [Next]_vars
    PROVE  FlightsUnmarked'
<1>1. AnchoringInv /\ TypeOK /\ AnchoredIsPrefix /\ FlightsUnmarked
  BY DEF FailedInv, AnchoringInv
<1>2. SUFFICES ASSUME NEW b \in Batch', InFlight(b)'
               PROVE  /\ \A e \in DOMAIN anchored_in' : anchored_in'[e] # b
                      /\ receipt'.step = "mark" => receipt'.batch # b
  BY DEF FlightsUnmarked
<1>3. ASSUME InFlight(b), receipt' = receipt \/ receipt'.step # "mark" \/ receipt'.batch # b
      PROVE  /\ \A e \in DOMAIN anchored_in' : anchored_in'[e] # b
             /\ receipt'.step = "mark" => receipt'.batch # b
  <2>1. b \in Batch
    BY <1>1, <1>3, Domains DEF TypeOK, InFlight
  <2> QED
    BY <1>1, <1>3, <2>1, NewMarks DEF FlightsUnmarked
<1>4. ASSUME NEW by \in Caller, BeginFlush(by), ~ InFlight(b)
      PROVE  /\ \A e \in DOMAIN anchored_in' : anchored_in'[e] # b
             /\ receipt'.step = "mark" => receipt'.batch # b
  <2>1. /\ flights' = flights \cup {[batch |-> Len(anchors) + 1, by |-> by]}
        /\ UNCHANGED <<anchored_in, receipt>>
    BY <1>4 DEF BeginFlush, InsertAnchor
  <2>2. b = Len(anchors) + 1
    BY <1>2, <1>4, <2>1 DEF InFlight
  <2>3. b \notin Batch /\ b # NotAnchored
    BY <1>1, <2>2, Domains DEF NotAnchored
  <2> QED
    BY <1>1, <2>1, <2>3 DEF AnchoringInv, MarkedInRange, MarkHasReceipt, IsAnchored
<1>5. ASSUME NEW c \in Batch, RecordReceipt(c)
      PROVE  InFlight(b) /\ receipt'.batch # b
  BY <1>2, <1>5 DEF RecordReceipt, InFlight
<1>6. \/ \E by \in Caller : BeginFlush(by)
      \/ \E c \in Batch : RecordReceipt(c)
      \/ flights' \subseteq flights /\ (receipt' = receipt \/ receipt'.step # "mark")
  <2>1. \/ \E by \in Caller : BeginFlush(by)
        \/ \E c \in Batch : RecordReceipt(c)
        \/ \/ MarkAnchored \/ EmitCommitted \/ StatementFails \/ Crash
        \/ \E c \in Batch : CommitRaises(c)
        \/ flights' = flights /\ receipt' = receipt
    BY DEF Next, vars, AppendEvent, BreakerOpen, InsertAnchor, SendTx, MineTx, RevertTx, IntervalElapses
  <2>2. MarkAnchored \/ EmitCommitted \/ Crash => flights' \subseteq flights /\ receipt'.step # "mark"
    BY <1>1 DEF MarkAnchored, EmitCommitted, Crash, Idle, TypeOK
  <2>3. StatementFails => flights' \subseteq flights /\ (receipt' = receipt \/ receipt'.step # "mark")
    BY DEF StatementFails, Idle
  <2>4. ASSUME NEW c \in Batch, CommitRaises(c)
        PROVE  flights' \subseteq flights /\ receipt' = receipt
    BY <2>4 DEF CommitRaises
  <2> QED
    BY <2>1, <2>2, <2>3, <2>4
<1>7. flights' \subseteq flights => InFlight(b)
  BY <1>2 DEF InFlight
<1> QED
  BY <1>3, <1>4, <1>5, <1>6, <1>7 DEF BeginFlush, InsertAnchor

LEMMA FailedInductive ==
    ASSUME FailedInv, [Next]_vars
    PROVE  FailedByChain'
<1> DEFINE Marks(b) == \/ receipt.step = "mark" /\ receipt.batch = b
                       \/ \E e \in DOMAIN anchored_in : anchored_in[e] = b
<1>1. AnchoringInv /\ TypeOK /\ AnchoredIsPrefix /\ FlightsUnmarked
  BY DEF FailedInv, AnchoringInv
<1>2. \A b \in Batch : Marks(b) /\ anchors[b].status = "FAILED" => tx[b] = "reverted"
  BY DEF FailedInv, FailedByChain
<1>3. SUFFICES ASSUME NEW b \in Batch', Marks(b)', anchors'[b].status = "FAILED"
               PROVE  tx'[b] = "reverted"
  BY DEF FailedByChain
<1>4. ASSUME b \in Batch
      PROVE  Marks(b) \/ (receipt'.step = "mark" /\ receipt'.batch = b /\ receipt' # receipt)
  <2>1. CASE receipt'.step = "mark" /\ receipt'.batch = b
    <3>1. receipt' = receipt => Marks(b)
      BY <2>1
    <3> QED
      BY <2>1, <3>1
  <2>2. ASSUME NEW e \in DOMAIN anchored_in', anchored_in'[e] = b
        PROVE  Marks(b)
    <3>1. \/ e \in DOMAIN anchored_in /\ anchored_in[e] = b
          \/ receipt.step = "mark" /\ receipt.batch = b
      BY <1>1, <1>4, <2>2, NewMarks
    <3> QED
      BY <3>1
  <2> QED
    BY <1>3, <2>1, <2>2
<1> HIDE DEF Marks
<1>5. ASSUME b \in Batch, Marks(b), anchors'[b].status = anchors[b].status
      PROVE  tx'[b] = "reverted"
  <2>1. tx[b] = "reverted"
    BY <1>2, <1>3, <1>5
  <2> QED
    BY <1>1, <1>5, <2>1, RevertedStays
<1>6. ASSUME NEW by \in Caller, InsertAnchor(by)
      PROVE  b \in Batch /\ anchors'[b] = anchors[b] /\ receipt' = receipt
  <2>1. PICK first, last : anchors' = Append(anchors, [first_seq |-> first, last_seq |-> last,
                                            root |-> first..last, status |-> "PENDING"])
    BY <1>1, <1>6, InsertEffect
  <2>2. b \in 1..(Len(anchors) + 1)
    BY <1>1, <1>3, <2>1 DEF Batch, TypeOK
  <2>3. b # Len(anchors) + 1
    BY <1>1, <1>3, <2>1 DEF TypeOK
  <2> QED
    BY <1>1, <1>6, <2>1, <2>2, <2>3, Domains DEF TypeOK, InsertAnchor
<1>7. ASSUME NEW c \in Batch, RecordReceipt(c)
      PROVE  tx'[b] = "reverted"
  <2>1. c \in 1..Len(anchors) /\ anchors[c] \in AnchorRow /\ tx[c] \in TxState
    BY <1>1, Domains DEF TypeOK
  <2>2. /\ tx' = tx /\ tx[c] # "unsent" /\ receipt' = [batch |-> c, step |-> "mark"]
        /\ anchors' = [anchors EXCEPT ![c].status = ReceiptStatus(c)]
    BY <1>7 DEF RecordReceipt
  <2>3. CASE b = c
    BY <1>1, <1>3, <2>1, <2>2, <2>3 DEF ReceiptStatus, TxState, AnchorRow, TypeOK
  <2>4. CASE b # c
    <3>1. b \in Batch /\ anchors'[b] = anchors[b]
      BY <1>1, <1>3, <2>2, <2>4 DEF TypeOK, Batch
    <3>2. Marks(b)
      BY <1>4, <2>2, <2>4, <3>1
    <3> QED
      BY <1>5, <3>1, <3>2
  <2> QED
    BY <2>3, <2>4
<1>8. ASSUME NEW c \in Batch, CommitRaises(c)
      PROVE  tx'[b] = "reverted"
  <2>1. /\ anchors' = [anchors EXCEPT ![c].status = "FAILED"] /\ receipt' = receipt
        /\ receipt.step = "idle" /\ InFlight(c)
    BY <1>8 DEF CommitRaises
  <2>2. b \in Batch /\ (b # c => anchors'[b] = anchors[b])
    BY <1>1, <1>3, <2>1 DEF TypeOK, Batch
  <2>3. Marks(b)
    BY <1>4, <2>1, <2>2
  <2>4. b # c
    BY <1>1, <2>1, <2>3 DEF FlightsUnmarked, Marks
  <2> QED
    BY <1>5, <2>2, <2>3, <2>4
<1>9. ASSUME anchors' = anchors, receipt' = receipt \/ receipt'.step # "mark"
      PROVE  tx'[b] = "reverted"
  <2>1. b \in Batch
    BY <1>3, <1>9 DEF Batch
  <2> QED
    BY <1>4, <1>5, <1>9, <2>1
<1>10. ASSUME MarkAnchored \/ EmitCommitted \/ StatementFails \/ Crash
       PROVE  anchors' = anchors /\ (receipt' = receipt \/ receipt'.step # "mark")
  BY <1>1, <1>10 DEF MarkAnchored, EmitCommitted, StatementFails, Crash, Idle, TypeOK
<1>11. \/ \E by \in Caller : InsertAnchor(by)
       \/ \E c \in Batch : RecordReceipt(c) \/ CommitRaises(c)
       \/ MarkAnchored \/ EmitCommitted \/ StatementFails \/ Crash
       \/ anchors' = anchors /\ receipt' = receipt
  BY DEF Next, vars, AppendEvent, BeginFlush, BreakerOpen, SendTx, MineTx, RevertTx, IntervalElapses
<1>12. ASSUME NEW by \in Caller, InsertAnchor(by)
       PROVE  tx'[b] = "reverted"
  <2>1. Marks(b)
    BY <1>4, <1>6, <1>12
  <2> QED
    BY <1>5, <1>6, <1>12, <2>1
<1> QED
  BY <1>7, <1>8, <1>9, <1>10, <1>11, <1>12

LEMMA FailedInvariant == Spec => []FailedInv
<1>1. Init => FailedInv
  <2> SUFFICES ASSUME Init PROVE FailedInv
    OBVIOUS
  <2>1. DOMAIN anchors = {}
    BY DEF Init
  <2> QED
    BY <2>1, InvInit DEF FailedInv, FlightsUnmarked, FailedByChain, Batch
<1>2. FailedInv /\ [Next]_vars => FailedInv'
  <2> SUFFICES ASSUME FailedInv, [Next]_vars PROVE FailedInv'
    OBVIOUS
  <2>1. AnchoringInv /\ AnchoringInv'
    BY InvInductive DEF FailedInv
  <2> QED
    BY <2>1, UnmarkedInductive, FailedInductive DEF FailedInv
<1> QED
  BY <1>1, <1>2, PTL DEF Spec

\* An event is anchored in a FAILED batch only when the contract rejected it, however
\* calls and statements fail, flushes overlap and the process dies.
THEOREM FailedMarksWereReverted == Spec => []MarkedFailedWasReverted
<1>1. FailedInv => MarkedFailedWasReverted
  BY DEF FailedInv, FailedByChain, MarkedFailedWasReverted, AnchoringInv, MarkedInRange
<1> QED
  BY <1>1, FailedInvariant, PTL

-----------------------------------------------------------------------------
\* MarkAnchored anchors the ledger up to the end of the batch, or changes nothing
\* when an overlapping flush was faster.
LEMMA MarkRefines ==
    ASSUME AnchoringInv, MarkAnchored
    PROVE  Log!Anchor \/ UNCHANGED Log!logVars
<1> DEFINE Marked   == {e \in DOMAIN anchored_in : IsAnchored(e)}
           b        == receipt.batch
           first    == anchors[b].first_seq
           last     == anchors[b].last_seq
<1>1. DOMAIN anchored_in = 1..Len(anchored_in) /\ Len(anchored_in) \in Nat
  BY Domains DEF AnchoringInv
<1>2. /\ b \in Batch /\ b # NotAnchored
      /\ DOMAIN anchored_in' = DOMAIN anchored_in
      /\ \A e \in DOMAIN anchored_in : IsAnchored(e) => anchored_in'[e] = anchored_in[e]
      /\ \A e \in DOMAIN anchored_in : ~ IsAnchored(e) =>
            anchored_in'[e] = IF first <= e /\ e <= last THEN b ELSE NotAnchored
  BY MarkEffect
<1>3. Len(anchored_in') = Len(anchored_in)
  <2>1. anchored_in' \in Seq(Nat)
    BY TypeInductive DEF AnchoringInv, TypeOK, Next
  <2> QED
    BY <1>1, <1>2, <2>1
<1>4. first \in 1..last /\ last <= Len(anchored_in) /\ last \in Nat
  <2>1. b \in 1..Len(anchors) /\ anchors \in Seq(AnchorRow)
    BY <1>2, Domains DEF AnchoringInv, TypeOK
  <2>2. anchors[b] \in AnchorRow
    BY <2>1
  <2> QED
    BY <1>2, <2>2 DEF AnchoringInv, BatchIsRange, AnchorRow
<1>5. \A e \in DOMAIN anchored_in : e < first => IsAnchored(e)
  BY <1>2 DEF AnchoringInv, BatchIsRange
<1>6. {e \in DOMAIN anchored_in' : anchored_in'[e] # NotAnchored} = Marked \cup (first..last)
  <2>1. ASSUME NEW e \in DOMAIN anchored_in
        PROVE  anchored_in'[e] # NotAnchored <=> IsAnchored(e) \/ (first <= e /\ e <= last)
    BY <1>2 DEF IsAnchored
  <2> QED
    BY <1>1, <1>2, <1>4, <2>1
<1>7. CASE first..last \subseteq Marked
  <2>1. {e \in DOMAIN anchored_in' : anchored_in'[e] # NotAnchored} = Marked
    BY <1>6, <1>7
  <2> QED
    BY <1>3, <2>1 DEF Log!logVars, IsAnchored
<1>8. CASE ~ (first..last \subseteq Marked)
  <2>1. PICK m \in first..last : ~ IsAnchored(m)
    BY <1>1, <1>4, <1>8
  <2>2. \A e \in Marked : e < m
    BY <1>1, <1>4, <2>1 DEF AnchoringInv, AnchoredIsPrefix
  <2>3. Marked \subseteq 1..last /\ m \in 1..last /\ m \notin Marked
    BY <1>1, <1>4, <2>1, <2>2
  <2>4. \A e \in 1..last : e \in Marked \cup (first..last)
    BY <1>1, <1>4, <1>5
  <2>5. {e \in DOMAIN anchored_in' : anchored_in'[e] # NotAnchored} = 1..last
    BY <1>4, <1>6, <2>3, <2>4
  <2>6. last \in 1..Len(anchored_in) /\ Marked # 1..last
    BY <1>1, <1>4, <2>3
  <2> QED
    BY <1>3, <2>3, <2>5, <2>6 DEF Log!Anchor, IsAnchored
<1> QED
  BY <1>7, <1>8

\* The anchor service implements the anchored log: batches, transactions, retries
\* and crashes are invisible in how the anchored segment grows.
THEOREM AnchoringRefinesLog == Spec => ImplementsAnchoredLog
<1>1. Init => Log!LogInit
  <2>1. DOMAIN <<>> = {} /\ Len(<<>>) = 0
    OBVIOUS
  <2> QED
    BY <2>1 DEF Init, Log!LogInit
<1>2. AnchoringInv /\ [Next]_vars => [Log!LogNext]_Log!logVars
  <2> SUFFICES ASSUME AnchoringInv, [Next]_vars
               PROVE  Log!LogNext \/ UNCHANGED Log!logVars
    OBVIOUS
  <2>1. CASE anchored_in' = anchored_in
    BY <2>1 DEF Log!logVars, IsAnchored
  <2>2. CASE anchored_in' = Append(anchored_in, NotAnchored)
    <3>1. Len(anchored_in') = Len(anchored_in) + 1
      BY <2>2 DEF AnchoringInv, TypeOK
    <3>2. \A e \in DOMAIN anchored_in' : anchored_in'[e] # NotAnchored <=>
              e \in DOMAIN anchored_in /\ IsAnchored(e)
      BY <2>2 DEF AnchoringInv, TypeOK, IsAnchored
    <3>3. DOMAIN anchored_in \subseteq DOMAIN anchored_in'
      BY MarksKept DEF AnchoringInv
    <3>4. {e \in DOMAIN anchored_in' : anchored_in'[e] # NotAnchored}
            = {e \in DOMAIN anchored_in : IsAnchored(e)}
      BY <3>2, <3>3
    <3> QED
      BY <3>1, <3>4 DEF Log!LogNext, Log!Extend, IsAnchored
  <2>3. CASE MarkAnchored
    BY <2>3, MarkRefines DEF Log!LogNext
  <2> QED
    BY <2>1, <2>2, <2>3, MarksEffect DEF AnchoringInv
<1> QED
  BY <1>1, <1>2, AnchoringInvariant, PTL DEF Spec, ImplementsAnchoredLog, Log!LogSpec

-----------------------------------------------------------------------------
(***************************************************************************)
(* What the public is told.  The proofs of Merkle are exact for any list   *)
(* of distinct leaves; what remains is that the leaves read back are those *)
(* of the root.                                                            *)
(***************************************************************************)

\* The leaves of a range of events are listed in order, and the index of an event
\* among them is its distance from the first.
LEMMA LeavesOfRange ==
    ASSUME NEW first \in Nat, NEW last \in Nat, first <= last
    PROVE  LET leaves == Leaves(first..last)
           IN  /\ IsLevel(leaves) /\ Len(leaves) = last - first + 1
               /\ \A i \in 1..Len(leaves) : leaves[i] = Leaf(first + (i - 1))
               /\ \A e \in first..last : Cardinality({f \in first..last : f < e}) = e - first
<1> DEFINE n == last - first + 1
           below(e) == {f \in first..last : f < e}
<1>1. n \in Nat \ {0}
  OBVIOUS
<1>2. Cardinality(first..last) = n
  <2>1. ~ (first > last) /\ first \in Int /\ last \in Int
    OBVIOUS
  <2> QED
    BY <2>1, FS_Interval
<1>3. ASSUME NEW e \in first..last
      PROVE  Cardinality(below(e)) = e - first
  <2>1. below(e) = first..(e - 1)
    OBVIOUS
  <2>2. e - 1 \in Int /\ first \in Int
    OBVIOUS
  <2>3. Cardinality(first..(e - 1)) = IF first > e - 1 THEN 0 ELSE (e - 1) - first + 1
    BY <2>2, FS_Interval
  <2> HIDE DEF below
  <2>4. CASE e = first
    <3>1. first > e - 1 /\ e - first = 0
      BY <2>4
    <3> QED
      BY <2>1, <2>3, <3>1
  <2>5. CASE e # first
    <3>1. ~ (first > e - 1) /\ (e - 1) - first + 1 = e - first
      BY <2>5
    <3> QED
      BY <2>1, <2>3, <3>1
  <2> QED
    BY <2>4, <2>5
<1> HIDE DEF below
<1>4. ASSUME NEW i \in 1..n
      PROVE  (CHOOSE e \in first..last : Cardinality(below(e)) = i - 1) = first + (i - 1)
  <2>1. first + (i - 1) \in first..last
    OBVIOUS
  <2>2. \A e \in first..last : Cardinality(below(e)) = i - 1 <=> e = first + (i - 1)
    BY <1>3
  <2> QED
    BY <2>1, <2>2
<1> DEFINE leafAt(i) == Leaf(first + (i - 1))
           leaves    == Leaves(first..last)
<1>5. leaves = [i \in 1..n |-> leafAt(i)]
  <2>1. leaves = [i \in 1..n |-> Leaf(CHOOSE e \in first..last : Cardinality(below(e)) = i - 1)]
    BY <1>2 DEF Leaves, below
  <2> HIDE DEF n
  <2> QED
    BY <1>4, <2>1
<1> DEFINE T == {leafAt(i) : i \in 1..n}
<1> HIDE DEF leafAt, leaves, n
<1>6. \A i \in 1..n : leafAt(i) \in T
  OBVIOUS
<1> HIDE DEF T
<1>7. leaves \in Seq(T) /\ Len(leaves) = n /\ DOMAIN leaves = 1..n
  BY <1>1, <1>5, <1>6
<1>8. \A i \in 1..n : leaves[i] = leafAt(i)
  BY <1>5
<1>9. leaves \in Seq({leaves[i] : i \in DOMAIN leaves})
  BY <1>1, <1>7
<1>10. IsLevel(leaves)
  BY <1>1, <1>7, <1>9 DEF IsLevel
<1>11. Len(leaves) = last - first + 1
  BY <1>7 DEF n
<1>12. \A i \in 1..Len(leaves) : leaves[i] = Leaf(first + (i - 1))
  BY <1>7, <1>8 DEF leafAt
<1>13. \A e \in first..last : Cardinality({f \in first..last : f < e}) = e - first
  BY <1>3 DEF below
<1> QED
  BY <1>10, <1>11, <1>12, <1>13 DEF leaves

LEMMA LeafIsInjective == ASSUME NEW e, NEW f, Leaf(e) = Leaf(f) PROVE e = f
BY DEF Leaf

\* What is known of an anchored event: the leaves read back are the committed ones,
\* without repetition, and the event has its place among them.
LEMMA AnchoredLeaves ==
    ASSUME AnchoringInv, NEW e \in DOMAIN anchored_in, IsAnchored(e)
    PROVE  LET b      == anchored_in[e]
               leaves == Leaves(ProofLeaves(b))
           IN  /\ b \in Batch
               /\ leaves = Leaves(anchors[b].root)
               /\ IsLevel(leaves) /\ Distinct(leaves)
               /\ TargetIndex(e) \in 0..Len(leaves)-1
               /\ leaves[TargetIndex(e) + 1] = Leaf(e)
<1> DEFINE b      == anchored_in[e]
           first  == anchors[b].first_seq
           last   == anchors[b].last_seq
           leaves == Leaves(ProofLeaves(b))
<1>1. b \in Batch /\ first <= e /\ e <= last
  BY DEF AnchoringInv, MarkedInRange
<1>2. ProofLeaves(b) = anchors[b].root /\ anchors[b].root = first..last /\ first \in 1..last
  BY <1>1, InvMatchesRoots DEF AnchoringInv, ProofMatchesRoot, BatchIsRange
<1>3. last \in Nat
  <2>1. b \in 1..Len(anchors) /\ anchors \in Seq(AnchorRow)
    BY <1>1, Domains DEF AnchoringInv, TypeOK
  <2>2. anchors[b] \in AnchorRow
    BY <2>1
  <2> QED
    BY <2>2 DEF AnchorRow
<1>4. e \in Nat
  BY Domains DEF AnchoringInv
<1>5. TargetIndex(e) = Cardinality({f \in ProofLeaves(b) : f < e})
  BY DEF TargetIndex
<1> HIDE DEF b, first, last
<1>6. first \in Nat /\ first <= last /\ e \in first..last
  BY <1>1, <1>2, <1>3, <1>4
<1>7. leaves = Leaves(first..last)
  BY <1>2
<1>8. /\ IsLevel(leaves) /\ Len(leaves) = last - first + 1
      /\ \A i \in 1..Len(leaves) : leaves[i] = Leaf(first + (i - 1))
  <2> DEFINE range == Leaves(first..last)
  <2>1. /\ IsLevel(range) /\ Len(range) = last - first + 1
        /\ \A i \in 1..Len(range) : range[i] = Leaf(first + (i - 1))
    BY <1>3, <1>6, LeavesOfRange
  <2> HIDE DEF leaves
  <2> QED
    BY <1>7, <2>1
<1>9. TargetIndex(e) = e - first
  <2>1. Cardinality({f \in first..last : f < e}) = e - first
    BY <1>3, <1>6, LeavesOfRange
  <2> QED
    BY <1>2, <1>5, <2>1
<1> HIDE DEF leaves
<1>10. ASSUME NEW i \in 1..Len(leaves), NEW j \in 1..Len(leaves), leaves[i] = leaves[j]
       PROVE  i = j
  <2>1. first + (i - 1) = first + (j - 1)
    BY <1>8, <1>10, LeafIsInjective
  <2> QED
    BY <1>3, <1>6, <1>8, <2>1
<1>11. /\ TargetIndex(e) \in 0..Len(leaves)-1 /\ TargetIndex(e) + 1 \in 1..Len(leaves)
       /\ first + ((TargetIndex(e) + 1) - 1) = e
  BY <1>3, <1>6, <1>8, <1>9
<1>12. leaves[TargetIndex(e) + 1] = Leaf(e)
  BY <1>8, <1>11
<1> QED
  BY <1>1, <1>2, <1>8, <1>10, <1>11, <1>12 DEF Distinct, b, leaves

\* A committed root is a hash, never the zero the contract keeps for no batch.
LEMMA RootIsNotZero ==
    ASSUME NEW leaves, IsLevel(leaves), NEW index \in 0..Len(leaves)-1, NEW e,
           leaves[index + 1] = Leaf(e)
    PROVE  ComputeMerkleRootEvm(leaves) # NoRoot
<1> DEFINE proof == MerkleProofEvm(leaves, index)
           n == Len(proof)
<1>1. n \in Nat
  BY ProofSiblings DEF MerkleProofEvm
<1>2. Climb(Leaf(e), proof) = ComputeMerkleRootEvm(leaves)
  BY KeccakProofLeads
<1> HIDE DEF proof
<1>3. PICK h : /\ h[0] = Leaf(e) /\ Climb(Leaf(e), proof) = h[n]
               /\ \A k \in 1..n : h[k] = KeccakPairSorted(h[k-1], proof[k])
  BY <1>1, ClimbRounds
<1> HIDE DEF n
<1>4. h[n] = Leaf(e) \/ h[n] = KeccakPairSorted(h[n-1], proof[n])
  <2>1. n = 0 \/ n \in 1..n
    BY <1>1
  <2> QED
    BY <1>3, <2>1
<1>5. \A a, b : KeccakPairSorted(a, b) # NoRoot
  BY DEF KeccakPairSorted, NoRoot
<1>6. Leaf(e) # NoRoot
  BY DEF Leaf, NoRoot
<1> QED
  BY <1>2, <1>3, <1>4, <1>5, <1>6

\* The contract accepts exactly the event's own leaf with its proof, and that as
\* soon as the batch is mined.
LEMMA BundleIsExact ==
    ASSUME AnchoringInv, NEW e \in DOMAIN anchored_in, IsAnchored(e), NEW f
    PROVE  VerifyProof(anchored_in[e], Leaf(f), BuildProof(e).siblings)
              <=> tx[anchored_in[e]] = "mined" /\ f = e
<1> DEFINE b      == anchored_in[e]
           leaves == Leaves(ProofLeaves(b))
           proof  == MerkleProofEvm(leaves, TargetIndex(e))
           root   == ComputeMerkleRootEvm(leaves)
<1>1. /\ leaves = Leaves(anchors[b].root) /\ IsLevel(leaves)
      /\ TargetIndex(e) \in 0..Len(leaves)-1 /\ leaves[TargetIndex(e) + 1] = Leaf(e)
  BY AnchoredLeaves
<1>2. BuildProof(e).siblings = proof
  BY DEF BuildProof
<1>3. OnChainRoot(b) = IF tx[b] = "mined" THEN root ELSE NoRoot
  BY <1>1 DEF OnChainRoot
<1>4. root # NoRoot
  BY <1>1, RootIsNotZero
<1>5. VerifyMerkleProofEvm(Leaf(f), proof, root) <=> Leaf(f) = Leaf(e)
  BY <1>1, KeccakProofIsExact
<1>6. Leaf(f) = Leaf(e) <=> f = e
  BY LeafIsInjective
<1> HIDE DEF b, proof, root
<1> QED
  BY <1>2, <1>3, <1>4, <1>5, <1>6 DEF VerifyProof, b

\* For any number of events, batches, late receipts, failures and crashes: a title
\* verifies exactly when its event is anchored in a batch on the chain, and CONFIRMED
\* is never said of one that does not.
THEOREM VerdictsMatchChain == Spec => []VerdictMatchesChain
<1>1. AnchoringInv => VerdictMatchesChain
  <2> SUFFICES ASSUME AnchoringInv, NEW e \in DOMAIN anchored_in
               PROVE  /\ VerifyTitle(e).valid <=> IsAnchored(e) /\ tx[anchored_in[e]] = "mined"
                      /\ VerifyTitle(e).anchor_status = "CONFIRMED" => VerifyTitle(e).valid
    BY DEF VerdictMatchesChain
  <2>1. CASE ~ IsAnchored(e)
    BY <2>1 DEF VerifyTitle
  <2>2. CASE IsAnchored(e)
    <3> DEFINE b     == anchored_in[e]
               valid == VerifyBundle(BuildProof(e))
    <3>1. valid <=> tx[b] = "mined"
      <4>1. VerifyProof(b, Leaf(e), BuildProof(e).siblings) <=> tx[b] = "mined"
        BY <2>2, BundleIsExact
      <4>2. BuildProof(e).batch = b /\ BuildProof(e).leaf = Leaf(e)
        BY DEF BuildProof
      <4> QED
        BY <4>1, <4>2 DEF VerifyBundle
    <3>2. VerifyTitle(e).valid = valid /\ VerifyTitle(e).anchor_status = anchors[b].status
      BY <2>2 DEF VerifyTitle
    <3>3. anchors[b].status = "CONFIRMED" => tx[b] = "mined"
      BY <2>2, AnchoredLeaves DEF AnchoringInv, ConfirmedIsOnChain
    <3> HIDE DEF b, valid
    <3> QED
      BY <2>2, <3>1, <3>2, <3>3 DEF b
  <2> QED
    BY <2>1, <2>2
<1> QED
  BY <1>1, AnchoringInvariant, PTL

\* For any size of batch: neither the certificate's proof nor the auditor's proves
\* another event, or another position, than the one it was built for.
THEOREM InclusionIsExact == Spec => []InclusionProofsAreExact
<1>1. AnchoringInv => InclusionProofsAreExact
  <2> SUFFICES ASSUME AnchoringInv, NEW e \in DOMAIN anchored_in, IsAnchored(e),
                      tx[anchored_in[e]] = "mined"
               PROVE  LET leaves == Leaves(ProofLeaves(anchored_in[e]))
                          proof  == MerkleProof(leaves, TargetIndex(e))
                          root   == ComputeMerkleRoot(leaves)
                      IN  /\ \A f \in DOMAIN anchored_in :
                                VerifyProof(anchored_in[e], Leaf(f), BuildProof(e).siblings)
                                    <=> e = f
                          /\ \A i, j \in 0..Len(leaves)-1 :
                                VerifyMerkleProof(leaves[i+1], proof, root, j)
                                    <=> i = TargetIndex(e) /\ j = TargetIndex(e)
    BY DEF InclusionProofsAreExact
  <2> DEFINE leaves == Leaves(ProofLeaves(anchored_in[e]))
             t      == TargetIndex(e)
  <2>1. \A f : VerifyProof(anchored_in[e], Leaf(f), BuildProof(e).siblings) <=> e = f
    BY BundleIsExact
  <2>2. IsLevel(leaves) /\ Distinct(leaves) /\ t \in 0..Len(leaves)-1
    BY AnchoredLeaves
  <2> HIDE DEF leaves, t
  <2>3. ASSUME NEW i \in 0..Len(leaves)-1, NEW j \in 0..Len(leaves)-1
        PROVE  VerifyMerkleProof(leaves[i+1], MerkleProof(leaves, t), ComputeMerkleRoot(leaves), j)
                  <=> i = t /\ j = t
    <3>1. VerifyMerkleProof(leaves[i+1], MerkleProof(leaves, t), ComputeMerkleRoot(leaves), j)
             <=> leaves[i+1] = leaves[t+1] /\ j = t
      BY <2>2, Sha256ProofIsExact
    <3>2. leaves[i+1] = leaves[t+1] <=> i = t
      <4>1. i + 1 \in 1..Len(leaves) /\ t + 1 \in 1..Len(leaves)
        BY <2>2, LevelLen
      <4>2. leaves[i+1] = leaves[t+1] => i + 1 = t + 1
        BY <2>2, <4>1 DEF Distinct
      <4> QED
        BY <2>2, <4>2
    <3> QED
      BY <3>1, <3>2
  <2> QED
    BY <2>1, <2>3 DEF leaves, t
<1> QED
  BY <1>1, AnchoringInvariant, PTL
=============================================================================
