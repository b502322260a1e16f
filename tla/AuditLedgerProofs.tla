------------------------- MODULE AuditLedgerProofs -------------------------
(***************************************************************************)
(* What the lock of AuditLedger.append guarantees, for any number of       *)
(* threads, districts, payloads and rows, when all writers live in one     *)
(* process; and what the verifier that reads beside them may conclude.     *)
(***************************************************************************)
EXTENDS ChainVerifier, FiniteSetTheorems, TLAPS

\* All writers share one lock: the deployment of docker-compose.yml with no
\* script run beside it.
OneLock == \A v, w \in Writer : ProcessOf[v] = ProcessOf[w]

\* At most one writer is between the read and the insert.
OneHolder == \A v, w \in Writer : job[v] # NoJob /\ job[w] # NoJob => v = w

\* The inductive strengthening: the chain invariants need the pending job to
\* describe the end of its chain, which in turn needs mutual exclusion.
LedgerInv ==
    /\ LedgerTypeOK
    /\ OneHolder
    /\ LockedReadIsCurrent
    /\ ChainContiguous
    /\ ChainLinked

-----------------------------------------------------------------------------
\* A pending job is a job: NoJob is not one of the others' values.
LEMMA PendingJobType ==
    ASSUME LedgerTypeOK, NEW w \in Writer, job[w] # NoJob
    PROVE  job[w] \in Job
BY DEF LedgerTypeOK

\* The row a job inserts has the type of a row, whatever the job read.
LEMMA SuccessorRowType ==
    ASSUME NEW j \in Job
    PROVE  SuccessorRow(j) \in Row
<1>1. j.prevHash \in Seq(Payload) /\ j.payload \in Payload /\ j.prevSeq + 1 \in Nat
  BY DEF Job, Hash
<1>2. RowHash(j.prevHash, j.payload) \in Seq(Payload)
  BY <1>1 DEF RowHash
<1> QED
  BY <1>1, <1>2 DEF SuccessorRow, Row, Hash

\* What the SELECT may answer has the type of a sequence number and a hash.
LEMMA LastSeqAndHashType ==
    ASSUME LedgerTypeOK, NEW d \in District, NEW last \in LastSeqAndHash(d)
    PROVE  last.seq \in Nat /\ last.row_hash \in Hash
<1>1. CASE rows[d] = <<>>
  <2>1. last = [seq |-> 0, row_hash |-> <<>>]
    BY <1>1 DEF LastSeqAndHash, GenesisHash
  <2>2. <<>> \in Seq(Payload)
    OBVIOUS
  <2> QED
    BY <2>1, <2>2 DEF Hash
<1>2. CASE rows[d] # <<>>
  <2>1. PICK i \in DOMAIN rows[d] :
            last = [seq |-> rows[d][i].seq, row_hash |-> rows[d][i].row_hash]
    BY <1>2 DEF LastSeqAndHash
  <2>2. rows[d][i] \in Row
    BY <2>1 DEF LedgerTypeOK
  <2> QED
    BY <2>1, <2>2 DEF Row
<1> QED
  BY <1>1, <1>2

\* The type invariant needs no assumption on the processes.
LEMMA TypeInductive == LedgerTypeOK /\ [LedgerNext]_ledgerVars => LedgerTypeOK'
<1> SUFFICES ASSUME LedgerTypeOK, [LedgerNext]_ledgerVars
             PROVE  LedgerTypeOK'
  OBVIOUS
<1>1. ASSUME NEW w \in Writer, NEW d \in District, NEW p \in Payload,
             BeginAppend(w, d, p)
      PROVE  LedgerTypeOK'
  <2>1. PICK last \in LastSeqAndHash(d) :
            job' = [job EXCEPT ![w] = [district |-> d, payload |-> p,
                                       prevSeq  |-> last.seq,
                                       prevHash |-> last.row_hash]]
    BY <1>1 DEF BeginAppend
  <2>2. [district |-> d, payload |-> p, prevSeq  |-> last.seq,
         prevHash |-> last.row_hash] \in Job
    BY LastSeqAndHashType DEF Job
  <2> QED
    BY <1>1, <2>1, <2>2 DEF BeginAppend, LedgerTypeOK
<1>2. ASSUME NEW w \in Writer, InsertRow(w)
      PROVE  LedgerTypeOK'
  <2>1. job[w] \in Job
    BY <1>2, PendingJobType DEF InsertRow
  <2>2. job[w].district \in District /\ SuccessorRow(job[w]) \in Row
    BY <2>1, SuccessorRowType DEF Job
  <2>3. Append(rows[job[w].district], SuccessorRow(job[w])) \in Seq(Row)
    BY <2>2 DEF LedgerTypeOK
  <2> QED
    BY <1>2, <2>3 DEF InsertRow, LedgerTypeOK
<1>3. ASSUME NEW w \in Writer, InsertFails(w)
      PROVE  LedgerTypeOK'
  BY <1>3 DEF InsertFails, LedgerTypeOK
<1>4. ASSUME NEW p \in Process, Crash(p)
      PROVE  LedgerTypeOK'
  BY <1>4 DEF Crash, LedgerTypeOK
<1>5. CASE UNCHANGED ledgerVars
  BY <1>5 DEF ledgerVars, LedgerTypeOK
<1> QED
  BY <1>1, <1>2, <1>3, <1>4, <1>5 DEF LedgerNext

\* OneHolder: the lock admits one writer at a time.
LEMMA OneHolderInductive ==
    ASSUME OneLock, LedgerTypeOK, OneHolder, [LedgerNext]_ledgerVars
    PROVE  OneHolder'
<1>1. ASSUME NEW w \in Writer, NEW d \in District, NEW p \in Payload,
             BeginAppend(w, d, p)
      PROVE  OneHolder'
  <2>1. \A v \in Writer : job[v] = NoJob
    BY <1>1 DEF BeginAppend, LockFree, OneLock
  <2>2. \A v \in Writer : v # w => job'[v] = job[v]
    BY <1>1 DEF BeginAppend, LedgerTypeOK
  <2> QED
    BY <2>1, <2>2 DEF OneHolder
<1>2. ASSUME NEW w \in Writer, InsertRow(w) \/ InsertFails(w)
      PROVE  OneHolder'
  BY <1>2 DEF InsertRow, InsertFails, OneHolder, LedgerTypeOK
<1>3. ASSUME NEW p \in Process, Crash(p)
      PROVE  OneHolder'
  BY <1>3 DEF Crash, OneHolder
<1>4. CASE UNCHANGED ledgerVars
  BY <1>4 DEF ledgerVars, OneHolder
<1> QED
  BY <1>1, <1>2, <1>3, <1>4 DEF LedgerNext

\* On a well-formed chain the SELECT has one answer: the last row.
LEMMA LastIsUnique ==
    ASSUME LedgerTypeOK, ChainContiguous, NEW d \in District,
           NEW last \in LastSeqAndHash(d)
    PROVE  /\ last.seq = Len(rows[d])
           /\ last.row_hash = HashBefore(d, Len(rows[d]) + 1)
<1> DEFINE n == Len(rows[d])
<1>1. rows[d] \in Seq(Row)
  BY DEF LedgerTypeOK
<1>2. CASE rows[d] = <<>>
  <2>1. last = [seq |-> 0, row_hash |-> <<>>]
    BY <1>2 DEF LastSeqAndHash, GenesisHash
  <2>2. Len(rows[d]) = 0
    BY <1>2
  <2> QED
    BY <2>1, <2>2 DEF HashBefore, GenesisHash
<1>3. CASE rows[d] # <<>>
  <2>1. PICK i \in DOMAIN rows[d] :
            /\ \A k \in DOMAIN rows[d] : rows[d][k].seq <= rows[d][i].seq
            /\ last = [seq |-> rows[d][i].seq, row_hash |-> rows[d][i].row_hash]
    BY <1>3 DEF LastSeqAndHash
  <2>2. n \in Nat /\ n \in DOMAIN rows[d] /\ DOMAIN rows[d] = 1..n
    BY <1>1, <1>3
  <2>3. n <= i /\ i <= n
    BY <2>1, <2>2 DEF ChainContiguous
  <2>4. i = n
    BY <2>2, <2>3
  <2>5. last.seq = n /\ last.row_hash = rows[d][n].row_hash
    BY <2>1, <2>4, <2>2 DEF ChainContiguous
  <2>6. n + 1 # 1 /\ (n + 1) - 1 = n
    BY <2>2
  <2> QED
    BY <2>5, <2>6 DEF HashBefore
<1> QED
  BY <1>2, <1>3

\* The effect of an INSERT on the chain it extends, and on no other.
LEMMA InsertEffect ==
    ASSUME LedgerTypeOK, NEW w \in Writer, InsertRow(w)
    PROVE  LET e == job[w].district
               n == Len(rows[e])
           IN  /\ e \in District /\ n \in Nat
               /\ DOMAIN rows[e] = 1..n /\ DOMAIN rows'[e] = 1..(n + 1)
               /\ \A i \in 1..n : rows'[e][i] = rows[e][i]
               /\ rows'[e][n + 1] = SuccessorRow(job[w])
               /\ \A d \in District : d # e => rows'[d] = rows[d]
<1> DEFINE e == job[w].district
           n == Len(rows[e])
<1>1. job[w] \in Job
  BY PendingJobType DEF InsertRow
<1>2. e \in District /\ SuccessorRow(job[w]) \in Row
  BY <1>1, SuccessorRowType DEF Job
<1>3. rows[e] \in Seq(Row) /\ n \in Nat
  BY <1>2 DEF LedgerTypeOK
<1>4. rows'[e] = Append(rows[e], SuccessorRow(job[w]))
  BY <1>2 DEF InsertRow, LedgerTypeOK
<1>5. \A d \in District : d # e => rows'[d] = rows[d]
  BY <1>2 DEF InsertRow, LedgerTypeOK
<1> HIDE DEF e
<1>6. /\ DOMAIN rows[e] = 1..n
      /\ DOMAIN rows'[e] = 1..(n + 1)
      /\ \A i \in 1..n : rows'[e][i] = rows[e][i]
      /\ rows'[e][n + 1] = SuccessorRow(job[w])
  BY <1>2, <1>3, <1>4
<1> USE DEF e
<1> QED
  BY <1>2, <1>3, <1>5, <1>6

\* The new row carries the next sequence number and continues the last hash,
\* because the job read under the lock is still current.
LEMMA InsertKeepsChain ==
    ASSUME LedgerInv, NEW w \in Writer, InsertRow(w)
    PROVE  ChainContiguous' /\ ChainLinked'
<1> DEFINE e == job[w].district
           n == Len(rows[e])
<1>1. /\ e \in District /\ n \in Nat
      /\ DOMAIN rows[e] = 1..n /\ DOMAIN rows'[e] = 1..(n + 1)
      /\ \A i \in 1..n : rows'[e][i] = rows[e][i]
      /\ rows'[e][n + 1] = SuccessorRow(job[w])
      /\ \A d \in District : d # e => rows'[d] = rows[d]
  BY InsertEffect DEF LedgerInv
<1>2. job[w].prevSeq = n /\ job[w].prevHash = HashBefore(e, n + 1)
  BY DEF LedgerInv, LockedReadIsCurrent, InsertRow
<1> HIDE DEF e, n
<1>3. ASSUME NEW d \in District, d = e, NEW i \in 1..(n + 1)
      PROVE  HashBefore(d, i)' = HashBefore(d, i)
  <2>1. CASE i = 1
    BY <2>1 DEF HashBefore
  <2>2. CASE i # 1
    <3>1. i - 1 \in 1..n
      BY <2>2, <1>1
    <3>2. rows'[d][i - 1] = rows[d][i - 1]
      BY <3>1, <1>3, <1>1
    <3> QED
      BY <3>2, <2>2 DEF HashBefore
  <2> QED
    BY <2>1, <2>2
<1>4. /\ rows'[e][n + 1].seq = n + 1
      /\ rows'[e][n + 1].prev_hash = HashBefore(e, n + 1)
      /\ rows'[e][n + 1].row_hash =
            RowHash(HashBefore(e, n + 1), rows'[e][n + 1].written)
  BY <1>1, <1>2 DEF SuccessorRow
<1>5. \A i \in 1..(n + 1) : i \in 1..n \/ i = n + 1
  BY <1>1
<1>6. ChainContiguous'
  <2> SUFFICES ASSUME NEW d \in District, NEW i \in DOMAIN rows'[d]
               PROVE  rows'[d][i].seq = i
    BY DEF ChainContiguous
  <2>1. CASE d # e
    BY <2>1, <1>1 DEF LedgerInv, ChainContiguous
  <2>2. CASE d = e /\ i \in 1..n
    BY <2>2, <1>1 DEF LedgerInv, ChainContiguous
  <2>3. CASE d = e /\ i = n + 1
    BY <2>3, <1>4
  <2> QED
    BY <2>1, <2>2, <2>3, <1>1, <1>5
<1>7. ChainLinked'
  <2> SUFFICES ASSUME NEW d \in District, NEW i \in DOMAIN rows'[d]
               PROVE  /\ rows'[d][i].prev_hash = HashBefore(d, i)'
                      /\ rows'[d][i].row_hash =
                            RowHash(HashBefore(d, i)', rows'[d][i].written)
    BY DEF ChainLinked, RowHash
  <2>1. ASSUME i \in DOMAIN rows[d], rows'[d][i] = rows[d][i],
               HashBefore(d, i)' = HashBefore(d, i)
        PROVE         /\ rows'[d][i].prev_hash = HashBefore(d, i)'
                      /\ rows'[d][i].row_hash =
                            RowHash(HashBefore(d, i)', rows'[d][i].written)
    BY <2>1 DEF LedgerInv, ChainLinked
  <2>2. CASE d # e
    <3>1. rows'[d] = rows[d]
      BY <2>2, <1>1
    <3>2. HashBefore(d, i)' = HashBefore(d, i)
      BY <3>1 DEF HashBefore
    <3> QED
      BY <3>1, <3>2, <2>1
  <2>3. CASE d = e /\ i \in 1..n
    <3>1. rows'[d][i] = rows[d][i] /\ i \in DOMAIN rows[d] /\ i \in 1..(n + 1)
      BY <2>3, <1>1
    <3>2. HashBefore(d, i)' = HashBefore(d, i)
      BY <2>3, <3>1, <1>3
    <3> QED
      BY <3>1, <3>2, <2>1
  <2>4. CASE d = e /\ i = n + 1
    <3>1. i \in 1..(n + 1)
      BY <2>4, <1>1
    <3>2. HashBefore(d, i)' = HashBefore(d, i)
      BY <2>4, <3>1, <1>3
    <3> QED
      BY <2>4, <3>2, <1>4
  <2> QED
    BY <2>2, <2>3, <2>4, <1>1, <1>5
<1> QED
  BY <1>6, <1>7

LEMMA InvInit == LedgerInit => LedgerInv
<1> SUFFICES ASSUME LedgerInit
             PROVE  LedgerInv
  OBVIOUS
<1>1. \A d \in District : rows[d] = <<>> /\ DOMAIN rows[d] = {}
  <2>1. DOMAIN <<>> = {}
    OBVIOUS
  <2> QED
    BY <2>1 DEF LedgerInit
<1>2. LedgerTypeOK
  BY DEF LedgerInit, LedgerTypeOK
<1>3. OneHolder /\ LockedReadIsCurrent
  BY DEF LedgerInit, OneHolder, LockedReadIsCurrent
<1>4. ChainContiguous /\ ChainLinked
  BY <1>1 DEF ChainContiguous, ChainLinked
<1> QED
  BY <1>2, <1>3, <1>4 DEF LedgerInv

LEMMA InvInductive ==
    ASSUME OneLock, LedgerInv, [LedgerNext]_ledgerVars
    PROVE  LedgerInv'
<1>1. LedgerTypeOK'
  BY TypeInductive DEF LedgerInv
<1>2. OneHolder'
  BY OneHolderInductive DEF LedgerInv
<1>3. LockedReadIsCurrent' /\ ChainContiguous' /\ ChainLinked'
  <2>1. ASSUME NEW w \in Writer, NEW d \in District, NEW p \in Payload,
               BeginAppend(w, d, p)
        PROVE  LockedReadIsCurrent' /\ ChainContiguous' /\ ChainLinked'
    <3>1. PICK last \in LastSeqAndHash(d) :
              job' = [job EXCEPT ![w] = [district |-> d, payload |-> p,
                                         prevSeq  |-> last.seq,
                                         prevHash |-> last.row_hash]]
      BY <2>1 DEF BeginAppend
    <3>2. /\ job'[w].district = d
          /\ job'[w].prevSeq  = Len(rows[d])
          /\ job'[w].prevHash = HashBefore(d, Len(rows[d]) + 1)
      BY <3>1, LastIsUnique DEF LedgerInv, LedgerTypeOK
    <3>3. \A v \in Writer : v # w => job'[v] = NoJob
      BY <2>1, <3>1 DEF BeginAppend, LockFree, OneLock, LedgerInv, LedgerTypeOK
    <3>4. rows' = rows
      BY <2>1 DEF BeginAppend
    <3>5. LockedReadIsCurrent'
      BY <3>2, <3>3, <3>4 DEF LockedReadIsCurrent, HashBefore
    <3> QED
      BY <3>4, <3>5 DEF LedgerInv, ChainContiguous, ChainLinked, HashBefore
  <2>2. ASSUME NEW w \in Writer, InsertRow(w)
        PROVE  LockedReadIsCurrent' /\ ChainContiguous' /\ ChainLinked'
    <3>1. \A v \in Writer : job'[v] = NoJob
      BY <2>2 DEF InsertRow, LedgerInv, LedgerTypeOK, OneHolder
    <3>2. LockedReadIsCurrent'
      BY <3>1 DEF LockedReadIsCurrent
    <3> QED
      BY <2>2, <3>2, InsertKeepsChain
  <2>3. ASSUME NEW w \in Writer, InsertFails(w)
        PROVE  LockedReadIsCurrent' /\ ChainContiguous' /\ ChainLinked'
    <3>1. rows' = rows /\ \A v \in Writer : job'[v] # NoJob => job'[v] = job[v]
      BY <2>3 DEF InsertFails, LedgerInv, LedgerTypeOK
    <3> QED
      BY <3>1 DEF LedgerInv, LockedReadIsCurrent, ChainContiguous, ChainLinked, HashBefore
  <2>4. ASSUME NEW p \in Process, Crash(p)
        PROVE  LockedReadIsCurrent' /\ ChainContiguous' /\ ChainLinked'
    <3>1. rows' = rows /\ \A v \in Writer : job'[v] # NoJob => job'[v] = job[v]
      BY <2>4 DEF Crash
    <3> QED
      BY <3>1 DEF LedgerInv, LockedReadIsCurrent, ChainContiguous, ChainLinked, HashBefore
  <2>5. CASE UNCHANGED ledgerVars
    BY <2>5 DEF ledgerVars, LedgerInv, LockedReadIsCurrent, ChainContiguous, ChainLinked,
                HashBefore
  <2> QED
    BY <2>1, <2>2, <2>3, <2>4, <2>5 DEF LedgerNext
<1> QED
  BY <1>1, <1>2, <1>3 DEF LedgerInv

-----------------------------------------------------------------------------
\* The types hold for any number of processes: a fork of the chain
\* is a wrong chain, never an ill-formed row.
THEOREM LedgerTypes == LedgerSpec => []LedgerTypeOK
<1>1. LedgerInit => LedgerTypeOK
  BY InvInit DEF LedgerInv
<1> QED
  BY <1>1, TypeInductive, PTL DEF LedgerSpec

LEMMA LedgerInvariant ==
    ASSUME OneLock
    PROVE  LedgerSpec => []LedgerInv
<1>1. LedgerInv /\ [LedgerNext]_ledgerVars => LedgerInv'
  BY OneLock, InvInductive
<1> QED
  BY <1>1, InvInit, PTL DEF LedgerSpec

\* With one lock, the sequence numbers of every district are 1, 2, 3, ...
THEOREM OneLockContiguous ==
    ASSUME OneLock
    PROVE  LedgerSpec => []ChainContiguous
<1>1. LedgerInv => ChainContiguous
  BY DEF LedgerInv
<1> QED
  BY <1>1, LedgerInvariant, PTL

\* With one lock, every row's hash continues the row before it.
THEOREM OneLockLinked ==
    ASSUME OneLock
    PROVE  LedgerSpec => []ChainLinked
<1>1. LedgerInv => ChainLinked
  BY DEF LedgerInv
<1> QED
  BY <1>1, LedgerInvariant, PTL

\* With one lock, what append read is still the end of the chain when it inserts.
THEOREM OneLockReadIsCurrent ==
    ASSUME OneLock
    PROVE  LedgerSpec => []LockedReadIsCurrent
<1>1. LedgerInv => LockedReadIsCurrent
  BY DEF LedgerInv
<1> QED
  BY <1>1, LedgerInvariant, PTL

-----------------------------------------------------------------------------
(***************************************************************************)
(* The walk of ChainVerifier, beside any number of appends and edits.      *)
(***************************************************************************)

\* The rows after the cursor, and those of them a page lists up to row j.
After(d, cursor) == {i \in DOMAIN rows[d] : rows[d][i].seq > cursor}
UpTo(d, cursor, j) == {i \in After(d, cursor) : InIndexOrder(d, i, j)}

LEMMA RowsOf ==
    ASSUME LedgerTypeOK, NEW d \in District
    PROVE  /\ Len(rows[d]) \in Nat /\ DOMAIN rows[d] = 1..Len(rows[d])
           /\ \A i \in DOMAIN rows[d] : rows[d][i] \in Row /\ rows[d][i].seq \in Nat
<1>1. rows[d] \in Seq(Row)
  BY DEF LedgerTypeOK
<1>2. /\ Len(rows[d]) \in Nat /\ DOMAIN rows[d] = 1..Len(rows[d])
      /\ \A i \in DOMAIN rows[d] : rows[d][i] \in Row
  BY <1>1
<1> QED
  BY <1>2 DEF Row

LEMMA AfterIsFinite ==
    ASSUME LedgerTypeOK, NEW d \in District, NEW cursor \in Nat
    PROVE  /\ IsFiniteSet(After(d, cursor)) /\ Cardinality(After(d, cursor)) \in Nat
           /\ \A j \in After(d, cursor) :
                 /\ IsFiniteSet(UpTo(d, cursor, j)) /\ Cardinality(UpTo(d, cursor, j)) \in Nat
                 /\ Cardinality(UpTo(d, cursor, j)) <= Cardinality(After(d, cursor))
                 /\ Cardinality(UpTo(d, cursor, j)) >= 1
<1>1. IsFiniteSet(1..Len(rows[d]))
  BY RowsOf, FS_Interval
<1>2. IsFiniteSet(After(d, cursor)) /\ Cardinality(After(d, cursor)) \in Nat
  <2>1. After(d, cursor) \in SUBSET (1..Len(rows[d]))
    BY RowsOf DEF After
  <2> QED
    BY <1>1, <2>1, FS_Subset, FS_CardinalityType
<1>3. ASSUME NEW j \in After(d, cursor)
      PROVE  /\ IsFiniteSet(UpTo(d, cursor, j)) /\ Cardinality(UpTo(d, cursor, j)) \in Nat
             /\ Cardinality(UpTo(d, cursor, j)) <= Cardinality(After(d, cursor))
             /\ Cardinality(UpTo(d, cursor, j)) >= 1
  <2>1. UpTo(d, cursor, j) \in SUBSET After(d, cursor)
    BY DEF UpTo
  <2>2. /\ IsFiniteSet(UpTo(d, cursor, j)) /\ Cardinality(UpTo(d, cursor, j)) \in Nat
        /\ Cardinality(UpTo(d, cursor, j)) <= Cardinality(After(d, cursor))
    BY <1>2, <2>1, FS_Subset, FS_CardinalityType
  <2>3. j \in UpTo(d, cursor, j)
    BY RowsOf DEF UpTo, After, InIndexOrder
  <2>4. Cardinality(UpTo(d, cursor, j)) # 0
    BY <2>2, <2>3, FS_EmptySet
  <2> QED
    BY <2>2, <2>4
<1> QED
  BY <1>2, <1>3

\* The index lists each row after the cursor at a place of its own, also when rows
\* have equal numbers, and leaves no place of the page empty.
LEMMA EveryRank ==
    ASSUME LedgerTypeOK, NEW d \in District, NEW cursor \in Nat,
           NEW k \in 1..Cardinality(After(d, cursor))
    PROVE  \E j \in After(d, cursor) : Cardinality(UpTo(d, cursor, j)) = k
<1> DEFINE A == After(d, cursor)
           N == Cardinality(A)
           f == [j \in A |-> Cardinality(UpTo(d, cursor, j))]
<1>1. IsFiniteSet(A) /\ N \in Nat
  BY AfterIsFinite
<1>2. f \in [A -> 1..N]
  BY AfterIsFinite
<1>3. ASSUME NEW i \in A, NEW j \in A, f[i] = f[j]
      PROVE  i = j
  <2>1. /\ i \in DOMAIN rows[d] /\ j \in DOMAIN rows[d] /\ DOMAIN rows[d] \subseteq Nat
        /\ \A h \in DOMAIN rows[d] : rows[d][h].seq \in Nat
    BY RowsOf DEF After
  <2>2. ASSUME NEW x \in A, NEW y \in A, f[x] = f[y], InIndexOrder(d, x, y)
        PROVE  InIndexOrder(d, y, x)
    <3>1. UpTo(d, cursor, x) \subseteq UpTo(d, cursor, y)
      BY <2>1, <2>2 DEF UpTo, InIndexOrder, After
    <3>2. Cardinality(UpTo(d, cursor, x)) = Cardinality(UpTo(d, cursor, y))
      BY <2>2
    <3>3. UpTo(d, cursor, x) = UpTo(d, cursor, y)
      BY <3>1, <3>2, AfterIsFinite, FS_Subset
    <3>4. y \in UpTo(d, cursor, y)
      BY <2>1 DEF UpTo, InIndexOrder, After
    <3> QED
      BY <3>3, <3>4 DEF UpTo
  <2>3. InIndexOrder(d, i, j) \/ InIndexOrder(d, j, i)
    BY <2>1 DEF InIndexOrder
  <2>4. InIndexOrder(d, i, j) /\ InIndexOrder(d, j, i)
    BY <1>3, <2>2, <2>3
  <2>5. i \in Nat /\ j \in Nat /\ rows[d][i].seq \in Nat /\ rows[d][j].seq \in Nat
    BY <2>1
  <2>6. rows[d][i].seq = rows[d][j].seq
    BY <2>4, <2>5 DEF InIndexOrder
  <2>7. i <= j /\ j <= i
    BY <2>4, <2>5, <2>6 DEF InIndexOrder
  <2> QED
    BY <2>5, <2>7
<1>4. f \in Injection(A, 1..N)
  BY <1>2, <1>3 DEF Injection, IsInjective
<1>5. IsFiniteSet(1..N) /\ Cardinality(1..N) = N
  BY <1>1, FS_Interval
<1> HIDE DEF f
<1>6. f \in Surjection(A, 1..N)
  BY <1>4, <1>5, <1>1, FS_Injection
<1>7. PICK j \in A : f[j] = k
  BY <1>6 DEF Surjection
<1> QED
  BY <1>7 DEF f

\* How many rows a page has, and that they are rows of the district after the cursor.
LEMMA PageRows ==
    ASSUME LedgerTypeOK, NEW d \in District, NEW cursor \in Nat
    PROVE  LET page == Read(d, cursor)
               N    == Cardinality(After(d, cursor))
           IN  /\ page \in Seq(Row)
               /\ N \in Nat
               /\ Len(page) = IF N < Batch THEN N ELSE Batch
               /\ \A k \in 1..Len(page) :
                     page[k] = rows[d][CHOOSE j \in After(d, cursor) :
                                          Cardinality(UpTo(d, cursor, j)) = k]
<1> DEFINE N == Cardinality(After(d, cursor))
           size == IF N < Batch THEN N ELSE Batch
           at(k) == CHOOSE j \in After(d, cursor) : Cardinality(UpTo(d, cursor, j)) = k
<1>1. N \in Nat /\ size \in Nat /\ size <= N
  BY AfterIsFinite, BatchIsPositive
<1>2. Read(d, cursor) = [k \in 1..size |-> rows[d][at(k)]]
  BY DEF Read, After, UpTo
<1>3. ASSUME NEW k \in 1..size
      PROVE  rows[d][at(k)] \in Row
  <2>1. k \in 1..N
    BY <1>1
  <2>2. at(k) \in After(d, cursor)
    BY <2>1, EveryRank
  <2> QED
    BY <2>2, RowsOf DEF After
<1> HIDE DEF at, size
<1>4. Read(d, cursor) \in Seq(Row) /\ Len(Read(d, cursor)) = size
  BY <1>1, <1>2, <1>3
<1> QED
  BY <1>1, <1>2, <1>4 DEF at, size

\* On a contiguous chain the page is the rows that follow the cursor.
LEMMA ContiguousPage ==
    ASSUME LedgerTypeOK, ChainContiguous, NEW d \in District, NEW cursor \in Nat,
           cursor <= Len(rows[d])
    PROVE  LET page == Read(d, cursor)
               n    == Len(rows[d]) - cursor
           IN  /\ page \in Seq(Row)
               /\ Len(page) = IF n < Batch THEN n ELSE Batch
               /\ \A k \in 1..Len(page) :
                     cursor + k \in 1..Len(rows[d]) /\ page[k] = rows[d][cursor + k]
<1> DEFINE n == Len(rows[d])
           A == After(d, cursor)
<1>1. n \in Nat /\ DOMAIN rows[d] = 1..n /\ \A i \in 1..n : rows[d][i].seq = i
  BY RowsOf DEF ChainContiguous
<1>2. A = (cursor + 1)..n
  BY <1>1 DEF After
<1>3. Cardinality(A) = n - cursor
  <2>1. /\ cursor + 1 \in Int /\ n \in Int /\ cursor <= n
        /\ cursor = n => cursor + 1 > n
        /\ n - (cursor + 1) + 1 = n - cursor
    BY <1>1
  <2> HIDE DEF n
  <2>2. Cardinality((cursor + 1)..n) = IF cursor + 1 > n THEN 0 ELSE n - (cursor + 1) + 1
    BY <2>1, FS_Interval
  <2>3. CASE cursor = n
    BY <1>2, <2>1, <2>2, <2>3
  <2>4. CASE cursor # n
    <3>1. ~ (cursor + 1 > n)
      BY <2>1, <2>4
    <3> QED
      BY <1>2, <2>1, <2>2, <3>1
  <2> QED
    BY <2>3, <2>4
<1>4. ASSUME NEW j \in A
      PROVE  Cardinality(UpTo(d, cursor, j)) = j - cursor
  <2>1. UpTo(d, cursor, j) = (cursor + 1)..j
    BY <1>1, <1>2 DEF UpTo, InIndexOrder
  <2> QED
    BY <1>1, <1>2, <2>1, FS_Interval
<1>5. ASSUME NEW k \in 1..(n - cursor)
      PROVE  /\ cursor + k \in 1..n
             /\ (CHOOSE j \in A : Cardinality(UpTo(d, cursor, j)) = k) = cursor + k
  <2>1. cursor + k \in A /\ cursor + k \in 1..n
    BY <1>1, <1>2
  <2>2. \A j \in A : Cardinality(UpTo(d, cursor, j)) = k <=> j = cursor + k
    BY <1>1, <1>2, <1>4
  <2> QED
    BY <2>1, <2>2
<1> HIDE DEF A, n
<1> DEFINE page == Read(d, cursor)
<1>6. /\ page \in Seq(Row)
      /\ Len(page) = IF n - cursor < Batch THEN n - cursor ELSE Batch
      /\ \A k \in 1..Len(page) :
            page[k] = rows[d][CHOOSE j \in A : Cardinality(UpTo(d, cursor, j)) = k]
  BY <1>3, PageRows DEF A
<1>7. \A k \in 1..Len(page) : k \in 1..(n - cursor)
  BY <1>1, <1>6, BatchIsPositive DEF n
<1> QED
  BY <1>5, <1>6, <1>7 DEF n

\* What either kind of edit does: rows keep their numbers and what append was called
\* with, and those before the first rewritten hash keep their hash.
SameRows(d) ==
    /\ Len(rows'[d]) = Len(rows[d]) /\ DOMAIN rows'[d] = DOMAIN rows[d]
    /\ \A k \in DOMAIN rows[d] : /\ rows'[d][k].seq = rows[d][k].seq
                                 /\ rows'[d][k].written = rows[d][k].written

LEMMA EditRowEffect ==
    ASSUME LedgerTypeOK, NEW e \in District, NEW i \in DOMAIN rows[e], NEW p \in Payload,
           EditRow(e, i, p)
    PROVE  /\ rows' \in [District -> Seq(Row)]
           /\ \A d \in District :
                 /\ SameRows(d)
                 /\ \A k \in DOMAIN rows[d] : rows'[d][k].row_hash = rows[d][k].row_hash
<1>1. rows[e] \in Seq(Row) /\ rows[e][i] \in Row
  BY RowsOf DEF LedgerTypeOK
<1>2. PICK r \in Row :
          /\ r.seq = rows[e][i].seq /\ r.written = rows[e][i].written
          /\ r.row_hash = rows[e][i].row_hash
          /\ rows' = [rows EXCEPT ![e] = [rows[e] EXCEPT ![i] = r]]
  <2>1. CASE rows' = [rows EXCEPT ![e][i].payload = p]
    <3> DEFINE r == [rows[e][i] EXCEPT !.payload = p]
    <3>1. /\ r \in Row /\ r.seq = rows[e][i].seq /\ r.written = rows[e][i].written
          /\ r.row_hash = rows[e][i].row_hash
      BY <1>1 DEF Row
    <3>2. rows' = [rows EXCEPT ![e] = [rows[e] EXCEPT ![i] = r]]
      BY <2>1
    <3> HIDE DEF r
    <3> QED
      BY <3>1, <3>2
  <2>2. CASE rows' = [rows EXCEPT ![e][i].payload = p, ![e][i].payload_hash = p]
    <3> DEFINE r == [rows[e][i] EXCEPT !.payload = p, !.payload_hash = p]
    <3>1. /\ r \in Row /\ r.seq = rows[e][i].seq /\ r.written = rows[e][i].written
          /\ r.row_hash = rows[e][i].row_hash
      BY <1>1 DEF Row
    <3>2. rows' = [rows EXCEPT ![e] = [rows[e] EXCEPT ![i] = r]]
      BY <2>2 DEF LedgerTypeOK
    <3> HIDE DEF r
    <3> QED
      BY <3>1, <3>2
  <2>3. CASE rows' = [rows EXCEPT ![e][i].prev_hash = RowHash(GenesisHash, p)]
    <3> DEFINE r == [rows[e][i] EXCEPT !.prev_hash = RowHash(GenesisHash, p)]
    <3>1. RowHash(GenesisHash, p) \in Hash
      <4>1. <<>> \in Seq(Payload)
        OBVIOUS
      <4> QED
        BY <4>1 DEF RowHash, GenesisHash, Hash
    <3>2. /\ r \in Row /\ r.seq = rows[e][i].seq /\ r.written = rows[e][i].written
          /\ r.row_hash = rows[e][i].row_hash
      BY <1>1, <3>1 DEF Row
    <3>3. rows' = [rows EXCEPT ![e] = [rows[e] EXCEPT ![i] = r]]
      BY <2>3
    <3> HIDE DEF r
    <3> QED
      BY <3>2, <3>3
  <2>4. CASE rows' = [rows EXCEPT ![e][i].unhashed = "altered"]
    <3> DEFINE r == [rows[e][i] EXCEPT !.unhashed = "altered"]
    <3>1. /\ r \in Row /\ r.seq = rows[e][i].seq /\ r.written = rows[e][i].written
          /\ r.row_hash = rows[e][i].row_hash
      BY <1>1 DEF Row
    <3>2. rows' = [rows EXCEPT ![e] = [rows[e] EXCEPT ![i] = r]]
      BY <2>4
    <3> HIDE DEF r
    <3> QED
      BY <3>1, <3>2
  <2> QED
    BY <2>1, <2>2, <2>3, <2>4 DEF EditRow
<1>3. [rows[e] EXCEPT ![i] = r] \in Seq(Row)
  BY <1>1, <1>2
<1>4. /\ rows'[e] = [rows[e] EXCEPT ![i] = r]
      /\ \A d \in District : d # e => rows'[d] = rows[d]
  BY <1>2 DEF LedgerTypeOK
<1>5. rows' \in [District -> Seq(Row)]
  BY <1>2, <1>3 DEF LedgerTypeOK
<1>6. /\ Len(rows'[e]) = Len(rows[e]) /\ DOMAIN rows'[e] = DOMAIN rows[e]
      /\ \A k \in DOMAIN rows[e] : rows'[e][k] = IF k = i THEN r ELSE rows[e][k]
  BY <1>1, <1>3, <1>4
<1> QED
  BY <1>2, <1>4, <1>5, <1>6 DEF SameRows

LEMMA HashBeforeType ==
    ASSUME LedgerTypeOK, NEW d \in District, NEW i \in 1..(Len(rows[d]) + 1)
    PROVE  HashBefore(d, i) \in Hash
<1>1. CASE i = 1
  <2>1. <<>> \in Seq(Payload)
    OBVIOUS
  <2> QED
    BY <1>1, <2>1 DEF HashBefore, GenesisHash, Hash
<1>2. CASE i # 1
  <2>1. i - 1 \in DOMAIN rows[d]
    BY <1>2, RowsOf
  <2>2. rows[d][i - 1] \in Row
    BY <2>1, RowsOf
  <2> QED
    BY <1>2, <2>2 DEF HashBefore, Row
<1> QED
  BY <1>1, <1>2

LEMMA NewHashType ==
    ASSUME LedgerTypeOK, NEW d \in District, NEW i \in DOMAIN rows[d], NEW p \in Payload,
           NEW k \in (i - 1)..Len(rows[d])
    PROVE  NewHash(d, i, p, k) \in Hash
<1> DEFINE n == k - i + 1
           add == [m \in 1..n |-> IF m = 1 THEN p ELSE rows[d][i + m - 1].payload_hash]
<1>1. DOMAIN rows[d] = 1..Len(rows[d]) /\ Len(rows[d]) \in Nat /\ i \in 1..Len(rows[d])
  BY RowsOf
<1>2. n \in Nat /\ i \in 1..(Len(rows[d]) + 1)
  BY <1>1
<1>3. ASSUME NEW m \in 1..n
      PROVE  add[m] \in Payload
  <2>1. CASE m = 1
    BY <2>1
  <2>2. CASE m # 1
    <3>1. i + m - 1 \in DOMAIN rows[d]
      BY <1>1
    <3>2. rows[d][i + m - 1] \in Row
      BY <3>1, RowsOf
    <3>3. rows[d][i + m - 1].payload_hash \in Payload
      BY <3>2 DEF Row
    <3> QED
      BY <2>2, <3>3
  <2> QED
    BY <2>1, <2>2
<1> HIDE DEF n
<1>4. add \in Seq(Payload)
  BY <1>2, <1>3
<1>5. HashBefore(d, i) \in Seq(Payload)
  BY <1>2, HashBeforeType DEF Hash
<1> HIDE DEF add
<1>6. HashBefore(d, i) \o add \in Seq(Payload)
  BY <1>4, <1>5
<1> QED
  BY <1>6 DEF NewHash, Hash, add, n

LEMMA RehashEffect ==
    ASSUME LedgerTypeOK, NEW e \in District, NEW i \in DOMAIN rows[e], NEW p \in Payload,
           NEW j \in i..Len(rows[e]), Rehash(e, i, j, p)
    PROVE  /\ rows' \in [District -> Seq(Row)]
           /\ \A d \in District :
                 /\ SameRows(d)
                 /\ \A k \in DOMAIN rows[d] :
                       d # e \/ k < i => rows'[d][k].row_hash = rows[d][k].row_hash
<1> DEFINE n == Len(rows[e])
           new(k) == [rows[e][k] EXCEPT !.payload      = IF k = i THEN p ELSE @,
                                        !.payload_hash = IF k = i THEN p ELSE @,
                                        !.prev_hash    = NewHash(e, i, p, k - 1),
                                        !.row_hash     = NewHash(e, i, p, k)]
           tail == [k \in 1..n |-> IF k \in i..j THEN new(k) ELSE rows[e][k]]
<1>1. /\ n \in Nat /\ DOMAIN rows[e] = 1..n /\ rows[e] \in Seq(Row)
      /\ \A k \in 1..n : rows[e][k] \in Row
  BY RowsOf DEF LedgerTypeOK
<1>2. ASSUME NEW k \in 1..n, k \in i..j
      PROVE  new(k) \in Row /\ new(k).seq = rows[e][k].seq /\ new(k).written = rows[e][k].written
  <2>1. rows[e][k] \in Row
    BY <1>1
  <2>2. k \in (i - 1)..n /\ k - 1 \in (i - 1)..n
    BY <1>1, <1>2
  <2>3. NewHash(e, i, p, k) \in Hash /\ NewHash(e, i, p, k - 1) \in Hash
    BY <2>2, NewHashType
  <2> DEFINE g == NewHash(e, i, p, k)
             h == NewHash(e, i, p, k - 1)
             q == IF k = i THEN p ELSE rows[e][k].payload
             r == IF k = i THEN p ELSE rows[e][k].payload_hash
  <2>4. q \in Payload /\ r \in Payload
    BY <2>1 DEF Row
  <2>5. new(k) = [rows[e][k] EXCEPT !.payload = q, !.payload_hash = r, !.prev_hash = h,
                                    !.row_hash = g]
    BY <2>1 DEF Row
  <2> HIDE DEF g, h, q, r, new
  <2> QED
    BY <2>1, <2>3, <2>4, <2>5 DEF Row, g, h
<1>3. ASSUME NEW k \in 1..n
      PROVE  /\ tail[k] \in Row /\ tail[k].seq = rows[e][k].seq
             /\ tail[k].written = rows[e][k].written
             /\ k < i => tail[k].row_hash = rows[e][k].row_hash
  <2>1. CASE k \in i..j
    <3>1. tail[k] = new(k)
      BY <2>1
    <3>2. k >= i
      BY <1>1, <2>1
    <3> HIDE DEF new, tail
    <3> QED
      BY <1>1, <1>2, <2>1, <3>1, <3>2
  <2>2. CASE k \notin i..j
    BY <1>1, <2>2
  <2> QED
    BY <2>1, <2>2
<1>4. rows' = [rows EXCEPT ![e] = tail]
  BY <1>1 DEF Rehash
<1> HIDE DEF tail
<1>5. tail \in Seq(Row) /\ Len(tail) = n /\ DOMAIN tail = 1..n
  <2>1. DOMAIN tail = 1..n
    BY DEF tail
  <2>2. tail = [k \in 1..n |-> tail[k]]
    BY DEF tail
  <2>3. tail \in [1..n -> Row]
    BY <1>3, <2>2
  <2> QED
    BY <1>1, <2>1, <2>3
<1>6. /\ rows'[e] = tail
      /\ \A d \in District : d # e => rows'[d] = rows[d]
  BY <1>4 DEF LedgerTypeOK
<1>7. rows' \in [District -> Seq(Row)]
  BY <1>4, <1>5 DEF LedgerTypeOK
<1> HIDE DEF n
<1>8. SameRows(e)
  BY <1>1, <1>3, <1>5, <1>6 DEF SameRows, n
<1>9. ASSUME NEW d \in District
      PROVE  /\ SameRows(d)
             /\ \A k \in DOMAIN rows[d] :
                   d # e \/ k < i => rows'[d][k].row_hash = rows[d][k].row_hash
  <2>1. CASE d = e
    BY <1>1, <1>3, <1>6, <1>8, <2>1
  <2>2. CASE d # e
    BY <1>6, <2>2 DEF SameRows
  <2> QED
    BY <2>1, <2>2
<1> QED
  BY <1>7, <1>9

\* What both kinds of edit leave of a district: its rows, and the hashes of those
\* before the first rewritten one, which an edit can only move towards the start.
TamperKeeps(d) ==
    /\ SameRows(d)
    /\ rehashed[d] # 0 => rehashed'[d] # 0
    /\ rehashed'[d] # 0 => rehashed'[d] = rehashed[d] \/ rehashed'[d] \in 1..Len(rows[d])
    /\ \A k \in 0..Len(rows[d]) : Untouched(d, k)' =>
          /\ Untouched(d, k)
          /\ k # 0 => rows'[d][k].row_hash = rows[d][k].row_hash

LEMMA TamperEffect ==
    ASSUME VerifierTypeOK, NEW e \in District, NEW i \in DOMAIN rows[e], NEW p \in Payload,
           EditRow(e, i, p) \/ \E j \in i..Len(rows[e]) : Rehash(e, i, j, p)
    PROVE  /\ rows' \in [District -> Seq(Row)] /\ rehashed' \in [District -> Nat]
           /\ \A d \in District : TamperKeeps(d)
           /\ edits' = edits + 1 /\ edits' \in 0..MaxEdits
           /\ UNCHANGED <<job, walk, readAltered>>
<1>1. /\ LedgerTypeOK /\ rehashed \in [District -> Nat]
      /\ \A d \in District : Len(rows[d]) \in Nat /\ DOMAIN rows[d] = 1..Len(rows[d])
  BY RowsOf DEF VerifierTypeOK
<1>2. ASSUME EditRow(e, i, p)
      PROVE  /\ rows' \in [District -> Seq(Row)] /\ rehashed' \in [District -> Nat]
             /\ \A d \in District : TamperKeeps(d)
  <2>1. rehashed' = rehashed
    BY <1>2 DEF EditRow
  <2>2. /\ rows' \in [District -> Seq(Row)]
        /\ \A d \in District :
              /\ SameRows(d)
              /\ \A k \in DOMAIN rows[d] : rows'[d][k].row_hash = rows[d][k].row_hash
    BY <1>1, <1>2, EditRowEffect
  <2>3. ASSUME NEW d \in District
        PROVE  TamperKeeps(d)
    <3>1. \A k \in 0..Len(rows[d]) : k # 0 => k \in DOMAIN rows[d]
      BY <1>1
    <3> QED
      BY <2>1, <2>2, <3>1 DEF TamperKeeps, Untouched
  <2> QED
    BY <1>1, <2>1, <2>2, <2>3
<1>3. ASSUME NEW j \in i..Len(rows[e]), Rehash(e, i, j, p)
      PROVE  /\ rows' \in [District -> Seq(Row)] /\ rehashed' \in [District -> Nat]
             /\ \A d \in District : TamperKeeps(d)
  <2>1. rehashed' = [rehashed EXCEPT ![e] = IF Untouched(e, i) THEN i ELSE @]
    BY <1>3 DEF Rehash
  <2>2. /\ rows' \in [District -> Seq(Row)]
        /\ \A d \in District :
              /\ SameRows(d)
              /\ \A k \in DOMAIN rows[d] :
                    d # e \/ k < i => rows'[d][k].row_hash = rows[d][k].row_hash
    BY <1>1, <1>3, RehashEffect
  <2>3. i \in 1..Len(rows[e]) /\ i \in Nat /\ i # 0
    BY <1>1
  <2>4. rehashed' \in [District -> Nat]
    BY <1>1, <2>1, <2>3
  <2>5. ASSUME NEW d \in District
        PROVE  TamperKeeps(d)
    <3>1. \A k \in 0..Len(rows[d]) : k # 0 => k \in DOMAIN rows[d]
      BY <1>1
    <3>2. CASE d # e
      <4>1. rehashed'[d] = rehashed[d]
        BY <1>1, <2>1, <3>2
      <4> QED
        BY <2>2, <3>1, <3>2, <4>1 DEF TamperKeeps, Untouched
    <3>3. CASE d = e
      <4>1. rehashed'[e] = IF Untouched(e, i) THEN i ELSE rehashed[e]
        BY <1>1, <2>1
      <4>2. /\ rehashed[e] \in Nat /\ rehashed'[e] # 0 /\ rehashed'[e] <= i
            /\ rehashed[e] # 0 => rehashed'[e] <= rehashed[e]
            /\ rehashed'[e] = rehashed[e] \/ rehashed'[e] \in 1..Len(rows[e])
        BY <1>1, <2>3, <4>1 DEF Untouched
      <4>3. ASSUME NEW k \in 0..Len(rows[e]), Untouched(e, k)'
            PROVE  /\ Untouched(e, k)
                   /\ k # 0 => rows'[e][k].row_hash = rows[e][k].row_hash
        <5>1. rehashed'[e] \in Nat /\ k < rehashed'[e] /\ k \in Nat
          BY <2>4, <4>2, <4>3, <1>1 DEF Untouched
        <5>2. k < i /\ (rehashed[e] # 0 => k < rehashed[e])
          BY <2>3, <4>2, <5>1
        <5> QED
          BY <2>2, <3>1, <3>3, <5>2 DEF Untouched
      <4> QED
        BY <2>2, <3>3, <4>2, <4>3 DEF TamperKeeps
    <3> QED
      BY <3>2, <3>3
  <2> QED
    BY <2>2, <2>4, <2>5
<1>4. edits' = edits + 1 /\ edits < MaxEdits /\ UNCHANGED <<job, walk, readAltered>>
  BY DEF EditRow, Rehash
<1>5. edits' \in 0..MaxEdits
  BY <1>4, EditsAreBounded DEF VerifierTypeOK
<1> QED
  BY <1>2, <1>3, <1>4, <1>5

-----------------------------------------------------------------------------
LEMMA VerifierTypeInit == VerifierInit => VerifierTypeOK
<1> SUFFICES ASSUME VerifierInit
             PROVE  VerifierTypeOK
  OBVIOUS
<1>1. LedgerTypeOK
  BY InvInit DEF VerifierInit, LedgerInv
<1>2. GenesisHash \in Hash
  <2>1. <<>> \in Seq(Payload)
    OBVIOUS
  <2> QED
    BY <2>1 DEF GenesisHash, Hash
<1>3. walk \in [tenant : District, verdict : Verdict, total : Nat, seen : Nat,
                cursor : Nat, prevHash : Hash]
  BY <1>2 DEF VerifierInit, Verdict
<1>4. edits \in 0..MaxEdits
  <2>1. edits = 0
    BY DEF VerifierInit
  <2> QED
    BY <2>1, EditsAreBounded
<1>5. readAltered \in BOOLEAN /\ rehashed \in [District -> Nat]
  BY DEF VerifierInit
<1> QED
  BY <1>1, <1>3, <1>4, <1>5 DEF VerifierTypeOK

LEMMA VerifierTypeInductive ==
    VerifierTypeOK /\ [VerifierNext]_verifierVars => VerifierTypeOK'
<1> SUFFICES ASSUME VerifierTypeOK, [VerifierNext]_verifierVars
             PROVE  VerifierTypeOK'
  OBVIOUS
<1> DEFINE Walk == [tenant : District, verdict : Verdict, total : Nat, seen : Nat,
                    cursor : Nat, prevHash : Hash]
<1>1. ASSUME LedgerNext, UNCHANGED <<walk, edits, rehashed, readAltered>>
      PROVE  VerifierTypeOK'
  <2>1. LedgerTypeOK'
    BY <1>1, TypeInductive DEF VerifierTypeOK
  <2> QED
    BY <1>1, <2>1 DEF VerifierTypeOK
<1>2. ASSUME NEW d \in District, StartWalk(d)
      PROVE  VerifierTypeOK'
  <2>1. Len(rows[d]) \in Nat
    BY RowsOf DEF VerifierTypeOK
  <2>2. <<>> \in Seq(Payload)
    OBVIOUS
  <2>3. walk' \in Walk
    BY <1>2, <2>1, <2>2 DEF StartWalk, Verdict, Hash, GenesisHash
  <2> QED
    BY <1>2, <2>3 DEF StartWalk, VerifierTypeOK, LedgerTypeOK
<1>3. ASSUME ReadPage
      PROVE  VerifierTypeOK'
  <2> DEFINE page == Read(walk.tenant, walk.cursor)
             bad  == {k \in DOMAIN page : ~ RowPasses(page, k)}
  <2>1. walk \in Walk /\ page \in Seq(Row)
    BY PageRows DEF VerifierTypeOK
  <2>2. readAltered' \in BOOLEAN
    BY <1>3 DEF ReadPage, VerifierTypeOK
  <2>3. \/ walk' = [walk EXCEPT !.verdict = "verified"]
        \/ /\ page # <<>>
           /\ walk' = [walk EXCEPT !.seen = @ + Len(page),
                                   !.cursor = page[Len(page)].seq,
                                   !.prevHash = page[Len(page)].row_hash]
        \/ \E k \in bad :
              walk' = [walk EXCEPT
                 !.verdict = IF PayloadMatches(page[k]) THEN "row_hash_chain_break"
                                                        ELSE "payload_hash_mismatch"]
    BY <1>3 DEF ReadPage
  <2> HIDE DEF page
  <2>4. walk' \in Walk
    <3>1. CASE walk' = [walk EXCEPT !.verdict = "verified"]
      BY <2>1, <3>1 DEF Verdict
    <3>2. CASE /\ page # <<>>
               /\ walk' = [walk EXCEPT !.seen = @ + Len(page),
                                       !.cursor = page[Len(page)].seq,
                                       !.prevHash = page[Len(page)].row_hash]
      <4>1. Len(page) \in Nat /\ page[Len(page)] \in Row
        BY <2>1, <3>2
      <4>2. page[Len(page)].seq \in Nat /\ page[Len(page)].row_hash \in Hash
        BY <4>1 DEF Row
      <4>3. walk.seen + Len(page) \in Nat
        BY <2>1, <4>1
      <4> DEFINE seen == walk.seen + Len(page)
                 last == page[Len(page)]
      <4>4. walk' = [walk EXCEPT !.seen = seen, !.cursor = last.seq,
                                 !.prevHash = last.row_hash]
        BY <3>2
      <4> HIDE DEF seen, last
      <4> QED
        BY <2>1, <4>2, <4>3, <4>4 DEF seen, last
    <3>3. CASE \E k \in bad :
                  walk' = [walk EXCEPT
                     !.verdict = IF PayloadMatches(page[k]) THEN "row_hash_chain_break"
                                                            ELSE "payload_hash_mismatch"]
      BY <2>1, <3>3 DEF Verdict
    <3> QED
      BY <2>3, <3>1, <3>2, <3>3
  <2> QED
    BY <1>3, <2>2, <2>4 DEF ReadPage, VerifierTypeOK, LedgerTypeOK
<1>4. ASSUME NEW d \in District, NEW p \in Payload, NEW i \in DOMAIN rows[d],
             EditRow(d, i, p) \/ \E j \in i..Len(rows[d]) : Rehash(d, i, j, p)
      PROVE  VerifierTypeOK'
  <2>1. /\ rows' \in [District -> Seq(Row)] /\ rehashed' \in [District -> Nat]
        /\ edits' \in 0..MaxEdits /\ UNCHANGED <<job, walk, readAltered>>
    BY <1>4, TamperEffect
  <2> QED
    BY <2>1 DEF VerifierTypeOK, LedgerTypeOK
<1>5. CASE UNCHANGED verifierVars
  BY <1>5 DEF verifierVars, VerifierTypeOK, LedgerTypeOK
<1> QED
  BY <1>1, <1>2, <1>3, <1>4, <1>5 DEF VerifierNext

\* Whatever the processes do, the walk's cursor, counters and hashes keep their
\* types: a page of rows of equal number is still a page of rows.
THEOREM VerifierTypes == VerifierSpec => []VerifierTypeOK
BY VerifierTypeInit, VerifierTypeInductive, PTL DEF VerifierSpec

-----------------------------------------------------------------------------
\* What the lock guarantees of the sequence numbers, whatever is edited meanwhile.
NumbersInv ==
    /\ LedgerTypeOK
    /\ OneHolder
    /\ \A w \in Writer : job[w] # NoJob => job[w].prevSeq = Len(rows[job[w].district])
    /\ ChainContiguous

\* And of the hashes before the first rewritten one.
SealInv ==
    /\ \A d \in District : rehashed[d] = 0 \/ rehashed[d] \in 1..Len(rows[d])
    /\ \A d \in District : \A i \in DOMAIN rows[d] :
          Untouched(d, i) => rows[d][i].row_hash = RowHash(HashBefore(d, i), rows[d][i].written)
    /\ \A w \in Writer :
          job[w] # NoJob /\ rehashed[job[w].district] = 0 =>
             job[w].prevHash = HashBefore(job[w].district, Len(rows[job[w].district]) + 1)

\* What a ledger step does to the chains: nothing, or one INSERT.
LEMMA LedgerStepEffect ==
    ASSUME LedgerNext
    PROVE  \/ rows' = rows /\ \E w \in Writer, d \in District, p \in Payload : BeginAppend(w, d, p)
           \/ \E w \in Writer : InsertRow(w)
           \/ rows' = rows /\ \A w \in Writer : job'[w] # NoJob => job'[w] = job[w]
<1>1. ASSUME NEW w \in Writer, InsertFails(w)
      PROVE  rows' = rows /\ \A v \in Writer : job'[v] # NoJob => job'[v] = job[v]
  BY <1>1 DEF InsertFails
<1>2. ASSUME NEW p \in Process, Crash(p)
      PROVE  rows' = rows /\ \A v \in Writer : job'[v] # NoJob => job'[v] = job[v]
  BY <1>2 DEF Crash
<1> QED
  BY <1>1, <1>2 DEF LedgerNext, BeginAppend

\* The effect of BeginAppend on the jobs, with one lock.
LEMMA BeginEffect ==
    ASSUME OneLock, NumbersInv, NEW w \in Writer, NEW d \in District, NEW p \in Payload,
           BeginAppend(w, d, p)
    PROVE  /\ rows' = rows
           /\ job'[w].district = d /\ job'[w].prevSeq = Len(rows[d])
           /\ job'[w].prevHash = HashBefore(d, Len(rows[d]) + 1)
           /\ \A v \in Writer : v # w => job'[v] = NoJob
<1>1. PICK last \in LastSeqAndHash(d) :
          job' = [job EXCEPT ![w] = [district |-> d, payload |-> p,
                                     prevSeq  |-> last.seq,
                                     prevHash |-> last.row_hash]]
  BY DEF BeginAppend
<1>2. /\ job'[w].district = d
      /\ job'[w].prevSeq  = Len(rows[d])
      /\ job'[w].prevHash = HashBefore(d, Len(rows[d]) + 1)
  BY <1>1, LastIsUnique DEF NumbersInv, LedgerTypeOK
<1>3. \A v \in Writer : v # w => job'[v] = NoJob
  BY <1>1 DEF BeginAppend, LockFree, OneLock, NumbersInv, LedgerTypeOK
<1> QED
  BY <1>2, <1>3 DEF BeginAppend

LEMMA NumbersInductive ==
    ASSUME OneLock, NumbersInv, LedgerNext
    PROVE  NumbersInv'
<1> DEFINE Rest == /\ \A w \in Writer :
                         job[w] # NoJob => job[w].prevSeq = Len(rows[job[w].district])
                   /\ ChainContiguous
<1>1. LedgerTypeOK' /\ OneHolder'
  BY TypeInductive, OneHolderInductive DEF NumbersInv
<1>2. ASSUME NEW w \in Writer, NEW d \in District, NEW p \in Payload, BeginAppend(w, d, p)
      PROVE  Rest'
  BY <1>2, BeginEffect DEF NumbersInv, ChainContiguous
<1>3. ASSUME NEW w \in Writer, InsertRow(w)
      PROVE  Rest'
  <2> DEFINE e == job[w].district
             n == Len(rows[e])
  <2>1. /\ e \in District /\ n \in Nat
        /\ DOMAIN rows[e] = 1..n /\ DOMAIN rows'[e] = 1..(n + 1)
        /\ \A i \in 1..n : rows'[e][i] = rows[e][i]
        /\ rows'[e][n + 1] = SuccessorRow(job[w])
        /\ \A d \in District : d # e => rows'[d] = rows[d]
    BY <1>3, InsertEffect DEF NumbersInv
  <2>2. job[w].prevSeq = n
    BY <1>3 DEF NumbersInv, InsertRow
  <2>3. \A v \in Writer : job'[v] = NoJob
    BY <1>3 DEF InsertRow, NumbersInv, LedgerTypeOK, OneHolder
  <2> HIDE DEF e, n
  <2>4. rows'[e][n + 1].seq = n + 1
    BY <2>1, <2>2 DEF SuccessorRow
  <2>5. \A i \in 1..(n + 1) : i \in 1..n \/ i = n + 1
    BY <2>1
  <2>6. ChainContiguous'
    <3> SUFFICES ASSUME NEW d \in District, NEW i \in DOMAIN rows'[d]
                 PROVE  rows'[d][i].seq = i
      BY DEF ChainContiguous
    <3>1. CASE d # e
      BY <3>1, <2>1 DEF NumbersInv, ChainContiguous
    <3>2. CASE d = e /\ i \in 1..n
      BY <3>2, <2>1 DEF NumbersInv, ChainContiguous
    <3>3. CASE d = e /\ i = n + 1
      BY <3>3, <2>4
    <3> QED
      BY <3>1, <3>2, <3>3, <2>1, <2>5
  <2> QED
    BY <2>3, <2>6
<1>4. ASSUME rows' = rows, \A w \in Writer : job'[w] # NoJob => job'[w] = job[w]
      PROVE  Rest'
  BY <1>4 DEF NumbersInv, ChainContiguous
<1>5. Rest'
  BY <1>2, <1>3, <1>4, LedgerStepEffect
<1> QED
  BY <1>1, <1>5 DEF NumbersInv

\* A row that is inserted continues the last hash, unless hashes were rewritten since
\* it was read; in that case it lies after the first rewritten one.
LEMMA SealInductive ==
    ASSUME OneLock, NumbersInv, SealInv, LedgerNext, UNCHANGED rehashed
    PROVE  SealInv'
<1>1. ASSUME NEW w \in Writer, NEW d \in District, NEW p \in Payload, BeginAppend(w, d, p)
      PROVE  SealInv'
  BY <1>1, BeginEffect DEF SealInv, Untouched, HashBefore
<1>2. ASSUME NEW w \in Writer, InsertRow(w)
      PROVE  SealInv'
  <2> DEFINE e == job[w].district
             n == Len(rows[e])
  <2>1. /\ e \in District /\ n \in Nat
        /\ DOMAIN rows[e] = 1..n /\ DOMAIN rows'[e] = 1..(n + 1)
        /\ \A i \in 1..n : rows'[e][i] = rows[e][i]
        /\ rows'[e][n + 1] = SuccessorRow(job[w])
        /\ \A d \in District : d # e => rows'[d] = rows[d]
    BY <1>2, InsertEffect DEF NumbersInv
  <2>2. rehashed[e] = 0 => job[w].prevHash = HashBefore(e, n + 1)
    BY <1>2 DEF SealInv, InsertRow
  <2>3. \A v \in Writer : job'[v] = NoJob
    BY <1>2 DEF InsertRow, NumbersInv, LedgerTypeOK, OneHolder
  <2>4. Len(rows'[e]) = n + 1
    <3>1. LedgerTypeOK'
      BY TypeInductive DEF NumbersInv
    <3>2. rows'[e] \in Seq(Row)
      BY <2>1, <3>1 DEF LedgerTypeOK
    <3>3. Len(rows'[e]) \in Nat /\ DOMAIN rows'[e] = 1..Len(rows'[e])
      BY <3>2
    <3> HIDE DEF e
    <3>4. n + 1 \in DOMAIN rows'[e] /\ n + 2 \notin DOMAIN rows'[e]
      BY <2>1
    <3> QED
      BY <2>1, <3>3, <3>4
  <2> HIDE DEF e, n
  <2>5. ASSUME NEW d \in District, d = e, NEW i \in 1..(n + 1)
        PROVE  HashBefore(d, i)' = HashBefore(d, i)
    <3>1. CASE i = 1
      BY <3>1 DEF HashBefore
    <3>2. CASE i # 1
      <4>1. i - 1 \in 1..n
        BY <2>1, <3>2
      <4>2. rows'[d][i - 1] = rows[d][i - 1]
        BY <4>1, <2>1, <2>5
      <4> QED
        BY <4>2, <3>2 DEF HashBefore
    <3> QED
      BY <3>1, <3>2
  <2>6. ASSUME NEW d \in District
        PROVE  rehashed'[d] = 0 \/ rehashed'[d] \in 1..Len(rows'[d])
    <3>1. CASE d = e
      <4>1. rehashed[e] = 0 \/ rehashed[e] \in 1..n
        BY <2>1 DEF SealInv, n
      <4>2. rehashed[e] = 0 \/ rehashed[e] \in 1..(n + 1)
        BY <2>1, <4>1
      <4> QED
        BY <2>4, <3>1, <4>2
    <3>2. CASE d # e
      BY <2>1, <3>2 DEF SealInv
    <3> QED
      BY <3>1, <3>2
  <2>7. ASSUME NEW d \in District, NEW i \in DOMAIN rows'[d], Untouched(d, i)'
        PROVE  rows'[d][i].row_hash = RowHash(HashBefore(d, i)', rows'[d][i].written)
    <3>1. Untouched(d, i)
      BY <2>7 DEF Untouched
    <3>2. CASE d # e
      <4>1. rows'[d] = rows[d]
        BY <2>1, <3>2
      <4>2. HashBefore(d, i)' = HashBefore(d, i)
        BY <4>1 DEF HashBefore
      <4> QED
        BY <2>7, <3>1, <4>1, <4>2 DEF SealInv
    <3>3. CASE d = e /\ i \in 1..n
      <4>1. rows'[d][i] = rows[d][i] /\ i \in DOMAIN rows[d] /\ i \in 1..(n + 1)
        BY <3>3, <2>1
      <4>2. HashBefore(d, i)' = HashBefore(d, i)
        BY <2>5, <3>3, <4>1, <2>1
      <4> QED
        BY <3>1, <4>1, <4>2 DEF SealInv
    <3>4. CASE d = e /\ i = n + 1
      <4>1. rehashed[e] = 0
        <5>1. rehashed[e] = 0 \/ rehashed[e] \in 1..n
          BY <2>1 DEF SealInv, n
        <5>2. ~ (rehashed[e] \in 1..n /\ n + 1 < rehashed[e])
          BY <2>1
        <5> QED
          BY <3>1, <3>4, <5>1, <5>2, <2>1 DEF Untouched
      <4>2. HashBefore(d, i)' = HashBefore(d, i) /\ HashBefore(d, i) = HashBefore(e, n + 1)
        BY <2>1, <2>5, <3>4
      <4> QED
        BY <2>1, <2>2, <3>4, <4>1, <4>2 DEF SuccessorRow
    <3>5. \A k \in 1..(n + 1) : k \in 1..n \/ k = n + 1
      BY <2>1
    <3> QED
      BY <2>1, <3>2, <3>3, <3>4, <3>5
  <2> QED
    BY <2>3, <2>6, <2>7 DEF SealInv, RowHash
<1>3. ASSUME rows' = rows, \A w \in Writer : job'[w] # NoJob => job'[w] = job[w]
      PROVE  SealInv'
  BY <1>3 DEF SealInv, Untouched, HashBefore
<1> QED
  BY <1>1, <1>2, <1>3, LedgerStepEffect

\* An edit keeps the hashes it has not passed.
LEMMA TamperKeepsInv ==
    ASSUME NumbersInv, SealInv, rows' \in [District -> Seq(Row)],
           \A d \in District : TamperKeeps(d), UNCHANGED job
    PROVE  NumbersInv' /\ SealInv'
<1>1. \A d \in District : Len(rows[d]) \in Nat /\ DOMAIN rows[d] = 1..Len(rows[d])
  BY RowsOf DEF NumbersInv
<1>2. \A w \in Writer : job[w] # NoJob => job[w].district \in District
  BY PendingJobType DEF NumbersInv, Job
<1>3. NumbersInv'
  BY <1>2 DEF NumbersInv, LedgerTypeOK, OneHolder, ChainContiguous, TamperKeeps, SameRows
<1>4. ASSUME NEW d \in District, NEW i \in 1..(Len(rows[d]) + 1), Untouched(d, i - 1)'
      PROVE  HashBefore(d, i)' = HashBefore(d, i)
  <2>1. CASE i = 1
    BY <2>1 DEF HashBefore
  <2>2. CASE i # 1
    <3>1. i - 1 \in 0..Len(rows[d]) /\ i - 1 # 0
      BY <1>1, <2>2
    <3>2. rows'[d][i - 1].row_hash = rows[d][i - 1].row_hash
      BY <1>4, <3>1 DEF TamperKeeps
    <3> QED
      BY <2>2, <3>2 DEF HashBefore
  <2> QED
    BY <2>1, <2>2
<1>5. ASSUME NEW d \in District
      PROVE  rehashed'[d] = 0 \/ rehashed'[d] \in 1..Len(rows'[d])
  BY DEF SealInv, TamperKeeps, SameRows
<1>6. ASSUME NEW d \in District, NEW i \in DOMAIN rows'[d], Untouched(d, i)'
      PROVE  rows'[d][i].row_hash = RowHash(HashBefore(d, i)', rows'[d][i].written)
  <2>1. /\ i \in DOMAIN rows[d] /\ i \in 0..Len(rows[d]) /\ i # 0
        /\ i \in 1..(Len(rows[d]) + 1)
    BY <1>1 DEF TamperKeeps, SameRows
  <2>2. /\ Untouched(d, i) /\ rows'[d][i].row_hash = rows[d][i].row_hash
        /\ rows'[d][i].written = rows[d][i].written
    BY <1>6, <2>1 DEF TamperKeeps, SameRows
  <2>3. Untouched(d, i - 1)'
    <3>1. rehashed'[d] = 0 \/ rehashed'[d] \in 1..Len(rows[d])
      BY <1>5 DEF TamperKeeps, SameRows
    <3>2. i < rehashed'[d] /\ rehashed'[d] \in 1..Len(rows[d]) => i - 1 < rehashed'[d]
      BY <1>1, <2>1
    <3> QED
      BY <1>6, <3>1, <3>2 DEF Untouched
  <2>4. HashBefore(d, i)' = HashBefore(d, i)
    BY <1>4, <2>1, <2>3
  <2>5. rows[d][i].row_hash = RowHash(HashBefore(d, i), rows[d][i].written)
    BY <2>1, <2>2 DEF SealInv
  <2> QED
    BY <2>2, <2>4, <2>5
<1>7. ASSUME NEW w \in Writer, job[w] # NoJob, NEW d \in District, d = job[w].district,
             rehashed'[d] = 0
      PROVE  job[w].prevHash = HashBefore(d, Len(rows[d]) + 1)'
  <2>1. rehashed[d] = 0 /\ Len(rows'[d]) = Len(rows[d])
    BY <1>7 DEF TamperKeeps, SameRows
  <2>2. job[w].prevHash = HashBefore(d, Len(rows[d]) + 1)
    BY <1>7, <2>1 DEF SealInv
  <2>3. Len(rows[d]) + 1 \in 1..(Len(rows[d]) + 1)
    BY <1>1
  <2>4. HashBefore(d, Len(rows[d]) + 1) = IF Len(rows[d]) + 1 = 1 THEN GenesisHash
                                    ELSE rows'[d][(Len(rows[d]) + 1) - 1].row_hash
    BY <1>4, <1>7, <2>3 DEF HashBefore, Untouched
  <2> QED
    BY <2>1, <2>2, <2>4 DEF HashBefore
<1>8. SealInv'
  BY <1>2, <1>5, <1>6, <1>7 DEF SealInv, RowHash
<1> QED
  BY <1>3, <1>8

-----------------------------------------------------------------------------
\* What a walk under way knows, when its district's rows are numbered 1, 2, 3, ...:
\* it has seen the rows up to its cursor, carries the hash of the last of them unless
\* that was rewritten, and has met no altered row before the first rewritten hash.
Walking ==
    LET d == walk.tenant
    IN  /\ walk.seen = walk.cursor
        /\ walk.cursor <= Len(rows[d])
        /\ walk.total <= Len(rows[d])
        /\ Untouched(d, walk.cursor) => walk.prevHash = HashBefore(d, walk.cursor + 1)
        /\ ~ readAltered

Sound ==
    /\ walk.verdict = "running" => Walking
    /\ DivergenceProvesTampering
    /\ VerifiedMeansIntact

\* The inductive strengthening: a verdict is sound because the walk that reaches
\* it was in step with the chain, and that needs the chain itself to be sound.
VerifierInv ==
    /\ VerifierTypeOK
    /\ NumbersInv
    /\ SealInv
    /\ edits = 0 => LedgerInv
    /\ Sound

\* A ledger step may lengthen the chain and changes no row of it.
LEMMA LedgerStepExtends ==
    ASSUME LedgerTypeOK, LedgerNext, NEW d \in District
    PROVE  /\ Len(rows'[d]) \in Nat /\ Len(rows[d]) <= Len(rows'[d])
           /\ \A i \in 1..Len(rows[d]) : rows'[d][i] = rows[d][i]
<1>1. Len(rows[d]) \in Nat
  BY RowsOf
<1>2. ASSUME rows' = rows
      PROVE  /\ Len(rows'[d]) \in Nat /\ Len(rows[d]) <= Len(rows'[d])
             /\ \A i \in 1..Len(rows[d]) : rows'[d][i] = rows[d][i]
  BY <1>1, <1>2
<1>3. ASSUME NEW w \in Writer, InsertRow(w)
      PROVE  /\ Len(rows'[d]) \in Nat /\ Len(rows[d]) <= Len(rows'[d])
             /\ \A i \in 1..Len(rows[d]) : rows'[d][i] = rows[d][i]
  <2> DEFINE e == job[w].district
             n == Len(rows[e])
  <2>1. /\ e \in District /\ n \in Nat /\ DOMAIN rows'[e] = 1..(n + 1)
        /\ \A i \in 1..n : rows'[e][i] = rows[e][i]
        /\ \A c \in District : c # e => rows'[c] = rows[c]
    BY <1>3, InsertEffect
  <2>2. Len(rows'[e]) \in Nat /\ DOMAIN rows'[e] = 1..Len(rows'[e])
    <3>1. LedgerTypeOK'
      BY <1>3, TypeInductive DEF LedgerNext
    <3>2. rows'[e] \in Seq(Row)
      BY <2>1, <3>1 DEF LedgerTypeOK
    <3> QED
      BY <3>2
  <2> HIDE DEF e
  <2>3. Len(rows'[e]) = n + 1
    <3>1. n + 1 \in DOMAIN rows'[e] /\ n + 2 \notin DOMAIN rows'[e]
      BY <2>1
    <3> QED
      BY <2>1, <2>2, <3>1
  <2>4. CASE d = e
    BY <2>1, <2>3, <2>4
  <2>5. CASE d # e
    BY <1>1, <2>1, <2>5
  <2> QED
    BY <2>4, <2>5
<1> QED
  BY <1>2, <1>3, LedgerStepEffect

\* Walking survives every step that leaves the walk alone and keeps the hashes before
\* the first rewritten one.
LEMMA WalkingKept ==
    ASSUME VerifierTypeOK, Walking, UNCHANGED <<walk, readAltered>>,
           LET d == walk.tenant
           IN  /\ Len(rows'[d]) \in Nat /\ Len(rows[d]) <= Len(rows'[d])
               /\ \A i \in 0..Len(rows[d]) : Untouched(d, i)' =>
                     /\ Untouched(d, i)
                     /\ i # 0 => rows'[d][i].row_hash = rows[d][i].row_hash
    PROVE  Walking'
<1> DEFINE d == walk.tenant
<1>1. d \in District /\ walk.cursor \in Nat /\ walk.total \in Nat
  BY DEF VerifierTypeOK
<1>2. Len(rows[d]) \in Nat /\ walk.cursor \in 0..Len(rows[d])
  BY <1>1, RowsOf DEF VerifierTypeOK, Walking
<1>3. ASSUME Untouched(d, walk.cursor)'
      PROVE  walk.prevHash = HashBefore(d, walk.cursor + 1)'
  <2>1. walk.prevHash = HashBefore(d, walk.cursor + 1)
    BY <1>2, <1>3 DEF Walking, Untouched
  <2>2. CASE walk.cursor = 0
    BY <2>1, <2>2 DEF HashBefore
  <2>3. CASE walk.cursor # 0
    <3>1. (walk.cursor + 1) - 1 = walk.cursor /\ walk.cursor + 1 # 1
      BY <1>1, <2>3
    <3>2. rows'[d][walk.cursor].row_hash = rows[d][walk.cursor].row_hash
      BY <1>2, <1>3, <2>3 DEF Untouched
    <3> QED
      BY <2>1, <3>1, <3>2 DEF HashBefore
  <2> QED
    BY <2>2, <2>3
<1>4. walk.cursor <= Len(rows'[d]) /\ walk.total <= Len(rows'[d])
  BY <1>1, <1>2 DEF Walking
<1>5. walk'.cursor = walk.cursor /\ walk'.tenant = d /\ walk'.prevHash = walk.prevHash
  OBVIOUS
<1>6. Untouched(d, walk.cursor)' => walk.prevHash = HashBefore(d, walk.cursor + 1)'
  BY <1>3
<1>7. walk.seen = walk.cursor /\ ~ readAltered
  BY DEF Walking
<1> QED
  BY <1>4, <1>6, <1>7 DEF Walking

\* Appending is injective: two payloads after one hash make two row hashes.
LEMMA RowHashTells ==
    ASSUME NEW h \in Hash, NEW p \in Payload, NEW q \in Payload, RowHash(h, p) = RowHash(h, q)
    PROVE  p = q
<1>1. h \in Seq(Payload) /\ Len(h) \in Nat
  BY DEF Hash
<1>2. Append(h, p)[Len(h) + 1] = p /\ Append(h, q)[Len(h) + 1] = q
  BY <1>1
<1> QED
  BY <1>2 DEF RowHash

\* Before the first rewritten hash, a row of the page passes exactly when nobody has
\* altered it: the hash carried from the row before it is the one append digested.
LEMMA PageChecks ==
    ASSUME VerifierTypeOK, NumbersInv, SealInv, Walking
    PROVE  LET page == Read(walk.tenant, walk.cursor)
           IN  \A k \in DOMAIN page :
                  Untouched(walk.tenant, page[k].seq) => (RowPasses(page, k) <=> ~ Altered(page[k]))
<1> DEFINE d == walk.tenant
           c == walk.cursor
           page == Read(d, c)
<1> SUFFICES ASSUME NEW k \in DOMAIN page, Untouched(d, page[k].seq)
             PROVE  RowPasses(page, k) <=> ~ Altered(page[k])
  OBVIOUS
<1>1. d \in District /\ c \in Nat /\ c <= Len(rows[d]) /\ LedgerTypeOK /\ ChainContiguous
  BY DEF VerifierTypeOK, Walking, NumbersInv
<1>2. /\ page \in Seq(Row)
      /\ \A i \in 1..Len(page) : c + i \in 1..Len(rows[d]) /\ page[i] = rows[d][c + i]
  BY <1>1, ContiguousPage
<1>3. DOMAIN rows[d] = 1..Len(rows[d]) /\ Len(rows[d]) \in Nat
  BY <1>1, RowsOf
<1> HIDE DEF page
<1>4. Len(page) \in Nat /\ k \in 1..Len(page) /\ k \in Nat
  BY <1>2
<1>5. page[k] = rows[d][c + k] /\ page[k].seq = c + k /\ c + k \in DOMAIN rows[d]
  BY <1>1, <1>2, <1>3, <1>4 DEF ChainContiguous
<1>6. Untouched(d, c + k)
  BY <1>5
<1>7. \A i \in 0..(c + k) : Untouched(d, i)
  <2>1. rehashed[d] \in Nat
    BY <1>1 DEF VerifierTypeOK
  <2>2. c + k \in Nat
    BY <1>1, <1>4
  <2> QED
    BY <1>6, <2>1, <2>2 DEF Untouched
<1>8. page[k].row_hash = RowHash(HashBefore(d, c + k), page[k].written)
  BY <1>1, <1>5, <1>6 DEF SealInv
<1>9. PrevHashIn(page, k) = HashBefore(d, c + k)
  <2>1. CASE k = 1
    <3>1. c \in 0..(c + k)
      BY <1>1, <1>4
    <3> QED
      BY <2>1, <3>1, <1>7 DEF PrevHashIn, Walking
  <2>2. CASE k # 1
    <3>1. k - 1 \in 1..Len(page) /\ c + (k - 1) = (c + k) - 1 /\ c + k # 1
      BY <1>1, <1>4, <2>2
    <3>2. page[k - 1] = rows[d][(c + k) - 1]
      BY <1>2, <3>1
    <3> QED
      BY <2>2, <3>1, <3>2 DEF PrevHashIn, HashBefore
  <2> QED
    BY <2>1, <2>2
<1>10. HashBefore(d, c + k) \in Hash
  <2>1. c + k \in 1..(Len(rows[d]) + 1)
    BY <1>3, <1>5
  <2> QED
    BY <1>1, <2>1, HashBeforeType
<1>11. page[k].payload_hash \in Payload /\ page[k].written \in Payload
  <2>1. page[k] \in Row
    BY <1>2, <1>4
  <2> QED
    BY <2>1 DEF Row
<1>12. page[k].row_hash = RowHash(PrevHashIn(page, k), page[k].payload_hash)
          <=> page[k].payload_hash = page[k].written
  BY <1>8, <1>9, <1>10, <1>11, RowHashTells
<1> QED
  BY <1>12 DEF RowPasses, PayloadMatches, Altered

\* One page: the verdict it may lead to is sound.
LEMMA ReadPageSound ==
    ASSUME VerifierInv, ReadPage
    PROVE  Sound'
<1> DEFINE d == walk.tenant
           c == walk.cursor
           page == Read(d, c)
           bad  == {k \in DOMAIN page : ~ RowPasses(page, k)}
<1>1. UNCHANGED <<rows, rehashed>> /\ walk.verdict = "running"
  BY DEF ReadPage
<1>2. Walking /\ VerifierTypeOK /\ NumbersInv /\ SealInv /\ LedgerTypeOK /\ ChainContiguous
  BY <1>1 DEF VerifierInv, NumbersInv, Sound
<1>3. /\ d \in District /\ c \in Nat /\ c <= Len(rows[d]) /\ walk.total <= Len(rows[d])
      /\ walk.seen = c /\ walk.total \in Nat /\ Len(rows[d]) \in Nat
      /\ walk \in [tenant : District, verdict : Verdict, total : Nat, seen : Nat,
                   cursor : Nat, prevHash : Hash]
  BY <1>2, RowsOf DEF VerifierTypeOK, Walking
<1>4. /\ page \in Seq(Row)
      /\ Len(page) = IF Len(rows[d]) - c < Batch THEN Len(rows[d]) - c ELSE Batch
      /\ \A k \in 1..Len(page) : c + k \in 1..Len(rows[d]) /\ page[k] = rows[d][c + k]
  BY <1>2, <1>3, ContiguousPage
<1>5. \A k \in DOMAIN page :
         Untouched(d, page[k].seq) => (RowPasses(page, k) <=> ~ Altered(page[k]))
  BY <1>2, PageChecks
<1>6. readAltered' = (readAltered \/ \E k \in DOMAIN page :
                         Untouched(d, page[k].seq) /\ Altered(page[k]))
  BY DEF ReadPage
<1>7. ~ readAltered
  BY <1>2 DEF Walking
<1>8. \/ page = <<>> /\ walk' = [walk EXCEPT !.verdict = "verified"]
      \/ /\ page # <<>> /\ bad = {}
         /\ walk' = [walk EXCEPT !.seen = @ + Len(page),
                                 !.cursor = page[Len(page)].seq,
                                 !.prevHash = page[Len(page)].row_hash]
      \/ \E k \in bad :
            walk' = [walk EXCEPT
               !.verdict = IF PayloadMatches(page[k]) THEN "row_hash_chain_break"
                                                      ELSE "payload_hash_mismatch"]
  BY DEF ReadPage
<1> HIDE DEF page, d, c
<1>9. CASE page = <<>> /\ walk' = [walk EXCEPT !.verdict = "verified"]
  <2>1. ~ readAltered'
    <3>1. DOMAIN page = {}
      BY <1>9
    <3> QED
      BY <1>6, <1>7, <3>1
  <2>2. walk'.verdict = "verified" /\ walk'.seen = c /\ walk'.total = walk.total
    BY <1>3, <1>9
  <2>3. Len(page) = 0
    BY <1>9
  <2>4. Len(rows[d]) = c
    <3> DEFINE n == Len(rows[d])
    <3>1. n \in Nat /\ c \in Nat /\ c <= n
      BY <1>3
    <3>2. (IF n - c < Batch THEN n - c ELSE Batch) = 0
      BY <1>4, <2>3
    <3> HIDE DEF n
    <3>3. n = c
      BY <3>1, <3>2, BatchIsPositive
    <3> QED
      BY <3>3 DEF n
  <2> QED
    BY <1>3, <2>1, <2>2, <2>4 DEF Sound, DivergenceProvesTampering, VerifiedMeansIntact
<1>10. CASE /\ page # <<>> /\ bad = {}
            /\ walk' = [walk EXCEPT !.seen = @ + Len(page),
                                    !.cursor = page[Len(page)].seq,
                                    !.prevHash = page[Len(page)].row_hash]
  <2> DEFINE n == Len(page)
  <2>1. n \in Nat /\ n \in 1..n /\ n >= 1
    BY <1>4, <1>10
  <2>2. page[n] = rows[d][c + n] /\ c + n \in 1..Len(rows[d])
    BY <1>4, <2>1
  <2>3. page[n].seq = c + n
    <3>1. c + n \in DOMAIN rows[d]
      BY <1>2, <1>3, <2>2, RowsOf
    <3> QED
      BY <1>2, <1>3, <2>2, <3>1 DEF ChainContiguous
  <2>4. page[n].row_hash = HashBefore(d, (c + n) + 1)
    <3>1. (c + n) + 1 # 1 /\ ((c + n) + 1) - 1 = c + n
      BY <1>3, <2>1
    <3> QED
      BY <2>2, <3>1 DEF HashBefore
  <2>5. /\ walk'.tenant = d /\ walk'.verdict = "running" /\ walk'.seen = c + n
        /\ walk'.cursor = c + n /\ walk'.total = walk.total
        /\ walk'.prevHash = HashBefore(d, (c + n) + 1)
    BY <1>1, <1>3, <1>10, <2>3, <2>4 DEF d
  <2>6. ~ readAltered'
    BY <1>5, <1>6, <1>7, <1>10
  <2>7. c + n <= Len(rows[d])
    BY <1>3, <2>1, <2>2
  <2>8. Walking'
    BY <1>1, <1>3, <2>5, <2>6, <2>7 DEF Walking, HashBefore
  <2> QED
    BY <2>5, <2>8 DEF Sound, DivergenceProvesTampering, VerifiedMeansIntact
<1>11. CASE \E k \in bad :
               walk' = [walk EXCEPT
                  !.verdict = IF PayloadMatches(page[k]) THEN "row_hash_chain_break"
                                                         ELSE "payload_hash_mismatch"]
  <2>1. walk'.verdict \in {"payload_hash_mismatch", "row_hash_chain_break"} /\ walk'.tenant = d
    BY <1>3, <1>11 DEF d
  <2>2. readAltered' \/ rehashed[d] # 0
    <3>1. rehashed[d] = 0 => \A k \in DOMAIN page : Untouched(d, page[k].seq)
      BY DEF Untouched
    <3> QED
      BY <1>5, <1>6, <1>11, <3>1
  <2> QED
    BY <1>1, <2>1, <2>2 DEF Sound, DivergenceProvesTampering, VerifiedMeansIntact
<1> QED
  BY <1>8, <1>9, <1>10, <1>11

LEMMA VerifierInvInductive ==
    ASSUME OneLock, VerifierInv, [VerifierNext]_verifierVars
    PROVE  VerifierInv'
<1> DEFINE Chains == NumbersInv /\ SealInv /\ (edits = 0 => LedgerInv)
<1>1. VerifierTypeOK'
  BY VerifierTypeInductive DEF VerifierInv
<1>2. ASSUME LedgerNext, UNCHANGED <<walk, edits, rehashed, readAltered>>
      PROVE  Chains' /\ Sound'
  <2>1. NumbersInv' /\ SealInv'
    BY <1>2, NumbersInductive, SealInductive DEF VerifierInv
  <2>2. ASSUME edits = 0
        PROVE  LedgerInv'
    BY <1>2, <2>2, InvInductive DEF VerifierInv
  <2>3. ASSUME Walking
        PROVE  Walking'
    <3>1. walk.tenant \in District /\ LedgerTypeOK
      BY DEF VerifierInv, VerifierTypeOK
    <3>2. /\ Len(rows'[walk.tenant]) \in Nat /\ Len(rows[walk.tenant]) <= Len(rows'[walk.tenant])
          /\ \A i \in 1..Len(rows[walk.tenant]) :
                rows'[walk.tenant][i] = rows[walk.tenant][i]
      BY <1>2, <3>1, LedgerStepExtends
    <3>3. Len(rows[walk.tenant]) \in Nat
      BY <3>1, RowsOf
    <3>4. \A i \in 0..Len(rows[walk.tenant]) : Untouched(walk.tenant, i)' =>
             /\ Untouched(walk.tenant, i)
             /\ i # 0 => rows'[walk.tenant][i].row_hash = rows[walk.tenant][i].row_hash
      BY <1>2, <3>2, <3>3 DEF Untouched
    <3> QED
      BY <1>2, <2>3, <3>2, <3>4, WalkingKept DEF VerifierInv, Untouched
  <2>4. Sound'
    BY <1>2, <2>3 DEF VerifierInv, Sound, DivergenceProvesTampering, VerifiedMeansIntact
  <2> QED
    BY <1>2, <2>1, <2>2, <2>4
<1>3. ASSUME NEW d \in District, StartWalk(d)
      PROVE  Chains' /\ Sound'
  <2>1. UNCHANGED <<rows, job, edits, rehashed>>
    BY <1>3 DEF StartWalk
  <2>2. Chains'
    BY <2>1 DEF VerifierInv, NumbersInv, SealInv, LedgerInv, LedgerTypeOK, OneHolder,
                ChainContiguous, ChainLinked, LockedReadIsCurrent, Untouched, HashBefore
  <2>3. Len(rows[d]) \in Nat
    BY RowsOf DEF VerifierInv, NumbersInv
  <2>4. /\ walk'.tenant = d /\ walk'.verdict = "running" /\ walk'.seen = 0
        /\ walk'.cursor = 0 /\ walk'.total = Len(rows[d]) /\ walk'.prevHash = GenesisHash
        /\ rows' = rows /\ readAltered' = FALSE
    BY <1>3 DEF StartWalk
  <2>5. Walking'
    BY <2>3, <2>4 DEF Walking, HashBefore
  <2> QED
    BY <2>2, <2>4, <2>5 DEF Sound, DivergenceProvesTampering, VerifiedMeansIntact
<1>4. ASSUME ReadPage
      PROVE  Chains' /\ Sound'
  <2>1. UNCHANGED <<rows, job, edits, rehashed>>
    BY <1>4 DEF ReadPage
  <2>2. Chains'
    BY <2>1 DEF VerifierInv, NumbersInv, SealInv, LedgerInv, LedgerTypeOK, OneHolder,
                ChainContiguous, ChainLinked, LockedReadIsCurrent, Untouched, HashBefore
  <2> QED
    BY <1>4, <2>2, ReadPageSound
<1>5. ASSUME NEW e \in District, NEW p \in Payload, NEW i \in DOMAIN rows[e],
             EditRow(e, i, p) \/ \E j \in i..Len(rows[e]) : Rehash(e, i, j, p)
      PROVE  Chains' /\ Sound'
  <2>1. /\ rows' \in [District -> Seq(Row)] /\ \A d \in District : TamperKeeps(d)
        /\ edits' = edits + 1 /\ UNCHANGED <<job, walk, readAltered>>
    BY <1>5, TamperEffect DEF VerifierInv
  <2>2. NumbersInv' /\ SealInv'
    BY <2>1, TamperKeepsInv DEF VerifierInv
  <2>3. edits' # 0
    BY <2>1 DEF VerifierInv, VerifierTypeOK
  <2>4. walk.tenant \in District /\ Len(rows[walk.tenant]) \in Nat
    BY RowsOf DEF VerifierInv, VerifierTypeOK
  <2>5. ASSUME Walking
        PROVE  Walking'
    <3>1. /\ Len(rows'[walk.tenant]) \in Nat
          /\ Len(rows[walk.tenant]) <= Len(rows'[walk.tenant])
      BY <2>1, <2>4 DEF TamperKeeps, SameRows
    <3>2. \A k \in 0..Len(rows[walk.tenant]) : Untouched(walk.tenant, k)' =>
             /\ Untouched(walk.tenant, k)
             /\ k # 0 => rows'[walk.tenant][k].row_hash = rows[walk.tenant][k].row_hash
      BY <2>1, <2>4 DEF TamperKeeps, Untouched
    <3> QED
      BY <2>1, <2>5, <3>1, <3>2, WalkingKept DEF VerifierInv, Untouched
  <2>6. rehashed[walk.tenant] # 0 => rehashed'[walk.tenant] # 0
    BY <2>1, <2>4 DEF TamperKeeps
  <2>7. Sound'
    BY <2>1, <2>5, <2>6 DEF VerifierInv, Sound, DivergenceProvesTampering, VerifiedMeansIntact
  <2> QED
    BY <2>2, <2>3, <2>7
<1>6. ASSUME UNCHANGED verifierVars
      PROVE  Chains' /\ Sound'
  BY <1>6 DEF verifierVars, VerifierInv, NumbersInv, SealInv, LedgerInv, LedgerTypeOK,
              OneHolder, ChainContiguous, ChainLinked, LockedReadIsCurrent, Untouched,
              HashBefore, Sound, Walking, DivergenceProvesTampering, VerifiedMeansIntact
<1>7. Chains' /\ Sound'
  BY <1>2, <1>3, <1>4, <1>5, <1>6 DEF VerifierNext
<1> QED
  BY <1>1, <1>7 DEF VerifierInv

LEMMA VerifierInvariant ==
    ASSUME OneLock
    PROVE  VerifierSpec => []VerifierInv
<1>1. VerifierInit => VerifierInv
  <2> SUFFICES ASSUME VerifierInit
               PROVE  VerifierInv
    OBVIOUS
  <2>1. LedgerInv /\ \A w \in Writer : job[w] = NoJob
    BY InvInit DEF VerifierInit, LedgerInit
  <2>2. NumbersInv
    BY <2>1 DEF LedgerInv, NumbersInv
  <2>3. \A d \in District : rehashed[d] = 0 /\ rows[d] = <<>> /\ DOMAIN rows[d] = {}
    <3>1. DOMAIN <<>> = {}
      OBVIOUS
    <3> QED
      BY <3>1 DEF VerifierInit, LedgerInit
  <2>4. SealInv
    BY <2>1, <2>3 DEF SealInv
  <2>5. walk.verdict = "none"
    BY DEF VerifierInit
  <2> QED
    BY <2>1, <2>2, <2>4, <2>5, VerifierTypeInit
       DEF VerifierInv, Sound, DivergenceProvesTampering, VerifiedMeansIntact
<1>2. VerifierInv /\ [VerifierNext]_verifierVars => VerifierInv'
  BY OneLock, VerifierInvInductive
<1> QED
  BY <1>1, <1>2, PTL DEF VerifierSpec

\* With one lock, the sequence numbers stay 1, 2, 3, ... beside any edits, each row of
\* an unedited database carries the hash of the row before it, and of an edited one
\* the row hashes before the first rewritten one still digest what append wrote.
THEOREM OneLockKeepsWrites ==
    ASSUME OneLock
    PROVE  VerifierSpec => [](ChainContiguous /\ ChainKeepsWrites)
<1>1. VerifierInv => ChainContiguous /\ ChainKeepsWrites
  BY DEF VerifierInv, NumbersInv, SealInv, LedgerInv, ChainKeepsWrites
<1> QED
  BY <1>1, VerifierInvariant, PTL

\* With one lock, a walk that reports a break has read an altered row or met rewritten
\* hashes: no append that lands between two pages, however many, can make it cry wolf.
THEOREM DivergenceIsTampering ==
    ASSUME OneLock
    PROVE  VerifierSpec => []DivergenceProvesTampering
<1>1. VerifierInv => DivergenceProvesTampering
  BY DEF VerifierInv, Sound
<1> QED
  BY <1>1, VerifierInvariant, PTL

\* With one lock, a walk that reports success has read every row that was there when
\* it began, and no payload or payload_hash but those append wrote before the first
\* rewritten hash, whatever columns were edited and however hashes were recomputed.
THEOREM VerifiedIsIntact ==
    ASSUME OneLock
    PROVE  VerifierSpec => []VerifiedMeansIntact
<1>1. VerifierInv => VerifiedMeansIntact
  BY DEF VerifierInv, Sound
<1> QED
  BY <1>1, VerifierInvariant, PTL
=============================================================================
