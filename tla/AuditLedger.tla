---------------------------- MODULE AuditLedger ----------------------------
(***************************************************************************)
(* The per-district hash-chained audit ledger of                           *)
(* backend/app/audit/ledger.py.  A writer is a thread that calls           *)
(* AuditLedger.append: the event loop of an API process, a to_thread job   *)
(* of the same process, or the main thread of a cron script that imports   *)
(* the application (backend/scripts/escalate_pending_reviews.py).  Every   *)
(* process has a ledger object, hence a threading.Lock, of its own; the    *)
(* audit_events table is shared by all of them.                            *)
(*                                                                         *)
(* An append is two statements on an autocommitting connection: SELECT the *)
(* newest row, then INSERT its successor.  They are two steps here, so     *)
(* writers of different processes interleave between them.                 *)
(*                                                                         *)
(* SHA-256 is assumed free of collisions.  A payload hash is therefore     *)
(* represented by the payload it digests and a row hash by the sequence of *)
(* payload hashes it digests, directly or through prev_hash.               *)
(***************************************************************************)
EXTENDS Integers, Sequences

CONSTANTS
    District,    \* tenant ids; each has a chain of its own
    Payload,     \* payload hashes, the only thing the chain sees of an event
    Process,     \* operating-system processes that share the database
    Writer,      \* threads that append
    ProcessOf,   \* the process each writer runs in
    NoJob,       \* a writer that is not inside append
    MaxRows      \* bound: no append begins on a chain this long

ASSUME WritersHaveAProcess == ProcessOf \in [Writer -> Process]

VARIABLES
    rows,        \* rows[d]: the rows of district d, in order of insertion
    job          \* job[w]: what w read under the lock, or NoJob

ledgerVars == <<rows, job>>

GenesisHash == <<>>

\* sha256(prev_hash + payload_hash)
RowHash(prevHash, payloadHash) == Append(prevHash, payloadHash)

Hash == Seq(Payload)

\* The columns no hash covers (event_type, entity_type, entity_id, user_id, ts)
\* are one, which is as append wrote it or not.
Row == [seq : Nat, payload : Payload, payload_hash : Payload,
        prev_hash : Hash, row_hash : Hash, unhashed : {"written", "altered"},
        written : Payload]   \* history: the payload append was called with

Job == [district : District, payload : Payload, prevSeq : Nat, prevHash : Hash]

LedgerTypeOK ==
    /\ rows \in [District -> Seq(Row)]
    /\ job  \in [Writer -> Job \cup {NoJob}]

LedgerInit ==
    /\ rows = [d \in District |-> <<>>]
    /\ job  = [w \in Writer |-> NoJob]

-----------------------------------------------------------------------------
\* Mutant: an empty chain is reported as sequence number -1, so that the first
\* row would get number 0.
LastSeqAndHash_Sentinel(d) ==
    IF rows[d] = <<>>
    THEN {[seq |-> -1, row_hash |-> GenesisHash]}
    ELSE {[seq |-> rows[d][i].seq, row_hash |-> rows[d][i].row_hash] : i \in {Len(rows[d])}}

\* The answers SELECT seq, row_hash ... ORDER BY seq DESC LIMIT 1 may give:
\* rows of equal seq come in no particular order.
LastSeqAndHash(d) ==
    IF rows[d] = <<>>
    THEN {[seq |-> 0, row_hash |-> GenesisHash]}
    ELSE {[seq |-> rows[d][i].seq, row_hash |-> rows[d][i].row_hash] :
             i \in {j \in DOMAIN rows[d] :
                       \A k \in DOMAIN rows[d] : rows[d][k].seq <= rows[d][j].seq}}

\* threading.Lock guards append within a process, and `with` releases it on
\* every exit: it is held exactly while one of the process's writers has a job.
LockFree(p) == \A w \in Writer : ProcessOf[w] = p => job[w] = NoJob

\* Mutant: the end of the chain is read before the lock is taken.
BeginAppend_ReadUnlocked(w, d, p) ==
    /\ job[w] = NoJob
    /\ Len(rows[d]) < MaxRows
    /\ \E last \in LastSeqAndHash(d) :
          job' = [job EXCEPT ![w] = [district |-> d, payload |-> p,
                                     prevSeq  |-> last.seq,
                                     prevHash |-> last.row_hash]]
    /\ UNCHANGED rows

\* append enters its lock and reads the end of the chain.
BeginAppend(w, d, p) ==
    /\ LockFree(ProcessOf[w])
    /\ Len(rows[d]) < MaxRows
    /\ \E last \in LastSeqAndHash(d) :
          job' = [job EXCEPT ![w] = [district |-> d, payload |-> p,
                                     prevSeq  |-> last.seq,
                                     prevHash |-> last.row_hash]]
    /\ UNCHANGED rows

\* Mutant: the row digests its payload alone and not the row before it.
SuccessorRow_Unchained(j) ==
    [seq |-> j.prevSeq + 1, payload |-> j.payload, payload_hash |-> j.payload,
     prev_hash |-> j.prevHash, row_hash |-> RowHash(GenesisHash, j.payload),
     unhashed |-> "written", written |-> j.payload]

\* The row append builds from what it read.
SuccessorRow(j) ==
    [seq |-> j.prevSeq + 1, payload |-> j.payload, payload_hash |-> j.payload,
     prev_hash |-> j.prevHash, row_hash |-> RowHash(j.prevHash, j.payload),
     unhashed |-> "written", written |-> j.payload]

\* The INSERT commits and append leaves its lock.
InsertRow(w) ==
    /\ job[w] # NoJob
    /\ rows' = [rows EXCEPT ![job[w].district] = Append(@, SuccessorRow(job[w]))]
    /\ job'  = [job EXCEPT ![w] = NoJob]

\* The INSERT raises (the database stays locked past busy_timeout);
\* audit_emit swallows the exception and the caller goes on without a row.
InsertFails(w) ==
    /\ job[w] # NoJob
    /\ job' = [job EXCEPT ![w] = NoJob]
    /\ UNCHANGED rows

\* A process dies: what it read is lost, what it inserted stays.
Crash(p) ==
    /\ ~ LockFree(p)
    /\ job' = [w \in Writer |-> IF ProcessOf[w] = p THEN NoJob ELSE job[w]]
    /\ UNCHANGED rows

LedgerNext ==
    \/ \E w \in Writer, d \in District, p \in Payload : BeginAppend(w, d, p)
    \/ \E w \in Writer : InsertRow(w) \/ InsertFails(w)
    \/ \E p \in Process : Crash(p)

LedgerSpec == LedgerInit /\ [][LedgerNext]_ledgerVars

-----------------------------------------------------------------------------
\* The sequence numbers of a district are 1, 2, 3, ... without gap or
\* duplicate, in order of insertion: what test_append_and_verify_chain asserts
\* of one caller, here for every interleaving of the writers of a process.
ChainContiguous ==
    \A d \in District : \A i \in DOMAIN rows[d] : rows[d][i].seq = i

\* Every row continues the row before it: its prev_hash is that row's
\* row_hash, and its own row_hash digests prev_hash and the payload append was
\* called with.
HashBefore(d, i) == IF i = 1 THEN GenesisHash ELSE rows[d][i-1].row_hash

ChainLinked ==
    \A d \in District : \A i \in DOMAIN rows[d] :
        /\ rows[d][i].prev_hash = HashBefore(d, i)
        /\ rows[d][i].row_hash = RowHash(HashBefore(d, i), rows[d][i].written)

\* What a writer read under the lock is still the end of the chain when it
\* inserts: the hazard of a value read in one statement and used in the next.
LockedReadIsCurrent ==
    \A w \in Writer : job[w] # NoJob =>
        LET d == job[w].district
        IN  /\ job[w].prevSeq  = Len(rows[d])
            /\ job[w].prevHash = HashBefore(d, Len(rows[d]) + 1)
=============================================================================
