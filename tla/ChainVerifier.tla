--------------------------- MODULE ChainVerifier ---------------------------
(***************************************************************************)
(* verify_chain of backend/app/audit/verifier.py, walking one district's   *)
(* chain page by page while other threads and processes append to it, and  *)
(* while a row may be edited behind the application's back.  Each page is  *)
(* one SELECT ... WHERE seq > cursor ORDER BY seq LIMIT batch.             *)
(***************************************************************************)
EXTENDS AuditLedger, FiniteSets

CONSTANTS
    Batch,       \* rows per page (500 in the code)
    MaxEdits     \* bound: out-of-band edits

ASSUME BatchIsPositive == Batch \in Nat \ {0}
ASSUME EditsAreBounded == MaxEdits \in Nat

VARIABLES
    walk,        \* the locals of verify_chain
    edits,       \* number of out-of-band edits so far
    rehashed,    \* history: rehashed[d] is the first row of d whose row_hash was
                 \* rewritten, or 0
    readAltered  \* history: before that row, the walk has read a payload or
                 \* payload_hash other than the one append wrote

verifierVars == <<rows, job, walk, edits, rehashed, readAltered>>

Verdict == {"none", "running", "verified", "payload_hash_mismatch", "row_hash_chain_break"}

VerifierTypeOK ==
    /\ LedgerTypeOK
    /\ walk \in [tenant : District, verdict : Verdict, total : Nat, seen : Nat,
                 cursor : Nat, prevHash : Hash]
    /\ edits \in 0..MaxEdits
    /\ rehashed \in [District -> Nat]
    /\ readAltered \in BOOLEAN

VerifierInit ==
    /\ LedgerInit
    /\ \E d \in District :
          walk = [tenant |-> d, verdict |-> "none", total |-> 0, seen |-> 0,
                  cursor |-> 0, prevHash |-> GenesisHash]
    /\ edits = 0
    /\ rehashed = [d \in District |-> 0]
    /\ readAltered = FALSE

-----------------------------------------------------------------------------
\* ledger.read: rows of equal seq come out of the index in rowid order, the
\* order of their insertion.
InIndexOrder(d, i, j) ==
    \/ rows[d][i].seq < rows[d][j].seq
    \/ rows[d][i].seq = rows[d][j].seq /\ i <= j

Read(d, cursor) ==
    LET after   == {i \in DOMAIN rows[d] : rows[d][i].seq > cursor}
        rank(j) == Cardinality({i \in after : InIndexOrder(d, i, j)})
        size    == IF Cardinality(after) < Batch THEN Cardinality(after) ELSE Batch
    IN  [k \in 1..size |-> rows[d][CHOOSE j \in after : rank(j) = k]]

\* A request for the district's chain begins its walk.
StartWalk(d) ==
    /\ walk.verdict # "running"
    /\ walk' = [tenant |-> d, verdict |-> "running", total |-> Len(rows[d]), seen |-> 0,
                cursor |-> 0, prevHash |-> GenesisHash]
    /\ readAltered' = FALSE
    /\ UNCHANGED <<rows, job, edits, rehashed>>

\* Mutant: the stored payload_hash is trusted and never recomputed.
PayloadMatches_Trusting(row) == TRUE

PayloadMatches(row) == row.payload = row.payload_hash

\* Mutant: every page starts again from the genesis hash.
PrevHashIn_PerPage(page, k) == IF k = 1 THEN GenesisHash ELSE page[k-1].row_hash

\* The row before row k of a page is the page's, or the last of the page before.
PrevHashIn(page, k) == IF k = 1 THEN walk.prevHash ELSE page[k-1].row_hash

RowPasses(page, k) ==
    /\ PayloadMatches(page[k])
    /\ page[k].row_hash = RowHash(PrevHashIn(page, k), page[k].payload_hash)

\* Row number s of district d comes before every row whose hash was rewritten.
Untouched(d, s) == rehashed[d] = 0 \/ s < rehashed[d]

\* A row whose content is not what append wrote.
Altered(row) == row.payload # row.written \/ row.payload_hash # row.written

\* One page is read and its rows are checked in order, up to the first bad one.
ReadPage ==
    LET page == Read(walk.tenant, walk.cursor)
        bad  == {k \in DOMAIN page : ~ RowPasses(page, k)}
    IN  /\ walk.verdict = "running"
        /\ \/ /\ page = <<>>
              /\ walk' = [walk EXCEPT !.verdict = "verified"]
           \/ /\ page # <<>> /\ bad = {}
              /\ walk' = [walk EXCEPT !.seen = @ + Len(page),
                                      !.cursor = page[Len(page)].seq,
                                      !.prevHash = page[Len(page)].row_hash]
           \/ \E k \in bad :
                 /\ \A j \in bad : k <= j
                 /\ walk' = [walk EXCEPT
                       !.verdict = IF PayloadMatches(page[k]) THEN "row_hash_chain_break"
                                                              ELSE "payload_hash_mismatch"]
        /\ readAltered' = (readAltered \/ \E k \in DOMAIN page :
                              Untouched(walk.tenant, page[k].seq) /\ Altered(page[k]))
        /\ UNCHANGED <<rows, job, edits, rehashed>>

\* The database is edited outside the application: columns of one row, its own
\* hash excepted.  verify_chain compares neither prev_hash nor what no hash covers.
EditRow(d, i, p) ==
    /\ edits < MaxEdits
    /\ \/ rows' = [rows EXCEPT ![d][i].payload = p]
       \/ rows' = [rows EXCEPT ![d][i].payload = p, ![d][i].payload_hash = p]
       \/ rows' = [rows EXCEPT ![d][i].prev_hash = RowHash(GenesisHash, p)]
       \/ rows' = [rows EXCEPT ![d][i].unhashed = "altered"]
    /\ rows' # rows
    /\ edits' = edits + 1
    /\ UNCHANGED <<job, walk, rehashed, readAltered>>

\* What row k hashes to once the payload of row i is p and the hashes from row i
\* on are computed anew.
NewHash(d, i, p, k) ==
    HashBefore(d, i) \o
        [m \in 1..(k - i + 1) |-> IF m = 1 THEN p ELSE rows[d][i + m - 1].payload_hash]

\* The payload of row i is replaced and the hashes of rows i..j are made to fit.
\* Up to the last row that is a chain as good as any other.
Rehash(d, i, j, p) ==
    /\ edits < MaxEdits
    /\ p # rows[d][i].payload
    /\ rows' = [rows EXCEPT ![d] = [k \in DOMAIN rows[d] |->
          IF k \in i..j
          THEN [rows[d][k] EXCEPT !.payload      = IF k = i THEN p ELSE @,
                                  !.payload_hash = IF k = i THEN p ELSE @,
                                  !.prev_hash    = NewHash(d, i, p, k - 1),
                                  !.row_hash     = NewHash(d, i, p, k)]
          ELSE rows[d][k]]]
    /\ edits' = edits + 1
    /\ rehashed' = [rehashed EXCEPT ![d] = IF Untouched(d, i) THEN i ELSE @]
    /\ UNCHANGED <<job, walk, readAltered>>

VerifierNext ==
    \/ LedgerNext /\ UNCHANGED <<walk, edits, rehashed, readAltered>>
    \/ \E d \in District : StartWalk(d)
    \/ ReadPage
    \/ \E d \in District, p \in Payload : \E i \in DOMAIN rows[d] :
          \/ EditRow(d, i, p)
          \/ \E j \in i..Len(rows[d]) : Rehash(d, i, j, p)

VerifierSpec == VerifierInit /\ [][VerifierNext]_verifierVars

-----------------------------------------------------------------------------
\* What append leaves for the verifier: on a database nobody edits each row
\* carries the hash of the row before it; on any other, the row_hash of every row
\* before the first rewritten hash still digests the payload append was called
\* with, whatever the other columns say by now.
ChainKeepsWrites ==
    /\ edits = 0 => ChainLinked
    /\ \A d \in District : \A i \in DOMAIN rows[d] :
          Untouched(d, i) =>
             rows[d][i].row_hash = RowHash(HashBefore(d, i), rows[d][i].written)

\* docs/ARCHITECTURE.md:109, "Any divergence proves tampering": a walk that
\* reports a broken chain has read a row altered behind the application's back, or
\* hashes of its district were rewritten.  Appends that land between two pages
\* must not look like a break.
DivergenceProvesTampering ==
    walk.verdict \in {"payload_hash_mismatch", "row_hash_chain_break"} =>
        readAltered \/ rehashed[walk.tenant] # 0

\* What success proves: the walk has seen every row that was there when it began,
\* and before the first rewritten hash it has read no payload or payload_hash but
\* those append wrote, on whichever page they lay.  It proves no more: a tail whose
\* hashes were all rewritten, prev_hash and the columns no hash covers pass,
\* though audit/verifier.py:3-4 wants to "prove that no rows have been tampered
\* with since they were written".
VerifiedMeansIntact == walk.verdict = "verified" => ~ readAltered /\ walk.seen >= walk.total
=============================================================================
