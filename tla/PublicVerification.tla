------------------------- MODULE PublicVerification -------------------------
(***************************************************************************)
(* What the public is told of a title: verify_title of routers/verify.py,  *)
(* the certificate of routers/titles.py and the offline check of           *)
(* frontend/src/lib/merkle.ts, over the states of the anchor service.      *)
(*                                                                         *)
(* They only read.  A title is known by the event that issued it, whose    *)
(* payload names the title, so that payloads and leaves are distinct; the  *)
(* fallback by parcel, for events seeded before payloads named the title,  *)
(* is left out.  The answer reads the database first and awaits the chain  *)
(* last; it is taken in one state, since a mined transaction stays mined.  *)
(***************************************************************************)
EXTENDS Anchoring, Merkle

\* keccak of the hex of the event's SHA-256 payload hash.
Leaf(e) == <<"leaf", e>>

\* ORDER BY seq
Leaves(events) ==
    [i \in 1..Cardinality(events) |->
        Leaf(CHOOSE e \in events : Cardinality({f \in events : f < e}) = i - 1)]

NoRoot == <<"zero">>

\* What commitBatch stored for the batch, if it ever ran.
OnChainRoot(b) == IF tx[b] = "mined" THEN ComputeMerkleRootEvm(Leaves(anchors[b].root)) ELSE NoRoot

\* LandRegistryAnchor.verifyProof
VerifyProof(b, leaf, siblings) ==
    /\ OnChainRoot(b) # NoRoot
    /\ VerifyMerkleProofEvm(leaf, siblings, OnChainRoot(b))

\* The index of event e among the leaves read back, counted from 0.
TargetIndex(e) == Cardinality({f \in ProofLeaves(anchored_in[e]) : f < e})

\* build_proof_for_event: what the certificate and its QR code carry.
BuildProof(e) ==
    LET b == anchored_in[e]
    IN  [batch    |-> b,
         leaf     |-> Leaf(e),
         siblings |-> MerkleProofEvm(Leaves(ProofLeaves(b)), TargetIndex(e))]

VerifyBundle(bundle) == VerifyProof(bundle.batch, bundle.leaf, bundle.siblings)

\* The answer about the title issued by event e.
VerifyTitle(e) ==
    IF ~ IsAnchored(e)
    THEN [valid |-> FALSE, anchor_status |-> "PENDING_ANCHOR", reason |-> "title_pending_anchor"]
    ELSE LET valid == VerifyBundle(BuildProof(e))
         IN  [valid         |-> valid,
              anchor_status |-> anchors[anchored_in[e]].status,
              reason        |-> IF valid THEN "none" ELSE "merkle_verification_failed"]

-----------------------------------------------------------------------------
\* A title verifies exactly if its event is anchored in a batch that is on the
\* chain, and an answer that says CONFIRMED says valid: no late receipt, failure or
\* crash makes a proof that is rebuilt from the database miss the root that was
\* computed before the await.
VerdictMatchesChain ==
    \A e \in DOMAIN anchored_in :
        LET verdict == VerifyTitle(e)
        IN  /\ verdict.valid <=> IsAnchored(e) /\ tx[anchored_in[e]] = "mined"
            /\ verdict.anchor_status = "CONFIRMED" => verdict.valid

\* The proof of one event proves no other of the ledger, and the SHA-256 proof an
\* auditor builds over the same batch proves the leaf of its own position and at
\* that position only: in both trees, odd levels included.
InclusionProofsAreExact ==
    \A e \in DOMAIN anchored_in : IsAnchored(e) /\ tx[anchored_in[e]] = "mined" =>
        LET siblings == BuildProof(e).siblings
            leaves   == Leaves(ProofLeaves(anchored_in[e]))
            proof    == MerkleProof(leaves, TargetIndex(e))
            root     == ComputeMerkleRoot(leaves)
        IN  /\ \A f \in DOMAIN anchored_in :
                  VerifyProof(anchored_in[e], Leaf(f), siblings) <=> e = f
            /\ \A i, j \in 0..Len(leaves)-1 :
                  VerifyMerkleProof(leaves[i+1], proof, root, j)
                      <=> i = TargetIndex(e) /\ j = TargetIndex(e)
=============================================================================
