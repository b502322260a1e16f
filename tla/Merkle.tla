------------------------------- MODULE Merkle -------------------------------
(***************************************************************************)
(* The two Merkle trees of backend/app/audit/merkle.py: the index-ordered  *)
(* SHA-256 tree for auditors and the sorted-pair keccak tree that is       *)
(* anchored.  Both duplicate the last node of an odd level.                *)
(*                                                                         *)
(* Hashing is assumed free of collisions: a hash is the tagged tuple of    *)
(* what it digests.  The keccak of a sorted pair does not depend on the    *)
(* order of the two, so it digests their set.                              *)
(***************************************************************************)
EXTENDS Integers, Sequences

PairHash(left, right) == <<"sha256", left, right>>

\* Mutant: the pair is hashed in the order it is given in.
KeccakPairSorted_Unsorted(a, b) == <<"keccak", <<a, b>>>>

KeccakPairSorted(a, b) == <<"keccak", {a, b}>>

\* The parent of two nodes, in the tree of the given kind.
Combine(tree, a, b) == IF tree = "sha256" THEN PairHash(a, b) ELSE KeccakPairSorted(a, b)

\* if len(level) % 2 == 1: level.append(level[-1])
Evened(level) == IF Len(level) % 2 = 1 THEN Append(level, level[Len(level)]) ELSE level

Parents(tree, level) ==
    LET even == Evened(level)
    IN  [i \in 1..Len(even) \div 2 |-> Combine(tree, even[2*i - 1], even[2*i])]

\* The level after k rounds of the loop.
Level(tree, leaves, k) ==
    LET level[j \in Nat] == IF j = 0 THEN leaves ELSE Parents(tree, level[j-1])
    IN  level[k]

\* How often the loop runs: while len(level) > 1.
Height(tree, leaves) ==
    CHOOSE h \in 0..Len(leaves) :
        /\ Len(Level(tree, leaves, h)) = 1
        /\ \A g \in 0..h-1 : Len(Level(tree, leaves, g)) > 1

RootOf(tree, leaves) == Level(tree, leaves, Height(tree, leaves))[1]

\* index ^ 1
Sibling(index) == IF index % 2 = 0 THEN index + 1 ELSE index - 1

\* The index after k rounds: idx //= 2.
IndexAt(index, k) ==
    LET idx[j \in Nat] == IF j = 0 THEN index ELSE idx[j-1] \div 2
    IN  idx[k]

\* The siblings on the way up from leaves[index], indices counted from 0.
ProofOf(tree, leaves, index) ==
    [k \in 1..Height(tree, leaves) |->
        Evened(Level(tree, leaves, k - 1))[Sibling(IndexAt(index, k - 1)) + 1]]

ComputeMerkleRoot(leaves)  == RootOf("sha256", leaves)
MerkleProof(leaves, index) == ProofOf("sha256", leaves, index)

\* Mutant: the running hash is always put on the left.
GoesRight_Never(index, k) == FALSE

\* idx & 1 in round k
GoesRight(index, k) == IndexAt(index, k - 1) % 2 = 1

VerifyMerkleProof(leaf, proof, root, index) ==
    LET h[k \in 0..Len(proof)] ==
            IF k = 0 THEN leaf
            ELSE IF GoesRight(index, k) THEN PairHash(proof[k], h[k-1])
                                        ELSE PairHash(h[k-1], proof[k])
    IN  h[Len(proof)] = root

ComputeMerkleRootEvm(leaves)  == RootOf("keccak", leaves)
MerkleProofEvm(leaves, index) == ProofOf("keccak", leaves, index)

\* The hash a keccak proof leads to from a leaf; it is valid if that is the root.
Climb(leaf, siblings) ==
    LET h[k \in 0..Len(siblings)] ==
            IF k = 0 THEN leaf ELSE KeccakPairSorted(h[k-1], siblings[k])
    IN  h[Len(siblings)]

VerifyMerkleProofEvm(leaf, siblings, root) == Climb(leaf, siblings) = root
=============================================================================
