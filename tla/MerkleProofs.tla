---------------------------- MODULE MerkleProofs ----------------------------
(***************************************************************************)
(* The inclusion proofs of both Merkle trees, for any number of leaves.    *)
(* The definitions of Merkle are recursive over the rounds of a loop, so   *)
(* the proofs are by induction over rounds, in the form NatSetInduction    *)
(* gives it: a set that contains 0 and is closed under successor.          *)
(***************************************************************************)
EXTENDS Merkle, WellFoundedInduction, FiniteSetTheorems, TLAPS

LEMMA NatMin ==
    ASSUME NEW S, S \subseteq Nat, S # {}
    PROVE  \E m \in S : \A n \in S : m <= n
<1> DEFINE R == OpToRel(<, Nat)
<1>1. IsWellFoundedOn(R, Nat)
  BY NatLessThanWellFounded
<1> HIDE DEF R
<1>2. PICK m \in S : \A n \in S : ~ (<<n, m>> \in R)
  BY <1>1, WFMin
<1>3. \A n \in S : n < m => <<n, m>> \in R
  BY DEF R, OpToRel
<1>4. \A n \in S : ~ (n < m)
  BY <1>2, <1>3
<1>5. m \in S /\ m \in Nat
  BY <1>2
<1> QED
  BY <1>4, <1>5

LEMMA NatSetInduction ==
    ASSUME NEW S, 0 \in S, \A n \in Nat : n \in S => n + 1 \in S
    PROVE  Nat \subseteq S
<1> DEFINE T == Nat \ S
<1>1. SUFFICES ASSUME T # {}
               PROVE  FALSE
  OBVIOUS
<1>2. PICK m \in T : \A n \in T : m <= n
  BY <1>1, NatMin
<1>3. m - 1 \in Nat /\ m - 1 \in S /\ (m - 1) + 1 = m
  BY <1>2
<1> QED
  BY <1>3

\* Quotient and remainder of a halving.
Half(n)   == n \div 2
Parity(n) == n % 2

LEMMA Halves ==
    ASSUME NEW n \in Nat
    PROVE  Half(n) \in Nat /\ Parity(n) \in 0..1 /\ n = 2 * Half(n) + Parity(n)
<1>1. n \div 2 \in Nat
  OBVIOUS
<1>2. n % 2 \in 0..1
  OBVIOUS
<1>3. n = 2 * (n \div 2) + (n % 2)
  OBVIOUS
<1> QED
  BY <1>1, <1>2, <1>3 DEF Half, Parity

-----------------------------------------------------------------------------
(***************************************************************************)
(* What the recursive functions of Merkle are equal to.  TLA+ defines them *)
(* by CHOOSE, so that functions with these equations exist comes first.    *)
(***************************************************************************)

\* One round of each of the four loops of merkle.py.
Round(loop, k, x) ==
    CASE loop.of = "levels" -> Parents(loop.tree, x)
      [] loop.of = "index"  -> x \div 2
      [] loop.of = "keccak" -> KeccakPairSorted(x, loop.proof[k])
      [] loop.of = "sha256" -> IF GoesRight(loop.index, k) THEN PairHash(loop.proof[k], x)
                                                           ELSE PairHash(x, loop.proof[k])

\* f lists the values a loop goes through, up to round n.
Unrolls(loop, start, f, n) ==
    \A k \in 0..n : f[k] = IF k = 0 THEN start ELSE Round(loop, k, f[k-1])

LEMMA UnrollsAgree ==
    ASSUME NEW loop, NEW start, NEW f, NEW g, NEW m \in Nat, NEW n \in Nat,
           Unrolls(loop, start, f, m), Unrolls(loop, start, g, n)
    PROVE  \A k \in Nat : k <= m /\ k <= n => f[k] = g[k]
<1> DEFINE S == {k \in Nat : k <= m /\ k <= n => f[k] = g[k]}
<1>1. 0 \in S
  BY DEF Unrolls
<1>2. ASSUME NEW k \in Nat, k \in S
      PROVE  k + 1 \in S
  <2> SUFFICES ASSUME k + 1 <= m, k + 1 <= n
               PROVE  f[k + 1] = g[k + 1]
    OBVIOUS
  <2>1. f[k] = g[k]
    BY <1>2
  <2>2. k + 1 \in 0..m /\ k + 1 \in 0..n /\ k + 1 # 0 /\ (k + 1) - 1 = k
    OBVIOUS
  <2> QED
    BY <2>1, <2>2 DEF Unrolls
<1> HIDE DEF S
<1>3. Nat \subseteq S
  BY <1>1, <1>2, NatSetInduction
<1> QED
  BY <1>3 DEF S

LEMMA UnrollsExists ==
    ASSUME NEW loop, NEW start, NEW n \in Nat
    PROVE  \E f : Unrolls(loop, start, f, n)
<1> DEFINE S == {k \in Nat : \E f : Unrolls(loop, start, f, k)}
<1>1. 0 \in S
  <2>1. Unrolls(loop, start, [k \in {0} |-> start], 0)
    BY DEF Unrolls
  <2> QED
    BY <2>1
<1>2. ASSUME NEW k \in Nat, k \in S
      PROVE  k + 1 \in S
  <2>1. PICK f : Unrolls(loop, start, f, k)
    BY <1>2
  <2> DEFINE g == [j \in 0..(k + 1) |-> IF j = k + 1 THEN Round(loop, j, f[k]) ELSE f[j]]
  <2>2. ASSUME NEW j \in 0..(k + 1)
        PROVE  g[j] = IF j = 0 THEN start ELSE Round(loop, j, g[j-1])
    <3>1. CASE j = k + 1
      BY <3>1
    <3>2. CASE j \in 0..k
      <4>1. g[j] = f[j] /\ (j # 0 => g[j-1] = f[j-1])
        BY <3>2
      <4> QED
        BY <2>1, <3>2, <4>1 DEF Unrolls
    <3> QED
      BY <3>1, <3>2
  <2> HIDE DEF g
  <2>3. Unrolls(loop, start, g, k + 1)
    BY <2>2 DEF Unrolls
  <2> QED
    BY <2>3
<1> HIDE DEF S
<1>3. Nat \subseteq S
  BY <1>1, <1>2, NatSetInduction
<1> QED
  BY <1>3 DEF S

\* A loop that may go on for ever has a function over all its rounds.
LEMMA UnrolledForEver ==
    ASSUME NEW loop, NEW start
    PROVE  \E f : \A n \in Nat : Unrolls(loop, start, f, n)
<1> DEFINE at(k) == CHOOSE f : Unrolls(loop, start, f, k)
           all   == [k \in Nat |-> at(k)[k]]
<1>1. \A k \in Nat : Unrolls(loop, start, at(k), k)
  BY UnrollsExists
<1>2. ASSUME NEW k \in Nat
      PROVE  all[k] = IF k = 0 THEN start ELSE Round(loop, k, all[k-1])
  <2>1. at(k)[k] = IF k = 0 THEN start ELSE Round(loop, k, at(k)[k-1])
    BY <1>1 DEF Unrolls
  <2>2. ASSUME k # 0
        PROVE  at(k)[k-1] = at(k-1)[k-1]
    BY <1>1, <2>2, UnrollsAgree
  <2> QED
    BY <2>1, <2>2
<1> HIDE DEF all
<1>3. \A n \in Nat : Unrolls(loop, start, all, n)
  BY <1>2 DEF Unrolls
<1> QED
  BY <1>3

\* The levels of a tree are what the loop computes.
LEMMA LevelRounds ==
    ASSUME NEW tree, NEW leaves
    PROVE  /\ Level(tree, leaves, 0) = leaves
           /\ \A k \in Nat : Level(tree, leaves, k + 1) = Parents(tree, Level(tree, leaves, k))
<1> DEFINE loop == [of |-> "levels", tree |-> tree]
           lev  == CHOOSE level : level = [j \in Nat |-> IF j = 0 THEN leaves
                                                        ELSE Parents(tree, level[j-1])]
<1>1. \A k, x : Round(loop, k, x) = Parents(tree, x)
  BY DEF Round
<1> HIDE DEF loop
<1>2. \E f : f = [j \in Nat |-> IF j = 0 THEN leaves ELSE Parents(tree, f[j-1])]
  <2>1. PICK f : \A n \in Nat : Unrolls(loop, leaves, f, n)
    BY UnrolledForEver
  <2> DEFINE g == [j \in Nat |-> f[j]]
  <2>2. g = [j \in Nat |-> IF j = 0 THEN leaves ELSE Parents(tree, g[j-1])]
    <3>1. \A j \in Nat : f[j] = IF j = 0 THEN leaves ELSE Parents(tree, f[j-1])
      <4>1. \A j \in Nat : j \in 0..j
        OBVIOUS
      <4> QED
        BY <1>1, <2>1, <4>1 DEF Unrolls
    <3>2. \A j \in Nat : j # 0 => g[j-1] = f[j-1]
      OBVIOUS
    <3> QED
      BY <3>1, <3>2
  <2> HIDE DEF g
  <2> QED
    BY <2>2
<1>3. lev = [j \in Nat |-> IF j = 0 THEN leaves ELSE Parents(tree, lev[j-1])]
  BY <1>2
<1>4. \A k : Level(tree, leaves, k) = lev[k]
  BY DEF Level
<1> HIDE DEF lev
<1>5. lev[0] = leaves /\ \A k \in Nat : lev[k + 1] = Parents(tree, lev[k])
  BY <1>3
<1> QED
  BY <1>4, <1>5

LEMMA IndexRounds ==
    ASSUME NEW index
    PROVE  /\ IndexAt(index, 0) = index
           /\ \A k \in Nat : IndexAt(index, k + 1) = Half(IndexAt(index, k))
<1> DEFINE loop == [of |-> "index"]
           at   == CHOOSE idx : idx = [j \in Nat |-> IF j = 0 THEN index ELSE idx[j-1] \div 2]
<1>1. \A k, x : Round(loop, k, x) = x \div 2
  BY DEF Round
<1> HIDE DEF loop
<1>2. \E f : f = [j \in Nat |-> IF j = 0 THEN index ELSE f[j-1] \div 2]
  <2>1. PICK f : \A n \in Nat : Unrolls(loop, index, f, n)
    BY UnrolledForEver
  <2> DEFINE g == [j \in Nat |-> f[j]]
  <2>2. g = [j \in Nat |-> IF j = 0 THEN index ELSE g[j-1] \div 2]
    <3>1. \A j \in Nat : f[j] = IF j = 0 THEN index ELSE f[j-1] \div 2
      <4>1. \A j \in Nat : j \in 0..j
        OBVIOUS
      <4> QED
        BY <1>1, <2>1, <4>1 DEF Unrolls
    <3>2. \A j \in Nat : j # 0 => g[j-1] = f[j-1]
      OBVIOUS
    <3> QED
      BY <3>1, <3>2
  <2> HIDE DEF g
  <2> QED
    BY <2>2
<1>3. at = [j \in Nat |-> IF j = 0 THEN index ELSE at[j-1] \div 2]
  BY <1>2
<1>4. \A k : IndexAt(index, k) = at[k]
  BY DEF IndexAt
<1> HIDE DEF at
<1>5. at[0] = index /\ \A k \in Nat : at[k + 1] = at[k] \div 2
  BY <1>3
<1> QED
  BY <1>4, <1>5 DEF Half

\* A keccak proof is climbed sibling by sibling.
LEMMA ClimbRounds ==
    ASSUME NEW leaf, NEW siblings, Len(siblings) \in Nat
    PROVE  \E h : /\ h[0] = leaf /\ Climb(leaf, siblings) = h[Len(siblings)]
                  /\ \A k \in 1..Len(siblings) : h[k] = KeccakPairSorted(h[k-1], siblings[k])
<1> DEFINE n    == Len(siblings)
           loop == [of |-> "keccak", proof |-> siblings]
           h    == CHOOSE f : f = [k \in 0..n |-> IF k = 0 THEN leaf
                                                  ELSE KeccakPairSorted(f[k-1], siblings[k])]
<1>1. \A k, x : Round(loop, k, x) = KeccakPairSorted(x, siblings[k])
  BY DEF Round
<1> HIDE DEF loop, n
<1>2. \E f : f = [k \in 0..n |-> IF k = 0 THEN leaf ELSE KeccakPairSorted(f[k-1], siblings[k])]
  <2>1. PICK f : Unrolls(loop, leaf, f, n)
    BY UnrollsExists DEF n
  <2> DEFINE g == [k \in 0..n |-> f[k]]
  <2>2. g = [k \in 0..n |-> IF k = 0 THEN leaf ELSE KeccakPairSorted(g[k-1], siblings[k])]
    <3>1. \A k \in 0..n : f[k] = IF k = 0 THEN leaf ELSE KeccakPairSorted(f[k-1], siblings[k])
      BY <1>1, <2>1 DEF Unrolls
    <3>2. \A k \in 0..n : k # 0 => g[k-1] = f[k-1]
      BY DEF n
    <3> QED
      BY <3>1, <3>2
  <2> HIDE DEF g
  <2> QED
    BY <2>2
<1>3. h = [k \in 0..n |-> IF k = 0 THEN leaf ELSE KeccakPairSorted(h[k-1], siblings[k])]
  BY <1>2
<1>4. Climb(leaf, siblings) = h[n]
  BY DEF Climb, n
<1> HIDE DEF h
<1>5. h[0] = leaf /\ \A k \in 1..n : h[k] = KeccakPairSorted(h[k-1], siblings[k])
  BY <1>3 DEF n
<1> QED
  BY <1>4, <1>5 DEF n

\* A SHA-256 proof is climbed on the side the index says.
LEMMA VerifyRounds ==
    ASSUME NEW leaf, NEW proof, NEW root, NEW index, Len(proof) \in Nat
    PROVE  \E h : /\ h[0] = leaf
                  /\ VerifyMerkleProof(leaf, proof, root, index) <=> h[Len(proof)] = root
                  /\ \A k \in 1..Len(proof) :
                        h[k] = IF GoesRight(index, k) THEN PairHash(proof[k], h[k-1])
                                                      ELSE PairHash(h[k-1], proof[k])
<1> DEFINE n    == Len(proof)
           up(k, x) == IF GoesRight(index, k) THEN PairHash(proof[k], x)
                                              ELSE PairHash(x, proof[k])
           loop == [of |-> "sha256", proof |-> proof, index |-> index]
           h    == CHOOSE f : f = [k \in 0..n |->
                      IF k = 0 THEN leaf
                      ELSE IF GoesRight(index, k) THEN PairHash(proof[k], f[k-1])
                                                  ELSE PairHash(f[k-1], proof[k])]
<1>1. \A k, x : Round(loop, k, x) = up(k, x)
  BY DEF Round
<1> HIDE DEF loop, n
<1>2. \E f : f = [k \in 0..n |->
                    IF k = 0 THEN leaf
                    ELSE IF GoesRight(index, k) THEN PairHash(proof[k], f[k-1])
                                                ELSE PairHash(f[k-1], proof[k])]
  <2>1. PICK f : Unrolls(loop, leaf, f, n)
    BY UnrollsExists DEF n
  <2> DEFINE g == [k \in 0..n |-> f[k]]
  <2>2. g = [k \in 0..n |-> IF k = 0 THEN leaf ELSE up(k, g[k-1])]
    <3>1. \A k \in 0..n : f[k] = IF k = 0 THEN leaf ELSE up(k, f[k-1])
      BY <1>1, <2>1 DEF Unrolls
    <3>2. \A k \in 0..n : k # 0 => g[k-1] = f[k-1]
      BY DEF n
    <3> QED
      BY <3>1, <3>2
  <2> HIDE DEF g
  <2> QED
    BY <2>2
<1>3. h = [k \in 0..n |-> IF k = 0 THEN leaf ELSE up(k, h[k-1])]
  BY <1>2
<1>4. VerifyMerkleProof(leaf, proof, root, index) <=> h[n] = root
  BY DEF VerifyMerkleProof, n
<1> HIDE DEF h
<1>5. h[0] = leaf /\ \A k \in 1..n : h[k] = up(k, h[k-1])
  <2> HIDE DEF up
  <2>1. 0 \in 0..n /\ \A k \in 1..n : k \in 0..n /\ k # 0
    BY DEF n
  <2>2. \A k \in 0..n : h[k] = IF k = 0 THEN leaf ELSE up(k, h[k-1])
    BY <1>3
  <2> QED
    BY <2>1, <2>2
<1> QED
  BY <1>4, <1>5 DEF n

-----------------------------------------------------------------------------
(***************************************************************************)
(* Levels: each has half the nodes of the one below, rounded up, down to   *)
(* the root.                                                               *)
(***************************************************************************)
IsLevel(level) == level \in Seq({level[i] : i \in DOMAIN level}) /\ Len(level) >= 1

LEMMA LevelLen ==
    ASSUME NEW level, IsLevel(level)
    PROVE  Len(level) \in Nat \ {0} /\ DOMAIN level = 1..Len(level)
BY DEF IsLevel

LEMMA EvenedLevel ==
    ASSUME NEW level, IsLevel(level)
    PROVE  /\ Len(Evened(level)) = Len(level) + Parity(Len(level))
           /\ \A i \in 1..Len(level) : Evened(level)[i] = level[i]
           /\ Parity(Len(level)) = 1 => Evened(level)[Len(level) + 1] = level[Len(level)]
<1> DEFINE n == Len(level)
           r == Parity(n)
           T == {level[i] : i \in DOMAIN level}
<1>1. n \in Nat \ {0} /\ level \in Seq(T) /\ DOMAIN level = 1..n
  BY LevelLen DEF IsLevel
<1>2. r \in 0..1
  BY <1>1, Halves
<1>3. Evened(level) = IF r = 1 THEN Append(level, level[n]) ELSE level
  BY DEF Evened, Parity
<1>4. level[n] \in T
  BY <1>1
<1> HIDE DEF r, T
<1>5. CASE r = 1
  <2>1. Append(level, level[n]) \in Seq(T) /\ Len(Append(level, level[n])) = n + 1
    BY <1>1, <1>4
  <2>2. /\ \A i \in 1..n : Append(level, level[n])[i] = level[i]
        /\ Append(level, level[n])[n + 1] = level[n]
    BY <1>1, <1>4
  <2> QED
    BY <1>1, <1>3, <1>5, <2>1, <2>2 DEF r
<1>6. CASE r = 0
  <2>1. Evened(level) = level /\ n + r = n
    BY <1>1, <1>3, <1>6
  <2> QED
    BY <1>1, <1>6, <2>1 DEF r
<1> QED
  BY <1>2, <1>5, <1>6

LEMMA ParentsLevel ==
    ASSUME NEW tree, NEW level, IsLevel(level)
    PROVE  /\ IsLevel(Parents(tree, level))
           /\ 2 * Len(Parents(tree, level)) = Len(level) + Parity(Len(level))
           /\ \A i \in 1..Len(Parents(tree, level)) :
                 Parents(tree, level)[i] =
                    Combine(tree, Evened(level)[2*i - 1], Evened(level)[2*i])
<1> DEFINE even == Evened(level)
           m    == Half(Len(even))
           up   == Parents(tree, level)
           T    == {Combine(tree, even[2*i - 1], even[2*i]) : i \in 1..m}
<1>1. Len(level) \in Nat \ {0} /\ Len(even) = Len(level) + Parity(Len(level))
  BY EvenedLevel, LevelLen
<1>2. m \in Nat \ {0} /\ 2 * m = Len(level) + Parity(Len(level))
  <2> DEFINE n == Len(level)
             r == Parity(n)
             q == Half(n)
             t == Parity(n + r)
  <2>1. n \in Nat \ {0} /\ q \in Nat /\ r \in 0..1 /\ n = 2 * q + r
    BY <1>1, Halves
  <2>2. n + r \in Nat /\ m = Half(n + r)
    BY <1>1, <2>1
  <2>3. m \in Nat /\ t \in 0..1 /\ n + r = 2 * m + t
    BY <2>2, Halves
  <2> HIDE DEF n, r, q, t, m
  <2>4. m \in Nat \ {0} /\ 2 * m = n + r
    BY <2>1, <2>3
  <2> QED
    BY <2>4 DEF n, r
<1>3. up = [i \in 1..m |-> Combine(tree, even[2*i - 1], even[2*i])]
  BY DEF Parents, Half
<1>4. \A i \in 1..m : Combine(tree, even[2*i - 1], even[2*i]) \in T
  OBVIOUS
<1> HIDE DEF even, m, T
<1>5. up \in Seq(T) /\ Len(up) = m /\ DOMAIN up = 1..m
  BY <1>2, <1>3, <1>4
<1>6. \A i \in 1..m : up[i] = Combine(tree, even[2*i - 1], even[2*i])
  BY <1>3
<1> HIDE DEF up
<1>7. up \in Seq({up[i] : i \in DOMAIN up})
  BY <1>5
<1> QED
  BY <1>2, <1>5, <1>6, <1>7 DEF IsLevel, up, even

\* The level after k rounds is a level and, while the tree is not one node yet,
\* at least k nodes shorter than the leaves.
LEMMA LevelShape ==
    ASSUME NEW tree, NEW leaves, IsLevel(leaves)
    PROVE  \A k \in Nat : /\ IsLevel(Level(tree, leaves, k))
                          /\ \/ Len(Level(tree, leaves, k)) = 1
                             \/ Len(Level(tree, leaves, k)) <= Len(leaves) - k
<1> DEFINE lev(k) == Level(tree, leaves, k)
           Small(k) == Len(lev(k)) = 1 \/ Len(lev(k)) <= Len(leaves) - k
           S == {k \in Nat : IsLevel(lev(k)) /\ Small(k)}
<1>1. Len(leaves) \in Nat \ {0}
  BY LevelLen
<1>2. 0 \in S
  BY <1>1, LevelRounds
<1>3. ASSUME NEW k \in Nat, k \in S
      PROVE  k + 1 \in S
  <2>1. lev(k + 1) = Parents(tree, lev(k))
    BY LevelRounds
  <2>2. IsLevel(lev(k)) /\ Len(lev(k)) \in Nat \ {0}
    BY <1>3, LevelLen
  <2>3. /\ IsLevel(lev(k + 1)) /\ Len(lev(k + 1)) \in Nat
        /\ 2 * Len(lev(k + 1)) = Len(lev(k)) + Parity(Len(lev(k)))
    BY <2>1, <2>2, ParentsLevel, LevelLen
  <2>4. Parity(Len(lev(k))) \in 0..1
    BY <2>2, Halves
  <2>5. Small(k)
    BY <1>3
  <2> DEFINE a == Len(lev(k))
             b == Len(lev(k + 1))
             r == Parity(a)
  <2>6. a \in Nat \ {0} /\ b \in Nat /\ r \in 0..1 /\ 2 * b = a + r
    BY <2>2, <2>3, <2>4
  <2>10. Len(leaves) \in Nat /\ (a = 1 \/ a <= Len(leaves) - k)
    BY <1>1, <2>5
  <2> HIDE DEF a, b, r
  <2>7. b = 1 \/ b <= a - 1
    BY <2>6
  <2>8. a = 1 => b = 1
    BY <2>6
  <2>9. b = 1 \/ b <= Len(leaves) - (k + 1)
    BY <2>6, <2>7, <2>8, <2>10
  <2> QED
    BY <2>3, <2>9 DEF b
<1> HIDE DEF S
<1>4. Nat \subseteq S
  BY <1>2, <1>3, NatSetInduction
<1> QED
  BY <1>4 DEF S

\* The loop ends, with the root.
LEMMA HeightReached ==
    ASSUME NEW tree, NEW leaves, IsLevel(leaves)
    PROVE  Height(tree, leaves) \in Nat /\ Len(Level(tree, leaves, Height(tree, leaves))) = 1
<1> DEFINE S == {h \in Nat : Len(Level(tree, leaves, h)) = 1}
           n == Len(leaves)
<1>1. n \in Nat \ {0}
  BY LevelLen
<1>2. \A k \in Nat : Len(Level(tree, leaves, k)) \in Nat \ {0}
  BY LevelShape, LevelLen
<1>3. n \in S
  <2>1. Len(Level(tree, leaves, n)) = 1 \/ Len(Level(tree, leaves, n)) <= n - n
    BY <1>1, LevelShape
  <2> QED
    BY <1>1, <1>2, <2>1
<1>4. PICK m \in S : \A h \in S : m <= h
  <2>1. S # {} /\ S \subseteq Nat
    BY <1>3
  <2> HIDE DEF S
  <2> QED
    BY <2>1, NatMin
<1>5. m \in 0..n /\ Len(Level(tree, leaves, m)) = 1
  BY <1>1, <1>3, <1>4
<1>6. \A g \in 0..m-1 : Len(Level(tree, leaves, g)) > 1
  <2> SUFFICES ASSUME NEW g \in 0..m-1
               PROVE  Len(Level(tree, leaves, g)) > 1
    OBVIOUS
  <2>1. g \in Nat /\ ~ (m <= g)
    BY <1>5
  <2>2. g \notin S
    BY <1>4, <2>1
  <2>3. Len(Level(tree, leaves, g)) # 1
    BY <2>1, <2>2
  <2> DEFINE l == Len(Level(tree, leaves, g))
  <2>4. l \in Nat \ {0} /\ l # 1
    BY <1>2, <2>1, <2>3
  <2> HIDE DEF l
  <2>5. l > 1
    BY <2>4
  <2> QED
    BY <2>5 DEF l
<1> HIDE DEF S
<1>7. \E h \in 0..n : /\ Len(Level(tree, leaves, h)) = 1
                      /\ \A g \in 0..h-1 : Len(Level(tree, leaves, g)) > 1
  BY <1>5, <1>6
<1>8. /\ Height(tree, leaves) \in 0..n
      /\ Len(Level(tree, leaves, Height(tree, leaves))) = 1
  BY <1>7 DEF Height
<1> QED
  BY <1>1, <1>8

-----------------------------------------------------------------------------
(***************************************************************************)
(* Paths: a proof lists the siblings of the nodes above a leaf.            *)
(***************************************************************************)

\* The node of round k above the leaf at an index.
NodeAt(tree, leaves, index, k) == Level(tree, leaves, k)[IndexAt(index, k) + 1]

\* Which is a node of its level: an index stays in its level.
LEMMA IndexInLevel ==
    ASSUME NEW tree, NEW leaves, IsLevel(leaves), NEW index \in 0..Len(leaves)-1
    PROVE  \A k \in Nat : IndexAt(index, k) \in 0..Len(Level(tree, leaves, k))-1
<1> DEFINE S == {k \in Nat : IndexAt(index, k) \in 0..Len(Level(tree, leaves, k))-1}
<1>1. 0 \in S
  BY LevelRounds, IndexRounds
<1>2. ASSUME NEW k \in Nat, k \in S
      PROVE  k + 1 \in S
  <2> DEFINE a == Len(Level(tree, leaves, k))
             b == Len(Level(tree, leaves, k + 1))
             i == IndexAt(index, k)
             j == IndexAt(index, k + 1)
  <2>1. IsLevel(Level(tree, leaves, k)) /\ a \in Nat \ {0}
    BY LevelShape, LevelLen
  <2>2. b \in Nat /\ 2 * b = a + Parity(a) /\ Parity(a) \in 0..1
    <3>1. Level(tree, leaves, k + 1) = Parents(tree, Level(tree, leaves, k))
      BY LevelRounds
    <3>2. b \in Nat
      BY LevelShape, LevelLen
    <3>3. 2 * b = a + Parity(a)
      BY <2>1, <3>1, ParentsLevel
    <3> QED
      BY <2>1, <3>2, <3>3, Halves
  <2>3. i \in 0..a-1
    BY <1>2
  <2>4. j = Half(i)
    BY IndexRounds
  <2> HIDE DEF a, b, i, j
  <2>5. j \in Nat /\ Parity(i) \in 0..1 /\ i = 2 * j + Parity(i)
    BY <2>1, <2>3, <2>4, Halves
  <2>6. j \in 0..b-1
    BY <2>1, <2>2, <2>3, <2>5
  <2> QED
    BY <2>6 DEF b, j
<1> HIDE DEF S
<1>3. Nat \subseteq S
  BY <1>1, <1>2, NatSetInduction
<1> QED
  BY <1>3 DEF S

LEMMA Siblings ==
    ASSUME NEW n \in Nat
    PROVE  Sibling(n) = IF Parity(n) = 0 THEN 2 * Half(n) + 1 ELSE 2 * Half(n)
<1>1. Sibling(n) = IF Parity(n) = 0 THEN n + 1 ELSE n - 1
  BY DEF Sibling, Parity
<1>2. Half(n) \in Nat /\ Parity(n) \in 0..1 /\ n = 2 * Half(n) + Parity(n)
  BY Halves
<1> QED
  BY <1>1, <1>2

\* The parent of a node and its sibling, in the order the index gives.
LEMMA NodeAbove ==
    ASSUME NEW tree, NEW leaves, IsLevel(leaves), NEW index \in 0..Len(leaves)-1, NEW k \in Nat
    PROVE  LET i       == IndexAt(index, k)
               node    == NodeAt(tree, leaves, index, k)
               sibling == Evened(Level(tree, leaves, k))[Sibling(i) + 1]
           IN  NodeAt(tree, leaves, index, k + 1) =
                   IF Parity(i) = 1 THEN Combine(tree, sibling, node)
                                    ELSE Combine(tree, node, sibling)
<1> DEFINE lev  == Level(tree, leaves, k)
           up   == Level(tree, leaves, k + 1)
           even == Evened(lev)
           i    == IndexAt(index, k)
           j    == IndexAt(index, k + 1)
<1>1. IsLevel(lev) /\ Len(lev) \in Nat \ {0} /\ up = Parents(tree, lev)
  BY LevelShape, LevelRounds, LevelLen
<1>2. i \in 0..Len(lev)-1 /\ j \in 0..Len(up)-1
  BY IndexInLevel
<1>3. i \in Nat /\ j = Half(i)
  <2>1. j = Half(i)
    BY IndexRounds
  <2> HIDE DEF i, lev
  <2>2. i \in Nat
    BY <1>1, <1>2
  <2> QED
    BY <2>1, <2>2
<1>4. j \in Nat /\ Parity(i) \in 0..1 /\ i = 2 * j + Parity(i)
  BY <1>3, Halves
<1>5. Sibling(i) = IF Parity(i) = 0 THEN 2 * j + 1 ELSE 2 * j
  BY <1>3, Siblings
<1>6. Len(up) \in Nat
  BY LevelShape, LevelLen
<1> HIDE DEF i, j
<1>7. up[j + 1] = Combine(tree, even[2 * j + 1], even[2 * j + 2])
  <2>1. j + 1 \in 1..Len(up) /\ 2 * (j + 1) - 1 = 2 * j + 1 /\ 2 * (j + 1) = 2 * j + 2
    BY <1>2, <1>4, <1>6
  <2>2. up[j + 1] = Combine(tree, even[2 * (j + 1) - 1], even[2 * (j + 1)])
    BY <1>1, <2>1, ParentsLevel
  <2> QED
    BY <2>1, <2>2
<1>8. even[i + 1] = lev[i + 1]
  <2>1. i + 1 \in 1..Len(lev)
    BY <1>1, <1>2
  <2> QED
    BY <1>1, <2>1, EvenedLevel
<1> HIDE DEF lev, up, even
<1>9. CASE Parity(i) = 1
  <2>1. i + 1 = 2 * j + 2 /\ Sibling(i) + 1 = 2 * j + 1
    BY <1>4, <1>5, <1>9
  <2> QED
    BY <1>7, <1>8, <1>9, <2>1 DEF NodeAt, lev, up, even, i, j
<1>10. CASE Parity(i) = 0
  <2>1. i + 1 = 2 * j + 1 /\ Sibling(i) + 1 = 2 * j + 2
    BY <1>4, <1>5, <1>10
  <2> QED
    BY <1>7, <1>8, <1>10, <2>1 DEF NodeAt, lev, up, even, i, j
<1> QED
  BY <1>4, <1>9, <1>10

LEMMA RootIsTop ==
    ASSUME NEW tree, NEW leaves, IsLevel(leaves), NEW index \in 0..Len(leaves)-1
    PROVE  /\ IndexAt(index, Height(tree, leaves)) = 0
           /\ NodeAt(tree, leaves, index, Height(tree, leaves)) = RootOf(tree, leaves)
<1> DEFINE h == Height(tree, leaves)
<1>1. h \in Nat /\ Len(Level(tree, leaves, h)) = 1
  BY HeightReached
<1> HIDE DEF h
<1>2. IndexAt(index, h) \in 0..Len(Level(tree, leaves, h))-1
  BY <1>1, IndexInLevel
<1>3. IndexAt(index, h) = 0
  BY <1>1, <1>2
<1>4. RootOf(tree, leaves) = Level(tree, leaves, h)[1]
  BY DEF RootOf, h
<1> QED
  BY <1>3, <1>4 DEF NodeAt, h

LEMMA ProofSiblings ==
    ASSUME NEW tree, NEW leaves, IsLevel(leaves), NEW index
    PROVE  LET proof == ProofOf(tree, leaves, index)
           IN  /\ Len(proof) = Height(tree, leaves) /\ Len(proof) \in Nat
               /\ \A k \in 1..Len(proof) :
                     proof[k] = Evened(Level(tree, leaves, k - 1))[Sibling(IndexAt(index, k - 1)) + 1]
<1> DEFINE h == Height(tree, leaves)
           sibling(k) == Evened(Level(tree, leaves, k - 1))[Sibling(IndexAt(index, k - 1)) + 1]
           T == {sibling(k) : k \in 1..h}
<1>1. h \in Nat
  BY HeightReached
<1>2. ProofOf(tree, leaves, index) = [k \in 1..h |-> sibling(k)]
  BY DEF ProofOf
<1>3. \A k \in 1..h : sibling(k) \in T
  OBVIOUS
<1> HIDE DEF h, T, sibling
<1>4. ProofOf(tree, leaves, index) \in Seq(T) /\ Len(ProofOf(tree, leaves, index)) = h
  BY <1>1, <1>2, <1>3
<1> QED
  BY <1>1, <1>2, <1>4 DEF h, sibling

-----------------------------------------------------------------------------
(***************************************************************************)
(* The keccak tree, which is anchored.                                     *)
(***************************************************************************)
LEMMA KeccakPairIsSymmetric ==
    ASSUME NEW a, NEW b
    PROVE  KeccakPairSorted(a, b) = KeccakPairSorted(b, a)
<1>1. {a, b} = {b, a}
  OBVIOUS
<1> QED
  BY <1>1 DEF KeccakPairSorted

LEMMA KeccakPairIsInjective ==
    ASSUME NEW a, NEW b, NEW s, KeccakPairSorted(a, s) = KeccakPairSorted(b, s)
    PROVE  a = b
<1>1. {a, s} = {b, s}
  BY DEF KeccakPairSorted
<1> QED
  BY <1>1

\* The proof of a leaf leads to the root, in a tree of any number of leaves, odd
\* levels included.
LEMMA KeccakProofLeads ==
    ASSUME NEW leaves, IsLevel(leaves), NEW index \in 0..Len(leaves)-1
    PROVE  Climb(leaves[index + 1], MerkleProofEvm(leaves, index)) = ComputeMerkleRootEvm(leaves)
<1> DEFINE proof   == ProofOf("keccak", leaves, index)
           n       == Len(proof)
           node(k) == NodeAt("keccak", leaves, index, k)
<1>1. /\ n = Height("keccak", leaves) /\ n \in Nat
      /\ \A k \in 1..n : proof[k] = Evened(Level("keccak", leaves, k - 1))
                                          [Sibling(IndexAt(index, k - 1)) + 1]
  BY ProofSiblings
<1> HIDE DEF proof
<1>2. PICK h : /\ h[0] = leaves[index + 1] /\ Climb(leaves[index + 1], proof) = h[n]
               /\ \A k \in 1..n : h[k] = KeccakPairSorted(h[k-1], proof[k])
  BY <1>1, ClimbRounds
<1>3. node(0) = leaves[index + 1]
  BY LevelRounds, IndexRounds DEF NodeAt
<1>4. node(n) = RootOf("keccak", leaves)
  BY <1>1, RootIsTop
<1> HIDE DEF n
<1>5. ASSUME NEW k \in Nat, k + 1 \in 1..n
      PROVE  node(k + 1) = KeccakPairSorted(node(k), proof[k + 1])
  <2> DEFINE i == IndexAt(index, k)
             s == Evened(Level("keccak", leaves, k))[Sibling(i) + 1]
  <2>1. proof[k + 1] = s
    <3>1. (k + 1) - 1 = k
      OBVIOUS
    <3> QED
      BY <1>1, <1>5, <3>1
  <2>2. node(k + 1) = IF Parity(i) = 1 THEN Combine("keccak", s, node(k))
                                       ELSE Combine("keccak", node(k), s)
    BY NodeAbove
  <2>3. \A a, b : Combine("keccak", a, b) = KeccakPairSorted(a, b)
    BY DEF Combine
  <2>4. KeccakPairSorted(s, node(k)) = KeccakPairSorted(node(k), s)
    BY KeccakPairIsSymmetric
  <2> HIDE DEF i, s, node
  <2> QED
    BY <2>1, <2>2, <2>3, <2>4
<1> DEFINE S == {k \in Nat : k <= n => h[k] = node(k)}
<1> HIDE DEF node
<1>6. 0 \in S
  BY <1>2, <1>3
<1>7. ASSUME NEW k \in Nat, k \in S
      PROVE  k + 1 \in S
  <2> SUFFICES ASSUME k + 1 <= n
               PROVE  h[k + 1] = node(k + 1)
    OBVIOUS
  <2>1. k + 1 \in 1..n /\ (k + 1) - 1 = k /\ h[k] = node(k)
    BY <1>1, <1>7
  <2>2. h[k + 1] = KeccakPairSorted(h[k], proof[k + 1])
    BY <1>2, <2>1
  <2> QED
    BY <1>5, <2>1, <2>2
<1> HIDE DEF S
<1>8. Nat \subseteq S
  BY <1>6, <1>7, NatSetInduction
<1>9. h[n] = node(n)
  BY <1>1, <1>8 DEF S
<1> QED
  BY <1>2, <1>4, <1>9 DEF MerkleProofEvm, ComputeMerkleRootEvm, proof

\* One list of siblings leads two leaves to one hash only if they are one leaf.
LEMMA ClimbIsInjective ==
    ASSUME NEW x, NEW y, NEW siblings, Len(siblings) \in Nat,
           Climb(x, siblings) = Climb(y, siblings)
    PROVE  x = y
<1> DEFINE n == Len(siblings)
<1>1. PICK f : /\ f[0] = x /\ Climb(x, siblings) = f[n]
               /\ \A k \in 1..n : f[k] = KeccakPairSorted(f[k-1], siblings[k])
  BY ClimbRounds
<1>2. PICK g : /\ g[0] = y /\ Climb(y, siblings) = g[n]
               /\ \A k \in 1..n : g[k] = KeccakPairSorted(g[k-1], siblings[k])
  BY ClimbRounds
<1> DEFINE S == {j \in Nat : j <= n => f[n - j] = g[n - j]}
<1> HIDE DEF n
<1>3. n \in Nat
  BY DEF n
<1>4. 0 \in S
  <2>1. f[n] = g[n]
    BY <1>1, <1>2 DEF n
  <2>2. n - 0 = n
    BY <1>3
  <2> QED
    BY <2>1, <2>2
<1>5. ASSUME NEW j \in Nat, j \in S
      PROVE  j + 1 \in S
  <2> SUFFICES ASSUME j + 1 <= n
               PROVE  f[n - (j + 1)] = g[n - (j + 1)]
    OBVIOUS
  <2> DEFINE k == n - j
  <2>1. k \in 1..n /\ k - 1 = n - (j + 1) /\ f[k] = g[k]
    BY <1>3, <1>5
  <2> HIDE DEF k
  <2>2. KeccakPairSorted(f[k-1], siblings[k]) = KeccakPairSorted(g[k-1], siblings[k])
    BY <1>1, <1>2, <2>1
  <2>3. f[k-1] = g[k-1]
    BY <2>2, KeccakPairIsInjective
  <2> QED
    BY <2>1, <2>3
<1> HIDE DEF S
<1>6. n \in S
  BY <1>3, <1>4, <1>5, NatSetInduction
<1>7. f[n - n] = g[n - n] /\ n - n = 0
  BY <1>3, <1>6 DEF S
<1> QED
  BY <1>1, <1>2, <1>7

\* For any batch: the keccak proof of a leaf is accepted against the batch's root,
\* and for no other leaf, whether of this batch or of another.
THEOREM KeccakProofIsExact ==
    ASSUME NEW leaves, IsLevel(leaves), NEW index \in 0..Len(leaves)-1, NEW leaf
    PROVE  VerifyMerkleProofEvm(leaf, MerkleProofEvm(leaves, index), ComputeMerkleRootEvm(leaves))
              <=> leaf = leaves[index + 1]
<1> DEFINE proof == MerkleProofEvm(leaves, index)
<1>1. Climb(leaves[index + 1], proof) = ComputeMerkleRootEvm(leaves)
  BY KeccakProofLeads
<1>2. Len(proof) \in Nat
  BY ProofSiblings DEF MerkleProofEvm
<1> HIDE DEF proof
<1>3. Climb(leaf, proof) = Climb(leaves[index + 1], proof) => leaf = leaves[index + 1]
  BY <1>2, ClimbIsInjective
<1> QED
  BY <1>1, <1>3 DEF VerifyMerkleProofEvm, proof

-----------------------------------------------------------------------------
(***************************************************************************)
(* The SHA-256 tree, for auditors.                                         *)
(***************************************************************************)
LEMMA PairHashIsInjective ==
    ASSUME NEW a, NEW b, NEW c, NEW d, PairHash(a, b) = PairHash(c, d)
    PROVE  a = c /\ b = d
BY DEF PairHash

\* Where the leaves are distinct, so are the nodes of every level.
Distinct(level) == \A i, j \in 1..Len(level) : level[i] = level[j] => i = j

LEMMA DistinctAbove ==
    ASSUME NEW leaves, IsLevel(leaves), Distinct(leaves)
    PROVE  \A k \in Nat : Distinct(Level("sha256", leaves, k))
<1> DEFINE S == {k \in Nat : Distinct(Level("sha256", leaves, k))}
<1>1. 0 \in S
  BY LevelRounds
<1>2. ASSUME NEW k \in Nat, k \in S
      PROVE  k + 1 \in S
  <2> DEFINE lev  == Level("sha256", leaves, k)
             up   == Level("sha256", leaves, k + 1)
             even == Evened(lev)
             n    == Len(lev)
             m    == Len(up)
  <2>1. IsLevel(lev) /\ n \in Nat \ {0} /\ up = Parents("sha256", lev) /\ m \in Nat
    <3>1. IsLevel(lev) /\ IsLevel(up)
      BY LevelShape
    <3>2. up = Parents("sha256", lev)
      BY LevelRounds
    <3> HIDE DEF lev, up
    <3> QED
      BY <3>1, <3>2, LevelLen
  <2>2. 2 * m = n + Parity(n) /\ Parity(n) \in 0..1
    BY <2>1, ParentsLevel, Halves
  <2>3. \A i \in 1..n : even[i] = lev[i]
    BY <2>1, EvenedLevel
  <2>4. \A i \in 1..m : up[i] = Combine("sha256", even[2*i - 1], even[2*i])
    BY <2>1, ParentsLevel
  <2> HIDE DEF lev, even, n, m, up
  <2>5. ASSUME NEW i \in 1..m, NEW j \in 1..m, up[i] = up[j]
        PROVE  i = j
    <3>1. PairHash(even[2*i - 1], even[2*i]) = PairHash(even[2*j - 1], even[2*j])
      BY <2>4, <2>5 DEF Combine
    <3>2. even[2*i - 1] = even[2*j - 1]
      BY <3>1, PairHashIsInjective
    <3>3. 2*i - 1 \in 1..n /\ 2*j - 1 \in 1..n
      BY <2>1, <2>2
    <3>4. lev[2*i - 1] = lev[2*j - 1]
      BY <2>3, <3>2, <3>3
    <3>5. 2*i - 1 = 2*j - 1
      BY <1>2, <3>3, <3>4 DEF Distinct, lev, n
    <3> QED
      BY <3>5
  <2> QED
    BY <2>5 DEF Distinct, up, m
<1> HIDE DEF S
<1>3. Nat \subseteq S
  BY <1>1, <1>2, NatSetInduction
<1> QED
  BY <1>3 DEF S

\* The nodes above a leaf are what its proof makes of it, round by round.
LEMMA Sha256Path ==
    ASSUME NEW leaves, IsLevel(leaves), NEW index \in 0..Len(leaves)-1
    PROVE  LET proof   == MerkleProof(leaves, index)
               node(k) == NodeAt("sha256", leaves, index, k)
           IN  /\ Len(proof) \in Nat
               /\ node(0) = leaves[index + 1]
               /\ node(Len(proof)) = ComputeMerkleRoot(leaves)
               /\ \A k \in 1..Len(proof) :
                     /\ proof[k] = Evened(Level("sha256", leaves, k - 1))
                                         [Sibling(IndexAt(index, k - 1)) + 1]
                     /\ node(k) = IF GoesRight(index, k) THEN PairHash(proof[k], node(k - 1))
                                                         ELSE PairHash(node(k - 1), proof[k])
<1> DEFINE proof   == ProofOf("sha256", leaves, index)
           n       == Len(proof)
           node(k) == NodeAt("sha256", leaves, index, k)
<1>1. /\ n = Height("sha256", leaves) /\ n \in Nat
      /\ \A k \in 1..n : proof[k] = Evened(Level("sha256", leaves, k - 1))
                                          [Sibling(IndexAt(index, k - 1)) + 1]
  BY ProofSiblings
<1>2. node(0) = leaves[index + 1]
  BY LevelRounds, IndexRounds DEF NodeAt
<1>3. node(n) = RootOf("sha256", leaves)
  BY <1>1, RootIsTop
<1>4. ASSUME NEW k \in 1..n
      PROVE  node(k) = IF GoesRight(index, k) THEN PairHash(proof[k], node(k - 1))
                                              ELSE PairHash(node(k - 1), proof[k])
  <2> DEFINE i == IndexAt(index, k - 1)
             s == Evened(Level("sha256", leaves, k - 1))[Sibling(i) + 1]
  <2>1. proof[k] = s /\ k - 1 \in Nat /\ (k - 1) + 1 = k
    BY <1>1
  <2>2. node((k - 1) + 1) = IF Parity(i) = 1 THEN Combine("sha256", s, node(k - 1))
                                             ELSE Combine("sha256", node(k - 1), s)
    BY <2>1, NodeAbove
  <2>3. \A a, b : Combine("sha256", a, b) = PairHash(a, b)
    BY DEF Combine
  <2>4. GoesRight(index, k) <=> Parity(i) = 1
    BY DEF GoesRight, Parity
  <2> HIDE DEF i, s, node
  <2> QED
    BY <2>1, <2>2, <2>3, <2>4
<1> HIDE DEF node, proof
<1> QED
  BY <1>1, <1>2, <1>3, <1>4 DEF MerkleProof, ComputeMerkleRoot, node, proof

\* For any batch of distinct leaves: the SHA-256 proof built for a position is
\* accepted for the leaf of that position at that position, and for no other leaf
\* and at no other position.  Of a position that exists, that is: the copy of a last
\* node that evens an odd level answers to a position past the end.
THEOREM Sha256ProofIsExact ==
    ASSUME NEW leaves, IsLevel(leaves), Distinct(leaves),
           NEW index \in 0..Len(leaves)-1, NEW other \in 0..Len(leaves)-1, NEW leaf
    PROVE  VerifyMerkleProof(leaf, MerkleProof(leaves, index), ComputeMerkleRoot(leaves), other)
              <=> leaf = leaves[index + 1] /\ other = index
<1> DEFINE proof   == MerkleProof(leaves, index)
           n       == Len(proof)
           node(k) == NodeAt("sha256", leaves, index, k)
           root    == ComputeMerkleRoot(leaves)
           lev(k)  == Level("sha256", leaves, k)
<1>1. /\ n \in Nat /\ node(0) = leaves[index + 1] /\ node(n) = root
      /\ \A k \in 1..n :
            /\ proof[k] = Evened(lev(k - 1))[Sibling(IndexAt(index, k - 1)) + 1]
            /\ node(k) = IF GoesRight(index, k) THEN PairHash(proof[k], node(k - 1))
                                                ELSE PairHash(node(k - 1), proof[k])
  BY Sha256Path
<1>2. PICK h : /\ h[0] = leaf
               /\ VerifyMerkleProof(leaf, proof, root, other) <=> h[n] = root
               /\ \A k \in 1..n : h[k] = IF GoesRight(other, k) THEN PairHash(proof[k], h[k-1])
                                                                ELSE PairHash(h[k-1], proof[k])
  BY <1>1, VerifyRounds
<1>3. n = Height("sha256", leaves)
  BY ProofSiblings DEF MerkleProof
<1>4. ASSUME NEW k \in Nat
      PROVE  /\ IsLevel(lev(k)) /\ Len(lev(k)) \in Nat \ {0} /\ Distinct(lev(k))
             /\ IndexAt(index, k) \in 0..Len(lev(k))-1
             /\ IndexAt(other, k) \in 0..Len(lev(k))-1
  BY LevelShape, LevelLen, DistinctAbove, IndexInLevel
<1>5. \A k \in 1..n : /\ GoesRight(index, k) <=> Parity(IndexAt(index, k - 1)) = 1
                      /\ GoesRight(other, k) <=> Parity(IndexAt(other, k - 1)) = 1
  BY DEF GoesRight, Parity
<1> HIDE DEF proof, n, node, root, lev
<1>6. ASSUME leaf = leaves[index + 1], other = index
      PROVE  h[n] = root
  <2> DEFINE S == {k \in Nat : k <= n => h[k] = node(k)}
  <2>1. 0 \in S
    BY <1>1, <1>2, <1>6
  <2>2. ASSUME NEW k \in Nat, k \in S
        PROVE  k + 1 \in S
    <3> SUFFICES ASSUME k + 1 <= n
                 PROVE  h[k + 1] = node(k + 1)
      OBVIOUS
    <3>1. k + 1 \in 1..n /\ (k + 1) - 1 = k /\ h[k] = node(k)
      BY <1>1, <2>2
    <3> QED
      BY <1>1, <1>2, <1>6, <3>1
  <2> HIDE DEF S
  <2>3. n \in S
    BY <1>1, <2>1, <2>2, NatSetInduction
  <2> QED
    BY <1>1, <2>3 DEF S
<1>7. ASSUME h[n] = root
      PROVE  leaf = leaves[index + 1] /\ other = index
  <2> DEFINE Agree(k) == h[k] = node(k) /\ IndexAt(other, k) = IndexAt(index, k)
             S == {j \in Nat : j <= n => Agree(n - j)}
  <2>1. Agree(n)
    <3>1. IndexAt(index, n) = 0 /\ IndexAt(other, n) = 0
      BY <1>3, RootIsTop
    <3> QED
      BY <1>1, <1>7, <3>1
  <2>2. 0 \in S
    <3>1. n - 0 = n
      BY <1>1
    <3> QED
      BY <2>1, <3>1
  <2>3. ASSUME NEW j \in Nat, j \in S
        PROVE  j + 1 \in S
    <3> SUFFICES ASSUME j + 1 <= n
                 PROVE  Agree(n - (j + 1))
      OBVIOUS
    <3> DEFINE k == (n - j) - 1
               a == IndexAt(index, k)
               b == IndexAt(other, k)
               s == Sibling(a)
    <3>1. k \in Nat /\ k + 1 = n - j /\ k = n - (j + 1) /\ k + 1 \in 1..n /\ (k + 1) - 1 = k
      BY <1>1
    <3>2. Agree(k + 1)
      BY <1>1, <2>3, <3>1
    <3> HIDE DEF k
    <3>3. /\ IsLevel(lev(k)) /\ Len(lev(k)) \in Nat \ {0} /\ Distinct(lev(k))
          /\ a \in 0..Len(lev(k))-1 /\ b \in 0..Len(lev(k))-1 /\ a \in Nat /\ b \in Nat
      BY <1>4, <3>1
    <3>4. Half(a) = Half(b)
      <4>1. IndexAt(index, k + 1) = Half(a) /\ IndexAt(other, k + 1) = Half(b)
        BY <3>1, IndexRounds
      <4> HIDE DEF a, b
      <4> QED
        BY <3>2, <4>1
    <3>5. /\ Half(a) \in Nat /\ Parity(a) \in 0..1 /\ a = 2 * Half(a) + Parity(a)
          /\ Half(b) \in Nat /\ Parity(b) \in 0..1 /\ b = 2 * Half(b) + Parity(b)
      BY <3>3, Halves
    <3>6. proof[k + 1] = Evened(lev(k))[s + 1]
      BY <1>1, <3>1
    <3>7. /\ node(k + 1) = IF Parity(a) = 1 THEN PairHash(proof[k + 1], node(k))
                                            ELSE PairHash(node(k), proof[k + 1])
          /\ h[k + 1] = IF Parity(b) = 1 THEN PairHash(proof[k + 1], h[k])
                                         ELSE PairHash(h[k], proof[k + 1])
      <4>1. /\ GoesRight(index, k + 1) <=> Parity(a) = 1
            /\ GoesRight(other, k + 1) <=> Parity(b) = 1
        BY <1>5, <3>1
      <4> HIDE DEF a, b
      <4> QED
        BY <1>1, <1>2, <3>1, <4>1
    <3>8. node(k) = lev(k)[a + 1]
      BY DEF node, NodeAt, lev
    <3> HIDE DEF a, b, s
    <3>9. CASE Parity(a) = Parity(b)
      <4>1. a = b
        BY <3>4, <3>5, <3>9
      <4>2. h[k] = node(k)
        BY <3>2, <3>7, <3>9, PairHashIsInjective
      <4> QED
        BY <3>1, <4>1, <4>2 DEF a, b
    <3>10. CASE Parity(a) # Parity(b)
      <4>1. s = b
        BY <3>3, <3>4, <3>5, <3>10, Siblings DEF s
      <4>2. proof[k + 1] = node(k)
        <5>1. CASE Parity(a) = 1
          BY <3>2, <3>7, <3>10, <5>1, PairHashIsInjective
        <5>2. CASE Parity(a) # 1
          <6>1. Parity(b) = 1
            BY <3>5, <3>10, <5>2
          <6> QED
            BY <3>2, <3>7, <5>2, <6>1, PairHashIsInjective
        <5> QED
          BY <5>1, <5>2
      <4>3. b + 1 \in 1..Len(lev(k)) /\ a + 1 \in 1..Len(lev(k))
        BY <3>3
      <4>4. lev(k)[b + 1] = lev(k)[a + 1]
        BY <3>3, <3>6, <3>8, <4>1, <4>2, <4>3, EvenedLevel
      <4>5. b + 1 = a + 1
        BY <3>3, <4>3, <4>4 DEF Distinct
      <4>6. FALSE
        BY <3>3, <3>10, <4>5
      <4> QED
        BY <4>6
    <3> QED
      BY <3>9, <3>10
  <2> HIDE DEF S
  <2>4. n \in S
    BY <1>1, <2>2, <2>3, NatSetInduction
  <2>5. Agree(n - n) /\ n - n = 0
    BY <1>1, <2>4 DEF S
  <2>6. h[0] = node(0) /\ IndexAt(other, 0) = IndexAt(index, 0)
    BY <2>5
  <2>7. IndexAt(other, 0) = other /\ IndexAt(index, 0) = index
    BY IndexRounds
  <2> QED
    BY <1>1, <1>2, <2>6, <2>7
<1> QED
  BY <1>2, <1>6, <1>7 DEF proof, root
=============================================================================
