--------------------------- MODULE CircuitProofs ---------------------------
(***************************************************************************)
(* What the settlement guest, the chunked host and the claim walk promise, *)
(* for batches of every size, chunks of every size, proofs of every length *)
(* and every order in which the chunks' tasks end.                         *)
(*                                                                         *)
(* The first parts solve the model's recursions: the levels of the tree,   *)
(* the walk from a leaf, sorting, the balance rolled from chunk to chunk.  *)
(* Then come the guest's promises on one batch, the inductive invariant of *)
(* the run, and what follows from it for the aggregate.                    *)
(***************************************************************************)
EXTENDS ChunkedProof, DataTheorems

-----------------------------------------------------------------------------
\* Sequences as functions.

\* A function on 1..n is a sequence of length n.
LEMMA LenOf ==
  ASSUME NEW n \in Nat, NEW s, DOMAIN s = 1..n, s = [i \in 1..n |-> s[i]]
  PROVE  Len(s) = n
<1> DEFINE S == {s[i] : i \in 1..n}
<1>1. s \in [1..n -> S]
  OBVIOUS
<1>2. s \in Seq(S)
  BY <1>1
<1>3. Len(s) \in Nat /\ DOMAIN s = 1..Len(s)
  BY <1>2
<1> QED BY <1>3

\* A sequence, whatever its elements.
IsSequence(s) == \E n \in Nat : DOMAIN s = 1..n /\ s = [i \in 1..n |-> s[i]]

\* It has a length, and its indices are those up to it.
LEMMA SequenceLen ==
  ASSUME NEW s, IsSequence(s)
  PROVE  Len(s) \in Nat /\ DOMAIN s = 1..Len(s) /\ s = [i \in 1..Len(s) |-> s[i]]
<1>1. PICK n \in Nat : DOMAIN s = 1..n /\ s = [i \in 1..n |-> s[i]]
  BY DEF IsSequence
<1>2. Len(s) = n
  BY <1>1, LenOf
<1> QED BY <1>1, <1>2

-----------------------------------------------------------------------------
\* The levels of the tree.

\* A function on 0..n of the first levels.
Levels(leaves, n, g) ==
  /\ g[0] = leaves
  /\ \A k \in 1..n : g[k] = NextLevel(g[k - 1])

\* Two such functions agree as far as both go.
LEMMA LevelsAgree ==
  ASSUME NEW leaves, NEW n \in Nat, NEW m \in Nat, NEW f, NEW g,
         Levels(leaves, n, f), Levels(leaves, m, g)
  PROVE  \A k \in Nat : k <= n /\ k <= m => f[k] = g[k]
<1> DEFINE S == {k \in Nat : k <= n /\ k <= m => f[k] = g[k]}
<1>1. 0 \in S
  BY DEF Levels
<1>2. ASSUME NEW k \in Nat, k \in S
      PROVE  k + 1 \in S
  <2>1. SUFFICES ASSUME k + 1 <= n, k + 1 <= m PROVE f[k + 1] = g[k + 1]
    OBVIOUS
  <2>2. f[k] = g[k]
    BY <1>2, <2>1
  <2>3. k + 1 \in 1..n /\ k + 1 \in 1..m /\ (k + 1) - 1 = k
    BY <2>1
  <2>4. f[k + 1] = NextLevel(f[k]) /\ g[k + 1] = NextLevel(g[k])
    BY <2>3 DEF Levels
  <2> QED BY <2>2, <2>4
<1>3. Nat \subseteq S
  <2> HIDE DEF S
  <2> QED BY <1>1, <1>2, Induction
<1> QED BY <1>3

\* There is one of every length.
LEMMA LevelsExist ==
  ASSUME NEW leaves, NEW n \in Nat
  PROVE  \E g : Levels(leaves, n, g)
<1> DEFINE S == {k \in Nat : \E g : Levels(leaves, k, g)}
<1>1. 0 \in S
  <2>1. Levels(leaves, 0, [k \in {0} |-> leaves])
    BY DEF Levels
  <2> QED BY <2>1
<1>2. ASSUME NEW k \in Nat, k \in S
      PROVE  k + 1 \in S
  <2>1. PICK g : Levels(leaves, k, g)
    BY <1>2
  <2> DEFINE f == [m \in 0..k + 1 |-> IF m <= k THEN g[m] ELSE NextLevel(g[k])]
  <2>2. f[0] = leaves
    BY <2>1 DEF Levels
  <2>3. ASSUME NEW m \in 1..k + 1
        PROVE  f[m] = NextLevel(f[m - 1])
    <3>1. CASE m <= k
      <4>1. g[m] = NextLevel(g[m - 1]) /\ f[m] = g[m] /\ f[m - 1] = g[m - 1]
        BY <2>1, <3>1 DEF Levels
      <4> QED BY <4>1
    <3>2. CASE m = k + 1
      <4>1. f[m] = NextLevel(g[k]) /\ f[m - 1] = g[k]
        BY <3>2
      <4> QED BY <4>1
    <3> QED BY <3>1, <3>2
  <2>4. Levels(leaves, k + 1, f)
    <3> HIDE DEF f
    <3> QED BY <2>2, <2>3 DEF Levels
  <2> QED BY <2>4
<1>3. Nat \subseteq S
  <2> HIDE DEF S
  <2> QED BY <1>1, <1>2, Induction
<1> QED BY <1>3

\* The recursion has a solution: LevelAt starts with the leaves and goes on in
\* rounds.
LEMMA LevelSteps ==
  ASSUME NEW leaves
  PROVE  /\ LevelAt(leaves, 0) = leaves
         /\ \A k \in Nat : LevelAt(leaves, k + 1) = NextLevel(LevelAt(leaves, k))
<1> DEFINE G(n) == CHOOSE g : Levels(leaves, n, g)
           f == [n \in Nat |-> G(n)[n]]
           Solves(g) == g = [k \in Nat |-> IF k = 0 THEN leaves ELSE NextLevel(g[k - 1])]
<1>1. \A n \in Nat : Levels(leaves, n, G(n))
  BY LevelsExist
<1> HIDE DEF G
<1>2. f[0] = leaves
  BY <1>1 DEF Levels
<1>3. ASSUME NEW k \in Nat, k # 0
      PROVE  f[k] = NextLevel(f[k - 1])
  <2>1. k - 1 \in Nat /\ k \in 1..k /\ k - 1 <= k
    BY <1>3
  <2>2. G(k)[k] = NextLevel(G(k)[k - 1])
    BY <1>1, <2>1 DEF Levels
  <2>3. G(k - 1)[k - 1] = G(k)[k - 1]
    BY <1>1, <2>1, LevelsAgree
  <2> QED BY <2>1, <2>2, <2>3
<1>4. f = [k \in Nat |-> f[k]]
  OBVIOUS
<1> HIDE DEF f
<1>5. Solves(f)
  BY <1>2, <1>3, <1>4
<1> DEFINE level == CHOOSE g : Solves(g)
<1>6. Solves(level)
  <2> HIDE DEF Solves
  <2> QED BY <1>5
<1>7. \A n \in Nat : LevelAt(leaves, n) = level[n]
  BY DEF LevelAt
<1> HIDE DEF level
<1>8. level[0] = leaves
  BY <1>6
<1>9. ASSUME NEW k \in Nat
      PROVE  level[k + 1] = NextLevel(level[k])
  <2>1. k + 1 \in Nat /\ k + 1 # 0 /\ (k + 1) - 1 = k
    OBVIOUS
  <2> QED BY <1>6, <2>1
<1> QED BY <1>7, <1>8, <1>9

\* What a round makes of a level.
LEMMA NextLevelIs ==
  ASSUME NEW level, IsSequence(level), Len(level) >= 1
  PROVE  /\ IsSequence(NextLevel(level))
         /\ Len(level) = 1 => NextLevel(level) = level
         /\ Len(level) > 1 =>
              /\ Len(NextLevel(level)) = (Len(level) + 1) \div 2
              /\ \A k \in 1..Len(NextLevel(level)) :
                   /\ 2 * k - 1 \in 1..Len(level)
                   /\ NextLevel(level)[k]
                        = hash_merkle_pair(level[2 * k - 1],
                            IF 2 * k <= Len(level) THEN level[2 * k] ELSE level[2 * k - 1])
<1>1. Len(level) \in Nat /\ DOMAIN level = 1..Len(level)
  BY SequenceLen
<1>2. CASE Len(level) = 1
  BY <1>2 DEF NextLevel
<1>3. CASE Len(level) > 1
  <2> DEFINE n == (Len(level) + 1) \div 2
             Node(k) == hash_merkle_pair(level[2 * k - 1],
                          IF 2 * k <= Len(level) THEN level[2 * k] ELSE level[2 * k - 1])
  <2>1. n \in Nat /\ \A k \in 1..n : 2 * k - 1 \in 1..Len(level)
    BY <1>1
  <2>2. NextLevel(level) = [k \in 1..n |-> Node(k)]
    BY <1>1, <1>3 DEF NextLevel
  <2> HIDE DEF n, Node
  <2>3. DOMAIN NextLevel(level) = 1..n
    BY <2>2
  <2>4. NextLevel(level) = [k \in 1..n |-> NextLevel(level)[k]]
    BY <2>2
  <2>5. Len(NextLevel(level)) = n
    BY <2>1, <2>3, <2>4, LenOf
  <2>6. IsSequence(NextLevel(level))
    BY <2>1, <2>3, <2>4 DEF IsSequence
  <2>7. \A k \in 1..n : NextLevel(level)[k] = Node(k)
    BY <2>2
  <2> QED BY <1>3, <2>1, <2>5, <2>6, <2>7 DEF n, Node
<1> QED BY <1>1, <1>2, <1>3

\* A round halves the level, and at the latest after as many rounds as there
\* are leaves one node is left.
LEMMA LevelLen ==
  ASSUME NEW leaves, IsSequence(leaves), Len(leaves) >= 1
  PROVE  \A k \in Nat : /\ IsSequence(LevelAt(leaves, k))
                        /\ Len(LevelAt(leaves, k)) \in Nat
                        /\ Len(LevelAt(leaves, k)) >= 1
                        /\ Len(LevelAt(leaves, k)) + k <= Len(leaves) \/ Len(LevelAt(leaves, k)) = 1
<1> DEFINE L(k) == LevelAt(leaves, k)
           Ok(k) == /\ IsSequence(L(k))
                    /\ Len(L(k)) >= 1
                    /\ Len(L(k)) + k <= Len(leaves) \/ Len(L(k)) = 1
           S == {k \in Nat : Ok(k)}
<1>0. Len(leaves) \in Nat
  BY SequenceLen
<1>1. 0 \in S
  BY <1>0, LevelSteps
<1>2. ASSUME NEW k \in Nat, k \in S
      PROVE  k + 1 \in S
  <2> DEFINE now == L(k)
             then == L(k + 1)
  <2>1. then = NextLevel(now)
    BY LevelSteps
  <2>2. IsSequence(now) /\ Len(now) >= 1 /\ (Len(now) + k <= Len(leaves) \/ Len(now) = 1)
    BY <1>2
  <2>3. k + 1 \in Nat
    OBVIOUS
  <2> HIDE DEF L, now, then
  <2>4. Len(now) \in Nat
    BY <2>2, SequenceLen
  <2>5. IsSequence(then) /\ Len(then) >= 1 /\ (Len(then) + (k + 1) <= Len(leaves) \/ Len(then) = 1)
    <3>1. CASE Len(now) = 1
      <4>1. then = now
        BY <2>1, <2>2, <3>1, NextLevelIs
      <4> QED BY <2>2, <3>1, <4>1
    <3>2. CASE Len(now) > 1
      <4>1. IsSequence(then) /\ Len(then) = (Len(now) + 1) \div 2
        BY <2>1, <2>2, <3>2, NextLevelIs
      <4>2. Len(then) >= 1 /\ Len(then) + (k + 1) <= Len(now) + k
        BY <2>4, <3>2, <4>1
      <4>3. Len(now) + k <= Len(leaves)
        <5> DEFINE m == Len(now)
        <5>1. m \in Nat /\ m > 1 /\ (m + k <= Len(leaves) \/ m = 1)
          BY <2>2, <2>4, <3>2
        <5> HIDE DEF m
        <5>2. m + k <= Len(leaves)
          BY <5>1
        <5> QED BY <5>2 DEF m
      <4>4. Len(then) \in Nat
        BY <2>4, <4>1, <4>2
      <4>5. Len(then) + (k + 1) <= Len(leaves)
        BY <1>0, <2>4, <4>2, <4>3, <4>4
      <4> QED BY <4>1, <4>2, <4>5
    <3> QED BY <2>2, <2>4, <3>1, <3>2
  <2> QED BY <2>3, <2>5 DEF then
<1>3. Nat \subseteq S
  <2> HIDE DEF S
  <2> QED BY <1>1, <1>2, Induction
<1>4. ASSUME NEW k \in Nat
      PROVE  Ok(k) /\ Len(L(k)) \in Nat
  <2>1. Ok(k)
    BY <1>3
  <2> QED BY <2>1, SequenceLen
<1> QED BY <1>4

\* The root.
LEMMA RootIs ==
  ASSUME NEW leaves, IsSequence(leaves), leaves # <<>>
  PROVE  /\ Len(leaves) \in Nat
         /\ Len(leaves) >= 1
         /\ Len(LevelAt(leaves, Len(leaves))) = 1
         /\ compute_payouts_merkle_root(leaves) = LevelAt(leaves, Len(leaves))[1]
<1>1. Len(leaves) \in Nat /\ leaves = [i \in 1..Len(leaves) |-> leaves[i]]
  BY SequenceLen
<1>2. Len(leaves) # 0
  BY <1>1
<1>3. Len(leaves) >= 1
  BY <1>1, <1>2
<1> DEFINE m == Len(LevelAt(leaves, Len(leaves)))
<1>4. m \in Nat /\ m >= 1 /\ (m + Len(leaves) <= Len(leaves) \/ m = 1)
  BY <1>1, <1>3, LevelLen
<1>5. m = 1
  BY <1>1, <1>4
<1> QED BY <1>1, <1>3, <1>5 DEF compute_payouts_merkle_root

-----------------------------------------------------------------------------
\* The walk.

\* A function on 0..n of the first steps.
Walked(leaf, index, nodes, n, g) ==
  /\ g[0] = [node |-> leaf, index |-> index]
  /\ \A k \in 1..n : g[k] = Ascend(g[k - 1], nodes[k])

\* Two such functions agree as far as both go.
LEMMA WalksAgree ==
  ASSUME NEW leaf, NEW index, NEW nodes, NEW n \in Nat, NEW m \in Nat, NEW f, NEW g,
         Walked(leaf, index, nodes, n, f), Walked(leaf, index, nodes, m, g)
  PROVE  \A k \in Nat : k <= n /\ k <= m => f[k] = g[k]
<1> DEFINE S == {k \in Nat : k <= n /\ k <= m => f[k] = g[k]}
<1>1. 0 \in S
  BY DEF Walked
<1>2. ASSUME NEW k \in Nat, k \in S
      PROVE  k + 1 \in S
  <2>1. SUFFICES ASSUME k + 1 <= n, k + 1 <= m PROVE f[k + 1] = g[k + 1]
    OBVIOUS
  <2>2. f[k] = g[k]
    BY <1>2, <2>1
  <2>3. k + 1 \in 1..n /\ k + 1 \in 1..m /\ (k + 1) - 1 = k
    BY <2>1
  <2>4. f[k + 1] = Ascend(f[k], nodes[k + 1]) /\ g[k + 1] = Ascend(g[k], nodes[k + 1])
    BY <2>3 DEF Walked
  <2> QED BY <2>2, <2>4
<1>3. Nat \subseteq S
  <2> HIDE DEF S
  <2> QED BY <1>1, <1>2, Induction
<1> QED BY <1>3

\* There is one of every length.
LEMMA WalksExist ==
  ASSUME NEW leaf, NEW index, NEW nodes, NEW n \in Nat
  PROVE  \E g : Walked(leaf, index, nodes, n, g)
<1> DEFINE start == [node |-> leaf, index |-> index]
           S == {k \in Nat : \E g : Walked(leaf, index, nodes, k, g)}
<1>1. 0 \in S
  <2>1. Walked(leaf, index, nodes, 0, [k \in {0} |-> start])
    BY DEF Walked
  <2> QED BY <2>1
<1>2. ASSUME NEW k \in Nat, k \in S
      PROVE  k + 1 \in S
  <2>1. PICK g : Walked(leaf, index, nodes, k, g)
    BY <1>2
  <2> DEFINE f == [m \in 0..k + 1 |-> IF m <= k THEN g[m] ELSE Ascend(g[k], nodes[k + 1])]
  <2>2. f[0] = start
    BY <2>1 DEF Walked
  <2>3. ASSUME NEW m \in 1..k + 1
        PROVE  f[m] = Ascend(f[m - 1], nodes[m])
    <3>1. CASE m <= k
      <4>1. g[m] = Ascend(g[m - 1], nodes[m]) /\ f[m] = g[m] /\ f[m - 1] = g[m - 1]
        BY <2>1, <3>1 DEF Walked
      <4> QED BY <4>1
    <3>2. CASE m = k + 1
      <4>1. f[m] = Ascend(g[k], nodes[m]) /\ f[m - 1] = g[k]
        BY <3>2
      <4> QED BY <4>1
    <3> QED BY <3>1, <3>2
  <2>4. Walked(leaf, index, nodes, k + 1, f)
    <3> HIDE DEF f
    <3> QED BY <2>2, <2>3 DEF Walked
  <2> QED BY <2>4
<1>3. Nat \subseteq S
  <2> HIDE DEF S
  <2> QED BY <1>1, <1>2, Induction
<1> QED BY <1>3

\* A walk from a leaf.
IsWalk(leaf, index, nodes, at) ==
  /\ at[0] = [node |-> leaf, index |-> index]
  /\ \A k \in Nat : at[k + 1] = Ascend(at[k], nodes[k + 1])

\* The program's loop is such a walk, and ends with the last of the nodes.
LEMMA WalkIs ==
  ASSUME NEW leaf, NEW index, NEW nodes, Len(nodes) \in Nat
  PROVE  \E at : /\ IsWalk(leaf, index, nodes, at)
                 /\ compute_merkle_root_from_proof(leaf, index, nodes) = at[Len(nodes)].node
<1> DEFINE start == [node |-> leaf, index |-> index]
           G(n) == CHOOSE g : Walked(leaf, index, nodes, n, g)
           f == [n \in Nat |-> G(n)[n]]
           Solves(g) == g = [k \in Nat |-> IF k = 0 THEN start
                                           ELSE Ascend(g[k - 1], nodes[k])]
<1>1. \A n \in Nat : Walked(leaf, index, nodes, n, G(n))
  BY WalksExist
<1> HIDE DEF G
<1>2. f[0] = start
  BY <1>1 DEF Walked
<1>3. ASSUME NEW k \in Nat, k # 0
      PROVE  f[k] = Ascend(f[k - 1], nodes[k])
  <2>1. k - 1 \in Nat /\ k \in 1..k /\ k - 1 <= k
    BY <1>3
  <2>2. G(k)[k] = Ascend(G(k)[k - 1], nodes[k])
    BY <1>1, <2>1 DEF Walked
  <2>3. G(k - 1)[k - 1] = G(k)[k - 1]
    BY <1>1, <2>1, WalksAgree
  <2> QED BY <2>1, <2>2, <2>3
<1>4. f = [k \in Nat |-> f[k]]
  OBVIOUS
<1> HIDE DEF f
<1>5. Solves(f)
  BY <1>2, <1>3, <1>4
<1> DEFINE at == CHOOSE g : Solves(g)
<1>6. Solves(at)
  <2> HIDE DEF Solves
  <2> QED BY <1>5
<1>7. compute_merkle_root_from_proof(leaf, index, nodes) = at[Len(nodes)].node
  BY DEF compute_merkle_root_from_proof
<1> HIDE DEF at
<1>8. at[0] = start
  BY <1>6
<1>9. ASSUME NEW k \in Nat
      PROVE  at[k + 1] = Ascend(at[k], nodes[k + 1])
  <2>1. k + 1 \in Nat /\ k + 1 # 0 /\ (k + 1) - 1 = k
    OBVIOUS
  <2> QED BY <1>6, <2>1
<1>10. IsWalk(leaf, index, nodes, at)
  BY <1>8, <1>9 DEF IsWalk
<1> QED BY <1>7, <1>10

\* The hash of a pair is no leaf's, and tells the two.
LEMMA PairsDiffer ==
  ASSUME NEW a, NEW b
  PROVE  /\ \A x : hash_merkle_pair(a, b) # [leaf |-> x]
         /\ \A c, d : hash_merkle_pair(a, b) = hash_merkle_pair(c, d) => a = c /\ b = d
BY DEF hash_merkle_pair

\* Wherever in the tree a walk arrives, it started from one of the leaves.
LEMMA WalkStartsAtLeaf ==
  ASSUME NEW leaves, IsSequence(leaves), Len(leaves) >= 1,
         NEW x, \A i \in 1..Len(leaves) : leaves[i] = [leaf |-> x[i]],
         NEW y, NEW index, NEW nodes, NEW at, IsWalk([leaf |-> y], index, nodes, at),
         NEW rounds \in Nat, NEW d \in Nat, NEW j \in 1..Len(LevelAt(leaves, rounds)),
         at[d].node = LevelAt(leaves, rounds)[j]
  PROVE  \E i \in 1..Len(leaves) : leaves[i] = [leaf |-> y]
<1> DEFINE L(k) == LevelAt(leaves, k)
           Found == \E i \in 1..Len(leaves) : leaves[i] = [leaf |-> y]
           Arrives(k) == \E e \in Nat : \E i \in 1..Len(L(k)) : at[e].node = L(k)[i]
           S == {k \in Nat : Arrives(k) => Found}
<1>1. at[0].node = [leaf |-> y]
  BY DEF IsWalk
<1>2. ASSUME NEW e \in Nat
      PROVE  \E a, b : /\ at[e + 1].node = hash_merkle_pair(a, b)
                       /\ a = at[e].node \/ b = at[e].node
  <2>1. at[e + 1] = Ascend(at[e], nodes[e + 1])
    BY DEF IsWalk
  <2>2. CASE at[e].index % 2 = 0
    <3>1. at[e + 1].node = hash_merkle_pair(at[e].node, nodes[e + 1])
      BY <2>1, <2>2 DEF Ascend
    <3> QED BY <3>1
  <2>3. CASE at[e].index % 2 # 0
    <3>1. at[e + 1].node = hash_merkle_pair(nodes[e + 1], at[e].node)
      BY <2>1, <2>3 DEF Ascend
    <3> QED BY <3>1
  <2> QED BY <2>2, <2>3
<1>3. 0 \in S
  <2>1. L(0) = leaves
    BY LevelSteps
  <2>2. SUFFICES ASSUME NEW e \in Nat, NEW i \in 1..Len(leaves), at[e].node = leaves[i]
                 PROVE  Found
    BY <2>1
  <2>3. CASE e = 0
    BY <1>1, <2>2, <2>3
  <2>4. CASE e # 0
    <3>1. e - 1 \in Nat /\ (e - 1) + 1 = e
      BY <2>4
    <3>2. \E a, b : at[e].node = hash_merkle_pair(a, b)
      BY <1>2, <3>1
    <3>3. at[e].node = [leaf |-> x[i]]
      BY <2>2
    <3>4. PICK a, b : at[e].node = hash_merkle_pair(a, b)
      BY <3>2
    <3> QED BY <3>3, <3>4, PairsDiffer
  <2> QED BY <2>3, <2>4
<1>4. ASSUME NEW k \in Nat, k \in S
      PROVE  k + 1 \in S
  <2>1. L(k + 1) = NextLevel(L(k)) /\ IsSequence(L(k)) /\ Len(L(k)) \in Nat /\ Len(L(k)) >= 1
    BY LevelSteps, LevelLen
  <2>2. SUFFICES ASSUME NEW e \in Nat, NEW i \in 1..Len(L(k + 1)), at[e].node = L(k + 1)[i]
                 PROVE  Found
    OBVIOUS
  <2>3. SUFFICES Arrives(k)
    BY <1>4
  <2> DEFINE now == L(k)
  <2> HIDE DEF L
  <2>4. CASE Len(now) = 1
    <3>1. L(k + 1) = now
      BY <2>1, <2>4, NextLevelIs
    <3> QED BY <2>2, <3>1
  <2>5. CASE Len(now) # 1
    <3> DEFINE a == now[2 * i - 1]
               b == IF 2 * i <= Len(now) THEN now[2 * i] ELSE now[2 * i - 1]
    <3>1. Len(now) > 1
      <4> DEFINE m == Len(now)
      <4>1. m \in Nat /\ m >= 1 /\ m # 1
        BY <2>1, <2>5
      <4> HIDE DEF m
      <4>2. m > 1
        BY <4>1
      <4> QED BY <4>2 DEF m
    <3>2. 2 * i - 1 \in 1..Len(now) /\ L(k + 1)[i] = hash_merkle_pair(a, b)
      BY <2>1, <2>2, <3>1, NextLevelIs
    <3>3. (\E l \in 1..Len(now) : a = now[l]) /\ (\E l \in 1..Len(now) : b = now[l])
      BY <2>1, <3>2
    <3>4. CASE e = 0
      BY <1>1, <2>2, <3>2, <3>4, PairsDiffer
    <3>5. CASE e # 0
      <4>1. e - 1 \in Nat /\ (e - 1) + 1 = e
        BY <3>5
      <4>2. PICK c, f : /\ at[e].node = hash_merkle_pair(c, f)
                        /\ c = at[e - 1].node \/ f = at[e - 1].node
        <5>1. \E c, f : /\ at[(e - 1) + 1].node = hash_merkle_pair(c, f)
                        /\ c = at[e - 1].node \/ f = at[e - 1].node
          BY <1>2, <4>1
        <5> QED BY <4>1, <5>1
      <4> HIDE DEF a, b
      <4>3. c = a /\ f = b
        BY <2>2, <3>2, <4>2, PairsDiffer
      <4>4. at[e - 1].node = a \/ at[e - 1].node = b
        BY <4>2, <4>3
      <4>5. \E l \in 1..Len(now) : at[e - 1].node = now[l]
        BY <3>3, <4>4
      <4> QED BY <4>1, <4>5
    <3> QED BY <3>4, <3>5
  <2> QED BY <2>4, <2>5
<1>5. Nat \subseteq S
  <2> HIDE DEF S
  <2> QED BY <1>3, <1>4, Induction
<1>6. Arrives(rounds) => Found
  BY <1>5
<1> QED BY <1>6

-----------------------------------------------------------------------------
\* Sorting.

\* A strict order on 1..n, as a set of pairs.
OrdersUpTo(n, R) ==
  /\ \A i \in 1..n : <<i, i>> \notin R
  /\ \A i, j \in 1..n : i # j => <<i, j>> \in R \/ <<j, i>> \in R
  /\ \A i, j, k \in 1..n : <<i, j>> \in R /\ <<j, k>> \in R => <<i, k>> \in R

\* In a strict order every place is somebody's: k - 1 come before him.
LEMMA EveryRank ==
  ASSUME NEW n \in Nat, NEW R, OrdersUpTo(n, R), NEW k \in 1..n
  PROVE  \E i \in 1..n : Cardinality({m \in 1..n : <<m, i>> \in R}) = k - 1
<1> DEFINE Pre(i) == {m \in 1..n : <<m, i>> \in R}
           rank == [i \in 1..n |-> Cardinality(Pre(i))]
<1>1. IsFiniteSet(1..n) /\ Cardinality(1..n) = n
  BY FS_Interval
<1>2. IsFiniteSet(0..n - 1) /\ Cardinality(0..n - 1) = n
  BY FS_Interval
<1>3. ASSUME NEW i \in 1..n
      PROVE  Pre(i) \in SUBSET (1..n) /\ IsFiniteSet(Pre(i)) /\ i \notin Pre(i)
  <2>1. Pre(i) \in SUBSET (1..n) /\ i \notin Pre(i)
    BY DEF OrdersUpTo
  <2> QED BY <1>1, <2>1, FS_Subset
<1>4. ASSUME NEW i \in 1..n
      PROVE  Cardinality(Pre(i)) \in 0..n - 1
  <2> DEFINE T == (1..n) \ {i}
  <2>1. IsFiniteSet(T) /\ Cardinality(T) = n - 1
    BY <1>1, FS_RemoveElement
  <2>2. Pre(i) \in SUBSET T
    BY <1>3
  <2> HIDE DEF T, Pre
  <2>3. Cardinality(Pre(i)) <= n - 1
    BY <2>1, <2>2, FS_Subset
  <2>4. Cardinality(Pre(i)) \in Nat
    BY <1>3, FS_CardinalityType
  <2> QED BY <2>3, <2>4
<1>5. ASSUME NEW i \in 1..n, NEW j \in 1..n, i # j, <<i, j>> \in R
      PROVE  Cardinality(Pre(i)) < Cardinality(Pre(j))
  <2>1. Pre(i) \in SUBSET Pre(j) /\ i \in Pre(j) /\ i \notin Pre(i)
    BY <1>5 DEF OrdersUpTo
  <2> HIDE DEF Pre
  <2>2. Pre(i) # Pre(j)
    BY <2>1
  <2>3. Cardinality(Pre(i)) <= Cardinality(Pre(j)) /\ Cardinality(Pre(i)) # Cardinality(Pre(j))
    BY <1>3, <2>1, <2>2, FS_Subset
  <2>4. Cardinality(Pre(i)) \in Nat /\ Cardinality(Pre(j)) \in Nat
    BY <1>3, FS_CardinalityType
  <2> QED BY <2>3, <2>4
<1>6. rank \in Injection(1..n, 0..n - 1)
  <2>1. rank \in [1..n -> 0..n - 1]
    BY <1>4
  <2>2. ASSUME NEW i \in 1..n, NEW j \in 1..n, i # j
        PROVE  rank[i] # rank[j]
    <3>1. <<i, j>> \in R \/ <<j, i>> \in R
      BY <2>2 DEF OrdersUpTo
    <3>2. Cardinality(Pre(i)) \in Nat /\ Cardinality(Pre(j)) \in Nat
      BY <1>3, FS_CardinalityType
    <3> HIDE DEF Pre
    <3>3. Cardinality(Pre(i)) # Cardinality(Pre(j))
      BY <1>5, <2>2, <3>1, <3>2
    <3> QED BY <3>3
  <2> HIDE DEF rank
  <2> QED BY <2>1, <2>2 DEF Injection, IsInjective
<1>7. rank \in Surjection(1..n, 0..n - 1)
  <2> HIDE DEF rank
  <2> QED BY <1>1, <1>2, <1>6, FS_Injection
<1>8. k - 1 \in 0..n - 1
  OBVIOUS
<1>9. \E i \in 1..n : rank[i] = k - 1
  <2> HIDE DEF rank
  <2> QED BY <1>7, <1>8 DEF Surjection
<1> QED BY <1>9

\* Sorting trades by trader and id gives the same number of trades.
LEMMA SortedTrades ==
  ASSUME NEW seq \in Seq(TradeRecord)
  PROVE  /\ Sorted(seq, TradeOrder) \in Seq(TradeRecord)
         /\ Len(Sorted(seq, TradeOrder)) = Len(seq)
<1> DEFINE n == Len(seq)
           Before(m, i) == \/ TradeOrder(seq[m], seq[i])
                           \/ m < i /\ ~TradeOrder(seq[i], seq[m])
           R == {p \in (1..n) \X (1..n) : Before(p[1], p[2])}
           At(k) == CHOOSE i \in 1..n : Cardinality({m \in 1..n : Before(m, i)}) = k - 1
<1>1. n \in Nat /\ DOMAIN seq = 1..n /\ \A i \in 1..n : seq[i] \in TradeRecord
  OBVIOUS
<1>2. \A i, j \in 1..n : <<i, j>> \in R <=> Before(i, j)
  OBVIOUS
<1>3. OrdersUpTo(n, R)
  <2>1. \A i \in 1..n : seq[i].trader \in Nat /\ seq[i].trade_id \in Nat
    BY <1>1 DEF TradeRecord
  <2>2. \A i \in 1..n : ~Before(i, i)
    BY <1>1, <2>1 DEF TradeOrder
  <2>3. \A i, j \in 1..n : i # j => Before(i, j) \/ Before(j, i)
    BY <1>1, <2>1 DEF TradeOrder
  <2>4. \A i, j, k \in 1..n : Before(i, j) /\ Before(j, k) => Before(i, k)
    BY <1>1, <2>1 DEF TradeOrder
  <2> HIDE DEF R, Before
  <2> QED BY <1>2, <2>2, <2>3, <2>4 DEF OrdersUpTo
<1>4. ASSUME NEW k \in 1..n
      PROVE  At(k) \in 1..n
  <2>1. \A i \in 1..n : {m \in 1..n : <<m, i>> \in R} = {m \in 1..n : Before(m, i)}
    BY <1>2
  <2> HIDE DEF R, Before
  <2>2. PICK i \in 1..n : Cardinality({m \in 1..n : <<m, i>> \in R}) = k - 1
    BY <1>1, <1>3, EveryRank
  <2>3. Cardinality({m \in 1..n : Before(m, i)}) = k - 1
    BY <2>1, <2>2
  <2> QED BY <2>3
<1>5. Sorted(seq, TradeOrder) = [k \in 1..n |-> seq[At(k)]]
  BY <1>1 DEF Sorted, Quantify
<1> HIDE DEF At
<1>6. Sorted(seq, TradeOrder) \in [1..n -> TradeRecord]
  BY <1>1, <1>4, <1>5
<1>7. Sorted(seq, TradeOrder) \in Seq(TradeRecord)
  BY <1>1, <1>6
<1>8. Len(Sorted(seq, TradeOrder)) = n
  <2> DEFINE s == Sorted(seq, TradeOrder)
  <2>1. DOMAIN s = 1..n /\ s = [k \in 1..n |-> s[k]]
    BY <1>6
  <2> HIDE DEF s
  <2>2. Len(s) = n
    BY <1>1, <2>1, LenOf
  <2> QED BY <2>2 DEF s
<1> QED BY <1>7, <1>8

-----------------------------------------------------------------------------
\* The batches.

\* What is loaded is a batch, with as many trades as its file.
LEMMA Loaded ==
  ASSUME NEW file \in Files \cup ClaimedFiles
  PROVE  /\ IsCircuitInputs(load_circuit_inputs(file))
         /\ Len(load_circuit_inputs(file).trades) = Len(file.trades)
<1>1. IsCircuitInputs(file)
  BY FilesParsed
<1> DEFINE trades == Sorted(file.trades, TradeOrder)
<1>2. file.trades \in Seq(TradeRecord)
  BY <1>1 DEF IsCircuitInputs
<1>3. trades \in Seq(TradeRecord) /\ Len(trades) = Len(file.trades)
  BY <1>2, SortedTrades
<1>4. load_circuit_inputs(file) = [file EXCEPT !.trades = trades]
  BY DEF load_circuit_inputs
<1> HIDE DEF trades
<1>5. IsCircuitInputs([file EXCEPT !.trades = trades])
  BY <1>1, <1>3 DEF IsCircuitInputs
<1>6. [file EXCEPT !.trades = trades].trades = trades
  BY <1>1 DEF IsCircuitInputs
<1> QED BY <1>3, <1>4, <1>5, <1>6

\* Every batch of the model is one that the types of the guest's inputs admit.
LEMMA BatchIsInputs == \A in \in Batches \cup ClaimedBatches : IsCircuitInputs(in)
BY Loaded DEF Batches, ClaimedBatches

-----------------------------------------------------------------------------
\* Claims.

\* The leaves of a batch.
LeafOf(in, i) ==
  <<in.batch_id, in.trades[i].trade_id, in.trades[i].trader,
    TradePayout(in.trades[i], in), i - 1>>

\* There is one leaf for each trade, in the order of the trades.
LEMMA LeavesOfBatch ==
  ASSUME NEW in, IsCircuitInputs(in)
  PROVE  LET leaves == payout_leaves(in) IN
         /\ Len(in.trades) \in Nat /\ DOMAIN in.trades = 1..Len(in.trades)
         /\ IsSequence(leaves) /\ Len(leaves) = Len(in.trades)
         /\ \A i \in 1..Len(in.trades) : leaves[i] = [leaf |-> LeafOf(in, i)]
<1> DEFINE n == Len(in.trades)
           leaves == payout_leaves(in)
<1>1. in.trades \in Seq(TradeRecord)
  BY DEF IsCircuitInputs
<1>2. n \in Nat /\ DOMAIN in.trades = 1..n
  BY <1>1
<1>3. leaves = [i \in 1..n |-> [leaf |-> LeafOf(in, i)]]
  BY <1>2 DEF payout_leaves, hash_payout_leaf, LeafOf
<1> HIDE DEF n, leaves
<1>4. DOMAIN leaves = 1..n /\ leaves = [i \in 1..n |-> leaves[i]]
  BY <1>3
<1>5. Len(leaves) = n /\ IsSequence(leaves)
  BY <1>2, <1>4, LenOf DEF IsSequence
<1>6. \A i \in 1..n : leaves[i] = [leaf |-> LeafOf(in, i)]
  BY <1>3
<1> QED BY <1>2, <1>5, <1>6 DEF n, leaves

\* Nodes presented with a claim are a sequence.
LEMMA ProofNodes ==
  ASSUME NEW S, NEW n \in Nat, NEW nodes \in SeqOf(S, n)
  PROVE  Len(nodes) \in Nat
<1>1. PICK m \in 0..n : nodes \in [1..m -> S]
  BY DEF SeqOf
<1>2. m \in Nat /\ DOMAIN nodes = 1..m /\ nodes = [i \in 1..m |-> nodes[i]]
  BY <1>1
<1> QED BY <1>2, LenOf

\* Whatever is presented with it, a claim that is accepted is one of the leaves:
\* the walk cannot start inside the tree nor end beside it.
THEOREM ClaimsAreLeavesCorrect == Spec => []ClaimsAreLeaves
<1>1. ClaimsAreLeaves
  <2> DEFINE leaves == payout_leaves(base)
             n == Len(base.trades)
  <2>1. SUFFICES ASSUME Claimable,
                        NEW i \in DOMAIN base.trades, NEW index \in 0..2^ProofLength - 1,
                        NEW payout \in {0, GrossPayout(base.trades[i])},
                        NEW nodes \in SeqOf(NodesAbove(leaves), ProofLength),
                        ClaimedRoot(i, payout, index, nodes) = Root
                 PROVE  index = i - 1 /\ payout = TradePayout(base.trades[i], base)
    BY DEF ClaimsAreLeaves
  <2>2. IsCircuitInputs(base) /\ HostAccepts(base)
    BY <2>1, BatchIsInputs DEF Claimable
  <2>3. /\ n \in Nat /\ DOMAIN base.trades = 1..n
        /\ IsSequence(leaves) /\ Len(leaves) = n
        /\ \A j \in 1..n : leaves[j] = [leaf |-> LeafOf(base, j)]
    BY <2>2, LeavesOfBatch
  <2> DEFINE y == <<base.batch_id, base.trades[i].trade_id, base.trades[i].trader, payout, index>>
             x == [j \in 1..n |-> LeafOf(base, j)]
  <2>4. ClaimedRoot(i, payout, index, nodes)
          = compute_merkle_root_from_proof([leaf |-> y], index, nodes)
    BY DEF ClaimedRoot, hash_payout_leaf
  <2>5. Len(nodes) \in Nat
    BY ClaimsWithinLength, ProofNodes
  <2>6. \A j \in 1..n : leaves[j] = [leaf |-> x[j]]
    BY <2>3
  <2>7. Root = compute_payouts_merkle_root(leaves)
    BY DEF Root
  <2> HIDE DEF leaves, n, y, x
  <2>8. PICK at : /\ IsWalk([leaf |-> y], index, nodes, at)
                  /\ compute_merkle_root_from_proof([leaf |-> y], index, nodes)
                       = at[Len(nodes)].node
    BY <2>5, WalkIs
  <2>9. leaves # <<>>
    <3>1. n >= 1
      BY <2>1, <2>3
    <3> QED BY <2>3, <3>1
  <2>10. /\ n >= 1
         /\ Len(LevelAt(leaves, n)) = 1
         /\ compute_payouts_merkle_root(leaves) = LevelAt(leaves, n)[1]
    BY <2>3, <2>9, RootIs
  <2>11. at[Len(nodes)].node = LevelAt(leaves, n)[1]
    BY <2>1, <2>4, <2>7, <2>8, <2>10
  <2>12. \E j \in 1..Len(leaves) : leaves[j] = [leaf |-> y]
    <3>1. 1 \in 1..Len(LevelAt(leaves, n)) /\ Len(leaves) >= 1
      BY <2>3, <2>10
    <3>2. \A j \in 1..Len(leaves) : leaves[j] = [leaf |-> x[j]]
      BY <2>3, <2>6
    <3> QED BY <2>3, <2>5, <2>8, <2>11, <3>1, <3>2, WalkStartsAtLeaf
  <2>13. PICK j \in 1..n : LeafOf(base, j) = y
    <3>1. PICK j \in 1..n : leaves[j] = [leaf |-> y]
      BY <2>3, <2>12
    <3>2. [leaf |-> LeafOf(base, j)] = [leaf |-> y]
      BY <2>3, <3>1
    <3>3. [leaf |-> LeafOf(base, j)].leaf = [leaf |-> y].leaf
      BY <3>2, Zenon
    <3> QED BY <3>3
  <2>14. /\ base.trades[j].trade_id = base.trades[i].trade_id
         /\ TradePayout(base.trades[j], base) = payout
         /\ j - 1 = index
    BY <2>13 DEF LeafOf, y
  <2>15. i = j
    <3>1. i \in 1..n
      BY <2>3
    <3>2. \A k, l \in 1..n : k < l => base.trades[k].trade_id # base.trades[l].trade_id
      BY <2>2, <2>3 DEF HostAccepts
    <3> QED BY <2>3, <2>14, <3>1, <3>2
  <2> QED BY <2>14, <2>15
<1> QED BY <1>1, PTL

\* How long the levels are depends on the number of leaves only.
LEMMA SameShape ==
  ASSUME NEW s, IsSequence(s), Len(s) >= 1, NEW t, IsSequence(t), Len(t) = Len(s)
  PROVE  \A k \in Nat : Len(LevelAt(s, k)) = Len(LevelAt(t, k))
<1> DEFINE S == {k \in Nat : Len(LevelAt(s, k)) = Len(LevelAt(t, k))}
<1>1. 0 \in S
  BY LevelSteps
<1>2. ASSUME NEW k \in Nat, k \in S
      PROVE  k + 1 \in S
  <2> DEFINE a == LevelAt(s, k)
             b == LevelAt(t, k)
  <2>1. LevelAt(s, k + 1) = NextLevel(a) /\ LevelAt(t, k + 1) = NextLevel(b)
    BY LevelSteps
  <2>2. IsSequence(a) /\ Len(a) \in Nat /\ Len(a) >= 1 /\ IsSequence(b) /\ Len(b) = Len(a)
    <3>1. Len(t) >= 1
      OBVIOUS
    <3> QED BY <1>2, <3>1, LevelLen
  <2> HIDE DEF a, b
  <2>3. Len(NextLevel(a)) = Len(NextLevel(b))
    <3>1. CASE Len(a) = 1
      BY <2>2, <3>1, NextLevelIs
    <3>2. CASE Len(a) > 1
      BY <2>2, <3>2, NextLevelIs
    <3> QED BY <2>2, <3>1, <3>2
  <2> QED BY <2>1, <2>3
<1>3. Nat \subseteq S
  <2> HIDE DEF S
  <2> QED BY <1>1, <1>2, Induction
<1> QED BY <1>3

\* The round that leaves one node, and that every later one changes nothing.
LEMMA Height ==
  ASSUME NEW leaves, IsSequence(leaves), Len(leaves) >= 1,
         NEW most \in Nat, Len(LevelAt(leaves, most)) = 1
  PROVE  \E h \in 0..most : /\ Len(LevelAt(leaves, h)) = 1
                            /\ \A k \in 0..h - 1 : Len(LevelAt(leaves, k)) > 1
                            /\ h <= Len(leaves)
                            /\ LevelAt(leaves, Len(leaves)) = LevelAt(leaves, h)
<1> DEFINE L(k) == LevelAt(leaves, k)
           n == Len(leaves)
           S == {k \in Nat : Len(L(k)) = 1}
<1>1. \A k \in Nat : IsSequence(L(k)) /\ Len(L(k)) \in Nat /\ Len(L(k)) >= 1
  BY LevelLen
<1>2. \A k \in Nat : L(k + 1) = NextLevel(L(k))
  BY LevelSteps
<1>3. n \in Nat /\ Len(L(n)) = 1
  <2>1. n \in Nat /\ n >= 1
    BY SequenceLen
  <2>2. leaves # <<>>
    BY <2>1
  <2> QED BY <2>1, <2>2, RootIs
<1> HIDE DEF L, n
<1>4. most \in S
  BY DEF L
<1>5. PICK h \in S : \A k \in S : h <= k
  <2>1. S \in SUBSET Nat /\ S # {}
    BY <1>4
  <2> HIDE DEF S
  <2> QED BY <2>1, Least
<1>6. h \in 0..most /\ h <= n /\ Len(L(h)) = 1
  BY <1>3, <1>4, <1>5
<1>7. ASSUME NEW k \in 0..h - 1
      PROVE  Len(L(k)) > 1
  <2> DEFINE m == Len(L(k))
  <2>1. k \in Nat /\ k \notin S
    BY <1>5, <1>6, <1>7
  <2>2. m \in Nat /\ m >= 1 /\ m # 1
    BY <1>1, <2>1
  <2> HIDE DEF m
  <2>3. m > 1
    BY <2>2
  <2> QED BY <2>3 DEF m
<1>8. L(n) = L(h)
  <2> DEFINE T == {d \in Nat : L(h + d) = L(h)}
  <2>1. 0 \in T
    <3>1. h + 0 = h
      BY <1>5
    <3> QED BY <3>1
  <2>2. ASSUME NEW d \in Nat, d \in T
        PROVE  d + 1 \in T
    <3>1. h + d \in Nat /\ h + (d + 1) = (h + d) + 1
      BY <1>5
    <3>2. L(h + (d + 1)) = NextLevel(L(h))
      BY <1>2, <2>2, <3>1
    <3>3. NextLevel(L(h)) = L(h)
      BY <1>1, <1>5, <1>6, NextLevelIs
    <3> QED BY <3>2, <3>3
  <2>3. Nat \subseteq T
    <3> HIDE DEF T
    <3> QED BY <2>1, <2>2, Induction
  <2>4. n - h \in Nat /\ h + (n - h) = n
    BY <1>3, <1>5, <1>6
  <2> QED BY <2>3, <2>4
<1> QED BY <1>6, <1>7, <1>8 DEF L, n

\* The node the walk needs next to the one at a place, from 0, of a level.
SiblingOf(level, place) ==
  IF place % 2 = 0
  THEN IF place + 2 <= Len(level) THEN level[place + 2] ELSE level[place + 1]
  ELSE level[place]

\* With it the walk gets to the level above, at half the place.
LEMMA OneUp ==
  ASSUME NEW level, IsSequence(level), Len(level) \in Nat, Len(level) > 1,
         NEW place \in Nat, place <= Len(level) - 1,
         NEW at, at = [node |-> level[place + 1], index |-> place]
  PROVE  /\ place \div 2 \in Nat
         /\ place \div 2 <= Len(NextLevel(level)) - 1
         /\ Ascend(at, SiblingOf(level, place))
              = [node |-> NextLevel(level)[place \div 2 + 1], index |-> place \div 2]
<1> DEFINE k == place \div 2 + 1
           up == NextLevel(level)
           n == Len(level)
<1>1. Len(up) = (n + 1) \div 2
  BY NextLevelIs
<1>2. k \in 1..Len(up) /\ place \div 2 \in Nat /\ place \div 2 <= Len(up) - 1
  BY <1>1
<1>3. up[k] = hash_merkle_pair(level[2 * k - 1],
                               IF 2 * k <= n THEN level[2 * k] ELSE level[2 * k - 1])
  <2>1. \A j \in 1..Len(up) :
          up[j] = hash_merkle_pair(level[2 * j - 1],
                                   IF 2 * j <= n THEN level[2 * j] ELSE level[2 * j - 1])
    BY NextLevelIs
  <2> HIDE DEF up, k, n
  <2> QED BY <1>2, <2>1
<1>4. at.node = level[place + 1] /\ at.index = place
  OBVIOUS
<1> HIDE DEF up
<1>5. CASE place % 2 = 0
  <2>1. 2 * k - 1 = place + 1 /\ 2 * k = place + 2
    BY <1>5
  <2>2. up[k] = hash_merkle_pair(level[place + 1], SiblingOf(level, place))
    <3>1. SiblingOf(level, place) = IF 2 * k <= n THEN level[2 * k] ELSE level[2 * k - 1]
      BY <1>5, <2>1 DEF SiblingOf
    <3> QED BY <1>3, <2>1, <3>1
  <2>3. Ascend(at, SiblingOf(level, place))
          = [node |-> hash_merkle_pair(level[place + 1], SiblingOf(level, place)),
             index |-> place \div 2]
    BY <1>4, <1>5 DEF Ascend
  <2> QED BY <1>2, <2>2, <2>3 DEF up
<1>6. CASE place % 2 # 0
  <2>1. 2 * k - 1 = place /\ 2 * k = place + 1 /\ 2 * k <= n
    BY <1>6
  <2>2. up[k] = hash_merkle_pair(level[place], level[place + 1])
    BY <1>3, <2>1
  <2>3. Ascend(at, SiblingOf(level, place))
          = [node |-> hash_merkle_pair(level[place], level[place + 1]), index |-> place \div 2]
    BY <1>4, <1>6 DEF Ascend, SiblingOf
  <2> QED BY <1>2, <2>2, <2>3 DEF up
<1> QED BY <1>5, <1>6

\* It is a node of the level.
LEMMA SiblingInLevel ==
  ASSUME NEW level, NEW m \in Nat, m = Len(level), DOMAIN level = 1..m,
         NEW place \in Nat, place <= m - 1
  PROVE  SiblingOf(level, place) \in ToSet(level)
<1>1. \A k \in 1..m : level[k] \in ToSet(level)
  BY DEF ToSet
<1>2. place + 1 \in 1..m /\ (place + 2 <= m => place + 2 \in 1..m)
  OBVIOUS
<1>3. place % 2 # 0 => place \in 1..m
  OBVIOUS
<1> QED BY <1>1, <1>2, <1>3 DEF SiblingOf

\* Every leaf has the proof made of its siblings on the way up, which is as long
\* as the tree is high.
LEMMA LeafHasProof ==
  ASSUME NEW leaves, IsSequence(leaves), Len(leaves) >= 1,
         NEW most \in Nat, Len(LevelAt(leaves, most)) = 1,
         NEW i \in 1..Len(leaves)
  PROVE  \E nodes \in SeqOf(NodesAbove(leaves), most) :
           compute_merkle_root_from_proof(leaves[i], i - 1, nodes)
             = compute_payouts_merkle_root(leaves)
<1> DEFINE L(k) == LevelAt(leaves, k)
           n == Len(leaves)
<1>1. PICK h \in 0..most : /\ Len(L(h)) = 1
                           /\ \A k \in 0..h - 1 : Len(L(k)) > 1
                           /\ h <= n
                           /\ L(n) = L(h)
  BY Height
<1>2. /\ h \in Nat /\ n \in Nat /\ i - 1 \in Nat /\ i - 1 <= n - 1
      /\ \A k \in Nat : IsSequence(L(k)) /\ Len(L(k)) \in Nat /\ Len(L(k)) >= 1
  <2>1. n \in Nat
    BY SequenceLen
  <2>2. h \in Nat
    BY <1>1
  <2>3. i - 1 \in Nat /\ i - 1 <= n - 1
    <3> HIDE DEF n
    <3>1. i \in 1..n
      BY DEF n
    <3> QED BY <2>1, <3>1
  <2>4. \A k \in Nat : IsSequence(L(k)) /\ Len(L(k)) \in Nat /\ Len(L(k)) >= 1
    BY LevelLen
  <2> HIDE DEF L, n
  <2> QED BY <2>1, <2>2, <2>3, <2>4
<1>3. L(0) = leaves /\ \A k \in Nat : L(k + 1) = NextLevel(L(k))
  BY LevelSteps
<1> DEFINE v == i - 1
           halve == [k \in Nat |-> [x \in Nat |-> x \div 2]]
<1>4. PICK place \in [Nat -> Nat] : Recurs(v, halve, place)
  <2> DEFINE V == Nat
  <2>1. v \in V /\ \A k \in Nat : halve[k] \in [V -> V]
    BY <1>2
  <2> HIDE DEF v, V, halve
  <2>2. \E place \in [Nat -> V] : Recurs(v, halve, place)
    BY <2>1, Recursion
  <2> QED BY <2>2 DEF V
<1>5. place[0] = i - 1 /\ \A k \in Nat : place[k + 1] = place[k] \div 2
  <2> HIDE DEF halve
  <2>1. place[0] = v /\ \A k \in Nat \ {0} : place[k] = halve[k][place[k - 1]]
    BY <1>4 DEF Recurs
  <2>2. ASSUME NEW k \in Nat
        PROVE  place[k + 1] = place[k] \div 2
    <3>1. k + 1 \in Nat \ {0} /\ (k + 1) - 1 = k /\ place[k] \in Nat
      <4>1. \A j \in Nat : j + 1 \in Nat \ {0} /\ (j + 1) - 1 = j
        OBVIOUS
      <4>2. place[k] \in Nat
        OBVIOUS
      <4> QED BY <4>1, <4>2
    <3>2. place[k + 1] = halve[k + 1][place[(k + 1) - 1]]
      BY <2>1, <3>1
    <3>3. \A j \in Nat, x \in Nat : halve[j][x] = x \div 2
      BY DEF halve
    <3>4. halve[k + 1][place[k]] = place[k] \div 2
      BY <3>1, <3>3
    <3> QED BY <3>1, <3>2, <3>4
  <2> QED BY <2>1, <2>2
<1> DEFINE nodes == [k \in 1..h |-> SiblingOf(L(k - 1), place[k - 1])]
<1>6. DOMAIN nodes = 1..h /\ nodes = [k \in 1..h |-> nodes[k]] /\ Len(nodes) = h
  BY <1>2, LenOf
<1>7. PICK at : /\ IsWalk(leaves[i], i - 1, nodes, at)
                /\ compute_merkle_root_from_proof(leaves[i], i - 1, nodes) = at[h].node
  <2> HIDE DEF nodes
  <2>1. Len(nodes) \in Nat
    BY <1>2, <1>6
  <2>2. \E at : /\ IsWalk(leaves[i], i - 1, nodes, at)
                /\ compute_merkle_root_from_proof(leaves[i], i - 1, nodes) = at[Len(nodes)].node
    <3> DEFINE leaf == leaves[i]
               index == i - 1
    <3> HIDE DEF leaf, index
    <3>1. \E at : /\ IsWalk(leaf, index, nodes, at)
                  /\ compute_merkle_root_from_proof(leaf, index, nodes) = at[Len(nodes)].node
      BY <2>1, WalkIs
    <3> QED BY <3>1 DEF leaf, index
  <2> QED BY <1>6, <2>2
<1> HIDE DEF L, n, v, halve
<1> DEFINE Ok(k) == /\ place[k] \in Nat
                    /\ place[k] <= Len(L(k)) - 1
                    /\ at[k] = [node |-> L(k)[place[k] + 1], index |-> place[k]]
           S == {k \in Nat : k <= h => Ok(k)}
<1>8. 0 \in S
  <2>1. place[0] \in Nat /\ place[0] <= Len(L(0)) - 1
    BY <1>2, <1>3, <1>5 DEF n
  <2>2. at[0] = [node |-> leaves[i], index |-> i - 1]
    BY <1>7 DEF IsWalk
  <2>3. (i - 1) + 1 = i
    BY <1>2
  <2> QED BY <1>3, <1>5, <2>1, <2>2, <2>3
<1>9. ASSUME NEW k \in Nat, k \in S
      PROVE  k + 1 \in S
  <2>1. SUFFICES ASSUME k + 1 <= h PROVE Ok(k + 1)
    <3> HIDE DEF Ok
    <3>1. k + 1 \in Nat
      OBVIOUS
    <3> QED BY <3>1
  <2>2. k \in 0..h - 1 /\ k + 1 \in 1..h /\ (k + 1) - 1 = k
    BY <1>2, <2>1
  <2>3. Ok(k)
    BY <1>2, <1>9, <2>2
  <2>4. nodes[k + 1] = SiblingOf(L(k), place[k])
    BY <2>2
  <2>5. at[k + 1] = Ascend(at[k], nodes[k + 1])
    BY <1>7 DEF IsWalk
  <2>6. IsSequence(L(k)) /\ Len(L(k)) \in Nat /\ Len(L(k)) > 1
    BY <1>1, <1>2, <2>2
  <2> DEFINE level == L(k)
             p == place[k]
  <2>7. L(k + 1) = NextLevel(level) /\ place[k + 1] = p \div 2
    BY <1>3, <1>5
  <2>8. /\ p \in Nat /\ p <= Len(level) - 1
        /\ at[k] = [node |-> level[p + 1], index |-> p]
        /\ at[k + 1] = Ascend(at[k], SiblingOf(level, p))
    BY <2>3, <2>4, <2>5
  <2> HIDE DEF level, p, nodes
  <2>9. /\ p \div 2 \in Nat
        /\ p \div 2 <= Len(NextLevel(level)) - 1
        /\ Ascend(at[k], SiblingOf(level, p))
             = [node |-> NextLevel(level)[p \div 2 + 1], index |-> p \div 2]
    BY <2>6, <2>8, OneUp DEF level
  <2> QED BY <2>7, <2>8, <2>9
<1>10. Ok(h)
  <2>1. Nat \subseteq S
    <3> HIDE DEF S
    <3> QED BY <1>8, <1>9, Induction
  <2> HIDE DEF Ok
  <2>2. h \in S /\ h <= h
    BY <1>2, <2>1
  <2> QED BY <2>2
<1>11. at[h].node = L(h)[1]
  <2>1. place[h] = 0
    BY <1>1, <1>10 DEF L
  <2> QED BY <1>10, <2>1
<1>12. compute_payouts_merkle_root(leaves) = L(h)[1]
  <2>1. leaves # <<>>
    BY <1>2 DEF n
  <2> QED BY <1>1, <2>1, RootIs DEF L, n
<1>13. nodes \in SeqOf(NodesAbove(leaves), most)
  <2>1. ASSUME NEW k \in 1..h
        PROVE  nodes[k] \in NodesAbove(leaves)
    <3> DEFINE level == L(k - 1)
               p == place[k - 1]
               m == Len(level)
    <3>1. k - 1 \in Nat /\ k - 1 <= h /\ k - 1 \in 0..h - 1 /\ k - 1 \in 0..n
      BY <1>1, <1>2 DEF n
    <3>2. Ok(k - 1)
      <4>1. Nat \subseteq S
        <5> HIDE DEF S
        <5> QED BY <1>8, <1>9, Induction
      <4> QED BY <3>1, <4>1
    <3>3. IsSequence(level) /\ m \in Nat /\ p \in Nat /\ p <= m - 1 /\ DOMAIN level = 1..m
      BY <1>2, <3>1, <3>2, SequenceLen
    <3>4. nodes[k] = SiblingOf(level, p)
      OBVIOUS
    <3>5. ToSet(level) \in {ToSet(L(q)) : q \in 0..n}
      BY <3>1
    <3> HIDE DEF level, p, nodes
    <3>6. SiblingOf(level, p) \in ToSet(level)
      <4> HIDE DEF m
      <4>1. m = Len(level)
        BY DEF m
      <4> QED BY <3>3, <4>1, SiblingInLevel
    <3> QED BY <3>4, <3>5, <3>6 DEF NodesAbove, L, n
  <2>2. nodes \in [1..h -> NodesAbove(leaves)]
    <3> HIDE DEF nodes
    <3> QED BY <1>6, <2>1
  <2> HIDE DEF nodes
  <2> QED BY <2>2 DEF SeqOf
<1> HIDE DEF nodes
<1> QED BY <1>7, <1>11, <1>12, <1>13

\* No payout is stuck: every trade has a proof that the walk accepts.
THEOREM LeavesClaimableCorrect == Spec => []LeavesClaimable
<1>1. LeavesClaimable
  <2> DEFINE leaves == payout_leaves(base)
             n == Len(base.trades)
  <2>1. SUFFICES ASSUME Claimable, NEW i \in DOMAIN base.trades
                 PROVE  \E nodes \in SeqOf(NodesAbove(leaves), ProofLength) :
                          ClaimedRoot(i, TradePayout(base.trades[i], base), i - 1, nodes) = Root
    BY DEF LeavesClaimable
  <2>2. IsCircuitInputs(base) /\ HostAccepts(base)
    BY <2>1, BatchIsInputs DEF Claimable
  <2>3. /\ n \in Nat /\ DOMAIN base.trades = 1..n
        /\ IsSequence(leaves) /\ Len(leaves) = n
        /\ \A j \in 1..n : leaves[j] = [leaf |-> LeafOf(base, j)]
    BY <2>2, LeavesOfBatch
  <2>4. PICK file \in ClaimedFiles : base = load_circuit_inputs(file)
    BY <2>1 DEF Claimable, ClaimedBatches
  <2>5. Len(file.trades) = n /\ Len(LevelAt(file.trades, ProofLength)) <= 1 /\ ProofLength \in Nat
    BY <2>4, Loaded, ClaimsWithinLength
  <2>6. IsSequence(file.trades)
    <3>1. file.trades \in Seq(TradeRecord)
      BY FilesParsed DEF IsCircuitInputs
    <3>2. /\ Len(file.trades) \in Nat /\ DOMAIN file.trades = 1..Len(file.trades)
          /\ file.trades = [j \in 1..Len(file.trades) |-> file.trades[j]]
      BY <3>1
    <3> QED BY <3>2 DEF IsSequence
  <2>7. \A nodes : ClaimedRoot(i, TradePayout(base.trades[i], base), i - 1, nodes)
                     = compute_merkle_root_from_proof(leaves[i], i - 1, nodes)
    BY <2>3 DEF ClaimedRoot, hash_payout_leaf, LeafOf
  <2>8. n >= 1 /\ i \in 1..n
    BY <2>1, <2>3
  <2>9. Root = compute_payouts_merkle_root(leaves)
    BY DEF Root
  <2> HIDE DEF leaves, n
  <2>10. Len(LevelAt(leaves, ProofLength)) = 1
    <3> DEFINE m == Len(LevelAt(leaves, ProofLength))
    <3>1. m = Len(LevelAt(file.trades, ProofLength))
      BY <2>3, <2>5, <2>6, <2>8, SameShape
    <3>2. m \in Nat /\ m >= 1
      BY <2>3, <2>5, <2>8, LevelLen
    <3>3. m <= 1
      BY <2>5, <3>1
    <3> HIDE DEF m
    <3>4. m = 1
      BY <3>2, <3>3
    <3> QED BY <3>4 DEF m
  <2>11. \E nodes \in SeqOf(NodesAbove(leaves), ProofLength) :
           compute_merkle_root_from_proof(leaves[i], i - 1, nodes)
             = compute_payouts_merkle_root(leaves)
    BY <2>3, <2>5, <2>8, <2>10, LeafHasProof
  <2> QED BY <2>7, <2>9, <2>11
<1> QED BY <1>1, PTL

-----------------------------------------------------------------------------
\* Ticks.

\* Ticks in order: their times are integers and grow.
TicksInOrder(ohlc, n) ==
  /\ DOMAIN ohlc = 1..n
  /\ \A i \in 1..n : ohlc[i].ts \in Int
  /\ \A i \in 2..n : ohlc[i - 1].ts < ohlc[i].ts

\* Between neighbours in order, the ticks are in order throughout.
LEMMA TicksGrow ==
  ASSUME NEW ohlc, NEW n \in Nat, TicksInOrder(ohlc, n), NEW i \in 1..n, NEW j \in 1..n, i < j
  PROVE  ohlc[i].ts < ohlc[j].ts
<1> DEFINE S == {d \in Nat : i + 1 + d <= n => ohlc[i].ts < ohlc[i + 1 + d].ts}
<1>1. 0 \in S
  <2>1. SUFFICES ASSUME i + 1 <= n PROVE ohlc[i].ts < ohlc[i + 1].ts
    OBVIOUS
  <2>2. i + 1 \in 2..n /\ (i + 1) - 1 = i
    BY <2>1
  <2> QED BY <2>2 DEF TicksInOrder
<1>2. ASSUME NEW d \in Nat, d \in S
      PROVE  d + 1 \in S
  <2>1. SUFFICES ASSUME i + 1 + (d + 1) <= n PROVE ohlc[i].ts < ohlc[i + 1 + (d + 1)].ts
    OBVIOUS
  <2> DEFINE m == i + 1 + d
  <2>2. ohlc[i].ts < ohlc[m].ts
    BY <1>2, <2>1
  <2>3. m + 1 = i + 1 + (d + 1) /\ m \in 1..n /\ m + 1 \in 2..n /\ (m + 1) - 1 = m
    BY <2>1
  <2> HIDE DEF m
  <2>4. ohlc[m].ts < ohlc[m + 1].ts /\ ohlc[i].ts \in Int /\ ohlc[m].ts \in Int
        /\ ohlc[m + 1].ts \in Int
    BY <2>3 DEF TicksInOrder
  <2>5. ohlc[i].ts < ohlc[m + 1].ts
    BY <2>2, <2>4
  <2> QED BY <2>3, <2>5
<1>3. Nat \subseteq S
  <2> HIDE DEF S
  <2> QED BY <1>1, <1>2, Induction
<1>4. j - i - 1 \in Nat /\ i + 1 + (j - i - 1) = j
  OBVIOUS
<1> QED BY <1>3, <1>4

\* The ticks up to a time come first, and they are counted.
LEMMA TicksUpToIs ==
  ASSUME NEW ohlc, NEW n \in Nat, TicksInOrder(ohlc, n), NEW at \in Int
  PROVE  /\ TicksUpTo(ohlc, at) \in 0..n
         /\ \A i \in 1..TicksUpTo(ohlc, at) : ohlc[i].ts <= at
         /\ \A i \in TicksUpTo(ohlc, at) + 1..n : ohlc[i].ts > at
<1> DEFINE Late == {i \in 1..n : ohlc[i].ts > at}
<1>1. PICK k \in 0..n : /\ \A i \in 1..k : ohlc[i].ts <= at
                        /\ \A i \in k + 1..n : ohlc[i].ts > at
  <2>1. CASE Late = {}
    <3>1. \A i \in 1..n : ohlc[i].ts \in Int /\ ~(ohlc[i].ts > at)
      BY <2>1 DEF TicksInOrder
    <3>2. \A i \in 1..n : ohlc[i].ts <= at
      BY <3>1
    <3> QED BY <3>2
  <2>2. CASE Late # {}
    <3>1. PICK m \in Late : \A i \in Late : m <= i
      <4>1. Late \in SUBSET Nat
        OBVIOUS
      <4> HIDE DEF Late
      <4> QED BY <2>2, <4>1, Least
    <3>2. m \in 1..n /\ m - 1 \in 0..n /\ (m - 1) + 1 = m
      BY <3>1
    <3>3. ASSUME NEW i \in 1..m - 1
          PROVE  ohlc[i].ts <= at
      <4>1. i \in 1..n /\ ~(m <= i)
        BY <3>2
      <4>2. ~(ohlc[i].ts > at)
        BY <3>1, <4>1
      <4>3. ohlc[i].ts \in Int
        BY <4>1 DEF TicksInOrder
      <4> QED BY <4>2, <4>3
    <3>4. ASSUME NEW i \in m..n
          PROVE  ohlc[i].ts > at
      <4>1. i \in 1..n /\ ohlc[m].ts > at /\ ohlc[m].ts \in Int /\ ohlc[i].ts \in Int
        BY <3>1, <3>2 DEF TicksInOrder
      <4>2. CASE i = m
        BY <4>1, <4>2
      <4>3. CASE i # m
        <5>1. m < i
          BY <3>2, <4>3
        <5>2. ohlc[m].ts < ohlc[i].ts
          BY <3>2, <4>1, <5>1, TicksGrow
        <5> QED BY <4>1, <5>2
      <4> QED BY <4>2, <4>3
    <3> QED BY <3>2, <3>3, <3>4
  <2> QED BY <2>1, <2>2
<1>2. {i \in DOMAIN ohlc : ohlc[i].ts <= at} = 1..k
  <2>1. ASSUME NEW i \in 1..n, ohlc[i].ts <= at
        PROVE  i \in 1..k
    <3>1. ohlc[i].ts \in Int
      BY DEF TicksInOrder
    <3>2. ~(ohlc[i].ts > at)
      BY <2>1, <3>1
    <3>3. i \notin k + 1..n
      BY <1>1, <3>2
    <3> QED BY <3>3
  <2>2. 1..k \subseteq 1..n /\ DOMAIN ohlc = 1..n
    BY DEF TicksInOrder
  <2> QED BY <1>1, <2>1, <2>2
<1>3. Cardinality(1..k) = k
  BY FS_Interval
<1>4. TicksUpTo(ohlc, at) = k
  BY <1>2, <1>3 DEF TicksUpTo, Quantify
<1> QED BY <1>1, <1>4

\* The inputs have their types.
LEMMA TypesOf ==
  ASSUME NEW in, IsCircuitInputs(in)
  PROVE  /\ in.trades \in Seq(TradeRecord) /\ in.ohlc \in Seq(OhlcTick)
         /\ in.pyth_checkpoints \in Seq(PythCheckpoint)
         /\ in.window_start \in Int /\ in.window_end \in Int
         /\ in.pool_balance_before \in U64
         /\ in.keeper_fee_bps \in U64 /\ in.protocol_fee_bps \in U64
BY DEF IsCircuitInputs

\* The ticks that cover a window are in order, and there is one.
LEMMA OhlcInOrder ==
  ASSUME NEW in, IsCircuitInputs(in), OhlcCovers(in)
  PROVE  /\ Len(in.ohlc) \in Nat /\ Len(in.ohlc) >= 1
         /\ TicksInOrder(in.ohlc, Len(in.ohlc))
<1>1. in.ohlc \in Seq(OhlcTick)
  BY TypesOf
<1>2. /\ Len(in.ohlc) \in Nat /\ DOMAIN in.ohlc = 1..Len(in.ohlc)
      /\ \A i \in 1..Len(in.ohlc) : in.ohlc[i] \in OhlcTick
  BY <1>1
<1>3. Len(in.ohlc) # 0
  BY <1>1 DEF OhlcCovers
<1>4. \A i \in 1..Len(in.ohlc) : in.ohlc[i].ts \in Int
  BY <1>2 DEF OhlcTick
<1> QED BY <1>2, <1>3, <1>4 DEF OhlcCovers, TicksInOrder

\* The run keeps to the batch it loaded.
LEMMA BatchKept == Spec => [](base \in Batches /\ chunk_size \in ChunkSizes)
<1>1. Init => base \in Batches /\ chunk_size \in ChunkSizes
  BY DEF Init
<1>2. base \in Batches /\ chunk_size \in ChunkSizes /\ [Next]_vars
        => (base \in Batches /\ chunk_size \in ChunkSizes)'
  BY DEF Next, vars, SpawnChunks, RefuseBatch, ChunkProved, ChunkFailed, AggregateChunks,
         AggregateFailed
<1> QED BY <1>1, <1>2, PTL DEF Spec

\* The two ticks around a checkpoint hold the nearest, and of two as near the
\* earlier is taken.
THEOREM NearestTickIsNearestCorrect == Spec => []NearestTickIsNearest
<1>1. base \in Batches => NearestTickIsNearest
  <2> DEFINE n == Len(base.ohlc)
             ohlc == base.ohlc
  <2>1. SUFFICES ASSUME base \in Batches, OhlcCovers(base), CheckpointsInWindow(base),
                        NEW c \in DOMAIN base.pyth_checkpoints,
                        NEW i \in DOMAIN ohlc
                 PROVE  LET at  == base.pyth_checkpoints[c].publish_time
                            hit == NearestTick(ohlc, at)
                        IN \/ Distance(hit.ts, at) < Distance(ohlc[i].ts, at)
                           \/ /\ Distance(hit.ts, at) = Distance(ohlc[i].ts, at)
                              /\ hit.ts <= ohlc[i].ts
    BY DEF NearestTickIsNearest
  <2> DEFINE at == base.pyth_checkpoints[c].publish_time
             k == TicksUpTo(ohlc, at)
             T(j) == ohlc[j].ts
  <2>2. IsCircuitInputs(base)
    BY <2>1, BatchIsInputs
  <2>3. n \in Nat /\ n >= 1 /\ TicksInOrder(ohlc, n)
    BY <2>1, <2>2, OhlcInOrder
  <2>4. at \in Int
    <3>1. base.pyth_checkpoints \in Seq(PythCheckpoint)
      BY <2>2, TypesOf
    <3>2. base.pyth_checkpoints[c] \in PythCheckpoint
      BY <3>1
    <3> QED BY <3>2 DEF PythCheckpoint
  <2>5. i \in 1..n /\ \A j \in 1..n : T(j) \in Int
    BY <2>3 DEF TicksInOrder
  <2> HIDE DEF at, n, ohlc
  <2>6. k \in 0..n /\ (\A j \in 1..k : T(j) <= at) /\ \A j \in k + 1..n : T(j) > at
    BY <2>3, <2>4, TicksUpToIs
  <2>7. \A j, l \in 1..n : j <= l => T(j) <= T(l)
    <3>1. \A j, l \in 1..n : j < l => T(j) < T(l)
      BY <2>3, TicksGrow
    <3> HIDE DEF T
    <3>2. ASSUME NEW j \in 1..n, NEW l \in 1..n, j <= l PROVE T(j) <= T(l)
      <4>1. j = l \/ j < l
        BY <2>3, <3>2
      <4> QED BY <2>5, <3>1, <4>1
    <3> QED BY <3>2
  <2> DEFINE Near(t) == \/ Distance(t, at) < Distance(T(i), at)
                        \/ Distance(t, at) = Distance(T(i), at) /\ t <= T(i)
  <2>8. SUFFICES Near(NearestTick(ohlc, at).ts)
    BY DEF at, ohlc
  <2>9. CASE k = 0
    <3>1. NearestTick(ohlc, at) = ohlc[1]
      BY <2>9 DEF NearestTick
    <3> HIDE DEF k
    <3>2. T(1) \in Int /\ T(i) \in Int /\ T(1) <= T(i) /\ T(1) > at /\ T(i) > at
      BY <2>3, <2>5, <2>6, <2>7, <2>9
    <3> HIDE DEF T
    <3>3. Near(T(1))
      BY <2>4, <3>2 DEF Distance
    <3> QED BY <3>1, <3>3 DEF T
  <2>10. CASE k # 0 /\ k = n
    <3>1. NearestTick(ohlc, at) = ohlc[k]
      BY <2>10 DEF NearestTick, n, ohlc
    <3> HIDE DEF k
    <3>2. T(k) \in Int /\ T(i) \in Int /\ T(i) <= T(k) /\ T(k) <= at /\ T(i) <= at
      BY <2>3, <2>5, <2>6, <2>7, <2>10
    <3> HIDE DEF T
    <3>3. Near(T(k))
      BY <2>4, <3>2 DEF Distance
    <3> QED BY <3>1, <3>3 DEF T
  <2>11. CASE k # 0 /\ k # n
    <3>1. NearestTick(ohlc, at) = IF at - T(k) <= T(k + 1) - at THEN ohlc[k] ELSE ohlc[k + 1]
      BY <2>11 DEF NearestTick, n, ohlc
    <3> HIDE DEF k
    <3>2. /\ k \in 1..n /\ k + 1 \in 1..n
          /\ T(k) \in Int /\ T(k + 1) \in Int /\ T(i) \in Int
          /\ T(k) <= at /\ T(k + 1) > at
      BY <2>3, <2>5, <2>6, <2>11
    <3>3. T(i) <= T(k) \/ T(i) >= T(k + 1)
      <4>1. i <= k \/ k + 1 <= i
        BY <2>5, <3>2
      <4> QED BY <2>5, <2>7, <3>2, <4>1
    <3> HIDE DEF T
    <3>4. CASE at - T(k) <= T(k + 1) - at
      <4>1. Near(T(k))
        BY <2>4, <3>2, <3>3, <3>4 DEF Distance
      <4> QED BY <3>1, <3>4, <4>1 DEF T
    <3>5. CASE ~(at - T(k) <= T(k + 1) - at)
      <4>1. Near(T(k + 1))
        BY <2>4, <3>2, <3>3, <3>5 DEF Distance
      <4> QED BY <3>1, <3>5, <4>1 DEF T
    <3> QED BY <3>4, <3>5
  <2> QED BY <2>9, <2>10, <2>11
<1> QED BY <1>1, BatchKept, PTL

\* The close of the last tick that is not after the trade's end: there is one,
\* since the ticks begin before the window and the trade ends in it.
THEOREM SettledOnLastCloseCorrect == Spec => []SettledOnLastClose
<1>1. base \in Batches => SettledOnLastClose
  <2> DEFINE n == Len(base.ohlc)
             ohlc == base.ohlc
  <2>1. SUFFICES ASSUME base \in Batches, HostAccepts(base), NEW i \in DOMAIN base.trades
                 PROVE  \E m \in DOMAIN ohlc :
                          /\ ohlc[m].ts <= base.trades[i].window_end
                          /\ ohlc[m].close = SettlementClose(ohlc, base.trades[i].window_end)
                          /\ \A later \in m + 1..n :
                               ohlc[later].ts > base.trades[i].window_end
    BY DEF SettledOnLastClose
  <2> DEFINE at == base.trades[i].window_end
             k == TicksUpTo(ohlc, at)
  <2>2. IsCircuitInputs(base) /\ OhlcCovers(base) /\ TradeAccepted(base.trades[i], base)
    BY <2>1, BatchIsInputs DEF HostAccepts
  <2>3. n \in Nat /\ n >= 1 /\ TicksInOrder(ohlc, n)
    BY <2>2, OhlcInOrder
  <2>4. at \in Int /\ base.trades[i].window_start \in Int /\ base.window_start \in Int
    <3>1. base.trades \in Seq(TradeRecord) /\ base.window_start \in Int
      BY <2>2, TypesOf
    <3>2. base.trades[i] \in TradeRecord
      BY <3>1
    <3> QED BY <3>1, <3>2 DEF TradeRecord
  <2>5. ohlc[1].ts \in Int /\ ohlc[1].ts <= at
    <3>1. ohlc[1].ts \in Int
      BY <2>3 DEF TicksInOrder
    <3>2. ohlc[1].ts <= base.window_start
      BY <2>2 DEF OhlcCovers
    <3>3. /\ base.trades[i].window_start < at
          /\ base.trades[i].window_start >= base.window_start
      BY <2>2 DEF TradeAccepted
    <3> QED BY <2>4, <3>1, <3>2, <3>3
  <2>6. DOMAIN ohlc = 1..n
    BY <2>3 DEF TicksInOrder
  <2> HIDE DEF at, n, ohlc
  <2>7. k \in 0..n /\ (\A j \in 1..k : ohlc[j].ts <= at) /\ \A j \in k + 1..n : ohlc[j].ts > at
    BY <2>3, <2>4, TicksUpToIs
  <2>8. k # 0
    <3>1. SUFFICES ASSUME k = 0 PROVE FALSE
      OBVIOUS
    <3>2. ohlc[1].ts > at
      BY <2>3, <2>7, <3>1
    <3> QED BY <2>4, <2>5, <3>2
  <2>9. SettlementClose(ohlc, at) = ohlc[k].close
    BY <2>8 DEF SettlementClose
  <2> HIDE DEF k
  <2>10. k \in 1..n /\ ohlc[k].ts <= at
    BY <2>3, <2>7, <2>8
  <2> QED BY <2>6, <2>7, <2>9, <2>10 DEF at, n, ohlc
<1> QED BY <1>1, BatchKept, PTL

-----------------------------------------------------------------------------
\* What the guest sums.

\* Amounts of each trade of a batch.
Nets(in) == [i \in DOMAIN in.trades |-> NetOf(in.trades[i], in)]
Payouts(in) == [i \in DOMAIN in.trades |-> TradePayout(in.trades[i], in)]
LostStakes(in) ==
  [i \in DOMAIN in.trades |-> IF Won(in.trades[i], in) THEN 0 ELSE in.trades[i].stake_usdt]
Wins(in) == [i \in DOMAIN in.trades |-> IF Won(in.trades[i], in) THEN 1 ELSE 0]

\* The guest's four totals are sums over the trades.
LEMMA TotalsAre ==
  ASSUME NEW in
  PROVE  /\ net_payout(in) = SumFunctionOnSet(Nets(in), DOMAIN in.trades)
         /\ total_winners_payout(in) = SumFunctionOnSet(Payouts(in), DOMAIN in.trades)
         /\ total_losers_stake(in) = SumFunctionOnSet(LostStakes(in), DOMAIN in.trades)
         /\ num_winners(in) = SumFunctionOnSet(Wins(in), DOMAIN in.trades)
<1>1. /\ DOMAIN Nets(in) = DOMAIN in.trades /\ DOMAIN Payouts(in) = DOMAIN in.trades
      /\ DOMAIN LostStakes(in) = DOMAIN in.trades /\ DOMAIN Wins(in) = DOMAIN in.trades
  BY DEF Nets, Payouts, LostStakes, Wins
<1>2. /\ net_payout(in) = SumFunction(Nets(in))
      /\ total_winners_payout(in) = SumFunction(Payouts(in))
      /\ total_losers_stake(in) = SumFunction(LostStakes(in))
      /\ num_winners(in) = SumFunction(Wins(in))
  BY DEF net_payout, total_winners_payout, total_losers_stake, num_winners, Total, Nets,
         Payouts, LostStakes, Wins
<1> QED BY <1>1, <1>2 DEF SumFunction

\* A share of a natural is one, and no less than s if there are s denominators in
\* it.
LEMMA Shares ==
  ASSUME NEW a \in Nat
  PROVE  /\ a \div BPS_DENOMINATOR \in Nat
         /\ \A s \in Nat : s * BPS_DENOMINATOR <= a => s <= a \div BPS_DENOMINATOR
<1> DEFINE d == BPS_DENOMINATOR
           q == a \div d
<1>1. d \in Nat \ {0}
  BY GuestConstants
<1> HIDE DEF d
<1>2. q \in Nat /\ a < d * (q + 1)
  BY <1>1
<1>3. ASSUME NEW s \in Nat, s * d <= a, q < s
      PROVE  FALSE
  <2> HIDE DEF q
  <2>1. q + 1 <= s
    BY <1>2, <1>3
  <2>2. d * (q + 1) <= d * s
    BY <1>1, <1>2, <2>1
  <2>3. d * s = s * d /\ d * s \in Nat /\ d * (q + 1) \in Nat
    BY <1>1, <1>2
  <2> QED BY <1>2, <1>3, <2>2, <2>3
<1> HIDE DEF q
<1>4. \A s \in Nat : s * d <= a => s <= q
  BY <1>2, <1>3
<1> QED BY <1>2, <1>4 DEF q, d

\* Amounts of an accepted trade.  A payout is never below the stake.
LEMMA AmountsOf ==
  ASSUME NEW in, IsCircuitInputs(in), NEW i \in DOMAIN in.trades
  PROVE  /\ in.trades[i].stake_usdt \in Nat
         /\ GrossPayout(in.trades[i]) \in Nat
         /\ Nets(in)[i] \in Int /\ Payouts(in)[i] \in Nat
         /\ LostStakes(in)[i] \in Nat /\ Wins(in)[i] \in Nat
         /\ TradeAccepted(in.trades[i], in)
              => in.trades[i].stake_usdt <= GrossPayout(in.trades[i])
<1> DEFINE t == in.trades[i]
<1>1. t.stake_usdt \in Nat /\ t.multiplier_bps \in Nat
  <2>1. in.trades \in Seq(TradeRecord)
    BY TypesOf
  <2>2. t \in TradeRecord
    BY <2>1
  <2> HIDE DEF t
  <2> QED BY <2>2, GuestConstants DEF TradeRecord, U64
<1> HIDE DEF t
<1>2. t.stake_usdt * t.multiplier_bps \in Nat
  BY <1>1
<1>3. GrossPayout(t) \in Nat
  BY <1>2, Shares DEF GrossPayout
<1>4. ASSUME TradeAccepted(t, in)
      PROVE  t.stake_usdt <= GrossPayout(t)
  <2>1. t.multiplier_bps >= BPS_DENOMINATOR /\ BPS_DENOMINATOR \in Nat
    <3>1. t.multiplier_bps \in MIN_TRADE_MULTIPLIER_BPS..in.market_max_multiplier
      BY <1>4 DEF TradeAccepted
    <3> QED BY <1>1, <3>1, GuestConstants
  <2>2. t.stake_usdt * BPS_DENOMINATOR <= t.stake_usdt * t.multiplier_bps
    BY <1>1, <2>1
  <2> QED BY <1>1, <1>2, <2>2, Shares DEF GrossPayout
<1>5. \A n \in Int : AsI64(n) \in Int
  BY GuestConstants DEF AsI64
<1>6. NetOf(t, in) \in Int
  <2>1. GrossPayout(t) - t.stake_usdt \in Int /\ t.stake_usdt \in Int
    BY <1>1, <1>3
  <2>2. AsI64(GrossPayout(t) - t.stake_usdt) \in Int /\ AsI64(t.stake_usdt) \in Int
    BY <1>5, <2>1
  <2> QED BY <2>2 DEF NetOf
<1>7. TradePayout(t, in) \in Nat
  BY <1>3 DEF TradePayout
<1> QED BY <1>1, <1>3, <1>4, <1>6, <1>7 DEF t, Nets, Payouts, LostStakes, Wins

\* The sums have their types.
LEMMA TotalTypes ==
  ASSUME NEW in, IsCircuitInputs(in)
  PROVE  /\ net_payout(in) \in Int
         /\ total_winners_payout(in) \in Nat
         /\ total_losers_stake(in) \in Nat
         /\ num_winners(in) \in Nat
         /\ keeper_fee(in) \in Nat
         /\ protocol_fee(in) \in Nat
         /\ pool_balance_after(in) \in Int
<1> DEFINE D == DOMAIN in.trades
<1>1. IsFiniteSet(D)
  <2>1. in.trades \in Seq(TradeRecord)
    BY TypesOf
  <2>2. D = 1..Len(in.trades) /\ Len(in.trades) \in Nat
    BY <2>1
  <2> HIDE DEF D
  <2> QED BY <2>2, FS_Interval
<1>2. /\ \A i \in D : Nets(in)[i] \in Int
      /\ \A i \in D : Payouts(in)[i] \in Nat
      /\ \A i \in D : LostStakes(in)[i] \in Nat
      /\ \A i \in D : Wins(in)[i] \in Nat
  BY AmountsOf
<1>3. net_payout(in) \in Int
  BY <1>1, <1>2, SumInt, TotalsAre
<1>4. /\ total_winners_payout(in) \in Nat
      /\ total_losers_stake(in) \in Nat
      /\ num_winners(in) \in Nat
  BY <1>1, <1>2, SumNat, TotalsAre
<1>5. in.keeper_fee_bps \in Nat /\ in.protocol_fee_bps \in Nat /\ in.pool_balance_before \in Nat
  BY TypesOf, GuestConstants DEF U64
<1>6. \A a, b \in Nat : PartOf(a, b) \in Nat
  <2>1. \A a, b \in Nat : a * b \in Nat
    OBVIOUS
  <2> QED BY <2>1, Shares DEF PartOf
<1>7. keeper_fee(in) \in Nat
  <2>1. Distance(net_payout(in), 0) \in Nat
    BY <1>3 DEF Distance
  <2> QED BY <1>5, <1>6, <2>1 DEF keeper_fee
<1>8. protocol_fee(in) \in Nat
  <2>1. net_payout(in) < 0 => -net_payout(in) \in Nat
    BY <1>3
  <2> QED BY <1>5, <1>6, <2>1 DEF protocol_fee
<1>9. pool_balance_after(in) \in Int
  BY <1>3, <1>5, <1>7 DEF pool_balance_after, BeforeKeeperFee
<1> QED BY <1>3, <1>4, <1>7, <1>8, <1>9

\* Trade by trade, stake and net make the payout: the sums follow.
THEOREM MoneyConservedCorrect == Spec => []MoneyConserved
<1>1. base \in Batches => MoneyConserved
  <2> DEFINE D == DOMAIN base.trades
             stakes == [i \in D |-> base.trades[i].stake_usdt]
  <2>1. SUFFICES ASSUME base \in Batches, HostAccepts(base),
                        \A i \in D : GrossPayout(base.trades[i]) <= I64_MAX
                 PROVE  base.pool_balance_before
                          + Total(LAMBDA t : t.stake_usdt, base.trades)
                        = pool_balance_after(base) + keeper_fee(base)
                          + total_winners_payout(base)
    BY DEF MoneyConserved
  <2>2. IsCircuitInputs(base)
    BY <2>1, BatchIsInputs
  <2>3. IsFiniteSet(D)
    <3>1. base.trades \in Seq(TradeRecord)
      BY <2>2, TypesOf
    <3>2. D = 1..Len(base.trades) /\ Len(base.trades) \in Nat
      BY <3>1
    <3> HIDE DEF D
    <3> QED BY <3>2, FS_Interval
  <2>4. ASSUME NEW i \in D
        PROVE  /\ stakes[i] \in Int /\ Nets(base)[i] \in Int
               /\ Payouts(base)[i] = stakes[i] + Nets(base)[i]
    <3> DEFINE t == base.trades[i]
               stake == t.stake_usdt
               gross == GrossPayout(t)
    <3>1. stake \in Nat /\ gross \in Nat /\ stake <= gross /\ gross <= I64_MAX /\ I64_MAX \in Nat
      <4>1. TradeAccepted(t, base)
        BY <2>1 DEF HostAccepts
      <4> QED BY <2>1, <2>2, <4>1, AmountsOf, GuestConstants
    <3>2. Payouts(base)[i] = TradePayout(t, base) /\ Nets(base)[i] = NetOf(t, base)
          /\ stakes[i] = stake
      BY DEF Payouts, Nets
    <3> HIDE DEF stakes, t
    <3>3. CASE Won(t, base)
      <4>1. TradePayout(t, base) = gross /\ NetOf(t, base) = AsI64(gross - stake)
        BY <3>3 DEF TradePayout, NetOf
      <4> HIDE DEF gross, stake
      <4>2. AsI64(gross - stake) = gross - stake
        BY <3>1 DEF AsI64
      <4> QED BY <3>1, <3>2, <4>1, <4>2
    <3>4. CASE ~Won(t, base)
      <4>1. TradePayout(t, base) = 0 /\ NetOf(t, base) = -AsI64(stake)
        BY <3>4 DEF TradePayout, NetOf
      <4> HIDE DEF gross, stake
      <4>2. AsI64(stake) = stake
        BY <3>1 DEF AsI64
      <4> QED BY <3>1, <3>2, <4>1, <4>2
    <3> QED BY <3>3, <3>4
  <2>5. Total(LAMBDA t : t.stake_usdt, base.trades) = SumFunctionOnSet(stakes, D)
    BY DEF Total, SumFunction
  <2>6. /\ net_payout(base) = SumFunctionOnSet(Nets(base), D)
        /\ total_winners_payout(base) = SumFunctionOnSet(Payouts(base), D)
    BY TotalsAre
  <2> HIDE DEF stakes, D
  <2>7. SumFunctionOnSet(Payouts(base), D)
          = SumFunctionOnSet(stakes, D) + SumFunctionOnSet(Nets(base), D)
    BY <2>3, <2>4, SumPlus
  <2>8. SumFunctionOnSet(stakes, D) \in Int
    BY <2>3, <2>4, SumInt
  <2>9. net_payout(base) \in Int /\ keeper_fee(base) \in Int /\ base.pool_balance_before \in Int
    BY <2>2, TotalTypes, TypesOf, GuestConstants DEF U64
  <2> QED BY <2>5, <2>6, <2>7, <2>8, <2>9 DEF pool_balance_after, BeforeKeeperFee
<1> QED BY <1>1, BatchKept, PTL

-----------------------------------------------------------------------------
\* The run.

\* A longer sequence.
LEMMA AppendIs ==
  ASSUME NEW s, IsSequence(s), NEW e
  PROVE  /\ IsSequence(Append(s, e))
         /\ Len(Append(s, e)) = Len(s) + 1
         /\ \A i \in 1..Len(s) : Append(s, e)[i] = s[i]
         /\ Append(s, e)[Len(s) + 1] = e
<1> DEFINE S == {s[i] : i \in 1..Len(s)} \cup {e}
<1>1. Len(s) \in Nat /\ DOMAIN s = 1..Len(s) /\ s = [i \in 1..Len(s) |-> s[i]]
  BY SequenceLen
<1>2. s \in [1..Len(s) -> S]
  <2> DEFINE n == Len(s)
  <2>1. DOMAIN s = 1..n /\ s = [i \in 1..n |-> s[i]]
    BY <1>1
  <2>2. \A i \in 1..n : s[i] \in S
    OBVIOUS
  <2> HIDE DEF n, S
  <2>3. [i \in 1..n |-> s[i]] \in [1..n -> S]
    BY <2>2
  <2> QED BY <2>1, <2>3, Zenon DEF n
<1>3. s \in Seq(S)
  BY <1>1, <1>2
<1>4. e \in S
  OBVIOUS
<1> HIDE DEF S
<1>5. /\ Append(s, e) \in Seq(S)
      /\ Len(Append(s, e)) = Len(s) + 1
      /\ \A i \in 1..Len(s) : Append(s, e)[i] = s[i]
      /\ Append(s, e)[Len(s) + 1] = e
  BY <1>3, <1>4
<1>6. IsSequence(Append(s, e))
  <2> DEFINE t == Append(s, e)
  <2>1. t \in Seq(S)
    BY <1>5
  <2>2. Len(t) \in Nat /\ DOMAIN t = 1..Len(t) /\ t = [i \in 1..Len(t) |-> t[i]]
    <3> HIDE DEF t
    <3> QED BY <2>1
  <2> HIDE DEF t
  <2> QED BY <2>2 DEF IsSequence, t
<1> QED BY <1>5, <1>6

\* A batch that is not empty makes at least one chunk of any size.
LEMMA SplitIs ==
  ASSUME NEW in, IsCircuitInputs(in), NEW size \in Nat \ {0}
  PROVE  /\ Len(in.trades) \in Nat /\ DOMAIN in.trades = 1..Len(in.trades)
         /\ total_chunks(in, size) \in Nat
         /\ in.trades # <<>> => total_chunks(in, size) >= 1
         /\ DOMAIN split_into_chunk_inputs(in, size) = 1..total_chunks(in, size)
         /\ Len(split_into_chunk_inputs(in, size)) = total_chunks(in, size)
         /\ \A i \in 1..total_chunks(in, size) :
              split_into_chunk_inputs(in, size)[i] = Chunk(in, size, i - 1)
<1> DEFINE n == Len(in.trades)
           t == total_chunks(in, size)
           s == split_into_chunk_inputs(in, size)
<1>1. in.trades \in Seq(TradeRecord)
  BY TypesOf
<1>2. n \in Nat /\ DOMAIN in.trades = 1..n /\ (in.trades # <<>> => n # 0)
  BY <1>1
<1>3. t = (n + size - 1) \div size
  BY DEF total_chunks
<1>4. s = [i \in 1..t |-> Chunk(in, size, i - 1)]
  BY DEF split_into_chunk_inputs
<1> HIDE DEF n, t, s
<1>5. t \in Nat /\ (n # 0 => t >= 1)
  BY <1>2, <1>3
<1>6. DOMAIN s = 1..t /\ s = [i \in 1..t |-> s[i]] /\ \A i \in 1..t : s[i] = Chunk(in, size, i - 1)
  BY <1>4
<1>7. Len(s) = t
  BY <1>5, <1>6, LenOf
<1> QED BY <1>2, <1>5, <1>6, <1>7 DEF n, t, s

\* What a chunk is, and its proof.
Inner(i) == Chunk(base, chunk_size, i - 1).inner

ProofOf(i) ==
  [chunk_index |-> i - 1, total_chunks |-> total_chunks(base, chunk_size),
   outputs |-> PublicOutputs(Inner(i))]

\* How far the run is, and what it has by then: while chunks are proved, those
\* of the whole batch, each accepted by the host; proofs of different chunks,
\* each of what the guest commits for it; and at the end one of every chunk.
BatchInv == base \in Batches /\ chunk_size \in ChunkSizes

PhaseInv ==
  /\ phase \in {"loaded", "proving", "aggregated", "failed"}
  /\ phase = "loaded" => chunks = <<>>
  /\ phase \in {"proving", "aggregated"} =>
       chunks = split_into_chunk_inputs(base, chunk_size) /\ Splittable
  /\ chunks = <<>> \/ chunks = split_into_chunk_inputs(base, chunk_size)

ProvedInv ==
  /\ IsSequence(proved_chunks)
  /\ \A n \in DOMAIN proved_chunks :
       \E i \in DOMAIN chunks : proved_chunks[n] = ProofOf(i)
  /\ \A m, n \in DOMAIN proved_chunks :
       proved_chunks[m].chunk_index = proved_chunks[n].chunk_index => m = n

AggregateInv ==
  /\ phase = "aggregated" =>
       /\ Len(proved_chunks) = Len(chunks)
       /\ aggregate = Sums(InOrder(proved_chunks))
  /\ phase # "aggregated" => aggregate = NoAggregate

CircuitInv == BatchInv /\ PhaseInv /\ ProvedInv /\ AggregateInv

\* The chunks of a run.
LEMMA ChunksAre ==
  ASSUME BatchInv, PhaseInv
  PROVE  /\ IsCircuitInputs(base) /\ chunk_size \in Nat \ {0}
         /\ total_chunks(base, chunk_size) \in Nat
         /\ DOMAIN chunks \subseteq 1..total_chunks(base, chunk_size)
         /\ \A i \in DOMAIN chunks :
              /\ i \in Nat /\ chunks[i].chunk_index = i - 1
              /\ chunks[i].total_chunks = total_chunks(base, chunk_size)
              /\ chunks[i].inner = Inner(i)
<1>1. IsCircuitInputs(base) /\ chunk_size \in Nat \ {0}
  BY BatchIsInputs, ChunkSizesPositive DEF BatchInv
<1>2. /\ total_chunks(base, chunk_size) \in Nat
      /\ DOMAIN split_into_chunk_inputs(base, chunk_size) = 1..total_chunks(base, chunk_size)
      /\ \A i \in 1..total_chunks(base, chunk_size) :
           split_into_chunk_inputs(base, chunk_size)[i] = Chunk(base, chunk_size, i - 1)
  BY <1>1, SplitIs
<1>3. CASE chunks = <<>>
  <2>1. DOMAIN chunks = {}
    BY <1>3
  <2> QED BY <1>1, <1>2, <2>1
<1>4. CASE chunks = split_into_chunk_inputs(base, chunk_size)
  <2>1. \A i \in DOMAIN chunks : /\ i \in Nat /\ chunks[i] = Chunk(base, chunk_size, i - 1)
    BY <1>2, <1>4
  <2>2. \A i : /\ Chunk(base, chunk_size, i - 1).chunk_index = i - 1
               /\ Chunk(base, chunk_size, i - 1).total_chunks
                    = total_chunks(base, chunk_size)
    BY DEF Chunk
  <2> QED BY <1>1, <1>2, <1>4, <2>1, <2>2 DEF Inner
<1> QED BY <1>3, <1>4 DEF PhaseInv

\* A run starts in the invariant.
LEMMA InitCircuit == Init => CircuitInv
<1> SUFFICES ASSUME Init PROVE CircuitInv
  OBVIOUS
<1>1. BatchInv /\ PhaseInv /\ AggregateInv
  BY DEF Init, BatchInv, PhaseInv, AggregateInv
<1>2. proved_chunks = <<>>
  BY DEF Init
<1>3. DOMAIN proved_chunks = 1..0 /\ proved_chunks = [i \in 1..0 |-> proved_chunks[i]]
  BY <1>2
<1>4. IsSequence(proved_chunks)
  BY <1>3 DEF IsSequence
<1>5. ProvedInv
  BY <1>3, <1>4 DEF ProvedInv
<1> QED BY <1>1, <1>5 DEF CircuitInv

\* Every step keeps it.
LEMMA NextCircuit == CircuitInv /\ [Next]_vars => CircuitInv'
<1> SUFFICES ASSUME CircuitInv, [Next]_vars PROVE CircuitInv'
  OBVIOUS
<1> USE DEF CircuitInv
<1>1. CASE SpawnChunks
  <2>1. base' = base /\ chunk_size' = chunk_size /\ proved_chunks' = proved_chunks
        /\ aggregate' = aggregate /\ phase = "loaded" /\ phase' = "proving"
        /\ chunks' = split_into_chunk_inputs(base, chunk_size) /\ Splittable
    BY <1>1 DEF SpawnChunks
  <2>2. BatchInv' /\ PhaseInv'
    <3>1. BatchInv'
      BY <2>1 DEF BatchInv
    <3>2. Splittable'
      BY <2>1 DEF Splittable
    <3> QED BY <2>1, <3>1, <3>2 DEF PhaseInv
  <2>3. ProvedInv'
    <3>1. DOMAIN chunks = {}
      BY <2>1 DEF PhaseInv
    <3>2. DOMAIN proved_chunks = {}
      BY <3>1 DEF ProvedInv
    <3> QED BY <2>1, <3>2 DEF ProvedInv
  <2>4. AggregateInv'
    BY <2>1 DEF AggregateInv
  <2> QED BY <2>2, <2>3, <2>4
<1>2. CASE RefuseBatch
  BY <1>2 DEF RefuseBatch, BatchInv, PhaseInv, ProvedInv, AggregateInv, ProofOf, Inner
<1>3. ASSUME NEW i \in DOMAIN chunks, ChunkProved(i)
      PROVE  CircuitInv'
  <2>1. base' = base /\ chunk_size' = chunk_size /\ phase' = phase
        /\ aggregate' = aggregate /\ phase = "proving" /\ chunks' = chunks /\ ~Proved(i)
        /\ proved_chunks' = Append(proved_chunks,
                                   [chunk_index  |-> chunks[i].chunk_index,
                                    total_chunks |-> chunks[i].total_chunks,
                                    outputs      |-> PublicOutputs(chunks[i].inner)])
    BY <1>3 DEF ChunkProved
  <2>2. BatchInv' /\ AggregateInv'
    BY <2>1 DEF BatchInv, AggregateInv
  <2>3. PhaseInv'
    BY <2>1 DEF PhaseInv, Splittable
  <2>4. proved_chunks' = Append(proved_chunks, ProofOf(i))
    BY <2>1, ChunksAre DEF ProofOf
  <2>5. ProvedInv'
    <3> DEFINE n == Len(proved_chunks)
               now == proved_chunks'
    <3>1. IsSequence(proved_chunks) /\ n \in Nat /\ DOMAIN proved_chunks = 1..n
      BY SequenceLen DEF ProvedInv
    <3>2. /\ IsSequence(now) /\ DOMAIN now = 1..n + 1
          /\ (\A m \in 1..n : now[m] = proved_chunks[m]) /\ now[n + 1] = ProofOf(i)
      <4>1. /\ IsSequence(now) /\ Len(now) = n + 1
            /\ (\A m \in 1..n : now[m] = proved_chunks[m]) /\ now[n + 1] = ProofOf(i)
        BY <2>4, <3>1, AppendIs
      <4> QED BY <4>1, SequenceLen
    <3>3. \A m \in 1..n : proved_chunks[m].chunk_index # i - 1
      BY <2>1, <3>1 DEF Proved
    <3>4. ProofOf(i).chunk_index = i - 1
      BY DEF ProofOf
    <3>5. \A m \in 1..n + 1 : m \in 1..n \/ m = n + 1
      BY <3>1
    <3>6. \A m \in 1..n : \E j \in DOMAIN chunks : proved_chunks[m] = ProofOf(j)
      BY <3>1 DEF ProvedInv
    <3>7. \A j : ProofOf(j)' = ProofOf(j)
      BY <2>1 DEF ProofOf, Inner
    <3>8. \A l, m \in 1..n :
            proved_chunks[l].chunk_index = proved_chunks[m].chunk_index => l = m
      BY <3>1 DEF ProvedInv
    <3> HIDE DEF now, n
    <3>9. \A m \in 1..n + 1 : \E j \in DOMAIN chunks : now[m] = ProofOf(j)
      BY <3>2, <3>5, <3>6
    <3>10. \A l, m \in 1..n + 1 : now[l].chunk_index = now[m].chunk_index => l = m
      BY <3>2, <3>3, <3>4, <3>5, <3>8
    <3>11. \A m \in DOMAIN now : \E j \in DOMAIN chunks' : now[m] = ProofOf(j)'
      BY <2>1, <3>2, <3>7, <3>9
    <3> QED BY <3>2, <3>10, <3>11 DEF now, ProvedInv
  <2> QED BY <2>2, <2>3, <2>5
<1>4. ASSUME NEW i \in DOMAIN chunks, ChunkFailed(i)
      PROVE  CircuitInv'
  BY <1>4 DEF ChunkFailed, BatchInv, PhaseInv, ProvedInv, AggregateInv, ProofOf, Inner
<1>5. CASE AggregateChunks
  BY <1>5 DEF AggregateChunks, AllProved, BatchInv, PhaseInv, Splittable, ProvedInv,
              AggregateInv, ProofOf, Inner
<1>6. CASE AggregateFailed
  BY <1>6 DEF AggregateFailed, AllProved, BatchInv, PhaseInv, ProvedInv, AggregateInv,
              ProofOf, Inner
<1>7. CASE UNCHANGED vars
  BY <1>7 DEF vars, BatchInv, PhaseInv, Splittable, ProvedInv, AggregateInv, ProofOf, Inner
<1> QED BY <1>1, <1>2, <1>3, <1>4, <1>5, <1>6, <1>7 DEF Next

\* The invariant holds in every run.
THEOREM CircuitInvariant == Spec => []CircuitInv
BY InitCircuit, NextCircuit, PTL DEF Spec

\* The types: chunks are numbered in order, proofs are of chunks of the batch,
\* and there is an aggregate in the last phase only.
THEOREM CircuitTypeCorrect == Spec => []TypeOK
<1>1. CircuitInv => TypeOK
  <2> SUFFICES ASSUME CircuitInv PROVE TypeOK
    OBVIOUS
  <2> USE DEF CircuitInv
  <2> DEFINE t == total_chunks(base, chunk_size)
  <2>1. /\ t \in Nat /\ DOMAIN chunks \subseteq 1..t
        /\ \A i \in DOMAIN chunks : chunks[i].chunk_index = i - 1
    BY ChunksAre
  <2>2. ASSUME NEW n \in DOMAIN proved_chunks
        PROVE  proved_chunks[n].chunk_index \in 0..t - 1
    <3>1. PICK i \in DOMAIN chunks : proved_chunks[n] = ProofOf(i)
      BY DEF ProvedInv
    <3>2. proved_chunks[n].chunk_index = i - 1 /\ i \in 1..t
      BY <2>1, <3>1 DEF ProofOf
    <3> HIDE DEF t
    <3> QED BY <2>1, <3>2
  <2>3. (aggregate = NoAggregate) <=> (phase # "aggregated")
    <3>1. "num_trades" \in DOMAIN Sums(InOrder(proved_chunks))
      BY DEF Sums
    <3> QED BY <3>1, NoAggregateDiffers DEF AggregateInv
  <2> QED BY <2>1, <2>2, <2>3 DEF TypeOK, BatchInv, PhaseInv
<1> QED BY <1>1, CircuitInvariant, PTL

-----------------------------------------------------------------------------
\* The aggregate.

\* Of the numbers from 0 below n, each somebody's, v are below v.
LEMMA CountBelow ==
  ASSUME NEW n \in Nat, NEW index \in [1..n -> 0..n - 1],
         \A i, j \in 1..n : index[i] = index[j] => i = j,
         NEW v \in 0..n
  PROVE  Cardinality({m \in 1..n : index[m] < v}) = v
<1> DEFINE B == {m \in 1..n : index[m] < v}
           f == [m \in B |-> index[m]]
<1>1. IsFiniteSet(1..n) /\ Cardinality(1..n) = n
  BY FS_Interval
<1>2. IsFiniteSet(0..n - 1) /\ Cardinality(0..n - 1) = n
  <2>1. 0 \in Int /\ n - 1 \in Int
    OBVIOUS
  <2>2. IsFiniteSet(0..n - 1)
        /\ Cardinality(0..n - 1) = IF 0 > n - 1 THEN 0 ELSE n - 1 - 0 + 1
    BY <2>1, FS_Interval
  <2> QED BY <2>2
<1>3. index \in Injection(1..n, 0..n - 1)
  BY DEF Injection, IsInjective
<1>4. index \in Surjection(1..n, 0..n - 1)
  BY <1>1, <1>2, <1>3, FS_Injection
<1>5. f \in Bijection(B, 0..v - 1)
  <2>1. \A m \in B : index[m] \in 0..v - 1
    <3>1. \A m \in B : index[m] \in 0..n - 1 /\ index[m] < v
      OBVIOUS
    <3> HIDE DEF B
    <3> QED BY <3>1
  <2>2. f \in [B -> 0..v - 1]
    BY <2>1
  <2>3. ASSUME NEW k \in 0..v - 1
        PROVE  \E m \in B : f[m] = k
    <3>1. k \in 0..n - 1 /\ k < v
      OBVIOUS
    <3>2. PICK m \in 1..n : index[m] = k
      BY <1>4, <3>1 DEF Surjection
    <3>3. m \in B
      BY <3>1, <3>2
    <3> QED BY <3>2, <3>3
  <2>4. \A i, j \in B : f[i] = f[j] => i = j
    OBVIOUS
  <2> HIDE DEF f, B
  <2> QED BY <2>2, <2>3, <2>4 DEF Bijection, Injection, Surjection, IsInjective
<1>6. IsFiniteSet(B)
  <2>1. B \subseteq 1..n
    OBVIOUS
  <2> HIDE DEF B
  <2> QED BY <1>1, <2>1, FS_Subset
<1>7. IsFiniteSet(0..v - 1) /\ Cardinality(0..v - 1) = v
  BY FS_Interval
<1> HIDE DEF B, f
<1>8. Cardinality(B) = Cardinality(0..v - 1)
  BY <1>5, <1>7, FS_Injection DEF Bijection
<1>9. Cardinality(B) = v
  BY <1>7, <1>8
<1> QED BY <1>9 DEF B

\* Proofs of the chunks 0 to n - 1, in any order, are put in the order of the
\* chunks.
LEMMA InOrderIs ==
  ASSUME NEW proved, IsSequence(proved), NEW n \in Nat, Len(proved) = n,
         \A i \in 1..n : proved[i].chunk_index \in 0..n - 1,
         \A i, j \in 1..n : proved[i].chunk_index = proved[j].chunk_index => i = j
  PROVE  /\ DOMAIN InOrder(proved) = 1..n
         /\ Len(InOrder(proved)) = n
         /\ \A k \in 1..n : \E i \in 1..n : /\ InOrder(proved)[k] = proved[i]
                                            /\ proved[i].chunk_index = k - 1
<1> DEFINE index == [i \in 1..n |-> proved[i].chunk_index]
           Before(m, i) == \/ proved[m].chunk_index < proved[i].chunk_index
                           \/ m < i /\ ~(proved[i].chunk_index < proved[m].chunk_index)
           At(k) == CHOOSE i \in 1..n : Cardinality({m \in 1..n : Before(m, i)}) = k - 1
           s == InOrder(proved)
<1>1. DOMAIN proved = 1..n
  BY SequenceLen
<1>2. index \in [1..n -> 0..n - 1] /\ \A i, j \in 1..n : index[i] = index[j] => i = j
  OBVIOUS
<1>3. ASSUME NEW i \in 1..n
      PROVE  Cardinality({m \in 1..n : Before(m, i)}) = index[i]
  <2>1. \A m \in 1..n : Before(m, i) <=> index[m] < index[i]
    <3>1. \A m \in 1..n : /\ index[m] \in Int /\ index[i] \in Int
                          /\ index[m] = proved[m].chunk_index /\ index[i] = proved[i].chunk_index
                          /\ m # i => index[m] # index[i]
      BY <1>2
    <3> HIDE DEF index
    <3> QED BY <3>1
  <2>2. {m \in 1..n : Before(m, i)} = {m \in 1..n : index[m] < index[i]}
    BY <2>1
  <2>3. index[i] \in 0..n
    BY <1>2
  <2> HIDE DEF index, Before
  <2>4. Cardinality({m \in 1..n : index[m] < index[i]}) = index[i]
    BY <1>2, <2>3, CountBelow
  <2> QED BY <2>2, <2>4
<1>4. ASSUME NEW k \in 1..n
      PROVE  At(k) \in 1..n /\ index[At(k)] = k - 1
  <2>1. \E i \in 1..n : index[i] = k - 1
    <3>1. IsFiniteSet(1..n) /\ Cardinality(1..n) = n
      BY FS_Interval
    <3>2. IsFiniteSet(0..n - 1) /\ Cardinality(0..n - 1) = n
      BY FS_Interval
    <3> HIDE DEF index
    <3>3. index \in Injection(1..n, 0..n - 1)
      BY <1>2 DEF Injection, IsInjective
    <3>4. index \in Surjection(1..n, 0..n - 1)
      BY <3>1, <3>2, <3>3, FS_Injection
    <3>5. k - 1 \in 0..n - 1
      OBVIOUS
    <3> QED BY <3>4, <3>5 DEF Surjection
  <2> HIDE DEF index, Before
  <2>2. \E i \in 1..n : Cardinality({m \in 1..n : Before(m, i)}) = k - 1
    BY <1>3, <2>1
  <2>3. /\ At(k) \in 1..n
        /\ Cardinality({m \in 1..n : Before(m, At(k))}) = k - 1
    BY <2>2
  <2> HIDE DEF At
  <2> QED BY <1>3, <2>3
<1>5. s = [k \in 1..n |-> proved[At(k)]]
  BY <1>1 DEF InOrder, Sorted, Quantify
<1> HIDE DEF At
<1>6. ASSUME NEW k \in 1..n
      PROVE  s[k] = proved[At(k)] /\ proved[At(k)].chunk_index = k - 1 /\ At(k) \in 1..n
  <2>1. s[k] = proved[At(k)]
    BY <1>5
  <2> HIDE DEF s
  <2> QED BY <1>4, <2>1
<1>7. DOMAIN s = 1..n /\ s = [k \in 1..n |-> s[k]]
  BY <1>5
<1> HIDE DEF s
<1>8. Len(s) = n
  BY <1>7, LenOf
<1> QED BY <1>6, <1>7, <1>8 DEF s

\* When all chunks are proved, their proofs in order are one of each.
LEMMA ProofsInOrder ==
  ASSUME CircuitInv, phase \in {"proving", "aggregated"}, Len(proved_chunks) = Len(chunks)
  PROVE  LET t == total_chunks(base, chunk_size)
             c == InOrder(proved_chunks)
         IN /\ t \in Nat /\ t >= 1 /\ Len(chunks) = t
            /\ DOMAIN c = 1..t /\ Len(c) = t
            /\ \A k \in 1..t : c[k] = ProofOf(k)
<1> USE DEF CircuitInv
<1> DEFINE t == total_chunks(base, chunk_size)
           c == InOrder(proved_chunks)
<1>1. /\ IsCircuitInputs(base) /\ chunk_size \in Nat \ {0} /\ t \in Nat
      /\ DOMAIN chunks \subseteq 1..t
  BY ChunksAre
<1>2. chunks = split_into_chunk_inputs(base, chunk_size) /\ base.trades # <<>>
  BY DEF PhaseInv, Splittable, HostAccepts
<1>3. t >= 1 /\ Len(chunks) = t
  BY <1>1, <1>2, SplitIs
<1>4. IsSequence(proved_chunks) /\ DOMAIN proved_chunks = 1..t
  BY <1>3, SequenceLen DEF ProvedInv
<1>5. \A n \in 1..t : \E i \in 1..t : proved_chunks[n] = ProofOf(i)
  BY <1>1, <1>4 DEF ProvedInv
<1>6. \A i : ProofOf(i).chunk_index = i - 1
  BY DEF ProofOf
<1> HIDE DEF t
<1>7. \A n \in 1..t : proved_chunks[n].chunk_index \in 0..t - 1
  BY <1>1, <1>5, <1>6
<1>8. \A m, n \in 1..t :
        proved_chunks[m].chunk_index = proved_chunks[n].chunk_index => m = n
  BY <1>4 DEF ProvedInv
<1>9. Len(proved_chunks) = t
  BY <1>3
<1>10. /\ DOMAIN c = 1..t /\ Len(c) = t
       /\ \A k \in 1..t : \E i \in 1..t : /\ c[k] = proved_chunks[i]
                                          /\ proved_chunks[i].chunk_index = k - 1
  BY <1>1, <1>4, <1>7, <1>8, <1>9, InOrderIs
<1>11. ASSUME NEW k \in 1..t
       PROVE  c[k] = ProofOf(k)
  <2>1. PICK i \in 1..t : c[k] = proved_chunks[i] /\ proved_chunks[i].chunk_index = k - 1
    BY <1>10
  <2>2. PICK j \in 1..t : proved_chunks[i] = ProofOf(j)
    BY <1>5
  <2>3. j - 1 = k - 1
    BY <1>6, <2>1, <2>2
  <2>4. j = k
    BY <1>1, <2>3
  <2> QED BY <2>1, <2>2, <2>4
<1>12. t >= 1 /\ Len(chunks) = t
  BY <1>3
<1> QED BY <1>1, <1>10, <1>11, <1>12 DEF t

\* Every chunk carries the id of the batch.
LEMMA ChunkCarries ==
  ASSUME NEW in, IsCircuitInputs(in), NEW size, NEW k, NEW pool
  PROVE  /\ ChunkInputs(in, size, k, pool).trades = TradesOf(in, size, k)
         /\ ChunkInputs(in, size, k, pool).pool_balance_before = pool
         /\ ChunkInputs(in, size, k, pool).batch_id = in.batch_id
         /\ ChunkInputs(in, size, k, pool).ohlc = in.ohlc
         /\ ChunkInputs(in, size, k, pool).keeper_fee_bps = in.keeper_fee_bps
         /\ ChunkInputs(in, size, k, pool).protocol_fee_bps = in.protocol_fee_bps
BY DEF IsCircuitInputs, ChunkInputs

\* The proofs of all chunks are always ones that the aggregator takes.
THEOREM ProvedChunksAggregateCorrect == Spec => []ProvedChunksAggregate
<1>1. CircuitInv => ProvedChunksAggregate
  <2> SUFFICES ASSUME CircuitInv, AllProved PROVE AggregatorAccepts(InOrder(proved_chunks))
    BY DEF ProvedChunksAggregate
  <2> DEFINE t == total_chunks(base, chunk_size)
             c == InOrder(proved_chunks)
  <2>1. /\ t \in Nat /\ t >= 1 /\ Len(chunks) = t
        /\ DOMAIN c = 1..t /\ Len(c) = t
        /\ \A k \in 1..t : c[k] = ProofOf(k)
    BY ProofsInOrder DEF AllProved
  <2>2. ASSUME NEW k
        PROVE  /\ ProofOf(k).chunk_index = k - 1 /\ ProofOf(k).total_chunks = t
               /\ ProofOf(k).outputs.batch_id = base.batch_id
    <3>1. Inner(k).batch_id = base.batch_id
      <4>1. IsCircuitInputs(base)
        BY ChunksAre DEF CircuitInv
      <4> QED BY <4>1, ChunkCarries DEF Inner, Chunk
    <3> QED BY <3>1 DEF ProofOf, PublicOutputs
  <2>3. c # <<>>
    <3>1. 1 \in DOMAIN c
      BY <2>1
    <3> HIDE DEF c
    <3> QED BY <3>1
  <2> HIDE DEF c
  <2>4. \A i \in DOMAIN c : /\ c[i].chunk_index = i - 1 /\ c[i].total_chunks = t
                            /\ c[i].outputs.batch_id = base.batch_id
    BY <2>1, <2>2
  <2>5. 1 \in DOMAIN c
    BY <2>1
  <2>6. \A i \in DOMAIN c : c[i].outputs.batch_id = c[1].outputs.batch_id
    BY <2>4, <2>5
  <2> QED BY <2>1, <2>3, <2>4, <2>6 DEF AggregatorAccepts, c
<1> QED BY <1>1, CircuitInvariant, PTL

-----------------------------------------------------------------------------
\* The trades of a chunk.

\* What the quotient of a natural is.
LEMMA QuotientIs ==
  ASSUME NEW x \in Nat, NEW d \in Nat \ {0}, NEW k \in Nat
  PROVE  /\ x \div d \in Nat
         /\ x \div d = k <=> k * d <= x /\ x < k * d + d
<1> DEFINE q == x \div d
<1>1. q \in Nat /\ d * q <= x /\ x < d * q + d
  OBVIOUS
<1> HIDE DEF q
<1>2. \A a, b \in Nat : a < b => d * a + d <= d * b
  <2> TAKE a, b \in Nat
  <2>1. ASSUME a < b PROVE d * a + d <= d * b
    <3>1. a + 1 <= b
      BY <2>1
    <3>2. d * (a + 1) <= d * b
      BY <3>1
    <3>3. d * (a + 1) = d * a + d
      OBVIOUS
    <3> QED BY <3>2, <3>3
  <2> QED BY <2>1
<1>3. d * q \in Nat /\ d * k \in Nat /\ k * d = d * k
  BY <1>1
<1>4. q < k => d * q + d <= d * k
  BY <1>1, <1>2
<1>5. k < q => d * k + d <= d * q
  BY <1>1, <1>2
<1>6. q = k <=> d * k <= x /\ x < d * k + d
  <2>1. q = k => d * k <= x /\ x < d * k + d
    BY <1>1
  <2>2. d * k <= x /\ x < d * k + d => ~(q < k) /\ ~(k < q)
    BY <1>1, <1>3, <1>4, <1>5
  <2>3. ~(q < k) /\ ~(k < q) => q = k
    BY <1>1
  <2> QED BY <2>1, <2>2, <2>3
<1> QED BY <1>1, <1>3, <1>6 DEF q

\* The lesser of two.
LEMMA MinOfTwo ==
  ASSUME NEW a \in Int, NEW b \in Int
  PROVE  Min({a, b}) = IF a <= b THEN a ELSE b
BY DEF Min

\* A part of a sequence.
LEMMA SubSeqIs ==
  ASSUME NEW S, NEW s \in Seq(S), NEW from \in Int, NEW to \in Int
  PROVE  SubSeq(s, from, to) = [j \in 1..1 + to - from |-> s[j + from - 1]]
OBVIOUS

\* The trades of the batch in chunk k, from 0.
Group(in, size, k) == {x \in DOMAIN in.trades : (x - 1) \div size = k}

\* They are those of the chunk, in order.
LEMMA TradesOfIs ==
  ASSUME NEW in, IsCircuitInputs(in), NEW size \in Nat \ {0}, NEW k \in Nat
  PROVE  LET c == TradesOf(in, size, k)
         IN /\ Len(c) \in Nat /\ DOMAIN c = 1..Len(c)
            /\ Group(in, size, k) = k * size + 1..k * size + Len(c)
            /\ \A j \in 1..Len(c) : c[j] = in.trades[k * size + j]
<1> DEFINE n == Len(in.trades)
           lo == k * size
           hi == Min({(k + 1) * size, n})
           m == IF hi >= lo THEN hi - lo ELSE 0
           c == TradesOf(in, size, k)
<1>1. in.trades \in Seq(TradeRecord)
  BY TypesOf
<1>2. n \in Nat /\ DOMAIN in.trades = 1..n
  BY <1>1
<1>3. lo \in Nat /\ (k + 1) * size = lo + size
  OBVIOUS
<1> HIDE DEF lo
<1>4. hi = IF lo + size <= n THEN lo + size ELSE n
  BY <1>2, <1>3, MinOfTwo
<1>5. c = SubSeq(in.trades, lo + 1, hi)
  BY DEF TradesOf, lo
<1> HIDE DEF hi, c
<1>6. hi \in Nat
  BY <1>2, <1>3, <1>4
<1>7. c = [j \in 1..1 + hi - (lo + 1) |-> in.trades[j + (lo + 1) - 1]]
  <2> DEFINE from == lo + 1
  <2>1. from \in Int /\ hi \in Int
    BY <1>3, <1>6
  <2> DEFINE s == in.trades
  <2>2. s \in Seq(TradeRecord)
    BY <1>1
  <2> HIDE DEF from, s
  <2>3. SubSeq(s, from, hi) = [j \in 1..1 + hi - from |-> s[j + from - 1]]
    BY <2>1, <2>2, SubSeqIs
  <2> QED BY <1>5, <2>3 DEF from, s
<1>8. 1..1 + hi - (lo + 1) = 1..m /\ \A j \in 1..m : j + (lo + 1) - 1 = lo + j
  BY <1>3, <1>6
<1>9. m \in Nat
  BY <1>3, <1>6
<1> HIDE DEF m
<1>10. DOMAIN c = 1..m /\ c = [j \in 1..m |-> c[j]] /\ \A j \in 1..m : c[j] = in.trades[lo + j]
  BY <1>7, <1>8
<1>11. Len(c) = m
  BY <1>9, <1>10, LenOf
<1>12. Group(in, size, k) = lo + 1..lo + m
  <2>1. ASSUME NEW x \in 1..n
        PROVE  (x - 1) \div size = k <=> lo <= x - 1 /\ x - 1 < lo + size
    <3>1. x - 1 \in Nat
      BY <1>2
    <3> QED BY <3>1, QuotientIs DEF lo
  <2>2. \A x \in 1..n : lo <= x - 1 /\ x - 1 < lo + size <=> x \in lo + 1..lo + m
    BY <1>2, <1>3, <1>4 DEF m
  <2>3. lo + 1..lo + m \subseteq 1..n
    BY <1>2, <1>3, <1>4 DEF m
  <2> QED BY <1>2, <2>1, <2>2, <2>3 DEF Group
<1> QED BY <1>9, <1>10, <1>11, <1>12 DEF lo, c

\* m ones make m.
LEMMA SumOnes ==
  ASSUME NEW f, NEW m \in Nat, \A j \in 1..m : f[j] = 1
  PROVE  SumFunctionOnSet(f, 1..m) = m
<1> DEFINE F(k) == SumFunctionOnSet(f, 1..k)
           S == {k \in Nat : k <= m => F(k) = k}
<1>1. 0 \in S
  <2>1. 1..0 = {}
    OBVIOUS
  <2>2. F(0) = 0
    BY <2>1, SumEmpty
  <2> HIDE DEF F
  <2> QED BY <2>2
<1>2. ASSUME NEW k \in Nat, k \in S
      PROVE  k + 1 \in S
  <2>1. SUFFICES ASSUME k + 1 <= m PROVE F(k + 1) = k + 1
    <3> HIDE DEF F
    <3>1. k + 1 \in Nat
      OBVIOUS
    <3> QED BY <3>1
  <2>2. F(k) = k
    <3> HIDE DEF F
    <3> QED BY <1>2, <2>1
  <2>3. 1..k + 1 = (1..k) \cup {k + 1} /\ k + 1 \notin 1..k /\ IsFiniteSet(1..k)
    BY FS_Interval
  <2>4. (\A j \in 1..k : f[j] \in Int) /\ f[k + 1] \in Int /\ f[k + 1] = 1
    BY <2>1
  <2>5. F(k + 1) = f[k + 1] + F(k)
    BY <2>3, <2>4, SumAdd
  <2> HIDE DEF F
  <2> QED BY <2>2, <2>4, <2>5
<1>3. Nat \subseteq S
  <2> HIDE DEF S
  <2> QED BY <1>1, <1>2, Induction
<1> HIDE DEF F
<1>4. F(m) = m
  BY <1>3
<1> QED BY <1>4 DEF F

\* One for each trade, to count them.
Ones(in) == [i \in DOMAIN in.trades |-> 1]

\* What the guest sums for a chunk, whatever the pool, is the sum over its
\* trades of the batch's amounts: a trade has in its chunk the outcome it has in
\* the batch.
LEMMA ChunkTotals ==
  ASSUME NEW in, IsCircuitInputs(in), NEW size \in Nat \ {0}, NEW k \in Nat, NEW pool
  PROVE  LET c == ChunkInputs(in, size, k, pool)
             g == Group(in, size, k)
         IN /\ net_payout(c) = SumFunctionOnSet(Nets(in), g)
            /\ total_winners_payout(c) = SumFunctionOnSet(Payouts(in), g)
            /\ total_losers_stake(c) = SumFunctionOnSet(LostStakes(in), g)
            /\ num_winners(c) = SumFunctionOnSet(Wins(in), g)
            /\ Len(c.trades) = SumFunctionOnSet(Ones(in), g)
<1> DEFINE c == ChunkInputs(in, size, k, pool)
           a == k * size
           m == Len(c.trades)
           n == Len(in.trades)
<1>1. c.trades = TradesOf(in, size, k) /\ c.ohlc = in.ohlc
  BY ChunkCarries
<1>2. in.trades \in Seq(TradeRecord)
  BY TypesOf
<1>3. DOMAIN in.trades = 1..n /\ n \in Nat
  BY <1>2
<1> HIDE DEF c, n
<1>4. /\ m \in Nat /\ DOMAIN c.trades = 1..m
      /\ Group(in, size, k) = a + 1..a + m
      /\ \A j \in 1..m : c.trades[j] = in.trades[a + j]
  BY <1>1, TradesOfIs
<1>5. a \in Nat
  OBVIOUS
<1> HIDE DEF a, m
<1> DEFINE p == [j \in 1..m |-> a + j]
           g == Group(in, size, k)
<1>6. /\ p \in Bijection(1..m, g) /\ g \subseteq DOMAIN in.trades
      /\ IsFiniteSet(1..m) /\ IsFiniteSet(g)
      /\ \A j \in 1..m : p[j] = a + j /\ p[j] \in DOMAIN in.trades
  <2>1. p \in [1..m -> g]
    BY <1>4, <1>5
  <2>2. \A i, j \in 1..m : p[i] = p[j] => i = j
    BY <1>4, <1>5
  <2>3. ASSUME NEW x \in g PROVE \E j \in 1..m : p[j] = x
    <3>1. x - a \in 1..m /\ a + (x - a) = x
      BY <1>4, <1>5
    <3> QED BY <3>1
  <2>4. g \subseteq DOMAIN in.trades
    BY DEF Group
  <2>5. IsFiniteSet(1..m) /\ IsFiniteSet(g)
    BY <1>4, <1>5, FS_Interval
  <2>6. \A j \in 1..m : p[j] = a + j
    OBVIOUS
  <2> HIDE DEF p, g
  <2>7. p \in Bijection(1..m, g)
    BY <2>1, <2>2, <2>3 DEF Bijection, Injection, Surjection, IsInjective
  <2> QED BY <2>1, <2>4, <2>5, <2>6, <2>7
<1> HIDE DEF p, g
<1>7. \A j \in 1..m : /\ Nets(c)[j] = Nets(in)[p[j]]
                      /\ Payouts(c)[j] = Payouts(in)[p[j]]
                      /\ LostStakes(c)[j] = LostStakes(in)[p[j]]
                      /\ Wins(c)[j] = Wins(in)[p[j]]
  <2> TAKE j \in 1..m
  <2>1. c.trades[j] = in.trades[p[j]] /\ j \in DOMAIN c.trades /\ p[j] \in DOMAIN in.trades
    BY <1>4, <1>6
  <2>2. \A t : Won(t, c) = Won(t, in)
    BY <1>1 DEF Won
  <2>3. \A t : NetOf(t, c) = NetOf(t, in) /\ TradePayout(t, c) = TradePayout(t, in)
    BY <2>2 DEF NetOf, TradePayout
  <2> QED BY <2>1, <2>2, <2>3 DEF Nets, Payouts, LostStakes, Wins
<1>8. \A j \in 1..m : /\ Nets(in)[p[j]] \in Int
                      /\ Payouts(in)[p[j]] \in Int
                      /\ LostStakes(in)[p[j]] \in Int
                      /\ Wins(in)[p[j]] \in Int
  BY <1>6, AmountsOf
<1> DEFINE J == 1..m
<1>9. p \in Bijection(J, g) /\ IsFiniteSet(J) /\ IsFiniteSet(g)
  BY <1>6
<1> HIDE DEF J
<1>10. /\ SumFunctionOnSet(Nets(c), J) = SumFunctionOnSet(Nets(in), g)
       /\ SumFunctionOnSet(Payouts(c), J) = SumFunctionOnSet(Payouts(in), g)
       /\ SumFunctionOnSet(LostStakes(c), J) = SumFunctionOnSet(LostStakes(in), g)
       /\ SumFunctionOnSet(Wins(c), J) = SumFunctionOnSet(Wins(in), g)
  <2>1. SumFunctionOnSet(Nets(c), J) = SumFunctionOnSet(Nets(in), g)
    <3>1. \A j \in J : Nets(in)[p[j]] \in Int /\ Nets(c)[j] = Nets(in)[p[j]]
      BY <1>7, <1>8 DEF J
    <3> QED BY <1>9, <3>1, SumRenamed
  <2>2. SumFunctionOnSet(Payouts(c), J) = SumFunctionOnSet(Payouts(in), g)
    <3>1. \A j \in J : Payouts(in)[p[j]] \in Int /\ Payouts(c)[j] = Payouts(in)[p[j]]
      BY <1>7, <1>8 DEF J
    <3> QED BY <1>9, <3>1, SumRenamed
  <2>3. SumFunctionOnSet(LostStakes(c), J) = SumFunctionOnSet(LostStakes(in), g)
    <3>1. \A j \in J : LostStakes(in)[p[j]] \in Int /\ LostStakes(c)[j] = LostStakes(in)[p[j]]
      BY <1>7, <1>8 DEF J
    <3> QED BY <1>9, <3>1, SumRenamed
  <2>4. SumFunctionOnSet(Wins(c), J) = SumFunctionOnSet(Wins(in), g)
    <3>1. \A j \in J : Wins(in)[p[j]] \in Int /\ Wins(c)[j] = Wins(in)[p[j]]
      BY <1>7, <1>8 DEF J
    <3> QED BY <1>9, <3>1, SumRenamed
  <2> QED BY <2>1, <2>2, <2>3, <2>4
<1>11. m = SumFunctionOnSet(Ones(in), g)
  <2> DEFINE ones == [j \in J |-> 1]
  <2>1. \A j \in J : Ones(in)[p[j]] \in Int /\ ones[j] = Ones(in)[p[j]] /\ ones[j] = 1
    BY <1>6 DEF Ones, J
  <2> HIDE DEF ones
  <2>2. SumFunctionOnSet(ones, J) = m
    BY <1>4, <2>1, SumOnes DEF J
  <2>3. SumFunctionOnSet(ones, J) = SumFunctionOnSet(Ones(in), g)
    BY <1>9, <2>1, SumRenamed
  <2> QED BY <2>2, <2>3
<1> QED BY <1>4, <1>10, <1>11, TotalsAre DEF c, m, g, J

-----------------------------------------------------------------------------
\* The pool, chunk by chunk.

\* The net and the fees of a chunk do not depend on the pool it is computed
\* against; the pool after it is the pool before it less net and keeper fee.
LEMMA ChunkPool ==
  ASSUME NEW in, IsCircuitInputs(in), NEW size \in Nat \ {0}, NEW k \in Nat, NEW pool \in Int
  PROVE  LET c == ChunkInputs(in, size, k, pool)
         IN /\ net_payout(c) \in Int
            /\ keeper_fee(c) = PartOf(Distance(net_payout(c), 0), in.keeper_fee_bps)
            /\ protocol_fee(c)
                 = PartOf(IF net_payout(c) < 0 THEN -net_payout(c) ELSE 0, in.protocol_fee_bps)
            /\ keeper_fee(c) \in Nat /\ protocol_fee(c) \in Nat
            /\ pool_balance_after(c) = pool - net_payout(c) - keeper_fee(c)
            /\ pool_balance_after(c) \in Int
<1> DEFINE c == ChunkInputs(in, size, k, pool)
           g == Group(in, size, k)
<1>1. /\ c.pool_balance_before = pool /\ c.keeper_fee_bps = in.keeper_fee_bps
      /\ c.protocol_fee_bps = in.protocol_fee_bps
  BY ChunkCarries
<1>2. in.keeper_fee_bps \in Nat /\ in.protocol_fee_bps \in Nat
  BY TypesOf, GuestConstants DEF U64
<1>3. net_payout(c) \in Int
  <2>1. net_payout(c) = SumFunctionOnSet(Nets(in), g)
    BY ChunkTotals
  <2>2. in.trades \in Seq(TradeRecord)
    BY TypesOf
  <2>3. IsFiniteSet(DOMAIN in.trades)
    <3> DEFINE n == Len(in.trades)
    <3>1. DOMAIN in.trades = 1..n /\ n \in Nat
      BY <2>2
    <3> HIDE DEF n
    <3> QED BY <3>1, FS_Interval
  <2>4. IsFiniteSet(g) /\ g \subseteq DOMAIN in.trades
    <3>1. g \subseteq DOMAIN in.trades
      BY DEF Group
    <3> HIDE DEF g
    <3> QED BY <2>3, <3>1, FS_Subset
  <2>5. \A x \in g : Nets(in)[x] \in Int
    BY <2>4, AmountsOf
  <2> HIDE DEF g, c
  <2> QED BY <2>1, <2>4, <2>5, SumInt
<1> HIDE DEF c
<1>4. \A a, b \in Nat : PartOf(a, b) \in Nat
  <2>1. \A a, b \in Nat : a * b \in Nat
    OBVIOUS
  <2> QED BY <2>1, Shares DEF PartOf
<1>5. keeper_fee(c) = PartOf(Distance(net_payout(c), 0), in.keeper_fee_bps)
  BY <1>1 DEF keeper_fee
<1>6. protocol_fee(c)
        = PartOf(IF net_payout(c) < 0 THEN -net_payout(c) ELSE 0, in.protocol_fee_bps)
  <2>1. PartOf(0, in.protocol_fee_bps) = 0
    BY <1>2, GuestConstants DEF PartOf
  <2> QED BY <1>1, <2>1 DEF protocol_fee
<1>7. keeper_fee(c) \in Nat
  <2>1. Distance(net_payout(c), 0) \in Nat
    BY <1>3 DEF Distance
  <2> QED BY <1>2, <1>4, <1>5, <2>1
<1>8. protocol_fee(c) \in Nat
  <2>1. (IF net_payout(c) < 0 THEN -net_payout(c) ELSE 0) \in Nat
    BY <1>3
  <2> QED BY <1>2, <1>4, <1>6, <2>1
<1>9. pool_balance_after(c) = pool - net_payout(c) - keeper_fee(c)
  BY <1>1 DEF pool_balance_after, BeforeKeeperFee
<1>10. pool_balance_after(c) \in Int
  BY <1>3, <1>7, <1>9
<1> QED BY <1>3, <1>5, <1>6, <1>7, <1>8, <1>9, <1>10 DEF c

\* The pool goes from chunk to chunk.
LEMMA PoolRolls ==
  ASSUME NEW in, IsCircuitInputs(in), NEW size \in Nat \ {0}
  PROVE  /\ rolling_pool_balance(in, size, 0) = in.pool_balance_before
         /\ \A k \in Nat :
              /\ rolling_pool_balance(in, size, k) \in Int
              /\ rolling_pool_balance(in, size, k + 1)
                   = pool_balance_after(
                       ChunkInputs(in, size, k, rolling_pool_balance(in, size, k)))
<1> DEFINE After(n, pool) == pool_balance_after(ChunkInputs(in, size, n - 1, pool))
           V == Int
           h == [n \in Nat |-> [pool \in V |-> IF n = 0 THEN 0 ELSE After(n, pool)]]
           v == in.pool_balance_before
           Solves(f) == f = [n \in Nat |-> IF n = 0 THEN v ELSE After(n, f[n - 1])]
<1>1. \A n \in Nat \ {0}, pool \in Int : After(n, pool) \in Int
  <2> TAKE n \in Nat \ {0}, pool \in Int
  <2>1. n - 1 \in Nat
    OBVIOUS
  <2> QED BY <2>1, ChunkPool
<1>2. v \in V
  BY TypesOf, GuestConstants DEF U64
<1> HIDE DEF After, v
<1>3. \A n \in Nat : h[n] \in [V -> V]
  BY <1>1
<1>4. PICK f \in [Nat -> V] : f[0] = v /\ \A n \in Nat \ {0} : f[n] = h[n][f[n - 1]]
  <2> HIDE DEF V, h
  <2>1. \E f \in [Nat -> V] : Recurs(v, h, f)
    BY <1>2, <1>3, Recursion
  <2> QED BY <2>1 DEF Recurs
<1>5. Solves(f)
  <2>1. ASSUME NEW n \in Nat \ {0}
        PROVE  f[n] = After(n, f[n - 1])
    <3>1. n - 1 \in Nat
      OBVIOUS
    <3>2. f[n - 1] \in V
      BY <3>1
    <3>3. h[n][f[n - 1]] = After(n, f[n - 1])
      BY <3>2
    <3> HIDE DEF h
    <3> QED BY <1>4, <3>3
  <2>2. f = [n \in Nat |-> f[n]]
    OBVIOUS
  <2> HIDE DEF h
  <2> QED BY <1>4, <2>1, <2>2
<1> DEFINE pool == CHOOSE g : Solves(g)
<1>6. Solves(pool)
  <2> HIDE DEF Solves
  <2> QED BY <1>5
<1>7. \A k \in Nat : rolling_pool_balance(in, size, k) = pool[k]
  BY DEF rolling_pool_balance, After, v
<1> HIDE DEF pool
<1>8. pool[0] = v
  BY <1>6
<1>9. \A n \in Nat \ {0} : pool[n] = After(n, pool[n - 1])
  BY <1>6
<1>10. \A n \in Nat : pool[n + 1] = After(n + 1, pool[n]) /\ (n + 1) - 1 = n
  <2> TAKE n \in Nat
  <2>1. n + 1 \in Nat \ {0} /\ (n + 1) - 1 = n
    OBVIOUS
  <2> QED BY <1>9, <2>1
<1> DEFINE S == {n \in Nat : pool[n] \in Int}
<1>11. Nat \subseteq S
  <2>1. 0 \in S
    BY <1>2, <1>8
  <2>2. ASSUME NEW n \in Nat, n \in S
        PROVE  n + 1 \in S
    <3>1. n + 1 \in Nat \ {0}
      OBVIOUS
    <3> QED BY <1>1, <1>10, <2>2, <3>1
  <2> HIDE DEF S
  <2> QED BY <2>1, <2>2, Induction
<1>12. \A n \in Nat : After(n + 1, pool[n])
                        = pool_balance_after(ChunkInputs(in, size, n, pool[n]))
  BY <1>10 DEF After
<1>13. \A n \in Nat : pool[n] \in Int /\ n + 1 \in Nat
  BY <1>11
<1> QED BY <1>7, <1>8, <1>10, <1>12, <1>13 DEF v

\* The chunks in turn, as inputs of the guest.
LEMMA InnerIs ==
  ASSUME BatchInv, NEW i \in Nat \ {0}
  PROVE  /\ IsCircuitInputs(base) /\ chunk_size \in Nat \ {0} /\ i - 1 \in Nat
         /\ rolling_pool_balance(base, chunk_size, i - 1) \in Int
         /\ Inner(i) = ChunkInputs(base, chunk_size, i - 1,
                                   rolling_pool_balance(base, chunk_size, i - 1))
         /\ Inner(i).pool_balance_before = rolling_pool_balance(base, chunk_size, i - 1)
         /\ rolling_pool_balance(base, chunk_size, i) = pool_balance_after(Inner(i))
<1>1. IsCircuitInputs(base) /\ chunk_size \in Nat \ {0}
  BY BatchIsInputs, ChunkSizesPositive DEF BatchInv
<1>2. i - 1 \in Nat /\ (i - 1) + 1 = i
  OBVIOUS
<1>3. Inner(i) = ChunkInputs(base, chunk_size, i - 1,
                             rolling_pool_balance(base, chunk_size, i - 1))
  BY DEF Inner, Chunk
<1>4. /\ rolling_pool_balance(base, chunk_size, i - 1) \in Int
      /\ rolling_pool_balance(base, chunk_size, (i - 1) + 1) = pool_balance_after(Inner(i))
  BY <1>1, <1>2, <1>3, PoolRolls
<1>5. Inner(i).pool_balance_before = rolling_pool_balance(base, chunk_size, i - 1)
  BY <1>1, <1>3, ChunkCarries
<1> QED BY <1>1, <1>2, <1>3, <1>4, <1>5

-----------------------------------------------------------------------------
\* The whole.

\* Every trade is in one chunk.
LEMMA GroupsMakeBatch ==
  ASSUME NEW in, IsCircuitInputs(in), NEW size \in Nat \ {0},
         NEW f, \A x \in DOMAIN in.trades : f[x] \in Int,
         NEW g, \A i \in 1..total_chunks(in, size) :
                  g[i] = SumFunctionOnSet(f, Group(in, size, i - 1))
  PROVE  SumFunctionOnSet(g, 1..total_chunks(in, size)) = SumFunctionOnSet(f, DOMAIN in.trades)
<1> DEFINE D == DOMAIN in.trades
           n == Len(in.trades)
           t == total_chunks(in, size)
           p == [x \in D |-> (x - 1) \div size + 1]
           G == 1..t
           by == [i \in G |-> SumFunctionOnSet(f, {x \in D : p[x] = i})]
<1>1. D = 1..n /\ n \in Nat /\ t \in Nat
  BY SplitIs
<1>2. t = (n + size - 1) \div size
  BY DEF total_chunks
<1> HIDE DEF t, n, D
<1>3. IsFiniteSet(G) /\ IsFiniteSet(D)
  <2>1. 1 \in Int /\ t \in Int /\ n \in Int
    BY <1>1
  <2>2. IsFiniteSet(1..t) /\ IsFiniteSet(1..n)
    BY <2>1, FS_Interval
  <2> QED BY <1>1, <2>2
<1>4. \A x \in D : /\ (x - 1) \div size \in Nat
                   /\ p[x] \in G
  <2> TAKE x \in D
  <2>1. x - 1 \in Nat /\ n + size - 1 \in Nat /\ x <= n
    BY <1>1
  <2> DEFINE q == (x - 1) \div size
  <2>2. q \in Nat /\ q * size <= x - 1
    <3>1. q \in Nat
      BY <2>1, QuotientIs
    <3> QED BY <2>1, <3>1, QuotientIs
  <2>3. t \in Nat /\ n + size - 1 < t * size + size
    BY <1>1, <1>2, <2>1, QuotientIs
  <2>4. p[x] = q + 1
    OBVIOUS
  <2> HIDE DEF q, p
  <2>5. q < t
    <3>1. SUFFICES ASSUME t <= q PROVE FALSE
      BY <2>2, <2>3
    <3>2. t * size <= q * size
      BY <2>2, <2>3, <3>1
    <3>3. t * size \in Nat /\ q * size \in Nat
      BY <2>2, <2>3
    <3> DEFINE a == t * size
               b == q * size
    <3>4. a \in Nat /\ b \in Nat /\ a <= b /\ b <= x - 1 /\ n + size - 1 < a + size
      BY <2>2, <2>3, <3>2, <3>3
    <3> HIDE DEF a, b
    <3> QED BY <1>1, <2>1, <3>4
  <2>6. q + 1 \in G
    BY <2>2, <2>3, <2>5
  <2> HIDE DEF G
  <2> QED BY <2>2, <2>4, <2>6 DEF q
<1>5. \A i \in G : by[i] = g[i] /\ by[i] \in Int
  <2> TAKE i \in G
  <2>1. {x \in D : p[x] = i} = Group(in, size, i - 1)
    <3>1. \A x \in D : p[x] = i <=> (x - 1) \div size = i - 1
      <4> TAKE x \in D
      <4>1. (x - 1) \div size \in Nat /\ p[x] = (x - 1) \div size + 1 /\ i \in Nat
        BY <1>1, <1>4
      <4> QED BY <4>1
    <3> HIDE DEF p
    <3> QED BY <3>1 DEF Group, D
  <2>2. by[i] = SumFunctionOnSet(f, Group(in, size, i - 1))
    BY <2>1
  <2>3. Group(in, size, i - 1) \subseteq D
    BY DEF Group, D
  <2>4. IsFiniteSet(Group(in, size, i - 1)) /\ \A x \in Group(in, size, i - 1) : f[x] \in Int
    BY <1>3, <2>3, FS_Subset DEF D
  <2>5. SumFunctionOnSet(f, Group(in, size, i - 1)) \in Int
    BY <2>4, SumInt
  <2> QED BY <2>2, <2>5 DEF t
<1>6. SumFunctionOnSet(by, G) = SumFunctionOnSet(f, D)
  <2>1. \A x \in D : f[x] \in Int /\ p[x] \in G
    BY <1>4 DEF D
  <2> HIDE DEF p, G
  <2> QED BY <1>3, <2>1, SumByGroup
<1>7. SumFunctionOnSet(g, G) = SumFunctionOnSet(by, G)
  <2> HIDE DEF by, G
  <2> QED BY <1>3, <1>5, SumSame
<1> QED BY <1>6, <1>7 DEF t, D

\* What is aggregated are the sums over all chunks.
LEMMA AggregateSums ==
  ASSUME CircuitInv, phase = "aggregated"
  PROVE  LET t == total_chunks(base, chunk_size)
         IN /\ BatchInv /\ IsCircuitInputs(base) /\ chunk_size \in Nat \ {0}
            /\ t \in Nat /\ t >= 1
            /\ DOMAIN aggregate.chunks = 1..t /\ Len(aggregate.chunks) = t
            /\ \A k \in 1..t : aggregate.chunks[k] = ProofOf(k)
            /\ aggregate.num_trades
                 = SumFunctionOnSet([i \in 1..t |-> Len(Inner(i).trades)], 1..t)
            /\ aggregate.num_winners
                 = SumFunctionOnSet([i \in 1..t |-> num_winners(Inner(i))], 1..t)
            /\ aggregate.num_losers
                 = SumFunctionOnSet([i \in 1..t |-> Len(Inner(i).trades)
                                                    - num_winners(Inner(i))], 1..t)
            /\ aggregate.total_winners_payout
                 = SumFunctionOnSet([i \in 1..t |-> total_winners_payout(Inner(i))], 1..t)
            /\ aggregate.total_losers_stake
                 = SumFunctionOnSet([i \in 1..t |-> total_losers_stake(Inner(i))], 1..t)
            /\ aggregate.net_payout
                 = SumFunctionOnSet([i \in 1..t |-> net_payout(Inner(i))], 1..t)
            /\ aggregate.keeper_fee
                 = SumFunctionOnSet([i \in 1..t |-> keeper_fee(Inner(i))], 1..t)
            /\ aggregate.protocol_fee
                 = SumFunctionOnSet([i \in 1..t |-> protocol_fee(Inner(i))], 1..t)
<1> DEFINE t == total_chunks(base, chunk_size)
           c == InOrder(proved_chunks)
<1>1. /\ t \in Nat /\ t >= 1 /\ DOMAIN c = 1..t /\ Len(c) = t
      /\ \A k \in 1..t : c[k] = ProofOf(k)
  BY ProofsInOrder DEF CircuitInv, AggregateInv
<1>2. BatchInv /\ IsCircuitInputs(base) /\ chunk_size \in Nat \ {0}
  BY ChunksAre DEF CircuitInv
<1>3. aggregate = Sums(c)
  BY DEF CircuitInv, AggregateInv
<1> HIDE DEF c, t
<1>4. aggregate.chunks = c
  BY <1>3 DEF Sums
<1>5. \A k \in 1..t : c[k].outputs = PublicOutputs(Inner(k))
  BY <1>1 DEF ProofOf
<1>6. /\ aggregate.num_trades = SumFunction([i \in DOMAIN c |-> c[i].outputs.num_trades])
      /\ aggregate.num_winners = SumFunction([i \in DOMAIN c |-> c[i].outputs.num_winners])
      /\ aggregate.num_losers = SumFunction([i \in DOMAIN c |-> c[i].outputs.num_losers])
      /\ aggregate.total_winners_payout
           = SumFunction([i \in DOMAIN c |-> c[i].outputs.total_winners_payout])
      /\ aggregate.total_losers_stake
           = SumFunction([i \in DOMAIN c |-> c[i].outputs.total_losers_stake])
      /\ aggregate.net_payout = SumFunction([i \in DOMAIN c |-> c[i].outputs.net_payout])
      /\ aggregate.keeper_fee = SumFunction([i \in DOMAIN c |-> c[i].outputs.keeper_fee])
      /\ aggregate.protocol_fee = SumFunction([i \in DOMAIN c |-> c[i].outputs.protocol_fee])
  BY <1>3 DEF Sums
<1>7. /\ [i \in DOMAIN c |-> c[i].outputs.num_trades] = [i \in 1..t |-> Len(Inner(i).trades)]
      /\ [i \in DOMAIN c |-> c[i].outputs.num_winners] = [i \in 1..t |-> num_winners(Inner(i))]
      /\ [i \in DOMAIN c |-> c[i].outputs.num_losers]
           = [i \in 1..t |-> Len(Inner(i).trades) - num_winners(Inner(i))]
      /\ [i \in DOMAIN c |-> c[i].outputs.total_winners_payout]
           = [i \in 1..t |-> total_winners_payout(Inner(i))]
      /\ [i \in DOMAIN c |-> c[i].outputs.total_losers_stake]
           = [i \in 1..t |-> total_losers_stake(Inner(i))]
      /\ [i \in DOMAIN c |-> c[i].outputs.net_payout] = [i \in 1..t |-> net_payout(Inner(i))]
      /\ [i \in DOMAIN c |-> c[i].outputs.keeper_fee] = [i \in 1..t |-> keeper_fee(Inner(i))]
      /\ [i \in DOMAIN c |-> c[i].outputs.protocol_fee]
           = [i \in 1..t |-> protocol_fee(Inner(i))]
  <2>1. \A k \in 1..t :
          /\ c[k].outputs.num_trades = Len(Inner(k).trades)
          /\ c[k].outputs.num_winners = num_winners(Inner(k))
          /\ c[k].outputs.num_losers = Len(Inner(k).trades) - num_winners(Inner(k))
          /\ c[k].outputs.total_winners_payout = total_winners_payout(Inner(k))
          /\ c[k].outputs.total_losers_stake = total_losers_stake(Inner(k))
          /\ c[k].outputs.net_payout = net_payout(Inner(k))
          /\ c[k].outputs.keeper_fee = keeper_fee(Inner(k))
          /\ c[k].outputs.protocol_fee = protocol_fee(Inner(k))
    <3> TAKE k \in 1..t
    <3> DEFINE in == Inner(k)
               o == PublicOutputs(in)
    <3>1. /\ o.num_trades = Len(in.trades)
          /\ o.num_winners = num_winners(in)
          /\ o.num_losers = Len(in.trades) - num_winners(in)
          /\ o.total_winners_payout = total_winners_payout(in)
          /\ o.total_losers_stake = total_losers_stake(in)
          /\ o.net_payout = net_payout(in)
          /\ o.keeper_fee = keeper_fee(in)
          /\ o.protocol_fee = protocol_fee(in)
      <4> HIDE DEF in
      <4> QED BY DEF PublicOutputs
    <3>2. c[k].outputs = o
      BY <1>5
    <3> HIDE DEF o, in
    <3> QED BY <3>1, <3>2 DEF in
  <2> QED BY <1>1, <2>1
<1> QED BY <1>1, <1>2, <1>4, <1>6, <1>7 DEF t, SumFunction

\* The sums of a chunk, over its trades in the batch, and what it does to the
\* pool.
LEMMA InnerTotals ==
  ASSUME BatchInv, NEW i \in Nat \ {0}
  PROVE  LET c == Inner(i)
             g == Group(base, chunk_size, i - 1)
         IN /\ net_payout(c) = SumFunctionOnSet(Nets(base), g)
            /\ total_winners_payout(c) = SumFunctionOnSet(Payouts(base), g)
            /\ total_losers_stake(c) = SumFunctionOnSet(LostStakes(base), g)
            /\ num_winners(c) = SumFunctionOnSet(Wins(base), g)
            /\ Len(c.trades) = SumFunctionOnSet(Ones(base), g)
            /\ net_payout(c) \in Int
            /\ keeper_fee(c) = PartOf(Distance(net_payout(c), 0), base.keeper_fee_bps)
            /\ protocol_fee(c) = PartOf(IF net_payout(c) < 0 THEN -net_payout(c) ELSE 0,
                                        base.protocol_fee_bps)
            /\ keeper_fee(c) \in Nat /\ protocol_fee(c) \in Nat
            /\ pool_balance_after(c)
                 = rolling_pool_balance(base, chunk_size, i - 1) - net_payout(c) - keeper_fee(c)
<1> DEFINE k == i - 1
           pool == rolling_pool_balance(base, chunk_size, k)
<1>1. /\ IsCircuitInputs(base) /\ chunk_size \in Nat \ {0} /\ k \in Nat /\ pool \in Int
      /\ Inner(i) = ChunkInputs(base, chunk_size, k, pool)
  BY InnerIs
<1> HIDE DEF k, pool
<1>2. LET c == Inner(i)
          g == Group(base, chunk_size, k)
      IN /\ net_payout(c) = SumFunctionOnSet(Nets(base), g)
         /\ total_winners_payout(c) = SumFunctionOnSet(Payouts(base), g)
         /\ total_losers_stake(c) = SumFunctionOnSet(LostStakes(base), g)
         /\ num_winners(c) = SumFunctionOnSet(Wins(base), g)
         /\ Len(c.trades) = SumFunctionOnSet(Ones(base), g)
  BY <1>1, ChunkTotals
<1>3. LET c == Inner(i)
      IN /\ net_payout(c) \in Int
         /\ keeper_fee(c) = PartOf(Distance(net_payout(c), 0), base.keeper_fee_bps)
         /\ protocol_fee(c) = PartOf(IF net_payout(c) < 0 THEN -net_payout(c) ELSE 0,
                                     base.protocol_fee_bps)
         /\ keeper_fee(c) \in Nat /\ protocol_fee(c) \in Nat
         /\ pool_balance_after(c) = pool - net_payout(c) - keeper_fee(c)
  BY <1>1, ChunkPool
<1> QED BY <1>2, <1>3 DEF k, pool

\* The amounts of the batch are integers on its trades.
LEMMA BatchAmounts ==
  ASSUME NEW in, IsCircuitInputs(in)
  PROVE  /\ IsFiniteSet(DOMAIN in.trades)
         /\ \A x \in DOMAIN in.trades :
              /\ Nets(in)[x] \in Int /\ Payouts(in)[x] \in Int /\ LostStakes(in)[x] \in Int
              /\ Wins(in)[x] \in Int /\ Ones(in)[x] \in Int /\ Ones(in)[x] = 1
         /\ SumFunctionOnSet(Ones(in), DOMAIN in.trades) = Len(in.trades)
<1> DEFINE n == Len(in.trades)
<1>1. in.trades \in Seq(TradeRecord)
  BY TypesOf
<1>2. DOMAIN in.trades = 1..n /\ n \in Nat
  BY <1>1
<1> HIDE DEF n
<1>3. IsFiniteSet(1..n)
  BY <1>2, FS_Interval
<1>4. \A x \in 1..n : Ones(in)[x] = 1
  BY <1>2 DEF Ones
<1>5. SumFunctionOnSet(Ones(in), 1..n) = n
  BY <1>2, <1>4, SumOnes
<1>6. \A x \in DOMAIN in.trades :
        /\ Nets(in)[x] \in Int /\ Payouts(in)[x] \in Int /\ LostStakes(in)[x] \in Int
        /\ Wins(in)[x] \in Int
  BY AmountsOf
<1> QED BY <1>2, <1>3, <1>4, <1>5, <1>6 DEF n

\* What the pool has left after some chunks.
LEMMA PoolLeft ==
  ASSUME BatchInv, NEW t \in Nat, NEW net, NEW fee,
         \A i \in 1..t : net[i] = net_payout(Inner(i)) /\ fee[i] = keeper_fee(Inner(i))
  PROVE  rolling_pool_balance(base, chunk_size, t)
           = base.pool_balance_before - SumFunctionOnSet(net, 1..t) - SumFunctionOnSet(fee, 1..t)
<1> DEFINE N(k) == SumFunctionOnSet(net, 1..k)
           F(k) == SumFunctionOnSet(fee, 1..k)
           Pool(k) == rolling_pool_balance(base, chunk_size, k)
           S == {k \in Nat : k <= t => /\ Pool(k) = base.pool_balance_before - N(k) - F(k)
                                       /\ N(k) \in Int /\ F(k) \in Int}
<1>1. IsCircuitInputs(base) /\ chunk_size \in Nat \ {0} /\ base.pool_balance_before \in Int
  BY BatchIsInputs, ChunkSizesPositive, TypesOf, GuestConstants DEF BatchInv, U64
<1>2. 0 \in S
  <2>1. 1..0 = {}
    OBVIOUS
  <2>2. N(0) = 0 /\ F(0) = 0
    BY <2>1, SumEmpty
  <2>3. Pool(0) = base.pool_balance_before
    BY <1>1, PoolRolls
  <2> HIDE DEF N, F, Pool
  <2> QED BY <1>1, <2>2, <2>3
<1>3. ASSUME NEW k \in Nat, k \in S
      PROVE  k + 1 \in S
  <2> DEFINE i == k + 1
  <2>1. SUFFICES ASSUME i <= t
                 PROVE  /\ Pool(i) = base.pool_balance_before - N(i) - F(i)
                        /\ N(i) \in Int /\ F(i) \in Int
    <3> HIDE DEF N, F, Pool
    <3>1. k + 1 \in Nat
      OBVIOUS
    <3> QED BY <3>1
  <2>2. /\ Pool(k) = base.pool_balance_before - N(k) - F(k)
        /\ N(k) \in Int /\ F(k) \in Int
    <3> HIDE DEF N, F, Pool
    <3> QED BY <1>3, <2>1
  <2>3. i \in Nat \ {0} /\ i - 1 = k /\ i \in 1..t
    BY <2>1
  <2>4. /\ 1..i = (1..k) \cup {i} /\ i \notin 1..k /\ IsFiniteSet(1..k)
    BY FS_Interval
  <2> HIDE DEF i
  <2>5. /\ net[i] = net_payout(Inner(i)) /\ fee[i] = keeper_fee(Inner(i))
        /\ net[i] \in Int /\ fee[i] \in Int
    BY <2>3, InnerTotals
  <2>6. \A j \in 1..k : net[j] \in Int /\ fee[j] \in Int
    <3> TAKE j \in 1..k
    <3>1. j \in 1..t /\ j \in Nat \ {0}
      BY <2>1, <2>3
    <3> QED BY <3>1, InnerTotals
  <2>7. N(i) = net[i] + N(k) /\ F(i) = fee[i] + F(k)
    BY <2>4, <2>5, <2>6, SumAdd
  <2>8. Pool(i) = Pool(k) - net[i] - fee[i]
    <3>1. Pool(i) = pool_balance_after(Inner(i))
      BY <2>3, InnerIs
    <3>2. pool_balance_after(Inner(i))
            = rolling_pool_balance(base, chunk_size, i - 1) - net_payout(Inner(i))
              - keeper_fee(Inner(i))
      BY <2>3, InnerTotals
    <3> QED BY <2>3, <2>5, <3>1, <3>2
  <2> HIDE DEF N, F, Pool
  <2> QED BY <1>1, <2>2, <2>5, <2>7, <2>8
<1>4. Nat \subseteq S
  <2> HIDE DEF S
  <2> QED BY <1>2, <1>3, Induction
<1> HIDE DEF N, F, Pool
<1>5. Pool(t) = base.pool_balance_before - N(t) - F(t)
  BY <1>4
<1> QED BY <1>5 DEF N, F, Pool

\* Chunks partition the trades, a trade has the same outcome in its chunk, and
\* each chunk starts from the pool the one before leaves.
THEOREM AggregateIsWholeCorrect == Spec => []AggregateIsWhole
<1>1. CircuitInv => AggregateIsWhole
  <2> SUFFICES ASSUME CircuitInv, phase = "aggregated"
               PROVE  LET c == aggregate.chunks IN
                      /\ aggregate.num_trades = Len(base.trades)
                      /\ aggregate.num_winners = num_winners(base)
                      /\ aggregate.num_losers = Len(base.trades) - num_winners(base)
                      /\ aggregate.net_payout = net_payout(base)
                      /\ aggregate.total_winners_payout = total_winners_payout(base)
                      /\ aggregate.total_losers_stake = total_losers_stake(base)
                      /\ c[1].outputs.pool_balance_before = base.pool_balance_before
                      /\ \A i \in 2..Len(c) : c[i].outputs.pool_balance_before
                                                = c[i - 1].outputs.pool_balance_after
                      /\ c[Len(c)].outputs.pool_balance_after
                           = base.pool_balance_before - aggregate.net_payout
                             - aggregate.keeper_fee
    BY DEF AggregateIsWhole
  <2> DEFINE t == total_chunks(base, chunk_size)
             c == aggregate.chunks
             D == DOMAIN base.trades
             trades == [i \in 1..t |-> Len(Inner(i).trades)]
             winners == [i \in 1..t |-> num_winners(Inner(i))]
             losers == [i \in 1..t |-> Len(Inner(i).trades) - num_winners(Inner(i))]
             payouts == [i \in 1..t |-> total_winners_payout(Inner(i))]
             stakes == [i \in 1..t |-> total_losers_stake(Inner(i))]
             nets == [i \in 1..t |-> net_payout(Inner(i))]
             fees == [i \in 1..t |-> keeper_fee(Inner(i))]
  <2>1. /\ BatchInv /\ IsCircuitInputs(base) /\ chunk_size \in Nat \ {0}
        /\ t \in Nat /\ t >= 1 /\ Len(c) = t
        /\ \A k \in 1..t : c[k] = ProofOf(k)
    BY AggregateSums
  <2>2. /\ aggregate.num_trades = SumFunctionOnSet(trades, 1..t)
        /\ aggregate.num_winners = SumFunctionOnSet(winners, 1..t)
        /\ aggregate.num_losers = SumFunctionOnSet(losers, 1..t)
        /\ aggregate.total_winners_payout = SumFunctionOnSet(payouts, 1..t)
        /\ aggregate.total_losers_stake = SumFunctionOnSet(stakes, 1..t)
        /\ aggregate.net_payout = SumFunctionOnSet(nets, 1..t)
        /\ aggregate.keeper_fee = SumFunctionOnSet(fees, 1..t)
    BY AggregateSums
  <2>3. \A i \in 1..t : i \in Nat \ {0}
    BY <2>1
  <2>4. \A i \in 1..t : /\ trades[i] = SumFunctionOnSet(Ones(base), Group(base, chunk_size, i - 1))
                        /\ winners[i] = SumFunctionOnSet(Wins(base), Group(base, chunk_size, i - 1))
                        /\ payouts[i]
                             = SumFunctionOnSet(Payouts(base), Group(base, chunk_size, i - 1))
                        /\ stakes[i]
                             = SumFunctionOnSet(LostStakes(base), Group(base, chunk_size, i - 1))
                        /\ nets[i] = SumFunctionOnSet(Nets(base), Group(base, chunk_size, i - 1))
    BY <2>1, <2>3, InnerTotals
  <2>5. /\ IsFiniteSet(D)
        /\ \A x \in D :
             /\ Nets(base)[x] \in Int /\ Payouts(base)[x] \in Int /\ LostStakes(base)[x] \in Int
             /\ Wins(base)[x] \in Int /\ Ones(base)[x] \in Int
        /\ SumFunctionOnSet(Ones(base), D) = Len(base.trades)
    BY <2>1, BatchAmounts
  <2> HIDE DEF trades, winners, payouts, stakes, nets, fees, c
  <2>6. /\ SumFunctionOnSet(trades, 1..t) = SumFunctionOnSet(Ones(base), D)
        /\ SumFunctionOnSet(winners, 1..t) = SumFunctionOnSet(Wins(base), D)
        /\ SumFunctionOnSet(payouts, 1..t) = SumFunctionOnSet(Payouts(base), D)
        /\ SumFunctionOnSet(stakes, 1..t) = SumFunctionOnSet(LostStakes(base), D)
        /\ SumFunctionOnSet(nets, 1..t) = SumFunctionOnSet(Nets(base), D)
    BY <2>1, <2>4, <2>5, GroupsMakeBatch
  <2>7. /\ net_payout(base) = SumFunctionOnSet(Nets(base), D)
        /\ total_winners_payout(base) = SumFunctionOnSet(Payouts(base), D)
        /\ total_losers_stake(base) = SumFunctionOnSet(LostStakes(base), D)
        /\ num_winners(base) = SumFunctionOnSet(Wins(base), D)
    BY TotalsAre
  <2>8. aggregate.num_losers = Len(base.trades) - num_winners(base)
    <3>1. \A i \in 1..t : losers[i] \in Int /\ winners[i] \in Int /\ trades[i] = losers[i] + winners[i]
      <4> TAKE i \in 1..t
      <4> DEFINE g == Group(base, chunk_size, i - 1)
      <4>1. IsFiniteSet(g) /\ g \subseteq D
        <5>1. g \subseteq D
          BY DEF Group
        <5> HIDE DEF g, D
        <5> QED BY <2>5, <5>1, FS_Subset
      <4>2. \A x \in g : Ones(base)[x] \in Int /\ Wins(base)[x] \in Int
        BY <2>5, <4>1
      <4>3. trades[i] \in Int /\ winners[i] \in Int
        <5>1. trades[i] = SumFunctionOnSet(Ones(base), g)
              /\ winners[i] = SumFunctionOnSet(Wins(base), g)
          BY <2>4
        <5> HIDE DEF g
        <5> QED BY <4>1, <4>2, <5>1, SumInt
      <4>4. losers[i] = trades[i] - winners[i]
        BY DEF trades, winners
      <4> HIDE DEF losers
      <4> QED BY <4>3, <4>4
    <3> DEFINE J == 1..t
    <3>2. IsFiniteSet(J)
      BY <2>1, FS_Interval
    <3>3. \A i \in J :
            losers[i] \in Int /\ winners[i] \in Int /\ trades[i] = losers[i] + winners[i]
      BY <3>1
    <3> HIDE DEF J, losers
    <3>4. SumFunctionOnSet(trades, J) = SumFunctionOnSet(losers, J) + SumFunctionOnSet(winners, J)
      BY <3>2, <3>3, SumPlus
    <3>5. SumFunctionOnSet(losers, J) \in Int /\ SumFunctionOnSet(winners, J) \in Int
      BY <3>2, <3>3, SumInt
    <3>6. SumFunctionOnSet(losers, J)
            = SumFunctionOnSet(trades, J) - SumFunctionOnSet(winners, J)
      BY <3>4, <3>5
    <3> QED BY <2>2, <2>5, <2>6, <2>7, <3>6 DEF J
  <2>9. \A i \in 1..t : /\ c[i].outputs.pool_balance_before
                             = rolling_pool_balance(base, chunk_size, i - 1)
                        /\ c[i].outputs.pool_balance_after
                             = rolling_pool_balance(base, chunk_size, i)
    <3> TAKE i \in 1..t
    <3>1. /\ Inner(i).pool_balance_before = rolling_pool_balance(base, chunk_size, i - 1)
          /\ rolling_pool_balance(base, chunk_size, i) = pool_balance_after(Inner(i))
      BY <2>1, <2>3, InnerIs
    <3>2. c[i].outputs = PublicOutputs(Inner(i))
      BY <2>1 DEF ProofOf
    <3>3. /\ PublicOutputs(Inner(i)).pool_balance_before = Inner(i).pool_balance_before
          /\ PublicOutputs(Inner(i)).pool_balance_after = pool_balance_after(Inner(i))
      BY DEF PublicOutputs
    <3> QED BY <3>1, <3>2, <3>3
  <2>10. c[1].outputs.pool_balance_before = base.pool_balance_before
    <3>1. rolling_pool_balance(base, chunk_size, 0) = base.pool_balance_before
      BY <2>1, PoolRolls
    <3>2. 1 \in 1..t /\ 1 - 1 = 0
      BY <2>1
    <3>3. c[1].outputs.pool_balance_before = rolling_pool_balance(base, chunk_size, 1 - 1)
      BY <2>9, <3>2
    <3> QED BY <3>1, <3>2, <3>3
  <2>11. ASSUME NEW i \in 2..t
         PROVE  c[i].outputs.pool_balance_before = c[i - 1].outputs.pool_balance_after
    <3>1. i \in 1..t /\ i - 1 \in 1..t
      BY <2>1
    <3> QED BY <2>9, <3>1
  <2>12. c[t].outputs.pool_balance_after
           = base.pool_balance_before - aggregate.net_payout - aggregate.keeper_fee
    <3>1. t \in 1..t
      BY <2>1
    <3>2. c[t].outputs.pool_balance_after = rolling_pool_balance(base, chunk_size, t)
      BY <2>9, <3>1
    <3>3. \A i \in 1..t : nets[i] = net_payout(Inner(i)) /\ fees[i] = keeper_fee(Inner(i))
      BY DEF nets, fees
    <3> HIDE DEF t
    <3>4. rolling_pool_balance(base, chunk_size, t)
            = base.pool_balance_before - SumFunctionOnSet(nets, 1..t)
              - SumFunctionOnSet(fees, 1..t)
      BY <2>1, <3>3, PoolLeft
    <3> QED BY <2>2, <3>2, <3>4
  <2> QED BY <2>1, <2>2, <2>5, <2>6, <2>7, <2>8, <2>10, <2>11, <2>12 DEF c
<1> QED BY <1>1, CircuitInvariant, PTL

-----------------------------------------------------------------------------
\* The fees.

\* A share is what the rounding leaves of it: no more than the denominator would
\* give back, and less than one more.
LEMMA PartIs ==
  ASSUME NEW a \in Nat, NEW b \in Nat
  PROVE  /\ PartOf(a, b) \in Nat
         /\ BPS_DENOMINATOR * PartOf(a, b) <= a * b
         /\ a * b + 1 <= BPS_DENOMINATOR * (PartOf(a, b) + 1)
<1> DEFINE d == BPS_DENOMINATOR
           x == a * b
           q == x \div d
<1>1. d \in Nat \ {0} /\ x \in Nat
  BY GuestConstants
<1> HIDE DEF d, x
<1>2. q \in Nat /\ d * q <= x /\ x < d * (q + 1)
  BY <1>1
<1>3. PartOf(a, b) = q
  BY DEF PartOf, q, x, d
<1> HIDE DEF q
<1>4. d * (q + 1) \in Nat
  BY <1>1, <1>2
<1>5. x + 1 <= d * (q + 1)
  BY <1>1, <1>2, <1>4
<1> QED BY <1>2, <1>3, <1>5 DEF x, d

\* Products of sums, and of what is greater.
LEMMA Products ==
  ASSUME NEW a \in Nat, NEW b \in Nat, NEW c \in Nat
  PROVE  /\ a * b \in Nat
         /\ (a + b) * c = a * c + b * c
         /\ c * (a + b) = c * a + c * b
         /\ a <= b => a * c <= b * c /\ c * a <= c * b
<1>1. a * b \in Nat
  OBVIOUS
<1>2. (a + b) * c = a * c + b * c /\ c * (a + b) = c * a + c * b
  OBVIOUS
<1>3. a <= b => a * c <= b * c /\ c * a <= c * b
  OBVIOUS
<1> QED BY <1>1, <1>2, <1>3

\* The shares of t amounts miss less than t of the share of their sum.
LEMMA SharesAddUp ==
  ASSUME NEW t \in Nat \ {0}, NEW b \in Nat, NEW a, NEW q,
         \A k \in 1..t : a[k] \in Nat /\ q[k] = PartOf(a[k], b),
         NEW whole \in Nat, whole <= SumFunctionOnSet(a, 1..t)
  PROVE  SumFunctionOnSet(q, 1..t) + t > PartOf(whole, b)
<1> DEFINE d == BPS_DENOMINATOR
           A(k) == SumFunctionOnSet(a, 1..k)
           Q(k) == SumFunctionOnSet(q, 1..k)
           Covers(k) == /\ A(k) \in Nat /\ Q(k) \in Nat
                        /\ A(k) * b + k <= d * (Q(k) + k)
           S == {k \in Nat : k <= t => Covers(k)}
<1>1. d \in Nat \ {0} /\ \A k \in 1..t : a[k] \in Int /\ q[k] \in Int
  <2>1. \A x \in Nat : PartOf(x, b) \in Int
    BY PartIs
  <2> QED BY <2>1, GuestConstants
<1>2. 0 \in S
  <2>1. 1..0 = {}
    OBVIOUS
  <2>2. A(0) = 0 /\ Q(0) = 0
    BY <2>1, SumEmpty
  <2> HIDE DEF A, Q, d
  <2>3. Covers(0)
    BY <1>1, <2>2
  <2> QED BY <2>3
<1>3. ASSUME NEW k \in Nat, k \in S
      PROVE  k + 1 \in S
  <2> DEFINE i == k + 1
  <2>1. SUFFICES ASSUME i <= t PROVE Covers(i)
    <3> HIDE DEF Covers
    <3>1. k + 1 \in Nat
      OBVIOUS
    <3> QED BY <3>1
  <2>2. Covers(k)
    <3> HIDE DEF Covers
    <3> QED BY <1>3, <2>1
  <2>3. i \in Nat \ {0} /\ i \in 1..t /\ i = k + 1
    BY <2>1
  <2>4. /\ 1..i = (1..k) \cup {i} /\ i \notin 1..k /\ IsFiniteSet(1..k)
    <3>1. \A n \in Nat : 1..(n + 1) = (1..n) \cup {n + 1} /\ n + 1 \notin 1..n
      OBVIOUS
    <3>2. IsFiniteSet(1..k)
      BY FS_Interval
    <3> QED BY <3>1, <3>2
  <2> HIDE DEF i
  <2>5. /\ a[i] \in Nat /\ q[i] = PartOf(a[i], b) /\ q[i] \in Nat
        /\ a[i] * b + 1 <= d * (q[i] + 1)
    BY <2>3, PartIs
  <2>6. \A j \in 1..k : a[j] \in Int /\ q[j] \in Int
    <3> TAKE j \in 1..k
    <3>1. j \in 1..t
      BY <2>3
    <3> QED BY <1>1, <3>1
  <2>7. a[i] \in Int /\ q[i] \in Int
    BY <2>5
  <2>8. A(i) = a[i] + A(k) /\ Q(i) = q[i] + Q(k)
    BY <2>4, <2>6, <2>7, SumAdd
  <2> DEFINE x == a[i]
             y == q[i]
             X == A(k)
             Y == Q(k)
  <2>9. /\ x \in Nat /\ y \in Nat /\ X \in Nat /\ Y \in Nat
        /\ x * b + 1 <= d * (y + 1)
        /\ X * b + k <= d * (Y + k)
    BY <2>2, <2>5
  <2>10. A(i) = X + x /\ Q(i) = Y + y
    BY <2>8, <2>9
  <2> HIDE DEF x, y, X, Y, d, A, Q
  <2>11. (X + x) * b = X * b + x * b /\ X * b \in Nat /\ x * b \in Nat
    BY <2>9, Products
  <2>12. /\ d * ((Y + k) + (y + 1)) = d * (Y + k) + d * (y + 1)
         /\ d * (Y + k) \in Nat /\ d * (y + 1) \in Nat
    <3>1. Y + k \in Nat /\ y + 1 \in Nat /\ d \in Nat
      BY <1>1, <2>9
    <3> QED BY <3>1, Products
  <2>13. (Y + k) + (y + 1) = (Y + y) + i
    BY <2>3, <2>9
  <2>14. d * ((Y + y) + i) = d * (Y + k) + d * (y + 1)
    BY <2>12, <2>13
  <2>15. (X + x) * b + i <= d * ((Y + y) + i)
    <3> DEFINE u == X * b
               v == x * b
               w == d * (Y + k)
               z == d * (y + 1)
               m == (X + x) * b
               n == d * ((Y + y) + i)
    <3>1. /\ u \in Nat /\ v \in Nat /\ w \in Nat /\ z \in Nat
          /\ m = u + v /\ n = w + z /\ v + 1 <= z /\ u + k <= w
      BY <2>9, <2>11, <2>12, <2>14
    <3> HIDE DEF u, v, w, z, m, n
    <3>2. m + i <= n
      BY <2>3, <3>1
    <3> QED BY <3>2 DEF m, n
  <2>16. X + x \in Nat /\ Y + y \in Nat
    BY <2>9
  <2> QED BY <2>10, <2>15, <2>16
<1>4. Nat \subseteq S
  <2> HIDE DEF S
  <2> QED BY <1>2, <1>3, Induction
<1>5. Covers(t)
  <2> HIDE DEF Covers
  <2> QED BY <1>4
<1> DEFINE p == PartOf(whole, b)
           X == A(t)
           Y == Q(t)
<1>6. /\ X \in Nat /\ Y \in Nat /\ X * b + t <= d * (Y + t) /\ whole <= X
      /\ p \in Nat /\ d * p <= whole * b
  <2> HIDE DEF Covers
  <2>1. Covers(t) => X \in Nat /\ Y \in Nat /\ X * b + t <= d * (Y + t)
    BY DEF Covers
  <2> QED BY <1>5, <2>1, PartIs
<1> HIDE DEF p, X, Y, d
<1>7. whole * b <= X * b /\ whole * b \in Nat /\ X * b \in Nat
  BY <1>6, Products
<1>8. Y + t <= p => d * (Y + t) <= d * p
  <2>1. Y + t \in Nat /\ d \in Nat
    BY <1>1, <1>6
  <2> QED BY <1>6, <2>1, Products
<1>9. d * p \in Nat /\ d * (Y + t) \in Nat
  BY <1>1, <1>6
<1>10. ~(Y + t <= p)
  <2> DEFINE u == X * b
             v == whole * b
             w == d * (Y + t)
             z == d * p
  <2>1. /\ u \in Nat /\ v \in Nat /\ w \in Nat /\ z \in Nat
        /\ u + t <= w /\ v <= u /\ z <= v /\ (Y + t <= p => w <= z)
    BY <1>6, <1>7, <1>8, <1>9
  <2> HIDE DEF u, v, w, z
  <2> QED BY <2>1
<1> QED BY <1>6, <1>10 DEF p, Y

\* Each chunk pays at least its share of what it moves, but for the rounding, and
\* the chunks together move no less than the batch.
THEOREM FeesNotAvoidedCorrect == Spec => []FeesNotAvoided
<1>1. CircuitInv => FeesNotAvoided
  <2> SUFFICES ASSUME CircuitInv, phase = "aggregated"
               PROVE  /\ aggregate.keeper_fee + total_chunks(base, chunk_size)
                           > keeper_fee(base)
                      /\ aggregate.protocol_fee + total_chunks(base, chunk_size)
                           > protocol_fee(base)
    BY DEF FeesNotAvoided
  <2> DEFINE t == total_chunks(base, chunk_size)
             J == 1..t
             nets == [i \in J |-> net_payout(Inner(i))]
             keepers == [i \in J |-> keeper_fee(Inner(i))]
             protocols == [i \in J |-> protocol_fee(Inner(i))]
             moved == [i \in J |-> Distance(net_payout(Inner(i)), 0)]
             gained == [i \in J |-> IF net_payout(Inner(i)) < 0 THEN -net_payout(Inner(i)) ELSE 0]
             net == net_payout(base)
             D == DOMAIN base.trades
  <2>1. /\ BatchInv /\ IsCircuitInputs(base) /\ chunk_size \in Nat \ {0}
        /\ t \in Nat \ {0}
        /\ aggregate.keeper_fee = SumFunctionOnSet(keepers, J)
        /\ aggregate.protocol_fee = SumFunctionOnSet(protocols, J)
    <3>1. t \in Nat /\ t >= 1 => t \in Nat \ {0}
      OBVIOUS
    <3> QED BY <3>1, AggregateSums
  <2>2. \A i \in J : i \in Nat \ {0}
    BY <2>1
  <2>3. base.keeper_fee_bps \in Nat /\ base.protocol_fee_bps \in Nat
    BY <2>1, TypesOf, GuestConstants DEF U64
  <2>4. \A i \in J :
          /\ nets[i] \in Int
          /\ nets[i] = SumFunctionOnSet(Nets(base), Group(base, chunk_size, i - 1))
          /\ moved[i] = Distance(nets[i], 0)
          /\ gained[i] = (IF nets[i] < 0 THEN -nets[i] ELSE 0)
          /\ keepers[i] = PartOf(moved[i], base.keeper_fee_bps)
          /\ protocols[i] = PartOf(gained[i], base.protocol_fee_bps)
    BY <2>1, <2>2, InnerTotals
  <2>5. IsFiniteSet(J)
    BY <2>1, FS_Interval
  <2> HIDE DEF nets, keepers, protocols, moved, gained
  <2>6. net = SumFunctionOnSet(nets, J)
    <3>1. \A x \in D : Nets(base)[x] \in Int
      BY <2>1, BatchAmounts
    <3>2. SumFunctionOnSet(nets, 1..t) = SumFunctionOnSet(Nets(base), D)
      BY <2>1, <2>4, <3>1, GroupsMakeBatch
    <3> QED BY <3>2, TotalsAre
  <2> HIDE DEF J
  <2>7. \A i \in J : moved[i] \in Nat /\ gained[i] \in Nat
    BY <2>4 DEF Distance
  <2>8. net \in Int
    BY <2>4, <2>5, <2>6, SumInt
  <2> DEFINE up == [i \in J |-> moved[i] - nets[i]]
             down == [i \in J |-> moved[i] + nets[i]]
             left == [i \in J |-> gained[i] + nets[i]]
             M == SumFunctionOnSet(moved, J)
             U == SumFunctionOnSet(up, J)
             W == SumFunctionOnSet(down, J)
             G == SumFunctionOnSet(gained, J)
             L == SumFunctionOnSet(left, J)
  <2>9. \A i \in J : /\ up[i] \in Nat /\ moved[i] = nets[i] + up[i]
                     /\ down[i] \in Nat /\ down[i] = moved[i] + nets[i]
                     /\ left[i] \in Nat /\ left[i] = gained[i] + nets[i]
    BY <2>4 DEF Distance
  <2> HIDE DEF up, down, left, net
  <2>10. M = net + U
    <3>1. \A i \in J : nets[i] \in Int /\ up[i] \in Int /\ moved[i] = nets[i] + up[i]
      BY <2>4, <2>9
    <3> QED BY <2>5, <2>6, <3>1, SumPlus
  <2>11. W = M + net
    <3>1. \A i \in J : moved[i] \in Int /\ nets[i] \in Int /\ down[i] = moved[i] + nets[i]
      BY <2>4, <2>7, <2>9
    <3> QED BY <2>5, <2>6, <3>1, SumPlus
  <2>12. L = G + net
    <3>1. \A i \in J : gained[i] \in Int /\ nets[i] \in Int /\ left[i] = gained[i] + nets[i]
      BY <2>4, <2>7, <2>9
    <3> QED BY <2>5, <2>6, <3>1, SumPlus
  <2>13. M \in Nat /\ U \in Nat /\ W \in Nat /\ G \in Nat /\ L \in Nat
    BY <2>5, <2>7, <2>9, SumNat
  <2> HIDE DEF M, U, W, G, L
  <2>14. Distance(net, 0) \in Nat /\ Distance(net, 0) <= M
    BY <2>8, <2>10, <2>11, <2>13 DEF Distance
  <2>15. LET gain == IF net < 0 THEN -net ELSE 0 IN gain \in Nat /\ gain <= G
    BY <2>8, <2>12, <2>13
  <2>16. SumFunctionOnSet(keepers, J) + t > PartOf(Distance(net, 0), base.keeper_fee_bps)
    <3>1. \A i \in 1..t : moved[i] \in Nat
                          /\ keepers[i] = PartOf(moved[i], base.keeper_fee_bps)
      BY <2>4, <2>7 DEF J
    <3>2. Distance(net, 0) <= SumFunctionOnSet(moved, 1..t)
      BY <2>14 DEF M, J
    <3> DEFINE whole == Distance(net, 0)
               b == base.keeper_fee_bps
    <3>3. whole \in Nat /\ b \in Nat
      BY <2>3, <2>14
    <3> HIDE DEF whole, b, t
    <3>4. SumFunctionOnSet(keepers, 1..t) + t > PartOf(whole, b)
      BY <2>1, <3>1, <3>2, <3>3, SharesAddUp DEF whole, b
    <3> QED BY <3>4 DEF J, whole, b
  <2>17. SumFunctionOnSet(protocols, J) + t
           > PartOf(IF net < 0 THEN -net ELSE 0, base.protocol_fee_bps)
    <3> DEFINE whole == IF net < 0 THEN -net ELSE 0
               b == base.protocol_fee_bps
    <3>1. \A i \in 1..t : gained[i] \in Nat /\ protocols[i] = PartOf(gained[i], b)
      BY <2>4, <2>7 DEF J
    <3>2. whole <= SumFunctionOnSet(gained, 1..t)
      BY <2>15 DEF G, J
    <3>3. whole \in Nat /\ b \in Nat
      BY <2>3, <2>15
    <3> HIDE DEF whole, b, t
    <3>4. SumFunctionOnSet(protocols, 1..t) + t > PartOf(whole, b)
      BY <2>1, <3>1, <3>2, <3>3, SharesAddUp
    <3> QED BY <3>4 DEF J, whole, b
  <2>18. keeper_fee(base) = PartOf(Distance(net, 0), base.keeper_fee_bps)
    BY DEF keeper_fee, net
  <2>19. protocol_fee(base) = PartOf(IF net < 0 THEN -net ELSE 0, base.protocol_fee_bps)
    <3>1. CASE net < 0
      BY <3>1 DEF protocol_fee, net
    <3>2. CASE ~(net < 0)
      <4> DEFINE b == base.protocol_fee_bps
      <4>1. 0 * b = 0 /\ b \in Nat
        BY <2>3
      <4>2. PartOf(0, b) \in Nat /\ BPS_DENOMINATOR * PartOf(0, b) <= 0
        BY <4>1, PartIs
      <4>3. PartOf(0, b) = 0
        BY <4>2, GuestConstants
      <4>4. protocol_fee(base) = 0
        BY <3>2 DEF protocol_fee, net
      <4> QED BY <3>2, <4>3, <4>4
    <3> QED BY <3>1, <3>2
  <2> QED BY <2>1, <2>16, <2>17, <2>18, <2>19
<1> QED BY <1>1, CircuitInvariant, PTL
=============================================================================
