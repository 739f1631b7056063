---------------------------- MODULE PayoutMerkle ----------------------------
(***************************************************************************)
(* The Merkle tree the guest commits to and the walk with which the        *)
(* program checks a claim against its root.  SHA-256 is taken as           *)
(* injective: a hash is the record of its preimage.  Leaves hash 108 bytes *)
(* and pairs 64, so that a leaf is never a pair.                           *)
(***************************************************************************)
EXTENDS Integers, Sequences, SequencesExt

\* Mutant: the leaf does not hash its index.
hash_payout_leaf_WithoutIndex(batch_id, trade_id, trader, payout, index) ==
  [leaf |-> <<batch_id, trade_id, trader, payout>>]

hash_payout_leaf(batch_id, trade_id, trader, payout, index) ==
  [leaf |-> <<batch_id, trade_id, trader, payout, index>>]

hash_merkle_pair(left, right) == [left |-> left, right |-> right]

ZeroHash == [zero |-> TRUE]

\* One round of the loop: nodes are paired, a last single node with itself.
\* A level of one node is the root and stays.
NextLevel(level) ==
  IF Len(level) <= 1 THEN level
  ELSE [k \in 1..((Len(level) + 1) \div 2) |->
          hash_merkle_pair(level[2 * k - 1],
                           IF 2 * k <= Len(level) THEN level[2 * k] ELSE level[2 * k - 1])]

\* The level after some rounds.
LevelAt(leaves, rounds) ==
  LET level[k \in Nat] == IF k = 0 THEN leaves ELSE NextLevel(level[k - 1])
  IN level[rounds]

\* A round shortens the level, so that there are never more rounds than leaves.
compute_payouts_merkle_root(leaves) ==
  IF leaves = <<>> THEN ZeroHash ELSE LevelAt(leaves, Len(leaves))[1]

\* Mutant: the index is not shifted, so every sibling stands on the same side.
Ascend_SameSide(at, sibling) ==
  [node  |-> IF at.index % 2 = 0 THEN hash_merkle_pair(at.node, sibling)
                                 ELSE hash_merkle_pair(sibling, at.node),
   index |-> at.index]

\* The lowest bit of the index says on which side the sibling stands.
Ascend(at, sibling) ==
  [node  |-> IF at.index % 2 = 0 THEN hash_merkle_pair(at.node, sibling)
                                 ELSE hash_merkle_pair(sibling, at.node),
   index |-> at.index \div 2]

compute_merkle_root_from_proof(leaf, index, proof_nodes) ==
  LET at[k \in Nat] == IF k = 0 THEN [node |-> leaf, index |-> index]
                       ELSE Ascend(at[k - 1], proof_nodes[k])
  IN at[Len(proof_nodes)].node

\* Every node of the tree over some leaves.
NodesAbove(leaves) == UNION {ToSet(LevelAt(leaves, k)) : k \in 0..Len(leaves)}
=============================================================================
