------------------------------- MODULE Merkle --------------------------------
(***************************************************************************)
(* The Merkle trees of the transactions of a block                         *)
(* (transactionsPool/merkleTree.go) and of the addresses of a wallet       *)
(* (pubkeys/pubKeysTrie.go): the same code on different leaves.  A hash is *)
(* the tuple of what was hashed, so two hashes never collide.              *)
(***************************************************************************)
EXTENDS Integers, Sequences

EmptyHash == <<"empty">>
HashOf(data) == <<"hash", data>>

\* NewMerkleNode of two nodes, or of data.
NewMerkleNode(left, right) == <<"hash", left, right>>
NewMerkleLeaf(data) == HashOf(data)

\* One round of the loop of NewMerkleTree: the last of an odd number of nodes is
\* paired with itself.
Level(nodes) ==
  LET even == IF Len(nodes) % 2 # 0 THEN Append(nodes, nodes[Len(nodes)]) ELSE nodes
  IN  [i \in 1..(Len(even) \div 2) |-> NewMerkleNode(even[2 * i - 1], even[2 * i])]

\* The rounds until one node is left, of which there are less than nodes.
Reduce(nodes) ==
  LET round[n \in Nat] ==
        IF n = 0 THEN nodes
        ELSE LET last == round[n - 1] IN IF Len(last) <= 1 THEN last ELSE Level(last)
  IN  round[Len(nodes)]

NewMerkleTree(data) == Reduce([i \in DOMAIN data |-> NewMerkleLeaf(data[i])])

GetRootHash(root) == IF root = << >> THEN EmptyHash ELSE root[1]
=============================================================================
