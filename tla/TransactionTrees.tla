--------------------------- MODULE TransactionTrees ---------------------------
(***************************************************************************)
(* The rows that keep the Merkle trees of the chain's blocks               *)
(* (transactionsPool/merkleTree.go): written while a block is applied,     *)
(* removed by a reset and, for one height, whenever a bad transaction is   *)
(* thrown out (RemoveBadTransactionByHash).                                *)
(***************************************************************************)
EXTENDS Merkle, FiniteSetsExt

CONSTANTS
  Txs,         \* hashes of transactions
  MaxTxs,      \* bound: transactions of a block
  MaxHeight    \* bound: blocks of the chain

VARIABLES
  chain,       \* the transactions of the blocks, from height 1
  rows         \* MerkleNode, RootHashMerkleTree and TransactionsHashesByHeight rows

vars == <<chain, rows>>

NoData == 0    \* an empty []byte
TxLists == UNION {[1..n -> Txs] : n \in 0..MaxTxs}
Heights == 0..MaxHeight
NoRow == [root |-> <<"none">>, hashes |-> << >>]
height == Len(chain)

\* Mutant: the slice is made with capacity, not with length.
BlockLeaves_Tight(txs) == txs

\* CheckBaseBlock appends the hashes of the transactions to a slice that already
\* has as many empty ones.
BlockLeaves(txs) ==
  [i \in 1..(2 * Len(txs)) |-> IF i <= Len(txs) THEN NoData ELSE txs[i - Len(txs)]]

BuildMerkleTree(txs) == NewMerkleTree(BlockLeaves(txs))

\* Mutant: the tree is stored under the height of the block before.
StoreTree_AtLast(r, h, txs) ==
  [r EXCEPT ![h - 1] = [root |-> GetRootHash(BuildMerkleTree(txs)), hashes |-> txs]]

\* StoreTree; the empty leaves leave no trace in the row of hashes, which
\* LoadTxHashes cuts into pieces of the length of a hash.
StoreTree(r, h, txs) ==
  [r EXCEPT ![h] = [root |-> GetRootHash(BuildMerkleTree(txs)), hashes |-> txs]]

RemoveMerkleTrieFromDB(r, h) == [r EXCEPT ![h] = NoRow]

\* Counts from 0 to the first height that has no row.
LastHeightStoredInMerleTrie(r) == Max({-1} \cup {h \in Heights : \A i \in 0..h : r[i] # NoRow})

\* The last loop of ResetAccountsAndBlocksSync.
RemoveAbove(r, h) ==
  [i \in Heights |-> IF i > h /\ i <= LastHeightStoredInMerleTrie(r) THEN NoRow ELSE r[i]]

Init ==
  /\ chain = << >>
  /\ rows = StoreTree([h \in Heights |-> NoRow], 0, << >>)

\* CheckBlockAndTransferFunds stores the tree, then pays.  A payment due from
\* escrow that its sender cannot make any more throws that transaction out, and
\* with it the tree of the block being applied; the block itself goes on.
ApplyBlock(txs) ==
  /\ height < MaxHeight
  /\ \E escrowFails \in BOOLEAN :
       LET stored == StoreTree(rows, height + 1, txs)
       IN  rows' = IF escrowFails THEN RemoveMerkleTrieFromDB(stored, height + 1) ELSE stored
  /\ chain' = Append(chain, txs)

\* The block fails, after its tree was stored or before, with a transaction thrown
\* out or not, and the node is reset to its height.
ApplyFails(txs) ==
  /\ height < MaxHeight
  /\ \E stored, thrownOut \in BOOLEAN :
       LET r1 == IF stored THEN StoreTree(rows, height + 1, txs) ELSE rows
           r2 == IF thrownOut THEN RemoveMerkleTrieFromDB(r1, height + 1) ELSE r1
       IN  rows' = RemoveAbove(r2, height)
  /\ UNCHANGED chain

\* The "nn" handler checks the transfers of the block it would propose without the
\* block lock, so the height it proposes for may be taken by then.
ThrowOutOfProposal(h) ==
  /\ h \in 1..(height + 1) \cap Heights
  /\ rows' = RemoveMerkleTrieFromDB(rows, h)
  /\ UNCHANGED chain

ResetAccountsAndBlocksSync(h) ==
  /\ h < height
  /\ rows' = RemoveAbove(rows, h)
  /\ chain' = SubSeq(chain, 1, h)

Next ==
  \/ \E txs \in TxLists : ApplyBlock(txs) \/ ApplyFails(txs)
  \/ \E h \in Heights : ThrowOutOfProposal(h) \/ ResetAccountsAndBlocksSync(h)

Spec == Init /\ [][Next]_vars

-----------------------------------------------------------------------------
\* Although rows go missing and rows of rolled back blocks stay behind a gap, the
\* row of a block of the chain is that of its own transactions or none at all:
\* what LoadTxHashes and FindTransactionInBlocks read is never another block's.
TreesMatchChain ==
  \A h \in 1..height :
    \/ rows[h] = NoRow
    \/ /\ rows[h].hashes = chain[h]
       /\ rows[h].root = GetRootHash(BuildMerkleTree(chain[h]))

\* Two lists of transactions have the same root only if they are equal, although a
\* lone last node is paired with itself: CheckBaseBlock compares roots only.
RootDeterminesTransactions ==
  \A h \in 1..height : \A txs \in TxLists :
    rows[h].root = GetRootHash(BuildMerkleTree(txs)) => txs = chain[h]
=============================================================================
