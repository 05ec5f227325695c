--------------------------- MODULE ServicesProofs ---------------------------
(***************************************************************************)
(* Theorems about the parts of the node that share no state with the       *)
(* chain: for any chain, votes and stakes, any blocks of transactions,   *)
(* and any peers.                                                          *)
(***************************************************************************)
EXTENDS Encryption, TLAPS

CONSTANTS
  Ips, MyIP, WhiteListIPs, Topics, SelfNonceTopic, Callers, Dialers, ConnectionMaxTries,
  MaxAccepting,                                               \* of Peers
  Txs, MaxTxs                                                 \* of TransactionTrees

VARIABLES
  tcpConnections, peersConnected, validPeersConnected, nodePeersConnected, oldPeers,
  bannedIP, accepting, dialer,
  blocks, rows

N == INSTANCE Peers
Trees == INSTANCE TransactionTrees WITH chain <- blocks

-----------------------------------------------------------------------------
\* What GetPeersConnected tells the services is what the node can send on: of all
\* that changes one of the two maps, only sections of PeersMutex that change the
\* other alike.
THEOREM PeersAlwaysAgree == N!Spec => []N!PeersAgree
<1>1. N!Init => N!PeersAgree
  BY DEF N!Init, N!PeersAgree
<1>2. N!PeersAgree /\ [N!Next]_N!vars => N!PeersAgree'
  <2> SUFFICES ASSUME N!PeersAgree, [N!Next]_N!vars PROVE N!PeersAgree'
    OBVIOUS
  <2>1. ASSUME NEW cs, N!CloseAndRemoveConnection(cs) PROVE N!PeersAgree'
    BY <2>1 DEF N!CloseAndRemoveConnection, N!PeersAgree
  <2>2. ASSUME NEW ip, N!BanIP(ip) PROVE N!PeersAgree'
    BY <2>1, <2>2 DEF N!BanIP, N!PeersAgree
  <2>3. ASSUME NEW t, N!RegisterPeer(t) PROVE N!PeersAgree'
    BY <2>3 DEF N!RegisterPeer, N!PeersAgree
  <2>4. ASSUME NEW t, NEW to, N!LoopSend(t, to) PROVE N!PeersAgree'
    BY <2>1, <2>4 DEF N!LoopSend
  <2>5. ASSUME NEW d, N!DialBans(d) PROVE N!PeersAgree'
    BY <2>2, <2>5 DEF N!DialBans, N!PeersAgree
  <2>6. ASSUME UNCHANGED <<tcpConnections, peersConnected>> PROVE N!PeersAgree'
    BY <2>6, SMTT(20), Zenon DEF N!PeersAgree
  <2>7. CASE N!Next
    BY <2>3, <2>4, <2>5, <2>6, <2>7
    DEF N!Next, N!Accept, N!ReduceAndCheckIfBanIP, N!ValidRegisterPeer, N!NodeRegisterPeer,
        N!DialNamed, N!BanEnds, N!LookUpForNewPeersToConnect, N!DialFails, N!DialSucceeds,
        N!BadFrame, N!Exit
  <2>8. CASE UNCHANGED N!vars
    BY <2>6, <2>8 DEF N!vars
  <2> QED BY <2>7, <2>8
<1> QED BY <1>1, <1>2, PTL DEF N!Spec

-----------------------------------------------------------------------------
\* Initially the chain has one block, with the schemes of the start.
FirstSchemes == [p \in Both |-> [name |-> Default[p], paused |-> FALSE]]

\* The chain of schemes is not empty; the configuration is that of its last block.
SchemesOK ==
  /\ chain \in Seq(Headers \cup {FirstSchemes}) /\ Len(chain) >= 1
  /\ ConfigFollowsChain

\* The length and the last element of what a step does to the chain.
LEMMA ChainSteps ==
  ASSUME NEW S, NEW s \in Seq(S), Len(s) >= 1
  PROVE  /\ Len(s) \in Nat /\ \A i \in 1..Len(s) : s[i] \in S
         /\ \A x \in S : /\ Append(s, x) \in Seq(S) /\ Len(Append(s, x)) = Len(s) + 1
                         /\ Append(s, x)[Len(s) + 1] = x
         /\ \A n \in 1..Len(s) : /\ SubSeq(s, 1, n) \in Seq(S) /\ Len(SubSeq(s, 1, n)) = n
                                 /\ SubSeq(s, 1, n)[n] = s[n]
<1>1. Len(s) \in Nat /\ \A i \in 1..Len(s) : s[i] \in S
  OBVIOUS
<1>2. ASSUME NEW x \in S
      PROVE  /\ Append(s, x) \in Seq(S) /\ Len(Append(s, x)) = Len(s) + 1
             /\ Append(s, x)[Len(s) + 1] = x
  OBVIOUS
<1>3. ASSUME NEW n \in 1..Len(s)
      PROVE  /\ SubSeq(s, 1, n) \in Seq(S) /\ Len(SubSeq(s, 1, n)) = n
             /\ SubSeq(s, 1, n)[n] = s[n]
  BY <1>1
<1> QED BY <1>1, <1>2, <1>3

\* A block, applied with or without an error in saving the wallet.
LEMMA ApplyKeepsSchemes ==
  ASSUME SchemesOK, NEW header \in Headers, NEW syncing, NEW recent, NEW fails \in BOOLEAN,
         ApplyBlock(header, syncing, recent, fails)
  PROVE  SchemesOK'
<1> DEFINE S == Headers \cup {FirstSchemes}
           n == Len(chain)
<1>1. chain \in Seq(S) /\ n >= 1 /\ header \in S /\ chain' = Append(chain, header)
  BY DEF SchemesOK, ApplyBlock
<1> HIDE DEF S
<1>2. n \in Nat /\ chain' \in Seq(S) /\ Len(chain') = n + 1 /\ chain'[n + 1] = header
  BY <1>1, ChainSteps
<1>3. Last = chain[n] /\ Last' = header
  BY <1>2 DEF Last
<1>4. /\ config[1] = Last[1] /\ (walletFailed \/ config[2] = Last[2])
  BY DEF SchemesOK, ConfigFollowsChain
<1> DEFINE changes == {p \in Both : header[p] # Last[p]}
           reached == IF 1 \in changes /\ fails THEN {1} ELSE changes
<1>5. /\ config' = [p \in Both |-> IF p \in reached THEN header[p] ELSE config[p]]
      /\ walletFailed' = (walletFailed \/ (fails /\ 1 \in changes))
  BY DEF ApplyBlock, ProcessBlockEncryption
<1>6. config'[1] = header[1]
  BY <1>4, <1>5 DEF Both
<1>7. walletFailed' \/ config'[2] = header[2]
  <2>1. CASE fails /\ 1 \in changes
    BY <1>5, <2>1
  <2>2. CASE ~(fails /\ 1 \in changes)
    <3>1. reached = changes
      BY <2>2
    <3>2. config'[2] = IF header[2] # Last[2] THEN header[2] ELSE config[2]
      BY <1>5, <3>1 DEF Both
    <3>3. walletFailed => walletFailed'
      BY <1>5
    <3> QED BY <1>4, <3>2, <3>3
  <2> QED BY <2>1, <2>2
<1>8. ConfigFollowsChain'
  BY <1>3, <1>6, <1>7 DEF ConfigFollowsChain
<1>9. Len(chain') >= 1
  BY <1>2
<1> QED BY <1>2, <1>8, <1>9 DEF SchemesOK, S, FirstSchemes

\* The node goes back.
LEMMA ResetKeepsSchemes ==
  ASSUME SchemesOK, NEW h \in Int, h >= 0, Reset(h)
  PROVE  SchemesOK'
<1> DEFINE S == Headers \cup {FirstSchemes}
           n == Len(chain)
           m == h + 1
<1>1. /\ chain \in Seq(S) /\ n >= 1 /\ chain' = SubSeq(chain, 1, m)
      /\ config' = chain[m] /\ h < n - 1
  BY DEF SchemesOK, Reset, height
<1>2. n \in Nat
  BY <1>1
<1>3. m \in 1..n
  BY <1>1, <1>2
<1> HIDE DEF S, m
<1>4. chain' \in Seq(S) /\ Len(chain') = m /\ chain'[m] = chain[m]
  BY <1>1, <1>3, ChainSteps
<1>5. Last' = config'
  BY <1>1, <1>4 DEF Last
<1>6. ConfigFollowsChain'
  BY <1>5 DEF ConfigFollowsChain
<1> QED BY <1>3, <1>4, <1>6 DEF SchemesOK, S, FirstSchemes

\* The schemes that the node uses are those of its last block, through blocks that
\* were applied, refused and rolled back (ProcessBlockEncryption,
\* SetEncryptionFromBlock); after an error in saving the wallet only the primary one.
THEOREM ConfigAlwaysFollowsChain == Spec => []ConfigFollowsChain
<1>1. Init => SchemesOK
  <2> SUFFICES ASSUME Init PROVE SchemesOK
    OBVIOUS
  <2>1. config = FirstSchemes /\ chain = <<config>>
    BY DEF Init, FirstSchemes
  <2>2. Len(chain) = 1 /\ chain[1] = config /\ chain \in Seq(Headers \cup {FirstSchemes})
    BY <2>1
  <2> QED BY <2>2 DEF SchemesOK, ConfigFollowsChain, Last
<1>2. SchemesOK /\ [Next]_vars => SchemesOK'
  <2> SUFFICES ASSUME SchemesOK, [Next]_vars PROVE SchemesOK'
    OBVIOUS
  <2>1. ASSUME UNCHANGED <<chain, config, walletFailed>> PROVE SchemesOK'
    BY <2>1 DEF SchemesOK, ConfigFollowsChain, Last, FirstSchemes
  <2>2. CASE \E header \in Headers, recent \in BOOLEAN : \E syncing, fails \in BOOLEAN :
               ApplyBlock(header, syncing, recent, fails)
    BY <2>2, ApplyKeepsSchemes
  <2>3. CASE \E h \in 0..MaxHeight : Reset(h)
    BY <2>3, ResetKeepsSchemes
  <2>4. CASE Next /\ UNCHANGED <<chain, config, walletFailed>>
    BY <2>1, <2>4
  <2>5. CASE UNCHANGED vars
    BY <2>1, <2>5 DEF vars
  <2> QED BY <2>2, <2>3, <2>4, <2>5
          DEF Next, ReceiveNonce, SetEncryptionData, SendNonce, RefuseBlock
<1>3. SchemesOK => ConfigFollowsChain
  BY DEF SchemesOK
<1> QED BY <1>1, <1>2, <1>3, PTL DEF Spec

-----------------------------------------------------------------------------
\* A vote of account i is of a height above h.
LaterThan(v, h) == v # Nothing => v.height \in Int /\ v.height > h

\* Every account has a row of votes on both schemes; no scheme was changed above the
\* last block, and the votes are of heights above the last change.  (After a reset
\* changed is 0: votes cast on blocks that were rolled back still count.)
VotesOK ==
  /\ Len(chain) \in Nat /\ Len(chain) >= 1 /\ chain \in Seq(Headers \cup {FirstSchemes})
  /\ changed \in Nat /\ changed <= Len(chain) - 1
  /\ \A p \in Both : DOMAIN votes[p] = Ids
  /\ \A p \in Both, i \in Ids \ {255} : LaterThan(votes[p][i], changed)

\* SaveVotesEncryption1 and SaveVotesEncryption2 with the next height.
LEMMA SaveKeepsVotes ==
  ASSUME VotesOK, NEW id, NEW ballot, votes' = SaveVotes(id, ballot, height + 1),
         UNCHANGED <<chain, changed>>
  PROVE  VotesOK'
<1> DEFINE h == Len(chain) - 1 + 1
           new(p) == [value |-> ballot[p], height |-> h, staked |-> Staked[id]]
<1>1. h \in Int /\ h > changed
  BY DEF VotesOK
<1>2. ASSUME NEW p \in Both
      PROVE  votes'[p] = votes[p] \/ votes'[p] = [votes[p] EXCEPT ![id] = new(p)]
  BY DEF SaveVotes, height
<1>3. ASSUME NEW p PROVE new(p).height = h
  OBVIOUS
<1> HIDE DEF new, h
<1>4. ASSUME NEW p \in Both
      PROVE  /\ DOMAIN votes'[p] = Ids
             /\ \A i \in Ids : votes'[p][i] = votes[p][i] \/ votes'[p][i] = new(p)
  BY <1>2 DEF VotesOK
<1>5. ASSUME NEW p \in Both, NEW i \in Ids \ {255} PROVE LaterThan(votes'[p][i], changed)
  <2>1. LaterThan(votes[p][i], changed)
    BY DEF VotesOK
  <2>2. LaterThan(new(p), changed)
    BY <1>1, <1>3 DEF LaterThan
  <2> QED BY <1>4, <2>1, <2>2
<1> QED BY <1>4, <1>5 DEF VotesOK, LaterThan, FirstSchemes, Nothing, NoVote

\* A step that only drops votes.
LEMMA DropKeepsVotes ==
  ASSUME VotesOK, UNCHANGED <<chain, changed>>,
         \A p \in Both : /\ DOMAIN votes'[p] = Ids
                           /\ \A i \in Ids : votes'[p][i] \in {votes[p][i], Nothing}
  PROVE  VotesOK'
<1>1. ASSUME NEW p \in Both, NEW i \in Ids \ {255} PROVE LaterThan(votes'[p][i], changed)
  BY DEF VotesOK, LaterThan
<1> QED BY <1>1 DEF VotesOK, LaterThan, FirstSchemes, Nothing, NoVote

\* A block, which changes a scheme or not: ResetLastVoting.
LEMMA ApplyKeepsVotes ==
  ASSUME VotesOK, NEW header \in Headers, NEW syncing, NEW recent, NEW fails,
         ApplyBlock(header, syncing, recent, fails)
  PROVE  VotesOK'
<1> DEFINE S == Headers \cup {FirstSchemes}
           n == Len(chain)
           changes == {p \in Both : header[p] # Last[p]}
           reached == IF 1 \in changes /\ fails THEN {1} ELSE changes
<1>1. chain \in Seq(S) /\ n >= 1 /\ header \in S /\ chain' = Append(chain, header)
  BY DEF VotesOK, ApplyBlock
<1>2. /\ votes' = IF reached = {} THEN votes ELSE ResetLastVoting
      /\ changed' = IF reached = {} THEN changed ELSE n - 1 + 1
  BY DEF ApplyBlock, ProcessBlockEncryption, height
<1>3. changed \in Nat /\ changed <= n - 1
  BY DEF VotesOK
<1> HIDE DEF S, reached
<1>4. n \in Nat /\ chain' \in Seq(S) /\ Len(chain') = n + 1
  BY <1>1, ChainSteps
<1>5. changed' \in Nat /\ changed' <= Len(chain') - 1
  BY <1>2, <1>3, <1>4
<1>6. ASSUME NEW p \in Both PROVE DOMAIN votes'[p] = Ids
  BY <1>2 DEF VotesOK, ResetLastVoting
<1>7. ASSUME NEW p \in Both, NEW i \in Ids \ {255} PROVE LaterThan(votes'[p][i], changed')
  <2>1. CASE reached = {}
    BY <1>2, <2>1 DEF VotesOK
  <2>2. CASE reached # {}
    BY <1>2, <2>2 DEF ResetLastVoting, LaterThan
  <2> QED BY <2>1, <2>2
<1>8. Len(chain') \in Nat /\ Len(chain') >= 1
  BY <1>4
<1> QED BY <1>4, <1>5, <1>6, <1>7, <1>8 DEF VotesOK, S, LaterThan, FirstSchemes, Nothing, NoVote

\* The node goes back: every vote is of a height above 0.
LEMMA ResetKeepsVotes ==
  ASSUME VotesOK, NEW h \in Int, h >= 0, Reset(h)
  PROVE  VotesOK'
<1> DEFINE S == Headers \cup {FirstSchemes}
           n == Len(chain)
           m == h + 1
<1>1. /\ chain \in Seq(S) /\ n >= 1 /\ chain' = SubSeq(chain, 1, m)
      /\ changed' = 0 /\ votes' = votes /\ h < n - 1 /\ n \in Nat
  BY DEF VotesOK, Reset, height
<1>2. m \in 1..n /\ 0 <= m - 1
  BY <1>1
<1> HIDE DEF S, m
<1>3. chain' \in Seq(S) /\ Len(chain') = m
  BY <1>1, <1>2, ChainSteps
<1>4. ASSUME NEW p \in Both, NEW i \in Ids \ {255} PROVE LaterThan(votes'[p][i], changed')
  BY <1>1 DEF VotesOK, LaterThan
<1>5. /\ Len(chain') \in Nat /\ Len(chain') >= 1
      /\ changed' \in Nat /\ changed' <= Len(chain') - 1
  BY <1>1, <1>2, <1>3
<1> QED BY <1>1, <1>3, <1>4, <1>5 DEF VotesOK, S, LaterThan, FirstSchemes, Nothing, NoVote

\* A vote that was cast before a change of a scheme does not count after it, but for
\* account 255, which the loop of ResetLastVoting does not reach.
THEOREM NoVoteEverSurvives == Spec => []NoVoteSurvivesAChange
<1>1. Init => VotesOK
  <2> SUFFICES ASSUME Init PROVE VotesOK
    OBVIOUS
  <2>1. config = FirstSchemes /\ chain = <<config>> /\ changed = 0
    BY DEF Init, FirstSchemes
  <2>2. Len(chain) = 1 /\ chain \in Seq(Headers \cup {FirstSchemes})
    BY <2>1
  <2>3. \A p \in Both : votes[p] = [i \in Ids |-> Nothing]
    BY DEF Init, NoVotes
  <2> QED BY <2>1, <2>2, <2>3 DEF VotesOK, LaterThan
<1>2. VotesOK /\ [Next]_vars => VotesOK'
  <2> SUFFICES ASSUME VotesOK, [Next]_vars PROVE VotesOK'
    OBVIOUS
  <2>1. ASSUME UNCHANGED <<chain, votes, changed>> PROVE VotesOK'
    BY <2>1 DEF VotesOK, LaterThan, FirstSchemes, Nothing, NoVote
  <2>2. ASSUME NEW id, NEW ballot, ReceiveNonce(id, ballot) PROVE VotesOK'
    BY <2>2, SaveKeepsVotes DEF ReceiveNonce
  <2>3. ASSUME SendNonce PROVE VotesOK'
    BY <2>3, SaveKeepsVotes DEF SendNonce
  <2>4. ASSUME NEW header, NEW recent, RefuseBlock(header, recent) PROVE VotesOK'
    <3>1. UNCHANGED <<chain, changed>>
      BY <2>4 DEF RefuseBlock
    <3>2. ASSUME NEW p \in Both
          PROVE  votes'[p] \in {votes[p], Forget(p, height + 1)}
      BY <2>4 DEF RefuseBlock
    <3>3. ASSUME NEW p \in Both
          PROVE  /\ DOMAIN votes'[p] = Ids
                 /\ \A i \in Ids : votes'[p][i] \in {votes[p][i], Nothing}
      BY <3>2 DEF VotesOK, Forget
    <3> QED BY <3>1, <3>3, DropKeepsVotes
  <2>5. ASSUME NEW header \in Headers, NEW syncing, NEW recent, NEW fails,
               ApplyBlock(header, syncing, recent, fails)
        PROVE  VotesOK'
    BY <2>5, ApplyKeepsVotes
  <2>6. ASSUME NEW h \in 0..MaxHeight, Reset(h) PROVE VotesOK'
    BY <2>6, ResetKeepsVotes
  <2>7. ASSUME NEW ballot, SetEncryptionData(ballot) PROVE VotesOK'
    BY <2>1, <2>7 DEF SetEncryptionData
  <2>8. CASE UNCHANGED vars
    BY <2>1, <2>8 DEF vars
  <2> QED BY <2>2, <2>3, <2>4, <2>5, <2>6, <2>7, <2>8 DEF Next
<1>3. VotesOK => NoVoteSurvivesAChange
  BY DEF VotesOK, LaterThan, NoVoteSurvivesAChange
<1> QED BY <1>1, <1>2, <1>3, PTL DEF Spec

-----------------------------------------------------------------------------
\* Every height has its row, the chain stays within the bound, and the rows of its
\* blocks are theirs or missing.  Above it stale rows may be found.
TreesOK ==
  /\ blocks \in Seq(Trees!TxLists) /\ Len(blocks) <= MaxHeight
  /\ DOMAIN rows = Trees!Heights
  /\ Trees!TreesMatchChain

\* The row of a block with these transactions.
RowOf(row, txs) ==
  \/ row = Trees!NoRow
  \/ /\ row.hashes = txs /\ row.root = Trees!GetRootHash(Trees!BuildMerkleTree(txs))

\* When the rows of the blocks that stay do not change or go, they match still.
LEMMA RowsMatch ==
  ASSUME MaxHeight \in Nat, blocks' \in Seq(Trees!TxLists), Len(blocks') <= MaxHeight,
         DOMAIN rows' = Trees!Heights,
         \A h \in 1..Len(blocks') : RowOf(rows'[h], blocks'[h])
  PROVE  TreesOK'
BY DEF TreesOK, Trees!TreesMatchChain, Trees!height, RowOf, Trees!NoRow, Trees!Heights,
       Trees!TxLists, Trees!GetRootHash, Trees!BuildMerkleTree, Trees!BlockLeaves

\* What TreesOK says of a block.
LEMMA RowsOfChain ==
  ASSUME TreesOK
  PROVE  /\ blocks \in Seq(Trees!TxLists) /\ Len(blocks) \in Nat
         /\ \A h \in 1..Len(blocks) : RowOf(rows[h], blocks[h])
BY DEF TreesOK, Trees!TreesMatchChain, Trees!height, RowOf

\* StoreTree changes the row of one height.
LEMMA StoreSteps ==
  ASSUME NEW r, DOMAIN r = Trees!Heights, NEW h, NEW txs
  PROVE  /\ DOMAIN Trees!StoreTree(r, h, txs) = Trees!Heights
         /\ \A i \in Trees!Heights \ {h} : Trees!StoreTree(r, h, txs)[i] = r[i]
         /\ h \in Trees!Heights => RowOf(Trees!StoreTree(r, h, txs)[h], txs)
<1> DEFINE root == Trees!GetRootHash(Trees!BuildMerkleTree(txs))
           row == [root |-> root, hashes |-> txs]
<1>1. Trees!StoreTree(r, h, txs) = [r EXCEPT ![h] = row]
  BY DEF Trees!StoreTree
<1> HIDE DEF root
<1>2. row.root = root /\ row.hashes = txs
  OBVIOUS
<1> HIDE DEF row
<1>3. RowOf(row, txs)
  BY <1>2 DEF RowOf, root
<1> QED BY <1>1, <1>3

\* RemoveMerkleTrieFromDB changes the row of one height, RemoveAbove those above a height.
LEMMA RowSteps ==
  ASSUME NEW r, DOMAIN r = Trees!Heights, NEW h
  PROVE  /\ DOMAIN Trees!RemoveMerkleTrieFromDB(r, h) = Trees!Heights
         /\ DOMAIN Trees!RemoveAbove(r, h) = Trees!Heights
         /\ \A i \in Trees!Heights :
              Trees!RemoveMerkleTrieFromDB(r, h)[i] = IF i = h THEN Trees!NoRow ELSE r[i]
         /\ h \in Int => \A i \in Trees!Heights : i <= h => Trees!RemoveAbove(r, h)[i] = r[i]
<1>1. /\ DOMAIN Trees!RemoveMerkleTrieFromDB(r, h) = Trees!Heights
      /\ \A i \in Trees!Heights :
           Trees!RemoveMerkleTrieFromDB(r, h)[i] = IF i = h THEN Trees!NoRow ELSE r[i]
  BY DEF Trees!RemoveMerkleTrieFromDB
<1>2. /\ DOMAIN Trees!RemoveAbove(r, h) = Trees!Heights
      /\ h \in Int => \A i \in Trees!Heights : i <= h => Trees!RemoveAbove(r, h)[i] = r[i]
  <2> DEFINE last == Trees!LastHeightStoredInMerleTrie(r)
  <2>1. Trees!RemoveAbove(r, h) =
          [i \in Trees!Heights |-> IF i > h /\ i <= last THEN Trees!NoRow ELSE r[i]]
    BY DEF Trees!RemoveAbove
  <2> HIDE DEF last
  <2>2. ASSUME h \in Int, NEW i \in Trees!Heights, i <= h PROVE ~(i > h)
    BY <2>2 DEF Trees!Heights
  <2> QED BY <2>1, <2>2
<1> QED BY <1>1, <1>2

\* A block is applied; a payment from escrow that fails takes the tree away.
LEMMA ApplyKeepsTrees ==
  ASSUME MaxHeight \in Nat, TreesOK, NEW txs \in Trees!TxLists, Trees!ApplyBlock(txs)
  PROVE  TreesOK'
<1> DEFINE L == Trees!TxLists
           n == Len(blocks)
           stored == Trees!StoreTree(rows, n + 1, txs)
           cut == Trees!RemoveMerkleTrieFromDB(stored, n + 1)
<1>1. /\ n < MaxHeight /\ blocks' = Append(blocks, txs)
      /\ rows' = stored \/ rows' = cut
  BY DEF Trees!ApplyBlock, Trees!height
<1>2. /\ blocks \in Seq(L) /\ n \in Nat /\ DOMAIN rows = Trees!Heights
      /\ \A h \in 1..n : RowOf(rows[h], blocks[h])
  BY RowsOfChain DEF TreesOK
<1>3. n + 1 \in Trees!Heights /\ \A h \in 1..n : h \in Trees!Heights \ {n + 1}
  BY <1>1, <1>2 DEF Trees!Heights
<1>4. /\ DOMAIN stored = Trees!Heights /\ RowOf(stored[n + 1], txs)
      /\ \A h \in 1..n : stored[h] = rows[h]
  BY <1>2, <1>3, StoreSteps
<1> HIDE DEF stored, L
<1>5. /\ DOMAIN cut = Trees!Heights /\ cut[n + 1] = Trees!NoRow
      /\ \A h \in 1..n : cut[h] = rows[h]
  BY <1>3, <1>4, RowSteps
<1> HIDE DEF cut
<1>6. /\ blocks' \in Seq(L) /\ Len(blocks') = n + 1 /\ blocks'[n + 1] = txs
      /\ \A h \in 1..n : blocks'[h] = blocks[h]
  BY <1>1, <1>2 DEF L
<1>7. /\ DOMAIN rows' = Trees!Heights /\ RowOf(rows'[n + 1], txs)
      /\ \A h \in 1..n : rows'[h] = rows[h]
  BY <1>1, <1>4, <1>5 DEF RowOf
<1>8. ASSUME NEW h \in 1..n + 1 PROVE RowOf(rows'[h], blocks'[h])
  <2>1. CASE h = n + 1
    BY <1>6, <1>7, <2>1
  <2>2. CASE h # n + 1
    <3>1. h \in 1..n
      BY <1>2, <2>2
    <3> QED BY <1>2, <1>6, <1>7, <3>1
  <2> QED BY <2>1, <2>2
<1>9. Len(blocks') <= MaxHeight
  BY <1>1, <1>2, <1>6
<1> QED BY <1>6, <1>7, <1>8, <1>9, RowsMatch DEF L

\* The rows of the first blocks stay, or go, and the chain is cut behind them.
LEMMA KeepFirstRows ==
  ASSUME MaxHeight \in Nat, TreesOK, NEW n \in 0..Len(blocks),
         blocks' = SubSeq(blocks, 1, n), DOMAIN rows' = Trees!Heights,
         \A h \in 1..n : rows'[h] \in {rows[h], Trees!NoRow}
  PROVE  TreesOK'
<1> DEFINE L == Trees!TxLists
<1>1. /\ blocks \in Seq(L) /\ Len(blocks) \in Nat /\ Len(blocks) <= MaxHeight
      /\ \A h \in 1..Len(blocks) : RowOf(rows[h], blocks[h])
  BY RowsOfChain DEF TreesOK
<1> HIDE DEF L
<1>2. /\ blocks' \in Seq(L) /\ Len(blocks') = n /\ \A h \in 1..n : blocks'[h] = blocks[h]
  BY <1>1
<1>3. ASSUME NEW h \in 1..n PROVE RowOf(rows'[h], blocks'[h])
  <2>1. h \in 1..Len(blocks)
    BY <1>1
  <2> QED BY <1>1, <1>2, <2>1 DEF RowOf
<1>4. Len(blocks') <= MaxHeight
  BY <1>1, <1>2
<1> QED BY <1>2, <1>3, <1>4, RowsMatch DEF L

\* A block fails, and the node is reset to its height.
LEMMA FailKeepsTrees ==
  ASSUME MaxHeight \in Nat, TreesOK, NEW txs, Trees!ApplyFails(txs)
  PROVE  TreesOK'
<1> DEFINE n == Len(blocks)
           S == Trees!StoreTree(rows, n + 1, txs)
<1>1. PICK st \in BOOLEAN, out \in BOOLEAN :
        LET r1 == IF st THEN S ELSE rows
            r2 == IF out THEN Trees!RemoveMerkleTrieFromDB(r1, n + 1) ELSE r1
        IN  rows' = Trees!RemoveAbove(r2, n)
  BY DEF Trees!ApplyFails, Trees!height
<1> DEFINE r1 == IF st THEN S ELSE rows
           cut == Trees!RemoveMerkleTrieFromDB(r1, n + 1)
           r2 == IF out THEN cut ELSE r1
<1>2. /\ blocks \in Seq(Trees!TxLists) /\ n \in Nat /\ n <= MaxHeight
      /\ DOMAIN rows = Trees!Heights
  BY RowsOfChain DEF TreesOK
<1>3. \A h \in 1..n : h \in Trees!Heights \ {n + 1} /\ h <= n
  BY <1>2 DEF Trees!Heights
<1>4. DOMAIN S = Trees!Heights /\ \A h \in 1..n : S[h] = rows[h]
  <2> DEFINE m == n + 1
  <2> HIDE DEF m
  <2>1. /\ DOMAIN Trees!StoreTree(rows, m, txs) = Trees!Heights
        /\ \A i \in Trees!Heights \ {m} : Trees!StoreTree(rows, m, txs)[i] = rows[i]
    BY <1>2, StoreSteps
  <2> QED BY <1>3, <2>1 DEF m
<1> HIDE DEF S
<1>5. DOMAIN r1 = Trees!Heights /\ \A h \in 1..n : r1[h] = rows[h]
  BY <1>2, <1>4
<1>6. rows' = Trees!RemoveAbove(r2, n)
  BY <1>1
<1> HIDE DEF r1
<1>7. DOMAIN cut = Trees!Heights /\ \A h \in 1..n : cut[h] = r1[h]
  BY <1>3, <1>5, RowSteps
<1> HIDE DEF cut
<1>8. DOMAIN r2 = Trees!Heights /\ \A h \in 1..n : r2[h] = rows[h]
  BY <1>5, <1>7
<1> HIDE DEF r2
<1>9. DOMAIN rows' = Trees!Heights /\ \A h \in 1..n : rows'[h] = rows[h]
  <2>1. /\ DOMAIN Trees!RemoveAbove(r2, n) = Trees!Heights
        /\ n \in Int => \A i \in Trees!Heights : i <= n => Trees!RemoveAbove(r2, n)[i] = r2[i]
    BY <1>8, RowSteps
  <2>2. n \in Int
    BY <1>2
  <2> HIDE DEF n
  <2> QED BY <1>3, <1>6, <1>8, <2>1, <2>2
<1>10. blocks' = SubSeq(blocks, 1, n) /\ n \in 0..n
  <2>1. blocks' = blocks
    BY DEF Trees!ApplyFails
  <2> QED BY <1>2, <2>1
<1> QED BY <1>9, <1>10, KeepFirstRows

\* Although rows go missing and rows of rolled back blocks stay behind a gap, the
\* row of a block of the chain is that of its own transactions or none at all:
\* ApplyBlock writes over what RemoveAbove left.
THEOREM TreesAlwaysMatchChain ==
  ASSUME MaxHeight \in Nat PROVE Trees!Spec => []Trees!TreesMatchChain
<1>1. Trees!Init => TreesOK
  <2> SUFFICES ASSUME Trees!Init PROVE TreesOK
    OBVIOUS
  <2>1. blocks = << >> /\ rows = Trees!StoreTree([h \in Trees!Heights |-> Trees!NoRow], 0, << >>)
    BY DEF Trees!Init
  <2> DEFINE none == [h \in Trees!Heights |-> Trees!NoRow]
  <2>2. DOMAIN none = Trees!Heights
    OBVIOUS
  <2> HIDE DEF none
  <2>3. DOMAIN Trees!StoreTree(none, 0, << >>) = Trees!Heights
    BY <2>2, StoreSteps
  <2>4. Len(blocks) = 0 /\ blocks \in Seq(Trees!TxLists) /\ DOMAIN rows = Trees!Heights
    BY <2>1, <2>3 DEF none
  <2> QED BY <2>4 DEF TreesOK, Trees!TreesMatchChain, Trees!height
<1>2. TreesOK /\ [Trees!Next]_Trees!vars => TreesOK'
  <2> SUFFICES ASSUME TreesOK, [Trees!Next]_Trees!vars PROVE TreesOK'
    OBVIOUS
  <2>1. /\ blocks \in Seq(Trees!TxLists) /\ Len(blocks) \in Nat /\ Len(blocks) <= MaxHeight
        /\ DOMAIN rows = Trees!Heights /\ \A h \in 1..Len(blocks) : h \in Trees!Heights
    BY RowsOfChain DEF TreesOK, Trees!Heights
  <2>2. blocks = SubSeq(blocks, 1, Len(blocks)) /\ Len(blocks) \in 0..Len(blocks)
    BY <2>1
  <2>3. ASSUME NEW txs \in Trees!TxLists, Trees!ApplyBlock(txs) PROVE TreesOK'
    BY <2>3, ApplyKeepsTrees
  <2>4. ASSUME NEW txs, Trees!ApplyFails(txs) PROVE TreesOK'
    BY <2>4, FailKeepsTrees
  <2>5. ASSUME NEW h, Trees!ThrowOutOfProposal(h) PROVE TreesOK'
    <3>1. blocks' = blocks /\ rows' = Trees!RemoveMerkleTrieFromDB(rows, h)
      BY <2>5 DEF Trees!ThrowOutOfProposal
    <3>2. /\ DOMAIN rows' = Trees!Heights
          /\ \A i \in Trees!Heights : rows'[i] = IF i = h THEN Trees!NoRow ELSE rows[i]
      BY <2>1, <3>1, RowSteps
    <3>3. \A i \in 1..Len(blocks) : rows'[i] \in {rows[i], Trees!NoRow}
      BY <2>1, <3>2
    <3> QED BY <2>2, <3>1, <3>2, <3>3, KeepFirstRows, Zenon, SMTT(20)
  <2>6. ASSUME NEW h \in Trees!Heights, Trees!ResetAccountsAndBlocksSync(h) PROVE TreesOK'
    <3>1. h \in Int /\ h >= 0 /\ h < Len(blocks)
      BY <2>6 DEF Trees!ResetAccountsAndBlocksSync, Trees!height, Trees!Heights
    <3>2. blocks' = SubSeq(blocks, 1, h) /\ rows' = Trees!RemoveAbove(rows, h)
      BY <2>6 DEF Trees!ResetAccountsAndBlocksSync
    <3>3. /\ DOMAIN rows' = Trees!Heights
          /\ \A i \in Trees!Heights : i <= h => rows'[i] = rows[i]
      BY <2>1, <3>1, <3>2, RowSteps
    <3>4. h \in 0..Len(blocks) /\ \A i \in 1..h : i \in 1..Len(blocks) /\ i <= h
      BY <2>1, <3>1
    <3>5. \A i \in 1..h : rows'[i] \in {rows[i], Trees!NoRow}
      BY <2>1, <3>3, <3>4
    <3> QED BY <3>2, <3>3, <3>4, <3>5, KeepFirstRows
  <2>7. CASE UNCHANGED Trees!vars
    <3>1. blocks' = blocks /\ rows' = rows
      BY <2>7 DEF Trees!vars
    <3> QED BY <2>1, <2>2, <3>1, KeepFirstRows, Zenon, SMTT(20)
  <2> QED BY <2>3, <2>4, <2>5, <2>6, <2>7 DEF Trees!Next
<1>3. TreesOK => Trees!TreesMatchChain
  BY DEF TreesOK
<1> QED BY <1>1, <1>2, <1>3, PTL DEF Trees!Spec
=============================================================================
