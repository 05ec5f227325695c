----------------------------- MODULE MCServices -----------------------------
(***************************************************************************)
(* The parts of the node that share no state, each on an instance of its   *)
(* own: the first state says which part moves, and only that part moves    *)
(* afterwards.                                                             *)
(***************************************************************************)
EXTENDS Encryption

VARIABLES
  part,
  oracleHeight, oracles, staked, block, accepted,
  blocks, rows,
  db,
  wallet, disk, backups, keys, pc, makeBackup, failures, saved, locked,
  tcpConnections, peersConnected, validPeersConnected, nodePeersConnected, oldPeers,
  bannedIP, accepting, dialer,
  sent, read, buffer, delivered, handled, trust, dropped, open,
  transactions, priorityQueue, transactionIndices, bannedTransactions, poolPc, stuck

oracleVars == <<oracleHeight, oracles, staked, block, accepted>>
treeVars == <<blocks, rows>>
keyVars == <<db>>
walletVars == <<wallet, disk, backups, keys, pc, makeBackup, failures, saved, locked>>
peerVars == <<tcpConnections, peersConnected, validPeersConnected, nodePeersConnected, oldPeers,
            bannedIP, accepting, dialer>>
frameVars == <<sent, read, buffer, delivered, handled, trust, dropped, open>>
poolVars == <<transactions, priorityQueue, transactionIndices, bannedTransactions, poolPc, stuck>>

-----------------------------------------------------------------------------
\* Three delegated accounts, one of which may lose its stake; the prices differ.
O == INSTANCE Oracles WITH
  height <- oracleHeight,
  Ids <- {1, 2, 3},
  Proposals <- {<<1, 0>>, <<5, 0>>, <<9, 3>>},
  Stakes <- <<{3}, {2}, {0, 2}>>,
  OraclesHeightDistance <- 1,
  MaxHeight <- 2

\* Encryption.  Account 1 holds two thirds of what is staked; 255 is the last
\* account of all.
S(name, paused) == [name |-> name, paused |-> paused]
MCDefault == <<"A", "B">>
MCIds == {1, 255}
MCStaked == [i \in MCIds |-> IF i = 1 THEN 2 ELSE 1]
MCBallots == {<<S("A", TRUE), S("", FALSE)>>, <<S("C", FALSE), S("B", TRUE)>>}
MCHeaders == {S("A", FALSE), S("A", TRUE), S("C", FALSE)} \X {S("B", FALSE), S("B", TRUE)}

\* Blocks of up to four transactions, repeated ones among them.
Trees == INSTANCE TransactionTrees WITH chain <- blocks, Txs <- {1, 2}, MaxTxs <- 4, MaxHeight <- 2

\* The key of an address: primary or secondary, and the wallet it belongs to.
Key(address, primary, main) == [address |-> address, primary |-> primary, main |-> main]

\* The operator's wallet, a new wallet, a key added to each, and a second wallet.
K == INSTANCE PubKeys WITH
  Addresses <- {1, 2, 3, 4},
  TxKeys <- {Key(3, TRUE, 3), Key(3, FALSE, 1), Key(4, FALSE, 3), Key(4, TRUE, 4), Key(2, FALSE, 1)},
  Operator <- <<1, 2>>,
  MaxTxs <- 2

\* Both schemes of the start, and one the network may change to.
W == INSTANCE Wallet WITH
  Schemes <- {"A", "B", "C"},
  Default <- <<"A", "B">>,
  Passwords <- {"p"},
  MaxKeys <- 5

\* One other node on two topics, the node's own connection, and one dialler.
N == INSTANCE Peers WITH
  Ips <- {"me", "a"}, MyIP <- "me",
  WhiteListIPs <- {"me"},
  Topics <- <<"NN", "TT">>,
  SelfNonceTopic <- "SS",
  Callers <- {<<"NN", "a">>, <<"TT", "a">>, <<"SS", "me">>},
  Dialers <- {"d1"},
  ConnectionMaxTries <- 1,
  MaxAccepting <- 1

\* Four messages; two of the chunks they can be read in look like "WAIT".
F == INSTANCE Frames WITH
  Lengths <- <<2, 1, 3, 1>>,
  OtherChain <- {2},
  Waits <- {<<1, 2>>, <<3, 1>>},
  EndLength <- 2,
  BufSize <- 4,
  MaxMessageSizeBytes <- 7

\* Two transactions have the same gas price.
GasPrices(hashes) == [h \in hashes |-> IF h = 2 THEN 1 ELSE h]

\* One caller and room for every transaction; two callers and a pool that overflows.
Roomy == INSTANCE TransactionPool WITH
  pc <- poolPc, Hashes <- 1..6, Priority <- GasPrices(1..6), Threads <- {"t1"},
  MaxTransactions <- 6, MaxNumberOfTxBans <- 0, MaxBans <- 1, Bannable <- {5}
Full == INSTANCE TransactionPool WITH
  pc <- poolPc, Hashes <- 1..4, Priority <- GasPrices(1..4), Threads <- {"t1", "t2"},
  MaxTransactions <- 3, MaxNumberOfTxBans <- 0, MaxBans <- 1, Bannable <- {1, 3}

-----------------------------------------------------------------------------
MCInit ==
  /\ part \in {"oracles", "encryption", "trees", "pubkeys", "wallet", "peers", "frames",
               "roomyPool", "fullPool"}
  /\ O!Init /\ Init /\ Trees!Init /\ K!Init /\ W!Init /\ N!Init /\ F!Init
  /\ IF part = "fullPool" THEN Full!Init ELSE Roomy!Init

MCNext ==
  \/ part = "oracles" /\ O!Next /\ UNCHANGED <<part, vars, treeVars, keyVars, walletVars, peerVars, frameVars, poolVars>>
  \/ part = "encryption" /\ Next /\ UNCHANGED <<part, oracleVars, treeVars, keyVars, walletVars, peerVars, frameVars, poolVars>>
  \/ part = "trees" /\ Trees!Next /\ UNCHANGED <<part, oracleVars, vars, keyVars, walletVars, peerVars, frameVars, poolVars>>
  \/ part = "pubkeys" /\ K!Next /\ UNCHANGED <<part, oracleVars, vars, treeVars, walletVars, peerVars, frameVars, poolVars>>
  \/ part = "wallet" /\ W!Next /\ UNCHANGED <<part, oracleVars, vars, treeVars, keyVars, peerVars, frameVars, poolVars>>
  \/ part = "peers" /\ N!Next /\ UNCHANGED <<part, oracleVars, vars, treeVars, keyVars, walletVars, frameVars, poolVars>>
  \/ part = "frames" /\ F!Next /\ UNCHANGED <<part, oracleVars, vars, treeVars, keyVars, walletVars, peerVars, poolVars>>
  \/ part = "roomyPool" /\ Roomy!Next /\ UNCHANGED <<part, oracleVars, vars, treeVars, keyVars, walletVars, peerVars, frameVars>>
  \/ part = "fullPool" /\ Full!Next /\ UNCHANGED <<part, oracleVars, vars, treeVars, keyVars, walletVars, peerVars, frameVars>>

MCVars == <<part, oracleVars, vars, treeVars, keyVars, walletVars, peerVars, frameVars, poolVars>>

MCSpec == MCInit /\ [][MCNext]_MCVars

-----------------------------------------------------------------------------
\* With proposals of three accounts or more, no single account moves the price
\* of an accepted block outside the prices of the others.
NobodySetsThePrice == O!NobodySetsThePrice

\* Although rows go missing and rows of rolled back blocks stay behind a gap, the
\* row of a block of the chain is that of its own transactions or none at all:
\* what LoadTxHashes and FindTransactionInBlocks read is never another block's.
TreesMatchChain == Trees!TreesMatchChain

\* Two lists of transactions have the same root only if they are equal, although a
\* lone last node is paired with itself: CheckBaseBlock compares roots only.
RootDeterminesTransactions == Trees!RootDeterminesTransactions

\* Whatever blocks were applied in part, every wallet that has addresses starts with
\* its main address, its tree holds exactly the listed addresses, and the key of
\* each flag that is listed can be loaded: header and transaction checks depend on it.
WalletsResolve == K!WalletsResolve

\* Until the third Store has failed, no secret key of a wallet that was once stored is
\* lost from the files and their backups, whatever is stored over it and wherever a
\* Store stops; and a wallet that loads has the public keys of its secret keys,
\* although they come from two databases and a Store may have stopped between them.
KeysOnDisk == W!KeysOnDisk /\ W!LoadedInOrder

\* What GetPeersConnected tells the services is what the node can send on, however
\* registrations, failed writes, bans and look-ups interleave.
PeersAgree == N!PeersAgree

\* StartNewConnection loses, repeats and reorders no byte, wherever TCP cuts the
\* stream, and after a frame was refused no message is handled twice or out of order.
StreamPreserved == F!StreamPreserved

\* The slice of the pool is a heap, also after a removal at a stale position:
\* PeekTransactions and the eviction rely on it.  With one caller and room for every
\* transaction the slice and the map hold the same transactions, each of them once;
\* a pool that overflows stays within maxTransactions.
HeapOrdered ==
  /\ part = "roomyPool" => Roomy!HeapOrdered /\ Roomy!QueueMatches
  /\ part = "fullPool" => Full!HeapOrdered /\ Full!QueueBounded

\* What the pool promises its callers: a set of transactions, seen through the queue.
Pool == INSTANCE PoolSpec WITH
  Hashes <- 1..6,
  content <- IF part = "roomyPool" THEN {priorityQueue[i] : i \in DOMAIN priorityQueue} ELSE {},
  refused <- IF part = "roomyPool" THEN {h \in 1..6 : bannedTransactions[h] > 0} ELSE {}

\* With one caller and room for every transaction, each operation on the heap and
\* the maps is an operation on the set: a removal takes the transaction that was
\* asked for and no other (or none, if the ban had dropped its position).
ImplementsPool == Pool!Spec
=============================================================================
