----------------------------- MODULE ChainSync ------------------------------
(***************************************************************************)
(* How a node's handlers extend, roll back and replace its chain: the "bl" *)
(* case of services/nonceService/onmessage.go, the "hi" and "sh" cases of  *)
(* services/syncService/onmessage.go, and services/helperReset.go.         *)
(*                                                                         *)
(* Every connection has its own goroutine, so handlers interleave.  Each   *)
(* reads the height when its message arrives; only the part that applies   *)
(* blocks holds BlockMutex, and the first pass of "sh" may reset the node  *)
(* without it.                                                             *)
(*                                                                         *)
(* A block stands for its transfers: the balances in memory and in a store *)
(* are the sequence of the blocks that were applied to reach them.  A peer *)
(* is the chain it serves.  What Ledger.tla models of one block is here    *)
(* the single step Apply.                                                  *)
(***************************************************************************)
EXTENDS Integers, Sequences, FiniteSets, FiniteSetsExt, Functions

CONSTANTS
  Genesis,                 \* the genesis block
  Chains,                  \* the chains of the peers, without the genesis block
  Scenarios,               \* <<chain, handlers>>: the chain that the node has applied
                           \* before, and the handlers that have messages
  Reward,                  \* coins that a block creates
  NumberOfHashesInBucket, CurrentHeightOfNetwork,
  NonceHandlers, SyncHandlers,
  MaxHeight,               \* bound: no chain is longer
  MaxInbox                 \* bound: headers on their way to the node

\* A block: its height, its hash, the hash of the block before, the fees of its
\* transactions, those of its chain (BlockFee), and whether it has transactions.
BlockType == [height : Nat, id : Nat, prev : Nat, fees : Nat,
              total : Nat, txs : BOOLEAN]

StartChains == {s[1] : s \in Scenarios}
Blocks == UNION {{c[i] : i \in DOMAIN c} : c \in Chains \cup StartChains}
ASSUME BlocksAssumption == Blocks \subseteq BlockType

Handlers == NonceHandlers \cup SyncHandlers
Heights == 0..MaxHeight

None == [height |-> 0, id |-> 0, prev |-> 0, fees |-> 0,
         total |-> 0, txs |-> TRUE]
NoRow == <<None>>

\* The blocks of a chain are numbered from 1, and the genesis block is before them.
ASSUME ChainAssumption ==
  /\ MaxHeight \in Nat /\ NumberOfHashesInBucket \in Nat /\ Reward \in Nat
  /\ Genesis \in BlockType /\ Genesis.height = 0 /\ Genesis # None
  /\ \A c \in Chains \cup StartChains :
       /\ c \in Seq(BlockType) /\ Len(c) <= MaxHeight
       /\ \A i \in 1..Len(c) : c[i].height = i

\* In the chain that the node has applied every block has the fees of its chain.
ASSUME StartAssumption ==
  /\ Genesis.total = 0
  /\ \A c \in StartChains : \A i \in 1..Len(c) :
       c[i].total = (IF i = 1 THEN 0 ELSE c[i - 1].total) + c[i].fees

Free == "free"
ASSUME FreeAssumption == Free \notin Handlers

\* A connection belongs to one topic, "N" or "S", and a node has finitely many.
ASSUME HandlersAssumption ==
  NonceHandlers \cap SyncHandlers = {} /\ IsFiniteSet(Handlers)

VARIABLES
  height,       \* common.height
  heightMax,    \* common.heightMax
  isSyncing,    \* common.IsSyncing
  shift,        \* common.ShiftToPastInReset
  blockMutex,   \* the handler that holds common.BlockMutex
  accounts,     \* account.Accounts, as the blocks that were applied
  staking,      \* account.StakingAccounts, likewise
  blockDB,      \* the blocks by height
  accountsDB,   \* the accounts by height
  stakingDB,    \* the staking accounts by height, of the delegated accounts 1 to 255
  pool,         \* the blocks whose transactions are under TransactionPoolHashesDBPrefix
  stored,       \* the blocks whose transactions are under TransactionDBPrefix
  inbox,        \* "sh" messages: ranges of blocks of a peer
  wanted,       \* blocks whose transactions were asked for
  local,        \* the local variables of every handler
  active        \* the handlers that have messages in this behaviour

memory == <<accounts, staking>>
stores == <<blockDB, accountsDB, stakingDB>>
flags == <<heightMax, isSyncing, shift>>
txVars == <<pool, stored, wanted>>
vars == <<height, flags, blockMutex, memory, stores, txVars, inbox, local, active>>

Idle == [pc |-> "idle", h |-> 0, hmax |-> 0, list |-> << >>, i |-> 0,
         old |-> None, target |-> 0, adjust |-> FALSE]

-----------------------------------------------------------------------------
\* The longest run of heights from 0 that a store holds.
LastHeightStored(db, none) ==
  Max({h \in Heights : \A i \in 0..h : db[i] # none})

\* Mutant: asks for the blocks after the last one only.
GetHeaders_FromNext(h, other) ==
  LET s2p == Min({other - h, NumberOfHashesInBucket})
      b   == other - s2p + 1
  IN  IF b > h THEN <<h + 1, Min({h + s2p, other})>> ELSE <<b, other>>

\* generateSyncMsgGetHeaders: the heights to ask a peer of this height for.
GetHeaders(h, other) ==
  LET s2p == Min({other - h + 1, NumberOfHashesInBucket})
      b   == IF other - s2p < 2 THEN 0 ELSE other - s2p
  IN  IF b > h THEN <<h, Min({h + s2p, other})>> ELSE <<b, other>>

\* generateSyncMsgSendHeaders: what a peer with this chain answers, << >> for nothing.
SendHeaders(chain, range) ==
  LET to == Min({range[2], Len(chain)})
  IN  IF range[1] > to THEN << >>
      ELSE [i \in 1..(to - range[1] + 1) |->
              IF range[1] + i - 1 = 0 THEN Genesis ELSE chain[range[1] + i - 1]]

\* AdjustShiftInPastInReset, at height h.
AdjustShift(other, h) == IF other <= h THEN 1 ELSE Max({1, Min({2 * shift, other})})

\* Coins in the accounts after these blocks, apart from those of the genesis
\* block; a block charges its fees and pays them to nobody.
CoinsAfter(ledger) ==
  SumFunctionOnSet([i \in DOMAIN ledger |-> Reward - ledger[i].fees], DOMAIN ledger)

\* Mutant: CheckBlockAndTransferFunds without the check of the supply.
SupplyMatches_Unchecked(old) == TRUE

\* GetSupplyInAccounts()+staked+rewarded+reward+lastBlock.BlockFee is the supply
\* of the new block, which is the supply of the last block and its reward.
SupplyMatches(old) ==
  /\ accounts = staking
  /\ CoinsAfter(accounts) + old.total = Reward * old.height

\* CheckBaseBlock: the block follows this one.  The oracles and votes of the
\* block are verified only while the node does not sync.
Follows(b, old) == b.prev = old.id

Init ==
  /\ \E c \in StartChains, handlers \in SUBSET Handlers :
       LET ledger(h) == SubSeq(c, 1, h)
           row(h) == IF h = 0 THEN Genesis ELSE c[h]
       IN  /\ <<c, handlers>> \in Scenarios /\ active = handlers
           /\ height = Len(c) /\ accounts = c /\ staking = c
           /\ blockDB = [h \in Heights |-> IF h <= Len(c) THEN row(h) ELSE None]
           /\ accountsDB = [h \in Heights |-> IF h <= Len(c) THEN ledger(h) ELSE NoRow]
           /\ stakingDB = accountsDB
           /\ stored = {b \in {c[i] : i \in DOMAIN c} : b.txs}
  /\ heightMax = 0 /\ isSyncing = FALSE /\ shift = 1 /\ blockMutex = Free
  /\ pool = {} /\ wanted = {} /\ inbox = {}
  /\ local = [t \in Handlers |-> Idle]

-----------------------------------------------------------------------------
\* Transactions.  IsAllTransactions asks for those of a block in the pool's part
\* of the database; SendGT asks a peer for them, and the "tx" handler stores
\* what arrives unless the transaction is in the chain's part already.
HasTransactions(b) == ~b.txs \/ b \in pool

ReceiveTransactions(b) ==
  /\ b.txs /\ b \notin stored /\ b \notin pool
  /\ pool' = pool \cup {b} /\ wanted' = wanted \ {b}
  /\ UNCHANGED <<height, flags, blockMutex, memory, stores, stored, inbox, local, active>>

-----------------------------------------------------------------------------
\* The handlers.  Set(t, r) gives handler t the local variables r.
Set(t, r) == local' = [local EXCEPT ![t] = r]

\* A handler that holds BlockMutex returns: the deferred calls of "sh" unlock it
\* and clear IsSyncing above CurrentHeightOfNetwork, at height h.
Unlock(t, h) ==
  /\ Set(t, Idle) /\ blockMutex' = Free
  /\ isSyncing' = (isSyncing /\ ~(t \in SyncHandlers /\ h > CurrentHeightOfNetwork))

\* ReceiveBlock: a "bl" message arrives; the height is read here.
ReceiveBlock(t, b) ==
  /\ t \in active \cap NonceHandlers /\ local[t].pc = "idle" /\ ~isSyncing
  /\ Set(t, [Idle EXCEPT !.pc = "bl", !.h = height, !.list = <<b>>])
  /\ UNCHANGED <<height, flags, blockMutex, memory, stores, txVars, inbox, active>>

\* Mutant: BlockMutex is taken after the check of the block.
CheckBlock_Unlocked(t, refused) ==
  LET l == local[t]  b == l.list[1]  last == blockDB[l.h]
  IN  /\ l.pc = "bl" /\ ~refused
      /\ last # None /\ b.height = l.h + 1 /\ Follows(b, last) /\ HasTransactions(b)
      /\ blockMutex' = t
      /\ Set(t, [l EXCEPT !.pc = "apply", !.i = 1, !.old = last])
      /\ UNCHANGED <<height, flags, memory, stores, txVars, inbox, active>>

\* The rest of "bl" before the block is applied, with BlockMutex: the block is
\* compared with the one stored at the height that was read on arrival.
\* refused: the oracles or votes of the block do not agree with those received.
CheckBlock(t, refused) ==
  LET l == local[t]  b == l.list[1]  last == blockDB[l.h]
  IN  /\ l.pc = "bl" /\ blockMutex = Free
      /\ refused => ~isSyncing
      /\ IF last = None \/ b.height # l.h + 1 \/ ~Follows(b, last) \/ refused
         THEN Set(t, Idle) /\ UNCHANGED <<blockMutex, wanted>>
         ELSE IF ~HasTransactions(b)
         THEN Set(t, Idle) /\ wanted' = wanted \cup {b} /\ UNCHANGED blockMutex
         ELSE /\ blockMutex' = t
              /\ Set(t, [l EXCEPT !.pc = "apply", !.i = 1, !.old = last])
              /\ UNCHANGED wanted
      /\ UNCHANGED <<height, flags, memory, stores, pool, stored, inbox, active>>

\* CheckBlockAndTransferFunds fails: what it did to memory by then is undone by
\* ResetAccountsAndBlocksSync(lastBlock.Height), still with BlockMutex.  Any block
\* may fail: head.Verify() loads the operator's key of a scheme that
\* GetNodeSignPrimary draws at random, not of the one the block was signed with.
ApplyFails(t) ==
  LET l == local[t]  b == l.list[l.i]
  IN  /\ l.pc = "apply"
      /\ \/ UNCHANGED accounts
         \/ /\ \/ ~SupplyMatches(l.old) \/ ~HasTransactions(b) \/ b \in stored
               \/ accounts # << >> /\ accounts[Len(accounts)].id # b.prev
            /\ accounts' = Append(accounts, b)
      /\ UNCHANGED staking
      /\ pool' = pool \ {b}
      /\ wanted' = IF t \in SyncHandlers /\ b.txs THEN wanted \cup {b} ELSE wanted
      /\ Set(t, [l EXCEPT !.pc = "reset", !.target = l.old.height])
      /\ UNCHANGED <<height, flags, blockMutex, stores, stored, inbox, active>>

\* CheckBlockAndTransferFunds succeeds.
Apply(t) ==
  LET l == local[t]  b == l.list[l.i]
  IN  /\ l.pc = "apply"
      /\ SupplyMatches(l.old) /\ HasTransactions(b) /\ b \notin stored
      /\ accounts' = Append(accounts, b) /\ staking' = Append(staking, b)
      /\ pool' = pool \ {b}
      /\ stored' = IF b.txs THEN stored \cup {b} ELSE stored
      /\ Set(t, [l EXCEPT !.pc = "storeBlock"])
      /\ UNCHANGED <<height, flags, blockMutex, stores, wanted, inbox, active>>

\* StoreBlock, with the fees of the chain.
StoreBlock(t) ==
  LET l == local[t]  b == l.list[l.i]
  IN  /\ l.pc = "storeBlock"
      /\ blockDB' = [blockDB EXCEPT ![b.height] = [b EXCEPT !.total = l.old.total + b.fees]]
      /\ Set(t, [l EXCEPT !.pc = "storeAccounts"])
      /\ UNCHANGED <<height, flags, blockMutex, memory, accountsDB, stakingDB, txVars, inbox, active>>

\* Mutant: the accounts are stored at the height of the node.
StoreAccounts_AtHeight(t) ==
  /\ local[t].pc = "storeAccounts"
  /\ accountsDB' = [accountsDB EXCEPT ![height] = accounts]
  /\ Set(t, [local[t] EXCEPT !.pc = "storeStaking"])
  /\ UNCHANGED <<height, flags, blockMutex, memory, blockDB, stakingDB, txVars, inbox, active>>

StoreAccounts(t) ==
  LET l == local[t]
  IN  /\ l.pc = "storeAccounts"
      /\ accountsDB' = [accountsDB EXCEPT ![l.list[l.i].height] = accounts]
      /\ Set(t, [l EXCEPT !.pc = "storeStaking"])
      /\ UNCHANGED <<height, flags, blockMutex, memory, blockDB, stakingDB, txVars, inbox, active>>

StoreStakingAccounts(t) ==
  LET l == local[t]
  IN  /\ l.pc = "storeStaking"
      /\ stakingDB' = [stakingDB EXCEPT ![l.list[l.i].height] = staking]
      /\ Set(t, [l EXCEPT !.pc = "setHeight"])
      /\ UNCHANGED <<height, flags, blockMutex, memory, blockDB, accountsDB, txVars, inbox, active>>

\* SetHeight; "sh" goes on with its next block.
SetHeight(t) ==
  LET l == local[t]  b == l.list[l.i]
  IN  /\ l.pc = "setHeight"
      /\ height' = b.height
      /\ IF l.i = Len(l.list)
         THEN Unlock(t, b.height)
         ELSE /\ Set(t, [l EXCEPT !.pc = "apply", !.i = l.i + 1, !.old = b])
              /\ UNCHANGED <<blockMutex, isSyncing>>
      /\ UNCHANGED <<heightMax, shift, memory, stores, txVars, inbox, active>>

-----------------------------------------------------------------------------
\* ResetAccountsAndBlocksSync(target) ends at height h: the second pass returns,
\* the first one runs its deferred AdjustShiftInPastInReset if there is one.
ResetReturns(t, h) ==
  IF blockMutex = t
  THEN Unlock(t, h) /\ UNCHANGED shift
  ELSE /\ Set(t, Idle) /\ UNCHANGED <<blockMutex, isSyncing>>
       /\ shift' = IF local[t].adjust THEN AdjustShift(local[t].hmax, h) ELSE shift

\* A negative height at genesis, or accounts or a block that are not stored: no reset.
ResetGivesUp(t) ==
  LET l == local[t]  target == Max({0, l.target})
  IN  /\ l.pc = "reset"
      /\ \/ /\ l.target < 0 /\ height = 0
            /\ Set(t, Idle) /\ isSyncing' = TRUE /\ UNCHANGED <<blockMutex, memory>>
            /\ shift' = IF l.adjust THEN AdjustShift(l.hmax, height) ELSE shift
         \/ /\ ~(l.target < 0 /\ height = 0)
            /\ accountsDB[target] = NoRow
            /\ ResetReturns(t, height) /\ UNCHANGED memory
         \/ /\ ~(l.target < 0 /\ height = 0)
            /\ accountsDB[target] # NoRow /\ blockDB[target] = None
            /\ accounts' = accountsDB[target]
            /\ staking' = IF stakingDB[target] = NoRow THEN staking ELSE stakingDB[target]
            /\ ResetReturns(t, height)
      /\ UNCHANGED <<height, heightMax, stores, txVars, inbox, active>>

\* LoadAccounts, LoadStakingAccounts and SetEncryptionFromBlock.
ResetLoad(t) ==
  LET l == local[t]  target == Max({0, l.target})
  IN  /\ l.pc = "reset"
      /\ ~(l.target < 0 /\ height = 0)
      /\ accountsDB[target] # NoRow /\ blockDB[target] # None
      /\ accounts' = accountsDB[target]
      /\ staking' = IF stakingDB[target] = NoRow THEN staking ELSE stakingDB[target]
      /\ Set(t, [l EXCEPT !.pc = "remove", !.target = target])
      /\ UNCHANGED <<height, flags, blockMutex, stores, txVars, inbox, active>>

\* RemoveBlockFromDB and RemoveAccountsFromDB above the target.
\* RemoveStakingAccountsFromDB appends to its key in its loop, so it deletes the
\* row of the delegated account 0 only and the others stay.
ResetRemove(t) ==
  LET l == local[t]
      hb == LastHeightStored(blockDB, None)
      ha == LastHeightStored(accountsDB, NoRow)
  IN  /\ l.pc = "remove"
      /\ blockDB' = [h \in Heights |-> IF h \in (l.target + 1)..hb THEN None ELSE blockDB[h]]
      /\ accountsDB' = [h \in Heights |-> IF h \in (l.target + 1)..ha THEN NoRow ELSE accountsDB[h]]
      /\ Set(t, [l EXCEPT !.pc = "resetHeight"])
      /\ UNCHANGED <<height, flags, blockMutex, memory, stakingDB, txVars, inbox, active>>

ResetHeight(t) ==
  /\ local[t].pc = "resetHeight"
  /\ height' = local[t].target
  /\ ResetReturns(t, local[t].target)
  /\ UNCHANGED <<heightMax, memory, stores, txVars, inbox, active>>

-----------------------------------------------------------------------------
\* SendGetHeaders to a peer, and what it answers.  Send gives up when another
\* handler is sending, so the request may be lost.
Request(chain, other, sent) ==
  LET list == SendHeaders(chain, GetHeaders(height, other))
  IN  inbox' = IF sent /\ other > 0 /\ list # << >> /\ Cardinality(inbox) < MaxInbox
               THEN inbox \cup {list} ELSE inbox

\* The "hi" message of a peer: its height and the hash of its last block.
ReceiveHi(t, chain, sent) ==
  LET other == Len(chain)
      syncing == isSyncing \/ height < CurrentHeightOfNetwork
  IN  /\ t \in active \cap SyncHandlers /\ local[t].pc = "idle"
      /\ heightMax' = Max({heightMax, other})
      /\ IF other > height
         THEN Request(chain, other, sent) /\ isSyncing' = syncing /\ UNCHANGED shift
         ELSE /\ shift' = AdjustShift(other, height)
              /\ isSyncing' = (syncing /\ other <= heightMax)
              /\ IF other = height /\ other > 0 /\ chain[other].id # blockDB[height].id
                 THEN Request(chain, other, sent) ELSE UNCHANGED inbox
      /\ UNCHANGED <<height, blockMutex, memory, stores, txVars, local, active>>

\* An "sh" message arrives, later than others that were sent after it or never;
\* height and heightMax are read here.
ReceiveHeaders(t, list) ==
  /\ t \in active \cap SyncHandlers /\ local[t].pc = "idle" /\ list \in inbox
  /\ inbox' = inbox \ {list}
  /\ IF list[Len(list)].height <= height \/ list[1].height > height
     THEN UNCHANGED local
     ELSE Set(t, [Idle EXCEPT !.pc = "verify", !.h = height, !.hmax = heightMax, !.list = list])
  /\ UNCHANGED <<height, flags, blockMutex, memory, stores, txVars, active>>

LoseHeaders(list) ==
  /\ list \in inbox /\ inbox' = inbox \ {list}
  /\ UNCHANGED <<height, flags, blockMutex, memory, stores, txVars, local, active>>

\* The first pass over the headers, without BlockMutex.  Blocks up to the height
\* that was read on arrival are compared with the chain...
Known(l) == {i \in DOMAIN l.list : l.list[i].height \in 1..l.h}
Differs(l) == {i \in Known(l) : blockDB[l.list[i].height].id # l.list[i].id}

VerifyKnown(t) ==
  /\ local[t].pc = "verify" /\ Differs(local[t]) = {}
  /\ Set(t, [local[t] EXCEPT !.pc = "check"])
  /\ UNCHANGED <<height, flags, blockMutex, memory, stores, txVars, inbox, active>>

\* ... and at the first one that differs, or is not stored, the node goes back.
VerifyForks(t) ==
  LET l == local[t]
  IN  /\ l.pc = "verify" /\ Differs(l) # {}
      /\ Set(t, [l EXCEPT !.pc = "reset", !.adjust = TRUE,
                          !.target = l.list[Min(Differs(l))].height - shift])
      /\ UNCHANGED <<height, flags, blockMutex, memory, stores, txVars, inbox, active>>

\* The first block after them has to follow the block stored before it, every other
\* one the header before it.
FirstNew(l) == Max(Known(l) \cup {i \in DOMAIN l.list : l.list[i].height = 0}) + 1
OldBlock(l, i) == IF i = FirstNew(l) THEN blockDB[l.list[i].height - 1] ELSE l.list[i - 1]
Linked(l, i) == Follows(l.list[i], OldBlock(l, i))

\* CheckBaseBlock refuses a block: the node goes back by the adjusted shift.
VerifyRefuses(t) ==
  LET l == local[t]
      back == AdjustShift(l.hmax, height)
  IN  /\ l.pc = "check" /\ OldBlock(l, FirstNew(l)) # None
      /\ \E i \in FirstNew(l)..Len(l.list) :
           /\ ~isSyncing \/ ~Linked(l, i)
           /\ \A j \in FirstNew(l)..(i - 1) : Linked(l, j)
           /\ Set(t, [l EXCEPT !.pc = "reset", !.target = l.list[i].height - back])
      /\ shift' = back
      /\ UNCHANGED <<height, heightMax, isSyncing, blockMutex, memory, stores, txVars, inbox, active>>

\* The block before the new ones is gone: panic("cannot load block").
VerifyPanics(t) ==
  LET l == local[t]
  IN  /\ l.pc = "check"
      /\ OldBlock(l, FirstNew(l)) = None
      /\ Set(t, Idle)
      /\ UNCHANGED <<height, flags, blockMutex, memory, stores, txVars, inbox, active>>

\* The headers are verified: ask for transactions, or go on to the second pass.
Verify(t) ==
  LET l == local[t]
      new == {l.list[i] : i \in FirstNew(l)..Len(l.list)}
      missing == {b \in new : ~HasTransactions(b)}
  IN  /\ l.pc = "check"
      /\ OldBlock(l, FirstNew(l)) # None
      /\ \A i \in FirstNew(l)..Len(l.list) : Linked(l, i)
      /\ IF missing # {}
         THEN Set(t, Idle) /\ wanted' = wanted \cup missing /\ UNCHANGED isSyncing
         ELSE /\ Set(t, [l EXCEPT !.pc = "lock", !.i = FirstNew(l)])
              /\ isSyncing' = TRUE /\ UNCHANGED wanted
      /\ UNCHANGED <<height, heightMax, shift, blockMutex, memory, stores, pool, stored, inbox, active>>

\* The second pass takes BlockMutex and loads the block before the new ones.
Lock(t) ==
  LET l == local[t]  old == blockDB[l.list[l.i].height - 1]
  IN  /\ l.pc = "lock" /\ blockMutex = Free
      /\ IF old = None
         THEN /\ Set(t, Idle) /\ UNCHANGED blockMutex
              /\ isSyncing' = (isSyncing /\ height <= CurrentHeightOfNetwork)
         ELSE Set(t, [l EXCEPT !.pc = "apply", !.old = old]) /\ blockMutex' = t /\ UNCHANGED isSyncing
      /\ UNCHANGED <<height, heightMax, shift, memory, stores, txVars, inbox, active>>

-----------------------------------------------------------------------------
\* What a handler does between the arrival of a message and its return.
Step(t) ==
  \/ \E refused \in BOOLEAN : CheckBlock(t, refused)
  \/ VerifyKnown(t) \/ VerifyForks(t) \/ VerifyRefuses(t) \/ VerifyPanics(t) \/ Verify(t)
  \/ Lock(t)
  \/ Apply(t) \/ ApplyFails(t)
  \/ StoreBlock(t) \/ StoreAccounts(t) \/ StoreStakingAccounts(t) \/ SetHeight(t)
  \/ ResetGivesUp(t) \/ ResetLoad(t) \/ ResetRemove(t) \/ ResetHeight(t)

Next ==
  \/ \E t \in Handlers :
       \/ Step(t)
       \/ \E b \in Blocks : ReceiveBlock(t, b)
       \/ \E chain \in Chains, sent \in BOOLEAN : ReceiveHi(t, chain, sent)
       \/ \E list \in inbox : ReceiveHeaders(t, list)
  \/ \E list \in inbox : LoseHeaders(list)
  \/ \E b \in Blocks : ReceiveTransactions(b)

Spec == Init /\ [][Next]_vars

\* A goroutine runs to its end; the random scheme is the right one now and then;
\* peers send "hi" every second, and neither all their answers nor all the
\* transactions asked for are lost.
Fairness ==
  /\ \A t \in Handlers : WF_vars(Step(t)) /\ SF_vars(Apply(t))
  /\ \A t \in SyncHandlers, chain \in Chains : SF_vars(ReceiveHi(t, chain, TRUE))
  /\ \A t \in SyncHandlers : SF_vars(\E list \in inbox : ReceiveHeaders(t, list))
  /\ \A b \in Blocks : SF_vars(b \in wanted /\ ReceiveTransactions(b))

FairSpec == Spec /\ Fairness

-----------------------------------------------------------------------------
\* Messages that synchronise the node are not handled while others are.
Apart == active \subseteq NonceHandlers \/ Cardinality(active) = 1

\* No handler is between its first and last change of the node.
Settled == \A t \in Handlers : local[t].pc \in {"idle", "bl", "verify", "check", "lock"}
Quiet == Apart /\ Settled

LedgerAt(h) == [i \in 1..h |-> [blockDB[i] EXCEPT !.total = 0]]
Plain(ledger) == [i \in DOMAIN ledger |-> [ledger[i] EXCEPT !.total = 0]]

\* CheckBaseBlock refuses a block unless "last block hash" is "one stored in new
\* block": the chain has no holes and every block follows the one before it,
\* also when a handler that synchronises runs next to one that applies a block.
LinkedInRaces ==
  Settled => \A h \in 1..height : blockDB[h] # None /\ blockDB[h].prev = blockDB[h - 1].id

\* Between blocks the balances in memory are those of the chain's blocks, each
\* applied once and in order, whatever was late, repeated or rolled back.
MemoryMatchesChain ==
  Quiet => Plain(accounts) = LedgerAt(height) /\ Plain(staking) = LedgerAt(height)

\* The rows of every height up to the node's are those a reset to it has to load.
StoresMatchChain ==
  Quiet => \A h \in 0..height :
             Plain(accountsDB[h]) = LedgerAt(h) /\ Plain(stakingDB[h]) = LedgerAt(h)

\* However the handlers interleave, BlockMutex is held by the handler that applies
\* blocks, only by one that has not returned, and no two apply blocks at a time.
LockCoversApply ==
  /\ \A t \in Handlers :
       local[t].pc \in {"apply", "storeBlock", "storeAccounts", "storeStaking", "setHeight"}
         => blockMutex = t
  /\ blockMutex # Free => local[blockMutex].pc # "idle"

\* The chain that the node shows: the blocks it holds up to its height.  Where
\* handlers race nothing is claimed.
Chain ==
  LET h == IF Apart THEN Min({height, LastHeightStored(blockDB, None)}) ELSE 0
  IN  [i \in 1..h |-> [blockDB[i] EXCEPT !.total = 0]]

Abstract ==
  INSTANCE ChainSpec WITH chain <- Chain,
    Blocks <- {[b EXCEPT !.total = 0] : b \in Blocks},
    StartChains <- {Plain(c) : c \in StartChains}

\* The handlers implement a chain that only grows by the block that follows it
\* or goes back: no late or repeated block ever replaces one in the middle.
ImplementsChain == Abstract!Spec

\* A node behind a peer, on its chain or on a fork, ends on the peer's chain.
CatchesUp ==
  \A chain \in Chains :
    active \subseteq SyncHandlers /\ Apart => <>[](height = Len(chain) /\ Plain(accounts) = Plain(chain))
=============================================================================
