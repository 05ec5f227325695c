------------------------------- MODULE Ledger -------------------------------
(***************************************************************************)
(* How one node applies blocks to its balances (CheckBlockAndTransferFunds *)
(* in blocks/processBlock.go, ProcessTransaction and its companions in     *)
(* blocks/processTransaction.go, the handler that calls them in            *)
(* services/nonceService/onmessage.go, ResetAccountsAndBlocksSync).        *)
(*                                                                         *)
(* BlockMutex lets one block through at a time.  A block passes through    *)
(* the phases of the handler:                                              *)
(*    idle -> evaluate -> escrow -> transactions (<-> confirm) -> idle     *)
(* and whatever fails on the way restores the snapshot of the last block.  *)
(* The pools of escrowed and multi-signature transactions, the bans and    *)
(* the transaction database are not part of a snapshot.                    *)
(*                                                                         *)
(* Delegated addresses are the numbers they encode: 1..255 stake with that *)
(* delegated account, 256..511 withdraw the rewards of number n % 256, and *)
(* n > 512 is operation n - 512 of the exchange.                           *)
(*                                                                         *)
(* A node that starts deletes its database (database/blockchaindb.go:24),  *)
(* so that a restart is Init again and not a step.  Errors of the database *)
(* are not modelled.                                                       *)
(***************************************************************************)
EXTENDS StakingAccount, FiniteSets

CONSTANTS
  Users,                \* addresses of wallets
  DexAccount,           \* common.GetDexAccountAddress()
  DelegatedAddresses,   \* the delegated addresses in use, as numbers
  Txs,                  \* transactions that came in on the transaction topics
  GenesisBalance,       \* balances after the genesis block
  GenesisStaking,       \* staking accounts after the genesis block
  GenesisDelay, GenesisMultiSign,   \* what genesis transactions made of accounts
  RewardPercentages,    \* BaseBlock.RewardPercentage, in thousandths, signed
  MisreadBalances,      \* bound: balances that a misread snapshot may show
  DexAmounts,           \* coins that a trade on the exchange may move
  MinStakingUser, MinStakingForNode, MaxTransactionDelay, MaxTransactionInMultiSigPool,
  MaxTotalSupply, RewardDivisor,   \* RewardRatio is 1 / RewardDivisor
  MaxHeight,            \* bound: height of the last block
  MaxBlockTxs           \* bound: transactions in a block

Address == Users \cup {DexAccount} \cup DelegatedAddresses

\* The entries of StakingAccounts[n].AllStakingAccounts, for each n in use.
StakingKeys == {n % 256 : n \in DelegatedAddresses} \X Address

\* ZerosHash: the transaction confirms no other one.
NoTx == 0

\* Transaction.Verify, as far as it does not depend on the ledger.  A transaction
\* of a "tx" message under a transaction topic has passed it before it gets to the
\* pool (GetTransactionsFromBytes); one under a nonce topic would not have, but no
\* node of this code sends such a message, and they are not in Txs.
Verify(tx) ==
  /\ tx.amount < 0 => tx.recipient \in DelegatedAddresses
  /\ tx.locked > 0 => /\ tx.lockFor \in DelegatedAddresses
                      /\ tx.locked <= tx.amount
                      /\ tx.release <= tx.locked
  /\ tx.delay <= MaxTransactionDelay
  /\ tx.msNumber <= Len(tx.msAddrs)

\* fee is GasPrice * GasUsage, which nothing keeps from being negative.
TxType ==
  [id : Nat \ {NoTx}, sender : Users, recipient : Address, amount : Int, fee : Int,
   operational : BOOLEAN, locked : Nat, release : Nat, lockFor : Address,
   delay : Nat, msNumber : Nat, msAddrs : Seq(Users), confirms : Nat, height : Nat]

ASSUME AddressAssumption ==
  /\ IsFiniteSet(Users) /\ IsFiniteSet(DelegatedAddresses)
  /\ DelegatedAddresses \subseteq Nat /\ \A n \in DelegatedAddresses : n > 0 /\ n < 32768
  /\ (Users \cup {DexAccount}) \cap DelegatedAddresses = {}

ASSUME TxsAssumption ==
  /\ Txs \subseteq TxType
  /\ \A tx \in Txs : Verify(tx)
  /\ \A tx, other \in Txs : tx.id = other.id => tx = other

ASSUME GenesisAssumption ==
  /\ GenesisBalance \in [Address -> Nat]
  /\ GenesisStaking \in [StakingKeys -> StakingAccountType]
  /\ \A k \in StakingKeys : GenesisStaking[k].staked > 0 => GenesisStaking[k].exists
  /\ GenesisDelay \in [Address -> Nat]
  /\ GenesisMultiSign \in [Address -> [number : Nat, addrs : Seq(Users)]]

ASSUME NumbersAssumption ==
  /\ RewardPercentages \subseteq Int /\ DexAmounts \subseteq Int /\ MisreadBalances \subseteq Int
  /\ RewardDivisor \in Nat \ {0}
  /\ {MinStakingUser, MinStakingForNode, MaxTotalSupply, MaxTransactionDelay,
      MaxTransactionInMultiSigPool, MaxHeight, MaxBlockTxs} \subseteq Nat

VARIABLES
  balance,        \* Account.Balance
  known,          \* the addresses that have an entry in Accounts.AllAccounts
  delay,          \* Account.TransactionDelay
  multiSign,      \* Account.MultiSignNumber and MultiSignAddresses
  staking,        \* account.StakingAccounts
  escrowPool,     \* transactionsPool.PoolTxEscrow
  multiSignPool,  \* transactionsPool.PoolTxMultiSign: transactions and the id they are filed under
  banned,         \* bannedTransactions of the pools
  transactionDB,  \* transactions under TransactionDBPrefix
  chain,          \* blocks and the snapshots stored with them, genesis first
  phase,          \* where the handler is
  block,          \* the block that is being processed
  next,           \* index of its next transaction
  due,            \* the escrowed transactions that ProcessTransactionsEscrow has yet to visit
  waived,         \* fees of this block that were counted and not charged
  clean           \* history: the balances are those of the last block

ledgerVars == <<balance, known, delay, multiSign, staking>>
poolVars == <<escrowPool, multiSignPool, banned>>
chainVars == <<chain, transactionDB, clean>>
blockVars == <<phase, block, next, due, waived>>
vars == <<ledgerVars, poolVars, chainVars, blockVars>>

-----------------------------------------------------------------------------
IntDelegatedAccountFromAddress(a) == IF a \in DelegatedAddresses THEN a ELSE -1

\* The delegated account that a transaction is about, -1 for none.
DelegatedOf(tx) ==
  IntDelegatedAccountFromAddress(IF tx.locked > 0 THEN tx.lockFor ELSE tx.recipient)

BadLock(tx) == tx.locked > 0 /\ DelegatedOf(tx) \notin 1..255
IsTransfer(tx) == DelegatedOf(tx) = -1
StakingKey(tx) == <<DelegatedOf(tx) % 256, tx.sender>>

\* Mutant: the ratio of the whole supply, not of what remains.
GetReward_OfWhole(supply) == (2 * MaxTotalSupply + RewardDivisor) \div (2 * RewardDivisor)

\* int64(math.Round(RewardRatio * remaining supply)).
GetReward(supply) ==
  (2 * (MaxTotalSupply - supply) + RewardDivisor) \div (2 * RewardDivisor)

\* GetSupplyInAccounts and GetSupplyInStakedAccounts.
StakedCoins(s) == [k \in StakingKeys |-> s[k].staked + s[k].rewards]
Coins(b, s) == SumFunctionOnSet(b, Address) + SumFunctionOnSet(StakedCoins(s), StakingKeys)

\* setInitParams: the coins of the genesis block are within MaxTotalSupply.
ASSUME SupplyAssumption == Coins(GenesisBalance, GenesisStaking) <= MaxTotalSupply

LastBlock == chain[Len(chain)]
Height == Len(chain)   \* of the block that is being processed

NoBlock == [operator |-> DexAccount, delegated |-> 0, perc |-> 0, txs |-> << >>]

Snapshot(b, k, d, m, s, supply, blockFee, uncharged, txs) ==
  [balance |-> b, known |-> k, delay |-> d, multiSign |-> m, staking |-> s,
   supply |-> supply, blockFee |-> blockFee, waived |-> uncharged, txs |-> txs]

Init ==
  /\ balance = GenesisBalance
  /\ known = {a \in Address : GenesisBalance[a] > 0}
  /\ delay = GenesisDelay
  /\ multiSign = GenesisMultiSign
  /\ staking = GenesisStaking
  /\ escrowPool = {} /\ multiSignPool = {} /\ banned = {} /\ transactionDB = {}
  /\ chain = <<Snapshot(balance, known, delay, multiSign, staking,
                        Coins(balance, staking), 0, 0, << >>)>>
  /\ phase = "idle" /\ block = NoBlock /\ next = 1 /\ due = {} /\ waived = 0
  /\ clean = TRUE

-----------------------------------------------------------------------------
\* ResetAccountsAndBlocksSync(h).  Accounts.Unmarshal reads a fixed length per
\* account, but a multi-signature account is stored with its addresses: if it
\* was written last only its addresses are lost, else every account that was
\* written after it is read from the wrong bytes.  After that the balances are
\* anything; if the bytes run out the reset returns there, with the staking
\* accounts and the blocks as they were ("garbled", not followed any further).
Reset(h) ==
  LET s == chain[h + 1]
      long == {a \in Address : s.multiSign[a].addrs # << >>}
  IN  /\ known' = s.known /\ delay' = s.delay
      /\ block' = NoBlock /\ next' = 1 /\ due' = {} /\ waived' = 0
      /\ \/ /\ Cardinality(long) <= 1
            /\ chain' = SubSeq(chain, 1, h + 1)
            /\ balance' = s.balance /\ staking' = s.staking
            /\ multiSign' = [a \in Address |-> [s.multiSign[a] EXCEPT !.addrs = << >>]]
            /\ phase' = "idle" /\ clean' = TRUE
         \/ /\ long # {}
            /\ balance' \in [Address -> MisreadBalances]
            /\ \/ chain' = SubSeq(chain, 1, h + 1) /\ staking' = s.staking
               \/ chain' = chain /\ staking' = staking
            /\ multiSign' = s.multiSign
            /\ phase' = "garbled" /\ clean' = FALSE

\* Mutant: the transaction is banned and stays in the pools.
FailBlock_KeepPools(bad, pool) ==
  /\ banned' = banned \cup bad
  /\ escrowPool' = escrowPool /\ multiSignPool' = pool
  /\ transactionDB' = transactionDB \ bad
  /\ Reset(Len(chain) - 1)

\* The block fails: bad transactions go through RemoveBadTransactionByHash, the
\* handler resets to the last block, and the pools stay as they are.  (It also
\* removes the Merkle tree of the height, see TransactionTrees.)
FailBlock(bad, pool) ==
  /\ banned' = banned \cup bad
  /\ escrowPool' = escrowPool \ bad
  /\ multiSignPool' = {p \in pool : p.tx \notin bad}
  /\ transactionDB' = transactionDB \ bad
  /\ Reset(Len(chain) - 1)

-----------------------------------------------------------------------------
\* GetStakedInDelegatedAccount: the sum at stake, and the operational account
\* with the largest stake (among equals the order of a Go map decides).
StakedIn(n) == SumFunctionOnSet([a \in Address |-> staking[<<n, a>>].staked], Address)
OperatorsOf(n) ==
  LET candidates == {a \in Address : staking[<<n, a>>].operational /\ staking[<<n, a>>].staked > 0}
  IN  {a \in candidates : \A c \in candidates : staking[<<n, c>>].staked <= staking[<<n, a>>].staked}

AllowedStake(staked) == staked >= MinStakingUser \/ staked = 0

CheckStakingTransaction(tx, sumAmount, sumFee) ==
  LET n == DelegatedOf(tx)
      acc == staking[StakingKey(tx)]
  IN  /\ tx.sender \in known
      /\ balance[tx.sender] >= tx.fee
      /\ balance[tx.sender] >= sumFee
      /\ n < 256 /\ tx.locked > 0 => tx.amount >= MinStakingUser
      /\ n < 256 /\ tx.locked = 0 =>
           /\ tx.amount > 0 => tx.amount >= MinStakingUser
           /\ tx.amount <= 0 => acc.exists
           /\ AllowedStake(acc.staked + tx.amount)
           /\ sumAmount > 0 => sumAmount >= MinStakingUser
           /\ AllowedStake(acc.staked + sumAmount)
      /\ n >= 256 => acc.exists /\ acc.rewards + tx.amount >= 0

\* The local copies of CheckBlockTransfers: per sender, the coins that the
\* transactions up to the i-th take, and one staking account that starts as the
\* account of the sender's first staking transaction.
Spent(txs, i) ==
  MapThenSumSet(LAMBDA j : txs[j].fee + txs[j].amount,
                {j \in 1..i : txs[j].sender = txs[i].sender})

StakingCheck(txs, i) ==
  LET mine == {j \in 1..i : txs[j].sender = txs[i].sender /\ DelegatedOf(txs[j]) \in 1..511}
      base == staking[StakingKey(txs[Min(mine)])]
  IN  CheckStakingTransaction(txs[i],
        base.staked + MapThenSumSet(LAMBDA j : txs[j].amount, mine),
        base.rewards + MapThenSumSet(LAMBDA j : txs[j].fee, mine))

\* Reasons of CheckBlockTransfers to refuse the i-th transaction with a ban...
BadInBlock(txs, i) ==
  LET tx == txs[i]
  IN  \/ DelegatedOf(tx) \in 1..511 /\ ~StakingCheck(txs, i)
      \/ tx.sender \notin known
      \/ tx.confirms # NoTx /\ (tx.amount > 0 \/ tx.operational \/ tx.locked > 0 \/ tx.msNumber > 0)
      \/ balance[tx.sender] < Spent(txs, i)

\* ... and without one.
RefusedInBlock(txs, i) == txs[i] \in transactionDB \/ BadLock(txs[i])

Failing(txs) == {i \in DOMAIN txs : RefusedInBlock(txs, i) \/ BadInBlock(txs, i)}

IsOperator(b) ==
  /\ b.delegated \in 1..255
  /\ StakedIn(b.delegated) >= MinStakingForNode
  /\ b.operator \in OperatorsOf(b.delegated)

\* Blocks of transactions that the node holds (IsAllTransactions): a banned one
\* never gets into the pool again.  A block may list a transaction twice, and then
\* executes it twice: nothing on the way of a block compares its hashes.
Blocks ==
  [operator : Users, delegated : DelegatedAddresses \cap 1..255, perc : RewardPercentages,
   txs : UNION {[1..k -> Txs \ banned] : k \in 0..MaxBlockTxs}]

StartBlock(b) ==
  /\ phase = "idle" /\ Height <= MaxHeight
  /\ IsOperator(b)
  /\ Failing(b.txs) = {}
  /\ phase' = "evaluate" /\ block' = b /\ next' = 1 /\ due' = {} /\ waived' = 0
  /\ clean' = FALSE
  /\ UNCHANGED <<ledgerVars, poolVars, chain, transactionDB>>

RefuseBlock(b) ==
  /\ phase = "idle" /\ Height <= MaxHeight
  /\ ~IsOperator(b) \/ Failing(b.txs) # {}
  /\ FailBlock(IF IsOperator(b) /\ ~RefusedInBlock(b.txs, Min(Failing(b.txs)))
               THEN {b.txs[Min(Failing(b.txs))]} ELSE {},
               multiSignPool)

-----------------------------------------------------------------------------
AddBalance(b, a, amount) == [b EXCEPT ![a] = @ + amount]

Transfer(b, from, to, amount) == AddBalance(AddBalance(b, from, -amount), to, amount)

\* The sender's coins are still held back at this height.
Delayed(tx) == delay[tx.sender] > 0 /\ tx.height + delay[tx.sender] > Height

\* EvaluateSCForBlock passes over these transactions.
NotEvaluated(tx) ==
  \/ Delayed(tx)
  \/ multiSign[tx.sender].number > 0
  \/ IntDelegatedAccountFromAddress(tx.recipient) \in 1..512
  \/ tx.recipient \notin DelegatedAddresses /\ ~tx.operational

\* Nothing to evaluate, or a contract call that succeeds (State is not modelled).
EvaluateTx ==
  /\ phase = "evaluate" /\ next <= Len(block.txs)
  /\ NotEvaluated(block.txs[next]) \/ block.txs[next].recipient \notin DelegatedAddresses
  /\ next' = next + 1
  /\ UNCHANGED <<ledgerVars, poolVars, chainVars, phase, block, due, waived>>

\* An operation on the exchange: 2 adds liquidity, 3 to 6 move coins at the price
\* of the pool, in either direction (DexAmounts holds the rounded results of the
\* floating-point price).
EvaluateDex ==
  /\ phase = "evaluate" /\ next <= Len(block.txs)
  /\ LET tx == block.txs[next]
     IN  /\ ~NotEvaluated(tx) /\ tx.recipient \in 514..518
         /\ \E coins \in IF tx.recipient = 514 THEN {-tx.amount} ELSE DexAmounts :
              /\ tx.recipient = 514 => tx.amount >= 0
              /\ balance[DexAccount] - coins >= 0
              /\ balance[tx.sender] + coins >= 0
              /\ balance' = Transfer(balance, DexAccount, tx.sender, coins)
              /\ known' = known \cup {DexAccount, tx.sender}
  /\ next' = next + 1
  /\ UNCHANGED <<delay, multiSign, staking, poolVars, chainVars, phase, block, due, waived>>

\* A contract or the exchange fails.
EvaluateFails ==
  /\ phase = "evaluate" /\ next <= Len(block.txs)
  /\ ~NotEvaluated(block.txs[next])
  /\ FailBlock({}, multiSignPool)

SupplyMatches == Coins(balance, staking) + LastBlock.blockFee = LastBlock.supply

\* Mutant: the balances are not compared with the supply.
CheckSupply_Unchecked ==
  /\ phase = "evaluate" /\ next > Len(block.txs)
  /\ phase' = "escrow" /\ next' = 1
  /\ due' = {tx \in escrowPool : Height >= tx.height + tx.delay}
  /\ UNCHANGED <<ledgerVars, poolVars, chainVars, block, waived>>

\* The coins of all accounts, the fees taken out so far and the reward add up to
\* the supply; then the public keys, the header and the Merkle tree are checked.
CheckSupply ==
  /\ phase = "evaluate" /\ next > Len(block.txs)
  /\ SupplyMatches
  /\ phase' = "escrow" /\ next' = 1
  /\ due' = {tx \in escrowPool : Height >= tx.height + tx.delay}
  /\ UNCHANGED <<ledgerVars, poolVars, chainVars, block, waived>>

CheckFails ==
  /\ phase = "evaluate" /\ next > Len(block.txs)
  /\ FailBlock({}, multiSignPool)

-----------------------------------------------------------------------------
\* TransactionPool.AddTransaction, below the capacity of the pool.
AddTransaction(pool, entry) == IF entry.tx \in banned THEN pool ELSE pool \cup {entry}

\* ProcessTransactionsEscrow visits the due transactions in the order of a heap.
\* It stops at the first one whose sender's delay is not over.
EscrowStops ==
  /\ phase = "escrow"
  /\ due = {} \/ \E tx \in due : Delayed(tx)
  /\ phase' = "transactions" /\ due' = {}
  /\ UNCHANGED <<ledgerVars, poolVars, chainVars, block, next, waived>>

EscrowToMultiSign(tx) ==
  /\ phase = "escrow" /\ tx \in due
  /\ ~Delayed(tx) /\ multiSign[tx.sender].number > 0
  /\ due' = due \ {tx}
  /\ multiSignPool' = AddTransaction(multiSignPool, [tx |-> tx, main |-> tx.id])
  /\ escrowPool' = IF tx \in banned THEN escrowPool ELSE escrowPool \ {tx}
  /\ UNCHANGED <<ledgerVars, banned, chainVars, phase, block, next, waived>>

EscrowExecutes(tx) ==
  /\ phase = "escrow" /\ tx \in due
  /\ ~Delayed(tx) /\ multiSign[tx.sender].number = 0
  /\ balance[tx.sender] >= tx.amount
  /\ due' = due \ {tx}
  /\ escrowPool' = escrowPool \ {tx}
  /\ balance' = Transfer(balance, tx.sender, tx.recipient, tx.amount)
  /\ known' = known \cup {tx.sender, tx.recipient}
  /\ UNCHANGED <<delay, multiSign, staking, multiSignPool, banned, chainVars,
                 phase, block, next, waived>>

\* Mutant: the failed payment leaves the database and is not banned.
EscrowFails_NoBan(tx) ==
  /\ phase = "escrow" /\ tx \in due
  /\ ~Delayed(tx) /\ multiSign[tx.sender].number = 0
  /\ balance[tx.sender] < tx.amount
  /\ phase' = "transactions" /\ due' = {}
  /\ escrowPool' = escrowPool \ {tx}
  /\ transactionDB' = transactionDB \ {tx}
  /\ UNCHANGED <<ledgerVars, multiSignPool, banned, chain, clean, block, next, waived>>

\* The coins are gone: the transaction is banned and the rest of the list is left
\* for the next block, which does not fail.
EscrowFails(tx) ==
  /\ phase = "escrow" /\ tx \in due
  /\ ~Delayed(tx) /\ multiSign[tx.sender].number = 0
  /\ balance[tx.sender] < tx.amount
  /\ phase' = "transactions" /\ due' = {}
  /\ escrowPool' = escrowPool \ {tx}
  /\ multiSignPool' = {p \in multiSignPool : p.tx # tx}
  /\ banned' = banned \cup {tx}
  /\ transactionDB' = transactionDB \ {tx}
  /\ known' = known \cup {tx.sender}
  /\ UNCHANGED <<balance, delay, multiSign, staking, chain, clean, block, next, waived>>

-----------------------------------------------------------------------------
\* ProcessMultiSignAndEscrow: the recipient may become an escrow or a
\* multi-signature account, once.
CanModify(tx) ==
  /\ tx.delay > 0 => delay[tx.recipient] = 0
  /\ tx.msNumber > 0 => multiSign[tx.recipient].number = 0

Modify(tx) ==
  /\ known' = known \cup {tx.sender, tx.recipient}
  /\ delay' = [delay EXCEPT ![tx.recipient] = IF tx.delay > 0 THEN tx.delay ELSE @]
  /\ multiSign' = [multiSign EXCEPT ![tx.recipient] =
                     IF tx.msNumber > 0 THEN [number |-> tx.msNumber, addrs |-> tx.msAddrs] ELSE @]

StakeOf(tx) ==
  Stake(staking[IF tx.locked > 0 THEN <<DelegatedOf(tx), tx.recipient>> ELSE StakingKey(tx)],
        tx.amount, Height, tx.operational, tx.locked, tx.release)
UnstakeOf(tx) == Unstake(staking[StakingKey(tx)], tx.amount, Height)
WithdrawOf(tx) == WithdrawReward(staking[StakingKey(tx)], tx.amount, Height)

Pays(tx, amount) == balance[tx.sender] - tx.fee - amount >= 0

CanStake(tx) ==
  /\ DelegatedOf(tx) \in 1..255
  /\ tx.amount >= MinStakingUser
  /\ StakeOf(tx).res = "ok"
  /\ Pays(tx, tx.amount) /\ CanModify(tx)

CanUnstake(tx) ==
  /\ DelegatedOf(tx) \in 1..255
  /\ tx.locked = 0 /\ tx.amount < 0
  /\ UnstakeOf(tx).res = "ok"
  /\ Pays(tx, tx.amount) /\ CanModify(tx)

CanWithdraw(tx) ==
  /\ DelegatedOf(tx) \in 256..511
  /\ tx.amount < 0
  /\ WithdrawOf(tx).res = "ok"
  /\ Pays(tx, tx.amount)

\* "not implemented": coins sent to a reward address, and anything sent to the
\* exchange, change nothing here, and the fee is not taken either.
Ignored(tx) ==
  \/ DelegatedOf(tx) \in 256..511 /\ staking[StakingKey(tx)].exists /\ tx.amount > 0
  \/ DelegatedOf(tx) >= 512

ToEscrow(tx) == IsTransfer(tx) /\ Delayed(tx) /\ tx.confirms = NoTx
ToMultiSign(tx) ==
  IsTransfer(tx) /\ ~Delayed(tx) /\ multiSign[tx.sender].number > 0 /\ tx.confirms = NoTx

CanHold(tx) == (ToEscrow(tx) \/ ToMultiSign(tx)) /\ Pays(tx, 0) /\ CanModify(tx)

\* The amount leaves before it arrives, and the fee is taken last.
CanTransfer(tx) ==
  /\ IsTransfer(tx) /\ ~ToEscrow(tx) /\ ~ToMultiSign(tx)
  /\ balance[tx.sender] >= tx.amount
  /\ Transfer(balance, tx.sender, tx.recipient, tx.amount)[tx.sender] >= tx.fee
  /\ CanModify(tx)

-----------------------------------------------------------------------------
\* The second look at the database: a payment that just failed in escrow has left
\* it, and is banned.
Loads(tx) == tx \notin transactionDB \cup banned

\* ProcessTransaction for the next transaction of the block, one action per kind.
Processing(tx) ==
  /\ phase = "transactions" /\ next <= Len(block.txs) /\ tx = block.txs[next]
  /\ Loads(tx) /\ tx.height <= Height

\* A transaction that confirms another one goes on to ProcessTransactionsMultiSign.
Done(tx) ==
  /\ IF tx.confirms # NoTx THEN phase' = "confirm" /\ next' = next
                           ELSE phase' = phase /\ next' = next + 1
  /\ UNCHANGED <<chainVars, block, due, banned>>

ProcessStake(tx) ==
  /\ Processing(tx) /\ CanStake(tx)
  /\ staking' = [staking EXCEPT ![IF tx.locked > 0 THEN <<DelegatedOf(tx), tx.recipient>>
                                                   ELSE StakingKey(tx)] = StakeOf(tx).acc]
  /\ balance' = AddBalance(balance, tx.sender, -tx.fee - tx.amount)
  /\ Modify(tx)
  /\ UNCHANGED <<escrowPool, multiSignPool, waived>>
  /\ Done(tx)

ProcessUnstake(tx) ==
  /\ Processing(tx) /\ CanUnstake(tx)
  /\ staking' = [staking EXCEPT ![StakingKey(tx)] = UnstakeOf(tx).acc]
  /\ balance' = AddBalance(balance, tx.sender, -tx.fee - tx.amount)
  /\ Modify(tx)
  /\ UNCHANGED <<escrowPool, multiSignPool, waived>>
  /\ Done(tx)

\* Unstake runs out of bounds; the handler recovers, and leaves everything as it
\* is in the middle of the block.
UnstakePanics(tx) ==
  /\ Processing(tx)
  /\ DelegatedOf(tx) \in 1..255 /\ tx.locked = 0 /\ tx.amount < 0
  /\ UnstakeOf(tx).res = "panic"
  /\ staking' = [staking EXCEPT ![StakingKey(tx)] = UnstakeOf(tx).acc]
  /\ phase' = "idle" /\ block' = NoBlock /\ next' = 1 /\ waived' = 0
  /\ UNCHANGED <<balance, known, delay, multiSign, poolVars, chainVars, due>>

ProcessWithdraw(tx) ==
  /\ Processing(tx) /\ CanWithdraw(tx)
  /\ staking' = [staking EXCEPT ![StakingKey(tx)] = WithdrawOf(tx).acc]
  /\ balance' = AddBalance(balance, tx.sender, -tx.fee - tx.amount)
  /\ known' = known \cup {tx.sender}
  /\ UNCHANGED <<delay, multiSign, escrowPool, multiSignPool, waived>>
  /\ Done(tx)

ProcessIgnored(tx) ==
  /\ Processing(tx) /\ Ignored(tx)
  /\ waived' = waived + tx.fee
  /\ UNCHANGED <<ledgerVars, escrowPool, multiSignPool>>
  /\ Done(tx)

\* The transfer waits in a pool, and the fee is taken right away.
ProcessHold(tx) ==
  /\ Processing(tx) /\ CanHold(tx)
  /\ escrowPool' = IF ToEscrow(tx) /\ tx \notin banned THEN escrowPool \cup {tx} ELSE escrowPool
  /\ multiSignPool' = IF ToMultiSign(tx)
                      THEN AddTransaction(multiSignPool, [tx |-> tx, main |-> tx.id])
                      ELSE multiSignPool
  /\ balance' = AddBalance(balance, tx.sender, -tx.fee)
  /\ Modify(tx)
  /\ UNCHANGED <<staking, waived>>
  /\ Done(tx)

\* A transfer; one that confirms another is filed under it.
ProcessTransfer(tx) ==
  /\ Processing(tx) /\ CanTransfer(tx)
  /\ balance' = AddBalance(Transfer(balance, tx.sender, tx.recipient, tx.amount), tx.sender, -tx.fee)
  /\ Modify(tx)
  /\ multiSignPool' = IF tx.confirms # NoTx
                      THEN AddTransaction(multiSignPool, [tx |-> tx, main |-> tx.confirms])
                      ELSE multiSignPool
  /\ UNCHANGED <<staking, escrowPool, waived>>
  /\ Done(tx)

Fits(tx) ==
  /\ tx.height <= Height
  /\ ~BadLock(tx)
  /\ CanStake(tx) \/ CanUnstake(tx) \/ CanWithdraw(tx) \/ Ignored(tx) \/ CanHold(tx) \/ CanTransfer(tx)

ProcessFails ==
  /\ phase = "transactions" /\ next <= Len(block.txs)
  /\ LET tx == block.txs[next]
         panics == /\ tx.height <= Height /\ DelegatedOf(tx) \in 1..255
                   /\ tx.locked = 0 /\ tx.amount < 0
                   /\ UnstakeOf(tx).res = "panic"
     IN  /\ ~Loads(tx) \/ (~Fits(tx) /\ ~panics)
         /\ FailBlock(IF Loads(tx) THEN {tx} ELSE {}, multiSignPool)

-----------------------------------------------------------------------------
\* ProcessTransactionsMultiSign.  notApprovedYet is a slice of the array that the
\* stored account refers to: taking an address out of its middle moves the rest
\* down in that array, taking the first one out only moves the slice.
Filed(tx) == {p \in multiSignPool : p.main = tx.confirms}
MainOf(tx) == {p.tx : p \in {q \in Filed(tx) : q.tx.id = tx.confirms}}

Approve(slice, tx, main) ==
  LET hits == {i \in 1..slice.len : /\ slice.array[slice.from + i] = tx.sender
                                    /\ tx.recipient = main.recipient
                                    /\ tx.amount = 0}
      cut == slice.from + Min(hits)
  IN  IF hits = {} THEN slice
      ELSE IF Min(hits) = 1
      THEN [slice EXCEPT !.from = @ + 1, !.len = @ - 1, !.count = @ + 1]
      ELSE [slice EXCEPT
              !.array = [i \in DOMAIN @ |->
                           IF cut <= i /\ i < slice.from + slice.len THEN @[i + 1] ELSE @[i]],
              !.len = @ - 1, !.count = @ + 1]

Approvals(order, main) ==
  LET addrs == multiSign[main.sender].addrs
      slice[n \in 0..Len(order)] ==
        IF n = 0 THEN [array |-> addrs, from |-> 0, len |-> Len(addrs), count |-> 0]
                 ELSE Approve(slice[n - 1], order[n].tx, main)
  IN  slice[Len(order)]

\* The orders in which the heap may return the transactions filed under one.
Orders(tx) == {order \in [1..Cardinality(Filed(tx)) -> Filed(tx)] : IsInjective(order)}

Confirming(tx) == phase = "confirm" /\ tx = block.txs[next]

\* Too old, or no longer (or never) in the pool, when the zero Transaction stands
\* for the main one and its height 0 for the height.
MainExpired(tx) ==
  Height - (IF MainOf(tx) = {} THEN 0 ELSE (CHOOSE main \in MainOf(tx) : TRUE).height)
    > MaxTransactionInMultiSigPool

\* Mutant: whatever is filed under the payment counts, itself included.
Enough_CountFiled(tx, main, slice) == Cardinality(Filed(tx)) >= multiSign[main.sender].number

Enough(tx, main, slice) ==
  /\ Cardinality(Filed(tx)) >= multiSign[main.sender].number
  /\ slice.count >= multiSign[main.sender].number

Approved(main, slice) == [multiSign EXCEPT ![main.sender].addrs = slice.array]

\* Without a main transaction the zero one is "executed": it moves nothing.
ConfirmNothing(tx) ==
  /\ Confirming(tx) /\ ~MainExpired(tx) /\ MainOf(tx) = {}
  /\ next' = next + 1 /\ phase' = "transactions"
  /\ UNCHANGED <<ledgerVars, poolVars, chainVars, block, due, waived>>

ConfirmWaits(tx, main, slice) ==
  /\ Confirming(tx) /\ ~MainExpired(tx) /\ ~Enough(tx, main, slice)
  /\ multiSign' = IF Cardinality(Filed(tx)) < multiSign[main.sender].number
                  THEN multiSign ELSE Approved(main, slice)
  /\ next' = next + 1 /\ phase' = "transactions"
  /\ UNCHANGED <<balance, known, delay, staking, poolVars, chainVars, block, due, waived>>

ConfirmExecutes(tx, main, slice) ==
  /\ Confirming(tx) /\ ~MainExpired(tx) /\ Enough(tx, main, slice)
  /\ ~Delayed(main)
  /\ balance[main.sender] >= main.amount
  /\ multiSign' = Approved(main, slice)
  /\ multiSignPool' = {p \in multiSignPool : p.tx # main}
  /\ balance' = Transfer(balance, main.sender, main.recipient, main.amount)
  /\ known' = known \cup {main.sender, main.recipient}
  /\ next' = next + 1 /\ phase' = "transactions"
  /\ UNCHANGED <<delay, staking, escrowPool, banned, chainVars, block, due, waived>>

ConfirmFails(tx, main, slice) ==
  /\ Confirming(tx) /\ ~MainExpired(tx) /\ Enough(tx, main, slice)
  /\ \/ Delayed(main) /\ FailBlock({tx}, multiSignPool)
     \/ ~Delayed(main) /\ balance[main.sender] < main.amount /\ FailBlock({tx, main}, multiSignPool)

ConfirmExpired(tx) ==
  /\ Confirming(tx) /\ MainExpired(tx)
  /\ FailBlock({tx}, multiSignPool \ Filed(tx))

-----------------------------------------------------------------------------
\* The rewards of the block, for the stakes as the transactions left them:
\* the operator's part, a share for every stake, and what the rounding left over.
BlockReward == GetReward(LastBlock.supply)
OperatorReward ==   \* truncated towards zero
  IF block.perc >= 0 THEN (BlockReward * block.perc) \div 1000
                     ELSE -((BlockReward * (-block.perc)) \div 1000)
Shared == BlockReward - OperatorReward
ShareOf(a) ==
  (Shared * staking[<<block.delegated, a>>].staked) \div StakedIn(block.delegated)
Rest == Shared - SumFunctionOnSet([a \in Address |-> ShareOf(a)], Address)

\* Mutant: what the rounding left over is lost.
Rewarded_LoseRest(a) ==
  LET acc == staking[<<block.delegated, a>>]
      oper == IF a = block.operator THEN Reward(acc, OperatorReward, Height).acc ELSE acc
  IN  IF acc.staked > 0 THEN Reward(oper, ShareOf(a), Height).acc ELSE oper

Rewarded(a) ==
  LET acc == staking[<<block.delegated, a>>]
      oper == IF a = block.operator THEN Reward(acc, OperatorReward, Height).acc ELSE acc
      share == IF acc.staked > 0 THEN Reward(oper, ShareOf(a), Height).acc ELSE oper
  IN  IF a = block.operator /\ Rest > 0 THEN Reward(share, Rest, Height).acc ELSE share

CanReward ==
  /\ StakedIn(block.delegated) > 0
  /\ block.perc <= 500 /\ OperatorReward >= 0
  /\ staking[<<block.delegated, block.operator>>].exists
  /\ Rest >= 0

BlockFee == LastBlock.blockFee + SumFunctionOnSet([i \in DOMAIN block.txs |-> block.txs[i].fee],
                                                  DOMAIN block.txs)

\* The end of the block: rewards, then the transactions go to the database, the
\* block and the snapshots are stored and the height is advanced.
FinishBlock ==
  /\ phase = "transactions" /\ next > Len(block.txs)
  /\ CanReward
  /\ staking' = [k \in StakingKeys |->
                   IF k[1] = block.delegated THEN Rewarded(k[2]) ELSE staking[k]]
  /\ chain' = Append(chain, Snapshot(balance, known, delay, multiSign, staking',
                                     LastBlock.supply + BlockReward, BlockFee, waived, block.txs))
  /\ transactionDB' = transactionDB \cup {block.txs[i] : i \in DOMAIN block.txs}
  /\ phase' = "idle" /\ block' = NoBlock /\ next' = 1 /\ waived' = 0 /\ clean' = TRUE
  /\ UNCHANGED <<balance, known, delay, multiSign, poolVars, due>>

FinishFails ==
  /\ phase = "transactions" /\ next > Len(block.txs)
  /\ ~CanReward
  /\ FailBlock({}, multiSignPool)

\* The sync service goes back to an earlier block (no block is being processed).
Rollback(h) ==
  /\ phase = "idle"
  /\ Reset(h)
  /\ UNCHANGED <<poolVars, transactionDB>>

\* What happens to garbled accounts is not followed.
Garbled == phase = "garbled" /\ UNCHANGED vars

ProcessTx(tx) ==
  \/ ProcessStake(tx) \/ ProcessUnstake(tx) \/ UnstakePanics(tx) \/ ProcessWithdraw(tx)
  \/ ProcessIgnored(tx) \/ ProcessHold(tx) \/ ProcessTransfer(tx)

Confirm(tx) ==
  \/ ConfirmNothing(tx) \/ ConfirmExpired(tx)
  \/ \E main \in MainOf(tx) : \E order \in Orders(tx) :
       LET slice == Approvals(order, main)
       IN  \/ ConfirmWaits(tx, main, slice)
           \/ ConfirmExecutes(tx, main, slice)
           \/ ConfirmFails(tx, main, slice)

EscrowTx(tx) == EscrowToMultiSign(tx) \/ EscrowExecutes(tx) \/ EscrowFails(tx)

Next ==
  \/ \E b \in Blocks : StartBlock(b) \/ RefuseBlock(b)
  \/ EvaluateTx \/ EvaluateDex \/ EvaluateFails
  \/ CheckSupply \/ CheckFails
  \/ EscrowStops
  \/ \E tx \in due : EscrowTx(tx)
  \/ \E tx \in Txs : ProcessTx(tx) \/ Confirm(tx)
  \/ ProcessFails \/ FinishBlock \/ FinishFails
  \/ \E h \in 0..Len(chain) - 1 : Rollback(h)
  \/ Garbled

Spec == Init /\ [][Next]_vars

-----------------------------------------------------------------------------
\* Amounts are never negative, in accounts and in staking accounts, and the
\* handler is in one of its phases with a block that fits.
TypeOK ==
  /\ phase # "garbled" => balance \in [Address -> Nat]
  /\ known \subseteq Address
  /\ delay \in [Address -> Nat]
  /\ \A a \in Address : multiSign[a].number \in Nat /\ multiSign[a].addrs \in Seq(Users)
  /\ \A k \in StakingKeys : staking[k] \in StakingAccountType
  /\ escrowPool \subseteq Txs /\ banned \subseteq Txs /\ transactionDB \subseteq Txs
  /\ multiSignPool \subseteq [tx : Txs, main : {tx.id : tx \in Txs}]
  /\ phase \in {"idle", "evaluate", "escrow", "transactions", "confirm", "garbled"}
  /\ next \in 1..Len(block.txs) + 1 /\ due \subseteq Txs /\ waived \in Int /\ clean \in BOOLEAN

\* The money is accounted for: whatever blocks, failures and rollbacks came
\* before, and whatever the sign of the fees, the coins of all accounts and the
\* fees taken out of circulation add up to the supply the last block declares,
\* except for the fees that its ignored transactions were counted for without
\* paying them.  Not claimed of what a panic left behind (see StoredAddsUp) or of
\* accounts that were misread.
SupplyAccounted ==
  phase = "idle" /\ clean =>
    Coins(balance, staking) + LastBlock.blockFee = LastBlock.supply + LastBlock.waived

\* What a panic leaves half done never gets into the chain with coins too many or
\* too few: the balances stored with every block add up to its supply, although the
\* handler goes on from the balances that the panic left.
StoredAddsUp ==
  \A i \in DOMAIN chain :
    Coins(chain[i].balance, chain[i].staking) + chain[i].blockFee = chain[i].supply + chain[i].waived

\* The shares of a reward never exceed it, so that the rest is not negative
\* ("this shouldn't happen anytime", processBlock.go:333).
RestNonNegative ==
  /\ phase = "transactions" /\ StakedIn(block.delegated) > 0
  /\ block.perc <= 1000 /\ OperatorReward >= 0
  => Rest >= 0

\* The supply never passes MaxTotalSupply, however the reward is rounded.
SupplyBounded == LastBlock.supply <= MaxTotalSupply

\* A transaction is in one block of the chain at most (in that block it may be
\* listed twice): when a failed escrow or multi-signature payment takes it out of
\* the database, the ban keeps it out.
OnceInChain ==
  \A i, j \in DOMAIN chain : \A k \in DOMAIN chain[i].txs, l \in DOMAIN chain[j].txs :
    chain[i].txs[k] = chain[j].txs[l] => i = j

\* A banned transaction is in no pool, and never gets back into one.
BannedStaysOut == \A tx \in banned : tx \notin escrowPool /\ \A p \in multiSignPool : p.tx # tx

\* Signers of account a, from the transactions that could have made it one.
Owners(a) ==
  Range(GenesisMultiSign[a].addrs)
    \cup UNION {Range(tx.msAddrs) : tx \in {t \in Txs : t.msNumber > 0 /\ t.recipient = a}}

\* Confirmations of a payment, in the pool, by owners of the account.
Confirmations(main) ==
  {p.tx : p \in {q \in multiSignPool : /\ q.main = main.id
                                       /\ q.tx.sender \in Owners(main.sender)
                                       /\ q.tx.recipient = main.recipient /\ q.tx.amount = 0}}

\* A payment of a multi-signature account moves coins only when MultiSignNumber
\* confirmations by its owners are in the pool, whatever was confirmed, rolled
\* back or left over before.
ExecutedWithConfirmations ==
  [][\A main \in Txs :
       phase = "confirm" /\ phase' = "transactions"
         /\ [tx |-> main, main |-> main.id] \in multiSignPool \ multiSignPool'
       => Cardinality(Confirmations(main)) >= multiSign[main.sender].number]_vars

-----------------------------------------------------------------------------
\* What the code says of itself, and does not keep.

\* "block supply checking fails vs account balances" (processBlock.go:410) guards
\* against a corrupt ledger: the balances of a node that only applied valid blocks
\* pass the check, so that it can apply the next one.
SupplyCheckPasses == phase = "idle" /\ clean => SupplyMatches
=============================================================================
