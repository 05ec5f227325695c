---------------------------- MODULE LedgerSteps -----------------------------
(***************************************************************************)
(* What the operations on a staking account and on balances do to the      *)
(* money of a ledger; the inductive invariant behind the theorems of       *)
(* LedgerProofs, and the steps of a block that keep it, up to the rewards  *)
(* at its end.                                                             *)
(***************************************************************************)
EXTENDS Ledger, FiniteSums, SequenceTheorems

\* A staking account as far as its money goes.
StakeOK(acc) ==
  /\ DOMAIN acc = {"exists", "staked", "rewards", "locks", "operational", "details"}
  /\ acc.staked \in Nat /\ acc.rewards \in Nat
  /\ acc.staked > 0 => acc.exists

StakesOK(s) == DOMAIN s = StakingKeys /\ \A k \in StakingKeys : StakeOK(s[k])

\* The money of an account.
Worth(acc) == acc.staked + acc.rewards

-----------------------------------------------------------------------------
\* Delegated addresses encode positive numbers.
LEMMA InRange == DelegatedAddresses \subseteq Nat /\ -1 \notin DelegatedAddresses
BY AddressAssumption

\* All sums of the ledger range over finite sets.
LEMMA Finite == IsFiniteSet(Address) /\ IsFiniteSet(StakingKeys)
<1>1. IsFiniteSet(Users) /\ IsFiniteSet(DelegatedAddresses)
  BY AddressAssumption
<1>2. IsFiniteSet(Users \cup {DexAccount})
  BY <1>1, FS_AddElement
<1>3. IsFiniteSet(Address)
  BY <1>1, <1>2, FS_Union DEF Address
<1> DEFINE N == {n % 256 : n \in DelegatedAddresses}
<1>4. PICK m \in Nat : m = 256
  OBVIOUS
<1>5. N \in SUBSET (0..m)
  <2>1. DelegatedAddresses \subseteq Nat
    BY InRange
  <2>2. \A n \in Nat : n % m \in 0..m
    BY <1>4
  <2> QED BY <1>4, <2>1, <2>2
<1> HIDE DEF N
<1>6. IsFiniteSet(0..m)
  BY FS_Interval
<1>7. IsFiniteSet(N)
  BY <1>5, <1>6, FS_Subset
<1> QED BY <1>3, <1>7, FS_Product DEF StakingKeys, N

\* Stake stores an account worth amount more (stakeAccount.go:50).
LEMMA StakeWorth ==
  ASSUME NEW acc, StakeOK(acc), NEW amount \in Int, NEW h, NEW op, NEW locked \in Nat,
         NEW release \in Nat, Stake(acc, amount, h, op, locked, release).res = "ok"
  PROVE  /\ StakeOK(Stake(acc, amount, h, op, locked, release).acc)
         /\ Worth(Stake(acc, amount, h, op, locked, release).acc) = Worth(acc) + amount
<1> DEFINE new == [acc EXCEPT
             !.exists = TRUE,
             !.operational = IF locked = 0 THEN @ \/ op ELSE @,
             !.staked = @ + amount,
             !.locks = IF locked > 0
                       THEN Append(@, [amount |-> locked, release |-> release, init |-> h])
                       ELSE @,
             !.details = AddDetail(@, h, amount, 0)]
<1>1. Stake(acc, amount, h, op, locked, release).acc = new /\ amount >= 0
  BY DEF Stake, Ok, Error
<1>2. new.staked = acc.staked + amount /\ new.rewards = acc.rewards
  BY DEF StakeOK
<1>3. new.exists = TRUE /\ DOMAIN new = DOMAIN acc
  BY Zenon, SMTT(20) DEF StakeOK
<1> HIDE DEF new
<1> QED BY <1>1, <1>2, <1>3 DEF StakeOK, Worth

\* Unstake stores an account worth -amount less (stakeAccount.go:103).
LEMMA UnstakeWorth ==
  ASSUME NEW acc, StakeOK(acc), NEW amount \in Int, NEW h, Unstake(acc, amount, h).res = "ok"
  PROVE  /\ StakeOK(Unstake(acc, amount, h).acc)
         /\ Worth(Unstake(acc, amount, h).acc) = Worth(acc) + amount
<1> DEFINE slice == RemoveExpired(acc.locks, h)
           new == [acc EXCEPT
                     !.locks = SubSeq(slice.array, 1, slice.len),
                     !.staked = @ + amount,
                     !.operational = @ /\ acc.staked + amount # 0,
                     !.details = AddDetail(@, h, amount, 0)]
<1>1. Unstake(acc, amount, h).acc = new /\ acc.exists /\ ~(acc.staked + amount < 0)
  BY Zenon, SMTT(20) DEF Unstake, Ok, Error, Panic
<1> HIDE DEF slice
<1>2. new.staked = acc.staked + amount /\ new.rewards = acc.rewards
  BY DEF StakeOK
<1>3. new.exists = acc.exists /\ DOMAIN new = DOMAIN acc
  BY Zenon, SMTT(20) DEF StakeOK
<1> HIDE DEF new
<1> QED BY <1>1, <1>2, <1>3 DEF StakeOK, Worth

\* When the removal of locks panics, the money of the account is untouched
\* (stakeAccount.go:134).
LEMMA PanicWorth ==
  ASSUME NEW acc, StakeOK(acc), NEW amount \in Int, NEW h, Unstake(acc, amount, h).res = "panic"
  PROVE  StakeOK(Unstake(acc, amount, h).acc)
<1> DEFINE slice == RemoveExpired(acc.locks, h)
           cut == [acc EXCEPT !.locks = slice.array]
<1>1. Unstake(acc, amount, h).acc = cut
  BY Zenon, SMTT(20) DEF Unstake, Ok, Error, Panic
<1> HIDE DEF slice
<1>2. cut.staked = acc.staked /\ cut.rewards = acc.rewards
  BY DEF StakeOK
<1>3. cut.exists = acc.exists /\ DOMAIN cut = DOMAIN acc
  BY Zenon, SMTT(20) DEF StakeOK
<1> HIDE DEF cut
<1> QED BY <1>1, <1>2, <1>3 DEF StakeOK

\* WithdrawReward stores an account worth -amount less (stakeAccount.go:186).
LEMMA WithdrawWorth ==
  ASSUME NEW acc, StakeOK(acc), NEW amount \in Int, NEW h, WithdrawReward(acc, amount, h).res = "ok"
  PROVE  /\ StakeOK(WithdrawReward(acc, amount, h).acc)
         /\ Worth(WithdrawReward(acc, amount, h).acc) = Worth(acc) + amount
<1> DEFINE new == [acc EXCEPT !.rewards = @ + amount, !.details = AddDetail(@, h, 0, amount)]
<1>1. WithdrawReward(acc, amount, h).acc = new /\ ~(acc.rewards + amount < 0)
  BY Zenon, SMTT(20) DEF WithdrawReward, Ok, Error
<1>2. new.staked = acc.staked /\ new.rewards = acc.rewards + amount
  BY DEF StakeOK
<1>3. new.exists = acc.exists /\ DOMAIN new = DOMAIN acc
  BY Zenon, SMTT(20) DEF StakeOK
<1> HIDE DEF new
<1> QED BY <1>1, <1>2, <1>3 DEF StakeOK, Worth

\* Reward gives an existing account exactly the reward, and leaves its stake
\* alone (stakeAccount.go:157).
LEMMA RewardWorth ==
  ASSUME NEW acc, StakeOK(acc), NEW reward \in Nat, NEW h, acc.exists
  PROVE  /\ StakeOK(Reward(acc, reward, h).acc)
         /\ Worth(Reward(acc, reward, h).acc) = Worth(acc) + reward
         /\ Reward(acc, reward, h).acc.exists
<1> DEFINE new == [acc EXCEPT !.rewards = @ + reward, !.details = AddDetail(@, h, 0, reward)]
<1>1. Reward(acc, reward, h).acc = new
  <2>1. ~(reward < 0)
    OBVIOUS
  <2> QED BY <2>1, Zenon, SMTT(20) DEF Reward, Ok, Error
<1>2. new.staked = acc.staked /\ new.rewards = acc.rewards + reward
  BY DEF StakeOK
<1>3. new.exists = acc.exists /\ DOMAIN new = DOMAIN acc
  BY Zenon, SMTT(20) DEF StakeOK
<1> HIDE DEF new
<1> QED BY <1>1, <1>2, <1>3 DEF StakeOK, Worth

-----------------------------------------------------------------------------
\* AddBalance adds the amount to one account and so to the sum
\* (blockAccountState.go:9).
LEMMA AddBalanceSum ==
  ASSUME NEW b \in [Address -> Int], NEW a \in Address, NEW amount \in Int
  PROVE  /\ AddBalance(b, a, amount) \in [Address -> Int]
         /\ AddBalance(b, a, amount)[a] = b[a] + amount
         /\ \A c \in Address \ {a} : AddBalance(b, a, amount)[c] = b[c]
         /\ SumFunctionOnSet(b, Address) \in Int
         /\ SumFunctionOnSet(AddBalance(b, a, amount), Address)
              = SumFunctionOnSet(b, Address) + amount
<1> DEFINE b2 == AddBalance(b, a, amount)
<1>1. /\ b2 \in [Address -> Int] /\ b2[a] = b[a] + amount
      /\ \A c \in Address \ {a} : b2[c] = b[c]
  BY DEF AddBalance
<1> HIDE DEF b2
<1>2. SumFunctionOnSet(b2, Address) = SumFunctionOnSet(b, Address) - b[a] + b2[a]
  BY <1>1, Finite, SumUpdate
<1>3. SumFunctionOnSet(b, Address) \in Int /\ b[a] \in Int
  BY Finite, SumInt
<1>4. SumFunctionOnSet(b2, Address) = SumFunctionOnSet(b, Address) + amount
  BY <1>1, <1>2, <1>3
<1> QED BY <1>1, <1>3, <1>4 DEF b2

\* A transfer between two accounts, or of an account to itself, leaves the sum
\* alone and no balance below zero that covers what leaves it.
LEMMA TransferSum ==
  ASSUME NEW b \in [Address -> Nat], NEW from \in Address, NEW to \in Address, NEW amount \in Int,
         b[from] - amount >= 0, b[to] + amount >= 0
  PROVE  /\ Transfer(b, from, to, amount) \in [Address -> Nat]
         /\ SumFunctionOnSet(Transfer(b, from, to, amount), Address)
              = SumFunctionOnSet(b, Address)
<1> DEFINE b1 == AddBalance(b, from, -amount)
           b2 == AddBalance(b1, to, amount)
<1>1. b \in [Address -> Int] /\ -amount \in Int
  OBVIOUS
<1>2. /\ b1 \in [Address -> Int] /\ b1[from] = b[from] + (-amount)
      /\ \A c \in Address \ {from} : b1[c] = b[c]
      /\ SumFunctionOnSet(b, Address) \in Int
      /\ SumFunctionOnSet(b1, Address) = SumFunctionOnSet(b, Address) + (-amount)
  BY <1>1, AddBalanceSum
<1> HIDE DEF b1
<1>3. /\ b2 \in [Address -> Int] /\ b2[to] = b1[to] + amount
      /\ \A c \in Address \ {to} : b2[c] = b1[c]
      /\ SumFunctionOnSet(b2, Address) = SumFunctionOnSet(b1, Address) + amount
  BY <1>2, AddBalanceSum
<1> HIDE DEF b2
<1>4. ASSUME NEW c \in Address PROVE b2[c] \in Nat
  <2>1. b[c] \in Nat /\ b[from] \in Nat /\ b[to] \in Nat
    OBVIOUS
  <2>2. CASE c = to /\ to = from
    BY <1>2, <1>3, <2>1, <2>2
  <2>3. CASE c = to /\ to # from
    BY <1>2, <1>3, <2>1, <2>3
  <2>4. CASE c # to /\ c = from
    BY <1>2, <1>3, <2>1, <2>4
  <2>5. CASE c # to /\ c # from
    BY <1>2, <1>3, <2>1, <2>5
  <2> QED BY <2>2, <2>3, <2>4, <2>5
<1>5. b2 \in [Address -> Nat]
  BY <1>3, <1>4
<1>6. SumFunctionOnSet(b2, Address) = SumFunctionOnSet(b, Address)
  BY <1>2, <1>3
<1> QED BY <1>5, <1>6 DEF b1, b2, Transfer

\* Storing one staking account changes the sum of all by what it gained.
LEMMA StakingSum ==
  ASSUME NEW s, StakesOK(s), NEW k \in StakingKeys, NEW acc, StakeOK(acc)
  PROVE  /\ StakesOK([s EXCEPT ![k] = acc])
         /\ SumFunctionOnSet(StakedCoins(s), StakingKeys) \in Int
         /\ SumFunctionOnSet(StakedCoins([s EXCEPT ![k] = acc]), StakingKeys)
              = SumFunctionOnSet(StakedCoins(s), StakingKeys) - Worth(s[k]) + Worth(acc)
<1> DEFINE s2 == [s EXCEPT ![k] = acc]
           f == StakedCoins(s)
           f2 == StakedCoins(s2)
<1>1. s2[k] = acc /\ \A j \in StakingKeys \ {k} : s2[j] = s[j]
  BY DEF StakesOK
<1>2. StakesOK(s2)
  BY DEF StakesOK
<1> HIDE DEF s2
<1>3. \A j \in StakingKeys : f[j] = Worth(s[j]) /\ f2[j] = Worth(s2[j])
  BY DEF StakedCoins, Worth
<1>4. \A j \in StakingKeys : Worth(s[j]) \in Int /\ Worth(s2[j]) \in Int
  BY <1>2 DEF StakesOK, StakeOK, Worth
<1> HIDE DEF f, f2
<1>5. SumFunctionOnSet(f2, StakingKeys) = SumFunctionOnSet(f, StakingKeys) - f[k] + f2[k]
  <2>1. \A j \in StakingKeys : f[j] \in Int /\ f2[j] \in Int
    BY <1>3, <1>4
  <2>2. \A j \in StakingKeys \ {k} : f2[j] = f[j]
    BY <1>1, <1>3
  <2>3. IsFiniteSet(StakingKeys)
    BY Finite
  <2> QED BY <2>1, <2>2, <2>3, SumUpdate
<1>6. SumFunctionOnSet(f, StakingKeys) \in Int
  BY <1>3, <1>4, Finite, SumInt
<1>7. f[k] = Worth(s[k]) /\ f2[k] = Worth(acc)
  BY <1>1, <1>3
<1> QED BY <1>2, <1>5, <1>6, <1>7 DEF s2, f, f2

\* The sum over all addresses of what only one of them has.
LEMMA PointSum ==
  ASSUME NEW o \in Address, NEW x \in Int, NEW f,
         \A a \in Address : f[a] = IF a = o THEN x ELSE 0
  PROVE  SumFunctionOnSet(f, Address) = x
<1> DEFINE zero == [a \in Address |-> 0]
<1>1. IsFiniteSet(Address)
  BY Finite
<1>2. SumFunctionOnSet(zero, Address) = 0
  BY <1>1, SumZero
<1>3. /\ \A a \in Address : zero[a] \in Int /\ f[a] \in Int
      /\ \A a \in Address \ {o} : f[a] = zero[a]
      /\ zero[o] = 0 /\ f[o] = x
  OBVIOUS
<1> HIDE DEF zero
<1>4. SumFunctionOnSet(f, Address) = SumFunctionOnSet(zero, Address) - zero[o] + f[o]
  BY <1>1, <1>3, SumUpdate
<1> QED BY <1>2, <1>3, <1>4

\* The fields of a transaction that the money depends on.
LEMMA TxFields ==
  ASSUME NEW tx \in Txs
  PROVE  /\ tx.sender \in Users /\ tx.sender \in Address /\ tx.recipient \in Address
         /\ tx.amount \in Int /\ tx.fee \in Int /\ tx.locked \in Nat /\ tx.release \in Nat
         /\ Verify(tx)
BY TxsAssumption DEF TxType, Address

\* A transfer (to no delegated account) does not move a negative amount: Verify
\* wants a delegated recipient for one (transaction.go:232).
LEMMA TransferAmount == ASSUME NEW tx \in Txs, IsTransfer(tx) PROVE tx.amount >= 0
<1>1. -1 \notin DelegatedAddresses
  BY InRange
<1>2. tx.locked > 0 => tx.lockFor \in DelegatedAddresses
  BY TxFields DEF Verify
<1>3. ~(tx.locked > 0) /\ tx.recipient \notin DelegatedAddresses
  BY <1>1, <1>2 DEF IsTransfer, DelegatedOf, IntDelegatedAccountFromAddress
<1> QED BY <1>3, TxFields DEF Verify

\* A number in use is that of a staking account of every address.
LEMMA NumberInUse ==
  ASSUME NEW n \in DelegatedAddresses, NEW a \in Address
  PROVE  /\ <<n % 256, a>> \in StakingKeys
         /\ n \in 1..255 => <<n, a>> \in StakingKeys
<1>1. <<n % 256, a>> \in StakingKeys
  BY DEF StakingKeys
<1>2. n \in 1..255 => n % 256 = n
  OBVIOUS
<1> QED BY <1>1, <1>2

\* The staking accounts that a transaction is about exist in the map.
LEMMA KeysInUse ==
  ASSUME NEW tx \in Txs, DelegatedOf(tx) \in 1..511
  PROVE  /\ StakingKey(tx) \in StakingKeys
         /\ DelegatedOf(tx) \in 1..255 => <<DelegatedOf(tx), tx.recipient>> \in StakingKeys
<1>1. DelegatedOf(tx) \in DelegatedAddresses
  BY DEF DelegatedOf, IntDelegatedAccountFromAddress
<1> QED BY <1>1, TxFields, NumberInUse DEF StakingKey
-----------------------------------------------------------------------------

\* The coins of a snapshot and its fees add up to its supply, see SupplyAccounted.
SnapshotOK(s) ==
  /\ s.balance \in [Address -> Nat] /\ StakesOK(s.staking)
  /\ s.supply \in Nat /\ s.supply <= MaxTotalSupply /\ s.blockFee \in Int /\ s.waived \in Int
  /\ Coins(s.balance, s.staking) + s.blockFee = s.supply + s.waived

ChainOK(c) ==
  /\ \E S : c \in Seq(S)
  /\ Len(c) >= 1 /\ \A i \in 1..Len(c) : SnapshotOK(c[i])

MoneyOK == balance \in [Address -> Nat] /\ StakesOK(staking) /\ waived \in Int

\* Payments that wait in a pool move no negative amount.
Held(tx) == tx \in Txs /\ tx.amount >= 0
PoolsOK ==
  /\ \A tx \in escrowPool : Held(tx)
  /\ \A tx \in due : Held(tx)
  /\ \A p \in multiSignPool : Held(p.tx)

InBlock == phase \in {"evaluate", "escrow", "transactions", "confirm"}

BlockOK ==
  /\ InBlock => /\ block.txs \in Seq(Txs) /\ next \in 1..Len(block.txs) + 1
                /\ block.delegated \in DelegatedAddresses \cap 1..255
                /\ block.operator \in Users /\ block.perc \in Int
                /\ ~clean
  /\ phase = "confirm" => next <= Len(block.txs)
  /\ phase = "evaluate" => waived = 0

\* The fees of the first n transactions of the block.
Fees(n) == SumFunctionOnSet([i \in DOMAIN block.txs |-> block.txs[i].fee], 1..n)
Processed == IF phase = "confirm" THEN next ELSE next - 1

\* In the middle of a block, once the supply was checked: what the transactions
\* processed so far paid in fees is all that is missing.
Balanced ==
  phase \in {"escrow", "transactions", "confirm"} =>
    Coins(balance, staking) + LastBlock.blockFee + Fees(Processed) = LastBlock.supply + waived

\* Between blocks the accounts are those stored with the last one, unless a panic
\* has left others behind.
AtLastBlock ==
  phase = "idle" /\ clean => balance = LastBlock.balance /\ staking = LastBlock.staking

\* The ledger adds up, as long as no snapshot was misread.
LedgerOK == MoneyOK /\ ChainOK(chain) /\ PoolsOK /\ BlockOK /\ Balanced /\ AtLastBlock

\* The inductive invariant: nothing is known of misread accounts, except that the
\* blocks are still those that were stored.
LedgerInv == ChainOK(chain) /\ (phase = "garbled" \/ LedgerOK)

\* The coins of well-formed accounts are a natural number.
LEMMA CoinsNat ==
  ASSUME NEW b \in [Address -> Nat], NEW s, StakesOK(s)
  PROVE  /\ SumFunctionOnSet(b, Address) \in Nat
         /\ SumFunctionOnSet(StakedCoins(s), StakingKeys) \in Nat
         /\ Coins(b, s) \in Nat
<1>1. SumFunctionOnSet(b, Address) \in Nat
  BY Finite, SumNat
<1> DEFINE f == StakedCoins(s)
<1>2. \A k \in StakingKeys : f[k] \in Nat
  BY DEF StakedCoins, StakesOK, StakeOK
<1> HIDE DEF f
<1>3. SumFunctionOnSet(f, StakingKeys) \in Nat
  BY <1>2, Finite, SumNat
<1> QED BY <1>1, <1>3 DEF Coins, f

\* The last block is one of the chain.
LEMMA LastOK ==
  ASSUME ChainOK(chain)
  PROVE  Len(chain) \in Nat /\ Len(chain) >= 1 /\ SnapshotOK(LastBlock)
<1>1. PICK S : chain \in Seq(S)
  BY DEF ChainOK
<1>2. Len(chain) \in Nat
  BY <1>1, LenProperties
<1> QED BY <1>2 DEF ChainOK, LastBlock

\* Going back to block h cuts the chain (helperReset.go:45).
LEMMA CutChain ==
  ASSUME ChainOK(chain), NEW h \in 0..Len(chain) - 1, chain' = SubSeq(chain, 1, h + 1)
  PROVE  ChainOK(chain') /\ LastBlock' = chain[h + 1]
<1> DEFINE c == SubSeq(chain, 1, h + 1)
           S == {chain[i] : i \in 1..h + 1}
<1>1. Len(chain) \in Nat
  BY LastOK
<1>2. \A i \in 1..h + 1 : chain[i] \in S
  OBVIOUS
<1> HIDE DEF S
<1>3. /\ c \in Seq(S) /\ Len(c) = h + 1
      /\ \A i \in 1..h + 1 : c[i] = chain[i]
  BY <1>1, <1>2, SubSeqProperties
<1> HIDE DEF c
<1>4. \A i \in 1..h + 1 : SnapshotOK(chain[i])
  BY <1>1 DEF ChainOK
<1>5. ChainOK(c)
  BY <1>3, <1>4 DEF ChainOK
<1>6. c[Len(c)] = chain[h + 1]
  BY <1>3
<1> QED BY <1>5, <1>6 DEF c, LastBlock

\* It restores a ledger that adds up, if the snapshot is read as it was written.
LEMMA ResetKeeps ==
  ASSUME LedgerOK, NEW h \in 0..Len(chain) - 1, Reset(h),
         \A tx \in escrowPool' : Held(tx), \A p \in multiSignPool' : Held(p.tx)
  PROVE  LedgerInv'
<1> DEFINE s == chain[h + 1]
<1>1. ChainOK(chain) /\ Len(chain) \in Nat
  BY LastOK DEF LedgerOK
<1>2. SnapshotOK(s)
  BY <1>1 DEF ChainOK
<1>3. /\ due' = {} /\ waived' = 0
      /\ \/ /\ chain' = SubSeq(chain, 1, h + 1) /\ phase' = "idle"
            /\ balance' = s.balance /\ staking' = s.staking
         \/ phase' = "garbled" /\ chain' \in {chain, SubSeq(chain, 1, h + 1)}
  BY Zenon, SMTT(20) DEF Reset
<1>4. CASE phase' = "garbled"
  <2>1. CASE chain' = chain
    BY <1>1, <1>4, <2>1 DEF LedgerInv
  <2>2. CASE chain' = SubSeq(chain, 1, h + 1)
    BY <1>1, <1>4, <2>2, CutChain DEF LedgerInv
  <2> QED BY <1>3, <1>4, <2>1, <2>2
<1>5. CASE phase' = "idle"
  <2>1. /\ chain' = SubSeq(chain, 1, h + 1)
        /\ balance' = s.balance /\ staking' = s.staking
    BY <1>3, <1>5
  <2>2. ChainOK(chain') /\ LastBlock' = s
    BY <1>1, <2>1, CutChain
  <2> HIDE DEF s
  <2>3. MoneyOK'
    BY <1>2, <1>3, <2>1 DEF MoneyOK, SnapshotOK
  <2>4. PoolsOK'
    BY <1>3 DEF PoolsOK
  <2>5. BlockOK' /\ Balanced'
    BY <1>5 DEF BlockOK, Balanced, InBlock
  <2>6. AtLastBlock'
    BY <2>1, <2>2 DEF AtLastBlock
  <2> QED BY <2>2, <2>3, <2>4, <2>5, <2>6 DEF LedgerOK, LedgerInv
<1> QED BY <1>3, <1>4, <1>5

\* So does a block that fails, whatever it took out of the pools.
LEMMA FailKeeps ==
  ASSUME LedgerOK, NEW bad, NEW pool, pool \subseteq multiSignPool, FailBlock(bad, pool)
  PROVE  LedgerInv'
<1>1. Len(chain) - 1 \in 0..Len(chain) - 1
  BY LastOK DEF LedgerOK
<1>2. Reset(Len(chain) - 1)
  BY DEF FailBlock
<1>3. (\A tx \in escrowPool' : Held(tx)) /\ (\A p \in multiSignPool' : Held(p.tx))
  BY DEF FailBlock, LedgerOK, PoolsOK
<1> QED BY <1>1, <1>2, <1>3, ResetKeeps

-----------------------------------------------------------------------------
\* The fee of the n-th transaction joins the fees of those before it.
LEMMA FeesStep ==
  ASSUME block.txs \in Seq(Txs), NEW n \in 1..Len(block.txs)
  PROVE  Fees(n) = Fees(n - 1) + block.txs[n].fee /\ Fees(n - 1) \in Int
<1> DEFINE f == [i \in DOMAIN block.txs |-> block.txs[i].fee]
<1>1. Len(block.txs) \in Nat /\ DOMAIN block.txs = 1..Len(block.txs)
  BY LenProperties
<1>2. \A i \in 1..n : f[i] = block.txs[i].fee /\ f[i] \in Int
  <2>1. \A i \in 1..n : i \in DOMAIN block.txs /\ block.txs[i] \in Txs
    BY <1>1, ElementOfSeq
  <2> QED BY <2>1, TxFields
<1> HIDE DEF f
<1>3. IsFiniteSet(1..n) /\ n \in 1..n /\ (1..n) \ {n} = 1..n - 1
  <2>1. n \in Int /\ n \in 1..n /\ (1..n) \ {n} = 1..n - 1
    BY <1>1
  <2>2. IsFiniteSet(1..n)
    BY <2>1, FS_Interval
  <2> QED BY <2>1, <2>2
<1>4. /\ SumFunctionOnSet(f, 1..n) = f[n] + SumFunctionOnSet(f, (1..n) \ {n})
      /\ SumFunctionOnSet(f, (1..n) \ {n}) \in Int
  BY <1>2, <1>3, SumSplit
<1>5. Fees(n) = SumFunctionOnSet(f, 1..n) /\ Fees(n - 1) = SumFunctionOnSet(f, 1..n - 1)
  BY DEF Fees, f
<1>6. f[n] = block.txs[n].fee /\ f[n] \in Int
  BY <1>2, <1>3
<1>7. SumFunctionOnSet(f, (1..n) \ {n}) = SumFunctionOnSet(f, 1..n - 1)
  BY <1>3
<1> DEFINE x == SumFunctionOnSet(f, 1..n - 1)
<1>8. Fees(n) = f[n] + x /\ x \in Int /\ Fees(n - 1) = x
  BY <1>4, <1>5, <1>7
<1> HIDE DEF x
<1> QED BY <1>6, <1>8

\* A step inside the block that moves coins between accounts and charges nothing.
LEMMA MoveKeeps ==
  ASSUME LedgerOK, InBlock, phase # "evaluate" \/ phase' = "evaluate", InBlock',
         UNCHANGED <<chain, block, waived, clean>>,
         balance' \in [Address -> Nat], StakesOK(staking'), PoolsOK', BlockOK',
         Processed' = Processed \/ phase' = "evaluate", Coins(balance', staking') = Coins(balance, staking)
  PROVE  LedgerOK'
<1>1. MoneyOK' /\ ChainOK(chain')
  BY DEF LedgerOK, MoneyOK
<1>2. AtLastBlock'
  BY DEF AtLastBlock, InBlock
<1>3. Balanced'
  <2> SUFFICES ASSUME phase' # "evaluate" PROVE Balanced'
    BY DEF Balanced
  <2>1. Balanced /\ phase \in {"escrow", "transactions", "confirm"}
    BY DEF LedgerOK, InBlock
  <2>2. Fees(Processed)' = Fees(Processed) /\ LastBlock' = LastBlock
    BY DEF Fees, LastBlock
  <2> QED BY <2>1, <2>2 DEF Balanced
<1> QED BY <1>1, <1>2, <1>3 DEF LedgerOK

\* A processed transaction whose fee leaves the accounts, or is waived.
LEMMA ProcessKeeps ==
  ASSUME LedgerOK, NEW tx \in Txs, Processing(tx), Done(tx),
         balance' \in [Address -> Nat], StakesOK(staking'), waived' \in Int,
         \A t \in escrowPool' : Held(t), \A p \in multiSignPool' : Held(p.tx),
         Coins(balance', staking') + tx.fee = Coins(balance, staking) + (waived' - waived)
  PROVE  LedgerOK'
<1>1. /\ phase = "transactions" /\ next <= Len(block.txs) /\ tx = block.txs[next]
      /\ UNCHANGED <<chain, clean, block, due>>
      /\ \/ phase' = "confirm" /\ next' = next
         \/ phase' = "transactions" /\ next' = next + 1
  BY SMTT(20), Zenon DEF Processing, Done, chainVars
<1>2. /\ block.txs \in Seq(Txs) /\ next \in 1..Len(block.txs) /\ Len(block.txs) \in Nat
      /\ block.delegated \in DelegatedAddresses \cap 1..255
      /\ block.operator \in Users /\ block.perc \in Int /\ ~clean
  BY <1>1, LenProperties DEF LedgerOK, BlockOK, InBlock
<1>3. MoneyOK' /\ ChainOK(chain') /\ PoolsOK'
  BY <1>1, SMTT(20), Zenon DEF LedgerOK, MoneyOK, PoolsOK
<1>4. BlockOK'
  BY <1>1, <1>2 DEF BlockOK, InBlock
<1>5. AtLastBlock'
  BY <1>1 DEF AtLastBlock
<1>6. Balanced'
  <2>1. Fees(next) = Fees(next - 1) + tx.fee /\ Fees(next - 1) \in Int
    BY <1>1, <1>2, FeesStep, SMTT(20), Zenon
  <2>2. Processed = next - 1 /\ Processed' = next
    BY <1>1, <1>2 DEF Processed
  <2>3. Fees(Processed)' = Fees(next) /\ LastBlock' = LastBlock
    BY <1>1, <2>2 DEF Fees, LastBlock
  <2>4. Coins(balance, staking) + LastBlock.blockFee + Fees(next - 1) = LastBlock.supply + waived
    BY <1>1, <2>2 DEF LedgerOK, Balanced
  <2>5. /\ Coins(balance, staking) \in Nat /\ Coins(balance', staking') \in Nat
        /\ waived \in Int
    BY CoinsNat DEF LedgerOK, MoneyOK
  <2>6. LastBlock.blockFee \in Int /\ LastBlock.supply \in Nat
    BY LastOK DEF LedgerOK, SnapshotOK
  <2>7. tx.fee \in Int
    BY TxFields
  <2>8. Coins(balance', staking') + LastBlock.blockFee + Fees(next) = LastBlock.supply + waived'
    BY <2>1, <2>4, <2>5, <2>6, <2>7
  <2> QED BY <2>3, <2>8, SMTT(20), Zenon DEF Balanced
<1> QED BY <1>3, <1>4, <1>5, <1>6 DEF LedgerOK

-----------------------------------------------------------------------------
\* ProcessTransaction, one lemma per action.

\* Coins that a staking account gains leave the sender's account, and the other
\* way round; the fee is taken with them (processTransaction.go:166-230).
LEMMA StakingMoveKeeps ==
  ASSUME LedgerOK, NEW tx \in Txs, Processing(tx), Done(tx),
         NEW k \in StakingKeys, NEW acc, StakeOK(acc), Worth(acc) = Worth(staking[k]) + tx.amount,
         staking' = [staking EXCEPT ![k] = acc],
         balance' = AddBalance(balance, tx.sender, -tx.fee - tx.amount), Pays(tx, tx.amount),
         UNCHANGED <<escrowPool, multiSignPool, waived>>
  PROVE  LedgerOK'
<1> DEFINE d == -tx.fee - tx.amount
<1>1. /\ balance \in [Address -> Nat] /\ StakesOK(staking) /\ waived \in Int
      /\ d \in Int /\ tx.fee \in Int /\ tx.amount \in Int /\ tx.sender \in Address
  BY TxFields DEF LedgerOK, MoneyOK
<1>2. balance[tx.sender] + d \in Nat
  BY <1>1 DEF Pays
<1>3. /\ balance' \in [Address -> Int] /\ balance'[tx.sender] = balance[tx.sender] + d
      /\ \A c \in Address \ {tx.sender} : balance'[c] = balance[c]
      /\ SumFunctionOnSet(balance, Address) \in Int
      /\ SumFunctionOnSet(balance', Address) = SumFunctionOnSet(balance, Address) + d
  <2>1. balance \in [Address -> Int] /\ balance' = AddBalance(balance, tx.sender, d)
    BY <1>1
  <2> HIDE DEF d
  <2> QED BY <1>1, <2>1, AddBalanceSum
<1>4. balance' \in [Address -> Nat]
  <2>1. \A c \in Address : balance'[c] \in Nat
    BY <1>1, <1>2, <1>3
  <2> QED BY <1>3, <2>1
<1>5. /\ StakesOK(staking')
      /\ SumFunctionOnSet(StakedCoins(staking), StakingKeys) \in Int
      /\ SumFunctionOnSet(StakedCoins(staking'), StakingKeys)
           = SumFunctionOnSet(StakedCoins(staking), StakingKeys) - Worth(staking[k]) + Worth(acc)
  BY <1>1, StakingSum
<1>6. Worth(staking[k]) \in Int
  BY <1>1 DEF StakesOK, StakeOK, Worth
<1>7. Coins(balance', staking') + tx.fee = Coins(balance, staking) + (waived' - waived)
  BY <1>1, <1>3, <1>5, <1>6 DEF Coins
<1>8. (\A t \in escrowPool' : Held(t)) /\ (\A p \in multiSignPool' : Held(p.tx))
  BY DEF LedgerOK, PoolsOK
<1> QED BY <1>1, <1>4, <1>5, <1>7, <1>8, ProcessKeeps

\* A stake, locked or not (processTransaction.go:166).
LEMMA ProcessStakeKeeps ==
  ASSUME LedgerOK, NEW tx \in Txs, ProcessStake(tx) PROVE LedgerOK'
<1> DEFINE k == IF tx.locked > 0 THEN <<DelegatedOf(tx), tx.recipient>> ELSE StakingKey(tx)
           acc == StakeOf(tx).acc
<1>1. DelegatedOf(tx) \in 1..255 /\ StakeOf(tx).res = "ok" /\ Pays(tx, tx.amount)
  BY DEF ProcessStake, CanStake
<1>2. k \in StakingKeys
  BY <1>1, KeysInUse
<1>3. StakeOK(staking[k])
  BY <1>2 DEF LedgerOK, MoneyOK, StakesOK
<1>4. StakeOf(tx) = Stake(staking[k], tx.amount, Height, tx.operational, tx.locked, tx.release)
  BY DEF StakeOf
<1>5. /\ Processing(tx) /\ Done(tx) /\ staking' = [staking EXCEPT ![k] = acc]
      /\ balance' = AddBalance(balance, tx.sender, -tx.fee - tx.amount)
      /\ UNCHANGED <<escrowPool, multiSignPool, waived>>
  BY SMTT(20), Zenon DEF ProcessStake
<1> HIDE DEF k
<1>6. StakeOK(acc) /\ Worth(acc) = Worth(staking[k]) + tx.amount
  BY <1>1, <1>3, <1>4, TxFields, StakeWorth, SMTT(20), Zenon
<1> HIDE DEF acc
<1> QED BY <1>1, <1>2, <1>5, <1>6, StakingMoveKeeps, SMTT(20), Zenon

\* An unstake (processTransaction.go:191).
LEMMA ProcessUnstakeKeeps ==
  ASSUME LedgerOK, NEW tx \in Txs, ProcessUnstake(tx) PROVE LedgerOK'
<1> DEFINE k == StakingKey(tx)
           acc == UnstakeOf(tx).acc
<1>1. DelegatedOf(tx) \in 1..255 /\ UnstakeOf(tx).res = "ok" /\ Pays(tx, tx.amount)
  BY SMTT(20), Zenon DEF ProcessUnstake, CanUnstake
<1>2. k \in StakingKeys
  <2>1. DelegatedOf(tx) \in 1..511
    BY <1>1
  <2> QED BY <2>1, KeysInUse, SMTT(20), Zenon
<1>3. StakeOK(staking[k])
  BY <1>2 DEF LedgerOK, MoneyOK, StakesOK
<1>4. UnstakeOf(tx) = Unstake(staking[k], tx.amount, Height)
  BY DEF UnstakeOf
<1>5. /\ Processing(tx) /\ Done(tx) /\ staking' = [staking EXCEPT ![k] = acc]
      /\ balance' = AddBalance(balance, tx.sender, -tx.fee - tx.amount)
      /\ UNCHANGED <<escrowPool, multiSignPool, waived>>
  BY DEF ProcessUnstake
<1> HIDE DEF k
<1>6. StakeOK(acc) /\ Worth(acc) = Worth(staking[k]) + tx.amount
  BY <1>1, <1>3, <1>4, TxFields, UnstakeWorth, SMTT(20), Zenon
<1> HIDE DEF acc
<1> QED BY <1>1, <1>2, <1>5, <1>6, StakingMoveKeeps

\* A withdrawal of rewards (processTransaction.go:206).
LEMMA ProcessWithdrawKeeps ==
  ASSUME LedgerOK, NEW tx \in Txs, ProcessWithdraw(tx) PROVE LedgerOK'
<1> DEFINE k == StakingKey(tx)
           acc == WithdrawOf(tx).acc
<1>1. DelegatedOf(tx) \in 256..511 /\ WithdrawOf(tx).res = "ok" /\ Pays(tx, tx.amount)
  BY DEF ProcessWithdraw, CanWithdraw
<1>2. k \in StakingKeys
  <2>1. DelegatedOf(tx) \in 1..511
    BY <1>1
  <2> QED BY <2>1, KeysInUse
<1>3. StakeOK(staking[k])
  BY <1>2 DEF LedgerOK, MoneyOK, StakesOK
<1>4. WithdrawOf(tx) = WithdrawReward(staking[k], tx.amount, Height)
  BY DEF WithdrawOf
<1>5. /\ Processing(tx) /\ Done(tx) /\ staking' = [staking EXCEPT ![k] = acc]
      /\ balance' = AddBalance(balance, tx.sender, -tx.fee - tx.amount)
      /\ UNCHANGED <<escrowPool, multiSignPool, waived>>
  BY SMTT(20), Zenon DEF ProcessWithdraw
<1> HIDE DEF k
<1>6. StakeOK(acc) /\ Worth(acc) = Worth(staking[k]) + tx.amount
  BY <1>1, <1>3, <1>4, TxFields, WithdrawWorth
<1> HIDE DEF acc
<1> QED BY <1>1, <1>2, <1>5, <1>6, StakingMoveKeeps, SMTT(20), Zenon

\* A panic in Unstake ends the block where it is, with the money of the staking
\* account untouched; the ledger is no longer that of the last block.
LEMMA UnstakePanicsKeeps ==
  ASSUME LedgerOK, NEW tx \in Txs, UnstakePanics(tx) PROVE LedgerOK'
<1> DEFINE k == StakingKey(tx)
           acc == UnstakeOf(tx).acc
<1>1. DelegatedOf(tx) \in 1..255 /\ UnstakeOf(tx).res = "panic" /\ phase = "transactions"
  BY Zenon, SMTT(20) DEF UnstakePanics, Processing
<1>2. k \in StakingKeys
  <2>1. DelegatedOf(tx) \in 1..511
    BY <1>1
  <2> QED BY <2>1, KeysInUse
<1>3. StakesOK(staking) /\ StakeOK(staking[k])
  BY <1>2 DEF LedgerOK, MoneyOK, StakesOK
<1>4. UnstakeOf(tx) = Unstake(staking[k], tx.amount, Height)
  BY DEF UnstakeOf
<1>5. /\ staking' = [staking EXCEPT ![k] = acc] /\ phase' = "idle" /\ waived' = 0
      /\ UNCHANGED <<balance, escrowPool, multiSignPool, due, chain, clean>>
  BY SMTT(20), Zenon DEF UnstakePanics, poolVars, chainVars
<1> HIDE DEF k
<1>6. StakeOK(acc)
  BY <1>1, <1>3, <1>4, TxFields, PanicWorth
<1> HIDE DEF acc
<1>7. StakesOK(staking')
  BY <1>2, <1>3, <1>5, <1>6 DEF StakesOK
<1>8. MoneyOK' /\ ChainOK(chain') /\ PoolsOK'
  BY <1>5, <1>7 DEF LedgerOK, MoneyOK, PoolsOK
<1>9. BlockOK' /\ Balanced'
  BY <1>5, SMTT(20), Zenon DEF BlockOK, Balanced, InBlock
<1>10. AtLastBlock'
  BY <1>1, <1>5 DEF LedgerOK, BlockOK, InBlock, AtLastBlock
<1> QED BY <1>8, <1>9, <1>10 DEF LedgerOK

\* A transaction that is ignored: its fee is waived (processTransaction.go:213).
LEMMA ProcessIgnoredKeeps ==
  ASSUME LedgerOK, NEW tx \in Txs, ProcessIgnored(tx) PROVE LedgerOK'
<1>1. /\ Processing(tx) /\ Done(tx) /\ waived' = waived + tx.fee
      /\ UNCHANGED <<balance, staking, escrowPool, multiSignPool>>
  BY DEF ProcessIgnored, ledgerVars
<1>2. /\ balance \in [Address -> Nat] /\ StakesOK(staking) /\ waived \in Int /\ tx.fee \in Int
      /\ (\A t \in escrowPool' : Held(t)) /\ (\A p \in multiSignPool' : Held(p.tx))
  BY <1>1, TxFields DEF LedgerOK, MoneyOK, PoolsOK
<1>3. Coins(balance, staking) \in Nat
  BY <1>2, CoinsNat
<1>4. Coins(balance', staking') + tx.fee = Coins(balance, staking) + (waived' - waived)
  BY <1>1, <1>2, <1>3
<1> QED BY <1>1, <1>2, <1>4, ProcessKeeps

\* AddTransaction puts at most the given entry into a pool (poolTx.go:78).
LEMMA PoolGrows ==
  ASSUME NEW pool, NEW entry, NEW p \in AddTransaction(pool, entry)
  PROVE  p \in pool \/ p = entry
BY DEF AddTransaction

\* A transfer that has to wait pays its fee (processTransaction.go:256).
LEMMA ProcessHoldKeeps ==
  ASSUME LedgerOK, NEW tx \in Txs, ProcessHold(tx) PROVE LedgerOK'
<1> DEFINE d == -tx.fee
<1>1. /\ Processing(tx) /\ Done(tx) /\ UNCHANGED <<staking, waived>>
      /\ balance' = AddBalance(balance, tx.sender, d)
      /\ IsTransfer(tx) /\ balance[tx.sender] - tx.fee - 0 >= 0
  BY DEF ProcessHold, CanHold, ToEscrow, ToMultiSign, Pays
<1>2. /\ balance \in [Address -> Nat] /\ StakesOK(staking) /\ waived \in Int
      /\ tx.fee \in Int /\ d \in Int /\ tx.sender \in Address
  BY TxFields DEF LedgerOK, MoneyOK
<1>3. Held(tx)
  BY <1>1, TransferAmount DEF Held
<1>4. balance[tx.sender] + d \in Nat
  BY <1>1, <1>2
<1>5. /\ balance' \in [Address -> Int] /\ balance'[tx.sender] = balance[tx.sender] + d
      /\ \A c \in Address \ {tx.sender} : balance'[c] = balance[c]
      /\ SumFunctionOnSet(balance, Address) \in Int
      /\ SumFunctionOnSet(balance', Address) = SumFunctionOnSet(balance, Address) + d
  <2>1. balance \in [Address -> Int]
    BY <1>2
  <2>2. tx.sender \in Address /\ d \in Int /\ balance' = AddBalance(balance, tx.sender, d)
    BY <1>1, <1>2
  <2> HIDE DEF d
  <2> QED BY <2>1, <2>2, AddBalanceSum
<1>6. balance' \in [Address -> Nat]
  <2>1. \A c \in Address : balance'[c] \in Nat
    BY <1>2, <1>4, <1>5
  <2> QED BY <1>5, <2>1
<1>7. Coins(balance', staking') + tx.fee = Coins(balance, staking) + (waived' - waived)
  <2>1. SumFunctionOnSet(StakedCoins(staking), StakingKeys) \in Nat
    BY <1>2, CoinsNat
  <2> QED BY <1>1, <1>2, <1>5, <2>1 DEF Coins
<1>8. \A t \in escrowPool' : Held(t)
  BY <1>3, Zenon, SMTT(20) DEF ProcessHold, LedgerOK, PoolsOK
<1>9. \A p \in multiSignPool' : Held(p.tx)
  <2>1. \A p \in multiSignPool' : p \in multiSignPool \/ p = [tx |-> tx, main |-> tx.id]
    BY PoolGrows, SMTT(20), Zenon DEF ProcessHold
  <2> QED BY <1>3, <2>1, SMTT(20), Zenon DEF LedgerOK, PoolsOK
<1> QED BY <1>1, <1>2, <1>6, <1>7, <1>8, <1>9, ProcessKeeps, SMTT(20), Zenon

\* A transfer: the amount moves, then the fee leaves (processTransaction.go:231).
LEMMA ProcessTransferKeeps ==
  ASSUME LedgerOK, NEW tx \in Txs, ProcessTransfer(tx) PROVE LedgerOK'
<1> DEFINE b == Transfer(balance, tx.sender, tx.recipient, tx.amount)
           d == -tx.fee
<1>1. /\ Processing(tx) /\ Done(tx) /\ UNCHANGED <<staking, escrowPool, waived>>
      /\ balance' = AddBalance(b, tx.sender, d)
      /\ IsTransfer(tx) /\ balance[tx.sender] >= tx.amount /\ b[tx.sender] >= tx.fee
  BY SMTT(20), Zenon DEF ProcessTransfer, CanTransfer
<1>2. /\ balance \in [Address -> Nat] /\ StakesOK(staking) /\ waived \in Int
      /\ tx.fee \in Int /\ tx.amount \in Nat /\ d \in Int
      /\ tx.sender \in Address /\ tx.recipient \in Address
  <2>1. balance \in [Address -> Nat] /\ StakesOK(staking) /\ waived \in Int
    BY Zenon, SMTT(20) DEF LedgerOK, MoneyOK
  <2>2. tx.fee \in Int /\ tx.amount \in Nat /\ tx.sender \in Address /\ tx.recipient \in Address
    BY <1>1, TxFields, TransferAmount, SMTT(20), Zenon
  <2> QED BY <2>1, <2>2, SMTT(20), Zenon
<1>3. Held(tx)
  BY <1>2, SMTT(20), Zenon DEF Held
<1>4. b \in [Address -> Nat] /\ SumFunctionOnSet(b, Address) = SumFunctionOnSet(balance, Address)
  <2>1. balance[tx.sender] - tx.amount >= 0 /\ balance[tx.recipient] + tx.amount >= 0
    BY <1>1, <1>2
  <2> QED BY <1>2, <2>1, TransferSum, SMTT(20), Zenon
<1> HIDE DEF b
<1>5. /\ balance' \in [Address -> Int] /\ balance'[tx.sender] = b[tx.sender] + d
      /\ \A c \in Address \ {tx.sender} : balance'[c] = b[c]
      /\ SumFunctionOnSet(b, Address) \in Int
      /\ SumFunctionOnSet(balance', Address) = SumFunctionOnSet(b, Address) + d
  <2>1. b \in [Address -> Int]
    BY <1>4
  <2>2. tx.sender \in Address /\ d \in Int /\ balance' = AddBalance(b, tx.sender, d)
    BY <1>1, <1>2
  <2> HIDE DEF d
  <2> QED BY <2>1, <2>2, AddBalanceSum
<1>6. balance' \in [Address -> Nat]
  <2>1. b[tx.sender] + d \in Nat
    BY <1>1, <1>2, <1>4
  <2>2. \A c \in Address : balance'[c] \in Nat
    BY <1>4, <1>5, <2>1, SMTT(20), Zenon
  <2> QED BY <1>5, <2>2, SMTT(20), Zenon
<1>7. Coins(balance', staking') + tx.fee = Coins(balance, staking) + (waived' - waived)
  <2>1. SumFunctionOnSet(StakedCoins(staking), StakingKeys) \in Nat
    BY <1>2, CoinsNat, SMTT(20), Zenon
  <2> QED BY <1>1, <1>2, <1>4, <1>5, <2>1, SMTT(20), Zenon DEF Coins
<1>8. \A t \in escrowPool' : Held(t)
  BY <1>1 DEF LedgerOK, PoolsOK
<1>9. \A p \in multiSignPool' : Held(p.tx)
  <2>1. \A p \in multiSignPool' : p \in multiSignPool \/ p = [tx |-> tx, main |-> tx.confirms]
    BY PoolGrows DEF ProcessTransfer
  <2> QED BY <1>3, <2>1, SMTT(20), Zenon DEF LedgerOK, PoolsOK
<1> QED BY <1>1, <1>2, <1>6, <1>7, <1>8, <1>9, ProcessKeeps, SMTT(20), Zenon

-----------------------------------------------------------------------------
\* The other steps of a block that move coins.

\* Coins that move between two accounts stay in the sum.
LEMMA TransferCoins ==
  ASSUME LedgerOK, NEW from \in Address, NEW to \in Address, NEW amount \in Int,
         balance[from] - amount >= 0, balance[to] + amount >= 0,
         balance' = Transfer(balance, from, to, amount), staking' = staking
  PROVE  /\ balance' \in [Address -> Nat] /\ StakesOK(staking')
         /\ Coins(balance', staking') = Coins(balance, staking)
<1>1. balance \in [Address -> Nat] /\ StakesOK(staking)
  BY DEF LedgerOK, MoneyOK
<1>2. /\ balance' \in [Address -> Nat]
      /\ SumFunctionOnSet(balance', Address) = SumFunctionOnSet(balance, Address)
  BY <1>1, TransferSum
<1> QED BY <1>1, <1>2 DEF Coins

\* A payment from a pool, which has waited until its sender had the coins.
LEMMA HeldCoins ==
  ASSUME LedgerOK, NEW tx, Held(tx), balance[tx.sender] >= tx.amount,
         balance' = Transfer(balance, tx.sender, tx.recipient, tx.amount), staking' = staking
  PROVE  /\ balance' \in [Address -> Nat] /\ StakesOK(staking')
         /\ Coins(balance', staking') = Coins(balance, staking)
<1>1. /\ balance \in [Address -> Nat] /\ tx.amount \in Int /\ tx.amount >= 0
      /\ tx.sender \in Address /\ tx.recipient \in Address
  BY TxFields DEF Held, LedgerOK, MoneyOK
<1>2. balance[tx.sender] - tx.amount >= 0 /\ balance[tx.recipient] + tx.amount >= 0
  BY <1>1
<1> QED BY <1>1, <1>2, TransferCoins, SMTT(20), Zenon

\* The evaluation of a transaction, whatever the exchange moves (evaluate.go:171).
LEMMA EvaluateKeeps ==
  ASSUME LedgerOK, EvaluateTx \/ EvaluateDex PROVE LedgerOK'
<1>1. /\ phase = "evaluate" /\ next <= Len(block.txs) /\ next' = next + 1
      /\ UNCHANGED <<phase, block, due, waived, chain, clean, escrowPool, multiSignPool, staking>>
  BY DEF EvaluateTx, EvaluateDex, poolVars, chainVars, ledgerVars
<1>2. block.txs \in Seq(Txs) /\ next \in 1..Len(block.txs) /\ Len(block.txs) \in Nat
  BY <1>1, LenProperties DEF LedgerOK, BlockOK, InBlock
<1>3. PoolsOK' /\ InBlock /\ InBlock'
  BY <1>1 DEF LedgerOK, PoolsOK, InBlock
<1>4. BlockOK'
  BY <1>1, <1>2 DEF LedgerOK, BlockOK, InBlock
<1>5. /\ balance' \in [Address -> Nat] /\ StakesOK(staking')
      /\ Coins(balance', staking') = Coins(balance, staking)
  <2>1. CASE EvaluateTx
    BY <2>1, SMTT(20), Zenon DEF EvaluateTx, ledgerVars, LedgerOK, MoneyOK
  <2>2. CASE EvaluateDex
    <3> DEFINE tx == block.txs[next]
    <3>1. tx \in Txs
      BY <1>2, ElementOfSeq, SMTT(20), Zenon
    <3>2. PICK coins \in (IF tx.recipient = 514 THEN {-tx.amount} ELSE DexAmounts) :
             /\ balance[DexAccount] - coins >= 0 /\ balance[tx.sender] + coins >= 0
             /\ balance' = Transfer(balance, DexAccount, tx.sender, coins)
      BY <2>2, Zenon, SMTT(20) DEF EvaluateDex
    <3>3. coins \in Int
      <4>1. DexAmounts \subseteq Int
        BY NumbersAssumption
      <4>2. -tx.amount \in Int
        BY <3>1, TxFields, SMTT(20), Zenon
      <4> QED BY <3>2, <4>1, <4>2
    <3>4. DexAccount \in Address /\ tx.sender \in Address
      BY <3>1, TxFields DEF Address
    <3> HIDE DEF tx
    <3> QED BY <1>1, <3>2, <3>3, <3>4, TransferCoins
  <2> QED BY <2>1, <2>2
<1> QED BY <1>1, <1>3, <1>4, <1>5, MoveKeeps, SMTT(20), Zenon

\* The supply check is what makes the rest of the block start from accounts that
\* add up, even after a panic has left others behind (processBlock.go:402).
LEMMA CheckSupplyKeeps == ASSUME LedgerOK, CheckSupply PROVE LedgerOK'
<1>1. /\ phase = "evaluate" /\ phase' = "escrow" /\ next' = 1 /\ SupplyMatches
      /\ due' \subseteq escrowPool
      /\ UNCHANGED <<balance, staking, escrowPool, multiSignPool, chain, clean, block, waived>>
  BY DEF CheckSupply, ledgerVars, poolVars, chainVars
<1>2. MoneyOK' /\ ChainOK(chain') /\ PoolsOK'
  BY <1>1 DEF LedgerOK, MoneyOK, PoolsOK
<1>3. block.txs \in Seq(Txs) /\ Len(block.txs) \in Nat /\ waived = 0
  BY <1>1, LenProperties DEF LedgerOK, BlockOK, InBlock
<1>4. BlockOK'
  BY <1>1, <1>3 DEF LedgerOK, BlockOK, InBlock
<1>5. AtLastBlock'
  BY <1>1 DEF AtLastBlock
<1>6. Balanced'
  <2>1. Processed' = 0 /\ 1..0 = {}
    BY <1>1 DEF Processed
  <2>2. Fees(Processed)' = 0
    BY <1>1, <2>1, SumEmpty DEF Fees
  <2>3. LastBlock' = LastBlock
    BY <1>1 DEF LastBlock
  <2>4. Coins(balance, staking) \in Nat
    BY CoinsNat DEF LedgerOK, MoneyOK
  <2>5. LastBlock.blockFee \in Int /\ LastBlock.supply \in Nat
    BY LastOK DEF LedgerOK, SnapshotOK
  <2>6. Coins(balance, staking) + LastBlock.blockFee + 0 = LastBlock.supply + waived
    BY <1>1, <1>3, <2>4, <2>5 DEF SupplyMatches
  <2> QED BY <1>1, <2>2, <2>3, <2>6 DEF Balanced
<1> QED BY <1>2, <1>4, <1>5, <1>6 DEF LedgerOK

\* The escrow pass: a due payment is executed, moved on or given up
\* (processTransaction.go:370).
LEMMA EscrowKeeps ==
  ASSUME LedgerOK, EscrowStops \/ \E tx \in due : EscrowTx(tx) PROVE LedgerOK'
<1>1. /\ phase = "escrow" /\ phase' \in {"escrow", "transactions"}
      /\ UNCHANGED <<chain, clean, block, next, waived, staking>> /\ due' \subseteq due
  BY SMTT(20), Zenon DEF EscrowStops, EscrowTx, EscrowToMultiSign, EscrowExecutes, EscrowFails,
         ledgerVars, poolVars, chainVars
<1>2. BlockOK' /\ InBlock /\ InBlock' /\ Processed' = Processed
  BY <1>1, SMTT(20), Zenon DEF LedgerOK, BlockOK, InBlock, Processed
<1>3. escrowPool' \subseteq escrowPool
  BY Zenon, SMTT(20) DEF EscrowStops, EscrowTx, EscrowToMultiSign, EscrowExecutes, EscrowFails, poolVars
<1>4. \A p \in multiSignPool' : p \in multiSignPool \/ \E tx \in due : p = [tx |-> tx, main |-> tx.id]
  BY PoolGrows
     DEF EscrowStops, EscrowTx, EscrowToMultiSign, EscrowExecutes, EscrowFails, poolVars
<1>5. PoolsOK'
  BY <1>1, <1>3, <1>4 DEF LedgerOK, PoolsOK
<1>6. /\ balance' \in [Address -> Nat] /\ StakesOK(staking')
      /\ Coins(balance', staking') = Coins(balance, staking)
  <2>1. CASE balance' = balance
    BY <1>1, <2>1 DEF LedgerOK, MoneyOK
  <2>2. CASE \E tx \in due : EscrowExecutes(tx)
    <3>1. PICK tx \in due : EscrowExecutes(tx)
      BY <2>2
    <3>2. Held(tx)
      BY DEF LedgerOK, PoolsOK
    <3> QED BY <1>1, <3>1, <3>2, HeldCoins, Zenon, SMTT(20) DEF EscrowExecutes
  <2> QED BY <2>1, <2>2, Zenon, SMTT(20)
          DEF EscrowStops, EscrowTx, EscrowToMultiSign, EscrowFails, ledgerVars
<1> QED BY <1>1, <1>2, <1>5, <1>6, MoveKeeps, SMTT(20), Zenon

\* A confirmation: the payment waits, or its coins move
\* (processTransaction.go:270).
LEMMA ConfirmKeeps == ASSUME LedgerOK, NEW tx \in Txs, Confirm(tx) PROVE LedgerInv'
<1>1. CASE ConfirmExpired(tx)
  BY <1>1, FailKeeps, SMTT(20), Zenon DEF ConfirmExpired
<1>2. CASE \E main \in MainOf(tx) : \E order \in Orders(tx) :
             ConfirmFails(tx, main, Approvals(order, main))
  BY <1>2, FailKeeps DEF ConfirmFails
<1>3. CASE \/ ConfirmNothing(tx)
           \/ \E main \in MainOf(tx) : \E order \in Orders(tx) :
                \/ ConfirmWaits(tx, main, Approvals(order, main))
                \/ ConfirmExecutes(tx, main, Approvals(order, main))
  <2>1. /\ phase = "confirm" /\ phase' = "transactions" /\ next' = next + 1
        /\ UNCHANGED <<chain, clean, block, waived, staking, due, escrowPool>>
        /\ multiSignPool' \subseteq multiSignPool
    BY <1>3, Zenon, SMTT(20) DEF ConfirmNothing, ConfirmWaits, ConfirmExecutes, Confirming,
                ledgerVars, poolVars, chainVars
  <2>2. block.txs \in Seq(Txs) /\ next \in 1..Len(block.txs) /\ Len(block.txs) \in Nat
    BY <2>1, LenProperties, SMTT(20), Zenon DEF LedgerOK, BlockOK, InBlock
  <2>3. BlockOK' /\ InBlock /\ InBlock' /\ Processed' = Processed
    BY <2>1, <2>2 DEF LedgerOK, BlockOK, InBlock, Processed
  <2>4. PoolsOK'
    BY <2>1 DEF LedgerOK, PoolsOK
  <2>5. /\ balance' \in [Address -> Nat] /\ StakesOK(staking')
        /\ Coins(balance', staking') = Coins(balance, staking)
    <3>1. CASE balance' = balance
      BY <2>1, <3>1 DEF LedgerOK, MoneyOK
    <3>2. CASE \E main \in MainOf(tx) : \E order \in Orders(tx) :
                 ConfirmExecutes(tx, main, Approvals(order, main))
      <4>1. PICK main \in MainOf(tx) : \E slice : ConfirmExecutes(tx, main, slice)
        BY <3>2
      <4>2. Held(main)
        BY DEF MainOf, Filed, LedgerOK, PoolsOK
      <4> QED BY <2>1, <4>1, <4>2, HeldCoins, Zenon, SMTT(20) DEF ConfirmExecutes
    <3> QED BY <1>3, <3>1, <3>2, Zenon, SMTT(20) DEF ConfirmNothing, ConfirmWaits, ledgerVars
  <2>6. LedgerOK'
    BY <2>1, <2>3, <2>4, <2>5, MoveKeeps
  <2> QED BY <2>6 DEF LedgerOK, LedgerInv
<1> QED BY <1>1, <1>2, <1>3 DEF Confirm
=============================================================================
