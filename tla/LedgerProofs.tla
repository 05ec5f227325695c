---------------------------- MODULE LedgerProofs ----------------------------
(***************************************************************************)
(* Theorems about the money of a node, for every set of users, delegated   *)
(* addresses and transactions, every genesis and any number of blocks,     *)
(* failed blocks and rollbacks.                                            *)
(***************************************************************************)
EXTENDS LedgerSteps

\* The reward of a block is at most what is left of the total supply, however the
\* rounding goes (reward.go:8).
LEMMA RewardBounded ==
  ASSUME NEW supply \in Nat, supply <= MaxTotalSupply
  PROVE  GetReward(supply) \in Nat /\ supply + GetReward(supply) <= MaxTotalSupply
<1>1. MaxTotalSupply \in Nat /\ RewardDivisor \in Nat \ {0}
  BY NumbersAssumption
<1> DEFINE x == MaxTotalSupply - supply
           d == RewardDivisor
           q == GetReward(supply)
           y == 2 * x + d
           z == 2 * d
<1>2. x \in Nat /\ d \in Nat \ {0} /\ y \in Nat /\ z \in Nat \ {0} /\ q = y \div z
  BY <1>1 DEF GetReward
<1>3. q \in Nat /\ z * q <= y
  <2> HIDE DEF q, y, z
  <2> QED BY <1>2, Quotient
<1>4. q <= x
  <2> SUFFICES ASSUME q >= x + 1 PROVE FALSE
    <3> HIDE DEF q, x
    <3> QED BY <1>2, <1>3
  <2> HIDE DEF q, x, d
  <2>1. z * q >= z * (x + 1)
    <3> HIDE DEF z, y
    <3> QED BY <1>2, <1>3
  <2>2. z * (x + 1) = 2 * (d * x) + 2 * d /\ d * x \in Nat /\ d * x >= x
    BY <1>2
  <2> DEFINE p == d * x
             w == z * q
             v == z * (x + 1)
  <2>3. w \in Int /\ v \in Int
    BY <1>2, <1>3
  <2> HIDE DEF p, w, v
  <2>4. w <= 2 * x + d /\ w >= v /\ v = 2 * p + 2 * d /\ p \in Nat /\ p >= x
    BY <1>3, <2>1, <2>2 DEF p, w, v
  <2> QED BY <1>2, <2>3, <2>4
<1>5. supply + q <= MaxTotalSupply
  <2> HIDE DEF q
  <2> QED BY <1>1, <1>3, <1>4
<1> QED BY <1>3, <1>5

\* In a block: the stakes of its delegated account, and the shares of its reward.
StakeIn == [a \in Address |-> staking[<<block.delegated, a>>].staked]
Shares == [a \in Address |-> ShareOf(a)]

\* What the block has to share is a natural number, every share is one, and the
\* rounding leaves a natural number over (processBlock.go:294-334).
LEMMA SharesBounded ==
  ASSUME StakesOK(staking), ChainOK(chain), block.delegated \in DelegatedAddresses \cap 1..255,
         block.perc \in Int, block.perc <= 1000, OperatorReward >= 0, StakedIn(block.delegated) > 0
  PROVE  /\ BlockReward \in Nat /\ OperatorReward \in Nat /\ Shared \in Nat
         /\ Shared = BlockReward - OperatorReward
         /\ \A a \in Address : ShareOf(a) \in Nat /\ (StakeIn[a] = 0 => ShareOf(a) = 0)
         /\ SumFunctionOnSet(Shares, Address) \in Nat
         /\ Rest = Shared - SumFunctionOnSet(Shares, Address) /\ Rest \in Nat
<1> DEFINE n == block.delegated
           total == StakedIn(n)
<1>1. BlockReward \in Nat
  BY LastOK, RewardBounded DEF BlockReward, SnapshotOK
<1>2. OperatorReward \in Nat /\ Shared \in Nat /\ Shared = BlockReward - OperatorReward
  <2> DEFINE p == block.perc
             r == BlockReward
             q == OperatorReward
  <2>1. /\ q = IF p >= 0 THEN (r * p) \div 1000 ELSE -((r * (-p)) \div 1000)
        /\ p \in Int /\ p <= 1000 /\ r \in Nat /\ q >= 0
    BY <1>1 DEF OperatorReward
  <2>2. Shared = r - q
    BY DEF Shared
  <2> HIDE DEF p, r, q
  <2>3. p >= 0 => q \in Nat /\ q <= r
    <3> SUFFICES ASSUME p >= 0 PROVE q \in Nat /\ q <= r
      OBVIOUS
    <3> DEFINE y == r * p
    <3>1. y \in Nat /\ y <= r * 1000
      BY <2>1
    <3>2. q = y \div 1000
      BY <2>1
    <3> HIDE DEF y
    <3> QED BY <2>1, <3>1, <3>2
  <2>4. p < 0 => q \in Nat /\ q <= r
    <3> SUFFICES ASSUME p < 0 PROVE q \in Nat /\ q <= r
      OBVIOUS
    <3> DEFINE y == r * (-p)
    <3>1. y \in Nat
      BY <2>1
    <3>2. q = -(y \div 1000)
      BY <2>1
    <3> HIDE DEF y
    <3>3. y \div 1000 \in Nat
      BY <3>1
    <3> QED BY <2>1, <3>2, <3>3
  <2>5. q \in Nat /\ q <= r
    BY <2>1, <2>3, <2>4
  <2> QED BY <2>1, <2>2, <2>5 DEF q, r
<1>3. \A a \in Address : StakeIn[a] = staking[<<n, a>>].staked /\ StakeIn[a] \in Nat
  <2>1. \A a \in Address : <<n, a>> \in StakingKeys
    BY NumberInUse
  <2> QED BY <2>1 DEF StakeIn, StakesOK, StakeOK
<1>4. total = SumFunctionOnSet(StakeIn, Address)
  BY DEF StakedIn, StakeIn
<1>5. total \in Nat \ {0}
  <2>1. SumFunctionOnSet(StakeIn, Address) \in Nat
    BY <1>3, Finite, SumNat
  <2> QED BY <1>4, <2>1
<1>6. \A a \in Address : Shares[a] = (Shared * StakeIn[a]) \div total /\ Shares[a] = ShareOf(a)
  BY <1>3 DEF Shares, ShareOf
<1> HIDE DEF total, n
<1>7. \A a \in Address : ShareOf(a) \in Nat /\ (StakeIn[a] = 0 => ShareOf(a) = 0)
  <2> TAKE a \in Address
  <2> DEFINE y == Shared * StakeIn[a]
  <2>1. y \in Nat /\ (StakeIn[a] = 0 => y = 0)
    <3> DEFINE c == Shared
               w == StakeIn[a]
    <3>1. c \in Nat /\ w \in Nat
      BY <1>2, <1>3
    <3> HIDE DEF c, w
    <3>2. c * w \in Nat /\ (w = 0 => c * w = 0)
      BY <3>1
    <3> QED BY <3>2 DEF c, w
  <2>3. ShareOf(a) = y \div total
    BY <1>6
  <2> HIDE DEF y
  <2>2. y \div total \in Nat /\ (y = 0 => y \div total = 0)
    BY <1>5, <2>1
  <2> QED BY <2>1, <2>2, <2>3
<1>8. /\ SumFunctionOnSet(Shares, Address) \in Nat
      /\ SumFunctionOnSet(Shares, Address) <= Shared
  <2>1. IsFiniteSet(Address)
    BY Finite
  <2>2. \A a \in Address : StakeIn[a] \in Nat /\ Shares[a] = (Shared * StakeIn[a]) \div total
    BY <1>3, <1>6
  <2> QED BY <1>2, <1>4, <1>5, <2>1, <2>2, SumShares
<1>9. Rest = Shared - SumFunctionOnSet(Shares, Address)
  BY DEF Rest, Shares
<1> QED BY <1>1, <1>2, <1>7, <1>8, <1>9

\* What the operator gets on top of a share.
Extra == [a \in Address |-> IF a = block.operator THEN OperatorReward + Rest ELSE 0]

\* Every address of the delegated account gains its share, and the operator the
\* operator's part and the rest.
LEMMA RewardedWorth ==
  ASSUME LedgerOK, InBlock, CanReward, NEW a \in Address
  PROVE  /\ StakeOK(Rewarded(a))
         /\ ShareOf(a) \in Nat /\ Extra[a] \in Nat
         /\ Worth(Rewarded(a)) = Worth(staking[<<block.delegated, a>>]) + (ShareOf(a) + Extra[a])
<1> DEFINE acc == staking[<<block.delegated, a>>]
           oper == IF a = block.operator THEN Reward(acc, OperatorReward, Height).acc ELSE acc
           share == IF acc.staked > 0 THEN Reward(oper, ShareOf(a), Height).acc ELSE oper
<1>1. /\ StakesOK(staking) /\ ChainOK(chain) /\ block.delegated \in DelegatedAddresses \cap 1..255
      /\ block.perc \in Int /\ block.perc <= 1000 /\ OperatorReward >= 0
      /\ StakedIn(block.delegated) > 0
  BY DEF LedgerOK, MoneyOK, BlockOK, CanReward
<1>2. /\ OperatorReward \in Nat /\ Rest \in Nat /\ ShareOf(a) \in Nat
      /\ StakeIn[a] = 0 => ShareOf(a) = 0
  BY <1>1, SharesBounded
<1>3. <<block.delegated, a>> \in StakingKeys
  BY <1>1, NumberInUse
<1>4. StakeOK(acc) /\ StakeIn[a] = acc.staked
  BY <1>1, <1>3 DEF StakesOK, StakeIn
<1>5. a = block.operator => acc.exists
  BY DEF CanReward
<1>6. Rewarded(a) = IF a = block.operator /\ Rest > 0 THEN Reward(share, Rest, Height).acc ELSE share
  BY DEF Rewarded
<1>7. Extra[a] = IF a = block.operator THEN OperatorReward + Rest ELSE 0
  BY DEF Extra
<1> HIDE DEF acc
<1>8. /\ StakeOK(oper) /\ (acc.exists => oper.exists)
      /\ Worth(oper) = Worth(acc) + (IF a = block.operator THEN OperatorReward ELSE 0)
  <2>1. CASE a = block.operator
    BY <1>2, <1>4, <1>5, <2>1, RewardWorth
  <2>2. CASE a # block.operator
    <3>1. Worth(acc) \in Int
      BY <1>4 DEF StakeOK, Worth
    <3> QED BY <1>4, <2>2, <3>1
  <2> QED BY <2>1, <2>2
<1>9. Worth(acc) \in Int /\ Worth(oper) \in Int
  BY <1>4, <1>8 DEF StakeOK, Worth
<1> HIDE DEF oper
<1>10. /\ StakeOK(share) /\ (acc.exists => share.exists)
       /\ Worth(share) = Worth(oper) + ShareOf(a)
  <2>1. CASE acc.staked > 0
    <3>1. acc.exists
      BY <1>4, <2>1 DEF StakeOK
    <3> QED BY <1>2, <1>8, <2>1, <3>1, RewardWorth
  <2>2. CASE ~(acc.staked > 0)
    <3>1. acc.staked = 0
      BY <1>4, <2>2 DEF StakeOK
    <3> QED BY <1>2, <1>4, <1>8, <1>9, <2>2, <3>1
  <2> QED BY <2>1, <2>2
<1>11. Worth(share) \in Int
  BY <1>10 DEF StakeOK, Worth
<1> HIDE DEF share
<1>12. /\ StakeOK(Rewarded(a))
       /\ Worth(Rewarded(a)) = Worth(share) + (IF a = block.operator THEN Rest ELSE 0)
  <2>1. CASE a = block.operator /\ Rest > 0
    BY <1>2, <1>5, <1>6, <1>10, <2>1, RewardWorth
  <2>2. CASE ~(a = block.operator /\ Rest > 0)
    BY <1>2, <1>6, <1>10, <1>11, <2>2
  <2> QED BY <2>1, <2>2
<1> DEFINE w1 == Worth(acc)
           w2 == Worth(oper)
           w3 == Worth(share)
           w4 == Worth(Rewarded(a))
<1>13. w4 = w1 + (ShareOf(a) + Extra[a]) /\ Extra[a] \in Nat
  <2>1. /\ w1 \in Int /\ w2 = w1 + (IF a = block.operator THEN OperatorReward ELSE 0)
        /\ w3 = w2 + ShareOf(a) /\ w4 = w3 + (IF a = block.operator THEN Rest ELSE 0)
    BY <1>8, <1>9, <1>10, <1>12
  <2> HIDE DEF w1, w2, w3, w4
  <2> QED BY <1>2, <1>7, <2>1
<1> QED BY <1>2, <1>12, <1>13 DEF acc

\* The rewards of a block add up to what the supply grows by, to the last coin
\* (processBlock.go:258).
LEMMA RewardsSum ==
  ASSUME LedgerOK, InBlock, CanReward,
         staking' = [k \in StakingKeys |->
                       IF k[1] = block.delegated THEN Rewarded(k[2]) ELSE staking[k]]
  PROVE  /\ StakesOK(staking')
         /\ SumFunctionOnSet(StakedCoins(staking'), StakingKeys)
              = SumFunctionOnSet(StakedCoins(staking), StakingKeys) + BlockReward
<1> DEFINE n == block.delegated
           old == StakedCoins(staking)
           new == StakedCoins(staking')
           gained == [k \in StakingKeys |-> new[k] - old[k]]
           gain == [a \in Address |-> ShareOf(a) + Extra[a]]
<1>1. /\ StakesOK(staking) /\ ChainOK(chain) /\ n \in DelegatedAddresses \cap 1..255
      /\ block.perc \in Int /\ block.perc <= 1000 /\ OperatorReward >= 0
      /\ StakedIn(n) > 0 /\ block.operator \in Address
  BY DEF LedgerOK, MoneyOK, BlockOK, CanReward, Address
<1>2. \A a \in Address : <<n, a>> \in StakingKeys
  BY <1>1, NumberInUse
<1>3. \A k \in StakingKeys : k = <<k[1], k[2]>> /\ k[2] \in Address
  BY DEF StakingKeys
<1>4. \A a \in Address : staking'[<<n, a>>] = Rewarded(a)
  BY <1>2
<1>5. \A k \in StakingKeys : k[1] # n => staking'[k] = staking[k]
  OBVIOUS
<1>6. StakesOK(staking')
  <2>1. ASSUME NEW k \in StakingKeys PROVE StakeOK(staking'[k])
    <3>1. CASE k[1] = n
      BY <1>3, <3>1, RewardedWorth
    <3>2. CASE k[1] # n
      BY <1>1, <1>5, <3>2 DEF StakesOK
    <3> QED BY <3>1, <3>2
  <2> QED BY <2>1 DEF StakesOK
<1>7. /\ \A k \in StakingKeys : old[k] = Worth(staking[k]) /\ new[k] = Worth(staking'[k])
      /\ \A k \in StakingKeys : old[k] \in Int /\ new[k] \in Int
  BY <1>1, <1>6 DEF StakedCoins, Worth, StakesOK, StakeOK
<1> HIDE DEF n, old, new
<1>8. \A a \in Address : ShareOf(a) \in Nat /\ Extra[a] \in Nat /\ gain[a] = ShareOf(a) + Extra[a]
  BY RewardedWorth
<1>9. \A a \in Address : gained[<<n, a>>] = gain[a] /\ gain[a] \in Int
  <2> TAKE a \in Address
  <2>1. Worth(Rewarded(a)) = Worth(staking[<<n, a>>]) + gain[a]
    BY <1>8, RewardedWorth DEF n
  <2>2. new[<<n, a>>] = old[<<n, a>>] + gain[a] /\ gain[a] \in Int
    BY <1>2, <1>4, <1>7, <1>8, <2>1
  <2>3. gained[<<n, a>>] = new[<<n, a>>] - old[<<n, a>>]
    BY <1>2
  <2>4. old[<<n, a>>] \in Int
    BY <1>2, <1>7
  <2> HIDE DEF gain, gained
  <2> QED BY <2>2, <2>3, <2>4
<1>10. \A k \in StakingKeys : (\E a \in Address : k = <<n, a>>) \/ gained[k] = 0
  <2> TAKE k \in StakingKeys
  <2>1. CASE k[1] = n
    BY <1>3, <2>1
  <2>2. CASE k[1] # n
    <3>1. new[k] = old[k] /\ old[k] \in Int
      BY <1>5, <1>7, <2>2
    <3> QED BY <3>1
  <2> QED BY <2>1, <2>2
<1>11. \A k \in StakingKeys : old[k] \in Int /\ gained[k] \in Int /\ new[k] = old[k] + gained[k]
  BY <1>7
<1> HIDE DEF gained, gain
<1>12. SumFunctionOnSet(gained, StakingKeys) = SumFunctionOnSet(gain, Address)
  <2>1. OnlyRow(StakingKeys, Address, n, gained, gain)
    BY <1>2, <1>9, <1>10 DEF OnlyRow
  <2> QED BY <2>1, Finite, SumRow
<1>13. SumFunctionOnSet(new, StakingKeys)
         = SumFunctionOnSet(old, StakingKeys) + SumFunctionOnSet(gained, StakingKeys)
  BY <1>11, Finite, SumAdd
<1>14. SumFunctionOnSet(gain, Address)
         = SumFunctionOnSet(Shares, Address) + SumFunctionOnSet(Extra, Address)
  <2>1. \A a \in Address : Shares[a] \in Int /\ Extra[a] \in Int /\ gain[a] = Shares[a] + Extra[a]
    BY <1>8 DEF Shares
  <2> QED BY <2>1, Finite, SumAdd
<1>15. SumFunctionOnSet(Extra, Address) = OperatorReward + Rest
  <2> DEFINE o == block.operator
             x == OperatorReward + Rest
  <2>1. \A a \in Address : Extra[a] = IF a = o THEN x ELSE 0
    BY DEF Extra
  <2>2. o \in Address /\ Extra[o] \in Nat
    BY <1>1, <1>8
  <2> HIDE DEF o, x
  <2>3. x \in Int
    BY <2>1, <2>2
  <2> QED BY <2>1, <2>2, <2>3, PointSum DEF x
<1>16. /\ BlockReward \in Nat /\ OperatorReward \in Nat /\ Shared = BlockReward - OperatorReward
       /\ SumFunctionOnSet(Shares, Address) \in Nat
       /\ Rest = Shared - SumFunctionOnSet(Shares, Address) /\ Rest \in Nat
  BY <1>1, SharesBounded DEF n
<1>17. SumFunctionOnSet(gained, StakingKeys) = BlockReward
  BY <1>12, <1>14, <1>15, <1>16
<1> QED BY <1>6, <1>13, <1>17 DEF old, new

\* The end of a block stores a snapshot that adds up (processBlock.go:428).
LEMMA FinishKeeps == ASSUME LedgerOK, FinishBlock PROVE LedgerOK'
<1> DEFINE new == Snapshot(balance, known, delay, multiSign, staking',
                           LastBlock.supply + BlockReward, BlockFee, waived, block.txs)
<1>1. /\ phase = "transactions" /\ next > Len(block.txs) /\ CanReward
      /\ chain' = Append(chain, new) /\ phase' = "idle" /\ waived' = 0
      /\ UNCHANGED <<balance, known, delay, escrowPool, multiSignPool, due>>
      /\ staking' = [k \in StakingKeys |->
                       IF k[1] = block.delegated THEN Rewarded(k[2]) ELSE staking[k]]
  BY DEF FinishBlock, poolVars
<1>2. /\ StakesOK(staking')
      /\ SumFunctionOnSet(StakedCoins(staking'), StakingKeys)
           = SumFunctionOnSet(StakedCoins(staking), StakingKeys) + BlockReward
  BY <1>1, RewardsSum DEF InBlock
<1>3. /\ block.txs \in Seq(Txs) /\ Len(block.txs) \in Nat /\ next = Len(block.txs) + 1
      /\ DOMAIN block.txs = 1..Len(block.txs)
  BY <1>1, LenProperties DEF LedgerOK, BlockOK, InBlock
<1>4. BlockFee = LastBlock.blockFee + Fees(Processed)
  <2>1. Processed = Len(block.txs)
    BY <1>1, <1>3 DEF Processed
  <2> QED BY <1>3, <2>1 DEF BlockFee, Fees
<1>5. Fees(Processed) \in Int
  <2> DEFINE f == [i \in DOMAIN block.txs |-> block.txs[i].fee]
  <2>1. Processed = Len(block.txs)
    BY <1>1, <1>3 DEF Processed
  <2>2. \A i \in 1..Len(block.txs) : f[i] \in Int
    BY <1>3, ElementOfSeq, TxFields
  <2>3. IsFiniteSet(1..Len(block.txs))
    BY <1>3, FS_Interval
  <2> HIDE DEF f
  <2>4. SumFunctionOnSet(f, 1..Len(block.txs)) \in Int
    BY <2>2, <2>3, SumInt
  <2> QED BY <2>1, <2>4 DEF Fees, f
<1>6. /\ LastBlock.blockFee \in Int /\ LastBlock.supply \in Nat
      /\ LastBlock.supply <= MaxTotalSupply
      /\ BlockReward \in Nat /\ LastBlock.supply + BlockReward <= MaxTotalSupply
  BY LastOK, RewardBounded DEF LedgerOK, SnapshotOK, BlockReward
<1>7. /\ balance \in [Address -> Nat] /\ StakesOK(staking) /\ waived \in Int
      /\ SumFunctionOnSet(balance, Address) \in Nat
      /\ SumFunctionOnSet(StakedCoins(staking), StakingKeys) \in Nat
  BY CoinsNat DEF LedgerOK, MoneyOK
<1>8. Coins(balance, staking') = Coins(balance, staking) + BlockReward
  BY <1>2, <1>6, <1>7 DEF Coins
<1>9. Coins(balance, staking) + LastBlock.blockFee + Fees(Processed) = LastBlock.supply + waived
  BY <1>1 DEF LedgerOK, Balanced
<1>10. Coins(balance, staking') + BlockFee = (LastBlock.supply + BlockReward) + waived
  <2>1. Coins(balance, staking) \in Nat
    BY <1>7, CoinsNat
  <2> DEFINE c == Coins(balance, staking)
             d == Coins(balance, staking')
             e == LastBlock.blockFee
             f == Fees(Processed)
             g == LastBlock.supply
             r == BlockReward
             w == waived
  <2>2. /\ c \in Int /\ e \in Int /\ f \in Int /\ g \in Int /\ r \in Int /\ w \in Int
        /\ BlockFee = e + f /\ d = c + r /\ c + e + f = g + w
    BY <1>4, <1>5, <1>6, <1>7, <1>8, <1>9, <2>1
  <2> HIDE DEF c, d, e, f, g, r, w
  <2>3. d + BlockFee = (g + r) + w
    BY <2>2
  <2> QED BY <2>3 DEF d, g, r, w
<1>11. /\ new.balance = balance /\ new.staking = staking' /\ new.known = known
       /\ new.delay = delay /\ new.supply = LastBlock.supply + BlockReward
       /\ new.blockFee = BlockFee /\ new.waived = waived
  BY DEF Snapshot
<1> HIDE DEF new
<1>12. SnapshotOK(new)
  <2>1. BlockFee \in Int /\ LastBlock.supply + BlockReward \in Nat
    BY <1>4, <1>5, <1>6
  <2> QED BY <1>2, <1>6, <1>7, <1>10, <1>11, <2>1 DEF SnapshotOK
<1>13. ChainOK(chain') /\ LastBlock' = new
  <2>1. PICK S : chain \in Seq(S)
    BY DEF LedgerOK, ChainOK
  <2> DEFINE T == S \cup {new}
  <2>2. chain \in Seq(T) /\ new \in T
    BY <2>1
  <2> HIDE DEF T
  <2>3. /\ chain' \in Seq(T) /\ Len(chain') = Len(chain) + 1 /\ Len(chain) \in Nat
        /\ \A i \in 1..Len(chain) : chain'[i] = chain[i]
        /\ chain'[Len(chain) + 1] = new
    BY <1>1, <2>2, AppendProperties, LenProperties
  <2>4. \A i \in 1..Len(chain') : SnapshotOK(chain'[i])
    BY <1>12, <2>3 DEF LedgerOK, ChainOK
  <2>5. ChainOK(chain')
    BY <2>3, <2>4 DEF ChainOK
  <2> QED BY <2>3, <2>5 DEF LastBlock
<1>14. MoneyOK' /\ PoolsOK'
  BY <1>1, <1>2, <1>7 DEF MoneyOK, LedgerOK, PoolsOK
<1>15. BlockOK' /\ Balanced'
  BY <1>1 DEF BlockOK, Balanced, InBlock
<1>16. AtLastBlock'
  BY <1>1, <1>11, <1>13 DEF AtLastBlock
<1> QED BY <1>13, <1>14, <1>15, <1>16 DEF LedgerOK

\* A block that passes the first checks changes nothing yet (processBlock.go:151).
LEMMA StartKeeps == ASSUME LedgerOK, NEW b \in Blocks, StartBlock(b) PROVE LedgerOK'
<1>1. /\ phase' = "evaluate" /\ block' = b /\ next' = 1 /\ due' = {} /\ waived' = 0 /\ clean' = FALSE
      /\ UNCHANGED <<balance, staking, escrowPool, multiSignPool, chain>>
  BY DEF StartBlock, ledgerVars, poolVars
<1>2. PICK k \in 0..MaxBlockTxs : b.txs \in [1..k -> Txs \ banned]
  BY DEF Blocks
<1>3. k \in Nat
  BY NumbersAssumption
<1>4. b.txs \in Seq(Txs) /\ Len(b.txs) = k
  BY <1>2, <1>3
<1>5. b.delegated \in DelegatedAddresses \cap 1..255 /\ b.operator \in Users /\ b.perc \in Int
  BY NumbersAssumption DEF Blocks
<1>6. BlockOK'
  <2>1. 1 \in 1..Len(b.txs) + 1
    BY <1>3, <1>4
  <2>2. /\ block'.txs \in Seq(Txs) /\ next' \in 1..Len(block'.txs) + 1
        /\ block'.delegated \in DelegatedAddresses \cap 1..255
        /\ block'.operator \in Users /\ block'.perc \in Int /\ ~clean'
    BY <1>1, <1>4, <1>5, <2>1, Zenon, SMTT(20)
  <2>3. phase' # "confirm" /\ waived' = 0
    BY <1>1
  <2> QED BY <2>2, <2>3, Zenon, SMTT(20) DEF BlockOK
<1>7. MoneyOK' /\ ChainOK(chain') /\ PoolsOK'
  BY <1>1 DEF LedgerOK, MoneyOK, PoolsOK
<1>8. Balanced' /\ AtLastBlock'
  BY <1>1 DEF Balanced, AtLastBlock
<1> QED BY <1>6, <1>7, <1>8 DEF LedgerOK

\* The genesis block adds up (genesis.go:373).
LEMMA InitOK == Init => LedgerOK
<1> SUFFICES ASSUME Init PROVE LedgerOK
  OBVIOUS
<1> DEFINE s == Snapshot(balance, known, delay, multiSign, staking,
                         Coins(balance, staking), 0, 0, << >>)
<1>1. /\ balance = GenesisBalance /\ staking = GenesisStaking /\ chain = <<s>>
      /\ escrowPool = {} /\ multiSignPool = {} /\ due = {} /\ waived = 0 /\ phase = "idle"
  BY DEF Init
<1>2. balance \in [Address -> Nat]
  BY <1>1, GenesisAssumption
<1>3. StakesOK(staking)
  <2>1. /\ staking \in [StakingKeys -> StakingAccountType]
        /\ \A k \in StakingKeys : staking[k].staked > 0 => staking[k].exists
    BY <1>1, GenesisAssumption
  <2>2. ASSUME NEW acc \in StakingAccountType
        PROVE  /\ DOMAIN acc = {"exists", "staked", "rewards", "locks", "operational", "details"}
               /\ acc.staked \in Nat /\ acc.rewards \in Nat
    BY DEF StakingAccountType
  <2> QED BY <2>1, <2>2 DEF StakesOK, StakeOK
<1>4. Coins(balance, staking) \in Nat /\ Coins(balance, staking) <= MaxTotalSupply
  BY <1>1, <1>2, <1>3, CoinsNat, SupplyAssumption
<1>5. /\ s.balance = balance /\ s.staking = staking /\ s.known = known /\ s.delay = delay
      /\ s.supply = Coins(balance, staking) /\ s.blockFee = 0 /\ s.waived = 0
  BY DEF Snapshot
<1> HIDE DEF s
<1>6. SnapshotOK(s)
  BY <1>2, <1>3, <1>4, <1>5 DEF SnapshotOK
<1>7. chain \in Seq({s}) /\ Len(chain) = 1 /\ chain[1] = s
  BY <1>1
<1>8. ChainOK(chain) /\ LastBlock = s
  BY <1>6, <1>7 DEF ChainOK, LastBlock
<1>9. MoneyOK /\ PoolsOK /\ BlockOK /\ Balanced
  BY <1>1, <1>2, <1>3 DEF MoneyOK, PoolsOK, BlockOK, Balanced, InBlock
<1>10. AtLastBlock
  BY <1>5, <1>8 DEF AtLastBlock
<1> QED BY <1>8, <1>9, <1>10 DEF LedgerOK

\* Nothing happens after a snapshot was misread.
LEMMA GarbledStays ==
  ASSUME phase = "garbled", [Next]_vars PROVE phase' = "garbled" /\ chain' = chain
<1>1. \A b \in Blocks : ~StartBlock(b) /\ ~RefuseBlock(b)
  BY Zenon, SMTT(20) DEF StartBlock, RefuseBlock
<1>2. ~EvaluateTx /\ ~EvaluateDex /\ ~EvaluateFails /\ ~CheckSupply /\ ~CheckFails
  BY Zenon, SMTT(20) DEF EvaluateTx, EvaluateDex, EvaluateFails, CheckSupply, CheckFails
<1>3. ~EscrowStops /\ \A tx \in due : ~EscrowTx(tx)
  BY Zenon, SMTT(20) DEF EscrowStops, EscrowTx, EscrowToMultiSign, EscrowExecutes, EscrowFails
<1>4. \A tx \in Txs : ~ProcessTx(tx)
  BY Zenon, SMTT(20) DEF ProcessTx, ProcessStake, ProcessUnstake, UnstakePanics, ProcessWithdraw,
                  ProcessIgnored, ProcessHold, ProcessTransfer, Processing
<1>5. ASSUME NEW tx \in Txs PROVE ~Confirm(tx)
  <2>1. ~Confirming(tx)
    BY DEF Confirming
  <2>2. ~ConfirmNothing(tx) /\ ~ConfirmExpired(tx)
    BY <2>1, Zenon, SMTT(20) DEF ConfirmNothing, ConfirmExpired
  <2>3. ASSUME NEW main, NEW slice
        PROVE  /\ ~ConfirmWaits(tx, main, slice) /\ ~ConfirmExecutes(tx, main, slice)
               /\ ~ConfirmFails(tx, main, slice)
    BY <2>1, Zenon, SMTT(20) DEF ConfirmWaits, ConfirmExecutes, ConfirmFails
  <2> QED BY <2>2, <2>3, Zenon, SMTT(20) DEF Confirm
<1>6. ~ProcessFails /\ ~FinishBlock /\ ~FinishFails
  BY Zenon, SMTT(20) DEF ProcessFails, FinishBlock, FinishFails
<1>7. \A h \in 0..Len(chain) - 1 : ~Rollback(h)
  BY Zenon, SMTT(20) DEF Rollback
<1>8. Garbled \/ UNCHANGED vars
  BY <1>1, <1>2, <1>3, <1>4, <1>5, <1>6, <1>7, Zenon, SMTT(20) DEF Next
<1> QED BY <1>8 DEF Garbled, vars, chainVars, blockVars

\* Every step of the node keeps the invariant, as long as it reads what it wrote.
LEMMA StepKeeps == ASSUME LedgerOK, [Next]_vars PROVE LedgerInv'
<1>0. LedgerOK' => LedgerInv'
  BY DEF LedgerOK, LedgerInv
<1>1. CASE UNCHANGED vars \/ Garbled
  <2>1. UNCHANGED <<balance, known, delay, staking, escrowPool, multiSignPool, chain, clean,
                    phase, block, next, due, waived>>
    BY <1>1 DEF Garbled, vars, ledgerVars, poolVars, chainVars, blockVars
  <2>2. MoneyOK' /\ ChainOK(chain') /\ PoolsOK'
    BY <2>1 DEF LedgerOK, MoneyOK, PoolsOK
  <2>3. BlockOK'
    BY <2>1 DEF LedgerOK, BlockOK, InBlock
  <2>4. Balanced'
    BY <2>1 DEF LedgerOK, Balanced, Fees, Processed, LastBlock
  <2>5. AtLastBlock'
    BY <2>1 DEF LedgerOK, AtLastBlock, LastBlock
  <2> QED BY <1>0, <2>2, <2>3, <2>4, <2>5 DEF LedgerOK
<1>2. ASSUME NEW b \in Blocks, StartBlock(b) PROVE LedgerInv'
  BY <1>0, <1>2, StartKeeps
<1>3. ASSUME NEW b \in Blocks, RefuseBlock(b) PROVE LedgerInv'
  BY <1>3, FailKeeps DEF RefuseBlock
<1>4. CASE EvaluateTx \/ EvaluateDex
  BY <1>0, <1>4, EvaluateKeeps
<1>5. CASE EvaluateFails \/ CheckFails
  BY <1>5, FailKeeps DEF EvaluateFails, CheckFails
<1>6. CASE CheckSupply
  BY <1>0, <1>6, CheckSupplyKeeps
<1>7. CASE EscrowStops \/ \E tx \in due : EscrowTx(tx)
  BY <1>0, <1>7, EscrowKeeps
<1>8. ASSUME NEW tx \in Txs, ProcessTx(tx) PROVE LedgerInv'
  BY <1>0, <1>8, ProcessStakeKeeps, ProcessUnstakeKeeps, UnstakePanicsKeeps, ProcessWithdrawKeeps,
     ProcessIgnoredKeeps, ProcessHoldKeeps, ProcessTransferKeeps DEF ProcessTx
<1>9. ASSUME NEW tx \in Txs, Confirm(tx) PROVE LedgerInv'
  BY <1>9, ConfirmKeeps, SMTT(20), Zenon
<1>10. CASE ProcessFails \/ FinishFails
  BY <1>10, FailKeeps DEF ProcessFails, FinishFails
<1>11. CASE FinishBlock
  BY <1>0, <1>11, FinishKeeps
<1>12. ASSUME NEW h \in 0..Len(chain) - 1, Rollback(h) PROVE LedgerInv'
  <2>1. Reset(h) /\ UNCHANGED <<escrowPool, multiSignPool>>
    BY <1>12 DEF Rollback, poolVars
  <2>2. (\A tx \in escrowPool' : Held(tx)) /\ (\A p \in multiSignPool' : Held(p.tx))
    BY <2>1 DEF LedgerOK, PoolsOK
  <2> QED BY <2>1, <2>2, ResetKeeps
<1> QED
  BY <1>1, <1>2, <1>3, <1>4, <1>5, <1>6, <1>7, <1>8, <1>9, <1>10, <1>11, <1>12 DEF Next

\* Every step keeps it.
LEMMA NextKeeps == LedgerInv /\ [Next]_vars => LedgerInv'
<1> SUFFICES ASSUME LedgerInv, [Next]_vars PROVE LedgerInv'
  OBVIOUS
<1>1. CASE phase = "garbled"
  BY <1>1, GarbledStays DEF LedgerInv
<1>2. CASE LedgerOK
  BY <1>2, StepKeeps
<1> QED BY <1>1, <1>2 DEF LedgerInv

\* The invariant holds in every reachable state.
LEMMA LedgerInvariant == Spec => []LedgerInv
<1>1. Init => LedgerInv
  BY InitOK DEF LedgerOK, LedgerInv
<1>2. LedgerInv /\ [Next]_vars => LedgerInv'
  BY NextKeeps
<1> QED BY <1>1, <1>2, PTL DEF Spec

-----------------------------------------------------------------------------
\* SupplyAccounted: the coins and the fees of a node that applied any blocks, with
\* any failures and rollbacks in between, add up to the declared supply and the
\* fees that were waived (CheckBlockAndTransferFunds, ResetAccountsAndBlocksSync).
THEOREM SupplyIsAccounted == Spec => []SupplyAccounted
<1>1. LedgerInv => SupplyAccounted
  BY LastOK DEF LedgerInv, LedgerOK, AtLastBlock, SupplyAccounted, SnapshotOK
<1> QED BY <1>1, LedgerInvariant, PTL

\* StoredAddsUp: whatever a panic or a misread snapshot left in memory, the
\* balances stored with every block add up (CheckBlockAndTransferFunds).
THEOREM StoredBlocksAddUp == Spec => []StoredAddsUp
<1>1. LedgerInv => StoredAddsUp
  <2> SUFFICES ASSUME ChainOK(chain) PROVE StoredAddsUp
    BY DEF LedgerInv
  <2>1. PICK S : chain \in Seq(S)
    BY DEF ChainOK
  <2>2. DOMAIN chain = 1..Len(chain)
    BY <2>1, LenProperties
  <2> QED BY <2>2 DEF ChainOK, SnapshotOK, StoredAddsUp
<1> QED BY <1>1, LedgerInvariant, PTL

\* SupplyBounded: no chain mints more than MaxTotalSupply (GetReward).
THEOREM SupplyIsBounded == Spec => []SupplyBounded
<1>1. LedgerInv => SupplyBounded
  BY LastOK DEF LedgerInv, SupplyBounded, SnapshotOK
<1> QED BY <1>1, LedgerInvariant, PTL

\* RestNonNegative: the shares of a reward never exceed it, so that the error of
\* ProcessBlockTransfers at processBlock.go:333 cannot occur.
THEOREM RestIsNonNegative == Spec => []RestNonNegative
<1>1. LedgerInv => RestNonNegative
  <2> SUFFICES ASSUME LedgerOK, phase = "transactions", StakedIn(block.delegated) > 0,
                      block.perc <= 1000, OperatorReward >= 0
               PROVE  Rest >= 0
    BY DEF RestNonNegative, LedgerInv
  <2>1. /\ StakesOK(staking) /\ ChainOK(chain) /\ block.perc \in Int
        /\ block.delegated \in DelegatedAddresses \cap 1..255
    BY DEF LedgerOK, MoneyOK, BlockOK, InBlock
  <2>2. Rest \in Nat
    BY <2>1, SharesBounded
  <2> QED BY <2>2
<1> QED BY <1>1, LedgerInvariant, PTL

\* As long as no snapshot is misread no account is overdrawn, in the middle of a
\* block or after one, also of what a panic left half done: not by
\* ProcessTransaction, which takes amount and fee in two steps, nor by payments
\* that were checked long before they leave the escrow or multi-signature pool.
NoOverdraft ==
  phase # "garbled" =>
    /\ \A a \in Address : balance[a] >= 0
    /\ \A k \in StakingKeys : staking[k].staked >= 0 /\ staking[k].rewards >= 0

\* NoOverdraft holds whatever the pools and the blocks hold.
THEOREM NeverOverdrawn == Spec => []NoOverdraft
<1>1. LedgerInv => NoOverdraft
  BY DEF LedgerInv, LedgerOK, MoneyOK, StakesOK, StakeOK, NoOverdraft
<1> QED BY <1>1, LedgerInvariant, PTL

-----------------------------------------------------------------------------
(***************************************************************************)
(* Transactions: one block of the chain each, and none of the banned ones  *)
(* in a pool.                                                              *)
(***************************************************************************)

\* A block of the chain holds this transaction.
InChain(c, tx) == \E i \in DOMAIN c : \E k \in DOMAIN c[i].txs : c[i].txs[k] = tx

\* What is in the chain is in the database or, once a failed payment took it out
\* of there, banned; and a block that is being processed is of neither.
HistoryOK ==
  /\ \A i \in DOMAIN chain : \A k \in DOMAIN chain[i].txs :
       chain[i].txs[k] \in transactionDB \cup banned
  /\ InBlock => \A j \in DOMAIN block.txs : ~InChain(chain, block.txs[j])
  /\ OnceInChain

\* Steps in the middle of a block: what leaves the database is banned.
LEMMA HistoryStays ==
  ASSUME HistoryOK, chain' = chain, InBlock' => InBlock /\ block' = block,
         transactionDB \cup banned \subseteq transactionDB' \cup banned'
  PROVE  HistoryOK'
<1>1. OnceInChain'
  BY DEF HistoryOK, OnceInChain
<1>2. \A i \in DOMAIN chain' : \A k \in DOMAIN chain'[i].txs :
        chain'[i].txs[k] \in transactionDB' \cup banned'
  BY DEF HistoryOK
<1>3. InBlock' => \A j \in DOMAIN block'.txs : ~InChain(chain', block'.txs[j])
  BY DEF HistoryOK
<1> QED BY <1>1, <1>2, <1>3 DEF HistoryOK

\* The blocks after a reset are blocks of before.
LEMMA ResetCuts ==
  ASSUME ChainOK(chain), NEW h \in 0..Len(chain) - 1, Reset(h)
  PROVE  /\ DOMAIN chain' \subseteq DOMAIN chain /\ Len(chain') \in Nat
         /\ DOMAIN chain' = 1..Len(chain') /\ DOMAIN chain = 1..Len(chain)
         /\ \A i \in DOMAIN chain' : chain'[i] = chain[i]
<1> DEFINE c == SubSeq(chain, 1, h + 1)
           S == {chain[i] : i \in 1..h + 1}
<1>1. Len(chain) \in Nat /\ DOMAIN chain = 1..Len(chain)
  BY LastOK, LenProperties DEF ChainOK
<1>2. \A i \in 1..h + 1 : chain[i] \in S
  OBVIOUS
<1> HIDE DEF S
<1>3. /\ c \in Seq(S) /\ Len(c) = h + 1
      /\ \A i \in 1..h + 1 : c[i] = chain[i]
  BY <1>1, <1>2, SubSeqProperties
<1>4. chain' = chain \/ chain' = c
  BY Zenon, SMTT(20) DEF Reset
<1> HIDE DEF c
<1>5. DOMAIN c = 1..h + 1 /\ \A i \in 1..h + 1 : i \in 1..Len(chain)
  BY <1>1, <1>3, LenProperties
<1>6. CASE chain' = chain
  BY <1>1, <1>6
<1>7. CASE chain' = c
  BY <1>1, <1>3, <1>5, <1>7
<1> QED BY <1>4, <1>6, <1>7

\* A shorter chain, after a block that failed or a rollback.
LEMMA HistoryReset ==
  ASSUME ChainOK(chain), HistoryOK, NEW h \in 0..Len(chain) - 1, Reset(h),
         transactionDB \cup banned \subseteq transactionDB' \cup banned'
  PROVE  HistoryOK'
<1>2. ~InBlock'
  BY DEF Reset, InBlock
<1>3. /\ DOMAIN chain' \subseteq DOMAIN chain
      /\ \A i \in DOMAIN chain' : chain'[i] = chain[i]
  BY ResetCuts
<1>5. OnceInChain'
  BY <1>3, SMTT(20), Zenon DEF HistoryOK, OnceInChain
<1>6. \A i \in DOMAIN chain' : \A k \in DOMAIN chain'[i].txs :
        chain'[i].txs[k] \in transactionDB' \cup banned'
  BY <1>3 DEF HistoryOK
<1> QED BY <1>2, <1>5, <1>6 DEF HistoryOK

\* A block fails.
LEMMA HistoryFails ==
  ASSUME ChainOK(chain), HistoryOK, NEW bad, NEW pool, FailBlock(bad, pool)
  PROVE  HistoryOK'
<1>1. Len(chain) - 1 \in 0..Len(chain) - 1
  BY LastOK
<1>2. Reset(Len(chain) - 1)
  BY DEF FailBlock
<1>3. transactionDB \cup banned \subseteq transactionDB' \cup banned'
  BY DEF FailBlock
<1> QED BY <1>1, <1>2, <1>3, HistoryReset

\* CheckBlockTransfers lets a block through: its transactions are in the database
\* no more than they are banned, so none is in the chain.
LEMMA HistoryStarts ==
  ASSUME HistoryOK, NEW b \in Blocks, StartBlock(b)
  PROVE  HistoryOK'
<1>1. /\ block' = b /\ chain' = chain /\ transactionDB' = transactionDB /\ banned' = banned
      /\ Failing(b.txs) = {}
  BY DEF StartBlock, poolVars
<1>2. \A j \in DOMAIN b.txs : b.txs[j] \notin banned
  BY DEF Blocks
<1>3. \A j \in DOMAIN b.txs : b.txs[j] \notin transactionDB
  BY <1>1 DEF Failing, RefusedInBlock
<1>4. \A j \in DOMAIN b.txs : ~InChain(chain, b.txs[j])
  BY <1>2, <1>3 DEF HistoryOK, InChain
<1>5. OnceInChain'
  BY <1>1 DEF HistoryOK, OnceInChain
<1> QED BY <1>1, <1>2, <1>4, <1>5 DEF HistoryOK

\* The block joins the chain.
LEMMA HistoryFinishes ==
  ASSUME ChainOK(chain), HistoryOK, FinishBlock
  PROVE  HistoryOK'
<1> DEFINE n == Len(chain)
           s == chain'[n + 1]
<1>1. n \in Nat /\ DOMAIN chain = 1..n
  BY LastOK, LenProperties DEF ChainOK
<1>2. /\ DOMAIN chain' = 1..n + 1 /\ s.txs = block.txs
      /\ \A i \in 1..n : chain'[i] = chain[i]
  <2> DEFINE new == Snapshot(balance, known, delay, multiSign, staking',
                             LastBlock.supply + BlockReward, BlockFee, waived, block.txs)
  <2>1. chain' = Append(chain, new)
    BY DEF FinishBlock
  <2>2. new.txs = block.txs
    BY DEF Snapshot
  <2> HIDE DEF new
  <2>3. PICK S : chain \in Seq(S)
    BY DEF ChainOK
  <2>4. chain \in Seq(S \cup {new})
    BY <2>3, SMTT(20), Zenon
  <2> QED BY <2>1, <2>2, <2>4, <1>1, AppendProperties, SMTT(20), Zenon
<1>3. InBlock /\ ~InBlock'
  BY DEF FinishBlock, InBlock
<1>4. \A j \in DOMAIN block.txs : ~InChain(chain, block.txs[j])
  BY <1>3 DEF HistoryOK
<1>5. /\ transactionDB' = transactionDB \cup {block.txs[i] : i \in DOMAIN block.txs}
      /\ banned' = banned
  BY DEF FinishBlock, poolVars
<1> HIDE DEF s, n
<1>6. \A i \in 1..n + 1 : i \in 1..n \/ i = n + 1
  BY <1>1
<1>7. \A i \in 1..n + 1 : \A k \in DOMAIN chain'[i].txs :
        chain'[i].txs[k] \in transactionDB' \cup banned'
  BY <1>1, <1>2, <1>5, <1>6 DEF HistoryOK, s
<1>8. ASSUME NEW i \in 1..n + 1, NEW j \in 1..n + 1,
             NEW k \in DOMAIN chain'[i].txs, NEW l \in DOMAIN chain'[j].txs,
             chain'[i].txs[k] = chain'[j].txs[l]
      PROVE  i = j
  <2>1. CASE i \in 1..n /\ j \in 1..n
    BY <1>1, <1>2, <1>8, <2>1, SMTT(20), Zenon DEF HistoryOK, OnceInChain
  <2>2. CASE i = n + 1 /\ j = n + 1
    BY <2>2
  <2>3. CASE i \in 1..n /\ j = n + 1
    BY <1>1, <1>2, <1>4, <1>8, <2>3 DEF InChain, s
  <2>4. CASE i = n + 1 /\ j \in 1..n
    BY <1>1, <1>2, <1>4, <1>8, <2>4 DEF InChain, s
  <2> QED BY <1>6, <2>1, <2>2, <2>3, <2>4, SMTT(20), Zenon
<1>9. OnceInChain'
  BY <1>2, <1>8 DEF OnceInChain
<1> QED BY <1>2, <1>3, <1>7, <1>9 DEF HistoryOK

\* Every step of the node keeps it.
LEMMA HistoryStep ==
  ASSUME ChainOK(chain), HistoryOK, [Next]_vars
  PROVE  HistoryOK'
<1>1. CASE UNCHANGED vars \/ Garbled
  BY <1>1, HistoryStays
     DEF Garbled, vars, poolVars, chainVars, blockVars, InBlock
<1>2. ASSUME NEW b \in Blocks, StartBlock(b) PROVE HistoryOK'
  BY <1>2, HistoryStarts
<1>3. ASSUME NEW b \in Blocks, RefuseBlock(b) PROVE HistoryOK'
  BY <1>3, HistoryFails, SMTT(20), Zenon DEF RefuseBlock
<1>4. CASE EvaluateTx \/ EvaluateDex \/ CheckSupply \/ EscrowStops
  BY <1>4, HistoryStays
     DEF EvaluateTx, EvaluateDex, CheckSupply, EscrowStops, poolVars, chainVars, InBlock
<1>5. CASE EvaluateFails \/ CheckFails \/ ProcessFails \/ FinishFails
  BY <1>5, HistoryFails, Zenon, SMTT(20) DEF EvaluateFails, CheckFails, ProcessFails, FinishFails
<1>6. ASSUME NEW tx \in due, EscrowTx(tx) PROVE HistoryOK'
  <2>1. CASE EscrowToMultiSign(tx) \/ EscrowExecutes(tx)
    BY <2>1, HistoryStays, ZenonT(40), SMTT(20) DEF EscrowToMultiSign, EscrowExecutes, chainVars, InBlock
  <2>2. CASE EscrowFails(tx)
    <3>1. transactionDB \cup banned \subseteq transactionDB' \cup banned'
      BY <2>2, Zenon, SMTT(20) DEF EscrowFails
    <3> QED BY <2>2, <3>1, HistoryStays DEF EscrowFails, InBlock
  <2> QED BY <1>6, <2>1, <2>2, SMTT(20), Zenon DEF EscrowTx
<1>7. ASSUME NEW tx \in Txs, ProcessTx(tx) PROVE HistoryOK'
  <2>1. CASE UnstakePanics(tx)
    BY <2>1, HistoryStays, SMTT(20), Zenon DEF UnstakePanics, poolVars, chainVars, InBlock
  <2>2. CASE Processing(tx) /\ Done(tx)
    BY <2>2, HistoryStays DEF Processing, Done, chainVars, InBlock
  <2>3. UnstakePanics(tx) \/ (Processing(tx) /\ Done(tx))
    BY <1>7, Zenon, SMTT(20) DEF ProcessTx, ProcessStake, ProcessUnstake, ProcessWithdraw, ProcessIgnored,
                ProcessHold, ProcessTransfer
  <2> QED BY <2>1, <2>2, <2>3
<1>8. ASSUME NEW tx \in Txs, Confirm(tx) PROVE HistoryOK'
  <2>1. CASE ConfirmNothing(tx)
    BY <2>1, HistoryStays, Zenon, SMTT(20) DEF ConfirmNothing, Confirming, poolVars, chainVars, InBlock
  <2>2. CASE ConfirmExpired(tx)
    BY <2>2, HistoryFails, SMTT(20), Zenon DEF ConfirmExpired
  <2>3. ASSUME NEW main, NEW slice, ConfirmWaits(tx, main, slice) PROVE HistoryOK'
    BY <2>3, HistoryStays, SMTT(20), Zenon DEF ConfirmWaits, Confirming, poolVars, chainVars, InBlock
  <2>4. ASSUME NEW main, NEW slice, ConfirmExecutes(tx, main, slice) PROVE HistoryOK'
    BY <2>4, HistoryStays, SMTT(20), Zenon DEF ConfirmExecutes, Confirming, chainVars, InBlock
  <2>5. ASSUME NEW main, NEW slice, ConfirmFails(tx, main, slice) PROVE HistoryOK'
    BY <2>5, HistoryFails DEF ConfirmFails
  <2> QED BY <1>8, <2>1, <2>2, <2>3, <2>4, <2>5 DEF Confirm
<1>9. CASE FinishBlock
  BY <1>9, HistoryFinishes
<1>10. ASSUME NEW h \in 0..Len(chain) - 1, Rollback(h) PROVE HistoryOK'
  BY <1>10, HistoryReset DEF Rollback, poolVars
<1> QED
  BY <1>1, <1>2, <1>3, <1>4, <1>5, <1>6, <1>7, <1>8, <1>9, <1>10 DEF Next

\* OnceInChain: whatever fails, is rolled back or is taken out of the database by
\* a payment that failed, no transaction is in two blocks of the chain
\* (CheckBlockTransfers, RemoveBadTransactionByHash).
THEOREM TransactionsOnceInChain == Spec => []OnceInChain
<1>1. Init => HistoryOK
  <2> SUFFICES ASSUME Init PROVE HistoryOK
    OBVIOUS
  <2>1. PICK s : chain = <<s>> /\ s.txs = << >>
    BY DEF Init, Snapshot
  <2>2. DOMAIN chain = {1} /\ DOMAIN chain[1].txs = {}
    BY <2>1
  <2>3. ~InBlock
    BY DEF Init, InBlock
  <2> QED BY <2>2, <2>3, SMTT(20), Zenon DEF HistoryOK, OnceInChain
<1>2. LedgerInv /\ HistoryOK /\ [Next]_vars => HistoryOK'
  BY HistoryStep DEF LedgerInv
<1>3. HistoryOK => OnceInChain
  BY DEF HistoryOK
<1> QED BY <1>1, <1>2, <1>3, LedgerInvariant, PTL DEF Spec

\* A block that fails bans a transaction and takes it out of the pools.
LEMMA BannedFails ==
  ASSUME BannedStaysOut, NEW bad, NEW pool, pool \subseteq multiSignPool, FailBlock(bad, pool)
  PROVE  BannedStaysOut'
BY SMTT(20), Zenon DEF BannedStaysOut, FailBlock

\* A transaction goes to a pool unless it is banned.
LEMMA BannedHolds ==
  ASSUME BannedStaysOut, NEW tx, NEW main, banned' = banned,
         escrowPool' \subseteq escrowPool \/ (escrowPool' = escrowPool \cup {tx} /\ tx \notin banned),
         multiSignPool' \subseteq multiSignPool
           \/ multiSignPool' = AddTransaction(multiSignPool, [tx |-> tx, main |-> main])
  PROVE  BannedStaysOut'
<1>1. ASSUME NEW p \in multiSignPool' PROVE p \in multiSignPool \/ (p.tx = tx /\ tx \notin banned)
  BY <1>1 DEF AddTransaction
<1> QED BY <1>1 DEF BannedStaysOut

\* BannedStaysOut: what a failed payment or a refused block banned is in no pool
\* again, whatever the pools held when it was banned (AddTransaction,
\* RemoveBadTransactionByHash).
THEOREM BannedNeverReturns == Spec => []BannedStaysOut
<1>1. Init => BannedStaysOut
  BY DEF Init, BannedStaysOut
<1>2. BannedStaysOut /\ [Next]_vars => BannedStaysOut'
  <2> SUFFICES ASSUME BannedStaysOut, [Next]_vars PROVE BannedStaysOut'
    OBVIOUS
  <2>1. CASE UNCHANGED poolVars
    BY <2>1 DEF BannedStaysOut, poolVars
  <2>2. ASSUME NEW b \in Blocks, StartBlock(b) \/ RefuseBlock(b) PROVE BannedStaysOut'
    BY <2>1, <2>2, BannedFails, SMTT(20), Zenon DEF StartBlock, RefuseBlock
  <2>3. CASE EvaluateTx \/ EvaluateDex \/ CheckSupply \/ EscrowStops \/ FinishBlock
    BY <2>1, <2>3 DEF EvaluateTx, EvaluateDex, CheckSupply, EscrowStops, FinishBlock
  <2>4. CASE EvaluateFails \/ CheckFails \/ ProcessFails \/ FinishFails
    BY <2>4, BannedFails, Zenon, SMTT(20) DEF EvaluateFails, CheckFails, ProcessFails, FinishFails
  <2>5. ASSUME NEW tx \in due, EscrowTx(tx) PROVE BannedStaysOut'
    <3>1. CASE EscrowToMultiSign(tx)
      <4>1. /\ banned' = banned /\ escrowPool' \subseteq escrowPool
            /\ multiSignPool' = AddTransaction(multiSignPool, [tx |-> tx, main |-> tx.id])
        BY <3>1 DEF EscrowToMultiSign
      <4> QED BY <4>1, BannedHolds, SMTT(20), Zenon
    <3>2. CASE EscrowExecutes(tx)
      <4>1. banned' = banned /\ escrowPool' \subseteq escrowPool /\ multiSignPool' = multiSignPool
        BY <3>2, Zenon, SMTT(20) DEF EscrowExecutes
      <4> QED BY <4>1, SMTT(20), Zenon DEF BannedStaysOut
    <3>3. CASE EscrowFails(tx)
      BY <3>3, Zenon, SMTT(20) DEF EscrowFails, BannedStaysOut
    <3> QED BY <2>5, <3>1, <3>2, <3>3 DEF EscrowTx
  <2>6. ASSUME NEW tx \in Txs, ProcessTx(tx) PROVE BannedStaysOut'
    <3>1. CASE UnstakePanics(tx)
      BY <2>1, <3>1 DEF UnstakePanics
    <3>2. CASE ProcessStake(tx) \/ ProcessUnstake(tx) \/ ProcessWithdraw(tx) \/ ProcessIgnored(tx)
      <4>1. UNCHANGED <<escrowPool, multiSignPool, banned>>
        BY <3>2, ZenonT(40), SMTT(20) DEF ProcessStake, ProcessUnstake, ProcessWithdraw, ProcessIgnored, Done
      <4> QED BY <2>1, <4>1 DEF poolVars
    <3>3. CASE ProcessHold(tx)
      <4>1. /\ banned' = banned
            /\ escrowPool' = escrowPool \/ (escrowPool' = escrowPool \cup {tx} /\ tx \notin banned)
            /\ \/ multiSignPool' = multiSignPool
               \/ multiSignPool' = AddTransaction(multiSignPool, [tx |-> tx, main |-> tx.id])
        BY <3>3, SMTT(20), Zenon DEF ProcessHold, Done
      <4> QED BY <4>1, BannedHolds, SMTT(20), Zenon
    <3>4. CASE ProcessTransfer(tx)
      <4>1. /\ banned' = banned /\ escrowPool' = escrowPool
            /\ \/ multiSignPool' = multiSignPool
               \/ multiSignPool' = AddTransaction(multiSignPool, [tx |-> tx, main |-> tx.confirms])
        BY <3>4 DEF ProcessTransfer, Done
      <4> QED BY <4>1, BannedHolds, SMTT(20), Zenon
    <3> QED BY <2>6, <3>1, <3>2, <3>3, <3>4 DEF ProcessTx
  <2>7. ASSUME NEW tx \in Txs, Confirm(tx) PROVE BannedStaysOut'
    <3>1. CASE ConfirmNothing(tx)
      BY <2>1, <3>1 DEF ConfirmNothing
    <3>2. CASE ConfirmExpired(tx)
      BY <3>2, BannedFails, SMTT(20), Zenon DEF ConfirmExpired
    <3>3. ASSUME NEW main, NEW slice, ConfirmWaits(tx, main, slice) PROVE BannedStaysOut'
      BY <2>1, <3>3, SMTT(20), Zenon DEF ConfirmWaits
    <3>4. ASSUME NEW main, NEW slice, ConfirmExecutes(tx, main, slice) PROVE BannedStaysOut'
      BY <3>4, SMTT(20), Zenon DEF ConfirmExecutes, BannedStaysOut
    <3>5. ASSUME NEW main, NEW slice, ConfirmFails(tx, main, slice) PROVE BannedStaysOut'
      BY <3>5, BannedFails DEF ConfirmFails
    <3> QED BY <2>7, <3>1, <3>2, <3>3, <3>4, <3>5 DEF Confirm
  <2>8. ASSUME NEW h \in 0..Len(chain) - 1, Rollback(h) PROVE BannedStaysOut'
    BY <2>1, <2>8 DEF Rollback
  <2>9. CASE Garbled \/ UNCHANGED vars
    BY <2>1, <2>9 DEF Garbled, vars
  <2> QED BY <2>2, <2>3, <2>4, <2>5, <2>6, <2>7, <2>8, <2>9 DEF Next
<1> QED BY <1>1, <1>2, PTL DEF Spec

-----------------------------------------------------------------------------
(***************************************************************************)
(* Multi-signature payments: every approval that is counted is another     *)
(* confirmation in the pool, of an owner of the account.                   *)
(***************************************************************************)

\* The slices of ProcessTransactionsMultiSign, after each of the transactions.
First(main) ==
  LET addrs == multiSign[main.sender].addrs
  IN  [array |-> addrs, from |-> 0, len |-> Len(addrs), count |-> 0]
IsSlices(g, order, main, n) ==
  g = [k \in 0..n |-> IF k = 0 THEN First(main) ELSE Approve(g[k - 1], order[k].tx, main)]

\* There are such slices, for any number of transactions.
LEMMA SlicesExist ==
  ASSUME NEW order, NEW main, NEW n \in Nat
  PROVE  \E g : IsSlices(g, order, main, n)
<1> DEFINE A(s, k) == Approve(s, order[k].tx, main)
           F0 == First(main)
           Is(g, k) == g = [i \in 0..k |-> IF i = 0 THEN F0 ELSE A(g[i - 1], i)]
           Has(k) == \E g : Is(g, k)
           S == {k \in 1..n : ~Has(k)}
<1> HIDE DEF A, F0
<1>1. Has(0)
  <2> DEFINE g == [i \in 0..0 |-> F0]
  <2>1. Is(g, 0)
    OBVIOUS
  <2> QED BY <2>1
<1>2. ASSUME NEW k \in 1..n, Has(k - 1) PROVE Has(k)
  <2>1. PICK g : Is(g, k - 1)
    BY <1>2
  <2> DEFINE h == [i \in 0..k |-> IF i = k THEN A(g[k - 1], k) ELSE g[i]]
  <2>2. ASSUME NEW i \in 0..k PROVE h[i] = IF i = 0 THEN F0 ELSE A(h[i - 1], i)
    <3>1. CASE i = 0
      <4>1. h[0] = g[0]
        BY <3>1
      <4>2. g[0] = F0
        BY <2>1
      <4> QED BY <3>1, <4>1, <4>2
    <3>2. CASE i = k
      <4>1. h[k] = A(g[k - 1], k) /\ h[k - 1] = g[k - 1]
        OBVIOUS
      <4> QED BY <3>2, <4>1
    <3>3. CASE i # 0 /\ i # k
      <4>1. i \in 0..k - 1 /\ i - 1 \in 0..k /\ i - 1 # k
        BY <3>3
      <4>2. h[i] = g[i] /\ h[i - 1] = g[i - 1]
        BY <3>3, <4>1
      <4>3. g[i] = A(g[i - 1], i)
        BY <2>1, <3>3, <4>1
      <4> QED BY <3>3, <4>2, <4>3
    <3> QED BY <3>1, <3>2, <3>3
  <2>3. Is(h, k)
    BY <2>2
  <2> QED BY <2>3
<1> HIDE DEF Has
<1>3. S = {}
  <2> SUFFICES ASSUME S # {} PROVE FALSE
    OBVIOUS
  <2>1. PICK k \in S : \A j \in S : k <= j
    <3>1. S \subseteq 1..n
      OBVIOUS
    <3> HIDE DEF S
    <3> QED BY <3>1, LeastPosition
  <2>2. k - 1 \in 0..n /\ k - 1 \notin S
    BY <2>1
  <2>3. Has(k - 1)
    BY <1>1, <2>2
  <2> QED BY <1>2, <2>3
<1>4. Has(n)
  BY <1>1, <1>3
<1> QED BY <1>4 DEF Has, A, F0, IsSlices

\* Approvals is the last of them.
LEMMA ApprovalsSlices ==
  ASSUME NEW order, NEW main, Len(order) \in Nat
  PROVE  \E g : IsSlices(g, order, main, Len(order)) /\ Approvals(order, main) = g[Len(order)]
<1> DEFINE G == CHOOSE g : IsSlices(g, order, main, Len(order))
<1>1. IsSlices(G, order, main, Len(order))
  BY SlicesExist
<1>2. Approvals(order, main) = G[Len(order)]
  BY DEF Approvals, IsSlices, First
<1> QED BY <1>1, <1>2

\* A slice of an array of L owners.
SliceOK(s, L, owners) ==
  /\ DOMAIN s = {"array", "from", "len", "count"}
  /\ s.array \in [1..L -> owners]
  /\ s.from \in Nat /\ s.len \in Nat /\ s.count \in Nat /\ s.from + s.len <= L

\* A slice after a confirmation: one more is counted only if an owner confirms.
WithApproval(r, s, tx, main, L, owners) ==
  /\ SliceOK(r, L, owners)
  /\ \/ r.count = s.count
     \/ /\ r.count = s.count + 1
        /\ tx.sender \in owners /\ tx.recipient = main.recipient /\ tx.amount = 0

\* A transaction is counted once, and only if it confirms the payment for an owner.
LEMMA ApproveStep ==
  ASSUME NEW s, NEW L \in Nat, NEW owners, SliceOK(s, L, owners), NEW tx, NEW main
  PROVE  WithApproval(Approve(s, tx, main), s, tx, main, L, owners)
<1> USE DEF WithApproval
<1> DEFINE hits == {i \in 1..s.len : /\ s.array[s.from + i] = tx.sender
                                     /\ tx.recipient = main.recipient
                                     /\ tx.amount = 0}
           cut == s.from + Min(hits)
           moved == [i \in DOMAIN s.array |->
                       IF cut <= i /\ i < s.from + s.len THEN s.array[i + 1] ELSE s.array[i]]
           r1 == [s EXCEPT !.from = @ + 1, !.len = @ - 1, !.count = @ + 1]
           r2 == [s EXCEPT !.array = moved, !.len = @ - 1, !.count = @ + 1]
           r == Approve(s, tx, main)
<1>1. r = IF hits = {} THEN s ELSE IF Min(hits) = 1 THEN r1 ELSE r2
  BY DEF Approve
<1>2. ASSUME hits # {}
      PROVE  /\ s.len >= 1 /\ tx.sender \in owners
             /\ tx.recipient = main.recipient /\ tx.amount = 0
  <2>1. PICK i \in 1..s.len : /\ s.array[s.from + i] = tx.sender
                              /\ tx.recipient = main.recipient /\ tx.amount = 0
    BY <1>2
  <2>2. s.from + i \in 1..L /\ s.len >= 1
    BY DEF SliceOK
  <2>3. s.array[s.from + i] \in owners
    BY <2>2 DEF SliceOK
  <2> QED BY <2>1, <2>2, <2>3
<1>3. moved \in [1..L -> owners]
  <2>1. DOMAIN s.array = 1..L
    BY DEF SliceOK
  <2>2. ASSUME NEW i \in 1..L PROVE moved[i] \in owners
    <3>1. s.array[i] \in owners
      BY DEF SliceOK
    <3>2. i < s.from + s.len => s.array[i + 1] \in owners
      <4>1. i < s.from + s.len => i + 1 \in 1..L
        BY DEF SliceOK
      <4> QED BY <4>1 DEF SliceOK
    <3> HIDE DEF cut
    <3> QED BY <2>1, <3>1, <3>2
  <2> HIDE DEF cut
  <2> QED BY <2>1, <2>2
<1> HIDE DEF moved, hits
<1>4. CASE hits = {}
  BY <1>1, <1>4, SMTT(20), Zenon
<1>5. CASE hits # {} /\ r = r1
  <2>1. /\ DOMAIN r1 = {"array", "from", "len", "count"} /\ r1.array = s.array
        /\ r1.from = s.from + 1 /\ r1.len = s.len - 1 /\ r1.count = s.count + 1
    BY SMTT(20), Zenon DEF SliceOK
  <2>2. SliceOK(r1, L, owners)
    <3> HIDE DEF r1
    <3> QED BY <1>2, <1>5, <2>1, SMTT(20), Zenon DEF SliceOK
  <2> HIDE DEF r1, r
  <2> QED BY <1>2, <1>5, <2>1, <2>2 DEF r
<1>6. CASE hits # {} /\ r = r2
  <2>1. /\ DOMAIN r2 = {"array", "from", "len", "count"} /\ r2.array = moved
        /\ r2.from = s.from /\ r2.len = s.len - 1 /\ r2.count = s.count + 1
    BY SMTT(20), Zenon DEF SliceOK
  <2>2. SliceOK(r2, L, owners)
    <3> HIDE DEF r2
    <3> QED BY <1>2, <1>3, <1>6, <2>1 DEF SliceOK
  <2> HIDE DEF r2, r
  <2> QED BY <1>2, <1>6, <2>1, <2>2 DEF r
<1> QED BY <1>1, <1>4, <1>5, <1>6

\* The confirmations of a payment are finitely many.
LEMMA ConfirmationsFinite ==
  ASSUME IsFiniteSet(multiSignPool), NEW main
  PROVE  IsFiniteSet(Confirmations(main))
<1> DEFINE Q == {q \in multiSignPool : /\ q.main = main.id
                                       /\ q.tx.sender \in Owners(main.sender)
                                       /\ q.tx.recipient = main.recipient /\ q.tx.amount = 0}
           T == {p.tx : p \in Q}
           f == [p \in Q |-> p.tx]
<1>1. IsFiniteSet(Q)
  <2>1. Q \in SUBSET multiSignPool
    OBVIOUS
  <2> HIDE DEF Q
  <2> QED BY <2>1, FS_Subset
<1> HIDE DEF Q
<1>2. f \in Surjection(Q, T)
  BY DEF Surjection
<1>3. IsFiniteSet(T)
  <2> HIDE DEF T, f
  <2> QED BY <1>1, <1>2, FS_Surjection, SMTT(20), Zenon
<1> QED BY <1>3 DEF Confirmations, Q

\* Entries of the pool.
Entry(p) == p = [tx |-> p.tx, main |-> p.main]

\* What Approvals counts are confirmations, and what it leaves in the array of
\* the account are owners.
LEMMA ApprovalsCounted ==
  ASSUME IsFiniteSet(multiSignPool), \A p \in multiSignPool : Entry(p),
         NEW tx, NEW main \in MainOf(tx), NEW order \in Orders(tx),
         multiSign[main.sender].addrs \in Seq(Owners(main.sender))
  PROVE  LET slice == Approvals(order, main)
         IN  /\ slice.array \in Seq(Owners(main.sender))
             /\ slice.count \in Nat /\ slice.count <= Cardinality(Confirmations(main))
             /\ Cardinality(Confirmations(main)) \in Nat
<1> DEFINE owners == Owners(main.sender)
           addrs == multiSign[main.sender].addrs
           L == Len(addrs)
           N == Cardinality(Filed(tx))
           C == Confirmations(main)
           Conf(k) == {order[i].tx : i \in 1..k} \cap C
<1>1. N \in Nat
  <2>1. Filed(tx) \in SUBSET multiSignPool
    BY SMTT(20), Zenon DEF Filed
  <2> QED BY <2>1, FS_Subset, FS_CardinalityType
<1>2. /\ order \in [1..N -> Filed(tx)] /\ Len(order) = N
      /\ \A i, j \in 1..N : order[i] = order[j] => i = j
  <2>1. order \in [1..N -> Filed(tx)] /\ IsInjective(order)
    BY DEF Orders
  <2> HIDE DEF N
  <2>2. order \in Seq(Filed(tx)) /\ DOMAIN order = 1..N
    BY <1>1, <2>1
  <2>3. Len(order) = N
    BY <1>1, <2>2, LenProperties, SMTT(20), Zenon
  <2> QED BY <2>1, <2>2, <2>3 DEF IsInjective
<1>3. PICK g : IsSlices(g, order, main, N) /\ Approvals(order, main) = g[N]
  BY <1>1, <1>2, ApprovalsSlices, SMTT(20), Zenon
<1>4. IsFiniteSet(C) /\ Cardinality(C) \in Nat
  BY ConfirmationsFinite, FS_CardinalityType
<1>5. main.id = tx.confirms
  BY SMTT(20), Zenon DEF MainOf
<1>6. ASSUME NEW k
      PROVE  IsFiniteSet(Conf(k)) /\ Cardinality(Conf(k)) \in Nat /\ Cardinality(Conf(k)) <= Cardinality(C)
  <2>1. Conf(k) \in SUBSET C
    OBVIOUS
  <2> HIDE DEF Conf, C
  <2> QED BY <2>1, <1>4, FS_Subset, FS_CardinalityType
<1>7. L \in Nat /\ addrs \in [1..L -> owners]
  BY LenProperties, SMTT(20), Zenon
<1> DEFINE P(k) == SliceOK(g[k], L, owners) /\ g[k].count <= Cardinality(Conf(k))
<1>8. P(0)
  <2>1. g[0] = First(main)
    BY <1>1, <1>3, SMTT(20), Zenon DEF IsSlices
  <2>2. /\ DOMAIN g[0] = {"array", "from", "len", "count"} /\ g[0].array = addrs
        /\ g[0].from = 0 /\ g[0].len = L /\ g[0].count = 0
    BY <2>1, SMTT(20), Zenon DEF First
  <2> HIDE DEF addrs, L, owners, Conf
  <2>3. SliceOK(g[0], L, owners)
    BY <1>7, <2>2 DEF SliceOK
  <2> QED BY <2>2, <2>3, <1>6, SMTT(20), Zenon
<1>9. ASSUME NEW k \in 1..N, P(k - 1) PROVE P(k)
  <2> HIDE DEF owners, addrs, L, C, Conf, N
  <2> DEFINE p == order[k]
             s == g[k - 1]
             D == Conf(k - 1)
  <2>1. k - 1 \in 0..N /\ k \in 0..N /\ k # 0
    BY <1>1, SMTT(20), Zenon
  <2>2. g[k] = Approve(s, p.tx, main)
    BY <1>3, <2>1, SMTT(20), Zenon DEF IsSlices
  <2>3. /\ SliceOK(g[k], L, owners)
        /\ \/ g[k].count = s.count
           \/ /\ g[k].count = s.count + 1 /\ p.tx.sender \in owners
              /\ p.tx.recipient = main.recipient /\ p.tx.amount = 0
    <3>1. L \in Nat /\ SliceOK(s, L, owners)
      BY <1>7, <1>9, SMTT(20), Zenon
    <3> DEFINE t == p.tx
    <3> HIDE DEF p, s, t
    <3>2. WithApproval(Approve(s, t, main), s, t, main, L, owners)
      BY <3>1, ApproveStep, SMTT(20), Zenon
    <3>3. g[k] = Approve(s, t, main)
      BY <2>2, SMTT(20), Zenon DEF t
    <3>4. WithApproval(g[k], s, t, main, L, owners)
      BY <3>2, <3>3, SMTT(20), Zenon
    <3> QED BY <3>4, SMTT(20), Zenon DEF t, WithApproval
  <2>4. s.count \in Nat /\ g[k].count \in Nat
    BY <1>9, <2>3, SMTT(20), Zenon DEF SliceOK
  <2>5. p \in multiSignPool /\ p.main = main.id /\ Entry(p)
    BY <1>2, <1>5 DEF Filed
  <2>6. Conf(k) = D \cup ({p.tx} \cap C)
    <3>1. \A i \in 1..k : i \in 1..k - 1 \/ i = k
      OBVIOUS
    <3>2. \A i \in 1..k - 1 : i \in 1..k
      OBVIOUS
    <3>3. k \in 1..k
      BY <1>1, SMTT(20), Zenon
    <3> QED BY <3>1, <3>2, <3>3 DEF Conf
  <2>7. CASE g[k].count = s.count
    <3>1. D \in SUBSET Conf(k)
      BY <2>6, SMTT(20), Zenon
    <3>2. Cardinality(D) <= Cardinality(Conf(k))
      <4> HIDE DEF D
      <4> QED BY <3>1, <1>6, FS_Subset, SMTT(20), Zenon
    <3>3. s.count <= Cardinality(D)
      BY <1>9, SMTT(20), Zenon
    <3>4. Cardinality(D) \in Nat /\ Cardinality(Conf(k)) \in Nat
      BY <1>6, SMTT(20), Zenon
    <3> DEFINE a == s.count
               b == g[k].count
               c == Cardinality(D)
               d == Cardinality(Conf(k))
    <3>5. b = a /\ a <= c /\ c <= d /\ a \in Nat /\ c \in Nat /\ d \in Nat
      BY <2>4, <2>7, <3>2, <3>3, <3>4
    <3> HIDE DEF a, b, c, d
    <3>6. b <= d
      BY <3>5, SMTT(20), Zenon
    <3> QED BY <2>3, <3>6, SMTT(20), Zenon DEF b, d
  <2>8. CASE /\ g[k].count = s.count + 1 /\ p.tx.sender \in owners
             /\ p.tx.recipient = main.recipient /\ p.tx.amount = 0
    <3>1. p.tx \in C
      BY <2>5, <2>8, SMTT(20), Zenon DEF Confirmations, C, owners
    <3>2. p.tx \notin D
      <4> SUFFICES ASSUME NEW i \in 1..k - 1, order[i].tx = p.tx PROVE FALSE
        BY DEF Conf
      <4>1. i \in 1..N /\ i # k
        BY <1>1
      <4>2. Entry(order[i]) /\ order[i].main = main.id
        BY <1>2, <1>5, <4>1, Zenon, SMTT(20) DEF Filed
      <4>3. order[i] = p
        BY <2>5, <4>2, SMTT(20), Zenon DEF Entry
      <4> QED BY <1>2, <4>1, <4>3, SMTT(20), Zenon
    <3>3. Conf(k) = D \cup {p.tx}
      BY <2>6, <3>1, SMTT(20), Zenon
    <3>4. IsFiniteSet(D) /\ Cardinality(D) \in Nat
      BY <1>6, SMTT(20), Zenon
    <3>5. Cardinality(Conf(k)) = Cardinality(D) + 1
      <4> HIDE DEF D, p
      <4> QED BY <3>2, <3>3, <3>4, FS_AddElement
    <3>6. s.count <= Cardinality(D)
      BY <1>9
    <3> DEFINE a == s.count
               b == g[k].count
               c == Cardinality(D)
               d == Cardinality(Conf(k))
    <3>7. b = a + 1 /\ a <= c /\ d = c + 1 /\ a \in Nat /\ c \in Nat
      BY <2>4, <2>8, <3>4, <3>5, <3>6, Zenon, SMTT(20)
    <3> HIDE DEF a, b, c, d
    <3>8. b <= d
      BY <3>7
    <3> QED BY <2>3, <3>8 DEF b, d
  <2> QED BY <2>3, <2>7, <2>8, Zenon, SMTT(20)
<1> DEFINE S == {k \in 1..N : ~P(k)}
<1> HIDE DEF P, N
<1>10. S = {}
  <2> SUFFICES ASSUME S # {} PROVE FALSE
    OBVIOUS
  <2>1. PICK k \in S : \A j \in S : k <= j
    <3>1. S \subseteq 1..N
      OBVIOUS
    <3> HIDE DEF S
    <3> QED BY <3>1, <1>1, LeastPosition
  <2>2. k - 1 \in 0..N /\ k - 1 \notin S
    BY <1>1, <2>1
  <2>3. P(k - 1)
    BY <1>8, <2>2
  <2> QED BY <1>9, <2>3
<1>11. P(N)
  BY <1>1, <1>8, <1>10, SMTT(20), Zenon
<1> DEFINE slice == Approvals(order, main)
<1>12. SliceOK(slice, L, owners) /\ slice.count <= Cardinality(Conf(N))
  BY <1>3, <1>11, SMTT(20), Zenon DEF P
<1> HIDE DEF slice, L, owners, Conf, C
<1>13. slice.array \in Seq(owners) /\ slice.count \in Nat
  BY <1>7, <1>12, SMTT(20), Zenon DEF SliceOK
<1>14. slice.count <= Cardinality(C)
  BY <1>4, <1>6, <1>12, <1>13, SMTT(20), Zenon
<1> QED BY <1>4, <1>13, <1>14, SMTT(20), Zenon DEF slice, owners, C

\* The addresses of an account that may have to be asked are owners of it, now
\* and in every snapshot that a reset may restore.
MultiSignOK(f) ==
  /\ DOMAIN f = Address
  /\ \A a \in Address : f[a] \in [number : Nat, addrs : Seq(Owners(a))]

SignersOK ==
  /\ IsFiniteSet(multiSignPool) /\ \A p \in multiSignPool : Entry(p)
  /\ MultiSignOK(multiSign)
  /\ \A i \in 1..Len(chain) : MultiSignOK(chain[i].multiSign)

\* ProcessMultiSignAndEscrow makes an account one of several signers.
LEMMA ModifyKeepsSigners ==
  ASSUME MultiSignOK(multiSign), NEW tx \in Txs, Modify(tx)
  PROVE  MultiSignOK(multiSign')
<1> DEFINE a == tx.recipient
           new == [number |-> tx.msNumber, addrs |-> tx.msAddrs]
           r == IF tx.msNumber > 0 THEN new ELSE multiSign[a]
<1>1. a \in Address /\ tx.msNumber \in Nat /\ tx.msAddrs \in Seq(Users)
  BY TxsAssumption DEF TxType
<1>2. tx.msNumber > 0 => tx.msAddrs \in Seq(Owners(a))
  <2> SUFFICES ASSUME tx.msNumber > 0 PROVE tx.msAddrs \in Seq(Owners(a))
    OBVIOUS
  <2> DEFINE s == tx.msAddrs
  <2>1. Range(s) \subseteq Owners(a)
    BY SMTT(20), Zenon DEF Owners
  <2>2. Len(s) \in Nat /\ DOMAIN s = 1..Len(s) /\ s \in [1..Len(s) -> Users]
    BY <1>1, LenProperties
  <2>3. \A i \in 1..Len(s) : s[i] \in Owners(a)
    BY <2>1, <2>2 DEF Range
  <2> HIDE DEF s
  <2>4. s \in [1..Len(s) -> Owners(a)]
    BY <2>2, <2>3
  <2>5. s \in Seq(Owners(a))
    BY <2>2, <2>4, SMTT(20), Zenon
  <2> QED BY <2>5 DEF s
<1>3. r \in [number : Nat, addrs : Seq(Owners(a))]
  BY <1>1, <1>2, SMTT(20), Zenon DEF MultiSignOK
<1>4. multiSign' = [multiSign EXCEPT ![a] = r]
  BY DEF Modify
<1> HIDE DEF r, a
<1> QED BY <1>1, <1>3, <1>4 DEF MultiSignOK

\* The pool changes by one transaction, or loses some.
LEMMA SignersStay ==
  ASSUME SignersOK, chain' = chain, MultiSignOK(multiSign'), NEW tx, NEW main,
         \/ multiSignPool' \subseteq multiSignPool
         \/ multiSignPool' = AddTransaction(multiSignPool, [tx |-> tx, main |-> main])
  PROVE  SignersOK'
<1> DEFINE p == [tx |-> tx, main |-> main]
<1>1. Entry(p)
  BY DEF Entry
<1>2. multiSignPool' \subseteq multiSignPool \/ multiSignPool' = multiSignPool \cup {p}
  BY SMTT(20), Zenon DEF AddTransaction
<1> HIDE DEF p
<1>3. IsFiniteSet(multiSignPool')
  BY <1>2, FS_Subset, FS_AddElement DEF SignersOK
<1>4. \A q \in multiSignPool' : Entry(q)
  BY <1>1, <1>2, SMTT(20), Zenon DEF SignersOK
<1> QED BY <1>3, <1>4 DEF SignersOK

\* Going back restores what a snapshot holds, or nothing of it.
LEMMA SignersReset ==
  ASSUME ChainOK(chain), SignersOK, NEW h \in 0..Len(chain) - 1, Reset(h),
         multiSignPool' \subseteq multiSignPool
  PROVE  SignersOK'
<1> DEFINE s == chain[h + 1]
<1>1. ChainOK(chain) /\ Len(chain) \in Nat
  BY LastOK
<1>2. MultiSignOK(s.multiSign)
  BY <1>1 DEF SignersOK
<1>3. MultiSignOK(multiSign')
  <2>1. CASE multiSign' = s.multiSign
    BY <1>2, <2>1
  <2>2. CASE multiSign' = [a \in Address |-> [s.multiSign[a] EXCEPT !.addrs = << >>]]
    <3>1. ASSUME NEW a \in Address
          PROVE  [s.multiSign[a] EXCEPT !.addrs = << >>] \in [number : Nat, addrs : Seq(Owners(a))]
      <4> DEFINE m == s.multiSign[a]
                 O == Owners(a)
      <4>1. m \in [number : Nat, addrs : Seq(O)]
        BY <1>2 DEF MultiSignOK
      <4>2. << >> \in Seq(O)
        OBVIOUS
      <4> HIDE DEF m, O
      <4>3. [m EXCEPT !.addrs = << >>] \in [number : Nat, addrs : Seq(O)]
        BY <4>1, <4>2
      <4> QED BY <4>3 DEF m, O
    <3> QED BY <2>2, <3>1 DEF MultiSignOK
  <2> QED BY <2>1, <2>2 DEF Reset
<1>4. \A i \in 1..Len(chain') : i \in 1..Len(chain) /\ chain'[i] = chain[i]
  BY ResetCuts
<1>6. IsFiniteSet(multiSignPool') /\ \A p \in multiSignPool' : Entry(p)
  BY FS_Subset DEF SignersOK
<1> QED BY <1>3, <1>4, <1>6 DEF SignersOK

\* So does a block that fails.
LEMMA SignersFail ==
  ASSUME ChainOK(chain), SignersOK, NEW bad, NEW pool, pool \subseteq multiSignPool, FailBlock(bad, pool)
  PROVE  SignersOK'
<1>1. Len(chain) - 1 \in 0..Len(chain) - 1
  BY LastOK
<1>2. Reset(Len(chain) - 1) /\ multiSignPool' \subseteq multiSignPool
  BY SMTT(20), Zenon DEF FailBlock
<1> QED BY <1>1, <1>2, SignersReset

\* The block joins the chain with its snapshot.
LEMMA SignersFinish ==
  ASSUME ChainOK(chain), SignersOK, FinishBlock
  PROVE  SignersOK'
<1> DEFINE n == Len(chain)
           new == Snapshot(balance, known, delay, multiSign, staking',
                           LastBlock.supply + BlockReward, BlockFee, waived, block.txs)
<1>1. n \in Nat
  BY LastOK, SMTT(20), Zenon
<1>2. chain' = Append(chain, new) /\ multiSign' = multiSign /\ multiSignPool' = multiSignPool
  BY SMTT(20), Zenon DEF FinishBlock, poolVars
<1>3. new.multiSign = multiSign
  BY DEF Snapshot
<1> HIDE DEF new
<1>4. PICK S : chain \in Seq(S)
  BY DEF ChainOK
<1>5. chain \in Seq(S \cup {new})
  BY <1>4
<1>6. Len(chain') = n + 1 /\ chain'[n + 1] = new /\ \A i \in 1..n : chain'[i] = chain[i]
  BY <1>1, <1>2, <1>5, AppendProperties
<1>7. \A i \in 1..n + 1 : i \in 1..n \/ i = n + 1
  BY <1>1, SMTT(20), Zenon
<1> HIDE DEF n
<1>8. \A i \in 1..n + 1 : MultiSignOK(chain'[i].multiSign)
  BY <1>3, <1>6, <1>7 DEF SignersOK, n
<1> QED BY <1>2, <1>6, <1>8 DEF SignersOK

\* The payment that is confirmed, and its account.
LEMMA MainIsHeld ==
  ASSUME LedgerOK, NEW tx, NEW main \in MainOf(tx)
  PROVE  main \in Txs /\ main.sender \in Address
<1>1. PICK p \in multiSignPool : p.tx = main
  BY SMTT(20), Zenon DEF MainOf, Filed
<1>2. main \in Txs
  BY <1>1 DEF LedgerOK, PoolsOK, Held
<1> QED BY <1>2, TxsAssumption DEF TxType, Address

\* Every step of the node keeps it.
LEMMA SignersStep ==
  ASSUME LedgerInv, SignersOK, [Next]_vars
  PROVE  SignersOK'
<1> MultiSignOK(multiSign) /\ ChainOK(chain)
  BY SMTT(20), Zenon DEF SignersOK, LedgerInv
<1>1. CASE UNCHANGED <<multiSign, multiSignPool, chain>>
  BY <1>1, SMTT(20), Zenon DEF SignersOK
<1>2. ASSUME NEW b \in Blocks, StartBlock(b) \/ RefuseBlock(b) PROVE SignersOK'
  BY <1>1, <1>2, SignersFail DEF StartBlock, RefuseBlock, ledgerVars, poolVars
<1>3. CASE EvaluateTx \/ EvaluateDex \/ CheckSupply \/ EscrowStops
  BY <1>1, <1>3, Zenon, SMTT(20) DEF EvaluateTx, EvaluateDex, CheckSupply, EscrowStops,
                    ledgerVars, poolVars, chainVars
<1>4. CASE EvaluateFails \/ CheckFails \/ ProcessFails \/ FinishFails
  BY <1>4, SignersFail, Zenon, SMTT(20) DEF EvaluateFails, CheckFails, ProcessFails, FinishFails
<1>5. ASSUME NEW tx \in due, EscrowTx(tx) PROVE SignersOK'
  <2>1. CASE EscrowToMultiSign(tx)
    <3>1. /\ multiSign' = multiSign /\ chain' = chain
          /\ multiSignPool' = AddTransaction(multiSignPool, [tx |-> tx, main |-> tx.id])
      BY <2>1, ZenonT(40), SMTT(20) DEF EscrowToMultiSign, ledgerVars, chainVars
    <3> QED BY <3>1, SignersStay
  <2>2. CASE EscrowExecutes(tx)
    BY <1>1, <2>2 DEF EscrowExecutes, chainVars
  <2>3. CASE EscrowFails(tx)
    <3>1. multiSign' = multiSign /\ chain' = chain /\ multiSignPool' \subseteq multiSignPool
      BY <2>3, Zenon, SMTT(20) DEF EscrowFails
    <3> QED BY <3>1, SignersStay
  <2> QED BY <1>5, <2>1, <2>2, <2>3, SMTT(20), Zenon DEF EscrowTx
<1>6. ASSUME NEW tx \in Txs, ProcessTx(tx) PROVE SignersOK'
  <2>1. CASE UnstakePanics(tx) \/ ProcessWithdraw(tx) \/ ProcessIgnored(tx)
    BY <1>1, <2>1, Zenon, SMTT(20) DEF UnstakePanics, ProcessWithdraw, ProcessIgnored, Done,
                      ledgerVars, poolVars, chainVars
  <2>2. CASE ProcessStake(tx) \/ ProcessUnstake(tx)
    <3>1. Modify(tx) /\ chain' = chain /\ multiSignPool' = multiSignPool
      BY <2>2, ZenonT(40), SMTT(20) DEF ProcessStake, ProcessUnstake, Done, chainVars
    <3> QED BY <3>1, ModifyKeepsSigners, SignersStay
  <2>3. CASE ProcessHold(tx)
    <3>1. /\ Modify(tx) /\ chain' = chain
          /\ \/ multiSignPool' = multiSignPool
             \/ multiSignPool' = AddTransaction(multiSignPool, [tx |-> tx, main |-> tx.id])
      BY <2>3, SMTT(20), Zenon DEF ProcessHold, Done, chainVars
    <3> QED BY <3>1, ModifyKeepsSigners, SignersStay, SMTT(20), Zenon
  <2>4. CASE ProcessTransfer(tx)
    <3>1. /\ Modify(tx) /\ chain' = chain
          /\ \/ multiSignPool' = multiSignPool
             \/ multiSignPool' = AddTransaction(multiSignPool, [tx |-> tx, main |-> tx.confirms])
      BY <2>4 DEF ProcessTransfer, Done, chainVars
    <3> QED BY <3>1, ModifyKeepsSigners, SignersStay, ZenonT(40), SMTT(20)
  <2> QED BY <1>6, <2>1, <2>2, <2>3, <2>4 DEF ProcessTx
<1>7. ASSUME NEW tx \in Txs, Confirm(tx) PROVE SignersOK'
  <2> LedgerOK
    <3>1. phase = "confirm"
      BY <1>7, Zenon, SMTT(20) DEF Confirm, ConfirmNothing, ConfirmExpired, ConfirmWaits,
                ConfirmExecutes, ConfirmFails, Confirming
    <3> QED BY <3>1 DEF LedgerInv
  <2>1. CASE ConfirmNothing(tx)
    BY <1>1, <2>1 DEF ConfirmNothing, ledgerVars, poolVars, chainVars
  <2>2. CASE ConfirmExpired(tx)
    BY <2>2, SignersFail DEF ConfirmExpired
  <2>3. ASSUME NEW main \in MainOf(tx), NEW order \in Orders(tx)
        PROVE  MultiSignOK(Approved(main, Approvals(order, main)))
    <3> DEFINE a == main.sender
               array == Approvals(order, main).array
    <3>1. a \in Address
      BY MainIsHeld
    <3>2. multiSign[a] \in [number : Nat, addrs : Seq(Owners(a))]
      BY <3>1, SMTT(20), Zenon DEF MultiSignOK
    <3>3. array \in Seq(Owners(a))
      BY <3>2, ApprovalsCounted, Zenon, SMTT(20) DEF SignersOK
    <3>4. Approved(main, Approvals(order, main)) = [multiSign EXCEPT ![a].addrs = array]
      BY DEF Approved
    <3> HIDE DEF array, a
    <3>5. [multiSign[a] EXCEPT !.addrs = array] \in [number : Nat, addrs : Seq(Owners(a))]
      BY <3>2, <3>3
    <3> QED BY <3>1, <3>4, <3>5 DEF MultiSignOK
  <2>4. ASSUME NEW main \in MainOf(tx), NEW order \in Orders(tx), NEW slice,
               slice = Approvals(order, main), ConfirmWaits(tx, main, slice)
        PROVE  SignersOK'
    <3>1. /\ multiSign' = multiSign \/ multiSign' = Approved(main, slice)
          /\ chain' = chain /\ multiSignPool' = multiSignPool
      BY <2>4, Zenon, SMTT(20) DEF ConfirmWaits, poolVars, chainVars
    <3> QED BY <2>3, <2>4, <3>1, SignersStay
  <2>5. ASSUME NEW main \in MainOf(tx), NEW order \in Orders(tx), NEW slice,
               slice = Approvals(order, main), ConfirmExecutes(tx, main, slice)
        PROVE  SignersOK'
    <3>1. /\ multiSign' = Approved(main, slice)
          /\ chain' = chain /\ multiSignPool' \subseteq multiSignPool
      BY <2>5, Zenon, SMTT(20) DEF ConfirmExecutes, chainVars
    <3> QED BY <2>3, <2>5, <3>1, SignersStay, ZenonT(40), SMTT(20)
  <2>6. ASSUME NEW main, NEW slice, ConfirmFails(tx, main, slice) PROVE SignersOK'
    BY <2>6, SignersFail, Zenon, SMTT(20) DEF ConfirmFails
  <2> QED BY <1>7, <2>1, <2>2, <2>4, <2>5, <2>6 DEF Confirm
<1>8. CASE FinishBlock
  BY <1>8, SignersFinish
<1>9. ASSUME NEW h \in 0..Len(chain) - 1, Rollback(h) PROVE SignersOK'
  BY <1>9, SignersReset DEF Rollback, poolVars
<1>10. CASE Garbled \/ UNCHANGED vars
  BY <1>1, <1>10, SMTT(20), Zenon DEF Garbled, vars, ledgerVars, poolVars, chainVars
<1> QED BY <1>2, <1>3, <1>4, <1>5, <1>6, <1>7, <1>8, <1>9, <1>10 DEF Next

\* A step that executes a payment of several signers.
LEMMA ExecutedStep ==
  ASSUME LedgerInv, SignersOK, Next, phase = "confirm", phase' = "transactions", NEW payment \in Txs,
         [tx |-> payment, main |-> payment.id] \in multiSignPool \ multiSignPool'
  PROVE  Cardinality(Confirmations(payment)) >= multiSign[payment.sender].number
<1> LedgerOK
  BY DEF LedgerInv
<1>1. PICK tx \in Txs : Confirm(tx)
  BY Zenon, SMTT(20) DEF Next, StartBlock, RefuseBlock, EvaluateTx, EvaluateDex, EvaluateFails, CheckSupply,
         CheckFails, EscrowStops, EscrowTx, EscrowToMultiSign, EscrowExecutes, EscrowFails,
         ProcessTx, ProcessStake, ProcessUnstake, UnstakePanics, ProcessWithdraw, ProcessIgnored,
         ProcessHold, ProcessTransfer, Processing, ProcessFails, FinishBlock, FinishFails,
         Rollback, Garbled
<1>2. ~ConfirmNothing(tx)
  BY Zenon, SMTT(20) DEF ConfirmNothing, poolVars
<1>3. ~ConfirmExpired(tx)
  BY SMTT(20), Zenon DEF ConfirmExpired, FailBlock, Reset
<1>4. PICK main \in MainOf(tx), order \in Orders(tx) :
        LET slice == Approvals(order, main)
        IN  \/ ConfirmWaits(tx, main, slice)
            \/ ConfirmExecutes(tx, main, slice)
            \/ ConfirmFails(tx, main, slice)
  BY <1>1, <1>2, <1>3 DEF Confirm
<1> DEFINE slice == Approvals(order, main)
<1>5. ConfirmExecutes(tx, main, slice)
  BY <1>4 DEF ConfirmWaits, ConfirmFails, FailBlock, Reset, poolVars
<1>6. payment = main
  BY <1>5, Zenon, SMTT(20) DEF ConfirmExecutes
<1>7. slice.count >= multiSign[main.sender].number
  BY <1>5, Zenon, SMTT(20) DEF ConfirmExecutes, Enough
<1>8. multiSign[main.sender] \in [number : Nat, addrs : Seq(Owners(main.sender))]
  BY MainIsHeld, ZenonT(40), SMTT(20) DEF SignersOK, MultiSignOK
<1>9. /\ slice.count \in Nat /\ slice.count <= Cardinality(Confirmations(main))
      /\ Cardinality(Confirmations(main)) \in Nat
  BY <1>8, ApprovalsCounted, Zenon, SMTT(20) DEF SignersOK
<1> HIDE DEF slice
<1> QED BY <1>6, <1>7, <1>8, <1>9

\* ExecutedWithConfirmations: the coins of a multi-signature account move only when
\* as many transactions as it asks for, each of an owner, confirm the payment in
\* the pool; whatever ProcessTransactionsMultiSign did before to the array of
\* addresses that it shares with the account.
THEOREM PaymentsAreConfirmed == Spec => ExecutedWithConfirmations
<1>1. Init => SignersOK
  <2> SUFFICES ASSUME Init PROVE SignersOK
    OBVIOUS
  <2>1. multiSign = GenesisMultiSign /\ DOMAIN multiSign = Address
    BY GenesisAssumption DEF Init
  <2>2. ASSUME NEW a \in Address PROVE multiSign[a] \in [number : Nat, addrs : Seq(Owners(a))]
    <3> DEFINE m == multiSign[a]
               t == m.addrs
               O == Owners(a)
    <3>1. m \in [number : Nat, addrs : Seq(Users)]
      BY <2>1, GenesisAssumption
    <3>2. Range(t) \subseteq O
      BY <2>1 DEF Owners
    <3> HIDE DEF O
    <3>3. t \in Seq(Users)
      BY <3>1
    <3>4. t \in Seq(O)
      <4> HIDE DEF t
      <4>1. Len(t) \in Nat /\ DOMAIN t = 1..Len(t) /\ t \in [1..Len(t) -> Users]
        BY <3>3, LenProperties
      <4>2. \A i \in 1..Len(t) : t[i] \in O
        BY <3>2, <4>1 DEF Range
      <4>3. t \in [1..Len(t) -> O]
        BY <4>1, <4>2
      <4> QED BY <4>1, <4>3, SMTT(20), Zenon
    <3> HIDE DEF m
    <3>5. m \in [number : Nat, addrs : Seq(O)]
      BY <3>1, <3>4
    <3> QED BY <3>5, SMTT(20), Zenon DEF m, O
  <2>3. MultiSignOK(multiSign)
    BY <2>1, <2>2, SMTT(20), Zenon DEF MultiSignOK
  <2>4. Len(chain) = 1 /\ chain[1].multiSign = multiSign
    BY DEF Init, Snapshot
  <2>5. \A i \in 1..Len(chain) : MultiSignOK(chain[i].multiSign)
    BY <2>3, <2>4
  <2>6. multiSignPool = {}
    BY DEF Init
  <2> QED BY <2>3, <2>5, <2>6, FS_EmptySet DEF SignersOK
<1>2. LedgerInv /\ SignersOK /\ [Next]_vars => SignersOK'
  BY SignersStep, SMTT(20), Zenon
<1>3. LedgerInv /\ SignersOK /\ [Next]_vars =>
        [\A main \in Txs :
           phase = "confirm" /\ phase' = "transactions"
             /\ [tx |-> main, main |-> main.id] \in multiSignPool \ multiSignPool'
           => Cardinality(Confirmations(main)) >= multiSign[main.sender].number]_vars
  BY ExecutedStep
<1> QED BY <1>1, <1>2, <1>3, LedgerInvariant, PTL DEF Spec, ExecutedWithConfirmations
=============================================================================
