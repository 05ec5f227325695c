---------------------------- MODULE StakingProofs ----------------------------
(***************************************************************************)
(* Proofs about the life of a staking account, for every set of amounts,   *)
(* every minimal stake and any number of locks and heights.                *)
(***************************************************************************)
EXTENDS Staking, TLAPS

\* The inductive invariant behind OperatorHasStake.  The locks do not matter to
\* it: whatever Unstake does to them, the balances stay naturals and the flag
\* goes with the last coin.
BalancesOK ==
  /\ DOMAIN account = {"exists", "staked", "rewards", "locks", "operational", "details"}
  /\ account.staked \in Nat /\ account.rewards \in Nat
  /\ account.operational \in BOOLEAN
  /\ OperatorHasStake

\* A stake of at least MinStakingUser leaves the account with coins and so with
\* every right to the operator flag it sets or keeps (stakeAccount.go:50).
LEMMA StakeKeepsBalances ==
  ASSUME BalancesOK, NEW amount \in Nat, amount > 0, NEW op \in BOOLEAN,
         NEW h, NEW locked \in Nat, NEW release \in Nat,
         account' = Stake(account, amount, h, op, locked, release).acc
  PROVE  BalancesOK'
<1> DEFINE new == [account EXCEPT
             !.exists = TRUE,
             !.operational = IF locked = 0 THEN @ \/ op ELSE @,
             !.staked = @ + amount,
             !.locks = IF locked > 0
                       THEN Append(@, [amount |-> locked, release |-> release, init |-> h])
                       ELSE @,
             !.details = AddDetail(@, h, amount, 0)]
<1>1. account' = account \/ account' = new
  BY DEF Stake, Ok, Error
<1>2. CASE account' = account
  BY <1>2 DEF BalancesOK, OperatorHasStake
<1>3. CASE account' = new
  <2>1. new.staked = account.staked + amount /\ new.staked \in Nat /\ new.staked > 0
    BY DEF BalancesOK
  <2>2. new.operational \in BOOLEAN /\ new.exists = TRUE
    BY Zenon, SMTT(20) DEF BalancesOK
  <2>3. new.rewards \in Nat
    BY DEF BalancesOK
  <2>4. DOMAIN new = DOMAIN account
    OBVIOUS
  <2> HIDE DEF new
  <2> QED BY <1>3, <2>1, <2>2, <2>3, <2>4 DEF BalancesOK, OperatorHasStake
<1> QED BY <1>1, <1>2, <1>3

\* Unstake takes no more than is staked, and the flag goes with the last coin
\* (stakeAccount.go:103); an interrupted removal of locks leaves both alone.
LEMMA UnstakeKeepsBalances ==
  ASSUME BalancesOK, NEW amount \in Int, NEW h,
         account' = Unstake(account, amount, h).acc
  PROVE  BalancesOK' /\ (account'.operational = account.operational \/ account'.staked = 0)
<1> DEFINE slice == RemoveExpired(account.locks, h)
           cut == [account EXCEPT !.locks = slice.array]
           new == [account EXCEPT
                     !.locks = SubSeq(slice.array, 1, slice.len),
                     !.staked = @ + amount,
                     !.operational = @ /\ account.staked + amount # 0,
                     !.details = AddDetail(@, h, amount, 0)]
<1>1. \/ account' = account
      \/ account' = cut
      \/ account' = new /\ ~(account.staked + amount < 0)
  BY Zenon, SMTT(20) DEF Unstake, Ok, Error, Panic
<1> HIDE DEF slice
<1>2. CASE account' = account
  BY <1>2 DEF BalancesOK, OperatorHasStake
<1>3. CASE account' = cut
  BY <1>3 DEF BalancesOK, OperatorHasStake
<1>4. CASE account' = new /\ ~(account.staked + amount < 0)
  <2>1. new.staked = account.staked + amount /\ new.staked \in Nat
    BY <1>4 DEF BalancesOK
  <2>2. new.operational = (account.operational /\ account.staked + amount # 0)
    BY Zenon, SMTT(20) DEF BalancesOK
  <2>3. new.rewards \in Nat /\ DOMAIN new = DOMAIN account
    BY DEF BalancesOK
  <2> HIDE DEF new
  <2>4. new.operational = account.operational \/ new.staked = 0
    BY <2>1, <2>2, Zenon, SMTT(20) DEF BalancesOK
  <2>5. new.operational \in BOOLEAN /\ (new.operational => new.staked # 0)
    BY <2>1, <2>2, Zenon, SMTT(20)
  <2>6. new.operational => new.staked > 0
    BY <2>1, <2>5
  <2> QED BY <1>4, <2>1, <2>3, <2>4, <2>5, <2>6, Zenon, SMTT(20) DEF BalancesOK, OperatorHasStake
<1> QED BY <1>1, <1>2, <1>3, <1>4

\* Rewards are paid and withdrawn without touching stake or flag, and never
\* below zero (stakeAccount.go:157 and 186).
LEMMA RewardsKeepBalances ==
  ASSUME BalancesOK, NEW amount \in Int, NEW h,
         \/ account' = Reward(account, amount, h).acc
         \/ account' = WithdrawReward(account, amount, h).acc
  PROVE  BalancesOK' /\ account'.operational = account.operational
<1> DEFINE new == [account EXCEPT !.rewards = @ + amount,
                                  !.details = AddDetail(@, h, 0, amount)]
<1>1. account' = account \/ (account' = new /\ account.rewards + amount \in Nat)
  BY DEF Reward, WithdrawReward, Ok, Error, BalancesOK
<1>2. CASE account' = account
  BY <1>2 DEF BalancesOK, OperatorHasStake
<1>3. CASE account' = new /\ account.rewards + amount \in Nat
  BY <1>3 DEF BalancesOK, OperatorHasStake
<1> QED BY <1>1, <1>2, <1>3

-----------------------------------------------------------------------------
\* Nothing but the last coin leaving ends an operator's term, and a locked stake
\* does not begin one: the step form of the rule at stakeAccount.go:76.
LEMMA StakeKeepsOperator ==
  ASSUME BalancesOK, NEW amount \in Nat, NEW op \in BOOLEAN,
         NEW h, NEW locked \in Nat, NEW release \in Nat,
         account' = Stake(account, amount, h, op, locked, release).acc,
         account'.operational # account.operational
  PROVE  account'.operational /\ account'.locks = account.locks
<1> DEFINE new == [account EXCEPT
             !.exists = TRUE,
             !.operational = IF locked = 0 THEN @ \/ op ELSE @,
             !.staked = @ + amount,
             !.locks = IF locked > 0
                       THEN Append(@, [amount |-> locked, release |-> release, init |-> h])
                       ELSE @,
             !.details = AddDetail(@, h, amount, 0)]
<1>1. account' = new
  BY DEF Stake, Ok, Error
<1>2. new.operational = IF locked = 0 THEN account.operational \/ op ELSE account.operational
  BY Zenon, SMTT(20) DEF BalancesOK
<1>3. locked = 0 => new.locks = account.locks
  BY DEF BalancesOK
<1> HIDE DEF new
<1> QED BY <1>1, <1>2, <1>3, Zenon, SMTT(20) DEF BalancesOK

\* The balances are naturals and the flag implies a stake, always.
LEMMA BalancesInvariant == Spec => []BalancesOK
<1>1. Init => BalancesOK
  BY DEF Init, BalancesOK, OperatorHasStake, NoStakingAccount
<1>2. BalancesOK /\ [Next]_vars => BalancesOK'
  <2> SUFFICES ASSUME BalancesOK, [Next]_vars
               PROVE  BalancesOK'
    OBVIOUS
  <2> USE StakingAssumption
  <2>1. ASSUME NEW amount \in Amounts, NEW op \in BOOLEAN, StakeOwn(amount, op)
        PROVE  BalancesOK'
    BY <2>1, StakeKeepsBalances DEF StakeOwn
  <2>2. ASSUME NEW amount \in Amounts, NEW locked \in Amounts,
               NEW release \in Amounts \cup {0}, NEW op \in BOOLEAN,
               StakeLocked(amount, op, locked, release)
        PROVE  BalancesOK'
    <3>1. account' = Stake(account, amount, height, op, locked, release).acc
      BY <2>2 DEF StakeLocked
    <3> QED BY <3>1, StakeKeepsBalances
  <2>3. ASSUME NEW amount \in Amounts, UnstakeOwn(amount)
        PROVE  BalancesOK'
    BY <2>3, UnstakeKeepsBalances DEF UnstakeOwn
  <2>4. ASSUME NEW amount \in Amounts, RewardOwn(amount)
        PROVE  BalancesOK'
    BY <2>4, RewardsKeepBalances DEF RewardOwn
  <2>5. ASSUME NEW amount \in Amounts, WithdrawOwn(amount)
        PROVE  BalancesOK'
    BY <2>5, RewardsKeepBalances DEF WithdrawOwn
  <2>6. CASE NextBlock
    BY <2>6 DEF NextBlock, BalancesOK, OperatorHasStake
  <2>7. CASE UNCHANGED vars
    BY <2>7 DEF vars, BalancesOK, OperatorHasStake
  <2> QED BY <2>1, <2>2, <2>3, <2>4, <2>5, <2>6, <2>7 DEF Next
<1> QED BY <1>1, <1>2, PTL DEF Spec

\* Every operator has coins at stake, in every reachable state, whatever the
\* amounts, the locks and the order of stakes, withdrawals and rewards.
THEOREM OperatorAlwaysHasStake == Spec => []OperatorHasStake
<1>1. BalancesOK => OperatorHasStake
  BY DEF BalancesOK
<1> QED BY <1>1, BalancesInvariant, PTL

\* No step, in any reachable state, makes an operator by a locked stake or
\* unmakes one that still has coins at stake.
THEOREM OperatorIsNotSpoiled == Spec => OperatorNotSpoiled
<1> DEFINE Kept == account'.operational # account.operational
                     => \/ account'.operational /\ account'.locks = account.locks
                        \/ ~account'.operational /\ account'.staked = 0
<1>1. BalancesOK /\ BalancesOK' /\ [Next]_vars => [Kept]_vars
  <2> SUFFICES ASSUME BalancesOK, BalancesOK', Next
               PROVE  Kept
    OBVIOUS
  <2> USE StakingAssumption
  <2>1. ASSUME NEW amount \in Amounts, NEW op \in BOOLEAN, StakeOwn(amount, op)
        PROVE  Kept
    BY <2>1, StakeKeepsOperator DEF StakeOwn
  <2>2. ASSUME NEW amount \in Amounts, NEW locked \in Amounts,
               NEW release \in Amounts \cup {0}, NEW op \in BOOLEAN,
               StakeLocked(amount, op, locked, release)
        PROVE  Kept
    <3>1. account' = Stake(account, amount, height, op, locked, release).acc
      BY <2>2 DEF StakeLocked
    <3> QED BY <3>1, StakeKeepsOperator
  <2>3. ASSUME NEW amount \in Amounts, UnstakeOwn(amount)
        PROVE  Kept
    <3>1. account'.operational = account.operational \/ account'.staked = 0
      BY <2>3, UnstakeKeepsBalances DEF UnstakeOwn
    <3>2. account'.operational => account'.staked > 0
      BY DEF BalancesOK, OperatorHasStake
    <3> QED BY <3>1, <3>2
  <2>4. ASSUME NEW amount \in Amounts, RewardOwn(amount) \/ WithdrawOwn(amount)
        PROVE  Kept
    BY <2>4, RewardsKeepBalances DEF RewardOwn, WithdrawOwn
  <2>5. CASE NextBlock
    BY <2>5 DEF NextBlock
  <2> QED BY <2>1, <2>2, <2>3, <2>4, <2>5 DEF Next
<1>2. Spec => []BalancesOK
  BY BalancesInvariant
<1> QED BY <1>1, <1>2, PTL DEF Spec, OperatorNotSpoiled

-----------------------------------------------------------------------------
\* The inductive invariant behind DetailsExplainBalance: the details are those
\* of this height or of an earlier one, so the first operation of a new height
\* always finds a map it has to replace.
DetailsOK ==
  /\ BalancesOK
  /\ height \in Nat
  /\ atStart.staked \in Nat /\ atStart.rewards \in Nat
  /\ DOMAIN account.details = {"height", "amount", "reward"}
  /\ account.details.height \in Int
  /\ account.details.amount \in Int
  /\ account.details.reward \in Int
  /\ account.details.height <= height
  /\ DetailsExplainBalance

\* What one entry adds to the map: to the entries of its own height if there are
\* any, and to nothing otherwise (stakeAccount.go:84).
LEMMA AddDetailAdds ==
  ASSUME NEW details, DOMAIN details = {"height", "amount", "reward"},
         NEW h \in Int, NEW amount \in Int, NEW reward \in Int
  PROVE  LET new == AddDetail(details, h, amount, reward)
         IN  /\ DOMAIN new = {"height", "amount", "reward"}
             /\ new.height = h
             /\ details.height = h => /\ new.amount = details.amount + amount
                                     /\ new.reward = details.reward + reward
             /\ details.height # h => new.amount = amount /\ new.reward = reward
BY DEF AddDetail

\* An operation that changes the two balances by what its entry says keeps the
\* account of the height complete.
LEMMA EntryExplainsStep ==
  ASSUME DetailsOK, BalancesOK', UNCHANGED <<height, atStart>>,
         NEW amount \in Int, NEW reward \in Int,
         account'.staked = account.staked + amount,
         account'.rewards = account.rewards + reward,
         account'.details = AddDetail(account.details, height, amount, reward)
  PROVE  DetailsOK'
<1>1. /\ DOMAIN account'.details = {"height", "amount", "reward"}
      /\ account'.details.height = height
      /\ account.details.height = height =>
            /\ account'.details.amount = account.details.amount + amount
            /\ account'.details.reward = account.details.reward + reward
      /\ account.details.height # height =>
            account'.details.amount = amount /\ account'.details.reward = reward
  BY AddDetailAdds DEF DetailsOK
<1>2. height' = height /\ atStart' = atStart
  OBVIOUS
<1> QED BY <1>1, <1>2 DEF DetailsOK, DetailsExplainBalance, BalancesOK

\* So does one that leaves the balances and the entries alone: a refused
\* operation, or a removal of locks that was interrupted.
LEMMA NoEntryNoStep ==
  ASSUME DetailsOK, BalancesOK', UNCHANGED <<height, atStart>>,
         account'.staked = account.staked,
         account'.rewards = account.rewards,
         account'.details = account.details
  PROVE  DetailsOK'
BY DEF DetailsOK, DetailsExplainBalance

\* A stake records what it adds (stakeAccount.go:50).
LEMMA StakeIsExplained ==
  ASSUME DetailsOK, BalancesOK', UNCHANGED <<height, atStart>>,
         NEW amount \in Nat, NEW op \in BOOLEAN, NEW locked \in Nat, NEW release \in Nat,
         account' = Stake(account, amount, height, op, locked, release).acc
  PROVE  DetailsOK'
<1> DEFINE new == [account EXCEPT
             !.exists = TRUE,
             !.operational = IF locked = 0 THEN @ \/ op ELSE @,
             !.staked = @ + amount,
             !.locks = IF locked > 0
                       THEN Append(@, [amount |-> locked, release |-> release, init |-> height])
                       ELSE @,
             !.details = AddDetail(@, height, amount, 0)]
<1>1. account' = account \/ account' = new
  BY DEF Stake, Ok, Error
<1>2. CASE account' = account
  BY <1>2, NoEntryNoStep
<1>3. CASE account' = new
  <2>1. /\ new.staked = account.staked + amount
        /\ new.rewards = account.rewards + 0
        /\ new.details = AddDetail(account.details, height, amount, 0)
    BY DEF DetailsOK, BalancesOK
  <2> HIDE DEF new
  <2> QED BY <1>3, <2>1, EntryExplainsStep
<1> QED BY <1>1, <1>2, <1>3

\* Unstake records what it takes, also when it only got as far as the locks
\* (stakeAccount.go:103).
LEMMA UnstakeIsExplained ==
  ASSUME DetailsOK, BalancesOK', UNCHANGED <<height, atStart>>,
         NEW amount \in Int,
         account' = Unstake(account, amount, height).acc
  PROVE  DetailsOK'
<1> DEFINE slice == RemoveExpired(account.locks, height)
           cut == [account EXCEPT !.locks = slice.array]
           new == [account EXCEPT
                     !.locks = SubSeq(slice.array, 1, slice.len),
                     !.staked = @ + amount,
                     !.operational = @ /\ account.staked + amount # 0,
                     !.details = AddDetail(@, height, amount, 0)]
<1>1. account' = account \/ account' = cut \/ account' = new
  BY Zenon, SMTT(20) DEF Unstake, Ok, Error, Panic
<1> HIDE DEF slice
<1>2. CASE account' = account
  BY <1>2, NoEntryNoStep
<1>3. CASE account' = cut
  <2>1. /\ cut.staked = account.staked
        /\ cut.rewards = account.rewards
        /\ cut.details = account.details
    BY DEF DetailsOK, BalancesOK
  <2> HIDE DEF cut
  <2> QED BY <1>3, <2>1, NoEntryNoStep
<1>4. CASE account' = new
  <2>1. /\ new.staked = account.staked + amount
        /\ new.rewards = account.rewards + 0
        /\ new.details = AddDetail(account.details, height, amount, 0)
    BY DEF DetailsOK, BalancesOK
  <2> HIDE DEF new
  <2> QED BY <1>4, <2>1, EntryExplainsStep
<1> QED BY <1>1, <1>2, <1>3, <1>4

\* Rewards are recorded when they come and when they go (stakeAccount.go:157
\* and 186).
LEMMA RewardIsExplained ==
  ASSUME DetailsOK, BalancesOK', UNCHANGED <<height, atStart>>,
         NEW amount \in Int,
         \/ account' = Reward(account, amount, height).acc
         \/ account' = WithdrawReward(account, amount, height).acc
  PROVE  DetailsOK'
<1> DEFINE new == [account EXCEPT !.rewards = @ + amount,
                                  !.details = AddDetail(@, height, 0, amount)]
<1>1. account' = account \/ account' = new
  BY DEF Reward, WithdrawReward, Ok, Error
<1>2. CASE account' = account
  BY <1>2, NoEntryNoStep
<1>3. CASE account' = new
  <2>1. /\ new.staked = account.staked + 0
        /\ new.rewards = account.rewards + amount
        /\ new.details = AddDetail(account.details, height, 0, amount)
    BY DEF DetailsOK, BalancesOK
  <2> HIDE DEF new
  <2> QED BY <1>3, <2>1, EntryExplainsStep
<1> QED BY <1>1, <1>2, <1>3

\* In every reachable state the entries of the current height add up to what
\* happened to the two balances since the height began: the details that a node
\* stores with the account explain its balance, whatever the order of the
\* operations and however many of them were refused.
THEOREM DetailsAlwaysExplainBalance == Spec => []DetailsExplainBalance
<1>1. Init => DetailsOK
  BY DEF Init, DetailsOK, DetailsExplainBalance, BalancesOK, OperatorHasStake, NoStakingAccount
<1>2. DetailsOK /\ BalancesOK' /\ [Next]_vars => DetailsOK'
  <2> SUFFICES ASSUME DetailsOK, BalancesOK', [Next]_vars
               PROVE  DetailsOK'
    OBVIOUS
  <2> USE StakingAssumption
  <2>1. ASSUME NEW amount \in Amounts, NEW op \in BOOLEAN, StakeOwn(amount, op)
        PROVE  DetailsOK'
    BY <2>1, StakeIsExplained DEF StakeOwn
  <2>2. ASSUME NEW amount \in Amounts, NEW locked \in Amounts,
               NEW release \in Amounts \cup {0}, NEW op \in BOOLEAN,
               StakeLocked(amount, op, locked, release)
        PROVE  DetailsOK'
    <3>1. /\ account' = Stake(account, amount, height, op, locked, release).acc
          /\ UNCHANGED <<height, atStart>>
      BY <2>2 DEF StakeLocked
    <3> QED BY <3>1, StakeIsExplained
  <2>3. ASSUME NEW amount \in Amounts, UnstakeOwn(amount)
        PROVE  DetailsOK'
    BY <2>3, UnstakeIsExplained DEF UnstakeOwn
  <2>4. ASSUME NEW amount \in Amounts, RewardOwn(amount)
        PROVE  DetailsOK'
    <3>1. account' = Reward(account, amount, height).acc /\ UNCHANGED <<height, atStart>>
      BY <2>4, Zenon, SMTT(20) DEF RewardOwn
    <3>2. amount \in Int
      OBVIOUS
    <3> QED BY <3>1, <3>2, RewardIsExplained
  <2>5. ASSUME NEW amount \in Amounts, WithdrawOwn(amount)
        PROVE  DetailsOK'
    BY <2>5, RewardIsExplained DEF WithdrawOwn
  <2>6. CASE NextBlock
    <3>1. /\ height' = height + 1 /\ account' = account
          /\ atStart'.staked = account.staked /\ atStart'.rewards = account.rewards
      BY <2>6 DEF NextBlock
    <3> QED BY <3>1 DEF DetailsOK, DetailsExplainBalance, BalancesOK
  <2>7. CASE UNCHANGED vars
    BY <2>7 DEF vars, DetailsOK, DetailsExplainBalance
  <2> QED BY <2>1, <2>2, <2>3, <2>4, <2>5, <2>6, <2>7 DEF Next
<1>3. DetailsOK => DetailsExplainBalance
  BY DEF DetailsOK
<1> QED BY <1>1, <1>2, <1>3, BalancesInvariant, PTL DEF Spec
=============================================================================
