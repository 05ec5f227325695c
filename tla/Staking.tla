------------------------------- MODULE Staking -------------------------------
(***************************************************************************)
(* The life of one staking account over the blocks: what the transactions  *)
(* of ProcessTransaction and the rewards of ProcessBlockTransfers do to it *)
(* (blocks/processTransaction.go, blocks/processBlock.go), in any order    *)
(* and at any height.  A panic is caught by the message handler, which     *)
(* leaves the account as it is and goes on with the next message.          *)
(***************************************************************************)
EXTENDS StakingAccount, FiniteSets

CONSTANTS
  Amounts,         \* amounts of coins that transactions and rewards carry
  MinStakingUser,  \* common.MinStakingUser
  MaxHeight,       \* bound: the last height
  MaxStaked,       \* bound: the coins staked at one time
  MaxRewards,      \* bound: the rewards waiting at one time
  MaxLocks         \* bound: the locks granted to the account

ASSUME StakingAssumption ==
  /\ Amounts \subseteq Nat \ {0}
  /\ MinStakingUser \in Nat \ {0}
  /\ {MaxHeight, MaxStaked, MaxRewards, MaxLocks} \subseteq Nat

VARIABLES
  account,   \* the entry of AllStakingAccounts
  height,    \* the height of the block that is being processed
  granted,   \* history: every lock that a locking transaction was granted
  atStart    \* history: staked balance and rewards when the height began

vars == <<account, height, granted, atStart>>

Init ==
  /\ account = NoStakingAccount
  /\ height = 1
  /\ granted = {}
  /\ atStart = [staked |-> 0, rewards |-> 0]

-----------------------------------------------------------------------------
\* The owner stakes: amount >= MinStakingUser, nothing locked.
StakeOwn(amount, operational) ==
  /\ amount >= MinStakingUser
  /\ account.staked + amount <= MaxStaked
  /\ account' = Stake(account, amount, height, operational, 0, 0).acc
  /\ UNCHANGED <<height, granted, atStart>>

\* Anyone stakes for the owner and locks a part of the amount.
StakeLocked(amount, operational, locked, release) ==
  /\ locked > 0
  /\ amount >= MinStakingUser
  /\ account.staked + amount <= MaxStaked
  /\ Cardinality(granted) < MaxLocks
  /\ LET out == Stake(account, amount, height, operational, locked, release)
     IN  /\ account' = out.acc
         /\ granted' = IF out.res = "ok"
                       THEN granted \cup {[id |-> Cardinality(granted) + 1,
                                           lock |-> [amount |-> locked,
                                                     release |-> release,
                                                     init |-> height]]}
                       ELSE granted
  /\ UNCHANGED <<height, atStart>>

UnstakeOwn(amount) ==
  /\ account' = Unstake(account, -amount, height).acc
  /\ UNCHANGED <<height, granted, atStart>>

RewardOwn(reward) ==
  /\ account.rewards + reward <= MaxRewards
  /\ account' = Reward(account, reward, height).acc
  /\ UNCHANGED <<height, granted, atStart>>

WithdrawOwn(amount) ==
  /\ account' = WithdrawReward(account, -amount, height).acc
  /\ UNCHANGED <<height, granted, atStart>>

NextBlock ==
  /\ height < MaxHeight
  /\ height' = height + 1
  /\ atStart' = [staked |-> account.staked, rewards |-> account.rewards]
  /\ UNCHANGED <<account, granted>>

Next ==
  \/ \E amount \in Amounts, operational \in BOOLEAN : StakeOwn(amount, operational)
  \/ \E amount, locked \in Amounts, release \in Amounts \cup {0}, operational \in BOOLEAN :
       StakeLocked(amount, operational, locked, release)
  \/ \E amount \in Amounts : UnstakeOwn(amount)
  \/ \E amount \in Amounts : RewardOwn(amount)
  \/ \E amount \in Amounts : WithdrawOwn(amount)
  \/ NextBlock

Spec == Init /\ [][Next]_vars

-----------------------------------------------------------------------------
\* The record of the account, with balances that are never negative.
TypeOK ==
  /\ account \in StakingAccountType
  /\ height \in 1..MaxHeight
  /\ atStart \in [staked : Nat, rewards : Nat]

\* What the granted locks really hold back at this height.
LockHeld(g) == IF Expired(g.lock, height) THEN 0 ELSE Remaining(g.lock, height)
TrulyLocked == MapThenSumSet(LockHeld, granted)

\* Unstake never pays out coins that a lock still holds: whatever was staked,
\* unstaked and released before, the staked balance covers every lock that was
\* granted ("insufficient staked balance after locking", stakeAccount.go:132).
LockedIsStaked == account.staked >= TrulyLocked

\* An operator has coins at stake: the flag that makes an account the operator
\* of its delegated account is gone once everything was unstaked, so a later
\* deposit by someone else does not bring the operator back.
OperatorHasStake == account.operational => account.staked > 0

\* A stake that somebody else locks on an account ("in order for someone else
\* not to spoil to be operator") neither makes nor unmakes the operator, and
\* an operator only stops being one by taking out the last coin.
OperatorNotSpoiled ==
  [][account'.operational # account.operational
       => \/ account'.operational /\ account'.locks = account.locks
          \/ ~account'.operational /\ account'.staked = 0]_vars

\* The StakingDetails of a height account for everything the operations of that
\* height did to the two balances, whatever the order and however many of them
\* were refused; an account without details of this height was not touched.
DetailsExplainBalance ==
  LET told == IF account.details.height = height
              THEN account.details
              ELSE [height |-> height, amount |-> 0, reward |-> 0]
  IN  /\ account.staked = atStart.staked + told.amount
      /\ account.rewards = atStart.rewards + told.reward
=============================================================================
