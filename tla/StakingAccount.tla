--------------------------- MODULE StakingAccount ---------------------------
(***************************************************************************)
(* One staking account of one delegated account (account/stakeAccount.go)  *)
(* and the four operations on it, as operators on a record.  An operation  *)
(* returns an outcome: "ok" with the account it stores, "error" with the   *)
(* account untouched, or "panic" with the account as the interrupted       *)
(* operation leaves it behind in the map.                                  *)
(*                                                                         *)
(* LockedAmount, ReleasePerBlock and LockedInitBlock are parallel slices   *)
(* in the code; here they are one sequence of locks.  StakingDetails only  *)
(* ever holds the entries of the last height that touched the account (a   *)
(* new height replaces the map); it is kept as that height and the totals  *)
(* of its entries.                                                         *)
(***************************************************************************)
EXTENDS Integers, Sequences, FiniteSetsExt

Lock == [amount : Nat, release : Nat, init : Nat]

StakingDetails == [height : Int, amount : Int, reward : Int]

StakingAccountType ==
  [exists : BOOLEAN, staked : Nat, rewards : Nat, locks : Seq(Lock),
   operational : BOOLEAN, details : StakingDetails]

\* The zero value that the map lookup returns for an unknown address.
NoStakingAccount ==
  [exists |-> FALSE, staked |-> 0, rewards |-> 0, locks |-> << >>,
   operational |-> FALSE, details |-> [height |-> -1, amount |-> 0, reward |-> 0]]

Ok(acc) == [res |-> "ok", acc |-> acc]
Error(acc) == [res |-> "error", acc |-> acc]
Panic(acc) == [res |-> "panic", acc |-> acc]

-----------------------------------------------------------------------------
\* What a lock still holds at a height, before it is cut off at zero.
Remaining(lock, height) == lock.amount - (height - lock.init) * lock.release

Expired(lock, height) == Remaining(lock, height) <= 0

GetLockedAmount(acc, height) ==
  MapThenSumSet(LAMBDA i : Remaining(acc.locks[i], height),
                {i \in DOMAIN acc.locks : ~Expired(acc.locks[i], height)})

\* Mutant: the map is not replaced, the new entry joins those of another height.
AddDetail_KeepOldHeight(details, height, amount, reward) ==
  [details EXCEPT !.height = height, !.amount = @ + amount, !.reward = @ + reward]

\* A new StakingDetail: appended under its height, after the map was replaced
\* by an empty one if it had no entry for that height.
AddDetail(details, height, amount, reward) ==
  IF details.height = height
  THEN [details EXCEPT !.amount = @ + amount, !.reward = @ + reward]
  ELSE [height |-> height, amount |-> amount, reward |-> reward]

\* Mutant: a locked stake sets the operator flag as well.
Stake_LockMakesOperator(acc, amount, height, operational, lockedAmount, releasePerBlock) ==
  IF amount < 0 \/ releasePerBlock < 0 \/ releasePerBlock > lockedAmount \/ lockedAmount > amount
  THEN Error(acc)
  ELSE Ok([acc EXCEPT
             !.exists = TRUE,
             !.operational = @ \/ operational,
             !.staked = @ + amount,
             !.locks = IF lockedAmount > 0
                       THEN Append(@, [amount |-> lockedAmount,
                                       release |-> releasePerBlock,
                                       init |-> height])
                       ELSE @,
             !.details = AddDetail(@, height, amount, 0)])

Stake(acc, amount, height, operational, lockedAmount, releasePerBlock) ==
  IF \/ amount < 0
     \/ releasePerBlock < 0
     \/ releasePerBlock > lockedAmount
     \/ lockedAmount < 0
     \/ lockedAmount > amount
  THEN Error(acc)
  ELSE Ok([acc EXCEPT
             !.exists = TRUE,
             !.operational = IF lockedAmount = 0 THEN @ \/ operational ELSE @,
             !.staked = @ + amount,
             !.locks = IF lockedAmount > 0
                       THEN Append(@, [amount |-> lockedAmount,
                                       release |-> releasePerBlock,
                                       init |-> height])
                       ELSE @,
             !.details = AddDetail(@, height, amount, 0)])

\* The indices that Unstake collects before it removes anything.
ToRemoveLockedInd(locks, height) ==
  SelectSeq([i \in DOMAIN locks |-> i], LAMBDA i : Expired(locks[i], height))

\* One turn of the removal loop.  The slice is cut in place: the elements after
\* ind move down within the array, and the slice gets one shorter.  An index
\* past the shortened slice is out of bounds.
RemoveLock(slice, ind) ==
  IF slice.panic \/ ind > slice.len
  THEN [slice EXCEPT !.panic = TRUE]
  ELSE [slice EXCEPT
          !.array = [i \in DOMAIN @ |-> IF ind <= i /\ i < slice.len THEN @[i + 1] ELSE @[i]],
          !.len = @ - 1]

RemoveExpired(locks, height) ==
  LET toRemove == ToRemoveLockedInd(locks, height)
      slice[n \in 0..Len(toRemove)] ==
        IF n = 0 THEN [array |-> locks, len |-> Len(locks), panic |-> FALSE]
                 ELSE RemoveLock(slice[n - 1], toRemove[n])
  IN  slice[Len(toRemove)]

\* Mutant: the balance is checked, the locks are not.
Unstake_IgnoreLocks(acc, amount, height) ==
  IF ~acc.exists \/ amount >= 0 \/ acc.staked + amount < 0
  THEN Error(acc)
  ELSE Ok([acc EXCEPT !.staked = @ + amount,
                      !.operational = @ /\ acc.staked + amount # 0,
                      !.details = AddDetail(@, height, amount, 0)])

\* Mutant: the operator flag survives the last coin.
Unstake_KeepOperator(acc, amount, height) ==
  IF \/ ~acc.exists
     \/ amount >= 0
     \/ acc.staked - GetLockedAmount(acc, height) + amount < 0
  THEN Error(acc)
  ELSE Ok([acc EXCEPT !.staked = @ + amount,
                      !.details = AddDetail(@, height, amount, 0)])

Unstake(acc, amount, height) ==
  IF \/ ~acc.exists
     \/ amount >= 0
     \/ acc.staked + amount < 0
     \/ acc.staked - GetLockedAmount(acc, height) + amount < 0
  THEN Error(acc)
  ELSE LET slice == RemoveExpired(acc.locks, height)
       IN  IF slice.panic
           THEN Panic([acc EXCEPT !.locks = slice.array])
           ELSE Ok([acc EXCEPT
                      !.locks = SubSeq(slice.array, 1, slice.len),
                      !.staked = @ + amount,
                      !.operational = @ /\ acc.staked + amount # 0,
                      !.details = AddDetail(@, height, amount, 0)])

Reward(acc, reward, height) ==
  IF ~acc.exists \/ reward < 0
  THEN Error(acc)
  ELSE Ok([acc EXCEPT !.rewards = @ + reward,
                      !.details = AddDetail(@, height, 0, reward)])

WithdrawReward(acc, amount, height) ==
  IF ~acc.exists \/ amount >= 0 \/ acc.rewards + amount < 0
  THEN Error(acc)
  ELSE Ok([acc EXCEPT !.rewards = @ + amount,
                      !.details = AddDetail(@, height, 0, amount)])
=============================================================================
