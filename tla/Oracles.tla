------------------------------- MODULE Oracles -------------------------------
(***************************************************************************)
(* The price and random-number oracles, oracles/oraclesDefinition.go: every*)
(* nonce message brings a price and a number of a delegated account; the   *)
(* node that creates a block (services/blockCreation.go) computes one of   *)
(* each from those that are recent, and CheckBaseBlock recomputes them     *)
(* from the proposals in the block, with the stakes of that time.          *)
(***************************************************************************)
EXTENDS Integers, Sequences, FiniteSets, FiniteSetsExt, TLC

CONSTANTS
  Ids,                     \* delegated accounts
  Proposals,               \* <<price, rand>> of nonce messages; 0 is no proposal
  Stakes,                  \* what may be staked in every delegated account
  OraclesHeightDistance,
  MaxHeight                \* bound: the last height of the chain

VARIABLES
  height,      \* common.height
  oracles,     \* PriceOracles and RandOracles: the last proposal of every account
  staked,      \* GetStakedInDelegatedAccount of every account
  block,       \* the block that was created last and is on its way
  accepted     \* a block that was just accepted

vars == <<height, oracles, staked, block, accepted>>

NoProposal == [price |-> 0, rand |-> 0, height |-> -OraclesHeightDistance, staked |-> 0]
NoBlock == [height |-> 0, price |-> 0, rand |-> << >>, priceData |-> << >>,
            randData |-> << >>, staked |-> [i \in Ids |-> 0],
            saved |-> [i \in Ids |-> 0]]

Total(f) == MapThenSumSet(LAMBDA i : f[i], DOMAIN f)
TotalStaked == Total(staked)          \* GetStakedInAllDelegatedAccounts

\* staked <= 2*totalStaked/3
TooLittle(amount) == amount <= (2 * TotalStaked) \div 3

-----------------------------------------------------------------------------
\* SavePriceOracle and SaveRandOracle: a proposal replaces an older one.  (One
\* that arrives while a block is on its way changes nothing that the block's
\* check reads, and is left out.)
SaveOracles(id, proposal) ==
  LET h == height + 1
  IN  /\ block = NoBlock /\ height < MaxHeight
      /\ oracles[id].height <= h
      /\ oracles' = [oracles EXCEPT ![id] = [price |-> proposal[1], rand |-> proposal[2],
                                             height |-> h, staked |-> staked[id]]]
      /\ accepted' = NoBlock
      /\ UNCHANGED <<height, staked, block>>

\* GeneratePriceData and GenerateRandData: the accounts whose proposals of this
\* field are recent.  A map is iterated in any order.
Recent(field, h) ==
  {i \in Ids : h <= oracles[i].height + OraclesHeightDistance /\ oracles[i][field] > 0}

Orders(S) ==
  {f \in [1..Cardinality(S) -> S] : \A j, k \in DOMAIN f : f[j] = f[k] => j = k}

Data(order, field) ==
  [k \in DOMAIN order |-> [id |-> order[k], value |-> oracles[order[k]][field]]]

Values(data) == [k \in DOMAIN data |-> data[k].value]

Median(prices) ==
  LET mid == Len(prices) \div 2
  IN  IF Len(prices) % 2 = 0 THEN (prices[mid] + prices[mid + 1]) \div 2
      ELSE prices[mid + 1]

\* Mutant: the prices are not sorted before the ends are cut off.
TrimmedPrices_Unsorted(data) ==
  IF Len(data) <= 2 THEN Values(data) ELSE SubSeq(Values(data), 2, Len(data) - 1)

\* Of more than two prices the smallest and the largest are removed.
TrimmedPrices(data) ==
  IF Len(data) <= 2 THEN Values(data)
  ELSE SubSeq(SortSeq(Values(data), LAMBDA a, b : a < b), 2, Len(data) - 1)

\* Both are computed with the stakes that were saved with the proposals.
SavedStake(S) == MapThenSumSet(LAMBDA i : oracles[i].staked, S)

CalculatePriceOracle(data) ==
  IF TooLittle(SavedStake({data[k].id : k \in DOMAIN data})) \/ data = << >> THEN 0
  ELSE Median(TrimmedPrices(data))

\* CalculateRandOracle; the sequence of numbers stands for its hash.
CalculateRandOracle(data) ==
  IF TooLittle(SavedStake({data[k].id : k \in DOMAIN data})) THEN << >>
  ELSE Values(data)

\* ParsePriceData and ParseRandData sum the stakes of today.
StakeNow(data) == MapThenSumSet(LAMBDA k : staked[data[k].id], DOMAIN data)

VerifyPriceOracle(price, data) ==
  IF TooLittle(StakeNow(data)) THEN price = 0
  ELSE data # << >> /\ Median(TrimmedPrices(data)) = price

VerifyRandOracle(rand, data) ==
  IF TooLittle(StakeNow(data)) THEN rand = << >>
  ELSE data # << >> /\ Values(data) = rand

-----------------------------------------------------------------------------
Init ==
  /\ height = 0 /\ block = NoBlock /\ accepted = NoBlock
  /\ oracles = [i \in Ids |-> NoProposal]
  /\ staked = [i \in Ids |-> Max(Stakes[i])]

\* CreateBlockFromNonceMessage, as far as the oracles go.
CreateBlock ==
  LET h == height + 1
  IN  /\ height < MaxHeight /\ block = NoBlock
      /\ \E p \in Orders(Recent("price", h)), r \in Orders(Recent("rand", h)) :
           LET pd == Data(p, "price")  rd == Data(r, "rand")
           IN  block' = [height |-> h, staked |-> staked,
                         saved |-> [i \in Ids |-> oracles[i].staked],
                         price |-> CalculatePriceOracle(pd), priceData |-> pd,
                         rand |-> CalculateRandOracle(rd), randData |-> rd]
      /\ accepted' = NoBlock
      /\ UNCHANGED <<height, oracles, staked>>

\* The node applies a block of a peer meanwhile, which changes stakes.
Restake(id, amount) ==
  /\ amount # staked[id]
  /\ staked' = [staked EXCEPT ![id] = amount]
  /\ accepted' = NoBlock
  /\ UNCHANGED <<height, oracles, block>>

Accepts ==
  /\ VerifyPriceOracle(block.price, block.priceData)
  /\ VerifyRandOracle(block.rand, block.randData)

\* CheckBaseBlock of the block, while the node is not syncing.
CheckOracles ==
  /\ block # NoBlock
  /\ block' = NoBlock
  /\ IF Accepts
     THEN accepted' = block /\ height' = block.height
     ELSE UNCHANGED <<accepted, height>>
  /\ UNCHANGED <<oracles, staked>>

Next ==
  \/ \E id \in Ids, proposal \in Proposals : SaveOracles(id, proposal)
  \/ CreateBlock \/ CheckOracles
  \/ \E id \in Ids : \E amount \in Stakes[id] : Restake(id, amount)

Spec == Init /\ [][Next]_vars

-----------------------------------------------------------------------------
\* With proposals of three accounts or more, no single account moves the price
\* of an accepted block outside the prices of the others.
NobodySetsThePrice ==
  LET d == accepted.priceData
  IN  accepted.price # 0 /\ Len(d) > 2 =>
        \A k \in DOMAIN d :
          LET others == {d[j].value : j \in DOMAIN d \ {k}}
          IN  Min(others) <= accepted.price /\ accepted.price <= Max(others)

=============================================================================
