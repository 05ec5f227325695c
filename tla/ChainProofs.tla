----------------------------- MODULE ChainProofs -----------------------------
(***************************************************************************)
(* Theorems about the handlers that extend and roll back the chain         *)
(* (ChainSync), for any chains of the peers and any interleaving: what     *)
(* BlockMutex covers, and when memory and stores follow one chain.         *)
(***************************************************************************)
EXTENDS ChainSteps, FiniteSums

\* The first pass of "sh" finds a block that differs from the one stored.
LEMMA VerifyForksKeeps ==
  ASSUME SyncOK, NEW t \in Handlers, VerifyForks(t)
  PROVE  SyncOK'
<1> DEFINE l == local[t]
           k == Min(Differs(l))
           target == l.list[k].height - shift
           r == [l EXCEPT !.pc = "reset", !.adjust = TRUE, !.target = target]
<1>1. LocalOK(l) /\ l.pc = "verify" /\ Set(t, r) /\ blockMutex' = blockMutex /\ Differs(l) # {}
  BY DEF SyncOK, LocalsOK, VerifyForks
<1>2. NodeOK' /\ shift \in Nat
  BY NodeStays DEF SyncOK, NodeOK, VerifyForks, flags, stores
<1>3. blockMutex # t
  BY <1>1, NotHolding DEF Holding, Applying
<1>4. target \in Int /\ target <= MaxHeight
  <2>1. Len(l.list) \in Nat /\ Differs(l) \subseteq 1..Len(l.list)
    <3>1. l.list \in Seq(BlockType)
      BY <1>1 DEF LocalOK, ListOK
    <3>2. Differs(l) \subseteq DOMAIN l.list
      BY DEF Differs, Known
    <3> QED BY <3>1, <3>2
  <2>2. k \in 1..Len(l.list)
    <3>1. \E x \in Differs(l) : \A y \in Differs(l) : x <= y
      <4> HIDE DEF l
      <4> QED BY <2>1, <1>1, LeastPosition, Zenon, SMTT(20)
    <3>2. k \in Differs(l)
      BY <3>1 DEF Min
    <3> QED BY <2>1, <3>2
  <2>3. l.list[k].height \in Heights
    <3> HIDE DEF k
    <3> QED BY <2>2, <1>1 DEF LocalOK, ListOK
  <2> HIDE DEF k, l
  <2> QED BY <2>3, <1>2, ChainAssumption DEF Heights
<1>5. /\ DOMAIN r = {"pc", "h", "hmax", "list", "i", "old", "target", "adjust"}
      /\ r.pc = "reset" /\ r.h = l.h /\ r.hmax = l.hmax /\ r.list = l.list
      /\ r.target = target
  BY <1>1 DEF LocalOK
<1> HIDE DEF r, l, target
<1>6. LocalOK(r) /\ r.pc \notin Applying
  BY <1>1, <1>4, <1>5 DEF LocalOK, PCs, Holding, Applying
<1> QED BY <1>1, <1>2, <1>3, <1>6, WithoutLock DEF SyncOK

\* Every step of every handler keeps it.
LEMMA SyncStep ==
  ASSUME SyncOK, [Next]_vars
  PROVE  SyncOK'
<1>1. ASSUME NEW t \in Handlers, Step(t) PROVE SyncOK'
  BY <1>1, CheckBlockKeeps, VerifyKnownKeeps, VerifyForksKeeps, VerifyRefusesKeeps,
     VerifyPanicsKeeps, VerifyKeeps, LockKeeps, ApplyKeeps, ApplyFailsKeeps, StoreBlockKeeps,
     StoreAccountsKeeps, SetHeightKeeps, ResetGivesUpKeeps, ResetLoadKeeps, ResetRemoveKeeps,
     ResetHeightKeeps DEF Step
<1>2. ASSUME NEW list \in inbox, LoseHeaders(list) PROVE SyncOK'
  BY <1>2 DEF LoseHeaders, SyncOK, LocalsOK, NodeOK, LockOK, flags, stores
<1>3. ASSUME NEW b \in Blocks, ReceiveTransactions(b) PROVE SyncOK'
  BY <1>3 DEF ReceiveTransactions, SyncOK, LocalsOK, NodeOK, LockOK, flags, stores
<1>4. CASE UNCHANGED vars
  BY <1>4 DEF vars, SyncOK, LocalsOK, NodeOK, LockOK, flags, stores
<1> QED BY <1>1, <1>2, <1>3, <1>4, ReceiveBlockKeeps, ReceiveHiKeeps, ReceiveHeadersKeeps DEF Next

\* However many handlers interleave, whatever they receive and whatever chain the
\* node starts with: the handler that applies blocks holds BlockMutex, so that no
\* two do, and a handler that has returned does not hold it, whichever of its
\* returns it took.
THEOREM LockAlwaysCoversApply == Spec => []LockCoversApply
<1>1. SyncOK => LockCoversApply
  BY FreeAssumption DEF SyncOK, LockOK, LockCoversApply, Holding, Applying
<1> QED BY <1>1, SyncInit, SyncStep, PTL DEF Spec

-----------------------------------------------------------------------------
(***************************************************************************)
(* One handler has messages.                                               *)
(***************************************************************************)

\* The invariant of a node with one handler.
AloneOK == SyncOK /\ ChainOK /\ SoloOK /\ OneHandler

\* It holds of a node that starts.
LEMMA AloneInit ==
  ASSUME Init, OneHandler
  PROVE  AloneOK
<1>1. \A t \in Handlers : local[t] = Idle
  BY DEF Init
<1>2. SoloOK
  BY <1>1, IdleIsTyped DEF SoloOK, ActiveOK, ReadOK
<1> QED BY <1>2, SyncInit, ChainInit DEF AloneOK

\* Every step of the handler keeps it.
LEMMA AloneStep ==
  ASSUME AloneOK, [Next]_vars
  PROVE  AloneOK'
<1>1. SyncOK' /\ SoloOK' /\ OneHandler'
  BY SyncStep, SoloStep DEF AloneOK
<1>2. OneBusy /\ OneBusy'
  BY <1>1, SoloIsBusy DEF AloneOK, SoloOK, OneBusy, Busy, OneHandler, ActiveOK
<1>3. OnTop
  BY DEF AloneOK, SoloOK, ReadOK, OnTop
<1> QED BY <1>1, <1>2, <1>3, ChainStep DEF AloneOK


-----------------------------------------------------------------------------
(***************************************************************************)
(* Any number of connections bring blocks, and none synchronises.  What a  *)
(* handler read of the height may be late by the time it has BlockMutex;   *)
(* the check of the supply refuses its block then, as long as every block  *)
(* creates more than it charges.                                           *)
(***************************************************************************)
FeesBelowReward == \A b \in Blocks : b.fees < Reward

BlocksOnly == active \subseteq NonceHandlers

\* The fees of the chain that are stored with a block are those of the block
\* before and its own.
TotalsOK(db) ==
  \A h \in Heights : h >= 1 /\ db[h] # None =>
    db[h].total = db[h - 1].total + db[h].fees /\ db[h].fees < Reward

\* A handler has one block; the block before it is, as long as that matters, the
\* stored one.
OldOK(l) ==
  /\ l.pc \in {"idle", "bl"} \cup Holding
  /\ l.pc \in Applying => l.i = Len(l.list)
  /\ l.pc = "apply" => l.old = blockDB[l.old.height]
  /\ l.pc = "storeBlock" => l.old = blockDB[height]

LateOK ==
  /\ ActiveOK /\ BlocksOnly /\ FeesBelowReward /\ TotalsOK(blockDB)
  /\ \A t \in Handlers : OldOK(local[t])
  /\ \A t \in Handlers : local[t].pc \in Holding => blockMutex = t

\* The coins that the first h stored blocks created, less their fees.
Created(db, h) == Reward * h - db[h].total

\* They become more with every block.
LEMMA CreatedStep ==
  ASSUME NEW db \in [Heights -> BlockType], NEW n, BlocksAt(db, n), TotalsOK(db), NEW h \in 1..n
  PROVE  /\ Created(db, h - 1) \in Int /\ Created(db, h) \in Int
         /\ Created(db, h) = Created(db, h - 1) + (Reward - db[h].fees)
         /\ Created(db, h - 1) < Created(db, h)
<1> DEFINE p == h - 1
<1>1. /\ n \in Nat /\ h \in Heights /\ p \in Heights /\ h \in Nat /\ p \in Nat
      /\ h = p + 1 /\ h >= 1 /\ h \in 0..n /\ Reward \in Nat
  BY ChainAssumption DEF BlocksAt, Heights
<1>2. db[h] # None
  BY <1>1, LastBlockStored
<1>3. db[h].total = db[p].total + db[h].fees /\ db[h].fees < Reward
  BY <1>1, <1>2 DEF TotalsOK
<1>4. db[h].total \in Nat /\ db[p].total \in Nat /\ db[h].fees \in Nat
  <2>1. db[h] \in BlockType /\ db[p] \in BlockType
    BY <1>1
  <2> QED BY <2>1 DEF BlockType
<1> DEFINE tp == db[p].total
           th == db[h].total
           f == db[h].fees
<1>5. Reward * h = Reward * p + Reward /\ Reward * p \in Nat
  <2> HIDE DEF p
  <2> QED BY <1>1
<1> DEFINE x == Reward * p
           y == Reward * h
<1>6. Created(db, p) = x - tp /\ Created(db, h) = y - th
  BY DEF Created
<1> HIDE DEF tp, th, f, x, y
<1>7. y = x + Reward /\ x \in Nat /\ th = tp + f /\ tp \in Nat /\ f \in Nat /\ f < Reward
  BY <1>3, <1>4, <1>5 DEF tp, th, f, x, y
<1>8. /\ x - tp \in Int /\ y - th \in Int /\ y - th = (x - tp) + (Reward - f) /\ x - tp < y - th
  BY <1>1, <1>7
<1> QED BY <1>6, <1>8 DEF f

\* So no two heights have the same.
LEMMA CreatedGrows ==
  ASSUME NEW db \in [Heights -> BlockType], NEW n, BlocksAt(db, n), TotalsOK(db), NEW k \in 0..n,
         k < n
  PROVE  Created(db, k) < Created(db, n)
<1> DEFINE C(h) == Created(db, h)
           S == {h \in 1..n : k < h /\ ~(C(k) < C(h))}
<1>1. n \in Nat /\ k \in Nat
  BY ChainAssumption DEF BlocksAt, Heights
<1>2. \A h \in 1..n : C(h - 1) \in Int /\ C(h) \in Int /\ C(h - 1) < C(h)
  BY CreatedStep
<1> HIDE DEF C
<1>3. ASSUME S # {} PROVE FALSE
  <2>1. PICK j \in S : \A i \in S : j <= i
    BY <1>1, <1>3, LeastPosition
  <2>2. j \in 1..n /\ k < j /\ ~(C(k) < C(j)) /\ j \in Nat
    BY <1>1, <2>1
  <2>3. C(j - 1) \in Int /\ C(j) \in Int /\ C(j - 1) < C(j)
    BY <1>2, <2>2
  <2>4. CASE j - 1 = k
    BY <2>2, <2>3, <2>4
  <2>5. CASE j - 1 # k
    <3>1. j - 1 \in 1..n /\ k < j - 1 /\ ~(j <= j - 1)
      BY <1>1, <2>2, <2>5
    <3>2. C(k) < C(j - 1)
      BY <2>1, <3>1
    <3>3. C(k) \in Int
      <4>1. k = (k + 1) - 1 /\ k + 1 \in 1..n
        BY <1>1
      <4> QED BY <1>2, <4>1
    <3> DEFINE a == C(k)
               b == C(j - 1)
               c == C(j)
    <3> HIDE DEF a, b, c
    <3>4. a \in Int /\ b \in Int /\ c \in Int /\ a < b /\ b < c /\ ~(a < c)
      BY <2>2, <2>3, <3>2, <3>3 DEF a, b, c
    <3> QED BY <3>4
  <2> QED BY <2>4, <2>5
<1>4. n \in 1..n
  BY <1>1
<1> QED BY <1>3, <1>4 DEF C

\* They are what GetSupplyInAccounts counts.
LEMMA CoinsAre ==
  ASSUME NEW db \in [Heights -> BlockType], NEW n, BlocksAt(db, n), TotalsOK(db),
         NEW ledger \in Seq(BlockType), Matches(db, ledger, n)
  PROVE  CoinsAfter(ledger) = Created(db, n)
<1> DEFINE f == [i \in DOMAIN ledger |-> Reward - ledger[i].fees]
           F(m) == SumFunctionOnSet(f, 1..m)
           C(m) == Created(db, m)
           S == {m \in 1..n : F(m) # C(m)}
<1>1. n \in Nat /\ Reward \in Nat /\ 0 \in Heights /\ \A m \in 1..n : m \in Heights
  BY ChainAssumption DEF BlocksAt, Heights
<1>2. ASSUME NEW m \in 1..n PROVE f[m] = Reward - db[m].fees /\ f[m] \in Int
  <2>1. m \in DOMAIN ledger /\ ledger[m] \in BlockType /\ db[m] \in BlockType /\ Same(ledger[m], db[m])
    BY <1>1 DEF Matches
  <2>2. ledger[m].fees = db[m].fees /\ db[m].fees \in Nat
    BY <2>1, SameFields DEF BlockType
  <2> QED BY <1>1, <2>1, <2>2
<1>3. F(0) = C(0)
  <2>1. 1..0 = {}
    OBVIOUS
  <2>2. F(0) = 0
    BY <2>1, SumEmpty
  <2>3. C(0) = 0
    BY <1>1, StartAssumption DEF BlocksAt, Created
  <2> QED BY <2>2, <2>3
<1> HIDE DEF f
<1>4. ASSUME NEW m \in 1..n PROVE F(m) = f[m] + F(m - 1) /\ F(m - 1) \in Int
  <2>1. m \in Nat /\ m \in 1..m /\ (1..m) \ {m} = 1..(m - 1) /\ \A i \in 1..m : i \in 1..n
    BY <1>1
  <2>2. IsFiniteSet(1..m)
    BY <2>1, FS_Interval
  <2>3. \A i \in 1..m : f[i] \in Int
    BY <1>2, <2>1
  <2> DEFINE T == 1..m
  <2>4. IsFiniteSet(T) /\ m \in T /\ \A i \in T : f[i] \in Int
    BY <2>1, <2>2, <2>3
  <2>5. T \ {m} = 1..(m - 1)
    BY <2>1
  <2> HIDE DEF T
  <2>6. /\ SumFunctionOnSet(f, T) = f[m] + SumFunctionOnSet(f, T \ {m})
        /\ SumFunctionOnSet(f, T \ {m}) \in Int
    BY <2>4, SumSplit
  <2> QED BY <2>5, <2>6 DEF T
<1>5. \A m \in 1..n : C(m) = C(m - 1) + (Reward - db[m].fees) /\ C(m - 1) \in Int
  BY CreatedStep
<1>6. CoinsAfter(ledger) = F(n)
  BY DEF CoinsAfter, Matches, f
<1> HIDE DEF F, C
<1>7. ASSUME S # {} PROVE FALSE
  <2>1. PICK j \in S : \A i \in S : j <= i
    BY <1>1, <1>7, LeastPosition
  <2>2. j \in 1..n /\ F(j) # C(j) /\ j \in Nat
    BY <1>1, <2>1
  <2>3. F(j - 1) = C(j - 1)
    <3>1. j - 1 = 0 \/ (j - 1 \in 1..n /\ ~(j <= j - 1))
      BY <1>1, <2>2
    <3> QED BY <1>3, <2>1, <3>1
  <2>4. F(j) = f[j] + F(j - 1) /\ C(j) = C(j - 1) + f[j] /\ f[j] \in Int /\ C(j - 1) \in Int
    BY <1>2, <1>4, <1>5, <2>2
  <2> DEFINE a == f[j]
             b == C(j - 1)
  <2> HIDE DEF a, b
  <2>5. F(j) = a + b /\ C(j) = b + a /\ a \in Int /\ b \in Int
    BY <2>3, <2>4 DEF a, b
  <2> QED BY <2>2, <2>5
<1>8. n = 0 \/ n \in 1..n
  BY <1>1
<1> QED BY <1>3, <1>6, <1>7, <1>8 DEF C


\* A handler that is late never gets past the check of the supply.
LEMMA LateIsRefused ==
  ASSUME SyncOK, ChainOK, LateOK
  PROVE  OnTop
<1> SUFFICES ASSUME NEW t \in Handlers, local[t].pc = "apply", SupplyMatches(local[t].old)
             PROVE  local[t].old.height = height
  BY DEF OnTop
<1> DEFINE k == local[t].old.height
<1>1. TaskOK(local[t])
  BY SMTT(20), Zenon DEF ChainOK, Busy
<1>2. NodeAt(height) /\ k <= height /\ local[t].old = blockDB[k] /\ k \in Heights
  BY <1>1, SMTT(20), Zenon DEF TaskOK, LateOK, OldOK, SyncOK, LocalsOK, LocalOK, Applying
<1>3. blockDB \in [Heights -> BlockType] /\ accounts \in Seq(BlockType) /\ TotalsOK(blockDB)
  BY DEF ChainOK, TypedOK, LateOK
<1>4. BlocksAt(blockDB, height) /\ Matches(blockDB, accounts, height)
  BY <1>2 DEF NodeAt, Stored, InMemory
<1>5. height \in Nat /\ k \in 0..height /\ k \in Nat /\ Reward \in Nat
  BY <1>2, <1>4, TopHeight, ChainAssumption DEF Heights
<1>6. CoinsAfter(accounts) = Created(blockDB, height)
  BY <1>3, <1>4, CoinsAre
<1>7. CoinsAfter(accounts) + blockDB[k].total = Reward * k
  BY <1>2 DEF SupplyMatches
<1>8. blockDB[k].total \in Nat
  BY <1>2, <1>3 DEF BlockType
<1> HIDE DEF k
<1>9. ASSUME k < height PROVE FALSE
  <2>1. Created(blockDB, k) < Created(blockDB, height)
    BY <1>3, <1>4, <1>5, <1>9, CreatedGrows
  <2>2. Created(blockDB, height) \in Int
    <3>1. height \in 1..height
      BY <1>5, <1>9
    <3> QED BY <1>3, <1>4, <3>1, CreatedStep
  <2> DEFINE v == blockDB[k].total
             w == Reward * k
             c == Created(blockDB, height)
  <2>3. w \in Nat
    BY <1>5
  <2>4. Created(blockDB, k) = w - v
    BY DEF Created
  <2> HIDE DEF v, w, c
  <2>5. w \in Nat /\ v \in Nat /\ c \in Int /\ c + v = w /\ w - v < c
    BY <1>6, <1>7, <1>8, <2>1, <2>2, <2>3, <2>4 DEF v, w, c
  <2> QED BY <2>5
<1> QED BY <1>5, <1>9 DEF k

\* Only the handler that holds BlockMutex is busy.
LEMMA LateIsBusy ==
  ASSUME LateOK
  PROVE  OneBusy
BY DEF LateOK, OldOK, OneBusy, Busy

\* A node that starts with the fees of its chain.
LEMMA LateInit ==
  ASSUME Init, BlocksOnly, FeesBelowReward
  PROVE  LateOK
<1>1. \A t \in Handlers : local[t] = Idle
  BY DEF Init
<1>2. /\ ActiveOK /\ \A t \in Handlers : OldOK(local[t])
      /\ \A t \in Handlers : local[t].pc \notin Holding
  BY <1>1, IdleIsTyped DEF ActiveOK, OldOK, Holding, Applying
<1>3. PICK c \in StartChains :
        blockDB = [h \in Heights |-> IF h <= Len(c) THEN IF h = 0 THEN Genesis ELSE c[h] ELSE None]
  BY DEF Init
<1>4. ASSUME NEW h \in Heights, h >= 1, blockDB[h] # None
      PROVE  blockDB[h].total = blockDB[h - 1].total + blockDB[h].fees /\ blockDB[h].fees < Reward
  <2> DEFINE p == h - 1
  <2>1. /\ h \in Nat /\ p \in Heights /\ h # 0 /\ c \in Seq(BlockType) /\ Len(c) \in Nat
        /\ (p = 0 <=> h = 1)
    BY <1>4, ChainAssumption DEF Heights
  <2>2. h <= Len(c) /\ blockDB[h] = c[h]
    BY <1>3, <1>4, <2>1
  <2>3. h \in 1..Len(c) /\ p <= Len(c)
    BY <1>4, <2>1, <2>2
  <2>4. blockDB[p] = IF p = 0 THEN Genesis ELSE c[p]
    BY <1>3, <2>1, <2>3
  <2>5. c[h].total = (IF h = 1 THEN 0 ELSE c[p].total) + c[h].fees /\ Genesis.total = 0
    BY <2>3, StartAssumption
  <2>6. c[h] \in Blocks
    BY <2>1, <2>3 DEF Blocks
  <2>7. blockDB[p].total = IF h = 1 THEN 0 ELSE c[p].total
    BY <2>1, <2>4, <2>5
  <2> HIDE DEF p
  <2>8. blockDB[h].total = blockDB[p].total + blockDB[h].fees
    BY <2>2, <2>5, <2>7
  <2> QED BY <2>2, <2>6, <2>8 DEF FeesBelowReward, p
<1> QED BY <1>2, <1>4 DEF LateOK, TotalsOK

\* The handler that holds BlockMutex, or nobody else does, moves.
LEMMA LateMoves ==
  ASSUME SyncOK, LateOK, ActiveOK', active' = active, NEW t \in Handlers, NEW r, Set(t, r),
         \A u \in Handlers : u # t => local[u].pc \notin Holding,
         TotalsOK(blockDB'), OldOK(local[t])', r.pc \in Holding => blockMutex' = t
  PROVE  LateOK'
<1>1. local'[t] = r /\ \A u \in Handlers : u # t => local'[u] = local[u]
  BY SetIs DEF SyncOK
<1>2. BlocksOnly' /\ FeesBelowReward' /\ TotalsOK(blockDB)'
  BY DEF LateOK, BlocksOnly, FeesBelowReward, TotalsOK
<1>3. ASSUME NEW u \in Handlers, u # t
      PROVE  OldOK(local[u])' /\ local'[u].pc \notin Holding
  <2>1. local'[u] = local[u] /\ local[u].pc \in {"idle", "bl"}
    BY <1>1, <1>3 DEF LateOK, OldOK
  <2> QED BY <2>1 DEF OldOK, Holding, Applying
<1> QED BY <1>1, <1>2, <1>3 DEF LateOK

\* The one that holds it is alone with it.
LEMMA HoldsAlone ==
  ASSUME LateOK, NEW t \in Handlers, local[t].pc \in Holding
  PROVE  blockMutex = t /\ \A u \in Handlers : u # t => local[u].pc \notin Holding
BY DEF LateOK

\* It returns.
LEMMA LateReturns ==
  ASSUME SyncOK, LateOK, ActiveOK', active' = active, NEW t \in Handlers,
         local[t].pc \in Holding, Set(t, Idle), blockDB' = blockDB
  PROVE  LateOK'
<1>1. local'[t] = Idle
  BY SetIs DEF SyncOK
<1>2. Idle.pc = "idle" /\ Idle.pc \notin Holding
  BY IdleIsOK
<1>3. OldOK(local[t])'
  BY <1>1, <1>2 DEF OldOK, Holding, Applying
<1>4. TotalsOK(blockDB')
  BY DEF LateOK, TotalsOK
<1> QED BY <1>2, <1>3, <1>4, HoldsAlone, LateMoves

\* It goes on, to where the block before the one it applies matters no more.
LEMMA LateGoesOn ==
  ASSUME SyncOK, LateOK, ActiveOK', active' = active, NEW t \in Handlers,
         local[t].pc \in Holding, NEW r, Set(t, r), TotalsOK(blockDB'), blockMutex' = blockMutex,
         r.pc \in Holding \ {"apply", "storeBlock"}, r.pc \in Applying => r.i = Len(r.list)
  PROVE  LateOK'
<1>1. local'[t] = r
  BY SetIs DEF SyncOK
<1>2. OldOK(local[t])'
  BY <1>1 DEF OldOK
<1> QED BY <1>2, HoldsAlone, LateMoves

\* Nothing that it speaks of changes.
LEMMA LateStays ==
  ASSUME LateOK, ActiveOK', active' = active, UNCHANGED <<local, blockDB, height, blockMutex>>
  PROVE  LateOK'
BY DEF LateOK, BlocksOnly, FeesBelowReward, TotalsOK, OldOK

\* A handler takes a message or drops it, while another one may hold BlockMutex.
LEMMA LateWaits ==
  ASSUME SyncOK, LateOK, ActiveOK', active' = active, NEW t \in Handlers,
         local[t].pc \in {"idle", "bl"}, NEW r, Set(t, r), r.pc \in {"idle", "bl"},
         UNCHANGED <<blockDB, height, blockMutex>>
  PROVE  LateOK'
<1>1. local'[t] = r /\ \A u \in Handlers : u # t => local'[u] = local[u]
  BY SetIs DEF SyncOK
<1>2. BlocksOnly' /\ FeesBelowReward' /\ TotalsOK(blockDB)'
  BY DEF LateOK, BlocksOnly, FeesBelowReward, TotalsOK
<1>3. OldOK(local[t])' /\ local'[t].pc \notin Holding
  BY <1>1 DEF OldOK, Holding, Applying
<1>4. ASSUME NEW u \in Handlers, u # t
      PROVE  OldOK(local[u])' /\ (local'[u].pc \in Holding => blockMutex' = u)
  BY <1>1, <1>4, Zenon, SMTT(20) DEF LateOK, OldOK
<1> QED BY <1>2, <1>3, <1>4, Zenon, SMTT(20) DEF LateOK

\* A block arrives.
LEMMA ReceiveBlockLate ==
  ASSUME SyncOK, LateOK, ActiveOK', active' = active, NEW t \in Handlers, NEW b \in Blocks,
         ReceiveBlock(t, b)
  PROVE  LateOK'
<1> DEFINE r == [Idle EXCEPT !.pc = "bl", !.h = height, !.list = <<b>>]
<1>1. Set(t, r) /\ local[t].pc = "idle" /\ UNCHANGED <<blockDB, height, blockMutex>>
  BY DEF ReceiveBlock, stores
<1>2. r.pc = "bl"
  BY DEF Idle
<1> HIDE DEF r
<1> QED BY <1>1, <1>2, LateWaits

\* It is checked against the block stored at the height that was read on arrival.
LEMMA CheckBlockLate ==
  ASSUME SyncOK, ChainOK, LateOK, ActiveOK', active' = active, NEW t \in Handlers,
         NEW refused \in BOOLEAN, CheckBlock(t, refused)
  PROVE  LateOK'
<1> DEFINE l == local[t]
           k == l.h
           r == [l EXCEPT !.pc = "apply", !.i = 1, !.old = blockDB[k]]
<1>1. l.pc = "bl" /\ blockMutex = Free /\ LocalOK(l) /\ UNCHANGED <<blockDB, height>>
  BY DEF CheckBlock, SyncOK, LocalsOK, stores
<1>2. CASE Set(t, Idle) /\ blockMutex' = blockMutex
  BY <1>1, <1>2, IdleIsOK, LateWaits
<1>3. CASE Set(t, r) /\ blockMutex' = t /\ blockDB[k] # None
  <2>1. r.pc = "apply" /\ r.i = 1 /\ r.list = l.list /\ r.old = blockDB[k]
    BY <1>1 DEF LocalOK
  <2>2. Len(r.list) = 1 /\ k \in Heights
    BY <1>1, <2>1 DEF LocalOK
  <2>3. \A u \in Handlers : local[u].pc \notin Holding
    BY <1>1, FreeAssumption DEF LateOK
  <2>4. NodeAt(height)
    BY <2>3 DEF LateOK, OldOK, ChainOK, Busy
  <2>5. BlocksAt(blockDB, height) /\ height \in Nat
    BY <2>4, TopHeight DEF NodeAt, Stored
  <2> HIDE DEF r, l, k
  <2>6. blockDB[k].height = k
    <3>1. ~(k > height)
      BY <1>3, <2>2, <2>5 DEF BlocksAt
    <3>2. k \in Nat /\ (k = 0 \/ k \in 1..height)
      BY <2>2, <2>5, <3>1, HeightsAreNat
    <3> QED BY <2>5, <3>2, ChainAssumption DEF BlocksAt
  <2>7. local'[t] = r
    BY <1>3, SetIs DEF SyncOK
  <2>8. OldOK(local[t])'
    BY <1>1, <2>1, <2>2, <2>6, <2>7, SMTT(20), Zenon DEF OldOK, Holding, Applying
  <2>9. TotalsOK(blockDB')
    BY <1>1 DEF LateOK
  <2> QED BY <1>3, <2>3, <2>8, <2>9, LateMoves
<1> QED BY <1>2, <1>3 DEF CheckBlock

\* A block is applied, to the last one of the node.
LEMMA ApplyLate ==
  ASSUME SyncOK, ChainOK, LateOK, ActiveOK', active' = active, NEW t \in Handlers, Apply(t)
  PROVE  LateOK'
<1> DEFINE l == local[t]
           r == [l EXCEPT !.pc = "storeBlock"]
<1>1. /\ l.pc = "apply" /\ SupplyMatches(l.old) /\ LocalOK(l) /\ Set(t, r)
      /\ UNCHANGED <<blockDB, height, blockMutex>>
  BY SMTT(20), Zenon DEF Apply, SyncOK, LocalsOK, stores
<1>2. r.pc = "storeBlock" /\ r.i = l.i /\ r.list = l.list /\ r.old = l.old
  BY <1>1 DEF LocalOK
<1>3. l.pc \in Holding /\ l.i = Len(l.list) /\ l.old = blockDB[l.old.height]
  BY <1>1 DEF LateOK, OldOK, Holding, Applying
<1>4. l.old.height = height
  BY <1>1, LateIsRefused DEF OnTop
<1> HIDE DEF r, l
<1>5. local'[t] = r
  BY <1>1, SetIs DEF SyncOK
<1>6. OldOK(local[t])'
  BY <1>1, <1>2, <1>3, <1>4, <1>5 DEF OldOK, Holding, Applying
<1>7. TotalsOK(blockDB')
  BY <1>1 DEF LateOK
<1> QED BY <1>1, <1>3, <1>6, <1>7, HoldsAlone, LateMoves DEF l

\* Or it fails.
LEMMA ApplyFailsLate ==
  ASSUME SyncOK, LateOK, ActiveOK', active' = active, NEW t \in Handlers, ApplyFails(t)
  PROVE  LateOK'
<1> DEFINE l == local[t]
           r == [l EXCEPT !.pc = "reset", !.target = l.old.height]
<1>1. l.pc = "apply" /\ LocalOK(l) /\ Set(t, r) /\ UNCHANGED <<blockDB, height, blockMutex>>
  BY DEF ApplyFails, SyncOK, LocalsOK, stores
<1>2. r.pc = "reset"
  BY <1>1 DEF LocalOK
<1>3. TotalsOK(blockDB')
  BY <1>1 DEF LateOK
<1> HIDE DEF r
<1> QED BY <1>1, <1>2, <1>3, LateGoesOn DEF Holding, Applying

\* It is stored, with the fees of the chain up to it.
LEMMA StoreBlockLate ==
  ASSUME SyncOK, ChainOK, LateOK, ActiveOK', active' = active, NEW t \in Handlers, StoreBlock(t)
  PROVE  LateOK'
<1> DEFINE l == local[t]
           b == l.list[l.i]
           row == [b EXCEPT !.total = l.old.total + b.fees]
           r == [l EXCEPT !.pc = "storeAccounts"]
<1>1. /\ l.pc = "storeBlock" /\ Set(t, r) /\ blockDB' = [blockDB EXCEPT ![b.height] = row]
      /\ blockMutex' = blockMutex
  BY DEF StoreBlock
<1>2. /\ LocalOK(l) /\ TaskOK(l) /\ b \in BlockType /\ l.old \in BlockType /\ b.height \in Heights
      /\ height \in Nat /\ height \in Heights /\ Served(l.list) /\ l.i \in 1..Len(l.list)
  BY <1>1, Applies, Zenon, SMTT(20) DEF Applying
<1>3. BlocksAt(blockDB, height) /\ b.height = height + 1
  BY <1>1, <1>2, Zenon, SMTT(20) DEF TaskOK, Stored, NextOK
<1>4. b.fees < Reward
  <2>1. b.height >= 1
    BY <1>2, <1>3
  <2>2. b \in Blocks
    BY <1>2, <2>1, Zenon, SMTT(20) DEF Served
  <2> QED BY <2>2, Zenon, SMTT(20) DEF LateOK, FeesBelowReward
<1>5. l.old = blockDB[height] /\ l.i = Len(l.list)
  BY <1>1 DEF LateOK, OldOK, Applying
<1>6. row.total = l.old.total + b.fees /\ row.fees = b.fees
  BY <1>2 DEF BlockType
<1>7. r.pc = "storeAccounts" /\ r.i = l.i /\ r.list = l.list
  BY <1>2 DEF LocalOK
<1>8. blockDB \in [Heights -> BlockType] /\ TotalsOK(blockDB)
  BY DEF ChainOK, TypedOK, LateOK
<1> HIDE DEF r, l, b, row
<1>9. /\ blockDB'[height + 1] = row
      /\ \A h \in Heights : h # height + 1 => blockDB'[h] = blockDB[h]
  BY <1>1, <1>2, <1>3, <1>8
<1>10. ASSUME NEW h \in Heights, h >= 1, blockDB'[h] # None
       PROVE  /\ blockDB'[h].total = blockDB'[h - 1].total + blockDB'[h].fees
              /\ blockDB'[h].fees < Reward
  <2> DEFINE p == h - 1
  <2>1. p \in Heights /\ h \in Nat
    BY <1>10, ChainAssumption DEF Heights
  <2>2. CASE h = height + 1
    <3>1. p = height /\ height # height + 1
      BY <1>2, <2>2
    <3>2. blockDB'[p] = blockDB[height] /\ blockDB'[h] = row
      BY <1>2, <1>9, <2>2, <3>1
    <3> HIDE DEF p
    <3>3. blockDB'[h].total = blockDB'[p].total + blockDB'[h].fees
      BY <1>5, <1>6, <3>2
    <3> QED BY <1>4, <1>6, <3>2, <3>3 DEF p
  <2>3. CASE h # height + 1
    <3>1. blockDB'[h] = blockDB[h]
      BY <1>9, <2>3
    <3>2. ~(h > height)
      BY <1>3, <1>10, <3>1, Zenon, SMTT(20) DEF BlocksAt
    <3>3. p # height + 1
      BY <1>2, <2>1, <3>2
    <3>4. blockDB'[p] = blockDB[p]
      BY <1>9, <2>1, <3>3
    <3>5. blockDB[h].total = blockDB[p].total + blockDB[h].fees /\ blockDB[h].fees < Reward
      BY <1>8, <1>10, <3>1 DEF TotalsOK
    <3> QED BY <3>1, <3>4, <3>5
  <2> QED BY <2>2, <2>3
<1>11. TotalsOK(blockDB')
  BY <1>10 DEF TotalsOK
<1> QED BY <1>1, <1>5, <1>7, <1>11, LateGoesOn DEF l, Holding, Applying

\* So are its accounts.
LEMMA StoreAccountsLate ==
  ASSUME SyncOK, LateOK, ActiveOK', active' = active, NEW t \in Handlers,
         StoreAccounts(t) \/ StoreStakingAccounts(t)
  PROVE  LateOK'
<1> DEFINE l == local[t]
<1>1. PICK next \in {"storeStaking", "setHeight"} : Set(t, [l EXCEPT !.pc = next])
  BY SMTT(20), Zenon DEF StoreAccounts, StoreStakingAccounts
<1>2. /\ l.pc \in {"storeAccounts", "storeStaking"} /\ LocalOK(l)
      /\ blockDB' = blockDB /\ blockMutex' = blockMutex
  BY DEF StoreAccounts, StoreStakingAccounts, SyncOK, LocalsOK
<1> DEFINE r == [l EXCEPT !.pc = next]
<1>3. Set(t, r) /\ r.pc = next /\ r.i = l.i /\ r.list = l.list
  BY <1>1, <1>2 DEF LocalOK
<1>4. l.i = Len(l.list) /\ l.pc \in Holding
  BY <1>2 DEF LateOK, OldOK, Holding, Applying
<1>5. TotalsOK(blockDB')
  BY <1>2 DEF LateOK
<1>6. next \in Holding \ {"apply", "storeBlock"}
  BY <1>1 DEF Holding, Applying
<1> HIDE DEF r
<1> QED BY <1>2, <1>3, <1>4, <1>5, <1>6, LateGoesOn

\* The height is set: the handler has no other block and returns.
LEMMA SetHeightLate ==
  ASSUME SyncOK, LateOK, ActiveOK', active' = active, NEW t \in Handlers, SetHeight(t)
  PROVE  LateOK'
<1>1. local[t].pc = "setHeight" /\ blockDB' = blockDB
  BY SMTT(20), Zenon DEF SetHeight, stores
<1>2. local[t].i = Len(local[t].list) /\ local[t].pc \in Holding
  BY <1>1 DEF LateOK, OldOK, Holding, Applying
<1>3. Set(t, Idle)
  BY <1>2, SMTT(20), Zenon DEF SetHeight, Unlock
<1> QED BY <1>1, <1>2, <1>3, LateReturns

\* A reset loads the accounts of its target...
LEMMA ResetLoadLate ==
  ASSUME SyncOK, LateOK, ActiveOK', active' = active, NEW t \in Handlers, ResetLoad(t)
  PROVE  LateOK'
<1> DEFINE l == local[t]
           r == [l EXCEPT !.pc = "remove", !.target = Max({0, l.target})]
<1>1. /\ l.pc = "reset" /\ LocalOK(l) /\ Set(t, r)
      /\ blockDB' = blockDB /\ blockMutex' = blockMutex
  BY SMTT(20), Zenon DEF ResetLoad, SyncOK, LocalsOK, stores
<1>2. r.pc = "remove"
  BY <1>1 DEF LocalOK
<1>3. TotalsOK(blockDB')
  BY <1>1 DEF LateOK
<1> HIDE DEF r
<1> QED BY <1>1, <1>2, <1>3, LateGoesOn DEF Holding, Applying

\* ... removes the blocks above it...
LEMMA ResetRemoveLate ==
  ASSUME SyncOK, ChainOK, LateOK, ActiveOK', active' = active, NEW t \in Handlers, ResetRemove(t)
  PROVE  LateOK'
<1> DEFINE l == local[t]
           k == l.target
           hb == LastHeightStored(blockDB, None)
           r == [l EXCEPT !.pc = "resetHeight"]
<1>1. /\ l.pc = "remove" /\ Set(t, r) /\ blockMutex' = blockMutex /\ LocalOK(l) /\ Busy(t)
      /\ blockDB' = [h \in Heights |-> IF h \in (k + 1)..hb THEN None ELSE blockDB[h]]
  BY SMTT(20), Zenon DEF ResetRemove, SyncOK, LocalsOK, Busy
<1>2. BlocksAt(blockDB, height) /\ k \in 0..height
  BY <1>1, Zenon, SMTT(20) DEF ChainOK, TaskOK, Stored
<1>3. height \in Nat /\ hb = height /\ k \in Nat
  BY <1>2, TopHeight, LastBlockStored
<1>4. r.pc = "resetHeight"
  BY <1>1 DEF LocalOK
<1> HIDE DEF r, k, hb
<1>5. ASSUME NEW h \in Heights, h >= 1, blockDB'[h] # None
      PROVE  /\ blockDB'[h].total = blockDB'[h - 1].total + blockDB'[h].fees
             /\ blockDB'[h].fees < Reward
  <2> DEFINE p == h - 1
  <2>1. p \in Heights /\ h \in Nat
    BY <1>5, ChainAssumption DEF Heights
  <2>2. blockDB'[h] = blockDB[h] /\ h \notin (k + 1)..height
    BY <1>1, <1>3, <1>5
  <2>3. ~(h > height)
    BY <1>2, <1>5, <2>2, Zenon, SMTT(20) DEF BlocksAt
  <2>4. p \notin (k + 1)..hb
    BY <1>3, <2>1, <2>2, <2>3
  <2>5. blockDB'[p] = blockDB[p]
    <3> HIDE DEF p
    <3> QED BY <1>1, <2>1, <2>4
  <2>6. blockDB[h].total = blockDB[p].total + blockDB[h].fees /\ blockDB[h].fees < Reward
    BY <1>5, <2>2 DEF LateOK, TotalsOK
  <2> QED BY <2>2, <2>5, <2>6
<1>6. TotalsOK(blockDB')
  BY <1>5 DEF TotalsOK
<1> QED BY <1>1, <1>4, <1>6, LateGoesOn DEF Holding, Applying

\* ... and returns, as it does when it gives up.
LEMMA ResetEndsLate ==
  ASSUME SyncOK, LateOK, ActiveOK', active' = active, NEW t \in Handlers,
         ResetGivesUp(t) \/ ResetHeight(t)
  PROVE  LateOK'
<1>1. local[t].pc \in {"reset", "resetHeight"} /\ blockDB' = blockDB /\ Set(t, Idle)
  BY Zenon, SMTT(20) DEF ResetGivesUp, ResetHeight, ResetReturns, Unlock, stores
<1>2. local[t].pc \in Holding
  BY <1>1 DEF Holding
<1> QED BY <1>1, <1>2, LateReturns

\* Every step keeps it: no handler is ever in a pass over headers.
LEMMA LateStep ==
  ASSUME SyncOK, ChainOK, LateOK, [Next]_vars
  PROVE  LateOK'
<1>1. ActiveOK' /\ active' = active
  BY ActiveStep, ActiveStays, SMTT(20), Zenon DEF LateOK
<1>2. ASSUME NEW t \in Handlers, Step(t) PROVE LateOK'
  <2>1. local[t].pc \notin {"verify", "check", "lock"}
    BY SMTT(20), Zenon DEF LateOK, OldOK, Holding, Applying
  <2>2. CASE VerifyKnown(t) \/ VerifyForks(t) \/ VerifyRefuses(t) \/ VerifyPanics(t) \/ Verify(t) \/ Lock(t)
    BY <2>1, <2>2, Zenon, SMTT(20) DEF VerifyKnown, VerifyForks, VerifyRefuses, VerifyPanics, Verify, Lock
  <2> QED BY <1>1, <1>2, <2>2, CheckBlockLate, ApplyLate, ApplyFailsLate, StoreBlockLate,
             StoreAccountsLate, SetHeightLate, ResetLoadLate, ResetRemoveLate, ResetEndsLate DEF Step
<1>3. ASSUME NEW t \in Handlers, NEW b \in Blocks, ReceiveBlock(t, b) PROVE LateOK'
  BY <1>1, <1>3, ReceiveBlockLate
<1>4. ASSUME NEW t \in Handlers, NEW list, ReceiveHeaders(t, list) PROVE LateOK'
  BY <1>4, HandlersAssumption DEF ReceiveHeaders, LateOK, BlocksOnly
<1>5. ASSUME NEW t \in Handlers, NEW chain, NEW sent, ReceiveHi(t, chain, sent) PROVE LateOK'
  BY <1>5, HandlersAssumption, Zenon, SMTT(20) DEF ReceiveHi, LateOK, BlocksOnly
<1>6. ASSUME NEW list, LoseHeaders(list) PROVE LateOK'
  BY <1>1, <1>6, LateStays DEF LoseHeaders, stores
<1>7. ASSUME NEW b, ReceiveTransactions(b) PROVE LateOK'
  BY <1>1, <1>7, LateStays DEF ReceiveTransactions, stores
<1>8. CASE UNCHANGED vars
  BY <1>1, <1>8, LateStays DEF vars, stores
<1> QED BY <1>2, <1>3, <1>4, <1>5, <1>6, <1>7, <1>8 DEF Next

-----------------------------------------------------------------------------
(***************************************************************************)
(* The theorems about memory and stores.                                   *)
(***************************************************************************)

\* What the theorems assume: one handler has messages, or every block creates more
\* than it charges.  The code does not enforce the latter; the fees of blocks that
\* add up to their rewards would let a late block pass the check of the supply.
Guarded == OneHandler \/ FeesBelowReward

\* The invariant, as long as messages that synchronise race no others.
NodeInv == AloneOK \/ (SyncOK /\ ChainOK /\ LateOK)

\* One handler synchronises alone.
LEMMA OneIsApart ==
  ASSUME OneHandler
  PROVE  Apart
BY FS_Singleton DEF OneHandler, Apart

\* It holds of a node that starts.
LEMMA NodeInit ==
  ASSUME Init, Guarded, Apart
  PROVE  NodeInv
<1>1. CASE OneHandler
  BY <1>1, AloneInit DEF NodeInv
<1>2. CASE FeesBelowReward /\ active \subseteq NonceHandlers
  BY <1>2, LateInit, SyncInit, ChainInit DEF BlocksOnly, NodeInv
<1>3. CASE Cardinality(active) = 1
  <2>1. active \subseteq Handlers
    BY DEF Init
  <2>2. IsFiniteSet(active)
    BY <2>1, HandlersAssumption, FS_Subset
  <2>3. \E a : active = {a}
    BY <1>3, <2>2, FS_Singleton
  <2>4. OneHandler
    BY <2>1, <2>3 DEF OneHandler
  <2> QED BY <1>1, <2>4
<1> QED BY <1>1, <1>2, <1>3 DEF Guarded, Apart

\* Every step keeps it.
LEMMA NodeStep ==
  ASSUME NodeInv, [Next]_vars
  PROVE  NodeInv'
<1>1. CASE AloneOK
  BY <1>1, AloneStep DEF NodeInv
<1>2. CASE SyncOK /\ ChainOK /\ LateOK
  <2>1. SyncOK' /\ LateOK'
    BY <1>2, SyncStep, LateStep
  <2>2. OneBusy /\ OnTop
    BY <1>2, LateIsBusy, LateIsRefused
  <2>3. OneBusy'
    BY <2>1 DEF LateOK, OldOK, OneBusy, Busy
  <2>4. ChainOK'
    BY <1>2, <2>2, <2>3, ChainStep
  <2> QED BY <2>1, <2>4 DEF NodeInv
<1> QED BY <1>1, <1>2 DEF NodeInv

\* Where messages race, they do so from the start.
LEMMA RacesStay ==
  ASSUME [Next]_vars
  PROVE  Apart' <=> Apart
BY ActiveStays DEF Apart

\* Any number of connections bring blocks, or one of any kind has messages; they
\* arrive late, repeated or never, and blocks fail: between blocks the accounts and
\* the staking accounts in memory are the result of the stored blocks, each applied
\* once.  With several connections this rests on the check of the supply in
\* CheckBlockAndTransferFunds, which a block that was checked against a height that
\* is no longer the node's fails when every block creates more than it charges.
THEOREM MemoryAlwaysMatchesChain == Spec /\ Guarded => []MemoryMatchesChain
<1> DEFINE Inv == NodeInv \/ ~Apart
<1>1. Init /\ Guarded => Inv
  BY NodeInit
<1>2. Inv /\ [Next]_vars => Inv'
  <2> SUFFICES ASSUME Inv, [Next]_vars PROVE Inv'
    OBVIOUS
  <2> QED BY NodeStep, RacesStay
<1>3. Inv => MemoryMatchesChain
  BY ChainGives DEF NodeInv, AloneOK, MemoryMatchesChain, Quiet
<1> QED BY <1>1, <1>2, <1>3, PTL DEF Spec

\* The same for the rows of every height that a reset may go back to, although
\* RemoveStakingAccountsFromDB leaves rows of removed blocks behind.
THEOREM StoresAlwaysMatchChain == Spec /\ Guarded => []StoresMatchChain
<1> DEFINE Inv == NodeInv \/ ~Apart
<1>1. Init /\ Guarded => Inv
  BY NodeInit
<1>2. Inv /\ [Next]_vars => Inv'
  <2> SUFFICES ASSUME Inv, [Next]_vars PROVE Inv'
    OBVIOUS
  <2> QED BY NodeStep, RacesStay
<1>3. Inv => StoresMatchChain
  BY ChainGives DEF NodeInv, AloneOK, StoresMatchChain, Quiet
<1> QED BY <1>1, <1>2, <1>3, PTL DEF Spec

-----------------------------------------------------------------------------
\* The node implements a chain that only grows by the block that follows it or goes
\* back to a prefix, for the handlers that the invariant is about: a late, repeated
\* or failing block, and headers that were overtaken, never replace a block in the
\* middle.
THEOREM HandlersImplementChain == Spec /\ Guarded /\ Apart => ImplementsChain
<1>1. Init /\ Apart => Abstract!Init
  BY ShowsStart
<1>2. NodeInv => ApartOK
  BY OneIsApart DEF NodeInv, AloneOK, ApartOK, LateOK, BlocksOnly, Apart
<1>3. ApartOK /\ ApartOK' /\ [Next]_vars => [Abstract!Next]_Chain
  BY ShowsStep
<1>4. Init /\ Guarded /\ Apart => NodeInv
  BY NodeInit
<1>5. NodeInv /\ [Next]_vars => NodeInv'
  BY NodeStep
<1> QED BY <1>1, <1>2, <1>3, <1>4, <1>5, PTL DEF Spec, ImplementsChain, Abstract!Spec
=============================================================================
