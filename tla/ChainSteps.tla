------------------------------ MODULE ChainSteps ------------------------------
(***************************************************************************)
(* The inductive invariants behind the theorems of ChainProofs, and the    *)
(* steps of the handlers that keep them: who holds BlockMutex, for any     *)
(* number of connections and any chains of the peers, and where the node   *)
(* and its stores are while one handler is busy.                           *)
(***************************************************************************)
EXTENDS ChainSync, TLAPS

\* Where a handler changes the node by a block, and where it may hold BlockMutex.
Applying == {"apply", "storeBlock", "storeAccounts", "storeStaking", "setHeight"}
Holding == Applying \cup {"reset", "remove", "resetHeight"}
PCs == Holding \cup {"idle", "bl", "verify", "check", "lock"}

\* Heights count blocks.
LEMMA HeightsAreNat == Heights \subseteq Nat
BY ChainAssumption DEF Heights

\* Headers as a peer sends them: blocks of consecutive heights.
ListOK(list) ==
  /\ list \in Seq(BlockType)
  /\ \A i \in 1..Len(list) : /\ list[i].height \in Heights
                             /\ list[i].height = list[1].height + i - 1

\* The local variables of a handler: heights that were read are heights of rows,
\* new headers begin after the height that was read on arrival, and the block
\* before the one that is applied has a height, so that a reset that the second
\* pass makes never has a negative target.
LocalOK(l) ==
  /\ DOMAIN l = {"pc", "h", "hmax", "list", "i", "old", "target", "adjust"}
  /\ l.pc \in PCs
  /\ l.h \in Heights /\ l.hmax \in Nat
  /\ l.target \in Int /\ l.target <= MaxHeight
  /\ ListOK(l.list)
  /\ l.pc = "bl" => Len(l.list) = 1
  /\ l.pc \in {"verify", "check"} =>
       Len(l.list) >= 1 /\ l.list[1].height <= l.h /\ l.h < l.list[Len(l.list)].height
  /\ l.pc \in Applying \cup {"lock"} => l.i \in 1..Len(l.list)
  /\ l.pc = "lock" => l.list[l.i].height >= 1
  /\ l.pc \in Applying => l.old.height \in Heights
  /\ l.pc \in {"remove", "resetHeight"} => l.target >= 0

LocalsOK == DOMAIN local = Handlers /\ \A t \in Handlers : LocalOK(local[t])

NodeOK ==
  /\ height \in Heights /\ heightMax \in Nat /\ shift \in Nat /\ shift >= 1
  /\ DOMAIN blockDB = Heights /\ \A h \in Heights : blockDB[h].height \in Heights
  /\ \A list \in inbox : ListOK(list) /\ Len(list) >= 1

\* The handler that applies blocks holds BlockMutex; the one that holds it is
\* between taking it and its return, and resets the node to no negative height.
LockOK ==
  /\ \A t \in Handlers : local[t].pc \in Applying => blockMutex = t
  /\ blockMutex # Free => blockMutex \in Handlers /\ local[blockMutex].pc \in Holding
  /\ \A t \in Handlers : local[t].pc = "reset" /\ blockMutex = t => local[t].target >= 0

SyncOK == LocalsOK /\ NodeOK /\ LockOK

-----------------------------------------------------------------------------
(***************************************************************************)
(* The local variables of one handler change, and BlockMutex with them.    *)
(***************************************************************************)

\* Set changes one handler.
LEMMA SetChangesOne ==
  ASSUME LocalsOK, NEW t \in Handlers, NEW r, LocalOK(r), Set(t, r)
  PROVE  /\ LocalsOK' /\ local'[t] = r
         /\ \A u \in Handlers : u # t => local'[u] = local[u]
BY DEF LocalsOK, Set

\* A handler that does not hold BlockMutex goes on without it.
LEMMA WithoutLock ==
  ASSUME SyncOK, NEW t \in Handlers, NEW r, LocalOK(r), Set(t, r),
         blockMutex # t, blockMutex' = blockMutex, r.pc \notin Applying
  PROVE  LocalsOK' /\ LockOK'
<1>1. /\ LocalsOK' /\ local'[t] = r
      /\ \A u \in Handlers : u # t => local'[u] = local[u]
  BY SetChangesOne DEF SyncOK
<1> QED BY <1>1 DEF SyncOK, LockOK

\* A handler takes it when it is free.
LEMMA TakesLock ==
  ASSUME SyncOK, NEW t \in Handlers, NEW r, LocalOK(r), Set(t, r),
         blockMutex = Free, blockMutex' = t, r.pc \in Applying
  PROVE  LocalsOK' /\ LockOK'
<1>1. /\ LocalsOK' /\ local'[t] = r
      /\ \A u \in Handlers : u # t => local'[u] = local[u]
  BY SetChangesOne DEF SyncOK
<1>2. \A u \in Handlers : local[u].pc \notin Applying
  BY FreeAssumption DEF SyncOK, LockOK
<1>3. r.pc \in Holding /\ r.pc # "reset"
  BY DEF Holding, Applying
<1> QED BY <1>1, <1>2, <1>3 DEF LockOK

\* The handler that holds it keeps it.
LEMMA KeepsLock ==
  ASSUME SyncOK, NEW t \in Handlers, NEW r, LocalOK(r), Set(t, r),
         blockMutex = t, blockMutex' = t, r.pc \in Holding, r.pc = "reset" => r.target >= 0
  PROVE  LocalsOK' /\ LockOK'
<1>1. /\ LocalsOK' /\ local'[t] = r
      /\ \A u \in Handlers : u # t => local'[u] = local[u]
  BY SetChangesOne DEF SyncOK
<1> QED BY <1>1 DEF SyncOK, LockOK

\* The handler that holds it returns.
LEMMA ReturnsLock ==
  ASSUME SyncOK, NEW t \in Handlers, NEW r, LocalOK(r), Set(t, r),
         blockMutex = t, blockMutex' = Free, r.pc \notin Applying
  PROVE  LocalsOK' /\ LockOK'
<1>1. /\ LocalsOK' /\ local'[t] = r
      /\ \A u \in Handlers : u # t => local'[u] = local[u]
  BY SetChangesOne DEF SyncOK
<1> QED BY <1>1, FreeAssumption DEF SyncOK, LockOK

\* A handler that is where nothing is locked does not hold it.
LEMMA NotHolding ==
  ASSUME SyncOK, NEW t \in Handlers, local[t].pc \notin Holding
  PROVE  blockMutex # t
BY FreeAssumption DEF SyncOK, LockOK

\* One that applies blocks does.
LEMMA ApplyingHolds ==
  ASSUME SyncOK, NEW t \in Handlers, local[t].pc \in Applying
  PROVE  blockMutex = t
BY DEF SyncOK, LockOK

\* The variables of a handler that waits for messages.
LEMMA IdleIsOK == LocalOK(Idle) /\ Idle.pc = "idle" /\ Idle.pc \notin Holding
<1>1. << >> \in Seq(BlockType) /\ Len(<< >>) = 0
  OBVIOUS
<1>2. ListOK(<< >>)
  BY <1>1 DEF ListOK
<1> QED BY <1>2, ChainAssumption DEF LocalOK, Idle, PCs, Holding, Applying, Heights

-----------------------------------------------------------------------------
(***************************************************************************)
(* Messages arrive.                                                        *)
(***************************************************************************)

\* The blocks of the chains have heights.
LEMMA BlockHeights ==
  ASSUME NEW b \in Blocks
  PROVE  b \in BlockType /\ b.height \in Heights
<1>1. PICK c \in Chains \cup StartChains : b \in {c[i] : i \in DOMAIN c}
  BY DEF Blocks
<1>2. PICK i \in DOMAIN c : b = c[i]
  BY <1>1
<1>3. c \in Seq(BlockType) /\ Len(c) <= MaxHeight /\ MaxHeight \in Nat
      /\ \A j \in 1..Len(c) : c[j].height = j
  BY ChainAssumption
<1>4. i \in 1..Len(c) /\ Len(c) \in Nat
  BY <1>3
<1>5. b.height = i
  BY <1>2, <1>3, <1>4
<1> QED BY <1>2, <1>3, <1>4, <1>5, BlocksAssumption DEF Heights

\* AdjustShiftInPastInReset goes back by at least one block.
LEMMA ShiftIsPositive ==
  ASSUME NEW other \in Nat, NEW h \in Nat, shift \in Nat
  PROVE  AdjustShift(other, h) \in Nat /\ AdjustShift(other, h) >= 1
<1> DEFINE m == Min({2 * shift, other})
<1>1. \E x \in {2 * shift, other} : \A y \in {2 * shift, other} : x <= y
  OBVIOUS
<1>2. m \in {2 * shift, other}
  BY <1>1 DEF Min
<1>3. m \in Nat
  BY <1>2
<1> HIDE DEF m
<1>4. \E x \in {1, m} : \A y \in {1, m} : x >= y
  BY <1>3
<1>5. Max({1, m}) \in {1, m} /\ Max({1, m}) >= 1
  BY <1>3, <1>4 DEF Max
<1>6. CASE other <= h
  BY <1>6 DEF AdjustShift
<1>7. CASE ~(other <= h)
  <2>1. AdjustShift(other, h) = Max({1, m})
    BY <1>7 DEF AdjustShift, m
  <2> QED BY <2>1, <1>5, <1>3
<1> QED BY <1>6, <1>7

\* The lesser of two numbers.
LEMMA MinOfTwo ==
  ASSUME NEW a \in Int, NEW b \in Int
  PROVE  Min({a, b}) \in {a, b} /\ Min({a, b}) <= a /\ Min({a, b}) <= b
<1>1. \E x \in {a, b} : \A y \in {a, b} : x <= y
  OBVIOUS
<1> QED BY <1>1 DEF Min

\* generateSyncMsgGetHeaders asks for no height below that of the genesis block.
LEMMA RangeStarts ==
  ASSUME NEW h \in Nat, NEW other \in Nat
  PROVE  GetHeaders(h, other)[1] \in Nat /\ GetHeaders(h, other)[2] \in Int
<1> DEFINE a == other - h + 1
           s2p == Min({a, NumberOfHashesInBucket})
           b   == IF other - s2p < 2 THEN 0 ELSE other - s2p
           c   == h + s2p
           to  == Min({c, other})
<1>1. s2p \in Int
  <2>1. a \in Int /\ NumberOfHashesInBucket \in Int
    BY ChainAssumption
  <2> HIDE DEF a
  <2>2. s2p \in {a, NumberOfHashesInBucket}
    BY <2>1, MinOfTwo
  <2> QED BY <2>1, <2>2
<1>2. b \in Nat
  <2> HIDE DEF s2p
  <2> QED BY <1>1
<1>3. to \in Int
  <2> HIDE DEF s2p
  <2>1. c \in Int /\ other \in Int
    BY <1>1
  <2> HIDE DEF c
  <2>2. to \in {c, other}
    BY <2>1, MinOfTwo
  <2> QED BY <2>1, <2>2
<1>4. GetHeaders(h, other) = IF b > h THEN <<h, to>> ELSE <<b, other>>
  BY DEF GetHeaders
<1> HIDE DEF s2p, b, to
<1> QED BY <1>2, <1>3, <1>4

\* What a peer sends are blocks of consecutive heights.
LEMMA HeadersAreConsecutive ==
  ASSUME NEW chain \in Chains, NEW range, range[1] \in Nat, range[2] \in Int
  PROVE  ListOK(SendHeaders(chain, range))
<1> DEFINE from == range[1]
           to == Min({range[2], Len(chain)})
           row(i) == IF from + i - 1 = 0 THEN Genesis ELSE chain[from + i - 1]
           list == [i \in 1..(to - from + 1) |-> row(i)]
<1>1. /\ chain \in Seq(BlockType) /\ Len(chain) <= MaxHeight /\ MaxHeight \in Nat
      /\ \A i \in 1..Len(chain) : chain[i].height = i
      /\ Genesis \in BlockType /\ Genesis.height = 0
  BY ChainAssumption
<1>2. to \in Int /\ to <= Len(chain) /\ Len(chain) \in Nat
  <2> DEFINE a == range[2]
             c == Len(chain)
  <2>1. a \in Int /\ c \in Int /\ c \in Nat
    BY <1>1
  <2>2. to = Min({a, c})
    OBVIOUS
  <2> HIDE DEF a, to
  <2>3. Min({a, c}) \in {a, c} /\ Min({a, c}) <= c
    <3> HIDE DEF c
    <3> QED BY <2>1, MinOfTwo
  <2> QED BY <2>1, <2>2, <2>3
<1>3. SendHeaders(chain, range) = IF from > to THEN << >> ELSE list
  BY DEF SendHeaders
<1> HIDE DEF to, from
<1>4. CASE from > to
  BY <1>3, <1>4, IdleIsOK DEF LocalOK, Idle
<1>5. CASE ~(from > to)
  <2>1. from \in Nat /\ to - from + 1 \in Nat
    BY <1>2, <1>5 DEF from
  <2>2. ASSUME NEW i \in 1..(to - from + 1)
        PROVE  row(i) \in BlockType /\ row(i).height = from + i - 1 /\ row(i).height \in Heights
    <3>1. from + i - 1 \in 0..Len(chain) /\ from + i - 1 \in Heights
      BY <2>1, <1>2, <1>1 DEF Heights
    <3>2. CASE from + i - 1 = 0
      BY <3>1, <3>2, <1>1
    <3>3. CASE from + i - 1 # 0
      <4>1. from + i - 1 \in 1..Len(chain)
        BY <3>1, <3>3, <1>2
      <4>2. row(i) = chain[from + i - 1]
        BY <3>3
      <4> HIDE DEF row
      <4> QED BY <4>1, <4>2, <3>1, <1>1
    <3> QED BY <3>2, <3>3
  <2> HIDE DEF row
  <2>3. list \in Seq(BlockType) /\ Len(list) = to - from + 1
    BY <2>1, <2>2
  <2>4. ASSUME NEW i \in 1..Len(list)
        PROVE  list[i].height \in Heights /\ list[i].height = list[1].height + i - 1
    <3>1. i \in 1..(to - from + 1) /\ 1 \in 1..(to - from + 1)
      BY <2>3, <2>1
    <3>2. list[i] = row(i) /\ list[1] = row(1)
      BY <3>1
    <3>3. row(i).height = from + i - 1 /\ row(i).height \in Heights /\ row(1).height = from + 1 - 1
      BY <3>1, <2>2
    <3> QED BY <3>1, <3>2, <3>3, <2>1
  <2>5. SendHeaders(chain, range) = list
    BY <1>3, <1>5
  <2> HIDE DEF list
  <2> QED BY <2>3, <2>4, <2>5 DEF ListOK
<1> QED BY <1>4, <1>5

\* A request leaves such headers on their way to the node.
LEMMA RequestKeeps ==
  ASSUME NodeOK, NEW chain \in Chains, NEW sent, Request(chain, Len(chain), sent)
  PROVE  \A list \in inbox' : ListOK(list) /\ Len(list) >= 1
<1> DEFINE list == SendHeaders(chain, GetHeaders(height, Len(chain)))
<1>1. height \in Nat /\ Len(chain) \in Nat
  BY ChainAssumption DEF NodeOK, Heights
<1>2. ListOK(list)
  BY <1>1, RangeStarts, HeadersAreConsecutive
<1>3. inbox' = inbox \/ (list # << >> /\ inbox' = inbox \cup {list})
  BY DEF Request
<1> HIDE DEF list
<1>4. list # << >> => Len(list) >= 1
  BY <1>2 DEF ListOK
<1> QED BY <1>2, <1>3, <1>4 DEF NodeOK

\* Nothing of the node changes.
LEMMA NodeStays ==
  ASSUME NodeOK, height' = height, heightMax' = heightMax, shift' = shift,
         blockDB' = blockDB, inbox' = inbox
  PROVE  NodeOK'
BY DEF NodeOK

\* A "bl" message.
LEMMA ReceiveBlockKeeps ==
  ASSUME SyncOK, NEW t \in Handlers, NEW b \in Blocks, ReceiveBlock(t, b)
  PROVE  SyncOK'
<1> DEFINE r == [Idle EXCEPT !.pc = "bl", !.h = height, !.list = <<b>>]
<1>1. b \in BlockType /\ b.height \in Heights
  BY BlockHeights
<1>2. ListOK(<<b>>) /\ Len(<<b>>) = 1
  <2>1. <<b>> \in Seq(BlockType) /\ Len(<<b>>) = 1
    BY <1>1
  <2>2. ASSUME NEW i \in 1..1
        PROVE  <<b>>[i].height \in Heights /\ <<b>>[i].height = <<b>>[1].height + i - 1
    <3>1. i = 1
      OBVIOUS
    <3> QED BY <3>1, <1>1 DEF Heights
  <2> QED BY <2>1, <2>2 DEF ListOK
<1>3. height \in Heights /\ MaxHeight \in Nat
  BY ChainAssumption DEF SyncOK, NodeOK
<1>4. LocalOK(r) /\ r.pc = "bl"
  <2>1. /\ DOMAIN r = {"pc", "h", "hmax", "list", "i", "old", "target", "adjust"}
        /\ r.pc = "bl" /\ r.h = height /\ r.hmax = 0 /\ r.list = <<b>> /\ r.target = 0
    BY DEF Idle
  <2> HIDE DEF r
  <2> QED BY <2>1, <1>2, <1>3 DEF LocalOK, PCs, Holding, Applying
<1>5. blockMutex # t
  BY NotHolding DEF ReceiveBlock, Holding, Applying
<1>6. Set(t, r) /\ blockMutex' = blockMutex
  BY DEF ReceiveBlock
<1>7. NodeOK'
  BY NodeStays DEF SyncOK, ReceiveBlock, flags, stores
<1> HIDE DEF r
<1>8. r.pc \notin Applying
  BY <1>4 DEF Applying
<1> QED BY <1>4, <1>5, <1>6, <1>7, <1>8, WithoutLock DEF SyncOK

\* A "hi" message.
LEMMA ReceiveHiKeeps ==
  ASSUME SyncOK, NEW t \in Handlers, NEW chain \in Chains, NEW sent \in BOOLEAN,
         ReceiveHi(t, chain, sent)
  PROVE  SyncOK'
<1>1. Len(chain) \in Nat
  BY ChainAssumption
<1>2. height \in Nat /\ heightMax \in Nat /\ shift \in Nat /\ shift >= 1 /\ NodeOK
  BY ChainAssumption DEF SyncOK, NodeOK, Heights
<1>3. heightMax' \in Nat
  <2>1. \E x \in {heightMax, Len(chain)} : \A y \in {heightMax, Len(chain)} : x >= y
    BY <1>1, <1>2
  <2>2. Max({heightMax, Len(chain)}) \in {heightMax, Len(chain)}
    BY <2>1 DEF Max
  <2> QED BY <2>2, <1>1, <1>2 DEF ReceiveHi
<1>4. shift' \in Nat /\ shift' >= 1
  <2>1. AdjustShift(Len(chain), height) \in Nat /\ AdjustShift(Len(chain), height) >= 1
    BY <1>1, <1>2, ShiftIsPositive, Zenon, SMTT(20)
  <2>2. shift' = shift \/ shift' = AdjustShift(Len(chain), height)
    BY DEF ReceiveHi
  <2> QED BY <2>1, <2>2, <1>2
<1>5. \A list \in inbox' : ListOK(list) /\ Len(list) >= 1
  <2>1. Request(chain, Len(chain), sent) \/ inbox' = inbox
    BY DEF ReceiveHi
  <2> QED BY <2>1, <1>2, RequestKeeps DEF NodeOK
<1>6. /\ height' = height /\ blockDB' = blockDB /\ local' = local /\ blockMutex' = blockMutex
  BY DEF ReceiveHi, stores
<1>7. NodeOK'
  BY <1>2, <1>3, <1>4, <1>5, <1>6 DEF NodeOK
<1>8. LocalsOK' /\ LockOK'
  BY <1>6 DEF SyncOK, LocalsOK, LockOK
<1> QED BY <1>7, <1>8 DEF SyncOK

\* An "sh" message.
LEMMA ReceiveHeadersKeeps ==
  ASSUME SyncOK, NEW t \in Handlers, NEW list \in inbox, ReceiveHeaders(t, list)
  PROVE  SyncOK'
<1> DEFINE r == [Idle EXCEPT !.pc = "verify", !.h = height, !.hmax = heightMax, !.list = list]
           n == Len(list)
<1>1. ListOK(list) /\ n >= 1 /\ n \in Nat
  BY DEF SyncOK, NodeOK, ListOK
<1>2. height \in Heights /\ heightMax \in Nat /\ MaxHeight \in Nat
  BY ChainAssumption DEF SyncOK, NodeOK
<1>3. NodeOK'
  BY DEF SyncOK, NodeOK, ReceiveHeaders, flags, stores
<1>4. blockMutex # t /\ blockMutex' = blockMutex
  BY NotHolding DEF ReceiveHeaders, Holding, Applying
<1>5. CASE local' = local
  BY <1>3, <1>4, <1>5 DEF SyncOK, LocalsOK, LockOK
<1>6. CASE ~(list[n].height <= height \/ list[1].height > height) /\ Set(t, r)
  <2>1. list[1].height \in Nat /\ list[n].height \in Nat /\ height \in Nat
    BY <1>1, <1>2 DEF ListOK, Heights
  <2>2. list[1].height <= height /\ height < list[n].height
    BY <2>1, <1>6
  <2>3. /\ DOMAIN r = {"pc", "h", "hmax", "list", "i", "old", "target", "adjust"}
        /\ r.pc = "verify" /\ r.h = height /\ r.hmax = heightMax /\ r.list = list /\ r.target = 0
    BY DEF Idle
  <2> HIDE DEF r
  <2>4. LocalOK(r) /\ r.pc \notin Applying
    BY <2>2, <2>3, <1>1, <1>2 DEF LocalOK, PCs, Holding, Applying
  <2> QED BY <2>4, <1>3, <1>4, <1>6, WithoutLock DEF SyncOK
<1> QED BY <1>5, <1>6 DEF ReceiveHeaders

-----------------------------------------------------------------------------
(***************************************************************************)
(* The two passes over blocks.                                             *)
(***************************************************************************)

\* The first block after the height that was read on arrival is in the headers.
LEMMA FirstNewInList ==
  ASSUME NEW l, LocalOK(l), l.pc \in {"verify", "check"}
  PROVE  /\ FirstNew(l) \in 1..Len(l.list)
         /\ l.list[FirstNew(l)].height = l.h + 1 /\ l.list[FirstNew(l)].height >= 1
<1> DEFINE a == l.list[1].height
           n == Len(l.list)
           h == l.h
           m == h - a + 1
           K == Known(l) \cup {i \in DOMAIN l.list : l.list[i].height = 0}
<1>1. /\ l.list \in Seq(BlockType) /\ n \in Nat /\ n >= 1
      /\ DOMAIN l.list = 1..n /\ a <= h /\ h < l.list[n].height
      /\ h \in Nat /\ a \in Nat
      /\ \A i \in 1..n : l.list[i].height = a + i - 1 /\ l.list[i].height \in Nat
  BY ChainAssumption DEF LocalOK, ListOK, Heights
<1>2. l.list[n].height = a + n - 1
  BY <1>1
<1>3. m \in Nat /\ m >= 1 /\ m + 1 <= n
  <2> HIDE DEF a, n, h
  <2> QED BY <1>1, <1>2
<1>4. l.list[m].height = h /\ l.list[m + 1].height = h + 1
  <2>1. l.list[m].height = a + m - 1 /\ l.list[m + 1].height = a + (m + 1) - 1
    <3> HIDE DEF m, a, n
    <3> QED BY <1>1, <1>3
  <2> HIDE DEF a, h
  <2> QED BY <2>1, <1>1
<1>5. m \in K
  <2>1. m \in DOMAIN l.list
    <3> HIDE DEF m, n
    <3> QED BY <1>1, <1>3
  <2> HIDE DEF m
  <2>2. CASE h = 0
    BY <2>1, <2>2, <1>4
  <2>3. CASE h # 0
    <3>1. l.list[m].height \in 1..l.h
      BY <2>3, <1>1, <1>4
    <3> QED BY <2>1, <3>1 DEF Known
  <2> QED BY <2>2, <2>3
<1>6. ASSUME NEW i \in K PROVE i \in Nat /\ i <= m
  <2>1. i \in 1..n /\ l.list[i].height <= h
    BY <1>1 DEF Known
  <2>2. l.list[i].height = a + i - 1
    BY <2>1, <1>1
  <2> HIDE DEF K, a, h, n
  <2> QED BY <2>1, <2>2, <1>1
<1>7. Max(K) = m
  <2> HIDE DEF K, m
  <2>1. \E x \in K : \A y \in K : x >= y
    BY <1>3, <1>5, <1>6
  <2>2. Max(K) \in K /\ Max(K) >= m
    BY <2>1, <1>5 DEF Max
  <2> QED BY <2>2, <1>3, <1>6
<1>8. FirstNew(l) = m + 1
  BY <1>7 DEF FirstNew
<1>9. h + 1 >= 1
  <2> HIDE DEF h
  <2> QED BY <1>1
<1>10. m + 1 \in 1..n
  <2> HIDE DEF m, n
  <2> QED BY <1>1, <1>3
<1> HIDE DEF m
<1> QED BY <1>4, <1>8, <1>9, <1>10

\* The block of a "bl" message is checked.
LEMMA CheckBlockKeeps ==
  ASSUME SyncOK, NEW t \in Handlers, NEW refused \in BOOLEAN, CheckBlock(t, refused)
  PROVE  SyncOK'
<1> DEFINE l == local[t]
           last == blockDB[l.h]
           r == [l EXCEPT !.pc = "apply", !.i = 1, !.old = last]
<1>1. LocalOK(l) /\ l.pc = "bl" /\ blockMutex = Free
  BY DEF SyncOK, LocalsOK, CheckBlock
<1>2. NodeOK'
  BY NodeStays DEF SyncOK, CheckBlock, flags, stores
<1>3. blockMutex # t
  BY <1>1, FreeAssumption
<1>4. CASE Set(t, Idle) /\ blockMutex' = blockMutex
  <2>1. LocalOK(Idle) /\ Idle.pc \notin Applying
    BY IdleIsOK DEF Holding
  <2> QED BY <2>1, <1>2, <1>3, <1>4, WithoutLock DEF SyncOK
<1>5. CASE Set(t, r) /\ blockMutex' = t
  <2>1. last.height \in Heights
    BY <1>1 DEF SyncOK, NodeOK, LocalOK
  <2>2. /\ DOMAIN r = {"pc", "h", "hmax", "list", "i", "old", "target", "adjust"}
        /\ r.pc = "apply" /\ r.h = l.h /\ r.hmax = l.hmax /\ r.list = l.list
        /\ r.target = l.target /\ r.i = 1 /\ r.old = last
    BY <1>1 DEF LocalOK
  <2> HIDE DEF r, l, last
  <2>3. 1 \in 1..Len(l.list)
    BY <1>1 DEF LocalOK
  <2>4. LocalOK(r) /\ r.pc \in Applying
    BY <1>1, <2>1, <2>2, <2>3 DEF LocalOK, PCs, Holding, Applying
  <2> QED BY <2>4, <1>1, <1>2, <1>5, TakesLock DEF SyncOK
<1> QED BY <1>4, <1>5 DEF CheckBlock

\* A handler of "sh" that does not hold BlockMutex returns.
LEMMA ReturnsUnlocked ==
  ASSUME SyncOK, NodeOK', NEW t \in Handlers, blockMutex # t,
         Set(t, Idle), blockMutex' = blockMutex
  PROVE  SyncOK'
<1>1. LocalOK(Idle) /\ Idle.pc \notin Applying
  BY IdleIsOK DEF Holding
<1> QED BY <1>1, WithoutLock DEF SyncOK

\* The known blocks are the node's.
LEMMA VerifyKnownKeeps ==
  ASSUME SyncOK, NEW t \in Handlers, VerifyKnown(t)
  PROVE  SyncOK'
<1> DEFINE l == local[t]
           r == [l EXCEPT !.pc = "check"]
<1>1. LocalOK(l) /\ l.pc = "verify" /\ Set(t, r) /\ blockMutex' = blockMutex
  BY DEF SyncOK, LocalsOK, VerifyKnown
<1>2. NodeOK'
  BY NodeStays DEF SyncOK, VerifyKnown, flags, stores
<1>3. blockMutex # t
  BY <1>1, NotHolding DEF Holding, Applying
<1>4. /\ DOMAIN r = {"pc", "h", "hmax", "list", "i", "old", "target", "adjust"}
      /\ r.pc = "check" /\ r.h = l.h /\ r.hmax = l.hmax /\ r.list = l.list
      /\ r.target = l.target
  BY <1>1 DEF LocalOK
<1> HIDE DEF r, l
<1>5. LocalOK(r) /\ r.pc \notin Applying
  BY <1>1, <1>4 DEF LocalOK, PCs, Holding, Applying
<1> QED BY <1>1, <1>2, <1>3, <1>5, WithoutLock DEF SyncOK

\* CheckBaseBlock refuses a block.
LEMMA VerifyRefusesKeeps ==
  ASSUME SyncOK, NEW t \in Handlers, VerifyRefuses(t)
  PROVE  SyncOK'
<1> DEFINE l == local[t]
           back == AdjustShift(l.hmax, height)
<1>1. LocalOK(l) /\ l.pc = "check" /\ blockMutex' = blockMutex
  BY DEF SyncOK, LocalsOK, VerifyRefuses
<1>2. PICK i \in FirstNew(l)..Len(l.list) :
        Set(t, [l EXCEPT !.pc = "reset", !.target = l.list[i].height - back])
  BY Zenon, SMTT(20) DEF VerifyRefuses
<1> DEFINE target == l.list[i].height - back
           r == [l EXCEPT !.pc = "reset", !.target = target]
<1>3. blockMutex # t
  BY <1>1, NotHolding DEF Holding, Applying
<1>4. back \in Nat /\ back >= 1
  <2>1. l.hmax \in Nat /\ height \in Nat /\ shift \in Nat
    BY <1>1, ChainAssumption DEF LocalOK, SyncOK, NodeOK, Heights
  <2> HIDE DEF l
  <2> QED BY <2>1, ShiftIsPositive, Zenon, SMTT(20)
<1>5. NodeOK'
  <2>1. shift' = back
    BY DEF VerifyRefuses
  <2> HIDE DEF back
  <2> QED BY <2>1, <1>4 DEF SyncOK, NodeOK, VerifyRefuses, stores
<1>6. target \in Int /\ target <= MaxHeight
  <2>1. FirstNew(l) \in 1..Len(l.list)
    BY <1>1, FirstNewInList
  <2>2. Len(l.list) \in Nat
    BY <1>1 DEF LocalOK, ListOK
  <2>3. i \in 1..Len(l.list)
    <3> HIDE DEF l
    <3> QED BY <2>1, <2>2
  <2>4. l.list[i].height \in Heights
    BY <2>3, <1>1 DEF LocalOK, ListOK
  <2> HIDE DEF l, back
  <2> QED BY <2>4, <1>4, ChainAssumption DEF Heights
<1>7. /\ DOMAIN r = {"pc", "h", "hmax", "list", "i", "old", "target", "adjust"}
      /\ r.pc = "reset" /\ r.h = l.h /\ r.hmax = l.hmax /\ r.list = l.list
      /\ r.target = target
  BY <1>1 DEF LocalOK
<1>8. Set(t, r)
  BY <1>2
<1> HIDE DEF r, l, target
<1>9. LocalOK(r) /\ r.pc \notin Applying
  BY <1>1, <1>6, <1>7 DEF LocalOK, PCs, Holding, Applying
<1> QED BY <1>1, <1>3, <1>5, <1>8, <1>9, WithoutLock DEF SyncOK

\* The block before the new ones is gone.
LEMMA VerifyPanicsKeeps ==
  ASSUME SyncOK, NEW t \in Handlers, VerifyPanics(t)
  PROVE  SyncOK'
<1>1. blockMutex # t
  BY NotHolding DEF VerifyPanics, Holding, Applying
<1>2. NodeOK'
  BY NodeStays DEF SyncOK, VerifyPanics, flags, stores
<1> QED BY <1>1, <1>2, ReturnsUnlocked DEF VerifyPanics

\* The first pass ends.
LEMMA VerifyKeeps ==
  ASSUME SyncOK, NEW t \in Handlers, Verify(t)
  PROVE  SyncOK'
<1> DEFINE l == local[t]
           r == [l EXCEPT !.pc = "lock", !.i = FirstNew(l)]
<1>1. LocalOK(l) /\ l.pc = "check" /\ blockMutex' = blockMutex
  BY DEF SyncOK, LocalsOK, Verify
<1>2. NodeOK'
  BY NodeStays DEF SyncOK, Verify, stores
<1>3. blockMutex # t
  BY <1>1, NotHolding DEF Holding, Applying
<1>4. CASE Set(t, Idle)
  BY <1>1, <1>2, <1>3, <1>4, ReturnsUnlocked
<1>5. CASE Set(t, r)
  <2>1. FirstNew(l) \in 1..Len(l.list) /\ l.list[FirstNew(l)].height >= 1
    BY <1>1, FirstNewInList
  <2>2. /\ DOMAIN r = {"pc", "h", "hmax", "list", "i", "old", "target", "adjust"}
        /\ r.pc = "lock" /\ r.h = l.h /\ r.hmax = l.hmax /\ r.list = l.list
        /\ r.target = l.target /\ r.i = FirstNew(l)
    BY <1>1 DEF LocalOK
  <2> HIDE DEF r, l
  <2>3. LocalOK(r) /\ r.pc \notin Applying
    BY <1>1, <2>1, <2>2 DEF LocalOK, PCs, Holding, Applying
  <2> QED BY <2>3, <1>1, <1>2, <1>3, <1>5, WithoutLock DEF SyncOK
<1> QED BY <1>4, <1>5 DEF Verify

\* The second pass takes BlockMutex.
LEMMA LockKeeps ==
  ASSUME SyncOK, NEW t \in Handlers, Lock(t)
  PROVE  SyncOK'
<1> DEFINE l == local[t]
           old == blockDB[l.list[l.i].height - 1]
           r == [l EXCEPT !.pc = "apply", !.old = old]
<1>1. LocalOK(l) /\ l.pc = "lock" /\ blockMutex = Free
  BY DEF SyncOK, LocalsOK, Lock
<1>2. NodeOK'
  BY NodeStays DEF SyncOK, Lock, stores
<1>3. blockMutex # t
  BY <1>1, FreeAssumption
<1>4. CASE Set(t, Idle) /\ blockMutex' = blockMutex
  BY <1>2, <1>3, <1>4, ReturnsUnlocked
<1>5. CASE Set(t, r) /\ blockMutex' = t
  <2>1. l.i \in 1..Len(l.list) /\ l.list[l.i].height >= 1 /\ l.list[l.i].height \in Heights
    BY <1>1 DEF LocalOK, ListOK
  <2>2. l.list[l.i].height - 1 \in Heights
    <3> HIDE DEF l
    <3> QED BY <2>1, ChainAssumption DEF Heights
  <2>3. old.height \in Heights
    <3> HIDE DEF l
    <3> QED BY <2>2 DEF SyncOK, NodeOK
  <2>4. /\ DOMAIN r = {"pc", "h", "hmax", "list", "i", "old", "target", "adjust"}
        /\ r.pc = "apply" /\ r.h = l.h /\ r.hmax = l.hmax /\ r.list = l.list
        /\ r.target = l.target /\ r.i = l.i /\ r.old = old
    BY <1>1 DEF LocalOK
  <2> HIDE DEF r, l, old
  <2>5. LocalOK(r) /\ r.pc \in Applying
    BY <1>1, <2>1, <2>3, <2>4 DEF LocalOK, PCs, Holding, Applying
  <2> QED BY <2>5, <1>1, <1>2, <1>5, TakesLock DEF SyncOK
<1> QED BY <1>4, <1>5 DEF Lock

-----------------------------------------------------------------------------
(***************************************************************************)
(* A block is applied and stored, with BlockMutex.                         *)
(***************************************************************************)

\* The handler goes on to the next of these steps.
LEMMA GoesOn ==
  ASSUME SyncOK, NodeOK', NEW t \in Handlers, NEW next \in Applying,
         local[t].pc \in Applying, Set(t, [local[t] EXCEPT !.pc = next]),
         blockMutex' = blockMutex
  PROVE  SyncOK'
<1> DEFINE l == local[t]
           r == [l EXCEPT !.pc = next]
<1>1. LocalOK(l) /\ blockMutex = t
  BY ApplyingHolds DEF SyncOK, LocalsOK
<1>2. /\ DOMAIN r = {"pc", "h", "hmax", "list", "i", "old", "target", "adjust"}
      /\ r.pc = next /\ r.h = l.h /\ r.hmax = l.hmax /\ r.list = l.list
      /\ r.target = l.target /\ r.i = l.i /\ r.old = l.old
  BY <1>1 DEF LocalOK
<1>3. /\ next \in PCs /\ next \in Holding /\ next # "reset" /\ next \notin {"remove", "resetHeight"}
      /\ next \notin {"verify", "check"} /\ next # "bl" /\ next # "lock"
  BY DEF Applying, Holding, PCs
<1>4. l.pc \in Applying /\ Set(t, r)
  OBVIOUS
<1> HIDE DEF r, l
<1>5. LocalOK(r)
  BY <1>1, <1>2, <1>3, <1>4 DEF LocalOK
<1> QED BY <1>1, <1>2, <1>3, <1>4, <1>5, KeepsLock DEF SyncOK

\* CheckBlockAndTransferFunds succeeds.
LEMMA ApplyKeeps ==
  ASSUME SyncOK, NEW t \in Handlers, Apply(t)
  PROVE  SyncOK'
<1>1. NodeOK'
  BY NodeStays DEF SyncOK, Apply, flags, stores
<1> QED BY <1>1, GoesOn, Zenon, SMTT(20) DEF Apply, Applying

\* CheckBlockAndTransferFunds fails.
LEMMA ApplyFailsKeeps ==
  ASSUME SyncOK, NEW t \in Handlers, ApplyFails(t)
  PROVE  SyncOK'
<1> DEFINE l == local[t]
           r == [l EXCEPT !.pc = "reset", !.target = l.old.height]
<1>1. LocalOK(l) /\ l.pc = "apply" /\ blockMutex = t /\ blockMutex' = blockMutex /\ Set(t, r)
  BY ApplyingHolds DEF SyncOK, LocalsOK, ApplyFails, Applying
<1>2. NodeOK'
  BY NodeStays DEF SyncOK, ApplyFails, flags, stores
<1>3. l.old.height \in Int /\ l.old.height >= 0 /\ l.old.height <= MaxHeight
  BY <1>1, ChainAssumption DEF LocalOK, Applying, Heights
<1>4. /\ DOMAIN r = {"pc", "h", "hmax", "list", "i", "old", "target", "adjust"}
      /\ r.pc = "reset" /\ r.h = l.h /\ r.hmax = l.hmax /\ r.list = l.list
      /\ r.target = l.old.height
  BY <1>1 DEF LocalOK
<1> HIDE DEF r, l
<1>5. LocalOK(r) /\ r.pc \in Holding
  BY <1>1, <1>3, <1>4 DEF LocalOK, PCs, Holding, Applying
<1> QED BY <1>1, <1>2, <1>3, <1>4, <1>5, KeepsLock DEF SyncOK

\* The block is stored.
LEMMA StoreBlockKeeps ==
  ASSUME SyncOK, NEW t \in Handlers, StoreBlock(t)
  PROVE  SyncOK'
<1> DEFINE l == local[t]
           b == l.list[l.i]
           row == [b EXCEPT !.total = l.old.total + b.fees]
<1>1. LocalOK(l) /\ l.pc = "storeBlock"
  BY DEF SyncOK, LocalsOK, StoreBlock
<1>2. b \in BlockType /\ b.height \in Heights
  BY <1>1 DEF LocalOK, ListOK, Applying
<1>3. row.height = b.height
  <2> HIDE DEF b
  <2> QED BY <1>2 DEF BlockType
<1>4. blockDB' = [blockDB EXCEPT ![b.height] = row]
  BY DEF StoreBlock
<1> HIDE DEF row, b
<1>5. DOMAIN blockDB' = Heights /\ \A h \in Heights : blockDB'[h].height \in Heights
  BY <1>2, <1>3, <1>4, SMTT(20), Zenon DEF SyncOK, NodeOK
<1>6. NodeOK'
  BY <1>5 DEF SyncOK, NodeOK, StoreBlock, flags
<1> QED BY <1>6, GoesOn, Zenon, SMTT(20) DEF StoreBlock, Applying

\* The accounts are stored.
LEMMA StoreAccountsKeeps ==
  ASSUME SyncOK, NEW t \in Handlers, StoreAccounts(t) \/ StoreStakingAccounts(t)
  PROVE  SyncOK'
<1>1. NodeOK'
  BY NodeStays DEF SyncOK, StoreAccounts, StoreStakingAccounts, flags
<1> QED BY <1>1, GoesOn, Zenon, SMTT(20) DEF StoreAccounts, StoreStakingAccounts, Applying

\* The handler that holds BlockMutex returns.
LEMMA ReturnsLocked ==
  ASSUME SyncOK, NodeOK', NEW t \in Handlers, NEW h, blockMutex = t, Unlock(t, h)
  PROVE  SyncOK'
<1>1. LocalOK(Idle) /\ Idle.pc \notin Applying
  BY IdleIsOK DEF Holding
<1> QED BY <1>1, ReturnsLock DEF SyncOK, Unlock

\* The height is set.
LEMMA SetHeightKeeps ==
  ASSUME SyncOK, NEW t \in Handlers, SetHeight(t)
  PROVE  SyncOK'
<1> DEFINE l == local[t]
           b == l.list[l.i]
           r == [l EXCEPT !.pc = "apply", !.i = l.i + 1, !.old = b]
<1>1. LocalOK(l) /\ l.pc = "setHeight" /\ blockMutex = t
  BY ApplyingHolds DEF SyncOK, LocalsOK, SetHeight, Applying
<1>2. b.height \in Heights /\ l.i \in 1..Len(l.list) /\ Len(l.list) \in Nat
  BY <1>1 DEF LocalOK, ListOK, Applying
<1>3. NodeOK'
  <2>1. height' = b.height
    BY DEF SetHeight
  <2> HIDE DEF b
  <2> QED BY <2>1, <1>2 DEF SyncOK, NodeOK, SetHeight, stores
<1>4. CASE Unlock(t, b.height)
  BY <1>1, <1>3, <1>4, ReturnsLocked
<1>5. CASE l.i # Len(l.list) /\ Set(t, r) /\ blockMutex' = blockMutex
  <2>1. l.i + 1 \in 1..Len(l.list)
    <3> HIDE DEF l
    <3> QED BY <1>2, <1>5
  <2>2. /\ DOMAIN r = {"pc", "h", "hmax", "list", "i", "old", "target", "adjust"}
        /\ r.pc = "apply" /\ r.h = l.h /\ r.hmax = l.hmax /\ r.list = l.list
        /\ r.target = l.target /\ r.i = l.i + 1 /\ r.old = b
    BY <1>1 DEF LocalOK
  <2> HIDE DEF r, l, b
  <2>3. LocalOK(r) /\ r.pc \in Holding /\ r.pc # "reset"
    BY <1>1, <1>2, <2>1, <2>2 DEF LocalOK, PCs, Holding, Applying
  <2> QED BY <2>3, <1>1, <1>3, <1>5, KeepsLock DEF SyncOK
<1> QED BY <1>4, <1>5 DEF SetHeight

-----------------------------------------------------------------------------
(***************************************************************************)
(* ResetAccountsAndBlocksSync, with or without BlockMutex.                 *)
(***************************************************************************)

\* It ends.
LEMMA ResetReturnsKeeps ==
  ASSUME SyncOK, NEW t \in Handlers, NEW h \in Nat, ResetReturns(t, h),
         height' \in Heights, heightMax' = heightMax, blockDB' = blockDB, inbox' = inbox
  PROVE  SyncOK'
<1>1. local[t].hmax \in Nat /\ shift \in Nat /\ shift >= 1
  BY DEF SyncOK, LocalsOK, LocalOK, NodeOK
<1>2. shift' \in Nat /\ shift' >= 1
  <2>1. AdjustShift(local[t].hmax, h) \in Nat /\ AdjustShift(local[t].hmax, h) >= 1
    BY <1>1, ShiftIsPositive, Zenon, SMTT(20)
  <2>2. shift' = shift \/ shift' = AdjustShift(local[t].hmax, h)
    BY DEF ResetReturns
  <2> QED BY <1>1, <2>1, <2>2
<1>3. NodeOK'
  BY <1>2 DEF SyncOK, NodeOK
<1>4. CASE blockMutex = t
  BY <1>3, <1>4, ReturnsLocked DEF ResetReturns
<1>5. CASE blockMutex # t
  BY <1>3, <1>5, ReturnsUnlocked DEF ResetReturns
<1> QED BY <1>4, <1>5

\* It gives up: the handler that returns with a negative target does not hold
\* BlockMutex.
LEMMA ResetGivesUpKeeps ==
  ASSUME SyncOK, NEW t \in Handlers, ResetGivesUp(t)
  PROVE  SyncOK'
<1>1. /\ local[t].pc = "reset" /\ height' = height /\ heightMax' = heightMax
      /\ blockDB' = blockDB /\ inbox' = inbox
  BY DEF ResetGivesUp, stores
<1>2. height \in Heights /\ height \in Nat
  BY ChainAssumption DEF SyncOK, NodeOK, Heights
<1>3. CASE ResetReturns(t, height)
  BY <1>1, <1>2, <1>3, ResetReturnsKeeps
<1>4. CASE /\ local[t].target < 0 /\ Set(t, Idle) /\ blockMutex' = blockMutex
           /\ shift' = IF local[t].adjust THEN AdjustShift(local[t].hmax, height) ELSE shift
  <2>1. blockMutex # t
    <3>1. local[t].target \in Int
      BY DEF SyncOK, LocalsOK, LocalOK
    <3>2. blockMutex = t => local[t].target >= 0
      BY <1>1 DEF SyncOK, LockOK
    <3> QED BY <1>4, <3>1, <3>2
  <2>3. local[t].hmax \in Nat /\ shift \in Nat /\ shift >= 1
    BY DEF SyncOK, LocalsOK, LocalOK, NodeOK
  <2>4. shift' \in Nat /\ shift' >= 1
    <3>1. AdjustShift(local[t].hmax, height) \in Nat /\ AdjustShift(local[t].hmax, height) >= 1
      BY <1>2, <2>3, ShiftIsPositive, Zenon, SMTT(20)
    <3>2. shift' = shift \/ shift' = AdjustShift(local[t].hmax, height)
      BY <1>4
    <3> QED BY <2>3, <3>1, <3>2
  <2>5. NodeOK'
    BY <1>1, <1>2, <2>4 DEF SyncOK, NodeOK
  <2> QED BY <1>4, <2>1, <2>5, ReturnsUnlocked
<1> QED BY <1>3, <1>4 DEF ResetGivesUp

\* It loads the rows of its target.
LEMMA ResetLoadKeeps ==
  ASSUME SyncOK, NEW t \in Handlers, ResetLoad(t)
  PROVE  SyncOK'
<1> DEFINE l == local[t]
           target == Max({0, l.target})
           r == [l EXCEPT !.pc = "remove", !.target = target]
<1>1. LocalOK(l) /\ l.pc = "reset" /\ Set(t, r) /\ blockMutex' = blockMutex
  BY DEF SyncOK, LocalsOK, ResetLoad
<1>2. NodeOK'
  BY NodeStays DEF SyncOK, ResetLoad, flags, stores
<1>3. target \in Int /\ target >= 0 /\ target <= MaxHeight
  <2>1. l.target \in Int /\ l.target <= MaxHeight /\ MaxHeight \in Nat
    BY <1>1, ChainAssumption DEF LocalOK
  <2> HIDE DEF l
  <2>2. \E x \in {0, l.target} : \A y \in {0, l.target} : x >= y
    BY <2>1
  <2>3. target \in {0, l.target} /\ target >= 0
    BY <2>1, <2>2 DEF Max
  <2> QED BY <2>1, <2>3
<1>4. /\ DOMAIN r = {"pc", "h", "hmax", "list", "i", "old", "target", "adjust"}
      /\ r.pc = "remove" /\ r.h = l.h /\ r.hmax = l.hmax /\ r.list = l.list
      /\ r.target = target
  BY <1>1, SMTT(20), Zenon DEF LocalOK
<1> HIDE DEF r, l, target
<1>5. LocalOK(r) /\ r.pc \in Holding /\ r.pc \notin Applying /\ r.pc # "reset"
  BY <1>1, <1>3, <1>4 DEF LocalOK, PCs, Holding, Applying
<1>6. CASE blockMutex = t
  BY <1>1, <1>2, <1>5, <1>6, KeepsLock DEF SyncOK
<1>7. CASE blockMutex # t
  BY <1>1, <1>2, <1>5, <1>7, WithoutLock DEF SyncOK
<1> QED BY <1>6, <1>7

\* It deletes the rows above the target.
LEMMA ResetRemoveKeeps ==
  ASSUME SyncOK, NEW t \in Handlers, ResetRemove(t)
  PROVE  SyncOK'
<1> DEFINE l == local[t]
           r == [l EXCEPT !.pc = "resetHeight"]
<1>1. LocalOK(l) /\ l.pc = "remove" /\ Set(t, r) /\ blockMutex' = blockMutex
  BY DEF SyncOK, LocalsOK, ResetRemove
<1>2. NodeOK'
  <2> DEFINE gone(h) == h \in (l.target + 1)..LastHeightStored(blockDB, None)
  <2>1. blockDB' = [h \in Heights |-> IF gone(h) THEN None ELSE blockDB[h]]
    BY DEF ResetRemove
  <2> HIDE DEF gone, l
  <2>2. None.height \in Heights
    BY ChainAssumption DEF None, Heights
  <2>3. DOMAIN blockDB' = Heights /\ \A h \in Heights : blockDB'[h].height \in Heights
    BY <2>1, <2>2 DEF SyncOK, NodeOK
  <2> QED BY <2>3 DEF SyncOK, NodeOK, ResetRemove, flags
<1>3. /\ DOMAIN r = {"pc", "h", "hmax", "list", "i", "old", "target", "adjust"}
      /\ r.pc = "resetHeight" /\ r.h = l.h /\ r.hmax = l.hmax /\ r.list = l.list
      /\ r.target = l.target
  BY <1>1 DEF LocalOK
<1> HIDE DEF r, l
<1>4. LocalOK(r) /\ r.pc \in Holding /\ r.pc \notin Applying /\ r.pc # "reset"
  BY <1>1, <1>3 DEF LocalOK, PCs, Holding, Applying
<1>5. CASE blockMutex = t
  BY <1>1, <1>2, <1>4, <1>5, KeepsLock DEF SyncOK
<1>6. CASE blockMutex # t
  BY <1>1, <1>2, <1>4, <1>6, WithoutLock DEF SyncOK
<1> QED BY <1>5, <1>6

\* It sets the height.
LEMMA ResetHeightKeeps ==
  ASSUME SyncOK, NEW t \in Handlers, ResetHeight(t)
  PROVE  SyncOK'
<1>1. LocalOK(local[t]) /\ local[t].pc = "resetHeight"
  BY DEF SyncOK, LocalsOK, ResetHeight
<1>2. local[t].target \in Heights /\ local[t].target \in Nat
  BY <1>1, ChainAssumption DEF LocalOK, Heights
<1> QED BY <1>2, ResetReturnsKeeps DEF ResetHeight, stores

-----------------------------------------------------------------------------
(***************************************************************************)
(* What is stored and what is in memory, while at most one handler does    *)
(* more than wait for a message or for BlockMutex.                         *)
(***************************************************************************)

\* Two blocks that differ at most in the fees of their chains.
Same(b, c) == [b EXCEPT !.total = 0] = [c EXCEPT !.total = 0]

\* The balances after the first n stored blocks.
Matches(db, ledger, n) ==
  DOMAIN ledger = 1..n /\ \A i \in 1..n : Same(ledger[i], db[i])

\* Those balances, with one more block.
AppliedTo(db, ledger, n, b) ==
  /\ DOMAIN ledger = 1..(n + 1) /\ ledger[n + 1] = b
  /\ \A i \in 1..n : Same(ledger[i], db[i])

\* The blocks up to height n are stored, and none above.
BlocksAt(db, n) ==
  /\ n \in Heights /\ db[0] = Genesis
  /\ \A h \in 1..n : db[h].height = h
  /\ \A h \in Heights : h > n => db[h] = None

\* So are the accounts; the staking accounts may have rows above n.
RowsAt(db, rows, n) == \A h \in 0..n : Matches(db, rows[h], h)
AccountsAt(db, rows, n) ==
  RowsAt(db, rows, n) /\ \A h \in Heights : h > n => rows[h] = NoRow

\* Blocks with the same fields, but for the fees of their chains.
LEMMA SameFields ==
  ASSUME NEW b \in BlockType, NEW c \in BlockType
  PROVE  Same(b, c) <=> /\ b.height = c.height /\ b.id = c.id /\ b.prev = c.prev
                        /\ b.fees = c.fees /\ b.txs = c.txs
BY DEF Same, BlockType

\* StoreBlock stores the block with other fees of its chain.
LEMMA SameWithTotal ==
  ASSUME NEW b \in BlockType, NEW v \in Nat
  PROVE  LET row == [b EXCEPT !.total = v]
         IN  row \in BlockType /\ Same(b, row) /\ row.height = b.height
BY Zenon, SMTT(20) DEF Same, BlockType

\* A missing block is of the type, and is no block with a height.
LEMMA NoneIsTyped == None \in BlockType /\ None.height = 0 /\ NoRow \in Seq(BlockType)
BY DEF None, NoRow, BlockType

\* A block is applied to the balances.
LEMMA MatchesAppend ==
  ASSUME NEW db, NEW ledger \in Seq(BlockType), NEW b \in BlockType, NEW n \in Nat,
         Matches(db, ledger, n)
  PROVE  AppliedTo(db, Append(ledger, b), n, b) /\ Append(ledger, b) \in Seq(BlockType)
<1>1. Len(ledger) = n
  BY DEF Matches
<1>2. /\ Append(ledger, b) \in Seq(BlockType) /\ Len(Append(ledger, b)) = n + 1
      /\ Append(ledger, b)[n + 1] = b
      /\ \A i \in 1..n : Append(ledger, b)[i] = ledger[i]
  BY <1>1
<1>3. DOMAIN Append(ledger, b) = 1..(n + 1)
  BY <1>2
<1> QED BY <1>2, <1>3 DEF Matches, AppliedTo

\* The block that was applied is stored.
LEMMA AppliedIsStored ==
  ASSUME NEW db, NEW n \in Nat, DOMAIN db = Heights, n + 1 \in Heights, NEW ledger, NEW b,
         AppliedTo(db, ledger, n, b), NEW row, Same(b, row)
  PROVE  Matches([db EXCEPT ![n + 1] = row], ledger, n + 1)
<1> DEFINE db2 == [db EXCEPT ![n + 1] = row]
<1>1. db2[n + 1] = row /\ \A i \in 1..n : db2[i] = db[i]
  BY ChainAssumption DEF Heights
<1> HIDE DEF db2
<1>2. \A i \in 1..(n + 1) : i \in 1..n \/ i = n + 1
  OBVIOUS
<1>3. \A i \in 1..(n + 1) : Same(ledger[i], db2[i])
  BY <1>1, <1>2 DEF AppliedTo
<1> QED BY <1>3 DEF Matches, AppliedTo, db2

\* Blocks above change no balances below.
LEMMA MatchesBelow ==
  ASSUME NEW db, NEW db2, NEW n \in Nat, \A i \in 1..n : db2[i] = db[i]
  PROVE  /\ \A ledger : Matches(db, ledger, n) => Matches(db2, ledger, n)
         /\ \A rows : RowsAt(db, rows, n) => RowsAt(db2, rows, n)
<1>1. ASSUME NEW k \in 0..n, NEW ledger, Matches(db, ledger, k)
      PROVE  Matches(db2, ledger, k)
  BY <1>1 DEF Matches
<1>2. n \in 0..n
  OBVIOUS
<1> QED BY <1>1, <1>2 DEF RowsAt

\* A block is stored above the others.
LEMMA BlocksExtend ==
  ASSUME NEW db, NEW n \in Nat, DOMAIN db = Heights, n + 1 \in Heights, BlocksAt(db, n),
         NEW row, row.height = n + 1
  PROVE  BlocksAt([db EXCEPT ![n + 1] = row], n + 1)
<1> DEFINE db2 == [db EXCEPT ![n + 1] = row]
<1>1. db2[n + 1] = row /\ \A i \in Heights : i # n + 1 => db2[i] = db[i]
  OBVIOUS
<1> HIDE DEF db2
<1>2. 0 \in Heights /\ \A i \in 1..(n + 1) : (i \in 1..n /\ i \in Heights /\ i # n + 1) \/ i = n + 1
  BY ChainAssumption DEF Heights
<1>3. \A i \in Heights : i > n + 1 => i > n /\ i # n + 1
  BY ChainAssumption DEF Heights
<1>4. db2[0] = Genesis
  BY <1>1, <1>2 DEF BlocksAt
<1>5. \A i \in 1..(n + 1) : db2[i].height = i
  BY <1>1, <1>2 DEF BlocksAt
<1> QED BY <1>1, <1>3, <1>4, <1>5 DEF BlocksAt, db2

\* A row of balances is stored above the others.
LEMMA RowsExtend ==
  ASSUME NEW db, NEW rows, NEW n \in Nat, DOMAIN rows = Heights, n + 1 \in Heights,
         NEW ledger, Matches(db, ledger, n + 1)
  PROVE  LET rows2 == [rows EXCEPT ![n + 1] = ledger]
         IN  /\ RowsAt(db, rows, n) => RowsAt(db, rows2, n + 1)
             /\ AccountsAt(db, rows, n) => AccountsAt(db, rows2, n + 1)
<1> DEFINE rows2 == [rows EXCEPT ![n + 1] = ledger]
<1>1. rows2[n + 1] = ledger /\ \A i \in Heights : i # n + 1 => rows2[i] = rows[i]
  OBVIOUS
<1> HIDE DEF rows2
<1>2. \A i \in 0..(n + 1) : (i \in 0..n /\ i \in Heights /\ i # n + 1) \/ i = n + 1
  BY ChainAssumption DEF Heights
<1>3. \A i \in Heights : i > n + 1 => i > n /\ i # n + 1
  BY ChainAssumption DEF Heights
<1>4. RowsAt(db, rows, n) => RowsAt(db, rows2, n + 1)
  BY <1>1, <1>2 DEF RowsAt
<1> QED BY <1>1, <1>3, <1>4 DEF AccountsAt, rows2

\* The count of a store that has rows exactly up to n.
LEMMA LastStored ==
  ASSUME NEW db, NEW none, NEW n \in Heights, \A h \in 0..n : db[h] # none,
         \A h \in Heights : h > n => db[h] = none
  PROVE  LastHeightStored(db, none) = n
<1> DEFINE S == {h \in Heights : \A i \in 0..h : db[i] # none}
<1>1. n \in Nat /\ Heights \subseteq Nat
  BY ChainAssumption DEF Heights
<1>2. n \in S
  OBVIOUS
<1>3. ASSUME NEW h \in S PROVE h \in Nat /\ h <= n
  <2>1. h \in Heights /\ h \in Nat /\ db[h] # none
    BY <1>1
  <2> QED BY <2>1, <1>1
<1> HIDE DEF S
<1>4. \E x \in S : \A y \in S : x >= y
  BY <1>1, <1>2, <1>3
<1>5. Max(S) \in S /\ Max(S) >= n
  BY <1>2, <1>4 DEF Max
<1>6. Max(S) = n
  BY <1>1, <1>3, <1>5
<1> QED BY <1>6 DEF LastHeightStored, S

\* The count of the blocks.
LEMMA LastBlockStored ==
  ASSUME NEW db, NEW n, BlocksAt(db, n)
  PROVE  LastHeightStored(db, None) = n /\ \A h \in 0..n : db[h] # None
<1>1. \A h \in 1..n : db[h] # None
  BY NoneIsTyped, ChainAssumption DEF BlocksAt, Heights
<1>2. n \in Heights /\ \A h \in 0..n : h = 0 \/ h \in 1..n
  BY ChainAssumption DEF BlocksAt, Heights
<1>3. \A h \in 0..n : db[h] # None
  BY <1>1, <1>2, ChainAssumption DEF BlocksAt
<1> QED BY <1>2, <1>3, LastStored DEF BlocksAt

\* Balances that are stored are never taken for a missing row.
LEMMA RowIsThere ==
  ASSUME NEW db \in [Heights -> BlockType], NEW n, BlocksAt(db, n), NEW h \in 0..n,
         NEW row, Matches(db, row, h)
  PROVE  row # NoRow
<1>1. n \in Heights /\ n \in Nat
  BY ChainAssumption DEF BlocksAt, Heights
<1>2. SUFFICES ASSUME row = NoRow PROVE FALSE
  OBVIOUS
<1>3. DOMAIN NoRow = 1..1 /\ NoRow[1] = None
  BY DEF NoRow
<1>4. h = 1 /\ Same(None, db[1])
  <2>1. 1..h = 1..1
    BY <1>2, <1>3, Zenon, SMTT(20) DEF Matches
  <2>2. h = 1
    BY <2>1, <1>1
  <2> QED BY <2>2, <1>2, <1>3 DEF Matches
<1>5. 1 \in Heights /\ 1 \in 1..n
  BY <1>1, <1>4, ChainAssumption DEF Heights
<1>6. db[1].height = 1 /\ db[1] \in BlockType
  BY <1>5 DEF BlocksAt
<1> QED BY <1>4, <1>6, NoneIsTyped, SameFields

\* The count of the accounts.
LEMMA LastAccountsStored ==
  ASSUME NEW db \in [Heights -> BlockType], NEW rows, NEW n, BlocksAt(db, n),
         AccountsAt(db, rows, n)
  PROVE  LastHeightStored(rows, NoRow) = n /\ \A h \in 0..n : rows[h] # NoRow
<1>1. n \in Heights
  BY DEF BlocksAt
<1>2. \A h \in 0..n : rows[h] # NoRow
  BY RowIsThere DEF AccountsAt, RowsAt
<1> QED BY <1>1, <1>2, LastStored DEF AccountsAt

\* The rows above a height are deleted.
LEMMA BlocksRemoved ==
  ASSUME NEW db, NEW n, BlocksAt(db, n), NEW k \in 0..n
  PROVE  LET db2 == [h \in Heights |-> IF h \in (k + 1)..n THEN None ELSE db[h]]
         IN  BlocksAt(db2, k) /\ \A i \in 1..k : db2[i] = db[i]
<1> DEFINE db2 == [h \in Heights |-> IF h \in (k + 1)..n THEN None ELSE db[h]]
<1>1. k \in Heights /\ n \in Nat /\ \A i \in 0..k : i \in Heights /\ i \notin (k + 1)..n
  BY ChainAssumption DEF BlocksAt, Heights
<1>2. \A i \in 0..k : db2[i] = db[i]
  BY <1>1
<1>3. ASSUME NEW h \in Heights, h > k PROVE db2[h] = None
  <2>1. h \in (k + 1)..n \/ h > n
    BY <1>1, <1>3, ChainAssumption DEF Heights
  <2> QED BY <2>1 DEF BlocksAt
<1> HIDE DEF db2
<1>4. 0 \in 0..k /\ \A i \in 1..k : i \in 0..k /\ i \in 1..n
  BY <1>1
<1>5. BlocksAt(db2, k)
  BY <1>1, <1>2, <1>3, <1>4 DEF BlocksAt
<1> QED BY <1>2, <1>4, <1>5 DEF db2

\* The same for the balances; the staking accounts keep their rows.
LEMMA RowsRemoved ==
  ASSUME NEW db, NEW rows, NEW n \in Heights, NEW k \in 0..n
  PROVE  LET rows2 == [h \in Heights |-> IF h \in (k + 1)..n THEN NoRow ELSE rows[h]]
         IN  /\ AccountsAt(db, rows, n) => AccountsAt(db, rows2, k)
             /\ RowsAt(db, rows, n) => RowsAt(db, rows, k)
<1> DEFINE rows2 == [h \in Heights |-> IF h \in (k + 1)..n THEN NoRow ELSE rows[h]]
<1>1. n \in Nat /\ \A i \in 0..k : i \in Heights /\ i \notin (k + 1)..n /\ i \in 0..n
  BY ChainAssumption DEF Heights
<1>2. \A i \in 0..k : rows2[i] = rows[i]
  BY <1>1
<1>3. ASSUME \A h \in Heights : h > n => rows[h] = NoRow, NEW h \in Heights, h > k
      PROVE  rows2[h] = NoRow
  <2>1. h \in (k + 1)..n \/ h > n
    BY <1>1, <1>3, ChainAssumption DEF Heights
  <2> QED BY <2>1, <1>3
<1> HIDE DEF rows2
<1>4. RowsAt(db, rows, n) => RowsAt(db, rows, k) /\ RowsAt(db, rows2, k)
  BY <1>1, <1>2 DEF RowsAt
<1> QED BY <1>3, <1>4 DEF AccountsAt, rows2

-----------------------------------------------------------------------------
(***************************************************************************)
(* The invariant: where the node is, by what the handler that is busy does.*)
(***************************************************************************)
Stored(nb, na, ns) ==
  BlocksAt(blockDB, nb) /\ AccountsAt(blockDB, accountsDB, na) /\ RowsAt(blockDB, stakingDB, ns)
InMemory(n) == Matches(blockDB, accounts, n) /\ Matches(blockDB, staking, n)
NodeAt(n) == Stored(n, n, n) /\ InMemory(n)

\* The block that a handler is at is the next one, and the others follow it.
NextOK(l) ==
  /\ l.list[l.i].height = height + 1
  /\ l.list[l.i].prev = blockDB[height].id
  /\ \A j \in (l.i + 1)..Len(l.list) : l.list[j].prev = l.list[j - 1].id

TaskOK(l) ==
  /\ l.pc \in {"verify", "check"} => NodeAt(height) /\ l.h = height
  /\ l.pc = "lock" => NodeAt(height) /\ NextOK(l)
  /\ l.pc = "apply" => /\ NodeAt(height) /\ l.old.height <= height
                       /\ l.old.height = height => NextOK(l)
  /\ l.pc = "storeBlock" => /\ Stored(height, height, height) /\ NextOK(l)
                            /\ AppliedTo(blockDB, accounts, height, l.list[l.i])
                            /\ AppliedTo(blockDB, staking, height, l.list[l.i])
  /\ l.pc \in {"storeAccounts", "storeStaking", "setHeight"} =>
       /\ NextOK(l) /\ InMemory(height + 1) /\ Same(l.list[l.i], blockDB[height + 1])
  /\ l.pc = "storeAccounts" => Stored(height + 1, height, height)
  /\ l.pc = "storeStaking" => Stored(height + 1, height + 1, height)
  /\ l.pc = "setHeight" => Stored(height + 1, height + 1, height + 1)
  /\ l.pc = "reset" => /\ Stored(height, height, height)
                       /\ InMemory(height) \/ l.target \in 0..height
  /\ l.pc = "remove" => /\ Stored(height, height, height)
                        /\ l.target \in 0..height /\ InMemory(l.target)
  /\ l.pc = "resetHeight" => /\ Stored(l.target, l.target, l.target)
                             /\ l.target \in 0..height /\ InMemory(l.target)

\* A handler that does more than wait, and at most one of them.
Busy(t) == local[t].pc \notin {"idle", "bl"}
OneBusy == \A t, u \in Handlers : Busy(t) /\ Busy(u) => t = u

\* What peers serve: blocks of their chains, after the genesis block.
Served(list) == \A i \in 1..Len(list) : list[i].height >= 1 => list[i] \in Blocks

TypedOK ==
  /\ accounts \in Seq(BlockType) /\ staking \in Seq(BlockType)
  /\ blockDB \in [Heights -> BlockType]
  /\ accountsDB \in [Heights -> Seq(BlockType)] /\ stakingDB \in [Heights -> Seq(BlockType)]
  /\ \A t \in Handlers : Served(local[t].list) /\ local[t].old \in BlockType
  /\ \A list \in inbox : Served(list)

ChainOK ==
  /\ TypedOK
  /\ (\A t \in Handlers : ~Busy(t)) => NodeAt(height)
  /\ \A t \in Handlers : Busy(t) => TaskOK(local[t])

\* Set changes one handler, whatever it is set to.
LEMMA SetIs ==
  ASSUME LocalsOK, NEW t \in Handlers, NEW r, Set(t, r)
  PROVE  local'[t] = r /\ \A u \in Handlers : u # t => local'[u] = local[u]
BY DEF LocalsOK, Set

\* The handler that is busy goes on: the others wait.
LEMMA WorksOn ==
  ASSUME OneBusy', NEW t \in Handlers, Busy(t)', TypedOK', TaskOK(local[t])'
  PROVE  ChainOK'
BY DEF ChainOK, OneBusy

\* It returns, and leaves the node at its height.
LEMMA WorkDone ==
  ASSUME SyncOK, OneBusy, NEW t \in Handlers, Busy(t), Set(t, Idle), TypedOK', NodeAt(height)'
  PROVE  ChainOK'
<1>1. local'[t] = Idle /\ \A u \in Handlers : u # t => local'[u] = local[u]
  BY SetIs DEF SyncOK
<1>2. \A u \in Handlers : ~Busy(u)'
  BY <1>1, IdleIsOK DEF OneBusy, Busy
<1> QED BY <1>2 DEF ChainOK

\* The node is at its height when a handler becomes busy.
LEMMA NodeBefore ==
  ASSUME SyncOK, ChainOK, OneBusy', NEW t \in Handlers, ~Busy(t), Busy(t)',
         NEW r, Set(t, r)
  PROVE  NodeAt(height)
<1>1. local'[t] = r /\ \A u \in Handlers : u # t => local'[u] = local[u]
  BY SetIs DEF SyncOK
<1>2. \A u \in Handlers : ~Busy(u)
  BY <1>1 DEF OneBusy, Busy
<1> QED BY <1>2 DEF ChainOK

\* A handler takes a message or drops it, while another one may be busy.
LEMMA WaitsOn ==
  ASSUME SyncOK, ChainOK, NEW t \in Handlers, ~Busy(t), NEW r, Set(t, r),
         r.pc \in {"idle", "bl"}, TypedOK', UNCHANGED <<height, memory, stores>>
  PROVE  ChainOK'
<1>1. local'[t] = r /\ \A u \in Handlers : u # t => local'[u] = local[u]
  BY SetIs DEF SyncOK
<1>2. \A u \in Handlers : Busy(u)' <=> Busy(u)
  BY <1>1 DEF Busy
<1>3. (\A u \in Handlers : ~Busy(u)') => NodeAt(height)'
  BY <1>2 DEF ChainOK, NodeAt, Stored, InMemory, memory, stores
<1>4. ASSUME NEW u \in Handlers, Busy(u)' PROVE TaskOK(local[u])'
  <2>1. Busy(u) /\ local'[u] = local[u] /\ TaskOK(local[u])
    BY <1>1, <1>2, <1>4 DEF ChainOK
  <2> QED BY <2>1, Zenon, SMTT(20) DEF TaskOK, NodeAt, Stored, InMemory, NextOK, memory, stores
<1> QED BY <1>3, <1>4 DEF ChainOK

\* A handler moves on, and the node stays as it is.
LEMMA TypedMoves ==
  ASSUME SyncOK, TypedOK, NEW t \in Handlers, NEW r, Set(t, r),
         Served(r.list), r.old \in BlockType, UNCHANGED <<memory, stores>>, inbox' \subseteq inbox
  PROVE  TypedOK'
<1>1. local'[t] = r /\ \A u \in Handlers : u # t => local'[u] = local[u]
  BY SetIs DEF SyncOK
<1> QED BY <1>1 DEF TypedOK, memory, stores

\* The variables of a handler that waits.
LEMMA IdleIsTyped == Served(Idle.list) /\ Idle.old \in BlockType /\ Idle.pc = "idle"
<1>1. Len(<< >>) = 0 /\ Idle.list = << >>
  BY DEF Idle
<1> QED BY <1>1, NoneIsTyped DEF Idle, Served

-----------------------------------------------------------------------------
(***************************************************************************)
(* Messages arrive, and the first pass over them.                          *)
(***************************************************************************)

\* A "bl" message that arrives changes nothing of the node.
LEMMA ReceiveBlockChain ==
  ASSUME SyncOK, ChainOK, NEW t \in Handlers, NEW b \in Blocks, ReceiveBlock(t, b)
  PROVE  ChainOK'
<1> DEFINE r == [Idle EXCEPT !.pc = "bl", !.h = height, !.list = <<b>>]
<1>1. Set(t, r) /\ local[t].pc = "idle" /\ UNCHANGED <<height, memory, stores, inbox>>
  BY DEF ReceiveBlock
<1>2. r.pc = "bl" /\ r.list = <<b>> /\ r.old = Idle.old
  BY DEF Idle
<1>3. Served(<<b>>)
  BY DEF Served
<1> HIDE DEF r
<1>4. TypedOK'
  BY <1>1, <1>2, <1>3, IdleIsTyped, TypedMoves DEF ChainOK
<1>5. ~Busy(t)
  BY <1>1 DEF Busy
<1> QED BY <1>1, <1>2, <1>4, <1>5, WaitsOn

\* What a peer answers are blocks of its chain.
LEMMA HeadersAreServed ==
  ASSUME NEW chain \in Chains, NEW range, range[1] \in Nat, range[2] \in Int
  PROVE  Served(SendHeaders(chain, range))
<1> DEFINE from == range[1]
           to == Min({range[2], Len(chain)})
           row(i) == IF from + i - 1 = 0 THEN Genesis ELSE chain[from + i - 1]
           list == [i \in 1..(to - from + 1) |-> row(i)]
<1>1. chain \in Seq(BlockType) /\ Len(chain) \in Nat
  BY ChainAssumption
<1>2. to \in Int /\ to <= Len(chain)
  <2> DEFINE c == Len(chain)
             a == range[2]
  <2>1. c \in Int /\ a \in Int
    BY <1>1
  <2> HIDE DEF c, a
  <2>2. Min({a, c}) \in {a, c} /\ Min({a, c}) <= c
    BY <2>1, MinOfTwo, Zenon, SMTT(20)
  <2> QED BY <2>1, <2>2 DEF c, a
<1>3. CASE from > to
  <2>1. SendHeaders(chain, range) = << >> /\ Len(<< >>) = 0
    BY <1>3 DEF SendHeaders
  <2> QED BY <2>1 DEF Served
<1>4. CASE ~(from > to)
  <2>1. SendHeaders(chain, range) = list
    BY <1>4 DEF SendHeaders
  <2> HIDE DEF to
  <2>2. Len(list) = to - from + 1 /\ to - from + 1 \in Nat
    BY <1>2, <1>4
  <2>3. ASSUME NEW i \in 1..(to - from + 1), list[i].height >= 1 PROVE list[i] \in Blocks
    <3>1. list[i] = row(i)
      BY <2>3
    <3>2. CASE from + i - 1 = 0
      <4>1. list[i].height = 0
        BY <3>1, <3>2, ChainAssumption
      <4> QED BY <4>1, <2>3
    <3>3. CASE from + i - 1 # 0
      <4>1. from + i - 1 \in 1..Len(chain)
        BY <3>3, <1>1, <1>2
      <4>2. from + i - 1 \in DOMAIN chain /\ list[i] = chain[from + i - 1]
        BY <3>1, <3>3, <4>1, <1>1
      <4> HIDE DEF list, row
      <4> QED BY <4>2 DEF Blocks
    <3> QED BY <3>2, <3>3
  <2> HIDE DEF list
  <2> QED BY <2>1, <2>2, <2>3 DEF Served
<1> QED BY <1>3, <1>4

\* No handler moves, and the node stays as it is.
LEMMA NothingMoves ==
  ASSUME ChainOK, UNCHANGED <<height, memory, stores, local>>, \A list \in inbox' : Served(list)
  PROVE  ChainOK'
<1>1. TypedOK'
  BY DEF ChainOK, TypedOK, memory, stores
<1>2. \A u \in Handlers : Busy(u)' <=> Busy(u)
  BY DEF Busy
<1>3. (\A u \in Handlers : ~Busy(u)') => NodeAt(height)'
  BY <1>2 DEF ChainOK, NodeAt, Stored, InMemory, memory, stores
<1>4. ASSUME NEW u \in Handlers, Busy(u)' PROVE TaskOK(local[u])'
  <2>1. local'[u] = local[u] /\ TaskOK(local[u])
    BY <1>2, <1>4 DEF ChainOK
  <2> QED BY <2>1, Zenon, SMTT(20) DEF TaskOK, NodeAt, Stored, InMemory, NextOK, memory, stores
<1> QED BY <1>1, <1>3, <1>4 DEF ChainOK

\* A "hi" message.
LEMMA ReceiveHiChain ==
  ASSUME SyncOK, ChainOK, NEW t \in Handlers, NEW chain \in Chains, NEW sent \in BOOLEAN,
         ReceiveHi(t, chain, sent)
  PROVE  ChainOK'
<1> DEFINE list == SendHeaders(chain, GetHeaders(height, Len(chain)))
<1>1. height \in Nat /\ Len(chain) \in Nat
  BY ChainAssumption DEF SyncOK, NodeOK, Heights
<1>2. Served(list)
  BY <1>1, RangeStarts, HeadersAreServed
<1>3. inbox' = inbox \/ inbox' = inbox \cup {list}
  BY Zenon, SMTT(20) DEF ReceiveHi, Request
<1>4. UNCHANGED <<height, memory, stores, local>>
  BY Zenon, SMTT(20) DEF ReceiveHi
<1> HIDE DEF list
<1>5. \A x \in inbox' : Served(x)
  BY <1>2, <1>3 DEF ChainOK, TypedOK
<1> QED BY <1>4, <1>5, NothingMoves

\* Headers arrive: the height that is read is that of the node.
LEMMA ReceiveHeadersChain ==
  ASSUME SyncOK, ChainOK, OneBusy', NEW t \in Handlers, NEW list \in inbox,
         ReceiveHeaders(t, list)
  PROVE  ChainOK'
<1> DEFINE r == [Idle EXCEPT !.pc = "verify", !.h = height, !.hmax = heightMax, !.list = list]
<1>1. local[t].pc = "idle" /\ inbox' \subseteq inbox /\ UNCHANGED <<height, memory, stores>>
  BY SMTT(20), Zenon DEF ReceiveHeaders
<1>2. CASE UNCHANGED local
  <2>1. \A x \in inbox' : Served(x)
    BY <1>1, Zenon, SMTT(20) DEF ChainOK, TypedOK
  <2> QED BY <1>1, <1>2, <2>1, NothingMoves, Zenon, SMTT(20)
<1>3. CASE Set(t, r)
  <2>1. r.pc = "verify" /\ r.h = height /\ r.list = list /\ r.old = Idle.old
    BY DEF Idle
  <2>2. Served(list)
    BY DEF ChainOK, TypedOK
  <2> HIDE DEF r
  <2>3. local'[t] = r
    BY <1>3, SetIs DEF SyncOK
  <2>4. ~Busy(t) /\ Busy(t)'
    BY <1>1, <2>1, <2>3 DEF Busy
  <2>5. NodeAt(height)
    BY <1>3, <2>4, NodeBefore
  <2>6. TypedOK'
    BY <1>1, <1>3, <2>1, <2>2, IdleIsTyped, TypedMoves, SMTT(20), Zenon DEF ChainOK
  <2>7. NodeAt(height)' /\ r.h = height'
    BY <1>1, <2>1, <2>5 DEF NodeAt, Stored, InMemory, memory, stores
  <2>8. TaskOK(local[t])'
    BY <2>1, <2>3, <2>7, Zenon, SMTT(20) DEF TaskOK
  <2> QED BY <2>4, <2>6, <2>8, WorksOn
<1> QED BY <1>2, <1>3 DEF ReceiveHeaders

\* The block of a "bl" message is compared with the one at the height that was
\* read on arrival, which may be below that of the node by now.
LEMMA CheckBlockChain ==
  ASSUME SyncOK, ChainOK, OneBusy', NEW t \in Handlers, NEW refused \in BOOLEAN,
         CheckBlock(t, refused)
  PROVE  ChainOK'
<1> DEFINE l == local[t]
           last == blockDB[l.h]
           r == [l EXCEPT !.pc = "apply", !.i = 1, !.old = last]
<1>1. /\ LocalOK(l) /\ l.pc = "bl" /\ TypedOK /\ Served(l.list) /\ l.h \in Heights
      /\ Len(l.list) = 1 /\ UNCHANGED <<height, memory, stores, inbox>>
  BY SMTT(20), Zenon DEF SyncOK, LocalsOK, LocalOK, ChainOK, TypedOK, CheckBlock
<1>2. CASE Set(t, Idle)
  <2>1. TypedOK'
    BY <1>1, <1>2, IdleIsTyped, TypedMoves
  <2>2. ~Busy(t)
    BY <1>1 DEF Busy
  <2> QED BY <1>1, <1>2, <2>1, <2>2, IdleIsTyped, WaitsOn, SMTT(20), Zenon
<1>3. CASE /\ last # None /\ l.list[1].height = l.h + 1 /\ Follows(l.list[1], last)
           /\ Set(t, r)
  <2>1. r.pc = "apply" /\ r.i = 1 /\ r.old = last /\ r.list = l.list
    BY <1>1, SMTT(20), Zenon DEF LocalOK
  <2>2. last \in BlockType
    BY <1>1, SMTT(20), Zenon DEF TypedOK
  <2> HIDE DEF r
  <2>3. local'[t] = r
    BY <1>3, SetIs DEF SyncOK
  <2>4. ~Busy(t) /\ Busy(t)'
    BY <1>1, <2>1, <2>3, SMTT(20), Zenon DEF Busy
  <2>5. NodeAt(height)
    BY <1>3, <2>4, NodeBefore, SMTT(20), Zenon
  <2>6. TypedOK'
    BY <1>1, <1>3, <2>1, <2>2, TypedMoves
  <2>7. last.height = l.h /\ l.h <= height
    <3>1. BlocksAt(blockDB, height) /\ height \in Nat /\ l.h \in Nat /\ Genesis.height = 0
      BY <1>1, <2>5, ChainAssumption, SMTT(20), Zenon DEF NodeAt, Stored, BlocksAt, Heights
    <3> HIDE DEF l
    <3>2. l.h <= height
      BY <3>1, <1>3, <1>1 DEF BlocksAt
    <3>3. l.h = 0 \/ l.h \in 1..height
      BY <3>1, <3>2, SMTT(20), Zenon
    <3> QED BY <3>1, <3>2, <3>3 DEF BlocksAt
  <2>8. last.height = height => NextOK(r)
    <3> HIDE DEF l
    <3>1. \A j \in (1 + 1)..Len(l.list) : FALSE
      BY <1>1
    <3> QED BY <2>1, <2>7, <1>3, <3>1 DEF NextOK, Follows
  <2> HIDE DEF last
  <2>9. NodeAt(height)' /\ (last.height = height' => NextOK(local[t])')
    BY <1>1, <2>3, <2>5, <2>8, Zenon, SMTT(20) DEF NodeAt, Stored, InMemory, NextOK, memory, stores
  <2>10. TaskOK(local[t])'
    BY <1>1, <2>1, <2>3, <2>7, <2>9, Zenon, SMTT(20) DEF TaskOK
  <2> QED BY <2>4, <2>6, <2>10, WorksOn
<1> QED BY <1>2, <1>3 DEF CheckBlock

\* A busy handler goes on, and the node stays as it is.
LEMMA MovesOn ==
  ASSUME SyncOK, ChainOK, OneBusy', NEW t \in Handlers, NEW r, Set(t, r),
         r.pc \notin {"idle", "bl"}, Served(r.list), r.old \in BlockType, TaskOK(r),
         UNCHANGED <<height, memory, stores, inbox>>
  PROVE  ChainOK'
<1>1. local'[t] = r
  BY SetIs DEF SyncOK
<1>2. TypedOK'
  BY TypedMoves DEF ChainOK
<1>3. Busy(t)'
  BY <1>1 DEF Busy
<1>4. TaskOK(local[t])'
  BY <1>1, Zenon, SMTT(20) DEF TaskOK, NodeAt, Stored, InMemory, NextOK, memory, stores
<1> QED BY <1>2, <1>3, <1>4, WorksOn

\* A busy handler returns from where the node is at its height.
LEMMA LeavesNode ==
  ASSUME SyncOK, ChainOK, OneBusy, NEW t \in Handlers, Busy(t), Set(t, Idle), NodeAt(height),
         UNCHANGED <<height, memory, stores, inbox>>
  PROVE  ChainOK'
<1>1. TypedOK'
  BY IdleIsTyped, TypedMoves DEF ChainOK
<1>2. NodeAt(height)'
  BY DEF NodeAt, Stored, InMemory, memory, stores
<1> QED BY <1>1, <1>2, WorkDone

\* What is known of a handler of "sh" in its first pass.
LEMMA FirstPass ==
  ASSUME SyncOK, ChainOK, NEW t \in Handlers, local[t].pc \in {"verify", "check"}
  PROVE  /\ LocalOK(local[t]) /\ Busy(t) /\ Served(local[t].list) /\ local[t].old \in BlockType
         /\ NodeAt(height) /\ local[t].h = height
<1>1. Busy(t)
  BY DEF Busy
<1>2. TaskOK(local[t])
  BY <1>1 DEF ChainOK
<1> QED BY <1>1, <1>2, Zenon, SMTT(20) DEF TaskOK, SyncOK, LocalsOK, ChainOK, TypedOK

\* The known headers are compared with the chain.
LEMMA VerifyKnownChain ==
  ASSUME SyncOK, ChainOK, OneBusy', NEW t \in Handlers, VerifyKnown(t)
  PROVE  ChainOK'
<1> DEFINE l == local[t]
           r == [l EXCEPT !.pc = "check"]
<1>1. l.pc = "verify" /\ Set(t, r) /\ UNCHANGED <<height, memory, stores, inbox>>
  BY DEF VerifyKnown
<1>2. LocalOK(l) /\ Served(l.list) /\ l.old \in BlockType /\ NodeAt(height) /\ l.h = height
  BY <1>1, FirstPass
<1>3. r.pc = "check" /\ r.list = l.list /\ r.old = l.old /\ r.h = l.h
  BY <1>2 DEF LocalOK
<1> HIDE DEF r, l
<1>4. TaskOK(r)
  BY <1>2, <1>3, Zenon, SMTT(20) DEF TaskOK
<1> QED BY <1>1, <1>2, <1>3, <1>4, MovesOn

\* One of them differs, or the first pass refuses a block: the node will go back.
LEMMA VerifyForksChain ==
  ASSUME SyncOK, ChainOK, OneBusy', NEW t \in Handlers, VerifyForks(t) \/ VerifyRefuses(t)
  PROVE  ChainOK'
<1> DEFINE l == local[t]
<1>1. l.pc \in {"verify", "check"} /\ UNCHANGED <<height, memory, stores, inbox>>
  BY Zenon, SMTT(20) DEF VerifyForks, VerifyRefuses, flags
<1>2. LocalOK(l) /\ Served(l.list) /\ l.old \in BlockType /\ NodeAt(height)
  BY <1>1, FirstPass, Zenon, SMTT(20)
<1>3. \E target, adjust : Set(t, [l EXCEPT !.pc = "reset", !.adjust = adjust, !.target = target])
  <2>1. CASE VerifyForks(t)
    BY <2>1, Zenon, SMTT(20) DEF VerifyForks
  <2>2. CASE VerifyRefuses(t)
    <3>1. PICK target : Set(t, [l EXCEPT !.pc = "reset", !.target = target])
      BY <2>2, Zenon, SMTT(20) DEF VerifyRefuses
    <3>2. [l EXCEPT !.pc = "reset", !.target = target]
            = [l EXCEPT !.pc = "reset", !.adjust = l.adjust, !.target = target]
      BY <1>2, Zenon, SMTT(20) DEF LocalOK
    <3> QED BY <3>1, <3>2, Zenon, SMTT(20)
  <2> QED BY <2>1, <2>2, Zenon, SMTT(20)
<1>4. PICK target, adjust : Set(t, [l EXCEPT !.pc = "reset", !.adjust = adjust, !.target = target])
  BY <1>3, Zenon, SMTT(20)
<1> DEFINE r == [l EXCEPT !.pc = "reset", !.adjust = adjust, !.target = target]
<1>5. r.pc = "reset" /\ r.list = l.list /\ r.old = l.old /\ Set(t, r)
  BY <1>2, <1>4 DEF LocalOK
<1> HIDE DEF r, l
<1>6. TaskOK(r)
  BY <1>2, <1>5, Zenon, SMTT(20) DEF TaskOK, NodeAt
<1> QED BY <1>1, <1>2, <1>5, <1>6, MovesOn, Zenon, SMTT(20)

\* It panics, or asks for transactions and returns.
LEMMA VerifyReturns ==
  ASSUME SyncOK, ChainOK, OneBusy, NEW t \in Handlers, local[t].pc \in {"verify", "check"},
         Set(t, Idle), UNCHANGED <<height, memory, stores, inbox>>
  PROVE  ChainOK'
<1>1. Busy(t) /\ NodeAt(height)
  BY FirstPass
<1> QED BY <1>1, LeavesNode

\* All headers follow each other, from the node's last block on.
LEMMA VerifyChain ==
  ASSUME SyncOK, ChainOK, OneBusy, OneBusy', NEW t \in Handlers, Verify(t)
  PROVE  ChainOK'
<1> DEFINE l == local[t]
           k == FirstNew(l)
           r == [l EXCEPT !.pc = "lock", !.i = k]
<1>1. /\ l.pc = "check" /\ UNCHANGED <<height, memory, stores, inbox>>
      /\ \A i \in k..Len(l.list) : Linked(l, i)
  BY DEF Verify
<1>2. LocalOK(l) /\ Served(l.list) /\ l.old \in BlockType /\ NodeAt(height) /\ l.h = height
  BY <1>1, FirstPass, SMTT(20), Zenon
<1>3. CASE Set(t, Idle)
  BY <1>1, <1>3, VerifyReturns, SMTT(20), Zenon
<1>4. CASE Set(t, r)
  <2>1. k \in 1..Len(l.list) /\ l.list[k].height = height + 1 /\ Len(l.list) \in Nat
    <3>1. k \in 1..Len(l.list) /\ l.list[k].height = l.h + 1
      BY <1>1, <1>2, FirstNewInList
    <3>2. Len(l.list) \in Nat
      <4>1. l.list \in Seq(BlockType)
        BY <1>2, Zenon, SMTT(20) DEF LocalOK, ListOK
      <4> QED BY <4>1
    <3> QED BY <1>2, <3>1, <3>2, SMTT(20), Zenon
  <2>2. r.pc = "lock" /\ r.i = k /\ r.list = l.list /\ r.old = l.old
    BY <1>2 DEF LocalOK
  <2>3. height \in Nat
    <3>1. height \in Heights
      BY <1>2, Zenon, SMTT(20) DEF NodeAt, Stored, BlocksAt
    <3> QED BY <3>1, HeightsAreNat
  <2>4. OldBlock(l, k) = blockDB[height]
    <3>1. OldBlock(l, k) = blockDB[l.list[k].height - 1]
      BY SMTT(20), Zenon DEF OldBlock
    <3>2. l.list[k].height - 1 = height
      <4> HIDE DEF l, k
      <4> QED BY <2>1, <2>3, SMTT(20), Zenon
    <3> QED BY <3>1, <3>2
  <2>5. l.list[k].prev = blockDB[height].id
    <3>1. Linked(l, k)
      <4>1. k \in k..Len(l.list)
        <5> HIDE DEF l, k
        <5> QED BY <2>1, SMTT(20), Zenon
      <4> HIDE DEF l, k
      <4> QED BY <1>1, <4>1, Zenon, SMTT(20)
    <3> QED BY <3>1, <2>4 DEF Linked, Follows
  <2>6. ASSUME NEW j \in (k + 1)..Len(l.list) PROVE l.list[j].prev = l.list[j - 1].id
    <3>1. j # k /\ j \in k..Len(l.list)
      <4> HIDE DEF l, k
      <4> QED BY <2>1, SMTT(20), Zenon
    <3>2. OldBlock(l, j) = l.list[j - 1]
      BY <3>1 DEF OldBlock
    <3> QED BY <3>1, <3>2, <1>1 DEF Linked, Follows
  <2> HIDE DEF r, l, k
  <2>7. TaskOK(r)
    BY <1>2, <2>1, <2>2, <2>5, <2>6, Zenon, SMTT(20) DEF TaskOK, NextOK
  <2> QED BY <1>1, <1>2, <1>4, <2>2, <2>7, MovesOn
<1> QED BY <1>3, <1>4 DEF Verify

-----------------------------------------------------------------------------
(***************************************************************************)
(* The second pass: a block is applied and stored.                         *)
(***************************************************************************)

\* The second pass begins: it takes BlockMutex at the last block of the node.
LEMMA LockChain ==
  ASSUME SyncOK, ChainOK, OneBusy, OneBusy', NEW t \in Handlers, Lock(t)
  PROVE  ChainOK'
<1> DEFINE l == local[t]
           old == blockDB[l.list[l.i].height - 1]
           r == [l EXCEPT !.pc = "apply", !.old = old]
<1>1. l.pc = "lock" /\ UNCHANGED <<height, memory, stores, inbox>>
  BY DEF Lock
<1>2. Busy(t) /\ LocalOK(l) /\ Served(l.list)
  BY <1>1, Zenon, SMTT(20) DEF Busy, SyncOK, LocalsOK, ChainOK, TypedOK
<1>3. NodeAt(height) /\ NextOK(l)
  BY <1>1, <1>2, Zenon, SMTT(20) DEF ChainOK, TaskOK
<1>4. CASE Set(t, Idle)
  BY <1>1, <1>2, <1>3, <1>4, LeavesNode, Zenon, SMTT(20)
<1>5. CASE Set(t, r)
  <2>1. height \in Nat /\ height \in Heights /\ blockDB[height].height = height
    <3>1. height \in Heights /\ height \in Nat /\ Genesis.height = 0
      BY <1>3, ChainAssumption DEF NodeAt, Stored, BlocksAt, Heights
    <3>2. height = 0 \/ height \in 1..height
      BY <3>1, SMTT(20), Zenon
    <3> QED BY <1>3, <3>1, <3>2, SMTT(20), Zenon DEF NodeAt, Stored, BlocksAt
  <2>2. old = blockDB[height]
    <3>1. l.list[l.i].height - 1 = height
      <4> HIDE DEF l
      <4> QED BY <1>3, <2>1, SMTT(20), Zenon DEF NextOK
    <3> QED BY <3>1, SMTT(20), Zenon
  <2>3. old \in BlockType /\ old.height = height
    BY <2>1, <2>2, Zenon, SMTT(20) DEF ChainOK, TypedOK
  <2>4. r.pc = "apply" /\ r.i = l.i /\ r.list = l.list /\ r.old = old
    BY <1>2 DEF LocalOK
  <2> HIDE DEF r, l, old
  <2>5. TaskOK(r)
    <3>1. NextOK(r)
      BY <1>3, <2>4, Zenon, SMTT(20) DEF NextOK
    <3>2. old.height <= height
      BY <2>1, <2>3
    <3> QED BY <1>3, <2>4, <3>1, <3>2, Zenon, SMTT(20) DEF TaskOK
  <2> QED BY <1>1, <1>2, <1>5, <2>3, <2>4, <2>5, MovesOn
<1> QED BY <1>4, <1>5 DEF Lock

\* The handler that applies blocks, and the block it is at.
LEMMA Applies ==
  ASSUME SyncOK, ChainOK, NEW t \in Handlers, local[t].pc \in Applying
  PROVE  LET l == local[t]
         IN  /\ LocalOK(l) /\ Busy(t) /\ TaskOK(l) /\ Served(l.list) /\ l.old \in BlockType
             /\ l.i \in 1..Len(l.list) /\ Len(l.list) \in Nat
             /\ l.list[l.i] \in BlockType /\ l.list[l.i].height \in Heights
             /\ height \in Heights /\ height \in Nat
<1>1. Busy(t)
  BY DEF Busy, Applying
<1>2. LocalOK(local[t])
  BY SMTT(20), Zenon DEF SyncOK, LocalsOK
<1>3. local[t].i \in 1..Len(local[t].list) /\ ListOK(local[t].list)
  BY <1>2 DEF LocalOK
<1>4. height \in Heights /\ height \in Nat
  <2>1. height \in Heights
    BY DEF SyncOK, NodeOK
  <2> QED BY <2>1, HeightsAreNat
<1>5. local[t].list \in Seq(BlockType) /\ local[t].list[local[t].i].height \in Heights
  BY <1>3, Zenon, SMTT(20) DEF ListOK
<1>6. Len(local[t].list) \in Nat /\ local[t].list[local[t].i] \in BlockType
  BY <1>3, <1>5
<1>7. TaskOK(local[t]) /\ Served(local[t].list) /\ local[t].old \in BlockType
  BY <1>1, Zenon, SMTT(20) DEF ChainOK, TypedOK
<1> QED BY <1>1, <1>2, <1>3, <1>4, <1>5, <1>6, <1>7, Zenon, SMTT(20)

\* Memory changes, and the handler goes on.
LEMMA MemoryMoves ==
  ASSUME SyncOK, ChainOK, OneBusy', NEW t \in Handlers, NEW r, Set(t, r),
         r.pc \notin {"idle", "bl"}, Served(r.list), r.old \in BlockType, TaskOK(local[t])',
         accounts' \in Seq(BlockType), staking' \in Seq(BlockType), UNCHANGED <<stores, inbox>>
  PROVE  ChainOK'
<1>1. local'[t] = r /\ \A u \in Handlers : u # t => local'[u] = local[u]
  BY SetIs DEF SyncOK
<1>2. TypedOK'
  BY <1>1, Zenon, SMTT(20) DEF ChainOK, TypedOK, stores
<1>3. Busy(t)'
  BY <1>1, SMTT(20), Zenon DEF Busy
<1> QED BY <1>2, <1>3, WorksOn

\* CheckBlockAndTransferFunds succeeds on the block that follows the last one.
LEMMA ApplyChain ==
  ASSUME SyncOK, ChainOK, OneBusy', NEW t \in Handlers, Apply(t), local[t].old.height = height
  PROVE  ChainOK'
<1> DEFINE l == local[t]
           b == l.list[l.i]
           r == [l EXCEPT !.pc = "storeBlock"]
<1>1. /\ l.pc = "apply" /\ Set(t, r) /\ UNCHANGED <<height, stores, inbox>>
      /\ accounts' = Append(accounts, b) /\ staking' = Append(staking, b)
  BY DEF Apply
<1>2. /\ LocalOK(l) /\ TaskOK(l) /\ Served(l.list) /\ l.old \in BlockType
      /\ b \in BlockType /\ height \in Nat
  BY <1>1, Applies DEF Applying
<1>3. NodeAt(height) /\ NextOK(l)
  BY <1>1, <1>2 DEF TaskOK
<1>4. r.pc = "storeBlock" /\ r.i = l.i /\ r.list = l.list /\ r.old = l.old
  BY <1>2 DEF LocalOK
<1> HIDE DEF r
<1>5. local'[t] = r
  BY <1>1, SetIs DEF SyncOK
<1>6. accounts \in Seq(BlockType) /\ staking \in Seq(BlockType)
  BY DEF ChainOK, TypedOK
<1> HIDE DEF b
<1>7. /\ AppliedTo(blockDB, accounts', height, b) /\ accounts' \in Seq(BlockType)
      /\ AppliedTo(blockDB, staking', height, b) /\ staking' \in Seq(BlockType)
  BY <1>1, <1>2, <1>3, <1>6, MatchesAppend, Zenon, SMTT(20) DEF NodeAt, InMemory
<1>8. local'[t].list[local'[t].i] = b
  BY <1>4, <1>5, SMTT(20), Zenon DEF b
<1> HIDE DEF l
<1>9. NextOK(local[t])'
  BY <1>1, <1>3, <1>4, <1>5 DEF NextOK, stores
<1>10. TaskOK(local[t])'
  BY <1>1, <1>3, <1>4, <1>5, <1>7, <1>8, <1>9, Zenon, SMTT(20) DEF TaskOK, NodeAt, Stored, stores
<1> QED BY <1>1, <1>2, <1>4, <1>7, <1>10, MemoryMoves

\* It fails: memory is reset to a height whose rows are there.
LEMMA ApplyFailsChain ==
  ASSUME SyncOK, ChainOK, OneBusy', NEW t \in Handlers, ApplyFails(t)
  PROVE  ChainOK'
<1> DEFINE l == local[t]
           b == l.list[l.i]
           r == [l EXCEPT !.pc = "reset", !.target = l.old.height]
<1>1. /\ l.pc = "apply" /\ Set(t, r) /\ UNCHANGED <<height, stores, inbox>>
      /\ accounts' = accounts \/ accounts' = Append(accounts, b)
      /\ staking' = staking
  BY DEF ApplyFails
<1>2. /\ LocalOK(l) /\ TaskOK(l) /\ Served(l.list) /\ l.old \in BlockType
      /\ b \in BlockType /\ height \in Nat
  BY <1>1, Applies DEF Applying
<1>3. NodeAt(height) /\ l.old.height <= height
  BY <1>1, <1>2 DEF TaskOK
<1>4. r.pc = "reset" /\ r.list = l.list /\ r.old = l.old /\ r.target = l.old.height
  BY <1>2 DEF LocalOK
<1>5. l.old.height \in 0..height
  <2>1. l.old.height \in Nat
    BY <1>2 DEF BlockType
  <2> QED BY <2>1, <1>2, <1>3
<1> HIDE DEF r, b, l
<1>6. local'[t] = r
  BY <1>1, SetIs DEF SyncOK
<1>7. accounts' \in Seq(BlockType) /\ staking' \in Seq(BlockType)
  <2>1. accounts \in Seq(BlockType) /\ staking \in Seq(BlockType)
    BY DEF ChainOK, TypedOK
  <2>2. Append(accounts, b) \in Seq(BlockType)
    BY <1>2, <2>1
  <2> QED BY <1>1, <2>1, <2>2
<1>8. TaskOK(local[t])'
  BY <1>1, <1>3, <1>4, <1>5, <1>6, Zenon, SMTT(20) DEF TaskOK, NodeAt, Stored, stores
<1> QED BY <1>1, <1>2, <1>4, <1>7, <1>8, MemoryMoves, Zenon, SMTT(20)

\* StoreBlock stores it above the others.
LEMMA StoreBlockChain ==
  ASSUME SyncOK, ChainOK, OneBusy', NEW t \in Handlers, StoreBlock(t)
  PROVE  ChainOK'
<1> DEFINE l == local[t]
           b == l.list[l.i]
           row == [b EXCEPT !.total = l.old.total + b.fees]
           r == [l EXCEPT !.pc = "storeAccounts"]
<1>1. /\ l.pc = "storeBlock" /\ Set(t, r) /\ UNCHANGED <<height, memory, inbox>>
      /\ accountsDB' = accountsDB /\ stakingDB' = stakingDB
      /\ blockDB' = [blockDB EXCEPT ![b.height] = row]
  BY DEF StoreBlock
<1>2. /\ LocalOK(l) /\ TaskOK(l) /\ Served(l.list) /\ l.old \in BlockType
      /\ b \in BlockType /\ height \in Nat /\ b.height \in Heights
  BY <1>1, Applies DEF Applying
<1>3. /\ Stored(height, height, height) /\ NextOK(l) /\ b.height = height + 1
      /\ AppliedTo(blockDB, accounts, height, b) /\ AppliedTo(blockDB, staking, height, b)
  BY <1>1, <1>2, Zenon, SMTT(20) DEF TaskOK, NextOK
<1>4. r.pc = "storeAccounts" /\ r.list = l.list /\ r.old = l.old /\ r.i = l.i
  BY <1>2 DEF LocalOK
<1>5. row \in BlockType /\ Same(b, row) /\ row.height = b.height
  <2>1. l.old.total + b.fees \in Nat
    <3>1. l.old.total \in Nat /\ b.fees \in Nat
      BY <1>2, Zenon, SMTT(20) DEF BlockType
    <3> QED BY <3>1
  <2> HIDE DEF b, l
  <2> QED BY <1>2, <2>1, SameWithTotal
<1>6. local'[t] = r /\ \A u \in Handlers : u # t => local'[u] = local[u]
  BY <1>1, SetIs DEF SyncOK
<1>7. local'[t].list[local'[t].i] = b
  BY <1>4, <1>6
<1> HIDE DEF r, row
<1>8. DOMAIN blockDB = Heights
  BY DEF ChainOK, TypedOK
<1> DEFINE db2 == [blockDB EXCEPT ![height + 1] = row]
<1>9. blockDB' = db2 /\ height + 1 \in Heights
  BY <1>1, <1>2, <1>3, Zenon, SMTT(20)
<1>10. db2 \in [Heights -> BlockType] /\ db2[height + 1] = row /\ \A i \in 1..height : db2[i] = blockDB[i]
  <2>1. \A i \in 1..height : i \in Heights /\ i # height + 1
    BY <1>2, <1>9, ChainAssumption DEF Heights
  <2> QED BY <1>5, <1>8, <1>9, <2>1, Zenon, SMTT(20) DEF ChainOK, TypedOK
<1>11. db2[height].id = blockDB[height].id
  <2>1. height \in Heights /\ height # height + 1
    BY <1>2, <1>9, ChainAssumption DEF Heights
  <2> QED BY <1>8, <2>1, SMTT(20), Zenon
<1> HIDE DEF b
<1>12. Matches(db2, accounts, height + 1) /\ Matches(db2, staking, height + 1)
  BY <1>2, <1>3, <1>5, <1>8, <1>9, AppliedIsStored, Zenon, SMTT(20)
<1>13. BlocksAt(db2, height + 1)
  BY <1>2, <1>3, <1>5, <1>8, <1>9, BlocksExtend, Zenon, SMTT(20) DEF Stored
<1> HIDE DEF db2
<1>14. RowsAt(db2, accountsDB, height) /\ RowsAt(db2, stakingDB, height)
  BY <1>2, <1>3, <1>10, MatchesBelow, Zenon, SMTT(20) DEF Stored, AccountsAt
<1> HIDE DEF l
<1>15. TypedOK'
  BY <1>1, <1>2, <1>4, <1>6, <1>9, <1>10, Zenon, SMTT(20) DEF ChainOK, TypedOK, memory
<1>16. NextOK(local[t])'
  BY <1>1, <1>3, <1>4, <1>6, <1>9, <1>11, Zenon, SMTT(20) DEF NextOK
<1>17. Stored(height + 1, height, height)' /\ InMemory(height + 1)'
  BY <1>1, <1>3, <1>9, <1>12, <1>13, <1>14, Zenon, SMTT(20) DEF Stored, InMemory, AccountsAt, memory
<1>18. Same(b, blockDB'[height' + 1])
  BY <1>1, <1>5, <1>9, <1>10
<1>19. TaskOK(local[t])'
  BY <1>4, <1>6, <1>7, <1>16, <1>17, <1>18, Zenon, SMTT(20) DEF TaskOK
<1>20. Busy(t)'
  BY <1>4, <1>6 DEF Busy
<1> QED BY <1>15, <1>19, <1>20, WorksOn

\* So are the accounts, and then the staking accounts.
LEMMA StoreAccountsChain ==
  ASSUME SyncOK, ChainOK, OneBusy', NEW t \in Handlers,
         StoreAccounts(t) \/ StoreStakingAccounts(t)
  PROVE  ChainOK'
<1> DEFINE l == local[t]
           b == l.list[l.i]
           first == l.pc = "storeAccounts"
           r == [l EXCEPT !.pc = IF first THEN "storeStaking" ELSE "setHeight"]
<1>1. /\ l.pc \in {"storeAccounts", "storeStaking"} /\ Set(t, r)
      /\ UNCHANGED <<height, memory, inbox, blockDB>>
      /\ first => /\ accountsDB' = [accountsDB EXCEPT ![b.height] = accounts]
                  /\ stakingDB' = stakingDB
      /\ ~first => /\ stakingDB' = [stakingDB EXCEPT ![b.height] = staking]
                   /\ accountsDB' = accountsDB
  BY Zenon, SMTT(20) DEF StoreAccounts, StoreStakingAccounts
<1>2. /\ LocalOK(l) /\ TaskOK(l) /\ Served(l.list) /\ l.old \in BlockType
      /\ b \in BlockType /\ height \in Nat /\ b.height \in Heights
  BY <1>1, Applies DEF Applying
<1>3. /\ NextOK(l) /\ InMemory(height + 1) /\ b.height = height + 1
      /\ Same(b, blockDB[height + 1])
      /\ first => Stored(height + 1, height, height)
      /\ ~first => Stored(height + 1, height + 1, height)
  BY <1>1, <1>2, Zenon, SMTT(20) DEF TaskOK, NextOK
<1>4. /\ r.pc = IF first THEN "storeStaking" ELSE "setHeight"
      /\ r.list = l.list /\ r.old = l.old /\ r.i = l.i
  BY <1>2 DEF LocalOK
<1>5. local'[t] = r /\ \A u \in Handlers : u # t => local'[u] = local[u]
  BY <1>1, SetIs DEF SyncOK
<1>6. local'[t].list[local'[t].i] = b
  BY <1>4, <1>5
<1> HIDE DEF r, first
<1>7. /\ accounts \in Seq(BlockType) /\ staking \in Seq(BlockType)
      /\ accountsDB \in [Heights -> Seq(BlockType)] /\ stakingDB \in [Heights -> Seq(BlockType)]
  BY DEF ChainOK, TypedOK
<1>8. height + 1 \in Heights /\ DOMAIN accountsDB = Heights /\ DOMAIN stakingDB = Heights
  BY <1>2, <1>3, <1>7, Zenon, SMTT(20)
<1> HIDE DEF b, l
<1>9. /\ accountsDB' \in [Heights -> Seq(BlockType)] /\ stakingDB' \in [Heights -> Seq(BlockType)]
  BY <1>1, <1>2, <1>7, Zenon, SMTT(20)
<1>10. TypedOK'
  BY <1>1, <1>2, <1>4, <1>5, <1>9, Zenon, SMTT(20) DEF ChainOK, TypedOK, memory
<1>11. NextOK(local[t])' /\ InMemory(height + 1)'
  BY <1>1, <1>3, <1>4, <1>5, Zenon, SMTT(20) DEF NextOK, InMemory, memory
<1>12. first => Stored(height + 1, height + 1, height)'
  <2>1. AccountsAt(blockDB, accountsDB, height) =>
          AccountsAt(blockDB, [accountsDB EXCEPT ![height + 1] = accounts], height + 1)
    BY <1>2, <1>3, <1>8, RowsExtend, Zenon, SMTT(20) DEF InMemory
  <2> QED BY <1>1, <1>3, <2>1, Zenon, SMTT(20) DEF Stored
<1>13. ~first => Stored(height + 1, height + 1, height + 1)'
  <2>1. RowsAt(blockDB, stakingDB, height) =>
          RowsAt(blockDB, [stakingDB EXCEPT ![height + 1] = staking], height + 1)
    BY <1>2, <1>3, <1>8, RowsExtend, Zenon, SMTT(20) DEF InMemory
  <2> QED BY <1>1, <1>3, <2>1, Zenon, SMTT(20) DEF Stored
<1>14. Same(b, blockDB'[height' + 1])
  BY <1>1, <1>3
<1>15. TaskOK(local[t])'
  BY <1>4, <1>5, <1>6, <1>11, <1>12, <1>13, <1>14, Zenon, SMTT(20) DEF TaskOK
<1>16. Busy(t)'
  BY <1>4, <1>5 DEF Busy
<1> QED BY <1>10, <1>15, <1>16, WorksOn

\* The height is set: the block is in the chain, and the handler returns or goes on.
LEMMA SetHeightChain ==
  ASSUME SyncOK, ChainOK, OneBusy, OneBusy', NEW t \in Handlers, SetHeight(t)
  PROVE  ChainOK'
<1> DEFINE l == local[t]
           b == l.list[l.i]
           r == [l EXCEPT !.pc = "apply", !.i = l.i + 1, !.old = b]
<1>1. l.pc = "setHeight" /\ height' = b.height /\ UNCHANGED <<memory, stores, inbox>>
  BY DEF SetHeight
<1>2. /\ LocalOK(l) /\ Busy(t) /\ TaskOK(l) /\ Served(l.list) /\ l.i \in 1..Len(l.list)
      /\ Len(l.list) \in Nat /\ b \in BlockType /\ b.height \in Heights /\ height \in Nat
  BY <1>1, Applies, Zenon, SMTT(20) DEF Applying
<1>3. /\ NextOK(l) /\ InMemory(height + 1) /\ Stored(height + 1, height + 1, height + 1)
      /\ Same(b, blockDB[height + 1]) /\ b.height = height + 1
  BY <1>1, <1>2, Zenon, SMTT(20) DEF TaskOK, NextOK
<1> HIDE DEF b
<1>4. NodeAt(height)'
  BY <1>1, <1>3, Zenon, SMTT(20) DEF NodeAt, Stored, InMemory, memory, stores
<1>5. CASE Set(t, Idle)
  <2>1. TypedOK'
    BY <1>1, <1>5, IdleIsTyped, TypedMoves DEF ChainOK
  <2> QED BY <1>2, <1>4, <1>5, <2>1, WorkDone, SMTT(20), Zenon
<1>6. CASE l.i # Len(l.list) /\ Set(t, r)
  <2>1. r.pc = "apply" /\ r.i = l.i + 1 /\ r.old = b /\ r.list = l.list
    BY <1>2 DEF LocalOK
  <2> HIDE DEF r
  <2>2. local'[t] = r
    BY <1>6, SetIs DEF SyncOK
  <2>3. TypedOK'
    BY <1>1, <1>2, <1>6, <2>1, TypedMoves, Zenon, SMTT(20) DEF ChainOK
  <2>4. l.list[l.i + 1].height = height + 2
    <3>1. ListOK(l.list)
      BY <1>2, Zenon, SMTT(20) DEF LocalOK
    <3>2. l.list[l.i].height = height + 1
      BY <1>3 DEF b
    <3> HIDE DEF l
    <3>3. l.i + 1 \in 1..Len(l.list)
      BY <1>2, <1>6, SMTT(20), Zenon
    <3>4. /\ l.list[l.i].height = l.list[1].height + l.i - 1
          /\ l.list[l.i + 1].height = l.list[1].height + (l.i + 1) - 1
          /\ 1 \in 1..Len(l.list)
      BY <1>2, <3>1, <3>3 DEF ListOK
    <3>5. l.list[1].height \in Int
      BY <3>1, <3>4, ChainAssumption DEF ListOK, Heights
    <3> DEFINE x == l.list[1].height
               y == l.list[l.i].height
               z == l.list[l.i + 1].height
               i == l.i
    <3>6. y = height + 1 /\ y = x + i - 1 /\ z = x + (i + 1) - 1 /\ x \in Int /\ i \in Int
      BY <1>2, <3>2, <3>4, <3>5
    <3> HIDE DEF x, y, z, i
    <3>7. z = height + 2
      BY <1>2, <3>6
    <3> QED BY <3>7 DEF z
  <2>5. l.list[l.i + 1].prev = blockDB[height + 1].id
    <3>1. blockDB[height + 1] \in BlockType
      BY <1>2, <1>3 DEF ChainOK, TypedOK
    <3>2. b.id = blockDB[height + 1].id
      BY <1>2, <1>3, <3>1, SameFields
    <3>3. b = l.list[l.i]
      BY DEF b
    <3> HIDE DEF l
    <3>4. l.i + 1 \in (l.i + 1)..Len(l.list) /\ (l.i + 1) - 1 = l.i
      BY <1>2, <1>6, SMTT(20), Zenon
    <3>5. l.list[l.i + 1].prev = l.list[(l.i + 1) - 1].id
      BY <1>3, <3>4 DEF NextOK
    <3> QED BY <3>2, <3>3, <3>4, <3>5, SMTT(20), Zenon
  <2>6. \A j \in (l.i + 2)..Len(l.list) : l.list[j].prev = l.list[j - 1].id
    <3> HIDE DEF l
    <3>1. \A j \in (l.i + 2)..Len(l.list) : j \in (l.i + 1)..Len(l.list)
      BY <1>2
    <3> QED BY <1>3, <3>1 DEF NextOK
  <2>7. height' + 1 = height + 2 /\ (l.i + 1) + 1 = l.i + 2
    <3> HIDE DEF l
    <3> QED BY <1>1, <1>2, <1>3
  <2> HIDE DEF l
  <2>8. NextOK(local[t])'
    BY <1>1, <1>3, <2>1, <2>2, <2>4, <2>5, <2>6, <2>7, Zenon, SMTT(20) DEF NextOK, stores
  <2>9. TaskOK(local[t])'
    <3>1. b.height <= height'
      BY <1>1, <1>2, ChainAssumption DEF Heights
    <3> QED BY <1>4, <2>1, <2>2, <2>8, <3>1, Zenon, SMTT(20) DEF TaskOK
  <2>10. Busy(t)'
    BY <2>1, <2>2, SMTT(20), Zenon DEF Busy
  <2> QED BY <2>3, <2>9, <2>10, WorksOn
<1> QED BY <1>5, <1>6 DEF SetHeight, Unlock, b

-----------------------------------------------------------------------------
(***************************************************************************)
(* ResetAccountsAndBlocksSync.                                             *)
(***************************************************************************)

\* The target of a reset, and which rows it has.
LEMMA ResetTarget ==
  ASSUME SyncOK, ChainOK, NEW t \in Handlers, local[t].pc = "reset"
  PROVE  LET target == Max({0, local[t].target})
         IN  /\ LocalOK(local[t]) /\ Busy(t) /\ Served(local[t].list) /\ local[t].old \in BlockType
             /\ height \in Nat /\ height \in Heights /\ Stored(height, height, height)
             /\ InMemory(height) \/ local[t].target \in 0..height
             /\ local[t].target \in Int /\ target \in Heights
             /\ local[t].target >= 0 => target = local[t].target
             /\ accountsDB[target] # NoRow <=> target \in 0..height
             /\ blockDB[target] # None <=> target \in 0..height
<1> DEFINE a == local[t].target
           target == Max({0, a})
<1>1. LocalOK(local[t]) /\ Busy(t) /\ Served(local[t].list) /\ local[t].old \in BlockType
  BY SMTT(20), Zenon DEF SyncOK, LocalsOK, ChainOK, TypedOK, Busy
<1>2. TaskOK(local[t])
  BY <1>1 DEF ChainOK
<1>3. Stored(height, height, height) /\ (InMemory(height) \/ a \in 0..height)
  BY <1>2, Zenon, SMTT(20) DEF TaskOK
<1>4. height \in Heights /\ height \in Nat
  BY ChainAssumption, SMTT(20), Zenon DEF SyncOK, NodeOK, Heights
<1>5. a \in Int /\ a <= MaxHeight /\ MaxHeight \in Nat
  BY <1>1, ChainAssumption DEF LocalOK
<1> HIDE DEF a
<1>6. target \in {0, a} /\ target >= 0 /\ target >= a
  <2>1. \E x \in {0, a} : \A y \in {0, a} : x >= y
    BY <1>5
  <2> QED BY <1>5, <2>1 DEF Max
<1>7. target \in Heights /\ (a >= 0 => target = a)
  BY <1>5, <1>6 DEF Heights
<1> HIDE DEF target
<1>8. target \in 0..height \/ target > height
  BY <1>4, <1>7, ChainAssumption DEF Heights
<1>9. ~(target \in 0..height /\ target > height)
  BY <1>4
<1>10. accountsDB[target] # NoRow <=> target \in 0..height
  <2>1. \A h \in 0..height : accountsDB[h] # NoRow
    BY <1>3, LastAccountsStored, Zenon, SMTT(20) DEF Stored, ChainOK, TypedOK
  <2> QED BY <1>3, <1>7, <1>8, <1>9, <2>1 DEF Stored, AccountsAt
<1>11. blockDB[target] # None <=> target \in 0..height
  <2>1. \A h \in 0..height : blockDB[h] # None
    BY <1>3, LastBlockStored, SMTT(20), Zenon DEF Stored
  <2> QED BY <1>3, <1>7, <1>8, <1>9, <2>1, SMTT(20), Zenon DEF Stored, BlocksAt
<1> QED BY <1>1, <1>3, <1>4, <1>5, <1>7, <1>10, <1>11 DEF target, a

\* It gives up: only when memory was not touched.
LEMMA ResetGivesUpChain ==
  ASSUME SyncOK, ChainOK, OneBusy, NEW t \in Handlers, ResetGivesUp(t)
  PROVE  ChainOK'
<1> DEFINE l == local[t]
           target == Max({0, l.target})
<1>1. l.pc = "reset" /\ Set(t, Idle) /\ UNCHANGED <<height, stores, inbox>>
  BY Zenon, SMTT(20) DEF ResetGivesUp, ResetReturns, Unlock
<1>2. /\ LocalOK(l) /\ Busy(t) /\ height \in Nat /\ Stored(height, height, height)
      /\ InMemory(height) \/ l.target \in 0..height
      /\ l.target \in Int /\ (l.target >= 0 => target = l.target)
      /\ accountsDB[target] # NoRow <=> target \in 0..height
      /\ blockDB[target] # None <=> target \in 0..height
  BY <1>1, ResetTarget, Zenon, SMTT(20)
<1>3. UNCHANGED memory /\ (l.target < 0 \/ accountsDB[target] = NoRow)
  BY <1>2, Zenon, SMTT(20) DEF ResetGivesUp
<1> HIDE DEF target, l
<1>4. InMemory(height)
  <2>1. CASE l.target < 0
    BY <1>2, <2>1
  <2>2. CASE accountsDB[target] = NoRow
    BY <1>2, <2>2
  <2> QED BY <1>3, <2>1, <2>2
<1> QED BY <1>1, <1>2, <1>3, <1>4, LeavesNode, SMTT(20), Zenon DEF NodeAt, l

\* It loads the rows of its target.
LEMMA ResetLoadChain ==
  ASSUME SyncOK, ChainOK, OneBusy', NEW t \in Handlers, ResetLoad(t)
  PROVE  ChainOK'
<1> DEFINE l == local[t]
           target == Max({0, l.target})
           r == [l EXCEPT !.pc = "remove", !.target = target]
<1>1. /\ l.pc = "reset" /\ Set(t, r) /\ UNCHANGED <<height, stores, inbox>>
      /\ accountsDB[target] # NoRow /\ accounts' = accountsDB[target]
      /\ staking' = IF stakingDB[target] = NoRow THEN staking ELSE stakingDB[target]
  BY DEF ResetLoad
<1>2. /\ LocalOK(l) /\ Served(l.list) /\ l.old \in BlockType
      /\ height \in Nat /\ Stored(height, height, height) /\ target \in Heights
      /\ accountsDB[target] # NoRow <=> target \in 0..height
  BY <1>1, ResetTarget
<1>3. target \in 0..height
  BY <1>1, <1>2
<1>4. r.pc = "remove" /\ r.target = target /\ r.list = l.list /\ r.old = l.old
  BY <1>2 DEF LocalOK
<1> HIDE DEF r, l, target
<1>5. local'[t] = r
  BY <1>1, SetIs DEF SyncOK
<1>6. /\ blockDB \in [Heights -> BlockType]
      /\ accountsDB \in [Heights -> Seq(BlockType)] /\ stakingDB \in [Heights -> Seq(BlockType)]
  BY SMTT(20), Zenon DEF ChainOK, TypedOK
<1>7. Matches(blockDB, accountsDB[target], target) /\ Matches(blockDB, stakingDB[target], target)
  BY <1>2, <1>3 DEF Stored, AccountsAt, RowsAt
<1>8. stakingDB[target] # NoRow
  BY <1>2, <1>3, <1>6, <1>7, RowIsThere DEF Stored
<1>9. accounts' \in Seq(BlockType) /\ staking' \in Seq(BlockType)
  BY <1>1, <1>2, <1>6, <1>8
<1>10. TaskOK(local[t])'
  BY <1>1, <1>2, <1>3, <1>4, <1>5, <1>7, <1>8, Zenon, SMTT(20) DEF TaskOK, Stored, InMemory, stores
<1> QED BY <1>1, <1>2, <1>4, <1>9, <1>10, MemoryMoves, Zenon, SMTT(20)

\* It deletes the blocks and the accounts above it.
LEMMA ResetRemoveChain ==
  ASSUME SyncOK, ChainOK, OneBusy', NEW t \in Handlers, ResetRemove(t)
  PROVE  ChainOK'
<1> DEFINE l == local[t]
           k == l.target
           r == [l EXCEPT !.pc = "resetHeight"]
           hb == LastHeightStored(blockDB, None)
           ha == LastHeightStored(accountsDB, NoRow)
           blocks2 == [h \in Heights |-> IF h \in (k + 1)..height THEN None ELSE blockDB[h]]
           rows2 == [h \in Heights |-> IF h \in (k + 1)..height THEN NoRow ELSE accountsDB[h]]
<1>1. /\ l.pc = "remove" /\ Set(t, r) /\ UNCHANGED <<height, memory, inbox>> /\ stakingDB' = stakingDB
      /\ blockDB' = [h \in Heights |-> IF h \in (k + 1)..hb THEN None ELSE blockDB[h]]
      /\ accountsDB' = [h \in Heights |-> IF h \in (k + 1)..ha THEN NoRow ELSE accountsDB[h]]
  BY DEF ResetRemove
<1>2. LocalOK(l) /\ Busy(t) /\ Served(l.list) /\ l.old \in BlockType
  BY <1>1 DEF SyncOK, LocalsOK, ChainOK, TypedOK, Busy
<1>3. TaskOK(l)
  BY <1>2 DEF ChainOK
<1>4. Stored(height, height, height) /\ k \in 0..height /\ InMemory(k)
  BY <1>1, <1>3 DEF TaskOK
<1>5. height \in Heights /\ height \in Nat
  BY ChainAssumption DEF SyncOK, NodeOK, Heights
<1>6. /\ blockDB \in [Heights -> BlockType] /\ accountsDB \in [Heights -> Seq(BlockType)]
  BY DEF ChainOK, TypedOK
<1>7. hb = height /\ ha = height
  BY <1>4, <1>6, LastBlockStored, LastAccountsStored, Zenon, SMTT(20) DEF Stored
<1>8. blockDB' = blocks2 /\ accountsDB' = rows2
  BY <1>1, <1>7
<1>9. r.pc = "resetHeight" /\ r.target = k /\ r.list = l.list /\ r.old = l.old
  BY <1>2 DEF LocalOK
<1> HIDE DEF r, k, hb, ha
<1>10. BlocksAt(blocks2, k) /\ \A i \in 1..k : blocks2[i] = blockDB[i]
  BY <1>4, BlocksRemoved DEF Stored
<1>11. AccountsAt(blockDB, rows2, k) /\ RowsAt(blockDB, stakingDB, k)
  <2>1. AccountsAt(blockDB, accountsDB, height) => AccountsAt(blockDB, rows2, k)
    BY <1>4, <1>5, RowsRemoved
  <2>2. RowsAt(blockDB, stakingDB, height) => RowsAt(blockDB, stakingDB, k)
    BY <1>4, <1>5, RowsRemoved, Zenon, SMTT(20)
  <2> QED BY <1>4, <2>1, <2>2 DEF Stored
<1>12. blocks2 \in [Heights -> BlockType] /\ rows2 \in [Heights -> Seq(BlockType)]
  BY <1>6, NoneIsTyped
<1>13. k \in Nat
  BY <1>4, <1>5
<1> HIDE DEF blocks2, rows2
<1>14. AccountsAt(blocks2, rows2, k) /\ RowsAt(blocks2, stakingDB, k)
  BY <1>10, <1>11, <1>13, MatchesBelow DEF AccountsAt
<1>15. Matches(blocks2, accounts, k) /\ Matches(blocks2, staking, k)
  BY <1>4, <1>10, <1>13, MatchesBelow, SMTT(20), Zenon DEF InMemory
<1>16. local'[t] = r /\ \A u \in Handlers : u # t => local'[u] = local[u]
  BY <1>1, SetIs DEF SyncOK
<1> HIDE DEF l
<1>17. TypedOK'
  BY <1>1, <1>2, <1>8, <1>9, <1>12, <1>16, Zenon, SMTT(20) DEF ChainOK, TypedOK, memory
<1>18. TaskOK(local[t])'
  BY <1>1, <1>4, <1>8, <1>9, <1>10, <1>14, <1>15, <1>16, Zenon, SMTT(20) DEF TaskOK, Stored, InMemory, memory
<1>19. Busy(t)'
  BY <1>9, <1>16, SMTT(20), Zenon DEF Busy
<1> QED BY <1>17, <1>18, <1>19, WorksOn

\* It sets the height.
LEMMA ResetHeightChain ==
  ASSUME SyncOK, ChainOK, OneBusy, NEW t \in Handlers, ResetHeight(t)
  PROVE  ChainOK'
<1> DEFINE k == local[t].target
<1>1. /\ local[t].pc = "resetHeight" /\ Set(t, Idle) /\ height' = k
      /\ UNCHANGED <<memory, stores, inbox>>
  BY Zenon, SMTT(20) DEF ResetHeight, ResetReturns, Unlock
<1>2. Busy(t)
  BY <1>1, Zenon, SMTT(20) DEF Busy
<1>3. TaskOK(local[t])
  BY <1>2 DEF ChainOK
<1>4. NodeAt(k)
  BY <1>1, <1>3, Zenon, SMTT(20) DEF TaskOK, NodeAt
<1>5. TypedOK'
  BY <1>1, IdleIsTyped, TypedMoves, Zenon, SMTT(20) DEF ChainOK
<1> HIDE DEF k
<1>6. NodeAt(height)'
  BY <1>1, <1>4, Zenon, SMTT(20) DEF NodeAt, Stored, InMemory, memory, stores
<1> QED BY <1>1, <1>2, <1>5, <1>6, WorkDone

-----------------------------------------------------------------------------
(***************************************************************************)
(* The invariant holds as long as one handler is busy at a time and the    *)
(* supply is never right for a block below the node's last one.            *)
(***************************************************************************)

\* The check of the supply passes only on top of the chain.
OnTop ==
  \A t \in Handlers :
    local[t].pc = "apply" /\ SupplyMatches(local[t].old) => local[t].old.height = height

\* A node that starts has applied one of the chains and handles nothing.
LEMMA SyncInit ==
  ASSUME Init
  PROVE  SyncOK
<1>1. PICK c \in StartChains :
        /\ height = Len(c)
        /\ blockDB = [h \in Heights |-> IF h <= Len(c) THEN IF h = 0 THEN Genesis ELSE c[h] ELSE None]
  BY DEF Init
<1>2. /\ c \in Seq(BlockType) /\ Len(c) <= MaxHeight /\ MaxHeight \in Nat /\ Len(c) \in Nat
      /\ \A i \in 1..Len(c) : c[i].height = i
      /\ Genesis.height = 0
  BY ChainAssumption
<1>3. ASSUME NEW h \in Heights
      PROVE  blockDB[h].height \in Heights
  <2>1. CASE h = 0
    BY <1>1, <1>2, <2>1 DEF Heights
  <2>2. CASE h # 0 /\ h <= Len(c)
    <3>1. h \in 1..Len(c) /\ blockDB[h] = c[h]
      BY <1>1, <1>2, <2>2 DEF Heights
    <3> QED BY <3>1, <1>2
  <2>3. CASE ~(h <= Len(c))
    <3>1. blockDB[h] = None
      BY <1>1, <2>3, SMTT(20), Zenon
    <3> QED BY <3>1, <1>2 DEF None, Heights
  <2> QED BY <2>1, <2>2, <2>3
<1>4. NodeOK
  BY <1>1, <1>2, <1>3, SMTT(20), Zenon DEF Init, NodeOK, Heights
<1>5. local = [t \in Handlers |-> Idle] /\ blockMutex = Free
  BY DEF Init
<1>6. LocalsOK
  BY <1>5, IdleIsOK DEF LocalsOK
<1>7. LockOK
  BY <1>5, IdleIsOK DEF LockOK, Holding
<1> QED BY <1>4, <1>6, <1>7 DEF SyncOK

\* It has applied the chain that it has stored.
LEMMA ChainInit ==
  ASSUME Init
  PROVE  ChainOK
<1>1. PICK c \in StartChains :
        /\ height = Len(c) /\ accounts = c /\ staking = c
        /\ blockDB = [h \in Heights |-> IF h <= Len(c) THEN IF h = 0 THEN Genesis ELSE c[h] ELSE None]
        /\ accountsDB = [h \in Heights |-> IF h <= Len(c) THEN SubSeq(c, 1, h) ELSE NoRow]
        /\ stakingDB = accountsDB
  BY Zenon, SMTT(20) DEF Init
<1> DEFINE n == Len(c)
<1>2. /\ c \in Seq(BlockType) /\ n \in Nat /\ n <= MaxHeight /\ MaxHeight \in Nat
      /\ DOMAIN c = 1..n
      /\ \A i \in 1..n : c[i].height = i /\ c[i] \in BlockType
      /\ Genesis \in BlockType
  BY ChainAssumption
<1>3. n \in Heights /\ 0 \in Heights /\ \A i \in 1..n : i \in Heights /\ i <= n /\ i # 0
  BY <1>2 DEF Heights
<1>4. blockDB[0] = Genesis /\ \A i \in 1..n : blockDB[i] = c[i]
  <2> HIDE DEF n
  <2>1. 0 <= n
    BY <1>2
  <2> QED BY <1>1, <1>3, <2>1 DEF n
<1>5. ASSUME NEW h \in Heights, h > n PROVE blockDB[h] = None /\ accountsDB[h] = NoRow
  <2>1. ~(h <= n)
    BY <1>2, <1>5 DEF Heights
  <2> QED BY <1>1, <2>1
<1>6. blockDB \in [Heights -> BlockType]
  <2>1. ASSUME NEW h \in Heights PROVE blockDB[h] \in BlockType
    <3>1. h = 0 \/ h \in 1..n \/ h > n
      BY <1>2 DEF Heights
    <3> QED BY <1>2, <1>4, <1>5, <3>1, NoneIsTyped
  <2>2. DOMAIN blockDB = Heights /\ blockDB = [h \in Heights |-> blockDB[h]]
    BY <1>1
  <2> QED BY <2>1, <2>2
<1>7. ASSUME NEW h \in 0..n
      PROVE  /\ accountsDB[h] \in Seq(BlockType) /\ DOMAIN accountsDB[h] = 1..h
             /\ \A i \in 1..h : accountsDB[h][i] = c[i]
  <2>1. h \in Heights /\ h <= n /\ h \in Nat
    BY <1>2 DEF Heights
  <2>2. accountsDB[h] = SubSeq(c, 1, h)
    BY <1>1, <2>1
  <2>3. SubSeq(c, 1, h) = [i \in 1..h |-> c[i]]
    BY <1>2, <2>1
  <2>4. \A i \in 1..h : c[i] \in BlockType
    BY <1>2, <2>1
  <2>5. SubSeq(c, 1, h) \in Seq(BlockType)
    BY <2>1, <2>3, <2>4
  <2> QED BY <2>2, <2>3, <2>5
<1>8. accountsDB \in [Heights -> Seq(BlockType)]
  <2>1. ASSUME NEW h \in Heights PROVE accountsDB[h] \in Seq(BlockType)
    <3>1. h \in 0..n \/ h > n
      BY <1>2 DEF Heights
    <3> QED BY <1>5, <1>7, <3>1, NoneIsTyped
  <2>2. DOMAIN accountsDB = Heights /\ accountsDB = [h \in Heights |-> accountsDB[h]]
    BY <1>1
  <2> QED BY <2>1, <2>2
<1>9. \A t \in Handlers : local[t] = Idle
  BY SMTT(20), Zenon DEF Init
<1>10. TypedOK
  BY <1>1, <1>2, <1>6, <1>8, <1>9, IdleIsTyped DEF TypedOK, Init
<1>11. \A b : Same(b, b)
  BY SMTT(20), Zenon DEF Same
<1>12. Matches(blockDB, c, n)
  BY <1>2, <1>4, <1>11 DEF Matches
<1>13. RowsAt(blockDB, accountsDB, n)
  <2>1. ASSUME NEW h \in 0..n PROVE Matches(blockDB, accountsDB[h], h)
    <3>1. \A i \in 1..h : i \in 1..n
      BY <1>2
    <3> QED BY <1>4, <1>7, <1>11, <3>1 DEF Matches
  <2> QED BY <2>1 DEF RowsAt
<1>14. BlocksAt(blockDB, n)
  BY <1>2, <1>3, <1>4, <1>5, SMTT(20), Zenon DEF BlocksAt
<1>15. NodeAt(height)
  BY <1>1, <1>5, <1>12, <1>13, <1>14 DEF NodeAt, Stored, InMemory, AccountsAt
<1>16. \A t \in Handlers : ~Busy(t)
  BY <1>9, IdleIsTyped DEF Busy
<1> QED BY <1>10, <1>15, <1>16 DEF ChainOK

\* Every step keeps it.
LEMMA ChainStep ==
  ASSUME SyncOK, ChainOK, OneBusy, OneBusy', OnTop, [Next]_vars
  PROVE  ChainOK'
<1>1. ASSUME NEW t \in Handlers, Step(t) PROVE ChainOK'
  <2>1. CASE \E refused \in BOOLEAN : CheckBlock(t, refused)
    BY <2>1, CheckBlockChain
  <2>2. CASE VerifyKnown(t) \/ VerifyForks(t) \/ VerifyRefuses(t) \/ Verify(t)
    BY <2>2, VerifyKnownChain, VerifyForksChain, VerifyChain, SMTT(20), Zenon
  <2>3. CASE VerifyPanics(t)
    BY <2>3, VerifyReturns DEF VerifyPanics
  <2>4. CASE Lock(t) \/ StoreBlock(t) \/ StoreAccounts(t) \/ StoreStakingAccounts(t) \/ SetHeight(t)
    BY <2>4, LockChain, StoreBlockChain, StoreAccountsChain, SetHeightChain
  <2>5. CASE Apply(t)
    <3>1. local[t].old.height = height
      BY <2>5 DEF OnTop, Apply
    <3> QED BY <2>5, <3>1, ApplyChain
  <2>6. CASE ApplyFails(t)
    BY <2>6, ApplyFailsChain
  <2>7. CASE ResetGivesUp(t) \/ ResetLoad(t) \/ ResetRemove(t) \/ ResetHeight(t)
    BY <2>7, ResetGivesUpChain, ResetLoadChain, ResetRemoveChain, ResetHeightChain, SMTT(20), Zenon
  <2> QED BY <1>1, <2>1, <2>2, <2>3, <2>4, <2>5, <2>6, <2>7 DEF Step
<1>2. ASSUME NEW list \in inbox, LoseHeaders(list) PROVE ChainOK'
  <2>1. UNCHANGED <<height, memory, stores, local>> /\ inbox' \subseteq inbox
    BY <1>2, SMTT(20), Zenon DEF LoseHeaders
  <2> QED BY <2>1, NothingMoves DEF ChainOK, TypedOK
<1>3. ASSUME NEW b \in Blocks, ReceiveTransactions(b) PROVE ChainOK'
  <2>1. UNCHANGED <<height, memory, stores, local>> /\ inbox' = inbox
    BY <1>3, SMTT(20), Zenon DEF ReceiveTransactions
  <2> QED BY <2>1, NothingMoves DEF ChainOK, TypedOK
<1>4. CASE UNCHANGED vars
  <2>1. UNCHANGED <<height, memory, stores, local>> /\ inbox' = inbox
    BY <1>4 DEF vars
  <2> QED BY <2>1, NothingMoves DEF ChainOK, TypedOK
<1> QED BY <1>1, <1>2, <1>3, <1>4, ReceiveBlockChain, ReceiveHiChain, ReceiveHeadersChain, SMTT(20), Zenon DEF Next

\* Between blocks it gives what memory and stores have to hold.
LEMMA ChainGives ==
  ASSUME SyncOK, ChainOK
  PROVE  MemoryMatchesChain /\ StoresMatchChain
<1>1. ASSUME NEW ledger, NEW n, Matches(blockDB, ledger, n) PROVE Plain(ledger) = LedgerAt(n)
  BY <1>1 DEF Matches, Same, Plain, LedgerAt
<1>2. ASSUME Settled PROVE NodeAt(height)
  <2>1. CASE \A t \in Handlers : ~Busy(t)
    BY <2>1 DEF ChainOK
  <2>2. ASSUME NEW t \in Handlers, Busy(t) PROVE NodeAt(height)
    BY <1>2, <2>2, Zenon, SMTT(20) DEF ChainOK, TaskOK, Settled, Busy
  <2> QED BY <2>1, <2>2
<1>3. Quiet => MemoryMatchesChain
  BY <1>1, <1>2, SMTT(20), Zenon DEF Quiet, MemoryMatchesChain, NodeAt, InMemory
<1>4. Quiet => StoresMatchChain
  BY <1>1, <1>2 DEF Quiet, StoresMatchChain, NodeAt, Stored, AccountsAt, RowsAt
<1> QED BY <1>3, <1>4 DEF MemoryMatchesChain, StoresMatchChain

-----------------------------------------------------------------------------
(***************************************************************************)
(* One handler has messages: what it read on arrival is still so.          *)
(***************************************************************************)
OneHandler == \E a \in Handlers : active = {a}

ActiveOK == \A t \in Handlers : local[t].pc # "idle" => t \in active

\* What a handler read of the height.
ReadOK(l) == /\ l.pc = "bl" => l.h = height
             /\ l.pc = "apply" => l.old.height = height

SoloOK == ActiveOK /\ \A t \in Handlers : ReadOK(local[t])

\* No step makes a handler active.
LEMMA ActiveStays ==
  ASSUME [Next]_vars
  PROVE  active' = active
<1>1. ASSUME NEW t \in Handlers, Step(t) PROVE active' = active
  <2>1. CASE \E refused \in BOOLEAN : CheckBlock(t, refused)
    BY <2>1 DEF CheckBlock
  <2>2. CASE VerifyKnown(t) \/ VerifyForks(t) \/ VerifyRefuses(t) \/ VerifyPanics(t) \/ Verify(t)
    BY <2>2, Zenon, SMTT(20) DEF VerifyKnown, VerifyForks, VerifyRefuses, VerifyPanics, Verify
  <2>3. CASE Lock(t) \/ Apply(t) \/ ApplyFails(t)
    BY <2>3, Zenon, SMTT(20) DEF Lock, Apply, ApplyFails
  <2>4. CASE StoreBlock(t) \/ StoreAccounts(t) \/ StoreStakingAccounts(t) \/ SetHeight(t)
    BY <2>4, Zenon, SMTT(20) DEF StoreBlock, StoreAccounts, StoreStakingAccounts, SetHeight
  <2>5. CASE ResetGivesUp(t) \/ ResetLoad(t) \/ ResetRemove(t) \/ ResetHeight(t)
    BY <2>5, Zenon, SMTT(20) DEF ResetGivesUp, ResetLoad, ResetRemove, ResetHeight
  <2> QED BY <1>1, <2>1, <2>2, <2>3, <2>4, <2>5, Zenon, SMTT(20) DEF Step
<1>2. ASSUME NEW t \in Handlers, NEW b, ReceiveBlock(t, b) PROVE active' = active
  BY <1>2, Zenon, SMTT(20) DEF ReceiveBlock
<1>3. ASSUME NEW t \in Handlers, NEW list, ReceiveHeaders(t, list) PROVE active' = active
  BY <1>3, Zenon, SMTT(20) DEF ReceiveHeaders
<1>4. ASSUME NEW t \in Handlers, NEW chain, NEW sent, ReceiveHi(t, chain, sent) PROVE active' = active
  BY <1>4, Zenon, SMTT(20) DEF ReceiveHi
<1>5. ASSUME NEW list, LoseHeaders(list) PROVE active' = active
  BY <1>5, Zenon, SMTT(20) DEF LoseHeaders
<1>6. ASSUME NEW b, ReceiveTransactions(b) PROVE active' = active
  BY <1>6, Zenon, SMTT(20) DEF ReceiveTransactions
<1>7. CASE UNCHANGED vars
  BY <1>7 DEF vars
<1> QED BY <1>1, <1>2, <1>3, <1>4, <1>5, <1>6, <1>7, Zenon, SMTT(20) DEF Next

\* A step is one of a handler, which had a message or takes one, or of none.
LEMMA WhoMoves ==
  ASSUME SyncOK, [Next]_vars
  PROVE  \/ UNCHANGED <<local, height>>
         \/ \E t \in Handlers : /\ local[t].pc # "idle" \/ t \in active
                                /\ \A u \in Handlers : u # t => local'[u] = local[u]
<1>1. ASSUME NEW t \in Handlers, NEW r, Set(t, r)
      PROVE  \A u \in Handlers : u # t => local'[u] = local[u]
  BY <1>1, SetIs DEF SyncOK
<1>2. ASSUME NEW t \in Handlers, Step(t)
      PROVE  local[t].pc # "idle" /\ \E r : Set(t, r)
  <2>1. CASE \E refused \in BOOLEAN : CheckBlock(t, refused)
    BY <2>1 DEF CheckBlock
  <2>2. CASE VerifyKnown(t) \/ VerifyForks(t) \/ VerifyRefuses(t) \/ VerifyPanics(t) \/ Verify(t)
    BY <2>2, Zenon, SMTT(20) DEF VerifyKnown, VerifyForks, VerifyRefuses, VerifyPanics, Verify
  <2>3. CASE Lock(t) \/ Apply(t) \/ ApplyFails(t)
    BY <2>3, Zenon, SMTT(20) DEF Lock, Apply, ApplyFails
  <2>4. CASE StoreBlock(t) \/ StoreAccounts(t) \/ StoreStakingAccounts(t) \/ SetHeight(t)
    BY <2>4, Zenon, SMTT(20) DEF StoreBlock, StoreAccounts, StoreStakingAccounts, SetHeight, Unlock
  <2>5. CASE ResetGivesUp(t) \/ ResetLoad(t) \/ ResetRemove(t) \/ ResetHeight(t)
    BY <2>5 DEF ResetGivesUp, ResetLoad, ResetRemove, ResetHeight, ResetReturns, Unlock
  <2> QED BY <1>2, <2>1, <2>2, <2>3, <2>4, <2>5, Zenon, SMTT(20) DEF Step
<1>3. ASSUME NEW t \in Handlers, NEW b, ReceiveBlock(t, b)
      PROVE  t \in active /\ \E r : Set(t, r)
  BY <1>3 DEF ReceiveBlock
<1>4. ASSUME NEW t \in Handlers, NEW list, ReceiveHeaders(t, list)
      PROVE  (t \in active /\ \E r : Set(t, r)) \/ UNCHANGED <<local, height>>
  BY <1>4, SMTT(20), Zenon DEF ReceiveHeaders
<1>5. ASSUME NEW t, NEW chain, NEW sent, ReceiveHi(t, chain, sent) PROVE UNCHANGED <<local, height>>
  BY <1>5 DEF ReceiveHi
<1>6. ASSUME NEW list, LoseHeaders(list) PROVE UNCHANGED <<local, height>>
  BY <1>6 DEF LoseHeaders
<1>7. ASSUME NEW b, ReceiveTransactions(b) PROVE UNCHANGED <<local, height>>
  BY <1>7 DEF ReceiveTransactions
<1>8. CASE UNCHANGED vars
  BY <1>8 DEF vars
<1> QED BY <1>1, <1>2, <1>3, <1>4, <1>5, <1>6, <1>7, <1>8, Zenon, SMTT(20) DEF Next

\* A handler that is not idle has messages.
LEMMA ActiveStep ==
  ASSUME SyncOK, ActiveOK, [Next]_vars
  PROVE  ActiveOK'
BY WhoMoves, ActiveStays DEF ActiveOK

\* With one handler, no other is ever busy.
LEMMA SoloIsBusy ==
  ASSUME OneHandler, ActiveOK
  PROVE  OneBusy
BY DEF OneHandler, ActiveOK, OneBusy, Busy

\* The last block that is stored has the height of the node.
LEMMA TopHeight ==
  ASSUME NEW n, BlocksAt(blockDB, n)
  PROVE  blockDB[n].height = n /\ n \in Nat
<1>1. n \in Heights /\ n \in Nat /\ Genesis.height = 0
  BY ChainAssumption DEF BlocksAt, Heights
<1>2. n = 0 \/ n \in 1..n
  BY <1>1
<1> QED BY <1>1, <1>2 DEF BlocksAt

\* No other handler has a message.
Alone(t) == \A u \in Handlers : u # t => local[u].pc = "idle"

\* A block is checked against the last one of the node.
LEMMA CheckBlockReads ==
  ASSUME SyncOK, ChainOK, SoloOK, NEW t \in Handlers, Alone(t), NEW refused \in BOOLEAN,
         CheckBlock(t, refused)
  PROVE  ReadOK(local[t])'
<1> DEFINE l == local[t]
           r == [l EXCEPT !.pc = "apply", !.i = 1, !.old = blockDB[l.h]]
<1>1. l.pc = "bl" /\ l.h = height /\ LocalOK(l) /\ height' = height
  BY DEF CheckBlock, SoloOK, ReadOK, SyncOK, LocalsOK
<1>2. CASE Set(t, Idle)
  <2>1. local'[t] = Idle
    BY <1>2, SetIs, SMTT(20), Zenon DEF SyncOK
  <2> QED BY <2>1, IdleIsTyped DEF ReadOK
<1>3. CASE Set(t, r)
  <2>1. r.pc = "apply" /\ r.old = blockDB[height]
    BY <1>1 DEF LocalOK
  <2> HIDE DEF r
  <2>2. local'[t] = r
    BY <1>3, SetIs, SMTT(20), Zenon DEF SyncOK
  <2>3. NodeAt(height)
    BY <1>1, SMTT(20), Zenon DEF Alone, ChainOK, Busy
  <2>4. blockDB[height].height = height
    BY <2>3, TopHeight DEF NodeAt, Stored
  <2> QED BY <1>1, <2>1, <2>2, <2>4 DEF ReadOK
<1> QED BY <1>2, <1>3 DEF CheckBlock

\* So is the first block of the second pass...
LEMMA LockReads ==
  ASSUME SyncOK, ChainOK, NEW t \in Handlers, Lock(t)
  PROVE  ReadOK(local[t])'
<1> DEFINE l == local[t]
           old == blockDB[l.list[l.i].height - 1]
           r == [l EXCEPT !.pc = "apply", !.old = old]
<1>1. l.pc = "lock" /\ LocalOK(l) /\ height' = height /\ Busy(t)
  BY DEF Lock, SyncOK, LocalsOK, Busy
<1>2. NodeAt(height) /\ NextOK(l)
  BY <1>1, Zenon, SMTT(20) DEF ChainOK, TaskOK
<1>3. CASE Set(t, Idle)
  <2>1. local'[t] = Idle
    BY <1>3, SetIs, Zenon, SMTT(20) DEF SyncOK
  <2> QED BY <2>1, IdleIsTyped DEF ReadOK
<1>4. CASE Set(t, r)
  <2>1. r.pc = "apply" /\ r.old = old
    BY <1>1, SMTT(20), Zenon DEF LocalOK
  <2>2. blockDB[height].height = height /\ height \in Nat
    BY <1>2, TopHeight DEF NodeAt, Stored
  <2>3. l.list[l.i].height - 1 = height
    <3> HIDE DEF l
    <3> QED BY <1>2, <2>2 DEF NextOK
  <2>4. old = blockDB[height]
    BY <2>3
  <2> HIDE DEF r, old
  <2>5. local'[t] = r
    BY <1>4, SetIs DEF SyncOK
  <2> QED BY <1>1, <2>1, <2>2, <2>4, <2>5 DEF ReadOK
<1> QED BY <1>3, <1>4 DEF Lock

\* ... and every next one, which has the block that was just stored before it.
LEMMA SetHeightReads ==
  ASSUME SyncOK, NEW t \in Handlers, SetHeight(t)
  PROVE  ReadOK(local[t])'
<1> DEFINE l == local[t]
           b == l.list[l.i]
           r == [l EXCEPT !.pc = "apply", !.i = l.i + 1, !.old = b]
<1>1. LocalOK(l) /\ height' = b.height
  BY DEF SetHeight, SyncOK, LocalsOK
<1>2. CASE Set(t, Idle)
  <2>1. local'[t] = Idle
    BY <1>2, SetIs, SMTT(20), Zenon DEF SyncOK
  <2> QED BY <2>1, IdleIsTyped DEF ReadOK
<1>3. CASE Set(t, r)
  <2>1. r.pc = "apply" /\ r.old = b
    BY <1>1 DEF LocalOK
  <2> HIDE DEF r
  <2>2. local'[t] = r
    BY <1>3, SetIs DEF SyncOK
  <2> QED BY <1>1, <2>1, <2>2 DEF ReadOK
<1> QED BY <1>2, <1>3 DEF SetHeight, Unlock

\* Where a handler neither waits with a height nor has a block to apply, there is
\* nothing that could be late.
LEMMA OthersRead ==
  ASSUME SyncOK, NEW t \in Handlers,
         \/ VerifyKnown(t) \/ VerifyForks(t) \/ VerifyRefuses(t) \/ VerifyPanics(t) \/ Verify(t)
         \/ Apply(t) \/ ApplyFails(t)
         \/ StoreBlock(t) \/ StoreAccounts(t) \/ StoreStakingAccounts(t)
         \/ ResetGivesUp(t) \/ ResetLoad(t) \/ ResetRemove(t) \/ ResetHeight(t)
  PROVE  ReadOK(local[t])'
<1> DEFINE l == local[t]
<1>1. LocalOK(l)
  BY DEF SyncOK, LocalsOK
<1>2. ASSUME NEW r, Set(t, r), r.pc \notin {"bl", "apply"} PROVE ReadOK(local[t])'
  <2>1. local'[t] = r
    BY <1>2, SetIs, Zenon, SMTT(20) DEF SyncOK
  <2> QED BY <1>2, <2>1, Zenon, SMTT(20) DEF ReadOK
<1>3. Idle.pc \notin {"bl", "apply"}
  BY IdleIsTyped
<1>4. CASE VerifyKnown(t)
  <2> DEFINE r == [l EXCEPT !.pc = "check"]
  <2>1. Set(t, r) /\ r.pc = "check"
    BY <1>1, <1>4 DEF VerifyKnown, LocalOK
  <2> HIDE DEF r
  <2> QED BY <1>2, <2>1
<1>5. CASE VerifyForks(t)
  <2> DEFINE r == [l EXCEPT !.pc = "reset", !.adjust = TRUE,
                            !.target = l.list[Min(Differs(l))].height - shift]
  <2>1. Set(t, r) /\ r.pc = "reset"
    BY <1>1, <1>5 DEF VerifyForks, LocalOK
  <2> HIDE DEF r
  <2> QED BY <1>2, <2>1
<1>6. CASE VerifyRefuses(t)
  <2>1. PICK i \in FirstNew(l)..Len(l.list) :
          Set(t, [l EXCEPT !.pc = "reset", !.target = l.list[i].height - AdjustShift(l.hmax, height)])
    BY <1>6, Zenon, SMTT(20) DEF VerifyRefuses
  <2> DEFINE r == [l EXCEPT !.pc = "reset", !.target = l.list[i].height - AdjustShift(l.hmax, height)]
  <2>2. Set(t, r) /\ r.pc = "reset"
    BY <1>1, <2>1 DEF LocalOK
  <2> HIDE DEF r
  <2> QED BY <1>2, <2>2, Zenon, SMTT(20)
<1>7. CASE Verify(t)
  <2> DEFINE r == [l EXCEPT !.pc = "lock", !.i = FirstNew(l)]
  <2>1. r.pc = "lock"
    BY <1>1 DEF LocalOK
  <2>2. Set(t, r) \/ Set(t, Idle)
    BY <1>7 DEF Verify
  <2> HIDE DEF r
  <2> QED BY <1>2, <1>3, <2>1, <2>2
<1>8. CASE Apply(t) \/ StoreBlock(t) \/ StoreAccounts(t) \/ StoreStakingAccounts(t) \/ ResetRemove(t)
  <2>1. PICK next \in {"storeBlock", "storeAccounts", "storeStaking", "setHeight", "resetHeight"} :
          Set(t, [l EXCEPT !.pc = next])
    BY <1>8, Zenon, SMTT(20) DEF Apply, StoreBlock, StoreAccounts, StoreStakingAccounts, ResetRemove
  <2> DEFINE r == [l EXCEPT !.pc = next]
  <2>2. Set(t, r) /\ r.pc = next
    BY <1>1, <2>1, SMTT(20), Zenon DEF LocalOK
  <2> HIDE DEF r
  <2> QED BY <1>2, <2>1, <2>2
<1>9. CASE ApplyFails(t)
  <2> DEFINE r == [l EXCEPT !.pc = "reset", !.target = l.old.height]
  <2>1. Set(t, r) /\ r.pc = "reset"
    BY <1>1, <1>9 DEF ApplyFails, LocalOK
  <2> HIDE DEF r
  <2> QED BY <1>2, <2>1
<1>10. CASE VerifyPanics(t) \/ ResetGivesUp(t) \/ ResetHeight(t)
  BY <1>2, <1>3, <1>10, Zenon, SMTT(20) DEF VerifyPanics, ResetGivesUp, ResetHeight, ResetReturns, Unlock
<1>11. CASE ResetLoad(t)
  <2> DEFINE r == [l EXCEPT !.pc = "remove", !.target = Max({0, l.target})]
  <2>1. Set(t, r) /\ r.pc = "remove"
    BY <1>1, <1>11 DEF ResetLoad, LocalOK
  <2> HIDE DEF r
  <2> QED BY <1>2, <2>1
<1> QED BY <1>4, <1>5, <1>6, <1>7, <1>8, <1>9, <1>10, <1>11

\* What the handler read on arrival stays so.
LEMMA SoloStep ==
  ASSUME SyncOK, ChainOK, SoloOK, OneHandler, [Next]_vars
  PROVE  SoloOK' /\ OneHandler'
<1>1. ActiveOK' /\ active' = active
  BY ActiveStep, ActiveStays DEF SoloOK
<1>2. PICK a \in Handlers : active = {a}
  BY DEF OneHandler
<1>3. Alone(a) /\ \A u \in Handlers : u # a => local'[u].pc = "idle"
  BY <1>1, <1>2 DEF SoloOK, ActiveOK, Alone
<1>4. SUFFICES ReadOK(local[a])'
  BY <1>1, <1>2, <1>3 DEF SoloOK, OneHandler, ReadOK
<1>5. CASE UNCHANGED <<local, height>>
  BY <1>5 DEF SoloOK, ReadOK
<1>6. ASSUME NEW t \in Handlers, Step(t) PROVE ReadOK(local[a])'
  <2>1. local[t].pc # "idle"
    BY <1>6, Zenon, SMTT(20) DEF Step, CheckBlock, VerifyKnown, VerifyForks, VerifyRefuses, VerifyPanics, Verify, Lock,
                Apply, ApplyFails, StoreBlock, StoreAccounts, StoreStakingAccounts, SetHeight,
                ResetGivesUp, ResetLoad, ResetRemove, ResetHeight
  <2>2. t = a
    BY <1>3, <2>1 DEF Alone
  <2> QED BY <1>3, <1>6, <2>2, CheckBlockReads, LockReads, SetHeightReads, OthersRead, Zenon, SMTT(20) DEF Step
<1>7. ASSUME NEW t \in Handlers, NEW b \in Blocks, ReceiveBlock(t, b) PROVE ReadOK(local[a])'
  <2> DEFINE r == [Idle EXCEPT !.pc = "bl", !.h = height, !.list = <<b>>]
  <2>1. t = a /\ Set(a, r) /\ height' = height
    BY <1>2, <1>7 DEF ReceiveBlock
  <2>2. r.pc = "bl" /\ r.h = height
    BY SMTT(20), Zenon DEF Idle
  <2> HIDE DEF r
  <2>3. local'[a] = r
    BY <2>1, SetIs DEF SyncOK
  <2> QED BY <2>1, <2>2, <2>3 DEF ReadOK
<1>8. ASSUME NEW t \in Handlers, NEW list \in inbox, ReceiveHeaders(t, list) PROVE ReadOK(local[a])'
  <2> DEFINE r == [Idle EXCEPT !.pc = "verify", !.h = height, !.hmax = heightMax, !.list = list]
  <2>1. t = a /\ (Set(a, r) \/ UNCHANGED local) /\ height' = height
    BY <1>2, <1>8 DEF ReceiveHeaders
  <2>2. r.pc = "verify"
    BY DEF Idle
  <2> HIDE DEF r
  <2>3. ASSUME Set(a, r) PROVE local'[a] = r
    BY <2>3, SetIs DEF SyncOK
  <2> QED BY <1>5, <2>1, <2>2, <2>3 DEF ReadOK
<1>9. ASSUME NEW t, NEW chain, NEW sent, ReceiveHi(t, chain, sent) PROVE ReadOK(local[a])'
  BY <1>5, <1>9 DEF ReceiveHi
<1>10. ASSUME NEW list, LoseHeaders(list) PROVE ReadOK(local[a])'
  BY <1>5, <1>10 DEF LoseHeaders
<1>11. ASSUME NEW b, ReceiveTransactions(b) PROVE ReadOK(local[a])'
  BY <1>5, <1>11 DEF ReceiveTransactions
<1>12. CASE UNCHANGED vars
  BY <1>5, <1>12 DEF vars
<1> QED BY <1>6, <1>7, <1>8, <1>9, <1>10, <1>11, <1>12 DEF Next

-----------------------------------------------------------------------------
(***************************************************************************)
(* The refinement of ChainSpec: what the node shows is what it has stored, *)
(* up to its height.                                                       *)
(***************************************************************************)
Ledger(db, n) == [i \in 1..n |-> [db[i] EXCEPT !.total = 0]]
Show(db, h) == Ledger(db, Min({h, LastHeightStored(db, None)}))

\* The chain is as it should be, and no message that synchronises races another.
ApartOK == SyncOK /\ ChainOK /\ Apart

\* The chain shown is the stored one, or the part of it up to the height.
LEMMA ShowIs ==
  ASSUME NEW db, NEW n, BlocksAt(db, n), NEW h \in Nat, NEW m \in Nat,
         m <= h, m <= n, m = h \/ m = n
  PROVE  Show(db, h) = Ledger(db, m)
<1>1. n \in Nat /\ LastHeightStored(db, None) = n
  BY LastBlockStored, ChainAssumption DEF BlocksAt, Heights
<1>2. Min({h, n}) = m
  BY <1>1, MinOfTwo
<1> QED BY <1>1, <1>2 DEF Show

\* It is a sequence of blocks.
LEMMA LedgerIsTyped ==
  ASSUME NEW db \in [Heights -> BlockType], NEW n \in Heights
  PROVE  /\ Ledger(db, n) \in Seq(BlockType) /\ Len(Ledger(db, n)) = n
         /\ \A i \in 1..n : Ledger(db, n)[i] = [db[i] EXCEPT !.total = 0]
<1>1. n \in Nat /\ \A i \in 1..n : i \in Heights
  BY ChainAssumption DEF Heights
<1>2. \A i \in 1..n : db[i] \in BlockType
  BY <1>1
<1>3. \A b \in BlockType : [b EXCEPT !.total = 0] \in BlockType
  BY SameWithTotal, Zenon, SMTT(20)
<1> QED BY <1>1, <1>2, <1>3, SMTT(20), Zenon DEF Ledger

\* Stored blocks above change nothing of it.
LEMMA LedgerBelow ==
  ASSUME NEW db, NEW db2, NEW n, \A i \in 1..n : db2[i] = db[i]
  PROVE  Ledger(db2, n) = Ledger(db, n)
BY DEF Ledger

\* It is extended by the block that is stored next.
LEMMA LedgerAppend ==
  ASSUME NEW db \in [Heights -> BlockType], NEW n \in Nat, n + 1 \in Heights
  PROVE  Ledger(db, n + 1) = Append(Ledger(db, n), [db[n + 1] EXCEPT !.total = 0])
<1> DEFINE s == Ledger(db, n)
           e == [db[n + 1] EXCEPT !.total = 0]
           s2 == Ledger(db, n + 1)
<1>1. n \in Heights
  BY ChainAssumption DEF Heights
<1>2. s \in Seq(BlockType) /\ Len(s) = n /\ \A i \in 1..n : s[i] = [db[i] EXCEPT !.total = 0]
  BY <1>1, LedgerIsTyped
<1>3. /\ s2 \in Seq(BlockType) /\ Len(s2) = n + 1 /\ s2[n + 1] = e
      /\ \A i \in 1..n : s2[i] = [db[i] EXCEPT !.total = 0]
  <2>1. n + 1 \in 1..(n + 1) /\ \A i \in 1..n : i \in 1..(n + 1)
    OBVIOUS
  <2> QED BY <2>1, LedgerIsTyped
<1>4. e \in BlockType
  BY SameWithTotal
<1> HIDE DEF s, e, s2
<1>5. \A i \in 1..n : s2[i] = s[i]
  BY <1>2, <1>3
<1>6. /\ Append(s, e) \in Seq(BlockType) /\ Len(Append(s, e)) = n + 1
      /\ Append(s, e)[n + 1] = e /\ \A i \in 1..n : Append(s, e)[i] = s[i]
  BY <1>2, <1>4
<1>7. \A i \in 1..(n + 1) : s2[i] = Append(s, e)[i]
  BY <1>3, <1>5, <1>6
<1>8. s2 = Append(s, e)
  BY <1>3, <1>6, <1>7
<1> QED BY <1>8 DEF s, e, s2

\* Its prefix is what is stored below.
LEMMA LedgerPrefix ==
  ASSUME NEW db \in [Heights -> BlockType], NEW n \in Heights, NEW k \in 0..n
  PROVE  Ledger(db, k) = SubSeq(Ledger(db, n), 1, k)
<1> DEFINE s == Ledger(db, n)
<1>0. n \in Nat
  BY ChainAssumption DEF Heights
<1>1. /\ s \in Seq(BlockType) /\ Len(s) = n /\ n \in Nat
      /\ \A i \in 1..n : s[i] = [db[i] EXCEPT !.total = 0]
  BY <1>0, LedgerIsTyped
<1>2. \A i \in 1..k : i \in 1..n
  BY <1>1
<1> HIDE DEF s
<1>3. SubSeq(s, 1, k) = [i \in 1..k |-> s[i]]
  BY <1>1
<1>4. SubSeq(s, 1, k) = Ledger(db, k)
  BY <1>1, <1>2, <1>3 DEF Ledger
<1> QED BY <1>4 DEF s

\* What the node shows, before and after a step.
LEMMA ChainShows ==
  ASSUME ApartOK, ApartOK'
  PROVE  Chain = Show(blockDB, height) /\ Chain' = Show(blockDB', height')
<1>1. Apart /\ Apart'
  BY DEF ApartOK
<1> QED BY <1>1 DEF Chain, Show, Ledger

\* A chain that the node starts with is one that was applied before.
LEMMA ShowsStart ==
  ASSUME Init, Apart
  PROVE  Abstract!Init
<1>1. PICK c \in StartChains :
        /\ height = Len(c) /\ accounts = c
        /\ blockDB = [h \in Heights |-> IF h <= Len(c) THEN IF h = 0 THEN Genesis ELSE c[h] ELSE None]
  BY DEF Init
<1>2. SyncOK /\ ChainOK /\ \A t \in Handlers : ~Busy(t)
  BY SyncInit, ChainInit, IdleIsTyped, Zenon, SMTT(20) DEF Init, Busy
<1>3. BlocksAt(blockDB, height) /\ height \in Nat /\ Matches(blockDB, c, height)
  BY <1>1, <1>2, TopHeight, Zenon, SMTT(20) DEF ChainOK, NodeAt, Stored, InMemory
<1>4. Chain = Show(blockDB, height)
  BY DEF Chain, Show, Ledger
<1>5. Chain = Ledger(blockDB, height)
  BY <1>3, <1>4, ShowIs
<1>6. Plain(c) = Ledger(blockDB, height)
  BY <1>3 DEF Matches, Same, Plain, Ledger
<1> QED BY <1>5, <1>6, SMTT(20), Zenon DEF Abstract!Init

\* Most steps change neither the blocks nor the height.
LEMMA ShowsSame ==
  ASSUME ApartOK, ApartOK', UNCHANGED <<blockDB, height>>
  PROVE  Chain' = Chain
BY ChainShows

\* A block that is stored is not shown yet.
LEMMA StoreBlockShows ==
  ASSUME ApartOK, ApartOK', NEW t \in Handlers, StoreBlock(t)
  PROVE  Chain' = Chain
<1> DEFINE l == local[t]
           b == l.list[l.i]
           row == [b EXCEPT !.total = l.old.total + b.fees]
<1>1. l.pc = "storeBlock" /\ blockDB' = [blockDB EXCEPT ![b.height] = row] /\ height' = height
  BY DEF StoreBlock
<1>2. l.pc \in Applying
  BY <1>1 DEF Applying
<1>3. SyncOK /\ ChainOK
  BY DEF ApartOK
<1>4. TaskOK(l) /\ b \in BlockType /\ l.old \in BlockType /\ b.height \in Heights /\ height \in Nat
  BY <1>2, <1>3, Applies, Zenon, SMTT(20)
<1>5. BlocksAt(blockDB, height) /\ b.height = height + 1
  BY <1>1, <1>4 DEF TaskOK, Stored, NextOK
<1>6. row.height = height + 1
  <2>1. l.old.total + b.fees \in Nat
    BY <1>4 DEF BlockType
  <2> QED BY <1>4, <1>5, <2>1, SameWithTotal, SMTT(20), Zenon
<1>7. DOMAIN blockDB = Heights
  BY <1>3 DEF SyncOK, NodeOK
<1> HIDE DEF l, b, row
<1>8. BlocksAt(blockDB', height + 1)
  BY <1>1, <1>4, <1>5, <1>6, <1>7, BlocksExtend, Zenon, SMTT(20)
<1>9. \A i \in 1..height : blockDB'[i] = blockDB[i]
  <2>1. height + 1 \in Heights /\ MaxHeight \in Nat
    BY <1>4, <1>5, ChainAssumption
  <2>2. \A i \in 1..height : i \in Heights /\ i # height + 1
    BY <1>4, <2>1, SMTT(20), Zenon DEF Heights
  <2> QED BY <1>1, <1>5, <1>7, <2>1, <2>2, Zenon, SMTT(20)
<1>10. Show(blockDB, height) = Ledger(blockDB, height)
  <2>1. height <= height
    BY <1>4
  <2> QED BY <1>4, <1>5, <2>1, ShowIs
<1>11. Show(blockDB', height) = Ledger(blockDB', height)
  <2> DEFINE n == height + 1
  <2>1. n \in Nat /\ height <= n
    BY <1>4
  <2> HIDE DEF n
  <2> QED BY <1>4, <1>8, <2>1, ShowIs DEF n
<1>12. Ledger(blockDB', height) = Ledger(blockDB, height)
  BY <1>9, LedgerBelow
<1> QED BY <1>1, <1>10, <1>11, <1>12, ChainShows

\* SetHeight shows it: the chain has one more block, that follows its last one.
LEMMA SetHeightShows ==
  ASSUME ApartOK, ApartOK', NEW t \in Handlers, SetHeight(t)
  PROVE  Abstract!Next
<1> DEFINE l == local[t]
           b == l.list[l.i]
           e == [b EXCEPT !.total = 0]
<1>1. l.pc = "setHeight" /\ height' = b.height /\ blockDB' = blockDB
  BY DEF SetHeight, stores
<1>2. l.pc \in Applying
  BY <1>1, SMTT(20), Zenon DEF Applying
<1>3. SyncOK /\ ChainOK
  BY DEF ApartOK
<1>4. /\ TaskOK(l) /\ b \in BlockType /\ b.height \in Heights /\ height \in Nat /\ height \in Heights
      /\ l.i \in 1..Len(l.list) /\ Served(l.list)
  BY <1>2, <1>3, Applies, Zenon, SMTT(20)
<1>5. /\ BlocksAt(blockDB, height + 1) /\ b.height = height + 1
      /\ b.prev = blockDB[height].id /\ Same(b, blockDB[height + 1])
  BY <1>1, <1>4, Zenon, SMTT(20) DEF TaskOK, Stored, NextOK
<1>6. b \in Blocks
  <2> HIDE DEF b
  <2>1. b.height >= 1
    <3> DEFINE n == b.height
    <3>1. n = height + 1 /\ height \in Nat
      BY <1>4, <1>5, Zenon, SMTT(20)
    <3> HIDE DEF n
    <3>2. n >= 1
      BY <3>1
    <3> QED BY <3>2 DEF n
  <2> QED BY <1>4, <2>1, Zenon, SMTT(20) DEF Served, b
<1>7. blockDB \in [Heights -> BlockType] /\ height + 1 \in Heights /\ blockDB[height] \in BlockType
  BY <1>3, <1>4, <1>5, Zenon, SMTT(20) DEF ChainOK, TypedOK
<1>8. e.prev = b.prev /\ e = [blockDB[height + 1] EXCEPT !.total = 0]
  BY <1>4, <1>5 DEF Same, BlockType
<1> HIDE DEF l, b, e
<1>9. Chain = Ledger(blockDB, height)
  <2> DEFINE n == height + 1
  <2>1. n \in Nat /\ height <= n
    BY <1>4, SMTT(20), Zenon
  <2> HIDE DEF n
  <2>2. Show(blockDB, height) = Ledger(blockDB, height)
    BY <1>4, <1>5, <2>1, ShowIs DEF n
  <2> QED BY <2>2, ChainShows
<1>10. Chain' = Append(Chain, e)
  <2> DEFINE n == height + 1
  <2>1. n \in Nat /\ BlocksAt(blockDB, n) /\ height' = n
    BY <1>1, <1>4, <1>5
  <2> HIDE DEF n
  <2>2. Show(blockDB, n) = Ledger(blockDB, n)
    BY <2>1, ShowIs
  <2>3. Ledger(blockDB, n) = Append(Ledger(blockDB, height), e)
    BY <1>4, <1>7, <1>8, LedgerAppend DEF n
  <2> QED BY <1>1, <1>9, <2>1, <2>2, <2>3, ChainShows, SMTT(20), Zenon
<1>11. e.prev = Abstract!LastOf(Chain).id
  <2>1. Chain \in Seq(BlockType) /\ Len(Chain) = height
    BY <1>4, <1>7, <1>9, LedgerIsTyped
  <2>2. CASE height = 0
    <3>1. Chain = << >>
      BY <2>1, <2>2
    <3>2. blockDB[height] = Genesis
      BY <1>5, <2>2 DEF BlocksAt
    <3> QED BY <1>5, <1>8, <3>1, <3>2 DEF Abstract!LastOf
  <2>3. CASE height # 0
    <3>1. height \in 1..height /\ Chain # << >>
      BY <1>4, <2>1, <2>3
    <3>2. Chain[height] = [blockDB[height] EXCEPT !.total = 0]
      BY <1>4, <1>7, <1>9, <3>1, LedgerIsTyped
    <3>3. Chain[height].id = blockDB[height].id
      BY <1>7, <3>2 DEF BlockType
    <3> QED BY <1>5, <1>8, <2>1, <3>1, <3>3 DEF Abstract!LastOf
  <2> QED BY <2>2, <2>3
<1>12. Abstract!Extend(e)
  BY <1>10, <1>11 DEF Abstract!Extend
<1>13. e \in {[x EXCEPT !.total = 0] : x \in Blocks}
  BY <1>6 DEF e
<1> QED BY <1>12, <1>13 DEF Abstract!Next

\* A reset removes blocks: the chain goes back to a prefix.
LEMMA ResetRemoveShows ==
  ASSUME ApartOK, ApartOK', NEW t \in Handlers, ResetRemove(t)
  PROVE  Abstract!Next
<1> DEFINE k == local[t].target
           hb == LastHeightStored(blockDB, None)
           blocks2 == [h \in Heights |-> IF h \in (k + 1)..height THEN None ELSE blockDB[h]]
<1>1. /\ local[t].pc = "remove" /\ height' = height
      /\ blockDB' = [h \in Heights |-> IF h \in (k + 1)..hb THEN None ELSE blockDB[h]]
  BY DEF ResetRemove
<1>2. Busy(t) /\ SyncOK /\ ChainOK
  BY <1>1 DEF Busy, ApartOK
<1>3. BlocksAt(blockDB, height) /\ k \in 0..height
  BY <1>1, <1>2, Zenon, SMTT(20) DEF ChainOK, TaskOK, Stored
<1>4. height \in Heights /\ height \in Nat /\ blockDB \in [Heights -> BlockType]
  BY <1>2, <1>3, TopHeight, Zenon, SMTT(20) DEF BlocksAt, ChainOK, TypedOK
<1>5. hb = height
  BY <1>3, LastBlockStored, Zenon, SMTT(20)
<1>6. blockDB' = blocks2
  BY <1>1, <1>5
<1> HIDE DEF k, hb
<1>7. BlocksAt(blocks2, k) /\ \A i \in 1..k : blocks2[i] = blockDB[i]
  BY <1>3, BlocksRemoved
<1> HIDE DEF blocks2
<1>8. k \in Nat /\ k <= height
  BY <1>3, <1>4
<1>9. Chain = Ledger(blockDB, height)
  BY <1>3, <1>4, ChainShows, ShowIs, SMTT(20), Zenon
<1>10. Chain' = Ledger(blockDB, k)
  <2>1. Show(blocks2, height) = Ledger(blocks2, k)
    BY <1>4, <1>7, <1>8, ShowIs
  <2>2. Ledger(blocks2, k) = Ledger(blockDB, k)
    BY <1>7, LedgerBelow
  <2> QED BY <1>1, <1>6, <2>1, <2>2, ChainShows, Zenon, SMTT(20)
<1>11. Chain' = SubSeq(Chain, 1, k) /\ Len(Chain) = height
  BY <1>3, <1>4, <1>9, <1>10, LedgerPrefix, LedgerIsTyped
<1>12. k \in 0..Len(Chain)
  BY <1>3, <1>11
<1> QED BY <1>11, <1>12 DEF Abstract!Next, Abstract!GoBack

\* The height that it sets then is the one of the last block that is left.
LEMMA ResetHeightShows ==
  ASSUME ApartOK, ApartOK', NEW t \in Handlers, ResetHeight(t)
  PROVE  Chain' = Chain
<1> DEFINE k == local[t].target
<1>1. local[t].pc = "resetHeight" /\ height' = k /\ blockDB' = blockDB
  BY Zenon, SMTT(20) DEF ResetHeight, stores
<1>2. Busy(t) /\ SyncOK /\ ChainOK
  BY <1>1, Zenon, SMTT(20) DEF Busy, ApartOK
<1>3. BlocksAt(blockDB, k) /\ k \in 0..height
  BY <1>1, <1>2, Zenon, SMTT(20) DEF ChainOK, TaskOK, Stored
<1>4. height \in Nat
  <2>1. height \in Heights
    BY <1>2, Zenon, SMTT(20) DEF SyncOK, NodeOK
  <2> QED BY <2>1, HeightsAreNat
<1> HIDE DEF k
<1>5. k \in Nat /\ k <= height
  BY <1>3, <1>4
<1>6. Show(blockDB, height) = Ledger(blockDB, k) /\ Show(blockDB, k) = Ledger(blockDB, k)
  BY <1>3, <1>4, <1>5, ShowIs
<1> QED BY <1>1, <1>6, ChainShows, Zenon, SMTT(20)

\* Every step of a handler is one of the abstract chain or leaves it as it is.
LEMMA ShowsStep ==
  ASSUME ApartOK, ApartOK', [Next]_vars
  PROVE  [Abstract!Next]_Chain
<1>1. ASSUME NEW t \in Handlers, Step(t) PROVE [Abstract!Next]_Chain
  <2>1. CASE \E refused \in BOOLEAN : CheckBlock(t, refused)
    BY <2>1, ShowsSame DEF CheckBlock, stores
  <2>2. CASE VerifyKnown(t) \/ VerifyForks(t) \/ VerifyRefuses(t) \/ VerifyPanics(t) \/ Verify(t)
    BY <2>2, ShowsSame, Zenon, SMTT(20) DEF VerifyKnown, VerifyForks, VerifyRefuses, VerifyPanics, Verify, stores
  <2>3. CASE Lock(t) \/ Apply(t) \/ ApplyFails(t) \/ StoreAccounts(t) \/ StoreStakingAccounts(t)
    BY <2>3, ShowsSame, Zenon, SMTT(20) DEF Lock, Apply, ApplyFails, StoreAccounts, StoreStakingAccounts, stores
  <2>4. CASE ResetGivesUp(t) \/ ResetLoad(t)
    BY <2>4, ShowsSame DEF ResetGivesUp, ResetLoad, stores
  <2> QED BY <1>1, <2>1, <2>2, <2>3, <2>4, StoreBlockShows, SetHeightShows, ResetRemoveShows,
             ResetHeightShows DEF Step
<1>2. ASSUME NEW t \in Handlers, NEW b, ReceiveBlock(t, b) PROVE [Abstract!Next]_Chain
  BY <1>2, ShowsSame, SMTT(20), Zenon DEF ReceiveBlock, stores
<1>3. ASSUME NEW t \in Handlers, NEW chain, NEW sent, ReceiveHi(t, chain, sent)
      PROVE  [Abstract!Next]_Chain
  BY <1>3, ShowsSame DEF ReceiveHi, stores
<1>4. ASSUME NEW t \in Handlers, NEW list, ReceiveHeaders(t, list) PROVE [Abstract!Next]_Chain
  BY <1>4, ShowsSame DEF ReceiveHeaders, stores
<1>5. ASSUME NEW list, LoseHeaders(list) PROVE [Abstract!Next]_Chain
  BY <1>5, ShowsSame DEF LoseHeaders, stores
<1>6. ASSUME NEW b, ReceiveTransactions(b) PROVE [Abstract!Next]_Chain
  BY <1>6, ShowsSame DEF ReceiveTransactions, stores
<1>7. CASE UNCHANGED vars
  BY <1>7, ShowsSame DEF vars, stores
<1> QED BY <1>1, <1>2, <1>3, <1>4, <1>5, <1>6, <1>7 DEF Next
=============================================================================
