------------------------------ MODULE EVMProofs ------------------------------
(***************************************************************************)
(* Proofs about the contract machine at work on the node's state (EVM),    *)
(* for any contracts, any prices contracts ask for their callees, any      *)
(* depth of calls and any number of writes, evaluations and heights.       *)
(*                                                                         *)
(* Every operation of the machine either enters a call or leaves one.  The *)
(* proofs say first what any call does before its code runs                *)
(* (CallOutcome) and what any end of a call does (ReturnOutcome), and then *)
(* follow the two through the frames.                                      *)
(***************************************************************************)
EXTENDS EVM, FiniteSums, SequenceTheorems, TLAPS

-----------------------------------------------------------------------------
(***************************************************************************)
(* Types.                                                                  *)
(***************************************************************************)

Storage == [Contracts -> [Hashes -> Hashes]]

Kinds == {"call", "dex", "delegate", "static", "create", "deploy"}

Creations == {"create", "deploy"}

Frame == [kind : Kinds, self : Addresses, gas : Nat, snapshot : Nat,
          resets : BOOLEAN, entry : Storage]

\* The state of the contracts, as far as the proofs look into it.
StateOK(d) ==
  /\ DOMAIN d = {"Accounts", "Codes", "Nonces", "StatesHashes", "Tokens", "SnapShotNum",
                 "SnapShotPreimage", "HeightToSnapShotNum"}
  /\ d.SnapShotNum \in Nat
  /\ d.StatesHashes \in Storage

MachineOK ==
  /\ frames \in Seq(Frame)
  /\ readOnly \in BOOLEAN
  /\ StateOK(db)
  /\ height \in Nat

\* d is the present state but for accounts, and for codes and nonces.
KeepsState(d) ==
  /\ StateOK(d)
  /\ d.StatesHashes = db.StatesHashes
  /\ d.Tokens = db.Tokens
  /\ d.SnapShotNum = db.SnapShotNum
  /\ d.HeightToSnapShotNum = db.HeightToSnapShotNum

KeepsCode(d) == d.Codes = db.Codes /\ d.Nonces = db.Nonces

\* What a call does before its code runs, or all it does if no code runs.
CallOutcome(o, kind, gas) ==
  /\ KeepsState(o.d)
  /\ kind \notin Creations => KeepsCode(o.d)
  /\ o.run \in BOOLEAN
  /\ o.run => /\ o.frame \in Frame
              /\ o.frame.kind = kind
              /\ o.frame.gas = gas
              /\ o.frame.snapshot = db.SnapShotNum
              /\ o.frame.resets = (kind = "static" /\ ~readOnly)
  /\ ~o.run => o.gas \in Nat /\ o.gas <= gas

\* What the end of a call does: nothing but accounts, or it goes back to the
\* snapshot of its frame.
ReturnOutcome(o, f) ==
  /\ StateOK(o.d)
  /\ o.run = FALSE
  /\ o.gas \in Nat /\ o.gas <= f.gas
  /\ o.d.SnapShotNum \in {db.SnapShotNum, f.snapshot}
  /\ o.d.HeightToSnapShotNum = db.HeightToSnapShotNum
  /\ o.d.Tokens = db.Tokens
  /\ f.snapshot = db.SnapShotNum => o.d.StatesHashes = db.StatesHashes
  /\ f.kind \notin Creations => KeepsCode(o.d)

-----------------------------------------------------------------------------
(***************************************************************************)
(* Operations on the state.                                                *)
(***************************************************************************)

\* Going back to a snapshot leaves codes, nonces, tokens and the numbers of the
\* heights alone (methods.go, RevertToSnapshot).
LEMMA RevertGoesBack ==
  ASSUME NEW d, StateOK(d), NEW sn \in Nat
  PROVE  LET e == RevertToSnapshot(d, sn)
         IN  /\ StateOK(e)
             /\ e.SnapShotNum = sn
             /\ e.HeightToSnapShotNum = d.HeightToSnapShotNum
             /\ e.Tokens = d.Tokens
             /\ e.Codes = d.Codes /\ e.Nonces = d.Nonces
<1> DEFINE undone == {d.SnapShotPreimage[s] : s \in (sn + 1)..d.SnapShotNum}
           storage == [a \in Contracts |-> [h \in Hashes |->
                         IF <<a, h>> \in undone THEN h ELSE d.StatesHashes[a][h]]]
           preimage == [s \in 1..sn |-> d.SnapShotPreimage[s]]
           e == [d EXCEPT !.StatesHashes = storage, !.SnapShotPreimage = preimage,
                          !.SnapShotNum = sn]
<1>1. RevertToSnapshot(d, sn) = e
  BY DEF RevertToSnapshot
<1>2. storage \in Storage
  BY DEF Storage, StateOK
<1> HIDE DEF undone, storage, preimage
<1> QED BY <1>1, <1>2 DEF StateOK

\* Going back to the present snapshot changes no storage.
LEMMA RevertToPresent ==
  ASSUME NEW d, StateOK(d)
  PROVE  RevertToSnapshot(d, d.SnapShotNum).StatesHashes = d.StatesHashes
<1> DEFINE undone == {d.SnapShotPreimage[s] : s \in (d.SnapShotNum + 1)..d.SnapShotNum}
           storage == [a \in Contracts |-> [h \in Hashes |->
                         IF <<a, h>> \in undone THEN h ELSE d.StatesHashes[a][h]]]
<1>1. RevertToSnapshot(d, d.SnapShotNum).StatesHashes = storage
  BY DEF RevertToSnapshot, StateOK
<1>2. undone = {}
  BY DEF StateOK
<1>3. storage = d.StatesHashes
  BY <1>2 DEF StateOK, Storage
<1> QED BY <1>1, <1>3

-----------------------------------------------------------------------------
(***************************************************************************)
(* Calls, before their code runs.                                          *)
(***************************************************************************)

\* A call that returns at once with no more gas than it was given.
LEMMA ReturnsAtOnce ==
  ASSUME NEW d, KeepsState(d), NEW kind, kind \notin Creations => KeepsCode(d),
         NEW gas \in Nat, NEW left \in Nat, left <= gas, NEW e
  PROVE  CallOutcome(Returns(d, left, e), kind, gas)
BY DEF CallOutcome, Returns

\* A call that gives all its gas back.
LEMMA ReturnsAll ==
  ASSUME NEW d, KeepsState(d), NEW kind, kind \notin Creations => KeepsCode(d),
         NEW gas \in Nat, NEW e
  PROVE  CallOutcome(Returns(d, gas, e), kind, gas)
BY DEF CallOutcome, Returns

\* A call whose code runs (evm.go, interpreter.go Run).
LEMMA RunsItsCode ==
  ASSUME MachineOK,
         NEW d, KeepsState(d), NEW kind \in Kinds, kind \notin Creations => KeepsCode(d),
         NEW self \in Addresses, NEW gas \in Nat
  PROVE  CallOutcome(Runs(d, kind, self, gas, Snapshot(db)), kind, gas)
<1> DEFINE o == Runs(d, kind, self, gas, Snapshot(db))
<1>1. o.d = d /\ o.run = TRUE
  BY DEF Runs
<1>2. o.frame = [kind |-> kind, self |-> self, gas |-> gas, snapshot |-> db.SnapShotNum,
                 resets |-> kind = "static" /\ ~readOnly, entry |-> db.StatesHashes]
  BY DEF Runs, Snapshot
<1>3. (kind = "static" /\ ~readOnly) \in BOOLEAN
  OBVIOUS
<1>4. db.StatesHashes \in Storage /\ db.SnapShotNum \in Nat
  BY DEF MachineOK, StateOK
<1> HIDE DEF o
<1>5. o.frame \in Frame
  BY <1>2, <1>3, <1>4 DEF Frame
<1>6. /\ o.frame.kind = kind /\ o.frame.gas = gas /\ o.frame.snapshot = db.SnapShotNum
      /\ o.frame.resets = (kind = "static" /\ ~readOnly)
  BY <1>2
<1>7. CallOutcome(o, kind, gas)
  BY <1>1, <1>5, <1>6, Zenon, SMTT(20) DEF CallOutcome
<1> QED BY <1>7 DEF o

\* The native contract fails without enough gas and then goes back to the
\* snapshot of its own call, which is the present one (contracts.go).
LEMMA RunsCode ==
  ASSUME MachineOK,
         NEW d, KeepsState(d), NEW kind \in Kinds, KeepsCode(d),
         NEW self \in Addresses, NEW addr, NEW gas \in Nat
  PROVE  CallOutcome(RunCode(d, kind, self, addr, gas), kind, gas)
<1>1. CASE addr = Precompiled /\ gas >= NativeGas
  <2>1. RunCode(d, kind, self, addr, gas) = Returns(d, gas - NativeGas, "nil")
    BY <1>1 DEF RunCode, RunPrecompiledContract
  <2>2. gas - NativeGas \in Nat /\ gas - NativeGas <= gas
    BY <1>1 DEF NativeGas
  <2> QED BY <2>1, <2>2, ReturnsAtOnce
<1>2. CASE addr = Precompiled /\ ~(gas >= NativeGas)
  <2> DEFINE e == RevertToSnapshot(d, Snapshot(db))
  <2>1. RunCode(d, kind, self, addr, gas) = Returns(e, 0, "ErrOutOfGas")
    BY <1>2 DEF RunCode, RunPrecompiledContract
  <2>2. Snapshot(db) = d.SnapShotNum /\ StateOK(d) /\ d.SnapShotNum \in Nat
    BY DEF KeepsState, Snapshot, StateOK
  <2>3. e.StatesHashes = d.StatesHashes
    BY <2>2, RevertToPresent
  <2>4. /\ StateOK(e)
        /\ e.SnapShotNum = d.SnapShotNum
        /\ e.HeightToSnapShotNum = d.HeightToSnapShotNum
        /\ e.Tokens = d.Tokens
        /\ e.Codes = d.Codes /\ e.Nonces = d.Nonces
    BY <2>2, RevertGoesBack
  <2> HIDE DEF e
  <2>5. KeepsState(e) /\ KeepsCode(e)
    BY <2>3, <2>4 DEF KeepsState, KeepsCode
  <2> QED BY <2>1, <2>5, ReturnsAtOnce
<1>3. CASE addr # Precompiled /\ addr \notin d.Codes
  <2>1. RunCode(d, kind, self, addr, gas) = Returns(d, gas, "nil")
    BY <1>3 DEF RunCode
  <2> QED BY <2>1, ReturnsAll
<1>4. CASE addr # Precompiled /\ addr \in d.Codes
  <2>1. RunCode(d, kind, self, addr, gas) = Runs(d, kind, self, gas, Snapshot(db))
    BY <1>4 DEF RunCode
  <2> QED BY <2>1, RunsItsCode
<1> QED BY <1>1, <1>2, <1>3, <1>4

\* The present state is one that keeps the state, also with one account more.
LEMMA AccountsDoNotMatter ==
  ASSUME MachineOK, NEW addr
  PROVE  /\ KeepsState(db) /\ KeepsCode(db)
         /\ KeepsState(CreateAccount(db, addr)) /\ KeepsCode(CreateAccount(db, addr))
BY DEF MachineOK, StateOK, KeepsState, KeepsCode, CreateAccount

\* Call (evm.go).
LEMMA CallsKeepState ==
  ASSUME MachineOK, NEW kind \in {"call", "dex"}, NEW addr \in Addresses,
         NEW gas \in Nat, NEW value \in BOOLEAN
  PROVE  CallOutcome(Call(kind, addr, gas, value), kind, gas)
<1> DEFINE o == Call(kind, addr, gas, value)
<1>1. \/ o = Returns(db, gas, "ErrDepth")
      \/ o = Returns(db, gas, "nil")
      \/ o = RunCode(CreateAccount(db, addr), kind, addr, addr, gas)
  BY DEF Call
<1>2. kind \in Kinds
  BY DEF Kinds
<1>3. CallOutcome(Returns(db, gas, "ErrDepth"), kind, gas)
  BY AccountsDoNotMatter, ReturnsAll
<1>4. CallOutcome(Returns(db, gas, "nil"), kind, gas)
  BY AccountsDoNotMatter, ReturnsAll
<1>5. CallOutcome(RunCode(CreateAccount(db, addr), kind, addr, addr, gas), kind, gas)
  BY <1>2, AccountsDoNotMatter, RunsCode
<1> QED BY <1>1, <1>3, <1>4, <1>5

\* DelegateCall and StaticCall (evm.go).
LEMMA OtherCallsKeepState ==
  ASSUME MachineOK, NEW self \in Addresses, NEW addr \in Addresses, NEW gas \in Nat
  PROVE  /\ CallOutcome(DelegateCall(self, addr, gas), "delegate", gas)
         /\ CallOutcome(StaticCall(addr, gas), "static", gas)
<1>1. "delegate" \in Kinds /\ "static" \in Kinds
  BY DEF Kinds
<1>2. /\ CallOutcome(Returns(db, gas, "ErrDepth"), "delegate", gas)
      /\ CallOutcome(Returns(db, gas, "ErrDepth"), "static", gas)
  BY AccountsDoNotMatter, ReturnsAll
<1>3. /\ CallOutcome(RunCode(db, "delegate", self, addr, gas), "delegate", gas)
      /\ CallOutcome(RunCode(db, "static", addr, addr, gas), "static", gas)
  BY <1>1, AccountsDoNotMatter, RunsCode
<1> QED BY <1>2, <1>3 DEF DelegateCall, StaticCall

\* create (evm.go): only nonces and codes change.
LEMMA CreationsKeepState ==
  ASSUME MachineOK, NEW kind \in Creations, NEW caller, NEW addr \in Contracts,
         NEW gas \in Nat, NEW size
  PROVE  CallOutcome(create(kind, caller, addr, gas, size), kind, gas)
<1> DEFINE d == SetNonce(db, caller)
           e == CreateAccount(d, addr)
           o == create(kind, caller, addr, gas, size)
<1>1. \/ o = Returns(db, gas, "ErrDepth")
      \/ o = Returns(d, 0, "ErrContractAddressCollision")
      \/ o = Returns(SetCode(e, addr, 0), gas, "nil")
      \/ o = Runs(e, kind, addr, gas, Snapshot(db))
  BY DEF create
<1>2. KeepsState(db) /\ KeepsState(d)
  BY DEF MachineOK, StateOK, KeepsState, SetNonce
<1>3. KeepsState(e)
  BY <1>2 DEF StateOK, KeepsState, CreateAccount
<1>4. KeepsState(SetCode(e, addr, 0))
  BY <1>3 DEF StateOK, KeepsState, SetCode
<1>5. kind \in Kinds /\ addr \in Addresses
  BY DEF Kinds, Creations, Addresses
<1> HIDE DEF o, d, e
<1>6. CallOutcome(o, kind, gas)
  BY <1>1, <1>2, <1>3, <1>4, <1>5, ReturnsAtOnce, RunsItsCode
<1> QED BY <1>6 DEF o

-----------------------------------------------------------------------------
(***************************************************************************)
(* The ends of calls.                                                      *)
(***************************************************************************)

\* The end of Call, DelegateCall and StaticCall.
LEMMA CallsReturn ==
  ASSUME MachineOK, NEW f \in Frame, NEW e
  PROVE  ReturnOutcome(CallReturns(f, e), f)
<1>0. f.gas \in Nat /\ f.snapshot \in Nat /\ StateOK(db)
  BY DEF Frame, MachineOK
<1>1. CASE e = "nil"
  BY <1>0, <1>1 DEF CallReturns, Returns, ReturnOutcome, KeepsCode
<1>2. CASE e # "nil"
  <2> DEFINE d == RevertToSnapshot(db, f.snapshot)
             o == Returns(d, IF e = "ErrExecutionReverted" THEN f.gas ELSE 0, e)
  <2>1. CallReturns(f, e) = o
    BY <1>2 DEF CallReturns
  <2>2. /\ StateOK(d) /\ d.SnapShotNum = f.snapshot
        /\ d.HeightToSnapShotNum = db.HeightToSnapShotNum
        /\ d.Tokens = db.Tokens
        /\ d.Codes = db.Codes /\ d.Nonces = db.Nonces
    BY <1>0, RevertGoesBack
  <2>3. f.snapshot = db.SnapShotNum => d.StatesHashes = db.StatesHashes
    BY <1>0, RevertToPresent
  <2> HIDE DEF d
  <2>4. o.d = d /\ o.run = FALSE /\ o.gas \in {0, f.gas}
    BY DEF Returns
  <2> HIDE DEF o
  <2>5. ReturnOutcome(o, f)
    BY <1>0, <2>2, <2>3, <2>4 DEF ReturnOutcome, KeepsCode
  <2> QED BY <2>1, <2>5
<1> QED BY <1>1, <1>2

\* The end of create.
LEMMA CreationsReturn ==
  ASSUME MachineOK, NEW f \in Frame, f.kind \in Creations, NEW e, NEW size \in Nat
  PROVE  ReturnOutcome(createReturns(f, e, size), f)
<1>0. f.gas \in Nat /\ StateOK(db)
  BY DEF Frame, MachineOK
<1>1. CASE e = "nil" /\ f.gas >= size * CreateDataGas
  <2> DEFINE d == SetCode(db, f.self, size)
  <2>1. createReturns(f, e, size) = Returns(d, f.gas - size * CreateDataGas, e)
    BY <1>0, <1>1 DEF createReturns, CreateDataGas
  <2>2. size * CreateDataGas = size
    BY DEF CreateDataGas
  <2>3. /\ StateOK(d) /\ d.SnapShotNum = db.SnapShotNum /\ d.StatesHashes = db.StatesHashes
        /\ d.HeightToSnapShotNum = db.HeightToSnapShotNum /\ d.Tokens = db.Tokens
    BY <1>0 DEF SetCode, StateOK
  <2> HIDE DEF d
  <2> QED BY <1>0, <1>1, <2>1, <2>2, <2>3 DEF Returns, ReturnOutcome
<1>2. CASE e = "nil" /\ ~(f.gas >= size * CreateDataGas)
  <2>1. createReturns(f, e, size) = Returns(db, f.gas, "ErrCodeStoreOutOfGas")
    BY <1>0, <1>2 DEF createReturns, CreateDataGas
  <2> QED BY <1>0, <2>1 DEF Returns, ReturnOutcome
<1>3. CASE e # "nil"
  <2>1. createReturns(f, e, size) = CallReturns(f, e)
    BY <1>3 DEF createReturns
  <2> QED BY <2>1, CallsReturn
<1> QED BY <1>1, <1>2, <1>3

-----------------------------------------------------------------------------
(***************************************************************************)
(* Frames.                                                                 *)
(***************************************************************************)

\* Two stacks of frames that differ in gas only.
SameFrames(fs, gs) ==
  /\ Len(fs) = Len(gs)
  /\ \A i \in 1..Len(fs) : /\ fs[i].kind = gs[i].kind
                           /\ fs[i].self = gs[i].self
                           /\ fs[i].snapshot = gs[i].snapshot
                           /\ fs[i].resets = gs[i].resets

\* The stack with the gas of its last frame changed.
WithGas(fs, g) == [i \in 1..Len(fs) |-> IF i = Len(fs) THEN [fs[i] EXCEPT !.gas = g] ELSE fs[i]]

\* It is the same stack otherwise.
LEMMA GasOnly ==
  ASSUME NEW fs \in Seq(Frame), NEW g \in Nat
  PROVE  WithGas(fs, g) \in Seq(Frame) /\ SameFrames(WithGas(fs, g), fs)
<1> DEFINE gs == WithGas(fs, g)
<1>1. ASSUME NEW i \in 1..Len(fs)
      PROVE  /\ gs[i] \in Frame
             /\ gs[i].kind = fs[i].kind /\ gs[i].self = fs[i].self
             /\ gs[i].snapshot = fs[i].snapshot /\ gs[i].resets = fs[i].resets
  <2>1. fs[i] \in Frame
    OBVIOUS
  <2>2. gs[i] = fs[i] \/ gs[i] = [fs[i] EXCEPT !.gas = g]
    BY DEF WithGas
  <2>3. LET f == [fs[i] EXCEPT !.gas = g]
        IN  /\ f \in Frame
            /\ f.kind = fs[i].kind /\ f.self = fs[i].self
            /\ f.snapshot = fs[i].snapshot /\ f.resets = fs[i].resets
    BY <2>1 DEF Frame
  <2> QED BY <2>1, <2>2, <2>3
<1>2. Len(fs) \in Nat /\ gs \in [1..Len(fs) -> Frame]
  BY <1>1 DEF WithGas
<1>3. gs \in Seq(Frame) /\ Len(gs) = Len(fs)
  BY <1>2
<1> QED BY <1>1, <1>3 DEF SameFrames

\* A frame on top of a stack.
LEMMA Pushing ==
  ASSUME NEW fs \in Seq(Frame), NEW f \in Frame
  PROVE  /\ Append(fs, f) \in Seq(Frame)
         /\ Append(fs, f) \in [1..(Len(fs) + 1) -> Frame]
         /\ Len(Append(fs, f)) = Len(fs) + 1
         /\ \A i \in 1..Len(fs) : Append(fs, f)[i] = fs[i]
         /\ Append(fs, f)[Len(fs) + 1] = f
<1> DEFINE s == Append(fs, f)
<1>1. /\ s \in Seq(Frame) /\ Len(s) = Len(fs) + 1
      /\ \A i \in 1..Len(fs) : s[i] = fs[i]
      /\ s[Len(fs) + 1] = f
  BY AppendProperties
<1> HIDE DEF s
<1>2. s \in [1..Len(s) -> Frame]
  BY <1>1, LenProperties
<1> QED BY <1>1, <1>2 DEF s

\* The stack without its top frame.
LEMMA Popping ==
  ASSUME MachineOK, frames # <<>>
  PROVE  /\ Len(frames) \in Nat /\ Len(frames) > 0
         /\ Callers \in Seq(Frame) /\ Len(Callers) = Len(frames) - 1
         /\ \A i \in 1..(Len(frames) - 1) : Callers[i] = frames[i]
<1>1. Len(frames) \in Nat /\ Len(frames) > 0 /\ frames \in [1..Len(frames) -> Frame]
  BY DEF MachineOK
<1> QED BY <1>1 DEF Callers, MachineOK

\* Paying takes gas from the last frame.
LEMMA PayingIsGas ==
  ASSUME MachineOK, frames # <<>>, NEW cost \in Nat, cost <= Top.gas
  PROVE  /\ Top \in Frame /\ Top.gas - cost \in Nat
         /\ Paid(cost) = WithGas(frames, Top.gas - cost)
         /\ Len(frames) \in Nat /\ Len(frames) > 0
<1>1. Len(frames) \in Nat /\ Len(frames) > 0 /\ frames \in [1..Len(frames) -> Frame]
  BY DEF MachineOK
<1>2. Top \in Frame
  BY <1>1 DEF Top
<1>3. Top.gas \in Nat
  BY <1>2 DEF Frame
<1> DEFINE f == [Top EXCEPT !.gas = Top.gas - cost]
           n == Len(frames)
<1>4. /\ Callers \in Seq(Frame) /\ Len(Callers) = n - 1
      /\ \A i \in 1..(n - 1) : Callers[i] = frames[i]
  BY Popping
<1>5. Paid(cost) = Append(Callers, f)
  BY <1>2 DEF Paid, Frame
<1>6. f \in Frame
  BY <1>2, <1>3 DEF Frame
<1> HIDE DEF f
<1>7. /\ Append(Callers, f) \in [1..(n - 1 + 1) -> Frame]
      /\ \A i \in 1..(n - 1) : Append(Callers, f)[i] = frames[i]
      /\ Append(Callers, f)[n - 1 + 1] = f
  BY <1>4, <1>6, Pushing
<1>8. WithGas(frames, Top.gas - cost) = [i \in 1..n |-> IF i = n THEN f ELSE frames[i]]
  <2>1. ASSUME NEW i \in 1..n
        PROVE  (IF i = Len(frames) THEN [frames[i] EXCEPT !.gas = Top.gas - cost] ELSE frames[i])
                 = IF i = n THEN f ELSE frames[i]
    BY DEF Top, f
  <2> QED BY <2>1 DEF WithGas
<1> DEFINE s == Append(Callers, f)
<1>9. n \in Nat
  BY <1>1
<1> HIDE DEF n, s
<1>10. s = [i \in 1..n |-> IF i = n THEN f ELSE frames[i]]
  <2>1. n - 1 + 1 = n /\ \A i \in 1..n : i = n \/ i \in 1..(n - 1)
    BY <1>9
  <2>2. s = [i \in 1..n |-> s[i]]
    BY <1>7, <2>1 DEF s
  <2>3. ASSUME NEW i \in 1..n PROVE s[i] = IF i = n THEN f ELSE frames[i]
    BY <1>7, <2>1 DEF s
  <2>4. [i \in 1..n |-> s[i]] = [i \in 1..n |-> IF i = n THEN f ELSE frames[i]]
    BY <2>3
  <2> QED BY <2>2, <2>4, Zenon, SMTT(20)
<1>11. Paid(cost) = WithGas(frames, Top.gas - cost)
  BY <1>5, <1>8, <1>10, Zenon, SMTT(20) DEF s
<1>12. Top.gas - cost \in Nat
  BY <1>3
<1> QED BY <1>1, <1>2, <1>11, <1>12, Zenon, SMTT(20)

-----------------------------------------------------------------------------
(***************************************************************************)
(* The inductive invariants.                                               *)
(***************************************************************************)

\* The frame that set the flag is the only one that resets it, is the first
\* static one, and nothing above it creates contracts; since it was entered
\* nothing was written, so that all snapshots from it on are the present one.
SetsFlag(fs, i, sn) ==
  /\ fs[i].kind = "static" /\ fs[i].resets
  /\ \A j \in 1..Len(fs) :
       /\ j < i => fs[j].kind # "static" /\ ~fs[j].resets
       /\ j > i => ~fs[j].resets /\ fs[j].kind \notin Creations
       /\ j >= i => fs[j].snapshot = sn

StaticOK(fs, ro, sn) ==
  /\ ro => \E i \in 1..Len(fs) : SetsFlag(fs, i, sn)
  /\ ~ro => \A j \in 1..Len(fs) : fs[j].kind # "static" /\ ~fs[j].resets

\* The numbers of the heights of the chain grow with the height and are no
\* larger than the number of the present state and those that frames go back to.
HeightsOK(fs, d, h) ==
  LET n == d.HeightToSnapShotNum
  IN  /\ DOMAIN n \subseteq Nat \ {0}
      /\ \A g \in DOMAIN n : n[g] \in Nat
      /\ 1..h \subseteq DOMAIN n
      /\ \A g, k \in 1..h : g <= k => n[g] <= n[k]
      /\ \A g \in 1..h : n[g] <= d.SnapShotNum
      /\ \A g \in 1..h, i \in 1..Len(fs) : n[g] <= fs[i].snapshot

EVMInv ==
  /\ MachineOK
  /\ StaticOK(frames, readOnly, db.SnapShotNum)
  /\ HeightsOK(frames, db, height)

\* Neither looks at gas.
LEMMA GasDoesNotMatter ==
  ASSUME NEW fs, NEW gs, SameFrames(fs, gs), NEW ro, NEW sn, NEW d, NEW h
  PROVE  /\ StaticOK(gs, ro, sn) => StaticOK(fs, ro, sn)
         /\ HeightsOK(gs, d, h) => HeightsOK(fs, d, h)
<1>1. ASSUME NEW i \in 1..Len(gs), SetsFlag(gs, i, sn) PROVE SetsFlag(fs, i, sn)
  BY <1>1 DEF SameFrames, SetsFlag
<1>2. StaticOK(gs, ro, sn) => StaticOK(fs, ro, sn)
  BY <1>1 DEF SameFrames, StaticOK
<1>3. HeightsOK(gs, d, h) => HeightsOK(fs, d, h)
  BY DEF SameFrames, HeightsOK
<1> QED BY <1>2, <1>3

\* A frame that runs keeps the invariant: it sets the flag if it is static and
\* nobody has, and creates contracts only if nobody has.
LEMMA PushKeeps ==
  ASSUME NEW fs \in Seq(Frame), NEW f \in Frame, NEW ro \in BOOLEAN, NEW sn \in Nat,
         StaticOK(fs, ro, sn),
         f.snapshot = sn, f.resets = (f.kind = "static" /\ ~ro),
         ro => f.kind \notin Creations
  PROVE  StaticOK(Append(fs, f), ro \/ f.kind = "static", sn)
<1> DEFINE gs == Append(fs, f)
           n == Len(fs)
<1>1. /\ gs \in Seq(Frame) /\ Len(gs) = n + 1 /\ n \in Nat
      /\ \A i \in 1..n : gs[i] = fs[i]
      /\ gs[n + 1] = f
  BY Pushing
<1> HIDE DEF gs
<1>0. (ro => ~f.resets) /\ (~ro /\ f.kind = "static" => f.resets) /\ (f.kind # "static" => ~f.resets)
  BY Zenon, SMTT(20)
<1>2. CASE ro
  <2>1. PICK i \in 1..n : SetsFlag(fs, i, sn)
    BY <1>2 DEF StaticOK
  <2>2. gs[i] = fs[i] /\ i \in 1..(n + 1) /\ n + 1 > i
    BY <1>1
  <2>3. ASSUME NEW j \in 1..(n + 1)
        PROVE  /\ j < i => gs[j].kind # "static" /\ ~gs[j].resets
               /\ j > i => ~gs[j].resets /\ gs[j].kind \notin Creations
               /\ j >= i => gs[j].snapshot = sn
    <3>1. CASE j = n + 1
      BY <1>0, <1>1, <1>2, <2>2, <3>1
    <3>2. CASE j # n + 1
      BY <1>1, <2>1, <3>2 DEF SetsFlag
    <3> QED BY <3>1, <3>2
  <2>4. SetsFlag(gs, i, sn)
    BY <1>1, <2>1, <2>2, <2>3 DEF SetsFlag
  <2> QED BY <1>1, <1>2, <2>2, <2>4 DEF StaticOK, gs
<1>3. CASE ~ro /\ f.kind = "static"
  <2>1. \A j \in 1..n : gs[j].kind # "static" /\ ~gs[j].resets
    BY <1>1, <1>3 DEF StaticOK
  <2>2. SetsFlag(gs, n + 1, sn)
    BY <1>0, <1>1, <1>3, <2>1 DEF SetsFlag
  <2> QED BY <1>1, <1>3, <2>2 DEF StaticOK, gs
<1>4. CASE ~ro /\ f.kind # "static"
  BY <1>1, <1>4 DEF StaticOK, gs
<1> QED BY <1>2, <1>3, <1>4

\* So does one that ends.
LEMMA PopKeeps ==
  ASSUME MachineOK, frames # <<>>, NEW sn,
         StaticOK(frames, readOnly, db.SnapShotNum), readOnly => sn = db.SnapShotNum
  PROVE  StaticOK(Callers, readOnly /\ ~Top.resets, sn)
<1> DEFINE n == Len(frames)
<1>1. /\ n \in Nat /\ n > 0 /\ Len(Callers) = n - 1
      /\ \A i \in 1..(n - 1) : Callers[i] = frames[i]
  BY Popping
<1>2. CASE ~readOnly
  BY <1>1, <1>2 DEF StaticOK
<1>3. CASE readOnly
  <2>1. PICK i \in 1..n : SetsFlag(frames, i, db.SnapShotNum)
    BY <1>3 DEF StaticOK
  <2>2. CASE i = n
    <3>1. Top.resets /\ \A j \in 1..(n - 1) : frames[j].kind # "static" /\ ~frames[j].resets
      BY <1>1, <2>1, <2>2 DEF Top, SetsFlag
    <3> QED BY <1>1, <3>1 DEF StaticOK
  <2>3. CASE i # n
    <3>1. i \in 1..(n - 1) /\ ~Top.resets
      BY <1>1, <2>1, <2>3 DEF Top, SetsFlag
    <3>2. SetsFlag(Callers, i, sn)
      BY <1>1, <1>3, <2>1, <3>1 DEF SetsFlag
    <3> QED BY <1>1, <1>3, <3>1, <3>2 DEF StaticOK
  <2> QED BY <2>2, <2>3
<1> QED BY <1>2, <1>3 DEF MachineOK

-----------------------------------------------------------------------------
(***************************************************************************)
(* Entering and leaving calls.                                             *)
(***************************************************************************)

\* The stack after a call has given gas back to its last frame.
GivenBack(fs, g) ==
  [i \in DOMAIN fs |-> IF i = Len(fs) THEN [fs[i] EXCEPT !.gas = @ + g] ELSE fs[i]]

\* It is the same stack otherwise.
LEMMA GivingBackIsGas ==
  ASSUME NEW fs \in Seq(Frame), NEW g \in Nat
  PROVE  /\ GivenBack(fs, g) \in Seq(Frame)
         /\ SameFrames(GivenBack(fs, g), fs)
         /\ fs # <<>> => /\ fs[Len(fs)] \in Frame /\ fs[Len(fs)].gas + g \in Nat
                         /\ GivenBack(fs, g) = WithGas(fs, fs[Len(fs)].gas + g)
<1>1. CASE fs = <<>>
  <2>1. GivenBack(fs, g) = <<>>
    BY <1>1 DEF GivenBack
  <2> QED BY <1>1, <2>1 DEF SameFrames
<1>2. CASE fs # <<>>
  <2> DEFINE n == Len(fs)
             f == fs[n]
  <2>1. n \in 1..n /\ DOMAIN fs = 1..n
    BY <1>2
  <2>2. f \in Frame
    BY <2>1
  <2>3. f.gas \in Nat
    BY <2>2 DEF Frame
  <2>4. f.gas + g \in Nat
    BY <2>3
  <2>5. \A i \in 1..n : (IF i = Len(fs) THEN [fs[i] EXCEPT !.gas = fs[i].gas + g] ELSE fs[i])
                        = IF i = Len(fs) THEN [fs[i] EXCEPT !.gas = f.gas + g] ELSE fs[i]
    BY Zenon, SMTT(20)
  <2>6. GivenBack(fs, g)
          = [i \in 1..n |-> IF i = Len(fs) THEN [fs[i] EXCEPT !.gas = fs[i].gas + g] ELSE fs[i]]
    BY <2>1 DEF GivenBack
  <2>7. GivenBack(fs, g) = WithGas(fs, f.gas + g)
    BY <2>5, <2>6 DEF WithGas
  <2> QED BY <2>2, <2>4, <2>7, GasOnly
<1> QED BY <1>1, <1>2

\* What Proceed does to the state and to the frames: a token is registered only
\* when no frame is left.
LEMMA Proceeds ==
  ASSUME NEW o, StateOK(o.d), NEW kind, NEW self, NEW fs, Proceed(o, kind, self, fs)
  PROVE  /\ StateOK(db')
         /\ db'.StatesHashes = o.d.StatesHashes
         /\ db'.SnapShotNum = o.d.SnapShotNum
         /\ db'.HeightToSnapShotNum = o.d.HeightToSnapShotNum
         /\ db'.Codes = o.d.Codes /\ db'.Nonces = o.d.Nonces
         /\ db'.Tokens = o.d.Tokens \/ (~o.run /\ fs = <<>> /\ kind = "deploy")
         /\ frames' = IF o.run THEN Append(fs, o.frame) ELSE GivenBack(fs, o.gas)
         /\ height' = height
<1> DEFINE token == ~o.run /\ fs = <<>> /\ kind = "deploy"
           e == RegisterNewToken(o.d, self)
<1>1. db' = o.d \/ (db' = e /\ token)
  BY DEF Proceed
<1>2. /\ StateOK(e)
      /\ e.StatesHashes = o.d.StatesHashes
      /\ e.SnapShotNum = o.d.SnapShotNum
      /\ e.HeightToSnapShotNum = o.d.HeightToSnapShotNum
      /\ e.Codes = o.d.Codes /\ e.Nonces = o.d.Nonces
  BY DEF RegisterNewToken, StateOK
<1>3. /\ frames' = IF o.run THEN Append(fs, o.frame) ELSE GivenBack(fs, o.gas)
      /\ height' = height
  BY DEF Proceed, GivenBack
<1> HIDE DEF e
<1> QED BY <1>1, <1>2, <1>3

\* No storage, code, nonce or token changes.
NothingWritten ==
  /\ db'.StatesHashes = db.StatesHashes
  /\ db'.Codes = db.Codes
  /\ db'.Nonces = db.Nonces
  /\ db'.Tokens = db.Tokens
  /\ db'.SnapShotNum = db.SnapShotNum

\* A static call runs exactly while the flag is set.
LEMMA FlagMeansStatic ==
  ASSUME EVMInv
  PROVE  /\ Static => readOnly /\ frames # <<>>
         /\ readOnly => Len(frames) >= 1 /\ (Len(frames) = 1 => Top.kind = "static")
         /\ readOnly => Top.kind \notin Creations /\ Top.snapshot = db.SnapShotNum
<1>1. DOMAIN frames = 1..Len(frames) /\ Len(frames) \in Nat
  BY DEF EVMInv, MachineOK
<1>2. Static => readOnly /\ frames # <<>>
  BY <1>1 DEF EVMInv, Static, StaticOK
<1>3. ASSUME readOnly
      PROVE  /\ Len(frames) >= 1 /\ (Len(frames) = 1 => Top.kind = "static")
             /\ Top.kind \notin Creations /\ Top.snapshot = db.SnapShotNum
  <2>1. PICK i \in 1..Len(frames) : SetsFlag(frames, i, db.SnapShotNum)
    BY <1>3 DEF EVMInv, StaticOK
  <2> DEFINE n == Len(frames)
  <2>2. n \in Nat /\ i \in 1..n
    BY <1>1
  <2>3. frames[i].kind \notin Creations /\ frames[i].kind = "static"
    BY <2>1 DEF SetsFlag, Creations
  <2>4. \A j \in 1..n : /\ j > i => frames[j].kind \notin Creations
                        /\ j >= i => frames[j].snapshot = db.SnapShotNum
    BY <2>1 DEF SetsFlag
  <2> HIDE DEF n
  <2>5. n >= 1 /\ (n = 1 => i = n) /\ (i = n \/ n > i) /\ n \in 1..n /\ n >= i
    BY <2>2
  <2>6. frames[n].kind \notin Creations /\ frames[n].snapshot = db.SnapShotNum
    BY <2>3, <2>4, <2>5
  <2>7. n = 1 => frames[n].kind = "static"
    BY <2>3, <2>5
  <2> QED BY <2>5, <2>6, <2>7 DEF Top, n
<1> QED BY <1>2, <1>3

\* Entering a call, from a frame that has paid for it or from an evaluation,
\* keeps the invariant, and writes nothing under a static call.
LEMMA EnterKeeps ==
  ASSUME EVMInv, NEW kind, NEW gas \in Nat, NEW o, CallOutcome(o, kind, gas),
         NEW self, NEW fs \in Seq(Frame), SameFrames(fs, frames),
         readOnly => kind \notin Creations,
         Enter(o, kind, self, fs)
  PROVE  EVMInv' /\ (Static => NothingWritten)
<1>1. MachineOK /\ StateOK(db) /\ StaticOK(frames, readOnly, db.SnapShotNum)
      /\ HeightsOK(frames, db, height) /\ readOnly \in BOOLEAN /\ height \in Nat
      /\ frames \in Seq(Frame) /\ db.SnapShotNum \in Nat
  BY DEF EVMInv, MachineOK, StateOK
<1>2. /\ KeepsState(o.d) /\ StateOK(o.d)
      /\ kind \notin Creations => KeepsCode(o.d)
      /\ o.run \in BOOLEAN
  BY DEF CallOutcome, KeepsState
<1>3. Proceed(o, kind, self, fs) /\ readOnly' = (readOnly \/ (o.run /\ kind = "static"))
  BY DEF Enter
<1>4. /\ StateOK(db')
      /\ db'.StatesHashes = db.StatesHashes
      /\ db'.SnapShotNum = db.SnapShotNum
      /\ db'.HeightToSnapShotNum = db.HeightToSnapShotNum
      /\ db'.Codes = o.d.Codes /\ db'.Nonces = o.d.Nonces
      /\ db'.Tokens = db.Tokens \/ fs = <<>>
      /\ frames' = IF o.run THEN Append(fs, o.frame) ELSE GivenBack(fs, o.gas)
      /\ height' = height
  BY <1>2, <1>3, Proceeds DEF KeepsState
<1>5. Static => NothingWritten
  <2> SUFFICES ASSUME Static PROVE NothingWritten
    OBVIOUS
  <2>1. readOnly /\ frames # <<>>
    BY FlagMeansStatic
  <2>2. fs # <<>>
    BY <2>1, <1>1 DEF SameFrames
  <2>3. KeepsCode(o.d)
    BY <1>2, <2>1
  <2> QED BY <1>4, <2>2, <2>3 DEF NothingWritten, KeepsCode
<1>6. StaticOK(fs, readOnly, db.SnapShotNum) /\ HeightsOK(fs, db, height)
  BY <1>1, GasDoesNotMatter
<1>7. CASE o.run
  <2> DEFINE f == o.frame
  <2>1. /\ f \in Frame /\ f.kind = kind /\ f.snapshot = db.SnapShotNum
        /\ f.resets = (kind = "static" /\ ~readOnly)
    BY <1>7 DEF CallOutcome
  <2> HIDE DEF f
  <2>2. frames' = Append(fs, f)
    BY <1>4, <1>7 DEF f
  <2>3. /\ frames' \in Seq(Frame) /\ Len(frames') = Len(fs) + 1 /\ Len(fs) \in Nat
        /\ \A i \in 1..Len(fs) : frames'[i] = fs[i]
        /\ frames'[Len(fs) + 1] = f
    BY <2>1, <2>2, Pushing
  <2>4. f.resets = (f.kind = "static" /\ ~readOnly)
    BY <2>1, Zenon, SMTT(20)
  <2>5. readOnly => f.kind \notin Creations
    BY <2>1
  <2>6. StaticOK(frames', readOnly \/ f.kind = "static", db.SnapShotNum)
    BY <1>1, <1>6, <2>1, <2>2, <2>4, <2>5, PushKeeps
  <2>7. readOnly' = (readOnly \/ f.kind = "static")
    BY <1>3, <1>7, <2>1, Zenon, SMTT(20)
  <2>8. readOnly' \in BOOLEAN
    BY <2>7, <1>1, Zenon, SMTT(20)
  <2>9. HeightsOK(frames', db', height')
    <3>1. \A g \in 1..height, i \in 1..Len(frames') :
             db.HeightToSnapShotNum[g] <= frames'[i].snapshot
      <4> SUFFICES ASSUME NEW g \in 1..height, NEW i \in 1..Len(frames')
                   PROVE  db.HeightToSnapShotNum[g] <= frames'[i].snapshot
        OBVIOUS
      <4>1. CASE i = Len(fs) + 1
        BY <1>1, <2>1, <2>3, <4>1 DEF HeightsOK
      <4>2. CASE i # Len(fs) + 1
        BY <1>6, <2>3, <4>2, SMTT(20), Zenon DEF HeightsOK
      <4> QED BY <4>1, <4>2
    <3> QED BY <1>1, <1>4, <3>1 DEF HeightsOK
  <2> QED BY <1>1, <1>4, <1>5, <2>3, <2>6, <2>7, <2>8, <2>9 DEF EVMInv, MachineOK
<1>8. CASE ~o.run
  <2>1. o.gas \in Nat
    BY <1>8 DEF CallOutcome
  <2>2. frames' = GivenBack(fs, o.gas)
    BY <1>4, <1>8
  <2>3. frames' \in Seq(Frame) /\ SameFrames(frames', fs)
    BY <2>1, <2>2, GivingBackIsGas
  <2>4. readOnly' = readOnly
    BY <1>1, <1>3, <1>8, Zenon, SMTT(20)
  <2>5. StaticOK(frames', readOnly, db.SnapShotNum) /\ HeightsOK(frames', db, height)
    BY <1>6, <2>3, GasDoesNotMatter
  <2>6. HeightsOK(frames', db', height')
    BY <1>4, <2>5, SMTT(20), Zenon DEF HeightsOK
  <2> QED BY <1>1, <1>4, <1>5, <2>3, <2>4, <2>5, <2>6 DEF EVMInv, MachineOK
<1> QED BY <1>2, <1>7, <1>8

\* f is the top frame but for its gas.
LastOfTop(f) ==
  f \in Frame /\ f.kind = Top.kind /\ f.snapshot = Top.snapshot /\ f.resets = Top.resets

\* The end of the top frame, by whatever instruction or failure, keeps the
\* invariant, and writes nothing under a static call: going back to its snapshot
\* is going back to the present one.
LEMMA LeaveKeeps ==
  ASSUME EVMInv, frames # <<>>, NEW f, LastOfTop(f), NEW e, NEW size \in Nat,
         Leave(f, e, size)
  PROVE  EVMInv' /\ (Static => NothingWritten)
<1> DEFINE o == IF f.kind \in {"deploy", "create"} THEN createReturns(f, e, size)
                ELSE CallReturns(f, e)
           n == Len(frames)
<1>1. MachineOK /\ StateOK(db) /\ StaticOK(frames, readOnly, db.SnapShotNum)
      /\ HeightsOK(frames, db, height) /\ readOnly \in BOOLEAN /\ height \in Nat
      /\ frames \in Seq(Frame) /\ db.SnapShotNum \in Nat
  BY DEF EVMInv, MachineOK, StateOK
<1>2. f \in Frame /\ f.kind = Top.kind /\ f.snapshot = Top.snapshot /\ f.resets = Top.resets
  BY DEF LastOfTop
<1>3. ReturnOutcome(o, f)
  BY <1>1, <1>2, CreationsReturn, CallsReturn DEF Creations
<1>4. Proceed(o, f.kind, f.self, Callers) /\ readOnly' = (readOnly /\ ~f.resets)
  BY DEF Leave, ResetsReadOnly
<1> HIDE DEF o
<1>5. /\ StateOK(o.d) /\ o.run = FALSE /\ o.gas \in Nat
      /\ o.d.SnapShotNum \in {db.SnapShotNum, f.snapshot}
      /\ o.d.HeightToSnapShotNum = db.HeightToSnapShotNum
      /\ o.d.Tokens = db.Tokens
      /\ f.snapshot = db.SnapShotNum => o.d.StatesHashes = db.StatesHashes
      /\ f.kind \notin Creations => KeepsCode(o.d)
  BY <1>3 DEF ReturnOutcome
<1>6. /\ StateOK(db')
      /\ db'.StatesHashes = o.d.StatesHashes
      /\ db'.SnapShotNum = o.d.SnapShotNum
      /\ db'.HeightToSnapShotNum = db.HeightToSnapShotNum
      /\ db'.Codes = o.d.Codes /\ db'.Nonces = o.d.Nonces
      /\ db'.Tokens = db.Tokens \/ f.kind = "deploy"
      /\ frames' = GivenBack(Callers, o.gas)
      /\ height' = height
  BY <1>4, <1>5, Proceeds, SMTT(20), Zenon
<1>7. readOnly => /\ f.kind \notin Creations /\ f.snapshot = db.SnapShotNum
                  /\ db'.SnapShotNum = db.SnapShotNum
  BY <1>2, <1>5, <1>6, FlagMeansStatic
<1>8. Static => NothingWritten
  <2> SUFFICES ASSUME Static PROVE NothingWritten
    OBVIOUS
  <2>1. readOnly
    BY FlagMeansStatic
  <2>2. f.kind # "deploy"
    BY <1>7, <2>1 DEF Creations
  <2> QED BY <1>5, <1>6, <1>7, <2>1, <2>2 DEF NothingWritten, KeepsCode
<1>9. /\ n \in Nat /\ n > 0 /\ Callers \in Seq(Frame) /\ Len(Callers) = n - 1
      /\ \A i \in 1..(n - 1) : Callers[i] = frames[i]
  BY <1>1, Popping
<1>10. frames' \in Seq(Frame) /\ SameFrames(frames', Callers)
  BY <1>5, <1>6, <1>9, GivingBackIsGas
<1>11. StaticOK(Callers, readOnly /\ ~Top.resets, db'.SnapShotNum)
  BY <1>1, <1>7, PopKeeps
<1>12. readOnly' = (readOnly /\ ~Top.resets) /\ readOnly' \in BOOLEAN
  <2>1. readOnly' = (readOnly /\ ~Top.resets)
    BY <1>2, <1>4
  <2> QED BY <2>1, Zenon, SMTT(20)
<1>13. StaticOK(frames', readOnly', db'.SnapShotNum)
  <2>1. StaticOK(Callers, readOnly', db'.SnapShotNum)
    BY <1>11, <1>12, Zenon, SMTT(20)
  <2> QED BY <1>10, <2>1, GasDoesNotMatter
<1>14. HeightsOK(Callers, db', height)
  <2>1. \A g \in 1..height : db.HeightToSnapShotNum[g] <= db'.SnapShotNum
    <3>1. \A g \in 1..height : db.HeightToSnapShotNum[g] <= f.snapshot
      BY <1>1, <1>2, <1>9 DEF HeightsOK, Top
    <3> QED BY <1>1, <1>5, <1>6, <3>1, SMTT(20), Zenon DEF HeightsOK
  <2>2. \A g \in 1..height, i \in 1..(n - 1) : db.HeightToSnapShotNum[g] <= Callers[i].snapshot
    BY <1>1, <1>9 DEF HeightsOK
  <2> QED BY <1>1, <1>6, <1>9, <2>1, <2>2, SMTT(20), Zenon DEF HeightsOK
<1>15. HeightsOK(frames', db', height')
  BY <1>6, <1>10, <1>14, GasDoesNotMatter
<1> QED BY <1>1, <1>6, <1>8, <1>10, <1>12, <1>13, <1>15 DEF EVMInv, MachineOK

-----------------------------------------------------------------------------
(***************************************************************************)
(* Gas.                                                                    *)
(***************************************************************************)

Gases(fs) == [i \in 1..Len(fs) |-> fs[i].gas]

\* The gas of a stack is a sum of naturals.
LEMMA TotalIsSum ==
  ASSUME NEW fs \in Seq(Frame)
  PROVE  /\ TotalGas(fs) = SumFunctionOnSet(Gases(fs), 1..Len(fs))
         /\ TotalGas(fs) \in Nat
         /\ Len(fs) \in Nat /\ IsFiniteSet(1..Len(fs))
         /\ \A i \in 1..Len(fs) : Gases(fs)[i] = fs[i].gas /\ fs[i].gas \in Nat
<1>1. DOMAIN fs = 1..Len(fs) /\ Len(fs) \in Nat
  OBVIOUS
<1>2. DOMAIN Gases(fs) = 1..Len(fs)
  BY DEF Gases
<1>3. TotalGas(fs) = SumFunctionOnSet(Gases(fs), 1..Len(fs))
  BY <1>1, <1>2, Zenon, SMTT(20) DEF TotalGas, SumFunction, Gases
<1>4. IsFiniteSet(1..Len(fs))
  BY <1>1, FS_Interval
<1>5. \A i \in 1..Len(fs) : Gases(fs)[i] = fs[i].gas /\ fs[i].gas \in Nat
  <2> SUFFICES ASSUME NEW i \in 1..Len(fs) PROVE Gases(fs)[i] = fs[i].gas /\ fs[i].gas \in Nat
    OBVIOUS
  <2>1. fs[i] \in Frame
    OBVIOUS
  <2> QED BY <2>1 DEF Gases, Frame
<1> QED BY <1>1, <1>3, <1>4, <1>5, SumNat

\* A frame on top adds its gas.
LEMMA TotalOfPush ==
  ASSUME NEW fs \in Seq(Frame), NEW gs \in Seq(Frame), Len(gs) = Len(fs) + 1,
         \A i \in 1..Len(fs) : gs[i].gas = fs[i].gas
  PROVE  TotalGas(gs) = TotalGas(fs) + gs[Len(gs)].gas
<1> DEFINE n == Len(fs)
           S == 1..(n + 1)
<1>1. /\ TotalGas(fs) = SumFunctionOnSet(Gases(fs), 1..n)
      /\ TotalGas(fs) \in Nat
      /\ n \in Nat /\ IsFiniteSet(1..n)
      /\ \A i \in 1..n : Gases(fs)[i] = fs[i].gas /\ fs[i].gas \in Nat
  BY TotalIsSum
<1>2. /\ TotalGas(gs) = SumFunctionOnSet(Gases(gs), S)
      /\ IsFiniteSet(S)
      /\ \A i \in S : Gases(gs)[i] = gs[i].gas /\ gs[i].gas \in Nat
  BY TotalIsSum
<1>3. n + 1 \in S /\ S \ {n + 1} = 1..n
  BY <1>1
<1> HIDE DEF S, n
<1>4. \A i \in S : Gases(gs)[i] \in Int
  BY <1>2
<1>5. SumFunctionOnSet(Gases(gs), S)
        = Gases(gs)[n + 1] + SumFunctionOnSet(Gases(gs), S \ {n + 1})
  BY <1>2, <1>3, <1>4, SumSplit
<1>6. \A i \in 1..n : Gases(fs)[i] \in Int /\ Gases(gs)[i] = Gases(fs)[i]
  BY <1>1, <1>2, <1>3 DEF n
<1>7. SumFunctionOnSet(Gases(gs), 1..n) = SumFunctionOnSet(Gases(fs), 1..n)
  BY <1>1, <1>6, SumCongruent
<1>8. Gases(gs)[n + 1] = gs[Len(gs)].gas /\ gs[Len(gs)].gas \in Nat
  BY <1>2, <1>3 DEF n
<1>9. TotalGas(gs) = gs[Len(gs)].gas + TotalGas(fs)
  BY <1>1, <1>2, <1>3, <1>5, <1>7, <1>8
<1> QED BY <1>1, <1>8, <1>9

\* Changing the gas of the last frame changes the sum by the difference.
LEMMA TotalOfGas ==
  ASSUME NEW fs \in Seq(Frame), fs # <<>>, NEW g \in Nat
  PROVE  /\ fs[Len(fs)].gas \in Nat
         /\ TotalGas(WithGas(fs, g)) = TotalGas(fs) - fs[Len(fs)].gas + g
<1> DEFINE n == Len(fs)
           S == 1..n
           gs == WithGas(fs, g)
<1>1. gs \in Seq(Frame) /\ Len(gs) = n
  BY GasOnly DEF SameFrames
<1>2. n \in S
  OBVIOUS
<1>3. /\ TotalGas(fs) = SumFunctionOnSet(Gases(fs), S)
      /\ IsFiniteSet(S)
      /\ \A i \in S : Gases(fs)[i] = fs[i].gas /\ fs[i].gas \in Nat
  BY TotalIsSum
<1>4. /\ TotalGas(gs) = SumFunctionOnSet(Gases(gs), S)
      /\ \A i \in S : Gases(gs)[i] = gs[i].gas /\ gs[i].gas \in Nat
  BY <1>1, TotalIsSum
<1>5. \A i \in S \ {n} : gs[i].gas = fs[i].gas
  BY DEF WithGas
<1>6. gs[n].gas = g
  <2>1. fs[n] \in Frame
    BY <1>2
  <2> QED BY <1>2, <2>1 DEF WithGas, Frame
<1> HIDE DEF gs, S, n
<1>7. \A i \in S : Gases(fs)[i] \in Int /\ Gases(gs)[i] \in Int
  BY <1>3, <1>4
<1>8. \A i \in S \ {n} : Gases(gs)[i] = Gases(fs)[i]
  BY <1>3, <1>4, <1>5
<1>9. SumFunctionOnSet(Gases(gs), S)
        = SumFunctionOnSet(Gases(fs), S) - Gases(fs)[n] + Gases(gs)[n]
  BY <1>2, <1>3, <1>7, <1>8, SumUpdate
<1>10. TotalGas(gs) = TotalGas(fs) - fs[n].gas + g /\ fs[n].gas \in Nat
  BY <1>2, <1>3, <1>4, <1>6, <1>9
<1> QED BY <1>10 DEF gs, n

\* The top frame ends as it is.
LEMMA TopEnds ==
  ASSUME EVMInv, Running
  PROVE  /\ LastOfTop(Top) /\ Top \in Frame /\ frames # <<>> /\ Top.gas \in Nat
         /\ Top.self \in Addresses
<1>1. frames # <<>> /\ frames \in Seq(Frame)
  BY DEF EVMInv, MachineOK, Running
<1>2. Top \in Frame
  BY <1>1 DEF Top
<1>3. Top.gas \in Nat /\ Top.self \in Addresses
  BY <1>2 DEF Frame
<1> QED BY <1>1, <1>2, <1>3 DEF LastOfTop

\* The top frame that pays is poorer by the cost.
LEMMA PayingShrinks ==
  ASSUME EVMInv, NEW cost \in Nat, Affords(cost)
  PROVE  /\ Paid(cost) \in Seq(Frame) /\ Paid(cost) # <<>>
         /\ TotalGas(Paid(cost)) = TotalGas(frames) - cost
         /\ TotalGas(Paid(cost)) \in Nat /\ TotalGas(frames) \in Nat
<1>1. MachineOK /\ frames \in Seq(Frame) /\ frames # <<>> /\ Running /\ Top.gas >= cost
  BY DEF EVMInv, MachineOK, Affords, Running
<1>2. Top.gas \in Nat
  BY <1>1, TopEnds
<1>3. /\ Top.gas - cost \in Nat /\ Paid(cost) = WithGas(frames, Top.gas - cost)
      /\ Len(frames) \in Nat /\ Len(frames) > 0
  BY <1>1, <1>2, PayingIsGas
<1>4. Paid(cost) \in Seq(Frame) /\ Len(Paid(cost)) = Len(frames)
  BY <1>1, <1>3, GasOnly DEF SameFrames
<1>5. Paid(cost) # <<>>
  BY <1>3, <1>4
<1>6. TotalGas(Paid(cost)) = TotalGas(frames) - Top.gas + (Top.gas - cost)
  BY <1>1, <1>3, TotalOfGas DEF Top
<1>7. TotalGas(Paid(cost)) \in Nat /\ TotalGas(frames) \in Nat
  BY <1>1, <1>4, TotalIsSum
<1>8. TotalGas(Paid(cost)) = TotalGas(frames) - cost
  BY <1>2, <1>6, <1>7
<1> QED BY <1>4, <1>5, <1>7, <1>8

\* A call that costs more than the gas it passes on makes the stack poorer,
\* whether its code runs or not.
LEMMA CallShrinks ==
  ASSUME EVMInv, NEW kind, NEW gas \in Nat, NEW o, CallOutcome(o, kind, gas),
         NEW self, NEW cost \in Nat, Affords(cost), gas < cost,
         Enter(o, kind, self, Paid(cost))
  PROVE  TotalGas(frames') < TotalGas(frames)
<1> DEFINE fs == Paid(cost)
<1>1. /\ fs \in Seq(Frame) /\ fs # <<>>
      /\ TotalGas(fs) = TotalGas(frames) - cost
      /\ TotalGas(fs) \in Nat /\ TotalGas(frames) \in Nat
  BY PayingShrinks
<1>2. StateOK(o.d) /\ o.run \in BOOLEAN
  BY DEF CallOutcome, KeepsState
<1>3. frames' = IF o.run THEN Append(fs, o.frame) ELSE GivenBack(fs, o.gas)
  BY <1>2, Proceeds DEF Enter
<1> HIDE DEF fs
<1>4. CASE o.run
  <2>1. o.frame \in Frame /\ o.frame.gas = gas
    BY <1>4 DEF CallOutcome
  <2>2. /\ frames' \in Seq(Frame) /\ Len(frames') = Len(fs) + 1
        /\ \A i \in 1..Len(fs) : frames'[i] = fs[i]
        /\ frames'[Len(fs) + 1] = o.frame
    BY <1>1, <1>3, <1>4, <2>1, Pushing
  <2>3. TotalGas(frames') = TotalGas(fs) + frames'[Len(frames')].gas
    BY <1>1, <2>2, TotalOfPush
  <2>4. TotalGas(frames') = TotalGas(fs) + gas
    BY <2>1, <2>2, <2>3
  <2> QED BY <1>1, <2>4
<1>5. CASE ~o.run
  <2>1. o.gas \in Nat /\ o.gas <= gas
    BY <1>5 DEF CallOutcome
  <2> DEFINE f == fs[Len(fs)]
  <2>2. f.gas + o.gas \in Nat /\ frames' = WithGas(fs, f.gas + o.gas)
    BY <1>1, <1>3, <1>5, <2>1, GivingBackIsGas
  <2>3. TotalGas(frames') = TotalGas(fs) - f.gas + (f.gas + o.gas) /\ f.gas \in Nat
    BY <1>1, <2>2, TotalOfGas
  <2> HIDE DEF f
  <2> QED BY <1>1, <2>1, <2>3
<1> QED BY <1>2, <1>4, <1>5

\* The end of a call gives back no more than its frame had.
LEMMA LeaveShrinks ==
  ASSUME EVMInv, frames # <<>>, NEW f, LastOfTop(f), f.gas <= Top.gas,
         NEW e, NEW size \in Nat, Leave(f, e, size), frames' # <<>>
  PROVE  TotalGas(frames') <= TotalGas(frames) /\ Len(frames') < Len(frames)
<1> DEFINE o == IF f.kind \in {"deploy", "create"} THEN createReturns(f, e, size)
                ELSE CallReturns(f, e)
<1>1. MachineOK /\ frames \in Seq(Frame) /\ f \in Frame
  BY DEF EVMInv, MachineOK, LastOfTop
<1>2. ReturnOutcome(o, f)
  BY <1>1, CreationsReturn, CallsReturn DEF Creations
<1>3. Proceed(o, f.kind, f.self, Callers)
  BY DEF Leave
<1> HIDE DEF o
<1>4. StateOK(o.d) /\ o.run = FALSE /\ o.gas \in Nat /\ o.gas <= f.gas /\ f.gas \in Nat
  BY <1>1, <1>2 DEF ReturnOutcome, Frame
<1>5. frames' = GivenBack(Callers, o.gas)
  BY <1>3, <1>4, Proceeds
<1>6. /\ Len(frames) \in Nat /\ Len(frames) > 0
      /\ Callers \in Seq(Frame) /\ Len(Callers) = Len(frames) - 1
      /\ \A i \in 1..(Len(frames) - 1) : Callers[i] = frames[i]
  BY <1>1, Popping
<1>7. frames' \in Seq(Frame) /\ Len(frames') = Len(Callers)
  BY <1>4, <1>5, <1>6, GivingBackIsGas DEF SameFrames
<1>8. Callers # <<>>
  BY <1>6, <1>7
<1> DEFINE g == Callers[Len(Callers)]
<1>9. g.gas + o.gas \in Nat /\ frames' = WithGas(Callers, g.gas + o.gas)
  BY <1>4, <1>5, <1>6, <1>8, GivingBackIsGas
<1>10. TotalGas(frames') = TotalGas(Callers) - g.gas + (g.gas + o.gas) /\ g.gas \in Nat
  BY <1>6, <1>8, <1>9, TotalOfGas
<1>11. TotalGas(frames) = TotalGas(Callers) + Top.gas
  <2>1. Len(frames) = Len(Callers) + 1 /\ \A i \in 1..Len(Callers) : frames[i].gas = Callers[i].gas
    BY <1>6
  <2> QED BY <1>1, <1>6, <2>1, TotalOfPush DEF Top
<1>12. TotalGas(Callers) \in Nat /\ Top.gas \in Nat
  <2>1. TotalGas(Callers) \in Nat
    BY <1>6, TotalIsSum
  <2>2. Top \in Frame
    BY <1>1, <1>6 DEF Top
  <2> QED BY <2>1, <2>2 DEF Frame
<1> DEFINE before == TotalGas(frames)
           after == TotalGas(frames')
           below == TotalGas(Callers)
           mine == Top.gas
           back == o.gas
           theirs == g.gas
<1>13. /\ after = below - theirs + (theirs + back) /\ before = below + mine
       /\ theirs \in Nat /\ below \in Nat /\ mine \in Nat /\ back \in Nat /\ back <= mine
  <2>1. o.gas <= Top.gas
    <3> DEFINE x == f.gas
    <3> HIDE DEF x
    <3>1. o.gas <= x /\ x <= Top.gas /\ x \in Nat /\ o.gas \in Nat /\ Top.gas \in Nat
      BY <1>4, <1>12 DEF x
    <3> QED BY <3>1
  <2> QED BY <1>4, <1>10, <1>11, <1>12, <2>1
<1> HIDE DEF before, after, below, mine, back, theirs
<1>14. after <= before
  BY <1>13
<1>15. Len(frames') < Len(frames)
  BY <1>6, <1>7
<1> QED BY <1>14, <1>15 DEF after, before

\* The gas of all frames falls, or a frame ends and it does not rise.
GasFalls ==
  frames # <<>> /\ frames' # <<>> =>
    \/ TotalGas(frames') < TotalGas(frames)
    \/ TotalGas(frames') = TotalGas(frames) /\ Len(frames') < Len(frames)

\* What every instruction has to do.
StepKeeps == EVMInv' /\ (Static => NothingWritten) /\ GasFalls

-----------------------------------------------------------------------------
(***************************************************************************)
(* The instructions.                                                       *)
(***************************************************************************)

\* An instruction that pays and goes on, and changes no state.
LEMMA ContinueKeeps ==
  ASSUME EVMInv, NEW cost \in Nat, cost > 0, Continue(cost), UNCHANGED db
  PROVE  StepKeeps
<1>1. /\ frames # <<>> /\ cost <= Top.gas /\ frames' = Paid(cost)
      /\ readOnly' = readOnly /\ height' = height /\ db' = db /\ MachineOK
  BY DEF Continue, Affords, Running, EVMInv, MachineOK, Top, Frame
<1>2. frames \in Seq(Frame)
  BY <1>1 DEF MachineOK
<1>3. frames' \in Seq(Frame) /\ SameFrames(frames', frames)
  BY <1>1, <1>2, PayingIsGas, GasOnly
<1>4. StaticOK(frames', readOnly, db.SnapShotNum) /\ HeightsOK(frames', db, height)
  BY <1>3, GasDoesNotMatter DEF EVMInv
<1>5. GasFalls
  BY <1>1, PayingShrinks DEF Continue, GasFalls
<1> QED BY <1>1, <1>3, <1>4, <1>5 DEF StepKeeps, EVMInv, MachineOK, NothingWritten

\* A write to storage keeps the types, and the next snapshot has the next number.
LEMMA WritesCount ==
  ASSUME StateOK(db), NEW a, NEW h, NEW h2 \in Hashes
  PROVE  LET d == SetState(db, a, h, h2)
         IN  /\ StateOK(d)
             /\ d.SnapShotNum = db.SnapShotNum + 1
             /\ d.HeightToSnapShotNum = db.HeightToSnapShotNum
<1> DEFINE storage == [db.StatesHashes EXCEPT ![a][h] = h2]
           preimage == Append(db.SnapShotPreimage, <<a, db.StatesHashes[a][h]>>)
           d == [db EXCEPT !.SnapShotNum = db.SnapShotNum + 1,
                           !.SnapShotPreimage = preimage,
                           !.StatesHashes = storage]
<1>1. SetState(db, a, h, h2) = d
  BY DEF SetState, StateOK
<1>2. storage \in Storage
  BY DEF Storage, StateOK
<1> HIDE DEF storage, preimage
<1> QED BY <1>1, <1>2 DEF StateOK

\* SSTORE is refused under a static call, and a later snapshot is no earlier.
LEMMA SstoreKeeps ==
  ASSUME EVMInv, NEW h \in Hashes, NEW h2 \in Hashes, opSstore(h, h2)
  PROVE  StepKeeps
<1> DEFINE cost == SstoreGas(h, h2)
<1>1. cost \in Nat /\ cost > 0
  BY DEF SstoreGas, SstoreWarmGas, SstoreChangeGas
<1>2. /\ ~readOnly /\ frames # <<>> /\ cost <= Top.gas /\ frames' = Paid(cost)
      /\ readOnly' = readOnly /\ height' = height /\ db' = SetState(db, Top.self, h, h2)
      /\ MachineOK
  BY <1>1 DEF opSstore, Continue, Affords, Running, EVMInv, MachineOK, Top, Frame
<1> HIDE DEF cost
<1>3. frames \in Seq(Frame) /\ StateOK(db) /\ db.SnapShotNum \in Nat
  BY <1>2 DEF MachineOK, StateOK
<1>4. frames' \in Seq(Frame) /\ SameFrames(frames', frames)
  BY <1>1, <1>2, <1>3, PayingIsGas, GasOnly
<1>5. /\ StateOK(db') /\ db'.SnapShotNum = db.SnapShotNum + 1
      /\ db'.HeightToSnapShotNum = db.HeightToSnapShotNum
  BY <1>2, <1>3, WritesCount
<1>6. StaticOK(frames', readOnly, db.SnapShotNum) /\ HeightsOK(frames', db, height)
  BY <1>4, GasDoesNotMatter DEF EVMInv
<1>7. StaticOK(frames', readOnly', db'.SnapShotNum)
  BY <1>2, <1>6, SMTT(20), Zenon DEF StaticOK
<1>8. HeightsOK(frames', db', height')
  <2>1. \A g \in 1..height : db.HeightToSnapShotNum[g] \in Nat
    BY <1>6 DEF HeightsOK
  <2>2. \A g \in 1..height : db.HeightToSnapShotNum[g] <= db.SnapShotNum + 1
    BY <1>3, <1>6, <2>1 DEF HeightsOK
  <2> QED BY <1>2, <1>5, <1>6, <2>2 DEF HeightsOK
<1>9. ~Static
  BY <1>2, FlagMeansStatic
<1>10. GasFalls
  <2>1. Affords(cost)
    BY DEF opSstore, Continue, cost
  <2> QED BY <1>1, <1>2, <2>1, PayingShrinks DEF GasFalls
<1> QED BY <1>2, <1>4, <1>5, <1>7, <1>8, <1>9, <1>10 DEF StepKeeps, EVMInv, MachineOK

\* A panic drops all frames and the flag with them.
LEMMA PanicKeeps ==
  ASSUME EVMInv, Panic
  PROVE  StepKeeps
<1>1. frames' = <<>> /\ readOnly' = FALSE /\ db' = db /\ height' = height
  BY DEF Panic
<1>2. Len(frames') = 0 /\ frames' \in Seq(Frame)
  BY <1>1
<1>3. StaticOK(frames', readOnly', db'.SnapShotNum)
  BY <1>1, <1>2 DEF StaticOK
<1>4. HeightsOK(frames', db', height')
  BY <1>1, <1>2 DEF HeightsOK, EVMInv
<1> QED BY <1>1, <1>2, <1>3, <1>4 DEF StepKeeps, GasFalls, EVMInv, MachineOK, NothingWritten

\* A call that a frame makes: it pays, and then enters the call.
LEMMA CallKeeps ==
  ASSUME EVMInv, NEW kind, NEW gas \in Nat, NEW o, CallOutcome(o, kind, gas),
         NEW self, NEW cost \in Nat, Affords(cost), gas < cost,
         readOnly => kind \notin Creations,
         Enter(o, kind, self, Paid(cost))
  PROVE  StepKeeps
<1>1. MachineOK /\ frames \in Seq(Frame) /\ frames # <<>> /\ cost <= Top.gas
  BY DEF EVMInv, MachineOK, Affords, Running, Top, Frame
<1>2. Paid(cost) \in Seq(Frame) /\ SameFrames(Paid(cost), frames)
  BY <1>1, PayingIsGas, GasOnly
<1>3. EVMInv' /\ (Static => NothingWritten)
  BY <1>2, EnterKeeps
<1>4. TotalGas(frames') < TotalGas(frames)
  BY CallShrinks
<1> QED BY <1>3, <1>4, SMTT(20), Zenon DEF StepKeeps, GasFalls

\* A frame that ends.
LEMMA LeaveGood ==
  ASSUME EVMInv, frames # <<>>, NEW f, LastOfTop(f), f.gas <= Top.gas,
         NEW e, NEW size \in Nat, Leave(f, e, size)
  PROVE  StepKeeps
<1>1. EVMInv' /\ (Static => NothingWritten)
  BY LeaveKeeps
<1>2. GasFalls
  <2> SUFFICES ASSUME frames' # <<>>
               PROVE  \/ TotalGas(frames') < TotalGas(frames)
                      \/ TotalGas(frames') = TotalGas(frames) /\ Len(frames') < Len(frames)
    BY DEF GasFalls
  <2>1. TotalGas(frames') <= TotalGas(frames) /\ Len(frames') < Len(frames)
    BY LeaveShrinks
  <2>2. TotalGas(frames') \in Nat /\ TotalGas(frames) \in Nat
    BY <1>1, TotalIsSum DEF EVMInv, MachineOK
  <2> QED BY <2>1, <2>2
<1> QED BY <1>1, <1>2 DEF StepKeeps

\* A creation with all but a share of the gas asks for no more than there is.
LEMMA SharesOfGas ==
  ASSUME NEW x \in Nat, NEW r \in Nat \ {0}
  PROVE  x - (x \div r) \in Nat /\ x - (x \div r) <= x
<1>1. x \div r \in Nat /\ r * (x \div r) <= x
  BY Quotient
<1> DEFINE q == x \div r
<1> HIDE DEF q
<1>2. q \in Nat /\ r * q <= x
  BY <1>1 DEF q
<1>3. q <= r * q
  BY <1>2
<1>4. x - q \in Nat /\ x - q <= x
  BY <1>2, <1>3
<1> QED BY <1>4 DEF q

\* The instructions that call, each with what it passes on and what it pays.
LEMMA CallsKeep ==
  ASSUME EVMAssumption, EVMInv, NEW addr \in Addresses, NEW gas \in Requests,
         \/ \E value \in BOOLEAN : opCall(addr, gas, value)
         \/ opCallCode(gas)
         \/ opDelegateCall(addr, gas)
         \/ opStaticCall(addr, gas)
  PROVE  StepKeeps
<1>1. gas \in Nat /\ StepGas + gas \in Nat /\ gas < StepGas + gas /\ MachineOK
  BY DEF EVMAssumption, StepGas, EVMInv
<1>2. ASSUME NEW value \in BOOLEAN, opCall(addr, gas, value)
      PROVE  StepKeeps
  <2> DEFINE given == gas + (IF value THEN CallStipend ELSE 0)
             cost == CallCost(addr, value) + gas
  <2>1. given \in Nat /\ cost \in Nat /\ given < cost
    BY <1>1 DEF CallStipend, CallCost, StepGas, CallValueTransferGas, CallNewAccountGas
  <2>2. CallOutcome(Call("call", addr, given, value), "call", given)
    BY <1>1, <2>1, CallsKeepState
  <2>3. Affords(cost) /\ Enter(Call("call", addr, given, value), "call", addr, Paid(cost))
    BY <1>2 DEF opCall
  <2> HIDE DEF given, cost
  <2> QED BY <2>1, <2>2, <2>3, CallKeeps DEF Creations
<1>3. CASE opCallCode(gas)
  <2>1. CASE Panic
    BY <2>1, PanicKeeps
  <2>2. CASE ~Panic
    <3>1. /\ Affords(StepGas + gas)
          /\ Enter(Returns(db, gas, "ErrDepth"), "callcode", Top.self, Paid(StepGas + gas))
      BY <1>3, <2>2 DEF opCallCode
    <3>2. CallOutcome(Returns(db, gas, "ErrDepth"), "callcode", gas)
      BY <1>1, AccountsDoNotMatter, ReturnsAll
    <3> QED BY <1>1, <3>1, <3>2, CallKeeps DEF Creations
  <2> QED BY <2>1, <2>2
<1>4. CASE opDelegateCall(addr, gas)
  <2>1. /\ Affords(StepGas + gas)
        /\ Enter(DelegateCall(Top.self, addr, gas), "delegate", Top.self, Paid(StepGas + gas))
    BY <1>4 DEF opDelegateCall
  <2>2. Top.self \in Addresses
    BY <2>1, TopEnds DEF Affords
  <2>3. CallOutcome(DelegateCall(Top.self, addr, gas), "delegate", gas)
    BY <1>1, <2>2, OtherCallsKeepState
  <2> QED BY <1>1, <2>1, <2>3, CallKeeps DEF Creations
<1>5. CASE opStaticCall(addr, gas)
  <2>1. /\ Affords(StepGas + gas)
        /\ Enter(StaticCall(addr, gas), "static", addr, Paid(StepGas + gas))
    BY <1>5 DEF opStaticCall
  <2>2. CallOutcome(StaticCall(addr, gas), "static", gas)
    BY <1>1, OtherCallsKeepState
  <2> QED BY <1>1, <2>1, <2>2, CallKeeps DEF Creations
<1> QED BY <1>2, <1>3, <1>4, <1>5

\* The instructions that create, refused under a static call.
LEMMA CreatesKeep ==
  ASSUME EVMAssumption, EVMInv, NEW addr \in Contracts, NEW size \in 0..1,
         opCreate(addr, size) \/ opCreate2(addr, size)
  PROVE  StepKeeps
<1> DEFINE x == Top.gas - CreateGas
           y == x - (x \div RetainedShare)
<1>1. Affords(CreateGas) /\ ~readOnly /\ MachineOK /\ Running
  BY DEF opCreate, opCreate2, EVMInv, Affords
<1>2. Top.gas \in Nat /\ Top.gas >= CreateGas
  BY <1>1, TopEnds DEF Affords
<1>3. x \in Nat /\ x < Top.gas
  BY <1>2 DEF CreateGas
<1>4. CASE opCreate(addr, size)
  <2>1. Enter(create("create", Top.self, addr, x, size), "create", addr, Paid(Top.gas))
    BY <1>4 DEF opCreate
  <2>2. Affords(Top.gas)
    BY <1>1, <1>2 DEF Affords
  <2> HIDE DEF x
  <2>3. CallOutcome(create("create", Top.self, addr, x, size), "create", x)
    BY <1>1, <1>3, CreationsKeepState DEF Creations
  <2> QED BY <1>1, <1>2, <1>3, <2>1, <2>2, <2>3, CallKeeps
<1>5. CASE opCreate2(addr, size)
  <2>1. Enter(create("create", Top.self, addr, y, size), "create", addr, Paid(CreateGas + y))
    BY <1>5 DEF opCreate2
  <2>2. y \in Nat /\ y <= x
    <3> HIDE DEF x
    <3> QED BY <1>3, SharesOfGas DEF EVMAssumption
  <2> HIDE DEF y
  <2>3. Affords(CreateGas + y) /\ CreateGas + y \in Nat /\ y < CreateGas + y
    BY <1>1, <1>2, <2>2 DEF Affords, CreateGas
  <2>4. CallOutcome(create("create", Top.self, addr, y, size), "create", y)
    BY <1>1, <2>2, CreationsKeepState DEF Creations
  <2> QED BY <1>1, <2>1, <2>2, <2>3, <2>4, CallKeeps
<1> QED BY <1>4, <1>5

\* Every instruction.
LEMMA InstructionsKeep ==
  ASSUME EVMAssumption, EVMInv, Instruction
  PROVE  StepKeeps
<1>1. CASE Compute \/ makeLog
  <2>1. Continue(StepGas) /\ UNCHANGED db
    BY <1>1 DEF Compute, makeLog
  <2>2. StepGas \in Nat /\ StepGas > 0
    BY DEF StepGas
  <2> QED BY <2>1, <2>2, ContinueKeeps
<1>2. ASSUME NEW h \in Hashes, NEW h2 \in Hashes, opSstore(h, h2)
      PROVE  StepKeeps
  BY <1>2, SstoreKeeps
<1>3. ASSUME NEW addr \in Addresses, NEW gas \in Requests, NEW value \in BOOLEAN,
             opCall(addr, gas, value)
      PROVE  StepKeeps
  BY <1>3, CallsKeep
<1>4. ASSUME NEW gas \in Requests, opCallCode(gas)
      PROVE  StepKeeps
  <2>1. Precompiled \in Addresses
    BY DEF Addresses
  <2> QED BY <1>4, <2>1, CallsKeep
<1>5. ASSUME NEW addr \in Addresses, NEW gas \in Requests,
             opDelegateCall(addr, gas) \/ opStaticCall(addr, gas)
      PROVE  StepKeeps
  BY <1>5, CallsKeep
<1>6. ASSUME NEW addr \in Contracts, NEW size \in 0..1, opCreate(addr, size) \/ opCreate2(addr, size)
      PROVE  StepKeeps
  BY <1>6, CreatesKeep
<1>7. CASE opRandom
  BY <1>7, PanicKeeps DEF opRandom
<1>8. CASE opSelfdestruct
  <2> DEFINE f == [Top EXCEPT !.gas = @ - StepGas]
  <2>1. Running /\ Top.gas >= StepGas /\ Leave(f, "nil", 0)
    BY <1>8 DEF opSelfdestruct, Affords
  <2>2. Top \in Frame /\ frames # <<>> /\ Top.gas \in Nat
    BY <2>1, TopEnds
  <2>3. Top.gas - StepGas \in Nat
    BY <2>1, <2>2 DEF StepGas
  <2>4. LastOfTop(f)
    BY <2>2, <2>3 DEF LastOfTop, Frame
  <2> HIDE DEF f
  <2>5. 0 \in Nat
    OBVIOUS
  <2>6. f.gas <= Top.gas
    BY <2>2 DEF f, Frame, StepGas
  <2> QED BY <2>1, <2>2, <2>4, <2>5, <2>6, LeaveGood
<1>9. CASE opStop \/ opReturn(1) \/ opRevert \/ Fails
  <2>1. Running /\ \E e \in {"nil", "ErrExecutionReverted", "ErrOutOfGas"}, size \in {0, 1} :
                     Leave(Top, e, size)
    BY <1>9 DEF opStop, opReturn, opRevert, Fails
  <2>2. LastOfTop(Top) /\ frames # <<>> /\ Top.gas <= Top.gas
    BY <2>1, TopEnds
  <2>3. PICK e \in {"nil", "ErrExecutionReverted", "ErrOutOfGas"}, size \in {0, 1} : Leave(Top, e, size)
    BY <2>1
  <2>4. size \in Nat
    OBVIOUS
  <2> QED BY <2>2, <2>3, <2>4, LeaveGood
<1> QED BY <1>1, <1>2, <1>3, <1>4, <1>5, <1>6, <1>7, <1>8, <1>9 DEF Instruction

-----------------------------------------------------------------------------
(***************************************************************************)
(* Evaluations, blocks and heights.                                        *)
(***************************************************************************)

\* An evaluation enters its first call when nothing runs.
LEMMA EvaluationsKeep ==
  ASSUME EVMAssumption, EVMInv,
         \/ \E addr \in Addresses : EvaluateSC(addr)
         \/ \E addr \in Contracts : EvaluateSCDex(addr)
         \/ \E addr \in Contracts : GetViewFunctionReturns(addr)
  PROVE  EVMInv'
<1>1. frames = <<>> /\ MachineOK /\ TxGas \in Nat /\ ViewGas \in Nat
  BY DEF EvaluateSC, EvaluateSCDex, GetViewFunctionReturns, Ready, Idle, EVMInv, EVMAssumption
<1>2. <<>> \in Seq(Frame) /\ SameFrames(<<>>, frames) /\ ~readOnly
  <2>1. <<>> \in Seq(Frame)
    OBVIOUS
  <2>2. SameFrames(<<>>, frames)
    BY <1>1 DEF SameFrames
  <2>3. StaticOK(frames, readOnly, db.SnapShotNum)
    BY Zenon, SMTT(20) DEF EVMInv
  <2>4. 1..Len(frames) = {}
    BY <1>1
  <2>5. ~readOnly
    BY <2>3, <2>4, Zenon, SMTT(20) DEF StaticOK
  <2> QED BY <2>1, <2>2, <2>5, Zenon, SMTT(20)
<1>3. ASSUME NEW addr \in Contracts,
             Enter(create("deploy", Origin, addr, TxGas, 1), "deploy", addr, <<>>)
      PROVE  EVMInv'
  <2>1. CallOutcome(create("deploy", Origin, addr, TxGas, 1), "deploy", TxGas)
    BY <1>1, CreationsKeepState DEF Creations
  <2> QED BY <1>1, <1>2, <1>3, <2>1, EnterKeeps
<1>4. ASSUME NEW addr \in Addresses, NEW kind \in {"call", "dex"},
             Enter(Call(kind, addr, TxGas, FALSE), kind, addr, <<>>)
      PROVE  EVMInv'
  <2>1. CallOutcome(Call(kind, addr, TxGas, FALSE), kind, TxGas)
    BY <1>1, CallsKeepState
  <2> QED BY <1>1, <1>2, <1>4, <2>1, EnterKeeps
<1>5. ASSUME NEW addr \in Contracts, Enter(StaticCall(addr, ViewGas), "static", addr, <<>>)
      PROVE  EVMInv'
  <2>1. CallOutcome(StaticCall(addr, ViewGas), "static", ViewGas)
    BY <1>1, OtherCallsKeepState DEF Addresses
  <2> QED BY <1>1, <1>2, <1>5, <2>1, EnterKeeps
<1>6. Contracts \subseteq Addresses
  BY DEF Addresses
<1>7. CASE \E addr \in Addresses : EvaluateSC(addr)
  BY <1>7, <1>3, <1>4 DEF EvaluateSC
<1>8. CASE \E addr \in Contracts : EvaluateSCDex(addr)
  BY <1>8, <1>4, <1>6 DEF EvaluateSCDex
<1>9. CASE \E addr \in Contracts : GetViewFunctionReturns(addr)
  BY <1>9, <1>5 DEF GetViewFunctionReturns
<1> QED BY <1>7, <1>8, <1>9

\* The number of the next height is the present one.
LEMMA NumberingHeights ==
  ASSUME StateOK(db), NEW h \in Nat, NEW sn
  PROVE  LET d == SetSnapShotNum(db, h, sn)
             n == db.HeightToSnapShotNum
         IN  /\ StateOK(d) /\ d.SnapShotNum = db.SnapShotNum
             /\ DOMAIN d.HeightToSnapShotNum = {h} \cup DOMAIN n
             /\ d.HeightToSnapShotNum[h] = sn
             /\ \A g \in DOMAIN n : g # h => d.HeightToSnapShotNum[g] = n[g]
<1> DEFINE n == db.HeightToSnapShotNum
           m == [g \in {h} \cup DOMAIN n |-> IF g = h THEN sn ELSE n[g]]
           d == [db EXCEPT !.HeightToSnapShotNum = m]
<1>1. SetSnapShotNum(db, h, sn) = d
  BY DEF SetSnapShotNum
<1>2. /\ DOMAIN m = {h} \cup DOMAIN n
      /\ m[h] = sn
      /\ \A g \in DOMAIN n : g # h => m[g] = n[g]
  OBVIOUS
<1> HIDE DEF m
<1>3. StateOK(d) /\ d.SnapShotNum = db.SnapShotNum /\ d.HeightToSnapShotNum = m
  BY DEF StateOK
<1> QED BY <1>1, <1>2, <1>3

\* A block that was evaluated leaves the number for its height, also when it is
\* dropped afterwards (evaluate.go).
LEMMA BlocksKeep ==
  ASSUME EVMInv, EvaluateSmartContracts
  PROVE  EVMInv'
<1>1. /\ frames = <<>> /\ frames' = frames /\ readOnly' = readOnly
      /\ db' = SetSnapShotNum(db, height + 1, db.SnapShotNum)
      /\ height' \in {height, height + 1}
      /\ MachineOK /\ height \in Nat /\ StateOK(db) /\ db.SnapShotNum \in Nat
  BY SMTT(20), Zenon DEF EvaluateSmartContracts, Idle, Snapshot, EVMInv, MachineOK, StateOK
<1> DEFINE n == db.HeightToSnapShotNum
           m == db'.HeightToSnapShotNum
<1>2. /\ StateOK(db') /\ db'.SnapShotNum = db.SnapShotNum
      /\ DOMAIN m = {height + 1} \cup DOMAIN n
      /\ m[height + 1] = db.SnapShotNum
      /\ \A g \in DOMAIN n : g # height + 1 => m[g] = n[g]
  <2>1. height + 1 \in Nat
    BY <1>1
  <2> QED BY <1>1, <2>1, NumberingHeights
<1>3. /\ DOMAIN n \subseteq Nat \ {0}
      /\ \A g \in DOMAIN n : n[g] \in Nat
      /\ 1..height \subseteq DOMAIN n
      /\ \A g, k \in 1..height : g <= k => n[g] <= n[k]
      /\ \A g \in 1..height : n[g] <= db.SnapShotNum
  BY DEF EVMInv, HeightsOK
<1> HIDE DEF m, n
<1>4. \A g \in 1..height : m[g] = n[g]
  BY <1>1, <1>2, <1>3
<1>5. \A g \in DOMAIN m : m[g] \in Nat
  BY <1>1, <1>2, <1>3
<1>6. DOMAIN m \subseteq Nat \ {0}
  BY <1>1, <1>2, <1>3
<1>7. \A g \in 1..(height + 1) : g \in 1..height \/ g = height + 1
  BY <1>1
<1>8. 1..(height + 1) \subseteq DOMAIN m
  BY <1>2, <1>3, <1>7
<1>9. \A g \in 1..(height + 1) : m[g] <= db.SnapShotNum
  BY <1>1, <1>2, <1>3, <1>4, <1>7
<1>10. \A g, k \in 1..(height + 1) : g <= k => m[g] <= m[k]
  <2> SUFFICES ASSUME NEW g \in 1..(height + 1), NEW k \in 1..(height + 1), g <= k
               PROVE  m[g] <= m[k]
    OBVIOUS
  <2>1. CASE k = height + 1
    BY <1>2, <1>9, <2>1
  <2>2. CASE k # height + 1
    <3>1. k \in 1..height /\ g \in 1..height
      BY <1>1, <2>2
    <3> QED BY <1>3, <1>4, <3>1
  <2> QED BY <2>1, <2>2
<1>11. 1..height' \subseteq 1..(height + 1)
  BY <1>1
<1>12. HeightsOK(frames', db', height')
  <2>1. Len(frames') = 0
    BY <1>1
  <2>2. \A i \in 1..Len(frames') : FALSE
    BY <2>1
  <2> QED BY <1>2, <1>5, <1>6, <1>8, <1>9, <1>10, <1>11, <2>2 DEF HeightsOK, m
<1>13. StaticOK(frames', readOnly', db'.SnapShotNum) /\ height' \in Nat
  BY <1>1, <1>2 DEF EVMInv
<1> QED BY <1>1, <1>2, <1>12, <1>13 DEF EVMInv, MachineOK

\* The number that a reset takes for a height is that of the height itself: the
\* largest one up to it.
LEMMA LastNumIsOfHeight ==
  ASSUME EVMInv, NEW h \in Nat, h <= height
  PROVE  /\ LastNum(h) \in Nat
         /\ \A g \in 1..h : db.HeightToSnapShotNum[g] <= LastNum(h)
         /\ h > 0 => LastNum(h) = db.HeightToSnapShotNum[h]
<1> DEFINE n == db.HeightToSnapShotNum
           S == {0} \cup {n[g] : g \in {g \in DOMAIN n : g <= h}}
           top == IF h = 0 THEN 0 ELSE n[h]
<1>1. /\ DOMAIN n \subseteq Nat \ {0}
      /\ \A g \in DOMAIN n : n[g] \in Nat
      /\ 1..height \subseteq DOMAIN n
      /\ \A g, k \in 1..height : g <= k => n[g] <= n[k]
      /\ height \in Nat
  BY DEF EVMInv, HeightsOK, MachineOK
<1> HIDE DEF n
<1>2. h > 0 => h \in 1..height /\ h \in DOMAIN n /\ n[h] \in Nat
  BY <1>1
<1>3. top \in Nat /\ top \in S
  BY <1>2
<1>4. \A x \in S : x \in Nat
  BY <1>1
<1>5. \A g \in DOMAIN n : g <= h => g \in 1..height /\ h > 0 /\ n[g] <= n[h]
  BY <1>1, <1>2
<1>6. \A x \in S : x <= top
  BY <1>2, <1>5
<1>7. LastNum(h) = Max(S)
  BY DEF LastNum, n
<1> HIDE DEF S, top
<1>8. Max(S) = top
  <2>1. \A x \in S : top >= x
    BY <1>3, <1>4, <1>6
  <2>2. Max(S) \in S /\ \A x \in S : Max(S) >= x
    BY <1>3, <2>1 DEF Max
  <2>3. Max(S) \in Nat /\ Max(S) >= top /\ top >= Max(S)
    BY <1>3, <1>4, <2>1, <2>2
  <2> QED BY <1>3, <2>3
<1>9. \A g \in 1..h : g \in DOMAIN n /\ n[g] \in S
  BY <1>1 DEF S
<1>10. \A g \in 1..h : n[g] <= top
  BY <1>6, <1>9
<1>11. h > 0 => top = n[h]
  BY DEF top
<1> QED BY <1>3, <1>7, <1>8, <1>10, <1>11 DEF n

\* Going back to a height goes back to its number (helperReset.go).
LEMMA ResetsKeep ==
  ASSUME EVMInv, NEW h \in 0..(height - 1), RevertVMToBlockHeight(h)
  PROVE  EVMInv'
<1>1. /\ frames = <<>> /\ frames' = frames /\ readOnly' = readOnly
      /\ db' = RevertToSnapshot(db, LastNum(h)) /\ height' = h
      /\ MachineOK /\ height \in Nat /\ StateOK(db)
  BY DEF RevertVMToBlockHeight, Idle, EVMInv, MachineOK
<1>2. h \in Nat /\ h <= height
  BY <1>1
<1>3. LastNum(h) \in Nat /\ \A g \in 1..h : db.HeightToSnapShotNum[g] <= LastNum(h)
  BY <1>2, LastNumIsOfHeight
<1>4. /\ StateOK(db') /\ db'.SnapShotNum = LastNum(h)
      /\ db'.HeightToSnapShotNum = db.HeightToSnapShotNum
  BY <1>1, <1>3, RevertGoesBack
<1>5. Len(frames') = 0 /\ frames' \in Seq(Frame) /\ ~readOnly
  BY <1>1 DEF MachineOK, EVMInv, StaticOK
<1>6. \A i \in 1..Len(frames') : FALSE
  BY <1>5
<1>7. StaticOK(frames', readOnly', db'.SnapShotNum)
  BY <1>1, <1>5, <1>6 DEF StaticOK
<1>8. 1..h \subseteq 1..height
  BY <1>1, <1>2, SMTT(20), Zenon
<1>9. HeightsOK(frames', db', height')
  BY <1>1, <1>3, <1>4, <1>6, <1>8 DEF EVMInv, HeightsOK
<1> QED BY <1>1, <1>2, <1>4, <1>5, <1>7, <1>9 DEF EVMInv, MachineOK

\* The invariant holds at the start and is kept by every step, and no step
\* writes anything under a static call.
LEMMA StepsKeep ==
  ASSUME EVMAssumption
  PROVE  /\ Init => EVMInv
         /\ EVMInv /\ [Next]_vars => EVMInv'
         /\ EVMInv /\ Next => (Static => NothingWritten) /\ GasFalls
<1>1. Init => EVMInv
  <2> SUFFICES ASSUME Init PROVE EVMInv
    OBVIOUS
  <2>1. /\ frames = <<>> /\ Len(frames) = 0 /\ frames \in Seq(Frame)
        /\ readOnly = FALSE /\ height = 0 /\ db = CreateStateDB
    BY DEF Init
  <2>2. /\ StateOK(db) /\ DOMAIN db.HeightToSnapShotNum = {} /\ db.SnapShotNum = 0
    BY <2>1 DEF CreateStateDB, StateOK, Storage, EVMAssumption
  <2>3. StaticOK(frames, readOnly, db.SnapShotNum) /\ HeightsOK(frames, db, height)
    BY <2>1, <2>2 DEF StaticOK, HeightsOK
  <2> QED BY <2>1, <2>2, <2>3 DEF EVMInv, MachineOK
<1>2. EVMInv /\ Next => StepKeeps
  <2> SUFFICES ASSUME EVMInv, Next PROVE StepKeeps
    OBVIOUS
  <2>1. CASE Instruction
    BY <2>1, InstructionsKeep
  <2>2. Idle => ~Static /\ GasFalls
    BY FlagMeansStatic DEF Idle, GasFalls
  <2>3. CASE OpenBlock \/ EvaluateSCForBlockFails
    <3>1. Idle /\ UNCHANGED <<frames, db, readOnly, height>>
      BY <2>3 DEF OpenBlock, EvaluateSCForBlockFails
    <3> QED BY <2>2, <3>1 DEF StepKeeps, EVMInv, MachineOK
  <2>4. CASE \/ \E addr \in Addresses : EvaluateSC(addr)
             \/ \E addr \in Contracts : EvaluateSCDex(addr)
             \/ \E addr \in Contracts : GetViewFunctionReturns(addr)
    <3>1. EVMInv'
      BY <2>4, EvaluationsKeep, SMTT(20), Zenon
    <3>2. Idle
      BY <2>4 DEF EvaluateSC, EvaluateSCDex, GetViewFunctionReturns, Ready
    <3> QED BY <2>2, <3>1, <3>2 DEF StepKeeps
  <2>5. CASE EvaluateSmartContracts
    BY <2>2, <2>5, BlocksKeep DEF EvaluateSmartContracts, StepKeeps
  <2>6. CASE \E h \in 0..(height - 1) : RevertVMToBlockHeight(h)
    BY <2>2, <2>6, ResetsKeep DEF RevertVMToBlockHeight, StepKeeps
  <2> QED BY <2>1, <2>3, <2>4, <2>5, <2>6 DEF Next
<1>3. EVMInv /\ UNCHANGED vars => EVMInv'
  BY DEF vars, EVMInv, MachineOK
<1> QED BY <1>1, <1>2, <1>3 DEF StepKeeps

\* Whatever contracts call, write, create and revert, and whatever blocks are
\* dropped and heights gone back to, the number of each height of the chain is
\* the one RevertVMToBlockHeight looks for.
THEOREM SnapshotsAlwaysFollowHeights == Spec => []SnapshotsFollowHeights
<1>1. Init => EVMInv
  BY ConstantsAssumed, StepsKeep
<1>2. EVMInv /\ [Next]_vars => EVMInv'
  BY ConstantsAssumed, StepsKeep
<1>3. EVMInv => SnapshotsFollowHeights
  BY DEF EVMInv, HeightsOK, SnapshotsFollowHeights, Snapshot
<1> QED BY <1>1, <1>2, <1>3, PTL DEF Spec

\* A static call changes nothing, however deep the calls inside it and whatever
\* returns, reverts or fails in it.
THEOREM StaticCallsKeepState == Spec => StaticKeeps
<1>1. Init => EVMInv
  BY ConstantsAssumed, StepsKeep
<1>2. EVMInv /\ [Next]_vars => EVMInv'
  BY ConstantsAssumed, StepsKeep
<1>3. EVMInv /\ [Next]_vars => [Static => NothingWritten]_vars
  BY ConstantsAssumed, StepsKeep
<1> QED BY <1>1, <1>2, <1>3, PTL DEF Spec, StaticKeeps, NothingWritten

\* The contracts of an evaluation have less gas together after every step that
\* does not end a call, and no more after one that does: whatever they do, every
\* evaluation ends and gives StateMutex back.
THEOREM GasAlwaysShrinks == Spec => GasShrinks
<1>1. Init => EVMInv
  BY ConstantsAssumed, StepsKeep
<1>2. EVMInv /\ [Next]_vars => EVMInv'
  BY ConstantsAssumed, StepsKeep
<1>3. EVMInv /\ [Next]_vars => [GasFalls]_vars
  BY ConstantsAssumed, StepsKeep
<1> QED BY <1>1, <1>2, <1>3, PTL DEF Spec, GasShrinks, GasFalls
=============================================================================
