--------------------------------- MODULE EVM ---------------------------------
(***************************************************************************)
(* The contract machine at work on the node's state: the calls of          *)
(* core/evm/evm.go and the loop of interpreter.go over the state of        *)
(* core/stateDB, run by blocks/evaluate.go for the transactions of a       *)
(* block, for exchange transactions and for views, and reverted by         *)
(* services/helperReset.go.                                                *)
(*                                                                         *)
(* The code of a contract is any sequence of instructions: in each step    *)
(* the top frame executes one that its gas pays for, or fails.  What       *)
(* instructions compute, where they jump and how stack, memory and prices  *)
(* are checked is in the modules Instructions and GasTable; here           *)
(* instructions are told apart by what they do to state and frames, and    *)
(* prices are small numbers in the order of the real ones.  Hashes are     *)
(* small numbers, 0 the empty one; they are keys and values of storage.    *)
(* Of nonces only whether those of contracts are zero matters.             *)
(***************************************************************************)
EXTENDS Integers, Sequences, FiniteSetsExt, Functions

CONSTANTS
    Contracts,        \* addresses that may hold code
    Origin,           \* the sender of transactions
    Precompiled,      \* the address of a native contract
    Hashes,           \* storage keys and values, a set 0..n
    Deployed,         \* the contracts that have code at the start
    CallCreateDepth,  \* params.CallCreateDepth
    TxGas, ViewGas,   \* the gas of a transaction and of a view
    Requests,         \* the gas contracts ask for their callees
    RetainedShare,    \* the caller keeps 1/RetainedShare of its gas, 64 in the code
    MaxWrites,        \* bound on the writes to storage
    MaxEvaluations,   \* bound on the evaluations
    MaxHeight         \* bound on the height of the chain

VARIABLES
    frames,    \* the contracts that run, the callee last
    db,        \* StateAccount
    readOnly,  \* the flag of the interpreter
    block,     \* "none", or "open" while the transactions of a block are run
    height,    \* of the last block of the chain
    evaluations,  \* the number of evaluations begun
    down       \* a panic has ended the process

vars == <<frames, db, readOnly, block, height, evaluations, down>>

\* The empty hash is one, and gas is natural.
EVMAssumption ==
  /\ 0 \in Hashes
  /\ TxGas \in Nat
  /\ ViewGas \in Nat
  /\ Requests \subseteq Nat
  /\ RetainedShare \in Nat \ {0}

ASSUME ConstantsAssumed == EVMAssumption

Addresses == Contracts \cup {Precompiled}

\* Prices, in the order of the real ones.
StepGas == 1
SstoreWarmGas == 1
SstoreChangeGas == 2
CallStipend == 2
CallValueTransferGas == 3
CallNewAccountGas == 2
CreateGas == 2
CreateDataGas == 1
NativeGas == 1

-----------------------------------------------------------------------------
(***************************************************************************)
(* StateAccount (core/stateDB/methods.go).                                 *)
(***************************************************************************)

CreateStateDB ==
    [Accounts            |-> Deployed,
     Codes               |-> Deployed,  \* the addresses with code that is not empty
     Nonces              |-> {},        \* the contracts whose nonce is not zero
     StatesHashes        |-> [a \in Contracts |-> [h \in Hashes |-> 0]],
     Tokens              |-> {},
     SnapShotNum         |-> 0,
     SnapShotPreimage    |-> <<>>,
     HeightToSnapShotNum |-> <<>>]

CreateAccount(d, a) == [d EXCEPT !.Accounts = @ \cup {a}]

RegisterNewToken(d, a) == [d EXCEPT !.Tokens = @ \cup {a}]

SetNonce(d, a) == [d EXCEPT !.Nonces = @ \cup ({a} \cap Contracts)]

SetCode(d, a, size) == [d EXCEPT !.Codes = IF size = 0 THEN @ \ {a} ELSE @ \cup {a}]

Exist(d, a) == a \in d.Accounts

\* The preimage of a write holds the old value, under the account.
SetState(d, a, h, h2) ==
    LET n == d.SnapShotNum + 1
    IN  [d EXCEPT !.SnapShotNum = n,
                  !.SnapShotPreimage = Append(@, <<a, d.StatesHashes[a][h]>>),
                  !.StatesHashes[a][h] = h2]

SetSnapShotNum(d, h, n) ==
    [d EXCEPT !.HeightToSnapShotNum = [g \in {h} \cup DOMAIN @ |-> IF g = h THEN n ELSE @[g]]]

Snapshot(d) == d.SnapShotNum

\* For each preimage after sn, its old value h is taken for the key: the entry
\* of h becomes h, which for the empty hash is the entry deleted.  (The code
\* keeps the preimages after sn; they are overwritten before they are read.)
RevertToSnapshot(d, sn) ==
    LET undone == {d.SnapShotPreimage[s] : s \in (sn + 1)..d.SnapShotNum}
    IN  [d EXCEPT !.StatesHashes = [a \in Contracts |-> [h \in Hashes |->
                                       IF <<a, h>> \in undone THEN h ELSE @[a][h]]],
                  !.SnapShotPreimage = [s \in 1..sn |-> @[s]],
                  !.SnapShotNum = sn]

-----------------------------------------------------------------------------
(***************************************************************************)
(* What evm.go does before and after the interpreter runs a contract.  An  *)
(* outcome holds the state, and either the frame to run or the error and   *)
(* the gas the call returns with at once.                                  *)
(***************************************************************************)

Returns(d, gas, e) == [d |-> d, run |-> FALSE, gas |-> gas, err |-> e]

\* Run: a static call sets the flag unless it is set, and then resets it.
Runs(d, kind, self, gas, sn) ==
    [d |-> d, run |-> TRUE,
     frame |-> [kind |-> kind, self |-> self, gas |-> gas, snapshot |-> sn,
                resets |-> kind = "static" /\ ~readOnly,
                entry |-> db.StatesHashes]]

TooDeep == Len(frames) > CallCreateDepth

RunPrecompiledContract(d, gas) ==
    IF gas >= NativeGas THEN Returns(d, gas - NativeGas, "nil")
    ELSE Returns(RevertToSnapshot(d, Snapshot(db)), 0, "ErrOutOfGas")

RunCode(d, kind, self, addr, gas) ==
    IF addr = Precompiled THEN RunPrecompiledContract(d, gas)
    ELSE IF addr \notin d.Codes THEN Returns(d, gas, "nil")
    ELSE Runs(d, kind, self, gas, Snapshot(db))

Call(kind, addr, gas, value) ==
    CASE TooDeep -> Returns(db, gas, "ErrDepth")
      [] ~TooDeep /\ ~Exist(db, addr) /\ addr # Precompiled /\ ~value -> Returns(db, gas, "nil")
      [] OTHER -> RunCode(CreateAccount(db, addr), kind, addr, addr, gas)

DelegateCall(self, addr, gas) ==
    IF TooDeep THEN Returns(db, gas, "ErrDepth")
    ELSE RunCode(db, "delegate", self, addr, gas)

StaticCall(addr, gas) ==
    IF TooDeep THEN Returns(db, gas, "ErrDepth")
    ELSE RunCode(db, "static", addr, addr, gas)

\* Creation code may be empty: then Run returns at once with no code to store.
create(kind, caller, addr, gas, size) ==
    LET d == SetNonce(db, caller)
    IN  CASE TooDeep -> Returns(db, gas, "ErrDepth")
          [] ~TooDeep /\ (addr \in d.Nonces \/ addr \in d.Codes) ->
                 Returns(d, 0, "ErrContractAddressCollision")
          [] OTHER ->
                 IF size = 0 THEN Returns(SetCode(CreateAccount(d, addr), addr, 0), gas, "nil")
                 ELSE Runs(CreateAccount(d, addr), kind, addr, gas, Snapshot(db))

\* The end of Call, DelegateCall and StaticCall.
CallReturns(f, e) ==
    IF e = "nil" THEN Returns(db, f.gas, e)
    ELSE Returns(RevertToSnapshot(db, f.snapshot),
                 IF e = "ErrExecutionReverted" THEN f.gas ELSE 0, e)

\* The end of create: code that cannot be paid is not stored, and nothing is
\* reverted (the rules are not those of Homestead).
createReturns(f, e, size) ==
    CASE e = "nil" /\ f.gas >= size * CreateDataGas ->
             Returns(SetCode(db, f.self, size), f.gas - size * CreateDataGas, e)
      [] e = "nil" /\ f.gas < size * CreateDataGas ->
             Returns(db, f.gas, "ErrCodeStoreOutOfGas")
      [] OTHER -> CallReturns(f, e)

-----------------------------------------------------------------------------
(***************************************************************************)
(* The frames.                                                             *)
(***************************************************************************)

Top == frames[Len(frames)]

Callers == SubSeq(frames, 1, Len(frames) - 1)

\* The frames after the top one has paid.
Paid(cost) == Append(Callers, [Top EXCEPT !.gas = @ - cost])

\* A call made by the last frame of fs, or by an evaluation, goes on as o says:
\* a new frame runs, or the call returns.  At the end of an evaluation a view
\* leaves the block alone, a transaction that fails ends it, and one that
\* succeeds may fail afterwards (its result is not stored, the coins of an
\* exchange are not moved).  A new contract with the functions of a token is
\* registered.
Proceed(o, kind, self, fs) ==
    LET ended == ~o.run /\ fs = <<>>
        token == ended /\ kind = "deploy" /\ o.err = "nil"
        after == IF o.err = "nil" THEN {"none", "open"} ELSE {"none"}
    IN  /\ frames' = IF o.run THEN Append(fs, o.frame)
                     ELSE [i \in DOMAIN fs |-> IF i = Len(fs) THEN [fs[i] EXCEPT !.gas = @ + o.gas]
                                               ELSE fs[i]]
        /\ db' \in {o.d} \cup (IF token THEN {RegisterNewToken(o.d, self)} ELSE {})
        /\ block' \in IF ended /\ kind # "static" THEN after ELSE {block}
        /\ UNCHANGED <<height, down>>

\* A static call, when its code runs, sets the flag.
Enter(o, kind, self, fs) ==
    /\ Proceed(o, kind, self, fs)
    /\ readOnly' = (readOnly \/ (o.run /\ kind = "static"))
    /\ evaluations' = IF fs = <<>> THEN evaluations + 1 ELSE evaluations

ResetsReadOnly_Always(f) == f.kind = "static"

ResetsReadOnly(f) == f.resets

\* The top frame, f after its last instruction, ends.
Leave(f, e, size) ==
    LET o == IF f.kind \in {"deploy", "create"} THEN createReturns(f, e, size)
             ELSE CallReturns(f, e)
    IN  /\ Proceed(o, f.kind, f.self, Callers)
        /\ readOnly' = (readOnly /\ ~ResetsReadOnly(f))
        /\ UNCHANGED evaluations

\* The handler of a message recovers from a panic and drops its block; the
\* server of views does not recover.  Nothing is reverted.
Panic ==
    /\ frames' = <<>>
    /\ readOnly' = FALSE
    /\ \/ block' = "none" /\ UNCHANGED down
       \/ frames[1].kind = "static" /\ down' = TRUE /\ UNCHANGED block
    /\ UNCHANGED <<db, height, evaluations>>

-----------------------------------------------------------------------------
(***************************************************************************)
(* Instructions.  An instruction whose condition does not hold fails.      *)
(***************************************************************************)

Running == frames # <<>> /\ ~down

Affords(cost) == Running /\ Top.gas >= cost

Continue(cost) ==
    /\ Affords(cost)
    /\ frames' = Paid(cost)
    /\ UNCHANGED <<readOnly, block, height, evaluations, down>>

\* Instructions that only compute; and logs, which this state drops.
Compute == Continue(StepGas) /\ UNCHANGED db

makeLog == ~readOnly /\ Continue(StepGas) /\ UNCHANGED db

SstoreGas(h, h2) == IF db.StatesHashes[Top.self][h] = h2 THEN SstoreWarmGas ELSE SstoreChangeGas

opSstore(h, h2) ==
    /\ Running
    /\ ~readOnly
    /\ Top.gas > CallStipend
    /\ Snapshot(db) < MaxWrites
    /\ Continue(SstoreGas(h, h2))
    /\ db' = SetState(db, Top.self, h, h2)

CallCost_NoTransfer(addr, value) ==
    StepGas + (IF Exist(db, addr) THEN 0 ELSE CallNewAccountGas)

CallCost(addr, value) ==
    StepGas + (IF value THEN CallValueTransferGas ELSE 0)
            + (IF Exist(db, addr) THEN 0 ELSE CallNewAccountGas)

opCall(addr, gas, value) ==
    /\ Affords(CallCost(addr, value) + gas)
    /\ ~(readOnly /\ value)
    /\ Enter(Call("call", addr, gas + (IF value THEN CallStipend ELSE 0), value), "call", addr,
             Paid(CallCost(addr, value) + gas))

\* CallCode asks Context.CanTransfer, which no evaluation provides.
opCallCode(gas) ==
    /\ Affords(StepGas + gas)
    /\ IF TooDeep THEN Enter(Returns(db, gas, "ErrDepth"), "callcode", Top.self, Paid(StepGas + gas))
       ELSE Panic

opDelegateCall(addr, gas) ==
    /\ Affords(StepGas + gas)
    /\ Enter(DelegateCall(Top.self, addr, gas), "delegate", Top.self, Paid(StepGas + gas))

opStaticCall(addr, gas) ==
    /\ Affords(StepGas + gas)
    /\ Enter(StaticCall(addr, gas), "static", addr, Paid(StepGas + gas))

\* All the gas that is left goes to the creation code, or all but a share.
opCreate(addr, size) ==
    /\ Affords(CreateGas)
    /\ ~readOnly
    /\ Enter(create("create", Top.self, addr, Top.gas - CreateGas, size), "create", addr, Paid(Top.gas))

opCreate2(addr, size) ==
    LET gas == (Top.gas - CreateGas) - ((Top.gas - CreateGas) \div RetainedShare)
    IN  /\ Affords(CreateGas)
        /\ ~readOnly
        /\ Enter(create("create", Top.self, addr, gas, size), "create", addr, Paid(CreateGas + gas))

\* Context.Random is nil.
opRandom == Affords(StepGas) /\ Panic

opSelfdestruct ==
    /\ Affords(StepGas)
    /\ ~readOnly
    /\ Leave([Top EXCEPT !.gas = @ - StepGas], "nil", 0)

opStop == Running /\ Leave(Top, "nil", 0)

opReturn(size) == Running /\ Leave(Top, "nil", size)

opRevert == Running /\ Leave(Top, "ErrExecutionReverted", 0)

\* Gas, stack or jump, an undefined instruction, or a write in a static call.
Fails == Running /\ Leave(Top, "ErrOutOfGas", 0)

-----------------------------------------------------------------------------
(***************************************************************************)
(* Evaluations, each under StateMutex with a new machine, and the blocks   *)
(* they belong to.  A transaction has code to create a contract with or an *)
(* address to call; an exchange calls the contract of its token.           *)
(***************************************************************************)

Idle == frames = <<>> /\ ~down

Ready == Idle /\ evaluations < MaxEvaluations

OpenBlock ==
    /\ Idle /\ block = "none" /\ height < MaxHeight
    /\ block' = "open"
    /\ UNCHANGED <<frames, db, readOnly, height, evaluations, down>>

EvaluateSC(addr) ==
    /\ Ready /\ block = "open"
    /\ \/ addr \in Contracts /\ Enter(create("deploy", Origin, addr, TxGas, 1), "deploy", addr, <<>>)
       \/ Enter(Call("call", addr, TxGas, FALSE), "call", addr, <<>>)

\* GenerateOptDataDEX asks for the token's balances first, in views.
EvaluateSCDex(addr) ==
    /\ Ready /\ block = "open"
    /\ addr \in db.Tokens
    /\ Enter(Call("dex", addr, TxGas, FALSE), "dex", addr, <<>>)

\* A transaction that cannot be loaded, an exchange that cannot be made, or one
\* whose contract is no token: the block is refused, and what its earlier
\* transactions changed stays.
EvaluateSCForBlockFails ==
    /\ Idle /\ block = "open"
    /\ block' = "none"
    /\ UNCHANGED <<frames, db, readOnly, height, evaluations, down>>

\* Views are asked for by the server too, in the middle of a block.
GetViewFunctionReturns(addr) ==
    /\ Ready
    /\ Enter(StaticCall(addr, ViewGas), "static", addr, <<>>)

\* All transactions are evaluated; the rest of the check of the block may fail.
EvaluateSmartContracts ==
    /\ Idle /\ block = "open"
    /\ db' = SetSnapShotNum(db, height + 1, Snapshot(db))
    /\ block' = "none"
    /\ height' \in {height, height + 1}
    /\ UNCHANGED <<frames, readOnly, evaluations, down>>

LastNum_Below(h) ==
    Max({0} \cup {db.HeightToSnapShotNum[g] : g \in {g \in DOMAIN db.HeightToSnapShotNum : g < h}})

LastNum(h) ==
    Max({0} \cup {db.HeightToSnapShotNum[g] : g \in {g \in DOMAIN db.HeightToSnapShotNum : g <= h}})

\* The node goes back to height h (Reset; its races with a block that is being
\* applied are in ChainSync).
RevertVMToBlockHeight(h) ==
    /\ Idle /\ block = "none"
    /\ db' = RevertToSnapshot(db, LastNum(h))
    /\ height' = h
    /\ UNCHANGED <<frames, readOnly, block, evaluations, down>>

Init ==
    /\ frames = <<>>
    /\ db = CreateStateDB
    /\ readOnly = FALSE
    /\ block = "none"
    /\ height = 0
    /\ evaluations = 0
    /\ down = FALSE

Instruction ==
    \/ Compute \/ makeLog
    \/ \E h, h2 \in Hashes : opSstore(h, h2)
    \/ \E addr \in Addresses, gas \in Requests, value \in BOOLEAN : opCall(addr, gas, value)
    \/ \E gas \in Requests : opCallCode(gas)
    \/ \E addr \in Addresses, gas \in Requests : opDelegateCall(addr, gas)
    \/ \E addr \in Addresses, gas \in Requests : opStaticCall(addr, gas)
    \/ \E addr \in Contracts, size \in 0..1 : opCreate(addr, size)
    \/ \E addr \in Contracts, size \in 0..1 : opCreate2(addr, size)
    \/ opRandom \/ opSelfdestruct \/ opStop \/ opRevert \/ Fails
    \/ opReturn(1)

Next ==
    \/ Instruction
    \/ OpenBlock
    \/ \E addr \in Addresses : EvaluateSC(addr)
    \/ \E addr \in Contracts : EvaluateSCDex(addr)
    \/ \E addr \in Contracts : GetViewFunctionReturns(addr)
    \/ EvaluateSCForBlockFails
    \/ EvaluateSmartContracts
    \/ \E h \in 0..(height - 1) : RevertVMToBlockHeight(h)

Spec == Init /\ [][Next]_vars

-----------------------------------------------------------------------------

Static == \E i \in DOMAIN frames : frames[i].kind = "static"

\* While a static call runs, however deep and whatever it calls, no storage,
\* code, nonce or token changes: the flag of the interpreter is not lost when a
\* static call inside it returns (Run sets it only if it is not set, and only
\* the one that set it resets it).
StaticKeeps ==
    [][Static => /\ db'.StatesHashes = db.StatesHashes
                 /\ db'.Codes = db.Codes
                 /\ db'.Nonces = db.Nonces
                 /\ db'.Tokens = db.Tokens
                 /\ db'.SnapShotNum = db.SnapShotNum]_vars

TotalGas(fs) == SumFunction([i \in DOMAIN fs |-> fs[i].gas])

\* The gas that all running contracts have left together never grows, and
\* shrinks in each step that does not end a call, so that every evaluation ends
\* and StateMutex is free again, whatever the contracts do: the stipend of a call with
\* value, the gas a callee gives back and the gas a creation takes never add up
\* to more than was paid (opCall, opCreate, opCreate2, gasCall).
GasShrinks ==
    [][frames # <<>> /\ frames' # <<>> =>
         \/ TotalGas(frames') < TotalGas(frames)
         \/ TotalGas(frames') = TotalGas(frames) /\ Len(frames') < Len(frames)]_vars

\* The snapshot number of a height of the chain is never above that of a higher
\* one nor above the present number, also when heights beyond the chain keep the
\* numbers of blocks that were dropped: RevertVMToBlockHeight, which takes the
\* largest number up to its height, takes that of its height.
SnapshotsFollowHeights ==
    LET n == db.HeightToSnapShotNum
    IN  /\ 1..height \subseteq DOMAIN n
        /\ \A g, h \in 1..height : g <= h => n[g] <= n[h] /\ n[h] <= Snapshot(db)

\* A call that fails leaves storage as it was when it was made ("reverses the
\* state in case of an execution error", evm.go).
RevertRestores ==
    [][(frames # <<>> /\ db'.SnapShotNum < db.SnapShotNum) => db'.StatesHashes = Top.entry]_vars

=============================================================================
