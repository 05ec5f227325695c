------------------------------- MODULE GasTable -------------------------------
(***************************************************************************)
(* What the interpreter charges before it executes an instruction          *)
(* (core/evm/interpreter.go, gas_table.go, operations_acl.go, gas.go,      *)
(* memory_table.go, common.go) and what the native contracts cost          *)
(* (contracts.go).                                                         *)
(*                                                                         *)
(* A uint64 has UintBits bits; a stack word may be larger and is then not  *)
(* a uint64.  Prices are the ones of the code.  Err is the error return.   *)
(* A memory is its length and the fee paid for it so far.                  *)
(***************************************************************************)
EXTENDS JumpTable, FiniteSetsExt

CONSTANTS
    UintBits,      \* the width of a uint64; even
    Operands,      \* stack words
    Regions,       \* pairs of an offset and a size, for the calls
    Requests,      \* gas a call asks for
    Gases,         \* gas a contract has left
    Lengths,       \* lengths of the input of a native contract
    BaseSizes, ExponentSizes  \* sizes in the input of the exponentiation

VARIABLE call   \* the operation checked and what it returned

Err == -1
MaxUint == 2 ^ UintBits - 1

\* The largest memory whose fee is computed without overflow.
MaxMemory == (2 ^ (UintBits \div 2) - 1) * 32

-----------------------------------------------------------------------------
(***************************************************************************)
(* Words and checked arithmetic; an error passes through.                  *)
(***************************************************************************)

IsUint64(x) == x <= MaxUint
Uint64(x) == x % (MaxUint + 1)

SafeAdd(x, y) == IF Err \in {x, y} \/ x + y > MaxUint THEN Err ELSE x + y

SafeMul(x, y) == IF x = Err \/ (x # 0 /\ y > MaxUint \div x) THEN Err ELSE x * y

toWordSize(size) ==
    IF size > MaxUint - 31 THEN (MaxUint \div 32) + 1 ELSE (size + 31) \div 32

\* calcMemSize64WithUint as it would be with the sum not checked.
calcMemSize64WithUint_Wraps(off, length64) ==
    IF length64 = 0 THEN 0 ELSE IF ~IsUint64(off) THEN Err ELSE Uint64(off + length64)

calcMemSize64WithUint(off, length64) ==
    LET val == Uint64(off + length64)
    IN  IF length64 = 0 THEN 0
        ELSE IF ~IsUint64(off) \/ val < off THEN Err
        ELSE val

calcMemSize64(off, l) == IF ~IsUint64(l) THEN Err ELSE calcMemSize64WithUint(off, l)

Back(st, n) == st[n + 1]   \* the top of the stack comes first here

-----------------------------------------------------------------------------
(***************************************************************************)
(* Memory.                                                                 *)
(***************************************************************************)

\* The operand positions of offset and size a memory function reads.
MemoryOperands(function) ==
    CASE function \in {"memoryKeccak256", "memoryReturn", "memoryRevert", "memoryLog"} -> {<<0, 1>>}
      [] function \in {"memoryCallDataCopy", "memoryReturnDataCopy", "memoryCodeCopy"} -> {<<0, 2>>}
      [] function = "memoryExtCodeCopy" -> {<<1, 3>>}
      [] function \in {"memoryCreate", "memoryCreate2"} -> {<<1, 2>>}
      [] function = "memoryCall" -> {<<5, 6>>, <<3, 4>>}
      [] function \in {"memoryDelegateCall", "memoryStaticCall"} -> {<<4, 5>>, <<2, 3>>}
      [] OTHER -> {}

memorySize(function, st) ==
    CASE function \in {"memoryMLoad", "memoryMStore"} -> calcMemSize64WithUint(Back(st, 0), 32)
      [] function = "memoryMStore8" -> calcMemSize64WithUint(Back(st, 0), 1)
      [] function = "nil" -> 0
      [] OTHER -> LET sizes == {calcMemSize64(Back(st, o[1]), Back(st, o[2])) :
                                    o \in MemoryOperands(function)}
                  IN  IF Err \in sizes THEN Err ELSE Max(sizes)

\* What execute reads and writes of the memory: pairs of offset and size.
Accessed(execute, st) ==
    LET At(off, size) == <<Uint64(Back(st, off)), Uint64(Back(st, size))>>
    IN  CASE execute \in {"MLOAD", "MSTORE"} -> {<<Uint64(Back(st, 0)), 32>>}
          [] execute = "MSTORE8" -> {<<Uint64(Back(st, 0)), 1>>}
          [] execute \in {"KECCAK256", "RETURN", "REVERT", "LOG0", "LOG1", "LOG2", "LOG3", "LOG4"} ->
                 {At(0, 1)}
          [] execute \in {"CALLDATACOPY", "CODECOPY", "RETURNDATACOPY"} -> {At(0, 2)}
          [] execute = "EXTCODECOPY" -> {At(1, 3)}
          [] execute \in {"CREATE", "CREATE2"} -> {At(1, 2)}
          [] execute \in {"CALL", "CALLCODE"} -> {At(3, 4), At(5, 6)}
          [] execute \in {"DELEGATECALL", "STATICCALL"} -> {At(2, 3), At(4, 5)}
          [] OTHER -> {}

memoryGasCost(mem, newMemSize) ==
    LET words == toWordSize(newMemSize)
        newTotalFee == words * 3 + ((words * words) \div 512)
    IN  IF newMemSize > MaxMemory THEN [fee |-> Err, mem |-> mem]
        ELSE IF words * 32 > mem.len
             THEN [fee |-> Uint64(newTotalFee - mem.lastGasCost),
                   mem |-> [mem EXCEPT !.lastGasCost = newTotalFee]]
             ELSE [fee |-> 0, mem |-> mem]

Resize(mem, size) == [mem EXCEPT !.len = Max({@, size})]

-----------------------------------------------------------------------------
(***************************************************************************)
(* Price functions.  Each returns the gas, the memory with the fee it has  *)
(* now been charged for, and for calls the gas that goes to the callee.    *)
(* c is what the functions ask of the chain rules and of the state about   *)
(* the address on the stack.                                               *)
(***************************************************************************)

Priced(gas, mem) == [gas |-> gas, mem |-> mem, callGasTemp |-> 0]

\* The memory, and price for every word of the operand at stackpos.
PricedWords(st, mem, memSize, stackpos, price) ==
    LET memory == memoryGasCost(mem, memSize)
        words == Back(st, stackpos)
    IN  Priced(IF ~IsUint64(words) THEN Err
               ELSE SafeAdd(memory.fee, SafeMul(toWordSize(words), price)),
               memory.mem)

pureMemoryGascost(st, mem, memSize) ==
    LET memory == memoryGasCost(mem, memSize) IN Priced(memory.fee, memory.mem)

memoryCopierGas(stackpos, st, mem, memSize) == PricedWords(st, mem, memSize, stackpos, 3)

gasKeccak256(st, mem, memSize) == PricedWords(st, mem, memSize, 1, 6)

gasCreate2(st, mem, memSize) == PricedWords(st, mem, memSize, 2, 6)

makeGasLog(n, st, mem, memSize) ==
    LET memory == memoryGasCost(mem, memSize)
        requestedSize == Back(st, 1)
    IN  Priced(IF ~IsUint64(requestedSize) THEN Err
               ELSE SafeAdd(SafeAdd(SafeAdd(memory.fee, 375), n * 375), SafeMul(requestedSize, 8)),
               memory.mem)

\* The bytes of a word that are not leading zeroes.
ByteLen(x) == IF x = 0 THEN 0 ELSE 1 + Max({n \in 0..3 : x >= 256 ^ n})

gasExpFrontier(st, mem) == Priced(SafeAdd(ByteLen(Back(st, 1)) * 10, 10), mem)

gasExpEIP158(st, mem) == Priced(SafeAdd(ByteLen(Back(st, 1)) * 50, 10), mem)

\* callGas as it would be with the rule of the 64th forgotten.
callGas_All(isEip150, availableGas, base, callCost) ==
    IF ~IsUint64(callCost) THEN Err ELSE callCost

callGas(isEip150, availableGas, base, callCost) ==
    LET left == Uint64(availableGas - base)
        gas == left - (left \div 64)
    IN  IF isEip150 /\ (~IsUint64(callCost) \/ gas < callCost) THEN gas
        ELSE IF ~IsUint64(callCost) THEN Err
        ELSE callCost

\* A call whose price before the memory is extra, with gas left.
PricedCall(c, gas, st, mem, memSize, extra) ==
    LET memory == memoryGasCost(mem, memSize)
        base == SafeAdd(extra, memory.fee)
        temp == callGas(c.IsEIP150, gas, base, Back(st, 0))
    IN  IF base = Err THEN Priced(Err, mem)
        ELSE [gas |-> SafeAdd(base, temp), mem |-> memory.mem, callGasTemp |-> temp]

transfersValue(st) == Back(st, 2) # 0

gasCall(c, gas, st, mem, memSize) ==
    LET newAccount == IF c.IsEIP158 THEN transfersValue(st) /\ c.empty ELSE ~c.exist
    IN  PricedCall(c, gas, st, mem, memSize,
                   (IF newAccount THEN 25000 ELSE 0) + (IF transfersValue(st) THEN 9000 ELSE 0))

gasCallCode(c, gas, st, mem, memSize) ==
    PricedCall(c, gas, st, mem, memSize, IF transfersValue(st) THEN 9000 ELSE 0)

gasDelegateCall(c, gas, st, mem, memSize) == PricedCall(c, gas, st, mem, memSize, 0)

gasStaticCall(c, gas, st, mem, memSize) == PricedCall(c, gas, st, mem, memSize, 0)

coldCost == 2600 - 100

\* The calculator of a call before EIP2929, by name...
CallCalculator(function, c, gas, st, mem, memSize) ==
    CASE function = "gasCall" -> gasCall(c, gas, st, mem, memSize)
      [] function = "gasCallCode" -> gasCallCode(c, gas, st, mem, memSize)
      [] function = "gasDelegateCall" -> gasDelegateCall(c, gas, st, mem, memSize)
      [] function = "gasStaticCall" -> gasStaticCall(c, gas, st, mem, memSize)

\* ... and the one that each of the later ones wraps.
oldCalculator ==
    [gasCallEIP2929 |-> "gasCall", gasDelegateCallEIP2929 |-> "gasDelegateCall",
     gasStaticCallEIP2929 |-> "gasStaticCall", gasCallCodeEIP2929 |-> "gasCallCode"]

makeCallVariantGasCallEIP2929(calculator, c, gas, st, mem, memSize) ==
    LET charged == IF c.warm THEN 0 ELSE coldCost
        old == CallCalculator(calculator, c, gas - charged, st, mem, memSize)
    IN  IF gas < charged THEN Priced(Err, mem)
        ELSE IF old.gas = Err THEN old
        ELSE [old EXCEPT !.gas = Uint64(@ + charged)]

gasSLoadEIP2929(c, mem) == Priced(IF c.warm THEN 100 ELSE 2100, mem)

gasEip2929AccountCheck(c, mem) == Priced(IF c.warm THEN 0 ELSE coldCost, mem)

gasExtCodeCopyEIP2929(c, st, mem, memSize) ==
    LET old == memoryCopierGas(3, st, mem, memSize)
    IN  [old EXCEPT !.gas = IF c.warm THEN @ ELSE SafeAdd(@, coldCost)]

gasSelfdestruct(c, mem) ==
    LET newAccount == IF c.IsEIP158 THEN c.empty /\ c.balance ELSE ~c.exist
    IN  Priced(IF c.IsEIP150 THEN 5000 + (IF newAccount THEN 25000 ELSE 0) ELSE 0, mem)

makeSelfdestructGasFn(c, mem) ==
    Priced((IF c.warm THEN 0 ELSE 2600) + (IF c.empty /\ c.balance THEN 25000 ELSE 0), mem)

\* The functions that makeGasLog is called for, and their number of topics.
LogTopics == [gasLOG0 |-> 0, gasLOG1 |-> 1, gasLOG2 |-> 2, gasLOG3 |-> 3, gasLOG4 |-> 4]

dynamicGas(function, c, gas, st, mem, memSize) ==
    CASE function \in {"gasReturn", "gasRevert", "gasMLoad", "gasMStore8", "gasMStore", "gasCreate"} ->
             pureMemoryGascost(st, mem, memSize)
      [] function \in {"gasCallDataCopy", "gasCodeCopy", "gasReturnDataCopy"} ->
             memoryCopierGas(2, st, mem, memSize)
      [] function = "gasExtCodeCopy" -> memoryCopierGas(3, st, mem, memSize)
      [] function = "gasKeccak256" -> gasKeccak256(st, mem, memSize)
      [] function = "gasCreate2" -> gasCreate2(st, mem, memSize)
      [] function \in DOMAIN LogTopics -> makeGasLog(LogTopics[function], st, mem, memSize)
      [] function = "gasExpFrontier" -> gasExpFrontier(st, mem)
      [] function = "gasExpEIP158" -> gasExpEIP158(st, mem)
      [] function \in {"gasCall", "gasCallCode", "gasDelegateCall", "gasStaticCall"} ->
             CallCalculator(function, c, gas, st, mem, memSize)
      [] function \in DOMAIN oldCalculator ->
             makeCallVariantGasCallEIP2929(oldCalculator[function], c, gas, st, mem, memSize)
      [] function = "gasSLoadEIP2929" -> gasSLoadEIP2929(c, mem)
      [] function = "gasEip2929AccountCheck" -> gasEip2929AccountCheck(c, mem)
      [] function = "gasExtCodeCopyEIP2929" -> gasExtCodeCopyEIP2929(c, st, mem, memSize)
      [] function = "gasSelfdestruct" -> gasSelfdestruct(c, mem)
      [] function \in {"gasSelfdestructEIP2929", "gasSelfdestructEIP3529"} ->
             makeSelfdestructGasFn(c, mem)

\* The table of an interpreter, by name.
Table(name) ==
    CASE name = "frontier" -> newFrontierInstructionSet
      [] name = "istanbul" -> newIstanbulInstructionSet
      [] name = "generic" -> GetGenericJumpTable

\* The loop of Run up to the execution of the instruction op: ok says whether
\* it gets there, gas is what is left.
Meter(op, c, gas, st, mem) ==
    LET operation == Table(c.table)[op]
        left == gas - operation.constantGas
        memSize == memorySize(operation.memorySize, st)
        size == IF memSize = Err THEN Err ELSE SafeMul(toWordSize(memSize), 32)
        dynamic == dynamicGas(operation.dynamicGas, c, left, st, mem, size)
        Stop == [ok |-> FALSE]
    IN  IF left < 0 THEN Stop
        ELSE IF operation.dynamicGas = "nil"
             THEN [ok |-> TRUE, gas |-> left, mem |-> mem, callGasTemp |-> 0]
        ELSE IF size = Err THEN Stop
        ELSE IF dynamic.gas = Err \/ left < dynamic.gas THEN Stop
        ELSE [ok |-> TRUE, gas |-> left - dynamic.gas, mem |-> Resize(dynamic.mem, size),
              callGasTemp |-> dynamic.callGasTemp]

-----------------------------------------------------------------------------
(***************************************************************************)
(* Storage.  Each function returns the gas and what it adds to the refund  *)
(* counter, for a slot whose committed value is original.                  *)
(***************************************************************************)

Net(noop, init, clean, clearing, original, current, value) ==
    LET Refund(condition, amount) == IF condition THEN amount ELSE 0
    IN  IF current = value THEN [gas |-> noop, refund |-> 0]
        ELSE IF original = current
             THEN IF original = 0 THEN [gas |-> init, refund |-> 0]
                  ELSE [gas |-> clean, refund |-> Refund(value = 0, clearing)]
        ELSE [gas |-> noop,
              refund |-> (IF original = 0 THEN 0
                          ELSE IF current = 0 THEN -clearing
                          ELSE Refund(value = 0, clearing))
                         + (IF original # value THEN 0
                            ELSE IF original = 0 THEN init - noop
                            ELSE clean - noop)]

legacySStore(original, current, value) ==
    IF current = 0 /\ value # 0 THEN [gas |-> 20000, refund |-> 0]
    ELSE IF current # 0 /\ value = 0 THEN [gas |-> 5000, refund |-> 15000]
    ELSE [gas |-> 5000, refund |-> 0]

gasSStore(original, current, value) == Net(200, 20000, 5000, 15000, original, current, value)

\* The functions from EIP2200 on refuse to write with no more than the
\* stipend left.
Sentry(gas, charged) == IF gas <= 2300 THEN [gas |-> Err, refund |-> 0] ELSE charged

gasSStoreEIP2200(gas, original, current, value) ==
    Sentry(gas, Net(800, 20000, 5000, 15000, original, current, value))

\* makeGasSStoreFunc as it would be with the refund of a slot that is set
\* again forgotten.
makeGasSStoreFunc_Kept(clearingRefund, gas, warm, original, current, value) ==
    LET net == Net(100, 20000, 5000 - 2100, clearingRefund, original, current, value)
    IN  Sentry(gas, [gas |-> net.gas + (IF warm THEN 0 ELSE 2100),
                     refund |-> IF net.refund < 0 THEN 0 ELSE net.refund])

makeGasSStoreFunc(clearingRefund, gas, warm, original, current, value) ==
    LET net == Net(100, 20000, 5000 - 2100, clearingRefund, original, current, value)
    IN  Sentry(gas, [net EXCEPT !.gas = @ + (IF warm THEN 0 ELSE 2100)])

SStoreGas(function, gas, warm, original, current, value) ==
    CASE function = "legacySStore" -> legacySStore(original, current, value)
      [] function = "gasSStore" -> gasSStore(original, current, value)
      [] function = "gasSStoreEIP2200" -> gasSStoreEIP2200(gas, original, current, value)
      [] function = "gasSStoreEIP2929" -> makeGasSStoreFunc(15000, gas, warm, original, current, value)
      [] function = "gasSStoreEIP3529" -> makeGasSStoreFunc(4800, gas, warm, original, current, value)

-----------------------------------------------------------------------------
(***************************************************************************)
(* Native contracts: RequiredGas for an input of n bytes.                  *)
(***************************************************************************)

PerWord(n, perWord, base) == ((n + 31) \div 32) * perWord + base

sha256hash_RequiredGas(n) == PerWord(n, 12, 60)

ripemd160hash_RequiredGas(n) == PerWord(n, 120, 600)

dataCopy_RequiredGas(n) == PerWord(n, 3, 15)

bn256PairingIstanbul_RequiredGas(n) == 45000 + (n \div 192) * 34000

bn256PairingByzantium_RequiredGas(n) == 100000 + (n \div 192) * 80000

bls12381Pairing_RequiredGas(n) == 115000 + (n \div 384) * 23000

Bls12381MultiExpDiscountTable ==
    <<1200, 888, 764, 641, 594, 547, 500, 453, 438, 423, 408, 394, 379, 364, 349, 334,
      330, 326, 322, 318, 314, 310, 306, 302, 298, 294, 289, 285, 281, 277, 273, 269,
      268, 266, 265, 263, 262, 260, 259, 257, 256, 254, 253, 251, 250, 248, 247, 245,
      244, 242, 241, 239, 238, 236, 235, 233, 232, 231, 229, 228, 226, 225, 223, 222,
      221, 220, 219, 219, 218, 217, 216, 216, 215, 214, 213, 213, 212, 211, 211, 210,
      209, 208, 208, 207, 206, 205, 205, 204, 203, 202, 202, 201, 200, 199, 199, 198,
      197, 196, 196, 195, 194, 193, 193, 192, 191, 191, 190, 189, 188, 188, 187, 186,
      185, 185, 184, 183, 182, 182, 181, 180, 179, 179, 178, 177, 176, 176, 175, 174>>

\* k pairs of a point and a scalar of price mulGas each.
MultiExpGas(k, mulGas) ==
    LET dLen == Len(Bls12381MultiExpDiscountTable)
        discount == Bls12381MultiExpDiscountTable[IF k < dLen THEN k ELSE dLen]
    IN  IF k = 0 THEN 0 ELSE (k * mulGas * discount) \div 1000

bls12381G1MultiExp_RequiredGas(n) == MultiExpGas(n \div 160, 12000)

bls12381G2MultiExp_RequiredGas(n) == MultiExpGas(n \div 288, 55000)

\* modexpMultComplexity as it would be with the limit of its first case moved.
modexpMultComplexity_Early(x) ==
    IF x <= 32 THEN x * x
    ELSE IF x <= 1024 THEN ((x * x) \div 4) + 96 * x - 3072
    ELSE ((x * x) \div 16) + 480 * x - 199680

modexpMultComplexity(x) ==
    IF x <= 64 THEN x * x
    ELSE IF x <= 1024 THEN ((x * x) \div 4) + 96 * x - 3072
    ELSE ((x * x) \div 16) + 480 * x - 199680

\* The exponentiation for sizes of base, exponent and modulus, of which length
\* bytes follow, the head of the exponent having bits bits.
bigModExp_RequiredGas(eip2565, baseLen, expLen, modLen, length, bits) ==
    LET bitlen == IF length <= baseLen THEN 0 ELSE bits
        msb == IF bitlen > 0 THEN bitlen - 1 ELSE 0
        adjExpLen == (IF expLen > 32 THEN 8 * (expLen - 32) ELSE 0) + msb
        x == Max({modLen, baseLen})
        words == (x + 7) \div 8
        gas == IF eip2565 THEN (words * words * Max({adjExpLen, 1})) \div 3
               ELSE (modexpMultComplexity(x) * Max({adjExpLen, 1})) \div 20
        capped == IF IsUint64(gas) THEN gas ELSE MaxUint
    IN  IF eip2565 /\ capped < 200 THEN 200 ELSE capped

RequiredGas(contract, n) ==
    CASE contract = "sha256hash" -> sha256hash_RequiredGas(n)
      [] contract = "ripemd160hash" -> ripemd160hash_RequiredGas(n)
      [] contract = "dataCopy" -> dataCopy_RequiredGas(n)
      [] contract = "bn256PairingIstanbul" -> bn256PairingIstanbul_RequiredGas(n)
      [] contract = "bn256PairingByzantium" -> bn256PairingByzantium_RequiredGas(n)
      [] contract = "bls12381Pairing" -> bls12381Pairing_RequiredGas(n)
      [] contract = "bls12381G1MultiExp" -> bls12381G1MultiExp_RequiredGas(n)
      [] contract = "bls12381G2MultiExp" -> bls12381G2MultiExp_RequiredGas(n)

-----------------------------------------------------------------------------
(***************************************************************************)
(* The calls that are checked.                                             *)
(***************************************************************************)

\* The tables with the rules they are used under.  The node takes the generic
\* one with no rule, and its state reports every address as warm.
Rules(table, IsEIP150, IsEIP158, warm) ==
    {[table |-> table, IsEIP150 |-> IsEIP150, IsEIP158 |-> IsEIP158, warm |-> warm,
      exist |-> e # "missing", empty |-> e # "used", balance |-> b] :
         e \in {"missing", "empty", "used"}, b \in BOOLEAN}

Contexts ==
    Rules("frontier", FALSE, FALSE, TRUE)
    \cup Rules("istanbul", TRUE, TRUE, TRUE)
    \cup UNION {Rules("generic", TRUE, TRUE, warm) : warm \in BOOLEAN}
    \cup Rules("generic", FALSE, FALSE, TRUE)

\* Memories of so many words, as earlier instructions leave them.
Memory(words) == [len |-> words * 32, lastGasCost |-> words * 3 + ((words * words) \div 512)]
Memories == {Memory(words) : words \in {0, 2, (MaxMemory \div 32) - 1}}

Init == call = [op |-> "none"]

Return(result) == call' = result

Charge(op, c, gas, st, mem) ==
    Return([op |-> "charge", instruction |-> op, c |-> c, gas |-> gas, st |-> st, mem |-> mem,
            result |-> Meter(op, c, gas, st, mem)])

\* Writes to one slot, one after the other, with gas left before each.
Write(function, gas, original, values) ==
    LET Before(i) == IF i = 1 THEN original ELSE values[i - 1]
    IN  Return([op |-> "write", function |-> function, gas |-> gas, original |-> original, values |-> values,
                charged |-> [i \in DOMAIN values |->
                                SStoreGas(function, gas, i > 1, original, Before(i), values[i])]])

Native(contract, n) ==
    Return([op |-> "native", less |-> RequiredGas(contract, n), more |-> RequiredGas(contract, n + 32)])

\* The sizes of the second input are the first's, one of them one larger.
Exponentiate(eip2565, sizes, larger, bits) ==
    LET Price(s) == bigModExp_RequiredGas(eip2565, s[1], s[2], s[3], s[4], bits)
    IN  /\ larger = 1 => sizes[4] # sizes[1] + 1   \* the exponent's head stays
        /\ Return([op |-> "native", less |-> Price(sizes),
                   more |-> Price([sizes EXCEPT ![larger] = @ + 1])])

Simple ==
    {"KECCAK256", "CALLDATACOPY", "CODECOPY", "RETURNDATACOPY", "EXTCODECOPY", "MLOAD",
     "MSTORE", "MSTORE8", "CREATE", "CREATE2", "RETURN", "REVERT", "LOG0", "LOG4", "EXP",
     "SLOAD", "BALANCE", "EXTCODEHASH", "SELFDESTRUCT", "ADD"}

ChargeSimple ==
    \E op \in Simple, c \in Contexts, gas \in Gases, mem \in Memories, x, y \in Operands :
        /\ Table(c.table)[op].execute # "Undefined"
        /\ (c.balance \/ c.empty) => op = "SELFDESTRUCT"
        /\ LET operands == MemoryOperands(Table(c.table)[op].memorySize)
               o == IF operands = {} THEN <<0, 1>> ELSE CHOOSE p \in operands : TRUE
           IN  Charge(op, c, gas, [i \in 1..4 |-> IF i = o[1] + 1 THEN x
                                                  ELSE IF i = o[2] + 1 THEN y ELSE 1], mem)

ChargeCall ==
    \E op \in {"CALL", "CALLCODE", "DELEGATECALL", "STATICCALL"}, c \in Contexts, gas \in Gases,
       request \in Requests, value \in {0, 1}, in, ret \in Regions :
        /\ Table(c.table)[op].execute # "Undefined"
        /\ ~c.balance
        /\ LET args == IF op \in {"CALL", "CALLCODE"} THEN <<request, 7, value>> ELSE <<request, 7>>
           IN  Charge(op, c, gas, args \o in \o ret, Memory(2))

Next ==
    /\ call.op = "none"
    /\ \/ ChargeSimple
       \/ ChargeCall
       \/ \E function \in {"legacySStore", "gasSStore", "gasSStoreEIP2200", "gasSStoreEIP2929",
                           "gasSStoreEIP3529"} :
              \E gas \in Gases, original \in 0..2, values \in [1..4 -> 0..2] :
                  Write(function, gas, original, values)
       \/ \E contract \in {"sha256hash", "ripemd160hash", "dataCopy", "bn256PairingIstanbul",
                           "bn256PairingByzantium", "bls12381Pairing", "bls12381G1MultiExp",
                           "bls12381G2MultiExp"}, n \in Lengths : Native(contract, n)
       \/ \E eip2565 \in BOOLEAN, base, modulus, length \in BaseSizes, exponent \in ExponentSizes,
             larger \in 1..4, bits \in {0, 200} :
              Exponentiate(eip2565, <<base, exponent, modulus, length>>, larger, bits)

Spec == Init /\ [][Next]_call

-----------------------------------------------------------------------------
(***************************************************************************)
(* Properties.                                                             *)
(***************************************************************************)

Words(n) == (n + 31) \div 32
Fee(words) == words * 3 + ((words * words) \div 512)

\* The bytes of memory the instruction needs, in unbounded integers.
Needed(op, st) ==
    LET operands == CASE op \in {"MLOAD", "MSTORE"} -> {<<st[1], 32>>}
                      [] op = "MSTORE8" -> {<<st[1], 1>>}
                      [] OTHER -> {<<st[o[1] + 1], st[o[2] + 1]>> :
                                      o \in MemoryOperands(GetGenericJumpTable[op].memorySize)}
    IN  Max({0} \cup {o[1] + o[2] : o \in {p \in operands : p[2] # 0}})

\* What the instruction costs beside the memory and the gas of a callee.
Base(op, c, st) ==
    LET recent == Table(c.table)[op].constantGas = 100
        cold == IF recent /\ ~c.warm THEN 2500 ELSE 0
        value == IF op \in {"CALL", "CALLCODE"} /\ st[3] # 0 THEN 9000 ELSE 0
        created == op = "CALL"
                   /\ (IF c.IsEIP158 THEN st[3] # 0 /\ c.empty ELSE ~c.exist)
        generic == c.table = "generic"
    IN  Table(c.table)[op].constantGas + cold + value + (IF created THEN 25000 ELSE 0)
        + CASE op \in {"CALLDATACOPY", "CODECOPY", "RETURNDATACOPY"} -> 3 * Words(st[3])
            [] op = "EXTCODECOPY" -> 3 * Words(st[4])
            [] op = "KECCAK256" -> 6 * Words(st[2])
            [] op = "CREATE2" -> 6 * Words(st[3])
            [] op = "LOG0" -> 375 + 8 * st[2]
            [] op = "LOG4" -> 375 * 5 + 8 * st[2]
            [] op = "EXP" -> 10 + ByteLen(st[2])
                                  * (IF c.table = "frontier" THEN 10 ELSE 50)
            [] op = "SLOAD" -> IF ~generic THEN 0 ELSE IF c.warm THEN 100 ELSE 2100
            [] op = "SELFDESTRUCT" ->
                   (IF generic THEN (IF c.warm THEN 0 ELSE 2600) ELSE IF c.IsEIP150 THEN 5000 ELSE 0)
                   + (IF c.empty /\ c.balance /\ (generic \/ c.IsEIP150) THEN 25000 ELSE 0)
            [] OTHER -> 0

\* An instruction is executed exactly when the memory it needs is below the
\* limit and the gas left pays the price computed in unbounded integers, and
\* then exactly that price is taken: no product, sum, subtraction from the gas
\* left (gas.go:38) or return of the cold surcharge (operations_acl.go:193)
\* wraps around, and a callee gets what it asked for or, under EIP150, at most
\* all but a 64th of what is left.
GasExact ==
    call.op = "charge" =>
        LET needed == Needed(call.instruction, call.st)
            words == Max({Words(needed), call.mem.len \div 32})
            base == Base(call.instruction, call.c, call.st) + Fee(words) - Fee(call.mem.len \div 32)
            left == call.gas - base
            asked == IF call.instruction \in {"CALL", "CALLCODE", "DELEGATECALL", "STATICCALL"}
                     THEN call.st[1] ELSE 0
            given == IF call.c.IsEIP150 THEN Min({asked, left - (left \div 64)}) ELSE asked
        IN  IF needed > MaxMemory \/ base > call.gas \/ given > left
            THEN ~call.result.ok
            ELSE /\ call.result.ok
                 /\ call.result.gas = left - given
                 /\ call.result.callGasTemp = given

\* What an instruction reads and writes of the memory lies inside of it when it
\* is executed (memory.go panics, or returns nothing, otherwise), and the fee
\* the memory remembers is the fee of its length, so that the next expansion
\* pays the difference only.
MemoryCovered ==
    (call.op = "charge" /\ call.result.ok) =>
        /\ \A a \in Accessed(Table(call.c.table)[call.instruction].execute, call.st) :
               a[2] = 0 \/ a[1] + a[2] <= call.result.mem.len
        /\ call.result.mem = Memory(call.result.mem.len \div 32)

\* What the writes to a slot cost together, refunds subtracted, depends on the
\* committed and the last value and the number of writes only, and the refund
\* counter never goes below zero on the way, as the comment at gas_table.go:137
\* claims; a contract with no more than the stipend of a call left cannot write.
RefundsMatchWrites ==
    call.op = "write" =>
        LET n == Len(call.values)
            final == call.values[n]
            Total(k) == MapThenSumSet(LAMBDA i : call.charged[i].gas, 1..k)
            Refunds(k) == MapThenSumSet(LAMBDA i : call.charged[i].refund, 1..k)
            Expected(noop, init, clean, clearing, cold) ==
                n * noop + cold
                + (IF final = call.original THEN 0
                   ELSE IF call.original = 0 THEN init - noop
                   ELSE clean - noop - (IF final = 0 THEN clearing ELSE 0))
            net == Total(n) - Refunds(n)
        IN  IF call.gas <= 2300 /\ call.function \notin {"legacySStore", "gasSStore"}
            THEN \A i \in 1..n : call.charged[i].gas = Err
            ELSE /\ \A k \in 1..n : Refunds(k) >= 0
                 /\ CASE call.function = "gasSStore" -> net = Expected(200, 20000, 5000, 15000, 0)
                      [] call.function = "gasSStoreEIP2200" ->
                             net = Expected(800, 20000, 5000, 15000, 0)
                      [] call.function = "gasSStoreEIP2929" ->
                             net = Expected(100, 20000, 2900, 15000, 2100)
                      [] call.function = "gasSStoreEIP3529" ->
                             net = Expected(100, 20000, 2900, 4800, 2100)
                      [] OTHER -> TRUE

\* A native contract never costs less for more input: over the cases of the
\* price of an exponentiation, its cap and its floor, and over the falling
\* discounts of the multi-exponentiations past the end of their table.
MoreCostsMore == call.op = "native" => call.less <= call.more

=============================================================================
