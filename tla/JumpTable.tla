------------------------------ MODULE JumpTable ------------------------------
(***************************************************************************)
(* The instruction tables of the contract machine (core/evm/jump_table.go, *)
(* eips.go, stack_table.go): one operation per opcode, giving what         *)
(* executes it, its constant price, the name of its dynamic price, the     *)
(* stack heights it accepts and the name of its memory requirement.  Each  *)
(* fork's table is the previous one with some rows replaced.               *)
(***************************************************************************)
EXTENDS Integers, Sequences, TLC

-----------------------------------------------------------------------------
(***************************************************************************)
(* Prices.                                                                 *)
(***************************************************************************)

\* What one step, and one instruction, costs.
Gas ==
    [QuickStep |-> 2, FastestStep |-> 3, FastStep |-> 5, MidStep |-> 8, SlowStep |-> 10,
     ExtStep |-> 20, Keccak256Gas |-> 30, JumpdestGas |-> 1, CreateGas |-> 32000,
     Create2Gas |-> 32000, CallGasFrontier |-> 40, CallGasEIP150 |-> 700,
     BalanceGasFrontier |-> 20, BalanceGasEIP150 |-> 400, BalanceGasEIP1884 |-> 700,
     ExtcodeSizeGasFrontier |-> 20, ExtcodeSizeGasEIP150 |-> 700,
     SloadGasFrontier |-> 50, SloadGasEIP150 |-> 200, SloadGasEIP1884 |-> 800,
     SloadGasEIP2200 |-> 800, ExtcodeHashGasConstantinople |-> 400,
     ExtcodeHashGasEIP1884 |-> 700, SelfdestructGasEIP150 |-> 5000,
     ExtcodeCopyBaseFrontier |-> 20, ExtcodeCopyBaseEIP150 |-> 700,
     WarmStorageReadCostEIP2929 |-> 100]

StackLimit == 1024

-----------------------------------------------------------------------------
(***************************************************************************)
(* Rows.                                                                   *)
(***************************************************************************)

minStack(pops, push) == pops

\* maxStack as it would be with what is pushed and popped mixed up.
maxStack_Mixed(pop, push) == StackLimit + push - pop

maxStack(pop, push) == StackLimit + pop - push

Operation(execute, constantGas, pop, push) ==
    [execute     |-> execute,
     constantGas |-> constantGas,
     dynamicGas  |-> "nil",
     minStack    |-> minStack(pop, push),
     maxStack    |-> maxStack(pop, push),
     memorySize  |-> "nil"]

\* One row with its price and memory functions.
Row(op, constantGas, pop, push, dynamicGas, memorySize) ==
    op :> [Operation(op, constantGas, pop, push)
               EXCEPT !.dynamicGas = dynamicGas, !.memorySize = memorySize]

\* Rows alike in everything but the opcode.
Rows(ops, constantGas, pop, push) ==
    [op \in ops |-> Operation(op, constantGas, pop, push)]

\* The family name1 .. namen, whose k-th member pops and pushes as given.
Family(name, ks, constantGas, pop(_), push(_)) ==
    [op \in {name \o ToString(k) : k \in ks} |->
        LET k == CHOOSE j \in ks : op = name \o ToString(j)
        IN  Operation(op, constantGas, pop(k), push(k))]

ArithmeticRows ==
    Rows({"STOP"}, 0, 0, 0)
    @@ Rows({"ADD", "SUB"}, Gas.FastestStep, 2, 1)
    @@ Rows({"MUL", "DIV", "SDIV", "MOD", "SMOD", "SIGNEXTEND"}, Gas.FastStep, 2, 1)
    @@ Rows({"ADDMOD", "MULMOD"}, Gas.MidStep, 3, 1)
    @@ Row("EXP", 0, 2, 1, "gasExpFrontier", "nil")

ComparisonRows ==
    Rows({"LT", "GT", "SLT", "SGT", "EQ", "AND", "XOR", "OR", "BYTE"},
         Gas.FastestStep, 2, 1)
    @@ Rows({"ISZERO", "NOT"}, Gas.FastestStep, 1, 1)
    @@ Row("KECCAK256", Gas.Keccak256Gas, 2, 1, "gasKeccak256", "memoryKeccak256")

EnvironmentRows ==
    Rows({"ADDRESS", "ORIGIN", "CALLER", "CALLVALUE", "CALLDATASIZE", "CODESIZE",
          "GASPRICE"}, Gas.QuickStep, 0, 1)
    @@ Rows({"BALANCE"}, Gas.BalanceGasFrontier, 1, 1)
    @@ Rows({"CALLDATALOAD"}, Gas.FastestStep, 1, 1)
    @@ Row("CALLDATACOPY", Gas.FastestStep, 3, 0, "gasCallDataCopy", "memoryCallDataCopy")
    @@ Row("CODECOPY", Gas.FastestStep, 3, 0, "gasCodeCopy", "memoryCodeCopy")
    @@ Rows({"EXTCODESIZE"}, Gas.ExtcodeSizeGasFrontier, 1, 1)
    @@ Row("EXTCODECOPY", Gas.ExtcodeCopyBaseFrontier, 4, 0, "gasExtCodeCopy",
           "memoryExtCodeCopy")

BlockRows ==
    Rows({"BLOCKHASH"}, Gas.ExtStep, 1, 1)
    @@ Rows({"COINBASE", "TIMESTAMP", "NUMBER", "DIFFICULTY", "GASLIMIT"},
            Gas.QuickStep, 0, 1)

MemoryRows ==
    Rows({"POP"}, Gas.QuickStep, 1, 0)
    @@ Row("MLOAD", Gas.FastestStep, 1, 1, "gasMLoad", "memoryMLoad")
    @@ Row("MSTORE", Gas.FastestStep, 2, 0, "gasMStore", "memoryMStore")
    @@ Row("MSTORE8", Gas.FastestStep, 2, 0, "gasMStore8", "memoryMStore8")
    @@ Rows({"SLOAD"}, Gas.SloadGasFrontier, 1, 1)
    @@ Row("SSTORE", 0, 2, 0, "gasSStore", "nil")

FlowRows ==
    Rows({"JUMP"}, Gas.MidStep, 1, 0)
    @@ Rows({"JUMPI"}, Gas.SlowStep, 2, 0)
    @@ Rows({"PC", "MSIZE", "GAS"}, Gas.QuickStep, 0, 1)
    @@ Rows({"JUMPDEST"}, Gas.JumpdestGas, 0, 0)

PushRowsLow == Family("PUSH", 1..16, Gas.FastestStep, LAMBDA n : 0, LAMBDA n : 1)

PushRowsHigh == Family("PUSH", 17..32, Gas.FastestStep, LAMBDA n : 0, LAMBDA n : 1)

DupRows == Family("DUP", 1..16, Gas.FastestStep, LAMBDA n : n, LAMBDA n : n + 1)

SwapRows == Family("SWAP", 1..16, Gas.FastestStep, LAMBDA n : n + 1, LAMBDA n : n + 1)

LogRows ==
    LET rows == Family("LOG", 0..4, 0, LAMBDA n : n + 2, LAMBDA n : 0)
    IN  [op \in DOMAIN rows |->
            [rows[op] EXCEPT !.dynamicGas = "gas" \o op, !.memorySize = "memoryLog"]]

SystemRows ==
    Row("CREATE", Gas.CreateGas, 3, 1, "gasCreate", "memoryCreate")
    @@ Row("CALL", Gas.CallGasFrontier, 7, 1, "gasCall", "memoryCall")
    @@ Row("CALLCODE", Gas.CallGasFrontier, 7, 1, "gasCallCode", "memoryCall")
    @@ Row("RETURN", 0, 2, 0, "gasReturn", "memoryReturn")
    @@ Row("SELFDESTRUCT", 0, 1, 0, "gasSelfdestruct", "nil")

\* The opcodes no frontier row defines; "INVALID" stands for all the bytes
\* that never get one.
Unassigned ==
    {"DELEGATECALL", "STATICCALL", "RETURNDATASIZE", "RETURNDATACOPY", "REVERT",
     "SHL", "SHR", "SAR", "EXTCODEHASH", "CREATE2", "CHAINID", "SELFBALANCE",
     "BASEFEE", "PUSH0", "INVALID"}

Undefined(op) ==
    [execute |-> "Undefined", constantGas |-> 0, dynamicGas |-> "nil",
     minStack |-> 0, maxStack |-> maxStack(0, 0), memorySize |-> "nil"]

newFrontierInstructionSet ==
    ArithmeticRows @@ ComparisonRows @@ EnvironmentRows @@ BlockRows @@ MemoryRows
    @@ FlowRows @@ PushRowsLow @@ PushRowsHigh @@ DupRows @@ SwapRows @@ LogRows
    @@ SystemRows @@ [op \in Unassigned |-> Undefined(op)]

-----------------------------------------------------------------------------
(***************************************************************************)
(* Forks.  jt with constant and dynamic prices of some rows replaced.      *)
(***************************************************************************)

Repriced(jt, prices) ==
    [op \in DOMAIN prices |-> [jt[op] EXCEPT !.constantGas = prices[op]]] @@ jt

Redynamic(jt, functions) ==
    [op \in DOMAIN functions |-> [jt[op] EXCEPT !.dynamicGas = functions[op]]] @@ jt

newHomesteadInstructionSet ==
    Row("DELEGATECALL", Gas.CallGasFrontier, 6, 1, "gasDelegateCall", "memoryDelegateCall")
    @@ newFrontierInstructionSet

newTangerineWhistleInstructionSet ==
    Repriced(newHomesteadInstructionSet,
             "BALANCE" :> Gas.BalanceGasEIP150
             @@ "EXTCODESIZE" :> Gas.ExtcodeSizeGasEIP150
             @@ "SLOAD" :> Gas.SloadGasEIP150
             @@ "EXTCODECOPY" :> Gas.ExtcodeCopyBaseEIP150
             @@ [op \in {"CALL", "CALLCODE", "DELEGATECALL"} |-> Gas.CallGasEIP150])

newSpuriousDragonInstructionSet ==
    Redynamic(newTangerineWhistleInstructionSet, "EXP" :> "gasExpEIP158")

newByzantiumInstructionSet ==
    Row("STATICCALL", Gas.CallGasEIP150, 6, 1, "gasStaticCall", "memoryStaticCall")
    @@ Rows({"RETURNDATASIZE"}, Gas.QuickStep, 0, 1)
    @@ Row("RETURNDATACOPY", Gas.FastestStep, 3, 0, "gasReturnDataCopy",
           "memoryReturnDataCopy")
    @@ Row("REVERT", 0, 2, 0, "gasRevert", "memoryRevert")
    @@ newSpuriousDragonInstructionSet

newConstantinopleInstructionSet ==
    Rows({"SHL", "SHR", "SAR"}, Gas.FastestStep, 2, 1)
    @@ Rows({"EXTCODEHASH"}, Gas.ExtcodeHashGasConstantinople, 1, 1)
    @@ Row("CREATE2", Gas.Create2Gas, 4, 1, "gasCreate2", "memoryCreate2")
    @@ newByzantiumInstructionSet

enable1344(jt) == Rows({"CHAINID"}, Gas.QuickStep, 0, 1) @@ jt

enable1884(jt) ==
    Rows({"SELFBALANCE"}, Gas.FastStep, 0, 1)
    @@ Repriced(jt, "SLOAD" :> Gas.SloadGasEIP1884
                    @@ "BALANCE" :> Gas.BalanceGasEIP1884
                    @@ "EXTCODEHASH" :> Gas.ExtcodeHashGasEIP1884)

enable2200(jt) ==
    Redynamic(Repriced(jt, "SLOAD" :> Gas.SloadGasEIP2200), "SSTORE" :> "gasSStoreEIP2200")

newIstanbulInstructionSet ==
    enable2200(enable1884(enable1344(newConstantinopleInstructionSet)))

enable2929(jt) ==
    LET warm == {"EXTCODECOPY", "EXTCODESIZE", "EXTCODEHASH", "BALANCE", "CALL",
                 "CALLCODE", "STATICCALL", "DELEGATECALL"}
    IN  Redynamic(Repriced(jt, "SLOAD" :> 0
                               @@ "SELFDESTRUCT" :> Gas.SelfdestructGasEIP150
                               @@ [op \in warm |-> Gas.WarmStorageReadCostEIP2929]),
                  "SSTORE" :> "gasSStoreEIP2929"
                  @@ "SLOAD" :> "gasSLoadEIP2929"
                  @@ "EXTCODECOPY" :> "gasExtCodeCopyEIP2929"
                  @@ [op \in {"EXTCODESIZE", "EXTCODEHASH", "BALANCE"} |->
                         "gasEip2929AccountCheck"]
                  @@ "CALL" :> "gasCallEIP2929"
                  @@ "CALLCODE" :> "gasCallCodeEIP2929"
                  @@ "STATICCALL" :> "gasStaticCallEIP2929"
                  @@ "DELEGATECALL" :> "gasDelegateCallEIP2929"
                  @@ "SELFDESTRUCT" :> "gasSelfdestructEIP2929")

newBerlinInstructionSet == enable2929(newIstanbulInstructionSet)

enable3198(jt) == Rows({"BASEFEE"}, Gas.QuickStep, 0, 1) @@ jt

enable3529(jt) ==
    Redynamic(jt, "SSTORE" :> "gasSStoreEIP3529" @@ "SELFDESTRUCT" :> "gasSelfdestructEIP3529")

newLondonInstructionSet == enable3198(enable3529(newBerlinInstructionSet))

\* RANDOM is the byte of DIFFICULTY: the row gets another execute.
newMergeInstructionSet ==
    "DIFFICULTY" :> Operation("RANDOM", Gas.QuickStep, 0, 1) @@ newLondonInstructionSet

enable3855(jt) == Rows({"PUSH0"}, Gas.QuickStep, 0, 1) @@ jt

GetGenericJumpTable == newMergeInstructionSet

=============================================================================
