---------------------------- MODULE Instructions ----------------------------
(***************************************************************************)
(* What the instructions of the contract machine do to the stack           *)
(* (core/evm/instructions.go, stack.go) and where a jump may land          *)
(* (analysis.go, contract.go).                                             *)
(*                                                                         *)
(* A word has WordBits bits (256 in the code) of ByteBits-bit bytes; the   *)
(* widths are parameters, so that every overflow is met.  A stack is a     *)
(* sequence with its top at the end.  The arithmetic of the words          *)
(* themselves (github.com/holiman/uint256) is external.                    *)
(***************************************************************************)
EXTENDS JumpTable, Bitwise, FiniteSetsExt

CONSTANTS
    WordBits, ByteBits,  \* the width of a word and of a byte of it
    Values,              \* the words the arithmetic is checked on
    Codes, Callers       \* the codes whose jump destinations are analysed, and
                         \* codes that call them

VARIABLE call   \* the operation checked and what it returned

WordSize == 2 ^ WordBits

-----------------------------------------------------------------------------
(***************************************************************************)
(* Stack (stack.go).                                                       *)
(***************************************************************************)

push(st, d) == Append(st, d)
pop(st) == SubSeq(st, 1, Len(st) - 1)
Back(st, n) == st[Len(st) - n]
peek(st) == Back(st, 0)
dup(st, n) == push(st, st[Len(st) - n + 1])
swap(st, n) == [st EXCEPT ![Len(st)] = st[Len(st) - n + 1], ![Len(st) - n + 1] = st[Len(st)]]

\* st with its top replaced: what an operand that was only peeked at becomes.
SetTop(st, d) == [st EXCEPT ![Len(st)] = d]

-----------------------------------------------------------------------------
(***************************************************************************)
(* Words (external).                                                       *)
(***************************************************************************)

Signed(x) == IF x >= 2 ^ (WordBits - 1) THEN x - WordSize ELSE x
Unsigned(i) == i % WordSize
Abs(i) == IF i < 0 THEN -i ELSE i
Truncate(a, b) == IF (a < 0) = (b < 0) THEN Abs(a) \div Abs(b) ELSE -(Abs(a) \div Abs(b))

Div(x, y) == IF y = 0 THEN 0 ELSE x \div y
Mod(x, y) == IF y = 0 THEN 0 ELSE x % y
SDiv(x, y) == IF y = 0 THEN 0 ELSE Unsigned(Truncate(Signed(x), Signed(y)))
SMod(x, y) ==
    IF y = 0 THEN 0
    ELSE Unsigned(Signed(x) - Signed(y) * Truncate(Signed(x), Signed(y)))
Exp(b, e) == FoldSet(LAMBDA i, r : (r * b) % WordSize, 1, 1..e)
Lsh(x, n) == IF n >= WordBits THEN 0 ELSE (x * 2 ^ n) % WordSize
Rsh(x, n) == IF n >= WordBits THEN 0 ELSE x \div 2 ^ n
SRsh(x, n) ==
    IF n >= WordBits THEN (IF Signed(x) < 0 THEN WordSize - 1 ELSE 0)
    ELSE Unsigned(Signed(x) \div 2 ^ n)
Byte(val, th) ==
    IF th >= WordBits \div ByteBits THEN 0
    ELSE (val \div 2 ^ (WordBits - ByteBits * (th + 1))) % 2 ^ ByteBits
ExtendSign(num, back) ==
    LET bits == ByteBits * (back + 1)
        low == num % 2 ^ bits
    IN  IF bits >= WordBits THEN num
        ELSE IF low >= 2 ^ (bits - 1) THEN Unsigned(low - 2 ^ bits) ELSE low

-----------------------------------------------------------------------------
(***************************************************************************)
(* Arithmetic (instructions.go).  The first operand is popped, the result  *)
(* replaces the last one.                                                  *)
(***************************************************************************)

Unary(st, f(_)) == SetTop(st, f(peek(st)))
Binary(st, f(_, _)) == SetTop(pop(st), f(peek(st), peek(pop(st))))
Truth(b) == IF b THEN 1 ELSE 0

opAdd(st) == Binary(st, LAMBDA x, y : Unsigned(x + y))
\* opSub as it would be with its operands in the other order.
opSub_Swapped(st) == Binary(st, LAMBDA x, y : Unsigned(y - x))
opSub(st) == Binary(st, LAMBDA x, y : Unsigned(x - y))
opMul(st) == Binary(st, LAMBDA x, y : Unsigned(x * y))
opDiv(st) == Binary(st, LAMBDA x, y : Div(x, y))
opSdiv(st) == Binary(st, LAMBDA x, y : SDiv(x, y))
opMod(st) == Binary(st, LAMBDA x, y : Mod(x, y))
opSmod(st) == Binary(st, LAMBDA x, y : SMod(x, y))
opExp(st) == Binary(st, LAMBDA base, exponent : Exp(base, exponent))
opSignExtend(st) == Binary(st, LAMBDA back, num : ExtendSign(num, back))
opNot(st) == Unary(st, LAMBDA x : WordSize - 1 - x)
opLt(st) == Binary(st, LAMBDA x, y : Truth(x < y))
opGt(st) == Binary(st, LAMBDA x, y : Truth(x > y))
opSlt(st) == Binary(st, LAMBDA x, y : Truth(Signed(x) < Signed(y)))
opSgt(st) == Binary(st, LAMBDA x, y : Truth(Signed(x) > Signed(y)))
opEq(st) == Binary(st, LAMBDA x, y : Truth(x = y))
opIszero(st) == Unary(st, LAMBDA x : Truth(x = 0))
opAnd(st) == Binary(st, LAMBDA x, y : x & y)
opOr(st) == Binary(st, LAMBDA x, y : x | y)
opXor(st) == Binary(st, LAMBDA x, y : x ^^ y)
opByte(st) == Binary(st, LAMBDA th, val : Byte(val, th))

opAddmod(st) ==
    LET x == Back(st, 0)
        y == Back(st, 1)
        z == Back(st, 2)
    IN  SetTop(pop(pop(st)), IF z = 0 THEN 0 ELSE Mod(x + y, z))

opMulmod(st) == SetTop(pop(pop(st)), Mod(Back(st, 0) * Back(st, 1), Back(st, 2)))

opSHL(st) == Binary(st, LAMBDA shift, value : IF shift < WordBits THEN Lsh(value, shift) ELSE 0)
opSHR(st) == Binary(st, LAMBDA shift, value : IF shift < WordBits THEN Rsh(value, shift) ELSE 0)

opSAR(st) ==
    Binary(st, LAMBDA shift, value :
                  IF shift > WordBits
                  THEN (IF Signed(value) >= 0 THEN 0 ELSE WordSize - 1)
                  ELSE SRsh(value, shift))

-----------------------------------------------------------------------------
(***************************************************************************)
(* How much of the stack an instruction uses and what it leaves instead,   *)
(* read off the pop, peek, push, dup and swap calls of its execute.        *)
(***************************************************************************)

Digits == 0..32

\* The k of an opcode of the family name0, name1, ...
Member(name, op) == {k \in Digits : op = name \o ToString(k)}

Uses(execute) ==
    LET dups == Member("DUP", execute)
        swaps == Member("SWAP", execute)
        logs == Member("LOG", execute)
    IN  CASE dups # {} -> Max(dups)
          [] swaps # {} -> Max(swaps) + 1
          [] logs # {} -> Max(logs) + 2
          [] execute \in {"CALL", "CALLCODE"} -> 7
          [] execute \in {"DELEGATECALL", "STATICCALL"} -> 6
          [] execute \in {"CREATE2", "EXTCODECOPY"} -> 4
          [] execute \in {"ADDMOD", "MULMOD", "CREATE", "CALLDATACOPY", "CODECOPY",
                          "RETURNDATACOPY"} -> 3
          [] execute \in {"ADD", "SUB", "MUL", "DIV", "SDIV", "MOD", "SMOD", "EXP",
                          "SIGNEXTEND", "LT", "GT", "SLT", "SGT", "EQ", "AND", "OR", "XOR",
                          "BYTE", "SHL", "SHR", "SAR", "KECCAK256", "MSTORE", "MSTORE8",
                          "SSTORE", "JUMPI", "RETURN", "REVERT"} -> 2
          [] execute \in {"NOT", "ISZERO", "BALANCE", "CALLDATALOAD", "EXTCODESIZE",
                          "EXTCODEHASH", "BLOCKHASH", "POP", "MLOAD", "SLOAD", "JUMP",
                          "SELFDESTRUCT"} -> 1
          [] OTHER -> 0

Leaves(execute) ==
    CASE Member("DUP", execute) # {} -> Uses(execute) + 1
      [] Member("SWAP", execute) # {} -> Uses(execute)
      [] Member("LOG", execute) # {} -> 0
      [] execute \in {"STOP", "Undefined", "POP", "CALLDATACOPY", "CODECOPY", "EXTCODECOPY",
                      "RETURNDATACOPY", "MSTORE", "MSTORE8", "SSTORE", "JUMP", "JUMPI",
                      "JUMPDEST", "RETURN", "REVERT", "SELFDESTRUCT"} -> 0
      [] OTHER -> 1

\* How deep a price or memory function looks: one more than its largest Back.
Looks(function) ==
    CASE function \in {"gasCall", "gasCallCode", "gasCallEIP2929", "gasCallCodeEIP2929",
                       "gasCreate2", "memoryCallDataCopy", "memoryReturnDataCopy",
                       "memoryCodeCopy", "memoryCreate", "memoryCreate2", "gasCallDataCopy",
                       "gasCodeCopy", "gasReturnDataCopy"} -> 3
      [] function = "memoryCall" -> 7
      [] function \in {"memoryDelegateCall", "memoryStaticCall"} -> 6
      [] function \in {"memoryExtCodeCopy", "gasExtCodeCopy", "gasExtCodeCopyEIP2929"} -> 4
      [] function \in {"gasSStore", "gasSStoreEIP2200", "gasSStoreEIP2929", "gasSStoreEIP3529",
                       "gasExpFrontier", "gasExpEIP158", "gasKeccak256", "memoryKeccak256",
                       "memoryReturn", "memoryRevert", "memoryLog", "gasDelegateCallEIP2929",
                       "gasStaticCallEIP2929", "gasLOG0", "gasLOG1", "gasLOG2", "gasLOG3",
                       "gasLOG4"} -> 2
      [] function \in {"memoryMLoad", "memoryMStore", "memoryMStore8", "gasDelegateCall",
                       "gasStaticCall", "gasSelfdestruct", "gasSelfdestructEIP2929",
                       "gasSelfdestructEIP3529", "gasSLoadEIP2929", "gasEip2929AccountCheck"} -> 1
      [] OTHER -> 0

-----------------------------------------------------------------------------
(***************************************************************************)
(* Jump destinations.  A code is a sequence of bytes, its positions count  *)
(* from 0; a bit vector is a sequence of bytes, bit pos is set when the    *)
(* byte at pos is data of a push.                                          *)
(***************************************************************************)

JUMPDEST == 91
PUSH1 == 96
PUSH32 == 127

OrByte(bits, i, a) == [bits EXCEPT ![i + 1] = @ | (a % 256)]
SetByte(bits, i, a) == [bits EXCEPT ![i + 1] = a]

setN(bits, numbits, pos) ==
    LET a == (2 ^ numbits - 1) * 2 ^ (pos % 8)
        b == a \div 256
        low == OrByte(bits, pos \div 8, a)
    IN  IF b # 0 THEN SetByte(low, (pos \div 8) + 1, b) ELSE low

set8(bits, pos) ==
    LET a == (255 * 2 ^ (pos % 8)) % 256
    IN  SetByte(OrByte(bits, pos \div 8, a), (pos \div 8) + 1, 255 - a)

\* set16 as it would be with the middle byte forgotten.
set16_Hole(bits, pos) ==
    LET a == (255 * 2 ^ (pos % 8)) % 256
    IN  SetByte(OrByte(bits, pos \div 8, a), (pos \div 8) + 2, 255 - a)

set16(bits, pos) ==
    LET a == (255 * 2 ^ (pos % 8)) % 256
    IN  SetByte(SetByte(OrByte(bits, pos \div 8, a), (pos \div 8) + 1, 255),
                (pos \div 8) + 2, 255 - a)

codeSegment(bits, pos) == (bits[(pos \div 8) + 1] \div 2 ^ (pos % 8)) % 2 = 0

RECURSIVE codeBitmapInternal(_, _, _, _)
\* bits with the data from pc on, numbits of which still belong to a push.
codeBitmapInternal(code, bits, pc, numbits) ==
    IF numbits >= 16 THEN codeBitmapInternal(code, set16(bits, pc), pc + 16, numbits - 16)
    ELSE IF numbits >= 8 THEN codeBitmapInternal(code, set8(bits, pc), pc + 8, numbits - 8)
    ELSE IF numbits > 0 THEN codeBitmapInternal(code, setN(bits, numbits, pc), pc + numbits, 0)
    ELSE IF pc >= Len(code) THEN bits
    ELSE LET op == code[pc + 1]
         IN  codeBitmapInternal(code, bits, pc + 1,
                                IF op >= 128 \/ op < PUSH1 THEN 0 ELSE op - PUSH1 + 1)

codeBitmap(code) ==
    codeBitmapInternal(code, [i \in 1..((Len(code) \div 8) + 1 + 4) |-> 0], 0, 0)

\* The analysis isCode uses, from those the calling contracts have left in
\* jumpdests; codes are told apart by their hash, so the code stands for it.
analysis(jumpdests, code) ==
    IF code \in DOMAIN jumpdests THEN jumpdests[code] ELSE codeBitmap(code)

validJumpdest(jumpdests, code, dest) ==
    /\ dest < Len(code)
    /\ code[dest + 1] = JUMPDEST
    /\ codeSegment(analysis(jumpdests, code), dest)

\* Where execution goes on after the instruction at pc: opPush1 and makePush
\* move over their data, the loop of Run over the instruction.
NextPc(code, pc) ==
    pc + 1 + (IF code[pc + 1] \in PUSH1..PUSH32 THEN code[pc + 1] - PUSH1 + 1 ELSE 0)

\* The bytes a push at pc reads: zeroes from the end of the code on.
Pushed(code, pc) ==
    LET size == code[pc + 1] - PUSH1 + 1
        startMin == Min({Len(code), pc + 1})
        endMin == Min({Len(code), startMin + size})
    IN  SubSeq(code, startMin + 1, endMin) \o [i \in 1..(size - (endMin - startMin)) |-> 0]

-----------------------------------------------------------------------------
(***************************************************************************)
(* The calls that are checked.                                             *)
(***************************************************************************)

Tables ==
    <<newFrontierInstructionSet, newHomesteadInstructionSet,
      newTangerineWhistleInstructionSet, newSpuriousDragonInstructionSet,
      newByzantiumInstructionSet, newConstantinopleInstructionSet,
      newIstanbulInstructionSet, newBerlinInstructionSet, newLondonInstructionSet,
      GetGenericJumpTable, enable3855(GetGenericJumpTable)>>

Init == call = [op |-> "none"]

Return(result) == call' = result

Compute(x, y, z) == Return([op |-> "compute", args |-> <<x, y, z>>])

LookUp(table, op) == Return([op |-> "lookup", operation |-> table[op]])

\* A contract jumps after its caller, whose analysis it shares, has.
Jump(caller, code) ==
    LET jumpdests == caller :> codeBitmap(caller)
    IN  Return([op |-> "jump", code |-> code,
                valid |-> {dest \in 0..Len(code) : validJumpdest(jumpdests, code, dest)},
                pushed |-> [pc \in {i \in 0..Len(code) - 1 : code[i + 1] \in PUSH1..PUSH32} |->
                               Pushed(code, pc)]])

Next ==
    /\ call.op = "none"
    /\ \/ \E x, y, z \in Values : Compute(x, y, z)
       \/ \E i \in DOMAIN Tables : \E op \in DOMAIN Tables[i] : LookUp(Tables[i], op)
       \/ \E code \in Codes : \E caller \in Callers \cup {code} : Jump(caller, code)

Spec == Init /\ [][Next]_call

-----------------------------------------------------------------------------
(***************************************************************************)
(* Properties.                                                             *)
(***************************************************************************)

\* What an instruction leaves for operands x (on top) and y.
With1(instruction(_), x) == instruction(<<x>>)[1]
With2(instruction(_), x, y) == instruction(<<y, x>>)[1]
With3(instruction(_), x, y, z) == instruction(<<z, y, x>>)[1]

DivisionLaws(x, y) ==
    LET Back2(divide(_), rest(_)) ==
            With2(opAdd, With2(opMul, With2(divide, x, y), y), With2(rest, x, y))
        rest == With2(opSmod, x, y)
    IN  IF y = 0
        THEN {With2(opDiv, x, y), With2(opMod, x, y), With2(opSdiv, x, y), rest} = {0}
        ELSE /\ Back2(opDiv, opMod) = x
             /\ With2(opLt, With2(opMod, x, y), y) = 1
             /\ Back2(opSdiv, opSmod) = x
             /\ rest # 0 => With2(opSlt, rest, 0) = With2(opSlt, x, 0)
             /\ Abs(Signed(rest)) < Abs(Signed(y))

ShiftLaws(n, x) ==
    LET negative == With2(opSlt, x, 0) = 1
        logical == With2(opSHR, n, x)
    IN  /\ With2(opSHL, n, x) = (IF n < WordBits THEN With2(opMul, x, With2(opExp, 2, n)) ELSE 0)
        /\ logical = (IF n < WordBits THEN With2(opDiv, x, With2(opExp, 2, n)) ELSE 0)
        /\ With2(opSAR, n, x) =
               (IF negative THEN With1(opNot, With2(opSHR, n, With1(opNot, x))) ELSE logical)

OrderLaws(x, y) ==
    LET Biased(w) == With2(opAdd, w, 2 ^ (WordBits - 1))
    IN  /\ With2(opLt, x, y) = With2(opGt, y, x)
        /\ With2(opSlt, x, y) = With2(opSgt, y, x)
        /\ With2(opSlt, x, y) = With2(opLt, Biased(x), Biased(y))
        /\ With2(opEq, x, y) = With1(opIszero, With2(opXor, x, y))
        /\ With2(opLt, x, y) + With2(opGt, x, y) + With2(opEq, x, y) = 1

BitLaws(x, y) ==
    LET bytes == WordBits \div ByteBits
        Above(k) == WordBits - ByteBits * (k + 1)
    IN  /\ With2(opXor, x, y) = With2(opSub, With2(opOr, x, y), With2(opAnd, x, y))
        /\ With1(opNot, x) = With2(opXor, x, WordSize - 1)
        /\ With2(opByte, x, y) =
               (IF x < bytes THEN With2(opAnd, With2(opSHR, Above(x), y), 2 ^ ByteBits - 1) ELSE 0)
        /\ With2(opSignExtend, x, y) =
               (IF x < bytes THEN With2(opSAR, Above(x), With2(opSHL, Above(x), y)) ELSE y)

\* The arithmetic instructions (instructions.go opAdd .. opSAR) take their
\* operands in the order in which they explain each other on every word:
\* subtraction undoes addition, quotient and remainder give the dividend back,
\* shifts are products with and quotients by powers of two up to the shift by
\* the whole width and beyond, comparison, bytes and sign extension agree with
\* the bits, and ADDMOD and MULMOD do not wrap before they reduce.
InstructionsAgree ==
    call.op = "compute" =>
        LET x == call.args[1]
            y == call.args[2]
            z == call.args[3]
        IN  /\ With2(opAdd, With2(opSub, x, y), y) = x
            /\ DivisionLaws(x, y)
            /\ ShiftLaws(x, y)
            /\ OrderLaws(x, y)
            /\ BitLaws(x, y)
            /\ With3(opAddmod, x, y, z) = (IF z = 0 THEN 0 ELSE (x + y) % z)
            /\ With3(opMulmod, x, y, z) = (IF z = 0 THEN 0 ELSE (x * y) % z)

\* The interpreter checks heights only against the table (interpreter.go:185):
\* in every instruction set a height is accepted exactly when the instruction
\* and its price and memory functions find their operands on the stack and the
\* result fits below the limit, and a row with a memory function has a price
\* function, which is what validate demands.
StackIsChecked ==
    call.op = "lookup" =>
        LET o == call.operation
            needs == Max({Uses(o.execute), Looks(o.dynamicGas), Looks(o.memorySize)})
        IN  /\ \A height \in (0..20) \cup ((StackLimit - 20)..StackLimit) :
                   (height >= o.minStack /\ height <= o.maxStack)
                   <=> (height >= needs
                        /\ height - Uses(o.execute) + Leaves(o.execute) <= StackLimit)
            /\ o.memorySize # "nil" => o.dynamicGas # "nil"

\* The positions at which execution from the start finds an instruction.
RECURSIVE Starts(_, _)
Starts(code, pc) == IF pc >= Len(code) THEN {} ELSE {pc} \cup Starts(code, NextPc(code, pc))

\* A jump is accepted exactly at the JUMPDEST bytes that are instructions when
\* the code is run from its start (analysis.go marks the data of pushes sixteen,
\* eight and fewer bits at a time, across the bytes of the vector and past the
\* end of the code), and a push reads the bytes it skips, with zeroes after the
\* end of the code (makePush).
JumpsLandOnCode ==
    call.op = "jump" =>
        LET code == call.code
        IN  /\ call.valid = {dest \in Starts(code, 0) : code[dest + 1] = JUMPDEST}
            /\ \A pc \in DOMAIN call.pushed :
                   /\ Len(call.pushed[pc]) = NextPc(code, pc) - pc - 1
                   /\ \A i \in DOMAIN call.pushed[pc] :
                          call.pushed[pc][i] =
                              (IF pc + i < Len(code) THEN code[pc + i + 1] ELSE 0)

=============================================================================
