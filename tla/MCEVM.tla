-------------------------------- MODULE MCEVM --------------------------------
(***************************************************************************)
(* The contract machine in three parts, each on an instance of its own:    *)
(* the frames and the state they change (EVM), what instructions compute   *)
(* (Instructions), and what they and the native contracts cost (GasTable). *)
(* The first state says which part moves.                                  *)
(*                                                                         *)
(* EVM runs with a contract that is there, an address another may be       *)
(* created at, and a native one; a view has the gas for a static call      *)
(* inside it and a write after that.                                       *)
(***************************************************************************)
EXTENDS EVM

VARIABLES
  part,
  executed,
  priced

-----------------------------------------------------------------------------
\* Words of four bits in two bytes; code with a push of each length at and about
\* the boundaries of setN, set8 and set16, followed by jump destinations.
I == INSTANCE Instructions WITH
  call <- executed,
  WordBits <- 4, ByteBits <- 2,
  Values <- 0..15,
  Codes <- {[i \in 1..k |-> 0] \o <<95 + n>> \o [i \in 1..m |-> 91] \o t :
              k \in {0, 3, 7}, n \in {1, 2, 7, 8, 9, 15, 16, 17, 31, 32},
              m \in {0, 6, 15, 33}, t \in {<<>>, <<97, 91, 91, 91>>, <<128, 91>>}},
  Callers <- {<<96, 91, 91>>}

\* Counters of 26 bits, operands at and about the limits of memory and counters.
MaxUint == 2 ^ 26 - 1

MaxMemory == (2 ^ 13 - 1) * 32

G == INSTANCE GasTable WITH
  call <- priced,
  UintBits <- 26,
  Operands <- {0, 1, 33, MaxMemory - 31, MaxMemory + 1, MaxUint - 31, MaxUint, MaxUint + 33},
  Regions <- {<<0, 65>>, <<MaxUint + 1, 0>>, <<MaxUint, 1>>, <<1, MaxUint + 1>>, <<MaxMemory - 64, 64>>},
  Requests <- {0, 30000, MaxUint, MaxUint + 1},
  Gases <- {99, 2300, 9100, 34100, MaxUint},
  Lengths <- {32 * n : n \in 0..60} \cup {32 * n : n \in 600..700}
             \cup {160 * n - 1 : n \in {1, 2, 127, 128, 129}},
  ExponentSizes <- {0, 32, 33, 300},
  BaseSizes <- {0, 1, 31, 32, 64, 1024}

-----------------------------------------------------------------------------
MCInit == part \in {"machine", "instructions", "gas"} /\ Init /\ I!Init /\ G!Init

MCNext ==
  \/ part = "machine" /\ Next /\ UNCHANGED <<part, executed, priced>>
  \/ part = "instructions" /\ I!Next /\ UNCHANGED <<part, vars, priced>>
  \/ part = "gas" /\ G!Next /\ UNCHANGED <<part, vars, executed>>

MCSpec == MCInit /\ [][MCNext]_<<part, vars, executed, priced>>

-----------------------------------------------------------------------------
\* The arithmetic instructions (instructions.go opAdd .. opSAR) take their
\* operands in the order in which they explain each other on every word:
\* subtraction undoes addition, quotient and remainder give the dividend back,
\* shifts are products with and quotients by powers of two up to the shift by
\* the whole width and beyond, comparison, bytes and sign extension agree with
\* the bits, and ADDMOD and MULMOD do not wrap before they reduce.
InstructionsAgree == I!InstructionsAgree

\* The interpreter checks heights only against the table (interpreter.go:185):
\* in every instruction set a height is accepted exactly when the instruction
\* and its price and memory functions find their operands on the stack and the
\* result fits below the limit, and a row with a memory function has a price
\* function, which is what validate demands.
StackIsChecked == I!StackIsChecked

\* A jump is accepted exactly at the JUMPDEST bytes that are instructions when
\* the code is run from its start (analysis.go marks the data of pushes sixteen,
\* eight and fewer bits at a time, across the bytes of the vector and past the
\* end of the code), and a push reads the bytes it skips, with zeroes after the
\* end of the code (makePush).
JumpsLandOnCode == I!JumpsLandOnCode

\* An instruction is executed exactly when the memory it needs is below the
\* limit and the gas left pays the price computed in unbounded integers, and
\* then exactly that price is taken: no product, sum, subtraction from the gas
\* left (gas.go:38) or return of the cold surcharge (operations_acl.go:193)
\* wraps around, and a callee gets what it asked for or, under EIP150, at most
\* all but a 64th of what is left.  A native contract never costs less for more
\* input: over the cases of the price of an exponentiation, its cap and its
\* floor, and over the falling discounts past the end of their table.
GasExact == G!GasExact /\ G!MoreCostsMore

\* What an instruction reads and writes of the memory lies inside of it when it
\* is executed (memory.go panics, or returns nothing, otherwise), and the fee
\* the memory remembers is the fee of its length, so that the next expansion
\* pays the difference only.
MemoryCovered == G!MemoryCovered

\* What the writes to a slot cost together, refunds subtracted, depends on the
\* committed and the last value and the number of writes only, and the refund
\* counter never goes below zero on the way, as the comment at gas_table.go:137
\* claims; a contract with no more than the stipend of a call left cannot write.
RefundsMatchWrites == G!RefundsMatchWrites

=============================================================================
