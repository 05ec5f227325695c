------------------------------- MODULE Words -------------------------------
(***************************************************************************)
(* Numbers as sequences of N machine words of W bits, lowest first, with   *)
(* the operations of math/bits on one word and their chains over all the   *)
(* words.  The packages use words of 64 bits; here W and N are parameters. *)
(***************************************************************************)
EXTENDS Integers, Sequences

CONSTANTS W, N

Base == 2^W
R == Base^N

Add64(x, y, carry) == <<(x + y + carry) % Base, (x + y + carry) \div Base>>
Sub64(x, y, borrow) == <<(x - y - borrow) % Base, IF x - y - borrow < 0 THEN 1 ELSE 0>>

Digits(n) == <<>> \o [i \in 1..N |-> (n \div Base^(i - 1)) % Base]

RECURSIVE ValueFrom(_, _)
ValueFrom(x, i) == IF i > Len(x) THEN 0 ELSE x[i] + Base * ValueFrom(x, i + 1)
Value(x) == ValueFrom(x, 1)

\* Add64 or Sub64 along the words: the words of the result and what is left.
RECURSIVE Chain(_, _, _, _, _)
Chain(op(_, _, _), x, y, z, c) ==
  LET i == Len(z) + 1 IN
  IF i > Len(x) THEN <<z, c>>
  ELSE LET w == op(x[i], y[i], c) IN Chain(op, x, y, Append(z, w[1]), w[2])
AddWords(x, y) == Chain(Add64, x, y, <<>>, 0)
SubWords(x, y) == Chain(Sub64, x, y, <<>>, 0)
=============================================================================
