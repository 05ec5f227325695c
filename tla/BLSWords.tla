------------------------------ MODULE BLSWords ------------------------------
(***************************************************************************)
(* crypto/bls12381, the base field in machine words: arithmetic_fallback.go*)
(* (what a processor without the assembly runs), and inverse, toMont and   *)
(* fromMont of fp.go.  A field element is kept as N words, times R modulo  *)
(* the prime.  One call is made with arguments from the sets below; call   *)
(* records what it returned.                                               *)
(***************************************************************************)
EXTENDS Words, BigInts

CONSTANTS
  modulus,      \* the prime; it leaves three bits of the highest word free
  inp,          \* -1/modulus modulo the base, as the code tabulates it
  BitLength,    \* bits of modulus, 381 in the code
  Reduced,      \* numbers below the modulus
  Loose         \* what ladd and ldouble may leave: below twice the modulus

VARIABLE call

vars == call

q == Digits(modulus)

-----------------------------------------------------------------------------
\* The highest word that differs decides.
RECURSIVE cmpFrom(_, _, _)
cmpFrom(x, y, i) == IF i = 0 THEN 0 ELSE IF x[i] > y[i] THEN 1
                    ELSE IF x[i] < y[i] THEN -1 ELSE cmpFrom(x, y, i - 1)
cmp(x, y) == cmpFrom(x, y, N)

\* "if z > q": the conditional subtraction at the end of add, double and mul.
subtractModulus(z) == IF cmp(z, q) = -1 THEN z ELSE SubWords(z, q)[1]

ladd(x, y) == AddWords(x, y)[1]
lsub(x, y) == SubWords(x, y)[1]
add(x, y) == subtractModulus(ladd(x, y))
double(x) == subtractModulus(ladd(x, x))
sub(x, y) == LET d == SubWords(x, y) IN IF d[2] # 0 THEN ladd(d[1], q) ELSE d[1]
neg(x) == IF Value(x) = 0 THEN x ELSE lsub(q, x)

\* hi, lo of a b + c + d; madd0 and madd1 leave addends out, madd3 adds e to hi.
madd2(a, b, c, d) == LET v == a * b + c + d IN <<(v \div Base) % Base, v % Base>>
madd3(a, b, c, d, e) == LET v == a * b + c + d IN <<((v \div Base) + e) % Base, v % Base>>

\* superhi, hi, lo of 2 a b + c + e, with d added to hi: superhi is the carry
\* of the doubling alone, and what the additions carry out of hi is lost.
madd2s(a, b, c, d, e) ==
  LET p == 2 * a * b
      v == (p % (Base * Base)) + c + e
  IN <<p \div (Base * Base), ((v \div Base) + d) % Base, v % Base>>

-----------------------------------------------------------------------------
\* A round of mul: row v of the product is added to t and one word is reduced
\* away.  In round 0 the words of t are zero.
RECURSIVE mulRow(_, _, _, _, _, _, _)
mulRow(v, m, y, t, c1, c2, out) ==
  LET j == Len(out) + 2
      h == madd2(v, y[j], c1, t[j])
      g == madd2(m, q[j], c2, h[2])
      f == madd3(m, q[j], h[2], c2, h[1])
  IN IF j = N THEN out \o <<f[2], f[1]>>
     ELSE mulRow(v, m, y, t, h[1], g[1], Append(out, g[2]))

mulRound(v, y, t) ==
  LET h == madd2(v, y[1], t[1], 0)
      m == (h[2] * inp) % Base
  IN mulRow(v, m, y, t, h[1], madd2(m, q[1], h[2], 0)[1], <<>>)

RECURSIVE mulFrom(_, _, _, _)
mulFrom(x, y, t, i) == IF i > N THEN t ELSE mulFrom(x, y, mulRound(x[i], y, t), i + 1)
\* A mutant: the product is not reduced below the modulus at the end.
mul_Unreduced(x, y) == mulFrom(x, y, Digits(0), 1)
mul(x, y) == subtractModulus(mulFrom(x, y, Digits(0), 1))

\* square computes row i only from x[i]^2 on and doubles the products right of
\* it; the carries t and u run along the row.  Before x[i]^2 it passes p on.
RECURSIVE squareRow(_, _, _, _, _, _, _, _)
squareRow(x, i, m, p, C, t, u, out) ==
  LET j == Len(out) + 2
      s == IF j < i THEN <<0, 0, p[j]>>
           ELSE IF j = i THEN <<0>> \o madd2(x[i], x[i], p[j], 0)
           ELSE madd2s(x[i], x[j], p[j], t, u)
      g == madd2(m, q[j], s[3], C)
      f == madd3(m, q[j], s[3], C, s[2])
  IN IF j = N THEN out \o <<f[2], f[1]>>
     ELSE squareRow(x, i, m, p, g[1], s[1], s[2], Append(out, g[2]))

squareRound(x, i, p) ==
  LET s == IF i = 1 THEN madd2(x[1], x[1], 0, 0) ELSE <<0, p[1]>>
      m == (s[2] * inp) % Base
  IN squareRow(x, i, m, p, madd2(m, q[1], s[2], 0)[1], 0, s[1], <<>>)

RECURSIVE squareFrom(_, _, _)
squareFrom(x, p, i) == IF i > N THEN p ELSE squareFrom(x, squareRound(x, i, p), i + 1)
square(x) == subtractModulus(squareFrom(x, Digits(0), 1))

\* r2 = R^2 modulo the prime.
toMont(a) == mul(a, Digits((R * R) % modulus))
fromMont(a) == mul(a, Digits(1))

-----------------------------------------------------------------------------
\* inverse: Kaliski's almost inverse.  u, v, r, s are N words; r's doubling
\* may carry out, which z remembers.
Even(x) == x[1] % 2 = 0
mul2(x) == ladd(x, x)
carryOf(x) == AddWords(x, x)[2]
div2(x) == Digits(Value(x) \div 2)

Halve(t) ==
  IF Even(t.u) THEN [t EXCEPT !.u = div2(@), !.s = mul2(@)]
  ELSE IF Even(t.v) THEN [t EXCEPT !.v = div2(@), !.r = mul2(@), !.z = @ + carryOf(t.r)]
  ELSE IF cmp(t.u, t.v) = 1
       THEN [t EXCEPT !.u = div2(lsub(@, t.v)), !.r = ladd(@, t.s), !.s = mul2(@)]
  ELSE [t EXCEPT !.v = div2(lsub(@, t.u)), !.r = mul2(@), !.s = ladd(@, t.r), !.z = @ + carryOf(t.r)]

RECURSIVE phase1(_, _)
phase1(t, k) ==
  IF k = 2 * N * W THEN [found |-> FALSE]
  ELSE IF Value(t.v) = 0 THEN [found |-> TRUE, r |-> t.r, z |-> t.z, k |-> k]
  ELSE With(Halve(t), LAMBDA h : phase1(h, k + 1))

RECURSIVE phase2(_, _)
phase2(u, i) == IF i >= 2 * N * W THEN u ELSE With(double(u), LAMBDA d : phase2(d, i + 1))

inverse(e) ==
  LET f == phase1([u |-> q, v |-> e, r |-> Digits(0), s |-> Digits(1), z |-> 0], 0)
      r == IF cmp(f.r, q) # -1 \/ f.z > 0 THEN lsub(f.r, q) ELSE f.r
  IN IF Value(e) = 0 \/ ~f.found THEN Digits(0)
     ELSE IF f.k < BitLength \/ f.k > BitLength + N * W THEN Digits(0)
     ELSE phase2(lsub(q, r), f.k)

-----------------------------------------------------------------------------
Init == call = [op |-> "none"]

Return(op, in, out) ==
  /\ call.op = "none"
  /\ call' = [op |-> op, in |-> in, out |-> out]

Add == \E x, y \in Reduced : Return("add", <<x, y>>, add(Digits(x), Digits(y)))
Sub == \E x, y \in Reduced : Return("sub", <<x, y>>, sub(Digits(x), Digits(y)))
Unary == \E x \in 0..(modulus - 1) :
  \/ Return("double", x, double(Digits(x)))
  \/ Return("neg", x, neg(Digits(x)))
  \/ Return("square", x, square(Digits(x)))
  \/ Return("inverse", x, inverse(Digits(x)))
  \/ Return("mont", x, fromMont(toMont(Digits(x))))
Mul == \E x \in Loose, y \in Reduced : Return("mul", <<x, y>>, mul(Digits(x), Digits(y)))

Next == Add \/ Sub \/ Unary \/ Mul

Spec == Init /\ [][Next]_vars

-----------------------------------------------------------------------------
\* Word by word, with truncated carries and one conditional subtraction, the
\* functions of arithmetic_fallback.go compute in the field: sums, differences
\* and negatives modulo the prime, products divided by R, and R^2 over the
\* element for inverse; every result is below the prime, though mul is also
\* given the unreduced sums of ladd and ldouble.  square is mul of an element with
\* itself while no word of it has its highest bit set; with one, madd2s may lose a
\* carry.
MontgomeryAgrees ==
  LET out == Value(call.out)
      Is(n) == out < modulus /\ (out - n) % modulus = 0
  IN /\ call.op = "add" => Is(call.in[1] + call.in[2])
     /\ call.op = "sub" => Is(call.in[1] - call.in[2])
     /\ call.op = "double" => Is(2 * call.in)
     /\ call.op = "neg" => Is(-call.in)
     /\ call.op = "mont" => Is(call.in)
     /\ call.op = "mul" => out < modulus /\ (out * R - call.in[1] * call.in[2]) % modulus = 0
     /\ call.op = "square" /\ (\A i \in 1..N : Digits(call.in)[i] < Base \div 2) =>
          call.out = mul(Digits(call.in), Digits(call.in))
     /\ call.op = "inverse" =>
          IF call.in = 0 THEN out = 0
          ELSE out < modulus /\ (out * call.in - R * R) % modulus = 0
=============================================================================
