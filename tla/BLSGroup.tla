------------------------------ MODULE BLSGroup ------------------------------
(***************************************************************************)
(* The group code of crypto/bls12381, g1.go and g2.go: points in Jacobian  *)
(* coordinates <<X, Y, Z>> standing for (X/Z^2, Y/Z^3), or for infinity    *)
(* when Z is zero.  The two files are one text over two fields; the field  *)
(* is the operators below, and BLSPairing instantiates it for both.         *)
(*                                                                         *)
(* A field element read from bytes is a word <<pad, n>>: pad tells whether *)
(* the 16 leading bytes of a 64 byte word are zero, n is the number in the *)
(* other 48, which may be P or more.                                       *)
(***************************************************************************)
EXTENDS Integers, Sequences

CONSTANTS
  zero, one, b, q,
  add(_, _), sub(_, _), mul(_, _), neg(_), inverse(_),
  isValid(_),     \* are these numbers less than the modulus
  fromBytes(_),   \* the element <<n>> or <<n1, n0>> encodes
  toBytes(_),
  Width           \* numbers in the encoding of one field element

Zero == <<zero, one, zero>>
square(a) == mul(a, a)
double(a) == add(a, a)
BitLen(n) == CHOOSE l \in 0..31 : (IF l = 31 THEN TRUE ELSE n < 2^l)
                                  /\ (l = 0 \/ n >= 2^(l - 1))

IsZero(p) == p[3] = zero

\* In affine form: X1/Z1^2 = X2/Z2^2 and Y1/Z1^3 = Y2/Z2^3.
Equal(p1, p2) ==
  IF IsZero(p1) \/ IsZero(p2) THEN IsZero(p1) /\ IsZero(p2)
  ELSE LET t0 == square(p1[3])
           t1 == square(p2[3])
       IN /\ mul(mul(t0, p1[3]), p2[2]) = mul(mul(t1, p2[3]), p1[2])
          /\ mul(t0, p2[1]) = mul(t1, p1[1])

IsOnCurve(p) ==
  \/ IsZero(p)
  \/ LET z2 == square(p[3])
     IN square(p[2]) = add(mul(square(p[1]), p[1]), mul(b, mul(z2, square(z2))))

Affine(p) ==
  IF IsZero(p) \/ p[3] = one THEN p
  ELSE LET t0 == inverse(p[3])
           t1 == square(t0)
       IN <<mul(p[1], t1), mul(p[2], mul(t0, t1)), one>>

\* dbl-2009-l.
Double(p) ==
  IF IsZero(p) THEN p
  ELSE LET a == square(p[1])
           bb == square(p[2])
           c == square(bb)
           d == double(sub(sub(square(add(p[1], bb)), a), c))
           e == add(double(a), a)
           x == sub(square(e), double(d))
       IN <<x, sub(mul(e, sub(d, x)), double(double(double(c)))),
            double(mul(p[2], p[3]))>>

\* add-2007-bl, with the cases the formula does not cover.
Add(p1, p2) ==
  LET t7 == square(p1[3])
      t8 == square(p2[3])
      u2 == mul(p2[1], t7)
      s2 == mul(p2[2], mul(p1[3], t7))
      u1 == mul(p1[1], t8)
      s1 == mul(p1[2], mul(p2[3], t8))
      h == sub(u2, u1)
      i == square(double(h))
      j == mul(h, i)
      r == double(sub(s2, s1))
      v == mul(u1, i)
      x == sub(sub(square(r), j), double(v))
  IN CASE IsZero(p1) -> p2
       [] ~IsZero(p1) /\ IsZero(p2) -> p1
       [] ~IsZero(p1) /\ ~IsZero(p2) /\ u2 = u1 ->
            IF s2 = s1 THEN Double(p1) ELSE Zero
       [] OTHER ->
            <<x, sub(mul(r, sub(v, x)), double(mul(s1, j))),
              mul(sub(sub(square(add(p1[3], p2[3])), t7), t8), h)>>

Neg(p) == <<p[1], neg(p[2]), p[3]>>
\* A mutant: the wrong operand is negated.
Sub_Swapped(a, c) == Add(c, Neg(a))
Sub(a, c) == Add(a, Neg(c))

\* From the lowest bit, the accumulator starting as the all-zero point.
RECURSIVE MulScalarFrom(_, _, _)
MulScalarFrom(acc, n, e) ==
  IF e = 0 THEN acc
  ELSE MulScalarFrom(IF e % 2 = 1 THEN Add(acc, n) ELSE acc, Double(n), e \div 2)
MulScalar(p, e) == MulScalarFrom(<<zero, zero, zero>>, p, e)

InCorrectSubgroup(p) == IsZero(MulScalar(p, q))

\* Pippenger: for each window of c bits the points are collected in buckets
\* by their digit, the buckets are summed with weights 1..2^c - 1, and the
\* windows are joined from the top.  BitLen(q) \div c + 1 windows are read.
WindowSize(n) == IF n < 32 THEN 3 ELSE CHOOSE c \in 1..9 : 10^(c - 1) < n /\ n <= 10^c

RECURSIVE Bucket(_, _, _, _, _)
Bucket(acc, points, digits, d, i) ==
  IF i > Len(points) THEN acc
  ELSE Bucket(IF digits[i] = d THEN Add(acc, points[i]) ELSE acc, points, digits, d, i + 1)

\* sum and acc after the buckets from d down to 1.
RECURSIVE Weigh(_, _, _, _, _)
Weigh(sum, acc, points, digits, d) ==
  IF d = 0 THEN acc
  ELSE LET s == Add(sum, Bucket(Zero, points, digits, d, 1))
       IN Weigh(s, Add(acc, s), points, digits, d - 1)

RECURSIVE Doubles(_, _)
Doubles(p, c) == IF c = 0 THEN p ELSE Doubles(Double(p), c - 1)

Digits(powers, c, w) == [i \in 1..Len(powers) |-> (powers[i] \div 2^(c * w)) % 2^c]

RECURSIVE Windows(_, _, _, _, _)
Windows(acc, points, powers, c, w) ==
  IF w < 0 THEN acc
  ELSE Windows(Add(Doubles(acc, c), Weigh(Zero, Zero, points, Digits(powers, c, w), 2^c - 1)),
               points, powers, c, w - 1)
MultiExp(points, powers) ==
  IF Len(points) # Len(powers) THEN <<>>
  ELSE LET c == WindowSize(Len(powers))
       IN Windows(Zero, points, powers, c, BitLen(q) \div c)

-----------------------------------------------------------------------------
\* Two encoded elements to a point; <<>> is the error.  (0, 0) is infinity.
FromBytes(in) ==
  IF Len(in) # 2 * Width \/ ~isValid(in) THEN <<>>
  ELSE LET x == fromBytes(SubSeq(in, 1, Width))
           y == fromBytes(SubSeq(in, Width + 1, 2 * Width))
           p == <<x, y, one>>
       IN IF x = zero /\ y = zero THEN Zero
          ELSE IF IsOnCurve(p) THEN p ELSE <<>>

ToBytes(p) ==
  IF IsZero(p) THEN [i \in 1..(2 * Width) |-> 0]
  ELSE LET a == Affine(p) IN toBytes(a[1]) \o toBytes(a[2])

\* The precompiles' encoding: 64 byte words, of which decodeFieldElement
\* requires 16 leading zero bytes; the coefficients of an fe2 come in the
\* opposite order of ToBytes.
Reversed(s) == <<>> \o [i \in 1..Len(s) |-> s[(((i - 1) \div Width) + 1) * Width - ((i - 1) % Width)]]
DecodePoint(in) ==
  IF Len(in) # 2 * Width \/ \E i \in 1..Len(in) : in[i][1] # 0 THEN <<>>
  ELSE FromBytes(Reversed([i \in 1..Len(in) |-> in[i][2]]))
EncodePoint(p) ==
  LET raw == Reversed(ToBytes(p)) IN [i \in 1..Len(raw) |-> <<0, raw[i]>>]

-----------------------------------------------------------------------------
\* The contracts on a whole input of words, a scalar being one word; <<>> is an
\* error of theirs.  A point comes first, then the other point or the scalar.
AddRun(in) ==
  LET p0 == DecodePoint(SubSeq(in, 1, 2 * Width))
      p1 == DecodePoint(SubSeq(in, 2 * Width + 1, 4 * Width))
  IN IF Len(in) # 4 * Width \/ p0 = <<>> \/ p1 = <<>> THEN <<>> ELSE EncodePoint(Add(p0, p1))

MulRun(in) ==
  LET p0 == DecodePoint(SubSeq(in, 1, 2 * Width))
  IN IF Len(in) # 2 * Width + 1 \/ p0 = <<>> THEN <<>>
     ELSE EncodePoint(MulScalar(p0, in[2 * Width + 1][2]))

MultiExpRun(in) ==
  LET size == 2 * Width + 1
      k == Len(in) \div size
      points == <<>> \o [i \in 1..k |-> DecodePoint(SubSeq(in, (i - 1) * size + 1, i * size - 1))]
  IN IF Len(in) = 0 \/ Len(in) % size # 0 \/ \E i \in 1..k : points[i] = <<>> THEN <<>>
     ELSE EncodePoint(MultiExp(points, [i \in 1..k |-> in[i * size][2]]))
=============================================================================
