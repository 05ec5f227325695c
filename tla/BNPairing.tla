----------------------------- MODULE BNPairing ------------------------------
(***************************************************************************)
(* The optimal Ate pairing of crypto/bn256 (optate.go) and the codecs of   *)
(* its groups (bn256.go), for either package: see BNFields for Reduced.    *)
(* A 32-byte group of an encoding is one number below WordBound.           *)
(***************************************************************************)
EXTENDS BNFields

CONSTANTS
  u, Order, curveB, twistB,
  sixuPlus2NAF     \* the signed digits of 6u+2, lowest first

gfP_square(a) == gfP_Mul(a, a)
gfP_minimal(a) == a % P
gfP_isZero(a) == a = 0
gfP_isOne(a) == a = 1 \/ a = -1

Curve == INSTANCE BNGroup WITH
  zero <- 0, one <- 1, b <- curveB, add <- gfP_Add, sub <- gfP_Sub, mul <- gfP_Mul,
  square <- gfP_square, neg <- gfP_Neg, invert <- gfP_Invert, minimal <- gfP_minimal,
  isZero <- gfP_isZero, isOne <- gfP_isOne

Twist == INSTANCE BNGroup WITH
  zero <- gfP2_Zero, one <- gfP2_One, b <- twistB, add <- gfP2_Add, sub <- gfP2_Sub,
  mul <- gfP2_Mul, square <- gfP2_Square, neg <- gfP2_Neg, invert <- gfP2_Invert,
  minimal <- gfP2_Minimal, isZero <- gfP2_IsZero, isOne <- gfP2_IsOne

\* The twist has more points than the group: the order is checked too.
twist_IsOnCurve(c) == Twist!IsOnCurve(c) /\ Twist!IsInfinity(Twist!Mul(c, Order))

-----------------------------------------------------------------------------
\* optate.go.  A line is its coefficients a, b, c and the next point r.
gfP2_Double(a) == gfP2_Add(a, a)

lineFunctionAdd(r, p, q, r2) ==
  LET B == gfP2_Mul(p[1], r[4])
      D == gfP2_Mul(gfP2_Sub(gfP2_Sub(gfP2_Square(gfP2_Add(p[2], r[3])), r2), r[4]), r[4])
      H == gfP2_Sub(B, r[1])
      I == gfP2_Square(H)
      E == gfP2_Double(gfP2_Double(I))
      J == gfP2_Mul(H, E)
      L1 == gfP2_Sub(gfP2_Sub(D, r[2]), r[2])
      V == gfP2_Mul(r[1], E)
      x == gfP2_Sub(gfP2_Sub(gfP2_Sub(gfP2_Square(L1), J), V), V)
      z == gfP2_Sub(gfP2_Sub(gfP2_Square(gfP2_Add(r[3], H)), r[4]), I)
      y == gfP2_Sub(gfP2_Mul(gfP2_Sub(V, x), L1), gfP2_Double(gfP2_Mul(r[2], J)))
      t == gfP2_Square(z)
      w == gfP2_Sub(gfP2_Sub(gfP2_Square(gfP2_Add(p[2], z)), r2), t)
  IN [a |-> gfP2_Sub(gfP2_Double(gfP2_Mul(L1, p[1])), w),
      b |-> gfP2_Double(gfP2_MulScalar(gfP2_Sub(gfP2_Zero, L1), q[1])),
      c |-> gfP2_Double(gfP2_MulScalar(z, q[2])),
      r |-> <<x, y, z, t>>]

lineFunctionDouble(r, q) ==
  LET A == gfP2_Square(r[1])
      B == gfP2_Square(r[2])
      C == gfP2_Square(B)
      D == gfP2_Double(gfP2_Sub(gfP2_Sub(gfP2_Square(gfP2_Add(r[1], B)), A), C))
      E == gfP2_Add(gfP2_Double(A), A)
      G == gfP2_Square(E)
      x == gfP2_Sub(gfP2_Sub(G, D), D)
      z == gfP2_Sub(gfP2_Sub(gfP2_Square(gfP2_Add(r[2], r[3])), B), r[4])
      y == gfP2_Sub(gfP2_Mul(gfP2_Sub(D, x), E), gfP2_Double(gfP2_Double(gfP2_Double(C))))
  IN [a |-> gfP2_Sub(gfP2_Sub(gfP2_Sub(gfP2_Square(gfP2_Add(r[1], E)), A), G),
                     gfP2_Double(gfP2_Double(B))),
      b |-> gfP2_MulScalar(gfP2_Sub(gfP2_Zero, gfP2_Double(gfP2_Mul(E, r[4]))), q[1]),
      c |-> gfP2_MulScalar(gfP2_Double(gfP2_Mul(z, r[4])), q[2]),
      r |-> <<x, y, z, gfP2_Square(z)>>]

mulLine(ret, l) ==
  LET a2 == gfP6_Mul(<<gfP2_Zero, l.a, l.b>>, ret[1])
      t3 == gfP6_MulScalar(ret[2], l.c)
      t2 == <<gfP2_Zero, l.a, gfP2_Add(l.b, l.c)>>
  IN <<gfP6_Sub(gfP6_Sub(gfP6_Mul(gfP6_Add(ret[1], ret[2]), t2), a2), t3),
       gfP6_Add(t3, gfP6_MulTau(a2))>>

\* The doublings and additions for the digits i, i - 1, ..., 2.
RECURSIVE millerFrom(_, _, _, _, _)
millerFrom(ret, r, q, p, i) ==
  LET digit == sixuPlus2NAF[i - 1]
      plus == IF digit = 1 THEN q ELSE Twist!Negative(q)
      squared == IF i = Len(sixuPlus2NAF) THEN ret ELSE gfP12_Square(ret)
  IN IF i = 1 THEN [ret |-> ret, r |-> r]
     ELSE With(lineFunctionDouble(r, p), LAMBDA l :
          With(mulLine(squared, l), LAMBDA f :
            IF digit = 0 THEN millerFrom(f, l.r, q, p, i - 1)
            ELSE With(lineFunctionAdd(l.r, plus, p, gfP2_Square(q[2])), LAMBDA m :
                 With(mulLine(f, m), LAMBDA g : millerFrom(g, m.r, q, p, i - 1)))))

\* Q1, the image of q under the P-th power, and minus that under the P^2-th.
frobeniusQ(q) ==
  <<gfP2_Mul(gfP2_Conjugate(q[1]), xiToPMinus1Over3),
    gfP2_Mul(gfP2_Conjugate(q[2]), xiToPMinus1Over2), gfP2_One, gfP2_One>>
minusFrobeniusP2Q(q) ==
  <<gfP2_MulScalar(q[1], xiToPSquaredMinus1Over3), q[2], gfP2_One, gfP2_One>>

miller(q, p) ==
  With(Twist!MakeAffine(q), LAMBDA aAffine :
  With(Curve!MakeAffine(p), LAMBDA bAffine :
  With(frobeniusQ(aAffine), LAMBDA q1 :
  With(minusFrobeniusP2Q(aAffine), LAMBDA minusQ2 :
  With(millerFrom(gfP12_One, aAffine, aAffine, bAffine, Len(sixuPlus2NAF)), LAMBDA m :
  With(lineFunctionAdd(m.r, q1, bAffine, gfP2_Square(q1[2])), LAMBDA l :
  With(lineFunctionAdd(l.r, minusQ2, bAffine, gfP2_Square(minusQ2[2])), LAMBDA n :
    With(mulLine(m.ret, l), LAMBDA f : mulLine(f, n)))))))))

finalExponentiation(in) ==
  With(gfP12_Mul(gfP12_Conjugate(in), gfP12_Invert(in)), LAMBDA e :
  With(gfP12_Mul(e, gfP12_FrobeniusP2(e)), LAMBDA f :
  With(gfP12_Exp(f, u), LAMBDA fu :
  With(gfP12_Exp(fu, u), LAMBDA fu2 :
  With(gfP12_Exp(fu2, u), LAMBDA fu3 :
    LET y0 == gfP12_Mul(gfP12_Mul(gfP12_Frobenius(f), gfP12_FrobeniusP2(f)),
                        gfP12_Frobenius(gfP12_FrobeniusP2(f)))
        y1 == gfP12_Conjugate(f)
        y2 == gfP12_FrobeniusP2(fu2)
        y3 == gfP12_Conjugate(gfP12_Frobenius(fu))
        y4 == gfP12_Conjugate(gfP12_Mul(fu, gfP12_Frobenius(fu2)))
        y5 == gfP12_Conjugate(fu2)
        y6 == gfP12_Conjugate(gfP12_Mul(fu3, gfP12_Frobenius(fu3)))
    IN With(gfP12_Mul(gfP12_Mul(gfP12_Square(y6), y4), y5), LAMBDA t0 :
       With(gfP12_Square(gfP12_Mul(gfP12_Mul(y3, y5), t0)), LAMBDA s1 :
       With(gfP12_Square(gfP12_Mul(s1, gfP12_Mul(t0, y2))), LAMBDA t1 :
       With(gfP12_Square(gfP12_Mul(t1, y1)), LAMBDA s0 :
         gfP12_Mul(s0, gfP12_Mul(t1, y0)))))))))))

\* bn256.go's PairingCheck, up to the final exponentiation: the product over the
\* pairs <<g1, g2>> from the i-th on.
RECURSIVE PairingCheckFrom(_, _, _)
PairingCheckFrom(acc, pairs, i) ==
  IF i > Len(pairs) THEN acc
  ELSE IF Curve!IsInfinity(pairs[i][1]) \/ Twist!IsInfinity(pairs[i][2])
  THEN PairingCheckFrom(acc, pairs, i + 1)
  ELSE With(gfP12_Mul(acc, miller(pairs[i][2], pairs[i][1])),
            LAMBDA f : PairingCheckFrom(f, pairs, i + 1))

-----------------------------------------------------------------------------
\* The codecs of bn256.go; <<>> where Unmarshal returns an error.  google
\* wants exactly the words of a point, cloudflare at least those.
Enough(m, n) == IF Reduced THEN Len(m) >= n ELSE Len(m) = n

G1_Marshal(p) ==
  With(Curve!MakeAffine(p), LAMBDA a :
    IF Curve!IsInfinity(p) THEN <<0, 0>> ELSE <<a[1] % P, a[2] % P>>)

G1_Unmarshal(m) ==
  IF ~Enough(m, 2) \/ m[1] >= P \/ m[2] >= P THEN <<>>
  ELSE IF m[1] = 0 /\ m[2] = 0 THEN Curve!Infinity
  ELSE LET p == <<m[1], m[2], 1, 1>>
       IN IF Curve!IsOnCurve(p) THEN p ELSE <<>>

G2_Marshal(p) ==
  With(Twist!MakeAffine(p), LAMBDA a :
    IF Twist!IsInfinity(p) THEN <<0, 0, 0, 0>>
    ELSE gfP2_Minimal(a[1]) \o gfP2_Minimal(a[2]))

G2_Unmarshal(m) ==
  IF ~Enough(m, 4) \/ \E i \in 1..4 : m[i] >= P THEN <<>>
  ELSE IF \A i \in 1..4 : m[i] = 0 THEN Twist!Infinity
  ELSE LET p == <<<<m[1], m[2]>>, <<m[3], m[4]>>, gfP2_One, gfP2_One>>
       IN IF twist_IsOnCurve(p) THEN p ELSE <<>>
=============================================================================
