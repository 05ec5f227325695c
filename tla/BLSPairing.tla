----------------------------- MODULE BLSPairing -----------------------------
(***************************************************************************)
(* crypto/bls12381: the groups G1 (over fp) and G2 (over fp2), the pairing *)
(* engine (pairing.go) and the maps from field elements to the groups      *)
(* (swu.go, isogeny.go, MapToCurve).                                       *)
(*                                                                         *)
(* The code's curve constants are CONSTANTS here, so that the algorithms   *)
(* can be evaluated over a small prime.  The code has one subgroup order   *)
(* q for both groups; the small curves have one each.                      *)
(***************************************************************************)
EXTENDS BLSFields

CONSTANTS
  x,                          \* the curve parameter is -x
  q1, q2,                     \* subgroup orders
  cofactorEFFG1, cofactorEFFG2,
  swuParamsForG1, swuParamsForG2,          \* records z, zInv, a, b, minusBOverA
  isogenyConstantsG1, isogenyConstantsG2   \* 4 sequences of degree + 1 coefficients

validBytes(in) == \A i \in 1..Len(in) : in[i] < P
fp_fromBytes(in) == in[1]
fp_toBytes(a) == <<a>>
fp2_fromBytes(in) == <<in[2], in[1]>>
fp2_toBytes(a) == <<a[2], a[1]>>

G1 == INSTANCE BLSGroup WITH
  zero <- 0, one <- 1, b <- 4 % P, q <- q1, Width <- 1,
  add <- fp_add, sub <- fp_sub, mul <- fp_mul, neg <- fp_neg, inverse <- fp_inverse,
  isValid <- validBytes, fromBytes <- fp_fromBytes, toBytes <- fp_toBytes
G2 == INSTANCE BLSGroup WITH
  zero <- fp2_zero, one <- fp2_one, b <- <<4 % P, 4 % P>>, q <- q2, Width <- 2,
  add <- fp2_add, sub <- fp2_sub, mul <- fp2_mul, neg <- fp2_neg, inverse <- fp2_inverse,
  isValid <- validBytes, fromBytes <- fp2_fromBytes, toBytes <- fp2_toBytes

-----------------------------------------------------------------------------
\* pairing.go.  r is a point in homogeneous coordinates (X/Z, Y/Z); a step
\* returns the line's coefficients and the new r.  The line through the
\* points is coeff[1] + coeff[2] X + coeff[3] Y.
twoInv == (P + 1) \div 2

doublingStep(r) ==
  LET t0 == fp2_mulByFq(fp2_mul(r[1], r[2]), twoInv)
      t1 == fp2_square(r[2])
      t2 == fp2_square(r[3])
      t3 == fp2_mulByB(fp2_add(fp2_double(t2), t2))
      t4 == fp2_add(fp2_double(t3), t3)
      t5 == fp2_mulByFq(fp2_add(t1, t4), twoInv)
      t6 == fp2_sub(fp2_square(fp2_add(r[2], r[3])), fp2_add(t2, t1))
      t7 == fp2_square(r[1])
      s3 == fp2_square(t3)
  IN [coeff |-> <<fp2_sub(t3, t1), fp2_add(fp2_double(t7), t7), fp2_neg(t6)>>,
      r |-> <<fp2_mul(fp2_sub(t1, t4), t0),
              fp2_sub(fp2_square(t5), fp2_add(fp2_double(s3), s3)),
              fp2_mul(t1, t6)>>]

additionStep(r, q) ==
  LET t0 == fp2_add(fp2_neg(fp2_mul(q[2], r[3])), r[2])
      t1 == fp2_add(fp2_neg(fp2_mul(q[1], r[3])), r[1])
      t4 == fp2_mul(t1, fp2_square(t1))
      t2 == fp2_mul(r[3], fp2_square(t0))
      t3 == fp2_mul(r[1], fp2_square(t1))
      t5 == fp2_add(fp2_sub(t4, fp2_double(t3)), t2)
  IN [coeff |-> <<fp2_sub(fp2_mul(t0, q[1]), fp2_mul(t1, q[2])), fp2_neg(t0), t1>>,
      r |-> <<fp2_mul(t1, t5),
              fp2_sub(fp2_mul(fp2_sub(t3, t5), t0), fp2_mul(r[2], t4)),
              fp2_mul(r[3], t4)>>]

\* The coefficients of the lines, in the order the Miller loop uses them.
RECURSIVE preComputeFrom(_, _, _, _)
preComputeFrom(ellCoeffs, r, twistPoint, i) ==
  IF i < 0 THEN ellCoeffs
  ELSE LET d == doublingStep(r)
           a == additionStep(d.r, twistPoint)
           s == IF Bit(x, i) # 0 THEN [l |-> <<d.coeff, a.coeff>>, r |-> a.r]
                                 ELSE [l |-> <<d.coeff>>, r |-> d.r]
       IN With(s, LAMBDA v : preComputeFrom(ellCoeffs \o v.l, v.r, twistPoint, i - 1))
preCompute(twistPoint) == preComputeFrom(<<>>, twistPoint, twistPoint, BitLen(x) - 2)

\* f times line j of every pair, evaluated at the pair's point of G1.
RECURSIVE mulLines(_, _, _, _, _)
mulLines(f, pairs, ellCoeffs, j, i) ==
  IF i > Len(pairs) THEN f
  ELSE LET c == ellCoeffs[i][j]
           p == pairs[i][1]
       IN With(fp12_mulBy014Assign(f, c[1], fp2_mulByFq(c[2], p[1]), fp2_mulByFq(c[3], p[2])),
               LAMBDA g : mulLines(g, pairs, ellCoeffs, j, i + 1))

RECURSIVE millerFrom(_, _, _, _, _)
millerFrom(f, pairs, ellCoeffs, j, i) ==
  IF i < 0 THEN f
  ELSE LET s == IF i # BitLen(x) - 2 THEN fp12_square(f) ELSE f
           d == mulLines(s, pairs, ellCoeffs, j, 1)
           m == IF Bit(x, i) # 0 THEN mulLines(d, pairs, ellCoeffs, j + 1, 1) ELSE d
           k == IF Bit(x, i) # 0 THEN j + 2 ELSE j + 1
       IN With(m, LAMBDA v : millerFrom(v, pairs, ellCoeffs, k, i - 1))
millerLoop(pairs) ==
  LET ellCoeffs == <<>> \o [i \in 1..Len(pairs) |-> preCompute(pairs[i][2])]
  IN fp12_conjugate(millerFrom(fp12_one, pairs, ellCoeffs, 1, BitLen(x) - 2))

exp(a) == fp12_conjugate(fp12_cyclotomicExp(a, x))

\* The easy part, and the hard part with the code's numbering of the t's.
finalExp(f) ==
  With(fp12_mul(fp12_frobeniusMap(f, 6), fp12_inverse(f)), LAMBDA e :
  With(fp12_mulAssign(fp12_frobeniusMapAssign(e, 2), e), LAMBDA t2 :
  With(exp(t2), LAMBDA t3 :
  With(fp12_mul(fp12_conjugate(fp12_cyclotomicSquare(t2)), t3), LAMBDA t5 :
  With(exp(t5), LAMBDA t1 :
  With(exp(t1), LAMBDA t0 :
  With(fp12_mulAssign(exp(t0), fp12_cyclotomicSquare(t3)), LAMBDA t6 :
    LET t4 == fp12_mulAssign(fp12_mulAssign(exp(t6), fp12_conjugate(t5)), t2)
        f1 == fp12_frobeniusMapAssign(fp12_mulAssign(t1, t2), 3)
        f6 == fp12_frobeniusMapAssign(fp12_mulAssign(t6, fp12_conjugate(t2)), 1)
        f3 == fp12_frobeniusMapAssign(fp12_mulAssign(t3, t0), 2)
    IN fp12_mul(fp12_mulAssign(fp12_mulAssign(f3, f1), f6), t4))))))))

\* AddPair leaves a pair with a point at infinity out, and makes the others
\* affine; AddPairInv negates the point of G1 first.
AddPair(pairs, g1, g2) ==
  IF G1!IsZero(g1) \/ G2!IsZero(g2) THEN pairs
  ELSE Append(pairs, <<G1!Affine(g1), G2!Affine(g2)>>)
\* A mutant: the point is not negated.
AddPairInv_Same(pairs, g1, g2) == AddPair(pairs, g1, g2)
AddPairInv(pairs, g1, g2) == AddPair(pairs, G1!Neg(g1), g2)

-----------------------------------------------------------------------------
\* swu.go
swuMapG1(u) ==
  LET params == swuParamsForG1
      t0 == fp_mul(fp_square(u), params.z)
      i1 == fp_inverse(fp_add(t0, fp_square(t0)))
      x1 == fp_mul(IF i1 = 0 THEN params.zInv ELSE fp_add(i1, 1), params.minusBOverA)
      gx1 == fp_add(fp_mul(fp_add(fp_square(x1), params.a), x1), params.b)
      x2 == fp_mul(t0, x1)
      gx2 == fp_mul(gx1, fp_mul(t0, fp_square(t0)))
      e2 == ~fp_isQuadraticNonResidue(gx1)
      y == fp_sqrt(IF e2 THEN gx1 ELSE gx2).root
  IN <<IF e2 THEN x1 ELSE x2, IF fp_sign(y) # fp_sign(u) THEN fp_neg(y) ELSE y>>

swuMapG2(u) ==
  LET params == swuParamsForG2
      t0 == fp2_mul(fp2_square(u), params.z)
      i1 == fp2_inverse(fp2_add(t0, fp2_square(t0)))
      x1 == fp2_mul(IF i1 = fp2_zero THEN params.zInv ELSE fp2_add(i1, fp2_one),
                    params.minusBOverA)
      gx1 == fp2_add(fp2_mul(fp2_add(fp2_square(x1), params.a), x1), params.b)
      x2 == fp2_mul(t0, x1)
      gx2 == fp2_mul(gx1, fp2_mul(t0, fp2_square(t0)))
      e2 == ~fp2_isQuadraticNonResidue(gx1)
      y == fp2_sqrt(IF e2 THEN gx1 ELSE gx2).root
  IN <<IF e2 THEN x1 ELSE x2, IF fp2_sign(y) # fp2_sign(u) THEN fp2_neg(y) ELSE y>>

\* isogeny.go: Horner's rule for the four polynomials, from the top.
RECURSIVE horner1(_, _, _, _)
horner1(acc, c, v, i) == IF i = 0 THEN acc ELSE horner1(fp_add(fp_mul(acc, v), c[i]), c, v, i - 1)
isogenyMapG1(v, y) ==
  LET degree == Len(isogenyConstantsG1[1]) - 1
      at(k) == horner1(isogenyConstantsG1[k][degree + 1], isogenyConstantsG1[k], v, degree)
  IN <<fp_mul(at(1), fp_inverse(at(2))), fp_mul(fp_mul(at(3), fp_inverse(at(4))), y)>>

RECURSIVE horner2(_, _, _, _)
horner2(acc, c, v, i) == IF i = 0 THEN acc ELSE horner2(fp2_add(fp2_mul(acc, v), c[i]), c, v, i - 1)
isogenyMapG2(v, y) ==
  LET degree == Len(isogenyConstantsG2[1]) - 1
      at(k) == horner2(isogenyConstantsG2[k][degree + 1], isogenyConstantsG2[k], v, degree)
  IN <<fp2_mul(at(1), fp2_inverse(at(2))), fp2_mul(fp2_mul(at(3), fp2_inverse(at(4))), y)>>

\* A mutant: the cofactor is not cleared.
MapToCurveG1_NoClear(u) ==
  LET s == swuMapG1(u)
      m == isogenyMapG1(s[1], s[2])
  IN <<m[1], m[2], 1>>
MapToCurveG1(u) ==
  LET s == swuMapG1(u)
      m == isogenyMapG1(s[1], s[2])
  IN G1!Affine(G1!MulScalar(<<m[1], m[2], 1>>, cofactorEFFG1))
MapToCurveG2(u) ==
  LET s == swuMapG2(u)
      m == isogenyMapG2(s[1], s[2])
  IN G2!Affine(G2!MulScalar(<<m[1], m[2], fp2_one>>, cofactorEFFG2))

-----------------------------------------------------------------------------
\* The other contracts.  A pair's points are checked to be in their subgroups.
RECURSIVE PairsFrom(_, _)
PairsFrom(pairs, in) ==
  IF Len(in) = 0 THEN [ok |-> TRUE, pairs |-> pairs]
  ELSE LET p1 == G1!DecodePoint(SubSeq(in, 1, 2))
           p2 == G2!DecodePoint(SubSeq(in, 3, 6))
       IN IF p1 = <<>> \/ p2 = <<>> \/ ~G1!InCorrectSubgroup(p1) \/ ~G2!InCorrectSubgroup(p2)
          THEN [ok |-> FALSE, pairs |-> <<>>]
          ELSE PairsFrom(AddPair(pairs, p1, p2), SubSeq(in, 7, Len(in)))
bls12381Pairing_Run(in) ==   \* up to the check
  IF Len(in) = 0 \/ Len(in) % 6 # 0 THEN [ok |-> FALSE, pairs |-> <<>>] ELSE PairsFrom(<<>>, in)

decodeBLS12381FieldElement(word) == IF word[1] # 0 THEN <<>> ELSE <<word[2]>>
bls12381MapG1_Run(in) ==
  LET fe == decodeBLS12381FieldElement(in[1])
  IN IF Len(in) # 1 \/ fe = <<>> \/ ~validBytes(fe) THEN <<>>
     ELSE G1!EncodePoint(MapToCurveG1(fp_fromBytes(fe)))
bls12381MapG2_Run(in) ==
  LET c0 == decodeBLS12381FieldElement(in[1])
      c1 == decodeBLS12381FieldElement(in[2])
  IN IF Len(in) # 2 \/ c0 = <<>> \/ c1 = <<>> \/ ~validBytes(c1 \o c0) THEN <<>>
     ELSE G2!EncodePoint(MapToCurveG2(fp2_fromBytes(c1 \o c0)))
=============================================================================
