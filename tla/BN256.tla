------------------------------- MODULE BN256 --------------------------------
(***************************************************************************)
(* crypto/bn256 as the precompiled contracts use it.  The build picks one  *)
(* of two packages by the processor (bn256_fast.go, bn256_slow.go), so two *)
(* nodes of the same chain may run different ones.  One call is made, with *)
(* arguments from the sets below, in both packages, and call records what  *)
(* each returned.                                                          *)
(***************************************************************************)
EXTENDS Integers, Sequences, SequencesExt, FiniteSetsExt, BigInts

CONSTANTS
  P, XiRe, u, Order, curveB, twistB, sixuPlus2NAF,
  xiToPMinus1Over6, xiToPMinus1Over3, xiToPMinus1Over2, xiTo2PMinus2Over3,
  xiToPSquaredMinus1Over6, xiToPSquaredMinus1Over3, xiTo2PSquaredMinus2Over3,
  Elements, Factors,   \* gfP12 values; those multiplied with each other
  Generator1, Generator2,
  Multiples,           \* the multiples of the generators that are used
  Paired,              \* those of the four points of a check
  Scalars,             \* the factors points are multiplied by
  Parted,              \* the scalars whose parts are looked at
  Words1, Words2,      \* encodings of points
  lambda, mu,          \* the eigenvalues of the two lattices
  GeneratorsPaired     \* the pairing of the generators

VARIABLE call

vars == call

G == INSTANCE BNPairing WITH Reduced <- FALSE
C == INSTANCE BNPairing WITH Reduced <- TRUE
T == INSTANCE TowerReference
R1 == INSTANCE CurveReference WITH
  add <- C!gfP_Add, sub <- C!gfP_Sub, mul <- C!gfP_Mul, neg <- C!gfP_Neg, inverse <- C!gfP_Invert
R2 == INSTANCE CurveReference WITH
  add <- C!gfP2_Add, sub <- C!gfP2_Sub, mul <- C!gfP2_Mul, neg <- C!gfP2_Neg,
  inverse <- C!gfP2_Invert

-----------------------------------------------------------------------------
\* cloudflare's lattice.go.  The bases, and the first row of their inverses
\* times the determinant, as polynomials in u; curve.go uses the first one.
half == Order \div 2
curveLattice ==
  [vectors |-> <<<<6 * u * u + 2 * u, 6 * u * u + 4 * u + 1>>,
                 <<6 * u * u + 6 * u + 2, 1 - 6 * u * u>>>>,
   inverse |-> <<6 * u * u - 1, 6 * u * u + 4 * u + 1>>,
   det |-> 2 * Order]
targetLattice ==
  [vectors |-> <<<<2 * u - 1, 2 * u - 1, 2 * u + 1, 2 * u + 2>>,
                 <<u, u, u + 1, 0 - 2 * u>>,
                 <<0 - 2 * u, 0 - u, u, 0 - u - 1>>,
                 <<2 * u + 1, 0 - u, 0 - u, 0 - u>>>>,
   inverse |-> <<6 * u * u * u - u, 6 * u * u + 2 * u, 0 - 6 * u * u - 3 * u,
                 12 * u * u * u + 6 * u * u + 3 * u + 1>>,
   det |-> Order]

round(num, denom) ==
  IF num % denom > half THEN num \div denom + 1 ELSE num \div denom

decompose(l, k) ==
  LET n == Len(l.inverse)
      c == <<>> \o [i \in 1..n |-> round(k * l.inverse[i], l.det)]
  IN <<>> \o [i \in 1..n |->
       2 * l.vectors[1][i] - MapThenSumSet(LAMBDA j : c[j] * l.vectors[j][i], 1..n)
         + (IF i = 1 THEN k ELSE 0)]

\* Digit i has bit i of the j-th part as its bit j.
Multi(l, scalar) ==
  With(decompose(l, scalar), LAMBDA d :
    <<>> \o [i \in 1..BitLen(Max({d[j] : j \in 1..Len(d)})) |->
      MapThenSumSet(LAMBDA j : Bit(d[j], i - 1) * 2^(j - 1), 1..Len(d))])

-----------------------------------------------------------------------------
\* cloudflare's curve.go multiplies with the endomorphism (x, y) -> (beta x, y).
RECURSIVE cf_curve_MulFrom(_, _, _, _)
cf_curve_MulFrom(sum, precomp, digits, i) ==
  IF i = 0 THEN sum
  ELSE With(With(C!Curve!Double(sum), LAMBDA t :
              IF digits[i] = 0 THEN t ELSE C!Curve!Add(t, precomp[digits[i]])),
            LAMBDA s : cf_curve_MulFrom(s, precomp, digits, i - 1))
cf_curve_Mul(a, scalar) ==
  With(<<C!gfP_Mul(a[1], xiTo2PSquaredMinus2Over3), a[2], a[3], a[4]>>, LAMBDA b :
  With(<<a, b, C!Curve!Add(a, b)>>, LAMBDA precomp :
  With(Multi(curveLattice, scalar), LAMBDA digits :
    cf_curve_MulFrom(C!Curve!Infinity, precomp, digits, Len(digits)))))

\* The rest of cloudflare is BNPairing with reduced numbers.
cf_gfP2_Mul(a, b) == C!gfP2_Mul(a, b)
cf_gfP2_Square(a) == C!gfP2_Square(a)
cf_gfP2_Invert(a) == C!gfP2_Invert(a)
cf_gfP2_MulXi(a) == C!gfP2_MulXi(a)
cf_gfP6_Add(a, b) == C!gfP6_Add(a, b)
cf_gfP6_Sub(a, b) == C!gfP6_Sub(a, b)
cf_gfP6_MulTau(a) == C!gfP6_MulTau(a)
cf_gfP6_MulScalar(a, b) == C!gfP6_MulScalar(a, b)
cf_gfP6_MulGFP(a, b) == C!gfP6_MulGFP(a, b)
cf_gfP6_Frobenius(a) == C!gfP6_Frobenius(a)
cf_gfP6_FrobeniusP2(a) == C!gfP6_FrobeniusP2(a)
cf_gfP6_Mul(a, b) == C!gfP6_Mul(a, b)
cf_gfP6_Square(a) == C!gfP6_Square(a)
cf_gfP6_Invert(a) == C!gfP6_Invert(a)
cf_gfP12_Mul(a, b) == C!gfP12_Mul(a, b)
cf_gfP12_Square(a) == C!gfP12_Square(a)
cf_gfP12_Invert(a) == C!gfP12_Invert(a)
cf_gfP12_Frobenius(a) == C!gfP12_Frobenius(a)
cf_gfP12_FrobeniusP2(a) == C!gfP12_FrobeniusP2(a)
cf_gfP12_Exp(a, power) == C!gfP12_Exp(a, power)
cf_curve_IsOnCurve(c) == C!Curve!IsOnCurve(c)
cf_curve_Double(a) == C!Curve!Double(a)
cf_curve_MakeAffine(c) == C!Curve!MakeAffine(c)
cf_curve_Add(a, b) == C!Curve!Add(a, b)
cf_twist_IsOnCurve(c) == C!twist_IsOnCurve(c)
cf_twist_Double(a) == C!Twist!Double(a)
cf_twist_MakeAffine(c) == C!Twist!MakeAffine(c)
cf_twist_Add(a, b) == C!Twist!Add(a, b)
cf_twist_Mul(a, scalar) == C!Twist!Mul(a, scalar)
cf_lineFunctionAdd(r, p, q, r2) == C!lineFunctionAdd(r, p, q, r2)
cf_lineFunctionDouble(r, q) == C!lineFunctionDouble(r, q)
cf_mulLine(ret, l) == C!mulLine(ret, l)
cf_miller(q, p) == C!miller(q, p)
cf_finalExponentiation(in) == C!finalExponentiation(in)
cf_PairingCheck(pairs) == C!PairingCheckFrom(C!gfP12_One, pairs, 1)
cf_G1_Marshal(p) == C!G1_Marshal(p)
cf_G1_Unmarshal(m) == C!G1_Unmarshal(m)
cf_G2_Marshal(p) == C!G2_Marshal(p)
cf_G2_Unmarshal(m) == C!G2_Unmarshal(m)

\* google's twist.go is its curve.go over gfP2.
twist_Add(a, b) == G!Twist!Add(a, b)
twist_Double(a) == G!Twist!Double(a)
twist_Mul(a, scalar) == G!Twist!Mul(a, scalar)
twist_MakeAffine(c) == G!Twist!MakeAffine(c)
twist_Negative(a) == G!Twist!Negative(a)

-----------------------------------------------------------------------------
\* The contracts, in either package, on an input of 32 byte words; <<>> is an error.
\* getData takes size words from start, and zeros where the input ends.
getData(data, start, size) ==
  <<>> \o [i \in 1..size |-> IF start + i <= Len(data) THEN data[start + i] ELSE 0]

runBn256Add(newCurvePoint(_), Add(_, _), Marshal(_), input) ==
  LET a == newCurvePoint(getData(input, 0, 2))
      b == newCurvePoint(getData(input, 2, 2))
  IN IF a = <<>> \/ b = <<>> THEN <<>> ELSE Marshal(Add(a, b))
runBn256ScalarMul(newCurvePoint(_), Mul(_, _), Marshal(_), input) ==
  LET p == newCurvePoint(getData(input, 0, 2))
  IN IF p = <<>> THEN <<>> ELSE Marshal(Mul(p, getData(input, 2, 1)[1]))
runBn256Pairing(newCurvePoint(_), newTwistPoint(_), input) ==   \* up to the check
  LET n == Len(input) \div 6
      pairs == <<>> \o [i \in 1..n |-> <<newCurvePoint(SubSeq(input, 6 * i - 5, 6 * i - 4)),
                                         newTwistPoint(SubSeq(input, 6 * i - 3, 6 * i))>>]
  IN IF Len(input) % 6 > 0 \/ \E i \in 1..n : \E j \in 1..2 : pairs[i][j] = <<>> THEN <<>>
     ELSE <<pairs>>

-----------------------------------------------------------------------------
\* What the two packages return for one call.
Return(op, in, google, cloudflare) ==
  call' = [op |-> op, in |-> in, google |-> google, cloudflare |-> cloudflare]

Init == call = [op |-> "none"]

\* The fields, at all three levels of the tower.  google's arguments may be
\* unreduced, cloudflare's are the same residues.
Multiply == \E a, b \in Factors :
  Return("mul", <<a, b>>,
         <<G!gfP12_Mul(a, b), G!gfP6_Mul(a[1], b[2]), G!gfP2_Mul(a[1][1], b[2][3])>>,
         LET c == C!gfP12_Minimal(a)
             d == C!gfP12_Minimal(b)
         IN <<cf_gfP12_Mul(c, d), cf_gfP6_Mul(c[1], d[2]), cf_gfP2_Mul(c[1][1], d[2][3])>>)
Square == \E a \in Elements :
  Return("square", a,
         <<G!gfP12_Square(a), G!gfP6_Square(a[1]), G!gfP2_Square(a[1][1])>>,
         LET c == C!gfP12_Minimal(a)
         IN <<cf_gfP12_Square(c), cf_gfP6_Square(c[1]), cf_gfP2_Square(c[1][1])>>)
Invert == \E a \in Elements :
  Return("invert", a,
         <<G!gfP12_Invert(a), G!gfP6_Invert(a[1]), G!gfP2_Invert(a[1][1])>>,
         LET c == C!gfP12_Minimal(a)
         IN <<cf_gfP12_Invert(c), cf_gfP6_Invert(c[1]), cf_gfP2_Invert(c[1][1])>>)
Frobenius == \E a \in Elements :
  Return("frobenius", a,
         <<G!gfP12_Frobenius(a), G!gfP12_FrobeniusP2(a)>>,
         <<cf_gfP12_Frobenius(C!gfP12_Minimal(a)), cf_gfP12_FrobeniusP2(C!gfP12_Minimal(a))>>)

\* The points a caller can hold: multiples of the generators, as Mul leaves
\* them, made affine, or negated.
Forms == {"mul", "affine", "negated"}
g_Point1(m, f) == With(G!Curve!Mul(Generator1, m), LAMBDA p :
  CASE f = "mul" -> p [] f = "affine" -> G!Curve!MakeAffine(p) [] OTHER -> G!Curve!Negative(p))
c_Point1(m, f) == With(cf_curve_Mul(Generator1, m), LAMBDA p :
  CASE f = "mul" -> p [] f = "affine" -> C!Curve!MakeAffine(p) [] OTHER -> C!Curve!Negative(p))
g_Point2(m, f) == With(G!Twist!Mul(Generator2, m), LAMBDA p :
  CASE f = "mul" -> p [] f = "affine" -> G!Twist!MakeAffine(p) [] OTHER -> G!Twist!Negative(p))
c_Point2(m, f) == With(cf_twist_Mul(Generator2, m), LAMBDA p :
  CASE f = "mul" -> p [] f = "affine" -> C!Twist!MakeAffine(p) [] OTHER -> C!Twist!Negative(p))

AddG1 == \E m, n \in Multiples, f, g \in Forms :
  Return("addG1", <<m, n, f, g>>,
         G!G1_Marshal(G!Curve!Add(g_Point1(m, f), g_Point1(n, g))),
         cf_G1_Marshal(cf_curve_Add(c_Point1(m, f), c_Point1(n, g))))
AddG2 == \E m, n \in Multiples, f, g \in Forms :
  Return("addG2", <<m, n, f, g>>,
         G!G2_Marshal(G!Twist!Add(g_Point2(m, f), g_Point2(n, g))),
         cf_G2_Marshal(cf_twist_Add(c_Point2(m, f), c_Point2(n, g))))
\* Two consecutive multiples, for the recurrence that defines them.
MulG1 == \E m \in Multiples, k \in Scalars :
  Return("mulG1", <<m, k>>,
         LET p == g_Point1(m, "mul")
         IN <<G!G1_Marshal(G!Curve!Mul(p, k)), G!G1_Marshal(G!Curve!Mul(p, k + 1))>>,
         LET p == c_Point1(m, "mul")
         IN <<cf_G1_Marshal(cf_curve_Mul(p, k)), cf_G1_Marshal(cf_curve_Mul(p, k + 1))>>)
MulG2 == \E m \in Multiples, k \in Scalars :
  Return("mulG2", <<m, k>>,
         LET p == g_Point2(m, "mul")
         IN <<G!G2_Marshal(G!Twist!Mul(p, k)), G!G2_Marshal(G!Twist!Mul(p, k + 1))>>,
         LET p == c_Point2(m, "mul")
         IN <<cf_G2_Marshal(cf_twist_Mul(p, k)), cf_G2_Marshal(cf_twist_Mul(p, k + 1))>>)
\* The four-dimensional lattice has no user but the tests.
Decompose == \E k \in Parted :
  Return("decompose", k, decompose(targetLattice, k), decompose(curveLattice, k))

UnmarshalG1 == \E m \in Words1 :
  Return("unmarshalG1", m, G!G1_Unmarshal(m), cf_G1_Unmarshal(m))
UnmarshalG2 == \E m \in Words2 :
  Return("unmarshalG2", m, G!G2_Unmarshal(m), cf_G2_Unmarshal(m))

\* The pairs of a check, from points a caller holds, the first of which is negated.
HoldPairs == \E q \in Paired : LET m == q[1] n == q[2] k == q[3] l == q[4] IN
  Return("pairs", q,
         <<<<<<g_Point1(m, "negated"), g_Point2(n, "affine")>>,
             <<g_Point1(k, "affine"), g_Point2(l, "affine")>>>>>>,
         <<<<<<c_Point1(m, "negated"), c_Point2(n, "affine")>>,
             <<c_Point1(k, "affine"), c_Point2(l, "affine")>>>>>>)
RunAdd == \E v, w \in Words1 :
  Return("runAdd", v \o w,
         runBn256Add(G!G1_Unmarshal, G!Curve!Add, G!G1_Marshal, v \o w),
         runBn256Add(cf_G1_Unmarshal, cf_curve_Add, cf_G1_Marshal, v \o w))
RunMul == \E v \in Words1, k \in Scalars :
  Return("runMul", Append(v, k),
         runBn256ScalarMul(G!G1_Unmarshal, G!Curve!Mul, G!G1_Marshal, Append(v, k)),
         runBn256ScalarMul(cf_G1_Unmarshal, cf_curve_Mul, cf_G1_Marshal, Append(v, k)))
\* One pair, and the same pair with itself negated.
RunPairing == \E v \in Words1, w \in Words2, twice \in BOOLEAN :
  LET in == v \o w
      minus == IF Len(v) = 2 THEN <<v[1], (0 - v[2]) % P>> ELSE v
      input == IF twice THEN in \o minus \o w ELSE in
  IN Return("pairs", input,
            runBn256Pairing(G!G1_Unmarshal, G!G2_Unmarshal, input),
            runBn256Pairing(cf_G1_Unmarshal, cf_G2_Unmarshal, input))
\* The check of the pairs: their Miller loops, and the final exponentiation.
PairingCheck ==
  /\ call.op = "pairs" /\ call.google # <<>> /\ call.cloudflare # <<>>
  /\ call' = [op |-> "miller", in |-> call.in,
              google |-> G!PairingCheckFrom(G!gfP12_One, call.google[1], 1),
              cloudflare |-> cf_PairingCheck(call.cloudflare[1])]
FinalExponentiation ==
  /\ call.op = "miller"
  /\ call' = [op |-> "finalExponentiation", in |-> call.in,
              google |-> G!finalExponentiation(call.google),
              cloudflare |-> cf_finalExponentiation(call.cloudflare)]

Called == \/ Multiply \/ Square \/ Invert \/ Frobenius \/ AddG1 \/ AddG2 \/ MulG1 \/ MulG2
          \/ Decompose \/ UnmarshalG1 \/ UnmarshalG2 \/ HoldPairs \/ RunAdd \/ RunMul \/ RunPairing
Next == \/ call.op = "none" /\ Called
        \/ PairingCheck \/ FinalExponentiation

Spec == Init /\ [][Next]_vars

-----------------------------------------------------------------------------
\* The polynomials in w of a gfP12, a gfP6 and a gfP2.
Poly(e) ==
  LET at(k, j) == T!Place(e[k][j][2], e[k][j][1], 2 * (3 - j) + (2 - k))
  IN T!Plus(T!Plus(T!Plus(at(1, 1), at(1, 2)), T!Plus(at(1, 3), at(2, 1))),
            T!Plus(at(2, 2), at(2, 3)))
Poly6(e) == Poly(<<C!gfP6_Zero, e>>)
Poly2(e) == Poly6(<<C!gfP2_Zero, C!gfP2_Zero, e>>)
IsInverse(a, b, zero) == IF a = zero THEN b = zero ELSE T!Mul(a, b) = T!One

\* Both packages compute in the field they stand for, at every level of the
\* tower and whether their arguments are reduced or not: products, squares,
\* inverses and Frobenius powers are those of polynomials in w modulo its
\* minimal polynomial.
BNFieldsAgree ==
  \A r \in IF call.op = "none" THEN {} ELSE {call.google, call.cloudflare} :
    /\ call.op = "mul" =>
         /\ Poly(r[1]) = T!Mul(Poly(call.in[1]), Poly(call.in[2]))
         /\ Poly6(r[2]) = T!Mul(Poly6(call.in[1][1]), Poly6(call.in[2][2]))
         /\ Poly2(r[3]) = T!Mul(Poly2(call.in[1][1][1]), Poly2(call.in[2][2][3]))
    /\ call.op = "square" =>
         /\ Poly(r[1]) = T!Mul(Poly(call.in), Poly(call.in))
         /\ Poly6(r[2]) = T!Mul(Poly6(call.in[1]), Poly6(call.in[1]))
         /\ Poly2(r[3]) = T!Mul(Poly2(call.in[1][1]), Poly2(call.in[1][1]))
    /\ call.op = "invert" =>
         /\ IsInverse(Poly(call.in), Poly(r[1]), Poly6(C!gfP6_Zero))
         /\ IsInverse(Poly6(call.in[1]), Poly6(r[2]), Poly6(C!gfP6_Zero))
         /\ IsInverse(Poly2(call.in[1][1]), Poly2(r[3]), Poly6(C!gfP6_Zero))
    /\ call.op = "frobenius" =>
         /\ Poly(r[1]) = T!Pow(Poly(call.in), P)
         /\ Poly(r[2]) = T!Pow(Poly(r[1]), P)

\* The point of a multiple of a generator, and its encoding.
Ref1(m, f) == LET p == R1!Times(m, <<Generator1[1], Generator1[2]>>) IN
              IF f = "negated" /\ p # <<>> THEN <<p[1], C!gfP_Neg(p[2])>> ELSE p
Ref2(m, f) == LET p == R2!Times(m, <<Generator2[1], Generator2[2]>>) IN
              IF f = "negated" /\ p # <<>> THEN <<p[1], C!gfP2_Neg(p[2])>> ELSE p
Encoded1(p) == IF p = <<>> THEN <<0, 0>> ELSE p
Encoded2(p) == IF p = <<>> THEN <<0, 0, 0, 0>> ELSE p[1] \o p[2]
Decoded1(w) == IF w = <<0, 0>> THEN <<>> ELSE w
Decoded2(w) == IF w = <<0, 0, 0, 0>> THEN <<>> ELSE <<<<w[1], w[2]>>, <<w[3], w[4]>>>>

\* Every vector of a lattice vanishes on the powers of its eigenvalue.
At(v, l) == FoldRight(LAMBDA c, s : (c + l * s) % Order, v, 0)
IsEigenvalue(l, lattice) == \A i \in 1..Len(lattice.vectors) : At(lattice.vectors[i], l) = 0

\* Both packages compute the chord and tangent law, for points in any form;
\* the endomorphism's two-dimensional multiplication returns the multiple
\* that double-and-add returns, and every scalar below Order has parts that
\* are not negative and add up to it; an encoding is accepted exactly when
\* it is that of a point of the group, by both packages alike, and a contract
\* pads an input that is too short with zeros and computes with what it then reads.
BNGroupsAgree ==
  /\ call.op = "addG1" => \A r \in {call.google, call.cloudflare} :
       r = Encoded1(R1!Plus(Ref1(call.in[1], call.in[3]), Ref1(call.in[2], call.in[4])))
  /\ call.op = "addG2" => \A r \in {call.google, call.cloudflare} :
       r = Encoded2(R2!Plus(Ref2(call.in[1], call.in[3]), Ref2(call.in[2], call.in[4])))
  /\ call.op = "mulG1" => \A r \in {call.google, call.cloudflare} :
       r[2] = Encoded1(R1!Plus(Decoded1(r[1]), Ref1(call.in[1], "mul")))
  /\ call.op = "mulG2" => \A r \in {call.google, call.cloudflare} :
       r[2] = Encoded2(R2!Plus(Decoded2(r[1]), Ref2(call.in[1], "mul")))
  /\ call.op = "decompose" =>
       /\ \A i \in 1..2 : call.cloudflare[i] >= 0
       /\ \A i \in 1..4 : call.google[i] >= 0
       /\ IsEigenvalue(lambda, curveLattice) /\ At(call.cloudflare, lambda) = call.in
       /\ IsEigenvalue(mu, targetLattice) /\ At(call.google, mu) = call.in
  /\ call.op = "unmarshalG1" =>
       /\ call.google = call.cloudflare
       /\ call.google # <<>> <=> Len(call.in) = 2 /\ \A i \in 1..2 : call.in[i] < P
            /\ (call.in = <<0, 0>> \/
                (call.in[2] * call.in[2]) % P
                  = (((call.in[1] * call.in[1]) % P) * call.in[1] + curveB) % P)
       /\ call.google # <<>> => cf_G1_Marshal(call.google) = call.in
  /\ call.op = "unmarshalG2" =>
       /\ call.google = call.cloudflare
       /\ call.google # <<>> => cf_G2_Marshal(call.google) = call.in
       /\ call.google # <<>> => R2!Times(Order, Decoded2(call.in)) = <<>>
  /\ call.op \in {"runAdd", "runMul"} =>
       LET padded == call.in \o <<0, 0, 0>>
           a == SubSeq(padded, 1, 2)
           b == SubSeq(padded, 3, 4)
       IN /\ call.google = call.cloudflare
          /\ call.google # <<>> <=> cf_G1_Unmarshal(a) # <<>>
                                    /\ (call.op = "runMul" \/ cf_G1_Unmarshal(b) # <<>>)
          /\ call.op = "runAdd" /\ call.google # <<>> =>
               call.google = Encoded1(R1!Plus(Decoded1(a), Decoded1(b)))

\* Both packages read the same pairs from an input, or none; they end with the same
\* value, which is bilinear and not degenerate, so a check of two pairs, one with a
\* negated point, succeeds exactly when the products of their logarithms are equal,
\* and two nodes agree on the outcome of the pairing contract whichever package they
\* are built with.
BNPairingAgrees ==
  /\ call.op = "pairs" => (call.google = <<>> <=> call.cloudflare = <<>>)
  /\ call.op = "miller" => C!gfP12_Minimal(call.google) = call.cloudflare
  /\ call.op = "finalExponentiation" =>
       /\ C!gfP12_Minimal(call.google) = call.cloudflare
       /\ Len(call.in) = 4 =>
            /\ GeneratorsPaired # C!gfP12_One
            /\ call.cloudflare = C!gfP12_Exp(GeneratorsPaired,
                 (call.in[3] * call.in[4] - call.in[1] * call.in[2]) % Order)
       /\ Len(call.in) \in {6, 12} =>
            (call.cloudflare = C!gfP12_One <=>
               \/ Len(call.in) = 12
               \/ SubSeq(call.in, 1, 2) = <<0, 0>> \/ SubSeq(call.in, 3, 6) = <<0, 0, 0, 0>>)
=============================================================================
