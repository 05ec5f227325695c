------------------------------ MODULE BLS12381 ------------------------------
(***************************************************************************)
(* crypto/bls12381 as the precompiled contracts use it: one call is made,  *)
(* with arguments from the sets below, and call records what it returned.  *)
(* The operations are pure; they are defined in BLSFields, BLSGroup and    *)
(* BLSPairing, and here compared with the textbook definitions of the same *)
(* field, group and pairing.                                               *)
(***************************************************************************)
EXTENDS BLSPairing

CONSTANTS
  Elements,        \* fe12 values, for the fields
  Factors,         \* those that are multiplied with each other
  Words1, Words2,  \* encodings of field elements, for the group codecs
  Points1, Points2,\* Jacobian points of G1 and G2
  Scalars

VARIABLE call

vars == call

T == INSTANCE TowerReference WITH XiRe <- 1
R1 == INSTANCE CurveReference WITH
  add <- fp_add, sub <- fp_sub, mul <- fp_mul, neg <- fp_neg, inverse <- fp_inverse
R2 == INSTANCE CurveReference WITH
  add <- fp2_add, sub <- fp2_sub, mul <- fp2_mul, neg <- fp2_neg, inverse <- fp2_inverse

\* g2.go is g1.go over fp2.
g2_Equal(a, c) == G2!Equal(a, c)
g2_IsOnCurve(a) == G2!IsOnCurve(a)
g2_InCorrectSubgroup(a) == G2!InCorrectSubgroup(a)
g2_Affine(a) == G2!Affine(a)
g2_Add(a, c) == G2!Add(a, c)
g2_Double(a) == G2!Double(a)
g2_Sub(a, c) == G2!Sub(a, c)
g2_MulScalar(a, n) == G2!MulScalar(a, n)
g2_MultiExp(points, powers) == G2!MultiExp(points, powers)
g2_FromBytes(in) == G2!FromBytes(in)
g2_DecodePoint(in) == G2!DecodePoint(in)
g2_EncodePoint(a) == G2!EncodePoint(a)

\* The contracts that add and multiply points.
bls12381G1Add_Run(in) == G1!AddRun(in)
bls12381G1Mul_Run(in) == G1!MulRun(in)
bls12381G1MultiExp_Run(in) == G1!MultiExpRun(in)
bls12381G2Add_Run(in) == G2!AddRun(in)
bls12381G2Mul_Run(in) == G2!MulRun(in)
bls12381G2MultiExp_Run(in) == G2!MultiExpRun(in)

Return(op, in, out) ==
  call' = [op |-> op, in |-> in, out |-> out]

Init == call = [op |-> "none"]

Multiply == \E a, c \in Factors : Return("mul", <<a, c>>, fp12_mul(a, c))

\* The sparse product of the Miller loop: c's first two and fifth coefficient.
MultiplyByLine == \E a, c \in Factors :
  Return("mulBy014", <<a, c>>, fp12_mulBy014Assign(a, c[1][1], c[1][2], c[2][2]))

Square == \E a \in Elements : Return("square", a, fp12_square(a))
Inverse == \E a \in Elements : Return("inverse", a, fp12_inverse(a))
Frobenius == \E a \in Elements, n \in {1, 2, 3} :
  Return("frobenius", <<a, n>>, fp12_frobeniusMapAssign(a, n))
SquareRoot == \E a \in Elements :
  Return("sqrt", a[1][1], <<fp2_sqrt(a[1][1]), fp_sqrt(a[1][1][1])>>)

AddG1 == \E a, c \in Points1 :
  Return("addG1", <<a, c>>, [sum |-> G1!Add(a, c), diff |-> G1!Sub(a, c), eq |-> G1!Equal(a, c)])
AddG2 == \E a, c \in Points2 :
  Return("addG2", <<a, c>>, [sum |-> g2_Add(a, c), diff |-> g2_Sub(a, c), eq |-> g2_Equal(a, c)])
MulG1 == \E a \in Points1, n \in Scalars : Return("mulG1", <<a, n>>, G1!MulScalar(a, n))
MulG2 == \E a \in Points2, n \in Scalars : Return("mulG2", <<a, n>>, g2_MulScalar(a, n))
MultiExpG1 == \E a, c \in Points1, m \in Scalars :
  Return("multiExpG1", <<a, c, m, m + 1>>, G1!MultiExp(<<a, c>>, <<m, m + 1>>))
MultiExpG2 == \E a \in Points2, m \in Scalars :
  Return("multiExpG2", <<a, a, m, 1>>, g2_MultiExp(<<a, a>>, <<m, 1>>))
DecodeG1 == \E v, w \in Words1 : Return("decodeG1", <<v, w>>, G1!DecodePoint(<<v, w>>))
DecodeG2 == \E t, u, v, w \in Words2 :
  Return("decodeG2", <<t, u, v, w>>, g2_DecodePoint(<<t, u, v, w>>))
EncodeG1 == \E a \in Points1 : Return("encodeG1", a, G1!EncodePoint(a))
EncodeG2 == \E a \in Points2 : Return("encodeG2", a, g2_EncodePoint(a))

\* The engine of pairing.go: the pairs that were added, the Miller loop over them
\* and the final exponentiation.  calculate returns one when no pair is left.
Pairs(in, pairs) == Return("pairs", in, pairs)
AddPairs == \E a \in Points1, c, d \in Points2 :
  Pairs(<<a, c, d>>, AddPairInv(AddPair(<<>>, a, c), a, d))
MillerLoop ==
  /\ call.op = "pairs" /\ Len(call.out) > 0
  /\ call' = [op |-> "miller", in |-> call.in, pairs |-> call.out, out |-> millerLoop(call.out)]
FinalExp ==
  /\ call.op = "miller"
  /\ call' = [op |-> "finalExp", in |-> call.in, f |-> call.out, out |-> finalExp(call.out)]

\* The contracts, on encodings of points, on words that encode none and on inputs
\* that are too short.
Encodings1 == {G1!EncodePoint(a) : a \in Points1} \cup {<<v, v>> : v \in Words1} \cup {<<>>}
Encodings2 == {g2_EncodePoint(a) : a \in Points2} \cup {<<v, v, v, v>> : v \in Words2} \cup {<<>>}
RunG1Add == \E v, w \in Encodings1 : Return("bls12381G1Add", <<v, w>>, bls12381G1Add_Run(v \o w))
RunG2Add == \E v, w \in Encodings2 : Return("bls12381G2Add", <<v, w>>, bls12381G2Add_Run(v \o w))
RunG1Mul == \E v \in Encodings1, n \in Scalars :
  Return("bls12381G1Mul", <<v, n>>, bls12381G1Mul_Run(Append(v, <<0, n>>)))
RunG2Mul == \E v \in Encodings2, n \in Scalars :
  Return("bls12381G2Mul", <<v, n>>, bls12381G2Mul_Run(Append(v, <<0, n>>)))
RunG1MultiExp == \E v, w \in Encodings1, n \in Scalars :
  Return("bls12381G1MultiExp", <<v, w, n>>,
         bls12381G1MultiExp_Run(Append(v, <<0, 2>>) \o Append(w, <<0, n>>)))
RunG2MultiExp == \E v, w \in Encodings2, n \in Scalars :
  Return("bls12381G2MultiExp", <<v, w, n>>,
         bls12381G2MultiExp_Run(Append(v, <<0, 2>>) \o Append(w, <<0, n>>)))
\* The pairing contract fails, or goes on with the pairs it read.
RunPairing == \E v \in Encodings1, w \in Encodings2 :
  \/ ~bls12381Pairing_Run(v \o w).ok /\ Return("bls12381Pairing", <<v, w>>, <<>>)
  \/ bls12381Pairing_Run(v \o w).ok /\ Pairs(<<v, w>>, bls12381Pairing_Run(v \o w).pairs)
RunMapG1 == \E v \in Words1 : Return("bls12381MapG1", v, bls12381MapG1_Run(<<v>>))
RunMapG2 == \E v, w \in Words2 : Return("bls12381MapG2", <<v, w>>, bls12381MapG2_Run(<<v, w>>))

\* The maps to the groups need a curve with an isogeny of degree three, which not
\* every small prime has: they are a next-state relation of their own.
NextMap == call.op = "none" /\ (RunMapG1 \/ RunMapG2)
Called == \/ RunG1Add \/ RunG2Add \/ RunG1Mul \/ RunG2Mul \/ RunG1MultiExp \/ RunG2MultiExp
          \/ RunPairing
          \/ Multiply \/ MultiplyByLine \/ Square \/ Inverse \/ Frobenius \/ SquareRoot
          \/ AddG1 \/ AddG2 \/ MulG1 \/ MulG2 \/ MultiExpG1 \/ MultiExpG2
          \/ DecodeG1 \/ DecodeG2 \/ EncodeG1 \/ EncodeG2 \/ AddPairs
NextGroup == \/ call.op = "none" /\ Called
             \/ MillerLoop \/ FinalExp

Next == NextMap \/ NextGroup

Spec == Init /\ [][Next]_vars

-----------------------------------------------------------------------------
\* The polynomial in w of an fe12: coefficient j of half k belongs to
\* w^(2 (j - 1) + (k - 1)).
Poly(e) ==
  LET at(j, k) == T!Place(e[k][j][1], e[k][j][2], 2 * (j - 1) + (k - 1))
  IN T!Plus(T!Plus(T!Plus(at(1, 1), at(2, 1)), T!Plus(at(3, 1), at(1, 2))),
            T!Plus(at(2, 2), at(3, 2)))

Sparse(c) == <<<<c[1][1], c[1][2], fp2_zero>>, <<fp2_zero, c[2][2], fp2_zero>>>>

\* The tower of fp.go, fp2.go, fp6.go and fp12.go computes in the field it
\* stands for: the Karatsuba products, the sparse product of the Miller loop,
\* squares, inverses and Frobenius powers are those of polynomials in w
\* modulo its minimal polynomial, and a root reported as one is one.
FieldsAgree ==
  /\ call.op = "mul" => Poly(call.out) = T!Mul(Poly(call.in[1]), Poly(call.in[2]))
  /\ call.op = "mulBy014" =>
       Poly(call.out) = T!Mul(Poly(call.in[1]), Poly(Sparse(call.in[2])))
  /\ call.op = "square" => Poly(call.out) = T!Mul(Poly(call.in), Poly(call.in))
  /\ call.op = "inverse" => T!Mul(Poly(call.in), Poly(call.out)) = T!One
  /\ call.op = "frobenius" =>
       Poly(call.out) = T!Pow(Poly(IF call.in[2] = 1 THEN call.in[1]
                                   ELSE fp12_frobeniusMapAssign(call.in[1], call.in[2] - 1)), P)
  /\ call.op = "sqrt" =>
       /\ call.out[1].ok <=> \E r \in (0..P - 1) \X (0..P - 1) : fp2_mul(r, r) = call.in
       /\ call.out[1].ok => fp2_mul(call.out[1].root, call.out[1].root) = call.in
       /\ call.out[2].ok <=> \E r \in 0..P - 1 : fp_mul(r, r) = call.in[1]

-----------------------------------------------------------------------------
\* The affine point of a Jacobian one.
At1(a) == IF a[3] = 0 THEN <<>>
          ELSE LET i == fp_inverse(a[3])
               IN <<fp_mul(a[1], fp_mul(i, i)), fp_mul(a[2], fp_mul(i, fp_mul(i, i)))>>
At2(a) == IF a[3] = fp2_zero THEN <<>>
          ELSE LET i == fp2_inverse(a[3])
               IN <<fp2_mul(a[1], fp2_mul(i, i)), fp2_mul(a[2], fp2_mul(i, fp2_mul(i, i)))>>
Minus1(a) == IF a = <<>> THEN a ELSE <<a[1], fp_neg(a[2])>>
Minus2(a) == IF a = <<>> THEN a ELSE <<a[1], fp2_neg(a[2])>>

\* The Jacobian formulas of g1.go and g2.go, with the cases they leave to
\* Double, Zero and the early returns, are the chord and tangent law; the
\* bucket method of MultiExp is the sum of the multiples, for scalars with one
\* bit more than the group order; DecodePoint accepts exactly the encodings
\* EncodePoint can produce, and gives back the point; a contract fails exactly when
\* its input has another length or a part of it is not the encoding of a point,
\* and the pairing contract also when a point lies outside its subgroup.
GroupsAgree ==
  /\ call.op = "addG1" =>
       /\ At1(call.out.sum) = R1!Plus(At1(call.in[1]), At1(call.in[2]))
       /\ At1(call.out.diff) = R1!Plus(At1(call.in[1]), Minus1(At1(call.in[2])))
       /\ call.out.eq <=> At1(call.in[1]) = At1(call.in[2])
  /\ call.op = "addG2" =>
       /\ At2(call.out.sum) = R2!Plus(At2(call.in[1]), At2(call.in[2]))
       /\ At2(call.out.diff) = R2!Plus(At2(call.in[1]), Minus2(At2(call.in[2])))
       /\ call.out.eq <=> At2(call.in[1]) = At2(call.in[2])
  /\ call.op = "mulG1" => At1(call.out) = R1!Times(call.in[2], At1(call.in[1]))
  /\ call.op = "mulG2" => At2(call.out) = R2!Times(call.in[2], At2(call.in[1]))
  /\ call.op = "multiExpG1" =>
       At1(call.out) = R1!Plus(R1!Times(call.in[3], At1(call.in[1])),
                               R1!Times(call.in[4], At1(call.in[2])))
  /\ call.op = "multiExpG2" =>
       At2(call.out) = R2!Times(call.in[3] + call.in[4], At2(call.in[1]))
  /\ call.op = "encodeG1" => At1(G1!DecodePoint(call.out)) = At1(call.in)
  /\ call.op = "encodeG2" => At2(g2_DecodePoint(call.out)) = At2(call.in)
  /\ call.op = "decodeG1" /\ call.out # <<>> => G1!EncodePoint(call.out) = call.in
  /\ call.op = "decodeG2" /\ call.out # <<>> => g2_EncodePoint(call.out) = call.in
  /\ call.op \in {"bls12381G1Add", "bls12381G1Mul", "bls12381G1MultiExp"} =>
       LET points == {G1!DecodePoint(call.in[i]) :
                        i \in IF call.op = "bls12381G1Mul" THEN {1} ELSE {1, 2}}
           at(i) == At1(G1!DecodePoint(call.in[i]))
       IN IF <<>> \in points THEN call.out = <<>>
          ELSE /\ call.out # <<>>
               /\ At1(G1!DecodePoint(call.out)) =
                    CASE call.op = "bls12381G1Add" -> R1!Plus(at(1), at(2))
                      [] call.op = "bls12381G1Mul" -> R1!Times(call.in[2], at(1))
                      [] OTHER -> R1!Plus(R1!Times(2, at(1)), R1!Times(call.in[3], at(2)))
  /\ call.op \in {"bls12381G2Add", "bls12381G2Mul", "bls12381G2MultiExp"} =>
       LET points == {g2_DecodePoint(call.in[i]) :
                        i \in IF call.op = "bls12381G2Mul" THEN {1} ELSE {1, 2}}
           at(i) == At2(g2_DecodePoint(call.in[i]))
       IN IF <<>> \in points THEN call.out = <<>>
          ELSE /\ call.out # <<>>
               /\ At2(g2_DecodePoint(call.out)) =
                    CASE call.op = "bls12381G2Add" -> R2!Plus(at(1), at(2))
                      [] call.op = "bls12381G2Mul" -> R2!Times(call.in[2], at(1))
                      [] OTHER -> R2!Plus(R2!Times(2, at(1)), R2!Times(call.in[3], at(2)))
  /\ call.op \in {"bls12381Pairing", "pairs"} /\ Len(call.in) = 2 =>
       (call.op = "pairs" <=>
          /\ G1!DecodePoint(call.in[1]) # <<>> /\ g2_DecodePoint(call.in[2]) # <<>>
          /\ R1!Times(q1, At1(G1!DecodePoint(call.in[1]))) = <<>>
          /\ R2!Times(q2, At2(g2_DecodePoint(call.in[2]))) = <<>>)

\* Every field element is mapped to a point of the curve that lies in the
\* subgroup the contracts compute in, except where the isogeny has a pole.
MapsIntoSubgroup ==
  /\ call.op = "bls12381MapG1" =>
       /\ call.out = <<>> <=> call.in[1] # 0 \/ call.in[2] >= P
       /\ call.out # <<>> /\ horner1(0, isogenyConstantsG1[2], swuMapG1(call.in[2])[1], 4) # 0 =>
            With(G1!DecodePoint(call.out), LAMBDA p : p # <<>> /\ R1!Times(q1, At1(p)) = <<>>)
  /\ call.op = "bls12381MapG2" =>
       /\ call.out = <<>> <=> \E i \in 1..2 : call.in[i][1] # 0 \/ call.in[i][2] >= P
       /\ call.out # <<>> /\ horner2(fp2_zero, isogenyConstantsG2[2],
                                     swuMapG2(<<call.in[1][2], call.in[2][2]>>)[1], 4) # fp2_zero =>
            With(g2_DecodePoint(call.out), LAMBDA p : p # <<>> /\ g2_InCorrectSubgroup(p))

-----------------------------------------------------------------------------
\* f^((P^6 - 1)(P^2 + 1)), which sends every element of the subfields to 1.
Easy(f) == With(fp12_mul(fp12_conjugate(f), fp12_inverse(f)),
                LAMBDA t : fp12_mul(fp12_frobeniusMapAssign(t, 2), t))

\* Miller's function by repeated addition: the product over 1 <= i < n of the
\* line through i Q and Q at the point a of G1, times w^3 and up to the
\* verticals, which lie in a subfield.
LineAt(s, c, a) ==
  LET m == IF s = c
           THEN fp2_mul(fp2_mul(<<3, 0>>, fp2_mul(s[1], s[1])), fp2_inverse(fp2_add(s[2], s[2])))
           ELSE fp2_mul(fp2_sub(c[2], s[2]), fp2_inverse(fp2_sub(c[1], s[1])))
  IN <<<<fp2_sub(fp2_mul(m, s[1]), s[2]), fp2_neg(fp2_mulByFq(m, a[1])), fp2_zero>>,
       <<fp2_zero, <<a[2], 0>>, fp2_zero>>>>

RECURSIVE Naive(_, _, _)
Naive(n, c, a) ==
  IF n = 1 THEN fp12_one
  ELSE With(Naive(n - 1, c, a), LAMBDA f : fp12_mul(f, LineAt(R2!Times(n - 1, c), c, a)))

RECURSIVE NaiveProduct(_, _, _)
NaiveProduct(f, pairs, i) ==
  IF i = 0 THEN f
  ELSE With(fp12_mul(f, Naive(x, At2(pairs[i][2]), At1(pairs[i][1]))),
            LAMBDA g : NaiveProduct(g, pairs, i - 1))

\* The Miller loop over the bits of x, on homogeneous coordinates and with
\* precomputed lines, is the product of Miller's functions of the pairs, inverted
\* because the curve parameter is -x; the final exponentiation's chain of Frobenius
\* maps and powers of x raises to the exponent of the pairing; and a pair multiplied
\* with itself negated (AddPairInv) gives one.
PairingAgrees ==
  call.op \in {"miller", "finalExp"} =>
    With(Easy(IF call.op = "finalExp" THEN call.f
              ELSE fp12_mul(call.out, NaiveProduct(fp12_one, call.pairs, Len(call.pairs)))),
         LAMBDA e :
           IF call.op = "miller" THEN e = fp12_one
           ELSE call.out = fp12_exp(e, (x + 1) * (x + 1) * (P - x) * (x * x + P * P - 1) + 3))
    /\ (call.op = "finalExp" /\ Len(call.in) = 3 /\ call.in[2] = call.in[3] =>
          call.out = fp12_one)
=============================================================================
