---------------------------- MODULE MCAlgorithms ----------------------------
(***************************************************************************)
(* The arithmetic the native contracts rest on, each package over small    *)
(* primes: BLS12-381 (one prime for fields, groups and pairing, one for    *)
(* the maps to the groups), both builds of bn256, and the word-by-word     *)
(* field arithmetic of each.  The first state says which package is        *)
(* called; one call is made and compared with a reference definition.      *)
(***************************************************************************)
EXTENDS Integers, Sequences, FiniteSets

VARIABLES part, call

\* An element of the twelfth extension by its coefficients.
fe12(f(_)) == <<<<<<f(1), f(2)>>, <<f(3), f(4)>>, <<f(5), f(6)>>>>,
                <<<<f(7), f(8)>>, <<f(9), f(10)>>, <<f(11), f(12)>>>>>>
Units == {fe12(LAMBDA i : IF i = k THEN 1 ELSE 0) : k \in 1..12}

-----------------------------------------------------------------------------
\* BLS12-381 over the prime 19: curves of order 21 and 373, both without a
\* proper subgroup the points used here lie in.
swuG2At19 == [z |-> <<1, 3>>, zInv |-> <<17, 6>>, a |-> <<0, 1>>, b |-> <<14, 5>>, minusBOverA |-> <<14, 14>>]
isogenyG2At19 ==
  <<<<<<0, 0>>, <<15, 0>>, <<3, 16>>, <<0, 17>>>>, <<<<0, 13>>, <<11, 11>>, <<1, 0>>, <<0, 0>>>>,
    <<<<13, 0>>, <<13, 6>>, <<0, 10>>, <<17, 17>>>>, <<<<14, 5>>, <<0, 1>>, <<7, 7>>, <<1, 0>>>>>>

Factors19 == Units \cup {fe12(LAMBDA i : (s * s * i + 7 * s + 11 * i * i) % 19) : s \in 1..4}
Elements19 == Factors19 \cup {fe12(LAMBDA i : IF i \in {m, n} THEN 1 ELSE 0) : m, n \in 1..12}
\* Two forms of the point at infinity, points in affine and in Jacobian form.
Points1At19 ==
  {<<0, 1, 0>>, <<5, 7, 0>>}
  \cup {p \in (0..18) \X (0..18) \X {1, 3} :
           /\ (p[2] * p[2]) % 19 = (p[1]^3 + 4 * p[3]^6) % 19
           /\ \E a \in 0..3 : p[1] = (a * p[3] * p[3]) % 19}
\* Infinity, the image of 3, its negative, its double, and the images of 1 + 2u and 5 + 8u.
Image == <<<<3, 4>>, <<13, 15>>, <<1, 0>>>>
Points2At19 ==
  {<<<<0, 0>>, <<1, 0>>, <<0, 0>>>>, Image, <<<<3, 4>>, <<6, 4>>, <<1, 0>>>>,
   <<<<18, 10>>, <<13, 5>>, <<7, 11>>>>, <<<<5, 3>>, <<10, 12>>, <<1, 0>>>>,
   <<<<12, 16>>, <<8, 10>>, <<1, 0>>>>}
Words2At19 == {<<0, 0>>, <<0, 19>>, <<1, 0>>} \cup {<<0, Image[i][j]>> : i, j \in 1..2}

B == INSTANCE BLS12381 WITH
  P <- 19, x <- 6, q1 <- 21, q2 <- 373, cofactorEFFG1 <- 1, cofactorEFFG2 <- 1,
  swuParamsForG1 <- <<>>, isogenyConstantsG1 <- <<>>,
  swuParamsForG2 <- swuG2At19, isogenyConstantsG2 <- isogenyG2At19,
  Elements <- Elements19, Factors <- Factors19,
  Words1 <- {<<0, n>> : n \in 0..20} \cup {<<1, 5>>}, Words2 <- Words2At19,
  Points1 <- Points1At19, Points2 <- Points2At19,
  Scalars <- {0, 1, 7, 8, 31}

\* The maps over the prime 43, on curves with cofactor four.
M == INSTANCE BLS12381 WITH
  P <- 43, x <- 6, q1 <- 9, q2 <- 457, cofactorEFFG1 <- 4, cofactorEFFG2 <- 4,
  swuParamsForG1 <- [z |-> 2, zInv |-> 21, a |-> 1, b |-> 6, minusBOverA |-> 37],
  isogenyConstantsG1 <-
    <<<<42, 19, 29, 25>>, <<4, 39, 1, 0>>, <<35, 13, 24, 39>>, <<35, 12, 37, 1>>>>,
  swuParamsForG2 <- [z |-> <<1, 1>>, zInv |-> <<21, 22>>, a |-> <<0, 1>>, b |-> <<5, 5>>,
                     minusBOverA |-> <<38, 5>>],
  isogenyConstantsG2 <-
    <<<<<<39, 39>>, <<0, 31>>, <<30, 13>>, <<34, 0>>>>, <<<<0, 4>>, <<11, 32>>, <<1, 0>>, <<0, 0>>>>,
      <<<<2, 41>>, <<9, 0>>, <<6, 6>>, <<0, 16>>>>, <<<<22, 22>>, <<0, 12>>, <<38, 5>>, <<1, 0>>>>>>,
  Elements <- {}, Factors <- {},
  Words1 <- {<<0, n>> : n \in 0..44} \cup {<<1, 5>>},
  Words2 <- {<<0, n>> : n \in (0..6) \cup {42, 43}} \cup {<<1, 0>>},
  Points1 <- {}, Points2 <- {}, Scalars <- {}

-----------------------------------------------------------------------------
\* bn256 with the curve parameter u = 5, whose prime fits the checker's integers.
PBN == 27631
OrderBN == 27481
FactorsBN ==
  Units \cup {fe12(LAMBDA i : (s * s * 1237 * i + 7001 * s + 11 * i * i * i) % PBN) : s \in 1..2}
        \cup {fe12(LAMBDA i : ((s * s * 1237 * i + 7001 * s + 11 * i * i * i) % PBN) - ((i % 3) * PBN)) :
                s \in 1..2}

PairedBN ==
  <<<<<<19172, 17618>>, <<4247, 1722>>, <<19970, 21659>>>>,
    <<<<18898, 26724>>, <<17715, 26131>>, <<1895, 15160>>>>>>

BN == INSTANCE BN256 WITH
  P <- PBN, XiRe <- 4, u <- 5, Order <- OrderBN, curveB <- 6, twistB <- <<1625, 21131>>,
  xiToPMinus1Over6 <- <<27118, 25130>>, xiToPMinus1Over3 <- <<23974, 23536>>,
  xiToPMinus1Over2 <- <<1075, 20992>>, xiTo2PMinus2Over3 <- <<26457, 24394>>,
  xiToPSquaredMinus1Over6 <- 24885, xiToPSquaredMinus1Over3 <- 24884,
  xiTo2PSquaredMinus2Over3 <- 2746,
  sixuPlus2NAF <- <<0, 0, 0, 0, 0, -1, 1>>,
  Elements <- FactorsBN, Factors <- FactorsBN,
  Generator1 <- <<6, 9010, 1, 1>>,
  Generator2 <- <<<<15664, 17895>>, <<11545, 3867>>, <<0, 1>>, <<0, 1>>>>,
  Multiples <- {0, 1, 2, 3},
  Paired <- {0, 1, 2} \X {1, 2} \X {1} \X {0, 1, 2},
  Scalars <- {0, 1, 2, 13740, 13741, 27480, 27481},
  Parted <- {k \in 0..(OrderBN - 1) : k % 17 = 0 \/ k > OrderBN - 40 \/ k < 40},
  Words1 <- {<<x, y>> : x \in {0, 6, PBN, PBN + 6},
                        y \in {0, 9010, PBN - 9010, PBN, PBN + 9010, 1}} \cup {<<6>>},
  Words2 <- {<<0, 0, 0, 0>>, <<0, 0, 0, PBN>>, <<15664, 17895, 11545, 3867>>,
             <<15664, 17895, 11545, 3867 + PBN>>, <<15664, 17895, PBN - 11545, PBN - 3867>>,
             <<0, 2, 5948, 10018>>, <<1, 2, 3, 4>>, <<0, 2, 5948>>},
  lambda <- 4981, mu <- 22168,
  GeneratorsPaired <- PairedBN

-----------------------------------------------------------------------------
\* Three words of four bits, and two, with primes that leave as many bits of the
\* highest word free as the code's do.
BLSW == INSTANCE BLSWords WITH
  W <- 4, N <- 3, modulus <- 443, inp <- 13, BitLength <- 9,
  Reduced <- {e \in 0..442 : e % 37 = 5 \/ e > 435 \/ e < 4},
  Loose <- {e \in 0..885 : e % 9 = 0 \/ e > 875 \/ e \in 436..450}
BNW == INSTANCE BNWords WITH
  W <- 4, N <- 2, p2 <- 61,
  Unmarshalled <- {0, 1, 15, 16, 59, 60, 61, 62, 63, 64, 128, 255}

-----------------------------------------------------------------------------
vars == <<part, call>>

Init == /\ part \in {"bls", "maps", "bn", "blsWords", "bnWords"}
        /\ call = [op |-> "none"]

Next ==
  /\ UNCHANGED part
  /\ \/ part = "bls" /\ B!NextGroup
     \/ part = "maps" /\ M!NextMap
     \/ part = "bn" /\ BN!Next
     \/ part = "blsWords" /\ call.op = "none" /\ BLSW!Next
     \/ part = "bnWords" /\ call.op = "none" /\ BNW!Next

Spec == Init /\ [][Next]_vars

-----------------------------------------------------------------------------
\* The towers of crypto/bls12381 (fp.go to fp12.go) and of both builds of bn256
\* (gfp2.go to gfp12.go) compute in the fields they stand for; see BLS12381, BN256.
FieldsAgree == /\ part = "bls" => B!FieldsAgree
               /\ part = "bn" => BN!BNFieldsAgree

\* g1.go, g2.go, curve.go and twist.go compute the group law, and the contracts on
\* points fail exactly on inputs that encode no points; see BLS12381, BN256.
GroupsAgree == /\ part = "bls" => B!GroupsAgree
               /\ part = "bn" => BN!BNGroupsAgree

\* MapToCurve of g1.go and g2.go lands in the subgroup the contracts compute in;
\* see BLS12381.
MapsIntoSubgroup == part = "maps" => M!MapsIntoSubgroup

\* pairing.go and optate.go compute the pairing: the Miller loop, the final
\* exponentiation, and the check of several pairs; see BLS12381, BN256.
PairingAgrees == /\ part = "bls" => B!PairingAgrees
                 /\ part = "bn" => BN!BNPairingAgrees

\* arithmetic_fallback.go and gfp_generic.go compute in the field, word by word; see
\* BLSWords, BNWords.
WordsAgree == /\ part = "blsWords" => BLSW!MontgomeryAgrees
              /\ part = "bnWords" => BNW!GfpAgrees
=============================================================================
