----------------------------- MODULE BNFields ------------------------------
(***************************************************************************)
(* The field towers of crypto/bn256: i^2 = -1, tau^3 = xi = XiRe + i,      *)
(* w^2 = tau, where the code's XiRe is 9 (smaller primes need another).    *)
(* The packages google and cloudflare compute with the same                *)
(* formulas and differ in how they keep a number.  cloudflare (Reduced)    *)
(* keeps it in 0..P-1 after every operation.  google keeps a big integer   *)
(* and reduces products only: sums, differences, doubles, negations and    *)
(* multiples of xi grow, and MulScalar leaves its product unreduced.  Such *)
(* a product is represented by a number with the same residue outside      *)
(* 0..P-1; nothing compares one before it is reduced.                      *)
(*                                                                         *)
(* gfP2 is <<x, y>> for x i + y, gfP6 <<x, y, z>> for x tau^2 + y tau + z, *)
(* gfP12 <<x, y>> for x w + y.  An operator returns what the method leaves *)
(* in its receiver; the pools of temporaries are left out.                 *)
(***************************************************************************)
EXTENDS Integers, Sequences, BigInts

CONSTANTS
  P, XiRe, Reduced,
  \* The powers of xi constants.go tabulates; those of P^2 lie in the base field.
  xiToPMinus1Over6, xiToPMinus1Over3, xiToPMinus1Over2, xiTo2PMinus2Over3,
  xiToPSquaredMinus1Over6, xiToPSquaredMinus1Over3, xiTo2PSquaredMinus2Over3

Red(n) == IF Reduced THEN n % P ELSE n

gfP_Add(a, b) == Red(a + b)
gfP_Sub(a, b) == Red(a - b)
gfP_Neg(a) == Red(-a)
gfP_Mul(a, b) == ((a % P) * (b % P)) % P
gfP_Scale(a, b) ==
  IF Reduced \/ a = 0 \/ b = 0 THEN gfP_Mul(a, b) ELSE gfP_Mul(a, b) + P

\* Fermat's inverse, bit by bit from the lowest; zero gives zero.
RECURSIVE gfP_InvertFrom(_, _, _)
gfP_InvertFrom(sum, power, e) ==
  IF e = 0 THEN sum
  ELSE With(IF e % 2 = 1 THEN gfP_Mul(sum, power) ELSE sum,
            LAMBDA s : With(gfP_Mul(power, power),
                            LAMBDA p : gfP_InvertFrom(s, p, e \div 2)))
gfP_Invert(f) == gfP_InvertFrom(1, f % P, P - 2)

-----------------------------------------------------------------------------
gfP2_Zero == <<0, 0>>
gfP2_One == <<0, 1>>
gfP2_Minimal(a) == <<a[1] % P, a[2] % P>>
gfP2_IsZero(a) == a[1] = 0 /\ a[2] = 0
\* google reads the words of y, which carry no sign.
gfP2_IsOne(a) == a[1] = 0 /\ (a[2] = 1 \/ a[2] = -1)
gfP2_Conjugate(a) == <<gfP_Neg(a[1]), a[2]>>
gfP2_Neg(a) == <<gfP_Neg(a[1]), gfP_Neg(a[2])>>
gfP2_Add(a, b) == <<gfP_Add(a[1], b[1]), gfP_Add(a[2], b[2])>>
gfP2_Sub(a, b) == <<gfP_Sub(a[1], b[1]), gfP_Sub(a[2], b[2])>>
gfP2_Mul(a, b) ==
  <<(gfP_Mul(a[1], b[2]) + gfP_Mul(b[1], a[2])) % P,
    (gfP_Mul(a[2], b[2]) - gfP_Mul(a[1], b[1])) % P>>
gfP2_MulScalar(a, b) == <<gfP_Scale(a[1], b), gfP_Scale(a[2], b)>>
gfP2_MulXi(a) == <<Red(XiRe * a[1] + a[2]), Red(XiRe * a[2] - a[1])>>
gfP2_Square(a) ==
  <<(2 * gfP_Mul(a[1], a[2])) % P, gfP_Mul(a[2] - a[1], a[1] + a[2])>>
gfP2_Invert(a) ==
  With(gfP_Invert(gfP_Mul(a[2], a[2]) + gfP_Mul(a[1], a[1])),
       LAMBDA inv : <<gfP_Mul(-a[1], inv), gfP_Mul(a[2], inv)>>)

-----------------------------------------------------------------------------
gfP6_Zero == <<gfP2_Zero, gfP2_Zero, gfP2_Zero>>
gfP6_One == <<gfP2_Zero, gfP2_Zero, gfP2_One>>
gfP6_Minimal(a) == <<gfP2_Minimal(a[1]), gfP2_Minimal(a[2]), gfP2_Minimal(a[3])>>
gfP6_IsZero(a) == gfP2_IsZero(a[1]) /\ gfP2_IsZero(a[2]) /\ gfP2_IsZero(a[3])
gfP6_IsOne(a) == gfP2_IsZero(a[1]) /\ gfP2_IsZero(a[2]) /\ gfP2_IsOne(a[3])
gfP6_Neg(a) == <<gfP2_Neg(a[1]), gfP2_Neg(a[2]), gfP2_Neg(a[3])>>
gfP6_Add(a, b) == <<gfP2_Add(a[1], b[1]), gfP2_Add(a[2], b[2]), gfP2_Add(a[3], b[3])>>
gfP6_Sub(a, b) == <<gfP2_Sub(a[1], b[1]), gfP2_Sub(a[2], b[2]), gfP2_Sub(a[3], b[3])>>
gfP6_Frobenius(a) ==
  <<gfP2_Mul(gfP2_Conjugate(a[1]), xiTo2PMinus2Over3),
    gfP2_Mul(gfP2_Conjugate(a[2]), xiToPMinus1Over3), gfP2_Conjugate(a[3])>>
gfP6_FrobeniusP2(a) ==
  <<gfP2_MulScalar(a[1], xiTo2PSquaredMinus2Over3),
    gfP2_MulScalar(a[2], xiToPSquaredMinus1Over3), a[3]>>

gfP6_Mul(a, b) ==
  LET v0 == gfP2_Mul(a[3], b[3])
      v1 == gfP2_Mul(a[2], b[2])
      v2 == gfP2_Mul(a[1], b[1])
      cross(i, j) == gfP2_Mul(gfP2_Add(a[i], a[j]), gfP2_Add(b[i], b[j]))
  IN <<gfP2_Sub(gfP2_Add(gfP2_Sub(cross(1, 3), v0), v1), v2),
       gfP2_Add(gfP2_Sub(gfP2_Sub(cross(2, 3), v0), v1), gfP2_MulXi(v2)),
       gfP2_Add(gfP2_MulXi(gfP2_Sub(gfP2_Sub(cross(1, 2), v1), v2)), v0)>>

gfP6_MulScalar(a, b) == <<gfP2_Mul(a[1], b), gfP2_Mul(a[2], b), gfP2_Mul(a[3], b)>>
gfP6_MulGFP(a, b) == <<gfP2_MulScalar(a[1], b), gfP2_MulScalar(a[2], b), gfP2_MulScalar(a[3], b)>>
gfP6_MulTau(a) == <<a[2], a[3], gfP2_MulXi(a[1])>>

gfP6_Square(a) ==
  LET v0 == gfP2_Square(a[3])
      v1 == gfP2_Square(a[2])
      v2 == gfP2_Square(a[1])
      cross(i, j) == gfP2_Square(gfP2_Add(a[i], a[j]))
  IN <<gfP2_Sub(gfP2_Add(gfP2_Sub(cross(1, 3), v0), v1), v2),
       gfP2_Add(gfP2_Sub(gfP2_Sub(cross(2, 3), v0), v1), gfP2_MulXi(v2)),
       gfP2_Add(gfP2_MulXi(gfP2_Sub(gfP2_Sub(cross(1, 2), v1), v2)), v0)>>

gfP6_Invert(a) ==
  LET A == gfP2_Sub(gfP2_Square(a[3]), gfP2_MulXi(gfP2_Mul(a[1], a[2])))
      B == gfP2_Sub(gfP2_MulXi(gfP2_Square(a[1])), gfP2_Mul(a[2], a[3]))
      C == gfP2_Sub(gfP2_Square(a[2]), gfP2_Mul(a[1], a[3]))
      F == gfP2_Add(gfP2_Add(gfP2_MulXi(gfP2_Mul(C, a[2])), gfP2_Mul(A, a[3])),
                    gfP2_MulXi(gfP2_Mul(B, a[1])))
  IN gfP6_MulScalar(<<C, B, A>>, gfP2_Invert(F))

-----------------------------------------------------------------------------
gfP12_One == <<gfP6_Zero, gfP6_One>>
gfP12_Minimal(a) == <<gfP6_Minimal(a[1]), gfP6_Minimal(a[2])>>
\* IsOne reduces first (google); a reduced number stays as it is.
gfP12_IsOne(a) == gfP6_IsZero(gfP6_Minimal(a[1])) /\ gfP6_IsOne(gfP6_Minimal(a[2]))
gfP12_Conjugate(a) == <<gfP6_Neg(a[1]), a[2]>>
gfP12_Frobenius(a) ==
  <<gfP6_MulScalar(gfP6_Frobenius(a[1]), xiToPMinus1Over6), gfP6_Frobenius(a[2])>>
gfP12_FrobeniusP2(a) ==
  <<gfP6_MulGFP(gfP6_FrobeniusP2(a[1]), xiToPSquaredMinus1Over6), gfP6_FrobeniusP2(a[2])>>
gfP12_Mul(a, b) ==
  With(a, LAMBDA c : With(b, LAMBDA d :
    <<gfP6_Add(gfP6_Mul(c[1], d[2]), gfP6_Mul(d[1], c[2])),
      gfP6_Add(gfP6_Mul(c[2], d[2]), gfP6_MulTau(gfP6_Mul(c[1], d[1])))>>))
gfP12_Square(a) ==
  With(a, LAMBDA c : With(gfP6_Mul(c[1], c[2]), LAMBDA v0 :
    <<gfP6_Add(v0, v0),
      gfP6_Sub(gfP6_Sub(gfP6_Mul(gfP6_Add(c[1], c[2]), gfP6_Add(c[2], gfP6_MulTau(c[1]))), v0),
               gfP6_MulTau(v0))>>))
gfP12_Invert(a) ==
  With(gfP6_Invert(gfP6_Sub(gfP6_Square(a[2]), gfP6_MulTau(gfP6_Square(a[1])))),
       LAMBDA t2 : <<gfP6_Mul(gfP6_Neg(a[1]), t2), gfP6_Mul(a[2], t2)>>)

RECURSIVE gfP12_ExpFrom(_, _, _, _)
gfP12_ExpFrom(sum, a, power, i) ==
  IF i < 0 THEN sum
  ELSE With(With(gfP12_Square(sum),
                 LAMBDA t : IF Bit(power, i) # 0 THEN gfP12_Mul(t, a) ELSE t),
            LAMBDA s : gfP12_ExpFrom(s, a, power, i - 1))
gfP12_Exp(a, power) == gfP12_ExpFrom(gfP12_One, a, power, BitLen(power) - 1)
=============================================================================
