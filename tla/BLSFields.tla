----------------------------- MODULE BLSFields -----------------------------
(***************************************************************************)
(* The field towers of crypto/bls12381 (fp.go, fp2.go, fp6.go, fp12.go),   *)
(* for an arbitrary prime P with P % 24 = 19 and 2 not a cube modulo P, as *)
(* the package's prime: what makes u^2 = -1, v^3 = 1 + u, w^2 = v fields.  *)
(*                                                                         *)
(* A base field element (the type fe, six words in Montgomery form) is the *)
(* number it stands for, in 0..P-1; the word arithmetic is BLSWords.       *)
(* fe2, fe6 and fe12 are tuples in the code's coefficient order, one       *)
(* higher: a[1] is the code's a[0].  The functions write their result      *)
(* through a pointer and keep temporaries in a shared t; here an operator  *)
(* returns the value the function leaves in its first argument, and the    *)
(* Assign forms return the new value of a.                                 *)
(***************************************************************************)
EXTENDS Integers, Sequences, BigInts

CONSTANT P

-----------------------------------------------------------------------------
\* fp.go
fp_add(a, b) == (a + b) % P
fp_sub(a, b) == (a - b) % P
fp_neg(a) == (-a) % P
fp_mul(a, b) == (a * b) % P
fp_double(a) == fp_add(a, a)
fp_square(a) == fp_mul(a, a)

RECURSIVE fp_expFrom(_, _, _, _)
fp_expFrom(z, a, e, i) ==
  IF i < 0 THEN z
  ELSE LET s == fp_mul(z, z) IN
       fp_expFrom(IF Bit(e, i) = 1 THEN fp_mul(s, a) ELSE s, a, e, i - 1)
fp_exp(a, e) == fp_expFrom(1, a, e, BitLen(e))

\* What the Kaliski inversion of BLSWords computes; zero has no inverse
\* and is returned as it is.
fp_inverse(a) == IF a = 0 THEN 0 ELSE CHOOSE b \in 1..(P - 1) : (a * b) % P = 1

\* The root the code tries, and whether it is one.
fp_sqrt(a) ==
  LET c == fp_exp(a, (P + 1) \div 4) IN [root |-> c, ok |-> fp_square(c) = a]

\* Zero counts as a non-residue.
fp_isQuadraticNonResidue(a) == fp_exp(a, (P - 1) \div 2) # 1

\* fe.sign: the parity of the number itself.
fp_sign(a) == a % 2 = 0

-----------------------------------------------------------------------------
\* fp2.go
fp2_zero == <<0, 0>>
fp2_one == <<1, 0>>
fp2_add(a, b) == <<fp_add(a[1], b[1]), fp_add(a[2], b[2])>>
fp2_double(a) == <<fp_double(a[1]), fp_double(a[2])>>
fp2_sub(a, b) == <<fp_sub(a[1], b[1]), fp_sub(a[2], b[2])>>
fp2_neg(a) == <<fp_neg(a[1]), fp_neg(a[2])>>

fp2_mul(a, b) ==
  LET t1 == fp_mul(a[1], b[1])
      t2 == fp_mul(a[2], b[2])
      t0 == fp_mul(fp_add(a[1], a[2]), fp_add(b[1], b[2]))
  IN <<fp_sub(t1, t2), fp_sub(t0, fp_add(t1, t2))>>

\* ladd and ldouble leave their sum unreduced; mul reduces it.
fp2_square(a) ==
  <<fp_mul(a[1] + a[2], fp_sub(a[1], a[2])), fp_mul(2 * a[1], a[2])>>

fp2_mulByNonResidue(a) == <<fp_sub(a[1], a[2]), fp_add(a[1], a[2])>>

fp2_mulByB(a) ==
  LET t0 == fp_double(fp_double(a[1]))
      t1 == fp_double(fp_double(a[2]))
  IN <<fp_sub(t0, t1), fp_add(t0, t1)>>

fp2_inverse(a) ==
  LET t0 == fp_inverse(fp_add(fp_square(a[1]), fp_square(a[2])))
  IN <<fp_mul(a[1], t0), fp_neg(fp_mul(t0, a[2]))>>

fp2_mulByFq(a, b) == <<fp_mul(a[1], b), fp_mul(a[2], b)>>

RECURSIVE fp2_expFrom(_, _, _, _)
fp2_expFrom(z, a, s, i) ==
  IF i < 0 THEN z
  ELSE LET q == fp2_square(z) IN
       fp2_expFrom(IF Bit(s, i) = 1 THEN fp2_mul(q, a) ELSE q, a, s, i - 1)
fp2_exp(a, s) == fp2_expFrom(fp2_one, a, s, BitLen(s) - 1)

fp2_frobeniusMap(a, power) ==
  <<a[1], IF power % 2 = 1 THEN fp_neg(a[2]) ELSE a[2]>>

fp2_sqrt(a) ==
  LET a1 == fp2_exp(a, (P - 3) \div 4)
      alpha == fp2_mul(fp2_square(a1), a)
      x0 == fp2_mul(a1, a)
      c == fp2_mul(fp2_exp(fp2_add(alpha, fp2_one), (P - 1) \div 2), x0)
  IN IF alpha = <<fp_neg(1), 0>>
     THEN [root |-> <<fp_neg(x0[2]), x0[1]>>, ok |-> TRUE]
     ELSE [root |-> c, ok |-> fp2_square(c) = a]

fp2_isQuadraticNonResidue(a) ==
  fp_isQuadraticNonResidue(fp_add(fp_square(a[2]), fp_square(a[1])))

\* fe2.sign: the sign of the first coefficient that is not zero, from a[0].
fp2_sign(a) == IF a[1] # 0 THEN fp_sign(a[1]) ELSE fp_sign(a[2])

-----------------------------------------------------------------------------
\* fp6.go
fp6_zero == <<fp2_zero, fp2_zero, fp2_zero>>
fp6_one == <<fp2_one, fp2_zero, fp2_zero>>
fp6_add(a, b) == <<fp2_add(a[1], b[1]), fp2_add(a[2], b[2]), fp2_add(a[3], b[3])>>
fp6_double(a) == <<fp2_double(a[1]), fp2_double(a[2]), fp2_double(a[3])>>
fp6_sub(a, b) == <<fp2_sub(a[1], b[1]), fp2_sub(a[2], b[2]), fp2_sub(a[3], b[3])>>
fp6_neg(a) == <<fp2_neg(a[1]), fp2_neg(a[2]), fp2_neg(a[3])>>

fp6_mul(a, b) ==
  LET t0 == fp2_mul(a[1], b[1])
      t1 == fp2_mul(a[2], b[2])
      t2 == fp2_mul(a[3], b[3])
      Cross(i, j, s, t) == fp2_sub(fp2_mul(fp2_add(a[i], a[j]), fp2_add(b[i], b[j])),
                                   fp2_add(s, t))
  IN <<fp2_add(t0, fp2_mulByNonResidue(Cross(2, 3, t1, t2))),
       fp2_add(Cross(1, 2, t0, t1), fp2_mulByNonResidue(t2)),
       fp2_add(t1, Cross(1, 3, t0, t2))>>

\* The in-place multiplication runs the same steps; a[0] is written last.
fp6_mulAssign(a, b) == fp6_mul(a, b)

fp6_square(a) ==
  LET t0 == fp2_square(a[1])
      t1 == fp2_double(fp2_mul(a[1], a[2]))
      t2 == fp2_square(fp2_add(fp2_sub(a[1], a[2]), a[3]))
      t3 == fp2_double(fp2_mul(a[2], a[3]))
      t4 == fp2_square(a[3])
  IN <<fp2_add(t0, fp2_mulByNonResidue(t3)),
       fp2_add(t1, fp2_mulByNonResidue(t4)),
       fp2_sub(fp2_add(fp2_add(t1, t2), t3), fp2_add(t0, t4))>>

\* Multiplication by b0 + b1 v.
fp6_mulBy01(a, b0, b1) ==
  LET t0 == fp2_mul(a[1], b0)
      t1 == fp2_mul(a[2], b1)
      t2 == fp2_mulByNonResidue(fp2_sub(fp2_mul(fp2_add(a[2], a[3]), b1), t1))
      t3 == fp2_sub(fp2_mul(fp2_add(a[1], a[3]), b0), t0)
      t4 == fp2_sub(fp2_mul(fp2_add(b0, b1), fp2_add(a[1], a[2])), t0)
  IN <<fp2_add(t2, t0), fp2_sub(t4, t1), fp2_add(t3, t1)>>

\* The in-place form differs in its temporaries only.
fp6_mulBy01Assign(a, b0, b1) ==
  LET t0 == fp2_mul(a[1], b0)
      t1 == fp2_mul(a[2], b1)
      t2 == fp2_sub(fp2_mul(b1, fp2_add(a[2], a[3])), t1)
      t3 == fp2_sub(fp2_mul(b0, fp2_add(a[1], a[3])), t0)
      t4 == fp2_sub(fp2_mul(fp2_add(b0, b1), fp2_add(a[1], a[2])), t0)
  IN <<fp2_add(fp2_mulByNonResidue(t2), t0), fp2_sub(t4, t1), fp2_add(t3, t1)>>

fp6_mulBy1(a, b1) ==
  <<fp2_mulByNonResidue(fp2_mul(a[3], b1)), fp2_mul(a[1], b1), fp2_mul(a[2], b1)>>

fp6_mulByNonResidue(a) == <<fp2_mulByNonResidue(a[3]), a[1], a[2]>>

fp6_mulByBaseField(a, b) == <<fp2_mul(a[1], b), fp2_mul(a[2], b), fp2_mul(a[3], b)>>

fp6_inverse(a) ==
  LET t0 == fp2_sub(fp2_square(a[1]), fp2_mulByNonResidue(fp2_mul(a[2], a[3])))
      t1 == fp2_sub(fp2_square(a[2]), fp2_mul(a[1], a[3]))
      t2 == fp2_sub(fp2_mulByNonResidue(fp2_square(a[3])), fp2_mul(a[1], a[2]))
      t3 == fp2_inverse(fp2_add(
              fp2_mulByNonResidue(fp2_add(fp2_mul(a[3], t2), fp2_mul(a[2], t1))),
              fp2_mul(a[1], t0)))
  IN <<fp2_mul(t0, t3), fp2_mul(t2, t3), fp2_mul(t1, t3)>>

\* The coefficients of the Frobenius maps, which the code keeps as tables:
\* (1+u)^((P^i - 1)/3), its square, and (1+u)^((P^i - 1)/6).
RECURSIVE frobenius(_, _)
frobenius(c1, i) == IF i = 0 THEN fp2_one
                    ELSE fp2_mul(fp2_frobeniusMap(frobenius(c1, i - 1), 1), c1)
frobeniusCoeffs61 == [i \in 0..5 |-> frobenius(fp2_exp(<<1, 1>>, (P - 1) \div 3), i)]
frobeniusCoeffs62 == [i \in 0..5 |-> fp2_mul(frobeniusCoeffs61[i], frobeniusCoeffs61[i])]
frobeniusCoeffs12 == [i \in 0..11 |-> frobenius(fp2_exp(<<1, 1>>, (P - 1) \div 6), i)]

\* Power 3 multiplies by u and by -1 without a table.
fp6_frobeniusMapAssign(a, power) ==
  LET f == <<fp2_frobeniusMap(a[1], power), fp2_frobeniusMap(a[2], power), fp2_frobeniusMap(a[3], power)>>
  IN CASE power % 6 = 0 -> f
       [] power % 6 = 3 -> <<f[1], <<fp_neg(f[2][2]), f[2][1]>>, fp2_neg(f[3])>>
       [] OTHER -> <<f[1], fp2_mul(f[2], frobeniusCoeffs61[power % 6]),
                     fp2_mul(f[3], frobeniusCoeffs62[power % 6])>>

\* For power 3 this form writes c[0][0] and c[1][1] from the argument and
\* negates the argument's a[2] in place of the result's; no caller asks for 3.
fp6_frobeniusMap(a, power) ==
  LET f == <<fp2_frobeniusMap(a[1], power), fp2_frobeniusMap(a[2], power), fp2_frobeniusMap(a[3], power)>>
  IN CASE power % 6 = 0 -> f
       [] power % 6 = 3 -> <<<<fp_neg(a[2][2]), f[1][2]>>, <<f[2][1], a[2][1]>>, f[3]>>
       [] OTHER -> <<f[1], fp2_mul(f[2], frobeniusCoeffs61[power % 6]),
                     fp2_mul(f[3], frobeniusCoeffs62[power % 6])>>

-----------------------------------------------------------------------------
\* fp12.go
fp12_one == <<fp6_one, fp6_zero>>
fp12_add(a, b) == <<fp6_add(a[1], b[1]), fp6_add(a[2], b[2])>>
fp12_sub(a, b) == <<fp6_sub(a[1], b[1]), fp6_sub(a[2], b[2])>>
fp12_conjugate(a) == <<a[1], fp6_neg(a[2])>>

fp12_square(a) ==
  LET t2 == fp6_mul(a[1], a[2])
      t1 == fp6_add(fp6_mulByNonResidue(a[2]), a[1])
      t0 == fp6_sub(fp6_mulAssign(fp6_add(a[1], a[2]), t1), t2)
  IN <<fp6_sub(t0, fp6_mulByNonResidue(t2)), fp6_double(t2)>>

fp12_mul(a, b) ==
  LET t1 == fp6_mul(a[1], b[1])
      t2 == fp6_mul(a[2], b[2])
  IN <<fp6_add(t1, fp6_mulByNonResidue(t2)),
       fp6_sub(fp6_mulAssign(fp6_add(a[1], a[2]), fp6_add(b[1], b[2])), fp6_add(t1, t2))>>
fp12_mulAssign(a, b) == fp12_mul(a, b)

fp12_fp4Square(a0, a1) ==
  LET t0 == fp2_square(a0)
      t1 == fp2_square(a1)
  IN <<fp2_add(fp2_mulByNonResidue(t1), t0),
       fp2_sub(fp2_sub(fp2_square(fp2_add(a0, a1)), t0), t1)>>

\* Granger-Scott squaring: 3 t - 2 a or 3 t + 2 a in each coefficient.
fp12_cyclotomicSquare(a) ==
  LET s == fp12_fp4Square(a[1][1], a[2][2])
      q == fp12_fp4Square(a[2][1], a[1][3])
      r == fp12_fp4Square(a[1][2], a[2][3])
      Less(t, x) == fp2_add(fp2_double(fp2_sub(t, x)), t)
      More(t, x) == fp2_add(fp2_double(fp2_add(t, x)), t)
  IN <<<<Less(s[1], a[1][1]), Less(q[1], a[1][2]), Less(r[1], a[1][3])>>,
       <<More(fp2_mulByNonResidue(r[2]), a[2][1]), More(s[2], a[2][2]), More(q[2], a[2][3])>>>>

fp12_inverse(a) ==
  LET t0 == fp6_inverse(fp6_sub(fp6_square(a[1]), fp6_mulByNonResidue(fp6_square(a[2]))))
  IN <<fp6_mul(a[1], t0), fp6_neg(fp6_mulAssign(t0, a[2]))>>

\* Multiplication by c0 + c1 v + c4 v w, the value of a line.
\* A mutant: the cross term forgets c4.
fp12_mulBy014Assign_NoCross(a, c0, c1, c4) ==
  LET t0 == fp6_mulBy01(a[1], c0, c1)
      t1 == fp6_mulBy1(a[2], c4)
      t2 == fp6_mulBy01Assign(fp6_add(a[2], a[1]), c0, c1)
  IN <<fp6_add(fp6_mulByNonResidue(t1), t0), fp6_sub(fp6_sub(t2, t0), t1)>>
fp12_mulBy014Assign(a, c0, c1, c4) ==
  LET t0 == fp6_mulBy01(a[1], c0, c1)
      t1 == fp6_mulBy1(a[2], c4)
      t2 == fp6_mulBy01Assign(fp6_add(a[2], a[1]), c0, fp2_add(c1, c4))
  IN <<fp6_add(fp6_mulByNonResidue(t1), t0), fp6_sub(fp6_sub(t2, t0), t1)>>

RECURSIVE fp12_expFrom(_, _, _, _)
fp12_expFrom(z, a, s, i) ==
  IF i < 0 THEN z
  ELSE With(fp12_square(z), LAMBDA q :
         fp12_expFrom(IF Bit(s, i) = 1 THEN fp12_mul(q, a) ELSE q, a, s, i - 1))
fp12_exp(a, s) == fp12_expFrom(fp12_one, a, s, BitLen(s) - 1)

RECURSIVE fp12_cyclotomicExpFrom(_, _, _, _)
fp12_cyclotomicExpFrom(z, a, s, i) ==
  IF i < 0 THEN z
  ELSE With(fp12_cyclotomicSquare(z), LAMBDA q :
         fp12_cyclotomicExpFrom(IF Bit(s, i) = 1 THEN fp12_mul(q, a) ELSE q, a, s, i - 1))
fp12_cyclotomicExp(a, s) == fp12_cyclotomicExpFrom(fp12_one, a, s, BitLen(s) - 1)

fp12_frobeniusMap(a, power) ==
  LET f == <<fp6_frobeniusMap(a[1], power), fp6_frobeniusMap(a[2], power)>>
  IN CASE power = 0 -> f
       [] power = 6 -> <<f[1], fp6_neg(f[2])>>
       [] OTHER -> <<f[1], fp6_mulByBaseField(f[2], frobeniusCoeffs12[power])>>

fp12_frobeniusMapAssign(a, power) ==
  LET f == <<fp6_frobeniusMapAssign(a[1], power), fp6_frobeniusMapAssign(a[2], power)>>
  IN CASE power = 0 -> f
       [] power = 6 -> <<f[1], fp6_neg(f[2])>>
       [] OTHER -> <<f[1], fp6_mulByBaseField(f[2], frobeniusCoeffs12[power])>>
=============================================================================
