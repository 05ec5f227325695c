------------------------------ MODULE BNGroup -------------------------------
(***************************************************************************)
(* The points of curve.go and of twist.go in crypto/bn256: the same code,  *)
(* over gfP and over gfP2.  A point is <<x, y, z, t>>, Jacobian, with      *)
(* t = z^2 kept for the pairing only.  Add, Double and Mul leave their     *)
(* receiver's t alone; it is zero in the new points they are called on.    *)
(***************************************************************************)
EXTENDS Integers, Sequences, BigInts

CONSTANTS
  zero, one, b, add(_, _), sub(_, _), mul(_, _), square(_), neg(_), invert(_),
  minimal(_), isZero(_), isOne(_)

Infinity == <<zero, one, zero, zero>>
IsInfinity(c) == isZero(c[3])

\* For affine points.
IsOnCurve(c) ==
  isZero(minimal(sub(sub(square(c[2]), mul(square(c[1]), c[1])), b)))

Double(a) ==
  LET A == square(a[1])
      B == square(a[2])
      C == square(B)
      h == sub(sub(square(add(a[1], B)), A), C)
      d == add(h, h)
      e == add(add(A, A), A)
      x == sub(square(e), add(d, d))
      c4 == add(add(C, C), add(C, C))
      yz == mul(a[2], a[3])
  IN <<x, sub(mul(e, sub(d, x)), add(c4, c4)), add(yz, yz), zero>>

Add(a, c) ==
  IF IsInfinity(a) THEN c
  ELSE IF IsInfinity(c) THEN a
  ELSE
    LET z1z1 == square(a[3])
        z2z2 == square(c[3])
        u1 == mul(a[1], z2z2)
        u2 == mul(c[1], z1z1)
        s1 == mul(a[2], mul(c[3], z2z2))
        s2 == mul(c[2], mul(a[3], z1z1))
        h == sub(u2, u1)
        i == square(add(h, h))
        j == mul(h, i)
        s == sub(s2, s1)
        r == add(s, s)
        v == mul(u1, i)
        x == sub(sub(square(r), j), add(v, v))
        sj == mul(s1, j)
    IN IF isZero(h) /\ isZero(s) THEN Double(a)
       ELSE <<x, sub(mul(r, sub(v, x)), add(sj, sj)),
              mul(sub(sub(square(add(a[3], c[3])), z1z1), z2z2), h), zero>>

RECURSIVE MulFrom(_, _, _, _)
MulFrom(sum, a, scalar, i) ==
  IF i < 0 THEN sum
  ELSE With(With(Double(sum), LAMBDA t : IF Bit(scalar, i) # 0 THEN Add(t, a) ELSE t),
            LAMBDA s : MulFrom(s, a, scalar, i - 1))
Mul(a, scalar) == MulFrom(Infinity, a, scalar, BitLen(scalar))

\* A point whose z is one keeps the t it has.
MakeAffine(c) ==
  IF isOne(c[3]) THEN c
  ELSE IF IsInfinity(c) THEN Infinity
  ELSE With(invert(c[3]), LAMBDA zInv :
         <<mul(c[1], square(zInv)), mul(mul(c[2], zInv), square(zInv)), one, one>>)

Negative(a) == <<a[1], neg(a[2]), a[3], zero>>
=============================================================================
