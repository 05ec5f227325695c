--------------------------- MODULE CurveReference ---------------------------
(***************************************************************************)
(* The reference the groups are checked against: the chord and tangent law *)
(* of y^2 = x^3 + b in affine coordinates, and scalars by halving.         *)
(* Infinity is <<>>.                                                       *)
(***************************************************************************)
EXTENDS Integers, Sequences, BigInts

CONSTANTS add(_, _), sub(_, _), mul(_, _), neg(_), inverse(_)

Plus(p, r) ==
  LET m == IF p = r
           THEN mul(add(add(mul(p[1], p[1]), mul(p[1], p[1])), mul(p[1], p[1])),
                    inverse(add(p[2], p[2])))
           ELSE mul(sub(r[2], p[2]), inverse(sub(r[1], p[1])))
      x == sub(sub(mul(m, m), p[1]), r[1])
  IN CASE p = <<>> -> r
       [] p # <<>> /\ r = <<>> -> p
       [] p # <<>> /\ r # <<>> /\ p[1] = r[1] /\ p[2] = neg(r[2]) -> <<>>
       [] OTHER -> <<x, sub(mul(m, sub(p[1], x)), p[2])>>

RECURSIVE Times(_, _)
Times(n, p) == IF n = 0 THEN <<>>
               ELSE With(Times(n \div 2, p), LAMBDA h :
                      IF n % 2 = 1 THEN Plus(Plus(h, h), p) ELSE Plus(h, h))
=============================================================================
