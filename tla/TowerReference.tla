--------------------------- MODULE TowerReference ---------------------------
(***************************************************************************)
(* The reference the pairing fields are checked against: the field of P^12 *)
(* elements as polynomials in one variable w of degree less than 12,       *)
(* multiplied term by term and reduced by the minimal polynomial of w.     *)
(* With w^6 = XiRe + u and u^2 = -1 that is                                *)
(*     w^12 = 2 XiRe w^6 - (XiRe^2 + 1).                                   *)
(* No tower, no Karatsuba, no Frobenius table.  A polynomial is a sequence *)
(* of 12 coefficients, the constant one first.                             *)
(***************************************************************************)
EXTENDS Integers, Sequences, FiniteSetsExt, BigInts

CONSTANTS P, XiRe

\* The sequence of the values f takes on 1..n, evaluated once.
Table(n, f(_)) == <<>> \o [i \in 1..n |-> f(i)]

One == Table(12, LAMBDA i : IF i = 1 THEN 1 ELSE 0)

\* The product before reduction, the coefficients of w^18 and above folded
\* back, then those of w^12 and above.
Product(a, b) ==
  LET N == XiRe * XiRe + 1
      c == Table(23, LAMBDA k :
             MapThenSumSet(LAMBDA i : (a[i] * b[k + 1 - i]) % P,
                           {i \in 1..12 : k + 1 - i \in 1..12}) % P)
      d == Table(18, LAMBDA k :
             c[k] + (IF k \in 13..17 THEN 2 * XiRe * c[k + 6] ELSE 0)
                  - (IF k \in 7..11 THEN N * c[k + 12] ELSE 0))
  IN Table(12, LAMBDA k :
       (d[k] + (IF k > 6 THEN 2 * XiRe * d[k + 6] ELSE 0 - N * d[k + 12])) % P)
Mul(a, b) == With(a, LAMBDA c : With(b, LAMBDA d : Product(c, d)))

RECURSIVE Pow(_, _)
Pow(a, n) == IF n = 0 THEN One
             ELSE With(With(Pow(a, n \div 2), LAMBDA h : Mul(h, h)),
                       LAMBDA s : IF n % 2 = 1 THEN Mul(a, s) ELSE s)

\* The polynomial of (re + im u) w^k: u is w^6 - XiRe.
Place(re, im, k) == Table(12, LAMBDA i : CASE i = k + 1 -> (re - XiRe * im) % P
                                           [] i = k + 7 -> im % P
                                           [] OTHER -> 0)
Plus(a, b) == Table(12, LAMBDA i : (a[i] + b[i]) % P)
=============================================================================
