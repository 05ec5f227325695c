------------------------------ MODULE BigInts -------------------------------
(***************************************************************************)
(* The bits of a natural number, as big.Int.BitLen and big.Int.Bit give    *)
(* them (numbers below 2^31), and a way to evaluate a value before it is   *)
(* used.                                                                   *)
(***************************************************************************)
EXTENDS Integers

BitLen(n) == CHOOSE l \in 0..31 : (IF l = 31 THEN TRUE ELSE n < 2^l)
                                  /\ (l = 0 \/ n >= 2^(l - 1))
Bit(n, i) == (n \div 2^i) % 2

\* f(v).  The bound variable makes TLC evaluate v once, before f.
With(v, f(_)) == CHOOSE r \in {f(u) : u \in {v}} : TRUE
=============================================================================
