------------------------------- MODULE BNWords -------------------------------
(***************************************************************************)
(* crypto/bn256/cloudflare, the base field in machine words: gfp_generic.go*)
(* (what a processor without the assembly runs) and gfp.go.  A gfP is N    *)
(* words, times R modulo the prime.  One call is made with arguments from  *)
(* 0..p2-1; call records what it returned.                                 *)
(***************************************************************************)
EXTENDS Words

CONSTANTS
  p2,        \* the prime; it leaves two bits of the highest word free
  Unmarshalled  \* numbers given to Unmarshal

VARIABLE call

vars == call

prime == Digits(p2)

\* np is -1/p2 modulo R.
np == Digits(CHOOSE n \in 0..(R - 1) : (n * p2 + 1) % R = 0)

-----------------------------------------------------------------------------
\* a - p2 is taken unless it borrows and the word above a, head, is 0.
gfpCarry(a, head) ==
  LET b == SubWords(a, prime) IN IF b[2] = 1 /\ head = 0 THEN a ELSE b[1]

gfpNeg(a) == gfpCarry(SubWords(prime, a)[1], 0)
gfpAdd(a, b) == LET c == AddWords(a, b) IN gfpCarry(c[1], c[2])
gfpSub(a, b) == LET c == AddWords(a, SubWords(prime, b)[1]) IN gfpCarry(c[1], c[2])

\* The words are cut into quarters (those of a) and halves (those of b); a
\* product of a quarter and a half leaves room for the sums in a word.  Cell
\* 4 (i + j) + k of buff, from 0, sums the products that weigh 2^(k W/4).
Quarter == 2^(W \div 4)
Half == 2^(W \div 2)
Part(a, k) == (a \div Quarter^k) % Quarter

Products(ai, bj, k) ==
  LET b0 == bj % Half
      b2 == bj \div Half
  IN (IF k \in 0..3 THEN Part(ai, k) * b0 ELSE 0) + (IF k \in 2..5 THEN Part(ai, k - 2) * b2 ELSE 0)

RECURSIVE Sum(_)
Sum(s) == IF s = <<>> THEN 0 ELSE Head(s) + Sum(Tail(s))
Cell(a, b, words, c) ==
  Sum(<<>> \o [n \in 1..(N * N) |->
        LET i == (n - 1) \div N
            j == (n - 1) % N
        IN IF i + j >= words THEN 0 ELSE Products(a[i + 1], b[j + 1], c - 4 * (i + j))]) % Base
Buff(a, b, words) == <<>> \o [c \in 1..(4 * words + 4) |-> Cell(a, b, words, c - 1)]

\* Quarter i of every word is shifted into place and added to the words.
RECURSIVE Gather(_, _, _, _, _, _)
Gather(buff, words, i, head, carry, out) ==
  LET j == Len(out)
      at == buff[4 * j + i + 1]
      y == (((at * Quarter^i) % Base) + head) % Base
      z == Add64(words[j + 1], y, carry)
  IN IF j = Len(words) THEN out
     ELSE Gather(buff, words, i, at \div (Base \div Quarter^i), z[2], Append(out, z[1]))
Gathered(buff, n) ==
  LET w0 == <<>> \o [j \in 1..n |-> buff[4 * (j - 1) + 1]]
      w1 == Gather(buff, w0, 1, 0, 0, <<>>)
      w2 == Gather(buff, w1, 2, 0, 0, <<>>)
  IN Gather(buff, w2, 3, 0, 0, <<>>)

mul(a, b) == Gathered(Buff(a, b, 2 * N), 2 * N)
halfMul(a, b) == Gathered(Buff(a, b, N), N)

\* Montgomery's reduction of the whole product.
gfpMul(a, b) ==
  LET T == mul(a, b)
      m == halfMul(SubSeq(T, 1, N), np)
      s == AddWords(T, mul(m, prime))
  IN gfpCarry(SubSeq(s[1], N + 1, 2 * N), s[2])

-----------------------------------------------------------------------------
\* gfp.go
montEncode(a) == gfpMul(a, Digits((R * R) % p2))
montDecode(a) == gfpMul(a, Digits(1))

\* newGFp: a negative number is negated in the field.
newGFp(x) == montEncode(IF x >= 0 THEN Digits(x) ELSE gfpNeg(Digits(-x)))

\* sum runs from R^-1 over the bits of p2 - 2, lowest first; r3 = R^3.
RECURSIVE InvertFrom(_, _, _)
InvertFrom(sum, power, e) ==
  IF e = 0 THEN sum
  ELSE InvertFrom(IF e % 2 = 1 THEN gfpMul(sum, power) ELSE sum, gfpMul(power, power), e \div 2)
Invert(f) ==
  LET rN1 == Digits(CHOOSE n \in 0..(p2 - 1) : (n * R) % p2 = 1)
      r3 == Digits(((((R * R) % p2) * R) % p2))
  IN gfpMul(InvertFrom(rN1, f, p2 - 2), r3)

\* Whether the words are below the prime, from the highest.
RECURSIVE Below(_, _)
Below(e, i) ==
  IF i = 0 THEN FALSE ELSE IF e[i] < prime[i] THEN TRUE
  ELSE IF e[i] > prime[i] THEN FALSE ELSE Below(e, i - 1)
Unmarshal(n) == [e |-> Digits(n), ok |-> Below(Digits(n), N)]

-----------------------------------------------------------------------------
Init == call = [op |-> "none"]

Return(op, in, out) ==
  /\ call.op = "none"
  /\ call' = [op |-> op, in |-> in, out |-> out]

Elements == 0..(p2 - 1)
GfpAdd == \E a, b \in Elements : Return("gfpAdd", <<a, b>>, gfpAdd(Digits(a), Digits(b)))
GfpSub == \E a, b \in Elements : Return("gfpSub", <<a, b>>, gfpSub(Digits(a), Digits(b)))
GfpMul == \E a, b \in Elements : Return("gfpMul", <<a, b>>, gfpMul(Digits(a), Digits(b)))
GfpNeg == \E a \in Elements : Return("gfpNeg", a, gfpNeg(Digits(a)))
GfpInvert == \E a \in Elements : Return("gfpInvert", a, Invert(Digits(a)))
GfpNew == \E a \in Elements, s \in {-1, 1} : Return("gfpNew", s * a, montDecode(newGFp(s * a)))
GfpUnmarshal == \E n \in Unmarshalled : Return("gfpUnmarshal", n, Unmarshal(n))

Next == GfpAdd \/ GfpSub \/ GfpMul \/ GfpNeg \/ GfpInvert \/ GfpNew \/ GfpUnmarshal

Spec == Init /\ [][Next]_vars

-----------------------------------------------------------------------------
\* The generic code of gfp_generic.go, which keeps no carry flag but works it
\* out from the bits of its operands, and multiplies in parts of a word,
\* computes in the field and leaves every result below the prime; Unmarshal
\* accepts the numbers below the prime and no other.
GfpAgrees ==
  LET out == Value(call.out)
      Is(n) == out < p2 /\ (out - n) % p2 = 0
  IN /\ call.op = "gfpAdd" => Is(call.in[1] + call.in[2])
     /\ call.op = "gfpSub" => Is(call.in[1] - call.in[2])
     /\ call.op = "gfpNeg" => Is(-call.in)
     /\ call.op = "gfpNew" => Is(call.in)
     /\ call.op = "gfpMul" => out < p2 /\ (out * R - call.in[1] * call.in[2]) % p2 = 0
     /\ call.op = "gfpInvert" => out < p2 /\ (out * call.in - (IF call.in = 0 THEN 0 ELSE R * R)) % p2 = 0
     /\ call.op = "gfpUnmarshal" => (call.out.ok <=> call.in < p2)
=============================================================================
