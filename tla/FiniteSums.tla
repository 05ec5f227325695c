------------------------------ MODULE FiniteSums ------------------------------
(***************************************************************************)
(* Facts about SumFunctionOnSet (community module Functions): the sum of   *)
(* integers f[x] over a finite set.  The library defines it by a recursive *)
(* function that takes an arbitrary element out of the set at each turn;   *)
(* the lemmas show that the order does not matter, so that a sum can be    *)
(* updated when one value changes and split when one element leaves.  Each *)
(* induction over finite sets is an argument by a smallest counterexample. *)
(***************************************************************************)
EXTENDS Integers, FiniteSets, Functions, FiniteSetTheorems, WellFoundedInduction, TLAPS

\* The element that the recursion takes out of a set.
Pick(s) == CHOOSE x \in s : TRUE

\* g holds the sums of f over the subsets of S.
IsSum(g, f, S) ==
  g = [s \in SUBSET S |-> IF s = {} THEN 0 ELSE f[Pick(s)] + g[s \ {Pick(s)}]]

\* A nonempty family of subsets of a finite set has a minimal member.
LEMMA SmallestSubset ==
  ASSUME NEW S, IsFiniteSet(S), NEW T, T \subseteq SUBSET S, T # {}
  PROVE  \E s \in T : \A t \in T : t \subseteq s => t = s
<1>1. IsWellFoundedOn(StrictSubsetOrdering(S), SUBSET S)
  BY FS_StrictSubsetOrderingWellFounded, FS_FiniteSubsetsOfFinite
<1>2. PICK s \in T : \A t \in T : ~(<<t, s>> \in StrictSubsetOrdering(S))
  BY <1>1, WFMin
<1>3. ASSUME NEW t \in T, t \subseteq s PROVE t = s
  BY <1>2, <1>3 DEF StrictSubsetOrdering
<1> QED BY <1>3

\* A nonempty set of positions has a least one.
LEMMA LeastPosition ==
  ASSUME NEW n \in Nat, NEW S, S \subseteq 1..n, S # {}
  PROVE  \E k \in S : \A j \in S : k <= j
<1> DEFINE T == {1..k : k \in S}
<1>1. T \subseteq SUBSET (1..n) /\ T # {}
  <2>1. ASSUME NEW k \in S PROVE 1..k \subseteq 1..n
    <3>1. k \in 1..n
      OBVIOUS
    <3> QED BY <3>1
  <2>2. ASSUME NEW u \in T PROVE u \subseteq 1..n
    BY <2>1
  <2>3. PICK k \in S : TRUE
    OBVIOUS
  <2>4. 1..k \in T
    OBVIOUS
  <2> QED BY <2>2, <2>4
<1>2. IsFiniteSet(1..n)
  BY FS_Interval
<1>3. PICK s \in T : \A u \in T : u \subseteq s => u = s
  <2> DEFINE I == 1..n
  <2>1. T \subseteq SUBSET I
    BY <1>1
  <2>2. T # {}
    BY <1>1
  <2>3. IsFiniteSet(I)
    BY <1>2
  <2> HIDE DEF T, I
  <2>4. \E s \in T : \A t \in T : t \subseteq s => t = s
    BY <2>1, <2>2, <2>3, SmallestSubset
  <2> QED BY <2>4
<1>4. PICK k \in S : s = 1..k
  BY <1>3
<1>5. ASSUME NEW j \in S PROVE k <= j
  <2>1. j \in 1..n /\ k \in 1..n
    OBVIOUS
  <2>2. SUFFICES ASSUME j < k PROVE FALSE
    BY <2>1
  <2>3. 1..j \in T /\ 1..j \subseteq 1..k
    BY <2>1, <2>2
  <2>4. 1..j = 1..k
    BY <2>3, <1>3, <1>4
  <2>5. k \in 1..k /\ k \notin 1..j
    BY <2>1, <2>2
  <2> QED BY <2>4, <2>5
<1> QED BY <1>5

\* The picked element is one of the set.
LEMMA PickIn == ASSUME NEW s, s # {} PROVE Pick(s) \in s
BY DEF Pick

\* Two tables of sums agree on a set on which the summed functions agree.
LEMMA SumsAgree ==
  ASSUME NEW S, IsFiniteSet(S), NEW f, NEW g, IsSum(g, f, S),
         NEW S2, NEW f2, NEW g2, IsSum(g2, f2, S2),
         NEW u \in SUBSET S, u \subseteq S2, \A x \in u : f[x] = f2[x]
  PROVE  g[u] = g2[u]
<1> DEFINE T == {s \in SUBSET u : g[s] # g2[s]}
<1> SUFFICES ASSUME T # {} PROVE FALSE
  OBVIOUS
<1>1. IsFiniteSet(u)
  BY FS_Subset
<1>2. PICK s \in T : \A t \in T : t \subseteq s => t = s
  <2>1. T \subseteq SUBSET u
    OBVIOUS
  <2> HIDE DEF T
  <2> QED BY <1>1, <2>1, SmallestSubset
<1>3. s # {}
  BY DEF IsSum
<1>4. Pick(s) \in s
  BY <1>3, PickIn
<1> DEFINE r == s \ {Pick(s)}
<1>5. g[r] = g2[r]
  BY <1>2, <1>4
<1>6. g[s] = f[Pick(s)] + g[r] /\ g2[s] = f2[Pick(s)] + g2[r]
  BY <1>3 DEF IsSum
<1> QED BY <1>2, <1>4, <1>5, <1>6

\* The table of sums exists, and its entries are integers.
LEMMA SumExists ==
  ASSUME NEW S, IsFiniteSet(S), NEW f, \A x \in S : f[x] \in Int
  PROVE  \E g : IsSum(g, f, S) /\ g \in [SUBSET S -> Int]
<1> DEFINE G(u) == CHOOSE g : IsSum(g, f, u) /\ g \in [SUBSET u -> Int]
           Has(u) == \E g : IsSum(g, f, u) /\ g \in [SUBSET u -> Int]
           T == {s \in SUBSET S : ~Has(s)}
<1> SUFFICES ASSUME T # {} PROVE FALSE
  OBVIOUS
<1>1. PICK s \in T : \A t \in T : t \subseteq s => t = s
  <2>1. T \subseteq SUBSET S
    OBVIOUS
  <2> HIDE DEF T
  <2> QED BY <2>1, SmallestSubset
<1>2. ASSUME NEW t \in SUBSET s, t # s
      PROVE  IsSum(G(t), f, t) /\ G(t) \in [SUBSET t -> Int]
  <2>1. Has(t)
    BY <1>1, <1>2
  <2> QED BY <2>1
<1> DEFINE Rest(t) == t \ {Pick(t)}
           h == [t \in SUBSET s |->
                   IF t = {} THEN 0 ELSE f[Pick(t)] + G(Rest(t))[Rest(t)]]
<1>3. ASSUME NEW t \in SUBSET s, t # {}
      PROVE  Rest(t) \in SUBSET s /\ Rest(t) # s /\ Rest(t) \in SUBSET Rest(t)
             /\ f[Pick(t)] \in Int
  BY <1>1, <1>3, PickIn
<1> HIDE DEF G, Has, T
<1>4. h \in [SUBSET s -> Int]
  <2> SUFFICES ASSUME NEW t \in SUBSET s, t # {}
               PROVE  f[Pick(t)] + G(Rest(t))[Rest(t)] \in Int
    OBVIOUS
  <2>1. G(Rest(t)) \in [SUBSET Rest(t) -> Int]
    BY <1>2, <1>3
  <2>2. G(Rest(t))[Rest(t)] \in Int
    BY <1>3, <2>1
  <2> QED BY <1>3, <2>2
<1>5. ASSUME NEW t \in SUBSET s, t # {}
      PROVE  h[Rest(t)] = G(Rest(t))[Rest(t)]
  <2> DEFINE u == Rest(t)
  <2>1. u \in SUBSET s /\ u # s /\ IsSum(G(u), f, u)
    BY <1>2, <1>3, <1>5
  <2> HIDE DEF u
  <2>2. CASE u = {}
    <3>1. h[u] = 0
      BY <2>1, <2>2
    <3>2. u \in SUBSET u
      OBVIOUS
    <3>3. G(u)[u] = 0
      <4> HIDE DEF h
      <4> QED BY <2>1, <2>2, <3>2 DEF IsSum
    <3> QED BY <3>1, <3>3 DEF u
  <2>3. CASE u # {}
    <3> DEFINE v == Rest(u)
    <3>1. v \in SUBSET s /\ v # s /\ v \in SUBSET u
      BY <1>3, <2>1, <2>3
    <3>2. IsSum(G(v), f, v)
      BY <1>2, <3>1
    <3>3. h[u] = f[Pick(u)] + G(v)[v]
      BY <2>1, <2>3
    <3>4. G(u)[u] = f[Pick(u)] + G(u)[v]
      BY <2>1, <2>3 DEF IsSum
    <3>5. IsFiniteSet(u)
      BY <1>1, <2>1, FS_Subset DEF T
    <3> HIDE DEF v
    <3>6. G(u)[v] = G(v)[v]
      BY <2>1, <3>1, <3>2, <3>5, SumsAgree
    <3> QED BY <3>3, <3>4, <3>6 DEF u
  <2> QED BY <2>2, <2>3 DEF u
<1>6. IsSum(h, f, s)
  <2>1. \A t \in SUBSET s : h[t] = IF t = {} THEN 0 ELSE f[Pick(t)] + h[t \ {Pick(t)}]
    BY <1>5
  <2>2. h = [t \in SUBSET s |-> h[t]]
    BY <1>4
  <2> HIDE DEF h
  <2> QED BY <2>1, <2>2 DEF IsSum
<1> HIDE DEF h
<1>7. Has(s)
  BY <1>4, <1>6 DEF Has
<1> QED BY <1>1, <1>7 DEF T

\* The library's sum is the last entry of such a table.
LEMMA SumTable ==
  ASSUME NEW S, IsFiniteSet(S), NEW f, \A x \in S : f[x] \in Int
  PROVE  \E g \in [SUBSET S -> Int] : IsSum(g, f, S) /\ SumFunctionOnSet(f, S) = g[S]
<1> DEFINE g == CHOOSE g : IsSum(g, f, S)
<1>1. SumFunctionOnSet(f, S) = g[S]
  BY DEF SumFunctionOnSet, FoldFunctionOnSet, MapThenFoldSet, IsSum, Pick
<1>2. PICK h : IsSum(h, f, S) /\ h \in [SUBSET S -> Int]
  BY SumExists
<1>3. IsSum(g, f, S)
  BY <1>2
<1> HIDE DEF g
<1>4. g = [s \in SUBSET S |-> g[s]]
  BY <1>3 DEF IsSum
<1>5. \A s \in SUBSET S : g[s] = h[s]
  BY <1>2, <1>3, SumsAgree
<1>6. g \in [SUBSET S -> Int]
  BY <1>2, <1>4, <1>5
<1> QED BY <1>1, <1>3, <1>6

\* A sum of integers is an integer.
LEMMA SumInt ==
  ASSUME NEW S, IsFiniteSet(S), NEW f, \A x \in S : f[x] \in Int
  PROVE  SumFunctionOnSet(f, S) \in Int
<1>1. PICK g \in [SUBSET S -> Int] : SumFunctionOnSet(f, S) = g[S]
  BY SumTable
<1> QED BY <1>1

\* The empty sum is 0.
LEMMA SumEmpty == ASSUME NEW f PROVE SumFunctionOnSet(f, {}) = 0
<1>1. IsFiniteSet({})
  BY FS_EmptySet
<1>2. PICK g \in [SUBSET {} -> Int] : IsSum(g, f, {}) /\ SumFunctionOnSet(f, {}) = g[{}]
  BY <1>1, SumTable
<1> QED BY <1>2 DEF IsSum

\* A sum depends only on the values over its set.
LEMMA SumCongruent ==
  ASSUME NEW S, IsFiniteSet(S), NEW f, NEW f2,
         \A x \in S : f[x] \in Int /\ f2[x] = f[x]
  PROVE  SumFunctionOnSet(f2, S) = SumFunctionOnSet(f, S)
<1>1. PICK g \in [SUBSET S -> Int] : IsSum(g, f, S) /\ SumFunctionOnSet(f, S) = g[S]
  BY SumTable
<1>2. PICK g2 \in [SUBSET S -> Int] : IsSum(g2, f2, S) /\ SumFunctionOnSet(f2, S) = g2[S]
  BY SumTable
<1>3. g2[S] = g[S]
  BY <1>1, <1>2, SumsAgree
<1> QED BY <1>1, <1>2, <1>3

\* The table does not depend on the element that is taken out.
TakesAny(g, f, S) == \A s \in SUBSET S : \A a \in s : g[s] = f[a] + g[s \ {a}]

\* A table of integer sums.
Table(g, f, S) == IsSum(g, f, S) /\ g \in [SUBSET S -> Int]

\* Any element of a set may be taken out first.
LEMMA TableTakesAny ==
  ASSUME NEW S, IsFiniteSet(S), NEW f, \A x \in S : f[x] \in Int,
         NEW g, Table(g, f, S)
  PROVE  TakesAny(g, f, S)
<1> SUFFICES \A s \in SUBSET S : \A a \in s : g[s] = f[a] + g[s \ {a}]
  BY DEF TakesAny
<1> USE DEF Table
<1> DEFINE Good(t) == \A b \in t : g[t] = f[b] + g[t \ {b}]
           T == {t \in SUBSET S : ~Good(t)}
<1> SUFFICES ASSUME T # {} PROVE FALSE
  OBVIOUS
<1>1. PICK t \in T : \A r \in T : r \subseteq t => r = t
  <2>1. T \subseteq SUBSET S
    OBVIOUS
  <2> HIDE DEF T
  <2> QED BY <2>1, SmallestSubset
<1>2. PICK b \in t : g[t] # f[b] + g[t \ {b}]
  BY <1>1
<1> DEFINE p == Pick(t)
<1>3. p \in t
  BY <1>2, PickIn
<1>4. g[t] = f[p] + g[t \ {p}]
  BY <1>2 DEF IsSum
<1>5. p # b
  BY <1>2, <1>4
<1> HIDE DEF p
<1>6. Good(t \ {p}) /\ Good(t \ {b})
  <2>1. t \ {p} \in SUBSET S /\ t \ {p} # t /\ t \ {b} \in SUBSET S /\ t \ {b} # t
    BY <1>1, <1>2, <1>3
  <2> HIDE DEF Good
  <2>2. t \ {p} \notin T /\ t \ {b} \notin T
    BY <1>1, <2>1
  <2> QED BY <2>1, <2>2
<1>7. g[t \ {p}] = f[b] + g[(t \ {p}) \ {b}]
  BY <1>2, <1>5, <1>6
<1>8. g[t \ {b}] = f[p] + g[(t \ {b}) \ {p}]
  BY <1>3, <1>5, <1>6
<1>9. (t \ {p}) \ {b} = (t \ {b}) \ {p}
  OBVIOUS
<1>10. f[p] \in Int /\ f[b] \in Int /\ g[(t \ {b}) \ {p}] \in Int
  BY <1>1, <1>2, <1>3
<1> DEFINE q == g[(t \ {b}) \ {p}]
<1>11. g[t] = f[p] + (f[b] + q)
  BY <1>4, <1>7, <1>9
<1>12. g[t] # f[b] + (f[p] + q)
  BY <1>2, <1>8
<1> HIDE DEF q
<1> QED BY <1>10, <1>11, <1>12 DEF q

\* An element can be taken out of a sum.
LEMMA SumSplit ==
  ASSUME NEW S, IsFiniteSet(S), NEW f, \A x \in S : f[x] \in Int, NEW a \in S
  PROVE  /\ SumFunctionOnSet(f, S) = f[a] + SumFunctionOnSet(f, S \ {a})
         /\ SumFunctionOnSet(f, S \ {a}) \in Int
<1> DEFINE R == S \ {a}
<1>0. IsFiniteSet(R)
  BY FS_Subset
<1>1. PICK g \in [SUBSET S -> Int] : IsSum(g, f, S) /\ SumFunctionOnSet(f, S) = g[S]
  BY SumTable
<1>2. PICK h \in [SUBSET R -> Int] : IsSum(h, f, R) /\ SumFunctionOnSet(f, R) = h[R]
  BY <1>0, SumTable
<1>3. g[S] = f[a] + g[R]
  <2>1. S \in SUBSET S
    OBVIOUS
  <2>2. Table(g, f, S)
    BY <1>1 DEF Table
  <2>3. TakesAny(g, f, S)
    BY <2>2, TableTakesAny
  <2> QED BY <2>1, <2>3 DEF TakesAny
<1>4. R \in SUBSET S /\ R \in SUBSET R
  OBVIOUS
<1> HIDE DEF R
<1>5. g[R] = h[R]
  BY <1>1, <1>2, <1>4, SumsAgree
<1> QED BY <1>1, <1>2, <1>3, <1>4, <1>5 DEF R

\* Changing one value changes the sum by the difference.
LEMMA SumUpdate ==
  ASSUME NEW S, IsFiniteSet(S), NEW f, NEW f2, NEW a \in S,
         \A x \in S : f[x] \in Int /\ f2[x] \in Int,
         \A x \in S \ {a} : f2[x] = f[x]
  PROVE  SumFunctionOnSet(f2, S) = SumFunctionOnSet(f, S) - f[a] + f2[a]
<1> DEFINE R == S \ {a}
           x == SumFunctionOnSet(f, R)
           y == SumFunctionOnSet(f2, R)
<1>1. SumFunctionOnSet(f, S) = f[a] + x /\ x \in Int
  BY SumSplit
<1>2. SumFunctionOnSet(f2, S) = f2[a] + y /\ y \in Int
  BY SumSplit
<1>3. IsFiniteSet(R)
  BY FS_Subset
<1>4. x = y
  BY <1>3, SumCongruent
<1>5. f[a] \in Int /\ f2[a] \in Int
  OBVIOUS
<1> HIDE DEF x, y
<1> QED BY <1>1, <1>2, <1>4, <1>5

\* A sum of natural numbers is at least each of them.
LEMMA SumNat ==
  ASSUME NEW S, IsFiniteSet(S), NEW f, \A x \in S : f[x] \in Nat
  PROVE  /\ SumFunctionOnSet(f, S) \in Nat
         /\ \A a \in S : f[a] <= SumFunctionOnSet(f, S)
<1> DEFINE sum(s) == SumFunctionOnSet(f, s)
           T == {s \in SUBSET S : ~(sum(s) >= 0)}
<1>0. \A s \in SUBSET S : IsFiniteSet(s) /\ sum(s) \in Int
  BY FS_Subset, SumInt
<1>1. T = {}
  <2> SUFFICES ASSUME T # {} PROVE FALSE
    OBVIOUS
  <2>1. PICK s \in T : \A r \in T : r \subseteq s => r = s
    <3>1. T \subseteq SUBSET S
      OBVIOUS
    <3> HIDE DEF T
    <3> QED BY <3>1, SmallestSubset
  <2>2. s # {}
    BY <2>1, SumEmpty
  <2>3. PICK a \in s : TRUE
    BY <2>2
  <2>4. sum(s) = f[a] + sum(s \ {a})
    BY <1>0, <2>1, SumSplit
  <2>5. s \ {a} \notin T /\ s \ {a} \in SUBSET S
    BY <2>1
  <2>6. sum(s \ {a}) >= 0 /\ sum(s \ {a}) \in Int /\ f[a] \in Nat /\ ~(sum(s) >= 0)
    BY <1>0, <2>1, <2>5
  <2> HIDE DEF sum, T
  <2> QED BY <2>4, <2>6
<1>2. ASSUME NEW s \in SUBSET S PROVE sum(s) \in Nat
  <2>1. sum(s) >= 0 /\ sum(s) \in Int
    BY <1>0, <1>1
  <2> HIDE DEF sum
  <2> QED BY <2>1
<1>3. ASSUME NEW a \in S PROVE f[a] <= sum(S)
  <2>1. sum(S) = f[a] + sum(S \ {a})
    BY SumSplit
  <2>2. sum(S \ {a}) \in Nat /\ f[a] \in Nat
    BY <1>2
  <2> HIDE DEF sum
  <2> QED BY <2>1, <2>2
<1> QED BY <1>2, <1>3

\* The sum of a pointwise sum is the sum of the sums.
LEMMA SumAdd ==
  ASSUME NEW S, IsFiniteSet(S), NEW f, NEW g, NEW h,
         \A x \in S : f[x] \in Int /\ g[x] \in Int /\ h[x] = f[x] + g[x]
  PROVE  SumFunctionOnSet(h, S) = SumFunctionOnSet(f, S) + SumFunctionOnSet(g, S)
<1> DEFINE F(s) == SumFunctionOnSet(f, s)
           G(s) == SumFunctionOnSet(g, s)
           H(s) == SumFunctionOnSet(h, s)
           T == {s \in SUBSET S : ~(H(s) = F(s) + G(s))}
<1>1. T = {}
  <2> SUFFICES ASSUME T # {} PROVE FALSE
    OBVIOUS
  <2>1. PICK s \in T : \A r \in T : r \subseteq s => r = s
    <3>1. T \subseteq SUBSET S
      OBVIOUS
    <3> HIDE DEF T
    <3> QED BY <3>1, SmallestSubset
  <2>2. s # {}
    <3>1. F({}) = 0 /\ G({}) = 0 /\ H({}) = 0
      BY SumEmpty
    <3>2. ~(H(s) = F(s) + G(s))
      BY <2>1
    <3> HIDE DEF F, G, H, T
    <3>3. ASSUME s = {} PROVE FALSE
      <4>1. F(s) = 0 /\ G(s) = 0 /\ H(s) = 0
        BY <3>1, <3>3
      <4> QED BY <3>2, <4>1
    <3> QED BY <3>3
  <2>3. PICK a \in s : TRUE
    BY <2>2
  <2>4. IsFiniteSet(s) /\ \A x \in s : f[x] \in Int /\ g[x] \in Int /\ h[x] \in Int
    BY <2>1, FS_Subset
  <2>5. F(s) = f[a] + F(s \ {a}) /\ F(s \ {a}) \in Int
    BY <2>4, SumSplit
  <2>6. G(s) = g[a] + G(s \ {a}) /\ G(s \ {a}) \in Int
    BY <2>4, SumSplit
  <2>7. H(s) = h[a] + H(s \ {a}) /\ H(s \ {a}) \in Int
    BY <2>4, SumSplit
  <2>8. f[a] \in Int /\ g[a] \in Int /\ h[a] = f[a] + g[a]
    BY <2>1
  <2>9. H(s \ {a}) = F(s \ {a}) + G(s \ {a}) /\ ~(H(s) = F(s) + G(s))
    BY <2>1
  <2> HIDE DEF F, G, H
  <2> QED BY <2>5, <2>6, <2>7, <2>8, <2>9
<1> QED BY <1>1

\* A sum of zeros is 0.
LEMMA SumZero ==
  ASSUME NEW S, IsFiniteSet(S), NEW f, \A x \in S : f[x] = 0
  PROVE  SumFunctionOnSet(f, S) = 0
<1> DEFINE z == SumFunctionOnSet(f, S)
<1>1. z = z + z
  <2>1. \A x \in S : f[x] \in Int /\ f[x] \in Int /\ f[x] = f[x] + f[x]
    OBVIOUS
  <2> QED BY <2>1, SumAdd
<1>2. z \in Int
  BY SumInt
<1> HIDE DEF z
<1>3. z = 0
  BY <1>1, <1>2
<1> QED BY <1>3 DEF z

\* f is g on the pairs <<n, a>>, and 0 on the others.
OnlyRow(S, A, n, f, g) ==
  /\ \A a \in A : <<n, a>> \in S /\ g[a] \in Int /\ f[<<n, a>>] = g[a]
  /\ \A x \in S : (\E a \in A : x = <<n, a>>) \/ f[x] = 0

\* A sum over pairs that is 0 outside the pairs <<n, a>> is a sum over the a.
LEMMA SumRow ==
  ASSUME NEW S, IsFiniteSet(S), NEW A, IsFiniteSet(A), NEW n, NEW f, NEW g,
         OnlyRow(S, A, n, f, g)
  PROVE  SumFunctionOnSet(f, S) = SumFunctionOnSet(g, A)
<1> USE DEF OnlyRow
<1> DEFINE row(B) == [x \in S |-> IF \E a \in B : x = <<n, a>> THEN f[x] ELSE 0]
           F(B) == SumFunctionOnSet(row(B), S)
           G(B) == SumFunctionOnSet(g, B)
           T == {B \in SUBSET A : ~(F(B) = G(B))}
<1>0. ASSUME NEW B \in SUBSET A PROVE \A x \in S : row(B)[x] \in Int
  OBVIOUS
<1>1. T = {}
  <2> SUFFICES ASSUME T # {} PROVE FALSE
    OBVIOUS
  <2>1. PICK B \in T : \A r \in T : r \subseteq B => r = B
    <3>1. T \subseteq SUBSET A
      OBVIOUS
    <3> HIDE DEF T
    <3> QED BY <3>1, SmallestSubset
  <2>2. B # {}
    <3> SUFFICES ASSUME B = {} PROVE FALSE
      OBVIOUS
    <3>1. \A x \in S : row(B)[x] = 0
      OBVIOUS
    <3>2. F(B) = 0
      <4> HIDE DEF row
      <4> QED BY <3>1, SumZero
    <3>3. G(B) = 0
      BY SumEmpty
    <3> QED BY <2>1, <3>2, <3>3
  <2>3. PICK a \in B : TRUE
    BY <2>2
  <2> DEFINE C == B \ {a}
             p == <<n, a>>
  <2>4. B \in SUBSET A /\ C \in SUBSET A /\ C # B /\ p \in S
    BY <2>1, <2>3
  <2>5. F(C) = G(C) /\ ~(F(B) = G(B))
    BY <2>1, <2>4
  <2>6. row(B)[p] = g[a] /\ row(C)[p] = 0
    BY <2>3, <2>4
  <2>7. \A x \in S \ {p} : row(B)[x] = row(C)[x]
    BY <2>3
  <2>8. \A x \in S : row(B)[x] \in Int /\ row(C)[x] \in Int
    BY <1>0, <2>4
  <2> DEFINE rb == row(B)
             rc == row(C)
  <2> HIDE DEF p
  <2>9. SumFunctionOnSet(rb, S) = SumFunctionOnSet(rc, S) - rc[p] + rb[p]
    <3>1. /\ p \in S
          /\ \A x \in S : rc[x] \in Int /\ rb[x] \in Int
          /\ \A x \in S \ {p} : rb[x] = rc[x]
      BY <2>4, <2>7, <2>8
    <3> HIDE DEF rb, rc
    <3> QED BY <3>1, SumUpdate
  <2>10. F(B) = F(C) - 0 + g[a]
    BY <2>6, <2>9
  <2>11. F(C) \in Int
    <3>1. \A x \in S : rc[x] \in Int
      BY <2>8
    <3> HIDE DEF rc
    <3>2. SumFunctionOnSet(rc, S) \in Int
      BY <3>1, SumInt
    <3> QED BY <3>2 DEF rc
  <2>12. G(B) = g[a] + G(C) /\ G(C) \in Int
    BY <2>4, FS_Subset, SumSplit
  <2>13. g[a] \in Int
    BY <2>4
  <2> HIDE DEF F, G, C, T
  <2> QED BY <2>5, <2>12, <2>13, <2>10, <2>11
<1>2. F(A) = G(A)
  BY <1>1
<1>3. \A x \in S : row(A)[x] = f[x]
  OBVIOUS
<1>4. \A x \in S : f[x] \in Int /\ row(A)[x] = f[x]
  BY <1>0, <1>3
<1> HIDE DEF row
<1>5. F(A) = SumFunctionOnSet(f, S)
  BY <1>4, SumCongruent
<1> QED BY <1>2, <1>5

\* Rounding down: a quotient times its divisor is at most the dividend.
LEMMA Quotient ==
  ASSUME NEW a \in Nat, NEW b \in Nat \ {0}
  PROVE  a \div b \in Nat /\ b * (a \div b) <= a
OBVIOUS

\* Shares in proportion to f, each rounded down, do not add up to more than c.
LEMMA SumShares ==
  ASSUME NEW S, IsFiniteSet(S), NEW f, NEW g, NEW c \in Nat, NEW total \in Nat \ {0},
         total = SumFunctionOnSet(f, S),
         \A x \in S : f[x] \in Nat /\ g[x] = (c * f[x]) \div total
  PROVE  SumFunctionOnSet(g, S) \in Nat /\ SumFunctionOnSet(g, S) <= c
<1> DEFINE F(s) == SumFunctionOnSet(f, s)
           G(s) == SumFunctionOnSet(g, s)
           T == {s \in SUBSET S : ~(total * G(s) <= c * F(s))}
<1>0. ASSUME NEW x \in S PROVE g[x] \in Nat /\ total * g[x] <= c * f[x]
  <2> DEFINE y == c * f[x]
  <2>1. y \in Nat /\ g[x] = y \div total
    OBVIOUS
  <2> HIDE DEF y
  <2>2. g[x] \in Nat /\ total * g[x] <= y
    BY <2>1, Quotient
  <2> QED BY <2>2 DEF y
<1>1. T = {}
  <2> SUFFICES ASSUME T # {} PROVE FALSE
    OBVIOUS
  <2>1. PICK s \in T : \A r \in T : r \subseteq s => r = s
    <3>1. T \subseteq SUBSET S
      OBVIOUS
    <3> HIDE DEF T
    <3> QED BY <3>1, SmallestSubset
  <2>2. ~(total * G(s) <= c * F(s)) /\ s \in SUBSET S
    BY <2>1
  <2>3. s # {}
    <3>1. F({}) = 0 /\ G({}) = 0
      BY SumEmpty
    <3> HIDE DEF F, G, T
    <3>2. ASSUME s = {} PROVE FALSE
      <4>1. F(s) = 0 /\ G(s) = 0
        BY <3>1, <3>2
      <4> QED BY <2>2, <4>1
    <3> QED BY <3>2
  <2>4. PICK a \in s : TRUE
    BY <2>3
  <2>5. IsFiniteSet(s) /\ \A x \in s : f[x] \in Int /\ g[x] \in Int
    BY <1>0, <2>2, FS_Subset
  <2>6. F(s) = f[a] + F(s \ {a}) /\ F(s \ {a}) \in Int
    BY <2>5, SumSplit
  <2>7. G(s) = g[a] + G(s \ {a}) /\ G(s \ {a}) \in Int
    BY <2>5, SumSplit
  <2>8. total * G(s \ {a}) <= c * F(s \ {a})
    BY <2>1, <2>2
  <2>9. f[a] \in Nat /\ g[a] \in Nat /\ total * g[a] <= c * f[a]
    BY <1>0, <2>2
  <2> DEFINE x == F(s \ {a})
             y == G(s \ {a})
             u == f[a]
             v == g[a]
  <2>10. /\ total * (v + y) = total * v + total * y
         /\ c * (u + x) = c * u + c * x
         /\ {total * v, total * y, c * u, c * x} \subseteq Int
    <3>1. x \in Int /\ y \in Int /\ u \in Int /\ v \in Int
      BY <2>6, <2>7, <2>9
    <3> HIDE DEF x, y, u, v
    <3> QED BY <3>1
  <2> HIDE DEF F, G, T
  <2> QED BY <2>2, <2>6, <2>7, <2>8, <2>9, <2>10
<1>2. total * G(S) <= c * F(S)
  BY <1>1
<1>3. G(S) \in Nat
  BY <1>0, SumNat
<1> HIDE DEF F, G, T
<1>4. F(S) = total
  BY DEF F
<1>5. G(S) <= c
  <2> DEFINE y == G(S)
  <2>1. y \in Nat /\ total * y <= c * total
    BY <1>2, <1>3, <1>4
  <2> HIDE DEF y
  <2>2. y <= c
    <3>1. ASSUME y >= c + 1 PROVE FALSE
      <4>1. total * y >= total * (c + 1)
        BY <2>1, <3>1
      <4>2. total * (c + 1) = c * total + total /\ total >= 1
        OBVIOUS
      <4> QED BY <2>1, <4>1, <4>2
    <3> QED BY <2>1, <3>1
  <2> QED BY <2>2 DEF y
<1> QED BY <1>3, <1>5 DEF G
=============================================================================
