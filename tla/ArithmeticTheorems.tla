------------------------- MODULE ArithmeticTheorems -------------------------
(***************************************************************************)
(* The laws of rounded division and of SumOver.  Natural-number induction  *)
(* is used in the form "a nonempty set of naturals has a least element",   *)
(* which mentions no operator parameter.                                   *)
(***************************************************************************)
EXTENDS FiniteSums, Rounding, FiniteSetTheorems, TLAPS

-----------------------------------------------------------------------------
(* Rounding. *)

LEMMA DivBounds ==
  ASSUME NEW n \in Nat, NEW d \in Nat \ {0}
  PROVE  /\ n \div d \in Nat
         /\ d * (n \div d) =< n
         /\ n < d * (n \div d) + d
BY SMT

LEMMA Half ==
  ASSUME NEW d \in Nat \ {0}
  PROVE  /\ d \div 2 \in Nat
         /\ 2 * (d \div 2) =< d
         /\ d < 2 * (d \div 2) + 2
BY SMT

\* Adding half the divisor before cutting rounds to a nearest integer.
LEMMA RoundedQuotientIsNearest ==
  ASSUME NEW n \in Nat, NEW d \in Nat \ {0}
  PROVE  /\ RoundedQuotient(n, d) \in Nat
         /\ 2 * (d * RoundedQuotient(n, d) - n) =< d
         /\ 2 * (n - d * RoundedQuotient(n, d)) =< d
<1> DEFINE m == n + (d \div 2)
           p == d * (m \div d)
<1>1. d \div 2 \in Nat /\ 2 * (d \div 2) =< d /\ d < 2 * (d \div 2) + 2
  BY Half
<1>2. m \in Nat
  BY <1>1
<1>3. m \div d \in Nat /\ p =< m /\ m < p + d
  BY <1>2, DivBounds
<1>4. p \in Int
  BY <1>3
<1>5. 2 * (p - n) =< d /\ 2 * (n - p) =< d
  BY <1>1, <1>2, <1>3, <1>4
<1> QED
  BY <1>3, <1>5 DEF RoundedQuotient

LEMMA DivRoundOfNat ==
  ASSUME NEW n \in Nat, NEW d \in Nat \ {0}
  PROVE  DivRound(n, d) = RoundedQuotient(n, d) /\ DivRound(n, d) \in Nat
<1>1. Magnitude(n) = n /\ Magnitude(d) = d /\ (n < 0) = (d < 0)
  BY DEF Magnitude
<1> QED
  BY <1>1, RoundedQuotientIsNearest DEF DivRound

\* divRound: the result is an integer whose multiple of the divisor is off by
\* half the divisor at most, whatever the sign.
THEOREM RoundingError ==
  ASSUME NEW n \in Int, NEW d \in Nat \ {0}
  PROVE  /\ DivRound(n, d) \in Int
         /\ 2 * Magnitude(d * DivRound(n, d) - n) =< d
<1>1. CASE n >= 0
  <2>1. n \in Nat
    BY <1>1
  <2> DEFINE q == RoundedQuotient(n, d)
  <2>2. DivRound(n, d) = q
    BY <2>1, DivRoundOfNat
  <2>3. q \in Nat /\ 2 * (d * q - n) =< d /\ 2 * (n - d * q) =< d
    BY <2>1, RoundedQuotientIsNearest
  <2> DEFINE p == d * q
  <2>4. p \in Int
    BY <2>3
  <2> HIDE DEF p, q
  <2>5. 2 * (p - n) =< d /\ 2 * (n - p) =< d => 2 * Magnitude(p - n) =< d
    BY <2>4 DEF Magnitude
  <2> QED
    BY <2>2, <2>3, <2>5 DEF p
<1>2. CASE n < 0
  <2>1. -n \in Nat /\ Magnitude(n) = -n /\ Magnitude(d) = d
    BY <1>2 DEF Magnitude
  <2> DEFINE q == RoundedQuotient(-n, d)
  <2>2. DivRound(n, d) = -q
    BY <1>2, <2>1 DEF DivRound
  <2>3. q \in Nat /\ 2 * (d * q - (-n)) =< d /\ 2 * ((-n) - d * q) =< d
    BY <2>1, RoundedQuotientIsNearest
  <2> DEFINE p == d * q
  <2>4. p \in Int /\ d * (-q) = -p
    BY <2>3
  <2> HIDE DEF p, q
  <2>5. 2 * (p - (-n)) =< d /\ 2 * ((-n) - p) =< d => 2 * Magnitude((-p) - n) =< d
    BY <2>4 DEF Magnitude
  <2> QED
    BY <2>2, <2>3, <2>4, <2>5 DEF p
<1> QED
  BY <1>1, <1>2

\* A number rounded to a multiple of a unit is half the unit off at most, and so
\* less than the unit.
THEOREM NearestMultiple ==
  ASSUME NEW n \in Int, NEW unit \in Nat \ {0}
  PROVE  /\ DivRound(n, unit) * unit \in Int
         /\ 2 * Magnitude(DivRound(n, unit) * unit - n) =< unit
         /\ Magnitude(n - DivRound(n, unit) * unit) < unit
<1> DEFINE q == DivRound(n, unit)
           p == q * unit
<1>1. q \in Int /\ 2 * Magnitude(unit * q - n) =< unit
  BY RoundingError
<1>2. p \in Int /\ unit * q = p
  BY <1>1
<1> HIDE DEF p, q
<1>3. Magnitude(n - p) = Magnitude(p - n) /\ Magnitude(p - n) \in Nat
  BY <1>2 DEF Magnitude
<1>4. ASSUME NEW r \in Nat, 2 * r =< unit
      PROVE  r < unit
  BY <1>4
<1> QED
  BY <1>1, <1>2, <1>3, <1>4 DEF p, q

-----------------------------------------------------------------------------
(* Sums. *)

\* Every nonempty set of natural numbers has a least element.
LEMMA LeastElement ==
  ASSUME NEW T \in SUBSET Nat, T # {}
  PROVE  \E m \in T : \A k \in T : m <= k
<1>1. IsWellFoundedOn(OpToRel(<, Nat), Nat)
  BY NatLessThanWellFounded
<1>2. PICK m \in T : \A k \in T : ~ (<<k, m>> \in OpToRel(<, Nat))
  BY <1>1, WFMin
<1>3. ASSUME NEW k \in T PROVE m <= k
  <2>1. ~ (k < m)
    BY <1>2, Zenon DEF OpToRel
  <2> QED BY <2>1
<1> QED BY <1>3

\* g is a correct table of the partial sums of f along e, up to index n.
IsTable(g, f, e, n) ==
  g = [k \in 0..n |-> IF k = 0 THEN 0 ELSE g[k-1] + f[e[k]]]

\* A table exists for every length: the recursion of PartialSums is well defined.
LEMMA TableExists ==
  ASSUME NEW S, NEW f \in [S -> Int], NEW n \in Nat, NEW e \in [1..n -> S]
  PROVE  \E g \in [0..n -> Int] : IsTable(g, f, e, n)
<1> DEFINE Bad == {k \in 0..n : ~ \E g \in [0..k -> Int] : IsTable(g, f, e, k)}
<1> SUFFICES ASSUME Bad # {} PROVE FALSE
  OBVIOUS
<1>1. PICK m \in Bad : \A k \in Bad : m <= k
  <2>1. Bad \in SUBSET Nat OBVIOUS
  <2> QED BY <2>1, LeastElement
<1>2. m # 0
  <2>1. SUFFICES \E g \in [0..0 -> Int] : IsTable(g, f, e, 0)
    BY <1>1
  <2>2. [k \in 0..0 |-> 0] \in [0..0 -> Int] OBVIOUS
  <2>3. IsTable([k \in 0..0 |-> 0], f, e, 0) BY DEF IsTable
  <2> QED BY <2>2, <2>3
<1>3. PICK g \in [0..(m-1) -> Int] : IsTable(g, f, e, m-1)
  BY <1>1, <1>2
<1> DEFINE h == [k \in 0..m |-> IF k = m THEN g[m-1] + f[e[m]] ELSE g[k]]
<1>4. h \in [0..m -> Int]
  BY <1>1, <1>2, <1>3
<1>5. IsTable(h, f, e, m)
  <2>1. ASSUME NEW k \in 0..m
        PROVE  h[k] = IF k = 0 THEN 0 ELSE h[k-1] + f[e[k]]
    <3>1. CASE k = m
      <4>1. h[k-1] = g[m-1] BY <3>1, <1>2, <1>1
      <4> QED BY <3>1, <4>1, <1>2
    <3>2. CASE k # m
      <4>1. k \in 0..(m-1) BY <3>2, <1>1
      <4>2. g[k] = IF k = 0 THEN 0 ELSE g[k-1] + f[e[k]]
        BY <1>3, <4>1 DEF IsTable
      <4>3. k # 0 => h[k-1] = g[k-1] BY <4>1, <1>1
      <4>4. h[k] = g[k] BY <3>2
      <4> QED BY <4>2, <4>3, <4>4
    <3> QED BY <3>1, <3>2
  <2>2. h = [k \in 0..m |-> h[k]] BY <1>4
  <2> HIDE DEF h
  <2> QED BY <2>1, <2>2 DEF IsTable
<1> QED BY <1>1, <1>4, <1>5

\* What a table of partial sums satisfies, entry by entry.
TableEquations(P, f, e, n) ==
  /\ P[0] = 0
  /\ \A k \in 1..n : P[k] = P[k-1] + f[e[k]]
  /\ \A k \in 0..n : P[k] \in Int

\* The defining equations of PartialSums, and the type of its values.
LEMMA PartialSumsEquations ==
  ASSUME NEW S, NEW f \in [S -> Int], NEW n \in Nat, NEW e \in [1..n -> S]
  PROVE  TableEquations(PartialSums(f, e, n), f, e, n)
<1> DEFINE P == PartialSums(f, e, n)
<1>1. P = CHOOSE g : IsTable(g, f, e, n)
  BY DEF PartialSums, IsTable
<1>2. \E g : IsTable(g, f, e, n)
  BY TableExists
<1>3. IsTable(P, f, e, n)
  BY <1>1, <1>2
<1> HIDE DEF P
<1>4. \A k \in 0..n : P[k] = IF k = 0 THEN 0 ELSE P[k-1] + f[e[k]]
  BY <1>3 DEF IsTable
<1>5. \A k \in 0..n : P[k] \in Int
  <2> DEFINE Bad == {k \in 0..n : P[k] \notin Int}
  <2> SUFFICES ASSUME Bad # {} PROVE FALSE OBVIOUS
  <2>1. PICK m \in Bad : \A k \in Bad : m <= k
    <3>1. Bad \in SUBSET Nat OBVIOUS
    <3> QED BY <3>1, LeastElement
  <2>2. m # 0 BY <2>1, <1>4
  <2>3. m - 1 \in 0..n /\ m - 1 \notin Bad BY <2>1, <2>2
  <2>4. P[m-1] \in Int /\ f[e[m]] \in Int BY <2>3, <2>2
  <2> QED BY <2>1, <2>2, <2>4, <1>4
<1>6. TableEquations(P, f, e, n) BY <1>4, <1>5 DEF TableEquations
<1> QED BY <1>6 DEF P
\* Numbering(S) numbers every member of a finite S exactly once.
LEMMA NumberingIsBijection ==
  ASSUME NEW S, IsFiniteSet(S)
  PROVE  /\ Cardinality(S) \in Nat
         /\ Numbering(S) \in [1..Cardinality(S) -> S]
         /\ \A i, j \in 1..Cardinality(S) : Numbering(S)[i] = Numbering(S)[j] => i = j
         /\ \A s \in S : \E i \in 1..Cardinality(S) : Numbering(S)[i] = s
<1>1. Cardinality(S) \in Nat /\ ExistsBijection(1..Cardinality(S), S)
  BY FS_CardinalityType
<1>2. Numbering(S) \in Bijection(1..Cardinality(S), S)
  BY <1>1 DEF Numbering, ExistsBijection
<1> QED BY <1>1, <1>2 DEF Bijection, Injection, Surjection, IsInjective

\* A sum of integers is an integer.
THEOREM SumType ==
  ASSUME NEW S, IsFiniteSet(S), NEW f \in [S -> Int]
  PROVE  SumOver(S, f) \in Int
<1> DEFINE n == Cardinality(S)
           e == Numbering(S)
           P == PartialSums(f, e, n)
<1>1. n \in Nat /\ e \in [1..n -> S] BY NumberingIsBijection
<1> HIDE DEF n, e
<1>2. TableEquations(P, f, e, n) BY <1>1, PartialSumsEquations
<1> HIDE DEF P
<1>3. P[n] \in Int BY <1>1, <1>2 DEF TableEquations
<1> QED BY <1>3 DEF SumOver, P, n, e

\* The sum of a mapping that is zero everywhere is zero.
THEOREM SumOfZeros ==
  ASSUME NEW S, IsFiniteSet(S)
  PROVE  SumOver(S, [s \in S |-> 0]) = 0
<1> DEFINE f == [s \in S |-> 0]
           n == Cardinality(S)
           e == Numbering(S)
           P == PartialSums(f, e, n)
<1>1. f \in [S -> Int] OBVIOUS
<1>2. n \in Nat /\ e \in [1..n -> S] BY NumberingIsBijection
<1>3. TableEquations(P, f, e, n)
  <2> HIDE DEF f, n, e
  <2> QED BY <1>1, <1>2, PartialSumsEquations
<1>4. \A k \in 1..n : f[e[k]] = 0
  <2> HIDE DEF n, e
  <2> QED BY <1>2
<1> HIDE DEF f, n, e, P
<1> USE DEF TableEquations
<1>5. \A k \in 0..n : P[k] = 0
  <2> DEFINE Bad == {k \in 0..n : P[k] # 0}
  <2> SUFFICES ASSUME Bad # {} PROVE FALSE OBVIOUS
  <2>1. PICK m \in Bad : \A k \in Bad : m <= k
    <3>1. Bad \in SUBSET Nat BY <1>2
    <3> QED BY <3>1, LeastElement
  <2>2. m \in 1..n BY <2>1, <1>2, <1>3
  <2>3. P[m-1] = 0 BY <2>1, <2>2, <1>2
  <2> QED BY <2>1, <2>2, <2>3, <1>3, <1>4
<1> QED BY <1>2, <1>5 DEF SumOver, f, n, e, P

\* Changing the value of one member changes the sum by exactly the difference.
THEOREM SumUpdate ==
  ASSUME NEW S, IsFiniteSet(S), NEW f \in [S -> Int], NEW u \in S, NEW v \in Int
  PROVE  SumOver(S, [f EXCEPT ![u] = v]) = SumOver(S, f) + v - f[u]
<1> DEFINE g == [f EXCEPT ![u] = v]
           n == Cardinality(S)
           e == Numbering(S)
           P == PartialSums(f, e, n)
           Q == PartialSums(g, e, n)
<1>1. g \in [S -> Int] /\ g[u] = v /\ \A s \in S \ {u} : g[s] = f[s] OBVIOUS
<1>2. n \in Nat /\ e \in [1..n -> S] BY NumberingIsBijection
<1>3. PICK i \in 1..n : e[i] = u /\ \A j \in 1..n \ {i} : e[j] # u
  BY NumberingIsBijection
<1> HIDE DEF g, n, e
<1>4. TableEquations(P, f, e, n) BY <1>2, PartialSumsEquations
<1>5. TableEquations(Q, g, e, n) BY <1>1, <1>2, PartialSumsEquations
<1> HIDE DEF P, Q
<1> USE DEF TableEquations
<1>6. f[u] \in Int /\ \A k \in 1..n : f[e[k]] \in Int BY <1>2
<1> DEFINE Shift(k) == IF k < i THEN 0 ELSE v - f[u]
<1>7. \A k \in 0..n : Q[k] = P[k] + Shift(k)
  <2> DEFINE Bad == {k \in 0..n : Q[k] # P[k] + Shift(k)}
  <2> SUFFICES ASSUME Bad # {} PROVE FALSE OBVIOUS
  <2>1. PICK m \in Bad : \A k \in Bad : m <= k
    <3>1. Bad \in SUBSET Nat BY <1>2
    <3> QED BY <3>1, LeastElement
  <2>2. m \in 1..n BY <2>1, <1>2, <1>3, <1>4, <1>5
  <2>3. Q[m-1] = P[m-1] + Shift(m-1) BY <2>1, <2>2, <1>2
  <2>4. Q[m] = Q[m-1] + g[e[m]] /\ P[m] = P[m-1] + f[e[m]] BY <2>2, <1>4, <1>5
  <2>5. CASE m = i
    <3>1. g[e[m]] = v /\ f[e[m]] = f[u] BY <2>5, <1>1, <1>3
    <3>2. Shift(m) = v - f[u] /\ Shift(m-1) = 0 BY <2>2, <2>5, <1>3
    <3>3. P[m-1] \in Int BY <2>2, <1>2, <1>4
    <3> HIDE DEF Shift
    <3> QED BY <2>1, <2>3, <2>4, <3>1, <3>2, <3>3, <1>6
  <2>6. CASE m # i
    <3>1. g[e[m]] = f[e[m]] BY <2>2, <2>6, <1>1, <1>2, <1>3
    <3>2. Shift(m) = Shift(m-1) BY <2>2, <2>6, <1>3
    <3>3. f[e[m]] \in Int /\ P[m-1] \in Int /\ Shift(m) \in Int BY <2>2, <1>4, <1>6, <1>2
    <3> HIDE DEF Shift
    <3> QED BY <2>1, <2>3, <2>4, <3>1, <3>2, <3>3
  <2> QED BY <2>5, <2>6
<1>8. Q[n] = P[n] + v - f[u] BY <1>7, <1>2, <1>3, <1>4, <1>6
<1> QED BY <1>8 DEF SumOver, P, Q, g, n, e

\* No member of a mapping to naturals exceeds the sum, which is itself a natural.
THEOREM SumBoundsMembers ==
  ASSUME NEW S, IsFiniteSet(S), NEW f \in [S -> Nat]
  PROVE  SumOver(S, f) \in Nat /\ \A s \in S : f[s] <= SumOver(S, f)
<1> DEFINE n == Cardinality(S)
           e == Numbering(S)
           P == PartialSums(f, e, n)
<1>1. f \in [S -> Int] OBVIOUS
<1>2. n \in Nat /\ e \in [1..n -> S] /\ \A s \in S : \E i \in 1..n : e[i] = s
  BY NumberingIsBijection
<1> HIDE DEF n, e
<1>3. TableEquations(P, f, e, n) BY <1>1, <1>2, PartialSumsEquations
<1> HIDE DEF P
<1> USE DEF TableEquations
<1>4. \A k \in 0..n : P[k] >= 0 /\ \A j \in 1..k : f[e[j]] <= P[k]
  <2> DEFINE Good(k) == P[k] >= 0 /\ \A j \in 1..k : f[e[j]] <= P[k]
             Bad == {k \in 0..n : ~ Good(k)}
  <2> SUFFICES ASSUME Bad # {} PROVE FALSE OBVIOUS
  <2>1. PICK m \in Bad : \A k \in Bad : m <= k
    <3>1. Bad \in SUBSET Nat BY <1>2
    <3> QED BY <3>1, LeastElement
  <2>2. m \in 1..n
    <3>1. Good(0) BY <1>3
    <3> QED BY <3>1, <2>1, <1>2
  <2>3. Good(m-1) BY <2>1, <2>2, <1>2
  <2>4. P[m] = P[m-1] + f[e[m]] /\ P[m-1] \in Int BY <2>2, <1>2, <1>3
  <2>5. \A j \in 1..n : f[e[j]] \in Nat BY <1>2
  <2>6. f[e[m]] \in Nat BY <2>2, <2>5
  <2>7. P[m] >= 0 /\ P[m-1] <= P[m] /\ f[e[m]] <= P[m] BY <2>3, <2>4, <2>6
  <2>8. ASSUME NEW j \in 1..m PROVE f[e[j]] <= P[m]
    <3>1. CASE j = m BY <3>1, <2>7
    <3>2. CASE j # m
      <4>1. j \in 1..(m-1) /\ j \in 1..n BY <3>2, <2>2, <1>2
      <4>2. f[e[j]] <= P[m-1] BY <4>1, <2>3
      <4>3. f[e[j]] \in Int /\ P[m] \in Int BY <4>1, <2>2, <2>4, <2>5, <2>6
      <4> QED BY <4>2, <4>3, <2>4, <2>7
    <3> QED BY <3>1, <3>2
  <2>9. Good(m) BY <2>7, <2>8
  <2> QED BY <2>1, <2>9
<1>5. P[n] \in Nat BY <1>2, <1>3, <1>4
<1>6. \A s \in S : f[s] <= P[n] BY <1>2, <1>4
<1> QED BY <1>5, <1>6 DEF SumOver, P, n, e

\* Two mappings that differ in one member only differ in their sums by as much.
THEOREM SumDifference ==
  ASSUME NEW S, IsFiniteSet(S), NEW f \in [S -> Int], NEW g \in [S -> Int], NEW u \in S,
         \A s \in S \ {u} : g[s] = f[s]
  PROVE  SumOver(S, g) = SumOver(S, f) + g[u] - f[u]
<1>1. \A v \in Int : SumOver(S, [f EXCEPT ![u] = v]) = SumOver(S, f) + v - f[u]
  BY SumUpdate
<1>2. g = [f EXCEPT ![u] = g[u]] /\ g[u] \in Int
  OBVIOUS
<1>3. SumOver(S, g) = SumOver(S, [f EXCEPT ![u] = g[u]])
  BY <1>2, Zenon
<1>4. SumOver(S, [f EXCEPT ![u] = g[u]]) = SumOver(S, f) + g[u] - f[u]
  BY <1>1, <1>2
<1> QED
  BY <1>3, <1>4

\* A mapping that is zero but for one member sums up to that member's value.
THEOREM SumOfOne ==
  ASSUME NEW S, IsFiniteSet(S), NEW f \in [S -> Int], NEW u \in S,
         \A s \in S \ {u} : f[s] = 0
  PROVE  SumOver(S, f) = f[u]
<1> DEFINE zeros == [s \in S |-> 0]
<1>1. /\ zeros \in [S -> Int] /\ zeros[u] = 0 /\ f[u] \in Int
      /\ \A s \in S \ {u} : f[s] = zeros[s]
  OBVIOUS
<1>2. SumOver(S, zeros) = 0
  BY SumOfZeros
<1> HIDE DEF zeros
<1>3. SumOver(S, f) = SumOver(S, zeros) + f[u] - zeros[u]
  BY <1>1, SumDifference
<1> QED
  BY <1>1, <1>2, <1>3

\* One more member adds its value.  The two sides agree on the zero mapping and
\* move by the same amount when one value is cleared, so they agree on a mapping
\* with the least number of other values than zero on which they could differ.
THEOREM SumExtend ==
  ASSUME NEW S, IsFiniteSet(S), NEW x, x \notin S, NEW f \in [S \union {x} -> Int]
  PROVE  SumOver(S \union {x}, f) = SumOver(S, [s \in S |-> f[s]]) + f[x]
<1> DEFINE T == S \union {x}
           Part(g) == [s \in S |-> g[s]]
           Agrees(g) == SumOver(T, g) = SumOver(S, Part(g)) + g[x]
           Support(g) == {t \in T : g[t] # 0}
           Bad == {n \in Nat : \E g \in [T -> Int] :
                     Cardinality(Support(g)) = n /\ ~ Agrees(g)}
<1>1. IsFiniteSet(T)
  BY FS_AddElement
<1>2. \A g \in [T -> Int] : IsFiniteSet(Support(g)) /\ Cardinality(Support(g)) \in Nat
  <2> TAKE g \in [T -> Int]
  <2>1. Support(g) \in SUBSET T
    OBVIOUS
  <2> QED
    BY <1>1, <2>1, FS_Subset, FS_CardinalityType
<1> SUFFICES ASSUME Bad # {} PROVE FALSE
  <2>1. f \in [T -> Int] /\ Cardinality(Support(f)) \in Nat
    BY <1>2
  <2> HIDE DEF Agrees, Support
  <2>2. Bad = {} => Agrees(f)
    BY <2>1
  <2> QED
    BY <2>2 DEF Agrees
<1>3. PICK m \in Bad : \A k \in Bad : m <= k
  <2>1. Bad \in SUBSET Nat OBVIOUS
  <2> HIDE DEF Bad
  <2> QED BY <2>1, LeastElement
<1>4. PICK g \in [T -> Int] : Cardinality(Support(g)) = m /\ ~ Agrees(g)
  BY <1>3
<1>5. Support(g) # {}
  <2> SUFFICES ASSUME Support(g) = {} PROVE FALSE
    OBVIOUS
  <2>1. \A t \in T : g[t] = 0
    OBVIOUS
  <2>2. g = [t \in T |-> 0] /\ Part(g) = [s \in S |-> 0] /\ g[x] = 0
    BY <2>1
  <2>3. SumOver(T, [t \in T |-> 0]) = 0 /\ SumOver(S, [s \in S |-> 0]) = 0
    BY <1>1, SumOfZeros
  <2> QED
    BY <1>4, <2>2, <2>3
<1>6. PICK t \in T : g[t] # 0
  BY <1>5
<1> DEFINE h == [g EXCEPT ![t] = 0]
<1>7. h \in [T -> Int] /\ h[t] = 0 /\ \A s \in T \ {t} : h[s] = g[s]
  OBVIOUS
<1>8. Agrees(h)
  <2>1. Support(h) = Support(g) \ {t} /\ t \in Support(g)
    BY <1>6, <1>7
  <2>2. IsFiniteSet(Support(g)) /\ Cardinality(Support(g)) = m /\ m \in Nat
    BY <1>2, <1>4
  <2>3. Cardinality(Support(h)) = m - 1
    <3> DEFINE all == Support(g)
               rest == Support(h)
    <3>1. rest = all \ {t} /\ t \in all /\ IsFiniteSet(all) /\ Cardinality(all) = m
      BY <2>1, <2>2
    <3> HIDE DEF all, rest
    <3>2. Cardinality(all \ {t}) = m - 1
      BY <3>1, FS_RemoveElement
    <3>3. Cardinality(rest) = m - 1
      BY <3>1, <3>2
    <3> QED
      BY <3>3 DEF rest
  <2> HIDE DEF Support, Agrees, h
  <2>4. m - 1 \in Nat
    BY <1>2, <1>7, <2>3
  <2>5. m - 1 \notin Bad
    BY <1>3, <2>4
  <2> QED
    BY <1>7, <2>3, <2>4, <2>5
<1>9. SumOver(T, h) = SumOver(T, g) - g[t]
  <2>1. g[t] \in Int
    OBVIOUS
  <2>2. SumOver(T, g) \in Int
    BY <1>1, SumType
  <2> HIDE DEF T, h
  <2>3. SumOver(T, h) = SumOver(T, g) + h[t] - g[t]
    BY <1>1, <1>7, SumDifference
  <2> QED
    BY <1>7, <2>1, <2>2, <2>3
<1>10. Part(g) \in [S -> Int] /\ SumOver(S, Part(g)) \in Int /\ SumOver(T, g) \in Int
       /\ g[t] \in Int /\ g[x] \in Int
  <2>1. Part(g) \in [S -> Int] /\ g[t] \in Int /\ g[x] \in Int
    OBVIOUS
  <2> QED
    BY <1>1, <2>1, SumType
<1>11. CASE t = x
  <2>1. Part(h) = Part(g)
    BY <1>11, <1>7
  <2> QED
    BY <1>4, <1>7, <1>8, <1>9, <1>10, <1>11, <2>1
<1>12. CASE t # x
  <2>1. t \in S /\ Part(h) = [Part(g) EXCEPT ![t] = 0] /\ Part(g)[t] = g[t] /\ h[x] = g[x]
    BY <1>12, <1>7
  <2> DEFINE part == Part(g)
             cleared == Part(h)
  <2>2. /\ part \in [S -> Int] /\ part[t] = g[t]
        /\ cleared \in [S -> Int] /\ cleared[t] = 0 /\ \A s \in S \ {t} : cleared[s] = part[s]
    BY <1>10, <2>1
  <2> HIDE DEF part, cleared
  <2>3. SumOver(S, cleared) = SumOver(S, part) + cleared[t] - part[t]
    BY <2>1, <2>2, SumDifference
  <2>4. SumOver(S, Part(h)) = SumOver(S, Part(g)) - g[t]
    <3>1. SumOver(S, cleared) = SumOver(S, part) - g[t]
      BY <1>10, <2>2, <2>3 DEF part
    <3> QED
      BY <3>1 DEF part, cleared
  <2> HIDE DEF Part, h, T
  <2> QED
    BY <1>4, <1>8, <1>9, <1>10, <2>1, <2>4
<1> QED
  BY <1>11, <1>12

-----------------------------------------------------------------------------
(* Sums along 1..n. *)

Terms(n) == [1..n -> Int]

LEMMA TermType ==
  ASSUME NEW n, NEW f \in Terms(n), NEW k \in 1..n
  PROVE  f[k] \in Int
BY DEF Terms

\* What SumTo is, term by term.
THEOREM SumToEquations ==
  ASSUME NEW N \in Nat, NEW f \in Terms(N), NEW n \in 0..N
  PROVE  /\ SumTo(f, n) \in Int
         /\ SumTo(f, 0) = 0
         /\ n > 0 => SumTo(f, n) = SumTo(f, n - 1) + f[n]
<1> DEFINE id(m) == [k \in 1..m |-> k]
           P(m) == PartialSums(f, id(m), m)
<1>1. ASSUME NEW m \in 0..N
      PROVE  /\ P(m)[0] = 0
             /\ \A k \in 1..m : P(m)[k] = P(m)[k-1] + f[k]
             /\ \A k \in 0..m : P(m)[k] \in Int
  <2>1. id(m) \in [1..m -> 1..N] /\ m \in Nat /\ \A k \in 1..m : id(m)[k] = k
    OBVIOUS
  <2> HIDE DEF id
  <2>2. TableEquations(P(m), f, id(m), m)
    BY <2>1, PartialSumsEquations DEF Terms
  <2> QED
    BY <2>1, <2>2 DEF TableEquations
<1>2. \A m \in 0..N : SumTo(f, m) = P(m)[m]
  BY DEF SumTo
<1> HIDE DEF P
<1>3. ASSUME n > 0
      PROVE  P(n)[n-1] = P(n-1)[n-1]
  <2> DEFINE Bad == {k \in 0..(n-1) : P(n)[k] # P(n-1)[k]}
  <2> SUFFICES ASSUME Bad # {} PROVE FALSE
    BY <1>3
  <2>1. PICK m \in Bad : \A k \in Bad : m <= k
    <3>1. Bad \in SUBSET Nat OBVIOUS
    <3> QED BY <3>1, LeastElement
  <2>2. m # 0
    BY <1>1, <1>3, <2>1
  <2>3. m - 1 \in 0..(n-1) /\ m - 1 \notin Bad
    BY <2>1, <2>2
  <2>4. P(n)[m] = P(n)[m-1] + f[m] /\ P(n-1)[m] = P(n-1)[m-1] + f[m]
    BY <1>1, <1>3, <2>1, <2>2
  <2> QED
    BY <2>1, <2>3, <2>4
<1>4. SumTo(f, n) \in Int /\ SumTo(f, 0) = 0
  BY <1>1, <1>2
<1>5. ASSUME n > 0
      PROVE  SumTo(f, n) = SumTo(f, n - 1) + f[n]
  <2>1. n \in 1..n /\ n - 1 \in 0..N
    BY <1>5
  <2>2. P(n)[n] = P(n)[n-1] + f[n]
    BY <1>1, <2>1
  <2>3. SumTo(f, n) = P(n)[n] /\ SumTo(f, n - 1) = P(n-1)[n-1]
    BY <1>2, <2>1
  <2> QED
    BY <1>3, <1>5, <2>2, <2>3
<1> QED
  BY <1>4, <1>5

\* Only the first n terms count.
THEOREM SumToAgree ==
  ASSUME NEW N \in Nat, NEW f \in Terms(N), NEW M \in Nat, NEW g \in Terms(M),
         NEW n \in 0..N, n <= M, \A k \in 1..n : f[k] = g[k]
  PROVE  SumTo(f, n) = SumTo(g, n)
<1> DEFINE Bad == {k \in 0..n : SumTo(f, k) # SumTo(g, k)}
<1> SUFFICES ASSUME Bad # {} PROVE FALSE
  OBVIOUS
<1>1. PICK m \in Bad : \A k \in Bad : m <= k
  <2>1. Bad \in SUBSET Nat OBVIOUS
  <2> QED BY <2>1, LeastElement
<1>2. m # 0
  <2>1. SumTo(f, 0) = 0 /\ SumTo(g, 0) = 0
    BY SumToEquations
  <2> QED BY <1>1, <2>1
<1>3. m - 1 \in 0..n /\ m - 1 \notin Bad
  BY <1>1, <1>2
<1>4. SumTo(f, m) = SumTo(f, m-1) + f[m] /\ SumTo(g, m) = SumTo(g, m-1) + g[m]
  BY <1>1, <1>2, SumToEquations
<1> QED
  BY <1>1, <1>2, <1>3, <1>4

\* Changing one term changes the sum by the difference.
THEOREM SumToDifference ==
  ASSUME NEW n \in Nat, NEW f \in Terms(n), NEW g \in Terms(n), NEW u \in 1..n,
         \A k \in (1..n) \ {u} : g[k] = f[k]
  PROVE  SumTo(g, n) = SumTo(f, n) + g[u] - f[u]
<1> DEFINE Bad == {k \in u..n : SumTo(g, k) # SumTo(f, k) + g[u] - f[u]}
<1> SUFFICES ASSUME Bad # {} PROVE FALSE
  OBVIOUS
<1>1. PICK m \in Bad : \A k \in Bad : m <= k
  <2>1. Bad \in SUBSET Nat OBVIOUS
  <2> QED BY <2>1, LeastElement
<1>2. /\ SumTo(f, m) = SumTo(f, m-1) + f[m] /\ SumTo(g, m) = SumTo(g, m-1) + g[m]
      /\ SumTo(f, m-1) \in Int /\ SumTo(g, m-1) \in Int
  BY <1>1, SumToEquations
<1>3. CASE m = u
  <2>1. \A k \in 1..(u-1) : g[k] = f[k]
    OBVIOUS
  <2>2. SumTo(g, u-1) = SumTo(f, u-1)
    BY <2>1, SumToAgree
  <2> QED
    BY <1>1, <1>2, <1>3, <2>2, TermType
<1>4. CASE m # u
  <2>1. m - 1 \in u..n /\ m - 1 \notin Bad
    BY <1>1, <1>4
  <2> QED
    BY <1>1, <1>2, <1>4, <2>1, TermType
<1> QED BY <1>3, <1>4

\* Terms that are not negative do not make the sum smaller; zeros leave it.
THEOREM SumToGrows ==
  ASSUME NEW n \in Nat, NEW f \in Terms(n), NEW m \in 0..n,
         \A k \in (m+1)..n : f[k] >= 0
  PROVE  /\ SumTo(f, n) >= SumTo(f, m)
         /\ (\A k \in (m+1)..n : f[k] = 0) => SumTo(f, n) = SumTo(f, m)
<1> DEFINE Holds(k) == /\ SumTo(f, k) >= SumTo(f, m)
                       /\ (\A j \in (m+1)..n : f[j] = 0) => SumTo(f, k) = SumTo(f, m)
           Bad == {k \in m..n : ~ Holds(k)}
<1> SUFFICES ASSUME Bad # {} PROVE FALSE
  OBVIOUS
<1>1. PICK b \in Bad : \A k \in Bad : b <= k
  <2>1. Bad \in SUBSET Nat OBVIOUS
  <2> QED BY <2>1, LeastElement
<1>2. SumTo(f, m) \in Int
  BY SumToEquations
<1>3. b # m
  BY <1>1, <1>2
<1>4. b - 1 \in m..n /\ b - 1 \notin Bad
  BY <1>1, <1>3
<1>5. SumTo(f, b) = SumTo(f, b-1) + f[b] /\ SumTo(f, b-1) \in Int /\ b \in (m+1)..n
  BY <1>1, <1>3, SumToEquations
<1>6. Holds(b-1)
  BY <1>4
<1>7. f[b] \in Int /\ f[b] >= 0 /\ ((\A j \in (m+1)..n : f[j] = 0) => f[b] = 0)
  BY <1>5, TermType
<1>8. Holds(b)
  BY <1>2, <1>5, <1>6, <1>7
<1> QED
  BY <1>1, <1>8

-----------------------------------------------------------------------------
(* Sums over the claimed part of 1..n. *)

LEMMA TermsWithin ==
  ASSUME NEW n \in Nat, NEW f \in Terms(n), NEW C
  PROVE  [k \in 1..n |-> IF k \in C THEN f[k] ELSE 0] \in Terms(n)
BY DEF Terms

THEOREM SumWithinType ==
  ASSUME NEW n \in Nat, NEW f \in Terms(n), NEW C
  PROVE  SumWithin(f, C, n) \in Int
<1>1. n \in 0..n
  OBVIOUS
<1> QED
  BY <1>1, TermsWithin, SumToEquations DEF SumWithin

\* One more member adds its term.
THEOREM SumWithinAdds ==
  ASSUME NEW n \in Nat, NEW f \in Terms(n), NEW C, NEW k \in 1..n, k \notin C
  PROVE  SumWithin(f, C \union {k}, n) = SumWithin(f, C, n) + f[k]
<1> DEFINE g == [j \in 1..n |-> IF j \in C THEN f[j] ELSE 0]
           h == [j \in 1..n |-> IF j \in C \union {k} THEN f[j] ELSE 0]
<1>1. g \in Terms(n) /\ h \in Terms(n)
  BY TermsWithin
<1>2. g[k] = 0 /\ h[k] = f[k] /\ \A j \in (1..n) \ {k} : h[j] = g[j]
  OBVIOUS
<1>3. SumWithin(f, C, n) = SumTo(g, n) /\ SumWithin(f, C \union {k}, n) = SumTo(h, n)
  BY DEF SumWithin
<1> HIDE DEF g, h
<1>4. SumTo(h, n) = SumTo(g, n) + h[k] - g[k] /\ SumTo(g, n) \in Int
  BY <1>1, <1>2, SumToDifference, SumToEquations
<1>5. f[k] \in Int
  BY TermType
<1> QED
  BY <1>2, <1>3, <1>4, <1>5

\* A term more that is no member changes nothing.
THEOREM SumWithinExtends ==
  ASSUME NEW n \in Nat, NEW f \in Terms(n), NEW g \in Terms(n+1), NEW C,
         n + 1 \notin C, \A k \in 1..n : g[k] = f[k]
  PROVE  SumWithin(g, C, n + 1) = SumWithin(f, C, n)
<1> DEFINE s == [k \in 1..n |-> IF k \in C THEN f[k] ELSE 0]
           t == [k \in 1..(n+1) |-> IF k \in C THEN g[k] ELSE 0]
<1>1. s \in Terms(n) /\ t \in Terms(n + 1)
  BY DEF Terms
<1>2. t[n+1] = 0 /\ \A k \in 1..n : t[k] = s[k]
  OBVIOUS
<1>3. SumWithin(g, C, n+1) = SumTo(t, n+1) /\ SumWithin(f, C, n) = SumTo(s, n)
  BY DEF SumWithin
<1> HIDE DEF s, t
<1>4. SumTo(t, n+1) = SumTo(t, (n+1)-1) + t[n+1] /\ SumTo(t, n) \in Int
  BY <1>1, SumToEquations
<1>5. SumTo(s, n) = SumTo(t, n)
  BY <1>1, <1>2, SumToAgree
<1> QED
  BY <1>2, <1>3, <1>4, <1>5

\* With all of 1..m among the members, the members behind it add what they add.
THEOREM SumWithinFrom ==
  ASSUME NEW n \in Nat, NEW f \in Terms(n), NEW C, NEW m \in 0..n, 1..m \subseteq C,
         \A k \in (m+1)..n : k \in C => f[k] >= 0
  PROVE  /\ SumWithin(f, C, n) >= SumTo(f, m)
         /\ (\A k \in (m+1)..n : k \in C => f[k] = 0) => SumWithin(f, C, n) = SumTo(f, m)
<1> DEFINE g == [k \in 1..n |-> IF k \in C THEN f[k] ELSE 0]
<1>1. g \in Terms(n)
  BY TermsWithin
<1>2. /\ \A k \in 1..m : g[k] = f[k]
      /\ \A k \in (m+1)..n : g[k] >= 0
      /\ (\A k \in (m+1)..n : k \in C => f[k] = 0) => \A k \in (m+1)..n : g[k] = 0
  OBVIOUS
<1>3. SumWithin(f, C, n) = SumTo(g, n)
  BY DEF SumWithin
<1> HIDE DEF g
<1>4. SumTo(g, m) = SumTo(f, m)
  BY <1>1, <1>2, SumToAgree
<1>5. /\ SumTo(g, n) >= SumTo(g, m)
      /\ (\A k \in (m+1)..n : g[k] = 0) => SumTo(g, n) = SumTo(g, m)
  BY <1>1, <1>2, SumToGrows
<1> QED
  BY <1>2, <1>3, <1>4, <1>5
=============================================================================
