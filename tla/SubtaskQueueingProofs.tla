----------------------- MODULE SubtaskQueueingProofs -----------------------
(***************************************************************************)
(* Cutting a queryset into the lists of subtasks, for every set of keys,   *)
(* every size of queries and lists, and any number of items that come and  *)
(* go meanwhile.                                                           *)
(***************************************************************************)
EXTENDS SubtaskQueueing, FiniteSetTheorems, WellFoundedInduction, TLAPS

-----------------------------------------------------------------------------
(* Natural numbers                                                           *)

\* A set of natural numbers has a least element.
LEMMA Least ==
  ASSUME NEW S \in SUBSET Nat, S # {}
  PROVE  \E x \in S : \A y \in S : x <= y
<1> DEFINE R == {ss \in Nat \X Nat : ss[1] < ss[2]}
<1>1. R = OpToRel(<, Nat)  BY DEF OpToRel
<1>2. IsWellFoundedOn(R, Nat)  BY <1>1, NatLessThanWellFounded
<1> HIDE DEF R
<1>3. PICK x \in S : \A y \in S : ~(<<y, x>> \in R)  BY <1>2, WFMin
<1>4. \A y \in S : ~(y < x)  BY <1>3 DEF R
<1> QED BY <1>4

\* Products grow with their first factor.
LEMMA ProductGrows ==
  ASSUME NEW a \in Nat, NEW b \in Nat, a <= b, NEW c \in Nat
  PROVE  a * c \in Nat /\ b * c \in Nat /\ a * c <= b * c
<1>1. b - a \in Nat /\ (b - a) * c \in Nat  OBVIOUS
<1>2. b * c = a * c + (b - a) * c  OBVIOUS
<1> QED BY <1>1, <1>2

\* Division with a remainder.
LEMMA Euclid ==
  ASSUME NEW s \in Int, NEW b \in Nat \ {0}
  PROVE  /\ s \div b \in Int
         /\ b * (s \div b) <= s /\ s < b * (s \div b) + b
         /\ s >= 0 => s \div b >= 0
<1> DEFINE d == s \div b
<1>1. d \in Int /\ b * d <= s /\ s < b * d + b
  <2>1. d \in Int  OBVIOUS
  <2>2. s % b \in 0..(b - 1) /\ s = b * d + (s % b)  OBVIOUS
  <2> QED BY <2>1, <2>2
<1> HIDE DEF d
<1>2. ASSUME d < 0 PROVE b * d + b <= 0
  <2>1. -d - 1 \in Nat /\ b * (-d - 1) \in Nat  BY <1>1, <1>2
  <2>2. b * d + b = -(b * (-d - 1))  BY <1>1
  <2> QED BY <2>1, <2>2
<1>3. s >= 0 => d >= 0  BY <1>1, <1>2
<1> QED BY <1>1, <1>3 DEF d

\* CeilDiv is the division rounded up (math.ceil).
LEMMA Ceil ==
  ASSUME NEW a \in Int, NEW b \in Nat \ {0}
  PROVE  /\ CeilDiv(a, b) \in Int
         /\ a <= CeilDiv(a, b) * b
         /\ (CeilDiv(a, b) - 1) * b < a
<1> DEFINE s == a + b - 1
           d == s \div b
<1>1. d \in Int /\ b * d <= s /\ s < b * d + b
  <2>1. s \in Int  OBVIOUS
  <2> HIDE DEF s
  <2> QED BY <2>1, Euclid
<1>2. CeilDiv(a, b) = d  BY DEF CeilDiv
<1>3. d * b = b * d /\ (d - 1) * b = b * d - b  BY <1>1
<1> QED BY <1>1, <1>2, <1>3

\* It is the only number with these bounds below and above.
LEMMA CeilLeast ==
  ASSUME NEW a \in Int, NEW b \in Nat \ {0}, NEW q \in Int, a <= q * b
  PROVE  CeilDiv(a, b) <= q
<1> DEFINE d == CeilDiv(a, b)
<1>1. d \in Int /\ (d - 1) * b < a  BY Ceil
<1> HIDE DEF d
<1>2. SUFFICES ASSUME q < d PROVE FALSE  BY <1>1 DEF d
<1>3. d - 1 - q \in Nat /\ (d - 1 - q) * b \in Nat  BY <1>1, <1>2
<1>4. (d - 1) * b = q * b + (d - 1 - q) * b  BY <1>1
<1> QED BY <1>1, <1>3, <1>4

LEMMA CeilGrows ==
  ASSUME NEW a \in Int, NEW c \in Int, a <= c, NEW b \in Nat \ {0}
  PROVE  CeilDiv(a, b) <= CeilDiv(c, b)
<1>1. CeilDiv(c, b) \in Int /\ c <= CeilDiv(c, b) * b  BY Ceil
<1>2. CeilDiv(c, b) * b \in Int  BY <1>1
<1>3. a <= CeilDiv(c, b) * b  BY <1>1, <1>2
<1> QED BY <1>1, <1>3, CeilLeast

LEMMA CeilPositive ==
  ASSUME NEW a \in Nat, NEW b \in Nat \ {0}
  PROVE  CeilDiv(a, b) \in Nat /\ (a > 0 => CeilDiv(a, b) > 0) /\ (a = 0 => CeilDiv(a, b) = 0)
<1> DEFINE d == CeilDiv(a, b)
<1>1. d \in Int /\ a <= d * b /\ (d - 1) * b < a  BY Ceil
<1> HIDE DEF d
<1>2. d < 0 => d * b < 0
  <2>1. SUFFICES ASSUME d < 0 PROVE d * b < 0  OBVIOUS
  <2>2. -d \in Nat \ {0} /\ (-d) * b > 0  BY <1>1, <2>1
  <2> QED BY <1>1, <2>2
<1>3. d = 0 => d * b = 0  BY <1>1
<1>4. a = 0 => d = 0
  <2>1. SUFFICES ASSUME a = 0 PROVE d = 0  OBVIOUS
  <2>2. a \in Int /\ 0 \in Int /\ a <= 0 * b  BY <2>1
  <2>3. d <= 0  BY <2>2, CeilLeast DEF d
  <2> QED BY <1>1, <1>2, <2>1, <2>3
<1> QED BY <1>1, <1>2, <1>3, <1>4 DEF d

-----------------------------------------------------------------------------
(* The number of subtasks                                                    *)

\* What the queries before the last one need, each.
FullQuery == CeilDiv(ItemsPerQuery, ItemsPerTask)

\* What the query of number q - 1 needs, when there are n items.
Needed(n, q) == CeilDiv(SmallerOf(n - (q - 1) * ItemsPerQuery, ItemsPerQuery), ItemsPerTask)

\* g adds up what the first k queries need.
AddsUp(g, n, k) ==
  /\ g \in [0..k -> Int]
  /\ g[0] = 0
  /\ \A q \in 1..k : g[q] = g[q - 1] + Needed(n, q)

LEMMA NeededInt ==
  ASSUME NEW n \in Nat, NEW q \in Nat
  PROVE  Needed(n, q) \in Int
<1>1. SmallerOf(n - (q - 1) * ItemsPerQuery, ItemsPerQuery) \in Int
  BY SizeAssumption DEF SmallerOf
<1> QED BY <1>1, Ceil, SizeAssumption DEF Needed

LEMMA SumExists ==
  ASSUME NEW n \in Nat, NEW k \in Nat
  PROVE  \E g : AddsUp(g, n, k)
<1> DEFINE Bad == {j \in Nat : ~\E g : AddsUp(g, n, j)}
<1>1. SUFFICES ASSUME Bad # {} PROVE FALSE  OBVIOUS
<1>2. PICK j \in Bad : \A i \in Bad : j <= i
  <2>1. Bad \in SUBSET Nat  OBVIOUS
  <2> QED BY <1>1, <2>1, Least
<1>3. j # 0
  <2>1. AddsUp([q \in 0..0 |-> 0], n, 0)  BY DEF AddsUp
  <2> QED BY <2>1
<1>4. j \in Nat /\ j - 1 \in Nat /\ j - 1 \notin Bad  BY <1>2, <1>3
<1>5. PICK g : AddsUp(g, n, j - 1)  BY <1>4
<1> DEFINE h == [q \in 0..j |-> IF q = j THEN g[j - 1] + Needed(n, j) ELSE g[q]]
<1>6. Needed(n, j) \in Int /\ g[j - 1] \in Int  BY <1>4, <1>5, NeededInt DEF AddsUp
<1>7. h \in [0..j -> Int]  BY <1>4, <1>5, <1>6 DEF AddsUp
<1>8. h[0] = 0  BY <1>3, <1>4, <1>5 DEF AddsUp
<1>9. ASSUME NEW q \in 1..j PROVE h[q] = h[q - 1] + Needed(n, q)
  <2>1. CASE q = j  BY <1>4, <2>1
  <2>2. CASE q # j
    <3>1. q \in 1..(j - 1) /\ q - 1 \in 0..(j - 1)  BY <1>4, <2>2
    <3>2. g[q] = g[q - 1] + Needed(n, q)  BY <1>5, <3>1 DEF AddsUp
    <3> QED BY <1>4, <2>2, <3>1, <3>2
  <2> QED BY <2>1, <2>2
<1>10. AddsUp(h, n, j)  BY <1>7, <1>8, <1>9 DEF AddsUp
<1> QED BY <1>2, <1>10

LEMMA SumUnique ==
  ASSUME NEW n \in Nat, NEW k \in Nat, NEW l \in Nat, NEW g, NEW h,
         AddsUp(g, n, k), AddsUp(h, n, l), NEW m \in Nat, m <= k, m <= l
  PROVE  g[m] = h[m]
<1> DEFINE Bad == {j \in Nat : j <= m /\ g[j] # h[j]}
<1>1. SUFFICES ASSUME Bad # {} PROVE FALSE  OBVIOUS
<1>2. PICK j \in Bad : \A i \in Bad : j <= i
  <2>1. Bad \in SUBSET Nat  OBVIOUS
  <2> QED BY <1>1, <2>1, Least
<1>3. j # 0  BY <1>2 DEF AddsUp
<1>4. j \in Nat /\ j - 1 \in Nat /\ j - 1 \notin Bad  BY <1>2, <1>3
<1>5. g[j - 1] = h[j - 1]  BY <1>2, <1>4
<1>6. j \in 1..k /\ j \in 1..l  BY <1>2, <1>4
<1>7. g[j] = h[j]  BY <1>5, <1>6 DEF AddsUp
<1> QED BY <1>2, <1>7

\* The recursive definition has a solution, and NumberOfSubtasksUpTo is one.
LEMMA SumDefined ==
  ASSUME NEW n \in Nat
  PROVE  \A q \in Nat :
           NumberOfSubtasksUpTo(n)[q] =
             IF q = 0 THEN 0 ELSE NumberOfSubtasksUpTo(n)[q - 1] + Needed(n, q)
<1> DEFINE Sum(k) == CHOOSE g : AddsUp(g, n, k)
           f == [q \in Nat |-> Sum(q)[q]]
           Solves(g) == g = [q \in Nat |-> IF q = 0 THEN 0 ELSE g[q - 1] + Needed(n, q)]
<1>1. \A k \in Nat : AddsUp(Sum(k), n, k)  BY SumExists
<1> HIDE DEF Sum
<1>2. ASSUME NEW q \in Nat PROVE f[q] = IF q = 0 THEN 0 ELSE f[q - 1] + Needed(n, q)
  <2>1. CASE q = 0  BY <1>1, <2>1 DEF AddsUp
  <2>2. CASE q # 0
    <3>1. q - 1 \in Nat /\ q \in 1..q /\ q - 1 <= q  BY <2>2
    <3>2. Sum(q)[q] = Sum(q)[q - 1] + Needed(n, q)  BY <1>1, <3>1 DEF AddsUp
    <3>3. Sum(q)[q - 1] = Sum(q - 1)[q - 1]  BY <1>1, <3>1, SumUnique
    <3> QED BY <2>2, <3>1, <3>2, <3>3
  <2> QED BY <2>1, <2>2
<1>3. Solves(f)  BY <1>2
<1>4. Solves(CHOOSE g : Solves(g))  BY <1>3
<1>5. NumberOfSubtasksUpTo(n) = CHOOSE g : Solves(g)  BY DEF NumberOfSubtasksUpTo, Needed
<1> HIDE DEF Solves
<1>6. Solves(NumberOfSubtasksUpTo(n))  BY <1>4, <1>5
<1> QED BY <1>6 DEF Solves

\* How many queries: all but the last are full.
LEMMA Queries ==
  ASSUME NEW n \in Nat
  PROVE  /\ NumberOfQueries(n) \in Nat
         /\ NumberOfQueries(n) = 0 => n = 0
         /\ n <= NumberOfQueries(n) * ItemsPerQuery
         /\ \A q \in Nat : q < NumberOfQueries(n) => q * ItemsPerQuery \in Nat /\ q * ItemsPerQuery < n
<1> DEFINE N == NumberOfQueries(n)
<1>1. /\ N \in Nat /\ n <= N * ItemsPerQuery /\ (N - 1) * ItemsPerQuery < n
      /\ (n > 0 => N > 0)
  BY SizeAssumption, Ceil, CeilPositive DEF NumberOfQueries
<1> HIDE DEF N
<1>2. ASSUME NEW q \in Nat, q < N PROVE q * ItemsPerQuery \in Nat /\ q * ItemsPerQuery < n
  <2>1. N - 1 \in Nat /\ q <= N - 1 /\ ItemsPerQuery \in Nat  BY <1>1, <1>2, SizeAssumption
  <2>2. q * ItemsPerQuery \in Nat /\ (N - 1) * ItemsPerQuery \in Nat /\ q * ItemsPerQuery <= (N - 1) * ItemsPerQuery
    BY <2>1, ProductGrows
  <2> QED BY <1>1, <2>2
<1> QED BY <1>1, <1>2 DEF N

LEMMA FullType == FullQuery \in Nat \ {0}
BY SizeAssumption, CeilPositive DEF FullQuery

\* Before the last query, every query needs the same.
LEMMA SumBeforeLast ==
  ASSUME NEW n \in Nat, NEW m \in Nat, m < NumberOfQueries(n)
  PROVE  NumberOfSubtasksUpTo(n)[m] = m * FullQuery
<1> DEFINE f == NumberOfSubtasksUpTo(n)
           Bad == {j \in Nat : j <= m /\ f[j] # j * FullQuery}
<1>0. \A q \in Nat : f[q] = IF q = 0 THEN 0 ELSE f[q - 1] + Needed(n, q)  BY SumDefined
<1> HIDE DEF f
<1>1. SUFFICES ASSUME Bad # {} PROVE FALSE  BY DEF f
<1>2. PICK j \in Bad : \A i \in Bad : j <= i
  <2>1. Bad \in SUBSET Nat  OBVIOUS
  <2> QED BY <1>1, <2>1, Least
<1>3. j # 0  BY <1>0, <1>2, FullType
<1>4. j \in Nat /\ j - 1 \in Nat /\ j - 1 \notin Bad  BY <1>2, <1>3
<1>5. f[j - 1] = (j - 1) * FullQuery  BY <1>2, <1>4
<1>6. j < NumberOfQueries(n) /\ NumberOfQueries(n) \in Nat  BY <1>2, <1>4, Queries
<1>7. j * ItemsPerQuery \in Nat /\ j * ItemsPerQuery < n  BY <1>4, <1>6, Queries
<1>8. n - (j - 1) * ItemsPerQuery > ItemsPerQuery
  <2>1. (j - 1) * ItemsPerQuery = j * ItemsPerQuery - ItemsPerQuery  BY <1>4, SizeAssumption
  <2> QED BY <1>7, <2>1, SizeAssumption
<1>9. SmallerOf(n - (j - 1) * ItemsPerQuery, ItemsPerQuery) = ItemsPerQuery
  <2>1. (j - 1) * ItemsPerQuery \in Int  BY <1>4, SizeAssumption
  <2> QED BY <1>8, <2>1, SizeAssumption DEF SmallerOf
<1>10. f[j] = (j - 1) * FullQuery + FullQuery  BY <1>0, <1>3, <1>4, <1>5, <1>9 DEF Needed, FullQuery
<1>11. (j - 1) * FullQuery + FullQuery = j * FullQuery  BY <1>4, FullType
<1> QED BY <1>2, <1>10, <1>11

\* What the last query needs, when there are n items.
LastNeeds(n) == CeilDiv(n - (NumberOfQueries(n) - 1) * ItemsPerQuery, ItemsPerTask)

\* _get_number_of_subtasks, in closed form.
LEMMA NumberComputed ==
  ASSUME NEW n \in Nat
  PROVE  /\ NumberOfSubtasks(n) \in Nat
         /\ NumberOfQueries(n) = 0 => NumberOfSubtasks(n) = 0
         /\ NumberOfQueries(n) > 0 =>
              /\ LastNeeds(n) \in Nat \ {0}
              /\ NumberOfSubtasks(n) = (NumberOfQueries(n) - 1) * FullQuery + LastNeeds(n)
<1> DEFINE N == NumberOfQueries(n)
           f == NumberOfSubtasksUpTo(n)
<1>1. \A q \in Nat : f[q] = IF q = 0 THEN 0 ELSE f[q - 1] + Needed(n, q)  BY SumDefined
<1>2. N \in Nat /\ n <= N * ItemsPerQuery  BY Queries
<1>3. CASE N = 0  BY <1>1, <1>3 DEF NumberOfSubtasks
<1>4. CASE N > 0
  <2> HIDE DEF N, f
  <2>1. N - 1 \in Nat /\ N - 1 < N  BY <1>2, <1>4
  <2>2. f[N - 1] = (N - 1) * FullQuery  BY <2>1, SumBeforeLast DEF N, f
  <2>3. (N - 1) * ItemsPerQuery \in Nat /\ (N - 1) * ItemsPerQuery < n  BY <2>1, Queries DEF N
  <2>4. N * ItemsPerQuery = (N - 1) * ItemsPerQuery + ItemsPerQuery  BY <1>2, SizeAssumption
  <2>5. n - (N - 1) * ItemsPerQuery \in Nat \ {0} /\ n - (N - 1) * ItemsPerQuery <= ItemsPerQuery
    BY <1>2, <2>3, <2>4, SizeAssumption
  <2>6. SmallerOf(n - (N - 1) * ItemsPerQuery, ItemsPerQuery) = n - (N - 1) * ItemsPerQuery
    BY <2>5 DEF SmallerOf
  <2>7. LastNeeds(n) \in Nat \ {0}
    <3>1. PICK d : d = n - (N - 1) * ItemsPerQuery  OBVIOUS
    <3>2. d \in Nat /\ d > 0 /\ CeilDiv(d, ItemsPerTask) \in Nat /\ CeilDiv(d, ItemsPerTask) > 0
      BY <2>5, <3>1, SizeAssumption, CeilPositive
    <3>3. LastNeeds(n) = CeilDiv(d, ItemsPerTask)  BY <3>1 DEF LastNeeds, N
    <3> QED BY <3>2, <3>3
  <2>8. f[N] = (N - 1) * FullQuery + LastNeeds(n)
    BY <1>1, <1>2, <1>4, <2>2, <2>6 DEF Needed, LastNeeds, N
  <2>9. (N - 1) * FullQuery \in Nat  BY <2>1, FullType
  <2>10. NumberOfSubtasks(n) = f[N]  BY DEF NumberOfSubtasks, N, f
  <2>11. NumberOfSubtasks(n) \in Nat  BY <2>7, <2>8, <2>9, <2>10
  <2> QED BY <1>4, <2>7, <2>8, <2>10, <2>11 DEF N
<1> QED BY <1>2, <1>3, <1>4

-----------------------------------------------------------------------------
(* Ranks and slices                                                          *)

\* Rank numbers the elements of a finite set in their order, from 0 on.
LEMMA Ranks ==
  ASSUME NEW S \in SUBSET Nat, IsFiniteSet(S)
  PROVE  /\ Cardinality(S) \in Nat
         /\ \A x \in S : Rank(x, S) \in 0..(Cardinality(S) - 1)
         /\ \A x, y \in S : x < y => Rank(x, S) < Rank(y, S)
<1> DEFINE Below(x) == {z \in S : z < x}
<1>1. Cardinality(S) \in Nat  BY FS_CardinalityType
<1>2. ASSUME NEW x \in S PROVE Rank(x, S) \in Nat /\ Rank(x, S) < Cardinality(S)
  <2>1. Below(x) \in SUBSET S /\ Below(x) # S  OBVIOUS
  <2>2. /\ IsFiniteSet(Below(x)) /\ Cardinality(Below(x)) <= Cardinality(S)
        /\ Cardinality(Below(x)) # Cardinality(S)
    BY <2>1, FS_Subset
  <2>3. Cardinality(Below(x)) \in Nat  BY <2>2, FS_CardinalityType
  <2> QED BY <1>1, <2>2, <2>3 DEF Rank
<1>3. ASSUME NEW x \in S, NEW y \in S, x < y PROVE Rank(x, S) < Rank(y, S)
  <2>0. \A z \in S : z \in Nat  OBVIOUS
  <2>1. Below(x) \in SUBSET Below(y)
    <3>1. \A z \in S : z < x => z < y  BY <1>3, <2>0
    <3> QED BY <3>1
  <2>4. x \in Below(y) /\ x \notin Below(x)  BY <1>3, <2>0
  <2>2. IsFiniteSet(Below(y))  BY FS_Subset
  <2>3. Cardinality(Below(x)) <= Cardinality(Below(y)) /\ Cardinality(Below(x)) # Cardinality(Below(y))
    BY <2>1, <2>2, <2>4, FS_Subset
  <2> QED BY <1>2, <2>3 DEF Rank
<1> QED BY <1>1, <1>2, <1>3

\* Every position below the cardinality is taken.
LEMMA EveryRank ==
  ASSUME NEW S \in SUBSET Nat, IsFiniteSet(S), NEW i \in 0..(Cardinality(S) - 1)
  PROVE  \E x \in S : Rank(x, S) = i
<1> DEFINE f == [x \in S |-> Rank(x, S)]
           T == 0..(Cardinality(S) - 1)
<1>1. /\ Cardinality(S) \in Nat /\ \A x \in S : Rank(x, S) \in T
      /\ \A x, y \in S : x < y => Rank(x, S) < Rank(y, S)
  BY Ranks
<1>2. f \in Injection(S, T)
  <2>1. f \in [S -> T]  BY <1>1
  <2>2. ASSUME NEW x \in S, NEW y \in S, f[x] = f[y] PROVE x = y
    <3>1. x \in Nat /\ y \in Nat /\ Rank(x, S) \in Nat /\ Rank(y, S) \in Nat /\ Rank(x, S) = Rank(y, S)
      BY <1>1, <2>2
    <3>2. ~(x < y) /\ ~(y < x)  BY <1>1, <3>1
    <3> QED BY <3>1, <3>2
  <2> QED BY <2>1, <2>2 DEF Injection, IsInjective
<1>3. IsFiniteSet(T) /\ Cardinality(T) = Cardinality(S)
  <2>1. 0 \in Int /\ Cardinality(S) - 1 \in Int  BY <1>1
  <2> QED BY <1>1, <2>1, FS_Interval
<1>4. f \in Surjection(S, T)  BY <1>2, <1>3, FS_Injection
<1>5. \A t \in T : \E s \in S : f[s] = t  BY <1>4 DEF Surjection
<1> QED BY <1>5

\* The order of the ranks is the order of the elements.
LEMMA RankOrder ==
  ASSUME NEW S \in SUBSET Nat, IsFiniteSet(S), NEW x \in S, NEW y \in S, Rank(x, S) <= Rank(y, S)
  PROVE  x <= y
<1>1. x \in Nat /\ y \in Nat /\ Rank(x, S) \in Nat /\ Rank(y, S) \in Nat  BY Ranks
<1>2. ~(y < x)  BY <1>1, Ranks
<1> QED BY <1>1, <1>2

\* order_by('pk')[0], and the last item of a list.
LEMMA SmallestLargest ==
  ASSUME NEW S \in SUBSET Nat, IsFiniteSet(S), S # {}
  PROVE  /\ Smallest(S) \in S /\ \A x \in S : Smallest(S) <= x
         /\ Largest(S) \in S /\ \A x \in S : x <= Largest(S)
<1>1. Cardinality(S) \in Nat /\ Cardinality(S) # 0  BY FS_CardinalityType, FS_EmptySet
<1>2. 0 \in 0..(Cardinality(S) - 1) /\ Cardinality(S) - 1 \in 0..(Cardinality(S) - 1)  BY <1>1
<1>3. Smallest(S) \in S /\ Rank(Smallest(S), S) = 0  BY <1>2, EveryRank DEF Smallest
<1>4. Largest(S) \in S /\ Rank(Largest(S), S) = Cardinality(S) - 1
  <2>1. \E x \in S : Rank(x, S) = Cardinality(S) - 1  BY <1>2, EveryRank
  <2> QED BY <2>1 DEF Largest
<1>5. \A x \in S : Rank(x, S) \in 0..(Cardinality(S) - 1)  BY Ranks
<1>6. \A x \in S : Rank(Smallest(S), S) <= Rank(x, S) /\ Rank(x, S) <= Rank(Largest(S), S)
  BY <1>1, <1>3, <1>4, <1>5
<1>7. \A x \in S : Smallest(S) <= x  BY <1>3, <1>6, RankOrder
<1>8. \A x \in S : x <= Largest(S)  BY <1>4, <1>6, RankOrder
<1> QED BY <1>3, <1>4, <1>7, <1>8

\* A slice from the start has as many elements as it asks for, or all.
LEMMA FirstSlice ==
  ASSUME NEW S \in SUBSET Nat, IsFiniteSet(S), NEW m \in Nat
  PROVE  /\ Cardinality(Slice(S, 0, m)) \in Nat /\ Cardinality(Slice(S, 0, m)) <= m
         /\ m <= Cardinality(S) => Cardinality(Slice(S, 0, m)) = m
<1> DEFINE A == Slice(S, 0, m)
           T == 0..(m - 1)
           f == [x \in A |-> Rank(x, S)]
<1>1. \A x \in S : Rank(x, S) \in Nat  BY Ranks
<1>2. A \in SUBSET S /\ \A x \in S : x \in A <=> Rank(x, S) < m  BY <1>1 DEF Slice
<1>3. IsFiniteSet(A) /\ Cardinality(A) \in Nat  BY <1>2, FS_Subset, FS_CardinalityType
<1>4. IsFiniteSet(T) /\ Cardinality(T) = m
  <2>1. 0 \in Int /\ m - 1 \in Int  OBVIOUS
  <2> QED BY <2>1, FS_Interval
<1> HIDE DEF A
<1>5. f \in Injection(A, T)
  <2>1. f \in [A -> T]  BY <1>1, <1>2
  <2>2. ASSUME NEW x \in A, NEW y \in A, f[x] = f[y] PROVE x = y
    <3>1. x \in S /\ y \in S /\ x \in Nat /\ y \in Nat /\ Rank(x, S) = Rank(y, S) /\ Rank(x, S) \in Nat
      BY <1>1, <1>2, <2>2
    <3>2. x <= y /\ y <= x  BY <3>1, RankOrder
    <3> QED BY <3>1, <3>2
  <2> QED BY <2>1, <2>2 DEF Injection, IsInjective
<1>6. Cardinality(A) <= m /\ (Cardinality(A) = m <=> f \in Surjection(A, T))
  BY <1>4, <1>5, FS_Injection
<1>7. ASSUME m <= Cardinality(S) PROVE f \in Surjection(A, T)
  <2>1. Cardinality(S) \in Nat  BY Ranks
  <2>2. ASSUME NEW t \in T PROVE \E x \in A : f[x] = t
    <3>1. t \in 0..(Cardinality(S) - 1) /\ t < m  BY <1>7, <2>1
    <3>2. PICK x \in S : Rank(x, S) = t  BY <3>1, EveryRank
    <3> QED BY <1>2, <3>1, <3>2
  <2>3. f \in [A -> T]  BY <1>5 DEF Injection
  <2> QED BY <2>2, <2>3 DEF Surjection
<1> QED BY <1>3, <1>6, <1>7 DEF A

\* The slices of one query are disjoint and give everybody to one of them.
LEMMA Slices ==
  ASSUME NEW S \in SUBSET Nat, IsFiniteSet(S), NEW k \in Nat \ {0},
         NEW c \in Nat, c = CeilDiv(Cardinality(S), k)
  PROVE  /\ \A i, j \in 1..k : i # j =>
               Slice(S, (i - 1) * c, (i - 1) * c + c) \cap Slice(S, (j - 1) * c, (j - 1) * c + c) = {}
         /\ \A x \in S : \E i \in 1..k : x \in Slice(S, (i - 1) * c, (i - 1) * c + c)
<1>1. \A x \in S : Rank(x, S) \in 0..(Cardinality(S) - 1)  BY Ranks
<1>2. Cardinality(S) \in Nat  BY Ranks
<1>3. Cardinality(S) <= c * k  BY <1>2, Ceil
<1>4. ASSUME NEW i \in 1..k, NEW j \in 1..k, i < j
      PROVE  Slice(S, (i - 1) * c, (i - 1) * c + c) \cap Slice(S, (j - 1) * c, (j - 1) * c + c) = {}
  <2>1. i \in Nat /\ j - 1 \in Nat /\ i <= j - 1  BY <1>4
  <2>2. i * c \in Nat /\ (j - 1) * c \in Nat /\ i * c <= (j - 1) * c  BY <2>1, ProductGrows
  <2>3. (i - 1) * c + c = i * c  BY <2>1
  <2>4. ASSUME NEW x \in S, Rank(x, S) < i * c PROVE ~((j - 1) * c <= Rank(x, S))
    <3>1. Rank(x, S) \in Nat  BY <1>1
    <3> QED BY <2>2, <2>4, <3>1
  <2> QED BY <2>3, <2>4 DEF Slice
<1>5. ASSUME NEW x \in S PROVE \E i \in 1..k : x \in Slice(S, (i - 1) * c, (i - 1) * c + c)
  <2>1. Rank(x, S) \in Nat /\ Rank(x, S) < c * k  BY <1>1, <1>2, <1>3
  <2>2. c # 0
    <3>1. c = 0 => c * k = 0  OBVIOUS
    <3> QED BY <2>1, <3>1
  <2> DEFINE d == Rank(x, S) \div c
  <2>3. d \in Nat /\ d * c <= Rank(x, S) /\ Rank(x, S) < d * c + c
    <3>1. c \in Nat \ {0} /\ Rank(x, S) \in Int /\ Rank(x, S) >= 0  BY <2>1, <2>2
    <3>2. d \in Int /\ c * d <= Rank(x, S) /\ Rank(x, S) < c * d + c /\ d >= 0  BY <3>1, Euclid
    <3> HIDE DEF d
    <3>3. c * d = d * c  BY <3>2
    <3> QED BY <3>2, <3>3
  <2> HIDE DEF d
  <2>4. d < k
    <3>1. SUFFICES ASSUME k <= d PROVE FALSE  BY <2>3
    <3>2. k * c <= d * c /\ k * c \in Nat /\ d * c \in Nat  BY <2>3, <3>1, ProductGrows
    <3>3. c * k = k * c  OBVIOUS
    <3> QED BY <2>1, <2>3, <3>2, <3>3
  <2>5. d + 1 \in 1..k /\ (d + 1) - 1 = d  BY <2>3, <2>4
  <2>6. x \in Slice(S, d * c, d * c + c)  BY <2>3 DEF Slice
  <2> QED BY <2>5, <2>6
<1>6. ASSUME NEW i \in 1..k, NEW j \in 1..k, i # j
      PROVE  Slice(S, (i - 1) * c, (i - 1) * c + c) \cap Slice(S, (j - 1) * c, (j - 1) * c + c) = {}
  <2>1. i < j \/ j < i  BY <1>6
  <2> QED BY <1>4, <2>1
<1> QED BY <1>5, <1>6

-----------------------------------------------------------------------------
(* The invariant                                                             *)

\* What the queries to come can still read.
After == {x \in items : x > lastPk}

\* The subtasks that are left suffice for the queries that are left, and nobody
\* has been read beyond the cursor.
CountInv ==
  /\ pc # "count" => Len(chunks) + available = NumberOfSubtasks(total)
  /\ pc \in {"count", "first"} => chunks = <<>> /\ query = 0
  /\ pc = "query" => /\ query < NumberOfQueries(total)
                     /\ available >= NumberOfSubtasks(total) - query * FullQuery

\* As long as nobody has left, every query is full and uses what was planned for it.
StillThereInv ==
  changes.removed = 0 =>
    /\ pc = "first" => Cardinality(items) >= total
    /\ pc = "query" => /\ Cardinality(After) >= total - query * ItemsPerQuery
                       /\ available = NumberOfSubtasks(total) - query * FullQuery
    /\ pc = "done" => available = 0

\* The lists are disjoint and end at the cursor; up to there they have everybody.
ListsInv ==
  /\ \A i, j \in DOMAIN chunks : i # j => chunks[i] \cap chunks[j] = {}
  /\ \A i \in DOMAIN chunks : \A x \in chunks[i] : x <= lastPk
  /\ stayed \subseteq items
  /\ pc # "count" /\ NumberOfQueries(total) = 0 => stayed = {}
  /\ pc = "query" => \A x \in stayed : x <= lastPk => x \in Queued
  /\ pc = "done" => stayed \subseteq Queued

Inv == TypeOK /\ CountInv /\ StillThereInv /\ ListsInv

LEMMA SomeKeys ==
  ASSUME NEW S \in SUBSET Keys
  PROVE  S \in SUBSET Nat /\ IsFiniteSet(S) /\ Cardinality(S) \in Nat
BY KeysAssumption, FS_Subset, FS_CardinalityType

\* What a query reads is the beginning of what is left.
LEMMA SublistRead ==
  ASSUME TypeOK, Sublist # {}
  PROVE  /\ Sublist \in SUBSET After /\ After \in SUBSET Keys
         /\ Largest(Sublist) \in Sublist
         /\ \A x \in Sublist : x <= Largest(Sublist)
         /\ \A x \in After : x <= Largest(Sublist) => x \in Sublist
         /\ ~LastQuery => /\ Cardinality(Sublist) <= ItemsPerQuery
                          /\ Cardinality(After) >= ItemsPerQuery => Cardinality(Sublist) = ItemsPerQuery
<1>1. After \in SUBSET Keys /\ ItemsPerQuery \in Nat  BY SizeAssumption DEF TypeOK, After
<1>2. Sublist = IF LastQuery THEN After ELSE Slice(After, 0, ItemsPerQuery)  BY DEF Sublist, After
<1>3. Sublist \in SUBSET After  BY <1>2 DEF Slice
<1>4. After \in SUBSET Nat /\ IsFiniteSet(After)  BY <1>1, SomeKeys
<1>5. /\ Largest(Sublist) \in Sublist /\ \A x \in Sublist : x <= Largest(Sublist)
  <2>1. Sublist \in SUBSET Nat /\ IsFiniteSet(Sublist)  BY <1>1, <1>3, SomeKeys
  <2> QED BY <2>1, SmallestLargest
<1>6. ASSUME NEW x \in After, x <= Largest(Sublist), ~LastQuery PROVE x \in Sublist
  <2>1. PICK y \in Sublist : y = Largest(Sublist)  BY <1>5
  <2>2. y \in After /\ Rank(y, After) < ItemsPerQuery  BY <1>2, <1>3, <1>6 DEF Slice
  <2>3. Rank(x, After) \in Nat /\ Rank(y, After) \in Nat  BY <1>4, <2>2, Ranks
  <2>4. x \in Nat /\ y \in Nat /\ x <= y  BY <1>4, <1>6, <2>1, <2>2
  <2>5. Rank(x, After) <= Rank(y, After)
    <3>1. CASE x = y  BY <2>3, <3>1
    <3>2. CASE x < y
      <4>1. Rank(x, After) < Rank(y, After)  BY <1>4, <2>2, <3>2, Ranks
      <4> QED BY <2>3, <4>1
    <3> QED BY <2>4, <3>1, <3>2
  <2>6. 0 <= Rank(x, After) /\ Rank(x, After) < ItemsPerQuery  BY <1>1, <2>2, <2>3, <2>5
  <2> QED BY <1>2, <1>6, <2>6 DEF Slice
<1>7. ASSUME ~LastQuery
      PROVE  /\ Cardinality(Sublist) <= ItemsPerQuery
             /\ Cardinality(After) >= ItemsPerQuery => Cardinality(Sublist) = ItemsPerQuery
  <2>1. Sublist = Slice(After, 0, ItemsPerQuery)  BY <1>2, <1>7
  <2>2. Cardinality(After) \in Nat  BY <1>4, FS_CardinalityType
  <2>3. ItemsPerQuery <= Cardinality(After) => Cardinality(Slice(After, 0, ItemsPerQuery)) = ItemsPerQuery
    BY <1>1, <1>4, FirstSlice
  <2>4. Cardinality(Slice(After, 0, ItemsPerQuery)) <= ItemsPerQuery  BY <1>1, <1>4, FirstSlice
  <2> QED BY <1>1, <2>1, <2>2, <2>3, <2>4
<1>8. \A x \in After : x <= Largest(Sublist) => x \in Sublist  BY <1>2, <1>6
<1> QED BY <1>1, <1>3, <1>5, <1>7, <1>8

\* A query finds a subtask for its items (no division by zero).
LEMMA SomeAvailable ==
  ASSUME TypeOK, CountInv, pc = "query"
  PROVE  /\ available \in Nat \ {0}
         /\ ~LastQuery => available >= FullQuery
         /\ LastQuery => available >= LastNeeds(total)
<1> DEFINE N == NumberOfQueries(total)
<1>1. /\ query \in Nat /\ total \in Nat /\ available \in Nat /\ query < N
      /\ available >= NumberOfSubtasks(total) - query * FullQuery
  BY DEF TypeOK, CountInv
<1>2. N \in Nat  BY <1>1, Queries
<1>3. N > 0  BY <1>1, <1>2
<1>4. /\ LastNeeds(total) \in Nat \ {0}
      /\ NumberOfSubtasks(total) = (N - 1) * FullQuery + LastNeeds(total)
  BY <1>1, <1>3, NumberComputed
<1>5. LastQuery <=> query = N - 1  BY DEF LastQuery
<1> HIDE DEF N
<1>6. CASE LastQuery
  <2>1. query * FullQuery = (N - 1) * FullQuery /\ query * FullQuery \in Nat  BY <1>1, <1>5, <1>6, FullType
  <2>2. available >= LastNeeds(total)  BY <1>1, <1>4, <2>1
  <2> QED BY <1>1, <1>4, <1>6, <2>2
<1>7. CASE ~LastQuery
  <2>1. query + 1 \in Nat /\ N - 1 \in Nat /\ query + 1 <= N - 1 /\ FullQuery \in Nat
    BY <1>1, <1>2, <1>5, <1>7, FullType
  <2>2. (query + 1) * FullQuery <= (N - 1) * FullQuery
        /\ (query + 1) * FullQuery \in Nat /\ (N - 1) * FullQuery \in Nat
    BY <2>1, ProductGrows
  <2>3. (query + 1) * FullQuery = query * FullQuery + FullQuery /\ query * FullQuery \in Nat  BY <1>1, <2>1
  <2>4. available >= FullQuery  BY <1>1, <1>4, <2>1, <2>2, <2>3
  <2> QED BY <1>1, <1>7, <2>4, FullType
<1> QED BY <1>6, <1>7

\* How many subtasks a query uses, and how long their lists are.
LEMMA QueryUses ==
  ASSUME TypeOK, CountInv, pc = "query", Sublist # {}
  PROVE  /\ Cardinality(Sublist) \in Nat \ {0}
         /\ TasksThisQuery(Cardinality(Sublist)) \in Nat \ {0}
         /\ TasksThisQuery(Cardinality(Sublist)) <= available
         /\ TasksThisQuery(Cardinality(Sublist)) <= CeilDiv(Cardinality(Sublist), ItemsPerTask)
         /\ CeilDiv(Cardinality(Sublist), ItemsPerTask) <= available
              => TasksThisQuery(Cardinality(Sublist)) = CeilDiv(Cardinality(Sublist), ItemsPerTask)
         /\ ChunkSize(Cardinality(Sublist)) \in Nat
<1> DEFINE n == Cardinality(Sublist)
<1>1. n \in Nat \ {0}
  <2>1. Sublist \in SUBSET Keys  BY SublistRead
  <2> QED BY <2>1, SomeKeys, FS_EmptySet
<1>2. available \in Nat \ {0}  BY SomeAvailable
<1> HIDE DEF n
<1>3. CeilDiv(n, ItemsPerTask) \in Nat /\ CeilDiv(n, ItemsPerTask) > 0  BY <1>1, SizeAssumption, CeilPositive
<1>4. /\ TasksThisQuery(n) \in Nat \ {0} /\ TasksThisQuery(n) <= available
      /\ TasksThisQuery(n) <= CeilDiv(n, ItemsPerTask)
      /\ CeilDiv(n, ItemsPerTask) <= available => TasksThisQuery(n) = CeilDiv(n, ItemsPerTask)
  BY <1>2, <1>3 DEF TasksThisQuery, SmallerOf
<1>5. ChunkSize(n) \in Nat  BY <1>1, <1>4, CeilPositive DEF ChunkSize
<1> QED BY <1>1, <1>4, <1>5 DEF n

-----------------------------------------------------------------------------
(* The steps                                                                 *)

LEMMA InitInv == Init => Inv
<1> SUFFICES ASSUME Init PROVE Inv  OBVIOUS
<1>1. TypeOK  BY ChangeAssumption DEF Init, TypeOK
<1>2. CountInv /\ StillThereInv /\ ListsInv
  BY DEF Init, CountInv, StillThereInv, ListsInv
<1> QED BY <1>1, <1>2 DEF Inv

LEMMA CountStep == ASSUME Inv, Count PROVE Inv'
<1>1. /\ pc = "count" /\ pc' = "first" /\ total' = Cardinality(items) /\ stayed' = items
      /\ available' = NumberOfSubtasks(Cardinality(items)) /\ chunks = <<>> /\ query = 0
      /\ UNCHANGED <<items, query, lastPk, chunks, changes>>
  BY DEF Count, Inv, CountInv
<1>2. items \in SUBSET Keys /\ Cardinality(items) \in Nat /\ IsFiniteSet(items)  BY SomeKeys DEF Inv, TypeOK
<1>3. /\ NumberOfSubtasks(total') \in Nat
      /\ NumberOfQueries(total') = 0 => total' = 0
  BY <1>1, <1>2, NumberComputed, Queries
<1>4. TypeOK'  BY <1>1, <1>2, <1>3 DEF Inv, TypeOK
<1>5. CountInv'  BY <1>1, <1>3 DEF CountInv
<1>6. StillThereInv'  BY <1>1, <1>2 DEF StillThereInv
<1>7. ListsInv'
  <2>1. total' = 0 => items = {}  BY <1>1, <1>2, FS_EmptySet
  <2> QED BY <1>1, <1>3, <2>1 DEF ListsInv
<1> QED BY <1>4, <1>5, <1>6, <1>7 DEF Inv

LEMMA FindFirstStep == ASSUME Inv, FindFirst PROVE Inv'
<1>1. /\ pc = "first" /\ chunks = <<>> /\ query = 0
      /\ UNCHANGED <<items, total, available, query, chunks, stayed, changes>>
  BY DEF FindFirst, Inv, CountInv
<1>2. CASE items = {}
  <2>1. pc' = "failed" /\ lastPk' = lastPk  BY <1>2 DEF FindFirst
  <2>2. TypeOK'  BY <1>1, <2>1 DEF Inv, TypeOK
  <2>3. CountInv' /\ StillThereInv' /\ ListsInv'
    BY <1>1, <2>1 DEF Inv, CountInv, StillThereInv, ListsInv
  <2> QED BY <2>2, <2>3 DEF Inv
<1>3. CASE items # {}
  <2>1. lastPk' = Smallest(items) - 1 /\ pc' = IF NumberOfQueries(total) = 0 THEN "done" ELSE "query"
    BY <1>3 DEF FindFirst
  <2>2. items \in SUBSET Keys /\ items \in SUBSET Nat /\ IsFiniteSet(items) /\ total \in Nat
    BY SomeKeys DEF Inv, TypeOK
  <2>3. Smallest(items) \in items /\ \A x \in items : Smallest(items) <= x  BY <1>3, <2>2, SmallestLargest
  <2>4. Smallest(items) \in Nat \ {0}  BY <2>2, <2>3, KeysAssumption
  <2>5. \A x \in items : x > lastPk'
    <3>1. \A x \in items : x \in Nat  BY <2>2
    <3> QED BY <2>1, <2>3, <2>4, <3>1
  <2>6. /\ NumberOfQueries(total) \in Nat /\ NumberOfSubtasks(total) \in Nat
        /\ NumberOfQueries(total) = 0 => NumberOfSubtasks(total) = 0
    BY <2>2, Queries, NumberComputed
  <2>7. available = NumberOfSubtasks(total)
    <3>1. Len(chunks) + available = NumberOfSubtasks(total) /\ available \in Nat  BY <1>1 DEF Inv, CountInv, TypeOK
    <3>2. Len(chunks) = 0  BY <1>1
    <3> QED BY <3>1, <3>2
  <2>8. TypeOK'  BY <1>1, <2>1, <2>4 DEF Inv, TypeOK
  <2>9. 0 * FullQuery = 0 /\ 0 * ItemsPerQuery = 0  BY FullType, SizeAssumption
  <2>10. CountInv'  BY <1>1, <2>1, <2>6, <2>7, <2>9 DEF Inv, CountInv
  <2>11. StillThereInv'
    <3>1. After' = items  BY <1>1, <2>5 DEF After
    <3>2. Cardinality(items) \in Nat  BY <2>2, SomeKeys
    <3> QED BY <1>1, <2>1, <2>2, <2>6, <2>7, <2>9, <3>1, <3>2 DEF Inv, StillThereInv
  <2>12. ListsInv'
    <3>1. stayed \subseteq items /\ (NumberOfQueries(total) = 0 => stayed = {})  BY <1>1 DEF Inv, ListsInv
    <3>2. \A x \in stayed : ~(x <= lastPk')
      <4>1. \A x \in stayed : x \in Nat /\ x > lastPk'  BY <2>2, <2>5, <3>1
      <4>2. lastPk' \in Int  BY <2>1, <2>4
      <4> QED BY <4>1, <4>2
    <3> QED BY <1>1, <2>1, <3>1, <3>2 DEF ListsInv
  <2> QED BY <2>8, <2>10, <2>11, <2>12 DEF Inv
<1> QED BY <1>2, <1>3

LEMMA QueryFailsStep == ASSUME Inv, QueryFails PROVE Inv'
<1>1. /\ pc = "query" /\ pc' = "failed"
      /\ UNCHANGED <<items, total, available, query, lastPk, chunks, stayed, changes>>
  BY DEF QueryFails
<1>2. TypeOK'  BY <1>1 DEF Inv, TypeOK
<1>3. CountInv' /\ StillThereInv'  BY <1>1 DEF Inv, CountInv, StillThereInv
<1>4. ListsInv'  BY <1>1 DEF Inv, ListsInv
<1> QED BY <1>2, <1>3, <1>4 DEF Inv

\* The lists that were queued, followed by those of one more query.
LEMMA Appended ==
  ASSUME NEW s \in Seq(SUBSET Keys), NEW k \in Nat, NEW new \in [1..k -> SUBSET Keys]
  PROVE  /\ s \o new \in Seq(SUBSET Keys) /\ Len(s \o new) = Len(s) + k
         /\ DOMAIN s = 1..Len(s) /\ DOMAIN (s \o new) = 1..(Len(s) + k)
         /\ \A i \in 1..Len(s) : (s \o new)[i] = s[i]
         /\ \A i \in 1..k : (s \o new)[Len(s) + i] = new[i]
         /\ \A i \in 1..(Len(s) + k) : i \in 1..Len(s) \/ \E j \in 1..k : i = Len(s) + j
<1>1. new \in Seq(SUBSET Keys) /\ Len(new) = k  OBVIOUS
<1>2. Len(s) \in Nat  OBVIOUS
<1>3. ASSUME NEW i \in 1..(Len(s) + k) PROVE i \in 1..Len(s) \/ \E j \in 1..k : i = Len(s) + j
  <2>1. i > Len(s) => i - Len(s) \in 1..k /\ i = Len(s) + (i - Len(s))  BY <1>2
  <2>2. i > Len(s) \/ i \in 1..Len(s)  BY <1>2
  <2> QED BY <2>1, <2>2
<1>4. s \o new \in Seq(SUBSET Keys) /\ Len(s \o new) = Len(s) + k  BY <1>1
<1>5. DOMAIN s = 1..Len(s) /\ DOMAIN (s \o new) = 1..(Len(s) + k)  BY <1>4
<1>6. \A i \in 1..Len(s) : (s \o new)[i] = s[i]  BY <1>1, <1>2
<1>7. \A i \in 1..k : (s \o new)[Len(s) + i] = new[i]  BY <1>1, <1>2
<1> QED BY <1>3, <1>4, <1>5, <1>6, <1>7

\* The lists of one query.
NewChunks ==
  [i \in 1..TasksThisQuery(Cardinality(Sublist)) |->
     Slice(Sublist, (i - 1) * ChunkSize(Cardinality(Sublist)),
           (i - 1) * ChunkSize(Cardinality(Sublist)) + ChunkSize(Cardinality(Sublist)))]

LEMMA NewOnes ==
  ASSUME TypeOK, CountInv, pc = "query", Sublist # {}
  PROVE  /\ NewChunks \in [1..TasksThisQuery(Cardinality(Sublist)) -> SUBSET Sublist]
         /\ NewChunks \in [1..TasksThisQuery(Cardinality(Sublist)) -> SUBSET Keys]
         /\ \A i, j \in 1..TasksThisQuery(Cardinality(Sublist)) :
              i # j => NewChunks[i] \cap NewChunks[j] = {}
         /\ \A x \in Sublist : \E i \in 1..TasksThisQuery(Cardinality(Sublist)) : x \in NewChunks[i]
<1> DEFINE n == Cardinality(Sublist)
           k == TasksThisQuery(n)
           c == ChunkSize(n)
<1>1. Sublist \in SUBSET Keys  BY SublistRead
<1>2. Sublist \in SUBSET Nat /\ IsFiniteSet(Sublist)  BY <1>1, SomeKeys
<1>3. k \in Nat \ {0} /\ c \in Nat /\ c = CeilDiv(n, k)  BY QueryUses DEF ChunkSize
<1>4. NewChunks = [i \in 1..k |-> Slice(Sublist, (i - 1) * c, (i - 1) * c + c)]  BY DEF NewChunks
<1> HIDE DEF k, c
<1>5. /\ \A i, j \in 1..k : i # j =>
           Slice(Sublist, (i - 1) * c, (i - 1) * c + c) \cap Slice(Sublist, (j - 1) * c, (j - 1) * c + c) = {}
      /\ \A x \in Sublist : \E i \in 1..k : x \in Slice(Sublist, (i - 1) * c, (i - 1) * c + c)
  BY <1>2, <1>3, Slices
<1>6. \A i \in 1..k : Slice(Sublist, (i - 1) * c, (i - 1) * c + c) \in SUBSET Sublist  BY DEF Slice
<1>7. NewChunks \in [1..k -> SUBSET Sublist]  BY <1>4, <1>6
<1>8. NewChunks \in [1..k -> SUBSET Keys]  BY <1>1, <1>7
<1>9. \A i, j \in 1..k : i # j => NewChunks[i] \cap NewChunks[j] = {}  BY <1>4, <1>5
<1>10. \A x \in Sublist : \E i \in 1..k : x \in NewChunks[i]  BY <1>4, <1>5
<1> QED BY <1>7, <1>8, <1>9, <1>10 DEF k

\* What has been queued when a query's lists are added.
LEMMA QueuedMore ==
  ASSUME TypeOK, CountInv, pc = "query", Sublist # {}, chunks' = chunks \o NewChunks
  PROVE  /\ \A x \in Queued : x \in Queued'
         /\ \A x \in Sublist : x \in Queued'
<1> DEFINE k == TasksThisQuery(Cardinality(Sublist))
<1>1. k \in Nat /\ chunks \in Seq(SUBSET Keys)  BY QueryUses DEF TypeOK
<1>2. NewChunks \in [1..k -> SUBSET Keys] /\ \A x \in Sublist : \E i \in 1..k : x \in NewChunks[i]
  BY NewOnes
<1> HIDE DEF k
<1>3. /\ DOMAIN chunks = 1..Len(chunks) /\ DOMAIN chunks' = 1..(Len(chunks) + k)
      /\ \A i \in 1..Len(chunks) : chunks'[i] = chunks[i]
      /\ \A i \in 1..k : chunks'[Len(chunks) + i] = NewChunks[i]
  BY <1>1, <1>2, Appended
<1>4. Len(chunks) \in Nat  BY <1>1
<1>5. ASSUME NEW x \in Queued PROVE x \in Queued'
  <2>1. PICK i \in DOMAIN chunks : x \in chunks[i]  BY <1>5 DEF Queued
  <2>2. i \in DOMAIN chunks' /\ x \in chunks'[i]  BY <1>1, <1>3, <1>4, <2>1
  <2> QED BY <2>2 DEF Queued
<1>6. ASSUME NEW x \in Sublist PROVE x \in Queued'
  <2>1. PICK i \in 1..k : x \in NewChunks[i]  BY <1>2
  <2>2. Len(chunks) + i \in DOMAIN chunks' /\ x \in chunks'[Len(chunks) + i]  BY <1>1, <1>3, <1>4, <2>1
  <2> QED BY <2>2 DEF Queued
<1> QED BY <1>5, <1>6

LEMMA QueryStep == ASSUME Inv, Query PROVE Inv'
<1> DEFINE k == TasksThisQuery(Cardinality(Sublist))
           N == NumberOfQueries(total)
<1>1. TypeOK /\ CountInv /\ StillThereInv /\ ListsInv /\ pc = "query" /\ Sublist # {}  BY DEF Inv, Query
<1>2. /\ lastPk' = Largest(Sublist) /\ available' = available - k /\ chunks' = chunks \o NewChunks
      /\ query' = query + 1 /\ pc' = IF LastQuery THEN "done" ELSE "query"
      /\ UNCHANGED <<items, total, stayed, changes>>
  BY DEF Query, NewChunks
<1>3. /\ k \in Nat \ {0} /\ k <= available /\ k <= CeilDiv(Cardinality(Sublist), ItemsPerTask)
      /\ CeilDiv(Cardinality(Sublist), ItemsPerTask) <= available
           => k = CeilDiv(Cardinality(Sublist), ItemsPerTask)
      /\ Cardinality(Sublist) \in Nat
  BY <1>1, QueryUses
<1>4. /\ NewChunks \in [1..k -> SUBSET Sublist] /\ NewChunks \in [1..k -> SUBSET Keys]
      /\ \A i, j \in 1..k : i # j => NewChunks[i] \cap NewChunks[j] = {}
  BY <1>1, NewOnes
<1>5. /\ Sublist \in SUBSET After /\ After \in SUBSET Keys /\ Largest(Sublist) \in Sublist
      /\ \A x \in Sublist : x <= Largest(Sublist)
      /\ \A x \in After : x <= Largest(Sublist) => x \in Sublist
      /\ ~LastQuery => /\ Cardinality(Sublist) <= ItemsPerQuery
                       /\ Cardinality(After) >= ItemsPerQuery => Cardinality(Sublist) = ItemsPerQuery
  BY <1>1, SublistRead
<1>6. /\ total \in Nat /\ query \in Nat /\ lastPk \in Nat /\ available \in Nat
      /\ chunks \in Seq(SUBSET Keys) /\ query < N /\ items \in SUBSET Keys
  BY <1>1 DEF TypeOK, CountInv
<1>7. N \in Nat /\ N > 0 /\ (LastQuery <=> query = N - 1)
  <2>1. N \in Nat  BY <1>6, Queries
  <2> QED BY <1>6, <2>1 DEF LastQuery
<1>8. /\ available \in Nat \ {0} /\ (~LastQuery => available >= FullQuery)
      /\ (LastQuery => available >= LastNeeds(total))
  BY <1>1, SomeAvailable
<1>9. /\ NumberOfSubtasks(total) \in Nat /\ N > 0
      /\ LastNeeds(total) \in Nat \ {0} /\ NumberOfSubtasks(total) = (N - 1) * FullQuery + LastNeeds(total)
  BY <1>6, <1>7, NumberComputed
<1> HIDE DEF k, N
<1>10. /\ chunks' \in Seq(SUBSET Keys) /\ Len(chunks') = Len(chunks) + k /\ Len(chunks) \in Nat
       /\ DOMAIN chunks = 1..Len(chunks) /\ DOMAIN chunks' = 1..(Len(chunks) + k)
       /\ \A i \in 1..Len(chunks) : chunks'[i] = chunks[i]
       /\ \A i \in 1..k : chunks'[Len(chunks) + i] = NewChunks[i]
       /\ \A i \in 1..(Len(chunks) + k) : i \in 1..Len(chunks) \/ \E j \in 1..k : i = Len(chunks) + j
  <2>1. \A new \in [1..k -> SUBSET Keys] :
          /\ chunks \o new \in Seq(SUBSET Keys) /\ Len(chunks \o new) = Len(chunks) + k
          /\ DOMAIN chunks = 1..Len(chunks) /\ DOMAIN (chunks \o new) = 1..(Len(chunks) + k)
          /\ \A i \in 1..Len(chunks) : (chunks \o new)[i] = chunks[i]
          /\ \A i \in 1..k : (chunks \o new)[Len(chunks) + i] = new[i]
          /\ \A i \in 1..(Len(chunks) + k) : i \in 1..Len(chunks) \/ \E j \in 1..k : i = Len(chunks) + j
    BY <1>3, <1>6, Appended
  <2>2. PICK new \in [1..k -> SUBSET Keys] : new = NewChunks  BY <1>4
  <2>3. chunks' = chunks \o new  BY <1>2, <2>2
  <2>4. Len(chunks) \in Nat  BY <1>6
  <2> QED BY <2>1, <2>2, <2>3, <2>4
<1>11. lastPk' \in Nat /\ lastPk' > lastPk
  <2>1. Largest(Sublist) \in Keys /\ Largest(Sublist) > lastPk  BY <1>5 DEF After
  <2> QED BY <1>2, <1>6, <2>1, KeysAssumption
<1>12. TypeOK'
  BY <1>1, <1>2, <1>3, <1>6, <1>10, <1>11 DEF TypeOK
\* A query that is not the last uses no more than it was planned for.
<1>13. ~LastQuery => k <= FullQuery
  <2>1. SUFFICES ASSUME ~LastQuery PROVE k <= FullQuery  OBVIOUS
  <2>2. CeilDiv(Cardinality(Sublist), ItemsPerTask) <= FullQuery
    BY <1>3, <1>5, <2>1, SizeAssumption, CeilGrows DEF FullQuery
  <2>3. CeilDiv(Cardinality(Sublist), ItemsPerTask) \in Int  BY <1>3, SizeAssumption, Ceil
  <2> QED BY <1>3, <2>2, <2>3, FullType
<1>14. query * FullQuery \in Nat /\ (query + 1) * FullQuery = query * FullQuery + FullQuery
  BY <1>6, FullType
<1>15. CountInv'
  <2>1. Len(chunks') + available' = NumberOfSubtasks(total')
    <3>1. Len(chunks) + available = NumberOfSubtasks(total)  BY <1>1 DEF CountInv
    <3> QED BY <1>2, <1>3, <1>6, <1>10, <3>1
  <2>2. ASSUME ~LastQuery
        PROVE  query' < N /\ available' >= NumberOfSubtasks(total) - query' * FullQuery
    <3>1. available >= NumberOfSubtasks(total) - query * FullQuery  BY <1>1 DEF CountInv
    <3>2. k <= FullQuery /\ FullQuery \in Nat  BY <1>13, <2>2, FullType
    <3>3. available - k >= NumberOfSubtasks(total) - (query + 1) * FullQuery
      BY <1>3, <1>6, <1>9, <1>14, <3>1, <3>2
    <3>4. query + 1 < N  BY <1>6, <1>7, <2>2
    <3> QED BY <1>2, <3>3, <3>4
  <2>3. N' = N /\ pc' \in {"done", "query"}  BY <1>2 DEF N
  <2> QED BY <1>2, <2>1, <2>2, <2>3 DEF CountInv, N
<1>16. StillThereInv'
  <2>1. SUFFICES ASSUME changes.removed = 0
        PROVE /\ pc' = "query" => /\ Cardinality(After') >= total - query' * ItemsPerQuery
                                  /\ available' = NumberOfSubtasks(total) - query' * FullQuery
              /\ pc' = "done" => available' = 0
    BY <1>2 DEF StillThereInv
  <2>2. /\ Cardinality(After) >= total - query * ItemsPerQuery
        /\ available = NumberOfSubtasks(total) - query * FullQuery
    BY <1>1, <2>1 DEF StillThereInv
  <2>3. IsFiniteSet(After) /\ Cardinality(After) \in Nat  BY <1>5, SomeKeys
  <2>4. After' = After \ Sublist
    <3>1. \A x \in After : x \in Nat /\ x > lastPk /\ x \in items  BY <1>5, KeysAssumption DEF After
    <3>2. \A x \in items : x \in Nat  BY <1>6, KeysAssumption
    <3>3. \A x \in items : x > lastPk' <=> x \in After /\ x \notin Sublist
      <4>1. Largest(Sublist) = lastPk' /\ \A x \in After : x <= lastPk' <=> x \in Sublist  BY <1>2, <1>5
      <4>2. \A x \in items : x > lastPk' => x \in After  BY <1>6, <1>11, <3>2 DEF After
      <4> QED BY <1>11, <3>1, <4>1, <4>2
    <3> QED BY <1>2, <3>1, <3>3 DEF After
  <2>5. Cardinality(After') = Cardinality(After) - Cardinality(Sublist)
    <3>1. After \cap Sublist = Sublist  BY <1>5
    <3>2. Cardinality(After \ Sublist) = Cardinality(After) - Cardinality(After \cap Sublist)
      BY <2>3, FS_Difference
    <3> QED BY <2>4, <3>1, <3>2
  <2>6. ASSUME ~LastQuery
        PROVE  /\ Cardinality(After') >= total - query' * ItemsPerQuery
               /\ available' = NumberOfSubtasks(total) - query' * FullQuery
    <3>1. query + 1 < N /\ query + 1 \in Nat  BY <1>6, <1>7, <2>6
    <3>2. (query + 1) * ItemsPerQuery \in Nat /\ (query + 1) * ItemsPerQuery < total
      BY <1>6, <3>1, Queries DEF N
    <3>3. (query + 1) * ItemsPerQuery = query * ItemsPerQuery + ItemsPerQuery /\ ItemsPerQuery \in Nat
          /\ query * ItemsPerQuery \in Nat
      BY <1>6, SizeAssumption
    <3>4. Cardinality(After) >= ItemsPerQuery  BY <1>6, <2>2, <2>3, <3>2, <3>3
    <3>5. Cardinality(Sublist) = ItemsPerQuery  BY <1>5, <2>6, <3>4
    <3>6. k = FullQuery
      <4>1. CeilDiv(Cardinality(Sublist), ItemsPerTask) = FullQuery  BY <3>5 DEF FullQuery
      <4> QED BY <1>3, <1>8, <2>6, <4>1
    <3>7. Cardinality(After') >= total - (query + 1) * ItemsPerQuery
      BY <1>6, <2>2, <2>3, <2>5, <3>3, <3>5
    <3>8. available - k = NumberOfSubtasks(total) - (query + 1) * FullQuery
      BY <1>6, <1>9, <1>14, <2>2, <3>6, FullType
    <3> QED BY <1>2, <3>7, <3>8
  <2>7. ASSUME LastQuery PROVE available' = 0
    <3>1. Sublist = After  BY <2>7 DEF Sublist, After
    <3>2. PICK d : d = total - query * ItemsPerQuery  OBVIOUS
    <3>3. d \in Int /\ d <= Cardinality(Sublist)  BY <1>6, <2>2, <3>1, <3>2, SizeAssumption
    <3>4. LastNeeds(total) = CeilDiv(d, ItemsPerTask)  BY <1>7, <2>7, <3>2 DEF LastNeeds, N
    <3>5. CeilDiv(d, ItemsPerTask) <= CeilDiv(Cardinality(Sublist), ItemsPerTask)
      BY <1>3, <3>3, SizeAssumption, CeilGrows
    <3>6. available = LastNeeds(total)
      <4>1. query * FullQuery = (N - 1) * FullQuery  BY <1>7, <2>7
      <4> QED BY <1>6, <1>9, <1>14, <2>2, <4>1
    <3>7. k = available
      <4>1. TasksThisQuery(Cardinality(Sublist)) = available
        BY <1>6, <1>3, <3>4, <3>5, <3>6, SizeAssumption, Ceil DEF TasksThisQuery, SmallerOf
      <4> QED BY <4>1 DEF k
    <3> QED BY <1>2, <1>6, <3>7
  <2> QED BY <1>2, <2>6, <2>7
<1>17. ListsInv'
  <2>1. /\ \A i, j \in DOMAIN chunks : i # j => chunks[i] \cap chunks[j] = {}
        /\ \A i \in DOMAIN chunks : \A x \in chunks[i] : x <= lastPk
        /\ stayed \subseteq items
        /\ \A x \in stayed : x <= lastPk => x \in Queued
    BY <1>1 DEF ListsInv
  <2>2. \A i \in 1..Len(chunks) : \A x \in chunks'[i] : x \in Nat /\ x <= lastPk
    <3>1. \A i \in 1..Len(chunks) : chunks[i] \in SUBSET Keys  BY <1>6, <1>10
    <3>2. Keys \subseteq Nat  BY KeysAssumption
    <3>3. \A i \in 1..Len(chunks) : chunks'[i] = chunks[i] /\ i \in DOMAIN chunks  BY <1>10
    <3> QED BY <2>1, <3>1, <3>2, <3>3
  <2>3. \A i \in 1..k : \A x \in chunks'[Len(chunks) + i] : x \in Nat /\ x > lastPk /\ x <= lastPk'
    <3>1. \A x \in Sublist : x \in Nat /\ x > lastPk /\ x <= lastPk'  BY <1>2, <1>5, KeysAssumption DEF After
    <3> QED BY <1>4, <1>10, <3>1
  <2>4. ASSUME NEW i \in DOMAIN chunks', NEW j \in DOMAIN chunks', i # j
        PROVE  chunks'[i] \cap chunks'[j] = {}
    <3>1. ASSUME NEW a \in 1..Len(chunks), NEW b \in 1..k PROVE chunks'[a] \cap chunks'[Len(chunks) + b] = {}
      <4>1. \A x \in chunks'[a] : x \in Nat /\ x <= lastPk  BY <2>2
      <4>2. \A x \in chunks'[Len(chunks) + b] : x \in Nat /\ x > lastPk  BY <2>3
      <4> QED BY <1>6, <4>1, <4>2
    <3>2. CASE i \in 1..Len(chunks) /\ j \in 1..Len(chunks)  BY <1>10, <2>1, <2>4, <3>2
    <3>3. CASE i \in 1..Len(chunks) /\ j \notin 1..Len(chunks)  BY <1>10, <3>1, <3>3
    <3>4. CASE i \notin 1..Len(chunks) /\ j \in 1..Len(chunks)  BY <1>10, <3>1, <3>4
    <3>5. CASE i \notin 1..Len(chunks) /\ j \notin 1..Len(chunks)
      <4>0. \A m \in DOMAIN chunks' : m \notin 1..Len(chunks) => \E a \in 1..k : m = Len(chunks) + a
        BY <1>10
      <4>1. PICK a \in 1..k, b \in 1..k : i = Len(chunks) + a /\ j = Len(chunks) + b  BY <3>5, <4>0
      <4>2. a # b  BY <2>4, <4>1
      <4> QED BY <1>4, <1>10, <4>1, <4>2
    <3> QED BY <3>2, <3>3, <3>4, <3>5
  <2>5. \A i \in DOMAIN chunks' : \A x \in chunks'[i] : x <= lastPk'
    <3>1. \A i \in 1..Len(chunks) : \A x \in chunks'[i] : x <= lastPk'  BY <1>6, <1>11, <2>2
    <3> QED BY <1>10, <2>3, <3>1
  <2>6. (\A x \in Queued : x \in Queued') /\ (\A x \in Sublist : x \in Queued')
    BY <1>1, <1>2, QueuedMore
  <2>7. ASSUME NEW x \in stayed, x <= lastPk' \/ LastQuery PROVE x \in Queued'
    <3>1. x \in Nat /\ x \in items  BY <1>6, <2>1, KeysAssumption
    <3>2. CASE x <= lastPk  BY <2>1, <2>6, <3>2
    <3>3. CASE x > lastPk
      <4>1. x \in After  BY <3>1, <3>3 DEF After
      <4>2. LastQuery => Sublist = After  BY DEF Sublist, After
      <4>3. x \in Sublist  BY <1>2, <1>5, <2>7, <4>1, <4>2
      <4> QED BY <2>6, <4>3
    <3> QED BY <1>6, <3>1, <3>2, <3>3
  <2>8. N' = N /\ N > 0  BY <1>2, <1>9 DEF N
  <2>9. pc' = "query" => \A x \in stayed' : x <= lastPk' => x \in Queued'  BY <1>2, <2>7
  <2>10. pc' = "done" => stayed' \subseteq Queued'  BY <1>2, <2>7
  <2>11. stayed' \subseteq items' /\ NumberOfQueries(total') # 0  BY <1>2, <1>9, <2>1, <2>8 DEF N
  <2> QED BY <2>4, <2>5, <2>9, <2>10, <2>11 DEF ListsInv
<1> QED BY <1>12, <1>15, <1>16, <1>17 DEF Inv

LEMMA EnrollStep == ASSUME Inv, NEW x \in Keys, Enroll(x) PROVE Inv'
<1>1. /\ changes.added < MaxAdded /\ items' = items \cup {x}
      /\ changes' = [changes EXCEPT !.added = @ + 1]
      /\ UNCHANGED <<pc, total, available, query, lastPk, chunks, stayed>>
  BY DEF Enroll
<1>2. TypeOK /\ items \in SUBSET Keys /\ items' \in SUBSET Keys  BY <1>1 DEF Inv, TypeOK
<1>3. changes' \in [added : 0..MaxAdded, removed : 0..MaxRemoved] /\ changes'.removed = changes.removed
  BY <1>1, <1>2, ChangeAssumption DEF TypeOK
<1>4. TypeOK'  BY <1>1, <1>2, <1>3 DEF TypeOK
<1>5. CountInv'  BY <1>1 DEF Inv, CountInv
<1>6. StillThereInv'
  <2>1. IsFiniteSet(items') /\ IsFiniteSet(After') /\ Cardinality(items') \in Nat /\ Cardinality(After') \in Nat
    <3>1. After' \in SUBSET Keys  BY <1>2 DEF After
    <3> QED BY <1>2, <3>1, SomeKeys
  <2>2. Cardinality(items) <= Cardinality(items') /\ Cardinality(items) \in Nat
    BY <1>1, <1>2, <2>1, FS_Subset, SomeKeys
  <2>3. Cardinality(After) <= Cardinality(After') /\ Cardinality(After) \in Nat
    <3>1. After \in SUBSET After' /\ After \in SUBSET Keys  BY <1>1, <1>2 DEF After
    <3> QED BY <2>1, <3>1, FS_Subset, SomeKeys
  <2>4. total \in Nat /\ query * ItemsPerQuery \in Nat  BY <1>2, SizeAssumption DEF TypeOK
  <2> QED BY <1>1, <1>3, <2>1, <2>2, <2>3, <2>4 DEF Inv, StillThereInv
<1>7. ListsInv'  BY <1>1 DEF Inv, ListsInv, Queued
<1> QED BY <1>4, <1>5, <1>6, <1>7 DEF Inv

LEMMA UnenrollStep == ASSUME Inv, NEW x \in Keys, Unenroll(x) PROVE Inv'
<1>1. /\ changes.removed < MaxRemoved /\ items' = items \ {x} /\ stayed' = stayed \ {x}
      /\ changes' = [changes EXCEPT !.removed = @ + 1]
      /\ UNCHANGED <<pc, total, available, query, lastPk, chunks>>
  BY DEF Unenroll
<1>2. changes' \in [added : 0..MaxAdded, removed : 0..MaxRemoved] /\ changes'.removed # 0
  BY <1>1, ChangeAssumption DEF Inv, TypeOK
<1>3. TypeOK'  BY <1>1, <1>2 DEF Inv, TypeOK
<1>4. CountInv' /\ StillThereInv'  BY <1>1, <1>2 DEF Inv, CountInv, StillThereInv
<1>5. ListsInv'  BY <1>1 DEF Inv, ListsInv, Queued
<1> QED BY <1>3, <1>4, <1>5 DEF Inv

LEMMA NextInv == Inv /\ [Next]_vars => Inv'
<1> SUFFICES ASSUME Inv, [Next]_vars PROVE Inv'  OBVIOUS
<1>1. CASE Count \/ FindFirst  BY <1>1, CountStep, FindFirstStep
<1>2. CASE Query \/ QueryFails  BY <1>2, QueryStep, QueryFailsStep
<1>3. CASE \E x \in Keys : Enroll(x) \/ Unenroll(x)  BY <1>3, EnrollStep, UnenrollStep
<1>4. CASE UNCHANGED vars
  BY <1>4 DEF vars, Inv, TypeOK, CountInv, StillThereInv, ListsInv, After, Queued
<1> QED BY <1>1, <1>2, <1>3, <1>4 DEF Next

LEMMA Invariant == Spec => []Inv
BY InitInv, NextInv, PTL DEF Spec

-----------------------------------------------------------------------------
\* The counts, the cursor and the lists are well-formed: in particular no query
\* takes more subtasks than are left, and last_pk is never negative.
THEOREM TypeCorrect == Spec => []TypeOK
<1>1. Inv => TypeOK  BY DEF Inv
<1> QED BY <1>1, Invariant, PTL

\* Whatever comes and goes between the queries, no item is in two lists, and when the
\* queueing ends every item that has been there from the count on is in one.
THEOREM EveryoneQueuedOnce == Spec => []QueuedOnce
<1>1. Inv => QueuedOnce  BY DEF Inv, ListsInv, QueuedOnce
<1> QED BY <1>1, Invariant, PTL

\* There is an id for every list and a subtask for every query, and a list for every
\* id when nobody has left (_get_number_of_subtasks and _generate_items_for_subtask
\* agree).
THEOREM IdsAlwaysFit == Spec => []ChunksFitIds
<1>1. ASSUME Inv PROVE ChunksFitIds
  <2>1. TypeOK /\ CountInv /\ StillThereInv  BY <1>1 DEF Inv
  <2>2. total \in Nat /\ available \in Nat /\ Len(chunks) \in Nat  BY <2>1 DEF TypeOK
  <2>3. NumberOfSubtasks(total) \in Nat  BY <2>2, NumberComputed
  <2>4. pc # "count" => Len(chunks) + available = NumberOfSubtasks(total)  BY <2>1 DEF CountInv
  <2>5. pc = "count" => Len(chunks) = 0  BY <2>1 DEF CountInv
  <2>6. Len(chunks) <= NumberOfSubtasks(total)  BY <2>2, <2>3, <2>4, <2>5
  <2>7. pc = "query" => available > 0  BY <2>1, SomeAvailable
  <2>8. pc = "done" /\ changes.removed = 0 => Len(chunks) = NumberOfSubtasks(total)
    BY <2>1, <2>2, <2>4 DEF StillThereInv
  <2> QED BY <2>6, <2>7, <2>8 DEF ChunksFitIds
<1>2. Inv => ChunksFitIds  BY <1>1
<1> QED BY <1>2, Invariant, PTL
=============================================================================
