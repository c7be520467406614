------------------------ MODULE ShoppingCartProofs ------------------------
(* Theorems about ShoppingCart, for every number of web workers, any       *)
(* courses and prices, and every value of the bounds.                      *)
EXTENDS ShoppingCart, FiniteSetTheorems, WellFoundedInduction, TLAPS

-----------------------------------------------------------------------------
(* Sums over finite sets.                                                    *)

\* A set of natural numbers has a least element.
LEMMA Least ==
  ASSUME NEW S \in SUBSET Nat, S # {}
  PROVE  \E x \in S : \A y \in S : x <= y
<1> DEFINE R == {ss \in Nat \X Nat : ss[1] < ss[2]}
<1>1. R = OpToRel(<, Nat)  BY DEF OpToRel
<1>2. IsWellFoundedOn(R, Nat)  BY <1>1, NatLessThanWellFounded
<1> HIDE DEF R
<1>3. PICK x \in S : \A y \in S : ~(<<y, x>> \in R)  BY <1>2, WFMin
<1>4. \A y \in S : ~(y < x)  BY <1>3 DEF R
<1> QED BY <1>4

\* The first element that a fold takes.
Pick(S) == CHOOSE x \in S : TRUE

\* g is what a sum of f over S comes to, for all subsets of S.
Sums(g, f, S) == g = [s \in SUBSET S |-> IF s = {} THEN 0 ELSE f[Pick(s)] + g[s \ {Pick(s)}]]

Total(f, S) == (CHOOSE g : Sums(g, f, S))[S]

\* The subsets of S with at most k elements.
Small(S, k) == {s \in SUBSET S : Cardinality(s) <= k}

\* Without its first element a set is smaller by one.
LEMMA Smaller ==
  ASSUME NEW S, IsFiniteSet(S), S # {}
  PROVE  /\ Pick(S) \in S /\ IsFiniteSet(S \ {Pick(S)})
         /\ Cardinality(S) \in Nat /\ Cardinality(S) # 0
         /\ Cardinality(S \ {Pick(S)}) = Cardinality(S) - 1
<1>1. Pick(S) \in S  BY DEF Pick
<1> QED BY <1>1, FS_RemoveElement, FS_CardinalityType, FS_EmptySet

\* The subsets of S are summed by size.
LEMMA SumsExist ==
  ASSUME NEW S, IsFiniteSet(S), NEW f
  PROVE  \E g : Sums(g, f, S)
<1> DEFINE IsSum(g, k) ==
             g = [s \in Small(S, k) |-> IF s = {} THEN 0 ELSE f[Pick(s)] + g[s \ {Pick(s)}]]
           Bad == {k \in Nat : ~\E g : IsSum(g, k)}
<1>1. \A s \in SUBSET S : IsFiniteSet(s) /\ Cardinality(s) \in Nat /\ Cardinality(s) <= Cardinality(S)
  BY FS_Subset, FS_CardinalityType
<1>2. \A s \in SUBSET S : s # {} =>
        /\ s \ {Pick(s)} \in SUBSET S /\ Cardinality(s) # 0
        /\ Cardinality(s \ {Pick(s)}) = Cardinality(s) - 1
  BY <1>1, Smaller
<1>3. Bad = {}
  <2> SUFFICES ASSUME Bad # {} PROVE FALSE  OBVIOUS
  <2>1. PICK k \in Bad : \A j \in Bad : k <= j
    <3>1. Bad \in SUBSET Nat  OBVIOUS
    <3> HIDE DEF Bad
    <3> QED BY <3>1, Least
  <2>2. k # 0
    <3>1. ASSUME NEW s \in Small(S, 0) PROVE s = {}
      <4> HIDE DEF IsSum, Bad
      <4>1. s \in SUBSET S /\ Cardinality(s) <= 0  BY DEF Small
      <4>2. Cardinality(s) = 0  BY <1>1, <4>1
      <4> QED BY <1>2, <4>1, <4>2
    <3> DEFINE z == [s \in Small(S, 0) |-> 0]
    <3>2. z = [s \in Small(S, 0) |-> IF s = {} THEN 0 ELSE f[Pick(s)] + z[s \ {Pick(s)}]]
      BY <3>1
    <3>3. IsSum(z, 0)  BY <3>2
    <3> HIDE DEF IsSum, z
    <3> QED BY <3>3
  <2>3. k \in Nat /\ k - 1 \in Nat /\ k - 1 \notin Bad
    <3>1. k \in Nat  OBVIOUS
    <3> HIDE DEF Bad
    <3> QED BY <2>1, <2>2, <3>1
  <2>4. PICK g : IsSum(g, k - 1)
    <3> HIDE DEF IsSum
    <3> QED BY <2>3
  <2> DEFINE More(s, rest) == f[Pick(s)] + rest
             h == [s \in Small(S, k) |-> IF s = {} THEN 0 ELSE More(s, g[s \ {Pick(s)}])]
  <2>5. \A s \in Small(S, k - 1) : g[s] = IF s = {} THEN 0 ELSE More(s, g[s \ {Pick(s)}])
    BY <2>4
  <2> HIDE DEF More
  <2>6. ASSUME NEW s \in Small(S, k), s # {}
        PROVE  h[s \ {Pick(s)}] = g[s \ {Pick(s)}]
    <3> DEFINE t == s \ {Pick(s)}
    <3>1. t \in Small(S, k - 1) /\ t \in Small(S, k)
      <4>1. t \in SUBSET S /\ Cardinality(t) = Cardinality(s) - 1 /\ Cardinality(s) <= k
            /\ Cardinality(s) \in Nat
        BY <1>1, <1>2, <2>6 DEF Small
      <4> HIDE DEF t
      <4>2. Cardinality(t) <= k - 1 /\ Cardinality(t) <= k  BY <2>3, <4>1
      <4> QED BY <4>1, <4>2 DEF Small
    <3> HIDE DEF t
    <3>2. h[t] = IF t = {} THEN 0 ELSE More(t, g[t \ {Pick(t)}])  BY <3>1
    <3>3. h[t] = g[t]  BY <2>5, <3>1, <3>2
    <3> QED BY <3>3 DEF t
  <2>7. \A s \in Small(S, k) : h[s] = IF s = {} THEN 0 ELSE More(s, h[s \ {Pick(s)}])
    BY <2>6
  <2>8. h = [s \in Small(S, k) |-> IF s = {} THEN 0 ELSE More(s, h[s \ {Pick(s)}])]
    BY <2>7
  <2>9. IsSum(h, k)  BY <2>8 DEF More
  <2> HIDE DEF IsSum, h
  <2> QED BY <2>1, <2>9
<1>4. Cardinality(S) \in Nat /\ Small(S, Cardinality(S)) = SUBSET S
  BY <1>1, FS_CardinalityType DEF Small
<1>5. PICK g : IsSum(g, Cardinality(S))
  <2> HIDE DEF IsSum
  <2> QED BY <1>3, <1>4
<1>6. Sums(g, f, S)  BY <1>4, <1>5 DEF Sums
<1> QED BY <1>6

\* Sums agree where the summands do, whatever set they are part of.
LEMMA SumsAgree ==
  ASSUME NEW S, IsFiniteSet(S), NEW f, NEW g, Sums(g, f, S),
         NEW T, IsFiniteSet(T), NEW e, NEW h, Sums(h, e, T),
         NEW s \in SUBSET (S \cap T), \A x \in s : f[x] = e[x]
  PROVE  g[s] = h[s]
<1> DEFINE Differs(t) == t \in SUBSET s /\ g[t] # h[t]
           Bad == {k \in Nat : \E t : Differs(t) /\ Cardinality(t) = k}
<1>1. \A t \in SUBSET s : IsFiniteSet(t) /\ Cardinality(t) \in Nat
  BY FS_Subset, FS_CardinalityType
<1>2. SUFFICES ASSUME Bad # {} PROVE FALSE
  <2>1. g[s] # h[s] => Cardinality(s) \in Bad  BY <1>1
  <2> QED BY <2>1
<1>3. PICK k \in Bad : \A j \in Bad : k <= j
  <2>1. Bad \in SUBSET Nat  OBVIOUS
  <2> HIDE DEF Bad
  <2> QED BY <1>2, <2>1, Least
<1>4. PICK t : Differs(t) /\ Cardinality(t) = k  OBVIOUS
<1> DEFINE x == Pick(t)
           rest == t \ {x}
<1>5. /\ g[t] = IF t = {} THEN 0 ELSE f[x] + g[rest]
      /\ h[t] = IF t = {} THEN 0 ELSE e[x] + h[rest]
  <2>1. t \in SUBSET S /\ t \in SUBSET T  BY <1>4
  <2> QED BY <2>1 DEF Sums
<1>6. t # {} /\ x \in t /\ Cardinality(rest) = k - 1 /\ Cardinality(t) \in Nat /\ Cardinality(t) # 0
  <2>1. t # {}  BY <1>4, <1>5
  <2> QED BY <1>1, <1>4, <2>1, Smaller
<1> HIDE DEF x
<1>7. rest \in SUBSET s /\ f[x] = e[x]  BY <1>4, <1>6
<1>8. g[rest] = h[rest]
  <2>1. k \in Nat /\ k - 1 \in Nat /\ ~(k <= k - 1)  BY <1>4, <1>6
  <2>2. k - 1 \notin Bad
    <3> HIDE DEF Bad
    <3> QED BY <1>3, <2>1
  <2> QED BY <1>6, <1>7, <2>1, <2>2
<1> QED BY <1>4, <1>5, <1>6, <1>7, <1>8

\* A sum is that of the first element and the rest.
LEMMA TotalRest ==
  ASSUME NEW S, IsFiniteSet(S), NEW f
  PROVE  /\ S = {} => Total(f, S) = 0
         /\ S # {} => Total(f, S) = f[Pick(S)] + Total(f, S \ {Pick(S)})
<1> DEFINE T == S \ {Pick(S)}
           g == CHOOSE k : Sums(k, f, S)
           h == CHOOSE k : Sums(k, f, T)
<1>1. IsFiniteSet(T)  BY FS_Subset
<1>2. Sums(g, f, S) /\ Sums(h, f, T)  BY <1>1, SumsExist
<1>3. Total(f, S) = g[S] /\ Total(f, T) = h[T]  BY DEF Total
<1>4. g[S] = IF S = {} THEN 0 ELSE f[Pick(S)] + g[T]
  <2> HIDE DEF g, h
  <2> QED BY <1>2 DEF Sums
<1> HIDE DEF g, h
<1>5. g[T] = h[T]  BY <1>1, <1>2, SumsAgree
<1> QED BY <1>3, <1>4, <1>5

\* A sum of natural numbers is one.
LEMMA TotalNat ==
  ASSUME NEW S, IsFiniteSet(S), NEW f, \A x \in S : f[x] \in Nat
  PROVE  Total(f, S) \in Nat
<1> DEFINE Bad == {k \in Nat : \E t \in SUBSET S : Cardinality(t) = k /\ Total(f, t) \notin Nat}
<1>1. \A t \in SUBSET S : IsFiniteSet(t) /\ Cardinality(t) \in Nat
  BY FS_Subset, FS_CardinalityType
<1>2. SUFFICES ASSUME Bad # {} PROVE FALSE
  <2>1. Total(f, S) \notin Nat => Cardinality(S) \in Bad  BY <1>1
  <2> QED BY <2>1
<1>3. PICK k \in Bad : \A j \in Bad : k <= j
  <2>1. Bad \in SUBSET Nat  OBVIOUS
  <2> HIDE DEF Bad
  <2> QED BY <1>2, <2>1, Least
<1>4. PICK t \in SUBSET S : Cardinality(t) = k /\ Total(f, t) \notin Nat  OBVIOUS
<1> DEFINE x == Pick(t)
           rest == t \ {x}
<1>5. /\ t = {} => Total(f, t) = 0
      /\ t # {} => Total(f, t) = f[x] + Total(f, rest)
  BY <1>1, TotalRest
<1>6. t # {} /\ x \in t /\ Cardinality(rest) = k - 1 /\ k - 1 \in Nat
  <2>1. t # {}  BY <1>4, <1>5
  <2> QED BY <1>1, <1>4, <2>1, Smaller
<1> HIDE DEF x
<1>7. rest \in SUBSET S /\ f[x] \in Nat  BY <1>6
<1>8. Total(f, rest) \in Nat
  <2>1. k - 1 \notin Bad
    <3>1. ~(k <= k - 1)  BY <1>6
    <3> HIDE DEF Bad
    <3> QED BY <1>3, <3>1
  <2> QED BY <1>6, <1>7, <2>1
<1> QED BY <1>4, <1>5, <1>6, <1>7, <1>8

\* A sum may be taken in any order.
LEMMA TotalWithout ==
  ASSUME NEW S, IsFiniteSet(S), NEW f, \A x \in S : f[x] \in Nat, NEW y \in S
  PROVE  Total(f, S) = f[y] + Total(f, S \ {y})
<1> DEFINE Wrong(t) == \E z \in t : Total(f, t) # f[z] + Total(f, t \ {z})
           Bad == {k \in Nat : \E t \in SUBSET S : Cardinality(t) = k /\ Wrong(t)}
<1>1. \A t \in SUBSET S : IsFiniteSet(t) /\ Cardinality(t) \in Nat /\ Total(f, t) \in Nat
  <2> SUFFICES ASSUME NEW t \in SUBSET S
               PROVE  IsFiniteSet(t) /\ Cardinality(t) \in Nat /\ Total(f, t) \in Nat
    OBVIOUS
  <2>1. IsFiniteSet(t) /\ Cardinality(t) \in Nat  BY FS_Subset, FS_CardinalityType
  <2> QED BY <2>1, TotalNat
<1>2. SUFFICES ASSUME Bad # {} PROVE FALSE
  <2>1. Wrong(S) => Cardinality(S) \in Bad
    <3> HIDE DEF Wrong
    <3> QED BY <1>1
  <2> QED BY <2>1
<1>3. PICK k \in Bad : \A j \in Bad : k <= j
  <2>1. Bad \in SUBSET Nat  OBVIOUS
  <2> HIDE DEF Bad
  <2> QED BY <1>2, <2>1, Least
<1>4. PICK t \in SUBSET S : Cardinality(t) = k /\ Wrong(t)
  <2> HIDE DEF Wrong
  <2> QED BY <1>3
<1>5. PICK z \in t : Total(f, t) # f[z] + Total(f, t \ {z})  BY <1>4
<1> DEFINE x == Pick(t)
<1>6. Total(f, t) = f[x] + Total(f, t \ {x}) /\ x \in t  BY <1>1, <1>5, TotalRest, Smaller
<1> HIDE DEF x
<1>7. x # z  BY <1>5, <1>6
<1>8. ASSUME NEW a \in t, NEW b \in t \ {a}
      PROVE  Total(f, t \ {a}) = f[b] + Total(f, (t \ {a}) \ {b})
  <2> DEFINE u == t \ {a}
  <2>1. u \in SUBSET S /\ b \in u  OBVIOUS
  <2>2. Cardinality(u) = k - 1 /\ k - 1 \in Nat /\ ~(k <= k - 1)
    <3>1. IsFiniteSet(t) /\ Cardinality(t) = k /\ t # {} /\ k \in Nat  BY <1>1, <1>4
    <3>2. k # 0  BY <3>1, FS_EmptySet
    <3>3. Cardinality(u) = k - 1  BY <3>1, FS_RemoveElement
    <3> HIDE DEF u
    <3> QED BY <3>1, <3>2, <3>3
  <2>3. k - 1 \notin Bad
    <3> HIDE DEF Bad, u
    <3> QED BY <1>3, <2>2
  <2> HIDE DEF u
  <2>4. ~Wrong(u)
    <3> HIDE DEF Wrong
    <3> QED BY <2>1, <2>2, <2>3
  <2> QED BY <2>1, <2>4 DEF u
<1>9. (t \ {x}) \ {z} = (t \ {z}) \ {x}  OBVIOUS
<1> DEFINE u == (t \ {x}) \ {z}
<1>10. /\ Total(f, t \ {x}) = f[z] + Total(f, u)
       /\ Total(f, t \ {z}) = f[x] + Total(f, u)
  BY <1>5, <1>6, <1>7, <1>8, <1>9
<1>11. u \in SUBSET S /\ f[x] \in Nat /\ f[z] \in Nat  BY <1>5, <1>6
<1> HIDE DEF u
<1>12. Total(f, u) \in Nat  BY <1>1, <1>11
<1> QED BY <1>5, <1>6, <1>10, <1>11, <1>12

\* More is not less.
LEMMA TotalGrows ==
  ASSUME NEW T, IsFiniteSet(T), NEW f, \A x \in T : f[x] \in Nat, NEW S \in SUBSET T
  PROVE  Total(f, S) <= Total(f, T)
<1> DEFINE Less(t) == S \subseteq t /\ ~(Total(f, S) <= Total(f, t))
           Bad == {k \in Nat : \E t \in SUBSET T : Cardinality(t) = k /\ Less(t)}
<1>1. \A t \in SUBSET T : IsFiniteSet(t) /\ Cardinality(t) \in Nat /\ Total(f, t) \in Nat
  <2> SUFFICES ASSUME NEW t \in SUBSET T
               PROVE  IsFiniteSet(t) /\ Cardinality(t) \in Nat /\ Total(f, t) \in Nat
    OBVIOUS
  <2>1. IsFiniteSet(t) /\ Cardinality(t) \in Nat  BY FS_Subset, FS_CardinalityType
  <2> QED BY <2>1, TotalNat
<1>2. SUFFICES ASSUME Bad # {} PROVE FALSE
  <2>1. ~Less(T) => Total(f, S) <= Total(f, T)  OBVIOUS
  <2>2. Less(T) => Cardinality(T) \in Bad
    <3> HIDE DEF Less
    <3> QED BY <1>1
  <2> QED BY <2>1, <2>2
<1>3. PICK k \in Bad : \A j \in Bad : k <= j
  <2>1. Bad \in SUBSET Nat  OBVIOUS
  <2> HIDE DEF Bad
  <2> QED BY <1>2, <2>1, Least
<1>4. PICK t \in SUBSET T : Cardinality(t) = k /\ Less(t)
  <2> HIDE DEF Less
  <2> QED BY <1>3
<1>5. S \subseteq t /\ ~(Total(f, S) <= Total(f, t))  BY <1>4
<1>6. PICK y \in t : y \notin S
  <2>1. Total(f, S) <= Total(f, S)  BY <1>1
  <2> QED BY <1>5, <2>1
<1> DEFINE u == t \ {y}
<1>7. /\ Total(f, t) = f[y] + Total(f, u) /\ u \in SUBSET T /\ S \subseteq u
      /\ f[y] \in Nat
  BY <1>1, <1>5, <1>6, TotalWithout
<1>8. Cardinality(u) = k - 1 /\ k - 1 \in Nat /\ ~(k <= k - 1)
  <2>1. IsFiniteSet(t) /\ Cardinality(t) = k /\ t # {} /\ k \in Nat  BY <1>1, <1>4, <1>6
  <2>2. k # 0  BY <2>1, FS_EmptySet
  <2>3. Cardinality(u) = k - 1  BY <1>6, <2>1, FS_RemoveElement
  <2> HIDE DEF u
  <2> QED BY <2>1, <2>2, <2>3
<1> HIDE DEF u
<1>9. Total(f, S) <= Total(f, u)
  <2>1. k - 1 \notin Bad
    <3> HIDE DEF Bad
    <3> QED BY <1>3, <1>8
  <2>2. ~Less(u)
    <3> HIDE DEF Less
    <3> QED BY <1>7, <1>8, <2>1
  <2> QED BY <1>7, <2>2
<1>10. Total(f, S) \in Nat /\ Total(f, u) \in Nat  BY <1>1, <1>7
<1> QED BY <1>5, <1>7, <1>9, <1>10

\* A sum depends only on what is summed.
LEMMA TotalAgrees ==
  ASSUME NEW S, IsFiniteSet(S), NEW f, NEW e, \A x \in S : f[x] = e[x]
  PROVE  Total(f, S) = Total(e, S)
<1> DEFINE g == CHOOSE k : Sums(k, f, S)
           h == CHOOSE k : Sums(k, e, S)
<1>1. Sums(g, f, S) /\ Sums(h, e, S)  BY SumsExist
<1>2. Total(f, S) = g[S] /\ Total(e, S) = h[S]  BY DEF Total
<1> HIDE DEF g, h
<1>3. g[S] = h[S]  BY <1>1, SumsAgree
<1> QED BY <1>2, <1>3

-----------------------------------------------------------------------------
(* The inductive invariant.                                                  *)

Items == [order : 0..MaxOrders, course : Courses, kind : Kinds,
          status : Statuses \cup {"none", "deleted"}]
Rows  == [active : BOOLEAN, mode : {"honor", "verified"}]

\* What a handler has read, by the kind of its request.
RequestOK(r) ==
  /\ r.op \in {"idle", "add", "create", "clear", "show", "remove", "purchase", "between",
               "enroll", "unenroll"}
  /\ r.op \in {"add", "create", "clear", "show"} => r.order \in 0..MaxOrders
  /\ r.op \in {"add", "create", "enroll", "unenroll"} => r.course \in Courses
  /\ r.op = "show" => r.amount \in Nat
  /\ r.op = "remove" => r.item \in ItemIds
  /\ r.op \in {"create", "clear"} => r.cleared \subseteq ItemIds
  /\ Purchasing(r) => r \in [op : {"purchase", "between"}, order : OrderIds, first : BOOLEAN,
                            rest : SUBSET ItemIds, row : [Courses -> Rows], kept : SUBSET ItemIds]
  /\ r.op = "unenroll" => r.row \in Rows /\ r.refund \in 0..MaxItems

TypeInv ==
  /\ TypeOK
  /\ \A f \in forms : f.order \in OrderIds /\ f.amount \in Nat
  /\ \A p \in charges : p.order \in OrderIds /\ p.amount \in Nat \ {0}
  /\ IsFiniteSet(charges)
  /\ fulfilled \in [ItemIds -> Nat]
  /\ used \in [requests : Nat, posts : Nat, failures : Nat]
  /\ req = [h \in Handlers |-> req[h]]
  /\ \A h \in Handlers : RequestOK(req[h])

\* The posts of the processor are served alone, and so are the requests of the user.
OneKind == \A g, h \in Handlers :
             req[g] # Idle /\ req[h] # Idle => Purchasing(req[g]) = Purchasing(req[h])

\* Whatever is paid or was paid is in an order that was paid; an order that is paid has
\* such an item, and what it has else is still to be purchased, or was to be when a
\* callback failed.
OrderInv ==
  /\ \A i \in ItemIds : items[i].status \in {"purchased", "refunded"} =>
       items[i].order \in OrderIds /\ orders[items[i].order] \in {"purchased", "refunded"}
  /\ \A o \in OrderIds : orders[o] = "purchased" =>
       /\ \E i \in ItemsOf(o) : items[i].status = "purchased"
       /\ used.failures = 0 => \A i \in ItemsOf(o) :
            \/ items[i].status = "purchased"
            \/ \E h \in Handlers : Purchasing(req[h]) /\ req[h].order = o /\ i \in req[h].rest

\* What a request of the user has read is still so, with these orders and items.
UserRead(r, ord, its) ==
  /\ r.op \in {"add", "create", "clear", "show"} /\ r.order # 0 => ord[r.order] = "cart"
  /\ r.op \in {"create", "clear"} => \A i \in r.cleared : its[i].status \in {"cart", "deleted"}
  /\ r.op = "remove" => its[r.item].status \in {"cart", "deleted"}
  /\ r.op = "unenroll" /\ r.refund # 0 => its[r.refund].status \in {"purchased", "refunded"}

\* What a post of the processor has read: the items it has left are there, are all of
\* the order before the first is purchased, and after it the order is purchased.
PostRead(r, ord, its, enr) ==
  /\ \A i \in r.rest : its[i].order = r.order /\ its[i].status \in Statuses
  /\ r.first => \A i \in ItemIds : its[i].order = r.order /\ its[i].status \in Statuses
                                     => i \in r.rest
  /\ ~r.first => ord[r.order] = "purchased"
  /\ r.op = "purchase" => \A c \in Courses : r.row[c].active => enr[c].active

ReadInv == \A h \in Handlers :
             /\ UserRead(req[h], orders, items)
             /\ Purchasing(req[h]) => PostRead(req[h], orders, items, enrollment)

EnrolInv ==
  /\ \A i \in ItemIds : items[i].status = "none" => fulfilled[i] = 0
  /\ \A i \in ItemIds : fulfilled[i] > 0 /\ items[i].course \notin left
                          => enrollment[items[i].course].active

\* What the items cost, and what was charged for each order.
Prices(its)  == [i \in ItemIds |-> IF its[i].kind = "certificate" THEN CertificatePrice[its[i].course]
                                                                 ELSE RegistrationPrice[its[i].course]]
Amounts(chs) == [p \in chs |-> p.amount]
ChargesOf(o) == {p \in charges : p.order = o}

\* All that is in the order o was charged for.
Covered(o) == Total(Prices(items), ItemsOf(o)) <= Total(Amounts(charges), ChargesOf(o))

\* The order o was paid, or is about to be.
Paid(o) == orders[o] \in {"purchased", "refunded"} \/ BeingPurchased(o)

\* An order is covered before its first item is purchased, and nothing is put into it afterwards.
PaidInv ==
  /\ \A i \in ItemIds : fulfilled[i] > 0 => items[i].status \in {"purchased", "refunded"}
  /\ \A o \in OrderIds : Paid(o) => Covered(o)

Quiet == OneKind /\ OrderInv /\ ReadInv /\ EnrolInv /\ PaidInv

Inv == TypeInv /\ (~raced => Quiet)

-----------------------------------------------------------------------------
(* Prices and charges.                                                       *)

\* The sums of the model, which are folds, are totals.
LEMMA SumOfPricesTotal ==
  ASSUME NEW S \in SUBSET ItemIds, IsFiniteSet(S)
  PROVE  SumOfPrices(S) = Total(Prices(items), S)
<1> DEFINE IsFold(g) == g = [s \in SUBSET S |-> IF s = {} THEN 0
                              ELSE Price(CHOOSE x \in s : TRUE) + g[s \ {CHOOSE x \in s : TRUE}]]
           G == CHOOSE g : IsFold(g)
           f == Prices(items)
           h == CHOOSE k : Sums(k, f, S)
<1>1. SumOfPrices(S) = G[S]  BY DEF SumOfPrices, MapThenSumSet, MapThenFoldSet
<1>2. \A s \in SUBSET S : s # {} => Pick(s) = (CHOOSE x \in s : TRUE) /\ f[Pick(s)] = Price(Pick(s))
  <2> SUFFICES ASSUME NEW s \in SUBSET S, s # {} PROVE f[Pick(s)] = Price(Pick(s))
    BY DEF Pick
  <2>1. Pick(s) \in ItemIds  BY DEF Pick
  <2> QED BY <2>1 DEF Prices, Price
<1> HIDE DEF f
<1>3. ASSUME NEW g PROVE IsFold(g) <=> Sums(g, f, S)
  BY <1>2 DEF Sums
<1>4. Sums(h, f, S)  BY SumsExist
<1>5. IsFold(G)
  <2> HIDE DEF IsFold, h
  <2>1. IsFold(h)  BY <1>3, <1>4
  <2> QED BY <2>1
<1>6. Sums(G, f, S)
  <2> HIDE DEF IsFold
  <2> QED BY <1>3, <1>5
<1>7. Total(f, S) = h[S]  BY DEF Total
<1> HIDE DEF G, h
<1>8. G[S] = h[S]  BY <1>4, <1>6, SumsAgree
<1> QED BY <1>1, <1>7, <1>8 DEF f

\* So is what was charged.
LEMMA ChargedTotal ==
  ASSUME NEW o, IsFiniteSet(charges)
  PROVE  Charged(o) = Total(Amounts(charges), ChargesOf(o))
<1> DEFINE S == ChargesOf(o)
           IsFold(g) == g = [s \in SUBSET S |-> IF s = {} THEN 0
              ELSE (CHOOSE x \in s : TRUE).amount + g[s \ {CHOOSE x \in s : TRUE}]]
           G == CHOOSE g : IsFold(g)
           f == Amounts(charges)
           h == CHOOSE k : Sums(k, f, S)
<1>0. IsFiniteSet(S)  BY FS_Subset DEF ChargesOf
<1>1. Charged(o) = G[S]  BY DEF Charged, MapThenSumSet, MapThenFoldSet, ChargesOf
<1>2. \A s \in SUBSET S : s # {} => Pick(s) = (CHOOSE x \in s : TRUE) /\ f[Pick(s)] = Pick(s).amount
  <2> SUFFICES ASSUME NEW s \in SUBSET S, s # {} PROVE f[Pick(s)] = Pick(s).amount
    BY DEF Pick
  <2>1. Pick(s) \in charges  BY DEF Pick, ChargesOf
  <2> QED BY <2>1 DEF Amounts
<1> HIDE DEF f, S
<1>3. ASSUME NEW g PROVE IsFold(g) <=> Sums(g, f, S)
  BY <1>2 DEF Sums
<1>4. Sums(h, f, S)  BY <1>0, SumsExist
<1>5. IsFold(G)
  <2> HIDE DEF IsFold, h
  <2>1. IsFold(h)  BY <1>3, <1>4
  <2> QED BY <2>1
<1>6. Sums(G, f, S)
  <2> HIDE DEF IsFold
  <2> QED BY <1>3, <1>5
<1>7. Total(f, S) = h[S]  BY DEF Total
<1> HIDE DEF G, h
<1>8. G[S] = h[S]  BY <1>0, <1>4, <1>6, SumsAgree
<1> QED BY <1>1, <1>7, <1>8 DEF f, S

\* What an order costs and what was charged for it are natural numbers.
LEMMA PricesNat ==
  ASSUME TypeInv
  PROVE  /\ \A i \in ItemIds : Prices(items)[i] \in Nat
         /\ \A p \in charges : Amounts(charges)[p] \in Nat
         /\ \A S \in SUBSET ItemIds : IsFiniteSet(S) /\ Total(Prices(items), S) \in Nat
         /\ \A S \in SUBSET charges : IsFiniteSet(S) /\ Total(Amounts(charges), S) \in Nat
<1>1. ASSUME NEW i \in ItemIds PROVE Prices(items)[i] \in Nat
  <2>1. items[i].course \in Courses  BY DEF TypeInv, TypeOK
  <2> QED BY <2>1, PriceAssumption DEF Prices
<1>2. \A p \in charges : Amounts(charges)[p] \in Nat  BY DEF TypeInv, Amounts
<1>3. IsFiniteSet(ItemIds) /\ IsFiniteSet(charges)
  <2>1. 1 \in Int /\ MaxItems \in Int  BY BoundAssumption
  <2>2. IsFiniteSet(1..MaxItems)  BY <2>1, FS_Interval
  <2> QED BY <2>2 DEF ItemIds, TypeInv
<1>4. ASSUME NEW S \in SUBSET ItemIds PROVE IsFiniteSet(S) /\ Total(Prices(items), S) \in Nat
  <2>1. IsFiniteSet(S)  BY <1>3, FS_Subset
  <2> QED BY <1>1, <2>1, TotalNat
<1>5. ASSUME NEW S \in SUBSET charges PROVE IsFiniteSet(S) /\ Total(Amounts(charges), S) \in Nat
  <2>1. IsFiniteSet(S)  BY <1>3, FS_Subset
  <2> QED BY <1>2, <2>1, TotalNat
<1> QED BY <1>1, <1>2, <1>4, <1>5

\* What was charged covers an order from which items are at most taken.
LEMMA CoveredStays ==
  ASSUME TypeInv, TypeInv', charges \subseteq charges', NEW o, Covered(o),
         \A i \in ItemsOf(o)' : /\ i \in ItemsOf(o)
                                /\ items'[i].course = items[i].course
                                /\ items'[i].kind = items[i].kind
  PROVE  Covered(o)'
<1> DEFINE f == Prices(items)        e == Prices(items')
           g == Amounts(charges)     h == Amounts(charges')
           I == ItemsOf(o)           J == ItemsOf(o)'
           C == ChargesOf(o)         D == ChargesOf(o)'
<1>1. I \in SUBSET ItemIds /\ J \in SUBSET I /\ J \in SUBSET ItemIds  BY DEF ItemsOf
<1>2. C \in SUBSET charges /\ D \in SUBSET charges' /\ C \in SUBSET D /\ C \in SUBSET charges'
  BY DEF ChargesOf
<1>3. \A i \in J : f[i] = e[i]  BY <1>1 DEF Prices
<1>4. \A p \in C : g[p] = h[p]  BY <1>2 DEF Amounts
<1> HIDE DEF f, e, g, h, I, J, C, D
<1>5. /\ \A i \in ItemIds : f[i] \in Nat
      /\ \A S \in SUBSET ItemIds : IsFiniteSet(S) /\ Total(f, S) \in Nat
      /\ \A S \in SUBSET charges : IsFiniteSet(S) /\ Total(g, S) \in Nat
  BY PricesNat DEF f, g
<1>6. /\ \A p \in charges' : h[p] \in Nat
      /\ \A S \in SUBSET charges' : IsFiniteSet(S) /\ Total(h, S) \in Nat
  <2>1. \A p \in charges' : p.amount \in Nat /\ IsFiniteSet(charges')  BY DEF TypeInv
  <2>2. \A p \in charges' : h[p] \in Nat  BY <2>1 DEF h, Amounts
  <2>3. ASSUME NEW S \in SUBSET charges' PROVE IsFiniteSet(S) /\ Total(h, S) \in Nat
    <3>1. IsFiniteSet(S)  BY <2>1, FS_Subset, FS_EmptySet
    <3> QED BY <2>2, <3>1, TotalNat
  <2> QED BY <2>2, <2>3
<1>7. Total(e, J) = Total(f, J)  BY <1>1, <1>3, <1>5, TotalAgrees
<1>8. Total(f, J) <= Total(f, I)
  <2>1. IsFiniteSet(I) /\ \A i \in I : f[i] \in Nat  BY <1>1, <1>5
  <2> QED BY <1>1, <2>1, TotalGrows
<1>9. Total(f, I) <= Total(g, C)  BY DEF Covered, f, g, I, C
<1>10. Total(g, C) = Total(h, C)  BY <1>2, <1>4, <1>5, TotalAgrees
<1>11. Total(h, C) <= Total(h, D)
  <2>1. IsFiniteSet(D) /\ \A p \in D : h[p] \in Nat  BY <1>2, <1>6
  <2> QED BY <1>2, <2>1, TotalGrows
<1>12. Total(e, J) <= Total(h, D)
  <2>1. /\ Total(f, J) \in Nat /\ Total(f, I) \in Nat
        /\ Total(g, C) \in Nat /\ Total(h, D) \in Nat
    BY <1>1, <1>2, <1>5, <1>6
  <2> QED BY <1>7, <1>8, <1>9, <1>10, <1>11, <2>1
<1> QED BY <1>12 DEF Covered, e, h, J, D

\* The total of what was charged is that of one charge at least.
LEMMA ChargeCovers ==
  ASSUME TypeInv, NEW p \in charges
  PROVE  p.amount <= Total(Amounts(charges), ChargesOf(p.order))
<1> DEFINE f == Amounts(charges)  S == ChargesOf(p.order)
<1>1. S \in SUBSET charges /\ p \in S  BY DEF ChargesOf
<1>2. f[p] = p.amount  BY DEF Amounts
<1> HIDE DEF S, f
<1>3. \A T \in SUBSET charges : IsFiniteSet(T) /\ Total(f, T) \in Nat  BY PricesNat DEF f
<1>4. \A x \in charges : f[x] \in Nat  BY PricesNat DEF f
<1>5. Total(f, S) = f[p] + Total(f, S \ {p})
  <2>1. IsFiniteSet(S) /\ \A x \in S : f[x] \in Nat  BY <1>1, <1>3, <1>4
  <2> QED BY <1>1, <2>1, TotalWithout
<1>6. Total(f, S \ {p}) \in Nat /\ f[p] \in Nat  BY <1>1, <1>3, <1>4
<1> QED BY <1>2, <1>5, <1>6 DEF f, S

\* Orders stay covered by steps that put nothing into an order that is paid.
LEMMA PaidKept ==
  ASSUME TypeInv, TypeInv', PaidInv, charges \subseteq charges',
         \A i \in ItemIds : fulfilled'[i] > 0 => items'[i].status \in {"purchased", "refunded"},
         \A o \in OrderIds : Paid(o)' =>
           /\ Paid(o) \/ Covered(o)
           /\ \A i \in ItemsOf(o)' : /\ i \in ItemsOf(o)
                                   /\ items'[i].course = items[i].course
                                   /\ items'[i].kind = items[i].kind
  PROVE  PaidInv'
<1>1. ASSUME NEW o \in OrderIds, Paid(o)'  PROVE Covered(o)'
  <2>1. Covered(o)  BY <1>1 DEF PaidInv
  <2> QED BY <1>1, <2>1, CoveredStays
<1> QED BY <1>1 DEF PaidInv

-----------------------------------------------------------------------------
(* The newest cart and the first free row.                                   *)

\* Min and Max are ids of the set they are taken of.
LEMMA MinMax ==
  ASSUME NEW n \in Nat, NEW S \in SUBSET (1..n), S # {}
  PROVE  Min(S) \in S /\ Max(S) \in S
<1>1. S \subseteq Nat /\ \A x \in S : x <= n  OBVIOUS
<1>2. Min(S) \in S  BY <1>1, Least DEF Min
<1> DEFINE T == {n - x : x \in S}
<1>3. \A x \in S : n - x \in Nat  BY <1>1
<1>4. T \in SUBSET Nat /\ T # {}  BY <1>3
<1> HIDE DEF T
<1>5. PICK y \in T : \A z \in T : y <= z  BY <1>4, Least
<1>6. PICK x \in S : y = n - x  BY DEF T
<1>7. \A z \in S : n - z \in T  BY DEF T
<1>8. \A z \in S : x >= z  BY <1>1, <1>5, <1>6, <1>7
<1>9. Max(S) \in S  BY <1>8 DEF Max
<1> QED BY <1>2, <1>9

\* The order a request writes to: the cart it has read, or an order that is not there yet.
LEMMA Written ==
  ASSUME NEW o \in 0..MaxOrders, o = 0 => FreeOrders # {}
  PROVE  /\ WrittenOrder(o) \in OrderIds
         /\ o # 0 => WrittenOrder(o) = o
         /\ o = 0 => orders[WrittenOrder(o)] = "none"
<1>1. CASE o = 0
  <2>1. FreeOrders \in SUBSET (1..MaxOrders) /\ FreeOrders # {}
    BY <1>1 DEF FreeOrders, OrderIds
  <2>2. Min(FreeOrders) \in FreeOrders  BY <2>1, MinMax, BoundAssumption
  <2> QED BY <1>1, <2>2 DEF WrittenOrder, FreeOrders
<1>2. CASE o # 0  BY <1>2, BoundAssumption DEF WrittenOrder, OrderIds
<1> QED BY <1>1, <1>2

LEMMA FirstFree ==
  ASSUME FreeItems # {}
  PROVE  Min(FreeItems) \in ItemIds /\ items[Min(FreeItems)].status = "none"
<1>1. FreeItems \in SUBSET (1..MaxItems)  BY DEF FreeItems, ItemIds
<1>2. Min(FreeItems) \in FreeItems  BY <1>1, MinMax, BoundAssumption
<1> QED BY <1>2 DEF FreeItems

LEMMA NewestCart ==
  /\ CartForUser \in 0..MaxOrders
  /\ CartForUser # 0 => CartForUser \in OrderIds /\ orders[CartForUser] = "cart"
<1>1. CASE Carts = {}  BY <1>1, BoundAssumption DEF CartForUser
<1>2. CASE Carts # {}
  <2>1. Carts \in SUBSET (1..MaxOrders)  BY DEF Carts, OrderIds
  <2>2. Max(Carts) \in Carts  BY <1>2, <2>1, MinMax, BoundAssumption
  <2>3. CartForUser \in OrderIds /\ orders[CartForUser] = "cart"
    BY <1>2, <2>2 DEF CartForUser, Carts
  <2> QED BY <2>3, BoundAssumption DEF OrderIds
<1> QED BY <1>1, <1>2

-----------------------------------------------------------------------------
(* Beginning and ending a request.                                           *)

LEMMA IdleFacts ==
  /\ Idle.op = "idle" /\ ~Purchasing(Idle) /\ RequestOK(Idle)
  /\ \A ord, its : UserRead(Idle, ord, its)
BY DEF Idle, Purchasing, RequestOK, UserRead

\* Giving a handler something to serve changes no other handler.
LEMMA ReqUpdate ==
  ASSUME TypeInv, NEW h \in Handlers, NEW x, req' = [req EXCEPT ![h] = x]
  PROVE  /\ req' = [g \in Handlers |-> req'[g]]
         /\ req'[h] = x
         /\ \A g \in Handlers \ {h} : req'[g] = req[g]
BY DEF TypeInv

\* A request begins with what it has read.
LEMMA BeginStep ==
  ASSUME Inv, NEW h \in Handlers, NEW r, Begin(h, r), used'.failures = used.failures,
         used' \in [requests : Nat, posts : Nat, failures : Nat],
         r.op # "idle", RequestOK(r), 
         ~raced => /\ UserRead(r, orders, items)
                   /\ Purchasing(r) => /\ PostRead(r, orders, items, enrollment)
                                       /\ Covered(r.order)
  PROVE  Inv'
<1>1. TypeInv  BY DEF Inv
<1>2. /\ UNCHANGED <<orders, items, enrollment, offered, forms, charges, fulfilled, left>>
      /\ raced' = (raced \/ Overlapping(h, r)) /\ req' = [req EXCEPT ![h] = r] /\ req[h] = Idle
  BY DEF Begin
<1>3. /\ req' = [g \in Handlers |-> req'[g]] /\ req'[h] = r
      /\ \A g \in Handlers \ {h} : req'[g] = req[g]
  BY <1>1, <1>2, ReqUpdate
<1>4. TypeInv'
  <2>1. TypeOK'  BY <1>1, <1>2 DEF TypeInv, TypeOK
  <2>2. \A g \in Handlers : RequestOK(req'[g])
    BY <1>1, <1>3 DEF TypeInv
  <2> QED BY <1>1, <1>2, <1>3, <2>1, <2>2 DEF TypeInv
<1>5. ASSUME ~raced'  PROVE Quiet'
  <2>1. ~raced /\ ~Overlapping(h, r)  BY <1>2, <1>5
  <2>2. OneKind /\ OrderInv /\ ReadInv /\ EnrolInv /\ PaidInv  BY <2>1 DEF Inv, Quiet
  <2>3. OneKind'
    <3>1. ASSUME NEW g \in Handlers, req'[g] # Idle
          PROVE  Purchasing(req'[g]) = Purchasing(r)
      BY <1>3, <2>1, <3>1 DEF Overlapping
    <3> QED BY <3>1 DEF OneKind
  <2>4. OrderInv'
    <3>1. \A o : ItemsOf(o)' = ItemsOf(o)  BY <1>2 DEF ItemsOf
    <3>2. ASSUME NEW o \in OrderIds, orders[o] = "purchased", used.failures = 0,
                 NEW i \in ItemsOf(o), items[i].status # "purchased"
          PROVE  \E g \in Handlers : Purchasing(req'[g]) /\ req'[g].order = o /\ i \in req'[g].rest
      <4>1. PICK g \in Handlers : Purchasing(req[g]) /\ req[g].order = o /\ i \in req[g].rest
        BY <2>2, <3>2 DEF OrderInv
      <4>2. g # h  BY <1>2, <4>1, IdleFacts
      <4> QED BY <1>3, <4>1, <4>2
    <3> QED BY <1>2, <2>2, <3>1, <3>2 DEF OrderInv
  <2>5. ReadInv'
    <3>1. ASSUME NEW g \in Handlers
          PROVE  /\ UserRead(req'[g], orders, items)
                 /\ Purchasing(req'[g]) => PostRead(req'[g], orders, items, enrollment)
      BY <1>3, <2>1, <2>2 DEF ReadInv
    <3> QED BY <1>2, <3>1 DEF ReadInv
  <2>6. EnrolInv'  BY <1>2, <2>2 DEF EnrolInv
  <2>7. PaidInv'
    <3>1. ASSUME NEW o \in OrderIds, Paid(o)'  PROVE Paid(o) \/ Covered(o)
      <4>1. CASE orders[o] \in {"purchased", "refunded"}  BY <4>1 DEF Paid
      <4>2. CASE orders[o] \notin {"purchased", "refunded"}
        <5>1. PICK g \in Handlers : Purchasing(req'[g]) /\ req'[g].order = o
          BY <1>2, <3>1, <4>2 DEF Paid, BeingPurchased
        <5>2. CASE g = h  BY <1>3, <2>1, <5>1, <5>2
        <5>3. CASE g # h  BY <1>3, <5>1, <5>3 DEF Paid, BeingPurchased
        <5> QED BY <5>2, <5>3
      <4> QED BY <4>1, <4>2
    <3>2. \A o : ItemsOf(o)' = ItemsOf(o)  BY <1>2 DEF ItemsOf
    <3>3. \A i \in ItemIds : fulfilled'[i] > 0 => items'[i].status \in {"purchased", "refunded"}
      BY <1>2, <2>2 DEF PaidInv
    <3> QED BY <1>1, <1>2, <1>4, <2>2, <3>1, <3>2, <3>3, PaidKept
  <2> QED BY <2>3, <2>4, <2>5, <2>6, <2>7 DEF Quiet
<1> QED BY <1>4, <1>5 DEF Inv

\* What a request of the user may do to the item i and its order.
ItemStep(i) ==
  \/ items'[i] = items[i]
  \/ items[i].status = "none" /\ items'[i].status = "cart" /\ orders'[items'[i].order] = "cart"
  \/ /\ items[i].status \in {"cart", "deleted"} /\ items'[i].status = "deleted"
     /\ items'[i].course = items[i].course
  \/ /\ items[i].status \in {"purchased", "refunded"} /\ items'[i].status = "refunded"
     /\ items'[i].order = items[i].order /\ items'[i].course = items[i].course
     /\ items'[i].kind = items[i].kind
     /\ orders'[items[i].order] = "refunded"

OrderStep(o) ==
  \/ orders'[o] = orders[o]
  \/ orders[o] = "none" /\ orders'[o] = "cart"
  \/ orders[o] \in {"purchased", "refunded"} /\ orders'[o] = "refunded"

\* A request of the user ends: it leaves alone what was paid, but for refunding it.
LEMMA UserEnd ==
  ASSUME Inv, TypeInv', NEW h \in Handlers, req[h].op # "idle", ~Purchasing(req[h]),
         req' = [req EXCEPT ![h] = Idle], UNCHANGED <<charges, raced, fulfilled, used>>,
         ~raced => /\ \A i \in ItemIds : ItemStep(i)
                   /\ \A o \in OrderIds : OrderStep(o)
                   /\ \A c \in Courses \ left' :
                        c \notin left /\ (enrollment[c].active => enrollment'[c].active)
  PROVE  Inv'
<1>1. TypeInv  BY DEF Inv
<1>2. req'[h] = Idle /\ \A g \in Handlers \ {h} : req'[g] = req[g]  BY <1>1, ReqUpdate
<1>3. SUFFICES ASSUME ~raced  PROVE Quiet'
  BY DEF Inv
<1>4. OneKind /\ OrderInv /\ ReadInv /\ EnrolInv /\ PaidInv  BY <1>3 DEF Inv, Quiet
<1>5. /\ \A i \in ItemIds : ItemStep(i)
      /\ \A o \in OrderIds : OrderStep(o)
      /\ \A c \in Courses \ left' :
           c \notin left /\ (enrollment[c].active => enrollment'[c].active)
  BY <1>3
<1>6. \A g \in Handlers : ~Purchasing(req[g])
  <2>1. req[h] # Idle  BY IdleFacts
  <2> QED BY <1>4, <2>1, IdleFacts DEF OneKind
<1>7. \A i \in ItemIds : items[i].course \in Courses /\ items'[i].course \in Courses
  BY <1>1 DEF TypeInv, TypeOK
<1>8. OneKind'  BY <1>2, <1>4 DEF OneKind
<1>9. OrderInv'
  <2>1. ASSUME NEW i \in ItemIds, items'[i].status \in {"purchased", "refunded"}
        PROVE  /\ items'[i].order \in OrderIds
               /\ orders'[items'[i].order] \in {"purchased", "refunded"}
    <3>1. items[i].status \in {"purchased", "refunded"} /\ items'[i].order = items[i].order
      BY <1>5, <2>1 DEF ItemStep
    <3>2. items[i].order \in OrderIds /\ orders[items[i].order] \in {"purchased", "refunded"}
      BY <1>4, <3>1 DEF OrderInv
    <3> QED BY <1>5, <3>1, <3>2 DEF OrderStep
  <2>2. ASSUME NEW o \in OrderIds, orders'[o] = "purchased"
        PROVE  /\ orders[o] = "purchased"
               /\ \A i \in ItemIds : items'[i].order = o /\ items'[i].status \notin {"none", "deleted"}
                    => items'[i] = items[i]
               /\ \A i \in ItemIds : items[i].order = o /\ items[i].status = "purchased"
                    => items'[i] = items[i]
    BY <1>5, <2>2 DEF ItemStep, OrderStep
  <2>3. ASSUME NEW o \in OrderIds, orders'[o] = "purchased"
        PROVE  /\ \E i \in ItemsOf(o)' : items'[i].status = "purchased"
               /\ used.failures = 0 => \A i \in ItemsOf(o)' : items'[i].status = "purchased"
    <3>1. PICK i \in ItemsOf(o) : items[i].status = "purchased"  BY <1>4, <2>2, <2>3 DEF OrderInv
    <3>2. i \in ItemsOf(o)' /\ items'[i].status = "purchased"  BY <2>2, <2>3, <3>1 DEF ItemsOf
    <3>3. used.failures = 0 => \A j \in ItemsOf(o) : items[j].status = "purchased"
      BY <1>4, <1>6, <2>2, <2>3 DEF OrderInv
    <3>4. \A j \in ItemsOf(o)' : j \in ItemsOf(o) /\ items'[j] = items[j]
      BY <2>2, <2>3 DEF ItemsOf
    <3> QED BY <3>2, <3>3, <3>4
  <2> QED BY <2>1, <2>3 DEF OrderInv
<1>10. ReadInv'
  <2> SUFFICES ASSUME NEW g \in Handlers, g # h
               PROVE  UserRead(req[g], orders', items') /\ ~Purchasing(req[g])
    BY <1>2, IdleFacts DEF ReadInv
  <2>1. UserRead(req[g], orders, items) /\ RequestOK(req[g])
    BY <1>1, <1>4 DEF ReadInv, TypeInv
  <2>2. req[g].op \in {"add", "create", "clear", "show"} /\ req[g].order # 0
          => orders'[req[g].order] = "cart"
    <3>1. SUFFICES ASSUME req[g].op \in {"add", "create", "clear", "show"}, req[g].order # 0
                   PROVE  orders'[req[g].order] = "cart"
      OBVIOUS
    <3>2. req[g].order \in OrderIds /\ orders[req[g].order] = "cart"
      BY <2>1, <3>1, BoundAssumption DEF RequestOK, UserRead, OrderIds
    <3> QED BY <1>5, <3>2 DEF OrderStep
  <2>3. \A i \in ItemIds : items[i].status \in {"cart", "deleted"}
                             => items'[i].status \in {"cart", "deleted"}
    BY <1>5 DEF ItemStep
  <2>4. \A i \in ItemIds : items[i].status \in {"purchased", "refunded"}
                             => items'[i].status \in {"purchased", "refunded"}
    BY <1>5 DEF ItemStep
  <2>5. req[g].op = "unenroll" /\ req[g].refund # 0 => req[g].refund \in ItemIds
    BY <2>1, BoundAssumption DEF RequestOK, ItemIds
  <2> QED BY <1>6, <2>1, <2>2, <2>3, <2>4, <2>5 DEF UserRead, RequestOK
<1>11. EnrolInv'
  <2>1. \A i \in ItemIds : items'[i].status = "none" => items[i].status = "none"
    BY <1>5 DEF ItemStep
  <2>2. ASSUME NEW i \in ItemIds, fulfilled[i] > 0, items'[i].course \notin left'
        PROVE  enrollment'[items'[i].course].active
    <3>1. fulfilled[i] \in Nat  BY <1>1 DEF TypeInv
    <3>2. items[i].status # "none"  BY <1>4, <2>2, <3>1 DEF EnrolInv
    <3>3. items'[i].course = items[i].course  BY <1>5, <3>2 DEF ItemStep
    <3> QED BY <1>4, <1>5, <1>7, <2>2, <3>3 DEF EnrolInv
  <2> QED BY <1>4, <2>1, <2>2 DEF EnrolInv
<1>12. PaidInv'
  <2>1. ASSUME NEW i \in ItemIds, fulfilled'[i] > 0
        PROVE  items'[i].status \in {"purchased", "refunded"}
    <3>1. items[i].status \in {"purchased", "refunded"}  BY <1>4, <2>1 DEF PaidInv
    <3> QED BY <1>5, <3>1 DEF ItemStep
  <2>2. ASSUME NEW o \in OrderIds, Paid(o)'
        PROVE  /\ Paid(o)
               /\ \A i \in ItemsOf(o)' : /\ i \in ItemsOf(o)
                                       /\ items'[i].course = items[i].course
                                       /\ items'[i].kind = items[i].kind
    <3>1. \A g \in Handlers : ~Purchasing(req'[g])  BY <1>2, <1>6, IdleFacts
    <3>2. orders'[o] \in {"purchased", "refunded"}  BY <2>2, <3>1 DEF Paid, BeingPurchased
    <3>3. Paid(o)  BY <1>5, <3>2 DEF OrderStep, Paid
    <3>4. ASSUME NEW i \in ItemIds, items'[i].order = o, items'[i].status \notin {"none", "deleted"}
          PROVE  /\ items[i].order = o /\ items[i].status \notin {"none", "deleted"}
                 /\ items'[i].course = items[i].course /\ items'[i].kind = items[i].kind
      BY <1>5, <3>2, <3>4 DEF ItemStep
    <3> QED BY <3>3, <3>4 DEF ItemsOf
  <2> QED BY <1>1, <1>4, <2>1, <2>2, PaidKept
<1> QED BY <1>8, <1>9, <1>10, <1>11, <1>12 DEF Quiet

\* Types when a request of the user ends.
LEMMA UserTypes ==
  ASSUME TypeInv, NEW h \in Handlers, End(h), UNCHANGED fulfilled,
         orders' \in [OrderIds -> Statuses \cup {"none"}], items' \in [ItemIds -> Items],
         enrollment' \in [Courses -> Rows], left' \subseteq Courses,
         \A f \in forms' : f \in forms \/ (f.order \in OrderIds /\ f.amount \in Nat)
  PROVE  TypeInv' /\ req' = [req EXCEPT ![h] = Idle] /\ UNCHANGED <<charges, raced, fulfilled, used>>
<1>1. UNCHANGED <<offered, charges, raced, used>> /\ req' = [req EXCEPT ![h] = Idle]  BY DEF End
<1>2. /\ req' = [g \in Handlers |-> req'[g]] /\ req'[h] = Idle
      /\ \A g \in Handlers \ {h} : req'[g] = req[g]
  BY <1>1, ReqUpdate
<1>3. TypeOK'  BY <1>1 DEF TypeInv, TypeOK, Items, Rows
<1>4. \A g \in Handlers : RequestOK(req'[g])  BY <1>2, IdleFacts DEF TypeInv
<1>5. \A f \in forms' : f.order \in OrderIds /\ f.amount \in Nat  BY DEF TypeInv
<1> QED BY <1>1, <1>2, <1>3, <1>4, <1>5 DEF TypeInv

-----------------------------------------------------------------------------
(* The requests of the user.                                                 *)

LEMMA TypeFacts ==
  ASSUME TypeInv
  PROVE  /\ orders \in [OrderIds -> Statuses \cup {"none"}]
         /\ items \in [ItemIds -> Items]
         /\ enrollment \in [Courses -> Rows]
         /\ left \subseteq Courses
         /\ \A h \in Handlers : RequestOK(req[h])
BY DEF TypeInv, TypeOK, Items, Rows

\* What a handler has read, as long as nothing raced.
LEMMA QuietRead ==
  ASSUME Inv, NEW h \in Handlers, ~raced
  PROVE  UserRead(req[h], orders, items)
BY DEF Inv, Quiet, ReadInv

\* A request makes the cart it needs, or finds it as it was.
LEMMA CartStep ==
  ASSUME Inv, NEW h \in Handlers, req[h].op \in {"add", "create", "clear", "show"},
         req[h].order = 0 => FreeOrders # {},
         \/ orders' = [orders EXCEPT ![WrittenOrder(req[h].order)] = "cart"]
         \/ req[h].order # 0 /\ orders' = orders
  PROVE  /\ WrittenOrder(req[h].order) \in OrderIds
         /\ orders' \in [OrderIds -> Statuses \cup {"none"}]
         /\ ~raced => \A o \in OrderIds : OrderStep(o)
<1> DEFINE o == WrittenOrder(req[h].order)
<1>1. TypeInv  BY DEF Inv
<1>2. orders \in [OrderIds -> Statuses \cup {"none"}] /\ req[h].order \in 0..MaxOrders
  BY <1>1, TypeFacts DEF RequestOK
<1>3. /\ o \in OrderIds /\ (req[h].order # 0 => o = req[h].order)
      /\ req[h].order = 0 => orders[o] = "none"
  BY <1>2, Written
<1>4. ~raced /\ req[h].order # 0 => orders[req[h].order] = "cart"
  BY QuietRead DEF UserRead
<1>5. ~raced => orders[o] \in {"none", "cart"}  BY <1>3, <1>4
<1> HIDE DEF o
<1>6. CASE orders' = [orders EXCEPT ![o] = "cart"]
  BY <1>2, <1>3, <1>5, <1>6 DEF OrderStep, Statuses, o
<1>7. CASE req[h].order # 0 /\ orders' = orders
  BY <1>2, <1>3, <1>7 DEF OrderStep, o
<1> QED BY <1>6, <1>7 DEF o

\* Items that were read as unpaid are deleted.
LEMMA Deleting ==
  ASSUME TypeInv, NEW i \in ItemIds, items'[i] = [items[i] EXCEPT !.status = "deleted"]
  PROVE  /\ items'[i] \in Items
         /\ items[i].status \in {"cart", "deleted"} => ItemStep(i)
<1>1. items[i] \in Items  BY TypeFacts
<1>2. items'[i] \in Items /\ items'[i].status = "deleted" /\ items'[i].course = items[i].course
  BY <1>1 DEF Items
<1> QED BY <1>2 DEF ItemStep

LEMMA AddCourseStep ==
  ASSUME Inv, NEW h \in Handlers, AddCourse(h)
  PROVE  Inv'
<1> DEFINE r == req[h]
           o == WrittenOrder(r.order)
           i == Min(FreeItems)
           new == [order |-> o, course |-> r.course, kind |-> "registration", status |-> "cart"]
<1>1. TypeInv  BY DEF Inv
<1>2. /\ r.op = "add" /\ FreeItems # {} /\ (r.order = 0 => FreeOrders # {})
      /\ orders' = [orders EXCEPT ![o] = "cart"] /\ items' = [items EXCEPT ![i] = new]
      /\ UNCHANGED <<enrollment, forms, fulfilled, left>> /\ End(h)
  BY DEF AddCourse
<1>3. RequestOK(r) /\ items \in [ItemIds -> Items] /\ enrollment \in [Courses -> Rows]
      /\ left \subseteq Courses /\ orders \in [OrderIds -> Statuses \cup {"none"}]
  BY <1>1, TypeFacts
<1>4. i \in ItemIds /\ items[i].status = "none"  BY <1>2, FirstFree
<1>5. /\ o \in OrderIds /\ orders' \in [OrderIds -> Statuses \cup {"none"}]
      /\ ~raced => \A x \in OrderIds : OrderStep(x)
  BY <1>2, CartStep
<1>6. o \in 0..MaxOrders /\ r.course \in Courses  BY <1>2, <1>3, <1>5 DEF OrderIds, RequestOK
<1>7. new \in Items /\ new.order = o /\ new.status = "cart"  BY <1>6 DEF Items, Kinds, Statuses
<1> HIDE DEF o, i, new
<1>8. items' \in [ItemIds -> Items] /\ items'[i] = new
      /\ \A j \in ItemIds \ {i} : items'[j] = items[j]
  BY <1>2, <1>3, <1>4, <1>7
<1>9. orders'[o] = "cart"  BY <1>2, <1>3, <1>5
<1>10. \A j \in ItemIds : ItemStep(j)  BY <1>4, <1>7, <1>8, <1>9 DEF ItemStep
<1>11. TypeInv' /\ req' = [req EXCEPT ![h] = Idle] /\ UNCHANGED <<charges, raced, fulfilled, used>>
  BY <1>1, <1>2, <1>3, <1>5, <1>8, UserTypes
<1>12. req[h].op # "idle" /\ ~Purchasing(req[h])  BY <1>2 DEF Purchasing
<1> QED BY <1>2, <1>5, <1>10, <1>11, <1>12, UserEnd

LEMMA CreateOrderStep ==
  ASSUME Inv, NEW h \in Handlers, CreateOrder(h)
  PROVE  Inv'
<1> DEFINE r == req[h]
           o == WrittenOrder(r.order)
           n == Min(FreeItems)
           new == [order |-> o, course |-> r.course, kind |-> "certificate", status |-> "cart"]
           amount == CertificatePrice[r.course]
                       + SumOfPrices({i \in ItemsOf(o) \ r.cleared : items[i].status = "cart"})
<1>1. TypeInv  BY DEF Inv
<1>2. /\ r.op = "create" /\ FreeItems # {} /\ (r.order = 0 => FreeOrders # {})
      /\ orders' = [orders EXCEPT ![o] = "cart"]
      /\ items' = [i \in ItemIds |->
                     IF i = n THEN new
                     ELSE IF i \in r.cleared THEN [items[i] EXCEPT !.status = "deleted"]
                     ELSE items[i]]
      /\ forms' = forms \cup {[order |-> o, amount |-> amount]}
      /\ UNCHANGED <<enrollment, fulfilled, left>> /\ End(h)
  BY DEF CreateOrder
<1>3. RequestOK(r) /\ items \in [ItemIds -> Items] /\ enrollment \in [Courses -> Rows]
      /\ left \subseteq Courses /\ orders \in [OrderIds -> Statuses \cup {"none"}]
  BY <1>1, TypeFacts
<1>4. n \in ItemIds /\ items[n].status = "none"  BY <1>2, FirstFree
<1>5. /\ o \in OrderIds /\ orders' \in [OrderIds -> Statuses \cup {"none"}]
      /\ ~raced => \A x \in OrderIds : OrderStep(x)
  BY <1>2, CartStep
<1>6. o \in 0..MaxOrders /\ r.course \in Courses  BY <1>2, <1>3, <1>5 DEF OrderIds, RequestOK
<1>7. new \in Items /\ new.order = o /\ new.status = "cart"  BY <1>6 DEF Items, Kinds, Statuses
<1>8. \A f \in forms' : f \in forms \/ (f.order \in OrderIds /\ f.amount \in Nat)
  <2> DEFINE S == {i \in ItemsOf(o) \ r.cleared : items[i].status = "cart"}
  <2>1. S \in SUBSET ItemIds  BY DEF ItemsOf
  <2> HIDE DEF S
  <2>2. SumOfPrices(S) \in Nat  BY <1>1, <2>1, PricesNat, SumOfPricesTotal
  <2>3. amount \in Nat  BY <1>6, <2>2, PriceAssumption DEF S
  <2> HIDE DEF amount
  <2> QED BY <1>2, <1>5, <2>3
<1> HIDE DEF o, n, new, amount
<1>9. /\ items'[n] = new
      /\ \A i \in ItemIds \ {n} : IF i \in r.cleared
           THEN items'[i] = [items[i] EXCEPT !.status = "deleted"] ELSE items'[i] = items[i]
  BY <1>2, <1>4
<1>10. \A i \in ItemIds : items'[i] \in Items  BY <1>1, <1>3, <1>7, <1>9, Deleting
<1>11. items' \in [ItemIds -> Items]  BY <1>2, <1>10
<1>12. orders'[o] = "cart"  BY <1>2, <1>3, <1>5
<1>13. ASSUME ~raced, NEW i \in ItemIds  PROVE ItemStep(i)
  <2>1. i \in r.cleared => items[i].status \in {"cart", "deleted"}
    BY <1>2, <1>13, QuietRead DEF UserRead
  <2>2. CASE i = n  BY <1>4, <1>7, <1>9, <1>12, <2>2 DEF ItemStep
  <2>3. CASE i # n /\ i \in r.cleared  BY <1>1, <1>9, <2>1, <2>3, Deleting
  <2>4. CASE i # n /\ i \notin r.cleared  BY <1>9, <2>4 DEF ItemStep
  <2> QED BY <2>2, <2>3, <2>4
<1>14. TypeInv' /\ req' = [req EXCEPT ![h] = Idle] /\ UNCHANGED <<charges, raced, fulfilled, used>>
  BY <1>1, <1>2, <1>3, <1>5, <1>8, <1>11, UserTypes
<1>15. req[h].op # "idle" /\ ~Purchasing(req[h])  BY <1>2 DEF Purchasing
<1> QED BY <1>2, <1>5, <1>13, <1>14, <1>15, UserEnd

LEMMA ClearCartStep ==
  ASSUME Inv, NEW h \in Handlers, ClearCart(h)
  PROVE  Inv'
<1> DEFINE r == req[h]
<1>1. TypeInv  BY DEF Inv
<1>2. /\ r.op = "clear" /\ (r.order = 0 => FreeOrders # {})
      /\ \/ orders' = [orders EXCEPT ![WrittenOrder(r.order)] = "cart"]
         \/ r.order # 0 /\ orders' = orders
      /\ items' = [i \in ItemIds |-> IF i \in r.cleared
                                       THEN [items[i] EXCEPT !.status = "deleted"] ELSE items[i]]
      /\ UNCHANGED <<enrollment, forms, fulfilled, left>> /\ End(h)
  BY DEF ClearCart
<1>3. items \in [ItemIds -> Items] /\ enrollment \in [Courses -> Rows] /\ left \subseteq Courses
  BY <1>1, TypeFacts
<1>4. /\ orders' \in [OrderIds -> Statuses \cup {"none"}]
      /\ ~raced => \A x \in OrderIds : OrderStep(x)
  BY <1>2, CartStep
<1>5. \A i \in ItemIds : IF i \in r.cleared
        THEN items'[i] = [items[i] EXCEPT !.status = "deleted"] ELSE items'[i] = items[i]
  BY <1>2
<1>6. \A i \in ItemIds : items'[i] \in Items  BY <1>1, <1>3, <1>5, Deleting
<1>7. items' \in [ItemIds -> Items]  BY <1>2, <1>6
<1>8. ASSUME ~raced, NEW i \in ItemIds  PROVE ItemStep(i)
  <2>1. i \in r.cleared => items[i].status \in {"cart", "deleted"}
    BY <1>2, <1>8, QuietRead DEF UserRead
  <2>2. CASE i \in r.cleared  BY <1>1, <1>5, <2>1, <2>2, Deleting
  <2>3. CASE i \notin r.cleared  BY <1>5, <2>3 DEF ItemStep
  <2> QED BY <2>2, <2>3
<1>9. TypeInv' /\ req' = [req EXCEPT ![h] = Idle] /\ UNCHANGED <<charges, raced, fulfilled, used>>
  BY <1>1, <1>2, <1>3, <1>4, <1>7, UserTypes
<1>10. req[h].op # "idle" /\ ~Purchasing(req[h])  BY <1>2 DEF Purchasing
<1> QED BY <1>2, <1>4, <1>8, <1>9, <1>10, UserEnd

LEMMA ShowCartStep ==
  ASSUME Inv, NEW h \in Handlers, ShowCart(h)
  PROVE  Inv'
<1> DEFINE r == req[h]
           o == WrittenOrder(r.order)
<1>1. TypeInv  BY DEF Inv
<1>2. /\ r.op = "show" /\ (r.order = 0 => FreeOrders # {})
      /\ \/ orders' = [orders EXCEPT ![o] = "cart"]
         \/ r.order # 0 /\ orders' = orders
      /\ forms' = forms \cup {[order |-> o, amount |-> r.amount]}
      /\ UNCHANGED <<items, enrollment, fulfilled, left>> /\ End(h)
  BY DEF ShowCart
<1>3. items \in [ItemIds -> Items] /\ enrollment \in [Courses -> Rows] /\ left \subseteq Courses
  BY <1>1, TypeFacts
<1>4. /\ o \in OrderIds /\ orders' \in [OrderIds -> Statuses \cup {"none"}]
      /\ ~raced => \A x \in OrderIds : OrderStep(x)
  BY <1>2, CartStep
<1>5. \A f \in forms' : f \in forms \/ (f.order \in OrderIds /\ f.amount \in Nat)
  <2>1. r.amount \in Nat  BY <1>1, <1>2, TypeFacts DEF RequestOK
  <2> QED BY <1>2, <1>4, <2>1
<1>6. \A i \in ItemIds : ItemStep(i)  BY <1>2 DEF ItemStep
<1>7. TypeInv' /\ req' = [req EXCEPT ![h] = Idle] /\ UNCHANGED <<charges, raced, fulfilled, used>>
  BY <1>1, <1>2, <1>3, <1>4, <1>5, UserTypes
<1>8. req[h].op # "idle" /\ ~Purchasing(req[h])  BY <1>2 DEF Purchasing
<1> QED BY <1>2, <1>4, <1>6, <1>7, <1>8, UserEnd

LEMMA RemoveItemStep ==
  ASSUME Inv, NEW h \in Handlers, RemoveItem(h)
  PROVE  Inv'
<1> DEFINE k == req[h].item
<1>1. TypeInv  BY DEF Inv
<1>2. /\ req[h].op = "remove" /\ items' = [items EXCEPT ![k].status = "deleted"]
      /\ UNCHANGED <<orders, enrollment, forms, fulfilled, left>> /\ End(h)
  BY DEF RemoveItem
<1>3. /\ items \in [ItemIds -> Items] /\ enrollment \in [Courses -> Rows] /\ left \subseteq Courses
      /\ orders \in [OrderIds -> Statuses \cup {"none"}] /\ k \in ItemIds
  BY <1>1, <1>2, TypeFacts DEF RequestOK
<1>4. /\ items'[k] = [items[k] EXCEPT !.status = "deleted"]
      /\ \A i \in ItemIds \ {k} : items'[i] = items[i]
  BY <1>2, <1>3
<1>5. items'[k] \in Items  BY <1>1, <1>3, <1>4, Deleting
<1>6. items' \in [ItemIds -> Items]  BY <1>2, <1>3, <1>4, <1>5
<1>7. ASSUME ~raced, NEW i \in ItemIds  PROVE ItemStep(i)
  <2>1. items[k].status \in {"cart", "deleted"}  BY <1>2, <1>7, QuietRead DEF UserRead
  <2>2. CASE i = k  BY <1>1, <1>4, <2>1, <2>2, Deleting
  <2>3. CASE i # k  BY <1>4, <2>3 DEF ItemStep
  <2> QED BY <2>2, <2>3
<1>8. \A o \in OrderIds : OrderStep(o)  BY <1>2 DEF OrderStep
<1>9. TypeInv' /\ req' = [req EXCEPT ![h] = Idle] /\ UNCHANGED <<charges, raced, fulfilled, used>>
  BY <1>1, <1>2, <1>3, <1>6, UserTypes
<1>10. req[h].op # "idle" /\ ~Purchasing(req[h])  BY <1>2 DEF Purchasing
<1> QED BY <1>2, <1>7, <1>8, <1>9, <1>10, UserEnd

LEMMA EnrollStep ==
  ASSUME Inv, NEW h \in Handlers, Enroll(h)
  PROVE  Inv'
<1> DEFINE c == req[h].course
           honor == [active |-> TRUE, mode |-> "honor"]
<1>1. TypeInv  BY DEF Inv
<1>2. /\ req[h].op = "enroll"
      /\ enrollment' = enrollment \/ enrollment' = [enrollment EXCEPT ![c] = honor]
      /\ UNCHANGED <<orders, items, forms, fulfilled, left>> /\ End(h)
  BY DEF Enroll
<1>3. /\ items \in [ItemIds -> Items] /\ enrollment \in [Courses -> Rows] /\ left \subseteq Courses
      /\ orders \in [OrderIds -> Statuses \cup {"none"}] /\ c \in Courses
  BY <1>1, <1>2, TypeFacts DEF RequestOK
<1>4. honor \in Rows /\ honor.active  BY DEF Rows
<1> HIDE DEF honor
<1>5. /\ enrollment' \in [Courses -> Rows]
      /\ \A x \in Courses : enrollment[x].active => enrollment'[x].active
  BY <1>2, <1>3, <1>4
<1>6. \A i \in ItemIds : ItemStep(i)  BY <1>2 DEF ItemStep
<1>7. \A o \in OrderIds : OrderStep(o)  BY <1>2 DEF OrderStep
<1>8. TypeInv' /\ req' = [req EXCEPT ![h] = Idle] /\ UNCHANGED <<charges, raced, fulfilled, used>>
  BY <1>1, <1>2, <1>3, <1>5, UserTypes
<1>9. req[h].op # "idle" /\ ~Purchasing(req[h])  BY <1>2 DEF Purchasing
<1> QED BY <1>2, <1>5, <1>6, <1>7, <1>8, <1>9, UserEnd

\* Unenrolling refunds an item that was paid, and with it its order.
LEMMA UnenrollStep ==
  ASSUME Inv, NEW h \in Handlers, Unenroll(h)
  PROVE  Inv'
<1> DEFINE r == req[h]
           gone == [r.row EXCEPT !.active = FALSE]
<1>1. TypeInv  BY DEF Inv
<1>2. /\ r.op = "unenroll" /\ enrollment' = [enrollment EXCEPT ![r.course] = gone]
      /\ left' = left \cup {r.course} /\ UNCHANGED <<forms, fulfilled>> /\ End(h)
      /\ \/ r.refund = 0 /\ UNCHANGED <<orders, items>>
         \/ /\ r.refund # 0
            /\ orders' = [orders EXCEPT ![items[r.refund].order] = "refunded"]
            /\ items' = [items EXCEPT ![r.refund].status = IF @ = "deleted" THEN @ ELSE "refunded"]
  BY DEF Unenroll
<1>3. /\ items \in [ItemIds -> Items] /\ enrollment \in [Courses -> Rows] /\ left \subseteq Courses
      /\ orders \in [OrderIds -> Statuses \cup {"none"}] /\ RequestOK(r)
  BY <1>1, TypeFacts
<1>4. r.course \in Courses /\ r.row \in Rows /\ (r.refund # 0 => r.refund \in ItemIds)
  BY <1>2, <1>3, BoundAssumption DEF RequestOK, ItemIds
<1>5. gone \in Rows  BY <1>4 DEF Rows
<1> HIDE DEF gone
<1>6. /\ enrollment' \in [Courses -> Rows]
      /\ \A x \in Courses \ {r.course} : enrollment'[x] = enrollment[x]
  BY <1>2, <1>3, <1>4, <1>5
<1>7. \A c \in Courses \ left' :
        c \notin left /\ (enrollment[c].active => enrollment'[c].active)
  BY <1>2, <1>6
<1>8. /\ orders' \in [OrderIds -> Statuses \cup {"none"}]
      /\ items' \in [ItemIds -> Items]
      /\ ~raced => /\ \A i \in ItemIds : ItemStep(i)
                   /\ \A o \in OrderIds : OrderStep(o)
  <2>1. CASE r.refund = 0 /\ UNCHANGED <<orders, items>>
    BY <1>3, <2>1 DEF ItemStep, OrderStep
  <2>2. CASE /\ r.refund # 0
             /\ orders' = [orders EXCEPT ![items[r.refund].order] = "refunded"]
             /\ items' = [items EXCEPT ![r.refund].status = IF @ = "deleted" THEN @ ELSE "refunded"]
    <3> DEFINE k == r.refund
               s == IF items[k].status = "deleted" THEN "deleted" ELSE "refunded"
    <3>1. k \in ItemIds /\ items[k] \in Items  BY <1>3, <1>4, <2>2
    <3>2. items' = [items EXCEPT ![k] = [items[k] EXCEPT !.status = s]]  BY <1>3, <2>2, <3>1
    <3>3. s \in {"deleted", "refunded"}  OBVIOUS
    <3>4. ~raced => items[k].status \in {"purchased", "refunded"}
      BY <1>2, <2>2, QuietRead DEF UserRead
    <3>5. ~raced => s = "refunded"  BY <3>4
    <3> HIDE DEF s
    <3>6. [items[k] EXCEPT !.status = s] \in Items  BY <3>1, <3>3 DEF Items, Statuses
    <3>7. items' \in [ItemIds -> Items]  BY <1>3, <3>1, <3>2, <3>6
    <3>8. orders' \in [OrderIds -> Statuses \cup {"none"}]  BY <1>3, <2>2 DEF Statuses
    <3>9. /\ items'[k].status = s /\ items'[k].order = items[k].order
          /\ items'[k].course = items[k].course /\ items'[k].kind = items[k].kind
          /\ \A i \in ItemIds \ {k} : items'[i] = items[i]
      BY <1>3, <3>1, <3>2 DEF Items
    <3>10. ~raced => /\ items[k].order \in OrderIds
                     /\ orders[items[k].order] \in {"purchased", "refunded"}
      BY <3>1, <3>4 DEF Inv, Quiet, OrderInv
    <3>11. ~raced => /\ orders'[items[k].order] = "refunded"
                     /\ \A o \in OrderIds : OrderStep(o)
      BY <1>3, <2>2, <3>10 DEF OrderStep
    <3>12. ~raced => \A i \in ItemIds : ItemStep(i)
      BY <3>4, <3>5, <3>9, <3>11 DEF ItemStep
    <3> QED BY <3>7, <3>8, <3>11, <3>12
  <2> QED BY <1>2, <2>1, <2>2
<1>9. left' \subseteq Courses  BY <1>2, <1>3, <1>4
<1>10. TypeInv' /\ req' = [req EXCEPT ![h] = Idle] /\ UNCHANGED <<charges, raced, fulfilled, used>>
  BY <1>1, <1>2, <1>6, <1>8, <1>9, UserTypes
<1>11. req[h].op # "idle" /\ ~Purchasing(req[h])  BY <1>2 DEF Purchasing
<1> QED BY <1>7, <1>8, <1>10, <1>11, UserEnd

\* The requests of the user begin.
LEMMA BeginRequestStep ==
  ASSUME Inv, NEW h \in Handlers, NEW r, BeginRequest(h, r), r.op # "idle", RequestOK(r),
         ~Purchasing(r), ~raced => UserRead(r, orders, items)
  PROVE  Inv'
<1>1. used \in [requests : Nat, posts : Nat, failures : Nat]  BY DEF Inv, TypeInv
<1>2. /\ used' \in [requests : Nat, posts : Nat, failures : Nat]
      /\ used'.failures = used.failures
  BY <1>1 DEF BeginRequest
<1> QED BY <1>2, BeginStep DEF BeginRequest

LEMMA BeginSteps ==
  ASSUME Inv, NEW h \in Handlers,
         \/ \E c \in Courses : BeginAddCourse(h, c) \/ BeginCreateOrder(h, c) \/ BeginEnroll(h, c)
         \/ BeginClearCart(h) \/ BeginShowCart(h)
         \/ \E i \in ItemIds : BeginRemoveItem(h, i)
  PROVE  Inv'
<1>1. TypeInv  BY DEF Inv
<1>2. /\ CartForUser \in 0..MaxOrders
      /\ CartForUser # 0 => CartForUser \in OrderIds /\ orders[CartForUser] = "cart"
  BY NewestCart
<1> DEFINE cleared == IF CartForUser = 0 THEN {} ELSE ItemsOf(CartForUser)
<1>3. /\ cleared \subseteq ItemIds
      /\ ~raced => \A k \in cleared : items[k].status \in {"cart", "deleted"}
  <2>1. ASSUME ~raced, NEW k \in ItemIds, CartForUser # 0, items[k].order = CartForUser,
               items[k].status \notin {"none", "deleted"}
        PROVE  items[k].status = "cart"
    <3>1. OrderInv  BY <2>1 DEF Inv, Quiet
    <3>2. items[k].status \in Statuses  BY <1>1, <2>1, TypeFacts DEF Items
    <3> QED BY <1>2, <2>1, <3>1, <3>2 DEF OrderInv, Statuses
  <2> QED BY <2>1 DEF ItemsOf
<1>4. ASSUME NEW c \in Courses, BeginAddCourse(h, c)  PROVE Inv'
  <2> DEFINE r == [op |-> "add", order |-> CartForUser, course |-> c]
  <2>1. BeginRequest(h, r)  BY <1>4 DEF BeginAddCourse
  <2>2. r.op = "add" /\ r.order = CartForUser /\ r.course = c  OBVIOUS
  <2> HIDE DEF r
  <2>3. RequestOK(r) /\ ~Purchasing(r)  BY <1>2, <2>2 DEF RequestOK, Purchasing
  <2>4. UserRead(r, orders, items)  BY <1>2, <2>2 DEF UserRead
  <2> QED BY <2>1, <2>2, <2>3, <2>4, BeginRequestStep
<1>5. ASSUME NEW c \in Courses, BeginCreateOrder(h, c)  PROVE Inv'
  <2> DEFINE r == [op |-> "create", order |-> CartForUser, course |-> c, cleared |-> cleared]
  <2>1. BeginRequest(h, r)  BY <1>5 DEF BeginCreateOrder
  <2> HIDE DEF cleared
  <2>2. r.op = "create" /\ r.order = CartForUser /\ r.course = c /\ r.cleared = cleared  OBVIOUS
  <2> HIDE DEF r
  <2>3. RequestOK(r) /\ ~Purchasing(r)  BY <1>2, <1>3, <2>2 DEF RequestOK, Purchasing
  <2>4. ~raced => UserRead(r, orders, items)  BY <1>2, <1>3, <2>2 DEF UserRead
  <2> QED BY <2>1, <2>2, <2>3, <2>4, BeginRequestStep
<1>6. CASE BeginClearCart(h)
  <2> DEFINE r == [op |-> "clear", order |-> CartForUser, cleared |-> cleared]
  <2>1. BeginRequest(h, r)  BY <1>6 DEF BeginClearCart
  <2> HIDE DEF cleared
  <2>2. r.op = "clear" /\ r.order = CartForUser /\ r.cleared = cleared  OBVIOUS
  <2> HIDE DEF r
  <2>3. RequestOK(r) /\ ~Purchasing(r)  BY <1>2, <1>3, <2>2 DEF RequestOK, Purchasing
  <2>4. ~raced => UserRead(r, orders, items)  BY <1>2, <1>3, <2>2 DEF UserRead
  <2> QED BY <2>1, <2>2, <2>3, <2>4, BeginRequestStep
<1>7. CASE BeginShowCart(h)
  <2> DEFINE amount == IF CartForUser = 0 THEN 0 ELSE TotalCost(CartForUser)
             r == [op |-> "show", order |-> CartForUser, amount |-> amount]
  <2>1. BeginRequest(h, r)  BY <1>7 DEF BeginShowCart
  <2>5. amount \in Nat
    <3> DEFINE S == {i \in ItemsOf(CartForUser) : items[i].status = orders[CartForUser]}
    <3>1. S \in SUBSET ItemIds  BY DEF ItemsOf
    <3> HIDE DEF S
    <3>2. SumOfPrices(S) \in Nat  BY <1>1, <3>1, PricesNat, SumOfPricesTotal
    <3> QED BY <3>2 DEF TotalCost, S
  <2> HIDE DEF amount
  <2>2. r.op = "show" /\ r.order = CartForUser /\ r.amount = amount  OBVIOUS
  <2> HIDE DEF r
  <2>3. RequestOK(r) /\ ~Purchasing(r)  BY <1>2, <2>2, <2>5 DEF RequestOK, Purchasing
  <2>4. UserRead(r, orders, items)  BY <1>2, <2>2 DEF UserRead
  <2> QED BY <2>1, <2>2, <2>3, <2>4, BeginRequestStep
<1>8. ASSUME NEW i \in ItemIds, BeginRemoveItem(h, i)  PROVE Inv'
  <2> DEFINE r == [op |-> "remove", item |-> i]
  <2>1. BeginRequest(h, r) /\ items[i].status = "cart"  BY <1>8 DEF BeginRemoveItem
  <2>2. r.op = "remove" /\ r.item = i  OBVIOUS
  <2> HIDE DEF r
  <2>3. RequestOK(r) /\ ~Purchasing(r)  BY <2>2 DEF RequestOK, Purchasing
  <2>4. UserRead(r, orders, items)  BY <2>1, <2>2 DEF UserRead
  <2> QED BY <2>1, <2>2, <2>3, <2>4, BeginRequestStep
<1>9. ASSUME NEW c \in Courses, BeginEnroll(h, c)  PROVE Inv'
  <2> DEFINE r == [op |-> "enroll", course |-> c, row |-> enrollment[c]]
  <2>1. BeginRequest(h, r)  BY <1>9 DEF BeginEnroll
  <2>2. r.op = "enroll" /\ r.course = c  OBVIOUS
  <2> HIDE DEF r
  <2>3. RequestOK(r) /\ ~Purchasing(r)  BY <2>2 DEF RequestOK, Purchasing
  <2>4. UserRead(r, orders, items)  BY <2>2 DEF UserRead
  <2> QED BY <2>1, <2>2, <2>3, <2>4, BeginRequestStep
<1> QED BY <1>4, <1>5, <1>6, <1>7, <1>8, <1>9

LEMMA BeginUnenrollStep ==
  ASSUME Inv, NEW h \in Handlers, NEW c \in Courses, BeginUnenroll(h, c)
  PROVE  Inv'
<1> DEFINE refund == IF Refundable(c) = {} THEN 0 ELSE Min(Refundable(c))
           r == [op |-> "unenroll", course |-> c, row |-> enrollment[c], refund |-> refund]
<1>1. enrollment[c] \in Rows  BY TypeFacts DEF Inv
<1>2. refund \in 0..MaxItems /\ (refund # 0 => items[refund].status = "purchased")
  <2>1. CASE Refundable(c) = {}  BY <2>1, BoundAssumption
  <2>2. CASE Refundable(c) # {}
    <3>1. Refundable(c) \in SUBSET (1..MaxItems)  BY DEF Refundable, ItemIds
    <3>2. Min(Refundable(c)) \in Refundable(c)  BY <2>2, <3>1, MinMax, BoundAssumption
    <3>3. Min(Refundable(c)) \in 1..MaxItems /\ items[Min(Refundable(c))].status = "purchased"
      BY <3>1, <3>2 DEF Refundable
    <3> QED BY <2>2, <3>3, BoundAssumption
  <2> QED BY <2>1, <2>2
<1>3. BeginRequest(h, r)  BY DEF BeginUnenroll
<1> HIDE DEF refund
<1>4. r.op = "unenroll" /\ r.course = c /\ r.row = enrollment[c] /\ r.refund = refund  OBVIOUS
<1> HIDE DEF r
<1>5. RequestOK(r) /\ ~Purchasing(r)  BY <1>1, <1>2, <1>4 DEF RequestOK, Purchasing
<1>6. UserRead(r, orders, items)  BY <1>2, <1>4 DEF UserRead
<1> QED BY <1>3, <1>4, <1>5, <1>6, BeginRequestStep

-----------------------------------------------------------------------------
(* The posts of the processor.                                               *)

LEMMA BeginPurchaseStep ==
  ASSUME Inv, NEW h \in Handlers, NEW p \in charges, BeginPurchase(h, p)
  PROVE  Inv'
<1> DEFINE r == [op |-> "purchase", order |-> p.order, rest |-> ItemsOf(p.order), first |-> TRUE,
                 row |-> enrollment, kept |-> ItemsOf(p.order)]
<1>1. TypeInv /\ p.order \in OrderIds  BY DEF Inv, TypeInv
<1>2. used \in [requests : Nat, posts : Nat, failures : Nat]  BY <1>1 DEF TypeInv
<1>3. /\ used' \in [requests : Nat, posts : Nat, failures : Nat]
      /\ used'.failures = used.failures
  BY <1>2 DEF BeginPurchase
<1>4. Begin(h, r)  BY DEF BeginPurchase
<1>5. /\ r.op = "purchase" /\ r.order = p.order /\ r.rest = ItemsOf(p.order) /\ r.first = TRUE
      /\ r.row = enrollment
  OBVIOUS
<1> HIDE DEF r
<1>6. RequestOK(r)
  <2>1. ItemsOf(p.order) \subseteq ItemIds /\ enrollment \in [Courses -> Rows]
    BY <1>1, TypeFacts DEF ItemsOf
  <2> QED BY <1>1, <2>1 DEF RequestOK, Purchasing, r
<1>7. UserRead(r, orders, items)  BY <1>5 DEF UserRead
<1>8. \A i \in ItemIds : items[i].status \in Statuses <=> items[i].status \notin {"none", "deleted"}
  BY <1>1, TypeFacts DEF Items, Statuses
<1>9. PostRead(r, orders, items, enrollment)  BY <1>5, <1>8 DEF PostRead, ItemsOf
<1>10. ASSUME ~raced  PROVE Covered(p.order)
  <2> DEFINE o == p.order
             S == {i \in ItemsOf(o) : items[i].status = orders[o]}
  <2>1. OrderInv /\ PaidInv  BY <1>10 DEF Inv, Quiet
  <2>2. /\ p.amount = SumOfPrices(S) /\ orders[o] # "purchased"
        /\ p.amount \in Nat /\ p.amount # 0
    BY <1>1 DEF BeginPurchase, Accepted, TotalCost, TypeInv
  <2>3. orders[o] \in Statuses \cup {"none"}  BY <1>1, TypeFacts
  <2>4. S \in SUBSET ItemIds  BY DEF ItemsOf
  <2>5. SumOfPrices(S) = Total(Prices(items), S) /\ IsFiniteSet(S)
    <3> HIDE DEF S
    <3> QED BY <1>1, <2>4, PricesNat, SumOfPricesTotal
  <2>6. orders[o] # "none"
    <3>1. orders[o] = "none" => S = {}  BY DEF ItemsOf
    <3> HIDE DEF S
    <3> QED BY <2>2, <2>5, <3>1, TotalRest
  <2>7. CASE orders[o] = "cart"
    <3>1. S = ItemsOf(o)
      <4>1. ASSUME NEW i \in ItemsOf(o)  PROVE items[i].status = "cart"
        <5>1. i \in ItemIds /\ items[i].order = o /\ items[i].status \in Statuses
          BY <1>8 DEF ItemsOf
        <5> QED BY <2>1, <2>7, <5>1 DEF OrderInv, Statuses
      <4> QED BY <2>7, <4>1
    <3>2. p.amount = Total(Prices(items), ItemsOf(o))
      <4> HIDE DEF S
      <4> QED BY <2>2, <2>5, <3>1
    <3> QED BY <1>1, <3>2, ChargeCovers DEF Covered
  <2>8. CASE orders[o] = "refunded"  BY <1>1, <2>1, <2>8 DEF PaidInv, Paid
  <2> QED BY <2>2, <2>3, <2>6, <2>7, <2>8 DEF Statuses
<1> QED BY <1>3, <1>4, <1>5, <1>6, <1>7, <1>9, <1>10, BeginStep

\* What is not read or written by the posts stays well-formed.
LEMMA PostTypes ==
  ASSUME TypeInv, NEW h \in Handlers, NEW x, RequestOK(x), req' = [req EXCEPT ![h] = x],
         UNCHANGED <<offered, forms, charges, raced>>,
         orders' \in [OrderIds -> Statuses \cup {"none"}], items' \in [ItemIds -> Items],
         enrollment' \in [Courses -> Rows], left' \subseteq left,
         fulfilled' \in [ItemIds -> Nat], used' \in [requests : Nat, posts : Nat, failures : Nat]
  PROVE  TypeInv'
<1>1. /\ req' = [g \in Handlers |-> req'[g]] /\ req'[h] = x
      /\ \A g \in Handlers \ {h} : req'[g] = req[g]
  BY ReqUpdate
<1>2. TypeOK'  BY DEF TypeInv, TypeOK, Items, Rows
<1>3. \A g \in Handlers : RequestOK(req'[g])  BY <1>1 DEF TypeInv
<1> QED BY <1>1, <1>2, <1>3 DEF TypeInv

\* While a post is served and nothing raced, all requests are posts.
LEMMA OnlyPosts ==
  ASSUME Quiet, NEW h \in Handlers, Purchasing(req[h]), NEW g \in Handlers
  PROVE  req[g] = Idle \/ Purchasing(req[g])
<1>1. req[h] # Idle  BY IdleFacts
<1> QED BY <1>1 DEF Quiet, OneKind

LEMMA NextItemStep ==
  ASSUME Inv, NEW h \in Handlers, NextItem(h)
  PROVE  Inv'
<1> DEFINE r == req[h]
           x == [r EXCEPT !.op = "purchase", !.row = enrollment, !.kept = ItemsOf(r.order)]
<1>1. TypeInv /\ RequestOK(r) /\ enrollment \in [Courses -> Rows]  BY TypeFacts DEF Inv
<1>2. /\ r.op = "between" /\ req' = [req EXCEPT ![h] = x]
      /\ UNCHANGED <<orders, items, enrollment, offered, forms, charges, raced, fulfilled, left, used>>
  BY DEF NextItem
<1>3. Purchasing(r)  BY <1>2 DEF Purchasing
<1>4. r \in [op : {"purchase", "between"}, order : OrderIds, first : BOOLEAN,
             rest : SUBSET ItemIds, row : [Courses -> Rows], kept : SUBSET ItemIds]
  BY <1>1, <1>3 DEF RequestOK
<1>5. ItemsOf(r.order) \subseteq ItemIds  BY DEF ItemsOf
<1>6. /\ x \in [op : {"purchase", "between"}, order : OrderIds, first : BOOLEAN,
                rest : SUBSET ItemIds, row : [Courses -> Rows], kept : SUBSET ItemIds]
      /\ x.op = "purchase" /\ x.order = r.order /\ x.first = r.first /\ x.rest = r.rest
      /\ x.row = enrollment
  BY <1>1, <1>4, <1>5
<1> HIDE DEF x
<1>7. RequestOK(x) /\ Purchasing(x)  BY <1>6 DEF RequestOK, Purchasing
<1>8. req'[h] = x /\ \A g \in Handlers \ {h} : req'[g] = req[g]
  BY <1>1, <1>2, ReqUpdate
<1>9. TypeInv'
  <2>1. /\ items \in [ItemIds -> Items] /\ orders \in [OrderIds -> Statuses \cup {"none"}]
        /\ fulfilled \in [ItemIds -> Nat] /\ used \in [requests : Nat, posts : Nat, failures : Nat]
    BY <1>1, TypeFacts DEF TypeInv
  <2> QED BY <1>1, <1>2, <1>7, <2>1, PostTypes
<1>10. ASSUME ~raced  PROVE Quiet'
  <2>1. Quiet /\ OneKind /\ OrderInv /\ ReadInv /\ EnrolInv /\ PaidInv  BY <1>10 DEF Inv, Quiet
  <2>2. \A g \in Handlers : req[g] = Idle \/ Purchasing(req[g])  BY <1>3, <2>1, OnlyPosts
  <2>3. \A g \in Handlers : req'[g] = Idle \/ Purchasing(req'[g])  BY <1>7, <1>8, <2>2
  <2>4. OneKind'  BY <2>3 DEF OneKind
  <2>5. OrderInv'
    <3>1. \A o : ItemsOf(o)' = ItemsOf(o)  BY <1>2 DEF ItemsOf
    <3>2. \A g \in Handlers : Purchasing(req[g]) =>
            Purchasing(req'[g]) /\ req'[g].order = req[g].order /\ req'[g].rest = req[g].rest
      BY <1>6, <1>7, <1>8
    <3>3. ASSUME NEW o \in OrderIds, orders[o] = "purchased", used.failures = 0,
                 NEW i \in ItemsOf(o), items[i].status # "purchased"
          PROVE  \E g \in Handlers : Purchasing(req'[g]) /\ req'[g].order = o /\ i \in req'[g].rest
      <4>1. PICK g \in Handlers : Purchasing(req[g]) /\ req[g].order = o /\ i \in req[g].rest
        BY <2>1, <3>3 DEF OrderInv
      <4> QED BY <3>2, <4>1
    <3> QED BY <1>2, <2>1, <3>1, <3>3 DEF OrderInv
  <2>6. ReadInv'
    <3>1. PostRead(r, orders, items, enrollment)  BY <1>3, <2>1 DEF ReadInv
    <3>2. PostRead(x, orders, items, enrollment) /\ UserRead(x, orders, items)
      BY <1>6, <3>1 DEF PostRead, UserRead
    <3>3. ASSUME NEW g \in Handlers
          PROVE  /\ UserRead(req'[g], orders, items)
                 /\ Purchasing(req'[g]) => PostRead(req'[g], orders, items, enrollment)
      BY <1>8, <2>1, <3>2 DEF ReadInv
    <3> QED BY <1>2, <3>3 DEF ReadInv
  <2>7. EnrolInv'  BY <1>2, <2>1 DEF EnrolInv
  <2>8. PaidInv'
    <3>1. \A g \in Handlers : Purchasing(req'[g]) => Purchasing(req[g]) /\ req'[g].order = req[g].order
      BY <1>3, <1>6, <1>8
    <3>2. \A o \in OrderIds : Paid(o)' => Paid(o)  BY <1>2, <3>1 DEF Paid, BeingPurchased
    <3>3. \A o : ItemsOf(o)' = ItemsOf(o)  BY <1>2 DEF ItemsOf
    <3>4. \A i \in ItemIds : fulfilled'[i] > 0 => items'[i].status \in {"purchased", "refunded"}
      BY <1>2, <2>1 DEF PaidInv
    <3> QED BY <1>1, <1>2, <1>9, <2>1, <3>2, <3>3, <3>4, PaidKept
  <2> QED BY <2>4, <2>5, <2>6, <2>7, <2>8 DEF Quiet
<1> QED BY <1>2, <1>9, <1>10 DEF Inv

\* A failure leaves the order unfinished: from then on that is no surprise.
LEMMA CallbackFailsStep ==
  ASSUME Inv, NEW h \in Handlers, CallbackFails(h)
  PROVE  Inv'
<1>1. TypeInv  BY DEF Inv
<1>2. /\ req[h].op = "purchase" /\ req' = [req EXCEPT ![h] = Idle]
      /\ used' = [used EXCEPT !.failures = @ + 1]
      /\ UNCHANGED <<orders, items, enrollment, offered, forms, charges, raced, fulfilled, left>>
  BY DEF CallbackFails
<1>3. used \in [requests : Nat, posts : Nat, failures : Nat]  BY <1>1 DEF TypeInv
<1>4. used' \in [requests : Nat, posts : Nat, failures : Nat] /\ used'.failures # 0
  BY <1>2, <1>3
<1>5. req'[h] = Idle /\ \A g \in Handlers \ {h} : req'[g] = req[g]
  BY <1>1, <1>2, ReqUpdate
<1>6. TypeInv'
  <2>1. /\ items \in [ItemIds -> Items] /\ orders \in [OrderIds -> Statuses \cup {"none"}]
        /\ enrollment \in [Courses -> Rows] /\ fulfilled \in [ItemIds -> Nat]
    BY <1>1, TypeFacts DEF TypeInv
  <2> QED BY <1>1, <1>2, <1>4, <2>1, IdleFacts, PostTypes
<1>7. ASSUME ~raced  PROVE Quiet'
  <2>1. OneKind /\ OrderInv /\ ReadInv /\ EnrolInv /\ PaidInv  BY <1>7 DEF Inv, Quiet
  <2>2. OneKind'  BY <1>5, <2>1 DEF OneKind
  <2>3. OrderInv'
    <3>1. \A o : ItemsOf(o)' = ItemsOf(o)  BY <1>2 DEF ItemsOf
    <3> QED BY <1>2, <1>4, <2>1, <3>1 DEF OrderInv
  <2>4. ReadInv'
    <3>1. ASSUME NEW g \in Handlers
          PROVE  /\ UserRead(req'[g], orders, items)
                 /\ Purchasing(req'[g]) => PostRead(req'[g], orders, items, enrollment)
      BY <1>5, <2>1, IdleFacts DEF ReadInv
    <3> QED BY <1>2, <3>1 DEF ReadInv
  <2>5. EnrolInv'  BY <1>2, <2>1 DEF EnrolInv
  <2>6. PaidInv'
    <3>1. \A g \in Handlers : Purchasing(req'[g]) => req'[g] = req[g]  BY <1>5, IdleFacts
    <3>2. \A o \in OrderIds : Paid(o)' => Paid(o)  BY <1>2, <3>1 DEF Paid, BeingPurchased
    <3>3. \A o : ItemsOf(o)' = ItemsOf(o)  BY <1>2 DEF ItemsOf
    <3>4. \A i \in ItemIds : fulfilled'[i] > 0 => items'[i].status \in {"purchased", "refunded"}
      BY <1>2, <2>1 DEF PaidInv
    <3> QED BY <1>1, <1>2, <1>6, <2>1, <3>2, <3>3, <3>4, PaidKept
  <2> QED BY <2>2, <2>3, <2>4, <2>5, <2>6 DEF Quiet
<1> QED BY <1>2, <1>6, <1>7 DEF Inv

\* An item is purchased: with the first, its order.
LEMMA PurchaseItemTypes ==
  ASSUME Inv, NEW h \in Handlers, NEW i \in ItemIds, PurchaseItem(h, i)
  PROVE  /\ TypeInv'
         /\ \A g \in Handlers \ {h} : req'[g] = req[g]
         /\ \/ req[h].rest = {i} /\ req'[h] = Idle
            \/ /\ req[h].rest # {i} /\ Purchasing(req'[h])
               /\ req'[h].op = "between" /\ req'[h].order = req[h].order
               /\ req'[h].rest = req[h].rest \ {i} /\ req'[h].first = FALSE
         /\ orders' = IF req[h].first THEN [orders EXCEPT ![req[h].order] = "purchased"] ELSE orders
         /\ req[h].order \in OrderIds /\ orders \in [OrderIds -> Statuses \cup {"none"}]
<1> DEFINE r == req[h]
           c == items[i].course
           x == AfterItem(r, i)
<1>1. TypeInv /\ RequestOK(r)  BY TypeFacts DEF Inv
<1>2. /\ items \in [ItemIds -> Items] /\ orders \in [OrderIds -> Statuses \cup {"none"}]
      /\ enrollment \in [Courses -> Rows] /\ fulfilled \in [ItemIds -> Nat]
      /\ used \in [requests : Nat, posts : Nat, failures : Nat]
  BY <1>1, TypeFacts DEF TypeInv
<1>3. /\ r.op = "purchase" /\ i \in r.rest
      /\ orders' = IF r.first THEN [orders EXCEPT ![r.order] = "purchased"] ELSE orders
      /\ enrollment' = IF r.row[c] = Enrolled(i) THEN enrollment
                                                 ELSE [enrollment EXCEPT ![c] = Enrolled(i)]
      /\ items' = items \/ items' = [items EXCEPT ![i].status = "purchased"]
      /\ fulfilled' = [fulfilled EXCEPT ![i] = @ + 1]
      /\ left' = left \ {c}
      /\ req' = [req EXCEPT ![h] = x]
      /\ UNCHANGED <<offered, forms, charges, raced, used>>
  BY DEF PurchaseItem
<1>4. Purchasing(r)  BY <1>3 DEF Purchasing
<1>5. r \in [op : {"purchase", "between"}, order : OrderIds, first : BOOLEAN,
             rest : SUBSET ItemIds, row : [Courses -> Rows], kept : SUBSET ItemIds]
  BY <1>1, <1>4 DEF RequestOK
<1>6. NothingRead \in [Courses -> Rows]  BY DEF NothingRead, Rows
<1>7. \/ r.rest = {i} /\ x = Idle
      \/ /\ r.rest # {i}
         /\ x \in [op : {"purchase", "between"}, order : OrderIds, first : BOOLEAN,
                   rest : SUBSET ItemIds, row : [Courses -> Rows], kept : SUBSET ItemIds]
         /\ x.op = "between" /\ x.order = r.order /\ x.rest = r.rest \ {i} /\ x.first = FALSE
  <2>1. CASE r.rest = {i}  BY <2>1 DEF AfterItem
  <2>2. CASE r.rest # {i}
    <3>1. x = [r EXCEPT !.op = "between", !.rest = @ \ {i}, !.first = FALSE,
                        !.row = NothingRead, !.kept = {}]
      BY <2>2 DEF AfterItem
    <3> QED BY <1>5, <1>6, <2>2, <3>1
  <2> QED BY <2>1, <2>2
<1> HIDE DEF x
<1>8. RequestOK(x) /\ (r.rest # {i} => Purchasing(x))
  BY <1>7, IdleFacts DEF RequestOK, Purchasing
<1>9. req'[h] = x /\ \A g \in Handlers \ {h} : req'[g] = req[g]  BY <1>1, <1>3, ReqUpdate
<1>10. orders' \in [OrderIds -> Statuses \cup {"none"}]  BY <1>2, <1>3 DEF Statuses
<1>11. [items[i] EXCEPT !.status = "purchased"] \in Items  BY <1>2 DEF Items, Statuses
<1>12. items' \in [ItemIds -> Items]  BY <1>2, <1>3, <1>11
<1>13. Enrolled(i) \in Rows  BY DEF Enrolled, Rows
<1>14. enrollment' \in [Courses -> Rows]  BY <1>2, <1>3, <1>13
<1>15. fulfilled' \in [ItemIds -> Nat]  BY <1>2, <1>3
<1>16. TypeInv'
  BY <1>1, <1>2, <1>3, <1>8, <1>10, <1>12, <1>14, <1>15, PostTypes
<1> QED BY <1>2, <1>3, <1>5, <1>7, <1>8, <1>9, <1>16

LEMMA PurchaseItemStep ==
  ASSUME Inv, NEW h \in Handlers, NEW i \in ItemIds, PurchaseItem(h, i)
  PROVE  Inv'
<1> DEFINE r == req[h]
           c == items[i].course
<1>1. /\ TypeInv' /\ \A g \in Handlers \ {h} : req'[g] = req[g]
      /\ \/ r.rest = {i} /\ req'[h] = Idle
         \/ /\ r.rest # {i} /\ Purchasing(req'[h])
            /\ req'[h].op = "between" /\ req'[h].order = r.order
            /\ req'[h].rest = r.rest \ {i} /\ req'[h].first = FALSE
      /\ orders' = IF r.first THEN [orders EXCEPT ![r.order] = "purchased"] ELSE orders
      /\ r.order \in OrderIds /\ orders \in [OrderIds -> Statuses \cup {"none"}]
  BY PurchaseItemTypes
<1>2. SUFFICES ASSUME ~raced  PROVE Quiet'
  BY <1>1 DEF Inv, PurchaseItem
<1>3. Quiet /\ OneKind /\ OrderInv /\ ReadInv /\ EnrolInv /\ PaidInv /\ TypeInv
  BY <1>2 DEF Inv, Quiet
<1>4. items \in [ItemIds -> Items] /\ enrollment \in [Courses -> Rows]
      /\ fulfilled \in [ItemIds -> Nat]
  BY <1>3, TypeFacts DEF TypeInv
<1>5. /\ r.op = "purchase" /\ Purchasing(r) /\ i \in r.rest
      /\ enrollment' = IF r.row[c] = Enrolled(i) THEN enrollment
                                                 ELSE [enrollment EXCEPT ![c] = Enrolled(i)]
      /\ items' = IF items[i].status = "deleted" /\ i \in r.kept
                    THEN items ELSE [items EXCEPT ![i].status = "purchased"]
      /\ fulfilled' = [fulfilled EXCEPT ![i] = @ + 1] /\ left' = left \ {c}
      /\ UNCHANGED <<charges, used>>
  BY DEF PurchaseItem, Purchasing
<1>6. PostRead(r, orders, items, enrollment)  BY <1>3, <1>5 DEF ReadInv
<1>7. items[i].order = r.order /\ items[i].status \in Statuses /\ c \in Courses
  BY <1>4, <1>5, <1>6 DEF PostRead, Items
<1>8. /\ items'[i].status = "purchased" /\ items'[i].order = r.order /\ items'[i].course = c
      /\ items'[i].kind = items[i].kind
      /\ \A k \in ItemIds \ {i} : items'[k] = items[k]
  <2>1. items' = [items EXCEPT ![i].status = "purchased"]  BY <1>5, <1>7 DEF Statuses
  <2> QED BY <1>4, <1>7, <2>1 DEF Items
<1>9. /\ orders'[r.order] = "purchased"
      /\ \A o \in OrderIds \ {r.order} : orders'[o] = orders[o]
  BY <1>1, <1>6 DEF PostRead
<1>10. /\ enrollment'[c].active
       /\ \A y \in Courses : enrollment[y].active => enrollment'[y].active
  <2>1. Enrolled(i).active  BY DEF Enrolled
  <2>2. r.row[c].active => enrollment[c].active  BY <1>5, <1>6, <1>7 DEF PostRead
  <2> QED BY <1>4, <1>5, <1>7, <2>1, <2>2
<1>11. \A g \in Handlers : req[g] = Idle \/ Purchasing(req[g])  BY <1>3, <1>5, OnlyPosts
<1>12. \A g \in Handlers : req'[g] = Idle \/ Purchasing(req'[g])  BY <1>1, <1>11
<1>13. OneKind'  BY <1>12 DEF OneKind
<1>14. OrderInv'
  <2>1. ASSUME NEW k \in ItemIds, items'[k].status \in {"purchased", "refunded"}
        PROVE  /\ items'[k].order \in OrderIds
               /\ orders'[items'[k].order] \in {"purchased", "refunded"}
    <3>1. CASE k = i  BY <1>1, <1>8, <1>9, <3>1
    <3>2. CASE k # i
      <4>1. items[k].order \in OrderIds /\ orders[items[k].order] \in {"purchased", "refunded"}
        BY <1>3, <1>8, <2>1, <3>2 DEF OrderInv
      <4> QED BY <1>8, <1>9, <3>2, <4>1
    <3> QED BY <3>1, <3>2
  <2>2. \A o : ItemsOf(o)' = ItemsOf(o)
    <3>1. \A k \in ItemIds : /\ items'[k].order = items[k].order
                             /\ items'[k].status \in {"none", "deleted"}
                                  <=> items[k].status \in {"none", "deleted"}
      BY <1>7, <1>8 DEF Statuses
    <3> QED BY <3>1 DEF ItemsOf
  <2>3. ASSUME NEW o \in OrderIds, orders'[o] = "purchased"
        PROVE  \E k \in ItemsOf(o) : items'[k].status = "purchased"
    <3>1. CASE o = r.order
      <4>1. i \in ItemsOf(o)  BY <1>7, <3>1 DEF ItemsOf, Statuses
      <4> QED BY <1>8, <4>1
    <3>2. CASE o # r.order
      <4>1. PICK k \in ItemsOf(o) : items[k].status = "purchased"
        BY <1>3, <1>9, <2>3, <3>2 DEF OrderInv
      <4>2. k \in ItemIds  BY DEF ItemsOf
      <4>3. items'[k].status = "purchased"  BY <1>8, <4>1, <4>2
      <4> QED BY <4>3
    <3> QED BY <3>1, <3>2
  <2>4. ASSUME NEW o \in OrderIds, orders'[o] = "purchased", used.failures = 0,
               NEW k \in ItemsOf(o), items'[k].status # "purchased"
        PROVE  \E g \in Handlers : Purchasing(req'[g]) /\ req'[g].order = o /\ k \in req'[g].rest
    <3>1. k # i /\ items'[k] = items[k] /\ k \in ItemIds /\ items[k].order = o
      BY <1>8, <2>4 DEF ItemsOf
    <3>2. items[k].status \in Statuses
      BY <1>4, <2>4, <3>1 DEF ItemsOf, Items
    <3>3. CASE o = r.order /\ r.first
      <4>1. k \in r.rest  BY <1>6, <3>1, <3>2, <3>3 DEF PostRead
      <4> QED BY <1>1, <3>1, <3>3, <4>1
    <3>4. CASE ~(o = r.order /\ r.first)
      <4>1. orders[o] = "purchased"  BY <1>1, <1>6, <1>9, <2>4, <3>4 DEF PostRead
      <4>2. PICK g \in Handlers : Purchasing(req[g]) /\ req[g].order = o /\ k \in req[g].rest
        BY <1>3, <2>4, <3>1, <4>1 DEF OrderInv
      <4>3. CASE g # h  BY <1>1, <4>2, <4>3
      <4>4. CASE g = h  BY <1>1, <3>1, <4>2, <4>4
      <4> QED BY <4>3, <4>4
    <3> QED BY <3>3, <3>4
  <2> QED BY <1>5, <2>1, <2>2, <2>3, <2>4 DEF OrderInv
<1>15. ReadInv'
  <2> SUFFICES ASSUME NEW g \in Handlers, Purchasing(req'[g])
               PROVE  PostRead(req'[g], orders', items', enrollment')
    <3>1. \A g \in Handlers : UserRead(req'[g], orders', items')
      BY <1>12, IdleFacts DEF UserRead, Purchasing
    <3> QED BY <3>1 DEF ReadInv
  <2>1. \A k \in ItemIds : /\ items'[k].order = items[k].order
                           /\ items'[k].status \in Statuses <=> items[k].status \in Statuses
    BY <1>7, <1>8 DEF Statuses
  <2>2. RequestOK(req[g])  BY <1>3 DEF TypeInv
  <2>3. CASE g # h
    <3>1. req'[g] = req[g] /\ PostRead(req[g], orders, items, enrollment)
      BY <1>1, <1>3, <2>3 DEF ReadInv
    <3>2. req[g].rest \subseteq ItemIds /\ req[g].order \in OrderIds  BY <2>2, <3>1 DEF RequestOK
    <3> QED BY <1>9, <1>10, <2>1, <3>1, <3>2 DEF PostRead
  <2>4. CASE g = h
    <3>1. /\ req'[h].op = "between" /\ req'[h].order = r.order
          /\ req'[h].rest = r.rest \ {i} /\ req'[h].first = FALSE
      BY <1>1, <2>4, IdleFacts
    <3>2. r.rest \subseteq ItemIds  BY <1>5, <2>2, <2>4 DEF RequestOK
    <3> QED BY <1>6, <1>9, <2>1, <2>4, <3>1, <3>2 DEF PostRead
  <2> QED BY <2>3, <2>4
<1>16. EnrolInv'
  <2>1. ASSUME NEW k \in ItemIds, items'[k].status = "none"  PROVE fulfilled'[k] = 0
    <3>1. k # i /\ items[k].status = "none"  BY <1>8, <2>1
    <3> QED BY <1>3, <1>4, <1>5, <3>1 DEF EnrolInv
  <2>2. ASSUME NEW k \in ItemIds, fulfilled'[k] > 0, items'[k].course \notin left'
        PROVE  enrollment'[items'[k].course].active
    <3>1. items'[k].course = items[k].course /\ items[k].course \in Courses
      BY <1>4, <1>8 DEF Items
    <3>2. CASE items[k].course = c  BY <1>10, <3>1, <3>2
    <3>3. CASE items[k].course # c
      <4>1. k # i  BY <3>3
      <4>2. fulfilled[k] > 0 /\ items[k].course \notin left  BY <1>4, <1>5, <2>2, <3>1, <3>3, <4>1
      <4> QED BY <1>3, <1>10, <3>1, <4>2 DEF EnrolInv
    <3> QED BY <3>2, <3>3
  <2> QED BY <2>1, <2>2 DEF EnrolInv
<1>17. PaidInv'
  <2>1. ASSUME NEW k \in ItemIds, fulfilled'[k] > 0
        PROVE  items'[k].status \in {"purchased", "refunded"}
    <3>1. k # i => fulfilled'[k] = fulfilled[k]  BY <1>4, <1>5
    <3> QED BY <1>3, <1>8, <2>1, <3>1 DEF PaidInv
  <2>2. ASSUME NEW o \in OrderIds, Paid(o)'  PROVE Paid(o)
    <3>1. CASE o = r.order  BY <1>5, <3>1 DEF Paid, BeingPurchased
    <3>2. CASE o # r.order
      <4>1. \A g \in Handlers : Purchasing(req'[g]) /\ req'[g].order = o
                                => Purchasing(req[g]) /\ req[g].order = o
        BY <1>1, <3>2, IdleFacts
      <4> QED BY <1>9, <2>2, <3>2, <4>1 DEF Paid, BeingPurchased
    <3> QED BY <3>1, <3>2
  <2>3. ASSUME NEW o, NEW k \in ItemsOf(o)'
        PROVE  /\ k \in ItemsOf(o) /\ items'[k].course = items[k].course
               /\ items'[k].kind = items[k].kind
    BY <1>7, <1>8 DEF ItemsOf, Statuses
  <2> QED BY <1>1, <1>3, <1>5, <2>1, <2>2, <2>3, PaidKept
<1> QED BY <1>13, <1>14, <1>15, <1>16, <1>17 DEF Quiet

-----------------------------------------------------------------------------
(* The theorems.                                                             *)

\* A charge, an expired mode or nothing at all leaves what the invariant is about.
LEMMA QuietStep ==
  ASSUME Inv, \/ \E f \in forms : Charge(f)
              \/ \E c \in Courses : ExpireMode(c)
              \/ UNCHANGED vars
  PROVE  Inv'
<1>1. UNCHANGED <<orders, items, enrollment, forms, req, raced, fulfilled, left, used>>
  BY DEF Charge, ExpireMode, vars
<1>2. /\ charges \subseteq charges' /\ IsFiniteSet(charges')
      /\ \A p \in charges' : p.order \in OrderIds /\ p.amount \in Nat \ {0}
  <2>1. IsFiniteSet(charges) /\ \A p \in charges : p.order \in OrderIds /\ p.amount \in Nat \ {0}
    BY DEF Inv, TypeInv
  <2>2. ASSUME NEW f \in forms, Charge(f)
        PROVE  /\ charges \subseteq charges' /\ IsFiniteSet(charges')
               /\ \A p \in charges' : p.order \in OrderIds /\ p.amount \in Nat \ {0}
    <3> DEFINE new == [id |-> Cardinality(charges) + 1, order |-> f.order, amount |-> f.amount]
    <3>1. charges' = charges \cup {new} /\ f.amount > 0  BY <2>2 DEF Charge
    <3>2. f.order \in OrderIds /\ f.amount \in Nat  BY DEF Inv, TypeInv
    <3>3. new.order = f.order /\ new.amount = f.amount  OBVIOUS
    <3> HIDE DEF new
    <3>4. IsFiniteSet(charges')  BY <2>1, <3>1, FS_AddElement
    <3> QED BY <2>1, <3>1, <3>2, <3>3, <3>4
  <2> QED BY <2>1, <2>2 DEF ExpireMode, vars
<1>3. offered' \subseteq offered  BY DEF Charge, ExpireMode, vars
<1>4. TypeInv'  BY <1>1, <1>2, <1>3 DEF Inv, TypeInv, TypeOK
<1>5. ASSUME ~raced  PROVE Quiet'
  <2>1. OneKind' /\ OrderInv' /\ ReadInv' /\ EnrolInv'
    BY <1>1, <1>5 DEF Inv, Quiet, OneKind, OrderInv, ItemsOf, ReadInv, EnrolInv
  <2>2. TypeInv /\ PaidInv  BY <1>5 DEF Inv, Quiet
  <2>3. PaidInv'
    <3>1. \A o \in OrderIds : Paid(o)' => Paid(o)  BY <1>1 DEF Paid, BeingPurchased
    <3>2. \A o : ItemsOf(o)' = ItemsOf(o)  BY <1>1 DEF ItemsOf
    <3>3. \A i \in ItemIds : fulfilled'[i] > 0 => items'[i].status \in {"purchased", "refunded"}
      BY <1>1, <2>2 DEF PaidInv
    <3> QED BY <1>1, <1>2, <1>4, <2>2, <3>1, <3>2, <3>3, PaidKept
  <2> QED BY <2>1, <2>3 DEF Quiet
<1> QED BY <1>1, <1>4, <1>5 DEF Inv

LEMMA InitInv == Init => Inv
<1> SUFFICES ASSUME Init  PROVE Inv
  OBVIOUS
<1> USE DEF Init
<1> DEFINE d == CHOOSE c \in Courses : TRUE
<1>1. d \in Courses  BY CourseAssumption
<1>2. items \in [ItemIds -> {[order |-> 0, course |-> d, kind |-> "registration", status |-> "none"]}]
  OBVIOUS
<1> HIDE DEF d
<1>3. 0 \in 0..MaxOrders  BY BoundAssumption
<1>4. [order |-> 0, course |-> d, kind |-> "registration", status |-> "none"] \in Items
  BY <1>1, <1>3 DEF Items, Kinds, Statuses
<1>5. items \in [ItemIds -> Items] /\ \A i \in ItemIds : items[i].status = "none"
  BY <1>2, <1>4
<1>6. \A h \in Handlers : req[h] = Idle  OBVIOUS
<1>7. enrollment \in [Courses -> Rows]  BY DEF Rows
<1>8. TypeOK  BY <1>5, <1>7, CourseAssumption DEF TypeOK, Items, Rows, Statuses
<1>9. TypeInv  BY <1>6, <1>8, IdleFacts, FS_EmptySet DEF TypeInv
<1>10. Quiet
  <2>1. PaidInv  BY <1>6, IdleFacts DEF PaidInv, Paid, BeingPurchased
  <2> QED BY <1>5, <1>6, <2>1, IdleFacts DEF Quiet, OneKind, OrderInv, ReadInv, EnrolInv
<1> QED BY <1>9, <1>10 DEF Inv

LEMMA StepInv == Inv /\ [Next]_vars => Inv'
<1> SUFFICES ASSUME Inv, [Next]_vars  PROVE Inv'
  OBVIOUS
<1>1. ASSUME NEW h \in Handlers,
             \/ AddCourse(h) \/ CreateOrder(h) \/ ClearCart(h) \/ ShowCart(h) \/ RemoveItem(h)
             \/ Enroll(h) \/ Unenroll(h) \/ NextItem(h) \/ CallbackFails(h)
      PROVE  Inv'
  BY <1>1, AddCourseStep, CreateOrderStep, ClearCartStep, ShowCartStep, RemoveItemStep, EnrollStep,
     UnenrollStep, NextItemStep, CallbackFailsStep
<1>2. ASSUME NEW h \in Handlers,
             \/ \E c \in Courses : \/ BeginAddCourse(h, c) \/ BeginCreateOrder(h, c)
                                   \/ BeginEnroll(h, c) \/ BeginUnenroll(h, c)
             \/ BeginClearCart(h) \/ BeginShowCart(h)
             \/ \E i \in ItemIds : BeginRemoveItem(h, i) \/ PurchaseItem(h, i)
             \/ \E p \in charges : BeginPurchase(h, p)
      PROVE  Inv'
  BY <1>2, BeginSteps, BeginUnenrollStep, PurchaseItemStep, BeginPurchaseStep
<1>3. CASE \/ \E f \in forms : Charge(f)
           \/ \E c \in Courses : ExpireMode(c)
           \/ UNCHANGED vars
  BY <1>3, QuietStep
<1> QED BY <1>1, <1>2, <1>3 DEF Next

THEOREM Invariant == Spec => []Inv
BY InitInv, StepInv, PTL DEF Spec

\* The tables stay well-formed, whatever whole rows are saved from copies that are stale.
THEOREM TypeCorrect == Spec => []TypeOK
<1>1. Inv => TypeOK  BY DEF Inv, TypeInv
<1> QED BY <1>1, Invariant, PTL

\* As long as no post of the processor is served while a request of the user is, carts hold
\* nothing that was paid, so that clearing a cart or paying it again touches no item twice.
THEOREM CartsAlwaysUnpaid == Spec => []CartsUnpaid
<1>1. Inv => CartsUnpaid
  <2> SUFFICES ASSUME Inv, ~raced, NEW o \in Carts, NEW i \in ItemsOf(o)
               PROVE  items[i].status = "cart"
    BY DEF CartsUnpaid
  <2>1. OrderInv /\ items \in [ItemIds -> Items]  BY TypeFacts DEF Inv, Quiet
  <2>2. orders[o] = "cart" /\ i \in ItemIds /\ items[i].order = o
        /\ items[i].status \notin {"none", "deleted"}
    BY DEF Carts, ItemsOf
  <2>3. items[i].status \in Statuses  BY <2>1, <2>2 DEF Items
  <2> QED BY <2>1, <2>2, <2>3 DEF OrderInv, Statuses
<1> QED BY <1>1, Invariant, PTL

\* A purchased order that no request is working on has an item that was purchased and,
\* unless a callback has failed, only such items: posts that overlap or come twice
\* commit its status together with an item and never alone.
THEOREM PurchasedAlwaysComplete == Spec => []PurchasedComplete
<1>1. Inv => PurchasedComplete
  BY DEF Inv, Quiet, OrderInv, PurchasedComplete, BeingPurchased
<1> QED BY <1>1, Invariant, PTL

\* Who has paid for a course stays enrolled in it until leaving it, however many requests
\* save the enrolment they have read.
THEOREM FulfilledAlwaysEnrolled == Spec => []FulfilledEnrolled
<1>1. Inv => FulfilledEnrolled  BY DEF Inv, Quiet, EnrolInv, FulfilledEnrolled
<1> QED BY <1>1, Invariant, PTL

\* What is fulfilled of an order costs no more than was charged for it, for any prices, forms of
\* a cart that has changed, posts that overlap or come twice, and callbacks that fail, as long as
\* no post of the processor is served while a request of the user is.
THEOREM FulfilmentAlwaysPaid == Spec => []FulfilmentPaid
<1>1. Inv => FulfilmentPaid
  <2> SUFFICES ASSUME Inv, ~raced, NEW o \in OrderIds
               PROVE  SumOfPrices(FulfilledItems(o)) <= Charged(o)
    BY DEF FulfilmentPaid
  <2> DEFINE S == FulfilledItems(o)
             cost == Prices(items)
             paid == Total(Amounts(charges), ChargesOf(o))
  <2>1. TypeInv /\ OrderInv /\ PaidInv  BY DEF Inv, Quiet
  <2>2. S \in SUBSET ItemIds /\ ItemsOf(o) \in SUBSET ItemIds  BY DEF FulfilledItems, ItemsOf
  <2>3. ChargesOf(o) \in SUBSET charges /\ IsFiniteSet(charges)  BY <2>1 DEF ChargesOf, TypeInv
  <2>4. \A i \in S : items[i].order = o /\ items[i].status \in {"purchased", "refunded"}
    BY <2>1 DEF FulfilledItems, PaidInv
  <2>5. S \in SUBSET ItemsOf(o)  BY <2>2, <2>4 DEF ItemsOf
  <2>6. S # {} => Paid(o)
    <3> HIDE DEF S
    <3> QED BY <2>1, <2>2, <2>4 DEF OrderInv, Paid
  <2>7. Charged(o) = paid  BY <2>3, ChargedTotal
  <2> HIDE DEF S, cost, paid
  <2>8. /\ IsFiniteSet(S) /\ IsFiniteSet(ItemsOf(o)) /\ paid \in Nat
        /\ \A i \in ItemsOf(o) : cost[i] \in Nat
        /\ Total(cost, S) \in Nat /\ Total(cost, ItemsOf(o)) \in Nat
    BY <2>1, <2>2, <2>3, PricesNat DEF cost, paid
  <2>9. SumOfPrices(S) = Total(cost, S)  BY <2>2, <2>8, SumOfPricesTotal DEF cost
  <2>10. CASE S = {}
    <3>1. Total(cost, S) = 0  BY <2>8, <2>10, TotalRest
    <3> QED BY <2>7, <2>8, <2>9, <3>1 DEF S
  <2>11. CASE S # {}
    <3>1. Total(cost, ItemsOf(o)) <= paid  BY <2>1, <2>6, <2>11 DEF PaidInv, Covered, cost, paid
    <3>2. Total(cost, S) <= Total(cost, ItemsOf(o))  BY <2>5, <2>8, TotalGrows
    <3> QED BY <2>7, <2>8, <2>9, <3>1, <3>2 DEF S
  <2> QED BY <2>10, <2>11
<1> QED BY <1>1, Invariant, PTL
=============================================================================
