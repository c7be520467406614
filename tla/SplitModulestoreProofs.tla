----------------------- MODULE SplitModulestoreProofs -----------------------
(***************************************************************************)
(* Proofs about the split modulestore: every structure stands by itself,   *)
(* no edit of a branch is lost unless an index document was written over a *)
(* newer one, and what is published is what the draft had.                 *)
(***************************************************************************)
EXTENDS SplitModulestore, WellFoundedInduction, TLAPS

-----------------------------------------------------------------------------
(* The invariant                                                             *)

Publications == [source : Nat, root : Blocks, blacklist : SUBSET Blocks]
Contents     == [children : Seq(Blocks), listed : BOOLEAN, update : Nat]
Forests      == UNION {[D -> Contents] : D \in SUBSET Blocks}
Structures   == [previous : Nat, branch : Branches, published : Publications, blocks : Forests]
Entries      == [draft : Nat, published : Nat]

\* The blocks of a structure of version v, whatever happened before.
Sane(blocks, v) ==
  /\ Root \in DOMAIN blocks
  /\ \A b \in DOMAIN blocks :
       /\ blocks[b].update \in 1..v
       /\ ~blocks[b].listed \/ b \in Leaves => blocks[b].children = <<>>
       /\ Root \notin ChildrenIn(blocks, b)

Whole(blocks) == \A b \in DOMAIN blocks : ChildrenIn(blocks, b) \subseteq DOMAIN blocks

StructuresOK ==
  /\ structures \in Seq(Structures) /\ structures # <<>>
  /\ \A v \in Versions : /\ structures[v].previous \in 0..(v - 1)
                         /\ Sane(structures[v].blocks, v)

\* An index document, of the structures S.
EntryOK(entry, S) ==
  /\ entry \in Entries
  /\ entry.draft \in 1..Len(S) /\ S[entry.draft].branch = "draft"
  /\ \/ entry.published \in {0, 1}
     \/ entry.published \in 1..Len(S) /\ S[entry.published].branch = "published"

\* What a request has read: the version it edits is the one its locator names, if it
\* names one, and so is the head in the index it will write.
ReadOK(r, S) ==
  /\ {"op", "branch", "guid"} \subseteq DOMAIN r
  /\ r.branch \in Branches /\ r.guid \in 0..Len(S)
  /\ "entry" \in DOMAIN r => EntryOK(r.entry, S) /\ r.guid \in {0, r.entry[r.branch]}
  /\ "base" \in DOMAIN r => r.base \in 0..Len(S)

CreateOK(r, S) ==
  /\ {"entry", "base", "block", "parent"} \subseteq DOMAIN r
  /\ r.branch = "draft" /\ r.block \in Blocks \ {Root} /\ r.parent \in (Blocks \ Leaves) \cup {"none"}
  /\ r.base # 0 =>
       /\ r.guid \in {0, r.base}
       /\ r.block \notin DOMAIN S[r.base].blocks
       /\ r.parent # "none" => r.parent \in DOMAIN S[r.base].blocks

UpdateOK(r, S) ==
  /\ {"block", "children", "base"} \subseteq DOMAIN r
  /\ r.branch = "draft" /\ r.guid # 0 /\ r.base = r.guid
  /\ r.block \in DOMAIN S[r.base].blocks
  /\ r.children \in Seq(Blocks \ {Root})
  /\ ToSet(r.children) \subseteq ChildrenIn(S[r.base].blocks, r.block) \cup DOMAIN S[r.base].blocks
  /\ r.block \in Leaves => r.children = <<>>

\* The parents were read from the head, if the index is still what it was.
DeleteOK(r, S, head) ==
  /\ {"block", "base", "whole"} \subseteq DOMAIN r
  /\ r.base # 0 /\ r.guid \in {0, r.base} /\ r.block \in Blocks \ {Root} /\ r.whole \in BOOLEAN
  /\ "parents" \in DOMAIN r =>
       /\ "entry" \in DOMAIN r
       /\ r.entry = head => r.parents = ParentsIn(S[head[r.branch]].blocks, r.block)

PublishOK(r, S) ==
  /\ "published" \in DOMAIN r
  /\ r.branch = "published" /\ r.guid = 0 /\ r.published \in Publications
  /\ r.published.source \in 1..Len(S) /\ r.published.root \in DOMAIN S[r.published.source].blocks
  /\ "entry" \in DOMAIN r => r.entry.published # 0 \/ r.published.root = Root
  /\ "base" \in DOMAIN r => "entry" \in DOMAIN r /\ (r.base = 0 => r.entry.published = 0)

ReqOK(r, S, head) ==
  \/ r = Idle
  \/ /\ ReadOK(r, S)
     /\ \/ r.op = "create" /\ CreateOK(r, S)
        \/ r.op = "update" /\ UpdateOK(r, S)
        \/ r.op = "delete" /\ DeleteOK(r, S, head)
        \/ r.op = "publish" /\ PublishOK(r, S)

\* Only a lost race or a deletion of a shared block leaves a child behind.
WholeInv == seen \cap {"raced", "shared"} = {} => \A v \in Versions : Whole(structures[v].blocks)

\* The structures of S that led to v: in every set with v and all their previous versions.
Led(S, v) ==
  {u \in 1..Len(S) : \A T \in SUBSET (1..Len(S)) :
     v \in T /\ (\A x \in T : S[x].previous \in 1..Len(S) => S[x].previous \in T) => u \in T}

\* Every structure of a branch has led to its head, unless there was a race.
KeptInv ==
  "raced" \notin seen =>
    \A v \in Versions : LET head == index[structures[v].branch] IN
                         head # 0 /\ v \in Led(structures, head)

Inv ==
  /\ StructuresOK /\ EntryOK(index, structures)
  /\ req = [h \in Handlers |-> req[h]]
  /\ \A h \in Handlers : ReqOK(req[h], structures, index)
  /\ seen \subseteq {"raced", "blacklist", "stale", "shared"}
  /\ WholeInv /\ KeptInv
-----------------------------------------------------------------------------
(* Sequences of children                                                     *)

LEMMA Least ==
  ASSUME NEW S \in SUBSET Nat, S # {}
  PROVE  \E x \in S : \A y \in S : x <= y
<1> DEFINE R == {ss \in Nat \X Nat : ss[1] < ss[2]}
<1>1. R = OpToRel(<, Nat)  BY DEF OpToRel
<1>2. IsWellFoundedOn(R, Nat)  BY <1>1, NatLessThanWellFounded
<1> HIDE DEF R
<1>3. PICK x \in S : \A y \in S : ~(<<y, x>> \in R)  BY <1>2, WFMin
<1>4. \A y \in S : ~(y < x)  BY <1>3 DEF R
<1> QED BY <1>4

\* g collects the members of S among the first k of seq.
Collects(g, k, seq, S) ==
  g = [i \in 0..k |-> IF i = 0 THEN <<>>
                      ELSE g[i - 1] \o (IF seq[i] \in S THEN <<seq[i]>> ELSE <<>>)]

LEMMA CollectsExists ==
  ASSUME NEW seq, NEW S, NEW k \in Nat
  PROVE  \E g : Collects(g, k, seq, S)
<1> DEFINE Bad == {j \in Nat : ~\E g : Collects(g, j, seq, S)}
           More(x, i) == x \o (IF seq[i] \in S THEN <<seq[i]>> ELSE <<>>)
<1>1. SUFFICES ASSUME Bad # {} PROVE FALSE  OBVIOUS
<1>2. PICK j \in Bad : \A i \in Bad : j <= i
  <2>1. Bad \in SUBSET Nat  OBVIOUS
  <2> QED BY <1>1, <2>1, Least
<1>3. j # 0
  <2>1. Collects([i \in 0..0 |-> <<>>], 0, seq, S)  BY DEF Collects
  <2> QED BY <2>1
<1>4. j \in Nat /\ j - 1 \in Nat /\ j - 1 \notin Bad  BY <1>2, <1>3
<1>5. PICK g : Collects(g, j - 1, seq, S)  BY <1>4
<1> DEFINE h == [i \in 0..j |-> IF i = j THEN More(g[j - 1], j) ELSE g[i]]
<1> HIDE DEF More
<1>6. \A i \in 0..(j - 1) : g[i] = IF i = 0 THEN <<>> ELSE More(g[i - 1], i)
  BY <1>4, <1>5 DEF Collects, More
<1>7. ASSUME NEW i \in 0..j PROVE h[i] = IF i = 0 THEN <<>> ELSE More(h[i - 1], i)
  <2>1. CASE i = j
    <3>1. j - 1 \in 0..j /\ j - 1 # j /\ j \in 0..j  BY <1>3, <1>4
    <3> QED BY <1>3, <2>1, <3>1
  <2>2. CASE i # j
    <3>1. i \in 0..(j - 1) /\ (i # 0 => i - 1 \in 0..j /\ i - 1 # j)  BY <1>4, <2>2
    <3> QED BY <1>6, <2>2, <3>1
  <2> QED BY <2>1, <2>2
<1>8. h = [i \in 0..j |-> IF i = 0 THEN <<>> ELSE More(h[i - 1], i)]  BY <1>7
<1>9. Collects(h, j, seq, S)  BY <1>8 DEF Collects, More
<1> QED BY <1>2, <1>9

\* Kept leaves out what is not in S, and nothing else.
LEMMA KeptIsPart ==
  ASSUME NEW A, NEW seq \in Seq(A), NEW S
  PROVE  /\ Kept(seq, S) \in Seq(A)
         /\ ToSet(Kept(seq, S)) = ToSet(seq) \cap S
         /\ seq = <<>> => Kept(seq, S) = <<>>
<1> DEFINE g == CHOOSE f : Collects(f, Len(seq), seq, S)
           First(i) == {seq[j] : j \in 1..i} \cap S
           Bad == {i \in Nat : i <= Len(seq) /\ ~(g[i] \in Seq(A) /\ ToSet(g[i]) = First(i))}
<1>1. Len(seq) \in Nat  OBVIOUS
<1>2. Collects(g, Len(seq), seq, S)  BY <1>1, CollectsExists
<1>3. Kept(seq, S) = g[Len(seq)]  BY DEF Kept, Collects
<1> HIDE DEF g
<1>4. Bad = {}
  <2> SUFFICES ASSUME Bad # {} PROVE FALSE  OBVIOUS
  <2>1. PICK i \in Bad : \A j \in Bad : i <= j
    <3>1. Bad \in SUBSET Nat  OBVIOUS
    <3> QED BY <3>1, Least
  <2>2. i \in 0..Len(seq)  BY <1>1, <2>1
  <2>3. g[i] = IF i = 0 THEN <<>> ELSE g[i - 1] \o (IF seq[i] \in S THEN <<seq[i]>> ELSE <<>>)
    BY <1>2, <2>2 DEF Collects
  <2>4. i # 0
    <3>1. i = 0 => g[i] = <<>>  BY <2>3
    <3>2. <<>> \in Seq(A) /\ ToSet(<<>>) = {} /\ First(0) = {}  BY DEF ToSet
    <3> HIDE DEF First
    <3> QED BY <2>1, <3>1, <3>2
  <2>5. i - 1 \in Nat /\ i - 1 <= Len(seq) /\ i - 1 \notin Bad
    <3>1. i - 1 \in Nat /\ i - 1 <= Len(seq) /\ ~(i <= i - 1)  BY <1>1, <2>2, <2>4
    <3> HIDE DEF Bad
    <3> QED BY <2>1, <3>1
  <2>6. g[i - 1] \in Seq(A) /\ ToSet(g[i - 1]) = First(i - 1)  BY <2>5
  <2>7. seq[i] \in A /\ First(i) = First(i - 1) \cup ({seq[i]} \cap S)
    <3>1. 1..i = 1..(i - 1) \cup {i}  BY <2>2, <2>4
    <3> QED BY <2>2, <2>4, <3>1
  <2>8. CASE seq[i] \in S
    <3>1. g[i] = g[i - 1] \o <<seq[i]>>  BY <2>3, <2>4, <2>8
    <3>2. g[i] \in Seq(A) /\ ToSet(g[i]) = ToSet(g[i - 1]) \cup {seq[i]}
      <4> DEFINE s == g[i - 1]
      <4>1. s \in Seq(A) /\ seq[i] \in A /\ g[i] = s \o <<seq[i]>>  BY <2>6, <2>7, <3>1
      <4> HIDE DEF s
      <4>0. <<seq[i]>> \in Seq(A) /\ Len(<<seq[i]>>) = 1 /\ <<seq[i]>>[1] = seq[i]  BY <4>1
      <4>2. g[i] \in Seq(A) /\ Len(g[i]) = Len(s) + 1  BY <4>0, <4>1
      <4>3. \A j \in 1..Len(s) : g[i][j] = s[j]  BY <4>0, <4>1
      <4>4. g[i][Len(s) + 1] = seq[i]  BY <4>0, <4>1
      <4>5. DOMAIN g[i] = 1..Len(s) \cup {Len(s) + 1} /\ DOMAIN s = 1..Len(s)  BY <4>1, <4>2
      <4>6. ToSet(g[i]) = ToSet(s) \cup {seq[i]}  BY <4>3, <4>4, <4>5 DEF ToSet
      <4> QED BY <4>2, <4>6 DEF s
    <3> QED BY <2>1, <2>6, <2>7, <2>8, <3>2
  <2>9. CASE seq[i] \notin S
    <3>1. g[i] = g[i - 1]
      <4>1. g[i] = g[i - 1] \o <<>>  BY <2>3, <2>4, <2>9
      <4> QED BY <2>6, <4>1
    <3> QED BY <2>1, <2>6, <2>7, <2>9, <3>1
  <2> QED BY <2>8, <2>9
<1>5. g[Len(seq)] \in Seq(A) /\ ToSet(g[Len(seq)]) = First(Len(seq))  BY <1>1, <1>4
<1>6. ToSet(seq) = {seq[j] : j \in 1..Len(seq)}  BY DEF ToSet
<1>7. seq = <<>> => g[Len(seq)] = <<>>
  <2>1. g[0] = <<>>  BY <1>1, <1>2 DEF Collects
  <2> QED BY <2>1
<1> QED BY <1>3, <1>5, <1>6, <1>7

\* Kept looks only at the members of the sequence.
LEMMA KeptAgree ==
  ASSUME NEW A, NEW seq \in Seq(A), NEW S, NEW T, ToSet(seq) \cap S = ToSet(seq) \cap T
  PROVE  Kept(seq, S) = Kept(seq, T)
<1> DEFINE n == Len(seq)
           f == CHOOSE k : Collects(k, n, seq, S)
           g == CHOOSE k : Collects(k, n, seq, T)
           Bad == {i \in Nat : i <= n /\ f[i] # g[i]}
<1>1. n \in Nat  OBVIOUS
<1>2. Collects(f, n, seq, S) /\ Collects(g, n, seq, T)  BY <1>1, CollectsExists
<1>3. Kept(seq, S) = f[n] /\ Kept(seq, T) = g[n]  BY DEF Kept, Collects
<1> HIDE DEF f, g, n
<1>4. Bad = {}
  <2> SUFFICES ASSUME Bad # {} PROVE FALSE  OBVIOUS
  <2>1. PICK i \in Bad : \A j \in Bad : i <= j
    <3>1. Bad \in SUBSET Nat  OBVIOUS
    <3> QED BY <3>1, Least
  <2>2. i \in 0..n  BY <1>1, <2>1
  <2>3. /\ f[i] = IF i = 0 THEN <<>> ELSE f[i - 1] \o (IF seq[i] \in S THEN <<seq[i]>> ELSE <<>>)
        /\ g[i] = IF i = 0 THEN <<>> ELSE g[i - 1] \o (IF seq[i] \in T THEN <<seq[i]>> ELSE <<>>)
    BY <1>2, <2>2 DEF Collects
  <2>4. i # 0  BY <2>1, <2>3
  <2>5. f[i - 1] = g[i - 1]
    <3>1. i - 1 \in Nat /\ i - 1 <= n /\ ~(i <= i - 1)  BY <1>1, <2>2, <2>4
    <3> QED BY <2>1, <3>1
  <2>6. seq[i] \in S <=> seq[i] \in T
    <3>1. i \in DOMAIN seq  BY <1>1, <2>2, <2>4 DEF n
    <3>2. seq[i] \in ToSet(seq)  BY <3>1 DEF ToSet
    <3> QED BY <3>2
  <2> QED BY <2>1, <2>3, <2>4, <2>5, <2>6
<1> QED BY <1>1, <1>3, <1>4

\* It keeps a sequence of its members as it is.
LEMMA KeptAll ==
  ASSUME NEW A, NEW seq \in Seq(A), NEW S, ToSet(seq) \subseteq S
  PROVE  Kept(seq, S) = seq
<1> DEFINE n == Len(seq)
           g == CHOOSE k : Collects(k, n, seq, S)
           First(i) == /\ g[i] \in Seq(A) /\ Len(g[i]) = i
                       /\ \A j \in 1..i : g[i][j] = seq[j]
           Bad == {i \in Nat : i <= n /\ ~First(i)}
<1>1. n \in Nat  OBVIOUS
<1>2. Collects(g, n, seq, S)  BY <1>1, CollectsExists
<1>3. Kept(seq, S) = g[n]  BY DEF Kept, Collects
<1> HIDE DEF g
<1>4. Bad = {}
  <2> SUFFICES ASSUME Bad # {} PROVE FALSE  OBVIOUS
  <2>1. PICK i \in Bad : \A j \in Bad : i <= j
    <3>1. Bad \in SUBSET Nat  OBVIOUS
    <3> QED BY <3>1, Least
  <2>2. i \in 0..n  BY <1>1, <2>1
  <2>3. g[i] = IF i = 0 THEN <<>> ELSE g[i - 1] \o (IF seq[i] \in S THEN <<seq[i]>> ELSE <<>>)
    BY <1>2, <2>2 DEF Collects
  <2>4. i # 0
    <3>1. i = 0 => g[i] = <<>>  BY <2>3
    <3>2. <<>> \in Seq(A) /\ Len(<<>>) = 0 /\ 1..0 = {}  OBVIOUS
    <3>3. i = 0 => First(i)  BY <3>1, <3>2
    <3> HIDE DEF First
    <3> QED BY <2>1, <3>3
  <2>5. First(i - 1)
    <3>1. i - 1 \in Nat /\ i - 1 <= n /\ ~(i <= i - 1)  BY <1>1, <2>2, <2>4
    <3> HIDE DEF First
    <3> QED BY <2>1, <3>1
  <2>6. seq[i] \in S /\ seq[i] \in A
    <3>1. i \in DOMAIN seq  BY <1>1, <2>2, <2>4
    <3>2. seq[i] \in ToSet(seq)  BY <3>1 DEF ToSet
    <3> QED BY <3>1, <3>2
  <2> DEFINE s == g[i - 1]  x == seq[i]
  <2>7. g[i] = s \o <<x>>  BY <2>3, <2>4, <2>6
  <2>8. s \in Seq(A) /\ Len(s) = i - 1 /\ \A j \in 1..(i - 1) : s[j] = seq[j]  BY <2>5
  <2>9. x \in A  BY <2>6
  <2> HIDE DEF s
  <2>10. <<x>> \in Seq(A) /\ Len(<<x>>) = 1 /\ <<x>>[1] = x  BY <2>9
  <2>11. g[i] \in Seq(A) /\ Len(g[i]) = i  BY <2>2, <2>4, <2>7, <2>8, <2>10
  <2>12. ASSUME NEW j \in 1..i PROVE g[i][j] = seq[j]
    <3>1. CASE j = i  BY <2>2, <2>4, <2>7, <2>8, <2>10, <3>1
    <3>2. CASE j # i
      <4>1. j \in 1..(i - 1)  BY <2>2, <3>2
      <4> QED BY <2>2, <2>4, <2>7, <2>8, <2>10, <4>1
    <3> QED BY <3>1, <3>2
  <2>13. First(i)  BY <2>11, <2>12
  <2> HIDE DEF First
  <2> QED BY <2>1, <2>13
<1>5. First(n)
  <2> HIDE DEF First
  <2> QED BY <1>1, <1>4
<1> HIDE DEF g
<1>6. g[n] = seq
  <2>1. g[n] \in Seq(A) /\ Len(g[n]) = Len(seq) /\ \A j \in 1..Len(seq) : g[n][j] = seq[j]  BY <1>5
  <2> DEFINE t == g[n]
  <2>2. t \in [1..Len(t) -> A] /\ seq \in [1..Len(seq) -> A]  BY <2>1
  <2> QED BY <2>1, <2>2
<1> QED BY <1>3, <1>6
-----------------------------------------------------------------------------
(* A structure more                                                          *)

LEMMA Appended ==
  ASSUME NEW S \in Seq(Structures), NEW s \in Structures, NEW T, T = Append(S, s)
  PROVE  /\ Len(S) \in Nat /\ T \in Seq(Structures) /\ T # <<>>
         /\ Len(T) = Len(S) + 1 /\ 1..Len(T) = 1..Len(S) \cup {Len(S) + 1}
         /\ T[Len(S) + 1] = s
         /\ \A v \in 1..Len(S) : T[v] = S[v]
<1>1. Len(S) \in Nat /\ T \in Seq(Structures) /\ Len(T) = Len(S) + 1  OBVIOUS
<1>2. T[Len(S) + 1] = s /\ \A v \in 1..Len(S) : T[v] = S[v]  OBVIOUS
<1>3. T # <<>>  BY <1>1
<1>4. 1..Len(T) = 1..Len(S) \cup {Len(S) + 1}  BY <1>1
<1> QED BY <1>1, <1>2, <1>3, <1>4

LEMMA AppendOne ==
  ASSUME NEW A, NEW seq \in Seq(A), NEW x
  PROVE  /\ Len(seq) \in Nat /\ Len(Append(seq, x)) = Len(seq) + 1
         /\ 1..(Len(seq) + 1) = 1..Len(seq) \cup {Len(seq) + 1}
         /\ Append(seq, x)[Len(seq) + 1] = x
         /\ \A i \in 1..Len(seq) : Append(seq, x)[i] = seq[i]
<1> DEFINE t == Append(seq, x)
<1>1. seq \in Seq(A \cup {x}) /\ x \in A \cup {x}  OBVIOUS
<1>2. /\ Len(seq) \in Nat /\ Len(t) = Len(seq) + 1 /\ t[Len(seq) + 1] = x
      /\ \A i \in 1..Len(seq) : t[i] = seq[i]
  BY <1>1
<1>3. 1..(Len(seq) + 1) = 1..Len(seq) \cup {Len(seq) + 1}  BY <1>2
<1> QED BY <1>2, <1>3

LEMMA EntryGrows ==
  ASSUME NEW S \in Seq(Structures), NEW s \in Structures, NEW T, T = Append(S, s),
         NEW e, EntryOK(e, S)
  PROVE  EntryOK(e, T)
<1>1. Len(S) \in Nat /\ 1..Len(T) = 1..Len(S) \cup {Len(S) + 1}  BY Appended
<1>2. \A v \in 1..Len(S) : T[v] = S[v]  BY Appended
<1> QED BY <1>1, <1>2 DEF EntryOK

\* What a request has read stays what it was; only the index moves on.
LEMMA ReqGrows ==
  ASSUME NEW S \in Seq(Structures), NEW s \in Structures, NEW T, T = Append(S, s),
         NEW head, NEW newHead, \A e : EntryOK(e, S) => e # newHead,
         NEW r, ReqOK(r, S, head)
  PROVE  ReqOK(r, T, newHead)
<1>1. Len(S) \in Nat /\ 1..Len(T) = 1..Len(S) \cup {Len(S) + 1} /\ Len(T) = Len(S) + 1  BY Appended
<1>2. \A v \in 1..Len(S) : T[v] = S[v]  BY Appended
<1>3. 0..Len(S) \subseteq 0..Len(T) /\ \A v \in 0..Len(S) : v # 0 => v \in 1..Len(S)  BY <1>1
<1>4. SUFFICES ASSUME r # Idle PROVE ReqOK(r, T, newHead)  BY DEF ReqOK
<1>5. ReadOK(r, S)  BY <1>4 DEF ReqOK
<1>6. ReadOK(r, T)
  <2>1. "entry" \in DOMAIN r => EntryOK(r.entry, T)  BY <1>5, EntryGrows DEF ReadOK
  <2> QED BY <1>3, <1>5, <2>1 DEF ReadOK
<1>7. CASE r.op = "create" /\ CreateOK(r, S)
  <2>1. CreateOK(r, T)  BY <1>2, <1>3, <1>5, <1>7 DEF CreateOK, ReadOK
  <2> QED BY <1>6, <1>7, <2>1 DEF ReqOK
<1>8. CASE r.op = "update" /\ UpdateOK(r, S)
  <2>1. r.base \in 0..Len(S) /\ r.base # 0  BY <1>5, <1>8 DEF UpdateOK, ReadOK
  <2>2. UpdateOK(r, T)  BY <1>2, <1>3, <1>8, <2>1 DEF UpdateOK
  <2> QED BY <1>6, <1>8, <2>2 DEF ReqOK
<1>9. CASE r.op = "delete" /\ DeleteOK(r, S, head)
  <2>1. "entry" \in DOMAIN r => r.entry # newHead  BY <1>5 DEF ReadOK
  <2>2. DeleteOK(r, T, newHead)  BY <1>9, <2>1 DEF DeleteOK
  <2> QED BY <1>6, <1>9, <2>2 DEF ReqOK
<1>10. CASE r.op = "publish" /\ PublishOK(r, S)
  <2>1. PublishOK(r, T)  BY <1>1, <1>2, <1>10 DEF PublishOK
  <2> QED BY <1>6, <1>10, <2>1 DEF ReqOK
<1> QED BY <1>4, <1>7, <1>8, <1>9, <1>10 DEF ReqOK

\* Unless the index moved on, a structure is made from the head.
LEMMA MadeFromHead ==
  ASSUME Inv, NEW h \in Handlers, req[h] # Idle, {"entry", "base"} \subseteq DOMAIN req[h],
         req[h].op = "create" => req[h].base # 0,
         index = req[h].entry, req[h].guid = 0 => req[h].base = req[h].entry[req[h].branch]
  PROVE  req[h].base = index[req[h].branch]
<1> DEFINE r == req[h]
<1>1. ReqOK(r, structures, index)  BY DEF Inv
<1>2. ReadOK(r, structures)  BY <1>1 DEF ReqOK
<1>3. CASE r.guid = 0  BY <1>3
<1>4. CASE r.guid # 0
  <2>1. r.guid = r.entry[r.branch]  BY <1>2, <1>4 DEF ReadOK
  <2>2. r.base = r.guid  BY <1>1, <1>4 DEF ReqOK, CreateOK, UpdateOK, DeleteOK, PublishOK
  <2> QED BY <2>1, <2>2
<1> QED BY <1>3, <1>4

LEMMA HistoryLed ==
  ASSUME NEW v \in Versions
  PROVE  History(v) = Led(structures, v)
BY DEF History, Subtree, Led, Versions

LEMMA LedGrows ==
  ASSUME NEW S \in Seq(Structures), NEW s \in Structures, NEW T, T = Append(S, s),
         \A v \in 1..Len(S) : S[v].previous \in 0..(v - 1)
  PROVE  /\ \A v \in 1..Len(S) : Led(S, v) \subseteq Led(T, v)
         /\ Len(T) \in Led(T, Len(T))
         /\ s.previous \in 1..Len(S) => Led(S, s.previous) \subseteq Led(T, Len(T))
<1> DEFINE n == Len(S)  V == 1..n  W == 1..Len(T)
           Closed(U) == \A x \in U : S[x].previous \in V => S[x].previous \in U
           ClosedNext(U) == \A x \in U : T[x].previous \in W => T[x].previous \in U
<1>1. /\ n \in Nat /\ Len(T) = n + 1 /\ W = V \cup {n + 1} /\ T[n + 1] = s
      /\ \A v \in V : T[v] = S[v]
  BY Appended
<1>2. ASSUME NEW U \in SUBSET W, ClosedNext(U)
      PROVE  U \cap V \in SUBSET V /\ Closed(U \cap V)
  <2>1. ASSUME NEW x \in U \cap V, S[x].previous \in V PROVE S[x].previous \in U \cap V
    <3>1. T[x].previous = S[x].previous /\ S[x].previous \in W  BY <1>1, <2>1
    <3> QED BY <1>2, <2>1, <3>1
  <2> QED BY <2>1
<1>3. ASSUME NEW v \in V PROVE Led(S, v) \subseteq Led(T, v)
  <2> SUFFICES ASSUME NEW u \in Led(S, v) PROVE u \in Led(T, v)  OBVIOUS
  <2>1. ASSUME NEW U \in SUBSET W, v \in U, ClosedNext(U) PROVE u \in U
    <3>1. U \cap V \in SUBSET V /\ Closed(U \cap V) /\ v \in U \cap V  BY <1>2, <2>1
    <3> QED BY <3>1 DEF Led
  <2>2. u \in W  BY <1>1 DEF Led
  <2> QED BY <2>1, <2>2 DEF Led
<1>4. Len(T) \in Led(T, Len(T))
  <2>1. Len(T) \in 1..Len(T)  BY <1>1
  <2> QED BY <2>1 DEF Led
<1>5. ASSUME s.previous \in V PROVE Led(S, s.previous) \subseteq Led(T, Len(T))
  <2> SUFFICES ASSUME NEW u \in Led(S, s.previous), NEW U \in SUBSET W, Len(T) \in U, ClosedNext(U)
               PROVE  u \in W /\ u \in U
    BY <1>5 DEF Led
  <2>1. s.previous \in U
    <3>1. T[Len(T)].previous = s.previous /\ s.previous \in W  BY <1>1, <1>5
    <3> QED BY <3>1
  <2>2. U \cap V \in SUBSET V /\ Closed(U \cap V) /\ s.previous \in U \cap V  BY <1>2, <1>5, <2>1
  <2>3. u \in V /\ u \in U \cap V  BY <1>5, <2>2 DEF Led
  <2> QED BY <1>1, <2>3
<1> QED BY <1>3, <1>4, <1>5
-----------------------------------------------------------------------------
(* A commit keeps the invariant                                              *)

LEMMA Structured ==
  ASSUME StructuresOK, NEW v \in Versions
  PROVE  /\ structures[v] \in Structures /\ structures[v].blocks \in Forests
         /\ DOMAIN structures[v].blocks \in SUBSET Blocks
         /\ structures[v].blocks \in [DOMAIN structures[v].blocks -> Contents]
<1>1. structures[v] \in Structures  BY DEF StructuresOK, Versions
<1>2. structures[v].blocks \in Forests  BY <1>1 DEF Structures
<1>3. PICK D \in SUBSET Blocks : structures[v].blocks \in [D -> Contents]  BY <1>2 DEF Forests
<1> QED BY <1>1, <1>2, <1>3

\* A request that ends changes nothing for the others.
LEMMA Ended ==
  ASSUME Inv, NEW h \in Handlers, Raises(h)
  PROVE  Inv'
<1>1. UNCHANGED <<structures, index, seen>>  BY DEF Raises
<1>2. req' = [req EXCEPT ![h] = Idle]  BY DEF Raises
<1>3. req' = [g \in Handlers |-> req'[g]]  BY <1>2 DEF Inv
<1>4. \A g \in Handlers : req'[g] = IF g = h THEN Idle ELSE req[g]  BY <1>2 DEF Inv
<1>5. \A g \in Handlers : ReqOK(req'[g], structures', index')  BY <1>1, <1>4 DEF Inv, ReqOK
<1>6. StructuresOK' /\ WholeInv' /\ EntryOK(index', structures')
  BY <1>1 DEF Inv, StructuresOK, WholeInv, Versions
<1>7. KeptInv'  BY <1>1 DEF Inv, KeptInv, Versions
<1>8. (seen \subseteq {"raced", "blacklist", "stale", "shared"})'  BY <1>1 DEF Inv
<1> QED BY <1>3, <1>5, <1>6, <1>7, <1>8 DEF Inv

\* A request that reads something more.
LEMMA ReadMore ==
  ASSUME Inv, NEW h \in Handlers, NEW r, ReqOK(r, structures, index),
         req' = [req EXCEPT ![h] = r], UNCHANGED <<structures, index, seen>>
  PROVE  Inv'
<1>1. req' = [g \in Handlers |-> req'[g]]  BY DEF Inv
<1>2. \A g \in Handlers : req'[g] = IF g = h THEN r ELSE req[g]  BY DEF Inv
<1>3. \A g \in Handlers : ReqOK(req'[g], structures', index')  BY <1>2 DEF Inv
<1>4. StructuresOK' /\ WholeInv' /\ EntryOK(index', structures')
  BY DEF Inv, StructuresOK, WholeInv, Versions
<1>5. KeptInv'  BY DEF Inv, KeptInv, Versions
<1>6. (seen \subseteq {"raced", "blacklist", "stale", "shared"})'  BY DEF Inv
<1> QED BY <1>1, <1>3, <1>4, <1>5, <1>6 DEF Inv

LEMMA Committed ==
  ASSUME Inv, NEW h \in Handlers,
         req[h] # Idle, {"entry", "base"} \subseteq DOMAIN req[h],
         req[h].op = "create" => req[h].base # 0,
         NEW blocks \in Forests, Sane(blocks, Len(structures) + 1),
         NEW published \in Publications,
         NEW mark \in SUBSET {"blacklist", "stale", "shared"},
         seen' \cap {"raced", "shared"} = {} => Whole(blocks),
         Commit(h, blocks, published, mark)
  PROVE  Inv'
<1> DEFINE r == req[h]
           n == Len(structures)
           s == [previous |-> r.base, branch |-> r.branch, published |-> published, blocks |-> blocks]
           behind == index # r.entry \/ (r.guid = 0 /\ r.base # r.entry[r.branch])
<1>1. /\ structures' = Append(structures, s)
      /\ index' = [r.entry EXCEPT ![r.branch] = n + 1]
      /\ seen' = seen \cup mark \cup (IF behind THEN {"raced"} ELSE {})
      /\ req' = [req EXCEPT ![h] = Idle]
  BY DEF Commit
<1>2. ReadOK(r, structures)  BY DEF Inv, ReqOK
<1>3. r.branch \in Branches /\ r.base \in 0..n /\ EntryOK(r.entry, structures)  BY <1>2 DEF ReadOK
<1>4. structures \in Seq(Structures) /\ n \in Nat  BY DEF Inv, StructuresOK
<1>5. s \in Structures  BY <1>3, <1>4 DEF Structures
<1> HIDE DEF s, behind
<1>6. /\ structures' \in Seq(Structures) /\ structures' # <<>>
      /\ Len(structures') = n + 1 /\ Versions' = Versions \cup {n + 1} /\ structures'[n + 1] = s
      /\ \A v \in Versions : structures'[v] = structures[v]
  BY <1>1, <1>4, <1>5, Appended DEF Versions
<1>7. /\ s.previous = r.base /\ s.branch = r.branch /\ s.blocks = blocks  BY DEF s
<1>8. StructuresOK'
  <2>1. ASSUME NEW v \in Versions' PROVE /\ structures'[v].previous \in 0..(v - 1)
                                         /\ Sane(structures'[v].blocks, v)
    <3>1. CASE v \in Versions  BY <1>6, <3>1 DEF Inv, StructuresOK
    <3>2. CASE v = n + 1  BY <1>3, <1>4, <1>6, <1>7, <3>2
    <3> QED BY <1>6, <3>1, <3>2
  <2> QED BY <1>6, <2>1 DEF StructuresOK
<1>9. EntryOK(index', structures')
  <2>1. EntryOK(r.entry, structures')  BY <1>1, <1>3, <1>4, <1>5, EntryGrows
  <2>2. n + 1 \in 1..Len(structures') /\ structures'[n + 1].branch = r.branch  BY <1>4, <1>6, <1>7
  <2>3. CASE r.branch = "draft"
    <3>1. index' \in Entries /\ index'.draft = n + 1 /\ index'.published = r.entry.published
      BY <1>1, <1>4, <2>1, <2>3 DEF EntryOK, Entries
    <3> QED BY <2>1, <2>2, <2>3, <3>1 DEF EntryOK
  <2>4. CASE r.branch = "published"
    <3>1. index' \in Entries /\ index'.published = n + 1 /\ index'.draft = r.entry.draft
      BY <1>1, <1>4, <2>1, <2>4 DEF EntryOK, Entries
    <3> QED BY <2>1, <2>2, <2>4, <3>1 DEF EntryOK
  <2> QED BY <1>3, <2>3, <2>4 DEF Branches
<1>10. req' = [g \in Handlers |-> req'[g]] /\ \A g \in Handlers : req'[g] = IF g = h THEN Idle ELSE req[g]
  BY <1>1 DEF Inv
<1>11. ASSUME NEW e, EntryOK(e, structures) PROVE e # index'
  <2>1. index'[r.branch] = n + 1
    BY <1>1, <1>3 DEF EntryOK, Entries, Branches
  <2>2. e[r.branch] \in 0..n
    BY <1>3, <1>4, <1>11 DEF EntryOK, Entries, Branches, StructuresOK, Inv
  <2> QED BY <1>4, <2>1, <2>2
<1>12. \A g \in Handlers : ReqOK(req'[g], structures', index')
  <2>1. ASSUME NEW g \in Handlers PROVE ReqOK(req[g], structures', index')
    <3>1. ReqOK(req[g], structures, index)  BY DEF Inv
    <3>2. \A e : EntryOK(e, structures) => e # index'  BY <1>11
    <3>3. structures' = Append(structures, s)  BY <1>1
    <3> QED BY <1>4, <1>5, <3>1, <3>2, <3>3, ReqGrows
  <2>2. ReqOK(Idle, structures', index')  BY DEF ReqOK
  <2> QED BY <1>10, <2>1, <2>2
<1>13. (seen \subseteq {"raced", "blacklist", "stale", "shared"})'  BY <1>1 DEF Inv
<1>14. WholeInv'
  <2>1. SUFFICES ASSUME seen' \cap {"raced", "shared"} = {}, NEW v \in Versions'
                 PROVE  Whole(structures'[v].blocks)
    BY DEF WholeInv
  <2>2. CASE v \in Versions
    <3>1. seen \cap {"raced", "shared"} = {}  BY <1>1, <2>1
    <3> QED BY <1>6, <2>2, <3>1 DEF Inv, WholeInv
  <2>3. CASE v = n + 1  BY <1>6, <1>7, <2>1, <2>3
  <2> QED BY <1>6, <2>2, <2>3
<1>15. KeptInv'
  <2> SUFFICES ASSUME "raced" \notin seen', NEW v \in Versions'
               PROVE  LET head == index'[structures'[v].branch] IN
                      head # 0 /\ v \in Led(structures', head)
    BY DEF KeptInv
  <2> DEFINE branch == structures'[v].branch
  <2>1. "raced" \notin seen /\ ~behind  BY <1>1
  <2>2. index = r.entry /\ r.base = index[r.branch]  BY <2>1, MadeFromHead DEF behind
  <2>3. index'[r.branch] = n + 1 /\ \A b \in Branches \ {r.branch} : index'[b] = index[b]
    BY <1>1, <1>3, <2>2 DEF EntryOK, Entries, Branches
  <2>4. \A u \in 1..n : structures[u].previous \in 0..(u - 1)  BY DEF Inv, StructuresOK, Versions
  <2>5. /\ \A u \in 1..n : Led(structures, u) \subseteq Led(structures', u)
        /\ n + 1 \in Led(structures', n + 1)
        /\ r.base \in 1..n => Led(structures, r.base) \subseteq Led(structures', n + 1)
    BY <1>1, <1>4, <1>5, <1>6, <1>7, <2>4, LedGrows
  <2>6. branch \in Branches
    <3>1. structures'[v] \in Structures  BY <1>6 DEF Versions
    <3> QED BY <3>1 DEF Structures
  <2>7. ASSUME v \in Versions
        PROVE  index[branch] \in 1..n /\ v \in Led(structures, index[branch])
    <3>1. structures[v].branch = branch  BY <1>6, <2>7
    <3>2. index[branch] # 0 /\ v \in Led(structures, index[branch])  BY <2>1, <2>7, <3>1 DEF Inv, KeptInv
    <3>3. index[branch] \in 1..n
      BY <1>4, <2>6, <3>2 DEF Inv, EntryOK, Entries, Branches, StructuresOK
    <3> QED BY <3>2, <3>3
  <2>8. CASE branch = r.branch
    <3>1. n + 1 # 0  BY <1>4
    <3>2. v \in Led(structures', n + 1)
      <4>1. CASE v \in Versions  BY <2>2, <2>5, <2>7, <2>8, <4>1
      <4>2. CASE v = n + 1  BY <2>5, <4>2
      <4> QED BY <1>6, <4>1, <4>2
    <3> QED BY <2>3, <2>8, <3>1, <3>2
  <2>9. CASE branch # r.branch
    <3>1. v \in Versions  BY <1>6, <1>7, <2>9
    <3>2. index'[branch] = index[branch] /\ index[branch] \in 1..n /\ v \in Led(structures, index[branch])
      BY <2>3, <2>6, <2>7, <2>9, <3>1
    <3>3. index[branch] # 0  BY <3>2
    <3> QED BY <2>5, <3>2, <3>3
  <2> QED BY <2>8, <2>9
<1> QED BY <1>8, <1>9, <1>10, <1>12, <1>13, <1>14, <1>15 DEF Inv
-----------------------------------------------------------------------------
(* create_item                                                               *)

LEMMA SetOfAppend ==
  ASSUME NEW A, NEW seq \in Seq(A), NEW x \in A
  PROVE  Append(seq, x) \in Seq(A) /\ ToSet(Append(seq, x)) = ToSet(seq) \cup {x}
<1> DEFINE t == Append(seq, x)  n == Len(seq)
<1>1. t \in Seq(A) /\ Len(t) = n + 1 /\ n \in Nat /\ t[n + 1] = x /\ \A i \in 1..n : t[i] = seq[i]
  OBVIOUS
<1>2. DOMAIN t = 1..n \cup {n + 1} /\ DOMAIN seq = 1..n  BY <1>1
<1> HIDE DEF t
<1>3. ToSet(t) = ToSet(seq) \cup {x}  BY <1>1, <1>2 DEF ToSet
<1> QED BY <1>1, <1>3 DEF t

LEMMA Requested ==
  ASSUME Inv, NEW h \in Handlers, req[h].op # "idle"
  PROVE  /\ req[h] # Idle /\ ReadOK(req[h], structures)
         /\ req[h].op = "create" => CreateOK(req[h], structures)
         /\ req[h].op = "update" => UpdateOK(req[h], structures)
         /\ req[h].op = "delete" => DeleteOK(req[h], structures, index)
         /\ req[h].op = "publish" => PublishOK(req[h], structures)
<1>1. ReqOK(req[h], structures, index) /\ req[h] # Idle  BY DEF Inv, Idle
<1> QED BY <1>1 DEF ReqOK

LEMMA Lookup ==
  ASSUME Inv, NEW branch \in Branches, NEW guid, LookupCourse(branch, guid) # 0
  PROVE  /\ LookupCourse(branch, guid) = index[branch] /\ index[branch] \in Versions
         /\ guid \in {0, index[branch]}
BY DEF LookupCourse, Inv, EntryOK, Entries, Branches, Versions, StructuresOK

LEMMA ValidIndex ==
  ASSUME Inv, NEW guid \in Nat, IndexIfValid("draft", guid)
  PROVE  index.draft \in Versions /\ guid \in {0, index.draft} /\ guid \in 0..Len(structures)
BY DEF IndexIfValid, Inv, EntryOK, Entries, Versions, StructuresOK

LEMMA GuidsAreVersions ==
  ASSUME Inv, NEW branch, NEW guid \in Guids(branch)
  PROVE  guid \in Nat /\ guid \in 0..Len(structures) /\ (guid # 0 => guid \in Versions)
BY DEF Guids, Versions, Inv, StructuresOK

LEMMA CreateKeeps ==
  ASSUME Inv, Create
  PROVE  Inv'
<1>1. PICK h \in Free, guid \in Guids("draft") :
        LET there == DOMAIN structures[index.draft].blocks IN
        \E b \in Blocks \ there, parent \in (there \ Leaves) \cup {"none"} : BeginCreate(h, guid, b, parent)
  BY DEF Create
<1> DEFINE there == DOMAIN structures[index.draft].blocks
<1>2. PICK b \in Blocks \ there, parent \in (there \ Leaves) \cup {"none"} : BeginCreate(h, guid, b, parent)
  BY <1>1
<1> DEFINE r == [op |-> "create", branch |-> "draft", guid |-> guid, block |-> b,
                 parent |-> parent, entry |-> index, base |-> 0]
<1>3. h \in Handlers  BY DEF Free
<1>4. /\ req' = [req EXCEPT ![h] = r] /\ UNCHANGED <<structures, index, seen>>
      /\ IndexIfValid("draft", guid)
  BY <1>2 DEF BeginCreate, Begin
<1>5. index.draft \in Versions /\ guid \in {0, index.draft} /\ guid \in 0..Len(structures)
  BY <1>4, ValidIndex, GuidsAreVersions
<1>6. Root \in there /\ there \in SUBSET Blocks  BY <1>5, Structured DEF Inv, StructuresOK, Sane
<1>7. DOMAIN r = {"op", "branch", "guid", "block", "parent", "entry", "base"}  OBVIOUS
<1>8. ReadOK(r, structures)
  BY <1>5, <1>7 DEF ReadOK, Inv, Branches, StructuresOK
<1>9. CreateOK(r, structures)  BY <1>2, <1>6, <1>7 DEF CreateOK
<1>10. ReqOK(r, structures, index)  BY <1>8, <1>9 DEF ReqOK
<1> HIDE DEF r
<1> QED BY <1>3, <1>4, <1>10, ReadMore

LEMMA LookupToCreateKeeps ==
  ASSUME Inv, NEW h \in Handlers, LookupToCreate(h)
  PROVE  Inv'
<1> DEFINE r == req[h]  base == LookupCourse(r.branch, r.guid)  t == [r EXCEPT !.base = base]
<1>1. r.op = "create"  BY DEF LookupToCreate
<1>2. ReadOK(r, structures) /\ CreateOK(r, structures)  BY <1>1, Requested
<1>3. CASE Raises(h)  BY <1>3, Ended
<1>4. CASE /\ base # 0 /\ r.block \notin DOMAIN structures[base].blocks
           /\ r.parent = "none" \/ r.parent \in DOMAIN structures[base].blocks
           /\ req' = [req EXCEPT ![h].base = base] /\ UNCHANGED <<structures, index, seen>>
  <2>1. r.branch \in Branches  BY <1>2 DEF ReadOK
  <2>2. base = index[r.branch] /\ base \in Versions /\ r.guid \in {0, base}
    BY <1>4, <2>1, Lookup
  <2>3. base \in 0..Len(structures)  BY <2>2 DEF Versions, Inv, StructuresOK
  <2>4. /\ DOMAIN t = DOMAIN r /\ t.base = base /\ t.op = r.op /\ t.branch = r.branch /\ t.guid = r.guid
        /\ t.entry = r.entry /\ t.block = r.block /\ t.parent = r.parent
    BY <1>2 DEF ReadOK, CreateOK
  <2>5. req' = [req EXCEPT ![h] = t]  BY <1>4
  <2> HIDE DEF t, base
  <2>6. ReadOK(t, structures)  BY <1>2, <2>3, <2>4 DEF ReadOK
  <2>7. CreateOK(t, structures)  BY <1>2, <1>4, <2>2, <2>4 DEF CreateOK
  <2>8. ReqOK(t, structures, index)  BY <1>1, <2>4, <2>6, <2>7 DEF ReqOK
  <2> QED BY <1>4, <2>5, <2>8, ReadMore
<1> QED BY <1>3, <1>4 DEF LookupToCreate

\* What a commit notes tells whether all structures were whole before.
LEMMA StillClean ==
  ASSUME Inv, NEW h \in Handlers, NEW blocks, NEW published, NEW mark,
         Commit(h, blocks, published, mark), seen' \cap {"raced", "shared"} = {}
  PROVE  /\ \A v \in Versions : Whole(structures[v].blocks)
         /\ index = req[h].entry /\ mark \cap {"shared"} = {}
         /\ req[h].guid = 0 => req[h].base = req[h].entry[req[h].branch]
BY DEF Commit, Inv, WholeInv

LEMMA CommitCreateKeeps ==
  ASSUME Inv, NEW h \in Handlers, CommitCreate(h)
  PROVE  Inv'
<1> DEFINE r == req[h]  old == structures[r.base].blocks  new == Len(structures) + 1
           D == DOMAIN old \cup {r.block}
           blocks == [b \in D |->
                        CASE b = r.block -> Block(<<>>, FALSE, new)
                          [] b = r.parent -> Block(Append(old[b].children, r.block), TRUE, new)
                          [] OTHER -> old[b]]
<1>1. r.op = "create" /\ r.base # 0 /\ Commit(h, blocks, NotPublished, {})  BY DEF CommitCreate
<1>2. r # Idle /\ ReadOK(r, structures) /\ CreateOK(r, structures)  BY <1>1, Requested
<1>3. r.base \in Versions /\ new \in Nat /\ Len(structures) \in Nat
  BY <1>1, <1>2 DEF ReadOK, CreateOK, Versions, Inv, StructuresOK
<1>4. /\ DOMAIN old \in SUBSET Blocks /\ \A b \in DOMAIN old : old[b] \in Contents
      /\ Sane(old, r.base)
  BY <1>3, Structured DEF Inv, StructuresOK
<1>5. /\ r.block \in Blocks \ {Root} /\ r.block \notin DOMAIN old
      /\ r.parent # "none" => r.parent \in DOMAIN old /\ r.parent \notin Leaves
      /\ r.block # r.parent
  BY <1>1, <1>2, BlockAssumption DEF CreateOK
<1>6. ASSUME NEW b \in D
      PROVE  /\ blocks[b] \in Contents
             /\ blocks[b].update \in 1..new
             /\ ~blocks[b].listed \/ b \in Leaves => blocks[b].children = <<>>
             /\ ToSet(blocks[b].children) \subseteq
                  (IF b \in DOMAIN old THEN ToSet(old[b].children) ELSE {}) \cup {r.block}
  <2>1. CASE b = r.block
    <3>1. blocks[b] = [children |-> <<>>, listed |-> FALSE, update |-> new]  BY <1>5, <2>1 DEF Block
    <3> HIDE DEF blocks
    <3>2. blocks[b] \in Contents /\ ToSet(<<>>) = {}  BY <1>3, <3>1 DEF Contents, ToSet
    <3>3. blocks[b].update = new /\ blocks[b].children = <<>> /\ new \in 1..new  BY <1>3, <3>1
    <3> QED BY <3>2, <3>3
  <2>2. CASE b # r.block /\ b = r.parent
    <3>1. b \in DOMAIN old /\ b \notin Leaves
      <4>1. b \in Blocks  BY <1>4, <1>5
      <4> QED BY <1>5, <2>2, <4>1, BlockAssumption
    <3>2. blocks[b] = [children |-> Append(old[b].children, r.block), listed |-> TRUE, update |-> new]
      BY <2>2 DEF Block
    <3>3. old[b].children \in Seq(Blocks)  BY <1>4, <3>1 DEF Contents
    <3>4. /\ Append(old[b].children, r.block) \in Seq(Blocks)
          /\ ToSet(Append(old[b].children, r.block)) = ToSet(old[b].children) \cup {r.block}
      BY <1>5, <3>3, SetOfAppend
    <3> HIDE DEF blocks
    <3>5. blocks[b] \in Contents  BY <1>3, <3>2, <3>4 DEF Contents
    <3>6. blocks[b].update = new /\ blocks[b].listed /\ new \in 1..new  BY <1>3, <3>2
    <3>7. ToSet(blocks[b].children) = ToSet(old[b].children) \cup {r.block}  BY <3>2, <3>4
    <3> QED BY <3>1, <3>5, <3>6, <3>7
  <2>3. CASE b # r.block /\ b # r.parent
    <3>1. b \in DOMAIN old /\ blocks[b] = old[b]  BY <2>3
    <3>2. 1..r.base \subseteq 1..new  BY <1>3 DEF Versions
    <3> HIDE DEF blocks
    <3> QED BY <1>4, <3>1, <3>2 DEF Sane
  <2> QED BY <2>1, <2>2, <2>3
<1>7. DOMAIN blocks = D  OBVIOUS
<1>8. blocks \in Forests
  <2>1. D \in SUBSET Blocks  BY <1>4, <1>5
  <2>2. blocks \in [D -> Contents]  BY <1>6
  <2> HIDE DEF D, blocks
  <2> QED BY <2>1, <2>2 DEF Forests
<1> HIDE DEF blocks
<1>9. Sane(blocks, new)
  BY <1>4, <1>5, <1>6, <1>7 DEF Sane, ChildrenIn
<1>10. seen' \cap {"raced", "shared"} = {} => Whole(blocks)
  <2>1. seen' \cap {"raced", "shared"} = {} => Whole(old)  BY <1>1, <1>3, StillClean
  <2> QED BY <1>6, <1>7, <2>1 DEF Whole, ChildrenIn
<1>11. {"entry", "base"} \subseteq DOMAIN r  BY <1>2 DEF CreateOK
<1>12. NotPublished \in Publications  BY BlockAssumption DEF NotPublished, Publications
<1> QED BY <1>1, <1>2, <1>8, <1>9, <1>10, <1>11, <1>12, Committed
-----------------------------------------------------------------------------
(* update_item                                                               *)

LEMMA NotedFields ==
  ASSUME NEW r, NEW name, NEW value, NEW t, t = Noted(r, name, value)
  PROVE  /\ DOMAIN t = DOMAIN r \cup {name} /\ t[name] = value
         /\ \A field \in DOMAIN r \ {name} : t[field] = r[field]
BY DEF Noted

\* What an editor makes of the children is of the children and of the course.
LEMMA EditedChildren ==
  ASSUME NEW blocks, DOMAIN blocks \in SUBSET Blocks, NEW v, Sane(blocks, v),
         NEW b \in DOMAIN blocks, blocks[b] \in Contents, NEW children \in Edited(blocks, b)
  PROVE  /\ children \in Seq(Blocks \ {Root})
         /\ ToSet(children) \subseteq ChildrenIn(blocks, b) \cup DOMAIN blocks
         /\ b \in Leaves => children = <<>>
<1> DEFINE old == blocks[b].children  A == Blocks \ {Root}
<1>1. ToSet(old) \subseteq A /\ (b \in Leaves => old = <<>>) /\ old \in Seq(Blocks)
  <2>1. old \in Seq(Blocks)  BY DEF Contents
  <2>2. ToSet(old) \subseteq Blocks  BY <2>1 DEF ToSet
  <2> QED BY <2>1, <2>2 DEF Sane, ChildrenIn
<1>2. old \in Seq(A) /\ Len(old) \in Nat /\ DOMAIN old = 1..Len(old)
  <2>1. \A i \in 1..Len(old) : old[i] \in A  BY <1>1 DEF ToSet
  <2> QED BY <1>1, <2>1
<1>3. ChildrenIn(blocks, b) = ToSet(old)  BY DEF ChildrenIn
<1> HIDE DEF old
<1>4. CASE children = old  BY <1>1, <1>2, <1>3, <1>4
<1>5. ASSUME NEW i \in DOMAIN old, children = RemoveAt(old, i)
      PROVE  children \in Seq(A) /\ ToSet(children) \subseteq ToSet(old) /\ b \notin Leaves
  <2>1. i \in 1..Len(old) /\ b \notin Leaves  BY <1>1, <1>2
  <2> DEFINE s == SubSeq(old, 1, i - 1)  t == SubSeq(old, i + 1, Len(old))
  <2>2. s \in Seq(A) /\ Len(s) = i - 1 /\ \A j \in 1..(i - 1) : s[j] = old[j]  BY <1>2, <2>1
  <2>3. t \in Seq(A) /\ Len(t) = Len(old) - i /\ \A j \in 1..(Len(old) - i) : t[j] = old[i + j]
    BY <1>2, <2>1
  <2>4. children = s \o t  BY <1>5 DEF RemoveAt
  <2> HIDE DEF s, t
  <2>5. /\ children \in Seq(A) /\ Len(children) = Len(s) + Len(t)
        /\ \A j \in 1..Len(s) : children[j] = s[j]
        /\ \A j \in 1..Len(t) : children[Len(s) + j] = t[j]
    BY <2>2, <2>3, <2>4
  <2>6. ASSUME NEW j \in DOMAIN children PROVE children[j] \in ToSet(old)
    <3>1. j \in 1..(Len(s) + Len(t))  BY <2>5
    <3>2. CASE j <= i - 1
      <4>1. j \in 1..Len(s) /\ j \in 1..(i - 1) /\ j \in DOMAIN old  BY <1>2, <2>1, <2>2, <3>1, <3>2
      <4> QED BY <2>2, <2>5, <4>1 DEF ToSet
    <3>3. CASE ~(j <= i - 1)
      <4> DEFINE k == j - (i - 1)
      <4>1. k \in 1..Len(t) /\ k \in 1..(Len(old) - i) /\ i + k \in DOMAIN old /\ j = Len(s) + k
        BY <1>2, <2>1, <2>2, <2>3, <3>1, <3>3
      <4> HIDE DEF k
      <4> QED BY <2>3, <2>5, <4>1 DEF ToSet
    <3> QED BY <3>2, <3>3
  <2> QED BY <2>1, <2>5, <2>6 DEF ToSet
<1>6. CASE children = Reverse(old)
  <2>1. children = [i \in 1..Len(old) |-> old[Len(old) - i + 1]]  BY <1>6 DEF Reverse
  <2>2. \A i \in 1..Len(old) : Len(old) - i + 1 \in 1..Len(old)  BY <1>2
  <2>3. \A i \in 1..Len(old) : children[i] \in A /\ children[i] \in ToSet(old)
    BY <1>2, <2>1, <2>2 DEF ToSet
  <2>4. DOMAIN children = 1..Len(old)  BY <2>1
  <2>5. children \in Seq(A)  BY <1>2, <2>1, <2>3
  <2>6. b \in Leaves => children = <<>>
    <3>1. b \in Leaves => Len(children) = 0  BY <1>1, <1>2, <2>4, <2>5
    <3> QED BY <2>5, <3>1
  <2> QED BY <1>3, <2>3, <2>4, <2>5, <2>6 DEF ToSet
<1>7. ASSUME b \notin Leaves, NEW c \in Leaves \cap DOMAIN blocks, children = Append(old, c)
      PROVE  children \in Seq(A) /\ ToSet(children) \subseteq ToSet(old) \cup DOMAIN blocks
  <2>1. c \in A  BY BlockAssumption
  <2> QED BY <1>2, <1>7, <2>1, SetOfAppend
<1> QED BY <1>3, <1>4, <1>5, <1>6, <1>7 DEF Edited, old

LEMMA UpdateKeeps ==
  ASSUME Inv, Update
  PROVE  Inv'
<1>0. PICK h \in Free, guid \in Guids("draft") \ {0} :
        \E b \in DOMAIN structures[guid].blocks :
          \E children \in Edited(structures[guid].blocks, b) : BeginUpdate(h, guid, b, children)
  BY DEF Update
<1>b. PICK b \in DOMAIN structures[guid].blocks :
        \E children \in Edited(structures[guid].blocks, b) : BeginUpdate(h, guid, b, children)
  BY <1>0
<1>1. PICK children \in Edited(structures[guid].blocks, b) : BeginUpdate(h, guid, b, children)
  BY <1>b
<1> DEFINE base == LookupCourse("draft", guid)
           r == [op |-> "update", branch |-> "draft", guid |-> guid, block |-> b,
                 children |-> children, base |-> base]
<1>2. h \in Handlers /\ "draft" \in Branches  BY DEF Free, Branches
<1>3. /\ req' = [req EXCEPT ![h] = r] /\ UNCHANGED <<structures, index, seen>>
      /\ guid # 0 /\ base # 0
  BY <1>1 DEF BeginUpdate, Begin
<1>4. base = guid /\ guid \in Versions  BY <1>2, <1>3, Lookup
<1>5. guid \in 0..Len(structures)  BY GuidsAreVersions
<1>6. /\ Sane(structures[guid].blocks, guid) /\ structures[guid].blocks[b] \in Contents
      /\ DOMAIN structures[guid].blocks \in SUBSET Blocks
  BY <1>4, Structured DEF Inv, StructuresOK
<1> HIDE DEF base
<1>7. DOMAIN r = {"op", "branch", "guid", "block", "children", "base"}  OBVIOUS
<1>8. ReadOK(r, structures)  BY <1>2, <1>4, <1>5, <1>7 DEF ReadOK
<1>9. UpdateOK(r, structures)
  <2>1. /\ children \in Seq(Blocks \ {Root})
        /\ ToSet(children) \subseteq ChildrenIn(structures[guid].blocks, b) \cup DOMAIN structures[guid].blocks
        /\ b \in Leaves => children = <<>>
    BY <1>6, EditedChildren
  <2> QED BY <1>3, <1>4, <1>7, <2>1 DEF UpdateOK
<1>10. ReqOK(r, structures, index)  BY <1>8, <1>9 DEF ReqOK
<1> HIDE DEF r
<1> QED BY <1>2, <1>3, <1>10, ReadMore

LEMMA ReadIndexKeeps ==
  ASSUME Inv, NEW h \in Handlers, ReadIndex(h)
  PROVE  Inv'
<1> DEFINE r == req[h]  t == Noted(r, "entry", index)
<1>1. r.op \in {"update", "delete"} /\ "entry" \notin DOMAIN r  BY DEF ReadIndex
<1>2. ReadOK(r, structures) /\ ReqOK(r, structures, index)  BY <1>1, Requested DEF Inv
<1>3. CASE Raises(h)  BY <1>3, Ended
<1>4. CASE /\ IndexIfValid(r.branch, r.guid)
           /\ req' = [req EXCEPT ![h] = t] /\ UNCHANGED <<structures, index, seen>>
  <2>1. DOMAIN t = DOMAIN r \cup {"entry"} /\ t.entry = index
        /\ \A field \in DOMAIN r : t[field] = r[field]
    BY <1>1 DEF Noted
  <2> HIDE DEF t
  <2>2. t.branch = r.branch /\ t.guid = r.guid /\ t.op = r.op  BY <1>2, <2>1 DEF ReadOK
  <2>3. ReadOK(t, structures)
    <3>1. EntryOK(index, structures) /\ r.guid \in {0, index[r.branch]}  BY <1>4 DEF Inv, IndexIfValid
    <3>2. "base" \in DOMAIN t => "base" \in DOMAIN r /\ t.base = r.base  BY <2>1
    <3> QED BY <1>2, <2>1, <2>2, <3>1, <3>2 DEF ReadOK
  <2>4. CASE r.op = "update"
    <3>1. UpdateOK(r, structures)  BY <2>4, Requested
    <3>2. t.block = r.block /\ t.children = r.children /\ t.base = r.base  BY <2>1, <3>1 DEF UpdateOK
    <3>3. UpdateOK(t, structures)  BY <2>1, <2>2, <3>1, <3>2 DEF UpdateOK
    <3> QED BY <1>4, <2>2, <2>3, <2>4, <3>3, ReadMore DEF ReqOK
  <2>5. CASE r.op = "delete"
    <3>1. DeleteOK(r, structures, index)  BY <2>5, Requested
    <3>2. t.block = r.block /\ t.whole = r.whole /\ t.base = r.base /\ "parents" \notin DOMAIN t
      BY <1>1, <2>1, <3>1 DEF DeleteOK
    <3>3. DeleteOK(t, structures, index)  BY <2>1, <2>2, <3>1, <3>2 DEF DeleteOK
    <3> QED BY <1>4, <2>2, <2>3, <2>5, <3>3, ReadMore DEF ReqOK
  <2> QED BY <1>1, <2>4, <2>5
<1> QED BY <1>3, <1>4 DEF ReadIndex

LEMMA CommitUpdateKeeps ==
  ASSUME Inv, NEW h \in Handlers, CommitUpdate(h)
  PROVE  Inv'
<1> DEFINE r == req[h]  old == structures[r.base].blocks  new == Len(structures) + 1
           listed == r.block \notin Leaves
           block == Block(r.children, listed, new)
           blocks == [old EXCEPT ![r.block] = block]
<1>1. r.op = "update" /\ "entry" \in DOMAIN r /\ Commit(h, blocks, NotPublished, {})  BY DEF CommitUpdate
<1>2. r # Idle /\ ReadOK(r, structures) /\ UpdateOK(r, structures)  BY <1>1, Requested
<1>3. r.base \in Versions /\ new \in Nat /\ Len(structures) \in Nat
  BY <1>1, <1>2 DEF ReadOK, UpdateOK, Versions, Inv, StructuresOK
<1>4. /\ DOMAIN old \in SUBSET Blocks /\ old \in [DOMAIN old -> Contents]
      /\ Sane(old, r.base)
  BY <1>3, Structured DEF Inv, StructuresOK
<1>5. /\ r.block \in DOMAIN old /\ r.children \in Seq(Blocks) /\ Root \notin ToSet(r.children)
      /\ ToSet(r.children) \subseteq ChildrenIn(old, r.block) \cup DOMAIN old
      /\ r.block \in Leaves => r.children = <<>>
  <2>1. r.children \in Seq(Blocks \ {Root})  BY <1>2 DEF UpdateOK
  <2>2. r.children \in Seq(Blocks) /\ Root \notin ToSet(r.children)  BY <2>1 DEF ToSet
  <2> QED BY <1>2, <2>2 DEF UpdateOK
<1>6. listed \in BOOLEAN /\ (~listed => r.block \in Leaves)  OBVIOUS
<1> HIDE DEF listed
<1>6a. block = [children |-> r.children, listed |-> listed, update |-> new]  BY DEF Block
<1>7. block \in Contents  BY <1>3, <1>5, <1>6, <1>6a DEF Contents
<1>8. /\ block.children = r.children /\ block.update = new /\ new \in 1..new
      /\ ~block.listed => r.block \in Leaves
  BY <1>3, <1>6, <1>6a
<1> HIDE DEF block
<1>9. DOMAIN blocks = DOMAIN old /\ \A b \in DOMAIN old : blocks[b] = IF b = r.block THEN block ELSE old[b]
  BY <1>4
<1>10. blocks \in Forests
  <2>1. blocks \in [DOMAIN old -> Contents]  BY <1>4, <1>7
  <2> QED BY <1>4, <2>1 DEF Forests
<1> HIDE DEF blocks
<1>11. Sane(blocks, new)
  <2>1. 1..r.base \subseteq 1..new  BY <1>3 DEF Versions
  <2> QED BY <1>4, <1>5, <1>8, <1>9, <2>1 DEF Sane, ChildrenIn
<1>12. seen' \cap {"raced", "shared"} = {} => Whole(blocks)
  <2>1. seen' \cap {"raced", "shared"} = {} => Whole(old)  BY <1>1, <1>3, StillClean
  <2> QED BY <1>5, <1>8, <1>9, <2>1 DEF Whole, ChildrenIn
<1>13. {"entry", "base"} \subseteq DOMAIN r /\ r.op # "create"  BY <1>1, <1>2 DEF UpdateOK
<1>14. NotPublished \in Publications  BY BlockAssumption DEF NotPublished, Publications
<1> QED BY <1>1, <1>2, <1>10, <1>11, <1>12, <1>13, <1>14, Committed
-----------------------------------------------------------------------------
(* delete_item                                                               *)

LEMMA DeleteKeeps ==
  ASSUME Inv, Delete
  PROVE  Inv'
<1>1. PICK h \in Free, branch \in {br \in Branches : index[br] # 0} :
        \E guid \in Guids(branch) :
          \E b \in DOMAIN structures[IF guid = 0 THEN index[branch] ELSE guid].blocks :
            \E deleteChildren \in IF b \in Leaves THEN {FALSE} ELSE BOOLEAN :
              BeginDelete(h, branch, guid, b, deleteChildren)
  BY DEF Delete
<1>2. PICK guid \in Guids(branch) :
        \E b \in DOMAIN structures[IF guid = 0 THEN index[branch] ELSE guid].blocks :
          \E deleteChildren \in IF b \in Leaves THEN {FALSE} ELSE BOOLEAN :
            BeginDelete(h, branch, guid, b, deleteChildren)
  BY <1>1
<1>3. PICK b \in DOMAIN structures[IF guid = 0 THEN index[branch] ELSE guid].blocks :
        \E deleteChildren \in BOOLEAN : BeginDelete(h, branch, guid, b, deleteChildren)
  BY <1>2
<1>4. PICK deleteChildren \in BOOLEAN : BeginDelete(h, branch, guid, b, deleteChildren)
  BY <1>3
<1> DEFINE base == LookupCourse(branch, guid)
           r == [op |-> "delete", branch |-> branch, guid |-> guid, block |-> b,
                 base |-> base, whole |-> deleteChildren]
<1>5. h \in Handlers /\ branch \in Branches  BY DEF Free
<1>6. /\ req' = [req EXCEPT ![h] = r] /\ UNCHANGED <<structures, index, seen>>
      /\ b # Root /\ base # 0
  BY <1>4 DEF BeginDelete, Begin
<1>7. base \in Versions /\ guid \in {0, base}  BY <1>5, <1>6, Lookup
<1>8. guid \in 0..Len(structures) /\ base \in 0..Len(structures)
  BY <1>7, GuidsAreVersions DEF Versions, Inv, StructuresOK
<1>9. b \in Blocks
  <2>1. b \in DOMAIN structures[base].blocks  BY <1>5, <1>6, <1>7, Lookup DEF LookupCourse
  <2> QED BY <1>7, <2>1, Structured DEF Inv
<1> HIDE DEF base
<1>10. DOMAIN r = {"op", "branch", "guid", "block", "base", "whole"}  OBVIOUS
<1>11. ReadOK(r, structures)  BY <1>5, <1>8, <1>10 DEF ReadOK
<1>12. DeleteOK(r, structures, index)  BY <1>6, <1>7, <1>9, <1>10 DEF DeleteOK
<1>13. ReqOK(r, structures, index)  BY <1>11, <1>12 DEF ReqOK
<1> HIDE DEF r
<1> QED BY <1>5, <1>6, <1>13, ReadMore

LEMMA ReadParentsKeeps ==
  ASSUME Inv, NEW h \in Handlers, ReadParents(h)
  PROVE  Inv'
<1> DEFINE r == req[h]  head == LookupCourse(r.branch, r.guid)
           parents == ParentsIn(structures[head].blocks, r.block)
           t == Noted(r, "parents", parents)
<1>1. r.op = "delete" /\ "entry" \in DOMAIN r /\ "parents" \notin DOMAIN r  BY DEF ReadParents
<1>2. ReadOK(r, structures) /\ DeleteOK(r, structures, index)  BY <1>1, Requested
<1>3. CASE Raises(h)  BY <1>3, Ended
<1>4. CASE head # 0 /\ req' = [req EXCEPT ![h] = t] /\ UNCHANGED <<structures, index, seen>>
  <2>1. head = index[r.branch]  BY <1>2, <1>4, Lookup DEF ReadOK
  <2>2. parents = ParentsIn(structures[index[r.branch]].blocks, r.block)  BY <2>1
  <2> HIDE DEF parents, head
  <2>3. DOMAIN t = DOMAIN r \cup {"parents"} /\ t.parents = parents
        /\ \A field \in DOMAIN r : t[field] = r[field]
    BY <1>1 DEF Noted
  <2> HIDE DEF t
  <2>4. t.branch = r.branch /\ t.guid = r.guid /\ t.op = r.op /\ t.entry = r.entry
    BY <1>1, <1>2, <2>3 DEF ReadOK
  <2>5. t.block = r.block /\ t.whole = r.whole /\ t.base = r.base  BY <1>2, <2>3 DEF DeleteOK
  <2>6. ReadOK(t, structures)  BY <1>1, <1>2, <2>3, <2>4, <2>5 DEF ReadOK, DeleteOK
  <2>7. DeleteOK(t, structures, index)  BY <1>1, <1>2, <2>2, <2>3, <2>4, <2>5 DEF DeleteOK
  <2> QED BY <1>1, <1>4, <2>4, <2>6, <2>7, ReadMore DEF ReqOK
<1> QED BY <1>3, <1>4 DEF ReadParents

\* The course block is below no other.
LEMMA RootStays ==
  ASSUME NEW blocks, NEW v, Sane(blocks, v), NEW b \in DOMAIN blocks \ {Root}
  PROVE  Root \notin SubtreeIn(blocks, b)
<1> DEFINE T == (DOMAIN blocks \cup {b}) \ {Root}
<1>1. \A x \in T : \A c \in DOMAIN blocks \ T : c \notin ChildrenIn(blocks, x)  BY DEF Sane
<1>2. b \in T /\ T \in SUBSET (DOMAIN blocks \cup {b}) /\ Root \notin T  OBVIOUS
<1> QED BY <1>1, <1>2 DEF SubtreeIn, Subtree

LEMMA CommitDeleteKeeps ==
  ASSUME Inv, NEW h \in Handlers, CommitDelete(h)
  PROVE  Inv'
<1> DEFINE r == req[h]  old == structures[r.base].blocks  new == Len(structures) + 1
           gone == IF r.whole THEN SubtreeIn(old, r.block) ELSE {r.block}
           shared == \E c \in gone \ {r.block} : ~(ParentsIn(old, c) \subseteq gone)
           mark == IF shared THEN {"shared"} ELSE {}
           blocks == [b \in DOMAIN old \ gone |->
                        IF b \in r.parents
                          THEN Block(Kept(old[b].children, Blocks \ {r.block}), TRUE, new)
                          ELSE old[b]]
<1>1. r.op = "delete" /\ "parents" \in DOMAIN r  BY DEF CommitDelete
<1>2. r # Idle /\ ReadOK(r, structures) /\ DeleteOK(r, structures, index)  BY <1>1, Requested
<1>3. r.base \in Versions /\ new \in Nat /\ Len(structures) \in Nat /\ "entry" \in DOMAIN r
  BY <1>1, <1>2 DEF ReadOK, DeleteOK, Versions, Inv, StructuresOK
<1>4. /\ DOMAIN old \in SUBSET Blocks /\ old \in [DOMAIN old -> Contents]
      /\ Sane(old, r.base)
  BY <1>3, Structured DEF Inv, StructuresOK
<1>5. CASE Raises(h)  BY <1>5, Ended
<1>6. CASE r.block \in DOMAIN old /\ Commit(h, blocks, NotPublished, mark)
  <2>1. r.block \in gone /\ Root \notin gone
    <3>1. r.block # Root  BY <1>2 DEF DeleteOK
    <3>2. r.block \in SubtreeIn(old, r.block)  BY DEF SubtreeIn, Subtree
    <3> QED BY <1>4, <1>6, <3>1, <3>2, RootStays
  <2>2. shared => mark = {"shared"}  OBVIOUS
  <2>3. mark \in SUBSET {"blacklist", "stale", "shared"}  OBVIOUS
  <2> HIDE DEF gone, mark
  <2>4. ASSUME NEW b \in DOMAIN old \ gone
        PROVE  /\ blocks[b] \in Contents /\ blocks[b].update \in 1..new
               /\ ~blocks[b].listed \/ b \in Leaves => blocks[b].children = <<>>
               /\ ToSet(blocks[b].children) \subseteq ToSet(old[b].children)
               /\ b \in r.parents => r.block \notin ToSet(blocks[b].children)
    <3> DEFINE kept == Kept(old[b].children, Blocks \ {r.block})
    <3>1. CASE b \in r.parents
      <4>1. blocks[b] = [children |-> kept, listed |-> TRUE, update |-> new]  BY <3>1 DEF Block
      <4>2. old[b].children \in Seq(Blocks)  BY <1>4 DEF Contents
      <4>3. kept \in Seq(Blocks) /\ ToSet(kept) = ToSet(old[b].children) \cap (Blocks \ {r.block})
        BY <4>2, KeptIsPart
      <4>4. b \in Leaves => kept = <<>>  BY <1>4, <4>2, KeptIsPart DEF Sane
      <4> HIDE DEF blocks, kept
      <4>5. blocks[b] \in Contents  BY <1>3, <4>1, <4>3 DEF Contents
      <4>6. blocks[b].children = kept /\ blocks[b].listed /\ blocks[b].update = new /\ new \in 1..new
        BY <1>3, <4>1
      <4> QED BY <4>3, <4>4, <4>5, <4>6
    <3>2. CASE b \notin r.parents
      <4>1. blocks[b] = old[b] /\ 1..r.base \subseteq 1..new  BY <1>3, <3>2 DEF Versions
      <4> HIDE DEF blocks
      <4> QED BY <1>4, <3>2, <4>1 DEF Sane
    <3> QED BY <3>1, <3>2
  <2>5. DOMAIN blocks = DOMAIN old \ gone  OBVIOUS
  <2>6. blocks \in Forests
    <3>1. blocks \in [DOMAIN old \ gone -> Contents]  BY <2>4
    <3> HIDE DEF blocks
    <3> QED BY <1>4, <3>1 DEF Forests
  <2> HIDE DEF blocks
  <2>7. Sane(blocks, new)  BY <1>4, <2>1, <2>4, <2>5 DEF Sane, ChildrenIn
  <2>8. ASSUME seen' \cap {"raced", "shared"} = {} PROVE Whole(blocks)
    <3>1. /\ Whole(old) /\ index = r.entry /\ "shared" \notin mark
          /\ r.guid = 0 => r.base = r.entry[r.branch]
      BY <1>3, <1>6, <2>8, StillClean
    <3>2. r.base = index[r.branch]
      BY <1>1, <1>2, <1>3, <3>1, MadeFromHead DEF DeleteOK
    <3>3. r.parents = ParentsIn(old, r.block)  BY <1>1, <1>2, <3>1, <3>2 DEF DeleteOK
    <3>4. \A c \in gone \ {r.block} : ParentsIn(old, c) \subseteq gone  BY <2>2, <3>1
    <3>5. ASSUME NEW b \in DOMAIN old \ gone, NEW c \in ToSet(blocks[b].children)
          PROVE  c \in DOMAIN old \ gone
      <4>1. c \in ChildrenIn(old, b) /\ c \in DOMAIN old /\ b \in ParentsIn(old, c)
        BY <2>4, <3>1, <3>5 DEF ChildrenIn, Whole, ParentsIn
      <4>2. c # r.block  BY <2>4, <3>3, <3>5, <4>1
      <4>3. c \notin gone  BY <3>4, <4>1, <4>2
      <4> QED BY <4>1, <4>3
    <3> QED BY <2>5, <3>5 DEF Whole, ChildrenIn
  <2>9. {"entry", "base"} \subseteq DOMAIN r /\ r.op # "create"  BY <1>1, <1>2, <1>3 DEF DeleteOK
  <2>10. NotPublished \in Publications  BY BlockAssumption DEF NotPublished, Publications
  <2> QED BY <1>2, <1>6, <2>3, <2>6, <2>7, <2>8, <2>9, <2>10, Committed
<1> QED BY <1>5, <1>6 DEF CommitDelete
-----------------------------------------------------------------------------
(* xblock_publish                                                            *)

LEMMA PublishKeeps ==
  ASSUME Inv, Publish
  PROVE  Inv'
<1>1. PICK h \in Free, guid \in Guids("draft") :
        LET blocks == structures[IF guid = 0 THEN index.draft ELSE guid].blocks IN
        \E root \in DOMAIN blocks :
          \E blacklist \in {{}} \cup {{k} : k \in (Withheld \cap SubtreeIn(blocks, root)) \ {root}} :
            BeginPublish(h, guid, root, blacklist)
  BY DEF Publish
<1> DEFINE blocks == structures[IF guid = 0 THEN index.draft ELSE guid].blocks
<1>2. PICK root \in DOMAIN blocks :
        \E blacklist \in {{}} \cup {{k} : k \in (Withheld \cap SubtreeIn(blocks, root)) \ {root}} :
          BeginPublish(h, guid, root, blacklist)
  BY <1>1
<1>3. PICK blacklist \in {{}} \cup {{k} : k \in (Withheld \cap SubtreeIn(blocks, root)) \ {root}} :
        BeginPublish(h, guid, root, blacklist)
  BY <1>2
<1> DEFINE source == LookupCourse("draft", guid)
           publication == [source |-> source, root |-> root, blacklist |-> blacklist]
           r == [op |-> "publish", branch |-> "published", guid |-> 0, published |-> publication]
<1>4. h \in Handlers /\ "draft" \in Branches /\ "published" \in Branches  BY DEF Free, Branches
<1>5. /\ req' = [req EXCEPT ![h] = r] /\ UNCHANGED <<structures, index, seen>>
      /\ source # 0
  BY <1>3 DEF BeginPublish, Begin
<1>6. source = index.draft /\ source \in Versions /\ guid \in {0, source}  BY <1>4, <1>5, Lookup
<1>7. root \in DOMAIN structures[source].blocks  BY <1>6
<1>8. root \in Blocks  BY <1>6, <1>7, Structured DEF Inv
<1>9. blacklist \in SUBSET Blocks  BY BlockAssumption
<1>10. source \in Nat /\ source \in 1..Len(structures) /\ 0 \in 0..Len(structures)
  BY <1>6 DEF Versions, Inv, StructuresOK
<1> HIDE DEF source
<1>11. publication \in Publications  BY <1>8, <1>9, <1>10 DEF Publications
<1>12. publication.source = source /\ publication.root = root  OBVIOUS
<1> HIDE DEF publication
<1>13. DOMAIN r = {"op", "branch", "guid", "published"}  OBVIOUS
<1>14. ReadOK(r, structures)  BY <1>4, <1>10, <1>13 DEF ReadOK
<1>15. PublishOK(r, structures)  BY <1>7, <1>10, <1>11, <1>12, <1>13 DEF PublishOK
<1>16. ReqOK(r, structures, index)  BY <1>14, <1>15 DEF ReqOK
<1> HIDE DEF r
<1> QED BY <1>4, <1>5, <1>16, ReadMore

LEMMA ReadDestinationIndexKeeps ==
  ASSUME Inv, NEW h \in Handlers, ReadDestinationIndex(h)
  PROVE  Inv'
<1> DEFINE r == req[h]  t == Noted(r, "entry", index)
<1>1. r.op = "publish" /\ "entry" \notin DOMAIN r  BY DEF ReadDestinationIndex
<1>2. ReadOK(r, structures) /\ PublishOK(r, structures)  BY <1>1, Requested
<1>3. CASE Raises(h)  BY <1>3, Ended
<1>4. CASE /\ ~(index.published = 0 /\ r.published.root # Root)
           /\ req' = [req EXCEPT ![h] = t] /\ UNCHANGED <<structures, index, seen>>
  <2>1. DOMAIN t = DOMAIN r \cup {"entry"} /\ t.entry = index
        /\ \A field \in DOMAIN r : t[field] = r[field]
    BY <1>1 DEF Noted
  <2> HIDE DEF t
  <2>2. /\ t.branch = r.branch /\ t.guid = r.guid /\ t.op = r.op /\ t.published = r.published
        /\ "base" \notin DOMAIN t
    BY <1>1, <1>2, <2>1 DEF ReadOK, PublishOK
  <2>3. ReadOK(t, structures)  BY <1>2, <2>1, <2>2 DEF ReadOK, PublishOK, Inv
  <2>4. PublishOK(t, structures)  BY <1>2, <1>4, <2>1, <2>2 DEF PublishOK
  <2> QED BY <1>1, <1>4, <2>2, <2>3, <2>4, ReadMore DEF ReqOK
<1> QED BY <1>3, <1>4 DEF ReadDestinationIndex

LEMMA ReadDestinationKeeps ==
  ASSUME Inv, NEW h \in Handlers, ReadDestination(h)
  PROVE  Inv'
<1> DEFINE r == req[h]
           base == IF r.entry.published = 0 THEN 0 ELSE LookupCourse("published", 0)
           t == Noted(r, "base", base)
<1>1. r.op = "publish" /\ "entry" \in DOMAIN r /\ "base" \notin DOMAIN r  BY DEF ReadDestination
<1>2. ReadOK(r, structures) /\ PublishOK(r, structures)  BY <1>1, Requested
<1>3. CASE Raises(h)  BY <1>3, Ended
<1>4. CASE /\ ~(base = 0 /\ r.entry.published # 0)
           /\ req' = [req EXCEPT ![h] = t] /\ UNCHANGED <<structures, index, seen>>
  <2>1. base \in 0..Len(structures) /\ (base = 0 => r.entry.published = 0)
    <3>1. base # 0 => base \in Versions
      <4>1. base # 0 => LookupCourse("published", 0) # 0 /\ base = LookupCourse("published", 0)
        OBVIOUS
      <4> QED BY <4>1, Lookup DEF Branches
    <3> QED BY <1>4, <3>1 DEF Versions, Inv, StructuresOK
  <2> HIDE DEF base
  <2>2. DOMAIN t = DOMAIN r \cup {"base"} /\ t.base = base
        /\ \A field \in DOMAIN r : t[field] = r[field]
    BY <1>1 DEF Noted
  <2> HIDE DEF t
  <2>3. /\ t.branch = r.branch /\ t.guid = r.guid /\ t.op = r.op /\ t.published = r.published
        /\ t.entry = r.entry
    BY <1>1, <1>2, <2>2 DEF ReadOK, PublishOK
  <2>4. ReadOK(t, structures)  BY <1>1, <1>2, <2>1, <2>2, <2>3 DEF ReadOK
  <2>5. PublishOK(t, structures)  BY <1>1, <1>2, <2>1, <2>2, <2>3 DEF PublishOK
  <2> QED BY <1>1, <1>4, <2>3, <2>4, <2>5, ReadMore DEF ReqOK
<1> QED BY <1>3, <1>4 DEF ReadDestination
\* What a structure of version v is made of.
Proper(blocks, v) ==
  /\ DOMAIN blocks \in SUBSET Blocks
  /\ \A b \in DOMAIN blocks :
       /\ blocks[b] \in Contents /\ blocks[b].update \in 1..v
       /\ ~blocks[b].listed \/ b \in Leaves => blocks[b].children = <<>>
       /\ Root \notin ChildrenIn(blocks, b)

LEMMA StructureProper ==
  ASSUME StructuresOK, NEW v \in Versions, NEW w \in Nat, v <= w
  PROVE  Proper(structures[v].blocks, w) /\ Root \in DOMAIN structures[v].blocks
<1>1. /\ DOMAIN structures[v].blocks \in SUBSET Blocks /\ Sane(structures[v].blocks, v)
      /\ structures[v].blocks \in [DOMAIN structures[v].blocks -> Contents]
  BY Structured DEF StructuresOK
<1>2. 1..v \subseteq 1..w  BY DEF Versions, StructuresOK
<1> QED BY <1>1, <1>2 DEF Proper, Sane

\* The parents of what is published have it where the draft does.
LEMMA SyncedProper ==
  ASSUME NEW v \in Nat, NEW source, Proper(source, v), NEW old, Proper(old, v), NEW root,
         \A b \in ParentsIn(source, root) : b \in DOMAIN old /\ old[b].listed
  PROVE  /\ Proper(Synced(source, old, root), v)
         /\ DOMAIN Synced(source, old, root) = DOMAIN old
         /\ \A b \in DOMAIN old :
              ChildrenIn(Synced(source, old, root), b) \subseteq ChildrenIn(old, b) \cup {root}
<1> DEFINE synced == Synced(source, old, root)
<1>1. DOMAIN synced = DOMAIN old  BY DEF Synced
<1>2. ASSUME NEW b \in DOMAIN old
      PROVE  /\ synced[b] \in Contents /\ synced[b].update \in 1..v
             /\ ~synced[b].listed \/ b \in Leaves => synced[b].children = <<>>
             /\ Root \notin ToSet(synced[b].children)
             /\ ToSet(synced[b].children) \subseteq ToSet(old[b].children) \cup {root}
  <2>1. old[b] \in Contents /\ old[b].update \in 1..v  BY DEF Proper
  <2>2. CASE b \in ParentsIn(source, root)
    <3> DEFINE kept == Kept(source[b].children, ChildrenIn(old, b) \cup {root})
    <3>1. b \in DOMAIN source /\ source[b].children \in Seq(Blocks)
      BY <2>2 DEF ParentsIn, Proper, Contents
    <3>2. /\ kept \in Seq(Blocks)
          /\ ToSet(kept) = ToSet(source[b].children) \cap (ChildrenIn(old, b) \cup {root})
          /\ source[b].children = <<>> => kept = <<>>
      BY <3>1, KeptIsPart
    <3>3. synced[b] = [old[b] EXCEPT !.children = kept]  BY <2>2 DEF Synced
    <3>4. synced[b] = [children |-> kept, listed |-> old[b].listed, update |-> old[b].update]
      BY <2>1, <3>3 DEF Contents
    <3>5. b \in Leaves => source[b].children = <<>>  BY <3>1 DEF Proper
    <3>6. Root \notin ToSet(source[b].children)  BY <3>1 DEF Proper, ChildrenIn
    <3>7. old[b].listed  BY <2>2
    <3> HIDE DEF kept, synced
    <3>8. synced[b] \in Contents  BY <2>1, <3>2, <3>4 DEF Contents
    <3>9. /\ synced[b].children = kept /\ synced[b].update = old[b].update
          /\ synced[b].listed = old[b].listed
      BY <3>4
    <3> QED BY <2>1, <3>2, <3>5, <3>6, <3>7, <3>8, <3>9 DEF ChildrenIn
  <2>3. CASE b \notin ParentsIn(source, root)
    <3>1. synced[b] = old[b]  BY <2>3 DEF Synced
    <3> HIDE DEF synced
    <3> QED BY <2>1, <3>1 DEF Proper, ChildrenIn
  <2> QED BY <2>2, <2>3
<1> HIDE DEF synced
<1>3. Proper(synced, v)  BY <1>1, <1>2 DEF Proper, ChildrenIn
<1>4. \A b \in DOMAIN old : ChildrenIn(synced, b) \subseteq ChildrenIn(old, b) \cup {root}
  BY <1>2 DEF ChildrenIn
<1> QED BY <1>1, <1>3, <1>4 DEF synced

LEMMA PublishedProper ==
  ASSUME NEW v \in Nat, NEW source, Proper(source, v), NEW synced, Proper(synced, v),
         NEW blacklist, NEW b \in DOMAIN source, NEW p,
         p = PublishedBlock(source, synced, blacklist, b)
  PROVE  /\ p \in Contents /\ p.update \in 1..v
         /\ ~p.listed \/ b \in Leaves => p.children = <<>>
         /\ Root \notin ToSet(p.children)
         /\ \/ b \in DOMAIN synced /\ p = synced[b]
            \/ ToSet(p.children) \cap blacklist = {}
<1>1. CASE b \in DOMAIN synced /\ p = synced[b]  BY <1>1 DEF Proper, ChildrenIn
<1>2. CASE p = Block(Kept(source[b].children, Blocks \ blacklist), TRUE, source[b].update)
  <2> DEFINE kept == Kept(source[b].children, Blocks \ blacklist)
  <2>1. source[b] \in Contents /\ source[b].children \in Seq(Blocks) /\ source[b].update \in 1..v
    BY DEF Proper, Contents
  <2>2. /\ kept \in Seq(Blocks) /\ ToSet(kept) = ToSet(source[b].children) \cap (Blocks \ blacklist)
        /\ source[b].children = <<>> => kept = <<>>
    BY <2>1, KeptIsPart
  <2>3. p = [children |-> kept, listed |-> TRUE, update |-> source[b].update]  BY <1>2 DEF Block
  <2>4. b \in Leaves => source[b].children = <<>>  BY DEF Proper
  <2>5. Root \notin ToSet(source[b].children)  BY DEF Proper, ChildrenIn
  <2> HIDE DEF kept
  <2>6. p \in Contents  BY <2>1, <2>2, <2>3 DEF Contents
  <2>7. p.children = kept /\ p.listed /\ p.update = source[b].update  BY <2>3
  <2> QED BY <2>1, <2>2, <2>4, <2>5, <2>6, <2>7
<1> QED BY <1>1, <1>2 DEF PublishedBlock

\* _publish_subdag goes on to the children it leaves, but for the blacklist.
LEMMA VisitedClosed ==
  ASSUME NEW source, NEW synced, NEW root \in DOMAIN source, NEW blacklist, NEW visited,
         visited = Visited(source, synced, root, blacklist)
  PROVE  /\ root \in visited /\ visited \in SUBSET DOMAIN source
         /\ \A b \in visited :
              \A c \in ToSet(PublishedBlock(source, synced, blacklist, b).children) \ blacklist :
                c \in DOMAIN source => c \in visited
<1> DEFINE Child(x, y) == y \in ToSet(PublishedBlock(source, synced, blacklist, x).children) \ blacklist
           Closed(T) == root \in T /\ \A x \in T : \A c \in DOMAIN source \ T : ~Child(x, c)
<1>1. visited = {c \in DOMAIN source \cup {root} :
                   \A T \in SUBSET (DOMAIN source \cup {root}) : Closed(T) => c \in T}
  BY DEF Visited, Subtree
<1> HIDE DEF Child
<1>2. root \in visited /\ visited \in SUBSET DOMAIN source  BY <1>1
<1>3. ASSUME NEW b \in visited, NEW c, Child(b, c), c \in DOMAIN source PROVE c \in visited
  <2>1. ASSUME NEW T \in SUBSET (DOMAIN source \cup {root}), Closed(T) PROVE c \in T
    <3>1. b \in T  BY <1>1, <2>1
    <3> QED BY <1>3, <2>1, <3>1
  <2> QED BY <1>1, <1>3, <2>1
<1> QED BY <1>2, <1>3 DEF Child

LEMMA CommitPublishKeeps ==
  ASSUME Inv, NEW h \in Handlers, CommitPublish(h)
  PROVE  Inv'
<1> DEFINE r == req[h]  new == Len(structures) + 1
           root == r.published.root  blacklist == r.published.blacklist
           source == structures[r.published.source].blocks
           old == IF r.base = 0 THEN <<>> ELSE structures[r.base].blocks
           parents == ParentsIn(source, root)
           synced == Synced(source, old, root)
           visited == Visited(source, synced, root, blacklist)
           changed == {b \in visited : b \in DOMAIN old => old[b].update # source[b].update}
           blocks == [b \in DOMAIN old \cup visited |->
                        IF b \in visited THEN PublishedBlock(source, synced, blacklist, b) ELSE synced[b]]
           orphans == Orphans(source, old, parents) \cup Orphans(source, old, changed)
           mark == {m \in {"blacklist", "stale"} :
                      IF m = "blacklist" THEN blacklist # {} ELSE r.published.source # index.draft}
<1>1. r.op = "publish" /\ "base" \in DOMAIN r  BY DEF CommitPublish
<1>2. r # Idle /\ ReadOK(r, structures) /\ PublishOK(r, structures)  BY <1>1, Requested
<1>3. /\ new \in Nat /\ Len(structures) \in Nat /\ r.published.source \in Versions
      /\ r.base # 0 => r.base \in Versions
  BY <1>1, <1>2 DEF ReadOK, PublishOK, Versions, Inv, StructuresOK
<1>4. \A v \in Versions : v <= new /\ Proper(structures[v].blocks, new) /\ Root \in DOMAIN structures[v].blocks
  <2>1. \A v \in Versions : v <= new  BY <1>3 DEF Versions
  <2> QED BY <1>3, <2>1, StructureProper DEF Inv
<1>5. Proper(source, new) /\ root \in DOMAIN source /\ root \in Blocks
  BY <1>2, <1>3, <1>4 DEF PublishOK, Publications
<1>6. /\ Proper(old, new) /\ (r.base # 0 => Root \in DOMAIN old)
      /\ r.base = 0 => root = Root
  <2>1. CASE r.base = 0
    <3>1. DOMAIN old = {}  BY <2>1
    <3> QED BY <1>1, <1>2, <2>1, <3>1 DEF Proper, PublishOK
  <2>2. CASE r.base # 0  BY <1>3, <1>4, <2>2
  <2> QED BY <2>1, <2>2
<1>7. CASE Raises(h)  BY <1>7, Ended
<1>8. ASSUME \A b \in parents : b \in DOMAIN old /\ old[b].listed,
             \A b \in visited : ChildrenIn(blocks, b) \ blacklist \subseteq DOMAIN source,
             NEW D \in Deletions(blocks, orphans), Commit(h, Without(blocks, D), r.published, mark)
      PROVE  Inv'
  <2> DEFINE left == Without(blocks, D)
  <2> HIDE DEF source, old, root, blacklist, new
  <2>1. /\ Proper(synced, new) /\ DOMAIN synced = DOMAIN old
        /\ \A b \in DOMAIN old : ChildrenIn(synced, b) \subseteq ChildrenIn(old, b) \cup {root}
    BY <1>3, <1>5, <1>6, <1>8, SyncedProper
  <2> HIDE DEF synced
  <2>2. /\ root \in visited /\ visited \in SUBSET DOMAIN source
        /\ \A b \in visited :
             \A c \in ToSet(PublishedBlock(source, synced, blacklist, b).children) \ blacklist :
               c \in DOMAIN source => c \in visited
    BY <1>5, VisitedClosed
  <2> HIDE DEF visited
  <2>3. DOMAIN blocks = DOMAIN old \cup visited  OBVIOUS
  <2>4. \A b \in visited : blocks[b] = PublishedBlock(source, synced, blacklist, b)  OBVIOUS
  <2>5. \A b \in DOMAIN old \ visited : blocks[b] = synced[b]  OBVIOUS
  <2>6. ASSUME NEW b \in DOMAIN blocks
        PROVE  /\ b \in Blocks /\ blocks[b] \in Contents /\ blocks[b].update \in 1..new
               /\ ~blocks[b].listed \/ b \in Leaves => blocks[b].children = <<>>
               /\ Root \notin ChildrenIn(blocks, b)
               /\ \/ b \in DOMAIN old /\ ChildrenIn(blocks, b) \subseteq ChildrenIn(old, b) \cup {root}
                  \/ b \in visited /\ ChildrenIn(blocks, b) \cap blacklist = {}
    <3> HIDE DEF blocks
    <3>1. CASE b \in visited
      <4>1. b \in DOMAIN source /\ b \in Blocks  BY <1>5, <2>2, <3>1 DEF Proper
      <4>2. /\ blocks[b] \in Contents /\ blocks[b].update \in 1..new
            /\ ~blocks[b].listed \/ b \in Leaves => blocks[b].children = <<>>
            /\ Root \notin ToSet(blocks[b].children)
            /\ \/ b \in DOMAIN synced /\ blocks[b] = synced[b]
               \/ ToSet(blocks[b].children) \cap blacklist = {}
        BY <1>3, <1>5, <2>1, <2>4, <3>1, <4>1, PublishedProper DEF new
      <4> QED BY <2>1, <3>1, <4>1, <4>2 DEF ChildrenIn
    <3>2. CASE b \notin visited
      <4>1. b \in DOMAIN old /\ blocks[b] = synced[b]  BY <2>3, <2>5, <3>2
      <4> QED BY <2>1, <4>1 DEF Proper, ChildrenIn
    <3> QED BY <3>1, <3>2
  <2> HIDE DEF blocks
  <2>7. Root \in DOMAIN blocks  BY <1>6, <2>2, <2>3
  <2>8. /\ \A c \in D : \E b \in DOMAIN old : c \in ChildrenIn(old, b)
        /\ \A c \in D : ParentsIn(blocks, c) \subseteq D
    BY DEF Deletions, Orphans
  <2>9. Root \notin D  BY <1>6, <2>8 DEF Proper
  <2>10. DOMAIN left = DOMAIN blocks \ D /\ \A b \in DOMAIN left : left[b] = blocks[b]  BY DEF Without
  <2>11. left = [b \in DOMAIN left |-> left[b]]  BY DEF Without
  <2> HIDE DEF left
  <2>12. left \in Forests
    <3>1. left \in [DOMAIN left -> Contents]  BY <2>6, <2>10, <2>11
    <3>2. DOMAIN left \in SUBSET Blocks  BY <2>6, <2>10
    <3> QED BY <3>1, <3>2 DEF Forests
  <2>13. Sane(left, new)  BY <2>6, <2>7, <2>9, <2>10 DEF Sane, ChildrenIn
  <2>14. ASSUME seen' \cap {"raced", "shared"} = {} PROVE Whole(left)
    <3>1. Whole(old)
      <4>1. CASE r.base = 0
        <5>1. DOMAIN old = {}  BY <4>1 DEF old
        <5> QED BY <5>1 DEF Whole
      <4>2. CASE r.base # 0
        <5>1. Whole(structures[r.base].blocks)  BY <1>3, <1>8, <2>14, <4>2, StillClean
        <5> QED BY <4>2, <5>1 DEF old
      <4> QED BY <4>1, <4>2
    <3>2. ASSUME NEW b \in DOMAIN blocks, NEW c \in ChildrenIn(blocks, b) PROVE c \in DOMAIN blocks
      <4>1. CASE b \in DOMAIN old /\ ChildrenIn(blocks, b) \subseteq ChildrenIn(old, b) \cup {root}
        BY <2>2, <2>3, <3>1, <3>2, <4>1 DEF Whole
      <4>2. CASE b \in visited /\ ChildrenIn(blocks, b) \cap blacklist = {}
        <5>1. c \notin blacklist /\ c \in DOMAIN source  BY <1>8, <3>2, <4>2
        <5>2. c \in ToSet(PublishedBlock(source, synced, blacklist, b).children) \ blacklist
          BY <2>4, <3>2, <4>2, <5>1 DEF ChildrenIn
        <5> QED BY <2>2, <2>3, <4>2, <5>1, <5>2
      <4> QED BY <2>6, <4>1, <4>2
    <3>3. ASSUME NEW b \in DOMAIN left, NEW c \in ChildrenIn(left, b) PROVE c \in DOMAIN left
      <4>1. b \in DOMAIN blocks /\ b \notin D /\ c \in ChildrenIn(blocks, b)
        BY <2>10, <3>3 DEF ChildrenIn
      <4>2. c \in DOMAIN blocks /\ b \in ParentsIn(blocks, c)  BY <3>2, <4>1 DEF ParentsIn
      <4>3. c \notin D  BY <2>8, <4>1, <4>2
      <4> QED BY <2>10, <4>2, <4>3
    <3> QED BY <3>3 DEF Whole
  <2>15. {"entry", "base"} \subseteq DOMAIN r /\ r.op # "create" /\ r.published \in Publications
    BY <1>1, <1>2 DEF PublishOK
  <2>16. mark \in SUBSET {"blacklist", "stale", "shared"}  OBVIOUS
  <2> HIDE DEF mark
  <2> QED BY <1>2, <1>8, <2>12, <2>13, <2>14, <2>15, <2>16, Committed DEF left, new
<1> QED BY <1>7, <1>8 DEF CommitPublish
-----------------------------------------------------------------------------
(* The theorems                                                              *)

LEMMA InitInv ==
  ASSUME Init
  PROVE  Inv
<1> DEFINE D == DOMAIN InitialChildren
           first == [b \in D |-> Block(InitialChildren[b], InitialChildren[b] # <<>>, 1)]
           s == [previous |-> 0, branch |-> "draft", published |-> NotPublished, blocks |-> first]
<1>1. structures = <<s>> /\ seen = {} /\ req = [h \in Handlers |-> Idle]  BY DEF Init
<1>2. ASSUME NEW b \in D
      PROVE  /\ first[b] \in Contents /\ first[b].update = 1
             /\ first[b].children = InitialChildren[b] /\ ToSet(InitialChildren[b]) \subseteq D \ {Root}
             /\ ~first[b].listed \/ b \in Leaves => first[b].children = <<>>
  <2> DEFINE listed == InitialChildren[b] # <<>>
  <2>1. listed \in BOOLEAN /\ (~listed => InitialChildren[b] = <<>>)  OBVIOUS
  <2> HIDE DEF listed
  <2>2. first[b] = [children |-> InitialChildren[b], listed |-> listed, update |-> 1]
    BY DEF Block, listed
  <2>3. InitialChildren[b] \in Seq(D \ {Root}) /\ D \in SUBSET Blocks  BY CourseAssumption
  <2>4. InitialChildren[b] \in Seq(Blocks)  BY <2>3
  <2>5. ToSet(InitialChildren[b]) \subseteq D \ {Root}  BY <2>3 DEF ToSet
  <2> HIDE DEF first
  <2>6. first[b] \in Contents  BY <2>1, <2>2, <2>4 DEF Contents
  <2>7. first[b].children = InitialChildren[b] /\ first[b].listed = listed /\ first[b].update = 1  BY <2>2
  <2> QED BY <2>1, <2>5, <2>6, <2>7, CourseAssumption
<1>3. DOMAIN first = D /\ Root \in D /\ D \in SUBSET Blocks  BY CourseAssumption
<1>4. first \in Forests
  <2>1. first \in [D -> Contents]  BY <1>2
  <2> HIDE DEF first, D
  <2> QED BY <1>3, <2>1 DEF Forests
<1> HIDE DEF first
<1>5. NotPublished \in Publications  BY BlockAssumption DEF NotPublished, Publications
<1>6. s \in Structures  BY <1>4, <1>5 DEF Structures, Branches
<1>7. s.blocks = first /\ s.previous = 0 /\ s.branch = "draft"  OBVIOUS
<1> HIDE DEF s
<1>8. structures \in Seq(Structures) /\ structures # <<>> /\ Len(structures) = 1 /\ structures[1] = s
  BY <1>1, <1>6
<1>9. Versions = {1} /\ 1..Len(structures) = {1}  BY <1>8 DEF Versions
<1>10. Sane(first, 1) /\ Whole(first)  BY <1>2, <1>3 DEF Sane, Whole, ChildrenIn
<1>11. StructuresOK  BY <1>7, <1>8, <1>9, <1>10 DEF StructuresOK
<1>12. index \in [draft : {1}, published : {0, 1}]  BY DEF Init
<1>13. EntryOK(index, structures)  BY <1>7, <1>8, <1>9, <1>12 DEF EntryOK, Entries
<1>14. \A h \in Handlers : ReqOK(req[h], structures, index)  BY <1>1 DEF ReqOK
<1>15. WholeInv  BY <1>7, <1>8, <1>9, <1>10 DEF WholeInv
<1>16. KeptInv
  <2>1. 1 \in Led(structures, 1)  BY <1>9 DEF Led
  <2>2. structures[1].branch = "draft" /\ index["draft"] = 1  BY <1>7, <1>8, <1>12
  <2> QED BY <1>9, <2>1, <2>2 DEF KeptInv
<1>17. req = [h \in Handlers |-> req[h]]  BY <1>1
<1> QED BY <1>1, <1>11, <1>13, <1>14, <1>15, <1>16, <1>17 DEF Inv

LEMMA NextInv ==
  ASSUME Inv, [Next]_vars
  PROVE  Inv'
<1>1. CASE UNCHANGED vars
  BY <1>1 DEF Inv, StructuresOK, WholeInv, KeptInv, Versions, vars
<1>2. CASE Create  BY <1>2, CreateKeeps
<1>3. CASE Update  BY <1>3, UpdateKeeps
<1>4. CASE Delete  BY <1>4, DeleteKeeps
<1>5. CASE Publish  BY <1>5, PublishKeeps
<1>6. ASSUME NEW h \in Handlers PROVE UpdateFails(h) => Inv'  BY Ended DEF UpdateFails
<1>7. ASSUME NEW h \in Handlers PROVE LookupToCreate(h) \/ CommitCreate(h) => Inv'
  BY LookupToCreateKeeps, CommitCreateKeeps
<1>8. ASSUME NEW h \in Handlers PROVE ReadIndex(h) \/ CommitUpdate(h) => Inv'
  BY ReadIndexKeeps, CommitUpdateKeeps
<1>9. ASSUME NEW h \in Handlers PROVE ReadParents(h) \/ CommitDelete(h) => Inv'
  BY ReadParentsKeeps, CommitDeleteKeeps
<1>10. ASSUME NEW h \in Handlers
       PROVE  ReadDestinationIndex(h) \/ ReadDestination(h) \/ CommitPublish(h) => Inv'
  BY ReadDestinationIndexKeeps, ReadDestinationKeeps, CommitPublishKeeps
<1> QED BY <1>1, <1>2, <1>3, <1>4, <1>5, <1>6, <1>7, <1>8, <1>9, <1>10 DEF Next

LEMMA InvWellFormed ==
  ASSUME Inv
  PROVE  WellFormed
<1>1. ASSUME NEW v \in Versions
      PROVE  LET blocks == structures[v].blocks IN
             /\ structures[v].previous \in 0..(v - 1)
             /\ Root \in DOMAIN blocks
             /\ \A b \in DOMAIN blocks :
                  /\ blocks[b].update \in 1..v
                  /\ ~blocks[b].listed => blocks[b].children = <<>>
                  /\ seen \cap {"raced", "shared"} = {} => ChildrenIn(blocks, b) \subseteq DOMAIN blocks
  <2>1. structures[v].previous \in 0..(v - 1) /\ Sane(structures[v].blocks, v)
    BY DEF Inv, StructuresOK
  <2>2. seen \cap {"raced", "shared"} = {} => Whole(structures[v].blocks)  BY DEF Inv, WholeInv
  <2> QED BY <2>1, <2>2 DEF Sane, Whole
<1>2. EntryOK(index, structures)  BY DEF Inv
<1>3. Versions = 1..Len(structures)  BY DEF Versions
<1>4. index.draft \in Drafts  BY <1>2, <1>3 DEF EntryOK, Drafts
<1>5. index.published \in {0, 1} \cup (Versions \ Drafts)  BY <1>2, <1>3 DEF EntryOK, Drafts
<1>6. \A h \in Handlers : req[h].op \in {"idle", "create", "update", "delete", "publish"}
  BY DEF Inv, ReqOK, Idle
<1>7. seen \subseteq {"raced", "blacklist", "stale", "shared"}  BY DEF Inv
<1> QED BY <1>1, <1>4, <1>5, <1>6, <1>7 DEF WellFormed

LEMMA InvEditsKept ==
  ASSUME Inv
  PROVE  EditsKept
<1> SUFFICES ASSUME "raced" \notin seen, NEW branch \in Branches, NEW v \in Versions,
                    structures[v].branch = branch
             PROVE  v \in IF index[branch] = 0 THEN {} ELSE History(index[branch])
  BY DEF EditsKept
<1>1. index[branch] # 0 /\ v \in Led(structures, index[branch])  BY DEF Inv, KeptInv
<1>2. index[branch] \in Versions
  BY <1>1 DEF Inv, EntryOK, Entries, Branches, StructuresOK, Versions
<1> QED BY <1>1, <1>2, HistoryLed

\* Every structure stands by itself, for any course, blocks and editors.
THEOREM StructuresWellFormed == Spec => []WellFormed
<1>1. Init => Inv  BY InitInv
<1>2. Inv /\ [Next]_vars => Inv'  BY NextInv
<1>3. Inv => WellFormed  BY InvWellFormed
<1> QED BY <1>1, <1>2, <1>3, PTL DEF Spec

\* Every structure a branch had is in the history of its head, unless an index document
\* was written that changed after it was read.
THEOREM EditsAlwaysKept == Spec => []EditsKept
<1>1. Init => Inv  BY InitInv
<1>2. Inv /\ [Next]_vars => Inv'  BY NextInv
<1>3. Inv => EditsKept  BY InvEditsKept
<1> QED BY <1>1, <1>2, <1>3, PTL DEF Spec
-----------------------------------------------------------------------------
(* What is published is what the draft has                                   *)

\* Where both branches have a block in one version, its published children are those of
\* the draft, in their order, and all of them if nothing was blacklisted.
Match(draft, published, marks) ==
  \A b \in DOMAIN draft \cap DOMAIN published :
    draft[b].update = published[b].update =>
      /\ published[b].children = Kept(draft[b].children, ChildrenIn(published, b))
      /\ "blacklist" \notin marks => ChildrenIn(published, b) = ChildrenIn(draft, b)

Clean(marks) == marks \cap {"stale", "raced"} = {}

\* The heads of the branches match, unless an old draft was published or an edit was lost.
HeadsInv ==
  Clean(seen) /\ index.published # 0 =>
    Match(structures[index.draft].blocks, structures[index.published].blocks, seen)

\* The publication p of source into blocks.
Reached(blocks, p) ==
  Subtree(DOMAIN blocks, LAMBDA x, y : y \in ChildrenIn(blocks, x) \ p.blacklist, p.root)

AsInSource(blocks, source, p, marks) ==
  /\ p.root \in DOMAIN blocks =>
       \A b \in Reached(blocks, p) :
         /\ b \in DOMAIN blocks \cap DOMAIN source
         /\ blocks[b].update = source[b].update
  /\ Clean(marks) => Match(source, blocks, marks)
  /\ p.root \notin DOMAIN blocks => ParentsIn(source, p.root) \cap DOMAIN blocks = {}
  /\ \A b \in ParentsIn(source, p.root) \cap DOMAIN blocks :
       /\ p.root \in ChildrenIn(blocks, b)
       /\ blocks[b].children = Kept(source[b].children, ChildrenIn(blocks, b))

PublishedInv ==
  \A v \in Published :
    LET p == structures[v].published IN
    /\ p.source \in Versions
    /\ AsInSource(structures[v].blocks, structures[p.source].blocks, p, seen)

\* Nobody blacklists the root of what is to be published.
RootInv ==
  \A h \in Handlers :
    req[h].op = "publish" => req[h].published.root \notin req[h].published.blacklist

PubInv == HeadsInv /\ PublishedInv /\ RootInv

LEMMA MarksGrow ==
  ASSUME NEW marks, NEW more, marks \subseteq more
  PROVE  /\ Clean(more) => Clean(marks)
         /\ \A d, p : Match(d, p, marks) => Match(d, p, more)
<1>1. Clean(more) => Clean(marks)  BY DEF Clean
<1>2. ASSUME NEW d, NEW p, Match(d, p, marks) PROVE Match(d, p, more)  BY <1>2 DEF Match
<1> QED BY <1>1, <1>2

\* What has been published stays as it was published.
LEMMA PublishedStays ==
  ASSUME PublishedInv, NEW v \in Published, NEW S, NEW marks, seen \subseteq marks,
         \A w \in Versions : S[w] = structures[w]
  PROVE  /\ S[v].published.source \in Versions
         /\ AsInSource(S[v].blocks, S[S[v].published.source].blocks, S[v].published, marks)
<1> DEFINE p == structures[v].published
           blocks == structures[v].blocks
           source == structures[p.source].blocks
<1>1. p.source \in Versions /\ AsInSource(blocks, source, p, seen)  BY DEF PublishedInv
<1>2. S[v] = structures[v] /\ S[p.source] = structures[p.source]  BY <1>1 DEF Published
<1> HIDE DEF p, blocks, source
<1>3. (Clean(marks) => Clean(seen)) /\ (Match(source, blocks, seen) => Match(source, blocks, marks))
  BY MarksGrow
<1>4. AsInSource(blocks, source, p, marks)  BY <1>1, <1>3 DEF AsInSource
<1> QED BY <1>1, <1>2, <1>4 DEF p, blocks, source

\* A request that commits ends.
LEMMA RootsStay ==
  ASSUME RootInv, NEW h \in Handlers, req = [g \in Handlers |-> req[g]], req' = [req EXCEPT ![h] = Idle]
  PROVE  RootInv'
<1>1. \A g \in Handlers : req'[g] = IF g = h THEN Idle ELSE req[g]  OBVIOUS
<1> QED BY <1>1 DEF RootInv, Idle

\* A request that begins, goes on or ends changes no structure.
LEMMA Asked ==
  ASSUME PubInv, NEW h \in Handlers, NEW r, req' = [req EXCEPT ![h] = r],
         req = [g \in Handlers |-> req[g]],
         r.op = "publish" => r.published.root \notin r.published.blacklist,
         UNCHANGED <<structures, index, seen>>
  PROVE  PubInv'
<1>1. \A g \in Handlers : req'[g] = IF g = h THEN r ELSE req[g]  OBVIOUS
<1>2. RootInv'  BY <1>1 DEF PubInv, RootInv
<1>3. HeadsInv'  BY DEF PubInv, HeadsInv
<1>4. PublishedInv'  BY DEF PubInv, PublishedInv, Published, Versions
<1> QED BY <1>2, <1>3, <1>4 DEF PubInv

\* A structure that was edited gives another version to every block it changes, so that
\* the heads still match.
LEMMA EditMatches ==
  ASSUME Inv, PubInv, NEW h \in Handlers,
         req[h] # Idle, {"entry", "base"} \subseteq DOMAIN req[h], req[h].base # 0,
         NEW blocks, NEW mark \in SUBSET {"shared"},
         Commit(h, blocks, NotPublished, mark),
         \A b \in DOMAIN blocks :
           \/ b \in DOMAIN structures[req[h].base].blocks /\ blocks[b] = structures[req[h].base].blocks[b]
           \/ blocks[b].update = Len(structures) + 1
  PROVE  PubInv'
<1> DEFINE r == req[h]
           n == Len(structures)
           old == structures[r.base].blocks
           s == [previous |-> r.base, branch |-> r.branch, published |-> NotPublished, blocks |-> blocks]
           behind == index # r.entry \/ (r.guid = 0 /\ r.base # r.entry[r.branch])
<1>1. /\ structures' = Append(structures, s)
      /\ index' = [r.entry EXCEPT ![r.branch] = n + 1]
      /\ seen' = seen \cup mark \cup (IF behind THEN {"raced"} ELSE {})
      /\ req' = [req EXCEPT ![h] = Idle]
  BY DEF Commit
<1>2. structures \in Seq(Structures) /\ n \in Nat  BY DEF Inv, StructuresOK
<1>3. s.published.source = 0 /\ s.blocks = blocks  BY DEF NotPublished
<1> HIDE DEF s
<1>4. /\ Versions' = Versions \cup {n + 1} /\ structures'[n + 1] = s
      /\ \A v \in Versions : structures'[v] = structures[v]
  <2>1. /\ Len(Append(structures, s)) = n + 1 /\ Append(structures, s)[n + 1] = s
        /\ \A v \in 1..n : Append(structures, s)[v] = structures[v]
    BY <1>2, AppendOne
  <2> QED BY <1>1, <1>2, <2>1 DEF Versions
<1>5. seen \subseteq seen'  BY <1>1
<1>6. RootInv'  BY <1>1, RootsStay DEF Inv, PubInv
<1>7. PublishedInv'
  <2> SUFFICES ASSUME NEW v \in Published'
               PROVE  LET p == structures'[v].published IN
                      /\ p.source \in Versions'
                      /\ AsInSource(structures'[v].blocks, structures'[p.source].blocks, p, seen')
    BY DEF PublishedInv
  <2>1. v \in Versions /\ v \in Published
    BY <1>3, <1>4 DEF Published
  <2>2. \A w \in Versions : structures'[w] = structures[w]  BY <1>4
  <2> QED BY <1>4, <1>5, <2>1, <2>2, PublishedStays DEF PubInv
<1>8. HeadsInv'
  <2> SUFFICES ASSUME Clean(seen'), index'.published # 0
               PROVE  Match(structures'[index'.draft].blocks, structures'[index'.published].blocks, seen')
    BY DEF HeadsInv
  <2>1. Clean(seen) /\ "raced" \notin seen'  BY <1>5, MarksGrow DEF Clean
  <2>2. index = r.entry /\ (r.guid = 0 => r.base = r.entry[r.branch])  BY <1>1, <2>1
  <2>3. r.base = index[r.branch]  BY <2>2, MadeFromHead
  <2>4. r.branch \in Branches /\ EntryOK(index, structures)  BY DEF Inv, ReqOK, ReadOK
  <2>5. index.draft \in Versions /\ (index.published # 0 => index.published \in Versions)
    BY <1>2, <2>4 DEF EntryOK, Versions
  <2>6. r.base \in Versions  BY <2>3, <2>4, <2>5 DEF Branches
  <2>7. \A v \in Versions : \A b \in DOMAIN structures[v].blocks : structures[v].blocks[b].update # n + 1
    BY <1>2 DEF Inv, StructuresOK, Sane, Versions
  <2>8. index.published # 0
    <3>1. CASE r.branch = "draft"  BY <1>1, <2>2, <2>4, <3>1 DEF EntryOK, Entries
    <3>2. CASE r.branch = "published"  BY <2>3, <3>2
    <3> QED BY <2>4, <3>1, <3>2 DEF Branches
  <2>9. Match(structures[index.draft].blocks, structures[index.published].blocks, seen')
    BY <1>5, <2>1, <2>8, MarksGrow DEF PubInv, HeadsInv
  <2>10. CASE r.branch = "draft"
    <3>1. index'.draft = n + 1 /\ index'.published = index.published
      BY <1>1, <2>2, <2>4, <2>10 DEF EntryOK, Entries
    <3>2. structures'[index'.draft].blocks = blocks
          /\ structures'[index'.published].blocks = structures[index.published].blocks
      BY <1>3, <1>4, <2>5, <2>8, <3>1
    <3>3. Match(blocks, structures[index.published].blocks, seen')
      BY <2>3, <2>5, <2>7, <2>8, <2>9, <2>10 DEF Match, ChildrenIn
    <3> QED BY <3>2, <3>3
  <2>11. CASE r.branch = "published"
    <3>1. index'.published = n + 1 /\ index'.draft = index.draft
      BY <1>1, <2>2, <2>4, <2>11 DEF EntryOK, Entries
    <3>2. structures'[index'.published].blocks = blocks
          /\ structures'[index'.draft].blocks = structures[index.draft].blocks
      BY <1>3, <1>4, <2>5, <3>1
    <3>3. Match(structures[index.draft].blocks, blocks, seen')
      BY <2>3, <2>5, <2>7, <2>9, <2>11 DEF Match, ChildrenIn
    <3> QED BY <3>2, <3>3
  <2> QED BY <2>4, <2>10, <2>11 DEF Branches
<1> QED BY <1>6, <1>7, <1>8 DEF PubInv

\* The publication p of source into old meets the conditions of xblock_publish.
Publishable(v, source, old, p, marks) ==
  /\ v \in Nat /\ Proper(source, v) /\ Proper(old, v)
  /\ p \in Publications /\ p.root \in DOMAIN source /\ p.root \notin p.blacklist
  /\ \A b \in ParentsIn(source, p.root) : b \in DOMAIN old /\ old[b].listed
  /\ Clean(marks) => Match(source, old, marks)
  /\ "blacklist" \notin marks => p.blacklist = {}

\* It makes blocks, and leaves those outside of D.
Publishes(source, old, p, blocks, D, left) ==
  LET synced == Synced(source, old, p.root)
      visited == Visited(source, synced, p.root, p.blacklist)
  IN
  /\ DOMAIN blocks = DOMAIN old \cup visited
  /\ \A b \in visited : /\ blocks[b] = PublishedBlock(source, synced, p.blacklist, b)
                        /\ ChildrenIn(blocks, b) \ p.blacklist \subseteq DOMAIN source
  /\ \A b \in DOMAIN old \ visited : blocks[b] = synced[b]
  /\ \A c \in D : ParentsIn(blocks, c) \subseteq D
  /\ DOMAIN left = DOMAIN blocks \ D /\ \A b \in DOMAIN left : left[b] = blocks[b]

\* Block b of the published branch, synced or refreshed.
Refreshed(source, old, p, b, block) ==
  \/ b \in DOMAIN old /\ block = Synced(source, old, p.root)[b]
  \/ block = Block(Kept(source[b].children, Blocks \ p.blacklist), TRUE, source[b].update)

Agrees(source, p, marks, b, block) ==
  /\ b \in ParentsIn(source, p.root) =>
       /\ p.root \in ToSet(block.children)
       /\ block.children = Kept(source[b].children, ToSet(block.children))
  /\ Clean(marks) /\ block.update = source[b].update =>
       /\ block.children = Kept(source[b].children, ToSet(block.children))
       /\ "blacklist" \notin marks => ToSet(block.children) = ChildrenIn(source, b)

\* It has children of the draft.
LEMMA BlockMatches ==
  ASSUME NEW v, NEW source, NEW old, NEW p, NEW marks, Publishable(v, source, old, p, marks),
         NEW b \in DOMAIN source, NEW block, Refreshed(source, old, p, b, block)
  PROVE  Agrees(source, p, marks, b, block)
<1> DEFINE root == p.root  blacklist == p.blacklist  synced == Synced(source, old, p.root)
<1>0. /\ Proper(source, v) /\ Proper(old, v) /\ root \in Blocks /\ root \notin blacklist
      /\ Clean(marks) => Match(source, old, marks)
      /\ "blacklist" \notin marks => blacklist = {}
  BY DEF Publishable, Publications
<1>1. source[b].children \in Seq(Blocks)  BY <1>0 DEF Proper, Contents
<1>2. ASSUME NEW S, block.children = Kept(source[b].children, S)
      PROVE  /\ ToSet(block.children) = ChildrenIn(source, b) \cap S
             /\ block.children = Kept(source[b].children, ToSet(block.children))
  <2>1. ToSet(block.children) = ToSet(source[b].children) \cap S  BY <1>1, <1>2, KeptIsPart
  <2>2. ToSet(source[b].children) \cap S = ToSet(source[b].children) \cap ToSet(block.children)
    BY <2>1
  <2>3. Kept(source[b].children, S) = Kept(source[b].children, ToSet(block.children))
    BY <1>1, <2>2, KeptAgree
  <2> QED BY <1>2, <2>1, <2>3 DEF ChildrenIn
<1>3. ChildrenIn(source, b) \subseteq Blocks  BY <1>1 DEF ChildrenIn, ToSet
<1>4. CASE block = Block(Kept(source[b].children, Blocks \ blacklist), TRUE, source[b].update)
  <2>1. block.children = Kept(source[b].children, Blocks \ blacklist)  BY <1>4 DEF Block
  <2>2. /\ ToSet(block.children) = ChildrenIn(source, b) \cap (Blocks \ blacklist)
        /\ block.children = Kept(source[b].children, ToSet(block.children))
    BY <1>2, <2>1
  <2>3. b \in ParentsIn(source, root) => root \in ToSet(block.children)  BY <1>0, <2>2 DEF ParentsIn
  <2>4. "blacklist" \notin marks => ToSet(block.children) = ChildrenIn(source, b)  BY <1>0, <1>3, <2>2
  <2> QED BY <2>2, <2>3, <2>4 DEF Agrees
<1>5. CASE b \in DOMAIN old /\ block = synced[b] /\ b \in ParentsIn(source, root)
  <2> DEFINE S == ChildrenIn(old, b) \cup {root}
  <2>1. old[b] \in Contents  BY <1>0, <1>5 DEF Proper
  <2>2. block = [old[b] EXCEPT !.children = Kept(source[b].children, S)]  BY <1>5 DEF Synced
  <2> HIDE DEF S
  <2>3. block.children = Kept(source[b].children, S) /\ block.update = old[b].update
    BY <2>1, <2>2 DEF Contents
  <2>4. /\ ToSet(block.children) = ChildrenIn(source, b) \cap S
        /\ block.children = Kept(source[b].children, ToSet(block.children))
    BY <1>2, <2>3
  <2>5. root \in ToSet(block.children)  BY <1>5, <2>4 DEF ParentsIn, S
  <2>6. ASSUME Clean(marks), block.update = source[b].update, "blacklist" \notin marks
        PROVE  ToSet(block.children) = ChildrenIn(source, b)
    <3>1. ChildrenIn(old, b) = ChildrenIn(source, b)  BY <1>0, <1>5, <2>3, <2>6 DEF Match
    <3> QED BY <2>4, <3>1 DEF S
  <2> QED BY <2>4, <2>5, <2>6 DEF Agrees
<1>6. CASE b \in DOMAIN old /\ block = synced[b] /\ b \notin ParentsIn(source, root)
  <2>1. block = old[b]  BY <1>6 DEF Synced
  <2> QED BY <1>0, <1>6, <2>1 DEF Match, ChildrenIn, Agrees
<1> QED BY <1>4, <1>5, <1>6 DEF Refreshed

\* What publishing leaves, once orphans are deleted, is as in the source.
LEMMA PublishedIsAsInSource ==
  ASSUME NEW v, NEW source, NEW old, NEW p, NEW marks, Publishable(v, source, old, p, marks),
         NEW blocks, NEW D, NEW left, Publishes(source, old, p, blocks, D, left)
  PROVE  AsInSource(left, source, p, marks)
<1> DEFINE synced == Synced(source, old, p.root)
           visited == Visited(source, synced, p.root, p.blacklist)
           refreshed(b) == PublishedBlock(source, synced, p.blacklist, b)
<1>1. /\ p.root \in DOMAIN source
      /\ \A b \in ParentsIn(source, p.root) : b \in DOMAIN old
  BY DEF Publishable
<1>2. /\ p.root \in visited /\ visited \in SUBSET DOMAIN source
      /\ \A b \in visited : \A c \in ToSet(refreshed(b).children) \ p.blacklist :
           c \in DOMAIN source => c \in visited
  BY <1>1, VisitedClosed
<1>3. /\ DOMAIN blocks = DOMAIN old \cup visited
      /\ \A b \in visited : /\ blocks[b] = refreshed(b)
                            /\ ChildrenIn(blocks, b) \ p.blacklist \subseteq DOMAIN source
      /\ \A b \in DOMAIN old \ visited : blocks[b] = synced[b]
      /\ \A c \in D : ParentsIn(blocks, c) \subseteq D
      /\ DOMAIN left = DOMAIN blocks \ D /\ \A b \in DOMAIN left : left[b] = blocks[b]
  BY DEF Publishes
<1>4. \A b \in visited : /\ refreshed(b).update = source[b].update
                         /\ \/ b \in DOMAIN old /\ refreshed(b) = synced[b]
                            \/ refreshed(b) = Block(Kept(source[b].children, Blocks \ p.blacklist), TRUE, source[b].update)
  <2>1. DOMAIN synced = DOMAIN old  BY DEF Synced
  <2> HIDE DEF synced, visited
  <2> QED BY <2>1 DEF PublishedBlock, Block
<1> HIDE DEF visited, refreshed
<1>5. ASSUME NEW b \in DOMAIN blocks, b \in DOMAIN source
      PROVE  /\ b \in ParentsIn(source, p.root) =>
                  /\ p.root \in ChildrenIn(blocks, b)
                  /\ blocks[b].children = Kept(source[b].children, ChildrenIn(blocks, b))
             /\ Clean(marks) /\ blocks[b].update = source[b].update =>
                  /\ blocks[b].children = Kept(source[b].children, ChildrenIn(blocks, b))
                  /\ "blacklist" \notin marks => ChildrenIn(blocks, b) = ChildrenIn(source, b)
  <2> DEFINE block == blocks[b]
  <2>1. Refreshed(source, old, p, b, block)  BY <1>3, <1>4, <1>5 DEF Refreshed
  <2> HIDE DEF block
  <2>2. Agrees(source, p, marks, b, block)  BY <1>5, <2>1, BlockMatches
  <2>3. ToSet(block.children) = ChildrenIn(blocks, b)  BY DEF ChildrenIn, block
  <2> QED BY <2>2, <2>3 DEF block, Agrees
<1>6. Clean(marks) => Match(source, left, marks)  BY <1>3, <1>5 DEF Match, ChildrenIn
<1>7. ASSUME NEW b \in ParentsIn(source, p.root) \cap DOMAIN left
      PROVE  /\ p.root \in ChildrenIn(left, b)
             /\ left[b].children = Kept(source[b].children, ChildrenIn(left, b))
  BY <1>3, <1>5, <1>7 DEF ParentsIn, ChildrenIn
<1>8. ASSUME p.root \notin DOMAIN left, NEW b \in ParentsIn(source, p.root) \cap DOMAIN left
      PROVE  FALSE
  <2>1. p.root \in D  BY <1>2, <1>3, <1>8
  <2>2. b \in ParentsIn(blocks, p.root)  BY <1>3, <1>5, <1>8 DEF ParentsIn
  <2> QED BY <1>3, <1>8, <2>1, <2>2
<1>9. ASSUME p.root \in DOMAIN left, NEW b \in Reached(left, p)
      PROVE  b \in visited \cap DOMAIN left
  <2> DEFINE T == visited \cap DOMAIN left
             Closed(U) == p.root \in U /\ \A x \in U : \A c \in DOMAIN left \ U :
                                             ~(c \in ChildrenIn(left, x) \ p.blacklist)
  <2>1. T \in SUBSET (DOMAIN left \cup {p.root})  OBVIOUS
  <2>2. Closed(T)
    <3>1. ASSUME NEW x \in T, NEW c \in DOMAIN left \ T, c \in ChildrenIn(left, x) \ p.blacklist
          PROVE  FALSE
      <4>1. c \in ToSet(refreshed(x).children) \ p.blacklist  BY <1>3, <3>1 DEF ChildrenIn
      <4>2. c \in DOMAIN source  BY <1>3, <3>1 DEF ChildrenIn
      <4> QED BY <1>2, <3>1, <4>1, <4>2
    <3> QED BY <1>2, <1>9, <3>1
  <2>3. b \in {c \in DOMAIN left \cup {p.root} :
                 \A U \in SUBSET (DOMAIN left \cup {p.root}) : Closed(U) => c \in U}
    BY <1>9 DEF Reached, Subtree
  <2> HIDE DEF T, Closed
  <2>4. b \in T  BY <2>1, <2>2, <2>3
  <2> QED BY <2>4 DEF T
<1>10. ASSUME p.root \in DOMAIN left, NEW b \in Reached(left, p)
       PROVE  b \in DOMAIN left \cap DOMAIN source /\ left[b].update = source[b].update
  <2>1. b \in visited /\ b \in DOMAIN left /\ b \in DOMAIN source  BY <1>2, <1>9, <1>10
  <2> QED BY <1>3, <1>4, <2>1
<1> QED BY <1>6, <1>7, <1>8, <1>10 DEF AsInSource

\* Publishing the head of the draft leaves heads that match.
LEMMA CommitPublishMatches ==
  ASSUME Inv, PubInv, NEW h \in Handlers, CommitPublish(h)
  PROVE  PubInv'
<1> DEFINE r == req[h]  n == Len(structures)  new == n + 1
           p == r.published
           root == r.published.root  blacklist == r.published.blacklist
           source == structures[r.published.source].blocks
           old == IF r.base = 0 THEN <<>> ELSE structures[r.base].blocks
           parents == ParentsIn(source, root)
           synced == Synced(source, old, root)
           visited == Visited(source, synced, root, blacklist)
           changed == {b \in visited : b \in DOMAIN old => old[b].update # source[b].update}
           blocks == [b \in DOMAIN old \cup visited |->
                        IF b \in visited THEN PublishedBlock(source, synced, blacklist, b) ELSE synced[b]]
           orphans == Orphans(source, old, parents) \cup Orphans(source, old, changed)
           mark == {m \in {"blacklist", "stale"} :
                      IF m = "blacklist" THEN blacklist # {} ELSE r.published.source # index.draft}
           behind == index # r.entry \/ (r.guid = 0 /\ r.base # r.entry[r.branch])
<1>1. r.op = "publish" /\ "base" \in DOMAIN r  BY DEF CommitPublish
<1>2. r # Idle /\ ReadOK(r, structures) /\ PublishOK(r, structures)  BY <1>1, Requested
<1>3. /\ new \in Nat /\ n \in Nat /\ p.source \in Versions /\ structures \in Seq(Structures)
      /\ r.base # 0 => r.base \in Versions
  BY <1>1, <1>2 DEF ReadOK, PublishOK, Versions, Inv, StructuresOK
<1>4. \A v \in Versions : Proper(structures[v].blocks, new)
  <2>1. \A v \in Versions : v <= new  BY <1>3 DEF Versions
  <2> QED BY <1>3, <2>1, StructureProper DEF Inv
<1>5. Proper(source, new) /\ root \in DOMAIN source /\ p \in Publications /\ root \notin blacklist
  BY <1>1, <1>2, <1>3, <1>4 DEF PublishOK, PubInv, RootInv
<1>6. Proper(old, new)
  <2>1. r.base = 0 => DOMAIN old = {}  OBVIOUS
  <2>2. CASE r.base = 0
    <3> HIDE DEF old
    <3> QED BY <2>1, <2>2 DEF Proper
  <2>3. CASE r.base # 0  BY <1>3, <1>4, <2>3
  <2> QED BY <2>2, <2>3
<1>7. CASE Raises(h)
  <2>1. req' = [req EXCEPT ![h] = Idle] /\ UNCHANGED <<structures, index, seen>>  BY <1>7 DEF Raises
  <2>2. Idle.op # "publish" /\ req = [g \in Handlers |-> req[g]]  BY DEF Idle, Inv
  <2> QED BY <2>1, <2>2, Asked
<1>8. ASSUME \A b \in parents : b \in DOMAIN old /\ old[b].listed,
             \A b \in visited : ChildrenIn(blocks, b) \ blacklist \subseteq DOMAIN source,
             NEW D \in Deletions(blocks, orphans), Commit(h, Without(blocks, D), r.published, mark)
      PROVE  PubInv'
  <2> DEFINE left == Without(blocks, D)
             s == [previous |-> r.base, branch |-> r.branch, published |-> p, blocks |-> left]
  <2>1. /\ structures' = Append(structures, s)
        /\ index' = [r.entry EXCEPT ![r.branch] = new]
        /\ seen' = seen \cup mark \cup (IF behind THEN {"raced"} ELSE {})
        /\ req' = [req EXCEPT ![h] = Idle]
    BY <1>8 DEF Commit
  <2>2. seen \subseteq seen' /\ ("blacklist" \notin seen' => blacklist = {})
        /\ (Clean(seen') => p.source = index.draft /\ ~behind)
    BY <2>1 DEF Clean
  <2>3. Clean(seen') =>
          /\ index = r.entry /\ (r.guid = 0 => r.base = r.entry[r.branch]) /\ Clean(seen)
          /\ r.base = index.published
    <3>1. Clean(seen') => index = r.entry /\ (r.guid = 0 => r.base = r.entry[r.branch]) /\ Clean(seen)
      BY <2>2, MarksGrow
    <3>2. r.branch = "published" /\ {"entry", "base"} \subseteq DOMAIN r /\ r.guid = 0
      BY <1>1, <1>2 DEF PublishOK
    <3> QED BY <3>1, <3>2
  <2>4. Clean(seen') => Match(source, old, seen')
    <3> SUFFICES ASSUME Clean(seen') PROVE Match(source, old, seen')  OBVIOUS
    <3>1. CASE r.base = 0
      <4>1. DOMAIN old = {}  BY <3>1
      <4> HIDE DEF old
      <4> QED BY <4>1 DEF Match
    <3>2. CASE r.base # 0
      <4>1. Match(structures[index.draft].blocks, structures[index.published].blocks, seen)
        BY <2>3, <3>2 DEF PubInv, HeadsInv
      <4>2. Match(source, old, seen)  BY <2>2, <2>3, <3>2, <4>1
      <4> HIDE DEF source, old
      <4> QED BY <2>2, <4>2, MarksGrow
    <3> QED BY <3>1, <3>2
  <2>5. /\ s.published = p /\ s.blocks = left /\ s.branch = r.branch  OBVIOUS
  <2>6. AsInSource(left, source, p, seen')
    <3>1. Publishable(new, source, old, p, seen')
      <4> HIDE DEF source, old
      <4> QED BY <1>3, <1>5, <1>6, <1>8, <2>2, <2>4 DEF Publishable
    <3> HIDE DEF source, old
    <3>2. DOMAIN blocks = DOMAIN old \cup visited  OBVIOUS
    <3>3. \A b \in visited : blocks[b] = PublishedBlock(source, synced, blacklist, b)  OBVIOUS
    <3>4. \A b \in DOMAIN old \ visited : blocks[b] = synced[b]  OBVIOUS
    <3>5. \A c \in D : ParentsIn(blocks, c) \subseteq D  BY DEF Deletions
    <3>6. DOMAIN left = DOMAIN blocks \ D /\ \A b \in DOMAIN left : left[b] = blocks[b]
      BY DEF Without
    <3> HIDE DEF blocks, left
    <3>7. Publishes(source, old, p, blocks, D, left)
      BY <1>8, <3>2, <3>3, <3>4, <3>5, <3>6 DEF Publishes
    <3> HIDE DEF p, new
    <3> QED BY <3>1, <3>7, PublishedIsAsInSource
  <2> HIDE DEF s
  <2>7. /\ Versions' = Versions \cup {new} /\ structures'[new] = s
        /\ \A v \in Versions : structures'[v] = structures[v]
    <3> DEFINE t == Append(structures, s)
    <3>1. Len(t) = new /\ t[new] = s /\ \A v \in 1..n : t[v] = structures[v]
      BY <1>3, AppendOne
    <3>2. structures' = t  BY <2>1
    <3> HIDE DEF t
    <3>3. 1..new = 1..n \cup {new}  BY <1>3, AppendOne
    <3> QED BY <3>1, <3>2, <3>3 DEF Versions
  <2>8. RootInv'  BY <2>1, RootsStay DEF Inv, PubInv
  <2>9. PublishedInv'
    <3> SUFFICES ASSUME NEW v \in Published'
                 PROVE  LET q == structures'[v].published IN
                        /\ q.source \in Versions'
                        /\ AsInSource(structures'[v].blocks, structures'[q.source].blocks, q, seen')
      BY DEF PublishedInv
    <3> HIDE DEF source, left, p, new
    <3>1. CASE v = new
      <4>1. structures'[v].published = p /\ structures'[v].blocks = left  BY <2>5, <2>7, <3>1
      <4>2. p.source \in Versions' /\ structures'[p.source].blocks = source
        BY <1>3, <2>7 DEF source, p
      <4> QED BY <2>6, <4>1, <4>2
    <3>2. CASE v # new
      <4>1. v \in Versions /\ v \in Published  BY <2>7, <3>2 DEF Published
      <4>2. \A w \in Versions : structures'[w] = structures[w]  BY <2>7
      <4> QED BY <2>2, <2>7, <4>1, <4>2, PublishedStays DEF PubInv
    <3> QED BY <3>1, <3>2
  <2>10. HeadsInv'
    <3> SUFFICES ASSUME Clean(seen'), index'.published # 0
                 PROVE  Match(structures'[index'.draft].blocks, structures'[index'.published].blocks, seen')
      BY DEF HeadsInv
    <3>1. r.branch = "published" /\ index \in Entries /\ index = r.entry /\ p.source = index.draft
      BY <1>2, <2>2, <2>3 DEF PublishOK, Inv, EntryOK
    <3>2. index'.published = new /\ index'.draft = index.draft  BY <2>1, <3>1 DEF Entries
    <3>3. structures'[index'.published].blocks = left /\ structures'[index'.draft].blocks = source
      BY <1>3, <2>5, <2>7, <3>1, <3>2
    <3>4. Match(source, left, seen')  BY <2>6 DEF AsInSource
    <3> QED BY <3>3, <3>4
  <2> QED BY <2>8, <2>9, <2>10 DEF PubInv
<1> QED BY <1>7, <1>8 DEF CommitPublish

LEMMA CommitCreateMatches ==
  ASSUME Inv, PubInv, NEW h \in Handlers, CommitCreate(h)
  PROVE  PubInv'
<1> DEFINE r == req[h]  old == structures[r.base].blocks  new == Len(structures) + 1
           blocks == [b \in DOMAIN old \cup {r.block} |->
                        CASE b = r.block -> Block(<<>>, FALSE, new)
                          [] b = r.parent -> Block(Append(old[b].children, r.block), TRUE, new)
                          [] OTHER -> old[b]]
<1>1. r.op = "create" /\ r.base # 0 /\ Commit(h, blocks, NotPublished, {})  BY DEF CommitCreate
<1>2. r # Idle /\ {"entry", "base"} \subseteq DOMAIN r  BY <1>1, Requested DEF CreateOK
<1>3. ASSUME NEW b \in DOMAIN blocks
      PROVE  (b \in DOMAIN old /\ blocks[b] = old[b]) \/ blocks[b].update = new
  <2>1. CASE b = r.block  BY <2>1 DEF Block
  <2>2. CASE b # r.block /\ b = r.parent
    <3>1. blocks[b] = Block(Append(old[b].children, r.block), TRUE, new)  BY <2>2
    <3> HIDE DEF blocks
    <3> QED BY <3>1 DEF Block
  <2>3. CASE b # r.block /\ b # r.parent  BY <2>3
  <2> QED BY <2>1, <2>2, <2>3
<1> HIDE DEF blocks
<1> QED BY <1>1, <1>2, <1>3, EditMatches

LEMMA CommitUpdateMatches ==
  ASSUME Inv, PubInv, NEW h \in Handlers, CommitUpdate(h)
  PROVE  PubInv'
<1> DEFINE r == req[h]  old == structures[r.base].blocks  new == Len(structures) + 1
           blocks == [old EXCEPT ![r.block] = Block(r.children, r.block \notin Leaves, new)]
<1>1. r.op = "update" /\ "entry" \in DOMAIN r /\ Commit(h, blocks, NotPublished, {})  BY DEF CommitUpdate
<1>2. r # Idle /\ {"entry", "base"} \subseteq DOMAIN r /\ r.base # 0  BY <1>1, Requested DEF UpdateOK
<1>3. ASSUME NEW b \in DOMAIN blocks
      PROVE  (b \in DOMAIN old /\ blocks[b] = old[b]) \/ blocks[b].update = new
  <2>1. CASE b = r.block
    <3>1. blocks[b] = Block(r.children, r.block \notin Leaves, new)  BY <1>3, <2>1
    <3> QED BY <3>1 DEF Block
  <2>2. CASE b # r.block  BY <1>3, <2>2
  <2> QED BY <2>1, <2>2
<1> HIDE DEF blocks
<1> QED BY <1>1, <1>2, <1>3, EditMatches

LEMMA CommitDeleteMatches ==
  ASSUME Inv, PubInv, NEW h \in Handlers, CommitDelete(h)
  PROVE  PubInv'
<1> DEFINE r == req[h]  old == structures[r.base].blocks  new == Len(structures) + 1
           gone == IF r.whole THEN SubtreeIn(old, r.block) ELSE {r.block}
           shared == \E c \in gone \ {r.block} : ~(ParentsIn(old, c) \subseteq gone)
           mark == IF shared THEN {"shared"} ELSE {}
           blocks == [b \in DOMAIN old \ gone |->
                        IF b \in r.parents
                          THEN Block(Kept(old[b].children, Blocks \ {r.block}), TRUE, new)
                          ELSE old[b]]
<1>1. r.op = "delete" /\ "parents" \in DOMAIN r  BY DEF CommitDelete
<1>2. r # Idle /\ {"entry", "base"} \subseteq DOMAIN r /\ r.base # 0  BY <1>1, Requested DEF DeleteOK
<1>3. CASE Raises(h)
  <2>1. req' = [req EXCEPT ![h] = Idle] /\ UNCHANGED <<structures, index, seen>>  BY <1>3 DEF Raises
  <2>2. Idle.op # "publish" /\ req = [g \in Handlers |-> req[g]]  BY DEF Idle, Inv
  <2> QED BY <2>1, <2>2, Asked
<1>4. CASE Commit(h, blocks, NotPublished, mark)
  <2>1. mark \in SUBSET {"shared"}  OBVIOUS
  <2>2. ASSUME NEW b \in DOMAIN blocks
        PROVE  (b \in DOMAIN old /\ blocks[b] = old[b]) \/ blocks[b].update = new
    <3> HIDE DEF gone
    <3>1. CASE b \in r.parents
      <4>1. blocks[b] = Block(Kept(old[b].children, Blocks \ {r.block}), TRUE, new)  BY <3>1
      <4> HIDE DEF blocks
      <4> QED BY <4>1 DEF Block
    <3>2. CASE b \notin r.parents  BY <3>2
    <3> QED BY <3>1, <3>2
  <2> HIDE DEF blocks, mark
  <2> QED BY <1>1, <1>2, <1>4, <2>1, <2>2, EditMatches
<1> QED BY <1>3, <1>4 DEF CommitDelete

\* What requests do before they commit.
LEMMA BeforeCommit ==
  ASSUME Inv, PubInv,
         \/ Create \/ Update \/ Delete \/ Publish
         \/ \E h \in Handlers : \/ LookupToCreate(h) \/ ReadIndex(h) \/ UpdateFails(h) \/ ReadParents(h)
                                \/ ReadDestinationIndex(h) \/ ReadDestination(h)
  PROVE  PubInv'
<1>1. req = [g \in Handlers |-> req[g]]  BY DEF Inv
<1>2. ASSUME NEW h \in Handlers, Raises(h) PROVE PubInv'
  <2>1. Idle.op # "publish"  BY DEF Idle
  <2> QED BY <1>1, <1>2, <2>1, Asked DEF Raises
<1>3. ASSUME NEW h \in Free, NEW r, Begin(h, r), r.op # "publish" PROVE PubInv'
  BY <1>1, <1>3, Asked DEF Begin, Free
<1>4. CASE Create
  <2>1. PICK h, guid, b, parent : h \in Free /\ BeginCreate(h, guid, b, parent)  BY <1>4 DEF Create
  <2> QED BY <1>3, <2>1 DEF BeginCreate
<1>5. CASE Update
  <2>1. PICK h, guid, b, children : h \in Free /\ BeginUpdate(h, guid, b, children)
    BY <1>5 DEF Update
  <2> QED BY <1>3, <2>1 DEF BeginUpdate
<1>6. CASE Delete
  <2>1. PICK h, branch, guid, b, deleteChildren :
          h \in Free /\ BeginDelete(h, branch, guid, b, deleteChildren)
    BY <1>6 DEF Delete
  <2> QED BY <1>3, <2>1 DEF BeginDelete
<1>7. CASE Publish
  <2>1. PICK h, guid, root, blacklist :
          h \in Free /\ root \notin blacklist /\ BeginPublish(h, guid, root, blacklist)
    <3>1. PICK h \in Free, guid \in Guids("draft") :
            LET blocks == structures[IF guid = 0 THEN index.draft ELSE guid].blocks IN
            \E root \in DOMAIN blocks :
              \E blacklist \in {{}} \cup {{k} : k \in (Withheld \cap SubtreeIn(blocks, root)) \ {root}} :
                BeginPublish(h, guid, root, blacklist)
      BY <1>7 DEF Publish
    <3> QED BY <3>1
  <2> DEFINE p == [source |-> LookupCourse("draft", guid), root |-> root, blacklist |-> blacklist]
             r == [op |-> "publish", branch |-> "published", guid |-> 0, published |-> p]
  <2>2. req' = [req EXCEPT ![h] = r] /\ UNCHANGED <<structures, index, seen>>
    BY <2>1 DEF BeginPublish, Begin
  <2>3. r.published.root \notin r.published.blacklist  BY <2>1
  <2> HIDE DEF r
  <2>4. h \in Handlers  BY <2>1 DEF Free
  <2> QED BY <1>1, <2>2, <2>3, <2>4, Asked
<1>8. ASSUME NEW h \in Handlers, LookupToCreate(h) PROVE PubInv'
  <2> DEFINE r == [req[h] EXCEPT !.base = LookupCourse(req[h].branch, req[h].guid)]
  <2>1. CASE Raises(h)  BY <1>2, <2>1
  <2>2. CASE req' = [req EXCEPT ![h].base = LookupCourse(req[h].branch, req[h].guid)]
             /\ UNCHANGED <<structures, index, seen>>
    <3>1. req[h].op = "create"  BY <1>8 DEF LookupToCreate
    <3>2. "op" \in DOMAIN req[h]  BY <3>1, Requested DEF ReadOK
    <3>3. r.op # "publish"  BY <3>1, <3>2
    <3>4. req' = [req EXCEPT ![h] = r]  BY <2>2
    <3> HIDE DEF r
    <3> QED BY <1>1, <2>2, <3>3, <3>4, Asked
  <2> QED BY <1>8, <2>1, <2>2 DEF LookupToCreate
<1>9. ASSUME NEW h \in Handlers, NEW name \in {"entry", "parents", "base"}, NEW value,
             req[h].op \in {"update", "delete", "publish"},
             req' = [req EXCEPT ![h] = Noted(req[h], name, value)], UNCHANGED <<structures, index, seen>>
      PROVE  PubInv'
  <2> DEFINE r == Noted(req[h], name, value)
  <2>1. "op" \in DOMAIN req[h] /\ (req[h].op = "publish" => "published" \in DOMAIN req[h])
    BY <1>9, Requested DEF ReadOK, PublishOK
  <2>2. r.op = req[h].op /\ (req[h].op = "publish" => r.published = req[h].published)
    BY <1>9, <2>1 DEF Noted
  <2>3. r.op = "publish" => r.published.root \notin r.published.blacklist
    BY <2>2 DEF PubInv, RootInv
  <2> HIDE DEF r
  <2> QED BY <1>1, <1>9, <2>3, Asked DEF r
<1>10. ASSUME NEW h \in Handlers, ReadIndex(h) PROVE PubInv'
  BY <1>2, <1>9, <1>10 DEF ReadIndex
<1>11. ASSUME NEW h \in Handlers, ReadParents(h) PROVE PubInv'
  BY <1>2, <1>9, <1>11 DEF ReadParents
<1>12. ASSUME NEW h \in Handlers, ReadDestinationIndex(h) PROVE PubInv'
  BY <1>2, <1>9, <1>12 DEF ReadDestinationIndex
<1>13. ASSUME NEW h \in Handlers, ReadDestination(h) PROVE PubInv'
  BY <1>2, <1>9, <1>13 DEF ReadDestination
<1>14. ASSUME NEW h \in Handlers, UpdateFails(h) PROVE PubInv'  BY <1>2, <1>14 DEF UpdateFails
<1> QED BY <1>4, <1>5, <1>6, <1>7, <1>8, <1>10, <1>11, <1>12, <1>13, <1>14

\* Published from the start, a course is its own draft.
LEMMA InitMatches ==
  ASSUME Init
  PROVE  PubInv
<1> DEFINE blocks == structures[1].blocks
<1>1. Inv  BY InitInv
<1>2. structures = <<structures[1]>> /\ structures[1].published = NotPublished
  BY DEF Init
<1>3. Versions = {1}  BY <1>2 DEF Versions
<1>4. PublishedInv  BY <1>2, <1>3 DEF PublishedInv, Published, NotPublished
<1>5. RootInv  BY DEF RootInv, Init, Idle
<1>6. index.draft = 1 /\ index.published \in {0, 1}  BY DEF Init
<1>7. Proper(blocks, 1)  BY <1>1, <1>3, StructureProper DEF Inv
<1>8. ASSUME NEW b \in DOMAIN blocks PROVE blocks[b].children = Kept(blocks[b].children, ChildrenIn(blocks, b))
  <2>1. blocks[b].children \in Seq(Blocks)  BY <1>7 DEF Proper, Contents
  <2> QED BY <2>1, KeptAll DEF ChildrenIn
<1>9. Match(blocks, blocks, seen)  BY <1>8 DEF Match
<1>10. HeadsInv  BY <1>6, <1>9 DEF HeadsInv
<1> QED BY <1>4, <1>5, <1>10 DEF PubInv

LEMMA NextMatches ==
  ASSUME Inv, PubInv, [Next]_vars
  PROVE  PubInv'
<1>1. CASE UNCHANGED vars
  BY <1>1 DEF PubInv, HeadsInv, PublishedInv, RootInv, Published, Versions, vars
<1>2. ASSUME NEW h \in Handlers
      PROVE  CommitCreate(h) \/ CommitUpdate(h) \/ CommitDelete(h) \/ CommitPublish(h) => PubInv'
  BY CommitCreateMatches, CommitUpdateMatches, CommitDeleteMatches, CommitPublishMatches
<1> QED BY <1>1, <1>2, BeforeCommit DEF Next

LEMMA MatchesMean ==
  ASSUME PubInv
  PROVE  PublishedAsInSource
<1> SUFFICES ASSUME NEW v \in Published
             PROVE  LET p == structures[v].published
                        blocks == structures[v].blocks
                        source == structures[p.source].blocks
                    IN
                    /\ p.root \in DOMAIN blocks =>
                         \A b \in Reached(blocks, p) :
                           /\ b \in DOMAIN blocks \cap DOMAIN source
                           /\ blocks[b].update = source[b].update
                           /\ seen \cap {"stale", "raced"} = {} =>
                                /\ blocks[b].children = Kept(source[b].children, ChildrenIn(blocks, b))
                                /\ "blacklist" \notin seen => ChildrenIn(blocks, b) = ChildrenIn(source, b)
                    /\ p.root \notin DOMAIN blocks => ParentsIn(source, p.root) \cap DOMAIN blocks = {}
                    /\ \A b \in ParentsIn(source, p.root) \cap DOMAIN blocks :
                         /\ p.root \in ChildrenIn(blocks, b)
                         /\ blocks[b].children = Kept(source[b].children, ChildrenIn(blocks, b))
  BY DEF PublishedAsInSource, Reached
<1> DEFINE p == structures[v].published
           blocks == structures[v].blocks
           source == structures[p.source].blocks
<1>1. AsInSource(blocks, source, p, seen)  BY DEF PubInv, PublishedInv
<1> QED BY <1>1 DEF AsInSource, Match, Clean

\* What is published is what the draft had, for any course, blocks and editors.
THEOREM PublishedAlwaysAsInSource == Spec => []PublishedAsInSource
<1>1. Init => Inv /\ PubInv  BY InitInv, InitMatches
<1>2. (Inv /\ PubInv) /\ [Next]_vars => (Inv /\ PubInv)'  BY NextInv, NextMatches
<1>3. PubInv => PublishedAsInSource  BY MatchesMean
<1> QED BY <1>1, <1>2, <1>3, PTL DEF Spec
=============================================================================
