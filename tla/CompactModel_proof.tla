------------------------- MODULE CompactModel_proof -------------------------
(***************************************************************************)
(* Proofs about Sets and CompactModel, for all given sets, sequences and   *)
(* entries, and any number of derived sets and iterators.                  *)
(***************************************************************************)
EXTENDS CompactModel, Finite_proof

-----------------------------------------------------------------------------
(* Sequences without repetitions, and what is selected from them.          *)
Distinct(s) == \A m, n \in DOMAIN s : s[m] = s[n] => m = n

(* They have as many elements as their set.                                *)
LEMMA DistinctSize ==
    ASSUME NEW X, NEW s \in Seq(X), Distinct(s)
    PROVE  IsFiniteSet(ToSet(s)) /\ Cardinality(ToSet(s)) = Len(s)
<1>1. Len(s) \in Nat /\ DOMAIN s = 1..Len(s)
  BY LenProperties
<1>2. s \in Bijection(1..Len(s), ToSet(s))
  <2>1. s \in [1..Len(s) -> ToSet(s)]
    BY <1>1, LenProperties DEF ToSet
  <2>2. s \in Injection(1..Len(s), ToSet(s))
    BY <1>1, <2>1 DEF Distinct, Injection, IsInjective
  <2>3. s \in Surjection(1..Len(s), ToSet(s))
    BY <1>1, <2>1 DEF ToSet, Surjection
  <2>4. QED
    BY <2>2, <2>3 DEF Bijection
<1>3. ExistsBijection(1..Len(s), ToSet(s))
  BY <1>2 DEF ExistsBijection
<1>4. QED
  BY <1>1, <1>3, FS_NatBijection, FS_CountingElements

LEMMA SelectedFacts ==
    ASSUME NEW X, NEW items \in Seq(X), NEW S \in SUBSET DOMAIN items
    PROVE  /\ Selected(items, S) \in Seq(X)
           /\ ToSet(Selected(items, S)) = {items[n] : n \in S}
           /\ (\A m, n \in S : items[m] = items[n] => m = n) => Distinct(Selected(items, S))
<1> DEFINE order == InOrder(S)
           s == Selected(items, S)
<1>1. Len(items) \in Nat /\ DOMAIN items = 1..Len(items) /\ \A n \in DOMAIN items : items[n] \in X
  BY LenProperties, ElementOfSeq
<1>2. IsFiniteSet(S) /\ S \in SUBSET Nat
  <2>1. IsFiniteSet(1..Len(items))
    BY <1>1, FS_Interval
  <2>2. S \in SUBSET (1..Len(items)) /\ S \in SUBSET Nat
    BY <1>1
  <2>3. QED
    BY <2>1, <2>2, FS_Subset
<1>3. /\ order \in Seq(S) /\ Len(order) \in Nat /\ DOMAIN order = 1..Len(order)
      /\ ToSet(order) = S
      /\ \A m, n \in DOMAIN order : order[m] = order[n] => m = n
  BY <1>2, InOrderMembers
<1>4. \A n \in DOMAIN order : order[n] \in S
  BY <1>3, ElementOfSeq
<1>5. s = [n \in 1..Len(order) |-> items[order[n]]]
  BY <1>3 DEF Selected
<1> HIDE DEF order
<1>6. s \in Seq(X)
  BY <1>1, <1>3, <1>4, <1>5, IsASeq
<1>7. DOMAIN s = DOMAIN order /\ \A n \in DOMAIN order : s[n] = items[order[n]]
  BY <1>3, <1>5
<1>8. ToSet(s) = {items[n] : n \in S}
  BY <1>3, <1>4, <1>7 DEF ToSet
<1>9. ASSUME \A m, n \in S : items[m] = items[n] => m = n
      PROVE  Distinct(s)
  BY <1>3, <1>4, <1>7, <1>9 DEF Distinct
<1>10. QED
  BY <1>6, <1>8, <1>9

LEMMA ToSetConcat ==
    ASSUME NEW X, NEW s \in Seq(X), NEW t \in Seq(X)
    PROVE  /\ s \o t \in Seq(X) /\ ToSet(s \o t) = ToSet(s) \cup ToSet(t)
           /\ Distinct(s) /\ Distinct(t) /\ ToSet(s) \cap ToSet(t) = {} => Distinct(s \o t)
<1>1. /\ Len(s) \in Nat /\ DOMAIN s = 1..Len(s)
      /\ Len(t) \in Nat /\ DOMAIN t = 1..Len(t)
  BY LenProperties
<1>2. /\ s \o t \in Seq(X) /\ DOMAIN (s \o t) = 1..(Len(s) + Len(t))
      /\ \A i \in 1..(Len(s) + Len(t)) : (s \o t)[i] = IF i <= Len(s) THEN s[i] ELSE t[i - Len(s)]
  BY ConcatProperties, LenProperties
<1>3. ToSet(s \o t) \subseteq ToSet(s) \cup ToSet(t)
  BY <1>1, <1>2 DEF ToSet
<1>4. ToSet(s) \subseteq ToSet(s \o t)
  BY <1>1, <1>2 DEF ToSet
<1>5. ASSUME NEW j \in 1..Len(t) PROVE t[j] \in ToSet(s \o t)
  <2>1. Len(s) + j \in 1..(Len(s) + Len(t)) /\ ~(Len(s) + j <= Len(s)) /\ (Len(s) + j) - Len(s) = j
    BY <1>1
  <2>2. (s \o t)[Len(s) + j] = t[j]
    BY <1>2, <2>1
  <2>3. QED
    BY <1>2, <2>1, <2>2 DEF ToSet
<1>6. ToSet(s \o t) = ToSet(s) \cup ToSet(t)
  BY <1>1, <1>3, <1>4, <1>5 DEF ToSet
<1>7. ASSUME Distinct(s), Distinct(t), ToSet(s) \cap ToSet(t) = {}
      PROVE  Distinct(s \o t)
  <2> SUFFICES ASSUME NEW m \in 1..(Len(s) + Len(t)), NEW n \in 1..(Len(s) + Len(t)),
                      (s \o t)[m] = (s \o t)[n]
               PROVE  m = n
    BY <1>2 DEF Distinct
  <2>1. \A k \in 1..(Len(s) + Len(t)) :
           /\ k <= Len(s) => k \in DOMAIN s /\ (s \o t)[k] = s[k] /\ (s \o t)[k] \in ToSet(s)
           /\ ~(k <= Len(s)) => /\ k - Len(s) \in DOMAIN t /\ (s \o t)[k] = t[k - Len(s)]
                                /\ (s \o t)[k] \in ToSet(t)
    BY <1>1, <1>2 DEF ToSet
  <2>2. CASE m <= Len(s) /\ n <= Len(s)
    BY <1>7, <2>1, <2>2 DEF Distinct
  <2>3. CASE ~(m <= Len(s)) /\ ~(n <= Len(s))
    <3>1. m - Len(s) = n - Len(s)
      BY <1>7, <2>1, <2>3 DEF Distinct
    <3>2. QED
      BY <1>1, <3>1
  <2>4. CASE (m <= Len(s)) # (n <= Len(s))
    BY <1>7, <2>1, <2>4
  <2>5. QED
    BY <2>2, <2>3, <2>4
<1>8. QED
  BY <1>2, <1>6, <1>7

(* What is added is what was not there, each item once.                    *)
LEMMA AddedFacts ==
    ASSUME NEW X, NEW data \in Seq(X), NEW items \in Seq(X), Distinct(data)
    PROVE  /\ Added(data, items) \in Seq(X) /\ Distinct(Added(data, items))
           /\ ToSet(Added(data, items)) = ToSet(data) \cup ToSet(items)
<1> DEFINE S == {n \in DOMAIN items : /\ items[n] \notin ToSet(data)
                                      /\ \A m \in 1..(n - 1) : items[m] # items[n]}
           s == Selected(items, S)
<1>1. Len(items) \in Nat /\ DOMAIN items = 1..Len(items)
  BY LenProperties
<1>2. \A m, n \in S : items[m] = items[n] => m = n
  <2> SUFFICES ASSUME NEW m \in S, NEW n \in S, items[m] = items[n] PROVE m = n
    OBVIOUS
  <2>1. m \in Nat /\ n \in Nat /\ m >= 1 /\ n >= 1
    BY <1>1
  <2>2. ~(m < n) /\ ~(n < m)
    BY <2>1
  <2>3. QED
    BY <2>1, <2>2
<1>3. s \in Seq(X) /\ ToSet(s) = {items[n] : n \in S} /\ Distinct(s)
  <2> HIDE DEF S
  <2>1. S \in SUBSET DOMAIN items
    BY DEF S
  <2>2. QED
    BY <1>2, <2>1, SelectedFacts
<1>4. Added(data, items) = data \o s
  BY DEF Added
<1>5. ToSet(data) \cap ToSet(s) = {}
  BY <1>3
<1>6. ToSet(data) \cup ToSet(s) = ToSet(data) \cup ToSet(items)
  <2>1. ToSet(s) \subseteq ToSet(items)
    BY <1>3 DEF ToSet
  <2>2. ASSUME NEW n \in DOMAIN items, items[n] \notin ToSet(data)
        PROVE  items[n] \in ToSet(s)
    <3> DEFINE E == {m \in 1..Len(items) : items[m] = items[n]}
    <3>1. n \in E /\ E \in SUBSET Nat
      BY <1>1
    <3>2. PICK k \in E : \A m \in E : k <= m
      BY <3>1, Least
    <3>3. k \in S
      <4>1. k \in DOMAIN items /\ items[k] = items[n]
        BY <1>1, <3>2
      <4>2. \A m \in 1..(k - 1) : items[m] # items[k]
        BY <1>1, <3>2, <4>1
      <4>3. QED
        BY <2>2, <4>1, <4>2
    <3>4. QED
      BY <1>3, <3>2, <3>3
  <2>3. QED
    BY <2>1, <2>2 DEF ToSet
<1> HIDE DEF S, s
<1>7. QED
  BY <1>3, <1>4, <1>5, <1>6, ToSetConcat

-----------------------------------------------------------------------------
(* The combinations of the elements of simple sets.                        *)
Alone(X) == {<<x>> : x \in X}
OfLength(X, d) == {v \in Seq(X) : Len(v) = d}

(* Place k among the a * m places is place 1 + ((k - 1) % m) of block      *)
(* 1 + ((k - 1) \div m).                                                   *)
LEMMA Blocks ==
    ASSUME NEW a \in Nat, NEW m \in Nat
    PROVE  /\ a * m \in Nat
           /\ \A k \in 1..(a * m) :
                 /\ m > 0
                 /\ 1 + ((k - 1) \div m) \in 1..a /\ 1 + ((k - 1) % m) \in 1..m
                 /\ k = ((1 + ((k - 1) \div m)) - 1) * m + (1 + ((k - 1) % m))
           /\ \A i \in 1..a, j \in 1..m :
                 /\ (i - 1) * m + j \in 1..(a * m)
                 /\ 1 + ((((i - 1) * m + j) - 1) \div m) = i
                 /\ 1 + ((((i - 1) * m + j) - 1) % m) = j
<1>1. a * m \in Nat
  OBVIOUS
<1>2. ASSUME NEW k \in 1..(a * m)
      PROVE  /\ m > 0
             /\ 1 + ((k - 1) \div m) \in 1..a /\ 1 + ((k - 1) % m) \in 1..m
             /\ k = ((1 + ((k - 1) \div m)) - 1) * m + (1 + ((k - 1) % m))
  <2>1. m > 0
    OBVIOUS
  <2>2. (k - 1) \div m \in 0..(a - 1)
    BY <2>1
  <2>3. (k - 1) % m \in 0..(m - 1) /\ k - 1 = m * ((k - 1) \div m) + ((k - 1) % m)
    BY <2>1
  <2> DEFINE q == (k - 1) \div m
             r == (k - 1) % m
  <2>4. q \in 0..(a - 1) /\ r \in 0..(m - 1) /\ k - 1 = m * q + r
    BY <2>2, <2>3
  <2> HIDE DEF q, r
  <2>5. 1 + q \in 1..a /\ 1 + r \in 1..m /\ (1 + q) - 1 = q /\ q * m = m * q
    BY <2>4
  <2>6. k = ((1 + q) - 1) * m + (1 + r)
    BY <2>4, <2>5
  <2>7. QED
    BY <2>1, <2>5, <2>6 DEF q, r
<1>3. ASSUME NEW i \in 1..a, NEW j \in 1..m
      PROVE  /\ (i - 1) * m + j \in 1..(a * m)
             /\ 1 + ((((i - 1) * m + j) - 1) \div m) = i
             /\ 1 + ((((i - 1) * m + j) - 1) % m) = j
  <2> DEFINE q == i - 1
             r == j - 1
  <2>1. q \in 0..(a - 1) /\ r \in 0..(m - 1) /\ m > 0
    OBVIOUS
  <2>2. (q * m + r) \div m = q /\ (q * m + r) % m = r
    <3> HIDE DEF q, r
    <3>1. QED
      BY <2>1
  <2>3. ((i - 1) * m + j) - 1 = q * m + r
    OBVIOUS
  <2>4. q * m + r + 1 \in 1..(a * m)
    <3> HIDE DEF q, r
    <3>1. QED
      BY <2>1
  <2>5. (i - 1) * m + j = q * m + r + 1
    OBVIOUS
  <2> HIDE DEF q, r
  <2>6. 1 + q = i /\ 1 + r = j
    BY DEF q, r
  <2>7. QED
    BY <2>2, <2>3, <2>4, <2>5, <2>6
<1>4. QED
  BY <1>1, <1>2, <1>3

LEMMA ExtendedFacts ==
    ASSUME NEW X, NEW d \in Nat, NEW t \in Seq(OfLength(X, d)), NEW list \in Seq(Alone(X))
    PROVE  LET e == Extended(t, list)
               m == Len(list)
           IN  /\ m \in Nat /\ Len(t) \in Nat
               /\ e \in Seq(OfLength(X, d + 1)) /\ Len(e) = Len(t) * m
               /\ DOMAIN e = 1..(Len(t) * m)
               /\ \A k \in DOMAIN e :
                     /\ 1 + ((k - 1) \div m) \in DOMAIN t /\ 1 + ((k - 1) % m) \in DOMAIN list
                     /\ e[k] = Append(t[1 + ((k - 1) \div m)], list[1 + ((k - 1) % m)][1])
               /\ \A i \in DOMAIN t, j \in DOMAIN list :
                     /\ (i - 1) * m + j \in DOMAIN e
                     /\ e[(i - 1) * m + j] = Append(t[i], list[j][1])
<1> DEFINE e == Extended(t, list)
           m == Len(list)
           a(k) == 1 + ((k - 1) \div m)
           b(k) == 1 + ((k - 1) % m)
<1>1. /\ m \in Nat /\ DOMAIN list = 1..m /\ (\A j \in 1..m : list[j] \in Alone(X))
      /\ Len(t) \in Nat /\ DOMAIN t = 1..Len(t) /\ (\A i \in 1..Len(t) : t[i] \in OfLength(X, d))
  BY LenProperties, ElementOfSeq
<1>2. e = [k \in 1..(Len(t) * m) |-> Append(t[a(k)], list[b(k)][1])]
  BY DEF Extended
<1>3. Len(t) * m \in Nat /\ \A k \in 1..(Len(t) * m) : a(k) \in 1..Len(t) /\ b(k) \in 1..m
  BY <1>1, Blocks
<1>4. ASSUME NEW i \in 1..Len(t), NEW j \in 1..m
      PROVE  /\ (i - 1) * m + j \in 1..(Len(t) * m)
             /\ a((i - 1) * m + j) = i /\ b((i - 1) * m + j) = j
  BY <1>1, Blocks
<1>5. ASSUME NEW i \in 1..Len(t), NEW j \in 1..m
      PROVE  Append(t[i], list[j][1]) \in OfLength(X, d + 1)
  <2>1. t[i] \in Seq(X) /\ Len(t[i]) = d /\ list[j][1] \in X
    BY <1>1 DEF OfLength, Alone
  <2>2. QED
    BY <2>1, AppendProperties DEF OfLength
<1> HIDE DEF m, a, b, e
<1>6. /\ DOMAIN e = 1..(Len(t) * m)
      /\ \A k \in 1..(Len(t) * m) : e[k] = Append(t[a(k)], list[b(k)][1])
  BY <1>2
<1>7. e \in Seq(OfLength(X, d + 1)) /\ Len(e) = Len(t) * m
  <2>1. e \in [1..(Len(t) * m) -> OfLength(X, d + 1)]
    BY <1>2, <1>3, <1>5, <1>6
  <2> HIDE DEF m
  <2>2. QED
    BY <1>3, <2>1
<1>8. \A i \in 1..Len(t), j \in 1..m : e[(i - 1) * m + j] = Append(t[i], list[j][1])
  BY <1>4, <1>6
<1>9. QED
  BY <1>1, <1>3, <1>4, <1>6, <1>7, <1>8 DEF m, a, b, e

(* The factors are taken in one after the other.                           *)
TuplesUpto(lists, n, s) ==
    s = [d \in 0..n |-> IF d = 0 THEN << <<>> >> ELSE Extended(s[d - 1], lists[d])]

LEMMA TuplesRecursion ==
    ASSUME NEW lists, Len(lists) \in Nat
    PROVE  \E s : /\ Tuples(lists) = s[Len(lists)]
                  /\ s[0] = << <<>> >>
                  /\ \A d \in 1..Len(lists) : s[d] = Extended(s[d - 1], lists[d])
<1> DEFINE n == Len(lists)
           N == {k \in Nat : \E s : TuplesUpto(lists, k, s)}
           c == CHOOSE s : TuplesUpto(lists, n, s)
<1>1. 0 \in N
  <2> DEFINE s == [j \in 0..0 |-> << <<>> >>]
  <2>1. TuplesUpto(lists, 0, s)
    BY DEF TuplesUpto
  <2>2. QED
    BY <2>1
<1>2. ASSUME NEW k \in N PROVE k + 1 \in N
  <2>1. k \in Nat /\ k + 1 \in Nat
    OBVIOUS
  <2>2. PICK s : TuplesUpto(lists, k, s)
    OBVIOUS
  <2>3. s[0] = << <<>> >> /\ \A j \in 1..k : s[j] = Extended(s[j - 1], lists[j])
    <3>1. s = [d \in 0..k |-> IF d = 0 THEN << <<>> >> ELSE Extended(s[d - 1], lists[d])]
      BY <2>2 DEF TuplesUpto
    <3>2. \A d \in 0..k : s[d] = IF d = 0 THEN << <<>> >> ELSE Extended(s[d - 1], lists[d])
      BY <3>1
    <3>3. 0 \in 0..k /\ \A j \in 1..k : j \in 0..k /\ j # 0
      OBVIOUS
    <3>4. QED
      BY <3>2, <3>3
  <2> DEFINE t == [j \in 0..(k + 1) |-> IF j <= k THEN s[j] ELSE Extended(s[k], lists[k + 1])]
  <2>4. ASSUME NEW j \in 0..(k + 1)
        PROVE  t[j] = IF j = 0 THEN << <<>> >> ELSE Extended(t[j - 1], lists[j])
    <3>1. CASE j = 0
      BY <2>1, <2>3, <3>1
    <3>2. CASE j \in 1..k
      <4>1. j - 1 \in 0..(k + 1) /\ j - 1 <= k /\ j <= k /\ j # 0
        BY <3>2
      <4>2. t[j] = s[j] /\ t[j - 1] = s[j - 1]
        BY <4>1
      <4>3. QED
        BY <2>3, <3>2, <4>1, <4>2
    <3>3. CASE j = k + 1
      <4>1. k \in 0..(k + 1) /\ k <= k /\ ~(k + 1 <= k) /\ (k + 1) - 1 = k /\ k + 1 # 0
            /\ k + 1 \in 0..(k + 1)
        BY <2>1
      <4>2. t[k] = s[k] /\ t[k + 1] = Extended(s[k], lists[k + 1])
        BY <4>1
      <4>3. QED
        BY <3>3, <4>1, <4>2
    <3>4. QED
      BY <2>1, <3>1, <3>2, <3>3
  <2>5. t = [j \in 0..(k + 1) |-> IF j = 0 THEN << <<>> >> ELSE Extended(t[j - 1], lists[j])]
    <3> DEFINE u == [j \in 0..(k + 1) |-> IF j = 0 THEN << <<>> >> ELSE Extended(t[j - 1], lists[j])]
    <3>1. \A j \in 0..(k + 1) : t[j] = u[j]
      BY <2>4
    <3>2. QED
      BY <3>1
  <2> HIDE DEF t
  <2>6. QED
    BY <2>1, <2>5 DEF TuplesUpto
<1>3. N = Nat
  <2> HIDE DEF N
  <2>1. N \in SUBSET Nat
    BY DEF N
  <2>2. QED
    BY <1>1, <1>2, <2>1, NumbersByInduction
<1>4. TuplesUpto(lists, n, c)
  <2>1. \E s : TuplesUpto(lists, n, s)
    BY <1>3
  <2>2. QED
    BY <2>1
<1>5. Tuples(lists) = c[n]
  BY DEF Tuples, TuplesUpto
<1> HIDE DEF c
<1>6. \A d \in 0..n : c[d] = IF d = 0 THEN << <<>> >> ELSE Extended(c[d - 1], lists[d])
  <2>1. c = [d \in 0..n |-> IF d = 0 THEN << <<>> >> ELSE Extended(c[d - 1], lists[d])]
    BY <1>4 DEF TuplesUpto
  <2>2. QED
    BY <2>1
<1>7. 0 \in 0..n /\ \A d \in 1..n : d \in 0..n /\ d # 0
  OBVIOUS
<1>8. \A d \in 1..n : c[d] = Extended(c[d - 1], lists[d])
  BY <1>6, <1>7
<1>9. QED
  BY <1>5, <1>6, <1>7, <1>8

(* The elements of a combination of sets, as the loops go through them.    *)
Combined(X, lists, d) ==
    {v \in OfLength(X, d) : \A k \in 1..d : <<v[k]>> \in ToSet(lists[k])}

LEMMA TuplesStep ==
    ASSUME NEW X, NEW lists, NEW d \in Nat, NEW t \in Seq(OfLength(X, d)),
           lists[d + 1] \in Seq(Alone(X)), ToSet(t) = Combined(X, lists, d)
    PROVE  /\ ToSet(Extended(t, lists[d + 1])) = Combined(X, lists, d + 1)
           /\ Distinct(t) /\ Distinct(lists[d + 1]) => Distinct(Extended(t, lists[d + 1]))
<1> DEFINE list == lists[d + 1]
           e == Extended(t, list)
           m == Len(list)
           a(k) == 1 + ((k - 1) \div m)
           b(k) == 1 + ((k - 1) % m)
<1>0. list \in Seq(Alone(X)) /\ t \in Seq(OfLength(X, d)) /\ d \in Nat
  OBVIOUS
<1> HIDE DEF list
<1>1. /\ m \in Nat /\ Len(t) \in Nat /\ DOMAIN e = 1..(Len(t) * m)
      /\ e \in Seq(OfLength(X, d + 1))
      /\ \A k \in DOMAIN e : /\ a(k) \in DOMAIN t /\ b(k) \in DOMAIN list
                             /\ e[k] = Append(t[a(k)], list[b(k)][1])
      /\ \A i \in DOMAIN t, j \in DOMAIN list :
            /\ (i - 1) * m + j \in DOMAIN e
            /\ e[(i - 1) * m + j] = Append(t[i], list[j][1])
  BY ONLY <1>0, ExtendedFacts
<1>2. /\ DOMAIN list = 1..m /\ (\A j \in DOMAIN list : list[j] \in Alone(X))
      /\ DOMAIN t = 1..Len(t) /\ (\A i \in DOMAIN t : t[i] \in OfLength(X, d))
  BY <1>0, LenProperties, ElementOfSeq
<1>3. \A k \in DOMAIN e : k = (a(k) - 1) * m + b(k)
  <2>1. m \in Nat /\ Len(t) \in Nat /\ DOMAIN e = 1..(Len(t) * m)
    BY <1>1
  <2> HIDE DEF m, e
  <2>2. ASSUME NEW q \in Nat, NEW k \in 1..(q * m) PROVE k = (a(k) - 1) * m + b(k)
    BY <2>1, Blocks
  <2>3. QED
    BY <2>1, <2>2
<1>4. ASSUME NEW v \in OfLength(X, d), NEW x \in X
      PROVE  /\ Append(v, x) \in OfLength(X, d + 1) /\ Append(v, x)[d + 1] = x
             /\ \A k \in 1..d : Append(v, x)[k] = v[k]
  BY <1>4, AppendProperties DEF OfLength
<1>5. \A j \in DOMAIN list : list[j][1] \in X /\ <<list[j][1]>> = list[j]
  BY <1>2 DEF Alone
<1> HIDE DEF m, a, b, e
<1>6. ASSUME NEW k \in DOMAIN e PROVE e[k] \in Combined(X, lists, d + 1)
  <2>1. t[a(k)] \in Combined(X, lists, d) /\ t[a(k)] \in OfLength(X, d)
    BY <1>1, <1>2 DEF ToSet
  <2>2. /\ e[k] \in OfLength(X, d + 1) /\ e[k][d + 1] = list[b(k)][1]
        /\ \A q \in 1..d : e[k][q] = t[a(k)][q]
    <3>1. e[k] = Append(t[a(k)], list[b(k)][1]) /\ list[b(k)][1] \in X
      BY <1>1, <1>5
    <3>2. ASSUME NEW v \in OfLength(X, d), NEW x \in X, e[k] = Append(v, x)
          PROVE  /\ e[k] \in OfLength(X, d + 1) /\ e[k][d + 1] = x
                 /\ \A q \in 1..d : e[k][q] = v[q]
      <4>1. /\ Append(v, x) \in OfLength(X, d + 1) /\ Append(v, x)[d + 1] = x
            /\ \A q \in 1..d : Append(v, x)[q] = v[q]
        BY <1>4, Zenon
      <4>2. QED
        BY <3>2, <4>1, Zenon
    <3>3. QED
      BY <2>1, <3>1, <3>2
  <2>3. <<e[k][d + 1]>> \in ToSet(list)
    BY <1>1, <1>5, <2>2 DEF ToSet
  <2>4. \A q \in 1..d : <<e[k][q]>> \in ToSet(lists[q])
    BY <2>1, <2>2 DEF Combined
  <2>5. \A q \in 1..(d + 1) : q \in 1..d \/ q = d + 1
    OBVIOUS
  <2>6. QED
    BY <2>2, <2>3, <2>4, <2>5 DEF Combined, list
<1>7. ASSUME NEW v \in Combined(X, lists, d + 1) PROVE v \in ToSet(e)
  <2>1. v \in Seq(X) /\ Len(v) = d + 1 /\ DOMAIN v = 1..(d + 1)
    BY LenProperties DEF Combined, OfLength
  <2> DEFINE w == SubSeq(v, 1, d)
  <2>2. w \in OfLength(X, d) /\ \A q \in 1..d : w[q] = v[q]
    BY <2>1, SubSeqProperties, ElementOfSeq DEF OfLength
  <2> HIDE DEF w
  <2>3. w \in Combined(X, lists, d)
    <3>1. \A q \in 1..d : q \in 1..(d + 1) /\ <<v[q]>> \in ToSet(lists[q])
      <4>1. \A q \in 1..(d + 1) : <<v[q]>> \in ToSet(lists[q])
        BY DEF Combined
      <4>2. \A q \in 1..d : q \in 1..(d + 1)
        OBVIOUS
      <4>3. QED
        BY <4>1, <4>2
    <3>2. QED
      BY <2>2, <3>1 DEF Combined
  <2>4. PICK i \in DOMAIN t : t[i] = w
    BY <2>3 DEF ToSet
  <2>5. <<v[d + 1]>> \in ToSet(list)
    <3>1. \A q \in 1..(d + 1) : <<v[q]>> \in ToSet(lists[q])
      BY DEF Combined
    <3>2. d + 1 \in 1..(d + 1)
      OBVIOUS
    <3>3. QED
      BY <3>1, <3>2 DEF list
  <2>6. PICK j \in DOMAIN list : list[j] = <<v[d + 1]>>
    BY <2>5 DEF ToSet
  <2>7. list[j][1] = v[d + 1] /\ v[d + 1] \in X
    BY <1>5, <2>6
  <2>8. Append(w, v[d + 1]) = v
    <3> DEFINE u == Append(w, v[d + 1])
    <3>1. u \in Seq(X) /\ Len(u) = d + 1 /\ u[d + 1] = v[d + 1] /\ \A q \in 1..d : u[q] = v[q]
      BY <1>4, <2>2, <2>7 DEF OfLength
    <3>2. \A q \in 1..(d + 1) : q \in 1..d \/ q = d + 1
      OBVIOUS
    <3> HIDE DEF u
    <3>3. u = v
      BY <2>1, <3>1, <3>2, SeqEqual
    <3>4. QED
      BY <3>3 DEF u
  <2>9. (i - 1) * m + j \in DOMAIN e /\ e[(i - 1) * m + j] = v
    BY <1>1, <2>4, <2>6, <2>7, <2>8
  <2>10. QED
    BY <2>9 DEF ToSet
<1>8. ASSUME Distinct(t), Distinct(list) PROVE Distinct(e)
  <2> SUFFICES ASSUME NEW k \in DOMAIN e, NEW l \in DOMAIN e, e[k] = e[l] PROVE k = l
    BY DEF Distinct
  <2>1. ASSUME NEW n \in DOMAIN e
        PROVE  /\ t[a(n)] \in Seq(X) /\ Len(t[a(n)]) = d
               /\ e[n][d + 1] = list[b(n)][1]
               /\ \A q \in 1..d : e[n][q] = t[a(n)][q]
    <3>1. /\ a(n) \in DOMAIN t /\ b(n) \in DOMAIN list
          /\ e[n] = Append(t[a(n)], list[b(n)][1])
      BY <1>1
    <3>2. t[a(n)] \in OfLength(X, d) /\ list[b(n)][1] \in X
      BY <1>2, <1>5, <3>1
    <3>3. QED
      BY <1>4, <3>1, <3>2 DEF OfLength
  <2>2. t[a(k)] = t[a(l)]
    <3>1. \A q \in 1..d : t[a(k)][q] = t[a(l)][q]
      BY <2>1
    <3>2. QED
      BY <2>1, <3>1, SeqEqual
  <2>3. list[b(k)] = list[b(l)]
    <3>1. list[b(k)][1] = list[b(l)][1]
      BY <2>1
    <3>2. b(k) \in DOMAIN list /\ b(l) \in DOMAIN list
      BY <1>1
    <3>3. QED
      BY <1>5, <3>1, <3>2
  <2>4. a(k) = a(l) /\ b(k) = b(l)
    BY <1>1, <1>8, <2>2, <2>3 DEF Distinct
  <2>5. QED
    BY <1>3, <2>4
<1>9. QED
  BY <1>6, <1>7, <1>8 DEF ToSet, e, list

LEMMA ProductUpto ==
    ASSUME NEW d \in Nat, NEW f, \A k \in 1..(d + 1) : f[k] \in Int
    PROVE  ProductOver(f, 1..(d + 1)) = ProductOver(f, 1..d) * f[d + 1]
<1>1. /\ IsFiniteSet(1..(d + 1)) /\ IsFiniteSet(1..d)
      /\ d + 1 \in 1..(d + 1) /\ (1..(d + 1)) \ {d + 1} = 1..d
  BY FS_Interval
<1>2. Numbers(f, 1..(d + 1)) /\ Numbers(f, 1..d)
  BY <1>1 DEF Numbers
<1>3. ProductOver(f, 1..(d + 1)) = Combine("*", f[d + 1], ProductOver(f, 1..d))
  BY <1>1, <1>2, FoldStep DEF ProductOver
<1>4. ProductOver(f, 1..d) \in Int
  BY <1>2, FoldType DEF ProductOver
<1>5. f[d + 1] \in Int
  OBVIOUS
<1>6. \A i, j \in Int : i * j = j * i
  OBVIOUS
<1>7. QED
  BY <1>3, <1>4, <1>5, <1>6 DEF Combine

LEMMA TuplesFacts ==
    ASSUME NEW X, NEW lists \in Seq(Seq(Alone(X)))
    PROVE  /\ Tuples(lists) \in Seq(OfLength(X, Len(lists)))
           /\ ToSet(Tuples(lists)) = Combined(X, lists, Len(lists))
           /\ (\A k \in DOMAIN lists : Distinct(lists[k])) => Distinct(Tuples(lists))
           /\ Len(Tuples(lists)) = ProductOver([k \in DOMAIN lists |-> Len(lists[k])], DOMAIN lists)
<1> DEFINE n == Len(lists)
           f == [k \in DOMAIN lists |-> Len(lists[k])]
<1>1. n \in Nat /\ DOMAIN lists = 1..n /\ \A k \in 1..n : lists[k] \in Seq(Alone(X))
  BY LenProperties, ElementOfSeq
<1> HIDE DEF n
<1>2. \A k \in 1..n : f[k] = Len(lists[k]) /\ f[k] \in Nat
  BY <1>1, LenProperties
<1>3. PICK s : /\ Tuples(lists) = s[n] /\ s[0] = << <<>> >>
               /\ \A d \in 1..n : s[d] = Extended(s[d - 1], lists[d])
  BY <1>1, TuplesRecursion DEF n
<1> HIDE DEF f
<1> DEFINE Holds(d) == /\ s[d] \in Seq(OfLength(X, d))
                       /\ ToSet(s[d]) = Combined(X, lists, d)
                       /\ (\A k \in 1..d : Distinct(lists[k])) => Distinct(s[d])
                       /\ Len(s[d]) = ProductOver(f, 1..d)
           N == {d \in Nat : d <= n => Holds(d)}
<1>4. 0 \in N
  <2> DEFINE t == << <<>> >>
  <2>1. <<>> \in OfLength(X, 0) /\ \A v \in OfLength(X, 0) : v = <<>>
    BY EmptySeq DEF OfLength
  <2>2. t \in Seq(OfLength(X, 0)) /\ Len(t) = 1 /\ DOMAIN t = {1} /\ t[1] = <<>>
    BY <2>1
  <2>3. 1..0 = {}
    OBVIOUS
  <2>4. Combined(X, lists, 0) = {<<>>}
    BY <2>1, <2>3 DEF Combined
  <2>5. ToSet(t) = {<<>>} /\ Distinct(t)
    BY <2>2 DEF ToSet, Distinct
  <2>6. ProductOver(f, 1..0) = 1
    BY <2>3, FoldEmpty DEF ProductOver, Neutral
  <2> HIDE DEF t
  <2>7. Holds(0)
    BY <1>3, <2>2, <2>4, <2>5, <2>6 DEF t
  <2>8. QED
    BY <2>7
<1>5. ASSUME NEW d \in N PROVE d + 1 \in N
  <2> SUFFICES ASSUME d + 1 <= n PROVE Holds(d + 1)
    OBVIOUS
  <2>1. d \in Nat /\ d <= n /\ d + 1 \in 1..n /\ (d + 1) - 1 = d
    BY <1>1
  <2>2. Holds(d)
    BY <2>1
  <2>3. s[d + 1] = Extended(s[d], lists[d + 1]) /\ lists[d + 1] \in Seq(Alone(X))
    BY <1>1, <1>3, <2>1
  <2>4. /\ Extended(s[d], lists[d + 1]) \in Seq(OfLength(X, d + 1))
        /\ Len(Extended(s[d], lists[d + 1])) = Len(s[d]) * Len(lists[d + 1])
    <3> DEFINE t == s[d]
               list == lists[d + 1]
    <3>1. d \in Nat /\ t \in Seq(OfLength(X, d)) /\ list \in Seq(Alone(X))
      BY <2>1, <2>2, <2>3
    <3> HIDE DEF t, list
    <3>2. /\ Extended(t, list) \in Seq(OfLength(X, d + 1))
          /\ Len(Extended(t, list)) = Len(t) * Len(list)
      BY ONLY <3>1, ExtendedFacts
    <3>3. QED
      BY <3>2 DEF t, list
  <2>5. /\ ToSet(Extended(s[d], lists[d + 1])) = Combined(X, lists, d + 1)
        /\ Distinct(s[d]) /\ Distinct(lists[d + 1]) => Distinct(Extended(s[d], lists[d + 1]))
    BY <2>1, <2>2, <2>3, TuplesStep
  <2>6. ProductOver(f, 1..(d + 1)) = Len(s[d]) * Len(lists[d + 1])
    <3>1. \A k \in 1..(d + 1) : k \in 1..n
      BY <1>1, <2>1
    <3>2. \A k \in 1..(d + 1) : f[k] \in Int
      BY <1>2, <3>1
    <3>3. f[d + 1] = Len(lists[d + 1]) /\ ProductOver(f, 1..d) = Len(s[d])
      BY <1>2, <2>1, <2>2
    <3>4. QED
      BY <2>1, <3>2, <3>3, ProductUpto
  <2>7. ASSUME \A k \in 1..(d + 1) : Distinct(lists[k])
        PROVE  Distinct(s[d]) /\ Distinct(lists[d + 1])
    <3>1. d + 1 \in 1..(d + 1) /\ \A k \in 1..d : k \in 1..(d + 1)
      BY <2>1
    <3>2. QED
      BY <2>2, <2>7, <3>1
  <2>8. QED
    BY <2>3, <2>4, <2>5, <2>6, <2>7
<1>6. N = Nat
  <2> HIDE DEF N
  <2>1. N \in SUBSET Nat
    BY DEF N
  <2>2. QED
    BY <1>4, <1>5, <2>1, NumbersByInduction
<1>7. Holds(n)
  <2>1. n \in N /\ n <= n
    BY <1>1, <1>6
  <2>2. QED
    BY <2>1
<1>8. ProductOver(f, DOMAIN lists) = ProductOver(f, 1..n)
  BY <1>1
<1>9. QED
  BY <1>1, <1>3, <1>7, <1>8 DEF f, n

-----------------------------------------------------------------------------
(* What the places of `sets` hold.  The frame of a set never changes.      *)
SimpleOps == {"list", "vector", "range"}
CombiningOps == {"union", "intersection", "difference", "symdiff"}

SetType ==
    [op : SimpleOps \cup CombiningOps \cup {"product"}, l : Nat, r : Nat, data : Seq(Seq(Int)),
     init : BOOLEAN, factors : Seq(Int), dim : Nat \ {0}]

Simple1(h, i) == h[i].op \in SimpleOps /\ h[i].l = 0 /\ h[i].r = 0 /\ h[i].dim = 1

Operands(h, i) == h[i].l \in 1..(i - 1) /\ h[i].r \in 1..(i - 1)

Combination(h, i) ==
    /\ h[i].op \in CombiningOps
    /\ Operands(h, i)
    /\ h[i].dim = h[h[i].l].dim /\ h[i].dim = h[h[i].r].dim

(* A set that can be part of a product has simple sets as factors.         *)
Factored(h, i) ==
    /\ FactorsOf(h, i) \in Seq(1..i) /\ Len(FactorsOf(h, i)) = h[i].dim
    /\ \A k \in 1..h[i].dim : /\ ~IsProduct(h, FactorsOf(h, i)[k])
                              /\ h[FactorsOf(h, i)[k]].dim = 1

Product(h, i) ==
    /\ h[i].op = "product"
    /\ Operands(h, i)
    /\ h[i].dim = h[h[i].l].dim + h[h[i].r].dim
    /\ h[i].factors = FactorsOf(h, h[i].l) \o FactorsOf(h, h[i].r)
    /\ IsProduct(h, h[i].l) \/ h[h[i].l].dim = 1
    /\ IsProduct(h, h[i].r) \/ h[h[i].r].dim = 1
    /\ h[i].factors \in Seq(1..(i - 1)) /\ Factored(h, i)

Frame(h, i) == Simple1(h, i) \/ Combination(h, i) \/ Product(h, i)

(* Simple sets hold what they are; what was not initialized holds nothing. *)
Contents(h, i) ==
    /\ h[i].data \in Seq(OfLength(Int, h[i].dim))
    /\ h[i].l = 0 => h[i].init /\ Distinct(h[i].data)
    /\ h[i].op = "range" =>
          /\ ToSet(h[i].data) = Span(h[i].factors)
          /\ \A v \in OfLength(Int, 1) : RangeContains(h[i].factors, v[1]) <=> v \in Span(h[i].factors)
    /\ IsCombined(h, i) /\ ~h[i].init => h[i].data = <<>>

SetsShape(h) ==
    /\ h \in Seq(SetType)
    /\ \A i \in 1..Len(h) : Frame(h, i) /\ Contents(h, i)

SameFrame(g, h, n) ==
    \A k \in 1..n : /\ g[k].op = h[k].op /\ g[k].l = h[k].l /\ g[k].r = h[k].r
                    /\ g[k].factors = h[k].factors /\ g[k].dim = h[k].dim

LEMMA ShapeFacts ==
    ASSUME NEW h, SetsShape(h)
    PROVE  /\ Len(h) \in Nat /\ DOMAIN h = 1..Len(h)
           /\ \A i \in 1..Len(h) : h[i] \in SetType /\ Frame(h, i) /\ Contents(h, i)
BY LenProperties, ElementOfSeq DEF SetsShape

(* Which kind of set it is.                                                *)
LEMMA Kinds ==
    ASSUME NEW h, NEW i \in Nat, i > 0, Frame(h, i)
    PROVE  /\ Simple1(h, i) <=> h[i].l = 0
           /\ Combination(h, i) <=> IsCombined(h, i)
           /\ Product(h, i) <=> IsProduct(h, i)
           /\ h[i].l = 0 \/ IsCombined(h, i) \/ IsProduct(h, i)
<1>1. 0 \notin 1..(i - 1)
  OBVIOUS
<1>2. QED
  BY <1>1 DEF Frame, Simple1, Combination, Product, Operands, IsCombined, IsProduct,
              SimpleOps, CombiningOps

LEMMA FrameSame ==
    ASSUME NEW g, NEW h, NEW i \in Nat, i > 0, SameFrame(g, h, i), Frame(h, i)
    PROVE  Frame(g, i)
<1>1. i \in 1..i /\ \A k \in 1..(i - 1) : k \in 1..i
  OBVIOUS
<1>2. \A k \in 1..i : /\ g[k].op = h[k].op /\ g[k].l = h[k].l /\ g[k].r = h[k].r
                      /\ g[k].factors = h[k].factors /\ g[k].dim = h[k].dim
                      /\ IsProduct(g, k) <=> IsProduct(h, k)
                      /\ FactorsOf(g, k) = FactorsOf(h, k)
  BY DEF SameFrame, IsProduct, FactorsOf
<1>3. CASE Simple1(h, i)
  BY <1>1, <1>2, <1>3 DEF Frame, Simple1
<1>4. CASE Combination(h, i)
  BY <1>1, <1>2, <1>4 DEF Frame, Combination, Operands
<1>5. CASE Product(h, i)
  <2>1. h[i].l \in 1..i /\ h[i].r \in 1..i
    BY <1>1, <1>5 DEF Product, Operands
  <2>2. /\ FactorsOf(h, i) \in Seq(1..i) /\ Len(FactorsOf(h, i)) = h[i].dim
        /\ \A k \in 1..h[i].dim : /\ ~IsProduct(h, FactorsOf(h, i)[k])
                                  /\ h[FactorsOf(h, i)[k]].dim = 1
    BY <1>5 DEF Product, Factored
  <2>3. \A k \in 1..h[i].dim : FactorsOf(h, i)[k] \in 1..i
    BY <2>2, ElementOfSeq
  <2>4. Factored(g, i)
    <3>1. FactorsOf(g, i) = FactorsOf(h, i) /\ g[i].dim = h[i].dim
      BY ONLY <1>1, <1>2
    <3>2. ASSUME NEW k \in 1..h[i].dim
          PROVE  /\ ~IsProduct(g, FactorsOf(h, i)[k])
                 /\ g[FactorsOf(h, i)[k]].dim = 1
      <4>1. FactorsOf(h, i)[k] \in 1..i
        BY ONLY <2>3, <3>2
      <4>2. ~IsProduct(h, FactorsOf(h, i)[k]) /\ h[FactorsOf(h, i)[k]].dim = 1
        BY ONLY <2>2, <3>2
      <4>3. QED
        BY ONLY <1>2, <4>1, <4>2
    <3>3. QED
      BY ONLY <2>2, <3>1, <3>2 DEF Factored
  <2>5. QED
    BY <1>1, <1>2, <1>5, <2>1, <2>4 DEF Frame, Product, Operands
<1>6. QED
  BY <1>3, <1>4, <1>5 DEF Frame

(* The factors of a product are those of its operands.                     *)
LEMMA ProductFactors ==
    ASSUME NEW h, SetsShape(h), NEW i \in 1..Len(h), IsProduct(h, i)
    PROVE  /\ h[i].l \in 1..(i - 1) /\ h[i].r \in 1..(i - 1)
           /\ h[i].l \in 1..Len(h) /\ h[i].r \in 1..Len(h)
           /\ IsProduct(h, h[i].l) \/ h[h[i].l].dim = 1
           /\ IsProduct(h, h[i].r) \/ h[h[i].r].dim = 1
           /\ h[i].dim = h[h[i].l].dim + h[h[i].r].dim
           /\ h[h[i].l].dim \in Nat \ {0} /\ h[h[i].r].dim \in Nat \ {0}
           /\ Len(FactorsOf(h, h[i].l)) = h[h[i].l].dim /\ Len(FactorsOf(h, h[i].r)) = h[h[i].r].dim
           /\ \A k \in 1..h[i].dim :
                 FactorsOf(h, i)[k] = IF k <= h[h[i].l].dim THEN FactorsOf(h, h[i].l)[k]
                                      ELSE FactorsOf(h, h[i].r)[k - h[h[i].l].dim]
<1>1. /\ Len(h) \in Nat /\ DOMAIN h = 1..Len(h)
      /\ \A k \in 1..Len(h) : h[k] \in SetType /\ Frame(h, k)
  BY ShapeFacts
<1>2. Product(h, i)
  BY <1>1, Kinds
<1> DEFINE l == h[i].l
           r == h[i].r
<1>3. l \in 1..(i - 1) /\ r \in 1..(i - 1) /\ l \in 1..Len(h) /\ r \in 1..Len(h)
  BY <1>1, <1>2 DEF Product, Operands
<1>4. h[l].dim \in Nat \ {0} /\ h[r].dim \in Nat \ {0}
  BY <1>1, <1>3 DEF SetType
<1>5. /\ IsProduct(h, l) \/ h[l].dim = 1
      /\ IsProduct(h, r) \/ h[r].dim = 1
      /\ h[i].dim = h[l].dim + h[r].dim
      /\ FactorsOf(h, i) = FactorsOf(h, l) \o FactorsOf(h, r)
  BY <1>2 DEF Product, FactorsOf, IsProduct
<1> HIDE DEF l, r
<1>6. ASSUME NEW q \in 1..Len(h), IsProduct(h, q) \/ h[q].dim = 1
      PROVE  FactorsOf(h, q) \in Seq(Nat) /\ Len(FactorsOf(h, q)) = h[q].dim
  <2>1. CASE IsProduct(h, q)
    <3>1. Factored(h, q)
      BY <1>1, <2>1, Kinds DEF Product
    <3>2. FactorsOf(h, q) \in Seq(1..q) /\ Len(FactorsOf(h, q)) = h[q].dim
      BY <3>1 DEF Factored
    <3>3. q \in Nat /\ 1..q \in SUBSET Nat
      BY <1>1
    <3>4. QED
      BY <3>2, <3>3
  <2>2. CASE ~IsProduct(h, q)
    <3>1. FactorsOf(h, q) = <<q>> /\ h[q].dim = 1 /\ q \in Nat
      BY <1>1, <1>6, <2>2 DEF FactorsOf
    <3>2. QED
      BY <3>1
  <2>3. QED
    BY <2>1, <2>2
<1>7. ASSUME NEW a \in Seq(Nat), NEW b \in Seq(Nat), NEW k \in 1..(Len(a) + Len(b))
      PROVE  (a \o b)[k] = IF k <= Len(a) THEN a[k] ELSE b[k - Len(a)]
  BY ConcatProperties
<1>8. /\ FactorsOf(h, l) \in Seq(Nat) /\ Len(FactorsOf(h, l)) = h[l].dim
      /\ FactorsOf(h, r) \in Seq(Nat) /\ Len(FactorsOf(h, r)) = h[r].dim
  BY <1>3, <1>5, <1>6
<1>9. \A k \in 1..h[i].dim :
         FactorsOf(h, i)[k] = IF k <= h[l].dim THEN FactorsOf(h, l)[k] ELSE FactorsOf(h, r)[k - h[l].dim]
  <2> DEFINE a == FactorsOf(h, l)
             b == FactorsOf(h, r)
  <2>1. a \in Seq(Nat) /\ b \in Seq(Nat) /\ Len(a) = h[l].dim /\ Len(b) = h[r].dim
        /\ FactorsOf(h, i) = a \o b /\ h[i].dim = Len(a) + Len(b)
    BY <1>5, <1>8
  <2> HIDE DEF a, b
  <2>2. \A k \in 1..h[i].dim : FactorsOf(h, i)[k] = IF k <= Len(a) THEN a[k] ELSE b[k - Len(a)]
    BY <1>7, <2>1
  <2>3. QED
    BY <2>1, <2>2 DEF a, b
<1>10. QED
  BY <1>3, <1>4, <1>5, <1>8, <1>9 DEF l, r

AskClosed(h, C) ==
    C \in SUBSET (1..Len(h)) /\ \A k \in 1..Len(h) : Misled(h, k, C) => k \in C

(* What a set was made of was found as it was.                             *)
LEMMA FactorsNotAsked ==
    ASSUME NEW h, SetsShape(h), NEW C, AskClosed(h, C), NEW i \in 1..Len(h), i \notin C,
           IsProduct(h, i) \/ h[i].dim = 1, NEW k \in 1..h[i].dim
    PROVE  FactorsOf(h, i)[k] \notin C
<1>1. Len(h) \in Nat /\ DOMAIN h = 1..Len(h) /\ \A j \in 1..Len(h) : h[j] \in SetType
  BY ShapeFacts
<1> DEFINE Holds(j) == j \notin C /\ (IsProduct(h, j) \/ h[j].dim = 1) =>
                          \A q \in 1..h[j].dim : FactorsOf(h, j)[q] \notin C
           N == {n \in Nat : \A j \in 1..Len(h) : j <= n => Holds(j)}
<1>2. 0 \in N
  OBVIOUS
<1>3. ASSUME NEW n \in N PROVE n + 1 \in N
  <2> SUFFICES ASSUME NEW j \in 1..Len(h), j = n + 1, j \notin C, IsProduct(h, j) \/ h[j].dim = 1,
                      NEW q \in 1..h[j].dim
               PROVE  FactorsOf(h, j)[q] \notin C
    OBVIOUS
  <2>1. CASE ~IsProduct(h, j)
    BY <1>1, <2>1 DEF FactorsOf, SetType
  <2>2. CASE IsProduct(h, j)
    <3> DEFINE l == h[j].l
               r == h[j].r
    <3>1. /\ l \in 1..(j - 1) /\ r \in 1..(j - 1) /\ l \in 1..Len(h) /\ r \in 1..Len(h)
          /\ IsProduct(h, l) \/ h[l].dim = 1
          /\ IsProduct(h, r) \/ h[r].dim = 1
          /\ h[j].dim = h[l].dim + h[r].dim /\ h[l].dim \in Nat \ {0} /\ h[r].dim \in Nat \ {0}
          /\ FactorsOf(h, j)[q] = IF q <= h[l].dim THEN FactorsOf(h, l)[q]
                                  ELSE FactorsOf(h, r)[q - h[l].dim]
      BY <2>2, ProductFactors
    <3>2. l \notin C /\ r \notin C
      BY DEF AskClosed, Misled
    <3> HIDE DEF l, r
    <3>3. l <= n /\ r <= n
      BY <1>1, <3>1
    <3>4. Holds(l) /\ Holds(r)
      BY <3>1, <3>3
    <3>5. q <= h[l].dim => q \in 1..h[l].dim
      BY <3>1
    <3>6. ~(q <= h[l].dim) => q - h[l].dim \in 1..h[r].dim
      BY <3>1
    <3>7. QED
      BY <3>1, <3>2, <3>4, <3>5, <3>6
  <2>3. QED
    BY <2>1, <2>2
<1>4. N = Nat
  <2> HIDE DEF N
  <2>1. N \in SUBSET Nat
    BY DEF N
  <2>2. QED
    BY <1>2, <1>3, <2>1, NumbersByInduction
<1>5. i \in N /\ i <= i
  <2>1. i \in Nat
    BY <1>1
  <2> HIDE DEF N
  <2>2. QED
    BY <1>4, <2>1
<1>6. Holds(i)
  BY <1>5
<1>7. QED
  BY <1>6

LEMMA NotAsked ==
    ASSUME NEW h, SetsShape(h), NEW i \in 1..Len(h), i \notin AskedCombined(h)
    PROVE  /\ h[i].l \notin AskedCombined(h) /\ h[i].r \notin AskedCombined(h)
           /\ \A k \in Asks(h[i]) : ~(h[k].dim > 1 /\ IsCombined(h, k))
           /\ IsProduct(h, i) \/ h[i].dim = 1 =>
                 \A k \in 1..h[i].dim : FactorsOf(h, i)[k] \notin AskedCombined(h)
<1>1. PICK C \in SUBSET (1..Len(h)) :
        (\A k \in 1..Len(h) : Misled(h, k, C) => k \in C) /\ i \notin C
  BY DEF AskedCombined
<1>2. AskClosed(h, C)
  BY <1>1 DEF AskClosed
<1>3. AskedCombined(h) \subseteq C
  BY <1>1 DEF AskedCombined
<1>4. ~Misled(h, i, C)
  BY <1>1
<1>5. /\ h[i].l \notin C /\ h[i].r \notin C
      /\ \A k \in Asks(h[i]) : ~(h[k].dim > 1 /\ IsCombined(h, k))
  BY <1>4 DEF Misled
<1>6. IsProduct(h, i) \/ h[i].dim = 1 => \A k \in 1..h[i].dim : FactorsOf(h, i)[k] \notin C
  BY <1>1, <1>2, FactorsNotAsked
<1>7. QED
  BY <1>3, <1>5, <1>6

(* Sets that come later make no difference.                                *)
LEMMA AskedSame ==
    ASSUME NEW g, NEW h, Len(g) \in Nat, Len(h) \in Nat, Len(h) <= Len(g),
           SameFrame(g, h, Len(h)), NEW i \in 1..Len(h), i \notin AskedCombined(g),
           \A k \in 1..Len(h) : h[k].l = 0 \/ (h[k].l \in 1..Len(h) /\ h[k].r \in 1..Len(h)),
           \A k \in 1..Len(h) : h[k].l = 0 => Asks(h[k]) = {}
    PROVE  i \notin AskedCombined(h)
<1>1. 1..Len(h) \subseteq 1..Len(g)
  OBVIOUS
<1>2. PICK C \in SUBSET (1..Len(g)) :
        (\A k \in 1..Len(g) : Misled(g, k, C) => k \in C) /\ i \notin C
  BY <1>1 DEF AskedCombined
<1> DEFINE D == C \cap (1..Len(h))
<1>3. ASSUME NEW k \in 1..Len(h), Misled(h, k, D) PROVE k \in D
  <2>1. k \in 1..Len(g)
    BY <1>1
  <2>2. h[k].l # 0 => h[k].l \in 1..Len(h) /\ h[k].r \in 1..Len(h)
    OBVIOUS
  <2>3. /\ g[k].op = h[k].op /\ g[k].l = h[k].l /\ g[k].r = h[k].r
        /\ \A j \in 1..Len(h) : g[j].dim = h[j].dim /\ (IsCombined(g, j) <=> IsCombined(h, j))
    BY DEF SameFrame, IsCombined, IsProduct
  <2>4. Asks(g[k]) = Asks(h[k]) /\ \A j \in Asks(h[k]) : j \in 1..Len(h)
    <3>1. Asks(g[k]) = Asks(h[k])
      BY <2>3 DEF Asks
    <3>2. CASE h[k].l = 0
      BY <3>1, <3>2
    <3>3. CASE h[k].l # 0
      BY <2>2, <3>1, <3>3 DEF Asks
    <3>4. QED
      BY <3>2, <3>3
  <2>5. Misled(g, k, C)
    BY <1>3, <2>3, <2>4 DEF Misled
  <2>6. QED
    BY <1>2, <2>1, <2>5
<1>4. D \in SUBSET (1..Len(h)) /\ i \notin D
  BY <1>2
<1> HIDE DEF D
<1>5. QED
  BY <1>3, <1>4 DEF AskedCombined

-----------------------------------------------------------------------------
(* What the sets are, in mathematics.                                      *)
MeaningUpto(h, n, m) == m = [i \in 1..n |-> MeaningOf(h[i], m[h[i].l], m[h[i].r])]

LEMMA MeaningRecursion ==
    ASSUME NEW h, SetsShape(h), NEW i \in 1..Len(h)
    PROVE  Meaning(h)[i] = MeaningOf(h[i], Meaning(h)[h[i].l], Meaning(h)[h[i].r])
<1> DEFINE N == {k \in Nat : k <= Len(h) => \E m : MeaningUpto(h, k, m)}
           c == CHOOSE m : MeaningUpto(h, Len(h), m)
<1>1. /\ Len(h) \in Nat
      /\ \A k \in 1..Len(h) : h[k] \in SetType /\ Frame(h, k)
  BY ShapeFacts
<1>2. ASSUME NEW k \in 1..Len(h), NEW m1, NEW m2,
             h[k].l # 0 => m1[h[k].l] = m2[h[k].l] /\ m1[h[k].r] = m2[h[k].r]
      PROVE  MeaningOf(h[k], m1[h[k].l], m1[h[k].r]) = MeaningOf(h[k], m2[h[k].l], m2[h[k].r])
  <2>1. CASE h[k].l = 0
    <3>1. h[k].op \in SimpleOps
      BY <1>1, <2>1, Kinds DEF Simple1
    <3>2. h[k].op \in {"list", "vector", "range"}
      BY <3>1 DEF SimpleOps
    <3>3. QED
      BY <3>2 DEF MeaningOf
  <2>2. CASE h[k].l # 0
    BY <1>2, <2>2
  <2>3. QED
    BY <2>1, <2>2
<1>3. 0 \in N
  <2> DEFINE m == [j \in 1..0 |-> {}]
  <2>1. m = [j \in 1..0 |-> MeaningOf(h[j], m[h[j].l], m[h[j].r])]
    OBVIOUS
  <2>2. QED
    BY <2>1 DEF MeaningUpto
<1>4. ASSUME NEW k \in N PROVE k + 1 \in N
  <2> SUFFICES ASSUME k + 1 <= Len(h) PROVE \E m : MeaningUpto(h, k + 1, m)
    OBVIOUS
  <2>1. k \in Nat /\ k <= Len(h) /\ k + 1 \in 1..Len(h)
    BY <1>1
  <2>2. PICK s : MeaningUpto(h, k, s)
    BY <2>1
  <2>3. \A j \in 1..k : s[j] = MeaningOf(h[j], s[h[j].l], s[h[j].r])
    <3>1. s = [j \in 1..k |-> MeaningOf(h[j], s[h[j].l], s[h[j].r])]
      BY <2>2 DEF MeaningUpto
    <3>2. QED
      BY <3>1
  <2> DEFINE last == MeaningOf(h[k + 1], s[h[k + 1].l], s[h[k + 1].r])
             m == [j \in 1..(k + 1) |-> IF j <= k THEN s[j] ELSE last]
  <2>4. (\A j \in 1..k : m[j] = s[j]) /\ m[k + 1] = last /\ DOMAIN m = 1..(k + 1)
    BY <2>1
  <2> HIDE DEF m
  <2>5. ASSUME NEW j \in 1..(k + 1) PROVE m[j] = MeaningOf(h[j], m[h[j].l], m[h[j].r])
    <3>1. j \in 1..Len(h)
      BY <2>1
    <3>2. h[j].l # 0 => m[h[j].l] = s[h[j].l] /\ m[h[j].r] = s[h[j].r]
      <4>1. h[j].l # 0 => h[j].l \in 1..(j - 1) /\ h[j].r \in 1..(j - 1)
        BY <1>1, <3>1 DEF Frame, Simple1, Combination, Product, Operands
      <4>2. \A q \in 1..(j - 1) : q \in 1..k
        BY <2>1
      <4>3. QED
        BY <2>4, <4>1, <4>2
    <3>3. MeaningOf(h[j], m[h[j].l], m[h[j].r]) = MeaningOf(h[j], s[h[j].l], s[h[j].r])
      BY <1>2, <3>1, <3>2
    <3>4. j \in 1..k \/ j = k + 1
      BY <2>1
    <3>5. QED
      BY <2>3, <2>4, <3>3, <3>4
  <2>6. m = [j \in 1..(k + 1) |-> MeaningOf(h[j], m[h[j].l], m[h[j].r])]
    <3> DEFINE u == [j \in 1..(k + 1) |-> MeaningOf(h[j], m[h[j].l], m[h[j].r])]
    <3>1. \A j \in 1..(k + 1) : m[j] = u[j]
      BY <2>5
    <3>2. m = [j \in 1..(k + 1) |-> m[j]]
      BY DEF m
    <3>3. QED
      BY <3>1, <3>2
  <2>7. QED
    BY <2>6 DEF MeaningUpto
<1>5. N = Nat
  <2> HIDE DEF N
  <2>1. N \in SUBSET Nat
    BY DEF N
  <2>2. QED
    BY <1>3, <1>4, <2>1, NumbersByInduction
<1>6. MeaningUpto(h, Len(h), c)
  <2>1. Len(h) \in N /\ Len(h) <= Len(h)
    BY <1>1, <1>5
  <2>2. \E m : MeaningUpto(h, Len(h), m)
    BY <2>1
  <2>3. QED
    BY <2>2
<1>7. Meaning(h) = c
  BY DEF Meaning, MeaningUpto
<1> HIDE DEF c
<1>8. c = [j \in 1..Len(h) |-> MeaningOf(h[j], c[h[j].l], c[h[j].r])]
  BY <1>6 DEF MeaningUpto
<1>9. c[i] = MeaningOf(h[i], c[h[i].l], c[h[i].r])
  BY <1>8
<1>10. QED
  BY <1>7, <1>9

(* More sets, or more initialized ones, do not change what a set is.       *)
SameGiven(g, h, n) == \A k \in 1..n : h[k].l = 0 => g[k] = h[k]

LEMMA MeaningSame ==
    ASSUME NEW g, NEW h, SetsShape(g), SetsShape(h), Len(h) <= Len(g),
           SameFrame(g, h, Len(h)), SameGiven(g, h, Len(h)), NEW i \in 1..Len(h)
    PROVE  Meaning(g)[i] = Meaning(h)[i]
<1> DEFINE Holds(j) == Meaning(g)[j] = Meaning(h)[j]
           N == {n \in Nat : \A j \in 1..Len(h) : j <= n => Holds(j)}
<1>1. /\ Len(h) \in Nat /\ Len(g) \in Nat
      /\ \A k \in 1..Len(h) : k \in 1..Len(g) /\ h[k] \in SetType /\ Frame(h, k)
  <2>1. /\ Len(h) \in Nat /\ Len(g) \in Nat
        /\ \A k \in 1..Len(h) : h[k] \in SetType /\ Frame(h, k)
    BY ShapeFacts
  <2>2. QED
    BY <2>1
<1>2. 0 \in N
  OBVIOUS
<1>3. ASSUME NEW n \in N PROVE n + 1 \in N
  <2> SUFFICES ASSUME NEW j \in 1..Len(h), j = n + 1 PROVE Holds(j)
    OBVIOUS
  <2>1. /\ Meaning(g)[j] = MeaningOf(g[j], Meaning(g)[g[j].l], Meaning(g)[g[j].r])
        /\ Meaning(h)[j] = MeaningOf(h[j], Meaning(h)[h[j].l], Meaning(h)[h[j].r])
    BY <1>1, MeaningRecursion
  <2>2. g[j].op = h[j].op /\ g[j].l = h[j].l /\ g[j].r = h[j].r
    BY DEF SameFrame
  <2>3. CASE h[j].l = 0
    <3>1. h[j].op \in {"list", "vector", "range"} /\ g[j] = h[j]
      BY <1>1, <2>3, Kinds DEF Simple1, SimpleOps, SameGiven
    <3>2. QED
      BY <2>1, <3>1 DEF MeaningOf
  <2>4. CASE h[j].l # 0
    <3>1. /\ h[j].l \in 1..(j - 1) /\ h[j].r \in 1..(j - 1)
          /\ h[j].op \notin {"list", "vector", "range"}
      BY <1>1, <2>4 DEF Frame, Simple1, Combination, Product, Operands, CombiningOps
    <3>2. \A q \in 1..(j - 1) : q \in 1..Len(h) /\ q <= n
      BY <1>1
    <3>3. Holds(h[j].l) /\ Holds(h[j].r)
      BY <3>1, <3>2
    <3>4. QED
      BY <2>1, <2>2, <3>1, <3>3 DEF MeaningOf
  <2>5. QED
    BY <2>3, <2>4
<1>4. N = Nat
  <2> HIDE DEF N
  <2>1. N \in SUBSET Nat
    BY DEF N
  <2>2. QED
    BY <1>2, <1>3, <2>1, NumbersByInduction
<1>5. i \in N /\ i <= i
  <2>1. i \in Nat
    BY <1>1
  <2> HIDE DEF N
  <2>2. QED
    BY <1>4, <2>1
<1>6. Holds(i)
  BY <1>5
<1>7. QED
  BY <1>6

LEMMA GivenMeaning ==
    ASSUME NEW h, SetsShape(h), NEW i \in 1..Len(h), h[i].l = 0
    PROVE  Meaning(h)[i] = ToSet(h[i].data)
<1>1. h[i].op \in {"list", "vector", "range"} /\ Contents(h, i)
  BY ShapeFacts, Kinds DEF Simple1, SimpleOps
<1>2. Meaning(h)[i] = MeaningOf(h[i], Meaning(h)[h[i].l], Meaning(h)[h[i].r])
  BY MeaningRecursion
<1>3. QED
  BY <1>1, <1>2 DEF MeaningOf, Contents

Join(v, w) == v \o w

LEMMA JoinLength ==
    ASSUME NEW c \in Nat, NEW d \in Nat, NEW v \in OfLength(Int, c), NEW w \in OfLength(Int, d)
    PROVE  /\ Join(v, w) \in OfLength(Int, c + d)
           /\ \A k \in 1..(c + d) : Join(v, w)[k] = IF k <= c THEN v[k] ELSE w[k - c]
<1>1. v \in Seq(Int) /\ w \in Seq(Int) /\ Len(v) = c /\ Len(w) = d
  BY DEF OfLength
<1>2. /\ v \o w \in Seq(Int) /\ Len(v \o w) = c + d
      /\ \A k \in 1..(c + d) : (v \o w)[k] = IF k <= c THEN v[k] ELSE w[k - c]
  BY <1>1, ConcatProperties
<1>3. QED
  BY <1>2 DEF OfLength, Join

LEMMA MeaningTyped ==
    ASSUME NEW h, SetsShape(h), NEW i \in 1..Len(h)
    PROVE  Meaning(h)[i] \in SUBSET OfLength(Int, h[i].dim)
<1> DEFINE Holds(j) == Meaning(h)[j] \in SUBSET OfLength(Int, h[j].dim)
           N == {n \in Nat : \A j \in 1..Len(h) : j <= n => Holds(j)}
<1>1. /\ Len(h) \in Nat
      /\ \A k \in 1..Len(h) : h[k] \in SetType /\ Frame(h, k) /\ Contents(h, k)
  BY ShapeFacts
<1>2. 0 \in N
  OBVIOUS
<1>3. ASSUME NEW n \in N PROVE n + 1 \in N
  <2> SUFFICES ASSUME NEW j \in 1..Len(h), j = n + 1 PROVE Holds(j)
    OBVIOUS
  <2> DEFINE l == h[j].l
             r == h[j].r
             L == Meaning(h)[l]
             R == Meaning(h)[r]
  <2>1. Meaning(h)[j] = MeaningOf(h[j], L, R)
    BY MeaningRecursion
  <2>2. CASE l = 0
    <3>1. Meaning(h)[j] = ToSet(h[j].data) /\ h[j].data \in Seq(OfLength(Int, h[j].dim))
      BY <1>1, <2>2, GivenMeaning DEF Contents
    <3>2. QED
      BY <3>1, ElementOfSeq, LenProperties DEF ToSet
  <2>3. CASE l # 0
    <3>1. /\ l \in 1..(j - 1) /\ r \in 1..(j - 1)
          /\ Combination(h, j) \/ Product(h, j)
      BY <1>1, <2>3 DEF Frame, Simple1, Combination, Product, Operands
    <3>2. l \in 1..Len(h) /\ l <= n /\ r \in 1..Len(h) /\ r <= n
      BY <1>1, <3>1
    <3>3. L \in SUBSET OfLength(Int, h[l].dim) /\ R \in SUBSET OfLength(Int, h[r].dim)
      BY <3>2
    <3>4. h[l].dim \in Nat /\ h[r].dim \in Nat
      BY <1>1, <3>2 DEF SetType
    <3>5. CASE Combination(h, j)
      <4>1. h[j].dim = h[l].dim /\ h[j].dim = h[r].dim /\ h[j].op \in CombiningOps
        BY <3>5 DEF Combination
      <4>2. MeaningOf(h[j], L, R) \in SUBSET (L \cup R)
        BY <4>1 DEF MeaningOf, CombiningOps
      <4> HIDE DEF l, r, L, R
      <4>3. QED
        BY <2>1, <3>3, <4>1, <4>2
    <3>6. CASE Product(h, j)
      <4>1. h[j].dim = h[l].dim + h[r].dim /\ h[j].op = "product"
        BY <3>6 DEF Product
      <4>2. MeaningOf(h[j], L, R) = {Join(v, w) : v \in L, w \in R}
        BY <4>1 DEF MeaningOf, Join
      <4> HIDE DEF l, r, L, R
      <4>3. \A v \in L, w \in R : Join(v, w) \in OfLength(Int, h[j].dim)
        BY <3>3, <3>4, <4>1, JoinLength
      <4>4. Meaning(h)[j] \subseteq OfLength(Int, h[j].dim)
        BY ONLY <2>1, <4>2, <4>3
      <4>5. QED
        BY <4>4
    <3>7. QED
      BY <3>1, <3>5, <3>6
  <2>4. QED
    BY <2>2, <2>3
<1>4. N = Nat
  <2> HIDE DEF N
  <2>1. N \in SUBSET Nat
    BY DEF N
  <2>2. QED
    BY <1>2, <1>3, <2>1, NumbersByInduction
<1>5. i \in N /\ i <= i
  <2>1. i \in Nat
    BY <1>1
  <2> HIDE DEF N
  <2>2. QED
    BY <1>4, <2>1
<1>6. Holds(i)
  BY <1>5
<1>7. QED
  BY <1>6

(* The tuples of length d with their values in the sets M[A[1]] .. M[A[d]].*)
AreTuples(S, M, A, d) ==
    \A v : v \in S <=> v \in OfLength(Int, d) /\ \A k \in 1..d : <<v[k]>> \in M[A[k]]

AreJoins(J, L, R) == \A u : u \in J <=> \E v \in L, w \in R : u = Join(v, w)

AreFactors(F, A, B, c, d) == \A q \in 1..(c + d) : F[q] = IF q <= c THEN A[q] ELSE B[q - c]

LEMMA TuplesJoined ==
    ASSUME NEW c \in Nat, NEW d \in Nat, NEW M, NEW A, NEW B, NEW F, AreFactors(F, A, B, c, d),
           NEW L, AreTuples(L, M, A, c), NEW R, AreTuples(R, M, B, d),
           NEW J, AreJoins(J, L, R), NEW T, AreTuples(T, M, F, c + d)
    PROVE  J = T
<1> USE DEF AreTuples, AreJoins, AreFactors
<1>0. \A q \in 1..(c + d) : F[q] = IF q <= c THEN A[q] ELSE B[q - c]
  OBVIOUS
<1>1. ASSUME NEW v \in L, NEW w \in R
      PROVE  /\ Join(v, w) \in OfLength(Int, c + d)
             /\ \A k \in 1..(c + d) : <<Join(v, w)[k]>> \in M[F[k]]
  <2>1. v \in OfLength(Int, c) /\ w \in OfLength(Int, d)
    OBVIOUS
  <2>2. /\ Join(v, w) \in OfLength(Int, c + d)
        /\ \A k \in 1..(c + d) : Join(v, w)[k] = IF k <= c THEN v[k] ELSE w[k - c]
    BY ONLY c \in Nat, d \in Nat, <2>1, JoinLength
  <2>3. ASSUME NEW k \in 1..(c + d) PROVE <<Join(v, w)[k]>> \in M[F[k]]
    <3>1. CASE k <= c
      <4>1. k \in 1..c /\ F[k] = A[k] /\ Join(v, w)[k] = v[k]
        BY ONLY c \in Nat, k \in 1..(c + d), <1>0, <2>2, <3>1
      <4>2. QED
        BY <4>1
    <3>2. CASE ~(k <= c)
      <4>1. k - c \in 1..d /\ F[k] = B[k - c] /\ Join(v, w)[k] = w[k - c]
        BY ONLY c \in Nat, d \in Nat, k \in 1..(c + d), <1>0, <2>2, <3>2
      <4>2. QED
        BY <4>1
    <3>3. QED
      BY <3>1, <3>2
  <2>4. QED
    BY <2>2, <2>3
<1>2. ASSUME NEW u \in OfLength(Int, c + d), \A k \in 1..(c + d) : <<u[k]>> \in M[F[k]]
      PROVE  \E v \in L, w \in R : u = Join(v, w)
  <2>1. u \in Seq(Int) /\ Len(u) = c + d /\ \A k \in 1..(c + d) : u[k] \in Int
    BY ElementOfSeq DEF OfLength
  <2> DEFINE v == [k \in 1..c |-> u[k]]
             w == [k \in 1..d |-> u[k + c]]
  <2>2. \A k \in 1..d : k + c \in 1..(c + d) /\ ~(k + c <= c) /\ (k + c) - c = k
    OBVIOUS
  <2>3. \A k \in 1..c : k \in 1..(c + d) /\ k <= c
    OBVIOUS
  <2>4. v \in [1..c -> Int] /\ w \in [1..d -> Int]
    BY <2>1, <2>2, <2>3
  <2>5. (\A k \in 1..c : v[k] = u[k]) /\ (\A k \in 1..d : w[k] = u[k + c])
    OBVIOUS
  <2> HIDE DEF v, w
  <2>6. v \in Seq(Int) /\ w \in Seq(Int) /\ Len(v) = c /\ Len(w) = d
    BY ONLY c \in Nat, d \in Nat, <2>4
  <2>7. v \in OfLength(Int, c) /\ w \in OfLength(Int, d)
    BY <2>6 DEF OfLength
  <2>8. v \in L
    BY <1>2, <2>3, <2>5, <2>7
  <2>9. w \in R
    <3>1. ASSUME NEW k \in 1..d PROVE <<w[k]>> \in M[B[k]]
      <4>1. w[k] = u[k + c] /\ k + c \in 1..(c + d) /\ F[k + c] = B[k]
        BY <2>2, <2>5
      <4>2. QED
        BY <1>2, <4>1
    <3>2. QED
      BY <2>7, <3>1
  <2>10. u = Join(v, w)
    <3>1. /\ Join(v, w) \in OfLength(Int, c + d)
          /\ \A k \in 1..(c + d) : Join(v, w)[k] = IF k <= c THEN v[k] ELSE w[k - c]
      BY ONLY c \in Nat, d \in Nat, <2>7, JoinLength
    <3>2. ASSUME NEW k \in 1..(c + d) PROVE Join(v, w)[k] = u[k]
      <4>1. CASE k <= c
        <5>1. k \in 1..c
          BY <4>1
        <5>2. QED
          BY <2>5, <3>1, <4>1, <5>1
      <4>2. CASE ~(k <= c)
        <5>1. k - c \in 1..d /\ (k - c) + c = k
          BY <4>2
        <5>2. w[k - c] = u[(k - c) + c]
          BY <2>5, <5>1
        <5>3. QED
          BY <3>1, <4>2, <5>1, <5>2
      <4>3. QED
        BY <4>1, <4>2
    <3>3. Join(v, w) \in Seq(Int) /\ Len(Join(v, w)) = c + d
      BY <3>1 DEF OfLength
    <3>4. QED
      BY <2>1, <3>2, <3>3, SeqEqual
  <2>11. QED
    BY <2>8, <2>9, <2>10
<1>3. \A v \in L, w \in R : Join(v, w) \in T
  <2> SUFFICES ASSUME NEW v \in L, NEW w \in R PROVE Join(v, w) \in T
    OBVIOUS
  <2>1. /\ Join(v, w) \in OfLength(Int, c + d)
        /\ \A k \in 1..(c + d) : <<Join(v, w)[k]>> \in M[F[k]]
    BY <1>1, Zenon
  <2>2. \A u : u \in T <=> u \in OfLength(Int, c + d) /\ \A k \in 1..(c + d) : <<u[k]>> \in M[F[k]]
    OBVIOUS
  <2>3. QED
    BY ONLY <2>1, <2>2, Zenon
<1>4. J \subseteq T
  <2> SUFFICES ASSUME NEW u \in J PROVE u \in T
    OBVIOUS
  <2>1. PICK v \in L, w \in R : u = Join(v, w)
    OBVIOUS
  <2>2. QED
    BY ONLY <1>3, <2>1
<1>5. ASSUME NEW u \in T PROVE u \in J
  <2>1. u \in OfLength(Int, c + d) /\ \A k \in 1..(c + d) : <<u[k]>> \in M[F[k]]
    BY Zenon
  <2>2. PICK v \in L, w \in R : u = Join(v, w)
    BY ONLY <1>2, <2>1, Zenon
  <2>3. QED
    BY <2>2, Zenon
<1>6. QED
  BY ONLY <1>4, <1>5

LEMMA ProductMeaningStep ==
    ASSUME NEW h, SetsShape(h), NEW j \in 1..Len(h), IsProduct(h, j),
           NEW l, l = h[j].l, NEW r, r = h[j].r, NEW c, c = h[l].dim, NEW d, d = h[r].dim,
           NEW F, F = FactorsOf(h, j), NEW A, A = FactorsOf(h, l), NEW B, B = FactorsOf(h, r),
           NEW m, m = Meaning(h), NEW L, L = m[l], NEW R, R = m[r], NEW J, J = m[j],
           AreTuples(L, m, A, c), AreTuples(R, m, B, d)
    PROVE  AreTuples(J, m, F, h[j].dim)
<1>1. h[j].dim = c + d /\ c \in Nat /\ d \in Nat /\ AreFactors(F, A, B, c, d)
  BY ProductFactors DEF AreFactors
<1>2. J = {v \o w : v \in L, w \in R}
  <2>1. J = MeaningOf(h[j], L, R)
    BY MeaningRecursion
  <2>2. h[j].op = "product"
    BY DEF IsProduct
  <2>3. QED
    BY <2>1, <2>2 DEF MeaningOf
<1>3. J = {Join(v, w) : v \in L, w \in R}
  BY <1>2 DEF Join
<1>4. AreJoins(J, L, R)
  BY <1>3 DEF AreJoins
<1> DEFINE T == {u \in OfLength(Int, c + d) : \A k \in 1..(c + d) : <<u[k]>> \in m[F[k]]}
<1>5. AreTuples(T, m, F, c + d)
  BY DEF AreTuples
<1> HIDE DEF T
<1>6. J = T
  BY ONLY <1>1, <1>4, <1>5, AreTuples(L, m, A, c), AreTuples(R, m, B, d), TuplesJoined
<1>7. QED
  BY <1>1, <1>5, <1>6

(* The elements of a product are the combinations of those of its factors. *)
LEMMA ProductMeaning ==
    ASSUME NEW h, SetsShape(h), NEW i \in 1..Len(h), IsProduct(h, i) \/ h[i].dim = 1
    PROVE  AreTuples(Meaning(h)[i], Meaning(h), FactorsOf(h, i), h[i].dim)
<1> DEFINE Tuple(j) == AreTuples(Meaning(h)[j], Meaning(h), FactorsOf(h, j), h[j].dim)
           Holds(j) == IsProduct(h, j) \/ h[j].dim = 1 => Tuple(j)
           N == {n \in Nat : \A j \in 1..Len(h) : j <= n => Holds(j)}
<1>1. /\ Len(h) \in Nat
      /\ \A k \in 1..Len(h) : h[k] \in SetType /\ Frame(h, k)
  BY ShapeFacts
<1>2. 0 \in N
  OBVIOUS
<1>3. ASSUME NEW n \in N PROVE n + 1 \in N
  <2> SUFFICES ASSUME NEW j \in 1..Len(h), j = n + 1, IsProduct(h, j) \/ h[j].dim = 1
               PROVE  Tuple(j)
    <3> HIDE DEF Tuple
    <3>1. n \in Nat /\ \A j \in 1..Len(h) : j <= n => Holds(j)
      OBVIOUS
    <3>2. \A j \in 1..Len(h) : j <= n + 1 => j <= n \/ j = n + 1
      BY <1>1, <3>1
    <3>3. QED
      BY <3>1, <3>2
  <2>1. CASE ~IsProduct(h, j)
    <3>1. FactorsOf(h, j) = <<j>> /\ h[j].dim = 1
      BY <2>1 DEF FactorsOf
    <3>2. Meaning(h)[j] \in SUBSET OfLength(Int, 1)
      BY <3>1, MeaningTyped
    <3>3. ASSUME NEW v \in OfLength(Int, 1) PROVE <<v[1]>> = v
      <4>1. v \in Seq(Int) /\ Len(v) = 1
        BY DEF OfLength
      <4>2. QED
        BY ONLY <4>1
    <3>4. QED
      BY <3>1, <3>2, <3>3 DEF AreTuples
  <2>2. CASE IsProduct(h, j)
    <3>1. /\ h[j].l \in 1..(j - 1) /\ h[j].r \in 1..(j - 1)
          /\ h[j].l \in 1..Len(h) /\ h[j].r \in 1..Len(h)
          /\ IsProduct(h, h[j].l) \/ h[h[j].l].dim = 1
          /\ IsProduct(h, h[j].r) \/ h[h[j].r].dim = 1
      BY <2>2, ProductFactors
    <3>2. h[j].l <= n /\ h[j].r <= n
      BY <1>1, <3>1
    <3>3. Holds(h[j].l) /\ Holds(h[j].r)
      BY <3>1, <3>2
    <3> HIDE DEF Holds
    <3>4. QED
      BY <2>2, <3>1, <3>3, ProductMeaningStep DEF Holds
  <2>3. QED
    BY <2>1, <2>2
<1>4. N = Nat
  <2> HIDE DEF N
  <2>1. N \in SUBSET Nat
    BY DEF N
  <2>2. QED
    BY <1>2, <1>3, <2>1, NumbersByInduction
<1>5. i \in N /\ i <= i
  <2>1. i \in Nat
    BY <1>1
  <2> HIDE DEF N
  <2>2. QED
    BY <1>4, <2>1
<1>6. Holds(i)
  BY <1>5
<1>7. QED
  BY <1>6

-----------------------------------------------------------------------------
(* What an initialized set holds.                                          *)
Available(h, i) ==
    IF IsProduct(h, i) THEN \A k \in 1..h[i].dim : h[FactorsOf(h, i)[k]].init ELSE h[i].init

ExactData(h, i) ==
    ~IsProduct(h, i) /\ h[i].init /\ i \notin AskedCombined(h) =>
        Distinct(h[i].data) /\ ToSet(h[i].data) = Meaning(h)[i]

LEMMA AloneLength == OfLength(Int, 1) = Alone(Int)
<1>1. ASSUME NEW v \in OfLength(Int, 1) PROVE v \in Alone(Int)
  <2>1. v \in Seq(Int) /\ Len(v) = 1
    BY DEF OfLength
  <2>2. v = <<v[1]>> /\ v[1] \in Int
    BY ONLY <2>1
  <2>3. QED
    BY <2>2 DEF Alone
<1>2. ASSUME NEW x \in Int PROVE <<x>> \in OfLength(Int, 1)
  BY DEF OfLength
<1>3. QED
  BY <1>1, <1>2 DEF Alone

(* The lists a product goes through.                                       *)
ListsOf(h, i) == [k \in DOMAIN h[i].factors |-> h[h[i].factors[k]].data]

LEMMA ListsFacts ==
    ASSUME NEW h, SetsShape(h), NEW i \in 1..Len(h), IsProduct(h, i)
    PROVE  /\ ListsOf(h, i) \in Seq(Seq(Alone(Int))) /\ Len(ListsOf(h, i)) = h[i].dim
           /\ DOMAIN ListsOf(h, i) = 1..h[i].dim /\ DOMAIN h[i].factors = 1..h[i].dim
           /\ h[i].dim \in Nat \ {0}
           /\ \A k \in 1..h[i].dim :
                 /\ FactorsOf(h, i)[k] \in 1..(i - 1) /\ FactorsOf(h, i)[k] \in 1..Len(h)
                 /\ ~IsProduct(h, FactorsOf(h, i)[k]) /\ h[FactorsOf(h, i)[k]].dim = 1
                 /\ ListsOf(h, i)[k] = h[FactorsOf(h, i)[k]].data
                 /\ ListsOf(h, i)[k] \in Seq(Alone(Int))
<1>1. /\ Len(h) \in Nat
      /\ \A k \in 1..Len(h) : h[k] \in SetType /\ Frame(h, k) /\ Contents(h, k)
  BY ShapeFacts
<1>2. Product(h, i)
  BY <1>1, Kinds
<1>3. FactorsOf(h, i) = h[i].factors
  BY DEF FactorsOf
<1>4. /\ h[i].factors \in Seq(1..(i - 1)) /\ Len(h[i].factors) = h[i].dim
      /\ \A k \in 1..h[i].dim : /\ ~IsProduct(h, h[i].factors[k])
                                /\ h[h[i].factors[k]].dim = 1
  BY <1>2, <1>3 DEF Product, Factored
<1>5. h[i].dim \in Nat \ {0}
  BY <1>1 DEF SetType
<1>6. DOMAIN h[i].factors = 1..h[i].dim /\ \A k \in 1..h[i].dim : h[i].factors[k] \in 1..(i - 1)
  BY <1>4, LenProperties, ElementOfSeq
<1>7. \A q \in 1..(i - 1) : q \in 1..Len(h)
  BY <1>1
<1>8. \A k \in 1..h[i].dim : h[h[i].factors[k]].data \in Seq(Alone(Int))
  BY <1>1, <1>4, <1>6, <1>7, AloneLength DEF Contents
<1>9. ListsOf(h, i) = [k \in 1..h[i].dim |-> h[h[i].factors[k]].data]
  BY <1>6 DEF ListsOf
<1> DEFINE lists == ListsOf(h, i)
           d == h[i].dim
<1>10. lists \in [1..d -> Seq(Alone(Int))] /\ \A k \in 1..d : lists[k] = h[h[i].factors[k]].data
  BY <1>8, <1>9
<1>11. lists \in Seq(Seq(Alone(Int))) /\ Len(lists) = d /\ DOMAIN lists = 1..d
  <2> HIDE DEF lists, d
  <2>1. d \in Nat
    BY <1>5 DEF d
  <2>2. QED
    BY <1>10, <2>1
<1>12. QED
  BY <1>3, <1>4, <1>5, <1>6, <1>7, <1>8, <1>10, <1>11

LEMMA ItemsTyped ==
    ASSUME NEW h, SetsShape(h), NEW i \in 1..Len(h)
    PROVE  ItemsOf(h, i) \in Seq(OfLength(Int, h[i].dim))
<1>1. CASE IsProduct(h, i)
  <2>1. /\ ListsOf(h, i) \in Seq(Seq(Alone(Int))) /\ Len(ListsOf(h, i)) = h[i].dim
    BY <1>1, ListsFacts
  <2>2. Tuples(ListsOf(h, i)) \in Seq(OfLength(Int, h[i].dim))
    BY <2>1, TuplesFacts
  <2>3. QED
    BY <1>1, <2>2 DEF ItemsOf, ListsOf
<1>2. CASE ~IsProduct(h, i)
  BY <1>2, ShapeFacts DEF ItemsOf, Contents
<1>3. QED
  BY <1>1, <1>2

LEMMA ItemsExact ==
    ASSUME NEW h, SetsShape(h), NEW i \in 1..Len(h), Available(h, i), i \notin AskedCombined(h),
           \A j \in 1..i : ExactData(h, j)
    PROVE  /\ Distinct(ItemsOf(h, i)) /\ ToSet(ItemsOf(h, i)) = Meaning(h)[i]
           /\ SizeOf(h, i) = Cardinality(Meaning(h)[i])
<1>1. Len(h) \in Nat /\ i \in 1..i
  BY ShapeFacts
<1>2. ItemsOf(h, i) \in Seq(OfLength(Int, h[i].dim))
  BY ItemsTyped
<1>3. CASE IsProduct(h, i)
  <2> DEFINE lists == ListsOf(h, i)
             F == FactorsOf(h, i)
             d == h[i].dim
             m == Meaning(h)
             T == Tuples(lists)
  <2>1. /\ lists \in Seq(Seq(Alone(Int))) /\ Len(lists) = d
        /\ DOMAIN lists = 1..d /\ DOMAIN h[i].factors = 1..d /\ d \in Nat
        /\ \A k \in 1..d : /\ F[k] \in 1..(i - 1) /\ ~IsProduct(h, F[k])
                           /\ lists[k] = h[F[k]].data
    BY <1>3, ListsFacts
  <2>2. \A k \in 1..d : h[F[k]].init /\ F[k] \notin AskedCombined(h)
    BY <1>3, NotAsked DEF Available
  <2>3. \A k \in 1..d : ExactData(h, F[k])
    <3>1. \A q \in 1..(i - 1) : q \in 1..i
      BY <1>1
    <3>2. QED
      BY <2>1, <3>1
  <2>4. \A k \in 1..d : Distinct(lists[k]) /\ ToSet(lists[k]) = m[F[k]]
    BY <2>1, <2>2, <2>3 DEF ExactData
  <2>5. AreTuples(m[i], m, F, d)
    BY <1>3, ProductMeaning
  <2>6. /\ ToSet(T) = Combined(Int, lists, d) /\ Distinct(T)
        /\ Len(T) = ProductOver([k \in DOMAIN lists |-> Len(lists[k])], DOMAIN lists)
    BY <2>1, <2>4, TuplesFacts
  <2>7. Combined(Int, lists, d) = m[i]
    <3> HIDE DEF lists, F, m
    <3>1. \A v : v \in Combined(Int, lists, d) <=> v \in m[i]
      BY <2>4, <2>5 DEF Combined, AreTuples
    <3>2. QED
      BY <3>1
  <2>8. SizeOf(h, i) = Len(T)
    <3> DEFINE f == [k \in DOMAIN h[i].factors |-> Len(h[h[i].factors[k]].data)]
               g == [k \in DOMAIN lists |-> Len(lists[k])]
    <3>1. f = g
      BY <1>3, <2>1 DEF FactorsOf
    <3>2. SizeOf(h, i) = ProductOver(f, DOMAIN h[i].factors)
      BY <1>3 DEF SizeOf
    <3> HIDE DEF f, g
    <3>3. QED
      BY <2>1, <2>6, <3>1, <3>2 DEF g
  <2>9. T = ItemsOf(h, i)
    BY <1>3 DEF ItemsOf, ListsOf
  <2>10. ToSet(ItemsOf(h, i)) = m[i] /\ Distinct(ItemsOf(h, i)) /\ SizeOf(h, i) = Len(ItemsOf(h, i))
    BY <2>6, <2>7, <2>8, <2>9
  <2>11. QED
    BY <1>2, <2>10, DistinctSize
<1>4. CASE ~IsProduct(h, i)
  <2>1. Distinct(h[i].data) /\ ToSet(h[i].data) = Meaning(h)[i]
    BY <1>1, <1>4 DEF ExactData, Available
  <2>2. ItemsOf(h, i) = h[i].data /\ SizeOf(h, i) = Len(h[i].data)
    BY <1>4 DEF ItemsOf, SizeOf
  <2>3. QED
    BY <1>2, <2>1, <2>2, DistinctSize
<1>5. QED
  BY <1>3, <1>4

LEMMA ContainsExact ==
    ASSUME NEW h, SetsShape(h), NEW i \in 1..Len(h), Available(h, i), i \notin AskedCombined(h),
           \A j \in 1..i : ExactData(h, j), ~(h[i].dim > 1 /\ IsCombined(h, i)),
           NEW v \in OfLength(Int, h[i].dim)
    PROVE  ContainsValue(h, i, v) <=> v \in Meaning(h)[i]
<1>1. /\ Len(h) \in Nat
      /\ \A k \in 1..Len(h) : h[k] \in SetType /\ Frame(h, k) /\ Contents(h, k)
  BY ShapeFacts
<1>2. ASSUME NEW j \in 1..Len(h), ~IsProduct(h, j), h[j].init, j \notin AskedCombined(h),
             ExactData(h, j), NEW w \in OfLength(Int, 1)
      PROVE  ContainsSimple(h, j, w) <=> w \in Meaning(h)[j]
  <2>1. ToSet(h[j].data) = Meaning(h)[j]
    BY <1>2 DEF ExactData
  <2>2. CASE h[j].op = "range"
    BY <1>1, <2>1, <2>2 DEF ContainsSimple, Contents
  <2>3. CASE h[j].op # "range"
    BY <2>1, <2>3 DEF ContainsSimple
  <2>4. QED
    BY <2>2, <2>3
<1>3. CASE h[i].dim = 1
  <2>1. ~IsProduct(h, i)
    <3>1. SUFFICES ASSUME IsProduct(h, i) PROVE FALSE
      OBVIOUS
    <3>2. h[i].dim = h[h[i].l].dim + h[h[i].r].dim /\ h[h[i].l].dim \in Nat \ {0} /\ h[h[i].r].dim \in Nat \ {0}
      BY <3>1, ProductFactors
    <3>3. QED
      BY <1>3, <3>2
  <2>2. i \in 1..i /\ h[i].init
    BY <1>1, <2>1 DEF Available
  <2>3. ContainsSimple(h, i, v) <=> v \in Meaning(h)[i]
    BY <1>2, <1>3, <2>1, <2>2
  <2>4. ContainsValue(h, i, v) = ContainsSimple(h, i, v)
    BY <1>3 DEF ContainsValue
  <2>5. QED
    BY <2>3, <2>4
<1>4. CASE h[i].dim # 1
  <2>1. IsProduct(h, i) /\ h[i].dim > 1
    <3>1. h[i].dim \in Nat \ {0} /\ h[i].dim > 1
      BY <1>1, <1>4 DEF SetType
    <3>2. ~Simple1(h, i) /\ ~Combination(h, i)
      BY <1>1, <1>4, <3>1, Kinds DEF Simple1
    <3>3. QED
      BY <1>1, <3>1, <3>2, Kinds DEF Frame
  <2> DEFINE F == FactorsOf(h, i)
             d == h[i].dim
             m == Meaning(h)
  <2>2. /\ DOMAIN h[i].factors = 1..d
        /\ \A k \in 1..d : /\ F[k] \in 1..(i - 1) /\ F[k] \in 1..Len(h) /\ ~IsProduct(h, F[k])
    BY <2>1, ListsFacts
  <2>3. \A k \in 1..d : h[F[k]].init /\ F[k] \notin AskedCombined(h)
    BY <2>1, NotAsked DEF Available
  <2>4. \A k \in 1..d : ExactData(h, F[k])
    <3>1. \A q \in 1..(i - 1) : q \in 1..i
      BY <1>1
    <3>2. QED
      BY <2>2, <3>1
  <2>5. v \in Seq(Int) /\ Len(v) = d /\ \A k \in 1..d : <<v[k]>> \in OfLength(Int, 1)
    <3>1. v \in Seq(Int) /\ Len(v) = d
      BY DEF OfLength
    <3>2. \A k \in 1..d : v[k] \in Int
      BY <3>1, ElementOfSeq
    <3>3. QED
      BY <3>1, <3>2, AloneLength DEF Alone
  <2>6. \A k \in 1..d : ContainsSimple(h, F[k], <<v[k]>>) <=> <<v[k]>> \in m[F[k]]
    BY <1>2, <2>2, <2>3, <2>4, <2>5
  <2>7. AreTuples(m[i], m, F, d)
    BY <2>1, ProductMeaning
  <2>8. v \in m[i] <=> \A k \in 1..d : <<v[k]>> \in m[F[k]]
    BY <2>7 DEF AreTuples
  <2>9. ContainsValue(h, i, v) <=> \A k \in 1..d : ContainsSimple(h, F[k], <<v[k]>>)
    BY <1>4, <2>1, <2>2 DEF ContainsValue, FactorsOf
  <2>10. QED
    BY <2>6, <2>8, <2>9
<1>5. QED
  BY <1>3, <1>4

(* What initialize() adds.                                                 *)
LEMMA FilteredFacts ==
    ASSUME NEW h, SetsShape(h), NEW i \in 1..Len(h), NEW a \in 1..Len(h), NEW inside \in BOOLEAN
    PROVE  /\ Filtered(h, i, a, inside) \in Seq(OfLength(Int, h[i].dim))
           /\ ToSet(Filtered(h, i, a, inside))
                 = {v \in ToSet(ItemsOf(h, i)) : ContainsValue(h, a, v) <=> inside}
           /\ Distinct(ItemsOf(h, i)) => Distinct(Filtered(h, i, a, inside))
<1> DEFINE items == ItemsOf(h, i)
           S == {n \in DOMAIN items : ContainsValue(h, a, items[n]) <=> inside}
           s == Filtered(h, i, a, inside)
<1>1. items \in Seq(OfLength(Int, h[i].dim))
  BY ItemsTyped
<1>2. s = Selected(items, S)
  BY DEF Filtered
<1> HIDE DEF items
<1>3. ToSet(items) = {items[n] : n \in DOMAIN items}
  BY DEF ToSet
<1>4. {items[n] : n \in S} = {v \in ToSet(items) : ContainsValue(h, a, v) <=> inside}
  BY <1>3
<1>5. S \in SUBSET DOMAIN items
  OBVIOUS
<1> HIDE DEF S, s
<1>6. s \in Seq(OfLength(Int, h[i].dim)) /\ ToSet(s) = {items[n] : n \in S}
  BY <1>1, <1>2, <1>5, SelectedFacts
<1>7. ASSUME Distinct(items) PROVE Distinct(s)
  <2>1. \A m, n \in S : items[m] = items[n] => m = n
    BY <1>5, <1>7 DEF Distinct
  <2>2. QED
    BY <1>1, <1>2, <1>5, <2>1, SelectedFacts
<1>8. QED
  BY <1>4, <1>6, <1>7 DEF s, items

LEMMA AddedTyped ==
    ASSUME NEW X, NEW data \in Seq(X), NEW items \in Seq(X)
    PROVE  Added(data, items) \in Seq(X)
<1> DEFINE S == {n \in DOMAIN items : /\ items[n] \notin ToSet(data)
                                      /\ \A m \in 1..(n - 1) : items[m] # items[n]}
<1>1. Added(data, items) = data \o Selected(items, S)
  BY DEF Added
<1>2. S \in SUBSET DOMAIN items
  OBVIOUS
<1> HIDE DEF S
<1>3. Selected(items, S) \in Seq(X)
  BY <1>2, SelectedFacts
<1>4. QED
  BY <1>1, <1>3, ToSetConcat

LEMMA FilledTyped ==
    ASSUME NEW h, SetsShape(h), NEW k \in 1..Len(h), IsCombined(h, k)
    PROVE  Filled(h, h[k]) \in Seq(OfLength(Int, h[k].dim))
<1> DEFINE l == h[k].l
           r == h[k].r
           T == Seq(OfLength(Int, h[k].dim))
           data == h[k].data
<1>1. /\ Len(h) \in Nat
      /\ \A j \in 1..Len(h) : h[j] \in SetType /\ Frame(h, j) /\ Contents(h, j)
  BY ShapeFacts
<1>2. /\ h[k].op \in CombiningOps /\ l \in 1..(k - 1) /\ r \in 1..(k - 1)
      /\ h[k].dim = h[l].dim /\ h[k].dim = h[r].dim
  BY <1>1, Kinds DEF Combination, Operands
<1>3. l \in 1..Len(h) /\ r \in 1..Len(h)
  BY <1>1, <1>2
<1>4. data \in T
  BY <1>1 DEF Contents
<1>5. ItemsOf(h, l) \in T /\ ItemsOf(h, r) \in T
  BY <1>2, <1>3, ItemsTyped
<1>6. \A inside \in BOOLEAN : Filtered(h, l, r, inside) \in T /\ Filtered(h, r, l, inside) \in T
  BY <1>2, <1>3, FilteredFacts
<1>7. \A a, b \in T : a \o b \in T
  BY ToSetConcat
<1>8. \A a, b \in T : Added(a, b) \in T
  BY AddedTyped
<1> SUFFICES Filled(h, h[k]) \in T
  OBVIOUS
<1> HIDE DEF T, data, l, r
<1>9. CASE h[k].op = "union"
  <2>1. Filled(h, h[k]) = Added(data \o ItemsOf(h, l), ItemsOf(h, r))
    BY <1>9 DEF Filled, l, r, data
  <2>2. data \o ItemsOf(h, l) \in T
    BY <1>4, <1>5, <1>7
  <2>3. QED
    BY <1>5, <1>8, <2>1, <2>2
<1>10. CASE h[k].op = "intersection"
  <2>1. Intersection(h, l, r) \in T
    BY <1>6 DEF Intersection
  <2>2. QED
    <3>1. Filled(h, h[k]) = data \o Intersection(h, l, r)
      BY <1>10 DEF Filled, l, r, data
    <3>2. QED
      BY <1>4, <1>7, <2>1, <3>1
<1>11. CASE h[k].op = "difference"
  <2>1. Difference(h, l, r) \in T
    BY <1>6 DEF Difference
  <2>2. QED
    <3>1. Filled(h, h[k]) = data \o Difference(h, l, r)
      BY <1>11 DEF Filled, l, r, data
    <3>2. QED
      BY <1>4, <1>7, <2>1, <3>1
<1>12. CASE h[k].op = "symdiff"
  <2>1. Difference(h, l, r) \in T /\ Difference(h, r, l) \in T
    BY <1>6 DEF Difference
  <2>2. QED
    <3>1. Filled(h, h[k]) = (data \o Difference(h, l, r)) \o Difference(h, r, l)
      BY <1>12 DEF Filled, l, r, data
    <3>2. data \o Difference(h, l, r) \in T
      BY <1>4, <1>7, <2>1
    <3>3. QED
      BY <1>7, <2>1, <3>1, <3>2
<1>13. QED
  BY <1>2, <1>9, <1>10, <1>11, <1>12 DEF CombiningOps

LEMMA FilledExact ==
    ASSUME NEW h, SetsShape(h), NEW k \in 1..Len(h), IsCombined(h, k), h[k].data = <<>>,
           Available(h, h[k].l), Available(h, h[k].r), k \notin AskedCombined(h),
           \A j \in 1..(k - 1) : ExactData(h, j)
    PROVE  Distinct(Filled(h, h[k])) /\ ToSet(Filled(h, h[k])) = Meaning(h)[k]
<1> DEFINE l == h[k].l
           r == h[k].r
           D == OfLength(Int, h[k].dim)
           m == Meaning(h)
           Asked(a) == ~(h[a].dim > 1 /\ IsCombined(h, a))
<1>1. /\ Len(h) \in Nat
      /\ \A j \in 1..Len(h) : h[j] \in SetType /\ Frame(h, j) /\ Contents(h, j)
  BY ShapeFacts
<1>2. /\ h[k].op \in CombiningOps /\ l \in 1..(k - 1) /\ r \in 1..(k - 1)
      /\ h[k].dim = h[l].dim /\ h[k].dim = h[r].dim
  BY <1>1, Kinds DEF Combination, Operands
<1>3. l \in 1..Len(h) /\ r \in 1..Len(h)
  BY <1>1, <1>2
<1>4. l \notin AskedCombined(h) /\ r \notin AskedCombined(h) /\ \A a \in Asks(h[k]) : Asked(a)
  BY NotAsked
<1>5. ASSUME NEW a \in {l, r}
      PROVE  /\ a \in 1..Len(h) /\ Available(h, a) /\ a \notin AskedCombined(h)
             /\ h[a].dim = h[k].dim /\ \A j \in 1..a : ExactData(h, j)
  <2>1. \A j \in 1..a : j \in 1..(k - 1)
    BY <1>1, <1>2
  <2>2. QED
    BY <1>2, <1>3, <1>4, <2>1
<1>6. ASSUME NEW a \in {l, r}
      PROVE  ItemsOf(h, a) \in Seq(D) /\ Distinct(ItemsOf(h, a)) /\ ToSet(ItemsOf(h, a)) = m[a]
  <2>1. /\ a \in 1..Len(h) /\ Available(h, a) /\ a \notin AskedCombined(h)
        /\ h[a].dim = h[k].dim /\ \A j \in 1..a : ExactData(h, j)
    BY <1>5
  <2>2. QED
    BY <2>1, ItemsTyped, ItemsExact
<1>7. ASSUME NEW a \in {l, r}, NEW b \in {l, r}, Asked(b), NEW inside \in BOOLEAN
      PROVE  /\ Filtered(h, a, b, inside) \in Seq(D) /\ Distinct(Filtered(h, a, b, inside))
             /\ ToSet(Filtered(h, a, b, inside)) = {v \in m[a] : v \in m[b] <=> inside}
  <2>1. /\ Filtered(h, a, b, inside) \in Seq(D) /\ Distinct(Filtered(h, a, b, inside))
        /\ ToSet(Filtered(h, a, b, inside)) = {v \in m[a] : ContainsValue(h, b, v) <=> inside}
    <3>1. /\ a \in 1..Len(h) /\ b \in 1..Len(h) /\ h[a].dim = h[k].dim
          /\ Distinct(ItemsOf(h, a)) /\ ToSet(ItemsOf(h, a)) = m[a]
      BY <1>5, <1>6
    <3>2. /\ Filtered(h, a, b, inside) \in Seq(OfLength(Int, h[a].dim))
          /\ ToSet(Filtered(h, a, b, inside))
                 = {v \in ToSet(ItemsOf(h, a)) : ContainsValue(h, b, v) <=> inside}
          /\ Distinct(ItemsOf(h, a)) => Distinct(Filtered(h, a, b, inside))
      BY <3>1, FilteredFacts
    <3> HIDE DEF m
    <3>3. QED
      BY <3>1, <3>2
  <2>2. m[a] \in SUBSET D
    BY <1>5, MeaningTyped
  <2>3. \A v \in D : ContainsValue(h, b, v) <=> v \in m[b]
    BY <1>5, <1>7, ContainsExact
  <2>4. QED
    BY <2>1, <2>2, <2>3
<1>8. m[k] = MeaningOf(h[k], m[l], m[r])
  BY MeaningRecursion
<1>9. \A s \in Seq(D) : <<>> \o s = s
  OBVIOUS
<1>10. <<>> \in Seq(D) /\ h[k].data = <<>>
  BY EmptySeq
<1> HIDE DEF l, r, D, m, Asked
<1>11. CASE h[k].op = "union"
  <2>1. Filled(h, h[k]) = Added(<<>> \o ItemsOf(h, l), ItemsOf(h, r))
    BY <1>10, <1>11 DEF Filled, l, r
  <2>2. Filled(h, h[k]) = Added(ItemsOf(h, l), ItemsOf(h, r))
    BY <1>6, <1>9, <2>1
  <2>3. /\ Distinct(Added(ItemsOf(h, l), ItemsOf(h, r)))
        /\ ToSet(Added(ItemsOf(h, l), ItemsOf(h, r))) = m[l] \cup m[r]
    BY <1>6, AddedFacts
  <2>4. m[k] = m[l] \cup m[r]
    BY <1>8, <1>11 DEF MeaningOf
  <2>5. QED
    BY <2>2, <2>3, <2>4 DEF m
<1>12. CASE h[k].op = "intersection"
  <2>1. Asked(l) /\ Asked(r)
    BY <1>4, <1>12 DEF Asks, l, r
  <2>2. Filled(h, h[k]) = <<>> \o Intersection(h, l, r)
    BY <1>10, <1>12 DEF Filled, l, r
  <2>3. /\ Intersection(h, l, r) \in Seq(D) /\ Distinct(Intersection(h, l, r))
        /\ ToSet(Intersection(h, l, r)) = m[l] \cap m[r]
    <3>1. /\ Filtered(h, l, r, TRUE) \in Seq(D) /\ Distinct(Filtered(h, l, r, TRUE))
          /\ ToSet(Filtered(h, l, r, TRUE)) = m[l] \cap m[r]
      BY <1>7, <2>1
    <3>2. /\ Filtered(h, r, l, TRUE) \in Seq(D) /\ Distinct(Filtered(h, r, l, TRUE))
          /\ ToSet(Filtered(h, r, l, TRUE)) = m[l] \cap m[r]
      BY <1>7, <2>1
    <3>3. QED
      BY <3>1, <3>2 DEF Intersection
  <2>4. m[k] = m[l] \cap m[r]
    BY <1>8, <1>12 DEF MeaningOf
  <2>5. QED
    BY <1>9, <2>2, <2>3, <2>4 DEF m
<1>13. CASE h[k].op = "difference"
  <2>1. Asked(r)
    BY <1>4, <1>13 DEF Asks, r
  <2>2. Filled(h, h[k]) = <<>> \o Difference(h, l, r)
    BY <1>10, <1>13 DEF Filled, l, r
  <2>3. /\ Difference(h, l, r) \in Seq(D) /\ Distinct(Difference(h, l, r))
        /\ ToSet(Difference(h, l, r)) = m[l] \ m[r]
    BY <1>7, <2>1 DEF Difference
  <2>4. m[k] = m[l] \ m[r]
    BY <1>8, <1>13 DEF MeaningOf
  <2>5. QED
    BY <1>9, <2>2, <2>3, <2>4 DEF m
<1>14. CASE h[k].op = "symdiff"
  <2>1. Asked(l) /\ Asked(r)
    BY <1>4, <1>14 DEF Asks, l, r
  <2>2. Filled(h, h[k]) = <<>> \o Difference(h, l, r) \o Difference(h, r, l)
    BY <1>10, <1>14 DEF Filled, l, r
  <2>3. /\ Difference(h, l, r) \in Seq(D) /\ Distinct(Difference(h, l, r))
        /\ ToSet(Difference(h, l, r)) = m[l] \ m[r]
    BY <1>7, <2>1 DEF Difference
  <2>4. /\ Difference(h, r, l) \in Seq(D) /\ Distinct(Difference(h, r, l))
        /\ ToSet(Difference(h, r, l)) = m[r] \ m[l]
    BY <1>7, <2>1 DEF Difference
  <2>5. Filled(h, h[k]) = Difference(h, l, r) \o Difference(h, r, l)
    BY <1>9, <2>2, <2>3
  <2>6. ToSet(Difference(h, l, r)) \cap ToSet(Difference(h, r, l)) = {}
    BY <2>3, <2>4
  <2>7. /\ Distinct(Difference(h, l, r) \o Difference(h, r, l))
        /\ ToSet(Difference(h, l, r) \o Difference(h, r, l)) = (m[l] \ m[r]) \cup (m[r] \ m[l])
    BY <2>3, <2>4, <2>6, ToSetConcat
  <2>8. m[k] = (m[l] \ m[r]) \cup (m[r] \ m[l])
    BY <1>8, <1>14 DEF MeaningOf
  <2>9. QED
    BY <2>5, <2>7, <2>8 DEF m
<1>15. QED
  BY <1>2, <1>11, <1>12, <1>13, <1>14 DEF CombiningOps

-----------------------------------------------------------------------------
(* The invariant: what was initialized was made of initialized sets, and   *)
(* holds what it should.                                                   *)
ExactAt(h, i) ==
    IsCombined(h, i) /\ h[i].init =>
        /\ Available(h, h[i].l) /\ Available(h, h[i].r)
        /\ i \notin AskedCombined(h) => Distinct(h[i].data) /\ ToSet(h[i].data) = Meaning(h)[i]

SetsInv(h) == SetsShape(h) /\ \A i \in 1..Len(h) : ExactAt(h, i)

LEMMA InvExactData ==
    ASSUME NEW h, SetsInv(h)
    PROVE  \A i \in 1..Len(h) : ExactData(h, i)
<1> SUFFICES ASSUME NEW i \in 1..Len(h), ~IsProduct(h, i), h[i].init, i \notin AskedCombined(h)
             PROVE  Distinct(h[i].data) /\ ToSet(h[i].data) = Meaning(h)[i]
  BY DEF ExactData
<1>1. SetsShape(h) /\ ExactAt(h, i)
  BY DEF SetsInv
<1>2. h[i].l = 0 \/ IsCombined(h, i)
  BY DEF IsCombined
<1>3. CASE h[i].l = 0
  BY <1>1, <1>3, ShapeFacts, GivenMeaning DEF Contents
<1>4. CASE IsCombined(h, i)
  BY <1>1, <1>4 DEF ExactAt
<1>5. QED
  BY <1>2, <1>3, <1>4

(* One step to another list of sets, with more places and more of them     *)
(* initialized: what was exact is.                                         *)
Grown(g, h) ==
    /\ SetsShape(g) /\ Len(h) <= Len(g) /\ SameFrame(g, h, Len(h))
    /\ \A j \in 1..Len(h) : h[j].init => g[j] = h[j]

LEMMA GrownFacts ==
    ASSUME NEW g, NEW h, SetsShape(h), Grown(g, h), NEW i \in 1..Len(h)
    PROVE  /\ Meaning(g)[i] = Meaning(h)[i]
           /\ i \notin AskedCombined(g) => i \notin AskedCombined(h)
           /\ Available(h, i) => Available(g, i)
<1>1. /\ Len(h) \in Nat /\ Len(g) \in Nat /\ Len(h) <= Len(g) /\ SetsShape(g)
      /\ \A k \in 1..Len(h) : h[k] \in SetType /\ Frame(h, k) /\ Contents(h, k)
  BY ShapeFacts DEF Grown
<1>2. SameFrame(g, h, Len(h)) /\ \A j \in 1..Len(h) : h[j].init => g[j] = h[j]
  BY DEF Grown
<1>3. SameGiven(g, h, Len(h))
  BY <1>1, <1>2 DEF SameGiven, Contents
<1>4. Meaning(g)[i] = Meaning(h)[i]
  BY <1>1, <1>2, <1>3, MeaningSame
<1>5. ASSUME i \notin AskedCombined(g) PROVE i \notin AskedCombined(h)
  <2>1. ASSUME NEW k \in 1..Len(h)
        PROVE  /\ h[k].l = 0 \/ (h[k].l \in 1..Len(h) /\ h[k].r \in 1..Len(h))
               /\ h[k].l = 0 => Asks(h[k]) = {}
    <3>1. CASE h[k].l = 0
      <4>1. h[k].op \in {"list", "vector", "range"}
        BY <1>1, <3>1, Kinds DEF Simple1, SimpleOps
      <4>2. QED
        BY <3>1, <4>1 DEF Asks
    <3>2. CASE h[k].l # 0
      <4>1. h[k].l \in 1..(k - 1) /\ h[k].r \in 1..(k - 1)
        BY <1>1, <3>2 DEF Frame, Simple1, Combination, Product, Operands
      <4>2. QED
        BY <1>1, <3>2, <4>1
    <3>3. QED
      BY <3>1, <3>2
  <2>2. QED
    BY <1>1, <1>2, <1>5, <2>1, AskedSame
<1>6. ASSUME Available(h, i) PROVE Available(g, i)
  <2>1. /\ IsProduct(g, i) <=> IsProduct(h, i)
        /\ FactorsOf(g, i) = FactorsOf(h, i) /\ g[i].dim = h[i].dim
    BY <1>2 DEF SameFrame, IsProduct, FactorsOf
  <2>2. CASE IsProduct(h, i)
    <3>1. \A k \in 1..h[i].dim : FactorsOf(h, i)[k] \in 1..Len(h) /\ h[FactorsOf(h, i)[k]].init
      BY <1>6, <2>2, ListsFacts DEF Available
    <3>2. QED
      BY <1>2, <2>1, <2>2, <3>1 DEF Available
  <2>3. CASE ~IsProduct(h, i)
    BY <1>2, <1>6, <2>1, <2>3 DEF Available
  <2>4. QED
    BY <2>2, <2>3
<1>7. QED
  BY <1>4, <1>5, <1>6

LEMMA GrownExact ==
    ASSUME NEW g, NEW h, SetsInv(h), Grown(g, h), NEW i \in 1..Len(h), g[i] = h[i]
    PROVE  ExactAt(g, i)
<1>1. SetsShape(h) /\ ExactAt(h, i)
  BY DEF SetsInv
<1>2. SUFFICES ASSUME IsCombined(g, i), g[i].init
      PROVE  /\ Available(g, g[i].l) /\ Available(g, g[i].r)
             /\ i \notin AskedCombined(g) => Distinct(g[i].data) /\ ToSet(g[i].data) = Meaning(g)[i]
  BY DEF ExactAt
<1>3. IsCombined(h, i) /\ h[i].init
  BY <1>2 DEF IsCombined, IsProduct
<1>4. h[i].l \in 1..Len(h) /\ h[i].r \in 1..Len(h)
  <2>1. Combination(h, i) /\ Len(h) \in Nat
    BY <1>1, <1>3, ShapeFacts, Kinds
  <2>2. h[i].l \in 1..(i - 1) /\ h[i].r \in 1..(i - 1)
    BY <2>1 DEF Combination, Operands
  <2>3. QED
    BY <2>1, <2>2
<1>5. Available(h, h[i].l) /\ Available(h, h[i].r)
  BY <1>1, <1>3 DEF ExactAt
<1>6. Available(g, h[i].l) /\ Available(g, h[i].r)
  BY <1>1, <1>4, <1>5, GrownFacts
<1>7. ASSUME i \notin AskedCombined(g)
      PROVE  Distinct(g[i].data) /\ ToSet(g[i].data) = Meaning(g)[i]
  <2>1. i \notin AskedCombined(h) /\ Meaning(g)[i] = Meaning(h)[i]
    BY <1>1, <1>7, GrownFacts
  <2>2. QED
    BY <1>1, <1>3, <2>1 DEF ExactAt
<1>8. QED
  BY <1>6, <1>7

(* Filling a set whose operands are filled.                                *)
LEMMA FillStep ==
    ASSUME NEW h, SetsInv(h), NEW k \in 1..Len(h), IsCombined(h, k), ~h[k].init,
           Available(h, h[k].l), Available(h, h[k].r)
    PROVE  LET g == FilledAt(h, k)
           IN  /\ SetsInv(g) /\ Grown(g, h) /\ Len(g) = Len(h)
               /\ g[k].init /\ \A j \in 1..Len(h) : j # k => g[j] = h[j]
<1> DEFINE g == FilledAt(h, k)
           new == [h[k] EXCEPT !.data = Filled(h, h[k]), !.init = TRUE]
<1>1. /\ SetsShape(h) /\ Len(h) \in Nat /\ h \in Seq(SetType) /\ DOMAIN h = 1..Len(h)
      /\ \A j \in 1..Len(h) : h[j] \in SetType /\ Frame(h, j) /\ Contents(h, j)
  BY ShapeFacts DEF SetsInv, SetsShape
<1>2. g = [h EXCEPT ![k] = new]
  BY <1>1 DEF FilledAt
<1>3. Filled(h, h[k]) \in Seq(OfLength(Int, h[k].dim))
  BY <1>1, FilledTyped
<1>4. /\ new.op = h[k].op /\ new.l = h[k].l /\ new.r = h[k].r /\ new.factors = h[k].factors
      /\ new.dim = h[k].dim /\ new.data = Filled(h, h[k]) /\ new.init = TRUE
  BY <1>1 DEF SetType
<1>5. new \in SetType
  <2>1. Filled(h, h[k]) \in Seq(Seq(Int))
    <3>1. OfLength(Int, h[k].dim) \subseteq Seq(Int)
      BY DEF OfLength
    <3>2. QED
      BY <1>3, <3>1
  <2>2. QED
    BY <1>1, <2>1 DEF SetType
<1> HIDE DEF new, g
<1>6. g \in Seq(SetType) /\ Len(g) = Len(h) /\ g[k] = new /\ \A j \in 1..Len(h) : j # k => g[j] = h[j]
  BY <1>1, <1>2, <1>5, ExceptSeq
<1>7. SameFrame(g, h, Len(h))
  BY <1>4, <1>6 DEF SameFrame
<1>8. SetsShape(g)
  <2> SUFFICES ASSUME NEW j \in 1..Len(h) PROVE Frame(g, j) /\ Contents(g, j)
    BY <1>6 DEF SetsShape
  <2>1. SameFrame(g, h, j) /\ j \in Nat /\ j > 0
    <3>1. \A q \in 1..j : q \in 1..Len(h)
      BY <1>1
    <3>2. QED
      BY <1>1, <1>7, <3>1 DEF SameFrame
  <2>2. Frame(g, j)
    BY <1>1, <2>1, FrameSame
  <2>3. CASE j = k
    <3>1. h[k].op # "range" /\ h[k].l # 0
      <4>1. Combination(h, k)
        BY <1>1, Kinds
      <4>2. QED
        BY <4>1 DEF Combination, CombiningOps, IsCombined
    <3>2. QED
      BY <1>3, <1>4, <1>6, <2>2, <2>3, <3>1 DEF Contents
  <2>4. CASE j # k
    <3>1. g[j] = h[j] /\ Contents(h, j)
      BY <1>1, <1>6, <2>4
    <3>2. QED
      BY <2>2, <3>1 DEF Contents, IsCombined, IsProduct
  <2>5. QED
    BY <2>3, <2>4
<1>9. Grown(g, h)
  BY <1>1, <1>6, <1>7, <1>8 DEF Grown
<1>10. ASSUME NEW j \in 1..Len(h) PROVE ExactAt(g, j)
  <2>1. CASE j # k
    BY <1>6, <1>9, <2>1, GrownExact
  <2>2. CASE j = k
    <3>1. h[k].l \in 1..Len(h) /\ h[k].r \in 1..Len(h)
      <4>1. Combination(h, k)
        BY <1>1, Kinds
      <4>2. h[k].l \in 1..(k - 1) /\ h[k].r \in 1..(k - 1)
        BY <4>1 DEF Combination, Operands
      <4>3. QED
        BY <1>1, <4>2
    <3>2. Available(g, h[k].l) /\ Available(g, h[k].r)
      BY <1>1, <1>9, <3>1, GrownFacts
    <3>3. ASSUME k \notin AskedCombined(g)
          PROVE  Distinct(g[k].data) /\ ToSet(g[k].data) = Meaning(g)[k]
      <4>1. k \notin AskedCombined(h) /\ Meaning(g)[k] = Meaning(h)[k]
        BY <1>1, <1>9, <3>3, GrownFacts
      <4>2. \A q \in 1..(k - 1) : ExactData(h, q)
        <5>1. \A q \in 1..(k - 1) : q \in 1..Len(h)
          BY <1>1
        <5>2. QED
          BY <5>1, InvExactData
      <4>3. h[k].data = <<>>
        BY <1>1 DEF Contents
      <4>4. Distinct(Filled(h, h[k])) /\ ToSet(Filled(h, h[k])) = Meaning(h)[k]
        BY <1>1, <4>1, <4>2, <4>3, FilledExact
      <4>5. QED
        BY <1>4, <1>6, <4>1, <4>4
    <3>4. QED
      BY <1>4, <1>6, <2>2, <3>2, <3>3 DEF ExactAt
  <2>3. QED
    BY <2>1, <2>2
<1>11. SetsInv(g)
  BY <1>6, <1>8, <1>10 DEF SetsInv
<1>12. QED
  BY <1>4, <1>6, <1>9, <1>11 DEF g

(* What initialize() goes down to.                                         *)
LEMMA VisitedFacts ==
    ASSUME NEW h, SetsShape(h), NEW i \in 1..Len(h)
    PROVE  /\ i \in Visited(h, i) /\ Visited(h, i) \subseteq 1..i
           /\ \A k \in Visited(h, i) : Below(h, k) \subseteq Visited(h, i)
<1>1. /\ Len(h) \in Nat /\ i \in 1..i
      /\ \A j \in 1..Len(h) : h[j] \in SetType /\ Frame(h, j)
  BY ShapeFacts
<1>2. ASSUME NEW k \in 1..i PROVE Below(h, k) \subseteq 1..(k - 1)
  <2>1. k \in 1..Len(h)
    BY <1>1
  <2>2. CASE IsProduct(h, k)
    <3>1. Below(h, k) = ToSet(h[k].factors)
      BY <2>2 DEF Below, IsCombined
    <3>2. \A q \in DOMAIN h[k].factors : h[k].factors[q] \in 1..(k - 1)
      BY <2>1, <2>2, ListsFacts DEF FactorsOf
    <3>3. QED
      BY <3>1, <3>2 DEF ToSet
  <2>3. CASE IsCombined(h, k)
    <3>1. Combination(h, k)
      BY <1>1, <2>1, <2>3, Kinds
    <3>2. h[k].l \in 1..(k - 1) /\ h[k].r \in 1..(k - 1)
      BY <3>1 DEF Combination, Operands
    <3>3. QED
      BY <2>3, <3>2 DEF Below, IsCombined
  <2>4. QED
    BY <2>2, <2>3 DEF Below
<1>3. ASSUME NEW k \in Visited(h, i), NEW j \in Below(h, k) PROVE j \in Visited(h, i)
  <2>1. k \in 1..i
    BY DEF Visited
  <2>2. j \in 1..(k - 1)
    BY <1>2, <2>1
  <2>3. j \in 1..i
    BY <1>1, <2>1, <2>2
  <2>4. ASSUME NEW C \in SUBSET (1..i), i \in C, \A c \in C : Below(h, c) \subseteq C PROVE j \in C
    BY <2>4 DEF Visited
  <2>5. QED
    BY <2>3, <2>4 DEF Visited
<1>4. i \in Visited(h, i)
  BY <1>1 DEF Visited
<1>5. QED
  BY <1>3, <1>4 DEF Visited

(* A set is available when what it goes down to is initialized.            *)
LEMMA VisitedAvailable ==
    ASSUME NEW h, SetsShape(h), NEW i \in 1..Len(h), NEW g, SameFrame(g, h, Len(h)),
           NEW k \in Visited(h, i), NEW n \in Nat, k <= n,
           \A j \in Visited(h, i) : j <= n /\ ~IsProduct(h, j) => g[j].init
    PROVE  Available(g, k)
<1>1. k \in 1..i /\ i \in Nat /\ Len(h) \in Nat /\ k \in 1..Len(h)
  BY VisitedFacts, ShapeFacts
<1>2. /\ IsProduct(g, k) <=> IsProduct(h, k)
      /\ FactorsOf(g, k) = FactorsOf(h, k) /\ g[k].dim = h[k].dim
  BY <1>1 DEF SameFrame, IsProduct, FactorsOf
<1>3. CASE ~IsProduct(h, k)
  BY <1>2, <1>3 DEF Available
<1>4. CASE IsProduct(h, k)
  <2> SUFFICES ASSUME NEW q \in 1..h[k].dim PROVE g[FactorsOf(h, k)[q]].init
    BY <1>2, <1>4 DEF Available
  <2>1. /\ FactorsOf(h, k)[q] \in 1..(k - 1) /\ ~IsProduct(h, FactorsOf(h, k)[q])
        /\ q \in DOMAIN h[k].factors
    BY <1>1, <1>4, ListsFacts
  <2>2. FactorsOf(h, k)[q] \in Below(h, k)
    BY <1>4, <2>1 DEF Below, FactorsOf, IsCombined, ToSet
  <2>3. FactorsOf(h, k)[q] \in Visited(h, i)
    BY <2>2, VisitedFacts
  <2>4. \A a \in 1..(k - 1) : a <= n
    BY <1>1
  <2>5. FactorsOf(h, k)[q] <= n
    BY <2>1, <2>4
  <2>6. QED
    BY <2>1, <2>3, <2>5
<1>5. QED
  BY <1>3, <1>4

InitializedUpto(h, i, n, s) ==
    s = [k \in 0..n |-> IF k = 0 THEN h
                        ELSE IF k \in Needed(h, i) THEN FilledAt(s[k - 1], k) ELSE s[k - 1]]

LEMMA InitializedRecursion ==
    ASSUME NEW h, NEW i \in Nat
    PROVE  \E s : /\ Initialized(h, i) = s[i]
                  /\ s[0] = h
                  /\ \A k \in 1..i :
                        s[k] = IF k \in Needed(h, i) THEN FilledAt(s[k - 1], k) ELSE s[k - 1]
<1> DEFINE F(x, k) == IF k \in Needed(h, i) THEN FilledAt(x, k) ELSE x
           N == {n \in Nat : \E s : InitializedUpto(h, i, n, s)}
           c == CHOOSE s : InitializedUpto(h, i, i, s)
<1>0. \A n, s : InitializedUpto(h, i, n, s) <=> s = [k \in 0..n |-> IF k = 0 THEN h ELSE F(s[k - 1], k)]
  BY DEF InitializedUpto
<1>1. 0 \in N
  <2> DEFINE s == [j \in 0..0 |-> h]
  <2>1. s = [k \in 0..0 |-> IF k = 0 THEN h ELSE F(s[k - 1], k)]
    OBVIOUS
  <2> HIDE DEF s
  <2>2. InitializedUpto(h, i, 0, s)
    BY <1>0, <2>1
  <2>3. QED
    BY <2>2
<1> HIDE DEF F
<1>2. ASSUME NEW k \in N PROVE k + 1 \in N
  <2>1. k \in Nat /\ k + 1 \in Nat
    OBVIOUS
  <2>2. PICK s : InitializedUpto(h, i, k, s)
    OBVIOUS
  <2>3. s[0] = h /\ \A j \in 1..k : s[j] = F(s[j - 1], j)
    <3>1. s = [d \in 0..k |-> IF d = 0 THEN h ELSE F(s[d - 1], d)]
      BY <1>0, <2>2
    <3>2. \A d \in 0..k : s[d] = IF d = 0 THEN h ELSE F(s[d - 1], d)
      BY <3>1
    <3>3. 0 \in 0..k /\ \A j \in 1..k : j \in 0..k /\ j # 0
      OBVIOUS
    <3>4. QED
      BY <3>2, <3>3
  <2> DEFINE t == [j \in 0..(k + 1) |-> IF j <= k THEN s[j] ELSE F(s[k], k + 1)]
  <2>4. ASSUME NEW j \in 0..(k + 1)
        PROVE  t[j] = IF j = 0 THEN h ELSE F(t[j - 1], j)
    <3>1. CASE j = 0
      BY <2>1, <2>3, <3>1
    <3>2. CASE j \in 1..k
      <4>1. j - 1 \in 0..(k + 1) /\ j - 1 <= k /\ j <= k /\ j # 0
        BY <3>2
      <4>2. t[j] = s[j] /\ t[j - 1] = s[j - 1]
        BY <4>1
      <4>3. QED
        BY <2>3, <3>2, <4>1, <4>2
    <3>3. CASE j = k + 1
      <4>1. k \in 0..(k + 1) /\ k <= k /\ ~(k + 1 <= k) /\ (k + 1) - 1 = k /\ k + 1 # 0
            /\ k + 1 \in 0..(k + 1)
        BY <2>1
      <4>2. t[k] = s[k] /\ t[k + 1] = F(s[k], k + 1)
        BY <4>1
      <4>3. QED
        BY <3>3, <4>1, <4>2
    <3>4. QED
      BY <2>1, <3>1, <3>2, <3>3
  <2>5. t = [j \in 0..(k + 1) |-> IF j = 0 THEN h ELSE F(t[j - 1], j)]
    <3> DEFINE u == [j \in 0..(k + 1) |-> IF j = 0 THEN h ELSE F(t[j - 1], j)]
    <3>1. \A j \in 0..(k + 1) : t[j] = u[j]
      BY <2>4
    <3>2. QED
      BY <3>1
  <2> HIDE DEF t
  <2>6. InitializedUpto(h, i, k + 1, t)
    BY <1>0, <2>5
  <2>7. QED
    BY <2>1, <2>6
<1>3. N = Nat
  <2> HIDE DEF N
  <2>1. N \in SUBSET Nat
    BY DEF N
  <2>2. QED
    BY <1>1, <1>2, <2>1, NumbersByInduction
<1>4. InitializedUpto(h, i, i, c)
  <2>1. \E s : InitializedUpto(h, i, i, s)
    BY <1>3
  <2>2. QED
    BY <2>1
<1>5. Initialized(h, i) = c[i]
  BY DEF Initialized, InitializedUpto
<1> HIDE DEF c
<1>6. \A d \in 0..i : c[d] = IF d = 0 THEN h ELSE F(c[d - 1], d)
  <2>1. c = [d \in 0..i |-> IF d = 0 THEN h ELSE F(c[d - 1], d)]
    BY <1>0, <1>4
  <2>2. QED
    BY <2>1
<1>7. 0 \in 0..i /\ \A d \in 1..i : d \in 0..i /\ d # 0
  OBVIOUS
<1>8. \A d \in 1..i : c[d] = F(c[d - 1], d)
  BY <1>6, <1>7
<1>9. QED
  BY <1>5, <1>6, <1>7, <1>8 DEF F

(* The sets as they are when those up to place n have been initialized.    *)
Reached(h, i, n, g) ==
    /\ SetsInv(g) /\ Grown(g, h) /\ Len(g) = Len(h)
    /\ \A j \in 1..Len(h) : j \notin Needed(h, i) \/ j > n => g[j] = h[j]
    /\ \A j \in Needed(h, i) : j <= n => g[j].init

LEMMA InitializedStep ==
    ASSUME NEW h, SetsInv(h), NEW i \in 1..Len(h), NEW n \in Nat, n + 1 \in Needed(h, i),
           NEW g, Reached(h, i, n, g)
    PROVE  Reached(h, i, n + 1, FilledAt(g, n + 1))
<1> DEFINE k == n + 1
           t == FilledAt(g, k)
<1>1. /\ SetsShape(h) /\ Len(h) \in Nat
      /\ \A j \in 1..Len(h) : h[j] \in SetType /\ Frame(h, j) /\ Contents(h, j)
  BY ShapeFacts DEF SetsInv
<1>2. k \in Visited(h, i) /\ IsCombined(h, k) /\ ~h[k].init /\ k \in 1..Len(h) /\ k > n
  <2>1. k \in Visited(h, i) /\ IsCombined(h, k) /\ ~h[k].init
    BY DEF Needed
  <2>2. k \in 1..i
    BY <1>1, <2>1, VisitedFacts
  <2>3. QED
    BY <1>1, <2>1, <2>2
<1>3. /\ SetsInv(g) /\ SetsShape(g) /\ Len(g) = Len(h) /\ g[k] = h[k]
      /\ SameFrame(g, h, Len(h)) /\ \A j \in 1..Len(h) : h[j].init => g[j] = h[j]
  BY <1>2 DEF Reached, Grown, SetsInv
<1>4. ASSUME NEW j \in Visited(h, i), j <= n, ~IsProduct(h, j) PROVE g[j].init
  <2>1. j \in 1..Len(h)
    <3>1. j \in 1..i
      BY <1>1, VisitedFacts
    <3>2. QED
      BY <1>1, <3>1
  <2>2. CASE IsCombined(h, j) /\ ~h[j].init
    <3>1. j \in Needed(h, i)
      BY <2>2 DEF Needed
    <3>2. QED
      BY <1>4, <3>1 DEF Reached
  <2>3. CASE h[j].init
    BY <1>3, <2>1, <2>3
  <2>4. CASE h[j].l = 0
    <3>1. h[j].init
      BY <1>1, <2>1, <2>4 DEF Contents
    <3>2. QED
      BY <1>3, <2>1, <3>1
  <2>5. QED
    BY <1>4, <2>2, <2>3, <2>4 DEF IsCombined
<1>5. Available(g, h[k].l) /\ Available(g, h[k].r)
  <2>1. h[k].l \in 1..(k - 1) /\ h[k].r \in 1..(k - 1)
    <3>1. Combination(h, k)
      BY <1>1, <1>2, Kinds
    <3>2. QED
      BY <3>1 DEF Combination, Operands
  <2>2. Below(h, k) = {h[k].l, h[k].r}
    <3>1. ASSUME NEW q, IsCombined(h, q), ~h[q].init PROVE Below(h, q) = {h[q].l, h[q].r}
      BY ONLY <3>1 DEF Below, IsCombined
    <3>2. QED
      BY <1>2, <3>1
  <2>3. h[k].l \in Visited(h, i) /\ h[k].r \in Visited(h, i)
    BY <1>1, <1>2, <2>2, VisitedFacts
  <2>4. h[k].l <= n /\ h[k].r <= n
    BY <2>1
  <2>5. QED
    BY <1>1, <1>3, <1>4, <2>3, <2>4, VisitedAvailable
<1>6. IsCombined(g, k) /\ ~g[k].init
  BY <1>2, <1>3 DEF IsCombined, IsProduct
<1>7. /\ SetsInv(t) /\ Grown(t, g) /\ Len(t) = Len(g)
      /\ t[k].init /\ \A j \in 1..Len(g) : j # k => t[j] = g[j]
  BY <1>2, <1>3, <1>5, <1>6, FillStep
<1> HIDE DEF t
<1>8. Grown(t, h)
  <2>1. SameFrame(t, h, Len(h))
    BY <1>3, <1>7 DEF SameFrame, Grown
  <2>2. \A j \in 1..Len(h) : h[j].init => t[j] = h[j]
    BY <1>3, <1>7 DEF Grown
  <2>3. QED
    BY <1>1, <1>3, <1>7, <2>1, <2>2 DEF Grown
<1>9. ASSUME NEW j \in 1..Len(h), j \notin Needed(h, i) \/ j > k PROVE t[j] = h[j]
  <2>1. j # k /\ (j \notin Needed(h, i) \/ j > n)
    BY <1>1, <1>9
  <2>2. QED
    BY <1>3, <1>7, <2>1 DEF Reached
<1>10. ASSUME NEW j \in Needed(h, i), j <= k PROVE t[j].init
  <2>1. j \in 1..Len(h)
    <3>1. j \in 1..i
      BY <1>1, VisitedFacts DEF Needed
    <3>2. QED
      BY <1>1, <3>1
  <2>2. CASE j = k
    BY <1>7, <2>2
  <2>3. CASE j # k
    <3>1. j <= n
      BY <1>1, <1>10, <2>1, <2>3
    <3>2. QED
      BY <1>3, <1>7, <2>1, <2>3, <3>1 DEF Reached
  <2>4. QED
    BY <2>2, <2>3
<1>11. QED
  BY <1>3, <1>7, <1>8, <1>9, <1>10 DEF Reached, t

(* initialize() keeps the invariant and touches only what needs it.        *)
LEMMA InitializedInv ==
    ASSUME NEW h, SetsInv(h), NEW i \in 1..Len(h)
    PROVE  Reached(h, i, i, Initialized(h, i))
<1>1. SetsShape(h) /\ Len(h) \in Nat /\ i \in Nat
  BY ShapeFacts DEF SetsInv
<1>2. PICK s : /\ Initialized(h, i) = s[i]
               /\ s[0] = h
               /\ \A k \in 1..i :
                     s[k] = IF k \in Needed(h, i) THEN FilledAt(s[k - 1], k) ELSE s[k - 1]
  BY <1>1, InitializedRecursion
<1> DEFINE N == {n \in Nat : n <= i => Reached(h, i, n, s[n])}
<1>3. 0 \in N
  <2>1. Grown(h, h)
    BY <1>1 DEF Grown, SameFrame
  <2>2. \A j \in Needed(h, i) : ~(j <= 0)
    BY <1>1, VisitedFacts DEF Needed
  <2>3. QED
    BY <1>2, <2>1, <2>2 DEF Reached
<1>4. ASSUME NEW n \in N PROVE n + 1 \in N
  <2> SUFFICES ASSUME n + 1 <= i PROVE Reached(h, i, n + 1, s[n + 1])
    OBVIOUS
  <2>1. n \in Nat /\ n <= i /\ n + 1 \in 1..i /\ (n + 1) - 1 = n
    BY <1>1
  <2>2. Reached(h, i, n, s[n])
    BY <2>1
  <2>3. s[n + 1] = IF n + 1 \in Needed(h, i) THEN FilledAt(s[n], n + 1) ELSE s[n]
    BY <1>2, <2>1
  <2>4. CASE n + 1 \in Needed(h, i)
    BY <2>1, <2>2, <2>3, <2>4, InitializedStep
  <2>5. CASE n + 1 \notin Needed(h, i)
    <3>1. \A j \in 1..Len(h) : j \notin Needed(h, i) \/ j > n + 1 => j \notin Needed(h, i) \/ j > n
      BY <1>1, <2>1
    <3>2. \A j \in Needed(h, i) : j <= n + 1 => j <= n
      <4>1. \A j \in Needed(h, i) : j \in 1..i
        BY <1>1, VisitedFacts DEF Needed
      <4>2. QED
        BY <1>1, <2>1, <2>5, <4>1
    <3>3. QED
      BY <2>2, <2>3, <2>5, <3>1, <3>2 DEF Reached
  <2>6. QED
    BY <2>4, <2>5
<1>5. N = Nat
  <2> HIDE DEF N
  <2>1. N \in SUBSET Nat
    BY DEF N
  <2>2. QED
    BY <1>3, <1>4, <2>1, NumbersByInduction
<1>6. i \in N /\ i <= i
  <2> HIDE DEF N
  <2>1. QED
    BY <1>1, <1>5
<1>7. QED
  BY <1>2, <1>6

-----------------------------------------------------------------------------
(* A set that is derived.                                                  *)
SoundAt(h, i) == h[i] \in SetType /\ Frame(h, i) /\ Contents(h, i)

(* Factors of a set that can be part of a product.                         *)
LEMMA PartFactors ==
    ASSUME NEW h, NEW q \in Nat \ {0}, SoundAt(h, q), IsProduct(h, q) \/ h[q].dim = 1
    PROVE  /\ FactorsOf(h, q) \in Seq(1..q) /\ Len(FactorsOf(h, q)) = h[q].dim
           /\ \A k \in 1..h[q].dim : /\ FactorsOf(h, q)[k] \in 1..q
                                     /\ ~IsProduct(h, FactorsOf(h, q)[k])
                                     /\ h[FactorsOf(h, q)[k]].dim = 1
<1>1. CASE IsProduct(h, q)
  <2>1. Factored(h, q)
    BY <1>1, Kinds DEF Product, SoundAt
  <2>2. QED
    BY <2>1, ElementOfSeq DEF Factored
<1>2. CASE ~IsProduct(h, q)
  <2>1. FactorsOf(h, q) = <<q>> /\ h[q].dim = 1 /\ q \in 1..q
    BY <1>2 DEF FactorsOf
  <2>2. <<q>> \in Seq(1..q) /\ Len(<<q>>) = 1 /\ <<q>>[1] = q
    BY <2>1
  <2>3. QED
    BY <1>2, <2>1, <2>2
<1>3. QED
  BY <1>1, <1>2

LEMMA DerivedSound ==
    ASSUME NEW h, NEW n \in Nat, NEW l \in 1..n, NEW r \in 1..n, SoundAt(h, l), SoundAt(h, r),
           NEW op \in CombiningOps \cup {"product"}, Legal(h, op, l, r),
           NEW g, SameFrame(g, h, n), g[n + 1] = Derived(h, op, l, r)
    PROVE  SoundAt(g, n + 1)
<1> DEFINE d == Derived(h, op, l, r)
<1>1. /\ h[l] \in SetType /\ h[r] \in SetType /\ l \in Nat \ {0} /\ r \in Nat \ {0}
      /\ l \in 1..((n + 1) - 1) /\ r \in 1..((n + 1) - 1) /\ n + 1 \in Nat
  BY DEF SoundAt
<1>2. /\ d.op = op /\ d.l = l /\ d.r = r /\ d.data = <<>>
      /\ d.init = (op = "product" /\ h[l].init /\ h[r].init)
      /\ d.factors = IF op = "product" THEN FactorsOf(h, l) \o FactorsOf(h, r) ELSE <<>>
      /\ d.dim = IF op = "product" THEN h[l].dim + h[r].dim ELSE h[l].dim
  BY DEF Derived
<1>3. ASSUME NEW q \in 1..n
      PROVE  /\ g[q].dim = h[q].dim /\ (IsProduct(g, q) <=> IsProduct(h, q))
             /\ FactorsOf(g, q) = FactorsOf(h, q)
  BY DEF SameFrame, IsProduct, FactorsOf
<1>4. h[l].dim \in Nat \ {0} /\ h[r].dim \in Nat \ {0}
  BY <1>1 DEF SetType
<1>5. d \in SetType
  <2>1. d.factors \in Seq(Int)
    <3>1. CASE op = "product"
      <4>1. FactorsOf(h, l) \in Seq(Int) /\ FactorsOf(h, r) \in Seq(Int)
        BY <1>1 DEF FactorsOf, SetType
      <4>2. FactorsOf(h, l) \o FactorsOf(h, r) \in Seq(Int)
        BY <4>1, ConcatProperties
      <4>3. QED
        BY <1>2, <3>1, <4>2
    <3>2. CASE op # "product"
      BY <1>2, <3>2
    <3>3. QED
      BY <3>1, <3>2
  <2>2. d.dim \in Nat \ {0} /\ d.data \in Seq(Seq(Int)) /\ d.init \in BOOLEAN
    BY <1>2, <1>4
  <2>3. op \in SimpleOps \cup CombiningOps \cup {"product"}
    OBVIOUS
  <2>4. d = [op |-> d.op, l |-> d.l, r |-> d.r, data |-> d.data, init |-> d.init,
             factors |-> d.factors, dim |-> d.dim]
    BY DEF Derived
  <2> HIDE DEF d
  <2>5. QED
    BY <1>1, <1>2, <2>1, <2>2, <2>3, <2>4 DEF SetType
<1> HIDE DEF d
<1>6. g[n + 1] = d
  BY DEF d
<1>7. Contents(g, n + 1)
  <2>1. g[n + 1].data \in Seq(OfLength(Int, g[n + 1].dim))
    <3>1. \A X : <<>> \in Seq(X)
      OBVIOUS
    <3>2. QED
      BY <1>2, <1>6, <3>1
  <2>2. g[n + 1].l # 0 /\ g[n + 1].op # "range"
    BY <1>1, <1>2, <1>6 DEF CombiningOps
  <2>3. QED
    BY <1>2, <1>6, <2>1, <2>2 DEF Contents
<1>8. Frame(g, n + 1)
  <2>1. CASE op \in CombiningOps
    <3>1. op # "product"
      BY <2>1 DEF CombiningOps
    <3>2. h[l].dim = h[r].dim
      BY <3>1 DEF Legal
    <3>3. Combination(g, n + 1)
      BY <1>1, <1>2, <1>3, <1>6, <2>1, <3>1, <3>2 DEF Combination, Operands
    <3>4. QED
      BY <3>3 DEF Frame
  <2>2. CASE op = "product"
    <3> DEFINE a == FactorsOf(h, l)
               b == FactorsOf(h, r)
               f == a \o b
               dl == h[l].dim
               dr == h[r].dim
    <3>1. (IsProduct(h, l) \/ h[l].dim = 1) /\ (IsProduct(h, r) \/ h[r].dim = 1)
      BY <2>2 DEF Legal
    <3>2. /\ a \in Seq(1..l) /\ Len(a) = dl
          /\ \A k \in 1..dl : a[k] \in 1..l /\ ~IsProduct(h, a[k]) /\ h[a[k]].dim = 1
          /\ b \in Seq(1..r) /\ Len(b) = dr
          /\ \A k \in 1..dr : b[k] \in 1..r /\ ~IsProduct(h, b[k]) /\ h[b[k]].dim = 1
      BY <1>1, <3>1, PartFactors
    <3>3. dl \in Nat /\ dr \in Nat /\ 1..l \subseteq 1..n /\ 1..r \subseteq 1..n
      BY <1>4
    <3> HIDE DEF a, b, dl, dr
    <3>4. a \in Seq(1..n) /\ b \in Seq(1..n)
      BY <3>2, <3>3
    <3>5. /\ f \in Seq(1..n) /\ Len(f) = dl + dr
          /\ \A k \in 1..(dl + dr) : f[k] = IF k <= dl THEN a[k] ELSE b[k - dl]
      BY <3>2, <3>4, ConcatProperties
    <3> HIDE DEF f
    <3>6. \A k \in 1..(dl + dr) : ~IsProduct(h, f[k]) /\ h[f[k]].dim = 1 /\ f[k] \in 1..n
      <4> SUFFICES ASSUME NEW k \in 1..(dl + dr)
                   PROVE  ~IsProduct(h, f[k]) /\ h[f[k]].dim = 1 /\ f[k] \in 1..n
        OBVIOUS
      <4>1. CASE k <= dl
        <5>1. k \in 1..dl
          BY <3>3, <4>1
        <5>2. QED
          BY <3>2, <3>3, <3>5, <4>1, <5>1
      <4>2. CASE ~(k <= dl)
        <5>1. k - dl \in 1..dr
          BY <3>3, <4>2
        <5>2. QED
          BY <3>2, <3>3, <3>5, <4>2, <5>1
      <4>3. QED
        BY <4>1, <4>2
    <3>7. FactorsOf(g, n + 1) = f /\ g[n + 1].factors = f /\ g[n + 1].dim = dl + dr
          /\ IsProduct(g, n + 1)
      BY <1>2, <1>6, <2>2 DEF FactorsOf, IsProduct, f, a, b, dl, dr
    <3>8. f \in Seq(1..((n + 1) - 1)) /\ f \in Seq(1..(n + 1))
      <4>1. (n + 1) - 1 = n /\ 1..n \subseteq 1..(n + 1)
        OBVIOUS
      <4>2. QED
        BY <3>5, <4>1
    <3>9. Factored(g, n + 1)
      BY <1>3, <3>5, <3>6, <3>7, <3>8 DEF Factored
    <3>10. f = FactorsOf(g, l) \o FactorsOf(g, r) /\ g[l].dim = dl /\ g[r].dim = dr
           /\ (IsProduct(g, l) \/ g[l].dim = 1) /\ (IsProduct(g, r) \/ g[r].dim = 1)
      BY <1>3, <3>1 DEF f, a, b, dl, dr
    <3>11. Product(g, n + 1)
      BY <1>1, <1>2, <1>6, <2>2, <3>7, <3>8, <3>9, <3>10 DEF Product, Operands
    <3>12. QED
      BY <3>11 DEF Frame
  <2>3. QED
    BY <2>1, <2>2
<1>9. QED
  BY <1>5, <1>6, <1>7, <1>8 DEF SoundAt

WithDerived(g, h, op, l, r) == g = Append(h, Derived(h, op, l, r))

LEMMA AppendInv ==
    ASSUME NEW h, SetsInv(h), NEW l \in 1..Len(h), NEW r \in 1..Len(h),
           NEW op \in CombiningOps \cup {"product"}, Legal(h, op, l, r),
           NEW g, WithDerived(g, h, op, l, r)
    PROVE  /\ SetsInv(g) /\ Len(g) = Len(h) + 1 /\ \A j \in 1..Len(h) : g[j] = h[j]
<1> DEFINE n == Len(h)
           d == Derived(h, op, l, r)
<1>1. /\ SetsShape(h) /\ n \in Nat /\ h \in Seq(SetType)
      /\ \A j \in 1..n : h[j] \in SetType /\ Frame(h, j) /\ Contents(h, j)
  BY ShapeFacts DEF SetsInv, SetsShape
<1> HIDE DEF d
<1>2. Len(g) = n + 1 /\ g[n + 1] = d /\ \A j \in 1..n : g[j] = h[j]
  <2>1. g = Append(h, d)
    BY DEF d, WithDerived
  <2>2. QED
    BY <1>1, <2>1
<1>3. SameFrame(g, h, n)
  BY <1>2 DEF SameFrame
<1>4. SoundAt(g, n + 1)
  <2>1. SoundAt(h, l) /\ SoundAt(h, r)
    BY <1>1 DEF SoundAt
  <2>2. QED
    BY <1>1, <1>2, <1>3, <2>1, DerivedSound DEF d
<1>5. g \in Seq(SetType)
  <2>1. d \in SetType
    BY <1>2, <1>4 DEF SoundAt
  <2>2. g = Append(h, d)
    BY DEF d, WithDerived
  <2>3. QED
    BY <1>1, <2>1, <2>2
<1>6. SetsShape(g)
  <2> SUFFICES ASSUME NEW j \in 1..(n + 1) PROVE Frame(g, j) /\ Contents(g, j)
    BY <1>2, <1>5 DEF SetsShape
  <2>1. CASE j = n + 1
    BY <1>4, <2>1 DEF SoundAt
  <2>2. CASE j # n + 1
    <3>1. j \in 1..n /\ j \in Nat /\ j > 0 /\ \A q \in 1..j : q \in 1..n
      BY <1>1, <2>2
    <3>2. SameFrame(g, h, j)
      BY <1>3, <3>1 DEF SameFrame
    <3>3. Frame(g, j)
      BY <1>1, <3>1, <3>2, FrameSame
    <3>4. g[j] = h[j] /\ Contents(h, j)
      BY <1>1, <1>2, <3>1
    <3>5. QED
      BY <3>3, <3>4 DEF Contents, IsCombined, IsProduct
  <2>3. QED
    BY <2>1, <2>2
<1>7. Grown(g, h)
  BY <1>1, <1>2, <1>3, <1>6 DEF Grown
<1>8. ASSUME NEW j \in 1..(n + 1) PROVE ExactAt(g, j)
  <2>1. CASE j = n + 1
    <3>1. IsCombined(g, j) => ~g[j].init
      <4>1. d.op = op /\ (d.init <=> op = "product" /\ h[l].init /\ h[r].init)
        BY DEF d, Derived
      <4>2. g[j] = d
        BY <1>2, <2>1
      <4>3. QED
        BY <4>1, <4>2 DEF IsCombined, IsProduct
    <3>2. QED
      BY <3>1 DEF ExactAt
  <2>2. CASE j # n + 1
    <3>1. j \in 1..n
      BY <1>1, <2>2
    <3>2. QED
      BY <1>2, <1>7, <3>1, GrownExact
  <2>3. QED
    BY <2>1, <2>2
<1>9. QED
  BY <1>2, <1>6, <1>8 DEF SetsInv

-----------------------------------------------------------------------------
(* The given sets.                                                         *)
LEMMA NumElementsFacts ==
    ASSUME NEW a \in Int, NEW b \in Int, NEW s \in Int, a < b, s > 0
    PROVE  /\ NumElements(a, b, s) \in Nat
           /\ \A c \in Nat : c < NumElements(a, b, s) <=> a + c * s <= b
           /\ \A c, e \in Nat : s * c = s * e => c = e
           /\ \A c \in Nat : c * s = s * c /\ c <= c * s
<1>1. /\ (b - a) \div s \in Int
      /\ s * ((b - a) \div s) <= b - a /\ b - a < s * ((b - a) \div s) + s
  OBVIOUS
<1> DEFINE q == (b - a) \div s
<1>2. NumElements(a, b, s) = q + 1
  BY DEF NumElements
<1> HIDE DEF q
<1>3. q \in Int /\ s * q <= b - a /\ b - a < s * q + s
  BY <1>1 DEF q
<1>4. q >= 0
  <2>1. CASE q < 0
    <3>1. q + 1 <= 0
      BY <1>3, <2>1
    <3>2. s * (q + 1) <= 0
      BY <3>1, <1>3
    <3>3. s * q + s = s * (q + 1)
      BY <1>3
    <3>4. QED
      BY <1>3, <3>2, <3>3
  <2>2. QED
    BY <1>3, <2>1
<1>5. ASSUME NEW c \in Nat PROVE c <= q <=> a + c * s <= b
  <2>0. c * s = s * c /\ c * s \in Int /\ s * q \in Int
    BY <1>3
  <2>1. ASSUME c <= q PROVE s * c <= s * q
    BY <1>3, <2>1
  <2>2. ASSUME c >= q + 1 PROVE s * c >= s * (q + 1)
    BY <1>3, <2>2
  <2>3. s * (q + 1) = s * q + s
    BY <1>3
  <2>4. c <= q \/ c >= q + 1
    BY <1>3
  <2>5. QED
    BY <1>3, <2>0, <2>1, <2>2, <2>3, <2>4
<1>6. ASSUME NEW c \in Nat, NEW e \in Nat, s * c = s * e PROVE c = e
  BY <1>6
<1>7. ASSUME NEW c \in Nat PROVE c * s = s * c /\ c <= c * s
  OBVIOUS
<1>8. QED
  BY <1>2, <1>3, <1>4, <1>5, <1>6, <1>7

LEMMA RangeFacts ==
    ASSUME NEW a \in Int, NEW b \in Int, NEW s \in Int, a < b, s > 0
    PROVE  LET data == [i \in 1..NumElements(a, b, s) |-> <<a + s * (i - 1)>>]
           IN  /\ data \in Seq(OfLength(Int, 1)) /\ Distinct(data)
               /\ ToSet(data) = Span(<<a, b, s>>)
               /\ \A v \in OfLength(Int, 1) :
                     RangeContains(<<a, b, s>>, v[1]) <=> v \in Span(<<a, b, s>>)
<1> DEFINE n == NumElements(a, b, s)
           data == [i \in 1..n |-> <<a + s * (i - 1)>>]
           R == <<a, b, s>>
<1>1. /\ n \in Nat
      /\ \A c \in Nat : c < n <=> a + c * s <= b
      /\ \A c, e \in Nat : s * c = s * e => c = e
      /\ \A c \in Nat : c * s = s * c /\ c <= c * s
  BY NumElementsFacts
<1>2. R[1] = a /\ R[2] = b /\ R[3] = s
  OBVIOUS
<1> HIDE DEF n, R
<1>3. data \in Seq(OfLength(Int, 1)) /\ DOMAIN data = 1..n
      /\ \A i \in 1..n : data[i] = <<a + s * (i - 1)>>
  <2>1. \A i \in 1..n : <<a + s * (i - 1)>> \in OfLength(Int, 1)
    <3> SUFFICES ASSUME NEW i \in 1..n PROVE <<a + s * (i - 1)>> \in OfLength(Int, 1)
      OBVIOUS
    <3>1. a + s * (i - 1) \in Int
      BY <1>1
    <3>2. QED
      BY <3>1 DEF OfLength
  <2>2. data \in [1..n -> OfLength(Int, 1)]
    BY <2>1
  <2> HIDE DEF data
  <2>3. data \in Seq(OfLength(Int, 1)) /\ DOMAIN data = 1..n
    BY <1>1, <2>2
  <2>4. QED
    BY <2>3 DEF data
<1> HIDE DEF data
<1>4. Distinct(data)
  <2> SUFFICES ASSUME NEW i \in 1..n, NEW j \in 1..n, data[i] = data[j] PROVE i = j
    BY <1>3 DEF Distinct
  <2>1. <<a + s * (i - 1)>> = <<a + s * (j - 1)>>
    BY <1>3
  <2>2. a + s * (i - 1) = a + s * (j - 1)
    BY <2>1
  <2>3. i - 1 \in Nat /\ j - 1 \in Nat /\ s * (i - 1) \in Int /\ s * (j - 1) \in Int
    BY <1>1
  <2>4. s * (i - 1) = s * (j - 1)
    BY <2>2, <2>3
  <2>5. i - 1 = j - 1
    BY <1>1, <2>3, <2>4
  <2>6. QED
    BY <1>1, <2>5
<1>5. Span(R) = {<<a + c * s>> : c \in {k \in 0..(b - a) : a + k * s <= b}}
  BY <1>2 DEF Span
<1>6. ASSUME NEW i \in 1..n PROVE data[i] \in Span(R)
  <2>1. i - 1 \in Nat /\ i - 1 < n
    BY <1>1
  <2>2. a + (i - 1) * s <= b /\ (i - 1) * s = s * (i - 1) /\ i - 1 <= (i - 1) * s
    BY <1>1, <2>1
  <2>3. (i - 1) * s \in Int
    BY <2>1
  <2>4. i - 1 \in 0..(b - a)
    BY <2>1, <2>2, <2>3
  <2>5. data[i] = <<a + (i - 1) * s>>
    BY <1>3, <2>2
  <2>6. QED
    BY <1>5, <2>2, <2>4, <2>5
<1>7. ASSUME NEW c \in 0..(b - a), a + c * s <= b PROVE <<a + c * s>> \in ToSet(data)
  <2>1. c \in Nat /\ c < n /\ c * s = s * c
    BY <1>1, <1>7
  <2>2. c + 1 \in 1..n /\ (c + 1) - 1 = c
    BY <1>1, <2>1
  <2>3. data[c + 1] = <<a + c * s>>
    BY <1>3, <2>1, <2>2
  <2>4. QED
    BY <1>3, <2>2, <2>3 DEF ToSet
<1>8. ToSet(data) = Span(R)
  <2>1. ToSet(data) \subseteq Span(R)
    BY <1>3, <1>6 DEF ToSet
  <2>2. Span(R) \subseteq ToSet(data)
    BY <1>5, <1>7
  <2>3. QED
    BY <2>1, <2>2
<1>9. ASSUME NEW x \in Int PROVE RangeContains(R, x) <=> <<x>> \in Span(R)
  <2>1. RangeContains(R, x) <=> a <= x /\ x <= b /\ (x - a) % s = 0
    BY <1>2 DEF RangeContains
  <2>2. ASSUME a <= x, x <= b, (x - a) % s = 0 PROVE <<x>> \in Span(R)
    <3>1. PICK c \in Int : x - a = s * c
      <4>1. ASSUME NEW y \in Int, y % s = 0 PROVE y \div s \in Int /\ y = s * (y \div s)
        BY ONLY <4>1, s \in Int, s > 0
      <4>2. x - a \in Int
        OBVIOUS
      <4>3. QED
        BY <2>2, <4>1, <4>2
    <3>2. c \in Nat
      <4>1. CASE c < 0
        <5>1. s * c < 0
          BY <4>1
        <5>2. QED
          BY <2>2, <3>1, <5>1
      <4>2. QED
        BY <4>1
    <3>3. c * s = s * c /\ c <= c * s /\ c * s \in Int
      BY <1>1, <3>2
    <3>4. c \in 0..(b - a) /\ a + c * s <= b /\ a + c * s = x
      BY <2>2, <3>1, <3>2, <3>3
    <3>5. QED
      BY <1>5, <3>4
  <2>3. ASSUME <<x>> \in Span(R) PROVE a <= x /\ x <= b /\ (x - a) % s = 0
    <3>1. PICK c \in 0..(b - a) : a + c * s <= b /\ <<x>> = <<a + c * s>>
      BY <1>5, <2>3
    <3>2. x = a + c * s /\ c \in Nat /\ c * s = s * c /\ c <= c * s /\ c * s \in Int
      BY <1>1, <3>1
    <3>3. x - a = s * c
      BY <3>2
    <3>4. (s * c) % s = 0
      BY <3>2
    <3>5. QED
      BY <3>1, <3>2, <3>3, <3>4
  <2>4. QED
    BY <2>1, <2>2, <2>3
<1>10. ASSUME NEW v \in OfLength(Int, 1) PROVE RangeContains(R, v[1]) <=> v \in Span(R)
  <2>1. v \in Alone(Int)
    BY AloneLength
  <2>2. PICK x \in Int : v = <<x>>
    BY <2>1 DEF Alone
  <2>3. v[1] = x
    BY <2>2
  <2>4. QED
    BY <1>9, <2>2, <2>3
<1>11. QED
  BY <1>3, <1>4, <1>8, <1>10 DEF data, n, R

LEMMA ElementsFacts ==
    ASSUME NEW raw \in Seq(Int), IsInjective(raw)
    PROVE  Elements(raw) \in Seq(OfLength(Int, 1)) /\ Distinct(Elements(raw))
<1>1. Len(raw) \in Nat /\ DOMAIN raw = 1..Len(raw) /\ \A n \in 1..Len(raw) : raw[n] \in Int
  BY LenProperties, ElementOfSeq
<1>2. \A n \in 1..Len(raw) : <<raw[n]>> \in OfLength(Int, 1)
  BY <1>1 DEF OfLength
<1>3. Elements(raw) = [n \in 1..Len(raw) |-> <<raw[n]>>]
  BY <1>1 DEF Elements
<1>4. Elements(raw) \in Seq(OfLength(Int, 1))
  <2> DEFINE n == Len(raw)
             e == Elements(raw)
  <2>1. e \in [1..n -> OfLength(Int, 1)] /\ n \in Nat
    BY <1>1, <1>2, <1>3
  <2> HIDE DEF e, n
  <2>2. e \in Seq(OfLength(Int, 1))
    BY <2>1
  <2>3. QED
    BY <2>2 DEF e
<1>5. ASSUME NEW m \in 1..Len(raw), NEW n \in 1..Len(raw), <<raw[m]>> = <<raw[n]>> PROVE m = n
  <2>1. raw[m] = raw[n]
    BY <1>5
  <2>2. QED
    BY <1>1, <2>1 DEF IsInjective
<1>6. QED
  BY <1>3, <1>4, <1>5 DEF Distinct

SimpleWith(op, data, f) ==
    [op |-> op, l |-> 0, r |-> 0, data |-> data, init |-> TRUE, factors |-> f, dim |-> 1]

LEMMA SimpleSound ==
    ASSUME NEW h, NEW i, NEW op \in SimpleOps, NEW data \in Seq(OfLength(Int, 1)), Distinct(data),
           NEW f \in Seq(Int), h[i] = SimpleWith(op, data, f),
           op = "range" => /\ ToSet(data) = Span(f)
                           /\ \A v \in OfLength(Int, 1) : RangeContains(f, v[1]) <=> v \in Span(f)
    PROVE  SoundAt(h, i)
<1>1. h[i] = [op |-> op, l |-> 0, r |-> 0, data |-> data, init |-> TRUE, factors |-> f, dim |-> 1]
  BY DEF SimpleWith
<1>2. /\ h[i].op = op /\ h[i].l = 0 /\ h[i].r = 0 /\ h[i].data = data /\ h[i].init = TRUE
      /\ h[i].factors = f /\ h[i].dim = 1
  BY <1>1
<1>3. h[i] \in SetType
  <2>1. data \in Seq(Seq(Int))
    <3>1. OfLength(Int, 1) \subseteq Seq(Int)
      BY DEF OfLength
    <3>2. QED
      BY <3>1
  <2>2. 1 \in Nat \ {0} /\ 0 \in Nat /\ op \in SimpleOps \cup CombiningOps \cup {"product"}
    OBVIOUS
  <2>3. [op |-> op, l |-> 0, r |-> 0, data |-> data, init |-> TRUE, factors |-> f, dim |-> 1] \in SetType
    BY ONLY <2>1, <2>2, f \in Seq(Int) DEF SetType
  <2>4. QED
    BY <1>1, <2>3
<1>4. Frame(h, i)
  BY <1>2 DEF Frame, Simple1
<1>5. Contents(h, i)
  BY <1>2 DEF Contents, IsCombined
<1>6. QED
  BY <1>3, <1>4, <1>5 DEF SoundAt

LEMMA GivenSound ==
    ASSUME NEW h, NEW i \in Nat \ {0}, IsGiven(h, i), \A j \in 1..(i - 1) : SoundAt(h, j)
    PROVE  SoundAt(h, i) /\ ~IsCombined(h, i)
<1> DEFINE raw == [n \in DOMAIN h[i].data |-> h[i].data[n][1]]
           range == h[i].factors
<1>0. \A j \in 1..i : IsGiven(h, i)
  OBVIOUS
<1>1. CASE raw \in Seq(Int) /\ IsInjective(raw) /\ h[i] = ListSet(raw)
  <2> HIDE DEF raw
  <2>1. Elements(raw) \in Seq(OfLength(Int, 1)) /\ Distinct(Elements(raw))
    BY <1>1, ElementsFacts
  <2>2. h[i] = SimpleWith("list", Elements(raw), <<>>)
    BY <1>1 DEF ListSet, Simple, SimpleWith
  <2>3. "list" \in SimpleOps /\ <<>> \in Seq(Int) /\ "list" # "range"
    BY DEF SimpleOps
  <2>4. SoundAt(h, i)
    BY <2>1, <2>2, <2>3, SimpleSound
  <2>5. h[i].l = 0
    BY <1>1 DEF ListSet, Simple
  <2>6. QED
    BY <2>4, <2>5 DEF IsCombined
<1>2. CASE raw \in Seq(Int) /\ IsInjective(raw) /\ h[i] = VectorSet(raw)
  <2> HIDE DEF raw
  <2>1. Elements(raw) \in Seq(OfLength(Int, 1))
    BY <1>2, ElementsFacts
  <2>2. <<>> \in Seq(OfLength(Int, 1)) /\ Distinct(<<>>)
    BY DEF Distinct
  <2>3. /\ Added(<<>>, Elements(raw)) \in Seq(OfLength(Int, 1))
        /\ Distinct(Added(<<>>, Elements(raw)))
    BY <2>1, <2>2, AddedFacts
  <2>4. h[i] = SimpleWith("vector", Added(<<>>, Elements(raw)), <<>>)
    BY <1>2 DEF VectorSet, Simple, SimpleWith
  <2>5. "vector" \in SimpleOps /\ <<>> \in Seq(Int) /\ "vector" # "range"
    BY DEF SimpleOps
  <2>6. SoundAt(h, i)
    BY <2>3, <2>4, <2>5, SimpleSound
  <2>7. h[i].l = 0
    BY <1>2 DEF VectorSet, Simple
  <2>8. QED
    BY <2>6, <2>7 DEF IsCombined
<1>3. CASE /\ range \in Seq(Int) /\ Len(range) = 3 /\ range[1] < range[2] /\ range[3] > 0
           /\ h[i] = RangeSet(range[1], range[2], range[3])
  <2> DEFINE a == range[1]
             b == range[2]
             s == range[3]
             data == [n \in 1..NumElements(a, b, s) |-> <<a + s * (n - 1)>>]
  <2>1. a \in Int /\ b \in Int /\ s \in Int /\ a < b /\ s > 0
    BY <1>3, ElementOfSeq
  <2>2. h[i] = SimpleWith("range", data, <<a, b, s>>)
    BY <1>3 DEF RangeSet, Simple, SimpleWith
  <2> HIDE DEF a, b, s
  <2>3. /\ data \in Seq(OfLength(Int, 1)) /\ Distinct(data)
        /\ ToSet(data) = Span(<<a, b, s>>)
        /\ \A v \in OfLength(Int, 1) : RangeContains(<<a, b, s>>, v[1]) <=> v \in Span(<<a, b, s>>)
    BY <2>1, RangeFacts
  <2> HIDE DEF data
  <2>4. "range" \in SimpleOps /\ <<a, b, s>> \in Seq(Int)
    BY <2>1 DEF SimpleOps
  <2>5. SoundAt(h, i)
    BY <2>2, <2>3, <2>4, SimpleSound
  <2>6. h[i].l = 0
    BY <2>2 DEF SimpleWith
  <2>7. QED
    BY <2>5, <2>6 DEF IsCombined
<1>4. CASE /\ {h[i].l, h[i].r} \subseteq 1..(i - 1)
           /\ Legal(h, "product", h[i].l, h[i].r)
           /\ h[i] = Derived(h, "product", h[i].l, h[i].r)
  <2> DEFINE l == h[i].l
             r == h[i].r
             n == i - 1
  <2>1. n \in Nat /\ l \in 1..n /\ r \in 1..n /\ n + 1 = i
    BY <1>4
  <2>2. SoundAt(h, l) /\ SoundAt(h, r) /\ Legal(h, "product", l, r)
        /\ h[i] = Derived(h, "product", l, r) /\ SameFrame(h, h, n)
    BY <1>4 DEF SameFrame
  <2> HIDE DEF l, r, n
  <2>3. SoundAt(h, n + 1)
    BY <2>1, <2>2, DerivedSound
  <2>4. IsProduct(h, i)
    BY <2>2 DEF Derived, IsProduct
  <2>5. QED
    BY <2>1, <2>3, <2>4 DEF IsCombined
<1>5. QED
  BY <1>1, <1>2, <1>3, <1>4 DEF IsGiven

LEMMA GivenInv == SetsInv(Given)
<1>1. Given \in Seq(Range(Given)) /\ \A i \in DOMAIN Given : IsGiven(Given, i)
  BY GivenSets
<1>2. Len(Given) \in Nat /\ DOMAIN Given = 1..Len(Given) /\ \A i \in 1..Len(Given) : IsGiven(Given, i)
  BY <1>1, LenProperties
<1> DEFINE N == {n \in Nat : \A j \in 1..Len(Given) : j <= n => SoundAt(Given, j)}
<1>3. 0 \in N
  OBVIOUS
<1>4. ASSUME NEW n \in N PROVE n + 1 \in N
  <2> SUFFICES ASSUME NEW j \in 1..Len(Given), j = n + 1 PROVE SoundAt(Given, j)
    OBVIOUS
  <2>1. \A q \in 1..(j - 1) : q \in 1..Len(Given) /\ q <= n
    BY <1>2
  <2>2. \A q \in 1..(j - 1) : SoundAt(Given, q)
    BY <2>1
  <2>3. j \in Nat \ {0}
    BY <1>2
  <2>4. QED
    BY <1>2, <2>2, <2>3, GivenSound
<1>5. N = Nat
  <2> HIDE DEF N
  <2>1. N \in SUBSET Nat
    BY DEF N
  <2>2. QED
    BY <1>3, <1>4, <2>1, NumbersByInduction
<1>6. ASSUME NEW i \in 1..Len(Given) PROVE SoundAt(Given, i) /\ ~IsCombined(Given, i)
  <2>1. i \in N /\ i \in Nat \ {0} /\ i <= i
    BY <1>2, <1>5
  <2>2. \A q \in 1..(i - 1) : q \in 1..Len(Given) /\ q <= i
    BY <1>2
  <2>3. \A q \in 1..(i - 1) : SoundAt(Given, q)
    BY <2>1, <2>2
  <2> HIDE DEF N
  <2>4. QED
    BY <1>2, <2>1, <2>3, GivenSound
<1>7. Given \in Seq(SetType)
  BY <1>2, <1>1, <1>6, IsASeq DEF SoundAt
<1>8. QED
  BY <1>6, <1>7 DEF SetsInv, SetsShape, SoundAt, ExactAt

-----------------------------------------------------------------------------
(* Sets that nothing is left to initialize for are available.              *)
LEMMA ReadyAvailable ==
    ASSUME NEW h, SetsShape(h), NEW i \in 1..Len(h), Ready(h, i)
    PROVE  Available(h, i)
<1>1. /\ Len(h) \in Nat /\ \A j \in 1..Len(h) : Frame(h, j) /\ Contents(h, j)
  BY ShapeFacts
<1>2. ASSUME NEW j \in Visited(h, i), ~IsProduct(h, j) PROVE h[j].init
  <2>1. j \in 1..Len(h)
    <3>1. j \in 1..i
      BY VisitedFacts
    <3>2. QED
      BY <1>1, <3>1
  <2>2. CASE h[j].l = 0
    BY <1>1, <2>1, <2>2 DEF Contents
  <2>3. CASE h[j].l # 0
    BY <1>2, <2>3 DEF Ready, Needed, IsCombined
  <2>4. QED
    BY <2>2, <2>3
<1>3. SameFrame(h, h, Len(h)) /\ i \in Nat /\ i <= i /\ i \in Visited(h, i)
  BY <1>1, VisitedFacts DEF SameFrame
<1>4. QED
  BY <1>2, <1>3, VisitedAvailable

-----------------------------------------------------------------------------
(* A step of the client's with sets.                                       *)
LEMMA SetStep ==
    ASSUME SetsInv(sets), SetNext
    PROVE  /\ SetsInv(sets') /\ Len(sets) <= Len(sets')
           /\ \A i \in Places : sets[i].init => sets'[i] = sets[i]
<1>1. SetsShape(sets) /\ Len(sets) \in Nat
  BY ShapeFacts DEF SetsInv
<1>2. ASSUME NEW op \in Operations, NEW l \in Places, NEW r \in Places, NEW concrete \in BOOLEAN,
             Derive(op, l, r, concrete)
      PROVE  /\ SetsInv(sets') /\ Len(sets) <= Len(sets')
             /\ \A i \in Places : sets[i].init => sets'[i] = sets[i]
  <2> DEFINE h == Append(sets, Derived(sets, op, l, r))
             g == Initialized(h, Len(h))
  <2>1. op \in CombiningOps \cup {"product"}
    BY OperationsKnown DEF CombiningOps
  <2>2. l \in 1..Len(sets) /\ r \in 1..Len(sets) /\ Legal(sets, op, l, r)
        /\ sets' = IF concrete THEN g ELSE h
    BY <1>2 DEF Derive, Places
  <2>3. WithDerived(h, sets, op, l, r)
    BY DEF WithDerived
  <2> HIDE DEF h
  <2>4. SetsInv(h) /\ Len(h) = Len(sets) + 1 /\ \A j \in 1..Len(sets) : h[j] = sets[j]
    <3>1. Legal(sets, op, l, r) /\ l \in 1..Len(sets) /\ r \in 1..Len(sets)
      BY <2>2
    <3>2. QED
      BY ONLY <2>1, <2>3, <3>1, SetsInv(sets), AppendInv
  <2>5. Len(h) \in 1..Len(h) /\ \A j \in 1..Len(sets) : j \in 1..Len(h)
    BY <1>1, <2>4
  <2>6. Reached(h, Len(h), Len(h), g)
    BY <2>4, <2>5, InitializedInv
  <2>7. SetsInv(g) /\ Len(g) = Len(h) /\ \A j \in 1..Len(h) : h[j].init => g[j] = h[j]
    BY <2>6 DEF Reached, Grown
  <2> HIDE DEF g
  <2>8. QED
    BY <2>2, <2>4, <2>5, <2>7 DEF Places
<1>3. ASSUME NEW i \in Places, InitializeSet(i)
      PROVE  /\ SetsInv(sets') /\ Len(sets) <= Len(sets')
             /\ \A j \in Places : sets[j].init => sets'[j] = sets[j]
  <2>1. sets' = Initialized(sets, i) /\ i \in 1..Len(sets)
    BY <1>3 DEF InitializeSet, Places
  <2>2. Reached(sets, i, i, Initialized(sets, i))
    BY <2>1, InitializedInv
  <2>3. QED
    BY <1>1, <2>1, <2>2 DEF Reached, Grown, Places
<1>4. QED
  BY <1>2, <1>3 DEF SetNext

(* Only the client's steps with sets change them.                          *)
LEMMA SetsUnchanged ==
    ASSUME [Next]_vars, ~MakeSets
    PROVE  UNCHANGED sets
<1>1. CASE Expanding
  BY <1>1 DEF Expanding, ExpandVariable, ExpandBegin, ExpandNext, ExpandEnd, Return
<1>2. CASE Next /\ ~Expanding
  BY <1>2 DEF Next, MakeContexts, Forall, SetParam, BeginIter, StepIter, Expand
<1>3. CASE UNCHANGED vars
  BY <1>3 DEF vars
<1>4. QED
  BY <1>1, <1>2, <1>3

(* The sets are well formed, and those that are initialized were made of   *)
(* initialized ones and have the elements their definition says.           *)
THEOREM SetsInvariant == Spec => []SetsInv(sets)
<1>1. Init => SetsInv(sets)
  BY GivenInv DEF Init, SetInit
<1>2. SetsInv(sets) /\ [Next]_vars => SetsInv(sets)'
  <2> SUFFICES ASSUME SetsInv(sets), [Next]_vars PROVE SetsInv(sets')
    OBVIOUS
  <2>1. CASE MakeSets
    BY <2>1, SetStep DEF MakeSets
  <2>2. CASE ~MakeSets
    BY <2>2, SetsUnchanged
  <2>3. QED
    BY <2>1, <2>2
<1>3. QED
  BY <1>1, <1>2, PTL DEF Spec

(* An initialized set has the elements its definition says, each of them   *)
(* once, and its size is their number (ast_set, initialize()).             *)
THEOREM SetsAreExact == Spec => []SetsExact
<1>1. SetsInv(sets) => SetsExact
  <2> SUFFICES ASSUME SetsInv(sets), NEW i \in Places, i \notin AskedCombined(sets), Ready(sets, i)
               PROVE  /\ ToSet(ItemsOf(sets, i)) = Meaning(sets)[i]
                      /\ SizeOf(sets, i) = Cardinality(Meaning(sets)[i])
    BY DEF SetsExact
  <2>1. SetsShape(sets) /\ Len(sets) \in Nat /\ i \in 1..Len(sets)
    BY ShapeFacts DEF SetsInv, Places
  <2>2. Available(sets, i)
    BY <2>1, ReadyAvailable
  <2>3. \A j \in 1..i : ExactData(sets, j)
    <3>1. \A j \in 1..i : j \in 1..Len(sets)
      BY <2>1
    <3>2. QED
      BY <3>1, InvExactData
  <2>4. QED
    BY <2>1, <2>2, <2>3, ItemsExact
<1>2. QED
  BY <1>1, SetsInvariant, PTL

(* No step changes the elements of an initialized set.                     *)
THEOREM InitializedSetsStay == Spec => InitializedStay
<1>1. SetsInv(sets) /\ [Next]_vars => [\A i \in Places : sets[i].init => sets'[i] = sets[i]]_sets
  <2> SUFFICES ASSUME SetsInv(sets), [Next]_vars
               PROVE  [\A i \in Places : sets[i].init => sets'[i] = sets[i]]_sets
    OBVIOUS
  <2>1. CASE MakeSets
    BY <2>1, SetStep DEF MakeSets
  <2>2. CASE ~MakeSets
    BY <2>2, SetsUnchanged
  <2>3. QED
    BY <2>1, <2>2
<1>2. QED
  BY <1>1, SetsInvariant, PTL DEF Spec, InitializedStay

-----------------------------------------------------------------------------
(* The order of the tuples of places: q is counted after p.                *)
Comes(p, q, sizes, d) ==
    \E k \in 1..d :
        /\ p[k] < sizes[k] /\ q[k] = p[k] + 1
        /\ \A j \in 1..d : j < k => q[j] = p[j]
        /\ \A j \in 1..d : j > k => p[j] = sizes[j] /\ q[j] = 1

Counted(t, sizes, d) ==
    /\ t \in Seq(OfLength(Nat, d)) /\ Len(t) > 0
    /\ \A m \in 1..Len(t), k \in 1..d : t[m][k] \in 1..sizes[k]
    /\ \A k \in 1..d : t[1][k] = 1 /\ t[Len(t)][k] = sizes[k]
    /\ \A m \in 1..(Len(t) - 1) : Comes(t[m], t[m + 1], sizes, d)

Places1(n) == [k \in 1..n |-> <<k>>]

With(v, x) == Append(v, x)

LEMMA AppendedFacts ==
    ASSUME NEW d \in Nat, NEW v \in OfLength(Nat, d), NEW x \in Nat
    PROVE  /\ With(v, x) \in OfLength(Nat, d + 1) /\ With(v, x)[d + 1] = x
           /\ \A j \in 1..d : With(v, x)[j] = v[j]
<1>1. v \in Seq(Nat) /\ Len(v) = d
  BY DEF OfLength
<1>2. QED
  BY <1>1, AppendProperties DEF OfLength, With

LEMMA ComesAppended ==
    ASSUME NEW d \in Nat, NEW sizes, NEW v \in OfLength(Nat, d), NEW w \in OfLength(Nat, d),
           NEW x \in Nat, NEW y \in Nat,
           \/ v = w /\ x < sizes[d + 1] /\ y = x + 1
           \/ Comes(v, w, sizes, d) /\ x = sizes[d + 1] /\ y = 1
    PROVE  Comes(With(v, x), With(w, y), sizes, d + 1)
<1> DEFINE p == With(v, x)
           q == With(w, y)
<1>1. /\ p[d + 1] = x /\ \A j \in 1..d : p[j] = v[j]
      /\ q[d + 1] = y /\ \A j \in 1..d : q[j] = w[j]
  BY AppendedFacts
<1> HIDE DEF p, q
<1>2. \A j \in 1..(d + 1) : j \in 1..d \/ j = d + 1
  OBVIOUS
<1>3. CASE v = w /\ x < sizes[d + 1] /\ y = x + 1
  <2>1. d + 1 \in 1..(d + 1)
    OBVIOUS
  <2>2. p[d + 1] < sizes[d + 1] /\ q[d + 1] = p[d + 1] + 1
    BY <1>1, <1>3
  <2>3. \A j \in 1..(d + 1) : (j < d + 1 => q[j] = p[j]) /\ ~(j > d + 1)
    BY <1>1, <1>2, <1>3
  <2>4. Comes(p, q, sizes, d + 1)
    BY <2>1, <2>2, <2>3 DEF Comes
  <2>5. QED
    BY <2>4 DEF p, q
<1>4. CASE Comes(v, w, sizes, d) /\ x = sizes[d + 1] /\ y = 1
  <2>1. PICK k \in 1..d : /\ v[k] < sizes[k] /\ w[k] = v[k] + 1
                          /\ \A j \in 1..d : j < k => w[j] = v[j]
                          /\ \A j \in 1..d : j > k => v[j] = sizes[j] /\ w[j] = 1
    BY <1>4 DEF Comes
  <2>2. k \in 1..(d + 1) /\ p[k] < sizes[k] /\ q[k] = p[k] + 1
    BY <1>1, <2>1
  <2>3. ASSUME NEW j \in 1..(d + 1)
        PROVE  (j < k => q[j] = p[j]) /\ (j > k => p[j] = sizes[j] /\ q[j] = 1)
    <3>1. CASE j \in 1..d
      BY <1>1, <2>1, <3>1
    <3>2. CASE j = d + 1
      BY <1>1, <1>4, <3>2
    <3>3. QED
      BY <1>2, <3>1, <3>2
  <2>4. Comes(p, q, sizes, d + 1)
    BY <2>2, <2>3 DEF Comes
  <2>5. QED
    BY <2>4 DEF p, q
<1>5. QED
  BY <1>3, <1>4

LEMMA Places1Facts ==
    ASSUME NEW n \in Nat
    PROVE  /\ Places1(n) \in Seq(Alone(Nat)) /\ Len(Places1(n)) = n
           /\ DOMAIN Places1(n) = 1..n /\ \A k \in 1..n : Places1(n)[k][1] = k
<1>1. \A k \in 1..n : <<k>> \in Alone(Nat) /\ <<k>>[1] = k
  BY DEF Alone
<1>2. Places1(n) \in [1..n -> Alone(Nat)]
  BY <1>1 DEF Places1
<1>3. Places1(n) \in Seq(Alone(Nat)) /\ Len(Places1(n)) = n
  BY <1>2
<1>4. QED
  BY <1>1, <1>3 DEF Places1

PlacesExtended(e, t, n, d) ==
    /\ e \in Seq(OfLength(Nat, d + 1)) /\ Len(t) \in Nat /\ Len(e) = Len(t) * n
    /\ \A i \in 1..Len(t), j \in 1..n : /\ (i - 1) * n + j \in 1..Len(e)
                                        /\ e[(i - 1) * n + j] = With(t[i], j)
    /\ \A m \in 1..Len(e) : \E i \in 1..Len(t), j \in 1..n : m = (i - 1) * n + j

LEMMA ExtendedPlaces ==
    ASSUME NEW d \in Nat, NEW t \in Seq(OfLength(Nat, d)), NEW n \in Nat
    PROVE  PlacesExtended(Extended(t, Places1(n)), t, n, d)
<1> DEFINE list == Places1(n)
           e == Extended(t, list)
           m == Len(list)
           a(k) == 1 + ((k - 1) \div m)
           b(k) == 1 + ((k - 1) % m)
<1>0. list \in Seq(Alone(Nat)) /\ t \in Seq(OfLength(Nat, d)) /\ d \in Nat
  BY Places1Facts
<1>1. m = n /\ DOMAIN list = 1..n /\ \A k \in 1..n : list[k][1] = k
  BY Places1Facts
<1> HIDE DEF list
<1>2. /\ m \in Nat /\ Len(t) \in Nat /\ DOMAIN e = 1..(Len(t) * m)
      /\ e \in Seq(OfLength(Nat, d + 1)) /\ Len(e) = Len(t) * m
      /\ \A k \in DOMAIN e : /\ a(k) \in DOMAIN t /\ b(k) \in DOMAIN list
                             /\ e[k] = Append(t[a(k)], list[b(k)][1])
      /\ \A i \in DOMAIN t, j \in DOMAIN list :
            /\ (i - 1) * m + j \in DOMAIN e
            /\ e[(i - 1) * m + j] = Append(t[i], list[j][1])
  BY ONLY <1>0, ExtendedFacts
<1>3. DOMAIN t = 1..Len(t)
  BY LenProperties
<1>4. \A k \in DOMAIN e : k = (a(k) - 1) * m + b(k)
  <2> HIDE DEF m, e
  <2>2. ASSUME NEW q \in Nat, NEW k \in 1..(q * m) PROVE k = (a(k) - 1) * m + b(k)
    BY <1>2, Blocks
  <2>3. QED
    BY <1>2, <2>2
<1> HIDE DEF e, m, a, b
<1>5. ASSUME NEW i \in 1..Len(t), NEW j \in 1..n
      PROVE  /\ (i - 1) * n + j \in 1..Len(e)
             /\ e[(i - 1) * n + j] = With(t[i], j)
  <2>1. (i - 1) * m + j \in DOMAIN e /\ e[(i - 1) * m + j] = With(t[i], list[j][1])
    BY ONLY <1>1, <1>2, <1>3, i \in 1..Len(t), j \in 1..n DEF With
  <2>2. QED
    BY ONLY <1>1, <1>2, <2>1, j \in 1..n
<1>6. \A k \in 1..Len(e) : \E i \in 1..Len(t), j \in 1..n : k = (i - 1) * n + j
  BY <1>1, <1>2, <1>3, <1>4
<1>7. PlacesExtended(e, t, n, d)
  BY <1>1, <1>2, <1>5, <1>6 DEF PlacesExtended
<1>8. QED
  BY <1>7 DEF e, list

LEMMA CountedStep ==
    ASSUME NEW d \in Nat, NEW sizes, NEW t, Counted(t, sizes, d), sizes[d + 1] \in Nat \ {0}
    PROVE  Counted(Extended(t, Places1(sizes[d + 1])), sizes, d + 1)
<1> DEFINE n == sizes[d + 1]
           e == Extended(t, Places1(n))
<1>1. n \in Nat /\ n > 0 /\ t \in Seq(OfLength(Nat, d)) /\ Len(t) \in Nat /\ Len(t) > 0
      /\ DOMAIN t = 1..Len(t) /\ \A m \in 1..Len(t) : t[m] \in OfLength(Nat, d)
  BY LenProperties, ElementOfSeq DEF Counted
<1>2. /\ \A m \in 1..Len(t), k \in 1..d : t[m][k] \in 1..sizes[k]
      /\ \A k \in 1..d : t[1][k] = 1 /\ t[Len(t)][k] = sizes[k]
      /\ \A m \in 1..(Len(t) - 1) : Comes(t[m], t[m + 1], sizes, d)
  BY DEF Counted
<1> HIDE DEF n
<1>3. /\ e \in Seq(OfLength(Nat, d + 1)) /\ Len(e) = Len(t) * n
      /\ \A i \in 1..Len(t), j \in 1..n : /\ (i - 1) * n + j \in 1..Len(e)
                                          /\ e[(i - 1) * n + j] = With(t[i], j)
      /\ \A m \in 1..Len(e) : \E i \in 1..Len(t), j \in 1..n : m = (i - 1) * n + j
  <2>1. PlacesExtended(e, t, n, d)
    BY <1>1, ExtendedPlaces
  <2> HIDE DEF e
  <2>2. QED
    BY <2>1 DEF PlacesExtended
<1> HIDE DEF e
<1>4. ASSUME NEW i \in 1..Len(t), NEW j \in 1..n
      PROVE  /\ (i - 1) * n + j \in 1..Len(e)
             /\ e[(i - 1) * n + j] = With(t[i], j)
  BY <1>3
<1>5. ASSUME NEW m \in 1..Len(e)
      PROVE  \E i \in 1..Len(t), j \in 1..n : m = (i - 1) * n + j
  BY <1>3
<1>6. ASSUME NEW i \in 1..Len(t), NEW j \in 1..n
      PROVE  With(t[i], j)[d + 1] = j /\ \A k \in 1..d : With(t[i], j)[k] = t[i][k]
  <2>1. t[i] \in OfLength(Nat, d) /\ j \in Nat
    BY <1>1
  <2>2. QED
    BY ONLY <2>1, d \in Nat, AppendedFacts
<1>7. \A k \in 1..(d + 1) : k \in 1..d \/ k = d + 1
  OBVIOUS
<1>8. Len(e) \in Nat /\ Len(e) > 0 /\ 1 \in 1..Len(t) /\ 1 \in 1..n /\ (1 - 1) * n + 1 = 1
  BY <1>1, <1>3
<1>9. Len(t) \in 1..Len(t) /\ n \in 1..n /\ (Len(t) - 1) * n + n = Len(e)
  BY <1>1, <1>3
<1>10. ASSUME NEW m \in 1..Len(e), NEW k \in 1..(d + 1)
       PROVE  e[m][k] \in 1..sizes[k]
  <2>1. PICK i \in 1..Len(t), j \in 1..n : m = (i - 1) * n + j
    BY <1>5
  <2>2. e[m] = With(t[i], j)
    BY <1>4, <2>1
  <2>3. CASE k \in 1..d
    BY <1>2, <1>6, <2>1, <2>2, <2>3
  <2>4. CASE k = d + 1
    BY <1>6, <2>2, <2>4 DEF n
  <2>5. QED
    BY <1>7, <2>3, <2>4
<1>11. ASSUME NEW k \in 1..(d + 1)
       PROVE  e[1][k] = 1 /\ e[Len(e)][k] = sizes[k]
  <2>1. e[1] = With(t[1], 1) /\ e[Len(e)] = With(t[Len(t)], n)
    BY <1>4, <1>8, <1>9
  <2>2. CASE k \in 1..d
    <3>1. With(t[1], 1)[k] = t[1][k] /\ With(t[Len(t)], n)[k] = t[Len(t)][k]
      BY <1>6, <1>8, <1>9, <2>2
    <3>2. QED
      BY <1>2, <2>1, <2>2, <3>1
  <2>3. CASE k = d + 1
    BY <1>6, <1>8, <1>9, <2>1, <2>3 DEF n
  <2>4. QED
    BY <1>7, <2>2, <2>3
<1>12. ASSUME NEW m \in 1..(Len(e) - 1)
       PROVE  Comes(e[m], e[m + 1], sizes, d + 1)
  <2>1. m \in 1..Len(e) /\ m \in Nat /\ m < Len(e)
    BY <1>8
  <2>2. PICK i \in 1..Len(t), j \in 1..n : m = (i - 1) * n + j
    BY <1>5, <2>1
  <2>3. e[m] = With(t[i], j)
    BY <1>4, <2>2
  <2>4. CASE j < n
    <3>1. j + 1 \in 1..n /\ m + 1 = (i - 1) * n + (j + 1)
      <4>1. (i - 1) * n \in Int
        BY <1>1
      <4>2. QED
        BY <1>1, <2>2, <2>4, <4>1
    <3>2. e[m + 1] = With(t[i], j + 1)
      BY <1>4, <3>1
    <3>3. t[i] \in OfLength(Nat, d) /\ j \in Nat /\ j + 1 \in Nat /\ j < sizes[d + 1]
      BY <1>1, <2>4 DEF n
    <3>4. Comes(With(t[i], j), With(t[i], j + 1), sizes, d + 1)
      BY <3>3, ComesAppended
    <3>5. QED
      BY <2>3, <3>2, <3>4
  <2>5. CASE j = n
    <3>1. i \in Nat /\ (i - 1) * n = i * n - n /\ i * n \in Int
      BY <1>1
    <3>2. m = i * n
      BY <1>1, <2>2, <2>5, <3>1
    <3>3. i < Len(t)
      <4>1. i # Len(t)
        <5>1. Len(e) = Len(t) * n
          BY <1>3
        <5>2. ASSUME i = Len(t) PROVE FALSE
          <6>1. m = Len(t) * n
            BY ONLY <3>2, <5>2
          <6>2. m = Len(e) /\ m < Len(e) /\ m \in Nat
            BY <2>1, <5>1, <6>1
          <6>3. QED
            BY ONLY <6>2
        <5>3. QED
          BY <5>2
      <4>2. Len(t) \in Nat /\ i \in 1..Len(t)
        BY <1>1
      <4>3. QED
        BY ONLY <4>1, <4>2
    <3>4. i + 1 \in 1..Len(t) /\ i \in 1..(Len(t) - 1) /\ m + 1 = ((i + 1) - 1) * n + 1
      <4>1. (i + 1) - 1 = i
        BY <3>1
      <4>2. QED
        BY <1>1, <3>2, <3>3, <4>1
    <3>5. e[m + 1] = With(t[i + 1], 1)
      BY <1>4, <1>8, <3>4
    <3>6. Comes(t[i], t[i + 1], sizes, d)
      BY <1>2, <3>4
    <3>7. t[i] \in OfLength(Nat, d) /\ t[i + 1] \in OfLength(Nat, d) /\ n \in Nat /\ n = sizes[d + 1]
      BY <1>1, <3>4 DEF n
    <3>8. Comes(With(t[i], n), With(t[i + 1], 1), sizes, d + 1)
      BY <3>6, <3>7, ComesAppended
    <3>9. QED
      BY <2>3, <2>5, <3>5, <3>8
  <2>6. QED
    BY <1>1, <2>4, <2>5
<1>13. Counted(e, sizes, d + 1)
  BY <1>3, <1>8, <1>10, <1>11, <1>12 DEF Counted
<1>14. QED
  BY <1>13 DEF e, n

-----------------------------------------------------------------------------
(* The positions of an iterator.                                           *)
LoopsShape(loops) ==
    /\ Len(loops) \in Nat /\ DOMAIN loops = 1..Len(loops)
    /\ \A k \in 1..Len(loops) : loops[k].data \in Seq(Alone(Int)) /\ Len(loops[k].data) > 0
    /\ \A m, n \in 1..Len(loops) : loops[m].index = loops[n].index => m = n

SizesOf(loops) == [k \in 1..Len(loops) |-> Len(loops[k].data)]

LEMMA PositionsCounted ==
    ASSUME NEW loops, LoopsShape(loops)
    PROVE  Counted(Positions(loops), SizesOf(loops), Len(loops))
<1> DEFINE n == Len(loops)
           sizes == SizesOf(loops)
           lists == [k \in DOMAIN loops |-> [q \in DOMAIN loops[k].data |-> <<q>>]]
<1>1. /\ n \in Nat /\ DOMAIN loops = 1..n
      /\ \A k \in 1..n : loops[k].data \in Seq(Alone(Int)) /\ Len(loops[k].data) > 0
  BY DEF LoopsShape
<1>2. \A k \in 1..n : sizes[k] \in Nat \ {0} /\ DOMAIN loops[k].data = 1..sizes[k]
  BY <1>1, LenProperties DEF SizesOf
<1>3. \A k \in 1..n : lists[k] = Places1(sizes[k])
  BY <1>1, <1>2 DEF Places1
<1>4. lists = [k \in 1..n |-> Places1(sizes[k])]
  BY <1>1, <1>3
<1>5. Positions(loops) = Tuples(lists)
  BY DEF Positions
<1> HIDE DEF n, sizes, lists
<1>6. Len(lists) = n
  BY <1>1, <1>4
<1>7. PICK s : /\ Tuples(lists) = s[n] /\ s[0] = << <<>> >>
               /\ \A d \in 1..n : s[d] = Extended(s[d - 1], lists[d])
  <2>1. Len(lists) \in Nat
    BY <1>1, <1>6
  <2>2. \E s : /\ Tuples(lists) = s[Len(lists)] /\ s[0] = << <<>> >>
               /\ \A d \in 1..Len(lists) : s[d] = Extended(s[d - 1], lists[d])
    BY ONLY <2>1, TuplesRecursion
  <2>3. QED
    BY ONLY <1>6, <2>2
<1> DEFINE N == {d \in Nat : d <= n => Counted(s[d], sizes, d)}
<1>8. 0 \in N
  <2> DEFINE t == << <<>> >>
  <2>1. <<>> \in OfLength(Nat, 0)
    BY EmptySeq DEF OfLength
  <2>2. t \in Seq(OfLength(Nat, 0)) /\ Len(t) = 1
    BY <2>1
  <2>3. 1..0 = {} /\ 1..(1 - 1) = {}
    OBVIOUS
  <2> HIDE DEF t
  <2>4. Counted(t, sizes, 0)
    BY <2>2, <2>3 DEF Counted
  <2>5. QED
    BY <1>7, <2>4 DEF t
<1>9. ASSUME NEW d \in N PROVE d + 1 \in N
  <2> SUFFICES ASSUME d + 1 <= n PROVE Counted(s[d + 1], sizes, d + 1)
    OBVIOUS
  <2>1. d \in Nat /\ d <= n /\ d + 1 \in 1..n /\ (d + 1) - 1 = d
    BY <1>1
  <2>2. Counted(s[d], sizes, d)
    BY <2>1
  <2>3. s[d + 1] = Extended(s[d], Places1(sizes[d + 1])) /\ sizes[d + 1] \in Nat \ {0}
    BY <1>2, <1>4, <1>7, <2>1
  <2>4. QED
    BY <2>1, <2>2, <2>3, CountedStep
<1>10. N = Nat
  <2> HIDE DEF N
  <2>1. N \in SUBSET Nat
    BY DEF N
  <2>2. QED
    BY <1>8, <1>9, <2>1, NumbersByInduction
<1>11. Counted(s[n], sizes, n)
  <2>1. n \in N /\ n <= n
    BY <1>1, <1>10
  <2>2. QED
    BY <2>1
<1>12. QED
  BY <1>5, <1>7, <1>11 DEF sizes, n

(* The places of an iterator that is not through all loops, and of one     *)
(* that is.                                                                *)
LEMMA NextCounted ==
    ASSUME NEW loops, LoopsShape(loops), NEW m \in 1..Len(Positions(loops))
    PROVE  LET all == Positions(loops)
               k == Unfinished(loops, all[m])
           IN  /\ Len(all) \in Nat /\ 1 \in 1..Len(all) /\ DOMAIN all = 1..Len(all)
               /\ First(loops) = all[1]
               /\ \A q \in 1..Len(all) : all[q] \in Seq(Nat) /\ DOMAIN all[q] = DOMAIN loops
               /\ \A q \in 1..Len(all), j \in DOMAIN loops : all[q][j] \in DOMAIN loops[j].data
               /\ k = 0 <=> m = Len(all)
               /\ m # Len(all) => /\ k \in DOMAIN loops /\ m + 1 \in 1..Len(all)
                                  /\ NextPosition(loops, all[m]) = all[m + 1]
                                  /\ \A j \in DOMAIN loops : j < k => all[m + 1][j] = all[m][j]
<1> DEFINE all == Positions(loops)
           n == Len(loops)
           sizes == SizesOf(loops)
           pos == all[m]
           k == Unfinished(loops, pos)
<1>1. /\ n \in Nat /\ DOMAIN loops = 1..n
      /\ \A j \in 1..n : DOMAIN loops[j].data = 1..sizes[j] /\ sizes[j] \in Nat /\ sizes[j] > 0
                         /\ sizes[j] = Len(loops[j].data)
  BY LenProperties DEF LoopsShape, SizesOf
<1>2. Counted(all, sizes, n)
  BY PositionsCounted
<1>3. /\ all \in Seq(OfLength(Nat, n)) /\ Len(all) \in Nat /\ Len(all) > 0 /\ DOMAIN all = 1..Len(all)
      /\ \A q \in 1..Len(all) : all[q] \in OfLength(Nat, n)
      /\ \A q \in 1..Len(all), j \in 1..n : all[q][j] \in 1..sizes[j]
      /\ \A j \in 1..n : all[1][j] = 1 /\ all[Len(all)][j] = sizes[j]
      /\ \A q \in 1..(Len(all) - 1) : Comes(all[q], all[q + 1], sizes, n)
  <2> HIDE DEF all, n, sizes
  <2>1. QED
    BY <1>2, LenProperties, ElementOfSeq DEF Counted
<1>4. ASSUME NEW v \in OfLength(Nat, n)
      PROVE  v \in Seq(Nat) /\ DOMAIN v = 1..n /\ v = [j \in 1..n |-> v[j]]
  <2>1. v \in Seq(Nat) /\ Len(v) = n
    BY DEF OfLength
  <2>2. QED
    BY ONLY <2>1, LenProperties
<1>5. m \in 1..Len(all)
  OBVIOUS
<1> HIDE DEF all, n, sizes
<1>6. First(loops) = all[1]
  <2>1. First(loops) = [j \in 1..n |-> 1]
    BY <1>1 DEF First
  <2>2. 1 \in 1..Len(all)
    BY <1>3
  <2>3. all[1] = [j \in 1..n |-> all[1][j]]
    BY <1>3, <1>4, <2>2
  <2>4. [j \in 1..n |-> all[1][j]] = [j \in 1..n |-> 1]
    BY <1>3
  <2>5. QED
    BY <2>1, <2>3, <2>4
<1>7. DOMAIN pos = 1..n /\ \A j \in 1..n : pos[j] \in 1..sizes[j]
  BY <1>3, <1>4, <1>5
<1> DEFINE more == {j \in DOMAIN pos : pos[j] < Len(loops[j].data)}
<1>8. more = {j \in 1..n : pos[j] < sizes[j]}
  BY <1>1, <1>7
<1>9. k = IF more = {} THEN 0 ELSE CHOOSE i \in more : \A q \in more : q <= i
  BY DEF Unfinished
<1> HIDE DEF more, k
<1>10. ASSUME m = Len(all) PROVE k = 0
  <2>1. \A j \in 1..n : ~(pos[j] < sizes[j])
    BY <1>1, <1>3, <1>10
  <2>2. more = {}
    BY <1>8, <2>1
  <2>3. QED
    BY <1>9, <2>2
<1>11. ASSUME m # Len(all)
       PROVE  /\ k \in 1..n /\ m + 1 \in 1..Len(all)
              /\ NextPosition(loops, pos) = all[m + 1]
              /\ \A j \in 1..n : j < k => all[m + 1][j] = pos[j]
  <2>1. m \in 1..(Len(all) - 1) /\ m + 1 \in 1..Len(all)
    BY <1>3, <1>5, <1>11
  <2>2. Comes(pos, all[m + 1], sizes, n)
    BY <1>3, <2>1
  <2> DEFINE next == all[m + 1]
  <2>3. next \in OfLength(Nat, n)
    BY <1>3, <2>1
  <2> HIDE DEF next
  <2>4. PICK i \in 1..n : /\ pos[i] < sizes[i] /\ next[i] = pos[i] + 1
                          /\ \A j \in 1..n : j < i => next[j] = pos[j]
                          /\ \A j \in 1..n : j > i => pos[j] = sizes[j] /\ next[j] = 1
    BY <2>2 DEF Comes, next
  <2>5. i \in more /\ \A q \in more : q <= i
    <3>1. i \in more
      BY <1>8, <2>4
    <3>2. ASSUME NEW q \in more PROVE q <= i
      <4>1. q \in 1..n /\ pos[q] < sizes[q]
        BY <1>8
      <4>2. ~(q > i)
        BY <1>1, <2>4, <4>1
      <4>3. QED
        BY <1>1, <4>1, <4>2
    <3>3. QED
      BY <3>1, <3>2
  <2>6. k = i
    <3>1. k = CHOOSE x \in more : \A q \in more : q <= x
      BY <1>9, <2>5
    <3>2. k \in more /\ \A q \in more : q <= k
      BY <2>5, <3>1
    <3>3. k \in Nat /\ i \in Nat
      BY <1>1, <1>8, <3>2
    <3>4. k <= i /\ i <= k
      BY <2>5, <3>2
    <3>5. QED
      BY <3>3, <3>4
  <2>7. NextPosition(loops, pos) =
          [j \in 1..n |-> IF j < k THEN pos[j] ELSE IF j = k THEN pos[j] + 1 ELSE 1]
    BY <1>7 DEF NextPosition, k
  <2>8. \A j \in 1..n : next[j] = IF j < k THEN pos[j] ELSE IF j = k THEN pos[j] + 1 ELSE 1
    BY <1>1, <2>4, <2>6
  <2>9. next = [j \in 1..n |-> next[j]]
    BY <1>4, <2>3
  <2>10. NextPosition(loops, pos) = next
    BY <2>7, <2>8, <2>9
  <2>11. QED
    BY <2>1, <2>4, <2>6, <2>10 DEF next
<1>12. k = 0 <=> m = Len(all)
  <2>1. \A j \in 1..n : j # 0
    BY <1>1
  <2>2. QED
    BY <1>10, <1>11, <2>1
<1>13. /\ \A q \in 1..Len(all) : all[q] \in Seq(Nat) /\ DOMAIN all[q] = DOMAIN loops
       /\ \A q \in 1..Len(all), j \in DOMAIN loops : all[q][j] \in DOMAIN loops[j].data
  BY <1>1, <1>3, <1>4
<1>14. /\ Len(all) \in Nat /\ 1 \in 1..Len(all) /\ DOMAIN all = 1..Len(all)
       /\ m # Len(all) => /\ k \in DOMAIN loops /\ m + 1 \in 1..Len(all)
                          /\ NextPosition(loops, pos) = all[m + 1]
                          /\ \A j \in DOMAIN loops : j < k => all[m + 1][j] = pos[j]
  <2>1. Len(all) \in Nat /\ 1 \in 1..Len(all) /\ DOMAIN all = 1..Len(all)
    BY <1>3
  <2>2. DOMAIN loops = 1..n
    BY <1>1
  <2>3. QED
    BY ONLY <1>11, <2>1, <2>2
<1>15. QED
  BY ONLY <1>6, <1>12, <1>13, <1>14 DEF all, k

-----------------------------------------------------------------------------
(* What is converted with values that are the same where they are read.    *)
Agrees(v, w, S) == \A i \in S : i \in DOMAIN v /\ i \in DOMAIN w /\ v[i] = w[i]

(* The index parameters of the loops from number k on.                     *)
IndicesFrom(loops, k) == {loops[n].index : n \in {m \in DOMAIN loops : m >= k}}

(* What is written: the first elements of the loops' data at their places. *)
Wrote(w, v, loops, pos, k) ==
    /\ DOMAIN w = DOMAIN v \cup IndicesFrom(loops, k)
    /\ \A i \in DOMAIN v : i \notin IndicesFrom(loops, k) => w[i] = v[i]
    /\ \A n \in DOMAIN loops : n >= k => w[loops[n].index] = loops[n].data[pos[n]][1]

LEMMA WrittenFacts ==
    ASSUME NEW v, NEW loops, NEW pos, NEW k \in Nat, LoopsShape(loops)
    PROVE  Wrote(Written(v, loops, pos, k), v, loops, pos, k)
<1> DEFINE w == Written(v, loops, pos, k)
           moved == {n \in DOMAIN loops : n >= k}
           written == {loops[n].index : n \in moved}
           value(i) == IF \E n \in moved : loops[n].index = i
                       THEN LET n == CHOOSE m \in moved : loops[m].index = i
                            IN loops[n].data[pos[n]][1]
                       ELSE v[i]
<1>1. w = [i \in DOMAIN v \cup written |-> value(i)]
  BY DEF Written
<1>2. written = IndicesFrom(loops, k) /\ \A n \in DOMAIN loops : n >= k <=> n \in moved
  BY DEF IndicesFrom
<1> HIDE DEF w, moved
<1>3. DOMAIN w = DOMAIN v \cup written
  BY <1>1
<1>4. ASSUME NEW i \in DOMAIN v, i \notin written PROVE w[i] = v[i]
  BY <1>1, <1>4
<1>5. ASSUME NEW n \in moved
      PROVE  w[loops[n].index] = loops[n].data[pos[n]][1]
  <2> DEFINE i == loops[n].index
             c == CHOOSE m \in moved : loops[m].index = i
  <2>1. c \in moved /\ loops[c].index = i
    OBVIOUS
  <2> HIDE DEF c
  <2>2. c \in DOMAIN loops /\ n \in DOMAIN loops
    BY <2>1 DEF moved
  <2>3. c = n
    BY <2>1, <2>2 DEF LoopsShape
  <2>4. i \in written /\ value(i) = loops[c].data[pos[c]][1]
    BY DEF c
  <2>5. w[i] = value(i)
    BY <1>1, <2>4
  <2>6. QED
    BY <2>3, <2>4, <2>5
<1>6. /\ DOMAIN w = DOMAIN v \cup IndicesFrom(loops, k)
      /\ \A i \in DOMAIN v : i \notin IndicesFrom(loops, k) => w[i] = v[i]
  BY <1>2, <1>3, <1>4
<1>7. ASSUME NEW n \in DOMAIN loops, n >= k
      PROVE  w[loops[n].index] = loops[n].data[pos[n]][1]
  BY <1>2, <1>5, <1>7
<1>8. QED
  BY <1>6, <1>7 DEF w, Wrote

LEMMA AtFacts ==
    ASSUME NEW loops, NEW pos, LoopsShape(loops)
    PROVE  /\ DOMAIN At(loops, pos) = IndicesOf(loops)
           /\ \A n \in DOMAIN loops : /\ loops[n].index \in IndicesOf(loops)
                                      /\ At(loops, pos)[loops[n].index] = loops[n].data[pos[n]][1]
<1> DEFINE w == At(loops, pos)
           value(i) == LET k == CHOOSE n \in DOMAIN loops : loops[n].index = i
                       IN loops[k].data[pos[k]][1]
<1>1. w = [i \in IndicesOf(loops) |-> value(i)]
  BY DEF At
<1> HIDE DEF w
<1>2. ASSUME NEW n \in DOMAIN loops
      PROVE  loops[n].index \in IndicesOf(loops) /\ w[loops[n].index] = loops[n].data[pos[n]][1]
  <2> DEFINE i == loops[n].index
             c == CHOOSE m \in DOMAIN loops : loops[m].index = i
  <2>1. c \in DOMAIN loops /\ loops[c].index = i
    OBVIOUS
  <2> HIDE DEF c
  <2>2. c = n
    BY <2>1 DEF LoopsShape
  <2>3. i \in IndicesOf(loops)
    BY DEF IndicesOf
  <2>4. value(i) = loops[c].data[pos[c]][1]
    BY DEF c
  <2>5. w[i] = value(i)
    BY <1>1, <2>3
  <2>6. QED
    BY <2>2, <2>3, <2>4, <2>5
<1>3. QED
  BY <1>1, <1>2 DEF w

LEMMA FromFirst ==
    ASSUME NEW loops, LoopsShape(loops)
    PROVE  /\ IndicesFrom(loops, 1) = IndicesOf(loops)
           /\ \A k \in DOMAIN loops : IndicesFrom(loops, k) \subseteq IndicesOf(loops)
<1>1. \A n \in DOMAIN loops : n >= 1
  BY DEF LoopsShape
<1>2. QED
  BY <1>1 DEF IndicesFrom, IndicesOf

(* Writing all index parameters, and those of the loops that move.         *)
LEMMA WrittenAll ==
    ASSUME NEW v, NEW loops, NEW pos, LoopsShape(loops)
    PROVE  Agrees(Written(v, loops, pos, 1), At(loops, pos), IndicesOf(loops))
<1> DEFINE w == Written(v, loops, pos, 1)
           a == At(loops, pos)
<1>1. /\ DOMAIN w = DOMAIN v \cup IndicesOf(loops)
      /\ \A n \in DOMAIN loops : n >= 1 => w[loops[n].index] = loops[n].data[pos[n]][1]
  <2>1. 1 \in Nat /\ IndicesFrom(loops, 1) = IndicesOf(loops)
    BY FromFirst
  <2>2. Wrote(Written(v, loops, pos, 1), v, loops, pos, 1)
    BY ONLY LoopsShape(loops), <2>1, WrittenFacts
  <2>3. QED
    BY <2>1, <2>2 DEF Wrote
<1>2. /\ DOMAIN a = IndicesOf(loops)
      /\ \A n \in DOMAIN loops : a[loops[n].index] = loops[n].data[pos[n]][1]
  BY AtFacts
<1>3. \A n \in DOMAIN loops : n >= 1
  BY DEF LoopsShape
<1> HIDE DEF w, a
<1>4. ASSUME NEW i \in IndicesOf(loops) PROVE w[i] = a[i]
  <2>1. PICK n \in DOMAIN loops : i = loops[n].index
    BY DEF IndicesOf
  <2>2. QED
    BY <1>1, <1>2, <1>3, <2>1
<1>5. Agrees(w, a, IndicesOf(loops))
  BY <1>1, <1>2, <1>4 DEF Agrees
<1>6. QED
  BY <1>5 DEF w, a

LEMMA WrittenNext ==
    ASSUME NEW v, NEW loops, NEW pos, NEW next, LoopsShape(loops), NEW k \in DOMAIN loops,
           Agrees(v, At(loops, pos), IndicesOf(loops)),
           \A j \in DOMAIN loops : j < k => next[j] = pos[j]
    PROVE  Agrees(Written(v, loops, next, k), At(loops, next), IndicesOf(loops))
<1> DEFINE w == Written(v, loops, next, k)
           a == At(loops, next)
           b == At(loops, pos)
<1>1. /\ DOMAIN w = DOMAIN v \cup IndicesFrom(loops, k)
      /\ \A i \in DOMAIN v : i \notin IndicesFrom(loops, k) => w[i] = v[i]
      /\ \A n \in DOMAIN loops : n >= k => w[loops[n].index] = loops[n].data[next[n]][1]
  <2>1. k \in Nat
    BY DEF LoopsShape
  <2>2. Wrote(Written(v, loops, next, k), v, loops, next, k)
    BY ONLY LoopsShape(loops), <2>1, WrittenFacts
  <2>3. QED
    BY <2>1, <2>2 DEF Wrote
<1>2. /\ DOMAIN a = IndicesOf(loops)
      /\ \A n \in DOMAIN loops : a[loops[n].index] = loops[n].data[next[n]][1]
  BY AtFacts
<1>3. \A n \in DOMAIN loops : b[loops[n].index] = loops[n].data[pos[n]][1]
  BY AtFacts
<1>4. \A i \in IndicesOf(loops) : i \in DOMAIN v /\ v[i] = b[i]
  BY DEF Agrees
<1> HIDE DEF w, a, b
<1>5. ASSUME NEW i \in IndicesOf(loops) PROVE w[i] = a[i]
  <2>1. PICK n \in DOMAIN loops : i = loops[n].index
    BY DEF IndicesOf
  <2>2. CASE n >= k
    BY <1>1, <1>2, <2>1, <2>2
  <2>3. CASE ~(n >= k)
    <3>1. n < k
      BY <2>3 DEF LoopsShape
    <3>2. i \notin IndicesFrom(loops, k)
      <4> SUFFICES ASSUME NEW m \in DOMAIN loops, m >= k, loops[m].index = i PROVE FALSE
        BY DEF IndicesFrom
      <4>1. m = n
        BY <2>1 DEF LoopsShape
      <4>2. QED
        BY <2>3, <4>1
    <3>3. next[n] = pos[n]
      BY <3>1
    <3>4. w[i] = v[i] /\ v[i] = b[i]
      BY <1>1, <1>4, <3>2
    <3>5. QED
      BY <1>2, <1>3, <2>1, <3>3, <3>4
  <2>4. QED
    BY <2>2, <2>3
<1>6. Agrees(w, a, IndicesOf(loops))
  BY <1>1, <1>2, <1>4, <1>5 DEF Agrees
<1>7. QED
  BY <1>6 DEF w, a

LEMMA WrittenSame ==
    ASSUME NEW v, NEW w, NEW S, Agrees(v, w, S), NEW loops, NEW pos, LoopsShape(loops)
    PROVE  Agrees(Written(v, loops, pos, 1), Written(w, loops, pos, 1), S \cup IndicesOf(loops))
<1> DEFINE x == Written(v, loops, pos, 1)
           y == Written(w, loops, pos, 1)
           I == IndicesOf(loops)
<1>1. /\ DOMAIN x = DOMAIN v \cup I
      /\ \A i \in DOMAIN v : i \notin I => x[i] = v[i]
      /\ \A n \in DOMAIN loops : n >= 1 => x[loops[n].index] = loops[n].data[pos[n]][1]
  <2>1. 1 \in Nat /\ IndicesFrom(loops, 1) = IndicesOf(loops)
    BY FromFirst
  <2>2. Wrote(Written(v, loops, pos, 1), v, loops, pos, 1)
    BY ONLY LoopsShape(loops), <2>1, WrittenFacts
  <2>3. QED
    BY <2>1, <2>2 DEF Wrote
<1>2. /\ DOMAIN y = DOMAIN w \cup I
      /\ \A i \in DOMAIN w : i \notin I => y[i] = w[i]
      /\ \A n \in DOMAIN loops : n >= 1 => y[loops[n].index] = loops[n].data[pos[n]][1]
  <2>1. 1 \in Nat /\ IndicesFrom(loops, 1) = IndicesOf(loops)
    BY FromFirst
  <2>2. Wrote(Written(w, loops, pos, 1), w, loops, pos, 1)
    BY ONLY LoopsShape(loops), <2>1, WrittenFacts
  <2>3. QED
    BY <2>1, <2>2 DEF Wrote
<1>3. \A n \in DOMAIN loops : n >= 1
  BY DEF LoopsShape
<1> HIDE DEF x, y
<1>4. ASSUME NEW i \in I PROVE x[i] = y[i]
  <2>1. PICK n \in DOMAIN loops : i = loops[n].index
    BY DEF IndicesOf
  <2>2. QED
    BY <1>1, <1>2, <1>3, <2>1
<1> HIDE DEF I
<1>5. ASSUME NEW i \in S, i \notin I PROVE i \in DOMAIN x /\ i \in DOMAIN y /\ x[i] = y[i]
  BY <1>1, <1>2, <1>5 DEF Agrees
<1>6. Agrees(x, y, S \cup I)
  BY <1>1, <1>2, <1>4, <1>5 DEF Agrees
<1>7. QED
  BY <1>6 DEF x, y, I

-----------------------------------------------------------------------------
(* Templates and their sums.                                               *)
LoopsOfSum(r) == LoopsOf(context[Seqs[r].context])

ReadsOf(r) == ToSet(Seqs[r].template) \cap Index

(* The sums of a template read what they write, and S.                     *)
SumsRead(s, S) ==
    \A r \in SumsIn(Seqs[s].template) :
        LoopsShape(LoopsOfSum(r)) /\ ReadsOf(r) \subseteq IndicesOf(LoopsOfSum(r)) \cup S

LEMMA Templates ==
    ASSUME NEW s \in DOMAIN Seqs
    PROVE  /\ Seqs[s].context \in DOMAIN Loops
           /\ Len(Seqs[s].template) \in Nat
           /\ DOMAIN Seqs[s].template = 1..Len(Seqs[s].template)
<1>1. Seqs[s] \in SequenceType
  BY SequencesType, ElementOfSeq, LenProperties
<1>2. Seqs[s].context \in DOMAIN Loops
      /\ Seqs[s].template \in Seq(Index \cup Param \cup Num \cup DOMAIN Seqs)
  BY <1>1 DEF SequenceType
<1>3. QED
  BY <1>2, LenProperties

(* The index parameters that no sum writes are left alone.                 *)
LEMMA PartsLeave ==
    ASSUME NEW t, Len(t) \in Nat, DOMAIN t = 1..Len(t), NEW n \in 0..Len(t), NEW v,
           NEW i \in DOMAIN v, i \notin SumIndices(t)
    PROVE  i \in DOMAIN AfterParts(t, v, n) /\ AfterParts(t, v, n)[i] = v[i]
<1> DEFINE part(m) == <<t[m]>>
           last == {m \in 1..n : i \in SumIndices(part(m))}
           D == DOMAIN v \cup SumIndices(SubSeq(t, 1, n))
           value(j) == LET l == {m \in 1..n : j \in SumIndices(part(m))}
                       IN  IF l = {} THEN v[j] ELSE AfterSum(t[Max(l)], v)[j]
<1>1. AfterParts(t, v, n) = [j \in D |-> value(j)]
  BY DEF AfterParts
<1>2. ASSUME NEW m \in 1..n PROVE SumsIn(part(m)) \subseteq SumsIn(t)
  <2>1. m \in DOMAIN t
    OBVIOUS
  <2>2. DOMAIN part(m) = 1..1 /\ part(m)[1] = t[m]
    OBVIOUS
  <2> HIDE DEF part
  <2>3. ASSUME NEW r \in SumsIn(part(m)) PROVE r = t[m] /\ t[m] \in DOMAIN Seqs
    <3>1. PICK q \in DOMAIN part(m) : part(m)[q] \in DOMAIN Seqs /\ r = part(m)[q]
      BY DEF SumsIn
    <3>2. q = 1
      BY <2>2, <3>1
    <3>3. QED
      BY <2>2, <3>1, <3>2
  <2>4. QED
    BY <2>1, <2>3 DEF SumsIn
<1> HIDE DEF part
<1>3. ASSUME NEW m \in 1..n PROVE i \notin SumIndices(part(m))
  BY <1>2 DEF SumIndices
<1>4. last = {}
  BY <1>3
<1>5. value(i) = v[i]
  BY <1>4
<1> HIDE DEF value, last, D
<1>6. i \in D
  BY DEF D
<1>7. QED
  BY <1>1, <1>5, <1>6

(* A sum is the same wherever what it reads is.                            *)
LEMMA SumSame ==
    ASSUME NEW r, NEW v, NEW w, NEW S, Agrees(v, w, S), LoopsShape(LoopsOfSum(r)),
           ReadsOf(r) \subseteq IndicesOf(LoopsOfSum(r)) \cup S
    PROVE  ConvertSum(r, v) = ConvertSum(r, w)
<1> DEFINE loops == LoopsOfSum(r)
           all == Positions(loops)
           t == Seqs[r].template
           row(x, k) == [n \in DOMAIN t |-> ConvertLeaf(t[n], Written(x, loops, all[k], 1))]
<1>1. ConvertSum(r, v) = [k \in DOMAIN all |-> row(v, k)]
      /\ ConvertSum(r, w) = [k \in DOMAIN all |-> row(w, k)]
  BY DEF ConvertSum, LoopsOfSum
<1>2. ASSUME NEW k \in DOMAIN all PROVE row(v, k) = row(w, k)
  <2> DEFINE x == Written(v, loops, all[k], 1)
             y == Written(w, loops, all[k], 1)
  <2>1. Agrees(x, y, S \cup IndicesOf(loops))
    BY WrittenSame
  <2> HIDE DEF x, y
  <2>2. ASSUME NEW n \in DOMAIN t PROVE ConvertLeaf(t[n], x) = ConvertLeaf(t[n], y)
    <3>1. CASE t[n] \in Index
      <4>1. t[n] \in ReadsOf(r)
        BY <3>1 DEF ReadsOf, ToSet
      <4>2. t[n] \in S \cup IndicesOf(loops)
        BY <4>1
      <4>3. QED
        BY <2>1, <4>2 DEF Agrees, ConvertLeaf
    <3>2. CASE t[n] \notin Index
      BY <3>2 DEF ConvertLeaf
    <3>3. QED
      BY <3>1, <3>2
  <2>3. [n \in DOMAIN t |-> ConvertLeaf(t[n], x)] = [n \in DOMAIN t |-> ConvertLeaf(t[n], y)]
    BY <2>2
  <2>4. QED
    BY <2>3 DEF x, y
<1> HIDE DEF row, all
<1>3. QED
  BY <1>1, <1>2

(* Converting a template with the values of a place gives its item.        *)
LEMMA ConvertedItem ==
    ASSUME NEW s \in DOMAIN Seqs, NEW loops, NEW pos, NEW v,
           Agrees(v, At(loops, pos), IndicesOf(loops)),
           IndicesOf(loops) \cap SumIndices(Seqs[s].template) = {},
           ReadsOf(s) \subseteq IndicesOf(loops), SumsRead(s, IndicesOf(loops))
    PROVE  Convert(Seqs[s].template, v) = ItemAt(s, loops, pos)
<1> DEFINE t == Seqs[s].template
           S == IndicesOf(loops)
           a == At(loops, pos)
           w(n) == AfterParts(t, v, n - 1)
           one(n, x) == IF t[n] \in DOMAIN Seqs THEN ConvertSum(t[n], x) ELSE ConvertLeaf(t[n], x)
<1>1. Convert(t, v) = [n \in DOMAIN t |-> one(n, w(n))]
  BY DEF Convert
<1>2. ItemAt(s, loops, pos) = [n \in DOMAIN t |-> one(n, a)]
  BY DEF ItemAt
<1>3. Len(t) \in Nat /\ DOMAIN t = 1..Len(t)
  BY Templates
<1>4. /\ Agrees(v, a, S) /\ S \cap SumIndices(t) = {}
      /\ ReadsOf(s) \subseteq S
      /\ \A r \in SumsIn(t) :
            LoopsShape(LoopsOfSum(r)) /\ ReadsOf(r) \subseteq IndicesOf(LoopsOfSum(r)) \cup S
  BY DEF SumsRead
<1>5. ReadsOf(s) = ToSet(t) \cap Index
  BY DEF ReadsOf
<1> HIDE DEF t, S, a
<1>6. ASSUME NEW n \in DOMAIN t PROVE one(n, w(n)) = one(n, a)
  <2> DEFINE x == w(n)
  <2>1. Agrees(x, a, S)
    <3>1. n - 1 \in 0..Len(t)
      BY <1>3
    <3>2. \A i \in DOMAIN v : i \notin SumIndices(t) => i \in DOMAIN x /\ x[i] = v[i]
      BY ONLY <1>3, <3>1, PartsLeave
    <3>3. QED
      BY <1>4, <3>2 DEF Agrees
  <2> HIDE DEF x
  <2>2. CASE t[n] \in DOMAIN Seqs
    <3>1. t[n] \in SumsIn(t)
      BY <2>2 DEF SumsIn
    <3>2. ConvertSum(t[n], x) = ConvertSum(t[n], a)
      BY <1>4, <2>1, <3>1, SumSame
    <3>3. QED
      BY <2>2, <3>2 DEF x
  <2>3. CASE t[n] \notin DOMAIN Seqs
    <3>1. t[n] \in Index => t[n] \in S
      BY <1>4, <1>5 DEF ToSet
    <3>2. ConvertLeaf(t[n], x) = ConvertLeaf(t[n], a)
      BY <2>1, <3>1 DEF Agrees, ConvertLeaf
    <3>3. QED
      BY <2>3, <3>2 DEF x
  <2>4. QED
    BY <2>2, <2>3
<1> HIDE DEF one, w
<1>7. QED
  BY <1>1, <1>2, <1>6 DEF t, a

-----------------------------------------------------------------------------
(* The loops of a context that can be iterated.                            *)
ContextType == Seq([indices : Seq(Index), set : 1..Len(sets)])

LoopItem == {r \in [index : Index, data : Seq(Alone(Int))] : Len(r.data) > 0}

(* The factors of a set with as many factors as dimensions are simple.     *)
LEMMA FactorData ==
    ASSUME SetsShape(sets), NEW i \in 1..Len(sets), Len(FactorsOf(sets, i)) = sets[i].dim
    PROVE  /\ DOMAIN FactorsOf(sets, i) = 1..Len(FactorsOf(sets, i))
           /\ \A k \in DOMAIN FactorsOf(sets, i) :
                 sets[FactorsOf(sets, i)[k]].data \in Seq(Alone(Int))
<1>1. CASE IsProduct(sets, i)
  <2>1. FactorsOf(sets, i) = sets[i].factors
    BY <1>1 DEF FactorsOf
  <2>2. DOMAIN sets[i].factors = 1..sets[i].dim
        /\ \A k \in 1..sets[i].dim : ListsOf(sets, i)[k] = sets[FactorsOf(sets, i)[k]].data
                                     /\ ListsOf(sets, i)[k] \in Seq(Alone(Int))
    BY <1>1, ListsFacts
  <2>3. QED
    BY <2>1, <2>2
<1>2. CASE ~IsProduct(sets, i)
  <2>1. FactorsOf(sets, i) = <<i>>
    BY <1>2 DEF FactorsOf
  <2>2. sets[i].dim = 1
    BY <2>1
  <2>3. sets[i].data \in Seq(Alone(Int))
    BY <2>2, ShapeFacts, AloneLength DEF Contents
  <2>4. QED
    BY <2>1, <2>3
<1>3. QED
  BY <1>1, <1>2

LEMMA LoopsShaped ==
    ASSUME SetsShape(sets), NEW c \in ContextType, CanIterate(c)
    PROVE  LoopsShape(LoopsOf(c))
<1> DEFINE q == LoopsOf(c)
           part(n) == [k \in DOMAIN c[n].indices |->
                          [index |-> c[n].indices[k],
                           data |-> sets[FactorsOf(sets, c[n].set)[k]].data]]
           R == [n \in DOMAIN c |-> part(n)]
<1>1. /\ Len(c) \in Nat /\ DOMAIN c = 1..Len(c)
      /\ \A n \in 1..Len(c) : c[n] \in [indices : Seq(Index), set : 1..Len(sets)]
  BY LenProperties, ElementOfSeq DEF ContextType
<1>2. q = Concatenated(R, Len(c))
  BY DEF LoopsOf
<1>3. IsInjective([k \in DOMAIN q |-> q[k].index])
  BY DEF CanIterate
<1> HIDE DEF q
<1>4. ASSUME NEW n \in 1..Len(c) PROVE part(n) \in Seq(LoopItem)
  <2> DEFINE factors == FactorsOf(sets, c[n].set)
             indices == c[n].indices
  <2>1. c[n].set \in 1..Len(sets) /\ indices \in Seq(Index)
    BY <1>1
  <2>2. {Len(indices), Len(factors)} = {sets[c[n].set].dim}
        /\ \A k \in DOMAIN factors : sets[factors[k]].data # <<>>
    BY <1>1 DEF CanIterate
  <2>3. Len(factors) = sets[c[n].set].dim /\ Len(indices) = Len(factors)
    <3>1. Len(factors) \in {sets[c[n].set].dim} /\ Len(indices) \in {sets[c[n].set].dim}
      BY <2>2, Zenon
    <3>2. QED
      BY ONLY <3>1
  <2>4. DOMAIN factors = 1..Len(factors)
        /\ \A k \in DOMAIN factors : sets[factors[k]].data \in Seq(Alone(Int))
    BY <2>1, <2>3, FactorData
  <2>5. Len(indices) \in Nat /\ DOMAIN indices = 1..Len(indices) /\ DOMAIN factors = DOMAIN indices
        /\ \A k \in DOMAIN indices : indices[k] \in Index
    BY <2>1, <2>3, <2>4, LenProperties, ElementOfSeq
  <2> HIDE DEF factors, indices
  <2>6. ASSUME NEW k \in DOMAIN indices
        PROVE  [index |-> indices[k], data |-> sets[factors[k]].data] \in LoopItem
    <3>1. sets[factors[k]].data \in Seq(Alone(Int)) /\ sets[factors[k]].data # <<>>
      BY <2>2, <2>4, <2>5
    <3>2. Len(sets[factors[k]].data) > 0
      BY <3>1, EmptySeq, LenProperties
    <3>3. QED
      BY <2>5, <3>1, <3>2 DEF LoopItem
  <2>7. part(n) = [k \in 1..Len(indices) |-> [index |-> indices[k], data |-> sets[factors[k]].data]]
    BY <2>5 DEF factors, indices
  <2> HIDE DEF part
  <2>8. part(n) \in [1..Len(indices) -> LoopItem]
    BY <2>5, <2>6, <2>7
  <2>9. QED
    BY <2>5, <2>8
<1> HIDE DEF part
<1>5. \A n \in 1..Len(c) : R[n] \in Seq(LoopItem)
  BY <1>1, <1>4
<1> HIDE DEF R
<1>6. q \in Seq(LoopItem)
  BY <1>1, <1>2, <1>5, ConcatenatedMembers DEF HoldsParts
<1>7. Len(q) \in Nat /\ DOMAIN q = 1..Len(q) /\ \A k \in 1..Len(q) : q[k] \in LoopItem
  BY <1>6, LenProperties, ElementOfSeq
<1>8. \A m, n \in 1..Len(q) : q[m].index = q[n].index => m = n
  BY <1>3, <1>7 DEF IsInjective
<1>9. \A k \in 1..Len(q) : q[k].data \in Seq(Alone(Int)) /\ Len(q[k].data) > 0
  BY <1>7 DEF LoopItem
<1>10. LoopsShape(q)
  BY <1>7, <1>8, <1>9 DEF LoopsShape
<1>11. QED
  BY <1>10 DEF q

-----------------------------------------------------------------------------
(* Sums whose contexts stay as they are go over the same loops.            *)
SumsStay(s) ==
    sets' = sets /\ \A r \in SumsIn(Seqs[s].template) :
                        context'[Seqs[r].context] = context[Seqs[r].context]

LEMMA LoopsStay ==
    ASSUME sets' = sets, NEW c
    PROVE  LoopsOf(c)' = LoopsOf(c)
BY DEF LoopsOf

LEMMA SumStays ==
    ASSUME sets' = sets, NEW r, context'[Seqs[r].context] = context[Seqs[r].context], NEW v
    PROVE  LoopsOfSum(r)' = LoopsOfSum(r) /\ ConvertSum(r, v)' = ConvertSum(r, v)
<1> DEFINE c == context[Seqs[r].context]
           loops == LoopsOf(c)
<1>1. LoopsOf(context[Seqs[r].context])' = loops
  BY LoopsStay
<1>2. QED
  BY <1>1 DEF LoopsOfSum, ConvertSum

LEMMA SumsStayed ==
    ASSUME NEW s \in DOMAIN Seqs, SumsStay(s), NEW loops, NEW S
    PROVE  /\ AllItems(s, loops)' = AllItems(s, loops)
           /\ SumIndices(Seqs[s].template)' = SumIndices(Seqs[s].template)
           /\ SumsRead(s, S)' <=> SumsRead(s, S)
<1> DEFINE t == Seqs[s].template
<1>1. \A r \in SumsIn(t) : LoopsOfSum(r)' = LoopsOfSum(r)
                           /\ \A v : ConvertSum(r, v)' = ConvertSum(r, v)
  BY SumStays DEF SumsStay
<1>2. SumIndices(t) = UNION {IndicesOf(LoopsOfSum(r)) : r \in SumsIn(t)}
  BY DEF SumIndices, LoopsOfSum
<1>3. SumIndices(t)' = UNION {IndicesOf(LoopsOfSum(r)') : r \in SumsIn(t)}
  BY DEF SumIndices, LoopsOfSum
<1>4. SumIndices(t)' = SumIndices(t)
  BY <1>1, <1>2, <1>3
<1>5. SumsRead(s, S)' <=> SumsRead(s, S)
  BY <1>1 DEF SumsRead
<1>6. ASSUME NEW pos PROVE ItemAt(s, loops, pos)' = ItemAt(s, loops, pos)
  <2> DEFINE a == At(loops, pos)
             one(n) == IF t[n] \in DOMAIN Seqs THEN ConvertSum(t[n], a) ELSE ConvertLeaf(t[n], a)
             onePrimed(n) == IF t[n] \in DOMAIN Seqs THEN ConvertSum(t[n], a)' ELSE ConvertLeaf(t[n], a)
  <2>1. ItemAt(s, loops, pos) = [n \in DOMAIN t |-> one(n)]
    BY DEF ItemAt
  <2>2. ItemAt(s, loops, pos)' = [n \in DOMAIN t |-> onePrimed(n)]
    BY DEF ItemAt
  <2>3. ASSUME NEW n \in DOMAIN t PROVE one(n) = onePrimed(n)
    <3>1. CASE t[n] \in DOMAIN Seqs
      <4>1. t[n] \in SumsIn(t)
        BY <3>1 DEF SumsIn
      <4>2. QED
        BY <1>1, <3>1, <4>1
    <3>2. CASE t[n] \notin DOMAIN Seqs
      BY <3>2
    <3>3. QED
      BY <3>1, <3>2
  <2> HIDE DEF one, onePrimed
  <2>4. QED
    BY <2>1, <2>2, <2>3
<1> DEFINE all == Positions(loops)
<1>7. AllItems(s, loops) = [k \in DOMAIN all |-> ItemAt(s, loops, all[k])]
  BY DEF AllItems
<1>8. AllItems(s, loops)' = [k \in DOMAIN all |-> ItemAt(s, loops, all[k])']
  BY DEF AllItems
<1>9. AllItems(s, loops)' = AllItems(s, loops)
  BY <1>6, <1>7, <1>8
<1>10. QED
  BY <1>4, <1>5, <1>9

-----------------------------------------------------------------------------
(* What an iterator is that another may have interfered with, and one that *)
(* none has.                                                               *)
IterFields == {"seq", "loops", "pos", "done", "item", "yielded", "alone"}

LiveShape(i) ==
    /\ DOMAIN i = IterFields /\ i.done \in BOOLEAN /\ i.alone \in BOOLEAN
    /\ i.seq \in DOMAIN Seqs /\ LoopsShape(i.loops) /\ DOMAIN i.pos = DOMAIN i.loops

GoesInOrder(i, v) ==
    LET all == Positions(i.loops)
        m == Len(i.yielded)
        items == AllItems(i.seq, i.loops)
    IN  /\ ReadsOf(i.seq) \subseteq IndicesOf(i.loops) /\ SumsRead(i.seq, IndicesOf(i.loops))
        /\ IndicesOf(i.loops) \cap SumIndices(Seqs[i.seq].template) = {}
        /\ m \in 1..Len(all) /\ i.pos = all[m]
        /\ i.yielded = SubSeq(items, 1, m) /\ i.item = items[m]
        /\ i.done => m = Len(all)
        /\ ~i.done => Agrees(v, At(i.loops, i.pos), IndicesOf(i.loops))

LEMMA PartsAgree ==
    ASSUME NEW s \in DOMAIN Seqs, NEW v, NEW a, NEW S, Agrees(v, a, S),
           S \cap SumIndices(Seqs[s].template) = {}
    PROVE  Agrees(AfterParts(Seqs[s].template, v, Len(Seqs[s].template)), a, S)
<1> DEFINE t == Seqs[s].template
           x == AfterParts(t, v, Len(t))
<1>1. Len(t) \in Nat /\ DOMAIN t = 1..Len(t)
  BY Templates
<1>2. S \cap SumIndices(t) = {}
  OBVIOUS
<1> HIDE DEF t
<1>3. Len(t) \in 0..Len(t)
  BY <1>1
<1>4. \A i \in DOMAIN v : i \notin SumIndices(t) => i \in DOMAIN x /\ x[i] = v[i]
  BY ONLY <1>1, <1>3, PartsLeave
<1> HIDE DEF x
<1>5. Agrees(x, a, S)
  BY <1>2, <1>4 DEF Agrees
<1>6. QED
  BY <1>5 DEF x, t

(* What an iterator of s over the loops yields.                            *)
AreItems(items, s, loops, X) ==
    /\ items \in Seq(X) /\ Len(items) = Len(Positions(loops))
    /\ DOMAIN items = DOMAIN Positions(loops)
    /\ \A k \in DOMAIN items : items[k] \in X /\ items[k] = ItemAt(s, loops, Positions(loops)[k])

LEMMA ItemsSeq ==
    ASSUME NEW s, NEW loops, Len(Positions(loops)) \in Nat,
           DOMAIN Positions(loops) = 1..Len(Positions(loops))
    PROVE  AreItems(AllItems(s, loops), s, loops, {AllItems(s, loops)[k] : k \in DOMAIN AllItems(s, loops)})
<1> DEFINE items == AllItems(s, loops)
           n == Len(Positions(loops))
           X == {items[k] : k \in DOMAIN items}
<1>1. items = [k \in 1..n |-> ItemAt(s, loops, Positions(loops)[k])] /\ n \in Nat
  BY DEF AllItems
<1> HIDE DEF items, n
<1>2. DOMAIN items = 1..n /\ \A k \in 1..n : items[k] = ItemAt(s, loops, Positions(loops)[k])
  BY <1>1
<1>3. items \in [1..n -> X]
  BY <1>1, <1>2
<1> HIDE DEF X
<1>4. items \in Seq(X) /\ Len(items) = n
  BY <1>1, <1>3
<1>5. \A k \in DOMAIN items : items[k] \in X
  BY DEF X
<1>6. DOMAIN items = DOMAIN Positions(loops)
  BY <1>2 DEF n
<1>7. AreItems(items, s, loops, X)
  BY <1>2, <1>4, <1>5, <1>6 DEF AreItems, n
<1>8. QED
  BY <1>7 DEF X, items

(* The items up to a place, and one more.                                  *)
LEMMA ItemsUpTo ==
    ASSUME NEW X, NEW items \in Seq(X)
    PROVE  /\ Len(items) > 0 => SubSeq(items, 1, 1) = <<items[1]>>
           /\ \A m \in 1..Len(items) : /\ Len(SubSeq(items, 1, m)) = m
                                       /\ m + 1 <= Len(items) =>
                                             Append(SubSeq(items, 1, m), items[m + 1])
                                                = SubSeq(items, 1, m + 1)
           /\ SubSeq(items, 1, Len(items)) = items
<1>1. Len(items) \in Nat /\ \A k \in 1..Len(items) : items[k] \in X
  BY LenProperties, ElementOfSeq
<1>2. ASSUME NEW m \in 1..Len(items)
      PROVE  SubSeq(items, 1, m) \in Seq(X) /\ Len(SubSeq(items, 1, m)) = m
             /\ SubSeq(items, 1, m)[1] = items[1]
  <2>1. m \in Int /\ 1 \in Int /\ 1 <= m /\ (m - 1) + 1 = m /\ \A k \in 1..m : items[k] \in X
    BY <1>1
  <2>2. /\ SubSeq(items, 1, m) \in Seq(X)
        /\ Len(SubSeq(items, 1, m)) = IF 1 <= m THEN m - 1 + 1 ELSE 0
        /\ \A i \in 1..(m - 1 + 1) : SubSeq(items, 1, m)[i] = items[1 + i - 1]
    BY ONLY <2>1, SubSeqProperties
  <2>3. 1 \in 1..(m - 1 + 1) /\ 1 + 1 - 1 = 1
    BY <2>1
  <2>4. QED
    BY <2>1, <2>2, <2>3
<1>3. ASSUME Len(items) > 0 PROVE SubSeq(items, 1, 1) = <<items[1]>>
  <2> DEFINE p == SubSeq(items, 1, 1)
  <2>1. 1 \in 1..Len(items)
    BY <1>1, <1>3
  <2>2. p \in Seq(X) /\ Len(p) = 1 /\ p[1] = items[1]
    BY <1>2, <2>1
  <2> HIDE DEF p
  <2>3. p = <<p[1]>>
    BY ONLY <2>2
  <2>4. QED
    BY <2>2, <2>3 DEF p
<1>4. ASSUME NEW m \in 1..Len(items), m + 1 <= Len(items)
      PROVE  Append(SubSeq(items, 1, m), items[m + 1]) = SubSeq(items, 1, m + 1)
  <2>1. 1 \in 1..Len(items) /\ m + 1 \in 1..Len(items) /\ (m + 1) - 1 = m
    BY <1>1, <1>4
  <2>2. SubSeq(items, 1, m + 1) = SubSeq(items, 1, (m + 1) - 1) \o <<items[m + 1]>>
    BY <2>1, SubSeqRecursiveSecond
  <2>3. Append(SubSeq(items, 1, m), items[m + 1]) = SubSeq(items, 1, m) \o <<items[m + 1]>>
    <3>1. SubSeq(items, 1, m) \in Seq(X) /\ items[m + 1] \in X
      BY <1>1, <1>2, <2>1
    <3>2. QED
      BY ONLY <3>1, AppendIsConcat
  <2>4. QED
    BY <2>1, <2>2, <2>3
<1>5. SubSeq(items, 1, Len(items)) = items
  BY SubSeqFull
<1>6. QED
  BY <1>2, <1>3, <1>4, <1>5

(* What does not change its index parameters leaves an iterator in order.  *)
LEMMA LeftInOrder ==
    ASSUME NEW i, NEW v, NEW w, GoesInOrder(i, v),
           \A x \in IndicesOf(i.loops) : x \in DOMAIN v => x \in DOMAIN w /\ w[x] = v[x]
    PROVE  GoesInOrder(i, w)
<1>1. Agrees(v, At(i.loops, i.pos), IndicesOf(i.loops)) => Agrees(w, At(i.loops, i.pos), IndicesOf(i.loops))
  BY DEF Agrees
<1>2. QED
  BY <1>1 DEF GoesInOrder

LEMMA OrderStays ==
    ASSUME NEW i, NEW v, i.seq \in DOMAIN Seqs, SumsStay(i.seq), GoesInOrder(i, v)
    PROVE  GoesInOrder(i, v)'
<1> DEFINE s == i.seq
           S == IndicesOf(i.loops)
<1>1. /\ AllItems(s, i.loops)' = AllItems(s, i.loops)
      /\ SumIndices(Seqs[s].template)' = SumIndices(Seqs[s].template)
      /\ SumsRead(s, S)' <=> SumsRead(s, S)
  BY SumsStayed
<1>2. QED
  BY <1>1 DEF GoesInOrder

(* A new iterator.                                                         *)
LEMMA BeginsInOrder ==
    ASSUME NEW s \in DOMAIN Seqs, NEW loops, LoopsShape(loops),
           ReadsOf(s) \subseteq IndicesOf(loops), SumsRead(s, IndicesOf(loops)),
           IndicesOf(loops) \cap SumIndices(Seqs[s].template) = {},
           NEW u, NEW i, LiveShape(i), i.seq = s, i.loops = loops, i.pos = First(loops), ~i.done,
           i.item = Convert(Seqs[s].template, Written(u, loops, First(loops), 1)),
           i.yielded = <<i.item>>
    PROVE  GoesInOrder(i, AfterParts(Seqs[s].template, Written(u, loops, First(loops), 1),
                                     Len(Seqs[s].template)))
<1> DEFINE all == Positions(loops)
           S == IndicesOf(loops)
           t == Seqs[s].template
           v == Written(u, loops, First(loops), 1)
           w == AfterParts(t, v, Len(t))
           items == AllItems(s, loops)
           X == {items[k] : k \in DOMAIN items}
<1>1. Counted(all, SizesOf(loops), Len(loops))
  BY PositionsCounted
<1>2. Len(all) \in Nat /\ Len(all) > 0 /\ DOMAIN all = 1..Len(all)
  BY <1>1, LenProperties DEF Counted
<1>3. 1 \in 1..Len(all)
  BY <1>2
<1>4. First(loops) = all[1]
  BY <1>3, NextCounted
<1>5. Agrees(v, At(loops, First(loops)), S)
  BY WrittenAll
<1>6. Convert(t, v) = ItemAt(s, loops, First(loops))
  BY <1>5, ConvertedItem
<1>7. Agrees(w, At(loops, First(loops)), S)
  BY <1>5, PartsAgree
<1>8. items \in Seq(X) /\ Len(items) = Len(all) /\ DOMAIN items = DOMAIN all
      /\ \A k \in DOMAIN items : items[k] = ItemAt(s, loops, all[k])
  <2>1. AreItems(items, s, loops, X)
    BY <1>2, ItemsSeq
  <2>2. QED
    BY <2>1 DEF AreItems
<1>9. i.item = items[1]
  BY <1>2, <1>3, <1>4, <1>6, <1>8
<1> HIDE DEF items, X, all, S, v, w, t
<1>10. SubSeq(items, 1, 1) = <<items[1]>>
  BY <1>2, <1>8, ItemsUpTo
<1>11. Len(i.yielded) = 1 /\ i.yielded = SubSeq(items, 1, 1)
  BY <1>9, <1>10
<1>12. GoesInOrder(i, w)
  BY <1>3, <1>4, <1>7, <1>9, <1>11 DEF GoesInOrder, items, all, S, t
<1>13. QED
  BY <1>12 DEF w, v, t

(* operator++ of an iterator that no other interfered with.                *)
LEMMA AdvancesInOrder ==
    ASSUME NEW i, LiveShape(i), NEW u, GoesInOrder(i, u), ~i.done,
           NEW k, k = Unfinished(i.loops, i.pos), k # 0
    PROVE  LET pos == NextPosition(i.loops, i.pos)
               t == Seqs[i.seq].template
               v == Written(u, i.loops, pos, k)
           IN  GoesInOrder([i EXCEPT !.pos = pos, !.item = Convert(t, v),
                                     !.yielded = Append(@, Convert(t, v))],
                           AfterParts(t, v, Len(t)))
<1> DEFINE s == i.seq
           loops == i.loops
           all == Positions(loops)
           S == IndicesOf(loops)
           t == Seqs[s].template
           m == Len(i.yielded)
           pos == NextPosition(loops, i.pos)
           v == Written(u, loops, pos, k)
           w == AfterParts(t, v, Len(t))
           items == AllItems(s, loops)
           X == {items[q] : q \in DOMAIN items}
           j == [i EXCEPT !.pos = pos, !.item = Convert(t, v), !.yielded = Append(@, Convert(t, v))]
<1>1. /\ s \in DOMAIN Seqs /\ LoopsShape(loops) /\ DOMAIN i = IterFields
      /\ ReadsOf(s) \subseteq S /\ SumsRead(s, S) /\ S \cap SumIndices(t) = {}
      /\ m \in 1..Len(all) /\ i.pos = all[m] /\ i.yielded = SubSeq(items, 1, m)
      /\ Agrees(u, At(loops, i.pos), S)
  BY DEF LiveShape, GoesInOrder
<1>2. /\ Len(all) \in Nat /\ DOMAIN all = 1..Len(all)
      /\ k \in DOMAIN loops /\ m + 1 \in 1..Len(all) /\ pos = all[m + 1]
      /\ \A q \in DOMAIN loops : q < k => pos[q] = i.pos[q]
  <2> DEFINE l == Unfinished(loops, all[m])
             next == NextPosition(loops, all[m])
  <2>1. LoopsShape(loops) /\ m \in 1..Len(Positions(loops))
    BY <1>1
  <2>2. /\ Len(all) \in Nat /\ DOMAIN all = 1..Len(all) /\ (l = 0 <=> m = Len(all))
        /\ m # Len(all) => /\ l \in DOMAIN loops /\ m + 1 \in 1..Len(all) /\ next = all[m + 1]
                           /\ \A q \in DOMAIN loops : q < l => all[m + 1][q] = all[m][q]
    BY ONLY <2>1, NextCounted
  <2>3. k = l /\ l # 0 /\ pos = next /\ i.pos = all[m]
    BY <1>1
  <2> HIDE DEF l, next, pos, all, m, loops
  <2>4. QED
    BY ONLY <2>2, <2>3
<1>3. Agrees(v, At(loops, pos), S)
  BY <1>1, <1>2, WrittenNext
<1>4. Convert(t, v) = ItemAt(s, loops, pos)
  BY <1>1, <1>3, ConvertedItem
<1>5. Agrees(w, At(loops, pos), S)
  BY <1>1, <1>3, PartsAgree
<1>6. items \in Seq(X) /\ Len(items) = Len(all) /\ DOMAIN items = DOMAIN all
      /\ \A q \in DOMAIN items : items[q] = ItemAt(s, loops, all[q])
  <2>1. AreItems(items, s, loops, X)
    BY <1>2, ItemsSeq
  <2>2. QED
    BY <2>1 DEF AreItems
<1>7. Convert(t, v) = items[m + 1]
  BY <1>2, <1>4, <1>6
<1>8. /\ j.seq = s /\ j.loops = loops /\ j.pos = pos /\ j.done = i.done
      /\ j.item = Convert(t, v) /\ j.yielded = Append(i.yielded, Convert(t, v))
  BY <1>1 DEF IterFields
<1> HIDE DEF items, X, all, v, w, t, pos, m, s, S, loops, j
<1>9. m \in Nat /\ m + 1 <= Len(all) /\ m + 1 \in 1..Len(items) /\ m \in 1..Len(items)
  BY <1>1, <1>2, <1>6
<1>10. j.yielded = SubSeq(items, 1, m + 1) /\ Len(j.yielded) = m + 1
  <2>1. /\ Append(SubSeq(items, 1, m), items[m + 1]) = SubSeq(items, 1, m + 1)
        /\ Len(SubSeq(items, 1, m + 1)) = m + 1
    BY <1>6, <1>9, ItemsUpTo
  <2>2. QED
    BY <1>1, <1>7, <1>8, <2>1
<1>11. GoesInOrder(j, w)
  BY <1>1, <1>2, <1>5, <1>7, <1>8, <1>10 DEF GoesInOrder, items, all, S, t, s
<1>12. QED
  BY <1>11 DEF j, w, v, t, s, pos, loops

LEMMA EndsInOrder ==
    ASSUME NEW i, LiveShape(i), NEW u, GoesInOrder(i, u), Unfinished(i.loops, i.pos) = 0, NEW w
    PROVE  GoesInOrder([i EXCEPT !.done = TRUE], w)
<1> DEFINE all == Positions(i.loops)
           m == Len(i.yielded)
           j == [i EXCEPT !.done = TRUE]
<1>1. m \in 1..Len(all) /\ i.pos = all[m] /\ LoopsShape(i.loops) /\ DOMAIN i = IterFields
  BY DEF GoesInOrder, LiveShape
<1>2. m = Len(all)
  BY <1>1, NextCounted
<1>3. /\ j.seq = i.seq /\ j.loops = i.loops /\ j.pos = i.pos /\ j.done
      /\ j.item = i.item /\ j.yielded = i.yielded
  BY <1>1 DEF IterFields
<1> HIDE DEF j
<1>4. GoesInOrder(j, w)
  BY <1>2, <1>3 DEF GoesInOrder
<1>5. QED
  BY <1>4 DEF j

-----------------------------------------------------------------------------
(* The invariant: contexts with loops over sets there are, iterators that  *)
(* go in order unless another interfered, and entries expand() can expand. *)
ContextsOK ==
    /\ Len(Given) <= Len(sets)
    /\ context # <<>> => DOMAIN context = DOMAIN Loops
                         /\ \A c \in DOMAIN Loops : context[c] \in ContextType

IterOK(it) ==
    Live(it) => /\ context # <<>> /\ LiveShape(iter[it])
                /\ iter[it].alone => GoesInOrder(iter[it], ival)

ItersOK == DOMAIN iter = Iter \cup {Expander} /\ \A it \in DOMAIN iter : IterOK(it)

EntriesOK ==
    entry # 0 => context # <<>> /\ \A e \in DOMAIN Entries : ~IsVariable(e) => Proper(Entries[e].seq)

(* expand() has an iterator at an entry that is a sequence only.           *)
ExpanderOK ==
    /\ entry \in 0..(Len(Entries) + 1)
    /\ Live(Expander) => entry \in DOMAIN Entries /\ ~IsVariable(entry)

CompactInv == SetsInv(sets) /\ ContextsOK /\ ItersOK /\ EntriesOK /\ ExpanderOK

(* What can be iterated has loops as they should be.                       *)
LEMMA ProperFacts ==
    ASSUME SetsInv(sets), ContextsOK, context # <<>>, NEW s \in DOMAIN Seqs, Proper(s)
    PROVE  /\ LoopsShape(LoopsOfSum(s)) /\ ReadsOf(s) \subseteq IndicesOf(LoopsOfSum(s))
           /\ SumsRead(s, IndicesOf(LoopsOfSum(s)))
<1> DEFINE t == Seqs[s].template
<1>1. /\ \A r \in {s} \cup SumsIn(t) : CanIterate(context[Seqs[r].context])
      /\ ToSet(t) \cap Index \subseteq IndicesOf(LoopsOfSum(s))
      /\ \A r \in SumsIn(t) : ToSet(Seqs[r].template) \cap Index
                                \subseteq IndicesOf(LoopsOfSum(r)) \cup IndicesOf(LoopsOfSum(s))
  BY DEF Proper, LoopsOfSum
<1>2. \A r \in SumsIn(t) : r \in DOMAIN Seqs
  BY DEF SumsIn
<1> HIDE DEF t
<1>3. ASSUME NEW r \in {s} \cup SumsIn(t) PROVE LoopsShape(LoopsOfSum(r))
  <2>1. r \in DOMAIN Seqs
    BY <1>2
  <2>2. context[Seqs[r].context] \in ContextType
    BY <2>1, Templates DEF ContextsOK
  <2>3. SetsShape(sets) /\ CanIterate(context[Seqs[r].context])
    BY <1>1 DEF SetsInv
  <2>4. QED
    BY <2>2, <2>3, LoopsShaped DEF LoopsOfSum
<1>4. \A r \in SumsIn(t) : ReadsOf(r) \subseteq IndicesOf(LoopsOfSum(r)) \cup IndicesOf(LoopsOfSum(s))
  BY <1>1 DEF ReadsOf
<1>5. SumsRead(s, IndicesOf(LoopsOfSum(s)))
  BY <1>3, <1>4 DEF SumsRead, t
<1>6. ReadsOf(s) \subseteq IndicesOf(LoopsOfSum(s))
  BY <1>1 DEF ReadsOf, t
<1>7. QED
  BY <1>3, <1>5, <1>6

(* What an iterator writes when it begins or goes on.                      *)
LEMMA WritesOnly ==
    ASSUME NEW s \in DOMAIN Seqs, NEW loops, LoopsShape(loops), NEW pos, NEW k \in Nat, NEW v
    PROVE  \A x \in DOMAIN v : x \notin IndicesFrom(loops, k) \cup SumIndices(Seqs[s].template) =>
              LET w == AfterParts(Seqs[s].template, Written(v, loops, pos, k), Len(Seqs[s].template))
              IN  x \in DOMAIN w /\ w[x] = v[x]
<1> DEFINE t == Seqs[s].template
           u == Written(v, loops, pos, k)
           w == AfterParts(t, u, Len(t))
<1>1. Len(t) \in Nat /\ DOMAIN t = 1..Len(t)
  BY Templates
<1>2. Len(t) \in 0..Len(t)
  BY <1>1
<1>3. Wrote(u, v, loops, pos, k)
  BY WrittenFacts
<1>4. \A x \in DOMAIN v : x \notin IndicesFrom(loops, k) => x \in DOMAIN u /\ u[x] = v[x]
  BY <1>3 DEF Wrote
<1> HIDE DEF t, u
<1>5. \A x \in DOMAIN u : x \notin SumIndices(t) => x \in DOMAIN w /\ w[x] = u[x]
  BY ONLY <1>1, <1>2, PartsLeave
<1> HIDE DEF w
<1>6. \A x \in DOMAIN v : x \notin IndicesFrom(loops, k) \cup SumIndices(t) => x \in DOMAIN w /\ w[x] = v[x]
  BY <1>4, <1>5
<1>7. QED
  BY <1>6 DEF w, u, t

(* The other iterators: those whose index parameters were written are not  *)
(* alone any more.                                                         *)
LEMMA OthersStay ==
    ASSUME ItersOK, UNCHANGED <<sets, context>>, NEW it \in DOMAIN iter, NEW S, NEW w, ival' = w,
           \A x \in DOMAIN ival : x \notin S => x \in DOMAIN w /\ w[x] = ival[x],
           context # <<>>, NEW i, LiveShape(i), i.alone => GoesInOrder(i, w),
           DOMAIN iter' = DOMAIN iter, iter'[it] = i,
           \A j \in DOMAIN iter : j # it => iter'[j] = Disturbed(it, S)[j]
    PROVE  ItersOK'
<1>1. ASSUME NEW j, LiveShape(j), j.alone => GoesInOrder(j, w)
      PROVE  j.alone => GoesInOrder(j, w)'
  <2>1. SumsStay(j.seq) /\ j.seq \in DOMAIN Seqs
    BY <1>1 DEF SumsStay, LiveShape
  <2>2. QED
    BY <1>1, <2>1, OrderStays
<1>2. ASSUME NEW j \in DOMAIN iter, NEW r, r = iter'[j], r.seq # 0
      PROVE  LiveShape(r) /\ (r.alone => GoesInOrder(r, w)')
  <2> DEFINE o == iter[j]
             n == [o EXCEPT !.alone = FALSE, !.yielded = <<>>]
  <2>1. CASE j = it
    <3>1. r = i
      BY <1>2, <2>1
    <3>2. i.alone => GoesInOrder(i, w)'
      BY <1>1
    <3>3. QED
      BY <3>1, <3>2
  <2>2. CASE j # it /\ ~(Live(j) /\ IndicesOf(o.loops) \cap S # {})
    <3>1. r = o
      BY <1>2, <2>2 DEF Disturbed
    <3>2. IterOK(j) /\ Live(j)
      BY <1>2, <3>1 DEF ItersOK, Live
    <3>3. LiveShape(o) /\ (o.alone => GoesInOrder(o, ival)) /\ IndicesOf(o.loops) \cap S = {}
      BY <2>2, <3>2 DEF IterOK
    <3> HIDE DEF o
    <3>4. LiveShape(r) /\ (r.alone => GoesInOrder(r, ival)) /\ IndicesOf(r.loops) \cap S = {}
      BY <3>1, <3>3
    <3>5. r.alone => GoesInOrder(r, w)
      BY <3>4, LeftInOrder
    <3>6. QED
      BY <1>1, <3>4, <3>5
  <2>3. CASE j # it /\ Live(j) /\ IndicesOf(o.loops) \cap S # {}
    <3>1. r = n
      BY <1>2, <2>3 DEF Disturbed
    <3>2. LiveShape(o)
      BY <2>3 DEF ItersOK, IterOK
    <3>3. LiveShape(n) /\ ~n.alone
      BY <3>2 DEF LiveShape, IterFields
    <3>4. QED
      BY <3>1, <3>3
  <2>4. QED
    BY <2>1, <2>2, <2>3
<1>3. DOMAIN iter' = Iter \cup {Expander}
  BY DEF ItersOK
<1>4. ASSUME NEW j \in DOMAIN iter PROVE IterOK(j)'
  BY <1>2 DEF IterOK, Live
<1>5. QED
  BY <1>3, <1>4 DEF ItersOK

LEMMA BeginKeeps ==
    ASSUME SetsInv(sets), ContextsOK, ItersOK, context # <<>>, NEW it \in DOMAIN iter,
           NEW s \in DOMAIN Seqs, Proper(s), Begin(it, s), UNCHANGED <<sets, context>>
    PROVE  ItersOK'
<1> DEFINE t == Seqs[s].template
           loops == LoopsOfSum(s)
           v == Written(ival, loops, First(loops), 1)
           item == Convert(t, v)
           w == AfterParts(t, v, Len(t))
           S == IndicesOf(loops) \cup SumIndices(t)
           i == [seq |-> s, loops |-> loops, pos |-> First(loops), done |-> FALSE,
                 item |-> item, yielded |-> <<item>>,
                 alone |-> IndicesOf(loops) \cap SumIndices(t) = {}]
<1>1. ival' = w /\ iter' = [Disturbed(it, S) EXCEPT ![it] = i]
  BY DEF Begin, LoopsOfSum
<1>2. /\ LoopsShape(loops) /\ ReadsOf(s) \subseteq IndicesOf(loops)
      /\ SumsRead(s, IndicesOf(loops))
  BY ProperFacts
<1>3. IndicesFrom(loops, 1) = IndicesOf(loops)
  BY <1>2, FromFirst
<1>4. \A x \in DOMAIN ival : x \notin S => x \in DOMAIN w /\ w[x] = ival[x]
  <2>1. 1 \in Nat /\ LoopsShape(loops) /\ s \in DOMAIN Seqs
    BY <1>2
  <2>2. \A x \in DOMAIN ival : x \notin IndicesFrom(loops, 1) \cup SumIndices(t) =>
           x \in DOMAIN w /\ w[x] = ival[x]
    BY ONLY <2>1, WritesOnly
  <2>3. QED
    BY <1>3, <2>2
<1> HIDE DEF loops
<1>5. LiveShape(i)
  <2>1. DOMAIN i = IterFields
    BY DEF IterFields
  <2>2. i.done = FALSE /\ i.alone \in BOOLEAN /\ i.seq = s /\ i.loops = loops /\ i.pos = First(loops)
    OBVIOUS
  <2>3. DOMAIN First(loops) = DOMAIN loops
    BY DEF First
  <2> HIDE DEF i
  <2>4. QED
    BY <1>2, <2>1, <2>2, <2>3 DEF LiveShape
<1>6. ASSUME i.alone PROVE GoesInOrder(i, w)
  <2>1. /\ i.seq = s /\ i.loops = loops /\ i.pos = First(loops) /\ ~i.done
        /\ i.item = item /\ i.yielded = <<i.item>> /\ IndicesOf(loops) \cap SumIndices(t) = {}
    BY <1>6
  <2> HIDE DEF i
  <2>2. QED
    BY <1>2, <1>5, <2>1, BeginsInOrder
<1>7. /\ DOMAIN iter' = DOMAIN iter /\ iter'[it] = i
      /\ \A j \in DOMAIN iter : j # it => iter'[j] = Disturbed(it, S)[j]
  <2>1. DOMAIN Disturbed(it, S) = DOMAIN iter
    BY DEF Disturbed
  <2> HIDE DEF i, S
  <2>2. QED
    BY <1>1, <2>1
<1> HIDE DEF i, S, w
<1>8. QED
  BY <1>1, <1>4, <1>5, <1>6, <1>7, OthersStay

LEMMA AdvanceKeeps ==
    ASSUME ItersOK, NEW it \in DOMAIN iter, Running(it), Advance(it), UNCHANGED <<sets, context>>
    PROVE  ItersOK'
<1> DEFINE o == iter[it]
           loops == o.loops
           t == Seqs[o.seq].template
           k == Unfinished(loops, o.pos)
           moved(n) == {loops[q].index : q \in {m \in DOMAIN o.pos : m >= n}}
<1>1. /\ context # <<>> /\ LiveShape(o) /\ (o.alone => GoesInOrder(o, ival))
      /\ Live(it) /\ ~o.done
  BY DEF ItersOK, IterOK, Running
<1>2. /\ DOMAIN o = IterFields /\ o.done \in BOOLEAN /\ o.alone \in BOOLEAN
      /\ o.seq \in DOMAIN Seqs /\ LoopsShape(loops) /\ DOMAIN o.pos = DOMAIN loops
  BY <1>1 DEF LiveShape
<1>3. \A n \in Nat : moved(n) = IndicesFrom(loops, n)
  BY <1>2 DEF IndicesFrom
<1>4. ASSUME NEW S PROVE DOMAIN Disturbed(it, S) = DOMAIN iter /\ Disturbed(it, S)[it] = o
  BY DEF Disturbed
<1>5. CASE k = 0
  <2> DEFINE S == moved(1)
             w == Written(ival, loops, First(loops), 1)
             i == [o EXCEPT !.done = TRUE]
  <2>1. ival' = w /\ iter' = [Disturbed(it, S) EXCEPT ![it].done = TRUE]
    BY <1>5 DEF Advance
  <2>2. \A x \in DOMAIN ival : x \notin S => x \in DOMAIN w /\ w[x] = ival[x]
    <3>1. 1 \in Nat /\ LoopsShape(loops)
      BY <1>2
    <3>2. Wrote(w, ival, loops, First(loops), 1)
      BY ONLY <3>1, WrittenFacts
    <3>3. S = IndicesFrom(loops, 1)
      BY <1>3
    <3>4. QED
      BY <3>2, <3>3 DEF Wrote
  <2> HIDE DEF S, w
  <2>3. /\ DOMAIN iter' = DOMAIN iter /\ iter'[it] = i
        /\ \A j \in DOMAIN iter : j # it => iter'[j] = Disturbed(it, S)[j]
    BY <1>4, <2>1
  <2>4. LiveShape(i) /\ i.alone = o.alone
    BY <1>2 DEF LiveShape, IterFields
  <2>5. i.alone => GoesInOrder(i, w)
    BY <1>1, <1>5, <2>4, EndsInOrder
  <2> HIDE DEF i, o
  <2>6. QED
    BY <1>1, <2>1, <2>2, <2>3, <2>4, <2>5, OthersStay
<1>6. CASE k # 0
  <2> DEFINE pos == NextPosition(loops, o.pos)
             v == Written(ival, loops, pos, k)
             item == Convert(t, v)
             w == AfterParts(t, v, Len(t))
             S == moved(k) \cup SumIndices(t)
             i == [o EXCEPT !.pos = pos, !.item = item,
                            !.yielded = IF o.alone THEN Append(@, item) ELSE @]
  <2>1. ival' = w /\ iter' = [Disturbed(it, S) EXCEPT
              ![it].pos = pos, ![it].item = item,
              ![it].yielded = IF o.alone THEN Append(@, item) ELSE @]
    <3>1. \E pos1 \in {pos} : \E v1 \in {Written(ival, loops, pos1, k)} : \E item1 \in {Convert(t, v1)} :
             /\ ival' = AfterParts(t, v1, Len(t))
             /\ iter' = [Disturbed(it, S) EXCEPT
                   ![it].pos = pos1, ![it].item = item1,
                   ![it].yielded = IF o.alone THEN Append(@, item1) ELSE @]
      <4> DEFINE Goes(k1) == \E pos1 \in {pos} : \E v1 \in {Written(ival, loops, pos1, k1)} :
                             \E item1 \in {Convert(t, v1)} :
                /\ ival' = AfterParts(t, v1, Len(t))
                /\ iter' = [Disturbed(it, moved(k1) \cup SumIndices(t)) EXCEPT
                      ![it].pos = pos1, ![it].item = item1,
                      ![it].yielded = IF o.alone THEN Append(@, item1) ELSE @]
                 Ends == /\ ival' = Written(ival, loops, First(loops), 1)
                         /\ iter' = [Disturbed(it, moved(1)) EXCEPT ![it].done = TRUE]
      <4>1. \E k1 \in {k} : IF k1 = 0 THEN Ends ELSE Goes(k1)
        BY DEF Advance
      <4> HIDE DEF Goes, Ends
      <4>2. Goes(k)
        BY <1>6, <4>1
      <4>3. QED
        BY <4>2 DEF Goes
    <3> HIDE DEF S, t, pos
    <3>2. QED
      BY ONLY <3>1, Zenon
  <2>2. k \in Nat
    <3>1. k \in DOMAIN o.pos
      BY <1>6 DEF Unfinished
    <3>2. QED
      BY <1>2, <3>1 DEF LoopsShape
  <2>3. \A x \in DOMAIN ival : x \notin S => x \in DOMAIN w /\ w[x] = ival[x]
    <3>1. o.seq \in DOMAIN Seqs /\ LoopsShape(loops)
      BY <1>2
    <3> HIDE DEF k
    <3>2. \A x \in DOMAIN ival : x \notin IndicesFrom(loops, k) \cup SumIndices(t) =>
             x \in DOMAIN w /\ w[x] = ival[x]
      BY ONLY <2>2, <3>1, WritesOnly
    <3>3. S = IndicesFrom(loops, k) \cup SumIndices(t)
      BY <1>3, <2>2
    <3>4. QED
      BY <3>2, <3>3
  <2>4. DOMAIN pos = DOMAIN loops
    BY <1>2 DEF NextPosition
  <2>5. ASSUME o.alone PROVE GoesInOrder([o EXCEPT !.pos = pos, !.item = item, !.yielded = Append(@, item)], w)
    BY <1>1, <1>6, <2>5, AdvancesInOrder
  <2> HIDE DEF S, w, pos, item, v
  <2>6. /\ DOMAIN iter' = DOMAIN iter /\ iter'[it] = i
        /\ \A j \in DOMAIN iter : j # it => iter'[j] = Disturbed(it, S)[j]
    BY <1>2, <1>4, <2>1 DEF IterFields
  <2>7. LiveShape(i) /\ i.alone = o.alone
    BY <1>2, <2>4 DEF LiveShape, IterFields
  <2>8. ASSUME i.alone PROVE GoesInOrder(i, w)
    <3>1. o.alone
      BY <2>7, <2>8
    <3>2. i = [o EXCEPT !.pos = pos, !.item = item, !.yielded = Append(@, item)]
      BY <3>1
    <3> HIDE DEF i
    <3>3. QED
      BY <2>5, <3>1, <3>2
  <2> HIDE DEF i, o
  <2>9. QED
    BY <1>1, <2>1, <2>3, <2>6, <2>7, <2>8, OthersStay
<1>7. QED
  BY <1>5, <1>6

(* A context someone has gets another loop.                                *)
LEMMA ForallKeeps ==
    ASSUME ContextsOK, ItersOK, NEW more \in More, Forall(more)
    PROVE  ItersOK' /\ ContextsOK'
<1> DEFINE c == more.context
           longer == Append(context[c], more.loop)
           sums(o) == \E r \in SumsIn(Seqs[o.seq].template) : Seqs[r].context = c
<1>1. /\ sets' = sets /\ ival' = ival /\ context # <<>>
      /\ context' = [context EXCEPT ![c] = longer]
      /\ iter' = [it \in DOMAIN iter |->
                     IF Live(it) /\ sums(iter[it])
                     THEN [iter[it] EXCEPT !.alone = FALSE, !.yielded = <<>>] ELSE iter[it]]
  BY DEF Forall
<1>2. c \in DOMAIN Loops /\ more.loop \in LoopType /\ more.loop.set # 0
  BY LoopsType
<1>3. /\ DOMAIN context = DOMAIN Loops /\ Len(Given) <= Len(sets)
      /\ \A b \in DOMAIN Loops : context[b] \in ContextType
  BY <1>1 DEF ContextsOK
<1>4. longer \in ContextType
  <2>1. more.loop \in [indices : Seq(Index), set : 1..Len(sets)]
    <3>1. Len(Given) \in Nat
      BY GivenSets, LenProperties
    <3>2. more.loop.set \in 1..Len(sets)
      BY <1>2, <1>3, <3>1 DEF LoopType
    <3>3. QED
      BY <1>2, <3>2 DEF LoopType
  <2>2. context[c] \in ContextType
    BY <1>2, <1>3
  <2>3. QED
    BY <2>1, <2>2, AppendProperties DEF ContextType
<1> HIDE DEF longer, c
<1>5. DOMAIN context' = DOMAIN Loops /\ context' # <<>>
      /\ \A b \in DOMAIN Loops : context'[b] \in ContextType /\ (b # c => context'[b] = context[b])
  <2>1. DOMAIN context' = DOMAIN Loops
        /\ \A b \in DOMAIN Loops : context'[b] = IF b = c THEN longer ELSE context[b]
    BY <1>1, <1>3
  <2>2. context' # <<>>
    <3>1. DOMAIN context' # {}
      BY <1>2, <2>1
    <3>2. QED
      BY <3>1
  <2>3. QED
    BY <1>3, <1>4, <2>1, <2>2
<1>6. ContextsOK'
  BY <1>1, <1>3, <1>5 DEF ContextsOK, ContextType
<1>7. ASSUME NEW it \in DOMAIN iter, NEW r, r = iter'[it], r.seq # 0, NEW v, v = ival
      PROVE  LiveShape(r) /\ (r.alone => GoesInOrder(r, v)')
  <2> DEFINE o == iter[it]
             n == [o EXCEPT !.alone = FALSE, !.yielded = <<>>]
  <2>1. CASE Live(it) /\ sums(o)
    <3>1. r = n
      BY <1>1, <1>7, <2>1
    <3>2. LiveShape(o)
      BY <2>1 DEF ItersOK, IterOK
    <3>3. LiveShape(n) /\ ~n.alone
      BY <3>2 DEF LiveShape, IterFields
    <3>4. QED
      BY <3>1, <3>3
  <2>2. CASE ~(Live(it) /\ sums(o))
    <3>1. r = o
      BY <1>1, <1>7, <2>2
    <3>2. Live(it) /\ ~sums(o)
      BY <1>7, <2>2, <3>1 DEF Live
    <3>3. LiveShape(o) /\ (o.alone => GoesInOrder(o, ival))
      BY <3>2 DEF ItersOK, IterOK
    <3> HIDE DEF o, sums
    <3>4. LiveShape(r) /\ ~sums(r) /\ (r.alone => GoesInOrder(r, v))
      BY <1>7, <3>1, <3>2, <3>3
    <3>5. r.seq \in DOMAIN Seqs
      BY <3>4 DEF LiveShape
    <3>6. SumsStay(r.seq)
      <4>1. ASSUME NEW u \in SumsIn(Seqs[r.seq].template)
            PROVE  context'[Seqs[u].context] = context[Seqs[u].context]
        <5>1. u \in DOMAIN Seqs
          BY DEF SumsIn
        <5>2. Seqs[u].context \in DOMAIN Loops
          BY <5>1, Templates
        <5>3. Seqs[u].context # c
          BY <3>4 DEF sums
        <5>4. QED
          BY <1>5, <5>2, <5>3
      <4>2. QED
        BY <1>1, <4>1 DEF SumsStay
    <3>7. r.alone => GoesInOrder(r, v)'
      BY <3>4, <3>5, <3>6, OrderStays
    <3>8. QED
      BY <3>4, <3>7
  <2>3. QED
    BY <2>1, <2>2
<1>8. DOMAIN iter' = DOMAIN iter /\ DOMAIN iter' = Iter \cup {Expander}
  BY <1>1 DEF ItersOK
<1>9. ASSUME NEW j \in DOMAIN iter PROVE IterOK(j)'
  <2> SUFFICES ASSUME iter'[j].seq # 0
               PROVE  LiveShape(iter'[j]) /\ (iter'[j].alone => GoesInOrder(iter[j], ival)')
    BY <1>5 DEF IterOK, Live
  <2>1. QED
    BY <1>1, <1>7
<1>10. ItersOK'
  BY <1>8, <1>9 DEF ItersOK
<1>11. QED
  BY <1>6, <1>10

(* Steps that iterate nothing.                                             *)
LEMMA NotIterated ==
    ASSUME ItersOK, UNCHANGED <<sets, context, ival>>, DOMAIN iter' = DOMAIN iter,
           \A it \in DOMAIN iter : iter'[it].seq = 0 \/ iter'[it] = iter[it]
    PROVE  ItersOK'
<1>1. ASSUME NEW it \in DOMAIN iter, NEW r, r = iter'[it], r.seq # 0, NEW v, v = ival
      PROVE  context # <<>> /\ LiveShape(r) /\ (r.alone => GoesInOrder(r, v)')
  <2>1. r = iter[it]
    BY <1>1
  <2>2. Live(it)
    BY <1>1, <2>1 DEF Live
  <2>3. context # <<>> /\ LiveShape(r) /\ (r.alone => GoesInOrder(r, v))
    BY <1>1, <2>1, <2>2 DEF ItersOK, IterOK
  <2>4. r.seq \in DOMAIN Seqs /\ SumsStay(r.seq)
    BY <2>3 DEF LiveShape, SumsStay
  <2>5. r.alone => GoesInOrder(r, v)'
    BY <2>3, <2>4, OrderStays
  <2>6. QED
    BY <2>3, <2>5
<1>2. ASSUME NEW j \in DOMAIN iter PROVE IterOK(j)'
  BY <1>1 DEF IterOK, Live
<1>3. DOMAIN iter' = Iter \cup {Expander}
  BY DEF ItersOK
<1>4. QED
  BY <1>2, <1>3 DEF ItersOK

(* The client's steps with sets, before it has contexts.                   *)
LEMMA SetsKeep ==
    ASSUME CompactInv, MakeSets
    PROVE  CompactInv'
<1>1. /\ context = <<>> /\ SetNext /\ UNCHANGED <<context, ival, iter, entry>>
  BY DEF MakeSets, modelVars
<1>2. SetsInv(sets') /\ Len(sets) <= Len(sets')
  BY <1>1, SetStep DEF CompactInv
<1>3. Len(sets) \in Nat /\ Len(sets') \in Nat /\ Len(Given) \in Nat
  BY <1>2, ShapeFacts, GivenSets, LenProperties DEF CompactInv, SetsInv
<1>4. ContextsOK'
  BY <1>1, <1>2, <1>3 DEF CompactInv, ContextsOK
<1>5. ItersOK'
  BY <1>1 DEF CompactInv, ItersOK, IterOK, Live
<1>6. EntriesOK'
  BY <1>1 DEF CompactInv, EntriesOK
<1>7. ExpanderOK'
  BY <1>1 DEF CompactInv, ExpanderOK, Live
<1>8. QED
  BY <1>2, <1>4, <1>5, <1>6, <1>7 DEF CompactInv

LEMMA ContextsKeep ==
    ASSUME CompactInv, MakeContexts
    PROVE  CompactInv'
<1>1. /\ context = <<>> /\ UNCHANGED <<sets, ival, iter, entry>>
      /\ context' = [c \in DOMAIN Loops |->
                        [n \in DOMAIN Loops[c] |->
                            [Loops[c][n] EXCEPT !.set = IF @ = 0 THEN Len(sets) ELSE @]]]
  BY DEF MakeContexts, modelVars
<1>2. /\ Len(sets) \in Nat /\ Len(Given) \in Nat /\ Len(Given) > 0 /\ Len(Given) <= Len(sets)
  BY ShapeFacts, GivenSets, LenProperties, EmptySeq DEF CompactInv, SetsInv, ContextsOK
<1>3. ASSUME NEW c \in DOMAIN Loops PROVE context'[c] \in ContextType
  <2> DEFINE l == Loops[c]
             set(n) == IF l[n].set = 0 THEN Len(sets) ELSE l[n].set
             T == [indices : Seq(Index), set : 1..Len(sets)]
             q == [n \in 1..Len(l) |-> [l[n] EXCEPT !.set = set(n)]]
  <2>1. Loops[c] \in Seq(LoopType)
    BY LoopsType, ElementOfSeq, LenProperties
  <2>2. Len(l) \in Nat /\ DOMAIN l = 1..Len(l) /\ \A n \in 1..Len(l) : l[n] \in LoopType
    BY <2>1, LenProperties, ElementOfSeq
  <2>3. context'[c] = q
    BY <1>1, <2>2
  <2> HIDE DEF l
  <2>4. ASSUME NEW n \in 1..Len(l) PROVE [l[n] EXCEPT !.set = set(n)] \in T
    <3>1. l[n] \in [indices : Seq(Index), set : 0..Len(Given)]
      BY <2>2 DEF LoopType
    <3>2. set(n) \in 1..Len(sets)
      BY <1>2, <3>1
    <3> HIDE DEF set
    <3>3. QED
      BY <3>1, <3>2
  <2> HIDE DEF set, T
  <2>5. q \in [1..Len(l) -> T]
    BY <2>4
  <2> HIDE DEF q
  <2>6. q \in Seq(T)
    BY <2>2, <2>5
  <2>7. QED
    BY <2>3, <2>6 DEF ContextType, T
<1>4. DOMAIN context' = DOMAIN Loops
  BY <1>1
<1>5. ContextsOK'
  BY <1>1, <1>2, <1>3, <1>4 DEF ContextsOK, ContextType
<1>6. ItersOK'
  BY <1>1 DEF CompactInv, ItersOK, IterOK, Live
<1>7. EntriesOK'
  BY <1>1 DEF CompactInv, EntriesOK
<1>8. ExpanderOK'
  BY <1>1 DEF CompactInv, ExpanderOK, Live
<1>9. QED
  BY <1>1, <1>5, <1>6, <1>7, <1>8 DEF CompactInv

LEMMA SequenceEntries ==
    ASSUME NEW e \in DOMAIN Entries, ~IsVariable(e)
    PROVE  Entries[e].seq \in DOMAIN Seqs
<1>1. Entries[e] \in [var : Param \cup Num \cup {0}, seq : 0..Len(Seqs)]
  BY EntriesType, ElementOfSeq, LenProperties
<1>2. Entries[e].seq # 0
  BY EntriesType DEF IsVariable
<1>3. DOMAIN Seqs = 1..Len(Seqs) /\ Len(Seqs) \in Nat
  BY SequencesType, LenProperties
<1>4. QED
  BY <1>1, <1>2, <1>3

(* What can be iterated still can while sets and contexts are as they were.*)
LEMMA ProperStays ==
    ASSUME UNCHANGED <<sets, context>>, NEW s
    PROVE  Proper(s)' <=> Proper(s)
<1>1. \A c : LoopsOf(c)' = LoopsOf(c)
  BY LoopsStay
<1>2. ASSUME NEW c PROVE CanIterate(c)' <=> CanIterate(c)
  BY <1>1 DEF CanIterate
<1>3. \A r : LoopsOf(context[Seqs[r].context])' = LoopsOf(context[Seqs[r].context])
  BY <1>1
<1>4. \A r : CanIterate(context[Seqs[r].context])' <=> CanIterate(context[Seqs[r].context])
  BY <1>2
<1>5. QED
  BY <1>3, <1>4 DEF Proper

LEMMA CompactInit == Init => CompactInv
<1> SUFFICES ASSUME Init PROVE CompactInv
  OBVIOUS
<1>1. /\ sets = Given /\ context = <<>> /\ entry = 0
      /\ iter = [it \in Iter \cup {Expander} |-> Unused]
  BY DEF Init, SetInit
<1>2. Len(Given) \in Nat
  BY GivenSets, LenProperties
<1>3. SetsInv(sets) /\ ContextsOK
  BY <1>1, <1>2, GivenInv DEF ContextsOK
<1>4. ItersOK
  BY <1>1 DEF ItersOK, IterOK, Live, Unused
<1>5. ExpanderOK
  <2>1. Len(Entries) \in Nat
    BY EntriesType, LenProperties
  <2>2. QED
    BY <1>1, <2>1 DEF ExpanderOK, Live, Unused
<1>6. QED
  BY <1>1, <1>3, <1>4, <1>5 DEF CompactInv, EntriesOK

(* Where expand() is.                                                      *)
LEMMA ExpanderStep ==
    ASSUME ItersOK, ExpanderOK, [Next]_vars
    PROVE  ExpanderOK'
<1>1. Len(Entries) \in Nat /\ DOMAIN Entries = 1..Len(Entries)
  BY EntriesType, LenProperties
<1>2. Expander \in DOMAIN iter
  BY DEF ItersOK
<1>3. ASSUME entry' = entry, ~Live(Expander) => iter'[Expander] = iter[Expander] PROVE ExpanderOK'
  BY <1>3 DEF ExpanderOK, Live
<1>4. ASSUME NEW it \in DOMAIN iter, NEW S
      PROVE  DOMAIN Disturbed(it, S) = DOMAIN iter
             /\ (~Live(Expander) => Disturbed(it, S)[Expander] = iter[Expander])
  BY <1>2 DEF Disturbed
<1>5. ASSUME entry' = entry, NEW it \in Iter,
             \E S : iter'[Expander] = Disturbed(it, S)[Expander]
      PROVE  ExpanderOK'
  <2>1. it \in DOMAIN iter
    BY DEF ItersOK
  <2>2. QED
    BY <1>3, <1>4, <1>5, <2>1
<1>6. CASE MakeSets \/ MakeContexts \/ UNCHANGED vars
  <2>1. UNCHANGED <<iter, entry>>
    BY <1>6 DEF MakeSets, MakeContexts, vars, modelVars
  <2>2. QED
    BY <1>3, <2>1
<1>7. ASSUME NEW more \in More, Forall(more) PROVE ExpanderOK'
  <2>1. entry' = entry /\ (~Live(Expander) => iter'[Expander] = iter[Expander])
    BY <1>2, <1>7 DEF Forall, modelVars
  <2>2. QED
    BY <1>3, <2>1
<1>8. ASSUME NEW p \in Param, SetParam(p) PROVE ExpanderOK'
  <2>1. UNCHANGED <<iter, entry>>
    BY <1>8 DEF SetParam, modelVars
  <2>2. QED
    BY <1>3, <2>1
<1>9. ASSUME NEW it \in Iter, BeginIter(it) PROVE ExpanderOK'
  <2>1. PICK s \in DOMAIN Seqs : Begin(it, s)
    BY <1>9 DEF BeginIter
  <2>2. \E S : iter'[Expander] = Disturbed(it, S)[Expander]
    <3>1. PICK S, i : iter' = [Disturbed(it, S) EXCEPT ![it] = i]
      BY <2>1 DEF Begin
    <3>2. Expander # it /\ Expander \in DOMAIN Disturbed(it, S)
      BY <1>2, OwnIterator DEF Disturbed
    <3>3. QED
      BY <3>1, <3>2
  <2>3. entry' = entry
    BY <1>9 DEF BeginIter, modelVars
  <2>4. QED
    BY <1>5, <2>2, <2>3
<1>10. ASSUME NEW it \in Iter, StepIter(it) PROVE ExpanderOK'
  <2>1. Advance(it) /\ entry' = entry
    BY <1>10 DEF StepIter, modelVars
  <2>2. \E S : iter'[Expander] = Disturbed(it, S)[Expander]
    <3> DEFINE o == iter[it]
               t == Seqs[o.seq].template
               moved(k) == {o.loops[n].index : n \in {m \in DOMAIN o.pos : m >= k}}
               Goes(k) == \E pos \in {NextPosition(o.loops, o.pos)} :
                          \E v \in {Written(ival, o.loops, pos, k)} :
                          \E item \in {Convert(t, v)} :
                   /\ ival' = AfterParts(t, v, Len(t))
                   /\ iter' = [Disturbed(it, moved(k) \cup SumIndices(t)) EXCEPT
                         ![it].pos = pos, ![it].item = item,
                         ![it].yielded = IF o.alone THEN Append(@, item) ELSE @]
               Ends == /\ ival' = Written(ival, o.loops, First(o.loops), 1)
                       /\ iter' = [Disturbed(it, moved(1)) EXCEPT ![it].done = TRUE]
    <3>1. \E k \in {Unfinished(o.loops, o.pos)} : IF k = 0 THEN Ends ELSE Goes(k)
      BY <2>1 DEF Advance
    <3>2. Expander # it /\ \A S : Expander \in DOMAIN Disturbed(it, S)
      BY <1>2, OwnIterator DEF Disturbed
    <3> HIDE DEF moved, o
    <3>3. ASSUME Ends PROVE \E S : iter'[Expander] = Disturbed(it, S)[Expander]
      BY <3>2, <3>3
    <3>4. ASSUME NEW k, Goes(k) PROVE \E S : iter'[Expander] = Disturbed(it, S)[Expander]
      BY <3>2, <3>4
    <3> HIDE DEF Goes, Ends
    <3>5. QED
      BY <3>1, <3>3, <3>4
  <2>3. QED
    BY <1>5, <2>1, <2>2
<1>11. CASE Expand
  BY <1>1, <1>11 DEF Expand, ExpanderOK, Live
<1>12. CASE ExpandVariable
  BY <1>1, <1>12 DEF ExpandVariable, ExpanderOK, Live
<1>13. CASE ExpandBegin
  BY <1>1, <1>13 DEF ExpandBegin, ExpanderOK, modelVars
<1>14. CASE ExpandNext
  BY <1>14 DEF ExpandNext, ExpanderOK, Running
<1>15. CASE ExpandEnd
  <2>1. entry \in 1..Len(Entries) /\ entry' = entry + 1 /\ ~Live(Expander)'
    BY <1>1, <1>2, <1>15 DEF ExpandEnd, ExpanderOK, Live, Unused
  <2>2. QED
    BY <1>1, <2>1 DEF ExpanderOK
<1>16. CASE Return
  <2>1. ~Live(Expander) /\ entry' = 0 /\ iter' = iter
    BY <1>1, <1>16 DEF Return, ExpanderOK
  <2>2. QED
    BY <1>1, <2>1 DEF ExpanderOK, Live
<1>17. QED
  BY <1>6, <1>7, <1>8, <1>9, <1>10, <1>11, <1>12, <1>13, <1>14, <1>15, <1>16 DEF Next, Expanding

(* The client's steps, and those of expand().                              *)
LEMMA CompactStep == CompactInv /\ [Next]_vars => CompactInv'
<1> SUFFICES ASSUME CompactInv, [Next]_vars PROVE CompactInv'
  OBVIOUS
<1>1. /\ SetsInv(sets) /\ ContextsOK /\ ItersOK /\ EntriesOK /\ DOMAIN iter = Iter \cup {Expander}
      /\ ExpanderOK'
  BY ExpanderStep DEF CompactInv, ItersOK
<1>2. ASSUME UNCHANGED <<sets, context>> PROVE SetsInv(sets)' /\ ContextsOK'
  BY <1>1, <1>2 DEF ContextsOK, ContextType
<1>3. ASSUME UNCHANGED <<sets, context>>, entry # 0 \/ entry' = 0 PROVE EntriesOK'
  BY <1>1, <1>3, ProperStays DEF EntriesOK
<1>4. ASSUME UNCHANGED <<sets, context, ival, iter>>, ItersOK PROVE ItersOK'
  BY <1>4, NotIterated
<1>5. CASE MakeSets
  BY <1>5, SetsKeep
<1>6. CASE MakeContexts
  BY <1>6, ContextsKeep
<1>7. ASSUME NEW more \in More, Forall(more) PROVE CompactInv'
  <2>1. entry = 0 /\ entry' = 0 /\ sets' = sets
    BY <1>7 DEF Forall, modelVars
  <2>2. ItersOK' /\ ContextsOK'
    BY <1>1, <1>7, ForallKeeps
  <2>3. QED
    BY <1>1, <2>1, <2>2 DEF CompactInv, EntriesOK
<1>8. ASSUME NEW p \in Param, SetParam(p) PROVE CompactInv'
  <2>1. UNCHANGED <<sets, context, ival, iter>> /\ entry' = 0
    BY <1>8 DEF SetParam, modelVars
  <2>2. QED
    BY <1>1, <1>2, <1>3, <1>4, <2>1 DEF CompactInv
<1>9. ASSUME NEW it \in Iter, BeginIter(it) PROVE CompactInv'
  <2>1. UNCHANGED <<sets, context>> /\ entry' = 0 /\ context # <<>> /\ it \in DOMAIN iter
    BY <1>1, <1>9 DEF BeginIter, modelVars
  <2>2. PICK s \in DOMAIN Seqs : Proper(s) /\ Begin(it, s)
    BY <1>9 DEF BeginIter
  <2>3. ItersOK'
    BY <1>1, <2>1, <2>2, BeginKeeps
  <2>4. QED
    BY <1>1, <1>2, <1>3, <2>1, <2>3 DEF CompactInv
<1>10. ASSUME NEW it \in Iter, StepIter(it) PROVE CompactInv'
  <2>1. UNCHANGED <<sets, context>> /\ entry' = 0 /\ Running(it) /\ Advance(it) /\ it \in DOMAIN iter
    BY <1>1, <1>10 DEF StepIter, modelVars
  <2>2. ItersOK'
    BY <1>1, <2>1, AdvanceKeeps
  <2>3. QED
    BY <1>1, <1>2, <1>3, <2>1, <2>2 DEF CompactInv
<1>11. CASE Expand
  <2>1. /\ UNCHANGED <<sets, context, ival, iter>> /\ context # <<>>
        /\ \A e \in DOMAIN Entries : ~IsVariable(e) => Proper(Entries[e].seq)
    BY <1>11 DEF Expand
  <2>2. EntriesOK'
    BY <2>1, ProperStays DEF EntriesOK
  <2>3. QED
    BY <1>1, <1>2, <1>4, <2>1, <2>2 DEF CompactInv
<1>12. CASE ExpandVariable
  <2>1. UNCHANGED <<sets, context, ival, iter>> /\ entry # 0
    <3>1. DOMAIN Entries = 1..Len(Entries)
      BY EntriesType, LenProperties
    <3>2. QED
      BY <1>12, <3>1 DEF ExpandVariable
  <2>2. QED
    BY <1>1, <1>2, <1>3, <1>4, <2>1 DEF CompactInv
<1>13. CASE ExpandBegin
  <2>1. /\ UNCHANGED <<sets, context>> /\ entry # 0 /\ entry \in DOMAIN Entries /\ ~IsVariable(entry)
        /\ Begin(Expander, Entries[entry].seq) /\ Expander \in DOMAIN iter
    <3>1. DOMAIN Entries = 1..Len(Entries)
      BY EntriesType, LenProperties
    <3>2. QED
      BY <1>1, <1>13, <3>1 DEF ExpandBegin
  <2>2. context # <<>> /\ Proper(Entries[entry].seq) /\ Entries[entry].seq \in DOMAIN Seqs
    BY <1>1, <2>1, SequenceEntries DEF EntriesOK
  <2>3. ItersOK'
    BY <1>1, <2>1, <2>2, BeginKeeps
  <2>4. QED
    BY <1>1, <1>2, <1>3, <2>1, <2>3 DEF CompactInv
<1>14. CASE ExpandNext
  <2>1. /\ UNCHANGED <<sets, context, entry>> /\ Running(Expander) /\ Advance(Expander)
        /\ Expander \in DOMAIN iter
    BY <1>1, <1>14 DEF ExpandNext
  <2>2. ItersOK'
    BY <1>1, <2>1, AdvanceKeeps
  <2>3. QED
    BY <1>1, <1>2, <1>3, <2>1, <2>2 DEF CompactInv
<1>15. CASE ExpandEnd
  <2>1. UNCHANGED <<sets, context, ival>> /\ iter' = [iter EXCEPT ![Expander] = Unused]
    BY <1>15 DEF ExpandEnd
  <2>2. ItersOK'
    <3>1. DOMAIN iter' = DOMAIN iter /\ \A it \in DOMAIN iter : iter'[it].seq = 0 \/ iter'[it] = iter[it]
      BY <2>1 DEF Unused
    <3>2. QED
      BY <1>1, <2>1, <3>1, NotIterated
  <2>3. entry # 0
    <3>1. Live(Expander) /\ DOMAIN Entries = 1..Len(Entries)
      BY <1>15, EntriesType, LenProperties DEF ExpandEnd
    <3>2. QED
      BY <3>1 DEF CompactInv, ExpanderOK
  <2>4. QED
    BY <1>1, <1>2, <1>3, <2>1, <2>2, <2>3 DEF CompactInv
<1>16. CASE Return
  <2>1. UNCHANGED <<sets, context, ival, iter>> /\ entry' = 0
    BY <1>16 DEF Return
  <2>2. QED
    BY <1>1, <1>2, <1>3, <1>4, <2>1 DEF CompactInv
<1>17. CASE UNCHANGED vars
  <2>1. UNCHANGED <<sets, context, ival, iter, entry>>
    BY <1>17 DEF vars, modelVars
  <2>2. QED
    BY <1>1, <1>2, <1>3, <1>4, <2>1 DEF CompactInv
<1>18. QED
  BY <1>5, <1>6, <1>7, <1>8, <1>9, <1>10, <1>11, <1>12, <1>13, <1>14, <1>15, <1>16, <1>17
     DEF Next, Expanding

(* The contexts, the iterators no other interfered with and the entries    *)
(* expand() is at are as CompactInv says.                                  *)
THEOREM CompactInvariant == Spec => []CompactInv
BY CompactInit, CompactStep, PTL DEF Spec

(* An iterator no other one interfered with has gone through the elements  *)
(* of the product of its sets in their order, all of them when it is done  *)
(* (SequenceContext, ExpressionSeqIterator::operator++).                   *)
THEOREM IteratorsInOrder == Spec => []IteratesInOrder
<1>1. CompactInv => IteratesInOrder
  <2> SUFFICES ASSUME CompactInv, NEW it \in DOMAIN iter, Live(it), iter[it].alone
               PROVE  LET i == iter[it]
                          all == AllItems(i.seq, i.loops)
                      IN  i.yielded = IF i.done THEN all ELSE SubSeq(all, 1, Len(i.yielded))
    BY DEF IteratesInOrder
  <2> DEFINE i == iter[it]
             all == AllItems(i.seq, i.loops)
             m == Len(i.yielded)
  <2>1. GoesInOrder(i, ival) /\ LiveShape(i)
    BY DEF CompactInv, ItersOK, IterOK
  <2>2. LoopsShape(i.loops) /\ m \in 1..Len(Positions(i.loops))
        /\ i.yielded = SubSeq(all, 1, m) /\ (i.done => m = Len(Positions(i.loops)))
    BY <2>1 DEF GoesInOrder, LiveShape
  <2> DEFINE X == {all[k] : k \in DOMAIN all}
  <2>3. Len(Positions(i.loops)) \in Nat /\ DOMAIN Positions(i.loops) = 1..Len(Positions(i.loops))
    BY <2>2, NextCounted
  <2>4. AreItems(all, i.seq, i.loops, X)
    BY <2>3, ItemsSeq
  <2> HIDE DEF X, all
  <2>5. SubSeq(all, 1, Len(all)) = all /\ Len(all) = Len(Positions(i.loops))
    BY <2>4, ItemsUpTo DEF AreItems
  <2>6. QED
    BY <2>2, <2>5 DEF all
<1>2. QED
  BY <1>1, CompactInvariant, PTL

-----------------------------------------------------------------------------
(* What expand() has made so far: the rows of the entries before the one   *)
(* it is at, and of the items its iterator has left behind.                *)
OwnAll == \A e \in DOMAIN Entries : ~IsVariable(e) => OwnIndices(Entries[e].seq)

AllRows == [e \in DOMAIN Entries |-> ExpectedRows(e)]

Left(o) == IF o.done THEN Len(o.yielded) ELSE Len(o.yielded) - 1

RowsAre(r, e, o) ==
    IF o.seq = 0 THEN r = Concatenated(AllRows, e - 1)
    ELSE /\ o.alone /\ o.seq = Entries[e].seq /\ o.loops = LoopsOfSum(o.seq)
         /\ r = Concatenated(AllRows, e - 1) \o SubSeq(AllRows[e], 1, Left(o))

BoundsOK ==
    /\ pval \in [Param -> Num] /\ DOMAIN bound = DOMAIN Entries
    /\ \A e \in DOMAIN Entries : IsVariable(e) => bound[e] \in Param \cup Num

ExpandedOK ==
    /\ entry = 0 => rows = <<>>
    /\ entry # 0 => /\ \A e \in DOMAIN Entries : e < entry /\ IsVariable(e) => bound[e] \in Num
                    /\ OwnAll => RowsAre(rows, entry, iter[Expander])

(* The rows of an entry.                                                   *)
LEMMA RowsOfSequence ==
    ASSUME CompactInv, entry # 0, NEW e \in DOMAIN Entries, ~IsVariable(e)
    PROVE  LET s == Entries[e].seq
               items == AllItems(s, LoopsOfSum(s))
           IN  /\ Len(Positions(LoopsOfSum(s))) \in Nat
               /\ ExpectedRows(e) = [k \in 1..Len(Positions(LoopsOfSum(s))) |-> <<e, items[k]>>]
<1> DEFINE s == Entries[e].seq
           loops == LoopsOfSum(s)
<1>1. s \in DOMAIN Seqs
  BY SequenceEntries
<1>2. LoopsShape(loops)
  BY <1>1, ProperFacts DEF CompactInv, EntriesOK
<1>3. Len(Positions(loops)) \in Nat /\ DOMAIN Positions(loops) = 1..Len(Positions(loops))
  <2>1. Counted(Positions(loops), SizesOf(loops), Len(loops))
    BY <1>2, PositionsCounted
  <2>2. QED
    BY <2>1, LenProperties DEF Counted
<1>4. DOMAIN AllItems(s, loops) = 1..Len(Positions(loops))
  BY <1>3 DEF AllItems
<1>5. QED
  BY <1>3, <1>4 DEF ExpectedRows, LoopsOfSum

LEMMA RowsTyped ==
    ASSUME CompactInv, entry # 0
    PROVE  \E Y : \A e \in DOMAIN Entries : AllRows[e] \in Seq(Y) /\ ExpectedRows(e) = AllRows[e]
<1> DEFINE rowsOf(e) == {ExpectedRows(e)[k] : k \in DOMAIN ExpectedRows(e)}
           Y == UNION {rowsOf(e) : e \in DOMAIN Entries}
<1>1. \A e \in DOMAIN Entries : AllRows[e] = ExpectedRows(e)
  BY DEF AllRows
<1>2. ASSUME NEW e \in DOMAIN Entries PROVE ExpectedRows(e) \in Seq(Y)
  <2>1. \E n \in Nat : DOMAIN ExpectedRows(e) = 1..n /\ ExpectedRows(e) \in [1..n -> rowsOf(e)]
    <3>1. CASE IsVariable(e)
      <4>1. ExpectedRows(e) = <<<<e>>>>
        BY <3>1 DEF ExpectedRows
      <4>2. ExpectedRows(e) = [k \in 1..1 |-> <<e>>] /\ DOMAIN ExpectedRows(e) = 1..1
        BY <4>1
      <4>3. QED
        BY <4>2
    <3>2. CASE ~IsVariable(e)
      <4> DEFINE s == Entries[e].seq
                 n == Len(Positions(LoopsOfSum(s)))
                 items == AllItems(s, LoopsOfSum(s))
      <4>1. n \in Nat /\ ExpectedRows(e) = [k \in 1..n |-> <<e, items[k]>>]
        BY <3>2, RowsOfSequence
      <4> HIDE DEF n, items
      <4>2. DOMAIN ExpectedRows(e) = 1..n
        BY <4>1
      <4>3. ExpectedRows(e) \in [1..n -> rowsOf(e)]
        BY <4>1, <4>2
      <4>4. QED
        BY <4>1, <4>2, <4>3
    <3>3. QED
      BY <3>1, <3>2
  <2>2. PICK n \in Nat : ExpectedRows(e) \in [1..n -> rowsOf(e)]
    BY <2>1
  <2> HIDE DEF rowsOf
  <2>3. rowsOf(e) \subseteq Y
    OBVIOUS
  <2> HIDE DEF Y
  <2>4. ExpectedRows(e) \in [1..n -> Y]
    BY <2>2, <2>3
  <2>5. QED
    BY <2>4
<1> HIDE DEF Y
<1>3. QED
  BY <1>1, <1>2

(* Rows stay what they should be while sets and contexts do.               *)
LEMMA RowsStay ==
    ASSUME UNCHANGED <<sets, context>>
    PROVE  /\ AllRows' = AllRows /\ (OwnAll' <=> OwnAll)
           /\ \A r, e, o : RowsAre(r, e, o)' <=> RowsAre(r, e, o)
<1>1. \A s \in DOMAIN Seqs : SumsStay(s)
  BY DEF SumsStay
<1>2. \A s : LoopsOf(context[Seqs[s].context])' = LoopsOf(context[Seqs[s].context])
  BY LoopsStay
<1>3. \A s : LoopsOfSum(s)' = LoopsOfSum(s)
  BY <1>2 DEF LoopsOfSum
<1>4. ASSUME NEW s \in DOMAIN Seqs, NEW loops
      PROVE  /\ AllItems(s, loops)' = AllItems(s, loops)
             /\ SumIndices(Seqs[s].template)' = SumIndices(Seqs[s].template)
  BY <1>1, SumsStayed
<1>5. ASSUME NEW e \in DOMAIN Entries PROVE ExpectedRows(e)' = ExpectedRows(e)
  <2>1. CASE IsVariable(e)
    BY <2>1 DEF ExpectedRows, IsVariable
  <2>2. CASE ~IsVariable(e)
    <3> DEFINE s == Entries[e].seq
               loops == LoopsOf(context[Seqs[s].context])
    <3>1. s \in DOMAIN Seqs
      BY <2>2, SequenceEntries
    <3>2. loops' = loops
      BY <1>2
    <3>3. AllItems(s, loops)' = AllItems(s, loops)
      BY <1>4, <3>1, <3>2
    <3> HIDE DEF loops
    <3>4. QED
      BY <2>2, <3>3 DEF ExpectedRows, IsVariable, loops
  <2>3. QED
    BY <2>1, <2>2
<1>6. AllRows' = AllRows
  BY <1>5 DEF AllRows
<1>7. ASSUME NEW s \in DOMAIN Seqs PROVE OwnIndices(s)' <=> OwnIndices(s)
  BY <1>2, <1>4 DEF OwnIndices
<1>8. OwnAll' <=> OwnAll
  BY <1>7, SequenceEntries DEF OwnAll, IsVariable
<1>9. ASSUME NEW r, NEW e, NEW o PROVE RowsAre(r, e, o)' <=> RowsAre(r, e, o)
  <2>1. LoopsOfSum(o.seq)' = LoopsOfSum(o.seq)
    BY <1>3
  <2>2. QED
    BY <1>6, <2>1 DEF RowsAre, Left
<1>10. QED
  BY <1>6, <1>8, <1>9

(* The rows of an entry are added one after the other.                     *)
Adds(R, e) ==
    LET c == Concatenated(R, e - 1)
        n == Len(R[e])
    IN  /\ n \in Nat
        /\ c \o SubSeq(R[e], 1, 0) = c
        /\ \A m \in 0..(n - 1) : Append(c \o SubSeq(R[e], 1, m), R[e][m + 1]) = c \o SubSeq(R[e], 1, m + 1)
        /\ c \o SubSeq(R[e], 1, n) = Concatenated(R, e)
        /\ n = 1 => Append(c, R[e][1]) = Concatenated(R, e)

LEMMA RowsAdded ==
    ASSUME NEW Y, NEW R, NEW e \in Nat \ {0}, \A j \in 1..e : R[j] \in Seq(Y)
    PROVE  Adds(R, e)
<1> DEFINE c == Concatenated(R, e - 1)
           p == R[e]
           n == Len(p)
<1>1. e - 1 \in Nat /\ (e - 1) + 1 = e /\ e \in 1..e /\ \A j \in 1..(e - 1) : j \in 1..e
  OBVIOUS
<1>2. c \in Seq(Y)
  <2>1. \A j \in 1..(e - 1) : R[j] \in Seq(Y)
    BY <1>1
  <2>2. HoldsParts(Y, R, c, e - 1)
    BY <1>1, <2>1, ConcatenatedMembers
  <2>3. QED
    BY <2>2 DEF HoldsParts
<1>3. Concatenated(R, e) = c \o p
  <2>1. Concatenated(R, (e - 1) + 1) = Concatenated(R, e - 1) \o R[(e - 1) + 1]
    BY <1>1, ConcatenatedStep
  <2>2. QED
    BY <1>1, <2>1
<1>4. p \in Seq(Y)
  BY <1>1
<1> HIDE DEF c, p
<1>5. n \in Nat /\ \A k \in 1..n : p[k] \in Y
  BY <1>4, LenProperties, ElementOfSeq
<1>6. SubSeq(p, 1, 0) = <<>>
  BY SubSeqEmpty
<1>7. c \o <<>> = c
  BY <1>2, ConcatEmptySeq
<1>8. ASSUME NEW m \in 0..(n - 1)
      PROVE  Append(c \o SubSeq(p, 1, m), p[m + 1]) = c \o SubSeq(p, 1, m + 1)
  <2> DEFINE q == SubSeq(p, 1, m)
             x == p[m + 1]
  <2>1. m + 1 \in 1..n /\ 1 \in 1..n /\ m + 1 \in 1..(m + 1) /\ (m + 1) - 1 = m /\ 1 \in 1..(m + 1)
    BY <1>5
  <2>2. x \in Y
    BY <1>5, <2>1
  <2>3. q \in Seq(Y)
    <3>1. m \in Int /\ 1 \in Int /\ \A k \in 1..m : p[k] \in Y
      BY <1>5
    <3>2. QED
      BY ONLY <3>1, SubSeqProperties
  <2>4. SubSeq(p, 1, m + 1) = q \o <<x>>
    <3>1. m + 1 \in 1..Len(p) /\ 1 \in 1..Len(p) /\ m + 1 \in 1..Len(p)
      BY <2>1
    <3>2. SubSeq(p, 1, m + 1) = SubSeq(p, 1, (m + 1) - 1) \o <<p[m + 1]>>
      BY <1>4, <3>1, SubSeqRecursiveSecond
    <3>3. QED
      BY <2>1, <3>2
  <2> HIDE DEF q, x
  <2>5. c \o q \in Seq(Y)
    BY <1>2, <2>3, ConcatProperties
  <2>6. Append(c \o q, x) = (c \o q) \o <<x>>
    BY <2>2, <2>5, AppendIsConcat
  <2>7. <<x>> \in Seq(Y)
    BY <2>2
  <2>8. (c \o q) \o <<x>> = c \o (q \o <<x>>)
    BY <1>2, <2>3, <2>7, ConcatAssociative
  <2>9. QED
    BY <2>4, <2>6, <2>8 DEF q, x
<1>9. SubSeq(p, 1, n) = p
  BY <1>4, SubSeqFull
<1>10. ASSUME n = 1 PROVE Append(c, p[1]) = c \o p
  <2>1. 0 \in 0..(n - 1) /\ 0 + 1 = 1
    BY <1>10
  <2>2. Append(c \o SubSeq(p, 1, 0), p[0 + 1]) = c \o SubSeq(p, 1, 0 + 1)
    BY <1>8, <2>1
  <2>3. QED
    BY <1>6, <1>7, <1>9, <1>10, <2>1, <2>2
<1>11. QED
  BY <1>3, <1>5, <1>6, <1>7, <1>8, <1>9, <1>10 DEF Adds, c, p

LEMMA EntryAdds ==
    ASSUME CompactInv, entry \in DOMAIN Entries
    PROVE  /\ Adds(AllRows, entry) /\ AllRows[entry] = ExpectedRows(entry)
           /\ entry \in Nat \ {0} /\ DOMAIN Entries = 1..Len(Entries) /\ Len(Entries) \in Nat
<1>1. DOMAIN Entries = 1..Len(Entries) /\ Len(Entries) \in Nat
  BY EntriesType, LenProperties
<1>2. entry \in Nat \ {0} /\ \A j \in 1..entry : j \in DOMAIN Entries
  BY <1>1
<1>3. PICK Y : \A e \in DOMAIN Entries : AllRows[e] \in Seq(Y) /\ ExpectedRows(e) = AllRows[e]
  BY <1>2, RowsTyped
<1>4. \A j \in 1..entry : AllRows[j] \in Seq(Y)
  BY <1>2, <1>3
<1>5. Adds(AllRows, entry)
  BY <1>2, <1>4, RowsAdded
<1>6. QED
  BY <1>1, <1>2, <1>3, <1>5

(* expand() at work: sets and contexts are as they were.                   *)
LEMMA ExpandedNext ==
    ASSUME UNCHANGED <<sets, context>>, entry' # 0,
           \A e \in DOMAIN Entries : e < entry' /\ IsVariable(e) => bound'[e] \in Num,
           NEW r, r = rows', NEW n, n = entry', NEW o, o = iter'[Expander],
           OwnAll => RowsAre(r, n, o)
    PROVE  ExpandedOK'
<1>1. OwnAll' => OwnAll
  BY RowsStay
<1>2. RowsAre(r, n, o)' <=> RowsAre(r, n, o)
  BY RowsStay
<1>3. OwnAll' => RowsAre(rows, entry, iter[Expander])'
  BY <1>1, <1>2
<1>4. \A e \in DOMAIN Entries : (e < entry /\ IsVariable(e) => bound[e] \in Num)'
  BY DEF IsVariable
<1>5. QED
  BY <1>3, <1>4 DEF ExpandedOK, IsVariable

LEMMA VariableExpanded ==
    ASSUME CompactInv, BoundsOK, ExpandedOK, ExpandVariable
    PROVE  ExpandedOK' /\ BoundsOK'
<1>1. /\ entry \in DOMAIN Entries /\ IsVariable(entry)
      /\ bound' = [bound EXCEPT ![entry] = Evaluated(@)]
      /\ rows' = Append(rows, <<entry>>) /\ entry' = entry + 1
      /\ UNCHANGED <<sets, context, ival, pval, iter>>
  BY DEF ExpandVariable
<1>2. /\ Adds(AllRows, entry) /\ AllRows[entry] = ExpectedRows(entry)
      /\ entry \in Nat \ {0} /\ DOMAIN Entries = 1..Len(Entries) /\ Len(Entries) \in Nat
  BY <1>1, EntryAdds
<1>3. /\ pval \in [Param -> Num] /\ DOMAIN bound = DOMAIN Entries
      /\ \A e \in DOMAIN Entries : IsVariable(e) => bound[e] \in Param \cup Num
  BY DEF BoundsOK
<1>4. DOMAIN bound' = DOMAIN Entries /\ bound'[entry] \in Num
      /\ \A e \in DOMAIN Entries : e # entry => bound'[e] = bound[e]
  <2>1. bound[entry] \in Param \cup Num
    BY <1>1, <1>3
  <2>2. Evaluated(bound[entry]) \in Num
    BY <1>3, <2>1 DEF Evaluated
  <2>3. QED
    BY <1>1, <1>3, <2>2
<1>5. BoundsOK'
  BY <1>1, <1>3, <1>4 DEF BoundsOK, IsVariable
<1>6. ASSUME NEW e \in DOMAIN Entries, e < entry', IsVariable(e) PROVE bound'[e] \in Num
  <2>1. e = entry \/ e < entry
    BY <1>1, <1>2, <1>6
  <2>2. QED
    BY <1>2, <1>4, <1>6, <2>1 DEF ExpandedOK
<1>7. ASSUME OwnAll PROVE RowsAre(Append(rows, <<entry>>), entry + 1, iter[Expander])
  <2>1. iter[Expander].seq = 0
    BY <1>1 DEF CompactInv, ExpanderOK, Live
  <2>2. rows = Concatenated(AllRows, entry - 1)
    BY <1>2, <1>7, <2>1 DEF ExpandedOK, RowsAre
  <2>3. AllRows[entry] = <<<<entry>>>>
    BY <1>1, <1>2 DEF ExpectedRows
  <2>4. Len(AllRows[entry]) = 1 /\ AllRows[entry][1] = <<entry>>
    BY <2>3
  <2>5. Append(rows, <<entry>>) = Concatenated(AllRows, entry)
    BY <1>2, <2>2, <2>4 DEF Adds
  <2>6. (entry + 1) - 1 = entry
    BY <1>2
  <2>7. QED
    BY <2>1, <2>5, <2>6 DEF RowsAre
<1>8. entry' # 0
  BY <1>1, <1>2
<1>9. QED
  BY <1>1, <1>5, <1>6, <1>7, <1>8, ExpandedNext

LEMMA BeginExpanded ==
    ASSUME CompactInv, ExpandedOK, ExpandBegin
    PROVE  ExpandedOK'
<1> DEFINE s == Entries[entry].seq
           loops == LoopsOfSum(s)
           t == Seqs[s].template
           item == Convert(t, Written(ival, loops, First(loops), 1))
           i == [seq |-> s, loops |-> loops, pos |-> First(loops), done |-> FALSE,
                 item |-> item, yielded |-> <<item>>,
                 alone |-> IndicesOf(loops) \cap SumIndices(t) = {}]
<1>1. /\ entry \in DOMAIN Entries /\ ~IsVariable(entry) /\ ~Live(Expander)
      /\ Begin(Expander, s) /\ UNCHANGED <<sets, context, bound, entry, rows>>
  BY DEF ExpandBegin, modelVars
<1>2. Adds(AllRows, entry) /\ entry \in Nat \ {0}
  BY <1>1, EntryAdds
<1>3. iter' = [Disturbed(Expander, IndicesOf(loops) \cup SumIndices(t)) EXCEPT ![Expander] = i]
  BY <1>1 DEF Begin, LoopsOfSum
<1>4. iter'[Expander] = i
  <2>1. Expander \in DOMAIN Disturbed(Expander, IndicesOf(loops) \cup SumIndices(t))
    BY DEF CompactInv, ItersOK, Disturbed
  <2> HIDE DEF i
  <2>2. QED
    BY <1>3, <2>1
<1>5. s \in DOMAIN Seqs /\ s # 0
  <2>1. s \in DOMAIN Seqs
    BY <1>1, SequenceEntries
  <2>2. DOMAIN Seqs = 1..Len(Seqs)
    BY SequencesType, LenProperties
  <2>3. QED
    BY <2>1, <2>2
<1>6. ASSUME OwnAll PROVE RowsAre(rows, entry, i)
  <2>1. rows = Concatenated(AllRows, entry - 1)
    BY <1>1, <1>2, <1>6 DEF ExpandedOK, RowsAre, Live
  <2>2. i.alone
    BY <1>1, <1>6 DEF OwnAll, OwnIndices, LoopsOfSum
  <2>3. i.seq = s /\ i.loops = loops /\ Left(i) = 0
    BY DEF Left
  <2> HIDE DEF i, loops
  <2>4. rows = Concatenated(AllRows, entry - 1) \o SubSeq(AllRows[entry], 1, Left(i))
    BY <1>2, <2>1, <2>3 DEF Adds
  <2>5. QED
    BY <1>5, <2>2, <2>3, <2>4 DEF RowsAre, loops
<1>7. \A e \in DOMAIN Entries : e < entry' /\ IsVariable(e) => bound'[e] \in Num
  BY <1>1, <1>2 DEF ExpandedOK
<1>8. entry' # 0
  BY <1>1, <1>2
<1> HIDE DEF i
<1>9. QED
  BY <1>1, <1>4, <1>6, <1>7, <1>8, ExpandedNext

LEMMA EndExpanded ==
    ASSUME CompactInv, ExpandedOK, ExpandEnd
    PROVE  ExpandedOK'
<1> DEFINE o == iter[Expander]
           s == Entries[entry].seq
           n == Len(Positions(LoopsOfSum(s)))
<1>1. /\ Live(Expander) /\ o.done /\ iter' = [iter EXCEPT ![Expander] = Unused]
      /\ entry' = entry + 1 /\ UNCHANGED <<sets, context, bound, rows>>
  BY DEF ExpandEnd
<1>2. entry \in DOMAIN Entries /\ ~IsVariable(entry) /\ Expander \in DOMAIN iter
  BY <1>1 DEF CompactInv, ExpanderOK, ItersOK
<1>3. /\ Adds(AllRows, entry) /\ entry \in Nat \ {0} /\ AllRows[entry] = ExpectedRows(entry)
      /\ DOMAIN Entries = 1..Len(Entries) /\ Len(Entries) \in Nat
  BY <1>2, EntryAdds
<1>4. iter'[Expander] = Unused
  BY <1>1, <1>2
<1>5. ASSUME OwnAll PROVE RowsAre(rows, entry + 1, Unused)
  <2>1. /\ o.alone /\ o.seq = s /\ o.loops = LoopsOfSum(o.seq)
        /\ rows = Concatenated(AllRows, entry - 1) \o SubSeq(AllRows[entry], 1, Len(o.yielded))
    BY <1>1, <1>3, <1>5 DEF ExpandedOK, RowsAre, Live, Left
  <2>2. GoesInOrder(o, ival)
    BY <1>1, <1>2, <2>1 DEF CompactInv, ItersOK, IterOK
  <2>3. Len(o.yielded) = n
    BY <1>1, <2>1, <2>2 DEF GoesInOrder
  <2>4. n \in Nat /\ \E f : AllRows[entry] = [k \in 1..n |-> f[k]]
    <3> DEFINE items == AllItems(s, LoopsOfSum(s))
               f == [k \in 1..n |-> <<entry, items[k]>>]
    <3>1. n \in Nat /\ AllRows[entry] = [k \in 1..n |-> <<entry, items[k]>>]
      BY <1>2, <1>3, RowsOfSequence
    <3> HIDE DEF n
    <3>2. AllRows[entry] = [k \in 1..n |-> f[k]]
      BY <3>1
    <3>3. QED
      BY <3>1, <3>2
  <2> HIDE DEF n
  <2>5. Len(AllRows[entry]) = n
    BY <2>4
  <2>6. rows = Concatenated(AllRows, entry)
    BY <1>3, <2>1, <2>3, <2>5 DEF Adds
  <2>7. (entry + 1) - 1 = entry
    BY <1>3
  <2>8. QED
    BY <2>6, <2>7 DEF RowsAre, Unused
<1>6. ASSUME NEW e \in DOMAIN Entries, e < entry', IsVariable(e) PROVE bound'[e] \in Num
  <2>1. e < entry
    <3>1. e # entry /\ e \in Nat /\ e < entry + 1
      BY <1>1, <1>2, <1>3, <1>6
    <3>2. QED
      BY <1>3, <3>1
  <2>2. QED
    BY <1>1, <1>3, <1>6, <2>1 DEF ExpandedOK
<1>7. entry' # 0
  BY <1>1, <1>3
<1>8. QED
  BY <1>1, <1>4, <1>5, <1>6, <1>7, ExpandedNext

(* An iterator that goes on has left its item behind.                      *)
LEMMA YieldedSeq ==
    ASSUME NEW o, NEW v, LiveShape(o), GoesInOrder(o, v)
    PROVE  \E X : o.yielded \in Seq(X) /\ o.item \in X /\ Len(o.yielded) \in Nat
<1> DEFINE all == Positions(o.loops)
           items == AllItems(o.seq, o.loops)
           X == {items[k] : k \in DOMAIN items}
           m == Len(o.yielded)
<1>1. Len(all) \in Nat /\ DOMAIN all = 1..Len(all)
  BY NextCounted DEF LiveShape
<1>2. AreItems(items, o.seq, o.loops, X)
  BY <1>1, ItemsSeq
<1>3. m \in 1..Len(all) /\ o.yielded = SubSeq(items, 1, m) /\ o.item = items[m]
  BY DEF GoesInOrder
<1> HIDE DEF all, items, X
<1>4. \A k \in 1..m : items[k] \in X
  BY <1>1, <1>2, <1>3 DEF AreItems, all
<1>5. m \in Int /\ 1 \in Int /\ m \in 1..m /\ m \in Nat
  BY <1>1, <1>3
<1>6. SubSeq(items, 1, m) \in Seq(X)
  BY ONLY <1>4, <1>5, SubSeqProperties
<1> HIDE DEF m
<1>7. o.item \in X
  BY <1>3, <1>4, <1>5
<1>8. QED
  BY <1>3, <1>5, <1>6, <1>7 DEF m

AdvancedTo(o, n) ==
    n.seq = o.seq /\ n.loops = o.loops /\ n.alone /\ Left(n) = Len(o.yielded)

LEMMA ExpanderAdvances ==
    ASSUME CompactInv, Running(Expander), Advance(Expander), iter[Expander].alone,
           NEW n, n = iter'[Expander]
    PROVE  AdvancedTo(iter[Expander], n)
<1> DEFINE it == Expander
           o == iter[it]
           t == Seqs[o.seq].template
           moved(k) == {o.loops[q].index : q \in {m \in DOMAIN o.pos : m >= k}}
           Goes(k) == \E pos \in {NextPosition(o.loops, o.pos)} :
                      \E v \in {Written(ival, o.loops, pos, k)} :
                      \E item \in {Convert(t, v)} :
               /\ ival' = AfterParts(t, v, Len(t))
               /\ iter' = [Disturbed(it, moved(k) \cup SumIndices(t)) EXCEPT
                     ![it].pos = pos, ![it].item = item,
                     ![it].yielded = IF o.alone THEN Append(@, item) ELSE @]
           Ends == /\ ival' = Written(ival, o.loops, First(o.loops), 1)
                   /\ iter' = [Disturbed(it, moved(1)) EXCEPT ![it].done = TRUE]
<1>1. \E k \in {Unfinished(o.loops, o.pos)} : IF k = 0 THEN Ends ELSE Goes(k)
  BY DEF Advance
<1>2. it \in DOMAIN iter /\ \A S : DOMAIN Disturbed(it, S) = DOMAIN iter /\ Disturbed(it, S)[it] = o
  BY DEF CompactInv, ItersOK, Disturbed
<1>3. LiveShape(o) /\ GoesInOrder(o, ival) /\ ~o.done
  BY <1>2 DEF CompactInv, ItersOK, IterOK, Running
<1>4. DOMAIN o = IterFields
  BY <1>3 DEF LiveShape
<1>5. PICK X : o.yielded \in Seq(X) /\ Len(o.yielded) \in Nat
  BY <1>3, YieldedSeq
<1>6. n = iter'[it] /\ o.alone
  OBVIOUS
<1> HIDE DEF moved, it, o
<1>7. ASSUME Ends PROVE AdvancedTo(o, n)
  <2>1. n = [o EXCEPT !.done = TRUE]
    BY <1>2, <1>7, <1>6
  <2>2. n.seq = o.seq /\ n.loops = o.loops /\ n.alone /\ n.done /\ n.yielded = o.yielded
    BY <1>4, <1>6, <2>1 DEF IterFields
  <2>3. QED
    BY <2>2 DEF AdvancedTo, Left
<1>8. ASSUME NEW k, Goes(k) PROVE AdvancedTo(o, n)
  <2>1. PICK pos, item, S : iter' = [Disturbed(it, S) EXCEPT
                     ![it].pos = pos, ![it].item = item,
                     ![it].yielded = IF o.alone THEN Append(@, item) ELSE @]
    <3> HIDE DEF Ends
    <3>1. \E pos, item : iter' = [Disturbed(it, moved(k) \cup SumIndices(t)) EXCEPT
                     ![it].pos = pos, ![it].item = item,
                     ![it].yielded = IF o.alone THEN Append(@, item) ELSE @]
      BY ONLY <1>8, Zenon
    <3>2. QED
      BY ONLY <3>1, Zenon
  <2>2. n = [o EXCEPT !.pos = pos, !.item = item, !.yielded = Append(@, item)]
    <3> HIDE DEF Goes, Ends
    <3>1. QED
      BY <1>2, <1>4, <1>6, <2>1 DEF IterFields
  <2>3. /\ n.seq = o.seq /\ n.loops = o.loops /\ n.alone /\ ~n.done
        /\ n.yielded = Append(o.yielded, item)
    BY <1>3, <1>4, <1>6, <2>2 DEF IterFields
  <2>4. Len(n.yielded) = Len(o.yielded) + 1
    <3> DEFINE y == o.yielded
               Z == X \cup {item}
    <3>1. y \in Seq(Z) /\ item \in Z
      BY <1>5
    <3> HIDE DEF y, Z
    <3>2. Len(Append(y, item)) = Len(y) + 1
      BY <3>1, AppendProperties
    <3>3. QED
      BY <2>3, <3>2 DEF y
  <2>5. (Len(o.yielded) + 1) - 1 = Len(o.yielded)
    BY <1>5
  <2>6. QED
    BY <2>3, <2>4, <2>5 DEF AdvancedTo, Left
<1> HIDE DEF Goes, Ends
<1>9. AdvancedTo(o, n)
  BY <1>1, <1>7, <1>8
<1>10. QED
  BY <1>9 DEF o, it

LEMMA NextExpanded ==
    ASSUME CompactInv, ExpandedOK, ExpandNext
    PROVE  ExpandedOK'
<1> DEFINE o == iter[Expander]
           n == iter'[Expander]
           s == Entries[entry].seq
           N == Len(Positions(LoopsOfSum(s)))
           items == AllItems(s, LoopsOfSum(s))
           m == Len(o.yielded)
<1>1. /\ Running(Expander) /\ rows' = Append(rows, <<entry, o.item>>) /\ Advance(Expander)
      /\ UNCHANGED <<sets, context, bound, entry>>
  BY DEF ExpandNext
<1>2. /\ entry \in DOMAIN Entries /\ ~IsVariable(entry) /\ Expander \in DOMAIN iter
      /\ Live(Expander) /\ ~o.done
  BY <1>1 DEF CompactInv, ExpanderOK, ItersOK, Running
<1>3. /\ Adds(AllRows, entry) /\ entry \in Nat \ {0} /\ AllRows[entry] = ExpectedRows(entry)
  BY <1>2, EntryAdds
<1>4. ASSUME OwnAll PROVE RowsAre(Append(rows, <<entry, o.item>>), entry, n)
  <2>1. /\ o.alone /\ o.seq = s /\ o.loops = LoopsOfSum(o.seq) /\ o.seq # 0
        /\ rows = Concatenated(AllRows, entry - 1) \o SubSeq(AllRows[entry], 1, m - 1)
    BY <1>2, <1>3, <1>4 DEF ExpandedOK, RowsAre, Live, Left
  <2>2. GoesInOrder(o, ival)
    BY <1>2, <2>1 DEF CompactInv, ItersOK, IterOK
  <2>3. m \in 1..N /\ o.item = items[m]
    BY <2>1, <2>2 DEF GoesInOrder
  <2>4. AdvancedTo(o, n)
    BY <1>1, <2>1, ExpanderAdvances
  <2>5. N \in Nat /\ AllRows[entry] = [k \in 1..N |-> <<entry, items[k]>>]
    BY <1>2, <1>3, RowsOfSequence
  <2> HIDE DEF N, items, m, n
  <2>6. Len(AllRows[entry]) = N /\ AllRows[entry][m] = <<entry, o.item>>
    BY <2>3, <2>5
  <2>7. m - 1 \in 0..(N - 1) /\ (m - 1) + 1 = m
    BY <2>3, <2>5
  <2>8. Append(Concatenated(AllRows, entry - 1) \o SubSeq(AllRows[entry], 1, m - 1),
               AllRows[entry][(m - 1) + 1])
           = Concatenated(AllRows, entry - 1) \o SubSeq(AllRows[entry], 1, (m - 1) + 1)
    BY <1>3, <2>6, <2>7 DEF Adds
  <2> HIDE DEF o
  <2>9. Append(rows, <<entry, o.item>>)
           = Concatenated(AllRows, entry - 1) \o SubSeq(AllRows[entry], 1, m)
    BY <2>1, <2>6, <2>7, <2>8
  <2>10. n.seq = s /\ n.loops = LoopsOfSum(n.seq) /\ n.alone /\ Left(n) = m /\ n.seq # 0
    BY <2>1, <2>4 DEF AdvancedTo, m
  <2> HIDE DEF s
  <2>11. QED
    BY <2>9, <2>10 DEF RowsAre, s
<1>5. \A e \in DOMAIN Entries : e < entry' /\ IsVariable(e) => bound'[e] \in Num
  BY <1>1, <1>3 DEF ExpandedOK
<1>6. entry' # 0
  BY <1>1, <1>3
<1> HIDE DEF n
<1>7. ASSUME NEW r, r = rows', NEW e, e = entry', NEW q, q = iter'[Expander], OwnAll
      PROVE  RowsAre(r, e, q)
  BY <1>1, <1>4, <1>7 DEF n
<1>8. QED
  BY <1>1, <1>5, <1>6, <1>7, ExpandedNext

(* What expand() has made is as it should be whatever is done.             *)
ExpandInv == CompactInv /\ BoundsOK /\ ExpandedOK

LEMMA ExpandInit == Init => ExpandInv
<1> SUFFICES ASSUME Init PROVE ExpandInv
  OBVIOUS
<1>1. CompactInv
  BY CompactInit
<1>2. /\ pval \in [Param -> Num] /\ entry = 0 /\ rows = <<>>
      /\ bound = [e \in DOMAIN Entries |-> Entries[e].var]
  BY DEF Init
<1>3. ASSUME NEW e \in DOMAIN Entries, IsVariable(e) PROVE bound[e] \in Param \cup Num
  <2>1. Entries[e] \in [var : Param \cup Num \cup {0}, seq : 0..Len(Seqs)]
    BY EntriesType, ElementOfSeq, LenProperties
  <2>2. Entries[e].var # 0 /\ bound[e] = Entries[e].var
    BY <1>2, <1>3 DEF IsVariable
  <2>3. QED
    BY <2>1, <2>2
<1>4. BoundsOK
  BY <1>2, <1>3 DEF BoundsOK
<1>5. ExpandedOK
  BY <1>2 DEF ExpandedOK
<1>6. QED
  BY <1>1, <1>4, <1>5 DEF ExpandInv

LEMMA ExpandStep == ExpandInv /\ [Next]_vars => ExpandInv'
<1> SUFFICES ASSUME ExpandInv, [Next]_vars PROVE BoundsOK' /\ ExpandedOK'
  BY CompactStep DEF ExpandInv
<1>1. CompactInv /\ BoundsOK /\ ExpandedOK
  BY DEF ExpandInv
<1>2. ASSUME UNCHANGED bound, pval' \in [Param -> Num] PROVE BoundsOK'
  BY <1>1, <1>2 DEF BoundsOK, IsVariable
<1>3. pval \in [Param -> Num]
  BY <1>1 DEF BoundsOK
<1>4. ASSUME entry = 0, UNCHANGED <<entry, rows>> PROVE ExpandedOK'
  BY <1>1, <1>4 DEF ExpandedOK
<1>5. ASSUME entry' = 0, rows' = <<>> PROVE ExpandedOK'
  BY <1>5 DEF ExpandedOK
<1>6. CASE MakeSets \/ MakeContexts
  <2>1. context = <<>> /\ UNCHANGED <<pval, bound, entry, rows>>
    BY <1>6 DEF MakeSets, MakeContexts, modelVars
  <2>2. entry = 0
    BY <1>1, <2>1 DEF CompactInv, EntriesOK
  <2>3. QED
    BY <1>2, <1>3, <1>4, <2>1, <2>2
<1>7. ASSUME NEW more \in More, Forall(more) PROVE BoundsOK' /\ ExpandedOK'
  <2>1. entry = 0 /\ UNCHANGED <<pval, bound, entry, rows>>
    BY <1>7 DEF Forall, modelVars
  <2>2. QED
    BY <1>2, <1>3, <1>4, <2>1
<1>8. ASSUME NEW p \in Param, SetParam(p) PROVE BoundsOK' /\ ExpandedOK'
  <2>1. entry = 0 /\ UNCHANGED <<bound, entry, rows>>
    BY <1>8 DEF SetParam, modelVars
  <2>2. pval' \in [Param -> Num]
    BY <1>3, <1>8 DEF SetParam
  <2>3. QED
    BY <1>2, <1>4, <2>1, <2>2
<1>9. ASSUME NEW it \in Iter, BeginIter(it) \/ StepIter(it) PROVE BoundsOK' /\ ExpandedOK'
  <2>1. entry = 0 /\ UNCHANGED <<pval, bound, entry, rows>>
    BY <1>9 DEF BeginIter, StepIter, modelVars
  <2>2. QED
    BY <1>2, <1>3, <1>4, <2>1
<1>10. CASE Expand
  <2>1. /\ entry = 0 /\ entry' = 1 /\ UNCHANGED <<sets, context, pval, bound, rows, iter>>
    BY <1>10 DEF Expand
  <2>2. rows = <<>>
    BY <1>1, <2>1 DEF ExpandedOK
  <2>3. ~Live(Expander) /\ DOMAIN Entries = 1..Len(Entries) /\ Len(Entries) \in Nat
    <3>1. DOMAIN Entries = 1..Len(Entries) /\ Len(Entries) \in Nat
      BY EntriesType, LenProperties
    <3>2. QED
      BY <1>1, <2>1, <3>1 DEF CompactInv, ExpanderOK
  <2>4. RowsAre(rows, 1, iter[Expander])
    <3>1. Concatenated(AllRows, 0) = <<>>
      BY ConcatenatedStep
    <3>2. 1 - 1 = 0
      OBVIOUS
    <3>3. QED
      BY <2>2, <2>3, <3>1, <3>2 DEF RowsAre, Live
  <2>5. \A e \in DOMAIN Entries : ~(e < entry')
    BY <2>1, <2>3
  <2>6. entry' # 0
    BY <2>1
  <2>7. ExpandedOK'
    BY <2>1, <2>4, <2>5, <2>6, ExpandedNext
  <2>8. QED
    BY <1>2, <1>3, <2>1, <2>7
<1>11. CASE ExpandVariable
  BY <1>1, <1>11, VariableExpanded
<1>12. CASE ExpandBegin
  <2>1. UNCHANGED <<bound, pval>>
    BY <1>12 DEF ExpandBegin, modelVars
  <2>2. QED
    BY <1>1, <1>2, <1>3, <1>12, <2>1, BeginExpanded
<1>13. CASE ExpandNext
  <2>1. UNCHANGED <<bound, pval>>
    BY <1>13 DEF ExpandNext
  <2>2. QED
    BY <1>1, <1>2, <1>3, <1>13, <2>1, NextExpanded
<1>14. CASE ExpandEnd
  <2>1. UNCHANGED <<bound, pval>>
    BY <1>14 DEF ExpandEnd
  <2>2. QED
    BY <1>1, <1>2, <1>3, <1>14, <2>1, EndExpanded
<1>15. CASE Return
  <2>1. entry' = 0 /\ rows' = <<>> /\ UNCHANGED <<bound, pval>>
    BY <1>15 DEF Return
  <2>2. QED
    BY <1>2, <1>3, <1>5, <2>1
<1>16. CASE UNCHANGED vars
  <2>1. UNCHANGED <<sets, context, iter, pval, bound, entry, rows>>
    BY <1>16 DEF vars, modelVars
  <2>2. CASE entry = 0
    BY <1>2, <1>3, <1>4, <2>1, <2>2
  <2>3. CASE entry # 0
    <3>1. /\ \A e \in DOMAIN Entries : e < entry' /\ IsVariable(e) => bound'[e] \in Num
          /\ OwnAll => RowsAre(rows, entry, iter[Expander])
      BY <1>1, <2>1, <2>3 DEF ExpandedOK
    <3>2. ExpandedOK'
      BY <2>1, <2>3, <3>1, ExpandedNext
    <3>3. QED
      BY <1>2, <1>3, <2>1, <3>2
  <2>4. QED
    BY <2>2, <2>3
<1>17. QED
  BY <1>6, <1>7, <1>8, <1>9, <1>10, <1>11, <1>12, <1>13, <1>14, <1>15, <1>16 DEF Next, Expanding

(* A step of expand() that returns does so with everything expanded.       *)
LEMMA ReturnsExpanded ==
    ASSUME ExpandInv, [Next]_vars, entry # 0, entry' = 0,
           \A e \in DOMAIN Entries : ~IsVariable(e) => OwnIndices(Entries[e].seq)
    PROVE  /\ rows = Concatenated([e \in DOMAIN Entries |-> ExpectedRows(e)], Len(Entries))
           /\ \A e \in DOMAIN Entries : IsVariable(e) => bound[e] \in Num
<1>1. CompactInv /\ ExpandedOK
  BY DEF ExpandInv
<1>2. DOMAIN Entries = 1..Len(Entries) /\ Len(Entries) \in Nat /\ entry \in 0..(Len(Entries) + 1)
  BY <1>1, EntriesType, LenProperties DEF CompactInv, ExpanderOK
<1>3. entry = Len(Entries) + 1
  <2>1. Return \/ entry' = entry \/ entry' = entry + 1 \/ entry' = 1
    <3>1. ASSUME NEW more \in More, Forall(more) PROVE entry' = entry
      BY <3>1 DEF Forall, modelVars
    <3>2. ASSUME NEW p \in Param, SetParam(p) PROVE entry' = entry
      BY <3>2 DEF SetParam, modelVars
    <3>3. ASSUME NEW it \in Iter, BeginIter(it) \/ StepIter(it) PROVE entry' = entry
      BY <3>3 DEF BeginIter, StepIter, modelVars
    <3>4. ASSUME MakeSets \/ MakeContexts \/ ExpandBegin \/ ExpandNext \/ UNCHANGED vars
          PROVE  entry' = entry
      BY <3>4 DEF MakeSets, MakeContexts, ExpandBegin, ExpandNext, vars, modelVars
    <3>5. ASSUME Expand \/ ExpandVariable \/ ExpandEnd PROVE entry' = entry + 1 \/ entry' = 1
      BY <3>5 DEF Expand, ExpandVariable, ExpandEnd
    <3>6. QED
      BY <3>1, <3>2, <3>3, <3>4, <3>5 DEF Next, Expanding
  <2>2. Return
    BY <1>2, <2>1
  <2>3. QED
    BY <2>2 DEF Return
<1>4. ~Live(Expander)
  BY <1>1, <1>2, <1>3 DEF CompactInv, ExpanderOK
<1>5. OwnAll
  BY DEF OwnAll
<1>6. rows = Concatenated(AllRows, Len(Entries))
  <2>1. RowsAre(rows, entry, iter[Expander])
    BY <1>1, <1>5 DEF ExpandedOK
  <2>2. entry - 1 = Len(Entries)
    BY <1>2, <1>3
  <2>3. QED
    BY <1>4, <2>1, <2>2 DEF RowsAre, Live
<1>7. \A e \in DOMAIN Entries : IsVariable(e) => bound[e] \in Num
  BY <1>1, <1>2, <1>3 DEF ExpandedOK
<1>8. QED
  BY <1>6, <1>7 DEF AllRows

(* The model expand() returns has a row for every variable and for every   *)
(* element of every sequence, in order, whatever iterators the client is in*)
(* the middle of, and its variables have numbers as bounds                 *)
(* (CompactModel::expand()), unless a sum overwrites what it is summed in. *)
THEOREM ExpandedModels == Spec => ExpandExact
<1>1. ExpandInv /\ [Next]_vars =>
        (entry # 0 /\ entry' = 0 /\ (\A e \in DOMAIN Entries :
                                        ~IsVariable(e) => OwnIndices(Entries[e].seq)) =>
            /\ rows = Concatenated([e \in DOMAIN Entries |-> ExpectedRows(e)], Len(Entries))
            /\ \A e \in DOMAIN Entries : IsVariable(e) => bound[e] \in Num)
  BY ReturnsExpanded
<1>2. QED
  BY <1>1, ExpandInit, ExpandStep, PTL DEF Spec, ExpandExact
=============================================================================
