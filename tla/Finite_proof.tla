---------------------------- MODULE Finite_proof ----------------------------
(***************************************************************************)
(* Facts about finite sets: their members in order (Ranks), sums and       *)
(* products over them, sequences joined end to end (Sums), and the         *)
(* induction that recursive definitions need.                              *)
(***************************************************************************)
EXTENDS Ranks, Sums, SequencesExt, FiniteSetTheorems, SequenceTheorems, WellFoundedInduction, TLAPS

LEMMA Least ==
    ASSUME NEW S, S \in SUBSET Nat, S # {}
    PROVE  \E k \in S : \A m \in S : k <= m
<1>1. PICK k \in S : \A m \in S : ~(<<m, k>> \in OpToRel(<, Nat))
  BY NatLessThanWellFounded, WFMin
<1>2. \A m \in S : ~(m < k)
  BY <1>1 DEF OpToRel
<1>3. ASSUME NEW a \in Nat, NEW b \in Nat, ~(b < a) PROVE a <= b
  BY <1>3
<1>4. \A m \in S : k <= m
  BY <1>2, <1>3
<1>5. QED
  BY <1>4

(* As high above a set of numbers as one cares to look, it has a greatest. *)
LEMMA Greatest ==
    ASSUME NEW n \in Nat, NEW S, S \in SUBSET (0..n), S # {}
    PROVE  \E k \in S : \A m \in S : m <= k
<1> DEFINE D == {n - m : m \in S}
<1>1. \A m \in S : m \in Nat /\ n - m \in Nat
  OBVIOUS
<1>2. D \in SUBSET Nat /\ D # {}
  BY <1>1
<1>3. PICK d \in D : \A e \in D : d <= e
  <2> HIDE DEF D
  <2>1. QED
    BY <1>2, Least
<1>4. PICK k \in S : d = n - k
  OBVIOUS
<1>5. \A m \in S : n - k <= n - m
  BY <1>3, <1>4
<1>6. \A m \in S : m <= k
  BY <1>1, <1>5
<1>7. QED
  BY <1>6

(* The n-th members of a set are its members, each of them once.           *)
LEMMA NthMembers ==
    ASSUME NEW S, IsFiniteSet(S), S \in SUBSET Nat
    PROVE  /\ Cardinality(S) \in Nat
           /\ \A n \in 1..Cardinality(S) : Nth(S, n) \in S
           /\ \A m, n \in 1..Cardinality(S) : Nth(S, m) = Nth(S, n) => m = n
           /\ \A k \in S : \E n \in 1..Cardinality(S) : Nth(S, n) = k
<1> DEFINE Upto(k) == {j \in S : j <= k}
           ranks == 1..Cardinality(S)
           f == [k \in S |-> Cardinality(Upto(k))]
<1>1. Cardinality(S) \in Nat
  BY FS_CardinalityType
<1>2. ASSUME NEW k \in S
      PROVE  IsFiniteSet(Upto(k)) /\ Cardinality(Upto(k)) \in ranks
  <2>1. Upto(k) \in SUBSET S /\ k \in Upto(k)
    OBVIOUS
  <2> HIDE DEF Upto
  <2>2. /\ IsFiniteSet(Upto(k)) /\ Cardinality(Upto(k)) \in Nat
        /\ Cardinality(Upto(k)) <= Cardinality(S)
    BY <2>1, FS_Subset, FS_CardinalityType
  <2>3. Cardinality(Upto(k)) # 0
    BY <2>1, <2>2, FS_EmptySet
  <2>4. QED
    BY <1>1, <2>2, <2>3
<1>3. ASSUME NEW k \in S, NEW l \in S, k < l
      PROVE  Cardinality(Upto(k)) # Cardinality(Upto(l))
  <2>1. k \in Nat /\ l \in Nat /\ \A j \in S : j \in Nat
    OBVIOUS
  <2>2. Upto(k) \in SUBSET Upto(l) /\ l \in Upto(l) /\ l \notin Upto(k)
    <3>1. l <= l /\ ~(l <= k)
      BY <1>3, <2>1
    <3>2. \A j \in S : j <= k => j <= l
      <4>1. ASSUME NEW j \in Nat, j <= k PROVE j <= l
        BY <1>3, <2>1, <4>1
      <4>2. QED
        BY <2>1, <4>1
    <3>3. QED
      BY <3>1, <3>2
  <2>3. IsFiniteSet(Upto(l))
    BY <1>2
  <2> HIDE DEF Upto
  <2>4. Cardinality(Upto(l)) = Cardinality(Upto(k)) => Upto(l) = Upto(k)
    BY <2>2, <2>3, FS_Subset
  <2>5. QED
    BY <2>2, <2>4
<1>4. \A k, l \in S : Cardinality(Upto(k)) = Cardinality(Upto(l)) => k = l
  <2> SUFFICES ASSUME NEW k \in S, NEW l \in S, k # l
               PROVE  Cardinality(Upto(k)) # Cardinality(Upto(l))
    OBVIOUS
  <2>1. k < l \/ l < k
    OBVIOUS
  <2>2. QED
    BY <1>3, <2>1
<1>5. f \in Injection(S, ranks)
  BY <1>2, <1>4 DEF Injection, IsInjective
<1>6. f \in Surjection(S, ranks)
  BY <1>1, <1>5, FS_Interval, FS_Injection
<1>7. \A n \in ranks : \E k \in S : Cardinality(Upto(k)) = n
  BY <1>6 DEF Surjection
<1>8. \A n \in ranks : Nth(S, n) \in S /\ Cardinality(Upto(Nth(S, n))) = n
  <2>1. \A n \in ranks : Nth(S, n) = CHOOSE k \in S : Cardinality(Upto(k)) = n
    BY DEF Nth
  <2>2. QED
    BY <1>7, <2>1
<1>9. QED
  BY <1>1, <1>2, <1>4, <1>8

(* The members in order are a sequence of them, each of them once.         *)
LEMMA InOrderMembers ==
    ASSUME NEW S, IsFiniteSet(S), S \in SUBSET Nat
    PROVE  /\ InOrder(S) \in Seq(S) /\ Len(InOrder(S)) = Cardinality(S)
           /\ DOMAIN InOrder(S) = 1..Cardinality(S) /\ Cardinality(S) \in Nat
           /\ ToSet(InOrder(S)) = S
           /\ \A m, n \in DOMAIN InOrder(S) : InOrder(S)[m] = InOrder(S)[n] => m = n
<1> DEFINE C == Cardinality(S)
           s == InOrder(S)
<1>1. /\ C \in Nat
      /\ \A n \in 1..C : Nth(S, n) \in S
      /\ \A m, n \in 1..C : Nth(S, m) = Nth(S, n) => m = n
      /\ \A k \in S : \E n \in 1..C : Nth(S, n) = k
  BY NthMembers
<1> HIDE DEF C
<1>2. s = [n \in 1..C |-> Nth(S, n)]
  BY DEF InOrder, C
<1> HIDE DEF s
<1>3. s \in [1..C -> S] /\ DOMAIN s = 1..C
  BY <1>1, <1>2
<1>4. s \in Seq(S) /\ Len(s) = C
  BY <1>1, <1>3
<1>5. \A n \in 1..C : s[n] = Nth(S, n)
  BY <1>2
<1>6. ToSet(s) = S
  <2>1. ASSUME NEW n \in DOMAIN s PROVE s[n] \in S
    BY <1>1, <1>3, <1>5
  <2>2. ASSUME NEW k \in S PROVE \E n \in DOMAIN s : s[n] = k
    BY <1>1, <1>3, <1>5
  <2>3. QED
    BY <2>1, <2>2 DEF ToSet
<1>7. \A m, n \in DOMAIN s : s[m] = s[n] => m = n
  <2> SUFFICES ASSUME NEW m \in 1..C, NEW n \in 1..C, s[m] = s[n] PROVE m = n
    BY <1>3
  <2>1. Nth(S, m) = Nth(S, n)
    BY <1>5
  <2>2. QED
    BY <1>1, <2>1
<1>8. QED
  BY <1>1, <1>3, <1>4, <1>6, <1>7 DEF C, s

-----------------------------------------------------------------------------
(* Induction over the natural numbers, and over a finite set, for a set of *)
(* those that have the property.                                           *)
LEMMA NumbersByInduction ==
    ASSUME NEW G \in SUBSET Nat, 0 \in G, \A n \in G : n + 1 \in G
    PROVE  G = Nat
<1> SUFFICES ASSUME Nat \ G # {} PROVE FALSE
  OBVIOUS
<1>1. PICK k \in Nat \ G : \A m \in Nat \ G : k <= m
  BY Least
<1>2. k - 1 \in Nat /\ (k - 1) + 1 = k
  <2>1. k # 0
    OBVIOUS
  <2>2. QED
    BY <2>1
<1>3. k - 1 \in G
  <2>1. ~(k <= k - 1)
    OBVIOUS
  <2>2. QED
    BY <1>1, <1>2, <2>1
<1>4. QED
  BY <1>2, <1>3

LEMMA SubsetsByInduction ==
    ASSUME NEW S, IsFiniteSet(S), NEW G, {} \in G,
           \A T \in SUBSET S : T # {} /\ (\A x \in T : T \ {x} \in G) => T \in G
    PROVE  \A T \in SUBSET S : T \in G
<1> DEFINE N == {n \in Nat : \A T \in SUBSET S : Cardinality(T) = n => T \in G}
<1>1. \A T \in SUBSET S : IsFiniteSet(T) /\ Cardinality(T) \in Nat
  BY FS_Subset, FS_CardinalityType
<1>2. 0 \in N
  BY <1>1, FS_EmptySet
<1>3. ASSUME NEW n \in N PROVE n + 1 \in N
  <2> SUFFICES ASSUME NEW T \in SUBSET S, Cardinality(T) = n + 1 PROVE T \in G
    OBVIOUS
  <2>1. n \in Nat /\ n + 1 # 0
    OBVIOUS
  <2>2. T # {}
    BY <1>1, <2>1, FS_EmptySet
  <2>3. ASSUME NEW x \in T PROVE T \ {x} \in G
    <3>1. Cardinality(T \ {x}) = Cardinality(T) - 1
      BY <1>1, FS_RemoveElement
    <3>2. Cardinality(T \ {x}) = n
      BY <2>1, <3>1
    <3>3. QED
      BY <3>2
  <2>4. QED
    BY <2>2, <2>3
<1>4. N = Nat
  <2> HIDE DEF N
  <2>1. N \in SUBSET Nat
    BY DEF N
  <2>2. QED
    BY <1>2, <1>3, <2>1, NumbersByInduction
<1>5. QED
  BY <1>1, <1>4

Pick(T) == CHOOSE x \in T : TRUE

(* A recursion that takes one element of a set after the other.            *)
Recursive(s, S, base, G) ==
    /\ s \in [SUBSET S -> Int]
    /\ \A T \in SUBSET S : s[T] = IF T = {} THEN base ELSE G[<<Pick(T), s[T \ {Pick(T)}]>>]

Folds(S, base, G) == IsFiniteSet(S) /\ base \in Int /\ G \in [S \X Int -> Int]

LEMMA SetRecursion ==
    ASSUME NEW S, NEW base, NEW G, Folds(S, base, G)
    PROVE  \E s : Recursive(s, S, base, G)
<1>0. IsFiniteSet(S) /\ base \in Int /\ G \in [S \X Int -> Int]
  BY DEF Folds
<1> USE <1>0
<1> DEFINE D(n) == {T \in SUBSET S : Cardinality(T) \in 0..n}
           Value(s, T) == IF T = {} THEN base ELSE G[<<Pick(T), s[T \ {Pick(T)}]>>]
           N == {n \in Nat : \E s \in [D(n) -> Int] : \A T \in D(n) : s[T] = Value(s, T)}
<1>1. \A T \in SUBSET S : IsFiniteSet(T) /\ Cardinality(T) \in Nat
  BY FS_Subset, FS_CardinalityType
<1>2. \A T \in SUBSET S : T # {} =>
        Pick(T) \in T /\ Cardinality(T \ {Pick(T)}) = Cardinality(T) - 1 /\ Cardinality(T) # 0
  <2> SUFFICES ASSUME NEW T \in SUBSET S, T # {}
               PROVE  Pick(T) \in T /\ Cardinality(T \ {Pick(T)}) = Cardinality(T) - 1
                      /\ Cardinality(T) # 0
    OBVIOUS
  <2>1. Pick(T) \in T
    BY DEF Pick
  <2>2. QED
    BY <1>1, <2>1, FS_RemoveElement, FS_EmptySet
<1>3. 0 \in N
  <2> DEFINE s == [T \in D(0) |-> base]
  <2>1. \A T \in D(0) : T = {}
    BY <1>1, FS_EmptySet
  <2>2. s \in [D(0) -> Int] /\ \A T \in D(0) : s[T] = Value(s, T)
    BY <2>1
  <2> HIDE DEF s, D
  <2>3. QED
    BY <2>2
<1>4. ASSUME NEW n \in N PROVE n + 1 \in N
  <2>1. PICK s \in [D(n) -> Int] : \A T \in D(n) : s[T] = Value(s, T)
    OBVIOUS
  <2> DEFINE t == [T \in D(n + 1) |-> Value(s, T)]
  <2>2. \A T \in D(n + 1) : T # {} => T \ {Pick(T)} \in D(n)
    <3> SUFFICES ASSUME NEW T \in D(n + 1), T # {} PROVE T \ {Pick(T)} \in D(n)
      OBVIOUS
    <3>1. Cardinality(T \ {Pick(T)}) = Cardinality(T) - 1 /\ Cardinality(T) \in 0..(n + 1)
          /\ Cardinality(T) # 0
      BY <1>2
    <3>2. Cardinality(T \ {Pick(T)}) \in 0..n
      BY <3>1
    <3>3. QED
      BY <3>2
  <2>3. \A T \in D(n) : T \in D(n + 1) /\ t[T] = s[T]
    <3> SUFFICES ASSUME NEW T \in D(n) PROVE T \in D(n + 1) /\ t[T] = s[T]
      OBVIOUS
    <3>1. T \in D(n + 1)
      OBVIOUS
    <3> HIDE DEF D
    <3>2. QED
      BY <2>1, <3>1
  <2>4. t \in [D(n + 1) -> Int]
    <3> SUFFICES ASSUME NEW T \in D(n + 1), T # {} PROVE G[<<Pick(T), s[T \ {Pick(T)}]>>] \in Int
      OBVIOUS
    <3>1. T \ {Pick(T)} \in D(n) /\ Pick(T) \in S
      BY <1>2, <2>2
    <3> HIDE DEF D
    <3>2. QED
      BY <3>1
  <2>5. \A T \in D(n + 1) : t[T] = Value(t, T)
    <3> HIDE DEF D
    <3> SUFFICES ASSUME NEW T \in D(n + 1) PROVE t[T] = Value(t, T)
      OBVIOUS
    <3>1. T # {} => t[T \ {Pick(T)}] = s[T \ {Pick(T)}]
      BY <2>2, <2>3
    <3>2. QED
      BY <3>1
  <2> HIDE DEF t, D
  <2>6. n + 1 \in Nat
    OBVIOUS
  <2>7. QED
    BY <2>4, <2>5, <2>6
<1>5. N = Nat
  <2> HIDE DEF N
  <2>1. N \in SUBSET Nat
    BY DEF N
  <2>2. QED
    BY <1>3, <1>4, <2>1, NumbersByInduction
<1>6. Cardinality(S) \in N /\ D(Cardinality(S)) = SUBSET S
  <2>1. \A T \in SUBSET S : Cardinality(T) \in 0..Cardinality(S)
    BY <1>1, FS_Subset, FS_CardinalityType
  <2>2. Cardinality(S) \in Nat
    BY FS_CardinalityType
  <2>3. QED
    BY <1>5, <2>1, <2>2
<1>7. PICK s \in [SUBSET S -> Int] : \A T \in SUBSET S : s[T] = Value(s, T)
  <2> HIDE DEF D
  <2>1. QED
    BY <1>6
<1>8. QED
  BY <1>7 DEF Recursive

-----------------------------------------------------------------------------
(* Folding with an operation that does not care for the order.             *)
LEMMA CombineFacts ==
    ASSUME NEW op
    PROVE  /\ Neutral(op) \in Int
           /\ \A i, j \in Int : Combine(op, i, j) \in Int
           /\ \A i, j \in Int : Combine(op, i, j) = Combine(op, j, i)
           /\ \A i, j, k \in Int : Combine(op, i, Combine(op, j, k)) = Combine(op, Combine(op, i, j), k)
           /\ \A i \in Int : Combine(op, Neutral(op), i) = i
<1>1. CASE op = "+"
  BY <1>1 DEF Combine, Neutral
<1>2. CASE op # "+"
  <2>1. \A i, j, k \in Int : i * j \in Int /\ i * j = j * i /\ i * (j * k) = (i * j) * k /\ 1 * i = i
    OBVIOUS
  <2>2. QED
    BY <1>2, <2>1 DEF Combine, Neutral
<1>3. QED
  BY <1>1, <1>2

Numbers(f, S) == IsFiniteSet(S) /\ \A x \in S : f[x] \in Int

FoldRec(op, f, S, s) ==
    s = [T \in SUBSET S |->
            IF T = {} THEN Neutral(op) ELSE LET x == CHOOSE x \in T : TRUE IN Combine(op, f[x], s[T \ {x}])]

LEMMA FoldRecursive ==
    ASSUME NEW op, NEW S, NEW f, Numbers(f, S)
    PROVE  \E s \in [SUBSET S -> Int] :
              FoldRec(op, f, S, s) /\ FoldOver(op, f, S) = s[S]
<1> DEFINE G == [p \in S \X Int |-> Combine(op, f[p[1]], p[2])]
           c == CHOOSE s : FoldRec(op, f, S, s)
<1>0. /\ IsFiniteSet(S) /\ Neutral(op) \in Int
      /\ \A x \in S, n \in Int : f[x] \in Int /\ Combine(op, f[x], n) \in Int
  BY CombineFacts DEF Numbers
<1>1. G \in [S \X Int -> Int] /\ \A x \in S, n \in Int : G[<<x, n>>] = Combine(op, f[x], n)
  BY <1>0
<1>2. \A T \in SUBSET S : T # {} => Pick(T) \in T
  BY DEF Pick
<1>3. \E s : FoldRec(op, f, S, s)
  <2> HIDE DEF G
  <2>0. Folds(S, Neutral(op), G)
    BY <1>0, <1>1 DEF Folds
  <2>1. PICK s : Recursive(s, S, Neutral(op), G)
    BY <2>0, SetRecursion
  <2>2. ASSUME NEW T \in SUBSET S, T # {}
        PROVE  G[<<Pick(T), s[T \ {Pick(T)}]>>] = Combine(op, f[Pick(T)], s[T \ {Pick(T)}])
    <3>1. Pick(T) \in S /\ s[T \ {Pick(T)}] \in Int
      BY <1>2, <2>1, <2>2 DEF Recursive
    <3>2. QED
      BY <1>1, <3>1
  <2>3. s = [T \in SUBSET S |-> IF T = {} THEN Neutral(op) ELSE Combine(op, f[Pick(T)], s[T \ {Pick(T)}])]
    BY <2>1, <2>2 DEF Recursive
  <2>4. QED
    BY <2>3 DEF FoldRec, Pick
<1>4. FoldRec(op, f, S, c)
  BY <1>3
<1>5. FoldOver(op, f, S) = c[S]
  BY DEF FoldOver, FoldRec
<1> HIDE DEF c
<1>6. c = [T \in SUBSET S |-> IF T = {} THEN Neutral(op) ELSE Combine(op, f[Pick(T)], c[T \ {Pick(T)}])]
  BY <1>4 DEF FoldRec, Pick
<1>7. c \in [SUBSET S -> Int]
  <2> DEFINE I == {T \in SUBSET S : c[T] \in Int}
  <2>1. {} \in I
    BY <1>0, <1>6
  <2>2. ASSUME NEW T \in SUBSET S, T # {}, \A x \in T : T \ {x} \in I PROVE T \in I
    <3>1. Pick(T) \in S /\ c[T \ {Pick(T)}] \in Int
      BY <1>2, <2>2
    <3>2. c[T] = Combine(op, f[Pick(T)], c[T \ {Pick(T)}])
      BY <1>6, <2>2
    <3>3. QED
      BY <1>0, <3>1, <3>2
  <2>3. \A T \in SUBSET S : T \in I
    <3> HIDE DEF I
    <3>1. QED
      BY <1>0, <2>1, <2>2, SubsetsByInduction
  <2>4. QED
    BY <1>6, <2>3
<1>8. QED
  BY <1>4, <1>5, <1>7

LEMMA FoldEmpty ==
    ASSUME NEW op, NEW f
    PROVE  FoldOver(op, f, {}) = Neutral(op)
<1>1. Numbers(f, {})
  BY FS_EmptySet DEF Numbers
<1>2. PICK s \in [SUBSET {} -> Int] :
        FoldRec(op, f, {}, s) /\ FoldOver(op, f, {}) = s[{}]
  BY <1>1, FoldRecursive
<1>3. QED
  BY <1>2 DEF FoldRec

LEMMA FoldType ==
    ASSUME NEW op, NEW S, NEW f, Numbers(f, S)
    PROVE  FoldOver(op, f, S) \in Int
<1>1. PICK c \in [SUBSET S -> Int] : FoldRec(op, f, S, c) /\ FoldOver(op, f, S) = c[S]
  BY FoldRecursive
<1>2. QED
  BY <1>1

(* Whichever element is taken first, the others follow.                    *)
LEMMA FoldStep ==
    ASSUME NEW op, NEW S, NEW f, Numbers(f, S), NEW z \in S
    PROVE  FoldOver(op, f, S) = Combine(op, f[z], FoldOver(op, f, S \ {z}))
<1> DEFINE Fold(T) == FoldOver(op, f, T)
<1>0. /\ IsFiniteSet(S)
      /\ \A x \in S : f[x] \in Int
  BY DEF Numbers
<1>1. \A T \in SUBSET S : T # {} => Pick(T) \in T
  BY DEF Pick
<1>2. PICK c \in [SUBSET S -> Int] : FoldRec(op, f, S, c) /\ Fold(S) = c[S]
  BY FoldRecursive
<1>3. \A T \in SUBSET S : c[T] = IF T = {} THEN Neutral(op) ELSE Combine(op, f[Pick(T)], c[T \ {Pick(T)}])
  BY <1>2 DEF FoldRec, Pick
<1>4. ASSUME NEW T \in SUBSET S PROVE Fold(T) = c[T]
  <2>1. IsFiniteSet(T) /\ Numbers(f, T)
    BY <1>0, FS_Subset DEF Numbers
  <2>2. PICK d \in [SUBSET T -> Int] : FoldRec(op, f, T, d) /\ Fold(T) = d[T]
    BY <2>1, FoldRecursive
  <2>3. \A U \in SUBSET T : d[U] = IF U = {} THEN Neutral(op) ELSE Combine(op, f[Pick(U)], d[U \ {Pick(U)}])
    BY <2>2 DEF FoldRec, Pick
  <2> DEFINE I == {U \in SUBSET T : c[U] = d[U]}
  <2>4. {} \in I
    BY <1>3, <2>3
  <2>5. ASSUME NEW U \in SUBSET T, U # {}, \A x \in U : U \ {x} \in I PROVE U \in I
    <3>1. U \in SUBSET S /\ Pick(U) \in U
      BY <1>1, <2>5
    <3>2. c[U \ {Pick(U)}] = d[U \ {Pick(U)}]
      BY <2>5, <3>1
    <3>3. QED
      BY <1>3, <2>3, <2>5, <3>1, <3>2
  <2>6. \A U \in SUBSET T : U \in I
    <3> HIDE DEF I
    <3>1. QED
      BY <2>1, <2>4, <2>5, SubsetsByInduction
  <2>7. QED
    BY <2>2, <2>6
<1>5. \A T \in SUBSET S : Fold(T) \in Int
  BY <1>4
<1> DEFINE I == {T \in SUBSET S : \A x \in T : Fold(T) = Combine(op, f[x], Fold(T \ {x}))}
<1>6. {} \in I
  OBVIOUS
<1>7. ASSUME NEW T \in SUBSET S, T # {}, \A x \in T : T \ {x} \in I PROVE T \in I
  <2> SUFFICES ASSUME NEW x \in T PROVE Fold(T) = Combine(op, f[x], Fold(T \ {x}))
    OBVIOUS
  <2> DEFINE y == Pick(T)
             R == (T \ {x}) \ {y}
  <2>1. y \in T
    BY <1>1, <1>7
  <2>2. Fold(T) = Combine(op, f[y], Fold(T \ {y}))
    BY <1>3, <1>4, <1>7, <2>1
  <2>3. CASE x = y
    BY <2>2, <2>3
  <2>4. CASE x # y
    <3>1. Fold(T \ {y}) = Combine(op, f[x], Fold((T \ {y}) \ {x}))
      BY <1>7, <2>1, <2>4
    <3>2. Fold(T \ {x}) = Combine(op, f[y], Fold((T \ {x}) \ {y}))
      BY <1>7, <2>1, <2>4
    <3>3. (T \ {y}) \ {x} = R
      OBVIOUS
    <3>4. f[x] \in Int /\ f[y] \in Int /\ Fold(R) \in Int
      BY <1>0, <1>5, <2>1
    <3> HIDE DEF R, y, Fold
    <3>5. ASSUME NEW a \in Int, NEW b \in Int, NEW r \in Int
          PROVE  Combine(op, b, Combine(op, a, r)) = Combine(op, a, Combine(op, b, r))
      <4>1. Combine(op, b, Combine(op, a, r)) = Combine(op, Combine(op, b, a), r)
        BY CombineFacts
      <4>2. Combine(op, b, a) = Combine(op, a, b)
        BY CombineFacts
      <4>3. Combine(op, a, Combine(op, b, r)) = Combine(op, Combine(op, a, b), r)
        BY CombineFacts
      <4>4. QED
        BY <4>1, <4>2, <4>3
    <3>6. Combine(op, f[y], Combine(op, f[x], Fold(R))) = Combine(op, f[x], Combine(op, f[y], Fold(R)))
      BY <3>4, <3>5
    <3>7. QED
      BY <2>2, <3>1, <3>2, <3>3, <3>6 DEF R
  <2>5. QED
    BY <2>3, <2>4
<1>8. S \in I
  <2> HIDE DEF I
  <2>1. QED
    BY <1>0, <1>6, <1>7, SubsetsByInduction
<1>9. QED
  BY <1>5, <1>8

LEMMA FoldAt ==
    ASSUME NEW op, NEW S, NEW f, Numbers(f, S),
           NEW T \in SUBSET S, T # {}
    PROVE  /\ Pick(T) \in T /\ Pick(T) \in S /\ f[Pick(T)] \in Int
           /\ FoldOver(op, f, T) = Combine(op, f[Pick(T)], FoldOver(op, f, T \ {Pick(T)}))
           /\ FoldOver(op, f, T \ {Pick(T)}) \in Int
<1>1. Numbers(f, T) /\ Numbers(f, T \ {Pick(T)})
  BY FS_Subset DEF Numbers
<1>2. Pick(T) \in T
  BY DEF Pick
<1>3. f[Pick(T)] \in Int
  BY <1>2 DEF Numbers
<1>4. FoldOver(op, f, T \ {Pick(T)}) \in Int
  BY <1>1, FoldType
<1>5. FoldOver(op, f, T) = Combine(op, f[Pick(T)], FoldOver(op, f, T \ {Pick(T)}))
  BY <1>1, <1>2, FoldStep
<1>6. QED
  BY <1>2, <1>3, <1>4, <1>5

(* Equal elements, equal sums.                                             *)
LEMMA FoldSame ==
    ASSUME NEW op, NEW S, NEW f, Numbers(f, S),
           NEW g, \A x \in S : g[x] = f[x]
    PROVE  FoldOver(op, g, S) = FoldOver(op, f, S)
<1> DEFINE I == {T \in SUBSET S : FoldOver(op, g, T) = FoldOver(op, f, T)}
<1>0. Numbers(g, S) /\ IsFiniteSet(S)
  BY DEF Numbers
<1>1. {} \in I
  BY FoldEmpty
<1>2. ASSUME NEW T \in SUBSET S, T # {}, \A x \in T : T \ {x} \in I PROVE T \in I
  <2>1. /\ Pick(T) \in T /\ Pick(T) \in S
        /\ FoldOver(op, f, T) = Combine(op, f[Pick(T)], FoldOver(op, f, T \ {Pick(T)}))
    BY <1>2, FoldAt
  <2>2. FoldOver(op, g, T) = Combine(op, g[Pick(T)], FoldOver(op, g, T \ {Pick(T)}))
    BY <1>0, <1>2, FoldAt
  <2>3. QED
    BY <1>2, <2>1, <2>2
<1>3. S \in I
  <2> HIDE DEF I
  <2>1. QED
    BY <1>0, <1>1, <1>2, SubsetsByInduction
<1>4. QED
  BY <1>3

(* Element by element, or fold by fold.                                    *)
LEMMA FoldCombined ==
    ASSUME NEW op, NEW S, NEW f, Numbers(f, S),
           NEW g, Numbers(g, S), NEW h, \A x \in S : h[x] = Combine(op, f[x], g[x])
    PROVE  FoldOver(op, h, S) = Combine(op, FoldOver(op, f, S), FoldOver(op, g, S))
<1> DEFINE Fold(k, T) == FoldOver(op, k, T)
           I == {T \in SUBSET S : Fold(h, T) = Combine(op, Fold(f, T), Fold(g, T))}
<1>0. Numbers(h, S) /\ IsFiniteSet(S)
  BY CombineFacts DEF Numbers
<1>1. {} \in I
  <2>1. Combine(op, Neutral(op), Neutral(op)) = Neutral(op)
    BY CombineFacts
  <2>2. QED
    BY <2>1, FoldEmpty
<1>2. ASSUME NEW T \in SUBSET S, T # {}, \A x \in T : T \ {x} \in I PROVE T \in I
  <2> DEFINE y == Pick(T)
             R == T \ {y}
  <2>0. y \in T /\ y \in S
    BY <1>2 DEF Pick
  <2>1. Fold(f, T) = Combine(op, f[y], Fold(f, R)) /\ f[y] \in Int /\ Fold(f, R) \in Int
    BY <1>2, FoldAt
  <2>2. Fold(g, T) = Combine(op, g[y], Fold(g, R)) /\ g[y] \in Int /\ Fold(g, R) \in Int
    BY <1>2, FoldAt
  <2>3. Fold(h, T) = Combine(op, h[y], Fold(h, R))
    BY <1>0, <1>2, FoldAt
  <2>4. Fold(h, R) = Combine(op, Fold(f, R), Fold(g, R)) /\ h[y] = Combine(op, f[y], g[y])
    BY <1>2, <2>0
  <2> HIDE DEF R, y, Fold
  <2>5. ASSUME NEW a \in Int, NEW b \in Int, NEW c \in Int, NEW d \in Int
        PROVE  Combine(op, Combine(op, a, b), Combine(op, c, d)) = Combine(op, Combine(op, a, c), Combine(op, b, d))
    <3>1. Combine(op, c, d) \in Int /\ Combine(op, b, d) \in Int /\ Combine(op, b, c) \in Int
      BY CombineFacts
    <3>2. Combine(op, Combine(op, a, b), Combine(op, c, d)) = Combine(op, a, Combine(op, b, Combine(op, c, d)))
      BY <3>1, CombineFacts
    <3>3. Combine(op, b, Combine(op, c, d)) = Combine(op, Combine(op, b, c), d) /\ Combine(op, Combine(op, b, c), d) = Combine(op, Combine(op, c, b), d)
      BY <3>1, CombineFacts
    <3>4. Combine(op, Combine(op, c, b), d) = Combine(op, c, Combine(op, b, d))
      BY <3>1, CombineFacts
    <3>5. Combine(op, a, Combine(op, c, Combine(op, b, d))) = Combine(op, Combine(op, a, c), Combine(op, b, d))
      BY <3>1, CombineFacts
    <3>6. QED
      BY <3>2, <3>3, <3>4, <3>5
  <2>6. Fold(h, T) = Combine(op, Combine(op, f[y], g[y]), Combine(op, Fold(f, R), Fold(g, R)))
    BY <2>3, <2>4
  <2>7. Fold(h, T) = Combine(op, Combine(op, f[y], Fold(f, R)), Combine(op, g[y], Fold(g, R)))
    BY <2>1, <2>2, <2>5, <2>6
  <2>8. QED
    BY <2>1, <2>2, <2>7 DEF Fold
<1>3. S \in I
  <2> HIDE DEF I
  <2>1. QED
    BY <1>0, <1>1, <1>2, SubsetsByInduction
<1>4. QED
  BY <1>3

(* Elements that make no difference need not be taken.                     *)
LEMMA FoldOfSubset ==
    ASSUME NEW op, NEW S, NEW f, Numbers(f, S),
           NEW R \in SUBSET S, \A x \in S \ R : f[x] = Neutral(op)
    PROVE  FoldOver(op, f, S) = FoldOver(op, f, R)
<1> DEFINE Fold(T) == FoldOver(op, f, T)
           I == {T \in SUBSET S : Fold(T) = Fold(T \cap R)}
<1>0. IsFiniteSet(S)
  BY DEF Numbers
<1>1. {} \in I
  <2>1. {} \cap R = {}
    OBVIOUS
  <2>2. QED
    BY <2>1
<1>2. ASSUME NEW T \in SUBSET S, T # {}, \A x \in T : T \ {x} \in I PROVE T \in I
  <2> DEFINE y == Pick(T)
             U == T \ {y}
  <2>1. /\ y \in T /\ y \in S /\ f[y] \in Int
        /\ Fold(T) = Combine(op, f[y], Fold(U)) /\ Fold(U) \in Int
    BY <1>2, FoldAt
  <2>2. Fold(U) = Fold(U \cap R)
    BY <1>2, <2>1
  <2>3. CASE y \in R
    <3>1. Numbers(f, T \cap R) /\ y \in T \cap R
      BY <2>1, <2>3, FS_Subset DEF Numbers
    <3>2. Fold(T \cap R) = Combine(op, f[y], Fold((T \cap R) \ {y}))
      BY <3>1, FoldStep
    <3>3. (T \cap R) \ {y} = U \cap R
      OBVIOUS
    <3> HIDE DEF U, y, Fold
    <3>4. QED
      BY <2>1, <2>2, <3>2, <3>3
  <2>4. CASE y \notin R
    <3>1. T \cap R = U \cap R
      BY <2>4
    <3>2. f[y] = Neutral(op)
      BY <2>1, <2>4
    <3> HIDE DEF U, y, Fold
    <3>3. Combine(op, Neutral(op), Fold(U)) = Fold(U)
      BY <2>1, CombineFacts
    <3>4. QED
      BY <2>1, <2>2, <3>1, <3>2, <3>3
  <2>5. QED
    BY <2>3, <2>4
<1>3. S \in I
  <2> HIDE DEF I
  <2>1. QED
    BY <1>0, <1>1, <1>2, SubsetsByInduction
<1>4. S \cap R = R
  OBVIOUS
<1>5. QED
  BY <1>3, <1>4

(* A fold over two sets with nothing in common.                            *)
LEMMA FoldSplit ==
    ASSUME NEW op, NEW S, NEW f, Numbers(f, S), NEW R \in SUBSET S
    PROVE  FoldOver(op, f, S) = Combine(op, FoldOver(op, f, R), FoldOver(op, f, S \ R))
<1> DEFINE g == [x \in S |-> IF x \in R THEN f[x] ELSE Neutral(op)]
           h == [x \in S |-> IF x \in R THEN Neutral(op) ELSE f[x]]
<1>1. Numbers(g, S) /\ Numbers(h, S) /\ \A x \in S : f[x] = Combine(op, g[x], h[x])
  <2>1. \A x \in S : f[x] \in Int
    BY DEF Numbers
  <2>2. \A x \in S : Combine(op, Neutral(op), f[x]) = f[x] /\ Combine(op, f[x], Neutral(op)) = f[x]
    BY <2>1, CombineFacts
  <2>3. QED
    BY <2>1, <2>2, CombineFacts DEF Numbers
<1>2. FoldOver(op, f, S) = Combine(op, FoldOver(op, g, S), FoldOver(op, h, S))
  BY <1>1, FoldCombined
<1>3. FoldOver(op, g, S) = FoldOver(op, g, R)
  <2>1. \A x \in S \ R : g[x] = Neutral(op)
    OBVIOUS
  <2>2. QED
    BY <1>1, <2>1, FoldOfSubset
<1>4. FoldOver(op, h, S) = FoldOver(op, h, S \ R)
  <2>1. \A x \in S \ (S \ R) : h[x] = Neutral(op)
    OBVIOUS
  <2>2. S \ R \in SUBSET S
    OBVIOUS
  <2>3. QED
    BY <1>1, <2>1, <2>2, FoldOfSubset
<1>5. Numbers(f, R) /\ Numbers(f, S \ R)
  BY FS_Subset DEF Numbers
<1>6. FoldOver(op, g, R) = FoldOver(op, f, R) /\ FoldOver(op, h, S \ R) = FoldOver(op, f, S \ R)
  <2>1. (\A x \in R : g[x] = f[x]) /\ (\A x \in S \ R : h[x] = f[x])
    OBVIOUS
  <2> HIDE DEF g, h
  <2>2. QED
    BY <1>5, <2>1, FoldSame
<1>7. QED
  BY <1>2, <1>3, <1>4, <1>6

(* Under other names.                                                      *)
LEMMA FoldRenamed ==
    ASSUME NEW op, NEW S, NEW f, Numbers(f, S),
           NEW K, IsFiniteSet(K), NEW g,
           NEW h, \A k \in K : h[k] \in S /\ g[k] = f[h[k]],
           \A k, l \in K : h[k] = h[l] => k = l,
           \A x \in S : \E k \in K : h[k] = x
    PROVE  FoldOver(op, g, K) = FoldOver(op, f, S)
<1> DEFINE Image(T) == {h[k] : k \in T}
           I == {T \in SUBSET K : FoldOver(op, g, T) = FoldOver(op, f, Image(T))}
<1>0. Numbers(g, K) /\ \A k \in K : f[h[k]] \in Int
  BY DEF Numbers
<1>1. {} \in I
  <2>1. Image({}) = {}
    OBVIOUS
  <2>2. QED
    BY <2>1, FoldEmpty
<1>2. ASSUME NEW T \in SUBSET K, T # {}, \A x \in T : T \ {x} \in I PROVE T \in I
  <2> DEFINE y == Pick(T)
             U == T \ {y}
  <2>1. /\ y \in T /\ y \in K
        /\ FoldOver(op, g, T) = Combine(op, g[y], FoldOver(op, g, U))
    BY <1>0, <1>2, FoldAt
  <2>2. FoldOver(op, g, U) = FoldOver(op, f, Image(U))
    BY <1>2, <2>1
  <2>3. Image(T) \ {h[y]} = Image(U) /\ h[y] \in Image(T)
    BY <2>1
  <2>4. IsFiniteSet(T)
    BY FS_Subset
  <2>5. IsFiniteSet(Image(T))
    <3> DEFINE q == [k \in T |-> h[k]]
    <3>1. q \in [T -> Image(T)]
      OBVIOUS
    <3>2. \A i \in Image(T) : \E k \in T : q[k] = i
      OBVIOUS
    <3> HIDE DEF q, Image
    <3>3. q \in Surjection(T, Image(T))
      BY <3>1, <3>2 DEF Surjection
    <3>4. QED
      BY <2>4, <3>3, FS_Surjection
  <2>6. Numbers(f, Image(T))
    BY <1>0, <2>5 DEF Numbers
  <2> HIDE DEF Image, y, U
  <2>7. FoldOver(op, f, Image(T)) = Combine(op, f[h[y]], FoldOver(op, f, Image(T) \ {h[y]}))
    BY <2>3, <2>6, FoldStep
  <2>8. g[y] = f[h[y]]
    BY <2>1
  <2>9. QED
    BY <2>1, <2>2, <2>3, <2>7, <2>8
<1>3. K \in I
  <2> HIDE DEF I
  <2>1. IsFiniteSet(K)
    OBVIOUS
  <2>2. \A T \in SUBSET K : T # {} /\ (\A x \in T : T \ {x} \in I) => T \in I
    BY <1>2
  <2>3. \A T \in SUBSET K : T \in I
    BY <1>1, <2>1, <2>2, SubsetsByInduction
  <2>4. QED
    BY <2>3
<1>4. Image(K) = S
  OBVIOUS
<1>5. QED
  BY <1>3, <1>4

(* One element is the sum of itself.                                       *)
LEMMA FoldOfOne ==
    ASSUME NEW op, NEW S, NEW f, Numbers(f, S), NEW y \in S,
           \A x \in S \ {y} : f[x] = Neutral(op)
    PROVE  FoldOver(op, f, S) = f[y]
<1>1. Numbers(f, {y}) /\ f[y] \in Int
  BY FS_Singleton DEF Numbers
<1>2. FoldOver(op, f, S) = FoldOver(op, f, {y})
  BY FoldOfSubset
<1>3. FoldOver(op, f, {y}) = Combine(op, f[y], FoldOver(op, f, {y} \ {y}))
  BY <1>1, FoldStep
<1>4. {y} \ {y} = {}
  OBVIOUS
<1>5. Combine(op, f[y], Neutral(op)) = f[y]
  BY <1>1, CombineFacts
<1>6. QED
  BY <1>2, <1>3, <1>4, <1>5, FoldEmpty

(* Only neutral elements.                                                  *)
LEMMA FoldOfNone ==
    ASSUME NEW op, NEW S, NEW f, IsFiniteSet(S), \A x \in S : f[x] = Neutral(op)
    PROVE  FoldOver(op, f, S) = Neutral(op)
<1>1. Numbers(f, S)
  BY CombineFacts DEF Numbers
<1>2. FoldOver(op, f, S) = FoldOver(op, f, {})
  BY <1>1, FoldOfSubset
<1>3. QED
  BY <1>2, FoldEmpty

(* A table: r[i] folds its i-th row, c[n] its n-th column col[n].          *)
Table(op, K, N, a, col, r, c) ==
    /\ IsFiniteSet(K) /\ IsFiniteSet(N)
    /\ \A i \in K : Numbers(a[i], N)
    /\ \A n \in N : \A i \in K : col[n][i] = a[i][n]
    /\ \A i \in K : r[i] = FoldOver(op, a[i], N)
    /\ \A n \in N : c[n] = FoldOver(op, col[n], K)

(* A product with a factor 0.                                              *)
LEMMA ProductOfZero ==
    ASSUME NEW S, NEW f, Numbers(f, S), NEW z \in S, f[z] = 0
    PROVE  FoldOver("*", f, S) = 0
<1>1. FoldOver("*", f, S) = Combine("*", f[z], FoldOver("*", f, S \ {z}))
  BY FoldStep
<1>2. Numbers(f, S \ {z})
  BY FS_Subset DEF Numbers
<1>3. FoldOver("*", f, S \ {z}) \in Int
  BY <1>2, FoldType
<1>4. QED
  BY <1>1, <1>3 DEF Combine

(* Row by row, or column by column.                                        *)
LEMMA FoldExchange ==
    ASSUME NEW op, NEW K, NEW N, NEW a, NEW col, NEW r, NEW c, Table(op, K, N, a, col, r, c)
    PROVE  FoldOver(op, c, N) = FoldOver(op, r, K)
<1>0. /\ IsFiniteSet(K) /\ IsFiniteSet(N)
      /\ \A i \in K : Numbers(a[i], N)
      /\ \A n \in N : \A i \in K : col[n][i] = a[i][n]
      /\ \A i \in K : r[i] = FoldOver(op, a[i], N)
      /\ \A n \in N : c[n] = FoldOver(op, col[n], K)
  BY DEF Table
<1> USE <1>0
<1> DEFINE C(T) == [n \in N |-> FoldOver(op, col[n], T)]
           I == {T \in SUBSET K : FoldOver(op, C(T), N) = FoldOver(op, r, T)}
<1>1. \A n \in N : Numbers(col[n], K)
  BY DEF Numbers
<1>2. \A i \in K : r[i] \in Int
  BY FoldType
<1>3. Numbers(r, K)
  BY <1>2 DEF Numbers
<1>4. ASSUME NEW T \in SUBSET K PROVE Numbers(C(T), N)
  <2>1. ASSUME NEW n \in N PROVE FoldOver(op, col[n], T) \in Int
    <3>1. Numbers(col[n], T)
      BY <1>1, FS_Subset DEF Numbers
    <3>2. QED
      BY <3>1, FoldType
  <2>2. QED
    BY <2>1 DEF Numbers
<1>5. {} \in I
  <2>1. \A n \in N : C({})[n] = Neutral(op)
    BY FoldEmpty
  <2> HIDE DEF C
  <2>2. FoldOver(op, C({}), N) = Neutral(op)
    BY <2>1, FoldOfNone
  <2>3. QED
    BY <2>2, FoldEmpty
<1>6. ASSUME NEW T \in SUBSET K, T # {}, \A x \in T : T \ {x} \in I PROVE T \in I
  <2> DEFINE y == Pick(T)
             R == T \ {y}
  <2>1. y \in T /\ y \in K
    BY <1>6 DEF Pick
  <2>2. R \in SUBSET K
    OBVIOUS
  <2>3. FoldOver(op, r, T) = Combine(op, r[y], FoldOver(op, r, R))
    BY <1>3, <1>6, FoldAt
  <2>4. FoldOver(op, C(R), N) = FoldOver(op, r, R)
    BY <1>6, <2>1
  <2>5. ASSUME NEW n \in N PROVE C(T)[n] = Combine(op, a[y][n], C(R)[n])
    <3>1. Numbers(col[n], K)
      BY <1>1
    <3>2. FoldOver(op, col[n], T) = Combine(op, col[n][y], FoldOver(op, col[n], R))
      BY <1>6, <3>1, FoldAt
    <3>3. col[n][y] = a[y][n]
      BY <2>1
    <3>4. QED
      BY <3>2, <3>3
  <2> HIDE DEF C, R, y
  <2>6. Numbers(C(R), N) /\ Numbers(a[y], N)
    BY <1>4, <2>1, <2>2
  <2>7. FoldOver(op, C(T), N) = Combine(op, FoldOver(op, a[y], N), FoldOver(op, C(R), N))
    BY <2>5, <2>6, FoldCombined
  <2>8. r[y] = FoldOver(op, a[y], N)
    BY <2>1
  <2>9. QED
    BY <2>3, <2>4, <2>7, <2>8
<1>7. K \in I
  <2> HIDE DEF I
  <2>1. QED
    BY <1>5, <1>6, SubsetsByInduction
<1>8. FoldOver(op, C(K), N) = FoldOver(op, r, K)
  BY <1>7
<1>9. \A n \in N : c[n] = C(K)[n]
  OBVIOUS
<1>10. Numbers(C(K), N)
  BY <1>4
<1> HIDE DEF C, I
<1>11. FoldOver(op, c, N) = FoldOver(op, C(K), N)
  BY <1>9, <1>10, FoldSame
<1>12. QED
  BY <1>8, <1>11

(* A common factor.                                                        *)
LEMMA SumScaled ==
    ASSUME NEW S, NEW f, Numbers(f, S), NEW k \in Int, NEW g, \A x \in S : g[x] = f[x] * k
    PROVE  SumOver(g, S) = SumOver(f, S) * k
<1> DEFINE I == {T \in SUBSET S : FoldOver("+", g, T) = FoldOver("+", f, T) * k}
<1>0. Numbers(g, S) /\ IsFiniteSet(S)
  BY DEF Numbers
<1>1. {} \in I
  <2>1. 0 * k = 0
    OBVIOUS
  <2>2. QED
    BY <2>1, FoldEmpty DEF Neutral
<1>2. ASSUME NEW T \in SUBSET S, T # {}, \A x \in T : T \ {x} \in I PROVE T \in I
  <2> DEFINE y == Pick(T)
             R == T \ {y}
             a == FoldOver("+", f, R)
  <2>1. y \in T /\ y \in S
    BY <1>2 DEF Pick
  <2>2. FoldOver("+", f, T) = Combine("+", f[y], a)
    BY <1>2, FoldAt
  <2>7. f[y] \in Int /\ a \in Int
    BY <1>2, FoldAt
  <2>3. FoldOver("+", g, T) = Combine("+", g[y], FoldOver("+", g, R))
    BY <1>0, <1>2, FoldAt
  <2>4. FoldOver("+", g, R) = a * k /\ g[y] = f[y] * k
    BY <1>2, <2>1
  <2> HIDE DEF R, y, a
  <2>5. ASSUME NEW i \in Int, NEW j \in Int PROVE i * k + j * k = (i + j) * k
    OBVIOUS
  <2>6. f[y] * k + a * k = (f[y] + a) * k
    BY <2>5, <2>7
  <2>9. QED
    BY <2>2, <2>3, <2>4, <2>6 DEF Combine
<1>3. S \in I
  <2> HIDE DEF I
  <2>1. \A T \in SUBSET S : T \in I
    BY <1>0, <1>1, <1>2, SubsetsByInduction
  <2>2. QED
    BY <2>1
<1>4. QED
  BY <1>3 DEF SumOver

-----------------------------------------------------------------------------
(* Sequences joined end to end.                                            *)
ConcatenatedUpto(R, n, s) == s = [j \in 0..n |-> IF j = 0 THEN <<>> ELSE s[j - 1] \o R[j]]

(* q is a sequence over X of what the first m parts hold, and all of it.   *)
HoldsParts(X, R, q, m) ==
    /\ q \in Seq(X)
    /\ \A i \in 1..Len(q) : \E j \in 1..m : \E k \in 1..Len(R[j]) : q[i] = R[j][k]
    /\ \A j \in 1..m : \A k \in 1..Len(R[j]) : \E i \in 1..Len(q) : q[i] = R[j][k]

(* The parts are joined one after the other.                               *)
LEMMA ConcatenatedRecursion ==
    ASSUME NEW n \in Nat, NEW R
    PROVE  \E s : /\ Concatenated(R, n) = s[n]
                  /\ s[0] = <<>> /\ \A j \in 1..n : s[j] = s[j - 1] \o R[j]
<1> DEFINE N == {k \in Nat : k <= n => \E s : ConcatenatedUpto(R, k, s)}
           c == CHOOSE s : ConcatenatedUpto(R, n, s)
<1>1. 0 \in N
  <2> DEFINE s == [j \in 0..0 |-> <<>>]
  <2>1. ConcatenatedUpto(R, 0, s)
    BY DEF ConcatenatedUpto
  <2>2. QED
    BY <2>1
<1>2. ASSUME NEW k \in N PROVE k + 1 \in N
  <2> SUFFICES ASSUME k + 1 <= n PROVE \E t : ConcatenatedUpto(R, k + 1, t)
    OBVIOUS
  <2>1. k <= n
    OBVIOUS
  <2>2. PICK s : ConcatenatedUpto(R, k, s)
    BY <2>1
  <2> DEFINE t == [j \in 0..(k + 1) |-> IF j <= k THEN s[j] ELSE s[k] \o R[k + 1]]
  <2>3. ASSUME NEW j \in 0..(k + 1) PROVE t[j] = IF j = 0 THEN <<>> ELSE t[j - 1] \o R[j]
    <3>1. CASE j = 0
      BY <2>2, <3>1 DEF ConcatenatedUpto
    <3>2. CASE j \in 1..k
      <4>1. j - 1 \in 0..(k + 1) /\ j - 1 <= k /\ j \in 0..k /\ j <= k /\ j # 0
        BY <3>2
      <4>2. s[j] = s[j - 1] \o R[j]
        <5>1. s = [i \in 0..k |-> IF i = 0 THEN <<>> ELSE s[i - 1] \o R[i]]
          BY <2>2 DEF ConcatenatedUpto
        <5>2. s[j] = IF j = 0 THEN <<>> ELSE s[j - 1] \o R[j]
          BY <4>1, <5>1
        <5>3. QED
          BY <4>1, <5>2
      <4>3. t[j] = s[j] /\ t[j - 1] = s[j - 1]
        BY <4>1
      <4>4. QED
        BY <4>1, <4>2, <4>3
    <3>3. CASE j = k + 1
      <4>1. k \in 0..(k + 1) /\ k <= k /\ ~(k + 1 <= k) /\ (k + 1) - 1 = k /\ k + 1 # 0
            /\ k + 1 \in 0..(k + 1)
        OBVIOUS
      <4>2. t[k] = s[k] /\ t[k + 1] = s[k] \o R[k + 1]
        BY <4>1
      <4>3. QED
        BY <3>3, <4>1, <4>2
    <3>4. QED
      BY <3>1, <3>2, <3>3
  <2>4. t = [j \in 0..(k + 1) |-> IF j = 0 THEN <<>> ELSE t[j - 1] \o R[j]]
    <3> DEFINE u == [j \in 0..(k + 1) |-> IF j = 0 THEN <<>> ELSE t[j - 1] \o R[j]]
    <3>1. \A j \in 0..(k + 1) : t[j] = u[j]
      BY <2>3
    <3>2. QED
      BY <3>1
  <2> HIDE DEF t
  <2>5. QED
    BY <2>4 DEF ConcatenatedUpto
<1>3. N = Nat
  <2> HIDE DEF N
  <2>1. N \in SUBSET Nat
    BY DEF N
  <2>2. QED
    BY <1>1, <1>2, <2>1, NumbersByInduction
<1>4. \E s : ConcatenatedUpto(R, n, s)
  <2>1. n \in N
    BY <1>3
  <2>2. n <= n
    OBVIOUS
  <2>3. QED
    BY <2>1, <2>2
<1>5. ConcatenatedUpto(R, n, c)
  BY <1>4
<1>6. Concatenated(R, n) = c[n]
  BY DEF Concatenated, ConcatenatedUpto
<1> HIDE DEF c
<1>7. c[0] = <<>> /\ \A j \in 1..n : c[j] = c[j - 1] \o R[j]
  <2>1. c = [j \in 0..n |-> IF j = 0 THEN <<>> ELSE c[j - 1] \o R[j]]
    BY <1>5 DEF ConcatenatedUpto
  <2>2. \A j \in 0..n : c[j] = IF j = 0 THEN <<>> ELSE c[j - 1] \o R[j]
    BY <2>1
  <2>3. 0 \in 0..n /\ \A j \in 1..n : j \in 0..n /\ j # 0
    OBVIOUS
  <2>4. \A j \in 1..n : c[j] = c[j - 1] \o R[j]
    BY <2>2, <2>3
  <2>5. QED
    BY <2>2, <2>3, <2>4
<1>8. QED
  BY <1>6, <1>7

LEMMA ConcatenatedStep ==
    ASSUME NEW n \in Nat, NEW R
    PROVE  /\ Concatenated(R, 0) = <<>>
           /\ Concatenated(R, n + 1) = Concatenated(R, n) \o R[n + 1]
<1>1. 0 \in Nat /\ n + 1 \in Nat /\ n + 1 \in 1..(n + 1) /\ (n + 1) - 1 = n
  OBVIOUS
<1>2. PICK s : /\ Concatenated(R, n) = s[n]
               /\ s[0] = <<>> /\ \A j \in 1..n : s[j] = s[j - 1] \o R[j]
  BY ConcatenatedRecursion
<1>3. PICK t : /\ Concatenated(R, n + 1) = t[n + 1]
               /\ t[0] = <<>> /\ \A j \in 1..(n + 1) : t[j] = t[j - 1] \o R[j]
  BY <1>1, ConcatenatedRecursion
<1>4. Concatenated(R, 0) = <<>>
  BY <1>1, ConcatenatedRecursion
<1> DEFINE N == {j \in Nat : j <= n => s[j] = t[j]}
<1>5. 0 \in N
  BY <1>2, <1>3
<1>6. ASSUME NEW j \in N PROVE j + 1 \in N
  <2> SUFFICES ASSUME j + 1 <= n PROVE s[j + 1] = t[j + 1]
    OBVIOUS
  <2>1. j + 1 \in 1..n /\ j + 1 \in 1..(n + 1) /\ (j + 1) - 1 = j /\ j <= n
    OBVIOUS
  <2>2. s[j] = t[j]
    BY <2>1
  <2>3. s[j + 1] = s[j] \o R[j + 1] /\ t[j + 1] = t[j] \o R[j + 1]
    BY <1>2, <1>3, <2>1
  <2>4. QED
    BY <2>2, <2>3
<1>7. N = Nat
  <2> HIDE DEF N
  <2>1. N \in SUBSET Nat
    BY DEF N
  <2>2. QED
    BY <1>5, <1>6, <2>1, NumbersByInduction
<1>8. s[n] = t[n]
  <2>1. n \in N /\ n <= n
    BY <1>7
  <2>2. QED
    BY <2>1
<1>9. t[n + 1] = t[n] \o R[n + 1]
  BY <1>1, <1>3
<1>10. QED
  BY <1>2, <1>3, <1>4, <1>8, <1>9

(* What is joined is what the parts hold, and nothing else.                *)
LEMMA ConcatenatedMembers ==
    ASSUME NEW X, NEW n \in Nat, NEW R, \A j \in 1..n : R[j] \in Seq(X)
    PROVE  HoldsParts(X, R, Concatenated(R, n), n)
<1>1. PICK c : /\ Concatenated(R, n) = c[n]
               /\ c[0] = <<>> /\ \A j \in 1..n : c[j] = c[j - 1] \o R[j]
  BY ConcatenatedRecursion
<1> DEFINE Fits(q, m) == HoldsParts(X, R, q, m)
           M == {m \in Nat : m <= n => Fits(c[m], m)}
<1>2. 0 \in M
  <2>1. Fits(<<>>, 0)
    BY EmptySeq DEF HoldsParts
  <2>2. QED
    BY <1>1, <2>1
<1>3. ASSUME NEW m \in M PROVE m + 1 \in M
  <2> SUFFICES ASSUME m + 1 <= n PROVE Fits(c[m + 1], m + 1)
    OBVIOUS
  <2>1. m <= n /\ m \in Nat /\ m + 1 \in 1..n /\ (m + 1) - 1 = m
    OBVIOUS
  <2> DEFINE q == c[m]
             p == R[m + 1]
  <2>2. Fits(q, m)
    BY <2>1
  <2>3. q \in Seq(X) /\ p \in Seq(X) /\ c[m + 1] = q \o p
    BY <1>1, <2>1, <2>2 DEF HoldsParts
  <2> HIDE DEF q, p
  <2>4. /\ Len(q) \in Nat /\ Len(p) \in Nat
        /\ q \o p \in Seq(X) /\ Len(q \o p) = Len(q) + Len(p)
        /\ \A i \in 1..(Len(q) + Len(p)) :
              (q \o p)[i] = IF i <= Len(q) THEN q[i] ELSE p[i - Len(q)]
    BY <2>3, ConcatProperties, LenProperties
  <2>5. ASSUME NEW i \in 1..Len(q \o p)
        PROVE  \E j \in 1..(m + 1) : \E k \in 1..Len(R[j]) : (q \o p)[i] = R[j][k]
    <3>1. CASE i <= Len(q)
      <4>1. i \in 1..Len(q) /\ (q \o p)[i] = q[i]
        BY <2>4, <3>1
      <4>2. PICK j \in 1..m : \E k \in 1..Len(R[j]) : q[i] = R[j][k]
        BY <2>2, <4>1 DEF HoldsParts
      <4>3. j \in 1..(m + 1)
        BY <2>1
      <4>4. QED
        BY <4>1, <4>2, <4>3
    <3>2. CASE ~(i <= Len(q))
      <4>1. i - Len(q) \in 1..Len(p) /\ (q \o p)[i] = p[i - Len(q)]
        BY <2>4, <3>2
      <4>2. m + 1 \in 1..(m + 1)
        BY <2>1
      <4>3. QED
        BY <4>1, <4>2 DEF p
    <3>3. QED
      BY <3>1, <3>2
  <2>6. ASSUME NEW j \in 1..(m + 1), NEW k \in 1..Len(R[j])
        PROVE  \E i \in 1..Len(q \o p) : (q \o p)[i] = R[j][k]
    <3>1. CASE j \in 1..m
      <4>1. PICK i \in 1..Len(q) : q[i] = R[j][k]
        BY <2>2, <3>1 DEF HoldsParts
      <4>2. i \in 1..Len(q \o p) /\ (q \o p)[i] = q[i]
        BY <2>4
      <4>3. QED
        BY <4>1, <4>2
    <3>2. CASE j = m + 1
      <4>1. k \in 1..Len(p) /\ R[j][k] = p[k]
        BY <3>2 DEF p
      <4>2. Len(q) + k \in 1..(Len(q) + Len(p)) /\ ~(Len(q) + k <= Len(q)) /\ (Len(q) + k) - Len(q) = k
        BY <2>4, <4>1
      <4>3. (q \o p)[Len(q) + k] = p[k]
        BY <2>4, <4>2
      <4>4. QED
        BY <2>4, <4>1, <4>2, <4>3
    <3>3. QED
      BY <2>1, <3>1, <3>2
  <2>7. q \o p \in Seq(X)
    BY <2>4
  <2>8. HoldsParts(X, R, q \o p, m + 1)
    BY <2>5, <2>6, <2>7 DEF HoldsParts
  <2>9. QED
    BY <2>3, <2>8
<1>4. M = Nat
  <2> HIDE DEF M
  <2>1. M \in SUBSET Nat
    BY DEF M
  <2>2. QED
    BY <1>2, <1>3, <2>1, NumbersByInduction
<1>5. Fits(c[n], n)
  <2>1. n \in M
    BY <1>4
  <2>2. n <= n
    OBVIOUS
  <2>3. QED
    BY <2>1, <2>2
<1>6. QED
  BY <1>1, <1>5
=============================================================================
