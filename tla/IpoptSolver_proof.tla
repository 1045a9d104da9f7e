------------------------- MODULE IpoptSolver_proof -------------------------
(***************************************************************************)
(* Proofs about IpoptSolver and the views of NLPModel, for every model,    *)
(* every number of views and every set of points: types, that only an ASL  *)
(* view outgrows Ipopt's arrays, what resolve() sees, what a solve keeps   *)
(* and the bounds it keeps, that no answer comes from a cache or a sweep   *)
(* of another point, and that answers are the values and derivatives of    *)
(* the model's own expressions.                                            *)
(***************************************************************************)
EXTENDS IpoptSolver, Finite_proof

-----------------------------------------------------------------------------
(* The columns of a view.                                                  *)

LEMMA RankBounds ==
    ASSUME NEW S \in SUBSET Var, NEW v \in S
    PROVE  /\ IsFiniteSet(S)
           /\ Rank(v, S) \in 1..Cardinality(S)
<1>1. IsFiniteSet(S) /\ Cardinality(S) \in Nat
  BY VariablesOrdered, FS_Subset, FS_CardinalityType
<1> DEFINE T == {w \in S : VarIndex[w] <= VarIndex[v]}
<1>2. T \in SUBSET S /\ v \in T
  BY VariablesOrdered
<1>3. IsFiniteSet(T) /\ Cardinality(T) <= Cardinality(S) /\ Cardinality(T) \in Nat
  BY <1>1, <1>2, FS_Subset, FS_CardinalityType
<1>4. Cardinality(T) # 0
  BY <1>2, <1>3, FS_EmptySet
<1>5. QED
  BY <1>1, <1>3, <1>4 DEF Rank

LEMMA RankInjective ==
    ASSUME NEW S \in SUBSET Var, NEW v \in S, NEW w \in S, Rank(v, S) = Rank(w, S)
    PROVE  v = w
<1> DEFINE Upto(u) == {t \in S : VarIndex[t] <= VarIndex[u]}
<1>1. ASSUME NEW a \in S, NEW b \in S, Rank(a, S) = Rank(b, S), VarIndex[a] < VarIndex[b]
      PROVE  FALSE
  <2>1. IsFiniteSet(Upto(b))
    BY VariablesOrdered, FS_Subset, Upto(b) \in SUBSET Var
  <2>2. Upto(a) \in SUBSET Upto(b) /\ b \in Upto(b) /\ b \notin Upto(a)
    BY <1>1, VariablesOrdered
  <2>3. Cardinality(Upto(a)) = Cardinality(Upto(b))
    BY <1>1 DEF Rank
  <2>4. QED
    BY <2>1, <2>2, <2>3, FS_Subset
<1>2. VarIndex[v] \in Nat /\ VarIndex[w] \in Nat /\ (v # w => VarIndex[v] # VarIndex[w])
  BY VariablesOrdered
<1>3. QED
  BY <1>1, <1>2

(* Every variable of a set has a place in the index order, and every place *)
(* a variable.                                                             *)
LEMMA IndexOrder ==
    ASSUME NEW S \in SUBSET Var
    PROVE  /\ InIndexOrder(S) \in Seq(Var)
           /\ DOMAIN InIndexOrder(S) = 1..Cardinality(S)
           /\ ToSet(InIndexOrder(S)) = S
           /\ \A i, j \in DOMAIN InIndexOrder(S) :
                InIndexOrder(S)[i] = InIndexOrder(S)[j] => i = j
<1> DEFINE ranks == 1..Cardinality(S)
           f == [v \in S |-> Rank(v, S)]
           s == InIndexOrder(S)
<1>1. IsFiniteSet(S) /\ Cardinality(S) \in Nat
  BY VariablesOrdered, FS_Subset, FS_CardinalityType
<1>2. f \in Injection(S, ranks)
  BY RankBounds, RankInjective DEF Injection, IsInjective
<1>3. IsFiniteSet(ranks) /\ Cardinality(ranks) = Cardinality(S)
  BY <1>1, FS_Interval
<1>4. f \in Surjection(S, ranks)
  BY <1>2, <1>3, FS_Injection
<1>5. \A j \in ranks : \E v \in S : Rank(v, S) = j
  BY <1>4 DEF Surjection
<1>6. DOMAIN s = ranks /\ \A j \in ranks : s[j] \in S /\ Rank(s[j], S) = j
  <2>1. \A j \in ranks : s[j] = CHOOSE v \in S : Rank(v, S) = j
    BY DEF InIndexOrder
  <2>2. QED
    BY <1>5, <2>1 DEF InIndexOrder
<1>7. s \in [ranks -> Var]
  BY <1>6 DEF InIndexOrder
<1>8. s \in Seq(Var)
  BY <1>1, <1>7
<1>9. \A v \in S : \E j \in ranks : s[j] = v
  BY <1>6, RankBounds, RankInjective
<1>10. QED
  BY <1>6, <1>8, <1>9 DEF ToSet

-----------------------------------------------------------------------------
(***************************************************************************)
(* Polynomials.  Their values are integers, and the columns of a view that *)
(* holds every variable that occurs are enough to compute values and       *)
(* derivatives.                                                            *)
(***************************************************************************)
PowerUpto(b, n, s) == s = [k \in 0..n |-> IF k = 0 THEN 1 ELSE b * s[k - 1]]

LEMMA PowerType ==
    ASSUME NEW b \in Int, NEW n \in Nat
    PROVE  Power(b, n) \in Int /\ Power(b, 0) = 1
<1> DEFINE N == {k \in Nat : \E s \in [0..k -> Int] : PowerUpto(b, k, s)}
           c(k) == CHOOSE s : PowerUpto(b, k, s)
<1>1. 0 \in N
  <2> DEFINE s == [k \in 0..0 |-> 1]
  <2>1. s \in [0..0 -> Int] /\ PowerUpto(b, 0, s)
    BY DEF PowerUpto
  <2>2. QED
    BY <2>1
<1>2. ASSUME NEW k \in N PROVE k + 1 \in N
  <2>1. PICK s \in [0..k -> Int] : PowerUpto(b, k, s)
    OBVIOUS
  <2> DEFINE t == [j \in 0..(k + 1) |-> IF j <= k THEN s[j] ELSE b * s[k]]
             u == [j \in 0..(k + 1) |-> IF j = 0 THEN 1 ELSE b * t[j - 1]]
  <2>2. \A j \in 0..k : s[j] = IF j = 0 THEN 1 ELSE b * s[j - 1]
    BY <2>1 DEF PowerUpto
  <2>3. ASSUME NEW j \in 0..(k + 1) PROVE t[j] = u[j]
    <3>1. CASE j = 0
      BY <2>2, <3>1
    <3>2. CASE j \in 1..k
      <4>1. j - 1 \in 0..(k + 1) /\ j - 1 <= k /\ j \in 0..k /\ j <= k /\ j # 0
        BY <3>2
      <4>2. s[j] = b * s[j - 1]
        BY <2>2, <4>1
      <4>3. t[j] = s[j] /\ t[j - 1] = s[j - 1]
        BY <4>1
      <4>4. u[j] = b * t[j - 1]
        BY <4>1
      <4> HIDE DEF t, u
      <4>5. QED
        BY <4>2, <4>3, <4>4
    <3>3. CASE j = k + 1
      <4>1. k \in 0..(k + 1) /\ k <= k /\ ~(k + 1 <= k) /\ (k + 1) - 1 = k /\ k + 1 # 0
            /\ k + 1 \in 0..(k + 1)
        OBVIOUS
      <4>2. t[k] = s[k] /\ t[k + 1] = b * s[k]
        BY <4>1
      <4>3. u[k + 1] = b * t[k]
        BY <4>1
      <4> HIDE DEF t, u
      <4>4. QED
        BY <3>3, <4>2, <4>3
    <3>4. QED
      BY <3>1, <3>2, <3>3
  <2>4. PowerUpto(b, k + 1, t)
    BY <2>3 DEF PowerUpto
  <2>5. t \in [0..(k + 1) -> Int]
    OBVIOUS
  <2> HIDE DEF t
  <2>6. QED
    BY <2>4, <2>5
<1>3. N = Nat
  <2> HIDE DEF N
  <2>1. N \in SUBSET Nat
    BY DEF N
  <2>2. QED
    BY <1>1, <1>2, <2>1, NumbersByInduction
<1>4. \A k \in Nat : PowerUpto(b, k, c(k))
  BY <1>3
<1>5. \A k \in Nat : Power(b, k) = c(k)[k]
  BY DEF Power, PowerUpto
<1> HIDE DEF c
<1>6. ASSUME NEW k \in Nat, NEW s \in [0..k -> Int], PowerUpto(b, k, s)
      PROVE  s = c(k)
  <2> DEFINE M == {j \in Nat : j <= k => s[j] = c(k)[j]}
  <2>1. \A j \in 0..k : /\ s[j] = IF j = 0 THEN 1 ELSE b * s[j - 1]
                        /\ c(k)[j] = IF j = 0 THEN 1 ELSE b * c(k)[j - 1]
    BY <1>4, <1>6 DEF PowerUpto
  <2>2. 0 \in M
    BY <2>1
  <2>3. ASSUME NEW j \in M PROVE j + 1 \in M
    <3> SUFFICES ASSUME j + 1 <= k PROVE s[j + 1] = c(k)[j + 1]
      OBVIOUS
    <3>1. s[j] = c(k)[j] /\ j + 1 \in 0..k /\ j + 1 # 0 /\ (j + 1) - 1 = j
      OBVIOUS
    <3>2. QED
      BY <2>1, <3>1
  <2>4. M = Nat
    <3> HIDE DEF M
    <3>1. M \in SUBSET Nat
      BY DEF M
    <3>2. QED
      BY <2>2, <2>3, <3>1, NumbersByInduction
  <2>5. \A j \in 0..k : s[j] = c(k)[j]
    BY <2>4
  <2>6. DOMAIN c(k) = 0..k
    BY <1>4 DEF PowerUpto
  <2>7. c(k) = [j \in 0..k |-> c(k)[j]]
    BY <1>4 DEF PowerUpto
  <2>8. QED
    BY <2>5, <2>7
<1>7. c(n)[n] \in Int
  <2>1. PICK s \in [0..n -> Int] : PowerUpto(b, n, s)
    BY <1>3
  <2>2. QED
    BY <1>6, <2>1
<1>8. c(0)[0] = 1
  BY <1>4 DEF PowerUpto
<1>9. QED
  BY <1>5, <1>7, <1>8

(* A term of the model, and its derivative.                                *)
Terms == [coef : Int, pow : [Atom -> Nat]]

DerivedTerm(t, a) ==
    [coef |-> t.coef * t.pow[a], pow |-> [t.pow EXCEPT ![a] = IF @ = 0 THEN 0 ELSE @ - 1]]

(* Columns, and values and fixed flags, of a view.                         *)
Columns(used, at) ==
    /\ used \in Seq(Var) /\ \A i, j \in DOMAIN used : used[i] = used[j] => i = j
    /\ at.val \in [Atom -> Num] /\ at.fixed \in SUBSET Var

(* There is a column for what occurs in a term and is not fixed.           *)
Covered(t, used, at) ==
    t \in Terms /\ \A v \in Var \ at.fixed : t.pow[v] # 0 => v \in ToSet(used)

LEMMA DerivativeTerms ==
    ASSUME NEW e, NEW a
    PROVE  /\ DOMAIN Derivative(e, a) = DOMAIN e
           /\ \A k \in DOMAIN e : Derivative(e, a)[k] = DerivedTerm(e[k], a)
BY DEF Derivative, DerivedTerm

LEMMA ColumnOfUsed ==
    ASSUME NEW used, NEW at, Columns(used, at)
    PROVE  /\ ToSet(used) \in SUBSET Var
           /\ \A j \in DOMAIN used : used[j] \in Var /\ Column(used, used[j]) = j
           /\ \A v \in ToSet(used) : Column(used, v) \in DOMAIN used /\ used[Column(used, v)] = v
<1>1. ToSet(used) = {used[j] : j \in DOMAIN used}
  BY DEF ToSet
<1>2. \A j \in DOMAIN used : used[j] \in Var
  BY DEF Columns
<1>3. \A v \in ToSet(used) : Column(used, v) \in DOMAIN used /\ used[Column(used, v)] = v
  <2> TAKE v \in ToSet(used)
  <2>1. \E j \in DOMAIN used : used[j] = v
    BY <1>1
  <2>2. Column(used, v) = CHOOSE j \in DOMAIN used : used[j] = v
    BY DEF Column
  <2>3. QED
    BY <2>1, <2>2
<1>4. \A j \in DOMAIN used : Column(used, used[j]) = j
  BY <1>1, <1>3 DEF Columns
<1>5. QED
  BY <1>1, <1>2, <1>3, <1>4

LEMMA AtomsFinite == IsFiniteSet(Atom) /\ IsFiniteSet(Var) /\ \A S \in SUBSET Atom : IsFiniteSet(S)
<1>1. IsFiniteSet(Atom)
  BY VariablesOrdered, FS_Union DEF Atom
<1>2. QED
  BY <1>1, VariablesOrdered, FS_Subset

LEMMA PowersType ==
    ASSUME NEW S, IsFiniteSet(S), NEW x, NEW pow, \A a \in S : x[a] \in Int /\ pow[a] \in Nat
    PROVE  Powers(x, pow, S) \in Int
<1> DEFINE f == [a \in S |-> Power(x[a], pow[a])]
<1>1. Numbers(f, S)
  BY PowerType DEF Numbers
<1>2. QED
  BY <1>1, FoldType DEF Powers, ProductOver

(* Powers are a product, and those of what does not occur are ones.        *)
LEMMA PowersSame ==
    ASSUME NEW S, IsFiniteSet(S), NEW x, NEW pow, \A a \in S : x[a] \in Int /\ pow[a] \in Nat,
           NEW y, NEW q, \A a \in S : y[a] = x[a] /\ q[a] = pow[a]
    PROVE  Powers(y, q, S) = Powers(x, pow, S)
<1> DEFINE f == [a \in S |-> Power(x[a], pow[a])]
           g == [a \in S |-> Power(y[a], q[a])]
<1>1. f = g
  OBVIOUS
<1>2. QED
  BY <1>1 DEF Powers

LEMMA PowersSplit ==
    ASSUME NEW S, IsFiniteSet(S), NEW x, NEW pow, \A a \in S : x[a] \in Int /\ pow[a] \in Nat,
           NEW R \in SUBSET S
    PROVE  Powers(x, pow, S) = Powers(x, pow, R) * Powers(x, pow, S \ R)
<1> DEFINE f(T) == [a \in T |-> Power(x[a], pow[a])]
<1>1. Numbers(f(S), S) /\ Numbers(f(R), R) /\ Numbers(f(S \ R), S \ R)
  BY PowerType, FS_Subset DEF Numbers
<1>2. FoldOver("*", f(S), S) = FoldOver("*", f(S), R) * FoldOver("*", f(S), S \ R)
  BY <1>1, FoldSplit DEF Combine
<1>3. FoldOver("*", f(S), R) = FoldOver("*", f(R), R)
  <2>1. \A a \in R : f(S)[a] = f(R)[a]
    OBVIOUS
  <2> HIDE DEF f
  <2>2. QED
    BY <1>1, <2>1, FoldSame
<1>4. FoldOver("*", f(S), S \ R) = FoldOver("*", f(S \ R), S \ R)
  <2>1. \A a \in S \ R : f(S)[a] = f(S \ R)[a]
    OBVIOUS
  <2> HIDE DEF f
  <2>2. QED
    BY <1>1, <2>1, FoldSame
<1>5. QED
  BY <1>2, <1>3, <1>4 DEF Powers, ProductOver

LEMMA PowersOfSubset ==
    ASSUME NEW S, IsFiniteSet(S), NEW x, NEW pow, \A a \in S : x[a] \in Int /\ pow[a] \in Nat,
           NEW R \in SUBSET S, \A a \in S \ R : pow[a] = 0
    PROVE  Powers(x, pow, S) = Powers(x, pow, R)
<1> DEFINE f(T) == [a \in T |-> Power(x[a], pow[a])]
<1>1. Numbers(f(S), S) /\ Numbers(f(R), R)
  BY PowerType, FS_Subset DEF Numbers
<1>2. \A a \in S \ R : f(S)[a] = Neutral("*")
  BY PowerType DEF Neutral
<1>3. FoldOver("*", f(S), S) = FoldOver("*", f(S), R)
  <2> HIDE DEF f
  <2>1. QED
    BY <1>1, <1>2, FoldOfSubset
<1>4. FoldOver("*", f(S), R) = FoldOver("*", f(R), R)
  <2>1. \A a \in R : f(S)[a] = f(R)[a]
    OBVIOUS
  <2> HIDE DEF f
  <2>2. QED
    BY <1>1, <2>1, FoldSame
<1>5. QED
  BY <1>3, <1>4 DEF Powers, ProductOver

LEMMA PowersRenamed ==
    ASSUME NEW S, IsFiniteSet(S), NEW x, NEW pow, \A a \in S : x[a] \in Int /\ pow[a] \in Nat,
           NEW K, IsFiniteSet(K), NEW y, NEW q,
           NEW h, \A k \in K : h[k] \in S /\ y[k] = x[h[k]] /\ q[k] = pow[h[k]],
           \A k, l \in K : h[k] = h[l] => k = l,
           \A a \in S : \E k \in K : h[k] = a
    PROVE  Powers(y, q, K) = Powers(x, pow, S)
<1> DEFINE f == [a \in S |-> Power(x[a], pow[a])]
           g == [k \in K |-> Power(y[k], q[k])]
<1>1. Numbers(f, S)
  BY PowerType DEF Numbers
<1>2. \A k \in K : h[k] \in S /\ g[k] = f[h[k]]
  OBVIOUS
<1> HIDE DEF f, g
<1>3. FoldOver("*", g, K) = FoldOver("*", f, S)
  BY <1>1, <1>2, FoldRenamed
<1>4. QED
  BY <1>3 DEF Powers, ProductOver, f, g

(* The power of a column is that of its variable.                          *)
LEMMA SubstitutedPower ==
    ASSUME NEW used, NEW at, Columns(used, at), NEW t, Covered(t, used, at), NEW j \in DOMAIN used
    PROVE  /\ Substituted(t, used, at).pow[j] = IF used[j] \in at.fixed THEN 0 ELSE t.pow[used[j]]
           /\ Substituted(t, used, at).pow[j] \in Nat
<1> DEFINE S == {v \in Var \ at.fixed : Column(used, v) = j}
<1>1. t.pow \in [Atom -> Nat] /\ \A v \in Var : v \in Atom
  BY DEF Covered, Terms, Atom
<1>2. Numbers(t.pow, S)
  BY <1>1, AtomsFinite, S \in SUBSET Var, FS_Subset DEF Numbers
<1>3. Substituted(t, used, at).pow[j] = FoldOver("+", t.pow, S)
  BY DEF Substituted, SumOver
<1>4. \A v \in S : v # used[j] => t.pow[v] = 0
  <2> SUFFICES ASSUME NEW v \in S, v # used[j] PROVE t.pow[v] = 0
    OBVIOUS
  <2>1. v \notin ToSet(used)
    BY ColumnOfUsed
  <2>2. QED
    BY <2>1 DEF Covered
<1> HIDE DEF S
<1>5. CASE used[j] \in at.fixed
  <2>1. used[j] \notin S
    BY <1>5 DEF S
  <2>2. \A v \in S : t.pow[v] = Neutral("+")
    BY <1>4, <2>1 DEF Neutral
  <2>3. FoldOver("+", t.pow, S) = 0
    BY <1>2, <2>2, FoldOfNone DEF Neutral, Numbers
  <2>4. QED
    BY <1>3, <1>5, <2>3
<1>6. CASE used[j] \notin at.fixed
  <2>1. used[j] \in S
    BY <1>6, ColumnOfUsed DEF S
  <2>2. \A v \in S \ {used[j]} : t.pow[v] = Neutral("+")
    BY <1>4 DEF Neutral
  <2>3. FoldOver("+", t.pow, S) = t.pow[used[j]]
    BY <1>2, <2>1, <2>2, FoldOfOne
  <2>4. used[j] \in Atom
    BY <1>1, ColumnOfUsed
  <2>5. QED
    BY <1>1, <1>3, <1>6, <2>3, <2>4
<1>7. QED
  BY <1>5, <1>6

(* The value of a term is that of what is recorded for it: parameters and  *)
(* fixed variables in the coefficient, the rest in the columns.            *)
LEMMA WholePoint ==
    ASSUME NEW used, NEW at, Columns(used, at), NEW x \in [DOMAIN used -> Num]
    PROVE  /\ Whole(used, x, at) \in [Atom -> Int]
           /\ \A a \in Param \cup at.fixed : Whole(used, x, at)[a] = at.val[a]
           /\ \A j \in DOMAIN used : used[j] \notin at.fixed => Whole(used, x, at)[used[j]] = x[j]
<1>1. \A a \in ToSet(used) : x[Column(used, a)] \in Int
  BY ColumnOfUsed, ViewNumbers
<1>2. \A a \in Atom : at.val[a] \in Int
  BY ViewNumbers DEF Columns
<1>3. Whole(used, x, at) \in [Atom -> Int]
  BY <1>1, <1>2 DEF Whole
<1>4. \A a \in Param \cup at.fixed : a \in Atom /\ a \notin ToSet(used) \ at.fixed
  BY ColumnOfUsed, ViewAtomsApart DEF Atom, Columns
<1>5. \A j \in DOMAIN used : used[j] \in ToSet(used) /\ used[j] \in Atom
  BY ColumnOfUsed DEF ToSet, Atom
<1>6. QED
  BY <1>3, <1>4, <1>5, ColumnOfUsed DEF Whole

LEMMA SubstitutedType ==
    ASSUME NEW used, NEW at, Columns(used, at), NEW t, Covered(t, used, at)
    PROVE  Substituted(t, used, at) \in [coef : Int, pow : [DOMAIN used -> Nat]]
<1> DEFINE S == Param \cup at.fixed
<1>1. IsFiniteSet(S) /\ \A a \in S : at.val[a] \in Int /\ t.pow[a] \in Nat
  <2>1. S \in SUBSET Atom
    BY DEF Columns, Atom
  <2>2. QED
    BY <2>1, AtomsFinite, ViewNumbers DEF Columns, Covered, Terms
<1>2. Powers(at.val, t.pow, S) \in Int
  BY <1>1, PowersType
<1>3. t.coef \in Int
  BY DEF Covered, Terms
<1>4. t.coef * Powers(at.val, t.pow, S) \in Int
  BY <1>2, <1>3
<1>5. [j \in DOMAIN used |-> SumOver(t.pow, {v \in Var \ at.fixed : Column(used, v) = j})]
      \in [DOMAIN used -> Nat]
  <2>1. \A j \in DOMAIN used : SumOver(t.pow, {v \in Var \ at.fixed : Column(used, v) = j}) \in Nat
    BY SubstitutedPower DEF Substituted
  <2>2. QED
    BY <2>1
<1>6. QED
  BY <1>4, <1>5 DEF Substituted, Coefficient

LEMMA TermAtType ==
    ASSUME NEW S, IsFiniteSet(S), NEW t \in [coef : Int, pow : [S -> Nat]], NEW x,
           \A a \in S : x[a] \in Int
    PROVE  TermAt(t, x) \in Int /\ (t.coef = 0 => TermAt(t, x) = 0)
           /\ TermAt(t, x) = t.coef * Powers(x, t.pow, S)
<1>1. DOMAIN t.pow = S
  OBVIOUS
<1>2. Powers(x, t.pow, S) \in Int
  BY PowersType
<1> DEFINE p == Powers(x, t.pow, S)
<1>3. TermAt(t, x) = t.coef * p
  BY <1>1 DEF TermAt
<1> HIDE DEF p
<1>4. \A i, j \in Int : i * j \in Int /\ 0 * j = 0
  OBVIOUS
<1>5. p \in Int /\ t.coef \in Int
  BY <1>2 DEF p
<1>6. QED
  BY <1>3, <1>4, <1>5 DEF p

LEMMA SubstitutedAt ==
    ASSUME NEW used, NEW at, Columns(used, at), NEW t, Covered(t, used, at),
           NEW x \in [DOMAIN used -> Num]
    PROVE  TermAt(Substituted(t, used, at), x) = TermAt(t, Whole(used, x, at))
<1> DEFINE y == Whole(used, x, at)
           S == Param \cup at.fixed
           s == Substituted(t, used, at)
           R == ToSet(used) \ at.fixed
           K == {j \in DOMAIN used : used[j] \notin at.fixed}
<1>1. /\ IsFiniteSet(Atom) /\ IsFiniteSet(S) /\ IsFiniteSet(Atom \ S) /\ IsFiniteSet(R)
      /\ S \in SUBSET Atom /\ R \in SUBSET (Atom \ S)
  <2>1. S \in SUBSET Atom /\ R \in SUBSET (Atom \ S)
    BY ColumnOfUsed, ViewAtomsApart DEF Columns, Atom
  <2>2. QED
    BY <2>1, AtomsFinite
<1>2. IsFiniteSet(DOMAIN used) /\ IsFiniteSet(K)
  <2>1. IsFiniteSet(DOMAIN used)
    BY FS_Interval DEF Columns
  <2>2. QED
    BY <2>1, FS_Subset
<1>3. t.coef \in Int /\ t.pow \in [Atom -> Nat] /\ t \in Terms
  BY DEF Covered, Terms
<1>4. s \in [coef : Int, pow : [DOMAIN used -> Nat]]
  BY SubstitutedType
<1>5. \A j \in DOMAIN used : x[j] \in Int
  BY ViewNumbers
<1>6. /\ \A a \in Atom : y[a] \in Int
      /\ \A a \in S : y[a] = at.val[a]
      /\ \A j \in K : y[used[j]] = x[j]
  BY WholePoint
<1>7. s.coef = t.coef * Powers(at.val, t.pow, S)
  BY DEF Substituted, Coefficient
<1>8. /\ \A j \in K : s.pow[j] = t.pow[used[j]]
      /\ \A j \in DOMAIN used \ K : s.pow[j] = 0
  BY SubstitutedPower
<1>9. \A a \in (Atom \ S) \ R : t.pow[a] = 0
  BY <1>3 DEF Covered, Atom
<1> HIDE DEF s, y, S, R, K
<1>10. Powers(y, t.pow, S) = Powers(at.val, t.pow, S)
  <2>1. \A a \in S : at.val[a] \in Int /\ t.pow[a] \in Nat
    BY <1>1, <1>3, <1>6
  <2>2. QED
    BY <1>1, <1>6, <2>1, PowersSame
<1>11. Powers(y, t.pow, Atom) = Powers(y, t.pow, S) * Powers(y, t.pow, Atom \ S)
  BY <1>1, <1>3, <1>6, PowersSplit
<1>12. Powers(y, t.pow, Atom \ S) = Powers(y, t.pow, R)
  <2>1. \A a \in Atom \ S : y[a] \in Int /\ t.pow[a] \in Nat
    BY <1>3, <1>6
  <2>2. QED
    BY <1>1, <1>9, <2>1, PowersOfSubset
<1>13. Powers(x, s.pow, DOMAIN used) = Powers(x, s.pow, K)
  <2>1. \A j \in DOMAIN used : x[j] \in Int /\ s.pow[j] \in Nat
    BY <1>4, <1>5
  <2>2. K \in SUBSET DOMAIN used
    BY DEF K
  <2>3. QED
    BY <1>2, <1>8, <2>1, <2>2, PowersOfSubset
<1>14. Powers(x, s.pow, K) = Powers(y, t.pow, R)
  <2>1. \A a \in R : y[a] \in Int /\ t.pow[a] \in Nat
    BY <1>1, <1>3, <1>6
  <2>2. \A j \in K : used[j] \in R /\ x[j] = y[used[j]] /\ s.pow[j] = t.pow[used[j]]
    BY <1>6, <1>8 DEF K, R, ToSet
  <2>3. \A i, j \in K : used[i] = used[j] => i = j
    BY DEF K, Columns
  <2>4. \A a \in R : \E j \in K : used[j] = a
    BY DEF K, R, ToSet
  <2>5. QED
    BY <1>1, <1>2, <2>1, <2>2, <2>3, <2>4, PowersRenamed
<1>15. TermAt(s, x) = s.coef * Powers(x, s.pow, DOMAIN used)
  BY <1>2, <1>4, <1>5, TermAtType
<1>16. TermAt(t, y) = t.coef * Powers(y, t.pow, Atom)
  BY <1>1, <1>3, <1>6, TermAtType DEF Terms
<1>17. Powers(y, t.pow, S) \in Int /\ Powers(y, t.pow, R) \in Int
  BY <1>1, <1>3, <1>6, PowersType
<1> DEFINE p == Powers(y, t.pow, S)
           r == Powers(y, t.pow, R)
<1>18. TermAt(s, x) = (t.coef * p) * r /\ TermAt(t, y) = t.coef * (p * r)
  BY <1>7, <1>10, <1>11, <1>12, <1>13, <1>14, <1>15, <1>16
<1>19. p \in Int /\ r \in Int
  BY <1>17
<1> HIDE DEF p, r
<1>20. \A i, j, k \in Int : (i * j) * k = i * (j * k)
  OBVIOUS
<1>21. TermAt(s, x) = TermAt(t, y)
  BY <1>3, <1>18, <1>19, <1>20
<1>22. QED
  BY <1>21 DEF s, y

LEMMA DerivedType ==
    ASSUME NEW S, NEW t \in [coef : Int, pow : [S -> Nat]], NEW a \in S
    PROVE  /\ DerivedTerm(t, a) \in [coef : Int, pow : [S -> Nat]]
           /\ \A b \in S : DerivedTerm(t, a).pow[b]
                           = IF a = b /\ t.pow[b] # 0 THEN t.pow[b] - 1 ELSE t.pow[b]
           /\ t.coef = 0 \/ t.pow[a] = 0 => DerivedTerm(t, a).coef = 0
<1>1. t.coef \in Int /\ t.pow \in [S -> Nat] /\ t.pow[a] \in Nat
  OBVIOUS
<1>2. \A i, j \in Int : i * j \in Int /\ 0 * j = 0 /\ i * 0 = 0
  OBVIOUS
<1>3. t.coef * t.pow[a] \in Int /\ (t.coef = 0 \/ t.pow[a] = 0 => t.coef * t.pow[a] = 0)
  BY <1>1, <1>2
<1> DEFINE p == [t.pow EXCEPT ![a] = IF @ = 0 THEN 0 ELSE @ - 1]
<1>4. p \in [S -> Nat] /\ \A b \in S : p[b] = IF a = b /\ t.pow[b] # 0 THEN t.pow[b] - 1
                                              ELSE t.pow[b]
  BY <1>1
<1>5. DerivedTerm(t, a).coef = t.coef * t.pow[a] /\ DerivedTerm(t, a).pow = p
      /\ DerivedTerm(t, a) = [coef |-> t.coef * t.pow[a], pow |-> p]
  BY DEF DerivedTerm
<1> HIDE DEF p
<1>6. QED
  BY <1>3, <1>4, <1>5

LEMMA DerivedCovered ==
    ASSUME NEW used, NEW at, Columns(used, at), NEW t, Covered(t, used, at), NEW a \in Atom
    PROVE  Covered(DerivedTerm(t, a), used, at)
<1>1. t \in [coef : Int, pow : [Atom -> Nat]]
  BY DEF Covered, Terms
<1>2. /\ DerivedTerm(t, a) \in Terms
      /\ \A v \in Var : DerivedTerm(t, a).pow[v] # 0 => t.pow[v] # 0
  BY <1>1, DerivedType DEF Terms, Atom
<1>3. QED
  BY <1>2 DEF Covered

(* Recording and differentiating commute, for a column that is not fixed;  *)
(* a column that was fixed since has no power.                             *)
LEMMA SubstitutedDerived ==
    ASSUME NEW used, NEW at, Columns(used, at), NEW t, Covered(t, used, at), NEW j \in DOMAIN used
    PROVE  LET s == Substituted(t, used, at)
           IN  IF used[j] \in at.fixed THEN DerivedTerm(s, j).coef = 0
               ELSE DerivedTerm(s, j) = Substituted(DerivedTerm(t, used[j]), used, at)
<1> DEFINE s == Substituted(t, used, at)
           v == used[j]
           d == DerivedTerm(t, v)
           S == Param \cup at.fixed
           sd == Substituted(d, used, at)
           ds == DerivedTerm(s, j)
<1>1. s \in [coef : Int, pow : [DOMAIN used -> Nat]] /\ v \in Var /\ v \in Atom
      /\ t \in [coef : Int, pow : [Atom -> Nat]]
  BY SubstitutedType, ColumnOfUsed DEF Covered, Terms, Atom
<1>2. Covered(d, used, at)
  BY <1>1, DerivedCovered
<1>3. /\ ds \in [coef : Int, pow : [DOMAIN used -> Nat]]
      /\ sd \in [coef : Int, pow : [DOMAIN used -> Nat]]
  BY <1>1, <1>2, DerivedType, SubstitutedType
<1>4. CASE v \in at.fixed
  BY <1>1, <1>4, SubstitutedPower, DerivedType
<1>5. CASE v \notin at.fixed
  <2>1. ds.coef = sd.coef
    <3> DEFINE p == Powers(at.val, t.pow, S)
    <3>1. Powers(at.val, d.pow, S) = p
      <4>1. S \in SUBSET Atom /\ v \notin S
        BY <1>1, <1>5, ViewAtomsApart DEF Columns, Atom
      <4>2. \A a \in S : at.val[a] \in Int /\ t.pow[a] \in Nat /\ a # v /\ a \in Atom
        BY <1>1, <4>1, ViewNumbers DEF Columns
      <4> HIDE DEF d, S, v
      <4>3. \A a \in S : d.pow[a] = t.pow[a]
        BY <1>1, <4>2, DerivedType DEF d
      <4>4. QED
        BY <4>1, <4>2, <4>3, AtomsFinite, PowersSame
    <3>2. s.coef = t.coef * p /\ sd.coef = d.coef * Powers(at.val, d.pow, S)
      BY DEF Substituted, Coefficient
    <3>3. d.coef = t.coef * t.pow[v] /\ ds.coef = s.coef * s.pow[j]
      BY DEF DerivedTerm
    <3>4. s.pow[j] = t.pow[v] /\ t.pow[v] \in Int /\ t.coef \in Int /\ v \in Atom
      BY <1>1, <1>5, SubstitutedPower
    <3>5. p \in Int
      <4>1. IsFiniteSet(S) /\ \A a \in S : at.val[a] \in Int /\ t.pow[a] \in Nat
        <5>1. S \in SUBSET Atom
          BY DEF Columns, Atom
        <5>2. QED
          BY <1>1, <5>1, AtomsFinite, ViewNumbers DEF Columns
      <4>2. QED
        BY <4>1, PowersType
    <3> HIDE DEF p, d, s, sd, ds, v
    <3>6. ds.coef = (t.coef * p) * t.pow[v] /\ sd.coef = (t.coef * t.pow[v]) * p
      BY <3>1, <3>2, <3>3, <3>4
    <3>7. \A i, k, l \in Int : (i * k) * l = (i * l) * k
      OBVIOUS
    <3>8. QED
      BY <3>4, <3>5, <3>6, <3>7
  <2>2. ASSUME NEW i \in DOMAIN used PROVE ds.pow[i] = sd.pow[i]
    <3>1. ds.pow[i] = IF j = i /\ s.pow[i] # 0 THEN s.pow[i] - 1 ELSE s.pow[i]
      BY <1>1, DerivedType
    <3>2. sd.pow[i] = IF used[i] \in at.fixed THEN 0 ELSE d.pow[used[i]]
      BY <1>2, SubstitutedPower
    <3>3. s.pow[i] = IF used[i] \in at.fixed THEN 0 ELSE t.pow[used[i]]
      BY SubstitutedPower
    <3>4. used[i] \in Atom /\ (v = used[i] <=> j = i)
      BY ColumnOfUsed DEF Atom
    <3>5. d.pow[used[i]] = IF v = used[i] /\ t.pow[used[i]] # 0 THEN t.pow[used[i]] - 1
                           ELSE t.pow[used[i]]
      BY <1>1, <3>4, DerivedType
    <3> HIDE DEF ds, sd, d, s, v
    <3>6. QED
      BY <1>5, <3>1, <3>2, <3>3, <3>4, <3>5 DEF v
  <2>3. ds = sd
    <3> HIDE DEF ds, sd
    <3>1. ds.pow = sd.pow
      BY <1>3, <2>2
    <3>2. QED
      BY <1>3, <2>1, <3>1
  <2>4. QED
    BY <1>5, <2>3
<1>6. QED
  BY <1>4, <1>5

LEMMA ColumnsFinite ==
    ASSUME NEW used, NEW at, Columns(used, at)
    PROVE  IsFiniteSet(DOMAIN used)
BY FS_Interval DEF Columns

LEMMA DerivedAt ==
    ASSUME NEW used, NEW at, Columns(used, at), NEW t, Covered(t, used, at),
           NEW j \in DOMAIN used, NEW x \in [DOMAIN used -> Num]
    PROVE  TermAt(DerivedTerm(Substituted(t, used, at), j), x)
           = IF used[j] \in at.fixed THEN 0
             ELSE TermAt(DerivedTerm(t, used[j]), Whole(used, x, at))
<1> DEFINE s == Substituted(t, used, at)
<1>1. s \in [coef : Int, pow : [DOMAIN used -> Nat]] /\ used[j] \in Atom
  BY SubstitutedType, ColumnOfUsed DEF Atom
<1>2. DerivedTerm(s, j) \in [coef : Int, pow : [DOMAIN used -> Nat]]
  BY <1>1, DerivedType
<1>3. \A i \in DOMAIN used : x[i] \in Int
  BY ViewNumbers
<1> HIDE DEF s
<1>4. CASE used[j] \in at.fixed
  <2>1. DerivedTerm(s, j).coef = 0
    BY <1>4, SubstitutedDerived DEF s
  <2>2. QED
    BY <1>2, <1>3, <1>4, <2>1, TermAtType, ColumnsFinite DEF s
<1>5. CASE used[j] \notin at.fixed
  <2>1. Covered(DerivedTerm(t, used[j]), used, at)
    BY <1>1, DerivedCovered
  <2>2. DerivedTerm(s, j) = Substituted(DerivedTerm(t, used[j]), used, at)
    BY <1>5, SubstitutedDerived DEF s
  <2>3. QED
    BY <1>5, <2>1, <2>2, SubstitutedAt DEF s
<1>6. QED
  BY <1>4, <1>5

LEMMA Derived2At ==
    ASSUME NEW used, NEW at, Columns(used, at), NEW t, Covered(t, used, at),
           NEW j \in DOMAIN used, NEW k \in DOMAIN used, NEW x \in [DOMAIN used -> Num]
    PROVE  TermAt(DerivedTerm(DerivedTerm(Substituted(t, used, at), j), k), x)
           = IF {used[j], used[k]} \cap at.fixed # {} THEN 0
             ELSE TermAt(DerivedTerm(DerivedTerm(t, used[j]), used[k]), Whole(used, x, at))
<1> DEFINE s == Substituted(t, used, at)
<1>1. s \in [coef : Int, pow : [DOMAIN used -> Nat]] /\ used[j] \in Atom
  BY SubstitutedType, ColumnOfUsed DEF Atom
<1>2. DerivedTerm(s, j) \in [coef : Int, pow : [DOMAIN used -> Nat]]
  BY <1>1, DerivedType
<1>3. DerivedTerm(DerivedTerm(s, j), k) \in [coef : Int, pow : [DOMAIN used -> Nat]]
      /\ (DerivedTerm(s, j).coef = 0 => DerivedTerm(DerivedTerm(s, j), k).coef = 0)
  BY <1>2, DerivedType
<1>4. \A i \in DOMAIN used : x[i] \in Int
  BY ViewNumbers
<1> HIDE DEF s
<1>5. CASE used[j] \in at.fixed
  <2>1. DerivedTerm(DerivedTerm(s, j), k).coef = 0
    BY <1>3, <1>5, SubstitutedDerived DEF s
  <2>2. QED
    BY <1>3, <1>4, <1>5, <2>1, TermAtType, ColumnsFinite DEF s
<1>6. CASE used[j] \notin at.fixed
  <2>1. Covered(DerivedTerm(t, used[j]), used, at)
    BY <1>1, DerivedCovered
  <2>2. DerivedTerm(s, j) = Substituted(DerivedTerm(t, used[j]), used, at)
    BY <1>6, SubstitutedDerived DEF s
  <2>3. {used[j], used[k]} \cap at.fixed # {} <=> used[k] \in at.fixed
    BY <1>6
  <2>4. QED
    BY <2>1, <2>2, <2>3, DerivedAt DEF s
<1>7. QED
  BY <1>5, <1>6

(* A product with a zero among its parameters and fixed variables is zero, *)
(* and so are its derivatives by what is not fixed.                        *)
LEMMA VanishingAt ==
    ASSUME NEW used, NEW at, Columns(used, at), NEW t \in Terms, Coefficient(t, at) = 0,
           NEW x \in [DOMAIN used -> Num]
    PROVE  TermAt(t, Whole(used, x, at)) = 0
<1> DEFINE y == Whole(used, x, at)
           S == Param \cup at.fixed
<1>1. IsFiniteSet(Atom) /\ S \in SUBSET Atom /\ IsFiniteSet(S) /\ IsFiniteSet(Atom \ S)
  <2>1. S \in SUBSET Atom
    BY DEF Columns, Atom
  <2>2. QED
    BY <2>1, AtomsFinite
<1>2. t.coef \in Int /\ t.pow \in [Atom -> Nat] /\ t \in [coef : Int, pow : [Atom -> Nat]]
  BY DEF Terms
<1>3. (\A a \in Atom : y[a] \in Int) /\ (\A a \in S : y[a] = at.val[a])
  BY WholePoint
<1>4. t.coef * Powers(at.val, t.pow, S) = 0
  BY DEF Coefficient
<1> HIDE DEF y, S
<1> DEFINE p == Powers(y, t.pow, S)
           r == Powers(y, t.pow, Atom \ S)
<1>5. p = Powers(at.val, t.pow, S)
  <2>1. \A a \in S : at.val[a] \in Int /\ t.pow[a] \in Nat
    BY <1>1, <1>2, <1>3
  <2>2. QED
    BY <1>1, <1>3, <2>1, PowersSame
<1>6. Powers(y, t.pow, Atom) = p * r
  BY <1>1, <1>2, <1>3, PowersSplit
<1>7. p \in Int /\ r \in Int
  BY <1>1, <1>2, <1>3, PowersType
<1>8. TermAt(t, y) = t.coef * Powers(y, t.pow, Atom)
  BY <1>1, <1>2, <1>3, TermAtType
<1> HIDE DEF p, r
<1>9. \A i, j, k \in Int : i * j = 0 => i * (j * k) = 0
  OBVIOUS
<1>10. QED
  BY <1>2, <1>4, <1>5, <1>6, <1>7, <1>8, <1>9 DEF y

LEMMA VanishingDerived ==
    ASSUME NEW used, NEW at, Columns(used, at), NEW t \in Terms, Coefficient(t, at) = 0,
           NEW v \in Var \ at.fixed
    PROVE  DerivedTerm(t, v) \in Terms /\ Coefficient(DerivedTerm(t, v), at) = 0
<1> DEFINE d == DerivedTerm(t, v)
           S == Param \cup at.fixed
           p == Powers(at.val, t.pow, S)
<1>1. v \in Atom /\ S \in SUBSET Atom /\ v \notin S
  BY ViewAtomsApart DEF Columns, Atom
<1>2. IsFiniteSet(S)
  BY <1>1, AtomsFinite
<1>3. t \in [coef : Int, pow : [Atom -> Nat]] /\ t.coef \in Int /\ t.pow[v] \in Int
  BY <1>1 DEF Terms
<1>4. d \in Terms /\ \A a \in Atom : a # v => d.pow[a] = t.pow[a]
  BY <1>1, <1>3, DerivedType DEF Terms
<1>5. \A a \in S : at.val[a] \in Int /\ t.pow[a] \in Nat /\ a # v /\ a \in Atom
  BY <1>1, <1>3, ViewNumbers DEF Columns
<1>6. d.coef = t.coef * t.pow[v]
  BY DEF DerivedTerm
<1> HIDE DEF d, S
<1>7. Powers(at.val, d.pow, S) = p
  BY <1>2, <1>4, <1>5, PowersSame
<1>8. p \in Int
  BY <1>2, <1>5, PowersType
<1>9. t.coef * p = 0 /\ Coefficient(d, at) = (t.coef * t.pow[v]) * p
  BY <1>6, <1>7 DEF Coefficient, S
<1> HIDE DEF p
<1>10. \A i, j, k \in Int : i * k = 0 => (i * j) * k = 0
  OBVIOUS
<1>11. QED
  BY <1>3, <1>4, <1>8, <1>9, <1>10 DEF d

(* The terms that are recorded are those of e with a coefficient; a sum    *)
(* over them is one over the terms of e, if those without a coefficient    *)
(* add nothing.                                                            *)
TermsKept(e, used, at) == InOrder({k \in DOMAIN e : Substituted(e[k], used, at).coef # 0})

LEMMA RecordedTerms ==
    ASSUME NEW used, NEW at, NEW e \in Seq(Terms)
    PROVE  LET r == Recorded(e, used, at)
               kept == TermsKept(e, used, at)
           IN  /\ DOMAIN r = DOMAIN kept /\ IsFiniteSet(DOMAIN r) /\ IsFiniteSet(DOMAIN e)
               /\ \A n \in DOMAIN r : /\ kept[n] \in DOMAIN e
                                      /\ r[n] = Substituted(e[kept[n]], used, at)
                                      /\ Coefficient(e[kept[n]], at) # 0
               /\ \A m, n \in DOMAIN r : kept[m] = kept[n] => m = n
               /\ \A k \in DOMAIN e : Substituted(e[k], used, at).coef # 0
                                      => \E n \in DOMAIN r : kept[n] = k
<1> DEFINE S == {k \in DOMAIN e : Substituted(e[k], used, at).coef # 0}
           r == Recorded(e, used, at)
           kept == TermsKept(e, used, at)
<1>1. DOMAIN e = 1..Len(e) /\ Len(e) \in Nat /\ IsFiniteSet(DOMAIN e)
  BY FS_Interval
<1>2. IsFiniteSet(S) /\ S \in SUBSET Nat
  BY <1>1, FS_Subset
<1>3. kept = InOrder(S)
  BY DEF TermsKept
<1> DEFINE terms == [k \in DOMAIN e |-> Substituted(e[k], used, at)]
           T == {k \in DOMAIN e : terms[k].coef # 0}
<1>4. T = S
  OBVIOUS
<1>5. r = [n \in DOMAIN kept |-> terms[kept[n]]]
  <2>1. r = [n \in DOMAIN InOrder(T) |-> terms[InOrder(T)[n]]]
    BY DEF Recorded
  <2> HIDE DEF T, S, terms
  <2>2. QED
    BY <1>3, <1>4, <2>1
<1>6. /\ DOMAIN kept = 1..Cardinality(S) /\ Cardinality(S) \in Nat
      /\ kept \in Seq(S) /\ ToSet(kept) = S
      /\ \A m, n \in DOMAIN kept : kept[m] = kept[n] => m = n
  BY <1>2, <1>3, InOrderMembers
<1> HIDE DEF S, kept, r
<1>7. \A n \in DOMAIN kept : kept[n] \in DOMAIN e
  BY <1>6 DEF S
<1>8. \A k \in S : \E n \in DOMAIN kept : kept[n] = k
  BY <1>6 DEF ToSet
<1>9. IsFiniteSet(DOMAIN kept)
  BY <1>6, FS_Interval
<1>10. DOMAIN r = DOMAIN kept /\ \A n \in DOMAIN r : r[n] = Substituted(e[kept[n]], used, at)
  BY <1>5, <1>7
<1>11. \A k \in DOMAIN e : Substituted(e[k], used, at).coef # 0
                           => \E n \in DOMAIN r : kept[n] = k
  BY <1>8, <1>10 DEF S
<1>12. \A n \in DOMAIN kept : Coefficient(e[kept[n]], at) # 0
  <2>1. \A k \in S : Coefficient(e[k], at) # 0
    BY DEF S, Substituted
  <2>2. QED
    BY <1>6, <2>1
<1>13. QED
  BY <1>1, <1>6, <1>7, <1>9, <1>10, <1>11, <1>12 DEF r, kept

LEMMA RecordedSum ==
    ASSUME NEW used, NEW at, NEW e \in Seq(Terms), NEW G, NEW g,
           \A k \in DOMAIN e : /\ G[k] \in Int
                               /\ Substituted(e[k], used, at).coef = 0 => G[k] = 0,
           \A n \in DOMAIN Recorded(e, used, at) : g[n] = G[TermsKept(e, used, at)[n]]
    PROVE  SumOver(g, DOMAIN Recorded(e, used, at)) = SumOver(G, DOMAIN e)
<1> DEFINE r == Recorded(e, used, at)
           kept == TermsKept(e, used, at)
           S == {k \in DOMAIN e : Substituted(e[k], used, at).coef # 0}
<1>1. /\ DOMAIN r = DOMAIN kept /\ IsFiniteSet(DOMAIN r) /\ IsFiniteSet(DOMAIN e)
      /\ \A n \in DOMAIN r : /\ kept[n] \in DOMAIN e
                             /\ r[n] = Substituted(e[kept[n]], used, at)
      /\ \A m, n \in DOMAIN r : kept[m] = kept[n] => m = n
      /\ \A k \in S : \E n \in DOMAIN r : kept[n] = k
  BY RecordedTerms
<1>2. \A n \in DOMAIN kept : kept[n] \in S
  <2>1. IsFiniteSet(S) /\ S \in SUBSET Nat
    BY <1>1, FS_Subset
  <2>2. InOrder(S) \in Seq(S)
    BY <2>1, InOrderMembers
  <2>3. QED
    BY <2>2 DEF TermsKept
<1>3. Numbers(G, DOMAIN e) /\ Numbers(G, S) /\ S \in SUBSET DOMAIN e
  BY <1>1, FS_Subset DEF Numbers
<1>4. \A k \in DOMAIN e \ S : G[k] = Neutral("+")
  BY DEF Neutral
<1>5. FoldOver("+", G, DOMAIN e) = FoldOver("+", G, S)
  BY <1>3, <1>4, FoldOfSubset
<1>6. \A n \in DOMAIN r : kept[n] \in S /\ g[n] = G[kept[n]]
  BY <1>1, <1>2
<1> HIDE DEF r, kept, S
<1>7. FoldOver("+", g, DOMAIN r) = FoldOver("+", G, S)
  <2>1. IsFiniteSet(DOMAIN r) /\ \A m, n \in DOMAIN r : kept[m] = kept[n] => m = n
    BY <1>1
  <2>2. \A k \in S : \E n \in DOMAIN r : kept[n] = k
    BY <1>1
  <2>3. QED
    BY <1>3, <1>6, <2>1, <2>2, FoldRenamed
<1>8. QED
  BY <1>5, <1>7 DEF r, SumOver

(* A recorded function, and its derivatives, at a point of the columns are *)
(* those of the expression, at the point of all the atoms: what is zero    *)
(* needs no columns.                                                       *)
CoveredAll(e, used, at) ==
    /\ e \in Seq(Terms)
    /\ \A k \in DOMAIN e : Coefficient(e[k], at) # 0 => Covered(e[k], used, at)

LEMMA RecordedAt ==
    ASSUME NEW used, NEW at, Columns(used, at), NEW e, CoveredAll(e, used, at),
           NEW x \in [DOMAIN used -> Num]
    PROVE  /\ At(Recorded(e, used, at), x) = At(e, Whole(used, x, at))
           /\ At(e, Whole(used, x, at)) \in Int
<1> DEFINE r == Recorded(e, used, at)
           y == Whole(used, x, at)
           G == [k \in DOMAIN e |-> IF Coefficient(e[k], at) = 0 THEN 0
                                   ELSE TermAt(Substituted(e[k], used, at), x)]
           H == [k \in DOMAIN e |-> TermAt(e[k], y)]
           g == [n \in DOMAIN r |-> TermAt(r[n], x)]
<1>1. /\ e \in Seq(Terms) /\ \A k \in DOMAIN e : e[k] \in Terms
      /\ \A k \in DOMAIN e : Coefficient(e[k], at) # 0 => Covered(e[k], used, at)
  BY DEF CoveredAll
<1>2. \A k \in DOMAIN e : /\ G[k] \in Int
                          /\ Substituted(e[k], used, at).coef = 0 => G[k] = 0
  <2>1. \A k \in DOMAIN e : Substituted(e[k], used, at).coef = Coefficient(e[k], at)
    BY DEF Substituted
  <2>2. QED
    BY <1>1, <2>1, SubstitutedType, TermAtType, ColumnsFinite, ViewNumbers
<1>3. \A n \in DOMAIN r : g[n] = G[TermsKept(e, used, at)[n]]
  BY <1>1, RecordedTerms
<1>4. G = H
  BY <1>1, SubstitutedAt, VanishingAt
<1>5. SumOver(g, DOMAIN r) = SumOver(G, DOMAIN e)
  <2> HIDE DEF g, G, r
  <2>1. QED
    BY <1>1, <1>2, <1>3, RecordedSum DEF r
<1>6. SumOver(G, DOMAIN e) \in Int
  <2> HIDE DEF G
  <2>1. QED
    BY <1>1, <1>2, RecordedTerms, FoldType DEF Numbers, SumOver
<1>7. QED
  BY <1>4, <1>5, <1>6 DEF At

LEMMA RecordedPartial ==
    ASSUME NEW used, NEW at, Columns(used, at), NEW e, CoveredAll(e, used, at),
           NEW x \in [DOMAIN used -> Num], NEW j \in DOMAIN used
    PROVE  /\ At(Derivative(Recorded(e, used, at), j), x)
              = Partial(e, used, j, at, Whole(used, x, at))
           /\ Partial(e, used, j, at, Whole(used, x, at)) \in Int
<1> DEFINE r == Recorded(e, used, at)
           y == Whole(used, x, at)
           s(k) == Substituted(e[k], used, at)
           G == [k \in DOMAIN e |-> IF Coefficient(e[k], at) = 0 THEN 0
                                   ELSE TermAt(DerivedTerm(s(k), j), x)]
           H == [k \in DOMAIN e |-> TermAt(DerivedTerm(e[k], used[j]), y)]
           g == [n \in DOMAIN r |-> TermAt(DerivedTerm(r[n], j), x)]
<1>1. /\ e \in Seq(Terms) /\ \A k \in DOMAIN e : e[k] \in Terms
      /\ \A k \in DOMAIN e : Coefficient(e[k], at) # 0 => Covered(e[k], used, at)
      /\ \A k \in DOMAIN e : s(k).coef = Coefficient(e[k], at)
  BY DEF CoveredAll, Substituted
<1>2. \A k \in DOMAIN e : G[k] \in Int /\ (s(k).coef = 0 => G[k] = 0)
  <2> SUFFICES ASSUME NEW k \in DOMAIN e, Coefficient(e[k], at) # 0
               PROVE  TermAt(DerivedTerm(s(k), j), x) \in Int
    BY <1>1
  <2>1. s(k) \in [coef : Int, pow : [DOMAIN used -> Nat]]
    BY <1>1, SubstitutedType
  <2> HIDE DEF s
  <2>2. DerivedTerm(s(k), j) \in [coef : Int, pow : [DOMAIN used -> Nat]]
    BY <2>1, DerivedType
  <2>3. QED
    BY <2>2, TermAtType, ColumnsFinite, ViewNumbers
<1>3. \A n \in DOMAIN r : g[n] = G[TermsKept(e, used, at)[n]]
  BY <1>1, RecordedTerms
<1>4. At(Derivative(r, j), x) = SumOver(g, DOMAIN r)
  <2>1. [n \in DOMAIN Derivative(r, j) |-> TermAt(Derivative(r, j)[n], x)] = g
    BY DerivativeTerms
  <2>2. QED
    BY <2>1, DerivativeTerms DEF At
<1>5. At(Derivative(e, used[j]), y) = SumOver(H, DOMAIN e)
  <2>1. [k \in DOMAIN Derivative(e, used[j]) |-> TermAt(Derivative(e, used[j])[k], y)] = H
    BY DerivativeTerms
  <2>2. QED
    BY <2>1, DerivativeTerms DEF At
<1>6. \A k \in DOMAIN e : G[k] = IF used[j] \in at.fixed THEN 0 ELSE H[k]
  <2>1. \A k \in DOMAIN e : Coefficient(e[k], at) = 0 /\ used[j] \notin at.fixed => H[k] = 0
    <3> SUFFICES ASSUME NEW k \in DOMAIN e, Coefficient(e[k], at) = 0, used[j] \notin at.fixed
                 PROVE  TermAt(DerivedTerm(e[k], used[j]), y) = 0
      OBVIOUS
    <3>1. used[j] \in Var \ at.fixed
      BY ColumnOfUsed
    <3>2. /\ DerivedTerm(e[k], used[j]) \in Terms
          /\ Coefficient(DerivedTerm(e[k], used[j]), at) = 0
      BY <1>1, <3>1, VanishingDerived
    <3>3. QED
      BY <3>2, VanishingAt
  <2>2. \A k \in DOMAIN e : Coefficient(e[k], at) # 0
            => TermAt(DerivedTerm(s(k), j), x) = IF used[j] \in at.fixed THEN 0 ELSE H[k]
    BY <1>1, DerivedAt
  <2> HIDE DEF H, s
  <2>3. QED
    BY <2>1, <2>2
<1>7. SumOver(g, DOMAIN r) = SumOver(G, DOMAIN e) /\ SumOver(G, DOMAIN e) \in Int
  <2> HIDE DEF g, G, r
  <2>1. SumOver(g, DOMAIN r) = SumOver(G, DOMAIN e)
    BY <1>1, <1>2, <1>3, RecordedSum DEF r, s
  <2>2. QED
    BY <1>1, <1>2, <2>1, RecordedTerms, FoldType DEF Numbers, SumOver
<1>8. CASE used[j] \in at.fixed
  <2>1. \A k \in DOMAIN e : G[k] = Neutral("+")
    BY <1>6, <1>8 DEF Neutral
  <2>2. IsFiniteSet(DOMAIN e)
    BY <1>1, RecordedTerms
  <2> HIDE DEF G, s
  <2>3. SumOver(G, DOMAIN e) = 0
    BY <2>1, <2>2, FoldOfNone DEF SumOver, Neutral
  <2>4. QED
    BY <1>4, <1>7, <1>8, <2>3 DEF Partial
<1>9. CASE used[j] \notin at.fixed
  <2>1. G = H
    BY <1>6, <1>9
  <2>2. QED
    BY <1>4, <1>5, <1>7, <1>9, <2>1 DEF Partial
<1>10. QED
  BY <1>8, <1>9

LEMMA RecordedPartial2 ==
    ASSUME NEW used, NEW at, Columns(used, at), NEW e, CoveredAll(e, used, at),
           NEW x \in [DOMAIN used -> Num], NEW j \in DOMAIN used, NEW l \in DOMAIN used
    PROVE  /\ At(Derivative(Derivative(Recorded(e, used, at), j), l), x)
              = Partial2(e, used, j, l, at, Whole(used, x, at))
           /\ Partial2(e, used, j, l, at, Whole(used, x, at)) \in Int
<1> DEFINE r == Recorded(e, used, at)
           y == Whole(used, x, at)
           s(k) == Substituted(e[k], used, at)
           second(t, a, b) == DerivedTerm(DerivedTerm(t, a), b)
           G == [k \in DOMAIN e |-> IF Coefficient(e[k], at) = 0 THEN 0
                                   ELSE TermAt(second(s(k), j, l), x)]
           H == [k \in DOMAIN e |-> TermAt(second(e[k], used[j], used[l]), y)]
           g == [n \in DOMAIN r |-> TermAt(second(r[n], j, l), x)]
           isFixed == {used[j], used[l]} \cap at.fixed # {}
<1>1. /\ e \in Seq(Terms) /\ \A k \in DOMAIN e : e[k] \in Terms
      /\ \A k \in DOMAIN e : Coefficient(e[k], at) # 0 => Covered(e[k], used, at)
      /\ \A k \in DOMAIN e : s(k).coef = Coefficient(e[k], at)
  BY DEF CoveredAll, Substituted
<1>2. \A k \in DOMAIN e : G[k] \in Int /\ (s(k).coef = 0 => G[k] = 0)
  <2> SUFFICES ASSUME NEW k \in DOMAIN e, Coefficient(e[k], at) # 0
               PROVE  TermAt(second(s(k), j, l), x) \in Int
    BY <1>1
  <2>1. s(k) \in [coef : Int, pow : [DOMAIN used -> Nat]]
    BY <1>1, SubstitutedType
  <2> HIDE DEF s
  <2>2. DerivedTerm(s(k), j) \in [coef : Int, pow : [DOMAIN used -> Nat]]
    BY <2>1, DerivedType
  <2>3. second(s(k), j, l) \in [coef : Int, pow : [DOMAIN used -> Nat]]
    BY <2>2, DerivedType
  <2> HIDE DEF second
  <2>4. QED
    BY <2>3, TermAtType, ColumnsFinite, ViewNumbers
<1>3. \A n \in DOMAIN r : g[n] = G[TermsKept(e, used, at)[n]]
  BY <1>1, RecordedTerms
<1>4. At(Derivative(Derivative(r, j), l), x) = SumOver(g, DOMAIN r)
  <2> DEFINE dd == Derivative(Derivative(r, j), l)
  <2>1. DOMAIN dd = DOMAIN r /\ \A n \in DOMAIN r : dd[n] = second(r[n], j, l)
    BY DerivativeTerms
  <2> HIDE DEF dd, second
  <2>2. [n \in DOMAIN dd |-> TermAt(dd[n], x)] = g
    BY <2>1
  <2>3. QED
    BY <2>1, <2>2 DEF At, dd
<1>5. At(Derivative(Derivative(e, used[j]), used[l]), y) = SumOver(H, DOMAIN e)
  <2> DEFINE dd == Derivative(Derivative(e, used[j]), used[l])
  <2>1. DOMAIN dd = DOMAIN e /\ \A n \in DOMAIN e : dd[n] = second(e[n], used[j], used[l])
    BY DerivativeTerms
  <2> HIDE DEF dd, second
  <2>2. [n \in DOMAIN dd |-> TermAt(dd[n], y)] = H
    BY <2>1
  <2>3. QED
    BY <2>1, <2>2 DEF At, dd
<1>6. \A k \in DOMAIN e : G[k] = IF isFixed THEN 0 ELSE H[k]
  <2>1. \A k \in DOMAIN e : Coefficient(e[k], at) = 0 /\ ~isFixed => H[k] = 0
    <3> SUFFICES ASSUME NEW k \in DOMAIN e, Coefficient(e[k], at) = 0, ~isFixed
                 PROVE  TermAt(second(e[k], used[j], used[l]), y) = 0
      OBVIOUS
    <3>1. used[j] \in Var \ at.fixed /\ used[l] \in Var \ at.fixed
      BY ColumnOfUsed
    <3> DEFINE d == DerivedTerm(e[k], used[j])
    <3>2. d \in Terms /\ Coefficient(d, at) = 0
      BY <1>1, <3>1, VanishingDerived
    <3> HIDE DEF d
    <3>3. DerivedTerm(d, used[l]) \in Terms /\ Coefficient(DerivedTerm(d, used[l]), at) = 0
      BY <3>1, <3>2, VanishingDerived
    <3>4. QED
      BY <3>3, VanishingAt DEF d
  <2>2. \A k \in DOMAIN e : Coefficient(e[k], at) # 0
            => TermAt(second(s(k), j, l), x) = IF isFixed THEN 0 ELSE H[k]
    BY <1>1, Derived2At
  <2> HIDE DEF H, s, second, isFixed
  <2>3. QED
    BY <2>1, <2>2
<1>7. SumOver(g, DOMAIN r) = SumOver(G, DOMAIN e) /\ SumOver(G, DOMAIN e) \in Int
  <2> HIDE DEF g, G, r
  <2>1. SumOver(g, DOMAIN r) = SumOver(G, DOMAIN e)
    BY <1>1, <1>2, <1>3, RecordedSum DEF r, s
  <2>2. QED
    BY <1>1, <1>2, <2>1, RecordedTerms, FoldType DEF Numbers, SumOver
<1>8. CASE isFixed
  <2>1. \A k \in DOMAIN e : G[k] = Neutral("+")
    BY <1>6, <1>8 DEF Neutral
  <2> HIDE DEF G
  <2>2. SumOver(G, DOMAIN e) = 0
    BY <1>1, <2>1, RecordedTerms, FoldOfNone DEF SumOver, Neutral
  <2>3. QED
    BY <1>4, <1>7, <1>8, <2>2 DEF Partial2
<1>9. CASE ~isFixed
  <2>1. G = H
    BY <1>6, <1>9
  <2>2. QED
    BY <1>4, <1>5, <1>7, <1>9, <2>1 DEF Partial2
<1>10. QED
  BY <1>8, <1>9

(* A function of the columns, and where its derivatives have no entries.   *)
LEMMA RecordedType ==
    ASSUME NEW used, NEW at, Columns(used, at), NEW e, CoveredAll(e, used, at)
    PROVE  /\ IsFiniteSet(DOMAIN Recorded(e, used, at))
           /\ \A n \in DOMAIN Recorded(e, used, at) :
                 Recorded(e, used, at)[n] \in [coef : Int, pow : [DOMAIN used -> Nat]]
<1>1. e \in Seq(Terms)
  BY DEF CoveredAll
<1>2. \A n \in DOMAIN Recorded(e, used, at) :
        /\ Recorded(e, used, at)[n] = Substituted(e[TermsKept(e, used, at)[n]], used, at)
        /\ Covered(e[TermsKept(e, used, at)[n]], used, at)
  BY <1>1, RecordedTerms DEF CoveredAll
<1>3. QED
  BY <1>1, <1>2, RecordedTerms, SubstitutedType

LEMMA NoEntry ==
    ASSUME NEW S, IsFiniteSet(S), NEW r, IsFiniteSet(DOMAIN r),
           \A n \in DOMAIN r : r[n] \in [coef : Int, pow : [S -> Nat]],
           NEW x, \A i \in S : x[i] \in Int, NEW j \in S,
           \A n \in DOMAIN r : ~(r[n].pow[j] > 0)
    PROVE  At(Derivative(r, j), x) = 0
<1> DEFINE f == [n \in DOMAIN r |-> TermAt(DerivedTerm(r[n], j), x)]
<1>1. ASSUME NEW n \in DOMAIN r PROVE TermAt(DerivedTerm(r[n], j), x) = 0
  <2>1. r[n].pow[j] = 0
    OBVIOUS
  <2>2. DerivedTerm(r[n], j) \in [coef : Int, pow : [S -> Nat]] /\ DerivedTerm(r[n], j).coef = 0
    BY <2>1, DerivedType
  <2>3. QED
    BY <2>2, TermAtType
<1>2. [n \in DOMAIN Derivative(r, j) |-> TermAt(Derivative(r, j)[n], x)] = f
  BY DerivativeTerms
<1>3. \A n \in DOMAIN r : f[n] = Neutral("+")
  BY <1>1 DEF Neutral
<1> HIDE DEF f
<1>4. SumOver(f, DOMAIN r) = 0
  BY <1>3, FoldOfNone DEF SumOver, Neutral
<1>5. QED
  BY <1>2, <1>4, DerivativeTerms DEF At

LEMMA NoEntry2 ==
    ASSUME NEW S, IsFiniteSet(S), NEW r, IsFiniteSet(DOMAIN r),
           \A n \in DOMAIN r : r[n] \in [coef : Int, pow : [S -> Nat]],
           NEW x, \A i \in S : x[i] \in Int, NEW j \in S, NEW l \in S,
           \A n \in DOMAIN r : ~Interact(r[n], j, l)
    PROVE  At(Derivative(Derivative(r, j), l), x) = 0
<1> DEFINE second(t) == DerivedTerm(DerivedTerm(t, j), l)
           f == [n \in DOMAIN r |-> TermAt(second(r[n]), x)]
           dd == Derivative(Derivative(r, j), l)
<1>1. ASSUME NEW n \in DOMAIN r PROVE TermAt(second(r[n]), x) = 0
  <2> DEFINE d == DerivedTerm(r[n], j)
  <2>1. /\ d \in [coef : Int, pow : [S -> Nat]]
        /\ d.pow[l] = IF j = l /\ r[n].pow[l] # 0 THEN r[n].pow[l] - 1 ELSE r[n].pow[l]
        /\ r[n].pow[j] = 0 => d.coef = 0
    BY DerivedType
  <2>2. r[n].pow[j] \in Nat /\ r[n].pow[l] \in Nat
    OBVIOUS
  <2>3. d.coef = 0 \/ d.pow[l] = 0
    BY <2>1, <2>2 DEF Interact
  <2> HIDE DEF d
  <2>4. DerivedTerm(d, l) \in [coef : Int, pow : [S -> Nat]] /\ DerivedTerm(d, l).coef = 0
    BY <2>1, <2>3, DerivedType
  <2>5. QED
    BY <2>4, TermAtType DEF d
<1>2. DOMAIN dd = DOMAIN r /\ \A n \in DOMAIN r : dd[n] = second(r[n])
  BY DerivativeTerms
<1> HIDE DEF dd, second
<1>3. [n \in DOMAIN dd |-> TermAt(dd[n], x)] = f
  BY <1>2
<1>4. \A n \in DOMAIN r : f[n] = Neutral("+")
  BY <1>1 DEF Neutral
<1> HIDE DEF f
<1>5. SumOver(f, DOMAIN r) = 0
  BY <1>4, FoldOfNone DEF SumOver, Neutral
<1>6. QED
  BY <1>2, <1>3, <1>5 DEF At, dd

-----------------------------------------------------------------------------
(* The model's values have their types.                                    *)
ModelOK ==
    /\ val \in [Atom -> Num] /\ fixed \in SUBSET Var
    /\ bounds \in [Var -> Bounds] /\ maximize \in BOOLEAN

(***************************************************************************)
(* A view is well formed, and what it has cached belongs to its point.     *)
(***************************************************************************)
ViewFields == {"kind", "sparse", "used", "tape", "jac", "hes", "currx", "fvalid", "cvalid",
               "cache", "fpoint", "cpoint", "at", "since"}

(* A CppAD view has a column for whatever was not fixed; an ASL view, which *)
(* is never older than its columns, for what is in a product that is left. *)
ColumnsSuffice(n) ==
    /\ n.kind = "asl" => n.since = n.at.fixed
    /\ \A i \in DOMAIN Fns : \A k \in DOMAIN Fns[i] : \A v \in Var \ n.since :
          /\ Fns[i][k].pow[v] > 0
          /\ n.kind = "asl" => Coefficient(Fns[i][k], n.at) # 0
          => v \in ToSet(n.used)

WellFormed(n) ==
    /\ DOMAIN n = ViewFields
    /\ n.kind \in {"cppad", "asl"}
    /\ n.sparse \in BOOLEAN /\ n.fvalid \in BOOLEAN /\ n.cvalid \in BOOLEAN
    /\ n.used \in Seq(Var)
    /\ \A i, j \in DOMAIN n.used : n.used[i] = n.used[j] => i = j
    /\ ToSet(n.used) \cap n.since = {} /\ ColumnsSuffice(n)
    /\ n.currx \in [DOMAIN n.used -> Num]
    /\ n.at.val \in [Atom -> Num] /\ n.at.fixed \in SUBSET Var
    /\ IsFiniteSet(n.jac) /\ IsFiniteSet(n.hes)
    /\ DOMAIN n.cache = DOMAIN Fns
    /\ n.tape = Tape(n.used, n.at)

Coherent(n) ==
    /\ n.fvalid => /\ n.fpoint = n.currx
                   /\ \A i \in 1..nf : n.cache[i] = At(n.tape[i], n.currx)
    /\ n.cvalid => /\ n.cpoint = n.currx
                   /\ \A i \in nf + 1 .. nf + nc : n.cache[i] = At(n.tape[i], n.currx)
    /\ n.kind = "cppad" => n.fvalid = n.cvalid

Shape(n) == <<n.kind, n.sparse, n.used, n.tape, n.jac, n.hes, n.at, n.since>>

LEMMA FnsDomain ==
    /\ nf \in Nat /\ nc \in Nat
    /\ DOMAIN Fns = 1..nf + nc
BY FnsType DEF Fns, nf, nc

(* Lists of variables, each of them once.                                  *)
Lists(S, s) ==
    /\ s \in Seq(Var) /\ ToSet(s) = S
    /\ \A i, j \in DOMAIN s : s[i] = s[j] => i = j

LEMMA ListsJoin ==
    ASSUME NEW S, NEW T, S \cap T = {}, NEW s, NEW t, Lists(S, s), Lists(T, t)
    PROVE  Lists(S \cup T, s \o t)
<1>1. /\ s \o t \in Seq(Var) /\ Len(s) \in Nat /\ Len(t) \in Nat
      /\ DOMAIN s = 1..Len(s) /\ DOMAIN t = 1..Len(t)
      /\ DOMAIN (s \o t) = 1..Len(s) + Len(t)
      /\ \A i \in DOMAIN s : i \in DOMAIN (s \o t) /\ (s \o t)[i] = s[i]
      /\ \A j \in DOMAIN t : /\ Len(s) + j \in DOMAIN (s \o t)
                             /\ (s \o t)[Len(s) + j] = t[j]
  BY DEF Lists
<1> DEFINE u == s \o t
<1>2. \A i \in DOMAIN u : \/ i \in DOMAIN s /\ u[i] = s[i]
                          \/ \E j \in DOMAIN t : i = Len(s) + j /\ u[i] = t[j]
  <2> TAKE i \in DOMAIN u
  <2>1. CASE i <= Len(s)
    BY <1>1, <2>1
  <2>2. CASE i > Len(s)
    <3>1. i - Len(s) \in DOMAIN t /\ i = Len(s) + (i - Len(s))
      BY <1>1, <2>2
    <3>2. QED
      BY <1>1, <3>1
  <2>3. QED
    BY <1>1, <2>1, <2>2
<1>3. (\A i \in DOMAIN s : s[i] \in S) /\ (\A j \in DOMAIN t : t[j] \in T)
  BY DEF Lists, ToSet
<1> HIDE DEF u
<1>4. ASSUME NEW i \in DOMAIN u, NEW j \in DOMAIN u, u[i] = u[j]
      PROVE  i = j
  <2>1. CASE i \in DOMAIN s /\ u[i] = s[i]
    BY <1>2, <1>3, <1>4, <2>1 DEF Lists
  <2>2. CASE \E k \in DOMAIN t : i = Len(s) + k /\ u[i] = t[k]
    BY <1>2, <1>3, <1>4, <2>2 DEF Lists
  <2>3. QED
    BY <1>2, <2>1, <2>2
<1>5. ToSet(u) = S \cup T
  <2>1. \A i \in DOMAIN u : u[i] \in S \cup T
    BY <1>2, <1>3
  <2>2. \A v \in S : \E i \in DOMAIN u : u[i] = v
    BY <1>1 DEF Lists, ToSet, u
  <2>3. \A v \in T : \E i \in DOMAIN u : u[i] = v
    <3>1. \A v \in T : \E j \in DOMAIN t : t[j] = v
      BY DEF Lists, ToSet
    <3>2. \A j \in DOMAIN t : Len(s) + j \in DOMAIN u /\ u[Len(s) + j] = t[j]
      BY <1>1 DEF u
    <3>3. QED
      BY <3>1, <3>2
  <2>4. QED
    BY <2>1, <2>2, <2>3 DEF ToSet
<1>6. QED
  BY <1>1, <1>4, <1>5 DEF Lists, u

LEMMA IndexLists ==
    ASSUME NEW S \in SUBSET Var
    PROVE  Lists(S, InIndexOrder(S))
BY IndexOrder DEF Lists

LEMMA UsedColumns == Lists({v \in Var \ fixed : Occurs(v)}, UsedVariables)
<1>1. {v \in Var \ fixed : Occurs(v)} \in SUBSET Var
  OBVIOUS
<1>2. QED
  BY <1>1, IndexLists DEF UsedVariables

(* The columns of a file, and its first point, which has values of the     *)
(* same variables.                                                         *)
LEMMA FileColumns ==
    ASSUME fixed \in SUBSET Var
    PROVE  Lists({v \in Var \ fixed : Written(v, DOMAIN Fns, 1)}, AslColumns)
<1> DEFINE kept == {v \in Var \ fixed : Written(v, DOMAIN Fns, 1)}
           obj == {v \in kept : Written(v, 1..nf, 2)}
           con == {v \in kept : Written(v, nf + 1 .. nf + nc, 2)}
           A == InIndexOrder(obj \cap con)
           B == InIndexOrder(con \ obj)
           C == InIndexOrder(obj \ con)
           D == InIndexOrder(kept \ (obj \cup con))
<1>1. kept \in SUBSET Var /\ obj \in SUBSET kept /\ con \in SUBSET kept
  OBVIOUS
<1>2. AslColumns = A \o B \o C \o D
  BY DEF AslColumns
<1> HIDE DEF kept, obj, con
<1>3. /\ Lists(obj \cap con, A) /\ Lists(con \ obj, B) /\ Lists(obj \ con, C)
      /\ Lists(kept \ (obj \cup con), D)
  BY <1>1, IndexLists
<1> HIDE DEF A, B, C, D
<1>4. Lists((obj \cap con) \cup (con \ obj), A \o B)
  BY <1>3, ListsJoin
<1>5. Lists((obj \cap con) \cup (con \ obj) \cup (obj \ con), A \o B \o C)
  BY <1>3, <1>4, ListsJoin
<1>6. Lists((obj \cap con) \cup (con \ obj) \cup (obj \ con) \cup (kept \ (obj \cup con)),
            A \o B \o C \o D)
  BY <1>3, <1>5, ListsJoin
<1>7. (obj \cap con) \cup (con \ obj) \cup (obj \ con) \cup (kept \ (obj \cup con)) = kept
  BY <1>1
<1>8. QED
  BY <1>2, <1>6, <1>7 DEF kept

LEMMA SameLength ==
    ASSUME NEW S, NEW s, NEW t, Lists(S, s), Lists(S, t)
    PROVE  DOMAIN s = DOMAIN t
<1>1. ASSUME NEW u, Lists(S, u) PROVE Len(u) = Cardinality(S) /\ DOMAIN u = 1..Len(u)
  <2>1. u \in Bijection(1..Len(u), S) /\ DOMAIN u = 1..Len(u) /\ Len(u) \in Nat
    <3>1. /\ DOMAIN u = 1..Len(u) /\ Len(u) \in Nat
          /\ \A i \in 1..Len(u) : u[i] \in S
          /\ \A v \in S : \E i \in 1..Len(u) : u[i] = v
          /\ u = [i \in 1..Len(u) |-> u[i]]
      BY <1>1 DEF Lists, ToSet
    <3>2. u \in [1..Len(u) -> S]
      BY <3>1
    <3>3. \A i, j \in 1..Len(u) : u[i] = u[j] => i = j
      BY <1>1, <3>1 DEF Lists
    <3>4. u \in Injection(1..Len(u), S) /\ u \in Surjection(1..Len(u), S)
      BY <3>1, <3>2, <3>3 DEF Injection, IsInjective, Surjection
    <3>5. QED
      BY <3>1, <3>4 DEF Bijection
  <2>2. ExistsBijection(1..Len(u), S)
    BY <2>1 DEF ExistsBijection
  <2>3. QED
    BY <2>1, <2>2, FS_CountingElements
<1>2. QED
  BY <1>1

LEMMA EntriesFinite ==
    ASSUME NEW n \in Nat, NEW m \in Nat
    PROVE  /\ IsFiniteSet(AllEntries(n, m))
           /\ \A S \in SUBSET AllEntries(n, m) : IsFiniteSet(S)
<1>1. IsFiniteSet(1..n) /\ IsFiniteSet(1..m)
  BY FS_Interval
<1>2. IsFiniteSet(AllEntries(n, m))
  BY <1>1, FS_Product DEF AllEntries
<1>3. QED
  BY <1>2, FS_Subset

LEMMA PresentPoint ==
    ASSUME ModelOK, NEW used \in Seq(Var)
    PROVE  CurrentPoint(used) \in [DOMAIN used -> Num]
BY DEF ModelOK, CurrentPoint, Atom

LEMMA FnsTerms ==
    /\ Fns \in Seq(Seq(Terms))
    /\ nf > 0 => 1 \in DOMAIN Fns
    /\ \A i \in 1..nc : nf + i \in DOMAIN Fns /\ Fns[nf + i] = Constraints[i]
<1> DEFINE terms == [coef : Int \ {0}, pow : [Atom -> Nat]]
<1>1. Objectives \in Seq(Seq(terms)) /\ Constraints \in Seq(Seq(terms))
  BY FnsType
<1>2. terms \in SUBSET Terms
  BY DEF Terms
<1> HIDE DEF terms
<1>3. Seq(terms) \in SUBSET Seq(Terms)
  BY <1>2
<1>4. Objectives \in Seq(Seq(Terms)) /\ Constraints \in Seq(Seq(Terms))
  BY <1>1, <1>3
<1>5. QED
  BY <1>4 DEF Fns, nf, nc

(* What occurs in a product has a share in its degree.                     *)
LEMMA DegreeOfOne ==
    ASSUME NEW pow \in [Atom -> Nat], NEW S \in SUBSET Var, NEW v \in S, pow[v] > 0
    PROVE  SumOver(pow, S) >= 1
<1> DEFINE sum(T) == FoldOver("+", pow, T)
           I == {T \in SUBSET S : sum(T) \in Nat}
<1>1. IsFiniteSet(S) /\ Numbers(pow, S) /\ \A a \in S : pow[a] \in Nat
  BY AtomsFinite, FS_Subset DEF Numbers, Atom
<1>2. \A T \in SUBSET S : \A a \in T : sum(T) = pow[a] + sum(T \ {a})
  <2> SUFFICES ASSUME NEW T \in SUBSET S, NEW a \in T PROVE sum(T) = pow[a] + sum(T \ {a})
    OBVIOUS
  <2>1. Numbers(pow, T)
    BY <1>1, FS_Subset DEF Numbers
  <2>2. QED
    BY <2>1, FoldStep DEF Combine
<1>3. {} \in I
  BY FoldEmpty DEF Neutral
<1>4. ASSUME NEW T \in SUBSET S, T # {}, \A x \in T : T \ {x} \in I PROVE T \in I
  <2>1. PICK a \in T : TRUE
    BY <1>4
  <2>2. sum(T \ {a}) \in Nat /\ pow[a] \in Nat /\ sum(T) = pow[a] + sum(T \ {a})
    BY <1>1, <1>2, <1>4
  <2> HIDE DEF sum
  <2>3. QED
    BY <2>2
<1>5. \A T \in SUBSET S : T \in I
  <2> HIDE DEF I
  <2>1. QED
    BY <1>1, <1>3, <1>4, SubsetsByInduction
<1>6. sum(S \ {v}) \in Nat /\ pow[v] \in Nat /\ sum(S) = pow[v] + sum(S \ {v})
  BY <1>1, <1>2, <1>5
<1> HIDE DEF sum
<1>7. sum(S) >= 1
  BY <1>6
<1>8. QED
  BY <1>7 DEF SumOver, sum

LEMMA Initialized ==
    ASSUME ModelOK, NEW kind \in {"cppad", "asl"}, NEW sparse \in BOOLEAN,
           NEW S, S \cap fixed = {}, NEW used, Lists(S, used),
           NEW first \in [DOMAIN used -> Num],
           \A i \in DOMAIN Fns : \A k \in DOMAIN Fns[i] : \A v \in Var \ fixed :
              /\ Fns[i][k].pow[v] > 0
              /\ kind = "asl" => Coefficient(Fns[i][k], Now) # 0
              => v \in S
    PROVE  LET n == Initialize(kind, sparse, used, first)
           IN  WellFormed(n) /\ Coherent(n) /\ n.kind = kind /\ n.at = Now /\ n.since = fixed
<1> DEFINE n == Initialize(kind, sparse, used, first)
           m == Len(used)
           tape == Tape(used, Now)
<1>1. m \in Nat /\ DOMAIN used = 1..m /\ used \in Seq(Var) /\ ToSet(used) = S
      /\ \A i, j \in DOMAIN used : used[i] = used[j] => i = j
  BY DEF Lists
<1>2. JacobianPattern(tape, m) \in SUBSET AllEntries(nc, m)
  BY DEF JacobianPattern, AllEntries
<1>3. HessianPattern(tape, m) \in SUBSET AllEntries(m, m)
  BY DEF HessianPattern, AllEntries
<1>4. LowerTriangle(m) \in SUBSET AllEntries(m, m)
  BY DEF LowerTriangle
<1>5. IsFiniteSet(n.jac) /\ IsFiniteSet(n.hes)
  BY <1>1, <1>2, <1>3, <1>4, EntriesFinite, FnsDomain DEF Initialize
<1>6. DOMAIN n = ViewFields
  BY DEF Initialize, ViewFields
<1>7. /\ n.kind = kind /\ n.sparse = sparse /\ n.used = used /\ n.at = Now /\ n.since = fixed
      /\ n.currx = first /\ n.tape = Tape(n.used, n.at) /\ DOMAIN n.cache = DOMAIN Fns
      /\ n.fvalid = FALSE /\ n.cvalid = FALSE
  BY DEF Initialize
<1>8. n.at.val \in [Atom -> Num] /\ n.at.fixed = fixed /\ fixed \in SUBSET Var
  BY <1>7 DEF Now, ModelOK
<1> HIDE DEF n
<1>9. ToSet(n.used) \cap n.since = {} /\ ColumnsSuffice(n)
  BY <1>1, <1>7, <1>8 DEF ColumnsSuffice
<1>10. WellFormed(n)
  BY <1>1, <1>5, <1>6, <1>7, <1>8, <1>9 DEF WellFormed
<1>11. QED
  BY <1>7, <1>10 DEF Coherent, n

LEMMA CppADColumns ==
    ASSUME ModelOK, NEW sparse \in BOOLEAN
    PROVE  LET n == Initialize("cppad", sparse, UsedVariables, CurrentPoint(UsedVariables))
           IN  WellFormed(n) /\ Coherent(n) /\ n.kind = "cppad"
<1> DEFINE S == {v \in Var \ fixed : Occurs(v)}
<1>1. Lists(S, UsedVariables)
  BY UsedColumns
<1>2. \A i \in DOMAIN Fns : \A k \in DOMAIN Fns[i] : \A v \in Var \ fixed :
          Fns[i][k].pow[v] > 0 => v \in S
  BY DEF Occurs
<1>3. CurrentPoint(UsedVariables) \in [DOMAIN UsedVariables -> Num]
  BY <1>1, PresentPoint DEF Lists
<1>4. S \cap fixed = {}
  OBVIOUS
<1> HIDE DEF S
<1>5. QED
  BY <1>1, <1>2, <1>3, <1>4, Initialized

(* A view of the ASL has the columns of its file, and a value of the model *)
(* in each, if not that of the column.                                     *)
LEMMA AslInitialized ==
    ASSUME ModelOK
    PROVE  /\ WellFormed(AslInitialize) /\ Coherent(AslInitialize)
           /\ AslInitialize.kind = "asl" /\ AslInitialize.at = Now
<1> DEFINE S == {v \in Var \ fixed : Written(v, DOMAIN Fns, 1)}
<1>1. Lists(S, AslColumns)
  BY FileColumns DEF ModelOK
<1>2. ASSUME NEW i \in DOMAIN Fns, NEW k \in DOMAIN Fns[i], NEW v \in Var \ fixed,
             Fns[i][k].pow[v] > 0, Coefficient(Fns[i][k], Now) # 0
      PROVE  v \in S
  <2>1. Fns[i][k].pow \in [Atom -> Nat]
    <3>1. Fns[i] \in Seq(Terms)
      BY FnsTerms
    <3>2. Fns[i][k] \in Terms
      BY <3>1
    <3>3. QED
      BY <3>2 DEF Terms
  <2>2. SumOver(Fns[i][k].pow, Var \ fixed) >= 1
    BY <1>2, <2>1, DegreeOfOne
  <2>3. QED
    BY <1>2, <2>2 DEF Written
<1>3. FirstPoint(AslColumns) \in [DOMAIN AslColumns -> Num]
  <2>1. S \in SUBSET Var /\ ToSet(AslColumns) = S
    BY <1>1 DEF Lists
  <2> HIDE DEF S
  <2>2. Lists(S, InIndexOrder(S))
    BY <2>1, IndexLists
  <2>3. DOMAIN InIndexOrder(S) = DOMAIN AslColumns
    BY <1>1, <2>2, SameLength
  <2>4. CurrentPoint(InIndexOrder(S)) \in [DOMAIN InIndexOrder(S) -> Num]
    BY <2>2, PresentPoint DEF Lists
  <2>5. QED
    BY <2>1, <2>3, <2>4 DEF FirstPoint
<1>4. S \cap fixed = {}
  OBVIOUS
<1> HIDE DEF S
<1> DEFINE kind == "asl"
           sparse == TRUE
<1>5. \A i \in DOMAIN Fns : \A k \in DOMAIN Fns[i] : \A v \in Var \ fixed :
          /\ Fns[i][k].pow[v] > 0
          /\ kind = "asl" => Coefficient(Fns[i][k], Now) # 0
          => v \in S
  BY <1>2
<1>6. kind \in {"cppad", "asl"} /\ sparse \in BOOLEAN
  OBVIOUS
<1> DEFINE used == AslColumns
           first == FirstPoint(AslColumns)
           n == Initialize(kind, sparse, used, first)
<1>7. Lists(S, used) /\ first \in [DOMAIN used -> Num]
  BY <1>1, <1>3
<1> HIDE DEF kind, sparse, used, first
<1>8. WellFormed(n) /\ Coherent(n) /\ n.kind = kind /\ n.at = Now
  BY <1>4, <1>5, <1>6, <1>7, Initialized
<1>9. QED
  BY <1>8 DEF AslInitialize, kind, sparse, used, first

LEMMA PointSet ==
    ASSUME NEW n, WellFormed(n), NEW x \in [DOMAIN n.used -> Num]
    PROVE  LET m == SetVariables(n, x)
           IN  WellFormed(m) /\ Coherent(m) /\ Shape(m) = Shape(n) /\ m.currx = x
BY DEF WellFormed, ColumnsSuffice, Coherent, Shape, SetVariables, ViewFields

(* A CppAD view keeps its columns and arrays; an ASL view starts over.     *)
LEMMA Refreshed ==
    ASSUME ModelOK, NEW n, WellFormed(n)
    PROVE  LET m == Reset(n)
           IN  /\ WellFormed(m) /\ Coherent(m)
               /\ m.kind = n.kind /\ m.at = Now
               /\ n.kind = "cppad" => /\ m.used = n.used /\ m.since = n.since
                                      /\ m.jac = n.jac /\ m.hes = n.hes
<1>1. CASE n.kind = "cppad"
  <2> DEFINE t == [n EXCEPT !.tape = Tape(n.used, Now), !.fpoint = <<>>, !.cpoint = <<>>,
                            !.at = Now]
  <2>1. /\ WellFormed(t) /\ t.kind = n.kind /\ t.used = n.used /\ t.jac = n.jac
        /\ t.hes = n.hes /\ t.at = Now /\ t.since = n.since
    BY <1>1 DEF WellFormed, ColumnsSuffice, ViewFields, Now, ModelOK
  <2>2. CurrentPoint(n.used) \in [DOMAIN t.used -> Num]
    BY <2>1, PresentPoint DEF WellFormed
  <2>3. Reset(n) = SetVariables(t, CurrentPoint(n.used))
    BY <1>1 DEF Reset, CppADReset
  <2> HIDE DEF t
  <2>4. WellFormed(Reset(n)) /\ Coherent(Reset(n)) /\ Shape(Reset(n)) = Shape(t)
    BY <2>1, <2>2, <2>3, PointSet
  <2>5. QED
    BY <1>1, <2>1, <2>4 DEF Shape
<1>2. CASE n.kind # "cppad"
  <2>1. n.kind = "asl" /\ Reset(n) = AslInitialize
    BY <1>2 DEF Reset, WellFormed
  <2>2. QED
    BY <2>1, AslInitialized
<1>3. QED
  BY <1>1, <1>2

LEMMA CppADInitialized ==
    ASSUME ModelOK, NEW sparse \in BOOLEAN
    PROVE  LET n == CppADInitialize(sparse)
           IN  WellFormed(n) /\ Coherent(n)
<1> DEFINE n == Initialize("cppad", sparse, UsedVariables, CurrentPoint(UsedVariables))
<1>1. WellFormed(n) /\ n.kind = "cppad"
  BY CppADColumns
<1>2. CppADInitialize(sparse) = Reset(n)
  BY <1>1 DEF CppADInitialize, Reset
<1>3. QED
  BY <1>1, <1>2, Refreshed

(* Each evaluation, and what it leaves alone.                              *)
LEMMA Computed ==
    ASSUME NEW n, WellFormed(n), Coherent(n), NEW q \in Queries
    PROVE  LET m == After(n, q)
           IN  WellFormed(m) /\ Coherent(m) /\ Shape(m) = Shape(n) /\ m.currx = n.currx
<1> DEFINE Kept(m) == WellFormed(m) /\ Coherent(m) /\ Shape(m) = Shape(n) /\ m.currx = n.currx
<1>1. nf \in Nat /\ nc \in Nat /\ DOMAIN n.cache = 1..nf + nc /\ DOMAIN Fns = 1..nf + nc
  BY FnsDomain DEF WellFormed
<1>2. \A I : DOMAIN Evaluated(n, I) = DOMAIN Fns
  BY DEF Evaluated, WellFormed
<1>3. Kept(n)
  OBVIOUS
<1>4. Kept(Forward(n))
  <2>1. CASE n.fvalid
    BY <2>1, <1>3 DEF Forward
  <2>2. CASE ~n.fvalid
    <3> DEFINE m == Forward(n)
    <3>1. m = [n EXCEPT !.cache = Evaluated(n, DOMAIN Fns), !.fvalid = TRUE, !.cvalid = TRUE,
                        !.fpoint = n.currx, !.cpoint = n.currx]
      BY <2>2 DEF Forward
    <3>2. WellFormed(m) /\ Shape(m) = Shape(n) /\ m.currx = n.currx
      BY <3>1, <1>2 DEF WellFormed, ColumnsSuffice, Shape, ViewFields
    <3>3. \A i \in 1..nf + nc : m.cache[i] = At(m.tape[i], m.currx)
      BY <3>1, <1>1 DEF Evaluated, WellFormed, ViewFields
    <3>4. Coherent(m)
      BY <3>1, <3>3, <1>1 DEF Coherent, WellFormed, ViewFields
    <3>5. QED
      BY <3>2, <3>4
  <2>3. QED
    BY <2>1, <2>2
<1>5. n.kind # "cppad" => Kept(AslObjective(n)) /\ AslObjective(n).fvalid
  <2>1. CASE n.fvalid
    BY <2>1, <1>3 DEF AslObjective
  <2>2. CASE ~n.fvalid /\ n.kind # "cppad"
    <3> DEFINE m == AslObjective(n)
    <3>1. m = [n EXCEPT !.cache = Evaluated(n, 1..nf), !.fvalid = TRUE, !.fpoint = n.currx]
      BY <2>2 DEF AslObjective
    <3>2. WellFormed(m) /\ Shape(m) = Shape(n) /\ m.currx = n.currx /\ m.fvalid
      BY <3>1, <1>2 DEF WellFormed, ColumnsSuffice, Shape, ViewFields
    <3>3. /\ \A i \in 1..nf : m.cache[i] = At(m.tape[i], m.currx)
          /\ \A i \in nf + 1 .. nf + nc : m.cache[i] = n.cache[i]
      BY <3>1, <1>1 DEF Evaluated, WellFormed, ViewFields
    <3>4. Coherent(m)
      BY <2>2, <3>1, <3>3, <1>1 DEF Coherent, WellFormed, ViewFields
    <3>5. QED
      BY <3>2, <3>4
  <2>3. QED
    BY <2>1, <2>2
<1>6. ASSUME NEW o, WellFormed(o), Coherent(o), Shape(o) = Shape(n), o.currx = n.currx,
             n.kind # "cppad"
      PROVE  Kept(AslConstraints(o))
  <2>1. CASE o.cvalid
    BY <2>1, <1>6 DEF AslConstraints
  <2>2. CASE ~o.cvalid
    <3> DEFINE m == AslConstraints(o)
    <3>1. m = [o EXCEPT !.cache = Evaluated(o, nf + 1 .. nf + nc), !.cvalid = TRUE,
                        !.cpoint = o.currx]
      BY <2>2 DEF AslConstraints
    <3>2. WellFormed(m) /\ Shape(m) = Shape(n) /\ m.currx = n.currx
      BY <3>1, <1>6 DEF WellFormed, ColumnsSuffice, Shape, ViewFields, Evaluated
    <3>3. /\ \A i \in nf + 1 .. nf + nc : m.cache[i] = At(m.tape[i], m.currx)
          /\ \A i \in 1..nf : m.cache[i] = o.cache[i]
      BY <3>1, <1>1, <1>6 DEF Evaluated, WellFormed, ViewFields
    <3>4. /\ m.kind # "cppad" /\ m.cpoint = m.currx /\ m.fvalid = o.fvalid
          /\ m.fpoint = o.fpoint /\ m.currx = o.currx /\ m.tape = o.tape
      BY <3>1, <1>6 DEF WellFormed, ViewFields, Shape
    <3>5. Coherent(m)
      BY <3>3, <3>4, <1>6 DEF Coherent
    <3>6. QED
      BY <3>2, <3>5
  <2>3. QED
    BY <2>1, <2>2
<1>7. n.kind = "cppad" => Kept(Swept(n))
  BY DEF Swept, WellFormed, ColumnsSuffice, Coherent, Shape, ViewFields
<1>8. CASE q \in {"f", "df"}
  BY <1>4, <1>5, <1>8 DEF After, AfterF
<1>9. CASE q = "c"
  BY <1>3, <1>4, <1>6, <1>9 DEF After, AfterC
<1>10. CASE q = "dc"
  BY <1>3, <1>4, <1>10 DEF After, AfterDC
<1>11. CASE q = "H"
  BY <1>5, <1>6, <1>7, <1>11 DEF After, AfterH
<1>12. CASE q = "J"
  BY <1>3, <1>4, <1>7, <1>12 DEF After, AfterJ, WellFormed
<1>13. QED
  BY <1>8, <1>9, <1>10, <1>11, <1>12 DEF Queries

(* What the functions that a view has recorded answer at a point, with no  *)
(* cache and no sweep.                                                     *)
OfTape(n, q, x, w) ==
    CASE q = "f"  -> At(n.tape[1], x)
      [] q = "df" -> Gradient(n.tape[1], x)
      [] q = "c"  -> [i \in 1..nc |-> At(n.tape[nf + i], x)]
      [] q = "dc" -> Gradient(n.tape[nf + 1], x)
      [] q = "H"  -> [e \in n.hes |->
                        SumOver([i \in DOMAIN Fns |->
                            w[i] * At(Derivative(Derivative(n.tape[i], e[1]), e[2]), x)],
                            DOMAIN Fns)]
      [] q = "J"  -> [e \in n.jac |-> At(Derivative(n.tape[nf + e[1]], e[2]), x)]

LEMMA CoherentAnswer ==
    ASSUME NEW n, WellFormed(n), Coherent(n), NEW q \in Queries, NEW w
    PROVE  Answer(After(n, q), q, w) = OfTape(n, q, n.currx, w)
<1> DEFINE m == After(n, q)
<1>1. WellFormed(m) /\ Coherent(m) /\ Shape(m) = Shape(n) /\ m.currx = n.currx
  BY Computed
<1>2. m.tape = n.tape /\ m.jac = n.jac /\ m.hes = n.hes /\ m.kind = n.kind
  BY <1>1 DEF Shape
<1>3. nf \in Nat /\ nc \in Nat /\ DOMAIN Fns = 1..nf + nc
  BY FnsDomain
<1>4. q \in {"f", "df"} => m.fvalid
  BY DEF After, AfterF, Forward, AslObjective, WellFormed, ViewFields
<1>5. q = "c" => m.cvalid
  <2>1. Forward(n).fvalid /\ AslConstraints(n).cvalid
    BY DEF Forward, AslConstraints, WellFormed, ViewFields
  <2>2. q = "c" => m = IF n.kind = "cppad" THEN Forward(n) ELSE AslConstraints(n)
    BY DEF After, AfterC
  <2>3. QED
    BY <1>1, <1>2, <2>1, <2>2 DEF Coherent
<1>6. q = "dc" /\ n.kind = "cppad" => m.cvalid
  <2>1. Forward(n).fvalid
    BY DEF Forward, WellFormed, ViewFields
  <2>2. q = "dc" /\ n.kind = "cppad" => m = Forward(n)
    BY DEF After, AfterDC
  <2>3. QED
    BY <1>1, <1>2, <2>1, <2>2 DEF Coherent
<1>7. q = "J" /\ n.kind = "cppad" => m.cpoint = m.currx
  <2>1. Forward(n).fvalid
    BY DEF Forward, WellFormed, ViewFields
  <2>2. Swept(n).cpoint = n.currx
    BY DEF Swept, WellFormed, ViewFields
  <2>3. q = "J" /\ n.kind = "cppad" => m = Swept(n) \/ m = Forward(n)
    BY DEF After, AfterJ, WellFormed
  <2>4. QED
    BY <1>1, <1>2, <2>1, <2>2, <2>3 DEF Coherent
<1>8. q = "H" => m.fpoint = m.currx /\ m.cpoint = m.currx
  <2>1. Swept(n).cpoint = n.currx /\ Swept(n).fpoint = n.currx
    BY DEF Swept, WellFormed, ViewFields
  <2>2. AslConstraints(AslObjective(n)).fvalid /\ AslConstraints(AslObjective(n)).cvalid
    BY DEF AslObjective, AslConstraints, WellFormed, ViewFields
  <2>3. q = "H" => m = Swept(n) \/ m = AslConstraints(AslObjective(n))
    BY DEF After, AfterH
  <2>4. QED
    BY <1>1, <2>1, <2>2, <2>3 DEF Coherent
<1> HIDE DEF m
<1>9. CASE q = "f"
  <2>1. 1 \in 1..nf
    BY <1>3, <1>9 DEF Queries
  <2>2. m.cache[1] = At(m.tape[1], m.currx)
    BY <1>1, <1>4, <1>9, <2>1 DEF Coherent
  <2>3. QED
    BY <1>1, <1>2, <1>9, <2>2 DEF m, Answer, AnswerF, OfTape
<1>10. CASE q = "df"
  <2>1. m.fpoint = m.currx
    BY <1>1, <1>4, <1>10 DEF Coherent
  <2>2. Answer(m, q, w) = Gradient(m.tape[1], m.currx)
    BY <1>10, <2>1 DEF Answer, AnswerDF
  <2>3. QED
    BY <1>1, <1>2, <1>10, <2>2 DEF m, OfTape
<1>11. CASE q = "c"
  <2>1. \A i \in 1..nc : m.cache[nf + i] = At(m.tape[nf + i], m.currx)
    BY <1>1, <1>3, <1>5, <1>11 DEF Coherent
  <2>2. Answer(m, q, w) = [i \in 1..nc |-> At(m.tape[nf + i], m.currx)]
    BY <1>11, <2>1 DEF Answer, AnswerC
  <2>3. QED
    BY <1>1, <1>2, <1>11, <2>2 DEF m, OfTape
<1>12. CASE q = "dc"
  <2>1. m.kind = "cppad" => m.cpoint = m.currx
    BY <1>1, <1>2, <1>6, <1>12 DEF Coherent
  <2>2. Answer(m, q, w) = Gradient(m.tape[nf + 1], m.currx)
    BY <1>12, <2>1 DEF Answer, AnswerDC
  <2>3. QED
    BY <1>1, <1>2, <1>12, <2>2 DEF m, OfTape
<1>13. CASE q = "H"
  <2> DEFINE second(e, i, x) == At(Derivative(Derivative(m.tape[i], e[1]), e[2]), x)
  <2> HIDE DEF second
  <2>1. Answer(m, q, w) = AnswerH(m, w)
    BY <1>13 DEF Answer
  <2>2. AnswerH(m, w)
        = [e \in m.hes |->
              SumOver([i \in DOMAIN Fns |->
                  w[i] * second(e, i, IF i <= nf THEN m.fpoint ELSE m.cpoint)], DOMAIN Fns)]
    BY DEF AnswerH, second
  <2>3. ASSUME NEW e
        PROVE  [i \in DOMAIN Fns |->
                   w[i] * second(e, i, IF i <= nf THEN m.fpoint ELSE m.cpoint)]
               = [i \in DOMAIN Fns |-> w[i] * second(e, i, m.currx)]
    BY <1>8, <1>13
  <2>4. AnswerH(m, w)
        = [e \in m.hes |-> SumOver([i \in DOMAIN Fns |-> w[i] * second(e, i, m.currx)],
                                   DOMAIN Fns)]
    BY <2>2, <2>3
  <2>5. QED
    BY <1>1, <1>2, <1>13, <2>1, <2>4 DEF m, OfTape, second
<1>14. CASE q = "J"
  <2>1. (IF m.kind = "cppad" THEN m.cpoint ELSE m.currx) = m.currx
    BY <1>2, <1>7, <1>14
  <2>2. Answer(m, q, w) = [e \in m.jac |-> At(Derivative(m.tape[nf + e[1]], e[2]), m.currx)]
    BY <1>14, <2>1 DEF Answer, AnswerJ
  <2>3. QED
    BY <1>1, <1>2, <1>14, <2>2 DEF m, OfTape
<1>15. QED
  BY <1>9, <1>10, <1>11, <1>12, <1>13, <1>14 DEF Queries

-----------------------------------------------------------------------------
(***************************************************************************)
(* What a view has recorded is what the model's expressions are, as long   *)
(* as its columns and its entries are enough.                              *)
(***************************************************************************)
LEMMA FnsCovered ==
    ASSUME NEW n, WellFormed(n), n.since \subseteq n.at.fixed, NEW i \in DOMAIN Fns
    PROVE  CoveredAll(Fns[i], n.used, n.at)
<1>1. Fns[i] \in Seq(Terms)
  BY FnsTerms
<1>2. \A k \in DOMAIN Fns[i] : Fns[i][k] \in Terms
  BY <1>1
<1>3. ASSUME NEW k \in DOMAIN Fns[i], Coefficient(Fns[i][k], n.at) # 0,
             NEW v \in Var \ n.at.fixed, Fns[i][k].pow[v] # 0
      PROVE  v \in ToSet(n.used)
  <2>1. v \in Atom /\ v \in Var \ n.since
    BY DEF Atom
  <2>2. Fns[i][k].pow[v] > 0
    BY <1>2, <1>3, <2>1 DEF Terms
  <2>3. QED
    BY <1>3, <2>1, <2>2 DEF WellFormed, ColumnsSuffice
<1>4. QED
  BY <1>1, <1>2, <1>3 DEF CoveredAll, Covered

LEMMA ViewRecorded ==
    ASSUME NEW n, WellFormed(n), StructureHolds(n), NEW x \in [DOMAIN n.used -> Num]
    PROVE  LET y == Whole(n.used, x, n.at)
               cols == DOMAIN n.used
           IN  \A i \in DOMAIN Fns :
                  /\ At(n.tape[i], x) = At(Fns[i], y) /\ At(Fns[i], y) \in Int
                  /\ \A j \in cols :
                        /\ At(Derivative(n.tape[i], j), x) = Partial(Fns[i], n.used, j, n.at, y)
                        /\ Partial(Fns[i], n.used, j, n.at, y) \in Int
                        /\ (\A k \in DOMAIN n.tape[i] : ~(n.tape[i][k].pow[j] > 0))
                           => Partial(Fns[i], n.used, j, n.at, y) = 0
                  /\ \A j, l \in cols :
                        /\ At(Derivative(Derivative(n.tape[i], j), l), x)
                           = Partial2(Fns[i], n.used, j, l, n.at, y)
                        /\ (\A k \in DOMAIN n.tape[i] : ~Interact(n.tape[i][k], j, l))
                           => Partial2(Fns[i], n.used, j, l, n.at, y) = 0
<1> DEFINE y == Whole(n.used, x, n.at)
           cols == DOMAIN n.used
<1>1. Columns(n.used, n.at)
  BY DEF WellFormed, Columns
<1>2. IsFiniteSet(cols) /\ \A i \in cols : x[i] \in Int
  BY <1>1, ColumnsFinite, ViewNumbers
<1> SUFFICES ASSUME NEW i \in DOMAIN Fns
             PROVE
                  /\ At(n.tape[i], x) = At(Fns[i], y) /\ At(Fns[i], y) \in Int
                  /\ \A j \in cols :
                        /\ At(Derivative(n.tape[i], j), x) = Partial(Fns[i], n.used, j, n.at, y)
                        /\ Partial(Fns[i], n.used, j, n.at, y) \in Int
                        /\ (\A k \in DOMAIN n.tape[i] : ~(n.tape[i][k].pow[j] > 0))
                           => Partial(Fns[i], n.used, j, n.at, y) = 0
                  /\ \A j, l \in cols :
                        /\ At(Derivative(Derivative(n.tape[i], j), l), x)
                           = Partial2(Fns[i], n.used, j, l, n.at, y)
                        /\ (\A k \in DOMAIN n.tape[i] : ~Interact(n.tape[i][k], j, l))
                           => Partial2(Fns[i], n.used, j, l, n.at, y) = 0
  OBVIOUS
<1>3. n.tape[i] = Recorded(Fns[i], n.used, n.at)
  BY DEF WellFormed, Tape
<1>4. CoveredAll(Fns[i], n.used, n.at)
  BY FnsCovered DEF StructureHolds
<1> DEFINE r == n.tape[i]
<1>5. /\ IsFiniteSet(DOMAIN r)
      /\ \A k \in DOMAIN r : r[k] \in [coef : Int, pow : [cols -> Nat]]
  BY <1>1, <1>3, <1>4, RecordedType
<1> HIDE DEF y, cols, r
<1>6. At(r, x) = At(Fns[i], y) /\ At(Fns[i], y) \in Int
  BY <1>1, <1>3, <1>4, RecordedAt DEF y, r
<1>7. ASSUME NEW j \in cols
      PROVE  /\ At(Derivative(r, j), x) = Partial(Fns[i], n.used, j, n.at, y)
             /\ Partial(Fns[i], n.used, j, n.at, y) \in Int
             /\ (\A k \in DOMAIN r : ~(r[k].pow[j] > 0)) => At(Derivative(r, j), x) = 0
  <2>1. /\ At(Derivative(r, j), x) = Partial(Fns[i], n.used, j, n.at, y)
        /\ Partial(Fns[i], n.used, j, n.at, y) \in Int
    BY <1>1, <1>3, <1>4, RecordedPartial DEF y, r, cols
  <2>2. (\A k \in DOMAIN r : ~(r[k].pow[j] > 0)) => At(Derivative(r, j), x) = 0
    BY <1>2, <1>5, NoEntry
  <2>3. QED
    BY <2>1, <2>2
<1>8. ASSUME NEW j \in cols, NEW l \in cols
      PROVE  /\ At(Derivative(Derivative(r, j), l), x) = Partial2(Fns[i], n.used, j, l, n.at, y)
             /\ (\A k \in DOMAIN r : ~Interact(r[k], j, l))
                => At(Derivative(Derivative(r, j), l), x) = 0
  <2>1. At(Derivative(Derivative(r, j), l), x) = Partial2(Fns[i], n.used, j, l, n.at, y)
    BY <1>1, <1>3, <1>4, RecordedPartial2 DEF y, r, cols
  <2>2. (\A k \in DOMAIN r : ~Interact(r[k], j, l)) => At(Derivative(Derivative(r, j), l), x) = 0
    BY <1>2, <1>5, NoEntry2
  <2>3. QED
    BY <2>1, <2>2
<1>9. QED
  BY <1>6, <1>7, <1>8 DEF r

(* Every answer is what was promised, and entries that are left out are    *)
(* zeros.                                                                  *)
LEMMA TapeAnswers ==
    ASSUME NEW n, WellFormed(n), StructureHolds(n), NEW x \in [DOMAIN n.used -> Num],
           NEW q \in Queries, NEW w \in Weights
    PROVE  LET want == Promised(q, n.used, x, n.at, w)
           IN  /\ Fill(q, OfTape(n, q, x, w), want) = want
               /\ q \notin {"H", "J"} => OfTape(n, q, x, w) = want
               /\ q = "f" => want \in Int
               /\ q = "df" => want \in [DOMAIN n.used -> Int]
<1> DEFINE y == Whole(n.used, x, n.at)
           cols == DOMAIN n.used
           m == Len(n.used)
           want == Promised(q, n.used, x, n.at, w)
           got == OfTape(n, q, x, w)
           P(i, j) == Partial(Fns[i], n.used, j, n.at, y)
           P2(i, j, l) == Partial2(Fns[i], n.used, j, l, n.at, y)
           D(i, j) == At(Derivative(n.tape[i], j), x)
           D2(i, j, l) == At(Derivative(Derivative(n.tape[i], j), l), x)
<1>1. \A i \in DOMAIN Fns :
          /\ At(n.tape[i], x) = At(Fns[i], y) /\ At(Fns[i], y) \in Int
          /\ \A j \in cols : /\ D(i, j) = P(i, j) /\ P(i, j) \in Int
                             /\ (\A k \in DOMAIN n.tape[i] : ~(n.tape[i][k].pow[j] > 0))
                                => P(i, j) = 0
          /\ \A j, l \in cols : /\ D2(i, j, l) = P2(i, j, l)
                                /\ (\A k \in DOMAIN n.tape[i] : ~Interact(n.tape[i][k], j, l))
                                   => P2(i, j, l) = 0
  BY ViewRecorded
<1>2. nf \in Nat /\ nc \in Nat /\ DOMAIN Fns = 1..nf + nc /\ DOMAIN n.tape = DOMAIN Fns
      /\ cols = 1..m /\ m \in Nat /\ DOMAIN x = cols /\ IsFiniteSet(DOMAIN Fns)
  BY FnsDomain, FS_Interval DEF WellFormed, Tape
<1>3. \A i \in 1..nc : nf + i \in DOMAIN Fns /\ Fns[nf + i] = Constraints[i]
  BY FnsTerms
<1>4. CASE q = "f"
  <2>1. 1 \in DOMAIN Fns
    BY <1>4, FnsTerms DEF Queries
  <2>2. got = At(n.tape[1], x) /\ want = At(Fns[1], y)
    BY <1>4 DEF OfTape, Promised
  <2>3. QED
    BY <1>1, <1>4, <2>1, <2>2 DEF Fill
<1>5. CASE q = "df"
  <2>1. 1 \in DOMAIN Fns
    BY <1>5, FnsTerms DEF Queries
  <2>2. got = [j \in cols |-> D(1, j)] /\ want = [j \in cols |-> P(1, j)]
    BY <1>2, <1>5 DEF OfTape, Promised, Gradient
  <2> HIDE DEF D, P, cols, y, got, want
  <2>3. got = want /\ want \in [cols -> Int]
    BY <1>1, <2>1, <2>2
  <2>4. QED
    BY <1>5, <2>3 DEF Fill, got, want, cols
<1>6. CASE q = "c"
  <2>1. got = [i \in 1..nc |-> At(n.tape[nf + i], x)] /\ want = [i \in 1..nc |-> At(Constraints[i], y)]
    BY <1>6 DEF OfTape, Promised
  <2> HIDE DEF y, got, want
  <2>2. got = want
    BY <1>1, <1>3, <2>1
  <2>3. QED
    BY <1>6, <2>2 DEF Fill, got, want
<1>7. CASE q = "dc"
  <2>1. nf + 1 \in DOMAIN Fns /\ Fns[nf + 1] = Constraints[1]
    BY <1>2, <1>3, <1>7 DEF Queries
  <2>2. got = [j \in cols |-> D(nf + 1, j)] /\ want = [j \in cols |-> P(nf + 1, j)]
    BY <1>2, <1>7, <2>1 DEF OfTape, Promised, Gradient
  <2> HIDE DEF D, P, cols, y, got, want
  <2>3. got = want
    BY <1>1, <2>1, <2>2
  <2>4. QED
    BY <1>7, <2>3 DEF Fill, got, want
<1>8. CASE q = "J"
  <2> DEFINE E == AllEntries(nc, m)
  <2>1. \A e \in E : e[1] \in 1..nc /\ e[2] \in cols
    BY <1>2 DEF AllEntries
  <2>2. got = [e \in n.jac |-> D(nf + e[1], e[2])]
    BY <1>8 DEF OfTape
  <2>3. want = [e \in E |-> P(nf + e[1], e[2])]
    <3>1. want = [e \in E |-> Partial(Constraints[e[1]], n.used, e[2], n.at, y)]
      BY <1>8 DEF Promised
    <3> HIDE DEF want, E, y
    <3>2. QED
      BY <1>3, <2>1, <3>1
  <2>4. ASSUME NEW e \in E, e \notin n.jac PROVE P(nf + e[1], e[2]) = 0
    <3>1. e \notin JacobianPattern(n.tape, m)
      BY <2>4 DEF StructureHolds
    <3>2. \A k \in DOMAIN n.tape[nf + e[1]] : ~(n.tape[nf + e[1]][k].pow[e[2]] > 0)
      BY <3>1 DEF JacobianPattern, AllEntries
    <3> HIDE DEF D, P, D2, P2, E, y
    <3>3. QED
      BY <1>1, <1>3, <2>1, <3>2
  <2>5. ASSUME NEW e \in E PROVE (IF e \in DOMAIN got THEN got[e] ELSE 0) = P(nf + e[1], e[2])
    <3>1. nf + e[1] \in DOMAIN Fns /\ e[2] \in cols
      BY <1>3, <2>1
    <3>2. D(nf + e[1], e[2]) = P(nf + e[1], e[2])
      BY <1>1, <3>1
    <3> HIDE DEF D, P, D2, P2, E, y, got
    <3>3. QED
      BY <2>2, <2>4, <3>2
  <2>6. Fill(q, got, want) = [e \in DOMAIN want |-> IF e \in DOMAIN got THEN got[e] ELSE 0]
    BY <1>8 DEF Fill
  <2> HIDE DEF D, P, E, y, got, want
  <2>7. Fill(q, got, want) = want
    BY <2>3, <2>5, <2>6
  <2>8. QED
    BY <1>8, <2>7 DEF got, want
<1>9. CASE q = "H"
  <2> DEFINE E == LowerTriangle(m)
             Of(e) == [i \in DOMAIN Fns |-> w[i] * D2(i, e[1], e[2])]
             For(e) == [i \in DOMAIN Fns |-> w[i] * P2(i, e[1], e[2])]
  <2>1. \A e \in E : e \in (1..m) \X (1..m) /\ e[1] \in cols /\ e[2] \in cols /\ e[2] <= e[1]
    BY <1>2 DEF LowerTriangle, AllEntries
  <2>2. got = [e \in n.hes |-> SumOver(Of(e), DOMAIN Fns)]
    BY <1>9 DEF OfTape
  <2>3. want = [e \in E |-> SumOver(For(e), DOMAIN Fns)]
    BY <1>9 DEF Promised
  <2>4. \A e \in E : Of(e) = For(e)
    BY <1>1, <2>1
  <2>5. ASSUME NEW e \in E, e \notin n.hes PROVE SumOver(For(e), DOMAIN Fns) = 0
    <3>1. e \notin HessianPattern(n.tape, m)
      BY <2>5 DEF StructureHolds
    <3>2. \A i \in DOMAIN Fns : \A k \in DOMAIN n.tape[i] : ~Interact(n.tape[i][k], e[1], e[2])
      BY <1>2, <2>1, <3>1 DEF HessianPattern
    <3>3. \A i \in DOMAIN Fns : P2(i, e[1], e[2]) = 0
      BY <1>1, <2>1, <3>2
    <3>4. \A i \in DOMAIN Fns : w[i] \in Int
      BY WeightsType
    <3> HIDE DEF D2, P2
    <3>5. \A i \in DOMAIN Fns : For(e)[i] = Neutral("+")
      BY <3>3, <3>4 DEF Neutral
    <3> HIDE DEF For
    <3>6. QED
      BY <1>2, <3>5, FoldOfNone DEF SumOver, Neutral
  <2>6. Fill(q, got, want) = [e \in DOMAIN want |-> IF e \in DOMAIN got THEN got[e] ELSE 0]
    BY <1>9 DEF Fill
  <2> HIDE DEF Of, For, E, y, got, want
  <2>7. Fill(q, got, want) = want
    BY <2>2, <2>3, <2>4, <2>5, <2>6
  <2>8. QED
    BY <1>9, <2>7 DEF got, want
<1>10. QED
  BY <1>4, <1>5, <1>6, <1>7, <1>8, <1>9 DEF Queries

-----------------------------------------------------------------------------
(***************************************************************************)
(* The inductive invariant.                                                *)
(***************************************************************************)
ViewsOK ==
    /\ views \in Seq(ToSet(views)) /\ Len(views) <= MaxViews
    /\ \A r \in DOMAIN views : WellFormed(views[r]) /\ Coherent(views[r])
    /\ nlp \in 0..Len(views)

SolverOK ==
    /\ initial \in BOOLEAN /\ asked \in BOOLEAN
    /\ phase \in {"client", "solving", "undefined"}
    /\ entry \in {None, "solve", "first", "refreshed"}
    /\ phase # "client" => ip # None

(* The loaded model refers to a view.  A CppAD view cannot outgrow the     *)
(* arrays that were made for it.                                           *)
LoadedOK ==
    ip # None =>
        /\ ip \in IpoptModels /\ nlp # 0 /\ ip.r \in DOMAIN views
        /\ views[ip.r].kind = "cppad" => Fits(ip, views[ip.r])
        /\ ip.sign = IF maximize THEN -1 ELSE 1

SolvingOK ==
    phase = "solving" =>
        /\ Fits(ip, views[ip.r])
        /\ ipx \in Points /\ Len(ipx) = ip.n /\ Within(ipx, ip.bounds)
        /\ asked => views[ip.r].currx = ipx
        /\ entry = "solve" =>
              ip.bounds = [j \in DOMAIN views[ip.r].used |-> bounds[views[ip.r].used[j]]]
        /\ entry = "refreshed" /\ ip.r = nlp => views[nlp].at = Now

IInv == ModelOK /\ ViewsOK /\ SolverOK /\ LoadedOK /\ SolvingOK /\ OnlyAslOutgrows

LEMMA ReplacedIn ==
    ASSUME NEW s, s \in Seq(ToSet(s)), NEW r \in DOMAIN s, NEW n
    PROVE  LET t == [s EXCEPT ![r] = n]
           IN  /\ t \in Seq(ToSet(t)) /\ Len(t) = Len(s) /\ DOMAIN t = DOMAIN s
               /\ t[r] = n /\ \A i \in DOMAIN s : i # r => t[i] = s[i]
<1> DEFINE t == [s EXCEPT ![r] = n]
<1>1. /\ DOMAIN s = 1..Len(s) /\ Len(s) \in Nat
  OBVIOUS
<1>2. t = [i \in 1..Len(s) |-> IF i = r THEN n ELSE s[i]]
  BY <1>1
<1>3. t \in [1..Len(s) -> ToSet(t)]
  BY <1>2 DEF ToSet
<1>4. t \in Seq(ToSet(t)) /\ Len(t) = Len(s)
  <2> HIDE DEF t
  <2>1. QED
    BY <1>1, <1>3
<1>5. QED
  BY <1>1, <1>2, <1>4

LEMMA AppendedTo ==
    ASSUME NEW s, s \in Seq(ToSet(s)), NEW n
    PROVE  LET t == Append(s, n)
           IN  /\ t \in Seq(ToSet(t)) /\ Len(t) = Len(s) + 1 /\ DOMAIN t = 1..Len(s) + 1
               /\ t[Len(t)] = n /\ \A i \in DOMAIN s : t[i] = s[i]
<1> DEFINE t == Append(s, n)
<1>1. s \in Seq(ToSet(s) \cup {n})
  OBVIOUS
<1>2. /\ t \in Seq(ToSet(s) \cup {n}) /\ Len(t) = Len(s) + 1 /\ DOMAIN t = 1..Len(s) + 1
      /\ t[Len(t)] = n /\ \A i \in DOMAIN s : t[i] = s[i]
  BY <1>1
<1>3. t \in Seq(ToSet(t))
  BY <1>2 DEF ToSet
<1>4. QED
  BY <1>2, <1>3

(* build() makes an IpoptModel with arrays and bounds of the view.         *)
LEMMA ModelBuilt ==
    ASSUME ModelOK, ViewsOK, NEW r \in DOMAIN views
    PROVE  /\ Built(r) \in IpoptModels /\ Built(r) # None /\ Built(r).r = r
           /\ Fits(Built(r), views[r]) /\ Built(r).sign = IF maximize THEN -1 ELSE 1
           /\ Built(r).bounds = [j \in DOMAIN views[r].used |-> bounds[views[r].used[j]]]
<1> DEFINE n == views[r]
<1>1. WellFormed(n) /\ r \in Nat
  BY DEF ViewsOK
<1>2. n.used \in Seq(Var) /\ Cardinality(n.jac) \in Nat /\ Cardinality(n.hes) \in Nat
  BY <1>1, FS_CardinalityType DEF WellFormed
<1>3. [j \in DOMAIN n.used |-> bounds[n.used[j]]] \in Seq(Bounds)
  <2>1. Len(n.used) \in Nat /\ DOMAIN n.used = 1..Len(n.used)
    BY <1>2
  <2>2. \A j \in DOMAIN n.used : bounds[n.used[j]] \in Bounds
    BY <1>2 DEF ModelOK
  <2>3. QED
    BY <2>1, <2>2
<1>4. Built(r) \in IpoptModels
  BY <1>1, <1>2, <1>3 DEF Built, IpoptModels
<1>5. QED
  BY <1>4, NoneIsNoModel DEF Built, Fits

LEMMA InitInv == Init => IInv
<1> SUFFICES ASSUME Init PROVE IInv
  OBVIOUS
<1>1. ModelOK
  BY BoundsType DEF Init, ModelOK
<1>2. ViewsOK
  <2>1. views = <<>> /\ Len(views) = 0 /\ DOMAIN views = {} /\ views \in Seq(ToSet(views))
    BY DEF Init
  <2>2. nlp \in 0..Len(views) /\ Len(views) <= MaxViews
    BY <2>1, IpoptBounded DEF Init
  <2>3. QED
    BY <2>1, <2>2 DEF ViewsOK
<1>3. QED
  BY <1>1, <1>2 DEF Init, IInv, SolverOK, LoadedOK, SolvingOK, OnlyAslOutgrows

-----------------------------------------------------------------------------
(* Each step preserves the invariant.                                      *)

(* Steps of the client that leave views and the loaded model alone.        *)
LEMMA ChangeKeepsInv ==
    ASSUME IInv, Change, ModelOK'
    PROVE  IInv'
<1> USE DEF IInv, Change
<1>1. ViewsOK'
  BY DEF ViewsOK
<1>2. SolverOK' /\ LoadedOK'
  BY DEF SolverOK, LoadedOK, ipoptVars, Fits
<1>3. SolvingOK' /\ OnlyAslOutgrows'
  BY DEF SolvingOK, OnlyAslOutgrows, ipoptVars
<1>4. QED
  BY <1>1, <1>2, <1>3

LEMMA ModelChangesKeepInv ==
    ASSUME IInv,
           \/ \E a \in Atom, c \in Num : SetValue(a, c)
           \/ \E v \in Var : SetFixed(v)
           \/ \E v \in Var, b \in Bounds : SetBounds(v, b)
    PROVE  IInv'
<1>1. Change
  BY DEF SetValue, SetFixed, SetBounds
<1>2. ModelOK'
  BY DEF IInv, ModelOK, SetValue, SetFixed, SetBounds, Change
<1>3. QED
  BY <1>1, <1>2, ChangeKeepsInv

(* The client puts another view in the place of its own, and if the solver *)
(* has it, one with the same arrays.                                       *)
LEMMA ViewChangeKeepsInv ==
    ASSUME IInv, phase = "client", nlp # 0,
           NEW n, WellFormed(n), Coherent(n),
           views' = [views EXCEPT ![nlp] = n],
           ip # None /\ ip.r = nlp =>
              /\ n.kind = views[nlp].kind
              /\ n.kind = "cppad" => n.used = views[nlp].used /\ n.jac = views[nlp].jac
                                     /\ n.hes = views[nlp].hes,
           UNCHANGED <<modelVars, nlp, initial, ip, entry, ipoptVars, changes>>
    PROVE  IInv'
<1> USE DEF IInv
<1>1. nlp \in DOMAIN views
  BY DEF ViewsOK
<1>2. /\ views' \in Seq(ToSet(views')) /\ Len(views') = Len(views) /\ DOMAIN views' = DOMAIN views
      /\ views'[nlp] = n /\ \A i \in DOMAIN views : i # nlp => views'[i] = views[i]
  BY <1>1, ReplacedIn DEF ViewsOK
<1>3. ModelOK' /\ SolverOK'
  BY DEF ModelOK, SolverOK, modelVars, ipoptVars
<1>4. ViewsOK'
  BY <1>2 DEF ViewsOK, WellFormed, Coherent
<1>5. LoadedOK'
  BY <1>2 DEF LoadedOK, Fits, modelVars
<1>6. SolvingOK' /\ OnlyAslOutgrows'
  BY DEF SolvingOK, OnlyAslOutgrows, ipoptVars
<1>7. QED
  BY <1>3, <1>4, <1>5, <1>6

LEMMA InitializeKeepsInv ==
    ASSUME IInv, NEW kind \in Kinds, NEW sparse \in BOOLEAN, InitializeView(kind, sparse)
    PROVE  IInv'
<1> USE DEF IInv
<1> DEFINE n == IF kind = "cppad" THEN CppADInitialize(sparse) ELSE AslInitialize
<1>1. WellFormed(n) /\ Coherent(n)
  BY CppADInitialized, AslInitialized
<1> HIDE DEF n
<1>2. CASE nlp # 0 /\ (ip = None \/ ip.r # nlp)
  BY <1>1, <1>2, ViewChangeKeepsInv DEF InitializeView, n
<1>3. CASE ~(nlp # 0 /\ (ip = None \/ ip.r # nlp))
  <2>1. Len(views) < MaxViews /\ views' = Append(views, n) /\ nlp' = Len(views')
    BY <1>3 DEF InitializeView, n
  <2>2. Len(views) \in Nat /\ DOMAIN views = 1..Len(views)
    BY DEF ViewsOK
  <2>3. /\ views' \in Seq(ToSet(views')) /\ Len(views') = Len(views) + 1
        /\ DOMAIN views' = 1..Len(views) + 1
        /\ views'[Len(views')] = n /\ \A i \in DOMAIN views : views'[i] = views[i]
    BY <2>1, AppendedTo DEF ViewsOK
  <2>4. ModelOK' /\ SolverOK'
    BY DEF ModelOK, SolverOK, modelVars, ipoptVars, InitializeView
  <2>5. ViewsOK'
    <3>1. \A i \in DOMAIN views' : i \in DOMAIN views \/ i = Len(views')
      BY <2>2, <2>3
    <3>2. \A i \in DOMAIN views' : WellFormed(views'[i]) /\ Coherent(views'[i])
      BY <1>1, <2>3, <3>1 DEF ViewsOK
    <3>3. Len(views') <= MaxViews /\ nlp' \in 0..Len(views')
      BY <2>1, <2>2, <2>3, IpoptBounded
    <3>4. QED
      BY <2>3, <3>2, <3>3 DEF ViewsOK, WellFormed, Coherent
  <2>6. LoadedOK'
    <3>1. ip' = ip /\ maximize' = maximize
      BY DEF InitializeView, modelVars
    <3>2. nlp' # 0
      BY <2>1, <2>2, <2>3
    <3>3. ip # None => ip.r \in DOMAIN views' /\ views'[ip.r] = views[ip.r]
      BY <2>2, <2>3 DEF LoadedOK
    <3>4. QED
      BY <3>1, <3>2, <3>3 DEF LoadedOK, Fits
  <2>7. SolvingOK' /\ OnlyAslOutgrows'
    BY DEF SolvingOK, OnlyAslOutgrows, ipoptVars, InitializeView
  <2>8. QED
    BY <2>4, <2>5, <2>6, <2>7
<1>4. QED
  BY <1>2, <1>3

LEMMA ResetViewKeepsInv ==
    ASSUME IInv, ResetView
    PROVE  IInv'
<1>1. nlp \in DOMAIN views /\ WellFormed(views[nlp])
  BY DEF IInv, ViewsOK, ResetView
<1>2. views' = [views EXCEPT ![nlp] = Reset(views[nlp])]
  BY DEF ResetView
<1>3. QED
  BY <1>1, <1>2, Refreshed, ViewChangeKeepsInv DEF ResetView, IInv

LEMMA SetVariableKeepsInv ==
    ASSUME IInv, NEW x \in Points, SetVariableView(x)
    PROVE  IInv'
<1> DEFINE n == SetVariables(views[nlp], x)
<1>1. nlp \in DOMAIN views /\ WellFormed(views[nlp])
  BY DEF IInv, ViewsOK, SetVariableView
<1>2. views' = [views EXCEPT ![nlp] = n]
  BY DEF SetVariableView
<1>3. WellFormed(n) /\ Coherent(n) /\ Shape(n) = Shape(views[nlp])
  <2>1. x \in [DOMAIN views[nlp].used -> Num]
    BY PointsType DEF SetVariableView
  <2>2. QED
    BY <1>1, <2>1, PointSet
<1> HIDE DEF n
<1>4. n.kind = views[nlp].kind /\ n.used = views[nlp].used /\ n.jac = views[nlp].jac
      /\ n.hes = views[nlp].hes
  BY <1>3 DEF Shape
<1>5. QED
  BY <1>2, <1>3, <1>4, ViewChangeKeepsInv DEF SetVariableView

LEMMA ComputeKeepsInv ==
    ASSUME IInv, NEW q \in Queries, Compute(q)
    PROVE  IInv'
<1> DEFINE n == After(views[nlp], q)
<1>1. nlp \in DOMAIN views /\ WellFormed(views[nlp]) /\ Coherent(views[nlp])
  BY DEF IInv, ViewsOK, Compute
<1>2. views' = [views EXCEPT ![nlp] = n]
  BY DEF Compute
<1>3. WellFormed(n) /\ Coherent(n) /\ Shape(n) = Shape(views[nlp])
  BY <1>1, Computed
<1> HIDE DEF n
<1>4. n.kind = views[nlp].kind /\ n.used = views[nlp].used /\ n.jac = views[nlp].jac
      /\ n.hes = views[nlp].hes
  BY <1>3 DEF Shape
<1>5. QED
  BY <1>2, <1>3, <1>4, ViewChangeKeepsInv DEF Compute

LEMMA LoadKeepsInv ==
    ASSUME IInv, Load
    PROVE  IInv'
<1> USE DEF IInv
<1>1. nlp \in DOMAIN views
  BY DEF ViewsOK, Load
<1>2. /\ ip' \in IpoptModels /\ ip' # None /\ ip'.r = nlp /\ Fits(ip', views[nlp])
      /\ ip'.sign = IF maximize THEN -1 ELSE 1
      /\ maximize' = maximize /\ views' = views /\ nlp' = nlp
  BY <1>1, ModelBuilt DEF Load, modelVars
<1>3. ModelOK' /\ SolverOK' /\ ViewsOK'
  BY <1>2 DEF ModelOK, SolverOK, ViewsOK, modelVars, ipoptVars, Load
<1>4. LoadedOK'
  BY <1>1, <1>2 DEF LoadedOK, Fits, Load
<1>5. SolvingOK' /\ OnlyAslOutgrows'
  BY DEF SolvingOK, OnlyAslOutgrows, ipoptVars, Load
<1>6. QED
  BY <1>3, <1>4, <1>5

LEMMA SolverResetKeepsInv ==
    ASSUME IInv, SolverReset
    PROVE  IInv'
BY DEF IInv, ModelOK, SolverOK, ViewsOK, LoadedOK, SolvingOK, OnlyAslOutgrows, Fits,
       modelVars, ipoptVars, SolverReset

LEMMA SolveKeepsInv ==
    ASSUME IInv, Solve
    PROVE  IInv'
<1> USE DEF IInv
<1> DEFINE m == Built(nlp)
<1>1. nlp \in DOMAIN views /\ nlp # 0
  BY DEF ViewsOK, Solve
<1>2. /\ m \in IpoptModels /\ m # None /\ m.r = nlp /\ Fits(m, views[nlp])
      /\ m.sign = IF maximize THEN -1 ELSE 1
      /\ m.bounds = [j \in DOMAIN views[nlp].used |-> bounds[views[nlp].used[j]]]
  BY <1>1, ModelBuilt
<1> HIDE DEF m
<1>3. /\ views' = views /\ nlp' = nlp /\ ip' = m /\ fixed' = fixed /\ val' = val
      /\ bounds' = bounds /\ maximize' = maximize
  BY DEF Solve, PerformSolve, modelVars, m
<1>4. ModelOK' /\ ViewsOK'
  BY <1>3 DEF ModelOK, ViewsOK
<1>5. LoadedOK'
  BY <1>1, <1>2, <1>3 DEF LoadedOK, Fits
<1>6. CASE initial
  <2>1. PerformSolve(m, "solve") /\ initial' = FALSE
    BY <1>6 DEF Solve, m
  <2>2. /\ phase' = "solving" /\ asked' = FALSE /\ entry' = "solve"
        /\ ipx' \in Points /\ Len(ipx') = m.n /\ Within(ipx', m.bounds)
    BY <1>2, <1>3, <2>1 DEF PerformSolve
  <2>3. SolverOK'
    BY <1>2, <1>3, <2>1, <2>2 DEF SolverOK
  <2>4. SolvingOK'
    BY <1>2, <1>3, <2>2 DEF SolvingOK, Fits, Within
  <2>5. OnlyAslOutgrows'
    BY <2>2 DEF OnlyAslOutgrows
  <2>6. QED
    BY <1>4, <1>5, <2>3, <2>4, <2>5
<1>7. CASE ~initial
  <2>1. phase' = "client" /\ UNCHANGED <<initial, entry, asked>>
    BY <1>7 DEF Solve, ipoptVars
  <2>2. SolverOK' /\ SolvingOK' /\ OnlyAslOutgrows'
    BY <1>2, <1>3, <2>1 DEF SolverOK, SolvingOK, OnlyAslOutgrows
  <2>3. QED
    BY <1>4, <1>5, <2>2
<1>8. QED
  BY <1>6, <1>7

LEMMA ResolveKeepsInv ==
    ASSUME IInv, Resolve
    PROVE  IInv'
<1> USE DEF IInv
<1>1. nlp \in DOMAIN views /\ nlp # 0 /\ ip # None /\ ip.r \in DOMAIN views /\ ip \in IpoptModels
  BY DEF ViewsOK, LoadedOK, Resolve
<1>2. UNCHANGED <<fixed, val, bounds, maximize, nlp, ip>>
  BY DEF Resolve, PerformSolve, modelVars
<1>3. /\ views' \in Seq(ToSet(views')) /\ Len(views') = Len(views) /\ DOMAIN views' = DOMAIN views
      /\ \A r \in DOMAIN views :
            /\ WellFormed(views'[r]) /\ Coherent(views'[r])
            /\ views'[r].kind = views[r].kind
            /\ views[r].kind = "cppad" => views'[r].used = views[r].used
                  /\ views'[r].jac = views[r].jac /\ views'[r].hes = views[r].hes
      /\ ~initial => views'[nlp].at = Now
  <2>1. CASE initial
    BY <2>1 DEF Resolve, ViewsOK
  <2>2. CASE ~initial
    <3>1. views' = [views EXCEPT ![nlp] = Reset(views[nlp])]
      BY <2>2 DEF Resolve
    <3>2. /\ views' \in Seq(ToSet(views')) /\ Len(views') = Len(views)
          /\ DOMAIN views' = DOMAIN views
          /\ views'[nlp] = Reset(views[nlp])
          /\ \A i \in DOMAIN views : i # nlp => views'[i] = views[i]
      BY <1>1, <3>1, ReplacedIn DEF ViewsOK
    <3>3. WellFormed(views[nlp])
      BY <1>1 DEF ViewsOK
    <3>4. QED
      BY <3>2, <3>3, Refreshed DEF ViewsOK
  <2>3. QED
    BY <2>1, <2>2
<1>4. ModelOK'
  BY <1>2 DEF ModelOK
<1>5. ViewsOK'
  BY <1>2, <1>3 DEF ViewsOK, WellFormed, Coherent
<1>6. LoadedOK'
  BY <1>1, <1>2, <1>3 DEF LoadedOK, Fits
<1>7. PerformSolve(ip, IF initial THEN "first" ELSE "refreshed")
  BY DEF Resolve
<1>8. asked' = FALSE /\ entry' = (IF initial THEN "first" ELSE "refreshed") /\ initial' = FALSE
  BY <1>7 DEF PerformSolve, Resolve
<1>9. CASE Fits(ip, views'[ip.r])
  <2>1. /\ phase' = "solving" /\ ipx' \in Points /\ Len(ipx') = ip.n
        /\ Within(ipx', ip.bounds)
    BY <1>7, <1>9 DEF PerformSolve
  <2>2. SolverOK' /\ OnlyAslOutgrows'
    BY <1>1, <1>2, <1>8, <2>1 DEF SolverOK, OnlyAslOutgrows
  <2>3. Now' = Now
    BY <1>2 DEF Now
  <2>4. SolvingOK'
    BY <1>2, <1>3, <1>8, <1>9, <2>1, <2>3 DEF SolvingOK, Fits, Within, SolverOK
  <2>5. QED
    BY <1>4, <1>5, <1>6, <2>2, <2>4
<1>10. CASE ~Fits(ip, views'[ip.r])
  <2>1. phase' = "undefined"
    BY <1>7, <1>10 DEF PerformSolve
  <2>2. SolverOK' /\ SolvingOK'
    BY <1>1, <1>2, <1>8, <2>1 DEF SolverOK, SolvingOK
  <2>3. views[ip.r].kind # "cppad"
    BY <1>1, <1>3, <1>10 DEF LoadedOK, Fits
  <2>4. views'[ip.r].kind = "asl"
    BY <1>1, <1>3, <2>3 DEF WellFormed
  <2>5. OnlyAslOutgrows'
    BY <1>2, <2>4 DEF OnlyAslOutgrows
  <2>6. QED
    BY <1>4, <1>5, <1>6, <2>2, <2>5
<1>11. QED
  BY <1>9, <1>10

(* While Ipopt works, it is at its own point and the view has a column for *)
(* each coordinate.                                                        *)
LEMMA AtIpoptsPointOK ==
    ASSUME IInv, phase = "solving"
    PROVE  LET n == AtIpoptsPoint
           IN  /\ ip # None /\ ip.r \in DOMAIN views
               /\ WellFormed(n) /\ Coherent(n) /\ Shape(n) = Shape(views[ip.r])
               /\ n.currx = ipx
<1>1. /\ ip # None /\ ip.r \in DOMAIN views /\ Fits(ip, views[ip.r])
      /\ ipx \in Seq(Num) /\ Len(ipx) = ip.n
      /\ asked => views[ip.r].currx = ipx
  BY PointsType DEF IInv, SolverOK, LoadedOK, SolvingOK
<1>2. WellFormed(views[ip.r]) /\ Coherent(views[ip.r]) /\ views[ip.r].used \in Seq(Var)
  BY <1>1 DEF IInv, ViewsOK, WellFormed
<1>3. DOMAIN ipx = DOMAIN views[ip.r].used
  BY <1>1, <1>2 DEF Fits
<1>4. CASE asked
  BY <1>1, <1>2, <1>4 DEF AtIpoptsPoint
<1>5. CASE ~asked
  BY <1>1, <1>2, <1>3, <1>5, PointSet DEF AtIpoptsPoint
<1>6. QED
  BY <1>4, <1>5 DEF IInv, SolverOK

LEMMA IterateKeepsInv ==
    ASSUME IInv, NEW x \in Points, Iterate(x)
    PROVE  IInv'
<1> USE DEF IInv
<1>1. ModelOK' /\ ViewsOK' /\ SolverOK' /\ LoadedOK' /\ OnlyAslOutgrows'
  BY DEF ModelOK, ViewsOK, SolverOK, LoadedOK, OnlyAslOutgrows, Fits, modelVars, solverVars,
         Iterate
<1>2. SolvingOK'
  <2>1. Now' = Now
    BY DEF Now, modelVars, Iterate
  <2>2. QED
    BY <2>1 DEF SolvingOK, Fits, Within, modelVars, solverVars, Iterate
<1>3. QED
  BY <1>1, <1>2

LEMMA CallbackKeepsInv ==
    ASSUME IInv, NEW q \in Queries, Callback(q)
    PROVE  IInv'
<1> USE DEF IInv
<1> DEFINE n == After(AtIpoptsPoint, q)
<1>1. phase = "solving"
  BY DEF Callback
<1>2. /\ ip # None /\ ip.r \in DOMAIN views /\ WellFormed(n) /\ Coherent(n)
      /\ Shape(n) = Shape(views[ip.r]) /\ n.currx = ipx
  BY <1>1, AtIpoptsPointOK, Computed
<1>3. views' = [views EXCEPT ![ip.r] = n]
  BY DEF Callback
<1> HIDE DEF n
<1>4. /\ n.kind = views[ip.r].kind /\ n.used = views[ip.r].used /\ n.jac = views[ip.r].jac
      /\ n.hes = views[ip.r].hes /\ n.at = views[ip.r].at
  BY <1>2 DEF Shape
<1>5. /\ views' \in Seq(ToSet(views')) /\ Len(views') = Len(views) /\ DOMAIN views' = DOMAIN views
      /\ views'[ip.r] = n /\ \A i \in DOMAIN views : i # ip.r => views'[i] = views[i]
  <2>1. views \in Seq(ToSet(views))
    BY DEF ViewsOK
  <2>2. ip.r \in DOMAIN views
    BY <1>2
  <2>3. \A m : \A r \in DOMAIN views :
          LET t == [views EXCEPT ![r] = m]
          IN  /\ t \in Seq(ToSet(t)) /\ Len(t) = Len(views) /\ DOMAIN t = DOMAIN views
              /\ t[r] = m /\ \A i \in DOMAIN views : i # r => t[i] = views[i]
    BY <2>1, ReplacedIn
  <2>4. QED
    BY <1>3, <2>2, <2>3
<1>6. UNCHANGED <<fixed, val, bounds, maximize, nlp, ip, initial, entry, phase, ipx>>
      /\ asked' = TRUE
  BY DEF Callback, modelVars, solverVars
<1>7. ModelOK' /\ SolverOK'
  BY <1>6 DEF ModelOK, SolverOK
<1>8. ViewsOK'
  <2>1. \A r \in DOMAIN views' : WellFormed(views'[r]) /\ Coherent(views'[r])
    BY <1>2, <1>5 DEF ViewsOK
  <2>2. QED
    BY <1>5, <1>6, <2>1 DEF ViewsOK, WellFormed, Coherent
<1>9. LoadedOK' /\ OnlyAslOutgrows'
  BY <1>1, <1>2, <1>4, <1>5, <1>6 DEF LoadedOK, OnlyAslOutgrows, Fits
<1>10. SolvingOK'
  <2>1. Now' = Now
    BY <1>6 DEF Now
  <2>2. QED
    BY <1>1, <1>2, <1>4, <1>5, <1>6, <2>1 DEF SolvingOK, Fits, Within
<1>11. QED
  BY <1>7, <1>8, <1>9, <1>10

(* What a successful solve stores: a value for each column.                *)
LEMMA SolutionStored ==
    ASSUME IInv, NEW success \in BOOLEAN, Finish(success)
    PROVE  LET used == views[ip.r].used
           IN  /\ used \in Seq(Var) /\ Len(ipx) = Len(used) /\ ipx \in Seq(Num)
               /\ \A a \in ToSet(used) : /\ Column(used, a) \in DOMAIN used
                                         /\ used[Column(used, a)] = a
               /\ \A a \in Atom : val'[a] = IF success /\ a \in ToSet(used)
                                            THEN ipx[Column(used, a)] ELSE val[a]
               /\ val' \in [Atom -> Num]
<1> DEFINE used == views[ip.r].used
<1>1. phase = "solving"
  BY DEF Finish
<1>2. /\ ip # None /\ ip.r \in DOMAIN views /\ Fits(ip, views[ip.r])
      /\ ipx \in Seq(Num) /\ Len(ipx) = ip.n
  BY <1>1, PointsType DEF IInv, SolverOK, LoadedOK, SolvingOK
<1>3. used \in Seq(Var) /\ Len(ipx) = Len(used)
  BY <1>2 DEF IInv, ViewsOK, WellFormed, Fits
<1>4. \A a \in ToSet(used) : Column(used, a) \in DOMAIN used /\ used[Column(used, a)] = a
  BY DEF ToSet, Column
<1>5. val \in [Atom -> Num]
  BY DEF IInv, ModelOK
<1>6. \A a \in ToSet(used) : ipx[Column(used, a)] \in Num
  BY <1>2, <1>3, <1>4
<1>7. val' = IF success THEN [a \in Atom |-> IF a \in ToSet(used) THEN ipx[Column(used, a)]
                                             ELSE val[a]]
             ELSE val
  BY DEF Finish
<1>8. \A a \in Atom : val'[a] = IF success /\ a \in ToSet(used)
                                THEN ipx[Column(used, a)] ELSE val[a]
  BY <1>7
<1>9. val' \in [Atom -> Num]
  BY <1>5, <1>6, <1>7
<1>10. QED
  BY <1>2, <1>3, <1>4, <1>8, <1>9

LEMMA FinishKeepsInv ==
    ASSUME IInv, NEW success \in BOOLEAN, Finish(success)
    PROVE  IInv'
<1> USE DEF IInv
<1>1. /\ UNCHANGED <<fixed, bounds, maximize, views, nlp, initial, ip>>
      /\ phase' = "client" /\ asked' = FALSE /\ entry' = None
  BY DEF Finish
<1>2. ModelOK'
  BY <1>1, SolutionStored DEF ModelOK
<1>3. ViewsOK' /\ LoadedOK'
  BY <1>1 DEF ViewsOK, LoadedOK, Fits
<1>4. SolverOK' /\ SolvingOK' /\ OnlyAslOutgrows'
  BY <1>1 DEF SolverOK, SolvingOK, OnlyAslOutgrows
<1>5. QED
  BY <1>2, <1>3, <1>4

LEMMA StepInv == IInv /\ [Next]_vars => IInv'
<1> SUFFICES ASSUME IInv, [Next]_vars PROVE IInv'
  OBVIOUS
<1>1. CASE \/ \E a \in Atom, c \in Num : SetValue(a, c)
           \/ \E v \in Var : SetFixed(v)
           \/ \E v \in Var, b \in Bounds : SetBounds(v, b)
  BY <1>1, ModelChangesKeepInv
<1>2. CASE \E kind \in Kinds, sparse \in BOOLEAN : InitializeView(kind, sparse)
  BY <1>2, InitializeKeepsInv
<1>3. CASE ResetView
  BY <1>3, ResetViewKeepsInv
<1>4. CASE \E x \in Points : SetVariableView(x)
  BY <1>4, SetVariableKeepsInv
<1>5. CASE \E q \in Queries : Compute(q)
  BY <1>5, ComputeKeepsInv
<1>6. CASE Load
  BY <1>6, LoadKeepsInv
<1>7. CASE SolverReset
  BY <1>7, SolverResetKeepsInv
<1>8. CASE Solve
  BY <1>8, SolveKeepsInv
<1>9. CASE Resolve
  BY <1>9, ResolveKeepsInv
<1>10. CASE \E x \in Points : Iterate(x)
  BY <1>10, IterateKeepsInv
<1>11. CASE \E q \in Queries : Callback(q)
  BY <1>11, CallbackKeepsInv
<1>12. CASE \E success \in BOOLEAN : Finish(success)
  BY <1>12, FinishKeepsInv
<1>13. CASE UNCHANGED vars
  BY <1>13 DEF IInv, ModelOK, ViewsOK, SolverOK, LoadedOK, SolvingOK, OnlyAslOutgrows, Fits,
               Within, Now, WellFormed, Coherent, vars, modelVars, solverVars, ipoptVars
<1>14. QED
  BY <1>1, <1>2, <1>3, <1>4, <1>5, <1>6, <1>7, <1>8, <1>9, <1>10, <1>11, <1>12, <1>13 DEF Next

LEMMA Invariance == Spec => []IInv
BY InitInv, StepInv, PTL DEF Spec

-----------------------------------------------------------------------------
(* What follows from the invariant.                                        *)

(* Views, solver and Ipopt's state have their types, however the client    *)
(* and Ipopt take turns.                                                   *)
THEOREM TypeCorrect == Spec => []TypeOK
<1>1. IInv => TypeOK
  <2> SUFFICES ASSUME IInv PROVE TypeOK
    OBVIOUS
  <2>1. \A r \in DOMAIN views : DOMAIN views[r].currx = DOMAIN views[r].used
    BY DEF IInv, ViewsOK, WellFormed
  <2>2. QED
    BY <2>1 DEF IInv, ModelOK, ViewsOK, SolverOK, SolvingOK, TypeOK
<1>2. QED
  BY <1>1, Invariance, PTL

(* However many changes, loads and resets there were, only an ASL view can *)
(* be larger when it is solved than Ipopt's arrays (ipopt_capi.cpp:474).   *)
THEOREM ArraysFit == Spec => []OnlyAslOutgrows
<1>1. IInv => OnlyAslOutgrows
  BY DEF IInv
<1>2. QED
  BY <1>1, Invariance, PTL

(* A resolve() that is not the first works on present values, unless the   *)
(* NLPModel was initialized again since it was loaded (ipopt_solver.cpp:29) *)
THEOREM ResolveIsCurrent == Spec => []ResolveSeesPresent
<1>1. IInv => ResolveSeesPresent
  BY DEF IInv, SolvingOK, ResolveSeesPresent, Now
<1>2. QED
  BY <1>1, Invariance, PTL

(* A solve changes no parameter and no variable that was and is fixed      *)
(* (ipopt_capi.cpp:389-392).                                               *)
THEOREM FixedAreKept == Spec => FixedStay
<1> DEFINE Kept == phase = "solving" =>
              \A a \in Param \cup (fixed \cap views[ip.r].since) : val'[a] = val[a]
<1>1. IInv /\ [Next]_vars => [Kept]_vars
  <2> SUFFICES ASSUME IInv, Next, phase = "solving",
                      NEW a \in Param \cup (fixed \cap views[ip.r].since)
               PROVE  val'[a] = val[a]
    BY DEF vars
  <2>1. ASSUME NEW success \in BOOLEAN, Finish(success)
        PROVE  val'[a] = val[a]
    <3>1. a \in Atom
      BY DEF Atom, IInv, ModelOK
    <3>2. ip.r \in DOMAIN views
      BY DEF IInv, SolverOK, LoadedOK
    <3>3. ToSet(views[ip.r].used) \cap views[ip.r].since = {}
      BY <3>2 DEF IInv, ViewsOK, WellFormed
    <3>4. views[ip.r].used \in Seq(Var)
      BY <2>1, SolutionStored
    <3>5. ToSet(views[ip.r].used) \subseteq Var
      BY <3>4 DEF ToSet
    <3>6. a \notin ToSet(views[ip.r].used)
      BY <3>3, <3>5, ViewAtomsApart
    <3>7. QED
      BY <2>1, <3>1, <3>6, SolutionStored
  <2>2. CASE \/ \E x \in Points : Iterate(x)
             \/ \E q \in Queries : Callback(q)
    BY <2>2 DEF Iterate, Callback, modelVars
  <2>3. QED
    BY <2>1, <2>2 DEF Next, SetValue, SetFixed, SetBounds, Change, InitializeView, ResetView,
                      SetVariableView, Compute, Load, SolverReset, Solve, Resolve
<1>2. QED
  BY <1>1, Invariance, PTL DEF Spec, FixedStay

(* What a solve() changes in the model is within the bounds that the model *)
(* has now (ipopt_capi.cpp:175-186, 484-490).                              *)
THEOREM SolveStaysInBounds == Spec => SolutionsInBounds
<1> DEFINE InBounds == entry = "solve" /\ phase = "solving" =>
              \A v \in ToSet(views[ip.r].used) :
                  val'[v] # val[v] => bounds[v].lo <= val'[v] /\ val'[v] <= bounds[v].hi
<1>1. IInv /\ [Next]_vars => [InBounds]_vars
  <2> SUFFICES ASSUME IInv, Next, entry = "solve", phase = "solving",
                      NEW v \in ToSet(views[ip.r].used), val'[v] # val[v]
               PROVE  bounds[v].lo <= val'[v] /\ val'[v] <= bounds[v].hi
    BY DEF vars
  <2>1. PICK success \in BOOLEAN : Finish(success)
    BY DEF Next, SetValue, SetFixed, SetBounds, Change, InitializeView, ResetView,
           SetVariableView, Compute, Load, SolverReset, Solve, Resolve, Iterate, Callback,
           modelVars
  <2> DEFINE used == views[ip.r].used
             j == Column(used, v)
  <2>2. used \in Seq(Var) /\ Len(ipx) = Len(used) /\ j \in DOMAIN used /\ used[j] = v
        /\ ipx \in Seq(Num)
    BY <2>1, SolutionStored
  <2>3. v \in Atom
    BY <2>2 DEF Atom
  <2>4. val'[v] = ipx[j]
    BY <2>1, <2>3, SolutionStored
  <2>5. Within(ipx, ip.bounds) /\ ip.bounds = [i \in DOMAIN used |-> bounds[used[i]]]
    BY DEF IInv, SolvingOK
  <2>6. ip.bounds[j] = bounds[v] /\ j \in DOMAIN ipx
    BY <2>2, <2>5
  <2>7. QED
    BY <2>4, <2>5, <2>6 DEF Within
<1>2. QED
  BY <1>1, Invariance, PTL DEF Spec, SolutionsInBounds

(* Whatever the client did before, whatever it asks: the answer is that of *)
(* the recorded functions at the point it set last.  No cached value and   *)
(* no sweep of another point is used (cppad_repn.cpp:80-225,               *)
(* asl_repn.cpp:110-220).                                                  *)
ClientAnswersCoherent ==
    phase = "client" /\ nlp # 0
    => /\ views[nlp].tape = Tape(views[nlp].used, views[nlp].at)
       /\ \A q \in Queries, w \in Weights :
            Answer(After(views[nlp], q), q, w) = OfTape(views[nlp], q, views[nlp].currx, w)

THEOREM ClientNeverSeesStale == Spec => []ClientAnswersCoherent
<1>1. IInv => ClientAnswersCoherent
  <2> SUFFICES ASSUME IInv, nlp # 0 PROVE ClientAnswersCoherent
    BY DEF ClientAnswersCoherent
  <2>1. WellFormed(views[nlp]) /\ Coherent(views[nlp])
    BY DEF IInv, ViewsOK
  <2>2. QED
    BY <2>1, CoherentAnswer DEF ClientAnswersCoherent, WellFormed
<1>2. QED
  BY <1>1, Invariance, PTL

(* The same of what Ipopt asks, at Ipopt's own point, whether or not it    *)
(* asked there before (ipopt_capi.cpp:216-355).                            *)
CallbacksCoherent ==
    phase = "solving"
    => /\ views[ip.r].tape = Tape(views[ip.r].used, views[ip.r].at)
       /\ \A q \in Queries, w \in Weights :
            Answer(After(AtIpoptsPoint, q), q, w) = OfTape(views[ip.r], q, ipx, w)

THEOREM IpoptNeverSeesStale == Spec => []CallbacksCoherent
<1>1. IInv => CallbacksCoherent
  <2>0. ASSUME IInv, phase = "solving"
        PROVE  views[ip.r].tape = Tape(views[ip.r].used, views[ip.r].at)
    BY <2>0, AtIpoptsPointOK DEF IInv, ViewsOK, WellFormed
  <2> SUFFICES ASSUME IInv, phase = "solving",
                      NEW q \in Queries, NEW w \in Weights
               PROVE  Answer(After(AtIpoptsPoint, q), q, w) = OfTape(views[ip.r], q, ipx, w)
    BY <2>0 DEF CallbacksCoherent
  <2> DEFINE n == AtIpoptsPoint
  <2>1. WellFormed(n) /\ Coherent(n) /\ Shape(n) = Shape(views[ip.r]) /\ n.currx = ipx
    BY AtIpoptsPointOK
  <2>2. Answer(After(n, q), q, w) = OfTape(n, q, ipx, w)
    BY <2>1, CoherentAnswer
  <2>3. n.tape = views[ip.r].tape /\ n.jac = views[ip.r].jac /\ n.hes = views[ip.r].hes
    BY <2>1 DEF Shape
  <2>4. OfTape(n, q, ipx, w) = OfTape(views[ip.r], q, ipx, w)
    BY <2>3 DEF OfTape
  <2>5. QED
    BY <2>2, <2>4
<1>2. QED
  BY <1>1, Invariance, PTL

(* Whatever the client did before and whatever it asks, the answer is the  *)
(* value or derivative of the model's own expressions at the point it set  *)
(* last, for the parameters and fixed variables of the last initialize()   *)
(* or reset(); for every polynomial model, as long as the columns and      *)
(* entries chosen then still suffice (cppad_repn.cpp:80-225,               *)
(* asl_repn.cpp:110-220).                                                  *)
THEOREM AnswersAreExact == Spec => []ClientAnswersExact
<1>1. IInv => ClientAnswersExact
  <2> SUFFICES ASSUME IInv, nlp # 0, StructureHolds(views[nlp]),
                      NEW q \in Queries, NEW w \in Weights
               PROVE  ExactAnswer(views[nlp], q, views[nlp].currx, w)
    BY DEF ClientAnswersExact
  <2> DEFINE n == views[nlp]
             want == Promised(q, n.used, n.currx, n.at, w)
  <2>1. WellFormed(n) /\ Coherent(n)
    BY DEF IInv, ViewsOK
  <2>2. n.currx \in [DOMAIN n.used -> Num]
    BY <2>1 DEF WellFormed
  <2>3. Answer(After(n, q), q, w) = OfTape(n, q, n.currx, w)
    BY <2>1, CoherentAnswer
  <2>4. Fill(q, OfTape(n, q, n.currx, w), want) = want
    BY <2>1, <2>2, TapeAnswers
  <2>5. QED
    BY <2>3, <2>4 DEF ExactAnswer
<1>2. QED
  BY <1>1, Invariance, PTL

(* The same of what Ipopt is told at its own point, with the objective and *)
(* its gradient negated for a maximum; but not of Hessians then, which     *)
(* eval_h() does not give the sign (ipopt_capi.cpp:216-355).               *)
THEOREM CallbacksAreExact == Spec => []CallbacksExact
<1>1. IInv => CallbacksExact
  <2> SUFFICES ASSUME IInv, phase = "solving", StructureHolds(views[ip.r]),
                      NEW q \in Queries, NEW w \in Weights, ~(q = "H" /\ maximize)
               PROVE  ExactCallback(q, w)
    BY DEF CallbacksExact
  <2> DEFINE n == AtIpoptsPoint
             got == Answer(After(n, q), q, w)
             plain == Promised(q, n.used, ipx, n.at, w)
             want == Minimized(q, plain)
  <2>1. /\ WellFormed(n) /\ Coherent(n) /\ Shape(n) = Shape(views[ip.r]) /\ n.currx = ipx
        /\ ip # None
    BY AtIpoptsPointOK
  <2>2. ip.sign = (IF maximize THEN -1 ELSE 1) /\ maximize \in BOOLEAN
    BY <2>1 DEF IInv, LoadedOK, ModelOK
  <2>3. StructureHolds(n)
    BY <2>1 DEF Shape, StructureHolds
  <2>4. ipx \in [DOMAIN n.used -> Num]
    BY <2>1 DEF WellFormed
  <2>5. got = OfTape(n, q, ipx, w)
    BY <2>1, CoherentAnswer
  <2>6. /\ Fill(q, got, plain) = plain
        /\ q \notin {"H", "J"} => got = plain
        /\ q = "f" => plain \in Int
        /\ q = "df" => plain \in [DOMAIN n.used -> Int]
    BY <2>1, <2>3, <2>4, <2>5, TapeAnswers
  <2> HIDE DEF n, got, plain
  <2>7. Fill(q, Signed(q, got), want) = want
    <3>1. CASE q = "f"
      BY <2>2, <2>6, <3>1 DEF Signed, Minimized, Fill
    <3>2. CASE q = "df"
      <4>1. Signed(q, got) = [j \in DOMAIN plain |-> ip.sign * plain[j]]
        BY <2>6, <3>2 DEF Signed
      <4>2. want = IF maximize THEN [j \in DOMAIN plain |-> -plain[j]] ELSE plain
        BY <3>2 DEF Minimized
      <4>3. \A j \in DOMAIN plain : plain[j] \in Int
        BY <2>6, <3>2
      <4>4. Signed(q, got) = want
        <5>1. CASE maximize
          <6>1. \A j \in DOMAIN plain : ip.sign * plain[j] = -plain[j]
            BY <2>2, <4>3, <5>1
          <6>2. QED
            BY <4>1, <4>2, <5>1, <6>1
        <5>2. CASE ~maximize
          <6>1. \A j \in DOMAIN plain : ip.sign * plain[j] = plain[j]
            BY <2>2, <4>3, <5>2
          <6>2. plain = [j \in DOMAIN plain |-> plain[j]]
            BY <2>6, <3>2
          <6>3. QED
            BY <4>1, <4>2, <5>2, <6>1, <6>2
        <5>3. QED
          BY <5>1, <5>2
      <4>5. QED
        BY <3>2, <4>4 DEF Fill
    <3>3. CASE q \notin {"f", "df"}
      <4>1. Signed(q, got) = got /\ want = plain
        BY <3>3 DEF Signed, Minimized
      <4>2. QED
        BY <2>6, <4>1
    <3>4. QED
      BY <3>1, <3>2, <3>3
  <2>8. QED
    BY <2>7 DEF ExactCallback, n, got, plain
<1>2. QED
  BY <1>1, Invariance, PTL
=============================================================================
