------------------------- MODULE GurobiSolver_proof -------------------------
(***************************************************************************)
(* Proofs about GurobiSolver: its types, and that it implements Optimizer  *)
(* when values are compared exactly (Tol = 0), for every family of models. *)
(***************************************************************************)
EXTENDS GurobiSolver, Finite_proof

-----------------------------------------------------------------------------
(* What load() builds has the type of repn.                                *)

(* A term is collected as one of the four kinds.                           *)
LEMMA KindOfType ==
    ASSUME NEW t \in Term, NEW F
    PROVE  KindOf(t, F) \in Kind
<1> DEFINE I == {i \in 1..Len(t.vars) : t.vars[i] \notin F}
<1>1. Len(t.vars) \in Nat
  BY LenProperties DEF Term
<1>2. IsFiniteSet(1..Len(t.vars))
  BY <1>1, FS_Interval
<1>3. IsFiniteSet(I)
  BY <1>2, FS_Subset
<1>4. Degree(t, F) \in Nat
  BY <1>3, FS_CardinalityType DEF Degree
<1>5. QED
  BY <1>4 DEF KindOf, Kind, Constant, Linear, Quadratic, Nonlinear

(* A collected term is an entry, whatever is fixed when it is collected.   *)
LEMMA EntryOfType ==
    ASSUME NEW t \in Term, NEW F \in SUBSET Var
    PROVE  EntryOf(t, F) \in Entry
<1>1. KindOf(t, F) \in Kind
  BY KindOfType
<1>2. t.vars \in Seq(Var) /\ t.coef \in SUBSET Atom
  BY DEF Term, Atom
<1>3. VarsOf(t) \cap F \in SUBSET Atom
  BY DEF Atom
<1>4. QED
  BY <1>1, <1>2, <1>3 DEF EntryOf, Entry

(* collect_terms() turns a representation and terms into a representation. *)
LEMMA CollectTermsType ==
    ASSUME NEW old \in Seq(Entry), NEW terms \in Seq(Term), NEW F \in SUBSET Var
    PROVE  CollectTerms(old, terms, F) \in Seq(Entry)
<1> DEFINE new == [i \in 1..Len(terms) |-> EntryOf(terms[i], F)]
<1>1. Len(terms) \in Nat /\ \A i \in 1..Len(terms) : terms[i] \in Term
  BY LenProperties, ElementOfSeq
<1>2. \A i \in 1..Len(terms) : EntryOf(terms[i], F) \in Entry
  BY <1>1, EntryOfType
<1>3. new \in Seq(Entry)
  BY <1>1, <1>2, IsASeq
<1>4. QED
  BY <1>3, ConcatProperties DEF CollectTerms

(* load() keeps the type of the representation.                            *)
LEMMA LoadedRepnType ==
    ASSUME repn \in Seq(Seq(Entry)),
           fixed \in SUBSET Var, NEW m \in Models, LoadRepn(m)
    PROVE  repn' \in Seq(Seq(Entry))
<1> DEFINE n == Len(Exprs[m])
<1>1. Exprs[m] \in Seq(Seq(Term))
  BY ExprsType
<1>2. n \in Nat /\ \A j \in 1..n : Exprs[m][j] \in Seq(Term)
  BY <1>1, LenProperties, ElementOfSeq
<1>3. \A j \in 1..n : OldRepn(j) \in Seq(Entry)
  <2> SUFFICES ASSUME NEW j \in 1..n
               PROVE  OldRepn(j) \in Seq(Entry)
    OBVIOUS
  <2>1. repn \in Seq(Seq(Entry)) /\ Len(repn) \in Nat
    BY LenProperties
  <2>2. CASE j <= Len(repn)
    <3>1. j \in 1..Len(repn)
      BY <1>2, <2>1, <2>2
    <3>2. QED
      BY <2>1, <2>2, <3>1, ElementOfSeq DEF OldRepn
  <2>3. CASE ~(j <= Len(repn))
    BY <2>3, EmptySeq DEF OldRepn
  <2>4. QED
    BY <2>2, <2>3
<1>4. fixed \in SUBSET Var
  OBVIOUS
<1>5. \A j \in 1..n : CollectTerms(OldRepn(j), Exprs[m][j], fixed) \in Seq(Entry)
  BY <1>2, <1>3, <1>4, CollectTermsType
<1>6. repn' = [j \in 1..n |-> CollectTerms(OldRepn(j), Exprs[m][j], fixed)]
  BY DEF LoadRepn
<1>7. QED
  BY <1>2, <1>5, <1>6, IsASeq

-----------------------------------------------------------------------------
(* Terms: the coefficient and the free variables are all of it.            *)

(* Optimizer has the sums and products of Sums.                            *)
LEMMA SameSums ==
    ASSUME NEW f, NEW S
    PROVE  Opt!SumOver(f, S) = SumOver(f, S) /\ Opt!ProductOver(f, S) = ProductOver(f, S)
BY DEF Opt!SumOver, SumOver, Opt!ProductOver, ProductOver, Opt!FoldOver, FoldOver,
       Opt!Combine, Combine, Opt!Neutral, Neutral

Values(v, A) == \A a \in A : v[a] \in Int

(* What can be said of a term.                                             *)
LEMMA TermFacts ==
    ASSUME NEW t \in Term
    PROVE  /\ t.coef \in SUBSET Param /\ IsFiniteSet(t.coef)
           /\ Len(t.vars) \in Nat /\ IsFiniteSet(1..Len(t.vars))
           /\ \A i \in 1..Len(t.vars) : t.vars[i] \in Var
<1>1. t.coef \in SUBSET Param /\ t.vars \in Seq(Var)
  BY DEF Term
<1>2. Len(t.vars) \in Nat /\ \A i \in 1..Len(t.vars) : t.vars[i] \in Var
  BY <1>1, LenProperties, ElementOfSeq
<1>3. IsFiniteSet(t.coef)
  BY <1>1, FinitelyMany, FS_Subset
<1>4. IsFiniteSet(1..Len(t.vars))
  BY <1>2, FS_Interval
<1>5. QED
  BY <1>1, <1>2, <1>3, <1>4

(* Finitely many variables have finitely many monomials.                   *)
LEMMA MonomialsFinite == IsFiniteSet(Monomial)
<1> DEFINE Singles == {<<y>> : y \in Var}
           Pairs == {<<y, z>> : y, z \in Var}
<1>1. IsFiniteSet(Var)
  BY FinitelyMany
<1>2. IsFiniteSet(Singles)
  <2> DEFINE f == [y \in Var |-> <<y>>]
  <2>1. f \in Surjection(Var, Singles)
    BY DEF Surjection
  <2> HIDE DEF f, Singles
  <2>2. QED
    BY <1>1, <2>1, FS_Surjection
<1>3. IsFiniteSet(Pairs)
  <2>1. IsFiniteSet(Var \X Var)
    BY <1>1, FS_Product
  <2>2. Pairs = Var \X Var
    OBVIOUS
  <2>3. QED
    BY <2>1, <2>2
<1>4. IsFiniteSet({<<>>})
  BY FS_Singleton
<1>5. Monomial = ({<<>>} \cup Singles) \cup Pairs
  BY DEF Monomial
<1> HIDE DEF Singles, Pairs
<1>6. QED
  BY <1>2, <1>3, <1>4, <1>5, FS_Union

(* The free variables of a term are a monomial unless it is nonlinear.     *)
LEMMA FreeVarsFacts ==
    ASSUME NEW t \in Term, NEW F
    PROVE  /\ IsFiniteSet(FreePlaces(t, F)) /\ FreePlaces(t, F) \in SUBSET Nat
           /\ Degree(t, F) = Cardinality(FreePlaces(t, F)) /\ Degree(t, F) \in Nat
           /\ FreeVars(t, F) \in Seq(Var \ F) /\ Len(FreeVars(t, F)) = Degree(t, F)
           /\ Degree(t, F) = 0 <=> FreeVars(t, F) = <<>>
           /\ Degree(t, F) = 1 => \E y \in Var \ F : FreeVars(t, F) = <<y>>
           /\ Degree(t, F) = 2 => \E y, z \in Var \ F : FreeVars(t, F) = <<y, z>>
<1> DEFINE P == FreePlaces(t, F)
           d == Degree(t, F)
           s == FreeVars(t, F)
<1>1. /\ IsFiniteSet(1..Len(t.vars)) /\ Len(t.vars) \in Nat
      /\ \A i \in 1..Len(t.vars) : t.vars[i] \in Var
  BY TermFacts
<1>2. P \in SUBSET (1..Len(t.vars)) /\ \A i \in P : t.vars[i] \in Var \ F
  BY <1>1 DEF FreePlaces
<1>3. IsFiniteSet(P)
  BY <1>1, <1>2, FS_Subset
<1>4. P \in SUBSET Nat
  BY <1>1, <1>2
<1>5. d = Cardinality(P)
  BY DEF Degree, FreePlaces
<1>6. d \in Nat /\ \A n \in 1..d : Nth(P, n) \in P
  BY <1>3, <1>4, <1>5, NthMembers
<1>7. s = [n \in 1..d |-> t.vars[Nth(P, n)]]
  BY DEF FreeVars
<1> HIDE DEF P, d, s
<1>8. \A n \in 1..d : t.vars[Nth(P, n)] \in Var \ F
  BY <1>2, <1>6
<1>9. s \in Seq(Var \ F) /\ Len(s) = d
  BY <1>6, <1>7, <1>8, IsASeq
<1>10. d = 0 <=> s = <<>>
  BY <1>9, EmptySeq
<1>11. \A n \in 1..d : s[n] \in Var \ F
  BY <1>7, <1>8
<1>12. d = 1 => s = <<s[1]>> /\ s[1] \in Var \ F
  BY <1>9, <1>11
<1>13. d = 2 => s = <<s[1], s[2]>> /\ s[1] \in Var \ F /\ s[2] \in Var \ F
  BY <1>9, <1>11
<1>14. QED
  BY <1>3, <1>4, <1>5, <1>6, <1>9, <1>10, <1>12, <1>13 DEF P, d, s

(* A coefficient is a number, a function of what is not free.              *)
LEMMA FactorFacts ==
    ASSUME NEW t \in Term, NEW F, NEW v, Values(v, Param \cup F)
    PROVE  /\ FactorValue(t, v, F) \in Int
           /\ Numbers(v, t.coef)
           /\ Numbers([i \in 1..Len(t.vars) |-> IF t.vars[i] \in F THEN v[t.vars[i]] ELSE 1],
                      1..Len(t.vars))
<1> DEFINE g == [i \in 1..Len(t.vars) |-> IF t.vars[i] \in F THEN v[t.vars[i]] ELSE 1]
<1>1. Numbers(v, t.coef)
  BY TermFacts DEF Numbers, Values
<1>2. Numbers(g, 1..Len(t.vars))
  BY TermFacts DEF Numbers, Values
<1>3. FoldOver("*", v, t.coef) \in Int
  BY <1>1, FoldType
<1>4. FoldOver("*", g, 1..Len(t.vars)) \in Int
  <2> HIDE DEF g
  <2>1. QED
    BY <1>2, FoldType
<1>5. FactorValue(t, v, F) = FoldOver("*", v, t.coef) * FoldOver("*", g, 1..Len(t.vars))
  BY DEF FactorValue, ProductOver
<1> HIDE DEF g
<1>6. FactorValue(t, v, F) \in Int
  BY <1>3, <1>4, <1>5
<1>7. QED
  BY <1>1, <1>2, <1>6 DEF g

(* Values that agree on what is not free give the same coefficient.        *)
LEMMA FactorSame ==
    ASSUME NEW t \in Term, NEW F, NEW v, Values(v, Param \cup F), NEW w,
           \A a \in t.coef \cup (VarsOf(t) \cap F) : w[a] = v[a]
    PROVE  FactorValue(t, w, F) = FactorValue(t, v, F)
<1> DEFINE g == [i \in 1..Len(t.vars) |-> IF t.vars[i] \in F THEN v[t.vars[i]] ELSE 1]
           h == [i \in 1..Len(t.vars) |-> IF t.vars[i] \in F THEN w[t.vars[i]] ELSE 1]
<1>1. Numbers(v, t.coef)
  BY FactorFacts
<1>2. FoldOver("*", w, t.coef) = FoldOver("*", v, t.coef)
  BY <1>1, FoldSame
<1>3. h = g
  BY DEF VarsOf
<1>4. FactorValue(t, v, F) = FoldOver("*", v, t.coef) * FoldOver("*", g, 1..Len(t.vars))
  BY DEF FactorValue, ProductOver
<1>5. FactorValue(t, w, F) = FoldOver("*", w, t.coef) * FoldOver("*", h, 1..Len(t.vars))
  BY DEF FactorValue, ProductOver
<1> HIDE DEF g, h
<1>6. QED
  BY <1>2, <1>3, <1>4, <1>5

(* A monomial in variables that have numbers has one.                      *)
LEMMA MonomialType ==
    ASSUME NEW X, NEW n \in Seq(X), NEW u, Values(u, X)
    PROVE  MonomialValue(n, u) \in Int
<1> DEFINE f == [i \in 1..Len(n) |-> u[n[i]]]
<1>1. Len(n) \in Nat /\ \A i \in 1..Len(n) : n[i] \in X
  BY LenProperties, ElementOfSeq
<1>2. Numbers(f, 1..Len(n))
  <2>1. IsFiniteSet(1..Len(n))
    BY <1>1, FS_Interval
  <2>2. \A i \in 1..Len(n) : f[i] \in Int
    BY <1>1 DEF Values
  <2>3. QED
    BY <2>1, <2>2 DEF Numbers
<1> HIDE DEF f
<1>3. FoldOver("*", f, 1..Len(n)) \in Int
  BY <1>2, FoldType
<1>4. QED
  BY <1>3 DEF MonomialValue, ProductOver, f

LEMMA NoVariables ==
    ASSUME NEW u
    PROVE  MonomialValue(<<>>, u) = 1
<1> DEFINE f == [i \in 1..Len(<<>>) |-> u[<<>>[i]]]
<1>1. 1..Len(<<>>) = {}
  OBVIOUS
<1>2. FoldOver("*", f, {}) = Neutral("*")
  <2> HIDE DEF f
  <2>1. QED
    BY FoldEmpty
<1>3. QED
  BY <1>1, <1>2 DEF MonomialValue, ProductOver, Neutral

(* The value of a term, as the collected coefficient of its monomial.      *)
LEMMA TermSplits ==
    ASSUME NEW t \in Term, NEW F, NEW v, Values(v, Param \cup F),
           NEW u, Values(u, Var \ F),
           NEW w, \A a \in Param \cup F : w[a] = v[a], \A y \in Var \ F : w[y] = u[y]
    PROVE  Opt!TermValue(t, w) = FactorValue(t, v, F) * MonomialValue(FreeVars(t, F), u)
<1> DEFINE I == 1..Len(t.vars)
           P == FreePlaces(t, F)
           d == Degree(t, F)
           all == [i \in I |-> w[t.vars[i]]]
           held == [i \in I |-> IF t.vars[i] \in F THEN v[t.vars[i]] ELSE 1]
           free == [i \in I |-> IF t.vars[i] \in F THEN 1 ELSE u[t.vars[i]]]
           s == FreeVars(t, F)
           g == [n \in 1..Len(s) |-> u[s[n]]]
<1>1. Numbers(v, t.coef) /\ Numbers(held, I)
  BY FactorFacts
<1>2. \A i \in I : t.vars[i] \in Var
  BY TermFacts
<1>3. IsFiniteSet(I) /\ Len(t.vars) \in Nat
  BY TermFacts
<1>4. Numbers(free, I)
  BY <1>2, <1>3 DEF Numbers, Values
<1>5. FoldOver("*", w, t.coef) = FoldOver("*", v, t.coef)
  <2>1. \A a \in t.coef : w[a] = v[a]
    BY TermFacts
  <2>2. QED
    BY <1>1, <2>1, FoldSame
<1>6. \A i \in I : all[i] = Combine("*", held[i], free[i])
  <2> SUFFICES ASSUME NEW i \in I PROVE all[i] = Combine("*", held[i], free[i])
    OBVIOUS
  <2>1. held[i] \in Int /\ free[i] \in Int
    BY <1>1, <1>4 DEF Numbers
  <2>2. CASE t.vars[i] \in F
    <3>1. all[i] = held[i] /\ free[i] = 1
      BY <2>2
    <3> HIDE DEF all, held, free
    <3>2. QED
      BY <2>1, <3>1 DEF Combine
  <2>3. CASE t.vars[i] \notin F
    <3>1. all[i] = free[i] /\ held[i] = 1
      BY <1>2, <2>3
    <3> HIDE DEF all, held, free
    <3>2. QED
      BY <2>1, <3>1 DEF Combine
  <2>4. QED
    BY <2>2, <2>3
<1>7. P \in SUBSET I /\ \A i \in I \ P : free[i] = Neutral("*")
  BY DEF FreePlaces, Neutral
<1>8. /\ d \in Nat /\ d = Cardinality(P) /\ IsFiniteSet(P) /\ P \in SUBSET Nat
      /\ Len(s) = d
  BY FreeVarsFacts
<1>9. \A n \in 1..d : g[n] = free[Nth(P, n)] /\ Nth(P, n) \in P
  <2> SUFFICES ASSUME NEW n \in 1..d PROVE g[n] = free[Nth(P, n)] /\ Nth(P, n) \in P
    OBVIOUS
  <2>1. Nth(P, n) \in P
    BY <1>8, NthMembers
  <2>2. t.vars[Nth(P, n)] \notin F /\ Nth(P, n) \in I
    BY <2>1 DEF FreePlaces
  <2>3. s[n] = t.vars[Nth(P, n)]
    BY DEF FreeVars
  <2>4. g[n] = u[s[n]]
    BY <1>8
  <2>5. free[Nth(P, n)] = u[t.vars[Nth(P, n)]]
    BY <2>2
  <2>6. QED
    BY <2>1, <2>3, <2>4, <2>5
<1> HIDE DEF all, held, free, P, d, g, I
<1>10. FoldOver("*", all, I) = Combine("*", FoldOver("*", held, I), FoldOver("*", free, I))
  BY <1>1, <1>4, <1>6, FoldCombined
<1>11. FoldOver("*", free, I) = FoldOver("*", free, P)
  BY <1>4, <1>7, FoldOfSubset
<1>12. FoldOver("*", g, 1..d) = FoldOver("*", free, P)
  <2> DEFINE h == [n \in 1..d |-> Nth(P, n)]
  <2>1. Numbers(free, P)
    BY <1>4, <1>7, <1>8 DEF Numbers
  <2>7. \A n \in 1..d : h[n] \in P /\ g[n] = free[h[n]]
    BY <1>9
  <2>2. \A m, n \in 1..d : h[m] = h[n] => m = n
    <3>1. \A m, n \in 1..Cardinality(P) : Nth(P, m) = Nth(P, n) => m = n
      BY <1>8, NthMembers
    <3>2. QED
      BY <1>8, <3>1
  <2>3. \A k \in P : \E n \in 1..d : h[n] = k
    <3>1. \A k \in P : \E n \in 1..d : Nth(P, n) = k
      BY <1>8, NthMembers
    <3>2. QED
      BY <3>1
  <2>4. IsFiniteSet(1..d)
    BY <1>8, FS_Interval
  <2> DEFINE K == 1..d
  <2> HIDE DEF h, K
  <2>5. IsFiniteSet(K) /\ \A n \in K : h[n] \in P /\ g[n] = free[h[n]]
    BY <2>4, <2>7 DEF K
  <2>8. (\A m, n \in K : h[m] = h[n] => m = n) /\ \A k \in P : \E n \in K : h[n] = k
    BY <2>2, <2>3 DEF K
  <2>9. FoldOver("*", g, K) = FoldOver("*", free, P)
    BY <2>1, <2>5, <2>8, FoldRenamed
  <2>10. QED
    BY <2>9 DEF K
<1>13. MonomialValue(s, u) = FoldOver("*", g, 1..d)
  BY <1>8 DEF MonomialValue, ProductOver, g
<1>14. FactorValue(t, v, F) = FoldOver("*", v, t.coef) * FoldOver("*", held, I)
  BY DEF FactorValue, ProductOver, held, I
<1>15. Opt!TermValue(t, w) = FoldOver("*", w, t.coef) * FoldOver("*", all, I)
  BY SameSums DEF Opt!TermValue, ProductOver, all, I
<1>16. /\ FoldOver("*", v, t.coef) \in Int /\ FoldOver("*", held, I) \in Int
       /\ FoldOver("*", free, I) \in Int
  BY <1>1, <1>4, FoldType
<1> DEFINE a == FoldOver("*", v, t.coef)
           b == FoldOver("*", held, I)
           c == FoldOver("*", free, I)
<1>17. Opt!TermValue(t, w) = a * (b * c)
  BY <1>5, <1>10, <1>15 DEF Combine
<1>18. MonomialValue(s, u) = c
  BY <1>11, <1>12, <1>13
<1>19. FactorValue(t, v, F) = a * b
  BY <1>14
<1>20. a \in Int /\ b \in Int /\ c \in Int
  BY <1>16
<1> HIDE DEF a, b, c
<1>21. a * (b * c) = (a * b) * c
  BY <1>20
<1>22. QED
  BY <1>17, <1>18, <1>19, <1>21

-----------------------------------------------------------------------------
(* Expressions: the collected quadratic function is the expression.        *)

(* A term that is not nonlinear has a monomial, and no other term has.     *)
LEMMA QuadraticTerms ==
    ASSUME NEW e \in Seq(Term), NEW F
    PROVE  /\ Len(e) \in Nat /\ IsFiniteSet(1..Len(e))
           /\ \A i \in 1..Len(e) : /\ e[i] \in Term
                                   /\ KindOf(e[i], F) # Nonlinear => FreeVars(e[i], F) \in Monomial
                                   /\ FreeVars(e[i], F) \in Monomial => Degree(e[i], F) \in 0..2
<1>1. Len(e) \in Nat /\ \A i \in 1..Len(e) : e[i] \in Term
  BY LenProperties, ElementOfSeq
<1>2. IsFiniteSet(1..Len(e))
  BY <1>1, FS_Interval
<1>3. ASSUME NEW i \in 1..Len(e), KindOf(e[i], F) # Nonlinear
      PROVE  FreeVars(e[i], F) \in Monomial
  <2>1. e[i] \in Term /\ e[i].fn \in BOOLEAN
    BY <1>1 DEF Term
  <2>2. Degree(e[i], F) \in Nat
    BY <2>1, FreeVarsFacts
  <2>3. ~(Degree(e[i], F) > 2)
    BY <1>3, <2>1, <2>2 DEF KindOf
  <2>4. Degree(e[i], F) \in 0..2
    BY <2>2, <2>3
  <2>5. Degree(e[i], F) = 0 => FreeVars(e[i], F) = <<>>
    BY <2>1, FreeVarsFacts
  <2>6. Degree(e[i], F) = 1 => \E y \in Var \ F : FreeVars(e[i], F) = <<y>>
    BY <2>1, FreeVarsFacts
  <2>7. Degree(e[i], F) = 2 => \E y, z \in Var \ F : FreeVars(e[i], F) = <<y, z>>
    BY <2>1, FreeVarsFacts
  <2>8. QED
    BY <2>4, <2>5, <2>6, <2>7 DEF Monomial
<1>4. ASSUME NEW i \in 1..Len(e), FreeVars(e[i], F) \in Monomial
      PROVE  Degree(e[i], F) \in 0..2
  <2>1. Len(FreeVars(e[i], F)) = Degree(e[i], F)
    BY <1>1, FreeVarsFacts
  <2>2. \A n \in Monomial : Len(n) \in 0..2
    BY DEF Monomial
  <2>3. QED
    BY <1>4, <2>1, <2>2
<1>5. QED
  BY <1>1, <1>2, <1>3, <1>4

(* A term that vanishes has the value 0.                                   *)
LEMMA VanishingTerm ==
    ASSUME NEW t \in Term, NEW F, NEW v, Values(v, Param \cup F), Vanishes(t, v, F)
    PROVE  FactorValue(t, v, F) = 0
<1> DEFINE g == [i \in 1..Len(t.vars) |-> IF t.vars[i] \in F THEN v[t.vars[i]] ELSE 1]
<1>1. Numbers(v, t.coef) /\ Numbers(g, 1..Len(t.vars))
  BY FactorFacts
<1>2. FactorValue(t, v, F) = FoldOver("*", v, t.coef) * FoldOver("*", g, 1..Len(t.vars))
  BY DEF FactorValue, ProductOver
<1>3. (\E a \in t.coef : v[a] = 0) \/ \E i \in 1..Len(t.vars) : g[i] = 0
  BY DEF Vanishes
<1> HIDE DEF g
<1>4. FoldOver("*", v, t.coef) \in Int /\ FoldOver("*", g, 1..Len(t.vars)) \in Int
  BY <1>1, FoldType
<1>5. FoldOver("*", v, t.coef) = 0 \/ FoldOver("*", g, 1..Len(t.vars)) = 0
  BY <1>1, <1>3, ProductOfZero
<1>6. QED
  BY <1>2, <1>4, <1>5

(* What a term contributes to the coefficient of the monomial n.           *)
Share(e, v, F, n) ==
    [i \in 1..Len(e) |-> IF FreeVars(e[i], F) = n THEN FactorValue(e[i], v, F) ELSE 0]

LEMMA ShareNumbers ==
    ASSUME NEW e \in Seq(Term), NEW F, NEW v, Values(v, Param \cup F), NEW n
    PROVE  Numbers(Share(e, v, F, n), 1..Len(e))
<1>1. \A i \in 1..Len(e) : FactorValue(e[i], v, F) \in Int
  BY QuadraticTerms, FactorFacts
<1>2. \A i \in 1..Len(e) : Share(e, v, F, n)[i] \in Int
  BY <1>1 DEF Share
<1>3. QED
  BY <1>2, QuadraticTerms DEF Numbers

(* Only monomials of free variables have a coefficient.                    *)
OfFree(f, F) == \A n \in Monomial : f[n] # 0 => n \in Seq(Var \ F)

LEMMA CollectFacts ==
    ASSUME NEW e \in Seq(Term), NEW F, NEW v, Values(v, Param \cup F)
    PROVE  /\ Collect(e, v, F) \in Poly /\ OfFree(Collect(e, v, F), F)
           /\ \A n \in Monomial : Collect(e, v, F)[n] = FoldOver("+", Share(e, v, F, n), 1..Len(e))
<1> DEFINE f == Collect(e, v, F)
<1>1. f = [n \in Monomial |-> FoldOver("+", Share(e, v, F, n), 1..Len(e))]
  BY DEF Collect, SumOver, Share
<1>2. \A n \in Monomial : f[n] = FoldOver("+", Share(e, v, F, n), 1..Len(e))
  BY <1>1
<1>3. \A n \in Monomial : FoldOver("+", Share(e, v, F, n), 1..Len(e)) \in Int
  BY ShareNumbers, FoldType
<1>4. f \in Poly
  BY <1>1, <1>3 DEF Poly
<1>5. ASSUME NEW n \in Monomial, n \notin Seq(Var \ F)
      PROVE  f[n] = 0
  <2>1. ASSUME NEW i \in 1..Len(e) PROVE FreeVars(e[i], F) # n
    <3>1. e[i] \in Term
      BY QuadraticTerms
    <3>2. FreeVars(e[i], F) \in Seq(Var \ F)
      BY <3>1, FreeVarsFacts
    <3>3. QED
      BY <1>5, <3>2
  <2>2. \A i \in 1..Len(e) : Share(e, v, F, n)[i] = Neutral("+")
    BY <2>1 DEF Share, Neutral
  <2>3. IsFiniteSet(1..Len(e))
    BY QuadraticTerms
  <2>4. FoldOver("+", Share(e, v, F, n), 1..Len(e)) = Neutral("+")
    BY <2>2, <2>3, FoldOfNone
  <2>5. QED
    BY <1>2, <2>4 DEF Neutral
<1>6. OfFree(f, F)
  BY <1>5 DEF OfFree
<1>7. QED
  BY <1>2, <1>4, <1>6

(* A quadratic function at a point of the free variables.                  *)
Products(f, u) == [n \in Monomial |-> IF f[n] = 0 THEN 0 ELSE f[n] * MonomialValue(n, u)]

LEMMA PolyFacts ==
    ASSUME NEW f \in Poly, NEW F, OfFree(f, F), NEW u, Values(u, Var \ F)
    PROVE  /\ Numbers(Products(f, u), Monomial)
           /\ PolyValue(f, u) = FoldOver("+", Products(f, u), Monomial)
           /\ PolyValue(f, u) \in Int
<1>1. ASSUME NEW n \in Monomial PROVE Products(f, u)[n] \in Int
  <2>1. f[n] \in Int
    BY DEF Poly
  <2>2. CASE f[n] = 0
    BY <2>2 DEF Products
  <2>3. CASE f[n] # 0
    <3>1. n \in Seq(Var \ F)
      BY <2>3 DEF OfFree
    <3>2. MonomialValue(n, u) \in Int
      BY <3>1, MonomialType
    <3>3. f[n] * MonomialValue(n, u) \in Int
      BY <2>1, <3>2
    <3>4. QED
      BY <2>3, <3>3 DEF Products
  <2>4. QED
    BY <2>2, <2>3
<1>2. Numbers(Products(f, u), Monomial)
  BY <1>1, MonomialsFinite DEF Numbers
<1>3. PolyValue(f, u) = FoldOver("+", Products(f, u), Monomial)
  BY DEF PolyValue, SumOver, Products
<1>4. QED
  BY <1>2, <1>3, FoldType

(* The constant counts once: functions that agree on all the other         *)
(* monomials differ by it.                                                 *)
LEMMA PolyShift ==
    ASSUME NEW f \in Poly, NEW g \in Poly, NEW F, OfFree(f, F), OfFree(g, F),
           NEW u, Values(u, Var \ F), \A n \in Monomial \ {<<>>} : f[n] = g[n]
    PROVE  /\ f[<<>>] \in Int /\ g[<<>>] \in Int
           /\ PolyValue(f, u) - f[<<>>] = PolyValue(g, u) - g[<<>>]
<1> DEFINE Rest == Monomial \ {<<>>}
<1>1. <<>> \in Monomial
  BY DEF Monomial
<1>2. f[<<>>] \in Int /\ g[<<>>] \in Int
  BY <1>1 DEF Poly
<1>3. Numbers(Products(f, u), Monomial) /\ Numbers(Products(g, u), Monomial)
  BY PolyFacts
<1>4. Products(f, u)[<<>>] = f[<<>>] /\ Products(g, u)[<<>>] = g[<<>>]
  BY <1>1, <1>2, NoVariables DEF Products
<1>5. /\ FoldOver("+", Products(f, u), Monomial)
          = Combine("+", Products(f, u)[<<>>], FoldOver("+", Products(f, u), Rest))
      /\ FoldOver("+", Products(g, u), Monomial)
          = Combine("+", Products(g, u)[<<>>], FoldOver("+", Products(g, u), Rest))
  BY <1>1, <1>3, FoldStep
<1>6. Numbers(Products(f, u), Rest)
  BY <1>3, FS_Subset DEF Numbers
<1>7. \A n \in Rest : Products(g, u)[n] = Products(f, u)[n]
  BY DEF Products
<1> HIDE DEF Rest
<1>8. FoldOver("+", Products(g, u), Rest) = FoldOver("+", Products(f, u), Rest)
  BY <1>6, <1>7, FoldSame
<1>9. FoldOver("+", Products(f, u), Rest) \in Int
  BY <1>6, FoldType
<1>10. /\ PolyValue(f, u) = f[<<>>] + FoldOver("+", Products(f, u), Rest)
       /\ PolyValue(g, u) = g[<<>>] + FoldOver("+", Products(f, u), Rest)
  BY <1>4, <1>5, <1>8, PolyFacts DEF Combine
<1>11. QED
  BY <1>2, <1>9, <1>10

(* The value of an expression is that of what collect_terms() makes of it. *)
LEMMA ExprSplits ==
    ASSUME NEW e \in Seq(Term), NEW F, NEW v, Values(v, Param \cup F), ~Refused(e, v, F),
           NEW u, Values(u, Var \ F),
           NEW w, \A a \in Param \cup F : w[a] = v[a], \A y \in Var \ F : w[y] = u[y]
    PROVE  Opt!ExprValue(e, w) = PolyValue(Collect(e, v, F), u)
<1> DEFINE K == 1..Len(e)
           f == Collect(e, v, F)
           Mono(n) == IF n \in Seq(Var \ F) THEN MonomialValue(n, u) ELSE 0
           a == [i \in K |-> [n \in Monomial |-> Share(e, v, F, n)[i] * Mono(n)]]
           col == [n \in Monomial |-> [i \in K |-> Share(e, v, F, n)[i] * Mono(n)]]
           r == [i \in K |-> Opt!TermValue(e[i], w)]
           c == Products(f, u)
<1>1. /\ IsFiniteSet(K) /\ \A i \in K : e[i] \in Term
      /\ \A i \in K : FreeVars(e[i], F) \in Monomial \/ Vanishes(e[i], v, F)
  BY QuadraticTerms DEF Refused
<1>2. \A n \in Monomial : Mono(n) \in Int
  BY MonomialType
<1>3. \A n \in Monomial : Numbers(Share(e, v, F, n), K)
  BY ShareNumbers
<1>4. \A n \in Monomial : \A i \in K : Share(e, v, F, n)[i] \in Int
  BY <1>3 DEF Numbers
<1>5. \A i \in K : Numbers(a[i], Monomial)
  <2> SUFFICES ASSUME NEW i \in K PROVE \A n \in Monomial : a[i][n] \in Int
    BY MonomialsFinite DEF Numbers
  <2>1. ASSUME NEW n \in Monomial PROVE a[i][n] \in Int
    <3>1. Share(e, v, F, n)[i] \in Int /\ Mono(n) \in Int
      BY <1>2, <1>4
    <3> HIDE DEF Mono
    <3>2. QED
      BY <3>1
  <2>2. QED
    BY <2>1
<1>6. \A n \in Monomial : \A i \in K : col[n][i] = a[i][n]
  OBVIOUS
<1>7. \A i \in K : r[i] = FoldOver("+", a[i], Monomial)
  <2> SUFFICES ASSUME NEW i \in K PROVE r[i] = FoldOver("+", a[i], Monomial)
    OBVIOUS
  <2> DEFINE n == FreeVars(e[i], F)
  <2>1. n \in Seq(Var \ F)
    BY <1>1, FreeVarsFacts
  <2>2. n \in Monomial => a[i][n] = FactorValue(e[i], v, F) * MonomialValue(n, u)
    BY <2>1 DEF Share
  <2>3. \A k \in Monomial : k # n => a[i][k] = Neutral("+")
    <3> SUFFICES ASSUME NEW k \in Monomial, k # n PROVE a[i][k] = 0
      BY DEF Neutral
    <3>1. Share(e, v, F, k)[i] = 0
      BY DEF Share
    <3>2. Mono(k) \in Int
      BY <1>2
    <3>3. a[i][k] = Share(e, v, F, k)[i] * Mono(k)
      OBVIOUS
    <3> HIDE DEF a, Mono
    <3>4. QED
      BY <3>1, <3>2, <3>3
  <2>4. Numbers(a[i], Monomial)
    BY <1>5
  <2>5. r[i] = FactorValue(e[i], v, F) * MonomialValue(n, u)
    BY <1>1, TermSplits
  <2>6. n \notin Monomial => r[i] = 0
    <3> SUFFICES ASSUME n \notin Monomial PROVE r[i] = 0
      OBVIOUS
    <3>1. FactorValue(e[i], v, F) = 0
      BY <1>1, VanishingTerm
    <3>2. MonomialValue(n, u) \in Int
      BY <2>1, MonomialType
    <3> HIDE DEF r, n
    <3>3. QED
      BY <2>5, <3>1, <3>2
  <2> HIDE DEF a, n, r
  <2>7. CASE n \in Monomial
    <3>1. FoldOver("+", a[i], Monomial) = a[i][n]
      BY <2>3, <2>4, <2>7, FoldOfOne
    <3>2. QED
      BY <2>2, <2>5, <2>7, <3>1
  <2>8. CASE n \notin Monomial
    <3>1. \A k \in Monomial : a[i][k] = Neutral("+")
      BY <2>3, <2>8
    <3>2. FoldOver("+", a[i], Monomial) = Neutral("+")
      BY <3>1, MonomialsFinite, FoldOfNone
    <3>3. QED
      BY <2>6, <2>8, <3>2 DEF Neutral
  <2>9. QED
    BY <2>7, <2>8
<1>8. \A n \in Monomial : c[n] = FoldOver("+", col[n], K)
  <2> SUFFICES ASSUME NEW n \in Monomial PROVE c[n] = FoldOver("+", col[n], K)
    OBVIOUS
  <2>1. Numbers(Share(e, v, F, n), K) /\ Mono(n) \in Int
    BY <1>2, <1>3
  <2>2. \A i \in K : col[n][i] = Share(e, v, F, n)[i] * Mono(n)
    OBVIOUS
  <2>3. SumOver(col[n], K) = SumOver(Share(e, v, F, n), K) * Mono(n)
    <3> HIDE DEF col, Mono, K
    <3>1. QED
      BY <2>1, <2>2, SumScaled
  <2>4. f[n] = SumOver(Share(e, v, F, n), K)
    BY CollectFacts DEF SumOver
  <2>5. f[n] \in Int /\ (f[n] # 0 => n \in Seq(Var \ F))
    BY CollectFacts DEF OfFree, Poly
  <2>6. c[n] = f[n] * Mono(n)
    <3>1. CASE f[n] = 0
      <4>1. f[n] * Mono(n) = 0
        <5> HIDE DEF Mono
        <5>1. QED
          BY <2>1, <3>1
      <4>2. QED
        BY <3>1, <4>1 DEF Products
    <3>2. CASE f[n] # 0
      BY <2>5, <3>2 DEF Products
    <3>3. QED
      BY <3>1, <3>2
  <2>7. QED
    BY <2>3, <2>4, <2>6 DEF SumOver
<1> HIDE DEF a, col, r, c, K
<1>9. FoldOver("+", c, Monomial) = FoldOver("+", r, K)
  <2>1. IsFiniteSet(K) /\ IsFiniteSet(Monomial)
    BY <1>1, MonomialsFinite
  <2>2. Table("+", K, Monomial, a, col, r, c)
    BY <1>5, <1>6, <1>7, <1>8, <2>1 DEF Table
  <2>3. QED
    BY <2>2, FoldExchange
<1>10. Opt!ExprValue(e, w) = FoldOver("+", r, K)
  BY SameSums DEF Opt!ExprValue, SumOver, r, K
<1>11. PolyValue(f, u) = FoldOver("+", c, Monomial)
  BY DEF PolyValue, SumOver, Products, c
<1>12. QED
  BY <1>9, <1>10, <1>11

-----------------------------------------------------------------------------
(* Rows: what the GRBModel demands of an answer is what the model demands. *)

(* Short sequences, and sequences joined of them.                          *)
LEMMA NoMember ==
    /\ Range(<<>> \o <<>>) = {} /\ Len(<<>> \o <<>>) = 0
    /\ DOMAIN (<<>> \o <<>>) = 1..0
<1>1. <<>> \o <<>> = <<>>
  OBVIOUS
<1>2. DOMAIN <<>> = {} /\ Len(<<>>) = 0 /\ 1..0 = {}
  OBVIOUS
<1>3. QED
  BY <1>1, <1>2 DEF Range

LEMMA OneMember ==
    ASSUME NEW a
    PROVE  /\ Range(<<a>>) = {a} /\ Len(<<a>>) = 1 /\ DOMAIN <<a>> = 1..1
           /\ <<a>> \o <<>> = <<a>> /\ <<>> \o <<a>> = <<a>>
<1> DEFINE s == <<a>>
<1>1. DOMAIN s = 1..1 /\ Len(s) = 1 /\ s[1] = a
  OBVIOUS
<1>2. s \o <<>> = s /\ <<>> \o s = s
  <2>1. s \in Seq({a})
    OBVIOUS
  <2> HIDE DEF s
  <2>2. QED
    BY <2>1
<1> HIDE DEF s
<1>3. Range(s) = {a}
  <2>1. 1 \in DOMAIN s /\ \A x \in DOMAIN s : x = 1
    BY <1>1
  <2>2. QED
    BY <1>1, <2>1 DEF Range
<1>4. QED
  BY <1>1, <1>2, <1>3 DEF s

LEMMA TwoMembers ==
    ASSUME NEW a, NEW b
    PROVE  /\ Range(<<a>> \o <<b>>) = {a, b} /\ Len(<<a>> \o <<b>>) = 2
           /\ DOMAIN (<<a>> \o <<b>>) = 1..2
<1> DEFINE s == <<a>> \o <<b>>
           p == <<a>>
           q == <<b>>
<1>1. /\ p \in Seq({a, b}) /\ q \in Seq({a, b})
      /\ Len(p) = 1 /\ Len(q) = 1 /\ p[1] = a /\ q[1] = b
  OBVIOUS
<1>2. DOMAIN s = 1..2 /\ Len(s) = 2 /\ s[1] = a /\ s[2] = b
  <2>1. s = p \o q
    OBVIOUS
  <2> HIDE DEF s, p, q
  <2>2. s \in Seq({a, b}) /\ Len(s) = 2 /\ s[1] = p[1] /\ s[2] = q[1]
    BY <1>1, <2>1, ConcatProperties
  <2>3. QED
    BY <1>1, <2>2
<1> HIDE DEF s
<1>3. Range(s) = {a, b}
  <2>1. 1 \in DOMAIN s /\ 2 \in DOMAIN s /\ \A x \in DOMAIN s : x = 1 \/ x = 2
    BY <1>2
  <2>2. QED
    BY <1>2, <2>1 DEF Range
<1>4. QED
  BY <1>2, <1>3 DEF s

(* The bounds a constraint has rows for.                                   *)
LEMMA DemandsFacts ==
    ASSUME NEW m \in Models, NEW j \in 1..Len(Exprs[m])
    PROVE  /\ Lower[m][j] \in Int \cup Param \cup {None}
           /\ Upper[m][j] \in Int \cup Param \cup {None}
           /\ Range(Demands(m, j)) =
                IF Lower[m][j] = Upper[m][j] /\ Lower[m][j] # None
                THEN {<<"=", Lower[m][j]>>}
                ELSE (IF Lower[m][j] = None THEN {} ELSE {<<">=", Lower[m][j]>>})
                     \cup (IF Upper[m][j] = None THEN {} ELSE {<<"<=", Upper[m][j]>>})
           /\ \A d \in Range(Demands(m, j)) :
                /\ d[1] \in {"<=", ">=", "="}
                /\ d[2] \in {Lower[m][j], Upper[m][j]} \ {None}
           /\ Len(Demands(m, j)) \in Nat /\ DOMAIN Demands(m, j) = 1..Len(Demands(m, j))
<1> DEFINE lo == Lower[m][j]
           hi == Upper[m][j]
           D == Demands(m, j)
<1>1. {lo, hi} \subseteq Int \cup Param \cup {None}
  BY ModelsType
<1>2. D = IF lo = hi /\ lo # None THEN << <<"=", lo>> >>
          ELSE (IF lo = None THEN <<>> ELSE << <<">=", lo>> >>)
               \o (IF hi = None THEN <<>> ELSE << <<"<=", hi>> >>)
  BY DEF Demands
<1> HIDE DEF lo, hi, D
<1>3. /\ Range(D) = IF lo = hi /\ lo # None THEN {<<"=", lo>>}
                    ELSE (IF lo = None THEN {} ELSE {<<">=", lo>>})
                         \cup (IF hi = None THEN {} ELSE {<<"<=", hi>>})
      /\ Len(D) \in Nat /\ DOMAIN D = 1..Len(D)
  <2>1. CASE lo = hi /\ lo # None
    BY <1>2, <2>1, OneMember
  <2>2. CASE ~(lo = hi /\ lo # None) /\ lo = None /\ hi = None
    BY <1>2, <2>2, NoMember
  <2>3. CASE ~(lo = hi /\ lo # None) /\ lo # None /\ hi = None
    BY <1>2, <2>3, OneMember
  <2>4. CASE ~(lo = hi /\ lo # None) /\ lo = None /\ hi # None
    BY <1>2, <2>4, OneMember
  <2>5. CASE ~(lo = hi /\ lo # None) /\ lo # None /\ hi # None
    <3> DEFINE a == <<">=", lo>>
               b == <<"<=", hi>>
    <3>1. D = <<a>> \o <<b>>
      BY <1>2, <2>5
    <3> HIDE DEF a, b
    <3>2. Range(D) = {a, b} /\ Len(D) = 2 /\ DOMAIN D = 1..2
      BY <3>1, TwoMembers
    <3>3. QED
      BY <2>5, <3>2 DEF a, b
  <2>6. QED
    BY <2>1, <2>2, <2>3, <2>4, <2>5
<1>4. \A d \in Range(D) : d[1] \in {"<=", ">=", "="} /\ d[2] \in {lo, hi} \ {None}
  BY <1>3
<1>5. QED
  BY <1>1, <1>3, <1>4 DEF lo, hi, D

(* The numbers the client may have given.                                  *)
LEMMA BoundType ==
    ASSUME NEW b \in Int \cup Param, NEW v, Values(v, Param)
    PROVE  Opt!BoundValue(b, v) \in Int
BY DEF Opt!BoundValue, Values

IsAnswer(u, F) == u \in [Var \ F -> Num]

Point(u, v, F) == [a \in Atom |-> IF a \in Var \ F THEN u[a] ELSE v[a]]

LEMMA AnswerNumbers ==
    ASSUME NEW F, NEW u, IsAnswer(u, F)
    PROVE  Values(u, Var \ F)
BY NumbersAreIntegers DEF IsAnswer, Values

(* The expressions of a model.                                             *)
LEMMA ModelExprType ==
    ASSUME NEW m \in Models, NEW j \in 1..Len(Exprs[m]), NEW F \in SUBSET Var,
           NEW v, Values(v, Atom)
    PROVE  /\ Exprs[m][j] \in Seq(Term) /\ Values(v, Param \cup F)
           /\ Collect(Exprs[m][j], v, F) \in Poly /\ OfFree(Collect(Exprs[m][j], v, F), F)
<1>1. Exprs[m][j] \in Seq(Term)
  BY ExprsType, ElementOfSeq
<1>2. Values(v, Param \cup F)
  BY DEF Values, Atom
<1>3. QED
  BY <1>1, <1>2, CollectFacts

(* The collected expression j of the model m at the answer u.              *)
LEMMA ModelExpr ==
    ASSUME NEW m \in Models, NEW j \in 1..Len(Exprs[m]), NEW F \in SUBSET Var,
           NEW v, Values(v, Atom), ~Refused(Exprs[m][j], v, F), NEW u, IsAnswer(u, F)
    PROVE  Opt!ExprValue(Exprs[m][j], Point(u, v, F)) = PolyValue(Collect(Exprs[m][j], v, F), u)
<1> DEFINE e == Exprs[m][j]
           w == Point(u, v, F)
<1>1. e \in Seq(Term) /\ Values(v, Param \cup F)
  BY ModelExprType
<1>2. Values(u, Var \ F)
  BY AnswerNumbers
<1>3. \A a \in Param \cup F : w[a] = v[a]
  <2>1. \A a \in Param \cup F : a \in Atom /\ a \notin Var \ F
    BY AtomsApart DEF Atom
  <2>2. QED
    BY <2>1 DEF Point
<1>4. \A y \in Var \ F : w[y] = u[y]
  BY DEF Point, Atom
<1>5. ~Refused(e, v, F)
  OBVIOUS
<1> HIDE DEF e, w
<1>6. Opt!ExprValue(e, w) = PolyValue(Collect(e, v, F), u)
  BY <1>1, <1>2, <1>3, <1>4, <1>5, ExprSplits
<1>7. QED
  BY <1>6 DEF e, w

(* A row holds when the expression keeps to the bound.                     *)
LEMMA RowHolds ==
    ASSUME NEW m \in Models, NEW j \in 1..Len(Exprs[m]), NEW F \in SUBSET Var,
           NEW v, Values(v, Atom), ~Refused(Exprs[m][j], v, F), NEW u, IsAnswer(u, F),
           NEW d \in Range(Demands(m, j))
    PROVE  LET x == Opt!ExprValue(Exprs[m][j], Point(u, v, F))
               b == Opt!BoundValue(d[2], v)
           IN  /\ x \in Int /\ b \in Int
               /\ Holds(RowFor(m, j, d, v, F), u) <=>
                    /\ d[1] = "<=" => x <= b
                    /\ d[1] = ">=" => b <= x
                    /\ d[1] = "=" => x = b
<1> DEFINE e == Exprs[m][j]
           f == Collect(e, v, F)
           p == [f EXCEPT ![<<>>] = 0]
           x == Opt!ExprValue(e, Point(u, v, F))
           b == Opt!BoundValue(d[2], v)
           row == RowFor(m, j, d, v, F)
<1>1. x = PolyValue(f, u)
  BY ModelExpr
<1>2. Values(u, Var \ F)
  BY AnswerNumbers
<1>3. f \in Poly /\ OfFree(f, F)
  BY ModelExprType
<1>4. <<>> \in Monomial
  BY DEF Monomial
<1> HIDE DEF e, f
<1>5. p \in Poly /\ p[<<>>] = 0 /\ \A n \in Monomial \ {<<>>} : p[n] = f[n]
  BY <1>3, <1>4 DEF Poly
<1>6. OfFree(p, F)
  BY <1>3, <1>5 DEF OfFree
<1> HIDE DEF p, x
<1>17. x \in Int
  BY <1>1, <1>2, <1>3, PolyFacts
<1>7. f[<<>>] \in Int /\ PolyValue(p, u) - p[<<>>] = PolyValue(f, u) - f[<<>>]
  BY <1>2, <1>3, <1>5, <1>6, PolyShift
<1>8. PolyValue(p, u) \in Int
  BY <1>2, <1>5, <1>6, PolyFacts
<1>9. d[1] \in {"<=", ">=", "="} /\ d[2] \in {Lower[m][j], Upper[m][j]} \ {None}
  BY DemandsFacts
<1>10. d[2] \in Int \cup Param
  BY <1>9, DemandsFacts
<1>11. b \in Int
  <2>1. Values(v, Param)
    BY DEF Values, Atom
  <2>2. QED
    BY <1>10, <2>1, BoundType
<1>12. row.poly = p /\ row.sense = d[1] /\ row.rhs = b - f[<<>>]
  BY DEF RowFor, p, f, e
<1> HIDE DEF b, row
<1>13. x - f[<<>>] = PolyValue(p, u)
  BY <1>1, <1>5, <1>7, <1>8, <1>17
<1>14. /\ PolyValue(p, u) <= b - f[<<>>] <=> x <= b
       /\ PolyValue(p, u) >= b - f[<<>>] <=> b <= x
       /\ PolyValue(p, u) = b - f[<<>>] <=> x = b
  BY <1>7, <1>11, <1>13, <1>17
<1>15. Holds(row, u) <=> /\ d[1] = "<=" => x <= b
                         /\ d[1] = ">=" => b <= x
                         /\ d[1] = "=" => x = b
  <2>1. CASE d[1] = "<="
    BY <1>12, <1>14, <2>1 DEF Holds
  <2>2. CASE d[1] = ">="
    BY <1>12, <1>14, <2>2 DEF Holds
  <2>3. CASE d[1] = "="
    BY <1>12, <1>14, <2>3 DEF Holds
  <2>4. QED
    BY <1>9, <2>1, <2>2, <2>3
<1>16. QED
  BY <1>11, <1>15, <1>17 DEF x, b, row, e

(* The rows of a constraint hold when it keeps to its bounds.              *)
LEMMA ConstraintHolds ==
    ASSUME NEW m \in Models, NEW j \in 1..Len(Exprs[m]), NEW F \in SUBSET Var,
           NEW v, Values(v, Atom), ~Refused(Exprs[m][j], v, F), NEW u, IsAnswer(u, F)
    PROVE  (\A d \in Range(Demands(m, j)) : Holds(RowFor(m, j, d, v, F), u))
           <=> Opt!Within(Opt!ExprValue(Exprs[m][j], Point(u, v, F)), Lower[m][j], Upper[m][j], v)
<1> DEFINE x == Opt!ExprValue(Exprs[m][j], Point(u, v, F))
           lo == Lower[m][j]
           hi == Upper[m][j]
           D == Range(Demands(m, j))
           B(b) == Opt!BoundValue(b, v)
           H(d) == Holds(RowFor(m, j, d, v, F), u)
<1>1. \A d \in D : /\ x \in Int /\ B(d[2]) \in Int
                   /\ H(d) <=> /\ d[1] = "<=" => x <= B(d[2])
                               /\ d[1] = ">=" => B(d[2]) <= x
                               /\ d[1] = "=" => x = B(d[2])
  <2> SUFFICES ASSUME NEW d \in D
               PROVE  /\ x \in Int /\ B(d[2]) \in Int
                      /\ H(d) <=> /\ d[1] = "<=" => x <= B(d[2])
                                  /\ d[1] = ">=" => B(d[2]) <= x
                                  /\ d[1] = "=" => x = B(d[2])
    OBVIOUS
  <2>1. x \in Int
    BY RowHolds
  <2>2. B(d[2]) \in Int
    BY RowHolds
  <2>3. H(d) <=> /\ d[1] = "<=" => x <= B(d[2])
                 /\ d[1] = ">=" => B(d[2]) <= x
                 /\ d[1] = "=" => x = B(d[2])
    BY RowHolds
  <2> HIDE DEF x, B, H, D
  <2>4. QED
    BY <2>1, <2>2, <2>3
<1>2. D = IF lo = hi /\ lo # None THEN {<<"=", lo>>}
          ELSE (IF lo = None THEN {} ELSE {<<">=", lo>>})
               \cup (IF hi = None THEN {} ELSE {<<"<=", hi>>})
  BY DemandsFacts
<1> HIDE DEF x, lo, hi, D, B, H
<1>3. (\A d \in D : H(d)) <=> /\ lo # None => B(lo) <= x
                              /\ hi # None => x <= B(hi)
  <2>1. CASE lo = hi /\ lo # None
    <3>1. D = {<<"=", lo>>}
      BY <1>2, <2>1
    <3>2. x \in Int /\ B(lo) \in Int /\ (H(<<"=", lo>>) <=> x = B(lo))
      BY <1>1, <3>1
    <3>3. x = B(lo) <=> B(lo) <= x /\ x <= B(lo)
      BY <3>2
    <3>4. QED
      BY <2>1, <3>1, <3>2, <3>3
  <2>2. CASE ~(lo = hi /\ lo # None)
    <3>1. lo # None => <<">=", lo>> \in D /\ (H(<<">=", lo>>) <=> B(lo) <= x)
      BY <1>1, <1>2, <2>2
    <3>2. hi # None => <<"<=", hi>> \in D /\ (H(<<"<=", hi>>) <=> x <= B(hi))
      BY <1>1, <1>2, <2>2
    <3>3. \A d \in D : (lo # None /\ d = <<">=", lo>>) \/ (hi # None /\ d = <<"<=", hi>>)
      BY <1>2, <2>2
    <3>4. QED
      BY <3>1, <3>2, <3>3
  <2>3. QED
    BY <2>1, <2>2
<1>4. Opt!Within(x, lo, hi, v) <=> /\ lo # None => B(lo) <= x
                                   /\ hi # None => x <= B(hi)
  BY DEF Opt!Within, B
<1>5. QED
  BY <1>3, <1>4 DEF x, lo, hi, D, H

(* The bounds of the columns are those of the variables.                   *)
LEMMA ColumnBound ==
    ASSUME NEW b \in {VarLower, VarUpper}, NEW F, NEW v, Values(v, Atom), NEW y \in Var \ F
    PROVE  /\ ColumnBounds(b, v, F)[y] = Opt!BoundValue(b[y], v)
           /\ ColumnBounds(b, v, F)[y] \in Int \cup {None}
           /\ ColumnBounds(b, v, F)[y] = None <=> b[y] = None
<1>1. b[y] \in Int \cup Param \cup {None}
  BY VarBoundsType
<1>2. Values(v, Param)
  BY DEF Values, Atom
<1>3. ColumnBounds(b, v, F)[y] = Opt!BoundValue(b[y], v)
  BY DEF ColumnBounds
<1>4. b[y] # None => Opt!BoundValue(b[y], v) \in Int
  BY <1>1, <1>2, BoundType
<1>5. b[y] = None => Opt!BoundValue(b[y], v) = None
  BY NoneIsNoBound DEF Opt!BoundValue
<1>6. QED
  BY <1>3, <1>4, <1>5, NoneIsNoBound

HasRows(g) == g.rows \in Seq(Row) /\ g.qrows \in Seq(Row)

LEMMA RowsAreAll ==
    ASSUME NEW g, HasRows(g)
    PROVE  /\ \A k \in 1..Len(g.rows) : g.rows[k] \in AllRows(g)
           /\ \A k \in 1..Len(g.qrows) : g.qrows[k] \in AllRows(g)
           /\ \A r \in AllRows(g) : \/ \E k \in 1..Len(g.rows) : r = g.rows[k]
                                    \/ \E k \in 1..Len(g.qrows) : r = g.qrows[k]
<1>1. DOMAIN g.rows = 1..Len(g.rows) /\ DOMAIN g.qrows = 1..Len(g.qrows)
  BY DEF HasRows
<1>2. QED
  BY <1>1 DEF AllRows, Range

(* The answers of the GRBModel are the points of the model.                *)
LEMMA FeasiblePoints ==
    ASSUME NEW m \in Models, NEW F \in SUBSET Var, NEW v, Values(v, Atom),
           NEW g, HasRows(g), IsModel(g, m, v, F), NEW u, IsAnswer(u, F)
    PROVE  u \in Feasible(g) <=> Point(u, v, F) \in Opt!Feasible(m, v, F)
<1> DEFINE w == Point(u, v, F)
           L == 2..Len(Exprs[m])
           InBounds == \A y \in Var \ F : Opt!Within(w[y], VarLower[y], VarUpper[y], v)
           Kept == \A j \in L : Opt!Within(Opt!ExprValue(Exprs[m][j], w), Lower[m][j], Upper[m][j], v)
<1>1. Len(Exprs[m]) \in Nat
  BY ExprsType, LenProperties
<1>2. \A j \in L : j \in 1..Len(Exprs[m])
  BY <1>1
<1>3. u \in [g.cols -> Num] /\ g.cols = Var \ F
  BY DEF IsModel, IsAnswer
<1>4. (\A y \in g.cols : /\ g.lb[y] # None => g.lb[y] <= u[y]
                         /\ g.ub[y] # None => u[y] <= g.ub[y]) <=> InBounds
  <2> SUFFICES ASSUME NEW y \in Var \ F
               PROVE  (/\ g.lb[y] # None => g.lb[y] <= u[y]
                       /\ g.ub[y] # None => u[y] <= g.ub[y])
                      <=> Opt!Within(w[y], VarLower[y], VarUpper[y], v)
    BY <1>3
  <2>1. g.lb = ColumnBounds(VarLower, v, F) /\ g.ub = ColumnBounds(VarUpper, v, F)
    BY DEF IsModel
  <2>2. g.lb[y] = Opt!BoundValue(VarLower[y], v) /\ (g.lb[y] = None <=> VarLower[y] = None)
    BY <2>1, ColumnBound
  <2>3. g.ub[y] = Opt!BoundValue(VarUpper[y], v) /\ (g.ub[y] = None <=> VarUpper[y] = None)
    BY <2>1, ColumnBound
  <2>4. w[y] = u[y]
    BY DEF Point, Atom
  <2> HIDE DEF w
  <2>5. QED
    BY <2>2, <2>3, <2>4 DEF Opt!Within
<1>5. (/\ \A i \in 1..Len(g.rows) : Holds(g.rows[i], u)
       /\ \A i \in 1..Len(g.qrows) : Holds(g.qrows[i], u)) <=> Kept
  <2>1. (/\ \A i \in 1..Len(g.rows) : Holds(g.rows[i], u)
         /\ \A i \in 1..Len(g.qrows) : Holds(g.qrows[i], u))
        <=> \A r \in AllRows(g) : Holds(r, u)
    BY RowsAreAll
  <2>2. AllRows(g) = UNION {{RowFor(m, j, d, v, F) : d \in Range(Demands(m, j))} : j \in L}
    BY DEF IsModel
  <2>3. (\A r \in AllRows(g) : Holds(r, u))
        <=> \A j \in L : \A d \in Range(Demands(m, j)) : Holds(RowFor(m, j, d, v, F), u)
    BY <2>2
  <2>4. ASSUME NEW j \in L
        PROVE  (\A d \in Range(Demands(m, j)) : Holds(RowFor(m, j, d, v, F), u))
               <=> Opt!Within(Opt!ExprValue(Exprs[m][j], w), Lower[m][j], Upper[m][j], v)
    <3>1. j \in 1..Len(Exprs[m]) /\ ~Refused(Exprs[m][j], v, F)
      BY <1>2 DEF IsModel
    <3>2. QED
      BY <3>1, ConstraintHolds
  <2>5. QED
    BY <2>1, <2>3, <2>4
<1>6. u \in Feasible(g) <=> InBounds /\ Kept
  BY <1>3, <1>4, <1>5 DEF Feasible
<1>7. w \in {[a \in Opt!Atom |-> IF a \in Var \ F THEN s[a] ELSE v[a]] : s \in [Var \ F -> Num]}
  BY DEF IsAnswer, Point, Atom, Opt!Atom
<1> HIDE DEF w
<1>8. w \in Opt!Feasible(m, v, F) <=> InBounds /\ Kept
  BY <1>7 DEF Opt!Feasible, Opt!Points
<1>9. QED
  BY <1>6, <1>8 DEF w

(* Every point of the model is the point of an answer.                     *)
LEMMA PointsAreAnswers ==
    ASSUME NEW m, NEW F, NEW v, NEW w \in Opt!Feasible(m, v, F)
    PROVE  \E u : IsAnswer(u, F) /\ w = Point(u, v, F)
<1>1. w \in {[a \in Opt!Atom |-> IF a \in Var \ F THEN s[a] ELSE v[a]] : s \in [Var \ F -> Num]}
  BY DEF Opt!Feasible, Opt!Points
<1>2. PICK s \in [Var \ F -> Num] : w = [a \in Opt!Atom |-> IF a \in Var \ F THEN s[a] ELSE v[a]]
  BY <1>1
<1>3. IsAnswer(s, F) /\ w = Point(s, v, F)
  BY <1>2 DEF IsAnswer, Point, Atom, Opt!Atom
<1>4. QED
  BY <1>3

(* The objective of the GRBModel is that of the model but for a constant.  *)
LEMMA SameObjective ==
    ASSUME NEW m \in Models, NEW F \in SUBSET Var, NEW v, Values(v, Atom),
           NEW g, g.obj \in Poly, IsModel(g, m, v, F), NEW u, IsAnswer(u, F)
    PROVE  LET f == Collect(Exprs[m][1], v, F)
               x == Opt!ExprValue(Exprs[m][1], Point(u, v, F))
           IN  /\ PolyValue(g.obj, u) \in Int /\ g.obj[<<>>] \in Int /\ f[<<>>] \in Int /\ x \in Int
               /\ PolyValue(g.obj, u) - g.obj[<<>>] = x - f[<<>>]
<1> DEFINE f == Collect(Exprs[m][1], v, F)
           x == Opt!ExprValue(Exprs[m][1], Point(u, v, F))
           h == g.obj
<1>1. Len(Exprs[m]) \in Nat /\ Len(Exprs[m]) >= 1
  BY ExprsType, LenProperties, ModelsType
<1>2. 1 \in 1..Len(Exprs[m])
  BY <1>1
<1>3. ~Refused(Exprs[m][1], v, F)
  BY <1>2 DEF IsModel
<1>4. f \in Poly /\ OfFree(f, F)
  BY <1>2, ModelExprType
<1>5. x = PolyValue(f, u)
  BY <1>2, <1>3, ModelExpr
<1>6. Values(u, Var \ F)
  BY AnswerNumbers
<1>7. h \in Poly /\ \A n \in Monomial \ {<<>>} : h[n] = f[n]
  BY DEF IsModel
<1> HIDE DEF f, x, h
<1>8. OfFree(h, F)
  <2>1. <<>> \in Seq(Var \ F)
    BY EmptySeq
  <2>2. QED
    BY <1>4, <1>7, <2>1 DEF OfFree
<1>9. h[<<>>] \in Int /\ f[<<>>] \in Int /\ PolyValue(h, u) - h[<<>>] = PolyValue(f, u) - f[<<>>]
  BY <1>4, <1>6, <1>7, <1>8, PolyShift
<1>10. PolyValue(h, u) \in Int /\ PolyValue(f, u) \in Int
  BY <1>4, <1>6, <1>7, <1>8, PolyFacts
<1>11. QED
  BY <1>5, <1>9, <1>10 DEF f, x, h

(* Optimal answers of the GRBModel are optimal solutions of the model.     *)
LEMMA OptimalPoints ==
    ASSUME NEW m \in Models, NEW F \in SUBSET Var, NEW v, Values(v, Atom),
           NEW g, HasRows(g), g.obj \in Poly, IsModel(g, m, v, F)
    PROVE  /\ \A u \in Optimal(g) : IsAnswer(u, F) /\ Point(u, v, F) \in Opt!Optimal(m, v, F)
           /\ Optimal(g) = {} => Opt!Optimal(m, v, F) = {}
<1> DEFINE P(u) == Point(u, v, F)
           X(w) == Opt!ExprValue(Exprs[m][1], w)
           V(u) == PolyValue(g.obj, u)
           k == g.obj[<<>>] - Collect(Exprs[m][1], v, F)[<<>>]
           G == Feasible(g)
           M == Opt!Feasible(m, v, F)
<1>1. ASSUME NEW u \in G PROVE IsAnswer(u, F)
  BY DEF Feasible, IsModel, IsAnswer
<1>2. ASSUME NEW u, IsAnswer(u, F)
      PROVE  u \in G <=> P(u) \in M
  BY <1>2, FeasiblePoints
<1>3. ASSUME NEW u, IsAnswer(u, F)
      PROVE  V(u) \in Int /\ X(P(u)) \in Int /\ k \in Int /\ V(u) = X(P(u)) + k
  <2> DEFINE a == g.obj[<<>>]
             b == Collect(Exprs[m][1], v, F)[<<>>]
  <2>1. V(u) \in Int
    BY <1>3, SameObjective
  <2>2. a \in Int
    BY <1>3, SameObjective
  <2>3. b \in Int
    BY <1>3, SameObjective
  <2>4. X(P(u)) \in Int
    BY <1>3, SameObjective
  <2>5. V(u) - a = X(P(u)) - b
    BY <1>3, SameObjective
  <2>6. k = a - b
    OBVIOUS
  <2> HIDE DEF V, X, P, a, b, k
  <2>7. QED
    BY <2>1, <2>2, <2>3, <2>4, <2>5, <2>6
<1>4. \A w \in M : \E u : IsAnswer(u, F) /\ w = P(u)
  BY PointsAreAnswers
<1>5. Optimal(g) = {u \in G : \A s \in G : V(u) <= V(s)}
  BY DEF Optimal
<1>6. Opt!Optimal(m, v, F) = {w \in M : \A s \in M : X(w) <= X(s)}
  BY DEF Opt!Optimal
<1> HIDE DEF P, X, V, k, G, M
<1>7. ASSUME NEW u, IsAnswer(u, F)
      PROVE  u \in Optimal(g) <=> P(u) \in Opt!Optimal(m, v, F)
  <2>1. ASSUME NEW s, IsAnswer(s, F) PROVE V(u) <= V(s) <=> X(P(u)) <= X(P(s))
    BY <1>3, <1>7, <2>1
  <2>2. (\A s \in G : V(u) <= V(s)) <=> \A s \in M : X(P(u)) <= X(s)
    <3>1. ASSUME \A s \in G : V(u) <= V(s), NEW w \in M PROVE X(P(u)) <= X(w)
      <4>1. PICK s : IsAnswer(s, F) /\ w = P(s)
        BY <1>4
      <4>2. s \in G
        BY <1>2, <4>1
      <4>3. QED
        BY <2>1, <3>1, <4>1, <4>2
    <3>2. ASSUME \A s \in M : X(P(u)) <= X(s), NEW s \in G PROVE V(u) <= V(s)
      <4>1. IsAnswer(s, F) /\ P(s) \in M
        BY <1>1, <1>2
      <4>2. QED
        BY <2>1, <3>2, <4>1
    <3>3. QED
      BY <3>1, <3>2
  <2>3. QED
    BY <1>2, <1>5, <1>6, <1>7, <2>2
<1>8. \A w \in Opt!Optimal(m, v, F) : w \in M
  BY <1>6
<1>9. \A u \in Optimal(g) : u \in G
  BY <1>5
<1>10. \A u \in Optimal(g) : IsAnswer(u, F) /\ P(u) \in Opt!Optimal(m, v, F)
  BY <1>1, <1>7, <1>9
<1>11. Optimal(g) = {} => Opt!Optimal(m, v, F) = {}
  BY <1>4, <1>7, <1>8
<1>12. QED
  BY <1>10, <1>11 DEF P

-----------------------------------------------------------------------------
(* What the build makes of a model.                                        *)

(* The build stops at the first expression it cannot represent, or not.    *)
LEMMA StopFacts ==
    ASSUME NEW m \in Models, NEW v, NEW F
    PROVE  /\ Len(Exprs[m]) \in Nat /\ Len(Exprs[m]) >= 1
           /\ Stop(m, v, F) \in 1..(Len(Exprs[m]) + 1)
           /\ \A j \in 1..(Stop(m, v, F) - 1) : ~Refused(Exprs[m][j], v, F)
<1> DEFINE n == Len(Exprs[m])
           Bad(j) == Refused(Exprs[m][j], v, F)
           S == {j \in 1..n : Bad(j)}
           Is(k) == /\ k <= n => Bad(k)
                    /\ \A j \in 1..(k - 1) : ~Bad(j)
<1>1. n \in Nat /\ n >= 1
  BY ExprsType, LenProperties, ModelsType
<1>2. Stop(m, v, F) = CHOOSE k \in 1..(n + 1) : Is(k)
  BY DEF Stop
<1>3. \E k \in 1..(n + 1) : Is(k)
  <2>1. CASE S = {}
    <3>1. n + 1 \in 1..(n + 1) /\ ~(n + 1 <= n) /\ (n + 1) - 1 = n
      BY <1>1
    <3>2. Is(n + 1)
      BY <2>1, <3>1
    <3>3. QED
      BY <3>1, <3>2
  <2>2. CASE S # {}
    <3>1. S \in SUBSET Nat
      BY <1>1
    <3>2. PICK k \in S : \A j \in S : k <= j
      <4> HIDE DEF S
      <4>1. QED
        BY <2>2, <3>1, Least
    <3>3. k \in 1..n /\ Bad(k)
      OBVIOUS
    <3> HIDE DEF n, Bad
    <3>4. \A j \in 1..(k - 1) : j \in 1..n /\ ~(k <= j)
      BY <1>1, <3>3
    <3>5. Is(k)
      BY <3>2, <3>3, <3>4
    <3>6. k \in 1..(n + 1)
      BY <1>1, <3>3
    <3>7. QED
      BY <3>5, <3>6
  <2>3. QED
    BY <2>1, <2>2
<1> HIDE DEF Is
<1>4. Stop(m, v, F) \in 1..(n + 1) /\ Is(Stop(m, v, F))
  BY <1>2, <1>3
<1>5. QED
  BY <1>1, <1>4 DEF Is

(* A row.                                                                  *)
LEMMA RowForType ==
    ASSUME NEW m \in Models, NEW j \in 1..Len(Exprs[m]), NEW F \in SUBSET Var,
           NEW v, Values(v, Atom), NEW d \in Range(Demands(m, j))
    PROVE  RowFor(m, j, d, v, F) \in Row
<1> DEFINE f == Collect(Exprs[m][j], v, F)
           b == Opt!BoundValue(d[2], v)
<1>1. f \in Poly
  BY ModelExprType
<1>2. <<>> \in Monomial
  BY DEF Monomial
<1>3. d[1] \in {"<=", ">=", "="} /\ d[2] \in {Lower[m][j], Upper[m][j]} \ {None}
  BY DemandsFacts
<1>4. d[2] \in Int \cup Param
  BY <1>3, DemandsFacts
<1>5. b \in Int
  <2>1. Values(v, Param)
    BY DEF Values, Atom
  <2>2. QED
    BY <1>4, <2>1, BoundType
<1>6. j \in Nat
  BY StopFacts
<1> HIDE DEF f, b
<1>7. [f EXCEPT ![<<>>] = 0] \in Poly /\ f[<<>>] \in Int
  BY <1>1, <1>2 DEF Poly
<1>8. b - f[<<>>] \in Int
  BY <1>5, <1>7
<1>9. QED
  BY <1>3, <1>6, <1>7, <1>8 DEF RowFor, Row, f, b

(* The rows of a constraint.                                               *)
LEMMA RowsOfFacts ==
    ASSUME NEW m \in Models, NEW j \in 1..Len(Exprs[m]), NEW F \in SUBSET Var,
           NEW v, Values(v, Atom)
    PROVE  /\ RowsOf(m, j, v, F) \in Seq(Row)
           /\ ~HasCoefs(Exprs[m][j], {1, 2}, v, F) => RowsOf(m, j, v, F) = <<>>
           /\ HasCoefs(Exprs[m][j], {1, 2}, v, F) =>
                Range(RowsOf(m, j, v, F)) = {RowFor(m, j, d, v, F) : d \in Range(Demands(m, j))}
           /\ \A r \in Range(RowsOf(m, j, v, F)) : r.con = j
<1> DEFINE D == Demands(m, j)
           s == RowsOf(m, j, v, F)
           R(d) == RowFor(m, j, d, v, F)
<1>1. Len(D) \in Nat /\ DOMAIN D = 1..Len(D)
  BY DemandsFacts
<1>2. \A i \in 1..Len(D) : D[i] \in Range(D)
  BY <1>1 DEF Range
<1>3. \A d \in Range(D) : R(d) \in Row /\ R(d).con = j
  <2>1. \A d \in Range(D) : R(d) \in Row
    BY RowForType
  <2>2. \A d \in Range(D) : R(d).con = j
    BY DEF RowFor
  <2>3. QED
    BY <2>1, <2>2
<1>4. CASE HasCoefs(Exprs[m][j], {1, 2}, v, F)
  <2>1. s = [i \in 1..Len(D) |-> R(D[i])]
    BY <1>4 DEF RowsOf
  <2> HIDE DEF D, R, s
  <2>2. s \in Seq(Row)
    BY <1>1, <1>2, <1>3, <2>1, IsASeq
  <2>3. Range(s) = {R(d) : d \in Range(D)}
    BY <1>1, <2>1 DEF Range
  <2>4. \A r \in Range(s) : r.con = j
    BY <1>3, <2>3
  <2>5. QED
    BY <1>4, <2>2, <2>3, <2>4 DEF D, R, s
<1>5. CASE ~HasCoefs(Exprs[m][j], {1, 2}, v, F)
  <2>1. s = <<>>
    BY <1>5 DEF RowsOf
  <2>2. s \in Seq(Row) /\ Range(s) = {}
    BY <2>1, EmptySeq DEF Range
  <2>3. QED
    BY <1>5, <2>1, <2>2
<1>6. QED
  BY <1>4, <1>5

(* The rows s are those of one class of constraints up to the n-th.        *)
RowsOfClass(s, m, n, quadratic, v, F) ==
    \A r : r \in Range(s) <=>
        \E j \in 2..n : IsQuadratic(m, j, v, F) = quadratic /\ r \in Range(RowsOf(m, j, v, F))

(* A class has the rows of its constraints.                                *)
LEMMA RowsBeforeFacts ==
    ASSUME NEW m \in Models, NEW k \in 1..(Len(Exprs[m]) + 1), NEW F \in SUBSET Var,
           NEW v, Values(v, Atom), NEW quadratic
    PROVE  /\ RowsBefore(m, k, quadratic, v, F) \in Seq(Row)
           /\ RowsOfClass(RowsBefore(m, k, quadratic, v, F), m, k - 1, quadratic, v, F)
<1> DEFINE Counts(j) == j > 1 /\ IsQuadratic(m, j, v, F) = quadratic
           Of(j) == RowsOf(m, j, v, F)
           R == [j \in 1..(k - 1) |-> IF Counts(j) THEN Of(j) ELSE <<>>]
           q == RowsBefore(m, k, quadratic, v, F)
           n == k - 1
<1>1. n \in Nat /\ \A j \in 1..n : j \in 1..Len(Exprs[m])
  BY StopFacts
<1>2. q = Concatenated(R, n)
  BY DEF RowsBefore
<1>3. \A j \in 1..n : Of(j) \in Seq(Row)
  BY <1>1, RowsOfFacts
<1>4. \A j \in 1..n : R[j] \in Seq(Row) /\ (Counts(j) => R[j] = Of(j)) /\ (~Counts(j) => R[j] = <<>>)
  <2> HIDE DEF Counts, Of
  <2>1. QED
    BY <1>3, EmptySeq
<1> HIDE DEF R, q, Of, n
<1>5. HoldsParts(Row, R, q, n)
  BY <1>1, <1>2, <1>4, ConcatenatedMembers
<1>6. q \in Seq(Row) /\ DOMAIN q = 1..Len(q)
  BY <1>5 DEF HoldsParts
<1>7. \A j \in 1..n : DOMAIN Of(j) = 1..Len(Of(j))
  BY <1>3
<1>8. ASSUME NEW r, r \in Range(q)
      PROVE  \E j \in 2..n : IsQuadratic(m, j, v, F) = quadratic /\ r \in Range(Of(j))
  <2>1. PICK i \in 1..Len(q) : r = q[i]
    BY <1>6, <1>8 DEF Range
  <2>2. PICK j \in 1..n : \E l \in 1..Len(R[j]) : q[i] = R[j][l]
    BY <1>5 DEF HoldsParts
  <2>3. PICK l \in 1..Len(R[j]) : q[i] = R[j][l]
    BY <2>2
  <2>4. Counts(j)
    <3> SUFFICES ASSUME ~Counts(j) PROVE FALSE
      OBVIOUS
    <3>1. R[j] = <<>>
      BY <1>4
    <3>2. QED
      BY <2>3, <3>1
  <2>5. R[j] = Of(j) /\ r \in Range(Of(j))
    BY <1>4, <1>7, <2>1, <2>3, <2>4 DEF Range
  <2>6. j \in 2..n
    BY <1>1, <2>4
  <2>7. QED
    BY <2>4, <2>5, <2>6
<1>9. ASSUME NEW r, NEW j \in 2..n, IsQuadratic(m, j, v, F) = quadratic, r \in Range(Of(j))
      PROVE  r \in Range(q)
  <2>1. j \in 1..n /\ Counts(j)
    BY <1>1, <1>9
  <2>2. R[j] = Of(j)
    BY <1>4, <2>1
  <2>3. PICK l \in 1..Len(R[j]) : r = R[j][l]
    BY <1>7, <1>9, <2>1, <2>2 DEF Range
  <2>4. PICK i \in 1..Len(q) : q[i] = R[j][l]
    BY <1>5, <2>1, <2>3 DEF HoldsParts
  <2>5. QED
    BY <1>6, <2>3, <2>4 DEF Range
<1>10. RowsOfClass(q, m, n, quadratic, v, F)
  BY <1>8, <1>9 DEF RowsOfClass, Of
<1>11. QED
  BY <1>6, <1>10 DEF q, n

(* What is built is a GRBModel.                                            *)
LEMMA BuiltType ==
    ASSUME NEW m \in Models, NEW k \in 1..(Len(Exprs[m]) + 1), NEW F \in SUBSET Var,
           NEW v, Values(v, Atom)
    PROVE  Built(m, k, v, F) \in GModel(Var \ F) /\ Var \ F \in SUBSET Var
<1> DEFINE g == Built(m, k, v, F)
<1>1. g.lb \in Bounds(Var \ F) /\ g.ub \in Bounds(Var \ F)
  <2>1. \A y \in Var \ F : ColumnBounds(VarLower, v, F)[y] \in Int \cup {None}
    BY ColumnBound
  <2>2. \A y \in Var \ F : ColumnBounds(VarUpper, v, F)[y] \in Int \cup {None}
    BY ColumnBound
  <2>3. \A b : ColumnBounds(b, v, F) = [y \in Var \ F |-> ColumnBounds(b, v, F)[y]]
    BY DEF ColumnBounds
  <2>4. ColumnBounds(VarLower, v, F) \in Bounds(Var \ F)
    BY <2>1, <2>3 DEF Bounds
  <2>5. ColumnBounds(VarUpper, v, F) \in Bounds(Var \ F)
    BY <2>2, <2>3 DEF Bounds
  <2>6. QED
    BY <2>4, <2>5 DEF Built
<1>2. g.obj \in Poly
  <2>1. 1 \in 1..Len(Exprs[m])
    BY StopFacts
  <2>2. Collect(Exprs[m][1], v, F) \in Poly
    BY <2>1, ModelExprType
  <2>3. [n \in Monomial |-> 0] \in Poly
    BY DEF Poly
  <2>4. QED
    BY <2>2, <2>3 DEF Built
<1>3. g.rows \in Seq(Row) /\ g.qrows \in Seq(Row)
  BY RowsBeforeFacts DEF Built
<1>4. /\ g.complete \in BOOLEAN /\ g.cols = Var \ F
      /\ g = [complete |-> g.complete, cols |-> g.cols, lb |-> g.lb, ub |-> g.ub, obj |-> g.obj,
              rows |-> g.rows, qrows |-> g.qrows]
  BY DEF Built
<1> HIDE DEF g
<1>5. g \in GModel(Var \ F)
  BY <1>1, <1>2, <1>3, <1>4 DEF GModel
<1>6. QED
  BY <1>5 DEF g

(* Without coefficients there is nothing but a constant.                   *)
LEMMA NoCoefs ==
    ASSUME NEW e \in Seq(Term), NEW F, NEW v, Values(v, Param \cup F),
           ~HasCoefs(e, {1, 2}, v, F), NEW n \in Monomial \ {<<>>}
    PROVE  Collect(e, v, F)[n] = 0
<1>1. \A i \in 1..Len(e) : Share(e, v, F, n)[i] = Neutral("+")
  <2> SUFFICES ASSUME NEW i \in 1..Len(e), FreeVars(e[i], F) = n
               PROVE  FactorValue(e[i], v, F) = 0
    BY DEF Share, Neutral
  <2>1. e[i] \in Term
    BY QuadraticTerms
  <2>2. Degree(e[i], F) \in 0..2
    BY QuadraticTerms
  <2>3. Degree(e[i], F) # 0
    BY <2>1, FreeVarsFacts
  <2>4. Degree(e[i], F) \in {1, 2}
    BY <2>2, <2>3
  <2>5. QED
    BY <2>4 DEF HasCoefs
<1>2. IsFiniteSet(1..Len(e))
  BY QuadraticTerms
<1>3. FoldOver("+", Share(e, v, F, n), 1..Len(e)) = Neutral("+")
  BY <1>1, <1>2, FoldOfNone
<1>4. QED
  BY <1>3, CollectFacts DEF Neutral

(* Without free variables there are no coefficients.                       *)
LEMMA AllFixed ==
    ASSUME NEW e \in Seq(Term), NEW F, Var \ F = {}, NEW v
    PROVE  ~HasCoefs(e, {1, 2}, v, F)
<1>1. ASSUME NEW i \in 1..Len(e) PROVE Degree(e[i], F) = 0
  <2>1. e[i] \in Term
    BY QuadraticTerms
  <2>2. \A k \in 1..Len(e[i].vars) : e[i].vars[k] \in Var
    BY <2>1, TermFacts
  <2>3. FreePlaces(e[i], F) = {}
    BY <2>2 DEF FreePlaces
  <2>4. Degree(e[i], F) = Cardinality(FreePlaces(e[i], F))
    BY <2>1, FreeVarsFacts
  <2>5. QED
    BY <2>3, <2>4, FS_EmptySet
<1>2. QED
  BY <1>1 DEF HasCoefs

(* A complete build that dropped no constraint is the model.               *)
LEMMA BuiltIsModel ==
    ASSUME NEW m \in Models, NEW F \in SUBSET Var, NEW v, Values(v, Atom),
           SoundBuild(m, Built(m, Stop(m, v, F), v, F))
    PROVE  IsModel(Built(m, Stop(m, v, F), v, F), m, v, F)
<1> DEFINE k == Stop(m, v, F)
           g == Built(m, k, v, F)
           n == Len(Exprs[m])
           Of(j) == RowsOf(m, j, v, F)
           Wanted(j) == {RowFor(m, j, d, v, F) : d \in Range(Demands(m, j))}
<1>1. n \in Nat /\ n >= 1 /\ k \in 1..(n + 1) /\ \A j \in 1..(k - 1) : ~Refused(Exprs[m][j], v, F)
  BY StopFacts
<1>2. k > n
  BY DEF SoundBuild, Built
<1>3. k = n + 1 /\ k - 1 = n
  BY <1>1, <1>2
<1>4. \A j \in 1..n : ~Refused(Exprs[m][j], v, F)
  BY <1>1, <1>3
<1>5. \A j \in 2..n : j \in 1..n
  BY <1>1
<1>6. /\ \A r : r \in Range(g.rows) <=> \E j \in 2..n : IsQuadratic(m, j, v, F) = FALSE /\ r \in Range(Of(j))
      /\ \A r : r \in Range(g.qrows) <=> \E j \in 2..n : IsQuadratic(m, j, v, F) = TRUE /\ r \in Range(Of(j))
  <2>1. g.rows = RowsBefore(m, k, FALSE, v, F) /\ g.qrows = RowsBefore(m, k, TRUE, v, F)
    BY DEF Built
  <2> HIDE DEF g, k
  <2>2. RowsOfClass(g.rows, m, k - 1, FALSE, v, F)
    BY <1>1, <2>1, RowsBeforeFacts
  <2>3. RowsOfClass(g.qrows, m, k - 1, TRUE, v, F)
    BY <1>1, <2>1, RowsBeforeFacts
  <2>4. QED
    BY <1>3, <2>2, <2>3 DEF RowsOfClass
<1>7. \A j \in 2..n : IsQuadratic(m, j, v, F) \in BOOLEAN
  BY DEF IsQuadratic, HasCoefs
<1>8. \A r : r \in AllRows(g) <=> \E j \in 2..n : r \in Range(Of(j))
  <2> HIDE DEF g, Of, n
  <2>1. QED
    BY <1>6, <1>7 DEF AllRows
<1>9. \A j \in 2..n : \A r \in Range(Of(j)) : r.con = j
  BY <1>5, RowsOfFacts
<1>10. HasRows(g)
  BY <1>1, BuiltType DEF GModel, HasRows
<1>11. ASSUME NEW j \in 2..n PROVE Range(Of(j)) = Wanted(j)
  <2>1. CASE HasCoefs(Exprs[m][j], {1, 2}, v, F)
    BY <1>5, <2>1, RowsOfFacts
  <2>2. CASE ~HasCoefs(Exprs[m][j], {1, 2}, v, F)
    <3>1. Of(j) = <<>>
      BY <1>5, <2>2, RowsOfFacts
    <3>2. Range(Of(j)) = {}
      BY <3>1 DEF Range
    <3>3. ~\E r \in AllRows(g) : r.con = j
      <4> HIDE DEF g, Of
      <4>1. QED
        BY <1>8, <1>9, <3>2
    <3>4. Lower[m][j] = None /\ Upper[m][j] = None
      <4>1. \/ Lower[m][j] = None /\ Upper[m][j] = None
            \/ \E i \in 1..Len(g.rows) : g.rows[i].con = j
            \/ \E i \in 1..Len(g.qrows) : g.qrows[i].con = j
        BY DEF SoundBuild, NoneDropped
      <4> HIDE DEF g
      <4>2. QED
        BY <1>10, <3>3, <4>1, RowsAreAll
    <3>5. Range(Demands(m, j)) = {}
      BY <1>5, <3>4, DemandsFacts
    <3>6. QED
      BY <3>2, <3>5
  <2>3. QED
    BY <2>1, <2>2
<1>12. AllRows(g) = UNION {Wanted(j) : j \in 2..n}
  <2> HIDE DEF g, Of, Wanted, n
  <2>1. QED
    BY <1>8, <1>11
<1>13. \A r \in Range(g.rows), q \in Range(g.qrows) : r.con # q.con
  <2> HIDE DEF g, Of, n
  <2>1. QED
    BY <1>6, <1>9
<1>14. g.cols = {} => AllRows(g) = {}
  <2> SUFFICES ASSUME Var \ F = {}, NEW j \in 2..n PROVE Range(Of(j)) = {}
    <3>1. g.cols = Var \ F
      BY DEF Built
    <3> HIDE DEF g, Of, n
    <3>2. QED
      BY <1>8, <3>1
  <2>1. Exprs[m][j] \in Seq(Term)
    BY <1>5, ModelExprType
  <2>2. ~HasCoefs(Exprs[m][j], {1, 2}, v, F)
    BY <2>1, AllFixed
  <2>3. Of(j) = <<>>
    BY <1>5, <2>2, RowsOfFacts
  <2>4. QED
    BY <2>3 DEF Range
<1>15. \A l \in Monomial \ {<<>>} : g.obj[l] = Collect(Exprs[m][1], v, F)[l]
  <2>1. 1 \in 1..n /\ k > 1
    BY <1>1, <1>3
  <2>2. Exprs[m][1] \in Seq(Term) /\ Values(v, Param \cup F)
    BY <2>1, ModelExprType
  <2>3. CASE HasCoefs(Exprs[m][1], {1, 2}, v, F)
    BY <2>1, <2>3 DEF Built
  <2>4. CASE ~HasCoefs(Exprs[m][1], {1, 2}, v, F)
    <3>1. \A l \in Monomial : g.obj[l] = 0
      BY <2>4 DEF Built
    <3>2. \A l \in Monomial \ {<<>>} : Collect(Exprs[m][1], v, F)[l] = 0
      BY <2>2, <2>4, NoCoefs
    <3>3. QED
      BY <3>1, <3>2
  <2>5. QED
    BY <2>3, <2>4
<1>16. /\ g.cols = Var \ F
       /\ g.lb = ColumnBounds(VarLower, v, F) /\ g.ub = ColumnBounds(VarUpper, v, F)
  BY DEF Built
<1> HIDE DEF g
<1>17. QED
  BY <1>4, <1>12, <1>13, <1>14, <1>15, <1>16 DEF IsModel, g

-----------------------------------------------------------------------------
(* Slots and what is pushed into them.                                     *)

(* A slot is a constant, a nonlinear remainder or one coefficient.         *)
LEMMA SlotFacts ==
    ASSUME NEW r \in Seq(Seq(Entry)), NEW s \in Slots(r)
    PROVE  /\ s = <<s[1], s[2], s[3]>> /\ s[1] \in 1..Len(r) /\ s[3] \in Nat
           /\ \/ s[2] \in {Constant, Nonlinear} /\ s[3] = 0
              \/ /\ s[2] \in {Linear, Quadratic}
                 /\ s[3] \in 1..Len(r[s[1]]) /\ r[s[1]][s[3]].kind = s[2]
<1>1. \A j \in 1..Len(r) : Len(r[j]) \in Nat
  BY ElementOfSeq, LenProperties
<1>2. CASE s \in WholeSlots(r)
  BY <1>2 DEF WholeSlots
<1>3. CASE s \in CoefSlots(r)
  <2>1. PICK j \in 1..Len(r) : s \in {<<j, r[j][i].kind, i>> : i \in {i \in 1..Len(r[j]) :
                                                        r[j][i].kind \in {Linear, Quadratic}}}
    BY <1>3 DEF CoefSlots
  <2>2. PICK i \in 1..Len(r[j]) : r[j][i].kind \in {Linear, Quadratic} /\ s = <<j, r[j][i].kind, i>>
    BY <2>1
  <2>3. s[1] = j /\ s[2] = r[j][i].kind /\ s[3] = i /\ i \in Nat
    BY <1>1, <2>2
  <2>4. QED
    BY <2>2, <2>3
<1>4. QED
  BY <1>2, <1>3 DEF Slots

LEMMA LinearSlotFacts ==
    ASSUME NEW r \in Seq(Seq(Entry)), NEW s \in Slots(r), s[2] = Linear
    PROVE  /\ s = <<s[1], Linear, s[3]>> /\ s[1] \in 1..Len(r)
           /\ s[3] \in 1..Len(r[s[1]]) /\ r[s[1]][s[3]].kind = Linear
<1>1. s[2] \notin {Constant, Nonlinear}
  BY DEF Linear, Constant, Nonlinear
<1>2. QED
  BY <1>1, SlotFacts

(* The entries of a representation.                                        *)
LEMMA EntryFacts ==
    ASSUME NEW r \in Seq(Seq(Entry)), NEW j \in 1..Len(r)
    PROVE  Len(r[j]) \in Nat /\ \A i \in 1..Len(r[j]) : r[j][i] \in Entry
BY ElementOfSeq, LenProperties

LEMMA EntryNumber ==
    ASSUME NEW e \in Entry, NEW v, Values(v, Atom)
    PROVE  EntryValue(e, v) \in Int
<1> DEFINE g == [i \in 1..Len(e.vars) |-> IF e.vars[i] \in e.coef THEN v[e.vars[i]] ELSE 1]
<1>1. Len(e.vars) \in Nat /\ \A i \in 1..Len(e.vars) : e.vars[i] \in Var
  BY LenProperties, ElementOfSeq DEF Entry
<1>2. Numbers(g, 1..Len(e.vars))
  <2>1. IsFiniteSet(1..Len(e.vars))
    BY <1>1, FS_Interval
  <2>2. \A i \in 1..Len(e.vars) : g[i] \in Int
    BY <1>1 DEF Values, Atom
  <2>3. QED
    BY <2>1, <2>2 DEF Numbers
<1>3. Numbers(v, e.coef \cap Param)
  <2>1. IsFiniteSet(e.coef \cap Param)
    BY FinitelyMany, FS_Subset
  <2>2. QED
    BY <2>1 DEF Numbers, Values, Atom
<1>4. EntryValue(e, v) = FoldOver("*", v, e.coef \cap Param) * FoldOver("*", g, 1..Len(e.vars))
  BY DEF EntryValue, ProductOver
<1> HIDE DEF g
<1>5. FoldOver("*", v, e.coef \cap Param) \in Int /\ FoldOver("*", g, 1..Len(e.vars)) \in Int
  BY <1>2, <1>3, FoldType
<1>6. QED
  BY <1>4, <1>5

(* The constants of an expression, as constval has them.                   *)
Constants(j, v) ==
    [i \in 1..Len(repn[j]) |-> IF repn[j][i].kind = Constant THEN EntryValue(repn[j][i], v) ELSE 0]

LEMMA ConstvalNumber ==
    ASSUME repn \in Seq(Seq(Entry)), NEW j \in 1..Len(repn), NEW v, Values(v, Atom)
    PROVE  Constval(j, v) \in Int
<1>1. Len(repn[j]) \in Nat /\ \A i \in 1..Len(repn[j]) : repn[j][i] \in Entry
  BY EntryFacts
<1>2. \A i \in 1..Len(repn[j]) : Constants(j, v)[i] \in Int
  BY <1>1, EntryNumber DEF Constants
<1>3. Numbers(Constants(j, v), 1..Len(repn[j]))
  <2>1. IsFiniteSet(1..Len(repn[j]))
    BY <1>1, FS_Interval
  <2>2. QED
    BY <1>2, <2>1 DEF Numbers
<1>4. Constval(j, v) = FoldOver("+", Constants(j, v), 1..Len(repn[j]))
  BY DEF Constval, SumOver, Constants
<1>5. QED
  BY <1>3, <1>4, FoldType

(* The slots that hold the coefficient of a variable, and the last of them.*)
LinearSlots(j, n, S) == {s \in S : s[1] = j /\ s[2] = Linear /\ <<LinearVar(s)>> = n}

LastSlot(T) == CHOOSE s \in T : \A t \in T : t[3] <= s[3]

LEMMA LastSlotFacts ==
    ASSUME repn \in Seq(Seq(Entry)), NEW S, S \in SUBSET Slots(repn), NEW j, NEW n,
           LinearSlots(j, n, S) # {}
    PROVE  LastSlot(LinearSlots(j, n, S)) \in LinearSlots(j, n, S)
<1> DEFINE T == LinearSlots(j, n, S)
           P == {s[3] : s \in T}
           N == Len(repn[j])
<1>1. \A s \in T : s[1] = j /\ s[1] \in 1..Len(repn) /\ s[3] \in Nat
  BY SlotFacts DEF LinearSlots
<1>2. \A s \in T : s[3] \in 1..N
  <2> SUFFICES ASSUME NEW s \in T PROVE s[3] \in 1..N
    OBVIOUS
  <2>1. s \in Slots(repn) /\ s[1] = j /\ s[2] = Linear
    BY DEF LinearSlots
  <2>2. QED
    BY <2>1, LinearSlotFacts
<1>3. j \in 1..Len(repn)
  BY <1>1
<1>4. N \in Nat
  BY <1>3, EntryFacts
<1> HIDE DEF T, N
<1>5. P \in SUBSET (0..N) /\ P # {}
  BY <1>2, <1>4 DEF T
<1>6. PICK k \in P : \A l \in P : l <= k
  <2> HIDE DEF P
  <2>1. QED
    BY <1>4, <1>5, Greatest
<1>7. \E s \in T : \A t \in T : t[3] <= s[3]
  BY <1>6
<1>8. QED
  BY <1>7 DEF LastSlot, T

LEMMA PatchFacts ==
    ASSUME NEW f, NEW j, NEW S, NEW n \in Monomial
    PROVE  /\ LinearSlots(j, n, S) = {} => PatchLinear(f, j, S)[n] = f[n]
           /\ LinearSlots(j, n, S) # {} =>
                PatchLinear(f, j, S)[n] = EntryValue(repn[j][LastSlot(LinearSlots(j, n, S))[3]], val)
BY DEF PatchLinear, LinearSlots, LastSlot

LEMMA PatchType ==
    ASSUME repn \in Seq(Seq(Entry)), Values(val, Atom), NEW S, S \in SUBSET Slots(repn), NEW j,
           NEW f \in Poly
    PROVE  PatchLinear(f, j, S) \in Poly
<1>1. ASSUME NEW n \in Monomial PROVE PatchLinear(f, j, S)[n] \in Int
  <2>1. CASE LinearSlots(j, n, S) = {}
    BY <2>1, PatchFacts DEF Poly
  <2>2. CASE LinearSlots(j, n, S) # {}
    <3> DEFINE s == LastSlot(LinearSlots(j, n, S))
    <3>1. s \in LinearSlots(j, n, S)
      BY <2>2, LastSlotFacts
    <3>2. s \in Slots(repn) /\ s[1] = j /\ s[2] = Linear
      BY <3>1 DEF LinearSlots
    <3> HIDE DEF s
    <3>3. s[1] \in 1..Len(repn) /\ s[3] \in 1..Len(repn[j])
      BY <3>2, LinearSlotFacts
    <3>4. repn[j][s[3]] \in Entry
      BY <3>2, <3>3, EntryFacts
    <3>5. EntryValue(repn[j][s[3]], val) \in Int
      BY <3>4, EntryNumber
    <3>6. QED
      BY <2>2, <3>5, PatchFacts DEF s
  <2>3. QED
    BY <2>1, <2>2
<1>2. PatchLinear(f, j, S) = [n \in Monomial |-> PatchLinear(f, j, S)[n]]
  BY DEF PatchLinear
<1> DEFINE h == PatchLinear(f, j, S)
<1> HIDE DEF h
<1>3. h = [n \in Monomial |-> h[n]] /\ \A n \in Monomial : h[n] \in Int
  BY <1>1, <1>2 DEF h
<1>4. h \in [Monomial -> Int]
  BY <1>3
<1>5. QED
  BY <1>4 DEF Poly, h

(* The fields of what is pushed into.                                      *)
LEMMA PushedFacts ==
    ASSUME NEW C, NEW g \in GModel(C), NEW S
    PROVE  /\ Len(g.rows) \in Nat /\ DOMAIN g.rows = 1..Len(g.rows)
           /\ \A k \in 1..Len(g.rows) : g.rows[k] \in Row
           /\ Pushed(g, S) = [complete |-> g.complete, cols |-> g.cols, lb |-> g.lb, ub |-> g.ub,
                              obj |-> PushedObj(g.obj, S),
                              rows |-> Pushed(g, S).rows, qrows |-> g.qrows]
           /\ Pushed(g, S).rows =
                [k \in 1..Len(g.rows) |->
                    [con |-> g.rows[k].con, poly |-> PatchLinear(g.rows[k].poly, k + 1, S),
                     sense |-> g.rows[k].sense, rhs |-> PushedRhs(g.rows[k].rhs, k, S)]]
<1>1. g.rows \in Seq(Row)
  BY DEF GModel
<1>2. /\ Len(g.rows) \in Nat /\ DOMAIN g.rows = 1..Len(g.rows)
      /\ \A k \in 1..Len(g.rows) : g.rows[k] \in Row
  BY <1>1, LenProperties, ElementOfSeq
<1>3. ASSUME NEW r \in Row, NEW p, NEW x
      PROVE  [r EXCEPT !.poly = p, !.rhs = x]
                = [con |-> r.con, poly |-> p, sense |-> r.sense, rhs |-> x]
  <2>1. r = [con |-> r.con, poly |-> r.poly, sense |-> r.sense, rhs |-> r.rhs]
    BY DEF Row
  <2> DEFINE q == [r EXCEPT !.poly = p]
  <2>2. q = [con |-> r.con, poly |-> p, sense |-> r.sense, rhs |-> r.rhs]
    BY <2>1
  <2>3. [r EXCEPT !.poly = p, !.rhs = x] = [q EXCEPT !.rhs = x]
    OBVIOUS
  <2> HIDE DEF q
  <2>4. [q EXCEPT !.rhs = x] = [con |-> r.con, poly |-> p, sense |-> r.sense, rhs |-> x]
    BY <2>2
  <2>5. QED
    BY <2>3, <2>4
<1>4. ASSUME NEW o, NEW R
      PROVE  [g EXCEPT !.obj = o, !.rows = R]
                = [complete |-> g.complete, cols |-> g.cols, lb |-> g.lb, ub |-> g.ub,
                   obj |-> o, rows |-> R, qrows |-> g.qrows]
  <2>1. g = [complete |-> g.complete, cols |-> g.cols, lb |-> g.lb, ub |-> g.ub,
             obj |-> g.obj, rows |-> g.rows, qrows |-> g.qrows]
    BY DEF GModel
  <2> DEFINE q == [g EXCEPT !.obj = o]
  <2>2. q = [complete |-> g.complete, cols |-> g.cols, lb |-> g.lb, ub |-> g.ub,
             obj |-> o, rows |-> g.rows, qrows |-> g.qrows]
    BY <2>1
  <2>3. [g EXCEPT !.obj = o, !.rows = R] = [q EXCEPT !.rows = R]
    OBVIOUS
  <2> HIDE DEF q
  <2>4. [q EXCEPT !.rows = R]
            = [complete |-> g.complete, cols |-> g.cols, lb |-> g.lb, ub |-> g.ub,
               obj |-> o, rows |-> R, qrows |-> g.qrows]
    BY <2>2
  <2>5. QED
    BY <2>3, <2>4
<1> DEFINE R == [k \in DOMAIN g.rows |-> PushedRow(g.rows[k], k, S)]
           Q == [k \in 1..Len(g.rows) |->
                    [con |-> g.rows[k].con, poly |-> PatchLinear(g.rows[k].poly, k + 1, S),
                     sense |-> g.rows[k].sense, rhs |-> PushedRhs(g.rows[k].rhs, k, S)]]
<1>5. Pushed(g, S) = [g EXCEPT !.obj = PushedObj(g.obj, S), !.rows = R]
  BY DEF Pushed
<1>6. R = Q
  <2>1. ASSUME NEW k \in 1..Len(g.rows) PROVE R[k] = Q[k]
    <3> DEFINE r == g.rows[k]
               p == PatchLinear(r.poly, k + 1, S)
               x == PushedRhs(r.rhs, k, S)
    <3>1. r \in Row /\ R[k] = PushedRow(r, k, S)
      BY <1>2
    <3>2. PushedRow(r, k, S) = [r EXCEPT !.poly = p, !.rhs = x]
      BY DEF PushedRow
    <3>3. Q[k] = [con |-> r.con, poly |-> p, sense |-> r.sense, rhs |-> x]
      OBVIOUS
    <3> HIDE DEF r, p, x, R, Q
    <3>4. [r EXCEPT !.poly = p, !.rhs = x]
             = [con |-> r.con, poly |-> p, sense |-> r.sense, rhs |-> x]
      BY <1>3, <3>1
    <3>5. QED
      BY <3>1, <3>2, <3>3, <3>4
  <2>2. R = [k \in 1..Len(g.rows) |-> R[k]] /\ Q = [k \in 1..Len(g.rows) |-> Q[k]]
    BY <1>2
  <2> HIDE DEF R, Q
  <2>3. QED
    BY <2>1, <2>2
<1> HIDE DEF R, Q
<1>7. Pushed(g, S) = [complete |-> g.complete, cols |-> g.cols, lb |-> g.lb, ub |-> g.ub,
                      obj |-> PushedObj(g.obj, S), rows |-> R, qrows |-> g.qrows]
  BY <1>4, <1>5
<1>8. Pushed(g, S).rows = Q
  BY <1>6, <1>7
<1>9. QED
  BY <1>2, <1>6, <1>7, <1>8 DEF Q

(* A slot of a representation whose expression is constant is not nowhere. *)
LEMMA ConstantSlot ==
    ASSUME repn \in Seq(Seq(Entry)), Values(val, Atom), NEW j, NEW S, S \in SUBSET Slots(repn),
           <<j, Constant, 0>> \in S
    PROVE  Constval(j, val) \in Int
<1> DEFINE s == <<j, Constant, 0>>
<1>1. s \in Slots(repn)
  OBVIOUS
<1>2. s[1] = j
  OBVIOUS
<1> HIDE DEF s
<1>3. j \in 1..Len(repn)
  BY <1>1, <1>2, SlotFacts
<1>4. QED
  BY <1>3, ConstvalNumber

LEMMA PushedType ==
    ASSUME repn \in Seq(Seq(Entry)), Values(val, Atom),
           NEW S, S \in SUBSET Slots(repn), NEW C, NEW g \in GModel(C)
    PROVE  Pushed(g, S) \in GModel(C)
<1> DEFINE h == Pushed(g, S)
<1>1. Len(g.rows) \in Nat /\ \A k \in 1..Len(g.rows) : g.rows[k] \in Row
  BY PushedFacts
<1>2. h = [complete |-> g.complete, cols |-> g.cols, lb |-> g.lb, ub |-> g.ub,
           obj |-> PushedObj(g.obj, S), rows |-> h.rows, qrows |-> g.qrows]
  BY PushedFacts
<1>3. h.rows = [k \in 1..Len(g.rows) |->
                  [con |-> g.rows[k].con, poly |-> PatchLinear(g.rows[k].poly, k + 1, S),
                   sense |-> g.rows[k].sense, rhs |-> PushedRhs(g.rows[k].rhs, k, S)]]
  BY PushedFacts
<1>4. PushedObj(g.obj, S) \in Poly
  <2>1. g.obj \in Poly
    BY DEF GModel
  <2>2. PatchLinear(g.obj, 1, S) \in Poly
    BY <2>1, PatchType
  <2>3. CASE <<1, Constant, 0>> \in S
    <3>1. Constval(1, val) \in Int
      BY <2>3, ConstantSlot
    <3> DEFINE f == PatchLinear(g.obj, 1, S)
               c == Constval(1, val)
    <3>2. PushedObj(g.obj, S) = [f EXCEPT ![<<>>] = c]
      BY <2>3 DEF PushedObj
    <3>3. f \in [Monomial -> Int] /\ c \in Int
      BY <2>2, <3>1 DEF Poly
    <3> HIDE DEF f, c
    <3>4. QED
      BY <3>2, <3>3 DEF Poly
  <2>4. CASE <<1, Constant, 0>> \notin S
    BY <2>2, <2>4 DEF PushedObj
  <2>5. QED
    BY <2>3, <2>4
<1> HIDE DEF h
<1>5. \A k \in 1..Len(g.rows) : h.rows[k] \in Row
  <2> SUFFICES ASSUME NEW k \in 1..Len(g.rows) PROVE h.rows[k] \in Row
    OBVIOUS
  <2>1. /\ g.rows[k].con \in Nat /\ g.rows[k].poly \in Poly
        /\ g.rows[k].sense \in {"<=", ">=", "="} /\ g.rows[k].rhs \in Int
    BY <1>1 DEF Row
  <2>2. PatchLinear(g.rows[k].poly, k + 1, S) \in Poly
    BY <2>1, PatchType
  <2>3. PushedRhs(g.rows[k].rhs, k, S) \in Int
    <3>1. CASE <<k + 1, Constant, 0>> \in S
      <4>1. Constval(k + 1, val) \in Int
        BY <3>1, ConstantSlot
      <4>2. QED
        BY <3>1, <4>1 DEF PushedRhs
    <3>2. CASE <<k + 1, Constant, 0>> \notin S
      BY <2>1, <3>2 DEF PushedRhs
    <3>3. QED
      BY <3>1, <3>2
  <2>4. h.rows[k] = [con |-> g.rows[k].con, poly |-> PatchLinear(g.rows[k].poly, k + 1, S),
                     sense |-> g.rows[k].sense, rhs |-> PushedRhs(g.rows[k].rhs, k, S)]
    BY <1>3
  <2>5. QED
    BY <2>1, <2>2, <2>3, <2>4 DEF Row
<1>6. h.rows \in Seq(Row)
  <2> DEFINE R == h.rows
             n == Len(g.rows)
  <2>1. R = [k \in 1..n |-> R[k]]
    BY <1>3
  <2>2. n \in Nat /\ \A k \in 1..n : R[k] \in Row
    BY <1>1, <1>5
  <2> HIDE DEF R, n
  <2>3. R \in Seq(Row)
    BY <2>1, <2>2, IsASeq
  <2>4. QED
    BY <2>3 DEF R
<1>7. /\ g.complete \in BOOLEAN /\ g.cols \in {C} /\ g.lb \in Bounds(C) /\ g.ub \in Bounds(C)
      /\ g.qrows \in Seq(Row)
  BY DEF GModel
<1>8. h \in GModel(C)
  <2> DEFINE R == h.rows
             o == PushedObj(g.obj, S)
  <2>1. h = [complete |-> g.complete, cols |-> g.cols, lb |-> g.lb, ub |-> g.ub,
             obj |-> o, rows |-> R, qrows |-> g.qrows]
    BY <1>2
  <2>2. o \in Poly /\ R \in Seq(Row)
    BY <1>4, <1>6
  <2> HIDE DEF R, o
  <2>3. QED
    BY <1>7, <2>1, <2>2 DEF GModel
<1>9. QED
  BY <1>8 DEF h

-----------------------------------------------------------------------------
(* Types.                                                                  *)

(* What is written back are numbers, and only free variables change.       *)
Rewritten(F) ==
    /\ val' \in [Atom -> Num]
    /\ \A a \in Atom \ F : val'[a] = val[a]

LEMMA WrittenFacts ==
    ASSUME val \in [Atom -> Num], NEW F, NEW u, \A a \in Atom \cap F : u[a] \in Num,
           val' = Written(F, u)
    PROVE  Rewritten(F)
BY DEF Written, Rewritten

LEMMA ReadAnswerFacts ==
    ASSUME val \in [Atom -> Num], NEW g, ReadAnswer(g)
    PROVE  Rewritten(Var \ fixed) /\ result' \in {"ok", "failed", "crashed"}
<1> DEFINE free == Var \ fixed
           stale == (free \cap handles) \ g.cols
<1>1. \A u \in Optimal(g) : u \in [g.cols -> Num]
  BY DEF Optimal, Feasible
<1>2. \A H : Broken(H) \subseteq {"failed", "crashed"}
  BY DEF Broken
<1>3. CASE /\ \E u \in Optimal(g) \cup {[y \in {} |-> 0]}, w \in [stale -> Num] :
                /\ free \ stale \subseteq DOMAIN u
                /\ val' = Written(free, [y \in free |-> IF y \in stale THEN w[y] ELSE u[y]])
           /\ result' = "ok"
  <2>1. PICK u \in Optimal(g) \cup {[y \in {} |-> 0]}, w \in [stale -> Num] :
                /\ free \ stale \subseteq DOMAIN u
                /\ val' = Written(free, [y \in free |-> IF y \in stale THEN w[y] ELSE u[y]])
    BY <1>3
  <2>2. \A y \in DOMAIN u : u[y] \in Num
    BY <1>1
  <2> DEFINE x == [y \in free |-> IF y \in stale THEN w[y] ELSE u[y]]
  <2>3. \A y \in free : x[y] \in Num
    BY <2>1, <2>2
  <2>4. val' = Written(free, x)
    BY <2>1
  <2> HIDE DEF x, free
  <2>5. Rewritten(free)
    BY <2>3, <2>4, WrittenFacts
  <2>6. QED
    BY <1>3, <2>5 DEF free
<1>4. CASE val' = val /\ result' \in Broken(stale)
  BY <1>2, <1>4 DEF Rewritten
<1>5. CASE /\ \E u \in Optimal(g) : \E F \in SUBSET (free \cap g.cols) : val' = Written(F, u)
           /\ result' \in Broken(stale)
  <2>1. PICK u \in Optimal(g), F \in SUBSET (free \cap g.cols) : val' = Written(F, u)
    BY <1>5
  <2>2. \A y \in F : u[y] \in Num
    BY <1>1
  <2>3. Rewritten(F)
    BY <2>1, <2>2, WrittenFacts
  <2>4. QED
    BY <1>2, <1>5, <2>3 DEF Rewritten
<1>6. QED
  BY <1>3, <1>4, <1>5 DEF ReadAnswer

LEMMA AnswersFacts ==
    ASSUME val \in [Atom -> Num], NEW g, val' \in Answers(g)
    PROVE  Rewritten(g.cols)
<1>1. CASE val' = val
  BY <1>1 DEF Rewritten
<1>2. CASE \E u \in Optimal(g) : val' = Written(g.cols, u)
  <2>1. PICK u \in Optimal(g) : val' = Written(g.cols, u)
    BY <1>2
  <2>2. u \in [g.cols -> Num]
    BY DEF Optimal, Feasible
  <2>3. QED
    BY <2>1, <2>2, WrittenFacts
<1>3. QED
  BY <1>1, <1>2 DEF Answers

(* Only slots are ever updated.                                            *)
LEMMA UpdatedSlots ==
    ASSUME RepnFits, ~initial
    PROVE  UpdatedCoefs \in SUBSET Slots(repn)
BY DEF RepnFits, UpdatedCoefs, UpdatedValues, Tracked

(* initial_solve() fits the cache to the map.                              *)
LEMMA CacheFits ==
    ASSUME val \in [Atom -> Num], RepnFits, fixed' = fixed,
           InitialSolveFirst \/ InitialSolveAgain
    PROVE  RepnFits' /\ ~initial'
<1>1. repn' = repn /\ coefmap' = coefmap /\ Tracked' = Tracked
  BY DEF InitialSolveFirst, InitialSolveAgain, repnVars, Tracked
<1>2. initial' = FALSE
  BY DEF InitialSolveFirst, InitialSolveAgain, RepnFits
<1>3. DOMAIN cache' = Tracked /\ \A a \in DOMAIN cache' : cache'[a] \in Num
  <2>1. CASE InitialSolveFirst
    <3>1. cache' = [a \in Tracked |-> val[a]] /\ Tracked \in SUBSET Atom
      BY <2>1 DEF InitialSolveFirst, Tracked
    <3>2. QED
      BY <3>1
  <2>2. CASE InitialSolveAgain
    <3>1. ~initial /\ cache' = RefreshedCache
      BY <2>2 DEF InitialSolveAgain
    <3>2. DOMAIN cache = Tracked /\ Tracked \in SUBSET Atom /\ \A a \in DOMAIN cache : cache[a] \in Num
      BY <3>1 DEF RepnFits, Tracked
    <3>3. DOMAIN cache' = Tracked
      BY <3>1, <3>2 DEF RefreshedCache
    <3>4. \A a \in DOMAIN cache : cache'[a] \in Num
      BY <3>1, <3>2 DEF RefreshedCache
    <3>5. QED
      BY <3>2, <3>3, <3>4
  <2>3. QED
    BY <2>1, <2>2
<1>4. /\ fixed' \in SUBSET Var /\ repn' \in Seq(Seq(Entry))
      /\ coefmap' \in [Atom -> SUBSET Slots(repn')]
  BY <1>1 DEF RepnFits
<1>5. QED
  BY <1>1, <1>2, <1>3, <1>4 DEF RepnFits

(* load() and reset() empty it.                                            *)
LEMMA LoadFits ==
    ASSUME RepnFits, NEW m \in Models, LoadRepn(m)
    PROVE  RepnFits'
<1>1. fixed' = fixed /\ fixed \in SUBSET Var /\ repn \in Seq(Seq(Entry))
  BY DEF LoadRepn, modelVars, RepnFits
<1>2. repn' \in Seq(Seq(Entry))
  BY <1>1, LoadedRepnType
<1>3. initial' = TRUE /\ cache' = <<>>
  BY DEF LoadRepn, ResetCache
<1>4. coefmap' \in [Atom -> SUBSET Slots(repn')]
  BY DEF LoadRepn, CoefMap
<1>5. DOMAIN cache' = {}
  BY <1>3
<1>6. QED
  BY <1>1, <1>2, <1>3, <1>4, <1>5 DEF RepnFits

LEMMA ResetFits ==
    ASSUME RepnFits, Reset
    PROVE  RepnFits'
<1>1. initial' = TRUE /\ cache' = <<>> /\ UNCHANGED <<fixed, repn, coefmap>>
  BY DEF Reset, ResetCache, modelVars, repnVars
<1>2. DOMAIN cache' = {}
  BY <1>1
<1>3. QED
  BY <1>1, <1>2 DEF RepnFits

LEMMA SameFits ==
    ASSUME RepnFits, fixed' \in SUBSET Var, UNCHANGED <<repnVars, cacheVars>>
    PROVE  RepnFits'
<1>1. UNCHANGED <<repn, coefmap, initial, cache>>
  BY DEF repnVars, cacheVars
<1>2. Tracked' = Tracked
  BY <1>1 DEF Tracked
<1>3. QED
  BY <1>1, <1>2 DEF RepnFits

(* The types are inductive together with what a representation fits.       *)
Typed == TypeOK /\ RepnFits

LEMMA TypedInit == Init => Typed
<1> SUFFICES ASSUME Init PROVE Typed
  OBVIOUS
<1>1. TypeOK
  BY DEF Init, InitSolverRepn, TypeOK
<1>2. repn = <<>> /\ cache = <<>> /\ initial = TRUE /\ coefmap = [a \in Atom |-> {}]
      /\ fixed \in SUBSET Var
  BY DEF Init, InitSolverRepn
<1>3. repn \in Seq(Seq(Entry))
  BY <1>2, EmptySeq
<1>4. DOMAIN cache = {}
  BY <1>2
<1>5. RepnFits
  BY <1>2, <1>3, <1>4 DEF RepnFits
<1>6. QED
  BY <1>1, <1>5 DEF Typed

(* The first resolve builds what fits and reads it back.                   *)
LEMMA TypedResolveFirst ==
    ASSUME Typed, ResolveFirst
    PROVE  Typed'
<1>1. loaded \in Models /\ fixed \in SUBSET Var /\ val \in [Atom -> Num] /\ RepnFits
  BY DEF Typed, TypeOK, RepnFits, ResolveFirst
<1>2. Values(val, Atom)
  BY <1>1, NumbersAreIntegers DEF Values
<1>3. gmodel' = Built(loaded, Stop(loaded, val, fixed), val, fixed)
  BY DEF ResolveFirst
<1>4. Stop(loaded, val, fixed) \in 1..(Len(Exprs[loaded]) + 1)
  BY <1>1, StopFacts
<1>5. gmodel' \in GModel(Var \ fixed) /\ Var \ fixed \in SUBSET Var
  BY <1>1, <1>2, <1>3, <1>4, BuiltType
<1>6. gmodel'.cols = Var \ fixed /\ gmodel'.complete \in BOOLEAN
  BY <1>5 DEF GModel
<1>7. handles' \in SUBSET Var
  BY <1>6 DEF ResolveFirst, Typed, TypeOK
<1>8. val' \in [Atom -> Num] /\ result' \in {"none", "ok", "failed", "crashed"}
  <2>1. CASE ReadAnswer(gmodel')
    BY <1>1, <2>1, ReadAnswerFacts DEF Rewritten
  <2>2. CASE ~gmodel'.complete
    BY <1>1, <2>2 DEF ResolveFirst
  <2>3. QED
    BY <2>1, <2>2 DEF ResolveFirst
<1>9. kept' \in BOOLEAN /\ sound' \in BOOLEAN /\ fixed' = fixed
      /\ loaded' = loaded /\ loadFixed' = loadFixed
  BY <1>6 DEF ResolveFirst, SoundBuild, NoneDropped
<1>10. \E C \in SUBSET Var : gmodel' \in GModel(C)
  BY <1>5
<1>11. TypeOK'
  BY <1>7, <1>8, <1>9, <1>10 DEF TypeOK, Typed
<1>12. InitialSolveFirst
  BY DEF ResolveFirst
<1>13. RepnFits'
  BY <1>1, <1>9, <1>12, CacheFits
<1>14. QED
  BY <1>11, <1>13 DEF Typed

(* Later ones push slots and read it back.                                 *)
LEMMA TypedResolveAgain ==
    ASSUME Typed, ResolveAgain
    PROVE  Typed'
<1>1. loaded \in Models /\ fixed \in SUBSET Var /\ val \in [Atom -> Num] /\ RepnFits
  BY DEF Typed, TypeOK, RepnFits, ResolveAgain
<1>2. Values(val, Atom) /\ repn \in Seq(Seq(Entry))
  BY <1>1, NumbersAreIntegers DEF Values, RepnFits
<1>3. InitialSolveAgain /\ ~initial /\ updated_coefs' \in SUBSET Slots(repn)
  BY <1>1, UpdatedSlots DEF ResolveAgain, InitialSolveAgain
<1>4. UNCHANGED <<fixed, handles, loaded, loadFixed, kept>>
  BY DEF ResolveAgain
<1>5. sound' \in BOOLEAN
  BY DEF ResolveAgain, SoundUpdate, Updatable
<1>6. /\ gmodel' # Null => \E C \in SUBSET Var : gmodel' \in GModel(C)
      /\ val' \in [Atom -> Num] /\ result' \in {"none", "ok", "failed", "crashed"}
  <2>1. CASE gmodel = Null
    BY <1>1, <2>1 DEF ResolveAgain
  <2>2. CASE gmodel # Null
    <3>1. PICK C \in SUBSET Var : gmodel \in GModel(C)
      BY <2>2 DEF Typed, TypeOK
    <3>2. gmodel' = Pushed(gmodel, PushedSlots(gmodel, updated_coefs'))
      BY <2>2 DEF ResolveAgain
    <3>3. PushedSlots(gmodel, updated_coefs') \in SUBSET Slots(repn)
      BY <1>3 DEF PushedSlots
    <3>4. gmodel' \in GModel(C)
      BY <1>2, <3>1, <3>2, <3>3, PushedType
    <3>5. CASE result' \in Broken(handles \ gmodel.cols) /\ val' = val
      BY <1>1, <3>4, <3>5 DEF Broken
    <3>6. CASE ReadAnswer(gmodel')
      BY <1>1, <3>4, <3>6, ReadAnswerFacts DEF Rewritten
    <3>7. QED
      BY <2>2, <3>5, <3>6 DEF ResolveAgain
  <2>3. QED
    BY <2>1, <2>2
<1>7. TypeOK'
  BY <1>4, <1>5, <1>6 DEF TypeOK, Typed
<1>8. RepnFits'
  BY <1>1, <1>3, <1>4, CacheFits
<1>9. QED
  BY <1>7, <1>8 DEF Typed

LEMMA TypedSolve ==
    ASSUME Typed, NEW m \in Models, Solve(m)
    PROVE  Typed'
<1>1. fixed \in SUBSET Var /\ val \in [Atom -> Num] /\ RepnFits
  BY DEF Typed, TypeOK, RepnFits
<1>2. Values(val, Atom)
  BY <1>1, NumbersAreIntegers DEF Values
<1> DEFINE g == Built(m, Stop(m, val, fixed), val, fixed)
<1>3. Stop(m, val, fixed) \in 1..(Len(Exprs[m]) + 1)
  BY <1>1, StopFacts
<1>4. g \in GModel(Var \ fixed) /\ Var \ fixed \in SUBSET Var
  BY <1>1, <1>2, <1>3, BuiltType
<1>5. /\ gmodel' = IF g.complete THEN Null ELSE g
      /\ handles' = handles \cup g.cols
      /\ \/ g.complete /\ result' = "ok" /\ val' \in Answers(g)
         \/ ~g.complete /\ result' = "failed" /\ val' = val
      /\ sound' = (result' = "ok" /\ SoundBuild(m, g))
      /\ UNCHANGED <<fixed, repnVars, cacheVars, loaded, loadFixed, kept>>
  BY DEF Solve
<1> HIDE DEF g
<1>6. g.cols = Var \ fixed /\ g.complete \in BOOLEAN
  BY <1>4 DEF GModel
<1>7. val' \in [Atom -> Num] /\ result' \in {"ok", "failed"}
  BY <1>1, <1>5, AnswersFacts DEF Rewritten
<1>8. handles' \in SUBSET Var /\ sound' \in BOOLEAN
  BY <1>5, <1>6 DEF Typed, TypeOK, SoundBuild, NoneDropped
<1>9. gmodel' # Null => \E C \in SUBSET Var : gmodel' \in GModel(C)
  BY <1>4, <1>5
<1>10. TypeOK'
  BY <1>5, <1>7, <1>8, <1>9 DEF Typed, TypeOK
<1>11. RepnFits'
  BY <1>1, <1>5, SameFits
<1>12. QED
  BY <1>10, <1>11 DEF Typed

(* The client's steps leave the GRBModel alone.                            *)
LEMMA TypedClient ==
    ASSUME Typed, SetValue \/ Fix \/ Load \/ Reset
    PROVE  Typed'
<1>1. UNCHANGED <<gmodel, handles>> /\ result' = "none" /\ sound' = FALSE
  BY DEF SetValue, Fix, Load, Reset, ClientStep, gurobiVars
<1>2. RepnFits /\ val \in [Atom -> Num] /\ fixed \in SUBSET Var
  BY DEF Typed, TypeOK, RepnFits
<1>3. val' \in [Atom -> Num] /\ fixed' \in SUBSET Var
  <2>1. CASE SetValue
    BY <1>2, <2>1 DEF SetValue, SetModelValue
  <2>2. CASE Fix
    BY <1>2, <2>2 DEF Fix, SetFixed
  <2>3. CASE Load
    BY <1>2, <2>3 DEF Load, LoadRepn, modelVars
  <2>4. CASE Reset
    BY <1>2, <2>4 DEF Reset, modelVars
  <2>5. QED
    BY <2>1, <2>2, <2>3, <2>4
<1>4. RepnFits'
  <2>1. CASE SetValue \/ Fix
    <3>1. UNCHANGED <<repnVars, cacheVars>>
      BY <2>1 DEF SetValue, Fix, SetModelValue, SetFixed
    <3>2. QED
      BY <1>2, <1>3, <3>1, SameFits
  <2>2. CASE Load
    BY <1>2, <2>2, LoadFits DEF Load
  <2>3. CASE Reset
    BY <1>2, <2>3, ResetFits
  <2>4. QED
    BY <2>1, <2>2, <2>3
<1>5. loaded' \in Models \cup {None} /\ loadFixed' \in SUBSET Var /\ kept' \in BOOLEAN
  BY <1>2 DEF SetValue, Fix, Load, Reset, Typed, TypeOK
<1>6. TypeOK'
  BY <1>1, <1>3, <1>5 DEF Typed, TypeOK
<1>7. QED
  BY <1>4, <1>6 DEF Typed

LEMMA TypedStep == Typed /\ [Next]_vars => Typed'
<1> SUFFICES ASSUME Typed, [Next]_vars PROVE Typed'
  OBVIOUS
<1>1. RepnFits /\ val \in [Atom -> Num] /\ fixed \in SUBSET Var
  BY DEF Typed, TypeOK, RepnFits
<1>2. CASE SetValue \/ Fix \/ Load \/ Reset
  BY <1>2, TypedClient
<1>3. CASE ResolveNoEnv
  <2>1. InitialSolveFirst /\ fixed' = fixed
    BY <1>3 DEF ResolveNoEnv, modelVars
  <2>2. RepnFits'
    BY <1>1, <2>1, CacheFits
  <2>3. TypeOK'
    BY <1>3 DEF ResolveNoEnv, modelVars, gurobiVars, Typed, TypeOK
  <2>4. QED
    BY <2>2, <2>3 DEF Typed
<1>4. CASE ResolveFirst
  BY <1>4, TypedResolveFirst
<1>5. CASE ResolveAgain
  BY <1>5, TypedResolveAgain
<1>6. CASE SolveNoEnv
  <2>1. UNCHANGED <<repnVars, cacheVars>> /\ fixed' = fixed
    BY <1>6 DEF SolveNoEnv, modelVars
  <2>2. RepnFits'
    BY <1>1, <2>1, SameFits
  <2>3. TypeOK'
    BY <1>6 DEF SolveNoEnv, modelVars, gurobiVars, Typed, TypeOK
  <2>4. QED
    BY <2>2, <2>3 DEF Typed
<1>7. CASE SolveModel
  BY <1>7, TypedSolve DEF SolveModel
<1>8. CASE UNCHANGED vars
  <2>1. UNCHANGED <<repnVars, cacheVars>> /\ fixed' = fixed
    BY <1>8 DEF vars, modelVars
  <2>2. RepnFits'
    BY <1>1, <2>1, SameFits
  <2>3. TypeOK'
    BY <1>8 DEF vars, modelVars, gurobiVars, history, Typed, TypeOK
  <2>4. QED
    BY <2>2, <2>3 DEF Typed
<1>9. QED
  BY <1>2, <1>3, <1>4, <1>5, <1>6, <1>7, <1>8 DEF Next, Resolve

(* Whatever is loaded, fixed and solved in whatever order: the GRBModel    *)
(* kept is over variables of the model, what is written back is numbers,   *)
(* and the slots to push are slots of the representation.                  *)
THEOREM TypeCorrect == Spec => []TypeOK
<1>1. Typed => TypeOK
  BY DEF Typed
<1>2. QED
  BY TypedInit, TypedStep, <1>1, PTL DEF Spec

-----------------------------------------------------------------------------
(* The representation is that of the model loaded, when it was loaded once.*)

(* The actions that are not load().                                        *)
LEMMA OnlyLoadLoads ==
    ASSUME [Next]_vars, ~Load
    PROVE  UNCHANGED <<repnVars, loaded, loadFixed>>
<1>1. CASE SetValue \/ Fix \/ Reset
  BY <1>1 DEF SetValue, Fix, Reset, SetModelValue, SetFixed, repnVars
<1>2. CASE ResolveNoEnv
  BY <1>2 DEF ResolveNoEnv, InitialSolveFirst
<1>3. CASE ResolveFirst
  BY <1>3 DEF ResolveFirst, InitialSolveFirst
<1>4. CASE ResolveAgain
  BY <1>4 DEF ResolveAgain, InitialSolveAgain
<1>5. CASE SolveNoEnv \/ SolveModel
  BY <1>5 DEF SolveNoEnv, SolveModel, Solve
<1>6. CASE UNCHANGED vars
  BY <1>6 DEF vars, history
<1>7. QED
  BY <1>1, <1>2, <1>3, <1>4, <1>5, <1>6 DEF Next, Resolve

LEMMA LoadedOnceStep ==
    ASSUME LoadedOnce, [Next]_vars
    PROVE  LoadedOnce'
<1>1. CASE ~Load
  <2>1. UNCHANGED <<repn, mutable, coefmap, loads, loaded, loadFixed>>
    BY <1>1, OnlyLoadLoads DEF repnVars
  <2>2. QED
    BY <2>1 DEF LoadedOnce
<1>2. CASE Load
  <2>1. PICK m \in Models : LoadRepn(m) /\ loaded' = m
    BY <1>2 DEF Load
  <2>2. loads' = loads + 1 /\ loads \in Nat /\ loadFixed' = fixed
    BY <1>2, <2>1 DEF LoadRepn, LoadedOnce, Load
  <2>3. loads' \in Nat /\ loads' # 0
    BY <2>2
  <2>4. ASSUME loads' = 1
        PROVE  /\ repn' = [j \in 1..Len(Exprs[m]) |-> CollectTerms(<<>>, Exprs[m][j], fixed)]
               /\ coefmap' = CoefMap(repn', mutable', fixed)
               /\ \A j \in 1..Len(Exprs[m]) : \A i \in 1..Len(Exprs[m][j]) :
                     SetsMutable(Exprs[m][j][i], fixed) => mutable'[j]
    <3>1. repn = <<>>
      BY <2>2, <2>4 DEF LoadedOnce
    <3>2. \A j \in 1..Len(Exprs[m]) : OldRepn(j) = <<>>
      BY <3>1 DEF OldRepn
    <3>3. repn' = [j \in 1..Len(Exprs[m]) |-> CollectTerms(<<>>, Exprs[m][j], fixed)]
      BY <2>1, <3>2 DEF LoadRepn
    <3>4. \A j \in 1..Len(Exprs[m]) : mutable'[j] = IsMutable(j, Exprs[m][j], fixed)
      BY <2>1 DEF LoadRepn
    <3>5. QED
      BY <2>1, <3>3, <3>4 DEF LoadRepn, IsMutable
  <2>5. QED
    BY <2>1, <2>2, <2>3, <2>4 DEF LoadedOnce
<1>3. QED
  BY <1>1, <1>2

(* A GRBModel is kept only with a cache to compare with.                   *)
CacheBehind == initial => ~kept

LEMMA CacheBehindStep ==
    ASSUME CacheBehind, [Next]_vars
    PROVE  CacheBehind'
<1>1. CASE SetValue \/ Fix
  BY <1>1 DEF SetValue, Fix, SetModelValue, SetFixed, cacheVars, CacheBehind
<1>2. CASE Load \/ Reset
  BY <1>2 DEF Load, Reset, CacheBehind
<1>3. CASE ResolveNoEnv
  BY <1>3 DEF ResolveNoEnv, InitialSolveFirst, CacheBehind
<1>4. CASE ResolveFirst
  BY <1>4 DEF ResolveFirst, InitialSolveFirst, CacheBehind
<1>5. CASE ResolveAgain
  BY <1>5 DEF ResolveAgain, InitialSolveAgain, CacheBehind
<1>6. CASE SolveNoEnv \/ SolveModel
  BY <1>6 DEF SolveNoEnv, SolveModel, Solve, cacheVars, CacheBehind
<1>7. CASE UNCHANGED vars
  BY <1>7 DEF vars, history, cacheVars, CacheBehind
<1>8. QED
  BY <1>1, <1>2, <1>3, <1>4, <1>5, <1>6, <1>7 DEF Next, Resolve

-----------------------------------------------------------------------------
(* Entries: what load() kept of a term is the coefficient of the term.     *)

LEMMA EntryIsFactor ==
    ASSUME NEW t \in Term, NEW F \in SUBSET Var, KindOf(t, F) # Nonlinear, NEW v
    PROVE  EntryValue(EntryOf(t, F), v) = FactorValue(t, v, F)
<1> DEFINE e == EntryOf(t, F)
<1>1. e.coef = t.coef \cup (VarsOf(t) \cap F) /\ e.vars = t.vars
  BY DEF EntryOf
<1>2. e.coef \cap Param = t.coef
  BY <1>1, AtomsApart, TermFacts
<1>3. \A i \in 1..Len(t.vars) : e.vars[i] \in e.coef <=> t.vars[i] \in F
  BY <1>1, AtomsApart, TermFacts DEF VarsOf
<1> HIDE DEF e
<1>4. [i \in 1..Len(e.vars) |-> IF e.vars[i] \in e.coef THEN v[e.vars[i]] ELSE 1]
        = [i \in 1..Len(t.vars) |-> IF t.vars[i] \in F THEN v[t.vars[i]] ELSE 1]
  BY <1>1, <1>3
<1>5. EntryValue(e, v) = FactorValue(t, v, F)
  BY <1>1, <1>2, <1>4 DEF EntryValue, FactorValue
<1>6. QED
  BY <1>5 DEF e

(* The kinds tell the degrees of terms without intrinsic functions.        *)
LEMMA KindIsDegree ==
    ASSUME NEW t \in Term, ~t.fn, NEW F
    PROVE  /\ KindOf(t, F) \in {Constant, Linear, Quadratic, Nonlinear}
           /\ KindOf(t, F) = Constant <=> FreeVars(t, F) = <<>>
           /\ KindOf(t, F) = Linear <=> Degree(t, F) = 1
           /\ KindOf(t, F) = Quadratic <=> Degree(t, F) = 2
<1>1. Degree(t, F) \in Nat /\ (Degree(t, F) = 0 <=> FreeVars(t, F) = <<>>)
  BY FreeVarsFacts
<1>2. QED
  BY <1>1 DEF KindOf, Constant, Linear, Quadratic, Nonlinear

(* The variable of a linear term.                                          *)
FreeVarOf(e) == e.vars[CHOOSE i \in 1..Len(e.vars) : e.vars[i] \notin e.coef]

LEMMA FreeVarIs ==
    ASSUME NEW t \in Term, NEW F \in SUBSET Var, KindOf(t, F) # Nonlinear, Degree(t, F) = 1
    PROVE  FreeVars(t, F) = <<FreeVarOf(EntryOf(t, F))>> /\ FreeVarOf(EntryOf(t, F)) \in Var \ F
<1> DEFINE e == EntryOf(t, F)
           P == FreePlaces(t, F)
           c == CHOOSE i \in 1..Len(e.vars) : e.vars[i] \notin e.coef
<1>1. e.coef = t.coef \cup (VarsOf(t) \cap F) /\ e.vars = t.vars
  BY DEF EntryOf
<1>2. P = {i \in 1..Len(e.vars) : e.vars[i] \notin e.coef}
  BY <1>1, AtomsApart, TermFacts DEF VarsOf, FreePlaces
<1>3. IsFiniteSet(P) /\ P \in SUBSET Nat /\ Cardinality(P) = 1
  BY FreeVarsFacts
<1>4. Nth(P, 1) \in P
  BY <1>3, NthMembers
<1>5. c \in P
  <2>1. \E i \in 1..Len(e.vars) : e.vars[i] \notin e.coef
    BY <1>2, <1>4
  <2> HIDE DEF P, e
  <2>2. QED
    BY <1>2, <2>1
<1>6. Nth(P, 1) = c
  <2>1. PICK n \in 1..Cardinality(P) : Nth(P, n) = c
    BY <1>3, <1>5, NthMembers
  <2>2. n = 1
    BY <1>3, <2>1
  <2>3. QED
    BY <2>1, <2>2
<1>7. FreeVars(t, F)[1] = t.vars[c]
  <2>1. 1 \in 1..Degree(t, F)
    OBVIOUS
  <2>2. FreeVars(t, F)[1] = t.vars[Nth(P, 1)]
    BY <2>1 DEF FreeVars
  <2>3. QED
    BY <1>6, <2>2
<1>8. PICK y \in Var \ F : FreeVars(t, F) = <<y>>
  BY FreeVarsFacts
<1>9. FreeVarOf(e) = t.vars[c]
  BY <1>1 DEF FreeVarOf
<1>10. y = t.vars[c]
  BY <1>7, <1>8
<1>11. QED
  BY <1>8, <1>9, <1>10

-----------------------------------------------------------------------------
(* What is pushed brings the GRBModel from the cached values to the        *)
(* current ones.                                                           *)

(* A later resolve() finds a GRBModel that follows the values v.           *)
Behind(v) ==
    /\ Typed /\ LoadedOnce /\ Updatable /\ ~initial /\ Tol = 0
    /\ v \in [Atom -> Num] /\ \A a \in DOMAIN cache : v[a] = cache[a]
    /\ IsModel(gmodel, loaded, v, loadFixed)

TermAt(j, i) == Exprs[loaded][j][i]

SlotAt(j, i) ==
    <<j, KindOf(TermAt(j, i), loadFixed),
      IF KindOf(TermAt(j, i), loadFixed) = Constant THEN 0 ELSE i>>

LEMMA BehindFacts ==
    ASSUME NEW v, Behind(v)
    PROVE  /\ loaded \in Models /\ loadFixed \in SUBSET Var
           /\ Values(v, Atom) /\ Values(val, Atom)
           /\ repn \in Seq(Seq(Entry)) /\ Len(repn) = Len(Exprs[loaded])
           /\ Len(Exprs[loaded]) \in Nat /\ Len(Exprs[loaded]) >= 1
           /\ coefmap = CoefMap(repn, mutable, loadFixed)
           /\ UpdatedCoefs \in SUBSET Slots(repn)
           /\ UpdatedCoefs \in SUBSET TrackedSlots
<1>1. loads = 1
  BY DEF Behind, Updatable
<1>2. loaded \in Models /\ coefmap = CoefMap(repn, mutable, loadFixed)
  BY <1>1 DEF Behind, LoadedOnce
<1>3. loadFixed \in SUBSET Var /\ val \in [Atom -> Num] /\ v \in [Atom -> Num] /\ RepnFits
  BY DEF Behind, Typed, TypeOK
<1>4. Values(v, Atom) /\ Values(val, Atom)
  BY <1>3, NumbersAreIntegers DEF Values
<1>5. Len(Exprs[loaded]) \in Nat /\ Len(Exprs[loaded]) >= 1
  BY <1>2, StopFacts
<1>6. Len(repn) = Len(Exprs[loaded])
  BY <1>1, <1>5 DEF Behind, LoadedOnce
<1>7. UpdatedCoefs \in SUBSET Slots(repn) /\ ~initial
  BY <1>3, UpdatedSlots DEF Behind
<1>8. UpdatedCoefs \in SUBSET TrackedSlots
  BY <1>3, <1>7 DEF UpdatedCoefs, UpdatedValues, TrackedSlots, RepnFits, Tracked
<1>9. QED
  BY <1>2, <1>3, <1>4, <1>5, <1>6, <1>7, <1>8 DEF RepnFits

LEMMA BehindTerms ==
    ASSUME NEW v, Behind(v), NEW j \in 1..Len(Exprs[loaded])
    PROVE  /\ Exprs[loaded][j] \in Seq(Term)
           /\ Len(repn[j]) = Len(Exprs[loaded][j]) /\ Len(repn[j]) \in Nat
           /\ \A i \in 1..Len(Exprs[loaded][j]) :
                 /\ TermAt(j, i) \in Term /\ ~TermAt(j, i).fn
                 /\ repn[j][i] = EntryOf(TermAt(j, i), loadFixed)
                 /\ KindOf(TermAt(j, i), loadFixed) # Nonlinear
                 /\ SetsMutable(TermAt(j, i), loadFixed) => mutable[j]
<1> DEFINE e == Exprs[loaded][j]
           new == [i \in 1..Len(e) |-> EntryOf(e[i], loadFixed)]
<1>1. loaded \in Models
  BY BehindFacts
<1>2. e \in Seq(Term) /\ Len(e) \in Nat /\ \A i \in 1..Len(e) : e[i] \in Term
  BY <1>1, ExprsType, ElementOfSeq, LenProperties
<1>3. ~Refused(e, v, loadFixed)
  BY DEF Behind, IsModel
<1>4. repn[j] = <<>> \o new
  <2>1. repn[j] = CollectTerms(<<>>, e, loadFixed)
    BY DEF Behind, LoadedOnce, Updatable
  <2>2. QED
    BY <2>1 DEF CollectTerms
<1>5. <<>> \o new = new
  <2>1. new \in Seq({EntryOf(e[i], loadFixed) : i \in 1..Len(e)})
    BY <1>2, IsASeq
  <2> HIDE DEF new
  <2>2. QED
    BY <2>1
<1>6. repn[j] = new
  BY <1>4, <1>5
<1>7. Len(repn[j]) = Len(e) /\ \A i \in 1..Len(e) : repn[j][i] = EntryOf(e[i], loadFixed)
  BY <1>2, <1>6
<1>8. \A i \in 1..Len(e) : ~e[i].fn
  BY <1>1, NoIntrinsics
<1>9. \A i \in 1..Len(e) : SetsMutable(e[i], loadFixed) => mutable[j]
  BY DEF Behind, LoadedOnce, Updatable
<1>10. ASSUME NEW i \in 1..Len(e), KindOf(e[i], loadFixed) = Nonlinear
       PROVE  FALSE
  <2>1. PICK a \in Param \cup loadFixed : a \in e[i].coef \cup (VarsOf(e[i]) \cap loadFixed)
    BY <1>2, <1>3, <1>10, TermFacts DEF Refused, Vanishes, VarsOf
  <2>2. mutable[j]
    BY <1>8, <1>9, <2>1 DEF SetsMutable
  <2>3. /\ loadFixed \in SUBSET Var /\ Len(repn) = Len(Exprs[loaded])
        /\ coefmap = CoefMap(repn, mutable, loadFixed)
    BY BehindFacts
  <2>4. <<j, Nonlinear, 0>> \in Slots(repn)
    BY <2>3 DEF Slots, WholeSlots
  <2>5. a \in EntryAtoms(repn[j][i]) /\ repn[j][i].kind = Nonlinear /\ i \in 1..Len(repn[j])
    <3>1. repn[j][i] = EntryOf(e[i], loadFixed) /\ i \in 1..Len(repn[j])
      BY <1>7
    <3>2. /\ repn[j][i].kind = Nonlinear /\ repn[j][i].coef = e[i].coef
          /\ repn[j][i].vars = e[i].vars
      BY <1>10, <3>1 DEF EntryOf
    <3>3. VarsOf(repn[j][i]) = VarsOf(e[i])
      BY <3>2 DEF VarsOf
    <3>4. EntryAtoms(repn[j][i]) = e[i].coef \cup VarsOf(e[i])
      BY <3>2, <3>3 DEF EntryAtoms
    <3>5. QED
      BY <2>1, <3>1, <3>2, <3>4
  <2>6. a \in SlotAtoms(repn, <<j, Nonlinear, 0>>)
    BY <2>5 DEF SlotAtoms
  <2>7. a \in Atom
    BY <2>3 DEF Atom
  <2>8. <<j, Nonlinear, 0>> \in coefmap[a]
    BY <2>1, <2>2, <2>3, <2>4, <2>6, <2>7 DEF CoefMap
  <2>9. <<j, Nonlinear, 0>> \in TrackedSlots
    BY <2>7, <2>8 DEF TrackedSlots
  <2>10. QED
    BY <2>9 DEF Behind, Updatable
<1>11. QED
  BY <1>2, <1>7, <1>8, <1>9, <1>10 DEF TermAt

(* What a coefficient reads is mapped to its slot.                         *)
LEMMA SlotTracked ==
    ASSUME NEW v, Behind(v), NEW j \in 1..Len(Exprs[loaded]), NEW i \in 1..Len(Exprs[loaded][j]),
           NEW a \in repn[j][i].coef
    PROVE  a \in Tracked /\ SlotAt(j, i) \in coefmap[a]
<1> DEFINE t == TermAt(j, i)
           e == repn[j][i]
           F == loadFixed
           s == SlotAt(j, i)
<1>1. /\ t \in Term /\ ~t.fn /\ e = EntryOf(t, F) /\ KindOf(t, F) # Nonlinear
      /\ Len(repn[j]) = Len(Exprs[loaded][j])
      /\ SetsMutable(t, F) => mutable[j]
  BY BehindTerms
<1>2. /\ F \in SUBSET Var /\ Len(repn) = Len(Exprs[loaded])
      /\ coefmap = CoefMap(repn, mutable, F)
  BY BehindFacts
<1>3. e.coef = t.coef \cup (VarsOf(t) \cap F) /\ e.kind = KindOf(t, F)
  BY <1>1 DEF EntryOf
<1>4. a \in Param \cup F /\ a \in Atom
  BY <1>2, <1>3, TermFacts, <1>1 DEF Atom
<1>5. mutable[j]
  BY <1>1, <1>3 DEF SetsMutable
<1>6. e.kind \in {Constant, Linear, Quadratic}
  BY <1>1, <1>3, KindIsDegree
<1>7. s[1] = j /\ s[2] = e.kind /\ s[3] \in {0, i}
  BY <1>3 DEF SlotAt
<1>8. s \in Slots(repn)
  <2>1. CASE e.kind = Constant
    <3>1. s = <<j, Constant, 0>>
      BY <2>1, <1>3 DEF SlotAt
    <3>2. s \in WholeSlots(repn)
      BY <1>2, <3>1 DEF WholeSlots
    <3>3. QED
      BY <3>2 DEF Slots
  <2>2. CASE e.kind # Constant
    <3>1. s = <<j, repn[j][i].kind, i>>
      BY <2>2, <1>3 DEF SlotAt
    <3>2. repn[j][i].kind \in {Linear, Quadratic} /\ i \in 1..Len(repn[j])
      BY <1>1, <1>6, <2>2
    <3>3. s \in CoefSlots(repn)
      BY <1>2, <3>1, <3>2 DEF CoefSlots
    <3>4. QED
      BY <3>3 DEF Slots
  <2>3. QED
    BY <2>1, <2>2
<1>9. a \in SlotAtoms(repn, s)
  <2>1. i \in 1..Len(repn[s[1]]) /\ repn[s[1]][i].kind = s[2] /\ s[3] \in {0, i}
    BY <1>1, <1>7
  <2>2. a \in EntryAtoms(repn[s[1]][i])
    BY <1>7 DEF EntryAtoms
  <2> HIDE DEF s, e, t
  <2>3. QED
    BY <2>1, <2>2 DEF SlotAtoms
<1>10. s \in coefmap[a]
  <2> HIDE DEF s, e, t
  <2>1. QED
    BY <1>2, <1>4, <1>5, <1>7, <1>8, <1>9 DEF CoefMap
<1>11. QED
  BY <1>4, <1>10 DEF Tracked

(* The values a cache without tolerance does not find updated are current. *)
LEMMA CachedOrUpdated ==
    ASSUME NEW v, Behind(v), NEW a \in Tracked, a \notin UpdatedValues
    PROVE  v[a] = val[a]
<1>1. DOMAIN cache = Tracked /\ a \in Atom
  BY DEF Behind, Typed, RepnFits, Tracked
<1>2. cache[a] = v[a] /\ cache[a] \in Int /\ val[a] \in Int
  BY <1>1, BehindFacts DEF Behind, Values
<1>3. ~Differs(cache[a], val[a])
  BY <1>1 DEF UpdatedValues
<1>4. cache[a] # NaN /\ val[a] # NaN
  BY <1>2, NumbersAreIntegers
<1>5. Tol = 0
  BY DEF Behind
<1>6. ~(cache[a] - val[a] > 0) /\ ~(val[a] - cache[a] > 0)
  BY <1>3, <1>4, <1>5 DEF Differs
<1>7. QED
  BY <1>2, <1>6

(* A coefficient whose slot is not updated has not changed.                *)
LEMMA Untouched ==
    ASSUME NEW v, Behind(v), NEW j \in 1..Len(Exprs[loaded]), NEW i \in 1..Len(Exprs[loaded][j]),
           SlotAt(j, i) \notin UpdatedCoefs
    PROVE  FactorValue(TermAt(j, i), val, loadFixed) = FactorValue(TermAt(j, i), v, loadFixed)
<1> DEFINE t == TermAt(j, i)
           F == loadFixed
<1>1. t \in Term /\ repn[j][i] = EntryOf(t, F) /\ KindOf(t, F) # Nonlinear
  BY BehindTerms
<1>2. repn[j][i].coef = t.coef \cup (VarsOf(t) \cap F)
  BY <1>1 DEF EntryOf
<1>3. \A a \in t.coef \cup (VarsOf(t) \cap F) : val[a] = v[a]
  <2> SUFFICES ASSUME NEW a \in repn[j][i].coef PROVE val[a] = v[a]
    BY <1>2
  <2>1. a \in Tracked /\ SlotAt(j, i) \in coefmap[a]
    BY SlotTracked
  <2>2. a \notin UpdatedValues
    BY <2>1 DEF UpdatedCoefs
  <2>3. QED
    BY <2>1, <2>2, CachedOrUpdated
<1>4. Values(v, Param \cup F) /\ F \in SUBSET Var
  BY BehindFacts DEF Values, Atom
<1> HIDE DEF t, F
<1>5. FactorValue(t, val, F) = FactorValue(t, v, F)
  BY <1>1, <1>3, <1>4, FactorSame
<1>6. QED
  BY <1>5 DEF t, F

(* The slots resolve() may push are constants and linear coefficients, each*)
(* in the only row of its constraint.                                      *)
LEMMA TrackedFacts ==
    ASSUME NEW v, Behind(v), NEW s \in UpdatedCoefs
    PROVE  /\ s[2] # Quadratic /\ RowTracked(gmodel, s) /\ SingleTerm(s)
           /\ s[1] \in 1..Len(Exprs[loaded])
           /\ \/ s[2] = Constant /\ s = <<s[1], Constant, 0>>
              \/ /\ s[2] = Linear /\ s = <<s[1], Linear, s[3]>>
                 /\ s[3] \in 1..Len(Exprs[loaded][s[1]])
                 /\ KindOf(TermAt(s[1], s[3]), loadFixed) = Linear
<1>1. s \in TrackedSlots /\ s \in Slots(repn) /\ repn \in Seq(Seq(Entry))
  BY BehindFacts
<1>2. s[2] # Quadratic /\ RowTracked(gmodel, s) /\ SingleTerm(s)
  BY <1>1 DEF Behind, Updatable
<1>3. /\ s = <<s[1], s[2], s[3]>> /\ s[1] \in 1..Len(repn)
      /\ \/ s[2] \in {Constant, Nonlinear} /\ s[3] = 0
         \/ /\ s[2] \in {Linear, Quadratic}
            /\ s[3] \in 1..Len(repn[s[1]]) /\ repn[s[1]][s[3]].kind = s[2]
  BY <1>1, SlotFacts
<1>4. s[1] \in 1..Len(Exprs[loaded])
  BY <1>3, BehindFacts
<1>5. Len(repn[s[1]]) = Len(Exprs[loaded][s[1]])
  BY <1>4, BehindTerms
<1>6. s[2] # Nonlinear
  BY <1>1 DEF Behind, Updatable
<1>7. CASE s[2] = Constant
  <2>1. s[3] = 0
    BY <1>3, <1>7 DEF Constant, Linear, Quadratic
  <2>2. QED
    BY <1>2, <1>3, <1>4, <1>7, <2>1
<1>8. CASE s[2] = Linear
  <2>1. s[3] \in 1..Len(repn[s[1]]) /\ repn[s[1]][s[3]].kind = Linear
    BY <1>3, <1>8 DEF Constant, Linear, Nonlinear
  <2>2. s[3] \in 1..Len(Exprs[loaded][s[1]])
    BY <1>5, <2>1
  <2>3. repn[s[1]][s[3]] = EntryOf(TermAt(s[1], s[3]), loadFixed)
    BY <1>4, <2>2, BehindTerms
  <2>4. KindOf(TermAt(s[1], s[3]), loadFixed) = Linear
    BY <2>1, <2>3 DEF EntryOf
  <2>5. QED
    BY <1>2, <1>3, <1>4, <1>8, <2>2, <2>4
<1>9. QED
  BY <1>2, <1>3, <1>6, <1>7, <1>8

(* The variable of a linear slot is the monomial of its term.              *)
LEMMA LinearVarIs ==
    ASSUME NEW v, Behind(v), NEW j \in 1..Len(Exprs[loaded]), NEW i \in 1..Len(Exprs[loaded][j]),
           KindOf(TermAt(j, i), loadFixed) = Linear, NEW s, s[1] = j, s[3] = i
    PROVE  /\ <<LinearVar(s)>> = FreeVars(TermAt(j, i), loadFixed)
           /\ LinearVar(s) \in Var \ loadFixed
<1>1. /\ TermAt(j, i) \in Term /\ ~TermAt(j, i).fn
      /\ repn[j][i] = EntryOf(TermAt(j, i), loadFixed)
      /\ KindOf(TermAt(j, i), loadFixed) # Nonlinear
  BY BehindTerms
<1>2. Degree(TermAt(j, i), loadFixed) = 1
  BY <1>1, KindIsDegree
<1>3. LinearVar(s) = FreeVarOf(repn[j][i])
  BY DEF LinearVar, FreeVarOf
<1>4. loadFixed \in SUBSET Var
  BY BehindFacts
<1>5. /\ FreeVars(TermAt(j, i), loadFixed) = <<FreeVarOf(EntryOf(TermAt(j, i), loadFixed))>>
      /\ FreeVarOf(EntryOf(TermAt(j, i), loadFixed)) \in Var \ loadFixed
  BY <1>1, <1>2, <1>4, FreeVarIs
<1>6. QED
  BY <1>1, <1>3, <1>5

(* None of them throws.                                                    *)
LEMMA NoneThrows ==
    ASSUME NEW v, Behind(v), NEW s \in UpdatedCoefs
    PROVE  ~Throws(gmodel, s)
<1>1. /\ RowTracked(gmodel, s) /\ s[1] \in 1..Len(Exprs[loaded])
      /\ \/ s[2] = Constant
         \/ /\ s[2] = Linear /\ s[3] \in 1..Len(Exprs[loaded][s[1]])
            /\ KindOf(TermAt(s[1], s[3]), loadFixed) = Linear
  BY TrackedFacts
<1>2. s[2] # Nonlinear
  BY <1>1 DEF Constant, Linear, Nonlinear
<1>3. Len(gmodel.rows) \in Nat /\ gmodel.cols = Var \ loadFixed
  <2>1. PICK C \in SUBSET Var : gmodel \in GModel(C)
    BY DEF Behind, Typed, TypeOK, Updatable
  <2>2. Len(gmodel.rows) \in Nat
    BY <2>1, PushedFacts
  <2>3. QED
    BY <2>2 DEF Behind, Updatable
<1>4. ~(s[1] - 1 > Len(gmodel.rows))
  <2>1. CASE s[1] > 1
    <3>1. s[1] - 1 \in RowNumbers(gmodel, s[1])
      BY <1>1, <2>1 DEF RowTracked
    <3>2. s[1] - 1 \in 1..Len(gmodel.rows)
      BY <3>1 DEF RowNumbers
    <3>3. QED
      BY <1>3, <3>2
  <2>2. CASE ~(s[1] > 1)
    BY <1>1, <1>3, <2>2
  <2>3. QED
    BY <2>1, <2>2
<1>5. s[2] = Linear => LinearVar(s) \in gmodel.cols
  <2>1. ASSUME s[2] = Linear PROVE LinearVar(s) \in Var \ loadFixed
    <3>1. /\ s[3] \in 1..Len(Exprs[loaded][s[1]])
          /\ KindOf(TermAt(s[1], s[3]), loadFixed) = Linear
      BY <1>1, <2>1 DEF Linear, Constant
    <3>2. QED
      BY <1>1, <3>1, LinearVarIs
  <2>2. QED
    BY <1>3, <2>1
<1>6. QED
  BY <1>2, <1>4, <1>5 DEF Throws

(* A monomial none of whose terms is updated keeps its coefficient.        *)
Expr(j) == Exprs[loaded][j]

LEMMA CollectSame ==
    ASSUME NEW v, Behind(v), NEW j \in 1..Len(Exprs[loaded]), NEW n \in Monomial,
           \A i \in 1..Len(Expr(j)) :
              FreeVars(TermAt(j, i), loadFixed) = n => SlotAt(j, i) \notin UpdatedCoefs
    PROVE  Collect(Expr(j), val, loadFixed)[n] = Collect(Expr(j), v, loadFixed)[n]
<1> DEFINE e == Expr(j)
           F == loadFixed
<1>1. e \in Seq(Term) /\ Values(v, Param \cup F) /\ Values(val, Param \cup F)
  BY BehindFacts, ModelExprType DEF Expr
<1>2. \A i \in 1..Len(e) : Share(e, val, F, n)[i] = Share(e, v, F, n)[i]
  <2> SUFFICES ASSUME NEW i \in 1..Len(e), FreeVars(e[i], F) = n
               PROVE  FactorValue(e[i], val, F) = FactorValue(e[i], v, F)
    BY DEF Share
  <2>1. e[i] = TermAt(j, i)
    BY DEF TermAt, Expr
  <2>2. SlotAt(j, i) \notin UpdatedCoefs
    BY <2>1
  <2>3. i \in 1..Len(Exprs[loaded][j])
    BY DEF Expr
  <2>4. FactorValue(TermAt(j, i), val, F) = FactorValue(TermAt(j, i), v, F)
    BY <2>2, <2>3, Untouched
  <2>5. QED
    BY <2>1, <2>4
<1> HIDE DEF e, F
<1>3. Numbers(Share(e, v, F, n), 1..Len(e))
  BY <1>1, ShareNumbers
<1>4. FoldOver("+", Share(e, val, F, n), 1..Len(e)) = FoldOver("+", Share(e, v, F, n), 1..Len(e))
  BY <1>2, <1>3, FoldSame
<1>5. Collect(e, v, F)[n] = FoldOver("+", Share(e, v, F, n), 1..Len(e))
  BY <1>1, CollectFacts
<1>6. Collect(e, val, F)[n] = FoldOver("+", Share(e, val, F, n), 1..Len(e))
  BY <1>1, CollectFacts
<1>7. QED
  BY <1>4, <1>5, <1>6 DEF e, F

(* An expression none of whose slots is updated keeps them all.            *)
LEMMA CollectAllSame ==
    ASSUME NEW v, Behind(v), NEW j \in 1..Len(Exprs[loaded]), \A s \in UpdatedCoefs : s[1] # j
    PROVE  Collect(Expr(j), val, loadFixed) = Collect(Expr(j), v, loadFixed)
<1>1. \A i : SlotAt(j, i) \notin UpdatedCoefs
  BY DEF SlotAt
<1>2. \A n \in Monomial : Collect(Expr(j), val, loadFixed)[n] = Collect(Expr(j), v, loadFixed)[n]
  BY <1>1, CollectSame
<1>3. \A w : Collect(Expr(j), w, loadFixed)
                = [n \in Monomial |-> Collect(Expr(j), w, loadFixed)[n]]
  BY DEF Collect
<1>4. QED
  BY <1>2, <1>3

(* An updated coefficient is the one pushed.                               *)
LEMMA CollectPushed ==
    ASSUME NEW v, Behind(v), NEW j \in 1..Len(Exprs[loaded]), NEW n \in Monomial,
           NEW s \in LinearSlots(j, n, UpdatedCoefs)
    PROVE  Collect(Expr(j), val, loadFixed)[n] = EntryValue(repn[j][s[3]], val)
<1> DEFINE e == Expr(j)
           F == loadFixed
           i == s[3]
           f == Share(e, val, F, n)
<1>1. e \in Seq(Term) /\ Values(val, Param \cup F) /\ F \in SUBSET Var
  BY BehindFacts, ModelExprType DEF Expr
<1>2. s \in UpdatedCoefs /\ s[1] = j /\ s[2] = Linear /\ <<LinearVar(s)>> = n
  BY DEF LinearSlots
<1>3. /\ SingleTerm(s) /\ s[3] \in 1..Len(Exprs[loaded][j])
      /\ KindOf(TermAt(j, s[3]), F) = Linear
  BY <1>2, TrackedFacts DEF Constant, Linear
<1>4. i \in 1..Len(e)
  BY <1>3 DEF Expr
<1>5. \A k \in 1..Len(e) : /\ TermAt(j, k) = e[k] /\ TermAt(j, k) \in Term /\ ~TermAt(j, k).fn
                           /\ repn[j][k] = EntryOf(TermAt(j, k), F)
                           /\ KindOf(TermAt(j, k), F) # Nonlinear
  BY BehindTerms DEF Expr, TermAt
<1>6. FreeVars(TermAt(j, i), F) = n
  BY <1>2, <1>3, LinearVarIs
<1>7. f[i] = FactorValue(TermAt(j, i), val, F)
  BY <1>4, <1>5, <1>6 DEF Share
<1>8. ASSUME NEW k \in 1..Len(e) \ {i} PROVE f[k] = Neutral("+")
  <2>1. FreeVars(TermAt(j, k), F) # n
    <3> SUFFICES ASSUME FreeVars(TermAt(j, k), F) = n PROVE FALSE
      OBVIOUS
    <3>1. Len(n) = 1
      BY <1>2
    <3>2. Degree(TermAt(j, k), F) = 1
      BY <1>5, <3>1, FreeVarsFacts
    <3>3. KindOf(TermAt(j, k), F) = Linear
      BY <1>5, <3>2, KindIsDegree
    <3> DEFINE z == <<j, Linear, k>>
    <3>4. z[1] = j /\ z[3] = k
      OBVIOUS
    <3>5. repn[j][k].kind = Linear
      <4>1. repn[j][k] = EntryOf(TermAt(j, k), F)
        BY <1>5
      <4>2. QED
        BY <3>3, <4>1 DEF EntryOf
    <3>6. k \in 1..Len(repn[j]) \ {i}
      BY BehindTerms DEF Expr
    <3>7. LinearVar(z) # LinearVar(s)
      BY <1>2, <1>3, <3>5, <3>6 DEF SingleTerm
    <3> HIDE DEF z
    <3>8. k \in 1..Len(Exprs[loaded][j])
      BY DEF Expr
    <3>9. <<LinearVar(z)>> = FreeVars(TermAt(j, k), F)
      BY <3>3, <3>4, <3>8, LinearVarIs
    <3>10. QED
      BY <1>2, <3>7, <3>9
  <2>2. QED
    BY <1>5, <2>1 DEF Share, Neutral
<1>9. Numbers(f, 1..Len(e))
  BY <1>1, ShareNumbers
<1>10. Collect(e, val, F)[n] = FoldOver("+", f, 1..Len(e))
  BY <1>1, CollectFacts
<1>11. EntryValue(repn[j][i], val) = FactorValue(TermAt(j, i), val, F)
  <2>1. /\ TermAt(j, i) \in Term /\ KindOf(TermAt(j, i), F) # Nonlinear
        /\ repn[j][i] = EntryOf(TermAt(j, i), F)
    BY <1>4, <1>5
  <2>2. QED
    BY <1>1, <2>1, EntryIsFactor
<1> HIDE DEF f, e, i
<1>12. FoldOver("+", f, 1..Len(e)) = f[i]
  BY <1>4, <1>8, <1>9, FoldOfOne
<1>13. QED
  BY <1>7, <1>10, <1>11, <1>12 DEF e, i

(* Coefficients that followed the cached values follow the current ones    *)
(* when the updated slots are pushed.                                      *)
LEMMA PatchFollows ==
    ASSUME NEW v, Behind(v), NEW j \in 1..Len(Exprs[loaded]), NEW n \in Monomial \ {<<>>},
           NEW f, f[n] = Collect(Expr(j), v, loadFixed)[n]
    PROVE  PatchLinear(f, j, UpdatedCoefs)[n] = Collect(Expr(j), val, loadFixed)[n]
<1> DEFINE S == UpdatedCoefs
           T == LinearSlots(j, n, S)
<1>1. CASE T = {}
  <2>1. ASSUME NEW i \in 1..Len(Expr(j)), FreeVars(TermAt(j, i), loadFixed) = n
        PROVE  SlotAt(j, i) \notin S
    <3> SUFFICES ASSUME SlotAt(j, i) \in S PROVE FALSE
      OBVIOUS
    <3> DEFINE s == SlotAt(j, i)
    <3>1. s[1] = j /\ s[2] = KindOf(TermAt(j, i), loadFixed)
      BY DEF SlotAt
    <3>2. i \in 1..Len(Exprs[loaded][j])
      BY DEF Expr
    <3>3. TermAt(j, i) \in Term /\ ~TermAt(j, i).fn /\ KindOf(TermAt(j, i), loadFixed) # Nonlinear
      BY <3>2, BehindTerms
    <3>4. KindOf(TermAt(j, i), loadFixed) \in {Linear, Quadratic}
      BY <2>1, <3>3, KindIsDegree
    <3>5. s[2] # Quadratic
      BY TrackedFacts
    <3>6. KindOf(TermAt(j, i), loadFixed) = Linear
      BY <3>1, <3>4, <3>5
    <3>7. s[3] = i
      BY <3>6 DEF SlotAt, Linear, Constant
    <3> HIDE DEF s
    <3>8. <<LinearVar(s)>> = n
      BY <2>1, <3>1, <3>2, <3>6, <3>7, LinearVarIs
    <3>9. s \in T
      BY <3>1, <3>6, <3>8 DEF LinearSlots, s
    <3>10. QED
      BY <1>1, <3>9
  <2>2. Collect(Expr(j), val, loadFixed)[n] = Collect(Expr(j), v, loadFixed)[n]
    BY <2>1, CollectSame
  <2>3. QED
    BY <1>1, <2>2, PatchFacts
<1>2. CASE T # {}
  <2> DEFINE s == LastSlot(T)
  <2>1. s \in T
    BY <1>2, BehindFacts, LastSlotFacts
  <2>2. Collect(Expr(j), val, loadFixed)[n] = EntryValue(repn[j][s[3]], val)
    BY <2>1, CollectPushed
  <2>3. QED
    BY <1>2, <2>2, PatchFacts
<1>3. QED
  BY <1>1, <1>2

(* The constants of an expression are its constant.                        *)
LEMMA ConstvalIs ==
    ASSUME NEW v, Behind(v), NEW j \in 1..Len(Exprs[loaded])
    PROVE  Constval(j, val) = Collect(Expr(j), val, loadFixed)[<<>>]
<1> DEFINE e == Expr(j)
           F == loadFixed
           f == Share(e, val, F, <<>>)
           c == Constants(j, val)
<1>1. e \in Seq(Term) /\ Values(val, Param \cup F) /\ F \in SUBSET Var
  BY BehindFacts, ModelExprType DEF Expr
<1>2. \A k \in 1..Len(e) : /\ TermAt(j, k) = e[k] /\ TermAt(j, k) \in Term /\ ~TermAt(j, k).fn
                           /\ repn[j][k] = EntryOf(TermAt(j, k), F)
                           /\ KindOf(TermAt(j, k), F) # Nonlinear
  BY BehindTerms DEF Expr, TermAt
<1>3. Len(repn[j]) = Len(e)
  BY BehindTerms DEF Expr
<1>4. \A k \in 1..Len(e) : c[k] = f[k]
  <2> SUFFICES ASSUME NEW k \in 1..Len(e) PROVE c[k] = f[k]
    OBVIOUS
  <2>1. KindOf(TermAt(j, k), F) = Constant <=> FreeVars(TermAt(j, k), F) = <<>>
    BY <1>2, KindIsDegree
  <2>2. repn[j][k].kind = KindOf(TermAt(j, k), F)
    <3>1. repn[j][k] = EntryOf(TermAt(j, k), F)
      BY <1>2
    <3>2. QED
      BY <3>1 DEF EntryOf
  <2>3. EntryValue(repn[j][k], val) = FactorValue(TermAt(j, k), val, F)
    BY <1>1, <1>2, EntryIsFactor
  <2>4. c[k] = IF repn[j][k].kind = Constant THEN EntryValue(repn[j][k], val) ELSE 0
    BY <1>3 DEF Constants
  <2>5. f[k] = IF FreeVars(TermAt(j, k), F) = <<>> THEN FactorValue(TermAt(j, k), val, F) ELSE 0
    BY <1>2 DEF Share
  <2>6. QED
    BY <2>1, <2>2, <2>3, <2>4, <2>5
<1>5. Numbers(f, 1..Len(e))
  BY <1>1, ShareNumbers
<1>6. <<>> \in Monomial
  BY DEF Monomial
<1>7. Collect(e, val, F)[<<>>] = FoldOver("+", f, 1..Len(e))
  BY <1>1, <1>6, CollectFacts
<1>8. Constval(j, val) = FoldOver("+", c, 1..Len(e))
  BY <1>3 DEF Constval, SumOver, Constants
<1> HIDE DEF f, c, e
<1>9. FoldOver("+", c, 1..Len(e)) = FoldOver("+", f, 1..Len(e))
  BY <1>4, <1>5, FoldSame
<1>10. QED
  BY <1>7, <1>8, <1>9 DEF e

LEMMA ConstantFollows ==
    ASSUME NEW v, Behind(v), NEW j \in 1..Len(Exprs[loaded]), <<j, Constant, 0>> \notin UpdatedCoefs
    PROVE  Collect(Expr(j), val, loadFixed)[<<>>] = Collect(Expr(j), v, loadFixed)[<<>>]
<1>1. ASSUME NEW i \in 1..Len(Expr(j)), FreeVars(TermAt(j, i), loadFixed) = <<>>
      PROVE  SlotAt(j, i) \notin UpdatedCoefs
  <2>1. i \in 1..Len(Exprs[loaded][j])
    BY DEF Expr
  <2>2. TermAt(j, i) \in Term /\ ~TermAt(j, i).fn
    BY <2>1, BehindTerms
  <2>3. KindOf(TermAt(j, i), loadFixed) = Constant
    BY <1>1, <2>2, KindIsDegree
  <2>4. SlotAt(j, i) = <<j, Constant, 0>>
    BY <2>3 DEF SlotAt
  <2>5. QED
    BY <2>4
<1>2. <<>> \in Monomial
  BY DEF Monomial
<1>3. QED
  BY <1>1, <1>2, CollectSame

(* The kept GRBModel, and what its rows are.                               *)
LEMMA BehindModel ==
    ASSUME NEW v, Behind(v)
    PROVE  /\ gmodel \in GModel(Var \ loadFixed)
           /\ ConstantBounds(loaded)
           /\ AllRows(gmodel) = UNION {{RowFor(loaded, j, d, v, loadFixed) :
                                            d \in Range(Demands(loaded, j))} :
                                          j \in 2..Len(Exprs[loaded])}
           /\ \A r \in Range(gmodel.rows), q \in Range(gmodel.qrows) : r.con # q.con
           /\ \A j, d : RowFor(loaded, j, d, v, loadFixed).con = j
<1>1. gmodel # Null /\ gmodel.cols = Var \ loadFixed /\ ConstantBounds(loaded)
  BY DEF Behind, Updatable
<1>2. PICK C \in SUBSET Var : gmodel \in GModel(C)
  BY <1>1 DEF Behind, Typed, TypeOK
<1>3. gmodel.cols = C
  BY <1>2 DEF GModel
<1>4. \A j, d : RowFor(loaded, j, d, v, loadFixed).con = j
  BY DEF RowFor
<1>5. QED
  BY <1>1, <1>2, <1>3, <1>4 DEF Behind, IsModel

(* Bounds that are not parameters are no different at other values.        *)
LEMMA BoundSame ==
    ASSUME NEW v, Behind(v), NEW j \in 2..Len(Exprs[loaded]), NEW d \in Range(Demands(loaded, j))
    PROVE  /\ d[2] \in {Lower[loaded][j], Upper[loaded][j]} \ {None}
           /\ \A w : Opt!BoundValue(d[2], w) = d[2]
<1>1. j \in 1..Len(Exprs[loaded]) /\ loaded \in Models
  BY BehindFacts
<1>2. d[2] \in {Lower[loaded][j], Upper[loaded][j]} \ {None}
  BY <1>1, DemandsFacts
<1>3. d[2] \notin Param
  BY <1>1, <1>2, BehindModel DEF ConstantBounds
<1>4. QED
  BY <1>2, <1>3 DEF Opt!BoundValue

(* The k-th row has the slots of the constraint it is a row of, or none.   *)
LEMMA SlotsOfRow ==
    ASSUME NEW v, Behind(v), NEW k \in 1..Len(gmodel.rows)
    PROVE  /\ \A s \in UpdatedCoefs : s[1] = k + 1 => gmodel.rows[k].con = k + 1
           /\ \A s \in UpdatedCoefs : s[1] > 1 /\ s[1] = gmodel.rows[k].con => s[1] = k + 1
<1>1. ASSUME NEW s \in UpdatedCoefs, s[1] > 1
      PROVE  RowNumbers(gmodel, s[1]) = {s[1] - 1} /\ s[1] \in 1..Len(Exprs[loaded])
  BY <1>1, TrackedFacts DEF RowTracked
<1>2. Len(gmodel.rows) \in Nat
  BY BehindModel, PushedFacts
<1>3. ASSUME NEW s \in UpdatedCoefs, s[1] = k + 1
      PROVE  gmodel.rows[k].con = k + 1
  <2>1. RowNumbers(gmodel, s[1]) = {k}
    <3>1. k \in Int /\ k >= 1
      BY <1>2
    <3>2. s[1] > 1 /\ s[1] - 1 = k
      BY <1>3, <3>1
    <3>3. QED
      BY <1>1, <3>2
  <2>2. QED
    BY <1>3, <2>1 DEF RowNumbers
<1>4. ASSUME NEW s \in UpdatedCoefs, s[1] > 1, s[1] = gmodel.rows[k].con
      PROVE  s[1] = k + 1
  <2>1. k \in RowNumbers(gmodel, s[1])
    BY <1>4 DEF RowNumbers
  <2>2. s[1] - 1 = k /\ s[1] \in Int
    <3>1. RowNumbers(gmodel, s[1]) = {s[1] - 1} /\ s[1] \in 1..Len(Exprs[loaded])
      BY <1>1, <1>4
    <3>2. Len(Exprs[loaded]) \in Nat
      BY BehindFacts
    <3>3. s[1] \in Int
      BY <3>1, <3>2
    <3>4. k = s[1] - 1
      BY <2>1, <3>1
    <3>5. QED
      BY <3>3, <3>4
  <2>3. QED
    BY <1>2, <2>2
<1>5. QED
  BY <1>3, <1>4

(* The coefficients of a row, its constant left out.                       *)
RowPoly(f) == [f EXCEPT ![<<>>] = 0]

LEMMA RowParts ==
    ASSUME NEW j, NEW d, NEW w, NEW F
    PROVE  RowFor(loaded, j, d, w, F) =
              [con |-> j, poly |-> RowPoly(Collect(Expr(j), w, F)), sense |-> d[1],
               rhs |-> Opt!BoundValue(d[2], w) - Collect(Expr(j), w, F)[<<>>]]
BY DEF RowFor, RowPoly, Expr

LEMMA RowPolyFacts ==
    ASSUME NEW f \in Poly
    PROVE  /\ RowPoly(f) = [n \in Monomial |-> RowPoly(f)[n]]
           /\ RowPoly(f)[<<>>] = 0
           /\ \A n \in Monomial \ {<<>>} : RowPoly(f)[n] = f[n]
<1>1. f \in [Monomial -> Int] /\ <<>> \in Monomial
  BY DEF Poly, Monomial
<1>2. QED
  BY <1>1 DEF RowPoly

(* A linear row follows the values when it is pushed into.                 *)
LEMMA RowPolyFollows ==
    ASSUME NEW v, Behind(v), NEW j \in 2..Len(Exprs[loaded]),
           NEW k \in 1..Len(gmodel.rows), gmodel.rows[k].con = j
    PROVE  PatchLinear(RowPoly(Collect(Expr(j), v, loadFixed)), k + 1, UpdatedCoefs)
              = RowPoly(Collect(Expr(j), val, loadFixed))
<1> DEFINE f == Collect(Expr(j), v, loadFixed)
           h == Collect(Expr(j), val, loadFixed)
           p == RowPoly(f)
           S == UpdatedCoefs
           q == PatchLinear(p, k + 1, S)
<1>1. j \in 1..Len(Exprs[loaded]) /\ j > 1
  BY BehindFacts
<1>2. f \in Poly /\ h \in Poly
  BY <1>1, BehindFacts, ModelExprType DEF Expr
<1>3. /\ p[<<>>] = 0 /\ RowPoly(h)[<<>>] = 0
      /\ RowPoly(h) = [n \in Monomial |-> RowPoly(h)[n]]
      /\ \A n \in Monomial \ {<<>>} : p[n] = f[n] /\ RowPoly(h)[n] = h[n]
  BY <1>2, RowPolyFacts
<1>4. q = [n \in Monomial |-> q[n]]
  BY DEF PatchLinear
<1>5. q[<<>>] = 0
  <2>1. <<>> \in Monomial
    BY DEF Monomial
  <2>2. LinearSlots(k + 1, <<>>, S) = {}
    BY DEF LinearSlots
  <2> HIDE DEF p
  <2>3. QED
    BY <1>3, <2>1, <2>2, PatchFacts
<1>6. ASSUME NEW n \in Monomial \ {<<>>} PROVE q[n] = h[n]
  <2>1. p[n] = f[n]
    BY <1>3
  <2>2. CASE k + 1 = j
    <3> HIDE DEF p
    <3>1. QED
      BY <1>1, <2>1, <2>2, PatchFollows
  <2>3. CASE k + 1 # j
    <3>1. LinearSlots(k + 1, n, S) = {}
      BY <2>3, SlotsOfRow DEF LinearSlots
    <3>2. \A s \in S : s[1] # j
      BY <1>1, <2>3, SlotsOfRow
    <3>3. h = f
      BY <1>1, <3>2, CollectAllSame
    <3> HIDE DEF p, f, h
    <3>4. q[n] = p[n]
      BY <3>1, PatchFacts
    <3>5. QED
      BY <2>1, <3>3, <3>4
  <2>4. QED
    BY <2>2, <2>3
<1> HIDE DEF p, q, f, h
<1>7. \A n \in Monomial : q[n] = RowPoly(h)[n]
  BY <1>3, <1>5, <1>6
<1>8. q = RowPoly(h)
  BY <1>3, <1>4, <1>7
<1>9. QED
  BY <1>8 DEF q, p, f, h

LEMMA RowRhsFollows ==
    ASSUME NEW v, Behind(v), NEW j \in 2..Len(Exprs[loaded]),
           NEW k \in 1..Len(gmodel.rows), gmodel.rows[k].con = j,
           NEW d \in Range(Demands(loaded, j))
    PROVE  PushedRhs(Opt!BoundValue(d[2], v) - Collect(Expr(j), v, loadFixed)[<<>>], k, UpdatedCoefs)
              = Opt!BoundValue(d[2], val) - Collect(Expr(j), val, loadFixed)[<<>>]
<1> DEFINE f == Collect(Expr(j), v, loadFixed)
           h == Collect(Expr(j), val, loadFixed)
           s == <<k + 1, Constant, 0>>
<1>1. j \in 1..Len(Exprs[loaded]) /\ j > 1
  BY BehindFacts
<1>2. /\ d[2] \in {Lower[loaded][j], Upper[loaded][j]} \ {None}
      /\ Opt!BoundValue(d[2], v) = d[2] /\ Opt!BoundValue(d[2], val) = d[2]
  BY BoundSame
<1>3. s[1] = k + 1 /\ s[2] = Constant
  OBVIOUS
<1>4. CASE s \in UpdatedCoefs
  <2>1. k + 1 = j
    BY <1>3, <1>4, SlotsOfRow
  <2> HIDE DEF s
  <2>2. RowTracked(gmodel, s)
    BY <1>4, TrackedFacts
  <2>3. {Lower[loaded][j], Upper[loaded][j]} \subseteq {0, None}
    BY <1>1, <1>3, <2>1, <2>2 DEF RowTracked
  <2>4. d[2] = 0
    BY <1>2, <2>3
  <2>5. Constval(j, val) = h[<<>>]
    BY <1>1, ConstvalIs
  <2>6. Constval(j, val) \in Int
    BY <1>1, BehindFacts, ConstvalNumber
  <2>7. PushedRhs(d[2] - f[<<>>], k, UpdatedCoefs) = -Constval(j, val)
    BY <1>4, <2>1 DEF PushedRhs, s
  <2>8. QED
    BY <1>2, <2>4, <2>5, <2>6, <2>7
<1>5. CASE s \notin UpdatedCoefs
  <2>1. <<j, Constant, 0>> \notin UpdatedCoefs
    <3> SUFFICES ASSUME <<j, Constant, 0>> \in UpdatedCoefs PROVE FALSE
      OBVIOUS
    <3> DEFINE z == <<j, Constant, 0>>
    <3>1. z[1] = j /\ z \in UpdatedCoefs
      OBVIOUS
    <3> HIDE DEF z
    <3>2. z[1] = k + 1
      BY <1>1, <3>1, SlotsOfRow
    <3>3. QED
      BY <1>5, <3>1, <3>2
  <2>2. h[<<>>] = f[<<>>]
    BY <1>1, <2>1, ConstantFollows
  <2>3. QED
    BY <1>2, <1>5, <2>2 DEF PushedRhs
<1>6. QED
  BY <1>4, <1>5

LEMMA RowFollows ==
    ASSUME NEW v, Behind(v), NEW j \in 2..Len(Exprs[loaded]), NEW d \in Range(Demands(loaded, j)),
           NEW k \in 1..Len(gmodel.rows), gmodel.rows[k] = RowFor(loaded, j, d, v, loadFixed)
    PROVE  Pushed(gmodel, UpdatedCoefs).rows[k] = RowFor(loaded, j, d, val, loadFixed)
<1> DEFINE r == gmodel.rows[k]
           S == UpdatedCoefs
           f == Collect(Expr(j), v, loadFixed)
           h == Collect(Expr(j), val, loadFixed)
           x == Opt!BoundValue(d[2], v) - f[<<>>]
           y == Opt!BoundValue(d[2], val) - h[<<>>]
<1>1. r = [con |-> j, poly |-> RowPoly(f), sense |-> d[1], rhs |-> x]
  BY RowParts
<1>2. RowFor(loaded, j, d, val, loadFixed)
        = [con |-> j, poly |-> RowPoly(h), sense |-> d[1], rhs |-> y]
  BY RowParts
<1>3. gmodel \in GModel(Var \ loadFixed)
  BY BehindModel
<1>4. Pushed(gmodel, S).rows =
        [i \in 1..Len(gmodel.rows) |->
            [con |-> gmodel.rows[i].con, poly |-> PatchLinear(gmodel.rows[i].poly, i + 1, S),
             sense |-> gmodel.rows[i].sense, rhs |-> PushedRhs(gmodel.rows[i].rhs, i, S)]]
  BY <1>3, PushedFacts
<1>5. Pushed(gmodel, S).rows[k] =
        [con |-> r.con, poly |-> PatchLinear(r.poly, k + 1, S),
         sense |-> r.sense, rhs |-> PushedRhs(r.rhs, k, S)]
  BY <1>4
<1> HIDE DEF r, x, y, f, h
<1>6. r.con = j /\ r.poly = RowPoly(f) /\ r.sense = d[1] /\ r.rhs = x
  BY <1>1
<1>7. PatchLinear(RowPoly(f), k + 1, S) = RowPoly(h)
  BY <1>6, RowPolyFollows DEF r, f, h
<1>8. PushedRhs(x, k, S) = y
  BY <1>6, RowRhsFollows DEF r, x, y, f, h
<1>9. QED
  BY <1>2, <1>5, <1>6, <1>7, <1>8

(* A quadratic row has nothing that changes.                               *)
LEMMA QuadraticRowFollows ==
    ASSUME NEW v, Behind(v), NEW j \in 2..Len(Exprs[loaded]), NEW d \in Range(Demands(loaded, j)),
           RowFor(loaded, j, d, v, loadFixed) \in Range(gmodel.qrows)
    PROVE  RowFor(loaded, j, d, val, loadFixed) = RowFor(loaded, j, d, v, loadFixed)
<1>1. j \in 1..Len(Exprs[loaded]) /\ j > 1
  BY BehindFacts
<1>2. \A s \in UpdatedCoefs : s[1] # j
  <2> SUFFICES ASSUME NEW s \in UpdatedCoefs, s[1] = j PROVE FALSE
    OBVIOUS
  <2>1. RowNumbers(gmodel, j) = {j - 1}
    BY <1>1, TrackedFacts DEF RowTracked
  <2>2. j - 1 \in 1..Len(gmodel.rows) /\ gmodel.rows[j - 1].con = j
    BY <2>1 DEF RowNumbers
  <2>3. DOMAIN gmodel.rows = 1..Len(gmodel.rows)
    BY BehindModel, PushedFacts
  <2>4. gmodel.rows[j - 1] \in Range(gmodel.rows)
    BY <2>2, <2>3 DEF Range
  <2>5. RowFor(loaded, j, d, v, loadFixed).con = j
    BY BehindModel
  <2>6. QED
    BY <2>2, <2>4, <2>5, BehindModel
<1>3. Collect(Expr(j), val, loadFixed) = Collect(Expr(j), v, loadFixed)
  BY <1>1, <1>2, CollectAllSame
<1>4. Opt!BoundValue(d[2], v) = d[2] /\ Opt!BoundValue(d[2], val) = d[2]
  BY BoundSame
<1>5. QED
  BY <1>3, <1>4, RowParts

(* The rows of one GRBModel stay those of the other.                       *)
LEMMA RowsFollow ==
    ASSUME NEW v, Behind(v)
    PROVE  /\ AllRows(Pushed(gmodel, UpdatedCoefs))
                = UNION {{RowFor(loaded, j, d, val, loadFixed) : d \in Range(Demands(loaded, j))} :
                            j \in 2..Len(Exprs[loaded])}
           /\ \A r \in Range(Pushed(gmodel, UpdatedCoefs).rows),
                 q \in Range(Pushed(gmodel, UpdatedCoefs).qrows) : r.con # q.con
           /\ AllRows(gmodel) = {} => AllRows(Pushed(gmodel, UpdatedCoefs)) = {}
<1> DEFINE g == gmodel
           h == Pushed(gmodel, UpdatedCoefs)
           n == Len(g.rows)
           L == 2..Len(Exprs[loaded])
           D(j) == Range(Demands(loaded, j))
           R(j, d, w) == RowFor(loaded, j, d, w, loadFixed)
<1>1. g \in GModel(Var \ loadFixed)
  BY BehindModel
<1>2. /\ DOMAIN g.rows = 1..n /\ h.qrows = g.qrows /\ DOMAIN h.rows = 1..n
      /\ \A k \in 1..n : h.rows[k].con = g.rows[k].con
  <2>1. /\ DOMAIN g.rows = 1..n
        /\ h = [complete |-> g.complete, cols |-> g.cols, lb |-> g.lb, ub |-> g.ub,
                obj |-> PushedObj(g.obj, UpdatedCoefs), rows |-> h.rows, qrows |-> g.qrows]
        /\ h.rows = [k \in 1..n |->
              [con |-> g.rows[k].con, poly |-> PatchLinear(g.rows[k].poly, k + 1, UpdatedCoefs),
               sense |-> g.rows[k].sense, rhs |-> PushedRhs(g.rows[k].rhs, k, UpdatedCoefs)]]
    BY <1>1, PushedFacts
  <2> HIDE DEF h, g, n
  <2>2. QED
    BY <2>1
<1>3. /\ \A r : r \in AllRows(g) <=> \E j \in L : \E d \in D(j) : r = R(j, d, v)
      /\ \A r \in Range(g.rows), q \in Range(g.qrows) : r.con # q.con
  BY BehindModel
<1>4. ASSUME NEW j \in L, NEW d \in D(j), NEW k \in 1..n, g.rows[k] = R(j, d, v)
      PROVE  h.rows[k] = R(j, d, val)
  BY <1>4, RowFollows
<1>5. ASSUME NEW j \in L, NEW d \in D(j), R(j, d, v) \in Range(g.qrows)
      PROVE  R(j, d, v) = R(j, d, val)
  BY <1>5, QuadraticRowFollows
<1> HIDE DEF h, g, n, D, R, L
<1>6. ASSUME NEW r \in AllRows(h)
      PROVE  \E j \in L : \E d \in D(j) : r = R(j, d, val)
  <2>1. CASE r \in Range(h.qrows)
    <3>1. r \in Range(g.qrows) /\ r \in AllRows(g)
      BY <1>2, <2>1 DEF AllRows
    <3>2. PICK j \in L : \E d \in D(j) : r = R(j, d, v)
      BY <1>3, <3>1
    <3>3. PICK d \in D(j) : r = R(j, d, v)
      BY <3>2
    <3>4. QED
      BY <1>5, <3>1, <3>3
  <2>2. CASE r \in Range(h.rows)
    <3>1. PICK k \in 1..n : r = h.rows[k]
      BY <1>2, <2>2 DEF Range
    <3>2. g.rows[k] \in AllRows(g)
      BY <1>2 DEF AllRows, Range
    <3>3. PICK j \in L : \E d \in D(j) : g.rows[k] = R(j, d, v)
      BY <1>3, <3>2
    <3>4. PICK d \in D(j) : g.rows[k] = R(j, d, v)
      BY <3>3
    <3>5. QED
      BY <1>4, <3>1, <3>4
  <2>3. QED
    BY <2>1, <2>2 DEF AllRows
<1>7. ASSUME NEW j \in L, NEW d \in D(j) PROVE R(j, d, val) \in AllRows(h)
  <2>1. R(j, d, v) \in AllRows(g)
    BY <1>3
  <2>2. CASE R(j, d, v) \in Range(g.qrows)
    BY <1>2, <1>5, <2>2 DEF AllRows
  <2>3. CASE R(j, d, v) \in Range(g.rows)
    <3>1. PICK k \in 1..n : g.rows[k] = R(j, d, v)
      BY <1>2, <2>3 DEF Range
    <3>2. h.rows[k] = R(j, d, val)
      BY <1>4, <3>1
    <3>3. h.rows[k] \in Range(h.rows)
      BY <1>2 DEF Range
    <3>4. QED
      BY <3>2, <3>3 DEF AllRows
  <2>4. QED
    BY <2>1, <2>2, <2>3 DEF AllRows
<1>8. \A r \in Range(h.rows), q \in Range(h.qrows) : r.con # q.con
  <2> SUFFICES ASSUME NEW r \in Range(h.rows), NEW q \in Range(h.qrows) PROVE r.con # q.con
    OBVIOUS
  <2>1. PICK k \in 1..n : r = h.rows[k]
    BY <1>2 DEF Range
  <2>2. g.rows[k] \in Range(g.rows) /\ r.con = g.rows[k].con /\ q \in Range(g.qrows)
    BY <1>2, <2>1 DEF Range
  <2>3. QED
    BY <1>3, <2>2
<1>9. AllRows(g) = {} => AllRows(h) = {}
  <2> SUFFICES ASSUME AllRows(g) = {}, NEW r \in AllRows(h) PROVE FALSE
    OBVIOUS
  <2>1. CASE r \in Range(h.qrows)
    BY <1>2, <2>1 DEF AllRows
  <2>2. CASE r \in Range(h.rows)
    <3>1. PICK k \in 1..n : r = h.rows[k]
      BY <1>2, <2>2 DEF Range
    <3>2. g.rows[k] \in AllRows(g)
      BY <1>2 DEF AllRows, Range
    <3>3. QED
      BY <3>2
  <2>3. QED
    BY <2>1, <2>2 DEF AllRows
<1>10. AllRows(h) = UNION {{R(j, d, val) : d \in D(j)} : j \in L}
  <2>1. \A r : r \in AllRows(h) <=> \E j \in L : \E d \in D(j) : r = R(j, d, val)
    BY <1>6, <1>7
  <2>2. \A r : r \in UNION {{R(j, d, val) : d \in D(j)} : j \in L}
                <=> \E j \in L : \E d \in D(j) : r = R(j, d, val)
    OBVIOUS
  <2>3. QED
    BY <2>1, <2>2
<1>11. QED
  BY <1>8, <1>9, <1>10 DEF h, g, R, D, L

(* What was the model at the cached values is the model at the current     *)
(* ones when the updated slots are pushed into it.                         *)
LEMMA PushedIsModel ==
    ASSUME NEW v, Behind(v)
    PROVE  IsModel(Pushed(gmodel, UpdatedCoefs), loaded, val, loadFixed)
<1> DEFINE g == gmodel
           h == Pushed(gmodel, UpdatedCoefs)
           F == loadFixed
           f == PatchLinear(g.obj, 1, UpdatedCoefs)
<1>1. g \in GModel(Var \ F) /\ ConstantBounds(loaded)
  BY BehindModel
<1>2. /\ h.cols = g.cols /\ h.lb = g.lb /\ h.ub = g.ub
      /\ h.obj = PushedObj(g.obj, UpdatedCoefs)
  <2>1. h = [complete |-> g.complete, cols |-> g.cols, lb |-> g.lb, ub |-> g.ub,
             obj |-> PushedObj(g.obj, UpdatedCoefs), rows |-> h.rows, qrows |-> g.qrows]
    BY <1>1, PushedFacts
  <2> HIDE DEF h, g
  <2>2. QED
    BY <2>1
<1>3. IsModel(g, loaded, v, F)
  BY DEF Behind
<1>4. \A b \in {VarLower, VarUpper} : ColumnBounds(b, val, F) = ColumnBounds(b, v, F)
  <2>1. \A y \in Var : VarLower[y] \notin Param /\ VarUpper[y] \notin Param
    BY <1>1 DEF ConstantBounds
  <2>2. QED
    BY <2>1 DEF ColumnBounds, Opt!BoundValue
<1>5. ASSUME NEW n \in Monomial \ {<<>>}
      PROVE  h.obj[n] = Collect(Exprs[loaded][1], val, F)[n]
  <2>1. 1 \in 1..Len(Exprs[loaded])
    BY BehindFacts
  <2>2. g.obj[n] = Collect(Expr(1), v, F)[n]
    BY <1>3 DEF IsModel, Expr
  <2>3. f[n] = Collect(Expr(1), val, F)[n]
    <3> DEFINE o == g.obj
    <3> HIDE DEF o
    <3>1. o[n] = Collect(Expr(1), v, F)[n]
      BY <2>2 DEF o
    <3>2. PatchLinear(o, 1, UpdatedCoefs)[n] = Collect(Expr(1), val, F)[n]
      BY <2>1, <3>1, PatchFollows
    <3>3. QED
      BY <3>2 DEF o
  <2>4. PushedObj(g.obj, UpdatedCoefs)[n] = f[n]
    <3>1. DOMAIN f = Monomial
      BY DEF PatchLinear
    <3> HIDE DEF f
    <3>2. \A c : [f EXCEPT ![<<>>] = c][n] = f[n]
      BY <3>1
    <3>3. PushedObj(g.obj, UpdatedCoefs)
            = IF <<1, Constant, 0>> \in UpdatedCoefs
              THEN [f EXCEPT ![<<>>] = Constval(1, val)] ELSE f
      BY DEF PushedObj, f
    <3>4. QED
      BY <3>2, <3>3
  <2>5. QED
    BY <1>2, <2>3, <2>4 DEF Expr
<1>6. /\ AllRows(h) = UNION {{RowFor(loaded, j, d, val, F) : d \in Range(Demands(loaded, j))} :
                                j \in 2..Len(Exprs[loaded])}
      /\ \A r \in Range(h.rows), q \in Range(h.qrows) : r.con # q.con
      /\ AllRows(g) = {} => AllRows(h) = {}
  BY RowsFollow
<1>7. /\ \A j \in 1..Len(Exprs[loaded]) : ~Refused(Exprs[loaded][j], val, F)
      /\ h.cols = Var \ F
      /\ h.cols = {} => AllRows(h) = {}
  <2>1. \A j \in 1..Len(Exprs[loaded]) : ~Refused(Exprs[loaded][j], val, F)
    BY BehindTerms DEF Refused, TermAt
  <2>2. QED
    BY <1>2, <1>3, <1>6, <2>1 DEF IsModel
<1>8. h.lb = ColumnBounds(VarLower, val, F) /\ h.ub = ColumnBounds(VarUpper, val, F)
  BY <1>2, <1>3, <1>4 DEF IsModel
<1> HIDE DEF h, F
<1>9. IsModel(h, loaded, val, F)
  BY <1>5, <1>6, <1>7, <1>8 DEF IsModel
<1>10. QED
  BY <1>9 DEF h, F

-----------------------------------------------------------------------------
(* The GRBModel follows as long as it is updatable.                        *)

(* Pushing changes coefficients, not what the rows are.                    *)
SameShape(g, h) ==
    /\ h.complete = g.complete /\ h.cols = g.cols /\ h.qrows = g.qrows
    /\ Len(h.rows) = Len(g.rows)
    /\ \A k \in 1..Len(g.rows) : h.rows[k].con = g.rows[k].con

LEMMA PushedShape ==
    ASSUME NEW C, NEW g \in GModel(C), NEW S
    PROVE  SameShape(g, Pushed(g, S))
<1> DEFINE h == Pushed(g, S)
<1>1. /\ Len(g.rows) \in Nat
      /\ h = [complete |-> g.complete, cols |-> g.cols, lb |-> g.lb, ub |-> g.ub,
              obj |-> PushedObj(g.obj, S), rows |-> h.rows, qrows |-> g.qrows]
      /\ h.rows = [k \in 1..Len(g.rows) |->
                    [con |-> g.rows[k].con, poly |-> PatchLinear(g.rows[k].poly, k + 1, S),
                     sense |-> g.rows[k].sense, rhs |-> PushedRhs(g.rows[k].rhs, k, S)]]
  BY PushedFacts
<1> HIDE DEF h
<1>2. h.complete = g.complete /\ h.cols = g.cols /\ h.qrows = g.qrows
  BY <1>1
<1>3. Len(h.rows) = Len(g.rows) /\ \A k \in 1..Len(g.rows) : h.rows[k].con = g.rows[k].con
  BY <1>1
<1>4. QED
  BY <1>2, <1>3 DEF SameShape, h

LEMMA ShapeUpdatable ==
    ASSUME gmodel # Null, SameShape(gmodel, gmodel'),
           UNCHANGED <<repnVars, loaded, loadFixed, kept>>, Updatable'
    PROVE  Updatable
<1>1. UNCHANGED <<repn, coefmap, loads>>
  BY DEF repnVars
<1>2. kept /\ loads = 1 /\ ConstantBounds(loaded)
  BY <1>1 DEF Updatable
<1>3. gmodel.cols = Var \ loadFixed
  BY DEF Updatable, SameShape
<1>4. SoundBuild(loaded, gmodel)
  <2>1. SoundBuild(loaded, gmodel')
    BY DEF Updatable
  <2>2. QED
    BY <2>1 DEF SoundBuild, NoneDropped, SameShape
<1>5. \A j : RowNumbers(gmodel', j) = RowNumbers(gmodel, j)
  BY DEF RowNumbers, SameShape
<1>6. \A s \in TrackedSlots : /\ s[2] \notin {Quadratic, Nonlinear}
                              /\ RowTracked(gmodel, s) /\ SingleTerm(s)
  <2> SUFFICES ASSUME NEW s \in TrackedSlots
               PROVE  s[2] \notin {Quadratic, Nonlinear} /\ RowTracked(gmodel, s) /\ SingleTerm(s)
    OBVIOUS
  <2>1. s \in TrackedSlots'
    BY <1>1 DEF TrackedSlots
  <2>2. s[2] \notin {Quadratic, Nonlinear} /\ RowTracked(gmodel, s)' /\ SingleTerm(s)'
    BY <2>1 DEF Updatable
  <2>3. RowTracked(gmodel, s)
    BY <1>5, <2>2 DEF RowTracked
  <2>4. SingleTerm(s)
    <3>1. \A z : LinearVar(z)' = LinearVar(z)
      BY <1>1 DEF LinearVar
    <3>2. QED
      BY <1>1, <2>2, <3>1 DEF SingleTerm
  <2>5. QED
    BY <2>2, <2>3, <2>4
<1>7. QED
  BY <1>2, <1>3, <1>4, <1>6 DEF Updatable

(* In a later resolve() nothing throws, and the GRBModel is the model at   *)
(* the current values.                                                     *)
LEMMA ResolveAgainFollows ==
    ASSUME Typed, LoadedOnce, Follows, Tol = 0, ResolveAgain, Updatable
    PROVE  /\ gmodel # Null /\ \A s \in updated_coefs' : ~Throws(gmodel, s)
           /\ IsModel(gmodel', loaded, val, loadFixed)
           /\ \A a \in DOMAIN cache' : val[a] = cache'[a]
<1>1. PICK v \in [Atom -> Num] :
        (\A a \in DOMAIN cache : v[a] = cache[a]) /\ IsModel(gmodel, loaded, v, loadFixed)
  BY DEF Follows
<1>2. ~initial /\ updated_coefs' = UpdatedCoefs /\ cache' = RefreshedCache
  BY DEF ResolveAgain, InitialSolveAgain
<1>3. Behind(v)
  BY <1>1, <1>2 DEF Behind
<1>4. gmodel # Null
  BY DEF Updatable
<1>5. \A s \in updated_coefs' : ~Throws(gmodel, s)
  BY <1>2, <1>3, NoneThrows
<1>6. PushedSlots(gmodel, updated_coefs') = UpdatedCoefs
  BY <1>2, <1>5 DEF PushedSlots
<1>7. gmodel' = Pushed(gmodel, UpdatedCoefs)
  BY <1>4, <1>6 DEF ResolveAgain
<1>8. IsModel(gmodel', loaded, val, loadFixed)
  BY <1>3, <1>7, PushedIsModel
<1>9. \A a \in DOMAIN cache' : val[a] = cache'[a]
  <2>1. DOMAIN cache = Tracked
    BY <1>2 DEF Typed, RepnFits
  <2> SUFFICES ASSUME NEW a \in DOMAIN cache PROVE val[a] = RefreshedCache[a]
    BY <1>2 DEF RefreshedCache
  <2>2. RefreshedCache[a] = IF a \in UpdatedValues THEN val[a] ELSE cache[a]
    BY DEF RefreshedCache
  <2>3. a \notin UpdatedValues => v[a] = val[a]
    BY <1>3, <2>1, CachedOrUpdated
  <2>4. QED
    BY <1>1, <2>2, <2>3
<1>10. QED
  BY <1>4, <1>5, <1>8, <1>9

LEMMA FollowsResolveAgain ==
    ASSUME Typed, LoadedOnce, Follows, Tol = 0, ResolveAgain
    PROVE  Follows'
<1> SUFFICES ASSUME Updatable'
             PROVE  /\ val \in [Atom -> Num]
                    /\ \A a \in DOMAIN cache' : val[a] = cache'[a]
                    /\ IsModel(gmodel', loaded', val, loadFixed')
  BY DEF Follows
<1>1. UNCHANGED <<repnVars, loaded, loadFixed, kept>>
  BY DEF ResolveAgain, InitialSolveAgain
<1>2. gmodel # Null
  BY DEF ResolveAgain, Updatable
<1>3. PICK C \in SUBSET Var : gmodel \in GModel(C)
  BY <1>2 DEF Typed, TypeOK
<1>4. gmodel' = Pushed(gmodel, PushedSlots(gmodel, updated_coefs'))
  BY <1>2 DEF ResolveAgain
<1>5. SameShape(gmodel, gmodel')
  BY <1>3, <1>4, PushedShape
<1>6. Updatable
  BY <1>1, <1>2, <1>5, ShapeUpdatable
<1>7. val \in [Atom -> Num]
  BY DEF Typed, TypeOK
<1>8. QED
  BY <1>1, <1>6, <1>7, ResolveAgainFollows

(* The first resolve() builds the model at the values it caches.           *)
LEMMA FollowsResolveFirst ==
    ASSUME Typed, ResolveFirst
    PROVE  Follows'
<1> SUFFICES ASSUME Updatable'
             PROVE  /\ val \in [Atom -> Num]
                    /\ \A a \in DOMAIN cache' : val[a] = cache'[a]
                    /\ IsModel(gmodel', loaded', val, loadFixed')
  BY DEF Follows
<1>1. /\ val \in [Atom -> Num] /\ fixed \in SUBSET Var /\ loadFixed \in SUBSET Var
      /\ loaded \in Models
  BY DEF Typed, TypeOK, RepnFits, ResolveFirst
<1>2. Values(val, Atom)
  BY <1>1, NumbersAreIntegers DEF Values
<1>3. loaded' = loaded /\ loadFixed' = loadFixed
  BY DEF ResolveFirst
<1>4. gmodel' = Built(loaded, Stop(loaded, val, fixed), val, fixed)
  BY DEF ResolveFirst
<1>5. SoundBuild(loaded, gmodel') /\ gmodel'.cols = Var \ loadFixed
  BY <1>3 DEF Updatable
<1>6. IsModel(gmodel', loaded, val, fixed)
  BY <1>1, <1>2, <1>4, <1>5, BuiltIsModel
<1>7. gmodel'.cols = Var \ fixed
  BY <1>6 DEF IsModel
<1>8. fixed = loadFixed
  BY <1>1, <1>5, <1>7
<1>9. \A a \in DOMAIN cache' : val[a] = cache'[a]
  BY DEF ResolveFirst, InitialSolveFirst
<1>10. QED
  BY <1>1, <1>3, <1>6, <1>8, <1>9

LEMMA FollowsStep ==
    ASSUME Typed, LoadedOnce, CacheBehind, Follows, Tol = 0, [Next]_vars
    PROVE  Follows'
<1>1. ASSUME UNCHANGED <<gmodel, kept, repnVars, cache, loaded, loadFixed>>
      PROVE  Follows'
  <2>1. UNCHANGED <<gmodel, kept, repn, coefmap, loads, cache, loaded, loadFixed>>
    BY <1>1 DEF repnVars
  <2>2. Updatable' = Updatable
    BY <2>1 DEF Updatable, TrackedSlots, RowTracked, SingleTerm, LinearVar
  <2>3. QED
    BY <2>1, <2>2 DEF Follows
<1>2. CASE SetValue \/ Fix
  BY <1>1, <1>2 DEF SetValue, Fix, SetModelValue, SetFixed, ClientStep, gurobiVars, cacheVars
<1>3. CASE Load \/ Reset
  BY <1>3 DEF Load, Reset, Follows, Updatable
<1>4. CASE ResolveNoEnv
  BY <1>4 DEF ResolveNoEnv, InitialSolveFirst, CacheBehind, Follows, Updatable
<1>5. CASE ResolveFirst
  BY <1>5, FollowsResolveFirst
<1>6. CASE ResolveAgain
  BY <1>6, FollowsResolveAgain
<1>7. CASE SolveNoEnv
  BY <1>1, <1>7 DEF SolveNoEnv, gurobiVars, cacheVars
<1>8. CASE SolveModel
  <2>1. PICK m \in Models : Solve(m)
    BY <1>8 DEF SolveModel
  <2> DEFINE g == Built(m, Stop(m, val, fixed), val, fixed)
  <2>2. gmodel' = IF g.complete THEN Null ELSE g
    BY <2>1 DEF Solve
  <2> HIDE DEF g
  <2>3. QED
    BY <2>2 DEF Follows, Updatable, SoundBuild
<1>9. CASE UNCHANGED vars
  BY <1>1, <1>9 DEF vars, gurobiVars, cacheVars, history
<1>10. QED
  BY <1>2, <1>3, <1>4, <1>5, <1>6, <1>7, <1>8, <1>9 DEF Next, Resolve

(* The invariant, for exact comparison of cached values.                   *)
LEMMA InvInit == Init => Inv
<1> SUFFICES ASSUME Init PROVE Inv
  OBVIOUS
<1>1. Typed
  BY TypedInit
<1>2. LoadedOnce
  BY DEF Init, InitSolverRepn, LoadedOnce
<1>3. kept = FALSE
  BY DEF Init
<1>4. Follows
  BY <1>3 DEF Follows, Updatable
<1>5. QED
  BY <1>1, <1>2, <1>3, <1>4 DEF Inv, Typed

LEMMA InvStep == Tol = 0 /\ Inv /\ [Next]_vars => Inv'
<1> SUFFICES ASSUME Tol = 0, Inv, [Next]_vars PROVE Inv'
  OBVIOUS
<1>1. Typed /\ LoadedOnce /\ CacheBehind /\ Follows
  BY DEF Inv, Typed, CacheBehind
<1>2. Typed'
  BY <1>1, TypedStep
<1>3. LoadedOnce'
  BY <1>1, LoadedOnceStep
<1>4. CacheBehind'
  BY <1>1, CacheBehindStep
<1>5. Follows'
  BY <1>1, FollowsStep
<1>6. QED
  BY <1>2, <1>3, <1>4, <1>5 DEF Inv, Typed, CacheBehind

-----------------------------------------------------------------------------
(* Refinement: every step is one of the Optimizer's.                       *)

(* With every variable fixed the one point there is is optimal.            *)
LEMMA NothingFree ==
    ASSUME NEW m \in Models, NEW F \in SUBSET Var, NEW v, Values(v, Atom), NEW g, HasRows(g),
           g.obj \in Poly, IsModel(g, m, v, F), Var \ F = {}
    PROVE  [y \in {} |-> 0] \in Optimal(g)
<1> DEFINE u == [y \in {} |-> 0]
<1>1. g.cols = {} /\ AllRows(g) = {}
  BY DEF IsModel
<1>2. u \in [g.cols -> Num] /\ \A w \in [g.cols -> Num] : w = u
  BY <1>1
<1>3. IsAnswer(u, F)
  BY <1>1, <1>2 DEF IsAnswer
<1> HIDE DEF u
<1>4. \A k \in 1..Len(g.rows) : Holds(g.rows[k], u)
  BY <1>1, RowsAreAll
<1>5. \A k \in 1..Len(g.qrows) : Holds(g.qrows[k], u)
  BY <1>1, RowsAreAll
<1>6. u \in Feasible(g)
  BY <1>1, <1>2, <1>4, <1>5 DEF Feasible
<1>7. PolyValue(g.obj, u) \in Int
  BY <1>3, SameObjective
<1>8. \A w \in Feasible(g) : PolyValue(g.obj, u) <= PolyValue(g.obj, w)
  BY <1>2, <1>7 DEF Feasible
<1>9. QED
  BY <1>6, <1>8 DEF Optimal, u

(* What is written back of an optimal answer is an optimal solution.       *)
LEMMA WrittenOptimal ==
    ASSUME NEW m \in Models, fixed \in SUBSET Var, Values(val, Atom), NEW g, HasRows(g),
           g.obj \in Poly, IsModel(g, m, val, fixed), NEW u \in Optimal(g)
    PROVE  Written(Var \ fixed, u) \in Opt!Optimal(m, val, fixed)
<1>1. Point(u, val, fixed) \in Opt!Optimal(m, val, fixed)
  BY OptimalPoints
<1>2. Written(Var \ fixed, u) = Point(u, val, fixed)
  BY DEF Written, Point
<1>3. QED
  BY <1>1, <1>2

LEMMA ReadOptimal ==
    ASSUME NEW m \in Models, fixed \in SUBSET Var, Values(val, Atom), NEW g, HasRows(g),
           g.obj \in Poly, IsModel(g, m, val, fixed), ReadAnswer(g), result' = "ok"
    PROVE  val' \in Opt!Optimal(m, val, fixed)
<1> DEFINE free == Var \ fixed
           stale == (free \cap handles) \ g.cols
<1>1. g.cols = free /\ stale = {}
  BY DEF IsModel
<1>2. \A H : "ok" \notin Broken(H)
  BY DEF Broken
<1>3. \E u \in Optimal(g) \cup {[y \in {} |-> 0]}, w \in [stale -> Num] :
          /\ free \ stale \subseteq DOMAIN u
          /\ val' = Written(free, [y \in free |-> IF y \in stale THEN w[y] ELSE u[y]])
  BY <1>2 DEF ReadAnswer
<1>4. PICK u \in Optimal(g) \cup {[y \in {} |-> 0]} :
          free \subseteq DOMAIN u /\ val' = Written(free, [y \in free |-> u[y]])
  BY <1>1, <1>3
<1>5. u \in Optimal(g)
  <2>1. CASE u = [y \in {} |-> 0]
    <3>1. free = {}
      BY <1>4, <2>1
    <3>2. QED
      BY <2>1, <3>1, NothingFree
  <2>2. QED
    BY <1>4, <2>1
<1>6. Written(free, [y \in free |-> u[y]]) = Written(free, u)
  BY DEF Written
<1>7. QED
  BY <1>4, <1>5, <1>6, WrittenOptimal

(* A call that reports no answer to rely on has failed.                    *)
LEMMA FailsStep ==
    ASSUME result' \in {"ok", "failed", "crashed"}, ~(result' = "ok" /\ sound'),
           fixed \in SUBSET Var, Rewritten(Var \ fixed), UNCHANGED <<fixed, loaded>>
    PROVE  Opt!Fails
<1>1. \A a \in Param \cup fixed : a \in Atom \ (Var \ fixed)
  BY AtomsApart DEF Atom
<1>2. \A a \in Param \cup fixed : val'[a] = val[a]
  BY <1>1 DEF Rewritten
<1>3. QED
  BY <1>2 DEF Opt!Fails

LEMMA SameRewritten ==
    ASSUME val \in [Atom -> Num], val' = val, NEW F
    PROVE  Rewritten(F)
BY DEF Rewritten

(* What TypeOK and RepnFits say in every step.                             *)
LEMMA TypedFacts ==
    ASSUME Typed
    PROVE  /\ val \in [Atom -> Num] /\ Values(val, Atom) /\ fixed \in SUBSET Var
           /\ loaded \in Models \cup {None} /\ sound \in BOOLEAN
BY NumbersAreIntegers DEF Typed, TypeOK, RepnFits, Values

LEMMA ModelParts ==
    ASSUME NEW C, NEW g \in GModel(C)
    PROVE  HasRows(g) /\ g.obj \in Poly
BY DEF GModel, HasRows

LEMMA ResolveFirstImplements ==
    ASSUME Inv, ResolveFirst
    PROVE  Opt!Next
<1>1. Typed
  BY DEF Inv, Typed
<1>2. /\ val \in [Atom -> Num] /\ Values(val, Atom) /\ fixed \in SUBSET Var
      /\ loaded \in Models /\ loaded # None
  BY <1>1, TypedFacts DEF ResolveFirst
<1>3. gmodel' = Built(loaded, Stop(loaded, val, fixed), val, fixed)
  BY DEF ResolveFirst
<1>4. Stop(loaded, val, fixed) \in 1..(Len(Exprs[loaded]) + 1)
  BY <1>2, StopFacts
<1>5. gmodel' \in GModel(Var \ fixed)
  BY <1>2, <1>3, <1>4, BuiltType
<1>6. HasRows(gmodel') /\ gmodel'.obj \in Poly
  BY <1>5, ModelParts
<1>7. Rewritten(Var \ fixed) /\ result' \in {"ok", "failed", "crashed"}
  <2>1. CASE ReadAnswer(gmodel')
    BY <1>2, <2>1, ReadAnswerFacts
  <2>2. CASE result' = "failed" /\ val' = val
    BY <1>2, <2>2, SameRewritten
  <2>3. QED
    BY <2>1, <2>2 DEF ResolveFirst
<1>8. UNCHANGED <<fixed, loaded>>
  BY DEF ResolveFirst
<1>9. CASE result' = "ok" /\ sound'
  <2>1. SoundBuild(loaded, gmodel') /\ ReadAnswer(gmodel')
    BY <1>9 DEF ResolveFirst
  <2>2. IsModel(gmodel', loaded, val, fixed)
    BY <1>2, <1>3, <2>1, BuiltIsModel
  <2>3. val' \in Opt!Optimal(loaded, val, fixed)
    BY <1>2, <1>6, <1>9, <2>1, <2>2, ReadOptimal
  <2>4. Opt!Resolve
    BY <1>2, <1>8, <1>9, <2>3 DEF Opt!Resolve
  <2>5. QED
    BY <2>4 DEF Opt!Next
<1>10. CASE ~(result' = "ok" /\ sound')
  BY <1>2, <1>7, <1>8, <1>10, FailsStep DEF Opt!Next
<1>11. QED
  BY <1>9, <1>10

LEMMA ResolveAgainImplements ==
    ASSUME Inv, Tol = 0, ResolveAgain
    PROVE  Opt!Next
<1>1. Typed /\ LoadedOnce /\ Follows
  BY DEF Inv, Typed
<1>2. /\ val \in [Atom -> Num] /\ Values(val, Atom) /\ fixed \in SUBSET Var
      /\ loaded \in Models /\ loaded # None
  BY <1>1, TypedFacts DEF ResolveAgain
<1>3. UNCHANGED <<fixed, loaded>>
  BY DEF ResolveAgain
<1>4. Rewritten(Var \ fixed) /\ result' \in {"ok", "failed", "crashed"}
  <2>1. CASE ReadAnswer(gmodel')
    BY <1>2, <2>1, ReadAnswerFacts
  <2>2. CASE result' \in {"failed", "crashed"} /\ val' = val
    BY <1>2, <2>2, SameRewritten
  <2>3. QED
    BY <2>1, <2>2 DEF ResolveAgain, Broken
<1>5. CASE result' = "ok" /\ sound'
  <2>1. Updatable /\ fixed = loadFixed
    BY <1>5 DEF ResolveAgain, SoundUpdate
  <2>2. /\ gmodel # Null /\ \A s \in updated_coefs' : ~Throws(gmodel, s)
        /\ IsModel(gmodel', loaded, val, fixed)
    BY <1>1, <2>1, ResolveAgainFollows
  <2>3. ReadAnswer(gmodel') /\ gmodel' = Pushed(gmodel, PushedSlots(gmodel, updated_coefs'))
    BY <2>2 DEF ResolveAgain
  <2>4. PICK C \in SUBSET Var : gmodel \in GModel(C)
    BY <1>1, <2>2 DEF Typed, TypeOK
  <2>5. PushedSlots(gmodel, updated_coefs') \in SUBSET Slots(repn) /\ repn \in Seq(Seq(Entry))
    <3>1. RepnFits /\ ~initial /\ updated_coefs' = UpdatedCoefs
      BY <1>1 DEF ResolveAgain, InitialSolveAgain, Typed
    <3>2. QED
      BY <3>1, UpdatedSlots DEF PushedSlots, RepnFits
  <2>6. gmodel' \in GModel(C)
    BY <1>2, <2>3, <2>4, <2>5, PushedType
  <2>7. HasRows(gmodel') /\ gmodel'.obj \in Poly
    BY <2>6, ModelParts
  <2>8. val' \in Opt!Optimal(loaded, val, fixed)
    BY <1>2, <1>5, <2>2, <2>3, <2>7, ReadOptimal
  <2>9. Opt!Resolve
    BY <1>2, <1>3, <1>5, <2>8 DEF Opt!Resolve
  <2>10. QED
    BY <2>9 DEF Opt!Next
<1>6. CASE ~(result' = "ok" /\ sound')
  BY <1>2, <1>3, <1>4, <1>6, FailsStep DEF Opt!Next
<1>7. QED
  BY <1>5, <1>6

LEMMA SolveImplements ==
    ASSUME Inv, NEW m \in Models, Solve(m)
    PROVE  Opt!Next
<1>1. Typed
  BY DEF Inv, Typed
<1>2. val \in [Atom -> Num] /\ Values(val, Atom) /\ fixed \in SUBSET Var
  BY <1>1, TypedFacts
<1> DEFINE g == Built(m, Stop(m, val, fixed), val, fixed)
<1>3. Stop(m, val, fixed) \in 1..(Len(Exprs[m]) + 1)
  BY <1>2, StopFacts
<1>4. g \in GModel(Var \ fixed)
  BY <1>2, <1>3, BuiltType
<1>5. HasRows(g) /\ g.obj \in Poly
  BY <1>4, ModelParts
<1>6. SoundBuild(m, g) => IsModel(g, m, val, fixed)
  BY <1>2, BuiltIsModel
<1>7. /\ \/ g.complete /\ result' = "ok" /\ val' \in Answers(g)
         \/ ~g.complete /\ result' = "failed" /\ val' = val
      /\ sound' = (result' = "ok" /\ SoundBuild(m, g))
      /\ UNCHANGED <<fixed, loaded>>
  BY DEF Solve
<1> HIDE DEF g
<1>8. g.cols = Var \ fixed
  BY <1>4 DEF GModel
<1>9. Rewritten(Var \ fixed) /\ result' \in {"ok", "failed", "crashed"}
  BY <1>2, <1>7, <1>8, AnswersFacts, SameRewritten
<1>10. CASE result' = "ok" /\ sound'
  <2>1. IsModel(g, m, val, fixed)
    BY <1>6, <1>7, <1>10
  <2>2. val' \in Answers(g)
    BY <1>7, <1>10
  <2>3. CASE Optimal(g) = {}
    <3>1. val' = val
      BY <2>2, <2>3 DEF Answers
    <3>2. Opt!Optimal(m, val, fixed) = {}
      BY <1>2, <1>5, <2>1, <2>3, OptimalPoints
    <3>3. Opt!Solve(m)
      BY <1>7, <1>10, <3>1, <3>2 DEF Opt!Solve
    <3>4. QED
      BY <3>3 DEF Opt!Next
  <2>4. CASE Optimal(g) # {}
    <3>1. PICK u \in Optimal(g) : val' = Written(Var \ fixed, u)
      BY <1>8, <2>2, <2>4 DEF Answers
    <3>2. val' \in Opt!Optimal(m, val, fixed)
      BY <1>2, <1>5, <2>1, <3>1, WrittenOptimal
    <3>3. Opt!Solve(m)
      BY <1>7, <1>10, <3>2 DEF Opt!Solve
    <3>4. QED
      BY <3>3 DEF Opt!Next
  <2>5. QED
    BY <2>3, <2>4
<1>11. CASE ~(result' = "ok" /\ sound')
  BY <1>2, <1>7, <1>9, <1>11, FailsStep DEF Opt!Next
<1>12. QED
  BY <1>10, <1>11

(* The client's steps are the Optimizer's client's.                        *)
LEMMA ClientImplements ==
    ASSUME Inv, Inv', SetValue \/ Fix \/ Load \/ Reset
    PROVE  Opt!Next
<1>1. result' = "none"
  BY DEF SetValue, Fix, Load, Reset, ClientStep
<1>2. Typed'
  BY DEF Inv, Typed
<1>3. val' \in [Atom -> Num] /\ fixed' \in SUBSET Var
  BY <1>2 DEF Typed, TypeOK, RepnFits
<1>4. loaded' \in Models \cup {loaded}
  BY DEF SetValue, Fix, Load, Reset
<1>5. Opt!Client
  BY <1>1, <1>3, <1>4 DEF Opt!Client, Opt!Atom, Atom
<1>6. QED
  BY <1>5 DEF Opt!Next

LEMMA NoEnvImplements ==
    ASSUME Inv, ResolveNoEnv \/ SolveNoEnv
    PROVE  Opt!Next
<1>1. result' = "failed" /\ sound' = FALSE /\ val' = val /\ UNCHANGED <<fixed, loaded>>
  BY DEF ResolveNoEnv, SolveNoEnv, modelVars
<1>2. val \in [Atom -> Num] /\ fixed \in SUBSET Var
  BY TypedFacts DEF Inv, Typed
<1>3. Rewritten(Var \ fixed)
  BY <1>1, <1>2, SameRewritten
<1>4. QED
  BY <1>1, <1>2, <1>3, FailsStep DEF Opt!Next

LEMMA InitImplements == Init => Opt!Init
<1> SUFFICES ASSUME Init PROVE Opt!Init
  OBVIOUS
<1>1. val \in [Atom -> Num] /\ fixed \in SUBSET Var
  BY DEF Init, InitSolverRepn
<1>2. QED
  BY <1>1 DEF Init, Opt!Init, Opt!Atom, Atom

LEMMA StepImplements == Tol = 0 /\ Inv /\ Inv' /\ [Next]_vars => [Opt!Next]_(Opt!vars)
<1> SUFFICES ASSUME Tol = 0, Inv, Inv', [Next]_vars PROVE [Opt!Next]_(Opt!vars)
  OBVIOUS
<1>1. CASE SetValue \/ Fix \/ Load \/ Reset
  BY <1>1, ClientImplements
<1>2. CASE ResolveNoEnv \/ SolveNoEnv
  BY <1>2, NoEnvImplements
<1>3. CASE ResolveFirst
  BY <1>3, ResolveFirstImplements
<1>4. CASE ResolveAgain
  BY <1>4, ResolveAgainImplements
<1>5. CASE SolveModel
  BY <1>5, SolveImplements DEF SolveModel
<1>6. CASE UNCHANGED vars
  BY <1>6 DEF vars, modelVars, history, Opt!vars
<1>7. QED
  BY <1>1, <1>2, <1>3, <1>4, <1>5, <1>6 DEF Next, Resolve

(* Without a tolerance the invariant holds in every reachable state: as    *)
(* long as the changes since the build are ones resolve() can push, the    *)
(* GRBModel that is kept is the model at the values in the cache.          *)
THEOREM Invariance == Tol = 0 => (Spec => []Inv)
<1> SUFFICES ASSUME Tol = 0 PROVE Spec => []Inv
  OBVIOUS
<1>1. Inv /\ [Next]_vars => Inv'
  BY InvStep
<1>2. QED
  BY <1>1, InvInit, PTL DEF Spec

(* Without a tolerance the solver implements Optimizer, whatever the       *)
(* models, bounds, values and order of calls: an answer reported without   *)
(* error, where the changes are ones resolve() can push, is an optimal     *)
(* solution of the model as its values and fixed variables are now.        *)
THEOREM Refinement == Tol = 0 => (Spec => Implements)
<1> SUFFICES ASSUME Tol = 0 PROVE Spec => Implements
  OBVIOUS
<1>1. Inv /\ [Next]_vars => Inv'
  BY InvStep
<1>2. Inv /\ Inv' /\ [Next]_vars => [Opt!Next]_(Opt!vars)
  BY StepImplements
<1>3. QED
  BY <1>1, <1>2, InvInit, InitImplements, PTL DEF Spec, Implements, Opt!Spec
=============================================================================
