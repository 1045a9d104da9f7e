------------------------- MODULE SymbolicDiff_proof -------------------------
(***************************************************************************)
(* Proofs about SymbolicDiff, for every set of leaves and every expression *)
(* that a client can make of them: in-degrees count the uses that are      *)
(* still to be swept, so that every use is swept, and a term passes on its *)
(* partial only when it is complete; and the answer is the derivative.     *)
(***************************************************************************)
EXTENDS SymbolicDiff, Finite_proof, SequenceTheorems, FiniteSetTheorems, TLAPS

-----------------------------------------------------------------------------
(***************************************************************************)
(* The invariant.                                                          *)
(***************************************************************************)
(* An expression has an argument or more, all of them older.               *)
HeapOK ==
    /\ heap \in Seq(ToSet(heap)) /\ Root >= Len(Leaves)
    /\ \A i \in 1..Len(Leaves) : heap[i] = Leaves[i]
    /\ \A i \in Places : IsExpression(i) <=> i > Len(Leaves)
    /\ \A i \in Places :
        IsExpression(i) => heap[i].args \in Seq(1..(i - 1)) /\ Len(heap[i].args) \in 1..i

(* The terms that are used by the terms of S: which, and at what place.    *)
Uses(S, j) == {u \in S \X Places : u[2] \in DOMAIN Args(u[1]) /\ Args(u[1])[u[2]] = j}

(* The expressions found so far, and those whose arguments were counted.   *)
Found == {Root} \cup seen
Expanded == Found \ ToSet(queue)

(* The uses of j that the second loop has not swept.                       *)
Pending(j) ==
    {u \in Uses(Found, j) :
        /\ D[u[1]] # 0 \/ u[1] \in ToSet(queue)
        /\ ~(queue # <<>> /\ u[1] = Head(queue) /\ u[2] < nth)}

Injective(s) == \A m, n \in DOMAIN s : s[m] = s[n] => m = n

LoopsOK ==
    phase \in {"count", "sweep"} =>
        /\ IsExpression(Root)
        /\ seen \subseteq {i \in 1..(Root - 1) : IsExpression(i)}
        /\ queue \in Seq(Found) /\ Injective(queue)

Before == phase = "build" => seen = {} /\ queue = <<>> /\ nth = 1 /\ partial = <<>>

CountOK ==
    phase = "count" =>
        /\ nth = 1 /\ partial = <<>>
        /\ DOMAIN D = {Root} \cup {j \in Places : Uses(Expanded, j) # {}}
        /\ \A j \in DOMAIN D : D[j] = Cardinality(Uses(Expanded, j))
        /\ \A j \in DOMAIN D : IsExpression(j) => j \in Found
        /\ seen \subseteq DOMAIN D

SweepOK ==
    phase = "sweep" =>
        /\ DOMAIN D \subseteq Places /\ Found \subseteq DOMAIN D
        /\ \A j \in DOMAIN D : IsExpression(j) => j \in Found
        /\ \A j \in Places : Uses(Found, j) # {} => j \in DOMAIN D
        /\ \A j \in DOMAIN D : D[j] = Cardinality(Pending(j))
        /\ \A i \in ToSet(queue) : D[i] = 0
        /\ IF queue = <<>> THEN nth = 1 ELSE nth \in 1..Len(Args(Head(queue)))

DoneOK ==
    phase = "done" /\ IsExpression(Root) =>
        /\ DOMAIN D \subseteq Places /\ Root \in DOMAIN D /\ ClosedBelow(DOMAIN D)
        /\ \A i \in DOMAIN D : D[i] = 0

IInv ==
    /\ HeapOK /\ phase \in {"build", "count", "sweep", "done"}
    /\ LoopsOK /\ Before /\ CountOK /\ SweepOK /\ DoneOK

-----------------------------------------------------------------------------
(* Facts about the operators.                                              *)

(* Of what kind the operators are.                                         *)
LEMMA Kinds ==
    /\ \A op \in Operations : op \in {"+", "*", "/", "^"} \/ op \in Unary
    /\ \A op \in Unary : op = "-" \/ op = "abs" \/ op \in FunctionNames
    /\ \A op \in Unary : op \in Operations /\ op \notin {"+", "*", "/", "^"}
    /\ \A op \in FunctionNames : op \in Unary /\ op \notin {"-", "abs"}
    /\ \A op \in Operations : op \notin {"num", "par", "var", "mono"}
    /\ {"+", "*", "/", "^"} \subseteq Operations /\ "-" \in Unary /\ "abs" \in Unary
BY DEF Operations, Unary, FunctionNames

(* A leaf of each kind, with what it holds.                                *)
LeafOK(t) ==
    /\ t.op \in {"num", "par", "var", "mono"}
    /\ t.op = "num" => t.n \in Field
    /\ t.op = "par" => t.a \in Param
    /\ t.op = "var" => t.a \in Var /\ t = VarTerm(t.a)
    /\ t.op = "mono" => t.a \in Var /\ t.c \in Field

LEMMA LeavesTyped ==
    /\ Leaves \in Seq(ToSet(Leaves)) /\ Len(Leaves) \in Nat /\ Len(Leaves) >= 1
    /\ DOMAIN Leaves = 1..Len(Leaves)
    /\ \A i \in 1..Len(Leaves) : LeafOK(Leaves[i]) /\ IsLeaf(Leaves[i])
<1>1. Leaves \in Seq(LeafType) /\ Leaves # <<>>
  BY DiffBounds
<1>2. /\ Len(Leaves) \in Nat /\ Len(Leaves) >= 1 /\ DOMAIN Leaves = 1..Len(Leaves)
      /\ \A i \in 1..Len(Leaves) : Leaves[i] \in LeafType
  BY ONLY <1>1
<1>3. Leaves \in Seq(ToSet(Leaves))
  <2>1. Leaves \in [1..Len(Leaves) -> ToSet(Leaves)]
    BY <1>1, <1>2 DEF ToSet
  <2>2. QED
    BY <1>2, <2>1
<1>4. ASSUME NEW t \in LeafType PROVE LeafOK(t)
  <2>1. 0 \in Field /\ 1 \in Field
    BY PrimeField DEF Field
  <2>2. CASE t = Zero \/ t = One \/ \E n \in Field : t = Num(n)
    BY <2>1, <2>2 DEF LeafOK, Zero, One, Num
  <2>3. CASE \E p \in Param : t = Par(p)
    BY <2>3 DEF LeafOK, Par
  <2>4. CASE \E x \in Var : t = VarTerm(x)
    BY <2>4 DEF LeafOK, VarTerm
  <2>5. CASE \E c \in Field, x \in Var : t = Monomial(c, x)
    BY <2>5 DEF LeafOK, Monomial
  <2>6. QED
    BY <2>2, <2>3, <2>4, <2>5 DEF LeafType
<1>5. QED
  BY <1>2, <1>3, <1>4 DEF LeafOK, IsLeaf

LEMMA HeapFacts ==
    ASSUME HeapOK
    PROVE  /\ Root \in Nat /\ Len(Leaves) \in Nat /\ Len(Leaves) >= 1 /\ Root >= 1
           /\ DOMAIN heap = Places
           /\ \A i \in Places :
                /\ Args(i) \in Seq(1..(i - 1)) /\ Len(Args(i)) \in 0..i
                /\ DOMAIN Args(i) = 1..Len(Args(i)) /\ DOMAIN Args(i) \subseteq Places
                /\ IsExpression(i) => Len(Args(i)) >= 1
                /\ \A k \in DOMAIN Args(i) : /\ Args(i)[k] \in Places
                                             /\ Args(i)[k] < i /\ Args(i)[k] # Root
<1>1. Leaves \in Seq(ToSet(Leaves)) /\ Len(Leaves) \in Nat /\ Len(Leaves) >= 1
  BY LeavesTyped
<1>2. Root \in Nat /\ DOMAIN heap = Places /\ Root >= 1
  BY <1>1 DEF HeapOK, Root, Places
<1>3. ASSUME NEW i \in Places
      PROVE  /\ Args(i) \in Seq(1..(i - 1)) /\ Len(Args(i)) \in 0..i
             /\ IsExpression(i) => Len(Args(i)) >= 1
  <2>1. CASE IsExpression(i)
    BY <1>2, <2>1 DEF HeapOK, Args, IsExpression, Places
  <2>2. CASE ~IsExpression(i)
    <3>1. Args(i) = <<>>
      BY <2>2 DEF Args, IsExpression
    <3>2. QED
      BY <1>2, <2>2, <3>1 DEF Places
  <2>3. QED
    BY <2>1, <2>2
<1>4. ASSUME NEW i \in Places
      PROVE  /\ DOMAIN Args(i) = 1..Len(Args(i)) /\ DOMAIN Args(i) \subseteq Places
             /\ \A k \in DOMAIN Args(i) : /\ Args(i)[k] \in Places
                                          /\ Args(i)[k] < i /\ Args(i)[k] # Root
  <2>1. i \in 1..Root /\ Args(i) \in Seq(1..(i - 1)) /\ Len(Args(i)) \in 0..i
    BY <1>3 DEF Places
  <2>2. DOMAIN Args(i) = 1..Len(Args(i)) /\ \A k \in DOMAIN Args(i) : Args(i)[k] \in 1..(i - 1)
    BY <2>1
  <2>3. QED
    BY <1>2, <2>1, <2>2 DEF Places
<1>5. QED
  BY <1>1, <1>2, <1>3, <1>4

LEMMA UsesFinite ==
    ASSUME HeapOK, NEW S \in SUBSET Places, NEW j
    PROVE  /\ IsFiniteSet(Uses(S, j)) /\ Cardinality(Uses(S, j)) \in Nat
           /\ \A T \in SUBSET Uses(S, j) : IsFiniteSet(T) /\ Cardinality(T) \in Nat
<1>1. IsFiniteSet(Places)
  BY HeapFacts, FS_Interval DEF Places
<1>2. IsFiniteSet(Places \X Places)
  BY <1>1, FS_Product
<1>3. Uses(S, j) \in SUBSET (Places \X Places)
  BY DEF Uses
<1>4. \A T \in SUBSET (Places \X Places) : IsFiniteSet(T) /\ Cardinality(T) \in Nat
  BY <1>2, FS_Subset, FS_CardinalityType
<1>5. QED
  BY <1>3, <1>4

(* Another term adds as many uses of j as it has arguments j.              *)
LEMMA UsesAdd ==
    ASSUME HeapOK, NEW S \in SUBSET Places, NEW i \in Places, i \notin S, NEW j
    PROVE  Cardinality(Uses(S \cup {i}, j))
           = Cardinality({k \in DOMAIN Args(i) : Args(i)[k] = j}) + Cardinality(Uses(S, j))
<1> DEFINE K == {k \in DOMAIN Args(i) : Args(i)[k] = j}
           U == Uses({i}, j)
           f == [u \in U |-> u[2]]
<1>1. DOMAIN Args(i) \subseteq Places
  BY HeapFacts
<1>2. f \in Injection(U, K)
  BY DEF Uses, Injection, IsInjective
<1>3. \A k \in K : \E u \in U : f[u] = k
  <2> SUFFICES ASSUME NEW k \in K PROVE \E u \in U : f[u] = k
    OBVIOUS
  <2>1. <<i, k>> \in U
    BY <1>1 DEF Uses
  <2>2. QED
    BY <2>1
<1>4. f \in Bijection(U, K)
  BY <1>2, <1>3 DEF Bijection, Surjection, Injection
<1>5. IsFiniteSet(U) /\ IsFiniteSet(Uses(S, j)) /\ Cardinality(U) \in Nat
      /\ Cardinality(Uses(S, j)) \in Nat
  BY UsesFinite
<1>6. Cardinality(K) = Cardinality(U)
  BY <1>4, <1>5, FS_Bijection DEF ExistsBijection
<1>7. Uses(S \cup {i}, j) = Uses(S, j) \cup U /\ Uses(S, j) \cap U = {}
  BY DEF Uses
<1>8. Cardinality(Uses(S, j) \cup U)
      = Cardinality(Uses(S, j)) + Cardinality(U) - Cardinality(Uses(S, j) \cap U)
  BY <1>5, FS_Union
<1>9. Cardinality(Uses(S, j) \cap U) = 0
  BY <1>7, FS_EmptySet
<1>10. Cardinality(Uses(S \cup {i}, j)) = Cardinality(K) + Cardinality(Uses(S, j))
  <2> HIDE DEF U, K
  <2>1. Cardinality(Uses(S \cup {i}, j)) = Cardinality(Uses(S, j) \cup U)
    BY <1>7, Zenon
  <2>2. QED
    BY <1>5, <1>6, <1>8, <1>9, <2>1
<1>11. QED
  BY <1>10

LEMMA NewTermsFacts ==
    ASSUME HeapOK, NEW i \in Places
    PROVE  LET new == NewTerms(i)
           IN  /\ new \in Seq(ToSet(new)) /\ Injective(new)
               /\ ToSet(new) = {j \in Places : /\ \E k \in DOMAIN Args(i) : Args(i)[k] = j
                                               /\ IsExpression(j) /\ j \notin seen}
<1> DEFINE S == {k \in DOMAIN Args(i) :
                    /\ IsExpression(Args(i)[k])
                    /\ Args(i)[k] \notin seen
                    /\ \A j \in 1..(k - 1) : Args(i)[j] # Args(i)[k]}
           new == NewTerms(i)
<1>1. /\ DOMAIN Args(i) = 1..Len(Args(i)) /\ Len(Args(i)) \in Nat
      /\ \A k \in DOMAIN Args(i) : Args(i)[k] \in Places
  BY HeapFacts
<1>2. IsFiniteSet(S) /\ S \in SUBSET Nat
  <2>1. IsFiniteSet(1..Len(Args(i)))
    BY <1>1, FS_Interval
  <2>2. S \in SUBSET (1..Len(Args(i)))
    BY <1>1
  <2>3. S \in SUBSET Nat
    BY <1>1
  <2> HIDE DEF S
  <2>4. QED
    BY <2>1, <2>2, <2>3, FS_Subset
<1>3. new = [n \in 1..Cardinality(S) |-> Args(i)[Nth(S, n)]]
  BY DEF NewTerms
<1> HIDE DEF new
<1>4. DOMAIN new = 1..Cardinality(S) /\ Cardinality(S) \in Nat
  BY <1>2, <1>3, NthMembers
<1>5. new \in Seq(ToSet(new))
  <2>1. new \in [1..Cardinality(S) -> ToSet(new)]
    BY <1>3, <1>4 DEF ToSet
  <2> HIDE DEF S
  <2>2. QED
    BY <1>4, <2>1
<1>6. \A k, l \in S : Args(i)[k] = Args(i)[l] => k = l
  <2> SUFFICES ASSUME NEW k \in S, NEW l \in S, Args(i)[k] = Args(i)[l], k < l PROVE FALSE
    BY <1>1
  <2>1. k \in 1..(l - 1)
    BY <1>1
  <2>2. QED
    BY <2>1
<1>7. Injective(new)
  <2> SUFFICES ASSUME NEW m \in DOMAIN new, NEW n \in DOMAIN new, new[m] = new[n]
               PROVE  m = n
    BY DEF Injective
  <2>1. Nth(S, m) \in S /\ Nth(S, n) \in S /\ Args(i)[Nth(S, m)] = Args(i)[Nth(S, n)]
    BY <1>2, <1>3, <1>4, NthMembers
  <2>2. Nth(S, m) = Nth(S, n)
    BY <1>6, <2>1
  <2>3. QED
    BY <1>2, <1>4, <2>2, NthMembers
<1>8. ASSUME NEW j \in ToSet(new)
      PROVE  j \in Places /\ (\E k \in DOMAIN Args(i) : Args(i)[k] = j)
             /\ IsExpression(j) /\ j \notin seen
  <2>1. PICK n \in 1..Cardinality(S) : j = Args(i)[Nth(S, n)]
    BY <1>3, <1>4 DEF ToSet
  <2>2. Nth(S, n) \in S
    BY <1>2, NthMembers
  <2>3. QED
    BY <1>1, <2>1, <2>2
<1>9. ASSUME NEW j \in Places, NEW l \in DOMAIN Args(i), Args(i)[l] = j,
             IsExpression(j), j \notin seen
      PROVE  j \in ToSet(new)
  <2> DEFINE L == {k \in DOMAIN Args(i) : Args(i)[k] = j}
  <2>1. \E k \in L : \A m \in L : k <= m
    <3>1. L \in SUBSET Nat /\ L # {}
      BY <1>1, <1>9
    <3> HIDE DEF L
    <3>2. QED
      BY <3>1, Least
  <2>2. PICK k \in L : \A m \in L : k <= m
    BY <2>1
  <2>3. k \in S
    BY <1>1, <1>9, <2>2
  <2>4. PICK n \in 1..Cardinality(S) : Nth(S, n) = k
    BY <1>2, <2>3, NthMembers
  <2>5. QED
    BY <1>3, <1>4, <2>2, <2>4 DEF ToSet
<1>10. ToSet(new) = {j \in Places : /\ \E k \in DOMAIN Args(i) : Args(i)[k] = j
                                   /\ IsExpression(j) /\ j \notin seen}
  BY <1>8, <1>9
<1>11. QED
  BY <1>5, <1>7, <1>10 DEF new

LEMMA AppendedTo ==
    ASSUME NEW s, s \in Seq(ToSet(s)), NEW n
    PROVE  LET t == Append(s, n)
           IN  /\ t \in Seq(ToSet(t)) /\ Len(t) = Len(s) + 1 /\ DOMAIN t = 1..Len(s) + 1
               /\ t[Len(t)] = n /\ \A i \in 1..Len(s) : t[i] = s[i]
<1> DEFINE t == Append(s, n)
<1>1. s \in Seq(ToSet(s) \cup {n})
  OBVIOUS
<1>2. /\ t \in Seq(ToSet(s) \cup {n}) /\ Len(t) = Len(s) + 1 /\ DOMAIN t = 1..Len(s) + 1
      /\ t[Len(t)] = n /\ \A i \in 1..Len(s) : t[i] = s[i]
  BY <1>1
<1>3. t \in Seq(ToSet(t))
  BY <1>2 DEF ToSet
<1>4. QED
  BY <1>2, <1>3

LEMMA SameHeap ==
    ASSUME heap' = heap
    PROVE  /\ Root' = Root /\ Places' = Places /\ HeapOK' = HeapOK
           /\ \A i : Args(i)' = Args(i) /\ (IsExpression(i)' <=> IsExpression(i))
           /\ \A S, j : Uses(S, j)' = Uses(S, j)
           /\ \A S : ClosedBelow(S)' <=> ClosedBelow(S)
BY DEF Root, Places, HeapOK, Args, IsExpression, Uses, ClosedBelow

-----------------------------------------------------------------------------
(* Each step preserves the invariant.                                      *)

LEMMA InitInv == Init => IInv
<1> SUFFICES ASSUME Init PROVE IInv
  OBVIOUS
<1>1. Leaves \in Seq(ToSet(Leaves)) /\ Len(Leaves) \in Nat
  BY LeavesTyped
<1>2. \A i \in Places : ~IsExpression(i) /\ i \in 1..Len(Leaves)
  BY LeavesTyped DEF Init, IsExpression, Places, Root
<1>3. HeapOK
  BY <1>1, <1>2 DEF HeapOK, Init, Root, Places
<1>4. QED
  BY <1>3 DEF Init, IInv, LoopsOK, Before, CountOK, SweepOK, DoneOK

LEMMA BuildKeepsInv ==
    ASSUME IInv, Build
    PROVE  IInv'
<1>1. HeapOK /\ phase = "build"
  BY DEF IInv, Build
<1>2. PICK op \in Operators, l \in Places, r \in Places :
         heap' = Append(heap, Node(op, CASE op \in Unary -> <<l>>
                                         [] op = "+" /\ heap[l].op = "+" -> Append(heap[l].args, r)
                                         [] OTHER -> <<l, r>>))
  BY DEF Build
<1> DEFINE args == CASE op \in Unary -> <<l>>
                     [] op = "+" /\ heap[l].op = "+" -> Append(heap[l].args, r)
                     [] OTHER -> <<l, r>>
<1>3. /\ Root \in Nat /\ Root >= 1 /\ DOMAIN heap = 1..Root /\ Places = 1..Root
      /\ Len(Leaves) \in Nat
  BY <1>1, HeapFacts DEF Places
<1>4. args \in Seq(1..Root) /\ Len(args) \in 1..(Root + 1)
  <2>0. ASSUME NEW s \in Seq(1..Root), Len(s) \in 1..(Root + 1), args = s
        PROVE  args \in Seq(1..Root) /\ Len(args) \in 1..(Root + 1)
    <3> HIDE DEF args
    <3>1. QED
      BY <2>0
  <2>1. CASE op \in Unary
    <3>1. args = <<l>>
      BY <2>1, Kinds
    <3>2. <<l>> \in Seq(1..Root) /\ Len(<<l>>) \in 1..(Root + 1)
      BY <1>3
    <3>3. QED
      BY <2>0, <3>1, <3>2
  <2>2. CASE op \notin Unary /\ op = "+" /\ heap[l].op = "+"
    <3>1. IsExpression(l)
      BY <2>2 DEF IsExpression, IsLeaf
    <3>2. heap[l].args \in Seq(1..(l - 1)) /\ Len(heap[l].args) \in 1..l /\ l \in 1..Root
      BY <1>1, <1>3, <3>1 DEF HeapOK
    <3>3. heap[l].args \in Seq(1..Root)
      BY <1>3, <3>2
    <3>4. args = Append(heap[l].args, r)
      BY <2>2
    <3>5. Append(heap[l].args, r) \in Seq(1..Root)
          /\ Len(Append(heap[l].args, r)) = Len(heap[l].args) + 1
      BY <1>3, <3>3
    <3>6. Len(Append(heap[l].args, r)) \in 1..(Root + 1)
      BY <1>3, <3>2, <3>5
    <3>7. QED
      BY <2>0, <3>4, <3>5, <3>6
  <2>3. CASE op \notin Unary /\ ~(op = "+" /\ heap[l].op = "+")
    <3>1. args = <<l, r>>
      BY <2>3
    <3>2. <<l, r>> \in Seq(1..Root) /\ Len(<<l, r>>) \in 1..(Root + 1)
      BY <1>3
    <3>3. QED
      BY <2>0, <3>1, <3>2
  <2>4. QED
    BY <2>1, <2>2, <2>3
<1> DEFINE t == Node(op, args)
<1>5. ~IsLeaf(t) /\ t.args = args
  BY Kinds, DiffBounds DEF IsLeaf, Node
<1>6. heap' = Append(heap, t)
  BY <1>2
<1> HIDE DEF t, args
<1>7. /\ heap' \in Seq(ToSet(heap')) /\ Len(heap') = Root + 1 /\ DOMAIN heap' = 1..(Root + 1)
      /\ heap'[Root + 1] = t /\ \A i \in 1..Root : heap'[i] = heap[i]
  BY <1>1, <1>6, AppendedTo DEF HeapOK, Root
<1>8. Root' = Root + 1 /\ Places' = 1..(Root + 1)
  BY <1>7 DEF Root, Places
<1>9. \A i \in 1..Root : /\ IsExpression(i)' <=> IsExpression(i)
                         /\ heap'[i] = heap[i]
  BY <1>7 DEF IsExpression
<1>10. \A i : i = Root + 1 => IsExpression(i)' /\ heap'[i].args = args
  BY <1>5, <1>7 DEF IsExpression
<1>11. HeapOK'
  <2>1. /\ heap' \in Seq(ToSet(heap')) /\ Root' >= Len(Leaves)
        /\ \A i \in 1..Len(Leaves) : heap'[i] = Leaves[i]
    BY <1>1, <1>3, <1>7, <1>8 DEF HeapOK
  <2>2. \A i \in Places' : i \in 1..Root \/ i = Root + 1
    BY <1>3, <1>8
  <2>3. \A i \in Places' : IsExpression(i)' <=> i > Len(Leaves)
    BY <1>1, <1>3, <1>9, <1>10, <2>2 DEF HeapOK
  <2>4. \A i \in Places' :
          IsExpression(i)' => heap'[i].args \in Seq(1..(i - 1)) /\ Len(heap'[i].args) \in 1..i
    <3> SUFFICES ASSUME NEW i \in Places', IsExpression(i)'
                 PROVE  heap'[i].args \in Seq(1..(i - 1)) /\ Len(heap'[i].args) \in 1..i
      OBVIOUS
    <3>1. CASE i \in 1..Root
      BY <1>1, <1>3, <1>9, <3>1 DEF HeapOK
    <3>2. CASE i = Root + 1
      <4>1. i - 1 = Root /\ heap'[i].args = args
        BY <1>3, <1>10, <3>2
      <4>2. QED
        BY <1>4, <3>2, <4>1
    <3>3. QED
      BY <2>2, <3>1, <3>2
  <2>5. QED
    BY <2>1, <2>3, <2>4 DEF HeapOK
<1>12. UNCHANGED <<phase, seen, queue, nth, partial>>
  BY DEF Build, Sweep
<1>13. QED
  BY <1>1, <1>11, <1>12 DEF IInv, LoopsOK, Before, CountOK, SweepOK, DoneOK

LEMMA StartKeepsInv ==
    ASSUME IInv, Start
    PROVE  IInv'
<1>1. HeapOK /\ phase = "build" /\ seen = {} /\ queue = <<>> /\ nth = 1 /\ partial = <<>>
  BY DEF IInv, Before, Start
<1>2. heap' = heap /\ UNCHANGED <<seen, nth, partial>>
  BY DEF Start
<1>3. HeapOK' /\ Root' = Root /\ (IsExpression(Root)' <=> IsExpression(Root))
  BY <1>1, <1>2, SameHeap DEF IsExpression
<1>4. CASE IsExpression(Root)
  <2>1. phase' = "count" /\ D' = [i \in {Root} |-> 0] /\ queue' = <<Root>>
    BY <1>4 DEF Start
  <2>2. ToSet(queue') = {Root} /\ queue' \in Seq({Root}) /\ Injective(queue')
    BY <2>1 DEF ToSet, Injective
  <2>3. Found' = {Root} /\ Expanded' = {}
    BY <1>1, <1>2, <1>3, <2>2 DEF Found, Expanded
  <2>4. \A j : Uses(Expanded, j)' = {}
    BY <2>3 DEF Uses
  <2>5. LoopsOK'
    BY <1>1, <1>2, <1>3, <1>4, <2>2, <2>3 DEF LoopsOK, Injective
  <2>6. CountOK'
    BY <1>1, <1>2, <1>3, <2>1, <2>3, <2>4, FS_EmptySet DEF CountOK
  <2>7. QED
    BY <1>3, <2>1, <2>5, <2>6 DEF IInv, Before, SweepOK, DoneOK
<1>5. CASE ~IsExpression(Root)
  <2>1. phase' = "done"
    BY <1>5 DEF Start
  <2>2. QED
    BY <1>3, <1>5, <2>1 DEF IInv, LoopsOK, Before, CountOK, SweepOK, DoneOK
<1>6. QED
  BY <1>4, <1>5

(* Queues without repetition.                                              *)
LEMMA Joined ==
    ASSUME NEW S, NEW p \in Seq(S), NEW n \in Seq(S), Injective(p), Injective(n),
           ToSet(p) \cap ToSet(n) = {}
    PROVE  p \o n \in Seq(S) /\ Injective(p \o n) /\ ToSet(p \o n) = ToSet(p) \cup ToSet(n)
<1> DEFINE s == p \o n
<1>1. /\ s \in Seq(S) /\ Len(s) = Len(p) + Len(n) /\ DOMAIN s = 1..(Len(p) + Len(n))
      /\ Len(p) \in Nat /\ Len(n) \in Nat /\ DOMAIN p = 1..Len(p) /\ DOMAIN n = 1..Len(n)
  OBVIOUS
<1>2. \A i \in DOMAIN s : s[i] = IF i <= Len(p) THEN p[i] ELSE n[i - Len(p)]
  OBVIOUS
<1>3. \A i \in DOMAIN p : i \in DOMAIN s /\ s[i] = p[i]
  BY <1>1, <1>2
<1>4. \A i \in DOMAIN n : i + Len(p) \in DOMAIN s /\ s[i + Len(p)] = n[i]
  BY <1>1, <1>2
<1>5. \A i \in DOMAIN s : \/ i \in DOMAIN p /\ s[i] = p[i]
                          \/ i - Len(p) \in DOMAIN n /\ s[i] = n[i - Len(p)]
  BY <1>1, <1>2
<1> HIDE DEF s
<1>6. ToSet(s) = ToSet(p) \cup ToSet(n)
  BY <1>3, <1>4, <1>5 DEF ToSet
<1>7. Injective(s)
  <2> SUFFICES ASSUME NEW i \in DOMAIN s, NEW j \in DOMAIN s, s[i] = s[j] PROVE i = j
    BY DEF Injective
  <2>1. CASE i \in DOMAIN p /\ s[i] = p[i] /\ j \in DOMAIN p /\ s[j] = p[j]
    BY <2>1 DEF Injective
  <2>2. CASE i - Len(p) \in DOMAIN n /\ s[i] = n[i - Len(p)]
             /\ j - Len(p) \in DOMAIN n /\ s[j] = n[j - Len(p)]
    <3>1. i - Len(p) = j - Len(p)
      BY <2>2 DEF Injective
    <3>2. QED
      BY <1>1, <3>1
  <2>3. CASE i \in DOMAIN p /\ s[i] = p[i] /\ j - Len(p) \in DOMAIN n /\ s[j] = n[j - Len(p)]
    BY <2>3 DEF ToSet
  <2>4. CASE i - Len(p) \in DOMAIN n /\ s[i] = n[i - Len(p)] /\ j \in DOMAIN p /\ s[j] = p[j]
    BY <2>4 DEF ToSet
  <2>5. QED
    BY <1>5, <2>1, <2>2, <2>3, <2>4
<1>8. QED
  BY <1>1, <1>6, <1>7 DEF s

LEMMA TakenOff ==
    ASSUME NEW S, NEW q \in Seq(S), q # <<>>, Injective(q)
    PROVE  /\ Last(q) \in S /\ Last(q) \in ToSet(q) /\ Front(q) \in Seq(S)
           /\ Injective(Front(q)) /\ ToSet(Front(q)) = ToSet(q) \ {Last(q)}
           /\ Head(q) \in S /\ Head(q) \in ToSet(q) /\ Tail(q) \in Seq(S)
           /\ Injective(Tail(q)) /\ ToSet(Tail(q)) = ToSet(q) \ {Head(q)}
<1>1. Len(q) \in Nat \ {0} /\ DOMAIN q = 1..Len(q) /\ \A i \in 1..Len(q) : q[i] \in S
  OBVIOUS
<1>2. Last(q) = q[Len(q)] /\ Last(q) \in S /\ Last(q) \in ToSet(q)
  BY <1>1 DEF Last, ToSet
<1>3. /\ Front(q) \in Seq(S) /\ DOMAIN Front(q) = 1..(Len(q) - 1)
      /\ \A i \in 1..(Len(q) - 1) : Front(q)[i] = q[i]
  BY <1>1 DEF Front
<1>4. Injective(Front(q)) /\ ToSet(Front(q)) = ToSet(q) \ {Last(q)}
  <2>1. Injective(Front(q))
    BY <1>1, <1>3 DEF Injective
  <2>2. ASSUME NEW n \in Nat \ {0}
        PROVE  /\ \A i \in 1..n : i \in 1..(n - 1) \/ i = n
               /\ \A i \in 1..(n - 1) : i \in 1..n /\ i # n
               /\ n \in 1..n
    OBVIOUS
  <2>3. /\ \A i \in 1..Len(q) : i \in 1..(Len(q) - 1) \/ i = Len(q)
        /\ \A i \in 1..(Len(q) - 1) : i \in 1..Len(q) /\ i # Len(q)
        /\ Len(q) \in 1..Len(q)
    BY <1>1, <2>2, Zenon
  <2>4. ToSet(Front(q)) \subseteq ToSet(q) \ {Last(q)}
    <3>1. ASSUME NEW i \in 1..(Len(q) - 1)
          PROVE  Front(q)[i] \in ToSet(q) /\ Front(q)[i] # Last(q)
      <4>1. Front(q)[i] = q[i] /\ i \in DOMAIN q /\ Len(q) \in DOMAIN q /\ i # Len(q)
        BY <1>1, <1>3, <2>3, Zenon
      <4>2. q[i] # q[Len(q)]
        BY <4>1 DEF Injective
      <4>3. QED
        BY <1>2, <4>1, <4>2 DEF ToSet
    <3>2. QED
      BY <1>3, <3>1, Zenon DEF ToSet
  <2>5. ToSet(q) \ {Last(q)} \subseteq ToSet(Front(q))
    BY <1>1, <1>2, <1>3, <2>3, Zenon DEF ToSet
  <2>6. QED
    BY <2>1, <2>4, <2>5
<1>5. Head(q) = q[1] /\ Head(q) \in S /\ Head(q) \in ToSet(q)
  BY <1>1 DEF ToSet
<1>6. /\ Tail(q) \in Seq(S) /\ DOMAIN Tail(q) = 1..(Len(q) - 1)
      /\ \A i \in 1..(Len(q) - 1) : Tail(q)[i] = q[i + 1]
  BY <1>1
<1>7. Injective(Tail(q)) /\ ToSet(Tail(q)) = ToSet(q) \ {Head(q)}
  <2>1. Injective(Tail(q))
    BY <1>1, <1>6 DEF Injective
  <2>0. ASSUME NEW n \in Nat \ {0}
        PROVE  /\ \A i \in 1..n : i = 1 \/ (i - 1 \in 1..(n - 1) /\ (i - 1) + 1 = i)
               /\ \A i \in 1..(n - 1) : i + 1 \in 1..n /\ i + 1 # 1
               /\ 1 \in 1..n
    OBVIOUS
  <2>2. \A i \in 1..Len(q) : i = 1 \/ (i - 1 \in 1..(Len(q) - 1) /\ q[i] = Tail(q)[i - 1])
    <3>1. \A i \in 1..Len(q) : i = 1 \/ (i - 1 \in 1..(Len(q) - 1) /\ (i - 1) + 1 = i)
      BY <1>1, <2>0, Zenon
    <3>2. QED
      BY <1>6, <3>1, Zenon
  <2>3. (\A i \in 1..(Len(q) - 1) : i + 1 \in 1..Len(q) /\ i + 1 # 1) /\ 1 \in 1..Len(q)
    BY <1>1, <2>0, Zenon
  <2>4. ToSet(Tail(q)) \subseteq ToSet(q) \ {Head(q)}
    <3>1. ASSUME NEW i \in 1..(Len(q) - 1)
          PROVE  Tail(q)[i] \in ToSet(q) /\ Tail(q)[i] # Head(q)
      <4>1. Tail(q)[i] = q[i + 1] /\ i + 1 \in DOMAIN q /\ 1 \in DOMAIN q /\ i + 1 # 1
        BY <1>1, <1>6, <2>3, Zenon
      <4>2. q[i + 1] # q[1]
        BY <4>1 DEF Injective
      <4>3. QED
        BY <1>5, <4>1, <4>2 DEF ToSet
    <3>2. QED
      BY <1>6, <3>1, Zenon DEF ToSet
  <2>5. ToSet(q) \ {Head(q)} \subseteq ToSet(Tail(q))
    <3>1. ASSUME NEW i \in 1..Len(q), q[i] # Head(q)
          PROVE  q[i] \in ToSet(Tail(q))
      <4>1. i - 1 \in DOMAIN Tail(q) /\ q[i] = Tail(q)[i - 1]
        BY <1>5, <1>6, <2>2, <3>1, Zenon
      <4>2. QED
        BY <4>1 DEF ToSet
    <3>2. QED
      BY <1>1, <3>1, Zenon DEF ToSet
  <2>6. QED
    BY <2>1, <2>4, <2>5
<1>8. QED
  BY <1>2, <1>3, <1>4, <1>5, <1>6, <1>7

LEMMA CountKeepsInv ==
    ASSUME IInv, Count
    PROVE  IInv'
<1> DEFINE i == Last(queue)
           new == NewTerms(i)
<1>1. HeapOK /\ LoopsOK /\ CountOK /\ phase = "count" /\ queue # <<>>
  BY DEF IInv, Count
<1>2. UNCHANGED <<heap, phase, nth, partial>>
  BY DEF Count, client
<1>3. /\ queue' = Front(queue) \o new /\ seen' = seen \cup ToSet(new)
      /\ D' = [j \in DOMAIN D \cup ToSet(Args(i)) |->
                 Cardinality({k \in DOMAIN Args(i) : Args(i)[k] = j})
                 + IF j \in DOMAIN D THEN D[j] ELSE 0]
  BY DEF Count
<1>4. /\ IsExpression(Root) /\ seen \subseteq {j \in 1..(Root - 1) : IsExpression(j)}
      /\ queue \in Seq(Found) /\ Injective(queue) /\ nth = 1 /\ partial = <<>>
  BY <1>1 DEF LoopsOK, CountOK
<1>5. Root \in Nat /\ Root >= 1 /\ Places = 1..Root /\ Root \in Places /\ Found \in SUBSET Places
  <2>1. Root \in Nat /\ Root >= 1 /\ seen \subseteq 1..(Root - 1)
    BY <1>1, <1>4, HeapFacts
  <2>2. 1..(Root - 1) \subseteq 1..Root /\ Root \in 1..Root
    BY <2>1
  <2>3. QED
    BY <2>1, <2>2 DEF Places, Found
<1>6. /\ i \in Found /\ i \in Places /\ i \in ToSet(queue) /\ Front(queue) \in Seq(Found)
      /\ Injective(Front(queue)) /\ ToSet(Front(queue)) = ToSet(queue) \ {i}
      /\ ToSet(queue) \subseteq Found
  <2>1. ToSet(queue) \subseteq Found
    BY <1>4 DEF ToSet
  <2>2. QED
    BY <1>1, <1>4, <1>5, <2>1, TakenOff
<1>7. /\ new \in Seq(ToSet(new)) /\ Injective(new)
      /\ ToSet(new) = {j \in Places : /\ \E k \in DOMAIN Args(i) : Args(i)[k] = j
                                      /\ IsExpression(j) /\ j \notin seen}
  BY <1>1, <1>6, NewTermsFacts
<1>8. \A k \in DOMAIN Args(i) : Args(i)[k] \in Places /\ Args(i)[k] # Root /\ Args(i)[k] < i
  BY <1>1, <1>6, HeapFacts
<1> HIDE DEF i, new
<1>9. ToSet(new) \cap Found = {}
  BY <1>7, <1>8 DEF Found
<1>10. /\ queue' \in Seq(Found \cup ToSet(new)) /\ Injective(queue')
       /\ ToSet(queue') = (ToSet(queue) \ {i}) \cup ToSet(new)
  <2>1. Front(queue) \in Seq(Found \cup ToSet(new)) /\ new \in Seq(Found \cup ToSet(new))
    BY <1>6, <1>7
  <2>2. ToSet(Front(queue)) \cap ToSet(new) = {}
    BY <1>6, <1>9
  <2>3. QED
    BY <1>3, <1>6, <1>7, <2>1, <2>2, Joined
<1>11. Root' = Root /\ Places' = Places /\ HeapOK'
       /\ \A j : Args(j)' = Args(j) /\ (IsExpression(j)' <=> IsExpression(j))
  BY <1>1, <1>2, SameHeap
<1>12. Found' = Found \cup ToSet(new)
  BY <1>3, <1>11 DEF Found
<1>13. Expanded' = Expanded \cup {i} /\ i \notin Expanded /\ Expanded \in SUBSET Places
  BY <1>5, <1>6, <1>9, <1>10, <1>12 DEF Expanded
<1>14. ASSUME NEW j
       PROVE  /\ Uses(Expanded, j)' = Uses(Expanded \cup {i}, j)
              /\ Cardinality(Uses(Expanded \cup {i}, j))
                 = Cardinality({k \in DOMAIN Args(i) : Args(i)[k] = j})
                   + Cardinality(Uses(Expanded, j))
              /\ Uses(Expanded \cup {i}, j) # {} <=>
                   (Uses(Expanded, j) # {} \/ \E k \in DOMAIN Args(i) : Args(i)[k] = j)
  <2>1. Uses(Expanded, j)' = Uses(Expanded \cup {i}, j)
    BY <1>11, <1>13 DEF Uses
  <2>2. Uses(Expanded \cup {i}, j) # {} <=>
           (Uses(Expanded, j) # {} \/ \E k \in DOMAIN Args(i) : Args(i)[k] = j)
    <3>1. DOMAIN Args(i) \subseteq Places
      BY <1>1, <1>6, HeapFacts
    <3>2. ASSUME NEW k \in DOMAIN Args(i), Args(i)[k] = j
          PROVE  <<i, k>> \in Uses(Expanded \cup {i}, j)
      BY <3>1, <3>2 DEF Uses
    <3>3. Uses(Expanded \cup {i}, j) # {} =>
             (Uses(Expanded, j) # {} \/ \E k \in DOMAIN Args(i) : Args(i)[k] = j)
      BY DEF Uses
    <3>4. Uses(Expanded, j) \subseteq Uses(Expanded \cup {i}, j)
      BY DEF Uses
    <3>5. QED
      BY <3>2, <3>3, <3>4
  <2>3. QED
    BY <1>1, <1>6, <1>13, <2>1, <2>2, UsesAdd
<1>15. ToSet(Args(i)) = {j \in Places : \E k \in DOMAIN Args(i) : Args(i)[k] = j}
  BY <1>8 DEF ToSet
<1>16. LoopsOK'
  <2>1. seen' \subseteq {j \in 1..(Root - 1) : IsExpression(j)}
    <3>1. \A j \in Places : j # Root => j \in 1..(Root - 1)
      BY <1>5
    <3>2. ToSet(new) \subseteq {j \in 1..(Root - 1) : IsExpression(j)}
      BY <1>7, <1>8, <3>1
    <3>3. QED
      BY <1>3, <1>4, <3>2
  <2>2. IsExpression(Root)'
    BY <1>4, <1>11 DEF IsExpression
  <2>3. Injective(queue)'
    BY <1>10 DEF Injective
  <2>4. QED
    BY <1>10, <1>11, <1>12, <2>1, <2>2, <2>3 DEF LoopsOK
<1>17. CountOK'
  <2>1. DOMAIN D = {Root} \cup {j \in Places : Uses(Expanded, j) # {}}
        /\ (\A j \in DOMAIN D : D[j] = Cardinality(Uses(Expanded, j)))
        /\ (\A j \in DOMAIN D : IsExpression(j) => j \in Found) /\ seen \subseteq DOMAIN D
    BY <1>1 DEF CountOK
  <2>2. DOMAIN D' = DOMAIN D \cup ToSet(Args(i))
    BY <1>3
  <2>3. DOMAIN D' = {Root} \cup {j \in Places : Uses(Expanded \cup {i}, j) # {}}
    BY <1>14, <1>15, <2>1, <2>2
  <2>4. ASSUME NEW j \in DOMAIN D'
        PROVE  D'[j] = Cardinality(Uses(Expanded \cup {i}, j))
    <3>1. CASE j \in DOMAIN D
      BY <1>3, <1>14, <2>1, <2>2, <3>1
    <3>2. CASE j \notin DOMAIN D
      <4>1. Uses(Expanded, j) = {}
        BY <1>15, <2>1, <2>2, <3>2
      <4>2. Cardinality(Uses(Expanded, j)) = 0
        BY <4>1, FS_EmptySet
      <4>3. QED
        BY <1>3, <1>14, <2>2, <3>2, <4>2
    <3>3. QED
      BY <3>1, <3>2
  <2>5. \A j \in DOMAIN D' : IsExpression(j) => j \in Found \cup ToSet(new)
    BY <1>7, <1>15, <2>1, <2>2 DEF Found
  <2>6. seen' \subseteq DOMAIN D'
    BY <1>3, <1>7, <1>15, <2>1, <2>2
  <2>7. \A j : Uses(Expanded, j)' = Uses(Expanded \cup {i}, j)
    BY <1>14
  <2>8. QED
    BY <1>2, <1>4, <1>11, <1>12, <2>3, <2>4, <2>5, <2>6, <2>7 DEF CountOK
<1>18. QED
  BY <1>1, <1>2, <1>11, <1>16, <1>17 DEF IInv, Before, SweepOK, DoneOK

LEMMA CountedKeepsInv ==
    ASSUME IInv, Counted
    PROVE  IInv'
<1>1. HeapOK /\ LoopsOK /\ CountOK /\ phase = "count" /\ queue = <<>>
  BY DEF IInv, Counted
<1>2. UNCHANGED <<heap, D, seen, nth>> /\ phase' = "sweep" /\ queue' = <<Root>>
  BY DEF Counted, client
<1>3. /\ IsExpression(Root) /\ seen \subseteq {j \in 1..(Root - 1) : IsExpression(j)} /\ nth = 1
      /\ DOMAIN D = {Root} \cup {j \in Places : Uses(Expanded, j) # {}}
      /\ \A j \in DOMAIN D : D[j] = Cardinality(Uses(Expanded, j))
      /\ \A j \in DOMAIN D : IsExpression(j) => j \in Found
      /\ seen \subseteq DOMAIN D
  BY <1>1 DEF LoopsOK, CountOK
<1>4. Root \in Nat /\ Root >= 1 /\ Root \in Places /\ Found \in SUBSET Places
  <2>1. Root \in Nat /\ Root >= 1 /\ seen \subseteq 1..(Root - 1)
    BY <1>1, <1>3, HeapFacts
  <2>2. 1..(Root - 1) \subseteq 1..Root /\ Root \in 1..Root
    BY <2>1
  <2>3. QED
    BY <2>1, <2>2 DEF Places, Found
<1>5. Expanded = Found
  BY <1>1 DEF Expanded, ToSet
<1>6. /\ Root' = Root /\ Places' = Places /\ HeapOK' /\ Found' = Found
      /\ \A j : Args(j)' = Args(j) /\ (IsExpression(j)' <=> IsExpression(j))
      /\ \A j : Uses(Found, j)' = Uses(Found, j)
  <2>1. Root' = Root /\ Places' = Places /\ HeapOK'
        /\ \A j : Args(j)' = Args(j) /\ (IsExpression(j)' <=> IsExpression(j))
    BY <1>1, <1>2, SameHeap
  <2>2. Found' = Found
    BY <1>2, <2>1 DEF Found
  <2>3. QED
    BY <2>1, <2>2 DEF Uses
<1>7. ToSet(queue') = {Root} /\ Injective(queue') /\ queue' \in Seq(Found) /\ Head(queue') = Root
      /\ queue' # <<>>
  BY <1>2 DEF ToSet, Injective, Found
<1>8. LoopsOK'
  BY <1>2, <1>3, <1>6, <1>7 DEF LoopsOK, Injective
(* The root is used by no term, every other expression by one or more.     *)
<1>9. D[Root] = 0
  <2>1. Uses(Found, Root) = {}
    BY <1>1, <1>4, HeapFacts DEF Uses
  <2>2. QED
    BY <1>3, <1>5, <2>1, FS_EmptySet
<1>10. \A j \in Found : D[j] # 0 \/ j = Root
  <2> SUFFICES ASSUME NEW j \in seen PROVE D[j] # 0
    BY DEF Found
  <2>1. j # Root /\ j \in DOMAIN D
    BY <1>3, <1>4
  <2>2. Uses(Found, j) # {} /\ D[j] = Cardinality(Uses(Found, j))
    BY <1>3, <1>5, <2>1
  <2>3. QED
    BY <1>1, <1>4, <2>2, UsesFinite, FS_EmptySet
<1>11. \A j : Pending(j)' = Uses(Found, j)
  <2> SUFFICES ASSUME NEW j PROVE Pending(j)' = Uses(Found, j)
    OBVIOUS
  <2>1. ASSUME NEW u \in Uses(Found, j)
        PROVE  D[u[1]] # 0 \/ u[1] \in ToSet(queue')
    BY <1>7, <1>10 DEF Uses
  <2>2. ASSUME NEW u \in Uses(Found, j)
        PROVE  ~(u[2] < nth)
    BY <1>3, <1>4 DEF Uses, Places
  <2>3. Pending(j)' = {u \in Uses(Found, j) :
                          /\ D[u[1]] # 0 \/ u[1] \in ToSet(queue')
                          /\ ~(queue' # <<>> /\ u[1] = Head(queue') /\ u[2] < nth)}
    BY <1>2, <1>6 DEF Pending
  <2>4. QED
    BY <2>1, <2>2, <2>3
<1>12. SweepOK'
  <2>1. DOMAIN D \subseteq Places /\ Found \subseteq DOMAIN D
    BY <1>3, <1>4 DEF Found
  <2>2. \A j \in Places : Uses(Found, j) # {} => j \in DOMAIN D
    BY <1>3, <1>5
  <2>3. \A j \in DOMAIN D : D[j] = Cardinality(Uses(Found, j))
    BY <1>3, <1>5
  <2>4. nth \in 1..Len(Args(Root))
    BY <1>1, <1>3, <1>4, HeapFacts
  <2>5. \A j \in DOMAIN D' : D'[j] = Cardinality(Pending(j)')
    BY <1>2, <1>11, <2>3
  <2>6. \A i \in ToSet(queue') : D'[i] = 0
    BY <1>2, <1>7, <1>9
  <2>7. queue' # <<>> /\ nth' \in 1..Len(Args(Head(queue))')
    BY <1>2, <1>6, <1>7, <2>4 DEF Args
  <2>8. QED
    BY <1>2, <1>3, <1>6, <2>1, <2>2, <2>5, <2>6, <2>7 DEF SweepOK
<1>13. QED
  BY <1>2, <1>6, <1>8, <1>12 DEF IInv, Before, CountOK, DoneOK

LEMMA FinishKeepsInv ==
    ASSUME IInv, Finish
    PROVE  IInv'
<1>1. HeapOK /\ LoopsOK /\ SweepOK /\ phase = "sweep" /\ queue = <<>>
  BY DEF IInv, Finish
<1>2. UNCHANGED <<heap, D>> /\ phase' = "done"
  BY DEF Finish, client
<1>3. HeapOK' /\ Root' = Root /\ Places' = Places /\ \A S : ClosedBelow(S)' <=> ClosedBelow(S)
  BY <1>1, <1>2, SameHeap
<1>4. /\ DOMAIN D \subseteq Places /\ Found \subseteq DOMAIN D
      /\ \A j \in DOMAIN D : IsExpression(j) => j \in Found
      /\ \A j \in Places : Uses(Found, j) # {} => j \in DOMAIN D
      /\ \A j \in DOMAIN D : D[j] = Cardinality(Pending(j))
  BY <1>1 DEF SweepOK
<1>5. Root \in DOMAIN D
  BY <1>4 DEF Found
<1>6. ClosedBelow(DOMAIN D)
  <2> SUFFICES ASSUME NEW i \in DOMAIN D, NEW k \in DOMAIN Args(i) PROVE Args(i)[k] \in DOMAIN D
    BY DEF ClosedBelow
  <2>1. i \in Found
    BY <1>4 DEF Args, IsExpression
  <2>2. Args(i)[k] \in Places /\ k \in Places
    BY <1>1, <1>4, HeapFacts
  <2>3. <<i, k>> \in Uses(Found, Args(i)[k])
    BY <2>1, <2>2 DEF Uses
  <2>4. QED
    BY <1>4, <2>2, <2>3
(* Of the places with uses left, the greatest would be used by a greater.  *)
<1>7. \A i \in DOMAIN D : D[i] = 0
  <2> DEFINE Left == {i \in DOMAIN D : D[i] # 0}
  <2> SUFFICES ASSUME Left # {} PROVE FALSE
    OBVIOUS
  <2>1. Root \in Nat /\ Left \in SUBSET (0..Root)
    BY <1>1, <1>4, HeapFacts DEF Places
  <2>2. PICK m \in Left : \A i \in Left : i <= m
    <3> HIDE DEF Left
    <3>1. QED
      BY <2>1, Greatest
  <2>7. D[m] = Cardinality(Pending(m)) /\ D[m] # 0
    BY <1>4
  <2>8. PICK u \in Pending(m) : TRUE
    BY <2>7, FS_EmptySet
  <2>9. u[1] \in Found /\ D[u[1]] # 0 /\ u[2] \in DOMAIN Args(u[1]) /\ Args(u[1])[u[2]] = m
    BY <1>1 DEF Pending, Uses, ToSet
  <2>10. u[1] \in Left /\ u[1] \in Places
    BY <1>4, <2>9
  <2>11. m < u[1]
    BY <1>1, <2>9, <2>10, HeapFacts
  <2>12. u[1] <= m /\ m \in 0..Root /\ u[1] \in 0..Root
    BY <2>1, <2>2, <2>10
  <2>13. QED
    BY <2>1, <2>11, <2>12
<1>8. DoneOK'
  BY <1>2, <1>3, <1>4, <1>5, <1>6, <1>7 DEF DoneOK, ClosedBelow
<1>9. QED
  BY <1>2, <1>3, <1>8 DEF IInv, LoopsOK, Before, CountOK, SweepOK

(* The use that is swept next is pending.                                  *)
LEMMA SweptArgument ==
    ASSUME IInv, SweepArgument
    PROVE  LET i == Head(queue)
               child == Args(i)[nth]
           IN  /\ i \in Places /\ DOMAIN Args(i) = 1..Len(Args(i)) /\ nth \in DOMAIN Args(i)
               /\ Len(Args(i)) \in Nat /\ child \in Places /\ child # i /\ nth \in Places
               /\ <<i, nth>> \in Pending(child) /\ child \in DOMAIN D
               /\ \A j : IsFiniteSet(Pending(j)) /\ Cardinality(Pending(j)) \in Nat
               /\ D[child] \in Nat /\ D[child] >= 1
<1> DEFINE i == Head(queue)
           child == Args(i)[nth]
<1>1. HeapOK /\ LoopsOK /\ SweepOK /\ phase = "sweep" /\ queue # <<>>
  BY DEF IInv, SweepArgument
<1>4. /\ IsExpression(Root) /\ seen \subseteq {j \in 1..(Root - 1) : IsExpression(j)}
      /\ queue \in Seq(Found) /\ Injective(queue)
  BY <1>1 DEF LoopsOK
<1>5. /\ DOMAIN D \subseteq Places /\ Found \subseteq DOMAIN D
      /\ \A j \in DOMAIN D : IsExpression(j) => j \in Found
      /\ \A j \in Places : Uses(Found, j) # {} => j \in DOMAIN D
      /\ \A j \in DOMAIN D : D[j] = Cardinality(Pending(j))
      /\ \A j \in ToSet(queue) : D[j] = 0
      /\ nth \in 1..Len(Args(i))
  BY <1>1 DEF SweepOK
<1>6. /\ Found \in SUBSET Places /\ Root \in Places /\ Places = 1..Root /\ Root \in Nat
      /\ \A j \in Found : IsExpression(j)
  <2>1. Root \in Nat /\ Root >= 1
    BY <1>1, HeapFacts
  <2>2. QED
    BY <1>4, <1>5, <2>1 DEF Places, Found
<1>7. /\ i \in Found /\ i \in ToSet(queue) /\ Tail(queue) \in Seq(Found)
      /\ Injective(Tail(queue)) /\ ToSet(Tail(queue)) = ToSet(queue) \ {i}
  BY <1>1, <1>4, TakenOff
<1>8. /\ i \in Places /\ DOMAIN Args(i) = 1..Len(Args(i)) /\ nth \in DOMAIN Args(i)
      /\ Len(Args(i)) \in Nat /\ child \in Places /\ child # i /\ nth \in Places
  <2>1. i \in Places /\ DOMAIN Args(i) = 1..Len(Args(i)) /\ nth \in DOMAIN Args(i)
        /\ Len(Args(i)) \in Nat
    <3>1. i \in Places
      BY <1>6, <1>7
    <3> HIDE DEF i
    <3>2. QED
      BY <1>1, <1>5, <3>1, HeapFacts
  <2>2. Args(i)[nth] \in Places /\ Args(i)[nth] < i /\ nth \in Places
    BY <1>1, <2>1, HeapFacts
  <2>3. Args(i)[nth] # i
    BY <1>6, <2>1, <2>2
  <2>4. QED
    BY <2>1, <2>2, <2>3
<1> DEFINE use == <<i, nth>>
<1>9. use \in Pending(child) /\ child \in DOMAIN D
  <2>1. use \in Uses(Found, child)
    BY <1>7, <1>8 DEF Uses
  <2>2. ~(nth < nth)
    BY <1>8
  <2>3. QED
    BY <1>5, <1>7, <1>8, <2>1, <2>2 DEF Pending
<1>10. \A j : IsFiniteSet(Pending(j)) /\ Cardinality(Pending(j)) \in Nat
  BY <1>1, <1>6, UsesFinite DEF Pending
<1>11. D[child] \in Nat /\ D[child] >= 1
  <2>1. D[child] \in Nat /\ D[child] # 0
    BY <1>5, <1>9, <1>10, FS_EmptySet
  <2>2. QED
    BY <2>1
<1>12. QED
  BY <1>8, <1>9, <1>10, <1>11

(* What waits, or will be swept, after a step: the same as before, but for *)
(* a term whose last argument was swept.                                   *)
LEMMA QueueStep ==
    ASSUME IInv, SweepArgument
    PROVE  LET i == Head(queue)
               child == Args(i)[nth]
               atLast == nth = Len(Args(i))
           IN  /\ DOMAIN D' = DOMAIN D /\ D'[child] = D[child] - 1
               /\ \A j \in DOMAIN D : j # child => D'[j] = D[j]
               /\ nth' = IF atLast THEN 1 ELSE nth + 1
               /\ queue' \in Seq(Found) /\ Injective(queue') /\ \A j \in ToSet(queue') : D'[j] = 0
               /\ ~atLast => Head(queue') = i /\ queue' # <<>> /\ i \in ToSet(queue')
               /\ D'[i] = 0 /\ (atLast => i \notin ToSet(queue'))
               /\ \A a \in Found :
                    a # i \/ ~atLast =>
                        ((D'[a] # 0 \/ a \in ToSet(queue')) <=> (D[a] # 0 \/ a \in ToSet(queue)))
<1> DEFINE i == Head(queue)
           child == Args(i)[nth]
           atLast == nth = Len(Args(i))
           found == IF IsExpression(child) /\ LastUse(child) THEN <<child>> ELSE <<>>
           rest == IF atLast THEN Tail(queue) ELSE queue
<1>1. HeapOK /\ LoopsOK /\ SweepOK /\ phase = "sweep" /\ queue # <<>>
  BY DEF IInv, SweepArgument
<1>2. UNCHANGED <<heap, phase, seen>>
  BY DEF SweepArgument, client
<1>3. /\ D' = [D EXCEPT ![child] = @ - 1]
      /\ nth' = IF atLast THEN 1 ELSE nth + 1
      /\ queue' = rest \o found
  BY DEF SweepArgument
<1>4. /\ IsExpression(Root) /\ seen \subseteq {j \in 1..(Root - 1) : IsExpression(j)}
      /\ queue \in Seq(Found) /\ Injective(queue)
  BY <1>1 DEF LoopsOK
<1>5. /\ DOMAIN D \subseteq Places /\ Found \subseteq DOMAIN D
      /\ \A j \in DOMAIN D : IsExpression(j) => j \in Found
      /\ \A j \in Places : Uses(Found, j) # {} => j \in DOMAIN D
      /\ \A j \in DOMAIN D : D[j] = Cardinality(Pending(j))
      /\ \A j \in ToSet(queue) : D[j] = 0
      /\ nth \in 1..Len(Args(i))
  BY <1>1 DEF SweepOK
<1>6. /\ Found \in SUBSET Places /\ Root \in Places /\ Places = 1..Root /\ Root \in Nat
      /\ \A j \in Found : IsExpression(j)
  <2>1. Root \in Nat /\ Root >= 1
    BY <1>1, HeapFacts
  <2>2. QED
    BY <1>4, <1>5, <2>1 DEF Places, Found
<1>7. /\ i \in Found /\ i \in ToSet(queue) /\ Tail(queue) \in Seq(Found)
      /\ Injective(Tail(queue)) /\ ToSet(Tail(queue)) = ToSet(queue) \ {i}
  BY <1>1, <1>4, TakenOff
<1> DEFINE use == <<i, nth>>
<1>8. /\ i \in Places /\ DOMAIN Args(i) = 1..Len(Args(i)) /\ nth \in DOMAIN Args(i)
      /\ Len(Args(i)) \in Nat /\ child \in Places /\ child # i /\ nth \in Places
  BY SweptArgument
<1>9. use \in Pending(child) /\ child \in DOMAIN D
  BY SweptArgument
<1>10. \A j : IsFiniteSet(Pending(j)) /\ Cardinality(Pending(j)) \in Nat
  BY SweptArgument
<1>11. D[child] \in Nat /\ D[child] >= 1
  BY SweptArgument
<1>12. /\ DOMAIN D' = DOMAIN D /\ D'[child] = D[child] - 1
       /\ \A j \in DOMAIN D : j # child => D'[j] = D[j]
  BY <1>3, <1>9
<1>13. child \notin ToSet(queue)
  BY <1>5, <1>11
(* The queue.                                                              *)
<1>14. /\ rest \in Seq(Found) /\ Injective(rest) /\ ToSet(rest) \subseteq ToSet(queue)
       /\ ToSet(rest) = IF atLast THEN ToSet(queue) \ {i} ELSE ToSet(queue)
  BY <1>4, <1>7
<1>15. /\ found \in Seq(Found) /\ Injective(found)
       /\ ToSet(found) = IF IsExpression(child) /\ D[child] = 1 THEN {child} ELSE {}
  <2>1. CASE IsExpression(child) /\ D[child] = 1
    <3>1. found = <<child>> /\ child \in Found
      BY <1>5, <1>9, <2>1 DEF LastUse
    <3> HIDE DEF child
    <3>2. <<child>> \in Seq(Found) /\ Injective(<<child>>) /\ ToSet(<<child>>) = {child}
      BY <3>1 DEF ToSet, Injective
    <3>3. QED
      BY <2>1, <3>1, <3>2
  <2>2. CASE ~(IsExpression(child) /\ D[child] = 1)
    <3>1. found = <<>>
      BY <2>2 DEF LastUse
    <3>2. <<>> \in Seq(Found) /\ Injective(<<>>) /\ ToSet(<<>>) = {}
      BY DEF ToSet, Injective
    <3>3. QED
      BY <2>2, <3>1, <3>2
  <2>3. QED
    BY <2>1, <2>2
<1> HIDE DEF child, found, rest
<1>16. queue' \in Seq(Found) /\ Injective(queue') /\ ToSet(queue') = ToSet(rest) \cup ToSet(found)
  BY <1>3, <1>13, <1>14, <1>15, Joined
<1>17. ~atLast => Head(queue') = i /\ queue' # <<>>
  <2> SUFFICES ASSUME ~atLast PROVE Head(queue') = i /\ queue' # <<>>
    OBVIOUS
  <2>1. rest = queue
    BY DEF rest
  <2>2. queue \in Seq(Found) /\ found \in Seq(Found) /\ queue # <<>> /\ queue' = queue \o found
    BY <1>1, <1>3, <1>4, <1>15, <2>1
  <2> HIDE DEF atLast
  <2>3. QED
    BY <2>2
(* Who waits or will be swept: the same, but for i after its last argument.*)
<1>18. ASSUME NEW a \in Found, a # i \/ ~atLast
       PROVE  (D'[a] # 0 \/ a \in ToSet(queue')) <=> (D[a] # 0 \/ a \in ToSet(queue))
  <2>1. a \in ToSet(rest) <=> a \in ToSet(queue)
    BY <1>14, <1>18
  <2>2. CASE a = child
    <3>1. D[child] = 1 => child \in ToSet(found)
      BY <1>6, <1>15, <1>18, <2>2
    <3>2. D[child] # 1 => D'[child] # 0
      BY <1>11, <1>12
    <3>3. QED
      BY <1>11, <1>16, <2>2, <3>1, <3>2
  <2>3. CASE a # child
    BY <1>5, <1>12, <1>15, <1>16, <1>18, <2>1, <2>3
  <2>4. QED
    BY <2>2, <2>3
<1>19. D'[i] = 0 /\ (atLast => i \notin ToSet(queue'))
  BY <1>5, <1>7, <1>8, <1>12, <1>14, <1>15, <1>16
<1>20. \A j \in ToSet(queue') : D'[j] = 0
  <2> SUFFICES ASSUME NEW j \in ToSet(queue') PROVE D'[j] = 0
    OBVIOUS
  <2>1. CASE j \in ToSet(rest)
    <3>1. ToSet(queue) \subseteq Found
      BY <1>4 DEF ToSet
    <3>2. j \in ToSet(queue) /\ j \in Found /\ j # child
      BY <1>13, <1>14, <2>1, <3>1
    <3>3. QED
      BY <1>5, <1>12, <3>2
  <2>2. CASE j \in ToSet(found)
    BY <1>11, <1>12, <1>15, <2>2
  <2>3. QED
    BY <1>16, <2>1, <2>2
<1> HIDE DEF i
<1>21. ~atLast => i \in ToSet(queue')
  BY <1>7, <1>14, <1>16
<1>22. QED
  BY <1>3, <1>12, <1>16, <1>17, <1>18, <1>19, <1>20, <1>21 DEF i, child

(* The use of a term that is swept is the only one that leaves Pending.    *)
LEMMA SweepArgumentKeepsInv ==
    ASSUME IInv, SweepArgument
    PROVE  IInv'
<1> DEFINE i == Head(queue)
           child == Args(i)[nth]
           atLast == nth = Len(Args(i))
<1>1. HeapOK /\ LoopsOK /\ SweepOK /\ phase = "sweep" /\ queue # <<>>
  BY DEF IInv, SweepArgument
<1>2. UNCHANGED <<heap, phase, seen>>
  BY DEF SweepArgument, client
<1>3. /\ DOMAIN D' = DOMAIN D /\ D'[child] = D[child] - 1
      /\ \A j \in DOMAIN D : j # child => D'[j] = D[j]
      /\ nth' = IF atLast THEN 1 ELSE nth + 1
      /\ queue' \in Seq(Found) /\ Injective(queue') /\ \A j \in ToSet(queue') : D'[j] = 0
      /\ ~atLast => Head(queue') = i /\ queue' # <<>>
      /\ D'[i] = 0 /\ (atLast => i \notin ToSet(queue'))
      /\ \A a \in Found :
            a # i \/ ~atLast =>
                ((D'[a] # 0 \/ a \in ToSet(queue')) <=> (D[a] # 0 \/ a \in ToSet(queue)))
  BY QueueStep
<1>4. /\ IsExpression(Root) /\ seen \subseteq {j \in 1..(Root - 1) : IsExpression(j)}
      /\ queue \in Seq(Found) /\ Injective(queue)
  BY <1>1 DEF LoopsOK
<1>5. /\ DOMAIN D \subseteq Places /\ Found \subseteq DOMAIN D
      /\ \A j \in DOMAIN D : IsExpression(j) => j \in Found
      /\ \A j \in Places : Uses(Found, j) # {} => j \in DOMAIN D
      /\ \A j \in DOMAIN D : D[j] = Cardinality(Pending(j))
      /\ \A j \in ToSet(queue) : D[j] = 0
      /\ nth \in 1..Len(Args(i))
  BY <1>1 DEF SweepOK
<1>6. /\ Found \in SUBSET Places /\ Root \in Places /\ Places = 1..Root /\ Root \in Nat
      /\ \A j \in Found : IsExpression(j)
  <2>1. Root \in Nat /\ Root >= 1
    BY <1>1, HeapFacts
  <2>2. QED
    BY <1>4, <1>5, <2>1 DEF Places, Found
<1> DEFINE use == <<i, nth>>
<1>7. /\ i \in Places /\ DOMAIN Args(i) = 1..Len(Args(i)) /\ nth \in DOMAIN Args(i)
      /\ Len(Args(i)) \in Nat /\ child \in Places /\ child # i /\ nth \in Places
  BY SweptArgument
<1>8. use \in Pending(child) /\ child \in DOMAIN D
  BY SweptArgument
<1>9. \A j : IsFiniteSet(Pending(j)) /\ Cardinality(Pending(j)) \in Nat
  BY SweptArgument
<1> HIDE DEF child
<1>10. Root' = Root /\ Places' = Places /\ HeapOK' /\ Found' = Found
       /\ (\A j : Args(j)' = Args(j) /\ (IsExpression(j)' <=> IsExpression(j)))
       /\ \A j : Uses(Found, j)' = Uses(Found, j)
  <2>1. Root' = Root /\ Places' = Places /\ HeapOK'
        /\ \A j : Args(j)' = Args(j) /\ (IsExpression(j)' <=> IsExpression(j))
    BY <1>1, <1>2, SameHeap
  <2>2. Found' = Found
    BY <1>2, <2>1 DEF Found
  <2>3. QED
    BY <2>1, <2>2 DEF Uses
<1>11. LoopsOK'
  <2>1. IsExpression(Root)' /\ Injective(queue)'
    BY <1>3, <1>4, <1>10 DEF IsExpression, Injective
  <2>2. QED
    BY <1>2, <1>3, <1>4, <1>10, <2>1 DEF LoopsOK
<1>12. ASSUME NEW j, NEW u \in Uses(Found, j)
       PROVE  (/\ D'[u[1]] # 0 \/ u[1] \in ToSet(queue')
               /\ ~(queue' # <<>> /\ u[1] = Head(queue') /\ u[2] < nth'))
              <=> u \in Pending(j) /\ u # use
  <2>1. /\ u = <<u[1], u[2]>> /\ u[1] \in Found /\ u[2] \in Nat /\ u[2] >= 1
        /\ u[2] \in DOMAIN Args(u[1])
    BY <1>6 DEF Uses
  <2>2. u \in Pending(j) <=> /\ D[u[1]] # 0 \/ u[1] \in ToSet(queue)
                             /\ ~(u[1] = i /\ u[2] < nth)
    BY <1>1 DEF Pending
  <2>3. u = use <=> u[1] = i /\ u[2] = nth
    BY <2>1
  <2>4. nth \in Nat
    BY <1>7
  <2> HIDE DEF use, i
  <2>5. CASE ~atLast
    <3>1. nth' = nth + 1 /\ queue' # <<>> /\ Head(queue') = i
      BY <1>3, <2>5
    <3>2. u[2] < nth' <=> u[2] < nth \/ u[2] = nth
      BY <2>1, <2>4, <3>1
    <3>3. (D'[u[1]] # 0 \/ u[1] \in ToSet(queue')) <=> (D[u[1]] # 0 \/ u[1] \in ToSet(queue))
      BY <1>3, <2>1, <2>5
    <3>4. QED
      BY <2>2, <2>3, <3>1, <3>2, <3>3
  <2>6. CASE atLast /\ u[1] = i
    <3>1. ~(D'[u[1]] # 0 \/ u[1] \in ToSet(queue'))
      BY <1>3, <2>6
    <3>2. u[2] < nth \/ u[2] = nth
      BY <1>7, <2>1, <2>4, <2>6
    <3>3. QED
      BY <2>2, <2>3, <2>6, <3>1, <3>2
  <2>7. CASE atLast /\ u[1] # i
    <3>1. nth' = 1 /\ ~(u[2] < nth')
      BY <1>3, <2>1, <2>7
    <3>2. (D'[u[1]] # 0 \/ u[1] \in ToSet(queue')) <=> (D[u[1]] # 0 \/ u[1] \in ToSet(queue))
      BY <1>3, <2>1, <2>7
    <3>3. QED
      BY <2>2, <2>3, <2>7, <3>1, <3>2
  <2>8. QED
    BY <2>5, <2>6, <2>7
<1>13. \A j : Pending(j)' = Pending(j) \ {use}
  <2> SUFFICES ASSUME NEW j PROVE Pending(j)' = Pending(j) \ {use}
    OBVIOUS
  <2>1. Pending(j)' = {u \in Uses(Found, j) :
                          /\ D'[u[1]] # 0 \/ u[1] \in ToSet(queue')
                          /\ ~(queue' # <<>> /\ u[1] = Head(queue') /\ u[2] < nth')}
    BY <1>10 DEF Pending
  <2>2. Pending(j) \subseteq Uses(Found, j)
    BY DEF Pending
  <2> HIDE DEF use
  <2>3. QED
    BY <1>12, <2>1, <2>2
<1>14. ASSUME NEW j \in DOMAIN D
       PROVE  D'[j] = Cardinality(Pending(j)')
  <2>1. CASE j = child
    <3>1. Cardinality(Pending(child) \ {use}) = Cardinality(Pending(child)) - 1
      BY <1>8, <1>9, FS_RemoveElement
    <3>2. Pending(j)' = Pending(child) \ {use}
      BY <1>13, <2>1
    <3>3. QED
      BY <1>3, <1>5, <1>8, <2>1, <3>1, <3>2
  <2>2. CASE j # child
    <3>1. use \notin Pending(j)
      <4>1. use \in Uses(Found, j) => Args(i)[nth] = j
        BY DEF Uses
      <4>2. QED
        BY <2>2, <4>1 DEF Pending, child
    <3>2. Pending(j)' = Pending(j)
      BY <1>13, <3>1
    <3>3. QED
      BY <1>3, <1>5, <2>2, <3>2
  <2>3. QED
    BY <2>1, <2>2
<1>15. IF queue' = <<>> THEN nth' = 1 ELSE nth' \in (1..Len(Args(Head(queue))))'
  <2>1. CASE ~atLast
    <3>1. nth' = nth + 1 /\ queue' # <<>> /\ Head(queue') = i
      BY <1>3, <2>1
    <3>2. Args(Head(queue))' = Args(i)
      BY <1>10, <3>1 DEF Args
    <3>3. nth + 1 \in 1..Len(Args(i))
      BY <1>5, <1>7, <2>1
    <3>4. QED
      BY <3>1, <3>2, <3>3
  <2>2. CASE atLast
    <3>1. nth' = 1
      BY <1>3, <2>2
    <3>2. ASSUME queue' # <<>> PROVE 1 \in (1..Len(Args(Head(queue))))'
      <4>1. PICK h : h = Head(queue')
        OBVIOUS
      <4>2. h \in Found
        BY <1>3, <3>2, <4>1
      <4>3. h \in Places /\ IsExpression(h)
        BY <1>6, <4>2
      <4>4. Len(Args(h)) >= 1 /\ Len(Args(h)) \in Nat
        BY <1>1, <4>3, HeapFacts
      <4>5. Args(Head(queue))' = Args(h)
        BY <1>10, <4>1 DEF Args
      <4>6. QED
        BY <4>4, <4>5
    <3>3. QED
      BY <3>1, <3>2
  <2>3. QED
    BY <2>1, <2>2
<1>16. SweepOK'
  <2>1. IF queue' = <<>> THEN nth' = 1 ELSE nth' \in (1..Len(Args(Head(queue))))'
    BY <1>15
  <2>2. /\ DOMAIN D' \subseteq Places' /\ Found' \subseteq DOMAIN D'
        /\ \A j \in DOMAIN D' : IsExpression(j)' => j \in Found'
        /\ \A j \in Places' : Uses(Found, j)' # {} => j \in DOMAIN D'
    BY <1>3, <1>5, <1>10
  <2>3. /\ \A j \in DOMAIN D' : D'[j] = Cardinality(Pending(j)')
        /\ \A j \in ToSet(queue') : D'[j] = 0
    BY <1>3, <1>14
  <2>4. QED
    BY <2>1, <2>2, <2>3 DEF SweepOK
<1>17. QED
  BY <1>1, <1>2, <1>10, <1>11, <1>16 DEF IInv, Before, CountOK, DoneOK

LEMMA StutterKeepsInv ==
    ASSUME IInv, UNCHANGED vars
    PROVE  IInv'
<1>1. heap' = heap /\ UNCHANGED <<phase, D, seen, queue, nth, partial>>
  BY DEF vars
<1>2. Root' = Root /\ Places' = Places /\ HeapOK' = HeapOK
      /\ (\A i : Args(i)' = Args(i) /\ (IsExpression(i)' <=> IsExpression(i)))
      /\ (\A S, j : Uses(S, j)' = Uses(S, j))
      /\ \A S : ClosedBelow(S)' <=> ClosedBelow(S)
  BY <1>1, SameHeap
<1>3. LoopsOK' /\ Before'
  BY <1>1, <1>2 DEF IInv, LoopsOK, Before, Found, IsExpression, Injective
<1>4. CountOK'
  BY <1>1, <1>2 DEF IInv, CountOK, Found, Expanded, Uses, IsExpression
<1>5. SweepOK'
  BY <1>1, <1>2 DEF IInv, SweepOK, Found, Pending, Uses, Args, IsExpression
<1>6. DoneOK'
  BY <1>1, <1>2 DEF IInv, DoneOK, IsExpression, ClosedBelow
<1>7. QED
  BY <1>1, <1>2, <1>3, <1>4, <1>5, <1>6 DEF IInv

LEMMA StepInv ==
    ASSUME IInv, [Next]_vars
    PROVE  IInv'
<1>1. CASE Build
  BY <1>1, BuildKeepsInv
<1>2. CASE Start
  BY <1>2, StartKeepsInv
<1>3. CASE Count
  BY <1>3, CountKeepsInv
<1>4. CASE Counted
  BY <1>4, CountedKeepsInv
<1>5. CASE SweepArgument
  BY <1>5, SweepArgumentKeepsInv
<1>6. CASE Finish
  BY <1>6, FinishKeepsInv
<1>7. CASE UNCHANGED vars
  BY <1>7, StutterKeepsInv
<1>8. QED
  BY <1>1, <1>2, <1>3, <1>4, <1>5, <1>6, <1>7 DEF Next

LEMMA Invariance == Spec => []IInv
<1>1. Init => IInv
  BY InitInv
<1>2. IInv /\ [Next]_vars => IInv'
  BY StepInv
<1>3. QED
  BY <1>1, <1>2, PTL DEF Spec

-----------------------------------------------------------------------------
(* The theorems.                                                           *)

(* At every step of symbolic_diff_all() the in-degree of a term is the     *)
(* number of its uses, by terms that were found, that are not yet swept:   *)
(* the counters of the two loops never disagree.                           *)
InDegreesCountUses ==
    phase = "sweep" => \A j \in DOMAIN D : D[j] = Cardinality(Pending(j))

THEOREM CountersAgree == Spec => []InDegreesCountUses
<1>1. IInv => InDegreesCountUses
  BY DEF IInv, SweepOK, InDegreesCountUses
<1>2. QED
  BY <1>1, Invariance, PTL

(* In-degrees stay at zero or above while the second loop takes terms from *)
(* its queue, and when it ends every use of every term of the expression   *)
(* has been swept, whatever terms the client shares.                       *)
THEOREM SweepIsComplete == Spec => []EveryUseSwept
<1>1. IInv => EveryUseSwept
  <2> SUFFICES ASSUME IInv PROVE EveryUseSwept
    OBVIOUS
  <2>1. ASSUME phase = "sweep", NEW i \in DOMAIN D PROVE D[i] >= 0
    <3>1. HeapOK /\ LoopsOK /\ D[i] = Cardinality(Pending(i))
      BY <2>1 DEF IInv, SweepOK
    <3>2. Found \in SUBSET Places
      <4>1. seen \subseteq 1..(Root - 1) /\ Root \in Nat /\ Root >= 1
        BY <2>1, <3>1, HeapFacts DEF LoopsOK
      <4>2. 1..(Root - 1) \subseteq 1..Root /\ Root \in 1..Root
        BY <4>1
      <4>3. QED
        BY <4>1, <4>2 DEF Found, Places
    <3>3. Pending(i) \in SUBSET Uses(Found, i)
      BY DEF Pending
    <3>4. Cardinality(Pending(i)) \in Nat
      BY <3>1, <3>2, <3>3, UsesFinite
    <3>5. QED
      BY <3>1, <3>4
  <2>2. ASSUME phase = "done", IsExpression(Root), NEW i \in Reach PROVE D[i] = 0
    <3>1. /\ DOMAIN D \in SUBSET Places /\ Root \in DOMAIN D /\ ClosedBelow(DOMAIN D)
          /\ \A j \in DOMAIN D : D[j] = 0
      BY <2>2 DEF IInv, DoneOK
    <3>2. i \in DOMAIN D
      BY <2>2, <3>1 DEF Reach
    <3>3. QED
      BY <3>1, <3>2
  <2>3. QED
    BY <2>1, <2>2 DEF EveryUseSwept
<1>2. QED
  BY <1>1, Invariance, PTL

(* The variable of a monomial is the object the client made first.         *)
LEMMA PlaceOfVariable ==
    ASSUME HeapOK, NEW i \in Places, heap[i].op = "mono"
    PROVE  PlaceOf(heap[i].a) \in Places /\ ~IsExpression(PlaceOf(heap[i].a))
<1>1. ~IsExpression(i)
  BY DEF IsExpression, IsLeaf
<1>2. /\ i \in 1..Len(Leaves) /\ heap[i] = Leaves[i] /\ Len(Leaves) \in Nat
      /\ Root >= Len(Leaves) /\ Root \in Nat /\ Places = 1..Root
  BY <1>1, HeapFacts DEF HeapOK, Places
<1>3. VarTerm(heap[i].a) \in ToSet(Leaves)
  BY <1>2, DiffBounds
<1>4. \E k \in 1..Len(Leaves) : Leaves[k] = VarTerm(heap[i].a)
  <2>1. DOMAIN Leaves = 1..Len(Leaves)
    BY DiffBounds
  <2>2. QED
    BY <1>3, <2>1 DEF ToSet
<1>5. PlaceOf(heap[i].a) \in 1..Len(Leaves)
  BY <1>4 DEF PlaceOf
<1>6. \A k \in 1..Len(Leaves) : k \in Places /\ ~(k > Len(Leaves))
  BY <1>2
<1>7. QED
  BY <1>5, <1>6 DEF HeapOK

(* A term passes on its partial only once no parent can still add to it:   *)
(* from then on the partial of an expression does not change.              *)
THEOREM PassedPartialsStay == Spec => PartialsAreFinal
<1> DEFINE Stays == \A i \in DOMAIN partial \cap DOMAIN partial' :
                        IsExpression(i) /\ D[i] = 0 => partial'[i] = partial[i]
<1>1. ASSUME IInv, [Next]_vars, <<partial, D>>' # <<partial, D>>
      PROVE  Stays
  <2>1. CASE Build \/ Start \/ Count \/ Counted
    <3>1. partial = <<>>
      BY <1>1, <2>1 DEF IInv, Before, CountOK, Build, Start, Count, Counted
    <3>2. DOMAIN partial = {}
      BY <3>1
    <3>3. QED
      BY <3>2
  <2>2. CASE SweepArgument
    <3> DEFINE place == Head(queue)
               child == Args(place)[nth]
               sum == Added(partial, child, FMul(partial[place], Partial(place, nth)))
    <3>1. HeapOK /\ LoopsOK /\ SweepOK /\ queue # <<>> /\ phase = "sweep"
      BY <1>1, <2>2 DEF IInv, SweepArgument
    <3>2. partial' = Passed(sum, child)
      BY <2>2 DEF SweepArgument
    <3>3. place \in Places /\ child \in Places /\ D[child] # 0
      BY <1>1, <2>2, SweptArgument
    <3> HIDE DEF child
    <3>4. \A i \in DOMAIN partial : i # child => sum[i] = partial[i] /\ i \in DOMAIN sum
      BY DEF Added, Put
    <3> HIDE DEF sum
    <3>5. \A i \in DOMAIN sum : IsExpression(i) => partial'[i] = sum[i]
      <4>1. CASE heap[child].op = "mono"
        <5>1. ~IsExpression(PlaceOf(heap[child].a))
          BY <3>1, <3>3, <4>1, PlaceOfVariable
        <5>2. QED
          BY <3>2, <4>1, <5>1 DEF Passed, Added, Put
      <4>2. CASE heap[child].op # "mono"
        BY <3>2, <4>2 DEF Passed
      <4>3. QED
        BY <4>1, <4>2
    <3>6. QED
      BY <3>3, <3>4, <3>5
  <2>3. CASE Finish \/ UNCHANGED vars
    BY <1>1, <2>3 DEF Finish, vars
  <2>4. QED
    BY <1>1, <2>1, <2>2, <2>3 DEF Next
<1>2. IInv /\ [Next]_vars => [Stays]_<<partial, D>>
  BY <1>1
<1>3. Spec => [][Stays]_<<partial, D>>
  BY <1>2, Invariance, PTL DEF Spec
<1>4. QED
  BY <1>3 DEF PartialsAreFinal

-----------------------------------------------------------------------------
(***************************************************************************)
(* The value of the answer.  A partial is a member of the field, where a   *)
(* sum is a sum of numbers modulo Prime.                                   *)
(***************************************************************************)
(* Numbers that stand for the same member of the field.                    *)
Cong(a, b) == \E k \in Int : a = b + k * Prime

LEMMA PrimeFacts == Prime \in Nat /\ Prime >= 2 /\ 0 \in Field /\ 1 \in Field /\ Field \subseteq Int
BY PrimeField DEF Field

LEMMA CongRules ==
    ASSUME NEW a \in Int, NEW b \in Int, NEW c \in Int, NEW d \in Int
    PROVE  /\ Cong(a, a)
           /\ Cong(a, b) => Cong(b, a)
           /\ Cong(a, b) /\ Cong(b, c) => Cong(a, c)
           /\ Cong(a, b) /\ Cong(c, d) => Cong(a + c, b + d)
           /\ Cong(a, b) /\ Cong(c, d) => Cong(a - c, b - d)
           /\ Cong(a, b) => Cong(a * c, b * c) /\ Cong(c * a, c * b)
<1> DEFINE P == Prime
<1>1. P \in Int
  BY PrimeFacts
<1>2. Cong(a, a)
  <2>1. a = a + 0 * P /\ 0 \in Int
    BY <1>1
  <2>2. QED
    BY <2>1 DEF Cong
<1>3. ASSUME NEW k \in Int, a = b + k * P PROVE Cong(b, a)
  <2>1. b = a + (-k) * P /\ -k \in Int
    BY <1>1, <1>3
  <2>2. QED
    BY <2>1 DEF Cong
<1>4. ASSUME NEW k \in Int, NEW l \in Int, a = b + k * P, b = c + l * P PROVE Cong(a, c)
  <2>1. a = c + (k + l) * P /\ k + l \in Int
    BY <1>1, <1>4
  <2>2. QED
    BY <2>1 DEF Cong
<1>5. ASSUME NEW k \in Int, NEW l \in Int, a = b + k * P, c = d + l * P
      PROVE  Cong(a + c, b + d) /\ Cong(a - c, b - d)
  <2>1. a + c = (b + d) + (k + l) * P /\ k + l \in Int
    BY <1>1, <1>5
  <2>2. a - c = (b - d) + (k - l) * P /\ k - l \in Int
    BY <1>1, <1>5
  <2>3. QED
    BY <2>1, <2>2 DEF Cong
<1>6. ASSUME NEW k \in Int, a = b + k * P PROVE Cong(a * c, b * c) /\ Cong(c * a, c * b)
  <2>1. a * c = b * c + (k * c) * P /\ k * c \in Int
    BY <1>1, <1>6
  <2>2. c * a = a * c /\ c * b = b * c
    OBVIOUS
  <2>3. QED
    BY <2>1, <2>2 DEF Cong
<1> HIDE DEF P
<1>7. QED
  BY <1>2, <1>3, <1>4, <1>5, <1>6 DEF Cong, P

LEMMA CongTimes ==
    ASSUME NEW a \in Int, NEW b \in Int, NEW c \in Int, Cong(a, b)
    PROVE  Cong(a * c, b * c) /\ Cong(c * a, c * b)
<1>1. 0 \in Int
  OBVIOUS
<1>2. QED
  BY <1>1, CongRules

LEMMA CongChain ==
    ASSUME NEW a \in Int, NEW b \in Int, NEW c \in Int, Cong(a, b), Cong(b, c) \/ Cong(c, b)
    PROVE  Cong(a, c)
<1>1. 0 \in Int
  OBVIOUS
<1>2. Cong(b, c)
  BY <1>1, CongRules
<1>3. QED
  BY <1>1, <1>2, CongRules

LEMMA CongSum ==
    ASSUME NEW a \in Int, NEW b \in Int, NEW c \in Int, NEW d \in Int, Cong(a, b), Cong(c, d)
    PROVE  Cong(a + c, b + d) /\ Cong(a - c, b - d)
BY CongRules

LEMMA CongField ==
    ASSUME NEW a \in Int
    PROVE  /\ a % Prime \in Field /\ Cong(a % Prime, a)
           /\ \A b \in Int : a % Prime = b % Prime => Cong(a, b)
           /\ a \in Field => \A b \in Field : Cong(a, b) => a = b
<1> DEFINE P == Prime
<1>1. P \in Nat /\ P >= 2
  BY PrimeFacts
<1> HIDE DEF P
<1>2. \A x \in Int : x % P \in 0..(P - 1) /\ x \div P \in Int /\ x = P * (x \div P) + (x % P)
  BY <1>1
<1>3. ASSUME NEW x \in Int PROVE \E k \in Int : x % P = x + k * P
  <2>1. x % P = x + (-(x \div P)) * P /\ -(x \div P) \in Int
    BY <1>1, <1>2
  <2>2. QED
    BY <2>1
<1>4. \A x \in Int : Cong(x % P, x)
  BY <1>3 DEF Cong, P
<1>5. a % P \in 0..(P - 1)
  BY <1>2
<1>6. ASSUME NEW b \in Int, a % P = b % P PROVE Cong(a, b)
  <2>1. a % P \in Int /\ Cong(a % P, a) /\ Cong(a % P, b)
    BY <1>2, <1>4, <1>6
  <2>2. QED
    BY <2>1, CongRules
<1>7. ASSUME a \in 0..(P - 1), NEW b \in 0..(P - 1), NEW k \in Int, a = b + k * P PROVE a = b
  <2>1. CASE k >= 1
    <3>1. k * P >= P
      BY <1>1, <2>1
    <3>2. QED
      BY <1>1, <1>7, <3>1
  <2>2. CASE k <= -1
    <3>1. k * P <= -P
      BY <1>1, <2>2
    <3>2. QED
      BY <1>1, <1>7, <3>1
  <2>3. CASE k = 0
    BY <1>1, <1>7, <2>3
  <2>4. QED
    BY <2>1, <2>2, <2>3
<1>8. QED
  BY <1>4, <1>5, <1>6, <1>7 DEF Cong, Field, P

(* The operations on members of the field are those on numbers.            *)
LEMMA FieldOps ==
    ASSUME NEW a \in Field, NEW b \in Field
    PROVE  /\ FAdd(a, b) \in Field /\ Cong(FAdd(a, b), a + b)
           /\ FMul(a, b) \in Field /\ Cong(FMul(a, b), a * b)
           /\ FNeg(a) \in Field /\ Cong(FNeg(a), -a)
           /\ a \in Int /\ b \in Int /\ a # Undef
<1>1. a \in Int /\ b \in Int /\ a # Undef /\ b # Undef /\ Prime \in Int
  <2>1. \A x \in 0..(Prime - 1) : x # -1 /\ x \in Int
    BY PrimeFacts
  <2>2. QED
    BY <2>1, PrimeFacts DEF Field, Undef
<1>2. a + b \in Int /\ a * b \in Int /\ Prime - a \in Int /\ -a \in Int
  BY <1>1
<1>3. FAdd(a, b) = (a + b) % Prime /\ FMul(a, b) = (a * b) % Prime /\ FNeg(a) = (Prime - a) % Prime
  BY <1>1 DEF FAdd, FMul, FNeg
<1>4. Cong(Prime - a, -a)
  <2>1. Prime - a = -a + 1 * Prime /\ 1 \in Int
    BY <1>1
  <2>2. QED
    BY <2>1 DEF Cong
<1>5. FNeg(a) \in Field /\ Cong(FNeg(a), Prime - a)
  BY <1>2, <1>3, CongField
<1>6. FNeg(a) \in Int
  BY <1>5, PrimeFacts
<1>7. Cong(FNeg(a), -a)
  BY <1>2, <1>4, <1>5, <1>6, CongRules
<1>8. FAdd(a, b) \in Field /\ Cong(FAdd(a, b), a + b)
  <2>1. (a + b) % Prime \in Field /\ Cong((a + b) % Prime, a + b)
    BY ONLY <1>2, CongField
  <2>2. QED
    BY <1>3, <2>1
<1>9. FMul(a, b) \in Field /\ Cong(FMul(a, b), a * b)
  <2>1. (a * b) % Prime \in Field /\ Cong((a * b) % Prime, a * b)
    BY ONLY <1>2, CongField
  <2>2. QED
    BY <1>3, <2>1
<1>10. QED
  BY <1>1, <1>5, <1>7, <1>8, <1>9

(* What is not zero can be divided by, and cancelled.                      *)
LEMMA FieldQuotients ==
    ASSUME NEW b \in Field, b # 0
    PROVE  /\ \A a \in Field : FDiv(a, b) \in Field /\ Cong(FDiv(a, b) * b, a)
           /\ \A x, y \in Int : Cong(x * b, y * b) => Cong(x, y)
           /\ \A c \in Field : c # 0 => FMul(b, c) # 0
<1>1. b \in Int /\ Prime \in Int /\ Prime >= 2
  BY FieldOps, PrimeFacts
<1>2. PICK i \in Field : (b * i) % Prime = 1
  BY PrimeField
<1>3. i \in Int /\ b * i \in Int
  BY <1>1, <1>2, PrimeFacts
<1>4. Cong(b * i, 1)
  <2>1. Cong(1, b * i)
    BY <1>2, <1>3, CongField
  <2>2. QED
    BY <1>3, <2>1, CongRules
<1>5. ASSUME NEW a \in Field PROVE FDiv(a, b) \in Field /\ Cong(FDiv(a, b) * b, a)
  <2> DEFINE c == FMul(a, i)
  <2>1. c \in Field /\ Cong(c, a * i) /\ a \in Int /\ a # Undef /\ b # Undef /\ c \in Int
    <3>1. c \in Field /\ Cong(c, a * i) /\ a \in Int /\ a # Undef /\ b # Undef
      BY <1>2, FieldOps
    <3>2. QED
      BY <3>1, PrimeFacts
  <2> HIDE DEF c
  <2>2. Cong(c * b, a)
    <3>1. a * i \in Int /\ c * b \in Int /\ (a * i) * b \in Int /\ a * (b * i) \in Int /\ a * 1 = a
          /\ (a * i) * b = a * (b * i)
      BY <1>1, <1>3, <2>1
    <3>2. Cong(c * b, (a * i) * b)
      BY ONLY <1>1, <1>3, <2>1, <3>1, CongTimes
    <3>3. Cong(a * (b * i), a * 1)
      BY ONLY <1>3, <1>4, <2>1, 1 \in Int, CongTimes
    <3>4. Cong((a * i) * b, a)
      BY <3>1, <3>3
    <3>5. QED
      BY <2>1, <3>1, <3>2, <3>4, CongRules
  <2>3. (c * b) % Prime = a
    <3>1. c * b \in Int
      BY <1>1, <2>1
    <3>2. (c * b) % Prime \in Field /\ Cong((c * b) % Prime, c * b)
      BY <3>1, CongField
    <3>3. (c * b) % Prime \in Int
      BY <3>2, PrimeFacts
    <3>4. Cong((c * b) % Prime, a)
      BY <2>1, <2>2, <3>1, <3>2, <3>3, CongRules
    <3>5. QED
      BY <3>2, <3>3, <3>4, CongField
  <2>4. FDiv(a, b) = CHOOSE d \in Field : (d * b) % Prime = a
    BY <2>1 DEF FDiv
  <2>5. FDiv(a, b) \in Field /\ (FDiv(a, b) * b) % Prime = a
    BY <2>1, <2>3, <2>4
  <2> DEFINE d == FDiv(a, b)
  <2>6. d * b \in Int /\ d \in Int
    <3>1. d \in Int
      BY <2>5, PrimeFacts
    <3> HIDE DEF d
    <3>2. QED
      BY <1>1, <3>1
  <2>7. Cong(a, d * b)
    BY <2>5, <2>6, CongField
  <2>8. QED
    BY <2>1, <2>5, <2>6, <2>7, CongRules
<1>6. ASSUME NEW x \in Int, NEW y \in Int, Cong(x * b, y * b) PROVE Cong(x, y)
  <2>1. /\ x * b \in Int /\ y * b \in Int /\ (x * b) * i = x * (b * i) /\ (y * b) * i = y * (b * i)
        /\ x * (b * i) \in Int /\ y * (b * i) \in Int /\ x * 1 = x /\ y * 1 = y
    BY <1>1, <1>3
  <2>2. Cong((x * b) * i, (y * b) * i)
    BY ONLY <1>3, <1>6, <2>1, CongTimes
  <2>3. Cong(x * (b * i), x * 1) /\ Cong(y * (b * i), y * 1)
    BY ONLY <1>3, <1>4, <1>6, 1 \in Int, CongTimes
  <2>4. Cong(x * (b * i), y * (b * i)) /\ Cong(x * (b * i), x) /\ Cong(y * (b * i), y)
    BY <2>1, <2>2, <2>3
  <2>5. Cong(x, x * (b * i))
    BY <2>1, <2>4, CongRules
  <2>6. Cong(x, y * (b * i))
    BY <2>1, <2>4, <2>5, CongRules
  <2>7. QED
    BY <2>1, <2>4, <2>6, CongRules
<1>7. ASSUME NEW c \in Field, c # 0 PROVE FMul(b, c) # 0
  <2> SUFFICES ASSUME FMul(b, c) = 0 PROVE FALSE
    OBVIOUS
  <2>1. Cong(0, b * c) /\ c \in Int
    BY FieldOps
  <2>2. b * c \in Int /\ b * c = c * b /\ 0 * b = 0 /\ 0 \in Int
    BY <1>1, <2>1
  <2>3. Cong(0 * b, c * b)
    BY <2>1, <2>2
  <2>4. Cong(0, c)
    BY <1>6, <2>1, <2>3
  <2>5. QED
    BY <1>7, <2>2, <2>4, PrimeFacts, CongField
<1>8. QED
  BY <1>5, <1>6, <1>7

-----------------------------------------------------------------------------
(* Recursion over the numbers up to n.                                     *)
StepsOf(s, n, base, G) ==
    s \in [0..n -> Field] /\ s[0] = base /\ \A k \in 1..n : s[k] = G[<<k, s[k - 1]>>]

LEMMA FieldRecursion ==
    ASSUME NEW n \in Nat, NEW base \in Field, NEW G \in [(1..n) \X Field -> Field]
    PROVE  \E s : StepsOf(s, n, base, G)
<1> DEFINE N == {m \in Nat : m <= n => \E s : StepsOf(s, m, base, G)}
<1>1. 0 \in N
  <2> DEFINE s == [k \in 0..0 |-> base]
  <2>1. s \in [0..0 -> Field] /\ s[0] = base /\ \A k \in 1..0 : FALSE
    OBVIOUS
  <2>2. QED
    BY <2>1 DEF StepsOf
<1>2. ASSUME NEW m \in N PROVE m + 1 \in N
  <2> SUFFICES ASSUME m + 1 <= n PROVE \E t : StepsOf(t, m + 1, base, G)
    OBVIOUS
  <2>1. m <= n /\ m + 1 \in 1..n /\ m \in 0..m /\ (m + 1) - 1 = m
    OBVIOUS
  <2>2. PICK s : StepsOf(s, m, base, G)
    BY <2>1
  <2> DEFINE t == [k \in 0..(m + 1) |-> IF k <= m THEN s[k] ELSE G[<<m + 1, s[m]>>]]
  <2>3. s \in [0..m -> Field] /\ s[0] = base /\ \A k \in 1..m : s[k] = G[<<k, s[k - 1]>>]
    BY <2>2 DEF StepsOf
  <2>4. G[<<m + 1, s[m]>>] \in Field
    BY <2>1, <2>3
  <2>5. ASSUME NEW k \in 0..(m + 1) PROVE (k <= m /\ k \in 0..m) \/ (k = m + 1 /\ ~(k <= m))
    OBVIOUS
  <2>6. t \in [0..(m + 1) -> Field]
    BY <2>3, <2>4, <2>5
  <2>7. ASSUME NEW k \in 1..(m + 1) PROVE t[k] = G[<<k, t[k - 1]>>]
    <3>1. k - 1 \in 0..(m + 1) /\ k - 1 <= m /\ k \in 0..(m + 1)
      OBVIOUS
    <3>2. t[k - 1] = s[k - 1]
      BY <3>1
    <3>3. CASE k <= m
      BY <2>3, <3>1, <3>2, <3>3
    <3>4. CASE ~(k <= m)
      <4>1. k = m + 1 /\ k - 1 = m
        BY <2>1, <3>4
      <4>2. t[k] = G[<<m + 1, s[m]>>]
        BY <3>1, <3>4
      <4>3. QED
        BY <3>2, <4>1, <4>2
    <3>5. QED
      BY <3>3, <3>4
  <2>8. t[0] = base
    BY <2>3
  <2> HIDE DEF t
  <2>9. QED
    BY <2>6, <2>7, <2>8 DEF StepsOf
<1>3. N = Nat
  <2> HIDE DEF N
  <2>1. N \in SUBSET Nat
    BY DEF N
  <2>2. QED
    BY <1>1, <1>2, <2>1, NumbersByInduction
<1>4. n \in N
  BY ONLY <1>3, n \in Nat
<1>5. n <= n
  OBVIOUS
<1>6. QED
  BY <1>4, <1>5

(* The sum of members of the field, from the left.                         *)
LEMMA TotalSteps ==
    ASSUME NEW n \in Nat, NEW f, \A k \in 1..n : f[k] \in Field
    PROVE  /\ Total(f, 0) = 0 /\ \A m \in 0..n : Total(f, m) \in Field
           /\ \A m \in 1..n : Total(f, m) = FAdd(Total(f, m - 1), f[m])
<1> DEFINE G == [p \in (1..n) \X Field |-> FAdd(p[2], f[p[1]])]
<1>1. 0 \in Field
  BY PrimeFacts
<1>2. G \in [(1..n) \X Field -> Field]
  <2>1. ASSUME NEW p \in (1..n) \X Field PROVE FAdd(p[2], f[p[1]]) \in Field
    BY FieldOps
  <2>2. QED
    BY <2>1
<1>3. PICK s : StepsOf(s, n, 0, G)
  BY <1>1, <1>2, FieldRecursion
<1>4. s \in [0..n -> Field] /\ s[0] = 0
  BY <1>3 DEF StepsOf
<1>5. ASSUME NEW k \in 1..n PROVE s[k] = FAdd(s[k - 1], f[k])
  <2>1. s[k] = G[<<k, s[k - 1]>>]
    BY <1>3 DEF StepsOf
  <2>2. k - 1 \in 0..n
    OBVIOUS
  <2>3. s[k - 1] \in Field
    BY <1>4, <2>2
  <2>4. QED
    BY <2>1, <2>3
<1> HIDE DEF G
<1>6. ASSUME NEW m \in 0..n PROVE Total(f, m) = s[m]
  <2> DEFINE IsUpto(g) == g = [k \in 0..m |-> IF k = 0 THEN 0 ELSE FAdd(g[k - 1], f[k])]
             c == CHOOSE g : IsUpto(g)
             r == [k \in 0..m |-> s[k]]
  <2>1. IsUpto(r)
    <3>1. ASSUME NEW k \in 0..m PROVE r[k] = IF k = 0 THEN 0 ELSE FAdd(r[k - 1], f[k])
      <4>1. CASE k = 0
        BY <1>4, <4>1
      <4>2. CASE k # 0
        <5>1. k \in 1..n /\ k - 1 \in 0..m
          BY <4>2
        <5>2. QED
          BY <1>5, <4>2, <5>1
      <4>3. QED
        BY <4>1, <4>2
    <3>2. r = [k \in 0..m |-> r[k]]
      OBVIOUS
    <3> HIDE DEF r
    <3>3. QED
      BY <3>1, <3>2
  <2>2. IsUpto(c)
    <3> HIDE DEF IsUpto, r
    <3>1. QED
      BY <2>1
  <2>3. Total(f, m) = c[m]
    BY DEF Total
  <2> HIDE DEF c
  <2>4. \A k \in 0..m : c[k] = IF k = 0 THEN 0 ELSE FAdd(c[k - 1], f[k])
    BY <2>2
  <2> DEFINE N == {k \in Nat : k <= m => c[k] = s[k]}
  <2>5. 0 \in N
    BY <1>4, <2>4
  <2>6. ASSUME NEW k \in N PROVE k + 1 \in N
    <3> SUFFICES ASSUME k + 1 <= m PROVE c[k + 1] = s[k + 1]
      OBVIOUS
    <3>1. k <= m /\ k + 1 \in 0..m /\ k + 1 \in 1..n /\ (k + 1) - 1 = k /\ k + 1 # 0
      OBVIOUS
    <3>2. c[k] = s[k]
      BY <3>1
    <3>3. c[k + 1] = FAdd(c[k], f[k + 1])
      BY <2>4, <3>1
    <3>4. s[k + 1] = FAdd(s[k], f[k + 1])
      BY <1>5, <3>1
    <3>5. QED
      BY <3>2, <3>3, <3>4
  <2>7. N = Nat
    <3> HIDE DEF N
    <3>1. N \in SUBSET Nat
      BY DEF N
    <3>2. QED
      BY <2>5, <2>6, <3>1, NumbersByInduction
  <2>8. m \in N /\ m <= m
    BY <2>7
  <2>9. QED
    BY <2>3, <2>8
<1>7. 0 \in 0..n /\ \A m \in 1..n : m \in 0..n /\ m - 1 \in 0..n
  OBVIOUS
<1>8. QED
  BY <1>4, <1>5, <1>6, <1>7

LEMMA FieldPower ==
    ASSUME NEW a \in Field, NEW b \in Field
    PROVE  FPow(a, b) \in Field
<1> DEFINE G == [p \in (1..b) \X Field |-> FMul(a, p[2])]
           IsPower(g) == g = [n \in 0..b |-> IF n = 0 THEN 1 ELSE FMul(a, g[n - 1])]
           c == CHOOSE g : IsPower(g)
<1>1. b \in Nat /\ 1 \in Field /\ a # Undef /\ b # Undef
  <2>1. b \in Nat
    BY PrimeFacts DEF Field
  <2>2. QED
    BY <2>1, PrimeFacts, FieldOps
<1>2. G \in [(1..b) \X Field -> Field]
  <2>1. ASSUME NEW p \in (1..b) \X Field PROVE FMul(a, p[2]) \in Field
    BY FieldOps
  <2>2. QED
    BY <2>1
<1>3. PICK s : StepsOf(s, b, 1, G)
  BY <1>1, <1>2, FieldRecursion
<1>4. s \in [0..b -> Field] /\ s[0] = 1
  BY <1>3 DEF StepsOf
<1>5. ASSUME NEW n \in 0..b PROVE s[n] = IF n = 0 THEN 1 ELSE FMul(a, s[n - 1])
  <2>1. CASE n = 0
    BY <1>4, <2>1
  <2>2. CASE n # 0
    <3>1. n \in 1..b /\ n - 1 \in 0..b
      BY <1>1, <2>2
    <3>2. s[n] = G[<<n, s[n - 1]>>] /\ s[n - 1] \in Field
      BY <1>3, <1>4, <3>1 DEF StepsOf
    <3>3. QED
      BY <2>2, <3>1, <3>2
  <2>3. QED
    BY <2>1, <2>2
<1>6. IsPower(s)
  <2>1. s = [n \in 0..b |-> s[n]]
    BY <1>4
  <2>2. QED
    BY <1>5, <2>1
<1>7. IsPower(c)
  <2> HIDE DEF IsPower
  <2>1. QED
    BY <1>6
<1>8. FPow(a, b) = c[b]
  BY <1>1 DEF FPow
<1> HIDE DEF c, G
<1>9. \A n \in 0..b : c[n] = IF n = 0 THEN 1 ELSE FMul(a, c[n - 1])
  BY <1>7
<1> DEFINE N == {n \in Nat : n <= b => c[n] \in Field}
<1>10. 0 \in N
  BY <1>1, <1>9
<1>11. ASSUME NEW n \in N PROVE n + 1 \in N
  <2> SUFFICES ASSUME n + 1 <= b PROVE c[n + 1] \in Field
    OBVIOUS
  <2>1. n <= b /\ n + 1 \in 0..b /\ (n + 1) - 1 = n /\ n + 1 # 0
    BY <1>1
  <2>2. c[n] \in Field /\ c[n + 1] = FMul(a, c[n])
    BY <1>9, <2>1
  <2>3. QED
    BY <2>2, FieldOps
<1>12. N = Nat
  <2> HIDE DEF N
  <2>1. N \in SUBSET Nat
    BY DEF N
  <2>2. QED
    BY <1>10, <1>11, <2>1, NumbersByInduction
<1>13. b \in N /\ b <= b
  BY <1>1, <1>12
<1>14. QED
  BY <1>8, <1>13

-----------------------------------------------------------------------------
(* The rules of calculus, in the field.                                    *)
LEMMA SmallRules ==
    ASSUME NEW a \in Field, NEW b \in Field
    PROVE  /\ FAdd(0, a) = a /\ FMul(1, a) = a /\ FMul(a, b) = FMul(b, a)
           /\ FMul(FNeg(1), a) = FNeg(a)
<1>1. 0 \in Field /\ 1 \in Field /\ a \in Int /\ b \in Int /\ 0 \in Int /\ 1 \in Int
  BY PrimeFacts
<1>2. FAdd(0, a) = a
  <2>1. FAdd(0, a) \in Field /\ Cong(FAdd(0, a), 0 + a)
    BY <1>1, FieldOps
  <2>2. FAdd(0, a) \in Int
    BY ONLY <2>1, PrimeFacts
  <2>3. 0 + a = a
    BY <1>1
  <2>4. Cong(FAdd(0, a), a)
    BY <2>1, <2>3
  <2>5. QED
    BY ONLY <2>1, <2>2, <2>4, a \in Field, CongField
<1>3. FMul(1, a) = a
  <2>1. FMul(1, a) \in Field /\ Cong(FMul(1, a), 1 * a)
    BY <1>1, FieldOps
  <2>2. FMul(1, a) \in Int
    BY ONLY <2>1, PrimeFacts
  <2>3. 1 * a = a
    BY <1>1
  <2>4. Cong(FMul(1, a), a)
    BY <2>1, <2>3
  <2>5. QED
    BY ONLY <2>1, <2>2, <2>4, a \in Field, CongField
<1>4. FMul(a, b) = FMul(b, a)
  <2>1. a * b = b * a /\ {a, b} = {b, a}
    BY <1>1
  <2>2. QED
    BY <2>1 DEF FMul
<1>5. FMul(FNeg(1), a) = FNeg(a)
  <2> DEFINE m == FNeg(1)
  <2>1. m \in Field /\ Cong(m, -1) /\ FNeg(a) \in Field /\ Cong(FNeg(a), -a)
    BY <1>1, FieldOps
  <2>2. m \in Int /\ -1 \in Int /\ (-1) * a = -a /\ -a \in Int /\ FNeg(a) \in Int
    <3>1. m \in Int /\ FNeg(a) \in Int
      BY ONLY <2>1, PrimeFacts
    <3>2. -1 \in Int /\ (-1) * a = -a /\ -a \in Int
      BY <1>1
    <3>3. QED
      BY <3>1, <3>2
  <2> HIDE DEF m
  <2>3. FMul(m, a) \in Field /\ Cong(FMul(m, a), m * a)
    BY <2>1, FieldOps
  <2>4. FMul(m, a) \in Int /\ m * a \in Int
    <3>1. FMul(m, a) \in Int
      BY ONLY <2>3, PrimeFacts
    <3>2. m * a \in Int
      BY ONLY <1>1, <2>2
    <3>3. QED
      BY <3>1, <3>2
  <2>5. Cong(m * a, -a)
    <3>1. Cong(m * a, (-1) * a)
      BY ONLY <1>1, <2>1, <2>2, CongTimes
    <3>2. QED
      BY <2>2, <3>1
  <2>6. Cong(FMul(m, a), -a)
    BY ONLY <2>2, <2>3, <2>4, <2>5, CongChain
  <2>7. Cong(FMul(m, a), FNeg(a))
    BY ONLY <2>1, <2>2, <2>4, <2>6, CongChain
  <2>8. FMul(m, a) = FNeg(a)
    BY <2>1, <2>3, <2>4, <2>7, CongField
  <2>9. QED
    BY <2>8 DEF m
<1>6. QED
  BY <1>2, <1>3, <1>4, <1>5

LEMMA QuotientRule ==
    ASSUME NEW u \in Field, NEW v \in Field, NEW d \in Field, NEW e \in Field, v # 0
    PROVE  /\ FDiv(FAdd(FMul(d, v), FNeg(FMul(u, e))), FMul(v, v))
              = FAdd(FMul(FDiv(1, v), d), FMul(FDiv(FNeg(u), FMul(v, v)), e))
           /\ FDiv(1, v) \in Field /\ FDiv(FNeg(u), FMul(v, v)) \in Field
<1> DEFINE s == FMul(v, v)
           n == FAdd(FMul(d, v), FNeg(FMul(u, e)))
           p == FDiv(1, v)
           r == FDiv(FNeg(u), s)
           q == FDiv(n, s)
           t == FAdd(FMul(p, d), FMul(r, e))
<1>1. u \in Int /\ v \in Int /\ d \in Int /\ e \in Int /\ 1 \in Field /\ 1 \in Int
  BY PrimeFacts
<1>2. s \in Field /\ s # 0 /\ Cong(s, v * v)
  BY FieldOps, FieldQuotients
<1>3. p \in Field /\ Cong(p * v, 1)
  BY <1>1, FieldQuotients
<1>4. FNeg(u) \in Field /\ Cong(FNeg(u), -u)
  BY FieldOps
<1>5. n \in Field /\ Cong(n, d * v - u * e)
  <2> DEFINE a == FMul(d, v)
             b == FMul(u, e)
             c == FNeg(b)
  <2>1. a \in Field /\ Cong(a, d * v) /\ b \in Field /\ Cong(b, u * e)
    BY FieldOps
  <2> HIDE DEF a, b
  <2>2. c \in Field /\ Cong(c, -b)
    BY <2>1, FieldOps
  <2> HIDE DEF c
  <2>3. FAdd(a, c) \in Field /\ Cong(FAdd(a, c), a + c)
    BY <2>1, <2>2, FieldOps
  <2>4. a \in Int /\ b \in Int /\ c \in Int /\ FAdd(a, c) \in Int
    BY <2>1, <2>2, <2>3, PrimeFacts
  <2>5. a + c \in Int /\ -b \in Int /\ a + (-b) = a - b /\ a - b \in Int /\ d * v \in Int
        /\ u * e \in Int /\ d * v - u * e \in Int
    BY <1>1, <2>4
  <2>6. Cong(a - b, d * v - u * e)
    BY ONLY <2>1, <2>4, <2>5, CongSum
  <2>7. Cong(a, a)
    BY ONLY <2>4, CongRules
  <2>8. Cong(a + c, a + (-b))
    BY ONLY <2>2, <2>4, <2>5, <2>7, CongSum
  <2>9. Cong(a + c, a - b)
    BY <2>5, <2>8
  <2>10. Cong(a + c, d * v - u * e)
    BY ONLY <2>5, <2>6, <2>9, CongChain
  <2>11. Cong(FAdd(a, c), d * v - u * e)
    BY ONLY <2>3, <2>4, <2>5, <2>10, CongChain
  <2>12. QED
    BY <2>3, <2>11 DEF a, b, c
<1> HIDE DEF s, n, p
<1>6. r \in Field /\ Cong(r * s, FNeg(u)) /\ q \in Field /\ Cong(q * s, n)
  BY <1>2, <1>4, <1>5, FieldQuotients
<1> HIDE DEF r, q
<1>7. s \in Int /\ n \in Int /\ p \in Int /\ r \in Int /\ q \in Int /\ FNeg(u) \in Int
  BY <1>2, <1>3, <1>4, <1>5, <1>6, PrimeFacts
<1>8. t \in Field /\ Cong(t, p * d + r * e)
  <2> DEFINE a == FMul(p, d)
             b == FMul(r, e)
  <2>1. a \in Field /\ Cong(a, p * d) /\ b \in Field /\ Cong(b, r * e)
    BY <1>3, <1>6, FieldOps
  <2> HIDE DEF a, b
  <2>2. FAdd(a, b) \in Field /\ Cong(FAdd(a, b), a + b)
    BY <2>1, FieldOps
  <2>3. a \in Int /\ b \in Int /\ FAdd(a, b) \in Int
    BY <2>1, <2>2, PrimeFacts
  <2>4. p * d \in Int /\ r * e \in Int /\ a + b \in Int /\ p * d + r * e \in Int
    BY <1>1, <1>7, <2>3
  <2>5. Cong(a + b, p * d + r * e)
    BY ONLY <2>1, <2>3, <2>4, CongSum
  <2>6. Cong(FAdd(a, b), p * d + r * e)
    BY ONLY <2>2, <2>3, <2>4, <2>5, CongChain
  <2>7. QED
    BY <2>2, <2>6 DEF a, b
<1> HIDE DEF t
<1>9. t \in Int
  BY <1>8, PrimeFacts
<1>10. Cong((p * d) * s, d * v)
  <2> DEFINE y == d * v
             z == p * v
             x == (p * d) * s
             w == (p * d) * (v * v)
  <2>1. v * v \in Int /\ p * d \in Int /\ y \in Int /\ z \in Int /\ x \in Int /\ w \in Int
    BY <1>1, <1>7
  <2>2. Cong(x, w)
    BY ONLY <1>2, <1>7, <2>1, CongTimes
  <2>3. w = z * y /\ 1 * y = y /\ z * y \in Int
    BY <1>1, <1>7
  <2>4. Cong(z, 1)
    BY <1>3
  <2> HIDE DEF y, z, x, w
  <2>5. Cong(z * y, 1 * y)
    BY ONLY <1>1, <2>1, <2>4, CongTimes
  <2>6. Cong(w, y)
    BY <2>3, <2>5
  <2>7. Cong(x, y)
    BY ONLY <2>1, <2>2, <2>6, CongChain
  <2>8. QED
    BY <2>7 DEF x, y
<1>11. Cong((r * e) * s, -(u * e))
  <2> DEFINE z == r * s
             x == (r * e) * s
             w == FNeg(u) * e
             y == -(u * e)
  <2>1. z \in Int /\ x \in Int /\ w \in Int /\ -u \in Int /\ y \in Int
    BY <1>1, <1>7
  <2>2. x = z * e /\ (-u) * e = y
    BY <1>1, <1>7
  <2>3. Cong(z, FNeg(u))
    BY <1>6
  <2> HIDE DEF z
  <2>4. Cong(z * e, FNeg(u) * e)
    BY ONLY <1>1, <1>7, <2>1, <2>3, CongTimes
  <2>5. Cong(FNeg(u) * e, (-u) * e)
    BY ONLY <1>1, <1>4, <1>7, <2>1, CongTimes
  <2>6. Cong(x, w) /\ Cong(w, y)
    BY <2>2, <2>4, <2>5
  <2> HIDE DEF x, w, y
  <2>7. Cong(x, y)
    BY ONLY <2>1, <2>6, CongChain
  <2>8. QED
    BY <2>7 DEF x, y
<1>12. Cong(t * s, q * s)
  <2> DEFINE x == p * d + r * e
             a == (p * d) * s
             b == (r * e) * s
             y == d * v - u * e
  <2>1. x \in Int /\ a \in Int /\ b \in Int /\ y \in Int /\ t * s \in Int /\ x * s \in Int
        /\ d * v \in Int /\ -(u * e) \in Int /\ q * s \in Int /\ a + b \in Int
    BY <1>1, <1>7, <1>9
  <2>2. x * s = a + b /\ d * v + (-(u * e)) = y
    BY <1>1, <1>7
  <2>3. Cong(t, x)
    BY <1>8
  <2>4. Cong(a, d * v) /\ Cong(b, -(u * e))
    BY <1>10, <1>11
  <2>5. Cong(n, y)
    BY <1>5
  <2> HIDE DEF x, a, b, y
  <2>6. Cong(t * s, x * s)
    BY ONLY <1>7, <1>9, <2>1, <2>3, CongTimes
  <2>7. Cong(a + b, d * v + (-(u * e)))
    BY ONLY <2>1, <2>4, CongSum
  <2>8. Cong(x * s, y)
    BY <2>2, <2>7
  <2>9. Cong(t * s, y)
    BY ONLY <2>1, <2>6, <2>8, CongChain
  <2>10. Cong(t * s, n)
    BY ONLY <1>7, <2>1, <2>5, <2>9, CongChain
  <2>11. QED
    BY ONLY <1>6, <1>7, <2>1, <2>10, CongChain
<1>13. Cong(t, q)
  BY <1>2, <1>7, <1>9, <1>12, FieldQuotients
<1>14. q = t
  BY <1>6, <1>8, <1>9, <1>13, CongField
<1>15. QED
  BY <1>3, <1>6, <1>14 DEF q, t, n, s, p, r

-----------------------------------------------------------------------------
(* What the client built: values and slopes of terms by those of their     *)
(* arguments, of which each operator has as many as it takes.              *)
Arity(op, args) ==
    /\ Len(args) \in Nat /\ DOMAIN args = 1..Len(args)
    /\ op \in Unary => Len(args) = 1
    /\ op \in {"*", "/", "^"} => Len(args) = 2

LeafIs(i) ==
    /\ LeafOK(heap[i]) /\ val[i] \in Field
    /\ \A x \in Var : slope[i][x] = LeafSlope(heap[i], x)

NodeIs(i) ==
    LET t == heap[i]
    IN  /\ t.op \in Operations /\ Arity(t.op, t.args)
        /\ val[i] = NodeValue(t.op, t.args)
        /\ \A x \in Var : slope[i][x] = NodeSlope(t.op, t.args, x)

ValuesOK ==
    /\ val \in Seq(ToSet(val)) /\ Len(val) = Root
    /\ slope \in Seq(ToSet(slope)) /\ Len(slope) = Root
    /\ \A i \in Places : IF IsExpression(i) THEN NodeIs(i) ELSE LeafIs(i)

(* What the sweep adds up over the arguments of a term.                    *)
Shares(i, x) == [k \in DOMAIN Args(i) |-> FMul(Partial(i, k), slope[Args(i)[k]][x])]

(* The rules apply, and are those of the table.                            *)
Regular == Smooth /\ RightlyTabled

(* The arguments have values and slopes, and the rules apply.              *)
ArgumentsOK(i, x) ==
    /\ \A k \in DOMAIN Args(i) : val[Args(i)[k]] \in Field /\ slope[Args(i)[k]][x] \in Field
    /\ heap[i].op # "abs"
    /\ heap[i].op = "/" => val[heap[i].args[2]] # 0
    /\ heap[i].op \in FunctionNames =>
        Rule(heap[i].op, val[heap[i].args[1]]) # Undef /\ heap[i].op \notin Mistabled

RuleHolds(i, x) ==
    /\ val[i] \in Field /\ \A k \in DOMAIN Args(i) : Partial(i, k) \in Field
    /\ slope[i][x] \in Field /\ slope[i][x] = Total(Shares(i, x), Len(Args(i)))

LEMMA TotalOfTwo ==
    ASSUME NEW f
    PROVE  /\ f[1] \in Field => Total(f, 1) = f[1]
           /\ f[1] \in Field /\ f[2] \in Field => Total(f, 2) = FAdd(f[1], f[2])
<1>1. ASSUME f[1] \in Field PROVE Total(f, 1) = f[1]
  <2>1. 1 \in Nat /\ (\A k \in 1..1 : f[k] \in Field) /\ 1 \in 1..1 /\ 1 - 1 = 0
    BY <1>1
  <2>2. Total(f, 0) = 0 /\ Total(f, 1) = FAdd(Total(f, 1 - 1), f[1])
    BY ONLY <2>1, TotalSteps
  <2>3. QED
    BY <1>1, <2>1, <2>2, SmallRules
<1>2. ASSUME f[1] \in Field, f[2] \in Field PROVE Total(f, 2) = FAdd(f[1], f[2])
  <2>1. 2 \in Nat /\ (\A k \in 1..2 : f[k] \in Field) /\ 2 \in 1..2 /\ 2 - 1 = 1
    BY <1>2
  <2>2. Total(f, 2) = FAdd(Total(f, 2 - 1), f[2])
    BY ONLY <2>1, TotalSteps
  <2>3. QED
    BY <1>1, <1>2, <2>1, <2>2
<1>3. QED
  BY <1>1, <1>2

(* What the table has of every other function is its derivative.           *)
LEMMA TableIsRight ==
    ASSUME NEW g \in FunctionNames, g \notin Mistabled, NEW u
    PROVE  FunctionPartial(g, u) = Rule(g, u)
BY DEF FunctionPartial, Rule, FunctionNames, Mistabled

LEMMA ApplyRule ==
    ASSUME NEW g \in FunctionNames, NEW u \in Field \cup {Undef}
    PROVE  Apply(g, u) \in Field \cup {Undef} /\ (u \in Field => Apply(g, u) \in Field)
<1>1. ASSUME u \in Field PROVE u # Undef /\ Fun[g][u] \in Field
  <2>1. Fun \in [FunctionNames -> [Field -> Field]]
    BY DiffBounds
  <2>2. Fun[g] \in [Field -> Field]
    BY ONLY <2>1, g \in FunctionNames
  <2>3. QED
    BY <1>1, <2>2, FieldOps
<1>2. QED
  BY <1>1 DEF Apply

(* A derivative is a number unless something is divided by zero.           *)
LEMMA RuleTyped ==
    ASSUME NEW g \in FunctionNames, NEW u \in Field
    PROVE  Rule(g, u) \in Field \cup {Undef}
<1> DEFINE Value == Field \cup {Undef}
<1>1. 1 \in Value /\ u \in Value /\ Ln10 \in Value
  BY PrimeFacts, DiffBounds
<1>2. ASSUME NEW a \in Value, NEW b \in Value
      PROVE  FAdd(a, b) \in Value /\ FMul(a, b) \in Value /\ FNeg(a) \in Value
  <2>1. CASE a \in Field /\ b \in Field
    BY <2>1, FieldOps
  <2>2. CASE a = Undef \/ b = Undef
    <3>1. FAdd(a, b) = Undef /\ FMul(a, b) = Undef
      BY <2>2 DEF FAdd, FMul
    <3>2. FNeg(a) \in Value
      <4>1. CASE a \in Field
        BY <4>1, FieldOps
      <4>2. CASE a = Undef
        BY <4>2 DEF FNeg
      <4>3. QED
        BY <4>1, <4>2
    <3>3. QED
      BY <3>1, <3>2
  <2>3. QED
    BY <2>1, <2>2
<1>3. ASSUME NEW a \in Value
      PROVE  Inverted(a) \in Value /\ Squared(a) \in Value
             /\ \A b \in Value : Minus(a, b) \in Value
  <2>1. Inverted(a) \in Value
    <3>1. CASE a \in Field /\ a # 0
      BY <3>1, FieldQuotients, PrimeFacts DEF Inverted
    <3>2. CASE a = Undef \/ a = 0
      BY <3>2 DEF Inverted, FDiv
    <3>3. QED
      BY <3>1, <3>2
  <2>2. QED
    BY <1>2, <2>1 DEF Squared, Minus
<1>4. \A h \in FunctionNames, a \in Value : Apply(h, a) \in Value
  BY ApplyRule
<1>5. {"exp", "sqrt", "sin", "cos", "sinh", "cosh", "tanh"} \subseteq FunctionNames
  BY DEF FunctionNames
<1> HIDE DEF Value
<1>6. CASE g \in {"exp", "log", "log10", "sqrt"}
  BY <1>1, <1>2, <1>3, <1>4, <1>5, <1>6 DEF Rule, Value
<1>7. CASE g \in {"sin", "cos", "tan", "sinh", "cosh", "tanh"}
  BY <1>1, <1>2, <1>3, <1>4, <1>5, <1>7 DEF Rule, Value
<1>8. CASE g \in {"asin", "acos", "atan", "asinh", "acosh", "atanh"}
  BY <1>1, <1>2, <1>3, <1>4, <1>5, <1>8 DEF Rule, Value
<1>9. QED
  BY <1>6, <1>7, <1>8 DEF FunctionNames

LEMMA NodeRule ==
    ASSUME ValuesOK, NEW i \in Places, IsExpression(i), NEW x \in Var, ArgumentsOK(i, x)
    PROVE  RuleHolds(i, x)
<1> DEFINE op == heap[i].op
           args == heap[i].args
           n == Len(args)
           u(k) == val[args[k]]
           d(k) == slope[args[k]][x]
<1>1. /\ op \in Operations /\ op # "abs" /\ n \in Nat /\ DOMAIN args = 1..n
      /\ op \in Unary => n = 1
      /\ op \in {"*", "/", "^"} => n = 2
      /\ val[i] = NodeValue(op, args)
      /\ slope[i][x] = NodeSlope(op, args, x)
      /\ Args(i) = args
  BY DEF ValuesOK, NodeIs, Arity, ArgumentsOK, Args, IsExpression
<1>2. \A k \in 1..n : u(k) \in Field /\ d(k) \in Field
  BY <1>1 DEF ArgumentsOK
<1>3. 0 \in Field /\ 1 \in Field /\ FNeg(1) \in Field
  BY PrimeFacts, FieldOps
<1>4. ASSUME op = "+"
      PROVE  val[i] \in Field /\ (\A k \in 1..n : Partial(i, k) \in Field) /\ slope[i][x] \in Field
             /\ slope[i][x] = Total(Shares(i, x), n)
  <2> DEFINE f == [k \in 1..n |-> u(k)]
             g == [k \in 1..n |-> d(k)]
  <2>1. val[i] = Total(f, n) /\ slope[i][x] = Total(g, n)
    BY <1>1, <1>4, Kinds DEF NodeValue, NodeSlope
  <2>2. \A k \in 1..n : Partial(i, k) = 1
    BY <1>4, Kinds DEF Partial
  <2>3. Shares(i, x) = g
    <3>1. \A k \in 1..n : FMul(Partial(i, k), d(k)) = d(k)
      BY <1>2, <2>2, SmallRules
    <3>2. Shares(i, x) = [k \in 1..n |-> FMul(Partial(i, k), d(k))]
      BY <1>1 DEF Shares
    <3>3. QED
      BY <3>1, <3>2
  <2>4. \A k \in 1..n : f[k] \in Field /\ g[k] \in Field
    BY <1>2
  <2> HIDE DEF f, g
  <2>5. n \in 0..n
    BY <1>1
  <2>6. Total(f, n) \in Field /\ Total(g, n) \in Field
    BY ONLY <1>1, <2>4, <2>5, TotalSteps
  <2>7. QED
    BY <1>3, <2>1, <2>2, <2>3, <2>6
<1>5. ASSUME op \in Unary
      PROVE  val[i] \in Field /\ (\A k \in 1..n : Partial(i, k) \in Field) /\ slope[i][x] \in Field
             /\ slope[i][x] = Total(Shares(i, x), n)
  <2>1. n = 1 /\ u(1) \in Field /\ d(1) \in Field /\ DOMAIN Shares(i, x) = 1..1
        /\ Shares(i, x)[1] = FMul(Partial(i, 1), d(1))
    BY <1>1, <1>2, <1>5 DEF Shares
  <2>2. \A k \in 1..n : k = 1
    BY <2>1
  <2>3. ASSUME Partial(i, 1) \in Field, slope[i][x] = FMul(Partial(i, 1), d(1))
        PROVE  (\A k \in 1..n : Partial(i, k) \in Field) /\ slope[i][x] \in Field
               /\ slope[i][x] = Total(Shares(i, x), n)
    <3>1. FMul(Partial(i, 1), d(1)) \in Field
      BY <2>1, <2>3, FieldOps
    <3>2. Total(Shares(i, x), 1) = Shares(i, x)[1]
      BY <2>1, <3>1, TotalOfTwo
    <3>3. QED
      BY <2>1, <2>2, <2>3, <3>1, <3>2
  <2>4. CASE op = "-"
    <3>1. val[i] = FNeg(u(1)) /\ slope[i][x] = FNeg(d(1)) /\ Partial(i, 1) = FNeg(1)
      BY <1>1, <2>4, Kinds DEF NodeValue, NodeSlope, Partial
    <3>2. FNeg(u(1)) \in Field /\ FMul(FNeg(1), d(1)) = FNeg(d(1))
      BY <2>1, FieldOps, SmallRules
    <3>3. QED
      BY <1>3, <2>3, <3>1, <3>2
  <2>5. CASE op \in FunctionNames
    <3>1. op \notin {"+", "*", "/", "^", "-"}
      BY <2>5, Kinds
    <3>2. /\ val[i] = Apply(op, u(1)) /\ slope[i][x] = FMul(Rule(op, u(1)), d(1))
          /\ Partial(i, 1) = FunctionPartial(op, u(1))
      BY <1>1, <2>5, <3>1 DEF NodeValue, NodeSlope, Partial
    <3>3. Apply(op, u(1)) \in Field
      BY <2>1, <2>5, ApplyRule
    <3>4. Rule(op, u(1)) # Undef /\ op \notin Mistabled
      BY <2>5 DEF ArgumentsOK
    <3>5. Rule(op, u(1)) \in Field /\ FunctionPartial(op, u(1)) = Rule(op, u(1))
      BY <2>1, <2>5, <3>4, RuleTyped, TableIsRight
    <3>6. QED
      BY <2>3, <3>2, <3>3, <3>5
  <2>6. QED
    BY <1>1, <1>5, <2>4, <2>5, Kinds
<1>6. ASSUME op \in {"*", "/", "^"}
      PROVE  val[i] \in Field /\ (\A k \in 1..n : Partial(i, k) \in Field) /\ slope[i][x] \in Field
             /\ slope[i][x] = Total(Shares(i, x), n)
  <2> DEFINE p == Partial(i, 1)
             q == Partial(i, 2)
  <2>1. /\ n = 2 /\ u(1) \in Field /\ u(2) \in Field /\ d(1) \in Field /\ d(2) \in Field
        /\ Shares(i, x)[1] = FMul(p, d(1)) /\ Shares(i, x)[2] = FMul(q, d(2))
    BY <1>1, <1>2, <1>6 DEF Shares
  <2>2. \A k \in 1..n : k = 1 \/ k = 2
    BY <2>1
  <2>3. ASSUME p \in Field, q \in Field, slope[i][x] = FAdd(FMul(p, d(1)), FMul(q, d(2)))
        PROVE  (\A k \in 1..n : Partial(i, k) \in Field) /\ slope[i][x] \in Field
               /\ slope[i][x] = Total(Shares(i, x), n)
    <3>1. FMul(p, d(1)) \in Field /\ FMul(q, d(2)) \in Field
      BY <2>1, <2>3, FieldOps
    <3>2. Total(Shares(i, x), 2) = FAdd(Shares(i, x)[1], Shares(i, x)[2])
      BY <2>1, <3>1, TotalOfTwo
    <3>3. FAdd(FMul(p, d(1)), FMul(q, d(2))) \in Field
      BY <3>1, FieldOps
    <3>4. QED
      BY <2>1, <2>2, <2>3, <3>2, <3>3
  <2>4. CASE op = "*"
    <3>1. /\ val[i] = FMul(u(1), u(2)) /\ p = u(2) /\ q = u(1)
          /\ slope[i][x] = FAdd(FMul(d(1), u(2)), FMul(u(1), d(2)))
      BY <1>1, <2>4, Kinds DEF NodeValue, NodeSlope, Partial
    <3>2. FMul(d(1), u(2)) = FMul(u(2), d(1)) /\ FMul(u(1), u(2)) \in Field
      BY <2>1, FieldOps, SmallRules
    <3>3. QED
      BY <2>1, <2>3, <3>1, <3>2
  <2>5. CASE op = "/"
    <3>1. /\ val[i] = FDiv(u(1), u(2)) /\ p = FDiv(1, u(2)) /\ q = FDiv(FNeg(u(1)), FMul(u(2), u(2)))
          /\ slope[i][x] = FDiv(FAdd(FMul(d(1), u(2)), FNeg(FMul(u(1), d(2)))), FMul(u(2), u(2)))
          /\ u(2) # 0
      BY <1>1, <2>5, Kinds DEF NodeValue, NodeSlope, Partial, ArgumentsOK
    <3>2. FDiv(u(1), u(2)) \in Field
      BY <2>1, <3>1, FieldQuotients
    <3>3. /\ FDiv(FAdd(FMul(d(1), u(2)), FNeg(FMul(u(1), d(2)))), FMul(u(2), u(2)))
             = FAdd(FMul(FDiv(1, u(2)), d(1)), FMul(FDiv(FNeg(u(1)), FMul(u(2), u(2))), d(2)))
          /\ FDiv(1, u(2)) \in Field /\ FDiv(FNeg(u(1)), FMul(u(2), u(2))) \in Field
      BY <2>1, <3>1, QuotientRule
    <3>4. QED
      BY <2>3, <3>1, <3>2, <3>3
  <2>6. CASE op = "^"
    <3>1. /\ val[i] = FPow(u(1), u(2)) /\ p = FMul(u(2), FPow(u(1), FAdd(u(2), FNeg(1))))
          /\ q = FMul(Apply("log", u(1)), FPow(u(1), u(2)))
          /\ slope[i][x] = FAdd(FMul(p, d(1)), FMul(q, d(2)))
      BY <1>1, <2>6, Kinds DEF NodeValue, NodeSlope, Partial
    <3>2. FPow(u(1), u(2)) \in Field /\ FPow(u(1), FAdd(u(2), FNeg(1))) \in Field
      BY <1>3, <2>1, FieldOps, FieldPower
    <3>3. Apply("log", u(1)) \in Field
      BY <2>1, ApplyRule DEF FunctionNames
    <3>4. p \in Field /\ q \in Field
      <4>1. FMul(u(2), FPow(u(1), FAdd(u(2), FNeg(1)))) \in Field
        BY <2>1, <3>2, FieldOps
      <4>2. FMul(Apply("log", u(1)), FPow(u(1), u(2))) \in Field
        BY <3>2, <3>3, FieldOps
      <4>3. QED
        BY <3>1, <4>1, <4>2
    <3>5. QED
      BY <2>3, <3>1, <3>2, <3>4
  <2>7. QED
    BY <1>6, <2>4, <2>5, <2>6
<1>7. QED
  BY <1>1, <1>4, <1>5, <1>6, Kinds DEF RuleHolds
(* The terms of the expression: all places, the root and what it uses.     *)
LEMMA ReachFacts ==
    ASSUME HeapOK
    PROVE  Reach \subseteq Places /\ Root \in Reach /\ ClosedBelow(Reach)
<1>1. Root \in Places
  BY HeapFacts DEF Places
<1>2. ASSUME NEW i \in Reach, NEW k \in DOMAIN Args(i) PROVE Args(i)[k] \in Reach
  <2>1. i \in Places
    BY <1>2 DEF Reach
  <2>2. Args(i)[k] \in Places
    BY <1>2, <2>1, HeapFacts
  <2>3. ASSUME NEW S \in SUBSET Places, Root \in S, ClosedBelow(S) PROVE Args(i)[k] \in S
    BY <1>2, <2>3 DEF Reach, ClosedBelow
  <2>4. QED
    BY <2>2, <2>3 DEF Reach
<1>3. QED
  BY <1>1, <1>2 DEF Reach, ClosedBelow

LEMMA LeafRule ==
    ASSUME NEW i, LeafIs(i), NEW x \in Var
    PROVE  val[i] \in Field /\ slope[i][x] \in Field
<1>1. val[i] \in Field /\ slope[i][x] = LeafSlope(heap[i], x) /\ LeafOK(heap[i])
  BY DEF LeafIs
<1>2. CASE heap[i].op = "var" /\ heap[i].a = x
  BY <1>1, <1>2, PrimeFacts DEF LeafSlope
<1>3. CASE heap[i].op = "mono" /\ heap[i].a = x
  <2>1. slope[i][x] = heap[i].c
    BY <1>1, <1>3 DEF LeafSlope
  <2>2. QED
    BY <1>1, <1>3, <2>1 DEF LeafOK
<1>4. CASE ~(heap[i].op = "var" /\ heap[i].a = x) /\ ~(heap[i].op = "mono" /\ heap[i].a = x)
  <2>1. slope[i][x] = 0
    BY <1>1, <1>4 DEF LeafSlope
  <2>2. QED
    BY <1>1, <2>1, PrimeFacts
<1>5. QED
  BY <1>2, <1>3, <1>4

(* The value of every term and its derivative by x are numbers.            *)
Differentiated(i, x) ==
    val[i] \in Field /\ slope[i][x] \in Field /\ (IsExpression(i) => RuleHolds(i, x))

LEMMA ReachRule ==
    ASSUME HeapOK, ValuesOK, Regular, NEW x \in Var
    PROVE  \A i \in Reach : Differentiated(i, x)
<1> DEFINE Bad == {i \in Reach : ~Differentiated(i, x)}
<1> SUFFICES ASSUME Bad # {} PROVE FALSE
  OBVIOUS
<1>1. Root \in Nat /\ Places = 1..Root /\ Reach \subseteq Places /\ ClosedBelow(Reach)
  BY ReachFacts, HeapFacts DEF Places
<1>2. Bad \in SUBSET Nat
  <2>1. Bad \subseteq 1..Root
    BY <1>1
  <2> HIDE DEF Bad
  <2>2. QED
    BY <1>1, <2>1
<1>3. PICK i \in Bad : \A j \in Bad : i <= j
  <2> HIDE DEF Bad
  <2>1. QED
    BY <1>2, Least
<1>4. i \in Reach /\ i \in Places /\ ~Differentiated(i, x)
  BY <1>1
<1>5. CASE IsExpression(i)
  <2>1. ASSUME NEW k \in DOMAIN Args(i) PROVE Differentiated(Args(i)[k], x)
    <3>1. Args(i)[k] \in Reach /\ Args(i)[k] < i /\ Args(i)[k] \in Places
      BY <1>1, <1>4, HeapFacts DEF ClosedBelow
    <3>2. Args(i)[k] \notin Bad
      BY <1>1, <1>3, <1>4, <3>1
    <3>3. QED
      BY <3>1, <3>2
  <2>2. ArgumentsOK(i, x)
    BY <1>4, <2>1 DEF ArgumentsOK, Differentiated, Regular, Smooth, RightlyTabled
  <2>3. RuleHolds(i, x)
    BY <1>4, <1>5, <2>2, NodeRule
  <2>4. QED
    BY <1>4, <2>3 DEF Differentiated, RuleHolds
<1>6. CASE ~IsExpression(i)
  <2>1. LeafIs(i)
    BY <1>4, <1>6 DEF ValuesOK
  <2>2. QED
    BY <1>4, <1>6, <2>1, LeafRule DEF Differentiated
<1>7. QED
  BY <1>5, <1>6

(* What the client built stays as it is during the call.                   *)
LEMMA SameValues ==
    ASSUME heap' = heap, val' = val, slope' = slope
    PROVE  /\ ValuesOK' <=> ValuesOK
           /\ Reach' = Reach /\ (Regular' <=> Regular) /\ (SharedMonomial' <=> SharedMonomial)
           /\ ValuesOK => \A i \in Places :
                IsExpression(i) /\ heap[i].op # "abs" =>
                    \A k \in DOMAIN Args(i) : Partial(i, k)' = Partial(i, k)
<1>1. /\ Root' = Root /\ Places' = Places
      /\ \A i : Args(i)' = Args(i) /\ (IsExpression(i)' <=> IsExpression(i))
      /\ \A S : ClosedBelow(S)' <=> ClosedBelow(S)
  BY SameHeap
<1>2. Reach' = Reach
  BY <1>1 DEF Reach
<1>3. ValuesOK' <=> ValuesOK
  <2>1. \A i : (NodeIs(i)' <=> NodeIs(i)) /\ (LeafIs(i)' <=> LeafIs(i))
    BY DEF NodeIs, LeafIs, NodeValue, NodeSlope
  <2>2. QED
    BY <1>1, <2>1 DEF ValuesOK
<1>4. Regular' <=> Regular
  BY <1>2 DEF Regular, Smooth, RightlyTabled
<1>5. SharedMonomial' <=> SharedMonomial
  BY <1>1, <1>2 DEF SharedMonomial
<1>6. ASSUME ValuesOK, NEW i \in Places, IsExpression(i), heap[i].op # "abs", NEW k \in DOMAIN Args(i)
      PROVE  Partial(i, k)' = Partial(i, k)
  <2>1. heap[i].op \in Operations /\ (heap[i].op \in {"*", "/", "^"} => k \in 1..2)
    BY <1>6 DEF ValuesOK, NodeIs, Arity, Args, IsExpression
  <2>2. CASE heap[i].op = "/"
    <3>1. k = 1 \/ k = 2
      BY <2>1, <2>2
    <3>2. QED
      BY <2>2, <3>1 DEF Partial
  <2>3. CASE heap[i].op = "^"
    <3>1. k = 1 \/ k = 2
      BY <2>1, <2>3
    <3>2. QED
      BY <2>3, <3>1 DEF Partial
  <2>4. CASE heap[i].op \notin {"/", "^"}
    BY <1>6, <2>1, <2>4, Kinds DEF Partial
  <2>5. QED
    BY <2>2, <2>3, <2>4
<1>7. QED
  BY <1>2, <1>3, <1>4, <1>5, <1>6

LEMMA MadeSequence ==
    ASSUME NEW n \in Nat, NEW s, s = [i \in 1..n |-> s[i]]
    PROVE  s \in Seq(ToSet(s)) /\ Len(s) = n
<1>1. DOMAIN s = 1..n /\ s \in [1..n -> ToSet(s)]
  BY DEF ToSet
<1>2. s \in Seq(ToSet(s))
  BY <1>1
<1>3. QED
  BY <1>1, <1>2

LEMMA InitValues == Init => ValuesOK
<1> SUFFICES ASSUME Init PROVE ValuesOK
  OBVIOUS
<1> DEFINE n == Len(Leaves)
<1>1. n \in Nat /\ \A i \in 1..n : LeafOK(Leaves[i]) /\ IsLeaf(Leaves[i])
  BY LeavesTyped
<1>2. PICK at \in Points : val = [i \in 1..n |-> LeafValue(Leaves[i], at)]
  BY DEF Init
<1>3. heap = Leaves /\ slope = [i \in 1..n |-> [x \in Var |-> LeafSlope(Leaves[i], x)]]
  BY DEF Init
<1>4. at \in [Param \cup Var -> Field]
  BY <1>2, DiffBounds
<1>5. ASSUME NEW t, LeafOK(t) PROVE LeafValue(t, at) \in Field
  <2>1. CASE t.op = "num"
    BY <1>5, <2>1 DEF LeafValue, LeafOK
  <2>2. CASE t.op \in {"par", "var"}
    BY <1>4, <1>5, <2>2 DEF LeafValue, LeafOK
  <2>3. CASE t.op = "mono"
    <3>1. LeafValue(t, at) = FMul(t.c, at[t.a]) /\ t.c \in Field /\ at[t.a] \in Field
      BY <1>4, <1>5, <2>3 DEF LeafValue, LeafOK
    <3>2. QED
      BY <3>1, FieldOps
  <2>4. QED
    BY <1>5, <2>1, <2>2, <2>3 DEF LeafOK
<1>6. Root = n /\ Places = 1..n
  BY <1>3 DEF Root, Places
<1>7. val \in Seq(ToSet(val)) /\ Len(val) = n
  <2>1. val = [i \in 1..n |-> val[i]]
    BY <1>2
  <2> HIDE DEF n
  <2>2. QED
    BY ONLY <1>1, <2>1, MadeSequence
<1>8. slope \in Seq(ToSet(slope)) /\ Len(slope) = n
  <2>1. slope = [i \in 1..n |-> slope[i]]
    BY <1>3
  <2> HIDE DEF n
  <2>2. QED
    BY ONLY <1>1, <2>1, MadeSequence
<1>9. ASSUME NEW i \in 1..n PROVE ~IsExpression(i) /\ LeafIs(i)
  <2>1. val[i] = LeafValue(Leaves[i], at) /\ \A x \in Var : slope[i][x] = LeafSlope(Leaves[i], x)
    BY <1>2, <1>3
  <2>2. val[i] \in Field
    BY <1>1, <1>5, <2>1
  <2>3. QED
    BY <1>1, <1>3, <2>1, <2>2 DEF LeafIs, IsExpression
<1>10. QED
  BY <1>6, <1>7, <1>8, <1>9 DEF ValuesOK

LEMMA SameNode ==
    ASSUME NEW op, NEW args, Arity(op, args), op \in Operations,
           \/ op = "+" \/ Len(args) >= 1,
           \A k \in DOMAIN args : /\ val'[args[k]] = val[args[k]]
                                  /\ slope'[args[k]] = slope[args[k]]
    PROVE  /\ NodeValue(op, args)' = NodeValue(op, args)
           /\ \A x : NodeSlope(op, args, x)' = NodeSlope(op, args, x)
<1>1. CASE op = "+"
  <2>1. [k \in DOMAIN args |-> val'[args[k]]] = [k \in DOMAIN args |-> val[args[k]]]
    OBVIOUS
  <2>2. ASSUME NEW x
        PROVE  [k \in DOMAIN args |-> slope'[args[k]][x]] = [k \in DOMAIN args |-> slope[args[k]][x]]
    OBVIOUS
  <2>3. NodeValue(op, args)' = Total([k \in DOMAIN args |-> val'[args[k]]], Len(args))
        /\ NodeValue(op, args) = Total([k \in DOMAIN args |-> val[args[k]]], Len(args))
    BY <1>1, Kinds DEF NodeValue, Total
  <2>4. ASSUME NEW x
        PROVE  NodeSlope(op, args, x)' = Total([k \in DOMAIN args |-> slope'[args[k]][x]], Len(args))
               /\ NodeSlope(op, args, x) = Total([k \in DOMAIN args |-> slope[args[k]][x]], Len(args))
    BY <1>1, Kinds DEF NodeSlope, Total
  <2>5. NodeValue(op, args)' = NodeValue(op, args)
    BY ONLY <2>1, <2>3
  <2>6. ASSUME NEW x PROVE NodeSlope(op, args, x)' = NodeSlope(op, args, x)
    <3>1. [k \in DOMAIN args |-> slope'[args[k]][x]] = [k \in DOMAIN args |-> slope[args[k]][x]]
      BY ONLY <2>2
    <3>2. NodeSlope(op, args, x)' = Total([k \in DOMAIN args |-> slope'[args[k]][x]], Len(args))
          /\ NodeSlope(op, args, x) = Total([k \in DOMAIN args |-> slope[args[k]][x]], Len(args))
      BY ONLY <2>4
    <3>3. QED
      BY ONLY <3>1, <3>2
  <2>7. QED
    BY ONLY <2>5, <2>6
<1>2. CASE op \in Unary
  <2>1. val'[args[1]] = val[args[1]] /\ slope'[args[1]] = slope[args[1]]
    BY <1>2 DEF Arity
  <2>2. op \notin {"+", "*", "/", "^"}
    BY <1>2, Kinds
  <2>3. QED
    BY <2>1, <2>2 DEF NodeValue, NodeSlope
<1>3. CASE op \in {"*", "/", "^"}
  <2>1. /\ val'[args[1]] = val[args[1]] /\ slope'[args[1]] = slope[args[1]]
        /\ val'[args[2]] = val[args[2]] /\ slope'[args[2]] = slope[args[2]]
    BY <1>3 DEF Arity
  <2>2. QED
    BY <1>3, <2>1 DEF NodeValue, NodeSlope
<1>4. QED
  BY <1>1, <1>2, <1>3, Kinds

(* What Build makes an expression of.                                      *)
BuiltArgs(op, l, r) ==
    CASE op \in Unary -> <<l>>
      [] op = "+" /\ heap[l].op = "+" -> Append(heap[l].args, r)
      [] OTHER -> <<l, r>>

LEMMA BuildKeepsValues ==
    ASSUME IInv, ValuesOK, Build
    PROVE  ValuesOK'
<1>1. HeapOK /\ IInv'
  BY BuildKeepsInv DEF IInv
<1>2. PICK op \in Operators, l \in Places, r \in Places :
         \E args : /\ args = BuiltArgs(op, l, r)
                   /\ heap' = Append(heap, Node(op, args))
                   /\ val' = Append(val, NodeValue(op, args))
                   /\ slope' = Append(slope, [x \in Var |-> NodeSlope(op, args, x)])
  <2>1. PICK op \in Operators, l \in Places, r \in Places :
           /\ heap' = Append(heap, Node(op, BuiltArgs(op, l, r)))
           /\ val' = Append(val, NodeValue(op, BuiltArgs(op, l, r)))
           /\ slope' = Append(slope, [x \in Var |-> NodeSlope(op, BuiltArgs(op, l, r), x)])
    BY DEF Build, BuiltArgs
  <2>2. QED
    BY <2>1
<1>3. PICK args :
         /\ args = BuiltArgs(op, l, r)
         /\ heap' = Append(heap, Node(op, args))
         /\ val' = Append(val, NodeValue(op, args))
         /\ slope' = Append(slope, [x \in Var |-> NodeSlope(op, args, x)])
  BY <1>2
<1> DEFINE n == Root
           t == Node(op, args)
<1>4. n \in Nat /\ DOMAIN heap = 1..n /\ Places = 1..n
  BY <1>1, HeapFacts DEF Places
<1>5. /\ val \in Seq(ToSet(val)) /\ Len(val) = n
      /\ slope \in Seq(ToSet(slope)) /\ Len(slope) = n
      /\ heap \in Seq(ToSet(heap)) /\ Len(heap) = n
  BY <1>1 DEF ValuesOK, HeapOK, Root
<1> HIDE DEF n, t
<1>6. /\ Len(heap') = n + 1 /\ heap'[n + 1] = t /\ \A i \in 1..n : heap'[i] = heap[i]
  BY <1>3, <1>5, AppendedTo DEF t
<1>7. /\ val' \in Seq(ToSet(val')) /\ Len(val') = n + 1 /\ val'[n + 1] = NodeValue(op, args)
      /\ \A i \in 1..n : val'[i] = val[i]
  BY <1>3, <1>5, AppendedTo
<1>8. /\ slope' \in Seq(ToSet(slope')) /\ Len(slope') = n + 1
      /\ \A x \in Var : slope'[n + 1][x] = NodeSlope(op, args, x)
      /\ \A i \in 1..n : slope'[i] = slope[i]
  BY <1>3, <1>5, AppendedTo
<1>9. Root' = n + 1 /\ Places' = 1..(n + 1)
  BY <1>6 DEF Root, Places
<1>10. op \in Operations /\ t.op = op /\ t.args = args
  BY DiffBounds, Kinds DEF t, Node
<1>11. args \in Seq(1..n) /\ Arity(op, args) /\ (op = "+" \/ Len(args) >= 1)
  <2>1. n + 1 \in Places' /\ ~IsLeaf(t) /\ (n + 1) - 1 = n
    BY <1>4, <1>9, <1>10, Kinds DEF IsLeaf
  <2>2. PICK i : i = n + 1
    OBVIOUS
  <2>3. IsExpression(i)' /\ i \in Places' /\ heap'[i].args = args
    BY <1>6, <1>10, <2>1, <2>2 DEF IsExpression
  <2>4. args \in Seq(1..(i - 1))
    BY <1>1, <2>3 DEF IInv, HeapOK
  <2>5. args \in Seq(1..n)
    BY <2>1, <2>2, <2>4
  <2>6. Len(args) \in Nat /\ DOMAIN args = 1..Len(args)
    BY <2>5
  <2>7. (op \in Unary => Len(args) = 1) /\ (op \in {"*", "/", "^"} => Len(args) = 2)
    <3>1. CASE op \in Unary
      <4>1. args = <<l>>
        BY <1>3, <3>1, Kinds DEF BuiltArgs
      <4>2. QED
        BY <3>1, <4>1, Kinds
    <3>2. CASE op \in {"*", "/", "^"}
      <4>1. args = <<l, r>>
        BY <1>3, <3>2, Kinds DEF BuiltArgs
      <4>2. QED
        BY <3>2, <4>1, Kinds
    <3>3. QED
      BY <3>1, <3>2
  <2>8. QED
    BY <1>10, <2>5, <2>6, <2>7, Kinds DEF Arity
<1>12. \A k \in 1..n : k \in 1..(n + 1) /\ k \in Places
  BY <1>4
<1>13. \A k \in DOMAIN args : args[k] \in 1..n
  <2>1. args \in Seq(1..n)
    BY <1>11
  <2>2. ASSUME NEW S, NEW s \in Seq(S) PROVE \A k \in DOMAIN s : s[k] \in S
    BY ONLY <2>2
  <2>3. QED
    BY ONLY <2>1, <2>2
<1>14. /\ NodeValue(op, args)' = NodeValue(op, args)
       /\ \A x : NodeSlope(op, args, x)' = NodeSlope(op, args, x)
  BY <1>7, <1>8, <1>10, <1>11, <1>13, SameNode
<1>15. ASSUME NEW i \in 1..n, IsExpression(i)
       PROVE  NodeIs(i)'
  <2>1. PICK u : u = heap[i]
    OBVIOUS
  <2>2. /\ u.op \in Operations /\ Arity(u.op, u.args)
        /\ val[i] = NodeValue(u.op, u.args)
        /\ \A x \in Var : slope[i][x] = NodeSlope(u.op, u.args, x)
    BY <1>12, <1>15, <2>1 DEF ValuesOK, NodeIs
  <2>3. \A k \in DOMAIN u.args : u.args[k] \in 1..n
    BY <1>1, <1>4, <1>12, <1>15, <2>1, HeapFacts DEF Args, IsExpression
  <2>4. u.op = "+" \/ Len(u.args) >= 1
    <3>1. (u.op \in Unary => Len(u.args) = 1) /\ (u.op \in {"*", "/", "^"} => Len(u.args) = 2)
          /\ u.op \in Operations
      BY <2>2 DEF Arity
    <3>2. QED
      BY ONLY <3>1, Kinds
  <2>5. /\ NodeValue(u.op, u.args)' = NodeValue(u.op, u.args)
        /\ \A x : NodeSlope(u.op, u.args, x)' = NodeSlope(u.op, u.args, x)
    BY <1>7, <1>8, <2>2, <2>3, <2>4, SameNode
  <2>6. heap'[i] = u /\ val'[i] = val[i] /\ slope'[i] = slope[i]
    BY <1>6, <1>7, <1>8, <1>15, <2>1
  <2>7. QED
    BY <2>2, <2>5, <2>6 DEF NodeIs
<1>16. ASSUME NEW i \in 1..n, ~IsExpression(i)
       PROVE  LeafIs(i)'
  <2>1. LeafIs(i)
    BY <1>12, <1>16 DEF ValuesOK
  <2>2. heap'[i] = heap[i] /\ val'[i] = val[i] /\ slope'[i] = slope[i]
    BY <1>6, <1>7, <1>8, <1>16
  <2>3. QED
    BY <2>1, <2>2 DEF LeafIs
<1>17. ASSUME NEW i, i = n + 1
       PROVE  IsExpression(i)' /\ NodeIs(i)'
  <2>1. heap'[i] = t /\ ~IsLeaf(t)
    BY <1>6, <1>10, <1>17, Kinds DEF IsLeaf
  <2>2. PICK u : u = t
    OBVIOUS
  <2>3. u.op = op /\ u.args = args /\ heap'[i] = u
    BY <1>10, <2>1, <2>2
  <2>4. val'[i] = NodeValue(op, args)' /\ \A x \in Var : slope'[i][x] = NodeSlope(op, args, x)'
    BY <1>7, <1>8, <1>14, <1>17
  <2>5. NodeIs(i)'
    BY <1>10, <1>11, <2>3, <2>4 DEF NodeIs
  <2>6. QED
    BY <2>1, <2>5 DEF IsExpression
<1>18. \A i \in Places' : i \in 1..n \/ i = n + 1
  BY <1>4, <1>9
<1>19. \A i \in 1..n : IsExpression(i)' <=> IsExpression(i)
  BY <1>6 DEF IsExpression
<1>20. \A i \in Places' : IF IsExpression(i)' THEN NodeIs(i)' ELSE LeafIs(i)'
  BY <1>15, <1>16, <1>17, <1>18, <1>19
<1>21. QED
  BY <1>7, <1>8, <1>9, <1>20 DEF ValuesOK

LEMMA StepKeepsValues ==
    ASSUME IInv, ValuesOK, [Next]_vars
    PROVE  ValuesOK'
<1>1. CASE Build
  BY <1>1, BuildKeepsValues
<1>2. CASE ~Build
  <2>1. heap' = heap /\ val' = val /\ slope' = slope
    BY <1>2 DEF Next, vars, Start, Count, Counted, SweepArgument, Finish, client
  <2>2. QED
    BY <2>1, SameValues
<1>3. QED
  BY <1>1, <1>2

-----------------------------------------------------------------------------
(***************************************************************************)
(* The sweep.  Each term that waits to pass its partial on stands for what *)
(* it will pass: its partial times its own derivative, less the shares of  *)
(* the arguments that have theirs.  Modulo Prime the sum of it all is, at  *)
(* every step, the derivative of the root.                                 *)
(***************************************************************************)
Open(j) ==
    IF IsExpression(j) THEN j \in DOMAIN D /\ (D[j] # 0 \/ j \in ToSet(queue))
    ELSE heap[j].op # "mono"

Swept(j, x) == IF queue # <<>> /\ j = Head(queue) THEN Total(Shares(j, x), nth - 1) ELSE 0

Flow(x) ==
    [j \in Places |->
        IF j \in DOMAIN partial /\ Open(j) THEN partial[j] * (slope[j][x] - Swept(j, x)) ELSE 0]

SweptReach == phase \in {"count", "sweep"} => DOMAIN D \subseteq Reach

(* Where there is a partial, and where one is still to come.  A monomial   *)
(* has passed it to its variable, for good when no other term uses it.     *)
PartialOK ==
    phase = "sweep" /\ ~SharedMonomial =>
        /\ \A j \in DOMAIN D : j \in DOMAIN partial \/ D[j] # 0
        /\ \A j \in DOMAIN partial :
              j \in DOMAIN D \/ \E m \in DOMAIN D : heap[m].op = "mono" /\ j = PlaceOf(heap[m].a)
        /\ \A m \in DOMAIN D \cap DOMAIN partial :
              heap[m].op = "mono" => PlaceOf(heap[m].a) \in DOMAIN partial /\ D[m] = 0

FlowOK ==
    phase = "sweep" /\ Regular /\ ~SharedMonomial =>
        \A x \in Var : /\ \A j \in DOMAIN partial : partial[j] \in Field
                       /\ Cong(SumOver(Flow(x), Places), slope[Root][x])

DiffInv == IInv /\ ValuesOK /\ SweptReach /\ PartialOK /\ FlowOK /\ DiffExact

LEMMA SweptNext ==
    \A j, x : Swept(j, x)' = IF queue' # <<>> /\ j = Head(queue')
                            THEN Total(Shares(j, x)', nth' - 1) ELSE 0
BY DEF Swept, Total

(* No step follows the answer, and before the sweep little is claimed.     *)
LEMMA QuietSteps ==
    ASSUME DiffInv, Build \/ UNCHANGED vars
    PROVE  SweptReach' /\ PartialOK' /\ FlowOK' /\ DiffExact'
<1>1. CASE Build
  <2>1. phase' = "build"
    BY <1>1 DEF Build
  <2>2. QED
    BY <2>1 DEF SweptReach, PartialOK, FlowOK, DiffExact, Regular
<1>2. CASE UNCHANGED vars
  <2>1. heap' = heap /\ val' = val /\ slope' = slope
        /\ UNCHANGED <<fixed, phase, D, seen, queue, nth, last, partial, diff>>
    BY <1>2 DEF vars
  <2>2. /\ ValuesOK' <=> ValuesOK
        /\ Reach' = Reach /\ (Regular' <=> Regular) /\ (SharedMonomial' <=> SharedMonomial)
    BY <2>1, SameValues
  <2>3. Root' = Root /\ Places' = Places /\ \A j : Args(j)' = Args(j) /\ (IsExpression(j)' <=> IsExpression(j))
    BY <2>1, SameHeap
  <2>4. SweptReach' /\ PartialOK'
    BY <2>1, <2>2 DEF DiffInv, SweptReach, PartialOK
  <2>5. \A x : Flow(x)' = Flow(x)
    <3>1. \A j, x : Shares(j, x)' = Shares(j, x)
      BY <2>1, <2>3 DEF Shares, Partial
    <3>2. \A j : Open(j)' <=> Open(j)
      BY <2>1, <2>3 DEF Open
    <3>3. ASSUME NEW j, NEW x PROVE Swept(j, x)' = Swept(j, x)
      BY <2>1, <3>1, SweptNext DEF Swept
    <3>4. QED
      BY <2>1, <2>3, <3>2, <3>3 DEF Flow
  <2>6. FlowOK'
    <3>1. \A x : SumOver(Flow(x), Places)' = SumOver(Flow(x), Places)
      BY <2>3, <2>5 DEF SumOver, FoldOver
    <3>2. QED
      BY <2>1, <2>2, <2>3, <3>1 DEF DiffInv, FlowOK, Cong
  <2>7. DiffExact'
    BY <2>1, <2>2, <2>3 DEF DiffInv, DiffExact, Regular, Derivative
  <2>8. QED
    BY <2>4, <2>6, <2>7
<1>3. QED
  BY <1>1, <1>2

(* diff() of a leaf.                                                       *)
LEMMA StartKeepsDiff ==
    ASSUME DiffInv, Start
    PROVE  SweptReach' /\ PartialOK' /\ FlowOK' /\ DiffExact'
<1>1. heap' = heap /\ val' = val /\ slope' = slope /\ HeapOK /\ ValuesOK
  BY DEF Start, DiffInv, IInv
<1>2. Reach' = Reach /\ Root' = Root /\ Root \in Reach /\ Root \in Places
  BY <1>1, SameValues, SameHeap, ReachFacts
<1>3. CASE IsExpression(Root)
  <2>1. phase' = "count" /\ D' = [i \in {Root} |-> 0]
    BY <1>3 DEF Start
  <2>2. QED
    BY <1>2, <2>1 DEF SweptReach, PartialOK, FlowOK, DiffExact, Regular
<1>4. CASE ~IsExpression(Root)
  <2> DEFINE t == heap[Root]
  <2>1. /\ phase' = "done"
        /\ diff' = IF t.op \in {"var", "mono"} /\ t.a \notin fixed'
                   THEN [x \in {t.a} |-> IF t.op = "var" THEN 1 ELSE t.c]
                   ELSE <<>>
    BY <1>4 DEF Start
  <2>2. LeafIs(Root) /\ IsLeaf(t)
    BY <1>1, <1>2, <1>4 DEF ValuesOK, IsExpression
  <2>3. \A x \in Var : slope[Root][x] = LeafSlope(t, x)
    BY <2>2 DEF LeafIs
  <2>4. heap'[Root'] = t /\ slope'[Root'] = slope[Root]
    BY <1>1, <1>2
  <2> HIDE DEF t
  <2>5. ASSUME NEW x \in Var
        PROVE  IF x \in DOMAIN diff' THEN diff'[x] = slope[Root][x]
               ELSE slope[Root][x] = 0 \/ (IsLeaf(t) /\ x \in fixed')
    <3>1. CASE t.op \in {"var", "mono"} /\ t.a \notin fixed'
      <4>1. diff' = [y \in {t.a} |-> IF t.op = "var" THEN 1 ELSE t.c]
        BY <2>1, <3>1
      <4>2. CASE x = t.a
        BY <2>3, <3>1, <4>1, <4>2 DEF LeafSlope
      <4>3. CASE x # t.a
        <5>1. x \notin DOMAIN diff' /\ slope[Root][x] = 0
          BY <2>3, <4>1, <4>3 DEF LeafSlope
        <5>2. QED
          BY <5>1
      <4>4. QED
        BY <4>2, <4>3
    <3>2. CASE ~(t.op \in {"var", "mono"} /\ t.a \notin fixed')
      <4>1. diff' = <<>>
        BY <2>1, <3>2
      <4>2. x \notin DOMAIN diff'
        BY <4>1
      <4>3. slope[Root][x] = 0 \/ x \in fixed'
        BY <2>3, <3>2 DEF LeafSlope
      <4>4. QED
        BY <2>2, <4>2, <4>3
    <3>3. QED
      BY <3>1, <3>2
  <2>6. Derivative'
    BY <2>4, <2>5 DEF Derivative
  <2>7. QED
    BY <2>1, <2>6 DEF SweptReach, PartialOK, FlowOK, DiffExact, Regular
<1>5. QED
  BY <1>3, <1>4

LEMMA CountKeepsDiff ==
    ASSUME DiffInv, Count
    PROVE  SweptReach' /\ PartialOK' /\ FlowOK' /\ DiffExact'
<1>1. /\ HeapOK /\ LoopsOK /\ CountOK /\ phase = "count" /\ queue # <<>> /\ phase' = "count"
      /\ heap' = heap /\ val' = val /\ slope' = slope /\ DOMAIN D \subseteq Reach
  BY DEF Count, DiffInv, IInv, SweptReach, client
<1>2. DOMAIN D' = DOMAIN D \cup ToSet(Args(Last(queue)))
  BY DEF Count
<1>3. Last(queue) \in Found /\ Found \subseteq DOMAIN D
  <2>1. queue \in Seq(Found) /\ Injective(queue)
    BY <1>1 DEF LoopsOK
  <2>2. Found \subseteq DOMAIN D
    BY <1>1 DEF CountOK, Found
  <2>3. QED
    BY <1>1, <2>1, <2>2, TakenOff
<1>4. Reach' = Reach /\ ClosedBelow(Reach)
  BY <1>1, SameValues, ReachFacts
<1>5. ToSet(Args(Last(queue))) \subseteq Reach
  BY <1>1, <1>3, <1>4 DEF ClosedBelow, ToSet
<1>6. QED
  BY <1>1, <1>2, <1>4, <1>5 DEF SweptReach, PartialOK, FlowOK, DiffExact, Regular

LEMMA FlowNext ==
    ASSUME Places' = Places
    PROVE  \A x, f : f = Flow(x)' =>
              /\ SumOver(Flow(x), Places)' = SumOver(f, Places)
              /\ \A j \in Places :
                    f[j] = IF j \in DOMAIN partial' /\ Open(j)'
                           THEN partial'[j] * (slope'[j][x] - Swept(j, x)') ELSE 0
<1> SUFFICES ASSUME NEW x, NEW f, f = Flow(x)'
             PROVE  /\ SumOver(Flow(x), Places)' = SumOver(f, Places)
                    /\ \A j \in Places :
                          f[j] = IF j \in DOMAIN partial' /\ Open(j)'
                                 THEN partial'[j] * (slope'[j][x] - Swept(j, x)') ELSE 0
  OBVIOUS
<1>1. SumOver(Flow(x), Places)' = SumOver(f, Places)
  BY DEF SumOver, FoldOver
<1>2. f = [j \in Places |->
             IF j \in DOMAIN partial' /\ Open(j)'
             THEN partial'[j] * (slope'[j][x] - Swept(j, x)') ELSE 0]
  BY DEF Flow
<1>3. QED
  BY <1>1, <1>2

LEMMA NothingSwept ==
    /\ \A f : Total(f, 0) = 0
    /\ nth' = 1 => \A j, x : Swept(j, x)' = 0
    /\ queue = <<>> => \A j, x : Swept(j, x) = 0
<1>1. ASSUME NEW f PROVE Total(f, 0) = 0
  <2>1. \A k \in 1..0 : f[k] \in Field
    OBVIOUS
  <2>2. QED
    BY <2>1, TotalSteps
<1>2. ASSUME nth' = 1 PROVE \A j, x : Swept(j, x)' = 0
  <2>1. nth' - 1 = 0
    BY <1>2
  <2>2. QED
    BY <1>1, <2>1, SweptNext
<1>3. QED
  BY <1>1, <1>2 DEF Swept

LEMMA CountedKeepsDiff ==
    ASSUME DiffInv, Counted
    PROVE  SweptReach' /\ PartialOK' /\ FlowOK' /\ DiffExact'
<1>1. /\ HeapOK /\ LoopsOK /\ CountOK /\ phase = "count" /\ queue = <<>> /\ phase' = "sweep"
      /\ heap' = heap /\ val' = val /\ slope' = slope /\ DOMAIN D \subseteq Reach
      /\ D' = D /\ queue' = <<Root>> /\ partial' = [i \in {Root} |-> 1] /\ nth' = nth /\ nth = 1
      /\ ValuesOK
  BY DEF Counted, DiffInv, IInv, SweptReach, CountOK, client
<1>2. /\ Root' = Root /\ Places' = Places /\ Root \in Places /\ Root \in Reach
      /\ Reach' = Reach /\ (Regular' <=> Regular) /\ (SharedMonomial' <=> SharedMonomial)
      /\ IsFiniteSet(Places) /\ (\A j : IsExpression(j)' <=> IsExpression(j))
  <2>1. IsFiniteSet(Places)
    BY <1>1, HeapFacts, FS_Interval DEF Places
  <2>2. QED
    BY <1>1, <2>1, SameHeap, SameValues, ReachFacts
<1>3. /\ IsExpression(Root) /\ DOMAIN D = {Root} \cup {j \in Places : Uses(Expanded, j) # {}}
      /\ \A j \in DOMAIN D : D[j] = Cardinality(Uses(Expanded, j))
  BY <1>1 DEF LoopsOK, CountOK
<1>4. DOMAIN partial' = {Root} /\ partial'[Root] = 1 /\ heap[Root].op # "mono"
  BY <1>1, <1>3 DEF IsExpression, IsLeaf
<1>5. ASSUME NEW j \in DOMAIN D PROVE j = Root \/ D[j] # 0
  <2> SUFFICES ASSUME j # Root PROVE D[j] # 0
    OBVIOUS
  <2>1. Uses(Expanded, j) # {} /\ D[j] = Cardinality(Uses(Expanded, j))
    BY <1>3
  <2>2. Expanded \in SUBSET Places
    <3>1. Expanded \subseteq Found /\ Found \subseteq DOMAIN D /\ DOMAIN D \subseteq Places
      BY <1>1, <1>2, <1>3 DEF Expanded, Found, CountOK
    <3>2. QED
      BY <3>1
  <2>3. IsFiniteSet(Uses(Expanded, j))
    BY <1>1, <2>2, UsesFinite
  <2>4. QED
    BY <2>1, <2>3, FS_EmptySet
<1>6. PartialOK'
  <2>1. \A j \in DOMAIN D' : j \in DOMAIN partial' \/ D'[j] # 0
    BY <1>1, <1>4, <1>5
  <2>2. \A j \in DOMAIN partial' : j \in DOMAIN D'
    BY <1>1, <1>3, <1>4
  <2>3. \A m \in DOMAIN D' \cap DOMAIN partial' : heap'[m].op # "mono"
    BY <1>1, <1>4
  <2>4. QED
    BY <2>1, <2>2, <2>3 DEF PartialOK
<1>7. ASSUME Regular, NEW x \in Var
      PROVE  Cong(SumOver(Flow(x), Places)', slope[Root][x])
  <2>1. PICK f : f = Flow(x)'
    OBVIOUS
  <2>2. /\ SumOver(Flow(x), Places)' = SumOver(f, Places)
        /\ \A j \in Places : f[j] = IF j \in DOMAIN partial' /\ Open(j)'
                                    THEN partial'[j] * (slope'[j][x] - Swept(j, x)') ELSE 0
    BY <1>2, <2>1, FlowNext
  <2>3. slope[Root][x] \in Field
    BY <1>1, <1>2, <1>7, ReachRule DEF Differentiated
  <2>4. slope[Root][x] \in Int
    BY <2>3, PrimeFacts
  <2>5. PICK r : r = Root
    OBVIOUS
  <2>6. r \in Places /\ r \in DOMAIN partial' /\ Open(r)' /\ partial'[r] = 1 /\ Swept(r, x)' = 0
    <3>1. r \in DOMAIN D' /\ r \in ToSet(queue') /\ IsExpression(r)'
      BY <1>1, <1>2, <1>3, <2>5 DEF ToSet
    <3>2. QED
      BY <1>1, <1>2, <1>4, <2>5, <3>1, NothingSwept DEF Open
  <2>7. f[r] = slope[r][x]
    <3>1. f[r] = 1 * (slope[r][x] - 0)
      BY <1>1, <2>2, <2>6
    <3>2. QED
      BY <2>4, <2>5, <3>1
  <2>8. \A j \in Places \ {r} : f[j] = 0
    BY <1>4, <2>2, <2>5
  <2>9. Numbers(f, Places)
    BY <1>2, <2>4, <2>5, <2>7, <2>8 DEF Numbers
  <2>10. Neutral("+") = 0
    BY DEF Neutral
  <2>11. SumOver(f, Places) = f[r]
    BY <2>6, <2>8, <2>9, <2>10, FoldOfOne DEF SumOver
  <2>12. QED
    BY <2>2, <2>4, <2>5, <2>7, <2>11, CongRules
<1>8. FlowOK'
  <2>1. \A j \in DOMAIN partial' : partial'[j] \in Field
    BY <1>4, PrimeFacts
  <2>2. ASSUME Regular, NEW x \in Var
        PROVE  Cong(SumOver(Flow(x), Places), slope[Root][x])'
    <3>1. slope'[Root'][x] = slope[Root][x]
      BY <1>1, <1>2
    <3>2. QED
      BY <1>7, <2>2, <3>1 DEF Cong
  <2>3. QED
    BY <1>2, <2>1, <2>2 DEF FlowOK
<1>9. QED
  BY <1>1, <1>2, <1>6, <1>8 DEF SweptReach, DiffExact, Regular

(* A variable has one place, which is the one its monomials pass to.       *)
LEMMA VariablePlace ==
    ASSUME HeapOK, NEW j \in Places, heap[j].op = "var", NEW x, heap[j] = VarTerm(x)
    PROVE  PlaceOf(x) = j
<1>1. ~IsExpression(j)
  BY DEF IsExpression, IsLeaf
<1>2. j \in 1..Len(Leaves) /\ Leaves[j] = VarTerm(x) /\ Leaves[j].op = "var"
  <2>1. Places = 1..Root /\ Root \in Nat /\ Len(Leaves) \in Nat /\ ~(j > Len(Leaves))
    BY <1>1, HeapFacts DEF HeapOK, Places
  <2>2. j \in 1..Len(Leaves)
    BY <2>1
  <2>3. QED
    BY <2>2 DEF HeapOK
<1>3. \A k \in 1..Len(Leaves) : Leaves[k] = Leaves[j] => k = j
  BY <1>2, DiffBounds
<1>4. QED
  BY <1>2, <1>3 DEF PlaceOf

LEMMA MonomialPlace ==
    ASSUME HeapOK, NEW m \in Places, heap[m].op = "mono"
    PROVE  LET j == PlaceOf(heap[m].a)
           IN  j \in Places /\ ~IsExpression(j) /\ heap[j] = VarTerm(heap[m].a)
<1>1. PlaceOf(heap[m].a) \in Places /\ ~IsExpression(PlaceOf(heap[m].a))
  BY PlaceOfVariable
<1>2. ~IsExpression(m)
  BY DEF IsExpression, IsLeaf
<1>3. /\ m \in 1..Len(Leaves) /\ heap[m] = Leaves[m]
      /\ PlaceOf(heap[m].a) \in 1..Len(Leaves)
  <2>1. Places = 1..Root /\ Root \in Nat /\ Len(Leaves) \in Nat
    BY HeapFacts DEF Places
  <2>2. \A k \in Places : ~IsExpression(k) => k \in 1..Len(Leaves)
    BY <2>1 DEF HeapOK
  <2>3. QED
    BY <1>1, <1>2, <2>2 DEF HeapOK
<1>4. VarTerm(heap[m].a) \in ToSet(Leaves)
  BY <1>3, DiffBounds
<1>5. \E k \in 1..Len(Leaves) : Leaves[k] = VarTerm(heap[m].a)
  BY <1>4, LeavesTyped DEF ToSet
<1>6. Leaves[PlaceOf(heap[m].a)] = VarTerm(heap[m].a)
  BY <1>5 DEF PlaceOf
<1>7. QED
  BY <1>1, <1>3, <1>6 DEF HeapOK

LEMMA FinishKeepsDiff ==
    ASSUME DiffInv, Finish
    PROVE  SweptReach' /\ PartialOK' /\ FlowOK' /\ DiffExact'
<1>1. /\ HeapOK /\ LoopsOK /\ SweepOK /\ phase = "sweep" /\ queue = <<>> /\ phase' = "done"
      /\ heap' = heap /\ val' = val /\ slope' = slope /\ D' = D /\ ValuesOK
      /\ diff' = [x \in Variables |->
                    IF PlaceOf(x) \in DOMAIN partial THEN partial[PlaceOf(x)] ELSE Undef]
  BY DEF Finish, DiffInv, IInv, client
<1> SUFFICES ASSUME Regular', ~SharedMonomial' PROVE Derivative'
  BY <1>1 DEF SweptReach, PartialOK, FlowOK, DiffExact, Regular
<1>2. /\ Root' = Root /\ Root \in Places /\ Root \in Reach /\ Regular /\ ~SharedMonomial
      /\ IsFiniteSet(Places) /\ (\A j : IsExpression(j)' <=> IsExpression(j))
  <2>1. IsFiniteSet(Places)
    BY <1>1, HeapFacts, FS_Interval DEF Places
  <2>2. QED
    BY <1>1, <2>1, SameHeap, SameValues, ReachFacts
<1>3. \A j \in DOMAIN D : D[j] = 0 /\ j \in Places
  <2>1. DoneOK'
    BY FinishKeepsInv DEF DiffInv, IInv
  <2>2. IsExpression(Root)'
    BY <1>1, <1>2 DEF LoopsOK, IsExpression
  <2>3. QED
    BY <1>1, <2>1, <2>2 DEF DoneOK, SweepOK
<1>4. /\ \A j \in DOMAIN D : j \in DOMAIN partial
      /\ \A j \in DOMAIN partial :
            j \in DOMAIN D \/ \E m \in DOMAIN D : heap[m].op = "mono" /\ j = PlaceOf(heap[m].a)
      /\ \A m \in DOMAIN D : heap[m].op = "mono" => PlaceOf(heap[m].a) \in DOMAIN partial
      /\ \A x \in Var : /\ \A j \in DOMAIN partial : partial[j] \in Field
                        /\ Cong(SumOver(Flow(x), Places), slope[Root][x])
  BY <1>1, <1>2, <1>3 DEF DiffInv, PartialOK, FlowOK
<1>5. ASSUME NEW j \in Places, ~IsExpression(j) PROVE LeafIs(j)
  BY <1>1, <1>5 DEF ValuesOK
<1>6. ASSUME NEW x \in Var
      PROVE  IF x \in DOMAIN diff' THEN diff'[x] = slope[Root][x] ELSE slope[Root][x] = 0
  <2> DEFINE y == PlaceOf(x)
             f == Flow(x)
             passed == y \in DOMAIN partial /\ y \in Places /\ heap[y] = VarTerm(x)
             total == SumOver(f, Places)
  <2>1. slope[Root][x] \in Field /\ Cong(total, slope[Root][x]) /\ Neutral("+") = 0
    BY <1>1, <1>2, <1>4, <1>6, ReachRule DEF Differentiated, Neutral
  <2>2. x \in Variables <=> passed
    <3>1. ASSUME NEW j \in DOMAIN D, heap[j].op \in {"var", "mono"}, heap[j].a = x PROVE passed
      <4>1. j \in Places /\ ~IsExpression(j) /\ j \in DOMAIN partial
        BY <1>3, <1>4, <3>1 DEF IsExpression, IsLeaf
      <4>2. CASE heap[j].op = "var"
        <5>1. heap[j] = VarTerm(x)
          BY <1>5, <3>1, <4>1, <4>2 DEF LeafIs, LeafOK
        <5>2. y = j
          BY <1>1, <4>1, <4>2, <5>1, VariablePlace
        <5>3. QED
          BY <4>1, <5>1, <5>2
      <4>3. CASE heap[j].op = "mono"
        BY <1>1, <1>4, <3>1, <4>1, <4>3, MonomialPlace
      <4>4. QED
        BY <3>1, <4>2, <4>3
    <3>2. ASSUME passed PROVE \E j \in DOMAIN D : heap[j].op \in {"var", "mono"} /\ heap[j].a = x
      <4>1. heap[y].op = "var" /\ heap[y].a = x
        BY <3>2 DEF VarTerm
      <4>2. CASE y \in DOMAIN D
        BY <4>1, <4>2
      <4>3. ASSUME NEW m \in DOMAIN D, heap[m].op = "mono", y = PlaceOf(heap[m].a)
            PROVE  heap[m].a = x
        <5>1. heap[y] = VarTerm(heap[m].a)
          BY <1>1, <1>3, <4>3, MonomialPlace
        <5>2. QED
          BY <4>1, <5>1 DEF VarTerm
      <4>4. QED
        BY <1>4, <3>2, <4>2, <4>3
    <3>3. QED
      BY <3>1, <3>2 DEF Variables
  <2>3. ASSUME NEW j \in Places, j # y \/ ~passed
        PROVE  f[j] = 0
    <3> SUFFICES ASSUME j \in DOMAIN partial, Open(j) PROVE f[j] = 0
      BY DEF Flow
    <3>1. f[j] = partial[j] * (slope[j][x] - 0)
      BY <1>1, NothingSwept DEF Flow
    <3>2. ~IsExpression(j) /\ heap[j].op # "mono"
      <4>1. ToSet(queue) = {}
        BY <1>1 DEF ToSet
      <4>2. QED
        BY <1>3, <4>1 DEF Open, IsExpression, IsLeaf
    <3>3. LeafIs(j)
      BY <1>5, <3>2
    <3>4. ~(heap[j].op = "var" /\ heap[j].a = x)
      <4> SUFFICES ASSUME heap[j].op = "var", heap[j].a = x PROVE FALSE
        OBVIOUS
      <4>1. heap[j] = VarTerm(x)
        BY <3>3 DEF LeafIs, LeafOK
      <4>2. y = j
        BY <1>1, <4>1, VariablePlace
      <4>3. QED
        BY <2>3, <4>1, <4>2
    <3>5. slope[j][x] = 0
      BY <1>6, <3>2, <3>3, <3>4 DEF LeafIs, LeafSlope
    <3>6. partial[j] \in Int
      BY <1>4, PrimeFacts
    <3>7. QED
      BY <3>1, <3>5, <3>6
  <2>4. CASE passed
    <3>1. ~IsExpression(y) /\ heap[y].op = "var" /\ heap[y].a = x
      BY <2>4 DEF VarTerm, IsExpression, IsLeaf
    <3>2. slope[y][x] = 1 /\ partial[y] \in Field /\ Open(y)
      BY <1>4, <1>5, <1>6, <2>4, <3>1 DEF LeafIs, LeafSlope, Open
    <3>3. partial[y] \in Int
      BY <3>2, PrimeFacts
    <3>4. f[y] = partial[y]
      <4>1. f[y] = partial[y] * (1 - 0)
        BY <1>1, <2>4, <3>2, NothingSwept DEF Flow
      <4>2. QED
        BY <3>3, <4>1
    <3> HIDE DEF f, y
    <3>5. Numbers(f, Places)
      <4>1. \A j \in Places : f[j] \in Int
        BY <2>3, <3>3, <3>4
      <4>2. QED
        BY <1>2, <4>1 DEF Numbers
    <3>6. total = partial[y]
      BY <2>1, <2>3, <2>4, <3>4, <3>5, FoldOfOne DEF SumOver
    <3>7. partial[y] = slope[Root][x]
      BY <2>1, <3>2, <3>3, <3>6, CongField
    <3>8. QED
      BY <1>1, <2>2, <2>4, <3>7 DEF y
  <2>5. CASE ~passed
    <3>1. x \notin DOMAIN diff'
      BY <1>1, <2>2, <2>5
    <3>2. \A j \in Places : f[j] = Neutral("+")
      BY <2>1, <2>3, <2>5
    <3>3. total = 0
      <4> HIDE DEF f
      <4>1. QED
        BY <1>2, <2>1, <3>2, FoldOfNone DEF SumOver
    <3>4. 0 = slope[Root][x]
      <4> DEFINE d == slope[Root][x]
      <4>1. d \in Field /\ Cong(0, d) /\ 0 \in Field /\ 0 \in Int
        BY <2>1, <3>3, PrimeFacts
      <4> HIDE DEF d
      <4>2. 0 = d
        BY ONLY <4>1, CongField
      <4>3. QED
        BY <4>2 DEF d
    <3>5. QED
      BY <3>1, <3>4
  <2>6. QED
    BY <2>4, <2>5
<1>7. QED
  BY <1>1, <1>2, <1>6 DEF Derivative

(* What the use that is swept passes on, and to whom.                      *)
Target(child) == IF heap[child].op = "mono" THEN PlaceOf(heap[child].a) ELSE child

Amount(child, n) == IF heap[child].op = "mono" THEN FMul(heap[child].c, n) ELSE n

(* Where the sweep is: a term of the expression, whose partial is there.   *)
LEMMA SweepPlace ==
    ASSUME DiffInv, SweepArgument
    PROVE  LET i == Head(queue)
               child == Args(i)[nth]
           IN  /\ i \in Reach /\ i \in Places /\ i \in Found /\ i \in DOMAIN D /\ IsExpression(i)
               /\ i \in ToSet(queue) /\ D[i] = 0 /\ nth \in DOMAIN Args(i)
               /\ child \in Places /\ child # i /\ child \in DOMAIN D /\ D[child] # 0
               /\ DOMAIN Args(i) = 1..Len(Args(i)) /\ Len(Args(i)) \in Nat
               /\ DOMAIN D \subseteq Places /\ Found \subseteq DOMAIN D
               /\ (\A j \in DOMAIN D : IsExpression(j) => j \in Found)
               /\ \A j \in Found : IsExpression(j)
<1> DEFINE i == Head(queue)
<1>1. HeapOK /\ LoopsOK /\ SweepOK /\ phase = "sweep" /\ queue # <<>> /\ IInv
      /\ DOMAIN D \subseteq Reach
  BY DEF DiffInv, IInv, SweepArgument, SweptReach
<1>2. /\ DOMAIN D \subseteq Places /\ Found \subseteq DOMAIN D /\ \A j \in ToSet(queue) : D[j] = 0
      /\ \A j \in DOMAIN D : IsExpression(j) => j \in Found
      /\ queue \in Seq(Found) /\ Injective(queue) /\ \A j \in Found : IsExpression(j)
  BY <1>1 DEF SweepOK, LoopsOK, Found
<1>3. i \in Found /\ i \in ToSet(queue)
  BY <1>1, <1>2, TakenOff
<1>4. /\ DOMAIN Args(i) = 1..Len(Args(i)) /\ nth \in DOMAIN Args(i)
      /\ Len(Args(i)) \in Nat /\ Args(i)[nth] \in Places /\ Args(i)[nth] # i
      /\ Args(i)[nth] \in DOMAIN D /\ D[Args(i)[nth]] # 0
  <2>1. D[Args(i)[nth]] \in Nat /\ D[Args(i)[nth]] >= 1
    BY <1>1, SweptArgument
  <2>2. QED
    BY <1>1, <2>1, SweptArgument
<1> HIDE DEF i
<1>5. QED
  BY <1>1, <1>2, <1>3, <1>4 DEF i

(* A monomial that no two terms share is swept once.                       *)
LEMMA MonomialOnce ==
    ASSUME DiffInv, SweepArgument, ~SharedMonomial,
           heap[Args(Head(queue))[nth]].op = "mono"
    PROVE  /\ D[Args(Head(queue))[nth]] = 1
           /\ Args(Head(queue))[nth] \notin DOMAIN partial
<1>1. PICK i, child : i = Head(queue) /\ child = Args(i)[nth]
  OBVIOUS
<1>2. HeapOK /\ SweepOK /\ phase = "sweep" /\ IInv /\ DOMAIN D \subseteq Reach
  BY DEF DiffInv, IInv, SweepArgument, SweptReach
<1>3. /\ child \in DOMAIN D /\ D[child] # 0 /\ <<i, nth>> \in Pending(child)
      /\ D[child] = Cardinality(Pending(child)) /\ Found \subseteq Reach
  BY <1>1, <1>2, SweepPlace, SweptArgument DEF SweepOK
<1>4. \A u \in Pending(child) : u = <<i, nth>>
  <2> SUFFICES ASSUME NEW u \in Pending(child), u # <<i, nth>> PROVE FALSE
    OBVIOUS
  <2>1. ASSUME NEW v \in Pending(child)
        PROVE  v = <<v[1], v[2]>> /\ v[1] \in Reach /\ v[2] \in DOMAIN Args(v[1]) /\ Args(v[1])[v[2]] = child
    BY <1>3, <2>1 DEF Pending, Uses
  <2>2. PICK a, k : u = <<a, k>> /\ a \in Reach /\ k \in DOMAIN Args(a) /\ Args(a)[k] = child
    BY <2>1
  <2>3. i \in Reach /\ nth \in DOMAIN Args(i) /\ Args(i)[nth] = child
    BY <1>3, <2>1
  <2>4. SharedMonomial
    <3>1. <<a, k>> # <<i, nth>> /\ heap[Args(a)[k]].op = "mono"
      BY <1>1, <2>2
    <3>2. QED
      BY <2>2, <2>3, <3>1 DEF SharedMonomial
  <2>5. QED
    BY <2>4
<1>5. Pending(child) = {<<i, nth>>}
  BY <1>3, <1>4
<1>6. D[child] = 1
  BY <1>3, <1>5, FS_Singleton
<1>7. child \notin DOMAIN partial
  BY <1>1, <1>2, <1>3 DEF DiffInv, PartialOK
<1>8. QED
  BY <1>1, <1>6, <1>7

LEMMA PartialStep ==
    ASSUME DiffInv, SweepArgument, ~SharedMonomial, NEW i, NEW child, NEW n, NEW t,
           i = Head(queue), child = Args(i)[nth], n = FMul(partial[i], Partial(i, nth)),
           t = Target(child)
    PROVE  /\ t \in Places /\ t # i /\ heap[t].op # "mono" /\ (t # child => ~IsExpression(t))
           /\ heap[child].op = "mono" => /\ heap[t] = VarTerm(heap[child].a) /\ t # child
                                         /\ partial'[child] = n
           /\ heap[child].op # "mono" => t = child
           /\ DOMAIN partial' = DOMAIN partial \cup {child, t}
           /\ partial'[t] = IF t \in DOMAIN partial THEN FAdd(partial[t], Amount(child, n))
                            ELSE Amount(child, n)
           /\ \A j \in DOMAIN partial : j \notin {child, t} => partial'[j] = partial[j]
<1>1. /\ i \in Places /\ IsExpression(i) /\ child \in Places /\ child # i /\ HeapOK
  BY SweepPlace DEF DiffInv, IInv
<1>2. partial' = Passed(Added(partial, child, n), child)
  BY DEF SweepArgument
<1>3. CASE heap[child].op # "mono"
  <2>1. t = child /\ Amount(child, n) = n /\ partial' = Added(partial, child, n)
    BY <1>2, <1>3 DEF Target, Amount, Passed
  <2>2. QED
    BY <1>1, <1>3, <2>1 DEF Added, Put
<1>4. CASE heap[child].op = "mono"
  <2>1. t = PlaceOf(heap[child].a) /\ Amount(child, n) = FMul(heap[child].c, n)
    BY <1>4 DEF Target, Amount
  <2>2. t \in Places /\ ~IsExpression(t) /\ heap[t] = VarTerm(heap[child].a)
    BY <1>1, <1>4, <2>1, MonomialPlace
  <2>3. heap[t].op = "var" /\ t # child /\ t # i
    BY <1>1, <1>4, <2>2 DEF VarTerm
  <2>4. child \notin DOMAIN partial
    BY <1>4, MonomialOnce
  <2>5. PICK f : f = Added(partial, child, n)
    OBVIOUS
  <2>6. DOMAIN f = {child} \cup DOMAIN partial /\ f[child] = n
        /\ \A j \in DOMAIN partial : f[j] = partial[j]
    BY <2>4, <2>5 DEF Added, Put
  <2>7. partial' = Added(f, t, FMul(heap[child].c, f[child]))
    BY <1>2, <1>4, <2>1, <2>5 DEF Passed
  <2>8. /\ DOMAIN partial' = {t} \cup DOMAIN f
        /\ partial'[t] = IF t \in DOMAIN f THEN FAdd(f[t], FMul(heap[child].c, f[child]))
                         ELSE FMul(heap[child].c, f[child])
        /\ \A j \in DOMAIN f : j # t => partial'[j] = f[j]
    BY <2>7 DEF Added, Put
  <2>9. t \in DOMAIN f <=> t \in DOMAIN partial
    BY <2>3, <2>6
  <2>10. partial'[child] = n
    BY <2>3, <2>6, <2>8
  <2>11. partial'[t] = IF t \in DOMAIN partial THEN FAdd(partial[t], Amount(child, n))
                       ELSE Amount(child, n)
    BY <2>1, <2>6, <2>8, <2>9
  <2>12. \A j \in DOMAIN partial : j \notin {child, t} => partial'[j] = partial[j]
    BY <2>6, <2>8
  <2>13. QED
    BY <1>4, <2>2, <2>3, <2>6, <2>8, <2>10, <2>11, <2>12
<1>5. QED
  BY <1>3, <1>4

LEMMA SweepKeepsPartial ==
    ASSUME DiffInv, SweepArgument
    PROVE  SweptReach' /\ PartialOK'
<1>1. PICK i, child, t, n : /\ i = Head(queue) /\ child = Args(i)[nth] /\ t = Target(child)
                            /\ n = FMul(partial[i], Partial(i, nth))
  OBVIOUS
<1>2. /\ heap' = heap /\ val' = val /\ slope' = slope /\ phase = "sweep" /\ phase' = "sweep"
      /\ DOMAIN D \subseteq Reach
  BY DEF DiffInv, SweepArgument, SweptReach, client
<1>3. Reach' = Reach /\ (SharedMonomial' <=> SharedMonomial)
  BY <1>2, SameValues
<1>4. /\ DOMAIN D' = DOMAIN D /\ D'[child] = D[child] - 1 /\ child \in DOMAIN D
      /\ \A j \in DOMAIN D : j # child => D'[j] = D[j]
  BY <1>1, QueueStep, SweepPlace DEF DiffInv
<1>5. ASSUME ~SharedMonomial PROVE PartialOK'
  <2>1. /\ heap[t].op # "mono"
        /\ heap[child].op = "mono" => t = PlaceOf(heap[child].a) /\ t # child
        /\ heap[child].op # "mono" => t = child
        /\ DOMAIN partial' = DOMAIN partial \cup {child, t}
    BY <1>1, <1>5, PartialStep DEF Target
  <2>2. heap[child].op = "mono" => D'[child] = 0
    BY <1>1, <1>4, <1>5, MonomialOnce
  <2>3. /\ \A j \in DOMAIN D : j \in DOMAIN partial \/ D[j] # 0
        /\ \A j \in DOMAIN partial :
              j \in DOMAIN D \/ \E m \in DOMAIN D : heap[m].op = "mono" /\ j = PlaceOf(heap[m].a)
        /\ \A m \in DOMAIN D \cap DOMAIN partial :
              heap[m].op = "mono" => PlaceOf(heap[m].a) \in DOMAIN partial /\ D[m] = 0
    BY <1>2, <1>5 DEF DiffInv, PartialOK
  <2>4. \A j \in DOMAIN D' : j \in DOMAIN partial' \/ D'[j] # 0
    BY <1>4, <2>1, <2>3
  <2>5. \A j \in DOMAIN partial' :
          j \in DOMAIN D' \/ \E m \in DOMAIN D' : heap[m].op = "mono" /\ j = PlaceOf(heap[m].a)
    BY <1>4, <2>1, <2>3
  <2>6. ASSUME NEW m \in DOMAIN D' \cap DOMAIN partial', heap[m].op = "mono"
        PROVE  PlaceOf(heap[m].a) \in DOMAIN partial' /\ D'[m] = 0
    <3>1. CASE m = child
      BY <2>1, <2>2, <2>6, <3>1
    <3>2. CASE m # child
      <4>1. m # t
        BY <2>1, <2>6
      <4>2. m \in DOMAIN D \cap DOMAIN partial
        BY <1>4, <2>1, <2>6, <3>2, <4>1
      <4>3. QED
        BY <1>4, <2>1, <2>3, <2>6, <3>2, <4>2
    <3>3. QED
      BY <3>1, <3>2
  <2>7. QED
    BY <1>2, <2>4, <2>5, <2>6 DEF PartialOK
<1>6. QED
  BY <1>2, <1>3, <1>4, <1>5 DEF SweptReach, PartialOK

(* Two of the terms of a sum change, and what they come to does not.       *)
LEMMA TwoChange ==
    ASSUME NEW S, NEW f, NEW g, Numbers(f, S), Numbers(g, S), NEW i \in S, NEW t \in S, i # t,
           \A j \in S : j \notin {i, t} => g[j] = f[j],
           Cong(g[i] + g[t], f[i] + f[t])
    PROVE  Cong(SumOver(g, S), SumOver(f, S))
<1> DEFINE Rest(h) == SumOver(h, (S \ {i}) \ {t})
<1>1. ASSUME NEW h, Numbers(h, S)
      PROVE  /\ Rest(h) \in Int /\ h[i] \in Int /\ h[t] \in Int
             /\ SumOver(h, S) = h[i] + (h[t] + Rest(h))
  <2>1. Numbers(h, S \ {i}) /\ Numbers(h, (S \ {i}) \ {t})
    BY <1>1, FS_Subset DEF Numbers
  <2>2. SumOver(h, S) = Combine("+", h[i], SumOver(h, S \ {i}))
    BY <1>1, FoldStep DEF SumOver
  <2>3. SumOver(h, S \ {i}) = Combine("+", h[t], Rest(h))
    BY <2>1, FoldStep DEF SumOver
  <2>4. Rest(h) \in Int /\ h[i] \in Int /\ h[t] \in Int
    BY <1>1, <2>1, FoldType DEF SumOver, Numbers
  <2>5. QED
    BY <2>2, <2>3, <2>4 DEF Combine
<1>2. Rest(g) = Rest(f)
  <2>1. Numbers(f, (S \ {i}) \ {t})
    BY FS_Subset DEF Numbers
  <2>2. \A j \in (S \ {i}) \ {t} : g[j] = f[j]
    OBVIOUS
  <2>3. QED
    BY <2>1, <2>2, FoldSame DEF SumOver
<1>3. /\ Rest(f) \in Int /\ f[i] \in Int /\ f[t] \in Int /\ g[i] \in Int /\ g[t] \in Int
      /\ SumOver(f, S) = f[i] + (f[t] + Rest(f)) /\ SumOver(g, S) = g[i] + (g[t] + Rest(f))
  BY <1>1, <1>2
<1> DEFINE r == Rest(f)
<1>4. /\ r \in Int /\ g[i] + g[t] \in Int /\ f[i] + f[t] \in Int
      /\ SumOver(f, S) = (f[i] + f[t]) + r /\ SumOver(g, S) = (g[i] + g[t]) + r
  <2> HIDE DEF Rest
  <2>1. QED
    BY <1>3
<1> HIDE DEF r
<1>5. Cong(r, r)
  BY <1>4, CongRules
<1>6. Cong((g[i] + g[t]) + r, (f[i] + f[t]) + r)
  BY ONLY <1>4, <1>5, Cong(g[i] + g[t], f[i] + f[t]), CongSum
<1>7. QED
  BY <1>4, <1>6

(* What a term passes for one argument is what it has less to pass.        *)
LEMMA PassedOn ==
    ASSUME NEW q \in Int, NEW d \in Int, NEW a \in Int, NEW b \in Int, NEW s \in Int,
           NEW f \in Int, NEW g \in Int, NEW m \in Int,
           Cong(b, a + s), Cong(g, f + m), Cong(m, q * s)
    PROVE  Cong(q * (d - b) + g, q * (d - a) + f)
<1>1. /\ q * b \in Int /\ q * a \in Int /\ q * s \in Int /\ q * d \in Int /\ a + s \in Int
      /\ q * (a + s) \in Int
  OBVIOUS
<1>2. /\ q * (d - b) = q * d - q * b /\ q * (d - a) = q * d - q * a
      /\ q * (a + s) = q * a + q * s
  OBVIOUS
<1>3. Cong(q * b, q * (a + s))
  BY ONLY <1>1, q \in Int, b \in Int, Cong(b, a + s), CongTimes
<1>4. PICK x, y, z, w, e : x = q * b /\ y = q * a /\ z = q * s /\ w = q * d /\ e = q * (a + s)
  OBVIOUS
<1>5. /\ x \in Int /\ y \in Int /\ z \in Int /\ w \in Int /\ e = y + z
      /\ q * (d - b) = w - x /\ q * (d - a) = w - y
      /\ Cong(x, e) /\ Cong(m, z)
  BY <1>1, <1>2, <1>3, <1>4
<1>6. Cong((w - x) + g, (w - y) + f)
  <2>1. f + m \in Int /\ f + z \in Int /\ y + z \in Int /\ w - x \in Int /\ w - (y + z) \in Int
        /\ (w - x) + g \in Int /\ (w - (y + z)) + (f + z) = (w - y) + f
    BY <1>5
  <2>2. Cong(w, w) /\ Cong(f, f)
    BY <1>5, CongRules
  <2>3. Cong(w - x, w - (y + z))
    BY ONLY <1>5, <2>1, <2>2, CongSum
  <2>4. Cong(f + m, f + z)
    BY ONLY <1>5, <2>2, f \in Int, m \in Int, CongSum
  <2>5. Cong(g, f + z)
    BY ONLY <2>1, <2>4, g \in Int, Cong(g, f + m), CongChain
  <2>6. Cong((w - x) + g, (w - (y + z)) + (f + z))
    BY ONLY <2>1, <2>3, <2>5, g \in Int, CongSum
  <2>7. QED
    BY <2>1, <2>6
<1>7. QED
  BY <1>5, <1>6

(* The amount a variable gets from a monomial, or an argument directly.    *)
LEMMA AmountRule ==
    ASSUME NEW child \in Places, NEW t \in Places, LeafIs(child) \/ heap[child].op # "mono",
           heap[child].op = "mono" => LeafIs(t) /\ heap[t] = VarTerm(heap[child].a),
           heap[child].op # "mono" => t = child,
           NEW x \in Var, NEW q \in Field, NEW p \in Field,
           slope[child][x] \in Field, slope[t][x] \in Field
    PROVE  /\ FMul(q, p) \in Field /\ Amount(child, FMul(q, p)) \in Field
           /\ Cong(Amount(child, FMul(q, p)) * slope[t][x], q * FMul(p, slope[child][x]))
<1> DEFINE n == FMul(q, p)
           d == slope[child][x]
           e == slope[t][x]
           w == FMul(p, d)
<1>1. n \in Field /\ Cong(n, q * p) /\ w \in Field /\ Cong(w, p * d)
  BY FieldOps
<1>2. q \in Int /\ p \in Int /\ d \in Int /\ e \in Int
  BY PrimeFacts
<1> HIDE DEF n, w
<1>3. n \in Int /\ w \in Int
  BY <1>1, PrimeFacts
<1>4. Cong(n * d, q * w)
  <2> HIDE DEF d
  <2>1. n * d \in Int /\ q * w \in Int /\ (q * p) * d \in Int /\ q * (p * d) \in Int /\ q * p \in Int
        /\ p * d \in Int /\ (q * p) * d = q * (p * d)
    BY <1>2, <1>3
  <2>2. Cong(n * d, (q * p) * d)
    BY ONLY <1>1, <1>2, <1>3, <2>1, CongTimes
  <2>3. Cong(q * w, q * (p * d))
    BY ONLY <1>1, <1>2, <1>3, <2>1, CongTimes
  <2>4. Cong(n * d, q * (p * d))
    BY <2>1, <2>2
  <2>5. QED
    BY ONLY <2>1, <2>3, <2>4, CongChain
<1>5. CASE heap[child].op # "mono"
  <2>1. Amount(child, n) = n /\ e = d
    BY <1>5 DEF Amount
  <2>2. QED
    BY <1>1, <1>4, <2>1 DEF n, w
<1>6. CASE heap[child].op = "mono"
  <2> DEFINE c == heap[child].c
             m == FMul(c, n)
  <2>1. Amount(child, n) = m /\ c \in Field
    BY <1>6 DEF Amount, LeafIs, LeafOK
  <2>2. m \in Field /\ Cong(m, c * n)
    BY <1>1, <2>1, FieldOps
  <2>3. c \in Int /\ m \in Int
    BY <2>1, <2>2, PrimeFacts
  <2>4. IF x = heap[child].a THEN d = c /\ e = 1 ELSE d = 0 /\ e = 0
    <3>1. d = LeafSlope(heap[child], x) /\ e = LeafSlope(VarTerm(heap[child].a), x)
      BY <1>6 DEF LeafIs
    <3>2. QED
      BY <1>6, <3>1 DEF LeafSlope, VarTerm
  <2> HIDE DEF m, c, d, e
  <2>5. Cong(m * e, n * d)
    <3>1. CASE x = heap[child].a
      <4>1. m * e = m /\ n * d = c * n
        BY <1>3, <2>3, <2>4, <3>1
      <4>2. QED
        BY <2>2, <4>1
    <3>2. CASE x # heap[child].a
      <4>1. m * e = 0 /\ n * d = 0 /\ 0 \in Int
        BY <1>3, <2>3, <2>4, <3>2
      <4>2. Cong(0, 0)
        BY <4>1, CongRules
      <4>3. QED
        BY <4>1, <4>2
    <3>3. QED
      BY <3>1, <3>2
  <2>6. m * e \in Int /\ n * d \in Int /\ q * w \in Int
    BY <1>2, <1>3, <2>3
  <2>7. Cong(m * e, q * w)
    BY ONLY <1>4, <2>5, <2>6, CongChain
  <2>8. QED
    BY <1>1, <2>1, <2>2, <2>7 DEF n, w, d, e
<1>7. QED
  BY <1>5, <1>6

(* What each term has left to pass, after the step.                        *)
LEMMA OpenNext ==
    ASSUME DiffInv, SweepArgument, NEW j \in Places, j # Head(queue) \/ nth # Len(Args(Head(queue)))
    PROVE  Open(j)' <=> Open(j)
<1>1. heap' = heap /\ HeapOK
  BY DEF SweepArgument, DiffInv, IInv, client
<1>2. heap'[j] = heap[j] /\ (IsExpression(j)' <=> IsExpression(j))
  BY <1>1, SameHeap
<1>3. CASE ~IsExpression(j)
  BY <1>2, <1>3 DEF Open
<1>4. CASE IsExpression(j)
  <2>1. DOMAIN D' = DOMAIN D
        /\ \A a \in Found :
              a # Head(queue) \/ nth # Len(Args(Head(queue))) =>
                  ((D'[a] # 0 \/ a \in ToSet(queue')) <=> (D[a] # 0 \/ a \in ToSet(queue)))
    BY QueueStep DEF DiffInv
  <2>2. j \in DOMAIN D => j \in Found
    BY <1>4, SweepPlace
  <2>3. QED
    BY <1>2, <1>4, <2>1, <2>2 DEF Open
<1>5. QED
  BY <1>3, <1>4

LEMMA SweptMoved ==
    ASSUME DiffInv, SweepArgument, Regular, NEW x, NEW i, i = Head(queue)
    PROVE  /\ \A j : j # i => Swept(j, x) = 0 /\ Swept(j, x)' = 0
           /\ Swept(i, x) = Total(Shares(i, x), nth - 1)
           /\ Open(i) /\ (Open(i)' <=> nth # Len(Args(i)))
           /\ nth # Len(Args(i)) => Swept(i, x)' = Total(Shares(i, x), nth)
<1>1. i = Head(queue)
  OBVIOUS
<1> DEFINE atLast == nth = Len(Args(i))
<1>2. /\ heap' = heap /\ val' = val /\ slope' = slope /\ queue # <<>> /\ ValuesOK /\ IInv
  BY DEF SweepArgument, DiffInv, IInv, client
<1>3. /\ i \in Reach /\ i \in Places /\ IsExpression(i) /\ i \in ToSet(queue) /\ i \in DOMAIN D
      /\ i \in Found /\ nth \in 1..Len(Args(i))
  BY <1>1, SweepPlace
<1>4. /\ nth' = IF atLast THEN 1 ELSE nth + 1
      /\ ~atLast => Head(queue') = i /\ queue' # <<>> /\ i \in ToSet(queue')
      /\ D'[i] = 0 /\ (atLast => i \notin ToSet(queue')) /\ DOMAIN D' = DOMAIN D
  BY <1>1, <1>2, QueueStep
<1>5. ASSUME NEW j, j # i PROVE Swept(j, x) = 0 /\ Swept(j, x)' = 0
  <2>1. Swept(j, x) = 0
    BY <1>1, <1>5 DEF Swept
  <2>2. CASE atLast
    BY <1>4, <2>1, <2>2, NothingSwept
  <2>3. CASE ~atLast
    BY <1>4, <1>5, <2>1, <2>3, SweptNext
  <2>4. QED
    BY <2>2, <2>3
<1>6. Swept(i, x) = Total(Shares(i, x), nth - 1)
  BY <1>1, <1>2 DEF Swept
<1>7. Open(i) /\ (Open(i)' <=> ~atLast)
  <2>1. IsExpression(i)' <=> IsExpression(i)
    BY <1>2, SameHeap
  <2>2. QED
    BY <1>3, <1>4, <2>1 DEF Open
<1>8. Shares(i, x)' = Shares(i, x)
  <2>1. Args(i)' = Args(i) /\ heap[i].op # "abs"
    BY <1>2, <1>3, SameHeap DEF Regular, Smooth
  <2>2. \A k \in DOMAIN Args(i) : Partial(i, k)' = Partial(i, k)
    BY <1>2, <1>3, <2>1, SameValues
  <2>3. QED
    BY <1>2, <2>1, <2>2 DEF Shares
<1>9. ASSUME ~atLast PROVE Swept(i, x)' = Total(Shares(i, x), nth)
  <2>1. nth' - 1 = nth
    BY <1>3, <1>4, <1>9
  <2>2. Swept(i, x)' = Total(Shares(i, x)', nth' - 1)
    BY <1>4, <1>9, SweptNext
  <2>3. QED
    BY <1>8, <2>1, <2>2
<1>10. QED
  BY <1>1, <1>5, <1>6, <1>7, <1>9

LEMMA FlowStep ==
    ASSUME DiffInv, SweepArgument, Regular, ~SharedMonomial, NEW x \in Var
    PROVE  /\ \A j \in DOMAIN partial' : partial'[j] \in Field
           /\ Cong(SumOver(Flow(x), Places)', SumOver(Flow(x), Places))
           /\ Places' = Places
<1>1. PICK i, child, t, p, q, n : /\ i = Head(queue) /\ child = Args(i)[nth] /\ t = Target(child)
                                  /\ p = Partial(i, nth) /\ q = partial[i] /\ n = FMul(q, p)
  OBVIOUS
<1> DEFINE atLast == nth = Len(Args(i))
<1>2. /\ heap' = heap /\ val' = val /\ slope' = slope /\ phase = "sweep" /\ HeapOK /\ ValuesOK
  BY DEF SweepArgument, DiffInv, IInv, client
<1>3. /\ i \in Reach /\ i \in Places /\ IsExpression(i) /\ i \in DOMAIN D /\ D[i] = 0
      /\ nth \in DOMAIN Args(i) /\ child \in Places /\ child # i /\ child \in DOMAIN D
      /\ D[child] # 0 /\ DOMAIN Args(i) = 1..Len(Args(i)) /\ Len(Args(i)) \in Nat
  BY <1>1, SweepPlace
<1>4. /\ Places' = Places /\ ClosedBelow(Reach) /\ Reach \subseteq Places /\ IsFiniteSet(Places)
  <2>1. IsFiniteSet(Places)
    BY <1>2, HeapFacts, FS_Interval DEF Places
  <2>2. QED
    BY <1>2, <2>1, SameHeap, ReachFacts
<1>5. i \in DOMAIN partial /\ \A j \in DOMAIN partial : partial[j] \in Field
  BY <1>2, <1>3 DEF DiffInv, PartialOK, FlowOK
<1>6. /\ t \in Places /\ t # i /\ heap[t].op # "mono" /\ (t # child => ~IsExpression(t))
      /\ heap[child].op = "mono" => heap[t] = VarTerm(heap[child].a) /\ t # child /\ partial'[child] = n
      /\ heap[child].op # "mono" => t = child
      /\ DOMAIN partial' = DOMAIN partial \cup {child, t}
      /\ partial'[t] = IF t \in DOMAIN partial THEN FAdd(partial[t], Amount(child, n)) ELSE Amount(child, n)
      /\ \A j \in DOMAIN partial : j \notin {child, t} => partial'[j] = partial[j]
  <2>1. n = FMul(partial[i], Partial(i, nth))
    BY <1>1
  <2>2. QED
    BY ONLY DiffInv, SweepArgument, ~SharedMonomial, <1>1, <2>1, PartialStep
<1>7. ASSUME NEW j \in Places PROVE IF IsExpression(j) THEN NodeIs(j) ELSE LeafIs(j)
  BY <1>2 DEF ValuesOK
(* The derivatives and the partial of what is swept.                       *)
<1>8. /\ p \in Field /\ slope[i][x] \in Field /\ slope[child][x] \in Field
      /\ slope[i][x] = Total(Shares(i, x), Len(Args(i)))
      /\ \A k \in 1..Len(Args(i)) : Shares(i, x)[k] \in Field
      /\ Shares(i, x)[nth] = FMul(p, slope[child][x])
  <2>1. \A j \in Reach : Differentiated(j, x)
    BY <1>2, ReachRule
  <2>2. RuleHolds(i, x) /\ slope[i][x] \in Field
    BY <1>3, <2>1 DEF Differentiated
  <2>3. ASSUME NEW k \in DOMAIN Args(i)
        PROVE  Shares(i, x)[k] = FMul(Partial(i, k), slope[Args(i)[k]][x])
               /\ Partial(i, k) \in Field /\ slope[Args(i)[k]][x] \in Field
    <3>1. Args(i)[k] \in Reach
      BY <1>3, <1>4 DEF ClosedBelow
    <3>2. QED
      BY <2>1, <2>2, <3>1 DEF Differentiated, RuleHolds, Shares
  <2>4. \A k \in DOMAIN Args(i) : Shares(i, x)[k] \in Field
    BY <2>3, FieldOps
  <2>5. QED
    BY <1>1, <1>3, <2>2, <2>3, <2>4 DEF RuleHolds
<1>9. slope[t][x] \in Field
  <2>1. CASE t = child
    BY <1>8, <2>1
  <2>2. CASE t # child
    BY <1>6, <1>7, <2>2, LeafRule
  <2>3. QED
    BY <2>1, <2>2
<1> DEFINE a == Amount(child, n)
           s == Shares(i, x)[nth]
           b == Total(Shares(i, x), nth - 1)
           c == Total(Shares(i, x), nth)
           d == slope[i][x]
           e == slope[t][x]
<1>10. n \in Field /\ a \in Field /\ Cong(a * e, q * s)
  <2>1. LeafIs(child) \/ heap[child].op # "mono"
    BY <1>3, <1>7 DEF IsExpression, IsLeaf
  <2>2. heap[child].op = "mono" => LeafIs(t) /\ heap[t] = VarTerm(heap[child].a)
    BY <1>6, <1>7
  <2>3. q \in Field
    BY <1>1, <1>5
  <2>4. QED
    BY ONLY <1>1, <1>3, <1>6, <1>8, <1>9, <2>1, <2>2, <2>3, x \in Var, AmountRule
<1>11. ASSUME NEW j \in DOMAIN partial' PROVE partial'[j] \in Field
  <2>1. partial'[t] \in Field
    <3>1. a \in Field
      BY <1>10
    <3>2. ASSUME t \in DOMAIN partial PROVE FAdd(partial[t], a) \in Field
      <4>1. partial[t] \in Field
        BY <1>5, <3>2
      <4> HIDE DEF a
      <4>2. QED
        BY ONLY <3>1, <4>1, FieldOps
    <3>3. partial'[t] = IF t \in DOMAIN partial THEN FAdd(partial[t], a) ELSE a
      BY <1>6
    <3> HIDE DEF a
    <3>4. QED
      BY ONLY <3>1, <3>2, <3>3
  <2>2. CASE j = child
    BY <1>6, <1>10, <2>1, <2>2
  <2>3. CASE j # child /\ j # t
    BY <1>5, <1>6, <1>11, <2>3
  <2>4. QED
    BY <2>1, <2>2, <2>3
<1>12. b \in Field /\ c \in Field /\ Cong(c, b + s) /\ (atLast => c = d)
  <2>1. Len(Args(i)) \in Nat /\ nth \in 1..Len(Args(i)) /\ nth - 1 \in 0..Len(Args(i))
        /\ nth \in 0..Len(Args(i))
    BY <1>3
  <2>2. b \in Field /\ c \in Field /\ c = FAdd(b, s)
    BY <1>8, <2>1, TotalSteps
  <2>3. s \in Field
    BY <1>3, <1>8
  <2>4. Cong(c, b + s)
    <3> HIDE DEF b, c, s
    <3>1. QED
      BY <2>2, <2>3, FieldOps
  <2>5. QED
    BY <1>8, <2>2, <2>4
<1>13. PICK f, g : f = Flow(x) /\ g = Flow(x)'
  OBVIOUS
<1>14. \A j \in Places :
          /\ f[j] = IF j \in DOMAIN partial /\ Open(j) THEN partial[j] * (slope[j][x] - Swept(j, x)) ELSE 0
          /\ g[j] = IF j \in DOMAIN partial' /\ Open(j)' THEN partial'[j] * (slope[j][x] - Swept(j, x)') ELSE 0
  <2>1. \A j \in Places :
          f[j] = IF j \in DOMAIN partial /\ Open(j) THEN partial[j] * (slope[j][x] - Swept(j, x)) ELSE 0
    BY <1>13 DEF Flow
  <2>2. QED
    BY <1>2, <1>4, <1>13, <2>1, FlowNext
<1>15. /\ \A j : j # i => Swept(j, x) = 0 /\ Swept(j, x)' = 0
       /\ Swept(i, x) = b /\ Open(i) /\ (Open(i)' <=> ~atLast)
       /\ ~atLast => Swept(i, x)' = c
  BY <1>1, SweptMoved
<1>16. \A j \in Places : j # i \/ ~atLast => (Open(j)' <=> Open(j))
  BY <1>1, OpenNext
<1>17. d \in Int /\ e \in Int /\ q \in Int /\ s \in Int /\ b \in Int /\ c \in Int /\ a \in Int
  <2>1. s \in Field /\ q \in Field
    BY <1>1, <1>3, <1>5, <1>8
  <2>2. QED
    BY <1>8, <1>9, <1>10, <1>12, <2>1, PrimeFacts
<1> HIDE DEF a, s, b, c, d, e
(* The term that is swept ...                                              *)
<1>18. f[i] = q * (d - b) /\ g[i] = q * (d - c)
  <2>1. f[i] = q * (d - b)
    BY <1>1, <1>3, <1>5, <1>14, <1>15 DEF d
  <2>2. i \in DOMAIN partial' /\ partial'[i] = q
    BY <1>1, <1>3, <1>5, <1>6
  <2>3. CASE ~atLast
    BY <1>3, <1>14, <1>15, <2>1, <2>2, <2>3 DEF d
  <2>4. CASE atLast
    <3>1. g[i] = 0
      BY <1>3, <1>14, <1>15, <2>4
    <3>2. d - c = 0
      BY <1>12, <1>17, <2>4
    <3>3. QED
      BY <1>17, <2>1, <3>1, <3>2
  <2>5. QED
    BY <2>3, <2>4
(* ... what gets the partial ...                                           *)
<1>19. f[t] \in Int /\ g[t] \in Int /\ Cong(g[t], f[t] + a * e)
  <2>1. Open(t) /\ Open(t)'
    <3>1. Open(t)
      BY <1>3, <1>6 DEF Open
    <3>2. QED
      BY <1>6, <1>16, <3>1
  <2>2. t \in DOMAIN partial' /\ g[t] = partial'[t] * (e - 0)
        /\ f[t] = IF t \in DOMAIN partial THEN partial[t] * (e - 0) ELSE 0
    BY <1>6, <1>14, <1>15, <2>1 DEF e
  <2>3. CASE t \in DOMAIN partial
    <3>1. PICK u, v : u = partial[t] /\ v = FAdd(partial[t], a)
      OBVIOUS
    <3>2. u \in Field /\ v \in Field /\ Cong(v, u + a)
      BY <1>5, <1>10, <2>3, <3>1, FieldOps DEF a
    <3>3. u \in Int /\ v \in Int
      BY <3>2, PrimeFacts
    <3>4. f[t] = u * e /\ g[t] = v * e
      BY <1>6, <1>17, <2>2, <2>3, <3>1, <3>3 DEF a
    <3>5. Cong(v * e, (u + a) * e)
      <4>1. u + a \in Int
        BY <1>17, <3>3
      <4>2. QED
        BY ONLY <1>17, <3>2, <3>3, <4>1, CongTimes
    <3>6. (u + a) * e = u * e + a * e /\ u * e \in Int /\ v * e \in Int
      BY <1>17, <3>3
    <3>7. QED
      BY <3>4, <3>5, <3>6
  <2>4. CASE t \notin DOMAIN partial
    <3>1. f[t] = 0 /\ g[t] = a * (e - 0)
      BY <1>6, <2>2, <2>4 DEF a
    <3>2. a * e \in Int /\ a * (e - 0) = a * e /\ 0 + a * e = a * e /\ 0 \in Int
      BY <1>17
    <3>3. Cong(a * e, a * e)
      BY ONLY <3>2, CongRules
    <3>4. QED
      BY <3>1, <3>2, <3>3
  <2>5. QED
    BY <2>3, <2>4
(* ... and the others.                                                     *)
<1>20. \A j \in Places : j \notin {i, t} => g[j] = f[j]
  <2> SUFFICES ASSUME NEW j \in Places, j # i, j # t PROVE g[j] = f[j]
    OBVIOUS
  <2>1. (Open(j)' <=> Open(j)) /\ Swept(j, x) = 0 /\ Swept(j, x)' = 0
    BY <1>15, <1>16
  <2>2. CASE j = child
    <3>1. ~Open(j)
      BY <1>6, <2>2 DEF Open, IsExpression, IsLeaf
    <3>2. QED
      BY <1>14, <2>1, <3>1
  <2>3. CASE j # child
    <3>1. (j \in DOMAIN partial' <=> j \in DOMAIN partial)
          /\ (j \in DOMAIN partial => partial'[j] = partial[j])
      BY <1>6, <2>3
    <3>2. QED
      BY <1>14, <2>1, <3>1
  <2>4. QED
    BY <2>2, <2>3
<1>21. f[i] \in Int /\ g[i] \in Int /\ Cong(g[i] + g[t], f[i] + f[t])
  <2>1. Cong(q * (d - c) + g[t], q * (d - b) + f[t])
    <3>1. a * e \in Int
      BY <1>17
    <3>2. QED
      BY ONLY <1>10, <1>12, <1>17, <1>19, <3>1, PassedOn
  <2>2. QED
    BY <1>17, <1>18, <2>1
<1>22. Numbers(f, Places) /\ Numbers(g, Places)
  <2>1. ASSUME NEW j \in Places, j # i, j # t PROVE f[j] \in Int
    <3>1. CASE j \in DOMAIN partial /\ Open(j)
      <4>1. j \in DOMAIN D \/ ~IsExpression(j)
        BY <3>1 DEF Open
      <4>2. slope[j][x] \in Field
        <5>1. CASE IsExpression(j)
          <6>1. j \in Reach
            BY <1>2, <4>1, <5>1 DEF DiffInv, SweptReach
          <6>2. QED
            BY <1>2, <6>1, ReachRule DEF Differentiated
        <5>2. CASE ~IsExpression(j)
          BY <1>7, <5>2, LeafRule
        <5>3. QED
          BY <5>1, <5>2
      <4>3. partial[j] \in Int /\ slope[j][x] \in Int /\ Swept(j, x) = 0
        BY <1>5, <1>15, <2>1, <3>1, <4>2, PrimeFacts
      <4>4. QED
        BY <1>14, <3>1, <4>3
    <3>2. CASE ~(j \in DOMAIN partial /\ Open(j))
      BY <1>14, <3>2
    <3>3. QED
      BY <3>1, <3>2
  <2>2. \A j \in Places : f[j] \in Int /\ g[j] \in Int
    BY <1>19, <1>20, <1>21, <2>1
  <2>3. QED
    BY <1>4, <2>2 DEF Numbers
<1>23. Cong(SumOver(g, Places), SumOver(f, Places))
  BY ONLY <1>3, <1>6, <1>20, <1>21, <1>22, TwoChange
<1>24. SumOver(Flow(x), Places)' = SumOver(g, Places)
  BY <1>4, <1>13, FlowNext
<1>25. QED
  BY <1>4, <1>11, <1>13, <1>23, <1>24

LEMMA SweepKeepsFlow ==
    ASSUME DiffInv, SweepArgument
    PROVE  FlowOK' /\ DiffExact'
<1>1. /\ heap' = heap /\ val' = val /\ slope' = slope /\ phase = "sweep" /\ phase' = "sweep"
  BY DEF SweepArgument, client
<1>2. /\ Root' = Root /\ Places' = Places
      /\ (Regular' <=> Regular) /\ (SharedMonomial' <=> SharedMonomial)
  BY <1>1, SameHeap, SameValues
<1>3. ASSUME Regular, ~SharedMonomial, NEW x \in Var
      PROVE  /\ \A j \in DOMAIN partial' : partial'[j] \in Field
             /\ Cong(SumOver(Flow(x), Places)', slope[Root][x])
  <2>1. /\ \A j \in DOMAIN partial' : partial'[j] \in Field
        /\ Cong(SumOver(Flow(x), Places)', SumOver(Flow(x), Places))
    BY <1>3, FlowStep
  <2>2. Cong(SumOver(Flow(x), Places), slope[Root][x])
    BY <1>1, <1>3 DEF DiffInv, FlowOK
  <2>3. slope[Root][x] \in Field
    BY <1>3, ReachRule, ReachFacts DEF DiffInv, IInv, Differentiated
  <2>4. PICK a, b, c : a = SumOver(Flow(x), Places)' /\ b = SumOver(Flow(x), Places) /\ c = slope[Root][x]
    OBVIOUS
  <2>5. Cong(a, b) /\ Cong(b, c) /\ c \in Int
    BY <2>1, <2>2, <2>3, <2>4, PrimeFacts
  <2>6. b \in Int /\ a \in Int
    <3>1. PICK k \in Int : b = c + k * Prime
      BY <2>5 DEF Cong
    <3>2. PICK l \in Int : a = b + l * Prime
      BY <2>5 DEF Cong
    <3>3. b \in Int
      BY <2>5, <3>1, PrimeFacts
    <3>4. QED
      BY <3>2, <3>3, PrimeFacts
  <2>7. Cong(a, c)
    BY ONLY <2>5, <2>6, CongChain
  <2>8. QED
    BY <2>1, <2>4, <2>7
<1>4. FlowOK'
  <2>1. ASSUME Regular, ~SharedMonomial, NEW x \in Var
        PROVE  /\ \A j \in DOMAIN partial' : partial'[j] \in Field
               /\ Cong(SumOver(Flow(x), Places), slope[Root][x])'
    <3>1. slope'[Root'][x] = slope[Root][x]
      BY <1>1, <1>2
    <3>2. QED
      BY <1>3, <2>1, <3>1 DEF Cong
  <2>2. QED
    BY <1>1, <1>2, <2>1 DEF FlowOK
<1>5. QED
  BY <1>1, <1>4 DEF DiffExact, Regular

LEMMA StepKeepsDiff ==
    ASSUME DiffInv, [Next]_vars
    PROVE  DiffInv'
<1>1. IInv' /\ ValuesOK'
  BY StepInv, StepKeepsValues DEF DiffInv
<1>2. SweptReach' /\ PartialOK' /\ FlowOK' /\ DiffExact'
  <2>1. CASE Build \/ UNCHANGED vars
    BY <2>1, QuietSteps
  <2>2. CASE Start
    BY <2>2, StartKeepsDiff
  <2>3. CASE Count
    BY <2>3, CountKeepsDiff
  <2>4. CASE Counted
    BY <2>4, CountedKeepsDiff
  <2>5. CASE SweepArgument
    BY <2>5, SweepKeepsPartial, SweepKeepsFlow
  <2>6. CASE Finish
    BY <2>6, FinishKeepsDiff
  <2>7. QED
    BY <2>1, <2>2, <2>3, <2>4, <2>5, <2>6 DEF Next
<1>3. QED
  BY <1>1, <1>2 DEF DiffInv

(* diff() answers with the derivative: for every variable the value of the *)
(* partial the sweep has added up is what the forward rules give, for      *)
(* every expression a client can make, whatever the values of functions    *)
(* and however it shares its terms, where no rule divides by zero, none of *)
(* the three mistabled functions is used, and no monomial twice.           *)
THEOREM DiffIsExact == Spec => []DiffExact
<1>1. Init => DiffInv
  <2> SUFFICES ASSUME Init PROVE DiffInv
    OBVIOUS
  <2>1. phase = "build"
    BY DEF Init
  <2>2. QED
    BY <2>1, InitInv, InitValues DEF DiffInv, SweptReach, PartialOK, FlowOK, DiffExact, Regular
<1>2. DiffInv /\ [Next]_vars => DiffInv'
  BY StepKeepsDiff
<1>3. DiffInv => DiffExact
  BY DEF DiffInv
<1>4. QED
  BY <1>1, <1>2, <1>3, PTL DEF Spec
=============================================================================
