---------------------------- MODULE SymbolicDiff ----------------------------
(***************************************************************************)
(* symbolic_diff_all() (visitor_symdiff.cpp): the derivatives of an        *)
(* expression by a reverse sweep over its terms in topological order.      *)
(*                                                                         *)
(* A client that keeps its expressions uses one term in several others, so *)
(* here an expression is a graph: heap[i] is a term and its arguments are  *)
(* earlier places of the heap.  A partial derivative, an expression in the *)
(* code, is its value at the point the client will evaluate it.            *)
(***************************************************************************)
EXTENDS Terms, Ranks

CONSTANTS
    Leaves,     \* the terms without arguments, the places 1..Len(Leaves)
    Operators,  \* those of Operations that the client uses
    Fun, Ln10,  \* the values of the intrinsic functions, and log(10.0)
    Points,     \* the values of parameters and variables to check with
    MaxTerms    \* bound: operators in an expression

FunctionNames ==
    {"exp", "log", "log10", "sqrt", "sin", "cos", "tan", "sinh", "cosh", "tanh",
     "asin", "acos", "atan", "asinh", "acosh", "atanh"}

(* "abs" stands for abs, ceil and floor, and Fn for their values.          *)
Unary == {"-", "abs"} \cup FunctionNames
Operations == {"+", "*", "/", "^"} \cup Unary

LeafType ==
    {Zero, One} \cup {Num(n) : n \in Field} \cup {Par(p) : p \in Param}
    \cup {VarTerm(x) : x \in Var} \cup {Monomial(c, x) : c \in Field, x \in Var}

(* A variable is one object, whoever uses it.                              *)
ASSUME DiffBounds ==
    /\ MaxTerms \in Nat
    /\ Operators \subseteq Operations
    /\ Fun \in [FunctionNames -> [Field -> Field]] /\ Ln10 \in Field
    /\ Points \subseteq [Param \cup Var -> Field]
    /\ Leaves \in Seq(LeafType) /\ Leaves # <<>>
    /\ \A i \in 1..Len(Leaves) :
        /\ Leaves[i].op = "mono" => VarTerm(Leaves[i].a) \in ToSet(Leaves)
        /\ Leaves[i].op = "var" => \A j \in 1..Len(Leaves) : Leaves[j] = Leaves[i] => j = i

VARIABLES
    heap,
    val,        \* by place, the value of the term at the point
    slope,      \* and, to compare with, its derivatives by the forward rules
    fixed,      \* the fixed variables, once the call looks
    phase,      \* "build", "count", "sweep" or "done"
    D,          \* in-degree: how many uses of a term are still to be swept
    seen,
    queue,      \* of both loops
    nth,        \* the argument of Head(queue) that is swept next
    last,       \* PartialData::partial, kept from one term to the next
    partial,    \* by place, and by variable for those inside monomials
    diff        \* the result, by variable

vars == <<heap, val, slope, fixed, phase, D, seen, queue, nth, last, partial, diff>>
client == <<heap, val, slope, fixed>>

Root == Len(heap)
Places == 1..Root
Args(i) == IF IsLeaf(heap[i]) THEN <<>> ELSE heap[i].args
IsExpression(i) == ~IsLeaf(heap[i])

(* The VariableTerm of a monomial.                                         *)
PlaceOf(x) == CHOOSE i \in 1..Len(Leaves) : Leaves[i] = VarTerm(x)

LeafValue(t, at) ==
    CASE t.op = "num" -> t.n
      [] t.op \in {"par", "var"} -> at[t.a]
      [] OTHER -> FMul(t.c, at[t.a])

(* The sum of the first n of f, from the left.                             *)
Total(f, n) ==
    LET upto[k \in 0..n] == IF k = 0 THEN 0 ELSE FAdd(upto[k - 1], f[k])
    IN  upto[n]

Apply(g, n) == IF n = Undef THEN Undef ELSE Fun[g][n]

NodeValue(op, args) ==
    LET arg(k) == val[args[k]]
    IN  CASE op = "-" -> FNeg(arg(1))
          [] op = "+" -> Total([k \in DOMAIN args |-> arg(k)], Len(args))
          [] op = "*" -> FMul(arg(1), arg(2))
          [] op = "/" -> FDiv(arg(1), arg(2))
          [] op = "^" -> FPow(arg(1), arg(2))
          [] op \in FunctionNames -> Apply(op, arg(1))
          [] OTHER -> FFn(arg(1))

LeafSlope(t, x) ==
    CASE t.op = "var" /\ t.a = x -> 1
      [] t.op = "mono" /\ t.a = x -> t.c
      [] OTHER -> 0

Squared(n) == FMul(n, n)
Inverted(n) == FDiv(1, n)
Minus(m, n) == FAdd(m, FNeg(n))

(* To compare with, the derivatives of the textbooks.                      *)
Rule(g, u) ==
    CASE g = "exp" -> Apply("exp", u)
      [] g = "log" -> Inverted(u)
      [] g = "log10" -> Inverted(FMul(Ln10, u))
      [] g = "sqrt" -> Inverted(FAdd(Apply("sqrt", u), Apply("sqrt", u)))
      [] g = "sin" -> Apply("cos", u)
      [] g = "cos" -> FNeg(Apply("sin", u))
      [] g = "tan" -> Inverted(Squared(Apply("cos", u)))
      [] g = "sinh" -> Apply("cosh", u)
      [] g = "cosh" -> Apply("sinh", u)
      [] g = "tanh" -> Minus(1, Squared(Apply("tanh", u)))
      [] g = "asin" -> Inverted(Apply("sqrt", Minus(1, Squared(u))))
      [] g = "acos" -> FNeg(Inverted(Apply("sqrt", Minus(1, Squared(u)))))
      [] g = "atan" -> Inverted(FAdd(1, Squared(u)))
      [] g = "asinh" -> Inverted(Apply("sqrt", FAdd(1, Squared(u))))
      [] g = "acosh" -> Inverted(Apply("sqrt", Minus(Squared(u), 1)))
      [] g = "atanh" -> Inverted(Minus(1, Squared(u)))

NodeSlope(op, args, x) ==
    LET u(k) == val[args[k]]
        d(k) == slope[args[k]][x]
    IN  CASE op = "-" -> FNeg(d(1))
          [] op = "+" -> Total([k \in DOMAIN args |-> d(k)], Len(args))
          [] op = "*" -> FAdd(FMul(d(1), u(2)), FMul(u(1), d(2)))
          [] op = "/" ->
                FDiv(FAdd(FMul(d(1), u(2)), FNeg(FMul(u(1), d(2)))), FMul(u(2), u(2)))
          [] op = "^" ->
                FAdd(FMul(FMul(u(2), FPow(u(1), FAdd(u(2), FNeg(1)))), d(1)),
                     FMul(FMul(Apply("log", u(1)), FPow(u(1), u(2))), d(2)))
          [] op \in FunctionNames -> FMul(Rule(op, u(1)), d(1))
          [] OTHER -> Undef         \* abs, ceil and floor have no rule

-----------------------------------------------------------------------------
(* The table of the code: a square root has pow(u, -0.5), here the inverse *)
(* of the root, and tanh and atanh are as they stand there.                *)
FunctionPartial(g, u) ==
    CASE g = "exp" -> Apply("exp", u)
      [] g = "log" -> Inverted(u)
      [] g = "log10" -> Inverted(FMul(Ln10, u))
      [] g = "sqrt" -> Inverted(Apply("sqrt", u))
      [] g = "sin" -> Apply("cos", u)
      [] g = "cos" -> FNeg(Apply("sin", u))
      [] g = "tan" -> Inverted(Squared(Apply("cos", u)))
      [] g = "sinh" -> Apply("cosh", u)
      [] g = "cosh" -> Apply("sinh", u)
      [] g = "tanh" -> Minus(1, Squared(Apply("tan", u)))
      [] g = "asin" -> Inverted(Apply("sqrt", Minus(1, Squared(u))))
      [] g = "acos" -> FNeg(Inverted(Apply("sqrt", Minus(1, Squared(u)))))
      [] g = "atan" -> Inverted(FAdd(1, Squared(u)))
      [] g = "asinh" -> Inverted(Apply("sqrt", FAdd(1, Squared(u))))
      [] g = "acosh" -> Inverted(Apply("sqrt", Minus(Squared(u), 1)))
      [] g = "atanh" -> Inverted(Minus(Squared(u), 1))

(* compute_partial(): d heap[i] / d argument k.  Nothing is written for    *)
(* abs, ceil and floor, so that the partial of the term before is read.    *)
Partial(i, k) ==
    LET arg(j) == val[heap[i].args[j]]
    IN  CASE heap[i].op = "+" -> 1
          [] heap[i].op = "-" -> FNeg(1)
          [] heap[i].op = "*" -> arg(3 - k)
          [] heap[i].op = "/" /\ k = 1 -> FDiv(1, arg(2))
          [] heap[i].op = "/" /\ k = 2 -> FDiv(FNeg(arg(1)), FMul(arg(2), arg(2)))
          [] heap[i].op = "^" /\ k = 1 -> FMul(arg(2), FPow(arg(1), FAdd(arg(2), FNeg(1))))
          [] heap[i].op = "^" /\ k = 2 -> FMul(Apply("log", arg(1)), val[i])
          [] heap[i].op \in FunctionNames -> FunctionPartial(heap[i].op, arg(1))
          [] OTHER -> last

Put(f, x, n) == [y \in {x} \cup DOMAIN f |-> IF y = x THEN n ELSE f[y]]

(* Mutant: sums forget what another parent contributed.                    *)
AddedOnce(f, x, n) == Put(f, x, n)

(* partial[x] = plus_(partial[x], n), or n when there is none yet.         *)
Added(f, x, n) == Put(f, x, IF x \in DOMAIN f THEN FAdd(f[x], n) ELSE n)

(* The variable of a monomial gets the partial the monomial has by now.    *)
Passed(f, i) ==
    IF heap[i].op = "mono" THEN Added(f, PlaceOf(heap[i].a), FMul(heap[i].c, f[i])) ELSE f

-----------------------------------------------------------------------------
Init ==
    /\ heap = Leaves
    /\ val \in {[i \in 1..Len(Leaves) |-> LeafValue(Leaves[i], at)] : at \in Points}
    /\ slope = [i \in 1..Len(Leaves) |-> [x \in Var |-> LeafSlope(Leaves[i], x)]]
    /\ fixed = {}
    /\ phase = "build"
    /\ D = <<>> /\ seen = {} /\ queue = <<>> /\ nth = 1
    /\ last = Undef /\ partial = <<>> /\ diff = <<>>

Sweep == <<D, seen, queue, nth, last, partial, diff>>

(* The client makes another expression, of the one it made before.  A sum  *)
(* takes over the terms of the sum it is added to.                         *)
Build ==
    /\ phase = "build"
    /\ Root < Len(Leaves) + MaxTerms
    /\ \E op \in Operators, l, r \in Places :
        LET args == CASE op \in Unary -> <<l>>
                      [] op = "+" /\ heap[l].op = "+" -> Append(heap[l].args, r)
                      [] OTHER -> <<l, r>>
        IN  /\ Root > Len(Leaves) => Root \in {l, r}
            /\ op \in Unary => l = r
            /\ heap' = Append(heap, Node(op, args))
            /\ val' = Append(val, NodeValue(op, args))
            /\ slope' = Append(slope, [x \in Var |-> NodeSlope(op, args, x)])
    /\ UNCHANGED <<fixed, phase, Sweep>>

(* diff(): a leaf is answered at once, anything else is counted first.     *)
Start ==
    /\ phase = "build"
    /\ IF IsExpression(Root)
       THEN /\ phase' = "count"
            /\ D' = [i \in {Root} |-> 0]
            /\ queue' = <<Root>>
            /\ UNCHANGED <<fixed, diff>>
       ELSE /\ phase' = "done"
            /\ fixed' \in SUBSET Var
            /\ diff' = IF heap[Root].op \in {"var", "mono"} /\ heap[Root].a \notin fixed'
                       THEN [x \in {heap[Root].a} |->
                                IF heap[Root].op = "var" THEN 1 ELSE heap[Root].c]
                       ELSE <<>>
            /\ UNCHANGED <<D, queue>>
    /\ UNCHANGED <<heap, val, slope, seen, nth, last, partial>>

(* Mutant: a term is expanded for every use of it.                         *)
NewTermsAll(i) == SelectSeq(Args(i), IsExpression)

(* The arguments of i to expand: those not seen, each of them once.        *)
NewTerms(i) ==
    LET new == {k \in DOMAIN Args(i) :
                    /\ IsExpression(Args(i)[k])
                    /\ Args(i)[k] \notin seen
                    /\ \A j \in 1..(k - 1) : Args(i)[j] # Args(i)[k]}
    IN  [n \in 1..Cardinality(new) |-> Args(i)[Nth(new, n)]]

(* The first loop takes the newest of its queue and counts the uses.       *)
Count ==
    /\ phase = "count"
    /\ queue # <<>>
    /\ LET i == Last(queue)
           uses(j) == Cardinality({k \in DOMAIN Args(i) : Args(i)[k] = j})
       IN  /\ D' = [j \in DOMAIN D \cup ToSet(Args(i)) |->
                       uses(j) + IF j \in DOMAIN D THEN D[j] ELSE 0]
           /\ queue' = Front(queue) \o NewTerms(i)
           /\ seen' = seen \cup ToSet(NewTerms(i))
    /\ UNCHANGED <<client, phase, nth, last, partial, diff>>

Counted ==
    /\ phase = "count"
    /\ queue = <<>>
    /\ phase' = "sweep"
    /\ queue' = <<Root>>
    /\ partial' = [i \in {Root} |-> 1]
    /\ UNCHANGED <<client, D, seen, nth, last, diff>>

(* Mutant: an argument is added at every use of it.                        *)
EachUse(child) == D[child] > 0

(* Is the use just swept the last one of the term?                         *)
LastUse(child) == D[child] = 1

(* The second loop takes the oldest of its queue, here once its arguments  *)
(* are done, and adds an argument when its last use is swept.              *)
SweepArgument ==
    /\ phase = "sweep"
    /\ queue # <<>>
    /\ LET i == Head(queue)
           child == Args(i)[nth]
           found == IF IsExpression(child) /\ LastUse(child) THEN <<child>> ELSE <<>>
           p == Partial(i, nth)
       IN  /\ D' = [D EXCEPT ![child] = @ - 1]
           /\ partial' = Passed(Added(partial, child, FMul(partial[i], p)), child)
           /\ last' = p
           /\ nth' = IF nth = Len(Args(i)) THEN 1 ELSE nth + 1
           /\ queue' = (IF nth = Len(Args(i)) THEN Tail(queue) ELSE queue) \o found
    /\ UNCHANGED <<client, phase, seen, diff>>

(* The variables the first loop met, in expressions and in monomials.      *)
Variables == {heap[i].a : i \in {j \in DOMAIN D : heap[j].op \in {"var", "mono"}}}

Finish ==
    /\ phase = "sweep"
    /\ queue = <<>>
    /\ phase' = "done"
    /\ diff' = [x \in Variables |->
                   IF PlaceOf(x) \in DOMAIN partial THEN partial[PlaceOf(x)] ELSE Undef]
    /\ UNCHANGED <<client, D, seen, queue, nth, last, partial>>

Next == Build \/ Start \/ Count \/ Counted \/ SweepArgument \/ Finish

Spec == Init /\ [][Next]_vars

-----------------------------------------------------------------------------
(* The terms of the expression.                                            *)
ClosedBelow(S) == \A i \in S : \A k \in DOMAIN Args(i) : Args(i)[k] \in S

Reach == {i \in Places : \A S \in SUBSET Places : Root \in S /\ ClosedBelow(S) => i \in S}

(* Rules apply: no denominator and no base of a power is zero, and none of *)
(* the functions is at a point where its own derivative is not defined.    *)
Smooth ==
    \A i \in Reach :
        /\ heap[i].op # "abs"
        /\ heap[i].op = "/" => val[heap[i].args[2]] # 0
        /\ heap[i].op = "^" => val[heap[i].args[1]] # 0
        /\ heap[i].op \in FunctionNames => Rule(heap[i].op, val[heap[i].args[1]]) # Undef

(* The functions whose row in the table is not their derivative.           *)
Mistabled == {"sqrt", "tanh", "atanh"}
RightlyTabled == \A i \in Reach : heap[i].op \notin Mistabled

(* A monomial that is the argument of two terms, or twice of one.          *)
SharedMonomial ==
    \E i, j \in Reach : \E k \in DOMAIN Args(i), n \in DOMAIN Args(j) :
        <<i, k>> # <<j, n>> /\ Args(i)[k] = Args(j)[n] /\ heap[Args(i)[k]].op = "mono"

(* An in-degree never goes below zero, and once the sweep is done every    *)
(* use of every term has been swept: none is left waiting for a parent.    *)
EveryUseSwept ==
    /\ phase = "sweep" => \A i \in DOMAIN D : D[i] >= 0
    /\ phase = "done" /\ IsExpression(Root) => \A i \in Reach : D[i] = 0

(* What a term passes to its arguments is its whole partial: no parent     *)
(* adds to it after it was taken from the queue.                           *)
PartialsAreFinal ==
    [][\A i \in DOMAIN partial \cap DOMAIN partial' :
          IsExpression(i) /\ D[i] = 0 => partial'[i] = partial[i]]_<<partial, D>>

Derivative ==
    \A x \in Var :
        IF x \in DOMAIN diff THEN diff[x] = slope[Root][x]
        ELSE slope[Root][x] = 0 \/ (IsLeaf(heap[Root]) /\ x \in fixed)

(* diff() has the value of the derivative, whatever functions are used and *)
(* however terms are shared, the three mistabled functions and the shared  *)
(* monomials apart.                                                        *)
DiffExact ==
    phase = "done" /\ Smooth /\ RightlyTabled /\ ~SharedMonomial => Derivative

(* What the declaration of diff() says, that it is the partial derivative, *)
(* for every expression; the code has three functions and the monomials    *)
(* with more than one use wrong.                                           *)
DiffAsDeclared == phase = "done" /\ Smooth => Derivative

=============================================================================
