---------------------------- MODULE ExprVisitors ----------------------------
(***************************************************************************)
(* The visitors that turn an expression into what writers and solvers use: *)
(* QuadraticExpr (LP writer, Gurobi), MutableNLPExpr (NL writer, solver    *)
(* representation) and simplify_expr.  A client builds expressions on a    *)
(* stack; whatever it builds, each visitor must keep the value.            *)
(***************************************************************************)
EXTENDS Operators

CONSTANTS
    Constants,  \* the constants a client writes
    FixedSets,  \* the sets of fixed variables to check with
    Valuations, \* the values of parameters and variables to check with
    MaxSteps    \* bound: leaves and operators of an expression

ASSUME VisitorBounds == MaxSteps \in Nat /\ Constants \subseteq Field

VARIABLES
    stack,      \* the expressions the client holds
    steps

vars == <<stack, steps>>

-----------------------------------------------------------------------------
(* What both representations share.  A collected term has one variable or  *)
(* two, and a coefficient: a number, or in MutableNLPExpr an expression.   *)

Coef(v, k) == [v |-> v, k |-> k]
OfDegree(r, d) == SelectSeq(r.terms, LAMBDA t : Len(t.v) = d)
Scaled(terms, Op(_)) == [i \in 1..Len(terms) |-> Coef(terms[i].v, Op(terms[i].k))]
Outer(s, t, Op(_, _)) ==
    FlattenSeq([i \in 1..Len(s) |->
        [j \in 1..Len(t) |-> Coef(s[i].v \o t[j].v, Op(s[i].k, t[j].k))]])

-----------------------------------------------------------------------------
(* QuadraticExpr::collect_terms(): e times m is added to r.                *)

QEmpty == [ok |-> TRUE, c |-> 0, terms |-> <<>>]
QRefused == [QEmpty EXCEPT !.ok = FALSE]
QConst(r) == r.terms = <<>>

QAdd(r, n) == [r EXCEPT !.c = FAdd(@, n)]
QScaled(r, m) ==
    [r EXCEPT !.c = FMul(m, @), !.terms = Scaled(@, LAMBDA k : FMul(m, k))]

(* Mutant: the constant of the left factor times the right one is left out.*)
QProductOneSided(r, l, h, m) ==
    [r EXCEPT
        !.c = FAdd(@, FMul(m, FMul(l.c, h.c))),
        !.terms = @ \o Scaled(OfDegree(l, 1), LAMBDA k : FMul(FMul(m, k), h.c))
                    \o Outer(OfDegree(l, 1), OfDegree(h, 1),
                             LAMBDA j, k : FMul(m, FMul(j, k)))]

(* Two factors that are not constant.                                      *)
QProduct(r, l, h, m) ==
    [r EXCEPT
        !.c = FAdd(@, FMul(m, FMul(l.c, h.c))),
        !.terms = @ \o (IF l.c = 0 THEN <<>>
                        ELSE Scaled(OfDegree(h, 1), LAMBDA k : FMul(FMul(m, l.c), k)))
                    \o (IF h.c = 0 THEN <<>>
                        ELSE Scaled(OfDegree(l, 1), LAMBDA k : FMul(FMul(m, k), h.c)))
                    \o Outer(OfDegree(l, 1), OfDegree(h, 1),
                             LAMBDA j, k : FMul(m, FMul(j, k)))]

QSquare(r, l, m) ==
    LET double == Scaled(l.terms, LAMBDA k : FMul(FMul(2, m), FMul(k, l.c)))
    IN  [r EXCEPT
            !.c = FAdd(@, FMul(m, FMul(l.c, l.c))),
            !.terms = @ \o Outer(l.terms, l.terms, LAMBDA j, k : FMul(m, FMul(j, k))) \o double]

RECURSIVE Quadratic(_, _, _, _, _)
Quadratic(e, r, m, F, v) ==
    LET alone(i) == Quadratic(e.args[i], QEmpty, 1, F, v)
        into(i, k) == Quadratic(e.args[i], r, k, F, v)
        variable(c) == IF e.a \in F THEN QAdd(r, FMul(c, v[e.a]))
                       ELSE [r EXCEPT !.terms = Append(@, Coef(<<e.a>>, c))]
    IN  CASE ~r.ok -> r
          [] e.op = "num" -> QAdd(r, FMul(m, e.n))
          [] e.op = "par" -> QAdd(r, FMul(m, v[e.a]))
          [] e.op = "var" -> variable(m)
          [] e.op = "mono" -> variable(FMul(m, e.c))
          [] e.op = "-" -> into(1, FNeg(m))
          [] e.op = "+" -> FoldLeft(LAMBDA s, t : Quadratic(t, s, m, F, v), r, e.args)
          [] e.op = "*" ->
                LET l == alone(1)
                    h == alone(2)
                    high(s) == OfDegree(s, 2) # <<>>
                IN  CASE ~l.ok -> QRefused
                      [] QConst(l) /\ l.ok ->
                            IF l.c = 0 THEN r ELSE into(2, FMul(l.c, m))
                      [] OTHER ->
                            CASE ~h.ok -> QRefused
                              [] QConst(h) /\ h.ok ->
                                    LET s == QScaled(l, FMul(m, h.c))
                                    IN  IF h.c = 0 THEN r
                                        ELSE [QAdd(r, s.c) EXCEPT !.terms = @ \o s.terms]
                              [] OTHER ->
                                    IF high(l) \/ (high(h) /\ OfDegree(l, 1) # <<>>)
                                    THEN QRefused ELSE QProduct(r, l, h, m)
          [] e.op = "/" ->
                LET s == into(1, m)
                    h == alone(2)
                IN  CASE ~s.ok \/ (s.c = 0 /\ QConst(s)) -> s
                      [] OTHER -> IF h.ok /\ QConst(h) /\ h.c # 0 THEN QScaled(s, FDiv(1, h.c))
                                  ELSE QRefused
          [] e.op = "f" ->
                LET b == alone(1)
                IN  IF b.ok /\ QConst(b) THEN QAdd(r, FMul(m, FFn(b.c))) ELSE QRefused
          [] e.op = "^" ->
                LET l == alone(1)
                    h == alone(2)
                IN  CASE ~(h.ok /\ QConst(h)) -> QRefused
                      [] h.ok /\ QConst(h) /\ h.c = 0 -> QAdd(r, m)
                      [] h.ok /\ QConst(h) /\ h.c = 1 -> into(1, m)
                      [] OTHER ->
                            IF l.ok /\ QConst(l) THEN QAdd(r, FMul(m, FPow(l.c, h.c)))
                            ELSE IF l.ok /\ OfDegree(l, 2) = <<>> /\ h.c = 2 THEN QSquare(r, l, m)
                            ELSE QRefused

SumOver(s, Op(_)) == FoldLeft(LAMBDA n, t : FAdd(n, Op(t)), 0, s)
VarProduct(x, v) == FoldLeft(LAMBDA n, a : FMul(n, v[a]), 1, x)

QValue(r, v) == FAdd(r.c, SumOver(r.terms, LAMBDA t : FMul(t.k, VarProduct(t.v, v))))

-----------------------------------------------------------------------------
(* MutableNLPExpr::collect_terms().                                        *)

NEmpty == [ok |-> TRUE, c |-> Zero, terms |-> <<>>, nonlinear |-> Zero, mutable |-> FALSE]
NRefused == [NEmpty EXCEPT !.ok = FALSE]
NConst(r) == r.terms = <<>> /\ r.nonlinear = Zero

(* A simple constant, which is folded into the multiplier.                 *)
NSimple(r) == NConst(r) /\ IsConstant(r.c)

NAdd(r, e) == [r EXCEPT !.c = Plus_(@, e)]
By(m, e) == IF m = 1 THEN e ELSE Times(Num(m), e)

(* Mutant: only what the left side reads makes a term mutable.             *)
MarkedLeft(r, l, h) == [r EXCEPT !.mutable = @ \/ l.mutable]

Marked(r, l, h) == [r EXCEPT !.mutable = @ \/ l.mutable \/ h.mutable]

MinDegree(r) ==
    CASE r.nonlinear # Zero -> 4
      [] r.nonlinear = Zero /\ OfDegree(r, 2) # <<>> -> 2
      [] OTHER -> IF r.terms # <<>> THEN 1 ELSE 0

(* A product that is not expanded: cubic, nonlinear, or of two sums.       *)
KeptWhole(l, h) ==
    \/ MinDegree(l) + MinDegree(h) > 2
    \/ Len(OfDegree(l, 1)) > 1 /\ Len(OfDegree(h, 1)) > 1

(* Mutant: the terms of the left factor do not meet the right constant.    *)
NProductOneSided(r, l, h) ==
    [r EXCEPT
        !.c = IF Zero \in {l.c, h.c} THEN @ ELSE Plus_(@, Times_(l.c, h.c)),
        !.terms = @ \o (IF l.c = Zero THEN <<>> ELSE Scaled(h.terms, LAMBDA k : Times_(l.c, k)))
                    \o Outer(OfDegree(l, 1), OfDegree(h, 1), Times_)]

NProduct(r, l, h) ==
    [r EXCEPT
        !.c = IF Zero \in {l.c, h.c} THEN @ ELSE Plus_(@, Times_(l.c, h.c)),
        !.terms = @ \o (IF l.c = Zero THEN <<>> ELSE Scaled(h.terms, LAMBDA k : Times_(l.c, k)))
                    \o (IF h.c = Zero THEN <<>> ELSE Scaled(l.terms, LAMBDA k : Times_(h.c, k)))
                    \o Outer(OfDegree(l, 1), OfDegree(h, 1), Times_)]

(* A quotient by an expression of parameters and fixed variables.          *)
NQuotient(r, l, d) ==
    [r EXCEPT
        !.c = Plus_(@, Divide_(l.c, d)),
        !.terms = @ \o Scaled(l.terms, LAMBDA k : Divide_(k, d)),
        !.nonlinear = Plus_(@, Divide_(l.nonlinear, d))]

RECURSIVE NLP(_, _, _, _)
NLP(e, r, m, F) ==
    LET at(i, k) == NLP(e.args[i], NEmpty, k, F)
        into(i, k) == NLP(e.args[i], r, k, F)
        free(c) == [r EXCEPT !.terms = Append(@, Coef(<<e.a>>, c))]
        mutable(s) == [s EXCEPT !.mutable = TRUE]
        (* intrinsic functions and powers: f is the term of the constants  *)
        function(l, h, f) ==
            IF NConst(l) /\ NConst(h) THEN [r EXCEPT !.c = Plus(@, f)]
            ELSE Marked([r EXCEPT !.nonlinear = Plus(@, By(m, e))], l, h)
    IN  CASE ~r.ok -> r
          [] e.op = "num" -> NAdd(r, Num(FMul(m, e.n)))
          [] e.op = "par" -> mutable(NAdd(r, By(m, e)))
          [] e.op = "var" ->
                IF e.a \in F THEN mutable(NAdd(r, By(m, e)))
                ELSE free(IF m = 1 THEN One ELSE Num(m))
          [] e.op = "mono" ->
                IF e.a \in F
                THEN mutable(NAdd(r, Times(Num(FMul(m, e.c)), VarTerm(e.a))))
                ELSE free(Num(FMul(m, e.c)))
          [] e.op = "-" -> into(1, FNeg(m))
          [] e.op = "+" -> FoldLeft(LAMBDA s, t : NLP(t, s, m, F), r, e.args)
          [] e.op = "*" ->
                LET l == at(1, m)
                    h == at(2, 1)
                IN  CASE ~l.ok -> NRefused
                      [] l.ok /\ NSimple(l) -> IF l.c = Zero THEN r ELSE into(2, l.c.n)
                      [] OTHER ->
                            IF ~h.ok THEN NRefused
                            ELSE IF KeptWhole(l, h)
                            THEN Marked([r EXCEPT !.nonlinear = Plus_(@, By(m, e))], l, h)
                            ELSE Marked(NProduct(r, l, h), l, h)
          [] e.op = "/" ->
                LET l == at(1, m)
                    h == at(2, 1)
                IN  CASE ~h.ok \/ (NSimple(h) /\ h.c.n = 0) -> NRefused
                      [] h.ok /\ NSimple(h) /\ h.c.n # 0 -> into(1, FDiv(m, h.c.n))
                      [] OTHER ->
                            IF ~l.ok THEN NRefused
                            ELSE IF NConst(h) THEN Marked(NQuotient(r, l, h.c), l, h)
                            ELSE IF NSimple(l) /\ l.c.n = 0 THEN r
                            ELSE Marked([r EXCEPT !.nonlinear = Plus_(@, e)], l, h)
          [] e.op = "f" ->
                LET b == at(1, 1)
                IN  IF b.ok THEN function(b, b, Intrinsic(b.c)) ELSE NRefused
          [] e.op = "^" ->
                LET l == at(1, 1)
                    h == at(2, 1)
                IN  IF l.ok /\ h.ok THEN function(l, h, IntrinsicPow(l.c, h.c)) ELSE NRefused

NValue(r, v) ==
    FAdd(FAdd(Eval(r.c, v), Eval(r.nonlinear, v)),
         SumOver(r.terms, LAMBDA t : FMul(Eval(t.k, v), VarProduct(t.v, v))))

-----------------------------------------------------------------------------
(* simplify_expr(): parameters and fixed variables become their values.  A *)
(* constant stands for the visitor's is_value and last_value.              *)

(* Mutant: the values among the terms of a sum are lost.                   *)
SimpleSumNoOffset(args) ==
    LET terms == SelectSeq(args, LAMBDA t : ~IsConstant(t))
        offset == SumOver(SelectSeq(args, IsConstant), LAMBDA t : t.n)
    IN  IF terms = <<>> THEN Num(offset) ELSE FoldLeft(PlusTerm, terms[1], Tail(terms))

SimpleSum(args) ==
    LET terms == SelectSeq(args, LAMBDA t : ~IsConstant(t))
        offset == SumOver(SelectSeq(args, IsConstant), LAMBDA t : t.n)
        sum == FoldLeft(PlusTerm, terms[1], Tail(terms))
    IN  IF terms = <<>> THEN Num(offset)
        ELSE IF offset = 0 THEN sum
        ELSE PlusTerm(sum, Num(offset))

RECURSIVE Simplify(_, _, _)
Simplify(e, F, v) ==
    LET arg(i) == Simplify(e.args[i], F, v)
        isNum(i, n) == IsConstant(arg(i)) /\ arg(i).n = n
        rebuilt == Node(e.op, [i \in 1..Len(e.args) |-> arg(i)])
    IN  CASE e.op = "num" -> Num(e.n)
          [] e.op = "par" -> Num(v[e.a])
          [] e.op = "var" -> IF e.a \in F THEN Num(v[e.a]) ELSE e
          [] e.op = "mono" -> IF e.a \in F THEN Num(FMul(e.c, v[e.a])) ELSE e
          [] e.op = "-" -> IF IsConstant(arg(1)) THEN Num(FNeg(arg(1).n)) ELSE rebuilt
          [] e.op = "f" -> IF IsConstant(arg(1)) THEN Num(FFn(arg(1).n)) ELSE rebuilt
          [] e.op = "+" -> SimpleSum([i \in 1..Len(e.args) |-> arg(i)])
          [] e.op = "*" ->
                IF isNum(1, 0) \/ isNum(2, 0) THEN Num(0)
                ELSE IF isNum(1, 1) THEN arg(2)
                ELSE IF IsConstant(arg(1)) /\ IsConstant(arg(2))
                THEN Num(FMul(arg(1).n, arg(2).n))
                ELSE IF isNum(2, 1) THEN arg(1) ELSE rebuilt
          [] e.op = "/" ->
                IF isNum(1, 0) THEN Num(0)
                ELSE IF IsConstant(arg(1)) /\ IsConstant(arg(2))
                THEN Num(FDiv(arg(1).n, arg(2).n))
                ELSE IF isNum(2, 0) THEN Num(0)
                ELSE IF isNum(2, 1) THEN arg(1) ELSE rebuilt
          [] e.op = "^" ->
                IF isNum(1, 0) \/ isNum(1, 1) THEN Num(arg(1).n)
                ELSE IF IsConstant(arg(1)) /\ IsConstant(arg(2))
                THEN Num(FPow(arg(1).n, arg(2).n))
                ELSE IF isNum(2, 0) THEN Num(1)
                ELSE IF isNum(2, 1) THEN arg(1) ELSE rebuilt

-----------------------------------------------------------------------------
Init == stack = <<>> /\ steps = 0

Step == steps < MaxSteps /\ steps' = steps + 1

Top(n) == stack[Len(stack) - n]
Replace(n, e) == stack' = Append(SubSeq(stack, 1, Len(stack) - n), e)

Leaf ==
    /\ Step
    /\ steps + Len(stack) < MaxSteps
    /\ \E e \in {Num(n) : n \in Constants} \cup {Par(p) : p \in Param}
                \cup {VarTerm(x) : x \in Var} : Replace(0, e)

(* operator- and the intrinsic functions.                                  *)
Unary ==
    /\ Step
    /\ Len(stack) >= 1
    /\ \E e \in {Negate(Top(0)), Intrinsic(Top(0))} : Replace(1, e)

(* operator+, operator*, operator/ and pow.                                *)
Binary ==
    /\ Step
    /\ Len(stack) >= 2
    /\ \E e \in {PlusTerm(Top(1), Top(0)), Times(Top(1), Top(0)),
                 Divide(Top(1), Top(0)), Pow(Top(1), Top(0))} : Replace(2, e)

Next == Leaf \/ Unary \/ Binary

Spec == Init /\ [][Next]_vars

-----------------------------------------------------------------------------
Situations(e) == {<<F, v>> \in FixedSets \X Valuations : Defined(e, v)}

(* What is built above other expressions is built alone in fewer steps.    *)
(* Pairs are looked at while a step is left to combine them.               *)
Latest(P(_)) == Len(stack) = 1 => P(Top(0))
LatestSmaller(P(_)) == Len(stack) = 1 /\ steps < MaxSteps => P(Top(0))
LatestTwo(P(_, _)) == Len(stack) = 2 /\ steps < MaxSteps => P(Top(1), Top(0))

(* An overload of an operator means the operation on the values, whichever *)
(* shortcut it takes for a constant, a zero or a one.                      *)
OperatorsExact ==
    /\ LatestSmaller(LAMBDA e : \A n \in Constants \cup {0, 1}, v \in Valuations :
            LET value == Eval(e, v)
                means(t, w) == Eval(t, v) = w
            IN  Defined(e, v) =>
                /\ means(PlusNum(e, n), FAdd(value, n)) /\ means(NumPlus(n, e), FAdd(n, value))
                /\ means(MinusNum(e, n), FSub(value, n)) /\ means(NumMinus(n, e), FSub(n, value))
                /\ means(TimesNum(e, n), FMul(value, n)) /\ means(NumTimes(n, e), FMul(n, value))
                /\ n # 0 => means(DivideNum(e, n), FDiv(value, n))
                /\ value # 0 => means(NumDivide(n, e), FDiv(n, value))
                /\ e.op = "var" =>
                        /\ means(VarTimes(n, e.a), FMul(n, value))
                        /\ n # 0 => means(VarDivide(e.a, n), FDiv(value, n))
                        /\ means(AffineExpression(<<[c |-> n, a |-> e.a], [c |-> 1, a |-> e.a]>>, n),
                                 FAdd(n, FMul(FAdd(n, 1), value))))
    /\ LatestTwo(LAMBDA l, r : \A v \in Valuations :
            LET means(t, w) == Eval(t, v) = w
                a == Eval(l, v)
                b == Eval(r, v)
            IN  Defined(l, v) /\ Defined(r, v) =>
                /\ means(PlusTerm(l, r), FAdd(a, b)) /\ means(Times(l, r), FMul(a, b))
                /\ means(Minus(l, r), FSub(a, b)) /\ means(MinusAssign(l, r), FSub(a, b))
                /\ b # 0 => means(Divide(l, r), FDiv(a, b))
                /\ a # 0 \/ b # 0 => means(Pow(l, r), FPow(a, b)))

(* A constraint is as far from its bounds as its sides are from each other,*)
(* and no bound reads a variable: solvers take the bounds for numbers.     *)
ConstraintsExact ==
    LatestTwo(LAMBDA l, r :
        LET both == {v \in Valuations : Defined(l, v) /\ Defined(r, v)}
            slack(v) == FSub(Eval(r, v), Eval(l, v))
            holds(c, Op(_)) ==
                /\ \A b \in {c.lower, c.upper} \ {Absent} : NonVariable(b)
                /\ \A v \in both : Slacks(c, v) = {Op(slack(v))}
            below(c) == holds(c, LAMBDA n : n)
            above(c) == holds(c, FNeg)
        IN  /\ below(Less(l, r)) /\ below(LessEqual(l, r))
            /\ above(Greater(l, r)) /\ above(GreaterEqual(l, r))
            /\ below(Equal(l, r)) \/ above(Equal(l, r))
            /\ IsConstant(r) => /\ below(LessThanNum(l, r.n, FALSE))
                                /\ above(NumLessThan(r.n, l, FALSE))
                                /\ above(EqualNum(l, r.n)))

(* The representation of QuadraticExpr has the value of the expression,    *)
(* for the parameters and fixed variables it was collected with.           *)
QuadraticExactFor(e) ==
    \A s \in Situations(e) :
        LET r == Quadratic(e, QEmpty, 1, s[1], s[2])
        IN  r.ok => QValue(r, s[2]) = Eval(e, s[2])

(* A quotient after the first term of a sum divides the terms before it.   *)
QuotientsFirst(e) ==
    \A s \in Subterms(e) : s.op = "+" =>
        \A i \in 2..Len(s.args) : \A t \in Subterms(s.args[i]) : t.op # "/"

QuadraticExactOfQuotientsFirst == Latest(LAMBDA e : QuotientsFirst(e) => QuadraticExactFor(e))

(* A function of constants, and a quotient by a variable expression, come  *)
(* out without the multiplier they are collected with.                     *)
DropsMultiplier(e, F) ==
    LET alone(i) == NLP(e.args[i], NEmpty, 1, F)
    IN  \/ e.op \in {"f", "^"} /\ \A i \in 1..Len(e.args) : NConst(alone(i))
        \/ e.op = "/" /\ ~NConst(alone(2))

(* The argument is collected with a multiplier other than one.             *)
ScaledArg(e, i, scaled, F) ==
    LET simple(j) == NSimple(NLP(e.args[j], NEmpty, 1, F))
    IN  CASE e.op = "-" -> TRUE
          [] e.op = "+" -> scaled
          [] e.op = "*" -> IF i = 1 THEN scaled ELSE simple(1)
          [] e.op = "/" -> i = 1 /\ (scaled \/ simple(2))
          [] OTHER -> FALSE

RECURSIVE LosesMultiplier(_, _, _)
LosesMultiplier(e, scaled, F) ==
    /\ ~IsLeaf(e)
    /\ \/ scaled /\ DropsMultiplier(e, F)
       \/ \E i \in 1..Len(e.args) : LosesMultiplier(e.args[i], ScaledArg(e, i, scaled, F), F)

(* Unless it drops a multiplier, MutableNLPExpr has the value of the       *)
(* expression, and keeps it when parameters and fixed variables change.    *)
NLPExact ==
    Latest(LAMBDA e : \A s \in Situations(e) :
        LET r == NLP(e, NEmpty, 1, s[1])
        IN  r.ok /\ ~LosesMultiplier(e, FALSE, s[1]) => NValue(r, s[2]) = Eval(e, s[2]))

AtomsIn(e) == {s.a : s \in {t \in Subterms(e) : t.op \in {"par", "var", "mono"}}}

(* What a representation can change with is marked mutable, functions of   *)
(* constants apart: SolverRepn updates nothing that is not.                *)
MutableMarked ==
    Latest(LAMBDA e : \A F \in FixedSets :
        LET r == NLP(e, NEmpty, 1, F)
            read == AtomsIn(r.c) \cup AtomsIn(r.nonlinear)
                    \cup UNION {AtomsIn(r.terms[i].k) : i \in 1..Len(r.terms)}
        IN  /\ r.ok
            /\ read \cap (Param \cup F) # {}
            /\ \A s \in Subterms(e) : s.op \in {"f", "^"} => ~DropsMultiplier(s, F)
            => r.mutable)

(* A simplified expression has the value of the expression.                *)
SimplifyExact ==
    Latest(LAMBDA e : \A s \in Situations(e) :
        Eval(Simplify(e, s[1], s[2]), s[2]) = Eval(e, s[2]))
=============================================================================
