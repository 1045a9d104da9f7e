----------------------------- MODULE ExprTexts ------------------------------
(***************************************************************************)
(* The three texts coek makes of an expression: the list of to_list(), the *)
(* infix text of operator<< (write_expr) and the expression segments of an *)
(* NL file.  Their grammars, which only the readers of the texts know, are *)
(* the operators Read...: reading a text gives the value again.            *)
(* A token is a kind and, for a number or a name, what it stands for.      *)
(***************************************************************************)
EXTENDS ExprVisitors

Sym(t) == <<[t |-> t]>>
Number(n) == <<[t |-> "num", d |-> n]>>
Name(a) == <<[t |-> "name", d |-> a]>>
In(brackets, s) == Sym(brackets[1]) \o s \o Sym(brackets[2])
Parenthesised(s) == In(<<"(", ")">>, s)

-----------------------------------------------------------------------------
(* ToListVisitor                                                           *)

RECURSIVE ToList(_)
ToList(e) ==
    CASE e.op = "num" -> Number(e.n)
      [] e.op \in {"par", "var"} -> Name(e.a)
      [] e.op = "mono" -> In(<<"[", "]">>, Sym("*") \o Number(e.c) \o Name(e.a))
      [] OTHER ->
            In(<<"[", "]">>,
               Sym(e.op) \o FlattenSeq([i \in 1..Len(e.args) |-> ToList(e.args[i])]))

ConstraintToList(c) ==
    LET bound(b, infinite) == IF b = Absent THEN Sym(infinite) ELSE ToList(b)
    IN  In(<<"[", "]">>,
           Sym(c.op) \o (IF c.op = "==" THEN ToList(c.body) \o ToList(c.lower)
                         ELSE bound(c.lower, "-Inf") \o ToList(c.body) \o bound(c.upper, "Inf")))

-----------------------------------------------------------------------------
(* WriteExprVisitor                                                        *)

(* Mutant: a product of sums loses its parentheses.                        *)
BareOperands(op, l, r) == l \o Sym(op) \o r

Operands(op, l, r) == Parenthesised(l) \o Sym(op) \o Parenthesised(r)

RECURSIVE WriteExpr(_)
WriteExpr(e) ==
    LET arg(i) == WriteExpr(e.args[i])
    IN  CASE e.op = "num" -> Number(e.n)
          [] e.op \in {"par", "var"} -> Name(e.a)
          [] e.op = "mono" -> (IF e.c = 1 THEN <<>> ELSE Number(e.c) \o Sym("*")) \o Name(e.a)
          [] e.op = "-" -> Sym("-") \o Parenthesised(arg(1))
          [] e.op = "+" ->
                arg(1) \o FlattenSeq([i \in 1..(Len(e.args) - 1) |-> Sym("+") \o arg(i + 1)])
          [] e.op \in {"*", "/"} -> Operands(e.op, arg(1), arg(2))
          [] e.op = "f" -> Sym("f") \o Parenthesised(arg(1))
          [] e.op = "^" -> Sym("pow") \o Parenthesised(arg(1) \o Sym(",") \o arg(2))

WriteConstraint(c) ==
    IF c.op = "==" THEN WriteExpr(c.body) \o Sym("==") \o WriteExpr(c.lower)
    ELSE (IF c.lower = Absent THEN <<>> ELSE WriteExpr(c.lower) \o Sym(c.op))
         \o WriteExpr(c.body)
         \o (IF c.upper = Absent THEN <<>> ELSE Sym(c.op) \o WriteExpr(c.upper))

-----------------------------------------------------------------------------
(* NL files.  A simplified expression is written in prefix form.           *)

SumHeader(n) == IF n = 2 THEN Sym("o0") ELSE Sym("o54") \o Number(n)

RECURSIVE PrintExpr(_)
PrintExpr(e) ==
    LET args == FlattenSeq([i \in 1..Len(e.args) |-> PrintExpr(e.args[i])])
    IN  CASE e.op = "num" -> Number(e.n)
          [] e.op = "var" -> Name(e.a)
          [] e.op = "mono" -> Sym("o2") \o Number(e.c) \o Name(e.a)
          [] e.op = "-" ->
                IF IsConstant(e.args[1]) THEN Number(FNeg(e.args[1].n)) ELSE Sym("o16") \o args
          [] e.op = "+" -> SumHeader(Len(e.args)) \o args
          [] e.op = "*" -> Sym("o2") \o args
          [] e.op = "/" -> Sym("o3") \o args
          [] e.op = "^" -> Sym("o5") \o args
          [] e.op = "f" -> Sym("f") \o args

(* print_expr(): quadratic terms are added up by their pair of variables.  *)
(* The constant is written with an objective only.                         *)
PrintBody(r, v, objective) ==
    LET nonlinear == ~IsConstant(r.nonlinear)
        cval == IF nonlinear THEN Eval(r.c, v) ELSE FAdd(Eval(r.c, v), Eval(r.nonlinear, v))
        pair(t) == {t.v[1], t.v[2]}
        quadratic == OfDegree(r, 2)
        pairs == SetToSeq({pair(quadratic[i]) : i \in 1..Len(quadratic)})
        coef(p) == SumOver(SelectSeq(quadratic, LAMBDA t : pair(t) = p), LAMBDA t : Eval(t.k, v))
        factors(p) == LET a == CHOOSE a \in p : TRUE
                          b == CHOOSE b \in p : p = {a, b}
                      IN  Name(a) \o Name(b)
        term(p) == (IF coef(p) = 1 THEN <<>> ELSE Sym("o2") \o Number(coef(p)))
                   \o Sym("o2") \o factors(p)
        terms == [i \in 1..Len(pairs) |-> term(pairs[i])]
                 \o (IF nonlinear THEN <<PrintExpr(r.nonlinear)>> ELSE <<>>)
                 \o (IF objective /\ cval # 0 THEN <<Number(cval)>> ELSE <<>>)
    IN  (IF Len(terms) > 1 THEN SumHeader(Len(terms)) ELSE <<>>) \o FlattenSeq(terms)

IsLinear(r) == IsConstant(r.nonlinear) /\ OfDegree(r, 2) = <<>>

CSegment(r, v) == IF IsLinear(r) THEN Number(0) ELSE PrintBody(r, v, FALSE)
OSegment(r, v) == IF IsLinear(r) THEN Number(Eval(r.c, v)) ELSE PrintBody(r, v, TRUE)

-----------------------------------------------------------------------------
(* The grammars.  A reader returns the value it read and what follows it.  *)

Applied(op, x) ==
    CASE op = "+" -> FoldLeft(FAdd, 0, x)
      [] op = "*" -> FMul(x[1], x[2])
      [] op = "/" -> FDiv(x[1], x[2])
      [] op = "^" -> FPow(x[1], x[2])
      [] op = "-" -> FNeg(x[1])
      [] op = "f" -> FFn(x[1])

IsAtom(s) == Head(s).t \in {"num", "name"}
AtomValue(s, v) == IF Head(s).t = "num" THEN Head(s).d ELSE v[Head(s).d]

RECURSIVE ReadList(_, _), ReadItems(_, _)
ReadList(s, v) ==
    IF IsAtom(s) THEN <<AtomValue(s, v), Tail(s)>>
    ELSE LET items == ReadItems(Tail(Tail(s)), v)
         IN  <<Applied(s[2].t, items[1]), items[2]>>
ReadItems(s, v) ==
    IF Head(s).t = "]" THEN <<<<>>, Tail(s)>>
    ELSE LET first == ReadList(s, v)
             others == ReadItems(first[2], v)
         IN  <<<<first[1]>> \o others[1], others[2]>>

(* The slacks of a listed constraint.                                      *)
ListedSlacks(s, v) ==
    LET item(t) == IF Head(t).t \in {"-Inf", "Inf"} THEN <<"infinite", Tail(t)>> ELSE ReadList(t, v)
        first == item(Tail(Tail(s)))
        second == item(first[2])
        third == item(second[2])
    IN  IF s[2].t = "==" THEN {FSub(first[1], second[1])}
        ELSE (IF s[3].t = "-Inf" THEN {} ELSE {FSub(second[1], first[1])})
             \cup (IF Head(second[2]).t = "Inf" THEN {} ELSE {FSub(third[1], second[1])})

RECURSIVE ReadSum(_, _), ReadProduct(_, _), ReadFactor(_, _)
ReadSum(s, v) ==
    LET first == ReadProduct(ReadFactor(s, v), v)
    IN  IF first[2] # <<>> /\ Head(first[2]).t = "+"
        THEN LET others == ReadSum(Tail(first[2]), v)
             IN  <<FAdd(first[1], others[1]), others[2]>>
        ELSE first
ReadProduct(left, v) ==
    IF left[2] # <<>> /\ Head(left[2]).t \in {"*", "/"}
    THEN LET right == ReadFactor(Tail(left[2]), v)
         IN  ReadProduct(<<Applied(Head(left[2]).t, <<left[1], right[1]>>), right[2]>>, v)
    ELSE left
ReadFactor(s, v) ==
    CASE IsAtom(s) -> <<AtomValue(s, v), Tail(s)>>
      [] Head(s).t = "(" ->
            LET b == ReadSum(Tail(s), v) IN <<b[1], Tail(b[2])>>
      [] Head(s).t \in {"-", "f"} ->
            LET b == ReadFactor(Tail(s), v) IN <<Applied(Head(s).t, <<b[1]>>), b[2]>>
      [] Head(s).t = "pow" ->
            LET l == ReadSum(Tail(Tail(s)), v)
                r == ReadSum(Tail(l[2]), v)
            IN  <<FPow(l[1], r[1]), Tail(r[2])>>

(* The slacks of a written constraint: every relation has one.             *)
RECURSIVE WrittenSlacks(_, _)
WrittenSlacks(s, v) ==
    LET left == ReadSum(s, v)
        right == ReadSum(Tail(left[2]), v)
    IN  IF left[2] = <<>> THEN {}
        ELSE {IF Head(left[2]).t = "==" THEN FSub(left[1], right[1]) ELSE FSub(right[1], left[1])}
             \cup WrittenSlacks(Tail(left[2]), v)

NLOperator == [o0 |-> "+", o54 |-> "+", o2 |-> "*", o3 |-> "/", o5 |-> "^", o16 |-> "-", f |-> "f"]

RECURSIVE ReadNL(_, _), ReadOperands(_, _, _)
ReadNL(s, v) ==
    LET t == Head(s).t
        n == CASE t = "o54" -> s[2].d
               [] t \in {"o16", "f"} -> 1
               [] OTHER -> 2
        operands == ReadOperands(n, IF t = "o54" THEN Tail(Tail(s)) ELSE Tail(s), v)
    IN  IF IsAtom(s) THEN <<AtomValue(s, v), Tail(s)>>
        ELSE <<Applied(NLOperator[t], operands[1]), operands[2]>>
ReadOperands(n, s, v) ==
    IF n = 0 THEN <<<<>>, s>>
    ELSE LET first == ReadNL(s, v)
             others == ReadOperands(n - 1, first[2], v)
         IN  <<<<first[1]>> \o others[1], others[2]>>

-----------------------------------------------------------------------------
(* The list and the infix text of an expression have its value, and those  *)
(* of a constraint its slacks.                                             *)
ListsAndInfixExact ==
    /\ LatestSmaller(LAMBDA e :
        LET list == ToList(e)
            infix == WriteExpr(e)
        IN  \A v \in Valuations : Defined(e, v) =>
                {ReadList(list, v), ReadSum(infix, v)} = {<<Eval(e, v), <<>>>>})
    /\ LatestTwo(LAMBDA l, r : \A c \in {Less(l, r), Equal(l, r)} :
        LET list == ConstraintToList(c)
            infix == WriteConstraint(c)
        IN  \A v \in Valuations : Defined(l, v) /\ Defined(r, v) =>
                {ListedSlacks(list, v), WrittenSlacks(infix, v)} = {Slacks(c, v)})

(* What an NL file says of an expression, the segment of its body and what *)
(* the J, G and r segments hold of it, has the value of the expression,    *)
(* unless MutableNLPExpr drops a multiplier.                               *)
NLTextExact ==
    LatestSmaller(LAMBDA e : \A s \in Situations(e) :
        LET F == s[1]
            v == s[2]
            simple == Simplify(e, F, v)
            r == NLP(simple, NEmpty, 1, F)
            linear == SumOver(OfDegree(r, 1), LAMBDA t : FMul(Eval(t.k, v), v[t.v[1]]))
            reads(segment, others) ==
                LET body == ReadNL(segment, v)
                IN  body[2] = <<>> /\ FAdd(body[1], FAdd(linear, others)) = Eval(e, v)
        IN  r.ok /\ ~LosesMultiplier(simple, FALSE, F)
            => reads(OSegment(r, v), 0) /\ reads(CSegment(r, v), Eval(r.c, v)))

(* Whichever text is made of an expression or a constraint, its reader     *)
(* finds the same values.                                                  *)
TextsReadBack == ListsAndInfixExact /\ NLTextExact
=============================================================================
