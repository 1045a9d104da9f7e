----------------------------- MODULE Operators ------------------------------
(***************************************************************************)
(* What a client writes expressions and constraints with: the overloads of *)
(* + - * / (api/expression.cpp), pow (api/intrinsic_fn.cpp) and of the     *)
(* comparisons (api/constraint.cpp).  An operand is an expression, a       *)
(* Variable, or a number, for which there are shortcuts.                   *)
(***************************************************************************)
EXTENDS Expressions

FSub(a, b) == FAdd(a, FNeg(b))

Minus(l, r) == PlusTerm(l, Negate(r))

Pow(l, r) ==
    IF IsConstant(l) /\ IsConstant(r) THEN Num(FPow(l.n, r.n)) ELSE IntrinsicPow(l, r)

(* operator-=: the subtracted side is wrapped, never folded.               *)
MinusAssign(l, r) == PlusTerm(l, Node("-", <<r>>))

-----------------------------------------------------------------------------
(* A number on one side.  A number on the left of a sum starts a new sum.  *)

PlusNum(e, n) == IF n = 0 THEN e ELSE PlusTerm(e, Num(n))
NumPlus(n, e) == IF n = 0 THEN e ELSE Node("+", <<Num(n), e>>)
MinusNum(e, n) == PlusNum(e, FNeg(n))

(* Mutant: the shortcut of operator+ for a zero on the left.               *)
NumMinusUnnegated(n, e) == IF n = 0 THEN e ELSE Node("+", <<Num(n), Negate(e)>>)

NumMinus(n, e) == IF n = 0 THEN Negate(e) ELSE Node("+", <<Num(n), Negate(e)>>)

TimesNum(e, n) ==
    CASE n = 0 -> Zero
      [] n = 1 -> e
      [] OTHER -> Times(e, Num(n))
NumTimes(n, e) ==
    CASE n = 0 -> Zero
      [] n = 1 -> e
      [] OTHER -> Times(Num(n), e)

(* A number times a Variable, on either side, is a monomial.               *)
VarTimes(n, x) ==
    CASE n = 0 -> Zero
      [] n = 1 -> VarTerm(x)
      [] OTHER -> Monomial(n, x)

(* Division by the number zero throws and is not modelled.                 *)
DivideNum(e, n) == IF n = 1 THEN e ELSE Divide(e, Num(n))
VarDivide(x, n) == IF n = 1 THEN VarTerm(x) ELSE Monomial(FDiv(1, n), x)
NumDivide(n, e) == IF n = 0 THEN Zero ELSE Divide(Num(n), e)

AffineExpression(coefs, offset) ==
    FoldLeft(LAMBDA s, t : PlusTerm(s, VarTimes(t.c, t.a)), Num(offset), coefs)

-----------------------------------------------------------------------------
(* Constraints.  A side that reads no variable becomes the bound.          *)

NonVariable(e) ==
    \A s \in Subterms(e) : s.op \notin {"var", "mono"}

Absent == [op |-> "none"]

Inequality(lower, body, upper, strict) ==
    [op |-> IF strict THEN "<" ELSE "<=", lower |-> lower, body |-> body, upper |-> upper]
Equality(body, rhs) == [op |-> "==", lower |-> rhs, body |-> body, upper |-> Absent]

ConstantOf(n) == IF n = 0 THEN Zero ELSE Num(n)

(* Mutant: the sides of the difference are swapped.                        *)
LessThanSwapped(l, r, strict) ==
    CASE NonVariable(l) -> Inequality(l, r, Absent, strict)
      [] ~NonVariable(l) /\ NonVariable(r) -> Inequality(Absent, l, r, strict)
      [] OTHER -> Inequality(Absent, Minus(r, l), Zero, strict)

LessThan(l, r, strict) ==
    CASE NonVariable(l) -> Inequality(l, r, Absent, strict)
      [] ~NonVariable(l) /\ NonVariable(r) -> Inequality(Absent, l, r, strict)
      [] OTHER -> Inequality(Absent, Minus(l, r), Zero, strict)

LessThanNum(l, n, strict) == Inequality(Absent, l, ConstantOf(n), strict)
NumLessThan(n, r, strict) == Inequality(ConstantOf(n), r, Absent, strict)

Equal(l, r) ==
    CASE NonVariable(l) -> Equality(r, l)
      [] ~NonVariable(l) /\ NonVariable(r) -> Equality(l, r)
      [] OTHER -> Equality(Minus(l, r), Zero)

EqualNum(e, n) == Equality(e, ConstantOf(n))

(* The comparison operators of two operands that are not numbers.          *)
Less(l, r) == LessThan(l, r, TRUE)
LessEqual(l, r) == LessThan(l, r, FALSE)
Greater(l, r) == LessThan(r, l, TRUE)
GreaterEqual(l, r) == LessThan(r, l, FALSE)

(* How far the body of a constraint is above its lower and below its upper *)
(* bound.                                                                  *)
Slacks(c, v) ==
    (IF c.lower = Absent THEN {} ELSE {FSub(Eval(c.body, v), Eval(c.lower, v))})
    \cup (IF c.upper = Absent THEN {} ELSE {FSub(Eval(c.upper, v), Eval(c.body, v))})
=============================================================================
