------------------------------- MODULE Terms --------------------------------
(***************************************************************************)
(* The expression trees of coek (coek/ast): numbers, the terms, and the    *)
(* constructors that fold constants as they build (ast_operators.hpp).     *)
(* The prime field of Prime elements stands for the doubles: sums, products*)
(* and quotients are exact.  Fn stands for an intrinsic function.          *)
(***************************************************************************)
EXTENDS Integers, Sequences, SequencesExt

CONSTANTS Param, Var, Prime, Fn

Field == 0..(Prime - 1)
Undef == -1             \* the value of x/0

ASSUME PrimeField ==
    /\ Prime \in Nat \ {0, 1}
    /\ \A a \in Field \ {0} : \E b \in Field : (a * b) % Prime = 1
ASSUME FnOnField == Fn \in [Field -> Field]

FAdd(a, b) == IF Undef \in {a, b} THEN Undef ELSE (a + b) % Prime
FMul(a, b) == IF Undef \in {a, b} THEN Undef ELSE (a * b) % Prime
FNeg(a) == IF a = Undef THEN Undef ELSE (Prime - a) % Prime
FDiv(a, b) ==
    IF Undef \in {a, b} \/ b = 0 THEN Undef
    ELSE CHOOSE c \in Field : (c * b) % Prime = a
FPow(a, b) ==
    LET power[n \in 0..b] == IF n = 0 THEN 1 ELSE FMul(a, power[n - 1])
    IN  IF Undef \in {a, b} THEN Undef ELSE power[b]
FFn(a) == IF a = Undef THEN Undef ELSE Fn[a]

-----------------------------------------------------------------------------
(* Terms.  ZEROCONST and ONECONST are two objects the code knows by their  *)
(* address: another constant 0 or 1 is not the same term.                  *)

Num(n) == [op |-> "num", n |-> n, shared |-> FALSE]
Zero == [op |-> "num", n |-> 0, shared |-> TRUE]
One == [op |-> "num", n |-> 1, shared |-> TRUE]
Par(p) == [op |-> "par", a |-> p]
VarTerm(x) == [op |-> "var", a |-> x]
Monomial(c, x) == [op |-> "mono", c |-> c, a |-> x]
Node(op, args) == [op |-> op, args |-> args]
Times(l, r) == Node("*", <<l, r>>)
Divide(l, r) == Node("/", <<l, r>>)

IsConstant(e) == e.op = "num"
IsLeaf(e) == e.op \in {"num", "par", "var", "mono"}

(* A PlusTerm appends to the sum on its left, or if another sum has done so*)
(* before, nests it (PlusTerms): the visitors read both alike.             *)
PlusTerm(l, r) == Node("+", IF l.op = "+" THEN Append(l.args, r) ELSE <<l, r>>)

(* plus() and the functions that fold constants.                           *)
Plus(l, r) == IF l = Zero THEN r ELSE PlusTerm(l, r)

Plus_(l, r) ==
    IF l # Zero /\ IsConstant(l) /\ IsConstant(r) THEN Num(FAdd(l.n, r.n)) ELSE Plus(l, r)

Times_(l, r) ==
    CASE l = One -> r
      [] l # One /\ r = One -> l
      [] OTHER -> IF IsConstant(l) /\ IsConstant(r) THEN Num(FMul(l.n, r.n)) ELSE Times(l, r)

Divide_(l, r) == IF IsConstant(l) /\ l.n = 0 THEN Zero ELSE Divide(l, r)

Intrinsic(e) == IF IsConstant(e) THEN Num(FFn(e.n)) ELSE Node("f", <<e>>)

IntrinsicPow(l, r) ==
    CASE IsConstant(l) -> IF l.n = 0 THEN Zero ELSE IF l.n = 1 THEN One ELSE Node("^", <<l, r>>)
      [] IsConstant(r) /\ ~IsConstant(l) ->
            IF r.n = 0 THEN One ELSE IF r.n = 1 THEN l ELSE Node("^", <<l, r>>)
      [] OTHER -> Node("^", <<l, r>>)

Negate(e) ==
    CASE e.op = "num" -> Num(FNeg(e.n))
      [] e.op = "var" -> Monomial(FNeg(1), e.a)
      [] e.op = "mono" -> Monomial(FNeg(e.c), e.a)
      [] OTHER -> Node("-", <<e>>)
=============================================================================
