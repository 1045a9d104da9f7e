---------------------------- MODULE Expressions -----------------------------
(***************************************************************************)
(* The terms of an expression, and evaluation (visitor_eval.cpp).          *)
(***************************************************************************)
EXTENDS Terms

RECURSIVE Subterms(_)
Subterms(e) ==
    {e} \cup IF IsLeaf(e) THEN {} ELSE UNION {Subterms(e.args[i]) : i \in 1..Len(e.args)}

(* evaluate_expr(): a product or quotient whose left side is 0 is 0, and a *)
(* power whose base is 0 or 1 is its base.                                 *)
RECURSIVE Eval(_, _)
Eval(e, v) ==
    LET arg(i) == Eval(e.args[i], v)
    IN  CASE e.op = "num" -> e.n
          [] e.op \in {"par", "var"} -> v[e.a]
          [] e.op = "mono" -> FMul(e.c, v[e.a])
          [] e.op = "-" -> FNeg(arg(1))
          [] e.op = "+" -> FoldLeft(LAMBDA s, t : FAdd(s, Eval(t, v)), 0, e.args)
          [] e.op = "*" -> IF arg(1) = 0 THEN 0 ELSE FMul(arg(1), arg(2))
          [] e.op = "/" -> IF arg(1) = 0 THEN 0 ELSE FDiv(arg(1), arg(2))
          [] e.op = "^" -> IF arg(1) \in {0, 1} THEN arg(1) ELSE FPow(arg(1), arg(2))
          [] e.op = "f" -> FFn(arg(1))

(* No denominator is zero, and no power is zero to the zero, of which the  *)
(* visitors have different opinions.                                       *)
Defined(e, v) ==
    \A s \in Subterms(e) :
        /\ s.op = "/" => Eval(s.args[2], v) # 0
        /\ s.op = "^" => Eval(s.args[1], v) # 0 \/ Eval(s.args[2], v) # 0
=============================================================================
