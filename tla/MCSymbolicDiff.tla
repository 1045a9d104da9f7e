--------------------------- MODULE MCSymbolicDiff ---------------------------
(* Expressions of a variable, twice the variable and a parameter, in the   *)
(* field of seven elements.                                                *)
EXTENDS SymbolicDiff

CONSTANTS c, x

MCLeaves == <<VarTerm(x), Monomial(2, x)>>
MCFn == [n \in 0..6 |-> (n * n * n + n + 3) % 7]
(* Sixteen functions that differ from each other.                          *)
Names == <<"exp", "log", "log10", "sqrt", "sin", "cos", "tan", "sinh", "cosh", "tanh",
           "asin", "acos", "atan", "asinh", "acosh", "atanh">>
Function(k) == [n \in 0..6 |-> (n * n * n + k * n * n + (k \div 7) * n + k + 3) % 7]
MCFun == [g \in FunctionNames |-> Function(CHOOSE k \in DOMAIN Names : Names[k] = g)]
Point(i, j) == [a \in {c, x} |-> IF a = c THEN i ELSE j]
MCPoints == {Point(2, j) : j \in {3, 5}}
MCOperators == {"+", "*", "/", "^", "-", "abs"} \cup (FunctionNames \ Mistabled)
=============================================================================
