--------------------------- MODULE MCGurobiSolver ---------------------------
(* Small instances of GurobiSolver, each of one model.                     *)
EXTENDS GurobiSolver

CONSTANTS p, q, x, y, m1

T(c, v) == [coef |-> c, vars |-> v, fn |-> FALSE]

OneModel == {m1}
OneVar == {x}
TwoVars == {x, y}
TwoParams == {p, q}
OneParam == {p}
NoParams == {}
Signs == {-1, 1}
Bits == 0..1
NotPositive == -1..0
MinusOne == [v \in Var |-> -1]
Zero == [v \in Var |-> 0]
PlusOne == [v \in Var |-> 1]

(* min p*x  s.t.  q + x >= 0,  q*x >= -1: the coefficient of the objective,*)
(* a right-hand side and the coefficient of a row.                         *)
TrackedExprs ==
    [m \in OneModel |-> << <<T({p}, <<x>>)>>,
                           <<T({q}, <<>>), T({}, <<x>>)>>,
                           <<T({q}, <<x>>)>> >>]
TrackedLower == [m \in OneModel |-> <<None, 0, -1>>]
TrackedUpper == [m \in OneModel |-> <<None, None, None>>]

(* min x*y  s.t.  y*x*x*x + x*x + x*x >= 1: what is fixed, and at which   *)
(* value, makes the row cubic (refused), quadratic (y is 0), linear (x is  *)
(* -1), or none at all (x is 0).                                           *)
FixedExprs ==
    [m \in OneModel |->
        << <<T({}, <<x, y>>)>>,
           <<T({}, <<y, x, x, x>>), T({}, <<x, x>>), T({}, <<x, x>>)>> >>]
FixedLower == [m \in OneModel |-> <<None, 1>>]
FixedUpper == [m \in OneModel |-> <<None, None>>]

NoBounds == [m \in OneModel |-> <<None, None>>]
LowerOne == [m \in OneModel |-> <<None, 1>>]
Minimise(e, f) == [m \in OneModel |-> <<e, f>>]

(* p + x >= 1: after a change of p the row is x >= -p.                     *)
RhsExprs == Minimise(<<T({}, <<x>>)>>, <<T({p}, <<>>), T({}, <<x>>)>>)
=============================================================================
