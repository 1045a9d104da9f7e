----------------------------- MODULE Optimizer ------------------------------
(***************************************************************************)
(* What a coek::Solver promises its client: solve() and resolve() write an *)
(* optimal solution of the model, as its parameters and fixed variables    *)
(* stand at the call, into the variables that are not fixed, or say that   *)
(* they failed.  Nothing here knows of representations, caches or rows;    *)
(* GurobiSolver is shown to implement it.                                  *)
(***************************************************************************)
EXTENDS Sums

CONSTANTS
    Param, Var, Num,    \* as in SolverRepn
    Models,
    Exprs,              \* Exprs[m][1] is minimised, the others are bounded
    Lower, Upper,       \* Lower[m][j] <= Exprs[m][j] <= Upper[m][j]
    VarLower, VarUpper, \* the bounds of the variables
    None                \* no bound, no model

VARIABLES
    val,        \* the value of every parameter and variable
    fixed,      \* the variables that are fixed
    loaded,     \* the model of the last load()
    result      \* what the last call reported

vars == <<val, fixed, loaded, result>>

Atom == Param \cup Var

-----------------------------------------------------------------------------
(* Evaluation of expressions without intrinsic functions.                  *)

TermValue(t, v) ==
    ProductOver(v, t.coef)
    * ProductOver([i \in 1..Len(t.vars) |-> v[t.vars[i]]], 1..Len(t.vars))

ExprValue(e, v) == SumOver([i \in 1..Len(e) |-> TermValue(e[i], v)], 1..Len(e))

(* A bound is a number or a parameter.                                     *)
BoundValue(b, v) == IF b \in Param THEN v[b] ELSE b

Within(x, lo, hi, v) ==
    /\ lo # None => BoundValue(lo, v) <= x
    /\ hi # None => x <= BoundValue(hi, v)

(* What a call may make of the values v when the variables in F are fixed. *)
Points(v, F) ==
    {w \in {[a \in Atom |-> IF a \in Var \ F THEN u[a] ELSE v[a]] : u \in [Var \ F -> Num]} :
        \A y \in Var \ F : Within(w[y], VarLower[y], VarUpper[y], v)}

Feasible(m, v, F) ==
    {w \in Points(v, F) : \A j \in 2..Len(Exprs[m]) :
        Within(ExprValue(Exprs[m][j], w), Lower[m][j], Upper[m][j], v)}

Optimal(m, v, F) ==
    LET feasible == Feasible(m, v, F)
    IN  {w \in feasible : \A u \in feasible :
            ExprValue(Exprs[m][1], w) <= ExprValue(Exprs[m][1], u)}

-----------------------------------------------------------------------------
Init ==
    /\ val \in [Atom -> Num]
    /\ fixed \in SUBSET Var
    /\ loaded = None
    /\ result = "none"

(* The client changes values and fixed flags, loads and resets.            *)
Client ==
    /\ result' = "none"
    /\ val' \in [Atom -> Num]
    /\ fixed' \in SUBSET Var
    /\ loaded' \in Models \cup {loaded}

(* A call that failed may have changed some of the free variables.         *)
Fails ==
    /\ result' \in {"failed", "crashed"}
    /\ \A a \in Param \cup fixed : val'[a] = val[a]
    /\ UNCHANGED <<fixed, loaded>>

Resolve ==
    /\ loaded # None
    /\ result' = "ok"
    /\ val' \in Optimal(loaded, val, fixed)
    /\ UNCHANGED <<fixed, loaded>>

(* solve() of an infeasible model succeeds and leaves the values alone.    *)
Solve(m) ==
    /\ result' = "ok"
    /\ \/ val' \in Optimal(m, val, fixed)
       \/ Optimal(m, val, fixed) = {} /\ val' = val
    /\ UNCHANGED <<fixed, loaded>>

Next == Client \/ Fails \/ Resolve \/ \E m \in Models : Solve(m)

Spec == Init /\ [][Next]_vars
=============================================================================
