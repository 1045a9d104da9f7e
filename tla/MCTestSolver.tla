---------------------------- MODULE MCTestSolver ----------------------------
(* A small instance of TestSolver.                                         *)
EXTENDS TestSolver

CONSTANTS p, y, m1, m2

T(c, v) == [coef |-> c, vars |-> v, fn |-> FALSE]
F(c, v) == [coef |-> c, vars |-> v, fn |-> TRUE]

(* Two models, loaded one after the other: products, a nonlinear term, an  *)
(* intrinsic of a fixed variable, a model shorter than the one before.     *)
(* With y fixed a constant reads two atoms, so that a change of one pushes *)
(* it while the other is inside the tolerance.                             *)
MCExprs ==
    [m \in {m1, m2} |->
        IF m = m1
        THEN << <<T({p}, <<y>>)>>, <<F({p}, <<y>>), T({}, <<y>>)>> >>
        ELSE << <<T({p}, <<y, y>>)>> >>]
MCNum == 0..3
=============================================================================
