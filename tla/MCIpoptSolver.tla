--------------------------- MODULE MCIpoptSolver ---------------------------
(***************************************************************************)
(* minimize or maximize p x1^2 + x2, subject to a bound on p x1 x2 + x2:   *)
(* the parameter decides whether x1 occurs, and which entries derivatives  *)
(* have.  x1 was created last and comes first in an NL file.               *)
(***************************************************************************)
EXTENDS IpoptSolver

CONSTANTS p, x1, x2

MCIndex == [v \in {x1, x2} |-> IF v = x1 THEN 2 ELSE 1]
MCNum == {0, 2}
Times(c, i, j, k) == [coef |-> c, pow |-> [a \in {p, x1, x2} |->
                        CASE a = p -> i [] a = x1 -> j [] a = x2 -> k]]
MCObjectives == <<<<Times(1, 1, 2, 0), Times(1, 0, 0, 1)>>>>
MCConstraints == <<<<Times(1, 1, 1, 1), Times(1, 0, 0, 1)>>>>
MCWidest == [lo |-> 0, hi |-> 2]
MCBounds == {[lo |-> 0, hi |-> 2], [lo |-> 2, hi |-> 2]}
MCPoints == {<<2>>, <<2, 0>>, <<2, 2>>}
MCWeights == {<<1, 3>>}

=============================================================================
