---------------------------- MODULE MCExprVisitors --------------------------
(* Small expressions over a parameter and two variables, one of which may  *)
(* be fixed, in the field of seven elements.                               *)
EXTENDS ReaderJPOF

CONSTANTS p, x, y

MCParam == {p}
MCVar == {x, y}
MCFn == [n \in 0..6 |-> (n * n * n + n + 3) % 7]
MCConstants == {0, 2}
MCFixedSets == {{}, {x}}
Valuation(i, j, k) == [a \in {p, x, y} |-> CASE a = p -> i [] a = x -> j [] a = y -> k]
MCValuations == {Valuation(2, 3, 4), Valuation(0, 1, 3), Valuation(3, 0, 6)}
=============================================================================
