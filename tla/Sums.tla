-------------------------------- MODULE Sums --------------------------------
(***************************************************************************)
(* Sums and products of f[x] for the x of a finite set, as the loops of    *)
(* the solvers compute them, and sequences joined end to end.              *)
(***************************************************************************)
EXTENDS Integers, Sequences

Combine(op, i, j) == IF op = "+" THEN i + j ELSE i * j

Neutral(op) == IF op = "+" THEN 0 ELSE 1

FoldOver(op, f, S) ==
    LET fold[T \in SUBSET S] ==
            IF T = {} THEN Neutral(op)
            ELSE LET first == CHOOSE e \in T : TRUE
                 IN  Combine(op, f[first], fold[T \ {first}])
    IN  fold[S]

SumOver(f, S) == FoldOver("+", f, S)

ProductOver(f, S) == FoldOver("*", f, S)

(* R[1] \o R[2] \o ... \o R[n]                                             *)
Concatenated(R, n) ==
    LET upto[j \in 0..n] == IF j = 0 THEN <<>> ELSE upto[j - 1] \o R[j]
    IN  upto[n]
=============================================================================
