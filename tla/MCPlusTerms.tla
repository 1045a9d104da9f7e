----------------------------- MODULE MCPlusTerms ----------------------------
(* A small instance of PlusTerms: three expressions over one variable.     *)
EXTENDS PlusTerms, TLC

CONSTANTS e, f, g, x

MCHandle == {e, f, g}
MCLeaf == {x}

(* The expressions are alike.                                              *)
Alike == Permutations(MCHandle)
=============================================================================
