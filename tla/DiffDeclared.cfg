CONSTANTS
    c = c
    x = x
    Param = {c}
    Var = {x}
    Prime = 7
    Fn <- MCFn
    Fun <- MCFun
    Ln10 = 3
    Leaves <- MCLeaves
    Operators <- Mistabled
    Points <- MCPoints
    MaxTerms = 1
SPECIFICATION Spec
INVARIANT DiffAsDeclared
CHECK_DEADLOCK FALSE
