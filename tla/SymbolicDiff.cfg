CONSTANTS
    c = c
    x = x
    Param = {c}
    Var = {x}
    Prime = 7
    Fn <- MCFn
    Fun <- MCFun
    Ln10 = 3
    Leaves <- MCLeaves
    Operators <- MCOperators
    Points <- MCPoints
    MaxTerms = 3
SPECIFICATION Spec
INVARIANTS EveryUseSwept DiffExact
PROPERTY PartialsAreFinal
CHECK_DEADLOCK FALSE
