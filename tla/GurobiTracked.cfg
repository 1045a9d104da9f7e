CONSTANTS
    p = p
    q = q
    x = x
    y = y
    m1 = m1
    NaN = NaN
    None = None
    Null = Null
    Param <- TwoParams
    Var <- OneVar
    Num <- Signs
    Models <- OneModel
    Exprs <- TrackedExprs
    Lower <- TrackedLower
    Upper <- TrackedUpper
    VarLower <- MinusOne
    VarUpper <- PlusOne
    Tol = 0
    MaxLoads = 1
SPECIFICATION Spec
INVARIANTS Inv
PROPERTIES Implements
CHECK_DEADLOCK FALSE
