CONSTANTS
    p = p
    q = q
    x = x
    y = y
    m1 = m1
    NaN = NaN
    None = None
    Null = Null
    Param <- NoParams
    Var <- TwoVars
    Num <- NotPositive
    Models <- OneModel
    Exprs <- FixedExprs
    Lower <- FixedLower
    Upper <- FixedUpper
    VarLower <- MinusOne
    VarUpper <- Zero
    Tol = 0
    MaxLoads = 1
SPECIFICATION Spec
PROPERTIES Implements
CHECK_DEADLOCK FALSE
