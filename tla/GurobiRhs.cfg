CONSTANTS
    p = p
    q = q
    x = x
    y = y
    m1 = m1
    NaN = NaN
    None = None
    Null = Null
    Param <- OneParam
    Var <- OneVar
    Num <- Bits
    Models <- OneModel
    Exprs <- RhsExprs
    Lower <- LowerOne
    Upper <- NoBounds
    VarLower <- Zero
    VarUpper <- PlusOne
    Tol = 0
    MaxLoads = 1
SPECIFICATION Spec
PROPERTIES ResolvesAreOptimal
CHECK_DEADLOCK FALSE
