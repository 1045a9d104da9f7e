CONSTANTS
    p = p
    y = y
    m1 = m1
    m2 = m2
    NaN = NaN
    Param = {p}
    Var = {y}
    Num <- MCNum
    Models = {m1, m2}
    Exprs <- MCExprs
    Tol = 1
    MaxLoads = 2
SPECIFICATION Spec
INVARIANTS TypeOK PushedNearCache
PROPERTIES ResolveFresh QuietResolve
