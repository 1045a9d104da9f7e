CONSTANTS
    p = p
    x = x
    y = y
    Param <- MCParam
    Var <- MCVar
    Prime = 7
    Fn <- MCFn
    Constants <- MCConstants
    FixedSets <- MCFixedSets
    Valuations <- MCValuations
    MaxSteps = 6
SPECIFICATION Spec
INVARIANTS QuadraticExactOfQuotientsFirst NLPExact MutableMarked SimplifyExact OperatorsExact ConstraintsExact TextsReadBack JPOFExact
CHECK_DEADLOCK FALSE
