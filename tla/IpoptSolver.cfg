CONSTANTS
    p = p
    x1 = x1
    x2 = x2
    None = None
    Param = {p}
    Var = {x1, x2}
    VarIndex <- MCIndex
    Num <- MCNum
    Objectives <- MCObjectives
    Constraints <- MCConstraints
    Bounds <- MCBounds
    Widest <- MCWidest
    Kinds = {"cppad", "asl"}
    Points <- MCPoints
    Weights <- MCWeights
    MaxViews = 1
    MaxChanges = 1
SPECIFICATION Spec
INVARIANTS TypeOK ClientAnswersExact CallbacksExact ResolveSeesPresent OnlyAslOutgrows
PROPERTIES FixedStay SolutionsInBounds StartsAtModel
CHECK_DEADLOCK FALSE
