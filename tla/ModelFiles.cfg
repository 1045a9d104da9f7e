CONSTANTS
    None = None
    Var = {0, 1, 2}
    Inf = 1000
    Names = {"a", "b", "c"}
    FirstNames <- MCFirstNames
    Arrays <- MCArrays
    Generated <- MCGenerated
    Models <- MCModels
    Attributes <- MCAttributes
    Points <- MCPoints
    MaxChanges = 1
SPECIFICATION Spec
INVARIANTS LPFileExact NLFileExact NLSegmentsAgree MapsNameColumns LookupsFollowNames
CHECK_DEADLOCK FALSE
