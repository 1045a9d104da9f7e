CONSTANTS
    e = e
    f = f
    g = g
    x = x
    Handle <- MCHandle
    Leaf <- MCLeaf
    MaxTerms = 4
SYMMETRY Alike
SPECIFICATION Spec
INVARIANTS TypeOK PrefixIntact NoLeaks
PROPERTIES OnlyTheLongestEmpties
