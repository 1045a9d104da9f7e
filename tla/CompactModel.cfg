CONSTANTS
    i1 = i1
    i2 = i2
    i3 = i3
    i4 = i4
    p = p
    Given <- MCGiven
    Operations = {"union", "intersection", "difference", "symdiff", "product"}
    MaxDerived = 2
    Index <- MCIndex
    Param = {p}
    Num = {6, 7}
    Iter = {1}
    Expander = 0
    Seqs <- MCSeqs
    Loops <- MCLoops
    More <- MCMore
    Entries <- MCEntries
    MaxIterated = 0
SPECIFICATION Spec
INVARIANTS SetsExact IteratesInOrder
PROPERTIES InitializedStay ExpandExact ExpandEnds
CHECK_DEADLOCK FALSE
