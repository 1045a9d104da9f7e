--------------------------- MODULE MCCompactModel ---------------------------
(* Given sets and a product of them; a sequence over the product, one over *)
(* two loops with a sum inside, and a model with a variable, both of them  *)
(* and an expression that is no sequence: one over no loops.               *)
EXTENDS CompactModel

CONSTANTS i1, i2, i3, i4, p

Loop(indices, set) == [indices |-> indices, set |-> set]

Factors == <<VectorSet(<<2, 1, 2>>), RangeSet(1, 3, 2)>>
MCGiven == Append(Factors, Derived(Factors, "product", 1, 2))
MCIndex == {i1, i2, i3, i4}
MCLoops == << <<Loop(<<i1, i2>>, 3)>>, <<Loop(<<i1>>, 1), Loop(<<i2>>, 2)>>,
              <<Loop(<<i3>>, 1)>>, <<>> >>
MCSeqs == << [context |-> 1, template |-> <<i2, i1, p>>],
             [context |-> 2, template |-> <<i1, 3, i2>>],
             [context |-> 3, template |-> <<i1, i3>>],
             [context |-> 4, template |-> <<p>>] >>
MCMore == {[context |-> 1, loop |-> Loop(<<i3>>, 1)], [context |-> 3, loop |-> Loop(<<i4>>, 2)]}
MCEntries == << [var |-> p, seq |-> 0], [var |-> 0, seq |-> 1], [var |-> 0, seq |-> 2],
                [var |-> 0, seq |-> 4] >>
=============================================================================
