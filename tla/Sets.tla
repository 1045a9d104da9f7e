-------------------------------- MODULE Sets --------------------------------
(***************************************************************************)
(* The index sets of compact models (coek/compact: ast_set, coek_sets).    *)
(* A set object is a place of `sets`.  A given set has its elements from   *)
(* the start; a derived one keeps its operands and fills `data` when it is *)
(* initialized: at once between ConcreteSets, on demand between            *)
(* AbstractSets.  An element is a tuple, of one value in a simple set.     *)
(***************************************************************************)
EXTENDS Integers, Sequences, FiniteSets, SequencesExt, Ranks, Sums

CONSTANTS
    Given,      \* the given sets
    Operations, \* the operators the client uses
    MaxDerived  \* bound: derived sets

ASSUME OperationsKnown ==
    Operations \subseteq {"union", "intersection", "difference", "symdiff", "product"}

VARIABLE sets

-----------------------------------------------------------------------------
(* The given sets.  A ListSet keeps its elements as they come, a VectorSet *)
(* each of them once, a RangeSet none: it computes them.                   *)
Simple(op, data) ==
    [op |-> op, l |-> 0, r |-> 0, data |-> data, init |-> TRUE, factors |-> <<>>, dim |-> 1]

Elements(raw) == [n \in DOMAIN raw |-> <<raw[n]>>]

ListSet(raw) == Simple("list", Elements(raw))

(* The items at the places in S, in their order.                           *)
Selected(items, S) ==
    LET order == InOrder(S) IN [n \in DOMAIN order |-> items[order[n]]]

(* What a loop adds that adds what is not there yet.                       *)
Added(data, items) ==
    data \o Selected(items, {n \in DOMAIN items :
                                /\ items[n] \notin ToSet(data)
                                /\ \A m \in 1..(n - 1) : items[m] # items[n]})

VectorSet(raw) == Simple("vector", Added(<<>>, Elements(raw)))

NumElements(start, stop, step) == ((stop - start) \div step) + 1

RangeSet(start, stop, step) ==
    [Simple("range", [i \in 1..NumElements(start, stop, step) |-> <<start + step * (i - 1)>>])
        EXCEPT !.factors = <<start, stop, step>>]

RangeContains(range, v) ==
    /\ range[1] <= v /\ v <= range[2]
    /\ (v - range[1]) % range[3] = 0

-----------------------------------------------------------------------------
(* A ProductSet is the flat list of its factors, which are simple sets.    *)
IsProduct(h, i) == h[i].op = "product"
IsCombined(h, i) == h[i].l # 0 /\ ~IsProduct(h, i)
FactorsOf(h, i) == IF IsProduct(h, i) THEN h[i].factors ELSE <<i>>

(* begin() .. end() of a product: the last factor advances first, and one  *)
(* that is through begins again when those before it have advanced.        *)
Extended(tuples, list) ==
    [k \in 1..(Len(tuples) * Len(list)) |->
        Append(tuples[1 + ((k - 1) \div Len(list))], list[1 + ((k - 1) % Len(list))][1])]

Tuples(lists) ==
    LET upto[d \in 0..Len(lists)] ==
            IF d = 0 THEN << <<>> >> ELSE Extended(upto[d - 1], lists[d])
    IN  upto[Len(lists)]

ItemsOf(h, i) ==
    IF IsProduct(h, i)
    THEN Tuples([k \in DOMAIN h[i].factors |-> h[h[i].factors[k]].data])
    ELSE h[i].data

SizeOf(h, i) ==
    IF IsProduct(h, i)
    THEN ProductOver([k \in DOMAIN h[i].factors |-> Len(h[h[i].factors[k]].data)],
                     DOMAIN h[i].factors)
    ELSE Len(h[i].data)

ContainsSimple(h, i, v) ==
    IF h[i].op = "range" THEN RangeContains(h[i].factors, v[1]) ELSE v \in ToSet(h[i].data)

(* contains() of a ProductSet asks its factors, and is not virtual: a      *)
(* combination of product sets, which has no factors, contains everything. *)
ContainsValue(h, i, v) ==
    CASE h[i].dim = 1 -> ContainsSimple(h, i, v)
      [] h[i].dim > 1 /\ IsProduct(h, i) ->
            \A k \in DOMAIN h[i].factors : ContainsSimple(h, h[i].factors[k], <<v[k]>>)
      [] OTHER -> TRUE

(* initialize(): what is added to a derived set, its operands being filled.*)
Filtered(h, i, asked, inside) ==
    LET items == ItemsOf(h, i)
    IN  Selected(items, {n \in DOMAIN items : ContainsValue(h, asked, items[n]) <=> inside})

Difference(h, l, r) == Filtered(h, l, r, FALSE)

(* Mutant: the right side is asked whichever is filtered.                  *)
IntersectionAsksRight(h, l, r) ==
    Filtered(h, IF SizeOf(h, l) <= SizeOf(h, r) THEN l ELSE r, r, TRUE)

Intersection(h, l, r) ==
    IF SizeOf(h, l) <= SizeOf(h, r) THEN Filtered(h, l, r, TRUE) ELSE Filtered(h, r, l, TRUE)

Filled(h, s) ==
    CASE s.op = "union" -> Added(s.data \o ItemsOf(h, s.l), ItemsOf(h, s.r))
      [] s.op = "intersection" -> s.data \o Intersection(h, s.l, s.r)
      [] s.op = "difference" -> s.data \o Difference(h, s.l, s.r)
      [] s.op = "symdiff" -> s.data \o Difference(h, s.l, s.r) \o Difference(h, s.r, s.l)

(* What initialize() of set i goes down to: operands and factors, and not  *)
(* below what was initialized before.                                      *)
Below(h, k) ==
    CASE IsCombined(h, k) /\ ~h[k].init -> {h[k].l, h[k].r}
      [] IsProduct(h, k) -> ToSet(h[k].factors)
      [] OTHER -> {}

Visited(h, i) ==
    {k \in 1..i : \A C \in SUBSET (1..i) :
                     i \in C /\ (\A c \in C : Below(h, c) \subseteq C) => k \in C}

(* Mutant: a set that was initialized is initialized again.                *)
NeededAgain(h, i) == {k \in Visited(h, i) : IsCombined(h, k)}

Needed(h, i) == {k \in Visited(h, i) : IsCombined(h, k) /\ ~h[k].init}

(* Nothing is left to initialize: the client has it as a ConcreteSet.      *)
Ready(h, i) == Needed(h, i) = {}

FilledAt(h, k) == [h EXCEPT ![k].data = Filled(h, h[k]), ![k].init = TRUE]

(* A set is filled when its operands are, which are in places before it.   *)
Initialized(h, i) ==
    LET needed == Needed(h, i)
        after[k \in 0..i] ==
            IF k = 0 THEN h
            ELSE IF k \in needed THEN FilledAt(after[k - 1], k) ELSE after[k - 1]
    IN  after[i]

(* A product is taken to be initialized when its operands are, and its own *)
(* initialize() does not say so.                                           *)
Derived(h, op, l, r) ==
    [op |-> op, l |-> l, r |-> r, data |-> <<>>,
     init |-> op = "product" /\ h[l].init /\ h[r].init,
     factors |-> IF op = "product" THEN FactorsOf(h, l) \o FactorsOf(h, r) ELSE <<>>,
     dim |-> IF op = "product" THEN h[l].dim + h[r].dim ELSE h[l].dim]

(* The operations a client can go through with: between sets of the same   *)
(* dimension, and products only of simple sets and of their products (a    *)
(* combination of product sets has no factors to go on with).              *)
Legal(h, op, l, r) ==
    IF op = "product"
    THEN \A i \in {l, r} : IsProduct(h, i) \/ h[i].dim = 1
    ELSE h[l].dim = h[r].dim

(* Iterating over a product with an empty factor throws.                   *)
Iterable(h, i) == IsProduct(h, i) => \A k \in DOMAIN h[i].factors : h[h[i].factors[k]].data # <<>>

CanInitialize(h, i) ==
    LET g == Initialized(h, i)
    IN  \A k \in Needed(h, i) : Iterable(g, g[k].l) /\ Iterable(g, g[k].r)

(* What the client is given: lists without repetitions (a ListSet would    *)
(* keep them, add_unique() does not look), vectors, ranges as the          *)
(* constructor asserts them to be, and products of these.                  *)
IsGiven(h, i) ==
    LET raw == [n \in DOMAIN h[i].data |-> h[i].data[n][1]]
        range == h[i].factors
    IN  \/ raw \in Seq(Int) /\ IsInjective(raw) /\ h[i] = ListSet(raw)
        \/ raw \in Seq(Int) /\ IsInjective(raw) /\ h[i] = VectorSet(raw)
        \/ /\ range \in Seq(Int) /\ Len(range) = 3 /\ range[1] < range[2] /\ range[3] > 0
           /\ h[i] = RangeSet(range[1], range[2], range[3])
        \/ /\ {h[i].l, h[i].r} \subseteq 1..(i - 1)
           /\ Legal(h, "product", h[i].l, h[i].r)
           /\ h[i] = Derived(h, "product", h[i].l, h[i].r)

ASSUME GivenSets ==
    /\ Given \in Seq(Range(Given)) /\ Given # <<>>
    /\ \A i \in DOMAIN Given : IsGiven(Given, i)

Places == 1..Len(sets)

SetInit == sets = Given

(* The operators of ConcreteSet, and those an AbstractSet takes part in.   *)
Derive(op, l, r, concrete) ==
    LET h == Append(sets, Derived(sets, op, l, r))
    IN  /\ Len(sets) < Len(Given) + MaxDerived
        /\ Legal(sets, op, l, r)
        /\ concrete => Ready(sets, l) /\ Ready(sets, r) /\ CanInitialize(h, Len(h))
        /\ sets' = IF concrete THEN Initialized(h, Len(h)) ELSE h

InitializeSet(i) ==
    /\ ~Ready(sets, i)
    /\ CanInitialize(sets, i)
    /\ sets' = Initialized(sets, i)

SetNext ==
    \/ \E op \in Operations, l, r \in Places, concrete \in BOOLEAN : Derive(op, l, r, concrete)
    \/ \E i \in Places : InitializeSet(i)

-----------------------------------------------------------------------------
(* What the sets are in mathematics; a pair of pairs is a flat tuple.      *)
Span(range) ==
    {<<range[1] + c * range[3]>> :
        c \in {n \in 0..(range[2] - range[1]) : range[1] + n * range[3] <= range[2]}}

MeaningOf(s, left, right) ==
    CASE s.op \in {"list", "vector"} -> ToSet(s.data)
      [] s.op = "range" -> Span(s.factors)
      [] s.op = "union" -> left \cup right
      [] s.op = "intersection" -> left \cap right
      [] s.op = "difference" -> left \ right
      [] s.op = "symdiff" -> (left \ right) \cup (right \ left)
      [] OTHER -> {v \o w : v \in left, w \in right}

Meaning(h) ==
    LET m[i \in 1..Len(h)] == MeaningOf(h[i], m[h[i].l], m[h[i].r])
    IN  m

(* Sets whose elements were found by asking a combination of product sets, *)
(* or are those of such sets.                                              *)
Asks(s) ==
    CASE s.op = "difference" -> {s.r}
      [] s.op \in {"intersection", "symdiff"} -> {s.l, s.r}
      [] OTHER -> {}

Misled(h, i, C) ==
    \/ \E k \in Asks(h[i]) : h[k].dim > 1 /\ IsCombined(h, k)
    \/ {h[i].l, h[i].r} \cap C # {}

AskedCombined(h) ==
    {i \in 1..Len(h) : \A C \in SUBSET (1..Len(h)) :
                          (\A k \in 1..Len(h) : Misled(h, k, C) => k \in C) => i \in C}

(* An initialized set has the elements its definition says, each of them   *)
(* once, in whatever order its operands came to be initialized, and its    *)
(* size is their number; those AskedCombined apart.                        *)
SetsExact ==
    \A i \in Places \ AskedCombined(sets) :
        Ready(sets, i) /\ Iterable(sets, i) =>
            /\ ToSet(ItemsOf(sets, i)) = Meaning(sets)[i]
            /\ SizeOf(sets, i) = Cardinality(Meaning(sets)[i])

(* The elements of an initialized set never change.                        *)
InitializedStay ==
    [][\A i \in Places : sets[i].init => sets'[i] = sets[i]]_sets
=============================================================================
