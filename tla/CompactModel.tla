---------------------------- MODULE CompactModel ----------------------------
(***************************************************************************)
(* Sequences of expressions over index sets, and the compact models made   *)
(* of them (coek/compact, coek/model/compact_model.cpp).  A template reads *)
(* index parameters, which its contexts own; an iterator writes their      *)
(* values as it goes and converts the template each time.  All iterators of*)
(* sequences with the same index parameters write the same ones.           *)
(*                                                                         *)
(* A template is abstracted to what it refers to: index parameters, data   *)
(* parameters, which stay in the converted expression, and sums over inner *)
(* sequences.  A converted template is the tuple of what became of them.   *)
(***************************************************************************)
EXTENDS Sets

CONSTANTS
    Index,      \* index parameters
    Param,      \* data parameters
    Num,        \* values of data parameters
    Iter,       \* iterators the client holds
    Expander,   \* the iterator expand() uses
    Seqs,       \* the sequences: number of the context and template
    Loops,      \* the contexts' loops: index parameters, and a set, 0 the last made
    More,       \* the loops Forall() may add, each with the number of a context
    Entries,    \* the model: variables with a parameter as bound, sequences
    MaxIterated \* bound: derived sets before the client makes its sequences

ASSUME OwnIterator == Expander \notin Iter

(* Bound: what is summed has no sums in it.                                *)
SequenceType ==
    [context : DOMAIN Loops, template : Seq(Index \cup Param \cup Num \cup DOMAIN Seqs)]

ASSUME SequencesType ==
    /\ Seqs \in Seq(SequenceType)
    /\ \A s \in DOMAIN Seqs : \A r \in ToSet(Seqs[s].template) \cap DOMAIN Seqs :
            ToSet(Seqs[r].template) \cap DOMAIN Seqs = {}

LoopType == [indices : Seq(Index), set : 0..Len(Given)]

ASSUME LoopsType ==
    /\ Loops \in Seq(Seq(LoopType)) /\ Loops # <<>>
    /\ \A m \in More : m.context \in DOMAIN Loops /\ m.loop \in LoopType /\ m.loop.set # 0

ASSUME EntriesType ==
    /\ Entries \in Seq([var : Param \cup Num \cup {0}, seq : 0..Len(Seqs)])
    /\ \A e \in DOMAIN Entries : Entries[e].var = 0 => Entries[e].seq # 0

VARIABLES
    context,    \* SequenceContextRepn, by number; <<>> before the client makes any
    ival,       \* the values of the index parameters
    pval,       \* the values of the data parameters
    iter,       \* the iterators
    bound,      \* the upper bounds of the model's variables, by entry
    entry,      \* the entry expand() is at, 0 when it is not running
    rows        \* the expanded model, until it is returned

modelVars == <<bound, entry, rows>>
vars == <<sets, context, ival, pval, iter, modelVars>>

Unused == [seq |-> 0]
Live(it) == iter[it].seq # 0
Running(it) == Live(it) /\ ~iter[it].done

-----------------------------------------------------------------------------
(* The loops of a context, flattened: an index parameter and the elements  *)
(* of a simple set each.                                                   *)
LoopsOf(c) ==
    Concatenated([n \in DOMAIN c |->
                    [k \in DOMAIN c[n].indices |->
                        [index |-> c[n].indices[k],
                         data |-> sets[FactorsOf(sets, c[n].set)[k]].data]]], Len(c))

(* What a client can iterate: as many index parameters as dimensions, and  *)
(* initialized sets that are neither empty nor combinations of products.   *)
(* Bound: a context has no index parameter twice.                          *)
CanIterate(c) ==
    /\ \A n \in DOMAIN c :
        LET factors == FactorsOf(sets, c[n].set)
        IN  /\ Ready(sets, c[n].set)
            /\ {Len(c[n].indices), Len(factors)} = {sets[c[n].set].dim}
            /\ \A k \in DOMAIN factors : sets[factors[k]].data # <<>>
    /\ IsInjective([k \in DOMAIN LoopsOf(c) |-> LoopsOf(c)[k].index])

IndicesOf(loops) == {loops[k].index : k \in DOMAIN loops}
First(loops) == [k \in DOMAIN loops |-> 1]

(* The index parameters after the loops from number k on were written.     *)
Written(v, loops, pos, k) ==
    LET moved == {n \in DOMAIN loops : n >= k}
    IN  [i \in DOMAIN v \cup {loops[n].index : n \in moved} |->
            IF \E n \in moved : loops[n].index = i
            THEN LET n == CHOOSE m \in moved : loops[m].index = i IN loops[n].data[pos[n]][1]
            ELSE v[i]]

(* The last loop that is not through; 0 when all are.                      *)
Unfinished(loops, pos) ==
    LET more == {k \in DOMAIN pos : pos[k] < Len(loops[k].data)}
    IN  IF more = {} THEN 0 ELSE CHOOSE n \in more : \A m \in more : m <= n

(* Mutant: a loop that is through does not begin again.                    *)
NextNoRestart(loops, pos) == [pos EXCEPT ![Unfinished(loops, pos)] = @ + 1]

(* operator++: the last loop advances; one that is through begins again and*)
(* the one before advances.                                                *)
NextPosition(loops, pos) ==
    LET k == Unfinished(loops, pos)
    IN  [n \in DOMAIN pos |-> IF n < k THEN pos[n] ELSE IF n = k THEN pos[n] + 1 ELSE 1]

Positions(loops) ==
    Tuples([k \in DOMAIN loops |-> [n \in DOMAIN loops[k].data |-> <<n>>]])

(* convert_expr_template(): index parameters become their values of now, a *)
(* data parameter stays.                                                   *)
ConvertLeaf(r, v) == IF r \in Index THEN v[r] ELSE r

(* A sum is iterated in place.                                             *)
ConvertSum(s, v) ==
    LET loops == LoopsOf(context[Seqs[s].context])
        all == Positions(loops)
    IN  [k \in DOMAIN all |->
            [n \in DOMAIN Seqs[s].template |->
                ConvertLeaf(Seqs[s].template[n], Written(v, loops, all[k], 1))]]

(* Which leaves its index parameters at the first elements of their sets.  *)
AfterSum(s, v) ==
    LET loops == LoopsOf(context[Seqs[s].context])
    IN  Written(v, loops, First(loops), 1)

SumsIn(t) == {t[n] : n \in {m \in DOMAIN t : t[m] \in DOMAIN Seqs}}

(* Index parameters the sums of a template write.                          *)
SumIndices(t) == UNION {IndicesOf(LoopsOf(context[Seqs[r].context])) : r \in SumsIn(t)}

(* The index parameters after the first n parts of a template are          *)
(* converted: the last sum that writes one leaves its value.               *)
AfterParts(t, v, n) ==
    [i \in DOMAIN v \cup SumIndices(SubSeq(t, 1, n)) |->
        LET last == {m \in 1..n : i \in SumIndices(<<t[m]>>)}
        IN  IF last = {} THEN v[i] ELSE AfterSum(t[Max(last)], v)[i]]

Convert(t, v) ==
    [n \in DOMAIN t |->
        IF t[n] \in DOMAIN Seqs THEN ConvertSum(t[n], AfterParts(t, v, n - 1))
        ELSE ConvertLeaf(t[n], AfterParts(t, v, n - 1))]

-----------------------------------------------------------------------------
(* History: an iterator is alone until another writes its index parameters;*)
(* what it yielded is kept until then.                                     *)
Disturbed(it, written) ==
    [j \in DOMAIN iter |->
        IF j # it /\ Live(j) /\ IndicesOf(iter[j].loops) \cap written # {}
        THEN [iter[j] EXCEPT !.alone = FALSE, !.yielded = <<>>] ELSE iter[j]]

(* What can be iterated: its sets can, and those of its sums, and its      *)
(* template reads the index parameters of its loops and, in a sum, of the  *)
(* sum's loops: not what is there to be summed only.                       *)
Proper(s) ==
    LET t == Seqs[s].template
        reads(u) == ToSet(u) \cap Index
        loops(r) == LoopsOf(context[Seqs[r].context])
    IN  /\ \A r \in {s} \cup SumsIn(t) : CanIterate(context[Seqs[r].context])
        /\ reads(t) \subseteq IndicesOf(loops(s))
        /\ \A r \in SumsIn(t) :
                reads(Seqs[r].template) \subseteq IndicesOf(loops(r)) \cup IndicesOf(loops(s))

(* An iterator that begins writes all its index parameters, whatever other *)
(* iterators left in them.                                                 *)
Begin(it, s) ==
    LET t == Seqs[s].template
    IN  \E loops \in {LoopsOf(context[Seqs[s].context])} :
        \E v \in {Written(ival, loops, First(loops), 1)} :
        \E item \in {Convert(t, v)} :
           /\ ival' = AfterParts(t, v, Len(t))
           /\ iter' = [Disturbed(it, IndicesOf(loops) \cup SumIndices(t)) EXCEPT ![it] =
                 [seq |-> s, loops |-> loops, pos |-> First(loops), done |-> FALSE,
                  item |-> item, yielded |-> <<item>>,
                  alone |-> IndicesOf(loops) \cap SumIndices(t) = {}]]

(* operator++ writes the index parameters of the loops it moves only.      *)
Advance(it) ==
    LET i == iter[it]
        t == Seqs[i.seq].template
        moved(k) == {i.loops[n].index : n \in {m \in DOMAIN i.pos : m >= k}}
    IN  \E k \in {Unfinished(i.loops, i.pos)} :
        IF k = 0
        THEN /\ ival' = Written(ival, i.loops, First(i.loops), 1)
             /\ iter' = [Disturbed(it, moved(1)) EXCEPT ![it].done = TRUE]
        ELSE \E pos \in {NextPosition(i.loops, i.pos)} :
             \E v \in {Written(ival, i.loops, pos, k)} :
             \E item \in {Convert(t, v)} :
                /\ ival' = AfterParts(t, v, Len(t))
                /\ iter' = [Disturbed(it, moved(k) \cup SumIndices(t)) EXCEPT
                      ![it].pos = pos, ![it].item = item,
                      ![it].yielded = IF i.alone THEN Append(@, item) ELSE @]

-----------------------------------------------------------------------------
Init ==
    /\ SetInit
    /\ context = <<>>
    /\ ival = [i \in Index |-> 0]
    /\ pval \in [Param -> Num]
    /\ iter = [it \in Iter \cup {Expander} |-> Unused]
    /\ bound = [e \in DOMAIN Entries |-> Entries[e].var]
    /\ entry = 0
    /\ rows = <<>>

(* Bound: the client makes its sets, then its contexts and sequences.      *)
MakeSets ==
    /\ context = <<>>
    /\ SetNext
    /\ UNCHANGED <<context, ival, pval, iter, modelVars>>

MakeContexts ==
    /\ context = <<>>
    /\ Len(sets) <= Len(Given) + MaxIterated
    /\ context' = [c \in DOMAIN Loops |->
                      [n \in DOMAIN Loops[c] |->
                          [Loops[c][n] EXCEPT !.set = IF @ = 0 THEN Len(sets) ELSE @]]]
    /\ UNCHANGED <<sets, ival, pval, iter, modelVars>>

(* Forall() of a context someone has: the context is shared, not copied.   *)
(* An iterator goes on with the loops it has, but a sum has the new one.   *)
Forall(more) ==
    LET c == more.context
        longer == Append(context[c], more.loop)
    IN  /\ entry = 0 /\ context # <<>>
        /\ Len(context[c]) = Len(Loops[c])
        /\ CanIterate(context[c]) => CanIterate(longer)
        /\ context' = [context EXCEPT ![c] = longer]
        /\ iter' = [it \in DOMAIN iter |->
                      IF Live(it) /\ \E r \in SumsIn(Seqs[iter[it].seq].template) : Seqs[r].context = c
                      THEN [iter[it] EXCEPT !.alone = FALSE, !.yielded = <<>>] ELSE iter[it]]
        /\ UNCHANGED <<sets, ival, pval, modelVars>>

SetParam(p) ==
    /\ entry = 0 /\ context # <<>>
    /\ \E n \in Num \ {pval[p]} : pval' = [pval EXCEPT ![p] = n]
    /\ UNCHANGED <<sets, context, ival, iter, modelVars>>

BeginIter(it) ==
    /\ entry = 0 /\ context # <<>>
    /\ ~Running(it)
    /\ \E s \in DOMAIN Seqs : Proper(s) /\ Begin(it, s)
    /\ UNCHANGED <<sets, context, pval, modelVars>>

StepIter(it) ==
    /\ entry = 0
    /\ Running(it)
    /\ Advance(it)
    /\ UNCHANGED <<sets, context, pval, modelVars>>

-----------------------------------------------------------------------------
IsVariable(e) == Entries[e].var # 0

(* expand(), entry by entry.                                               *)
Expand ==
    /\ entry = 0 /\ context # <<>>
    /\ \A e \in DOMAIN Entries : ~IsVariable(e) => Proper(Entries[e].seq)
    /\ entry' = 1
    /\ UNCHANGED <<sets, context, ival, pval, iter, bound, rows>>

Evaluated(b) == IF b \in Param THEN pval[b] ELSE b

(* Mutant: a variable expanded before is passed by without going on.       *)
ExpandVariableOnce ==
    /\ entry \in DOMAIN Entries /\ IsVariable(entry)
    /\ IF bound[entry] \in Num
       THEN UNCHANGED <<bound, rows, entry>>
       ELSE /\ bound' = [bound EXCEPT ![entry] = Evaluated(@)]
            /\ rows' = Append(rows, <<entry>>)
            /\ entry' = entry + 1
    /\ UNCHANGED <<sets, context, ival, pval, iter>>

(* A variable is not copied: its bound becomes the value it has now.       *)
ExpandVariable ==
    /\ entry \in DOMAIN Entries /\ IsVariable(entry)
    /\ bound' = [bound EXCEPT ![entry] = Evaluated(@)]
    /\ rows' = Append(rows, <<entry>>)
    /\ entry' = entry + 1
    /\ UNCHANGED <<sets, context, ival, pval, iter>>

ExpandBegin ==
    /\ entry \in DOMAIN Entries /\ ~IsVariable(entry)
    /\ ~Live(Expander)
    /\ Begin(Expander, Entries[entry].seq)
    /\ UNCHANGED <<sets, context, pval, modelVars>>

ExpandNext ==
    /\ Running(Expander)
    /\ rows' = Append(rows, <<entry, iter[Expander].item>>)
    /\ Advance(Expander)
    /\ UNCHANGED <<sets, context, pval, bound, entry>>

(* Mutant: the loop is left at the last element, before it is added.       *)
ExpandEndEarly ==
    /\ Live(Expander) /\ Unfinished(iter[Expander].loops, iter[Expander].pos) = 0
    /\ iter' = [iter EXCEPT ![Expander] = Unused]
    /\ entry' = entry + 1
    /\ UNCHANGED <<sets, context, ival, pval, bound, rows>>

ExpandEnd ==
    /\ Live(Expander) /\ iter[Expander].done
    /\ iter' = [iter EXCEPT ![Expander] = Unused]
    /\ entry' = entry + 1
    /\ UNCHANGED <<sets, context, ival, pval, bound, rows>>

Return ==
    /\ entry = Len(Entries) + 1
    /\ entry' = 0
    /\ rows' = <<>>
    /\ UNCHANGED <<sets, context, ival, pval, iter, bound>>

Expanding == ExpandVariable \/ ExpandBegin \/ ExpandNext \/ ExpandEnd \/ Return

Next ==
    \/ MakeSets \/ MakeContexts
    \/ \E more \in More : Forall(more)
    \/ \E p \in Param : SetParam(p)
    \/ \E it \in Iter : BeginIter(it) \/ StepIter(it)
    \/ Expand \/ Expanding

(* expand() is a loop with nothing to wait for: once called it goes on.     *)
Spec == Init /\ [][Next]_vars /\ WF_vars(Expanding)

-----------------------------------------------------------------------------
(* The item of a position: nothing but the template and the position.      *)
At(loops, pos) ==
    [i \in IndicesOf(loops) |->
        LET k == CHOOSE n \in DOMAIN loops : loops[n].index = i IN loops[k].data[pos[k]][1]]

ItemAt(s, loops, pos) ==
    [n \in DOMAIN Seqs[s].template |->
        LET r == Seqs[s].template[n]
        IN  IF r \in DOMAIN Seqs THEN ConvertSum(r, At(loops, pos))
            ELSE ConvertLeaf(r, At(loops, pos))]

AllItems(s, loops) ==
    [k \in DOMAIN Positions(loops) |-> ItemAt(s, loops, Positions(loops)[k])]

(* An iterator no other one interfered with has gone through the elements  *)
(* of the product of its sets in their order, all of them when it is done, *)
(* and converted the template with the values of each.                     *)
IteratesInOrder ==
    \A it \in DOMAIN iter : Live(it) /\ iter[it].alone =>
        LET i == iter[it]
            all == AllItems(i.seq, i.loops)
        IN  i.yielded = IF i.done THEN all ELSE SubSeq(all, 1, Len(i.yielded))

(* The expanded model has a row for every variable and every element of a  *)
(* sequence, in their order, whatever iterators the client is in the middle*)
(* of, and every variable has a number as bound; unless a sum goes over an *)
(* index parameter of the sequence it is in, and so overwrites it.         *)
ExpectedRows(e) ==
    IF IsVariable(e) THEN <<<<e>>>>
    ELSE LET items == AllItems(Entries[e].seq, LoopsOf(context[Seqs[Entries[e].seq].context]))
         IN  [k \in DOMAIN items |-> <<e, items[k]>>]

OwnIndices(s) ==
    IndicesOf(LoopsOf(context[Seqs[s].context])) \cap SumIndices(Seqs[s].template) = {}

ExpandExact ==
    [][entry # 0 /\ entry' = 0 /\ (\A e \in DOMAIN Entries :
                                      ~IsVariable(e) => OwnIndices(Entries[e].seq)) =>
          /\ rows = Concatenated([e \in DOMAIN Entries |-> ExpectedRows(e)], Len(Entries))
          /\ \A e \in DOMAIN Entries : IsVariable(e) => bound[e] \in Num]_vars

(* Every expand() returns: the carries of the iterators come to an end.    *)
ExpandEnds == entry # 0 ~> entry = 0
=============================================================================
