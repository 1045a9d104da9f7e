----------------------------- MODULE PlusTerms ------------------------------
(***************************************************************************)
(* How sums are stored (coek/ast/expr_terms.cpp).  A PlusTerm is a prefix  *)
(* of a vector of terms: adding to the longest prefix of a vector appends  *)
(* to that vector and shares it, so that n additions cost n and not n*n.   *)
(* Terms are reference counted.  The destructor of the longest prefix      *)
(* empties the vector, which breaks the cycle that e += e makes.           *)
(*                                                                         *)
(* A client holds Expressions (handles) and adds, copies and drops them.   *)
(* Destroy is a destructor: it runs when nothing refers to a term, before  *)
(* the client's next call.                                                 *)
(***************************************************************************)
EXTENDS Integers, Sequences, Functions

CONSTANTS
    Handle,     \* the client's Expression objects
    Leaf,       \* terms that are no sums: variables, parameters, constants
    MaxTerms    \* bound: how many PlusTerms a client makes

(* Terms and vectors are numbered in the order they are made; a vector     *)
(* bears the number of the PlusTerm that made it.                          *)
Id == 1..MaxTerms
Ref == Leaf \cup Id

ASSUME LeavesAreNoTerms == Leaf # {} /\ Leaf \cap Int = {}
ASSUME TermsBounded == MaxTerms \in Nat

VARIABLES
    handle,     \* Expression::repn
    term,       \* live PlusTerm -> its vector (data) and its length (n)
    data,       \* live vector -> its elements
    made,       \* number of PlusTerms made so far
    built       \* history: live PlusTerm -> the sum it was made as

vars == <<handle, term, data, made, built>>

Live == DOMAIN term

(* What keeps a term alive: a handle, or an element of a vector.           *)
Referenced(t) ==
    \/ \E h \in Handle : handle[h] = t
    \/ \E d \in DOMAIN data : \E i \in 1..Len(data[d]) : data[d][i] = t

Quiescent == \A t \in Live : Referenced(t)

-----------------------------------------------------------------------------
Init ==
    /\ handle \in [Handle -> Leaf]
    /\ term = <<>>
    /\ data = <<>>
    /\ made = 0
    /\ built = <<>>

With(f, x, v) == [y \in DOMAIN f \cup {x} |-> IF y = x THEN v ELSE f[y]]

(* What there is of expression(0) .. expression(n - 1).                    *)
Elements(t) ==
    LET v == data[term[t].data]
    IN  SubSeq(v, 1, IF term[t].n <= Len(v) THEN term[t].n ELSE Len(v))

(* Expression::operator=.                                                  *)
Assign(h, r) ==
    /\ Quiescent
    /\ handle' = [handle EXCEPT ![h] = r]
    /\ UNCHANGED <<term, data, made, built>>

Copy == \E h, g \in Handle : Assign(h, handle[g])
Drop == \E h \in Handle, x \in Leaf : Assign(h, x)

(* A new PlusTerm, held by h, on all of vector d, which becomes contents;  *)
(* meant is the sum it stands for.                                         *)
MakeTerm(h, d, contents, meant) ==
    /\ Quiescent
    /\ made < MaxTerms
    /\ made' = made + 1
    /\ term' = With(term, made + 1, [data |-> d, n |-> Len(contents)])
    /\ data' = With(data, d, contents)
    /\ built' = With(built, made + 1, meant)
    /\ handle' = [handle EXCEPT ![h] = made + 1]

(* Mutant: any prefix may be extended, the longest or not.                 *)
SharesAny(lhs) == lhs \in Live

(* _lhs.get() && _lhs->n == _lhs->data->size()                             *)
Shares(lhs) == lhs \in Live /\ term[lhs].n = Len(data[term[lhs].data])

(* h = f + g, and h += g when h = f.                                       *)
Plus ==
    \E h, f, g \in Handle :
        LET lhs == handle[f]
            rhs == handle[g]
        IN  IF Shares(lhs)
            THEN MakeTerm(h, term[lhs].data, Append(data[term[lhs].data], rhs),
                          Append(built[lhs], rhs))
            ELSE MakeTerm(h, made + 1, <<lhs, rhs>>, <<lhs, rhs>>)

(* h = 2 + g: the constructor with a bool always makes a vector.           *)
PlusConstant ==
    \E h, g \in Handle, c \in Leaf : MakeTerm(h, made + 1, <<c, handle[g]>>, <<c, handle[g]>>)

(* Mutants: the vector is emptied by every prefix, or by none.             *)
EmptiedAlways(t) == [data EXCEPT ![term[t].data] = <<>>]
EmptiedNever(t) == data

(* if (data->size() == n) data->resize(0)                                  *)
Emptied(t) ==
    IF Len(data[term[t].data]) = term[t].n
    THEN [data EXCEPT ![term[t].data] = <<>>]
    ELSE data

(* Mutant: the vector goes with the term that made it, shared or not.      *)
StillUsedByMaker(t) == {d \in DOMAIN data : d # t}

(* The vectors some other term shares.                                     *)
StillUsed(t) == {term[u].data : u \in Live \ {t}}

(* ~NAryPrefixTerm(), and the end of the vector with its last prefix.      *)
Destroy ==
    \E t \in Live :
        /\ ~Referenced(t)
        /\ data' = Restrict(Emptied(t), StillUsed(t))
        /\ term' = Restrict(term, Live \ {t})
        /\ built' = Restrict(built, Live \ {t})
        /\ UNCHANGED <<handle, made>>

Next == Copy \/ Drop \/ Plus \/ PlusConstant \/ Destroy

Spec == Init /\ [][Next]_vars

-----------------------------------------------------------------------------
TypeOK ==
    /\ handle \in [Handle -> Leaf \cup Live]
    /\ made \in 0..MaxTerms
    /\ Live \subseteq 1..made
    /\ DOMAIN data = {term[t].data : t \in Live}
    /\ \A d \in DOMAIN data : \A i \in 1..Len(data[d]) : data[d][i] \in Leaf \cup Live
    /\ \A t \in Live : term[t].n \in 2..(MaxTerms + 1)
    /\ DOMAIN built = Live

(* A term sees the elements it was made of, or the emptied vector: what is *)
(* appended to the vector it shares never shows.                           *)
PrefixIntact == \A t \in Live : Elements(t) \in {built[t], <<>>}

(* A sum the client holds changes only when the longest sum that was made  *)
(* by adding to it is destroyed, never by the end of another sum.          *)
OnlyTheLongestEmpties ==
    [][\A t \in Live \cap Live' :
          Elements(t)' # Elements(t)
              => \E u \in Live \ Live' : /\ term[u].data = term[t].data
                                         /\ term[u].n > term[t].n
                                         /\ term[u].n = Len(data[term[u].data])]_vars

(* The terms a client can still get at.                                    *)
Reachable ==
    {t \in Live :
        \A S \in SUBSET Live :
            /\ \A h \in Handle : handle[h] \in Live => handle[h] \in S
            /\ \A u \in S : \A i \in 1..Len(data[term[u].data]) :
                  data[term[u].data][i] \in Live => data[term[u].data][i] \in S
            => t \in S}

(* No term outlives its last user, in a cycle of e += e or otherwise.      *)
NoLeaks == Quiescent => Reachable = Live
=============================================================================
