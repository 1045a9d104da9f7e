---------------------------- MODULE ModelWriters ----------------------------
(***************************************************************************)
(* What Model::write() puts into LP and NL files (coek/model/writer_lp.cpp,*)
(* writer_nl.cpp).  A file is a record of its sections; both writers number*)
(* columns and rows from 0.                                                *)
(*                                                                         *)
(* An expression is what the collecting visitors make of it: a sequence of *)
(* products [coef, vars] of variables in increasing order of id.           *)
(***************************************************************************)
EXTENDS Ranks, Sequences, SequencesExt

CONSTANTS
    Var,        \* the variables, by their id
    Inf,        \* COEK_INFINITY
    None        \* no bound, and NaN

ASSUME IdsAreNumbers == Var \subseteq Nat
ASSUME InfIsLarge == Inf \in Nat

VARIABLES
    declared,   \* ModelRepn::variables, as ids
    objectives, \* a sequence of [minimize, body]
    constraints,\* a sequence of [id, inequality, lower, upper, body]
    attr        \* per variable [fixed, kind, lo, hi, value]

-----------------------------------------------------------------------------
(* Bodies.                                                                 *)
Fixed(v) == attr[v].fixed
Sum(seq, f(_)) == FoldLeft(LAMBDA acc, e : acc + f(e), 0, seq)

(* Fixed variables become numbers, and products with a zero disappear.     *)
CollectedWith(at, body) ==
    LET free(t) == SelectSeq(t.vars, LAMBDA v : ~at[v].fixed)
        scale(t) ==
            FoldLeft(LAMBDA c, v : IF at[v].fixed THEN c * at[v].value ELSE c, t.coef, t.vars)
    IN  SelectSeq([k \in DOMAIN body |-> [coef |-> scale(body[k]), vars |-> free(body[k])]],
                  LAMBDA t : t.coef # 0)
Collected(body) == CollectedWith(attr, body)

OfDegree(terms, degrees) == SelectSeq(terms, LAMBDA t : Len(t.vars) \in degrees)
ConstVal(terms) == Sum(OfDegree(terms, {0}), LAMBDA t : t.coef)
VarsOf(terms, degrees) ==
    UNION {ToSet(terms[k].vars) : k \in {n \in DOMAIN terms : Len(terms[n].vars) \in degrees}}
VarsIn(terms) == UNION {ToSet(terms[k].vars) : k \in DOMAIN terms}

(* Mutant: the last coefficient of a product is kept.                      *)
SummedLast(terms, vid) ==
    LET columns(t) == SortSeq([k \in DOMAIN t.vars |-> vid[t.vars[k]]], <)
    IN  [c \in {columns(terms[k]) : k \in DOMAIN terms} |->
            terms[CHOOSE k \in DOMAIN terms :
                    /\ columns(terms[k]) = c
                    /\ \A n \in (k + 1)..Len(terms) : columns(terms[n]) # c].coef]

(* The coefficients of products of columns, summed over their appearances. *)
Summed(terms, vid) ==
    LET columns(t) == SortSeq([k \in DOMAIN t.vars |-> vid[t.vars[k]]], <)
    IN  [c \in {columns(terms[k]) : k \in DOMAIN terms} |->
            Sum(SelectSeq(terms, LAMBDA t : columns(t) = c), LAMBDA t : t.coef)]

-----------------------------------------------------------------------------
(* LP files.  A variable declared twice has the column of the second time. *)
LPVid ==
    [v \in ToSet(declared) |->
        (CHOOSE n \in DOMAIN declared :
            declared[n] = v /\ \A k \in (n + 1)..Len(declared) : declared[k] # v) - 1]

(* print_repn(): zero coefficients are not printed.                        *)
Printed(terms, vid) ==
    LET sum == Summed(OfDegree(terms, 1..9), vid)
    IN  [c \in {k \in DOMAIN sum : sum[k] # 0} |-> sum[c]]

(* QuadraticExpr refuses products of three; get_vid_value() variables that *)
(* are not declared.                                                       *)
Printable(body) ==
    \A t \in ToSet(Collected(body)) : Len(t.vars) <= 2 /\ ToSet(t.vars) \subseteq ToSet(declared)

Minus(bound, c) == IF bound = None THEN None ELSE bound - c

Equal(c) ==
    \/ ~c.inequality
    \/ c.lower # None /\ c.upper # None /\ c.lower = c.upper

LPRow(c) ==
    LET terms == Collected(c.body)
        rhs(bound) == Minus(bound, ConstVal(terms))
    IN  [terms |-> Printed(terms, LPVid), lower |-> rhs(c.lower),
         upper |-> rhs(IF Equal(c) THEN c.lower ELSE c.upper)]

(* Only variables that are not fixed have bounds, or are listed as binary  *)
(* or integer; a binary variable has no other bounds.                      *)
Listed(kind) == {LPVid[v] : v \in {w \in ToSet(declared) : ~Fixed(w) /\ attr[w].kind = kind}}

LPBounds ==
    [c \in Listed("real") \cup Listed("integer") |->
        LET v == CHOOSE w \in ToSet(declared) : LPVid[w] = c
        IN  [lo |-> attr[v].lo, hi |-> attr[v].hi]]

LPThrows ==
    \/ Len(objectives) # 1
    \/ ~Printable(objectives[1].body)
    \/ \E c \in ToSet(constraints) : ~Printable(c.body)

(* ONE_VAR_CONSTANT is a variable with the value 1.                        *)
LPFile ==
    LET terms == Collected(objectives[1].body)
    IN  [format |-> "lp", minimize |-> objectives[1].minimize,
         objective |-> Printed(terms, LPVid), constant |-> ConstVal(terms),
         rows |-> [n \in DOMAIN constraints |-> LPRow(constraints[n])],
         bounds |-> LPBounds, binary |-> Listed("binary"), integer |-> Listed("integer")]

(* A map that a write goes over, its other entries being as they were.     *)
Over(new, old) ==
    [k \in DOMAIN new \cup DOMAIN old |-> IF k \in DOMAIN new THEN new[k] ELSE old[k]]

(* The columns of declared variables, and the rows of constraints by id;   *)
(* a write that throws comes as far as the constraint it throws for.       *)
LPVarmap(old) ==
    IF Len(objectives) # 1 THEN old
    ELSE Over([c \in 0..(Len(declared) - 1) |-> declared[c + 1]], old)

LPConmap(old) ==
    LET bad == {n \in DOMAIN constraints : ~Printable(constraints[n].body)}
        last == IF bad = {} THEN Len(constraints) ELSE CHOOSE n \in bad : \A k \in bad : n <= k
        rowOf(id) == (CHOOSE n \in 1..last : constraints[n].id = id /\
                        \A k \in (n + 1)..last : constraints[k].id # id) - 1
    IN  IF Len(objectives) # 1 \/ ~Printable(objectives[1].body) THEN old
        ELSE Over([id \in {constraints[n].id : n \in 1..last} |-> rowOf(id)], old)

-----------------------------------------------------------------------------
(* NL files.  Of several objectives the first one is collected.            *)
Objective == IF objectives = <<>> THEN <<>> ELSE Collected(objectives[1].body)
Bodies == [n \in DOMAIN constraints |-> Collected(constraints[n].body)]

LinearVars ==
    VarsOf(Objective, {1}) \cup UNION {VarsOf(Bodies[n], {1}) : n \in DOMAIN Bodies}
NonlinearObj == VarsOf(Objective, 2..9)
NonlinearCon == UNION {VarsOf(Bodies[n], 2..9) : n \in DOMAIN Bodies}
Used == LinearVars \cup NonlinearObj \cup NonlinearCon

OfKind(S, kinds) == InOrder({v \in S : attr[v].kind \in kinds})
Continuous == {"real"}
Discrete == {"integer", "binary"}

(* Mutant: variables that are nonlinear in constraints only come first.    *)
NLColumnsConFirst ==
    LET both == NonlinearCon \cap NonlinearObj
        con == NonlinearCon \ both
        obj == NonlinearObj \ both
        linear == LinearVars \ (NonlinearCon \cup NonlinearObj)
    IN  OfKind(con, Continuous) \o OfKind(con, Discrete) \o
        OfKind(both, Continuous) \o OfKind(both, Discrete) \o
        OfKind(obj, Continuous) \o OfKind(obj, Discrete) \o
        OfKind(linear, Continuous) \o OfKind(linear, {"binary"}) \o OfKind(linear, {"integer"})

(* The columns: variables that are nonlinear in both, in constraints, in   *)
(* the objective, and linear ones; continuous before discrete.             *)
NLColumns ==
    LET both == NonlinearCon \cap NonlinearObj
        con == NonlinearCon \ both
        obj == NonlinearObj \ both
        linear == LinearVars \ (NonlinearCon \cup NonlinearObj)
    IN  OfKind(both, Continuous) \o OfKind(both, Discrete) \o
        OfKind(con, Continuous) \o OfKind(con, Discrete) \o
        OfKind(obj, Continuous) \o OfKind(obj, Discrete) \o
        OfKind(linear, Continuous) \o OfKind(linear, {"binary"}) \o OfKind(linear, {"integer"})

ColumnOf(columns) == [v \in ToSet(columns) |-> (CHOOSE n \in DOMAIN columns : columns[n] = v) - 1]
NLVid == LET columns == NLColumns IN ColumnOf(columns)

(* Sections J and G: linear coefficients, and zeros for other variables.   *)
LinearPart(terms, vid) ==
    LET linear == Summed(OfDegree(terms, {1}), vid)
    IN  [c \in {vid[v] : v \in VarsIn(terms)} |->
            IF <<c>> \in DOMAIN linear THEN linear[<<c>>] ELSE 0]

NonlinearPart(terms, vid) == Summed(OfDegree(terms, 2..9), vid)

(* Mutant: the constant of the body stays on its side.                     *)
NLRangeNoConst(c) ==
    CASE Equal(c) -> [code |-> 4, lower |-> c.lower, upper |-> c.lower]
      [] OTHER -> [code |-> IF c.lower = None THEN IF c.upper = None THEN 3 ELSE 1
                            ELSE IF c.upper = None THEN 2 ELSE 0,
                   lower |-> c.lower, upper |-> c.upper]

NLRange(c) ==
    LET rhs(bound) == Minus(bound, ConstVal(Collected(c.body)))
    IN  IF Equal(c) THEN [code |-> 4, lower |-> rhs(c.lower), upper |-> rhs(c.lower)]
        ELSE [code |-> IF c.lower = None THEN IF c.upper = None THEN 3 ELSE 1
                       ELSE IF c.upper = None THEN 2 ELSE 0,
              lower |-> rhs(c.lower), upper |-> rhs(c.upper)]

(* The counts of the header.  A variable counts as linear binary or integer*)
(* also when it is nonlinear elsewhere, and discrete variables nonlinear in*)
(* constraints count again with those of the objective.                    *)
NLHeader ==
    LET both == NonlinearCon \cap NonlinearObj
        con == NonlinearCon \ both
        obj == NonlinearObj \ both
        discrete(S) == Len(OfKind(S, Discrete))
        ranges(codes) ==
            Cardinality({n \in DOMAIN constraints : NLRange(constraints[n]).code \in codes})
    IN  [vars |-> Cardinality(Used), ranges |-> ranges({0}), equalities |-> ranges({4}),
         nonlCon |-> Cardinality({n \in DOMAIN Bodies : OfDegree(Bodies[n], 2..9) # <<>>}),
         varsCon |-> Cardinality(NonlinearCon),
         varsObj |-> Cardinality(NonlinearCon \cup NonlinearObj),
         varsBoth |-> Cardinality(both),
         linearBinary |-> Len(OfKind(LinearVars, {"binary"})),
         linearInteger |-> Len(OfKind(LinearVars, {"integer"})),
         intBoth |-> discrete(both), intCon |-> discrete(con),
         intObj |-> discrete(con) + discrete(obj),
         nnzJacobian |-> Sum([n \in DOMAIN Bodies |-> Cardinality(VarsIn(Bodies[n]))], LAMBDA n : n),
         nnzGradient |-> Cardinality(VarsIn(Objective))]

(* Section k: the entries of J up to each column but the last.             *)
KCount(J, n) ==
    [c \in 0..(n - 2) |->
        Cardinality({e \in (DOMAIN J) \X (0..c) : e[2] \in DOMAIN J[e[1]]})]

(* Sections x and b go through the variables in the order of their ids,    *)
(* with the place in that order as column.                                 *)
NLBounds ==
    LET used == InOrder(Used)
    IN  [c \in 0..(Len(used) - 1) |-> [lo |-> attr[used[c + 1]].lo, hi |-> attr[used[c + 1]].hi]]

NLValues ==
    LET used == InOrder(Used)
        values == [c \in 0..(Len(used) - 1) |-> attr[used[c + 1]].value]
    IN  [c \in {k \in DOMAIN values : values[k] # None} |-> values[c]]

NLThrows == ~(Used \subseteq ToSet(declared))

NLFile ==
    LET vid == NLVid
        bodies == Bodies
        J == [n \in DOMAIN bodies |-> LinearPart(bodies[n], vid)]
    IN  [format |-> "nl", header |-> NLHeader,
         C |-> [n \in DOMAIN bodies |-> NonlinearPart(bodies[n], vid)],
         O |-> NonlinearPart(Objective, vid), constant |-> ConstVal(Objective),
         minimize |-> objectives = <<>> \/ objectives[1].minimize,
         x |-> NLValues, r |-> [n \in DOMAIN constraints |-> NLRange(constraints[n])],
         b |-> NLBounds, k |-> KCount(J, Cardinality(Used)), J |-> J, G |-> LinearPart(Objective, vid)]

NLConmap(old) == Over([n \in 0..(Len(constraints) - 1) |-> constraints[n + 1].id], old)

(* Mutant: the map has the variables by id.                                *)
NLVarmapById(old) ==
    LET used == InOrder(Used)
    IN  IF NLThrows THEN old ELSE Over([c \in 0..(Len(used) - 1) |-> used[c + 1]], old)

NLVarmap(old) ==
    LET columns == NLColumns
    IN  IF NLThrows THEN old ELSE Over([c \in 0..(Len(columns) - 1) |-> columns[c + 1]], old)
=============================================================================
