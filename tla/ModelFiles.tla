----------------------------- MODULE ModelFiles -----------------------------
(***************************************************************************)
(* A client that declares variables, changes and renames them, looks them  *)
(* up by name, and writes the model to files (coek/model/model.cpp).       *)
(* Variables of arrays and maps have generated names: at once, or, under   *)
(* the lazy policy, whenever names are generated or the model is written.  *)
(***************************************************************************)
EXTENDS ModelWriters

CONSTANTS
    Names,      \* the names of variables
    FirstNames, \* the name each variable is created with
    Arrays,     \* the variables that belong to arrays or maps
    Generated,  \* the name generate_names() gives each of them
    Models,     \* the models a client builds: [declared, objectives, constraints, policy]
    Attributes, \* what a client gives variables: [fixed, kind, lo, hi, value]
    Points,     \* values of columns the files are read with
    MaxChanges  \* bound: changes by the client

ASSUME ArraysType == Arrays \subseteq Var /\ Generated \in [Arrays -> Names]
ASSUME NamesType == FirstNames \in [Var -> Names]
ASSUME ModelsType ==
    \A m \in Models : m.declared \in Seq(Var) /\ m.constraints \in Seq(ToSet(m.constraints))
ASSUME NoneIsNoVariable == None \notin Var
ASSUME AttributesType == \A a \in Attributes : a.kind \in {"real", "integer", "binary"}

VARIABLES
    name,       \* VariableTerm::name
    policy,     \* name_generation_policy
    byName,     \* variables_by_name
    found,      \* the last answer of get_variable(name), until then too
    renamed,    \* history: variables renamed since the names were collected
    file,       \* the file last written, until the client does anything else
    varmap, conmap,     \* the client's maps, for every write
    changes     \* number of changes

model == <<declared, objectives, constraints, attr>>
names == <<name, policy, byName, found, renamed>>
vars == <<model, names, file, varmap, conmap, changes>>

Init ==
    /\ \E m \in Models :
        /\ declared = m.declared
        /\ objectives = m.objectives
        /\ constraints = m.constraints
        /\ policy = m.policy
    /\ \E a \in Attributes : attr = [v \in Var |-> a]
    /\ name = FirstNames
    /\ byName = <<>> /\ found = None /\ renamed = {}
    /\ file = None
    /\ varmap = <<>> /\ conmap = <<>>
    /\ changes = 0

Change ==
    /\ changes < MaxChanges
    /\ changes' = changes + 1
    /\ found' = None /\ file' = None
    /\ UNCHANGED <<objectives, constraints, byName, varmap, conmap>>

AddVariable(v) ==
    /\ declared' = Append(declared, v)
    /\ Change
    /\ UNCHANGED <<attr, name, policy, renamed>>

SetAttributes(v, a) ==
    /\ attr[v] # a
    /\ attr' = [attr EXCEPT ![v] = a]
    /\ Change
    /\ UNCHANGED <<declared, name, policy, renamed>>

Rename(v, n) ==
    /\ name[v] # n
    /\ name' = [name EXCEPT ![v] = n]
    /\ renamed' = renamed \cup {v}
    /\ Change
    /\ UNCHANGED <<declared, attr, policy>>

(* name_generation(): nothing is generated or collected by it.  The eager  *)
(* policy, which the code never asks for, is like the simple one.          *)
NameGeneration(p) ==
    /\ policy # p
    /\ policy' = p
    /\ Change
    /\ UNCHANGED <<declared, attr, name, renamed>>

-----------------------------------------------------------------------------
(* Names of arrays' variables that are in the model.                       *)
GeneratedNames ==
    [v \in Var |-> IF policy = "lazy" /\ v \in Arrays \cap ToSet(declared)
                   THEN Generated[v] ELSE name[v]]

(* emplace(): the first of several variables with a name has it.           *)
Collect(nm) ==
    [n \in {nm[v] : v \in ToSet(declared)} |->
        declared[CHOOSE k \in DOMAIN declared :
                    nm[declared[k]] = n /\ \A i \in 1..(k - 1) : nm[declared[i]] # n]]

(* Mutant: names are collected once.                                       *)
OutdatedWhenEmpty == byName = <<>>

(* Names are collected again when there are less of them than variables.   *)
Outdated == Cardinality(DOMAIN byName) < Len(declared)

Refresh ==
    /\ name' = GeneratedNames
    /\ byName' = Collect(GeneratedNames)
    /\ renamed' = {}

GetVariable(n) ==
    /\ IF Outdated THEN Refresh ELSE UNCHANGED <<name, byName, renamed>>
    /\ found' = [name |-> n, var |-> IF n \in DOMAIN byName' THEN byName'[n] ELSE None]
    /\ file' = None
    /\ UNCHANGED <<model, policy, varmap, conmap, changes>>

GenerateNames ==
    /\ Refresh
    /\ found' = None
    /\ file' = None
    /\ UNCHANGED <<model, policy, varmap, conmap, changes>>

-----------------------------------------------------------------------------
(* write() generates names, and does not collect them.                     *)
WriteNames ==
    /\ name' = GeneratedNames
    /\ renamed' = renamed \cup {v \in Var : GeneratedNames[v] # name[v]}
    /\ found' = None
    /\ UNCHANGED <<model, policy, byName, changes>>

(* The file is opened first: it is lost when writing throws.               *)
WriteLP ==
    /\ WriteNames
    /\ file' = IF LPThrows THEN [format |-> "broken"] ELSE LPFile
    /\ varmap' = LPVarmap(varmap)
    /\ conmap' = LPConmap(conmap)

(* Nothing is opened when collecting throws.                               *)
WriteNL ==
    /\ WriteNames
    /\ file' = IF NLThrows THEN file ELSE NLFile
    /\ varmap' = NLVarmap(varmap)
    /\ conmap' = NLConmap(conmap)

Next ==
    \/ \E v \in Var : AddVariable(v)
    \/ \E v \in Var, a \in Attributes : SetAttributes(v, a)
    \/ \E v \in Var, n \in Names : Rename(v, n)
    \/ \E n \in Names : GetVariable(n)
    \/ \E p \in {"simple", "lazy"} : NameGeneration(p)
    \/ GenerateNames
    \/ WriteLP
    \/ WriteNL

Spec == Init /\ [][Next]_vars

-----------------------------------------------------------------------------
(* What a model means, at values of its variables.                         *)
Mul(seq, f(_)) == FoldLeft(LAMBDA acc, e : acc * f(e), 1, seq)

BodyAt(body, a) ==
    Sum(body, LAMBDA t : t.coef * Mul(t.vars, LAMBDA v : IF Fixed(v) THEN attr[v].value ELSE a[v]))

Meets(value, lower, upper) ==
    (lower # None => lower <= value) /\ (upper # None => value <= upper)

RowHolds(c, a) == Meets(BodyAt(c.body, a), c.lower, c.upper)

ObjectiveAt(a) == IF objectives = <<>> THEN 0 ELSE BodyAt(objectives[1].body, a)

Assignments == [Var -> Points]

(* What a reader of a file makes of it, at values of the columns.          *)
PartAt(part, x) ==
    LET cols == SetToSeq(DOMAIN part)
    IN  Sum(cols, LAMBDA c : part[c] * Mul(c, LAMBDA j : x[j]))

LinearAt(part, x) ==
    Sum(SetToSeq(DOMAIN part), LAMBDA c : part[c] * x[c])

Is(format) == file # None /\ file.format = format
Columns(vid, a) == [c \in {vid[v] : v \in DOMAIN vid} |->
                        a[CHOOSE v \in DOMAIN vid : vid[v] = c]]

(* The bounds the model gives a variable.                                  *)
OwnBounds(v) == [lo |-> attr[v].lo, hi |-> attr[v].hi]

(* Read with the columns of its variables, an LP file has the objective,   *)
(* the constraints, the bounds and the discrete variables of the model,    *)
(* whatever is fixed or declared twice (writer_lp.cpp:56-540).             *)
LPFileExact ==
    Is("lp") =>
        LET free == {v \in ToSet(declared) : ~Fixed(v)}
            vid == LPVid
        IN  /\ \A a \in Assignments :
                LET x == Columns(vid, a)
                IN  /\ PartAt(file.objective, x) + file.constant = ObjectiveAt(a)
                    /\ \A n \in DOMAIN constraints :
                        Meets(PartAt(file.rows[n].terms, x), file.rows[n].lower, file.rows[n].upper)
                            <=> RowHolds(constraints[n], a)
            /\ \A v \in free :
                CASE attr[v].kind = "binary" -> vid[v] \in file.binary
                  [] OTHER -> /\ file.bounds[vid[v]] = OwnBounds(v)
                              /\ vid[v] \in file.integer <=> attr[v].kind = "integer"

(* The discrete columns, as the counts of the header say: the last ones of *)
(* each kind of nonlinear columns, and of all columns.                     *)
DiscreteColumns(h) ==
    LET last(n, end) == (end - n)..(end - 1)
    IN  last(h.intBoth, h.varsBoth) \cup last(h.intCon, h.varsCon) \cup last(h.intObj, h.varsObj)
        \cup last(h.linearBinary + h.linearInteger, h.vars)

(* No discrete variable is nonlinear in constraints alone, or linear in one*)
(* place and nonlinear in another: the header miscounts those.             *)
Countable ==
    \A v \in NonlinearCon \cup NonlinearObj :
        attr[v].kind # "real" => v \notin LinearVars /\ v \in NonlinearObj

(* An NL file has the objective, the constraints, their ranges and the     *)
(* discrete variables of the model, with columns in the order the format   *)
(* wants them (writer_nl.cpp:642-980, 1085-1130).                          *)
NLFileExact ==
    Is("nl") => LET vid == NLVid IN
        /\ \A a \in Assignments :
            LET x == Columns(vid, a)
            IN  /\ PartAt(file.O, x) + file.constant + LinearAt(file.G, x) = ObjectiveAt(a)
                /\ \A n \in DOMAIN constraints :
                    Meets(PartAt(file.C[n], x) + LinearAt(file.J[n], x),
                          file.r[n].lower, file.r[n].upper)
                        <=> RowHolds(constraints[n], a)
        /\ Countable => DiscreteColumns(file.header) =
                            {vid[v] : v \in {w \in Used : attr[w].kind # "real"}}

(* The sections of an NL file agree: nonlinear terms have columns the      *)
(* header says are nonlinear, J and G have an entry for every column of a  *)
(* row, and the header and section k count them (writer_nl.cpp:840-1180).  *)
NLSegmentsAgree ==
    Is("nl") =>
        LET h == file.header
            occur(part) == UNION {ToSet(c) : c \in DOMAIN part}
            entries(c) == Cardinality({n \in DOMAIN file.J : c \in DOMAIN file.J[n]})
            upTo[c \in 0..h.vars] == IF c = 0 THEN entries(0) ELSE upTo[c - 1] + entries(c)
        IN  /\ UNION {occur(file.C[n]) : n \in DOMAIN file.C} = 0..(h.varsCon - 1)
            /\ occur(file.O) = (0..(h.varsBoth - 1)) \cup (h.varsCon..(h.varsObj - 1))
            /\ \A n \in DOMAIN file.C : occur(file.C[n]) \subseteq DOMAIN file.J[n]
            /\ occur(file.O) \subseteq DOMAIN file.G
            /\ h.nnzJacobian = Sum(file.J, LAMBDA row : Cardinality(DOMAIN row))
            /\ h.nnzGradient = Cardinality(DOMAIN file.G)
            /\ \A c \in DOMAIN file.k : file.k[c] = upTo[c]
            /\ DOMAIN file.b = 0..(h.vars - 1)

(* After a write the client's maps have, as model.hpp:267 says, the id of  *)
(* the variable of every column and, of an NL file, the id of the          *)
(* constraint of every row, whatever other writes left in them             *)
(* (writer_lp.cpp:333, writer_nl.cpp:716, 893-931).                        *)
MapsNameColumns ==
    /\ Is("lp") => \A v \in ToSet(declared) : varmap[LPVid[v]] = v
    /\ Is("nl") => LET vid == NLVid IN
        /\ \A v \in Used : varmap[vid[v]] = v
        /\ \A n \in DOMAIN constraints : conmap[n - 1] = constraints[n].id

(* A name that is looked up is that of the variable, and an unknown name   *)
(* is that of none, unless variables were renamed since the names were     *)
(* collected (model.cpp:224, 286-306).                                     *)
LookupsFollowNames ==
    found # None =>
        IF found.var # None
        THEN found.var \in ToSet(declared) /\ (name[found.var] = found.name \/ found.var \in renamed)
        ELSE \A v \in ToSet(declared) \ renamed : name[v] # found.name

-----------------------------------------------------------------------------
(* "varmap[i] contains the id of the i-th variable" (model.hpp:267) and    *)
(* the "b" section are "bounds on variables": the i-th bounds of an NL file*)
(* are those of the variable the map names for column i.                   *)
NLBoundsFollowColumns ==
    Is("nl") => \A c \in DOMAIN file.b : file.b[c] = OwnBounds(varmap[c])
=============================================================================
