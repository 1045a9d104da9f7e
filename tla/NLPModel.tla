------------------------------ MODULE NLPModel ------------------------------
(***************************************************************************)
(* coek::NLPModel: a view of a model that computes values and derivatives  *)
(* (coek/model/nlp_model.*, coek/autograd).  The view is built once by     *)
(* initialize(), which finds the variables that are used, records the      *)
(* functions with parameters and fixed variables substituted, and finds    *)
(* where the derivatives have entries.  reset() refreshes part of that.    *)
(*                                                                         *)
(* Two back ends: CppAD_Repn, where one cache holds objectives and         *)
(* constraints, reset() keeps the variables and the sparsity, and reverse  *)
(* sweeps happen at the point of the last forward sweep; and ASL_Repn,     *)
(* with a cache for each, whose reset() starts over.  CppAD and the ASL    *)
(* are external: what is modelled is when they are called and at which     *)
(* point, and that they differentiate polynomials correctly.               *)
(*                                                                         *)
(* This module holds the view as a record and the operations on it.        *)
(* CppAD_Repn::simplify_expressions is always true here: nothing sets it.  *)
(***************************************************************************)
EXTENDS Ranks, Sums, SequencesExt

CONSTANTS
    Param,          \* the parameters
    Var,            \* the variables
    VarIndex,       \* VariableTerm::index, increasing in order of creation
    Num,            \* the numbers a value may take (integers)
    Objectives,     \* the objectives of the model, a sequence of expressions
    Constraints     \* the bodies of its constraints

Atom == Param \cup Var

(***************************************************************************)
(* An expression is a sequence of products, each a coefficient and the     *)
(* power of each atom.  After substitution the atoms are column numbers.   *)
(***************************************************************************)
Fns == Objectives \o Constraints
nf == Len(Objectives)
nc == Len(Constraints)

ASSUME ViewAtomsApart == Param \cap Var = {}
ASSUME ViewNumbers == Num \subseteq Int
ASSUME VariablesOrdered ==
    /\ IsFiniteSet(Param) /\ IsFiniteSet(Var)
    /\ VarIndex \in [Var -> Nat]
    /\ \A v, w \in Var : v # w => VarIndex[v] # VarIndex[w]
ASSUME FnsType ==
    LET terms == [coef : Int \ {0}, pow : [Atom -> Nat]]
    IN  Objectives \in Seq(Seq(terms)) /\ Constraints \in Seq(Seq(terms))

VARIABLES
    val,    \* the current value of every parameter and variable
    fixed   \* the variables whose fixed flag is set

-----------------------------------------------------------------------------
(* Polynomials, their values and derivatives.                              *)

Power(b, n) ==
    LET power[k \in 0..n] == IF k = 0 THEN 1 ELSE b * power[k - 1]
    IN  power[n]

Powers(x, pow, S) == ProductOver([a \in S |-> Power(x[a], pow[a])], S)

TermAt(t, x) == t.coef * Powers(x, t.pow, DOMAIN t.pow)

At(e, x) == SumOver([k \in DOMAIN e |-> TermAt(e[k], x)], DOMAIN e)

Derivative(e, a) ==
    [k \in DOMAIN e |->
        [coef |-> e[k].coef * e[k].pow[a],
         pow  |-> [e[k].pow EXCEPT ![a] = IF @ = 0 THEN 0 ELSE @ - 1]]]

Gradient(e, x) == [a \in DOMAIN x |-> At(Derivative(e, a), x)]

-----------------------------------------------------------------------------
(* NLPModelRepn::find_used_variables: unfixed variables, in index order.   *)

Occurs(a) == \E i \in DOMAIN Fns : \E k \in DOMAIN Fns[i] : Fns[i][k].pow[a] > 0

Rank(v, S) == Cardinality({w \in S : VarIndex[w] <= VarIndex[v]})

InIndexOrder(S) == [j \in 1..Cardinality(S) |-> CHOOSE v \in S : Rank(v, S) = j]

(* Mutant: fixed variables are used variables.                             *)
UsedVariablesAll == InIndexOrder({v \in Var : Occurs(v)})

UsedVariables == InIndexOrder({v \in Var \ fixed : Occurs(v)})

(***************************************************************************)
(* The column of a variable.  visit_VariableTerm() looks it up with        *)
(* operator[], which makes a 0 for a variable that is not there: the first *)
(* column.                                                                 *)
(***************************************************************************)
Column(used, v) ==
    IF v \in ToSet(used) THEN CHOOSE j \in DOMAIN used : used[j] = v ELSE 1

(***************************************************************************)
(* simplify_expr() replaces parameters and fixed variables by their values *)
(* and a product with a zero by zero; build_expression() then records the  *)
(* operations on the columns.  at has the values and the fixed flags.      *)
(***************************************************************************)
Coefficient(t, at) == t.coef * Powers(at.val, t.pow, Param \cup at.fixed)

Substituted(t, used, at) ==
    [coef |-> Coefficient(t, at),
     pow  |-> [j \in DOMAIN used |->
                  SumOver(t.pow, {v \in Var \ at.fixed : Column(used, v) = j})]]

Recorded(e, used, at) ==
    LET terms == [k \in DOMAIN e |-> Substituted(e[k], used, at)]
        kept == InOrder({k \in DOMAIN e : terms[k].coef # 0})
    IN  [n \in DOMAIN kept |-> terms[kept[n]]]

Tape(used, at) == [i \in DOMAIN Fns |-> Recorded(Fns[i], used, at)]

(* The entries of the Jacobian and of the lower triangle of the Hessian.   *)
JacobianPattern(tape, n) ==
    {e \in (1..nc) \X (1..n) :
        \E k \in DOMAIN tape[nf + e[1]] : tape[nf + e[1]][k].pow[e[2]] > 0}

Interact(t, j, k) == IF j = k THEN t.pow[j] > 1 ELSE t.pow[j] > 0 /\ t.pow[k] > 0

HessianPattern(tape, n) ==
    {e \in (1..n) \X (1..n) :
        /\ e[2] <= e[1]
        /\ \E i \in DOMAIN tape : \E m \in DOMAIN tape[i] :
              Interact(tape[i][m], e[1], e[2])}

AllEntries(n, m) == (1..n) \X (1..m)

LowerTriangle(n) == {e \in AllEntries(n, n) : e[2] <= e[1]}

-----------------------------------------------------------------------------
(***************************************************************************)
(* The view.  currx, the caches and their flags are the fields of the      *)
(* classes.  For CppAD, fpoint = cpoint is where the last forward sweep    *)
(* was (<<>>: none since the functions were recorded).  For the ASL they   *)
(* are where objval() and conval() were last called.  at and since are     *)
(* history: the values and fixed flags the functions were recorded for,    *)
(* and the fixed flags when the columns were chosen.                       *)
(***************************************************************************)
CurrentPoint(used) == [j \in DOMAIN used |-> val[used[j]]]

Now == [val |-> val, fixed |-> fixed]

(* Mutant: constraint values are kept when the point moves.                *)
SetVariablesOfF(n, x) == [n EXCEPT !.currx = x, !.fvalid = FALSE]

SetVariables(n, x) == [n EXCEPT !.currx = x, !.fvalid = FALSE, !.cvalid = FALSE]

CppADReset(n) ==
    SetVariables([n EXCEPT !.tape = Tape(n.used, Now), !.fpoint = <<>>, !.cpoint = <<>>,
                           !.at = Now],
                 CurrentPoint(n.used))

Initialize(kind, sparse, used, first) ==
    LET tape == Tape(used, Now)
        n == Len(used)
    IN  [kind |-> kind, sparse |-> sparse, used |-> used, tape |-> tape,
         jac |-> IF sparse THEN JacobianPattern(tape, n) ELSE AllEntries(nc, n),
         hes |-> IF sparse THEN HessianPattern(tape, n) ELSE LowerTriangle(n),
         currx |-> first, fvalid |-> FALSE, cvalid |-> FALSE,
         cache |-> [i \in DOMAIN Fns |-> 0], fpoint |-> <<>>, cpoint |-> <<>>,
         at |-> Now, since |-> fixed]

CppADInitialize(sparse) ==
    CppADReset(Initialize("cppad", sparse, UsedVariables, CurrentPoint(UsedVariables)))

(***************************************************************************)
(* ASL_Repn writes the model to an NL file and has the ASL read it, and    *)
(* does so again for reset().  The file has columns for the variables that *)
(* simplify_expr() leaves, those that are nonlinear in both an objective   *)
(* and a constraint first, then those nonlinear in one, then the others.   *)
(***************************************************************************)
Written(v, F, degree) ==
    \E i \in F : \E k \in DOMAIN Fns[i] :
        /\ Fns[i][k].pow[v] > 0
        /\ Coefficient(Fns[i][k], Now) # 0
        /\ SumOver(Fns[i][k].pow, Var \ fixed) >= degree

AslColumns ==
    LET kept == {v \in Var \ fixed : Written(v, DOMAIN Fns, 1)}
        obj == {v \in kept : Written(v, 1..nf, 2)}
        con == {v \in kept : Written(v, nf + 1 .. nf + nc, 2)}
    IN  InIndexOrder(obj \cap con) \o InIndexOrder(con \ obj)
        \o InIndexOrder(obj \ con) \o InIndexOrder(kept \ (obj \cup con))

(* Mutant: the file has no x section, and the ASL starts at zero.          *)
FirstPointMissing(cols) == [j \in DOMAIN cols |-> 0]

(* The x section is written in index order, whatever the columns.          *)
FirstPoint(cols) == CurrentPoint(InIndexOrder(ToSet(cols)))

(* varmap, which leads from the columns of the file to coek's variables,   *)
(* is composed into used.                                                  *)
AslInitialize == Initialize("asl", TRUE, AslColumns, FirstPoint(AslColumns))

(* A file with one objective at most is written, and alloc_asl() throws    *)
(* when it has no columns.                                                 *)
Readable(kind) == kind = "asl" => nf <= 1 /\ AslColumns # <<>>

(* Mutant: the functions are not recorded again.                           *)
ResetPoint(n) ==
    IF n.kind = "cppad" THEN SetVariables(n, CurrentPoint(n.used)) ELSE AslInitialize

(* Mutant: reset() chooses the columns anew.                               *)
ResetAnew(n) ==
    IF n.kind = "cppad" THEN CppADInitialize(n.sparse) ELSE AslInitialize

(* Mutant: so it does, and keeps the point.                                *)
ResetColumns(n) == [ResetAnew(n) EXCEPT !.currx = n.currx]

Reset(n) == IF n.kind = "cppad" THEN CppADReset(n) ELSE AslInitialize

-----------------------------------------------------------------------------
(* Evaluation.  Each operation has an effect on the view and an answer.    *)

Evaluated(n, I) ==
    [i \in DOMAIN n.cache |-> IF i \in I THEN At(n.tape[i], n.currx) ELSE n.cache[i]]

Forward(n) ==
    IF n.fvalid THEN n
    ELSE [n EXCEPT !.cache = Evaluated(n, DOMAIN Fns), !.fvalid = TRUE, !.cvalid = TRUE,
                   !.fpoint = n.currx, !.cpoint = n.currx]

AslObjective(n) ==
    IF n.fvalid THEN n
    ELSE [n EXCEPT !.cache = Evaluated(n, 1..nf), !.fvalid = TRUE, !.fpoint = n.currx]

AslConstraints(n) ==
    IF n.cvalid THEN n
    ELSE [n EXCEPT !.cache = Evaluated(n, nf + 1 .. nf + nc), !.cvalid = TRUE,
                   !.cpoint = n.currx]

(* SparseJacobian*() and SparseHessian() sweep forward at currx.           *)
Swept(n) == [n EXCEPT !.fpoint = n.currx, !.cpoint = n.currx]

AfterF(n) == IF n.kind = "cppad" THEN Forward(n) ELSE AslObjective(n)

AfterC(n) == IF n.kind = "cppad" THEN Forward(n) ELSE AslConstraints(n)

AfterDC(n) == IF n.kind = "cppad" THEN Forward(n) ELSE n

AfterH(n) == IF n.kind = "cppad" THEN Swept(n) ELSE AslConstraints(AslObjective(n))

AfterJ(n) ==
    IF n.kind = "asl" THEN n
    ELSE IF n.sparse THEN Swept(n)
    ELSE Forward(n)

After(n, q) ==
    CASE q \in {"f", "df"} -> AfterF(n)
      [] q = "c"  -> AfterC(n)
      [] q = "dc" -> AfterDC(n)
      [] q = "H"  -> AfterH(n)
      [] q = "J"  -> AfterJ(n)

(* What is answered once the effect took place.                            *)
AnswerF(n) == n.cache[1]

AnswerDF(n) ==
    Gradient(n.tape[1], IF n.kind = "cppad" THEN n.fpoint ELSE n.currx)

AnswerC(n) == [i \in 1..nc |-> n.cache[nf + i]]

AnswerDC(n) ==
    Gradient(n.tape[nf + 1], IF n.kind = "cppad" THEN n.cpoint ELSE n.currx)

AnswerH(n, w) ==
    [e \in n.hes |->
        LET second(i, x) == At(Derivative(Derivative(n.tape[i], e[1]), e[2]), x)
        IN  SumOver([i \in DOMAIN Fns |->
                w[i] * second(i, IF i <= nf THEN n.fpoint ELSE n.cpoint)], DOMAIN Fns)]

AnswerJ(n) ==
    LET x == IF n.kind = "cppad" THEN n.cpoint ELSE n.currx
    IN  [e \in n.jac |-> At(Derivative(n.tape[nf + e[1]], e[2]), x)]

Answer(n, q, w) ==
    CASE q = "f"  -> AnswerF(n)
      [] q = "df" -> AnswerDF(n)
      [] q = "c"  -> AnswerC(n)
      [] q = "dc" -> AnswerDC(n)
      [] q = "H"  -> AnswerH(n, w)
      [] q = "J"  -> AnswerJ(n)

(* compute_f(), compute_df() and compute_dc() are for an objective or      *)
(* constraint that there is: CppAD asserts it.                             *)
Queries ==
    {q \in {"f", "df", "c", "dc", "H", "J"} :
        /\ q \in {"f", "df"} => nf > 0
        /\ q = "dc" => nc > 0}

-----------------------------------------------------------------------------
(***************************************************************************)
(* What the view promises, with no tape, cache or pattern: derivatives of  *)
(* the model's own expressions with respect to the used variables, at a    *)
(* point x of theirs, for given values of everything else.                 *)
(***************************************************************************)
Whole(used, x, at) ==
    [a \in Atom |-> IF a \in ToSet(used) \ at.fixed THEN x[Column(used, a)] ELSE at.val[a]]

(* No derivative with respect to a variable that is fixed.                 *)
Partial(e, used, j, at, y) ==
    IF used[j] \in at.fixed THEN 0 ELSE At(Derivative(e, used[j]), y)

Partial2(e, used, j, k, at, y) ==
    IF {used[j], used[k]} \cap at.fixed # {} THEN 0
    ELSE At(Derivative(Derivative(e, used[j]), used[k]), y)

Promised(q, used, x, at, w) ==
    LET y == Whole(used, x, at)
        n == Len(used)
        cols == DOMAIN used
    IN  CASE q = "f"  -> At(Fns[1], y)
          [] q = "c"  -> [i \in 1..nc |-> At(Constraints[i], y)]
          [] q = "df" -> [j \in cols |-> Partial(Fns[1], used, j, at, y)]
          [] q = "dc" -> [j \in cols |-> Partial(Constraints[1], used, j, at, y)]
          [] q = "J"  -> [e \in AllEntries(nc, n) |->
                             Partial(Constraints[e[1]], used, e[2], at, y)]
          [] q = "H"  -> [e \in LowerTriangle(n) |->
                             SumOver([i \in DOMAIN Fns |->
                                w[i] * Partial2(Fns[i], used, e[1], e[2], at, y)],
                                DOMAIN Fns)]

(* Entries that a sparse answer leaves out are zeros.                      *)
Fill(q, got, want) ==
    IF q \in {"H", "J"}
    THEN [e \in DOMAIN want |-> IF e \in DOMAIN got THEN got[e] ELSE 0]
    ELSE got

=============================================================================
