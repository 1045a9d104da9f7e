---------------------------- MODULE GurobiSolver ----------------------------
(***************************************************************************)
(* GurobiSolver (coek/solvers/gurobi): solve() builds a GRBModel, optimizes*)
(* it and throws it away; resolve() builds one the first time and later    *)
(* pushes the coefficients SolverRepn found changed into the one it kept.  *)
(* The GRBModel itself is the optimizer's: its API is modelled from the    *)
(* calls made here, its answer is any optimal point of what it holds.      *)
(***************************************************************************)
EXTENDS SolverRepn, Ranks, Sums, Functions

CONSTANTS
    Lower, Upper,       \* bounds of the constraints: number, parameter, None
    VarLower, VarUpper, \* bounds of the variables
    None,
    Null                \* the null pointer, or one never initialised

(* Cubic terms are the ones QuadraticExpr cannot represent.                *)
ASSUME NoIntrinsics ==
    \A m \in Models : \A j \in 1..Len(Exprs[m]) : \A i \in 1..Len(Exprs[m][j]) :
        ~Exprs[m][j][i].fn

ASSUME FinitelyMany == IsFiniteSet(Param) /\ IsFiniteSet(Var)

(* solve() asserts that the model has an objective.                        *)
ASSUME ModelsType ==
    \A m \in Models :
        /\ Len(Exprs[m]) >= 1
        /\ \A j \in 1..Len(Exprs[m]) :
              {Lower[m][j], Upper[m][j]} \subseteq Int \cup Param \cup {None}

ASSUME VarBoundsType ==
    /\ VarLower \in [Var -> Int \cup Param \cup {None}]
    /\ VarUpper \in [Var -> Int \cup Param \cup {None}]

ASSUME NoneIsNoBound == None \notin Int \cup Param

VARIABLES
    gmodel,     \* GurobiSolver::gmodel
    handles,    \* the keys of GurobiSolver::x
    loaded,     \* SolverRepn::model
    loadFixed,  \* history: the fixed variables at the last load()
    kept,       \* history: the resolve that filled the cache built gmodel
    result,     \* what the last call returned or threw
    sound       \* history: the last call stayed in what resolve() can update

gurobiVars == <<gmodel, handles>>
history == <<loadFixed, kept, sound>>
vars == <<modelVars, repnVars, cacheVars, gurobiVars, loaded, result, history>>

Opt == INSTANCE Optimizer WITH result <- IF result = "ok" /\ ~sound THEN "failed" ELSE result

-----------------------------------------------------------------------------
(* The GRBModel.  A quadratic function is its coefficients by monomial.    *)

Monomial == {<<>>} \cup {<<y>> : y \in Var} \cup {<<y, z>> : y, z \in Var}

MonomialValue(n, u) == ProductOver([i \in 1..Len(n) |-> u[n[i]]], 1..Len(n))

PolyValue(f, u) ==
    SumOver([n \in Monomial |-> IF f[n] = 0 THEN 0 ELSE f[n] * MonomialValue(n, u)], Monomial)

Holds(row, u) ==
    CASE row.sense = "<=" -> PolyValue(row.poly, u) <= row.rhs
      [] row.sense = ">=" -> PolyValue(row.poly, u) >= row.rhs
      [] row.sense = "="  -> PolyValue(row.poly, u) = row.rhs

(* The points optimize() may answer with.                                  *)
Feasible(g) ==
    {u \in [g.cols -> Num] :
        /\ \A y \in g.cols : /\ g.lb[y] # None => g.lb[y] <= u[y]
                             /\ g.ub[y] # None => u[y] <= g.ub[y]
        /\ \A i \in 1..Len(g.rows) : Holds(g.rows[i], u)
        /\ \A i \in 1..Len(g.qrows) : Holds(g.qrows[i], u)}

Optimal(g) ==
    LET feasible == Feasible(g)
    IN  {u \in feasible : \A w \in feasible : PolyValue(g.obj, u) <= PolyValue(g.obj, w)}

-----------------------------------------------------------------------------
(* QuadraticExpr::collect_terms() with the values v and the variables in F *)
(* fixed.                                                                  *)

FreePlaces(t, F) == {i \in 1..Len(t.vars) : t.vars[i] \notin F}

FreeVars(t, F) == [n \in 1..Degree(t, F) |-> t.vars[Nth(FreePlaces(t, F), n)]]

(* Mutant: fixed variables are taken out of the term and forgotten.        *)
FactorValueOfParams(t, v, F) == ProductOver(v, t.coef)

FactorValue(t, v, F) ==
    ProductOver(v, t.coef)
    * ProductOver([i \in 1..Len(t.vars) |-> IF t.vars[i] \in F THEN v[t.vars[i]] ELSE 1],
                  1..Len(t.vars))

(* A factor 0 ahead of the third free variable takes the term away before  *)
(* it is found to be cubic.                                                *)
Vanishes(t, v, F) ==
    \/ \E a \in t.coef : v[a] = 0
    \/ \E i \in 1..Len(t.vars) :
          t.vars[i] \in F /\ v[t.vars[i]] = 0 /\ i < Nth(FreePlaces(t, F), 3)

Refused(e, v, F) ==
    \E i \in 1..Len(e) : KindOf(e[i], F) = Nonlinear /\ ~Vanishes(e[i], v, F)

Collect(e, v, F) ==
    [n \in Monomial |->
        SumOver([i \in 1..Len(e) |-> IF FreeVars(e[i], F) = n THEN FactorValue(e[i], v, F) ELSE 0],
                1..Len(e))]

(* A product with a factor 0 leaves no coefficient, not even a zero.       *)
HasCoefs(e, d, v, F) ==
    \E i \in 1..Len(e) : Degree(e[i], F) \in d /\ FactorValue(e[i], v, F) # 0

(* A row for each bound of a constraint, or one for an equation.           *)
Demands(m, j) ==
    LET lo == Lower[m][j]
        hi == Upper[m][j]
    IN  IF lo = hi /\ lo # None THEN << <<"=", lo>> >>
        ELSE (IF lo = None THEN <<>> ELSE << <<">=", lo>> >>)
             \o (IF hi = None THEN <<>> ELSE << <<"<=", hi>> >>)

RowFor(m, j, d, v, F) ==
    LET f == Collect(Exprs[m][j], v, F)
    IN  [con |-> j, poly |-> [f EXCEPT ![<<>>] = 0], sense |-> d[1],
         rhs |-> Opt!BoundValue(d[2], v) - f[<<>>]]

(* add_gurobi_constraint(): no row without coefficients.                   *)
RowsOf(m, j, v, F) ==
    IF HasCoefs(Exprs[m][j], {1, 2}, v, F)
    THEN [i \in 1..Len(Demands(m, j)) |-> RowFor(m, j, Demands(m, j)[i], v, F)]
    ELSE <<>>

IsQuadratic(m, j, v, F) == HasCoefs(Exprs[m][j], {2}, v, F)

(* The rows of the constraints before the k-th expression, those of one    *)
(* class: quadratic constraints are kept apart and have no getConstr index.*)
RowsBefore(m, k, quadratic, v, F) ==
    Concatenated([j \in 1..(k - 1) |-> IF j > 1 /\ IsQuadratic(m, j, v, F) = quadratic
                                 THEN RowsOf(m, j, v, F) ELSE <<>>],
           k - 1)

ColumnBounds(b, v, F) == [y \in Var \ F |-> Opt!BoundValue(b[y], v)]

(* What the build holds when it comes to the k-th expression.              *)
Built(m, k, v, F) ==
    [complete |-> k > Len(Exprs[m]),
     cols |-> Var \ F,
     lb |-> ColumnBounds(VarLower, v, F),
     ub |-> ColumnBounds(VarUpper, v, F),
     obj |-> IF k > 1 /\ HasCoefs(Exprs[m][1], {1, 2}, v, F) THEN Collect(Exprs[m][1], v, F)
             ELSE [n \in Monomial |-> 0],
     rows |-> RowsBefore(m, k, FALSE, v, F),
     qrows |-> RowsBefore(m, k, TRUE, v, F)]

(* The first expression QuadraticExpr cannot represent.                    *)
Stop(m, v, F) ==
    CHOOSE k \in 1..(Len(Exprs[m]) + 1) :
        /\ k <= Len(Exprs[m]) => Refused(Exprs[m][k], v, F)
        /\ \A j \in 1..(k - 1) : ~Refused(Exprs[m][j], v, F)

-----------------------------------------------------------------------------
(* Pushing updated_coefs into the GRBModel g.                              *)

EntryValue(e, v) ==
    ProductOver(v, e.coef \cap Param)
    * ProductOver([i \in 1..Len(e.vars) |-> IF e.vars[i] \in e.coef THEN v[e.vars[i]] ELSE 1],
                  1..Len(e.vars))

Constval(j, v) ==
    SumOver([i \in 1..Len(repn[j]) |->
                IF repn[j][i].kind = Constant THEN EntryValue(repn[j][i], v) ELSE 0],
            1..Len(repn[j]))

LinearVar(s) ==
    LET e == repn[s[1]][s[3]]
    IN  e.vars[CHOOSE i \in 1..Len(e.vars) : e.vars[i] \notin e.coef]

(* getConstr() out of range, a variable the GRBModel does not have, or a   *)
(* nonlinear term.                                                         *)
Throws(g, s) ==
    \/ s[2] = Nonlinear
    \/ s[2] \in {Constant, Linear} /\ s[1] - 1 > Len(g.rows)
    \/ s[2] = Linear /\ LinearVar(s) \notin g.cols

Before(s, t) ==
    \/ s[1] < t[1]
    \/ s[1] = t[1] /\ s[2] < t[2]
    \/ s[1] = t[1] /\ s[2] = t[2] /\ s[3] < t[3]

(* The slots pushed before the first throw, in the order of the std::set.  *)
PushedSlots(g, S) == {s \in S : \A t \in S : Throws(g, t) => Before(s, t)}

(* chgCoeff() overwrites: the last slot of a variable stays.               *)
PatchLinear(f, j, S) ==
    [n \in Monomial |->
        LET T == {s \in S : s[1] = j /\ s[2] = Linear /\ <<LinearVar(s)>> = n}
        IN  IF T = {} THEN f[n]
            ELSE EntryValue(repn[j][(CHOOSE s \in T : \A t \in T : t[3] <= s[3])[3]], val)]

(* Mutant: getConstr(i) where the code has getConstr(i - 1).               *)
PushedOneRowOff(g, S) ==
    [g EXCEPT !.obj = PatchLinear(@, 1, S),
              !.rows = [k \in DOMAIN @ |-> [@[k] EXCEPT !.poly = PatchLinear(@, k, S)]]]

PushedObj(f, S) ==
    LET h == PatchLinear(f, 1, S)
    IN  IF <<1, Constant, 0>> \in S THEN [h EXCEPT ![<<>>] = Constval(1, val)] ELSE h

PushedRhs(x, k, S) == IF <<k + 1, Constant, 0>> \in S THEN -Constval(k + 1, val) ELSE x

(* The slots of constraint k go to the k-th linear row, -constval to its   *)
(* right-hand side; quadratic coefficients are not pushed.                 *)
PushedRow(r, k, S) ==
    [r EXCEPT !.poly = PatchLinear(@, k + 1, S), !.rhs = PushedRhs(@, k, S)]

Pushed(g, S) ==
    [g EXCEPT !.obj = PushedObj(@, S),
              !.rows = [k \in DOMAIN @ |-> PushedRow(@[k], k, S)]]

-----------------------------------------------------------------------------
(* What resolve() can keep up to date, and so when its answer is sound.    *)

RowNumbers(g, j) == {k \in 1..Len(g.rows) : g.rows[k].con = j}

TrackedSlots == UNION {coefmap[a] : a \in Atom}

ConstantBounds(m) ==
    /\ \A j \in 1..Len(Exprs[m]) : Lower[m][j] \notin Param /\ Upper[m][j] \notin Param
    /\ \A y \in Var : VarLower[y] \notin Param /\ VarUpper[y] \notin Param

(* The row a slot is pushed to is the only one of its constraint, and its  *)
(* right-hand side has no bound to forget.                                 *)
RowTracked(g, s) ==
    s[1] > 1 =>
        /\ RowNumbers(g, s[1]) = {s[1] - 1}
        /\ s[2] = Constant => {Lower[loaded][s[1]], Upper[loaded][s[1]]} \subseteq {0, None}

SingleTerm(s) ==
    s[2] = Linear =>
        \A i \in 1..Len(repn[s[1]]) \ {s[3]} :
            repn[s[1]][i].kind = Linear => LinearVar(<<s[1], Linear, i>>) # LinearVar(s)

(* Every constraint has a row, or nothing would keep it.                   *)
NoneDropped(m, g) ==
    \A j \in 2..Len(Exprs[m]) :
        \/ Lower[m][j] = None /\ Upper[m][j] = None
        \/ \E i \in 1..Len(g.rows) : g.rows[i].con = j
        \/ \E i \in 1..Len(g.qrows) : g.qrows[i].con = j

SoundBuild(m, g) == g.complete /\ NoneDropped(m, g)

Updatable ==
    /\ gmodel # Null /\ kept
    /\ SoundBuild(loaded, gmodel)
    /\ loads = 1
    /\ gmodel.cols = Var \ loadFixed
    /\ ConstantBounds(loaded)
    /\ \A s \in TrackedSlots : /\ s[2] \notin {Quadratic, Nonlinear}
                               /\ RowTracked(gmodel, s) /\ SingleTerm(s)

SoundUpdate == Updatable /\ fixed = loadFixed

-----------------------------------------------------------------------------
Init ==
    /\ InitSolverRepn
    /\ \A a \in Atom : val[a] \in Num
    /\ gmodel = Null
    /\ handles = {}
    /\ loaded = None
    /\ loadFixed = {}
    /\ kept = FALSE
    /\ result = "none"
    /\ sound = FALSE

(* Undefined behaviour ends the program.                                   *)
Running == result # "crashed"

ClientStep ==
    /\ Running
    /\ result' = "none"
    /\ sound' = FALSE
    /\ UNCHANGED gurobiVars

SetValue ==
    /\ ClientStep
    /\ \E a \in Atom, n \in Num : SetModelValue(a, n)
    /\ UNCHANGED <<loaded, loadFixed, kept>>

Fix ==
    /\ ClientStep
    /\ \E y \in Var : SetFixed(y)
    /\ UNCHANGED <<loaded, loadFixed, kept>>

Load ==
    /\ ClientStep
    /\ \E m \in Models : LoadRepn(m) /\ loaded' = m
    /\ loadFixed' = fixed
    /\ kept' = FALSE

Reset ==
    /\ ClientStep
    /\ ResetCache
    /\ kept' = FALSE
    /\ UNCHANGED <<modelVars, repnVars, loaded, loadFixed>>

-----------------------------------------------------------------------------
Written(F, u) == [a \in Atom |-> IF a \in F THEN u[a] ELSE val[a]]

(* How a call ends that threw, or that used the stale handles of H.        *)
Broken(H) == IF H = {} THEN {"failed"} ELSE {"failed", "crashed"}

(* Reading the answer back, one free variable after the other.  A column   *)
(* gives its value, a variable the map never held throws, and so does every*)
(* one when there is no answer; a handle into a GRBModel that is gone gives*)
(* anything.                                                               *)
ReadAnswer(g) ==
    LET free == Var \ fixed
        stale == (free \cap handles) \ g.cols
        optimal == Optimal(g)
    IN  \/ /\ free \subseteq g.cols \cup stale
           /\ optimal # {} \/ free = {}
           /\ \E u \in optimal \cup {[y \in {} |-> 0]}, w \in [stale -> Num] :
                /\ free \ stale \subseteq DOMAIN u
                /\ val' = Written(free, [y \in free |-> IF y \in stale THEN w[y] ELSE u[y]])
           /\ result' = "ok"
        \/ /\ optimal = {} /\ free # {}
           /\ val' = val
           /\ result' \in Broken(stale)
        \/ /\ ~(free \subseteq g.cols)
           /\ \E u \in optimal : \E F \in SUBSET (free \cap g.cols) : val' = Written(F, u)
           /\ result' \in Broken(stale)

(* GRBEnv or GRBModel cannot be created; initial_solve() has run already.  *)
ResolveNoEnv ==
    /\ Running /\ loaded # None
    /\ InitialSolveFirst
    /\ result' = "failed"
    /\ sound' = FALSE
    /\ UNCHANGED <<modelVars, gurobiVars, loaded, loadFixed, kept>>

(* GurobiSolver::resolve(), the first time.                                *)
ResolveFirst ==
    /\ Running /\ loaded # None
    /\ InitialSolveFirst
    /\ gmodel' = Built(loaded, Stop(loaded, val, fixed), val, fixed)
    /\ handles' = handles \cup gmodel'.cols
    /\ kept' = gmodel'.complete
    /\ IF gmodel'.complete THEN ReadAnswer(gmodel')
       ELSE result' = "failed" /\ val' = val
    /\ sound' = (result' = "ok" /\ SoundBuild(loaded, gmodel'))
    /\ UNCHANGED <<fixed, loaded, loadFixed>>

(* GurobiSolver::resolve(), later.                                         *)
ResolveAgain ==
    /\ Running /\ loaded # None
    /\ InitialSolveAgain
    /\ IF gmodel = Null
       THEN result' = "crashed" /\ UNCHANGED <<val, gmodel>>
       ELSE /\ gmodel' = Pushed(gmodel, PushedSlots(gmodel, updated_coefs'))
            /\ IF \E s \in updated_coefs' : Throws(gmodel, s)
               THEN result' \in Broken(handles \ gmodel.cols) /\ val' = val
               ELSE ReadAnswer(gmodel')
    /\ sound' = (result' = "ok" /\ SoundUpdate)
    /\ UNCHANGED <<fixed, handles, loaded, loadFixed, kept>>

Resolve == ResolveFirst \/ ResolveAgain

(* An optimum is written back, and only an optimum.                        *)
Answers(g) ==
    LET optimal == Optimal(g)
    IN  IF optimal = {} THEN {val} ELSE {Written(g.cols, u) : u \in optimal}

(* GurobiSolver::solve(m) deletes the GRBModel it leaves in gmodel, unless *)
(* the build threw.                                                        *)
Solve(m) ==
    \E g \in {Built(m, Stop(m, val, fixed), val, fixed)} :
        /\ Running
        /\ gmodel' = IF g.complete THEN Null ELSE g
        /\ handles' = handles \cup g.cols
        /\ \/ g.complete /\ result' = "ok" /\ val' \in Answers(g)
           \/ ~g.complete /\ result' = "failed" /\ val' = val
        /\ sound' = (result' = "ok" /\ SoundBuild(m, g))
        /\ UNCHANGED <<fixed, repnVars, cacheVars, loaded, loadFixed, kept>>

SolveNoEnv ==
    /\ Running
    /\ result' = "failed"
    /\ sound' = FALSE
    /\ UNCHANGED <<modelVars, repnVars, cacheVars, gurobiVars, loaded, loadFixed, kept>>

SolveModel == \E m \in Models : Solve(m)

Next ==
    \/ SetValue \/ Fix \/ Load \/ Reset
    \/ ResolveNoEnv \/ Resolve
    \/ SolveNoEnv \/ SolveModel

Spec == Init /\ [][Next]_vars

-----------------------------------------------------------------------------
Poly == [Monomial -> Int]

Row == [con : Nat, poly : Poly, sense : {"<=", ">=", "="}, rhs : Int]

Bounds(C) == [C -> Int \cup {None}]

GModel(C) ==
    [complete : BOOLEAN, cols : {C}, lb : Bounds(C), ub : Bounds(C), obj : Poly,
     rows : Seq(Row), qrows : Seq(Row)]

(* Types of the variables this module adds; SolverRepn's are TestSolver's. *)
TypeOK ==
    /\ val \in [Atom -> Num]
    /\ gmodel # Null => \E C \in SUBSET Var : gmodel \in GModel(C)
    /\ handles \in SUBSET Var
    /\ loaded \in Models \cup {None}
    /\ loadFixed \in SUBSET Var
    /\ kept \in BOOLEAN
    /\ result \in {"none", "ok", "failed", "crashed"}
    /\ sound \in BOOLEAN

(* The solver implements Optimizer: as long as the changes are ones that   *)
(* resolve() can push, what it answers is an optimal solution of the model *)
(* of now; parameters and fixed variables are never touched.               *)
Implements == Opt!Spec

-----------------------------------------------------------------------------
(* The inductive invariant behind TypeOK and Implements: as long as it is  *)
(* Updatable, the GRBModel that resolve() keeps is the model at the values *)
(* in the cache, row by row and coefficient by coefficient.                *)

AllRows(g) == Range(g.rows) \cup Range(g.qrows)

(* g is the model m at the values v, with the variables in F fixed; what is*)
(* constant in the objective makes no difference to the optimum.           *)
IsModel(g, m, v, F) ==
    /\ \A j \in 1..Len(Exprs[m]) : ~Refused(Exprs[m][j], v, F)
    /\ g.cols = Var \ F
    /\ g.lb = ColumnBounds(VarLower, v, F) /\ g.ub = ColumnBounds(VarUpper, v, F)
    /\ \A n \in Monomial \ {<<>>} : g.obj[n] = Collect(Exprs[m][1], v, F)[n]
    /\ AllRows(g) = UNION {{RowFor(m, j, d, v, F) : d \in Range(Demands(m, j))} :
                              j \in 2..Len(Exprs[m])}
    /\ \A r \in Range(g.rows), q \in Range(g.qrows) : r.con # q.con
    /\ g.cols = {} => AllRows(g) = {}

Follows ==
    Updatable =>
        \E v \in [Atom -> Num] :
            /\ \A a \in DOMAIN cache : v[a] = cache[a]
            /\ IsModel(gmodel, loaded, v, loadFixed)

RepnFits ==
    /\ fixed \in SUBSET Var
    /\ repn \in Seq(Seq(Entry))
    /\ coefmap \in [Atom -> SUBSET Slots(repn)]
    /\ initial \in BOOLEAN
    /\ DOMAIN cache = IF initial THEN {} ELSE Tracked
    /\ \A a \in DOMAIN cache : cache[a] \in Num

(* What one load() leaves, the first.                                      *)
LoadedOnce ==
    /\ loads \in Nat
    /\ loads = 0 => repn = <<>>
    /\ loads = 1 =>
          /\ loaded \in Models
          /\ repn = [j \in 1..Len(Exprs[loaded]) |->
                       CollectTerms(<<>>, Exprs[loaded][j], loadFixed)]
          /\ coefmap = CoefMap(repn, mutable, loadFixed)
          /\ \A j \in 1..Len(Exprs[loaded]) : \A i \in 1..Len(Exprs[loaded][j]) :
                SetsMutable(Exprs[loaded][j][i], loadFixed) => mutable[j]

Inv ==
    /\ TypeOK
    /\ RepnFits
    /\ LoadedOnce
    /\ initial => ~kept
    /\ Follows

-----------------------------------------------------------------------------
(* What the headers and the manual promise and the code does not keep.     *)

(* resolve() that reports no error leaves an optimal solution of the model *)
(* of now (solver.hpp, doc/index.rst on parameters modified in place); said*)
(* when no variable is fixed now or was at the load or the build, so that  *)
(* only parameters and variable values have changed.                       *)
ResolvesAreOptimal ==
    [][Resolve /\ result' = "ok" /\ fixed = {} /\ loadFixed = {} /\ gmodel'.cols = Var
          => val' \in Opt!Optimal(loaded, val, fixed)]_vars
=============================================================================
