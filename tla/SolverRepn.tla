----------------------------- MODULE SolverRepn -----------------------------
(***************************************************************************)
(* The part of coek::Solver that every mathematical-programming back end   *)
(* shares: SolverCache and SolverRepn (coek/solvers/solver_repn.cpp).      *)
(*                                                                         *)
(* load() splits each objective and constraint of a model into slots (a    *)
(* constant, the linear coefficients, the quadratic coefficients and the   *)
(* nonlinear remainder) and records which parameters and fixed variables   *)
(* each slot reads.  initial_solve() caches their values the first time;   *)
(* later it compares the cached values with the current ones and computes  *)
(* updated_coefs, the slots a back end has to push again.                  *)
(*                                                                         *)
(* This module holds the state and its operations; TestSolver and          *)
(* GurobiSolver extend it with a back end and a next-state relation.       *)
(* Sequences start at 1 here: expression 1 is the objective.               *)
(***************************************************************************)
EXTENDS Integers, Sequences, FiniteSets

CONSTANTS
    Param,      \* the mutable parameters
    Var,        \* the variables
    Num,        \* the numbers a value may take (integers)
    NaN,        \* the value a variable has until it is given one
    Tol,        \* SolverCache::tolerance
    Models,     \* names of the models a client may load
    Exprs,      \* Exprs[m]: the objective and the constraints of model m
    MaxLoads    \* bound: how often a client calls load()

Atom == Param \cup Var
Value == Num \cup {NaN}

(***************************************************************************)
(* An expression is a sum of terms.  A term is a product of parameters     *)
(* (coef) and variables (vars), wrapped in an intrinsic function when fn.  *)
(***************************************************************************)
Term == [coef : SUBSET Param, vars : Seq(Var), fn : BOOLEAN]

Constant == 0
Linear == 1
Quadratic == 2
Nonlinear == 3
Kind == {Constant, Linear, Quadratic, Nonlinear}

(* A collected term: where it went, its variables, and the atoms of its    *)
(* coefficient, fixed variables among them.  A nonlinear term is kept whole*)
Entry == [kind : Kind, vars : Seq(Var), coef : SUBSET Atom]

ASSUME AtomsApart == Param \cap Var = {}
ASSUME NumbersAreIntegers == Num \subseteq Int /\ NaN \notin Int
ASSUME ToleranceIsNatural == Tol \in Nat
ASSUME ExprsType == Exprs \in [Models -> Seq(Seq(Term))]
ASSUME LoadsBounded == MaxLoads \in Nat

VARIABLES
    val,            \* current value of every parameter and variable
    fixed,          \* the variables whose fixed flag is set
    repn,           \* SolverRepn::repn, the collected terms of each expression
    mutable,        \* MutableNLPExpr::mutable_values of each repn
    coefmap,        \* vconstvals .. pnonlvals: atom -> slots that read it
    initial,        \* SolverCache::initial
    cache,          \* vcache and pcache
    updates,        \* vupdates and pupdates
    updated_coefs,  \* SolverRepn::updated_coefs
    loads           \* number of load() calls so far

modelVars == <<val, fixed>>
repnVars == <<repn, mutable, coefmap, loads>>
cacheVars == <<initial, cache, updates, updated_coefs>>

-----------------------------------------------------------------------------
(* MutableNLPExpr: what collect_terms() puts where, given the fixed set F. *)

VarsOf(t) == {t.vars[i] : i \in 1..Len(t.vars)}

Degree(t, F) == Cardinality({i \in 1..Len(t.vars) : t.vars[i] \notin F})

KindOf(t, F) ==
    IF Degree(t, F) = 0 THEN Constant
    ELSE IF t.fn \/ Degree(t, F) > 2 THEN Nonlinear
    ELSE Degree(t, F)

EntryOf(t, F) ==
    [kind |-> KindOf(t, F),
     vars |-> t.vars,
     coef |-> IF KindOf(t, F) = Nonlinear THEN t.coef
              ELSE t.coef \cup (VarsOf(t) \cap F)]

(* The intrinsic-function visitors add a constant f(p) to constval without *)
(* setting mutable_values.                                                 *)
SetsMutable(t, F) ==
    /\ t.coef \cup (VarsOf(t) \cap F) # {}
    /\ ~(t.fn /\ KindOf(t, F) = Constant)

(* collect_terms() appends to what the representation already holds.       *)
CollectTerms(old, terms, F) == old \o [i \in 1..Len(terms) |-> EntryOf(terms[i], F)]

-----------------------------------------------------------------------------
(* Slots <<j, kind, i>>, as the tuples of updated_coefs name them, except  *)
(* that i is the place of a coefficient among all the collected terms of   *)
(* expression j and not among those of its own kind.                       *)

WholeSlots(r) == {<<j, k, 0>> : j \in 1..Len(r), k \in {Constant, Nonlinear}}

CoefSlots(r) ==
    UNION {{<<j, r[j][i].kind, i>> : i \in {i \in 1..Len(r[j]) :
                                              r[j][i].kind \in {Linear, Quadratic}}}
           : j \in 1..Len(r)}

Slots(r) == WholeSlots(r) \cup CoefSlots(r)

EntryAtoms(e) == IF e.kind = Nonlinear THEN e.coef \cup VarsOf(e) ELSE e.coef

(* The parameters and variables that the expression in slot s reads.       *)
SlotAtoms(r, s) ==
    UNION {EntryAtoms(r[s[1]][i]) : i \in {i \in 1..Len(r[s[1]]) :
                                             /\ r[s[1]][i].kind = s[2]
                                             /\ s[3] \in {0, i}}}

(* Mutant: the maps of the variables are left out.                         *)
CoefMapOfParams(r, mut, F) ==
    [a \in Param |-> {s \in Slots(r) : mut[s[1]] /\ a \in SlotAtoms(r, s)}]

(* mutable_values(): parameters, and variables that are fixed now.         *)
CoefMap(r, mut, F) ==
    [a \in Atom |-> {s \in Slots(r) : /\ mut[s[1]]
                                      /\ a \in SlotAtoms(r, s) \cap (Param \cup F)}]

Tracked == {a \in Atom : coefmap[a] # {}}

(* fabs(cached - value) > tolerance, which is false when either is NaN.    *)
Differs(x, y) == x # NaN /\ y # NaN /\ (x - y > Tol \/ y - x > Tol)

-----------------------------------------------------------------------------
InitSolverRepn ==
    /\ val \in [Atom -> Value]
    /\ \A p \in Param : val[p] \in Num
    /\ fixed \in SUBSET Var
    /\ repn = <<>>
    /\ mutable = <<>>
    /\ coefmap = [a \in Atom |-> {}]
    /\ initial = TRUE
    /\ cache = <<>>
    /\ updates = {}
    /\ updated_coefs = {}
    /\ loads = 0

(* Parameter::value() and Variable::value().                               *)
SetModelValue(a, x) ==
    /\ val' = [val EXCEPT ![a] = x]
    /\ UNCHANGED fixed
    /\ UNCHANGED <<repnVars, cacheVars>>

(* Variable::fixed().                                                      *)
SetFixed(v) ==
    /\ fixed' = IF v \in fixed THEN fixed \ {v} ELSE fixed \cup {v}
    /\ UNCHANGED val
    /\ UNCHANGED <<repnVars, cacheVars>>

(* SolverCache::reset(): the updates of the last resolve stay.             *)
ResetCache ==
    /\ initial' = TRUE
    /\ cache' = <<>>
    /\ UNCHANGED <<updates, updated_coefs>>

(* Mutable after load: what expression j held before, or a term says so.   *)
IsMutable(j, terms, F) ==
    \/ j <= Len(repn) /\ mutable[j]
    \/ \E i \in 1..Len(terms) : SetsMutable(terms[i], F)

OldRepn(j) == IF j <= Len(repn) THEN repn[j] ELSE <<>>

(* SolverRepn::load().                                                     *)
LoadRepn(m) ==
    /\ loads < MaxLoads
    /\ loads' = loads + 1
    /\ repn' = [j \in 1..Len(Exprs[m]) |-> CollectTerms(OldRepn(j), Exprs[m][j], fixed)]
    /\ mutable' = [j \in 1..Len(Exprs[m]) |-> IsMutable(j, Exprs[m][j], fixed)]
    /\ coefmap' = CoefMap(repn', mutable', fixed)
    /\ ResetCache
    /\ UNCHANGED modelVars

(* Mutant: the loop over pcache is missing.                                *)
UpdatedValuesOfVars == {a \in DOMAIN cache \cap Var : Differs(cache[a], val[a])}

(* SolverCache::find_updated_values().                                     *)
UpdatedValues == {a \in DOMAIN cache : Differs(cache[a], val[a])}

(* Mutant: the cached value is not replaced when it differs.               *)
RefreshedCacheNever == cache

RefreshedCache ==
    [a \in DOMAIN cache |-> IF a \in UpdatedValues THEN val[a] ELSE cache[a]]

(* Mutant: the loop over vupdates is missing.                              *)
UpdatedCoefsOfParams == UNION {coefmap[a] : a \in UpdatedValues \cap Param}

(* SolverRepn::find_updated_coefs().                                       *)
UpdatedCoefs == UNION {coefmap[a] : a \in UpdatedValues}

(* SolverRepn::initial_solve(), the call that returns true ...             *)
InitialSolveFirst ==
    /\ initial
    /\ initial' = FALSE
    /\ cache' = [a \in Tracked |-> val[a]]
    /\ updates' = {}
    /\ UNCHANGED <<updated_coefs, repnVars>>

(* ... and the calls that return false.                                    *)
InitialSolveAgain ==
    /\ ~initial
    /\ cache' = RefreshedCache
    /\ updates' = UpdatedValues
    /\ updated_coefs' = UpdatedCoefs
    /\ UNCHANGED <<initial, repnVars>>
=============================================================================
