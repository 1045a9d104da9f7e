----------------------------- MODULE TestSolver -----------------------------
(***************************************************************************)
(* SolverRepn under a client that changes the model, loads it, resets the  *)
(* solver and resolves, with the back end reduced to what TestSolver's     *)
(* resolve() says a back end does: set up everything on the first resolve, *)
(* push the updated coefficients on the later ones.                        *)
(***************************************************************************)
EXTENDS SolverRepn

VARIABLES
    pushed,     \* slot -> the values it was last computed from, of the slots
                \* pushed since the last load() or reset()
    quiet,      \* history: resolves since the last change, counted to 2
    solved      \* history: the cache was filled by a solve(), not a resolve()

vars == <<modelVars, repnVars, cacheVars, pushed, quiet, solved>>

(* Counting past 2 would add states and no behaviour.                      *)
Quieter == IF quiet = 2 THEN 2 ELSE quiet + 1

Snapshot(s) == [a \in SlotAtoms(repn, s) |-> val[a]]

Init ==
    /\ InitSolverRepn
    /\ pushed = <<>>
    /\ quiet = 0
    /\ solved = FALSE

SetValue ==
    \E a \in Atom, x \in Num :
        /\ SetModelValue(a, x)
        /\ quiet' = 0
        /\ UNCHANGED <<pushed, solved>>

Fix ==
    \E v \in Var :
        /\ SetFixed(v)
        /\ quiet' = 0
        /\ UNCHANGED <<pushed, solved>>

(* load() numbers the slots anew: nothing was pushed for them yet.         *)
Load ==
    \E m \in Models :
        /\ LoadRepn(m)
        /\ pushed' = <<>>
        /\ quiet' = 0
        /\ solved' = FALSE

(* Solver::reset(): the next resolve() sets up everything again.           *)
Reset ==
    /\ ResetCache
    /\ pushed' = <<>>
    /\ quiet' = 0
    /\ solved' = FALSE
    /\ UNCHANGED <<modelVars, repnVars>>

(* TestSolver::solve(): its assert() takes the first initial_solve(), and  *)
(* what is collected afterwards is thrown away.  A solve() of a solver     *)
(* that is not initial aborts in the assert().                             *)
Solve ==
    /\ InitialSolveFirst
    /\ quiet' = 0
    /\ solved' = TRUE
    /\ UNCHANGED <<modelVars, pushed>>

(* TestSolver::resolve(), "Setup the model the first time here".           *)
ResolveFirst ==
    /\ InitialSolveFirst
    /\ pushed' = [s \in Slots(repn) |-> Snapshot(s)]
    /\ quiet' = Quieter
    /\ UNCHANGED <<modelVars, solved>>

(* TestSolver::resolve(), "Update the model here".                         *)
ResolveAgain ==
    /\ InitialSolveAgain
    /\ pushed' = [s \in DOMAIN pushed |->
                    IF s \in updated_coefs' THEN Snapshot(s) ELSE pushed[s]]
    /\ quiet' = Quieter
    /\ UNCHANGED <<modelVars, solved>>

Resolve == ResolveFirst \/ ResolveAgain

Next == SetValue \/ Fix \/ Load \/ Reset \/ Solve \/ Resolve

Spec == Init /\ [][Next]_vars

-----------------------------------------------------------------------------
Slot == Nat \X Kind \X Nat

(* A partial function of the slots.                                        *)
PushedType == DOMAIN pushed \subseteq Slot /\ pushed = [s \in DOMAIN pushed |-> pushed[s]]

(* Types of the variables, of the partial functions cache and pushed too.  *)
TypeOK ==
    /\ val \in [Atom -> Value]
    /\ fixed \in SUBSET Var
    /\ repn \in Seq(Seq(Entry))
    /\ mutable \in [1..Len(repn) -> BOOLEAN]
    /\ coefmap \in [Atom -> SUBSET Slot]
    /\ initial \in BOOLEAN
    /\ DOMAIN cache \subseteq Atom
    /\ \A a \in DOMAIN cache : cache[a] \in Value
    /\ updates \in SUBSET Atom
    /\ updated_coefs \in SUBSET Slot
    /\ loads \in 0..MaxLoads
    /\ PushedType
    /\ quiet \in 0..2
    /\ solved \in BOOLEAN

Near(x, y, d) == x - y <= d /\ y - x <= d

(* The atoms whose changes a resolve promises to see: every parameter, and *)
(* every cached variable that had a value when it was cached.              *)
Watched == Param \cup {a \in DOMAIN cache : cache[a] # NaN}

UpToDate ==
    \A s \in Slots(repn) :
        mutable[s[1]] =>
            \A a \in SlotAtoms(repn, s) \cap Watched :
                Near(pushed[s][a], val[a], 2 * Tol)

(* After a resolve no coefficient of a mutable expression was computed     *)
(* from a value more than twice the tolerance from the current one, however*)
(* many small changes came before.  Twice: the cache may lag the model by  *)
(* Tol, and the coefficient, pushed for another atom's sake, lag the cache.*)
(* Not so after a solve(): it takes the first turn, so that the resolves   *)
(* that follow update what no resolve has set up.                          *)
ResolveFresh == [][Resolve /\ ~solved => UpToDate']_vars

(* What makes that so: between resolves every pushed coefficient stays     *)
(* within Tol of the cached values that later changes are measured from.   *)
PushedNearCache ==
    ~initial /\ ~solved =>
        \A a \in DOMAIN cache : \A s \in coefmap[a] :
            cache[a] # NaN => Near(pushed[s][a], cache[a], Tol)

(* A resolve right after a resolve finds nothing to do (test_testsolver.cpp*)
(* checks it once): no coefficient is pushed again and again.              *)
QuietResolve == [][Resolve /\ quiet > 0 => updates' = {} /\ pushed' = pushed]_vars

(* The inductive invariant behind the three properties above.  coefmap is  *)
(* the one load() computed, for the variables that were fixed then; a      *)
(* solver that is not initial has cached what coefmap tracks and pushed    *)
(* every slot; a value, once a number, stays one, in the model and so in   *)
(* the cache.                                                              *)
CoefMapLoaded == \E G \in SUBSET Var : coefmap = CoefMap(repn, mutable, G)

CacheMatchesRepn == DOMAIN cache = IF initial THEN {} ELSE Tracked

PushedMatchesRepn ==
    ~initial /\ ~solved => pushed \in [Slots(repn) -> UNION {[A -> Value] : A \in SUBSET Atom}]

NumbersStay ==
    /\ \A p \in Param : val[p] \in Num
    /\ \A p \in Param \cap DOMAIN cache : cache[p] \in Num
    /\ \A a \in DOMAIN cache : val[a] = NaN => cache[a] = NaN

PushedNumbersNearCache ==
    ~initial /\ ~solved =>
        \A a \in DOMAIN cache : \A s \in coefmap[a] :
            cache[a] # NaN => /\ pushed[s][a] \in Num
                              /\ Near(pushed[s][a], cache[a], Tol)

QuietMeansUnchanged ==
    quiet > 0 => ~initial /\ \A a \in DOMAIN cache : ~Differs(cache[a], val[a])

Inv ==
    /\ TypeOK
    /\ CoefMapLoaded
    /\ CacheMatchesRepn
    /\ PushedMatchesRepn
    /\ NumbersStay
    /\ PushedNumbersNearCache
    /\ QuietMeansUnchanged
=============================================================================
