---------------------------- MODULE IpoptSolver ----------------------------
(***************************************************************************)
(* A client that changes values, fixed flags and bounds, evaluates an      *)
(* NLPModel and solves it with coek::NLPSolver("ipopt")                    *)
(* (coek/solvers/ipopt).                                                   *)
(*                                                                         *)
(* Ipopt is external.  During IpoptSolve() it visits points within the     *)
(* bounds it was given and calls back for values and derivatives; it says  *)
(* new_x when it has not asked anything at this point yet.  It stops at    *)
(* any point, with or without success.                                     *)
(***************************************************************************)
EXTENDS NLPModel

CONSTANTS
    None,       \* no answer, no model loaded, not solving
    Bounds,     \* the bounds [lo, hi] a variable may have
    Widest,     \* the bounds it has first
    Kinds,      \* the back ends a client asks for
    Points,     \* the points at which functions are evaluated
    Weights,    \* the multipliers Ipopt asks Hessians for
    MaxViews,   \* bound: the views that exist at once
    MaxChanges  \* bound: how often the client changes something

ASSUME BoundsType == Widest \in Bounds /\ Bounds \subseteq [lo : Num, hi : Num]
ASSUME WidestFirst == \A b \in Bounds : Widest.lo <= b.lo /\ b.hi <= Widest.hi
ASSUME PointsType == Points \subseteq Seq(Num)
ASSUME WeightsType == Weights \subseteq [DOMAIN Fns -> Int]
ASSUME IpoptBounded == MaxViews \in Nat /\ MaxChanges \in Nat

(* An IpoptModel: its NLPModel, the sizes of Ipopt's arrays, the bounds of *)
(* the columns, and the sign of the objective.                             *)
IpoptModels ==
    [r : Nat, n : Nat, nj : Nat, nh : Nat, bounds : Seq(Bounds), sign : {-1, 1}]

ASSUME NoneIsNoModel == None \notin IpoptModels

VARIABLES
    bounds,     \* the bounds of each variable
    maximize,   \* the sense of the objective
    views,      \* every NLPModelRepn so far; NLPModel objects share them
    nlp,        \* the one the client's NLPModel refers to (0: none)
    initial,    \* SolverCache::initial
    ip,         \* the IpoptModel: what Ipopt and its arrays were given at load()
    phase,      \* "client", or "solving" inside IpoptSolve()
    entry,      \* how perform_solve() was reached
    ipx,        \* Ipopt's current point
    asked,      \* Ipopt has called back at ipx
    changes     \* number of changes by the client

modelVars == <<val, fixed, bounds, maximize>>
solverVars == <<initial, ip, entry>>
ipoptVars == <<phase, ipx, asked>>
vars == <<modelVars, views, nlp, solverVars, ipoptVars, changes>>

Init ==
    /\ \E c \in Num : val = [a \in Atom |-> c]
    /\ fixed \in {F \in SUBSET Var : \E v \in Var \ F : Occurs(v)}
    /\ bounds = [v \in Var |-> Widest]
    /\ maximize \in BOOLEAN
    /\ views = <<>> /\ nlp = 0
    /\ initial = TRUE /\ ip = None
    /\ phase = "client" /\ entry = None /\ ipx = <<>> /\ asked = FALSE
    /\ changes = 0

-----------------------------------------------------------------------------
(* The client changes the model.                                           *)

Change ==
    /\ phase = "client" /\ changes < MaxChanges
    /\ changes' = changes + 1
    /\ UNCHANGED <<maximize, views, nlp, initial, ip, entry, ipoptVars>>

SetValue(a, c) ==
    /\ val[a] # c
    /\ val' = [val EXCEPT ![a] = c]
    /\ Change
    /\ UNCHANGED <<fixed, bounds>>

(* Something must be left to optimize: CppAD asserts it.                   *)
SetFixed(v) ==
    /\ fixed' = IF v \in fixed THEN fixed \ {v} ELSE fixed \cup {v}
    /\ \E w \in Var \ fixed' : Occurs(w)
    /\ Change
    /\ UNCHANGED <<val, bounds>>

SetBounds(v, b) ==
    /\ bounds[v] # b
    /\ bounds' = [bounds EXCEPT ![v] = b]
    /\ Change
    /\ UNCHANGED <<val, fixed>>

(* The client initializes, resets, evaluates its NLPModel.  A view that    *)
(* the IpoptModel does not share is freed.                                 *)
InitializeView(kind, sparse) ==
    /\ phase = "client" /\ kind \in Kinds /\ Readable(kind)
    /\ LET n == IF kind = "cppad" THEN CppADInitialize(sparse) ELSE AslInitialize
       IN  IF nlp # 0 /\ (ip = None \/ ip.r # nlp)
           THEN views' = [views EXCEPT ![nlp] = n] /\ nlp' = nlp
           ELSE /\ Len(views) < MaxViews
                /\ views' = Append(views, n) /\ nlp' = Len(views')
    /\ UNCHANGED <<modelVars, initial, ip, entry, ipoptVars, changes>>

ResetView ==
    /\ phase = "client" /\ nlp # 0 /\ Readable(views[nlp].kind)
    /\ views' = [views EXCEPT ![nlp] = Reset(@)]
    /\ UNCHANGED <<modelVars, nlp, initial, ip, entry, ipoptVars, changes>>

SetVariableView(x) ==
    /\ phase = "client" /\ nlp # 0
    /\ DOMAIN x = DOMAIN views[nlp].used
    /\ views' = [views EXCEPT ![nlp] = SetVariables(@, x)]
    /\ UNCHANGED <<modelVars, nlp, initial, ip, entry, ipoptVars, changes>>

Compute(q) ==
    /\ phase = "client" /\ nlp # 0
    /\ views' = [views EXCEPT ![nlp] = After(@, q)]
    /\ UNCHANGED <<modelVars, nlp, initial, ip, entry, ipoptVars, changes>>

-----------------------------------------------------------------------------
(***************************************************************************)
(* IpoptModel.  build() copies sizes and bounds to Ipopt and sizes the     *)
(* arrays; get_nlp_info() fixes the sign of the objective.                 *)
(***************************************************************************)
(* Mutant: a model built before keeps its bounds.                          *)
BuiltOnce(r) ==
    LET n == views[r]
    IN  [r |-> r, n |-> Len(n.used), nj |-> Cardinality(n.jac), nh |-> Cardinality(n.hes),
         bounds |-> IF ip # None /\ Len(ip.bounds) = Len(n.used) THEN ip.bounds
                    ELSE [j \in DOMAIN n.used |-> bounds[n.used[j]]],
         sign |-> IF maximize THEN -1 ELSE 1]

Built(r) ==
    LET n == views[r]
    IN  [r |-> r, n |-> Len(n.used), nj |-> Cardinality(n.jac), nh |-> Cardinality(n.hes),
         bounds |-> [j \in DOMAIN n.used |-> bounds[n.used[j]]],
         sign |-> IF maximize THEN -1 ELSE 1]

(* IpoptSolver::load() overrides the load() that calls reset().            *)
Load ==
    /\ phase = "client" /\ nlp # 0
    /\ ip' = Built(nlp)
    /\ UNCHANGED <<modelVars, views, nlp, initial, entry, ipoptVars, changes>>

SolverReset ==
    /\ phase = "client"
    /\ initial' = TRUE
    /\ UNCHANGED <<modelVars, views, nlp, ip, entry, ipoptVars, changes>>

(***************************************************************************)
(* perform_solve() passes the last point or the model's as a start; Ipopt  *)
(* may begin anywhere, so the start is not part of the state.  The arrays  *)
(* have the size they had at build(): the view must still have that size,  *)
(* writing past their end is undefined.                                    *)
(***************************************************************************)
Fits(m, n) == Len(n.used) = m.n /\ Cardinality(n.jac) = m.nj /\ Cardinality(n.hes) = m.nh

Within(x, b) == \A j \in DOMAIN x : b[j].lo <= x[j] /\ x[j] <= b[j].hi

PerformSolve(m, how) ==
    /\ ip' = m
    /\ IF Fits(m, views'[m.r])
       THEN /\ phase' = "solving"
            /\ ipx' \in {x \in Points : Len(x) = m.n /\ Within(x, m.bounds)}
       ELSE phase' = "undefined" /\ ipx' = ipx
    /\ asked' = FALSE
    /\ entry' = how

(* solve(): loads, and refuses (-1) unless this is the first time.         *)
Solve ==
    /\ phase = "client" /\ nlp # 0
    /\ UNCHANGED views
    /\ IF initial
       THEN /\ initial' = FALSE
            /\ PerformSolve(Built(nlp), "solve")
       ELSE /\ ip' = Built(nlp)
            /\ UNCHANGED <<initial, entry, ipoptVars>>
    /\ UNCHANGED <<modelVars, nlp, changes>>

(* resolve(): resets the NLPModel that the client has *now*, solves the    *)
(* one that was loaded.                                                    *)
Resolve ==
    /\ phase = "client" /\ ip # None
    /\ initial \/ Readable(views[nlp].kind)
    /\ initial' = FALSE
    /\ views' = IF initial THEN views ELSE [views EXCEPT ![nlp] = Reset(@)]
    /\ PerformSolve(ip, IF initial THEN "first" ELSE "refreshed")
    /\ UNCHANGED <<modelVars, nlp, changes>>

(* Ipopt moves to another point.                                           *)
Iterate(x) ==
    /\ phase = "solving"
    /\ Len(x) = ip.n /\ Within(x, ip.bounds) /\ x # ipx
    /\ ipx' = x /\ asked' = FALSE
    /\ UNCHANGED <<modelVars, views, nlp, solverVars, phase, changes>>

(* eval_f, eval_grad_f, eval_g, eval_jac_g and eval_h, through the C       *)
(* functions: new_x sets the point; objsign is applied to f and its        *)
(* gradient.                                                               *)
AtIpoptsPoint == IF asked THEN views[ip.r] ELSE SetVariables(views[ip.r], ipx)

(* Mutant: the gradient keeps its sign.                                    *)
SignedValue(q, v) == IF q = "f" THEN ip.sign * v ELSE v

Signed(q, v) ==
    CASE q = "f"  -> ip.sign * v
      [] q = "df" -> [j \in DOMAIN v |-> ip.sign * v[j]]
      [] OTHER    -> v

Callback(q) ==
    /\ phase = "solving"
    /\ q # "dc"
    /\ views' = [views EXCEPT ![ip.r] = After(AtIpoptsPoint, q)]
    /\ asked' = TRUE
    /\ UNCHANGED <<modelVars, nlp, solverVars, phase, ipx, changes>>

(* IpoptSolve() returns; perform_solve() stores the point in the model if  *)
(* it succeeded.                                                           *)
Finish(success) ==
    /\ phase = "solving"
    /\ phase' = "client"
    /\ val' = IF success
              THEN [a \in Atom |-> IF a \in ToSet(views[ip.r].used)
                                   THEN ipx[Column(views[ip.r].used, a)] ELSE val[a]]
              ELSE val
    /\ ipx' = <<>> /\ asked' = FALSE /\ entry' = None
    /\ UNCHANGED <<fixed, bounds, maximize, views, nlp, initial, ip, changes>>

Next ==
    \/ \E a \in Atom, c \in Num : SetValue(a, c)
    \/ \E v \in Var : SetFixed(v)
    \/ \E v \in Var, b \in Bounds : SetBounds(v, b)
    \/ \E kind \in Kinds, sparse \in BOOLEAN : InitializeView(kind, sparse)
    \/ ResetView
    \/ \E x \in Points : SetVariableView(x)
    \/ \E q \in Queries : Compute(q)
    \/ Load
    \/ SolverReset
    \/ Solve
    \/ Resolve
    \/ \E x \in Points : Iterate(x)
    \/ \E q \in Queries : Callback(q)
    \/ \E success \in BOOLEAN : Finish(success)

Spec == Init /\ [][Next]_vars

-----------------------------------------------------------------------------
(* Properties.                                                             *)

(* Views, solver and Ipopt's state have their types; the point of a view   *)
(* has a value for each of its columns.                                    *)
TypeOK ==
    /\ val \in [Atom -> Num] /\ fixed \subseteq Var
    /\ nlp \in 0..Len(views) /\ Len(views) <= MaxViews
    /\ \A r \in DOMAIN views : DOMAIN views[r].currx = DOMAIN views[r].used
    /\ initial \in BOOLEAN /\ asked \in BOOLEAN
    /\ phase \in {"client", "solving", "undefined"}
    /\ entry \in {None, "solve", "first", "refreshed"}
    /\ phase # "client" => ip # None
    /\ phase = "solving" => ipx \in Points /\ Len(ipx) = ip.n

(***************************************************************************)
(* reset() keeps the columns and the sparsity of a CppAD view.  That is    *)
(* enough as long as no variable was released since initialize() and no    *)
(* coefficient that was zero then has become an entry.                     *)
(***************************************************************************)
StructureHolds(n) ==
    /\ n.since \subseteq n.at.fixed
    /\ JacobianPattern(n.tape, Len(n.used)) \subseteq n.jac
    /\ HessianPattern(n.tape, Len(n.used)) \subseteq n.hes

(* If q is asked now, of view n by a caller at x, the answer is right.     *)
ExactAnswer(n, q, x, w) ==
    LET want == Promised(q, n.used, x, n.at, w)
    IN  Fill(q, Answer(After(n, q), q, w), want) = want

(* Ipopt minimizes: it wants a maximum's objective and gradient negated.   *)
Minimized(q, v) ==
    CASE maximize /\ q = "f"  -> -v
      [] maximize /\ q = "df" -> [j \in DOMAIN v |-> -v[j]]
      [] OTHER -> v

ExactCallback(q, w) ==
    LET n == AtIpoptsPoint
        want == Minimized(q, Promised(q, n.used, ipx, n.at, w))
    IN  Fill(q, Signed(q, Answer(After(n, q), q, w)), want) = want

(* Whatever the client asks of its NLPModel, at whatever moment, is the    *)
(* value or derivative of the model's expressions at the point it set, for *)
(* the parameters and fixed variables of the last initialize() or reset(): *)
(* no cache, sweep or sparsity pattern of another point is used            *)
(* (cppad_repn.cpp:80-225, asl_repn.cpp:110-220).                          *)
ClientAnswersExact ==
    phase = "client" /\ nlp # 0 /\ StructureHolds(views[nlp])
    => \A q \in Queries, w \in Weights : ExactAnswer(views[nlp], q, views[nlp].currx, w)

(* The same for what Ipopt asks at its own point, with the sign of the     *)
(* objective (ipopt_capi.cpp:216-355); but Hessians for maximization, which*)
(* eval_h() does not give the sign.                                        *)
CallbacksExact ==
    phase = "solving" /\ StructureHolds(views[ip.r])
    => \A q \in Queries \ {"dc"}, w \in Weights :
        ~(q = "H" /\ maximize) => ExactCallback(q, w)

(* Whatever loads, refused solves and solver resets came before, a         *)
(* resolve() that is not the first works on present values, provided the   *)
(* NLPModel was not initialized again since it was loaded: it resets the   *)
(* NLPModel of the client and solves the one it has a copy of              *)
(* (ipopt_solver.cpp:29).                                                  *)
ResolveSeesPresent ==
    phase = "solving" /\ entry = "refreshed" /\ ip.r = nlp
    => /\ views[nlp].at.fixed = fixed
       /\ \A a \in Param \cup fixed : views[nlp].at.val[a] = val[a]

(* Ipopt's arrays have the size of build().  Only an ASL view, whose       *)
(* reset() starts over, can have another size when it is solved            *)
(* (cppad_repn.cpp:565-590, ipopt_capi.cpp:474-483).                       *)
OnlyAslOutgrows == phase = "undefined" => views[ip.r].kind = "asl"

(* A solve changes no parameter, and no variable that was fixed when the   *)
(* columns were chosen and still is (ipopt_capi.cpp:389-392).              *)
FixedStay ==
    [][phase = "solving" =>
        \A a \in Param \cup (fixed \cap views[ip.r].since) : val'[a] = val[a]]_vars

(* A solve() loads: what it changes in the model is within the bounds the  *)
(* model has now.  A resolve() would be within those of the load           *)
(* (ipopt_capi.cpp:175-186, 484-490).                                      *)
SolutionsInBounds ==
    [][entry = "solve" /\ phase = "solving" =>
        \A v \in ToSet(views[ip.r].used) :
            val'[v] # val[v] => bounds[v].lo <= val'[v] /\ val'[v] <= bounds[v].hi]_vars

(* What the declaration of compute_f() says: until the client sets a point *)
(* it uses the values of the model (nlp_model.hpp:109).  So it is where    *)
(* the structure holds, except that an ASL view whose columns are not in   *)
(* the order of the indices starts at the values of other variables        *)
(* (writer_nl.cpp:1055-1061).                                              *)
StartsAtModel ==
    [][LET n == views'[nlp] IN
        ResetView /\ nf > 0 /\ StructureHolds(n) /\ n.used = InIndexOrder(ToSet(n.used))
        => AnswerF(AfterF(n)) = At(Objectives[1], val)]_vars

=============================================================================
