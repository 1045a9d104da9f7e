# TLA+ specifications of coek

Coek (`src/lib/coek`) is a C++ library for building optimization models and
handing them to solvers.  A model is made of expression trees over *parameters*
and *variables* whose values may change in place; it is evaluated, differentiated,
expanded from index sets, written to files, read from them, and loaded into
solvers that are then *resolved* many times, each time pushing only what
changed.  The library is sequential.  What makes it hard is not concurrency but
state that is kept in several places at once: values in the model, caches of
them in solvers and automatic differentiation, coefficients and bounds in a
third-party optimizer, flags and sparsity patterns read when a model was loaded,
vectors that expressions share, index parameters that iterators share, and the
columns of a file.  The specifications here are about that state.

Paths below are relative to `src/lib/coek/coek/` unless they start with `src/`.

## Inventory

| Component | State | Operations | Interacts with | What is hard |
|---|---|---|---|---|
| Expression terms, constructors, operators (`ast/*_terms`, `ast/ast_operators.hpp`, `api/expression.cpp`, `api/constraint.cpp`) | immutable trees, except the values of parameters and variables, fixed flags, and the vectors of `PlusTerm` | overloads of `+ - * /`, `pow`, comparisons, `eval` | everything reads trees | a shortcut per overload for zeros, ones and constants, by value or by address (`ZEROCONST`); which side of a comparison becomes the body |
| `PlusTerm` (`ast/expr_terms.cpp`) | a vector shared by several sums, a length in each | construct, append, destroy | `Expression` holds references | who may append; what the destructor of the longest sum does to the others; reference cycles |
| Collecting visitors (`ast/visitor_to_*.cpp`, `visitor_simplify.cpp`) | a representation built while walking | `collect_terms`, `simplify` | writers, Gurobi (`QuadraticExpr`); `SolverRepn`, NL writer (`MutableNLPExpr`) | products and quotients of sums, multipliers passed down, fixed variables, mutable marks |
| Symbolic differentiation (`ast/visitor_symdiff.cpp`) | in-degrees and partials of the terms | `symbolic_diff_all` | `Expression::diff` | terms used more than once; the order of the sweep |
| Texts (`ast/visitor_to_list.cpp`, `visitor_write_expr.cpp`) | none | `to_list`, `operator<<` | clients | grouping |
| `SolverRepn`, `SolverCache` (`solvers/solver_repn.*`) | representation, coefficient maps, cached values, `initial`, updates | `load`, `reset`, `initial_solve`, `find_updated_coefs` | model values; every mathematical programming solver | tolerance and drift; stale cache; call orders |
| `TestSolver` (`solvers/testsolver.*`) | none of its own | `solve`, `resolve` | `SolverRepn` | - |
| `GurobiSolver` (`solvers/gurobi`) | `gmodel`, map `x` of handles, options | `solve`, `resolve` | `SolverRepn`, `QuadraticExpr`, Gurobi | row numbers, right-hand sides, deleted `gmodel`, stale handles, exceptions half way |
| `NLPModel`, CppAD and ASL back ends (`model/nlp_model.*`, `autograd`) | used variables, recorded functions, sparsity, caches (`invalid_fc`) | `initialize`, `reset`, `set_variables`, `compute_*` | CppAD/ASL, Ipopt | caches valid for another point; values and structure frozen at `initialize` |
| `NLPSolver`, `IpoptSolver` (`solvers/ipopt`) | `initial`, sizes and bounds given to Ipopt, last point and multipliers | `load`, `solve`, `resolve`, `reset`, callbacks | `NLPModel`, Ipopt | who resets what; bounds and sizes copied once; `new_x` |
| `Model` (`model/model.*`) | lists of objects, name index, suffixes | `add_*`, `get_*` by name, `generate_names`, `write` | everything | index refreshed by size only |
| Writers (`model/writer_lp.cpp`, `writer_nl.cpp`) | columns, rows, maps | `write` | visitors, `Model` | column order, counts in headers, maps of earlier writes |
| Reader (`model/reader_jpof.cpp`) | stacks of operators, arguments and counts | `read_problem_from_jpof_*` | `Model` | which operator an argument completes |
| `CompactModel`, sequences (`model/compact_model.*`, `compact`) | templates, contexts, shared index parameters | `expand`, iteration | sets, `Model` | iterators that share the index parameters; `expand` writes into the template |
| Sets (`compact/ast_set.*`, `coek_sets.*`) | elements, computed on demand | set algebra, iteration | sequences, maps | operands that are not initialized yet; products of products |
| Indexed containers (`api/*array*`, `*_map`) | maps by index | lookup, `generate_names` | `Model` | - |
| C interface, Python packages | handles | forwarding | C++ classes | - |

Interaction is by direct calls and shared pointers.  There are no threads, no
callbacks but those Ipopt makes during `perform_solve`, and nothing is
persisted.  Failures are exceptions (from Gurobi, or from the visitors for
expressions they cannot represent) and they may leave an operation half done;
the models include them wherever they can occur.  What takes the place of
concurrency is a client that calls operations of several objects in any order:
changes values in the middle of a loop over a sequence, initializes a view that a
solver still works on, writes a file twice.

For each component the correctness question is:

* `SolverRepn`: after any sequence of value changes, loads, resets and
  resolves, is every coefficient as fresh as the tolerance promises, and is
  nothing pushed without need?
* `GurobiSolver`: is the answer an optimum *of the model of now*?
* `PlusTerm`: does a sum ever see an element it was not made of, or lose one;
  does everything get freed?
* operators, visitors, texts, reader: do they keep the value of the expression,
  now and after parameters change?
* symbolic differentiation: is the result the derivative, however terms are
  shared?
* `NLPModel`, `IpoptSolver`: is every value and derivative the one of the point
  that was set, and of the parameters of the last refresh?
* sets, `CompactModel`: are sets what their definitions say, does an iterator
  visit each index once and in order, does `expand` end, with all of the rows?
* `Model`, writers: does the file mean what the model means; do its sections
  agree; does a name find its variable?

`PROJECT.json` lists under `hazards` the lines where these questions bite.

## Modules

```
SolverRepn ──► TestSolver ──► MCTestSolver
     │              └────────► TestSolver_proof
     └──────► GurobiSolver ──► MCGurobiSolver
                    │ └──────► GurobiSolver_proof ◄── Finite_proof
                    │ INSTANCE
                    ▼
                Optimizer
PlusTerms ──► MCPlusTerms
     └──────► PlusTerms_proof
Terms ──► Expressions ──► Operators ──► ExprVisitors ──► ExprTexts ──► ReaderJPOF ──► MCExprVisitors
  └─────► SymbolicDiff ──► MCSymbolicDiff
               └─────────► SymbolicDiff_proof ◄── Finite_proof
NLPModel ──► IpoptSolver ──► MCIpoptSolver
                  └────────► IpoptSolver_proof ◄── Finite_proof
Sets ──► CompactModel ──► MCCompactModel
                └───────► CompactModel_proof ◄── Finite_proof
ModelWriters ──► ModelFiles ──► MCModelFiles
                     └────────► ModelFiles_proof ◄── Finite_proof
Ranks (GurobiSolver, SymbolicDiff, ModelWriters, NLPModel, Sets)
     │                                 Sums (GurobiSolver, Optimizer, NLPModel, Sets)
     └──► Finite_proof ◄── Sums
```

`Ranks` has the members of a finite set of numbers in increasing order, `Sums`
sums and products over finite sets and sequences joined end to end, all of them
recursive functions; `Finite_proof` has the facts about them that the other
proofs cite.  The modules of theorems reach no RECURSIVE operator, which is why
the terms (`Terms`) are apart from their evaluation (`Expressions`).

An operator whose comment begins with *Mutant* is a definition of the same name
but for a suffix, with a plausible bug; the properties are checked to fail
when it takes the place of the original (`mutants` in `PROJECT.json`).

### SolverRepn

The state of `SolverCache` and `SolverRepn` and their operations, without a
next-state relation.

| TLA+ | Code |
|---|---|
| `val`, `fixed` | `ParameterTerm::value`, `VariableTerm::value`, `VariableTerm::fixed` |
| `repn`, `mutable` | `SolverRepn::repn`, `MutableNLPExpr::mutable_values` |
| `coefmap` | the eight maps `vconstvals` ... `pnonlvals`, as one map from atom to slots |
| `initial`, `cache`, `updates` | `SolverCache::initial`, `vcache`/`pcache`, `vupdates`/`pupdates` |
| `updated_coefs` | `SolverRepn::updated_coefs` |
| `LoadRepn(m)` | `load`, including the reset at its end and the *append* to representations that exist |
| `ResetCache` | `SolverCache::reset` |
| `InitialSolveFirst`, `InitialSolveAgain` | `initial_solve` when it returns true, and when it returns false (with `find_updated_values` and `find_updated_coefs`) |

An expression is a set of products of parameters and variables, each perhaps
under an intrinsic function; `KindOf` says which slot of `MutableNLPExpr` such a
product goes to when certain variables are fixed.  How general expressions get
there is the subject of `ExprVisitors`.  Values are integers, and `NaN` for a
variable that was never given a value; `fabs(cached - value) > tolerance` is
false when either side is `NaN`.

### TestSolver

`SolverRepn` under a client that sets values, fixes and releases variables,
loads, resets and resolves in any order, with the back end that
`TestSolver::resolve()` sketches in its comments: set up everything the first
time, push `updated_coefs` later.  The variable `pushed` remembers, for each
slot, the values from which the back end's coefficient was last computed, and
`quiet` counts resolves since the last change.  `Solve` is `TestSolver::solve()` in a
build with assertions, as the tests have it (without them its `assert()` is gone, and
with it everything the call does to the solver): it takes the first
`initial_solve()`, which fills the cache, and sets up nothing, so that a resolve that
follows updates what was never set up.  The history variable `solved` says so, and the
freshness properties leave these resolves out.

### Optimizer and GurobiSolver

`Optimizer` is what a solver promises its client, with no caches or rows: a call
ends in an error, or writes an optimal solution of the model as its parameters
and fixed variables stand at the call.  `GurobiSolver` is the code: `Built` is
the `GRBModel` that `solve()` and the first `resolve()` build (columns only for
variables that are free at that time, one row per finite bound, quadratic rows in
a list of their own, no row for a constraint whose coefficients all vanish; a cubic
product is `Refused` unless a factor is zero, before its degree is noticed, and it
`Vanishes`), `Pushed` is what a
later `resolve()` does to it for `updated_coefs`, with the exceptions that may
stop it (`Throws`, `PushedSlots`), `ReadAnswer` is the loop that copies the answer
back through the map `x` (`handles`), which may hold variables of an older
`GRBModel`.  `gmodel = Null` is the pointer never initialised or deleted; using
it ends the program (`result = "crashed"`).  Using a stale handle is undefined:
any value, an exception, or a crash.

Gurobi is external.  It is modelled from the calls made here: `optimize()` gives
any optimal point of what the `GRBModel` holds (over the finite set `Num`), or no
answer; any call may throw before the environment exists (`SolveNoEnv`,
`ResolveNoEnv`).  `GurobiSolver` implements `Optimizer`
(`Opt == INSTANCE Optimizer WITH ...`, property `Implements`).  The mapping
counts an answer as `"ok"` only if `sound` holds: the last call stayed within
what `resolve()` can update.  `SoundUpdate` names these conditions, and each is
there because the code does not keep the promise without it:

* the `GRBModel` exists, was built completely by the resolve that filled the
  cache, and there was one `load` only (a second one appends its terms to those of the
  first: `load()` resizes `repn` and collects into the elements already there);
* the same variables are fixed as at `load` and at the build;
* no bound of a variable or constraint is a parameter (bounds are evaluated once);
* no changed coefficient is quadratic (these are skipped silently);
* constraint *j* has exactly one linear row and it is number *j - 1* (an equation,
  one finite bound, no quadratic or empty constraint before it);
* a constraint whose constant changes has bound 0 (the right-hand side is set to
  `-constval`, without the bound);
* a variable has one linear coefficient per expression (`chgCoeff` overwrites);
* every bounded constraint has a row (p·x >= 1 with p = 0 gets none, and an
  infeasible model is solved).

`Updatable` is what of these can be said of the `GRBModel` alone.  The
invariant `Follows` says what keeps the promise between calls: as long as it is
`Updatable`, the `GRBModel` is the model at the values in the *cache*, column by
column, row by row and coefficient by coefficient (`IsModel`).  A product is
collected with the values of its parameters and fixed variables
(`FactorValue`), a monomial by the free variables that are left (`FreeVars`), so
a `GRBModel` may be any of the models of the assumptions, with rows without
bounds (`None`) and expressions of any length.

When these fail, the refinement still checks everything else: parameters and
fixed variables are never written, a failing call reports failure, values come
from the variables' ranges.  The sequence load, resolve, solve, resolve uses a
`GRBModel` that `solve()` deleted; the model ends there, in `"crashed"`.

### PlusTerms

`PlusTerm`s with their shared vectors, references and destructors.  A `handle` is
an `Expression`.  `Plus` is `operator+` and `+=`, `PlusConstant` the constructor
that never shares, `Copy` and `Drop` are assignments, `Destroy` is
`~NAryPrefixTerm` for a term that nothing refers to any more: it runs before the
client's next call, in any order among the terms to be destroyed.

### Expressions, Operators, ExprVisitors, ExprTexts, ReaderJPOF

`Expressions` has the terms, the constructors that fold, and `eval`.  The prime
field with seven elements stands for the doubles, so that products, quotients and sums are
exact and two polynomials that differ are likely to differ in value; one
function `Fn` stands for the nineteen intrinsic functions, which these visitors
treat alike (symbolic differentiation does not, see below).  On it are built, each a module of operators:

* `Operators`: the overloads for expressions, variables and numbers, and the
  comparisons, which make a constraint's body and bounds;
* `ExprVisitors`: `QuadraticExpr::collect_terms`, `MutableNLPExpr::collect_terms`
  and `simplify_expr`, with their refusals (exceptions) as `ok = FALSE`, and the
  state machine: a client that builds expressions on a stack from leaves and
  operators, which enumerates all of them up to `MaxSteps` steps;
* `ExprTexts`: the list of `to_list()`, the infix text of `operator<<` and the
  expression segments of NL files, as sequences of tokens.  The grammars by which
  such texts are read (`ReadList`, `ReadSum`, `ReadNL`) are not in the repository;
* `ReaderJPOF`: the machine of `create_expression()` with its three stacks, the
  values and fixed flags of a document, and the three kinds of bounds.

The properties compare the value of what comes out with the value of the
expression that went in, for several values of parameters and variables and
several sets of fixed variables.

### SymbolicDiff

Here an expression is a graph: a client that keeps its expressions uses a term in
several others.  `Build` makes the graph, `Count` is a step of the walk that counts the uses of each
term, `SweepArgument` passes the partial of the term that was taken from the queue on to one of
its arguments, and puts the argument into the queue if this was its last use.  A partial
derivative, an expression in the code, is its value at the point where the client
will evaluate it; `slope` has the derivatives by the forward rules, to compare with.

`FunctionPartial` is the table of the code, row by row, `Rule` that of the textbooks.
The sixteen functions are `Fun`, *any* functions on the field: the chain rule that the sweep
carries out does not depend on what they are, and a row of the table that has another
function or factor than the rule differs from it in value.  Three rows do (`Mistabled`):
`sqrt`, `tanh` and `atanh`, see *Where the code and its documents differ*.

### NLPModel and IpoptSolver

`NLPModel` has a view as a record: the used variables (`used`), the recorded
functions with parameters and fixed variables substituted (`tape`), the sparsity
patterns (`jac`, `hes`), the current point (`currx`) and the points of the caches and of the last
forward sweep.  `CppADInitialize`, `AslInitialize`, `Reset`, `SetVariables`,
`After` (what a `compute_*` leaves in the caches) and `Answer` (what it returns)
are the operations; `Promised` is what the answer should be.  CppAD and the ASL are external: what is
modelled is when they are called and at which point, and that they differentiate
polynomials correctly.  The two back ends choose columns differently: CppAD has all used variables in the order of their
index, the ASL those that the NL file has (`AslColumns`), which `simplify_expr()` left,
nonlinear ones first, and it begins at the values of the file's x section
(`FirstPoint`), which is in the order of the indices all the same.  `Readable` is when `initialize()`
of an ASL view succeeds: with no columns it throws (and asserts), and the client does not
use the view.  `Queries` are those that CppAD's and the view's asserts allow: an objective's
derivatives need an objective, a constraint's a constraint.

`IpoptSolver` is a client that changes, evaluates, loads and solves, in any order.
`Built` is `IpoptModel::build()`; `Solve` and `Resolve` are the solver's, including
that the second `solve()` refuses and that `resolve()` resets the client's present view but
solves the one it was given; between `PerformSolve` and `Finish` Ipopt is running: `Iterate`
moves its point, `Callback` is one of `eval_f`, `eval_grad_f`, `eval_g`, `eval_jac_g`, `eval_h`.
Views are shared by reference (`views`, `nlp`, `ip.r`).  `phase = "undefined"` is a
solve with arrays whose sizes are not those of the view: it would write past their end.

### Sets and CompactModel

`Sets` has set objects (`list`, `vector` and `range` sets, and the union,
intersection, difference, symmetric difference and product of two), with elements that are
computed on demand (`InitializeSet`, `Initialized`), membership (`ContainsValue`), iteration and
size as the code computes them, and `Meaning`, the sets they should be.  What
`initialize()` goes down to (`Visited`) and what is misled (`AskedCombined`) are the
least sets closed under a step; the tuples of a product (`Tuples`), the
initialization (`Initialized`) and the meaning are recursive functions.  `CompactModel` adds contexts, the iterator,
templates with sums over inner sequences, and `expand()`, with a step for
each variable (`ExpandVariable`), for the begin, each item and the end of a sequence
(`ExpandBegin`, `ExpandNext`, `ExpandEnd`), and its `Return`.  The iterators of constraint,
objective, expression and variable sequences are the same code four times, so one iterator
stands for all.  A template is abstracted to what it refers to: index
parameters, data parameters and sums; a converted one is the tuple of what became
of these.

### ModelWriters and ModelFiles

`ModelWriters` has what the LP and the NL writer put into a file, section by
section, and how they number columns and rows; an expression is what the
visitors make of it, a sequence of products.  `ModelFiles` is the client: it
declares variables late, changes their attributes, renames them, changes the naming policy, looks them up by name, generates names, and
writes.  The eager policy is declared in `model.hpp` and asked for nowhere, so it is the simple one.
A constraint row without bounds ends the line of section r in the `ostream` variant of
the NL writer, which is the one modelled; the `fmt` variant writes its `3` without a newline
(`model/writer_nl.cpp:1325`), and the next row is garbled.  The file is read back with its own column order and compared with the model.

## Runs

All runs exhaust their state space.  Every property of a passing run is violated
by at least one of its mutants.

| Run | States | Bounds | What it shows |
|---|---|---|---|
| `TestSolver` | 191,464 | one parameter and one variable, values 0..3 and NaN, `Tol = 1`, two models, two loads | values may move in steps smaller than the tolerance, so the cache, the model and the pushed coefficient can be three different numbers; two atoms in one coefficient; products, a nonlinear term, an intrinsic of a fixed variable, loading a shorter model after a longer one, solving in between |
| `GurobiTracked` | 125,548 | two parameters, one variable, values -1, 1, two constraints | everything `resolve` can push: objective, right-hand side, row coefficient |
| `GurobiFixed` | 60,121 | two variables, values -1 and 0, no parameter, min x·y subject to y·x·x·x + x·x + x·x >= 1 | fixing and releasing between calls makes the row cubic or worse (refused, or not when a fixed factor is 0), quadratic, linear or missing |
| `PlusTerms` | 23,186 | three expressions (symmetric), one leaf, four sums | additions, copies, self-additions, drops |
| `ExprVisitors` | 82,168 | six leaves and operators, one parameter, two variables, constants 0 and 2, three valuations, x fixed or not | operators, comparisons, visitors, texts, reader |
| `SymbolicDiff` | 1,628,634 | a variable and twice the variable as leaves, three operators out of six and the thirteen functions tabled rightly, two points, the variable fixed or not | every graph of up to three operators, with terms used once, twice or three times; each row of the table is the rule for its function, alone, under another and in products |
| `IpoptSolver` | 143,582 | p·x1² + x2 and p·x1·x2 + x2, one parameter, values 0 and 2, one change, one view at a time, three points, both back ends | all orders of changes, evaluations, loads, solves and callbacks |
| `CompactModel` | 22,676 | given sets {1, 2} (as 2, 1, 2), {1, 3} and their product, two derived sets or three sequences, one of them with a sum over another, one iterator besides the one of `expand`, a model of a variable, two sequences and a single expression (one over no loops), two loops for `Forall` to add | all orders of initialization; iteration, changes of parameters and contexts, and expansion in the middle of each other |
| `ModelFiles` | 73,914 | three variables with four kinds of attributes, up to one objective and two constraints, one change between writes | both formats, mixed linear and nonlinear variables, fixed, discrete, undeclared and twice declared ones |

Why the bounds are enough:

* `TestSolver`.  Four values with a tolerance of one allow a drift of up to three, while
  the property allows two, so drift is possible to observe.  Two loads show any effect of an earlier model; a third
  appends more of the same.  The Gurobi instances have one load since the mapping
  excludes a second.
* `PlusTerms`.  Four sums are enough for a shared vector with a
  longest, a middle and a short prefix and a sum beside it, and for cycles of two.
  The proofs have no bound.
* `ExprVisitors`.  Six steps are two binary operators on three leaves and one unary operator, or
  deeper chains of unary ones: every pair of nested operators occurs.  The
  visitors look at every expression (`Latest`); the overloads, texts and the reader
  at those of five steps (`LatestSmaller`), which still nest every two
  binary operators; pairs (`LatestTwo`) at those that fit together into six
  steps.  `Latest` looks at a stack of one only, which loses nothing: what lies
  below other expressions on the stack is built alone in fewer steps.  The three
  valuations have the parameter 0, the variable 0, and neither.
* `SymbolicDiff`.  Three operators give a term with two uses that are at different depths and
  themselves shared, which is what the order of the sweep must get right.
  The sixteen functions are different cubic polynomials on the field of seven elements.
* `IpoptSolver`.  One change distinguishes before and after for each of the
  stale copies (parameters, fixed flags, bounds).  The functions are chosen such
  that a parameter decides whether a variable occurs, whether an entry of the Hessian exists, and
  whether the ASL's columns are in the order of the indices.  A
  second view at a time would add solves of a view the client no longer refers to;
  a client can still replace its view by another one when no solver has it.
* `CompactModel`.  Two derived sets give set operations on derived and on uninitialized operands;
  sets of two elements make every carry of the iterator happen.
* `ModelFiles`.  Two writes with one change between them show what the maps
  and names keep from the first.

### The properties

* `ResolveFresh`: after a resolve no coefficient of a mutable expression was
  computed from a value more than **twice** the tolerance from the present one.
  The code compares against a cache that may lag the model by `Tol`, and a
  coefficient with two atoms may have been pushed when only one of them moved;
  once the tolerance is the sharper bound one would expect, and TLC refutes it.
  `PushedNearCache` is the reason for it, see *Proofs*.
* `QuietResolve`: a resolve after a resolve without changes between them finds no
  update.
* `Inv` (`GurobiTracked`): the inductive invariant of `GurobiSolver`, `Follows`
  (above) with what it needs, see *Proofs*.
* `Implements` (both Gurobi runs): the refinement.
* `PrefixIntact`, `OnlyTheLongestEmpties`, `NoLeaks`: a live sum sees what it
  was made of or an emptied vector; it is emptied only by the end of a longer sum
  on the same vector, the longest; all terms a client cannot reach any more are
  destroyed although `e += e` makes a cycle.
* `QuadraticExactOfQuotientsFirst`, `NLPExact`, `MutableMarked`, `SimplifyExact`:
  the visitors preserve values, and whatever can change is marked mutable.
* `OperatorsExact`, `ConstraintsExact`: each overload means its operation, each
  comparison its constraint, and bounds read no variable.
* `TextsReadBack`, `JPOFExact`: reading a text or a document gives the value, or
  the slacks, of what was written.
* `EveryUseSwept`, `PartialsAreFinal`, `DiffExact`: no in-degree goes below zero, none is left
  above it; nobody adds to a partial that was passed on; the result is the
  derivative, the three mistabled functions and monomials with two uses apart.
* `ClientAnswersExact`, `CallbacksExact`: whatever is asked, at whatever moment,
  the answer is that of the point that was set and the parameters of the last refresh.
  The invariants hold for the *next* question in every state, not only for questions that were asked.
* `ResolveSeesPresent`, `FixedStay`, `SolutionsInBounds`, `OnlyAslOutgrows`, `StartsAtModel`: a
  refreshed resolve works on present values; a view that was reset starts at them; a solve changes no parameter or fixed variable and
  stays within the bounds of `load`; only an ASL view can have other sizes than Ipopt's arrays.
* `SetsExact`, `InitializedStay`: initialized sets are what their definitions
  say and stay so.
* `IteratesInOrder`, `ExpandExact`, `ExpandEnds`: an iterator nobody interfered with
  yields the product of its sets in order; an expansion has exactly the rows of the model, even
  in the middle of the client's loops; it ends.
* `LPFileExact`, `NLFileExact`, `NLSegmentsAgree`, `MapsNameColumns`: files mean what
  the model means; header, counts, patterns and terms agree; the maps name the
  columns, and the rows of an NL file (for those of an LP file see below).
* `LookupsFollowNames`: lookups are right except for variables renamed since the
  index was built.

Deadlock checking is off where the client or the program stops: the Gurobi runs (a
dereferenced null pointer ends the program), `IpoptSolver` (writing past the end
of an array does), and the runs whose client stops at its bound.

### Fairness and liveness

Each operation is a call that returns or throws; nothing runs by itself, and a
client may stop calling at any time, so most specifications assume no fairness.
`CompactModel` is the exception: `expand()` is a loop that waits for nothing, so once
it was called its next step will be taken: `WF_vars(Expanding)`.  Under
this assumption `ExpandEnds` says that every expansion ends, which depends on the
carries of the iterators.  The destructors of `PlusTerms` run before the client's next
step, which is what the guard `Quiescent` says; termination of that cascade follows from the
number of live terms going down.

### Where the code and its documents differ

These runs are expected to end in a counterexample; each checks one sentence of the
repository.

| Run | Sentence | What happens |
|---|---|---|
| `GurobiRhs` | parameters "modified in place" (`src/lib/coek/doc/index.rst:20`) | after p changes in p + x >= 1 the row is x >= -p: the bound is forgotten (`solvers/gurobi/gurobi.cpp:445`) |
| `NLBounds` | "varmap[i] contains the id of the i-th variable in this model" (`model/model.hpp:267`), "bounds on variables" | section b is written in the order of ids while columns are numbered with nonlinear variables first (`model/writer_nl.cpp:1112`): a nonlinear variable that was created after a linear one exchanges bounds with it |
| `DiffDeclared` | "computes the partial derivative relative to a specified variable" (`api/expression.hpp:332`), "1/(1-x^2)" (`ast/visitor_symdiff.cpp:234`) | the partial of sqrt(u) is pow(u, -0.5), without the factor 1/2 (`visitor_symdiff.cpp:147`), that of tanh(u) is 1 - tan(u)² (line 186), that of atanh(u) is 1/(u² - 1) (line 231).  `test_visitor_symdiff.cpp:413`, 493 and 677 assert them so.  With `Operators` set to one of the three the run shows that one |

Others are visible in the exclusions of the properties, each of which is there
because the property fails without it:

* `QuotientsFirst`: x + y/2 is collected by `QuadraticExpr` as (x + y)/2, and a
  sum before 0/x makes it refuse;
* `LosesMultiplier`: 2·f(p) and -pow(p, 2) are collected by `MutableNLPExpr` without their
  multiplier when the arguments are constant, and so is a scaled quotient by a
  variable expression; `MutableMarked`: a function of constants is not marked mutable, so `SolverRepn`
  never updates it;
* `Defined`: 0^0 is 0 for `eval`, `simplify` and `pow`, 1 for `QuadraticExpr`;
* `OnlyTheLongestEmpties`: after e = x + y, f = e + x, dropping f empties the
  vector that e still reads;
* `Mistabled`: `DiffExact` leaves out what `DiffDeclared` refutes;
* `SharedMonomial`: with m = 2·x, m + m has the derivative 6, since each use of a monomial passes on all
  that it got, that of the earlier use once more (`visitor_symdiff.cpp:472`); with `Operators = {"+"}`
  `DiffDeclared` shows it;
* `MapsNameColumns` says nothing of the rows of an LP file: "conmap[i] contains the id of the i-th
  constraint in this model" (`model/model.hpp:268`) is what the NL writer does, while the LP writer maps ids
  to rows (`model/writer_lp.cpp:294`), although both map columns to ids in `varmap`;
* `StartsAtModel`: "This method uses the variable values stored in the model" (`model/nlp_model.hpp:109`),
  but section x of an NL file is in the order of ids as section b is, so an `NLPModel` of the ASL
  whose columns are not in that order begins at the values of other variables
  (`writer_nl.cpp:1061`, `autograd/asl_repn.cpp:263`);
* `solved`: after `TestSolver::solve()` a resolve updates a back end that was not set up;
* `StructureHolds`: a variable that is released after `initialize()` has no column in
  a CppAD view and is given the first one; an entry that was zero then stays out of the
  sparsity pattern;
* `CallbacksExact`: Hessians for a maximization lack the sign of the objective;
* `AskedCombined`: a union, intersection or difference of product sets contains every
  element it is asked for, since `contains()` asks its factors and it has none; sets computed
  by asking it are wrong;
* `Countable`: discrete variables that are nonlinear in constraints alone, or
  linear in one place and nonlinear in another, are counted wrongly in the header of an NL file;
* in JPOF documents, a "sum" of two loses its arguments and a "sum" of one calls
  no function, and integers are accepted for `eq` but not for `geq` and `leq`
  (`Combine`, `Rejected`);
* `ExpandExact` asks for numbers as bounds: the first expansion overwrites the
  template's own bounds, so a second does not see later changes of parameters.

## Proofs

### TestSolver_proof

For every set of parameters and variables, every set of integers as values,
every tolerance, any models and any bound on loads:

| Theorem | States |
|---|---|
| `TypeCorrect` | `Spec => []TypeOK` |
| `PushedStaysNearCache` | `Spec => []PushedNearCache` |
| `ResolvesAreFresh` | `Spec => ResolveFresh` |
| `QuietResolvesPushNothing` | `Spec => QuietResolve` |
| `Invariance` | `Spec => []Inv`, the inductive invariant they rest on |

Assumptions: the named `ASSUME`s of `SolverRepn` (parameters and variables are
apart, numbers are integers and NaN is not, the tolerance is a natural number,
the expressions have their type), all of which TLC evaluates on the instances.

The argument.  `PushedNearCache` is not inductive.  A value is pushed for a slot
when *some* atom of the slot differs from its cached value, and then the slot
is computed from the *current* values of all its atoms, while the cache is
refreshed only for the ones that differ.  So one must know that an atom that does not
differ is within the tolerance of its cached value, which holds only when neither
is NaN; hence `NumbersStay` (a value that was once a number stays one; a NaN in
the cache stays there).  One must know that `coefmap`, `cache` and `pushed` have matching domains although
`fixed` changes freely after `load`: hence `CoefMapLoaded` (the map is the one
computed for *some* set of fixed variables), `CacheMatchesRepn` and
`PushedMatchesRepn`.  `QuietMeansUnchanged` is what `QuietResolve` needs.  The
proof that a step keeps `Inv` has one step per action; the two interesting ones
are `ResolveFirst`, where everything is pushed and cached, and `ResolveAgain`.
`ResolveFresh` follows from `PushedNearCache` after the step and from the cached value being
within the tolerance of the present one: two tolerances.

### PlusTerms_proof

For every set of handles and leaves and every number of sums:

| Theorem | States |
|---|---|
| `TypeCorrect` | `Spec => []TypeOK` |
| `PrefixesIntact` | `Spec => []PrefixIntact` |
| `OnlyTheLongestSumEmpties` | `Spec => OnlyTheLongestEmpties` |
| `NothingLeaks` | `Spec => []NoLeaks` |
| `Invariance` | `Spec => []Inv`, the inductive invariant they rest on |

Assumptions: `LeavesAreNoTerms` and `TermsBounded`, which TLC evaluates.

The argument.  `Inv` has four parts.  `Types`.  `PrefixHolds`: unless its vector
was emptied, a sum's first n elements are what it was made of.  `LengthsDiffer`:
two sums on one vector have different lengths, since a constructor appends only
to a vector that ends where its left operand does, and is longer afterwards.
`LongestLives`: a vector that is not empty has a live sum that goes to its end,
and this sum was made after every sum that is an element of the vector.  The last
two are not visible in the properties.  They are needed because the destructor
compares lengths: `LengthsDiffer` says that exactly one sum can empty a vector, and
`LongestLives` that none is left behind full.  `DestroyKeeps`, `PlusKeeps`,
`PlusConstantKeeps` and `AssignKeeps` show that each action keeps `Inv` and what
it does to vectors.  `OnlyTheLongestEmpties` then follows by excluding all actions but
`Destroy`, and its strict inequality from `LengthsDiffer`.  For `NoLeaks`,
suppose no destructor is left to run and some sums are unreachable.  Take the one made last
(`LastMade`, by well-foundedness of the naturals).  Something refers to it, and
it is not a handle, so it is an element of a vector, which is not empty; the sum
that goes to the end of that vector was made later, so it is reachable, and then so is its element.

### GurobiSolver_proof

For every family of models, bounds, parameters and variables, and every set of
integers as values:

| Theorem | States |
|---|---|
| `TypeCorrect` | `Spec => []TypeOK`, for every tolerance |
| `Invariance` | `Tol = 0 => (Spec => []Inv)` |
| `Refinement` | `Tol = 0 => (Spec => Implements)`: `GurobiSolver` implements `Optimizer` |

Assumptions: those of `SolverRepn`, and that there are finitely many parameters
and variables, that a model has an objective and no intrinsic function (Gurobi
refuses both of the others), that bounds are integers, parameters or `None`.
`Tol = 0` is necessary: with a tolerance a resolve leaves coefficients that lag the
model, and its answer is an optimum of another model, by design.  TLC evaluates
all of them, and checks `Inv` and `Implements` on `GurobiTracked`.

The argument.  The refinement is about the answer of one call, but whether it is
an optimum depends on all calls before.  `Follows` is what they leave behind:
while `Updatable` holds there are values of all parameters and variables, equal to the cache
where there is one, at which the kept `GRBModel` is the loaded model.  It is not
inductive alone.  `LoadedOnce` relates `repn` and `coefmap` to the expressions that were loaded,
with the variables fixed at that time and not now; `RepnFits` has their domains, and that the
cache has exactly the tracked atoms unless `initial`; `initial => ~kept` says
that a cache emptied by `load()` or `reset()` is never compared with an old
`GRBModel`.

`ResolveFirst`: everything is cached and built at the same values (`FollowsResolveFirst`).
`ResolveAgain` is the heart (`PushedIsModel`).  An atom that is not tracked is read by no
coefficient that is marked mutable (`BehindTerms`, `SlotTracked`), so every term of the model either has the
value it had at the cache (`CollectSame`) or its slot is in `updated_coefs`
(`CachedOrUpdated`).  A pushed slot is the only one of its variable in its
expression (`SingleTerm`), so that overwriting the coefficient is the same as collecting
it again (`CollectPushed`, `PatchFollows`), the constant goes to a right-hand side that had no bound
(`RowRhsFollows`), and constraint *j* is row *j - 1* (`RowTracked`), so each row
follows (`RowFollows`), quadratic rows did not change (`QuadraticRowFollows`), and no
push throws (`NoneThrows`).  From `IsModel` it then follows that the points optimal for the `GRBModel` are
the optimal points of the model (`Behind...` and `...Optimal` lemmas): a term
times its fixed variables, summed over terms, is the sum over monomials of
collected coefficients times the values of free variables, which is an exchange
of two sums (`FoldExchange` in `Finite_proof`).  `SolveImplements` is the same for
a `GRBModel` that was just built; `FailsStep` and `ReadAnswer`'s other branches show that a
call that fails, even one that wrote half of an answer back, touches neither parameters nor
fixed variables.

### IpoptSolver_proof

For every set of objectives, constraints, variables, parameters, bounds and
points, and every number of views and changes:

| Theorem | States |
|---|---|
| `TypeCorrect` | `Spec => []TypeOK` |
| `ArraysFit` | `Spec => []OnlyAslOutgrows` |
| `ResolveIsCurrent` | `Spec => []ResolveSeesPresent` |
| `FixedAreKept` | `Spec => FixedStay` |
| `SolveStaysInBounds` | `Spec => SolutionsInBounds` |
| `AnswersAreExact` | `Spec => []ClientAnswersExact` |
| `CallbacksAreExact` | `Spec => []CallbacksExact` |
| `ClientNeverSeesStale`, `IpoptNeverSeesStale` | their first half: whatever was asked before, an answer to a client, or to Ipopt through a callback, is that of the recorded functions at the point that was set last |

Assumptions: the named `ASSUME`s of `NLPModel` and `IpoptSolver`: finitely many
parameters, finitely many variables with different indices, polynomials with integer coefficients, bounds, points and
the weights of a Lagrangian are numbers.

The argument.  The inductive invariant is `IInv`.  `ViewsOK` has `WellFormed` (the recorded
functions are those of the used variables at the values of the last refresh, the
caches and the point have their size, a variable that has a column was not fixed
at `initialize`) and `Coherent`: a cache or a sweep that is marked valid is the
one of the *current* point.  That a CppAD view has one flag for both of its caches and the
ASL two is part of it.  `LoadedOK` says that the arrays of a loaded CppAD view keep
fitting, whatever is done to the view later: its columns are chosen by
`initialize`, which makes a new view.  `SolvingOK` says what a running solve
knows: the point is within the bounds that `load` copied, which are the present ones if
the solve loaded, and a refreshed resolve works on the present values.

`ClientNeverSeesStale` and `IpoptNeverSeesStale` are the half of
`ClientAnswersExact` and `CallbacksExact` that depends on the order of calls: the
answer is that of the recorded functions.  The other half is that these, after
substitution of parameters and fixed variables, have the values and derivatives of the model's.
Substituting keeps the value of a power product (`SubstitutedPower`), and so of a
term (`SubstitutedAt`); recording and differentiating by a column commute
(`SubstitutedDerived`); the terms with coefficient zero, which recording drops, add
nothing (`RecordedSum`), so sums of terms, of their first and of their second partials are equal
(`RecordedAt`, `RecordedPartial`, `RecordedPartial2`); and an entry that the sparsity pattern
leaves out is zero (`NoEntry`, `NoEntry2`).  `ViewRecorded` puts them together.  What it needs is
that the columns suffice (`ColumnsSuffice`): a variable that is neither a column nor fixed
occurs in products with coefficient zero only, as when the file of the ASL leaves it out; and
the hypothesis of the properties, `StructureHolds`: no variable was released since the columns were chosen (so that
every variable that is not a column is recorded as its value), and the patterns
are still those of the recorded functions or larger.

### SymbolicDiff_proof

For every sequence of leaves, every expression graph of any size that a client can make of them, and all
functions in the place of the sixteen:

| Theorem | States |
|---|---|
| `SweepIsComplete` | `Spec => []EveryUseSwept` |
| `PassedPartialsStay` | `Spec => PartialsAreFinal` |
| `DiffIsExact` | `Spec => []DiffExact` |
| `CountersAgree` | in the second loop, the in-degree of every term is the number of its uses by terms still to be swept |

Assumptions: `DiffBounds` (leaves are leaves, each variable one of them and one object, points give numbers) and, for the
last theorem, `PrimeField` and `FnOnField`.  The argument.  In-degrees are cardinalities: of the uses by terms that were
expanded, while they are counted (`CountOK`), and of the uses that are still
`Pending`, in the sweep (`SweepOK`); a term may use another one several
times, so a use is a term *and* a place.  `HeapOK` says that arguments are older than the terms that
use them; so among the terms that have an in-degree above zero and are not in the
queue the newest would be used by a newer one, of the same kind: there is none when
the queue is empty, and every use was swept.

`DiffIsExact` relates two computations that have nothing in common but the graph: the
forward rules, from leaves to root, and the sweep, from the root down in the order in-degrees
run out.  Its invariant `DiffInv` is `IInv` and

1. `ValuesOK`: the value and the slopes of every term follow from its arguments', and are kept
   when terms are built.  Hence `RuleHolds` (`ReachRule`, `NodeRule`): the derivative of a term
   is the sum of partial times derivative over its arguments.  For a quotient that is algebra in
   the field (`QuotientRule`, `FieldQuotients`), and for a function its row of the table, which is
   its rule (`FunctionPartial` and `Rule` agree outside `Mistabled`).
2. `SweptReach` and `PartialOK`: in-degrees are those of terms of the expression; there is a partial, or a use
   still to be swept, wherever there is an in-degree; and a monomial that no other term
   uses has passed its partial to its variable once.
3. `FlowOK`: modulo `Prime`, the derivative of the root is the sum, over the terms that have still
   to pass on what they got, of partial times (own derivative less the shares
   already passed).  At the start that is the root alone, with partial 1.  A step of the sweep
   moves one share from a term to its argument, or to the variable of a monomial, and
   leaves the sum (`TwoChange`, `PassedOn`, `AmountRule`, `FlowStep`).  At the
   end only variables are left, and the partial of each is the derivative (`FinishKeepsDiff`).

`DiffExact` excepts a term with a zero denominator or zero base, `abs`, which needs an
order that the field lacks, and what the code differentiates wrongly: `sqrt`, `tanh`, `atanh`, and monomials with two uses.
The run `DiffDeclared`, with `Operators` as above, shows that each exception is needed.

### ModelFiles_proof

For every set of variables, names, attributes and models, and any number of changes and writes:

| Theorem | States |
|---|---|
| `LookupsFollow` | `Spec => []LookupsFollowNames` |
| `MapsAreRight` | `Spec => []MapsNameColumns` |
| `ColumnsInOrder` | the columns of an NL file are in the order its header counts them, none missing and none twice |

The argument.  The index by name is rebuilt only when it has fewer entries than there are
variables.  `NamesOK` says why that is enough but for renamed variables: the
index was collected from a prefix of the declared variables, and has at most as many entries as the prefix, so one that has
as many entries as there are variables was collected from all of them.  `FilesOK` says that a file was written from the model as it is
now, and that what earlier writes left in the maps was overwritten for all columns and rows of this one.
The columns are sequences of sets joined end to end (`Ranks!InOrder`), so
their order follows from the sizes of the sets (`InOrderMembers`).

### CompactModel_proof

For every list of given sets, any operators and number of derived sets, whatever
contexts, iterators and entries there are:

| Theorem | States |
|---|---|
| `SetsInvariant` | `Spec => []SetsInv(sets)` |
| `SetsAreExact` | `Spec => []SetsExact` |
| `InitializedSetsStay` | `Spec => InitializedStay` |
| `CompactInvariant` | `Spec => []CompactInv` |
| `IteratorsInOrder` | `Spec => []IteratesInOrder` |
| `ExpandedModels` | `Spec => ExpandExact` |

`SetsExact` alone is not inductive: it says nothing of a set that still has something to
initialize, and a step initializes all that is below the set at once.  `SetsInv` has two parts.
`SetsShape`: operands and factors are in places before their set, the factors of a
product are simple and as many as its dimensions, a range contains what it lists, and what was not
initialized holds nothing.  `ExactAt`: a combination that is initialized was made of operands that
are available (themselves initialized, or products of initialized factors), and holds its meaning unless it is misled.

1. A product goes through every combination of the elements of its factors, each once
   (`TuplesFacts`), and these are the tuples of its meaning (`ProductMeaning`).
2. So a set whose operands hold their meaning is filled with its own (`FilledExact`), since
   asking a set that is not misled is asking its meaning (`ContainsExact`).
3. Filling one set keeps the frame of all, the meanings and what is misled
   (`GrownFacts`), hence the invariant (`FillStep`); and `initialize()` fills
   in the order of the places, so operands come first (`InitializedInv`).

The assumption `GivenSets` says how the client's first sets are made: at least one, lists and vectors of numbers, ranges as
their constructor asserts them, and products of such.  `GivenInv` derives the
invariant from it.

`IteratesInOrder` says what an iterator yielded and nothing of where it is: nothing
follows from it about the next item.  `CompactInv` adds, besides `SetsInv`:
`ContextsOK`, contexts have loops over sets there are; `ItersOK`, every live iterator has the
shape of one (`LiveShape`), and one nobody interfered with goes in order (`GoesInOrder`): it yielded m items, stands at
the m-th tuple, *its index parameters hold that tuple*, and no sum of its template writes one of
them; `EntriesOK`, what is being expanded can be iterated; `ExpanderOK`, the
iterator of `expand()` lives only while it is at a sequence.

4. `NextPosition` is the next tuple (`NextCounted`): the number of a position, as digits
   to the bases of the loops' sizes, goes up by one.
5. The item converted at a position depends only on the index parameters that the template
   and its sums read (`ConvertedItem`, with `Agrees`), and these are the tuple's: `operator++` writes only the loops
   it moves, the others are as the invariant says (`AdvancesInOrder`).
6. An iterator is left as it was by whatever writes none of its index parameters
   (`LeftInOrder`, `OthersStay`); what another writes ends the claim about it (`Disturbed`).
7. `expand()`: `ExpandedOK` says that the rows are those of the entries before the present one and of
   the items its iterator left behind (`RowsAre`), and that the bounds of the variables before
   it are numbers.  Each step adds one row (`RowsAdded`), and when the iterator is done its rows are those of
   the whole entry (`EndExpanded`).  The iterator of `expand()` begins by writing all its index
   parameters, so what the client's iterators left in them does not matter.

### Finite_proof

The facts about `Ranks` and `Sums` that the others cite, from the library's
theorems: the n-th member of a set of numbers; that a recursive function over the subsets of a finite set is what its
equation says (`SetRecursion`); that sums and products do not depend on the order (`FoldAt`), that they are equal when
their terms are (`FoldSame`), the sum of sums (`FoldCombined`), over a part
(`FoldOfSubset`) and the rest (`FoldSplit`), renamed (`FoldRenamed`), exchanged (`FoldExchange`) and scaled
(`SumScaled`).  The induction theorems of the library take an operator as a
parameter, so induction is by least counterexample: `NumbersByInduction` and
`SubsetsByInduction` state it for a *set* of numbers or subsets that is closed
under the step.

### Only model-checked

* `ExpandEnds` is liveness under fairness, which the prover does not handle.
* `QuadraticExactOfQuotientsFirst`, `NLPExact`, `MutableMarked`, `SimplifyExact`, `OperatorsExact`,
  `ConstraintsExact`, `TextsReadBack`, `JPOFExact`: the visitors, texts and reader recurse over trees by
  RECURSIVE operators, which a module with theorems cannot reach.
* `LPFileExact`, `NLFileExact`, `NLSegmentsAgree` compare files with the model at all assignments, which is algebra
  over sequences of products.
* `StartsAtModel` relates the first answer of a view to the model by sums over products with the
  columns renamed; it is left to TLC.
* `Implements` with a tolerance is false.

## What is not modelled

* Of the modelled components:
  * solvers: options, several objectives (the code asserts one), time limits
    and other statuses than optimal, maximisation by Gurobi, `GurobiSolver` on a `CompactModel`, memory leaks in it,
    intrinsic functions in it (Gurobi refuses them as it refuses cubic terms),
    several objectives in a view of the ASL (only one is written), warm
    starts and multipliers of Ipopt (the starting point does not matter, Ipopt may
    begin anywhere), changes of a model's structure after `load`;
  * expressions: `nonlinear_vars`, subexpressions, rounding of doubles;
  * compact models: conditions (`ST`, `Where`), which the code stores and never reads; maps of
    expressions; set parameters and elements other than integers;
  * models and files: suffixes, the name index of constraints and objectives
    (the same code as for variables), files of a `CompactModel`, the `ostream` and `fmt`
    variants of the writers (the same sections), number formats; types, metadata
    and file errors of JPOF documents.
* Components without a module are listed in `PROJECT.json` with the reason.  Those
  that only forward, format or parse will stay that way: the C interface and the
  Python packages forward to the C++ classes, loading a library is I/O, indexed containers are
  maps that are filled once (their `generate_names()`, `api/indexed_container.defs.hpp:50`, appends the index of every
  element to one string, so the second element is named a[0][1], which any test that looks at two names shows).

## Plan

*Done:* all components with control of their own have a module; `TestSolver`,
`PlusTerms`, `GurobiSolver`, `IpoptSolver`, `SymbolicDiff`, `ModelFiles`, `Sets` and
`CompactModel` have their proofs, among them the refinement of `Optimizer`.

What the project could be continued with, in this order:

1. Subexpressions in `Expressions`, with their value cached by `eval`; the name
   index of constraints and objectives, and suffixes, in `Model`.
