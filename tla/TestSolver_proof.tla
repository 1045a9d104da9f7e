-------------------------- MODULE TestSolver_proof --------------------------
(***************************************************************************)
(* Proofs about TestSolver, for every set of parameters and variables,     *)
(* every tolerance and every family of models.                             *)
(***************************************************************************)
EXTENDS TestSolver, FiniteSetTheorems, SequenceTheorems, TLAPS

-----------------------------------------------------------------------------
(* What load() builds has the types of repn and coefmap.                   *)

(* A term is collected as one of the four kinds.                           *)
LEMMA KindOfType ==
    ASSUME NEW t \in Term, NEW F
    PROVE  KindOf(t, F) \in Kind
<1> DEFINE I == {i \in 1..Len(t.vars) : t.vars[i] \notin F}
<1>1. Len(t.vars) \in Nat
  BY LenProperties DEF Term
<1>2. IsFiniteSet(1..Len(t.vars))
  BY <1>1, FS_Interval
<1>3. IsFiniteSet(I)
  BY <1>2, FS_Subset
<1>4. Degree(t, F) \in Nat
  BY <1>3, FS_CardinalityType DEF Degree
<1>5. QED
  BY <1>4 DEF KindOf, Kind, Constant, Linear, Quadratic, Nonlinear

(* A collected term is an entry, whatever is fixed when it is collected.   *)
LEMMA EntryOfType ==
    ASSUME NEW t \in Term, NEW F \in SUBSET Var
    PROVE  EntryOf(t, F) \in Entry
<1>1. KindOf(t, F) \in Kind
  BY KindOfType
<1>2. t.vars \in Seq(Var) /\ t.coef \in SUBSET Atom
  BY DEF Term, Atom
<1>3. VarsOf(t) \cap F \in SUBSET Atom
  BY DEF Atom
<1>4. QED
  BY <1>1, <1>2, <1>3 DEF EntryOf, Entry

(* collect_terms() turns a representation and terms into a representation. *)
LEMMA CollectTermsType ==
    ASSUME NEW old \in Seq(Entry), NEW terms \in Seq(Term), NEW F \in SUBSET Var
    PROVE  CollectTerms(old, terms, F) \in Seq(Entry)
<1> DEFINE new == [i \in 1..Len(terms) |-> EntryOf(terms[i], F)]
<1>1. Len(terms) \in Nat /\ \A i \in 1..Len(terms) : terms[i] \in Term
  BY LenProperties, ElementOfSeq
<1>2. \A i \in 1..Len(terms) : EntryOf(terms[i], F) \in Entry
  BY <1>1, EntryOfType
<1>3. new \in Seq(Entry)
  BY <1>1, <1>2, IsASeq
<1>4. QED
  BY <1>3, ConcatProperties DEF CollectTerms

(* What a slot reads are parameters and variables.                         *)
LEMMA SlotAtomsType ==
    ASSUME NEW r \in Seq(Seq(Entry)), NEW s \in Slots(r)
    PROVE  SlotAtoms(r, s) \in SUBSET Atom
<1>1. Len(r) \in Nat /\ \A j \in 1..Len(r) : r[j] \in Seq(Entry)
  BY LenProperties, ElementOfSeq
<1>2. s[1] \in 1..Len(r)
  BY <1>1 DEF Slots, WholeSlots, CoefSlots
<1>3. \A i \in 1..Len(r[s[1]]) : r[s[1]][i] \in Entry
  BY <1>1, <1>2, LenProperties, ElementOfSeq
<1>4. ASSUME NEW e \in Entry
      PROVE  EntryAtoms(e) \in SUBSET Atom
  <2>1. \A i \in 1..Len(e.vars) : e.vars[i] \in Var
    BY ElementOfSeq DEF Entry
  <2>2. QED
    BY <2>1 DEF EntryAtoms, VarsOf, Entry, Atom
<1>5. QED
  BY <1>3, <1>4 DEF SlotAtoms

(* load() keeps the types of the representation, its flags and the map.    *)
LEMMA LoadedRepnType ==
    ASSUME repn \in Seq(Seq(Entry)),
           fixed \in SUBSET Var, NEW m \in Models, LoadRepn(m)
    PROVE  /\ repn' \in Seq(Seq(Entry))
           /\ mutable' \in [1..Len(repn') -> BOOLEAN]
<1> DEFINE n == Len(Exprs[m])
<1>1. Exprs[m] \in Seq(Seq(Term))
  BY ExprsType
<1>2. n \in Nat /\ \A j \in 1..n : Exprs[m][j] \in Seq(Term)
  BY <1>1, LenProperties, ElementOfSeq
<1>3. \A j \in 1..n : OldRepn(j) \in Seq(Entry)
  <2> SUFFICES ASSUME NEW j \in 1..n
               PROVE  OldRepn(j) \in Seq(Entry)
    OBVIOUS
  <2>1. repn \in Seq(Seq(Entry)) /\ Len(repn) \in Nat
    BY LenProperties
  <2>2. CASE j <= Len(repn)
    <3>1. j \in 1..Len(repn)
      BY <1>2, <2>1, <2>2
    <3>2. QED
      BY <2>1, <2>2, <3>1, ElementOfSeq DEF OldRepn
  <2>3. CASE ~(j <= Len(repn))
    BY <2>3, EmptySeq DEF OldRepn
  <2>4. QED
    BY <2>2, <2>3
<1>4. fixed \in SUBSET Var
  OBVIOUS
<1>5. \A j \in 1..n : CollectTerms(OldRepn(j), Exprs[m][j], fixed) \in Seq(Entry)
  BY <1>2, <1>3, <1>4, CollectTermsType
<1>6. repn' = [j \in 1..n |-> CollectTerms(OldRepn(j), Exprs[m][j], fixed)]
  BY DEF LoadRepn
<1>7. repn' \in Seq(Seq(Entry))
  BY <1>2, <1>5, <1>6, IsASeq
<1>8. Len(repn') = n
  BY <1>2, <1>6
<1>9. \A j \in 1..n : IsMutable(j, Exprs[m][j], fixed) \in BOOLEAN
  BY DEF IsMutable
<1>10. mutable' = [j \in 1..n |-> IsMutable(j, Exprs[m][j], fixed)]
  BY DEF LoadRepn
<1>11. QED
  BY <1>7, <1>8, <1>9, <1>10

-----------------------------------------------------------------------------
(* Every slot of a representation is a slot.                               *)
LEMMA SlotsType ==
    ASSUME NEW r \in Seq(Seq(Entry))
    PROVE  Slots(r) \subseteq Slot
<1>1. Len(r) \in Nat /\ \A j \in 1..Len(r) : r[j] \in Seq(Entry)
  BY LenProperties, ElementOfSeq
<1>2. \A j \in 1..Len(r) : Len(r[j]) \in Nat /\ \A i \in 1..Len(r[j]) : r[j][i] \in Entry
  BY <1>1, LenProperties, ElementOfSeq
<1>3. WholeSlots(r) \subseteq Slot
  BY <1>1 DEF WholeSlots, Slot, Kind
<1>4. CoefSlots(r) \subseteq Slot
  <2> SUFFICES ASSUME NEW j \in 1..Len(r), NEW i \in 1..Len(r[j])
               PROVE  <<j, r[j][i].kind, i>> \in Slot
    BY DEF CoefSlots
  <2> QED
    BY <1>1, <1>2 DEF Slot, Entry
<1>5. QED
  BY <1>3, <1>4 DEF Slots

-----------------------------------------------------------------------------
(* What Inv says of the tracked slots, and of the values resolve compares. *)

(* The map filled by load() leads to slots that read the atom, and misses  *)
(* no slot of a mutable expression that reads a tracked atom.              *)
LEMMA CoefMapFacts ==
    ASSUME TypeOK, CoefMapLoaded
    PROVE  /\ \A a \in Atom : coefmap[a] \subseteq Slots(repn)
           /\ \A a \in Atom : \A s \in coefmap[a] : a \in SlotAtoms(repn, s)
           /\ \A s \in Slots(repn) : \A a \in SlotAtoms(repn, s) :
                 mutable[s[1]] /\ a \in Param \cup Tracked => s \in coefmap[a]
<1>1. PICK G \in SUBSET Var : coefmap = CoefMap(repn, mutable, G)
  BY DEF CoefMapLoaded
<1>2. \A a \in Atom :
        coefmap[a] = {s \in Slots(repn) :
                        mutable[s[1]] /\ a \in SlotAtoms(repn, s) \cap (Param \cup G)}
  BY <1>1 DEF CoefMap
<1>3. repn \in Seq(Seq(Entry))
  BY DEF TypeOK
<1>4. ASSUME NEW s \in Slots(repn), NEW a \in SlotAtoms(repn, s),
             mutable[s[1]], a \in Param \cup Tracked
      PROVE  s \in coefmap[a]
  <2>1. a \in Atom
    BY <1>3, SlotAtomsType
  <2>2. a \in Param \/ a \in G
    BY <1>2, <1>4, <2>1 DEF Tracked
  <2>3. QED
    BY <1>2, <1>4, <2>1, <2>2
<1>5. QED
  BY <1>2, <1>4

(* After find_updated_values() every cached number is within Tol.          *)
LEMMA RefreshedNear ==
    ASSUME Inv, NEW a \in DOMAIN cache, cache[a] # NaN
    PROVE  /\ RefreshedCache[a] \in Num
           /\ val[a] \in Num
           /\ Near(RefreshedCache[a], val[a], Tol)
<1>1. a \in Atom /\ cache[a] \in Num
  BY DEF Inv, TypeOK, Value
<1>2. val[a] \in Num
  BY <1>1 DEF Inv, TypeOK, NumbersStay, Value
<1>3. cache[a] \in Int /\ val[a] \in Int /\ Tol \in Nat
  BY <1>1, <1>2, NumbersAreIntegers, ToleranceIsNatural
<1>4. RefreshedCache[a] = IF Differs(cache[a], val[a]) THEN val[a] ELSE cache[a]
  BY DEF RefreshedCache, UpdatedValues
<1>5. val[a] # NaN
  BY <1>3, NumbersAreIntegers
<1>6. CASE Differs(cache[a], val[a])
  BY <1>2, <1>3, <1>4, <1>6 DEF Near
<1>7. CASE ~Differs(cache[a], val[a])
  BY <1>1, <1>2, <1>3, <1>4, <1>5, <1>7 DEF Near, Differs
<1>8. QED
  BY <1>6, <1>7

(* The snapshots a resolve pushes are partial valuations of the atoms.     *)
Snapshots == UNION {[A -> Value] : A \in SUBSET Atom}

(* What a resolve computes a coefficient from is such a partial valuation. *)
LEMMA SnapshotType ==
    ASSUME TypeOK, NEW s \in Slots(repn)
    PROVE  Snapshot(s) \in Snapshots
<1>1. SlotAtoms(repn, s) \in SUBSET Atom
  BY SlotAtomsType DEF TypeOK
<1>2. Snapshot(s) \in [SlotAtoms(repn, s) -> Value]
  BY <1>1 DEF Snapshot, TypeOK
<1>3. QED
  BY <1>1, <1>2 DEF Snapshots

(* The history counter stays in its range.                                 *)
LEMMA QuieterType ==
    ASSUME TypeOK
    PROVE  Quieter \in 0..2
BY DEF TypeOK, Quieter

-----------------------------------------------------------------------------
(* Inv is inductive: the initial states, then one lemma per action.        *)

(* No slot pushed: the empty partial function.                             *)
LEMMA NothingPushed ==
    ASSUME NEW f, f = <<>>
    PROVE  DOMAIN f = {} /\ f = [s \in DOMAIN f |-> f[s]]
OBVIOUS

LEMMA InitInv == Init => Inv
<1> SUFFICES ASSUME Init
             PROVE  Inv
  OBVIOUS
<1>1. DOMAIN cache = {} /\ DOMAIN pushed = {} /\ Len(repn) = 0
  BY DEF Init, InitSolverRepn
<1>2. TypeOK
  <2>1. repn \in Seq(Seq(Entry)) /\ mutable \in Seq(BOOLEAN) /\ repn = mutable
    BY EmptySeq DEF Init, InitSolverRepn
  <2>2. mutable \in [1..Len(repn) -> BOOLEAN]
    BY <2>1, LenProperties
  <2>3. loads \in 0..MaxLoads
    BY LoadsBounded DEF Init, InitSolverRepn
  <2>4. PushedType
    BY NothingPushed DEF Init, PushedType
  <2>5. initial \in BOOLEAN /\ solved \in BOOLEAN /\ quiet \in 0..2
    <3>1. initial \in BOOLEAN
      BY DEF Init, InitSolverRepn
    <3>2. solved \in BOOLEAN
      BY DEF Init, InitSolverRepn
    <3>3. quiet \in 0..2
      BY DEF Init, InitSolverRepn
    <3>4. QED
      BY <3>1, <3>2, <3>3
  <2>6. QED
    BY <1>1, <2>1, <2>2, <2>3, <2>4, <2>5 DEF Init, InitSolverRepn, TypeOK
<1>3. Slots(repn) = {}
  BY <1>1 DEF Slots, WholeSlots, CoefSlots
<1>4. CoefMapLoaded
  <2>1. CoefMap(repn, mutable, {}) = [a \in Atom |-> {}]
    BY <1>3 DEF CoefMap
  <2>2. QED
    BY <2>1 DEF CoefMapLoaded, Init, InitSolverRepn
<1>5. CacheMatchesRepn /\ PushedMatchesRepn /\ PushedNumbersNearCache
  BY <1>1 DEF CacheMatchesRepn, PushedMatchesRepn, PushedNumbersNearCache,
              Init, InitSolverRepn
<1>6. NumbersStay /\ QuietMeansUnchanged
  BY <1>1 DEF NumbersStay, QuietMeansUnchanged, Init, InitSolverRepn
<1>7. QED
  BY <1>2, <1>4, <1>5, <1>6 DEF Inv

(* A new value of a parameter or variable is no update until a resolve.    *)
LEMMA SetValueInv ==
    ASSUME Inv, SetValue
    PROVE  Inv'
<1>1. PICK a \in Atom, x \in Num : SetModelValue(a, x) /\ quiet' = 0 /\ UNCHANGED <<pushed, solved>>
  BY DEF SetValue
<1>2. /\ val' = [val EXCEPT ![a] = x]
      /\ UNCHANGED <<fixed, repn, mutable, coefmap, loads>>
      /\ UNCHANGED <<initial, cache, updates, updated_coefs, pushed, solved>>
  BY <1>1 DEF SetModelValue, repnVars, cacheVars
<1>3. x # NaN
  BY NumbersAreIntegers
<1>4. TypeOK'
  <2>1. PushedType'
    BY <1>2 DEF Inv, TypeOK, PushedType
  <2>2. QED
    BY <1>1, <1>2, <2>1 DEF Inv, TypeOK, Value
<1>5. (CoefMapLoaded /\ CacheMatchesRepn /\ PushedMatchesRepn /\ PushedNumbersNearCache)'
  BY <1>2 DEF Inv, CoefMapLoaded, CacheMatchesRepn, PushedMatchesRepn,
              PushedNumbersNearCache, Tracked
<1>6. NumbersStay'
  BY <1>2, <1>3 DEF Inv, NumbersStay, TypeOK
<1>7. QuietMeansUnchanged'
  BY <1>1 DEF QuietMeansUnchanged
<1>8. QED
  BY <1>4, <1>5, <1>6, <1>7 DEF Inv

(* Changing a fixed flag reaches neither the cache nor the coefficients.   *)
LEMMA FixInv ==
    ASSUME Inv, Fix
    PROVE  Inv'
<1>1. PICK v \in Var : SetFixed(v) /\ quiet' = 0 /\ UNCHANGED <<pushed, solved>>
  BY DEF Fix
<1>2. /\ fixed' \in SUBSET Var
      /\ UNCHANGED <<val, repn, mutable, coefmap, loads>>
      /\ UNCHANGED <<initial, cache, updates, updated_coefs, pushed, solved>>
  BY <1>1 DEF SetFixed, repnVars, cacheVars, Inv, TypeOK
<1>3. TypeOK'
  <2>1. PushedType'
    BY <1>2 DEF Inv, TypeOK, PushedType
  <2>2. QED
    BY <1>1, <1>2, <2>1 DEF Inv, TypeOK
<1>4. (CoefMapLoaded /\ CacheMatchesRepn /\ PushedMatchesRepn /\ PushedNumbersNearCache)'
  BY <1>2 DEF Inv, CoefMapLoaded, CacheMatchesRepn, PushedMatchesRepn,
              PushedNumbersNearCache, Tracked
<1>5. (NumbersStay /\ QuietMeansUnchanged)'
  BY <1>1, <1>2 DEF Inv, NumbersStay, QuietMeansUnchanged
<1>6. QED
  BY <1>3, <1>4, <1>5 DEF Inv

(* load() empties the cache: nothing is claimed of it until a resolve.     *)
LEMMA LoadInv ==
    ASSUME Inv, Load
    PROVE  Inv'
<1>1. PICK m \in Models : LoadRepn(m) /\ pushed' = <<>> /\ quiet' = 0 /\ solved' = FALSE
  BY DEF Load
<1>2. /\ coefmap' = CoefMap(repn', mutable', fixed)
      /\ initial' = TRUE /\ cache' = <<>>
      /\ UNCHANGED <<val, fixed, updates, updated_coefs>>
      /\ loads < MaxLoads /\ loads' = loads + 1
  BY <1>1 DEF LoadRepn, ResetCache, modelVars
<1>3. /\ repn' \in Seq(Seq(Entry))
      /\ mutable' \in [1..Len(repn') -> BOOLEAN]
  BY <1>1, LoadedRepnType DEF Inv, TypeOK
<1>4. Slots(repn') \subseteq Slot
  BY <1>3, SlotsType
<1>5. coefmap' \in [Atom -> SUBSET Slot]
  BY <1>2, <1>4 DEF CoefMap
<1>6. DOMAIN cache' = {}
  BY <1>2
<1>7. TypeOK'
  <2>1. loads' \in 0..MaxLoads
    BY <1>2, LoadsBounded DEF Inv, TypeOK
  <2>2. PushedType'
    BY <1>1, NothingPushed DEF PushedType
  <2>3. initial' \in BOOLEAN /\ solved' \in BOOLEAN /\ quiet' \in 0..2
    <3>1. initial' \in BOOLEAN
      BY <1>1, <1>2
    <3>2. solved' \in BOOLEAN
      BY <1>1, <1>2
    <3>3. quiet' \in 0..2
      BY <1>1, <1>2
    <3>4. QED
      BY <3>1, <3>2, <3>3
  <2>4. QED
    BY <1>2, <1>3, <1>5, <1>6, <2>1, <2>2, <2>3 DEF Inv, TypeOK
<1>8. CoefMapLoaded'
  BY <1>2 DEF Inv, TypeOK, CoefMapLoaded, CoefMap
<1>9. (CacheMatchesRepn /\ PushedMatchesRepn /\ PushedNumbersNearCache)'
  BY <1>2, <1>6 DEF CacheMatchesRepn, PushedMatchesRepn, PushedNumbersNearCache
<1>10. (NumbersStay /\ QuietMeansUnchanged)'
  BY <1>1, <1>2, <1>6 DEF Inv, NumbersStay, QuietMeansUnchanged
<1>11. QED
  BY <1>7, <1>8, <1>9, <1>10 DEF Inv

(* reset() empties the cache: nothing is claimed of it until a resolve.    *)
LEMMA ResetInv ==
    ASSUME Inv, Reset
    PROVE  Inv'
<1>1. /\ initial' = TRUE /\ cache' = <<>>
      /\ pushed' = <<>> /\ quiet' = 0 /\ solved' = FALSE
      /\ UNCHANGED <<val, fixed, repn, mutable, coefmap, loads>>
      /\ UNCHANGED <<updates, updated_coefs>>
  BY DEF Reset, ResetCache, modelVars, repnVars
<1>2. DOMAIN cache' = {}
  BY <1>1
<1>3. TypeOK'
  <2>1. PushedType'
    BY <1>1, NothingPushed DEF PushedType
  <2>2. initial' \in BOOLEAN /\ solved' \in BOOLEAN /\ quiet' \in 0..2
    <3>1. initial' \in BOOLEAN
      BY <1>1
    <3>2. solved' \in BOOLEAN
      BY <1>1
    <3>3. quiet' \in 0..2
      BY <1>1
    <3>4. QED
      BY <3>1, <3>2, <3>3
  <2>3. QED
    BY <1>1, <1>2, <2>1, <2>2 DEF Inv, TypeOK
<1>4. CoefMapLoaded'
  BY <1>1 DEF Inv, CoefMapLoaded
<1>5. (CacheMatchesRepn /\ PushedMatchesRepn /\ PushedNumbersNearCache)'
  BY <1>1, <1>2 DEF CacheMatchesRepn, PushedMatchesRepn, PushedNumbersNearCache
<1>6. (NumbersStay /\ QuietMeansUnchanged)'
  BY <1>1, <1>2 DEF Inv, NumbersStay, QuietMeansUnchanged
<1>7. QED
  BY <1>3, <1>4, <1>5, <1>6 DEF Inv

(* A solve fills the cache; of what was pushed nothing is claimed then.    *)
LEMMA SolveInv ==
    ASSUME Inv, Solve
    PROVE  Inv'
<1>1. /\ initial' = FALSE /\ quiet' = 0 /\ updates' = {} /\ solved' = TRUE
      /\ cache' = [a \in Tracked |-> val[a]]
      /\ UNCHANGED <<val, fixed, repn, mutable, coefmap, loads>>
      /\ UNCHANGED <<updated_coefs, pushed>>
  BY DEF Solve, InitialSolveFirst, modelVars, repnVars
<1>2. TypeOK'
  <2>1. /\ DOMAIN cache' \subseteq Atom
        /\ \A a \in DOMAIN cache' : cache'[a] \in Value
    BY <1>1 DEF Inv, TypeOK, Tracked
  <2>2. PushedType'
    BY <1>1 DEF Inv, TypeOK, PushedType
  <2>3. initial' \in BOOLEAN /\ solved' \in BOOLEAN /\ quiet' \in 0..2
    <3>1. initial' \in BOOLEAN
      BY <1>1
    <3>2. solved' \in BOOLEAN
      BY <1>1
    <3>3. quiet' \in 0..2
      BY <1>1
    <3>4. QED
      BY <3>1, <3>2, <3>3
  <2>4. QED
    BY <1>1, <2>1, <2>2, <2>3 DEF Inv, TypeOK
<1>3. (CoefMapLoaded /\ CacheMatchesRepn)'
  BY <1>1 DEF Inv, CoefMapLoaded, CacheMatchesRepn, Tracked
<1>4. (PushedMatchesRepn /\ PushedNumbersNearCache)'
  BY <1>1 DEF PushedMatchesRepn, PushedNumbersNearCache
<1>5. (NumbersStay /\ QuietMeansUnchanged)'
  BY <1>1 DEF Inv, NumbersStay, QuietMeansUnchanged
<1>6. QED
  BY <1>2, <1>3, <1>4, <1>5 DEF Inv

(* The first resolve caches the values it computes every coefficient from. *)
LEMMA ResolveFirstInv ==
    ASSUME Inv, ResolveFirst
    PROVE  Inv'
<1>1. /\ initial /\ initial' = FALSE /\ quiet' = Quieter /\ updates' = {}
      /\ cache' = [a \in Tracked |-> val[a]]
      /\ pushed' = [s \in Slots(repn) |-> Snapshot(s)]
      /\ UNCHANGED <<val, fixed, repn, mutable, coefmap, loads, updated_coefs>>
      /\ UNCHANGED solved
  BY DEF ResolveFirst, InitialSolveFirst, modelVars, repnVars
<1>2. TypeOK
  BY DEF Inv
<1>3. Slots(repn) \subseteq Slot
  BY <1>2, SlotsType DEF TypeOK
<1>4. Tracked \subseteq Atom
  BY DEF Tracked
<1>5. TypeOK'
  <2>1. PushedType'
    BY <1>1, <1>3 DEF PushedType
  <2>2. QED
    BY <1>1, <1>2, <1>4, <2>1, QuieterType DEF TypeOK
<1>6. (CoefMapLoaded /\ CacheMatchesRepn)'
  BY <1>1 DEF Inv, CoefMapLoaded, CacheMatchesRepn, Tracked
<1>7. PushedMatchesRepn'
  BY <1>1, <1>2, SnapshotType DEF PushedMatchesRepn, Snapshots
<1>8. NumbersStay'
  BY <1>1 DEF Inv, NumbersStay
<1>9. PushedNumbersNearCache'
  <2> SUFFICES ASSUME NEW a \in DOMAIN cache', NEW s \in coefmap'[a], cache'[a] # NaN
               PROVE  pushed'[s][a] \in Num /\ Near(pushed'[s][a], cache'[a], Tol)
    BY DEF PushedNumbersNearCache
  <2>1. a \in Tracked /\ a \in Atom /\ s \in coefmap[a]
    BY <1>1, <1>4
  <2>2. s \in Slots(repn) /\ a \in SlotAtoms(repn, s)
    BY <1>2, <2>1, CoefMapFacts DEF Inv
  <2>3. pushed'[s][a] = val[a] /\ cache'[a] = val[a]
    BY <1>1, <2>1, <2>2 DEF Snapshot
  <2>4. val[a] \in Num
    BY <1>2, <2>1, <2>3 DEF TypeOK, Value
  <2>5. ASSUME NEW n \in Int
        PROVE  Near(n, n, Tol)
    BY ToleranceIsNatural DEF Near
  <2>6. QED
    BY <2>3, <2>4, <2>5, NumbersAreIntegers
<1>10. QuietMeansUnchanged'
  <2>1. \A a \in Tracked : val[a] \in Value
    BY <1>2, <1>4 DEF TypeOK
  <2>2. \A v \in Value : ~Differs(v, v)
    <3> SUFFICES ASSUME NEW v \in Value, v # NaN
                 PROVE  ~(v - v > Tol)
      BY DEF Differs
    <3>1. v \in Int
      BY NumbersAreIntegers DEF Value
    <3>2. QED
      BY <3>1, ToleranceIsNatural
  <2>3. QED
    BY <1>1, <2>1, <2>2 DEF QuietMeansUnchanged, Differs
<1>11. QED
  BY <1>5, <1>6, <1>7, <1>8, <1>9, <1>10 DEF Inv

(* A later resolve moves cache and coefficients together, or neither.      *)
LEMMA ResolveAgainInv ==
    ASSUME Inv, ResolveAgain
    PROVE  Inv'
<1>1. /\ ~initial /\ UNCHANGED initial /\ quiet' = Quieter
      /\ cache' = RefreshedCache
      /\ updates' = UpdatedValues
      /\ updated_coefs' = UpdatedCoefs
      /\ pushed' = [s \in DOMAIN pushed |->
                      IF s \in updated_coefs' THEN Snapshot(s) ELSE pushed[s]]
      /\ UNCHANGED <<val, fixed, repn, mutable, coefmap, loads, solved>>
  BY DEF ResolveAgain, InitialSolveAgain, modelVars, repnVars
<1>2. TypeOK /\ CoefMapLoaded
  BY DEF Inv
<1>3. DOMAIN cache = Tracked /\ Tracked \subseteq Atom
  BY <1>1 DEF Inv, CacheMatchesRepn, Tracked
<1>4. ~solved => pushed \in [Slots(repn) -> Snapshots] /\ DOMAIN pushed = Slots(repn)
  BY <1>1 DEF Inv, PushedMatchesRepn, Snapshots
<1>5. DOMAIN cache' = DOMAIN cache
  BY <1>1 DEF RefreshedCache
<1>6. TypeOK'
  <2>1. \A a \in DOMAIN cache' : cache'[a] \in Value
    BY <1>1, <1>2, <1>3 DEF RefreshedCache, TypeOK
  <2>2. updates' \subseteq Atom
    BY <1>1, <1>3 DEF UpdatedValues
  <2>3. updated_coefs' \subseteq Slot
    BY <1>1, <1>2, <2>2 DEF UpdatedCoefs, TypeOK
  <2>4. PushedType'
    BY <1>1, <1>2 DEF TypeOK, PushedType
  <2>5. QED
    BY <1>1, <1>2, <1>3, <1>5, <2>1, <2>2, <2>3, <2>4, QuieterType DEF TypeOK
<1>7. (CoefMapLoaded /\ CacheMatchesRepn)'
  BY <1>1, <1>5 DEF Inv, CoefMapLoaded, CacheMatchesRepn, Tracked
<1>8. PushedMatchesRepn'
  <2> SUFFICES ASSUME ~solved
               PROVE  PushedMatchesRepn'
    BY <1>1 DEF PushedMatchesRepn
  <2>1. \A s \in Slots(repn) : Snapshot(s) \in Snapshots /\ pushed[s] \in Snapshots
    BY <1>2, <1>4, SnapshotType
  <2>2. pushed' \in [Slots(repn) -> Snapshots]
    BY <1>1, <1>4, <2>1
  <2>3. QED
    BY <1>1, <2>2 DEF PushedMatchesRepn, Snapshots
<1>9. NumbersStay'
  BY <1>1, <1>5 DEF Inv, NumbersStay, RefreshedCache
<1>10. PushedNumbersNearCache'
  <2> SUFFICES ASSUME ~solved,
                      NEW a \in DOMAIN cache', NEW s \in coefmap'[a], cache'[a] # NaN
               PROVE  pushed'[s][a] \in Num /\ Near(pushed'[s][a], cache'[a], Tol)
    BY <1>1 DEF PushedNumbersNearCache
  <2>1. a \in DOMAIN cache /\ a \in Atom /\ s \in coefmap[a]
    BY <1>1, <1>3, <1>5
  <2>2. s \in Slots(repn) /\ a \in SlotAtoms(repn, s)
    BY <1>2, <2>1, CoefMapFacts
  <2>3. cache[a] # NaN
    BY <1>1, <2>1 DEF RefreshedCache, UpdatedValues, Differs
  <2>4. /\ cache'[a] \in Num /\ val[a] \in Num
        /\ Near(cache'[a], val[a], Tol)
    BY <1>1, <2>1, <2>3, RefreshedNear
  <2>5. CASE s \in updated_coefs'
    <3>1. pushed'[s][a] = val[a]
      BY <1>1, <1>4, <2>2, <2>5 DEF Snapshot
    <3>2. QED
      BY <2>4, <3>1, NumbersAreIntegers, ToleranceIsNatural DEF Near
  <2>6. CASE s \notin updated_coefs'
    <3>1. a \notin UpdatedValues
      BY <1>1, <2>1, <2>6 DEF UpdatedCoefs
    <3>2. cache'[a] = cache[a] /\ pushed'[s] = pushed[s]
      BY <1>1, <1>4, <2>1, <2>2, <2>6, <3>1 DEF RefreshedCache
    <3>3. QED
      BY <1>1, <2>1, <2>3, <3>2 DEF Inv, PushedNumbersNearCache
  <2>7. QED
    BY <2>5, <2>6
<1>11. QuietMeansUnchanged'
  <2> SUFFICES ASSUME NEW a \in DOMAIN cache
               PROVE  ~Differs(RefreshedCache[a], val[a])
    BY <1>1, <1>5 DEF QuietMeansUnchanged, Differs
  <2>1. CASE cache[a] = NaN
    BY <2>1 DEF RefreshedCache, UpdatedValues, Differs
  <2>2. CASE cache[a] # NaN
    <3>1. /\ RefreshedCache[a] \in Int /\ val[a] \in Int
          /\ Near(RefreshedCache[a], val[a], Tol)
      BY <2>2, RefreshedNear, NumbersAreIntegers
    <3>2. QED
      BY <3>1, ToleranceIsNatural DEF Near, Differs
  <2>3. QED
    BY <2>1, <2>2
<1>12. QED
  BY <1>6, <1>7, <1>8, <1>9, <1>10, <1>11 DEF Inv

(* Every step keeps the invariant.                                         *)
LEMMA NextInv ==
    ASSUME Inv, [Next]_vars
    PROVE  Inv'
<1>1. CASE SetValue
  BY <1>1, SetValueInv
<1>2. CASE Fix
  BY <1>2, FixInv
<1>3. CASE Load
  BY <1>3, LoadInv
<1>4. CASE Reset
  BY <1>4, ResetInv
<1>5. CASE Solve
  BY <1>5, SolveInv
<1>6. CASE ResolveFirst
  BY <1>6, ResolveFirstInv
<1>7. CASE ResolveAgain
  BY <1>7, ResolveAgainInv
<1>8. CASE UNCHANGED vars
  <2>1. /\ UNCHANGED <<val, fixed, repn, mutable, coefmap, loads>>
        /\ UNCHANGED <<initial, cache, updates, updated_coefs, pushed, quiet, solved>>
    BY <1>8 DEF vars, modelVars, repnVars, cacheVars
  <2>2. (TypeOK /\ CoefMapLoaded /\ CacheMatchesRepn /\ PushedMatchesRepn)'
    BY <2>1 DEF Inv, TypeOK, PushedType, CoefMapLoaded, CacheMatchesRepn, PushedMatchesRepn, Tracked
  <2>3. (NumbersStay /\ PushedNumbersNearCache /\ QuietMeansUnchanged)'
    BY <2>1 DEF Inv, NumbersStay, PushedNumbersNearCache, QuietMeansUnchanged
  <2>4. QED
    BY <2>2, <2>3 DEF Inv
<1>9. QED
  BY <1>1, <1>2, <1>3, <1>4, <1>5, <1>6, <1>7, <1>8 DEF Next, Resolve

-----------------------------------------------------------------------------
(* The theorems.                                                           *)

(* Inv holds in every reachable state.                                     *)
THEOREM Invariance == Spec => []Inv
<1>1. Init => Inv
  BY InitInv
<1>2. Inv /\ [Next]_vars => Inv'
  BY NextInv
<1>3. QED
  BY <1>1, <1>2, PTL DEF Spec

(* The variables keep their types.                                         *)
THEOREM TypeCorrect == Spec => []TypeOK
<1>1. Inv => TypeOK
  BY DEF Inv
<1>2. QED
  BY <1>1, Invariance, PTL

(* No pushed coefficient strays from the cache by more than Tol.           *)
THEOREM PushedStaysNearCache == Spec => []PushedNearCache
<1>1. Inv => PushedNearCache
  BY DEF Inv, PushedNumbersNearCache, PushedNearCache
<1>2. QED
  BY <1>1, Invariance, PTL

(* After a resolve the cache is within Tol of the model.                   *)
LEMMA ResolvedCacheNear ==
    ASSUME Inv, Resolve, NEW a \in DOMAIN cache', cache'[a] # NaN
    PROVE  cache'[a] \in Num /\ val[a] \in Num /\ Near(cache'[a], val[a], Tol)
<1>1. CASE ResolveFirst
  <2>1. cache' = [b \in Tracked |-> val[b]]
    BY <1>1 DEF ResolveFirst, InitialSolveFirst
  <2>2. a \in Atom /\ cache'[a] = val[a]
    BY <2>1 DEF Tracked
  <2>3. val[a] \in Num
    BY <2>2 DEF Inv, TypeOK, Value
  <2>4. ASSUME NEW n \in Int
        PROVE  Near(n, n, Tol)
    BY ToleranceIsNatural DEF Near
  <2>5. QED
    BY <2>2, <2>3, <2>4, NumbersAreIntegers
<1>2. CASE ResolveAgain
  <2>1. cache' = RefreshedCache /\ DOMAIN cache' = DOMAIN cache
    BY <1>2 DEF ResolveAgain, InitialSolveAgain, RefreshedCache
  <2>2. cache[a] # NaN
    BY <2>1 DEF RefreshedCache, UpdatedValues, Differs
  <2>3. QED
    BY <2>1, <2>2, RefreshedNear
<1>3. QED
  BY <1>1, <1>2 DEF Resolve

(* A resolve brings every coefficient within twice the tolerance of the    *)
(* model, whatever changes, loads and resets came before, unless a solve   *)
(* took the turn of the first resolve.                                     *)
THEOREM ResolvesAreFresh == Spec => ResolveFresh
<1>1. ASSUME Inv, Inv', Resolve, ~solved
      PROVE  UpToDate'
  <2>1. UNCHANGED <<val, repn, mutable, coefmap, solved>> /\ ~initial'
    BY <1>1 DEF Resolve, ResolveFirst, ResolveAgain, InitialSolveFirst,
                InitialSolveAgain, modelVars, repnVars, cacheVars
  <2> SUFFICES ASSUME NEW s \in Slots(repn), mutable[s[1]],
                      NEW a \in SlotAtoms(repn, s), a \in Watched'
               PROVE  Near(pushed'[s][a], val[a], 2 * Tol)
    BY <2>1 DEF UpToDate
  <2>2. DOMAIN cache' = Tracked /\ Tracked \subseteq Atom
    BY <1>1, <2>1 DEF Inv, CacheMatchesRepn, Tracked
  <2>3. a \in Atom /\ s \in coefmap[a] /\ coefmap' = coefmap
    BY <1>1, <2>1, <2>2, CoefMapFacts, SlotAtomsType DEF Inv, TypeOK, Watched
  <2>4. a \in DOMAIN cache'
    BY <2>2, <2>3 DEF Tracked
  <2>5. cache'[a] # NaN
    BY <1>1, <2>4, NumbersAreIntegers DEF Watched, Inv, NumbersStay
  <2>6. pushed'[s][a] \in Num /\ Near(pushed'[s][a], cache'[a], Tol)
    BY <1>1, <2>1, <2>3, <2>4, <2>5 DEF Inv, PushedNumbersNearCache
  <2>7. cache'[a] \in Num /\ val[a] \in Num /\ Near(cache'[a], val[a], Tol)
    BY <1>1, <2>4, <2>5, ResolvedCacheNear
  <2>8. ASSUME NEW x \in Int, NEW y \in Int, NEW z \in Int,
               Near(x, y, Tol), Near(y, z, Tol)
        PROVE  Near(x, z, 2 * Tol)
    BY <2>8, ToleranceIsNatural DEF Near
  <2>9. QED
    BY <2>6, <2>7, <2>8, NumbersAreIntegers
<1>2. QED
  BY <1>1, Invariance, PTL DEF ResolveFresh

(* A resolve with nothing changed since the last one pushes nothing.       *)
THEOREM QuietResolvesPushNothing == Spec => QuietResolve
<1>1. ASSUME Inv, Resolve, quiet > 0
      PROVE  updates' = {} /\ pushed' = pushed
  <2>1. ResolveAgain
    BY <1>1 DEF Inv, QuietMeansUnchanged, Resolve, ResolveFirst, InitialSolveFirst
  <2>2. UpdatedValues = {}
    BY <1>1 DEF Inv, QuietMeansUnchanged, UpdatedValues
  <2>3. updates' = {} /\ updated_coefs' = {}
    BY <2>1, <2>2 DEF ResolveAgain, InitialSolveAgain, UpdatedCoefs
  <2>4. pushed' = [s \in DOMAIN pushed |-> pushed[s]]
    BY <2>1, <2>3 DEF ResolveAgain
  <2>5. pushed = [s \in DOMAIN pushed |-> pushed[s]]
    BY <1>1 DEF Inv, TypeOK, PushedType
  <2>6. QED
    BY <2>3, <2>4, <2>5
<1>2. QED
  BY <1>1, Invariance, PTL DEF QuietResolve
=============================================================================
