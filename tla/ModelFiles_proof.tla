--------------------------- MODULE ModelFiles_proof ---------------------------
(***************************************************************************)
(* Proofs about ModelFiles, for every set of variables, names, models and  *)
(* attributes, and any number of changes: looking variables up by name, the*)
(* maps that name the columns and rows of a file, and the order of the     *)
(* columns of an NL file.                                                  *)
(***************************************************************************)
EXTENDS ModelFiles, Finite_proof, SequenceTheorems, TLAPS

-----------------------------------------------------------------------------
(***************************************************************************)
(* The invariant.                                                          *)
(***************************************************************************)
TypesOK ==
    /\ declared \in Seq(Var) /\ name \in [Var -> Names] /\ attr \in [Var -> Attributes]
    /\ constraints \in Seq(ToSet(constraints))

(* The names are those of the first k variables, at the time they were     *)
(* collected: as many names as variables means that all were collected.    *)
NamesOK ==
    /\ \A n \in DOMAIN byName : /\ byName[n] \in ToSet(declared)
                                /\ name[byName[n]] = n \/ byName[n] \in renamed
    /\ IsFiniteSet(DOMAIN byName)
    /\ \E k \in 0..Len(declared) :
        /\ Cardinality(DOMAIN byName) <= k
        /\ \A i \in 1..k : declared[i] \in renamed \/ name[declared[i]] \in DOMAIN byName

(* What the header says of the columns of nonlinear terms.                 *)
CountsOK ==
    LET h == file.header
    IN  /\ h.vars = Cardinality(Used)
        /\ h.varsCon = Cardinality(NonlinearCon)
        /\ h.varsObj = Cardinality(NonlinearCon \cup NonlinearObj)
        /\ h.varsBoth = Cardinality(NonlinearCon \cap NonlinearObj)

(* A file is still there only while the model is as it was written.        *)
FilesOK ==
    /\ Is("lp") => ~LPThrows
    /\ Is("nl") => ~NLThrows /\ CountsOK
    /\ MapsNameColumns

IInv == TypesOK /\ NamesOK /\ FilesOK /\ LookupsFollowNames

-----------------------------------------------------------------------------
(* Facts about the operators.                                              *)

LEMMA DeclaredFacts ==
    ASSUME TypesOK
    PROVE  /\ Len(declared) \in Nat /\ DOMAIN declared = 1..Len(declared)
           /\ ToSet(declared) \subseteq Var /\ IsFiniteSet(ToSet(declared))
           /\ \A i \in 1..Len(declared) : declared[i] \in ToSet(declared)
           /\ \A v \in ToSet(declared) : \E i \in 1..Len(declared) : declared[i] = v
<1>1. declared \in Seq(Var) /\ Len(declared) \in Nat /\ DOMAIN declared = 1..Len(declared)
  BY DEF TypesOK
<1>2. declared \in Surjection(1..Len(declared), ToSet(declared))
  <2>1. declared \in [1..Len(declared) -> ToSet(declared)]
    BY <1>1 DEF ToSet
  <2>2. QED
    BY <1>1, <2>1 DEF Surjection, ToSet
<1>3. IsFiniteSet(ToSet(declared))
  BY <1>1, <1>2, FS_Interval, FS_Surjection
<1>4. ToSet(declared) \subseteq Var
  BY <1>1 DEF ToSet
<1>5. QED
  BY <1>1, <1>3, <1>4 DEF ToSet

(* collect_variable_names(): a name leads to a declared variable with it,  *)
(* every declared variable's name is there, and there are no more names    *)
(* than declarations.                                                      *)
LEMMA CollectFacts ==
    ASSUME TypesOK, NEW nm
    PROVE  /\ \A n \in DOMAIN Collect(nm) :
                Collect(nm)[n] \in ToSet(declared) /\ nm[Collect(nm)[n]] = n
           /\ \A v \in ToSet(declared) : nm[v] \in DOMAIN Collect(nm)
           /\ IsFiniteSet(DOMAIN Collect(nm))
           /\ Cardinality(DOMAIN Collect(nm)) <= Len(declared)
<1> DEFINE N == {nm[v] : v \in ToSet(declared)}
           L == Len(declared)
           f == [i \in 1..L |-> nm[declared[i]]]
<1>1. /\ L \in Nat /\ DOMAIN declared = 1..L
      /\ \A i \in 1..L : declared[i] \in ToSet(declared)
      /\ \A v \in ToSet(declared) : \E i \in 1..L : declared[i] = v
  BY DeclaredFacts
<1>2. DOMAIN Collect(nm) = N
  BY DEF Collect
<1>3. f \in Surjection(1..L, N)
  BY <1>1 DEF Surjection
<1>4. IsFiniteSet(N) /\ Cardinality(N) <= L
  <2>1. IsFiniteSet(1..L) /\ Cardinality(1..L) = L
    BY <1>1, FS_Interval
  <2> HIDE DEF N, L
  <2>2. QED
    BY <1>3, <2>1, FS_Surjection
<1>5. ASSUME NEW n \in N
      PROVE  Collect(nm)[n] \in ToSet(declared) /\ nm[Collect(nm)[n]] = n
  <2> DEFINE K == {k \in 1..L : nm[declared[k]] = n}
  <2>1. K \in SUBSET Nat /\ K # {}
    BY <1>1, <1>5
  <2>2. PICK k \in K : \A m \in K : k <= m
    <3> HIDE DEF K
    <3>1. QED
      BY <2>1, Least
  <2>3. \A i \in 1..(k - 1) : nm[declared[i]] # n
    <3> SUFFICES ASSUME NEW i \in 1..(k - 1), nm[declared[i]] = n PROVE FALSE
      OBVIOUS
    <3>1. k \in 1..L /\ i \in 1..L /\ i < k
      BY <1>1
    <3>2. i \in K
      BY <3>1
    <3>3. k <= i
      BY <2>2, <3>2
    <3>4. QED
      BY <1>1, <3>1, <3>3
  <2> DEFINE c == CHOOSE m \in DOMAIN declared :
                     nm[declared[m]] = n /\ \A i \in 1..(m - 1) : nm[declared[i]] # n
  <2>4. c \in 1..L /\ nm[declared[c]] = n
    BY <1>1, <2>2, <2>3
  <2>5. Collect(nm)[n] = declared[c]
    BY <1>5 DEF Collect
  <2>6. QED
    BY <1>1, <2>4, <2>5
<1>6. QED
  BY <1>2, <1>4, <1>5

LEMMA GeneratedType ==
    ASSUME TypesOK
    PROVE  GeneratedNames \in [Var -> Names]
BY ArraysType DEF TypesOK, GeneratedNames

-----------------------------------------------------------------------------
(* Lookups.                                                                *)

LEMMA InitInv == Init => IInv
<1> SUFFICES ASSUME Init PROVE IInv
  OBVIOUS
<1>1. TypesOK
  BY ModelsType, NamesType DEF Init, TypesOK
<1>2. NamesOK
  <2>1. DOMAIN byName = {} /\ byName = <<>>
    BY DEF Init
  <2>2. IsFiniteSet(DOMAIN byName) /\ Cardinality(DOMAIN byName) = 0
    BY <2>1, FS_EmptySet
  <2>3. 0 \in 0..Len(declared) /\ \A i \in 1..0 : FALSE
    BY <1>1 DEF TypesOK
  <2>4. QED
    BY <2>1, <2>2, <2>3 DEF NamesOK
<1>3. ~Is("lp") /\ ~Is("nl")
  BY DEF Init, Is
<1>4. QED
  BY <1>1, <1>2, <1>3 DEF Init, IInv, FilesOK, MapsNameColumns, LookupsFollowNames

(* A step after which there is neither an answer nor a file.               *)
LEMMA NothingToSay ==
    ASSUME found' = None, file' = None, TypesOK', NamesOK'
    PROVE  IInv'
BY DEF IInv, FilesOK, MapsNameColumns, LookupsFollowNames, Is

LEMMA AddVariableKeepsInv ==
    ASSUME IInv, NEW v \in Var, AddVariable(v)
    PROVE  IInv'
<1>1. TypesOK /\ NamesOK
  BY DEF IInv
<1>2. /\ declared' = Append(declared, v) /\ found' = None /\ file' = None
      /\ UNCHANGED <<constraints, attr, name, byName, renamed>>
  BY DEF AddVariable, Change
<1>3. /\ declared' \in Seq(Var) /\ Len(declared') = Len(declared) + 1
      /\ \A i \in 1..Len(declared) : declared'[i] = declared[i]
      /\ Len(declared) \in Nat
  BY <1>1, <1>2 DEF TypesOK
<1>4. ToSet(declared) \subseteq ToSet(declared')
  BY <1>1, <1>3, DeclaredFacts DEF ToSet
<1>5. TypesOK'
  BY <1>1, <1>2, <1>3 DEF TypesOK
<1>6. NamesOK'
  <2>1. PICK k \in 0..Len(declared) :
          /\ Cardinality(DOMAIN byName) <= k
          /\ \A i \in 1..k : declared[i] \in renamed \/ name[declared[i]] \in DOMAIN byName
    BY <1>1 DEF NamesOK
  <2>2. k \in 0..Len(declared') /\ \A i \in 1..k : i \in 1..Len(declared)
    BY <1>3
  <2>3. \A i \in 1..k : declared'[i] \in renamed \/ name[declared'[i]] \in DOMAIN byName
    BY <1>3, <2>1, <2>2
  <2>4. QED
    BY <1>1, <1>2, <1>4, <2>1, <2>2, <2>3 DEF NamesOK
<1>7. QED
  BY <1>2, <1>5, <1>6, NothingToSay

LEMMA SetAttributesKeepsInv ==
    ASSUME IInv, NEW v \in Var, NEW a \in Attributes, SetAttributes(v, a)
    PROVE  IInv'
<1>1. UNCHANGED <<declared, constraints, name, byName, renamed>> /\ found' = None /\ file' = None
  BY DEF SetAttributes, Change
<1>2. attr' \in [Var -> Attributes]
  BY DEF IInv, TypesOK, SetAttributes
<1>3. TypesOK' /\ NamesOK'
  BY <1>1, <1>2 DEF IInv, TypesOK, NamesOK
<1>4. QED
  BY <1>1, <1>3, NothingToSay

LEMMA RenameKeepsInv ==
    ASSUME IInv, NEW v \in Var, NEW n \in Names, Rename(v, n)
    PROVE  IInv'
<1>1. TypesOK /\ NamesOK
  BY DEF IInv
<1>2. /\ name' = [name EXCEPT ![v] = n] /\ renamed' = renamed \cup {v}
      /\ UNCHANGED <<declared, constraints, attr, byName>> /\ found' = None /\ file' = None
  BY DEF Rename, Change
<1>3. TypesOK'
  BY <1>1, <1>2 DEF TypesOK
<1>4. \A w : name'[w] = name[w] \/ w \in renamed'
  BY <1>1, <1>2 DEF TypesOK
<1>5. NamesOK'
  BY <1>1, <1>2, <1>4 DEF NamesOK
<1>6. QED
  BY <1>2, <1>3, <1>5, NothingToSay

(* Collecting names makes every name one of now.                           *)
LEMMA RefreshKeepsNames ==
    ASSUME TypesOK, Refresh, UNCHANGED <<declared, constraints, attr>>
    PROVE  /\ TypesOK' /\ NamesOK' /\ renamed' = {}
           /\ \A v \in ToSet(declared) : name'[v] \in DOMAIN byName'
<1>1. name' = GeneratedNames /\ byName' = Collect(GeneratedNames) /\ renamed' = {}
  BY DEF Refresh
<1>2. /\ \A n \in DOMAIN byName' : byName'[n] \in ToSet(declared) /\ name'[byName'[n]] = n
      /\ \A v \in ToSet(declared) : name'[v] \in DOMAIN byName'
      /\ IsFiniteSet(DOMAIN byName') /\ Cardinality(DOMAIN byName') <= Len(declared)
  BY <1>1, CollectFacts
<1>3. TypesOK'
  BY <1>1, GeneratedType DEF TypesOK
<1>4. Len(declared) \in 0..Len(declared)
      /\ \A i \in 1..Len(declared) : name'[declared[i]] \in DOMAIN byName'
  BY <1>2, DeclaredFacts
<1>5. NamesOK'
  BY <1>1, <1>2, <1>4 DEF NamesOK
<1>6. QED
  BY <1>1, <1>2, <1>3, <1>5

(* Names that are not outdated are those of all variables.                 *)
LEMMA UpToDate ==
    ASSUME TypesOK, NamesOK, ~Outdated, NEW v \in ToSet(declared) \ renamed
    PROVE  name[v] \in DOMAIN byName
<1>1. PICK k \in 0..Len(declared) :
         /\ Cardinality(DOMAIN byName) <= k
         /\ \A i \in 1..k : declared[i] \in renamed \/ name[declared[i]] \in DOMAIN byName
  BY DEF NamesOK
<1>2. Cardinality(DOMAIN byName) \in Nat
  BY FS_CardinalityType DEF NamesOK
<1>3. k = Len(declared)
  BY <1>1, <1>2, DeclaredFacts DEF Outdated
<1>4. PICK i \in 1..Len(declared) : declared[i] = v
  BY DeclaredFacts
<1>5. QED
  BY <1>1, <1>3, <1>4

LEMMA GetVariableKeepsInv ==
    ASSUME IInv, NEW n \in Names, GetVariable(n)
    PROVE  IInv'
<1>1. TypesOK /\ NamesOK
  BY DEF IInv
<1>2. /\ UNCHANGED <<declared, constraints, attr>> /\ file' = None
      /\ found' = [name |-> n, var |-> IF n \in DOMAIN byName' THEN byName'[n] ELSE None]
  BY DEF GetVariable, model
<1>3. /\ TypesOK' /\ NamesOK'
      /\ \A v \in ToSet(declared) \ renamed' : name'[v] \in DOMAIN byName'
  <2>1. CASE Outdated
    BY <1>1, <1>2, <2>1, RefreshKeepsNames DEF GetVariable
  <2>2. CASE ~Outdated
    <3>1. UNCHANGED <<name, byName, renamed>>
      BY <2>2 DEF GetVariable
    <3>2. TypesOK' /\ NamesOK'
      BY <1>1, <1>2, <3>1 DEF TypesOK, NamesOK
    <3>3. QED
      BY <1>1, <2>2, <3>1, <3>2, UpToDate
  <2>3. QED
    BY <2>1, <2>2
<1>4. found'.name = n /\ found'.var = IF n \in DOMAIN byName' THEN byName'[n] ELSE None
  BY <1>2
<1>5. LookupsFollowNames'
  <2>1. CASE n \in DOMAIN byName'
    <3>1. /\ found'.var \in ToSet(declared')
          /\ name'[found'.var] = found'.name \/ found'.var \in renamed'
      BY <1>3, <1>4, <2>1 DEF NamesOK
    <3>2. found'.var # None
      BY <1>1, <1>2, <3>1, NoneIsNoVariable, DeclaredFacts
    <3>3. QED
      BY <3>1, <3>2 DEF LookupsFollowNames
  <2>2. CASE n \notin DOMAIN byName'
    <3>1. found'.var = None
      BY <1>4, <2>2
    <3>2. \A v \in ToSet(declared') \ renamed' : name'[v] # n
      BY <1>2, <1>3, <2>2
    <3>3. QED
      BY <1>4, <3>1, <3>2 DEF LookupsFollowNames
  <2>3. QED
    BY <2>1, <2>2
<1>6. QED
  BY <1>2, <1>3, <1>5 DEF IInv, FilesOK, MapsNameColumns, Is

LEMMA NameGenerationKeepsInv ==
    ASSUME IInv, NEW p \in {"simple", "lazy"}, NameGeneration(p)
    PROVE  IInv'
<1>1. /\ UNCHANGED <<declared, constraints, attr, name, byName, renamed>>
      /\ found' = None /\ file' = None
  BY DEF NameGeneration, Change
<1>2. TypesOK' /\ NamesOK'
  BY <1>1 DEF IInv, TypesOK, NamesOK
<1>3. QED
  BY <1>1, <1>2, NothingToSay

LEMMA GenerateNamesKeepsInv ==
    ASSUME IInv, GenerateNames
    PROVE  IInv'
<1>1. TypesOK /\ Refresh /\ UNCHANGED <<declared, constraints, attr>> /\ found' = None /\ file' = None
  BY DEF IInv, GenerateNames, model
<1>2. QED
  BY <1>1, RefreshKeepsNames, NothingToSay

LEMMA WriteNamesKeepsNames ==
    ASSUME TypesOK, NamesOK, WriteNames
    PROVE  TypesOK' /\ NamesOK' /\ found' = None
<1>1. /\ name' = GeneratedNames /\ UNCHANGED <<declared, constraints, attr, byName>> /\ found' = None
      /\ renamed' = renamed \cup {v \in Var : GeneratedNames[v] # name[v]}
  BY DEF WriteNames, model
<1>2. TypesOK'
  BY <1>1, GeneratedType DEF TypesOK
<1>3. \A v \in ToSet(declared) : name'[v] = name[v] \/ v \in renamed'
  BY <1>1, DeclaredFacts
<1>4. NamesOK'
  <2>1. PICK k \in 0..Len(declared) :
          /\ Cardinality(DOMAIN byName) <= k
          /\ \A i \in 1..k : declared[i] \in renamed \/ name[declared[i]] \in DOMAIN byName
    BY DEF NamesOK
  <2>2. \A i \in 1..k : declared[i] \in ToSet(declared)
    BY DeclaredFacts
  <2>3. \A i \in 1..k : declared[i] \in renamed' \/ name'[declared[i]] \in DOMAIN byName
    BY <1>1, <1>3, <2>1, <2>2
  <2>4. \A n \in DOMAIN byName : name'[byName[n]] = n \/ byName[n] \in renamed'
    BY <1>1, <1>3 DEF NamesOK
  <2>5. QED
    BY <1>1, <2>1, <2>3, <2>4 DEF NamesOK
<1>5. QED
  BY <1>1, <1>2, <1>4

-----------------------------------------------------------------------------
(* LP files.                                                               *)

(* The column of a declared variable is that of its last declaration, and  *)
(* the map has the variable there.                                         *)
LEMMA LPVarmapNames ==
    ASSUME TypesOK, Len(objectives) = 1, NEW old, NEW v \in ToSet(declared)
    PROVE  LPVarmap(old)[LPVid[v]] = v
<1> DEFINE L == Len(declared)
           K == {n \in 1..L : declared[n] = v}
           c == CHOOSE n \in DOMAIN declared :
                    declared[n] = v /\ \A k \in (n + 1)..Len(declared) : declared[k] # v
           new == [i \in 0..(Len(declared) - 1) |-> declared[i + 1]]
<1>1. L \in Nat /\ DOMAIN declared = 1..L
  BY DeclaredFacts
<1>2. K # {} /\ K \in SUBSET (0..L)
  BY <1>1, DeclaredFacts
<1>3. PICK n \in K : \A m \in K : m <= n
  <2> HIDE DEF K
  <2>1. QED
    BY <1>1, <1>2, Greatest
<1>4. \A k \in (n + 1)..L : declared[k] # v
  <2> SUFFICES ASSUME NEW k \in (n + 1)..L, declared[k] = v PROVE FALSE
    OBVIOUS
  <2>1. n \in 1..L /\ k \in 1..L /\ n < k
    BY <1>1
  <2>2. k <= n
    BY <1>3, <2>1
  <2>3. QED
    BY <1>1, <2>1, <2>2
<1>5. c \in 1..L /\ declared[c] = v
  BY <1>1, <1>3, <1>4
<1>6. LPVid[v] = c - 1
  BY DEF LPVid
<1>7. LPVarmap(old) = Over(new, old)
  BY DEF LPVarmap
<1> HIDE DEF c
<1>8. c - 1 \in DOMAIN new /\ new[c - 1] = declared[c]
  BY <1>1, <1>5
<1>9. QED
  BY <1>5, <1>6, <1>7, <1>8 DEF Over

(* What is left of a body in an NL file, an LP file has too.               *)
LEMMA NLThrowsAsLP == NLThrows => LPThrows
<1> SUFFICES ASSUME ~LPThrows PROVE Used \subseteq ToSet(declared)
  BY DEF NLThrows
<1>1. ASSUME NEW body, Printable(body), NEW degrees
      PROVE  VarsOf(Collected(body), degrees) \subseteq ToSet(declared)
  BY <1>1 DEF VarsOf, Printable, ToSet
<1>2. Len(objectives) = 1 /\ Printable(objectives[1].body)
  BY DEF LPThrows
<1>3. ASSUME NEW degrees
      PROVE  VarsOf(Objective, degrees) \subseteq ToSet(declared)
  <2>1. CASE objectives = <<>>
    BY <1>2, <2>1
  <2>2. CASE objectives # <<>>
    BY <1>1, <1>2, <2>2 DEF Objective
  <2>3. QED
    BY <2>1, <2>2
<1>4. ASSUME NEW n \in DOMAIN constraints, NEW degrees
      PROVE  VarsOf(Bodies[n], degrees) \subseteq ToSet(declared)
  <2>1. Printable(constraints[n].body)
    BY DEF LPThrows, ToSet
  <2>2. QED
    BY <1>1, <2>1 DEF Bodies
<1>5. DOMAIN Bodies = DOMAIN constraints
  BY DEF Bodies
<1>6. QED
  BY <1>3, <1>4, <1>5 DEF Used, LinearVars, NonlinearObj, NonlinearCon

LEMMA WriteLPKeepsInv ==
    ASSUME IInv, WriteLP
    PROVE  IInv'
<1>1. TypesOK /\ NamesOK
  BY DEF IInv
<1>2. TypesOK' /\ NamesOK' /\ found' = None
  BY <1>1, WriteNamesKeepsNames DEF WriteLP
<1>3. UNCHANGED model
  BY DEF WriteLP, WriteNames
<1>4. CASE LPThrows
  <2>1. file'.format = "broken"
    BY <1>4 DEF WriteLP
  <2>2. QED
    BY <1>2, <2>1 DEF IInv, FilesOK, MapsNameColumns, LookupsFollowNames, Is
<1>5. CASE ~LPThrows
  <2>1. file'.format = "lp"
    BY <1>5 DEF WriteLP, LPFile
  <2>2. Is("nl")' = FALSE
    BY <2>1 DEF Is
  <2>3. LPThrows' = LPThrows
    BY <1>3 DEF model, LPThrows, Printable, Collected
  <2>4. LPVid' = LPVid
    BY <1>3 DEF model, LPVid
  <2>5. \A v \in ToSet(declared) : varmap'[LPVid[v]] = v
    BY <1>1, <1>5, LPVarmapNames DEF WriteLP, LPThrows
  <2>6. MapsNameColumns'
    BY <1>3, <2>2, <2>4, <2>5 DEF MapsNameColumns, model
  <2>7. QED
    BY <1>2, <1>5, <2>2, <2>3, <2>6 DEF IInv, FilesOK, LookupsFollowNames
<1>6. QED
  BY <1>4, <1>5

-----------------------------------------------------------------------------
(* NL files.                                                               *)

(* A sequence of the members of a finite set, each of them once.           *)
Lists(s, S) ==
    /\ s \in Seq(S) /\ Len(s) = Cardinality(S) /\ IsFiniteSet(S)
    /\ \A v \in S : \E n \in 1..Len(s) : s[n] = v
    /\ \A m, n \in 1..Len(s) : s[m] = s[n] => m = n

(* Some of the members come first.                                         *)
StartsWith(s, R) == \A n \in 1..Len(s) : s[n] \in R <=> n \in 1..Cardinality(R)

(* Two lists of different things, one after the other.                     *)
LEMMA ListsConcat ==
    ASSUME NEW S, NEW T, NEW s, NEW t, Lists(s, S), Lists(t, T), S \cap T = {}
    PROVE  /\ Lists(s \o t, S \cup T) /\ StartsWith(s \o t, S)
           /\ \A R \in SUBSET S : StartsWith(s, R) => StartsWith(s \o t, R)
<1> DEFINE a == Len(s)
           b == Len(t)
           st == s \o t
<1>1. /\ a \in Nat /\ \A n \in 1..a : s[n] \in S
      /\ b \in Nat /\ \A n \in 1..b : t[n] \in T
  BY DEF Lists
<1>2. /\ st \in Seq(S \cup T) /\ Len(st) = a + b
      /\ \A n \in 1..(a + b) : st[n] = IF n <= a THEN s[n] ELSE t[n - a]
  BY DEF Lists
<1>3. IsFiniteSet(S \cup T) /\ Cardinality(S \cup T) = a + b
  <2>1. IsFiniteSet(S) /\ IsFiniteSet(T) /\ a = Cardinality(S) /\ b = Cardinality(T)
    BY DEF Lists
  <2>2. Cardinality(S \cap T) = 0
    BY FS_EmptySet
  <2>3. /\ IsFiniteSet(S \cup T)
        /\ Cardinality(S \cup T) = Cardinality(S) + Cardinality(T) - Cardinality(S \cap T)
    BY <2>1, FS_Union
  <2>4. Cardinality(S \cup T) = a + b - 0
    BY <2>1, <2>2, <2>3
  <2>5. QED
    BY <1>1, <2>3, <2>4
<1> HIDE DEF a, b, st
<1>4. \A n \in 1..(a + b) :
        \/ (n \in 1..a /\ st[n] = s[n] /\ st[n] \in S)
        \/ (n - a \in 1..b /\ st[n] = t[n - a] /\ st[n] \in T /\ n \notin 1..a)
  <2> TAKE n \in 1..(a + b)
  <2>1. CASE n <= a
    <3>1. n \in 1..a
      BY <1>1, <2>1
    <3>2. st[n] = s[n]
      BY <1>2, <2>1
    <3>3. QED
      BY <1>1, <3>1, <3>2
  <2>2. CASE ~(n <= a)
    <3>1. n - a \in 1..b /\ n \notin 1..a
      BY <1>1, <2>2
    <3>2. st[n] = t[n - a]
      BY <1>2, <2>2
    <3>3. t[n - a] \in T
      BY <1>1, <3>1
    <3>4. QED
      BY <3>1, <3>2, <3>3
  <2>3. QED
    BY <2>1, <2>2
<1>5. \A v \in S \cup T : \E n \in 1..(a + b) : st[n] = v
  <2>1. ASSUME NEW v \in S PROVE \E n \in 1..(a + b) : st[n] = v
    <3>1. PICK n \in 1..a : s[n] = v
      BY DEF Lists, a
    <3>2. n \in 1..(a + b) /\ n <= a
      BY <1>1
    <3>3. QED
      BY <1>2, <3>1, <3>2
  <2>2. ASSUME NEW v \in T PROVE \E n \in 1..(a + b) : st[n] = v
    <3>1. PICK n \in 1..b : t[n] = v
      BY DEF Lists, b
    <3>2. n + a \in 1..(a + b) /\ ~(n + a <= a) /\ (n + a) - a = n
      BY <1>1
    <3>3. QED
      BY <1>2, <3>1, <3>2
  <2>3. QED
    BY <2>1, <2>2
<1>6. \A m, n \in 1..(a + b) : st[m] = st[n] => m = n
  <2> SUFFICES ASSUME NEW m \in 1..(a + b), NEW n \in 1..(a + b), st[m] = st[n]
               PROVE  m = n
    OBVIOUS
  <2>1. CASE m \in 1..a /\ n \in 1..a
    BY <1>4, <2>1 DEF Lists, a
  <2>2. CASE m \notin 1..a /\ n \notin 1..a
    <3>1. m - a \in 1..b /\ n - a \in 1..b /\ t[m - a] = t[n - a]
      BY <1>4, <2>2
    <3>2. m - a = n - a
      BY <3>1 DEF Lists, b
    <3>3. QED
      BY <1>1, <3>2
  <2>3. ASSUME NEW i \in 1..(a + b), NEW j \in 1..(a + b), i \in 1..a, j \notin 1..a
        PROVE  st[i] # st[j]
    BY <1>4, <2>3
  <2>4. QED
    BY <2>1, <2>2, <2>3
<1>7. \A n \in 1..(a + b) : st[n] \in S <=> n \in 1..a
  BY <1>4
<1>8. a = Cardinality(S)
  BY DEF Lists, a
<1>9. ASSUME NEW R \in SUBSET S, StartsWith(s, R)
      PROVE  \A n \in 1..(a + b) : st[n] \in R <=> n \in 1..Cardinality(R)
  <2>1. Cardinality(R) \in Nat /\ Cardinality(R) <= a
    BY <1>8, FS_Subset, FS_CardinalityType DEF Lists
  <2> SUFFICES ASSUME NEW n \in 1..(a + b) PROVE st[n] \in R <=> n \in 1..Cardinality(R)
    OBVIOUS
  <2>2. CASE n \in 1..a
    BY <1>4, <1>9, <2>2 DEF StartsWith, a
  <2>3. CASE n \notin 1..a
    <3>1. st[n] \notin R
      BY <1>4, <2>3
    <3>2. n \notin 1..Cardinality(R)
      BY <1>1, <2>1, <2>3
    <3>3. QED
      BY <3>1, <3>2
  <2>4. QED
    BY <2>2, <2>3
<1>10. QED
  BY <1>2, <1>3, <1>5, <1>6, <1>7, <1>8, <1>9 DEF Lists, StartsWith, st

LEMMA OfKindLists ==
    ASSUME NEW S, IsFiniteSet(S), S \in SUBSET Nat, NEW kinds
    PROVE  Lists(OfKind(S, kinds), {v \in S : attr[v].kind \in kinds})
<1> DEFINE K == {v \in S : attr[v].kind \in kinds}
<1>1. IsFiniteSet(K) /\ K \in SUBSET Nat
  BY FS_Subset
<1>2. OfKind(S, kinds) = InOrder(K)
  BY DEF OfKind
<1> HIDE DEF K
<1> DEFINE s == InOrder(K)
<1>3. /\ s \in Seq(K) /\ Len(s) = Cardinality(K) /\ DOMAIN s = 1..Len(s)
      /\ ToSet(s) = K /\ \A m, n \in DOMAIN s : s[m] = s[n] => m = n
  BY <1>1, InOrderMembers
<1> HIDE DEF s
<1>4. \A v \in K : \E n \in 1..Len(s) : s[n] = v
  BY <1>3 DEF ToSet
<1>5. Lists(s, K)
  BY <1>1, <1>3, <1>4 DEF Lists
<1>6. QED
  BY <1>2, <1>5 DEF K, s

(* What comes first has the first columns.                                 *)
LEMMA FirstColumns ==
    ASSUME NEW U, NEW s, Lists(s, U), NEW R \in SUBSET U, StartsWith(s, R)
    PROVE  /\ \A v \in U : ColumnOf(s)[v] + 1 \in 1..Len(s) /\ s[ColumnOf(s)[v] + 1] = v
           /\ {ColumnOf(s)[v] : v \in R} = 0..(Cardinality(R) - 1)
<1> DEFINE L == Len(s)
           C == Cardinality(R)
<1>1. L \in Nat /\ DOMAIN s = 1..L /\ ToSet(s) = U
  <2>1. L \in Nat /\ DOMAIN s = 1..L /\ \A n \in 1..L : s[n] \in U
    BY DEF Lists
  <2>2. \A v \in U : \E n \in DOMAIN s : s[n] = v
    BY <2>1 DEF Lists
  <2>3. QED
    BY <2>1, <2>2 DEF ToSet
<1>2. IsFiniteSet(R) /\ C \in Nat /\ C <= L
  BY FS_Subset, FS_CardinalityType DEF Lists
<1>3. ASSUME NEW v \in U
      PROVE  \E n \in 1..L : s[n] = v /\ ColumnOf(s)[v] = n - 1
  <2> DEFINE n == CHOOSE m \in DOMAIN s : s[m] = v
  <2>1. n \in 1..L /\ s[n] = v
    BY <1>1 DEF ToSet
  <2>2. ColumnOf(s)[v] = n - 1
    BY <1>1 DEF ColumnOf
  <2>3. QED
    BY <2>1, <2>2
<1>4. ASSUME NEW v \in U
      PROVE  ColumnOf(s)[v] + 1 \in 1..Len(s) /\ s[ColumnOf(s)[v] + 1] = v
  <2>1. PICK n \in 1..L : s[n] = v /\ ColumnOf(s)[v] = n - 1
    BY <1>3
  <2>2. (n - 1) + 1 = n
    BY <1>1
  <2>3. QED
    BY <2>1, <2>2
<1>5. ASSUME NEW v \in R PROVE ColumnOf(s)[v] \in 0..(C - 1)
  <2>1. PICK n \in 1..L : s[n] = v /\ ColumnOf(s)[v] = n - 1
    BY <1>3
  <2>2. n \in 1..C
    BY <2>1 DEF StartsWith
  <2>3. QED
    BY <1>2, <2>1, <2>2
<1>6. ASSUME NEW c \in 0..(C - 1) PROVE \E v \in R : ColumnOf(s)[v] = c
  <2>1. c + 1 \in 1..L /\ c + 1 \in 1..C
    BY <1>1, <1>2
  <2>2. s[c + 1] \in R
    BY <2>1 DEF StartsWith
  <2>3. PICK n \in 1..L : s[n] = s[c + 1] /\ ColumnOf(s)[s[c + 1]] = n - 1
    BY <1>3, <2>2
  <2>4. n = c + 1
    BY <2>1, <2>3 DEF Lists
  <2>5. QED
    BY <1>2, <2>2, <2>3, <2>4
<1>7. {ColumnOf(s)[v] : v \in R} = 0..(C - 1)
  BY <1>5, <1>6
<1>8. QED
  BY <1>4, <1>7

(* The columns are the variables of the file: first those that are         *)
(* nonlinear in both, in constraints, anywhere.                            *)
LEMMA ColumnsOfUsed ==
    ASSUME TypesOK, ~NLThrows
    PROVE  /\ Lists(NLColumns, Used)
           /\ StartsWith(NLColumns, NonlinearCon \cap NonlinearObj)
           /\ StartsWith(NLColumns, NonlinearCon)
           /\ StartsWith(NLColumns, NonlinearCon \cup NonlinearObj)
<1> DEFINE both == NonlinearCon \cap NonlinearObj
           con == NonlinearCon \ both
           obj == NonlinearObj \ both
           linear == LinearVars \ (NonlinearCon \cup NonlinearObj)
           Of(S, kinds) == {v \in S : attr[v].kind \in kinds}
           bothC == OfKind(both, Continuous)
           bothD == OfKind(both, Discrete)
           conC == OfKind(con, Continuous)
           conD == OfKind(con, Discrete)
           objC == OfKind(obj, Continuous)
           objD == OfKind(obj, Discrete)
           linC == OfKind(linear, Continuous)
           linB == OfKind(linear, {"binary"})
           linI == OfKind(linear, {"integer"})
<1>1. NLColumns = bothC \o bothD \o conC \o conD \o objC \o objD \o linC \o linB \o linI
  BY DEF NLColumns
<1>2. Used \subseteq Var /\ IsFiniteSet(Used)
  <2>1. Used \subseteq ToSet(declared)
    BY DEF NLThrows
  <2>2. QED
    BY <2>1, DeclaredFacts, FS_Subset
<1>3. \A v \in Used : attr[v].kind \in {"real", "integer", "binary"}
  BY <1>2, AttributesType DEF TypesOK
<1>4. /\ both \subseteq Used /\ con \subseteq Used /\ obj \subseteq Used /\ linear \subseteq Used
      /\ both \cap con = {} /\ (both \cup con) \cap obj = {}
      /\ (both \cup con \cup obj) \cap linear = {}
      /\ both \cup con = NonlinearCon /\ both \cup con \cup obj = NonlinearCon \cup NonlinearObj
      /\ both \cup con \cup obj \cup linear = Used
  BY DEF Used
<1> HIDE DEF both, con, obj, linear
<1>5. ASSUME NEW S \in SUBSET Used
      PROVE  /\ \A kinds : Lists(OfKind(S, kinds), Of(S, kinds))
             /\ S = Of(S, Continuous) \cup Of(S, Discrete)
             /\ S = Of(S, Continuous) \cup Of(S, {"binary"}) \cup Of(S, {"integer"})
             /\ Of(S, Continuous) \cap Of(S, Discrete) = {}
             /\ Of(S, Continuous) \cap Of(S, {"binary"}) = {}
             /\ (Of(S, Continuous) \cup Of(S, {"binary"})) \cap Of(S, {"integer"}) = {}
  <2>1. IsFiniteSet(S) /\ S \in SUBSET Nat
    BY <1>2, FS_Subset, IdsAreNumbers
  <2>2. \A kinds : Lists(OfKind(S, kinds), Of(S, kinds))
    BY <2>1, OfKindLists
  <2>3. QED
    BY <1>3, <2>2 DEF Continuous, Discrete

<1> DEFINE both2 == bothC \o bothD
           conC2 == both2 \o conC
           con2 == conC2 \o conD
           objC2 == con2 \o objC
           obj2 == objC2 \o objD
           linC2 == obj2 \o linC
           linB2 == linC2 \o linB
           all == linB2 \o linI
<1>6. Lists(both2, both) /\ StartsWith(both2, both)
  <2>1. Lists(bothC, Of(both, Continuous)) /\ Lists(bothD, Of(both, Discrete))
        /\ Of(both, Continuous) \cap Of(both, Discrete) = {}
        /\ Of(both, Continuous) \cup Of(both, Discrete) = both
    <3>1. both \in SUBSET Used
      BY <1>4
    <3> HIDE DEF Of
    <3>2. QED
      BY <1>5, <3>1
  <2> HIDE DEF Of, bothC, bothD
  <2>2. Lists(both2, Of(both, Continuous) \cup Of(both, Discrete))
    BY <2>1, ListsConcat
  <2>3. Lists(both2, both)
    BY <2>1, <2>2
  <2>4. StartsWith(both2, both)
    BY <2>3 DEF Lists, StartsWith
  <2>5. QED
    BY <2>3, <2>4
<1>7. Lists(con2, NonlinearCon) /\ StartsWith(con2, both) /\ StartsWith(con2, NonlinearCon)
  <2>1. Lists(conC, Of(con, Continuous)) /\ Lists(conD, Of(con, Discrete))
        /\ Of(con, Continuous) \cap Of(con, Discrete) = {}
        /\ Of(con, Continuous) \cup Of(con, Discrete) = con
    <3>1. con \in SUBSET Used
      BY <1>4
    <3> HIDE DEF Of
    <3>2. QED
      BY <1>5, <3>1
  <2> HIDE DEF Of, both2, conC, conD
  <2>2. both \cap Of(con, Continuous) = {}
        /\ (both \cup Of(con, Continuous)) \cap Of(con, Discrete) = {}
    BY <1>4, <2>1
  <2>3. Lists(conC2, both \cup Of(con, Continuous)) /\ StartsWith(conC2, both)
    BY <1>6, <2>1, <2>2, ListsConcat
  <2>4. Lists(con2, both \cup Of(con, Continuous) \cup Of(con, Discrete)) /\ StartsWith(con2, both)
    <3> HIDE DEF conC2
    <3>1. QED
      BY <2>1, <2>2, <2>3, ListsConcat
  <2>5. both \cup Of(con, Continuous) \cup Of(con, Discrete) = NonlinearCon
    BY <1>4, <2>1
  <2>6. Lists(con2, NonlinearCon)
    BY <2>4, <2>5
  <2>7. StartsWith(con2, NonlinearCon)
    BY <2>6 DEF Lists, StartsWith
  <2>8. QED
    BY <2>4, <2>6, <2>7

<1>8. Lists(obj2, NonlinearCon \cup NonlinearObj) /\ StartsWith(obj2, both)
      /\ StartsWith(obj2, NonlinearCon) /\ StartsWith(obj2, NonlinearCon \cup NonlinearObj)
  <2> DEFINE N == NonlinearCon \cup Of(obj, Continuous)
  <2>1. Lists(objC, Of(obj, Continuous)) /\ Lists(objD, Of(obj, Discrete))
        /\ Of(obj, Continuous) \cap Of(obj, Discrete) = {}
        /\ Of(obj, Continuous) \cup Of(obj, Discrete) = obj
    <3>1. obj \in SUBSET Used
      BY <1>4
    <3> HIDE DEF Of
    <3>2. QED
      BY <1>5, <3>1
  <2> HIDE DEF Of, con2, objC, objD
  <2>2. NonlinearCon \cap Of(obj, Continuous) = {} /\ N \cap Of(obj, Discrete) = {}
        /\ both \in SUBSET NonlinearCon /\ NonlinearCon \in SUBSET N /\ both \in SUBSET N
    BY <1>4, <2>1
  <2>3. Lists(objC2, N) /\ StartsWith(objC2, both) /\ StartsWith(objC2, NonlinearCon)
    BY <1>7, <2>1, <2>2, ListsConcat
  <2>4. N \cup Of(obj, Discrete) = NonlinearCon \cup NonlinearObj
    BY <1>4, <2>1
  <2> HIDE DEF objC2, N
  <2>5. Lists(obj2, N \cup Of(obj, Discrete)) /\ StartsWith(obj2, both) /\ StartsWith(obj2, NonlinearCon)
    BY <2>1, <2>2, <2>3, ListsConcat
  <2>6. Lists(obj2, NonlinearCon \cup NonlinearObj)
    BY <2>4, <2>5
  <2>7. StartsWith(obj2, NonlinearCon \cup NonlinearObj)
    BY <2>6 DEF Lists, StartsWith
  <2>8. QED
    BY <2>5, <2>6, <2>7
<1>9. /\ Lists(all, Used) /\ StartsWith(all, both) /\ StartsWith(all, NonlinearCon)
      /\ StartsWith(all, NonlinearCon \cup NonlinearObj)
  <2> DEFINE O == NonlinearCon \cup NonlinearObj
             C == O \cup Of(linear, Continuous)
             B == C \cup Of(linear, {"binary"})
  <2>1. Lists(linC, Of(linear, Continuous)) /\ Lists(linB, Of(linear, {"binary"}))
        /\ Lists(linI, Of(linear, {"integer"}))
        /\ Of(linear, Continuous) \cap Of(linear, {"binary"}) = {}
        /\ (Of(linear, Continuous) \cup Of(linear, {"binary"})) \cap Of(linear, {"integer"}) = {}
        /\ Of(linear, Continuous) \cup Of(linear, {"binary"}) \cup Of(linear, {"integer"}) = linear
    <3>1. linear \in SUBSET Used
      BY <1>4
    <3> HIDE DEF Of
    <3>2. QED
      BY <1>5, <3>1
  <2>2. O \cap linear = {} /\ both \in SUBSET O /\ NonlinearCon \in SUBSET O /\ O \cup linear = Used
    BY <1>4
  <2> HIDE DEF Of, obj2, linC, linB, linI, O
  <2>3. O \cap Of(linear, Continuous) = {} /\ C \cap Of(linear, {"binary"}) = {}
        /\ B \cap Of(linear, {"integer"}) = {} /\ B \cup Of(linear, {"integer"}) = Used
    BY <2>1, <2>2
  <2>4. both \in SUBSET C /\ NonlinearCon \in SUBSET C /\ O \in SUBSET C
        /\ both \in SUBSET B /\ NonlinearCon \in SUBSET B /\ O \in SUBSET B
    BY <2>2
  <2>5. Lists(obj2, O) /\ StartsWith(obj2, both) /\ StartsWith(obj2, NonlinearCon) /\ StartsWith(obj2, O)
    BY <1>8 DEF O
  <2>6. Lists(linC2, C) /\ StartsWith(linC2, both) /\ StartsWith(linC2, NonlinearCon)
        /\ StartsWith(linC2, O)
    BY <2>1, <2>2, <2>3, <2>5, ListsConcat
  <2> HIDE DEF linC2, C
  <2>7. Lists(linB2, B) /\ StartsWith(linB2, both) /\ StartsWith(linB2, NonlinearCon)
        /\ StartsWith(linB2, O)
    BY <2>1, <2>3, <2>4, <2>6, ListsConcat
  <2> HIDE DEF linB2, B
  <2>8. Lists(all, Used) /\ StartsWith(all, both) /\ StartsWith(all, NonlinearCon)
        /\ StartsWith(all, O)
    BY <2>1, <2>3, <2>4, <2>7, ListsConcat
  <2>9. QED
    BY <2>8 DEF O
<1>10. NLColumns = all
  BY <1>1
<1>11. QED
  <2> HIDE DEF all
  <2>1. QED
    BY <1>9, <1>10 DEF both

LEMMA WriteNLKeepsInv ==
    ASSUME IInv, WriteNL
    PROVE  IInv'
<1>1. TypesOK /\ NamesOK
  BY DEF IInv
<1>2. TypesOK' /\ NamesOK' /\ found' = None
  BY <1>1, WriteNamesKeepsNames DEF WriteNL
<1>3. UNCHANGED model
  BY DEF WriteNL, WriteNames
<1>4. CASE NLThrows
  <2>1. file' = file /\ ~Is("lp") /\ ~Is("nl")
    BY <1>4, NLThrowsAsLP DEF IInv, FilesOK, WriteNL
  <2>2. QED
    BY <1>2, <2>1 DEF IInv, FilesOK, MapsNameColumns, LookupsFollowNames, Is
<1>5. CASE ~NLThrows
  <2>1. file' = NLFile
    BY <1>5 DEF WriteNL
  <2>2. file'.format = "nl" /\ file'.header = NLHeader
    BY <2>1 DEF NLFile
  <2>3. Is("lp")' = FALSE
    BY <2>2 DEF Is
  <2>4. /\ Used' = Used /\ NonlinearCon' = NonlinearCon /\ NonlinearObj' = NonlinearObj
        /\ LinearVars' = LinearVars
    BY <1>3 DEF model, Used, LinearVars, NonlinearCon, NonlinearObj, Objective, Bodies, Collected
  <2>5. NLThrows' = NLThrows /\ NLVid' = NLVid
    BY <1>3, <2>4 DEF model, NLThrows, NLVid, NLColumns, OfKind
  <2>6. CountsOK'
    BY <2>2, <2>4 DEF CountsOK, NLHeader
  <2>7. ASSUME NEW v \in Used PROVE varmap'[NLVid[v]] = v
    <3> DEFINE s == NLColumns
               c == ColumnOf(s)[v]
               new == [i \in 0..(Len(s) - 1) |-> s[i + 1]]
    <3>1. c + 1 \in 1..Len(s) /\ s[c + 1] = v /\ Len(s) \in Nat
      <4>1. Lists(s, Used) /\ StartsWith(s, NonlinearCon) /\ NonlinearCon \in SUBSET Used
        BY <1>1, <1>5, ColumnsOfUsed DEF Used
      <4> HIDE DEF s
      <4>2. Len(s) \in Nat
        BY <4>1 DEF Lists
      <4>3. QED
        BY <4>1, <4>2, FirstColumns
    <3>2. c \in 0..(Len(s) - 1)
      <4>1. ColumnOf(s)[v] \in Int
        <5>1. PICK n \in DOMAIN s : s[n] = v
          BY <3>1
        <5>2. v \in ToSet(s)
          BY <5>1 DEF ToSet
        <5>3. \E k \in DOMAIN s : s[k] = v /\ ColumnOf(s)[v] = k - 1
          BY <5>1, <5>2 DEF ColumnOf
        <5>4. DOMAIN s \subseteq Int
          BY <1>1, <1>5, ColumnsOfUsed DEF Lists
        <5>5. QED
          BY <5>3, <5>4
      <4> HIDE DEF s
      <4>2. QED
        BY <3>1, <4>1
    <3>3. varmap' = Over(new, varmap)
      BY <1>5 DEF WriteNL, NLVarmap
    <3>4. NLVid[v] = c
      BY DEF NLVid
    <3> HIDE DEF s, c
    <3>5. QED
      BY <3>1, <3>2, <3>3, <3>4 DEF Over
  <2>8. ASSUME NEW n \in DOMAIN constraints PROVE conmap'[n - 1] = constraints[n].id
    <3> DEFINE new == [i \in 0..(Len(constraints) - 1) |-> constraints[i + 1].id]
    <3>1. conmap' = Over(new, conmap)
      BY DEF WriteNL, NLConmap
    <3>2. n \in 1..Len(constraints) /\ Len(constraints) \in Nat
      BY <1>1 DEF TypesOK
    <3>3. n - 1 \in 0..(Len(constraints) - 1) /\ (n - 1) + 1 = n
      BY <3>2
    <3>4. QED
      BY <3>1, <3>3 DEF Over
  <2>9. MapsNameColumns'
    BY <1>3, <2>3, <2>4, <2>5, <2>7, <2>8 DEF MapsNameColumns, model
  <2>10. QED
    BY <1>2, <1>5, <2>3, <2>5, <2>6, <2>9 DEF IInv, FilesOK, LookupsFollowNames
<1>6. QED
  BY <1>4, <1>5

LEMMA StutterKeepsInv == IInv /\ UNCHANGED vars => IInv'
<1> SUFFICES ASSUME IInv, UNCHANGED vars PROVE IInv'
  OBVIOUS
<1>1. UNCHANGED <<declared, objectives, constraints, attr, name, byName, found, renamed, file,
                  varmap, conmap>>
  BY DEF vars, model, names
<1>2. /\ Used' = Used /\ NonlinearCon' = NonlinearCon /\ NonlinearObj' = NonlinearObj
      /\ LinearVars' = LinearVars
  BY <1>1 DEF Used, LinearVars, NonlinearCon, NonlinearObj, Objective, Bodies, Collected
<1>3. NLThrows' = NLThrows /\ NLVid' = NLVid /\ LPVid' = LPVid /\ LPThrows' = LPThrows
  BY <1>1, <1>2 DEF NLThrows, NLVid, NLColumns, OfKind, LPVid, LPThrows, Printable, Collected
<1>4. TypesOK' /\ NamesOK' /\ LookupsFollowNames'
  BY <1>1 DEF IInv, TypesOK, NamesOK, LookupsFollowNames
<1>5. FilesOK'
  BY <1>1, <1>2, <1>3 DEF IInv, FilesOK, CountsOK, MapsNameColumns, Is
<1>6. QED
  BY <1>4, <1>5 DEF IInv

LEMMA StepInv == IInv /\ [Next]_vars => IInv'
<1> SUFFICES ASSUME IInv, [Next]_vars PROVE IInv'
  OBVIOUS
<1>1. ASSUME NEW v \in Var, AddVariable(v) PROVE IInv'
  BY <1>1, AddVariableKeepsInv
<1>2. ASSUME NEW v \in Var, NEW a \in Attributes, SetAttributes(v, a) PROVE IInv'
  BY <1>2, SetAttributesKeepsInv
<1>3. ASSUME NEW v \in Var, NEW n \in Names, Rename(v, n) PROVE IInv'
  BY <1>3, RenameKeepsInv
<1>4. ASSUME NEW n \in Names, GetVariable(n) PROVE IInv'
  BY <1>4, GetVariableKeepsInv
<1>5. CASE GenerateNames
  BY <1>5, GenerateNamesKeepsInv
<1>6. CASE WriteLP
  BY <1>6, WriteLPKeepsInv
<1>7. CASE WriteNL
  BY <1>7, WriteNLKeepsInv
<1>8. ASSUME NEW p \in {"simple", "lazy"}, NameGeneration(p) PROVE IInv'
  BY <1>8, NameGenerationKeepsInv
<1>9. CASE UNCHANGED vars
  BY <1>9, StutterKeepsInv
<1>10. QED
  BY <1>1, <1>2, <1>3, <1>4, <1>5, <1>6, <1>7, <1>8, <1>9 DEF Next

LEMMA Invariance == Spec => []IInv
<1>1. Init => IInv
  BY InitInv
<1>2. IInv /\ [Next]_vars => IInv'
  BY StepInv
<1>3. QED
  BY <1>1, <1>2, PTL DEF Spec

-----------------------------------------------------------------------------
(* A name that is looked up is that of the variable, and an unknown name is*)
(* that of none, unless variables were renamed since names were collected  *)
(* (model.cpp:224, 286-306).                                               *)
THEOREM LookupsFollow == Spec => []LookupsFollowNames
<1>1. IInv => LookupsFollowNames
  BY DEF IInv
<1>2. QED
  BY <1>1, Invariance, PTL

(* After a write the client's maps have the id of the variable of every    *)
(* column and, of an NL file, that of the constraint of every row          *)
(* (writer_lp.cpp:333, writer_nl.cpp:716, 893-931).                        *)
THEOREM MapsAreRight == Spec => []MapsNameColumns
<1>1. IInv => MapsNameColumns
  BY DEF IInv, FilesOK
<1>2. QED
  BY <1>1, Invariance, PTL

(* The columns of an NL file are in the order its header counts them: those*)
(* of variables nonlinear in constraints first, of them those nonlinear in *)
(* the objective too, then those nonlinear in the objective alone, and as  *)
(* many as there are variables (writer_nl.cpp:840-935, 1000-1020).         *)
ColumnsAsCounted ==
    Is("nl") =>
        LET h == file.header
            columns(S) == {NLVid[v] : v \in S}
        IN  /\ columns(Used) = 0..(h.vars - 1)
            /\ columns(NonlinearCon) = 0..(h.varsCon - 1)
            /\ columns(NonlinearCon \cap NonlinearObj) = 0..(h.varsBoth - 1)
            /\ columns(NonlinearCon \cup NonlinearObj) = 0..(h.varsObj - 1)

THEOREM ColumnsInOrder == Spec => []ColumnsAsCounted
<1>1. ASSUME IInv PROVE ColumnsAsCounted
  <2> SUFFICES ASSUME Is("nl") PROVE ColumnsAsCounted
    BY DEF ColumnsAsCounted
  <2> DEFINE s == NLColumns
             columns(S) == {NLVid[v] : v \in S}
  <2>1. TypesOK /\ ~NLThrows /\ CountsOK
    BY <1>1 DEF IInv, FilesOK
  <2>2. NLVid = ColumnOf(s)
    BY DEF NLVid
  <2>3. ASSUME NEW R \in SUBSET Used, StartsWith(s, R)
        PROVE  columns(R) = 0..(Cardinality(R) - 1)
    <3>1. Lists(s, Used)
      BY <2>1, ColumnsOfUsed
    <3> HIDE DEF s
    <3>2. QED
      BY <2>2, <2>3, <3>1, FirstColumns
  <2>4. /\ StartsWith(s, NonlinearCon \cap NonlinearObj) /\ StartsWith(s, NonlinearCon)
        /\ StartsWith(s, NonlinearCon \cup NonlinearObj)
    BY <2>1, ColumnsOfUsed
  <2>5. StartsWith(s, Used)
    BY <2>1, ColumnsOfUsed DEF Lists, StartsWith
  <2>6. /\ NonlinearCon \cap NonlinearObj \in SUBSET Used /\ NonlinearCon \in SUBSET Used
        /\ NonlinearCon \cup NonlinearObj \in SUBSET Used
    BY DEF Used
  <2> HIDE DEF s, columns
  <2>7. /\ columns(Used) = 0..(Cardinality(Used) - 1)
        /\ columns(NonlinearCon) = 0..(Cardinality(NonlinearCon) - 1)
        /\ columns(NonlinearCon \cap NonlinearObj) = 0..(Cardinality(NonlinearCon \cap NonlinearObj) - 1)
        /\ columns(NonlinearCon \cup NonlinearObj) = 0..(Cardinality(NonlinearCon \cup NonlinearObj) - 1)
    BY <2>3, <2>4, <2>5, <2>6
  <2>8. QED
    BY <2>1, <2>7 DEF ColumnsAsCounted, CountsOK, columns
<1>2. IInv => ColumnsAsCounted
  BY <1>1
<1>3. QED
  BY <1>2, Invariance, PTL
=============================================================================
