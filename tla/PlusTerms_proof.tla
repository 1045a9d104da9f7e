-------------------------- MODULE PlusTerms_proof ---------------------------
(***************************************************************************)
(* Proofs about PlusTerms, for every set of handles and leaves and every   *)
(* number of sums: types, that what is appended to a shared vector never   *)
(* shows, that only the longest sum empties it, and that nothing leaks.    *)
(***************************************************************************)
EXTENDS PlusTerms, FiniteSetTheorems, SequenceTheorems, WellFoundedInduction, TLAPS

Vector(t) == data[term[t].data]

(* A sum has at least two elements, and at most two when it is the first,  *)
(* three when it is the second, and so on.                                 *)
Types ==
    /\ handle \in [Handle -> Leaf \cup Live]
    /\ made \in 0..MaxTerms
    /\ Live \subseteq 1..made
    /\ term \in [Live -> [data : 1..made, n : Nat]]
    /\ \A t \in Live : term[t].n \in 2..(t + 1)
    /\ DOMAIN data = {term[t].data : t \in Live}
    /\ data \in [DOMAIN data -> Seq(Leaf \cup Live)]
    /\ built \in [Live -> Seq(Ref)]

(* Unless the vector was emptied, a sum has its elements in it.            *)
PrefixHolds ==
    \A t \in Live :
        /\ Len(built[t]) = term[t].n
        /\ Vector(t) # <<>> => /\ term[t].n <= Len(Vector(t))
                               /\ \A i \in 1..term[t].n : Vector(t)[i] = built[t][i]

(* No two sums on a vector have the same length.                           *)
LengthsDiffer ==
    \A t, u \in Live : t # u /\ term[t].data = term[u].data => term[t].n # term[u].n

(* A vector that is not empty has the sum that goes to its end, which was  *)
(* made after each sum that is an element of it.                           *)
LongestLives ==
    \A d \in DOMAIN data :
        data[d] # <<>> =>
            \E w \in Live : /\ term[w].data = d
                            /\ term[w].n = Len(data[d])
                            /\ \A i \in 1..Len(data[d]) : data[d][i] \in Live => data[d][i] < w

Inv == Types /\ PrefixHolds /\ LengthsDiffer /\ LongestLives

-----------------------------------------------------------------------------
(* Facts about the operators.                                              *)

(* What a live sum and its vector are.                                     *)
LEMMA LiveFacts ==
    ASSUME Types, NEW t \in Live
    PROVE  /\ t \in 1..made
           /\ term[t].data \in DOMAIN data /\ term[t].data \in 1..made
           /\ term[t].n \in Nat /\ term[t].n >= 2 /\ term[t].n <= t + 1
           /\ Vector(t) \in Seq(Leaf \cup Live)
           /\ built[t] \in Seq(Ref)
<1>1. term[t] \in [data : 1..made, n : Nat] /\ built[t] \in Seq(Ref)
  BY DEF Types
<1>2. t \in 1..made /\ term[t].n \in 2..(t + 1)
  BY DEF Types
<1>3. term[t].data \in DOMAIN data
  BY DEF Types
<1>4. Vector(t) \in Seq(Leaf \cup Live)
  BY <1>3 DEF Types, Vector
<1>5. QED
  BY <1>1, <1>2, <1>3, <1>4

(* A vector d for a new sum: a new one, or one that is extended.           *)
MayHold(d, contents) ==
    /\ d \in 1..(made + 1)
    /\ contents \in Seq(Leaf \cup Live)
    /\ Len(contents) >= 2 /\ Len(contents) <= made + 2
    /\ \/ d = made + 1
       \/ /\ d \in DOMAIN data
          /\ data[d] # <<>>
          /\ Len(contents) = Len(data[d]) + 1
          /\ \A i \in 1..Len(data[d]) : contents[i] = data[d][i]

(* No sum loses its vector in a step, or gets another meaning.             *)
AllKept ==
    \A t \in Live : built'[t] = built[t] /\ (Vector(t)' = <<>> <=> Vector(t) = <<>>)

(* A new sum on a new vector, or on one it extends by an element.          *)
LEMMA MakeTermKeeps ==
    ASSUME Inv, NEW h \in Handle, NEW d, NEW contents, MayHold(d, contents),
           MakeTerm(h, d, contents, contents)
    PROVE  Inv' /\ AllKept
<1> DEFINE new == made + 1
<1> USE DEF Inv, MayHold
<1>1. made \in Nat /\ new \in Nat /\ new <= MaxTerms /\ new \notin Live /\ MaxTerms \in Nat
  BY TermsBounded DEF Types, MakeTerm
<1>2. /\ term' = [y \in Live \cup {new} |->
                     IF y = new THEN [data |-> d, n |-> Len(contents)] ELSE term[y]]
      /\ data' = [y \in DOMAIN data \cup {d} |-> IF y = d THEN contents ELSE data[y]]
      /\ built' = [y \in DOMAIN built \cup {new} |-> IF y = new THEN contents ELSE built[y]]
      /\ handle' = [handle EXCEPT ![h] = new]
      /\ made' = new
  BY DEF MakeTerm, With, Live
<1>3. Live' = Live \cup {new} /\ DOMAIN built = Live /\ DOMAIN data' = DOMAIN data \cup {d}
  BY <1>2 DEF Live, Types
<1>4. Len(contents) \in Nat /\ \A i \in 1..Len(contents) : contents[i] \in Leaf \cup Live
  BY LenProperties, ElementOfSeq
<1>5. Live \subseteq Id
  BY <1>1 DEF Types, Id
<1>6. contents \in Seq(Leaf \cup Live') /\ contents \in Seq(Ref)
  BY <1>3, <1>4, <1>5 DEF Ref
<1>7. new \notin DOMAIN data
  BY <1>1, LiveFacts DEF Types
<1>8. /\ term'[new] = [data |-> d, n |-> Len(contents)]
      /\ data'[d] = contents
      /\ built'[new] = contents
  BY <1>2, <1>3
<1>9. \A t \in Live : term'[t] = term[t] /\ built'[t] = built[t]
  BY <1>1, <1>2, <1>3
<1>10. \A c \in DOMAIN data : c # d => data'[c] = data[c]
  BY <1>2
<1>11. Types'
  <2>1. handle' \in [Handle -> Leaf \cup Live']
    BY <1>2, <1>3 DEF Types
  <2>2. made' \in 0..MaxTerms /\ Live' \subseteq 1..made'
    BY <1>1, <1>2, <1>3 DEF Types
  <2>3. term' \in [Live' -> [data : 1..made', n : Nat]]
    <3>1. \A t \in Live : term'[t] \in [data : 1..made', n : Nat]
      BY <1>1, <1>2, <1>9 DEF Types
    <3>2. term'[new] \in [data : 1..made', n : Nat]
      BY <1>2, <1>4, <1>8
    <3>3. QED
      BY <3>1, <3>2, <1>2, <1>3
  <2>4. \A t \in Live' : term'[t].n \in 2..(t + 1)
    BY <1>1, <1>3, <1>4, <1>8, <1>9 DEF Types
  <2>5. DOMAIN data' = {term'[t].data : t \in Live'}
    <3>1. \A t \in Live : term'[t].data \in DOMAIN data'
      BY <1>3, <1>9, LiveFacts
    <3>2. term'[new].data \in DOMAIN data'
      BY <1>3, <1>8
    <3>3. \A c \in DOMAIN data : \E t \in Live' : c = term'[t].data
      <4>1. \A c \in DOMAIN data : \E t \in Live : c = term[t].data
        BY DEF Types
      <4>2. QED
        BY <4>1, <1>3, <1>9
    <3>4. \E t \in Live' : d = term'[t].data
      BY <1>3, <1>8
    <3>5. QED
      BY <3>1, <3>2, <3>3, <3>4, <1>3
  <2>6. data' \in [DOMAIN data' -> Seq(Leaf \cup Live')]
    <3>1. \A c \in DOMAIN data : data[c] \in Seq(Leaf \cup Live')
      <4>1. \A c \in DOMAIN data : data[c] \in Seq(Leaf \cup Live)
        BY DEF Types
      <4>2. Leaf \cup Live \subseteq Leaf \cup Live'
        BY <1>3
      <4>3. QED
        BY <4>1, <4>2, SeqMonotonic
    <3>2. QED
      BY <3>1, <1>2, <1>3, <1>6
  <2>7. built' \in [Live' -> Seq(Ref)]
    BY <1>2, <1>3, <1>6 DEF Types
  <2>8. QED
    BY <2>1, <2>2, <2>3, <2>4, <2>5, <2>6, <2>7 DEF Types
<1>12. \A t \in Live : term[t].data = d =>
          /\ d \in DOMAIN data /\ data[d] # <<>> /\ data[d] \in Seq(Leaf \cup Live)
          /\ Len(contents) = Len(data[d]) + 1 /\ Len(data[d]) \in Nat
          /\ \A i \in 1..Len(data[d]) : contents[i] = data[d][i]
  <2>1. \A t \in Live : term[t].data = d => d # new
    BY <1>7, LiveFacts
  <2>2. d # new => d \in DOMAIN data /\ data[d] \in Seq(Leaf \cup Live)
    BY DEF Types
  <2>3. d # new => Len(data[d]) \in Nat
    BY <2>2, LenProperties
  <2>4. QED
    BY <2>1, <2>2, <2>3
<1>13. \A t \in Live : term[t].data = d => term[t].n <= Len(data[d])
  BY <1>12 DEF PrefixHolds, Vector
<1>14. PrefixHolds'
  <2>1. ASSUME NEW t \in Live, term[t].data = d
        PROVE  /\ Len(built'[t]) = term'[t].n
               /\ term'[t].n <= Len(data'[d])
               /\ \A i \in 1..term'[t].n : data'[d][i] = built'[t][i]
    <3>1. /\ data'[d] = contents /\ term'[t] = term[t] /\ built'[t] = built[t]
          /\ term[t].n \in Nat /\ term[t].n <= Len(data[d]) /\ Len(data[d]) \in Nat
          /\ Len(contents) = Len(data[d]) + 1
      BY <2>1, <1>8, <1>9, <1>12, <1>13, LiveFacts
    <3>2. Len(built[t]) = term[t].n
      BY DEF PrefixHolds
    <3>3. \A i \in 1..term[t].n : data[d][i] = built[t][i]
      BY <2>1, <1>12 DEF PrefixHolds, Vector
    <3>4. \A i \in 1..Len(data[d]) : contents[i] = data[d][i]
      BY <2>1, <1>12
    <3>5. \A i \in 1..term[t].n : i \in 1..Len(data[d])
      BY <3>1
    <3>6. QED
      BY <3>1, <3>2, <3>3, <3>4, <3>5
  <2>2. ASSUME NEW t \in Live, term[t].data # d
        PROVE  /\ Len(built'[t]) = term'[t].n
               /\ data'[term'[t].data] # <<>> =>
                    /\ term'[t].n <= Len(data'[term'[t].data])
                    /\ \A i \in 1..term'[t].n : data'[term'[t].data][i] = built'[t][i]
    <3>1. term'[t] = term[t] /\ built'[t] = built[t]
      BY <1>9
    <3>2. data'[term[t].data] = data[term[t].data]
      BY <2>2, <1>10, LiveFacts
    <3>3. QED
      BY <3>1, <3>2 DEF PrefixHolds, Vector
  <2>3. QED
    BY <2>1, <2>2, <1>3, <1>4, <1>8, <1>9 DEF PrefixHolds, Vector
<1>15. LengthsDiffer'
  <2>1. \A t \in Live : term[t].data = d => term[t].n # Len(contents)
    BY <1>12, <1>13, LiveFacts
  <2>2. QED
    BY <2>1, <1>3, <1>8, <1>9 DEF LengthsDiffer
<1>16. LongestLives'
  <2>1. ASSUME NEW c \in DOMAIN data, c # d, data'[c] # <<>>
        PROVE  \E w \in Live' :
                  /\ term'[w].data = c
                  /\ term'[w].n = Len(data'[c])
                  /\ \A i \in 1..Len(data'[c]) : data'[c][i] \in Live' => data'[c][i] < w
    <3>1. data'[c] = data[c] /\ data[c] \in Seq(Leaf \cup Live)
      BY <2>1, <1>10 DEF Types
    <3>2. PICK w \in Live : /\ term[w].data = c
                            /\ term[w].n = Len(data[c])
                            /\ \A i \in 1..Len(data[c]) : data[c][i] \in Live => data[c][i] < w
      BY <2>1, <3>1 DEF LongestLives
    <3>3. \A i \in 1..Len(data[c]) : data[c][i] # new
      <4>1. \A i \in 1..Len(data[c]) : data[c][i] \in Leaf \cup Live
        BY <3>1, ElementOfSeq
      <4>2. new \notin Leaf
        BY <1>1, LeavesAreNoTerms
      <4>3. QED
        BY <4>1, <4>2, <1>1
    <3>4. QED
      BY <3>1, <3>2, <3>3, <1>3, <1>9
  <2>2. /\ new \in Live' /\ term'[new].data = d /\ term'[new].n = Len(data'[d])
        /\ \A i \in 1..Len(data'[d]) : data'[d][i] \in Live' => data'[d][i] < new
    <3>1. \A i \in 1..Len(contents) : contents[i] \in Live' => contents[i] < new
      <4>1. new \notin Leaf
        BY <1>1, LeavesAreNoTerms
      <4>2. \A t \in Live : t < new
        BY <1>1, LiveFacts
      <4>3. QED
        BY <4>1, <4>2, <1>1, <1>3, <1>4
    <3>2. QED
      BY <3>1, <1>3, <1>8
  <2>3. QED
    BY <2>1, <2>2, <1>3 DEF LongestLives
<1>17. ASSUME NEW t \in Live
       PROVE  Vector(t)' = <<>> <=> Vector(t) = <<>>
  <2>1. CASE term[t].data = d
    BY <2>1, <1>8, <1>9, <1>12 DEF Vector
  <2>2. CASE term[t].data # d
    BY <2>2, <1>9, <1>10, LiveFacts DEF Vector
  <2>3. QED
    BY <2>1, <2>2
<1>18. AllKept
  BY <1>9, <1>17 DEF AllKept
<1>19. QED
  BY <1>11, <1>14, <1>15, <1>16, <1>18

(* h = f + g, and h += g: the sum appends to a vector or starts one.       *)
LEMMA PlusKeeps ==
    ASSUME Inv, Plus
    PROVE  Inv' /\ AllKept
<1>0. Types /\ PrefixHolds
  BY DEF Inv
<1>1. PICK h \in Handle, f \in Handle, g \in Handle :
        IF Shares(handle[f])
        THEN MakeTerm(h, term[handle[f]].data, Append(data[term[handle[f]].data], handle[g]),
                      Append(built[handle[f]], handle[g]))
        ELSE MakeTerm(h, made + 1, <<handle[f], handle[g]>>, <<handle[f], handle[g]>>)
  BY DEF Plus
<1> DEFINE lhs == handle[f]
           rhs == handle[g]
           d == term[lhs].data
<1>2. lhs \in Leaf \cup Live /\ rhs \in Leaf \cup Live /\ made \in Nat
  BY <1>0, TermsBounded DEF Types
<1>3. CASE Shares(lhs)
  <2>1. lhs \in Live /\ term[lhs].n = Len(data[d])
    BY <1>3 DEF Shares
  <2>2. /\ lhs \in 1..made /\ d \in DOMAIN data /\ d \in 1..made
        /\ term[lhs].n >= 2 /\ term[lhs].n <= lhs + 1 /\ term[lhs].n \in Nat
        /\ data[d] \in Seq(Leaf \cup Live) /\ built[lhs] \in Seq(Ref)
    BY <1>0, <2>1, LiveFacts DEF Vector
  <2>3. data[d] # <<>>
    BY <2>1, <2>2, EmptySeq
  <2>4. Len(built[lhs]) = Len(data[d]) /\ \A i \in 1..Len(data[d]) : data[d][i] = built[lhs][i]
    BY <1>0, <2>1, <2>3 DEF PrefixHolds, Vector
  <2>5. Leaf \cup Live \subseteq Ref
    BY <1>0, <1>2, TermsBounded DEF Types, Ref, Id
  <2>6. data[d] = built[lhs]
    <3>1. data[d] \in Seq(Ref)
      BY <2>2, <2>5, SeqMonotonic
    <3>2. QED
      BY <3>1, <2>2, <2>4, SeqEqual
  <2> DEFINE contents == Append(data[d], rhs)
  <2>7. /\ contents \in Seq(Leaf \cup Live)
        /\ Len(contents) = Len(data[d]) + 1
        /\ \A i \in 1..Len(data[d]) : contents[i] = data[d][i]
    BY <1>2, <2>2, AppendProperties
  <2>8. d \in 1..(made + 1) /\ Len(contents) >= 2 /\ Len(contents) <= made + 2
    BY <1>2, <2>1, <2>2, <2>7
  <2>9. MakeTerm(h, d, contents, contents)
    BY <1>1, <1>3, <2>6
  <2>10. MayHold(d, contents)
    BY <2>2, <2>3, <2>7, <2>8 DEF MayHold
  <2> HIDE DEF contents, d
  <2>11. QED
    BY <2>9, <2>10, MakeTermKeeps
<1>4. CASE ~Shares(lhs)
  <2> DEFINE contents == <<lhs, rhs>>
  <2>1. contents \in Seq(Leaf \cup Live) /\ Len(contents) = 2
    BY <1>2
  <2>2. MakeTerm(h, made + 1, contents, contents)
    BY <1>1, <1>4
  <2>3. made + 1 \in 1..(made + 1) /\ 2 <= made + 2
    BY <1>2
  <2>4. MayHold(made + 1, contents)
    BY <2>1, <2>3 DEF MayHold
  <2> HIDE DEF contents
  <2>5. QED
    BY <2>2, <2>4, MakeTermKeeps
<1>5. QED
  BY <1>3, <1>4

(* h = 2 + g always starts a vector.                                       *)
LEMMA PlusConstantKeeps ==
    ASSUME Inv, PlusConstant
    PROVE  Inv' /\ AllKept
<1>0. Types /\ PrefixHolds
  BY DEF Inv
<1>1. PICK h \in Handle, g \in Handle, c \in Leaf :
        MakeTerm(h, made + 1, <<c, handle[g]>>, <<c, handle[g]>>)
  BY DEF PlusConstant
<1> DEFINE contents == <<c, handle[g]>>
<1>2. contents \in Seq(Leaf \cup Live) /\ Len(contents) = 2 /\ made \in Nat
  BY <1>0, TermsBounded DEF Types
<1>3. MakeTerm(h, made + 1, contents, contents)
  BY <1>1
<1>4. made + 1 \in 1..(made + 1) /\ 2 <= made + 2
  BY <1>2
<1>5. MayHold(made + 1, contents)
  BY <1>2, <1>4 DEF MayHold
<1> HIDE DEF contents
<1>6. QED
  BY <1>3, <1>5, MakeTermKeeps

(* A copy or an assignment changes a handle only.                          *)
LEMMA AssignKeeps ==
    ASSUME Inv, NEW h \in Handle, NEW r \in Leaf \cup Live, Assign(h, r)
    PROVE  Inv' /\ UNCHANGED <<term, data, built>>
<1>1. UNCHANGED <<term, data, built, made>> /\ handle' = [handle EXCEPT ![h] = r] /\ Live' = Live
  BY DEF Assign, Live
<1>2. Types'
  BY <1>1 DEF Inv, Types
<1>3. PrefixHolds' /\ LengthsDiffer' /\ LongestLives'
  BY <1>1 DEF Inv, PrefixHolds, LengthsDiffer, LongestLives, Vector
<1>4. QED
  BY <1>1, <1>2, <1>3 DEF Inv

(* A destructor empties the vector if its sum goes to the end of it, and   *)
(* leaves it to the sums that share it.                                    *)
LEMMA DestroyKeeps ==
    ASSUME Inv, NEW t \in Live, ~Referenced(t),
           data' = Restrict(Emptied(t), StillUsed(t)),
           term' = Restrict(term, Live \ {t}),
           built' = Restrict(built, Live \ {t}),
           UNCHANGED <<handle, made>>
    PROVE  /\ Inv'
           /\ Live' = Live \ {t}
           /\ \A u \in Live' :
                /\ built'[u] = built[u]
                /\ \/ Vector(u)' = Vector(u)
                   \/ /\ Vector(u)' = <<>> /\ term[u].data = term[t].data
                      /\ term[t].n = Len(Vector(u))
<1> USE DEF Inv
<1>1. Live' = Live \ {t} /\ DOMAIN data' = StillUsed(t)
  BY DEF Live, Restrict
<1>2. \A u \in Live' : u \in Live /\ u # t /\ term'[u] = term[u] /\ built'[u] = built[u]
  BY <1>1 DEF Restrict
<1>3. \A d \in StillUsed(t) : d \in DOMAIN data
  BY LiveFacts DEF StillUsed
<1>4. \A d \in StillUsed(t) :
         IF d = term[t].data /\ Len(data[d]) = term[t].n
         THEN data'[d] = <<>>
         ELSE data'[d] = data[d]
  BY <1>3, LiveFacts DEF Restrict, Emptied
<1>5. \A u \in Live' : term[u].data \in StillUsed(t)
  BY <1>2 DEF StillUsed
<1>6. \A d \in DOMAIN data : \A i \in 1..Len(data[d]) : data[d][i] # t
  BY DEF Referenced
<1>7. Types'
  <2>1. handle' \in [Handle -> Leaf \cup Live']
    <3>1. \A h \in Handle : handle[h] \in Leaf \cup Live /\ handle[h] # t
      BY DEF Types, Referenced
    <3>2. QED
      BY <3>1, <1>1 DEF Types
  <2>2. made' \in 0..MaxTerms /\ Live' \subseteq 1..made'
    BY <1>1 DEF Types
  <2>3. term' \in [Live' -> [data : 1..made', n : Nat]] /\ built' \in [Live' -> Seq(Ref)]
    BY <1>1, <1>2 DEF Types, Restrict
  <2>4. \A u \in Live' : term'[u].n \in 2..(u + 1)
    BY <1>2 DEF Types
  <2>5. DOMAIN data' = {term'[u].data : u \in Live'}
    BY <1>1, <1>2 DEF StillUsed
  <2>6. data' \in [DOMAIN data' -> Seq(Leaf \cup Live')]
    <3>1. \A d \in StillUsed(t) : data'[d] \in Seq(Leaf \cup Live')
      <4>1. TAKE d \in StillUsed(t)
      <4>2. CASE data'[d] = <<>>
        BY <4>2
      <4>3. CASE data'[d] = data[d]
        <5>1. data[d] \in Seq(Leaf \cup Live)
          BY <1>3 DEF Types
        <5>2. Len(data[d]) \in Nat /\ \A i \in 1..Len(data[d]) : data[d][i] \in Leaf \cup Live'
          BY <5>1, <1>1, <1>3, <1>6, LenProperties, ElementOfSeq
        <5>3. data[d] = [i \in 1..Len(data[d]) |-> data[d][i]]
          BY <5>1
        <5>4. QED
          BY <4>3, <5>2, <5>3, IsASeq
      <4>4. QED
        BY <1>4, <4>2, <4>3
    <3>2. data' = [d \in StillUsed(t) |-> data'[d]]
      BY DEF Restrict
    <3>3. QED
      BY <1>1, <3>1, <3>2
  <2>7. QED
    BY <2>1, <2>2, <2>3, <2>4, <2>5, <2>6 DEF Types
<1>8. ASSUME NEW u \in Live'
      PROVE  \/ Vector(u)' = Vector(u)
             \/ Vector(u)' = <<>> /\ term[u].data = term[t].data /\ term[t].n = Len(Vector(u))
  BY <1>2, <1>4, <1>5 DEF Vector
<1>9. PrefixHolds'
  <2>1. ASSUME NEW u \in Live'
        PROVE  (/\ Len(built[u]) = term[u].n
                /\ Vector(u) # <<>> => /\ term[u].n <= Len(Vector(u))
                                       /\ \A i \in 1..term[u].n : Vector(u)[i] = built[u][i])'
    <3>1. u \in Live /\ term'[u] = term[u] /\ built'[u] = built[u]
      BY <1>2
    <3>2. Vector(u)' # <<>> => Vector(u)' = Vector(u)
      BY <1>8
    <3>3. QED
      BY <3>1, <3>2 DEF PrefixHolds
  <2>2. QED
    BY <2>1 DEF PrefixHolds
<1>10. LengthsDiffer'
  <2>1. ASSUME NEW u \in Live', NEW w \in Live', u # w, term'[u].data = term'[w].data
        PROVE  term'[u].n # term'[w].n
    <3>1. u \in Live /\ w \in Live /\ term'[u] = term[u] /\ term'[w] = term[w]
      BY <1>2
    <3>2. QED
      BY <2>1, <3>1 DEF LengthsDiffer
  <2>2. QED
    BY <2>1 DEF LengthsDiffer
<1>11. LongestLives'
  <2>1. ASSUME NEW d \in StillUsed(t), data'[d] # <<>>
        PROVE  \E w \in Live' :
                  /\ term'[w].data = d
                  /\ term'[w].n = Len(data'[d])
                  /\ \A i \in 1..Len(data'[d]) : data'[d][i] \in Live' => data'[d][i] < w
    <3>1. data'[d] = data[d] /\ (d = term[t].data => Len(data[d]) # term[t].n)
      BY <2>1, <1>4
    <3>2. PICK w \in Live : /\ term[w].data = d
                            /\ term[w].n = Len(data[d])
                            /\ \A i \in 1..Len(data[d]) : data[d][i] \in Live => data[d][i] < w
      BY <2>1, <3>1, <1>3 DEF LongestLives
    <3>3. w \in Live'
      BY <3>1, <3>2, <1>1
    <3>4. QED
      BY <3>1, <3>2, <3>3, <1>1, <1>2
  <2>2. \A d \in DOMAIN data' : data'[d] # <<>> =>
            \E w \in Live' :
                  /\ term'[w].data = d
                  /\ term'[w].n = Len(data'[d])
                  /\ \A i \in 1..Len(data'[d]) : data'[d][i] \in Live' => data'[d][i] < w
    BY <2>1, <1>1
  <2>3. QED
    BY <2>2 DEF LongestLives
<1>12. QED
  BY <1>1, <1>2, <1>7, <1>8, <1>9, <1>10, <1>11

-----------------------------------------------------------------------------
(* The inductive invariant holds at first and every step keeps it.         *)
LEMMA InitInv == Init => Inv
<1> SUFFICES ASSUME Init PROVE Inv
  OBVIOUS
<1>1. handle \in [Handle -> Leaf] /\ term = <<>> /\ data = <<>> /\ built = <<>> /\ made = 0
  BY DEF Init
<1>2. Live = {} /\ DOMAIN data = {} /\ DOMAIN built = {}
  BY <1>1 DEF Live
<1>3. Types
  <2>1. handle \in [Handle -> Leaf \cup Live] /\ made \in 0..MaxTerms
    BY <1>1, TermsBounded
  <2>2. term \in [Live -> [data : 1..made, n : Nat]] /\ built \in [Live -> Seq(Ref)]
    BY <1>1, <1>2
  <2>3. data \in [DOMAIN data -> Seq(Leaf \cup Live)]
    BY <1>1, <1>2
  <2>4. QED
    BY <1>2, <2>1, <2>2, <2>3 DEF Types
<1>4. QED
  BY <1>2, <1>3 DEF Inv, PrefixHolds, LengthsDiffer, LongestLives

LEMMA NextInv == Inv /\ [Next]_vars => Inv'
<1> SUFFICES ASSUME Inv, [Next]_vars PROVE Inv'
  OBVIOUS
<1>1. \A g \in Handle : handle[g] \in Leaf \cup Live
  BY DEF Inv, Types
<1>2. CASE Copy
  BY <1>1, <1>2, AssignKeeps DEF Copy
<1>3. CASE Drop
  BY <1>3, AssignKeeps DEF Drop
<1>4. CASE Plus
  BY <1>4, PlusKeeps
<1>5. CASE PlusConstant
  BY <1>5, PlusConstantKeeps
<1>6. CASE Destroy
  BY <1>6, DestroyKeeps DEF Destroy
<1>7. CASE UNCHANGED vars
  <2>1. UNCHANGED <<handle, term, data, made, built>> /\ Live' = Live
    BY <1>7 DEF vars, Live
  <2>2. Types'
    BY <2>1 DEF Inv, Types
  <2>3. PrefixHolds' /\ LengthsDiffer' /\ LongestLives'
    BY <2>1 DEF Inv, PrefixHolds, LengthsDiffer, LongestLives, Vector
  <2>4. QED
    BY <2>2, <2>3 DEF Inv
<1>8. QED
  BY <1>2, <1>3, <1>4, <1>5, <1>6, <1>7 DEF Next

(* Types, PrefixHolds, LengthsDiffer and LongestLives hold always.         *)
THEOREM Invariance == Spec => []Inv
  BY InitInv, NextInv, PTL DEF Spec

(* The variables have their types: no vector or handle refers to a sum     *)
(* that was destroyed (expr_terms.cpp:19-24).                              *)
THEOREM TypeCorrect == Spec => []TypeOK
<1>1. Inv => TypeOK
  <2> SUFFICES ASSUME Inv PROVE TypeOK
    OBVIOUS
  <2> USE DEF Inv
  <2>1. handle \in [Handle -> Leaf \cup Live] /\ made \in 0..MaxTerms /\ Live \subseteq 1..made
    BY DEF Types
  <2>2. DOMAIN data = {term[t].data : t \in Live} /\ DOMAIN built = Live
    BY DEF Types
  <2>3. \A d \in DOMAIN data : \A i \in 1..Len(data[d]) : data[d][i] \in Leaf \cup Live
    BY ElementOfSeq DEF Types
  <2>4. \A t \in Live : term[t].n \in 2..(MaxTerms + 1)
    BY TermsBounded DEF Types
  <2>5. QED
    BY <2>1, <2>2, <2>3, <2>4 DEF TypeOK
<1>2. QED
  BY Invariance, <1>1, PTL

(* What a sum is: the elements it was made of, or nothing.                 *)
ElementsKnown ==
    \A t \in Live : Elements(t) = IF Vector(t) = <<>> THEN <<>> ELSE built[t]

LEMMA ElementsAre == Inv => ElementsKnown
<1> SUFFICES ASSUME Inv, NEW t \in Live
             PROVE  Elements(t) = IF Vector(t) = <<>> THEN <<>> ELSE built[t]
  BY DEF ElementsKnown
<1> DEFINE v == Vector(t)
           n == term[t].n
<1>1. /\ v \in Seq(Leaf \cup Live) /\ built[t] \in Seq(Ref)
      /\ n \in Nat /\ n >= 2 /\ Len(v) \in Nat
  BY LiveFacts, LenProperties DEF Inv
<1>2. CASE v = <<>>
  <2>1. Len(v) = 0
    BY <1>2
  <2>2. Elements(t) = SubSeq(v, 1, 0)
    BY <1>1, <2>1 DEF Elements, Vector
  <2>3. SubSeq(v, 1, 0) = <<>>
    BY <1>1, SubSeqEmpty
  <2>4. QED
    BY <1>2, <2>2, <2>3
<1>3. CASE v # <<>>
  <2>1. Len(built[t]) = n /\ n <= Len(v) /\ \A i \in 1..n : v[i] = built[t][i]
    BY <1>3 DEF Inv, PrefixHolds
  <2>2. Elements(t) = SubSeq(v, 1, n)
    BY <2>1 DEF Elements, Vector
  <2>3. /\ SubSeq(v, 1, n) \in Seq(Leaf \cup Live)
        /\ Len(SubSeq(v, 1, n)) = n
        /\ \A i \in 1..n : SubSeq(v, 1, n)[i] = v[i]
    BY <1>1, <2>1, SubSeqProperties
  <2>4. Leaf \cup Live \subseteq Ref
    BY TermsBounded DEF Inv, Types, Ref, Id
  <2>5. SubSeq(v, 1, n) \in Seq(Ref)
    BY <2>3, <2>4, SeqMonotonic
  <2>6. SubSeq(v, 1, n) = built[t]
    BY <1>1, <2>1, <2>3, <2>5, SeqEqual
  <2>7. QED
    BY <1>3, <2>2, <2>6
<1>4. QED
  BY <1>2, <1>3

(* What is appended to a shared vector never shows in a sum that shares it *)
(* (expr_terms.cpp:54-63, expr_terms.hpp:131).                             *)
THEOREM PrefixesIntact == Spec => []PrefixIntact
<1>1. Inv => PrefixIntact
  BY ElementsAre DEF PrefixIntact, ElementsKnown
<1>2. QED
  BY Invariance, <1>1, PTL

(* A sum loses its elements only when the longest sum on its vector is     *)
(* destroyed (expr_terms.cpp:21).                                          *)
THEOREM OnlyTheLongestSumEmpties == Spec => OnlyTheLongestEmpties
<1> DEFINE Step == \A t \in Live \cap Live' :
                      Elements(t)' # Elements(t)
                          => \E u \in Live \ Live' : /\ term[u].data = term[t].data
                                                     /\ term[u].n > term[t].n
                                                     /\ term[u].n = Len(data[term[u].data])
<1>1. Inv' => ElementsKnown'
  BY ElementsAre, PTL
<1>2. Inv /\ Inv' /\ [Next]_vars => Step
  <2> SUFFICES ASSUME Inv, Inv', [Next]_vars, NEW t \in Live, t \in Live', Elements(t)' # Elements(t)
               PROVE  \E u \in Live \ Live' : /\ term[u].data = term[t].data
                                              /\ term[u].n > term[t].n
                                              /\ term[u].n = Len(data[term[u].data])
    OBVIOUS
  <2>1. Elements(t) = IF Vector(t) = <<>> THEN <<>> ELSE built[t]
    BY ElementsAre DEF ElementsKnown
  <2>2. Elements(t)' = IF Vector(t)' = <<>> THEN <<>> ELSE built'[t]
    BY <1>1 DEF ElementsKnown
  <2>3. ~AllKept
    BY <2>1, <2>2 DEF AllKept
  <2>4. ~(UNCHANGED <<term, data, built>>)
    BY DEF Elements
  <2>5. \A g \in Handle : handle[g] \in Leaf \cup Live
    BY DEF Inv, Types
  <2>6. Destroy
    BY <2>3, <2>4, <2>5, PlusKeeps, PlusConstantKeeps, AssignKeeps DEF Next, Copy, Drop, vars
  <2>7. PICK u \in Live : /\ ~Referenced(u)
                          /\ data' = Restrict(Emptied(u), StillUsed(u))
                          /\ term' = Restrict(term, Live \ {u})
                          /\ built' = Restrict(built, Live \ {u})
                          /\ UNCHANGED <<handle, made>>
    BY <2>6 DEF Destroy
  <2>8. /\ Live' = Live \ {u}
        /\ built'[t] = built[t]
        /\ \/ Vector(t)' = Vector(t)
           \/ /\ Vector(t)' = <<>> /\ term[t].data = term[u].data
              /\ term[u].n = Len(Vector(t))
    BY <2>7, DestroyKeeps
  <2>9. /\ Vector(t) # <<>> /\ term[t].data = term[u].data
        /\ term[u].n = Len(Vector(t)) /\ t # u
    BY <2>1, <2>2, <2>8
  <2>10. term[t].n <= term[u].n /\ term[t].n # term[u].n
    BY <2>9 DEF Inv, PrefixHolds, LengthsDiffer
  <2>11. term[t].n \in Nat /\ term[u].n \in Nat
    BY LiveFacts DEF Inv
  <2>12. QED
    BY <2>8, <2>9, <2>10, <2>11 DEF Vector
<1>3. QED
  BY Invariance, <1>2, PTL DEF Spec, OnlyTheLongestEmpties

-----------------------------------------------------------------------------
(* A set of sums that is not empty has one that was made last.             *)
LEMMA LastMade ==
    ASSUME NEW n \in Nat, NEW S \in SUBSET (1..n), S # {}
    PROVE  \E m \in S : \A k \in S : k <= m
<1> DEFINE T == {n - k : k \in S}
<1>1. \A k \in S : k \in Nat /\ k <= n
  OBVIOUS
<1>2. \A k \in S : n - k \in T /\ n - k \in Nat
  BY <1>1
<1>3. T \in SUBSET Nat /\ T # {}
  BY <1>2
<1>4. PICK x \in T : \A y \in T : ~(<<y, x>> \in OpToRel(<, Nat))
  BY <1>3, NatLessThanWellFounded, WFMin
<1>5. \A y \in T : ~(y < x)
  BY <1>3, <1>4 DEF OpToRel
<1>6. PICK m \in S : x = n - m
  OBVIOUS
<1>7. \A k \in S : k <= m
  <2>1. TAKE k \in S
  <2>2. ~(n - k < n - m)
    BY <1>2, <1>5, <1>6
  <2>3. QED
    BY <1>1, <2>2
<1>8. QED
  BY <1>7

(* When no destructor is left to run, the client reaches every sum there   *)
(* is: a sum that nothing reaches would be an element of a vector whose    *)
(* longest sum, made later, nothing reaches either (expr_terms.cpp:19-41). *)
THEOREM NothingLeaks == Spec => []NoLeaks
<1>1. Inv => NoLeaks
  <2> SUFFICES ASSUME Inv, Quiescent, NEW S \in SUBSET Live,
                      \A h \in Handle : handle[h] \in Live => handle[h] \in S,
                      \A u \in S : \A i \in 1..Len(data[term[u].data]) :
                          data[term[u].data][i] \in Live => data[term[u].data][i] \in S,
                      NEW t \in Live, t \notin S
               PROVE  FALSE
    BY DEF NoLeaks, Reachable
  <2>1. made \in Nat /\ Live \ S \subseteq 1..made
    BY TermsBounded DEF Inv, Types
  <2>2. PICK m \in Live \ S : \A k \in Live \ S : k <= m
    BY <2>1, LastMade
  <2>3. PICK d \in DOMAIN data : \E i \in 1..Len(data[d]) : data[d][i] = m
    BY <2>2 DEF Quiescent, Referenced
  <2>4. PICK i \in 1..Len(data[d]) : data[d][i] = m
    BY <2>3
  <2>5. data[d] # <<>>
    BY <2>4
  <2>6. PICK w \in Live : term[w].data = d /\ data[d][i] < w
    BY <2>2, <2>4, <2>5 DEF Inv, LongestLives
  <2>7. w \notin S
    BY <2>2, <2>4, <2>6
  <2>8. w <= m /\ m < w
    BY <2>2, <2>4, <2>6, <2>7
  <2>9. QED
    BY <2>1, <2>2, <2>7, <2>8
<1>2. QED
  BY Invariance, <1>1, PTL
=============================================================================
