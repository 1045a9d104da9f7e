----------------------------- MODULE ReaderJPOF -----------------------------
(***************************************************************************)
(* The reader of JPOF documents (model/reader_jpof.cpp): expressions in    *)
(* prefix form, constraints with one or two bounds, and the variables and  *)
(* parameters the expressions name by the ids of the document.             *)
(***************************************************************************)
EXTENDS ExprTexts

-----------------------------------------------------------------------------
(* create_expression(): a machine over the tokens.  estack holds the       *)
(* operators still open, args the expressions they will take, and nargs,   *)
(* for each operator and twice over, how many it takes; the upper number   *)
(* counts down to the completed operator.                                  *)

Start == [estack |-> <<>>, args |-> <<>>, nargs |-> <<1, 1>>, ok |-> TRUE]

CountDown(st) == [st EXCEPT !.nargs[Len(st.nargs)] = @ - 1]
WithoutLast(s, n) == SubSeq(s, 1, Len(s) - n)

Arity(token) ==
    CASE token.t \in {"+", "*", "/", "pow"} -> 2
      [] token.t \in {"neg", "f"} -> 1
      [] token.t = "sum" -> token.d

(* The pops and the pushes are by the number of arguments: a "sum" of two  *)
(* pushes nothing, and a "sum" of one calls no function.                   *)
Combine(st, op, n) ==
    LET arg(i) == st.args[Len(st.args) - n + i]
        result ==
            CASE op = "+" -> <<PlusTerm(arg(1), arg(2))>>
              [] op = "*" -> <<Times(arg(1), arg(2))>>
              [] op = "/" -> <<Divide(arg(1), arg(2))>>
              [] op = "pow" -> <<Pow(arg(1), arg(2))>>
              [] op = "neg" -> <<Negate(arg(1))>>
              [] op = "f" -> <<Intrinsic(arg(1))>>
              [] op = "sum" ->
                    CASE n = 0 -> <<Num(0)>>
                      [] n \in {1, 2} -> <<>>
                      [] OTHER -> <<FoldLeft(PlusTerm, arg(1), [i \in 1..(n - 1) |-> arg(i + 1)])>>
    IN  [st EXCEPT !.args = WithoutLast(@, n) \o result,
                   !.ok = @ /\ ~(op = "sum" /\ n = 1)]

(* Mutant: an operator completed by an operator is left waiting.           *)
CompleteOnce(st) ==
    LET n == st.nargs[Len(st.nargs) - 1]
        rest == [st EXCEPT !.nargs = WithoutLast(@, 2)]
        op == Last(st.estack)
    IN  IF Last(st.nargs) # 0 THEN st
        ELSE IF st.estack = <<>> THEN rest
        ELSE CountDown(Combine([rest EXCEPT !.estack = WithoutLast(@, 1)], op, n))

RECURSIVE Complete(_)
Complete(st) ==
    LET n == st.nargs[Len(st.nargs) - 1]
        rest == [st EXCEPT !.nargs = WithoutLast(@, 2)]
        op == Last(st.estack)
    IN  IF Last(st.nargs) # 0 THEN st
        ELSE IF st.estack = <<>> THEN rest
        ELSE Complete(CountDown(Combine([rest EXCEPT !.estack = WithoutLast(@, 1)], op, n)))

(* An id the document does not declare is given to a new variable, which   *)
(* is not the model's, or to a new parameter.                              *)
Undeclared == "undeclared"
Lookup(docs, id) ==
    LET with == {i \in 1..Len(docs) : docs[i].id = id}
    IN  IF with = {} THEN Undeclared ELSE docs[Max(with)].label

LeafTerm(doc, token) ==
    CASE token.t = "N" -> Num(token.d)
      [] token.t = "V" -> VarTerm(Lookup(doc.var, token.d))
      [] token.t = "P" -> Par(Lookup(doc.param, token.d))

Read(doc, st, token) ==
    IF token.t \in {"N", "V", "P"}
    THEN Complete(CountDown([st EXCEPT !.args = Append(@, LeafTerm(doc, token))]))
    ELSE Complete([st EXCEPT !.estack = Append(@, token.t),
                             !.nargs = @ \o <<Arity(token), Arity(token)>>])

Machine(doc, text) == FoldLeft(LAMBDA st, token : Read(doc, st, token), Start, text)
CreateExpression(doc, text) == Last(Machine(doc, text).args)

-----------------------------------------------------------------------------
(* Fields of a document.  JSON tells integers from other numbers.          *)

Missing == [form |-> "missing"]
Integer(n) == [form |-> "int", d |-> n]
Fraction(n) == [form |-> "double", d |-> n]
Text(s) == [form |-> "text", d |-> s]
Given(f) == f.form # "missing"

(* A variable or a parameter without a value has the value zero.           *)
ValueOf(d) == IF Given(d.value) THEN d.value.d ELSE 0
IsFixed(d) == Given(d.fixed) /\ d.fixed.d # 0

(* What the variables and parameters of the model have after reading.      *)
ReadValues(doc) ==
    LET docs == doc.var \o doc.param
    IN  [a \in {docs[i].label : i \in 1..Len(docs)} |->
            ValueOf(docs[CHOOSE i \in 1..Len(docs) : docs[i].label = a])]
ReadFixed(doc) == {doc.var[i].label : i \in {j \in 1..Len(doc.var) : IsFixed(doc.var[j])}}

(* An equality takes a number or a text, a bound no integer.               *)
Rejected == [op |-> "rejected"]

Bounded(e, geq, leq) ==
    CASE geq # Absent /\ leq # Absent -> Inequality(geq, e, leq, FALSE)
      [] geq # Absent /\ leq = Absent -> LessThan(geq, e, FALSE)
      [] OTHER -> LessThan(e, leq, FALSE)

ReadConstraint(doc, con) ==
    LET e == CreateExpression(doc, con.expr)
        bound(f) == CASE f.form = "missing" -> Absent
                      [] f.form = "double" -> Num(f.d)
                      [] f.form = "text" -> CreateExpression(doc, f.d)
    IN  CASE con.eq.form \in {"int", "double"} -> EqualNum(e, con.eq.d)
          [] con.eq.form = "text" -> Equal(e, CreateExpression(doc, con.eq.d))
          [] OTHER ->
                IF "int" \in {con.geq.form, con.leq.form} \/ ~(Given(con.geq) \/ Given(con.leq))
                THEN Rejected
                ELSE Bounded(e, bound(con.geq), bound(con.leq))

-----------------------------------------------------------------------------
(* The documents a modelling tool writes.  Ids are not in the order of the *)
(* declarations, and the values are integers, fractions or left out.       *)

Ids(atoms) == [i \in 1..Len(atoms) |-> [id |-> Len(atoms) - i, label |-> atoms[i]]]

Declared(atoms, F, v) ==
    [i \in 1..Len(atoms) |->
        [id |-> Ids(atoms)[i].id, label |-> atoms[i],
         value |-> CASE v[atoms[i]] = 0 -> Missing
                     [] v[atoms[i]] = 1 -> Fraction(1)
                     [] OTHER -> Integer(v[atoms[i]]),
         fixed |-> IF atoms[i] \in F THEN Integer(1) ELSE Missing]]

Document(F, v) == [var |-> Declared(SetToSeq(Var), F, v), param |-> Declared(SetToSeq(Param), {}, v)]

IdOf(docs, a) == docs[CHOOSE i \in 1..Len(docs) : docs[i].label = a].id

(* A sum of two is written with "+".                                       *)
RECURSIVE JPOFText(_, _)
JPOFText(doc, e) ==
    LET args == FlattenSeq([i \in 1..Len(e.args) |-> JPOFText(doc, e.args[i])])
        atom(t, docs) == <<[t |-> t, d |-> IdOf(docs, e.a)]>>
        number(n) == <<[t |-> "N", d |-> n]>>
        operator(t) == <<[t |-> t]>> \o args
    IN  CASE e.op = "num" -> number(e.n)
          [] e.op = "var" -> atom("V", doc.var)
          [] e.op = "par" -> atom("P", doc.param)
          [] e.op = "mono" -> <<[t |-> "*"]>> \o number(e.c) \o atom("V", doc.var)
          [] e.op = "-" -> operator("neg")
          [] e.op = "^" -> operator("pow")
          [] e.op \in {"*", "/", "f"} -> operator(e.op)
          [] e.op = "+" -> IF Len(e.args) = 2 THEN operator("+")
                           ELSE <<[t |-> "sum", d |-> Len(e.args)]>> \o args

-----------------------------------------------------------------------------
(* An expression read from a document has, for the variables as they were  *)
(* read, the value of the expression written, and nothing is left open.    *)
ExpressionsReadBack ==
    LatestSmaller(LAMBDA e :
        LET ids == Document({}, CHOOSE v \in Valuations : TRUE)
            st == Machine(ids, JPOFText(ids, e))
        IN  /\ st.ok /\ st.estack = <<>> /\ st.nargs = <<>> /\ Len(st.args) = 1
            /\ \A s \in Situations(e) :
                /\ ReadFixed(Document(s[1], s[2])) = s[1]
                /\ Eval(st.args[1], ReadValues(Document(s[1], s[2]))) = Eval(e, s[2]))

(* A constraint read from a document has the slacks of what was written,   *)
(* for either bound, both, and an equality, as a number or as a text.      *)
ConstraintsReadBack ==
    LatestTwo(LAMBDA l, r :
        LET ids == Document({}, CHOOSE v \in Valuations : TRUE)
            left == JPOFText(ids, l)
            read(eq, geq, leq) ==
                ReadConstraint(ids, [expr |-> left, eq |-> eq, geq |-> geq, leq |-> leq])
            holds(f) ==
                LET above == read(Missing, f, Missing)
                    below == read(Missing, Missing, f)
                    between == read(Missing, f, f)
                    equal == read(f, Missing, Missing)
                IN  \A v \in Valuations :
                    LET slack == FSub(Eval(l, v), Eval(r, v))
                    IN  Defined(l, v) /\ Defined(r, v) =>
                        /\ Slacks(above, v) = {slack}
                        /\ Slacks(below, v) = {FNeg(slack)}
                        /\ Slacks(between, v) = {slack, FNeg(slack)}
                        /\ Slacks(equal, v) \in {{slack}, {FNeg(slack)}}
        IN  holds(Text(JPOFText(ids, r))) /\ (IsConstant(r) => holds(Fraction(r.n))))

(* A document that is read means what was written.                         *)
JPOFExact == ExpressionsReadBack /\ ConstraintsReadBack
=============================================================================
