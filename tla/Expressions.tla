---------------------------- MODULE Expressions ----------------------------
(***************************************************************************)
(* expressions.py: the language the gate rules and the sizing formulas of  *)
(* a profile are written in, and the language that verify's thresholds     *)
(* share.  Reading an expression refuses what is outside the language;     *)
(* evaluating it over a scope gives a value, or says that a fact it reads  *)
(* is one nobody reported, or that it is wrongly written.                  *)
(*                                                                         *)
(* An expression is the sequence of the nodes of its tree, a node after    *)
(* all it is made of, the root last.  A node is a record of the operator   *)
(* op, the operators by of a comparison, the name n it reads, the constant *)
(* c it holds and the places args of its operands.  Numbers are counted in *)
(* halves, as in Sizing.                                                   *)
(***************************************************************************)
EXTENDS Integers, Sequences, SequencesExt, FiniteSetsExt

CONSTANT Collation  \* the place of each text in the order of texts

Nothing == [t |-> "nothing"]
Numeral(x) == [t |-> "number", v |-> x]
YesNo(b) == [t |-> "yesno", b |-> b]
Word(s) == [t |-> "text", s |-> s]
Group(g) == [t |-> "group", g |-> g]

\* What stops an evaluation: a fact nobody reported, a rule that is wrongly
\* written, and the exception of Python that neither of them is.
Unreported == [t |-> "unreported"]
Error == [t |-> "error"]
Traceback == [t |-> "traceback"]
Failed(v) == v.t \in {"unreported", "error", "traceback"}

ARITHMETIC == {"+", "-", "*", "/", "//", "%"}
OPERATORS == ARITHMETIC \cup
  {"constant", "name", "of", "minus", "plus", "not", "and", "or", "compare", "if", "list"}

COMPARISONS == {"==", "!=", "<", "<=", ">", ">=", "is", "is not", "in", "not in"}

\* What Python's own grammar makes of a text, as it is laid out here: every node
\* after what it is made of, of which there is as much as its operator takes.
Formed(e) ==
  /\ e # <<>> /\ DOMAIN e = 1..Len(e)
  /\ \A i \in DOMAIN e :
       LET node == e[i]
           count == Len(node.args)
       IN  /\ DOMAIN node.args = 1..count
           /\ \A k \in 1..count : node.args[k] \in 1..(i - 1)
           /\ node.op = "constant" => node.c.t \in {"nothing", "number", "yesno", "text"}
           /\ node.op \in {"of", "minus", "plus", "not"} => count = 1
           /\ node.op \in ARITHMETIC => count = 2
           /\ node.op = "if" => count = 3
           /\ node.op = "compare" => /\ count > 1 /\ DOMAIN node.by = 1..(count - 1)
                                     /\ \A k \in 1..(count - 1) : node.by[k] \in COMPARISONS

\* Whether parse() takes it: it does not when any part is outside the language,
\* in a branch that would never be evaluated too.
Readable(e) == \A i \in DOMAIN e : e[i].op \in OPERATORS

\* Every name it mentions, but for those asked of a group.
Names(e) == {e[i].n : i \in {k \in DOMAIN e : e[k].op = "name"}}

\* A name nobody defines is a misspelling; a fact nobody collected is not.
Resolve(scope, name) == IF name \in DOMAIN scope THEN scope[name] ELSE Error

FloorDiv(x, y) == IF y > 0 THEN x \div y ELSE (-x) \div (-y)

\* Not the code: what Python says of a division by zero is nobody's.
ArithmeticUnguarded(op, x, y) ==
  CASE op \in {"/", "//", "%"} /\ y = 0 -> Traceback
    [] op = "+" -> Numeral(x + y)
    [] OTHER -> Numeral(x - y)

Arithmetic(op, x, y) ==
  CASE op = "+" -> Numeral(x + y)
    [] op = "-" -> Numeral(x - y)
    [] op = "*" -> Numeral((x * y) \div 2)
    [] op \in {"/", "//", "%"} /\ y = 0 -> Error
    [] op = "/" /\ y # 0 -> Numeral(FloorDiv(2 * x, y))
    [] op = "//" /\ y # 0 -> Numeral(2 * FloorDiv(x, y))
    [] op = "%" /\ y # 0 -> Numeral(x - y * FloorDiv(x, y))

Truthy(v) == IF Failed(v) \/ v.t = "yesno" THEN v ELSE Error
Count(v) == IF Failed(v) \/ v.t = "number" THEN v ELSE Error

\* In Python a yes is one and a no is none, and equal to them.
Amount(v) == IF v.t = "number" THEN v.v ELSE IF v.b THEN 2 ELSE 0
Equal(l, r) ==
  IF {l.t, r.t} \subseteq {"number", "yesno"} THEN Amount(l) = Amount(r) ELSE l = r

\* No word here is part of another.
Within(l, r) ==
  CASE r.t = "list" -> YesNo(\E i \in DOMAIN r.l : Equal(l, r.l[i]))
    [] r.t = "text" -> IF l.t = "text" THEN YesNo(l.s = r.s) ELSE Traceback
    [] OTHER -> Error

Negated(v) == IF v.t = "yesno" THEN YesNo(~v.b) ELSE v

Before(by, x, y) ==
  YesNo(CASE by = "<" -> x < y [] by = "<=" -> x <= y [] by = ">" -> x > y [] by = ">=" -> x >= y)

\* Two values, compared.  The identity of equal numbers or texts is Python's own
\* affair: is and is not are asked of none.
Compare(by, l, r) ==
  CASE by = "is" -> YesNo(l = r)
    [] by = "is not" -> YesNo(l # r)
    [] by = "in" -> Within(l, r)
    [] by = "not in" -> Negated(Within(l, r))
    [] by = "==" -> YesNo(Equal(l, r))
    [] by = "!=" -> YesNo(~Equal(l, r))
    [] by \in {"<", "<=", ">", ">="} ->
         IF l.t = "number" /\ r.t = "number" THEN Before(by, l.v, r.v)
         ELSE IF l.t = "text" /\ r.t = "text"
              THEN Before(by, Collation[l.s], Collation[r.s])
              ELSE Error

\* What a row of answers comes to, asked one after the other until one is not
\* what is wanted.
Until(answers, wanted) ==
  LET stops == {i \in DOMAIN answers : answers[i] # YesNo(wanted)}
  IN  IF stops = {} THEN YesNo(wanted) ELSE answers[Min(stops)]

FirstFailed(v, w, otherwise) == IF Failed(v) THEN v ELSE IF Failed(w) THEN w ELSE otherwise

\* One node, given what its operands come to.  An operand that Python would not
\* look at decides nothing.
Combine(node, v, scope) ==
  CASE node.op = "constant" -> node.c
    [] node.op = "name" -> Resolve(scope, node.n)
    [] node.op = "of" ->
         IF Failed(v[1]) THEN v[1]
         ELSE IF v[1].t = "group" THEN Resolve(v[1].g, node.n) ELSE Error
    [] node.op \in ARITHMETIC ->
         FirstFailed(Count(v[1]), Count(v[2]), Arithmetic(node.op, v[1].v, v[2].v))
    [] node.op = "minus" -> FirstFailed(Count(v[1]), v[1], Numeral(-v[1].v))
    [] node.op = "plus" -> Count(v[1])
    [] node.op = "not" -> Negated(Truthy(v[1]))
    [] node.op \in {"and", "or"} ->
         Until([i \in DOMAIN v |-> Truthy(v[i])], node.op = "and")
    [] node.op = "compare" ->
         Until([i \in DOMAIN node.by |->
                  FirstFailed(v[i], v[i + 1], Compare(node.by[i], v[i], v[i + 1]))], TRUE)
    [] node.op = "if" ->
         IF Failed(Truthy(v[1])) THEN Truthy(v[1]) ELSE IF v[1].b THEN v[2] ELSE v[3]
    [] node.op = "list" ->
         LET fails == {i \in DOMAIN v : Failed(v[i])}
         IN  IF fails = {} THEN [t |-> "list", l |-> v] ELSE v[Min(fails)]

\* What each node comes to.
Values(e, scope) ==
  LET value[i \in DOMAIN e] ==
        Combine(e[i], [k \in DOMAIN e[i].args |-> value[e[i].args[k]]], scope)
  IN  value

Evaluate(e, scope) == Values(e, scope)[Len(e)]

\* A rule asks a question: what is not a yes or a no is wrongly written.
Truth(e, scope) == Truthy(Evaluate(e, scope))
=============================================================================
