--------------------------- MODULE LanguageProofs ---------------------------
(***************************************************************************)
(* What TLAPS proves of the language of Expressions, for every expression  *)
(* and every scope.                                                        *)
(*                                                                         *)
(* An expression comes to something node by node (ValuesUnfold), so what   *)
(* holds of a node once it holds of what it is made of holds of the whole  *)
(* (NodeByNode).                                                           *)
(***************************************************************************)
EXTENDS Expressions, WellFoundedInduction, TLAPS

LEMMA Least ==
  ASSUME NEW S \in SUBSET Nat, S # {}
  PROVE  Min(S) \in S /\ \A n \in S : Min(S) <= n
<1> DEFINE R == OpToRel(<, Nat)
<1>1. IsWellFoundedOn(R, Nat)
  BY NatLessThanWellFounded
<1>2. \A x, y \in Nat : x < y => <<x, y>> \in R
  BY DEF OpToRel
<1> HIDE DEF R
<1>3. PICK m \in S : \A n \in S : ~ (<<n, m>> \in R)
  BY <1>1, WFMin
<1>4. ASSUME NEW n \in S PROVE m <= n
  <2>1. ~ (n < m)
    BY <1>2, <1>3
  <2> QED
    BY <2>1
<1> QED
  BY <1>4 DEF Min

\* A node of the language, over n operands.
Taking(node, n) ==
  /\ node.op \in OPERATORS
  /\ node.op = "constant" => node.c.t \in {"nothing", "number", "yesno", "text"}
  /\ node.op \in {"of", "minus", "plus", "not"} => n = 1
  /\ node.op \in ARITHMETIC => n = 2
  /\ node.op = "if" => n = 3
  /\ node.op = "compare" => /\ n > 1 /\ DOMAIN node.by = 1..(n - 1)
                            /\ \A k \in 1..(n - 1) : node.by[k] \in COMPARISONS

LEMMA NodeTakes ==
  ASSUME NEW e, Formed(e), Readable(e), NEW i \in 1..Len(e)
  PROVE  LET n == Len(e[i].args)
         IN  /\ n \in Nat /\ DOMAIN e[i].args = 1..n /\ Taking(e[i], n)
             /\ \A k \in 1..n : e[i].args[k] \in 1..(i - 1)
<1> DEFINE node == e[i]
           n == Len(node.args)
<1>1. i \in DOMAIN e /\ n \in Nat /\ DOMAIN node.args = 1..n
  BY DEF Formed
<1>2. \A k \in 1..n : node.args[k] \in 1..(i - 1)
  BY <1>1 DEF Formed
<1>3. Taking(node, n)
  BY <1>1 DEF Formed, Readable, Taking
<1> QED
  BY <1>1, <1>2, <1>3

\* What is true of each place once it is true of the places before it.
LEMMA NodeByNode ==
  ASSUME NEW n \in Nat, NEW S, \A i \in 1..n : (\A j \in 1..(i - 1) : j \in S) => i \in S
  PROVE  1..n \subseteq S
<1> DEFINE left == (1..n) \ S
<1>1. SUFFICES ASSUME left # {} PROVE FALSE
  OBVIOUS
<1>2. Min(left) \in left /\ \A i \in left : Min(left) <= i
  BY <1>1, Least
<1>3. PICK i \in left : \A j \in left : i <= j
  BY <1>2
<1>4. \A j \in 1..(i - 1) : j \in S
  BY <1>3
<1> QED
  BY <1>3, <1>4

-----------------------------------------------------------------------------
(* What a node comes to.                                                   *)

\* What one node is given, when the nodes come to what v says.
Operands(node, v) == [k \in DOMAIN node.args |-> v[node.args[k]]]

\* That v is what the first n nodes come to.
Solves(e, scope, n, v) == v = [i \in 1..n |-> Combine(e[i], Operands(e[i], v), scope)]

LEMMA ValuesUnfold ==
  ASSUME NEW e, Formed(e), NEW scope
  PROVE  Solves(e, scope, Len(e), Values(e, scope))
<1> DEFINE S == {n \in Nat : n <= Len(e) => \E v : Solves(e, scope, n, v)}
<1>1. Len(e) \in Nat /\ DOMAIN e = 1..Len(e)
  BY DEF Formed
<1>2. 0 \in S
  <2>1. Solves(e, scope, 0, [i \in 1..0 |-> i])
    BY DEF Solves
  <2> QED
    BY <2>1
<1>3. ASSUME NEW n \in Nat, n \in S, n < Len(e)
      PROVE  n + 1 \in S
  <2>1. PICK v : Solves(e, scope, n, v)
    BY <1>1, <1>3
  <2> DEFINE w == [i \in 1..(n + 1) |-> Combine(e[i], Operands(e[i], v), scope)]
  <2>2. \A i \in 1..n : w[i] = v[i]
    BY <2>1 DEF Solves
  <2>3. ASSUME NEW i \in 1..(n + 1) PROVE Operands(e[i], w) = Operands(e[i], v)
    <3>1. \A k \in DOMAIN e[i].args : e[i].args[k] \in 1..n
      BY <1>1, <1>3 DEF Formed
    <3> QED
      BY <2>2, <3>1 DEF Operands
  <2>4. Solves(e, scope, n + 1, w)
    BY <2>3 DEF Solves
  <2> QED
    BY <2>4
<1>4. Len(e) \in S
  <2> HIDE DEF S
  <2> DEFINE T == {n \in Nat : n <= Len(e) => n \in S}
  <2>1. ASSUME NEW i \in 1..Len(e), \A j \in 1..(i - 1) : j \in T
        PROVE  i \in T
    <3>1. i - 1 \in S
      BY <1>1, <1>2, <2>1
    <3>2. i - 1 \in Nat /\ i - 1 < Len(e) /\ (i - 1) + 1 = i
      BY <1>1
    <3> QED
      BY <1>1, <1>3, <3>1, <3>2
  <2>2. 1..Len(e) \subseteq T
    BY <1>1, <2>1, NodeByNode
  <2> QED
    BY <1>1, <1>2, <2>2
<1>5. \E v : v = [i \in DOMAIN e |->
                    Combine(e[i], [k \in DOMAIN e[i].args |-> v[e[i].args[k]]], scope)]
  BY <1>1, <1>4, SMTT(30) DEF Solves, Operands
<1>6. Values(e, scope) = [i \in DOMAIN e |->
         Combine(e[i], [k \in DOMAIN e[i].args |-> Values(e, scope)[e[i].args[k]]], scope)]
  BY <1>5 DEF Values
<1> QED
  BY <1>1, <1>6 DEF Solves, Operands

LEMMA NodeComesTo ==
  ASSUME NEW e, Formed(e), NEW scope, NEW i \in 1..Len(e)
  PROVE  Values(e, scope)[i] = Combine(e[i], Operands(e[i], Values(e, scope)), scope)
  BY ValuesUnfold DEF Solves

\* What comes of a row of answers is one of them, or what was wanted.
LEMMA UntilIsOne ==
  ASSUME NEW answers, NEW n \in Nat, DOMAIN answers = 1..n, NEW wanted
  PROVE  Until(answers, wanted) = YesNo(wanted) \/ \E i \in 1..n : Until(answers, wanted) = answers[i]
<1> DEFINE stops == {i \in DOMAIN answers : answers[i] # YesNo(wanted)}
<1>1. CASE stops = {}
  BY <1>1 DEF Until
<1>2. CASE stops # {}
  <2>1. stops \in SUBSET 1..n
    OBVIOUS
  <2>2. Until(answers, wanted) = answers[Min(stops)]
    BY <1>2 DEF Until
  <2> HIDE DEF stops
  <2>3. stops \in SUBSET Nat
    BY <2>1
  <2>4. Min(stops) \in stops
    BY <1>2, <2>3, Least
  <2> QED
    BY <2>1, <2>2, <2>4
<1> QED
  BY <1>1, <1>2

-----------------------------------------------------------------------------
(* Nothing but a search in a text raises what nobody catches.              *)

\* A value that is no exception, whatever is asked of it: a value of a scope has
\* groups in it at most two deep.
Safe0(v) == v.t \notin {"traceback", "group"}
Safe1(v) == v.t # "traceback" /\ (v.t = "group" => \A n \in DOMAIN v.g : Safe0(v.g[n]))
Safe(v) == v.t # "traceback" /\ (v.t = "group" => \A n \in DOMAIN v.g : Safe1(v.g[n]))
SafeScope(scope) == \A n \in DOMAIN scope : Safe(scope[n])

Searching(node) == node.op = "compare" /\ \E k \in DOMAIN node.by : node.by[k] \in {"in", "not in"}

LEMMA SafeGrows == (\A v : Safe0(v) => Safe1(v)) /\ (\A v : Safe1(v) => Safe(v))
  BY DEF Safe0, Safe1, Safe

LEMMA CombineIsSafe ==
  ASSUME NEW node, NEW n \in Nat, Taking(node, n), ~Searching(node), NEW scope, SafeScope(scope),
         NEW v, DOMAIN v = 1..n, \A k \in 1..n : Safe(v[k])
  PROVE  Safe(Combine(node, v, scope))
<1> USE DEF Taking
<1> DEFINE Safely(w) == Safe(w)
<1>1. Safe(Error) /\ Safe(Unreported) /\ (\A b : Safe(YesNo(b))) /\ (\A x : Safe(Numeral(x)))
  BY DEF Safe, Error, Unreported, YesNo, Numeral
<1>2. ASSUME NEW w, Safe(w) PROVE Safe(Truthy(w)) /\ Safe(Count(w))
  BY <1>1, <1>2 DEF Truthy, Count
<1>3. ASSUME NEW w, NEW x, NEW y, Safe(w), Safe(x), Safe(y) PROVE Safe(FirstFailed(w, x, y))
  BY <1>3 DEF FirstFailed
<1>4. CASE node.op = "constant"
  BY <1>4 DEF Combine, Safe, Failed, ARITHMETIC
<1>5. CASE node.op = "name"
  BY <1>1, <1>5 DEF Combine, Resolve, SafeScope, ARITHMETIC
<1>6. CASE node.op = "of"
  <2>1. Safe(v[1]) /\ Combine(node, v, scope) = IF Failed(v[1]) THEN v[1]
         ELSE IF v[1].t = "group" THEN Resolve(v[1].g, node.n) ELSE Error
    BY <1>6 DEF Combine, ARITHMETIC
  <2>2. v[1].t = "group" => Safe(Resolve(v[1].g, node.n))
    BY <1>1, <2>1, SafeGrows DEF Resolve, Safe
  <2> QED
    BY <1>1, <2>1, <2>2
<1>7. CASE node.op \in ARITHMETIC
  <2>1. Combine(node, v, scope)
          = FirstFailed(Count(v[1]), Count(v[2]), Arithmetic(node.op, v[1].v, v[2].v))
    BY <1>7 DEF Combine, ARITHMETIC
  <2>2. ASSUME NEW x, NEW y PROVE Safe(Arithmetic(node.op, x, y))
    <3>1. Arithmetic(node.op, x, y) = Error \/ \E z : Arithmetic(node.op, x, y) = Numeral(z)
      BY <1>7 DEF Arithmetic, ARITHMETIC
    <3> QED
      BY <1>1, <3>1
  <2> QED
    BY <1>2, <1>3, <1>7, <2>1, <2>2
<1>8. CASE node.op = "minus"
  BY <1>1, <1>2, <1>3, <1>8 DEF Combine, ARITHMETIC
<1>9. CASE node.op = "plus"
  BY <1>2, <1>9 DEF Combine, ARITHMETIC
<1>10. CASE node.op = "not"
  <2>1. Safe(Truthy(v[1])) /\ Combine(node, v, scope) = Negated(Truthy(v[1]))
    BY <1>2, <1>10 DEF Combine, ARITHMETIC
  <2> QED
    BY <1>1, <2>1 DEF Negated
<1>11. CASE node.op \in {"and", "or"}
  <2> DEFINE answers == [i \in DOMAIN v |-> Truthy(v[i])]
  <2>1. Combine(node, v, scope) = Until(answers, node.op = "and")
    BY <1>11 DEF Combine, ARITHMETIC
  <2>2. \A i \in 1..n : Safe(answers[i])
    BY <1>2
  <2> QED
    BY <1>1, <2>1, <2>2, UntilIsOne
<1>12. CASE node.op = "compare"
  <2> DEFINE answers == [i \in DOMAIN node.by |->
                           FirstFailed(v[i], v[i + 1], Compare(node.by[i], v[i], v[i + 1]))]
  <2>1. Combine(node, v, scope) = Until(answers, TRUE)
    BY <1>12 DEF Combine, ARITHMETIC
  <2>2. ASSUME NEW i \in 1..(n - 1), NEW l, NEW r PROVE Safe(Compare(node.by[i], l, r))
    <3>1. node.by[i] \in COMPARISONS \ {"in", "not in"}
      BY <1>12 DEF Searching
    <3>2. Compare(node.by[i], l, r) = Error \/ \E b : Compare(node.by[i], l, r) = YesNo(b)
      BY <3>1 DEF Compare, COMPARISONS, Before
    <3> QED
      BY <1>1, <3>2
  <2>3. ASSUME NEW i \in 1..(n - 1) PROVE Safe(answers[i])
    <3>1. i \in 1..n /\ i + 1 \in 1..n /\ i \in DOMAIN node.by
      BY <1>12
    <3> DEFINE c == Compare(node.by[i], v[i], v[i + 1])
    <3>2. Safe(v[i]) /\ Safe(v[i + 1]) /\ Safe(c)
      BY <2>2, <3>1
    <3>3. answers[i] = FirstFailed(v[i], v[i + 1], c)
      BY <3>1
    <3> HIDE DEF c
    <3> QED
      BY <1>3, <3>2, <3>3
  <2>4. n - 1 \in Nat /\ DOMAIN answers = 1..(n - 1)
    BY <1>12
  <2> HIDE DEF answers
  <2>5. Until(answers, TRUE) = YesNo(TRUE)
          \/ \E i \in 1..(n - 1) : Until(answers, TRUE) = answers[i]
    BY <2>4, UntilIsOne
  <2> QED
    BY <1>1, <2>1, <2>3, <2>5
<1>13. CASE node.op = "if"
  BY <1>2, <1>13 DEF Combine, ARITHMETIC
<1>14. CASE node.op = "list"
  <2> DEFINE fails == {i \in DOMAIN v : Failed(v[i])}
  <2>1. Combine(node, v, scope) = IF fails = {} THEN [t |-> "list", l |-> v] ELSE v[Min(fails)]
    BY <1>14 DEF Combine, ARITHMETIC
  <2>2. fails # {} => Min(fails) \in 1..n
    <3>1. fails \in SUBSET 1..n
      OBVIOUS
    <3> HIDE DEF fails
    <3>2. fails \in SUBSET Nat
      BY <3>1
    <3> QED
      BY <3>1, <3>2, Least
  <2>3. Safe([t |-> "list", l |-> v])
    BY DEF Safe
  <2> HIDE DEF fails
  <2> QED
    BY <2>1, <2>2, <2>3
<1> QED
  BY <1>4, <1>5, <1>6, <1>7, <1>8, <1>9, <1>10, <1>11, <1>12, <1>13, <1>14 DEF OPERATORS

\* An expression that searches no text comes to a value, or is refused, or reads
\* what nobody reported: expressions.py lets nothing else out.
LEMMA EvaluateIsSafe ==
  ASSUME NEW e, Formed(e), Readable(e), \A i \in DOMAIN e : ~Searching(e[i]),
         NEW scope, SafeScope(scope)
  PROVE  Safe(Evaluate(e, scope))
<1> DEFINE v == Values(e, scope)
           S == {i \in 1..Len(e) : Safe(v[i])}
<1>1. Len(e) \in Nat /\ DOMAIN e = 1..Len(e) /\ Len(e) > 0
  BY DEF Formed
<1>2. ASSUME NEW i \in 1..Len(e), \A j \in 1..(i - 1) : j \in S
      PROVE  i \in S
  <2> DEFINE node == e[i]
             n == Len(node.args)
             w == Operands(node, v)
  <2>1. /\ n \in Nat /\ DOMAIN node.args = 1..n /\ Taking(node, n)
        /\ \A k \in 1..n : node.args[k] \in 1..(i - 1)
    BY <1>1, <1>2, NodeTakes
  <2>2. DOMAIN w = 1..n /\ \A k \in 1..n : Safe(w[k])
    BY <1>2, <2>1 DEF Operands
  <2>3. ~Searching(node)
    BY <1>1
  <2>4. Safe(Combine(node, w, scope))
    <3> HIDE DEF node, n, w
    <3> QED
      BY <2>1, <2>2, <2>3, CombineIsSafe
  <2> QED
    BY <2>4, NodeComesTo DEF w
<1>3. 1..Len(e) \subseteq S
  <2> HIDE DEF S
  <2> QED
    BY <1>1, <1>2, NodeByNode
<1> QED
  BY <1>1, <1>3 DEF Evaluate

-----------------------------------------------------------------------------
(* What a scope that says more decides.                                    *)

\* What is known of a value is what it is, or that nobody said.
Told(x, y) == x.t = "unreported" \/ (x = y /\ x.t \notin {"group", "list"})

\* Or it is a group of which no more is known than of its members.
Filled(x, y, G) == Told(x, y) \/ <<x, y>> \in G

\* The groups of two scopes, pair by pair: none is told from another in one scope
\* and not in the other.
Paired(G) ==
  /\ \A x, y : <<x, y>> \in G =>
       /\ x.t = "group" /\ y.t = "group" /\ DOMAIN x.g = DOMAIN y.g
       /\ \A n \in DOMAIN x.g : Filled(x.g[n], y.g[n], G)
  /\ \A x, y, z, w : <<x, y>> \in G /\ <<z, w>> \in G => (x = z <=> y = w)

Fills(a, b, G) ==
  /\ Paired(G)
  /\ DOMAIN a = DOMAIN b /\ \A n \in DOMAIN a : Filled(a[n], b[n], G)

\* Two lists of operands, of which those that are known are told from each other,
\* and from what the lists among them hold, in both or in neither.
Listed(v, w, k) ==
  /\ v[k].t = "list" /\ w[k].t = "list" /\ DOMAIN v[k].l = DOMAIN w[k].l
  /\ \A i \in DOMAIN v[k].l :
       LET x == v[k].l[i]
           y == w[k].l[i]
       IN  /\ x.t = y.t /\ (x.t \in {"number", "yesno"} => x = y)
           /\ \A m \in DOMAIN v : v[m].t # "unreported" => (v[m] = x <=> w[m] = y)
Alike(v, w, G) ==
  /\ DOMAIN w = DOMAIN v
  /\ \A k \in DOMAIN v : Filled(v[k], w[k], G) \/ Listed(v, w, k)
  /\ \A k, m \in DOMAIN v :
       v[k].t # "unreported" /\ v[m].t # "unreported" => (v[k] = v[m] <=> w[k] = w[m])

LEMMA TruthyTold ==
  ASSUME NEW x, NEW y, NEW G, Paired(G), Filled(x, y, G) \/ (x.t = "list" /\ y.t = "list")
  PROVE  Told(Truthy(x), Truthy(y)) /\ Told(Count(x), Count(y))
<1>1. CASE x.t = "unreported"
  BY <1>1 DEF Told, Truthy, Count, Failed
<1>2. CASE x = y /\ x.t \notin {"group", "list"}
  BY <1>2 DEF Told, Truthy, Count, Error
<1>3. CASE x.t = y.t /\ x.t \in {"group", "list"}
  BY <1>3 DEF Told, Truthy, Count, Failed, Error
<1>4. <<x, y>> \in G => x.t = "group" /\ y.t = "group"
  BY DEF Paired
<1> QED
  BY <1>1, <1>2, <1>3, <1>4 DEF Filled, Told

LEMMA UntilTold ==
  ASSUME NEW answers, NEW others, NEW n \in Nat, DOMAIN answers = 1..n, DOMAIN others = 1..n,
         \A i \in 1..n : Told(answers[i], others[i]), NEW wanted \in BOOLEAN
  PROVE  Told(Until(answers, wanted), Until(others, wanted))
<1> DEFINE stops == {i \in DOMAIN answers : answers[i] # YesNo(wanted)}
           halts == {i \in DOMAIN others : others[i] # YesNo(wanted)}
<1>1. Told(YesNo(wanted), YesNo(wanted)) /\ YesNo(wanted).t # "unreported"
  BY DEF Told, YesNo
<1>2. /\ Until(answers, wanted) = IF stops = {} THEN YesNo(wanted) ELSE answers[Min(stops)]
      /\ Until(others, wanted) = IF halts = {} THEN YesNo(wanted) ELSE others[Min(halts)]
  BY DEF Until
<1>3. stops \in SUBSET (1..n) /\ halts \in SUBSET (1..n)
  OBVIOUS
<1>4. \A i \in (1..n) \ stops : answers[i] = YesNo(wanted) /\ i \notin halts
  <2>1. SUFFICES ASSUME NEW i \in (1..n) \ stops PROVE answers[i] = YesNo(wanted) /\ i \notin halts
    OBVIOUS
  <2>2. answers[i] = YesNo(wanted)
    BY <2>1
  <2>3. others[i] = answers[i]
    BY <1>1, <2>1, <2>2 DEF Told
  <2> QED
    BY <2>2, <2>3
<1>5. \A i \in stops : answers[i].t = "unreported" \/ i \in halts
  BY DEF Told
<1> HIDE DEF stops, halts
<1>6. CASE stops = {}
  BY <1>1, <1>2, <1>3, <1>4, <1>6
<1>7. CASE stops # {}
  <2> DEFINE i == Min(stops)
  <2>1. i \in stops /\ \A m \in stops : i <= m
    BY <1>3, <1>7, Least
  <2> HIDE DEF i
  <2>2. CASE answers[i].t = "unreported"
    BY <1>2, <1>7, <2>2 DEF i, Told
  <2>3. CASE answers[i].t # "unreported"
    <3>1. i \in halts
      BY <1>5, <2>1, <2>3
    <3>2. Min(halts) \in halts /\ \A m \in halts : Min(halts) <= m
      BY <1>3, <3>1, Least
    <3>3. \A m \in halts : m \in stops
      BY <1>3, <1>4
    <3>4. Min(halts) = i
      <4>1. PICK j : j = Min(halts)
        OBVIOUS
      <4>2. j \in halts /\ j <= i
        BY <3>1, <3>2, <4>1
      <4>3. j \in stops /\ i <= j
        BY <2>1, <3>3, <4>2
      <4>4. i \in Nat /\ j \in Nat
        BY <1>3, <2>1, <4>3
      <4> QED
        BY <4>1, <4>2, <4>3, <4>4
    <3>5. Told(answers[i], others[i])
      BY <1>3, <2>1
    <3> QED
      BY <1>2, <1>7, <3>1, <3>4, <3>5 DEF i
  <2> QED
    BY <2>2, <2>3
<1> QED
  BY <1>6, <1>7

\* Nothing a comparison asks of two values tells more of them.
LEMMA TypesKept ==
  ASSUME NEW v, NEW w, NEW G, Paired(G), Alike(v, w, G), NEW k \in DOMAIN v, v[k].t # "unreported"
  PROVE  /\ v[k].t = w[k].t /\ (v[k].t \notin {"group", "list"} => v[k] = w[k])
         /\ v[k].t = "list" => Listed(v, w, k)
<1>1. CASE Told(v[k], w[k])
  BY <1>1 DEF Told
<1>2. CASE <<v[k], w[k]>> \in G
  BY <1>2 DEF Paired
<1>3. CASE Listed(v, w, k)
  BY <1>3 DEF Listed
<1> QED
  BY <1>1, <1>2, <1>3 DEF Alike, Filled

LEMMA EqualKept ==
  ASSUME NEW x, NEW y, NEW z, NEW w, x.t = z.t, y.t = w.t,
         x.t \in {"number", "yesno"} => x = z, y.t \in {"number", "yesno"} => y = w,
         x = y <=> z = w
  PROVE  Equal(x, y) <=> Equal(z, w)
<1>1. CASE {x.t, y.t} \subseteq {"number", "yesno"}
  BY <1>1
<1>2. CASE ~({x.t, y.t} \subseteq {"number", "yesno"})
  <2>1. (Equal(x, y) <=> x = y) /\ (Equal(z, w) <=> z = w)
    BY <1>2 DEF Equal
  <2> QED
    BY <2>1
<1> QED
  BY <1>1, <1>2

LEMMA WithinKept ==
  ASSUME NEW v, NEW w, NEW G, Paired(G), Alike(v, w, G), NEW k \in DOMAIN v, NEW m \in DOMAIN v,
         v[k].t # "unreported", v[m].t # "unreported"
  PROVE  Within(v[k], v[m]) = Within(w[k], w[m])
<1>1. /\ v[k].t = w[k].t /\ (v[k].t \notin {"group", "list"} => v[k] = w[k])
      /\ v[m].t = w[m].t /\ (v[m].t \notin {"group", "list"} => v[m] = w[m])
      /\ v[m].t = "list" => Listed(v, w, m)
  BY TypesKept
<1>2. CASE v[m].t = "list"
  <2>1. DOMAIN v[m].l = DOMAIN w[m].l
    BY <1>1, <1>2 DEF Listed
  <2>2. ASSUME NEW i \in DOMAIN v[m].l
        PROVE  Equal(v[k], v[m].l[i]) <=> Equal(w[k], w[m].l[i])
    <3>1. /\ v[m].l[i].t = w[m].l[i].t
          /\ v[m].l[i].t \in {"number", "yesno"} => v[m].l[i] = w[m].l[i]
          /\ v[k] = v[m].l[i] <=> w[k] = w[m].l[i]
      BY <1>1, <1>2 DEF Listed
    <3> QED
      BY <1>1, <3>1, EqualKept
  <2>3. (\E i \in DOMAIN v[m].l : Equal(v[k], v[m].l[i]))
           <=> (\E i \in DOMAIN w[m].l : Equal(w[k], w[m].l[i]))
    BY <2>1, <2>2
  <2>4. /\ Within(v[k], v[m]) = YesNo(\E i \in DOMAIN v[m].l : Equal(v[k], v[m].l[i]))
        /\ Within(w[k], w[m]) = YesNo(\E i \in DOMAIN w[m].l : Equal(w[k], w[m].l[i]))
    BY <1>1, <1>2 DEF Within
  <2>5. ASSUME NEW a \in BOOLEAN, NEW b \in BOOLEAN, a <=> b PROVE YesNo(a) = YesNo(b)
    BY <2>5
  <2> QED
    BY <2>3, <2>4, <2>5
<1>3. CASE v[m].t = "text"
  BY <1>1, <1>3 DEF Within
<1>4. CASE v[m].t \notin {"list", "text"}
  BY <1>1, <1>4 DEF Within
<1> QED
  BY <1>2, <1>3, <1>4

LEMMA CompareKept ==
  ASSUME NEW v, NEW w, NEW G, Paired(G), Alike(v, w, G), NEW k \in DOMAIN v, NEW m \in DOMAIN v,
         v[k].t # "unreported", v[m].t # "unreported", NEW by \in COMPARISONS
  PROVE  Compare(by, v[k], v[m]) = Compare(by, w[k], w[m])
<1>1. /\ v[k].t = w[k].t /\ (v[k].t \notin {"group", "list"} => v[k] = w[k])
      /\ v[m].t = w[m].t /\ (v[m].t \notin {"group", "list"} => v[m] = w[m])
  BY TypesKept
<1>2. v[k] = v[m] <=> w[k] = w[m]
  BY DEF Alike
<1>3. Equal(v[k], v[m]) <=> Equal(w[k], w[m])
  BY <1>1, <1>2, EqualKept
<1>4. Within(v[k], v[m]) = Within(w[k], w[m])
  BY WithinKept
<1>5. ASSUME NEW a \in BOOLEAN, NEW b \in BOOLEAN, a <=> b
      PROVE  YesNo(a) = YesNo(b) /\ YesNo(~a) = YesNo(~b)
  BY <1>5
<1>6. CASE by = "is"
  BY <1>2, <1>5, <1>6 DEF Compare
<1>7. CASE by = "is not"
  BY <1>2, <1>5, <1>7 DEF Compare
<1>8. CASE by = "in"
  BY <1>4, <1>8 DEF Compare
<1>9. CASE by = "not in"
  BY <1>4, <1>9 DEF Compare
<1>10. CASE by = "=="
  <2>1. Compare(by, v[k], v[m]) = YesNo(Equal(v[k], v[m]))
        /\ Compare(by, w[k], w[m]) = YesNo(Equal(w[k], w[m]))
    BY <1>10 DEF Compare
  <2>2. Equal(v[k], v[m]) \in BOOLEAN /\ Equal(w[k], w[m]) \in BOOLEAN
    BY DEF Equal
  <2> QED
    BY <1>3, <1>5, <2>1, <2>2
<1>11. CASE by = "!="
  <2>1. Compare(by, v[k], v[m]) = YesNo(~Equal(v[k], v[m]))
        /\ Compare(by, w[k], w[m]) = YesNo(~Equal(w[k], w[m]))
    BY <1>11 DEF Compare
  <2>2. Equal(v[k], v[m]) \in BOOLEAN /\ Equal(w[k], w[m]) \in BOOLEAN
    BY DEF Equal
  <2> QED
    BY <1>3, <1>5, <2>1, <2>2
<1>12. CASE by \in {"<", "<=", ">", ">="}
  <2>1. ASSUME NEW l, NEW r
        PROVE  Compare(by, l, r) = IF l.t = "number" /\ r.t = "number" THEN Before(by, l.v, r.v)
                 ELSE IF l.t = "text" /\ r.t = "text"
                      THEN Before(by, Collation[l.s], Collation[r.s]) ELSE Error
    BY <1>12 DEF Compare
  <2> QED
    BY <1>1, <2>1
<1> QED
  BY <1>6, <1>7, <1>8, <1>9, <1>10, <1>11, <1>12 DEF COMPARISONS

LEMMA FirstFailedTold ==
  ASSUME NEW x, NEW y, NEW z, NEW w, NEW r, NEW q, x.t = z.t \/ x.t = "unreported",
         y.t = w.t \/ y.t = "unreported", Failed(x) => Told(x, z), Failed(y) => Told(y, w),
         x.t # "unreported" /\ y.t # "unreported" => Told(r, q)
  PROVE  Told(FirstFailed(x, y, r), FirstFailed(z, w, q))
<1>1. CASE Failed(x)
  BY <1>1 DEF FirstFailed, Told, Failed
<1>2. CASE ~Failed(x) /\ Failed(y)
  BY <1>2 DEF FirstFailed, Told, Failed
<1>3. CASE ~Failed(x) /\ ~Failed(y)
  BY <1>3 DEF FirstFailed, Told, Failed
<1> QED
  BY <1>1, <1>2, <1>3

LEMMA CompareIsPlain ==
  ASSUME NEW by \in COMPARISONS, NEW l, NEW r
  PROVE  Compare(by, l, r).t \in {"yesno", "error", "traceback"}
<1>1. Within(l, r).t \in {"yesno", "error", "traceback"}
  BY DEF Within, YesNo, Error, Traceback
<1>2. Negated(Within(l, r)).t \in {"yesno", "error", "traceback"}
  BY <1>1 DEF Negated, YesNo
<1> QED
  BY <1>1, <1>2 DEF COMPARISONS, Compare, Before, YesNo, Error

\* What a node of a scope comes to where the other says more of it.
Kept(node, v, w, x, y, G) ==
  \/ Filled(x, y, G)
  \/ \E k \in DOMAIN v : x = v[k] /\ y = w[k]
  \/ /\ node.op = "list" /\ \A k \in DOMAIN v : ~Failed(v[k])
     /\ x = [t |-> "list", l |-> v] /\ y = [t |-> "list", l |-> w]

LEMMA CombineFills ==
  ASSUME NEW node, NEW n \in Nat, Taking(node, n), NEW a, NEW b, NEW G, Fills(a, b, G),
         NEW v, NEW w, DOMAIN v = 1..n, Alike(v, w, G)
  PROVE  Kept(node, v, w, Combine(node, v, a), Combine(node, w, b), G)
<1> USE DEF Taking
<1> DEFINE x == Combine(node, v, a)
           y == Combine(node, w, b)
<1>1. Paired(G) /\ DOMAIN w = 1..n
  BY DEF Fills, Alike
<1>2. ASSUME NEW k \in 1..n
      PROVE  /\ v[k].t # "unreported" => /\ v[k].t = w[k].t
                                         /\ v[k].t \notin {"group", "list"} => v[k] = w[k]
             /\ Failed(v[k]) => Told(v[k], w[k])
             /\ Filled(v[k], w[k], G) \/ (v[k].t = "list" /\ w[k].t = "list")
             /\ Told(Truthy(v[k]), Truthy(w[k])) /\ Told(Count(v[k]), Count(w[k]))
  <2>1. v[k].t # "unreported" => v[k].t = w[k].t /\ (v[k].t \notin {"group", "list"} => v[k] = w[k])
    BY <1>1, TypesKept
  <2>2. Filled(v[k], w[k], G) \/ (v[k].t = "list" /\ w[k].t = "list")
    BY DEF Alike, Listed
  <2> QED
    BY <1>1, <2>1, <2>2, TruthyTold DEF Told, Failed
<1>3. Told(Error, Error) /\ (\A c : Told(YesNo(c), YesNo(c))) /\ (\A c : Told(Numeral(c), Numeral(c)))
  BY DEF Told, Error, YesNo, Numeral
<1>4. SUFFICES \/ Told(x, y) \/ <<x, y>> \in G
               \/ \E k \in 1..n : x = v[k] /\ y = w[k]
               \/ /\ node.op = "list" /\ \A k \in DOMAIN v : ~Failed(v[k])
                  /\ x = [t |-> "list", l |-> v] /\ y = [t |-> "list", l |-> w]
  BY DEF Kept, Filled
<1>5. CASE node.op = "constant"
  BY <1>5 DEF Combine, Told, ARITHMETIC
<1>6. CASE node.op = "name"
  BY <1>3, <1>6 DEF Combine, Resolve, Fills, Filled, ARITHMETIC
<1>7. CASE node.op = "of"
  <2>1. /\ x = IF Failed(v[1]) THEN v[1]
               ELSE IF v[1].t = "group" THEN Resolve(v[1].g, node.n) ELSE Error
        /\ y = IF Failed(w[1]) THEN w[1]
               ELSE IF w[1].t = "group" THEN Resolve(w[1].g, node.n) ELSE Error
    BY <1>7 DEF Combine, ARITHMETIC
  <2>2. CASE Failed(v[1])
    BY <1>2, <1>7, <2>1, <2>2 DEF Told, Failed
  <2>3. CASE v[1].t = "group"
    <3>1. <<v[1], w[1]>> \in G
      BY <1>2, <1>7, <2>3 DEF Filled, Told
    <3>2. /\ w[1].t = "group" /\ DOMAIN v[1].g = DOMAIN w[1].g
          /\ \A m \in DOMAIN v[1].g : Filled(v[1].g[m], w[1].g[m], G)
      BY <1>1, <3>1 DEF Paired
    <3>3. x = Resolve(v[1].g, node.n) /\ y = Resolve(w[1].g, node.n)
      BY <2>1, <2>3, <3>2 DEF Failed
    <3> QED
      BY <1>3, <3>2, <3>3 DEF Resolve, Filled
  <2>4. CASE ~Failed(v[1]) /\ v[1].t # "group"
    BY <1>2, <1>3, <1>7, <2>1, <2>4 DEF Failed
  <2> QED
    BY <2>2, <2>3, <2>4
<1>8. CASE node.op \in ARITHMETIC
  <2>1. /\ x = FirstFailed(Count(v[1]), Count(v[2]), Arithmetic(node.op, v[1].v, v[2].v))
        /\ y = FirstFailed(Count(w[1]), Count(w[2]), Arithmetic(node.op, w[1].v, w[2].v))
    BY <1>8 DEF Combine, ARITHMETIC
  <2>2. /\ Told(Count(v[1]), Count(w[1])) /\ Told(Count(v[2]), Count(w[2]))
        /\ Count(v[1]) # v[1] => Failed(Count(v[1]))
        /\ Count(v[2]) # v[2] => Failed(Count(v[2]))
        /\ Failed(Count(v[1])) \/ v[1].t = "number"
        /\ Failed(Count(v[2])) \/ v[2].t = "number"
    BY <1>2, <1>8 DEF Count, Failed, Error
  <2>3. ASSUME NEW p, NEW q PROVE Told(Arithmetic(node.op, p, q), Arithmetic(node.op, p, q))
    <3>1. Arithmetic(node.op, p, q) = Error \/ \E z : Arithmetic(node.op, p, q) = Numeral(z)
      BY <1>8 DEF Arithmetic, ARITHMETIC
    <3> QED
      BY <1>3, <3>1
  <2>4. v[1].t = "number" => v[1] = w[1]
    BY <1>2, <1>8
  <2>5. v[2].t = "number" => v[2] = w[2]
    BY <1>2, <1>8
  <2>6. CASE Failed(Count(v[1]))
    BY <2>1, <2>2, <2>6 DEF FirstFailed, Told, Failed
  <2>7. CASE ~Failed(Count(v[1])) /\ Failed(Count(v[2]))
    BY <2>1, <2>2, <2>7 DEF FirstFailed, Told, Failed
  <2>8. CASE ~Failed(Count(v[1])) /\ ~Failed(Count(v[2]))
    <3>1. v[1] = w[1] /\ v[2] = w[2]
      BY <2>2, <2>4, <2>5, <2>8
    <3> QED
      BY <2>1, <2>3, <2>8, <3>1 DEF FirstFailed
  <2> QED
    BY <2>6, <2>7, <2>8
<1>9. CASE node.op = "minus"
  <2>1. x = FirstFailed(Count(v[1]), v[1], Numeral(-v[1].v))
        /\ y = FirstFailed(Count(w[1]), w[1], Numeral(-w[1].v))
    BY <1>9 DEF Combine, ARITHMETIC
  <2>2. CASE Failed(Count(v[1]))
    BY <1>2, <1>9, <2>1, <2>2 DEF FirstFailed, Told, Failed
  <2>3. CASE ~Failed(Count(v[1]))
    <3>1. v[1] = w[1]
      BY <1>2, <1>9, <2>3 DEF Count, Failed, Error
    <3> QED
      BY <1>3, <2>1, <2>3, <3>1 DEF FirstFailed, Count, Failed, Error
  <2> QED
    BY <2>2, <2>3
<1>10. CASE node.op = "plus"
  BY <1>2, <1>10 DEF Combine, ARITHMETIC
<1>11. CASE node.op = "not"
  <2>1. x = Negated(Truthy(v[1])) /\ y = Negated(Truthy(w[1])) /\ Told(Truthy(v[1]), Truthy(w[1]))
    BY <1>2, <1>11 DEF Combine, ARITHMETIC
  <2> QED
    BY <1>3, <2>1 DEF Negated, Told, YesNo
<1>12. CASE node.op \in {"and", "or"}
  <2> DEFINE answers == [i \in DOMAIN v |-> Truthy(v[i])]
             others == [i \in DOMAIN w |-> Truthy(w[i])]
  <2>1. PICK wanted \in BOOLEAN : x = Until(answers, wanted) /\ y = Until(others, wanted)
    <3>1. x = Until(answers, node.op = "and") /\ y = Until(others, node.op = "and")
      BY <1>12 DEF Combine, ARITHMETIC
    <3> HIDE DEF x, y, answers, others
    <3>2. (node.op = "and") \in BOOLEAN
      OBVIOUS
    <3> QED
      BY <3>1, <3>2, Zenon
  <2>2. /\ DOMAIN answers = 1..n /\ DOMAIN others = 1..n
        /\ \A i \in 1..n : Told(answers[i], others[i])
    BY <1>1, <1>2
  <2> HIDE DEF answers, others
  <2> QED
    BY <2>1, <2>2, UntilTold
<1>13. CASE node.op = "compare"
  <2> DEFINE answers == [i \in DOMAIN node.by |->
                           FirstFailed(v[i], v[i + 1], Compare(node.by[i], v[i], v[i + 1]))]
             others == [i \in DOMAIN node.by |->
                          FirstFailed(w[i], w[i + 1], Compare(node.by[i], w[i], w[i + 1]))]
  <2>1. x = Until(answers, TRUE) /\ y = Until(others, TRUE)
    BY <1>13 DEF Combine, ARITHMETIC
  <2>2. ASSUME NEW i \in 1..(n - 1) PROVE Told(answers[i], others[i])
    <3>1. i \in 1..n /\ i + 1 \in 1..n /\ i \in DOMAIN node.by /\ node.by[i] \in COMPARISONS
      BY <1>13
    <3> DEFINE r == Compare(node.by[i], v[i], v[i + 1])
               q == Compare(node.by[i], w[i], w[i + 1])
    <3>2. answers[i] = FirstFailed(v[i], v[i + 1], r) /\ others[i] = FirstFailed(w[i], w[i + 1], q)
      BY <3>1
    <3>3. v[i].t # "unreported" /\ v[i + 1].t # "unreported" => Told(r, q)
      BY <1>1, <3>1, CompareKept, CompareIsPlain DEF Told
    <3>4. /\ v[i].t = w[i].t \/ v[i].t = "unreported"
          /\ v[i + 1].t = w[i + 1].t \/ v[i + 1].t = "unreported"
          /\ Failed(v[i]) => Told(v[i], w[i])
          /\ Failed(v[i + 1]) => Told(v[i + 1], w[i + 1])
      BY <1>2, <3>1
    <3> HIDE DEF r, q, answers, others
    <3> QED
      BY <3>2, <3>3, <3>4, FirstFailedTold
  <2>3. n - 1 \in Nat /\ DOMAIN answers = 1..(n - 1) /\ DOMAIN others = 1..(n - 1)
    BY <1>13
  <2> HIDE DEF answers, others
  <2> QED
    BY <2>1, <2>2, <2>3, UntilTold
<1>14. CASE node.op = "if"
  <2>1. /\ x = IF Failed(Truthy(v[1])) THEN Truthy(v[1]) ELSE IF v[1].b THEN v[2] ELSE v[3]
        /\ y = IF Failed(Truthy(w[1])) THEN Truthy(w[1]) ELSE IF w[1].b THEN w[2] ELSE w[3]
    BY <1>14 DEF Combine, ARITHMETIC
  <2>2. CASE Failed(Truthy(v[1]))
    BY <1>2, <1>14, <2>1, <2>2 DEF Told, Failed
  <2>3. CASE ~Failed(Truthy(v[1]))
    <3>1. v[1] = w[1]
      BY <1>2, <1>14, <2>3 DEF Truthy, Failed, Error
    <3> QED
      BY <1>14, <2>1, <2>3, <3>1
  <2> QED
    BY <2>2, <2>3
<1>15. CASE node.op = "list"
  <2> DEFINE fails == {i \in DOMAIN v : Failed(v[i])}
             falls == {i \in DOMAIN w : Failed(w[i])}
  <2>1. /\ x = IF fails = {} THEN [t |-> "list", l |-> v] ELSE v[Min(fails)]
        /\ y = IF falls = {} THEN [t |-> "list", l |-> w] ELSE w[Min(falls)]
    BY <1>15 DEF Combine, ARITHMETIC
  <2>2. fails \in SUBSET (1..n) /\ falls \in SUBSET (1..n)
    BY <1>1
  <2>3. \A i \in 1..n : i \in falls => i \in fails
    BY <1>1, <1>2 DEF Failed
  <2>4. \A i \in fails : v[i].t = "unreported" \/ (v[i] = w[i] /\ i \in falls)
    BY <1>1, <1>2 DEF Failed
  <2>5. \A i \in fails : Told(v[i], w[i])
    BY <1>2
  <2>6. fails = {} => \A k \in DOMAIN v : ~Failed(v[k])
    OBVIOUS
  <2> HIDE DEF fails, falls
  <2>7. CASE fails = {}
    <3>1. falls = {}
      BY <2>2, <2>3, <2>7
    <3> QED
      BY <1>15, <2>1, <2>6, <2>7, <3>1
  <2>8. CASE fails # {}
    <3> DEFINE i == Min(fails)
    <3>1. i \in fails /\ \A m \in fails : i <= m
      BY <2>2, <2>8, Least
    <3> HIDE DEF i
    <3>2. CASE v[i].t = "unreported"
      BY <2>1, <2>8, <3>2 DEF i, Told
    <3>3. CASE v[i].t # "unreported"
      <4>1. i \in falls
        BY <2>4, <3>1, <3>3
      <4>2. PICK j : j = Min(falls)
        OBVIOUS
      <4>3. j \in falls /\ j <= i
        BY <2>2, <4>1, <4>2, Least
      <4>4. i <= j /\ i \in Nat /\ j \in Nat
        BY <2>2, <2>3, <3>1, <4>3
      <4>5. i = j
        BY <4>3, <4>4
      <4> QED
        BY <2>1, <2>5, <2>8, <3>1, <4>1, <4>2, <4>5 DEF i
    <3> QED
      BY <3>2, <3>3
  <2> QED
    BY <2>7, <2>8
<1> QED
  BY <1>5, <1>6, <1>7, <1>8, <1>9, <1>10, <1>11, <1>12, <1>13, <1>14, <1>15 DEF OPERATORS

\* The nodes of one expression in two scopes: a list a node makes, what a node is
\* known to come to, and whether two nodes that are known are told apart.
Makes(e, v, w, j) ==
  /\ e[j].op = "list" /\ \A k \in DOMAIN e[j].args : ~Failed(v[e[j].args[k]])
  /\ v[j] = [t |-> "list", l |-> Operands(e[j], v)]
  /\ w[j] = [t |-> "list", l |-> Operands(e[j], w)]
Kin(e, v, w, G, i) ==
  \/ Filled(v[i], w[i], G)
  \/ \E j \in 1..i : Makes(e, v, w, j) /\ v[i] = v[j] /\ w[i] = w[j]
Apart(v, w, i, j) ==
  v[i].t # "unreported" /\ v[j].t # "unreported" => (v[i] = v[j] <=> w[i] = w[j])

\* What is known of a place that was reported.
SameKind(v, w, G, i) ==
  v[i].t # "unreported" => /\ v[i].t = w[i].t
                           /\ v[i].t \notin {"group", "list"} => v[i] = w[i]
                           /\ v[i].t = "group" => <<v[i], w[i]>> \in G

LEMMA KinIsSame ==
  ASSUME NEW e, NEW v, NEW w, NEW G, Paired(G), NEW i, Kin(e, v, w, G, i)
  PROVE  SameKind(v, w, G, i)
<1>1. CASE Told(v[i], w[i])
  BY <1>1 DEF Told, SameKind
<1>2. CASE <<v[i], w[i]>> \in G
  BY <1>2 DEF Paired, SameKind
<1>3. CASE \E j \in 1..i : Makes(e, v, w, j) /\ v[i] = v[j] /\ w[i] = w[j]
  BY <1>3 DEF Makes, SameKind
<1> QED
  BY <1>1, <1>2, <1>3 DEF Kin, Filled

LEMMA KinIsMade ==
  ASSUME NEW e, NEW v, NEW w, NEW G, Paired(G), NEW i, Kin(e, v, w, G, i), v[i].t = "list"
  PROVE  \E j \in 1..i : Makes(e, v, w, j) /\ v[i] = v[j] /\ w[i] = w[j]
<1>1. CASE Told(v[i], w[i])
  BY <1>1 DEF Told
<1>2. CASE <<v[i], w[i]>> \in G
  BY <1>2 DEF Paired
<1> QED
  BY <1>1, <1>2 DEF Kin, Filled

LEMMA OperandsAlike ==
  ASSUME NEW e, Formed(e), Readable(e), NEW v, NEW w, NEW G, Paired(G), NEW i \in 1..Len(e),
         \A j \in 1..(i - 1) : Kin(e, v, w, G, j) /\ \A m \in 1..(i - 1) : Apart(v, w, j, m)
  PROVE  Alike(Operands(e[i], v), Operands(e[i], w), G)
<1> DEFINE node == e[i]
           x == Operands(node, v)
           y == Operands(node, w)
<1>1. Len(e) \in Nat
  BY DEF Formed
<1>2. \A k \in DOMAIN node.args : node.args[k] \in 1..(i - 1)
  BY NodeTakes
<1>3. /\ DOMAIN x = DOMAIN node.args /\ DOMAIN y = DOMAIN node.args
      /\ \A k \in DOMAIN node.args : x[k] = v[node.args[k]] /\ y[k] = w[node.args[k]]
  BY DEF Operands
<1> HIDE DEF x, y
<1>4. ASSUME NEW k \in DOMAIN node.args
      PROVE  Filled(x[k], y[k], G) \/ Listed(x, y, k)
  <2> DEFINE p == node.args[k]
  <2>1. p \in 1..(i - 1) /\ x[k] = v[p] /\ y[k] = w[p]
    BY <1>2, <1>3
  <2>2. Kin(e, v, w, G, p)
    BY <2>1
  <2>3. ASSUME NEW j \in 1..p, Makes(e, v, w, j), v[p] = v[j], w[p] = w[j]
        PROVE  Listed(x, y, k)
    <3> DEFINE args == e[j].args
    <3>1. /\ x[k] = [t |-> "list", l |-> Operands(e[j], v)]
          /\ y[k] = [t |-> "list", l |-> Operands(e[j], w)]
      BY <2>1, <2>3 DEF Makes
    <3>2. /\ DOMAIN x[k].l = DOMAIN args /\ DOMAIN y[k].l = DOMAIN args
          /\ \A q \in DOMAIN args : x[k].l[q] = v[args[q]] /\ y[k].l[q] = w[args[q]]
      BY <3>1 DEF Operands
    <3>3. ASSUME NEW q \in DOMAIN args
          PROVE  /\ v[args[q]].t = w[args[q]].t
                 /\ v[args[q]].t \in {"number", "yesno"} => v[args[q]] = w[args[q]]
                 /\ \A m \in DOMAIN x : x[m].t # "unreported" => (x[m] = v[args[q]] <=> y[m] = w[args[q]])
      <4>1. j \in 1..Len(e) /\ j <= i - 1
        BY <1>1, <2>1
      <4>2. args[q] \in 1..(j - 1)
        BY <4>1, NodeTakes
      <4>3. args[q] \in 1..(i - 1)
        BY <4>1, <4>2
      <4>4. v[args[q]].t # "unreported"
        BY <2>3 DEF Makes, Failed
      <4>5. Kin(e, v, w, G, args[q])
        BY <4>3
      <4>6. \A m \in DOMAIN x : Apart(v, w, node.args[m], args[q])
        BY <1>2, <1>3, <4>3
      <4>7. /\ v[args[q]].t = w[args[q]].t
            /\ v[args[q]].t \in {"number", "yesno"} => v[args[q]] = w[args[q]]
        <5>1. SameKind(v, w, G, args[q])
          BY <4>5, KinIsSame, Zenon
        <5> QED
          BY <4>4, <5>1 DEF SameKind
      <4>8. ASSUME NEW m \in DOMAIN x, x[m].t # "unreported"
            PROVE  x[m] = v[args[q]] <=> y[m] = w[args[q]]
        <5>1. Apart(v, w, node.args[m], args[q]) /\ x[m] = v[node.args[m]] /\ y[m] = w[node.args[m]]
          BY <1>3, <4>6, <4>8
        <5> QED
          BY <4>4, <4>8, <5>1 DEF Apart
      <4> QED
        BY <4>7, <4>8
    <3>4. x[k].t = "list" /\ y[k].t = "list"
      BY <3>1
    <3> HIDE DEF args
    <3> QED
      BY <3>2, <3>3, <3>4 DEF Listed
  <2> QED
    BY <2>1, <2>2, <2>3 DEF Kin
<1>5. ASSUME NEW k \in DOMAIN node.args, NEW m \in DOMAIN node.args,
             x[k].t # "unreported", x[m].t # "unreported"
      PROVE  x[k] = x[m] <=> y[k] = y[m]
  <2>1. Apart(v, w, node.args[k], node.args[m])
    BY <1>2
  <2> QED
    BY <1>3, <1>5, <2>1 DEF Apart
<1>6. Alike(x, y, G)
  BY <1>3, <1>4, <1>5 DEF Alike
<1> QED
  BY <1>6 DEF x, y

LEMMA NodesApart ==
  ASSUME NEW e, Formed(e), Readable(e), NEW v, NEW w, NEW G, Paired(G),
         NEW i \in 1..Len(e), NEW j \in 1..(i - 1), Kin(e, v, w, G, i),
         \A k \in 1..(i - 1) : Kin(e, v, w, G, k) /\ \A m \in 1..(i - 1) : Apart(v, w, k, m)
  PROVE  Apart(v, w, i, j)
<1>1. SUFFICES ASSUME v[i].t # "unreported", v[j].t # "unreported"
               PROVE  v[i] = v[j] <=> w[i] = w[j]
  BY DEF Apart
<1>0. Kin(e, v, w, G, j)
  OBVIOUS
<1>2. /\ v[i].t = w[i].t /\ v[j].t = w[j].t
      /\ v[i].t \notin {"group", "list"} => v[i] = w[i]
      /\ v[j].t \notin {"group", "list"} => v[j] = w[j]
      /\ v[i].t = "group" => <<v[i], w[i]>> \in G
      /\ v[j].t = "group" => <<v[j], w[j]>> \in G
  <2>1. /\ v[i].t = w[i].t
        /\ v[i].t \notin {"group", "list"} => v[i] = w[i]
        /\ v[i].t = "group" => <<v[i], w[i]>> \in G
    <3>1. SameKind(v, w, G, i)
      BY KinIsSame, Zenon
    <3> QED
      BY <1>1, <3>1 DEF SameKind
  <2>2. /\ v[j].t = w[j].t
        /\ v[j].t \notin {"group", "list"} => v[j] = w[j]
        /\ v[j].t = "group" => <<v[j], w[j]>> \in G
    <3>1. SameKind(v, w, G, j)
      BY <1>0, KinIsSame, Zenon
    <3> QED
      BY <1>1, <3>1 DEF SameKind
  <2> QED
    BY <2>1, <2>2
<1>3. CASE v[i].t # v[j].t
  BY <1>2, <1>3
<1>4. CASE v[i].t = v[j].t /\ v[i].t \notin {"group", "list"}
  BY <1>2, <1>4
<1>5. CASE v[i].t = v[j].t /\ v[i].t = "group"
  BY <1>2, <1>5 DEF Paired
<1>6. CASE v[i].t = v[j].t /\ v[i].t = "list"
  <2>1. PICK k \in 1..i : Makes(e, v, w, k) /\ v[i] = v[k] /\ w[i] = w[k]
    <3>1. v[i].t = "list"
      BY <1>6
    <3> QED
      BY <3>1, KinIsMade
  <2>2. PICK m \in 1..j : Makes(e, v, w, m) /\ v[j] = v[m] /\ w[j] = w[m]
    <3>1. v[j].t = "list"
      BY <1>6
    <3> QED
      BY <1>0, <3>1, KinIsMade
  <2> DEFINE one == e[k].args
             two == e[m].args
  <2>3. /\ v[i] = [t |-> "list", l |-> [q \in DOMAIN one |-> v[one[q]]]]
        /\ w[i] = [t |-> "list", l |-> [q \in DOMAIN one |-> w[one[q]]]]
        /\ v[j] = [t |-> "list", l |-> [q \in DOMAIN two |-> v[two[q]]]]
        /\ w[j] = [t |-> "list", l |-> [q \in DOMAIN two |-> w[two[q]]]]
    BY <2>1, <2>2 DEF Makes, Operands
  <2>4. Len(e) \in Nat
    BY DEF Formed
  <2>5. \A q \in DOMAIN one : one[q] \in 1..(i - 1) /\ v[one[q]].t # "unreported"
    <3>1. k \in 1..Len(e) /\ k <= i
      BY <2>4
    <3>2. \A q \in DOMAIN one : one[q] \in 1..(k - 1)
      BY <3>1, NodeTakes
    <3> QED
      BY <2>1, <2>4, <3>1, <3>2 DEF Makes, Failed
  <2>6. \A q \in DOMAIN two : two[q] \in 1..(i - 1) /\ v[two[q]].t # "unreported"
    <3>1. m \in 1..Len(e) /\ m <= i
      BY <2>4
    <3>2. \A q \in DOMAIN two : two[q] \in 1..(m - 1)
      BY <3>1, NodeTakes
    <3> QED
      BY <2>2, <2>4, <3>1, <3>2 DEF Makes, Failed
  <2>7. \A q \in DOMAIN one : q \in DOMAIN two => (v[one[q]] = v[two[q]] <=> w[one[q]] = w[two[q]])
    BY <2>5, <2>6 DEF Apart
  <2> HIDE DEF one, two
  <2>8. v[i] = v[j] <=> /\ DOMAIN one = DOMAIN two
                        /\ \A q \in DOMAIN one : v[one[q]] = v[two[q]]
    BY <2>3
  <2>9. w[i] = w[j] <=> /\ DOMAIN one = DOMAIN two
                        /\ \A q \in DOMAIN one : w[one[q]] = w[two[q]]
    BY <2>3
  <2> QED
    BY <2>7, <2>8, <2>9
<1> QED
  BY <1>3, <1>4, <1>5, <1>6

\* What an expression comes to is not changed by what was not said, or nobody can
\* tell: a fact that is reported later decides nothing that was decided without it.
LEMMA EvaluateFills ==
  ASSUME NEW e, Formed(e), Readable(e), NEW a, NEW b, NEW G, Fills(a, b, G)
  PROVE  Told(Truth(e, a), Truth(e, b))
<1> DEFINE v == Values(e, a)
           w == Values(e, b)
           S == {i \in 1..Len(e) : Kin(e, v, w, G, i) /\ \A j \in 1..i : Apart(v, w, i, j)}
<1>1. Len(e) \in Nat /\ DOMAIN e = 1..Len(e) /\ Len(e) > 0 /\ Paired(G)
  BY DEF Formed, Fills
<1>2. ASSUME NEW i \in 1..Len(e), \A j \in 1..(i - 1) : j \in S
      PROVE  i \in S
  <2> HIDE DEF v, w
  <2>1. \A j \in 1..(i - 1) : Kin(e, v, w, G, j) /\ \A m \in 1..(i - 1) : Apart(v, w, j, m)
    <3>1. SUFFICES ASSUME NEW j \in 1..(i - 1), NEW m \in 1..(i - 1)
                   PROVE  Kin(e, v, w, G, j) /\ Apart(v, w, j, m)
      OBVIOUS
    <3>2. Kin(e, v, w, G, j)
      BY <1>2
    <3>3. CASE m <= j
      BY <1>2, <3>3
    <3>4. CASE j <= m
      <4>1. Apart(v, w, m, j)
        BY <1>2, <3>4
      <4>2. (v[m] = v[j] <=> w[m] = w[j]) => (v[j] = v[m] <=> w[j] = w[m])
        OBVIOUS
      <4>3. Apart(v, w, j, m)
        BY <4>1, <4>2, Zenon DEF Apart
      <4> QED
        BY <3>2, <4>3
    <3> QED
      BY <1>1, <3>2, <3>3, <3>4
  <2> DEFINE node == e[i]
             n == Len(node.args)
             x == Operands(node, v)
             y == Operands(node, w)
  <2>2. n \in Nat /\ DOMAIN node.args = 1..n /\ Taking(node, n)
        /\ \A k \in 1..n : node.args[k] \in 1..(i - 1)
    BY NodeTakes
  <2>3. Alike(x, y, G)
    BY <1>1, <2>1, OperandsAlike
  <2>4. DOMAIN x = 1..n /\ DOMAIN y = 1..n
        /\ \A k \in 1..n : x[k] = v[node.args[k]] /\ y[k] = w[node.args[k]]
    BY <2>2 DEF Operands
  <2>5. v[i] = Combine(node, x, a) /\ w[i] = Combine(node, y, b)
    BY NodeComesTo DEF v, w
  <2> HIDE DEF x, y, n, node
  <2>6. Kept(node, x, y, v[i], w[i], G)
    BY <2>2, <2>3, <2>4, <2>5, CombineFills
  <2>7. Kin(e, v, w, G, i)
    <3>1. CASE Filled(v[i], w[i], G)
      BY <3>1 DEF Kin
    <3>2. ASSUME NEW k \in DOMAIN x, v[i] = x[k], w[i] = y[k]
          PROVE  Kin(e, v, w, G, i)
      <4>1. node.args[k] \in 1..(i - 1) /\ v[i] = v[node.args[k]] /\ w[i] = w[node.args[k]]
        BY <2>2, <2>4, <3>2
      <4>2. Kin(e, v, w, G, node.args[k])
        BY <2>1, <4>1
      <4> QED
        BY <1>1, <4>1, <4>2 DEF Kin
    <3>3. CASE /\ node.op = "list" /\ \A k \in DOMAIN x : ~Failed(x[k])
               /\ v[i] = [t |-> "list", l |-> x] /\ w[i] = [t |-> "list", l |-> y]
      <4>1. Makes(e, v, w, i)
        BY <2>2, <2>4, <3>3 DEF Makes, node, x, y
      <4> QED
        BY <1>1, <4>1 DEF Kin
    <3> QED
      BY <2>6, <3>1, <3>2, <3>3 DEF Kept
  <2>8. \A j \in 1..i : Apart(v, w, i, j)
    <3>1. \A j \in 1..(i - 1) : Apart(v, w, i, j)
      BY <1>1, <2>1, <2>7, NodesApart
    <3>2. Apart(v, w, i, i)
      BY DEF Apart
    <3> QED
      BY <1>1, <3>1, <3>2
  <2> QED
    BY <2>7, <2>8
<1>3. 1..Len(e) \subseteq S
  <2> HIDE DEF S
  <2> QED
    BY <1>1, <1>2, NodeByNode
<1>4. Kin(e, v, w, G, Len(e))
  BY <1>1, <1>3
<1> HIDE DEF v, w
<1>5. Filled(v[Len(e)], w[Len(e)], G) \/ (v[Len(e)].t = "list" /\ w[Len(e)].t = "list")
  <2>1. ASSUME NEW j, Makes(e, v, w, j) PROVE v[j].t = "list" /\ w[j].t = "list"
    BY <2>1 DEF Makes
  <2> QED
    BY <1>4, <2>1 DEF Kin
<1>6. Truth(e, a) = Truthy(v[Len(e)]) /\ Truth(e, b) = Truthy(w[Len(e)])
  BY DEF Truth, Evaluate, v, w
<1> QED
  BY <1>1, <1>5, <1>6, TruthyTold

-----------------------------------------------------------------------------
(* Scopes of which one says more.                                          *)

Plainly(x) == x.t \notin {"group", "list"}
Spoken(x, y) == Told(x, y) /\ Plainly(x) /\ Plainly(y)

\* The groups p and q of two scopes go by pairs, and some are the same in both.  A
\* pair has a member no other pair has, and none of it is one of the same groups.
Grown(N, sign, p, q, same, n) ==
  /\ p[n].t = "group" /\ q[n].t = "group" /\ DOMAIN p[n].g = DOMAIN q[n].g
  /\ \A m \in N : sign[m] \in DOMAIN p[n].g <=> m = n
  /\ \A k \in DOMAIN p[n].g :
       \/ Told(p[n].g[k], q[n].g[k])
       \/ p[n].g[k] = q[n].g[k] /\ p[n].g[k] \in same
       \/ \E m \in N : p[n].g[k] = p[m] /\ q[n].g[k] = q[m]
Held(N, p, q, same, x) ==
  /\ x.t = "group" /\ \A n \in N : p[n] # x /\ q[n] # x
  /\ \A k \in DOMAIN x.g : Plainly(x.g[k]) \/ x.g[k] \in same
Pairs(N, p, q, same) == {<<p[n], q[n]>> : n \in N} \cup {<<x, x>> : x \in same}

\* So no group is told from another in one scope and not in the other.
LEMMA GroupsPaired ==
  ASSUME NEW N, NEW sign, NEW p, NEW q, NEW same,
         \A n \in N : Grown(N, sign, p, q, same, n), \A x \in same : Held(N, p, q, same, x)
  PROVE  Paired(Pairs(N, p, q, same))
<1> USE DEF Grown, Held
<1> DEFINE G == Pairs(N, p, q, same)
<1>1. ASSUME NEW x, NEW y
      PROVE  <<x, y>> \in G <=> \/ \E n \in N : x = p[n] /\ y = q[n]
                                \/ x \in same /\ x = y
  BY DEF Pairs
<1> HIDE DEF G
<1>2. ASSUME NEW x, NEW y, <<x, y>> \in G
      PROVE  /\ x.t = "group" /\ y.t = "group" /\ DOMAIN x.g = DOMAIN y.g
             /\ \A k \in DOMAIN x.g : Filled(x.g[k], y.g[k], G)
  <2>1. CASE \E n \in N : x = p[n] /\ y = q[n]
    <3>1. PICK n \in N : x = p[n] /\ y = q[n]
      BY <2>1
    <3>2. ASSUME NEW k \in DOMAIN x.g PROVE Filled(x.g[k], y.g[k], G)
      <4>1. CASE Told(x.g[k], y.g[k])
        BY <4>1 DEF Filled
      <4>3. CASE x.g[k] = y.g[k] /\ x.g[k] \in same
        <5>1. <<x.g[k], y.g[k]>> \in G
          BY <1>1, <4>3
        <5> QED
          BY <5>1 DEF Filled
      <4>2. CASE \E m \in N : x.g[k] = p[m] /\ y.g[k] = q[m]
        <5>1. <<x.g[k], y.g[k]>> \in G
          BY <1>1, <4>2
        <5> QED
          BY <5>1 DEF Filled
      <4> QED
        BY <3>1, <4>1, <4>2, <4>3
    <3> QED
      BY <3>1, <3>2
  <2>2. CASE x \in same /\ x = y
    <3>1. ASSUME NEW k \in DOMAIN x.g PROVE Filled(x.g[k], x.g[k], G)
      <4>1. Plainly(x.g[k]) => Told(x.g[k], x.g[k])
        BY DEF Plainly, Told
      <4>2. x.g[k] \in same => <<x.g[k], x.g[k]>> \in G
        BY <1>1
      <4> QED
        BY <2>2, <4>1, <4>2 DEF Filled
    <3> QED
      BY <2>2, <3>1
  <2> QED
    BY <1>1, <1>2, <2>1, <2>2
<1>3. ASSUME NEW n \in N, NEW x \in same PROVE p[n] # x /\ q[n] # x
  OBVIOUS
<1>4. ASSUME NEW n \in N, NEW m \in N PROVE p[n] = p[m] <=> q[n] = q[m]
  <2>1. /\ sign[n] \in DOMAIN p[n].g /\ DOMAIN p[n].g = DOMAIN q[n].g
        /\ sign[n] \in DOMAIN p[m].g <=> n = m
        /\ DOMAIN p[m].g = DOMAIN q[m].g
    OBVIOUS
  <2> QED
    BY <2>1
<1>5. ASSUME NEW x, NEW y, NEW z, NEW w, <<x, y>> \in G, <<z, w>> \in G
      PROVE  x = z <=> y = w
  <2>1. \/ \E n \in N : x = p[n] /\ y = q[n]
        \/ x \in same /\ x = y
    BY <1>1, <1>5
  <2>2. \/ \E n \in N : z = p[n] /\ w = q[n]
        \/ z \in same /\ z = w
    BY <1>1, <1>5
  <2> QED
    BY <1>3, <1>4, <2>1, <2>2
<1>6. Paired(G)
  BY <1>2, <1>5 DEF Paired
<1> QED
  BY <1>6 DEF G
=============================================================================
