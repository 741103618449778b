---------------------------- MODULE SizingProofs ----------------------------
(***************************************************************************)
(* What Sizing promises, whatever the rules, the formulas and the hosts.   *)
(*                                                                         *)
(* Each promise follows from an invariant of its own kind: what has been   *)
(* placed (Placed), what has been walked (Walked), and what has been       *)
(* computed (Computed).  The last two rest on the first, and all three on  *)
(* the types.                                                              *)
(***************************************************************************)
EXTENDS Sizing, SequenceTheorems, FiniteSetTheorems, TLAPS

\* A process that has been asked for nothing has nothing; one that has been
\* asked evaluates rules it was given.
Known ==
  \/ phase = "waiting" /\ rules = Idle /\ ordered = <<>> /\ ready = {} /\ walk = <<>> /\ next = 1
  \/ phase # "waiting" /\ WellFormed(rules)

\* A step of an evaluation, whoever asks for it and of which host: the step of a
\* process that has a sizing section to read, or nothing to do with it.
Evaluation ==
  \/ \E rs, scope : WellFormed(rs) /\ Start(rs, scope)
  \/ Compute \/ Afresh \/ UNCHANGED vars

\* No rule is evaluated before the order is known.
Unstarted == phase \in {"waiting", "read", "order", "stuck"} => next = 1

Typed == TypeOK /\ Known

\* The order so far: each parameter once, after everything it needs; those of
\* this round need only what is in it; and no trap has a parameter in it.
Placed ==
  /\ \A i, j \in 1..Len(ordered) : ordered[i] = ordered[j] => i = j
  /\ \A i \in 1..Len(ordered) : \A q \in Needs(ordered[i]) :
       \E j \in 1..Len(ordered) : j < i /\ ordered[j] = q
  /\ \A p \in ready : p \notin Settled /\ Needs(p) \subseteq Settled
  /\ \A S \in SUBSET Params : Trapped(S) => S \cap Settled = {}
  /\ phase \in {"size", "done"} => Remaining = {}

\* The walk so far: each parameter once, needed by the one before it.
Walked ==
  /\ \A i, j \in 1..Len(walk) : walk[i] = walk[j] => i = j
  /\ \A i \in 1..Len(walk) : i < Len(walk) => walk[i + 1] \in Needs(walk[i])

\* The values so far: those of the places before the next one, and the rules
\* read them as they are.
Computed ==
  /\ Unstarted
  /\ \A p \in Params : sized[p] # Unsized =>
       \E i \in 1..Len(ordered) : i < next /\ ordered[i] = p
  /\ \A i \in 1..Len(ordered) : i < next =>
       /\ sized[ordered[i]] # Unsized
       /\ ordered[i] \in DOMAIN working /\ working[ordered[i]] = sized[ordered[i]].value

-----------------------------------------------------------------------------
(* Types.                                                                  *)

LEMMA DefectIsNamed ==
  ASSUME NEW rule, NEW raw, Defect(rule, raw) # "none"
  PROVE  Defect(rule, raw) \in {"rule", "unreported", "traceback"}
BY DEF Defect, Amiss

LEMMA NextEvaluates == [Next]_vars => Evaluation
BY RuleSetsAssumption DEF Next, Evaluation

LEMMA TypedInit == Init => Typed
BY DEF Init, Typed, TypeOK, Known, Params, Idle

LEMMA TypedNext == Typed /\ Evaluation => Typed'
<1> SUFFICES ASSUME Typed, Evaluation PROVE Typed'
  OBVIOUS
<1> USE DEF Typed
<1>1. ASSUME NEW rs, NEW scope, WellFormed(rs), Start(rs, scope) PROVE Typed'
  BY <1>1 DEF Start, TypeOK, Known, Params
<1>2. CASE Read
  BY <1>2 DEF Read, TypeOK, Known, Params
<1>3. CASE Round
  BY <1>3 DEF Round, TypeOK, Known, Params, Remaining
<1>4. CASE Place
  <2>1. PICK p \in ready : ordered' = Append(ordered, p) /\ ready' = ready \ {p}
    BY <1>4 DEF Place
  <2>2. ordered' \in Seq(Params) /\ Len(ordered') = Len(ordered) + 1
    BY <2>1 DEF TypeOK
  <2> QED BY <1>4, <2>1, <2>2 DEF Place, TypeOK, Known, Params
<1>5. CASE Stuck
  <2>1. PICK p \in Remaining : walk' = <<p>>
    BY <1>5 DEF Stuck
  <2>2. walk' \in Seq(Params)
    BY <2>1 DEF Remaining
  <2> QED BY <1>5, <2>2 DEF Stuck, TypeOK, Known, Params
<1>6. CASE Follow
  <2> DEFINE waiting == Needs(walk[Len(walk)]) \cap Remaining
  <2>1. PICK q \in waiting :
          \/ walk' = Append(walk, q) /\ UNCHANGED <<phase, fault>>
          \/ \E i \in 1..Len(walk) : /\ walk' = SubSeq(walk, i, Len(walk))
                                     /\ phase' = "failed" /\ fault' = "cycle"
    BY <1>6 DEF Follow
  <2>2. q \in Params
    BY DEF Remaining
  <2>3. ASSUME NEW i \in 1..Len(walk) PROVE SubSeq(walk, i, Len(walk)) \in Seq(Params)
    BY DEF TypeOK
  <2>4. Append(walk, q) \in Seq(Params)
    BY <2>2 DEF TypeOK
  <2>5. walk' \in Seq(Params)
    BY <2>1, <2>3, <2>4
  <2> QED BY <1>6, <2>1, <2>5 DEF Follow, TypeOK, Known, Params
<1>7. CASE Ordered
  BY <1>7 DEF Ordered, TypeOK, Known, Params
<1>8. CASE Size
  <2> DEFINE p == ordered[next]
             raw == Formula(rules[p].expr, working)
             defect == Defect(rules[p], raw)
  <2>1. CASE /\ defect # "none" /\ phase' = "failed" /\ fault' = defect
             /\ UNCHANGED <<next, working, sized, saw>>
    <3>1. defect \in {"rule", "unreported", "traceback"}
      BY <2>1, DefectIsNamed
    <3> QED BY <1>8, <2>1, <3>1 DEF Size, TypeOK, Known, Params
  <2>2. CASE /\ sized' = [sized EXCEPT ![p] = Came(rules[p], raw)]
             /\ saw' = [saw EXCEPT ![p] = working]
             /\ next' = next + 1 /\ UNCHANGED <<phase, fault>>
    BY <1>8, <2>2 DEF Size, TypeOK, Known, Params
  <2> QED BY <1>8, <2>1, <2>2, Zenon DEF Size
<1>9. CASE Done
  BY <1>9 DEF Done, TypeOK, Known, Params
<1>10. CASE UNCHANGED vars
  BY <1>10 DEF vars, TypeOK, Known, Params
<1>11. CASE Afresh
  BY <1>11 DEF Afresh, Typed, TypeOK, Known, Params, Idle
<1> QED BY <1>1, <1>2, <1>3, <1>4, <1>5, <1>6, <1>7, <1>8, <1>9, <1>10, <1>11 DEF Evaluation, Compute

LEMMA TypedAlways == Spec => []Typed
BY TypedInit, TypedNext, NextEvaluates, PTL DEF Spec

\* The state of an evaluation is what the module says it is, whatever the rules
\* and formulas are: evaluate() and everything it calls.
THEOREM TypeCorrect == Spec => []TypeOK
<1>1. Typed => TypeOK
  BY DEF Typed
<1> QED BY <1>1, TypedAlways, PTL

-----------------------------------------------------------------------------
(* The order.                                                              *)

\* Placing a rule that needs only what is placed keeps a good order good.
LEMMA PlaceOne ==
  ASSUME Typed, Placed, phase = "order", NEW p \in ready,
         ordered' = Append(ordered, p), ready' = ready \ {p},
         UNCHANGED <<rules, phase>>
  PROVE  Placed'
<1> USE DEF Typed
<1>1. ordered \in Seq(Params) /\ p \in Params
  BY DEF TypeOK
<1>2. /\ Len(ordered') = Len(ordered) + 1
      /\ \A i \in 1..Len(ordered) : ordered'[i] = ordered[i]
      /\ ordered'[Len(ordered) + 1] = p
  BY <1>1
<1>3. Params' = Params /\ \A x : Needs(x)' = Needs(x)
  BY DEF Params, Needs
<1>4. Settled' = Settled \cup {p}
  BY <1>1, <1>2 DEF Settled
<1>5. p \notin Settled /\ Needs(p) \subseteq Settled
  BY DEF Placed
<1>6. \A i, j \in 1..Len(ordered') : ordered'[i] = ordered'[j] => i = j
  <2>1. \A i \in 1..Len(ordered) : ordered[i] # p
    BY <1>5 DEF Settled
  <2> QED BY <1>1, <1>2, <2>1 DEF Placed
<1>7. \A i \in 1..Len(ordered') : \A q \in Needs(ordered[i])' :
        \E j \in 1..Len(ordered') : j < i /\ ordered'[j] = q
  <2> SUFFICES ASSUME NEW i \in 1..Len(ordered'), NEW q \in Needs(ordered'[i])
               PROVE  \E j \in 1..Len(ordered') : j < i /\ ordered'[j] = q
    BY DEF Needs, Params
  <2>1. CASE i \in 1..Len(ordered)
    <3>1. PICK j \in 1..Len(ordered) : j < i /\ ordered[j] = q
      BY <1>2, <2>1 DEF Placed
    <3> QED BY <1>2, <3>1
  <2>2. CASE i = Len(ordered) + 1
    <3>1. q \in Settled
      BY <1>2, <1>5, <2>2
    <3>2. PICK j \in 1..Len(ordered) : ordered[j] = q
      BY <3>1 DEF Settled
    <3> QED BY <1>1, <1>2, <2>2, <3>2
  <2> QED BY <1>1, <1>2, <2>1, <2>2
<1>8. \A x \in ready' : x \notin Settled' /\ Needs(x)' \subseteq Settled'
  BY <1>3, <1>4 DEF Placed
<1>9. \A S \in SUBSET Params' : Trapped(S)' => S \cap Settled' = {}
  <2> SUFFICES ASSUME NEW S \in SUBSET Params, Trapped(S) PROVE S \cap Settled' = {}
    BY <1>3 DEF Trapped
  <2>1. S \cap Settled = {}
    BY DEF Placed
  <2>2. p \notin S
    BY <1>5, <2>1 DEF Trapped
  <2> QED BY <1>4, <2>1, <2>2
<1> QED BY <1>6, <1>7, <1>8, <1>9 DEF Placed

LEMMA PlacedInit == Init => Placed
BY DEF Init, Placed, Settled, Trapped, Params, Idle, Needs

LEMMA PlacedKept ==
  ASSUME Placed, UNCHANGED <<rules, ordered>>, ready' = ready,
         phase' \in {"size", "done"} => phase \in {"size", "done"} \/ Remaining = {}
  PROVE  Placed'
<1>1. Params' = Params /\ Settled' = Settled /\ Remaining' = Remaining
  BY DEF Params, Settled, Remaining
<1>2. \A x : Needs(x)' = Needs(x)
  BY <1>1 DEF Needs
<1>3. \A S : Trapped(S)' = Trapped(S)
  BY <1>2 DEF Trapped
<1> QED BY <1>1, <1>2, <1>3 DEF Placed

LEMMA PlacedNext == Typed /\ Placed /\ Evaluation => Placed'
<1> SUFFICES ASSUME Typed, Placed, Evaluation PROVE Placed'
  OBVIOUS
<1>1. ASSUME NEW rs, NEW scope, WellFormed(rs), Start(rs, scope) PROVE Placed'
  <2>1. ordered' = <<>> /\ ready' = {} /\ phase' = "read"
    BY <1>1 DEF Start, Typed, Known
  <2>2. Settled' = {}
    BY <2>1 DEF Settled
  <2> QED BY <2>1, <2>2 DEF Placed
<1>2. CASE Read
  BY <1>2, PlacedKept DEF Read
<1>3. CASE Round
  <2>1. Params' = Params /\ Settled' = Settled /\ \A x : Needs(x)' = Needs(x)
    BY <1>3 DEF Round, Params, Settled, Needs
  <2>2. \A S : Trapped(S)' = Trapped(S)
    BY <2>1 DEF Trapped
  <2>3. \A x \in ready' : x \notin Settled /\ Needs(x) \subseteq Settled
    BY <1>3 DEF Round, Remaining
  <2>4. phase' \notin {"size", "done"}
    BY <1>3 DEF Round
  <2> QED BY <1>3, <2>1, <2>2, <2>3, <2>4 DEF Round, Placed
<1>4. CASE Place
  <2>1. PICK p \in ready : ordered' = Append(ordered, p) /\ ready' = ready \ {p}
    BY <1>4 DEF Place
  <2> QED BY <1>4, <2>1, PlaceOne DEF Place
<1>5. CASE Stuck
  BY <1>5, PlacedKept DEF Stuck
<1>6. CASE Follow
  <2>1. phase' \notin {"size", "done"}
    BY <1>6 DEF Follow
  <2> QED BY <1>6, <2>1, PlacedKept DEF Follow
<1>7. CASE Ordered
  BY <1>7, PlacedKept DEF Ordered
<1>8. CASE Size
  BY <1>8, PlacedKept DEF Size
<1>9. CASE Done
  BY <1>9, PlacedKept DEF Done
<1>10. CASE UNCHANGED vars
  BY <1>10, PlacedKept DEF vars
<1>11. CASE Afresh
  BY <1>11 DEF Afresh, Placed, Settled, Trapped, Params, Idle, Needs
<1> QED BY <1>1, <1>2, <1>3, <1>4, <1>5, <1>6, <1>7, <1>8, <1>9, <1>10, <1>11 DEF Evaluation, Compute

LEMMA PlacedAlways == Spec => []Placed
BY TypedAlways, PlacedInit, PlacedNext, NextEvaluates, PTL DEF Spec

-----------------------------------------------------------------------------
(* The ring.                                                               *)

Ringed == Walked /\ RingIsReal

LEMMA RingedInit == Init => Ringed
BY DEF Init, Ringed, Walked, RingIsReal

LEMMA RingedKept ==
  ASSUME Ringed, UNCHANGED <<rules, walk>>, fault' = "cycle" => fault = "cycle"
  PROVE  Ringed'
<1>1. \A x : Needs(x)' = Needs(x)
  BY DEF Needs, Params
<1> QED BY <1>1 DEF Ringed, Walked, RingIsReal

LEMMA RingedNext == Typed /\ Ringed /\ Evaluation => Ringed'
<1> SUFFICES ASSUME Typed, Ringed, Evaluation PROVE Ringed'
  OBVIOUS
<1>1. ASSUME NEW rs, NEW scope, WellFormed(rs), Start(rs, scope) PROVE Ringed'
  <2>1. walk' = <<>> /\ fault' # "cycle"
    BY <1>1 DEF Start, Typed, TypeOK, Known
  <2> QED BY <2>1 DEF Ringed, Walked, RingIsReal
<1>2. CASE Read
  BY <1>2, RingedKept DEF Read
<1>3. CASE Round
  BY <1>3, RingedKept DEF Round
<1>4. CASE Place
  BY <1>4, RingedKept DEF Place
<1>5. CASE Stuck
  <2>1. PICK p \in Remaining : walk' = <<p>>
    BY <1>5 DEF Stuck
  <2>2. fault' # "cycle"
    BY <1>5 DEF Stuck, Typed, TypeOK
  <2> QED BY <2>1, <2>2 DEF Ringed, Walked, RingIsReal
<1>6. CASE Follow
  <2>1. PICK q \in Needs(walk[Len(walk)]) :
          \/ /\ \A i \in 1..Len(walk) : walk[i] # q
             /\ walk' = Append(walk, q) /\ UNCHANGED <<phase, fault>>
          \/ \E i \in 1..Len(walk) : walk[i] = q /\ walk' = SubSeq(walk, i, Len(walk))
    BY <1>6 DEF Follow
  <2>2. \A x : Needs(x)' = Needs(x)
    BY <1>6 DEF Follow, Needs, Params
  <2>3. walk \in Seq(Params) /\ walk # <<>> /\ fault # "cycle" /\ q \in Params
    BY <1>6 DEF Follow, Typed, TypeOK, Needs
  <2>4. CASE /\ \A i \in 1..Len(walk) : walk[i] # q
             /\ walk' = Append(walk, q) /\ UNCHANGED <<phase, fault>>
    <3>1. /\ Len(walk') = Len(walk) + 1 /\ walk'[Len(walk) + 1] = q
          /\ \A i \in 1..Len(walk) : walk'[i] = walk[i]
      BY <2>3, <2>4
    <3>2. Walked'
      BY <2>1, <2>2, <2>3, <2>4, <3>1 DEF Ringed, Walked
    <3> QED BY <2>3, <2>4, <3>2 DEF Ringed, RingIsReal
  <2>5. ASSUME NEW i \in 1..Len(walk), walk[i] = q, walk' = SubSeq(walk, i, Len(walk))
        PROVE  Ringed'
    <3> DEFINE n == Len(walk) - i + 1
    <3>1. i \in Int /\ Len(walk) \in Int /\ n \in 1..Len(walk)
      BY <2>3
    <3>2. Len(walk') = n /\ \A k \in 1..n : walk'[k] = walk[i + k - 1]
      BY <2>3, <2>5, <3>1, SubSeqProperties
    <3>3. \A k \in 1..n : i + k - 1 \in 1..Len(walk)
      BY <3>1
    <3>4. \A k, l \in 1..n : walk'[k] = walk'[l] => k = l
      BY <3>1, <3>2, <3>3 DEF Ringed, Walked
    <3>5. \A k \in 1..n : k < n => walk'[k + 1] \in Needs(walk'[k])
      <4> SUFFICES ASSUME NEW k \in 1..n, k < n PROVE walk'[k + 1] \in Needs(walk'[k])
        OBVIOUS
      <4>1. k + 1 \in 1..n /\ i + k - 1 < Len(walk)
        BY <3>1
      <4>2. walk'[k] = walk[i + k - 1] /\ walk'[k + 1] = walk[(i + k - 1) + 1]
        BY <3>1, <3>2, <4>1
      <4>3. walk[(i + k - 1) + 1] \in Needs(walk[i + k - 1])
        BY <3>3, <4>1 DEF Ringed, Walked
      <4> QED BY <4>2, <4>3
    <3>6. walk'[1] \in Needs(walk'[n])
      <4>1. walk'[1] = q /\ walk'[n] = walk[Len(walk)]
        BY <2>5, <3>1, <3>2
      <4> QED BY <4>1
    <3> QED BY <2>2, <3>1, <3>2, <3>4, <3>5, <3>6 DEF Ringed, Walked, RingIsReal
  <2> QED BY <2>1, <2>4, <2>5
<1>7. CASE Ordered
  BY <1>7, RingedKept DEF Ordered
<1>8. CASE Size
  <2>1. fault' = "cycle" => fault = "cycle"
    BY <1>8, DefectIsNamed DEF Size
  <2> QED BY <1>8, <2>1, RingedKept DEF Size
<1>9. CASE Done
  BY <1>9, RingedKept DEF Done
<1>10. CASE UNCHANGED vars
  BY <1>10, RingedKept DEF vars
<1>11. CASE Afresh
  BY <1>11 DEF Afresh, Ringed, Walked, RingIsReal
<1> QED BY <1>1, <1>2, <1>3, <1>4, <1>5, <1>6, <1>7, <1>8, <1>9, <1>10, <1>11 DEF Evaluation, Compute

LEMMA RingedAlways == Spec => []Ringed
BY TypedAlways, RingedInit, RingedNext, NextEvaluates, PTL DEF Spec

\* Whatever the rules read, a ring that is named in a refusal is one: _cycle.
THEOREM RingsAreReal == Spec => []RingIsReal
<1>1. Ringed => RingIsReal
  BY DEF Ringed
<1> QED BY <1>1, RingedAlways, PTL

LEMMA PlacedOrders == Typed /\ Placed /\ RingIsReal => OrderIfAny
<1> SUFFICES ASSUME Typed, Placed, RingIsReal PROVE OrderIfAny
  OBVIOUS
<1>1. ASSUME phase \in {"size", "done"}, NEW S \in SUBSET Params PROVE ~Trapped(S)
  <2>1. Params \subseteq Settled
    BY <1>1 DEF Placed, Remaining
  <2> QED BY <2>1 DEF Placed, Trapped
<1>2. ASSUME fault = "cycle" PROVE \E S \in SUBSET Params : Trapped(S)
  <2> DEFINE S == {walk[i] : i \in 1..Len(walk)}
  <2>1. walk \in Seq(Params) /\ walk # <<>> /\ Len(walk) \in Nat
    BY <1>2 DEF Typed, TypeOK, RingIsReal
  <2>2. S \in SUBSET Params /\ S # {}
    <3>1. 1 \in 1..Len(walk)
      BY <2>1
    <3> QED BY <2>1, <3>1
  <2>3. ASSUME NEW i \in 1..Len(walk) PROVE Needs(walk[i]) \cap S # {}
    <3>1. (IF i = Len(walk) THEN 1 ELSE i + 1) \in 1..Len(walk)
      BY <2>1
    <3>2. walk[IF i = Len(walk) THEN 1 ELSE i + 1] \in Needs(walk[i])
      BY <1>2 DEF RingIsReal
    <3> QED BY <3>1, <3>2
  <2>4. \A p \in S : Needs(p) \cap S # {}
    <3> SUFFICES ASSUME NEW p \in S PROVE Needs(p) \cap S # {}
      OBVIOUS
    <3>1. PICK i \in 1..Len(walk) : p = walk[i]
      OBVIOUS
    <3> QED BY <2>3, <3>1
  <2> HIDE DEF S
  <2> QED BY <2>2, <2>4 DEF Trapped
<1> QED BY <1>1, <1>2 DEF OrderIfAny

\* Whatever the rules read, they are ordered when they can be and refused as a
\* ring only when they cannot: evaluation_order().
THEOREM OrdersAreFound == Spec => []OrderIfAny
BY PlacedOrders, TypedAlways, PlacedAlways, RingsAreReal, PTL

-----------------------------------------------------------------------------
(* The values.                                                             *)

\* A number of halves that is a whole number.
Even(x) == x % 2 = 0

LEMMA TruncatedIsWhole ==
  ASSUME NEW x \in Int PROVE Truncated(x) \in Int /\ Even(Truncated(x))
BY DEF Truncated, Even

LEMMA TruncatedKeepsOrder ==
  ASSUME NEW x \in Int, NEW y \in Int, x <= y PROVE Truncated(x) <= Truncated(y)
BY DEF Truncated

\* A whole number that reaches a bound reaches the whole part of the bound.
LEMMA WholeReaches ==
  ASSUME NEW x \in Int, NEW y \in Int, Even(x)
  PROVE  (y <= x => Truncated(y) <= x) /\ (x <= y => x <= Truncated(y))
BY DEF Truncated, Even

LEMMA MultiplesAreWhole ==
  ASSUME NEW t \in Int, NEW s \in Int, Even(t), Even(s), s > 0
  PROVE  t - (t % s) \in Int /\ Even(t - (t % s))
<1> DEFINE k == s \div 2
           q == t \div s
<1>1. k \in Int /\ s = 2 * k
  BY DEF Even
<1>2. q \in Int /\ t % s \in Int /\ t = s * q + (t % s)
  OBVIOUS
<1>3. k * q \in Int
  BY <1>1, <1>2
<1>4. s * q = 2 * (k * q)
  BY <1>1, <1>2
<1>5. t - (t % s) = 2 * (k * q)
  BY <1>2, <1>4
<1> HIDE DEF k, q
<1> QED BY <1>3, <1>5 DEF Even

LEMMA RuleNumbers ==
  ASSUME NEW rs, WellFormed(rs), NEW p \in DOMAIN rs
  PROVE  /\ Floor(rs[p]) \in Int /\ Ceiling(rs[p]) \in Int
         /\ Quantity(rs[p], rs[p].round_to) \in Int
<1>1. \A b \in {rs[p].minimum, rs[p].maximum, rs[p].round_to, rs[p].warn_above} : b.v \in Int
  BY DEF WellFormed
<1> QED BY <1>1 DEF Floor, Ceiling, Quantity

\* Rounding gives a number, and a whole one where the unit counts whole things.
LEMMA RoundingIsWhole ==
  ASSUME NEW rs, WellFormed(rs), NEW p \in DOMAIN rs, NEW x \in Int, Roundable(rs[p])
  PROVE  /\ Rounded(rs[p], x) \in Int
         /\ rs[p].unit \in WHOLE => Even(Rounded(rs[p], x))
<1>1. CASE Given(rs[p].round_to)
  <2>1. Step(rs[p]) \in Int /\ Even(Step(rs[p])) /\ Step(rs[p]) > 0
    BY <1>1, RuleNumbers, TruncatedIsWhole DEF Roundable, Step
  <2>2. Truncated(x) \in Int /\ Even(Truncated(x))
    BY TruncatedIsWhole
  <2> QED BY <1>1, <2>1, <2>2, MultiplesAreWhole DEF Rounded
<1>2. CASE ~Given(rs[p].round_to)
  BY <1>2, TruncatedIsWhole DEF Rounded, Whole
<1> QED BY <1>1, <1>2

\* A number a rule is given lies between the whole parts of its bounds.
LEMMA HeldToBounds ==
  ASSUME NEW rs, WellFormed(rs), NEW p \in DOMAIN rs, NEW x \in Int,
         Roundable(rs[p]), Boundable(rs[p])
  PROVE  LET held == Bounded(rs[p], Rounded(rs[p], x)).value
         IN  /\ Given(rs[p].minimum) => held >= Whole(rs[p], Floor(rs[p]))
             /\ Given(rs[p].maximum) => held <= Whole(rs[p], Ceiling(rs[p]))
<1> DEFINE rule == rs[p]
           y == Rounded(rule, x)
           low == Floor(rule)
           high == Ceiling(rule)
<1>1. y \in Int /\ (rule.unit \in WHOLE => Even(y))
  BY RoundingIsWhole
<1>2. low \in Int /\ high \in Int
  BY RuleNumbers
<1>3. /\ low <= high => Whole(rule, low) <= Whole(rule, high)
      /\ Whole(rule, low) \in Int /\ Whole(rule, high) \in Int
  BY <1>2, TruncatedKeepsOrder, TruncatedIsWhole DEF Whole
<1>4. (low <= y => Whole(rule, low) <= y) /\ (y <= high => y <= Whole(rule, high))
  BY <1>1, <1>2, WholeReaches DEF Whole
<1>5. Given(rule.minimum) /\ Given(rule.maximum) => low <= high
  BY DEF Boundable
<1> HIDE DEF y, low, high
<1>6. /\ Given(rule.minimum) => Bounded(rule, y).value >= Whole(rule, low)
      /\ Given(rule.maximum) => Bounded(rule, y).value <= Whole(rule, high)
  BY <1>1, <1>2, <1>3, <1>4, <1>5 DEF Bounded, low, high
<1> QED BY <1>6 DEF y, low, high

\* What a rule without a defect comes to is a value, and within its bounds.
LEMMA CameIsGood ==
  ASSUME NEW rs, WellFormed(rs), NEW p \in DOMAIN rs, NEW raw, Defect(rs[p], raw) = "none"
  PROVE  LET came == Came(rs[p], raw)
         IN  /\ came # Unsized
             /\ came.value.t = "number" =>
                  /\ Given(rs[p].minimum) => came.value.v >= Whole(rs[p], Floor(rs[p]))
                  /\ Given(rs[p].maximum) => came.value.v <= Whole(rs[p], Ceiling(rs[p]))
<1>1. CASE rs[p].unit = "text"
  <2>1. raw.t = "text"
    BY <1>1 DEF Defect
  <2>2. Came(rs[p], raw).value = raw
    BY <1>1 DEF Came, AsText
  <2> QED BY <2>1, <2>2 DEF Unsized
<1>2. CASE rs[p].unit # "text"
  <2> DEFINE held == Bounded(rs[p], Rounded(rs[p], raw.v)).value
  <2>1. raw.v \in Int /\ Amiss(rs[p], raw.v) = "none"
    BY <1>2 DEF Defect, IsNumber
  <2>2. Roundable(rs[p]) /\ Boundable(rs[p])
    BY <2>1 DEF Amiss
  <2>3. Came(rs[p], raw).value = [t |-> "number", v |-> held]
    BY <1>2 DEF Came, AsNumber, Number
  <2>4. Came(rs[p], raw).value.t = "number" /\ Came(rs[p], raw).value.v = held
    BY <2>3
  <2>5. Came(rs[p], raw) # Unsized
    BY <2>4 DEF Unsized
  <2> QED BY <2>1, <2>2, <2>4, <2>5, HeldToBounds
<1> QED BY <1>1, <1>2

\* A rule evaluated: it has a defect, or its value is kept.
LEMMA SizeKeeps ==
  ASSUME Typed, Size
  PROVE  \/ phase' = "failed" /\ UNCHANGED <<rules, ordered, next, working, sized, saw>>
         \/ /\ UNCHANGED <<phase, rules, ordered>> /\ next' = next + 1
            /\ ordered[next] \in Params
            /\ \E came :
                 /\ came # Unsized
                 /\ came.value.t = "number" =>
                      LET rule == rules[ordered[next]]
                      IN  /\ Given(rule.minimum) => came.value.v >= Whole(rule, Floor(rule))
                          /\ Given(rule.maximum) => came.value.v <= Whole(rule, Ceiling(rule))
                 /\ sized' = [sized EXCEPT ![ordered[next]] = came]
                 /\ working' = [n \in DOMAIN working \cup {ordered[next]} |->
                                  IF n = ordered[next] THEN came.value ELSE working[n]]
            /\ saw' = [saw EXCEPT ![ordered[next]] = working]
<1> DEFINE p == ordered[next]
           raw == Formula(rules[p].expr, working)
           came == Came(rules[p], raw)
<1>1. CASE Defect(rules[p], raw) # "none"
  BY <1>1 DEF Size
<1>2. CASE Defect(rules[p], raw) = "none"
  <2>1. WellFormed(rules) /\ p \in DOMAIN rules
    BY DEF Typed, TypeOK, Known, Size, Params
  <2>2. /\ sized' = [sized EXCEPT ![p] = came]
        /\ saw' = [saw EXCEPT ![p] = working]
        /\ working' = [n \in DOMAIN working \cup {p} |->
                         IF n = p THEN sized'[p].value ELSE working[n]]
        /\ next' = next + 1 /\ UNCHANGED <<phase, rules, ordered>>
    BY <1>2 DEF Size
  <2>3. sized'[p] = came
    BY <2>1, <2>2 DEF Typed, TypeOK, Params
  <2>4. /\ came # Unsized
        /\ came.value.t = "number" =>
             /\ Given(rules[p].minimum) => came.value.v >= Whole(rules[p], Floor(rules[p]))
             /\ Given(rules[p].maximum) => came.value.v <= Whole(rules[p], Ceiling(rules[p]))
    BY <1>2, <2>1, CameIsGood
  <2>5. working' = [n \in DOMAIN working \cup {p} |-> IF n = p THEN came.value ELSE working[n]]
    BY <2>2, <2>3
  <2> HIDE DEF came
  <2> QED BY <2>1, <2>2, <2>4, <2>5, Zenon DEF Params
<1> QED BY <1>1, <1>2

Valued == Computed /\ ReadsFinal /\ WithinBounds

LEMMA ValuedInit == Init => Valued
BY DEF Init, Valued, Computed, Unstarted, ReadsFinal, WithinBounds, Params, Idle

LEMMA ValuedKept ==
  ASSUME Typed, Valued, UNCHANGED <<rules, working, next, sized, saw>>,
         phase' \in {"waiting", "read", "order", "stuck"} =>
           phase \in {"waiting", "read", "order", "stuck"},
         \/ ordered' = ordered
         \/ phase = "order" /\ \E p \in Params : ordered' = Append(ordered, p)
  PROVE  Valued'
<1>1. Params' = Params /\ \A x : Needs(x)' = Needs(x)
  BY DEF Params, Needs
<1>2. ReadsFinal' /\ WithinBounds' /\ Unstarted'
  BY <1>1 DEF Valued, Computed, ReadsFinal, WithinBounds, Unstarted
<1>3. CASE ordered' = ordered
  BY <1>1, <1>2, <1>3 DEF Valued, Computed
<1>4. ASSUME phase = "order", NEW p \in Params, ordered' = Append(ordered, p) PROVE Valued'
  <2>1. next = 1 /\ ordered \in Seq(Params)
    BY <1>4 DEF Valued, Computed, Unstarted, Typed, TypeOK
  <2>2. Len(ordered) \in Nat /\ Len(ordered') = Len(ordered) + 1
    BY <1>4, <2>1
  <2>3. \A q \in Params : sized[q] = Unsized
    BY <2>1, <2>2 DEF Valued, Computed
  <2> QED BY <1>1, <1>2, <2>1, <2>2, <2>3 DEF Valued, Computed
<1> QED BY <1>3, <1>4

\* One more value, computed from values that are final.
LEMMA ValuedOne ==
  ASSUME Typed, Placed, Valued, UNCHANGED <<phase, rules, ordered>>, phase = "size",
         next \in 1..Len(ordered), next' = next + 1, NEW came, came # Unsized,
         came.value.t = "number" =>
           LET rule == rules[ordered[next]]
           IN  /\ Given(rule.minimum) => came.value.v >= Whole(rule, Floor(rule))
               /\ Given(rule.maximum) => came.value.v <= Whole(rule, Ceiling(rule)),
         sized' = [sized EXCEPT ![ordered[next]] = came],
         working' = [n \in DOMAIN working \cup {ordered[next]} |->
                       IF n = ordered[next] THEN came.value ELSE working[n]],
         saw' = [saw EXCEPT ![ordered[next]] = working]
  PROVE  Valued'
<1> DEFINE p == ordered[next]
<1>1. /\ Params' = Params /\ \A x : Needs(x)' = Needs(x)
      /\ p \in Params /\ DOMAIN sized = Params /\ DOMAIN saw = Params
      /\ ordered \in Seq(Params) /\ Len(ordered) \in Nat /\ next \in Int
  BY DEF Params, Needs, Typed, TypeOK
<1>2. /\ sized'[p] = came /\ saw'[p] = working /\ working'[p] = came.value
      /\ \A q \in Params : q # p => sized'[q] = sized[q] /\ saw'[q] = saw[q]
  BY <1>1
<1>3. \A i \in 1..Len(ordered) : i < next => ordered[i] # p
  BY <1>1 DEF Placed
<1>4. ASSUME NEW i \in 1..Len(ordered), i < next
      PROVE  /\ ordered[i] \in Params /\ ordered[i] # p /\ sized[ordered[i]] # Unsized
             /\ ordered[i] \in DOMAIN working
             /\ working[ordered[i]] = sized[ordered[i]].value
  BY <1>1, <1>3, <1>4 DEF Valued, Computed
<1>5. ASSUME NEW q \in Params, sized[q] # Unsized PROVE q # p
  <2>1. PICK i \in 1..Len(ordered) : i < next /\ ordered[i] = q
    BY <1>5 DEF Valued, Computed
  <2> QED BY <1>4, <2>1
<1>6. Computed'
  <2>1. \A q \in Params : sized'[q] # Unsized =>
          \E i \in 1..Len(ordered) : i < next' /\ ordered[i] = q
    <3> SUFFICES ASSUME NEW q \in Params, sized'[q] # Unsized
                 PROVE  \E i \in 1..Len(ordered) : i < next + 1 /\ ordered[i] = q
      OBVIOUS
    <3>1. CASE q = p
      BY <1>1, <3>1
    <3>2. CASE q # p
      <4>1. PICK i \in 1..Len(ordered) : i < next /\ ordered[i] = q
        BY <1>2, <3>2 DEF Valued, Computed
      <4> QED BY <1>1, <4>1
    <3> QED BY <3>1, <3>2
  <2>2. ASSUME NEW i \in 1..Len(ordered), i < next'
        PROVE  /\ sized'[ordered[i]] # Unsized /\ ordered[i] \in DOMAIN working'
               /\ working'[ordered[i]] = sized'[ordered[i]].value
    <3>1. CASE i = next
      BY <1>2, <3>1
    <3>2. CASE i < next
      <4>1. working'[ordered[i]] = working[ordered[i]] /\ ordered[i] \in DOMAIN working'
        BY <1>4, <3>2
      <4> QED BY <1>2, <1>4, <3>2, <4>1
    <3> QED BY <1>1, <2>2, <3>1, <3>2
  <2>3. Unstarted'
    BY DEF Unstarted
  <2> QED BY <1>1, <2>1, <2>2, <2>3 DEF Computed
<1>7. ReadsFinal'
  <2> SUFFICES ASSUME NEW x \in Params, sized'[x] # Unsized, NEW q \in Needs(x)
               PROVE  sized'[q] # Unsized /\ saw'[x][q] = sized'[q].value
    BY <1>1 DEF ReadsFinal
  <2>1. q \in Params
    BY DEF Needs
  <2>2. CASE x = p
    <3>1. PICK j \in 1..Len(ordered) : j < next /\ ordered[j] = q
      BY <2>2 DEF Placed
    <3>2. q # p /\ sized[q] # Unsized /\ working[q] = sized[q].value
      BY <1>4, <3>1
    <3> QED BY <1>2, <2>1, <2>2, <3>2
  <2>3. CASE x # p
    <3>1. sized[q] # Unsized /\ saw[x][q] = sized[q].value
      BY <1>2, <2>3 DEF Valued, ReadsFinal
    <3> QED BY <1>2, <1>5, <2>1, <2>3, <3>1
  <2> QED BY <2>2, <2>3
<1>8. WithinBounds'
  <2> SUFFICES ASSUME NEW x \in Params, sized'[x].value.t = "number"
               PROVE  /\ Given(rules[x].minimum) =>
                           sized'[x].value.v >= Whole(rules[x], Floor(rules[x]))
                      /\ Given(rules[x].maximum) =>
                           sized'[x].value.v <= Whole(rules[x], Ceiling(rules[x]))
    BY <1>1 DEF WithinBounds
  <2>1. CASE x = p
    BY <1>2, <2>1
  <2>2. CASE x # p
    BY <1>2, <2>2 DEF Valued, WithinBounds
  <2> QED BY <2>1, <2>2
<1> QED BY <1>6, <1>7, <1>8 DEF Valued

LEMMA ValuedNext == Typed /\ Placed /\ Valued /\ Evaluation => Valued'
<1> SUFFICES ASSUME Typed, Placed, Valued, Evaluation PROVE Valued'
  OBVIOUS
<1>1. ASSUME NEW rs, NEW scope, WellFormed(rs), Start(rs, scope) PROVE Valued'
  <2>1. /\ ordered' = <<>> /\ next' = 1 /\ Params' = DOMAIN rs
        /\ sized' = [p \in Params' |-> Unsized]
    BY <1>1 DEF Start, Typed, Known, Params
  <2>2. \A p \in Params' : sized'[p] = Unsized
    BY <2>1
  <2>3. Unsized.value.t # "number"
    BY DEF Unsized
  <2> QED BY <2>1, <2>2, <2>3 DEF Valued, Computed, Unstarted, ReadsFinal, WithinBounds
<1>2. CASE Read
  BY <1>2, ValuedKept DEF Read
<1>3. CASE Round
  BY <1>3, ValuedKept DEF Round
<1>4. CASE Place
  <2>1. \E p \in Params : ordered' = Append(ordered, p)
    BY <1>4 DEF Place, Typed, TypeOK
  <2> QED BY <1>4, <2>1, ValuedKept DEF Place
<1>5. CASE Stuck
  BY <1>5, ValuedKept DEF Stuck
<1>6. CASE Follow
  <2>1. phase = "stuck"
    BY <1>6 DEF Follow
  <2> QED BY <1>6, <2>1, ValuedKept DEF Follow
<1>7. CASE Ordered
  BY <1>7, ValuedKept DEF Ordered
<1>8. CASE Size
  <2>1. CASE phase' = "failed" /\ UNCHANGED <<rules, ordered, next, working, sized, saw>>
    BY <2>1, ValuedKept
  <2>2. CASE ~(phase' = "failed" /\ UNCHANGED <<rules, ordered, next, working, sized, saw>>)
    <3>1. phase = "size" /\ next \in 1..Len(ordered)
      BY <1>8 DEF Size, Typed, TypeOK
    <3> QED BY <1>8, <2>2, <3>1, SizeKeeps, ValuedOne
  <2> QED BY <2>1, <2>2
<1>9. CASE Done
  BY <1>9, ValuedKept DEF Done
<1>10. CASE UNCHANGED vars
  BY <1>10, ValuedKept DEF vars
<1>11. CASE Afresh
  BY <1>11 DEF Afresh, Valued, Computed, Unstarted, ReadsFinal, WithinBounds, Params, Idle
<1> QED BY <1>1, <1>2, <1>3, <1>4, <1>5, <1>6, <1>7, <1>8, <1>9, <1>10, <1>11 DEF Evaluation, Compute

LEMMA ValuedAlways == Spec => []Valued
BY TypedAlways, PlacedAlways, ValuedInit, ValuedNext, NextEvaluates, PTL DEF Spec

\* Whatever the rules read and say, each is computed from the final values of
\* what it reads: evaluate() and evaluation_order().
THEOREM ReadingsAreFinal == Spec => []ReadsFinal
<1>1. Valued => ReadsFinal
  BY DEF Valued
<1> QED BY <1>1, ValuedAlways, PTL

\* Whatever a formula comes to, and whatever the step and the bounds are, the
\* value is within its bounds: _rounded and _bounded.
THEOREM ValuesAreWithinBounds == Spec => []WithinBounds
<1>1. Valued => WithinBounds
  BY DEF Valued
<1> QED BY <1>1, ValuedAlways, PTL

-----------------------------------------------------------------------------
(* The end.                                                                *)

\* Nothing has been walked before there is nothing to place, and then each rule
\* that is left waits for another that is.
Waited ==
  /\ phase \in {"waiting", "read", "order"} => walk = <<>>
  /\ phase = "stuck" =>
       /\ Remaining # {}
       /\ \A p \in Remaining : Needs(p) \cap Remaining # {}
       /\ \A i \in 1..Len(walk) : walk[i] \in Remaining

\* A bound on the steps that are left: two for each rule to place, one for each
\* to walk to, one for each to compute.
Left ==
  LET N == Cardinality(Params)
  IN  CASE phase = "read"  -> 3 * N + 4
        [] phase = "order" -> N + 2 + 2 * (N - Len(ordered)) + (IF ready = {} THEN 1 ELSE 0)
        [] phase = "stuck" -> N + 1 - Len(walk)
        [] phase = "size"  -> Len(ordered) + 2 - next
        [] OTHER -> 0

LEMMA LeastThereIs ==
  ASSUME NEW S, S # {}, S \subseteq Nat
  PROVE  \E x \in S : \A y \in S : x <= y
<1> DEFINE R == OpToRel(<, Nat)
<1>1. IsWellFoundedOn(R, Nat)
  BY NatLessThanWellFounded
<1>2. \A x, y \in Nat : x < y => <<x, y>> \in R
  BY DEF OpToRel
<1> HIDE DEF R
<1>3. PICK x \in S : \A y \in S : <<y, x>> \notin R
  BY <1>1, WFMin
<1>4. \A y \in S : ~(y < x)
  BY <1>2, <1>3
<1> QED
  BY <1>3, <1>4

LEMMA FirstThereIs ==
  ASSUME WellFormed(rules), NEW S \in SUBSET Params, S # {}
  PROVE  /\ \E p \in S : First(p, S)
         /\ \E p \in S : Earliest(p, S)
<1>1. \A p \in S : rules[p].line \in Nat /\ Alphabet[p] \in Nat
  BY DEF WellFormed, Params
<1>2. PICK l \in {rules[p].line : p \in S} : \A y \in {rules[p].line : p \in S} : l <= y
  <2> DEFINE T == {rules[p].line : p \in S}
  <2>1. T # {} /\ T \subseteq Nat
    BY <1>1
  <2> HIDE DEF T
  <2>2. \E x \in T : \A y \in T : x <= y
    BY <2>1, LeastThereIs
  <2> QED
    BY <2>2 DEF T
<1>3. PICK z \in {Alphabet[p] : p \in S} : \A y \in {Alphabet[p] : p \in S} : z <= y
  <2> DEFINE T == {Alphabet[p] : p \in S}
  <2>1. T # {} /\ T \subseteq Nat
    BY <1>1
  <2> HIDE DEF T
  <2>2. \E x \in T : \A y \in T : x <= y
    BY <2>1, LeastThereIs
  <2> QED
    BY <2>2 DEF T
<1>4. \E p \in S : First(p, S)
  BY <1>2 DEF First
<1>5. \E p \in S : Earliest(p, S)
  BY <1>3 DEF Earliest
<1> QED
  BY <1>4, <1>5

\* A list that names each parameter at most once is no longer than they are many.
LEMMA NoLongerThanMany ==
  ASSUME IsFiniteSet(Params), NEW s \in Seq(Params),
         \A i, j \in 1..Len(s) : s[i] = s[j] => i = j
  PROVE  Len(s) <= Cardinality(Params)
<1>1. Len(s) \in Nat /\ s \in [1..Len(s) -> Params]
  OBVIOUS
<1>2. s \in Injection(1..Len(s), Params)
  BY <1>1 DEF Injection, IsInjective
<1>3. Cardinality(1..Len(s)) <= Cardinality(Params)
  BY <1>2, FS_Injection
<1>4. Cardinality(1..Len(s)) = Len(s)
  BY <1>1, FS_Interval
<1> QED
  BY <1>3, <1>4

LEMMA WaitedInit == Init => Waited
BY DEF Init, Waited

LEMMA WaitedKept ==
  ASSUME Waited, UNCHANGED <<rules, ordered, walk>>,
         phase' \in {"waiting", "read", "order"} => phase \in {"waiting", "read", "order"},
         phase' = "stuck" => phase = "stuck"
  PROVE  Waited'
<1>1. Remaining' = Remaining /\ \A x : Needs(x)' = Needs(x)
  BY DEF Params, Settled, Remaining, Needs
<1> QED
  BY <1>1 DEF Waited

LEMMA WaitedNext == Typed /\ Waited /\ Evaluation => Waited'
<1> SUFFICES ASSUME Typed, Waited, Evaluation PROVE Waited'
  OBVIOUS
<1>1. ASSUME NEW rs, NEW scope, WellFormed(rs), Start(rs, scope) PROVE Waited'
  BY <1>1 DEF Start, Waited, Typed, Known
<1>2. CASE Read
  BY <1>2, WaitedKept DEF Read
<1>3. CASE Round
  <2>1. Remaining' = Remaining /\ \A x : Needs(x)' = Needs(x)
    BY <1>3 DEF Round, Params, Settled, Remaining, Needs
  <2>2. walk' = <<>> /\ Remaining # {} /\ phase' \in {"order", "stuck"}
    BY <1>3 DEF Round, Waited
  <2>3. ASSUME phase' = "stuck", NEW p \in Remaining PROVE Needs(p) \cap Remaining # {}
    <3>1. ~(Needs(p) \subseteq Settled)
      BY <1>3, <2>3 DEF Round
    <3> QED
      BY <3>1 DEF Needs, Remaining
  <2> QED
    BY <2>1, <2>2, <2>3 DEF Waited
<1>4. CASE Place
  BY <1>4 DEF Place, Waited
<1>5. CASE Stuck
  <2>1. PICK p \in Remaining : walk' = <<p>>
    BY <1>5 DEF Stuck
  <2>2. Remaining' = Remaining /\ \A x : Needs(x)' = Needs(x)
    BY <1>5 DEF Stuck, Params, Settled, Remaining, Needs
  <2>3. \A i \in 1..Len(walk') : walk'[i] \in Remaining
    BY <2>1
  <2> QED
    BY <1>5, <2>2, <2>3 DEF Stuck, Waited
<1>6. CASE Follow
  <2>1. PICK q \in Needs(walk[Len(walk)]) \cap Remaining :
          \/ walk' = Append(walk, q) /\ UNCHANGED <<phase, fault>>
          \/ phase' = "failed"
    BY <1>6 DEF Follow
  <2>2. Remaining' = Remaining /\ \A x : Needs(x)' = Needs(x)
    BY <1>6 DEF Follow, Params, Settled, Remaining, Needs
  <2>3. CASE phase' = "failed"
    BY <2>3 DEF Waited
  <2>4. CASE walk' = Append(walk, q) /\ UNCHANGED <<phase, fault>>
    <3>1. walk \in Seq(Params) /\ q \in Params
      BY DEF Typed, TypeOK, Remaining
    <3>2. \A i \in 1..Len(walk) : walk[i] \in Remaining
      BY <1>6 DEF Follow, Waited
    <3>3. \A i \in 1..Len(walk') : walk'[i] \in Remaining
      BY <2>4, <3>1, <3>2
    <3> QED
      BY <1>6, <2>2, <2>4, <3>3 DEF Follow, Waited
  <2> QED
    BY <2>1, <2>3, <2>4
<1>7. CASE Ordered
  BY <1>7 DEF Ordered, Waited
<1>8. CASE Size
  <2>1. phase' \in {"size", "failed"}
    BY <1>8 DEF Size
  <2> QED
    BY <2>1 DEF Waited
<1>9. CASE Done
  BY <1>9 DEF Done, Waited
<1>10. CASE UNCHANGED vars
  BY <1>10, WaitedKept DEF vars
<1>11. CASE Afresh
  BY <1>11 DEF Afresh, Waited
<1> QED
  BY <1>1, <1>2, <1>3, <1>4, <1>5, <1>6, <1>7, <1>8, <1>9, <1>10, <1>11 DEF Evaluation, Compute

LEMMA WaitedAlways == Spec => []Waited
BY TypedAlways, WaitedInit, WaitedNext, NextEvaluates, PTL DEF Spec

LEMMA WaitedGoesOn == Typed /\ Waited => GoesOn
<1> SUFFICES ASSUME Typed, Waited PROVE GoesOn
  OBVIOUS
<1>1. phase # "waiting" => WellFormed(rules)
  BY DEF Typed, Known
<1>2. ASSUME phase = "order", ready # {} PROVE \E p \in ready : First(p, ready)
  BY <1>1, <1>2, FirstThereIs DEF Typed, TypeOK
<1>3. ASSUME phase = "stuck" PROVE \E p \in Remaining : First(p, Remaining)
  BY <1>1, <1>3, FirstThereIs DEF Waited, Remaining
<1>4. ASSUME phase = "stuck", walk # <<>>
      PROVE  LET waiting == Needs(walk[Len(walk)]) \cap Remaining
             IN  \E q \in waiting : Earliest(q, waiting)
  <2> DEFINE waiting == Needs(walk[Len(walk)]) \cap Remaining
  <2>1. Len(walk) \in 1..Len(walk)
    BY <1>4 DEF Typed, TypeOK
  <2>2. waiting # {} /\ waiting \subseteq Params
    BY <1>4, <2>1 DEF Waited, Remaining
  <2> QED
    BY <1>1, <1>4, <2>2, FirstThereIs
<1> QED
  BY <1>2, <1>3, <1>4 DEF GoesOn

\* Wherever the code asks for the first of some rules, there is one: what each
\* rule that is left waits for is left too, as _cycle says and relies on when it
\* takes sorted(...)[0] (planner/sizing.py).
THEOREM EvaluationsGoOn == Spec => []GoesOn
BY TypedAlways, WaitedAlways, WaitedGoesOn, PTL

\* No more is placed or walked to than there is.
Few ==
  phase # "waiting" =>
    /\ Cardinality(Params) \in Nat
    /\ Len(ordered) \in Nat /\ Len(ordered) <= Cardinality(Params)
    /\ Len(walk) \in Nat /\ Len(walk) <= Cardinality(Params)

LEMMA StepsAreFew == Typed /\ Placed /\ Walked => Few
<1> SUFFICES ASSUME Typed, Placed, Walked, phase # "waiting" PROVE Few
  BY DEF Few
<1>1. IsFiniteSet(Params)
  BY DEF Typed, Known, WellFormed, Params
<1>2. ordered \in Seq(Params) /\ walk \in Seq(Params)
  BY DEF Typed, TypeOK
<1>3. Len(ordered) <= Cardinality(Params)
  BY <1>1, <1>2, NoLongerThanMany DEF Placed
<1>4. Len(walk) <= Cardinality(Params)
  BY <1>1, <1>2, NoLongerThanMany DEF Walked
<1> QED
  BY <1>1, <1>2, <1>3, <1>4, FS_CardinalityType DEF Few

\* Each step of a computation leaves fewer of them.
LEMMA FewerAreLeft ==
  ASSUME Typed, Few, Typed', Few', Compute
  PROVE  Left \in Nat /\ Left' \in Nat /\ Left' < Left
<1> DEFINE N == Cardinality(Params)
<1>1. phase # "waiting" /\ phase' # "waiting"
  BY DefectIsNamed, SMTT(30) DEF Compute, Read, Round, Place, Stuck, Follow, Ordered, Size, Done
<1>2. rules' = rules
  BY Zenon DEF Compute, Read, Round, Place, Stuck, Follow, Ordered, Size, Done
<1>3. Cardinality(Params)' = N
  BY <1>2 DEF Params
<1>4. /\ N \in Nat /\ Len(ordered) \in Nat /\ Len(ordered) <= N
      /\ Len(walk) \in Nat /\ Len(walk) <= N
  BY <1>1 DEF Few
<1>5. /\ Len(ordered') \in Nat /\ Len(ordered') <= N
      /\ Len(walk') \in Nat /\ Len(walk') <= N
  BY <1>1, <1>3 DEF Few
<1>6. next \in 1..Len(ordered) + 1 /\ next' \in 1..Len(ordered') + 1
  BY DEF Typed, TypeOK
<1> HIDE DEF N
<1>7. Left = IF phase = "read" THEN 3 * N + 4
        ELSE IF phase = "order"
          THEN N + 2 + 2 * (N - Len(ordered)) + (IF ready = {} THEN 1 ELSE 0)
        ELSE IF phase = "stuck" THEN N + 1 - Len(walk)
        ELSE IF phase = "size" THEN Len(ordered) + 2 - next
        ELSE 0
  BY DEF Left, N
<1>8. Left' = IF phase' = "read" THEN 3 * N + 4
        ELSE IF phase' = "order"
          THEN N + 2 + 2 * (N - Len(ordered')) + (IF ready' = {} THEN 1 ELSE 0)
        ELSE IF phase' = "stuck" THEN N + 1 - Len(walk')
        ELSE IF phase' = "size" THEN Len(ordered') + 2 - next'
        ELSE 0
  BY <1>3 DEF Left, N
<1> USE <1>4, <1>5, <1>6, <1>7, <1>8
<1>9. CASE Read
  BY <1>9 DEF Read
<1>10. CASE Round
  BY <1>10 DEF Round
<1>11. CASE Place
  <2>1. PICK p \in ready : ordered' = Append(ordered, p) /\ ready' = ready \ {p}
    BY <1>11 DEF Place
  <2>2. Len(ordered') = Len(ordered) + 1 /\ ready # {}
    BY <2>1 DEF Typed, TypeOK
  <2> QED
    BY <1>11, <2>2 DEF Place
<1>12. CASE Stuck
  <2>1. Len(walk) = 0 /\ Len(walk') = 1
    BY <1>12 DEF Stuck
  <2> QED
    BY <1>12, <2>1 DEF Stuck
<1>13. CASE Follow
  <2>1. PICK q \in Needs(walk[Len(walk)]) :
          \/ walk' = Append(walk, q) /\ UNCHANGED <<phase, fault>>
          \/ phase' = "failed"
    BY <1>13 DEF Follow
  <2>2. CASE phase' = "failed"
    BY <1>13, <2>2 DEF Follow
  <2>3. CASE walk' = Append(walk, q) /\ UNCHANGED <<phase, fault>>
    <3>1. Len(walk') = Len(walk) + 1
      BY <2>3 DEF Typed, TypeOK
    <3> QED
      BY <1>13, <2>3, <3>1 DEF Follow
  <2> QED
    BY <2>1, <2>2, <2>3
<1>14. CASE Ordered
  <2>1. next = 1 \/ next >= 1
    OBVIOUS
  <2> QED
    BY <1>14, <2>1 DEF Ordered
<1>15. CASE Size
  <2>1. /\ phase = "size" /\ next <= Len(ordered) /\ ordered' = ordered
        /\ phase' = "failed" \/ (phase' = "size" /\ next' = next + 1)
    BY <1>15, Zenon DEF Size
  <2> QED
    BY <2>1
<1>16. CASE Done
  BY <1>16 DEF Done
<1> QED
  BY <1>9, <1>10, <1>11, <1>12, <1>13, <1>14, <1>15, <1>16 DEF Compute

\* No evaluation goes on for ever, whatever the rules read: each step leaves
\* fewer, from a number of them that the rules bound. It is what Settles rests on
\* (the two loops of evaluation_order() and _cycle(), and that of evaluate()).
THEOREM EvaluationsComeDown == Spec => [][Compute => Left' \in Nat /\ Left' < Left]_vars
<1>1. Ringed => Walked
  BY DEF Ringed
<1>2. Typed /\ Few /\ Typed' /\ Few' => (Compute => Left' \in Nat /\ Left' < Left)
  BY FewerAreLeft
<1> QED
  BY <1>1, <1>2, StepsAreFew, TypedAlways, PlacedAlways, RingedAlways, PTL
=============================================================================
