------------------------------- MODULE Sizing -------------------------------
(***************************************************************************)
(* planner/sizing.py, evaluate: what each tuneable setting should be on    *)
(* one host.  The rules are put in an order in which each has what it      *)
(* reads, round by round, or the ring that forbids one is named; then they *)
(* are evaluated in that order, each rounded and held to its bounds.       *)
(*                                                                         *)
(* What a formula says is the constant Formula.  A value carries its type  *)
(* in t; numbers are counted in halves, which is enough to tell a whole    *)
(* number from one that is not.                                            *)
(***************************************************************************)
EXTENDS Integers, Sequences, FiniteSets

CONSTANTS
  RuleSets,       \* the sizing sections: a rule for each parameter they set
  Scopes,         \* what a rule may read of a host: a value for each name
  Alphabet,       \* the place of each parameter's name in the alphabet
  Formula(_, _)   \* what an expression says, given a value for each name

VARIABLES
  rules,     \* the rules being evaluated
  phase,     \* how far evaluate() is
  fault,     \* why it stopped, if it did
  ordered,   \* the order found so far
  ready,     \* the rules of this round that have not been placed yet
  walk,      \* the parameters walked through in search of a ring
  working,   \* what a rule may read now: the scope, and what was computed
  next,      \* the place in the order of the rule to evaluate next
  sized,     \* what each parameter was given
  saw        \* history: what could be read when a parameter was computed

vars == <<rules, phase, fault, ordered, ready, walk, working, next, sized, saw>>

Params == DOMAIN rules

\* A bound is not set, or a bare number, or text saying an amount of bytes or a
\* duration, the latter in milliseconds, or text that says neither.
Given(b) == b.as # "none"

UNITS == {"bytes", "milliseconds", "seconds", "count", "ratio", "text"}
WHOLE == {"bytes", "milliseconds", "seconds", "count"}

\* A sizing section as it is read: a parameter is set once in a file, on a line
\* of its own (profiles/loader.py refuses any other), in a unit there is.
WellFormed(rs) ==
  /\ IsFiniteSet(DOMAIN rs)
  /\ \A p \in DOMAIN rs :
       /\ Alphabet[p] \in Nat /\ rs[p].line \in Nat /\ rs[p].unit \in UNITS
       /\ \A q \in DOMAIN rs : p # q => Alphabet[p] # Alphabet[q] /\ rs[p].line # rs[q].line
       /\ \A b \in {rs[p].minimum, rs[p].maximum, rs[p].round_to, rs[p].warn_above} :
            b.as \in {"none", "number", "bytes", "time", "neither"} /\ b.v \in Int

ASSUME RuleSetsAssumption == \A rs \in RuleSets : WellFormed(rs)

-----------------------------------------------------------------------------
(* One value.                                                              *)

\* Toward zero, in whole things counted as two halves.
Truncated(x) == IF x >= 0 THEN x - (x % 2) ELSE x + ((-x) % 2)

Whole(rule, x) == IF rule.unit \in WHOLE THEN Truncated(x) ELSE x

\* Whether a bound can be read in the unit of the rule, and what it says then.
Quantifiable(rule, b) ==
  \/ b.as = "number"
  \/ b.as = "bytes" /\ rule.unit = "bytes"
  \/ b.as = "time" /\ rule.unit = "milliseconds"
  \/ b.as = "time" /\ rule.unit = "seconds" /\ b.v % 2000 = 0
Quantity(rule, b) == IF b.as = "time" /\ rule.unit = "seconds" THEN b.v \div 1000 ELSE b.v

Step(rule) == Truncated(Quantity(rule, rule.round_to))
Roundable(rule) ==
  Given(rule.round_to) =>
    rule.unit \in WHOLE /\ Quantifiable(rule, rule.round_to) /\ Step(rule) > 0
Rounded(rule, x) ==
  IF Given(rule.round_to)
  THEN Truncated(x) - (Truncated(x) % Step(rule))
  ELSE Whole(rule, x)

Floor(rule) == Quantity(rule, rule.minimum)
Ceiling(rule) == Quantity(rule, rule.maximum)
Boundable(rule) ==
  /\ \A b \in {rule.minimum, rule.maximum} : Given(b) => Quantifiable(rule, b)
  /\ Given(rule.minimum) /\ Given(rule.maximum) => Floor(rule) <= Ceiling(rule)

\* The value, and the bound that moved it if one did.
Bounded(rule, x) ==
  IF Given(rule.minimum) /\ x < Floor(rule)
  THEN [value |-> Whole(rule, Floor(rule)), by |-> "min"]
  ELSE IF Given(rule.maximum) /\ x > Ceiling(rule)
  THEN [value |-> Whole(rule, Ceiling(rule)), by |-> "max"]
  ELSE [value |-> x, by |-> "none"]

\* What is wrong with a number a rule came to: nothing, a defect of the rule, or
\* what render_bytes raises and nothing here or in cli.py expects.
Amiss(rule, x) ==
  LET held == Bounded(rule, Rounded(rule, x)).value
  IN  IF ~Roundable(rule) \/ ~Boundable(rule) THEN "rule"
      ELSE IF rule.unit = "bytes" /\ Truncated(held) < 0 THEN "traceback"
      ELSE IF Given(rule.warn_above) /\ ~Quantifiable(rule, rule.warn_above) THEN "rule"
      ELSE "none"

IsNumber(raw) == raw.t = "number" /\ raw.v \in Int
Number(x) == [t |-> "number", v |-> x]

Unsized == [value |-> [t |-> "nothing"], by |-> "none", advised |-> FALSE]

\* Not the code: the bounds first, the rounding last.
AsNumberRoundedLast(rule, raw) ==
  LET held == Bounded(rule, raw.v)
  IN  [value |-> Number(IF rule.unit = "ratio" THEN held.value ELSE Rounded(rule, held.value)),
       by |-> held.by, advised |-> FALSE]

AsNumber(rule, raw) ==
  LET held == Bounded(rule, Rounded(rule, raw.v))
  IN  [value |-> Number(held.value), by |-> held.by,
       advised |-> Given(rule.warn_above) /\ held.value > Quantity(rule, rule.warn_above)]
AsText(raw) == [value |-> raw, by |-> "none", advised |-> FALSE]

\* What is wrong with what a rule's formula came to.
Defect(rule, raw) ==
  IF raw.t \in {"unreported", "traceback"} THEN raw.t
  ELSE IF raw.t = "error" THEN "rule"
  ELSE IF rule.unit = "text"
  THEN IF /\ raw.t = "text"
          /\ \A b \in {rule.minimum, rule.maximum, rule.round_to, rule.warn_above} : ~Given(b)
       THEN "none" ELSE "rule"
  ELSE IF IsNumber(raw) THEN Amiss(rule, raw.v) ELSE "rule"

-----------------------------------------------------------------------------
(* The order.                                                              *)

SelfReading(p) == p \in rules[p].reads
Needs(p) == (rules[p].reads \cap Params) \ {p}
Settled == {ordered[i] : i \in 1..Len(ordered)}
Remaining == Params \ Settled

\* The member of a set of parameters that stands first in the file.
First(p, S) == p \in S /\ \A q \in S : rules[p].line <= rules[q].line
\* The member that stands first in the alphabet.
Earliest(p, S) == p \in S /\ \A q \in S : Alphabet[p] <= Alphabet[q]

Idle == [q \in {} |-> Unsized]

\* A process that has evaluated nothing.
Init ==
  /\ rules = Idle /\ working = Idle /\ sized = Idle /\ saw = Idle
  /\ phase = "waiting" /\ fault = "none"
  /\ ordered = <<>> /\ ready = {} /\ walk = <<>> /\ next = 1

\* Another process, which has evaluated nothing either.
Afresh ==
  /\ rules' = Idle /\ working' = Idle /\ sized' = Idle /\ saw' = Idle
  /\ phase' = "waiting" /\ fault' = "none"
  /\ ordered' = <<>> /\ ready' = {} /\ walk' = <<>> /\ next' = 1

\* A call of evaluate().
Start(rs, scope) ==
  /\ phase = "waiting"
  /\ phase' = "read" /\ rules' = rs /\ working' = scope
  /\ sized' = [p \in DOMAIN rs |-> Unsized] /\ saw' = [p \in DOMAIN rs |-> scope]
  /\ UNCHANGED <<fault, ordered, ready, walk, next>>

\* Not the code: a rule is refused, and nothing says what for.
ReadUnexplained ==
  /\ phase = "read"
  /\ phase' = IF \A p \in Params : rules[p].parses /\ ~SelfReading(p) THEN "order" ELSE "failed"
  /\ UNCHANGED <<rules, fault, ordered, ready, walk, working, next, sized, saw>>

\* Every formula is read before any is looked at, and a rule that reads what it
\* sets is refused.
Read ==
  /\ phase = "read"
  /\ IF \A p \in Params : rules[p].parses /\ ~SelfReading(p)
     THEN phase' = "order" /\ fault' = fault
     ELSE phase' = "failed" /\ fault' = "rule"
  /\ UNCHANGED <<rules, ordered, ready, walk, working, next, sized, saw>>

\* Not the code: a rule is ready as soon as something it reads is settled.
RoundEarly ==
  /\ phase = "order" /\ ready = {} /\ Remaining # {}
  /\ ready' = {p \in Remaining : Needs(p) = {} \/ Needs(p) \cap Settled # {}}
  /\ phase' = IF ready' = {} THEN "stuck" ELSE phase
  /\ UNCHANGED <<rules, fault, ordered, walk, working, next, sized, saw>>

\* Not the code: a round with nothing ready is tried again.
RoundForever ==
  /\ phase = "order" /\ ready = {} /\ Remaining # {}
  /\ ready' = {p \in Remaining : Needs(p) \subseteq Settled}
  /\ UNCHANGED <<rules, phase, fault, ordered, walk, working, next, sized, saw>>

\* Not the code: the search for a ring begins as soon as one rule is not ready.
RoundGivesUp ==
  /\ phase = "order" /\ ready = {} /\ Remaining # {}
  /\ ready' = {p \in Remaining : Needs(p) \subseteq Settled}
  /\ phase' = IF ready' # Remaining THEN "stuck" ELSE phase
  /\ UNCHANGED <<rules, fault, ordered, walk, working, next, sized, saw>>

Round ==
  /\ phase = "order" /\ ready = {} /\ Remaining # {}
  /\ ready' = {p \in Remaining : Needs(p) \subseteq Settled}
  /\ phase' = IF ready' = {} THEN "stuck" ELSE phase
  /\ UNCHANGED <<rules, fault, ordered, walk, working, next, sized, saw>>

Place ==
  /\ phase = "order"
  /\ \E p \in ready : /\ First(p, ready)
                      /\ ordered' = Append(ordered, p)
                      /\ ready' = ready \ {p}
  /\ UNCHANGED <<rules, phase, fault, walk, working, next, sized, saw>>

Stuck ==
  /\ phase = "stuck" /\ walk = <<>>
  /\ \E p \in Remaining : First(p, Remaining) /\ walk' = <<p>>
  /\ UNCHANGED <<rules, phase, fault, ordered, ready, working, next, sized, saw>>

\* Not the code: the whole walk is named, with what only led to the ring.
FollowWhole ==
  /\ phase = "stuck" /\ walk # <<>>
  /\ LET waiting == Needs(walk[Len(walk)]) \cap Remaining
     IN  \E q \in waiting :
           /\ Earliest(q, waiting)
           /\ IF \A i \in 1..Len(walk) : walk[i] # q
              THEN walk' = Append(walk, q) /\ UNCHANGED <<phase, fault>>
              ELSE walk' = walk /\ phase' = "failed" /\ fault' = "cycle"
  /\ UNCHANGED <<rules, ordered, ready, working, next, sized, saw>>

\* The ring is the part of the walk from where it came back to.
Follow ==
  /\ phase = "stuck" /\ walk # <<>>
  /\ LET waiting == Needs(walk[Len(walk)]) \cap Remaining
     IN  \E q \in waiting :
           /\ Earliest(q, waiting)
           /\ \/ /\ \A i \in 1..Len(walk) : walk[i] # q
                 /\ walk' = Append(walk, q)
                 /\ UNCHANGED <<phase, fault>>
              \/ \E i \in 1..Len(walk) :
                   /\ walk[i] = q
                   /\ walk' = SubSeq(walk, i, Len(walk))
                   /\ phase' = "failed" /\ fault' = "cycle"
  /\ UNCHANGED <<rules, ordered, ready, working, next, sized, saw>>

Ordered ==
  /\ phase = "order" /\ ready = {} /\ Remaining = {}
  /\ phase' = "size"
  /\ UNCHANGED <<rules, fault, ordered, ready, walk, working, next, sized, saw>>

-----------------------------------------------------------------------------
(* The values.                                                             *)

Came(rule, raw) == IF rule.unit = "text" THEN AsText(raw) ELSE AsNumber(rule, raw)

\* Not the code: what a rule reads is what another came to before it was rounded.
SizeOnRaw ==
  /\ phase = "size" /\ next <= Len(ordered)
  /\ LET p == ordered[next]
         raw == Formula(rules[p].expr, working)
         defect == Defect(rules[p], raw)
     IN  \/ /\ defect # "none"
            /\ phase' = "failed" /\ fault' = defect
            /\ UNCHANGED <<next, working, sized, saw>>
         \/ /\ defect = "none"
            /\ sized' = [sized EXCEPT ![p] = Came(rules[p], raw)]
            /\ saw' = [saw EXCEPT ![p] = working]
            /\ working' = [n \in DOMAIN working \cup {p} |->
                             IF n = p THEN raw ELSE working[n]]
            /\ next' = next + 1
            /\ UNCHANGED <<phase, fault>>
  /\ UNCHANGED <<rules, ordered, ready, walk>>

Size ==
  /\ phase = "size" /\ next <= Len(ordered)
  /\ LET p == ordered[next]
         raw == Formula(rules[p].expr, working)
         defect == Defect(rules[p], raw)
     IN  \/ /\ defect # "none"
            /\ phase' = "failed" /\ fault' = defect
            /\ UNCHANGED <<next, working, sized, saw>>
         \/ /\ defect = "none"
            /\ sized' = [sized EXCEPT ![p] = Came(rules[p], raw)]
            /\ saw' = [saw EXCEPT ![p] = working]
            /\ working' = [n \in DOMAIN working \cup {p} |->
                             IF n = p THEN sized'[p].value ELSE working[n]]
            /\ next' = next + 1
            /\ UNCHANGED <<phase, fault>>
  /\ UNCHANGED <<rules, ordered, ready, walk>>

Done ==
  /\ phase = "size" /\ next > Len(ordered)
  /\ phase' = "done"
  /\ UNCHANGED <<rules, fault, ordered, ready, walk, working, next, sized, saw>>

Compute == Read \/ Round \/ Place \/ Stuck \/ Follow \/ Ordered \/ Size \/ Done

Next == (\E rs \in RuleSets, scope \in Scopes : Start(rs, scope)) \/ Compute

Spec == Init /\ [][Next]_vars /\ WF_vars(Compute)
-----------------------------------------------------------------------------
(* What is claimed of it.                                                  *)

\* The state of an evaluation is what the rest of this module says it is.
TypeOK ==
  /\ phase \in {"waiting", "read", "order", "stuck", "size", "done", "failed"}
  /\ fault \in {"none", "rule", "cycle", "unreported", "traceback"}
  /\ ordered \in Seq(Params) /\ walk \in Seq(Params) /\ ready \subseteq Params
  /\ next \in 1..Len(ordered) + 1
  /\ DOMAIN sized = Params /\ DOMAIN saw = Params
  /\ (phase = "failed") = (fault # "none")

\* No parameter is computed before what it reads, nor from anything but the
\* value the plan will carry for it, after rounding and bounds: evaluate() and
\* evaluation_order().
ReadsFinal ==
  \A p \in Params : sized[p] # Unsized =>
    \A q \in Needs(p) : sized[q] # Unsized /\ saw[p][q] = sized[q].value

\* Rounding never takes a value below its minimum, nor do the bounds leave one
\* outside them: the order of _rounded and _bounded, whatever the step, the
\* bounds and the formula are.
WithinBounds ==
  \A p \in Params : sized[p].value.t = "number" =>
    /\ Given(rules[p].minimum) => sized[p].value.v >= Whole(rules[p], Floor(rules[p]))
    /\ Given(rules[p].maximum) => sized[p].value.v <= Whole(rules[p], Ceiling(rules[p]))

\* A set of parameters each of which needs another of the set.
Trapped(S) == S # {} /\ \A p \in S : Needs(p) \cap S # {}

\* Rules are refused as a ring when, and only when, no order of them exists:
\* evaluation_order() gives up neither too early nor too late.
OrderIfAny ==
  /\ phase \in {"size", "done"} => \A S \in SUBSET Params : ~Trapped(S)
  /\ fault = "cycle" => \E S \in SUBSET Params : Trapped(S)

\* The ring named in the refusal is one: each of its parameters reads the one
\* named after it, the last reads the first, and none is named twice (_cycle).
RingIsReal ==
  fault = "cycle" =>
    /\ walk # <<>>
    /\ \A i, j \in 1..Len(walk) : walk[i] = walk[j] => i = j
    /\ \A i \in 1..Len(walk) : walk[IF i = Len(walk) THEN 1 ELSE i + 1] \in Needs(walk[i])

\* Every rule still here is waiting for another one that is also still here: the
\* search for a ring never asks for the first of none, and never walks out of
\* the rules that are left (_cycle, which says so and takes sorted(...)[0]).
GoesOn ==
  /\ phase = "order" /\ ready # {} => \E p \in ready : First(p, ready)
  /\ phase = "stuck" =>
       /\ \E p \in Remaining : First(p, Remaining)
       /\ walk # <<>> =>
            LET waiting == Needs(walk[Len(walk)]) \cap Remaining
            IN  \E q \in waiting : Earliest(q, waiting)

\* An evaluation ends, whatever reads what: no order is looked for for ever.
Settles == phase = "read" ~> phase \in {"done", "failed"}
=============================================================================
