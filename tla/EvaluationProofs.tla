-------------------------- MODULE EvaluationProofs --------------------------
(***************************************************************************)
(* What TLAPS proves of a call of Command from what is proved of the       *)
(* language of its rules, for every session, profile and machine.          *)
(*                                                                         *)
(* A process raises what nobody catches only where it is said to           *)
(* (Unforeseen): the scopes its expressions are evaluated over have no     *)
(* exception in them (SafeScope), the one that sizing adds to among them,  *)
(* and so nothing but a search in a text makes one (EvaluateIsSafe); and   *)
(* what a setting is found at can be written down unless it may be a group *)
(* of facts (GaplessUnlessGroups).                                         *)
(*                                                                         *)
(* What was not said decides nothing: the scope of a host that says more   *)
(* only fills in that of the one that says less (Fills), and what a rule   *)
(* came to over the one it comes to over the other (EvaluateFills).  The   *)
(* same holds of any host whose facts say more (NoAnswerIsMissed) and of   *)
(* an instance of which more sections or settings were read, or more than  *)
(* an empty list (NoLessVerifies).                                         *)
(*                                                                         *)
(* What a plan does not list is so already (NothingIsLeftOut): every       *)
(* setting that was not found as it is to be is a change (ActionsMade),    *)
(* and it is found at what the machine said of it (KernelIsRead).          *)
(***************************************************************************)
EXTENDS CommandProofs

-----------------------------------------------------------------------------
(* The scopes.                                                             *)

LEMMA WhatIsSaidIsSafe ==
  /\ \A s : Safe0(Word(s))
  /\ \A x : Safe0(Numeral(x))
  /\ \A b : Safe0(YesNo(b))
  /\ Safe0(Unreported) /\ Safe0(Nothing)
  BY DEF Safe0, Word, Numeral, YesNo, Unreported, Nothing

LEMMA WhatMayBeSaidIsSafe ==
  ASSUME NEW S, \A v \in S : Safe0(v)
  PROVE  Safe0(OrUnreported(S))
  BY WhatIsSaidIsSafe DEF OrUnreported

LEMMA NumeralsAreSafe ==
  ASSUME NEW S
  PROVE  Safe0(OrUnreported(Numerals(S)))
<1>1. \A v \in Numerals(S) : Safe0(v)
  BY WhatIsSaidIsSafe DEF Numerals
<1> QED
  BY <1>1, WhatMayBeSaidIsSafe

LEMMA GroupIsSafe ==
  ASSUME NEW g
  PROVE  /\ (\A n \in DOMAIN g : Safe0(g[n])) => Safe1(Group(g))
         /\ (\A n \in DOMAIN g : Safe1(g[n])) => Safe(Group(g))
  BY DEF Safe, Safe1, Group

LEMMA HostScopeIsSafe ==
  ASSUME NEW f
  PROVE  Safe(HostScope(f))
<1> USE WhatIsSaidIsSafe
<1> DEFINE codename == OrUnreported({Word(c.word) : c \in f.codename})
           threads == OrUnreported(Numerals(f.threads))
           available == OrUnreported(Numerals(f.available))
           swap == OrUnreported(Numerals(f.swap))
           swappiness == OrUnreported(Numerals(f.swappiness))
           hugepages == OrUnreported({Word(s) : s \in f.thp})
           synchronized == OrUnreported({YesNo(s.synchronized) : s \in f.sync})
           active == OrUnreported({YesNo(w.active) : w \in f.firewall})
<1>1. /\ Safe0(codename) /\ Safe0(hugepages) /\ Safe0(synchronized) /\ Safe0(active)
      /\ Safe0(threads) /\ Safe0(available) /\ Safe0(swap) /\ Safe0(swappiness)
  BY WhatMayBeSaidIsSafe, NumeralsAreSafe
<1> DEFINE os == Group([family |-> Word(f.family.word), distro |-> Word(f.distro.word),
                        codename |-> codename])
           cpu == Group([cores |-> Numeral(2 * f.cores), threads |-> threads])
           memory == Group([total_bytes |-> Numeral(2 * f.memory), available_bytes |-> available,
                            swap_bytes |-> swap])
           kernel == Group([swappiness |-> swappiness, transparent_hugepages |-> hugepages])
           time_sync == Group([synchronized |-> synchronized])
           firewall == Group([active |-> active])
           privileges == Group([can_escalate |-> YesNo(f.escalate)])
           g == [name |-> Word(f.host), arch |-> Word(f.arch.word), os |-> os, cpu |-> cpu,
                 memory |-> memory, kernel |-> kernel, time_sync |-> time_sync,
                 firewall |-> firewall, privileges |-> privileges]
<1>2. HostScope(f) = Group(g)
  BY DEF HostScope
<1> HIDE DEF codename, threads, available, swap, swappiness, hugepages, synchronized, active
<1>3. Safe1(os) /\ Safe1(cpu) /\ Safe1(memory)
  BY <1>1, GroupIsSafe
<1>4. Safe1(kernel) /\ Safe1(time_sync) /\ Safe1(firewall) /\ Safe1(privileges)
  BY <1>1, GroupIsSafe
<1> HIDE DEF os, cpu, memory, kernel, time_sync, firewall, privileges
<1>5. \A n \in DOMAIN g : Safe1(g[n])
  BY <1>3, <1>4, SafeGrows
<1> QED
  BY <1>2, <1>5, GroupIsSafe

LEMMA PathScopeIsSafe ==
  ASSUME NEW f, NEW path
  PROVE  Safe1(PathScope(f, path))
<1> USE WhatIsSaidIsSafe
<1> DEFINE mount == MountFor(f, path)
           filesystem == OrUnreported({Word(m.filesystem) : m \in mount})
           free_bytes == OrUnreported(Numerals({m.free : m \in mount}))
           total_bytes == OrUnreported(Numerals({m.total : m \in mount}))
           rotational == OrUnreported({YesNo(r) : r \in UNION {m.rotational : m \in mount}})
           read_only == OrUnreported({YesNo(ReadOnly(m)) : m \in mount})
           g == [filesystem |-> filesystem, free_bytes |-> free_bytes, total_bytes |-> total_bytes,
                 rotational |-> rotational, read_only |-> read_only]
<1>1. /\ Safe0(filesystem) /\ Safe0(free_bytes) /\ Safe0(total_bytes)
      /\ Safe0(rotational) /\ Safe0(read_only)
  <2> HIDE DEF mount
  <2> QED
    BY WhatMayBeSaidIsSafe, NumeralsAreSafe
<1>2. PathScope(f, path) = Group(g)
  BY DEF PathScope
<1> HIDE DEF filesystem, free_bytes, total_bytes, rotational, read_only
<1> QED
  BY <1>1, <1>2, GroupIsSafe

LEMMA BuildScopeIsSafe ==
  ASSUME NEW f, NEW profile, NEW request, NEW paths
  PROVE  SafeScope(BuildScope(f, profile, request, paths))
<1> USE WhatIsSaidIsSafe
<1> DEFINE scope == BuildScope(f, profile, request, paths)
           asked == [environment |-> Word(request.environment), version |-> Word(request.version),
                     port |-> Numeral(2 * request.port), chosen_version |-> YesNo(request.chosen)]
           locale == OrUnreported({Word(l.lang) : l \in profile.default_locale})
           named == [engine |-> Word(profile.engine),
                     default_port |-> Numeral(2 * profile.default_port), locale |-> locale]
           placed == [p \in DOMAIN paths |-> PathScope(f, paths[p].path)]
<1>1. Safe(Group(asked)) /\ Safe(Group(named))
  <2>1. Safe(Group(asked))
    BY GroupIsSafe, SafeGrows
  <2>2. Safe0(locale)
    BY WhatMayBeSaidIsSafe
  <2> HIDE DEF locale
  <2>3. Safe(Group(named))
    BY <2>2, GroupIsSafe, SafeGrows
  <2> QED
    BY <2>1, <2>3
<1>2. Safe(Group(placed))
  <2>1. \A p \in DOMAIN placed : Safe1(placed[p])
    BY PathScopeIsSafe
  <2> QED
    BY <2>1, GroupIsSafe
<1>3. Safe(Numeral(2)) /\ Safe(Nothing)
  BY SafeGrows
<1>4. /\ DOMAIN scope = {"host", "request", "profile", "path", "GiB", "none"}
      /\ scope["host"] = HostScope(f) /\ scope["request"] = Group(asked)
      /\ scope["profile"] = Group(named) /\ scope["path"] = Group(placed)
      /\ scope["GiB"] = Numeral(2) /\ scope["none"] = Nothing
  BY DEF BuildScope
<1> HIDE DEF scope, asked, named, placed
<1> QED
  BY <1>1, <1>2, <1>3, <1>4, HostScopeIsSafe DEF SafeScope, scope

LEMMA VerificationScopeIsSafe ==
  ASSUME NEW says, NEW observations
  PROVE  SafeScope(VerificationScope(says, observations))
<1> USE WhatIsSaidIsSafe
<1> DEFINE scope == VerificationScope(says, observations)
           asked == [environment |-> Word(says.request.environment),
                     port |-> Numeral(2 * says.request.port)]
           plan == [request |-> Group(asked)]
           observed == [k \in KINDS |-> IF k \in DOMAIN observations
                                        THEN ObservedKind(k, observations[k]) ELSE Unreported]
<1>1. Safe(Group(plan))
  <2>1. Safe1(Group(asked))
    BY GroupIsSafe
  <2> QED
    BY <2>1, GroupIsSafe
<1>2. ASSUME NEW kind \in KINDS, NEW reading PROVE Safe1(ObservedKind(kind, reading))
  <2> DEFINE g == ObservedKind(kind, reading).g
  <2>1. ObservedKind(kind, reading) = Group(g)
    BY DEF ObservedKind, Group
  <2>2. \A n \in DOMAIN g : Safe0(g[n])
    BY <1>2 DEF ObservedKind, Group, KINDS
  <2> HIDE DEF g
  <2> QED
    BY <2>1, <2>2, GroupIsSafe
<1>3. Safe(Group(observed))
  <2>1. \A k \in DOMAIN observed : Safe1(observed[k])
    BY <1>2, SafeGrows
  <2> QED
    BY <2>1, GroupIsSafe
<1>4. Safe(Numeral(2)) /\ Safe(Nothing)
  BY SafeGrows
<1>5. /\ DOMAIN scope = {"plan", "observed", "GiB", "none"}
      /\ scope["plan"] = Group(plan) /\ scope["observed"] = Group(observed)
      /\ scope["GiB"] = Numeral(2) /\ scope["none"] = Nothing
  BY DEF VerificationScope
<1> HIDE DEF scope, plan, observed
<1> QED
  BY <1>1, <1>3, <1>4, <1>5 DEF SafeScope, scope
-----------------------------------------------------------------------------
(* What can raise, step by step.                                           *)

\* A template of a path that cannot be filled in, or that is not absolute.
Unfillable(t) == ~t.absolute \/ ~t.closed \/ ~(Holes(t) \subseteq {"engine", "instance", "version"})

LEMMA EvaluateRaises ==
  ASSUME NEW e, Formed(e), Readable(e), NEW scope, SafeScope(scope),
         Evaluate(e, scope).t = "traceback"
  PROVE  Searches(e)
<1>1. SUFFICES ASSUME ~Searches(e) PROVE FALSE
  OBVIOUS
<1>2. \A i \in DOMAIN e : ~Searching(e[i])
  BY <1>1 DEF Searches, Searching
<1> QED
  BY <1>2, EvaluateIsSafe DEF Safe

LEMMA TheExpressed ==
  ASSUME NEW d, Schematic(d)
  PROVE  /\ \A i \in DOMAIN d.gates : \A e \in d.gates[i].applies_to \cup {d.gates[i].expr} :
              e \in Expressed(d) /\ Formed(e)
         /\ \A i \in DOMAIN d.sizing : d.sizing[i].expr \in Expressed(d) /\ Formed(d.sizing[i].expr)
         /\ \A i \in DOMAIN d.tunables : \A e \in d.tunables[i].observed :
              e \in Expressed(d) /\ Formed(e)
         /\ \A i \in DOMAIN d.checks : \A e \in d.checks[i].expr : e \in Expressed(d) /\ Formed(e)
<1>1. \A e \in Expressed(d) : Formed(e)
  BY DEF Schematic
<1> DEFINE g == UNION {d.gates[i].applies_to \cup {d.gates[i].expr} : i \in DOMAIN d.gates}
           s == {d.sizing[i].expr : i \in DOMAIN d.sizing}
           t == UNION {d.tunables[i].observed : i \in DOMAIN d.tunables}
           c == UNION {d.checks[i].expr : i \in DOMAIN d.checks}
<1>2. \A i \in DOMAIN d.gates : \A e \in d.gates[i].applies_to \cup {d.gates[i].expr} : e \in g
  OBVIOUS
<1>3. \A i \in DOMAIN d.sizing : d.sizing[i].expr \in s
  OBVIOUS
<1>4. \A i \in DOMAIN d.tunables : \A e \in d.tunables[i].observed : e \in t
  OBVIOUS
<1>5. \A i \in DOMAIN d.checks : \A e \in d.checks[i].expr : e \in c
  OBVIOUS
<1>6. Expressed(d) = g \cup s \cup t \cup c
  BY DEF Expressed
<1> HIDE DEF g, s, t, c
<1> QED
  BY <1>1, <1>2, <1>3, <1>4, <1>5, <1>6

LEMMA AskedRaises ==
  ASSUME NEW e, Formed(e), NEW scope, SafeScope(scope), Asked(e, scope).t = "traceback"
  PROVE  Searches(e)
<1>1. CASE Readable(e)
  <2>1. Truthy(Evaluate(e, scope)).t = "traceback"
    BY <1>1 DEF Asked, Truth
  <2>2. Evaluate(e, scope).t = "traceback"
    BY <2>1 DEF Truthy, Failed, Error
  <2> QED
    BY <1>1, <2>2, EvaluateRaises
<1>2. CASE ~Readable(e)
  BY <1>2 DEF Asked, Error
<1> QED
  BY <1>1, <1>2

LEMMA RuleRaises ==
  ASSUME NEW rule, \A e \in rule.applies_to \cup {rule.expr} : Formed(e),
         NEW scope, SafeScope(scope), EvaluateRule(rule, scope).as = "traceback"
  PROVE  \E e \in rule.applies_to \cup {rule.expr} : Searches(e)
<1> DEFINE applies == {Asked(e, scope) : e \in rule.applies_to}
           v == Default(applies, Nothing)
<1>1. ASSUME NEW w, Verdict(w).as = "traceback" PROVE w.t = "traceback"
  BY <1>1 DEF Verdict
<1>2. CASE \E a \in applies : a # YesNo(TRUE)
  <2>1. v \in applies
    BY <1>2 DEF Default
  <2>2. PICK e \in rule.applies_to : v = Asked(e, scope)
    BY <2>1
  <2>3. EvaluateRule(rule, scope) = Verdict(IF v = YesNo(FALSE) THEN Unreported ELSE v)
    BY <1>2 DEF EvaluateRule
  <2> HIDE DEF v
  <2>4. v.t = "traceback"
    <3>1. EvaluateRule(rule, scope) = Verdict(v) \/ EvaluateRule(rule, scope) = Verdict(Unreported)
      BY <2>3, Zenon
    <3>2. Unreported.t # "traceback"
      BY DEF Unreported
    <3> QED
      BY <1>1, <3>1, <3>2
  <2> QED
    BY <2>2, <2>4, AskedRaises
<1>3. CASE ~\E a \in applies : a # YesNo(TRUE)
  <2>1. EvaluateRule(rule, scope) = Verdict(Asked(rule.expr, scope))
    BY <1>3 DEF EvaluateRule
  <2>2. Asked(rule.expr, scope).t = "traceback"
    BY <1>1, <2>1
  <2> QED
    BY <2>2, AskedRaises
<1> QED
  BY <1>2, <1>3

LEMMA PathsRaise ==
  ASSUME NEW profile, NEW request, ResolvePaths(profile, request) = {}
  PROVE  \E p \in DOMAIN profile.paths : Unfillable(profile.paths[p].default)
<1> DEFINE values == [engine |-> {request.engine}, instance |-> {request.instance},
                      version |-> {request.version}]
           Where(p) == Substitute(profile.paths[p].default, values)
<1>1. PICK p \in DOMAIN profile.paths : Where(p) = {} \/ ~profile.paths[p].default.absolute
  BY DEF ResolvePaths
<1> DEFINE t == profile.paths[p].default
<1>2. DOMAIN values = {"engine", "instance", "version"} /\ \A n \in DOMAIN values : values[n] # {}
  OBVIOUS
<1>3. Where(p) = {} => ~t.closed \/ ~(Holes(t) \subseteq DOMAIN values)
  <2> HIDE DEF values
  <2> QED
    BY <1>2 DEF Substitute
<1> QED
  BY <1>1, <1>2, <1>3 DEF Unfillable

LEMMA GatesRaise ==
  ASSUME NEW f, NEW d, Schematic(d), NEW request, NEW today,
         EvaluateGates(f, Build(d), request, today).state = "traceback"
  PROVE  \/ \E p \in DOMAIN d.paths : Unfillable(d.paths[p].default)
         \/ \E e \in Expressed(d) : Searches(e)
<1> DEFINE profile == Build(d)
           paths == ResolvePaths(profile, request)
           resolved == Default(paths, <<>>)
           scope == BuildScope(f, profile, request, resolved)
           verdicts == [i \in DOMAIN profile.gates |-> EvaluateRule(profile.gates[i], scope)]
           stops == {i \in DOMAIN verdicts : verdicts[i].as # "met"}
<1>1. profile.gates = d.gates /\ profile.paths = d.paths
  BY DEF Build
<1> HIDE DEF profile
<1>2. CASE paths = {}
  BY <1>1, <1>2, PathsRaise
<1>3. CASE paths # {} /\ stops # {}
  <2>1. stops \in SUBSET Nat
    BY <1>1 DEF Schematic
  <2>2. Min(stops) \in DOMAIN d.gates
    BY <1>1, <1>3, <2>1, Least
  <2> DEFINE i == Min(stops)
  <2>3. verdicts[i].as = "traceback"
    BY <1>3 DEF EvaluateGates, profile
  <2>4. SafeScope(scope)
    BY BuildScopeIsSafe, SMTT(30)
  <2>5. \A e \in d.gates[i].applies_to \cup {d.gates[i].expr} : e \in Expressed(d) /\ Formed(e)
    BY <2>2, TheExpressed
  <2> HIDE DEF scope
  <2>6. EvaluateRule(d.gates[i], scope).as = "traceback"
    BY <1>1, <2>2, <2>3
  <2> HIDE DEF i
  <2> QED
    BY <2>4, <2>5, <2>6, RuleRaises
<1>4. CASE paths # {} /\ stops = {}
  BY <1>4 DEF EvaluateGates, profile
<1> QED
  BY <1>2, <1>3, <1>4

LEMMA ActionsRaise ==
  ASSUME NEW f, NEW d, Schematic(d), NEW request, NEW paths, NEW scope, SafeScope(scope),
         PlanActions(f, Build(d), request, paths, scope).state = "traceback"
  PROVE  \E e \in Expressed(d) : Searches(e)
<1> DEFINE profile == Build(d)
           tunables == [i \in DOMAIN profile.tunables |-> TunableEntry(profile.tunables[i], scope)]
           stops == {i \in DOMAIN tunables : \E v \in tunables[i].observed : Failed(v)}
<1>1. profile.tunables = d.tunables
  BY DEF Build
<1> HIDE DEF profile
<1>2. stops # {} /\ Traceback \in tunables[Min(stops)].observed
  BY DEF PlanActions, profile
<1>3. stops \in SUBSET Nat
  BY <1>1 DEF Schematic
<1>4. Min(stops) \in DOMAIN d.tunables
  BY <1>1, <1>2, <1>3, Least, SMTT(30)
<1> DEFINE i == Min(stops)
<1>5. Traceback \in Observed(d.tunables[i], scope)
  BY <1>1, <1>2, <1>4 DEF TunableEntry
<1> HIDE DEF i, tunables, stops
<1>6. PICK e \in d.tunables[i].observed :
         Traceback = IF Readable(e) THEN Evaluate(e, scope) ELSE Error
  BY <1>5 DEF Observed
<1>7. e \in Expressed(d) /\ Formed(e)
  BY <1>4, TheExpressed DEF i
<1>8. Readable(e) /\ Evaluate(e, scope).t = "traceback"
  BY <1>6 DEF Traceback, Error
<1> QED
  BY <1>7, <1>8, EvaluateRaises

LEMMA VerifyRaises ==
  ASSUME NEW plan, NEW d, Schematic(d), NEW observation,
         Verify(plan, Build(d), observation).state = "traceback"
  PROVE  \/ \E e \in Expressed(d) : Searches(e)
         \/ \E i \in DOMAIN d.checks : \E e \in d.checks[i].expr : ~Readable(e)
<1> DEFINE profile == Build(d)
           observations == observation.observations
           scope == VerificationScope(plan.says, observations)
           outcomes == [i \in DOMAIN profile.checks |->
                          Check(profile.checks[i], plan.says, observations, scope)]
           stops == {i \in DOMAIN outcomes : outcomes[i] \in {"error", "traceback"}}
<1>1. profile.checks = d.checks
  BY DEF Build
<1> HIDE DEF profile
<1>2. stops # {} /\ outcomes[Min(stops)] # "error"
  BY DEF Verify, profile
<1>3. stops \in SUBSET Nat
  BY <1>1 DEF Schematic
<1>4. Min(stops) \in stops
  BY <1>2, <1>3, Least
<1> DEFINE i == Min(stops)
           entry == d.checks[i]
<1>5. i \in DOMAIN d.checks /\ Check(entry, plan.says, observations, scope) = "traceback"
  BY <1>1, <1>2, <1>4
<1>6. SafeScope(scope)
  BY VerificationScopeIsSafe
<1> HIDE DEF i, stops, outcomes, scope
<1>7. entry.kind \in KINDS /\ \A e \in entry.expr : e \in Expressed(d) /\ Formed(e)
  BY <1>5, TheExpressed DEF Schematic, entry
<1> HIDE DEF entry
<1>8. Judgement(entry.kind, plan.says, observations[entry.kind]) # "traceback"
  BY <1>7 DEF KINDS, Judgement, Passed, JudgeService, JudgePort, JudgeConnection, JudgeVersion,
     JudgeParameters, JudgePaths, JudgeLog, JudgeBackup, JudgeAuth, JudgeAccount,
     JudgeInitialization
<1>9. entry.expr # {} /\ Narrowed(Default(entry.expr, Nothing), scope) = "traceback"
  BY <1>5, <1>8 DEF Check
<1> DEFINE e == Default(entry.expr, Nothing)
<1>10. e \in entry.expr
  BY <1>9 DEF Default
<1> HIDE DEF e
<1>11. CASE Readable(e)
  <2>1. Truth(e, scope).t = "traceback"
    BY <1>9, <1>11 DEF Narrowed, Passed, e
  <2>2. Evaluate(e, scope).t = "traceback"
    BY <2>1 DEF Truth, Truthy, Failed, Error
  <2> QED
    BY <1>6, <1>7, <1>10, <1>11, <2>2, EvaluateRaises
<1>12. CASE ~Readable(e)
  BY <1>5, <1>10, <1>12 DEF entry
<1> QED
  BY <1>11, <1>12

-----------------------------------------------------------------------------
(* What a setting was found at can be written down.                        *)

\* A node comes to a group only if it is a name, a member of a group or a condition.
LEMMA GroupsComeFrom ==
  ASSUME NEW node, NEW n \in Nat, Taking(node, n), NEW scope, NEW v, DOMAIN v = 1..n,
         Combine(node, v, scope).t = "group"
  PROVE  LET w == Combine(node, v, scope)
         IN  \/ node.op = "name" /\ node.n \in DOMAIN scope /\ w = scope[node.n]
             \/ /\ node.op = "of" /\ v[1].t = "group" /\ node.n \in DOMAIN v[1].g
                /\ w = v[1].g[node.n]
             \/ node.op = "if" /\ (w = v[2] \/ w = v[3])
<1> USE DEF Taking
<1> DEFINE w == Combine(node, v, scope)
<1>1. /\ Error.t # "group" /\ \A b : YesNo(b).t # "group"
      /\ \A x : Numeral(x).t # "group"
  BY DEF Error, YesNo, Numeral
<1>2. ASSUME NEW x PROVE Truthy(x).t # "group" /\ Count(x).t # "group"
  BY DEF Truthy, Count, Failed, Error
<1>3. ASSUME NEW x, NEW y, NEW z, z.t # "group" PROVE FirstFailed(x, y, z).t # "group"
  BY <1>3 DEF FirstFailed, Failed
<1>4. node.op # "constant"
  <2>1. node.op = "constant" => w = node.c
    BY DEF Combine, ARITHMETIC
  <2> QED
    BY <2>1
<1>5. CASE node.op = "name"
  <2>1. w = Resolve(scope, node.n)
    BY <1>5 DEF Combine, ARITHMETIC
  <2> QED
    BY <1>1, <1>5, <2>1 DEF Resolve
<1>6. CASE node.op = "of"
  <2>1. w = IF Failed(v[1]) THEN v[1]
            ELSE IF v[1].t = "group" THEN Resolve(v[1].g, node.n) ELSE Error
    BY <1>6 DEF Combine, ARITHMETIC
  <2>2. v[1].t = "group" /\ w = Resolve(v[1].g, node.n)
    BY <1>1, <2>1 DEF Failed
  <2> QED
    BY <1>1, <1>6, <2>2 DEF Resolve
<1>7. node.op \notin ARITHMETIC
  <2> SUFFICES ASSUME node.op \in ARITHMETIC PROVE FALSE
    OBVIOUS
  <2>1. w = FirstFailed(Count(v[1]), Count(v[2]), Arithmetic(node.op, v[1].v, v[2].v))
    BY DEF Combine, ARITHMETIC
  <2>2. ASSUME NEW x, NEW y PROVE Arithmetic(node.op, x, y).t # "group"
    <3>1. Arithmetic(node.op, x, y) = Error \/ \E z : Arithmetic(node.op, x, y) = Numeral(z)
      BY DEF Arithmetic, ARITHMETIC
    <3> QED
      BY <1>1, <3>1
  <2> QED
    BY <1>3, <2>1, <2>2
<1>8. node.op # "minus"
  <2> SUFFICES ASSUME node.op = "minus" PROVE FALSE
    OBVIOUS
  <2>1. w = FirstFailed(Count(v[1]), v[1], Numeral(-v[1].v))
    BY DEF Combine, ARITHMETIC
  <2> QED
    BY <1>1, <1>3, <2>1
<1>9. node.op # "plus" /\ node.op # "not"
  <2>1. node.op = "plus" => w = Count(v[1])
    BY DEF Combine, ARITHMETIC
  <2>2. node.op = "not" => w = Negated(Truthy(v[1]))
    BY DEF Combine, ARITHMETIC
  <2>3. Negated(Truthy(v[1])).t # "group"
    BY <1>1, <1>2 DEF Negated
  <2> QED
    BY <1>2, <2>1, <2>2, <2>3
<1>10. node.op \notin {"and", "or"}
  <2> SUFFICES ASSUME node.op \in {"and", "or"} PROVE FALSE
    OBVIOUS
  <2> DEFINE answers == [i \in DOMAIN v |-> Truthy(v[i])]
  <2>1. w = Until(answers, node.op = "and")
    BY DEF Combine, ARITHMETIC
  <2>2. DOMAIN answers = 1..n /\ \A i \in 1..n : answers[i].t # "group"
    BY <1>2
  <2> HIDE DEF answers
  <2> QED
    BY <1>1, <2>1, <2>2, UntilIsOne
<1>11. node.op # "compare"
  <2> SUFFICES ASSUME node.op = "compare" PROVE FALSE
    OBVIOUS
  <2> DEFINE answers == [i \in DOMAIN node.by |->
                           FirstFailed(v[i], v[i + 1], Compare(node.by[i], v[i], v[i + 1]))]
  <2>1. w = Until(answers, TRUE)
    BY DEF Combine, ARITHMETIC
  <2>2. ASSUME NEW i \in 1..(n - 1) PROVE answers[i].t # "group"
    <3>1. node.by[i] \in COMPARISONS /\ i \in DOMAIN node.by
      OBVIOUS
    <3>2. Compare(node.by[i], v[i], v[i + 1]).t # "group"
      BY <3>1, CompareIsPlain
    <3> QED
      BY <1>3, <3>1, <3>2
  <2>3. n - 1 \in Nat /\ DOMAIN answers = 1..(n - 1)
    OBVIOUS
  <2> HIDE DEF answers
  <2>4. \/ Until(answers, TRUE) = YesNo(TRUE)
        \/ \E i \in 1..(n - 1) : Until(answers, TRUE) = answers[i]
    BY <2>3, UntilIsOne
  <2>5. w.t # "group"
    BY <1>1, <2>1, <2>2, <2>4
  <2> QED
    BY <2>5
<1>12. CASE node.op = "if"
  <2>1. w = IF Failed(Truthy(v[1])) THEN Truthy(v[1]) ELSE IF v[1].b THEN v[2] ELSE v[3]
    BY <1>12 DEF Combine, ARITHMETIC
  <2> QED
    BY <1>2, <1>12, <2>1
<1>13. node.op # "list"
  <2> SUFFICES ASSUME node.op = "list" PROVE FALSE
    OBVIOUS
  <2> DEFINE fails == {i \in DOMAIN v : Failed(v[i])}
  <2>1. w = IF fails = {} THEN [t |-> "list", l |-> v] ELSE v[Min(fails)]
    BY DEF Combine, ARITHMETIC
  <2>2. fails # {} => v[Min(fails)].t # "group"
    <3>1. fails \in SUBSET 1..n
      OBVIOUS
    <3>2. \A i \in fails : v[i].t # "group"
      BY DEF Failed
    <3> HIDE DEF fails
    <3>3. fails \in SUBSET Nat
      BY <3>1
    <3> QED
      BY <3>2, <3>3, Least
  <2> HIDE DEF fails
  <2> QED
    BY <2>1, <2>2
<1> QED
  BY <1>4, <1>5, <1>6, <1>7, <1>8, <1>9, <1>10, <1>11, <1>12, <1>13 DEF OPERATORS

\* A scope in which only the host and the paths are groups of groups, and in which
\* who asks for no group somebody may leave something unsaid of reads none that is.
Shallow(v) == v.t = "group" => \A n \in DOMAIN v.g : v.g[n].t # "group"
GroupScope(scope) ==
  /\ \A n \in DOMAIN scope : scope[n].t = "group" => n \in {"host", "path", "profile", "request"}
  /\ \A n \in DOMAIN scope \ {"host", "path"} : Shallow(scope[n])
  /\ \A n \in DOMAIN scope \ {"host", "path", "profile"} : ~Gaping(scope[n])
  /\ \A n \in DOMAIN scope \cap {"host", "path"} :
       scope[n].t = "group" => \A m \in DOMAIN scope[n].g : Shallow(scope[n].g[m])
  /\ "host" \in DOMAIN scope /\ scope["host"].t = "group" =>
       \A m \in DOMAIN scope["host"].g \ SECTIONS : ~Gaping(scope["host"].g[m])

\* What a node of an expression comes to, and what one does that is a part of it.
Wholesome(e, scope, value, parts, i) ==
  /\ \/ Shallow(value[i])
     \/ /\ e[i].op = "name" /\ e[i].n \in DOMAIN scope \cap {"host", "path"}
        /\ value[i] = scope[e[i].n]
  /\ i \in parts => ~Gaping(value[i])

LEMMA NodeIsWholesome ==
  ASSUME NEW e, Formed(e), Readable(e), ~Groups(e), NEW scope, GroupScope(scope),
         NEW parts, NEW value, value = Values(e, scope),
         parts = {j \in DOMAIN e : \/ j = Len(e)
                                   \/ \E i \in DOMAIN e : /\ e[i].op \in {"list", "if"}
                                                          /\ j \in Range(e[i].args)},
         NEW i \in 1..Len(e),
         \A j \in 1..(i - 1) : Wholesome(e, scope, value, parts, j)
  PROVE  Wholesome(e, scope, value, parts, i)
<1> DEFINE node == e[i]
           n == Len(node.args)
           w == Operands(node, value)
<1>1. /\ n \in Nat /\ DOMAIN node.args = 1..n /\ Taking(node, n)
      /\ \A k \in 1..n : node.args[k] \in 1..(i - 1)
  BY NodeTakes
<1>2. DOMAIN w = 1..n /\ \A k \in 1..n : w[k] = value[node.args[k]]
  BY <1>1 DEF Operands
<1>3. value[i] = Combine(node, w, scope)
  BY NodeComesTo
<1>4. DOMAIN e = 1..Len(e)
  BY DEF Formed
<1>5. CASE value[i].t # "group"
  BY <1>5 DEF Wholesome, Shallow, Gaping
<1>6. ASSUME i \in parts
      PROVE  /\ ~(node.op = "name" /\ node.n \in {"host", "path", "profile"})
             /\ ~(/\ node.op = "of" /\ e[node.args[1]].op = "name"
                  /\ \/ e[node.args[1]].n = "path"
                     \/ e[node.args[1]].n = "host" /\ node.n \in SECTIONS)
  BY <1>4, <1>6 DEF Groups
<1>7. CASE value[i].t = "group"
  <2>1. \/ node.op = "name" /\ node.n \in DOMAIN scope /\ value[i] = scope[node.n]
        \/ /\ node.op = "of" /\ w[1].t = "group" /\ node.n \in DOMAIN w[1].g
           /\ value[i] = w[1].g[node.n]
        \/ node.op = "if" /\ (value[i] = w[2] \/ value[i] = w[3])
    <3> HIDE DEF node, n, w
    <3> QED
      BY <1>1, <1>2, <1>3, <1>7, GroupsComeFrom
  <2>2. CASE node.op = "name" /\ node.n \in DOMAIN scope /\ value[i] = scope[node.n]
    <3>1. Shallow(value[i]) \/ node.n \in DOMAIN scope \cap {"host", "path"}
      BY <2>2 DEF GroupScope
    <3>2. i \in parts => ~Gaping(value[i])
      BY <1>6, <2>2 DEF GroupScope
    <3> QED
      BY <2>2, <3>1, <3>2 DEF Wholesome
  <2>3. CASE /\ node.op = "of" /\ w[1].t = "group" /\ node.n \in DOMAIN w[1].g
             /\ value[i] = w[1].g[node.n]
    <3> DEFINE j == node.args[1]
    <3>1. j \in 1..(i - 1) /\ w[1] = value[j]
      BY <1>1, <1>2, <2>3 DEF Taking
    <3>2. ~Shallow(value[j])
      BY <1>7, <2>3, <3>1 DEF Shallow
    <3>3. /\ e[j].op = "name" /\ e[j].n \in DOMAIN scope \cap {"host", "path"}
          /\ value[j] = scope[e[j].n]
      BY <3>1, <3>2 DEF Wholesome
    <3>4. Shallow(value[i])
      BY <2>3, <3>1, <3>3 DEF GroupScope
    <3>5. i \in parts => e[j].n = "host" /\ node.n \notin SECTIONS
      BY <1>6, <2>3, <3>3
    <3>6. i \in parts => ~Gaping(value[i])
      BY <2>3, <3>1, <3>3, <3>5 DEF GroupScope
    <3> QED
      BY <3>4, <3>6 DEF Wholesome
  <2>4. CASE node.op = "if" /\ (value[i] = w[2] \/ value[i] = w[3])
    <3>1. PICK k \in 1..n : value[i] = w[k]
      BY <1>1, <2>4 DEF Taking
    <3> DEFINE j == node.args[k]
    <3>2. j \in 1..(i - 1) /\ value[i] = value[j]
      BY <1>1, <1>2, <3>1
    <3>3. j \in DOMAIN e /\ j \in Range(node.args)
      BY <1>1, <1>4, <3>2 DEF Range
    <3>4. j \in parts
      BY <1>4, <2>4, <3>3
    <3>5. ~(e[j].op = "name" /\ e[j].n \in {"host", "path"})
      BY <1>4, <2>4, <3>3 DEF Groups
    <3> HIDE DEF j
    <3>6. Shallow(value[j]) /\ ~Gaping(value[j])
      BY <3>2, <3>4, <3>5 DEF Wholesome
    <3> QED
      BY <3>2, <3>6 DEF Wholesome
  <2> QED
    BY <2>1, <2>2, <2>3, <2>4
<1> QED
  BY <1>5, <1>7

\* What is found at no group somebody may leave something unsaid of can be written.
LEMMA GaplessUnlessGroups ==
  ASSUME NEW e, Formed(e), Readable(e), ~Groups(e), NEW scope, GroupScope(scope)
  PROVE  Gapless(e, scope)
<1> DEFINE value == Values(e, scope)
           parts == {j \in DOMAIN e : \/ j = Len(e)
                                      \/ \E i \in DOMAIN e : /\ e[i].op \in {"list", "if"}
                                                             /\ j \in Range(e[i].args)}
           S == {i \in 1..Len(e) : Wholesome(e, scope, value, parts, i)}
<1>1. Len(e) \in Nat /\ DOMAIN e = 1..Len(e) /\ Len(e) > 0
  BY DEF Formed
<1>2. ASSUME NEW i \in 1..Len(e), \A j \in 1..(i - 1) : j \in S
      PROVE  i \in S
  <2>1. \A j \in 1..(i - 1) : Wholesome(e, scope, value, parts, j)
    BY <1>2
  <2> HIDE DEF value
  <2> QED
    BY <2>1, NodeIsWholesome DEF value
<1>3. 1..Len(e) \subseteq S
  <2> HIDE DEF S
  <2> QED
    BY <1>1, <1>2, NodeByNode
<1>4. \A i \in parts : ~Gaping(value[i])
  BY <1>1, <1>3 DEF Wholesome
<1>5. parts \in SUBSET DOMAIN e /\ Len(e) \in parts
  BY <1>1
<1>6. ASSUME NEW i \in parts
      PROVE  /\ e[i].op = "list" => Range(e[i].args) \subseteq parts
             /\ e[i].op = "if" => \A k \in {2, 3} : e[i].args[k] \in parts
  <2>1. i \in 1..Len(e) /\ i \in DOMAIN e
    BY <1>1
  <2>2. /\ Len(e[i].args) \in Nat /\ DOMAIN e[i].args = 1..Len(e[i].args)
        /\ Taking(e[i], Len(e[i].args))
        /\ \A k \in 1..Len(e[i].args) : e[i].args[k] \in 1..(i - 1)
    BY <2>1, NodeTakes
  <2>3. Range(e[i].args) \subseteq DOMAIN e
    BY <1>1, <2>1, <2>2 DEF Range
  <2>4. e[i].op \in {"list", "if"} => Range(e[i].args) \subseteq parts
    BY <2>1, <2>3
  <2>5. e[i].op = "if" => \A k \in {2, 3} : e[i].args[k] \in Range(e[i].args)
    <3> DEFINE args == e[i].args
    <3>1. e[i].op = "if" => Len(args) = 3
      BY <2>2 DEF Taking
    <3>2. DOMAIN args = 1..Len(args)
      BY <2>2
    <3> HIDE DEF args
    <3>3. e[i].op = "if" => 2 \in DOMAIN args /\ 3 \in DOMAIN args
      BY <3>1, <3>2
    <3>4. e[i].op = "if" => \A k \in {2, 3} : args[k] \in Range(args)
      BY <3>3, Zenon DEF Range
    <3> QED
      BY <3>4 DEF args
  <2> QED
    BY <2>4, <2>5
<1> HIDE DEF value, parts
<1>7. ASSUME NEW i \in parts
      PROVE  e[i].op = "if" => e[i].args[IF value[e[i].args[1]] = YesNo(TRUE) THEN 2 ELSE 3] \in parts
  BY <1>6, Zenon
<1>8. \A i \in parts :
        /\ ~Gaping(value[i])
        /\ e[i].op = "list" => Range(e[i].args) \subseteq parts
        /\ e[i].op = "if" => e[i].args[IF value[e[i].args[1]] = YesNo(TRUE) THEN 2 ELSE 3] \in parts
  BY <1>4, <1>6, <1>7, Zenon
<1> QED
  BY <1>5, <1>8, Zenon DEF Gapless, value

\* The scope of the gates, which plan.py has from them, is such a scope.
LEMMA GatesAreAsked ==
  ASSUME NEW f, NEW profile, NEW request, NEW paths
  PROVE  GroupScope(BuildScope(f, profile, request, paths))
<1> DEFINE scope == BuildScope(f, profile, request, paths)
           asked == [environment |-> Word(request.environment), version |-> Word(request.version),
                     port |-> Numeral(2 * request.port), chosen_version |-> YesNo(request.chosen)]
           locale == OrUnreported({Word(l.lang) : l \in profile.default_locale})
           named == [engine |-> Word(profile.engine),
                     default_port |-> Numeral(2 * profile.default_port), locale |-> locale]
           placed == [p \in DOMAIN paths |-> PathScope(f, paths[p].path)]
<1>1. /\ DOMAIN scope = {"host", "request", "profile", "path", "GiB", "none"}
      /\ scope["host"] = HostScope(f) /\ scope["request"] = Group(asked)
      /\ scope["profile"] = Group(named) /\ scope["path"] = Group(placed)
      /\ scope["GiB"] = Numeral(2) /\ scope["none"] = Nothing
  BY DEF BuildScope
<1>2. ASSUME NEW x, Safe1(x) PROVE Shallow(x)
  BY <1>2 DEF Safe1, Safe0, Shallow
<1>3. Shallow(Group(asked)) /\ ~Gaping(Group(asked))
  <2>1. \A n \in DOMAIN asked : asked[n].t \notin {"group", "unreported"}
    BY DEF Word, Numeral, YesNo
  <2> HIDE DEF asked
  <2> QED
    BY <2>1 DEF Group, Shallow, Gaping, Unreported
<1>4. Shallow(Group(named))
  <2>1. locale.t # "group"
    BY DEF OrUnreported, Word, Unreported
  <2> HIDE DEF locale
  <2>2. \A n \in DOMAIN named : named[n].t # "group"
    BY <2>1 DEF Word, Numeral
  <2> HIDE DEF named
  <2> QED
    BY <2>2 DEF Group, Shallow
<1>5. /\ Group(placed).t = "group"
      /\ \A m \in DOMAIN Group(placed).g : Shallow(Group(placed).g[m])
  BY <1>2, PathScopeIsSafe DEF Group
<1>6. \A m \in DOMAIN HostScope(f).g : Shallow(HostScope(f).g[m])
  <2>1. Safe(HostScope(f)) /\ HostScope(f).t = "group"
    BY HostScopeIsSafe DEF HostScope, Group
  <2> QED
    BY <1>2, <2>1 DEF Safe
<1>7. \A m \in DOMAIN HostScope(f).g \ SECTIONS : ~Gaping(HostScope(f).g[m])
  <2>1. DOMAIN HostScope(f).g \ SECTIONS = {"name", "arch", "privileges"}
    BY DEF HostScope, Group, SECTIONS
  <2>2. /\ HostScope(f).g["name"] = Word(f.host) /\ HostScope(f).g["arch"] = Word(f.arch.word)
        /\ HostScope(f).g["privileges"] = Group([can_escalate |-> YesNo(f.escalate)])
    BY DEF HostScope, Group
  <2>3. ~Gaping(Group([can_escalate |-> YesNo(f.escalate)]))
    BY DEF Gaping, Group, YesNo, Unreported
  <2>4. \A s : ~Gaping(Word(s))
    BY DEF Gaping, Word
  <2> QED
    BY <2>1, <2>2, <2>3, <2>4
<1>8. /\ Numeral(2).t # "group" /\ Nothing.t # "group"
      /\ Shallow(Numeral(2)) /\ Shallow(Nothing) /\ ~Gaping(Numeral(2)) /\ ~Gaping(Nothing)
  BY DEF Numeral, Nothing, Shallow, Gaping
<1> HIDE DEF scope, asked, named, placed
<1>9. \A n \in DOMAIN scope : scope[n].t = "group" => n \in {"host", "path", "profile", "request"}
  BY <1>1, <1>8
<1>10. \A n \in DOMAIN scope \ {"host", "path"} : Shallow(scope[n])
  BY <1>1, <1>3, <1>4, <1>8
<1>11. \A n \in DOMAIN scope \ {"host", "path", "profile"} : ~Gaping(scope[n])
  BY <1>1, <1>3, <1>8
<1> QED
  BY <1>1, <1>5, <1>6, <1>7, <1>9, <1>10, <1>11, Zenon DEF GroupScope, scope

\* A plan whose actions are known and that has no name has a setting found at a
\* group.
LEMMA Unnamed ==
  ASSUME NEW f, NEW d, Schematic(d), NEW request, NEW paths, NEW scope, GroupScope(scope),
         NEW gates, NEW values,
         PlanActions(f, Build(d), request, paths, scope).state = "actions",
         BuildPlan(f, Build(d), request, gates,
                   PlanActions(f, Build(d), request, paths, scope).actions, values) = {}
  PROVE  \E i \in DOMAIN d.tunables : \E e \in d.tunables[i].observed : Groups(e)
<1> DEFINE profile == Build(d)
           actions == PlanActions(f, profile, request, paths, scope).actions
           tunables == [i \in DOMAIN profile.tunables |-> TunableEntry(profile.tunables[i], scope)]
           content == Content(f, profile, request, gates, actions, values)
<1>1. profile.tunables = d.tunables
  BY DEF Build
<1> HIDE DEF profile
<1>2. actions.tunables = tunables
  BY Zenon DEF PlanActions, profile
<1>3. content.actions = actions
  BY DEF Content
<1> HIDE DEF actions, content
<1>4. PlanIdFor(content) = {}
  BY DEF BuildPlan, content, actions, profile
<1>5. PICK i \in DOMAIN d.tunables : ~tunables[i].writable
  BY <1>1, <1>2, <1>3, <1>4 DEF PlanIdFor
<1>6. ~Writable(d.tunables[i], scope)
  BY <1>1, <1>5 DEF TunableEntry
<1>7. PICK e \in d.tunables[i].observed : Readable(e) /\ ~Gapless(e, scope)
  BY <1>6 DEF Writable
<1>8. Formed(e)
  BY <1>7, TheExpressed
<1> QED
  BY <1>7, <1>8, GaplessUnlessGroups

-----------------------------------------------------------------------------
(* How a call ends.                                                        *)

\* Who decides from a profile was told which.
NamesOne == call.verb = "verify" \/ call.profile.by # "none"
Named ==
  /\ step = "facts" => call.verb = "gather" \/ NamesOne
  /\ step \in {"profile", "request", "gates", "sizing"} => NamesOne

\* What sizing can raise, and what it evaluates its rules over.
SizingRaises ==
  \E i \in DOMAIN Written.sizing :
    Searches(Written.sizing[i].expr) \/ "bytes" \in Written.sizing[i].unit
Measured ==
  /\ step \notin {"ready", "sizing", "keep"} => phase = "waiting"
  /\ step = "sizing" /\ phase # "waiting" =>
       /\ rules = Profile.sizing /\ SafeScope(working)
       /\ phase \in {"order", "stuck", "size", "done"} => \A p \in Params : rules[p].parses
       /\ fault = "traceback" => SizingRaises

Foreseen == exit = EXIT_TRACEBACK => Unforeseen

EndingInv == Named /\ Measured /\ Foreseen

LEMMA EndingInit == CommandInit => EndingInv
  BY DEF CommandInit, Init, EndingInv, Named, Measured, Foreseen, Running, EXIT_TRACEBACK

\* The rules of a call, as they are written.
LEMMA RulesAreWritten ==
  ASSUME CommandInv, work.profile # {}, NEW p \in DOMAIN Profile.sizing
  PROVE  \E i \in DOMAIN Written.sizing :
           /\ Profile.sizing[p].expr = Written.sizing[i].expr
           /\ Profile.sizing[p].parses = Readable(Written.sizing[i].expr)
           /\ Profile.sizing[p].unit = Default(Written.sizing[i].unit, "count")
<1>1. Profile.sizing = SizingRules(Written.sizing)
  <2>1. Profile = Build(Written)
    BY ProfileIsWritten DEF CommandInv, Called, Learnt, Written
  <2> QED
    BY <2>1 DEF Build
<1>2. DOMAIN SizingRules(Written.sizing)
        = {Written.sizing[i].parameter : i \in DOMAIN Written.sizing}
  BY DEF SizingRules
<1> DEFINE k == CHOOSE i \in DOMAIN Written.sizing : Written.sizing[i].parameter = p
<1>3. k \in DOMAIN Written.sizing
  BY <1>1, <1>2, SMTT(30)
<1>4. /\ SizingRules(Written.sizing)[p].expr = Written.sizing[k].expr
      /\ SizingRules(Written.sizing)[p].parses = Readable(Written.sizing[k].expr)
      /\ SizingRules(Written.sizing)[p].unit = Default(Written.sizing[k].unit, "count")
  BY <1>1, <1>2 DEF SizingRules
<1> HIDE DEF k
<1> QED
  BY <1>1, <1>3, <1>4

\* A number that render_bytes would not print is one of a rule in bytes.
LEMMA DefectRaises ==
  ASSUME NEW rule, NEW raw, Defect(rule, raw) = "traceback"
  PROVE  raw.t = "traceback" \/ rule.unit = "bytes"
  BY DEF Defect, Amiss

\* What a rule came to without a defect is a number or a text.
LEMMA CameIsSafe ==
  ASSUME NEW rule, NEW raw, Defect(rule, raw) = "none"
  PROVE  Safe(Came(rule, raw).value)
<1>1. CASE rule.unit = "text"
  <2>1. raw.t = "text"
    BY <1>1 DEF Defect
  <2> QED
    BY <1>1, <2>1 DEF Came, AsText, Safe
<1>2. CASE rule.unit # "text"
  <2>1. \E x : Came(rule, raw).value = Number(x)
    BY <1>2 DEF Came, AsNumber
  <2> QED
    BY <2>1 DEF Number, Safe
<1> QED
  BY <1>1, <1>2

LEMMA SizeMeasures ==
  ASSUME \A e, s : Formula(e, s) = Evaluate(e, s), CommandInv, TypeOK, Measured, step = "sizing", Size
  PROVE  /\ rules' = rules /\ SafeScope(working') /\ phase' \in {"size", "failed"}
         /\ fault' = "traceback" => SizingRaises
<1> DEFINE p == ordered[next]
           raw == Formula(rules[p].expr, working)
           defect == Defect(rules[p], raw)
<1>1. phase = "size" /\ fault = "none" /\ p \in Params
  BY DEF Size, TypeOK
<1>2. rules = Profile.sizing /\ SafeScope(working) /\ rules[p].parses
  BY <1>1 DEF Measured
<1>3. PICK i \in DOMAIN Written.sizing :
         /\ rules[p].expr = Written.sizing[i].expr
         /\ rules[p].parses = Readable(Written.sizing[i].expr)
         /\ rules[p].unit = Default(Written.sizing[i].unit, "count")
  <2>1. work.profile # {}
    BY BlankHas DEF CommandInv, Made, Has
  <2> QED
    BY <1>1, <1>2, <2>1, RulesAreWritten DEF Params
<1>4. Formed(Written.sizing[i].expr)
  <2>1. Schematic(Written)
    BY BlankHas, ProfileIsWritten DEF CommandInv, Called, Made, Has, Learnt, Written
  <2> QED
    BY <2>1, TheExpressed
<1>5. raw.t = "traceback" => Searches(Written.sizing[i].expr)
  BY <1>2, <1>3, <1>4, EvaluateRaises
<1>6. rules[p].unit = "bytes" => "bytes" \in Written.sizing[i].unit
  BY <1>3 DEF Default
<1>7. defect = "traceback" => SizingRaises
  <2> HIDE DEF raw
  <2> QED
    BY <1>5, <1>6, DefectRaises DEF SizingRaises
<1>8. \/ /\ defect # "none" /\ phase' = "failed" /\ fault' = defect
         /\ working' = working
      \/ /\ defect = "none" /\ phase' = phase /\ fault' = fault
         /\ sized' = [sized EXCEPT ![p] = Came(rules[p], raw)]
         /\ working' = [n \in DOMAIN working \cup {p} |->
                          IF n = p THEN sized'[p].value ELSE working[n]]
  BY DEF Size
<1>9. rules' = rules
  BY DEF Size
<1>10. CASE defect # "none" /\ phase' = "failed" /\ fault' = defect /\ working' = working
  BY <1>2, <1>7, <1>9, <1>10
<1>11. CASE /\ defect = "none" /\ phase' = phase /\ fault' = fault
            /\ sized' = [sized EXCEPT ![p] = Came(rules[p], raw)]
            /\ working' = [n \in DOMAIN working \cup {p} |->
                             IF n = p THEN sized'[p].value ELSE working[n]]
  <2>1. p \in DOMAIN sized
    BY <1>1 DEF TypeOK
  <2> HIDE DEF p
  <2>2. sized'[p].value = Came(rules[p], raw).value
    BY <1>11, <2>1
  <2>3. Safe(sized'[p].value)
    BY <1>11, <2>2, CameIsSafe
  <2>4. SafeScope(working')
    BY <1>2, <1>11, <2>3 DEF SafeScope
  <2> QED
    BY <1>1, <1>9, <1>11, <2>4
<1> QED
  BY <1>8, <1>10, <1>11

\* Gates that came to something: every rule did.
GatesScope(f, profile, request) ==
  BuildScope(f, profile, request, Default(ResolvePaths(profile, request), <<>>))
GatesContext(f, profile, request, today) ==
  [facts |-> f, profile |-> profile, request |-> request,
   paths |-> Default(ResolvePaths(profile, request), <<>>),
   entry |-> Default(Version(profile, request.version), <<>>), today |-> today]
GatesVerdicts(f, profile, request) ==
  [i \in DOMAIN profile.gates |->
     EvaluateRule(profile.gates[i], GatesScope(f, profile, request))]

LEMMA GatesEvaluated ==
  ASSUME NEW f, NEW profile, NEW request, NEW today, DOMAIN profile.gates \subseteq Nat,
         EvaluateGates(f, profile, request, today).state = "evaluated"
  PROVE  LET gates == EvaluateGates(f, profile, request, today)
             verdicts == GatesVerdicts(f, profile, request)
         IN  /\ ResolvePaths(profile, request) # {}
             /\ \A i \in DOMAIN profile.gates : verdicts[i].as = "met"
             /\ gates.scope = GatesScope(f, profile, request)
             /\ gates.results = Results(GatesContext(f, profile, request, today), profile.gates, verdicts)
<1> DEFINE paths == ResolvePaths(profile, request)
           verdicts == GatesVerdicts(f, profile, request)
           stops == {i \in DOMAIN verdicts : verdicts[i].as # "met"}
           gates == EvaluateGates(f, profile, request, today)
           results == Results(GatesContext(f, profile, request, today), profile.gates, verdicts)
<1>1. paths # {}
  BY DEF EvaluateGates
<1>2. gates = IF stops # {} THEN [state |-> verdicts[Min(stops)].as]
              ELSE [state |-> "evaluated", results |-> results, paths |-> Default(paths, <<>>),
                    scope |-> GatesScope(f, profile, request)]
  BY <1>1, Zenon DEF EvaluateGates, GatesScope, GatesContext, GatesVerdicts
<1>3. DOMAIN verdicts = DOMAIN profile.gates
  BY DEF GatesVerdicts
<1>4. stops # {} => verdicts[Min(stops)].as \in {"error", "traceback"}
  <2>1. stops # {} => Min(stops) \in stops
    BY <1>3, Least
  <2> QED
    BY <1>3, <2>1, RuleStates DEF GatesVerdicts
<1>5. stops = {} => \A i \in DOMAIN profile.gates : verdicts[i].as = "met"
  BY <1>3
<1> HIDE DEF gates, stops, results
<1>6. stops = {}
  BY <1>2, <1>4 DEF gates
<1> HIDE DEF verdicts
<1>7. gates.scope = GatesScope(f, profile, request) /\ gates.results = results
  BY <1>2, <1>6
<1> QED
  BY <1>1, <1>5, <1>6, <1>7 DEF gates, verdicts, results

LEMMA GatesScopeIsSafe ==
  ASSUME LearntGates, work.gates # {}, DOMAIN Profile.gates \subseteq Nat
  PROVE  SafeScope(Gates.scope)
<1>1. Gates = EvaluateGates(Facts, Profile, Request, call.today) /\ Gates.state = "evaluated"
  BY DEF LearntGates, Gates
<1>2. Gates.scope = GatesScope(Facts, Profile, Request)
  BY <1>1, GatesEvaluated
<1> QED
  BY <1>2, BuildScopeIsSafe DEF GatesScope

LEMMA GatesScopeIsAsked ==
  ASSUME LearntGates, work.gates # {}, DOMAIN Profile.gates \subseteq Nat
  PROVE  GroupScope(Gates.scope)
<1>1. Gates = EvaluateGates(Facts, Profile, Request, call.today) /\ Gates.state = "evaluated"
  BY DEF LearntGates, Gates
<1>2. Gates.scope = GatesScope(Facts, Profile, Request)
  BY <1>1, GatesEvaluated
<1> QED
  BY <1>2, GatesAreAsked DEF GatesScope

LEMMA MeasuredStep ==
  ASSUME \A e, s : Formula(e, s) = Evaluate(e, s), CommandInv, TypeOK, Measured, [CommandNext]_all
  PROVE  Measured'
<1> USE DEF CommandInv
<1>1. CASE Invoke
  BY <1>1 DEF Invoke, Afresh, Measured
<1>2. CASE StartSizing
  <2>1. work.gates # {}
    BY <1>2, BlankHas DEF StartSizing, Made, Has
  <2>2. Start(Profile.sizing, Gates.scope) /\ step = "sizing" /\ UNCHANGED process
    BY <1>2 DEF StartSizing
  <2>3. /\ phase' = "read" /\ rules' = Profile.sizing /\ working' = Gates.scope
        /\ fault' = "none" /\ step' = "sizing" /\ Profile' = Profile
    BY <2>2 DEF Start, TypeOK, process, Profile
  <2>4. DOMAIN Profile.gates \subseteq Nat
    BY <1>2, BlankHas, ProfileIsWritten DEF StartSizing, Made, Has, Called, Learnt
  <2> QED
    BY <2>1, <2>3, <2>4, GatesScopeIsSafe DEF Measured, Learnt
<1>3. CASE SizeOn
  <2>1. UNCHANGED process /\ step = "sizing" /\ Compute
    BY <1>3 DEF SizeOn
  <2>2. step' = step /\ Profile' = Profile /\ (SizingRaises' <=> SizingRaises)
    BY <2>1 DEF process, Profile, SizingRaises, Written
  <2>3. phase # "waiting" /\ phase' # "waiting"
    BY <2>1 DEF Compute, Read, Round, Place, Stuck, Follow, Ordered, Size, Done
  <2>4. /\ rules = Profile.sizing /\ SafeScope(working)
        /\ phase \in {"order", "stuck", "size", "done"} => \A p \in Params : rules[p].parses
    BY <2>1, <2>3 DEF Measured
  <2>5. CASE Size
    <3>1. /\ rules' = rules /\ SafeScope(working') /\ phase' \in {"size", "failed"}
          /\ fault' = "traceback" => SizingRaises
      BY <2>1, <2>5, SizeMeasures
    <3>2. \A p \in Params' : rules'[p].parses
      BY <2>4, <2>5, <3>1 DEF Size, Params
    <3> QED
      BY <2>1, <2>2, <2>4, <3>1, <3>2 DEF Measured
  <2>6. CASE Read \/ Round \/ Place \/ Stuck \/ Follow \/ Ordered \/ Done
    <3>1. /\ rules' = rules /\ working' = working /\ fault' # "traceback"
          /\ phase' \in {"order", "stuck", "size", "done"} => \A p \in Params : rules[p].parses
      BY <2>4, <2>6 DEF TypeOK, Read, Round, Place, Stuck, Follow, Ordered, Done
    <3> QED
      BY <2>1, <2>2, <2>4, <3>1 DEF Measured, Params
  <2> QED
    BY <2>1, <2>5, <2>6 DEF Compute
<1>4. CASE /\ UNCHANGED vars
           /\ step' \in {"ready", "keep"} \/ step \notin {"ready", "sizing", "keep"}
  BY <1>4 DEF Measured, vars
<1>5. CASE UNCHANGED all
  BY <1>5 DEF all, vars, Measured, Params, Profile, SizingRaises, Written
<1>6. CASE ParseArguments \/ ReadFacts \/ ReadProfile \/ ResolveTheRequest \/ EvaluateAll
             \/ FindPlan \/ ReadPlan \/ ReadObservation \/ Judge
  BY <1>4, <1>6 DEF ParseArguments, ReadFacts, ReadProfile, ResolveTheRequest, EvaluateAll, FindPlan,
     ReadPlan, ReadObservation, Judge
<1>7. CASE SizingFailed \/ KeepPlan
  BY <1>4, <1>7 DEF SizingFailed, KeepPlan, End
<1>8. CASE MakePlan
  <2>1. step' \in {"ready", "keep"}
    BY <1>8, MakePlanWays DEF Ends, End, On
  <2> QED
    BY <1>4, <1>8, <2>1 DEF MakePlan
<1> QED
  BY <1>1, <1>2, <1>3, <1>5, <1>6, <1>7, <1>8 DEF CommandNext, Proceed, Terminated

LEMMA NamedStep ==
  ASSUME CommandInv, Named, [CommandNext]_all
  PROVE  Named'
<1> USE DEF CommandInv
<1>1. CASE Invoke
  BY <1>1 DEF Invoke, Named
<1>2. CASE ParseArguments
  BY <1>2 DEF ParseArguments, End, Go, Misused, Named, NamesOne
<1>3. CASE ReadFacts
  BY <1>3, ReadFactsWays DEF ReadFacts, Ends, End, Gain, Over, On, Named, NamesOne
<1>4. CASE ReadProfile
  BY <1>4, ReadProfileWays DEF ReadProfile, Ends, End, Gain, On, Named, NamesOne
<1>5. CASE ResolveTheRequest
  BY <1>5 DEF ResolveTheRequest, End, Go, Named, NamesOne
<1>6. CASE EvaluateAll
  <2>1. DOMAIN Profile.gates \subseteq Nat
    BY <1>6, BlankHas, ProfileIsWritten DEF EvaluateAll, Made, Has, Called, Learnt
  <2> QED
    BY <1>6, <2>1, EvaluateAllWays DEF EvaluateAll, Ends, End, Gain, Over, On, Named, NamesOne
<1>7. CASE StartSizing \/ SizeOn
  BY <1>7 DEF StartSizing, SizeOn, process, Named, NamesOne
<1>8. CASE SizingFailed \/ KeepPlan
  BY <1>8 DEF SizingFailed, KeepPlan, End, Named
<1>9. CASE MakePlan
  BY <1>9, MakePlanWays DEF Ends, End, On, Named
<1>10. CASE FindPlan
  BY <1>10 DEF FindPlan, End, Go, Named
<1>11. CASE ReadPlan
  BY <1>11, ReadPlanWays DEF ReadPlan, Ends, End, Gain, Over, On, Called, Made, Named
<1>12. CASE ReadObservation
  BY <1>12, ReadObservationWays DEF ReadObservation, Ends, End, Gain, On, Called, Made, Named, NamesOne
<1>13. CASE Judge
  BY <1>13 DEF Judge, EndWith, Named
<1>14. CASE Terminated \/ UNCHANGED all
  BY <1>14 DEF Terminated, all, Named, NamesOne
<1> QED
  BY <1>1, <1>2, <1>3, <1>4, <1>5, <1>6, <1>7, <1>8, <1>9, <1>10, <1>11, <1>12, <1>13, <1>14
     DEF CommandNext, Proceed

\* What the profile raises, it was read for.
ProfileRaises ==
  \/ \E file \in FILES : Written.files[file] \in {"not text", "no value", "mixed keys"}
  \/ \E i \in DOMAIN Written.versions : Written.versions[i].eol = {}
  \/ \E i \in DOMAIN Written.tunables : \E e \in Written.tunables[i].observed : Groups(e)
  \/ \E p \in DOMAIN Written.paths : Unfillable(Written.paths[p].default)
  \/ \E e \in Expressed(Written) : Searches(e)
  \/ \E i \in DOMAIN Written.checks : \E e \in Written.checks[i].expr : ~Readable(e)
  \/ \E i \in DOMAIN Written.sizing : "bytes" \in Written.sizing[i].unit

LEMMA UnforeseenIs ==
  Unforeseen <=> \/ \E f \in call.facts \cup call.from \cup call.observed :
                      f.state \in {"not text", "undated"}
                 \/ NamesOne /\ call.profile.exists /\ ProfileRaises
  BY DEF Unforeseen, NamesOne, ProfileRaises, Unfillable

\* A step that raises nothing.
Quiet ==
  \/ \E code \in {EXIT_OK, EXIT_REFUSED, EXIT_USAGE} : End(code) \/ \E w : EndWith(code, w)
  \/ \E s, w : Go(s, w)

LEMMA QuietKeeps ==
  /\ Quiet => call' = call /\ (exit' = EXIT_TRACEBACK => exit = EXIT_TRACEBACK)
  /\ End(EXIT_TRACEBACK) => call' = call
  BY DEF Quiet, End, EndWith, Go, EXIT_OK, EXIT_REFUSED, EXIT_USAGE, EXIT_TRACEBACK

LEMMA ForeseenStep ==
  ASSUME CommandInv, TypeOK, EndingInv, [CommandNext]_all
  PROVE  Foreseen'
<1> USE DEF CommandInv, Called, Learnt
<1> DEFINE Unmoved == call' = call /\ (exit' = EXIT_TRACEBACK => exit = EXIT_TRACEBACK \/ Unforeseen)
<1>1. CASE Invoke
  BY <1>1, SMTT(30) DEF Invoke, Foreseen, Running, EXIT_TRACEBACK
<1>2. ASSUME Unmoved PROVE Foreseen'
  BY <1>2 DEF Foreseen, EndingInv, Unforeseen, Written
<1>3. ASSUME work.profile # {}
      PROVE  Schematic(Written) /\ Profile = Build(Written) /\ call.profile.exists
  BY <1>3, ProfileIsWritten DEF LearntProfile, LoadProfile, Written
<1>4. CASE ParseArguments \/ ResolveTheRequest \/ FindPlan \/ KeepPlan
  BY <1>2, <1>4 DEF ParseArguments, ResolveTheRequest, FindPlan, KeepPlan, End, Go,
     EXIT_OK, EXIT_REFUSED, EXIT_USAGE, EXIT_TRACEBACK
<1>5. CASE ReadFacts
  <2>1. Quiet \/ (End(EXIT_TRACEBACK) /\ FactsFile(call).state \in {"not text", "undated"})
    BY <1>5 DEF ReadFacts, Quiet
  <2>2. call.facts # {}
    BY <1>5 DEF ReadFacts, Made
  <2>3. ASSUME FactsFile(call).state \in {"not text", "undated"} PROVE Unforeseen
    <3> DEFINE file == CHOOSE f \in call.facts : TRUE
    <3>1. file \in call.facts
      BY <2>2
    <3>2. file.state \in {"not text", "undated"}
      BY <2>3 DEF FactsFile
    <3> QED
      BY <3>1, <3>2, UnforeseenIs
  <2> QED
    BY <1>2, <2>1, <2>3, QuietKeeps
<1>6. CASE ReadProfile
  <2>1. Quiet \/ (End(EXIT_TRACEBACK) /\ LoadProfile(call.profile).state = "traceback")
    BY <1>6, ProfileStates DEF ReadProfile, Quiet
  <2>2. ASSUME LoadProfile(call.profile).state = "traceback" PROVE Unforeseen
    <3>1. /\ call.profile.exists
          /\ \/ \E file \in FILES : Written.files[file] \in {"not text", "no value", "mixed keys"}
             \/ \E i \in DOMAIN Written.versions : Written.versions[i].eol = {}
      BY <2>2 DEF LoadProfile, LoadRaises, Dated, Written
    <3>2. NamesOne
      BY <1>6 DEF ReadProfile, EndingInv, Named
    <3> QED
      BY <3>1, <3>2, UnforeseenIs DEF ProfileRaises
  <2> QED
    BY <1>2, <2>1, <2>2, QuietKeeps
<1>7. CASE EvaluateAll
  <2> DEFINE gates == EvaluateGates(Facts, Profile, Request, call.today)
  <2>1. work.profile # {} /\ DOMAIN Profile.gates \subseteq Nat /\ NamesOne
    BY <1>7, BlankHas, ProfileIsWritten DEF EvaluateAll, Made, Has, EndingInv, Named
  <2>2. gates.state \in {"traceback", "error", "evaluated"}
    BY <2>1, GatesStates
  <2>3. Quiet \/ (End(EXIT_TRACEBACK) /\ gates.state = "traceback")
    BY <1>7, <2>2 DEF EvaluateAll, Quiet
  <2>4. ASSUME gates.state = "traceback" PROVE Unforeseen
    <3>1. ProfileRaises
      BY <1>3, <2>1, <2>4, GatesRaise DEF ProfileRaises
    <3> QED
      BY <1>3, <2>1, <3>1, UnforeseenIs
  <2> HIDE DEF gates
  <2> QED
    BY <1>2, <2>3, <2>4, QuietKeeps
<1>8. CASE StartSizing \/ SizeOn
  BY <1>2, <1>8 DEF StartSizing, SizeOn, process
<1>9. CASE SizingFailed
  <2>1. call' = call /\ (exit' = EXIT_TRACEBACK => fault = "traceback")
    BY <1>9 DEF SizingFailed, End, EXIT_REFUSED, EXIT_TRACEBACK
  <2>2. NamesOne /\ work.profile # {} /\ (fault = "traceback" => SizingRaises)
    BY <1>9, BlankHas DEF SizingFailed, Made, Has, EndingInv, Named, Measured
  <2>3. ASSUME SizingRaises PROVE ProfileRaises
    BY <1>3, <2>2, <2>3, TheExpressed DEF SizingRaises, ProfileRaises
  <2> QED
    BY <1>2, <1>3, <2>1, <2>2, <2>3, UnforeseenIs
<1>10. CASE MakePlan
  <2> DEFINE done == PlanActions(Facts, Profile, Request, Gates.paths, Gates.scope)
  <2>1. done.state \in {"refused", "traceback", "actions"}
    BY ActionsStates
  <2> DEFINE plan == BuildPlan(Facts, Profile, Request, Gates, done.actions, sized)
  <2>2. \/ Quiet
        \/ End(EXIT_TRACEBACK) /\ (done.state = "traceback" \/ (done.state = "actions" /\ plan = {}))
    BY <1>10, <2>1 DEF MakePlan, Quiet
  <2>3. /\ work.profile # {} /\ work.gates # {} /\ DOMAIN Profile.gates \subseteq Nat /\ NamesOne
    BY <1>10, BlankHas, ProfileIsWritten DEF MakePlan, Made, Has, EndingInv, Named
  <2>4. SafeScope(Gates.scope)
    BY <2>3, GatesScopeIsSafe
  <2>5. ASSUME done.state = "traceback" PROVE Unforeseen
    <3>1. ProfileRaises
      BY <1>3, <2>3, <2>4, <2>5, ActionsRaise DEF ProfileRaises
    <3> QED
      BY <1>3, <2>3, <3>1, UnforeseenIs
  <2>6. ASSUME done.state = "actions", plan = {} PROVE Unforeseen
    <3>1. GroupScope(Gates.scope)
      BY <2>3, GatesScopeIsAsked
    <3>2. ProfileRaises
      BY <1>3, <2>3, <2>6, <3>1, Unnamed DEF ProfileRaises
    <3> QED
      BY <1>3, <2>3, <3>2, UnforeseenIs
  <2> HIDE DEF done, plan
  <2> QED
    BY <1>2, <2>2, <2>5, <2>6, QuietKeeps
<1>11. CASE ReadPlan
  <2> DEFINE source == CHOOSE f \in call.from : TRUE
  <2>1. source \in call.from /\ source.state \in {"plan"} \cup UNREAD
    BY <1>11, CallsAreCallable DEF ReadPlan, Made, Callable
  <2>2. Quiet \/ (End(EXIT_TRACEBACK) /\ source.state = "not text")
    BY <1>11, <2>1 DEF ReadPlan, UNREAD, Quiet
  <2> QED
    BY <1>2, <2>1, <2>2, UnforeseenIs, QuietKeeps
<1>12. CASE ReadObservation
  <2> DEFINE file == CHOOSE o \in call.observed : TRUE
  <2>1. file \in call.observed /\ file.state \in {"written"} \cup UNREAD \cup UNDATED
    BY <1>12, CallsAreCallable DEF ReadObservation, Made, Callable
  <2>2. Quiet \/ (End(EXIT_TRACEBACK) /\ file.state \in {"not text", "undated"})
    BY <1>12, <2>1 DEF ReadObservation, UNREAD, UNDATED, Quiet
  <2> QED
    BY <1>2, <2>1, <2>2, UnforeseenIs, QuietKeeps
<1>13. CASE Judge
  <2> DEFINE observation == CHOOSE o \in work.observation : TRUE
             verdict == Verify(Plan, Profile, observation)
  <2>1. verdict.state \in {"refused", "traceback", "judged"}
    BY DEF Verify
  <2>2. call' = call /\ (exit' = EXIT_TRACEBACK => verdict.state = "traceback")
    BY <1>13, <2>1 DEF Judge, EndWith, EXIT_OK, EXIT_REFUSED, EXIT_TRACEBACK
  <2>3. work.profile # {} /\ NamesOne
    BY <1>13, BlankHas DEF Judge, Made, Has, NamesOne
  <2>4. ASSUME verdict.state = "traceback" PROVE Unforeseen
    <3>1. ProfileRaises
      BY <1>3, <2>3, <2>4, VerifyRaises DEF ProfileRaises
    <3> QED
      BY <1>3, <2>3, <3>1, UnforeseenIs
  <2> HIDE DEF verdict
  <2> QED
    BY <1>2, <2>2, <2>4
<1>14. CASE Terminated \/ UNCHANGED all
  BY <1>2, <1>14 DEF Terminated, all
<1> QED
  BY <1>1, <1>4, <1>5, <1>6, <1>7, <1>8, <1>9, <1>10, <1>11, <1>12, <1>13, <1>14
     DEF CommandNext, Proceed

\* A call ends with one of the codes that are promised, whatever the facts, the
\* profile, the plan and the observation are as far as Command represents them,
\* unless a file is no text, or names a moment or a day no calendar has; a file of
\* the profile has a value that is none or keys of two kinds; a template of a path
\* cannot be filled in; an expression looks for something in a text, or cannot be
\* read by a check; a setting is found at a group of facts; or a parameter is in
\* bytes and may fall below nothing (cli.py, EXIT_CODES).
THEOREM CallsEndWithACode ==
  (\A e, s : Formula(e, s) = Evaluate(e, s)) => (CommandSpec => []EndsWithACode)
<1> SUFFICES ASSUME \A e, s : Formula(e, s) = Evaluate(e, s)
             PROVE  CommandSpec => []EndsWithACode
  OBVIOUS
<1>1. Typed => TypeOK
  BY DEF Typed
<1>2. CommandInv /\ Typed /\ EndingInv /\ [CommandNext]_all => EndingInv'
  BY <1>1, NamedStep, MeasuredStep, ForeseenStep DEF EndingInv
<1>3. EndingInv => EndsWithACode
  BY DEF EndingInv, Foreseen, EndsWithACode
<1> QED
  BY <1>2, <1>3, EndingInit, CommandAlways, SizedAlways, PTL DEF CommandSpec

-----------------------------------------------------------------------------
(* A host that says more.                                                  *)

\* What a host may leave out, and what it cannot.
UNSAID == {"codename", "threads", "available", "swappiness", "thp", "sync", "firewall", "repositories"}
SAID == {"host", "family", "distro", "version", "arch", "cores", "memory", "swap", "mounts", "ports",
         "services", "locales", "escalate"}
More(f, g) ==
  /\ \A n \in SAID : g[n] = f[n]
  /\ \A n \in UNSAID : f[n] # {} => g[n] = f[n]

LEMMA CompletedIsMore ==
  ASSUME NEW f, SAID \cup UNSAID \subseteq DOMAIN f, NEW g \in Completed(f)
  PROVE  More(f, g)
<1>1. PICK c \in Answers(f).codename, th \in Answers(f).threads, a \in Answers(f).available,
           s \in Answers(f).swappiness, h \in Answers(f).thp, y \in Answers(f).sync,
           w \in Answers(f).firewall, r \in Answers(f).repositories :
        g = Saying(f, c, th, a, s, h, y, w, r)
  BY DEF Completed
<1>2. /\ f.codename # {} => c = f.codename
      /\ f.threads # {} => th = f.threads
      /\ f.available # {} => a = f.available
      /\ f.swappiness # {} => s = f.swappiness
      /\ f.thp # {} => h = f.thp
      /\ f.sync # {} => y = f.sync
      /\ f.firewall # {} => w = f.firewall
      /\ f.repositories # {} => r = f.repositories
  <2>1. ASSUME NEW S, NEW T, NEW x \in Unless(S, T), S # {} PROVE x = S
    BY <2>1 DEF Unless
  <2> QED
    BY <2>1 DEF Answers
<1> DEFINE told == [n \in DOMAIN f |->
                      CASE n = "codename" -> c [] n = "threads" -> th [] n = "available" -> a
                        [] n = "swappiness" -> s [] n = "thp" -> h [] n = "sync" -> y
                        [] n = "firewall" -> w [] n = "repositories" -> r [] OTHER -> f[n]]

<1>3. g = told
  BY <1>1 DEF Saying
<1>4. /\ told.codename = c /\ told.threads = th /\ told.available = a /\ told.swappiness = s
      /\ told.thp = h /\ told.sync = y /\ told.firewall = w /\ told.repositories = r
  BY DEF UNSAID
<1>5. \A n \in SAID : g[n] = f[n]
  BY <1>3 DEF SAID
<1> HIDE DEF told
<1> QED
  BY <1>2, <1>3, <1>4, <1>5 DEF More, UNSAID

LEMMA MaybeSaid ==
  ASSUME NEW S, NEW T, S # {} => T = S, \A v \in S \cup T : Plainly(v)
  PROVE  Spoken(OrUnreported(S), OrUnreported(T))
<1>1. Plainly(OrUnreported(S)) /\ Plainly(OrUnreported(T))
  BY DEF OrUnreported, Plainly, Unreported
<1>2. CASE S = {}
  BY <1>1, <1>2 DEF OrUnreported, Spoken, Told, Unreported
<1>3. CASE S # {}
  BY <1>1, <1>3 DEF Spoken, Told, Plainly
<1> QED
  BY <1>2, <1>3

LEMMA ValuesArePlain ==
  /\ \A s : Plainly(Word(s)) /\ Spoken(Word(s), Word(s))
  /\ \A x : Plainly(Numeral(x)) /\ Spoken(Numeral(x), Numeral(x))
  /\ \A b : Plainly(YesNo(b)) /\ Spoken(YesNo(b), YesNo(b))
  BY DEF Plainly, Spoken, Told, Word, Numeral, YesNo

\* The groups a host is asked through, and a member of each that no other has.
GROUPS == {"host", "os", "cpu", "memory", "kernel", "time_sync", "firewall", "privileges"}
SIGN == [host |-> "name", os |-> "family", cpu |-> "cores", memory |-> "swap_bytes",
         kernel |-> "swappiness", time_sync |-> "synchronized", firewall |-> "active",
         privileges |-> "can_escalate"]
HostGroups(f) == [n \in GROUPS |-> IF n = "host" THEN HostScope(f) ELSE HostScope(f).g[n]]

\* One of those groups, of two hosts of which the second says more.
Grows(f, g, n) ==
  /\ Grown(GROUPS, SIGN, HostGroups(f), HostGroups(g), {}, n)
  /\ Spoken(HostGroups(f)[n].g[SIGN[n]], HostGroups(g)[n].g[SIGN[n]])

LEMMA MembersGrow ==
  ASSUME NEW f, NEW g, NEW n \in GROUPS, NEW r, NEW s,
         HostGroups(f)[n] = Group(r), HostGroups(g)[n] = Group(s), DOMAIN r = DOMAIN s,
         \A m \in GROUPS : SIGN[m] \in DOMAIN r <=> m = n,
         \A k \in DOMAIN r : Spoken(r[k], s[k])
  PROVE  Grows(f, g, n)
<1>1. /\ HostGroups(f)[n].t = "group" /\ HostGroups(f)[n].g = r
      /\ HostGroups(g)[n].t = "group" /\ HostGroups(g)[n].g = s
  BY DEF Group
<1>2. SIGN[n] \in DOMAIN r
  OBVIOUS
<1> QED
  BY <1>1, <1>2 DEF Grows, Grown, Spoken

LEMMA HostGrows ==
  ASSUME NEW f, NEW g, More(f, g), NEW n \in GROUPS
  PROVE  Grows(f, g, n)
<1>1. /\ HostGroups(f).host = HostScope(f) /\ HostGroups(g).host = HostScope(g)
      /\ \A m \in GROUPS \ {"host"} : /\ HostGroups(f)[m] = HostScope(f).g[m]
                                      /\ HostGroups(g)[m] = HostScope(g).g[m]
  BY DEF HostGroups, GROUPS
<1>2. /\ \A m \in SAID : g[m] = f[m]
      /\ \A m \in UNSAID : f[m] # {} => g[m] = f[m]
  BY DEF More
<1>3. \A S : \A v \in Numerals(S) : Plainly(v)
  BY ValuesArePlain DEF Numerals
<1>4. CASE n = "host"
  <2>1. DOMAIN HostScope(f).g = (GROUPS \ {"host"}) \cup {"name", "arch"}
        /\ DOMAIN HostScope(g).g = (GROUPS \ {"host"}) \cup {"name", "arch"}
        /\ HostScope(f).t = "group" /\ HostScope(g).t = "group"
        /\ HostScope(f).g.name = Word(f.host) /\ HostScope(g).g.name = Word(g.host)
        /\ HostScope(f).g.arch = Word(f.arch.word) /\ HostScope(g).g.arch = Word(g.arch.word)
    BY DEF HostScope, Group, GROUPS
  <2>2. g.host = f.host /\ g.arch = f.arch
    BY <1>2 DEF SAID
  <2>3. \A m \in GROUPS : SIGN[m] \in (GROUPS \ {"host"}) \cup {"name", "arch"} <=> m = "host"
    BY DEF GROUPS, SIGN
  <2>4. SIGN[n] = "name"
    BY <1>4 DEF SIGN
  <2> DEFINE x == HostScope(f)
             y == HostScope(g)
  <2>5. /\ Spoken(x.g.name, y.g.name) /\ Spoken(x.g.arch, y.g.arch)
        /\ \A k \in GROUPS \ {"host"} : x.g[k] = HostGroups(f)[k] /\ y.g[k] = HostGroups(g)[k]
    BY <1>1, <2>1, <2>2, ValuesArePlain
  <2>6. x = HostGroups(f)[n] /\ y = HostGroups(g)[n]
    BY <1>1, <1>4
  <2> HIDE DEF x, y
  <2>7. \A k \in DOMAIN x.g :
          \/ Spoken(x.g[k], y.g[k])
          \/ \E m \in GROUPS : x.g[k] = HostGroups(f)[m] /\ y.g[k] = HostGroups(g)[m]
    BY <2>1, <2>5 DEF x
  <2>8. /\ x.t = "group" /\ y.t = "group" /\ DOMAIN x.g = DOMAIN y.g
        /\ \A m \in GROUPS : SIGN[m] \in DOMAIN x.g <=> m = n
        /\ Spoken(x.g[SIGN[n]], y.g[SIGN[n]])
    BY <1>4, <2>1, <2>3, <2>4, <2>5 DEF x, y
  <2> QED
    BY <2>6, <2>7, <2>8 DEF Grows, Grown, Spoken
<1>5. CASE n = "os"
  <2>1. /\ HostGroups(f)[n] = Group([family |-> Word(f.family.word), distro |-> Word(f.distro.word),
                                     codename |-> OrUnreported({Word(c.word) : c \in f.codename})])
        /\ HostGroups(g)[n] = Group([family |-> Word(g.family.word), distro |-> Word(g.distro.word),
                                     codename |-> OrUnreported({Word(c.word) : c \in g.codename})])
    BY <1>1, <1>5 DEF HostScope, Group, GROUPS
  <2>2. Spoken(OrUnreported({Word(c.word) : c \in f.codename}), OrUnreported({Word(c.word) : c \in g.codename}))
    BY <1>2, MaybeSaid, ValuesArePlain DEF UNSAID
  <2>3. g.family = f.family /\ g.distro = f.distro
    BY <1>2 DEF SAID
  <2> DEFINE x == OrUnreported({Word(c.word) : c \in f.codename})
             y == OrUnreported({Word(c.word) : c \in g.codename})
             one == [family |-> Word(f.family.word), distro |-> Word(f.distro.word), codename |-> x]
             two == [family |-> Word(g.family.word), distro |-> Word(g.distro.word), codename |-> y]
  <2> HIDE DEF x, y
  <2>4. Spoken(x, y) /\ HostGroups(f)[n] = Group(one) /\ HostGroups(g)[n] = Group(two)
    BY <2>1, <2>2 DEF x, y
  <2>5. \A k \in DOMAIN one : Spoken(one[k], two[k])
    BY <2>3, <2>4, ValuesArePlain
  <2>6. \A m \in GROUPS : SIGN[m] \in DOMAIN one <=> m = n
    BY <1>5 DEF GROUPS, SIGN
  <2>7. DOMAIN one = DOMAIN two
    OBVIOUS
  <2> HIDE DEF one, two
  <2> QED
    BY <2>4, <2>5, <2>6, <2>7, MembersGrow
<1>6. CASE n = "cpu"
  <2>1. /\ HostGroups(f)[n] = Group([cores |-> Numeral(2 * f.cores),
                                     threads |-> OrUnreported(Numerals(f.threads))])
        /\ HostGroups(g)[n] = Group([cores |-> Numeral(2 * g.cores),
                                     threads |-> OrUnreported(Numerals(g.threads))])
    BY <1>1, <1>6 DEF HostScope, Group, GROUPS
  <2>2. Spoken(OrUnreported(Numerals(f.threads)), OrUnreported(Numerals(g.threads)))
    BY <1>2, <1>3, MaybeSaid DEF UNSAID, Numerals
  <2>3. g.cores = f.cores
    BY <1>2 DEF SAID
  <2> DEFINE one == [cores |-> Numeral(2 * f.cores), threads |-> OrUnreported(Numerals(f.threads))]
             two == [cores |-> Numeral(2 * g.cores), threads |-> OrUnreported(Numerals(g.threads))]
  <2>4. HostGroups(f)[n] = Group(one) /\ HostGroups(g)[n] = Group(two)
    BY <2>1
  <2>5. \A k \in DOMAIN one : Spoken(one[k], two[k])
    BY <2>2, <2>3, ValuesArePlain
  <2>6. \A m \in GROUPS : SIGN[m] \in DOMAIN one <=> m = n
    BY <1>6 DEF GROUPS, SIGN
  <2>7. DOMAIN one = DOMAIN two
    OBVIOUS
  <2> HIDE DEF one, two
  <2> QED
    BY <2>4, <2>5, <2>6, <2>7, MembersGrow
<1>7. CASE n = "memory"
  <2>1. /\ HostGroups(f)[n] = Group([total_bytes |-> Numeral(2 * f.memory),
                                     available_bytes |-> OrUnreported(Numerals(f.available)),
                                     swap_bytes |-> OrUnreported(Numerals(f.swap))])
        /\ HostGroups(g)[n] = Group([total_bytes |-> Numeral(2 * g.memory),
                                     available_bytes |-> OrUnreported(Numerals(g.available)),
                                     swap_bytes |-> OrUnreported(Numerals(g.swap))])
    BY <1>1, <1>7 DEF HostScope, Group, GROUPS
  <2>2. Spoken(OrUnreported(Numerals(f.available)), OrUnreported(Numerals(g.available)))
    BY <1>2, <1>3, MaybeSaid DEF UNSAID, Numerals
  <2>3. g.memory = f.memory /\ g.swap = f.swap
    BY <1>2 DEF SAID
  <2>4. Spoken(OrUnreported(Numerals(f.swap)), OrUnreported(Numerals(g.swap)))
    BY <1>3, <2>3, MaybeSaid
  <2> DEFINE one == [total_bytes |-> Numeral(2 * f.memory),
                     available_bytes |-> OrUnreported(Numerals(f.available)),
                     swap_bytes |-> OrUnreported(Numerals(f.swap))]
             two == [total_bytes |-> Numeral(2 * g.memory),
                     available_bytes |-> OrUnreported(Numerals(g.available)),
                     swap_bytes |-> OrUnreported(Numerals(g.swap))]
  <2>5. HostGroups(f)[n] = Group(one) /\ HostGroups(g)[n] = Group(two)
    BY <2>1
  <2>6. \A k \in DOMAIN one : Spoken(one[k], two[k])
    BY <2>2, <2>3, <2>4, ValuesArePlain
  <2>7. \A m \in GROUPS : SIGN[m] \in DOMAIN one <=> m = n
    BY <1>7 DEF GROUPS, SIGN
  <2>8. DOMAIN one = DOMAIN two
    OBVIOUS
  <2> HIDE DEF one, two
  <2> QED
    BY <2>5, <2>6, <2>7, <2>8, MembersGrow
<1>8. CASE n = "kernel"
  <2>1. /\ HostGroups(f)[n] = Group([swappiness |-> OrUnreported(Numerals(f.swappiness)),
                 transparent_hugepages |-> OrUnreported({Word(s) : s \in f.thp})])
        /\ HostGroups(g)[n] = Group([swappiness |-> OrUnreported(Numerals(g.swappiness)),
                 transparent_hugepages |-> OrUnreported({Word(s) : s \in g.thp})])
    BY <1>1, <1>8 DEF HostScope, Group, GROUPS
  <2>2. Spoken(OrUnreported(Numerals(f.swappiness)), OrUnreported(Numerals(g.swappiness)))
    BY <1>2, <1>3, MaybeSaid DEF UNSAID, Numerals
  <2>3. Spoken(OrUnreported({Word(s) : s \in f.thp}), OrUnreported({Word(s) : s \in g.thp}))
    BY <1>2, MaybeSaid, ValuesArePlain DEF UNSAID
  <2> DEFINE one == [swappiness |-> OrUnreported(Numerals(f.swappiness)),
                     transparent_hugepages |-> OrUnreported({Word(s) : s \in f.thp})]
             two == [swappiness |-> OrUnreported(Numerals(g.swappiness)),
                     transparent_hugepages |-> OrUnreported({Word(s) : s \in g.thp})]
  <2>4. HostGroups(f)[n] = Group(one) /\ HostGroups(g)[n] = Group(two)
    BY <2>1
  <2>5. \A k \in DOMAIN one : Spoken(one[k], two[k])
    BY <2>2, <2>3
  <2>6. \A m \in GROUPS : SIGN[m] \in DOMAIN one <=> m = n
    BY <1>8 DEF GROUPS, SIGN
  <2>7. DOMAIN one = DOMAIN two
    OBVIOUS
  <2> HIDE DEF one, two
  <2> QED
    BY <2>4, <2>5, <2>6, <2>7, MembersGrow
<1>9. CASE n = "time_sync"
  <2>1. /\ HostGroups(f)[n] = Group([synchronized |-> OrUnreported({YesNo(s.synchronized) : s \in f.sync})])
        /\ HostGroups(g)[n] = Group([synchronized |-> OrUnreported({YesNo(s.synchronized) : s \in g.sync})])
    BY <1>1, <1>9 DEF HostScope, Group, GROUPS
  <2>2. Spoken(OrUnreported({YesNo(s.synchronized) : s \in f.sync}),
               OrUnreported({YesNo(s.synchronized) : s \in g.sync}))
    BY <1>2, MaybeSaid, ValuesArePlain DEF UNSAID
  <2> DEFINE x == OrUnreported({YesNo(s.synchronized) : s \in f.sync})
             y == OrUnreported({YesNo(s.synchronized) : s \in g.sync})
             one == [synchronized |-> x]
             two == [synchronized |-> y]
  <2> HIDE DEF x, y
  <2>4. Spoken(x, y) /\ HostGroups(f)[n] = Group(one) /\ HostGroups(g)[n] = Group(two)
    BY <2>1, <2>2 DEF x, y
  <2>5. \A k \in DOMAIN one : Spoken(one[k], two[k])
    BY <2>4
  <2>6. \A m \in GROUPS : SIGN[m] \in DOMAIN one <=> m = n
    BY <1>9 DEF GROUPS, SIGN
  <2>7. DOMAIN one = DOMAIN two
    OBVIOUS
  <2> HIDE DEF one, two
  <2> QED
    BY <2>4, <2>5, <2>6, <2>7, MembersGrow
<1>10. CASE n = "firewall"
  <2>1. /\ HostGroups(f)[n] = Group([active |-> OrUnreported({YesNo(w.active) : w \in f.firewall})])
        /\ HostGroups(g)[n] = Group([active |-> OrUnreported({YesNo(w.active) : w \in g.firewall})])
    BY <1>1, <1>10 DEF HostScope, Group, GROUPS
  <2>2. Spoken(OrUnreported({YesNo(w.active) : w \in f.firewall}),
               OrUnreported({YesNo(w.active) : w \in g.firewall}))
    BY <1>2, MaybeSaid, ValuesArePlain DEF UNSAID
  <2> DEFINE x == OrUnreported({YesNo(w.active) : w \in f.firewall})
             y == OrUnreported({YesNo(w.active) : w \in g.firewall})
             one == [active |-> x]
             two == [active |-> y]
  <2> HIDE DEF x, y
  <2>4. Spoken(x, y) /\ HostGroups(f)[n] = Group(one) /\ HostGroups(g)[n] = Group(two)
    BY <2>1, <2>2 DEF x, y
  <2>5. \A k \in DOMAIN one : Spoken(one[k], two[k])
    BY <2>4
  <2>6. \A m \in GROUPS : SIGN[m] \in DOMAIN one <=> m = n
    BY <1>10 DEF GROUPS, SIGN
  <2>7. DOMAIN one = DOMAIN two
    OBVIOUS
  <2> HIDE DEF one, two
  <2> QED
    BY <2>4, <2>5, <2>6, <2>7, MembersGrow
<1>11. CASE n = "privileges"
  <2>1. /\ HostGroups(f)[n] = Group([can_escalate |-> YesNo(f.escalate)])
        /\ HostGroups(g)[n] = Group([can_escalate |-> YesNo(g.escalate)])
    BY <1>1, <1>11 DEF HostScope, Group, GROUPS
  <2>2. g.escalate = f.escalate
    BY <1>2 DEF SAID
  <2> QED
    BY <1>11, <2>1, <2>2, ValuesArePlain DEF Grows, Grown, Spoken, Group, GROUPS, SIGN
<1> QED
  BY <1>4, <1>5, <1>6, <1>7, <1>8, <1>9, <1>10, <1>11 DEF GROUPS

\* A path is on the same mount, and is asked about as one.
LEMMA PathStays ==
  ASSUME NEW f, NEW g, More(f, g), NEW path
  PROVE  MountFor(g, path) = MountFor(f, path) /\ PathScope(g, path) = PathScope(f, path)
<1>1. g.mounts = f.mounts
  BY DEF More, SAID
<1>2. MountFor(g, path) = MountFor(f, path)
  BY <1>1, Zenon DEF MountFor
<1> QED
  BY <1>2, Zenon DEF PathScope

LEMMA PathScopeIsPlain ==
  ASSUME NEW f, NEW path
  PROVE  LET x == PathScope(f, path)
         IN  /\ x.t = "group" /\ \A k \in DOMAIN x.g : Plainly(x.g[k])
             /\ \A n \in GROUPS : SIGN[n] \notin DOMAIN x.g
<1> DEFINE mount == MountFor(f, path)
           filesystem == OrUnreported({Word(m.filesystem) : m \in mount})
           free_bytes == OrUnreported(Numerals({m.free : m \in mount}))
           total_bytes == OrUnreported(Numerals({m.total : m \in mount}))
           rotational == OrUnreported({YesNo(r) : r \in UNION {m.rotational : m \in mount}})
           read_only == OrUnreported({YesNo(ReadOnly(m)) : m \in mount})
           r == [filesystem |-> filesystem, free_bytes |-> free_bytes, total_bytes |-> total_bytes,
                 rotational |-> rotational, read_only |-> read_only]
<1>1. ASSUME NEW S, \A v \in S : Plainly(v) PROVE Plainly(OrUnreported(S))
  BY <1>1, MaybeSaid DEF Spoken
<1>2. \A S : Plainly(OrUnreported(Numerals(S)))
  BY <1>1, ValuesArePlain DEF Numerals
<1>3. /\ Plainly(filesystem) /\ Plainly(free_bytes) /\ Plainly(total_bytes)
      /\ Plainly(rotational) /\ Plainly(read_only)
  <2> HIDE DEF mount
  <2> QED
    BY <1>1, <1>2, ValuesArePlain
<1>4. PathScope(f, path) = Group(r)
  BY DEF PathScope
<1> HIDE DEF filesystem, free_bytes, total_bytes, rotational, read_only
<1>5. \A k \in DOMAIN r : Plainly(r[k])
  BY <1>3
<1>6. \A n \in GROUPS : SIGN[n] \notin DOMAIN r
  <2>1. \A n \in GROUPS :
          SIGN[n] \notin {"filesystem", "free_bytes", "total_bytes", "rotational", "read_only"}
    BY DEF GROUPS, SIGN
  <2>2. DOMAIN r = {"filesystem", "free_bytes", "total_bytes", "rotational", "read_only"}
    OBVIOUS
  <2> QED
    BY <2>1, <2>2
<1> HIDE DEF r
<1>7. PathScope(f, path).t = "group" /\ PathScope(f, path).g = r
  BY <1>4 DEF Group
<1> QED
  BY <1>5, <1>6, <1>7

\* The scope of the gates of a host that says more has more in it, and nothing else.
LEMMA ScopeGrows ==
  ASSUME NEW f, NEW g, More(f, g), NEW profile, NEW request, NEW paths
  PROVE  \E G : Fills(BuildScope(f, profile, request, paths), BuildScope(g, profile, request, paths), G)
<1> DEFINE a == BuildScope(f, profile, request, paths)
           b == BuildScope(g, profile, request, paths)
           asked == [environment |-> Word(request.environment), version |-> Word(request.version),
                     port |-> Numeral(2 * request.port), chosen_version |-> YesNo(request.chosen)]
           locale == OrUnreported({Word(l.lang) : l \in profile.default_locale})
           named == [engine |-> Word(profile.engine),
                     default_port |-> Numeral(2 * profile.default_port), locale |-> locale]
           placed == [p \in DOMAIN paths |-> PathScope(f, paths[p].path)]
           same == {Group(asked), Group(named), Group(placed)} \cup {placed[p] : p \in DOMAIN paths}
           G == Pairs(GROUPS, HostGroups(f), HostGroups(g), same)
<1>1. /\ DOMAIN a = {"host", "request", "profile", "path", "GiB", "none"} /\ DOMAIN b = DOMAIN a
      /\ a["host"] = HostScope(f) /\ b["host"] = HostScope(g)
      /\ a["request"] = Group(asked) /\ b["request"] = Group(asked)
      /\ a["profile"] = Group(named) /\ b["profile"] = Group(named)
      /\ a["GiB"] = Numeral(2) /\ b["GiB"] = Numeral(2)
      /\ a["none"] = Nothing /\ b["none"] = Nothing
      /\ a["path"] = Group(placed)
  BY DEF BuildScope
<1>2. b["path"] = Group(placed)
  <2>1. b["path"] = Group([p \in DOMAIN paths |-> PathScope(g, paths[p].path)])
    BY DEF BuildScope
  <2>2. [p \in DOMAIN paths |-> PathScope(g, paths[p].path)] = placed
    BY PathStays
  <2> QED
    BY <2>1, <2>2
<1>3. \A k \in DOMAIN asked : Plainly(asked[k])
  BY ValuesArePlain
<1>4. \A k \in DOMAIN named : Plainly(named[k])
  <2>1. Plainly(locale)
    BY ValuesArePlain DEF OrUnreported, Plainly, Unreported
  <2> HIDE DEF locale
  <2> QED
    BY <2>1, ValuesArePlain
<1>5. \A n \in GROUPS : SIGN[n] \notin DOMAIN asked /\ SIGN[n] \notin DOMAIN named
  <2>1. \A n \in GROUPS : SIGN[n] \notin {"environment", "version", "port", "chosen_version"}
    BY DEF GROUPS, SIGN
  <2>2. \A n \in GROUPS : SIGN[n] \notin {"engine", "default_port", "locale"}
    BY DEF GROUPS, SIGN
  <2>3. /\ DOMAIN asked = {"environment", "version", "port", "chosen_version"}
        /\ DOMAIN named = {"engine", "default_port", "locale"}
    OBVIOUS
  <2> QED
    BY <2>1, <2>2, <2>3
<1>6. \A p \in DOMAIN paths : /\ placed[p].t = "group"
                              /\ \A k \in DOMAIN placed[p].g : Plainly(placed[p].g[k])
                              /\ \A n \in GROUPS : SIGN[n] \notin DOMAIN placed[p].g
  BY PathScopeIsPlain
<1>7. DOMAIN placed = DOMAIN paths
  OBVIOUS
<1> HIDE DEF a, b, asked, named, placed
<1>8. ASSUME NEW x \in same
      PROVE  /\ x.t = "group"
             /\ \A k \in DOMAIN x.g : Plainly(x.g[k]) \/ x.g[k] \in same
             /\ \A n \in GROUPS : SIGN[n] \in DOMAIN x.g => x.g[SIGN[n]].t = "group"
  <2>1. CASE x = Group(asked) \/ x = Group(named)
    BY <1>3, <1>4, <1>5, <2>1 DEF Group
  <2>2. CASE x = Group(placed)
    <3>1. x.t = "group" /\ x.g = placed
      BY <2>2 DEF Group
    <3> QED
      BY <1>6, <1>7, <3>1
  <2>3. CASE \E p \in DOMAIN paths : x = placed[p]
    BY <1>6, <2>3
  <2> QED
    BY <2>1, <2>2, <2>3
<1> HIDE DEF same
<1>9. ASSUME NEW n \in GROUPS
      PROVE  /\ Grown(GROUPS, SIGN, HostGroups(f), HostGroups(g), same, n)
             /\ \A x \in same : HostGroups(f)[n] # x /\ HostGroups(g)[n] # x
  <2>1. Grows(f, g, n)
    BY HostGrows
  <2>2. Grown(GROUPS, SIGN, HostGroups(f), HostGroups(g), same, n)
    BY <2>1 DEF Grows, Grown
  <2>3. /\ SIGN[n] \in DOMAIN HostGroups(f)[n].g /\ SIGN[n] \in DOMAIN HostGroups(g)[n].g
        /\ HostGroups(f)[n].g[SIGN[n]].t # "group" /\ HostGroups(g)[n].g[SIGN[n]].t # "group"
    BY <2>1 DEF Grows, Grown, Spoken, Plainly
  <2> QED
    BY <1>8, <2>2, <2>3
<1>10. Paired(G)
  <2>1. \A x \in same : Held(GROUPS, HostGroups(f), HostGroups(g), same, x)
    BY <1>8, <1>9 DEF Held
  <2>2. \A n \in GROUPS : Grown(GROUPS, SIGN, HostGroups(f), HostGroups(g), same, n)
    BY <1>9
  <2> QED
    BY <2>1, <2>2, GroupsPaired, Zenon
<1>11. <<HostScope(f), HostScope(g)>> \in G
  <2>1. "host" \in GROUPS /\ HostGroups(f)["host"] = HostScope(f) /\ HostGroups(g)["host"] = HostScope(g)
    BY DEF GROUPS, HostGroups
  <2> QED
    BY <2>1 DEF Pairs
<1>12. \A x \in {Group(asked), Group(named), Group(placed)} : <<x, x>> \in G
  BY DEF same, Pairs
<1> HIDE DEF G
<1>13. Told(Numeral(2), Numeral(2)) /\ Told(Nothing, Nothing)
  BY DEF Told, Numeral, Nothing
<1>14. \A n \in DOMAIN a : Filled(a[n], b[n], G)
  BY <1>1, <1>2, <1>11, <1>12, <1>13 DEF Filled
<1>15. Fills(a, b, G)
  BY <1>1, <1>10, <1>14 DEF Fills
<1> QED
  BY <1>15 DEF a, b

\* A rule of a profile comes to the same in two scopes, or nobody could tell in the
\* one that says less.
LEMMA RuleFills ==
  ASSUME NEW rule, \A e \in rule.applies_to \cup {rule.expr} : Formed(e),
         \A x, y \in rule.applies_to : x = y, NEW a, NEW b, NEW G, Fills(a, b, G),
         EvaluateRule(rule, a).as = "met"
  PROVE  EvaluateRule(rule, a).met = {} \/ EvaluateRule(rule, b) = EvaluateRule(rule, a)
<1>1. ASSUME NEW e \in rule.applies_to \cup {rule.expr} PROVE Told(Asked(e, a), Asked(e, b))
  <2>1. CASE Readable(e)
    BY <2>1, EvaluateFills DEF Asked
  <2>2. CASE ~Readable(e)
    BY <2>2 DEF Asked, Told, Error
  <2> QED
    BY <2>1, <2>2
<1>2. ASSUME NEW v, v.t = "unreported" PROVE Verdict(v).met = {}
  BY <1>2 DEF Verdict, Undecidable
<1>3. CASE rule.applies_to = {}
  <2>1. \A s : EvaluateRule(rule, s) = Verdict(Asked(rule.expr, s))
    BY <1>3 DEF EvaluateRule
  <2> QED
    BY <1>1, <1>2, <2>1 DEF Told
<1>4. CASE rule.applies_to # {}
  <2>1. PICK e : rule.applies_to = {e}
    BY <1>4
  <2>2. ASSUME NEW s
        PROVE  EvaluateRule(rule, s) =
                 IF Asked(e, s) # YesNo(TRUE)
                 THEN Verdict(IF Asked(e, s) = YesNo(FALSE) THEN Unreported ELSE Asked(e, s))
                 ELSE Verdict(Asked(rule.expr, s))
    <3>1. {Asked(d, s) : d \in rule.applies_to} = {Asked(e, s)}
      BY <2>1
    <3>2. Default({Asked(e, s)}, Nothing) = Asked(e, s)
      BY DEF Default
    <3> QED
      BY <3>1, <3>2 DEF EvaluateRule
  <2>3. CASE Asked(e, a).t = "unreported"
    <3>1. Asked(e, a) # YesNo(TRUE) /\ Asked(e, a) # YesNo(FALSE)
      BY <2>3 DEF YesNo
    <3> QED
      BY <1>2, <2>2, <2>3, <3>1
  <2>4. CASE Asked(e, a) = Asked(e, b)
    <3>1. Told(Asked(rule.expr, a), Asked(rule.expr, b))
      BY <1>1
    <3> QED
      BY <1>2, <2>2, <2>4, <3>1 DEF Told
  <2> QED
    BY <1>1, <2>1, <2>3, <2>4 DEF Told
<1> QED
  BY <1>3, <1>4

\* So does a rule that every profile shares: those that do not rest on what a host
\* may leave out come to the same, and the others know nothing until it is said.
LEMMA SharedFill ==
  ASSUME NEW f, NEW g, More(f, g), NEW profile, NEW request, NEW today
  PROVE  LET c == GatesContext(f, profile, request, today)
             d == GatesContext(g, profile, request, today)
         IN  /\ DOMAIN SharedBlocks(d) = DOMAIN SharedBlocks(c)
             /\ DOMAIN SharedWarnings(d) = DOMAIN SharedWarnings(c)
             /\ \A n \in DOMAIN SharedBlocks(c) :
                  SharedBlocks(c)[n] = {} \/ SharedBlocks(d)[n] = SharedBlocks(c)[n]
             /\ \A n \in DOMAIN SharedWarnings(c) :
                  SharedWarnings(c)[n] = {} \/ SharedWarnings(d)[n] = SharedWarnings(c)[n]
<1> DEFINE c == GatesContext(f, profile, request, today)
           d == GatesContext(g, profile, request, today)
<1>1. /\ c.facts = f /\ d.facts = g /\ d.profile = c.profile /\ d.request = c.request
      /\ d.paths = c.paths /\ d.entry = c.entry /\ d.today = c.today
  BY DEF GatesContext
<1> HIDE DEF c, d
<1>2. /\ d.facts.host = c.facts.host /\ d.facts.escalate = c.facts.escalate
      /\ d.facts.family = c.facts.family /\ d.facts.distro = c.facts.distro
      /\ d.facts.version = c.facts.version /\ d.facts.arch = c.facts.arch
      /\ d.facts.cores = c.facts.cores /\ d.facts.memory = c.facts.memory
      /\ d.facts.ports = c.facts.ports /\ d.facts.services = c.facts.services
      /\ d.facts.locales = c.facts.locales
  BY <1>1 DEF More, SAID
<1>3. /\ c.facts.thp # {} => d.facts.thp = c.facts.thp
      /\ c.facts.swappiness # {} => d.facts.swappiness = c.facts.swappiness
      /\ c.facts.sync # {} => d.facts.sync = c.facts.sync
      /\ c.facts.firewall # {} => d.facts.firewall = c.facts.firewall
      /\ c.facts.repositories # {} => d.facts.repositories = c.facts.repositories
  BY <1>1 DEF More, UNSAID
<1>4. \A path : MountFor(d.facts, path) = MountFor(c.facts, path)
  BY <1>1, PathStays
<1>5. \A p : PathMount(d, p) = PathMount(c, p)
  BY <1>1, <1>4 DEF PathMount
<1>6. \A p, q : SharesMount(d.facts, p, q) = SharesMount(c.facts, p, q)
  BY <1>4 DEF SharesMount
<1>7. OsSupported(d) = OsSupported(c)
  BY <1>1, <1>2, Zenon DEF OsSupported
<1>8. PathsWritable(d) = PathsWritable(c)
  BY <1>1, <1>5, Zenon DEF PathsWritable
<1>9. FreeSpace(d) = FreeSpace(c)
  <2> DEFINE stated(k) == {p \in DOMAIN k.paths : k.paths[p].min_free # {} /\ PathMount(k, p) # {}}
             Room(k) == \A p \in stated(k) : \A m \in PathMount(k, p), n \in k.paths[p].min_free : m.free >= n
  <2>1. stated(d) = stated(c)
    BY <1>1, <1>5
  <2>2. Room(d) = Room(c)
    BY <1>1, <1>5, <2>1
  <2>3. \A k : FreeSpace(k) = IF stated(k) = {} THEN Undecidable ELSE Met(Room(k))
    BY Zenon DEF FreeSpace
  <2> HIDE DEF stated, Room
  <2> QED
    BY <2>1, <2>2, <2>3
<1>10. SeparateMounts(d) = SeparateMounts(c)
  BY <1>1, <1>6, ZenonT(40) DEF SeparateMounts
<1>11. Filesystem(d) = Filesystem(c)
  BY <1>1, <1>5, Zenon DEF Filesystem
<1>12. NotInstalled(d) = NotInstalled(c)
  BY <1>1, <1>2, Zenon DEF NotInstalled
<1>13. RepoReachable(c) = {} \/ RepoReachable(d) = RepoReachable(c)
  <2>1. CASE c.facts.repositories = {}
    BY <2>1 DEF RepoReachable, CanReach
  <2>2. CASE c.facts.repositories # {}
    <3> DEFINE named(k) == UNION {p.repository : p \in PackagesFor(k.profile, k.facts.family.word)}
    <3>1. \A u : CanReach(d.facts, u) = CanReach(c.facts, u)
      BY <1>3, <2>2, Zenon DEF CanReach
    <3>2. named(d) = named(c)
      BY <1>1, <1>2
    <3>3. \A k : RepoReachable(k) = UNION {CanReach(k.facts, Spelled(u.url)) : u \in named(k)}
      BY Zenon DEF RepoReachable
    <3> HIDE DEF named
    <3>4. {CanReach(d.facts, Spelled(u.url)) : u \in named(d)}
            = {CanReach(c.facts, Spelled(u.url)) : u \in named(c)}
      BY <3>1, <3>2
    <3> QED
      BY <3>3, <3>4, Zenon
  <2> QED
    BY <2>1, <2>2
<1>14. \A l : LocalePresent(d.facts, l) = LocalePresent(c.facts, l)
  BY <1>2, Zenon DEF LocalePresent
<1>15. \A n : PortInUse(d.facts, n) = PortInUse(c.facts, n)
  BY <1>2, Zenon DEF PortInUse
<1> USE DEF SharedBlocks, SharedWarnings
<1>16. DOMAIN SharedBlocks(d) = DOMAIN SharedBlocks(c) /\ DOMAIN SharedWarnings(d) = DOMAIN SharedWarnings(c)
  OBVIOUS
<1>17. ASSUME NEW n \in DOMAIN SharedBlocks(c)
       PROVE  SharedBlocks(c)[n] = {} \/ SharedBlocks(d)[n] = SharedBlocks(c)[n]
  <2>1. /\ SharedBlocks(d).reachable = SharedBlocks(c).reachable
        /\ SharedBlocks(d).privilege = SharedBlocks(c).privilege
    BY <1>1, <1>2
  <2>2. SharedBlocks(d).os = SharedBlocks(c).os /\ SharedBlocks(d).arch = SharedBlocks(c).arch
    BY <1>1, <1>2, <1>7
  <2>3. /\ SharedBlocks(d).min_cores = SharedBlocks(c).min_cores
        /\ SharedBlocks(d).min_total = SharedBlocks(c).min_total
    BY <1>1, <1>2
  <2>4. /\ SharedBlocks(d).paths_writable = SharedBlocks(c).paths_writable
        /\ SharedBlocks(d).free_space = SharedBlocks(c).free_space
    BY <1>8, <1>9
  <2>5. /\ SharedBlocks(d).port = SharedBlocks(c).port
        /\ SharedBlocks(d).not_installed = SharedBlocks(c).not_installed
    BY <1>1, <1>12, <1>15
  <2>6. SharedBlocks(c).repo = {} \/ SharedBlocks(d).repo = SharedBlocks(c).repo
    BY <1>13
  <2>7. SharedBlocks(d).locale = SharedBlocks(c).locale
    BY <1>1, <1>14
  <2>8. n \in {"reachable", "privilege", "os", "arch", "min_cores", "min_total", "paths_writable",
               "free_space", "port", "not_installed", "repo", "locale"}
    OBVIOUS
  <2> HIDE DEF SharedBlocks
  <2> QED
    BY <2>1, <2>2, <2>3, <2>4, <2>5, <2>6, <2>7, <2>8
<1>18. ASSUME NEW n \in DOMAIN SharedWarnings(c)
       PROVE  SharedWarnings(c)[n] = {} \/ SharedWarnings(d)[n] = SharedWarnings(c)[n]
  <2>1. /\ SharedWarnings(d).separate_mounts = SharedWarnings(c).separate_mounts
        /\ SharedWarnings(d).filesystem = SharedWarnings(c).filesystem
    BY <1>10, <1>11
  <2>2. SharedWarnings(c).thp = {} \/ SharedWarnings(d).thp = SharedWarnings(c).thp
    BY <1>1, <1>3 DEF Undecidable
  <2>3. SharedWarnings(c).swappiness = {} \/ SharedWarnings(d).swappiness = SharedWarnings(c).swappiness
    BY <1>1, <1>3
  <2>4. SharedWarnings(c).sync = {} \/ SharedWarnings(d).sync = SharedWarnings(c).sync
    BY <1>3
  <2>5. SharedWarnings(d).eol = SharedWarnings(c).eol
        /\ SharedWarnings(d).not_default = SharedWarnings(c).not_default
    BY <1>1
  <2>6. SharedWarnings(c).firewall = {} \/ SharedWarnings(d).firewall = SharedWarnings(c).firewall
    BY <1>1, <1>3
  <2>7. n \in {"separate_mounts", "filesystem", "thp", "swappiness", "sync", "eol", "not_default",
               "firewall"}
    OBVIOUS
  <2> HIDE DEF SharedWarnings
  <2> QED
    BY <2>1, <2>2, <2>3, <2>4, <2>5, <2>6, <2>7
<1> HIDE DEF SharedBlocks, SharedWarnings
<1> QED
  BY <1>16, <1>17, <1>18 DEF c, d

\* The results of a host that says less are skipped, or are those of one that says
\* more.
LEMMA ResultsFill ==
  ASSUME NEW f, NEW g, More(f, g), NEW d, Schematic(d), NEW request, NEW today,
         EvaluateGates(f, Build(d), request, today).state = "evaluated",
         EvaluateGates(g, Build(d), request, today).state = "evaluated",
         NEW r \in EvaluateGates(f, Build(d), request, today).results
  PROVE  r.outcome = "skip" \/ r \in EvaluateGates(g, Build(d), request, today).results
<1> DEFINE profile == Build(d)
           one == GatesContext(f, profile, request, today)
           two == GatesContext(g, profile, request, today)
           verdicts == GatesVerdicts(f, profile, request)
           others == GatesVerdicts(g, profile, request)
<1>1. profile.gates = d.gates /\ DOMAIN profile.gates \subseteq Nat
  BY DEF Build, Schematic
<1>2. /\ EvaluateGates(f, profile, request, today).results = Results(one, profile.gates, verdicts)
      /\ EvaluateGates(g, profile, request, today).results = Results(two, profile.gates, others)
      /\ \A i \in DOMAIN profile.gates : verdicts[i].as = "met"
  BY <1>1, GatesEvaluated
<1>3. ASSUME NEW i \in DOMAIN profile.gates
      PROVE  verdicts[i].met = {} \/ others[i] = verdicts[i]
  <2>1. PICK G : Fills(GatesScope(f, profile, request), GatesScope(g, profile, request), G)
    BY ScopeGrows DEF GatesScope
  <2>2. /\ verdicts[i] = EvaluateRule(profile.gates[i], GatesScope(f, profile, request))
        /\ others[i] = EvaluateRule(profile.gates[i], GatesScope(g, profile, request))
    BY DEF GatesVerdicts
  <2>3. /\ \A e \in profile.gates[i].applies_to \cup {profile.gates[i].expr} : Formed(e)
        /\ \A x, y \in profile.gates[i].applies_to : x = y
    BY <1>1, TheExpressed DEF Schematic
  <2> HIDE DEF profile, verdicts, others
  <2> QED
    BY <1>2, <2>1, <2>2, <2>3, RuleFills
<1>4. /\ DOMAIN SharedBlocks(two) = DOMAIN SharedBlocks(one)
      /\ DOMAIN SharedWarnings(two) = DOMAIN SharedWarnings(one)
      /\ \A n \in DOMAIN SharedBlocks(one) :
           SharedBlocks(one)[n] = {} \/ SharedBlocks(two)[n] = SharedBlocks(one)[n]
      /\ \A n \in DOMAIN SharedWarnings(one) :
           SharedWarnings(one)[n] = {} \/ SharedWarnings(two)[n] = SharedWarnings(one)[n]
  BY SharedFill
<1>5. r \in Results(one, profile.gates, verdicts)
  BY <1>2
<1> HIDE DEF profile, one, two, verdicts, others
<1>6. \A severity : Outcome(severity, {}) = "skip"
  BY DEF Outcome
<1>7. \/ \E n \in DOMAIN SharedBlocks(one) :
           r = [rule |-> n, severity |-> "block", outcome |-> Outcome("block", SharedBlocks(one)[n])]
      \/ \E n \in DOMAIN SharedWarnings(one) :
           r = [rule |-> n, severity |-> "warn", outcome |-> Outcome("warn", SharedWarnings(one)[n])]
      \/ \E i \in DOMAIN profile.gates :
           r = [rule |-> profile.gates[i].id, severity |-> profile.gates[i].severity,
                outcome |-> Outcome(profile.gates[i].severity, verdicts[i].met)]
  BY <1>5 DEF Results
<1>8. ASSUME NEW n \in DOMAIN SharedBlocks(two)
      PROVE  [rule |-> n, severity |-> "block", outcome |-> Outcome("block", SharedBlocks(two)[n])]
               \in Results(two, profile.gates, others)
  BY DEF Results
<1>9. ASSUME NEW n \in DOMAIN SharedWarnings(two)
      PROVE  [rule |-> n, severity |-> "warn", outcome |-> Outcome("warn", SharedWarnings(two)[n])]
               \in Results(two, profile.gates, others)
  BY DEF Results
<1>10. ASSUME NEW i \in DOMAIN profile.gates
       PROVE  [rule |-> profile.gates[i].id, severity |-> profile.gates[i].severity,
               outcome |-> Outcome(profile.gates[i].severity, others[i].met)]
                \in Results(two, profile.gates, others)
  BY DEF Results
<1>11. r.outcome = "skip" \/ r \in Results(two, profile.gates, others)
  <2>1. ASSUME NEW n \in DOMAIN SharedBlocks(one),
               r = [rule |-> n, severity |-> "block", outcome |-> Outcome("block", SharedBlocks(one)[n])]
        PROVE  r.outcome = "skip" \/ r \in Results(two, profile.gates, others)
    <3>1. CASE SharedBlocks(one)[n] = {}
      BY <1>6, <2>1, <3>1
    <3>2. CASE SharedBlocks(two)[n] = SharedBlocks(one)[n]
      BY <1>4, <1>8, <2>1, <3>2
    <3> QED
      BY <1>4, <3>1, <3>2
  <2>2. ASSUME NEW n \in DOMAIN SharedWarnings(one),
               r = [rule |-> n, severity |-> "warn", outcome |-> Outcome("warn", SharedWarnings(one)[n])]
        PROVE  r.outcome = "skip" \/ r \in Results(two, profile.gates, others)
    <3>1. CASE SharedWarnings(one)[n] = {}
      BY <1>6, <2>2, <3>1
    <3>2. CASE SharedWarnings(two)[n] = SharedWarnings(one)[n]
      BY <1>4, <1>9, <2>2, <3>2
    <3> QED
      BY <1>4, <3>1, <3>2
  <2>3. ASSUME NEW i \in DOMAIN profile.gates,
               r = [rule |-> profile.gates[i].id, severity |-> profile.gates[i].severity,
                    outcome |-> Outcome(profile.gates[i].severity, verdicts[i].met)]
        PROVE  r.outcome = "skip" \/ r \in Results(two, profile.gates, others)
    <3>1. CASE verdicts[i].met = {}
      BY <1>6, <2>3, <3>1
    <3>2. CASE others[i] = verdicts[i]
      BY <1>10, <2>3, <3>2
    <3> QED
      BY <1>3, <3>1, <3>2
  <2> QED
    BY <1>7, <2>1, <2>2, <2>3
<1> QED
  BY <1>2, <1>11 DEF profile, two, others

LEMMA FactsSay ==
  ASSUME call \in Calls, LearntFacts, work.facts # {}
  PROVE  SAID \cup UNSAID \subseteq DOMAIN Facts
<1> DEFINE file == CHOOSE f \in call.facts : TRUE
           read == FactsFile(call)
<1>1. file \in call.facts /\ work.facts = LoadFacts(read)
  BY DEF LearntFacts
<1>2. read.state = "facts" /\ Facts = Canonicalize(read.facts)
  BY <1>1 DEF LoadFacts, Facts
<1>3. file.state = "collected"
  <2>1. file.state \in {"collected"} \cup UNREAD \cup UNDATED
    BY <1>1, CallsAreCallable DEF Callable
  <2>2. file.state # "collected" => read = file
    BY DEF FactsFile
  <2> QED
    BY <1>2, <2>1, <2>2 DEF UNREAD, UNDATED
<1>4. PICK asked : read.facts = Collect(file.said, asked)
  <2> HIDE DEF file
  <2>1. \/ read.state = "missing"
        \/ \E asked : read = [state |-> "facts", facts |-> Collect(file.said, asked)]
    BY <1>3 DEF FactsFile, file
  <2> QED
    BY <1>2, <2>1
<1>5. \A said : DOMAIN Canonicalize(Collect(said, asked)) = SAID \cup UNSAID
  BY DEF Canonicalize, Collect, SAID, UNSAID
<1> QED
  BY <1>2, <1>4, <1>5

\* What a rule came to on a host that did not say everything, it comes to on any
\* host that says more, whatever that says.
SilenceNeverDecides ==
  Ended =>
    \A gates \in work.gates : \A f : More(Facts, f) =>
      LET other == EvaluateGates(f, Profile, Request, call.today)
      IN  other.state = "evaluated" =>
            \A r \in gates.results : r.outcome = "skip" \/ r \in other.results

\* No gate is passed, and none is refused, for want of an answer, whatever the
\* answers would have been (preflight/shared.py, preflight/engine.py, expressions.py).
THEOREM NoAnswerIsMissed == CommandSpec => []SilenceNeverDecides
<1>1. ASSUME CommandInv PROVE SilenceNeverDecides
  <2>1. SUFFICES ASSUME NEW gates \in work.gates, NEW f, More(Facts, f),
                        EvaluateGates(f, Profile, Request, call.today).state = "evaluated",
                        NEW r \in gates.results
                 PROVE  \/ r.outcome = "skip"
                        \/ r \in EvaluateGates(f, Profile, Request, call.today).results
    BY DEF SilenceNeverDecides
  <2>2. /\ Gates.state = "evaluated" /\ work.request # {}
        /\ work.gates = {EvaluateGates(Facts, Profile, Request, call.today)}
    BY <1>1 DEF CommandInv, Learnt, LearntGates
  <2>3. /\ gates = EvaluateGates(Facts, Profile, Request, call.today)
        /\ gates.state = "evaluated"
    BY <2>2 DEF Gates
  <2>4. work.facts # {} /\ work.profile # {}
    BY <1>1, <2>2 DEF CommandInv, Learnt, LearntRequest
  <2>5. Profile = Build(call.profile.documents) /\ Schematic(call.profile.documents)
    BY <1>1, <2>4, ProfileIsWritten DEF CommandInv, Called, Learnt
  <2> QED
    BY <2>1, <2>3, <2>5, ResultsFill
<1> QED
  BY <1>1, CommandAlways, PTL

\* So it is of a host that says what a run has it say (preflight/shared.py,
\* preflight/engine.py, expressions.py).
THEOREM SilenceIsNoAnswer == CommandSpec => []SilenceDecidesNothing
<1>1. ASSUME CommandInv, SilenceNeverDecides PROVE SilenceDecidesNothing
  <2>1. SUFFICES ASSUME Ended, NEW gates \in work.gates, NEW f \in Completed(Facts),
                        EvaluateGates(f, Profile, Request, call.today).state = "evaluated",
                        NEW r \in gates.results
                 PROVE  \/ r.outcome = "skip"
                        \/ r \in EvaluateGates(f, Profile, Request, call.today).results
    BY DEF SilenceDecidesNothing
  <2>2. work.facts # {}
    BY <1>1, <2>1 DEF CommandInv, Learnt, LearntGates, LearntRequest
  <2>3. More(Facts, f)
    BY <1>1, <2>2, FactsSay, CompletedIsMore DEF CommandInv, Called, Learnt
  <2> QED
    BY <1>1, <2>1, <2>3 DEF SilenceNeverDecides
<1> QED
  BY <1>1, NoAnswerIsMissed, CommandAlways, PTL

-----------------------------------------------------------------------------
(* What an observation says, and what it would say with less in it.        *)

\* A reading of settings has them (Observable), in the observation that is read too.
Recorded(k, reading) ==
  /\ k = "parameters" => {"settings", "unknown"} \subseteq DOMAIN reading
  /\ k = "initialization" => {"settings", "locale"} \subseteq DOMAIN reading
  /\ k = "paths" => "resolved" \in DOMAIN reading
  /\ k = "auth" => "rules" \in DOMAIN reading
  /\ k = "account" => "roles" \in DOMAIN reading
Noted ==
  /\ \A o, p \in work.observation : o = p
  /\ \A o \in work.observation :
       /\ "observations" \in DOMAIN o
       /\ \A k \in DOMAIN o.observations : Recorded(k, o.observations[k])

LEMMA NotedFile ==
  ASSUME NEW c, Callable(c), c.observed # {},
         (CHOOSE o \in c.observed : TRUE).state = "written"
  PROVE  LET o == ObservationFile(c)
         IN  /\ "observations" \in DOMAIN o
             /\ \A k \in DOMAIN o.observations : Recorded(k, o.observations[k])
<1> DEFINE file == CHOOSE o \in c.observed : TRUE
           written == Observation(file.sections, kept[file.pick])
           said == [k \in {n \in DOMAIN file.sections : file.sections[n] # {}} |->
                      Default(file.sections[k], <<>>)]
<1>1. Observable(file.sections)
  BY DEF Callable
<1>2. ObservationFile(c) = [written EXCEPT !.host = Default(file.host, @)]
  BY DEF ObservationFile
<1>3. DOMAIN written = {"plan_id", "host", "observations"} /\ written.observations = said
  BY DEF Observation
<1> HIDE DEF written
<1>4. "observations" \in DOMAIN ObservationFile(c) /\ ObservationFile(c).observations = said
  BY <1>2, <1>3
<1>5. ASSUME NEW k \in DOMAIN said PROVE Recorded(k, said[k])
  <2> HIDE DEF file
  <2>1. k \in DOMAIN file.sections /\ file.sections[k] # {} /\ said[k] = Default(file.sections[k], <<>>)
    OBVIOUS
  <2>2. said[k] \in file.sections[k]
    BY <2>1 DEF Default
  <2> QED
    BY <1>1, <2>1, <2>2, Zenon DEF Observable, Recorded
<1> HIDE DEF said
<1> QED
  BY <1>4, <1>5

LEMMA NotedInit == CommandInit => Noted
  BY BlankHas DEF CommandInit, Noted

LEMMA NotedStep ==
  ASSUME CommandInv, Noted, [CommandNext]_all
  PROVE  Noted'
<1> USE BlankHas
<1>1. CASE work' = Blank
  BY <1>1 DEF Noted
<1>2. CASE work' = work
  BY <1>2 DEF Noted
<1>3. ASSUME NEW k \in DOMAIN Blank, k # "observation", NEW v, work' = [work EXCEPT ![k] = v]
      PROVE  Noted'
  <2>1. work'["observation"] = work["observation"]
    BY <1>3, Gains DEF CommandInv, Made
  <2> QED
    BY <2>1 DEF Noted
<1>4. CASE ReadObservation
  <2> DEFINE file == CHOOSE o \in call.observed : TRUE
             o == ObservationFile(call)
  <2>1. /\ call.observed # {} /\ call \in Calls /\ Callable(call)
        /\ DOMAIN work = DOMAIN Blank
    BY <1>4, CallsAreCallable DEF ReadObservation, CommandInv, Made, Called
  <2>2. file.state \in {"written"} \cup UNREAD \cup UNDATED
    BY <2>1 DEF Callable
  <2>3. work' = work \/ (file.state = "written" /\ work' = [work EXCEPT !["observation"] = {o}])
    BY <1>4, <2>2 DEF ReadObservation, UNREAD, UNDATED, Go, End
  <2>4. CASE file.state = "written" /\ work' = [work EXCEPT !["observation"] = {o}]
    <3>1. work'["observation"] = {o}
      BY <2>1, <2>4, Gains
    <3>2. "observations" \in DOMAIN o /\ \A k \in DOMAIN o.observations : Recorded(k, o.observations[k])
      BY <2>1, <2>4, NotedFile
    <3> HIDE DEF o
    <3> QED
      BY <3>1, <3>2 DEF Noted
  <2> QED
    BY <1>2, <2>3, <2>4
<1>5. CASE Invoke
  BY <1>1, <1>5 DEF Invoke
<1>6. CASE ParseArguments \/ SizingFailed \/ KeepPlan \/ FindPlan
  BY <1>2, <1>6 DEF ParseArguments, SizingFailed, KeepPlan, FindPlan, Go, End
<1>7. CASE StartSizing \/ SizeOn \/ Terminated \/ UNCHANGED all
  BY <1>2, <1>7 DEF StartSizing, SizeOn, Terminated, process, all
<1>8. Ends => Noted'
  BY <1>2 DEF Ends, End
<1>9. ASSUME NEW k \in DOMAIN Blank, k # "observation", NEW v, Gain(k, v) PROVE Noted'
  BY <1>3, <1>9 DEF Gain
<1>10. CASE ReadFacts
  BY <1>8, <1>9, <1>10, ReadFactsWays
<1>11. CASE ReadProfile
  BY <1>8, <1>9, <1>11, ReadProfileWays
<1>12. CASE ResolveTheRequest
  <2>1. work' = work \/ \E v : work' = [work EXCEPT !["request"] = v]
    BY <1>12 DEF ResolveTheRequest, Go, End
  <2> QED
    BY <1>2, <1>3, <2>1
<1>13. CASE EvaluateAll
  BY <1>8, <1>9, <1>13, EvaluateAllWays, ProfileIsWritten DEF EvaluateAll, CommandInv, Called, Learnt, Made, Has
<1>14. CASE MakePlan
  BY <1>8, <1>9, <1>14, MakePlanWays
<1>15. CASE ReadPlan
  BY <1>8, <1>9, <1>15, ReadPlanWays DEF ReadPlan, CommandInv, Called, Made
<1>16. CASE Judge
  <2>1. \E v : work' = [work EXCEPT !["verdict"] = v]
    BY <1>16 DEF Judge, EndWith
  <2> QED
    BY <1>3, <2>1
<1> QED
  BY <1>4, <1>5, <1>6, <1>7, <1>10, <1>11, <1>12, <1>13, <1>14, <1>15, <1>16
     DEF CommandNext, Proceed

\* A reading with fewer settings in it, or with nothing left of what it lists, and
\* readings of which there are fewer.
Fewer(k, r, s) ==
  /\ k \in {"parameters", "initialization"}
  /\ DOMAIN r.settings \subseteq DOMAIN s.settings
  /\ \A n \in DOMAIN r.settings : r.settings[n] = s.settings[n]
  /\ k = "parameters" => r.unknown = s.unknown
  /\ k = "initialization" => r.locale = s.locale
Bare(k, r) ==
  \/ k = "paths" /\ DOMAIN r.resolved = {}
  \/ k = "auth" /\ r.rules = {}
  \/ k = "account" /\ r.roles = {}
Stripped(k, r, s) == Fewer(k, r, s) \/ Bare(k, r)
Lessened(a, b) ==
  /\ DOMAIN a \subseteq DOMAIN b
  /\ \A k \in DOMAIN a : a[k] = b[k] \/ Stripped(k, a[k], b[k])

LEMMA LessIsLessened ==
  ASSUME NEW o, "observations" \in DOMAIN o,
         \A k \in DOMAIN o.observations : Recorded(k, o.observations[k]),
         NEW less \in Less(o)
  PROVE  Lessened(less.observations, o.observations)
<1> DEFINE said == o.observations
           Drop(g, x) == [n \in (DOMAIN g) \ {x} |-> g[n]]
<1>1. \/ \E k \in DOMAIN said : less = [o EXCEPT !.observations = Drop(said, k)]
      \/ \E k \in {"parameters", "initialization"} : \E n \in DOMAIN said[k].settings :
           k \in DOMAIN said /\ less = [o EXCEPT !.observations[k].settings = Drop(said[k].settings, n)]
      \/ \E k \in {"paths", "auth", "account"} \cap DOMAIN said :
           less = [o EXCEPT !.observations[k] = Emptied(k, said[k])]
  <2> DEFINE one == {[o EXCEPT !.observations = Drop(said, k)] : k \in DOMAIN said}
             settings == {k \in {"parameters", "initialization"} : k \in DOMAIN said}
             two(k) == {[o EXCEPT !.observations[k].settings = Drop(said[k].settings, n)] :
                          n \in DOMAIN said[k].settings}
             three == {[o EXCEPT !.observations[k] = Emptied(k, said[k])] :
                         k \in {"paths", "auth", "account"} \cap DOMAIN said}
  <2>1. Less(o) = one \cup (UNION {two(k) : k \in settings}) \cup three
    BY DEF Less
  <2>2. less \in one => \E k \in DOMAIN said : less = [o EXCEPT !.observations = Drop(said, k)]
    OBVIOUS
  <2>3. \A k : less \in two(k) => \E n \in DOMAIN said[k].settings :
                less = [o EXCEPT !.observations[k].settings = Drop(said[k].settings, n)]
    OBVIOUS
  <2>4. less \in three => \E k \in {"paths", "auth", "account"} \cap DOMAIN said :
                             less = [o EXCEPT !.observations[k] = Emptied(k, said[k])]
    OBVIOUS
  <2> HIDE DEF one, two, three
  <2>5. less \in one \/ less \in three \/ \E k \in settings : less \in two(k)
    BY <2>1
  <2>6. ASSUME NEW k \in settings, less \in two(k)
        PROVE  \E n \in DOMAIN said[k].settings :
                 less = [o EXCEPT !.observations[k].settings = Drop(said[k].settings, n)]
    BY <2>3, <2>6, Zenon
  <2>7. \A k \in settings : k \in {"parameters", "initialization"} /\ k \in DOMAIN said
    OBVIOUS
  <2>8. CASE less \in one
    BY <2>2, <2>8, Zenon
  <2>9. CASE less \in three
    BY <2>4, <2>9, Zenon
  <2>10. CASE \E k \in settings : less \in two(k)
    BY <2>6, <2>7, <2>10, Zenon
  <2> QED
    BY <2>5, <2>8, <2>9, <2>10, Zenon
<1>2. CASE \E k \in DOMAIN said : less = [o EXCEPT !.observations = Drop(said, k)]
  <2>1. PICK k : less.observations = Drop(said, k)
    BY <1>2
  <2> QED
    BY <2>1 DEF Lessened
<1>3. ASSUME NEW k \in {"parameters", "initialization"}, NEW n, k \in DOMAIN said,
             less = [o EXCEPT !.observations[k].settings = Drop(said[k].settings, n)]
      PROVE  Lessened(less.observations, said)
  <2> DEFINE r == [said[k] EXCEPT !.settings = Drop(said[k].settings, n)]
  <2>1. less.observations = [said EXCEPT ![k] = r]
    BY <1>3
  <2>2. Recorded(k, said[k])
    BY <1>3
  <2>3. r.settings = Drop(said[k].settings, n)
    BY <2>2 DEF Recorded
  <2>4. k = "parameters" => r.unknown = said[k].unknown
    BY <2>2 DEF Recorded
  <2>5. k = "initialization" => r.locale = said[k].locale
    BY <2>2 DEF Recorded
  <2>6. Stripped(k, r, said[k])
    <3> HIDE DEF r
    <3> QED
      BY <2>3, <2>4, <2>5 DEF Stripped, Fewer
  <2> HIDE DEF r
  <2>7. DOMAIN less.observations = DOMAIN said /\ less.observations[k] = r
        /\ \A j \in DOMAIN said : j # k => less.observations[j] = said[j]
    BY <1>3, <2>1
  <2> QED
    BY <2>6, <2>7 DEF Lessened
<1>4. ASSUME NEW k \in {"paths", "auth", "account"} \cap DOMAIN said,
             less = [o EXCEPT !.observations[k] = Emptied(k, said[k])]
      PROVE  Lessened(less.observations, said)
  <2> DEFINE r == Emptied(k, said[k])
  <2>1. less.observations = [said EXCEPT ![k] = r]
    BY <1>4
  <2>2. Recorded(k, said[k])
    OBVIOUS
  <2>3. Bare(k, r)
    BY <2>2 DEF Recorded, Emptied, Bare
  <2> HIDE DEF r
  <2>4. DOMAIN less.observations = DOMAIN said /\ less.observations[k] = r
        /\ \A j \in DOMAIN said : j # k => less.observations[j] = said[j]
    BY <2>1
  <2> QED
    BY <2>3, <2>4 DEF Lessened, Stripped
<1> QED
  BY <1>1, <1>2, <1>3, <1>4

\* A setting that nobody asked about is one of which nothing is known: a judgement
\* that passes without it passes with it.
LEMMA JudgedWithMore ==
  ASSUME NEW k, NEW says, NEW r, NEW s, Stripped(k, r, s), Judgement(k, says, r) = "pass"
  PROVE  Judgement(k, says, s) = "pass"
<1> USE DEF Fewer
<1>1. CASE k = "parameters" /\ Fewer(k, r, s)
  <2>1. Judgement(k, says, r) = JudgeParameters(says, r) /\ Judgement(k, says, s) = JudgeParameters(says, s)
    BY <1>1 DEF Judgement
  <2> DEFINE planned == says.parameters
             Asking(x) == {i \in DOMAIN planned : planned[i].parameter \in DOMAIN x.settings}
             Right(x) == \A i \in Asking(x) : Same(x.settings[planned[i].parameter], planned[i].value)
  <2>2. /\ planned # <<>> /\ r.unknown = {} /\ Asking(r) = DOMAIN planned
        /\ \A i \in Asking(r) : Same(r.settings[planned[i].parameter], planned[i].value)
    BY <2>1 DEF JudgeParameters, Passed
  <2>3. s.unknown = {} /\ Asking(s) = DOMAIN planned
    BY <1>1, <2>2
  <2>4. \A i \in DOMAIN planned :
          /\ planned[i].parameter \in DOMAIN r.settings
          /\ s.settings[planned[i].parameter] = r.settings[planned[i].parameter]
    BY <1>1, <2>2
  <2>5. Right(s)
    BY <2>2, <2>3, <2>4
  <2>6. JudgeParameters(says, s) = Passed(Right(s))
    BY <2>2, <2>3, Zenon DEF JudgeParameters
  <2> QED
    BY <2>1, <2>5, <2>6 DEF Passed
<1>2. CASE k = "initialization" /\ Fewer(k, r, s)
  <2>1. /\ Judgement(k, says, r) = JudgeInitialization(says, r)
        /\ Judgement(k, says, s) = JudgeInitialization(says, s)
    BY <1>2 DEF Judgement
  <2> DEFINE wanted == CreatedWith(Default(says.actions.initialization, <<>>))
             Found(x) == CreatedWith(x)
             Wrong(x) == \E n \in (DOMAIN wanted) \cap (DOMAIN Found(x)) : ~Same(Found(x)[n], wanted[n])
             Verdict0(x) == IF says.actions.initialization = {} THEN "unobserved"
                            ELSE IF Wrong(x) THEN "fail"
                            ELSE IF ~(DOMAIN wanted \subseteq DOMAIN Found(x)) THEN "unobserved" ELSE "pass"
  <2>2. \A x : JudgeInitialization(says, x) = Verdict0(x)
    BY Zenon DEF JudgeInitialization
  <2>3. r.locale = s.locale
    BY <1>2
  <2>4. /\ DOMAIN Found(r) \subseteq DOMAIN Found(s)
        /\ \A n \in DOMAIN Found(r) : Found(r)[n] = Found(s)[n]
    <3> DEFINE l == {n \in {"locale"} : s.locale # {}}
    <3>1. /\ DOMAIN Found(r) = (DOMAIN r.settings) \cup l
          /\ DOMAIN Found(s) = (DOMAIN s.settings) \cup l
      BY <2>3 DEF CreatedWith
    <3>2. \A n \in DOMAIN r.settings : n \in DOMAIN s.settings /\ r.settings[n] = s.settings[n]
      BY <1>2
    <3>3. ASSUME NEW n \in DOMAIN Found(r) PROVE Found(r)[n] = Found(s)[n]
      BY <2>3, <3>2 DEF CreatedWith
    <3> HIDE DEF Found, l
    <3> QED
      BY <3>1, <3>2, <3>3
  <2> HIDE DEF Found, wanted
  <2>5. /\ says.actions.initialization # {} /\ ~Wrong(r) /\ DOMAIN wanted \subseteq DOMAIN Found(r)
    BY <2>1, <2>2
  <2>6. ~Wrong(s) /\ DOMAIN wanted \subseteq DOMAIN Found(s)
    BY <2>4, <2>5
  <2>7. Verdict0(s) = "pass"
    BY <2>5, <2>6
  <2> QED
    BY <2>1, <2>2, <2>7
<1>3. ~Bare(k, r)
  BY DEF Bare, Judgement, JudgePaths, JudgeAuth, JudgeAccount
<1> QED
  BY <1>1, <1>2, <1>3 DEF Stripped

\* What an expression may read of a reading.
LEMMA ReadingsArePlain ==
  ASSUME NEW kind \in KINDS, NEW reading
  PROVE  LET x == ObservedKind(kind, reading)
         IN  /\ x.t = "group" /\ "service" \notin DOMAIN x.g
             /\ \A k \in DOMAIN x.g : Plainly(x.g[k])
<1> DEFINE g == ObservedKind(kind, reading).g
<1>1. ObservedKind(kind, reading) = Group(g)
  BY DEF ObservedKind, Group
<1>2. \A n \in DOMAIN g : Plainly(g[n])
  BY ValuesArePlain DEF ObservedKind, Group, KINDS
<1>3. "service" \notin DOMAIN g
  BY DEF ObservedKind, Group, KINDS
<1> HIDE DEF g
<1> QED
  BY <1>1, <1>2, <1>3 DEF Group

LEMMA StrippedIsReadAlike ==
  ASSUME NEW k, NEW r, NEW s, Stripped(k, r, s)
  PROVE  ObservedKind(k, r) = ObservedKind(k, s)
  BY DEF Stripped, Fewer, Bare, ObservedKind

\* The scope of the conditions has less in it, and nothing else.
LEMMA LessIsFilled ==
  ASSUME NEW says, NEW a, NEW b, Lessened(a, b)
  PROVE  \E G : Fills(VerificationScope(says, a), VerificationScope(says, b), G)
<1> DEFINE x == VerificationScope(says, a)
           y == VerificationScope(says, b)
           asked == [environment |-> Word(says.request.environment),
                     port |-> Numeral(2 * says.request.port)]
           plan == [request |-> Group(asked)]
           Seen(o) == [k \in KINDS |-> IF k \in DOMAIN o THEN ObservedKind(k, o[k]) ELSE Unreported]
           N == {"observed"}
           sign == [n \in N |-> "service"]
           p == [n \in N |-> Group(Seen(a))]
           q == [n \in N |-> Group(Seen(b))]
           read == {ObservedKind(k, b[k]) : k \in KINDS}
           same == {Group(asked), Group(plan)} \cup read
           G == Pairs(N, p, q, same)
<1>1. /\ DOMAIN x = {"plan", "observed", "GiB", "none"} /\ DOMAIN y = DOMAIN x
      /\ x["plan"] = Group(plan) /\ y["plan"] = Group(plan)
      /\ x["observed"] = Group(Seen(a)) /\ y["observed"] = Group(Seen(b))
      /\ x["GiB"] = Numeral(2) /\ y["GiB"] = Numeral(2)
      /\ x["none"] = Nothing /\ y["none"] = Nothing
  BY DEF VerificationScope
<1>2. /\ DOMAIN asked = {"environment", "port"} /\ \A k \in DOMAIN asked : Plainly(asked[k])
      /\ DOMAIN plan = {"request"} /\ plan["request"] = Group(asked)
  BY ValuesArePlain
<1>3. ASSUME NEW z \in read
      PROVE  z.t = "group" /\ "service" \notin DOMAIN z.g /\ \A k \in DOMAIN z.g : Plainly(z.g[k])
  BY ReadingsArePlain
<1>4. /\ DOMAIN Seen(a) = KINDS /\ DOMAIN Seen(b) = KINDS /\ "service" \in KINDS
      /\ \A k \in KINDS : \/ Seen(a)[k] = Unreported
                          \/ Seen(a)[k] = Seen(b)[k] /\ Seen(a)[k] \in read
  <2>1. "service" \in KINDS
    BY DEF KINDS
  <2>2. ASSUME NEW k \in KINDS, k \in DOMAIN a
        PROVE  Seen(a)[k] = ObservedKind(k, b[k]) /\ Seen(b)[k] = ObservedKind(k, b[k])
    BY <2>2, StrippedIsReadAlike DEF Lessened
  <2> QED
    BY <2>1, <2>2
<1>5. /\ p["observed"] = Group(Seen(a)) /\ q["observed"] = Group(Seen(b))
      /\ sign["observed"] = "service"
  OBVIOUS
<1> HIDE DEF x, y, asked, plan, Seen, read, p, q, sign
<1>6. Grown(N, sign, p, q, same, "observed")
  <2>1. p["observed"].t = "group" /\ q["observed"].t = "group"
        /\ p["observed"].g = Seen(a) /\ q["observed"].g = Seen(b)
    BY <1>5 DEF Group
  <2>2. Told(Unreported, Unreported) /\ \A z : Told(Unreported, z)
    BY DEF Told, Unreported
  <2>3. \A k \in KINDS : Told(Seen(a)[k], Seen(b)[k])
                         \/ (Seen(a)[k] = Seen(b)[k] /\ Seen(a)[k] \in same)
    BY <1>4, <2>2
  <2> HIDE DEF same
  <2> QED
    BY <1>4, <1>5, <2>1, <2>3 DEF Grown
<1>7. ASSUME NEW z \in same PROVE Held(N, p, q, same, z)
  <2>1. z.t = "group" /\ "service" \notin DOMAIN z.g
    BY <1>2, <1>3 DEF Group
  <2>2. \A k \in DOMAIN z.g : Plainly(z.g[k]) \/ z.g[k] \in same
    <3>1. CASE z \in read
      BY <1>3, <3>1
    <3>2. CASE z = Group(asked)
      BY <1>2, <3>2 DEF Group
    <3>3. CASE z = Group(plan)
      <4>1. z.g = plan
        BY <3>3 DEF Group
      <4> QED
        BY <1>2, <4>1
    <3> QED
      BY <3>1, <3>2, <3>3
  <2>3. p["observed"] # z /\ q["observed"] # z
    BY <1>4, <1>5, <2>1 DEF Group
  <2> HIDE DEF same
  <2> QED
    BY <2>1, <2>2, <2>3 DEF Held
<1>8. Group(plan) \in same /\ "observed" \in N /\ \A n \in N : n = "observed"
  OBVIOUS
<1> HIDE DEF N, same
<1>9. Paired(G)
  BY <1>6, <1>7, <1>8, GroupsPaired
<1>10. <<Group(Seen(a)), Group(Seen(b))>> \in G /\ <<Group(plan), Group(plan)>> \in G
  BY <1>5, <1>8 DEF Pairs
<1> HIDE DEF G
<1>11. Told(Numeral(2), Numeral(2)) /\ Told(Nothing, Nothing)
  BY DEF Told, Numeral, Nothing
<1>12. \A n \in DOMAIN x : Filled(x[n], y[n], G)
  BY <1>1, <1>10, <1>11 DEF Filled
<1>13. Fills(x, y, G)
  BY <1>1, <1>9, <1>12 DEF Fills
<1> QED
  BY <1>13 DEF x, y

\* A condition that is met without a reading is met with it.
LEMMA NarrowedWithMore ==
  ASSUME NEW e, Formed(e), NEW a, NEW b, NEW G, Fills(a, b, G), Narrowed(e, a) = "pass"
  PROVE  Narrowed(e, b) = "pass"
<1>1. Readable(e) /\ Truth(e, a).t = "yesno" /\ Truth(e, a).b
  <2> DEFINE v == IF Readable(e) THEN Truth(e, a) ELSE Traceback
  <2>1. v.t = "yesno" /\ v.b
    <3>1. Narrowed(e, a) = CASE v.t = "yesno" -> Passed(v.b)
                             [] v.t = "unreported" -> "unobserved"
                             [] OTHER -> v.t
      BY DEF Narrowed
    <3>2. v.t \in {"yesno", "error", "traceback", "unreported"}
      BY DEF Truth, Truthy, Failed, Error, Traceback
    <3> HIDE DEF v
    <3> QED
      BY <3>1, <3>2 DEF Passed
  <2> QED
    BY <2>1 DEF Traceback
<1>2. Truth(e, b) = Truth(e, a)
  BY <1>1, EvaluateFills DEF Told
<1> QED
  BY <1>1, <1>2 DEF Narrowed

LEMMA CheckedWithMore ==
  ASSUME NEW entry, entry.kind \in KINDS, \A e \in entry.expr : Formed(e),
         NEW says, NEW a, NEW b, Lessened(a, b),
         Check(entry, says, a, VerificationScope(says, a)) = "pass"
  PROVE  Check(entry, says, b, VerificationScope(says, b)) = "pass"
<1> DEFINE k == entry.kind
           x == VerificationScope(says, a)
           y == VerificationScope(says, b)
           e == Default(entry.expr, Nothing)
<1>1. PICK G : Fills(x, y, G)
  BY LessIsFilled
<1> HIDE DEF x, y
<1>2. /\ k \in DOMAIN a /\ Judgement(k, says, a[k]) = "pass"
      /\ entry.expr # {} => Narrowed(e, x) = "pass"
  BY DEF Check, x
<1>3. k \in DOMAIN b /\ (a[k] = b[k] \/ Stripped(k, a[k], b[k]))
  BY <1>2 DEF Lessened
<1>4. Judgement(k, says, b[k]) = "pass"
  BY <1>2, <1>3, JudgedWithMore
<1>5. entry.expr # {} => Narrowed(e, y) = "pass"
  <2>1. entry.expr # {} => e \in entry.expr
    BY DEF Default
  <2> HIDE DEF e
  <2> QED
    BY <1>1, <1>2, <2>1, NarrowedWithMore
<1> QED
  BY <1>3, <1>4, <1>5 DEF Check, y

\* A verdict is that every check passed.
LEMMA VerdictIsAll ==
  ASSUME NEW plan, NEW profile, NEW observation, Verify(plan, profile, observation).state = "judged"
  PROVE  Verify(plan, profile, observation).verified <=>
           \A i \in DOMAIN profile.checks :
             Check(profile.checks[i], plan.says, observation.observations,
                   VerificationScope(plan.says, observation.observations)) = "pass"
<1> DEFINE scope == VerificationScope(plan.says, observation.observations)
           outcomes == [i \in DOMAIN profile.checks |->
                          Check(profile.checks[i], plan.says, observation.observations, scope)]
           all0 == \A i \in DOMAIN outcomes : outcomes[i] = "pass"
<1>1. Verify(plan, profile, observation) = [state |-> "judged", outcomes |-> outcomes, verified |-> all0]
  BY DEF Verify
<1> HIDE DEF scope, outcomes, all0
<1>2. Verify(plan, profile, observation).verified = all0
  BY <1>1
<1> QED
  BY <1>2 DEF all0, outcomes, scope

\* What did not verify an instance does not without some of its sections, without
\* settings of a section, or without all that a section lists.
LessNeverVerifies ==
  Ended => \A verdict \in work.verdict :
    (verdict.state = "judged" /\ ~verdict.verified) =>
      \A o \in work.observation : \A less : Lessened(less.observations, o.observations) =>
        LET other == Verify(Plan, Profile, less)
        IN  other.state = "judged" => ~other.verified

\* An instance that is verified by an observation is verified by one that has whole
\* sections more, or settings more in the sections that read settings, or a list in
\* place of an empty one: what was not asked about is never what the verdict rests
\* on (verify/run.py, verify/judge.py).  Nothing is said of one entry more of a list
\* that has some, a path, a rule, an account or a setting nobody knows: each such
\* entry is judged by itself, and one that is wrong fails what passed without it.
THEOREM NoLessVerifies == CommandSpec => []LessNeverVerifies
<1>1. ASSUME CommandInv, Noted PROVE LessNeverVerifies
  <2>1. SUFFICES ASSUME NEW verdict \in work.verdict, verdict.state = "judged",
                        NEW o \in work.observation, NEW less,
                        Lessened(less.observations, o.observations),
                        Verify(Plan, Profile, less).state = "judged",
                        Verify(Plan, Profile, less).verified
                 PROVE  verdict.verified
    BY DEF LessNeverVerifies
  <2>2. /\ verdict = Verify(Plan, Profile, CHOOSE p \in work.observation : TRUE)
        /\ work.profile # {}
    BY <1>1 DEF CommandInv, Learnt, LearntVerdict
  <2>3. verdict = Verify(Plan, Profile, o)
    BY <1>1, <2>2 DEF Noted
  <2>4. Profile = Build(call.profile.documents) /\ Schematic(call.profile.documents)
    BY <1>1, <2>2, ProfileIsWritten DEF CommandInv, Called, Learnt
  <2>5. ASSUME NEW i \in DOMAIN Profile.checks
        PROVE  Check(Profile.checks[i], Plan.says, o.observations,
                     VerificationScope(Plan.says, o.observations)) = "pass"
    <3> DEFINE entry == Profile.checks[i]
    <3>1. Profile.checks = call.profile.documents.checks
      BY <2>4, SMTT(30) DEF Build
    <3>2. entry.kind \in KINDS /\ \A e \in entry.expr : Formed(e)
      BY <2>4, <3>1, TheExpressed DEF Schematic
    <3>3. Check(entry, Plan.says, less.observations, VerificationScope(Plan.says, less.observations)) = "pass"
      BY <2>1, VerdictIsAll
    <3> HIDE DEF entry
    <3>4. Check(entry, Plan.says, o.observations, VerificationScope(Plan.says, o.observations)) = "pass"
      BY <2>1, <3>2, <3>3, CheckedWithMore
    <3> QED
      BY <3>4 DEF entry
  <2> QED
    BY <2>1, <2>3, <2>5, VerdictIsAll
<1>2. CommandInit => Noted
  BY NotedInit
<1>3. CommandInv /\ Noted /\ [CommandNext]_all => Noted'
  BY NotedStep
<1> QED
  BY <1>1, <1>2, <1>3, CommandAlways, PTL DEF CommandSpec

\* So it is of an observation without one section, without one setting, or without
\* all that one section lists, as a run leaves them out (verify/run.py,
\* verify/judge.py).
THEOREM LessVerifiesNoMore == CommandSpec => []LessIsNotMore
<1>1. ASSUME Noted, LessNeverVerifies PROVE LessIsNotMore
  <2>1. \A o \in work.observation : \A less \in Less(o) : Lessened(less.observations, o.observations)
    BY <1>1, LessIsLessened DEF Noted
  <2> QED
    BY <1>1, <2>1 DEF LessIsNotMore, LessNeverVerifies
<1>2. CommandInit => Noted
  BY NotedInit
<1>3. CommandInv /\ Noted /\ [CommandNext]_all => Noted'
  BY NotedStep
<1> QED
  BY <1>1, <1>2, <1>3, NoLessVerifies, CommandAlways, PTL DEF CommandSpec

-----------------------------------------------------------------------------
(* What a plan says it changes, and what it does not.                      *)

Row(s) == s \in Seq(Range(s))

LEMMA RowIsLong ==
  ASSUME NEW s, Row(s)
  PROVE  Len(s) \in Nat /\ DOMAIN s = 1..Len(s)
  BY DEF Row

LEMMA NoneIsRow == Row(<<>>)
  BY DEF Row

LEMMA OneIsRow ==
  ASSUME NEW x
  PROVE  Row(<<x>>)
<1>1. x \in Range(<<x>>)
  BY DEF Range
<1> QED
  BY <1>1 DEF Row

LEMMA ListIsRow ==
  ASSUME NEW s, NEW n \in Nat, s = [i \in 1..n |-> s[i]]
  PROVE  Row(s) /\ Len(s) = n
<1>1. \A i \in 1..n : s[i] \in Range(s)
  BY DEF Range
<1>2. s \in [1..n -> Range(s)]
  BY <1>1
<1> QED
  BY <1>2 DEF Row

\* What is in one of two rows is in both, one after the other.
LEMMA Joined ==
  ASSUME NEW a, Row(a), NEW b, Row(b)
  PROVE  Row(a \o b) /\ Range(a \o b) = Range(a) \cup Range(b)
<1> DEFINE X == Range(a) \cup Range(b)
<1>1. a \in Seq(X) /\ b \in Seq(X)
  BY DEF Row, Range
<1>2. Len(a) \in Nat /\ Len(b) \in Nat /\ DOMAIN a = 1..Len(a) /\ DOMAIN b = 1..Len(b)
  BY <1>1
<1> HIDE DEF X
<1>3. /\ a \o b \in Seq(X) /\ Len(a \o b) = Len(a) + Len(b)
      /\ DOMAIN (a \o b) = 1..(Len(a) + Len(b))
  BY <1>1
<1>4. \A i \in 1..Len(a) : (a \o b)[i] = a[i]
  BY <1>1
<1>5. \A i \in 1..Len(b) : (a \o b)[Len(a) + i] = b[i]
  BY <1>1
<1>6. ASSUME NEW i \in 1..(Len(a) + Len(b)) PROVE (a \o b)[i] \in Range(a) \cup Range(b)
  <2>1. CASE i <= Len(a)
    BY <1>2, <1>4, <2>1 DEF Range
  <2>2. CASE i > Len(a)
    <3>1. i - Len(a) \in 1..Len(b) /\ Len(a) + (i - Len(a)) = i
      BY <1>2, <2>2
    <3> QED
      BY <1>2, <1>5, <3>1 DEF Range
  <2> QED
    BY <1>2, <2>1, <2>2
<1>7. Range(a) \subseteq Range(a \o b)
  BY <1>2, <1>3, <1>4 DEF Range
<1>8. ASSUME NEW i \in 1..Len(b) PROVE b[i] \in Range(a \o b)
  <2>1. Len(a) + i \in DOMAIN (a \o b)
    BY <1>2, <1>3
  <2> QED
    BY <1>5, <2>1 DEF Range
<1>9. Range(b) \subseteq Range(a \o b)
  BY <1>2, <1>8 DEF Range
<1>10. Range(a \o b) = X
  BY <1>3, <1>6, <1>7, <1>9 DEF Range, X
<1> QED
  BY <1>3, <1>10 DEF Row, X

\* What a row of rows comes to, row by row.
Flat(s, n, f) == f = [i \in 1..n |-> IF i = 1 THEN s[i] ELSE f[i - 1] \o s[i]]

LEMMA FlatIsNext ==
  ASSUME NEW s, NEW n \in Nat, NEW f, Flat(s, n, f)
  PROVE  \E g : Flat(s, n + 1, g)
<1> DEFINE g == [i \in 1..(n + 1) |-> IF i = 1 THEN s[i] ELSE f[i - 1] \o s[i]]
<1>1. ASSUME NEW i \in 1..n PROVE g[i] = f[i]
  <2> DEFINE piece == IF i = 1 THEN s[i] ELSE f[i - 1] \o s[i]
  <2>1. f[i] = piece
    BY ZenonT(30) DEF Flat
  <2>2. g[i] = piece
    <3>1. i \in 1..(n + 1)
      OBVIOUS
    <3> QED
      BY <3>1, Zenon
  <2> QED
    BY <2>1, <2>2
<1>2. ASSUME NEW i \in 1..(n + 1)
      PROVE  (IF i = 1 THEN s[i] ELSE f[i - 1] \o s[i]) = (IF i = 1 THEN s[i] ELSE g[i - 1] \o s[i])
  <2>1. CASE i = 1
    BY <2>1
  <2>2. CASE i # 1
    <3>1. i - 1 \in 1..n
      BY <2>2
    <3> HIDE DEF g
    <3> QED
      BY <1>1, <2>2, <3>1
  <2> QED
    BY <2>1, <2>2
<1>3. Flat(s, n + 1, g)
  BY <1>2 DEF Flat
<1> QED
  BY <1>3

LEMMA FlattenUnfolds ==
  ASSUME NEW s, Row(s), Len(s) # 0
  PROVE  \E f : Flat(s, Len(s), f) /\ FlattenSeq(s) = f[Len(s)]
<1> DEFINE S == {n \in Nat : \E f : Flat(s, n, f)}
<1>1. Len(s) \in Nat
  BY RowIsLong
<1>2. 0 \in S
  <2>1. Flat(s, 0, [i \in 1..0 |-> i])
    BY DEF Flat
  <2> QED
    BY <2>1
<1>3. ASSUME NEW n \in Nat, n \in S PROVE n + 1 \in S
  BY <1>3, FlatIsNext
<1> HIDE DEF S
<1>4. Len(s) \in S
  <2>1. ASSUME NEW i \in 1..Len(s), \A j \in 1..(i - 1) : j \in S
        PROVE  i \in S
    <3>1. i - 1 \in S
      BY <1>1, <1>2, <2>1
    <3>2. i - 1 \in Nat /\ (i - 1) + 1 = i
      BY <1>1
    <3> QED
      BY <1>3, <3>1, <3>2
  <2>2. 1..Len(s) \subseteq S
    BY <1>1, <2>1, NodeByNode
  <2> QED
    BY <1>1, <2>2
<1> DEFINE flatten == CHOOSE f : f = [i \in 1..Len(s) |-> IF i = 1 THEN s[i] ELSE f[i - 1] \o s[i]]
<1>5. \E f : f = [i \in 1..Len(s) |-> IF i = 1 THEN s[i] ELSE f[i - 1] \o s[i]]
  BY <1>4 DEF S, Flat
<1>6. flatten = [i \in 1..Len(s) |-> IF i = 1 THEN s[i] ELSE flatten[i - 1] \o s[i]]
  BY <1>5
<1>7. FlattenSeq(s) = flatten[Len(s)]
  BY DEF FlattenSeq
<1> HIDE DEF flatten
<1>8. Flat(s, Len(s), flatten)
  BY <1>6 DEF Flat
<1> QED
  BY <1>7, <1>8

\* So what is in one of a row of rows is in what they come to.
LEMMA Flattened ==
  ASSUME NEW s, Row(s), \A i \in DOMAIN s : Row(s[i])
  PROVE  Row(FlattenSeq(s)) /\ \A i \in DOMAIN s : Range(s[i]) \subseteq Range(FlattenSeq(s))
<1>1. Len(s) \in Nat /\ DOMAIN s = 1..Len(s)
  BY RowIsLong
<1>2. CASE Len(s) = 0
  <2>1. FlattenSeq(s) = s
    BY <1>2 DEF FlattenSeq
  <2> QED
    BY <1>1, <1>2, <2>1
<1>3. CASE Len(s) # 0
  <2>1. PICK f : Flat(s, Len(s), f) /\ FlattenSeq(s) = f[Len(s)]
    BY <1>3, FlattenUnfolds
  <2> DEFINE T == {i \in 1..Len(s) : Row(f[i]) /\ \A j \in 1..i : Range(s[j]) \subseteq Range(f[i])}
  <2>2. ASSUME NEW i \in 1..Len(s), \A j \in 1..(i - 1) : j \in T
        PROVE  i \in T
    <3>1. CASE i = 1
      <4>1. f[i] = s[i]
        BY <2>1, <3>1 DEF Flat
      <4> QED
        BY <1>1, <3>1, <4>1
    <3>2. CASE i # 1
      <4>1. f[i] = f[i - 1] \o s[i]
        BY <2>1, <3>2 DEF Flat
      <4>2. i - 1 \in 1..(i - 1)
        BY <1>1, <3>2
      <4>3. i - 1 \in T
        BY <2>2, <4>2
      <4>4. Row(f[i - 1]) /\ Row(s[i])
        BY <1>1, <4>3
      <4>5. Row(f[i]) /\ Range(f[i]) = Range(f[i - 1]) \cup Range(s[i])
        BY <4>1, <4>4, Joined
      <4>6. \A j \in 1..(i - 1) : Range(s[j]) \subseteq Range(f[i - 1])
        BY <4>3
      <4>7. \A j \in 1..i : j = i \/ j \in 1..(i - 1)
        BY <1>1
      <4> QED
        BY <4>5, <4>6, <4>7
    <3> QED
      BY <3>1, <3>2
  <2>3. Len(s) \in T
    <3> HIDE DEF T
    <3>1. 1..Len(s) \subseteq T
      BY <1>1, <2>2, NodeByNode
    <3> QED
      BY <1>1, <1>3, <3>1
  <2> QED
    BY <1>1, <2>1, <2>3
<1> QED
  BY <1>2, <1>3

\* A setting that has to change is among the changes of the settings.
SettingChange(entry) == [change |-> "set", about |-> TunableChange(entry)]

LEMMA SettingsAreListed ==
  ASSUME NEW tunables, Row(tunables)
  PROVE  /\ Row(TunableChanges(tunables))
         /\ \A i \in DOMAIN tunables :
              TunableChange(tunables[i]) # {} =>
                SettingChange(tunables[i]) \in Range(TunableChanges(tunables))
<1> DEFINE s == [i \in DOMAIN tunables |->
                   IF TunableChange(tunables[i]) = {} THEN <<>> ELSE <<SettingChange(tunables[i])>>]
<1>1. DOMAIN tunables = 1..Len(tunables) /\ Len(tunables) \in Nat
  BY RowIsLong
<1>2. TunableChanges(tunables) = FlattenSeq(s)
  BY Zenon DEF TunableChanges, SettingChange
<1>3. \A i \in DOMAIN tunables :
        s[i] = IF TunableChange(tunables[i]) = {} THEN <<>> ELSE <<SettingChange(tunables[i])>>
  OBVIOUS
<1>4. DOMAIN s = DOMAIN tunables /\ s = [i \in 1..Len(tunables) |-> s[i]]
  BY <1>1
<1> HIDE DEF s
<1>5. Row(s)
  BY <1>1, <1>4, ListIsRow
<1>6. ASSUME NEW i \in DOMAIN s PROVE Row(s[i])
  <2>1. CASE s[i] = <<>>
    BY <2>1, NoneIsRow
  <2>2. CASE s[i] = <<SettingChange(tunables[i])>>
    BY <2>2, OneIsRow
  <2> QED
    BY <1>3, <1>4, <2>1, <2>2
<1>7. /\ Row(FlattenSeq(s))
      /\ \A i \in DOMAIN s : Range(s[i]) \subseteq Range(FlattenSeq(s))
  BY <1>5, <1>6, Flattened
<1>8. ASSUME NEW i \in DOMAIN tunables, TunableChange(tunables[i]) # {}
      PROVE  SettingChange(tunables[i]) \in Range(FlattenSeq(s))
  <2>1. s[i] = <<SettingChange(tunables[i])>>
    BY <1>3, <1>8
  <2>2. SettingChange(tunables[i]) \in Range(s[i])
    BY <2>1 DEF Range
  <2> QED
    BY <1>4, <1>7, <2>2
<1> QED
  BY <1>2, <1>7, <1>8

\* The changes of the settings are among the changes of the plan.
LEMMA SettingsAreChanges ==
  ASSUME NEW packages, NEW values, NEW profile, NEW paths,
         NEW configuration, Row(configuration), NEW tunables, Row(tunables)
  PROVE  Range(TunableChanges(tunables))
           \subseteq Range(Changes(packages, values, profile, paths, configuration, tunables))
<1> DEFINE Change(what, about) == <<[change |-> what, about |-> about]>>
           a == IF packages.repository = {} THEN <<>>
                ELSE Change("add repository",
                            UNION {Substitute(r.url, values) : r \in packages.repository})
           b == Change("install", UNION {Substitute(packages.install[i], values) :
                                           i \in DOMAIN packages.install})
           c == IF profile.account.create THEN Change("create account", {profile.account.name})
                ELSE <<>>
           d == Change("create directories", DOMAIN paths)
           e == IF profile.initialization = {} THEN <<>>
                ELSE Change("initialize", profile.initialization)
           f == [i \in DOMAIN configuration |->
                   [change |-> "write", about |-> {configuration[i].destination}]]
           g == TunableChanges(tunables)
           h == Change("enable and start", Substitute(packages.service, values))
<1>1. Changes(packages, values, profile, paths, configuration, tunables)
        = a \o b \o c \o d \o e \o f \o g \o h
  BY Zenon DEF Changes
<1>2. Row(a) /\ Row(b) /\ Row(c) /\ Row(d) /\ Row(e) /\ Row(h)
  <2> HIDE DEF Change
  <2>1. \A what, about : Row(Change(what, about))
    BY OneIsRow DEF Change
  <2> QED
    BY <2>1, NoneIsRow, Zenon
<1>3. Row(f)
  <2>1. DOMAIN configuration = 1..Len(configuration) /\ Len(configuration) \in Nat
    BY RowIsLong
  <2>2. f = [i \in 1..Len(configuration) |-> f[i]]
    BY <2>1
  <2> HIDE DEF f
  <2> QED
    BY <2>1, <2>2, ListIsRow
<1>4. Row(g)
  BY SettingsAreListed
<1> HIDE DEF Change, a, b, c, d, e, f, g, h
<1> DEFINE ab == a \o b
           abc == ab \o c
           abcd == abc \o d
           abcde == abcd \o e
           abcdef == abcde \o f
<1>5. Row(ab)
  BY <1>2, Joined
<1> HIDE DEF ab
<1>6. Row(abc)
  BY <1>2, <1>5, Joined
<1> HIDE DEF abc
<1>7. Row(abcd)
  BY <1>2, <1>6, Joined
<1> HIDE DEF abcd
<1>8. Row(abcde)
  BY <1>2, <1>7, Joined
<1> HIDE DEF abcde
<1>9. Row(abcdef)
  BY <1>3, <1>8, Joined
<1> HIDE DEF abcdef
<1>10. Row(abcdef \o g) /\ Range(g) \subseteq Range(abcdef \o g)
  BY <1>4, <1>9, Joined
<1>11. Range(g) \subseteq Range(abcdef \o g \o h)
  BY <1>2, <1>10, Joined
<1>12. Changes(packages, values, profile, paths, configuration, tunables) = abcdef \o g \o h
  BY <1>1 DEF ab, abc, abcd, abcde, abcdef
<1> QED
  BY <1>11, <1>12 DEF g

\* What a profile has its settings found at, and the changes they make.
Entries(profile, scope) ==
  [i \in DOMAIN profile.tunables |-> TunableEntry(profile.tunables[i], scope)]

LEMMA ActionsMade ==
  ASSUME NEW f, NEW profile, NEW request, NEW paths, NEW scope,
         Row(profile.configuration), Row(profile.tunables),
         PlanActions(f, profile, request, paths, scope).state = "actions"
  PROVE  LET changes == PlanActions(f, profile, request, paths, scope).actions.changes
         IN  \A i \in DOMAIN profile.tunables :
               LET entry == TunableEntry(profile.tunables[i], scope)
               IN  TunableChange(entry) # {} => SettingChange(entry) \in Range(changes)
<1> DEFINE values == Vocabulary(f, request)
           packages == Default(PackagesFor(profile, f.family.word), <<>>)
           tunables == Entries(profile, scope)
           Spelt(t) == Default(Substitute(t, values), <<>>)
           configuration ==
             [i \in DOMAIN profile.configuration |->
                [destination |-> Spelt(profile.configuration[i].destination),
                 carries |-> profile.configuration[i].carries]]
           changes == PlanActions(f, profile, request, paths, scope).actions.changes
<1>1. changes = Changes(packages, values, profile, paths, configuration, tunables)
  BY Zenon DEF PlanActions, Entries
<1>2. Row(configuration)
  <2>1. /\ DOMAIN profile.configuration = 1..Len(profile.configuration)
        /\ Len(profile.configuration) \in Nat
    BY RowIsLong
  <2> HIDE DEF Spelt
  <2>2. configuration = [i \in 1..Len(profile.configuration) |-> configuration[i]]
    BY <2>1
  <2> HIDE DEF configuration
  <2> QED
    BY <2>1, <2>2, ListIsRow
<1>3. Row(tunables) /\ DOMAIN tunables = DOMAIN profile.tunables
      /\ \A i \in DOMAIN profile.tunables : tunables[i] = TunableEntry(profile.tunables[i], scope)
  <2>1. /\ DOMAIN profile.tunables = 1..Len(profile.tunables)
        /\ Len(profile.tunables) \in Nat
    BY RowIsLong
  <2>2. /\ tunables = [i \in 1..Len(profile.tunables) |-> tunables[i]]
        /\ DOMAIN tunables = DOMAIN profile.tunables
        /\ \A i \in DOMAIN profile.tunables : tunables[i] = TunableEntry(profile.tunables[i], scope)
    BY <2>1 DEF Entries
  <2> HIDE DEF tunables
  <2> QED
    BY <2>1, <2>2, ListIsRow
<1> HIDE DEF values, packages, tunables, configuration, changes
<1>4. Range(TunableChanges(tunables)) \subseteq Range(changes)
  BY <1>1, <1>2, <1>3, SettingsAreChanges
<1>5. \A i \in DOMAIN profile.tunables :
        LET entry == TunableEntry(profile.tunables[i], scope)
        IN  TunableChange(entry) # {} => SettingChange(entry) \in Range(changes)
  BY <1>3, <1>4, SettingsAreListed
<1> QED
  BY <1>5 DEF changes

\* What a name reads, and what is asked of a group.
LEMMA NameComesTo ==
  ASSUME NEW node, node.op = "name", NEW v, NEW scope, node.n \in DOMAIN scope
  PROVE  Combine(node, v, scope) = scope[node.n]
  BY DEF Combine, Resolve, ARITHMETIC

LEMMA MemberComesTo ==
  ASSUME NEW node, node.op = "of", NEW v, NEW scope, NEW g, v[1] = Group(g), node.n \in DOMAIN g
  PROVE  Combine(node, v, scope) = g[node.n]
<1>1. v[1].t = "group" /\ v[1].g = g /\ ~Failed(v[1])
  BY DEF Group, Failed
<1>2. Combine(node, v, scope) = Resolve(g, node.n)
  BY <1>1 DEF Combine, ARITHMETIC
<1> QED
  BY <1>2 DEF Resolve

\* A setting of the kernel is found at what the facts say of it.
KernelOf(f) ==
  [swappiness |-> OrUnreported(Numerals(f.swappiness)),
   transparent_hugepages |-> OrUnreported({Word(s) : s \in f.thp})]

LEMMA KernelIsRead ==
  ASSUME NEW e, Formed(e), NEW name \in {"swappiness", "transparent_hugepages"}, Reads(e, name),
         NEW scope, NEW f, "host" \in DOMAIN scope, scope["host"] = HostScope(f)
  PROVE  Readable(e) /\ Evaluate(e, scope) = KernelOf(f)[name]
<1> DEFINE v == Values(e, scope)
<1>1. Len(e) = 3 /\ DOMAIN e = 1..3
  BY DEF Formed, Reads
<1>2. /\ e[1].op = "name" /\ e[1].n = "host"
      /\ e[2].op = "of" /\ e[2].n = "kernel" /\ e[2].args = <<1>>
      /\ e[3].op = "of" /\ e[3].n = name /\ e[3].args = <<2>>
  BY DEF Reads
<1>3. Readable(e)
  BY <1>1, <1>2 DEF Readable, OPERATORS
<1>4. \A i \in {1, 2, 3} : v[i] = Combine(e[i], Operands(e[i], v), scope)
  BY <1>1, NodeComesTo
<1>5. Operands(e[2], v)[1] = v[1] /\ Operands(e[3], v)[1] = v[2]
  BY <1>2 DEF Operands
<1>6. v[1] = HostScope(f)
  BY <1>2, <1>4, NameComesTo
<1>7. \E g : HostScope(f) = Group(g) /\ "kernel" \in DOMAIN g /\ g["kernel"] = Group(KernelOf(f))
  <2> DEFINE g == HostScope(f).g
  <2>1. HostScope(f) = Group(g)
    BY DEF HostScope, Group
  <2>2. "kernel" \in DOMAIN g /\ g["kernel"] = Group(KernelOf(f))
    BY DEF HostScope, Group, KernelOf
  <2> HIDE DEF g
  <2> QED
    BY <2>1, <2>2
<1>8. v[2] = Group(KernelOf(f))
  <2>1. PICK g : HostScope(f) = Group(g) /\ "kernel" \in DOMAIN g /\ g["kernel"] = Group(KernelOf(f))
    BY <1>7
  <2>2. Combine(e[2], Operands(e[2], v), scope) = g["kernel"]
    BY <1>2, <1>5, <1>6, <2>1, MemberComesTo
  <2> QED
    BY <1>4, <2>1, <2>2
<1>9. name \in DOMAIN KernelOf(f)
  BY DEF KernelOf
<1>10. v[3] = KernelOf(f)[name]
  <2>1. Combine(e[3], Operands(e[3], v), scope) = KernelOf(f)[e[3].n]
    BY <1>2, <1>5, <1>8, <1>9, MemberComesTo
  <2> QED
    BY <1>2, <1>4, <2>1
<1> QED
  BY <1>1, <1>3, <1>10 DEF Evaluate

\* Of one thing somebody said, what is known is what was said.
LEMMA OneIsKnown ==
  ASSUME NEW values, OrUnreported(values) # Unreported, \A x, y \in values : x = y
  PROVE  values = {OrUnreported(values)}
<1>1. values # {}
  BY DEF OrUnreported
<1>2. OrUnreported(values) \in values
  BY <1>1 DEF OrUnreported
<1> QED
  BY <1>2

LEMMA KernelIsKnown ==
  ASSUME NEW f, \A x, y \in f.swappiness : x = y, \A x, y \in f.thp : x = y
  PROVE  /\ KernelOf(f)["swappiness"] # Unreported =>
              Numerals(f.swappiness) = {KernelOf(f)["swappiness"]}
         /\ KernelOf(f)["transparent_hugepages"] # Unreported =>
              {Word(w) : w \in f.thp} = {KernelOf(f)["transparent_hugepages"]}
<1>1. \A x, y \in Numerals(f.swappiness) : x = y
  BY DEF Numerals
<1>2. \A x, y \in {Word(w) : w \in f.thp} : x = y
  OBVIOUS
<1>3. /\ KernelOf(f)["swappiness"] = OrUnreported(Numerals(f.swappiness))
      /\ KernelOf(f)["transparent_hugepages"] = OrUnreported({Word(s) : s \in f.thp})
  BY DEF KernelOf
<1> QED
  BY <1>1, <1>2, <1>3, OneIsKnown

\* A setting that makes no change was found as it is to be.
LEMMA UnchangedIsFound ==
  ASSUME NEW tunable, NEW scope, TunableChange(TunableEntry(tunable, scope)) = {},
         \A x, y \in tunable.observed : x = y
  PROVE  /\ tunable.observed # {}
         /\ \A e \in tunable.observed :
              Readable(e) => /\ Evaluate(e, scope) # Unreported
                             /\ Rendered(Evaluate(e, scope)) = Rendered(tunable.value)
<1> DEFINE entry == TunableEntry(tunable, scope)
<1>1. entry.observed = Observed(tunable, scope) /\ entry.value = tunable.value
  BY DEF TunableEntry
<1> HIDE DEF entry
<1>2. \E v \in entry.observed : Rendered(v) = Rendered(entry.value)
  BY Zenon DEF TunableChange, entry
<1>3. PICK v \in Observed(tunable, scope) : Rendered(v) = Rendered(tunable.value)
  BY <1>1, <1>2
<1>4. PICK e \in tunable.observed : v = (IF Readable(e) THEN Evaluate(e, scope) ELSE Error)
                                    /\ v # Unreported
  BY <1>3 DEF Observed
<1> QED
  BY <1>3, <1>4

\* What is named among the changes as set.
SetBy(changes) ==
  UNION {{c.set : c \in changes[i].about} : i \in {k \in DOMAIN changes : changes[k].change = "set"}}

LEMMA ChangedIsSet ==
  ASSUME NEW changes, NEW entry, TunableChange(entry) # {}, SettingChange(entry) \in Range(changes)
  PROVE  entry.name \in SetBy(changes)
<1>1. PICK i \in DOMAIN changes : changes[i] = SettingChange(entry)
  BY DEF Range
<1>2. changes[i].change = "set" /\ changes[i].about = TunableChange(entry)
  BY <1>1 DEF SettingChange
<1>3. PICK c \in TunableChange(entry) : c.set = entry.name
  BY DEF TunableChange
<1> QED
  BY <1>2, <1>3 DEF SetBy

\* What a plan does not set is so already.
LEMMA PlannedIsFound ==
  ASSUME CommandInv, Planned
  PROVE  NothingUnsaid
<1> DEFINE changes == Plan.says.actions.changes
           d == call.profile.documents
<1>1. /\ work.facts # {} /\ work.profile # {} /\ work.request # {} /\ work.gates # {}
      /\ Acting.state = "actions"
      /\ Plan \in BuildPlan(Facts, Profile, Request, Gates, Actions, sized)
  BY PlannedIsLearnt
<1>2. Profile = Build(d) /\ Schematic(d) /\ DOMAIN Profile.gates \subseteq Nat
  BY <1>1, ProfileIsWritten DEF CommandInv, Called, Learnt
<1>3. Answerable(Said) /\ Facts.swappiness = Said.swappiness /\ Facts.thp = Said.thp
  BY <1>1, FactsAreHeard DEF CommandInv, Called, Learnt
<1>4. Gates.scope = GatesScope(Facts, Profile, Request)
  <2>1. Gates = EvaluateGates(Facts, Profile, Request, call.today) /\ Gates.state = "evaluated"
    BY <1>1 DEF CommandInv, Learnt, LearntGates, Gates
  <2> QED
    BY <1>2, <2>1, GatesEvaluated
<1>5. "host" \in DOMAIN Gates.scope /\ Gates.scope["host"] = HostScope(Facts)
  BY <1>4 DEF GatesScope, BuildScope
<1>6. changes = Acting.actions.changes
  BY <1>1, PlanSays DEF Actions
<1>7. /\ Profile.tunables = d.tunables /\ Row(Profile.tunables)
      /\ \A i \in DOMAIN d.tunables : \A x, y \in d.tunables[i].observed : x = y
      /\ \A i \in DOMAIN d.tunables : \A e \in d.tunables[i].observed : Formed(e)
  <2>1. Profile.tunables = d.tunables
    BY <1>2 DEF Build
  <2>2. Row(d.tunables)
    BY <1>2 DEF Schematic, Row
  <2>3. \A i \in DOMAIN d.tunables : \A x, y \in d.tunables[i].observed : x = y
    BY <1>2 DEF Schematic
  <2>4. \A i \in DOMAIN d.tunables : \A e \in d.tunables[i].observed : Formed(e)
    BY <1>2, TheExpressed
  <2> QED
    BY <2>1, <2>2, <2>3, <2>4
<1>8. Row(Profile.configuration)
  <2>1. Row(d.configuration)
    BY <1>2 DEF Schematic, Row
  <2>2. DOMAIN d.configuration = 1..Len(d.configuration) /\ Len(d.configuration) \in Nat
    BY <2>1, RowIsLong
  <2>3. Profile.configuration = [i \in 1..Len(d.configuration) |-> Profile.configuration[i]]
    BY <1>2, <2>2 DEF Build
  <2> QED
    BY <2>2, <2>3, ListIsRow
<1>9. ASSUME NEW i \in DOMAIN d.tunables, d.tunables[i].name \notin SetBy(changes)
      PROVE  TunableChange(TunableEntry(d.tunables[i], Gates.scope)) = {}
  <2> DEFINE entry == TunableEntry(d.tunables[i], Gates.scope)
  <2>1. entry.name = d.tunables[i].name
    BY DEF TunableEntry
  <2>2. TunableChange(entry) # {} => SettingChange(entry) \in Range(changes)
    BY <1>1, <1>6, <1>7, <1>8, ActionsMade, SMTT(30) DEF Acting
  <2> HIDE DEF entry, changes
  <2>3. TunableChange(entry) = {}
    BY <1>9, <2>1, <2>2, ChangedIsSet
  <2> QED
    BY <2>3 DEF entry
<1>10. ASSUME NEW i \in DOMAIN d.tunables, d.tunables[i].name \notin SetBy(changes)
       PROVE  LET t == d.tunables[i]
                  Are(found) == {Rendered(v) : v \in found} = {Rendered(t.value)}
              IN  /\ t.observed # {}
                  /\ \A e \in t.observed :
                       /\ Reads(e, "swappiness") => Are(Numerals(Said.swappiness))
                       /\ Reads(e, "transparent_hugepages") => Are({Word(w) : w \in Said.thp})
  <2> DEFINE t == d.tunables[i]
  <2>1. /\ t.observed # {}
        /\ \A e \in t.observed :
             Readable(e) => /\ Evaluate(e, Gates.scope) # Unreported
                            /\ Rendered(Evaluate(e, Gates.scope)) = Rendered(t.value)
    BY <1>7, <1>9, <1>10, UnchangedIsFound
  <2>2. ASSUME NEW e \in t.observed, NEW name \in {"swappiness", "transparent_hugepages"},
               Reads(e, name)
        PROVE  KernelOf(Facts)[name] # Unreported /\ Rendered(KernelOf(Facts)[name]) = Rendered(t.value)
    <3>1. Readable(e) /\ Evaluate(e, Gates.scope) = KernelOf(Facts)[name]
      BY <1>5, <1>7, <2>2, KernelIsRead
    <3> QED
      BY <2>1, <3>1
  <2>3. /\ KernelOf(Facts)["swappiness"] # Unreported =>
             Numerals(Said.swappiness) = {KernelOf(Facts)["swappiness"]}
        /\ KernelOf(Facts)["transparent_hugepages"] # Unreported =>
             {Word(w) : w \in Said.thp} = {KernelOf(Facts)["transparent_hugepages"]}
    <3>1. (\A x, y \in Facts.swappiness : x = y) /\ (\A x, y \in Facts.thp : x = y)
      BY <1>3 DEF Answerable
    <3> QED
      BY <1>3, <3>1, KernelIsKnown
  <2> HIDE DEF t
  <2>4. ASSUME NEW e \in t.observed, Reads(e, "swappiness")
        PROVE  {Rendered(v) : v \in Numerals(Said.swappiness)} = {Rendered(t.value)}
    BY <2>2, <2>3, <2>4
  <2>5. ASSUME NEW e \in t.observed, Reads(e, "transparent_hugepages")
        PROVE  {Rendered(v) : v \in {Word(w) : w \in Said.thp}} = {Rendered(t.value)}
    BY <2>2, <2>3, <2>5
  <2> QED
    BY <2>1, <2>4, <2>5 DEF t
<1> HIDE DEF d
<1> QED
  BY <1>10, Zenon DEF NothingUnsaid, SetBy, Written, d

\* A plan leaves out no setting that the machine has otherwise, or that nobody
\* could read: what is not among its changes is so on the machine, as the profile
\* has it printed (planner/changes.py, _tunable_change).
THEOREM NothingIsLeftOut == CommandSpec => []NothingUnsaid
<1>1. CommandInv => NothingUnsaid
  <2>1. CASE Planned
    BY <2>1, PlannedIsFound, SMTT(30)
  <2>2. CASE ~Planned
    BY <2>2 DEF NothingUnsaid
  <2> QED
    BY <2>1, <2>2
<1> QED
  BY <1>1, CommandAlways, PTL
=============================================================================
