-------------------------------- MODULE Judge --------------------------------
(***************************************************************************)
(* verify/collect.py, verify/scope.py, verify/judge.py and verify/run.py:  *)
(* what a role read of a running instance, and whether it is what the plan *)
(* promised.  A reading nobody took is {}.                                 *)
(***************************************************************************)
EXTENDS Plan

LOOPBACK == {"127.0.0.1", "::1", "localhost"}
LoopbackOnly(bound) == bound # {} /\ \A s \in bound : s.address \in LOOPBACK

\* The sockets one process holds, of the lines of ss that can be read.
SocketsHeld(lines, process) ==
  {[port |-> l.port, address |-> IF l.address \in {"*", ""} THEN "0.0.0.0" ELSE l.address] :
     l \in {k \in lines : k.readable /\ k.process = {process}}}

\* The document a playbook writes: a section with nothing in it is left out, and
\* the plan and the host are those of the plan it was given.
Observation(sections, plan) ==
  [plan_id |-> plan.plan_id, host |-> plan.says.request.host,
   observations |-> [k \in {n \in DOMAIN sections : sections[n] # {}} |->
                       Default(sections[k], <<>>)]]

-----------------------------------------------------------------------------
(* The judgements.  Each says pass, fail or unobserved.                    *)

Passed(b) == IF b THEN "pass" ELSE "fail"

\* A number is the number it says, a yes is not a one: nothing is coerced.
Same(observed, planned) == observed = planned

JudgeService(says, reading) ==
  Passed(reading.unit = says.actions.service /\ reading.active /\ reading.enabled)

JudgePort(says, reading) == Passed({s.port : s \in reading.bound} = {says.request.port})

JudgeConnection(reading) == Passed(reading.accepted)

JudgeVersion(says, reading) == Passed(reading.major = says.request.version)

\* Not the code: a parameter nobody asked about is one that is right.
JudgeParametersIfAsked(says, reading) ==
  LET planned == says.parameters
      asked == {i \in DOMAIN planned : planned[i].parameter \in DOMAIN reading.settings}
  IN  IF planned = <<>> THEN "unobserved"
      ELSE IF reading.unknown # {} THEN "fail"
      ELSE Passed(\A i \in asked :
                    Same(reading.settings[planned[i].parameter], planned[i].value))

\* A setting the server has never heard of is worse than one nobody asked about.
JudgeParameters(says, reading) ==
  LET planned == says.parameters
      asked == {i \in DOMAIN planned : planned[i].parameter \in DOMAIN reading.settings}
  IN  IF planned = <<>> THEN "unobserved"
      ELSE IF reading.unknown # {} THEN "fail"
      ELSE IF asked # DOMAIN planned THEN "unobserved"
      ELSE Passed(\A i \in asked :
                    Same(reading.settings[planned[i].parameter], planned[i].value))

\* A purpose the instance says nothing about is not held against it.
JudgePaths(says, reading) ==
  LET planned == says.layout.paths
      told == DOMAIN reading.resolved
  IN  IF DOMAIN planned = {} THEN "unobserved"
      ELSE IF \E p \in (DOMAIN planned) \cap told : reading.resolved[p] # planned[p].path THEN "fail"
      ELSE IF told = {} THEN "unobserved" ELSE "pass"

JudgeLog(reading) == Passed(reading.exists /\ reading.written)

JudgeBackup(reading) == Passed(reading.writable)

JudgeAuth(reading) ==
  IF reading.rules = {} THEN "unobserved"
  ELSE Passed(\A r \in reading.rules : r.password_required \/ r.local)

JudgeAccount(reading) ==
  IF reading.roles = {} THEN "unobserved"
  ELSE Passed(\A r \in reading.roles : r.can_login => r.password_set)

\* What an instance is created with: settings, and a locale among them.
CreatedWith(choices) ==
  LET locale == {n \in {"locale"} : choices.locale # {}}
  IN  [n \in (DOMAIN choices.settings) \cup locale |->
         IF n \in locale THEN [t |-> "locale", k |-> Default(choices.locale, <<>>)]
         ELSE choices.settings[n]]

\* What was found otherwise comes before what was not asked about.
JudgeInitialization(says, reading) ==
  LET wanted == CreatedWith(Default(says.actions.initialization, <<>>))
      found == CreatedWith(reading)
  IN  IF says.actions.initialization = {} THEN "unobserved"
      ELSE IF \E n \in (DOMAIN wanted) \cap (DOMAIN found) : ~Same(found[n], wanted[n]) THEN "fail"
      ELSE IF ~(DOMAIN wanted \subseteq DOMAIN found) THEN "unobserved"
      ELSE "pass"

KINDS == {"service", "port", "connection", "version", "parameters", "paths", "log", "backup",
          "auth", "account", "initialization"}

Judgement(kind, says, reading) ==
  CASE kind = "service" -> JudgeService(says, reading)
    [] kind = "port" -> JudgePort(says, reading)
    [] kind = "connection" -> JudgeConnection(reading)
    [] kind = "version" -> JudgeVersion(says, reading)
    [] kind = "parameters" -> JudgeParameters(says, reading)
    [] kind = "paths" -> JudgePaths(says, reading)
    [] kind = "log" -> JudgeLog(reading)
    [] kind = "backup" -> JudgeBackup(reading)
    [] kind = "auth" -> JudgeAuth(reading)
    [] kind = "account" -> JudgeAccount(reading)
    [] kind = "initialization" -> JudgeInitialization(says, reading)

-----------------------------------------------------------------------------
(* The run.                                                                *)

\* What an expression may read of a reading.
ObservedKind(kind, reading) == Group(
  CASE kind = "service" -> [active |-> YesNo(reading.active), enabled |-> YesNo(reading.enabled)]
    [] kind = "port" -> [loopback_only |-> YesNo(LoopbackOnly(reading.bound))]
    [] kind = "connection" -> [accepted |-> YesNo(reading.accepted)]
    [] kind = "version" -> [major |-> Word(reading.major)]
    [] kind = "log" -> [exists |-> YesNo(reading.exists), written_since_start |-> YesNo(reading.written)]
    [] kind = "backup" -> [writable |-> YesNo(reading.writable)]
    [] OTHER -> [n \in {} |-> Nothing])

VerificationScope(says, observations) ==
  [n \in {"plan", "observed", "GiB", "none"} |->
     CASE n = "plan" -> Group([request |-> Group(
            [environment |-> Word(says.request.environment), port |-> Numeral(2 * says.request.port)])])
       [] n = "observed" -> Group([k \in KINDS |->
            IF k \in DOMAIN observations THEN ObservedKind(k, observations[k]) ELSE Unreported])
       [] n = "GiB" -> Numeral(2)
       [] n = "none" -> Nothing]

\* A condition that cannot be read is nobody's expectation here: parsing it is
\* outside what _narrowed catches.
Narrowed(e, scope) ==
  LET v == IF Readable(e) THEN Truth(e, scope) ELSE Traceback
  IN  CASE v.t = "yesno" -> Passed(v.b)
        [] v.t = "unreported" -> "unobserved"
        [] OTHER -> v.t

\* The profile's own condition is asked only of a reading that passes.
Check(entry, says, observations, scope) ==
  LET judged == Judgement(entry.kind, says, observations[entry.kind])
  IN  IF entry.kind \notin DOMAIN observations THEN "unobserved"
      ELSE IF judged = "pass" /\ entry.expr # {}
      THEN Narrowed(Default(entry.expr, Nothing), scope)
      ELSE judged

\* Each check's outcome, or why there are none.  The refusals compare names that
\* the playbook copied from the plan.
Verify(plan, profile, observation) ==
  LET scope == VerificationScope(plan.says, observation.observations)
      outcomes == [i \in DOMAIN profile.checks |->
                     Check(profile.checks[i], plan.says, observation.observations, scope)]
      stops == {i \in DOMAIN outcomes : outcomes[i] \in {"error", "traceback"}}
  IN  IF observation.plan_id # plan.plan_id THEN [state |-> "refused"]
      ELSE IF observation.host # plan.says.request.host THEN [state |-> "refused"]
      ELSE IF stops # {}
      THEN [state |-> IF outcomes[Min(stops)] = "error" THEN "refused" ELSE "traceback"]
      ELSE [state |-> "judged", outcomes |-> outcomes,
            verified |-> \A i \in DOMAIN outcomes : outcomes[i] = "pass"]
=============================================================================
