--------------------------- MODULE CommandProofs ---------------------------
(***************************************************************************)
(* What TLAPS proves of the calls of Command, for every session, profile   *)
(* and machine.                                                            *)
(*                                                                         *)
(* What a process has made is a function of its inputs and of what it made *)
(* before (Learnt), and how much it has made shows in where it is (Made).  *)
(* What a plan promises then follows from the gates that were asked of     *)
(* exactly those facts, that profile and that request.                     *)
(***************************************************************************)
EXTENDS Command, SizingProofs, LanguageProofs, FiniteSetTheorems

Calls == UNION {Range(s) : s \in Sessions}

\* A call that decides on a plan, or on as much of one as its verb asks for.
Producer == ~Reading(call) /\ call.verb # "verify"

Has(S) == DOMAIN work = DOMAIN Blank /\ \A k \in DOMAIN Blank : work[k] # {} <=> k \in S

Made ==
  /\ step \in {"ready", "arguments", "facts", "profile", "request", "gates", "sizing", "keep",
               "source", "read", "observation", "judge"}
  /\ step \in {"facts", "request", "gates", "sizing", "keep"} => Producer
  /\ step \in {"source", "read", "observation", "judge"} => ~Producer
  /\ step \in {"observation", "judge"} \/ (step = "profile" /\ ~Producer) => call.verb = "verify"
  /\ step \in {"arguments", "facts", "source", "read"} => work = Blank
  /\ step = "observation" => Has({"plan"})
  /\ step = "profile" => Has(IF Producer THEN {"facts"} ELSE {"plan", "observation"})
  /\ step = "request" => Has({"facts", "profile"})
  /\ step = "gates" => Has({"facts", "profile", "request"})
  /\ step = "sizing" => Has({"facts", "profile", "request", "gates"})
  /\ step = "keep" => Has({"facts", "profile", "request", "gates", "plan"})
  /\ step = "judge" => Has({"plan", "observation", "profile"})
  /\ DOMAIN work = DOMAIN Blank
  /\ step = "facts" => call.facts # {}
  /\ step \in {"source", "read"} => call.from # {}
  /\ call.verb = "verify" /\ step \notin {"ready", "arguments"} => call.observed # {}
  /\ exit = EXIT_OK /\ call.verb = "plan" /\ Producer => work.plan # {}
  /\ step # "ready" => exit = Running

\* What is known, and what it is known from.
Acting == PlanActions(Facts, Profile, Request, Gates.paths, Gates.scope)
Actions == Acting.actions

LearntFacts == work.facts # {} => call.facts # {} /\ work.facts = LoadFacts(FactsFile(call))
LearntProfile ==
  work.profile # {} =>
    /\ LoadProfile(call.profile).state = "loaded"
    /\ work.profile = {LoadProfile(call.profile).profile}
LearntRequest ==
  work.request # {} =>
    /\ work.facts # {} /\ work.profile # {}
    /\ work.request = ResolveRequest(Profile, call.args, Default(call.host, Facts.host))
LearntGates ==
  work.gates # {} =>
    /\ work.request # {} /\ Gates.state = "evaluated"
    /\ work.gates = {EvaluateGates(Facts, Profile, Request, call.today)}
LearntPlan ==
  /\ step \in {"sizing", "keep"} => ~Blocked(Gates.results)
  /\ Producer /\ work.plan # {} =>
       /\ work.gates # {} /\ ~Blocked(Gates.results) /\ Acting.state = "actions"
       /\ work.plan = BuildPlan(Facts, Profile, Request, Gates, Actions, sized)
LearntVerdict ==
  work.verdict # {} =>
    /\ work.profile # {} /\ work.observation # {}
    /\ work.verdict = {Verify(Plan, Profile, CHOOSE o \in work.observation : TRUE)}

Learnt ==
  /\ LearntFacts /\ LearntProfile /\ LearntRequest /\ LearntGates /\ LearntPlan /\ LearntVerdict

Called == todo \in Seq(Calls) /\ call \in Calls

CommandInv == Called /\ Made /\ Learnt

-----------------------------------------------------------------------------
(* What the calls of a session are.                                        *)

LEMMA CallsAreCallable == \A c \in Calls : Callable(c)
  BY SessionsAssumption, SMTT(30) DEF Calls

\* A profile that was read is one its schemas let be written.
LEMMA ProfileIsWritten ==
  ASSUME call \in Calls, LearntProfile, work.profile # {}
  PROVE  /\ Profile = Build(call.profile.documents)
         /\ Schematic(call.profile.documents)
         /\ DOMAIN Profile.gates \subseteq Nat
<1> DEFINE d == call.profile.documents
           read == LoadProfile(call.profile)
<1>1. read.state = "loaded" /\ work.profile = {read.profile}
  BY DEF LearntProfile
<1>2. d.fits /\ read.profile = Build(d)
  BY <1>1 DEF LoadProfile, HoldsTogether
<1>3. Schematic(d)
  BY <1>2, CallsAreCallable DEF Callable
<1>4. Profile = Build(d)
  BY <1>1, <1>2 DEF Profile
<1>5. Build(d).gates = d.gates
  BY DEF Build
<1> QED
  BY <1>3, <1>4, <1>5 DEF Schematic

\* A rule comes to something, or is wrongly written, or raises.
LEMMA RuleStates ==
  ASSUME NEW rule, NEW scope
  PROVE  EvaluateRule(rule, scope).as \in {"met", "error", "traceback"}
<1>1. ASSUME NEW e
      PROVE  Asked(e, scope).t \in {"yesno", "unreported", "error", "traceback"}
  BY DEF Asked, Truth, Truthy, Failed, Error
<1>2. ASSUME NEW v, v.t \in {"yesno", "unreported", "error", "traceback"}
      PROVE  Verdict(v).as \in {"met", "error", "traceback"}
  BY <1>2 DEF Verdict
<1> DEFINE applies == {Asked(e, scope) : e \in rule.applies_to}
           v == Default(applies, Nothing)
<1>3. applies # {} => v \in applies
  BY DEF Default
<1>4. CASE \E a \in applies : a # YesNo(TRUE)
  <2>1. v.t \in {"yesno", "unreported", "error", "traceback"}
    BY <1>1, <1>3, <1>4
  <2>2. EvaluateRule(rule, scope) = Verdict(IF v = YesNo(FALSE) THEN Unreported ELSE v)
    BY <1>4 DEF EvaluateRule
  <2>3. ASSUME NEW w, w.t \in {"yesno", "unreported", "error", "traceback"},
               EvaluateRule(rule, scope) = Verdict(w)
        PROVE  EvaluateRule(rule, scope).as \in {"met", "error", "traceback"}
    BY <2>3, <1>2
  <2>4. Unreported.t = "unreported"
    BY DEF Unreported
  <2>5. EvaluateRule(rule, scope) = Verdict(v) \/ EvaluateRule(rule, scope) = Verdict(Unreported)
    BY <2>2, Zenon
  <2> HIDE DEF v
  <2> QED
    BY <2>1, <2>3, <2>4, <2>5
<1>5. CASE ~\E a \in applies : a # YesNo(TRUE)
  <2>1. EvaluateRule(rule, scope) = Verdict(Asked(rule.expr, scope))
    BY <1>5 DEF EvaluateRule
  <2> QED
    BY <2>1, <1>1, <1>2
<1> QED
  BY <1>4, <1>5

\* So do they all.
LEMMA GatesStates ==
  ASSUME NEW f, NEW profile, NEW request, NEW today, DOMAIN profile.gates \subseteq Nat
  PROVE  EvaluateGates(f, profile, request, today).state \in {"traceback", "error", "evaluated"}
<1> DEFINE paths == ResolvePaths(profile, request)
           resolved == Default(paths, <<>>)
           scope == BuildScope(f, profile, request, resolved)
           verdicts == [i \in DOMAIN profile.gates |-> EvaluateRule(profile.gates[i], scope)]
           stops == {i \in DOMAIN verdicts : verdicts[i].as # "met"}
<1>1. CASE paths = {}
  BY <1>1 DEF EvaluateGates
<1>2. CASE paths # {} /\ stops # {}
  <2>1. Min(stops) \in stops
    BY <1>2, Least
  <2>2. verdicts[Min(stops)].as \in {"error", "traceback"}
    BY <2>1, RuleStates
  <2>3. EvaluateGates(f, profile, request, today) = [state |-> verdicts[Min(stops)].as]
    BY <1>2 DEF EvaluateGates
  <2> QED
    BY <2>2, <2>3
<1>3. CASE paths # {} /\ stops = {}
  BY <1>3 DEF EvaluateGates
<1> QED
  BY <1>1, <1>2, <1>3

-----------------------------------------------------------------------------
(* Where a process is, and how much it has made.                           *)

LEMMA BlankHas == DOMAIN Blank = {"facts", "profile", "request", "gates", "plan", "observation", "verdict"}
                  /\ \A k \in DOMAIN Blank : Blank[k] = {}
  BY DEF Blank

\* A record of what is made gains one thing, and nothing else changes.
LEMMA Gains ==
  ASSUME NEW k \in DOMAIN Blank, NEW v, DOMAIN work = DOMAIN Blank,
         work' = [work EXCEPT ![k] = v]
  PROVE  /\ DOMAIN work' = DOMAIN Blank /\ work'[k] = v
         /\ \A n \in DOMAIN Blank : n # k => work'[n] = work[n]
  OBVIOUS

LEMMA InitMade == CommandInit => Made
  BY BlankHas DEF CommandInit, Made, Running, EXIT_OK

\* The ways each of the computations of a process can come out.
LEMMA ProfileStates ==
  ASSUME NEW directory
  PROVE  LoadProfile(directory).state \in {"missing", "traceback", "invalid", "loaded"}
  BY DEF LoadProfile

LEMMA ActionsStates ==
  ASSUME NEW f, NEW profile, NEW request, NEW paths, NEW scope
  PROVE  PlanActions(f, profile, request, paths, scope).state \in {"refused", "traceback", "actions"}
  BY DEF PlanActions

\* A process that ends has made what it had made; one that goes on has made one
\* thing more.
Ends == UNCHANGED vars /\ \E code \in {EXIT_USAGE, EXIT_TRACEBACK, EXIT_REFUSED} : End(code)
Gain(k, v) == work' = [work EXCEPT ![k] = v] /\ UNCHANGED <<todo, call, kept, vars>>
On(s) == step' = s /\ exit' = exit
Over(code) == step' = "ready" /\ exit' = code

LEMMA ReadFactsWays ==
  ASSUME ReadFacts
  PROVE  LET f == LoadFacts(FactsFile(call))
         IN  Ends \/ /\ f # {} /\ Gain("facts", f)
                     /\ \/ call.verb = "gather" /\ Over(EXIT_OK)
                        \/ call.verb # "gather" /\ On("profile")
<1> DEFINE file == FactsFile(call)
           f == LoadFacts(file)
<1>1. \/ \E code \in {EXIT_USAGE, EXIT_TRACEBACK, EXIT_REFUSED} : End(code)
      \/ f # {} /\ call.verb = "gather" /\ EndWith(EXIT_OK, [work EXCEPT !.facts = f])
      \/ f # {} /\ call.verb # "gather" /\ Go("profile", [work EXCEPT !.facts = f])
  BY DEF ReadFacts
<1>2. UNCHANGED vars
  BY DEF ReadFacts
<1> QED
  BY <1>1, <1>2 DEF Ends, EndWith, Go, Gain, On, Over

LEMMA ReadProfileWays ==
  ASSUME ReadProfile
  PROVE  LET read == LoadProfile(call.profile)
         IN  Ends \/ /\ read.state = "loaded" /\ Gain("profile", {read.profile})
                     /\ On(IF call.verb = "verify" THEN "judge" ELSE "request")
<1> DEFINE read == LoadProfile(call.profile)
<1>1. read.state \in {"missing", "traceback", "invalid", "loaded"}
  BY ProfileStates
<1>2. \/ \E code \in {EXIT_USAGE, EXIT_TRACEBACK, EXIT_REFUSED} : End(code)
      \/ /\ read.state = "loaded"
         /\ Go(IF call.verb = "verify" THEN "judge" ELSE "request",
               [work EXCEPT !.profile = {read.profile}])
  BY <1>1 DEF ReadProfile
<1>3. UNCHANGED vars
  BY DEF ReadProfile
<1> QED
  BY <1>2, <1>3 DEF Ends, Go, Gain, On

LEMMA EvaluateAllWays ==
  ASSUME EvaluateAll, DOMAIN Profile.gates \subseteq Nat
  PROVE  LET gates == EvaluateGates(Facts, Profile, Request, call.today)
         IN  Ends \/ /\ gates.state = "evaluated" /\ Gain("gates", {gates})
                     /\ \/ Over(EXIT_REFUSED)
                        \/ call.verb = "preflight" /\ Over(EXIT_OK)
                        \/ ~Blocked(gates.results) /\ On("sizing")
<1> DEFINE gates == EvaluateGates(Facts, Profile, Request, call.today)
           known == [work EXCEPT !.gates = {gates}]
<1>1. gates.state \in {"traceback", "error", "evaluated"}
  BY GatesStates
<1>2. \/ \E code \in {EXIT_USAGE, EXIT_TRACEBACK, EXIT_REFUSED} : End(code)
      \/ /\ gates.state = "evaluated"
         /\ \/ EndWith(EXIT_REFUSED, known)
            \/ call.verb = "preflight" /\ EndWith(EXIT_OK, known)
            \/ ~Blocked(gates.results) /\ Go("sizing", known)
  BY <1>1 DEF EvaluateAll
<1>3. UNCHANGED vars
  BY DEF EvaluateAll
<1> QED
  BY <1>2, <1>3 DEF Ends, EndWith, Go, Gain, On, Over

LEMMA MakePlanWays ==
  ASSUME MakePlan
  PROVE  \/ Ends
         \/ /\ BuildPlan(Facts, Profile, Request, Gates, Actions, sized) # {}
            /\ Gain("plan", BuildPlan(Facts, Profile, Request, Gates, Actions, sized))
            /\ On("keep") /\ Acting.state = "actions"
<1> DEFINE done == PlanActions(Facts, Profile, Request, Gates.paths, Gates.scope)
           plan == BuildPlan(Facts, Profile, Request, Gates, done.actions, sized)
<1>1. done.state \in {"refused", "traceback", "actions"}
  BY ActionsStates
<1>2. \/ \E code \in {EXIT_USAGE, EXIT_TRACEBACK, EXIT_REFUSED} : End(code)
      \/ /\ done.state = "actions" /\ plan # {}
         /\ Go("keep", [work EXCEPT !.plan = plan])
  BY <1>1 DEF MakePlan
<1>3. UNCHANGED vars
  BY DEF MakePlan
<1>4. Acting = done /\ plan = BuildPlan(Facts, Profile, Request, Gates, Actions, sized)
  BY DEF Actions, Acting
<1> HIDE DEF done, plan
<1> QED
  BY <1>2, <1>3, <1>4 DEF Ends, Go, Gain, On

LEMMA ReadPlanWays ==
  ASSUME ReadPlan, call \in Calls, call.from # {}
  PROVE  \/ Ends
         \/ \E plan : /\ Gain("plan", {plan})
                      /\ \/ call.verb = "plan" /\ Over(EXIT_OK)
                         \/ call.verb # "plan" /\ On("observation")
<1> DEFINE source == CHOOSE s \in call.from : TRUE
<1>1. source.state \in {"plan"} \cup UNREAD
  BY CallsAreCallable DEF Callable
<1>2. \/ \E code \in {EXIT_USAGE, EXIT_TRACEBACK, EXIT_REFUSED} : End(code)
      \/ \E plan : \/ call.verb = "plan" /\ EndWith(EXIT_OK, [work EXCEPT !.plan = {plan}])
                   \/ call.verb # "plan" /\ Go("observation", [work EXCEPT !.plan = {plan}])
  BY <1>1 DEF ReadPlan, UNREAD
<1>3. UNCHANGED vars
  BY DEF ReadPlan
<1> QED
  BY <1>2, <1>3 DEF Ends, EndWith, Go, Gain, On, Over

LEMMA ReadObservationWays ==
  ASSUME ReadObservation, call \in Calls, call.observed # {}
  PROVE  Ends \/ (Gain("observation", {ObservationFile(call)}) /\ On("profile"))
<1> DEFINE file == CHOOSE o \in call.observed : TRUE
<1>1. file.state \in {"written"} \cup UNREAD \cup UNDATED
  BY CallsAreCallable DEF Callable
<1>2. \/ \E code \in {EXIT_USAGE, EXIT_TRACEBACK, EXIT_REFUSED} : End(code)
      \/ Go("profile", [work EXCEPT !.observation = {ObservationFile(call)}])
  BY <1>1 DEF ReadObservation, UNREAD, UNDATED
<1>3. UNCHANGED vars
  BY DEF ReadObservation
<1>4. CASE \E code \in {EXIT_USAGE, EXIT_TRACEBACK, EXIT_REFUSED} : End(code)
  BY <1>3, <1>4 DEF Ends
<1>5. CASE Go("profile", [work EXCEPT !.observation = {ObservationFile(call)}])
  BY <1>3, <1>5 DEF Go, Gain, On
<1> QED
  BY <1>2, <1>4, <1>5

LEMMA EndsMade ==
  ASSUME Made, Ends, step # "ready"
  PROVE  Made'
  BY BlankHas DEF Ends, End, Made, Has, Producer, Reading, EXIT_OK, EXIT_USAGE, EXIT_TRACEBACK,
     EXIT_REFUSED

LEMMA GainMade ==
  ASSUME Made, NEW k \in DOMAIN Blank, NEW v, v # {}, Gain(k, v)
  PROVE  /\ DOMAIN work' = DOMAIN Blank /\ work'[k] = v
         /\ \A n \in DOMAIN Blank : n # k => work'[n] = work[n]
         /\ call' = call /\ (Producer' <=> Producer)
  BY Gains DEF Gain, Made, Producer, Reading

LEMMA MadeStep ==
  ASSUME call \in Calls, LearntProfile, Made, [CommandNext]_all
  PROVE  Made'
<1> USE BlankHas
<1> USE DEF Has, EXIT_OK, EXIT_REFUSED, EXIT_USAGE, EXIT_TRACEBACK, Running
<1>1. CASE Invoke
  BY <1>1 DEF Invoke, Made, Producer, Reading
<1>2. CASE ParseArguments
  BY <1>2 DEF ParseArguments, Go, End, Misused, Made, Producer, Reading
<1>3. CASE ReadFacts
  <2> DEFINE f == LoadFacts(FactsFile(call))
  <2>1. CASE Ends
    BY <1>3, <2>1, EndsMade DEF ReadFacts
  <2>2. CASE /\ f # {} /\ Gain("facts", f)
             /\ \/ call.verb = "gather" /\ Over(EXIT_OK)
                \/ call.verb # "gather" /\ On("profile")
    <3> HIDE DEF f
    <3>1. step = "facts"
      BY <1>3 DEF ReadFacts
    <3> QED
      BY <2>2, <3>1, GainMade DEF Made, On, Over
  <2> QED
    BY <1>3, <2>1, <2>2, ReadFactsWays
<1>4. CASE ReadProfile
  <2> DEFINE read == LoadProfile(call.profile)
  <2>1. CASE Ends
    BY <1>4, <2>1, EndsMade DEF ReadProfile
  <2>2. CASE /\ Gain("profile", {read.profile})
             /\ On(IF call.verb = "verify" THEN "judge" ELSE "request")
    <3>1. step = "profile"
      BY <1>4 DEF ReadProfile
    <3>2. {read.profile} # {}
      OBVIOUS
    <3> HIDE DEF read
    <3>3. Producer => call.verb # "verify"
      BY DEF Producer
    <3> QED
      BY <2>2, <3>1, <3>2, <3>3, GainMade DEF Made, On
  <2> QED
    BY <1>4, <2>1, <2>2, ReadProfileWays
<1>5. CASE ResolveTheRequest
  BY <1>5 DEF ResolveTheRequest, Go, End, Made, Producer, Reading
<1>6. CASE EvaluateAll
  <2> DEFINE gates == EvaluateGates(Facts, Profile, Request, call.today)
  <2>1. CASE Ends
    BY <1>6, <2>1, EndsMade DEF EvaluateAll
  <2>2. CASE /\ Gain("gates", {gates})
             /\ \/ Over(EXIT_REFUSED)
                \/ call.verb = "preflight" /\ Over(EXIT_OK)
                \/ ~Blocked(gates.results) /\ On("sizing")
    <3>1. step = "gates"
      BY <1>6 DEF EvaluateAll
    <3>2. {gates} # {}
      OBVIOUS
    <3> HIDE DEF gates
    <3> QED
      BY <2>2, <3>1, <3>2, GainMade DEF Made, On, Over
  <2>3. DOMAIN Profile.gates \subseteq Nat
    BY <1>6, ProfileIsWritten DEF EvaluateAll, Made
  <2> QED
    BY <1>6, <2>1, <2>2, <2>3, EvaluateAllWays
<1>7. CASE StartSizing \/ SizeOn
  BY <1>7 DEF StartSizing, SizeOn, process, Made, Producer, Reading
<1>8. CASE SizingFailed
  BY <1>8 DEF SizingFailed, End, Made, Producer, Reading
<1>9. CASE MakePlan
  <2>1. CASE Ends
    BY <1>9, <2>1, EndsMade DEF MakePlan
  <2>2. ASSUME NEW plan, plan # {}, Gain("plan", plan), On("keep")
        PROVE  Made'
    <3>1. step = "sizing"
      BY <1>9 DEF MakePlan
    <3> QED
      BY <2>2, <3>1, GainMade DEF Made, On
  <2> QED
    BY <1>9, <2>1, <2>2, MakePlanWays
<1>10. CASE KeepPlan
  BY <1>10 DEF KeepPlan, End, Made, Producer, Reading
<1>11. CASE FindPlan
  BY <1>11 DEF FindPlan, Go, End, Made, Producer, Reading
<1>12. CASE ReadPlan
  <2>1. CASE Ends
    BY <1>12, <2>1, EndsMade DEF ReadPlan
  <2>2. ASSUME NEW plan, Gain("plan", {plan}),
               \/ call.verb = "plan" /\ Over(EXIT_OK)
               \/ call.verb # "plan" /\ On("observation")
        PROVE  Made'
    <3>1. step = "read"
      BY <1>12 DEF ReadPlan
    <3>2. ~Producer => call.verb \in {"plan", "verify"}
      BY DEF Producer, Reading
    <3> QED
      BY <2>2, <3>1, <3>2, GainMade DEF Made, On, Over
  <2> QED
    BY <1>12, <2>1, <2>2, ReadPlanWays DEF ReadPlan, Made
<1>13. CASE ReadObservation
  <2>1. CASE Ends
    BY <1>13, <2>1, EndsMade DEF ReadObservation
  <2>2. CASE Gain("observation", {ObservationFile(call)}) /\ On("profile")
    <3>1. step = "observation"
      BY <1>13 DEF ReadObservation
    <3>2. ~Producer
      BY <3>1 DEF Made
    <3> QED
      BY <2>2, <3>1, <3>2, GainMade DEF Made, On
  <2> QED
    BY <1>13, <2>1, <2>2, ReadObservationWays DEF ReadObservation, Made
<1>14. CASE Judge
  BY <1>14 DEF Judge, EndWith, Made, Producer, Reading
<1>15. CASE Terminated \/ UNCHANGED all
  BY <1>15 DEF Terminated, all, Made, Producer, Reading
<1> QED
  BY <1>1, <1>2, <1>3, <1>4, <1>5, <1>6, <1>7, <1>8, <1>9, <1>10, <1>11, <1>12, <1>13,
     <1>14, <1>15 DEF CommandNext, Proceed

-----------------------------------------------------------------------------
(* What a process knows, and what it knows it from.                        *)

LEMMA CalledInit == CommandInit => Called
<1> SUFFICES ASSUME CommandInit PROVE Called
  OBVIOUS
<1>1. todo \in Sessions /\ todo # <<>> /\ todo \in Seq(Range(todo)) /\ call = Head(todo)
  BY SessionsAssumption DEF CommandInit
<1>2. Range(todo) \subseteq Calls
  BY <1>1 DEF Calls
<1> QED
  BY <1>1, <1>2 DEF Called

LEMMA CalledStep ==
  ASSUME CommandInv, [CommandNext]_all
  PROVE  Called'
<1> USE DEF CommandInv, Learnt
<1>1. CASE Invoke
  BY <1>1 DEF Invoke, Called
<1>2. CASE UNCHANGED <<todo, call>>
  BY <1>2 DEF Called
<1>3. CASE ParseArguments \/ ResolveTheRequest \/ SizingFailed \/ KeepPlan \/ FindPlan \/ Judge
  BY <1>3, <1>2 DEF ParseArguments, ResolveTheRequest, SizingFailed, KeepPlan, FindPlan, Judge,
     Go, End, EndWith
<1>4. CASE StartSizing \/ SizeOn \/ Terminated \/ UNCHANGED all
  BY <1>4, <1>2 DEF StartSizing, SizeOn, Terminated, process, all
<1>5. (Ends \/ \E k, v : Gain(k, v)) => Called'
  BY <1>2 DEF Ends, Gain, End
<1>6. CASE ReadFacts
  BY <1>5, <1>6, ReadFactsWays
<1>7. CASE ReadProfile
  BY <1>5, <1>7, ReadProfileWays
<1>8. CASE EvaluateAll
  BY <1>5, <1>8, EvaluateAllWays, ProfileIsWritten, BlankHas DEF EvaluateAll, Called, Made, Has
<1>9. CASE MakePlan
  BY <1>5, <1>9, MakePlanWays
<1>10. CASE ReadPlan
  BY <1>5, <1>10, ReadPlanWays DEF ReadPlan, Called, Made
<1>11. CASE ReadObservation
  BY <1>5, <1>11, ReadObservationWays DEF ReadObservation, Called, Made
<1> QED
  BY <1>1, <1>2, <1>3, <1>4, <1>6, <1>7, <1>8, <1>9, <1>10, <1>11 DEF CommandNext, Proceed

LEMMA LearntInit == CommandInit => Learnt
  BY BlankHas DEF CommandInit, Learnt, LearntFacts, LearntProfile, LearntRequest, LearntGates,
     LearntPlan, LearntVerdict

\* What is not made again stays what it is.
LEMMA SameFacts == work'["facts"] = work["facts"] => Facts' = Facts
  BY DEF Facts
LEMMA SameProfile == work'["profile"] = work["profile"] => Profile' = Profile
  BY DEF Profile
LEMMA SameRequest == work'["request"] = work["request"] => Request' = Request
  BY DEF Request
LEMMA SameGates == work'["gates"] = work["gates"] => Gates' = Gates
  BY DEF Gates
LEMMA SamePlan == work'["plan"] = work["plan"] => Plan' = Plan
  BY DEF Plan

LEMMA LearntKept ==
  ASSUME Learnt, UNCHANGED <<call, work>>, sized' = sized \/ work.plan = {},
         step' \in {"sizing", "keep"} => step \in {"sizing", "keep"}
  PROVE  Learnt'
<1>1. UNCHANGED <<Facts, Profile, Request, Gates, Plan>>
  BY SameFacts, SameProfile, SameRequest, SameGates, SamePlan
<1>2. Producer' = Producer
  BY DEF Producer, Reading
<1>3. LearntFacts' /\ LearntProfile'
  BY <1>1 DEF Learnt, LearntFacts, LearntProfile
<1>4. LearntRequest' /\ LearntGates'
  BY <1>1 DEF Learnt, LearntRequest, LearntGates
<1>5. Acting' = Acting /\ Actions' = Actions
  BY <1>1 DEF Actions, Acting
<1>6. LearntPlan'
  BY <1>1, <1>2, <1>5 DEF Learnt, LearntPlan
<1>7. LearntVerdict'
  BY <1>1 DEF Learnt, LearntVerdict
<1> QED
  BY <1>3, <1>4, <1>6, <1>7 DEF Learnt

LEMMA LearntStep ==
  ASSUME CommandInv, [CommandNext]_all
  PROVE  Learnt'
<1> USE DEF CommandInv
<1> USE BlankHas
<1>1. CASE Invoke
  BY <1>1 DEF Invoke, Learnt, LearntFacts, LearntProfile, LearntRequest, LearntGates, LearntPlan,
     LearntVerdict
<1>2. CASE ParseArguments
  BY <1>2, LearntKept DEF ParseArguments, Go, End, vars
<1>3. ASSUME Ends, step # "ready" PROVE Learnt'
  BY <1>3, LearntKept DEF Ends, End, vars
<1>4. CASE ReadFacts
  <2>1. step = "facts"
    BY <1>4 DEF ReadFacts
  <2>2. ASSUME NEW f, f = LoadFacts(FactsFile(call)), f # {}, Gain("facts", f),
               Over(EXIT_OK) \/ On("profile")
        PROVE  Learnt'
    <3>1. work'["facts"] = f /\ \A n \in DOMAIN Blank : n # "facts" => work'[n] = {}
      BY <2>1, <2>2, GainMade DEF Made
    <3>2. call.facts # {} /\ call' = call
      BY <2>1, <2>2 DEF Made, Gain
    <3>3. LearntFacts'
      BY <2>2, <3>1, <3>2 DEF LearntFacts
    <3> QED
      BY <2>2, <3>1, <3>3 DEF Learnt, LearntProfile, LearntRequest, LearntGates, LearntPlan,
         LearntVerdict, On, Over
  <2> QED
    BY <1>3, <1>4, <2>1, <2>2, ReadFactsWays
<1>5. CASE ReadProfile
  <2> DEFINE read == LoadProfile(call.profile)
  <2>1. step = "profile"
    BY <1>5 DEF ReadProfile
  <2>2. CASE read.state = "loaded" /\ Gain("profile", {read.profile})
             /\ On(IF call.verb = "verify" THEN "judge" ELSE "request")
    <3>1. /\ work'["profile"] = {read.profile} /\ UNCHANGED call
          /\ \A n \in DOMAIN Blank : n # "profile" => work'[n] = work[n]
      BY <2>2, GainMade
    <3>2. LearntFacts' /\ LearntProfile'
      BY <2>2, <3>1 DEF Learnt, LearntFacts, LearntProfile
    <3>3. work.request = {} /\ work.gates = {} /\ work.verdict = {} /\ (Producer => work.plan = {})
      BY <2>1 DEF Made, Has
    <3>4. Producer' = Producer
      BY <3>1 DEF Producer, Reading
    <3> QED
      BY <2>2, <3>1, <3>2, <3>3, <3>4 DEF Learnt, LearntRequest, LearntGates, LearntPlan,
         LearntVerdict, On
  <2> QED
    BY <1>3, <1>5, <2>1, <2>2, ReadProfileWays
<1>6. CASE ResolveTheRequest
  <2> DEFINE request == ResolveRequest(Profile, call.args, Default(call.host, Facts.host))
  <2>1. step = "request" /\ UNCHANGED vars
    BY <1>6 DEF ResolveTheRequest
  <2>2. CASE End(EXIT_REFUSED)
    BY <2>1, <2>2, LearntKept DEF End, vars
  <2>3. CASE Go("gates", [work EXCEPT !["request"] = request])
    <3>1. /\ work'["request"] = request /\ UNCHANGED call
          /\ \A n \in DOMAIN Blank : n # "request" => work'[n] = work[n]
      BY <2>3, Gains DEF Go, Made
    <3>2. UNCHANGED <<Facts, Profile>>
      BY <3>1, SameFacts, SameProfile
    <3>3. LearntFacts' /\ LearntProfile'
      BY <3>1 DEF Learnt, LearntFacts, LearntProfile
    <3>4. work.facts # {} /\ work.profile # {} /\ work.gates = {} /\ work.plan = {} /\ work.verdict = {}
      BY <2>1 DEF Made, Has
    <3>5. LearntRequest'
      BY <3>1, <3>2, <3>4 DEF LearntRequest
    <3> QED
      BY <2>3, <3>1, <3>3, <3>4, <3>5 DEF Learnt, LearntGates, LearntPlan, LearntVerdict, Go
  <2> QED
    BY <1>6, <2>2, <2>3 DEF ResolveTheRequest
<1>7. CASE EvaluateAll
  <2>1. step = "gates"
    BY <1>7 DEF EvaluateAll
  <2>2. ASSUME NEW gates, gates = EvaluateGates(Facts, Profile, Request, call.today),
               gates.state = "evaluated", Gain("gates", {gates}),
               \/ Over(EXIT_REFUSED) \/ Over(EXIT_OK)
               \/ ~Blocked(gates.results) /\ On("sizing")
        PROVE  Learnt'
    <3>1. /\ work'["gates"] = {gates} /\ UNCHANGED call
          /\ \A n \in DOMAIN Blank : n # "gates" => work'[n] = work[n]
      BY <2>2, GainMade
    <3>2. UNCHANGED <<Facts, Profile, Request>>
      BY <3>1, SameFacts, SameProfile, SameRequest
    <3>3. Gates' = gates
      BY <3>1 DEF Gates
    <3>4. LearntFacts' /\ LearntProfile' /\ LearntRequest'
      BY <3>1, <3>2 DEF Learnt, LearntFacts, LearntProfile, LearntRequest
    <3>5. work.request # {} /\ work.plan = {} /\ work.verdict = {}
      BY <2>1 DEF Made, Has
    <3>6. LearntGates'
      BY <2>2, <3>1, <3>2, <3>3, <3>5 DEF LearntGates
    <3> QED
      BY <2>2, <3>1, <3>3, <3>4, <3>5, <3>6 DEF Learnt, LearntPlan, LearntVerdict, On, Over
  <2>3. DOMAIN Profile.gates \subseteq Nat
    BY <2>1, ProfileIsWritten DEF Called, Learnt, Made, Has
  <2> QED
    BY <1>3, <1>7, <2>1, <2>2, <2>3, EvaluateAllWays
<1>8. CASE StartSizing \/ SizeOn
  <2>1. work.plan = {}
    BY <1>8 DEF StartSizing, SizeOn, Made, Has
  <2> QED
    BY <1>8, <2>1, LearntKept DEF StartSizing, SizeOn, process
<1>9. CASE SizingFailed \/ KeepPlan \/ FindPlan
  BY <1>9, LearntKept DEF SizingFailed, KeepPlan, FindPlan, Go, End, vars
<1>10. CASE MakePlan
  <2>1. step = "sizing"
    BY <1>10 DEF MakePlan
  <2>2. ASSUME NEW plan, plan = BuildPlan(Facts, Profile, Request, Gates, Actions, sized), plan # {},
               Gain("plan", plan), On("keep"), Acting.state = "actions"
        PROVE  Learnt'
    <3>1. /\ work'["plan"] = plan /\ UNCHANGED call
          /\ \A n \in DOMAIN Blank : n # "plan" => work'[n] = work[n]
      BY <2>2, GainMade
    <3>2. UNCHANGED <<Facts, Profile, Request, Gates>>
      BY <3>1, SameFacts, SameProfile, SameRequest, SameGates
    <3>3. Acting' = Acting /\ Actions' = Actions /\ sized' = sized
      BY <2>2, <3>2 DEF Actions, Acting, Gain, vars
    <3>4. LearntFacts' /\ LearntProfile' /\ LearntRequest' /\ LearntGates'
      BY <3>1, <3>2 DEF Learnt, LearntFacts, LearntProfile, LearntRequest, LearntGates
    <3>5. work.gates # {} /\ work.verdict = {} /\ ~Blocked(Gates.results)
      BY <2>1 DEF Made, Has, Learnt, LearntPlan
    <3>6. LearntPlan'
      BY <2>2, <3>1, <3>2, <3>3, <3>5 DEF LearntPlan
    <3> QED
      BY <3>1, <3>4, <3>5, <3>6 DEF Learnt, LearntVerdict
  <2> QED
    BY <1>3, <1>10, <2>1, <2>2, MakePlanWays
<1>11. CASE ReadPlan
  <2>1. step = "read" /\ call.from # {} /\ ~Producer /\ work = Blank
    BY <1>11 DEF ReadPlan, Made
  <2>2. ASSUME NEW plan, Gain("plan", {plan}), Over(EXIT_OK) \/ On("observation")
        PROVE  Learnt'
    <3>1. ~Producer' /\ \A n \in DOMAIN Blank : n # "plan" => work'[n] = {}
      BY <2>1, <2>2, GainMade
    <3> QED
      BY <2>2, <3>1 DEF Learnt, LearntFacts, LearntProfile, LearntRequest, LearntGates, LearntPlan,
         LearntVerdict, On, Over
  <2> QED
    BY <1>3, <1>11, <2>1, <2>2, ReadPlanWays DEF Called
<1>12. CASE ReadObservation
  <2>1. step = "observation" /\ call.observed # {} /\ ~Producer
    BY <1>12 DEF ReadObservation, Made
  <2>2. ASSUME NEW observation, Gain("observation", {observation}), On("profile")
        PROVE  Learnt'
    <3>1. ~Producer' /\ \A n \in DOMAIN Blank : n # "observation" => work'[n] = work[n]
      BY <2>1, <2>2, GainMade
    <3>2. \A n \in DOMAIN Blank : n \notin {"plan", "observation"} => work'[n] = {}
      BY <2>1, <3>1 DEF Made, Has
    <3> QED
      BY <2>2, <3>1, <3>2 DEF Learnt, LearntFacts, LearntProfile, LearntRequest, LearntGates,
         LearntPlan, LearntVerdict, On
  <2> QED
    BY <1>3, <1>12, <2>1, <2>2, ReadObservationWays DEF Called
<1>13. CASE Judge
  <2> DEFINE verdict == Verify(Plan, Profile, CHOOSE o \in work.observation : TRUE)
  <2>1. step = "judge" /\ ~Producer
    BY <1>13 DEF Judge, Made
  <2>2. \E code : EndWith(code, [work EXCEPT !["verdict"] = {verdict}])
    BY <1>13 DEF Judge
  <2>3. /\ work'["verdict"] = {verdict} /\ UNCHANGED call /\ step' = "ready"
        /\ \A n \in DOMAIN Blank : n # "verdict" => work'[n] = work[n]
    BY <2>2, Gains DEF EndWith, Made
  <2>4. Plan' = Plan /\ Profile' = Profile
    BY <2>3, SamePlan, SameProfile
  <2>5. work.facts = {} /\ work.request = {} /\ work.gates = {} /\ work.profile # {} /\ work.observation # {}
    BY <2>1 DEF Made, Has
  <2>6. LearntVerdict'
    BY <2>3, <2>4, <2>5 DEF LearntVerdict
  <2>7. ~Producer'
    BY <2>1, <2>3 DEF Producer, Reading
  <2> QED
    BY <2>3, <2>5, <2>6, <2>7 DEF Learnt, LearntFacts, LearntProfile, LearntRequest, LearntGates,
       LearntPlan
<1>14. CASE Terminated \/ UNCHANGED all
  BY <1>14, LearntKept DEF Terminated, all, vars
<1> QED
  BY <1>1, <1>2, <1>4, <1>5, <1>6, <1>7, <1>8, <1>9, <1>10, <1>11, <1>12, <1>13, <1>14
     DEF CommandNext, Proceed

LEMMA CommandAlways == CommandSpec => []CommandInv
<1>1. CommandInit => CommandInv
  BY CalledInit, InitMade, LearntInit DEF CommandInv
<1>2. CommandInv /\ [CommandNext]_all => CommandInv'
  BY CalledStep, MadeStep, LearntStep DEF CommandInv, Called, Learnt
<1> QED
  BY <1>1, <1>2, PTL DEF CommandSpec

-----------------------------------------------------------------------------
(* Sizing, as a step of a process.                                         *)

LEMMA UnitsAreWhole ==
  /\ \A u \in DOMAIN BYTES : BYTES[u] \in Int
  /\ \A u \in DOMAIN MILLISECONDS : MILLISECONDS[u] \in Int
<1>1. \A u \in DOMAIN BYTES : BYTES[u] \in Int
  BY SMT DEF BYTES
<1>2. \A u \in DOMAIN MILLISECONDS : MILLISECONDS[u] \in Int
  BY SMT DEF MILLISECONDS
<1> QED
  BY <1>1, <1>2

LEMMA BoundIsRead ==
  ASSUME NEW b, b.as \in {"none", "number", "text"}, b.v \in Int
  PROVE  Bound(b).as \in {"none", "number", "bytes", "time", "neither"} /\ Bound(b).v \in Int
<1>1. CASE b.as # "text"
  BY <1>1 DEF Bound
<1>2. CASE b.as = "text"
  <2>1. ASSUME NEW x \in Int, NEW y \in Int PROVE RoundedEven(x * y) \in Int
    <3>1. x * y \in Int
      OBVIOUS
    <3> QED
      BY <3>1 DEF RoundedEven
  <2>2. PICK unit : unit = IF b.unit = "" THEN "B" ELSE b.unit
    OBVIOUS
  <2>3. CASE unit \in DOMAIN BYTES /\ unit \notin DOMAIN MILLISECONDS
    <3>1. Bound(b) = [as |-> "bytes", v |-> RoundedEven(b.v * BYTES[unit])]
      BY <1>2, <2>2, <2>3 DEF Bound
    <3> QED
      BY <2>1, <2>3, <3>1, UnitsAreWhole
  <2>4. CASE unit \notin DOMAIN BYTES /\ unit \in DOMAIN MILLISECONDS
    <3>1. Bound(b) = [as |-> "time", v |-> RoundedEven(b.v * MILLISECONDS[unit])]
      BY <1>2, <2>2, <2>4 DEF Bound
    <3> QED
      BY <2>1, <2>4, <3>1, UnitsAreWhole
  <2>5. CASE unit \notin DOMAIN BYTES /\ unit \notin DOMAIN MILLISECONDS
    <3>1. Bound(b) = [as |-> "neither", v |-> 0]
      BY <1>2, <2>2, <2>5 DEF Bound
    <3> QED
      BY <3>1
  <2>6. ~(unit \in DOMAIN BYTES /\ unit \in DOMAIN MILLISECONDS)
    BY SMT DEF BYTES, MILLISECONDS
  <2> QED
    BY <2>3, <2>4, <2>5, <2>6
<1> QED
  BY <1>1, <1>2

\* The rules of a profile are such as Sizing is about.
LEMMA RulesAreWellFormed ==
  ASSUME NEW d, Schematic(d)
  PROVE  WellFormed(SizingRules(d.sizing))
<1> DEFINE rs == SizingRules(d.sizing)
           At(p) == CHOOSE k \in DOMAIN d.sizing : d.sizing[k].parameter = p
<1>1. DOMAIN rs = {d.sizing[i].parameter : i \in DOMAIN d.sizing}
  BY SMTT(30) DEF SizingRules
<1>2. ASSUME NEW p \in DOMAIN rs
      PROVE  /\ At(p) \in DOMAIN d.sizing /\ d.sizing[At(p)].parameter = p /\ rs[p].line = At(p)
             /\ rs[p].unit = Default(d.sizing[At(p)].unit, "count")
             /\ rs[p].minimum = Bound(d.sizing[At(p)].minimum)
             /\ rs[p].maximum = Bound(d.sizing[At(p)].maximum)
             /\ rs[p].round_to = Bound(d.sizing[At(p)].round_to)
             /\ rs[p].warn_above = Bound(d.sizing[At(p)].warn_above)
  BY <1>1 DEF SizingRules
<1> HIDE DEF rs, At
<1>3. ASSUME NEW p \in DOMAIN rs
      PROVE  /\ Alphabet[p] \in Nat /\ rs[p].line \in Nat /\ rs[p].unit \in UNITS
             /\ \A b \in {rs[p].minimum, rs[p].maximum, rs[p].round_to, rs[p].warn_above} :
                  b.as \in {"none", "number", "bytes", "time", "neither"} /\ b.v \in Int
  <2> DEFINE s == d.sizing[At(p)]
  <2>1. /\ At(p) \in Nat /\ s.unit \subseteq UNITS /\ Alphabet[p] \in Nat
        /\ \A b \in {s.minimum, s.maximum, s.round_to, s.warn_above} :
             b.as \in {"none", "number", "text"} /\ b.v \in Int
    BY <1>2 DEF Schematic
  <2>2. rs[p].unit \in UNITS
    BY <1>2, <2>1 DEF Default, UNITS
  <2> QED
    BY <1>2, <2>1, <2>2, BoundIsRead
<1>4. ASSUME NEW p \in DOMAIN rs, NEW q \in DOMAIN rs, p # q
      PROVE  Alphabet[p] # Alphabet[q] /\ rs[p].line # rs[q].line
  BY <1>2, <1>4, SMTT(30) DEF Schematic
<1>5. IsFiniteSet(DOMAIN rs)
  <2> DEFINE n == Len(d.sizing)
             name == [i \in 1..n |-> d.sizing[i].parameter]
  <2>1. n \in Nat /\ DOMAIN d.sizing = 1..n
    <3>1. d.sizing \in Seq(Range(d.sizing))
      BY DEF Schematic
    <3> QED
      BY <3>1
  <2>2. IsFiniteSet(1..n)
    BY <2>1, FS_Interval
  <2>3. name \in Surjection(1..n, DOMAIN rs)
    BY <1>1, <2>1 DEF Surjection
  <2> QED
    BY <2>2, <2>3, FS_Surjection
<1>6. WellFormed(rs)
  BY <1>3, <1>4, <1>5 DEF WellFormed
<1> QED
  BY <1>6 DEF rs

LEMMA CommandEvaluates ==
  ASSUME CommandInv, [CommandNext]_all
  PROVE  Evaluation
<1> USE DEF CommandInv
<1>1. CASE StartSizing
  <2>1. Start(Profile.sizing, Gates.scope)
    BY <1>1 DEF StartSizing
  <2>2. work.profile # {}
    BY <1>1, BlankHas DEF StartSizing, Made, Has
  <2>3. Profile.sizing = SizingRules(call.profile.documents.sizing) /\ Schematic(call.profile.documents)
    <3>1. Profile = Build(call.profile.documents) /\ Schematic(call.profile.documents)
      BY <2>2, ProfileIsWritten DEF Called, Learnt
    <3>2. Build(call.profile.documents).sizing = SizingRules(call.profile.documents.sizing)
      BY DEF Build
    <3> QED
      BY <3>1, <3>2
  <2>4. WellFormed(Profile.sizing)
    BY <2>3, RulesAreWellFormed
  <2> QED
    BY <2>1, <2>4 DEF Evaluation
<1>2. CASE SizeOn
  BY <1>2 DEF SizeOn, Evaluation
<1>3. CASE Invoke
  BY <1>3 DEF Invoke, Evaluation
<1>4. CASE UNCHANGED vars
  BY <1>4 DEF Evaluation
<1> QED
  BY <1>1, <1>2, <1>3, <1>4 DEF CommandNext, Proceed, ParseArguments, ReadFacts, ReadProfile,
     ResolveTheRequest, EvaluateAll, SizingFailed, MakePlan, KeepPlan, FindPlan, ReadPlan,
     ReadObservation, Judge, Terminated, all

\* What is true of every evaluation is true of those of every call.
LEMMA SizedAlways == CommandSpec => [](Typed /\ Placed /\ Ringed /\ Valued /\ Waited)
<1>1. CommandInit => Typed /\ Placed /\ Ringed /\ Valued /\ Waited
  BY TypedInit, PlacedInit, RingedInit, ValuedInit, WaitedInit DEF CommandInit
<1>2. CommandInv /\ [CommandNext]_all => Evaluation
  BY CommandEvaluates
<1>3. Typed /\ Placed /\ Ringed /\ Valued /\ Waited /\ Evaluation
        => (Typed /\ Placed /\ Ringed /\ Valued /\ Waited)'
  BY TypedNext, PlacedNext, RingedNext, ValuedNext, WaitedNext
<1> QED
  BY <1>1, <1>2, <1>3, CommandAlways, PTL DEF CommandSpec

\* Whatever the profile's formulas are and whatever the machine said, the sizing
\* of a call is what Sizing promises of an evaluation: each parameter from the
\* final values of what it reads, within its bounds, in an order when there is one
\* and with a real ring named when there is none (cli.py, planner/sizing.py).
THEOREM CallsSizeWell ==
  CommandSpec => [](TypeOK /\ ReadsFinal /\ WithinBounds /\ OrderIfAny /\ RingIsReal)
<1>1. Typed /\ Placed /\ Ringed /\ Valued
        => TypeOK /\ ReadsFinal /\ WithinBounds /\ OrderIfAny /\ RingIsReal
  BY PlacedOrders DEF Typed, Ringed, Valued
<1> QED
  BY <1>1, SizedAlways, PTL

\* The sizing of a call cannot go on for ever, nor stop for want of a first rule:
\* until it has a result each step of it leaves fewer, and where it asks for the
\* first of some rules there is one (planner/sizing.py).
THEOREM CallsSizeToAnEnd ==
  CommandSpec => []GoesOn /\ [][SizeOn => Left' \in Nat /\ Left' < Left]_all
<1>1. Typed /\ Placed /\ Ringed /\ Waited => GoesOn /\ Typed /\ Few
  BY WaitedGoesOn, StepsAreFew DEF Ringed
<1>2. Typed /\ Few /\ Typed' /\ Few' => (SizeOn => Left' \in Nat /\ Left' < Left)
  BY FewerAreLeft DEF SizeOn
<1> QED
  BY <1>1, <1>2, SizedAlways, PTL

-----------------------------------------------------------------------------
(* What the facts say of the machine.                                      *)

\* Nothing a gate rests on is lost between the machine and the facts.
LEMMA FactsAreHeard ==
  ASSUME call \in Calls, LearntFacts, work.facts # {}
  PROVE  /\ Answerable(Said) /\ Reconciled(Facts)
         /\ Facts.host = Said.host
         /\ Facts.escalate = (Said.escalation.rc = 0 /\ Said.escalation.uid = 0)
         /\ Facts.services = Services(Said.units)
         /\ Facts.ports = ListeningPorts(Said.sockets)
         /\ Facts.mounts = Mounts(Said)
         /\ Facts.swappiness = Said.swappiness /\ Facts.thp = Said.thp
<1> DEFINE file == CHOOSE f \in call.facts : TRUE
           read == FactsFile(call)
<1>1. file \in call.facts /\ work.facts = LoadFacts(read)
  BY DEF LearntFacts
<1>2. /\ read.state = "facts" /\ Reconciled(Canonicalize(read.facts))
      /\ work.facts = {Canonicalize(read.facts)}
  BY <1>1 DEF LoadFacts
<1>3. file.state \in {"collected"} \cup UNREAD \cup UNDATED /\ (file.state = "collected" => Answerable(file.said))
  BY <1>1, CallsAreCallable DEF Callable
<1>4. file.state = "collected"
  <2>1. file.state # "collected" => read = file
    BY DEF FactsFile
  <2> QED
    BY <1>2, <1>3, <2>1 DEF UNREAD, UNDATED
<1>5. \E asked : read.facts = Collect(file.said, asked)
  <2> HIDE DEF file
  <2>1. \/ read.state = "missing"
        \/ \E asked : read = [state |-> "facts", facts |-> Collect(file.said, asked)]
    BY <1>4 DEF FactsFile, file
  <2> QED
    BY <1>2, <2>1
<1>6. Facts = Canonicalize(read.facts)
  BY <1>2 DEF Facts
<1>7. Said = file.said
  BY DEF Said
<1> HIDE DEF file, read
<1>8. PICK asked : Facts = Canonicalize(Collect(Said, asked))
  BY <1>5, <1>6, <1>7
<1>9. ASSUME NEW said, NEW answers
      PROVE  LET f == Canonicalize(Collect(said, answers))
             IN  /\ f.host = said.host
                 /\ f.escalate = (said.escalation.rc = 0 /\ said.escalation.uid = 0)
                 /\ f.services = Services(said.units)
                 /\ f.ports = ListeningPorts(said.sockets)
                 /\ f.mounts = Mounts(said)
                 /\ f.swappiness = said.swappiness /\ f.thp = said.thp
  BY DEF Canonicalize, Collect
<1> QED
  BY <1>2, <1>3, <1>4, <1>6, <1>7, <1>8, <1>9

\* The places, in what the machine listed, of the deepest filesystems a path can
\* be on.
Deepest(said, path) ==
  LET over == {i \in DOMAIN said.mounts :
                 Sized(said.mounts[i]) /\ IsPrefix(said.mounts[i].path, path)}
  IN  {k \in over : \A j \in over : Len(said.mounts[j].path) <= Len(said.mounts[k].path)}

LEMMA PrefixOfItself ==
  ASSUME NEW s \in Seq(STRING) PROVE IsPrefix(s, s)
  BY DEF IsPrefix

LEMMA EquallyDeep ==
  ASSUME NEW s \in Seq(STRING), NEW t \in Seq(STRING), NEW path,
         IsPrefix(s, path), IsPrefix(t, path), Len(s) = Len(t)
  PROVE  s = t
<1>1. SubSeq(s, 1, Len(s)) = SubSeq(t, 1, Len(t))
  BY DEF IsPrefix
<1>2. SubSeq(s, 1, Len(s)) = s /\ SubSeq(t, 1, Len(t)) = t
  OBVIOUS
<1> QED
  BY <1>1, <1>2

\* A path that is on a filesystem of the facts is on one filesystem of the machine.
LEMMA OneFilesystem ==
  ASSUME NEW said, Answerable(said), NEW f, f.mounts = Mounts(said), MountsAreDistinct(f),
         NEW path, NEW m \in MountFor(f, path)
  PROVE  \E k \in DOMAIN f.mounts : m = f.mounts[k] /\ Deepest(said, path) = {k}
<1> DEFINE over == {i \in DOMAIN said.mounts :
                      Sized(said.mounts[i]) /\ IsPrefix(said.mounts[i].path, path)}
           carrying == {i \in DOMAIN f.mounts : Carries(f.mounts[i], path)}
<1>1. /\ DOMAIN f.mounts = {i \in DOMAIN said.mounts : Sized(said.mounts[i])}
      /\ \A i \in DOMAIN f.mounts : /\ f.mounts[i].path = said.mounts[i].path
                                    /\ f.mounts[i].text = said.mounts[i].text
  BY DEF Mounts
<1>2. carrying = over
  BY <1>1 DEF Carries
<1>3. \A i \in over : said.mounts[i].path \in Seq(STRING) /\ Len(said.mounts[i].path) \in Nat
  BY DEF Answerable
<1> DEFINE first == {k \in carrying : \A j \in carrying :
                       \/ Len(f.mounts[j].path) < Len(f.mounts[k].path)
                       \/ Len(f.mounts[j].path) = Len(f.mounts[k].path) /\ k <= j}
<1>4. m \in {f.mounts[i] : i \in first}
  BY Zenon DEF MountFor
<1>5. PICK k \in first : m = f.mounts[k]
  BY <1>4
<1>6. /\ k \in carrying
      /\ \A j \in carrying : \/ Len(f.mounts[j].path) < Len(f.mounts[k].path)
                             \/ Len(f.mounts[j].path) = Len(f.mounts[k].path) /\ k <= j
  BY <1>5
<1>7. k \in Deepest(said, path)
  BY <1>1, <1>2, <1>3, <1>6 DEF Deepest
<1>8. ASSUME NEW i \in Deepest(said, path) PROVE i = k
  <2>1. i \in over /\ k \in over /\ Len(said.mounts[i].path) = Len(said.mounts[k].path)
    BY <1>3, <1>7 DEF Deepest
  <2>2. said.mounts[i].path = said.mounts[k].path
    BY <1>3, <2>1, EquallyDeep
  <2>3. said.mounts[i].text = said.mounts[k].text
    BY <2>1, <2>2 DEF Answerable
  <2> QED
    BY <1>1, <2>1, <2>3 DEF MountsAreDistinct
<1> QED
  BY <1>5, <1>6, <1>7, <1>8 DEF Deepest

LEMMA OneAmount ==
  ASSUME NEW S \in SUBSET Nat, \A x, y \in S : x = y, NEW k \in S
  PROVE  Max(S) = k
<1>1. S = {k}
  OBVIOUS
<1> QED
  BY <1>1 DEF Max

-----------------------------------------------------------------------------
(* What the gates let through.                                             *)

\* A host that is not blocked meets every rule that would have blocked it.
LEMMA NotBlocked ==
  ASSUME NEW c, NEW gates, NEW verdicts, ~Blocked(Results(c, gates, verdicts)),
         NEW n \in DOMAIN SharedBlocks(c)
  PROVE  SharedBlocks(c)[n] = {} \/ SharedBlocks(c)[n] = {TRUE}
<1> DEFINE r == [rule |-> n, severity |-> "block", outcome |-> Outcome("block", SharedBlocks(c)[n])]
<1>1. r \in Results(c, gates, verdicts)
  BY DEF Results
<1>2. r.outcome # "block"
  BY <1>1 DEF Blocked
<1> QED
  BY <1>2 DEF Outcome

\* What the gates of a plan were asked, and came to.
Resolved == Default(ResolvePaths(Profile, Request), <<>>)
Context ==
  [facts |-> Facts, profile |-> Profile, request |-> Request, paths |-> Resolved,
   entry |-> Default(Version(Profile, Request.version), <<>>), today |-> call.today]

LEMMA GatesLetThrough ==
  ASSUME LearntGates, work.gates # {}, ~Blocked(Gates.results), DOMAIN Profile.gates \subseteq Nat
  PROVE  /\ ResolvePaths(Profile, Request) # {} /\ Gates.paths = Resolved
         /\ \A n \in DOMAIN SharedBlocks(Context) :
              SharedBlocks(Context)[n] = {} \/ SharedBlocks(Context)[n] = {TRUE}
<1> DEFINE paths == ResolvePaths(Profile, Request)
           scope == BuildScope(Facts, Profile, Request, Resolved)
           verdicts == [i \in DOMAIN Profile.gates |-> EvaluateRule(Profile.gates[i], scope)]
           stops == {i \in DOMAIN verdicts : verdicts[i].as # "met"}
           gates == EvaluateGates(Facts, Profile, Request, call.today)
<1>1. Gates = gates /\ gates.state = "evaluated"
  BY DEF LearntGates, Gates
<1>2. paths # {}
  BY <1>1 DEF EvaluateGates
<1>3. gates = IF stops # {} THEN [state |-> verdicts[Min(stops)].as]
              ELSE [state |-> "evaluated", results |-> Results(Context, Profile.gates, verdicts),
                    paths |-> Resolved, scope |-> scope]
  BY <1>2, Zenon DEF EvaluateGates, Resolved, Context
<1>4. stops # {} => verdicts[Min(stops)].as \in {"error", "traceback"}
  <2>1. ASSUME stops # {} PROVE Min(stops) \in stops
    BY <2>1, Least
  <2> QED
    BY <2>1, RuleStates
<1> HIDE DEF gates, stops, verdicts, scope
<1>5. Gates.results = Results(Context, Profile.gates, verdicts) /\ Gates.paths = Resolved
  BY <1>1, <1>3, <1>4
<1> QED
  BY <1>2, <1>5, NotBlocked

\* What a plan that was built says.
LEMMA PlanSays ==
  ASSUME NEW f, NEW profile, NEW request, NEW gates, NEW actions, NEW values,
         NEW plan \in BuildPlan(f, profile, request, gates, actions, values)
  PROVE  /\ plan.says.request = request /\ plan.says.actions = actions
         /\ plan.says.layout = Layout(f, profile, gates.paths)
         /\ \A i \in DOMAIN actions.tunables : actions.tunables[i].writable
<1> DEFINE content == Content(f, profile, request, gates, actions, values)
<1>1. /\ content.request = request /\ content.actions = actions
      /\ content.layout = Layout(f, profile, gates.paths)
  BY DEF Content
<1> HIDE DEF content
<1>2. PlanIdFor(content) # {} /\ plan.says = content
  BY DEF BuildPlan, content
<1> QED
  BY <1>1, <1>2 DEF PlanIdFor

LEMMA PlannedIsLearnt ==
  ASSUME CommandInv, Planned
  PROVE  /\ work.facts # {} /\ work.profile # {} /\ work.request # {} /\ work.gates # {}
         /\ ~Blocked(Gates.results) /\ Acting.state = "actions"
         /\ Plan \in BuildPlan(Facts, Profile, Request, Gates, Actions, sized)
<1>1. Producer /\ work.plan # {}
  BY DEF CommandInv, Made, Planned, Ended, Producer
<1>2. /\ work.gates # {} /\ ~Blocked(Gates.results) /\ Acting.state = "actions"
      /\ work.plan = BuildPlan(Facts, Profile, Request, Gates, Actions, sized)
  BY <1>1 DEF CommandInv, Learnt, LearntPlan
<1>3. work.request # {}
  BY <1>2 DEF CommandInv, Learnt, LearntGates
<1>4. work.facts # {} /\ work.profile # {}
  BY <1>3 DEF CommandInv, Learnt, LearntRequest
<1>5. Plan \in BuildPlan(Facts, Profile, Request, Gates, Actions, sized)
  BY <1>1, <1>2 DEF Plan
<1> QED
  BY <1>1, <1>2, <1>3, <1>4, <1>5

\* No unit of the machine is one the profile conflicts with, however the conflict
\* is matched.
LEMMA NothingConflicts ==
  ASSUME NEW said, Answerable(said), NEW d, Schematic(d), NEW c,
         c.facts.services = Services(said.units), c.profile = Build(d),
         NotInstalled(c) = {} \/ NotInstalled(c) = {TRUE},
         NEW u \in said.units, NEW written \in d.conflicts
  PROVE  u.name # written.service /\ (written.match = {"prefix"} => ~IsPrefix(written.service, u.name))
<1> DEFINE conflict == [service |-> written.service, match |-> Default(written.match, "exact")]
<1>1. conflict \in c.profile.conflicts
  <2>1. c.profile.conflicts = {[service |-> w.service, match |-> Default(w.match, "exact")] : w \in d.conflicts}
    BY DEF Build
  <2> QED
    BY <2>1
<1>2. \A s \in c.facts.services : Conflicting(c.profile, s.name) = {}
  <2>1. c.profile.conflicts # {}
    BY <1>1
  <2>2. NotInstalled(c) = {\A s \in c.facts.services : Conflicting(c.profile, s.name) = {}}
    BY <2>1 DEF NotInstalled, Met
  <2> QED
    BY <2>2, Zenon
<1>3. \E s \in c.facts.services : s.name = u.name
  <2> DEFINE units == said.units
             StateOf(n) == CONFIDENCE[Max({i \in DOMAIN CONFIDENCE :
                             \E w \in units : w.name = n /\ State(w) = CONFIDENCE[i]})]
  <2>1. Services(units) = {[name |-> n, state |-> StateOf(n)] : n \in {w.name : w \in units}}
    BY DEF Services
  <2> HIDE DEF StateOf
  <2>2. [name |-> u.name, state |-> StateOf(u.name)] \in Services(units)
    BY <2>1
  <2> QED
    BY <2>2
<1>4. ~Matches(conflict, u.name)
  BY <1>1, <1>2, <1>3 DEF Conflicting
<1>5. written.service \in Seq(STRING)
  BY DEF Schematic
<1>6. IsPrefix(written.service, written.service)
  BY <1>5, PrefixOfItself
<1>7. written.match = {"prefix"} => conflict.match = "prefix"
  BY DEF Default
<1> QED
  BY <1>4, <1>6, <1>7 DEF Matches

\* Every path of the plan is on one filesystem of the machine, which can be
\* written and has the room.
LEMMA PathsAreCarried ==
  ASSUME NEW said, Answerable(said), NEW c, c.facts.mounts = Mounts(said),
         MountsAreDistinct(c.facts),
         SharedBlocks(c).paths_writable = {TRUE},
         SharedBlocks(c).free_space = {} \/ SharedBlocks(c).free_space = {TRUE},
         NEW p \in DOMAIN c.paths
  PROVE  \E k \in DOMAIN said.mounts :
           /\ Deepest(said, c.paths[p].path) = {k}
           /\ "ro" \notin said.mounts[k].options
           /\ \A n \in c.paths[p].min_free, x \in said.mounts[k].free : x >= n
<1>1. \A q \in DOMAIN c.paths : \E m \in PathMount(c, q) : ~ReadOnly(m)
  <2>1. SharedBlocks(c).paths_writable = {PathsWritable(c)}
    BY DEF SharedBlocks, Met
  <2>2. PathsWritable(c)
    BY <2>1, Zenon
  <2> QED
    BY <2>2 DEF PathsWritable
<1>2. PICK m \in PathMount(c, p) : ~ReadOnly(m)
  BY <1>1
<1>3. PICK k \in DOMAIN c.facts.mounts : m = c.facts.mounts[k] /\ Deepest(said, c.paths[p].path) = {k}
  BY <1>2, OneFilesystem DEF PathMount
<1>4. /\ k \in DOMAIN said.mounts /\ Sized(said.mounts[k])
      /\ m.options = said.mounts[k].options /\ m.free = Max(said.mounts[k].free)
  BY <1>3 DEF Mounts
<1>5. ASSUME NEW n \in c.paths[p].min_free, NEW x \in said.mounts[k].free PROVE x >= n
  <2> DEFINE stated == {q \in DOMAIN c.paths : c.paths[q].min_free # {} /\ PathMount(c, q) # {}}
  <2>1. p \in stated
    BY <1>2
  <2>2. SharedBlocks(c).free_space = FreeSpace(c)
    BY DEF SharedBlocks
  <2>3. FreeSpace(c) = {\A q \in stated : \A w \in PathMount(c, q), y \in c.paths[q].min_free : w.free >= y}
    BY <2>1 DEF FreeSpace, Met
  <2>4. \A q \in stated : \A w \in PathMount(c, q), y \in c.paths[q].min_free : w.free >= y
    BY <2>2, <2>3, Zenon
  <2>5. m.free >= n
    BY <1>2, <2>1, <2>4
  <2>6. m.free = x
    BY <1>4, OneAmount DEF Answerable
  <2> QED
    BY <2>5, <2>6
<1> QED
  BY <1>2, <1>3, <1>4, <1>5 DEF ReadOnly

LEMMA PlannedFits ==
  ASSUME CommandInv
  PROVE  PlanFitsMachine
<1> SUFFICES ASSUME Planned
             PROVE  LET says == Plan.says IN
                    /\ says.request.host = Said.host
                    /\ Said.escalation.rc = 0 /\ Said.escalation.uid = 0
                    /\ \A u \in Said.units, c \in Written.conflicts :
                         u.name # c.service /\ (c.match = {"prefix"} => ~IsPrefix(c.service, u.name))
                    /\ \A l \in Said.sockets :
                         ~(l.readable /\ l.protocol = "tcp" /\ l.port = says.request.port)
                    /\ \A p \in DOMAIN says.layout.paths :
                         LET under == Under(says.layout.paths[p].path)
                         IN  /\ Cardinality(under) = 1
                             /\ \A m \in under : /\ "ro" \notin m.options
                                                 /\ \A n \in Written.paths[p].min_free : \A k \in m.free : k >= n
  BY DEF PlanFitsMachine
<1> DEFINE says == Plan.says
           c == Context
<1> USE DEF CommandInv, Called, Learnt
<1>1. /\ work.facts # {} /\ work.profile # {} /\ work.request # {} /\ work.gates # {}
      /\ ~Blocked(Gates.results)
      /\ Plan \in BuildPlan(Facts, Profile, Request, Gates, Actions, sized)
  BY PlannedIsLearnt
<1>2. /\ Answerable(Said) /\ MountsAreDistinct(Facts)
      /\ Facts.host = Said.host
      /\ Facts.escalate = (Said.escalation.rc = 0 /\ Said.escalation.uid = 0)
      /\ Facts.services = Services(Said.units)
      /\ Facts.ports = ListeningPorts(Said.sockets)
      /\ Facts.mounts = Mounts(Said)
  BY <1>1, FactsAreHeard DEF Reconciled
<1>3. Profile = Build(Written) /\ Schematic(Written) /\ DOMAIN Profile.gates \subseteq Nat
  BY <1>1, ProfileIsWritten DEF Written
<1>4. /\ ResolvePaths(Profile, Request) # {} /\ Gates.paths = Resolved
      /\ \A n \in DOMAIN SharedBlocks(c) : SharedBlocks(c)[n] = {} \/ SharedBlocks(c)[n] = {TRUE}
  BY <1>1, <1>3, GatesLetThrough
<1>5. /\ c.facts = Facts /\ c.profile = Profile /\ c.request = Request /\ c.paths = Resolved
  BY DEF Context
<1>6. says.request = Request /\ says.layout = Layout(Facts, Profile, Resolved)
  BY <1>1, <1>4, PlanSays
<1>7. DOMAIN SharedBlocks(c) =
        {"reachable", "privilege", "os", "arch", "min_cores", "min_total", "paths_writable",
         "free_space", "port", "not_installed", "repo", "locale"}
  BY DEF SharedBlocks
<1>8. /\ DOMAIN says.layout.paths = DOMAIN Resolved
      /\ \A p \in DOMAIN Resolved : says.layout.paths[p].path = Resolved[p].path
  BY <1>6 DEF Layout
<1>9. \A p \in DOMAIN Resolved : Resolved[p].min_free = Written.paths[p].min_free
  <2>1. Resolved \in ResolvePaths(Profile, Request)
    BY <1>4 DEF Resolved, Default
  <2>2. \A p \in DOMAIN Resolved : Resolved[p].min_free = Profile.paths[p].min_free
    BY <2>1 DEF ResolvePaths
  <2>3. Profile.paths = Written.paths
    BY <1>3 DEF Build
  <2> QED
    BY <2>2, <2>3
<1> HIDE DEF c, says
<1>10. says.request.host = Said.host
  <2>1. SharedBlocks(c).reachable = {Facts.host = Request.host}
    BY <1>5 DEF SharedBlocks, Met
  <2>2. Facts.host = Request.host
    BY <1>4, <1>7, <2>1, Zenon
  <2> QED
    BY <1>2, <1>6, <2>2
<1>11. Said.escalation.rc = 0 /\ Said.escalation.uid = 0
  <2>1. SharedBlocks(c).privilege = {Facts.escalate}
    BY <1>5 DEF SharedBlocks, Met
  <2>2. Facts.escalate = TRUE
    BY <1>4, <1>7, <2>1
  <2> QED
    BY <1>2, <2>2
<1>12. ASSUME NEW u \in Said.units, NEW w \in Written.conflicts
       PROVE  u.name # w.service /\ (w.match = {"prefix"} => ~IsPrefix(w.service, u.name))
  <2>1. SharedBlocks(c).not_installed = NotInstalled(c)
    BY DEF SharedBlocks
  <2>2. NotInstalled(c) = {} \/ NotInstalled(c) = {TRUE}
    BY <1>4, <1>7, <2>1
  <2> QED
    BY <1>2, <1>3, <1>5, <2>2, NothingConflicts
<1>13. ASSUME NEW l \in Said.sockets, l.readable, l.protocol = "tcp", l.port = says.request.port
       PROVE  FALSE
  <2>1. SharedBlocks(c).port = {~PortInUse(Facts, Request.port)}
    BY <1>5 DEF SharedBlocks, Met
  <2>2. ~PortInUse(Facts, Request.port)
    BY <1>4, <1>7, <2>1, Zenon
  <2>3. [port |-> l.port, protocol |-> l.protocol] \in ListeningPorts(Said.sockets)
    BY <1>13 DEF ListeningPorts
  <2> QED
    BY <1>2, <1>6, <1>13, <2>2, <2>3 DEF PortInUse
<1>14. ASSUME NEW p \in DOMAIN says.layout.paths
       PROVE  LET under == Under(says.layout.paths[p].path)
              IN  /\ Cardinality(under) = 1
                  /\ \A m \in under : /\ "ro" \notin m.options
                                      /\ \A n \in Written.paths[p].min_free : \A k \in m.free : k >= n
  <2> DEFINE path == says.layout.paths[p].path
  <2>1. p \in DOMAIN c.paths /\ path = c.paths[p].path /\ c.paths[p].min_free = Written.paths[p].min_free
    BY <1>5, <1>8, <1>9
  <2>2. SharedBlocks(c).paths_writable = {TRUE}
    <3>1. SharedBlocks(c).paths_writable # {}
      BY DEF SharedBlocks, Met
    <3> QED
      BY <1>4, <1>7, <3>1
  <2>3. SharedBlocks(c).free_space = {} \/ SharedBlocks(c).free_space = {TRUE}
    BY <1>4, <1>7
  <2>4. PICK k \in DOMAIN Said.mounts :
          /\ Deepest(Said, path) = {k}
          /\ "ro" \notin Said.mounts[k].options
          /\ \A n \in c.paths[p].min_free, x \in Said.mounts[k].free : x >= n
    BY <1>2, <1>5, <2>1, <2>2, <2>3, PathsAreCarried
  <2>5. Under(path) = {Said.mounts[i] : i \in Deepest(Said, path)}
    BY DEF Under, Deepest
  <2>6. Under(path) = {Said.mounts[k]}
    BY <2>4, <2>5
  <2>7. Cardinality(Under(path)) = 1
    BY <2>6, FS_Singleton
  <2> QED
    BY <2>1, <2>4, <2>6, <2>7
<1> QED
  BY <1>10, <1>11, <1>12, <1>13, <1>14 DEF says

\* No plan is made for a machine that cannot carry it, whatever the machine said,
\* the profile asks and the calls before it did (facts/, preflight/shared.py,
\* planner/plan.py): see PlanFitsMachine.
THEOREM PlansFitMachines == CommandSpec => []PlanFitsMachine
BY CommandAlways, PlannedFits, PTL
=============================================================================
