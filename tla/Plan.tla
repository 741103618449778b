-------------------------------- MODULE Plan --------------------------------
(***************************************************************************)
(* planner/plan.py and planner/changes.py: what a plan says once the gates *)
(* have let a host through and its parameters are sized, and the name it   *)
(* has, which is what it says.                                             *)
(***************************************************************************)
EXTENDS Preflight

-----------------------------------------------------------------------------
(* What apply would do.                                                    *)

\* Every name a template may leave open; os.codename is one a host may not report.
Vocabulary(f, request) ==
  ("host" :> {request.host}) @@ ("engine" :> {request.engine})
    @@ ("instance" :> {request.instance}) @@ ("version" :> {request.version})
    @@ ("environment" :> {request.environment}) @@ HostVocabulary(f)

\* A value as the plan prints it.
Rendered(v) ==
  CASE v.t = "yesno" -> IF v.b THEN "true" ELSE "false"
    [] v.t = "number" -> ToString(v.v \div 2) \o (IF v.v % 2 = 0 THEN "" ELSE ".5")
    [] v.t = "text" -> v.s
    [] v.t = "nothing" -> "None"
    [] OTHER -> "a list or a group"  \* which no setting is spelled like

\* What a tunable was found at: nothing when nobody asks, or nobody reported it.
Observed(tunable, scope) ==
  LET v == {IF Readable(e) THEN Evaluate(e, scope) ELSE Error : e \in tunable.observed}
  IN  v \ {Unreported}

\* A group of a scope in which a fact is one nobody reported; they are two deep.
Gaping(v) ==
  /\ v.t = "group"
  /\ \E n \in DOMAIN v.g :
       \/ v.g[n] = Unreported
       \/ v.g[n].t = "group" /\ \E m \in DOMAIN v.g[n].g : v.g[n].g[m] = Unreported

\* Whether no such group is in what an expression comes to, which may be a group
\* itself, a list with one among its elements, or what a condition chose: the
\* evaluation asks for no fact in a group that is read as a whole.
Gapless(e, scope) ==
  LET value == Values(e, scope)
  IN  \E parts \in SUBSET DOMAIN e :
        /\ Len(e) \in parts
        /\ \A i \in parts :
             /\ ~Gaping(value[i])
             /\ e[i].op = "list" => Range(e[i].args) \subseteq parts
             /\ e[i].op = "if" =>
                  e[i].args[IF value[e[i].args[1]] = YesNo(TRUE) THEN 2 ELSE 3] \in parts

\* Whether what a setting was found at can be written down.
Writable(tunable, scope) ==
  \A e \in tunable.observed :
    Readable(e) /\ ~Failed(Evaluate(e, scope)) => Gapless(e, scope)

TunableEntry(tunable, scope) ==
  [name |-> tunable.name, value |-> tunable.value, observed |-> Observed(tunable, scope),
   writable |-> Writable(tunable, scope)]

\* Not the code: a setting nobody could read is left as it is.
TunableChangeIfRead(entry) ==
  {[set |-> entry.name, from |-> {Rendered(v)}, to |-> Rendered(entry.value)] :
     v \in {w \in entry.observed : Rendered(w) # Rendered(entry.value)}}

\* A setting that is right already is no change.
TunableChange(entry) ==
  IF \E v \in entry.observed : Rendered(v) = Rendered(entry.value) THEN {}
  ELSE {[set |-> entry.name, from |-> {Rendered(v) : v \in entry.observed},
         to |-> Rendered(entry.value)]}

TunableChanges(tunables) ==
  FlattenSeq([i \in DOMAIN tunables |->
    LET about == TunableChange(tunables[i])
    IN  IF about = {} THEN <<>> ELSE <<[change |-> "set", about |-> about]>>])

\* The list somebody reads before approving the plan, in the order of the phases,
\* each change the name of a phase and what it is about.
Changes(packages, values, profile, paths, configuration, tunables) ==
  LET Change(what, about) == <<[change |-> what, about |-> about]>>
  IN  (IF packages.repository = {} THEN <<>>
       ELSE Change("add repository", UNION {Substitute(r.url, values) : r \in packages.repository}))
        \o Change("install", UNION {Substitute(packages.install[i], values) :
                                      i \in DOMAIN packages.install})
        \o (IF profile.account.create THEN Change("create account", {profile.account.name}) ELSE <<>>)
        \o Change("create directories", DOMAIN paths)
        \o (IF profile.initialization = {} THEN <<>> ELSE Change("initialize", profile.initialization))
        \o [i \in DOMAIN configuration |->
              [change |-> "write", about |-> {configuration[i].destination}]]
        \o TunableChanges(tunables)
        \o Change("enable and start", Substitute(packages.service, values))

\* Everything the profile leaves open, filled in in the order of the code: the
\* refusal, or the exception, is that of whatever comes first.
PlanActions(f, profile, request, paths, scope) ==
  LET values == Vocabulary(f, request)
      found == PackagesFor(profile, f.family.word)
      packages == Default(found, <<>>)
      Fillable(templates) == \A t \in templates : Substitute(t, values) # {}
      first == {packages.install[i] : i \in DOMAIN packages.install} \cup {packages.service}
                 \cup {profile.configuration[i].destination : i \in DOMAIN profile.configuration}
      last == {profile.secrets[i].location : i \in DOMAIN profile.secrets}
                 \cup {r.url : r \in packages.repository}
                 \cup UNION {r.suite : r \in packages.repository}
      tunables == [i \in DOMAIN profile.tunables |-> TunableEntry(profile.tunables[i], scope)]
      stops == {i \in DOMAIN tunables : \E v \in tunables[i].observed : Failed(v)}
      Filled(t) == Default(Substitute(t, values), <<>>)
      configuration ==
        [i \in DOMAIN profile.configuration |->
           [destination |-> Filled(profile.configuration[i].destination),
            carries |-> profile.configuration[i].carries]]
  IN  IF found = {} \/ ~Fillable(first) THEN [state |-> "refused"]
      ELSE IF stops # {}
      THEN [state |-> IF Traceback \in tunables[Min(stops)].observed THEN "traceback" ELSE "refused"]
      ELSE IF ~Fillable(last) THEN [state |-> "refused"]
      ELSE [state |-> "actions",
            actions |->
              [install |-> [i \in DOMAIN packages.install |-> Filled(packages.install[i])],
               service |-> Filled(packages.service),
               repository |-> {[url |-> Filled(r.url), suite |-> {Filled(s) : s \in r.suite}] :
                                 r \in packages.repository},
               initialization |->
                 {[settings |-> s, locale |-> profile.default_locale] : s \in profile.initialization},
               configuration |-> configuration, tunables |-> tunables,
               secrets |-> [i \in DOMAIN profile.secrets |->
                              [name |-> profile.secrets[i].name,
                               location |-> Filled(profile.secrets[i].location)]],
               changes |-> Changes(packages, values, profile, paths, configuration, tunables)]]

-----------------------------------------------------------------------------
(* The document.                                                           *)

\* What a plan records of the host: what a later run is held to have found.
PlanSection(f) ==
  [family |-> f.family.word, distro |-> f.distro.word, version |-> f.version.text,
   arch |-> f.arch.word, cores |-> f.cores, memory |-> f.memory, swap |-> f.swap,
   storage |-> [i \in DOMAIN f.mounts |->
     [mount |-> f.mounts[i].text, free |-> f.mounts[i].free, total |-> f.mounts[i].total,
      filesystem |-> f.mounts[i].filesystem, rotational |-> f.mounts[i].rotational]],
   sync |-> f.sync]

\* Each path with the mount that carries it, when one does.
Layout(f, profile, paths) ==
  [paths |-> [p \in DOMAIN paths |->
     [path |-> paths[p].path, mount |-> {m.text : m \in MountFor(f, paths[p].path)}]],
   account |-> profile.account]

\* In the order of the file, whatever order they were computed in.
Parameters(rules, values) ==
  LET order == SetToSortSeq(DOMAIN rules, LAMBDA p, q : rules[p].line < rules[q].line)
  IN  [i \in DOMAIN order |->
         [parameter |-> order[i], value |-> values[order[i]].value,
          by |-> values[order[i]].by, advised |-> values[order[i]].advised]]

\* A plan is named after what it says, without its name and the moment it was made.
\* What it says is written down to be named: there is no name, and Python raises,
\* when that cannot be done.
ContentOf(plan) == plan.says
PlanIdFor(content) ==
  LET tunables == content.actions.tunables
  IN  IF \A i \in DOMAIN tunables : tunables[i].writable THEN {content} ELSE {}

\* What the contract of the plan asks of what it says: a setting was found at a
\* text, a number, a yes or a no.
PlanFits(plan) ==
  LET tunables == plan.says.actions.tunables
  IN  \A i \in DOMAIN tunables : \A v \in tunables[i].observed : v.t \in {"text", "number", "yesno"}

\* What build_plan says, given the gates, the actions and the parameters.
Content(f, profile, request, gates, actions, values) ==
  LET warnings == Counting(gates.results, "warn")
                    + Cardinality({p \in DOMAIN values : values[p].advised})
  IN  [engine |-> profile.engine, request |-> request, host |-> PlanSection(f),
       results |-> gates.results, parameters |-> Parameters(profile.sizing, values),
       layout |-> Layout(f, profile, gates.paths), actions |-> actions,
       warnings |-> warnings, acknowledge |-> warnings > 0]

\* The plan, or nothing for one that cannot be named.
BuildPlan(f, profile, request, gates, actions, values) ==
  LET content == Content(f, profile, request, gates, actions, values)
  IN  {[plan_id |-> id, says |-> content] : id \in PlanIdFor(content)}
=============================================================================
