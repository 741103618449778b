------------------------------- MODULE Command -------------------------------
(***************************************************************************)
(* cli.py: gather, preflight, plan and verify, each a process that reads   *)
(* its inputs one after the other, decides, and ends with a code.  Sizing  *)
(* is one of its steps, taken rule by rule as Sizing has it.  A session is *)
(* a row of calls that share a plan store, and in which a plan that one    *)
(* call made is read by another.                                           *)
(*                                                                         *)
(* A call is a record: the verb; whether argparse takes it; the facts file,*)
(* the profile directory and how it was named, what was asked for, the day;*)
(* whether there is a store and whether it can be written; the plan and the*)
(* observation it names.  What may be left out is a set of at most one.    *)
(***************************************************************************)
EXTENDS Judge, Sizing

CONSTANTS Sessions

\* The expressions of a profile, wherever it has one.
Expressed(d) ==
  (UNION {d.gates[i].applies_to \cup {d.gates[i].expr} : i \in DOMAIN d.gates})
    \cup {d.sizing[i].expr : i \in DOMAIN d.sizing}
    \cup (UNION {d.tunables[i].observed : i \in DOMAIN d.tunables})
    \cup (UNION {d.checks[i].expr : i \in DOMAIN d.checks})

\* A profile as its schemas let it be written, as far as anything here rests on
\* it; the parameters of a sizing section have names with places in the alphabet.
Schematic(d) ==
  /\ \A e \in Expressed(d) : Formed(e)
  /\ DOMAIN d.gates \cup DOMAIN d.tunables \cup DOMAIN d.checks \subseteq Nat
  /\ \A i \in DOMAIN d.gates : \A x, y \in d.gates[i].applies_to : x = y
  /\ \A i \in DOMAIN d.tunables : \A x, y \in d.tunables[i].observed : x = y
  /\ \A i \in DOMAIN d.checks : d.checks[i].kind \in KINDS
  /\ \A c \in d.conflicts : c.service \in Seq(STRING)
  /\ \A s \in {d.configuration, d.tunables, d.sizing} : s \in Seq(Range(s))
  /\ \A i \in DOMAIN d.sizing :
       LET s == d.sizing[i]
       IN  /\ i \in Nat /\ s.unit \subseteq UNITS /\ Alphabet[s.parameter] \in Nat
           /\ \A b \in {s.minimum, s.maximum, s.round_to, s.warn_above} :
                b.as \in {"none", "number", "text"} /\ b.v \in Int
           /\ \A k \in DOMAIN d.sizing :
                Alphabet[d.sizing[k].parameter] = Alphabet[s.parameter]
                  => d.sizing[k].parameter = s.parameter

\* What a role may write of an instance: a reading of settings has them.
Observable(sections) ==
  \A k \in DOMAIN sections : \A reading \in sections[k] :
    /\ k = "parameters" => {"settings", "unknown"} \subseteq DOMAIN reading
    /\ k = "initialization" => {"settings", "locale"} \subseteq DOMAIN reading
    /\ k = "paths" => "resolved" \in DOMAIN reading
    /\ k = "auth" => "rules" \in DOMAIN reading
    /\ k = "account" => "roles" \in DOMAIN reading

\* A file is one the tool or a role wrote, or none, or not one; or one of which
\* nothing is wrong but the moment it names, which no clock has shown.
UNREAD == {"missing", "not text", "not json", "unfit"}
UNDATED == {"undated"}
Callable(c) ==
  /\ \A f \in c.facts : f.state \in {"collected"} \cup UNREAD \cup UNDATED
                        /\ (f.state = "collected" => Answerable(f.said))
  /\ \A p \in c.from : p.state \in {"plan"} \cup UNREAD
  /\ \A o \in c.observed : o.state \in {"written"} \cup UNREAD \cup UNDATED
                            /\ (o.state = "written" => Observable(o.sections))
  /\ c.profile.documents.fits => Schematic(c.profile.documents)

ASSUME SessionsAssumption ==
  \A s \in Sessions : s # <<>> /\ s \in Seq(Range(s)) /\ \A c \in Range(s) : Callable(c)

VARIABLES
  todo,   \* the calls of the session still to come
  call,   \* the call under way, or the last one
  step,   \* where it is
  exit,   \* the code it ended with
  work,   \* what it has read and made so far
  kept    \* the plans in the store, in the order they were kept

process == <<todo, call, step, exit, work, kept>>
all == <<todo, call, step, exit, work, kept, vars>>

EXIT_OK == 0
EXIT_REFUSED == 2
EXIT_USAGE == 64
EXIT_TRACEBACK == 1  \* Python's own, for an exception nobody caught
Running == -1

Blank == [facts |-> {}, profile |-> {}, request |-> {}, gates |-> {}, plan |-> {},
          observation |-> {}, verdict |-> {}]

CommandInit ==
  /\ todo \in Sessions /\ call = Head(todo) /\ step = "ready" /\ exit = Running
  /\ work = Blank /\ kept = <<>>
  /\ Init

\* To the next step, having read or made something.
Go(s, w) == step' = s /\ work' = w /\ UNCHANGED <<todo, call, exit, kept>>
End(code) == step' = "ready" /\ exit' = code /\ UNCHANGED <<todo, call, work, kept>>
EndWith(code, w) == step' = "ready" /\ exit' = code /\ work' = w /\ UNCHANGED <<todo, call, kept>>

Facts == CHOOSE f \in work.facts : TRUE
Profile == CHOOSE p \in work.profile : TRUE
Request == CHOOSE r \in work.request : TRUE
Gates == CHOOSE g \in work.gates : TRUE
Plan == CHOOSE p \in work.plan : TRUE

-----------------------------------------------------------------------------
(* The arguments.                                                          *)

Invoke ==
  /\ step = "ready" /\ todo # <<>>
  /\ call' = Head(todo) /\ todo' = Tail(todo)
  /\ step' = "arguments" /\ exit' = Running /\ work' = Blank
  /\ Afresh /\ UNCHANGED kept

\* Whether a plan is to be read rather than produced.
Reading(c) == c.verb = "plan" /\ c.from # {}

Misused(c) ==
  CASE c.verb = "gather" -> c.facts = {}
    [] Reading(c) -> c.facts # {} \/ c.profile.by # "none" \/ c.json
    [] c.verb = "verify" -> c.from = {} \/ c.observed = {}
    [] OTHER -> \/ c.facts = {} \/ c.profile.by = "none"
                \/ c.profile.by = "engine" /\ ~c.profile.exists

\* What argparse refuses, it refuses with the code that says a document was.
ParseArguments ==
  /\ step = "arguments"
  /\ IF ~call.parses THEN End(EXIT_REFUSED)
     ELSE IF Misused(call) THEN End(EXIT_USAGE)
     ELSE Go(IF Reading(call) \/ call.verb = "verify" THEN "source" ELSE "facts", work)
  /\ UNCHANGED vars

-----------------------------------------------------------------------------
(* Reading.                                                                *)

\* The facts file, and what is in it when the gather role wrote it: the answers
\* of the repositories, if an engine was named, are to the urls as they are
\* filled in for this host.  A role that heard of no service, or that cannot tell
\* which urls to ask, writes no file.
FactsFile(c) ==
  LET file == CHOOSE f \in c.facts : TRUE
      heard == Canonicalize(Collect(file.said, {}))
      read == LoadProfile(c.profile)
      asked == UrlsFor(heard, read.profile, c.args.version)
      Probe(url) == [url |-> url, status |-> IF url \in file.answering THEN 200 ELSE -1]
  IN  IF file.state # "collected" THEN file
      ELSE IF file.said.units = {} THEN [state |-> "missing"]
      ELSE IF ~file.asked THEN [state |-> "facts", facts |-> Collect(file.said, {})]
      ELSE IF ~Reconciled(heard) \/ read.state # "loaded" \/ asked = {} THEN [state |-> "missing"]
      ELSE [state |-> "facts",
            facts |-> Collect(file.said, {{Probe(url) : url \in urls} : urls \in asked})]

ReadFacts ==
  /\ step = "facts"
  /\ LET file == FactsFile(call)
         f == LoadFacts(file)
     IN  CASE file.state = "missing" -> End(EXIT_USAGE)
           [] file.state \in {"not text", "undated"} -> End(EXIT_TRACEBACK)
           [] OTHER ->
                IF f = {} THEN End(EXIT_REFUSED)
                ELSE IF call.verb = "gather" THEN EndWith(EXIT_OK, [work EXCEPT !.facts = f])
                ELSE Go("profile", [work EXCEPT !.facts = f])
  /\ UNCHANGED vars

\* Of the engine that was named, or of the one the plan names.
ReadProfile ==
  /\ step = "profile"
  /\ LET read == LoadProfile(call.profile)
     IN  CASE read.state = "missing" -> End(EXIT_USAGE)
           [] read.state = "traceback" -> End(EXIT_TRACEBACK)
           [] read.state = "invalid" -> End(EXIT_REFUSED)
           [] read.state = "loaded" ->
                Go(IF call.verb = "verify" THEN "judge" ELSE "request",
                   [work EXCEPT !.profile = {read.profile}])
  /\ UNCHANGED vars

ResolveTheRequest ==
  /\ step = "request"
  /\ LET request == ResolveRequest(Profile, call.args, Default(call.host, Facts.host))
     IN  IF request = {} THEN End(EXIT_REFUSED)
         ELSE Go("gates", [work EXCEPT !.request = request])
  /\ UNCHANGED vars

-----------------------------------------------------------------------------
(* Deciding.                                                               *)

\* A rule that is wrongly written is caught; what a path raises is not.
EvaluateAll ==
  /\ step = "gates"
  /\ \E gates \in {EvaluateGates(Facts, Profile, Request, call.today)} :
       LET known == [work EXCEPT !.gates = {gates}]
       IN  CASE gates.state = "traceback" -> End(EXIT_TRACEBACK)
             [] gates.state = "error" -> End(EXIT_REFUSED)
             [] gates.state = "evaluated" ->
                  IF Blocked(gates.results) THEN EndWith(EXIT_REFUSED, known)
                  ELSE IF call.verb = "preflight" THEN EndWith(EXIT_OK, known)
                  ELSE Go("sizing", known)
  /\ UNCHANGED vars

StartSizing ==
  /\ step = "sizing" /\ phase = "waiting"
  /\ Start(Profile.sizing, Gates.scope)
  /\ UNCHANGED process

SizeOn ==
  /\ step = "sizing"
  /\ Compute
  /\ UNCHANGED process

SizingFailed ==
  /\ step = "sizing" /\ phase = "failed"
  /\ End(IF fault = "traceback" THEN EXIT_TRACEBACK ELSE EXIT_REFUSED)
  /\ UNCHANGED vars

MakePlan ==
  /\ step = "sizing" /\ phase = "done"
  /\ LET done == PlanActions(Facts, Profile, Request, Gates.paths, Gates.scope)
     IN  CASE done.state = "refused" -> End(EXIT_REFUSED)
           [] done.state = "traceback" -> End(EXIT_TRACEBACK)
           [] done.state = "actions" ->
                LET plan == BuildPlan(Facts, Profile, Request, Gates, done.actions, sized)
                IN  IF plan = {} THEN End(EXIT_TRACEBACK)
                    ELSE Go("keep", [work EXCEPT !.plan = plan])
  /\ UNCHANGED vars

\* A plan that is there is not written again.
KeepPlan ==
  /\ step = "keep"
  /\ LET there == \E i \in DOMAIN kept : kept[i].plan_id = Plan.plan_id
     IN  IF ~call.store \/ there THEN End(EXIT_OK)
         ELSE IF ~call.writable THEN End(EXIT_USAGE)
         ELSE /\ kept' = Append(kept, Plan)
              /\ step' = "ready" /\ exit' = EXIT_OK
              /\ UNCHANGED <<todo, call, work>>
  /\ UNCHANGED vars

-----------------------------------------------------------------------------
(* Reading a plan, and judging an instance.                                *)

\* Which plan of the store the call means, 0 for none it has: named by path, by
\* id, or by the instance whose pointer says so.
FindPlan ==
  /\ step = "source"
  /\ LET source == CHOOSE s \in call.from : TRUE
     IN  IF source.named = "path" THEN Go("read", work)
         ELSE IF \/ ~call.store
                 \/ source.named = "host" /\ ~source.instance
                 \/ source.pick \notin DOMAIN kept
              THEN End(EXIT_USAGE)
              ELSE Go("read", work)
  /\ UNCHANGED vars

\* A copy of a plan may say something else than the plan.
Copied(source) ==
  IF source.edited THEN [kept[source.pick] EXCEPT !.says.warnings = @ + 1] ELSE kept[source.pick]

ReadPlan ==
  /\ step = "read"
  /\ LET source == CHOOSE s \in call.from : TRUE
     IN  CASE source.state = "missing" -> End(EXIT_USAGE)
           [] source.state = "not text" -> End(EXIT_TRACEBACK)
           [] source.state \in {"not json", "unfit"} -> End(EXIT_REFUSED)
           [] source.state = "plan" ->
                LET plan == Copied(source)
                IN  IF ~PlanFits(plan) \/ plan.plan_id \notin PlanIdFor(ContentOf(plan))
                    THEN End(EXIT_REFUSED)
                    ELSE IF call.verb = "plan" THEN EndWith(EXIT_OK, [work EXCEPT !.plan = {plan}])
                    ELSE Go("observation", [work EXCEPT !.plan = {plan}])
  /\ UNCHANGED vars

\* The file is the one the playbook wrote for one of the plans, unless somebody
\* wrote another host into it.
ObservationFile(c) ==
  LET file == CHOOSE o \in c.observed : TRUE
      written == Observation(file.sections, kept[file.pick])
  IN  [written EXCEPT !.host = Default(file.host, @)]

ReadObservation ==
  /\ step = "observation"
  /\ LET state == (CHOOSE o \in call.observed : TRUE).state
     IN  CASE state = "missing" -> End(EXIT_USAGE)
           [] state \in {"not text", "undated"} -> End(EXIT_TRACEBACK)
           [] state \in {"not json", "unfit"} -> End(EXIT_REFUSED)
           [] state = "written" ->
                Go("profile", [work EXCEPT !.observation = {ObservationFile(call)}])
  /\ UNCHANGED vars

Judge ==
  /\ step = "judge"
  /\ LET observation == CHOOSE o \in work.observation : TRUE
     IN  \E verdict \in {Verify(Plan, Profile, observation)} :
           EndWith(CASE verdict.state = "refused" -> EXIT_REFUSED
                     [] verdict.state = "traceback" -> EXIT_TRACEBACK
                     [] verdict.state = "judged" ->
                          IF verdict.verified THEN EXIT_OK ELSE EXIT_REFUSED,
                   [work EXCEPT !.verdict = {verdict}])
  /\ UNCHANGED vars

Proceed ==
  \/ ParseArguments \/ ReadFacts \/ ReadProfile \/ ResolveTheRequest \/ EvaluateAll
  \/ StartSizing \/ SizeOn \/ SizingFailed \/ MakePlan \/ KeepPlan
  \/ FindPlan \/ ReadPlan \/ ReadObservation \/ Judge

\* The last call has ended; anywhere else, a call that cannot go on is a deadlock.
Terminated == step = "ready" /\ todo = <<>> /\ UNCHANGED all

CommandNext == Invoke \/ Proceed \/ Terminated

\* Nothing keeps the process from computing.
CommandSpec == CommandInit /\ [][CommandNext]_all /\ WF_all(SizeOn)
-----------------------------------------------------------------------------
(* What is claimed of it.                                                  *)

Ended == step = "ready" /\ exit # Running
Planned == Ended /\ exit = EXIT_OK /\ call.verb = "plan" /\ ~Reading(call)

\* What the machine itself said when the facts of this call were collected, and
\* the profile as it was written.
Said == (CHOOSE f \in call.facts : TRUE).said
Written == call.profile.documents

\* The deepest filesystems a path can be on, going by what the machine said.
Under(path) ==
  LET over == {i \in DOMAIN Said.mounts :
                 Sized(Said.mounts[i]) /\ IsPrefix(Said.mounts[i].path, path)}
  IN  {Said.mounts[i] : i \in {k \in over : \A j \in over :
         Len(Said.mounts[j].path) <= Len(Said.mounts[k].path)}}

\* A plan is made only for a machine that can carry it, whatever became of the
\* answers between the machine and the gates: collected, written down, folded,
\* read back, resolved and compared.  No unit of any init system is one the
\* profile conflicts with, no TCP socket is on the port, and every path is on a
\* writable filesystem with the room it asks for (facts/, preflight/shared.py).
PlanFitsMachine ==
  Planned =>
    LET says == Plan.says IN
    /\ says.request.host = Said.host
    /\ Said.escalation.rc = 0 /\ Said.escalation.uid = 0
    /\ \A u \in Said.units, c \in Written.conflicts :
         u.name # c.service /\ (c.match = {"prefix"} => ~IsPrefix(c.service, u.name))
    /\ \A l \in Said.sockets :
         ~(l.readable /\ l.protocol = "tcp" /\ l.port = says.request.port)
    /\ \A p \in DOMAIN says.layout.paths :
         LET under == Under(says.layout.paths[p].path)
         IN  /\ Cardinality(under) = 1
             /\ \A m \in under : /\ "ro" \notin m.options
                                 /\ \A n \in Written.paths[p].min_free : \A k \in m.free : k >= n

\* That an expression reads a setting of the kernel and nothing else.
Reads(e, name) ==
  /\ Len(e) = 3
  /\ e[1].op = "name" /\ e[1].n = "host"
  /\ e[2].op = "of" /\ e[2].n = "kernel" /\ e[2].args = <<1>>
  /\ e[3].op = "of" /\ e[3].n = name /\ e[3].args = <<2>>

\* What a plan does not list as a change is so already, as a profile that asks for
\* the setting has it printed: leaving it out because nobody could read it, or
\* asked, would leave the host with another one (planner/changes.py).
NothingUnsaid ==
  Planned =>
    LET changes == Plan.says.actions.changes
        set == UNION {{c.set : c \in changes[i].about} :
                        i \in {k \in DOMAIN changes : changes[k].change = "set"}}
    IN  \A i \in DOMAIN Written.tunables :
          LET t == Written.tunables[i]
              Are(found) == {Rendered(v) : v \in found} = {Rendered(t.value)}
          IN  t.name \notin set =>
                /\ t.observed # {}
                /\ \A e \in t.observed :
                     /\ Reads(e, "swappiness") => Are(Numerals(Said.swappiness))
                     /\ Reads(e, "transparent_hugepages") => Are({Word(w) : w \in Said.thp})

\* What a host could have said where it said nothing.
Unless(known, answers) == IF known = {} THEN {{x} : x \in answers} ELSE {known}
Answers(f) ==
  [codename |-> Unless(f.codename, {Plain("noble")}), threads |-> Unless(f.threads, {f.cores}),
   available |-> Unless(f.available, {0, f.memory}), swappiness |-> Unless(f.swappiness, {0, 60}),
   thp |-> Unless(f.thp, {"always", "never"}),
   sync |-> Unless(f.sync, [service : {"none"}, synchronized : BOOLEAN]),
   firewall |-> Unless(f.firewall, [active : BOOLEAN, ports : {{}}]),
   repositories |-> Unless(f.repositories, {{}})]

\* A host as it would be if it had also said that.
Saying(f, c, t, a, s, h, y, w, r) ==
  [f EXCEPT !.codename = c, !.threads = t, !.available = a, !.swappiness = s, !.thp = h,
            !.sync = y, !.firewall = w, !.repositories = r]
Completed(f) ==
  {Saying(f, c, t, a, s, h, y, w, r) :
     c \in Answers(f).codename, t \in Answers(f).threads, a \in Answers(f).available,
     s \in Answers(f).swappiness, h \in Answers(f).thp, y \in Answers(f).sync,
     w \in Answers(f).firewall, r \in Answers(f).repositories}

\* Silence decides nothing: a rule that came to an answer on a host that did not
\* say everything comes to the same answer whatever the host would have said.
\* How a formula combines what it was not told decides this (expressions.py,
\* preflight/engine.py), and how each shared rule takes a fact that is missing.
SilenceDecidesNothing ==
  Ended =>
    \A gates \in work.gates : \A f \in Completed(Facts) :
      LET other == EvaluateGates(f, Profile, Request, call.today)
      IN  other.state = "evaluated" =>
            \A r \in gates.results : r.outcome = "skip" \/ r \in other.results

\* Whether an expression looks for something in a text.
Searches(e) ==
  \E i \in DOMAIN e : e[i].op = "compare" /\ \E k \in DOMAIN e[i].by : e[i].by[k] \in {"in", "not in"}

\* Whether what an expression comes to may have a group in it, of those of which
\* a host, or a profile, may leave something unsaid: the group is what it comes
\* to, or an element of a list, or what a condition chooses.
SECTIONS == {"os", "cpu", "memory", "kernel", "time_sync", "firewall"}
Groups(e) ==
  \E j \in DOMAIN e :
    /\ j = Len(e) \/ \E i \in DOMAIN e : e[i].op \in {"list", "if"} /\ j \in Range(e[i].args)
    /\ \/ e[j].op = "name" /\ e[j].n \in {"host", "path", "profile"}
       \/ /\ e[j].op = "of" /\ e[e[j].args[1]].op = "name"
          /\ LET name == e[e[j].args[1]].n
             IN  name = "path" \/ (name = "host" /\ e[j].n \in SECTIONS)

\* What an invocation has that may end it in an exception nobody caught: a file
\* that is no text, or that names a moment or a day there is none of; a value
\* that is none, or keys nothing can sort, in a profile; a path nothing can be put
\* in, a search in a text, a check that cannot be read, a setting found at a group,
\* a size that may fall below nothing.
Unforeseen ==
  \/ \E f \in call.facts \cup call.from \cup call.observed : f.state \in {"not text", "undated"}
  \/ /\ (call.verb = "verify" \/ call.profile.by # "none") /\ call.profile.exists
     /\ \/ \E file \in FILES : Written.files[file] \in {"not text", "no value", "mixed keys"}
        \/ \E i \in DOMAIN Written.versions : Written.versions[i].eol = {}
        \/ \E i \in DOMAIN Written.tunables : \E e \in Written.tunables[i].observed : Groups(e)
        \/ \E p \in DOMAIN Written.paths :
             LET t == Written.paths[p].default
             IN  ~t.absolute \/ ~t.closed \/ ~(Holes(t) \subseteq {"engine", "instance", "version"})
        \/ \E e \in Expressed(Written) : Searches(e)
        \/ \E i \in DOMAIN Written.checks : \E e \in Written.checks[i].expr : ~Readable(e)
        \/ \E i \in DOMAIN Written.sizing : "bytes" \in Written.sizing[i].unit

\* Every other call ends with one of the three codes the task runner is told of
\* (EXIT_CODES): what an expression, a bound, a template or a file can do wrong
\* is caught on the way, wherever it is evaluated.  This is of what is modelled:
\* not of amounts beyond what a float holds or an integer may be printed with, of
\* documents nested deeper than Python's stack, of texts with a NUL or half a
\* character in them, of keys that are not texts where a schema does not look at
\* keys, of files nobody may open, and of what printing raises.
EndsWithACode == Ended /\ exit = EXIT_TRACEBACK => Unforeseen

\* A section that says nothing of what it lists: no path, no rule, no account.
Emptied(k, reading) ==
  CASE k = "paths" -> [reading EXCEPT !.resolved = [p \in {} |-> p]]
    [] k = "auth" -> [reading EXCEPT !.rules = {}]
    [] k = "account" -> [reading EXCEPT !.roles = {}]

\* What an observation would be with less in it: without a section, without one
\* setting, or without all that a section lists.  One entry fewer of such a list
\* is another matter: each is judged by itself, and the wrong one may be the one
\* that is left out.
Less(o) ==
  LET said == o.observations
      Drop(g, x) == [n \in (DOMAIN g) \ {x} |-> g[n]]
      settings == {k \in {"parameters", "initialization"} : k \in DOMAIN said}
  IN  {[o EXCEPT !.observations = Drop(said, k)] : k \in DOMAIN said}
        \cup (UNION {{[o EXCEPT !.observations[k].settings = Drop(said[k].settings, n)] :
                        n \in DOMAIN said[k].settings} : k \in settings})
        \cup {[o EXCEPT !.observations[k] = Emptied(k, said[k])] :
                 k \in {"paths", "auth", "account"} \cap DOMAIN said}

\* Asking less of an instance, in one of these three ways, never makes it a
\* verified one: what was wrong, or not known, is not put right by leaving it out,
\* whatever the conditions of the profile combine (verify/run.py, verify/judge.py).
LessIsNotMore ==
  Ended => \A verdict \in work.verdict :
    (verdict.state = "judged" /\ ~verdict.verified) =>
      \A o \in work.observation : \A less \in Less(o) :
        LET other == Verify(Plan, Profile, less)
        IN  other.state = "judged" => ~other.verified
=============================================================================
