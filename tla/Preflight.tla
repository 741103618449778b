----------------------------- MODULE Preflight -----------------------------
(***************************************************************************)
(* preflight/shared.py, preflight/engine.py, preflight/model.py: the twenty*)
(* shared rules and the rules a profile adds, asked of one host.           *)
(*                                                                         *)
(* A context is a record of the facts, the profile, the request, its       *)
(* paths, the entry of the support matrix and the day.                     *)
(***************************************************************************)
EXTENDS Profiles

\* Days of support below which a version is warned about.
EOL_HORIZON == 2

\* What a check came to, before its severity: {} when nobody can tell.
Met(b) == {b}
Undecidable == {}

-----------------------------------------------------------------------------
(* The shared rules.                                                       *)

PathMount(c, p) == MountFor(c.facts, c.paths[p].path)

OsSupported(c) == \E os \in c.entry.os :
  os.distro = c.facts.distro.word /\ c.facts.version.text \in os.versions

PathsWritable(c) ==
  \A p \in DOMAIN c.paths : \E m \in PathMount(c, p) : ~ReadOnly(m)

\* A path on no mount is not counted here: PathsWritable refuses it.
FreeSpace(c) ==
  LET stated == {p \in DOMAIN c.paths : c.paths[p].min_free # {} /\ PathMount(c, p) # {}}
  IN  IF stated = {} THEN Undecidable
      ELSE Met(\A p \in stated : \A m \in PathMount(c, p), n \in c.paths[p].min_free : m.free >= n)

SeparateMounts(c) ==
  LET asked == {pair \in (DOMAIN c.paths) \X (DOMAIN c.paths) : pair[2] \in c.paths[pair[1]].apart}
  IN  IF asked = {} THEN Undecidable
      ELSE Met(\A pair \in asked :
                 ~SharesMount(c.facts, c.paths[pair[1]].path, c.paths[pair[2]].path))

Filesystem(c) ==
  LET preferred == c.profile.preferences.filesystems
  IN  IF preferred = {} THEN Undecidable
      ELSE Met(\A p \in DOMAIN c.paths : \A m \in PathMount(c, p) : m.filesystem \in preferred)

NotInstalled(c) ==
  IF c.profile.conflicts = {} THEN Undecidable
  ELSE Met(\A s \in c.facts.services : Conflicting(c.profile, s.name) = {})

\* Not the code: what nobody asked about is taken to answer.
RepoAssumed(c) ==
  UNION {IF c.facts.repositories = {} THEN Met(TRUE) ELSE CanReach(c.facts, Spelled(r.url)) :
           r \in UNION {p.repository : p \in PackagesFor(c.profile, c.facts.family.word)}}

\* The url is looked for as the profile spells it.
RepoReachable(c) ==
  UNION {CanReach(c.facts, Spelled(r.url)) :
           r \in UNION {p.repository : p \in PackagesFor(c.profile, c.facts.family.word)}}

SharedBlocks(c) ==
  [reachable |-> Met(c.facts.host = c.request.host),
   privilege |-> Met(c.facts.escalate),
   os |-> Met(OsSupported(c)),
   arch |-> Met(c.facts.arch.word \in c.entry.arch),
   min_cores |-> {(c.facts.cores >= n) : n \in c.profile.minimums.cores},
   min_total |-> {(c.facts.memory >= n) : n \in c.profile.minimums.memory},
   paths_writable |-> Met(PathsWritable(c)),
   free_space |-> FreeSpace(c),
   port |-> Met(~PortInUse(c.facts, c.request.port)),
   not_installed |-> NotInstalled(c),
   repo |-> RepoReachable(c),
   locale |-> {LocalePresent(c.facts, l) : l \in c.profile.default_locale}]

SharedWarnings(c) ==
  LET acceptable == c.profile.preferences.thp
  IN  [separate_mounts |-> SeparateMounts(c),
       filesystem |-> Filesystem(c),
       thp |-> IF acceptable = {} THEN Undecidable ELSE {(s \in acceptable) : s \in c.facts.thp},
       swappiness |-> {(p[1] <= p[2]) : p \in c.facts.swappiness \X c.profile.preferences.swappiness},
       sync |-> {s.synchronized : s \in c.facts.sync},
       eol |-> Met(c.entry.eol - c.today > EOL_HORIZON),
       not_default |-> Met(c.request.version = c.profile.default_version),
       firewall |-> {Admits(w, c.request.port) : w \in c.facts.firewall}]

-----------------------------------------------------------------------------
(* The rules of the profile.                                               *)

BuildScope(f, profile, request, paths) ==
  [n \in {"host", "request", "profile", "path", "GiB", "none"} |->
     CASE n = "host" -> HostScope(f)
       [] n = "request" -> Group(
            [environment |-> Word(request.environment), version |-> Word(request.version),
             port |-> Numeral(2 * request.port), chosen_version |-> YesNo(request.chosen)])
       [] n = "profile" -> Group(
            [engine |-> Word(profile.engine), default_port |-> Numeral(2 * profile.default_port),
             locale |-> OrUnreported({Word(l.lang) : l \in profile.default_locale})])
       [] n = "path" -> Group([p \in DOMAIN paths |-> PathScope(f, paths[p].path)])
       [] n = "GiB" -> Numeral(2)
       [] n = "none" -> Nothing]

\* A verdict is what was met, or that the rule is wrongly written, or that Python
\* had something to say.  The condition is not even read when the rule does not
\* apply.
Asked(e, scope) == IF Readable(e) THEN Truth(e, scope) ELSE Error
Verdict(v) ==
  CASE v.t = "yesno" -> [as |-> "met", met |-> Met(v.b)]
    [] v.t = "unreported" -> [as |-> "met", met |-> Undecidable]
    [] OTHER -> [as |-> v.t, met |-> Undecidable]
EvaluateRule(rule, scope) ==
  LET applies == {Asked(e, scope) : e \in rule.applies_to}
  IN  IF \E a \in applies : a # YesNo(TRUE)
      THEN LET v == Default(applies, Nothing)
           IN  Verdict(IF v = YesNo(FALSE) THEN Unreported ELSE v)
      ELSE Verdict(Asked(rule.expr, scope))

-----------------------------------------------------------------------------
(* What they come to.                                                      *)

Outcome(severity, met) ==
  IF met = {} THEN "skip" ELSE IF met = {TRUE} THEN "pass" ELSE severity

\* The outcome of every rule, named by where it comes from and what it is called.
Results(c, gates, verdicts) ==
  LET blocks == SharedBlocks(c)
      warnings == SharedWarnings(c)
  IN  {[rule |-> n, severity |-> "block", outcome |-> Outcome("block", blocks[n])] : n \in DOMAIN blocks}
      \cup {[rule |-> n, severity |-> "warn", outcome |-> Outcome("warn", warnings[n])] : n \in DOMAIN warnings}
      \cup {[rule |-> gates[i].id, severity |-> gates[i].severity,
             outcome |-> Outcome(gates[i].severity, verdicts[i].met)] : i \in DOMAIN gates}

Blocked(results) == \E r \in results : r.outcome = "block"
Counting(results, outcome) == Cardinality({r \in results : r.outcome = outcome})

\* The whole of evaluate(): the results, or the refusal of a rule, or what Python
\* raised of a path or of a rule, whichever comes first.
EvaluateGates(f, profile, request, today) ==
  LET paths == ResolvePaths(profile, request)
      resolved == Default(paths, <<>>)
      scope == BuildScope(f, profile, request, resolved)
      context == [facts |-> f, profile |-> profile, request |-> request, paths |-> resolved,
                  entry |-> Default(Version(profile, request.version), <<>>), today |-> today]
      verdicts == [i \in DOMAIN profile.gates |-> EvaluateRule(profile.gates[i], scope)]
      stops == {i \in DOMAIN verdicts : verdicts[i].as # "met"}
  IN  IF paths = {} THEN [state |-> "traceback"]
      ELSE IF stops # {} THEN [state |-> verdicts[Min(stops)].as]
      ELSE [state |-> "evaluated", results |-> Results(context, profile.gates, verdicts),
            paths |-> resolved, scope |-> scope]
=============================================================================
