----------------------------- MODULE Profiles -----------------------------
(***************************************************************************)
(* profiles/loader.py, profiles/model.py, profiles/locate.py, request.py,  *)
(* layout.py, placeholders.py and facts/repositories.py: an engine as the  *)
(* eight files of a profile, read, held to what must be true of them       *)
(* together, and resolved for one request.                                 *)
(*                                                                         *)
(* A template is a sequence of parts, a part being a word or a hole with a *)
(* name; it may begin with a slash, and it may have a hole left open.      *)
(***************************************************************************)
EXTENDS Facts, TLC

FILES == {"profile.yml", "support-matrix.yml", "requirements.yml", "layout.yml",
          "sizing.yml", "packages.yml", "apply.yml", "verify.yml"}

\* What nobody may call a parameter: base_scope() and the groups of build_scope().
BASE == {"GiB", "none"}
RESERVED == BASE \cup {"host", "request", "profile", "path"}

-----------------------------------------------------------------------------
(* Reading.                                                                *)

\* An absent unit is a count, an absent match is exact, an absent severity is none.
Default(given, otherwise) == IF given = {} THEN otherwise ELSE CHOOSE v \in given : TRUE

EngineAgrees(d) == \A file \in FILES : d.engines[file] = d.engines["profile.yml"]
DefaultVersionExists(d) == \E i \in DOMAIN d.versions : d.versions[i].version = d.default_version
FamiliesAreDeclared(d) ==
  \A i \in DOMAIN d.versions : \A os \in d.versions[i].os : os.family \in d.families
FamiliesAreInstallable(d) == d.families \subseteq DOMAIN d.packages

Identifiers(d) ==
  [i \in DOMAIN d.gates |-> d.gates[i].id] \o [i \in DOMAIN d.sizing |-> d.sizing[i].id]
    \o [i \in DOMAIN d.configuration |-> d.configuration[i].id]
    \o [i \in DOMAIN d.checks |-> d.checks[i].id]
IdentifiersAreUnique(d) == IsInjective(Identifiers(d))

ParametersAreSetOnce(d) == IsInjective([i \in DOMAIN d.sizing |-> d.sizing[i].parameter])
ParametersDoNotShadow(d) == \A i \in DOMAIN d.sizing : d.sizing[i].parameter \notin RESERVED
SeparationsNameRealPaths(d) ==
  \A p \in DOMAIN d.paths : d.paths[p].apart \subseteq DOMAIN d.paths \ {p}
OneFileCarries(d) ==
  Cardinality({i \in DOMAIN d.configuration : d.configuration[i].carries = {TRUE}}) <= 1
TemplatesExist(d) ==
  \A i \in DOMAIN d.configuration : d.configuration[i].template \in d.templates

Reconcile(d) ==
  /\ EngineAgrees(d) /\ DefaultVersionExists(d)
  /\ FamiliesAreDeclared(d) /\ FamiliesAreInstallable(d)
  /\ IdentifiersAreUnique(d) /\ ParametersAreSetOnce(d) /\ ParametersDoNotShadow(d)
  /\ SeparationsNameRealPaths(d) /\ OneFileCarries(d) /\ TemplatesExist(d)

\* The amounts that are written with their unit; the larger ones go on the same way.
BYTES == [B |-> 1, KB |-> 1000, KiB |-> 1024, MB |-> 1000000, MiB |-> 1048576]
MILLISECONDS == [ms |-> 1, s |-> 1000]

\* A number of halves to a whole number, as Python's round() does: half to even.
RoundedEven(x) == IF x % 2 = 0 THEN x ELSE IF (x - 1) % 4 = 0 THEN x - 1 ELSE x + 1

\* A bound as it is written, read.  A text without a unit is a count of bytes.
Bound(b) ==
  IF b.as # "text" THEN b
  ELSE LET unit == IF b.unit = "" THEN "B" ELSE b.unit
       IN  CASE unit \in DOMAIN BYTES -> [as |-> "bytes", v |-> RoundedEven(b.v * BYTES[unit])]
             [] unit \in DOMAIN MILLISECONDS ->
                  [as |-> "time", v |-> RoundedEven(b.v * MILLISECONDS[unit])]
             [] OTHER -> [as |-> "neither", v |-> 0]

\* The rules as Sizing has them, each with its place in the file.
SizingRules(sizing) ==
  [p \in {sizing[i].parameter : i \in DOMAIN sizing} |->
     LET i == CHOOSE k \in DOMAIN sizing : sizing[k].parameter = p
     IN  [expr |-> sizing[i].expr, parses |-> Readable(sizing[i].expr),
          reads |-> Names(sizing[i].expr), line |-> i,
          unit |-> Default(sizing[i].unit, "count"),
          minimum |-> Bound(sizing[i].minimum), maximum |-> Bound(sizing[i].maximum),
          round_to |-> Bound(sizing[i].round_to), warn_above |-> Bound(sizing[i].warn_above)]]

\* The day support ends is text of the form of a date: a set of at most one day,
\* empty when the calendar has no such day.
Dated(d) == \A i \in DOMAIN d.versions : d.versions[i].eol # {}

\* Eight documents that hold together, as one profile: there is none, and Python
\* says so itself, when a day of theirs is not in the calendar.
Build(d) ==
  [engine |-> d.engines["profile.yml"], default_version |-> d.default_version,
   default_port |-> d.port, default_instance |-> d.instance, default_locale |-> d.locale,
   versions |-> [i \in DOMAIN d.versions |->
     [d.versions[i] EXCEPT !.eol = CHOOSE day \in d.versions[i].eol : TRUE]],
   gates |-> d.gates, minimums |-> d.minimums,
   preferences |-> d.preferences,
   conflicts |-> {[service |-> c.service, match |-> Default(c.match, "exact")] : c \in d.conflicts},
   paths |-> d.paths, account |-> d.account, sizing |-> SizingRules(d.sizing),
   packages |-> d.packages,
   configuration |-> [i \in DOMAIN d.configuration |->
     [template |-> d.configuration[i].template, destination |-> d.configuration[i].destination,
      carries |-> Default(d.configuration[i].carries, FALSE)]],
   tunables |-> d.tunables, initialization |-> d.initialization, secrets |-> d.secrets,
   checks |-> d.checks]

HoldsTogether(d) == (\A file \in FILES : d.files[file] = "read") /\ d.fits /\ Reconcile(d)

\* What reading eight files raises that nobody catches.  Any of them may be no
\* text, or have a value that is none to Python (an unquoted day the calendar does
\* not have), and is read whatever the others are.  One that is read may hold keys
\* of two kinds that its schema does not know, which are sorted to be named, once
\* every file is read.  The days of the support matrix come last.
LoadRaises(d) ==
  \/ \E file \in FILES : d.files[file] \in {"not text", "no value"}
  \/ /\ \A file \in FILES : d.files[file] \in {"read", "mixed keys"}
     /\ \E file \in FILES : d.files[file] = "mixed keys"
  \/ HoldsTogether(d) /\ ~Dated(d)

\* A profile directory, read: the profile, or why it is not one.
LoadProfile(directory) ==
  LET d == directory.documents
  IN  CASE ~directory.exists -> [state |-> "missing"]
        [] directory.exists /\ LoadRaises(d) -> [state |-> "traceback"]
        [] OTHER -> IF HoldsTogether(d) THEN [state |-> "loaded", profile |-> Build(d)]
                    ELSE [state |-> "invalid"]

-----------------------------------------------------------------------------
(* Looking things up.                                                      *)

\* The entries of the support matrix for a version: the first that is listed.
Version(profile, version) ==
  {profile.versions[i] : i \in {k \in DOMAIN profile.versions :
     /\ profile.versions[k].version = version
     /\ \A j \in 1..(k - 1) : profile.versions[j].version # version}}

PackagesFor(profile, family) ==
  {profile.packages[f] : f \in {family} \cap DOMAIN profile.packages}

Matches(conflict, name) ==
  IF conflict.match = "prefix" THEN IsPrefix(conflict.service, name) ELSE name = conflict.service
Conflicting(profile, name) == {c \in profile.conflicts : Matches(c, name)}

-----------------------------------------------------------------------------
(* Resolving.                                                              *)

Holes(template) == {template.parts[i].n : i \in {k \in DOMAIN template.parts : template.parts[k].hole}}

\* A hole must have a name the vocabulary has, that this host reported, and be
\* closed; otherwise there is no text.
Substitute(template, values) ==
  IF template.closed /\ \A n \in Holes(template) : n \in DOMAIN values /\ values[n] # {}
  THEN {[i \in DOMAIN template.parts |->
           IF template.parts[i].hole THEN Default(values[template.parts[i].n], "")
                                     ELSE template.parts[i].n]}
  ELSE {}

\* The text of a template as the profile spells it.
Spelled(template) ==
  [i \in DOMAIN template.parts |->
     IF template.parts[i].hole THEN "{{ " \o template.parts[i].n \o " }}" ELSE template.parts[i].n]

\* A version that is not in the matrix is refused, never replaced by another.
ResolveRequest(profile, args, host) ==
  LET version == Default(args.version, profile.default_version)
  IN  {[host |-> host, engine |-> profile.engine, version |-> version,
        chosen |-> args.version # {}, environment |-> args.environment,
        instance |-> Default(args.instance, profile.default_instance),
        port |-> Default(args.port, profile.default_port)] :
         entry \in Version(profile, version)}

\* Every path of the profile for one request, or nothing if one cannot be filled
\* in or is not absolute.
ResolvePaths(profile, request) ==
  LET values == [engine |-> {request.engine}, instance |-> {request.instance},
                 version |-> {request.version}]
      Where(p) == Substitute(profile.paths[p].default, values)
  IN  IF \A p \in DOMAIN profile.paths : Where(p) # {} /\ profile.paths[p].default.absolute
      THEN {[p \in DOMAIN profile.paths |->
               [path |-> Default(Where(p), <<>>), min_free |-> profile.paths[p].min_free,
                apart |-> profile.paths[p].apart]]}
      ELSE {}

HostVocabulary(f) ==
  ("host" :> {f.host}) @@ ("os.family" :> {f.family.word}) @@ ("os.distro" :> {f.distro.word})
    @@ ("os.version" :> {f.version.text}) @@ ("os.major" :> {f.version.major}) @@ ("os.codename" :> {c.word : c \in f.codename})

\* The repository a host would install from, as the collector asks for it before
\* there is a request: a set of at most one url, or nothing when it cannot be
\* filled in.
UrlsFor(f, profile, version) ==
  LET values == HostVocabulary(f) @@ ("engine" :> {profile.engine})
                  @@ ("instance" :> {profile.default_instance})
                  @@ ("version" :> {Default(version, profile.default_version)})
      named == UNION {p.repository : p \in PackagesFor(profile, f.family.word)}
  IN  IF \A r \in named : Substitute(r.url, values) # {}
      THEN {UNION {Substitute(r.url, values) : r \in named}} ELSE {}
=============================================================================
