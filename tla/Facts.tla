------------------------------- MODULE Facts -------------------------------
(***************************************************************************)
(* facts/collect.py, facts/normalize.py, facts/model.py and scope.py: what *)
(* a host said of itself, written down as a facts document, read back, and *)
(* asked about.                                                            *)
(*                                                                         *)
(* What may not be reported is a set of at most one value.  A text whose   *)
(* spelling is folded is a record of the word and of whether it is spelled *)
(* the way the fold leaves it.  A path is the sequence of its components;  *)
(* a mount point also has the text it is written as.                       *)
(***************************************************************************)
EXTENDS Expressions

Plain(w) == [word |-> w, plain |-> TRUE]
Folded(text) == [text EXCEPT !.plain = TRUE]

\* What a machine can answer, as far as anything here rests on it: a setting of
\* its kernel is one value, a filesystem has one size, and the kernel writes the
\* path it is on in one way.
Answerable(said) ==
  /\ \A x, y \in said.swappiness : x = y
  /\ \A x, y \in said.thp : x = y
  /\ \A u \in said.units : u.name \in Seq(STRING)
  /\ \A i \in DOMAIN said.mounts :
       LET m == said.mounts[i]
       IN  /\ m.path \in Seq(STRING)
           /\ m.total \cup m.free \subseteq Nat
           /\ \A x, y \in m.total : x = y
           /\ \A x, y \in m.free : x = y
           /\ \A k \in DOMAIN said.mounts :
                said.mounts[k].path = m.path => said.mounts[k].text = m.text

-----------------------------------------------------------------------------
(* Collecting.                                                             *)

\* A line of ss that cannot be read, or whose port is a word, is passed over.
ListeningPorts(lines) ==
  {[port |-> l.port, protocol |-> l.protocol] : l \in {k \in lines : k.readable}}

CONFIDENCE == <<"installed", "stopped", "running">>
State(unit) == IF unit.state \in {"running", "stopped"} THEN unit.state ELSE "installed"

\* Not the code: a service is what is running.
ServicesRunning(units) ==
  {[name |-> u.name, state |-> "running"] : u \in {w \in units : State(w) = "running"}}

\* One service for every name, whichever init systems answer for it, in the
\* most definite of the states they report.
Services(units) ==
  {[name |-> n,
    state |-> CONFIDENCE[Max({i \in DOMAIN CONFIDENCE :
                \E u \in units : u.name = n /\ State(u) = CONFIDENCE[i]})]] :
     n \in {u.name : u \in units}}

TimeSync(said) ==
  {[service |-> IF said.ntp = {"yes"} THEN "systemd-timesyncd" ELSE "none",
    synchronized |-> s = "yes"] : s \in said.synchronized}

\* A rule about a range of ports, or about a service by name, opens no port.
UfwFirewall(said) ==
  {[active |-> s = "active", ports |-> {r.port : r \in {q \in said.ufw : q.single}}] :
     s \in said.ufwStatus}

\* The device by the name the mount uses, or without its partition, or by the
\* uuid of the filesystem on it.
DeviceOf(mount, devices) ==
  LET byName == IF ~mount.inDev THEN {}
                ELSE IF mount.device \in DOMAIN devices THEN {mount.device}
                ELSE {mount.disk} \cap DOMAIN devices
  IN  IF byName # {} THEN byName
      ELSE {d \in DOMAIN devices : mount.uuid # "N/A" /\ mount.uuid \in devices[d].uuids}

RotationalFor(mount, devices) == UNION {devices[d].rotational : d \in DeviceOf(mount, devices)}

\* What says no size, or none above zero, is a pseudo-filesystem.
Sized(mount) == mount.total # {} /\ mount.free # {} /\ mount.total # {0}

\* Those that have one, by their places in what the machine lists: the document
\* sorts them by name, which decides nothing.
Mounts(said) ==
  [i \in {k \in DOMAIN said.mounts : Sized(said.mounts[k])} |->
     LET m == said.mounts[i]
     IN  [path |-> m.path, text |-> m.text, filesystem |-> m.filesystem,
          total |-> Max(m.total), free |-> Max(m.free),
          options |-> m.options, rotational |-> RotationalFor(m, said.devices)]]

\* Any answer over HTTP is proof of reaching; a probe that got none has no status.
Reached(probes) == {p.url : p \in {q \in probes : q.status > 0}}

\* asked is empty when no repository was asked about: the document then says
\* nothing of repositories, which is not to say that none was reached.
Collect(said, asked) ==
  [host |-> said.host, family |-> Folded(said.family), distro |-> Folded(said.distro),
   version |-> said.version, codename |-> said.codename, arch |-> Folded(said.arch),
   cores |-> said.cores, threads |-> said.threads, memory |-> said.memory,
   available |-> said.available, swap |-> {said.swap}, mounts |-> Mounts(said),
   ports |-> ListeningPorts(said.sockets), services |-> Services(said.units),
   locales |-> said.locales, repositories |-> {Reached(probes) : probes \in asked},
   escalate |-> said.escalation.rc = 0 /\ said.escalation.uid = 0,
   sync |-> TimeSync(said), swappiness |-> said.swappiness, thp |-> said.thp,
   firewall |-> UfwFirewall(said)]

-----------------------------------------------------------------------------
(* Reading the document back.                                              *)

ARCHITECTURES == [amd64 |-> "x86_64", x86_64 |-> "x86_64", arm64 |-> "aarch64",
                  aarch64 |-> "aarch64", ppc64le |-> "ppc64le", s390x |-> "s390x"]

Canonicalize(f) ==
  [f EXCEPT !.family = Folded(@), !.distro = Folded(@),
            !.codename = {Folded(c) : c \in @},
            !.arch = IF @.word \in DOMAIN ARCHITECTURES
                     THEN Plain(ARCHITECTURES[@.word]) ELSE Folded(@)]

MountsArePossible(f) == \A i \in DOMAIN f.mounts : f.mounts[i].free <= f.mounts[i].total
\* As they are written, which is not as mount_for compares them.
MountsAreDistinct(f) ==
  \A i, j \in DOMAIN f.mounts : f.mounts[i].text = f.mounts[j].text => i = j
MemoryIsPossible(f) == \A a \in f.available : a <= f.memory
CoresAndThreadsAgree(f) == \A t \in f.threads : t >= f.cores

Reconciled(f) ==
  MountsArePossible(f) /\ MountsAreDistinct(f) /\ MemoryIsPossible(f) /\ CoresAndThreadsAgree(f)

\* What load_facts makes of the file: the facts, or nothing.
LoadFacts(file) ==
  IF file.state = "facts" /\ Reconciled(Canonicalize(file.facts))
  THEN {Canonicalize(file.facts)} ELSE {}

-----------------------------------------------------------------------------
(* The questions the rules ask.                                            *)

Carries(mount, path) == IsPrefix(mount.path, path)

\* The deepest mount that carries a path; of two that are equally deep, the one
\* that is listed first.
MountFor(f, path) ==
  LET carrying == {i \in DOMAIN f.mounts : Carries(f.mounts[i], path)}
      Depth(i) == Len(f.mounts[i].path)
  IN  {f.mounts[i] : i \in {k \in carrying : \A j \in carrying :
         Depth(j) < Depth(k) \/ (Depth(j) = Depth(k) /\ k <= j)}}

ReadOnly(mount) == "ro" \in mount.options

SharesMount(f, path, other) ==
  \E m \in MountFor(f, path), n \in MountFor(f, other) : m.text = n.text

PortInUse(f, port) == [port |-> port, protocol |-> "tcp"] \in f.ports
Admits(firewall, port) == ~firewall.active \/ port \in firewall.ports

\* The codeset of a locale is compared as glibc spells it.
CanonicalLocale(locale) == [locale EXCEPT !.codeset = {Folded(c) : c \in @}]
LocalePresent(f, locale) ==
  \E l \in f.locales : CanonicalLocale(l) = CanonicalLocale(locale)

\* Nothing when the host was not asked.
CanReach(f, url) == {(url \in answered) : answered \in f.repositories}

-----------------------------------------------------------------------------
(* What an expression may read.                                            *)

OrUnreported(values) == IF values = {} THEN Unreported ELSE CHOOSE v \in values : TRUE
Numerals(ns) == {Numeral(2 * n) : n \in ns}

HostScope(f) == Group(
  [name |-> Word(f.host), arch |-> Word(f.arch.word),
   os |-> Group([family |-> Word(f.family.word), distro |-> Word(f.distro.word),
                 codename |-> OrUnreported({Word(c.word) : c \in f.codename})]),
   cpu |-> Group([cores |-> Numeral(2 * f.cores), threads |-> OrUnreported(Numerals(f.threads))]),
   memory |-> Group([total_bytes |-> Numeral(2 * f.memory),
                     available_bytes |-> OrUnreported(Numerals(f.available)),
                     swap_bytes |-> OrUnreported(Numerals(f.swap))]),
   kernel |-> Group([swappiness |-> OrUnreported(Numerals(f.swappiness)),
                     transparent_hugepages |-> OrUnreported({Word(s) : s \in f.thp})]),
   time_sync |-> Group([synchronized |-> OrUnreported({YesNo(s.synchronized) : s \in f.sync})]),
   firewall |-> Group([active |-> OrUnreported({YesNo(w.active) : w \in f.firewall})]),
   privileges |-> Group([can_escalate |-> YesNo(f.escalate)])])

\* A path on no mount the host reports is one whose mount is not reported.
PathScope(f, path) ==
  LET mount == MountFor(f, path)
  IN  Group([filesystem |-> OrUnreported({Word(m.filesystem) : m \in mount}),
             free_bytes |-> OrUnreported(Numerals({m.free : m \in mount})),
             total_bytes |-> OrUnreported(Numerals({m.total : m \in mount})),
             rotational |-> OrUnreported({YesNo(r) : r \in UNION {m.rotational : m \in mount}}),
             read_only |-> OrUnreported({YesNo(ReadOnly(m)) : m \in mount})])
=============================================================================
