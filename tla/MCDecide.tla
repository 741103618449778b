------------------------------ MODULE MCDecide ------------------------------
(***************************************************************************)
(* Small instances of Command: one profile and one machine, and what a     *)
(* session may vary of them.                                               *)
(***************************************************************************)
EXTENDS Command

(* Expressions.                                                            *)
\* What the operands are made of, one after the other, and a node over them all.
Ends(args) == [k \in DOMAIN args |-> FoldLeft(LAMBDA n, e : n + Len(e), 0, SubSeq(args, 1, k))]
Moved(e, by) == [i \in DOMAIN e |-> [e[i] EXCEPT !.args = [k \in DOMAIN @ |-> @[k] + by]]]
Over(node, args) ==
  FoldLeft(LAMBDA all2, e : all2 \o Moved(e, Len(all2)), <<>>, args)
    \o <<[node EXCEPT !.args = Ends(args)]>>
Bare(op) == [op |-> op, by |-> <<>>, n |-> "", c |-> Nothing, args |-> <<>>]
Node(op, args) == Over(Bare(op), args)
C(v) == <<[Bare("constant") EXCEPT !.c = v]>>
N(name) == <<[Bare("name") EXCEPT !.n = name]>>
Dot(e, name) == Over([Bare("of") EXCEPT !.n = name], <<e>>)
AskAll(by, args) == Over([Bare("compare") EXCEPT !.by = by], args)
Ask(by, l, r) == AskAll(<<by>>, <<l, r>>)
Host(group, name) == Dot(Dot(N("host"), group), name)
Two == C(Numeral(4))
Yes == C(YesNo(TRUE))
Thp == Ask("==", Host("kernel", "transparent_hugepages"), C(Word("never")))
Swap == Ask("<=", Host("kernel", "swappiness"), Two)
Loopback == Dot(Dot(N("observed"), "port"), "loopback_only")

(* The profile.                                                            *)
T(words) == [absolute |-> TRUE, closed |-> TRUE,
             parts |-> [i \in DOMAIN words |-> [hole |-> FALSE, n |-> words[i]]]]
Hole(t, name) == [t EXCEPT !.parts = Append(@, [hole |-> TRUE, n |-> name])]
NoBound == [as |-> "none", v |-> 0]
Num(x) == [as |-> "number", v |-> x]
SizeOf(p, e) == [id |-> p, parameter |-> p, expr |-> e, unit |-> {}, minimum |-> NoBound,
                 maximum |-> NoBound, round_to |-> NoBound, warn_above |-> NoBound]
Gate(id, e) == [id |-> id, severity |-> "block", applies_to |-> {}, expr |-> e]
A == SizeOf("a", Host("memory", "total_bytes"))

D == [files |-> [f \in FILES |-> "read"], fits |-> TRUE, engines |-> [f \in FILES |-> "engine"],
      families |-> {"debian"}, default_version |-> "16", port |-> 5, instance |-> "main",
      locale |-> {[lang |-> "en", codeset |-> {[word |-> "utf8", plain |-> FALSE]}]},
      versions |-> <<[version |-> "16", eol |-> {9}, arch |-> {"x86_64"},
                      os |-> {[family |-> "debian", distro |-> "ubuntu", versions |-> {"24.04"}]}],
                     [version |-> "15", eol |-> {2}, arch |-> {"x86_64"},
                      os |-> {[family |-> "debian", distro |-> "ubuntu", versions |-> {"24.04"}]}]>>,
      gates |-> <<[Gate("memory", Ask(">=", Host("memory", "total_bytes"), Two)) EXCEPT
                    !.applies_to = {Ask("==", Dot(N("request"), "version"), C(Word("16")))}]>>,
      minimums |-> [cores |-> {1}, memory |-> {2}],
      preferences |-> [filesystems |-> {"xfs"}, thp |-> {"never"}, swappiness |-> {10}],
      conflicts |-> {[service |-> <<"db">>, match |-> {"prefix"}], [service |-> <<"old">>, match |-> {}]},
      paths |-> [data |-> [default |-> Hole(T(<<"srv", "data">>), "instance"),
                           min_free |-> {4}, apart |-> {"backup"}],
                 backup |-> [default |-> T(<<"srv", "backup">>), min_free |-> {}, apart |-> {}]],
      account |-> [name |-> "db", create |-> TRUE],
      sizing |-> <<A>>,
      packages |-> [debian |-> [install |-> <<Hole(T(<<"db">>), "version")>>, service |-> T(<<"db">>),
                                repository |-> {[url |-> T(<<"repo">>), suite |-> {Hole(T(<<>>), "os.codename")}]}]],
      configuration |-> <<[id |-> "conf", template |-> "conf.j2", destination |-> T(<<"etc">>),
                           carries |-> {TRUE}]>>,
      templates |-> {"conf.j2"},
      tunables |-> <<[name |-> "swappiness", value |-> Numeral(2), observed |-> {Host("kernel", "swappiness")}],
                     [name |-> "thp", value |-> Word("never"),
                      observed |-> {Host("kernel", "transparent_hugepages")}]>>,
      initialization |-> {[checksums |-> YesNo(TRUE)]},
      secrets |-> <<[name |-> "s", location |-> T(<<"vault">>)]>>,
      checks |-> <<[id |-> "up", kind |-> "service", expr |-> {}],
                   [id |-> "in", kind |-> "connection", expr |-> {}],
                   [id |-> "sized", kind |-> "parameters", expr |-> {}],
                   [id |-> "where", kind |-> "paths", expr |-> {}],
                   [id |-> "local", kind |-> "version", expr |-> {Loopback}],
                   [id |-> "made", kind |-> "initialization", expr |-> {}]>>]

(* The machine.                                                            *)
Mount(path, text) == [path |-> path, text |-> text, filesystem |-> "xfs", total |-> {9}, free |-> {8},
                      options |-> {"rw"}, inDev |-> TRUE, device |-> "sda1", disk |-> "sda", uuid |-> "N/A"]
M == [host |-> "h", family |-> [word |-> "debian", plain |-> FALSE], distro |-> [word |-> "ubuntu", plain |-> FALSE],
      version |-> [text |-> "24.04", major |-> "24"], codename |-> {Plain("noble")},
      arch |-> Plain("amd64"), cores |-> 2, threads |-> {4}, memory |-> 6, available |-> {3}, swap |-> 0,
      mounts |-> <<Mount(<<>>, "/"), Mount(<<"srv", "data">>, "/srv/data")>>,
      devices |-> [sda |-> [uuids |-> {}, rotational |-> {FALSE}]],
      sockets |-> {[readable |-> TRUE, port |-> 22, protocol |-> "tcp"]},
      units |-> {[name |-> <<"ssh">>, state |-> "running"]},
      locales |-> {[lang |-> "en", codeset |-> {[word |-> "utf8", plain |-> TRUE]}]},
      escalation |-> [rc |-> 0, uid |-> 0], synchronized |-> {"yes"}, ntp |-> {"yes"},
      swappiness |-> {1}, thp |-> {"never"}, ufw |-> {[single |-> TRUE, port |-> 5]}, ufwStatus |-> {"active"}]

(* A call.                                                                 *)
Collected(said) == [state |-> "collected", said |-> said, asked |-> TRUE, answering |-> {<<"repo">>}]
Ill(state) == [state |-> state]
None == [by |-> "none", exists |-> FALSE, documents |-> D]
Args == [version |-> {}, environment |-> "test", instance |-> {}, port |-> {}]
Call(verb, said, d) ==
  [verb |-> verb, parses |-> TRUE, facts |-> {Collected(said)}, json |-> FALSE,
   profile |-> [by |-> "path", exists |-> TRUE, documents |-> d], args |-> Args, host |-> {},
   today |-> 0, store |-> TRUE, writable |-> TRUE, from |-> {}, observed |-> {}]
P == Call("plan", M, D)
One(calls) == {<<c>> : c \in calls}
Plans(documents) == One({Call("plan", M, d) : d \in documents})
\* On facts that were collected without asking any repository.
Alone(documents) == One({[Call("plan", M, d) EXCEPT !.facts = {[Collected(M) EXCEPT !.asked = FALSE]}] :
                           d \in documents})

-----------------------------------------------------------------------------
(* Formulas that read each other in every way three can, and every way     *)
(* bounds, rounding and a value can lie.                                   *)
Three == <<"a", "b", "c">>
SumOf(S) == FoldSet(LAMBDA p, e : Node("+", <<e, N(p)>>), C(Numeral(6)), S)
Graphs3 == {[i \in 1..3 |-> [SizeOf(Three[i], SumOf(g[i])) EXCEPT
               !.round_to = IF i = 1 THEN Num(4) ELSE NoBound,
               !.maximum = IF i = 2 THEN Num(7) ELSE NoBound]] :
             g \in [1..3 -> SUBSET {"a", "b", "c"}]}
Amounts == {[SizeOf("a", C(Numeral(x))) EXCEPT !.unit = {u}, !.minimum = mn, !.maximum = mx, !.round_to = r,
               !.warn_above = Num(6)] :
              x \in {-7, 0, 5, 12}, u \in {"count", "ratio", "bytes"},
              mn \in {NoBound, Num(3), Num(4)}, mx \in {NoBound, Num(3), Num(9)}, r \in {NoBound, Num(1), Num(4)}}
Text(v, unit) == [as |-> "text", v |-> v, unit |-> unit]
Units == {[SizeOf("a", e) EXCEPT !.unit = {u}, !.maximum = b] :
            e \in {C(Numeral(8000)), C(Word("on")), C(Nothing), Host("memory", "available_bytes"),
                   Host("kernel", "swappiness"), N("nobody"), Node("lambda", <<>>)},
            u \in UNITS, b \in {NoBound, Text(4, "KiB"), Text(7, ""), Text(3, "s"), Text(5, "ms"), Text(4, "s"), Text(4, "hours")}}
MCRuleSets == {SizingRules(<<s>>) : s \in Amounts \cup Units} \cup {SizingRules(s) : s \in Graphs3}
Sizings == Plans({[D EXCEPT !.sizing = s] : s \in Graphs3 \cup {<<a>> : a \in Amounts \cup Units}})
             \cup One({Call("plan", [M EXCEPT !.available = {}], [D EXCEPT !.sizing = <<u>>]) : u \in Units})

-----------------------------------------------------------------------------
(* Machines.                                                               *)
Unit(name, state) == [name |-> name, state |-> state]
UnitsOf == {M.units} \cup {M.units \cup u : u \in {{Unit(<<"db">>, "stopped")},
              {Unit(<<"old">>, "running"), Unit(<<"old">>, "inactive")}, {Unit(<<"old", "er">>, "running")},
              {Unit(<<"db", "x">>, "unknown")}}}
Socket(readable, protocol) == [readable |-> readable, port |-> 5, protocol |-> protocol]
SocketsOf == {{}, {Socket(TRUE, "tcp")}, {Socket(TRUE, "udp")}, {Socket(FALSE, "tcp")}}
Srv == Mount(<<"srv">>, "/srv")
MountsOf ==
  {M.mounts, <<M.mounts[1]>>, <<M.mounts[2]>>, <<M.mounts[2], M.mounts[1], Srv>>,
   M.mounts \o <<[Srv EXCEPT !.options = {"ro"}]>>, <<M.mounts[1], [M.mounts[2] EXCEPT !.free = {3}]>>,
   <<[M.mounts[1] EXCEPT !.free = {3}], M.mounts[2]>>, M.mounts \o <<M.mounts[2]>>,
   <<M.mounts[1], [M.mounts[2] EXCEPT !.total = {0}]>>, <<M.mounts[1], [M.mounts[2] EXCEPT !.free = {10}]>>,
   M.mounts \o <<[Mount(<<"srv", "dat">>, "/srv/dat") EXCEPT !.free = {0}]>>,
   M.mounts \o <<[Mount(<<"srv", "data", "main">>, "/srv/data/main") EXCEPT !.total = {}, !.free = {}]>>}
Silent == {[M EXCEPT !.codename = c, !.threads = t, !.available = a, !.swappiness = s, !.thp = h,
              !.synchronized = y, !.ufwStatus = w] :
             c \in {{}, M.codename}, t \in {{}, M.threads}, a \in {{}, M.available},
             s \in {{}, {1}, {60}}, h \in {{}, {"never"}, {"always"}}, y \in {{}, {"no"}}, w \in {{}, {"active"}}}
Machines ==
  {[M EXCEPT !.units = u, !.sockets = s] : u \in UnitsOf, s \in SocketsOf}
    \cup {[M EXCEPT !.mounts = m] : m \in MountsOf} \cup Silent
    \cup {[M EXCEPT !.escalation.rc = 1], [M EXCEPT !.arch = Plain("s390x")], [M EXCEPT !.locales = {}],
          [M EXCEPT !.threads = {1}], [M EXCEPT !.memory = 1], [M EXCEPT !.family = Plain("redhat")],
          [M EXCEPT !.version.text = "22.04"], [M EXCEPT !.ufw = {}], [M EXCEPT !.units = {}],
          [M EXCEPT !.mounts[2] = [@ EXCEPT !.inDev = FALSE, !.uuid = "u", !.filesystem = "btrfs"],
                    !.devices.sda.uuids = {"u"}]}
Hosts == One({Call(verb, m, D) : verb \in {"plan", "preflight"}, m \in Machines}
             \cup {[Call("plan", m, D) EXCEPT !.facts = {[Collected(m) EXCEPT !.asked = FALSE]}] :
                     m \in Machines \ Silent})

-----------------------------------------------------------------------------
(* Rules, profiles and command lines.                                      *)
Asks == {Yes, Thp, Swap, Node("not", <<Thp>>), Node("and", <<Swap, Thp>>), Node("or", <<Thp, Swap>>),
         Node("or", <<Yes, Thp>>), Node("and", <<Thp, Two>>), Two, N("nobody"), Node("call", <<>>),
         Ask("in", Two, C(Word("never"))), Ask("in", C(Word("never")), Node("list", <<C(Word("never")), Two>>)),
         Ask("<", Node("/", <<Two, C(Numeral(0))>>), Two), Node("if", <<Thp, Swap, Yes>>),
         Ask("==", C(YesNo(TRUE)), C(Numeral(2))), Ask("<", C(Word("a")), C(Word("b"))), Ask("<", Yes, Two),
         Ask("is not", Host("os", "codename"), N("none")), Ask(">", Node("*", <<Two, N("GiB")>>), Node("minus", <<Two>>)),
         Dot(Dot(N("path"), "data"), "rotational"), Ask("in", Yes, Two),
         AskAll(<<"<=", "!=">>,
                <<C(Numeral(2)), Node("%", <<C(Numeral(10)), Two>>), Node("-", <<Two, C(Numeral(1))>>)>>),
         Ask("not in", Node("plus", <<Two>>), Node("list", <<Node("//", <<Two, Two>>)>>))}
Quiet == [M EXCEPT !.thp = {}, !.threads = {}, !.devices = [d \in {} |-> 0]]
Rules == One({Call("preflight", m, [D EXCEPT !.gates = <<[Gate("asked", e) EXCEPT !.applies_to = a]>>]) :
                e \in Asks, a \in {{}, {Thp}, {Swap}}, m \in {M, Quiet, [M EXCEPT !.swappiness = {60}]}})
                
Repo(url) == [D.packages["debian"] EXCEPT !.repository = {[url |-> url, suite |-> {}]}]
Profiles == 
  {[D EXCEPT !.files["sizing.yml"] = s, !.files["apply.yml"] = t] :
      s \in {"absent", "not text", "no value", "mixed keys"}, t \in {"read", "absent"}}
    \cup {[D EXCEPT !.versions[2].eol = {}], [D EXCEPT !.versions[2].eol = {}, !.fits = FALSE],
          [D EXCEPT !.fits = FALSE], [D EXCEPT !.engines["apply.yml"] = "other"], [D EXCEPT !.default_version = "9"],
          [D EXCEPT !.families = {}], [D EXCEPT !.families = {"debian", "suse"}], [D EXCEPT !.gates = @ \o @],
          [D EXCEPT !.sizing = @ \o <<[A EXCEPT !.id = "b"]>>], [D EXCEPT !.sizing[1].parameter = "host"],
          [D EXCEPT !.paths["backup"].apart = {"backup"}], [D EXCEPT !.templates = {}],
          [D EXCEPT !.configuration = @ \o <<[@[1] EXCEPT !.id = "conf2"]>>],
          [D EXCEPT !.paths["data"].default.absolute = FALSE], [D EXCEPT !.paths["data"].default.closed = FALSE],
          [D EXCEPT !.paths["data"].default = Hole(@, "os.codename")],
          [D EXCEPT !.packages["debian"] = Repo(Hole(T(<<"repo">>), "version"))],
          [D EXCEPT !.packages["debian"].repository = {}],
          [D EXCEPT !.packages["debian"].service = Hole(@, "nobody")],
          [D EXCEPT !.secrets[1].location = Hole(@, "nobody")], [D EXCEPT !.initialization = {}],
          [D EXCEPT !.conflicts = {}], [D EXCEPT !.preferences = [filesystems |-> {}, thp |-> {}, swappiness |-> {}]],
          [D EXCEPT !.locale = {}, !.minimums = [cores |-> {}, memory |-> {}]]}
    \cup {[D EXCEPT !.tunables[1].observed = o] :
            o \in {{}, {N("nobody")}, {Ask("in", Two, C(Word("x")))}, {Ask("==", Two, Two)}, {C(Numeral(3))}, {N("none")}}}
\* Settings found at a group, whole or in part, on hosts that say more and less.
Kernel == Dot(N("host"), "kernel")
Grouped == {Kernel, N("host"), N("path"), N("profile"), N("request"), Dot(N("path"), "data"),
            Dot(N("host"), "privileges"), Node("list", <<Two, Kernel>>), Node("list", <<Node("list", <<Kernel>>)>>),
            Node("if", <<Swap, Kernel, Yes>>), Node("if", <<Swap, Yes, N("host")>>),
            Dot(Node("if", <<Yes, N("host"), N("path")>>), "kernel"), Node("list", <<Two, Host("kernel", "swappiness")>>)}
Found == One({Call("plan", m, [D EXCEPT !.tunables[1].observed = {e}, !.locale = l]) :
                e \in Grouped, m \in {M, [M EXCEPT !.thp = {}], Quiet}, l \in {{}, D.locale}})
Profiled == Plans(Profiles) \cup Alone(Profiles) \cup Found

Lines == One(
  {[P EXCEPT !.verb = v, !.parses = b] : v \in {"gather", "preflight", "plan"}, b \in BOOLEAN}
    \cup {[P EXCEPT !.verb = v, !.facts = f] : v \in {"gather", "preflight"},
            f \in {{}} \cup {{Ill(s)} : s \in {"missing", "not text", "not json", "unfit", "undated"}}}
    \cup {[P EXCEPT !.profile = None], [P EXCEPT !.profile.exists = FALSE, !.facts = {[Collected(M) EXCEPT !.asked = FALSE]}],
          [P EXCEPT !.profile.exists = FALSE, !.profile.by = "engine"], [P EXCEPT !.args.version = {"15"}],
          [P EXCEPT !.args.version = {"9"}], [P EXCEPT !.args.port = {22}], [P EXCEPT !.host = {"g"}],
          [P EXCEPT !.today = 7], [P EXCEPT !.store = FALSE], [P EXCEPT !.writable = FALSE],
          [P EXCEPT !.facts = {[Collected(M) EXCEPT !.asked = FALSE]}],
          [P EXCEPT !.facts = {[Collected(M) EXCEPT !.answering = {}]}]})

-----------------------------------------------------------------------------
(* A plan made, kept, read back and verified.                              *)
Sockets(addresses) ==
  SocketsHeld({[readable |-> x[1], process |-> {x[2]}, port |-> x[3], address |-> x[4]] : x \in addresses}, "db")
Readings ==
  [service |-> {[unit |-> <<"db">>, active |-> TRUE, enabled |-> TRUE]},
   port |-> {[bound |-> Sockets({<<TRUE, "db", 5, "::1">>, <<TRUE, "ssh", 22, "*">>, <<FALSE, "db", 6, "*">>})]}, connection |-> {[accepted |-> TRUE]},
   version |-> {[major |-> "16"]}, parameters |-> {[settings |-> [a |-> Numeral(12)], unknown |-> {}]},
   paths |-> {[resolved |-> [data |-> <<"srv", "data", "main">>]]},
   log |-> {[exists |-> TRUE, written |-> TRUE]}, backup |-> {[writable |-> TRUE]},
   auth |-> {[rules |-> {[password_required |-> TRUE, local |-> FALSE]}]},
   account |-> {[roles |-> {[can_login |-> TRUE, password_set |-> TRUE]}]},
   initialization |-> {[settings |-> [checksums |-> YesNo(TRUE)], locale |-> D.locale]}]
Instances ==
  {Readings} \cup {[Readings EXCEPT ![k] = {}] : k \in KINDS}
    \cup {[Readings EXCEPT !.service = {[unit |-> <<"db">>, active |-> TRUE, enabled |-> FALSE]}],
          [Readings EXCEPT !.port = {[bound |-> Sockets({<<TRUE, "db", 5, "*">>})]}],
          [Readings EXCEPT !.port = {[bound |-> Sockets({})]}], [Readings EXCEPT !.connection = {[accepted |-> FALSE]}],
          [Readings EXCEPT !.version = {[major |-> "15"]}],
          [Readings EXCEPT !.parameters = {[settings |-> [a |-> Numeral(8)], unknown |-> {}]}],
          [Readings EXCEPT !.parameters = {[settings |-> [n \in {} |-> Nothing], unknown |-> {}]}],
          [Readings EXCEPT !.parameters = {[settings |-> [a |-> Numeral(12)], unknown |-> {"b"}]}],
          [Readings EXCEPT !.paths = {[resolved |-> [data |-> <<"var">>]]}],
          [Readings EXCEPT !.paths = {[resolved |-> [n \in {} |-> <<>>]]}],
          [Readings EXCEPT !.log = {[exists |-> TRUE, written |-> FALSE]}], [Readings EXCEPT !.backup = {[writable |-> FALSE]}],
          [Readings EXCEPT !.auth = {[rules |-> {[password_required |-> FALSE, local |-> FALSE]}]}],
          [Readings EXCEPT !.auth = {[rules |-> {}]}], [Readings EXCEPT !.account = {[roles |-> {}]}],
          [Readings EXCEPT !.account = {[roles |-> {[can_login |-> TRUE, password_set |-> FALSE]}]}],
          [Readings EXCEPT !.initialization = {[settings |-> [checksums |-> Numeral(2)], locale |-> {}]}],
          [Readings EXCEPT !.initialization = {[settings |-> [checksums |-> YesNo(TRUE)],
             locale |-> {[lang |-> "en", codeset |-> {[word |-> "utf8", plain |-> TRUE]}]}]}]}
AllChecks == [D EXCEPT !.checks = @ \o <<[id |-> "at", kind |-> "port", expr |-> {}], [id |-> "log", kind |-> "log", expr |-> {}],
  [id |-> "backup", kind |-> "backup", expr |-> {}], [id |-> "auth", kind |-> "auth", expr |-> {}],
  [id |-> "account", kind |-> "account", expr |-> {}]>>]
Path(state) == [named |-> "path", instance |-> TRUE, pick |-> 1, edited |-> FALSE, state |-> state]
Obs(sections) == [state |-> "written", pick |-> 1, host |-> {}, sections |-> sections]
V(d, source, obs) == [Call("verify", M, d) EXCEPT !.facts = {}, !.from = {source}, !.observed = {obs}]
Checked(e) == [D EXCEPT !.checks = <<[id |-> "c", kind |-> "connection", expr |-> {e}]>>]
Sources == {[Path("plan") EXCEPT !.named = n, !.pick = k, !.instance = i] : n \in {"id", "host"}, k \in 0..1, i \in BOOLEAN}
             \cup {[Path("plan") EXCEPT !.edited = TRUE]} \cup {Path(s) : s \in {"plan", "missing", "not text", "not json", "unfit"}}
Verified ==
  {<<P, V(d, Path("plan"), Obs(o))>> : d \in {D, AllChecks}, o \in Instances}
    \cup {<<P, V(Checked(e), Path("plan"), Obs(o))>> :
            e \in {Loopback, Node("or", <<Yes, Loopback>>), Node("not", <<Loopback>>), N("nobody"), Node("call", <<>>), Two,
                   Dot(Dot(N("observed"), "log"), "exists")},
            o \in {Readings, [Readings EXCEPT !.port = {}], [Readings EXCEPT !.connection = {[accepted |-> FALSE]}]}}
    \cup {<<P, V(D, s, Obs(Readings))>> : s \in Sources}
    \cup {<<P, [V([D EXCEPT !.files["verify.yml"] = f], Path("plan"), Obs(Readings)) EXCEPT !.profile.by = "none"]>> :
            f \in {"read", "not text"}}
    \cup {<<P, [V(D, s, Obs(Readings)) EXCEPT !.verb = "plan", !.observed = {}, !.profile = None]>> :
            s \in {k \in Sources : k.named # "host"}}
    \cup {<<P, [V(D, Path("plan"), [Obs(Readings) EXCEPT !.state = s]) EXCEPT !.profile.exists = e]>> :
            s \in {"missing", "not text", "not json", "unfit", "undated", "written"}, e \in BOOLEAN}
    \cup {<<Call("plan", M, [D EXCEPT !.tunables[1].observed = {e}]), V(D, Path("plan"), Obs(Readings))>> :
            e \in {N("none"), N("request"), Node("list", <<Two>>), Ask("==", Two, Two)}}
    \cup {<<P, [P EXCEPT !.today = 1, !.args.version = {"15"}],
            V(D, [Path("plan") EXCEPT !.pick = i], [Obs(Readings) EXCEPT !.pick = j, !.host = h])>> :
            i, j \in 1..2, h \in {{}, {"g"}}}
    \cup {<<P, P, [V(D, Path("plan"), Obs(Readings)) EXCEPT !.verb = v, !.json = b, !.store = FALSE, !.observed = {}]>> :
            v \in {"plan", "verify"}, b \in BOOLEAN}

MCSessions == Sizings \cup Hosts \cup Rules \cup Profiled \cup Lines \cup Verified
MCScopes == {}
MCAlphabet == [a |-> 2, b |-> 1, c |-> 3, host |-> 4]
MCFormula(e, scope) == Evaluate(e, scope)
MCCollation == [a |-> 1, b |-> 2]
=============================================================================
