# Basewright, in TLA+

Basewright provisions a database instance in four steps a person runs one after the other:
*preflight* asks whether a host can carry it, *plan* writes down what would be done and names
the document after a digest of itself, *apply* does what an approved plan says and nothing else,
*verify* reads the instance back and compares it with the plan. Python decides
(`src/basewright/`), Ansible acts (`src/ansible/`). This directory models both: what the command
decides, call by call and from documents that may lack anything, and what the playbooks do, in
whatever order they run, stop and repeat. TLC checks the models on small instances and TLAPS
proves the central properties for all of them.

## The system

| Component | State it keeps | Operations | What makes it hard | What makes it correct |
| --- | --- | --- | --- | --- |
| **Apply** (`playbooks/apply.yml`, the roles `common` and `postgresql`) | everything on the host: packaging, data directory, configuration, kernel settings, the running instance, the role's password; the note of what is applied | some twenty tasks in a fixed order; refusals before the first of them | a run may stop at any task and be run again; two may be in flight; the host and the plan file live on in between; a restart is owed only by the run that changed a file | refuses what it must not touch; a re-run completes and changes nothing more; nothing is destroyed |
| **Secret stores** (`common/tasks/secret*.yml`, `postgresql/tasks/secret.yml`) | one generated secret per instance, on the control node | find, generate, keep, set on the cluster | two places that must agree, written one after the other, by a run that may end in between | generated once, never rolled, what is on the cluster is what is stored |
| **Drift** (`drift.py`, `bridge.py`) | none | compare the recorded host with the host as it is | missing facts; what is compared and what is not | refuses a machine the plan is not for |
| **Plan store** (`store.py`) | plan files under their ids; one note per instance | keep, read, applied | writes are not atomic, writers do not know each other | an id that was announced can be read, by anybody, later |
| **Plan step** (`playbooks/plan.yml`, `cli.py`) | facts file per host | collect, gate, build, keep, show | several programs in a row talking through files and stdout, beside others on the same host | a plan rests on what was so of the host while it was made; a plan that was produced is shown for approval; every call ends with one of three codes |
| **Plan contract** (`planner/plan.py`, `planner/changes.py`) | none | build, digest, read back | what is and is not under the digest; what is left out because nobody knows it | an edited plan is refused; what is not listed as a change is so already |
| **Sizing** (`planner/sizing.py`) | values computed so far | order the rules, evaluate, round, bound, advise | rules that read each other, cycles, rounding against bounds | every rule sees final values of what it reads; results stay inside bounds |
| **Expressions** (`expressions.py`, `scope.py`) | none | parse, evaluate over facts that may be missing | three-valued logic | a fact nobody reported decides nothing |
| **Preflight** (`preflight/`) | none | evaluate rules to pass, warn, block, skip | which of several answers wins | no plan after a block |
| **Verify** (`playbooks/verify.yml`, `verify/`) | observation file per host | observe, judge, narrow | readings nobody took; readings of another machine or another run | a check nobody could run is not a pass |
| **Facts** (`facts/`, role `gather`) | facts document | collect, normalise, refuse, find the mount of a path | several answers to one question, missing values, path prefixes, a file runs share | what is decided of the document is so of the machine |
| **Profiles, request, layout, units** (`profiles/`, `request.py`, `layout.py`, `placeholders.py`, `units.py`) | none | load and check, resolve, substitute, parse | what later steps take for granted because these refused the rest | no profile that was accepted ends a later step in an exception |
| **Schemas, reports, asset rendering** (`schema.py`, `report/`, `tools/`) | none | validate, word, draw | — | — |

They interact through documents: preflight and plan read the facts file, apply reads the plan
file at every task (`basewright_plan` is a lookup, not a value), apply writes the note that
verify follows, and verify writes an observation that the command line reads back. The only
shared state is files on the control node and the host itself; nothing locks either.

## The modules

| Module | What it is |
| --- | --- |
| `Expressions` | The language of a profile's rules: what parsing refuses, and evaluation to a value, to nothing because a fact was not reported, to an error the tool reports, or to an exception it does not. |
| `Facts` | From what a host answered to the facts document and what is asked of it (`collect.py`, `normalize.py`, `model.py`, `scope.py`). |
| `Profiles` | The loader's checks and what it builds; the request, the layout, the repositories (`loader.py`, `request.py`, `layout.py`, `placeholders.py`, `repositories.py`). |
| `Preflight` | The shared checks, the rules a profile contributes, and what they come to. |
| `Plan` | What goes into a plan, what it says will change, and its id. |
| `Judge` | An observation, the judgement of each kind of check, and the verdict. |
| `Sizing` | `sizing.py` as a state machine: rounds over the rules, the search for a circle, evaluation, rounding and bounds. |
| `Command` | `cli.py`: each verb as a process over its inputs, step by step, with `Sizing` as one of its steps, in sessions of calls that share a plan store. |
| `MCDecide` | The machines, profiles, command lines and sessions `Command` is checked on. |
| `Readings`, `MCReadings` | The collecting, planning and verifying playbooks as concurrent runs against one host, sharing its two files; and its small instance. |
| `Drift` | `drift.py` as operators on sets: the differences between the host section of a plan and that of a host. |
| `Apply`, `MCApply` | The apply step: one action per task, the ways a run ends, and what happens between runs; and the estates it is checked on. |
| `Estate` | The abstract specification of applying: instances, secrets and notes, with no runs in it. `Apply` implements it. |
| `PlanStore` | Keeping a plan: runs of the plan step that write the same file. |
| `ApplyProofs`, `EstateProofs`, `SizingProofs`, `ReadingsProofs`, `PlanStoreProofs` | The theorems of the module each is named for. |
| `LanguageProofs`, `CommandProofs`, `EvaluationProofs` | The lemmas of the language of rules, and the theorems of `Command` and of the chain it runs: those that rest on where things come from, and those that rest on how rules are evaluated. |

Each of `Expressions`, `Facts`, `Profiles`, `Preflight`, `Plan` and `Judge` extends the one before
and is pure: the code they model is a chain of functions over documents. `Command` extends the
last of them and `Sizing`, and adds the state: which call is under way, how far it is, what it
has read, what is in the store. `Drift` and `Apply` meet the chain at the plan document, which
`Apply` sees only as far as its tasks do; `Readings` abstracts the same functions to a yes or a
no, and adds the interleaving.

### How the decisions correspond to the code

A call is a record of its inputs: the verb, whether argparse takes the line, the state of each
file (missing, not text, unreadable, whole, or whole but for a moment no clock shows), the day. What may be absent is a set of at most one
element, because that is what nearly every property is about. `Command`'s `step` follows the
order in which `main` and each verb read and refuse, since that order decides what a call with
two things wrong ends with; `exit` is the code. An exception nobody catches is a value
(`Traceback`) that every operator passes on and that ends the process with 1.

`Expressions` keeps an expression as the sequence of the nodes of its tree, each after what it is
made of, with the places of its operands: what a node comes to is then a function of what stands
before it (`Values`), and a property of expressions can be proved node by node. Numbers
are counted in halves, so that a fraction exists without arithmetic on reals; a text is a value
or a sequence of words when a prefix matters (services, templates of paths). `Facts!Collect`
starts from a machine (units and their states per init system, sockets, mounts, answers that
may be missing) and ends at the document; `LoadFacts` folds and refuses it. `Profiles` keeps the
order of the loader's checks and, beside what it reports (`invalid`), what it raises (`LoadRaises`):
the day an engine's support ends is a set of at most one day, empty for text that has the form of
a date and is none. A group of facts is a value like another, so a tunable may be found at one;
`Gapless` says whether it, or a list with it, can be written down, since what nobody reported has
no JSON. `Preflight` gives each check an outcome, so that a plan is a
function of the outcomes and the request; `PlanIdFor` is a plan's content itself, since the
digest tells contents apart and nothing else is asked of it, or nothing for content that cannot
be written down (`BuildPlan` makes no plan then, and the call raises). A plan that is read back
must have found its settings at values its contract allows (`PlanFits`). In `Sizing` a variable is a local
of `evaluate`, `evaluation_order` or `_cycle`, and an action one turn of a loop.

What is abstracted: wording, except where rendering it can fail; JSON schemas, which appear as
"the document has the shape"; the syntax of expressions, which Python's `ast` reads; ids of
rules and purposes are model names.

### How `Readings` corresponds to the code

A run asks a host in two parts, because the answers of a playbook are not of one moment: what
`setup` and the first tasks say, and what later tasks are answered (for `verify`, the unit and
then the settings). It then asks for repositories, or not, as an engine was named or not
(`roles/gather`); writes the host's file; and lets the command decide from whatever the file
then holds. `world` is what is so, and changes; `since` and `beside` are histories, of what was
so while a run was in flight and of the runs it was in flight with.

### How `Apply` corresponds to the code

`run[r]` is one launch of the playbook: `at` is the task it is about to execute, `exists`, `new`
and `value` are what earlier tasks registered (`postgresql_cluster`, `common_secret_is_new`,
`common_secret_value`) and `notified` is the handler it owes. `machine[h]` is what apply creates
and configures on a host. `data` distinguishes what the code can tell apart and what it cannot:
a data directory that is absent, empty, holding only the placeholder the layout phase made for a
directory inside it, half made by a `pg_createcluster` that died before (`partial`) or after
(`torn`) it wrote `PG_VERSION`, made from a plan, or made by the packaging on its own account
(`unplanned`). `conf` is what is in the configuration files and `running` what the instance was
started with; `sysctl` is the settings file and `kernel` what is loaded; `asides` are the copies
left beside replaced files. `held` is the secret store, `note` the store's `instances/`
directory, and `file` the store's `plans/`.

Each task is one action: its guard is where the run is, its effect what the task does on the
host, including what it does not do when its `when:` is false. The tasks read the plan through
`Doc(r)`, that is, from the file as it is at that moment. `Refuse` is an assertion of the play,
or a task that cannot do what it is asked; `Stop` is a task that failed for its own reasons or a
run somebody stopped, at any point; both simply end the run, because the playbooks undo nothing.

`Circumstances` says what else may happen. Runs take turns and people wait for them to end
unless `"Overlap"` and `"MidRun"` say otherwise; `"OtherHost"` lets a launch name its target;
`"Interrupted"` lets `pg_createcluster` die half way. Between the runs, in every circumstance,
a plan file may be edited, put back or replaced by another plan's, a configuration file or a kernel setting changed by hand,
the host resized, restarted (which loads the settings file and the configuration), or rebuilt
empty under its own name, which ends the runs that were on it.

What is abstracted: an instance per host; one secret per plan; the files a plan configures are
one value, and so are the settings it loads; the repository, its key and the service account are
part of installing; a generated password is a value nobody holds; owners, modes and encryption
are left out. `Install`'s cluster nobody planned, `CanMake`, `MakeInterrupted` and `Reboot` model
software outside the repository (the Debian packaging, `pg_createcluster`, systemd, sysctl), by
what the roles' comments and conditions rely on.

### How `PlanStore` corresponds to the code

`keeper[k]` is a run of the plan step from the plan it decided on: `keep` asks whether the file
exists, opens it (which empties it), fills it, and says so on stderr; `plan.yml` then takes the
id out of stdout and shows the plan. A file is absent, begun or whole. Two writers write the same
bytes, so a file is whole once the one that emptied it last is done; a writer that was emptied
under may or may not leave a hole until then. `torn` is a history variable: the ids a write of
which was cut short, by a signal or by an error the command reports (`cli.py`, `plan`).

## What is checked

| Run | Bounds | What it shows |
| --- | --- | --- |
| `apply_serial` | one run at a time, two plans for one instance that differ in everything a plan decides, an edited copy, two sizes of host, vault store, two passwords | `TypeOK`; `Vetted`: no task touches a host the checks would refuse; `NotedIsApplied`: a run about to write its note has done what it notes; `NoUnplannedCluster`; `PasswordIsStored` and `SecretNeverRolls` through stops and rebuilds; `NothingDestroyed`; `SameAgain`: a second run of a plan changes nothing; `KeepsEstate`: every step is one `Estate` allows |
| `apply_overlap` | two runs at once, nobody waits for either, file store, one plan | `NoUnplannedCluster`, `PasswordIsStored`, `SecretNeverRolls` and `NothingDestroyed` hold even so |
| `apply_again` | one plan, any number of stopped runs | `RerunDoesTheRest`: once mishaps end, some re-run leaves the host as planned for good |
| `decide` | some two thousand calls and short sessions: machines with each answer missing or doubled, profiles with each file and rule bad in turn, two dozen formulas of every operator as rules, conditions and checks, every graph of needs among three parameters, every unit against every form of bound, settings found at groups of facts, days and moments that are none, plans edited before they are read, observations with parts missing | `PlanFitsMachine`: a plan is made only for a machine that can carry it, across collecting, folding and gating; `NothingUnsaid`: what a plan does not list is so already; `SilenceDecidesNothing`: an outcome reached without a fact is the one any answer gives; `LessIsNotMore`: leaving out a section, a setting, or all that the paths, the rules or the accounts list never makes an instance verify; `EndsWithACode`: exceptions escape from the listed causes only; for sizing `ReadsFinal`, `WithinBounds`, `OrderIfAny`, `RingIsReal`, `GoesOn`: the search for a ring always has a next rule, and `Settles`: it always ends |
| `readings` | three runs of gather, plan and verify on one host, two engines of which one is reachable, two plans, one change, one stop | `YesWasTrue`, `NoWasTrue`: an answer rests on what was so of the right thing while the run, or one beside it, was in flight; `UnaskedOnlyBeside` |
| `plan_store` | three writers of one plan, each cut short anywhere | `AnnouncedIsKept` and `KeptForGood`, for a plan no write of which was cut |

The bounds are enough for what they are for. In `decide` the inputs vary one or two at a time from
a machine and a profile on which everything passes: the functions treat fields apart, and the
pairs that meet (two init systems, two mounts under a path, a rule and the fact it reads, a bound
and a step) are varied together. Three parameters give a circle a tail, a circle apart from it
and a rule that reads two others. In `readings`, an answer goes wrong when what one run read is
judged by another, which takes two, and what the second must be excused for, a third; one change
suffices because a property speaks of one reading. Everything a run remembers about the past is on the
host, in the store or in the plan file, so one run identity launched again and again is any
number of runs in turn. Two plans suffice for a host to be left by one and found by another; a
third would meet the same comparisons, each of which is between what is there and what one
document says. Two runs are the least that overlap and the races in the code are between two. A
stored secret is never released, so two passwords leave a fresh one to draw whenever a bug would
draw it. Passwords are interchangeable and `apply_serial` and `apply_overlap` use that symmetry;
`apply_again` checks liveness and does not. The graphs are finite without a depth bound.

**Fairness.** `LiveSpec` assumes a run that was not stopped goes on to its next task (Ansible
runs tasks in order, without waiting for anybody) and ends when it must refuse: weak fairness of
`Task` and `Refuse`. It also assumes the operator launches again, on the plan's own host and with
the warnings acknowledged, whenever that stays possible time after time: strong fairness of
`Relaunch`, because launches without the acknowledgement come in between. That is what
`docs/dev/runbook.md` tells an operator to do, and it is an assumption about people.
`RerunDoesTheRest` further assumes that stops and changes by others end, that the plan file and
the host are what they were, and that no half made cluster is in the way: apply refuses that one
by design, every time. In `PlanStore`, weak fairness of a run's next step. In `Command`, weak
fairness of `SizeOn` alone: a process that computes goes on computing. It makes `Settles` a
statement about the loops of `sizing.py`, which have no bound of their own.

**The refinement.** `KeepsEstate` says that `Apply` implements `Estate` under the mapping at the
end of `Apply.tla`: a data directory that is absent, empty or a placeholder is no cluster, one
half made or torn is begun, and everything else is read off the host, the store and the note.
In `Estate` a secret is kept once, a cluster is given the secret that is kept and no other, one
that is there is never made again, and a note is taken of a plan for a host that is as the plan
says. Writing it showed what had to be allowed: a run that finds a torn data directory takes it
for a cluster and configures it, and fails only when it starts it (`Configure` where a cluster
has merely begun).

## What disagrees

Each of these is a run TLC is expected to refute, and its counterexample is the shortest history
that shows the disagreement.

| Run | What the code does | What is said of it |
| --- | --- | --- |
| `apply_secret_lost` | a secret stored by a run that ended before setting it is never set; the next run ends green | the second run does the rest (`runbook.md`) |
| `apply_restart_lost` | a configuration written by a run that ended before its handlers is never restarted for; the next run ends green | the same, and `handlers/main.yml` |
| `apply_other_plan` | a cluster made with one plan's locale, encoding and checksums is kept under another's | a re-run matches or refuses (ADR-0010) |
| `apply_other_host` | a target named by hand passes every check if it is the same make of machine | the drift check refuses a plan against any other host (`apply.yml`) |
| `plan_store_cut` | a plan file half written is reported as kept from then on | same content by construction (`store.py`) |
| `plan_step_shown` | the plan step runs without `--json` and fails to show the plan it kept | the comment above the task (`plan.yml`) |

Others were met while modelling and are in the models as the code has them, without a run of
their own:

* `cli.py:96` says no invocation ends with anything but its codes. `Unforeseen` in `Command`
  lists what makes one end otherwise, of what the model represents, and `EndsWithACode` shows that list complete
  for the calls checked: a document that is not UTF-8; a moment, in facts or an observation, or the
  day a version's support ends, that has the form of one and is in no calendar (`strptime` at
  `normalize.py:241` and `model.py:137`, `fromisoformat` at `loader.py:440`); a value in a
  profile's file that is none to Python, such as that day without quotes (`loader.py:129`), or
  keys of two kinds its schema does not know (`schema.py:100`); a path
  with a brace left open or a name nobody offers; a test whether a number is in a text; a check's
  condition that does not parse; a setting found at a group of facts, where one of them was not
  reported (`plan.py:157`); a size in bytes that comes out negative. What is outside the list because it is outside
  the model is under *What is not modelled*.
* With the vault store, two runs at once each find no secret and each generate one: running
  `apply_overlap` with `Store = "vault"` refutes `SecretNeverRolls`, though `common/tasks/secret.yml:6`
  says every store keeps the same promise. The file store keeps it.
* A plan's id changes with the day, because the text of a warning about an end of life counts
  days and is under the digest.
* `repo.reachable` looks for the repository's URL before its names are substituted, while the
  question was put, and answered, for the substituted one: a URL with a hole in it blocks.
* A fractional minimum of a parameter counted in whole units is cut to below itself; `WithinBounds`
  is stated of the bound as `sizing.py` cuts it.
* The host an observation names is copied from the plan, so the comparison of hosts cannot fail.
* Mounts are told apart as strings and looked up by components (`/data` and `/data/`).
* A rule whose `applies_to` says no never has its own expression parsed.
* A filesystem that says no size is passed over, as the kernel's own are, and a path on it is
  judged by the one above (`collect.py:309`). `PlanFitsMachine` speaks of filesystems that say
  theirs.

## What is proved

The assumptions of every theorem are those the modules declare of their constants, which TLC
evaluates in every run, and nothing else; a theorem that needs more states it. Every invariant a
passing run checks is stated by a theorem, and so are `NothingDestroyed`, `SecretNeverRolls`, `SameAgain`
and `KeepsEstate`.

### `ApplyProofs`

For every set of hosts, runs, plans and documents, in both stores:

* in **any** circumstances: `TypeCorrect` (`TypeOK`), `NoneUnplanned` (`NoUnplannedCluster`) and
  `NoneDestroyed` (`NothingDestroyed`);
* when **runs take turns** (`InTurn`: no overlap, nobody interferes in mid-run, no target named by hand; `pg_createcluster`
  may still die): `AllVetted`, `NotesAreTrue`, `PasswordsAreStored`, `NoneRolled` and
  `AgainIsTheSame`, that is `Vetted`, `NotedIsApplied`, `PasswordIsStored`, `SecretNeverRolls`
  and `SameAgain`.

What `Apply` assumes of its constants: documents say things about hosts of
the inventory and carry the id of a plan, a document is a plan exactly when that id is its own,
and `None` is none of the values. TLC evaluates them in every run.

The argument. `TypeInv` adds to the types that a run in flight has a plan and a host (`Bound`);
without it `machine[run[r].target]` says nothing. `Told` strengthens `NoUnplannedCluster`: the packaging has been
told on the host of every run past telling it, which a rebuild preserves only because it ends
the runs on that host. `TurnInv` is the invariant of runs that take turns, and each part is
needed for a theorem and for the next part: `OneAtATime`; `Checked`, what the checks a run has
passed established, which stays true because nobody else acts; `Progress`, what the tasks a run
has finished left behind, task by task; `Custody`, which secret a run holds against what the
store holds, in particular that a run that thinks the secret is new is right; and `Stored`, that
a password or a note on record implies a stored secret. `TaskFrame` says once what no task
changes, so that each proof about a step is about the run that takes it. Every lemma about a
step has one case per task. `TypeInv`, `Told` and `TurnInv` were checked with TLC on the estate of
`apply_serial` before they were proved.

With the **file store**, two more, however runs overlap: `NoFileIsRolled` (`SecretNeverRolls`) in
any circumstances, and `FilePasswordsAreStored` (`PasswordIsStored`) where nobody names a target
by hand and no plan file comes to be of another host while a run reads it (`OwnHosts`; the estate
of `apply_overlap` is one). They rest on an invariant of their own, `FileCustody`: a run is on its
plan's host and the password it is about to set is the one in the file, since asking the file
store and storing are one step. The vault store has no such step and no such theorem.

### `EstateProofs`

`EstateIsKept`: while runs take turns, `Spec => KeepsEstate`, that is, `Apply` implements
`Estate`. It uses `TypeInv`, `TurnInv` and `NoneUnplanned` as they are, and one invariant more, `PresentInv`: a
run past making or finding the cluster has one in front of it. One lemma per abstract action
says what a step must do to be it (`SeenCreate`, `SeenConfigure`, ...), and `TaskSeen` and
`BetweenSeen` take the concrete actions one after the other. The note is where the parts meet:
`Note` asks for the plan's configuration and settings, which is `NotedIsApplied` made use of.

### `SizingProofs`

For every set of rules, whatever their formulas say: `TypeCorrect`, `ReadingsAreFinal`,
`ValuesAreWithinBounds`, `OrdersAreFound`, `RingsAreReal`. `Placed` says that what has been put in
order needs only what stands before it, and that no set of rules each needing another of the set
(`Trapped`) has a member in it, so that an order that is complete leaves no such set. `Ringed`
follows the walk that names the circle: each step goes to something the one before needs, and
the ring it closes is itself such a set, so rules are called circular only when they are.
`Computed` says how far evaluation is in the order; `HeldToBounds` is the arithmetic of rounding
and then bounding, in all the units.

Two more say, without fairness, why it ends. `EvaluationsGoOn` (`GoesOn`): wherever the code asks
for the first of some rules there is one, because a rule that is left when no rule is ready waits
for another that is left (`Waited`), which is what the comment in `_cycle` says. And
`EvaluationsComeDown`: each step lowers `Left`, a natural number that the number of rules bounds;
an order and a walk name no parameter twice (`Placed`, `Walked`), so neither is longer than the
rules are many (`NoLongerThanMany`), of which there are finitely many (`WellFormed`). What `Settles` adds is
that a process that can take a step does.

### `LanguageProofs`

Two facts about the language, for every expression Python's grammar can make (`Formed`) that
parsing takes (`Readable`), and every scope. `ValuesUnfold` says what `Values` is, and
`NodeByNode` is the induction both use: over the places of the nodes, as the least place where
something fails.

* `EvaluateIsSafe`: over a scope with no exception in it, an expression that looks for nothing in
  a text evaluates to no exception: to a value, an error or a fact nobody reported.
* `EvaluateFills`: when one scope only fills in what another leaves unreported, an expression
  that comes to an answer over the one that says less comes to the same over the other. This is
  what the three-valued logic of `expressions.py` is for. `Fills` has to allow for groups (whose
  members fill in) and for lists, and `is` is where it could fail: two groups that differ
  only in what nobody said are told apart, so `GroupsPaired` asks of the two scopes that groups
  are the same in the one when they are in the other.

### `CommandProofs`

For every session, profile and machine. `CommandInv` has three parts: `Called` (a call under way is
one of the session's), `Made` (what has been made shows in where the process is) and `Learnt`
(everything in `work` is a function of the inputs and of what was made before: the facts of the
file, the profile of the directory, the request of both, the gates of all three, the plan of the
gates and the sizing). From it:

* `CallsSizeWell`: `TypeOK`, `ReadsFinal`, `WithinBounds`, `OrderIfAny` and `RingIsReal` of the
  sizing inside a call. The invariants of `SizingProofs` are stated of a step of an evaluation
  whoever asks for it (`Evaluation`), and `Command` takes such steps with rules that are
  `WellFormed`, because the profile was read. `CallsSizeToAnEnd` is `GoesOn` and the lowering of
  `Left` in the same place.
* `PlansFitMachines` (`PlanFitsMachine`): `FactsAreHeard` says nothing a gate rests on is lost
  between the machine and the facts, and a plan is made only when nothing blocks (`Learnt`), so
  that each gate, opened, gives one conjunct.

### `EvaluationProofs`

* `CallsEndWithACode` (`EndsWithACode`), under the hypothesis that a formula is evaluated as an
  expression is (`Formula`, a constant of `Sizing`, is `Evaluate` in every run of `Command`). Each
  step raises only what `Unforeseen` lists (`Foreseen`): names of a path were checked when they
  were resolved (`Named`), a parameter that was sized renders (`Measured`), and every scope is one
  `EvaluateIsSafe` takes, the one sizing adds values to among them. What a setting was found at can
  be written down unless its expression may come to a group of facts (`Groups`, a condition on the
  expression alone): nothing but a few names comes to a group (`GroupsComeFrom`), and of those
  that are not listed none has a fact missing in it, because `BuildScope` fills them whole
  (`Wholesome`, `NodeIsWholesome`, `GaplessUnlessGroups`). The theorem is of the calls the model
  represents; the causes it lists are those of `Unforeseen` and no others.
* `NoAnswerIsMissed`, and from it `SilenceIsNoAnswer` (`SilenceDecidesNothing`): the first is of every
  host whose facts say more, the second of the one the runs compare with. The scope of a host that says more fills in that of
  the one that says less, group by group (`Grows`), so contributed rules come to the same by
  `EvaluateFills`; for each shared check there is a lemma of its own.
* `NoLessVerifies`, and from it `LessVerifiesNoMore` (`LessIsNotMore`): the first is of any whole
  sections, settings and emptied lists left out of an observation together, the second of one of these at
  a time, as the runs do. Neither speaks of one entry left out of the paths, the rules, the
  accounts or the unknown parameters: each entry that is given is judged by itself and one that is not
  is not missed, so that an observation with the wrong one left out may verify; for the paths the code
  says that it is meant (`judge.py:205`). `Lessened` says what leaving something out does to an observation, each kind of check passes on the whole if it passes on the less, and a check's
  condition is again `EvaluateFills`. `Noted` is the invariant that the observation was read from
  a file of the session.
* `NothingIsLeftOut` (`NothingUnsaid`): a setting that was not found as it is to be is among the
  changes, wherever in the list (`Flattened`, `SettingsAreChanges`, `ActionsMade`); one that is not
  among them was therefore found; and an expression that reads it finds what the machine said
  (`KernelIsRead`, `FactsAreHeard`).

What these theorems assume of the inputs is `SessionsAssumption`, which TLC evaluates: a machine
gives one answer to a question and sizes that are numbers (`Answerable`); a profile that fits its
schemas has expressions that are trees, conditions and names where the schemas ask for them, one
unit there is for a parameter (`Schematic`); a reading of settings has settings (`Observable`).

### `ReadingsProofs`

For any number of runs, engines, plans, stops and changes: `ReadingsAreTyped`, `AYesWasTrue`,
`ANoWasTrue`, `UnaskedTakesAnother`. The invariant is about where a reading on paper comes from:
`Told`, what a run has read was so in its own flight; `Met`, runs in flight together know of each
other; and `Written`, a run that has written its file finds there what it wrote or what a run
beside it did. The assumptions are that the values for nobody and for the machine are none of
the others, and that a run is launched for an engine or a plan there is.

### `PlanStoreProofs`

For any number of writers and plans: `StoreIsTyped` and `AnnouncedAreKept`. `Decided` says a
writer has a plan, and `Filling` that a file no write of which was cut and which is not whole is
being filled, by the run that emptied it last. That one, and not any other, is the run whose end
makes it whole again.

### What is only model-checked

`RerunDoesTheRest`, `KeptForGood` and `Settles`, which are liveness under fairness and out of the
prover's reach: of a sizing the proofs say that it is right when it ends, that it never lacks a
next step and that there are finitely many, and `Settles` that it ends; of a re-run they say that it undoes nothing and changes nothing twice, and
`RerunDoesTheRest` that some re-run gets there.

## What is not modelled

* **JSON schemas** (`schema.py` and those beside it): a library's work. A document is of the shape
  or not.
* **What Python's types and its machine add to a document**: amounts beyond what a float holds or
  an integer may be printed with, documents nested deeper than the stack, texts with a NUL or half
  a character in them, keys that are not texts where a schema does not look at keys, files nobody may
  open, a schema that is missing, and what printing raises. Each may end a call in an exception nobody
  catches; `EndsWithACode` and `CallsEndWithACode` say nothing of them.
* **Reports** (`report/`): wording and layout, deciding nothing. Two of their functions can fail
  on a value and those failures are modelled where they surface.
* **Asset rendering** (`tools/`), deployment, tests, and the templates rendered into
  configuration files.
* **Finding a profile by an engine's name** (`profiles/locate.py`) and the shape of names that
  become paths (`store.py`): lookups and a regular expression each, without state.
* **One engine's questions to its instance** (`roles/postgresql/tasks/observe.yml`): what an
  instance answers is an input of `Judge`.
* **Owners, modes and encryption** of what apply writes; the repository, its key and the service
  account, which are part of `Install`; several instances on one host.
* **Overlapping runs in the vault store** beyond the history above: the code has no defence there
  and so no property to keep.
