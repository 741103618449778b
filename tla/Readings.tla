------------------------------ MODULE Readings ------------------------------
(***************************************************************************)
(* ansible/playbooks/gather.yml, preflight.yml, plan.yml and verify.yml    *)
(* against one host, by runs that know nothing of each other.  A run asks  *)
(* the host, one task after the other; writes down what it was told, in a  *)
(* file every run on that host shares; and has the command decide from     *)
(* what the file then holds.  The machine and its instances go on changing.*)
(*                                                                         *)
(* What preflight.yml does is what plan.yml does up to its plan, and the   *)
(* plan a run verifies is one that was read back.  A file is replaced in   *)
(* one step: the template and copy modules rename it there.                *)
(***************************************************************************)
EXTENDS Naturals, FiniteSets

CONSTANTS
  Runs,
  Engines,     \* what can be provisioned
  Reachable,   \* the engines whose repositories the host can reach
  Plans,       \* the plans that were applied
  InstanceOf,  \* InstanceOf[p]: the instance plan p is about
  Launches,    \* what each run may be launched for
  MaxChanges,  \* the changes of the world that are followed
  MaxStops,    \* the runs that may be stopped
  None

Instances == {InstanceOf[p] : p \in Plans}
Things == {"machine"} \cup Instances

\* What is read of a thing, in this order: of a machine, what setup says and what
\* the role's own tasks are answered; of an instance, its unit and its settings.
PARTS == {"early", "late"}
\* fit: what the decision asks for.  odd: answers that contradict each other.
CONDITIONS == {"fit", "unfit", "odd"}
Conditions(t) == IF t = "machine" THEN CONDITIONS ELSE {"fit", "unfit"}

ASSUME NobodyAssumption ==
  /\ None \notin Engines \cup Plans \cup CONDITIONS \cup {"yes", "no", "refused", "stopped"}
  /\ \A E \in SUBSET Engines : E # None
ASSUME InstancesAssumption == "machine" \notin Instances
ASSUME LaunchesAssumption ==
  \A l \in Launches : \A r \in Runs :
    \/ l[r].verb = "gather" /\ l[r].name \in Engines \cup {None}
    \/ l[r].verb = "plan" /\ l[r].name \in Engines
    \/ l[r].verb = "verify" /\ l[r].name \in Plans

VARIABLES
  task,    \* task[r]: the playbook run r is of, and what it was told
  at,      \* at[r]: where it is
  told,    \* told[r]: what it has read and not written
  paper,   \* the two files of the host
  answer,  \* answer[r]: what it ended with
  world,   \* world[t]: what thing t would say of itself now
  changes,
  beside,  \* (history) beside[r]: the runs that were in flight while r was
  since    \* (history) since[r]: what was so of its thing while r was in flight

vars == <<task, at, told, paper, answer, world, changes, beside, since>>

Verifies(r) == task[r].verb = "verify"
Thing(r) == IF Verifies(r) THEN InstanceOf[task[r].name] ELSE "machine"
Asked == {Thing(r) : r \in Runs}
File(r) == IF Verifies(r) THEN "observation" ELSE "facts"
InFlight(r) == at[r] \notin {"idle", "ended"}

Nothing == [name |-> None, early |-> None, late |-> None, answered |-> None]

Init ==
  /\ task \in Launches
  /\ at = [r \in Runs |-> "idle"] /\ told = [r \in Runs |-> Nothing]
  /\ paper = [facts |-> Nothing, observation |-> Nothing]
  /\ answer = [r \in Runs |-> None]
  /\ world \in [Things -> [PARTS -> CONDITIONS]] /\ changes = 0
  /\ \A t \in Things, p \in PARTS :
       world[t][p] \in IF t \in Asked THEN Conditions(t) ELSE {"fit"}
  /\ beside = [r \in Runs |-> {}]
  /\ since = [r \in Runs |-> [p \in PARTS |-> {}]]

Go(r, s) == at' = [at EXCEPT ![r] = s]
End(r, a) == Go(r, "ended") /\ answer' = [answer EXCEPT ![r] = a]
Lived == UNCHANGED <<task, world, changes, beside, since>>

-----------------------------------------------------------------------------
(* The tasks.                                                              *)

Launch(r) ==
  /\ at[r] = "idle"
  /\ Go(r, "early")
  /\ LET others == {s \in Runs : InFlight(s)}
     IN  beside' = [s \in Runs |-> IF s = r THEN others
                                   ELSE IF s \in others THEN beside[s] \cup {r} ELSE beside[s]]
  /\ since' = [since EXCEPT ![r] = [p \in PARTS |-> {world[Thing(r)][p]}]]
  /\ UNCHANGED <<task, told, paper, answer, world, changes>>

Read(r, part, to) ==
  /\ at[r] = part
  /\ told' = [told EXCEPT ![r] = [@ EXCEPT !.name = task[r].name, ![part] = world[Thing(r)][part]]]
  /\ Go(r, to)
  /\ UNCHANGED <<paper, answer>> /\ Lived

\* Not the code: the question is put whether or not an engine was named.
AskAnyway(r) ==
  /\ at[r] = "ask"
  /\ told' = [told EXCEPT ![r].answered = {task[r].name}]
  /\ Go(r, "write")
  /\ UNCHANGED <<paper, answer>> /\ Lived

\* A list of the repositories that answered, and no list when none was named.
AskRepositories(r) ==
  /\ at[r] = "ask"
  /\ told' = [told EXCEPT ![r].answered =
                IF task[r].name = None THEN None ELSE {task[r].name} \cap Reachable]
  /\ Go(r, "write")
  /\ UNCHANGED <<paper, answer>> /\ Lived

\* Not the code: a document that is there already is not written again.
WriteDownOnce(r) ==
  /\ at[r] = "write"
  /\ paper' = IF paper[File(r)] = Nothing THEN [paper EXCEPT ![File(r)] = told[r]] ELSE paper
  /\ told' = [told EXCEPT ![r] = Nothing]
  /\ Go(r, IF Verifies(r) THEN "decide" ELSE "back")
  /\ UNCHANGED answer /\ Lived

WriteDown(r) ==
  /\ at[r] = "write"
  /\ paper' = [paper EXCEPT ![File(r)] = told[r]]
  /\ told' = [told EXCEPT ![r] = Nothing]
  /\ Go(r, IF Verifies(r) THEN "decide" ELSE "back")
  /\ UNCHANGED answer /\ Lived

\* load_facts holds the document to what is possible.
Holds(said) == said.early # "odd" /\ said.late # "odd"

\* The document is read back through the command, and the run fails where it fails.
ReadBack(r) ==
  /\ at[r] = "back"
  /\ IF Holds(paper.facts)
     THEN IF task[r].verb = "gather" THEN End(r, "yes") ELSE Go(r, "decide") /\ UNCHANGED answer
     ELSE End(r, "refused")
  /\ UNCHANGED <<told, paper>> /\ Lived

-----------------------------------------------------------------------------
(* The decision.                                                           *)

Fit(said) == said.early = "fit" /\ said.late = "fit"

\* Not the code: an empty list is no list.
AnsweredIfAny(engine, said) ==
  IF said.answered \in {None, {}} THEN {} ELSE {(engine \in said.answered)}

\* Whether the repository of an engine answered: nothing, when nobody was asked.
Answered(engine, said) ==
  IF said.answered = None THEN {} ELSE {(engine \in said.answered)}

\* Preflight, in the command plan.
Carries(engine, said) ==
  CASE ~Holds(said) -> "refused"
    [] Holds(said) -> IF Fit(said) /\ FALSE \notin Answered(engine, said) THEN "yes" ELSE "no"

\* Not the code: a reading is a reading, of whatever plan it was taken for.
JudgedWhateverItIsOf(plan, said) == IF Fit(said) THEN "yes" ELSE "no"

\* The command verify: what it refuses is a reading of another plan.
Judged(plan, said) ==
  IF said.name # plan THEN "refused" ELSE IF Fit(said) THEN "yes" ELSE "no"

Decide(r) ==
  /\ at[r] = "decide"
  /\ End(r, IF Verifies(r) THEN Judged(task[r].name, paper.observation)
                           ELSE Carries(task[r].name, paper.facts))
  /\ UNCHANGED <<told, paper>> /\ Lived

Step(r) ==
  \/ Read(r, "early", "late")
  \/ Read(r, "late", IF Verifies(r) THEN "write" ELSE "ask")
  \/ AskRepositories(r) \/ WriteDown(r) \/ ReadBack(r) \/ Decide(r)

-----------------------------------------------------------------------------
(* Everything else.                                                        *)

\* A task that cannot reach the host, or a run somebody stops.
Stop(r) ==
  /\ InFlight(r) /\ Cardinality({s \in Runs : answer[s] = "stopped"}) < MaxStops
  /\ End(r, "stopped") /\ told' = [told EXCEPT ![r] = Nothing]
  /\ UNCHANGED paper /\ Lived

Change ==
  /\ changes < MaxChanges
  /\ changes' = changes + 1
  /\ \E t \in Asked, p \in PARTS : \E c \in Conditions(t) :
       /\ world[t][p] # c
       /\ world' = [world EXCEPT ![t][p] = c]
       /\ since' = [r \in Runs |-> IF InFlight(r) /\ Thing(r) = t
                                   THEN [since[r] EXCEPT ![p] = @ \cup {c}] ELSE since[r]]
  /\ UNCHANGED <<task, at, told, paper, answer, beside>>

Next == Change \/ \E r \in Runs : Launch(r) \/ Step(r) \/ Stop(r)

Spec == Init /\ [][Next]_vars
-----------------------------------------------------------------------------
(* What is claimed of it.                                                  *)

Reading == [name : Engines \cup Plans \cup {None}, early : CONDITIONS \cup {None},
            late : CONDITIONS \cup {None}, answered : {None} \cup SUBSET Engines]

TypeOK ==
  /\ at \in [Runs -> {"idle", "early", "late", "ask", "write", "back", "decide", "ended"}]
  /\ told \in [Runs -> Reading] /\ paper \in [{"facts", "observation"} -> Reading]
  /\ answer \in [Runs -> {None, "yes", "no", "refused", "stopped"}]
  /\ beside \in [Runs -> SUBSET Runs]

\* What was so of the thing run r is about, while r or a run beside it was in flight.
Lately(r, p) == UNION {since[s][p] : s \in {t \in {r} \cup beside[r] : Thing(t) = Thing(r)}}

\* A yes is never about another instance, nor about what used to be: whoever
\* wrote the file that was judged, each thing it says was so while this run, or
\* one that was in flight with it, was (plan.yml and verify.yml).
YesWasTrue ==
  \A r \in Runs : answer[r] = "yes" /\ task[r].verb # "gather" =>
    \A p \in PARTS : "fit" \in Lately(r, p)

\* Nor is a no: something was not so, lately, or the repository was not reached,
\* or the file had been written by a run that asked for another engine's.
NoWasTrue ==
  \A r \in Runs : answer[r] = "no" =>
    \/ \E p \in PARTS : "unfit" \in Lately(r, p)
    \/ ~Verifies(r) /\ task[r].name \notin Reachable
    \/ ~Verifies(r) /\ \E s \in beside[r] :
         task[s].verb # "verify" /\ task[s].name \notin {task[r].name, None}

\* A host that cannot reach the repository is let through only while somebody
\* collects its facts without naming an engine (roles/gather).
UnaskedOnlyBeside ==
  \A r \in Runs : answer[r] = "yes" /\ task[r].verb = "plan" =>
    \/ task[r].name \in Reachable
    \/ \E s \in beside[r] : task[s].verb = "gather" /\ task[s].name = None
=============================================================================
