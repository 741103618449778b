------------------------------- MODULE Apply -------------------------------
(***************************************************************************)
(* ansible/playbooks/apply.yml and the roles it enters: the one step that  *)
(* changes a machine.  A run is one launch of the playbook; it ends when a *)
(* check refuses, when a task fails, when somebody stops it, or with the   *)
(* note that says which plan the instance is running.  A run that ended    *)
(* may be launched again, against whatever the last one left behind.       *)
(*                                                                         *)
(* Between the runs, people and hosts go on living: a plan file is edited, *)
(* a configuration file is changed by hand, a host is resized, restarted   *)
(* or rebuilt.  What else may happen is the constant Circumstances.        *)
(***************************************************************************)
EXTENDS Drift

CONSTANTS
  Hosts,          \* the machines of the inventory
  Runs,           \* the launches that can be in flight
  Documents,      \* what a plan file may hold
  Plans,          \* the plan ids: the documents whose id is their own digest
  Says,           \* what each document says: see SaysAssumption
  Sections,       \* what a host may turn out to be
  HandWritten,    \* configurations somebody writes by hand
  Secrets,        \* the passwords that can be generated
  Store,          \* common_secret_store
  Circumstances,  \* which of CIRCUMSTANCES may happen
  None

\* Overlap: two launches in flight at once.  MidRun: people and hosts do not
\* wait for a run to end.  OtherHost: basewright_hosts names the target.
\* Interrupted: pg_createcluster is killed half way.
CIRCUMSTANCES == {"Overlap", "MidRun", "OtherHost", "Interrupted"}

\* What each section of the documents can hold.
Inits == {Says[d].init : d \in Documents}
Confs == {Says[d].conf : d \in Documents} \cup HandWritten
Tunables == {Says[d].tunables : d \in Documents}

ASSUME SaysAssumption ==
  /\ Plans \subseteq Documents
  /\ \A d \in Documents :
       /\ Says[d].id \in Plans
       /\ Says[d].id = d <=> d \in Plans
       /\ Says[d].host \in Hosts
       /\ Says[d].section \in Sections
       /\ Says[d].warnings \in BOOLEAN
ASSUME StoreAssumption == Store \in {"file", "vault"}
ASSUME CircumstancesAssumption == Circumstances \subseteq CIRCUMSTANCES
ASSUME NoneAssumption ==
  None \notin Inits \cup Confs \cup Tunables \cup Secrets \cup Documents

VARIABLES
  file,     \* file[p]: the document the store holds under plan p's name
  note,     \* note[h]: instances/<host>/<instance>, the plan last applied
  held,     \* held[h]: the secret stored for the instance on h
  machine,  \* machine[h]: what apply creates and configures on h
  run       \* run[r]: where launch r is, and what it has registered

vars == <<file, note, held, machine, run>>

-----------------------------------------------------------------------------
(* The tasks, in the order the playbook runs them.                         *)

CHECKS == {"readback", "drift", "warnings"}
TOUCHING == {"tell", "install", "layout", "find", "clear", "make", "configure",
             "write", "load", "start", "flush", "held", "secret", "keep", "set", "note"}

\* The data directory: an empty wal directory inside it is a placeholder, an
\* initdb killed before or after it wrote PG_VERSION leaves it partial or torn,
\* and the packaging makes an unplanned cluster where it was not told not to.
DATA == {"absent", "placeholder", "empty", "partial", "torn", "cluster", "unplanned"}
HASVERSION == {"torn", "cluster", "unplanned"}

Machine ==
  [section : Sections, told : BOOLEAN, installed : BOOLEAN, data : DATA,
   init : Inits \cup {None}, conf : Confs \cup {None}, asides : SUBSET Confs,
   running : Confs \cup {None}, sysctl : Tunables \cup {None},
   kernel : Tunables \cup {None}, password : Secrets \cup {None}]

\* A host nobody has applied anything to.
Blank(s) ==
  [section |-> s, told |-> FALSE, installed |-> FALSE, data |-> "absent",
   init |-> None, conf |-> None, asides |-> {}, running |-> None,
   sysctl |-> None, kernel |-> None, password |-> None]

Run ==
  [at : {"idle"} \cup CHECKS \cup TOUCHING, plan : Plans \cup {None},
   target : Hosts \cup {None}, accepted : BOOLEAN, exists : BOOLEAN,
   notified : BOOLEAN, new : BOOLEAN, value : Secrets \cup {None}]

Idle ==
  [at |-> "idle", plan |-> None, target |-> None, accepted |-> FALSE,
   exists |-> FALSE, notified |-> FALSE, new |-> FALSE, value |-> None]

Active(r) == run[r].at # "idle"
Quiet == \A r \in Runs : ~Active(r)

\* basewright_plan is a lookup: every task reads the file again.
Doc(r) == Says[file[run[r].plan]]
On(r) == machine[run[r].target]

\* Whether a pg_createcluster of this run has an empty directory to work in.
CanMake(r) == On(r).data \in {"absent", "empty"}

\* A generated password is none of those anybody still holds.
InUse == {held[h] : h \in Hosts} \cup {machine[h].password : h \in Hosts}
         \cup {run[r].value : r \in Runs}

Init ==
  /\ file = [p \in Plans |-> p]
  /\ note = [h \in Hosts |-> None]
  /\ held = [h \in Hosts |-> None]
  /\ machine \in [Hosts -> {Blank(s) : s \in Sections}]
  /\ run = [r \in Runs |-> Idle]

-----------------------------------------------------------------------------
(* The play: which host, and the checks before a task touches it.          *)

Go(r, s) == run' = [run EXCEPT ![r].at = s]

Launch(r, p, h, ok) ==
  /\ ~Active(r)
  /\ "Overlap" \in Circumstances \/ Quiet
  /\ "OtherHost" \in Circumstances \/ h = Says[file[p]].host
  /\ run' = [run EXCEPT ![r] = [Idle EXCEPT !.at = "readback", !.plan = p,
                                            !.target = h, !.accepted = ok]]
  /\ UNCHANGED <<file, note, held, machine>>

Intact(r) == file[run[r].plan] \in Plans
Fits(r) == Differences(Doc(r).section, On(r).section) = {}
Acknowledged(r) == Doc(r).warnings => run[r].accepted

ReadBack(r) ==
  /\ run[r].at = "readback" /\ Intact(r)
  /\ Go(r, "drift")
  /\ UNCHANGED <<file, note, held, machine>>

\* Not the code: somebody who accepted the warnings is let past the drift check.
CheckDriftUnlessAccepted(r) ==
  /\ run[r].at = "drift" /\ (Fits(r) \/ run[r].accepted)
  /\ Go(r, "warnings")
  /\ UNCHANGED <<file, note, held, machine>>

CheckDrift(r) ==
  /\ run[r].at = "drift" /\ Fits(r)
  /\ Go(r, "warnings")
  /\ UNCHANGED <<file, note, held, machine>>

CheckWarnings(r) ==
  /\ run[r].at = "warnings" /\ Acknowledged(r)
  /\ Go(r, "tell")
  /\ UNCHANGED <<file, note, held, machine>>

-----------------------------------------------------------------------------
(* roles/postgresql packages, roles/common layout, roles/postgresql        *)
(* initialize.                                                             *)

\* Not the code: the packaging is told only where it is already installed.
TellInstalled(r) ==
  /\ run[r].at = "tell"
  /\ machine' = [machine EXCEPT ![run[r].target].told = @ \/ On(r).installed]
  /\ Go(r, "install")
  /\ UNCHANGED <<file, note, held>>

TellPackaging(r) ==
  /\ run[r].at = "tell"
  /\ machine' = [machine EXCEPT ![run[r].target].told = TRUE]
  /\ Go(r, "install")
  /\ UNCHANGED <<file, note, held>>

\* The packaging makes a cluster of its own unless it has been told not to.
Install(r) ==
  /\ run[r].at = "install"
  /\ machine' = [machine EXCEPT ![run[r].target].installed = TRUE,
                                ![run[r].target].data =
                     IF ~On(r).installed /\ ~On(r).told /\ @ = "absent"
                     THEN "unplanned" ELSE @]
  /\ Go(r, "layout")
  /\ UNCHANGED <<file, note, held>>

Layout(r) ==
  /\ run[r].at = "layout"
  /\ machine' = [machine EXCEPT ![run[r].target].data =
                     IF @ \in {"absent", "empty"} THEN "placeholder" ELSE @]
  /\ Go(r, "find")
  /\ UNCHANGED <<file, note, held>>

FindCluster(r) ==
  /\ run[r].at = "find"
  /\ run' = [run EXCEPT ![r].at = "clear", ![r].exists = On(r).data \in HASVERSION]
  /\ UNCHANGED <<file, note, held, machine>>

\* Not the code: the empty wal directory is left where it is.
ClearNothing(r) ==
  /\ run[r].at = "clear"
  /\ Go(r, "make")
  /\ UNCHANGED <<file, note, held, machine>>

\* rmdir: an empty placeholder goes, anything else stays.
ClearPlaceholder(r) ==
  /\ run[r].at = "clear"
  /\ machine' = [machine EXCEPT ![run[r].target].data =
                     IF ~run[r].exists /\ @ = "placeholder" THEN "empty" ELSE @]
  /\ Go(r, "make")
  /\ UNCHANGED <<file, note, held>>

\* Not the code: whatever is in the directory is made over.
MakeOver(r) ==
  /\ run[r].at = "make"
  /\ machine' = [machine EXCEPT ![run[r].target].data = "cluster",
                                ![run[r].target].init = Doc(r).init]
  /\ Go(r, "configure")
  /\ UNCHANGED <<file, note, held>>

MakeCluster(r) ==
  /\ run[r].at = "make" /\ ~run[r].exists /\ CanMake(r)
  /\ machine' = [machine EXCEPT ![run[r].target].data = "cluster",
                                ![run[r].target].init = Doc(r).init]
  /\ Go(r, "configure")
  /\ UNCHANGED <<file, note, held>>

KeepCluster(r) ==
  /\ run[r].at = "make" /\ run[r].exists
  /\ Go(r, "configure")
  /\ UNCHANGED <<file, note, held, machine>>

\* pg_createcluster dies with the data directory begun.
MakeInterrupted(r) ==
  /\ "Interrupted" \in Circumstances
  /\ run[r].at = "make" /\ ~run[r].exists /\ CanMake(r)
  /\ \E left \in {"partial", "torn"} :
       machine' = [machine EXCEPT ![run[r].target].data = left]
  /\ run' = [run EXCEPT ![r] = Idle]
  /\ UNCHANGED <<file, note, held>>

-----------------------------------------------------------------------------
(* Configuration, host settings, and starting the instance.                *)

\* Not the code: no copy is left beside a file that is replaced.
ConfigureOver(r) ==
  /\ run[r].at = "configure"
  /\ machine' = [machine EXCEPT ![run[r].target].conf = Doc(r).conf]
  /\ run' = [run EXCEPT ![r].at = "write",
                        ![r].notified = @ \/ On(r).conf # Doc(r).conf]
  /\ UNCHANGED <<file, note, held>>

\* Not the code: a copy is left beside a file that is not replaced.
ConfigureAside(r) ==
  /\ run[r].at = "configure"
  /\ machine' = [machine EXCEPT ![run[r].target].conf = Doc(r).conf,
                                ![run[r].target].asides = @ \cup ({On(r).conf} \ {None})]
  /\ run' = [run EXCEPT ![r].at = "write",
                        ![r].notified = @ \/ On(r).conf # Doc(r).conf]
  /\ UNCHANGED <<file, note, held>>

\* The handler is notified by a run that changed the file, and by no other.
Configure(r) ==
  /\ run[r].at = "configure"
  /\ LET old == On(r).conf
         new == Doc(r).conf
     IN  /\ machine' = [machine EXCEPT ![run[r].target].conf = new,
                                       ![run[r].target].asides =
                            IF old \notin {None, new} THEN @ \cup {old} ELSE @]
         /\ run' = [run EXCEPT ![r].at = "write",
                               ![r].notified = @ \/ old # new]
  /\ UNCHANGED <<file, note, held>>

\* Not the code: the settings are loaded only by the run that changed the file.
WriteAndNotify(r) ==
  /\ run[r].at = "write"
  /\ machine' = [machine EXCEPT ![run[r].target].sysctl = Doc(r).tunables]
  /\ Go(r, IF On(r).sysctl = Doc(r).tunables THEN "start" ELSE "load")
  /\ UNCHANGED <<file, note, held>>

WriteSettings(r) ==
  /\ run[r].at = "write"
  /\ machine' = [machine EXCEPT ![run[r].target].sysctl = Doc(r).tunables]
  /\ Go(r, "load")
  /\ UNCHANGED <<file, note, held>>

\* Not the code: the wrong file is loaded.
LoadConfiguration(r) ==
  /\ run[r].at = "load"
  /\ machine' = [machine EXCEPT ![run[r].target].kernel = On(r).conf]
  /\ Go(r, "start")
  /\ UNCHANGED <<file, note, held>>

LoadSettings(r) ==
  /\ run[r].at = "load"
  /\ machine' = [machine EXCEPT ![run[r].target].kernel = On(r).sysctl]
  /\ Go(r, "start")
  /\ UNCHANGED <<file, note, held>>

StartInstance(r) ==
  /\ run[r].at = "start" /\ On(r).data = "cluster"
  /\ machine' = [machine EXCEPT ![run[r].target].running =
                     IF @ = None THEN On(r).conf ELSE @]
  /\ Go(r, "flush")
  /\ UNCHANGED <<file, note, held>>

FlushHandlers(r) ==
  /\ run[r].at = "flush"
  /\ machine' = [machine EXCEPT ![run[r].target].running =
                     IF run[r].notified THEN On(r).conf ELSE @]
  /\ run' = [run EXCEPT ![r].at = "held", ![r].notified = FALSE]
  /\ UNCHANGED <<file, note, held>>

-----------------------------------------------------------------------------
(* The secret the plan names: stored once, then set on the cluster.        *)

\* Not the code: a secret is new when the cluster, not the store, lacks it.
FindOnCluster(r) ==
  /\ run[r].at = "held"
  /\ run' = [run EXCEPT ![r].at = "secret", ![r].new = On(r).password = None]
  /\ UNCHANGED <<file, note, held, machine>>

FindSecret(r) ==
  /\ run[r].at = "held"
  /\ run' = [run EXCEPT ![r].at = "secret", ![r].new = held[Doc(r).host] = None]
  /\ UNCHANGED <<file, note, held, machine>>

\* Not the code: what the earlier stat found decides, in this store too.
AskFileStale(r) ==
  /\ Store = "file"
  /\ run[r].at = "secret"
  /\ \E s \in IF run[r].new THEN Secrets \ InUse ELSE {held[Doc(r).host]} :
       /\ held' = [held EXCEPT ![Doc(r).host] = s]
       /\ run' = [run EXCEPT ![r].at = "set", ![r].value = s]
  /\ UNCHANGED <<file, note, machine>>

\* secret_file.yml: one lookup generates, writes and reads.
AskFileStore(r) ==
  /\ Store = "file"
  /\ run[r].at = "secret"
  /\ \E s \in IF held[Doc(r).host] = None THEN Secrets \ InUse ELSE {held[Doc(r).host]} :
       /\ held' = [held EXCEPT ![Doc(r).host] = s]
       /\ run' = [run EXCEPT ![r].at = "set", ![r].value = s]
  /\ UNCHANGED <<file, note, machine>>

\* secret_vault.yml: what the earlier stat found decides, and the write follows.
AskVaultStore(r) ==
  /\ Store = "vault"
  /\ run[r].at = "secret"
  /\ \E s \in IF run[r].new THEN Secrets \ InUse ELSE {held[Doc(r).host]} :
       run' = [run EXCEPT ![r].at = "keep", ![r].value = s]
  /\ UNCHANGED <<file, note, held, machine>>

\* Not the code: the condition on the write the wrong way round.
KeepHeld(r) ==
  /\ run[r].at = "keep"
  /\ held' = [held EXCEPT ![Doc(r).host] = IF run[r].new THEN @ ELSE run[r].value]
  /\ Go(r, "set")
  /\ UNCHANGED <<file, note, machine>>

KeepSecret(r) ==
  /\ run[r].at = "keep"
  /\ held' = [held EXCEPT ![Doc(r).host] = IF run[r].new THEN run[r].value ELSE @]
  /\ Go(r, "set")
  /\ UNCHANGED <<file, note, machine>>

\* ALTER ROLE, only by the run that found the store empty.
SetPassword(r) ==
  /\ run[r].at = "set"
  /\ run[r].new => On(r).running # None
  /\ machine' = [machine EXCEPT ![run[r].target].password =
                     IF run[r].new THEN run[r].value ELSE @]
  /\ Go(r, "note")
  /\ UNCHANGED <<file, note, held>>

\* Not the code: the plan is noted by the name its file was found under.
WriteNoteOfFile(r) ==
  /\ run[r].at = "note"
  /\ note' = [note EXCEPT ![Doc(r).host] = run[r].plan]
  /\ run' = [run EXCEPT ![r] = Idle]
  /\ UNCHANGED <<file, held, machine>>

\* The last task, and the run is over.
WriteNote(r) ==
  /\ run[r].at = "note"
  /\ note' = [note EXCEPT ![Doc(r).host] = Doc(r).id]
  /\ run' = [run EXCEPT ![r] = Idle]
  /\ UNCHANGED <<file, held, machine>>

-----------------------------------------------------------------------------
(* How a run ends early.                                                   *)

End(r) ==
  /\ run' = [run EXCEPT ![r] = Idle]
  /\ UNCHANGED <<file, note, held, machine>>

\* An assertion of the play is false, or a task cannot do what it is asked.
Refuse(r) ==
  /\ \/ run[r].at = "readback" /\ ~Intact(r)
     \/ run[r].at = "drift" /\ ~Fits(r)
     \/ run[r].at = "warnings" /\ ~Acknowledged(r)
     \/ run[r].at = "make" /\ ~run[r].exists /\ ~CanMake(r)
     \/ run[r].at = "start" /\ On(r).data # "cluster"
     \/ run[r].at = "set" /\ run[r].new /\ On(r).running = None
  /\ End(r)

\* Any task may fail for its own reasons, and a run may be stopped.
Stop(r) == Active(r) /\ End(r)

Task(r) ==
  \/ ReadBack(r) \/ CheckDrift(r) \/ CheckWarnings(r)
  \/ TellPackaging(r) \/ Install(r) \/ Layout(r)
  \/ FindCluster(r) \/ ClearPlaceholder(r) \/ MakeCluster(r) \/ KeepCluster(r)
  \/ Configure(r) \/ WriteSettings(r) \/ LoadSettings(r)
  \/ StartInstance(r) \/ FlushHandlers(r)
  \/ FindSecret(r) \/ AskFileStore(r) \/ AskVaultStore(r) \/ KeepSecret(r)
  \/ SetPassword(r) \/ WriteNote(r)

-----------------------------------------------------------------------------
(* What happens to the store and to the hosts between the runs.            *)

Undisturbed == "MidRun" \in Circumstances \/ Quiet

\* A plan file is edited, put back, or replaced by another plan's.
EditPlan(p) ==
  /\ Undisturbed
  /\ \E d \in Documents : file' = [file EXCEPT ![p] = d]
  /\ UNCHANGED <<note, held, machine, run>>

HandEdit(h) ==
  /\ Undisturbed
  /\ \/ /\ machine[h].data = "cluster"
        /\ \E c \in HandWritten : machine' = [machine EXCEPT ![h].conf = c]
     \/ \E t \in Tunables : machine' = [machine EXCEPT ![h].kernel = t]
  /\ UNCHANGED <<file, note, held, run>>

\* More or less memory, another disk, an upgraded system.
ChangeHost(h) ==
  /\ Undisturbed
  /\ \E s \in Sections : machine' = [machine EXCEPT ![h].section = s]
  /\ UNCHANGED <<file, note, held, run>>

\* The unit is enabled and sysctl.d is read when the host comes back.
Reboot(h) ==
  /\ Undisturbed
  /\ machine' = [machine EXCEPT ![h].kernel = machine[h].sysctl,
                                ![h].running =
                     IF @ = None THEN None ELSE machine[h].conf]
  /\ UNCHANGED <<file, note, held, run>>

\* The same name, an empty machine; a run that was on it loses it.
Rebuild(h) ==
  /\ Undisturbed
  /\ \E s \in Sections : machine' = [machine EXCEPT ![h] = Blank(s)]
  /\ run' = [r \in Runs |-> IF run[r].target = h THEN Idle ELSE run[r]]
  /\ UNCHANGED <<file, note, held>>

Between ==
  \/ \E p \in Plans : EditPlan(p)
  \/ \E h \in Hosts : HandEdit(h) \/ ChangeHost(h) \/ Reboot(h) \/ Rebuild(h)

Next ==
  \/ \E r \in Runs, p \in Plans, h \in Hosts, ok \in BOOLEAN : Launch(r, p, h, ok)
  \/ \E r \in Runs : Task(r) \/ MakeInterrupted(r) \/ Refuse(r) \/ Stop(r)
  \/ Between

Spec == Init /\ [][Next]_vars

\* A run that was not stopped goes on to its next task, and the operator
\* launches again, warnings acknowledged, as the runbook says to.
Relaunch == \E r \in Runs, p \in Plans : Launch(r, p, Says[p].host, TRUE)
LiveSpec ==
  /\ Spec
  /\ \A r \in Runs : WF_vars(Task(r)) /\ WF_vars(Refuse(r))
  /\ SF_vars(Relaunch)

-----------------------------------------------------------------------------
(* Properties.                                                             *)

TypeOK ==
  /\ file \in [Plans -> Documents]
  /\ note \in [Hosts -> Plans \cup {None}]
  /\ held \in [Hosts -> Secrets \cup {None}]
  /\ machine \in [Hosts -> Machine]
  /\ run \in [Runs -> Run]

\* Four things are true before a task touches a host (apply.yml, header), and
\* while runs take turns they stay true until the run is over: the document in
\* the store is one its own digest names, it names this host, the host is still
\* the one it was built from, and its warnings were acknowledged.
Vetted ==
  \A r \in Runs : run[r].at \in TOUCHING =>
    Intact(r) /\ Doc(r).host = run[r].target /\ Fits(r) /\ Acknowledged(r)

\* The note is "last, and only if everything above it worked": a run about to
\* write it leaves a cluster with the plan's configuration on disk, the plan's
\* host settings both kept and loaded, a running instance and a stored secret.
NotedIsApplied ==
  \A r \in Runs : run[r].at = "note" =>
    /\ On(r).data = "cluster" /\ On(r).running # None
    /\ On(r).conf = Doc(r).conf
    /\ On(r).sysctl = Doc(r).tunables /\ On(r).kernel = Doc(r).tunables
    /\ held[Doc(r).host] # None

\* No run ever leaves a cluster of the packaging's own making, however many
\* runs were stopped between telling the packaging and installing (packages.yml).
NoUnplannedCluster == \A h \in Hosts : machine[h].data # "unplanned"

\* Whatever was interrupted, rebuilt or run again, a password that is on a
\* cluster is the one the store hands out for it (secret.yml).
PasswordIsStored ==
  \A h \in Hosts : machine[h].password # None => machine[h].password = held[h]

\* A stored secret is never replaced: rolling it would lock out whoever was
\* given the first one (secret_file.yml, secret_vault.yml).
SecretNeverRolls ==
  [][\A h \in Hosts : held[h] # None => held'[h] = held[h]]_vars

\* Apply creates and configures; it does not destroy (ADR-0010).  No task of a
\* run removes or remakes a data directory with anything in it, and none
\* replaces a configuration without a copy of the old one beside it.
NothingDestroyed ==
  [][\A r \in Runs : Task(r) =>
       LET old == machine[run[r].target]
           new == machine'[run[r].target]
       IN  /\ old.data \in HASVERSION \cup {"partial"} =>
                 new.data = old.data /\ new.init = old.init
           /\ old.asides \subseteq new.asides
           /\ old.conf \in {None, new.conf} \cup new.asides]_vars

\* What a completed run of this plan leaves when nobody touches it afterwards.
Settled(r) ==
  /\ On(r).told /\ On(r).installed /\ On(r).data = "cluster"
  /\ On(r).conf = Doc(r).conf /\ On(r).running = Doc(r).conf
  /\ On(r).sysctl = Doc(r).tunables /\ On(r).kernel = Doc(r).tunables
  /\ held[Doc(r).host] # None /\ note[Doc(r).host] = Doc(r).id

\* A second run against an unchanged host with the same plan changes nothing
\* (ADR-0010, "Roles are idempotent").
SameAgain ==
  [][\A r \in Runs : Task(r) /\ Settled(r) => UNCHANGED <<note, held, machine>>]_vars

\* Fix what failed and run it again: the second run does the rest (runbook).
\* Once runs are no longer stopped and nobody touches the host, with the plan as
\* it was approved, the host what it was and no half made cluster on it, some
\* re-run leaves the host as the plan says, and no later one undoes it.
Mishap ==
  \/ Between
  \/ \E r \in Runs : MakeInterrupted(r) \/ (Stop(r) /\ ~Refuse(r))
InOrder(p, h) ==
  /\ file[p] = p
  /\ Differences(Says[p].section, machine[h].section) = {}
  /\ machine[h].data \notin {"partial", "torn", "unplanned"}
AsPlanned(p, h) ==
  /\ machine[h].data = "cluster" /\ machine[h].running # None
  /\ machine[h].conf = Says[p].conf
  /\ machine[h].sysctl = Says[p].tunables /\ machine[h].kernel = Says[p].tunables
  /\ held[h] # None /\ note[h] = p
RerunDoesTheRest ==
  \A p \in Plans : LET h == Says[p].host IN
    <>[][~Mishap]_vars /\ <>[]InOrder(p, h) => <>[]AsPlanned(p, h)

\* What somebody who knows nothing of runs sees of a machine.
Stage(data) ==
  IF data \in {"absent", "placeholder", "empty"} THEN "none"
  ELSE IF data \in {"partial", "torn"} THEN "begun" ELSE "made"
Seen == INSTANCE Estate WITH
  cluster <- [h \in Hosts |-> Stage(machine[h].data)],
  created <- [h \in Hosts |-> machine[h].init],
  conf <- [h \in Hosts |-> machine[h].conf],
  settings <- [h \in Hosts |-> machine[h].kernel],
  secret <- held,
  password <- [h \in Hosts |-> machine[h].password]

\* However many runs there are, wherever they stop and whatever is done by hand
\* between them, all that is seen of it is clusters created once, from a plan;
\* secrets kept for good and passwords that are those secrets; and notes that
\* are true when they are taken (apply.yml, ADR-0010): Estate.
KeepsEstate == Seen!Spec

\* Run again, a run that gets as far as its note has set the secret it stored.
SecretReachesCluster ==
  \A r \in Runs : run[r].at = "note" => On(r).password = held[Doc(r).host]

\* The same, of the configuration: the instance is restarted on what was
\* written, so a finished run leaves no instance running on older values.
RunningIsWritten ==
  \A r \in Runs : run[r].at = "note" => On(r).running = On(r).conf

\* A re-run matches or refuses, with no third outcome (ADR-0010): a finished
\* run leaves a cluster created with what its plan says.
MatchesOrRefuses ==
  \A r \in Runs : run[r].at = "note" => On(r).init = Doc(r).init

\* The drift check refuses a plan against any host but its own (apply.yml).
OnlyItsOwnHost ==
  \A r \in Runs : run[r].at \in TOUCHING => Doc(r).host = run[r].target
=============================================================================
