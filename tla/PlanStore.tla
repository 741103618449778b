----------------------------- MODULE PlanStore -----------------------------
(***************************************************************************)
(* basewright/store.py under ansible/playbooks/plan.yml: plans kept under  *)
(* their own ids, by runs of the plan step that know nothing of each other *)
(* and that may decide on the same plan.  A plan file is not written in    *)
(* one step: it is opened, which empties it, and then filled.              *)
(***************************************************************************)
EXTENDS FiniteSets

CONSTANTS
  Keepers,    \* the runs of the plan step in flight
  Plans,      \* the ids of the plans they decide on
  Cut,        \* whether a run may be cut short, by a full disk or by a signal
  None

ASSUME CutAssumption == Cut \in BOOLEAN
ASSUME NobodyAssumption == None \notin Keepers \cup Plans

VARIABLES
  file,       \* file[p]: what is at plans/<p>.json
  opener,     \* opener[p]: the run that emptied it last
  keeper,     \* keeper[k]: where run k is, and the plan it decided on
  announced,  \* the ids somebody has been told are kept
  torn        \* (history) the ids a write of which was cut short

vars == <<file, opener, keeper, announced, torn>>

Steps == {"idle", "keep", "open", "write", "kept", "shown", "failed"}
Writing(p) == {k \in Keepers : keeper[k] = [at |-> "write", plan |-> p]}

Init ==
  /\ file = [p \in Plans |-> "absent"]
  /\ opener = [p \in Plans |-> None]
  /\ keeper = [k \in Keepers |-> [at |-> "idle", plan |-> None]]
  /\ announced = {}
  /\ torn = {}

Go(k, s) == keeper' = [keeper EXCEPT ![k].at = s]

\* Preflight passed and the plan is built: the facts decide which it is.
Produce(k) ==
  /\ keeper[k].at \in {"idle", "shown", "failed"}
  /\ \E p \in Plans : keeper' = [keeper EXCEPT ![k] = [at |-> "keep", plan |-> p]]
  /\ UNCHANGED <<file, opener, announced, torn>>

\* Not the code: what is announced is the run and not the plan.
SaidWho(k, files) ==
  /\ announced' = announced \cup {k}
  /\ Go(k, "kept")
  /\ file' = files

Said(k, files) ==
  /\ announced' = announced \cup {keeper[k].plan}
  /\ Go(k, "kept")
  /\ file' = files

\* Not the code: a plan that is there is written again.
FindAndRewrite(k) ==
  /\ keeper[k].at = "keep" /\ file[keeper[k].plan] # "absent"
  /\ Go(k, "open")
  /\ UNCHANGED <<file, opener, announced, torn>>

\* Writing a plan that is already there is a no-op: whatever is there.
FindKept(k) ==
  /\ keeper[k].at = "keep" /\ file[keeper[k].plan] # "absent"
  /\ Said(k, file)
  /\ UNCHANGED <<opener, torn>>

FindNone(k) ==
  /\ keeper[k].at = "keep" /\ file[keeper[k].plan] = "absent"
  /\ Go(k, "open")
  /\ UNCHANGED <<file, opener, announced, torn>>

Open(k) ==
  /\ keeper[k].at = "open"
  /\ file' = [file EXCEPT ![keeper[k].plan] = "begun"]
  /\ opener' = [opener EXCEPT ![keeper[k].plan] = k]
  /\ Go(k, "write")
  /\ UNCHANGED <<announced, torn>>

\* Not the code: nobody fills all of a file that was ever emptied twice.
FilledInPart(k) == {"whole", file[keeper[k].plan]}

\* The bytes are the same whoever writes them.  The last run to empty the file
\* fills all of it; one that was emptied under may leave a hole in front.
Filled(k) ==
  IF opener[keeper[k].plan] = k THEN {"whole"} ELSE {"whole", file[keeper[k].plan]}
Write(k) ==
  /\ keeper[k].at = "write"
  /\ \E c \in Filled(k) : Said(k, [file EXCEPT ![keeper[k].plan] = c])
  /\ UNCHANGED <<opener, torn>>

\* What the command left on stdout: the artifact if it was asked for it.
Flags == {"--facts", "--engine", "--store"}
Stdout == IF "--json" \in Flags THEN "artifact" ELSE "rendering"

\* plan.yml takes the id out of what was printed, and reads the plan back.
Show(k) ==
  /\ keeper[k].at = "kept"
  /\ Go(k, IF Stdout = "artifact" /\ file[keeper[k].plan] = "whole"
           THEN "shown" ELSE "failed")
  /\ UNCHANGED <<file, opener, announced, torn>>

\* A write that fails, or a run that is killed: nothing is tidied up.
CutShort(k) ==
  /\ Cut
  /\ keeper[k].at \in {"keep", "open", "write", "kept"}
  /\ torn' = torn \cup (IF keeper[k].at = "write" THEN {keeper[k].plan} ELSE {})
  /\ Go(k, "idle")
  /\ UNCHANGED <<file, opener, announced>>

Step(k) == FindKept(k) \/ FindNone(k) \/ Open(k) \/ Write(k) \/ Show(k)
Next == \E k \in Keepers : Produce(k) \/ Step(k) \/ CutShort(k)

\* A run that has decided on a plan goes on to its next step.
Spec == Init /\ [][Next]_vars /\ \A k \in Keepers : WF_vars(Step(k))

-----------------------------------------------------------------------------
TypeOK ==
  /\ file \in [Plans -> {"absent", "begun", "whole"}]
  /\ opener \in [Plans -> Keepers \cup {None}]
  /\ keeper \in [Keepers -> [at : Steps, plan : Plans \cup {None}]]
  /\ announced \subseteq Plans /\ torn \subseteq Plans

\* As long as no write of it is cut short, an id somebody was told is one they
\* can read, or a run is writing it this moment: two runs that both find nothing
\* and both write are no danger to what either announced, and neither is a run
\* cut short anywhere else (store.py, keep).
AnnouncedIsKept ==
  \A p \in announced \ torn : file[p] = "whole" \/ Writing(p) # {}

\* ... and sooner or later everybody can read it, for good.
KeptForGood ==
  \A p \in Plans : <>(p \in announced) /\ [](p \notin torn) => <>[](file[p] = "whole")

\* The file that is already there has the same content by construction, so when
\* nobody is writing, what was announced is whole (store.py, keep).
SameByConstruction ==
  \A p \in announced : Writing(p) = {} => file[p] = "whole"

\* A run of the plan step that kept its plan goes on to show it for approval
\* (plan.yml); it fails at nothing after that.
ShownOnceKept == \A k \in Keepers : keeper[k].at # "failed"
=============================================================================
