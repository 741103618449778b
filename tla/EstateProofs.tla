---------------------------- MODULE EstateProofs ----------------------------
(***************************************************************************)
(* While runs take turns, what is seen of them is an Estate: every step of *)
(* a run, and of whoever acts between the runs, is a step of it or nothing *)
(* that is seen.                                                           *)
(***************************************************************************)
EXTENDS ApplyProofs

-----------------------------------------------------------------------------
(* A run that found a cluster, or made one, goes on where there is one.    *)

Nowhere == {"absent", "placeholder", "empty"}

Present(r) ==
  /\ run[r].at \in {"clear", "make"} /\ run[r].exists => On(r).data \in HASVERSION
  /\ run[r].at \in {"configure"} \cup AfterConfigure => On(r).data \notin Nowhere

PresentInv == \A r \in Runs : Present(r)

LEMMA TaskPresent ==
  ASSUME TypeInv, NEW r \in Runs, Task(r), Present(r), Active(r)'
  PROVE  Present(r)'
<1>s. /\ run[r].target \in Hosts
      /\ On(r)' = machine'[run[r].target] /\ machine[run[r].target] \in Machine
  BY SameDocument, TaskFrame, DocSays DEF On
<1>t. run \in [Runs -> Run] /\ machine \in [Hosts -> Machine]
  BY DEF TypeInv, TypeOK
<1> USE DEF Present, Run, Machine, AfterConfigure, Nowhere, HASVERSION, On
<1>1. CASE ReadBack(r)
  BY <1>1, <1>s, <1>t DEF ReadBack, Go
<1>2. CASE CheckDrift(r)
  BY <1>2, <1>s, <1>t DEF CheckDrift, Go
<1>3. CASE CheckWarnings(r)
  BY <1>3, <1>s, <1>t DEF CheckWarnings, Go
<1>4. CASE TellPackaging(r)
  BY <1>4, <1>s, <1>t DEF TellPackaging, Go
<1>5. CASE Install(r)
  BY <1>5, <1>s, <1>t DEF Install, Go
<1>6. CASE Layout(r)
  BY <1>6, <1>s, <1>t DEF Layout, Go
<1>7. CASE FindCluster(r)
  <2>1. ASSUME NEW b \in BOOLEAN, b => On(r).data \in HASVERSION,
               run' = [run EXCEPT ![r].at = "clear", ![r].exists = b], machine' = machine
        PROVE  Present(r)'
    BY <2>1, <1>s, <1>t
  <2>2. (On(r).data \in HASVERSION) \in BOOLEAN
    OBVIOUS
  <2> QED BY <1>7, <2>1, <2>2, Zenon DEF FindCluster
<1>8. CASE ClearPlaceholder(r)
  BY <1>8, <1>s, <1>t DEF ClearPlaceholder, Go
<1>9. CASE MakeCluster(r)
  BY <1>9, <1>s, <1>t DEF MakeCluster, Go
<1>10. CASE KeepCluster(r)
  BY <1>10, <1>s, <1>t DEF KeepCluster, Go
<1>11. CASE Configure(r)
  BY <1>11, <1>s, <1>t DEF Configure, Go
<1>12. CASE WriteSettings(r)
  BY <1>12, <1>s, <1>t DEF WriteSettings, Go
<1>13. CASE LoadSettings(r)
  BY <1>13, <1>s, <1>t DEF LoadSettings, Go
<1>14. CASE StartInstance(r)
  BY <1>14, <1>s, <1>t DEF StartInstance, Go
<1>15. CASE FlushHandlers(r)
  BY <1>15, <1>s, <1>t DEF FlushHandlers, Go
<1>16. CASE FindSecret(r)
  BY <1>16, <1>s, <1>t DEF FindSecret, Go
<1>17. CASE AskFileStore(r)
  BY <1>17, <1>s, <1>t DEF AskFileStore, Go
<1>18. CASE AskVaultStore(r)
  BY <1>18, <1>s, <1>t DEF AskVaultStore, Go
<1>19. CASE KeepSecret(r)
  BY <1>19, <1>s, <1>t DEF KeepSecret, Go
<1>20. CASE SetPassword(r)
  BY <1>20, <1>s, <1>t DEF SetPassword, Go
<1>21. CASE WriteNote(r)
  BY <1>21, <1>t DEF WriteNote, Active, Idle
<1> QED
  BY <1>1, <1>2, <1>3, <1>4, <1>5, <1>6, <1>7, <1>8, <1>9, <1>10, <1>11, <1>12, <1>13, <1>14, <1>15, <1>16, <1>17, <1>18, <1>19, <1>20, <1>21 DEF Task

LEMMA PresentWhenOver ==
  ASSUME NEW r \in Runs, ~Active(r)' PROVE Present(r)'
BY DEF Active, Present, AfterConfigure

\* What ends a run, and what waits for runs to end, leaves nobody in flight.
LEMMA NobodyLeft ==
  ASSUME InTurn, TypeInv, TurnInv,
         Between \/ \E r \in Runs : Refuse(r) \/ Stop(r) \/ MakeInterrupted(r)
  PROVE  \A r \in Runs : ~Active(r)'
<1>1. CASE Between
  <2>1. Quiet
    BY <1>1 DEF Between, EditPlan, HandEdit, ChangeHost, Reboot, Rebuild, Undisturbed, InTurn
  <2> QED BY <1>1, <2>1, IdleIsRun
          DEF Between, EditPlan, HandEdit, ChangeHost, Reboot, Rebuild, Quiet, Active
<1>2. ASSUME NEW r \in Runs, Refuse(r) \/ Stop(r) \/ MakeInterrupted(r)
      PROVE  \A s \in Runs : ~Active(s)'
  <2>1. Active(r) /\ run' = [run EXCEPT ![r] = Idle]
    BY <1>2 DEF Refuse, Stop, MakeInterrupted, End, Active
  <2> QED BY <2>1, IdleIsRun DEF TypeInv, TypeOK, TurnInv, OneAtATime, Active
<1> QED BY <1>1, <1>2

LEMMA StepPresent ==
  ASSUME InTurn, TypeInv, TurnInv, PresentInv, [Next]_vars
  PROVE  PresentInv'
<1>1. ASSUME NEW r \in Runs, NEW p \in Plans, NEW h \in Hosts, NEW ok \in BOOLEAN,
             Launch(r, p, h, ok)
      PROVE  PresentInv'
  <2>1. \A s \in Runs \ {r} : ~Active(s)'
    BY <1>1 DEF TypeInv, TypeOK, Launch, Quiet, Active, InTurn
  <2>2. run'[r].at = "readback"
    BY <1>1 DEF TypeInv, TypeOK, Launch, Idle
  <2> QED BY <2>1, <2>2, PresentWhenOver DEF PresentInv, Present, AfterConfigure
<1>2. ASSUME NEW r \in Runs, Task(r) PROVE PresentInv'
  <2>1. \A s \in Runs \ {r} : ~Active(s)'
    BY <1>2, TaskFrame, OthersIdle DEF TurnInv, Frame
  <2>2. Present(r)'
    BY <1>2, TaskPresent, PresentWhenOver DEF PresentInv
  <2> QED BY <2>1, <2>2, PresentWhenOver DEF PresentInv
<1>3. CASE Between \/ \E r \in Runs : Refuse(r) \/ Stop(r) \/ MakeInterrupted(r)
  BY <1>3, NobodyLeft, PresentWhenOver DEF PresentInv
<1>4. CASE UNCHANGED vars
  BY <1>4 DEF vars, PresentInv, Present, On
<1> QED BY <1>1, <1>2, <1>3, <1>4 DEF Next

LEMMA PresentAlways == InTurn /\ Spec => []PresentInv
<1>1. Init => PresentInv
  BY DEF Init, PresentInv, Present, Idle, AfterConfigure
<1>2. InTurn /\ TypeInv /\ TurnInv /\ PresentInv /\ [Next]_vars => PresentInv'
  BY StepPresent
<1>3. InTurn => InTurn'
  BY DEF InTurn
<1> QED BY <1>1, <1>2, <1>3, Turns, PTL DEF Spec

-----------------------------------------------------------------------------
(* The steps that are seen.                                                *)

\* What is seen of a machine.
Look(m) == [cluster |-> Stage(m.data), created |-> m.init, conf |-> m.conf,
            settings |-> m.kernel, password |-> m.password]

\* Every machine but one looks as it did.
OnlyAt(t) == \A h \in Hosts \ {t} : Look(machine'[h]) = Look(machine[h])

LEMMA Unseen ==
  ASSUME \A h \in Hosts : Look(machine'[h]) = Look(machine[h]), UNCHANGED <<held, note>>
  PROVE  UNCHANGED Seen!all
BY DEF Look, Seen!all

LEMMA SeenTune ==
  ASSUME NEW t \in Hosts, OnlyAt(t), NEW k \in Tunables \cup {None},
         Look(machine'[t]) = [Look(machine[t]) EXCEPT !.settings = k],
         UNCHANGED <<held, note>>
  PROVE  Seen!Tune(t)
<1>1. /\ machine'[t].kernel = k /\ Stage(machine'[t].data) = Stage(machine[t].data)
      /\ machine'[t].init = machine[t].init /\ machine'[t].conf = machine[t].conf
      /\ machine'[t].password = machine[t].password
  BY DEF Look
<1>2. \A h \in Hosts \ {t} :
        /\ machine'[h].kernel = machine[h].kernel
        /\ Stage(machine'[h].data) = Stage(machine[h].data)
        /\ machine'[h].init = machine[h].init /\ machine'[h].conf = machine[h].conf
        /\ machine'[h].password = machine[h].password
  BY DEF Look, OnlyAt
<1>3. [h \in Hosts |-> machine'[h].kernel]
        = [[h \in Hosts |-> machine[h].kernel] EXCEPT ![t] = k]
  BY <1>1, <1>2
<1> QED BY <1>1, <1>2, <1>3 DEF Seen!Tune

LEMMA SeenConfigure ==
  ASSUME NEW t \in Hosts, OnlyAt(t), Stage(machine[t].data) # "none",
         NEW c \in {Says[p].conf : p \in Plans} \cup HandWritten,
         Look(machine'[t]) = [Look(machine[t]) EXCEPT !.conf = c],
         UNCHANGED <<held, note>>
  PROVE  Seen!Configure(t)
<1>1. /\ machine'[t].conf = c /\ Stage(machine'[t].data) = Stage(machine[t].data)
      /\ machine'[t].init = machine[t].init /\ machine'[t].kernel = machine[t].kernel
      /\ machine'[t].password = machine[t].password
  BY DEF Look
<1>2. \A h \in Hosts \ {t} :
        /\ machine'[h].kernel = machine[h].kernel
        /\ Stage(machine'[h].data) = Stage(machine[h].data)
        /\ machine'[h].init = machine[h].init /\ machine'[h].conf = machine[h].conf
        /\ machine'[h].password = machine[h].password
  BY DEF Look, OnlyAt
<1>3. [h \in Hosts |-> machine'[h].conf]
        = [[h \in Hosts |-> machine[h].conf] EXCEPT ![t] = c]
  BY <1>1, <1>2
<1> QED BY <1>1, <1>2, <1>3 DEF Seen!Configure

\* How a machine looks once a cluster was created on it from a plan.
Created(t, p) ==
  [cluster |-> "made", created |-> Says[p].init, conf |-> machine[t].conf,
   settings |-> machine[t].kernel, password |-> machine[t].password]

LEMMA SeenCreate ==
  ASSUME NEW t \in Hosts, OnlyAt(t), Stage(machine[t].data) = "none",
         \/ \E p \in Plans : Look(machine'[t]) = Created(t, p)
         \/ Look(machine'[t]) = [Look(machine[t]) EXCEPT !.cluster = "begun"],
         UNCHANGED <<held, note>>
  PROVE  Seen!Create(t)
<1>1. /\ machine'[t].conf = machine[t].conf /\ machine'[t].kernel = machine[t].kernel
      /\ machine'[t].password = machine[t].password
  BY DEF Look, Created
<1>2. \A h \in Hosts \ {t} :
        /\ machine'[h].kernel = machine[h].kernel
        /\ Stage(machine'[h].data) = Stage(machine[h].data)
        /\ machine'[h].init = machine[h].init /\ machine'[h].conf = machine[h].conf
        /\ machine'[h].password = machine[h].password
  BY DEF Look, OnlyAt
<1>3. CASE Look(machine'[t]) = [Look(machine[t]) EXCEPT !.cluster = "begun"]
  <2>1. Stage(machine'[t].data) = "begun" /\ machine'[t].init = machine[t].init
    BY <1>3 DEF Look
  <2>2. [h \in Hosts |-> Stage(machine'[h].data)]
          = [[h \in Hosts |-> Stage(machine[h].data)] EXCEPT ![t] = "begun"]
    BY <1>2, <2>1
  <2> QED BY <1>1, <1>2, <2>1, <2>2 DEF Seen!Create
<1>4. ASSUME NEW p \in Plans,
             Look(machine'[t]) = Created(t, p)
      PROVE  Seen!Create(t)
  <2>1. Stage(machine'[t].data) = "made" /\ machine'[t].init = Says[p].init
    BY <1>4 DEF Look, Created
  <2>2. [h \in Hosts |-> Stage(machine'[h].data)]
          = [[h \in Hosts |-> Stage(machine[h].data)] EXCEPT ![t] = "made"]
    BY <1>2, <2>1
  <2>3. [h \in Hosts |-> machine'[h].init]
          = [[h \in Hosts |-> machine[h].init] EXCEPT ![t] = Says[p].init]
    BY <1>2, <2>1
  <2>4. /\ [h \in Hosts |-> machine'[h].conf] = [h \in Hosts |-> machine[h].conf]
        /\ [h \in Hosts |-> machine'[h].kernel] = [h \in Hosts |-> machine[h].kernel]
        /\ [h \in Hosts |-> machine'[h].password] = [h \in Hosts |-> machine[h].password]
    BY <1>1, <1>2
  <2>5. [h \in Hosts |-> Stage(machine[h].data)][t] = "none"
    OBVIOUS
  <2> QED BY <2>2, <2>3, <2>4, <2>5, Zenon DEF Seen!Create
<1> QED BY <1>3, <1>4

LEMMA SeenGive ==
  ASSUME NEW t \in Hosts, OnlyAt(t), Stage(machine[t].data) = "made", held[t] # None,
         Look(machine'[t]) = [Look(machine[t]) EXCEPT !.password = held[t]],
         UNCHANGED <<held, note>>
  PROVE  Seen!Give(t)
BY DEF Look, OnlyAt, Seen!Give

LEMMA SeenReplace ==
  ASSUME NEW t \in Hosts, OnlyAt(t),
         Look(machine'[t]) = [cluster |-> "none", created |-> None, conf |-> None,
                              settings |-> None, password |-> None],
         UNCHANGED <<held, note>>
  PROVE  Seen!Replace(t)
BY DEF Look, OnlyAt, Seen!Replace

LEMMA SeenKeep ==
  ASSUME TypeInv, NEW t \in Hosts, held[t] = None, NEW s \in Secrets,
         held' = [held EXCEPT ![t] = s], UNCHANGED <<machine, note>>
  PROVE  Seen!Keep(t)
BY DEF Seen!Keep

LEMMA SeenNote ==
  ASSUME NEW t \in Hosts, Stage(machine[t].data) = "made", held[t] # None,
         NEW p \in Plans, Says[p].host = t, machine[t].conf = Says[p].conf,
         machine[t].kernel = Says[p].tunables, note' = [note EXCEPT ![t] = p],
         UNCHANGED <<machine, held>>
  PROVE  Seen!Note(t)
BY DEF Seen!Note

LEMMA TaskSeen ==
  ASSUME TypeInv, TurnInv, PresentInv, NoUnplannedCluster', NEW r \in Runs, Task(r)
  PROVE  UNCHANGED Seen!all \/ \E h \in Hosts :
           \/ Seen!Create(h) \/ Seen!Configure(h) \/ Seen!Tune(h) \/ Seen!Keep(h)
           \/ Seen!Give(h) \/ Seen!Note(h)
<1> DEFINE t == run[r].target
<1>1. /\ t \in Hosts /\ OnlyAt(t) /\ Active(r) /\ run[r] \in Run
      /\ machine \in [Hosts -> Machine] /\ machine[t] \in Machine
      /\ held \in [Hosts -> Secrets \cup {None}] /\ None \notin Secrets
  BY TaskFrame, NoneAssumption DEF TypeInv, TypeOK, Frame, OnlyAt
<1>2. Checked(r) /\ Progress(r) /\ Custody(r) /\ Present(r) /\ Doc(r).host = t
  BY <1>1 DEF TurnInv, PresentInv, Checked
<1>3. run[r].at \in TOUCHING =>
        \E p \in Plans : Doc(r) = Says[p] /\ Doc(r).id = p
  BY <1>2, SaysAssumption DEF Checked, Intact, Doc, TOUCHING, CHECKS
<1>4. ASSUME Look(machine'[t]) = Look(machine[t]), UNCHANGED <<held, note>>
      PROVE  UNCHANGED Seen!all
  BY <1>1, <1>4, Unseen DEF OnlyAt
<1>5. ASSUME UNCHANGED <<machine, held, note>> PROVE UNCHANGED Seen!all
  BY <1>5, Unseen
<1>6. CASE \/ ReadBack(r) \/ CheckDrift(r) \/ CheckWarnings(r) \/ FindCluster(r)
           \/ KeepCluster(r) \/ FindSecret(r) \/ AskVaultStore(r)
  BY <1>5, <1>6 DEF ReadBack, CheckDrift, CheckWarnings, FindCluster, KeepCluster,
                    FindSecret, AskVaultStore
<1>7. CASE TellPackaging(r) \/ WriteSettings(r)
  <2>1. Look(machine'[t]) = Look(machine[t])
    BY <1>1, <1>7 DEF TellPackaging, WriteSettings, Look, Machine
  <2> QED BY <1>4, <1>7, <2>1 DEF TellPackaging, WriteSettings
<1>8. CASE Install(r)
  <2>1. machine'[t].data = machine[t].data
    BY <1>1, <1>8 DEF Install, Machine, NoUnplannedCluster
  <2>2. /\ machine'[t].init = machine[t].init /\ machine'[t].conf = machine[t].conf
        /\ machine'[t].kernel = machine[t].kernel /\ machine'[t].password = machine[t].password
    BY <1>1, <1>8 DEF Install, Machine
  <2> QED BY <1>4, <1>8, <2>1, <2>2 DEF Install, Look
<1>9. CASE Layout(r) \/ ClearPlaceholder(r)
  <2>1. Stage(machine'[t].data) = Stage(machine[t].data)
    BY <1>1, <1>9 DEF Layout, ClearPlaceholder, Machine, Stage
  <2>2. /\ machine'[t].init = machine[t].init /\ machine'[t].conf = machine[t].conf
        /\ machine'[t].kernel = machine[t].kernel /\ machine'[t].password = machine[t].password
    BY <1>1, <1>9 DEF Layout, ClearPlaceholder, Machine
  <2> QED BY <1>4, <1>9, <2>1, <2>2 DEF Layout, ClearPlaceholder, Look
<1>10. CASE StartInstance(r) \/ FlushHandlers(r)
  <2>1. Look(machine'[t]) = Look(machine[t])
    BY <1>1, <1>10 DEF StartInstance, FlushHandlers, Look, Machine
  <2> QED BY <1>4, <1>10, <2>1 DEF StartInstance, FlushHandlers
<1>11. CASE MakeCluster(r)
  <2>1. PICK p \in Plans : Doc(r) = Says[p]
    BY <1>3, <1>11 DEF MakeCluster, TOUCHING
  <2>2. Look(machine'[t]) = Created(t, p)
    <3>1. /\ machine'[t].data = "cluster" /\ machine'[t].init = Says[p].init
          /\ machine'[t].conf = machine[t].conf /\ machine'[t].kernel = machine[t].kernel
          /\ machine'[t].password = machine[t].password
      BY <1>1, <1>11, <2>1 DEF MakeCluster, Machine
    <3>2. Stage(machine'[t].data) = "made"
      BY <3>1 DEF Stage
    <3> QED BY <3>1, <3>2 DEF Look, Created
  <2>3. Stage(machine[t].data) = "none"
    BY <1>11 DEF MakeCluster, CanMake, On, Stage
  <2> QED BY <1>1, <1>11, <2>2, <2>3, SeenCreate DEF MakeCluster
<1>12. CASE Configure(r)
  <2>1. Doc(r).conf \in {Says[p].conf : p \in Plans} \cup HandWritten
    BY <1>3, <1>12 DEF Configure, TOUCHING
  <2>2. Look(machine'[t]) = [Look(machine[t]) EXCEPT !.conf = Doc(r).conf]
    BY <1>1, <1>12 DEF Configure, Look, Machine
  <2>3. Stage(machine[t].data) # "none"
    BY <1>2, <1>12 DEF Configure, Present, On, Nowhere, Stage
  <2> QED BY <1>1, <1>12, <2>1, <2>2, <2>3, SeenConfigure DEF Configure
<1>13. CASE LoadSettings(r)
  <2>1. On(r).sysctl \in Tunables \cup {None}
    BY <1>1 DEF On, Machine
  <2>2. Look(machine'[t]) = [Look(machine[t]) EXCEPT !.settings = On(r).sysctl]
    BY <1>1, <1>13 DEF LoadSettings, Look, Machine
  <2> QED BY <1>1, <1>13, <2>1, <2>2, SeenTune DEF LoadSettings
<1>14. CASE AskFileStore(r)
  <2>1. PICK s : /\ held' = [held EXCEPT ![t] = s]
                 /\ s \in IF held[t] = None THEN Secrets \ InUse ELSE {held[t]}
    BY <1>2, <1>14 DEF AskFileStore
  <2>2. CASE held[t] = None
    <3>1. s \in Secrets
      BY <2>1, <2>2
    <3> QED BY <1>1, <1>14, <2>1, <2>2, <3>1, SeenKeep DEF AskFileStore
  <2>3. CASE held[t] # None
    <3>1. held' = held
      BY <1>1, <2>1, <2>3
    <3> QED BY <1>5, <1>14, <3>1 DEF AskFileStore
  <2> QED BY <2>2, <2>3
<1>15. CASE KeepSecret(r)
  <2>1. CASE run[r].new
    <3>1. held[t] = None /\ run[r].value \in Secrets
      BY <1>1, <1>2, <1>15, <2>1 DEF KeepSecret, Custody, Run
    <3>2. held' = [held EXCEPT ![t] = run[r].value]
      BY <1>2, <1>15, <2>1 DEF KeepSecret
    <3> QED BY <1>1, <1>15, <3>1, <3>2, SeenKeep DEF KeepSecret
  <2>2. CASE ~run[r].new
    <3>1. held' = held
      BY <1>1, <1>2, <1>15, <2>2 DEF KeepSecret
    <3> QED BY <1>5, <1>15, <3>1 DEF KeepSecret
  <2> QED BY <2>1, <2>2
<1>16. CASE SetPassword(r)
  <2>1. CASE run[r].new
    <3>1. /\ run[r].value = held[t] /\ held[t] # None /\ machine[t].data = "cluster"
      BY <1>2, <1>16, <2>1 DEF SetPassword, Custody, Progress, On, AfterConfigure, AfterWrite,
                               AfterLoad, AfterStart
    <3>2. Look(machine'[t]) = [Look(machine[t]) EXCEPT !.password = held[t]]
      BY <1>1, <1>16, <2>1, <3>1 DEF SetPassword, Look, Machine
    <3> QED BY <1>1, <1>16, <3>1, <3>2, SeenGive DEF SetPassword, Stage
  <2>2. CASE ~run[r].new
    <3>1. Look(machine'[t]) = Look(machine[t])
      BY <1>1, <1>16, <2>2 DEF SetPassword, Look, Machine
    <3> QED BY <1>4, <1>16, <3>1 DEF SetPassword
  <2> QED BY <2>1, <2>2
<1>17. CASE WriteNote(r)
  <2>1. PICK p \in Plans : Doc(r) = Says[p] /\ Doc(r).id = p
    BY <1>3, <1>17 DEF WriteNote, TOUCHING
  <2>2. /\ machine[t].data = "cluster" /\ held[t] # None
        /\ machine[t].conf = Says[p].conf /\ machine[t].kernel = Says[p].tunables
    BY <1>2, <1>17, <2>1 DEF WriteNote, Custody, Progress, On, AfterConfigure, AfterWrite,
                             AfterLoad, AfterStart
  <2>3. Says[p].host = t /\ note' = [note EXCEPT ![t] = p]
    BY <1>2, <1>17, <2>1 DEF WriteNote
  <2> QED BY <1>1, <1>17, <2>2, <2>3, SeenNote DEF WriteNote, Stage
<1> QED
  BY <1>6, <1>7, <1>8, <1>9, <1>10, <1>11, <1>12, <1>13, <1>14, <1>15, <1>16, <1>17 DEF Task

LEMMA BetweenSeen ==
  ASSUME TypeInv, Between
  PROVE  UNCHANGED Seen!all \/ \E h \in Hosts :
           Seen!Configure(h) \/ Seen!Tune(h) \/ Seen!Replace(h)
<1>1. machine \in [Hosts -> Machine]
  BY DEF TypeInv, TypeOK
<1>2. CASE \E p \in Plans : EditPlan(p)
  BY <1>2, Unseen DEF EditPlan
<1>3. ASSUME NEW t \in Hosts, HandEdit(t) PROVE Seen!Configure(t) \/ Seen!Tune(t)
  <2>1. UNCHANGED <<held, note>>
    BY <1>3 DEF HandEdit
  <2>2. ASSUME machine[t].data = "cluster", NEW c \in HandWritten,
               machine' = [machine EXCEPT ![t].conf = c]
        PROVE  Seen!Configure(t)
    <3>1. OnlyAt(t) /\ Look(machine'[t]) = [Look(machine[t]) EXCEPT !.conf = c]
      BY <1>1, <2>2 DEF OnlyAt, Look, Machine
    <3>2. Stage(machine[t].data) # "none"
      BY <2>2 DEF Stage
    <3> QED BY <2>1, <3>1, <3>2, SeenConfigure
  <2>3. ASSUME NEW k \in Tunables, machine' = [machine EXCEPT ![t].kernel = k]
        PROVE  Seen!Tune(t)
    <3>1. OnlyAt(t) /\ Look(machine'[t]) = [Look(machine[t]) EXCEPT !.settings = k]
      BY <1>1, <2>3 DEF OnlyAt, Look, Machine
    <3> QED BY <2>1, <3>1, SeenTune
  <2> QED BY <1>3, <2>2, <2>3 DEF HandEdit
<1>4. CASE \E h \in Hosts : ChangeHost(h)
  <2>1. \A h \in Hosts : Look(machine'[h]) = Look(machine[h])
    BY <1>1, <1>4 DEF ChangeHost, Look, Machine
  <2> QED BY <1>4, <2>1, Unseen DEF ChangeHost
<1>5. ASSUME NEW t \in Hosts, Reboot(t) PROVE Seen!Tune(t)
  <2>1. OnlyAt(t) /\ Look(machine'[t]) = [Look(machine[t]) EXCEPT !.settings = machine[t].sysctl]
    BY <1>1, <1>5 DEF Reboot, OnlyAt, Look, Machine
  <2>2. machine[t].sysctl \in Tunables \cup {None}
    BY <1>1 DEF Machine
  <2> QED BY <1>5, <2>1, <2>2, SeenTune DEF Reboot
<1>6. ASSUME NEW t \in Hosts, Rebuild(t) PROVE Seen!Replace(t)
  <2>1. /\ OnlyAt(t)
        /\ Look(machine'[t]) = [cluster |-> "none", created |-> None, conf |-> None,
                                settings |-> None, password |-> None]
    BY <1>1, <1>6 DEF Rebuild, OnlyAt, Look, Blank, Stage
  <2> QED BY <1>6, <2>1, SeenReplace DEF Rebuild
<1> QED BY <1>2, <1>3, <1>4, <1>5, <1>6 DEF Between

LEMMA StepSeen ==
  ASSUME TypeInv, TurnInv, PresentInv, NoUnplannedCluster', [Next]_vars
  PROVE  [Seen!Next]_(Seen!all)
<1>1. ASSUME NEW r \in Runs, NEW p \in Plans, NEW h \in Hosts, NEW ok \in BOOLEAN,
             Launch(r, p, h, ok)
      PROVE  UNCHANGED Seen!all
  BY <1>1, Unseen DEF Launch
<1>2. ASSUME NEW r \in Runs, Task(r) PROVE [Seen!Next]_(Seen!all)
  BY <1>2, TaskSeen DEF Seen!Next
<1>3. ASSUME NEW r \in Runs, MakeInterrupted(r) PROVE Seen!Next
  <2> DEFINE t == run[r].target
  <2>1. t \in Hosts /\ machine \in [Hosts -> Machine]
    BY <1>3 DEF MakeInterrupted, TypeInv, TypeOK, Bound, Active
  <2>2. OnlyAt(t) /\ Look(machine'[t]) = [Look(machine[t]) EXCEPT !.cluster = "begun"]
    BY <1>3, <2>1 DEF MakeInterrupted, OnlyAt, Look, Machine, Stage
  <2>3. Stage(machine[t].data) = "none" /\ UNCHANGED <<held, note>>
    BY <1>3 DEF MakeInterrupted, CanMake, On, Stage
  <2> QED BY <2>1, <2>2, <2>3, SeenCreate DEF Seen!Next
<1>4. ASSUME NEW r \in Runs, Refuse(r) \/ Stop(r) PROVE UNCHANGED Seen!all
  BY <1>4, Unseen DEF Refuse, Stop, End
<1>5. CASE Between
  BY <1>5, BetweenSeen DEF Seen!Next
<1>6. CASE UNCHANGED vars
  BY <1>6, Unseen DEF vars
<1> QED BY <1>1, <1>2, <1>3, <1>4, <1>5, <1>6 DEF Next

\* While runs take turns, whatever the inventory, the plans and the store are:
\* runs that stop anywhere, are repeated, and have people and restarts between
\* them, keep the promises of Estate (apply.yml, ADR-0010).
THEOREM EstateIsKept == InTurn /\ Spec => KeepsEstate
<1>1. Init => Seen!Init
  BY DEF Init, Seen!Init, Blank, Stage
<1>2. TypeInv /\ TurnInv /\ PresentInv /\ NoUnplannedCluster' /\ [Next]_vars
        => [Seen!Next]_(Seen!all)
  BY StepSeen
<1> QED BY <1>1, <1>2, Turns, PresentAlways, NoneUnplanned, PTL DEF Spec, KeepsEstate, Seen!Spec
=============================================================================
