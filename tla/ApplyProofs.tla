---------------------------- MODULE ApplyProofs ----------------------------
(***************************************************************************)
(* What TLAPS proves of Apply, for every inventory, store and set of plans.*)
(***************************************************************************)
EXTENDS Apply, TLAPS

\* A run in flight has been given a plan and a host.
Bound == \A r \in Runs : Active(r) => run[r].plan \in Plans /\ run[r].target \in Hosts

TypeInv == TypeOK /\ Bound

-----------------------------------------------------------------------------
(* Type correctness.                                                       *)

LEMMA BlankIsMachine == \A s \in Sections : Blank(s) \in Machine
  BY DEF Blank, Machine, DATA

LEMMA IdleIsRun == Idle \in Run /\ Idle.at = "idle"
  BY DEF Idle, Run

LEMMA MachineFields ==
  ASSUME NEW m \in Machine
  PROVE  /\ \A s \in Sections : [m EXCEPT !.section = s] \in Machine
         /\ \A b \in BOOLEAN : [m EXCEPT !.told = b] \in Machine
         /\ \A b \in BOOLEAN : [m EXCEPT !.installed = b] \in Machine
         /\ \A d \in DATA : [m EXCEPT !.data = d] \in Machine
         /\ \A i \in Inits : [m EXCEPT !.init = i] \in Machine
         /\ \A c \in Confs : [m EXCEPT !.conf = c] \in Machine
         /\ \A a \in SUBSET Confs : [m EXCEPT !.asides = a] \in Machine
         /\ \A c \in Confs \cup {None} : [m EXCEPT !.running = c] \in Machine
         /\ \A t \in Tunables : [m EXCEPT !.sysctl = t] \in Machine
         /\ \A t \in Tunables \cup {None} : [m EXCEPT !.kernel = t] \in Machine
         /\ \A s \in Secrets \cup {None} : [m EXCEPT !.password = s] \in Machine
  BY DEF Machine

LEMMA RunFields ==
  ASSUME NEW q \in Run
  PROVE  /\ \A s \in CHECKS \cup TOUCHING : [q EXCEPT !.at = s] \in Run
         /\ \A b \in BOOLEAN : [q EXCEPT !.exists = b] \in Run
         /\ \A b \in BOOLEAN : [q EXCEPT !.notified = b] \in Run
         /\ \A b \in BOOLEAN : [q EXCEPT !.new = b] \in Run
         /\ \A s \in Secrets \cup {None} : [q EXCEPT !.value = s] \in Run
         /\ \A s : [q EXCEPT !.at = s].plan = q.plan /\ [q EXCEPT !.at = s].target = q.target
  BY DEF Run

LEMMA InitType == Init => TypeInv
  BY BlankIsMachine, IdleIsRun, SaysAssumption
  DEF Init, TypeInv, TypeOK, Bound, Active

\* A document of the store says something a machine can be given.
LEMMA DocSays ==
  ASSUME TypeInv, NEW r \in Runs, Active(r)
  PROVE  /\ file[run[r].plan] \in Documents
         /\ Doc(r).host \in Hosts
         /\ Doc(r).id \in Plans
         /\ Doc(r).init \in Inits
         /\ Doc(r).conf \in Confs
         /\ Doc(r).tunables \in Tunables
         /\ run[r].plan \in Plans /\ run[r].target \in Hosts
         /\ On(r) \in Machine
  BY SaysAssumption DEF TypeInv, TypeOK, Bound, Doc, On, Inits, Confs, Tunables

\* The two shapes of a task's step: a run moves on, and a machine is changed.
LEMMA GoType ==
  ASSUME TypeInv, NEW r \in Runs, Active(r), NEW q \in Run,
         q.plan = run[r].plan, q.target = run[r].target,
         run' = [run EXCEPT ![r] = q]
  PROVE  run' \in [Runs -> Run] /\ (file' = file => Bound')
  BY DEF TypeInv, TypeOK, Bound, Active

LEMMA TaskType ==
  ASSUME TypeInv, NEW r \in Runs, Task(r)
  PROVE  TypeInv'
<1> USE DEF TypeInv, TypeOK
<1>0. Active(r) /\ run[r] \in Run /\ file \in [Plans -> Documents]
  BY DEF Task, Active, ReadBack, CheckDrift, CheckWarnings, TellPackaging, Install,
         Layout, FindCluster, ClearPlaceholder, MakeCluster, KeepCluster, Configure,
         WriteSettings, LoadSettings, StartInstance, FlushHandlers, FindSecret,
         AskFileStore, AskVaultStore, KeepSecret, SetPassword, WriteNote
<1> DEFINE t == run[r].target
<1>d. t \in Hosts /\ machine[t] \in Machine /\ Doc(r).host \in Hosts /\ Doc(r).id \in Plans
      /\ Doc(r).init \in Inits /\ Doc(r).conf \in Confs /\ Doc(r).tunables \in Tunables
  BY <1>0, DocSays DEF On
<1>g. ASSUME NEW s \in CHECKS \cup TOUCHING, Go(r, s)
      PROVE  run' \in [Runs -> Run] /\ (file' = file => Bound')
  BY <1>0, <1>g, RunFields, GoType DEF Go
<1>m. ASSUME NEW m \in Machine, machine' = [machine EXCEPT ![t] = m]
      PROVE  machine' \in [Hosts -> Machine]
  BY <1>m, <1>d
<1>1. CASE ReadBack(r)
  BY <1>1, <1>g DEF ReadBack, CHECKS
<1>2. CASE CheckDrift(r)
  BY <1>2, <1>g DEF CheckDrift, CHECKS
<1>3. CASE CheckWarnings(r)
  BY <1>3, <1>g DEF CheckWarnings, TOUCHING
<1>4. CASE TellPackaging(r)
  BY <1>4, <1>g, <1>m, <1>d, MachineFields DEF TellPackaging, TOUCHING
<1>5. CASE Install(r)
  BY <1>5, <1>g, <1>m, <1>d, MachineFields, ZenonT(60) DEF Install, TOUCHING, DATA
<1>q. ASSUME NEW q \in Run, q.plan = run[r].plan, q.target = t, run' = [run EXCEPT ![r] = q]
      PROVE  run' \in [Runs -> Run] /\ (file' = file => Bound')
  BY <1>0, <1>q, GoType
<1>a. ASSUME NEW s \in TOUCHING
      PROVE  /\ [run[r] EXCEPT !.at = s] \in Run
             /\ [run[r] EXCEPT !.at = s].plan = run[r].plan
             /\ [run[r] EXCEPT !.at = s].target = t
  BY <1>0, RunFields
<1>6. CASE Layout(r)
  <2>1. PICK d \in DATA : machine' = [machine EXCEPT ![t] = [machine[t] EXCEPT !.data = d]]
    BY <1>6, <1>d DEF Layout, DATA, Machine
  <2> QED
    BY <2>1, <1>6, <1>g, <1>m, <1>d, MachineFields DEF Layout, TOUCHING
<1>7. CASE FindCluster(r)
  <2>1. ASSUME NEW b \in BOOLEAN,
               run' = [run EXCEPT ![r].at = "clear", ![r].exists = b]
        PROVE  run' \in [Runs -> Run] /\ (file' = file => Bound')
    <3>1. run' = [run EXCEPT ![r] = [[run[r] EXCEPT !.at = "clear"] EXCEPT !.exists = b]]
      BY <2>1, <1>0 DEF Run
    <3>2. [[run[r] EXCEPT !.at = "clear"] EXCEPT !.exists = b] \in Run
      BY <1>a, RunFields DEF TOUCHING
    <3> QED
      BY <3>1, <3>2, <1>0, <1>q DEF Run
  <2>2. (On(r).data \in HASVERSION) \in BOOLEAN
    OBVIOUS
  <2>3. run' = [run EXCEPT ![r].at = "clear", ![r].exists = (On(r).data \in HASVERSION)]
    BY <1>7 DEF FindCluster
  <2>4. run' \in [Runs -> Run] /\ (file' = file => Bound')
    BY <2>1, <2>2, <2>3, Zenon
  <2>5. UNCHANGED <<file, note, held, machine>>
    BY <1>7 DEF FindCluster
  <2> QED
    BY <2>4, <2>5
<1>8. CASE ClearPlaceholder(r)
  <2>1. PICK d \in DATA : machine' = [machine EXCEPT ![t] = [machine[t] EXCEPT !.data = d]]
    BY <1>8, <1>d DEF ClearPlaceholder, DATA, Machine
  <2> QED
    BY <2>1, <1>8, <1>g, <1>m, <1>d, MachineFields DEF ClearPlaceholder, TOUCHING
<1>9. CASE MakeCluster(r)
  <2>1. [[machine[t] EXCEPT !.data = "cluster"] EXCEPT !.init = Doc(r).init] \in Machine
    BY <1>d, MachineFields DEF DATA
  <2>2. machine' = [machine EXCEPT ![t] = [[machine[t] EXCEPT !.data = "cluster"]
                                              EXCEPT !.init = Doc(r).init]]
    BY <1>9, <1>d DEF MakeCluster, Machine
  <2> QED
    BY <2>1, <2>2, <1>9, <1>g, <1>m DEF MakeCluster, TOUCHING
<1>10. CASE KeepCluster(r)
  BY <1>10, <1>g DEF KeepCluster, TOUCHING
<1>11. CASE Configure(r)
  <2>1. PICK a \in SUBSET Confs :
          machine' = [machine EXCEPT ![t] = [[machine[t] EXCEPT !.conf = Doc(r).conf]
                                                EXCEPT !.asides = a]]
    BY <1>11, <1>d DEF Configure, On, Machine
  <2>2. [[machine[t] EXCEPT !.conf = Doc(r).conf] EXCEPT !.asides = a] \in Machine
    BY <1>d, MachineFields
  <2>3. PICK b \in BOOLEAN :
          run' = [run EXCEPT ![r] = [[run[r] EXCEPT !.at = "write"] EXCEPT !.notified = b]]
    BY <1>11, <1>0 DEF Configure, Run
  <2>4. [[run[r] EXCEPT !.at = "write"] EXCEPT !.notified = b] \in Run
    BY <1>a, RunFields DEF TOUCHING
  <2> QED
    BY <2>1, <2>2, <2>3, <2>4, <1>11, <1>0, <1>m, <1>q DEF Configure, Run
<1>12. CASE WriteSettings(r)
  BY <1>12, <1>g, <1>m, <1>d, MachineFields DEF WriteSettings, TOUCHING
<1>13. CASE LoadSettings(r)
  <2>1. machine[t].sysctl \in Tunables \cup {None}
    BY <1>d DEF Machine
  <2> QED
    BY <2>1, <1>13, <1>g, <1>m, <1>d, MachineFields DEF LoadSettings, TOUCHING, On
<1>14. CASE StartInstance(r)
  <2>1. PICK c \in Confs \cup {None} :
          machine' = [machine EXCEPT ![t] = [machine[t] EXCEPT !.running = c]]
    BY <1>14, <1>d DEF StartInstance, On, Machine
  <2> QED
    BY <2>1, <1>14, <1>g, <1>m, <1>d, MachineFields DEF StartInstance, TOUCHING
<1>15. CASE FlushHandlers(r)
  <2>1. PICK c \in Confs \cup {None} :
          machine' = [machine EXCEPT ![t] = [machine[t] EXCEPT !.running = c]]
    BY <1>15, <1>d DEF FlushHandlers, On, Machine
  <2>2. run' = [run EXCEPT ![r] = [[run[r] EXCEPT !.at = "held"] EXCEPT !.notified = FALSE]]
    BY <1>15, <1>0 DEF FlushHandlers, Run
  <2>3. [[run[r] EXCEPT !.at = "held"] EXCEPT !.notified = FALSE] \in Run
    BY <1>a, RunFields DEF TOUCHING
  <2> QED
    BY <2>1, <2>2, <2>3, <1>15, <1>0, <1>m, <1>d, <1>q, MachineFields DEF FlushHandlers, Run
<1>16. CASE FindSecret(r)
  <2>1. ASSUME NEW b \in BOOLEAN,
               run' = [run EXCEPT ![r].at = "secret", ![r].new = b]
        PROVE  run' \in [Runs -> Run] /\ (file' = file => Bound')
    <3>1. run' = [run EXCEPT ![r] = [[run[r] EXCEPT !.at = "secret"] EXCEPT !.new = b]]
      BY <2>1, <1>0 DEF Run
    <3>2. [[run[r] EXCEPT !.at = "secret"] EXCEPT !.new = b] \in Run
      BY <1>a, RunFields DEF TOUCHING
    <3> QED
      BY <3>1, <3>2, <1>0, <1>q DEF Run
  <2>2. (held[Doc(r).host] = None) \in BOOLEAN
    OBVIOUS
  <2>3. run' = [run EXCEPT ![r].at = "secret", ![r].new = (held[Doc(r).host] = None)]
    BY <1>16 DEF FindSecret
  <2>4. run' \in [Runs -> Run] /\ (file' = file => Bound')
    BY <2>1, <2>2, <2>3, Zenon
  <2>5. UNCHANGED <<file, note, held, machine>>
    BY <1>16 DEF FindSecret
  <2> QED
    BY <2>4, <2>5
<1>17. CASE AskFileStore(r)
  <2>1. PICK s \in Secrets \cup {None} :
          /\ held' = [held EXCEPT ![Doc(r).host] = s]
          /\ run' = [run EXCEPT ![r] = [[run[r] EXCEPT !.at = "set"] EXCEPT !.value = s]]
    BY <1>17, <1>0, <1>d, ZenonT(60) DEF AskFileStore, Run
  <2>2. [[run[r] EXCEPT !.at = "set"] EXCEPT !.value = s] \in Run
    BY <1>a, RunFields DEF TOUCHING
  <2>3. held' \in [Hosts -> Secrets \cup {None}]
    BY <2>1, <1>d
  <2> QED
    BY <2>1, <2>2, <2>3, <1>17, <1>0, <1>q DEF AskFileStore, Run
<1>18. CASE AskVaultStore(r)
  <2>1. PICK s \in IF run[r].new THEN Secrets \ InUse ELSE {held[Doc(r).host]} :
          run' = [run EXCEPT ![r].at = "keep", ![r].value = s]
    BY <1>18 DEF AskVaultStore
  <2>2. s \in Secrets \cup {None}
    BY <1>d
  <2>3. run' = [run EXCEPT ![r] = [[run[r] EXCEPT !.at = "keep"] EXCEPT !.value = s]]
    BY <2>1, <1>0 DEF Run
  <2>4. [[run[r] EXCEPT !.at = "keep"] EXCEPT !.value = s] \in Run
    BY <2>2, <1>a, RunFields DEF TOUCHING
  <2> QED
    BY <2>3, <2>4, <1>18, <1>0, <1>q DEF AskVaultStore, Run
<1>19. CASE KeepSecret(r)
  <2>1. held' \in [Hosts -> Secrets \cup {None}]
    BY <1>19, <1>d, <1>0 DEF KeepSecret, Run
  <2> QED
    BY <2>1, <1>19, <1>g DEF KeepSecret, TOUCHING
<1>20. CASE SetPassword(r)
  <2>1. PICK s \in Secrets \cup {None} :
          machine' = [machine EXCEPT ![t] = [machine[t] EXCEPT !.password = s]]
    BY <1>20, <1>d, <1>0 DEF SetPassword, Machine, Run
  <2> QED
    BY <2>1, <1>20, <1>g, <1>m, <1>d, MachineFields DEF SetPassword, TOUCHING
<1>21. CASE WriteNote(r)
  BY <1>21, <1>d, <1>0, IdleIsRun DEF WriteNote, Bound, Active, Idle
<1> QED
  BY <1>1, <1>2, <1>3, <1>4, <1>5, <1>6, <1>7, <1>8, <1>9, <1>10, <1>11, <1>12, <1>13,
     <1>14, <1>15, <1>16, <1>17, <1>18, <1>19, <1>20, <1>21 DEF Task

\* What happens besides the tasks of a run.
LEMMA OtherType ==
  ASSUME TypeInv, [Next]_vars, \A r \in Runs : ~Task(r)
  PROVE  TypeInv'
<1> USE DEF TypeInv, TypeOK
<1>1. ASSUME NEW r \in Runs, NEW p \in Plans, NEW h \in Hosts, NEW ok \in BOOLEAN,
             Launch(r, p, h, ok)
      PROVE  TypeInv'
  <2>1. [Idle EXCEPT !.at = "readback", !.plan = p, !.target = h, !.accepted = ok] \in Run
    BY DEF Idle, Run, CHECKS
  <2> QED
    BY <1>1, <2>1 DEF Launch, Bound, Active, Idle
<1>2. ASSUME NEW r \in Runs, End(r)
      PROVE  TypeInv'
  BY <1>2, IdleIsRun DEF End, Bound, Active
<1>3. ASSUME NEW r \in Runs, MakeInterrupted(r)
      PROVE  TypeInv'
  <2>1. run[r].target \in Hosts
    BY <1>3 DEF MakeInterrupted, Bound, Active
  <2>2. PICK d \in DATA : machine' = [machine EXCEPT ![run[r].target] =
                                         [machine[run[r].target] EXCEPT !.data = d]]
    BY <1>3, <2>1 DEF MakeInterrupted, DATA
  <2>3. machine' \in [Hosts -> Machine]
    BY <2>1, <2>2, MachineFields
  <2> QED
    BY <2>3, <1>3, IdleIsRun DEF MakeInterrupted, Bound, Active
<1>4. ASSUME NEW p \in Plans, EditPlan(p)
      PROVE  TypeInv'
  BY <1>4 DEF EditPlan, Bound, Active
<1>5. ASSUME NEW h \in Hosts, NEW m \in Machine, machine' = [machine EXCEPT ![h] = m],
             UNCHANGED <<file, note, held, run>>
      PROVE  TypeInv'
  BY <1>5 DEF Bound, Active
<1>6. ASSUME NEW h \in Hosts, HandEdit(h)
      PROVE  TypeInv'
  <2>1. \E m \in Machine : machine' = [machine EXCEPT ![h] = m]
    BY <1>6, MachineFields DEF HandEdit, Confs
  <2> QED
    BY <1>6, <2>1, <1>5 DEF HandEdit
<1>7. ASSUME NEW h \in Hosts, ChangeHost(h)
      PROVE  TypeInv'
  <2>1. \E m \in Machine : machine' = [machine EXCEPT ![h] = m]
    BY <1>7, MachineFields DEF ChangeHost
  <2> QED
    BY <1>7, <2>1, <1>5 DEF ChangeHost
<1>8. ASSUME NEW h \in Hosts, Reboot(h)
      PROVE  TypeInv'
  <2>1. PICK t \in Tunables \cup {None}, c \in Confs \cup {None} :
          machine' = [machine EXCEPT ![h] =
                         [[machine[h] EXCEPT !.kernel = t] EXCEPT !.running = c]]
    BY <1>8 DEF Reboot, Machine
  <2>2. [[machine[h] EXCEPT !.kernel = t] EXCEPT !.running = c] \in Machine
    BY MachineFields
  <2> QED
    BY <1>8, <2>1, <2>2, <1>5 DEF Reboot
<1>9. ASSUME NEW h \in Hosts, Rebuild(h)
      PROVE  TypeInv'
  BY <1>9, BlankIsMachine, IdleIsRun DEF Rebuild, Bound, Active
<1>10. CASE UNCHANGED vars
  BY <1>10 DEF vars, Bound, Active
<1> QED
  BY <1>1, <1>2, <1>3, <1>4, <1>6, <1>7, <1>8, <1>9, <1>10 DEF Next, Between, Refuse, Stop

\* Every state of every behaviour has its type, whatever the circumstances.
THEOREM Types == Spec => []TypeInv
<1>1. TypeInv /\ [Next]_vars => TypeInv'
  BY TaskType, OtherType
<1> QED
  BY <1>1, InitType, PTL DEF Spec

THEOREM TypeCorrect == Spec => []TypeOK
  BY Types, PTL DEF TypeInv

-----------------------------------------------------------------------------
(* What no task touches, and the packaging.                                *)

\* A task moves its own run on and changes its own host; it changes no plan
\* file and not what the host is.
Frame(r) ==
  LET t == run[r].target IN
  /\ file' = file
  /\ \A s \in Runs \ {r} : run'[s] = run[s]
  /\ \A h \in Hosts \ {t} : machine'[h] = machine[h]
  /\ machine'[t].section = machine[t].section
  /\ run'[r] = Idle \/ /\ run'[r].plan = run[r].plan /\ run'[r].target = t
                       /\ run'[r].accepted = run[r].accepted

LEMMA TaskFrame ==
  ASSUME TypeInv, NEW r \in Runs, Task(r)
  PROVE  Frame(r) /\ Active(r) /\ run[r].target \in Hosts
<1> USE DEF TypeInv, TypeOK, Frame, Active, Bound, Run, Machine
<1>1. CASE ReadBack(r)
  BY <1>1 DEF ReadBack, Go
<1>2. CASE CheckDrift(r)
  BY <1>2 DEF CheckDrift, Go
<1>3. CASE CheckWarnings(r)
  BY <1>3 DEF CheckWarnings, Go
<1>4. CASE TellPackaging(r)
  BY <1>4 DEF TellPackaging, Go
<1>5. CASE Install(r)
  BY <1>5 DEF Install, Go
<1>6. CASE Layout(r)
  BY <1>6 DEF Layout, Go
<1>7. CASE FindCluster(r)
  BY <1>7 DEF FindCluster, Go
<1>8. CASE ClearPlaceholder(r)
  BY <1>8 DEF ClearPlaceholder, Go
<1>9. CASE MakeCluster(r)
  BY <1>9 DEF MakeCluster, Go
<1>10. CASE KeepCluster(r)
  BY <1>10 DEF KeepCluster, Go
<1>11. CASE Configure(r)
  BY <1>11 DEF Configure, Go
<1>12. CASE WriteSettings(r)
  BY <1>12 DEF WriteSettings, Go
<1>13. CASE LoadSettings(r)
  BY <1>13 DEF LoadSettings, Go
<1>14. CASE StartInstance(r)
  BY <1>14 DEF StartInstance, Go
<1>15. CASE FlushHandlers(r)
  BY <1>15 DEF FlushHandlers, Go
<1>16. CASE FindSecret(r)
  BY <1>16 DEF FindSecret, Go
<1>17. CASE AskFileStore(r)
  BY <1>17 DEF AskFileStore, Go
<1>18. CASE AskVaultStore(r)
  BY <1>18 DEF AskVaultStore, Go
<1>19. CASE KeepSecret(r)
  BY <1>19 DEF KeepSecret, Go
<1>20. CASE SetPassword(r)
  BY <1>20 DEF SetPassword, Go
<1>21. CASE WriteNote(r)
  BY <1>21 DEF WriteNote, Go
<1> QED
  BY <1>1, <1>2, <1>3, <1>4, <1>5, <1>6, <1>7, <1>8, <1>9, <1>10, <1>11, <1>12, <1>13, <1>14, <1>15, <1>16, <1>17, <1>18, <1>19, <1>20, <1>21 DEF Task

\* The packaging has been told on the host of every run past telling it.
Told ==
  \A r \in Runs : run[r].at \in TOUCHING \ {"tell"} => machine[run[r].target].told

PlannedInv == Told /\ NoUnplannedCluster

\* What a task does about the packaging, on the one host it changes.
LEMMA TaskPlanned ==
  ASSUME TypeInv, PlannedInv, NEW r \in Runs, Task(r)
  PROVE  LET t == run[r].target IN
         /\ machine[t].told => machine'[t].told
         /\ machine'[t].data # "unplanned"
         /\ run'[r].at \in TOUCHING \ {"tell"} => machine'[t].told
<1> USE DEF TypeInv, TypeOK, PlannedInv, Told, NoUnplannedCluster, Active, Bound, Run,
            Machine, TOUCHING, On, Idle
<1>1. CASE ReadBack(r)
  BY <1>1 DEF ReadBack, Go
<1>2. CASE CheckDrift(r)
  BY <1>2 DEF CheckDrift, Go
<1>3. CASE CheckWarnings(r)
  BY <1>3 DEF CheckWarnings, Go
<1>4. CASE TellPackaging(r)
  BY <1>4 DEF TellPackaging, Go
<1>5. CASE Install(r)
  BY <1>5 DEF Install, Go
<1>6. CASE Layout(r)
  BY <1>6, SMTT(30) DEF Layout, Go
<1>7. CASE FindCluster(r)
  BY <1>7 DEF FindCluster, Go
<1>8. CASE ClearPlaceholder(r)
  BY <1>8, SMTT(30) DEF ClearPlaceholder, Go
<1>9. CASE MakeCluster(r)
  BY <1>9 DEF MakeCluster, Go
<1>10. CASE KeepCluster(r)
  BY <1>10 DEF KeepCluster, Go
<1>11. CASE Configure(r)
  BY <1>11 DEF Configure, Go
<1>12. CASE WriteSettings(r)
  BY <1>12 DEF WriteSettings, Go
<1>13. CASE LoadSettings(r)
  BY <1>13 DEF LoadSettings, Go
<1>14. CASE StartInstance(r)
  BY <1>14 DEF StartInstance, Go
<1>15. CASE FlushHandlers(r)
  BY <1>15 DEF FlushHandlers, Go
<1>16. CASE FindSecret(r)
  BY <1>16 DEF FindSecret, Go
<1>17. CASE AskFileStore(r)
  BY <1>17 DEF AskFileStore, Go
<1>18. CASE AskVaultStore(r)
  BY <1>18 DEF AskVaultStore, Go
<1>19. CASE KeepSecret(r)
  BY <1>19 DEF KeepSecret, Go
<1>20. CASE SetPassword(r)
  BY <1>20, SMTT(30) DEF SetPassword, Go
<1>21. CASE WriteNote(r)
  BY <1>21 DEF WriteNote, Go
<1> QED
  BY <1>1, <1>2, <1>3, <1>4, <1>5, <1>6, <1>7, <1>8, <1>9, <1>10, <1>11, <1>12, <1>13, <1>14, <1>15, <1>16, <1>17, <1>18, <1>19, <1>20, <1>21 DEF Task

LEMMA StepPlanned ==
  ASSUME TypeInv, PlannedInv, [Next]_vars
  PROVE  PlannedInv'
<1> USE DEF TypeInv, TypeOK, PlannedInv, Told, NoUnplannedCluster
<1>1. ASSUME NEW r \in Runs, Task(r)
      PROVE  PlannedInv'
  BY <1>1, TaskPlanned, TaskFrame DEF Frame, Bound, Active, TOUCHING, Idle
<1>2. ASSUME NEW r \in Runs, NEW p \in Plans, NEW h \in Hosts, NEW ok \in BOOLEAN,
             Launch(r, p, h, ok)
      PROVE  PlannedInv'
  BY <1>2 DEF Launch, Idle, TOUCHING
<1>3. ASSUME NEW r \in Runs, End(r)
      PROVE  PlannedInv'
  BY <1>3 DEF End, Idle, TOUCHING
<1>4. ASSUME NEW r \in Runs, MakeInterrupted(r)
      PROVE  PlannedInv'
  BY <1>4 DEF MakeInterrupted, Idle, TOUCHING, Bound, Active, Machine
<1>5. CASE Between
  <2>1. ASSUME NEW p \in Plans, EditPlan(p)
        PROVE  PlannedInv'
    BY <2>1 DEF EditPlan
  <2>2. ASSUME NEW h \in Hosts, HandEdit(h)
        PROVE  PlannedInv'
    BY <2>2 DEF HandEdit, Machine, Bound, Active, TOUCHING
  <2>3. ASSUME NEW h \in Hosts, ChangeHost(h)
        PROVE  PlannedInv'
    BY <2>3 DEF ChangeHost, Machine, Bound, Active, TOUCHING
  <2>4. ASSUME NEW h \in Hosts, Reboot(h)
        PROVE  PlannedInv'
    BY <2>4 DEF Reboot, Machine, Bound, Active, TOUCHING
  <2>5. ASSUME NEW h \in Hosts, Rebuild(h)
        PROVE  PlannedInv'
    BY <2>5 DEF Rebuild, Blank, Bound, Active, Idle, TOUCHING
  <2> QED
    BY <1>5, <2>1, <2>2, <2>3, <2>4, <2>5 DEF Between
<1>6. CASE UNCHANGED vars
  BY <1>6 DEF vars
<1> QED
  BY <1>1, <1>2, <1>3, <1>4, <1>5, <1>6 DEF Next, Refuse, Stop

\* Whatever overlaps, is stopped, interrupted or rebuilt, no host ever holds a
\* cluster of the packaging's own making (packages.yml).
THEOREM NoneUnplanned == Spec => []NoUnplannedCluster
<1>1. Init => PlannedInv
  BY SMTT(30) DEF Init, PlannedInv, Told, NoUnplannedCluster, Idle, Blank, TOUCHING
<1>2. TypeInv /\ PlannedInv /\ [Next]_vars => PlannedInv'
  BY StepPlanned
<1> QED
  BY <1>1, <1>2, Types, PTL DEF Spec, PlannedInv

-----------------------------------------------------------------------------
(* Nothing is destroyed.                                                   *)

\* What NothingDestroyed says of one run.
Keeps(r) ==
  LET old == machine[run[r].target]
      new == machine'[run[r].target]
  IN  /\ old.data \in HASVERSION \cup {"partial"} =>
            new.data = old.data /\ new.init = old.init
      /\ old.asides \subseteq new.asides
      /\ old.conf \in {None, new.conf} \cup new.asides

LEMMA TaskKeeps ==
  ASSUME TypeInv, NEW r \in Runs, Task(r)
  PROVE  Keeps(r)
<1> USE DEF TypeInv, TypeOK, Keeps, Active, Bound, Run, Machine, HASVERSION, On, CanMake
<1>1. CASE ReadBack(r)
  BY <1>1 DEF ReadBack, Go
<1>2. CASE CheckDrift(r)
  BY <1>2 DEF CheckDrift, Go
<1>3. CASE CheckWarnings(r)
  BY <1>3 DEF CheckWarnings, Go
<1>4. CASE TellPackaging(r)
  BY <1>4 DEF TellPackaging, Go
<1>5. CASE Install(r)
  BY <1>5 DEF Install, Go
<1>6. CASE Layout(r)
  BY <1>6 DEF Layout, Go
<1>7. CASE FindCluster(r)
  BY <1>7 DEF FindCluster, Go
<1>8. CASE ClearPlaceholder(r)
  BY <1>8 DEF ClearPlaceholder, Go
<1>9. CASE MakeCluster(r)
  BY <1>9 DEF MakeCluster, Go
<1>10. CASE KeepCluster(r)
  BY <1>10 DEF KeepCluster, Go
<1>11. CASE Configure(r)
  BY <1>11 DEF Configure, Go
<1>12. CASE WriteSettings(r)
  BY <1>12 DEF WriteSettings, Go
<1>13. CASE LoadSettings(r)
  BY <1>13 DEF LoadSettings, Go
<1>14. CASE StartInstance(r)
  BY <1>14 DEF StartInstance, Go
<1>15. CASE FlushHandlers(r)
  BY <1>15 DEF FlushHandlers, Go
<1>16. CASE FindSecret(r)
  BY <1>16 DEF FindSecret, Go
<1>17. CASE AskFileStore(r)
  BY <1>17 DEF AskFileStore, Go
<1>18. CASE AskVaultStore(r)
  BY <1>18 DEF AskVaultStore, Go
<1>19. CASE KeepSecret(r)
  BY <1>19 DEF KeepSecret, Go
<1>20. CASE SetPassword(r)
  BY <1>20 DEF SetPassword, Go
<1>21. CASE WriteNote(r)
  BY <1>21 DEF WriteNote, Go
<1> QED
  BY <1>1, <1>2, <1>3, <1>4, <1>5, <1>6, <1>7, <1>8, <1>9, <1>10, <1>11, <1>12, <1>13, <1>14, <1>15, <1>16, <1>17, <1>18, <1>19, <1>20, <1>21 DEF Task

\* No task of any run removes or remakes a data directory with anything in it,
\* and none replaces a configuration without a copy beside it (ADR-0010).
THEOREM NoneDestroyed == Spec => NothingDestroyed
<1>1. TypeInv /\ [Next]_vars => [\A r \in Runs : Task(r) => Keeps(r)]_vars
  BY TaskKeeps
<1> QED
  BY <1>1, Types, PTL DEF Spec, NothingDestroyed, Keeps

-----------------------------------------------------------------------------
(* Runs that take turns.                                                   *)

\* Runs take turns, people wait for them, and nobody names the target by hand.
InTurn == Circumstances \subseteq {"Interrupted"}

AfterConfigure == {"write", "load", "start", "flush", "held", "secret", "keep", "set", "note"}
AfterWrite == AfterConfigure \ {"write"}
AfterLoad == AfterWrite \ {"load"}
AfterStart == AfterLoad \ {"start"}

\* One run at a time.
OneAtATime == \A r, s \in Runs : Active(r) /\ Active(s) => r = s

\* What the checks a run has passed have established.
Checked(r) ==
  /\ Active(r) => Doc(r).host = run[r].target
  /\ run[r].at \in (CHECKS \cup TOUCHING) \ {"readback"} => Intact(r)
  /\ run[r].at \in TOUCHING \cup {"warnings"} => Fits(r)
  /\ run[r].at \in TOUCHING => Acknowledged(r)

\* What the tasks a run has finished have left behind.
Progress(r) ==
  /\ run[r].at \in AfterConfigure => On(r).conf = Doc(r).conf
  /\ run[r].at \in AfterWrite => On(r).sysctl = Doc(r).tunables
  /\ run[r].at \in AfterLoad => On(r).kernel = Doc(r).tunables
  /\ run[r].at \in AfterStart => On(r).data = "cluster" /\ On(r).running # None

\* Which secret a run holds, against the store and the cluster.
Custody(r) ==
  /\ run[r].at \in {"secret", "keep"} => (run[r].new <=> held[Doc(r).host] = None)
  /\ run[r].at = "keep" => run[r].value # None
  /\ run[r].at \in {"set", "note"} => held[Doc(r).host] # None
  /\ run[r].at = "set" /\ run[r].new =>
       run[r].value = held[Doc(r).host] /\ note[Doc(r).host] = None

\* What the hosts and the store say of each other, whoever is running.
Stored ==
  /\ PasswordIsStored
  /\ \A h \in Hosts : note[h] # None => held[h] # None

TurnInv ==
  /\ OneAtATime /\ Stored
  /\ \A r \in Runs : Checked(r) /\ Progress(r) /\ Custody(r)

\* Through its tasks a run goes on being about one document and one host.
LEMMA SameDocument ==
  ASSUME TypeInv, NEW r \in Runs, Task(r), Active(r)'
  PROVE  /\ run[r].plan \in Plans /\ run[r].target \in Hosts
         /\ run'[r].plan = run[r].plan /\ run'[r].target = run[r].target
         /\ Doc(r)' = Doc(r) /\ Intact(r)' = Intact(r) /\ Fits(r)' = Fits(r)
         /\ Acknowledged(r)' = Acknowledged(r)
         /\ On(r)' = machine'[run[r].target]
<1>1. Frame(r) /\ Active(r) /\ run[r].target \in Hosts
  BY TaskFrame
<1>2. run'[r].plan = run[r].plan /\ run'[r].target = run[r].target
      /\ run'[r].accepted = run[r].accepted /\ file' = file
      /\ machine'[run[r].target].section = machine[run[r].target].section
  BY <1>1, IdleIsRun DEF Frame, Active
<1>3. run[r].plan \in Plans
  BY <1>1 DEF TypeInv, Bound
<1> QED
  BY <1>1, <1>2, <1>3 DEF Doc, Intact, Fits, Acknowledged, On

LEMMA TaskChecked ==
  ASSUME TypeInv, NEW r \in Runs, Task(r), Checked(r), Active(r)'
  PROVE  Checked(r)'
<1>s. run'[r].target = run[r].target /\ Doc(r)' = Doc(r) /\ Intact(r)' = Intact(r)
      /\ Fits(r)' = Fits(r) /\ Acknowledged(r)' = Acknowledged(r)
  BY SameDocument
<1>t. run \in [Runs -> Run]
  BY DEF TypeInv, TypeOK
<1> USE DEF Checked, Active, Run, CHECKS, TOUCHING
<1>1. CASE ReadBack(r)
  BY <1>1, <1>s, <1>t DEF ReadBack, Go
<1>2. CASE CheckDrift(r)
  BY <1>2, <1>s, <1>t DEF CheckDrift, Go
<1>3. CASE CheckWarnings(r)
  BY <1>3, <1>s, <1>t DEF CheckWarnings, Go
<1>4. CASE TellPackaging(r)
  BY <1>4, <1>s, <1>t DEF TellPackaging, Go
<1>5. CASE Install(r)
  BY <1>5, <1>s, <1>t DEF Install, Go
<1>6. CASE Layout(r)
  BY <1>6, <1>s, <1>t DEF Layout, Go
<1>7. CASE FindCluster(r)
  BY <1>7, <1>s, <1>t DEF FindCluster, Go
<1>8. CASE ClearPlaceholder(r)
  BY <1>8, <1>s, <1>t DEF ClearPlaceholder, Go
<1>9. CASE MakeCluster(r)
  BY <1>9, <1>s, <1>t DEF MakeCluster, Go
<1>10. CASE KeepCluster(r)
  BY <1>10, <1>s, <1>t DEF KeepCluster, Go
<1>11. CASE Configure(r)
  BY <1>11, <1>s, <1>t DEF Configure, Go
<1>12. CASE WriteSettings(r)
  BY <1>12, <1>s, <1>t DEF WriteSettings, Go
<1>13. CASE LoadSettings(r)
  BY <1>13, <1>s, <1>t DEF LoadSettings, Go
<1>14. CASE StartInstance(r)
  BY <1>14, <1>s, <1>t DEF StartInstance, Go
<1>15. CASE FlushHandlers(r)
  BY <1>15, <1>s, <1>t DEF FlushHandlers, Go
<1>16. CASE FindSecret(r)
  BY <1>16, <1>s, <1>t DEF FindSecret, Go
<1>17. CASE AskFileStore(r)
  BY <1>17, <1>s, <1>t DEF AskFileStore, Go
<1>18. CASE AskVaultStore(r)
  BY <1>18, <1>s, <1>t DEF AskVaultStore, Go
<1>19. CASE KeepSecret(r)
  BY <1>19, <1>s, <1>t DEF KeepSecret, Go
<1>20. CASE SetPassword(r)
  BY <1>20, <1>s, <1>t DEF SetPassword, Go
<1>21. CASE WriteNote(r)
  BY <1>21, <1>s, <1>t DEF WriteNote, Go
<1> QED
  BY <1>1, <1>2, <1>3, <1>4, <1>5, <1>6, <1>7, <1>8, <1>9, <1>10, <1>11, <1>12, <1>13, <1>14, <1>15, <1>16, <1>17, <1>18, <1>19, <1>20, <1>21 DEF Task

LEMMA TaskProgress ==
  ASSUME TypeInv, NEW r \in Runs, Task(r), Progress(r), Active(r)'
  PROVE  Progress(r)'
<1>s. /\ run[r].target \in Hosts /\ Doc(r)' = Doc(r) /\ Doc(r).conf \in Confs
      /\ On(r)' = machine'[run[r].target] /\ machine[run[r].target] \in Machine
  BY SameDocument, TaskFrame, DocSays DEF On
<1>t. run \in [Runs -> Run] /\ machine \in [Hosts -> Machine] /\ None \notin Confs
  BY NoneAssumption DEF TypeInv, TypeOK
<1> USE DEF Progress, Run, Machine, AfterConfigure, AfterWrite, AfterLoad, AfterStart, On
<1>1. CASE ReadBack(r)
  BY <1>1, <1>s, <1>t DEF ReadBack, Go
<1>2. CASE CheckDrift(r)
  BY <1>2, <1>s, <1>t DEF CheckDrift, Go
<1>3. CASE CheckWarnings(r)
  BY <1>3, <1>s, <1>t DEF CheckWarnings, Go
<1>4. CASE TellPackaging(r)
  BY <1>4, <1>s, <1>t DEF TellPackaging, Go
<1>5. CASE Install(r)
  BY <1>5, <1>s, <1>t DEF Install, Go
<1>6. CASE Layout(r)
  BY <1>6, <1>s, <1>t DEF Layout, Go
<1>7. CASE FindCluster(r)
  BY <1>7, <1>s, <1>t DEF FindCluster, Go
<1>8. CASE ClearPlaceholder(r)
  BY <1>8, <1>s, <1>t DEF ClearPlaceholder, Go
<1>9. CASE MakeCluster(r)
  BY <1>9, <1>s, <1>t DEF MakeCluster, Go
<1>10. CASE KeepCluster(r)
  BY <1>10, <1>s, <1>t DEF KeepCluster, Go
<1>11. CASE Configure(r)
  BY <1>11, <1>s, <1>t DEF Configure, Go
<1>12. CASE WriteSettings(r)
  BY <1>12, <1>s, <1>t DEF WriteSettings, Go
<1>13. CASE LoadSettings(r)
  BY <1>13, <1>s, <1>t DEF LoadSettings, Go
<1>14. CASE StartInstance(r)
  BY <1>14, <1>s, <1>t DEF StartInstance, Go
<1>15. CASE FlushHandlers(r)
  BY <1>15, <1>s, <1>t DEF FlushHandlers, Go
<1>16. CASE FindSecret(r)
  BY <1>16, <1>s, <1>t DEF FindSecret, Go
<1>17. CASE AskFileStore(r)
  BY <1>17, <1>s, <1>t DEF AskFileStore, Go
<1>18. CASE AskVaultStore(r)
  BY <1>18, <1>s, <1>t DEF AskVaultStore, Go
<1>19. CASE KeepSecret(r)
  BY <1>19, <1>s, <1>t DEF KeepSecret, Go
<1>20. CASE SetPassword(r)
  BY <1>20, <1>s, <1>t DEF SetPassword, Go
<1>21. CASE WriteNote(r)
  BY <1>21, <1>s, <1>t DEF WriteNote, Go
<1> QED
  BY <1>1, <1>2, <1>3, <1>4, <1>5, <1>6, <1>7, <1>8, <1>9, <1>10, <1>11, <1>12, <1>13, <1>14, <1>15, <1>16, <1>17, <1>18, <1>19, <1>20, <1>21 DEF Task
LEMMA TaskCustody ==
  ASSUME TypeInv, Stored, NEW r \in Runs, Task(r), Custody(r), Active(r)'
  PROVE  Custody(r)'
<1>s. Doc(r)' = Doc(r) /\ Doc(r).host \in Hosts
  BY SameDocument, TaskFrame, DocSays
<1>t. /\ run \in [Runs -> Run] /\ held \in [Hosts -> Secrets \cup {None}]
      /\ note \in [Hosts -> Plans \cup {None}] /\ None \notin Secrets
  BY NoneAssumption DEF TypeInv, TypeOK
<1> USE DEF Custody, Stored, Run, Active, Idle
<1>1. CASE ReadBack(r)
  BY <1>1, <1>s, <1>t DEF ReadBack, Go
<1>2. CASE CheckDrift(r)
  BY <1>2, <1>s, <1>t DEF CheckDrift, Go
<1>3. CASE CheckWarnings(r)
  BY <1>3, <1>s, <1>t DEF CheckWarnings, Go
<1>4. CASE TellPackaging(r)
  BY <1>4, <1>s, <1>t DEF TellPackaging, Go
<1>5. CASE Install(r)
  BY <1>5, <1>s, <1>t DEF Install, Go
<1>6. CASE Layout(r)
  BY <1>6, <1>s, <1>t DEF Layout, Go
<1>7. CASE FindCluster(r)
  BY <1>7, <1>s, <1>t DEF FindCluster, Go
<1>8. CASE ClearPlaceholder(r)
  BY <1>8, <1>s, <1>t DEF ClearPlaceholder, Go
<1>9. CASE MakeCluster(r)
  BY <1>9, <1>s, <1>t DEF MakeCluster, Go
<1>10. CASE KeepCluster(r)
  BY <1>10, <1>s, <1>t DEF KeepCluster, Go
<1>11. CASE Configure(r)
  BY <1>11, <1>s, <1>t DEF Configure, Go
<1>12. CASE WriteSettings(r)
  BY <1>12, <1>s, <1>t DEF WriteSettings, Go
<1>13. CASE LoadSettings(r)
  BY <1>13, <1>s, <1>t DEF LoadSettings, Go
<1>14. CASE StartInstance(r)
  BY <1>14, <1>s, <1>t DEF StartInstance, Go
<1>15. CASE FlushHandlers(r)
  BY <1>15, <1>s, <1>t DEF FlushHandlers, Go
<1>16. CASE FindSecret(r)
  BY <1>16, <1>s, <1>t DEF FindSecret, Go
<1>17. CASE AskFileStore(r)
  BY <1>17, <1>s, <1>t DEF AskFileStore, Go
<1>18. CASE AskVaultStore(r)
  BY <1>18, <1>s, <1>t DEF AskVaultStore, Go
<1>19. CASE KeepSecret(r)
  BY <1>19, <1>s, <1>t DEF KeepSecret, Go
<1>20. CASE SetPassword(r)
  BY <1>20, <1>s, <1>t DEF SetPassword, Go
<1>21. CASE WriteNote(r)
  BY <1>21, <1>s, <1>t DEF WriteNote, Go
<1> QED
  BY <1>1, <1>2, <1>3, <1>4, <1>5, <1>6, <1>7, <1>8, <1>9, <1>10, <1>11, <1>12, <1>13, <1>14, <1>15, <1>16, <1>17, <1>18, <1>19, <1>20, <1>21 DEF Task

LEMMA TaskStored ==
  ASSUME TypeInv, Stored, NEW r \in Runs, Task(r), Custody(r), Checked(r)
  PROVE  Stored'
<1>s. /\ run[r].target \in Hosts /\ Doc(r).host = run[r].target /\ Doc(r).host \in Hosts
      /\ Active(r)
  BY TaskFrame, DocSays DEF Checked
<1>t. /\ run \in [Runs -> Run] /\ held \in [Hosts -> Secrets \cup {None}]
      /\ note \in [Hosts -> Plans \cup {None}] /\ machine \in [Hosts -> Machine]
  BY DEF TypeInv, TypeOK
<1> USE DEF Custody, Stored, PasswordIsStored, Run, Machine
<1>1. CASE ReadBack(r)
  BY <1>1, <1>s, <1>t DEF ReadBack, Go
<1>2. CASE CheckDrift(r)
  BY <1>2, <1>s, <1>t DEF CheckDrift, Go
<1>3. CASE CheckWarnings(r)
  BY <1>3, <1>s, <1>t DEF CheckWarnings, Go
<1>4. CASE TellPackaging(r)
  BY <1>4, <1>s, <1>t DEF TellPackaging, Go
<1>5. CASE Install(r)
  BY <1>5, <1>s, <1>t DEF Install, Go
<1>6. CASE Layout(r)
  BY <1>6, <1>s, <1>t DEF Layout, Go
<1>7. CASE FindCluster(r)
  BY <1>7, <1>s, <1>t DEF FindCluster, Go
<1>8. CASE ClearPlaceholder(r)
  BY <1>8, <1>s, <1>t DEF ClearPlaceholder, Go
<1>9. CASE MakeCluster(r)
  BY <1>9, <1>s, <1>t DEF MakeCluster, Go
<1>10. CASE KeepCluster(r)
  BY <1>10, <1>s, <1>t DEF KeepCluster, Go
<1>11. CASE Configure(r)
  BY <1>11, <1>s, <1>t DEF Configure, Go
<1>12. CASE WriteSettings(r)
  BY <1>12, <1>s, <1>t DEF WriteSettings, Go
<1>13. CASE LoadSettings(r)
  BY <1>13, <1>s, <1>t DEF LoadSettings, Go
<1>14. CASE StartInstance(r)
  BY <1>14, <1>s, <1>t DEF StartInstance, Go
<1>15. CASE FlushHandlers(r)
  BY <1>15, <1>s, <1>t DEF FlushHandlers, Go
<1>16. CASE FindSecret(r)
  BY <1>16, <1>s, <1>t DEF FindSecret, Go
<1>17. CASE AskFileStore(r)
  BY <1>17, <1>s, <1>t DEF AskFileStore, Go
<1>18. CASE AskVaultStore(r)
  BY <1>18, <1>s, <1>t DEF AskVaultStore, Go
<1>19. CASE KeepSecret(r)
  BY <1>19, <1>s, <1>t DEF KeepSecret, Go
<1>20. CASE SetPassword(r)
  BY <1>20, <1>s, <1>t DEF SetPassword, Go
<1>21. CASE WriteNote(r)
  BY <1>21, <1>s, <1>t DEF WriteNote, Go
<1> QED
  BY <1>1, <1>2, <1>3, <1>4, <1>5, <1>6, <1>7, <1>8, <1>9, <1>10, <1>11, <1>12, <1>13, <1>14, <1>15, <1>16, <1>17, <1>18, <1>19, <1>20, <1>21 DEF Task

\* The run that takes a step is the only one in flight, before and after it.
LEMMA OthersIdle ==
  ASSUME TypeInv, OneAtATime, NEW r \in Runs, Active(r),
         \A s \in Runs \ {r} : run'[s] = run[s]
  PROVE  OneAtATime' /\ \A s \in Runs \ {r} : ~Active(s) /\ ~Active(s)'
  BY DEF OneAtATime, Active

\* Of a run that is not in flight there is nothing to say.
LEMMA IdleTurn ==
  ASSUME NEW r \in Runs, ~Active(r)'
  PROVE  Checked(r)' /\ Progress(r)' /\ Custody(r)'
  BY DEF Active, Checked, Progress, Custody, CHECKS, TOUCHING, AfterConfigure, AfterWrite,
         AfterLoad, AfterStart

LEMMA TurnTask ==
  ASSUME TypeInv, TurnInv, NEW r \in Runs, Task(r)
  PROVE  TurnInv'
<1>1. Frame(r) /\ Active(r)
  BY TaskFrame
<1>2. OneAtATime' /\ \A s \in Runs \ {r} : ~Active(s)'
  BY <1>1, OthersIdle DEF TurnInv, Frame
<1>3. Checked(r) /\ Progress(r) /\ Custody(r) /\ Stored
  BY DEF TurnInv
<1>4. Stored'
  BY <1>3, TaskStored
<1>5. Checked(r)' /\ Progress(r)' /\ Custody(r)'
  <2>1. CASE Active(r)'
    BY <2>1, <1>3, TaskChecked, TaskProgress, TaskCustody
  <2>2. CASE ~Active(r)'
    BY <2>2, IdleTurn
  <2> QED
    BY <2>1, <2>2
<1>6. \A s \in Runs \ {r} : Checked(s)' /\ Progress(s)' /\ Custody(s)'
  BY <1>2, IdleTurn
<1> QED
  BY <1>2, <1>4, <1>5, <1>6 DEF TurnInv

\* A run ends, or is over before anybody else acts: nobody is in flight.
LEMMA QuietTurn ==
  ASSUME Stored', \A r \in Runs : ~Active(r)'
  PROVE  TurnInv'
  BY IdleTurn DEF TurnInv, OneAtATime, Active

LEMMA TurnEnd ==
  ASSUME TypeInv, TurnInv, NEW r \in Runs, Active(r), run' = [run EXCEPT ![r] = Idle],
         UNCHANGED <<note, held>>,
         \A h \in Hosts : machine'[h].password = machine[h].password
  PROVE  TurnInv'
<1>1. \A s \in Runs : ~Active(s)'
  BY IdleIsRun DEF TypeInv, TypeOK, TurnInv, OneAtATime, Active
<1>2. Stored'
  BY DEF TurnInv, Stored, PasswordIsStored
<1> QED
  BY <1>1, <1>2, QuietTurn

LEMMA TurnLaunch ==
  ASSUME InTurn, TypeInv, TurnInv, NEW r \in Runs, NEW p \in Plans, NEW h \in Hosts,
         NEW ok \in BOOLEAN, Launch(r, p, h, ok)
  PROVE  TurnInv'
<1>1. Quiet /\ h = Says[file[p]].host
  BY DEF Launch, InTurn
<1>2. \A s \in Runs \ {r} : ~Active(s)'
  BY <1>1 DEF TypeInv, TypeOK, Launch, Quiet, Active
<1>3. run'[r].at = "readback" /\ run'[r].plan = p /\ run'[r].target = h
  BY DEF TypeInv, TypeOK, Launch, Idle
<1>4. Checked(r)' /\ Progress(r)' /\ Custody(r)'
  BY <1>1, <1>3 DEF Launch, Checked, Progress, Custody, Doc, TOUCHING, AfterConfigure,
                    AfterWrite, AfterLoad, AfterStart
<1>5. Stored'
  BY DEF TurnInv, Stored, PasswordIsStored, Launch
<1>6. OneAtATime'
  BY <1>2 DEF OneAtATime
<1> QED
  BY <1>2, <1>4, <1>5, <1>6, IdleTurn DEF TurnInv

LEMMA TurnBetween ==
  ASSUME InTurn, TypeInv, TurnInv, Between
  PROVE  TurnInv'
<1>1. Quiet
  BY DEF Between, EditPlan, HandEdit, ChangeHost, Reboot, Rebuild, Undisturbed, InTurn
<1>2. \A r \in Runs : ~Active(r)'
  BY <1>1, IdleIsRun DEF Between, EditPlan, HandEdit, ChangeHost, Reboot, Rebuild, Quiet, Active
<1>3. UNCHANGED <<note, held>>
  BY DEF Between, EditPlan, HandEdit, ChangeHost, Reboot, Rebuild
<1>4. \A h \in Hosts : machine'[h].password \in {machine[h].password, None}
  <2> USE DEF TypeInv, TypeOK, Machine
  <2>1. CASE \E p \in Plans : EditPlan(p)
    BY <2>1 DEF EditPlan
  <2>2. ASSUME NEW h \in Hosts, HandEdit(h)
        PROVE  machine'[h].password = machine[h].password
               /\ \A g \in Hosts \ {h} : machine'[g] = machine[g]
    <3>1. CASE \E c \in HandWritten : machine' = [machine EXCEPT ![h].conf = c]
      BY <3>1
    <3>2. CASE \E t \in Tunables : machine' = [machine EXCEPT ![h].kernel = t]
      BY <3>2
    <3> QED
      BY <2>2, <3>1, <3>2 DEF HandEdit
  <2>3. CASE \E h \in Hosts : ChangeHost(h)
    BY <2>3 DEF ChangeHost
  <2>4. CASE \E h \in Hosts : Reboot(h)
    BY <2>4 DEF Reboot
  <2>5. CASE \E h \in Hosts : Rebuild(h)
    BY <2>5 DEF Rebuild, Blank
  <2> QED
    BY <2>1, <2>2, <2>3, <2>4, <2>5 DEF Between
<1>5. Stored'
  BY <1>3, <1>4 DEF TurnInv, Stored, PasswordIsStored
<1> QED
  BY <1>2, <1>5, QuietTurn

LEMMA StepTurn ==
  ASSUME InTurn, TypeInv, TurnInv, [Next]_vars
  PROVE  TurnInv'
<1>1. ASSUME NEW r \in Runs, MakeInterrupted(r)
      PROVE  TurnInv'
  <2>1. \A h \in Hosts : machine'[h].password = machine[h].password
    BY <1>1 DEF MakeInterrupted, TypeInv, TypeOK, Bound, Active, Machine
  <2> QED
    BY <1>1, <2>1, TurnEnd DEF MakeInterrupted, Active
<1>2. ASSUME NEW r \in Runs, Refuse(r)
      PROVE  TurnInv'
  BY <1>2, TurnEnd DEF Refuse, End, Active
<1>3. ASSUME NEW r \in Runs, Stop(r)
      PROVE  TurnInv'
  BY <1>3, TurnEnd DEF Stop, End
<1>4. CASE UNCHANGED vars
  BY <1>4 DEF vars, TurnInv, OneAtATime, Stored, PasswordIsStored, Checked, Progress,
              Custody, Active, Doc, On, Intact, Fits, Acknowledged
<1> QED
  BY <1>1, <1>2, <1>3, <1>4, TurnTask, TurnLaunch, TurnBetween DEF Next

LEMMA TurnInit == Init => TurnInv
  BY DEF Init, TurnInv, OneAtATime, Stored, PasswordIsStored, Checked, Progress, Custody,
         Active, Idle, Blank, CHECKS, TOUCHING, AfterConfigure, AfterWrite, AfterLoad, AfterStart

THEOREM Turns == InTurn /\ Spec => [](TypeInv /\ TurnInv)
<1>1. InTurn /\ TypeInv /\ TurnInv /\ [Next]_vars => TurnInv'
  BY StepTurn
<1>2. InTurn => InTurn'
  BY DEF InTurn
<1> QED
  BY <1>1, <1>2, TurnInit, Types, PTL DEF Spec

-----------------------------------------------------------------------------
(* What follows for runs that take turns.                                  *)

\* While runs take turns, no task touches a host whose plan is edited, whose
\* plan is another host's, that has drifted, or whose warnings nobody has
\* acknowledged (apply.yml).
THEOREM AllVetted == InTurn /\ Spec => []Vetted
<1>1. TypeInv /\ TurnInv => Vetted
  BY DEF TurnInv, Checked, Vetted, Active, TOUCHING, CHECKS
<1> QED
  BY <1>1, Turns, PTL

\* A run that reaches its last task has done every one before it (apply.yml).
THEOREM NotesAreTrue == InTurn /\ Spec => []NotedIsApplied
<1>1. TypeInv /\ TurnInv => NotedIsApplied
  BY DEF TurnInv, Progress, Custody, NotedIsApplied, AfterConfigure, AfterWrite, AfterLoad,
         AfterStart
<1> QED
  BY <1>1, Turns, PTL

\* A password on a cluster is the one the store holds for it, in either store
\* and whatever was interrupted or rebuilt in between (secret.yml).
THEOREM PasswordsAreStored == InTurn /\ Spec => []PasswordIsStored
<1>1. TypeInv /\ TurnInv => PasswordIsStored
  BY SMTT(30) DEF TurnInv, Stored
<1> QED
  BY <1>1, Turns, PTL

\* What SecretNeverRolls says of one step.
Keeping == \A h \in Hosts : held[h] # None => held'[h] = held[h]

\* Only two tasks write to a store.
LEMMA OnlyTasksStore ==
  ASSUME TypeInv, [Next]_vars,
         \A r \in Runs : ~AskFileStore(r) /\ ~KeepSecret(r)
  PROVE  held' = held
<1>1. ASSUME NEW r \in Runs, Task(r)
      PROVE  held' = held
  BY <1>1 DEF Task, ReadBack, CheckDrift, CheckWarnings, TellPackaging, Install, Layout,
     FindCluster, ClearPlaceholder, MakeCluster, KeepCluster, Configure, WriteSettings,
     LoadSettings, StartInstance, FlushHandlers, FindSecret, AskVaultStore, SetPassword,
     WriteNote
<1>2. CASE Between
  BY <1>2 DEF Between, EditPlan, HandEdit, ChangeHost, Reboot, Rebuild
<1> QED
  BY <1>1, <1>2, ZenonT(30) DEF Next, Launch, MakeInterrupted, Refuse, Stop, End, vars

LEMMA FileStoreKeeps ==
  ASSUME TypeInv, NEW r \in Runs, AskFileStore(r)
  PROVE  Keeping
<1>1. PICK s \in IF held[Doc(r).host] = None THEN Secrets \ InUse ELSE {held[Doc(r).host]} :
        held' = [held EXCEPT ![Doc(r).host] = s]
  BY DEF AskFileStore
<1> QED
  BY <1>1 DEF Keeping, TypeInv, TypeOK

LEMMA VaultStoreKeeps ==
  ASSUME TypeInv, TurnInv, NEW r \in Runs, KeepSecret(r)
  PROVE  Keeping
<1>1. run[r].new <=> held[Doc(r).host] = None
  BY DEF KeepSecret, TurnInv, Custody
<1> QED
  BY <1>1 DEF KeepSecret, Keeping, TypeInv, TypeOK

\* A stored secret is never replaced while runs take turns (secret_vault.yml).
THEOREM NoneRolled == InTurn /\ Spec => SecretNeverRolls
<1>1. TypeInv /\ TurnInv /\ [Next]_vars => [Keeping]_vars
  BY OnlyTasksStore, FileStoreKeeps, VaultStoreKeeps DEF Keeping
<1> QED
  BY <1>1, Turns, PTL DEF Spec, SecretNeverRolls, Keeping

-----------------------------------------------------------------------------
(* The same plan again.                                                    *)

LEMMA SameMachine ==
  ASSUME NEW m \in Machine
  PROVE  /\ m.told = TRUE => [m EXCEPT !.told = TRUE] = m
         /\ m.installed = TRUE => [[m EXCEPT !.installed = TRUE] EXCEPT !.data = m.data] = m
  BY DEF Machine

LEMMA SettledTask ==
  ASSUME TypeInv, NEW r \in Runs, Custody(r), Task(r), Settled(r)
  PROVE  UNCHANGED <<note, held, machine>>
<1>s. /\ run[r].target \in Hosts /\ Doc(r).host \in Hosts /\ Doc(r).id \in Plans /\ Active(r)
      /\ machine[run[r].target] \in Machine /\ None \notin Plans
  BY TaskFrame, DocSays, NoneAssumption, SaysAssumption DEF On
<1>t. /\ run \in [Runs -> Run] /\ held \in [Hosts -> Secrets \cup {None}]
      /\ note \in [Hosts -> Plans \cup {None}] /\ machine \in [Hosts -> Machine]
  BY DEF TypeInv, TypeOK
<1> USE DEF Custody, Settled, Run, Machine, On, CanMake
<1>1. CASE ReadBack(r)
  BY <1>1, <1>s, <1>t DEF ReadBack, Go
<1>2. CASE CheckDrift(r)
  BY <1>2, <1>s, <1>t DEF CheckDrift, Go
<1>3. CASE CheckWarnings(r)
  BY <1>3, <1>s, <1>t DEF CheckWarnings, Go
<1>4. CASE TellPackaging(r)
  <2>1. [machine[run[r].target] EXCEPT !.told = TRUE] = machine[run[r].target]
    BY <1>s, SameMachine
  <2>2. machine' = [machine EXCEPT ![run[r].target] = machine[run[r].target]]
    BY <2>1, <1>4, <1>t DEF TellPackaging
  <2>3. UNCHANGED <<note, held>>
    BY <1>4 DEF TellPackaging
  <2> QED
    BY <2>2, <2>3, <1>t
<1>5. CASE Install(r)
  <2> DEFINE m == machine[run[r].target]
  <2>1. m.installed = TRUE
    BY <1>s
  <2>2. [[m EXCEPT !.installed = TRUE] EXCEPT !.data = m.data] = m
    BY <2>1, <1>s, SameMachine
  <2>3. machine' = [machine EXCEPT ![run[r].target] =
                      [[m EXCEPT !.installed = TRUE] EXCEPT !.data = m.data]]
    BY <2>1, <1>5, <1>s, <1>t DEF Install
  <2>4. machine' = [machine EXCEPT ![run[r].target] = m]
    BY <2>2, <2>3
  <2>5. UNCHANGED <<note, held>>
    BY <1>5 DEF Install
  <2> QED
    BY <2>4, <2>5, <1>t
<1>6. CASE Layout(r)
  BY <1>6, <1>s, <1>t DEF Layout, Go
<1>7. CASE FindCluster(r)
  BY <1>7, <1>s, <1>t DEF FindCluster, Go
<1>8. CASE ClearPlaceholder(r)
  BY <1>8, <1>s, <1>t DEF ClearPlaceholder, Go
<1>9. CASE MakeCluster(r)
  BY <1>9, <1>s, <1>t DEF MakeCluster, Go
<1>10. CASE KeepCluster(r)
  BY <1>10, <1>s, <1>t DEF KeepCluster, Go
<1>11. CASE Configure(r)
  BY <1>11, <1>s, <1>t DEF Configure, Go
<1>12. CASE WriteSettings(r)
  BY <1>12, <1>s, <1>t DEF WriteSettings, Go
<1>13. CASE LoadSettings(r)
  BY <1>13, <1>s, <1>t DEF LoadSettings, Go
<1>14. CASE StartInstance(r)
  BY <1>14, <1>s, <1>t DEF StartInstance, Go
<1>15. CASE FlushHandlers(r)
  BY <1>15, <1>s, <1>t DEF FlushHandlers, Go
<1>16. CASE FindSecret(r)
  BY <1>16, <1>s, <1>t DEF FindSecret, Go
<1>17. CASE AskFileStore(r)
  BY <1>17, <1>s, <1>t DEF AskFileStore, Go
<1>18. CASE AskVaultStore(r)
  BY <1>18, <1>s, <1>t DEF AskVaultStore, Go
<1>19. CASE KeepSecret(r)
  BY <1>19, <1>s, <1>t DEF KeepSecret, Go
<1>20. CASE SetPassword(r)
  BY <1>20, <1>s, <1>t DEF SetPassword, Go
<1>21. CASE WriteNote(r)
  BY <1>21, <1>s, <1>t DEF WriteNote, Go
<1> QED
  BY <1>1, <1>2, <1>3, <1>4, <1>5, <1>6, <1>7, <1>8, <1>9, <1>10, <1>11, <1>12, <1>13, <1>14, <1>15, <1>16, <1>17, <1>18, <1>19, <1>20, <1>21 DEF Task

\* A second run of the same plan on a host nobody touched changes nothing
\* (ADR-0010).
THEOREM AgainIsTheSame == InTurn /\ Spec => SameAgain
<1> DEFINE Again == \A r \in Runs : Task(r) /\ Settled(r) => UNCHANGED <<note, held, machine>>
<1>1. TypeInv /\ TurnInv => Again
  BY SettledTask DEF TurnInv
<1>2. TypeInv /\ TurnInv /\ [Next]_vars => [Again]_vars
  BY <1>1
<1> QED
  BY <1>2, Turns, PTL DEF Spec, SameAgain
-----------------------------------------------------------------------------
(* The file store, however many runs there are at once.                    *)

\* A file store never writes to a store what an earlier task decided.
NeverKeeps == \A r \in Runs : run[r].at # "keep"

LEMMA NeverKeepsStep ==
  ASSUME Store = "file", TypeInv, NeverKeeps, [Next]_vars
  PROVE  NeverKeeps'
<1> USE DEF TypeInv, TypeOK, NeverKeeps, Run
<1>1. ASSUME NEW r \in Runs, Task(r)
      PROVE  NeverKeeps'
  <2>1. \A s \in Runs \ {r} : run'[s] = run[s]
    BY <1>1, TaskFrame DEF Frame
  <2>2. run'[r].at # "keep"
    BY <1>1, IdleIsRun DEF Task, Go, ReadBack, CheckDrift, CheckWarnings, TellPackaging,
       Install, Layout, FindCluster, ClearPlaceholder, MakeCluster, KeepCluster, Configure,
       WriteSettings, LoadSettings, StartInstance, FlushHandlers, FindSecret, AskFileStore,
       AskVaultStore, KeepSecret, SetPassword, WriteNote
  <2> QED
    BY <2>1, <2>2
<1>2. CASE Between
  BY <1>2, IdleIsRun DEF Between, EditPlan, HandEdit, ChangeHost, Reboot, Rebuild
<1>3. ASSUME NEW r \in Runs, MakeInterrupted(r) \/ Refuse(r) \/ Stop(r)
      PROVE  NeverKeeps'
  BY <1>3, IdleIsRun DEF MakeInterrupted, Refuse, Stop, End
<1>4. ASSUME NEW r \in Runs, NEW p \in Plans, NEW h \in Hosts, NEW ok \in BOOLEAN,
             Launch(r, p, h, ok)
      PROVE  NeverKeeps'
  BY <1>4 DEF Launch, Idle
<1>5. CASE UNCHANGED vars
  BY <1>5 DEF vars
<1> QED
  BY <1>1, <1>2, <1>3, <1>4, <1>5 DEF Next

\* A secret in a file store is never replaced, whatever overlaps, is edited,
\* named by hand or interrupted: one lookup finds and writes (secret_file.yml).
THEOREM NoFileIsRolled == Store = "file" /\ Spec => SecretNeverRolls
<1>1. Init => NeverKeeps
  BY DEF Init, NeverKeeps, Idle
<1>2. Store = "file" /\ TypeInv /\ NeverKeeps /\ [Next]_vars => NeverKeeps'
  BY NeverKeepsStep
<1>3. TypeInv /\ NeverKeeps /\ [Next]_vars => [Keeping]_vars
  BY OnlyTasksStore, FileStoreKeeps DEF Keeping, NeverKeeps, KeepSecret
<1>4. Store = "file" => (Store = "file")'
  OBVIOUS
<1> QED
  BY <1>1, <1>2, <1>3, <1>4, Types, PTL DEF Spec, SecretNeverRolls, Keeping

\* Nobody names the target by hand, and what a plan file says is of one host for
\* as long as a run reads it: nobody edits it then, or no plan is of another.
OwnHosts ==
  /\ "OtherHost" \notin Circumstances
  /\ "MidRun" \notin Circumstances \/ \A d, e \in Documents : Says[d].host = Says[e].host

\* A run is on its plan's host, and the password it is about to set is the one
\* in the file.
FileCustody ==
  /\ \A r \in Runs : Active(r) => Doc(r).host = run[r].target
  /\ \A r \in Runs : run[r].at = "set" =>
       run[r].value # None /\ run[r].value = held[run[r].target]
  /\ PasswordIsStored

FileInv == NeverKeeps /\ FileCustody

LEMMA FileInit == Init => FileInv
  BY DEF Init, FileInv, NeverKeeps, FileCustody, PasswordIsStored, Active, Idle, Blank

\* What is read of a file is not edited under a run, to say another host.
LEMMA SameHostSaid ==
  ASSUME OwnHosts, TypeInv, TypeInv', FileCustody, [Next]_vars,
         NEW r \in Runs, Active(r), Active(r)',
         run'[r].plan = run[r].plan, run'[r].target = run[r].target
  PROVE  Doc(r)'.host = run'[r].target
<1>1. run[r].plan \in Plans /\ file \in [Plans -> Documents] /\ file' \in [Plans -> Documents]
  BY DEF TypeInv, TypeOK, Bound
<1>2. Says[file[run[r].plan]].host = run[r].target
  BY DEF FileCustody, Doc
<1>3. CASE file' = file
  BY <1>2, <1>3 DEF Doc
<1>4. CASE file' # file
  <2>1. \E p \in Plans : EditPlan(p)
    <3>1. ASSUME NEW s \in Runs, Task(s)
          PROVE  file' = file
      BY <3>1, TaskFrame DEF Frame
    <3> QED
      BY <1>4, <3>1 DEF Next, vars, Launch, MakeInterrupted, Refuse, Stop, End, Between,
         HandEdit, ChangeHost, Reboot, Rebuild
  <2>2. "MidRun" \in Circumstances
    BY <2>1 DEF EditPlan, Undisturbed, Quiet
  <2>3. Says[file'[run[r].plan]].host = Says[file[run[r].plan]].host
    BY <1>1, <2>2 DEF OwnHosts
  <2> QED
    BY <1>2, <2>3, SMTT(30) DEF Doc
<1> QED
  BY <1>3, <1>4

\* A lookup in the file store answers what is in the file afterwards, and leaves
\* what the other runs have looked up where it was.
LEMMA LookupCustody ==
  ASSUME TypeInv, FileCustody, NEW r \in Runs, AskFileStore(r)
  PROVE  /\ run'[r].value # None /\ run'[r].value = held'[run[r].target]
         /\ \A h \in Hosts : held[h] # None => held'[h] = held[h]
         /\ machine' = machine
<1>1. Active(r) /\ Doc(r).host = run[r].target /\ run[r].target \in Hosts
  BY DEF AskFileStore, Active, FileCustody, TypeInv, Bound
<1>2. PICK s \in IF held[Doc(r).host] = None THEN Secrets \ InUse ELSE {held[Doc(r).host]} :
        /\ held' = [held EXCEPT ![Doc(r).host] = s]
        /\ run' = [run EXCEPT ![r].at = "set", ![r].value = s]
  BY DEF AskFileStore
<1>3. s # None
  BY <1>2, NoneAssumption
<1>4. run'[r].value = s /\ held'[run[r].target] = s
  BY <1>1, <1>2 DEF TypeInv, TypeOK, Run
<1> QED
  BY <1>3, <1>4, FileStoreKeeps DEF Keeping, AskFileStore

\* No other task of a file store's run writes to the store, arrives at setting
\* a password with anything but what the lookup answered, or changes one.
LEMMA TaskFileCustody ==
  ASSUME TypeInv, FileInv, Store = "file", NEW r \in Runs, Task(r)
  PROVE  /\ run'[r].at = "set" => run'[r].value # None /\ run'[r].value = held'[run[r].target]
         /\ \A h \in Hosts : held[h] # None => held'[h] = held[h]
         /\ \A h \in Hosts : machine'[h].password = machine[h].password
              \/ machine'[h].password = held'[h]
<1> USE DEF FileInv, FileCustody, NeverKeeps, TypeInv, TypeOK, Run, Machine, Bound
<1>0. Frame(r) /\ Active(r) /\ run[r].target \in Hosts
  BY TaskFrame
<1>1. CASE AskFileStore(r)
  BY <1>1, LookupCustody
<1>2. CASE SetPassword(r)
  <2>1. held' = held /\ run'[r].at = "note"
    BY <1>2 DEF SetPassword, Go
  <2>2. run[r].value = held[run[r].target]
    BY <1>2 DEF SetPassword
  <2>3. \A h \in Hosts : machine'[h].password \in {machine[h].password, held[h]}
    <3>1. machine'[run[r].target].password
            = IF run[r].new THEN run[r].value ELSE machine[run[r].target].password
      BY <1>0, <1>2 DEF SetPassword
    <3>2. \A h \in Hosts \ {run[r].target} : machine'[h] = machine[h]
      BY <1>0 DEF Frame
    <3> QED
      BY <2>2, <3>1, <3>2
  <2> QED
    BY <2>1, <2>3
<1>3. CASE ~AskFileStore(r) /\ ~SetPassword(r)
  <2>1. ~KeepSecret(r) /\ ~AskVaultStore(r)
    BY DEF KeepSecret, AskVaultStore
  <2>2. held' = held /\ run'[r].at # "set"
    BY <1>0, <1>3, <2>1, IdleIsRun
    DEF Task, ReadBack, CheckDrift, CheckWarnings, TellPackaging, Install, Layout,
        FindCluster, ClearPlaceholder, MakeCluster, KeepCluster, Configure, WriteSettings,
        LoadSettings, StartInstance, FlushHandlers, FindSecret, WriteNote, Go
  <2>3. machine'[run[r].target].password = machine[run[r].target].password
    BY <1>0, <1>3, <2>1
    DEF Task, ReadBack, CheckDrift, CheckWarnings, TellPackaging, Install, Layout,
        FindCluster, ClearPlaceholder, MakeCluster, KeepCluster, Configure, WriteSettings,
        LoadSettings, StartInstance, FlushHandlers, FindSecret, WriteNote, Go
  <2> QED
    BY <1>0, <2>2, <2>3 DEF Frame
<1> QED
  BY <1>1, <1>2, <1>3

LEMMA FileCustodyStep ==
  ASSUME OwnHosts, Store = "file", TypeInv, TypeInv', FileInv, [Next]_vars
  PROVE  FileCustody'
<1> USE DEF TypeInv, TypeOK, Run, Machine, Bound, Active
<1>1. ASSUME NEW r \in Runs, Task(r)
      PROVE  FileCustody'
  <2>1. Frame(r) /\ Active(r) /\ run[r].target \in Hosts
    BY <1>1, TaskFrame
  <2>2. ASSUME NEW s \in Runs, Active(s)'
        PROVE  Doc(s)'.host = run'[s].target
    <3>1. Active(s) /\ run'[s].plan = run[s].plan /\ run'[s].target = run[s].target
      BY <2>1, <2>2, IdleIsRun DEF Frame
    <3> QED
      BY <2>2, <3>1, SameHostSaid DEF FileInv
  <2>3. ASSUME NEW s \in Runs, run'[s].at = "set"
        PROVE  run'[s].value # None /\ run'[s].value = held'[run'[s].target]
    <3>1. CASE s = r
      BY <1>1, <2>1, <2>3, <3>1, TaskFileCustody, IdleIsRun DEF Frame
    <3>2. CASE s # r
      BY <1>1, <2>1, <2>3, <3>2, TaskFileCustody DEF Frame, FileInv, FileCustody
    <3> QED
      BY <3>1, <3>2
  <2>4. PasswordIsStored'
    BY <1>1, TaskFileCustody DEF FileInv, FileCustody, PasswordIsStored
  <2> QED
    BY <2>2, <2>3, <2>4 DEF FileCustody
<1>2. ASSUME held' = held,
             \A r \in Runs : run'[r] = run[r] \/ run'[r] = Idle \/ run'[r].at = "readback",
             \A r \in Runs : run'[r].at = "readback" /\ run'[r] # run[r]
                             => Doc(r)'.host = run'[r].target,
             \A h \in Hosts : machine'[h].password \in {machine[h].password, None}
      PROVE  FileCustody'
  <2>1. ASSUME NEW s \in Runs, Active(s)'
        PROVE  Doc(s)'.host = run'[s].target
    BY <1>2, <2>1, SameHostSaid, IdleIsRun DEF FileInv
  <2>2. \A s \in Runs : run'[s].at = "set" => run'[s] = run[s]
    BY <1>2, IdleIsRun
  <2> QED
    BY <1>2, <2>1, <2>2 DEF FileInv, FileCustody, PasswordIsStored
<1>3. CASE Between
  <2>1. held' = held /\ \A r \in Runs : run'[r] = run[r] \/ run'[r] = Idle
    BY <1>3 DEF Between, EditPlan, HandEdit, ChangeHost, Reboot, Rebuild
  <2>2. \A h \in Hosts : machine'[h].password \in {machine[h].password, None}
    <3>1. CASE \E p \in Plans : EditPlan(p)
      BY <3>1 DEF EditPlan
    <3>2. CASE \E h \in Hosts : HandEdit(h)
      BY <3>2 DEF HandEdit
    <3>3. CASE \E h \in Hosts : ChangeHost(h)
      BY <3>3 DEF ChangeHost
    <3>4. CASE \E h \in Hosts : Reboot(h)
      BY <3>4 DEF Reboot
    <3>5. CASE \E h \in Hosts : Rebuild(h)
      BY <3>5 DEF Rebuild, Blank
    <3> QED
      BY <1>3, <3>1, <3>2, <3>3, <3>4, <3>5 DEF Between
  <2> QED
    BY <1>2, <2>1, <2>2, IdleIsRun
<1>4. ASSUME NEW r \in Runs, MakeInterrupted(r) \/ Refuse(r) \/ Stop(r)
      PROVE  FileCustody'
  <2>1. held' = held /\ \A s \in Runs : run'[s] = run[s] \/ run'[s] = Idle
    BY <1>4 DEF MakeInterrupted, Refuse, Stop, End
  <2>2. \A h \in Hosts : machine'[h].password = machine[h].password
    <3>1. CASE MakeInterrupted(r)
      <4>1. PICK left \in {"partial", "torn"} :
              machine' = [machine EXCEPT ![run[r].target].data = left]
        BY <3>1 DEF MakeInterrupted
      <4> QED
        BY <4>1
    <3>2. CASE Refuse(r) \/ Stop(r)
      BY <3>2 DEF Refuse, Stop, End
    <3> QED
      BY <1>4, <3>1, <3>2
  <2> QED
    BY <1>2, <2>1, <2>2, IdleIsRun
<1>5. ASSUME NEW r \in Runs, NEW p \in Plans, NEW h \in Hosts, NEW ok \in BOOLEAN,
             Launch(r, p, h, ok)
      PROVE  FileCustody'
  <2>1. /\ h = Says[file[p]].host /\ held' = held /\ machine' = machine /\ file' = file
        /\ run'[r].at = "readback" /\ run'[r].plan = p /\ run'[r].target = h
        /\ \A s \in Runs \ {r} : run'[s] = run[s]
    BY <1>5 DEF Launch, OwnHosts, Idle
  <2> QED
    BY <1>2, <2>1 DEF Doc
<1>6. CASE UNCHANGED vars
  BY <1>6 DEF vars, FileInv, FileCustody, Doc, PasswordIsStored
<1> QED
  BY <1>1, <1>3, <1>4, <1>5, <1>6 DEF Next

\* Even of runs that overlap, are interrupted and repeated: the password a file
\* store's run sets on a cluster is the one it handed out (secret_file.yml).
THEOREM FilePasswordsAreStored == OwnHosts /\ Store = "file" /\ Spec => []PasswordIsStored
<1>1. Init => FileInv
  BY FileInit
<1>2. TypeInv /\ [Next]_vars => TypeInv'
  BY TaskType, OtherType
<1>3. OwnHosts /\ Store = "file" /\ TypeInv /\ TypeInv' /\ FileInv /\ [Next]_vars => FileInv'
  BY NeverKeepsStep, FileCustodyStep DEF FileInv
<1>4. FileInv => PasswordIsStored
  BY DEF FileInv, FileCustody
<1>5. OwnHosts /\ Store = "file" => (OwnHosts /\ Store = "file")'
  BY DEF OwnHosts
<1> QED
  BY <1>1, <1>2, <1>3, <1>4, <1>5, Types, PTL DEF Spec
=============================================================================
