--------------------------- MODULE ReadingsProofs ---------------------------
(***************************************************************************)
(* What TLAPS proves of Readings: what a yes and a no are worth, for any   *)
(* number of runs, engines, plans, changes and stops.                      *)
(*                                                                         *)
(* The argument is where a reading on paper comes from.  A run that is     *)
(* about to decide has written the file itself, so whoever wrote it last   *)
(* did so while that run was in flight; and what a run has read was so at  *)
(* some moment of its own flight.                                          *)
(***************************************************************************)
EXTENDS Readings, TLAPS

Steps == {"idle", "early", "late", "ask", "write", "back", "decide", "ended"}

\* What may be said of the world, and was said of it while a run was in flight.
WorldOK ==
  /\ task \in Launches
  /\ \A t \in Things, p \in PARTS : world[t][p] \in Conditions(t)
  /\ DOMAIN world = Things /\ \A t \in Things : DOMAIN world[t] = PARTS
  /\ DOMAIN since = Runs /\ \A r \in Runs : DOMAIN since[r] = PARTS
  /\ \A r \in Runs, p \in PARTS : since[r][p] \subseteq Conditions(Thing(r))
  /\ \A r \in Runs, p \in PARTS : InFlight(r) => world[Thing(r)][p] \in since[r][p]

\* Runs in flight together know of each other, and of nobody who never was.
Met ==
  /\ \A r, s \in Runs : InFlight(r) /\ InFlight(s) /\ r # s => s \in beside[r]
  /\ \A r \in Runs : \A s \in beside[r] : at[s] # "idle"
  /\ \A r \in Runs : answer[r] # None => at[r] = "ended"

\* What a run is told when it asks for repositories.
Heard(r) ==
  IF Verifies(r) \/ task[r].name = None THEN None ELSE {task[r].name} \cap Reachable

\* What a run has read so far was so while it was in flight.
Told(r) ==
  /\ at[r] \in {"idle", "early"} => told[r] = Nothing
  /\ at[r] \in {"late", "ask", "write"} =>
       told[r].name = task[r].name /\ told[r].early \in since[r]["early"]
  /\ at[r] \in {"ask", "write"} => told[r].late \in since[r]["late"]
  /\ at[r] \in {"late", "ask"} => told[r].answered = None
  /\ at[r] = "ask" => ~Verifies(r)
  /\ at[r] = "write" => told[r].answered = Heard(r)

\* A reading is what run s was told.
Of(s, said) ==
  /\ said.name = task[s].name /\ said.answered = Heard(s)
  /\ said.early \in since[s]["early"] /\ said.late \in since[s]["late"]

\* A run that has written finds what it wrote, or what a run beside it did.
Written(r) ==
  at[r] \in {"back", "decide"} =>
    \E s \in Runs : s \in {r} \cup beside[r] /\ File(s) = File(r) /\ Of(s, paper[File(r)])

Inv ==
  /\ TypeOK /\ WorldOK /\ Met
  /\ \A r \in Runs : Told(r) /\ Written(r)
  /\ YesWasTrue /\ NoWasTrue /\ UnaskedOnlyBeside

-----------------------------------------------------------------------------
(* A step of one run.                                                      *)

LEMMA Tasks ==
  ASSUME WorldOK, NEW r \in Runs
  PROVE  /\ \/ task[r].verb = "gather" /\ task[r].name \in Engines \cup {None}
            \/ task[r].verb = "plan" /\ task[r].name \in Engines
            \/ task[r].verb = "verify" /\ task[r].name \in Plans
         /\ Thing(r) \in Things /\ File(r) \in {"facts", "observation"}
BY LaunchesAssumption DEF WorldOK, Thing, Things, Instances, Verifies, File

LEMMA InitInv == Init => Inv
<1> SUFFICES ASSUME Init PROVE Inv
  OBVIOUS
<1>1. TypeOK
  BY NobodyAssumption DEF Init, TypeOK, Reading, Nothing
<1>2. Met /\ YesWasTrue /\ NoWasTrue /\ UnaskedOnlyBeside
  BY NobodyAssumption DEF Init, Met, InFlight, YesWasTrue, NoWasTrue, UnaskedOnlyBeside
<1>3. \A r \in Runs : Told(r) /\ Written(r)
  BY DEF Init, Told, Written
<1>4. WorldOK
  <2>1. \A t \in Things, p \in PARTS : world[t][p] \in Conditions(t)
    BY DEF Init, Conditions, CONDITIONS
  <2> QED BY <2>1 DEF Init, WorldOK, InFlight
<1> QED BY <1>1, <1>2, <1>3, <1>4 DEF Inv

\* What was so lately goes on having been so.
LEMMA Later ==
  ASSUME Inv, task' = task,
         \A r \in Runs, p \in PARTS : at[r] # "idle" => since[r][p] \subseteq since'[r][p],
         \A r \in Runs : at[r] # "idle" => beside[r] \subseteq beside'[r]
  PROVE  /\ \A r \in Runs, p \in PARTS : at[r] # "idle" => Lately(r, p) \subseteq Lately(r, p)'
         /\ \A r \in Runs : Thing(r)' = Thing(r) /\ File(r)' = File(r)
                            /\ Verifies(r)' = Verifies(r) /\ Heard(r)' = Heard(r)
<1>1. \A r \in Runs : Thing(r)' = Thing(r) /\ File(r)' = File(r)
                      /\ Verifies(r)' = Verifies(r) /\ Heard(r)' = Heard(r)
  BY DEF Thing, File, Verifies, Heard
<1>2. ASSUME NEW r \in Runs, NEW p \in PARTS, at[r] # "idle", NEW c \in Lately(r, p)
      PROVE  c \in Lately(r, p)'
  <2>1. PICK s \in {r} \cup beside[r] : Thing(s) = Thing(r) /\ c \in since[s][p]
    BY DEF Lately
  <2>2. s \in Runs /\ at[s] # "idle"
    BY <1>2 DEF Inv, TypeOK, Met
  <2>3. s \in {r} \cup beside'[r] /\ Thing(s)' = Thing(r)' /\ c \in since'[s][p]
    BY <1>1, <1>2, <2>1, <2>2
  <2> QED BY <2>3 DEF Lately
<1> QED BY <1>1, <1>2

\* Answers that were good are good when nobody answers.
LEMMA AnswersKept ==
  ASSUME Inv, task' = task,
         \A r \in Runs, p \in PARTS : at[r] # "idle" => since[r][p] \subseteq since'[r][p],
         \A r \in Runs : at[r] # "idle" => beside[r] \subseteq beside'[r],
         \A r \in Runs : answer'[r] = "yes" /\ task[r].verb # "gather" => answer[r] = "yes",
         \A r \in Runs : answer'[r] = "no" => answer[r] = "no"
  PROVE  YesWasTrue' /\ NoWasTrue' /\ UnaskedOnlyBeside'
<1>1. \A r \in Runs : answer[r] \in {"yes", "no"} => at[r] # "idle"
  BY NobodyAssumption DEF Inv, Met
<1>2. YesWasTrue'
  BY <1>1, Later DEF Inv, YesWasTrue
<1>3. NoWasTrue'
  <2> SUFFICES ASSUME NEW r \in Runs, answer'[r] = "no"
               PROVE  \/ \E p \in PARTS : "unfit" \in Lately(r, p)'
                      \/ ~Verifies(r)' /\ task'[r].name \notin Reachable
                      \/ ~Verifies(r)' /\ \E s \in beside'[r] :
                           task'[s].verb # "verify" /\ task'[s].name \notin {task'[r].name, None}
    BY DEF NoWasTrue
  <2>1. answer[r] = "no" /\ at[r] # "idle"
    BY <1>1
  <2>2. CASE \E p \in PARTS : "unfit" \in Lately(r, p)
    BY <2>1, <2>2, Later
  <2>3. CASE ~Verifies(r) /\ task[r].name \notin Reachable
    BY <2>3, Later
  <2>4. CASE ~Verifies(r) /\ \E s \in beside[r] :
               task[s].verb # "verify" /\ task[s].name \notin {task[r].name, None}
    <3>1. ~Verifies(r)'
      BY <2>4, Later
    <3>2. beside[r] \subseteq beside'[r]
      BY <2>1
    <3> QED BY <2>4, <3>1, <3>2
  <2> QED BY <2>1, <2>2, <2>3, <2>4 DEF Inv, NoWasTrue
<1>4. UnaskedOnlyBeside'
  <2> SUFFICES ASSUME NEW r \in Runs, answer'[r] = "yes", task'[r].verb = "plan"
               PROVE  \/ task'[r].name \in Reachable
                      \/ \E s \in beside'[r] : task'[s].verb = "gather" /\ task'[s].name = None
    BY DEF UnaskedOnlyBeside
  <2>1. answer[r] = "yes" /\ at[r] # "idle"
    BY <1>1
  <2>2. beside[r] \subseteq beside'[r]
    BY <2>1
  <2> QED BY <2>1, <2>2 DEF Inv, UnaskedOnlyBeside
<1> QED BY <1>2, <1>3, <1>4

\* What is on paper is good while nobody writes and nobody has just written.
LEMMA WrittenKept ==
  ASSUME Inv, task' = task, paper' = paper,
         \A r \in Runs, p \in PARTS : at[r] # "idle" => since[r][p] \subseteq since'[r][p],
         \A r \in Runs : at[r] # "idle" => beside[r] \subseteq beside'[r],
         NEW r \in Runs, at'[r] \in {"back", "decide"} => at[r] \in {"back", "decide"}
  PROVE  Written(r)'
<1> SUFFICES ASSUME at'[r] \in {"back", "decide"}
             PROVE  \E s \in Runs : s \in {r} \cup beside'[r] /\ File(s)' = File(r)'
                                    /\ Of(s, paper[File(r)])'
  BY DEF Written
<1>1. at[r] \in {"back", "decide"} /\ Written(r)
  BY DEF Inv
<1>2. PICK s \in Runs : s \in {r} \cup beside[r] /\ File(s) = File(r) /\ Of(s, paper[File(r)])
  BY <1>1 DEF Written
<1>3. at[s] # "idle"
  BY <1>1, <1>2 DEF Inv, Met
<1>4. File(s)' = File(s) /\ File(r)' = File(r)
  BY Later
<1>5. \A p \in PARTS : since[s][p] \subseteq since'[s][p]
  BY <1>3
<1> HIDE DEF Inv
<1>6. Heard(s)' = Heard(s) /\ paper'[File(r)'] = paper[File(r)] /\ "early" \in PARTS /\ "late" \in PARTS
  BY <1>4 DEF Heard, Verifies, PARTS
<1>7. s \in {r} \cup beside'[r]
  BY <1>1, <1>2
<1>8. Of(s, paper[File(r)])'
  BY <1>2, <1>5, <1>6 DEF Of
<1>9. File(s)' = File(r)'
  BY <1>2, <1>4
<1> QED BY <1>7, <1>8, <1>9 DEF Of

\* A step of a run in flight takes nothing from what the others have read.
LEMMA StepKeeps ==
  ASSUME Inv, Lived, NEW r \in Runs, NEW x \in Steps \ {"idle"}, Go(r, x), InFlight(r),
         \A q \in Runs \ {r} : told'[q] = told[q] /\ answer'[q] = answer[q],
         answer'[r] = answer[r] \/ x = "ended"
  PROVE  WorldOK' /\ Met' /\ \A q \in Runs \ {r} : Told(q)'
<1>1. /\ at' = [at EXCEPT ![r] = x] /\ at[r] \notin {"idle", "ended"}
      /\ at \in [Runs -> Steps] /\ x # "idle"
  BY DEF Go, InFlight, Inv, TypeOK, Steps
<1>2. \A q \in Runs : at'[q] = IF q = r THEN x ELSE at[q]
  BY <1>1
<1>3. \A q \in Runs : InFlight(q)' => InFlight(q)
  BY <1>1, <1>2 DEF InFlight
<1>4. \A q \in Runs : Thing(q)' = Thing(q) /\ Verifies(q)' = Verifies(q) /\ Heard(q)' = Heard(q)
  BY DEF Lived, Thing, Verifies, Heard
<1>5. WorldOK'
  <2>1. WorldOK
    BY DEF Inv
  <2> QED BY <1>3, <1>4, <2>1 DEF WorldOK, Lived
<1>6. Met'
  <2>1. Met /\ beside \in [Runs -> SUBSET Runs]
    BY DEF Inv, TypeOK
  <2>2. \A q \in Runs : answer'[q] # None => at'[q] = "ended"
    BY <1>1, <1>2, <2>1 DEF Met
  <2>3. \A q \in Runs : \A s \in beside[q] : at'[s] # "idle"
    BY <1>1, <1>2, <2>1 DEF Met
  <2>4. \A q, s \in Runs : InFlight(q)' /\ InFlight(s)' /\ q # s => s \in beside[q]
    BY <1>3, <2>1 DEF Met
  <2> QED BY <2>2, <2>3, <2>4 DEF Met, Lived
<1>7. ASSUME NEW q \in Runs \ {r} PROVE Told(q)'
  <2>1. Told(q) /\ at'[q] = at[q] /\ told'[q] = told[q] /\ task' = task /\ since' = since
    BY <1>2 DEF Inv, Lived
  <2>2. Heard(q)' = Heard(q) /\ Verifies(q)' = Verifies(q)
    BY <1>4
  <2> QED BY <2>1, <2>2 DEF Told, Nothing
<1> QED BY <1>5, <1>6, <1>7

LEMMA EarlyKeeps ==
  ASSUME Inv, NEW r \in Runs, Read(r, "early", "late") PROVE Inv'
<1>1. /\ at[r] = "early" /\ Go(r, "late") /\ Lived /\ UNCHANGED <<paper, answer>>
      /\ told' = [told EXCEPT ![r] = [@ EXCEPT !.name = task[r].name,
                                              !["early"] = world[Thing(r)]["early"]]]
  BY DEF Read
<1>2. InFlight(r) /\ "late" \in Steps \ {"idle"} /\ "early" \in PARTS
  BY <1>1 DEF InFlight, Steps, PARTS
<1>3. told \in [Runs -> Reading] /\ told[r] = Nothing /\ at \in [Runs -> Steps]
  BY <1>1 DEF Inv, TypeOK, Told, Steps
<1>4. \A q \in Runs : told'[q] =
        IF q = r THEN [name |-> task[r].name, early |-> world[Thing(r)]["early"],
                       late |-> None, answered |-> None] ELSE told[q]
  <2>1. \A q \in Runs : told'[q] =
          IF q = r THEN [told[r] EXCEPT !.name = task[r].name,
                                        !["early"] = world[Thing(r)]["early"]] ELSE told[q]
    BY <1>1, <1>3
  <2>2. told[r] = [name |-> None, early |-> None, late |-> None, answered |-> None]
    BY <1>3 DEF Nothing
  <2>3. \A n, w : [told[r] EXCEPT !.name = n, !["early"] = w] =
                    [name |-> n, early |-> w, late |-> None, answered |-> None]
    <3>1. ASSUME NEW n PROVE [told[r] EXCEPT !.name = n] =
            [name |-> n, early |-> None, late |-> None, answered |-> None]
      BY <2>2
    <3>2. ASSUME NEW n, NEW w
          PROVE  [[name |-> n, early |-> None, late |-> None, answered |-> None] EXCEPT !["early"] = w] =
                 [name |-> n, early |-> w, late |-> None, answered |-> None]
      OBVIOUS
    <3>3. ASSUME NEW n, NEW w
          PROVE  [told[r] EXCEPT !.name = n, !["early"] = w] =
                 [[told[r] EXCEPT !.name = n] EXCEPT !["early"] = w]
      OBVIOUS
    <3> QED BY <3>1, <3>2, <3>3
  <2> QED BY <2>1, <2>3
<1>5. world[Thing(r)]["early"] \in since[r]["early"] /\ since[r]["early"] \subseteq CONDITIONS
  BY <1>2 DEF Inv, WorldOK, Conditions, CONDITIONS
<1>6. WorldOK' /\ Met' /\ \A q \in Runs \ {r} : Told(q)'
  BY <1>1, <1>2, <1>4, StepKeeps
<1>7. at' = [at EXCEPT ![r] = "late"]
  BY <1>1 DEF Go
<1>8. Told(r)'
  BY <1>1, <1>3, <1>4, <1>5, <1>7 DEF Told, Lived
<1>9. TypeOK'
  <2>1. task[r].name \in Engines \cup Plans \cup {None}
    BY Tasks DEF Inv
  <2>2. told'[r] \in Reading
    BY <1>4, <1>5, <2>1 DEF Reading
  <2>3. told' \in [Runs -> Reading]
    BY <1>1, <1>3, <1>4, <2>2
  <2>4. at' \in [Runs -> Steps]
    BY <1>3, <1>7 DEF Steps
  <2> QED BY <1>1, <2>3, <2>4 DEF TypeOK, Inv, Lived, Steps
<1>10. YesWasTrue' /\ NoWasTrue' /\ UnaskedOnlyBeside'
  BY <1>1, AnswersKept DEF Lived
<1>11. \A q \in Runs : at'[q] \in {"back", "decide"} => at[q] \in {"back", "decide"}
  BY <1>3, <1>7
<1>12. \A q \in Runs : Written(q)'
  BY <1>1, <1>11, WrittenKept DEF Lived
<1> QED BY <1>6, <1>8, <1>9, <1>10, <1>12 DEF Inv

LEMMA LateKeeps ==
  ASSUME Inv, NEW r \in Runs, Read(r, "late", IF Verifies(r) THEN "write" ELSE "ask") PROVE Inv'
<1> DEFINE x == IF Verifies(r) THEN "write" ELSE "ask"
<1>1. /\ at[r] = "late" /\ Go(r, x) /\ Lived /\ UNCHANGED <<paper, answer>>
      /\ told' = [told EXCEPT ![r] = [@ EXCEPT !.name = task[r].name,
                                              !["late"] = world[Thing(r)]["late"]]]
  BY DEF Read
<1>2. InFlight(r) /\ x \in Steps \ {"idle"} /\ "late" \in PARTS /\ x \in {"write", "ask"}
  BY <1>1 DEF InFlight, Steps, PARTS
<1>3. /\ told \in [Runs -> Reading] /\ at \in [Runs -> Steps]
      /\ told[r].name = task[r].name /\ told[r].early \in since[r]["early"]
      /\ told[r].answered = None
  BY <1>1 DEF Inv, TypeOK, Told, Steps
<1>4. \A q \in Runs : told'[q] =
        IF q = r THEN [name |-> task[r].name, early |-> told[r].early,
                       late |-> world[Thing(r)]["late"], answered |-> None] ELSE told[q]
  <2>1. \A q \in Runs : told'[q] =
          IF q = r THEN [told[r] EXCEPT !.name = task[r].name,
                                        !["late"] = world[Thing(r)]["late"]] ELSE told[q]
    BY <1>1, <1>3
  <2>2. PICK e \in CONDITIONS \cup {None}, l \in CONDITIONS \cup {None} :
          told[r] = [name |-> task[r].name, early |-> e, late |-> l, answered |-> None]
    BY <1>3 DEF Reading
  <2>3. \A n, w : [told[r] EXCEPT !.name = n, !["late"] = w] =
                    [name |-> n, early |-> e, late |-> w, answered |-> None]
    <3>1. ASSUME NEW n PROVE [told[r] EXCEPT !.name = n] =
            [name |-> n, early |-> e, late |-> l, answered |-> None]
      BY <2>2
    <3>2. ASSUME NEW n, NEW w
          PROVE  [[name |-> n, early |-> e, late |-> l, answered |-> None] EXCEPT !["late"] = w] =
                 [name |-> n, early |-> e, late |-> w, answered |-> None]
      OBVIOUS
    <3>3. ASSUME NEW n, NEW w
          PROVE  [told[r] EXCEPT !.name = n, !["late"] = w] =
                 [[told[r] EXCEPT !.name = n] EXCEPT !["late"] = w]
      OBVIOUS
    <3> QED BY <3>1, <3>2, <3>3
  <2>4. told[r].early = e
    BY <2>2
  <2> QED BY <2>1, <2>3, <2>4
<1>5. world[Thing(r)]["late"] \in since[r]["late"] /\ since[r]["late"] \subseteq CONDITIONS
  BY <1>2 DEF Inv, WorldOK, Conditions, CONDITIONS
<1>6. WorldOK' /\ Met' /\ \A q \in Runs \ {r} : Told(q)'
  BY <1>1, <1>2, <1>4, StepKeeps
<1>7. at' = [at EXCEPT ![r] = x]
  BY <1>1 DEF Go
<1>8. Told(r)'
  <2>1. Verifies(r)' = Verifies(r) /\ Heard(r)' = Heard(r) /\ task' = task /\ since' = since
    BY <1>1 DEF Lived, Verifies, Heard
  <2>2. at'[r] = x
    BY <1>3, <1>7
  <2>3. Verifies(r) => Heard(r) = None
    BY DEF Heard
  <2> QED BY <1>3, <1>4, <1>5, <2>1, <2>2, <2>3 DEF Told
<1>9. TypeOK'
  <2>1. task[r].name \in Engines \cup Plans \cup {None}
    BY Tasks DEF Inv
  <2>2. told'[r] \in Reading
    BY <1>3, <1>4, <1>5, <2>1 DEF Reading
  <2>3. told' \in [Runs -> Reading]
    BY <1>1, <1>3, <1>4, <2>2
  <2>4. at' \in [Runs -> Steps]
    BY <1>2, <1>3, <1>7
  <2> QED BY <1>1, <2>3, <2>4 DEF TypeOK, Inv, Lived, Steps
<1>10. YesWasTrue' /\ NoWasTrue' /\ UnaskedOnlyBeside'
  BY <1>1, AnswersKept DEF Lived
<1>11. \A q \in Runs : at'[q] \in {"back", "decide"} => at[q] \in {"back", "decide"}
  BY <1>2, <1>3, <1>7
<1>12. \A q \in Runs : Written(q)'
  BY <1>1, <1>11, WrittenKept DEF Lived
<1> QED BY <1>6, <1>8, <1>9, <1>10, <1>12 DEF Inv

LEMMA AskKeeps ==
  ASSUME Inv, NEW r \in Runs, AskRepositories(r) PROVE Inv'
<1>1. /\ at[r] = "ask" /\ Go(r, "write") /\ Lived /\ UNCHANGED <<paper, answer>>
      /\ told' = [told EXCEPT ![r].answered =
                     IF task[r].name = None THEN None ELSE {task[r].name} \cap Reachable]
  BY DEF AskRepositories
<1>2. InFlight(r) /\ "write" \in Steps \ {"idle"}
  BY <1>1 DEF InFlight, Steps
<1>3. /\ told \in [Runs -> Reading] /\ at \in [Runs -> Steps] /\ ~Verifies(r)
      /\ told[r].name = task[r].name /\ told[r].early \in since[r]["early"]
      /\ told[r].late \in since[r]["late"]
  BY <1>1 DEF Inv, TypeOK, Told, Steps
<1>4. Heard(r) = IF task[r].name = None THEN None ELSE {task[r].name} \cap Reachable
  BY <1>3 DEF Heard
<1>5. \A q \in Runs : told'[q] =
        IF q = r THEN [name |-> told[r].name, early |-> told[r].early,
                       late |-> told[r].late, answered |-> Heard(r)] ELSE told[q]
  <2>1. \A q \in Runs : told'[q] =
          IF q = r THEN [told[r] EXCEPT !.answered = Heard(r)] ELSE told[q]
    BY <1>1, <1>3, <1>4
  <2>2. \A h : [told[r] EXCEPT !.answered = h] =
                 [name |-> told[r].name, early |-> told[r].early,
                  late |-> told[r].late, answered |-> h]
    BY <1>3 DEF Reading
  <2> QED BY <2>1, <2>2
<1>6. WorldOK' /\ Met' /\ \A q \in Runs \ {r} : Told(q)'
  BY <1>1, <1>2, <1>5, StepKeeps
<1>7. at' = [at EXCEPT ![r] = "write"]
  BY <1>1 DEF Go
<1>8. Told(r)'
  <2>1. Heard(r)' = Heard(r) /\ task' = task /\ since' = since
    BY <1>1 DEF Lived, Verifies, Heard
  <2>2. at'[r] = "write"
    BY <1>3, <1>7
  <2> QED BY <1>3, <1>5, <2>1, <2>2 DEF Told
<1>9. TypeOK'
  <2>1. Heard(r) \in {None} \cup SUBSET Engines
    BY <1>3, <1>4, Tasks DEF Inv, Verifies
  <2>2. told'[r] \in Reading
    BY <1>3, <1>5, <2>1 DEF Reading
  <2>3. told' \in [Runs -> Reading]
    BY <1>1, <1>3, <1>5, <2>2
  <2>4. at' \in [Runs -> Steps]
    BY <1>2, <1>3, <1>7
  <2> QED BY <1>1, <2>3, <2>4 DEF TypeOK, Inv, Lived, Steps
<1>10. YesWasTrue' /\ NoWasTrue' /\ UnaskedOnlyBeside'
  BY <1>1, AnswersKept DEF Lived
<1>11. \A q \in Runs : at'[q] \in {"back", "decide"} => at[q] \in {"back", "decide"}
  BY <1>3, <1>7
<1>12. \A q \in Runs : Written(q)'
  BY <1>1, <1>11, WrittenKept DEF Lived
<1> QED BY <1>6, <1>8, <1>9, <1>10, <1>12 DEF Inv

\* Whoever has written before this run does now finds a run beside it.
LEMMA WriteKeeps ==
  ASSUME Inv, NEW r \in Runs, WriteDown(r) PROVE Inv'
<1> DEFINE x == IF Verifies(r) THEN "decide" ELSE "back"
<1>1. /\ at[r] = "write" /\ Go(r, x) /\ Lived /\ UNCHANGED answer
      /\ told' = [told EXCEPT ![r] = Nothing] /\ paper' = [paper EXCEPT ![File(r)] = told[r]]
  BY DEF WriteDown
<1>2. InFlight(r) /\ x \in Steps \ {"idle"} /\ x \in {"back", "decide"}
  BY <1>1 DEF InFlight, Steps
<1>3. /\ told \in [Runs -> Reading] /\ at \in [Runs -> Steps]
      /\ paper \in [{"facts", "observation"} -> Reading]
      /\ File(r) \in {"facts", "observation"}
  BY Tasks DEF Inv, TypeOK, Steps
<1>4. Of(r, told[r])
  BY <1>1 DEF Inv, Told, Of
<1>5. at' = [at EXCEPT ![r] = x]
  BY <1>1 DEF Go
<1>6. WorldOK' /\ Met' /\ \A q \in Runs \ {r} : Told(q)'
  BY <1>1, <1>2, <1>3, StepKeeps
<1>7. Told(r)'
  BY <1>2, <1>3, <1>5 DEF Told
<1>8. TypeOK'
  <2>1. Nothing \in Reading
    BY DEF Nothing, Reading
  <2>2. told' \in [Runs -> Reading] /\ paper' \in [{"facts", "observation"} -> Reading]
    BY <1>1, <1>3, <2>1
  <2>3. at' \in [Runs -> Steps]
    BY <1>2, <1>3, <1>5
  <2> QED BY <1>1, <2>2, <2>3 DEF TypeOK, Inv, Lived, Steps
<1>9. YesWasTrue' /\ NoWasTrue' /\ UnaskedOnlyBeside'
  BY <1>1, AnswersKept DEF Lived
<1>10. ASSUME NEW q \in Runs PROVE Written(q)'
  <2> SUFFICES ASSUME at'[q] \in {"back", "decide"}
               PROVE  \E s \in Runs : s \in {q} \cup beside'[q] /\ File(s)' = File(q)'
                                      /\ Of(s, paper[File(q)])'
    BY DEF Written
  <2>1. beside' = beside /\ \A s \in Runs : File(s)' = File(s) /\ Heard(s)' = Heard(s)
                                           /\ since'[s] = since[s] /\ task'[s] = task[s]
    BY <1>1 DEF Lived, File, Heard, Verifies
  <2>2. CASE File(q) = File(r)
    <3>1. paper'[File(q)'] = told[r]
      BY <1>1, <1>3, <2>1, <2>2
    <3>2. r \in {q} \cup beside'[q]
      <4>1. q # r => InFlight(q)
        BY <1>3, <1>5 DEF InFlight
      <4> QED BY <1>2, <2>1, <4>1 DEF Inv, Met
    <3>3. Of(r, paper[File(q)])'
      BY <1>4, <2>1, <3>1 DEF Of
    <3> QED BY <2>1, <2>2, <3>2, <3>3 DEF Of
  <2>3. CASE File(q) # File(r)
    <3>1. q # r /\ at[q] \in {"back", "decide"}
      BY <1>3, <1>5, <2>3
    <3>2. PICK s \in Runs : s \in {q} \cup beside[q] /\ File(s) = File(q) /\ Of(s, paper[File(q)])
      BY <3>1 DEF Inv, Written
    <3>3. paper'[File(q)'] = paper[File(q)]
      <4>1. File(q) \in {"facts", "observation"}
        BY DEF File
      <4> QED BY <1>1, <1>3, <2>1, <2>3, <4>1
    <3>4. Of(s, paper[File(q)])'
      BY <2>1, <3>2, <3>3 DEF Of
    <3> QED BY <2>1, <3>2, <3>4 DEF Of
  <2> QED BY <2>2, <2>3
<1> QED BY <1>6, <1>7, <1>8, <1>9, <1>10 DEF Inv

LEMMA BackKeeps ==
  ASSUME Inv, NEW r \in Runs, ReadBack(r) PROVE Inv'
<1>1. at[r] = "back" /\ UNCHANGED <<told, paper>> /\ Lived
  BY DEF ReadBack
<1>2. PICK x \in {"ended", "decide"}, a \in {None, "yes", "refused"} :
        /\ Go(r, x)
        /\ x = "ended" => answer' = [answer EXCEPT ![r] = a]
        /\ x # "ended" => answer' = answer
        /\ a = "yes" => task[r].verb = "gather"
  <2>1. CASE ~Holds(paper.facts)
    BY <2>1 DEF ReadBack, End
  <2>2. CASE Holds(paper.facts) /\ task[r].verb = "gather"
    BY <2>2 DEF ReadBack, End
  <2>3. CASE Holds(paper.facts) /\ task[r].verb # "gather"
    BY <2>3 DEF ReadBack
  <2> QED BY <2>1, <2>2, <2>3
<1>3. /\ at \in [Runs -> Steps] /\ at' = [at EXCEPT ![r] = x] /\ x \in Steps \ {"idle"}
      /\ answer \in [Runs -> {None, "yes", "no", "refused", "stopped"}] /\ InFlight(r)
  BY <1>1, <1>2 DEF Inv, TypeOK, Steps, Go, InFlight
<1>4. /\ \A q \in Runs \ {r} : answer'[q] = answer[q]
      /\ answer'[r] = answer[r] \/ (x = "ended" /\ answer'[r] = a)
      /\ answer' \in [Runs -> {None, "yes", "no", "refused", "stopped"}]
  <2>1. CASE x = "ended"
    <3>1. answer' = [answer EXCEPT ![r] = a]
      BY <1>2, <2>1
    <3>2. answer'[r] = a /\ \A q \in Runs \ {r} : answer'[q] = answer[q]
      BY <1>3, <3>1
    <3>3. answer' \in [Runs -> {None, "yes", "no", "refused", "stopped"}]
      BY <1>3, <3>1
    <3> QED BY <2>1, <3>2, <3>3
  <2>2. CASE x # "ended"
    <3>1. answer' = answer
      BY <1>2, <2>2
    <3>2. \A q \in Runs : answer'[q] = answer[q]
      BY <3>1
    <3>3. answer' \in [Runs -> {None, "yes", "no", "refused", "stopped"}]
      BY <1>3, <3>1
    <3> QED BY <3>2, <3>3
  <2> QED BY <2>1, <2>2
<1>5. WorldOK' /\ Met' /\ \A q \in Runs \ {r} : Told(q)'
  BY <1>1, <1>2, <1>3, <1>4, StepKeeps
<1>6. Told(r)'
  BY <1>2, <1>3 DEF Told
<1>7. TypeOK'
  <2>1. at' \in [Runs -> Steps]
    BY <1>3
  <2> QED BY <1>1, <1>4, <2>1 DEF TypeOK, Inv, Lived, Steps
<1>8. YesWasTrue' /\ NoWasTrue' /\ UnaskedOnlyBeside'
  <2>1. \A q \in Runs : /\ answer'[q] = "yes" /\ task[q].verb # "gather" => answer[q] = "yes"
                        /\ answer'[q] = "no" => answer[q] = "no"
    BY <1>2, <1>4, NobodyAssumption
  <2> QED BY <1>1, <2>1, AnswersKept DEF Lived
<1>9. \A q \in Runs : at'[q] \in {"back", "decide"} => at[q] \in {"back", "decide"}
  BY <1>1, <1>3
<1>10. \A q \in Runs : Written(q)'
  BY <1>1, <1>9, WrittenKept DEF Lived
<1> QED BY <1>5, <1>6, <1>7, <1>8, <1>10 DEF Inv

LEMMA StopKeeps ==
  ASSUME Inv, NEW r \in Runs, Stop(r) PROVE Inv'
<1>1. /\ InFlight(r) /\ Go(r, "ended") /\ answer' = [answer EXCEPT ![r] = "stopped"]
      /\ told' = [told EXCEPT ![r] = Nothing] /\ UNCHANGED paper /\ Lived
  BY DEF Stop, End
<1>2. /\ at \in [Runs -> Steps] /\ at' = [at EXCEPT ![r] = "ended"]
      /\ "ended" \in Steps \ {"idle"} /\ told \in [Runs -> Reading]
      /\ answer \in [Runs -> {None, "yes", "no", "refused", "stopped"}]
  BY <1>1 DEF Inv, TypeOK, Steps, Go
<1>3. /\ \A q \in Runs \ {r} : answer'[q] = answer[q] /\ told'[q] = told[q]
      /\ answer'[r] = "stopped"
      /\ answer' \in [Runs -> {None, "yes", "no", "refused", "stopped"}]
  BY <1>1, <1>2
<1>4. WorldOK' /\ Met' /\ \A q \in Runs \ {r} : Told(q)'
  BY <1>1, <1>2, <1>3, StepKeeps
<1>5. Told(r)'
  BY <1>2 DEF Told
<1>6. TypeOK'
  <2>1. Nothing \in Reading
    BY DEF Nothing, Reading
  <2>2. at' \in [Runs -> Steps] /\ told' \in [Runs -> Reading]
    BY <1>1, <1>2, <2>1
  <2> QED BY <1>1, <1>3, <2>2 DEF TypeOK, Inv, Lived, Steps
<1>7. YesWasTrue' /\ NoWasTrue' /\ UnaskedOnlyBeside'
  <2>1. \A q \in Runs : /\ answer'[q] = "yes" /\ task[q].verb # "gather" => answer[q] = "yes"
                        /\ answer'[q] = "no" => answer[q] = "no"
    BY <1>3
  <2> QED BY <1>1, <2>1, AnswersKept DEF Lived
<1>8. \A q \in Runs : at'[q] \in {"back", "decide"} => at[q] \in {"back", "decide"}
  BY <1>2
<1>9. \A q \in Runs : Written(q)'
  BY <1>1, <1>8, WrittenKept DEF Lived
<1> QED BY <1>4, <1>5, <1>6, <1>7, <1>9 DEF Inv

\* What a decision finds on paper: the answers of a run about the same thing.
LEMMA DecidesOn ==
  ASSUME Inv, NEW r \in Runs, at[r] = "decide"
  PROVE  \E s \in Runs :
           /\ s \in {r} \cup beside[r] /\ File(s) = File(r) /\ Of(s, paper[File(r)])
           /\ Verifies(s) = Verifies(r) /\ at[r] # "idle"
           /\ \A p \in PARTS : Thing(s) = Thing(r) => since[s][p] \subseteq Lately(r, p)
<1>1. PICK s \in Runs : s \in {r} \cup beside[r] /\ File(s) = File(r) /\ Of(s, paper[File(r)])
  BY DEF Inv, Written
<1>2. Verifies(s) = Verifies(r)
  BY <1>1 DEF File, Verifies
<1>3. \A p \in PARTS : Thing(s) = Thing(r) => since[s][p] \subseteq Lately(r, p)
  BY <1>1 DEF Lately
<1> QED BY <1>1, <1>2, <1>3

LEMMA DecideKeeps ==
  ASSUME Inv, NEW r \in Runs, Decide(r) PROVE Inv'
<1> DEFINE a == IF Verifies(r) THEN Judged(task[r].name, paper.observation)
                              ELSE Carries(task[r].name, paper.facts)
<1>1. /\ at[r] = "decide" /\ Go(r, "ended") /\ answer' = [answer EXCEPT ![r] = a]
      /\ UNCHANGED <<told, paper>> /\ Lived
  BY DEF Decide, End
<1>2. a \in {"yes", "no", "refused"}
  BY DEF Judged, Carries
<1> HIDE DEF a
<1>3. /\ at \in [Runs -> Steps] /\ at' = [at EXCEPT ![r] = "ended"] /\ InFlight(r)
      /\ "ended" \in Steps \ {"idle"}
      /\ answer \in [Runs -> {None, "yes", "no", "refused", "stopped"}]
  BY <1>1 DEF Inv, TypeOK, Steps, Go, InFlight
<1>4. /\ \A q \in Runs \ {r} : answer'[q] = answer[q]
      /\ answer'[r] = a
      /\ answer' \in [Runs -> {None, "yes", "no", "refused", "stopped"}]
  BY <1>1, <1>2, <1>3
<1>5. WorldOK' /\ Met' /\ \A q \in Runs \ {r} : Told(q)'
  BY <1>1, <1>3, <1>4, StepKeeps
<1>6. Told(r)'
  BY <1>3 DEF Told
<1>7. TypeOK'
  <2>1. at' \in [Runs -> Steps]
    BY <1>3
  <2> QED BY <1>1, <1>4, <2>1 DEF TypeOK, Inv, Lived, Steps
<1>8. \A q \in Runs : Written(q)'
  <2>1. \A q \in Runs : at'[q] \in {"back", "decide"} => at[q] \in {"back", "decide"}
    BY <1>3
  <2> QED BY <1>1, <2>1, WrittenKept DEF Lived
<1>9. PICK s \in Runs :
        /\ s \in {r} \cup beside[r] /\ File(s) = File(r) /\ Of(s, paper[File(r)])
        /\ Verifies(s) = Verifies(r)
        /\ \A p \in PARTS : Thing(s) = Thing(r) => since[s][p] \subseteq Lately(r, p)
  BY <1>1, DecidesOn
<1>10. "early" \in PARTS /\ "late" \in PARTS
  BY DEF PARTS
<1>12. \A q \in Runs : Verifies(q)' = Verifies(q) /\ \A p \in PARTS : Lately(q, p)' = Lately(q, p)
  BY <1>1 DEF Lived, Verifies, Lately, Thing
<1>13. YesWasTrue'
  <2> SUFFICES ASSUME NEW q \in Runs, answer'[q] = "yes", task'[q].verb # "gather",
                      NEW p \in PARTS
               PROVE  "fit" \in Lately(q, p)'
    BY DEF YesWasTrue
  <2>1. CASE q # r
    BY <1>1, <1>4, <1>12, <2>1 DEF Inv, YesWasTrue, Lived
  <2>2. CASE q = r
    <3>1. paper[File(r)].early = "fit" /\ paper[File(r)].late = "fit"
      BY <1>4, <2>2 DEF a, Judged, Carries, Fit, File
    <3>2. Thing(s) = Thing(r)
      <4>1. CASE Verifies(r)
        <5>1. paper[File(r)].name = task[r].name
          BY <1>4, <2>2, <4>1 DEF a, Judged, File
        <5> QED BY <1>9, <4>1, <5>1 DEF Of, Thing
      <4>2. CASE ~Verifies(r)
        BY <1>9, <4>2 DEF Thing
      <4> QED BY <4>1, <4>2
    <3>3. "fit" \in since[s][p]
      BY <1>9, <3>1 DEF Of, PARTS
    <3> QED BY <1>9, <1>12, <2>2, <3>2, <3>3
  <2> QED BY <2>1, <2>2
<1>14. NoWasTrue'
  <2> SUFFICES ASSUME NEW q \in Runs, answer'[q] = "no"
               PROVE  \/ \E p \in PARTS : "unfit" \in Lately(q, p)'
                      \/ ~Verifies(q)' /\ task'[q].name \notin Reachable
                      \/ ~Verifies(q)' /\ \E t \in beside'[q] :
                           task'[t].verb # "verify" /\ task'[t].name \notin {task'[q].name, None}
    BY DEF NoWasTrue
  <2>1. CASE q # r
    <3>1. answer[q] = "no" /\ task' = task /\ beside' = beside
      BY <1>1, <1>4, <2>1 DEF Lived
    <3> QED BY <1>12, <3>1 DEF Inv, NoWasTrue
  <2>2. CASE q = r /\ ~Fit(paper[File(r)])
    <3>1. \/ paper[File(r)].early # "fit" /\ paper[File(r)].early # "odd"
          \/ paper[File(r)].late # "fit" /\ paper[File(r)].late # "odd"
      <4>1. CASE Verifies(r)
        <5>1. \A p \in PARTS : since[s][p] \subseteq {"fit", "unfit"}
          <6>1. Thing(s) \in Instances
            BY <1>9, <4>1, Tasks DEF Inv, Thing, Verifies, Instances
          <6> QED BY <6>1, InstancesAssumption DEF Inv, WorldOK, Conditions
        <5> QED BY <1>9, <1>10, <2>2, <5>1 DEF Of, Fit
      <4>2. CASE ~Verifies(r)
        BY <1>4, <2>2, <4>2 DEF a, Carries, Holds, File, Fit
      <4> QED BY <4>1, <4>2
    <3>2. Thing(s) = Thing(r)
      <4>1. CASE Verifies(r)
        <5>1. paper[File(r)].name = task[r].name
          BY <1>4, <2>2, <4>1 DEF a, Judged, File
        <5> QED BY <1>9, <4>1, <5>1 DEF Of, Thing
      <4>2. CASE ~Verifies(r)
        BY <1>9, <4>2 DEF Thing
      <4> QED BY <4>1, <4>2
    <3>3. \E p \in PARTS : "unfit" \in since[s][p]
      <4>1. \A p \in PARTS : since[s][p] \subseteq CONDITIONS
        BY DEF Inv, WorldOK, Conditions, CONDITIONS
      <4> QED BY <1>9, <1>10, <3>1, <4>1 DEF Of, CONDITIONS
    <3> QED BY <1>9, <1>12, <2>2, <3>2, <3>3
  <2>3. CASE q = r /\ Fit(paper[File(r)])
    <3>1. ~Verifies(r)
      BY <1>4, <2>2, <2>3 DEF a, Judged, File
    <3>2. paper[File(r)].answered # None /\ task[r].name \notin paper[File(r)].answered
      BY <1>4, <2>3, <3>1 DEF a, Carries, Answered, File
    <3>3. /\ paper[File(r)].answered = {task[s].name} \cap Reachable
          /\ task[s].name # None /\ ~Verifies(s)
      BY <1>9, <3>1, <3>2 DEF Of, Heard
    <3>4. task' = task /\ beside' = beside /\ ~Verifies(r)'
      BY <1>1, <1>12, <3>1 DEF Lived
    <3>5. CASE task[s].name = task[r].name
      BY <2>3, <3>2, <3>3, <3>4, <3>5
    <3>6. CASE task[s].name # task[r].name
      <4>1. s \in beside'[r] /\ task'[s].verb # "verify" /\ task'[s].name \notin {task'[r].name, None}
        BY <1>9, <3>3, <3>4, <3>6 DEF Verifies
      <4> QED BY <2>3, <3>4, <4>1
    <3> QED BY <3>5, <3>6
  <2> QED BY <2>1, <2>2, <2>3
<1>15. UnaskedOnlyBeside'
  <2> SUFFICES ASSUME NEW q \in Runs, answer'[q] = "yes", task'[q].verb = "plan"
               PROVE  \/ task'[q].name \in Reachable
                      \/ \E t \in beside'[q] : task'[t].verb = "gather" /\ task'[t].name = None
    BY DEF UnaskedOnlyBeside
  <2>1. task' = task /\ beside' = beside
    BY <1>1 DEF Lived
  <2>2. CASE q # r
    <3>1. answer[q] = "yes"
      BY <1>4, <2>2
    <3> QED BY <2>1, <3>1 DEF Inv, UnaskedOnlyBeside
  <2>3. CASE q = r
    <3>1. ~Verifies(r) /\ task[r].verb = "plan"
      BY <2>1, <2>3 DEF Verifies
    <3>2. FALSE \notin Answered(task[r].name, paper[File(r)])
      BY <1>4, <2>3, <3>1 DEF a, Carries, File
    <3>3. paper[File(r)].answered = Heard(s) /\ ~Verifies(s)
      BY <1>9, <3>1 DEF Of
    <3>4. CASE task[s].name = None
      <4>1. task[s].verb = "gather" /\ s # r
        BY <3>1, <3>3, <3>4, Tasks, NobodyAssumption DEF Inv, Verifies
      <4> QED BY <1>9, <2>1, <2>3, <3>4, <4>1
    <3>5. CASE task[s].name # None
      <4>1. paper[File(r)].answered = {task[s].name} \cap Reachable
        BY <3>3, <3>5 DEF Heard
      <4>2. task[s].name \in Engines
        BY <3>3, <3>5, Tasks DEF Inv, Verifies
      <4>3. {task[s].name} \cap Reachable # None
        <5>1. {task[s].name} \cap Reachable \in SUBSET Engines
          BY <4>2
        <5> QED BY <5>1, NobodyAssumption
      <4>4. task[r].name \in {task[s].name} \cap Reachable
        <5>1. Answered(task[r].name, paper[File(r)]) =
                {(task[r].name \in ({task[s].name} \cap Reachable))}
          BY <4>1, <4>3 DEF Answered
        <5>2. SUFFICES ASSUME task[r].name \notin ({task[s].name} \cap Reachable) PROVE FALSE
          OBVIOUS
        <5>3. (task[r].name \in ({task[s].name} \cap Reachable)) = FALSE
          BY <5>2
        <5> QED BY <3>2, <5>1, <5>3
      <4> QED BY <2>1, <2>3, <4>4
    <3> QED BY <3>4, <3>5
  <2> QED BY <2>2, <2>3
<1> QED BY <1>5, <1>6, <1>7, <1>8, <1>13, <1>14, <1>15 DEF Inv

-----------------------------------------------------------------------------
(* What everybody sees.                                                    *)

\* A run that is launched finds the runs in flight, and is found by them.
LEMMA LaunchKeeps ==
  ASSUME Inv, NEW r \in Runs, Launch(r) PROVE Inv'
<1> DEFINE others == {s \in Runs : InFlight(s)}
<1>1. /\ at[r] = "idle" /\ at' = [at EXCEPT ![r] = "early"]
      /\ beside' = [s \in Runs |-> IF s = r THEN others
                                  ELSE IF s \in others THEN beside[s] \cup {r} ELSE beside[s]]
      /\ since' = [since EXCEPT ![r] = [p \in PARTS |-> {world[Thing(r)][p]}]]
      /\ UNCHANGED <<task, told, paper, answer, world, changes>>
  BY DEF Launch, Go
<1>2. /\ at \in [Runs -> Steps] /\ beside \in [Runs -> SUBSET Runs] /\ DOMAIN since = Runs
      /\ Met /\ WorldOK
  BY DEF Inv, TypeOK, WorldOK, Steps
<1>3. \A q \in Runs : /\ at'[q] = IF q = r THEN "early" ELSE at[q]
                      /\ since'[q] = IF q = r THEN [p \in PARTS |-> {world[Thing(r)][p]}] ELSE since[q]
                      /\ beside'[q] = IF q = r THEN others ELSE IF q \in others THEN beside[q] \cup {r}
                                                                ELSE beside[q]
  BY <1>1, <1>2
<1>4. \A q \in Runs : Thing(q)' = Thing(q) /\ Heard(q)' = Heard(q) /\ Verifies(q)' = Verifies(q)
                      /\ File(q)' = File(q)
  BY <1>1 DEF Thing, Heard, Verifies, File
<1>5. \A q \in Runs : r \notin beside[q]
  BY <1>1, <1>2 DEF Met
<1>6. \A q \in Runs : InFlight(q)' <=> q = r \/ InFlight(q)
  BY <1>3 DEF InFlight
<1>7. WorldOK'
  <2>1. Thing(r) \in Things
    BY <1>2, Tasks
  <2>2. DOMAIN since' = Runs /\ \A q \in Runs : DOMAIN since'[q] = PARTS
    BY <1>1, <1>2, <1>3 DEF WorldOK
  <2>3. \A p \in PARTS : since'[r][p] = {world[Thing(r)][p]} /\ world[Thing(r)][p] \in Conditions(Thing(r))
    BY <1>2, <1>3, <2>1 DEF WorldOK
  <2>4. \A q \in Runs, p \in PARTS : since'[q][p] \subseteq Conditions(Thing(q))
    <3> SUFFICES ASSUME NEW q \in Runs, NEW p \in PARTS PROVE since'[q][p] \subseteq Conditions(Thing(q))
      OBVIOUS
    <3>1. CASE q = r
      BY <2>3, <3>1
    <3>2. CASE q # r
      BY <1>2, <1>3, <3>2 DEF WorldOK
    <3> QED BY <3>1, <3>2
  <2>5. \A q \in Runs, p \in PARTS : InFlight(q)' => world[Thing(q)][p] \in since'[q][p]
    <3> SUFFICES ASSUME NEW q \in Runs, NEW p \in PARTS, InFlight(q)'
                 PROVE  world[Thing(q)][p] \in since'[q][p]
      OBVIOUS
    <3>1. CASE q = r
      BY <2>3, <3>1
    <3>2. CASE q # r
      BY <1>2, <1>3, <1>6, <3>2 DEF WorldOK
    <3> QED BY <3>1, <3>2
  <2> QED BY <1>1, <1>2, <1>4, <2>2, <2>4, <2>5 DEF WorldOK
<1>8. Met'
  <2>1. \A q, s \in Runs : InFlight(q)' /\ InFlight(s)' /\ q # s => s \in beside'[q]
    <3> SUFFICES ASSUME NEW q \in Runs, NEW s \in Runs, InFlight(q)', InFlight(s)', q # s
                 PROVE  s \in beside'[q]
      OBVIOUS
    <3>1. CASE q = r
      BY <1>3, <1>6, <3>1
    <3>2. CASE q # r /\ s = r
      BY <1>3, <1>6, <3>2
    <3>3. CASE q # r /\ s # r
      <4>1. InFlight(q) /\ InFlight(s)
        BY <1>6, <3>3
      <4>2. s \in beside[q]
        BY <1>2, <4>1 DEF Met
      <4> QED BY <1>3, <3>3, <4>2
    <3> QED BY <3>1, <3>2, <3>3
  <2>2. \A q \in Runs : \A s \in beside'[q] : at'[s] # "idle"
    <3> SUFFICES ASSUME NEW q \in Runs, NEW s \in beside'[q] PROVE at'[s] # "idle"
      OBVIOUS
    <3>1. s = r \/ s \in beside[q] \/ s \in others
      BY <1>3
    <3>2. s \in Runs
      BY <1>2, <3>1
    <3> QED BY <1>2, <1>3, <3>1, <3>2 DEF Met, InFlight
  <2>3. \A q \in Runs : answer'[q] # None => at'[q] = "ended"
    BY <1>1, <1>2, <1>3 DEF Met
  <2> QED BY <2>1, <2>2, <2>3 DEF Met
<1>9. ASSUME NEW q \in Runs PROVE Told(q)'
  <2>1. CASE q = r
    <3>1. at'[r] = "early"
      BY <1>3
    <3>2. told[r] = Nothing
      BY <1>1 DEF Inv, Told
    <3> QED BY <1>1, <2>1, <3>1, <3>2 DEF Told
  <2>2. CASE q # r
    <3>1. Told(q) /\ at'[q] = at[q] /\ since'[q] = since[q] /\ told' = told /\ task' = task
      BY <1>1, <1>3, <2>2 DEF Inv
    <3>2. Heard(q)' = Heard(q) /\ Verifies(q)' = Verifies(q)
      BY <1>4
    <3> QED BY <3>1, <3>2 DEF Told, Nothing
  <2> QED BY <2>1, <2>2
<1>10. TypeOK'
  <2>1. at' \in [Runs -> Steps]
    BY <1>1, <1>2 DEF Steps
  <2>2. beside' \in [Runs -> SUBSET Runs]
    <3>1. others \subseteq Runs /\ r \in Runs /\ \A q \in Runs : beside[q] \subseteq Runs
      BY <1>2
    <3> HIDE DEF others
    <3> QED BY <1>1, <3>1
  <2> QED BY <1>1, <2>1, <2>2 DEF TypeOK, Inv, Steps
<1>11. /\ \A q \in Runs, p \in PARTS : at[q] # "idle" => since[q][p] \subseteq since'[q][p]
       /\ \A q \in Runs : at[q] # "idle" => beside[q] \subseteq beside'[q]
  BY <1>1, <1>3
<1>12. YesWasTrue' /\ NoWasTrue' /\ UnaskedOnlyBeside'
  BY <1>1, <1>11, AnswersKept
<1>13. \A q \in Runs : at'[q] \in {"back", "decide"} => at[q] \in {"back", "decide"}
  BY <1>3
<1>14. \A q \in Runs : Written(q)'
  BY <1>1, <1>11, <1>13, WrittenKept
<1> QED BY <1>7, <1>8, <1>9, <1>10, <1>12, <1>14 DEF Inv

LEMMA ChangeKeeps ==
  ASSUME Inv, Change PROVE Inv'
<1>0. PICK t \in Asked, p \in PARTS : \E c \in Conditions(t) :
        /\ world' = [world EXCEPT ![t][p] = c]
        /\ since' = [r \in Runs |-> IF InFlight(r) /\ Thing(r) = t
                                   THEN [since[r] EXCEPT ![p] = @ \cup {c}] ELSE since[r]]
  BY DEF Change
<1>1. PICK c \in Conditions(t) :
        /\ world' = [world EXCEPT ![t][p] = c]
        /\ since' = [r \in Runs |-> IF InFlight(r) /\ Thing(r) = t
                                   THEN [since[r] EXCEPT ![p] = @ \cup {c}] ELSE since[r]]
  BY <1>0
<1>2. UNCHANGED <<task, at, told, paper, answer, beside>>
  BY DEF Change
<1>3. \A r \in Runs : Thing(r)' = Thing(r) /\ Heard(r)' = Heard(r) /\ Verifies(r)' = Verifies(r)
                      /\ File(r)' = File(r) /\ InFlight(r)' = InFlight(r)
  BY <1>2 DEF Thing, Heard, Verifies, File, InFlight
<1>4. t \in Things /\ \A r \in Runs : Thing(r) \in Things
  BY Tasks DEF Asked, Inv
<1>5. WorldOK /\ DOMAIN world = Things /\ DOMAIN world[t] = PARTS
  BY <1>4 DEF Inv, WorldOK
<1>6. \A u \in Things, o \in PARTS :
        world'[u][o] = IF u = t /\ o = p THEN c ELSE world[u][o]
  <2>1. \A u \in Things : world'[u] = IF u = t THEN [world[t] EXCEPT ![p] = c] ELSE world[u]
    BY <1>1, <1>4, <1>5
  <2>2. \A o \in PARTS : [world[t] EXCEPT ![p] = c][o] = IF o = p THEN c ELSE world[t][o]
    BY <1>5
  <2> QED BY <2>1, <2>2
<1>7. \A r \in Runs, o \in PARTS :
        since'[r][o] = IF InFlight(r) /\ Thing(r) = t /\ o = p THEN since[r][o] \cup {c} ELSE since[r][o]
  <2> SUFFICES ASSUME NEW r \in Runs, NEW o \in PARTS
               PROVE  since'[r][o] = IF InFlight(r) /\ Thing(r) = t /\ o = p
                                     THEN since[r][o] \cup {c} ELSE since[r][o]
    OBVIOUS
  <2>1. CASE InFlight(r) /\ Thing(r) = t
    <3>1. since'[r] = [since[r] EXCEPT ![p] = since[r][p] \cup {c}] /\ DOMAIN since[r] = PARTS
      BY <1>1, <1>5, <2>1 DEF WorldOK
    <3> QED BY <2>1, <3>1
  <2>2. CASE ~(InFlight(r) /\ Thing(r) = t)
    <3>1. since'[r] = since[r]
      BY <1>1, <2>2
    <3> QED BY <2>2, <3>1
  <2> QED BY <2>1, <2>2
<1>8. \A r \in Runs, o \in PARTS : since[r][o] \subseteq since'[r][o]
  BY <1>7
<1>9. WorldOK'
  <2>1. DOMAIN world' = Things /\ \A u \in Things : DOMAIN world'[u] = PARTS
    <3>1. DOMAIN world' = Things
      BY <1>1, <1>5
    <3>2. \A u \in Things : world'[u] = IF u = t THEN [world[t] EXCEPT ![p] = c] ELSE world[u]
      BY <1>1, <1>4, <1>5
    <3>3. DOMAIN [world[t] EXCEPT ![p] = c] = PARTS
      BY <1>5
    <3> QED BY <1>5, <3>1, <3>2, <3>3 DEF WorldOK
  <2>2. DOMAIN since' = Runs /\ \A r \in Runs : DOMAIN since'[r] = PARTS
    <3>1. DOMAIN since' = Runs
      BY <1>1
    <3>2. \A r \in Runs : DOMAIN since'[r] = DOMAIN since[r]
      BY <1>1
    <3> QED BY <1>5, <3>1, <3>2 DEF WorldOK
  <2>3. \A u \in Things, o \in PARTS : world'[u][o] \in Conditions(u)
    BY <1>5, <1>6 DEF WorldOK
  <2>4. \A r \in Runs, o \in PARTS : since'[r][o] \subseteq Conditions(Thing(r))
    <3> SUFFICES ASSUME NEW r \in Runs, NEW o \in PARTS PROVE since'[r][o] \subseteq Conditions(Thing(r))
      OBVIOUS
    <3>1. since[r][o] \subseteq Conditions(Thing(r))
      BY <1>5 DEF WorldOK
    <3>2. CASE InFlight(r) /\ Thing(r) = t /\ o = p
      BY <1>7, <3>1, <3>2
    <3>3. CASE ~(InFlight(r) /\ Thing(r) = t /\ o = p)
      BY <1>7, <3>1, <3>3
    <3> QED BY <3>2, <3>3
  <2>5. \A r \in Runs, o \in PARTS : InFlight(r) => world'[Thing(r)][o] \in since'[r][o]
    <3> SUFFICES ASSUME NEW r \in Runs, NEW o \in PARTS, InFlight(r)
                 PROVE  world'[Thing(r)][o] \in since'[r][o]
      OBVIOUS
    <3>1. world[Thing(r)][o] \in since[r][o]
      BY <1>5 DEF WorldOK
    <3>2. world'[Thing(r)][o] = IF Thing(r) = t /\ o = p THEN c ELSE world[Thing(r)][o]
      BY <1>4, <1>6
    <3>3. CASE Thing(r) = t /\ o = p
      BY <1>7, <3>2, <3>3
    <3>4. CASE ~(Thing(r) = t /\ o = p)
      BY <1>7, <3>1, <3>2, <3>4
    <3> QED BY <3>3, <3>4
  <2> QED BY <1>2, <1>3, <1>5, <2>1, <2>2, <2>3, <2>4, <2>5 DEF WorldOK
<1>10. Met'
  BY <1>2, <1>3 DEF Inv, Met
<1>11. ASSUME NEW r \in Runs PROVE Told(r)'
  <2>1. Told(r) /\ "early" \in PARTS /\ "late" \in PARTS
    BY DEF Inv, PARTS
  <2> QED BY <1>2, <1>3, <1>8, <2>1 DEF Told, Nothing
<1>12. TypeOK'
  BY <1>2 DEF Inv, TypeOK
<1>13. YesWasTrue' /\ NoWasTrue' /\ UnaskedOnlyBeside'
  BY <1>2, <1>8, AnswersKept
<1>14. \A r \in Runs : Written(r)'
  BY <1>2, <1>8, WrittenKept
<1> QED BY <1>9, <1>10, <1>11, <1>12, <1>13, <1>14 DEF Inv

-----------------------------------------------------------------------------
(* The theorems.                                                           *)

\* Where every reading comes from, after any steps of any runs.
LEMMA InvAlways == Spec => []Inv
<1>1. Inv /\ [Next]_vars => Inv'
  <2> SUFFICES ASSUME Inv, [Next]_vars PROVE Inv'
    OBVIOUS
  <2>1. CASE Change
    BY <2>1, ChangeKeeps
  <2>2. ASSUME NEW r \in Runs, Launch(r) PROVE Inv'
    BY <2>2, LaunchKeeps
  <2>3. ASSUME NEW r \in Runs, Step(r) PROVE Inv'
    BY <2>3, EarlyKeeps, LateKeeps, AskKeeps, WriteKeeps, BackKeeps, DecideKeeps DEF Step
  <2>4. ASSUME NEW r \in Runs, Stop(r) PROVE Inv'
    BY <2>4, StopKeeps
  <2>5. CASE UNCHANGED vars
    <3>1. /\ UNCHANGED <<task, at, told, paper, answer, world, changes, beside, since>>
          /\ \A r \in Runs : Thing(r)' = Thing(r) /\ Heard(r)' = Heard(r)
                             /\ Verifies(r)' = Verifies(r) /\ InFlight(r)' = InFlight(r)
      BY <2>5 DEF vars, Thing, Heard, Verifies, InFlight
    <3>2. TypeOK' /\ WorldOK' /\ Met'
      BY <3>1 DEF Inv, TypeOK, WorldOK, Met
    <3>3. \A r \in Runs : Told(r)'
      BY <3>1 DEF Inv, Told, Nothing
    <3>4. \A r \in Runs : Written(r)'
      BY <3>1, WrittenKept
    <3>5. YesWasTrue' /\ NoWasTrue' /\ UnaskedOnlyBeside'
      BY <3>1, AnswersKept
    <3> QED BY <3>2, <3>3, <3>4, <3>5 DEF Inv
  <2> QED BY <2>1, <2>2, <2>3, <2>4, <2>5 DEF Next
<1> QED BY InitInv, <1>1, PTL DEF Spec

\* Every state of the runs of gather.yml, preflight.yml, plan.yml and verify.yml
\* has its type.
THEOREM ReadingsAreTyped == Spec => []TypeOK
<1>1. Inv => TypeOK
  BY DEF Inv
<1> QED BY <1>1, InvAlways, PTL

\* A plan that is produced, or an instance that verifies, was found fit by
\* answers given while that run, or one in flight with it, was (plan.yml and
\* verify.yml), however many runs share the files of the host.
THEOREM AYesWasTrue == Spec => []YesWasTrue
<1>1. Inv => YesWasTrue
  BY DEF Inv
<1> QED BY <1>1, InvAlways, PTL

\* A plan that is refused, or an instance that does not verify, was found so, or
\* the repository did not answer, or a run beside asked for another engine's.
THEOREM ANoWasTrue == Spec => []NoWasTrue
<1>1. Inv => NoWasTrue
  BY DEF Inv
<1> QED BY <1>1, InvAlways, PTL

\* A plan for a host that cannot reach its repository took a gather.yml without
\* an engine, in flight with it.
THEOREM UnaskedTakesAnother == Spec => []UnaskedOnlyBeside
<1>1. Inv => UnaskedOnlyBeside
  BY DEF Inv
<1> QED BY <1>1, InvAlways, PTL
=============================================================================
