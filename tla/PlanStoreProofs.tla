-------------------------- MODULE PlanStoreProofs --------------------------
(***************************************************************************)
(* What TLAPS proves of PlanStore, for any number of runs and of plans.    *)
(***************************************************************************)
EXTENDS PlanStore, TLAPS

\* A run that is keeping something has decided what.
Decided == \A k \in Keepers : keeper[k].at \in {"keep", "open", "write", "kept"} =>
                                keeper[k].plan \in Plans

\* A file that was emptied and no write of which was cut short is being filled by
\* the run that emptied it last; and what is announced, or being filled, has a file.
Filling ==
  /\ \A p \in Plans \ torn : file[p] = "begun" =>
       opener[p] \in Keepers /\ keeper[opener[p]] = [at |-> "write", plan |-> p]
  /\ \A p \in announced : file[p] # "absent"
  /\ \A k \in Keepers : keeper[k].at = "write" => file[keeper[k].plan] # "absent"

Inv == TypeOK /\ Decided /\ Filling

LEMMA InitInv == Init => Inv
BY DEF Init, Inv, TypeOK, Decided, Filling, Steps

LEMMA GoOn ==
  ASSUME Inv, NEW k \in Keepers, NEW s \in Steps, Go(k, s)
  PROVE  /\ keeper' \in [Keepers -> [at : Steps, plan : Plans \cup {None}]]
         /\ keeper'[k].at = s /\ keeper'[k].plan = keeper[k].plan
         /\ \A j \in Keepers \ {k} : keeper'[j] = keeper[j]
BY DEF Inv, TypeOK, Go

\* A step that leaves the files alone, by a run that is not filling one.
LEMMA NotFilling ==
  ASSUME Inv, NEW k \in Keepers, keeper[k].at # "write", keeper'[k].at # "write",
         UNCHANGED <<file, opener, torn>>,
         \A j \in Keepers \ {k} : keeper'[j] = keeper[j],
         \A p \in announced' : p \in announced \/ file[p] # "absent"
  PROVE  Filling'
BY DEF Inv, TypeOK, Filling

LEMMA StepInv == Inv /\ [Next]_vars => Inv'
<1> SUFFICES ASSUME Inv, [Next]_vars PROVE Inv'
  OBVIOUS
<1>t. TypeOK
  BY DEF Inv
<1>1. ASSUME NEW k \in Keepers, Produce(k) PROVE Inv'
  <2>1. PICK p \in Plans : keeper' = [keeper EXCEPT ![k] = [at |-> "keep", plan |-> p]]
    BY <1>1 DEF Produce
  <2>2. keeper[k].at # "write" /\ UNCHANGED <<file, opener, announced, torn>>
    BY <1>1 DEF Produce
  <2>3. Filling'
    <3>1. keeper'[k].at # "write" /\ \A j \in Keepers \ {k} : keeper'[j] = keeper[j]
      BY <1>t, <2>1 DEF TypeOK
    <3> QED BY <2>2, <3>1, NotFilling DEF Inv, Filling
  <2> QED BY <1>t, <2>1, <2>2, <2>3 DEF Inv, TypeOK, Decided, Steps
<1>2. ASSUME NEW k \in Keepers, FindKept(k) PROVE Inv'
  <2>1. keeper[k].plan \in Plans
    BY <1>2 DEF FindKept, Inv, Decided
  <2>2. /\ announced' = announced \cup {keeper[k].plan} /\ Go(k, "kept")
        /\ UNCHANGED <<file, opener, torn>> /\ keeper[k].at = "keep"
        /\ file[keeper[k].plan] # "absent"
    BY <1>2 DEF FindKept, Said
  <2>3. Filling'
    BY <2>2, GoOn, NotFilling DEF Steps
  <2> QED BY <1>t, <2>1, <2>2, <2>3, GoOn DEF Inv, TypeOK, Decided, Steps
<1>3. ASSUME NEW k \in Keepers, FindNone(k) PROVE Inv'
  <2>1. /\ Go(k, "open") /\ UNCHANGED <<file, opener, announced, torn>> /\ keeper[k].at = "keep"
    BY <1>3 DEF FindNone
  <2>2. Filling'
    BY <2>1, GoOn, NotFilling DEF Inv, Filling, Steps
  <2> QED BY <1>t, <2>1, <2>2, GoOn DEF Inv, TypeOK, Decided, Steps
<1>4. ASSUME NEW k \in Keepers, Open(k) PROVE Inv'
  <2> DEFINE p == keeper[k].plan
  <2>1. p \in Plans
    BY <1>4 DEF Open, Inv, Decided
  <2>2. /\ file' = [file EXCEPT ![p] = "begun"] /\ opener' = [opener EXCEPT ![p] = k]
        /\ Go(k, "write") /\ UNCHANGED <<announced, torn>> /\ keeper[k].at = "open"
    BY <1>4 DEF Open
  <2>3. keeper'[k] = [at |-> "write", plan |-> p]
    BY <1>t, <2>1, <2>2 DEF Go, TypeOK
  <2>4. \A q \in Plans \ {p} : file'[q] = file[q] /\ opener'[q] = opener[q]
    BY <1>t, <2>2 DEF TypeOK
  <2>5. file'[p] = "begun" /\ opener'[p] = k
    BY <1>t, <2>1, <2>2 DEF TypeOK
  <2>6. \A j \in Keepers \ {k} : keeper'[j] = keeper[j]
    BY <2>2, GoOn DEF Steps
  <2>7. Filling'
    <3>1. ASSUME NEW q \in Plans \ torn, q # p, file[q] = "begun"
          PROVE  opener'[q] \in Keepers /\ keeper'[opener'[q]] = [at |-> "write", plan |-> q]
      <4>1. opener[q] \in Keepers /\ keeper[opener[q]] = [at |-> "write", plan |-> q]
        BY <3>1 DEF Inv, Filling
      <4>2. opener[q] # k
        BY <2>2, <4>1
      <4> QED BY <2>4, <2>6, <3>1, <4>1, <4>2
    <3>2. \A q \in announced' : file'[q] # "absent"
      BY <1>t, <2>2, <2>4, <2>5 DEF Inv, Filling, TypeOK
    <3>3. \A j \in Keepers : keeper'[j].at = "write" => file'[keeper'[j].plan] # "absent"
      BY <1>t, <2>1, <2>3, <2>4, <2>5, <2>6 DEF Inv, Filling, Decided
    <3> QED BY <2>2, <2>3, <2>4, <2>5, <3>1, <3>2, <3>3 DEF Filling
  <2> QED BY <1>t, <2>1, <2>2, <2>7, GoOn DEF Inv, TypeOK, Decided, Steps
<1>5. ASSUME NEW k \in Keepers, Write(k) PROVE Inv'
  <2> DEFINE p == keeper[k].plan
  <2>1. p \in Plans /\ file[p] \in {"absent", "begun", "whole"}
    BY <1>t, <1>5 DEF Write, Inv, Decided, TypeOK
  <2>2. PICK c \in Filled(k) :
          /\ file' = [file EXCEPT ![p] = c] /\ announced' = announced \cup {p}
          /\ Go(k, "kept")
    BY <1>5 DEF Write, Said
  <2>3. UNCHANGED <<opener, torn>> /\ keeper[k].at = "write"
    BY <1>5 DEF Write
  <2>4. c = "whole" \/ (opener[p] # k /\ c = file[p])
    BY <2>2 DEF Filled
  <2>5. file'[p] = c /\ \A q \in Plans \ {p} : file'[q] = file[q]
    BY <1>t, <2>1, <2>2 DEF TypeOK
  <2>6. c # "absent" \/ c = file[p]
    BY <2>4
  <2>7. ASSUME NEW q \in Plans \ torn, file'[q] = "begun"
        PROVE  opener'[q] \in Keepers /\ keeper'[opener'[q]] = [at |-> "write", plan |-> q]
    <3>1. file[q] = "begun" /\ (q = p => opener[q] # k)
      BY <2>4, <2>5, <2>7
    <3>2. opener[q] \in Keepers /\ keeper[opener[q]] = [at |-> "write", plan |-> q]
      BY <3>1 DEF Inv, Filling
    <3>3. opener[q] # k
      BY <3>1, <3>2
    <3> QED BY <2>2, <2>3, <3>2, <3>3, GoOn DEF Steps
  <2>8. \A q \in announced' : file'[q] # "absent"
    <3>1. file[p] # "absent"
      BY <2>3 DEF Inv, Filling
    <3> QED BY <1>t, <2>2, <2>4, <2>5, <3>1 DEF Inv, Filling, TypeOK
  <2>9. \A j \in Keepers : keeper'[j].at = "write" => file'[keeper'[j].plan] # "absent"
    <3>1. \A j \in Keepers \ {k} : keeper'[j] = keeper[j]
      BY <2>2, GoOn DEF Steps
    <3>2. keeper'[k].at # "write"
      BY <2>2, GoOn DEF Steps
    <3> QED BY <1>t, <2>3, <2>4, <2>5, <3>1, <3>2 DEF Inv, Filling, Decided
  <2>10. file' \in [Plans -> {"absent", "begun", "whole"}]
    BY <1>t, <2>1, <2>2, <2>4 DEF TypeOK
  <2> QED BY <1>t, <2>1, <2>2, <2>3, <2>7, <2>8, <2>9, <2>10, GoOn
          DEF Inv, TypeOK, Decided, Filling, Steps
<1>6. ASSUME NEW k \in Keepers, Show(k) PROVE Inv'
  <2>1. PICK s \in {"shown", "failed"} : Go(k, s)
    BY <1>6 DEF Show
  <2>2. UNCHANGED <<file, opener, announced, torn>> /\ keeper[k].at = "kept"
    BY <1>6 DEF Show
  <2>3. Filling'
    BY <2>1, <2>2, GoOn, NotFilling DEF Inv, Filling, Steps
  <2> QED BY <1>t, <2>1, <2>2, <2>3, GoOn DEF Inv, TypeOK, Decided, Steps
<1>7. ASSUME NEW k \in Keepers, CutShort(k) PROVE Inv'
  <2>1. /\ Go(k, "idle") /\ UNCHANGED <<file, opener, announced>>
        /\ torn' = torn \cup (IF keeper[k].at = "write" THEN {keeper[k].plan} ELSE {})
        /\ keeper[k].plan \in Plans
    BY <1>7 DEF CutShort, Inv, Decided
  <2>2. ASSUME NEW q \in Plans \ torn', file[q] = "begun"
        PROVE  opener[q] \in Keepers /\ keeper'[opener[q]] = [at |-> "write", plan |-> q]
    <3>1. opener[q] \in Keepers /\ keeper[opener[q]] = [at |-> "write", plan |-> q]
      BY <2>1, <2>2 DEF Inv, Filling
    <3>2. opener[q] # k
      BY <2>1, <2>2, <3>1
    <3> QED BY <2>1, <3>1, <3>2, GoOn DEF Steps
  <2>3. Filling'
    BY <2>1, <2>2, GoOn DEF Inv, Filling, Steps
  <2> QED BY <1>t, <2>1, <2>3, GoOn DEF Inv, TypeOK, Decided, Steps
<1>8. CASE UNCHANGED vars
  BY <1>8 DEF vars, Inv, TypeOK, Decided, Filling
<1> QED BY <1>1, <1>2, <1>3, <1>4, <1>5, <1>6, <1>7, <1>8 DEF Next, Step

LEMMA InvAlways == Spec => []Inv
BY InitInv, StepInv, PTL DEF Spec

\* The store and its runs are what the module says they are, however many there
\* are and wherever they are cut short: store.py, keep.
THEOREM StoreIsTyped == Spec => []TypeOK
<1>1. Inv => TypeOK
  BY DEF Inv
<1> QED BY <1>1, InvAlways, PTL

\* However many runs decide on the same plan at once, what one of them announced
\* is whole or being written, unless a write of it was cut short: store.py, keep.
THEOREM AnnouncedAreKept == Spec => []AnnouncedIsKept
<1>1. Inv => AnnouncedIsKept
  <2> SUFFICES ASSUME Inv, NEW p \in announced \ torn
               PROVE  file[p] = "whole" \/ Writing(p) # {}
    BY DEF AnnouncedIsKept
  <2>1. p \in Plans /\ file[p] \in {"begun", "whole"}
    BY DEF Inv, TypeOK, Filling
  <2>2. CASE file[p] = "begun"
    <3>1. opener[p] \in Writing(p)
      BY <2>1, <2>2 DEF Inv, Filling, Writing
    <3> QED BY <3>1
  <2> QED BY <2>1, <2>2
<1> QED BY <1>1, InvAlways, PTL
=============================================================================
