------------------------------ MODULE MCApply ------------------------------
(***************************************************************************)
(* One instance, two approved plans for it that differ in everything a    *)
(* plan decides, and an edited copy of the first; the host may lose memory *)
(* and get it back.                                                        *)
(***************************************************************************)
EXTENDS Apply, TLC

CONSTANTS h1, h2, p1, p2, edited

MCHosts == {h1}
MCPlans == {p1, p2}
MCDocuments == {p1, p2, edited}

Facts(memory) ==
  [identity |-> [f \in IDENTITY |-> f],
   capacity |-> [f \in CAPACITY |-> IF f = "cpu.cores" THEN 2 ELSE memory],
   storage |-> <<>>]
MCSections == {Facts(8), Facts(4)}

MCSays ==
  [d \in MCDocuments |->
    [id |-> IF d = p2 THEN p2 ELSE p1, host |-> h1, section |-> Facts(8),
     warnings |-> d # p2,
     init |-> IF d = p2 THEN "i2" ELSE "i1",
     conf |-> IF d = p1 THEN "c1" ELSE IF d = p2 THEN "c2" ELSE "edited",
     tunables |-> IF d = p2 THEN "t2" ELSE "t1"]]
MCHandWritten == {"hand"}

\* The smaller estate of the runs that overlap: one plan, on one steady host.
OneSection == {Facts(8)}
OneSays == [d \in {p1} |-> MCSays[d]]
EditedSays == [d \in {p1, edited} |-> MCSays[d]]

\* Two machines of the same make.
TwoHosts == {h1, h2}

\* Passwords are random strings: which one was drawn makes no difference.
Symmetry == Permutations(Secrets)
=============================================================================
