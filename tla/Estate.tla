------------------------------- MODULE Estate -------------------------------
(***************************************************************************)
(* What applying plans promises of the instances of an estate, to somebody *)
(* who sees the machines, the secrets that are kept and the notes of what  *)
(* was applied, and nothing of the runs, the order of their tasks, or how  *)
(* many of them were stopped half way.                                     *)
(***************************************************************************)
CONSTANTS
  Hosts, Plans, Says, HandWritten, Tunables, Secrets, None   \* as in Apply

VARIABLES
  cluster,    \* cluster[h]: whether h has the instance: "none", "begun" or "made"
  created,    \* created[h]: what the cluster on h was created with
  conf,       \* conf[h]: the configuration in place
  settings,   \* settings[h]: what the kernel runs with
  secret,     \* secret[h]: what is kept for whoever needs the password
  password,   \* password[h]: what the cluster accepts
  note        \* note[h]: the plan h is noted to be running

all == <<cluster, created, conf, settings, secret, password, note>>

Init ==
  /\ cluster = [h \in Hosts |-> "none"]
  /\ created = [h \in Hosts |-> None] /\ conf = [h \in Hosts |-> None]
  /\ settings = [h \in Hosts |-> None]
  /\ secret = [h \in Hosts |-> None] /\ password = [h \in Hosts |-> None]
  /\ note = [h \in Hosts |-> None]

\* A cluster is created where there is nothing, with what a plan says, or it is
\* begun and stays so.
Create(h) ==
  /\ cluster[h] = "none"
  /\ \/ /\ cluster' = [cluster EXCEPT ![h] = "made"]
        /\ \E p \in Plans : created' = [created EXCEPT ![h] = Says[p].init]
     \/ cluster' = [cluster EXCEPT ![h] = "begun"] /\ created' = created
  /\ UNCHANGED <<conf, settings, secret, password, note>>

\* The configuration is a plan's, or what somebody wrote; one that was begun is
\* taken for made, and configured.
Configure(h) ==
  /\ cluster[h] # "none"
  /\ \E c \in {Says[p].conf : p \in Plans} \cup HandWritten : conf' = [conf EXCEPT ![h] = c]
  /\ UNCHANGED <<cluster, created, settings, secret, password, note>>

\* A plan, a hand or a restart gives the kernel other settings.
Tune(h) ==
  /\ \E t \in Tunables \cup {None} : settings' = [settings EXCEPT ![h] = t]
  /\ UNCHANGED <<cluster, created, conf, secret, password, note>>

\* A secret is kept once, and stays.
Keep(h) ==
  /\ secret[h] = None
  /\ \E s \in Secrets : secret' = [secret EXCEPT ![h] = s]
  /\ UNCHANGED <<cluster, created, conf, settings, password, note>>

\* A cluster is given the password that is kept for it.
Give(h) ==
  /\ cluster[h] = "made" /\ secret[h] # None
  /\ password' = [password EXCEPT ![h] = secret[h]]
  /\ UNCHANGED <<cluster, created, conf, settings, secret, note>>

\* A note is taken of a plan when the host is as the plan says.
Note(h) ==
  /\ cluster[h] = "made" /\ secret[h] # None
  /\ \E p \in Plans : /\ Says[p].host = h
                      /\ conf[h] = Says[p].conf /\ settings[h] = Says[p].tunables
                      /\ note' = [note EXCEPT ![h] = p]
  /\ UNCHANGED <<cluster, created, conf, settings, secret, password>>

\* The machine is replaced; what is kept and noted of it is not.
Replace(h) ==
  /\ cluster' = [cluster EXCEPT ![h] = "none"]
  /\ created' = [created EXCEPT ![h] = None] /\ conf' = [conf EXCEPT ![h] = None]
  /\ settings' = [settings EXCEPT ![h] = None] /\ password' = [password EXCEPT ![h] = None]
  /\ UNCHANGED <<secret, note>>

Next ==
  \E h \in Hosts :
    Create(h) \/ Configure(h) \/ Tune(h) \/ Keep(h) \/ Give(h) \/ Note(h) \/ Replace(h)

Spec == Init /\ [][Next]_all
=============================================================================
