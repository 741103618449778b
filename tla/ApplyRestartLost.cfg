\* A run stopped before its handlers, then run again.
CONSTANTS
  h1 = h1
  h2 = h2
  p1 = p1
  p2 = p2
  edited = edited
  None = None
  NotReported = NotReported
  Hosts <- MCHosts
  Plans = {p1}
  Documents = {p1}
  Says <- OneSays
  Sections <- OneSection
  HandWritten <- MCHandWritten
  Runs = {r1}
  Secrets = {s1, s2}
  Store = "vault"
  Circumstances = {"Interrupted"}
SPECIFICATION Spec
INVARIANTS RunningIsWritten
