\* The target named by hand: another machine of the same make.
CONSTANTS
  h1 = h1
  h2 = h2
  p1 = p1
  p2 = p2
  edited = edited
  None = None
  NotReported = NotReported
  Hosts <- TwoHosts
  Plans = {p1}
  Documents = {p1}
  Says <- OneSays
  Sections <- OneSection
  HandWritten <- MCHandWritten
  Runs = {r1}
  Secrets = {s1, s2}
  Store = "vault"
  Circumstances = {"OtherHost"}
SPECIFICATION Spec
INVARIANTS OnlyItsOwnHost
