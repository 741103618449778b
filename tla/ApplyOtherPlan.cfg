\* A second plan applied over the cluster the first one made.
CONSTANTS
  h1 = h1
  h2 = h2
  p1 = p1
  p2 = p2
  edited = edited
  None = None
  NotReported = NotReported
  Hosts <- MCHosts
  Plans <- MCPlans
  Documents <- MCDocuments
  Says <- MCSays
  Sections <- MCSections
  HandWritten <- MCHandWritten
  Runs = {r1}
  Secrets = {s1, s2}
  Store = "vault"
  Circumstances = {}
SPECIFICATION Spec
INVARIANTS MatchesOrRefuses
