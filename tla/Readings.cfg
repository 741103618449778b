\* Runs of three playbooks sharing the files of one host.
CONSTANTS
  r1 = r1
  r2 = r2
  r3 = r3
  e = e
  f = f
  p = p
  q = q
  a = a
  b = b
  None = None
  Runs <- MCRuns
  Engines = {e, f}
  Reachable = {f}
  Plans = {p, q}
  InstanceOf <- MCInstanceOf
  Launches <- MCLaunches
  MaxChanges = 1
  MaxStops = 1
SPECIFICATION Spec
INVARIANTS TypeOK YesWasTrue NoWasTrue UnaskedOnlyBeside
CHECK_DEADLOCK FALSE
