\* Two runs in flight at once, nobody waits for either, the file store.
CONSTANTS
  h1 = h1
  h2 = h2
  p1 = p1
  p2 = p2
  edited = edited
  None = None
  NotReported = NotReported
  Hosts <- MCHosts
  Plans = {p1}
  Documents = {p1}
  Says <- OneSays
  Sections <- OneSection
  HandWritten = {"hand"}
  Runs = {r1, r2}
  Secrets = {s1, s2}
  Store = "file"
  Circumstances = {"Overlap", "MidRun", "Interrupted"}
SYMMETRY Symmetry
SPECIFICATION Spec
INVARIANTS NoUnplannedCluster PasswordIsStored
PROPERTIES SecretNeverRolls NothingDestroyed
