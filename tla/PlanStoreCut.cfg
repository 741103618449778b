\* A run cut short while it writes, and the next one that decides on the same plan.
CONSTANTS
  Keepers = {k1, k2}
  Plans = {p1}
  Cut = TRUE
  None = None
SPECIFICATION Spec
INVARIANTS SameByConstruction
