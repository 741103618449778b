\* One run of the plan step, from the plan it decides on to showing it.
CONSTANTS
  Keepers = {k1}
  Plans = {p1}
  Cut = FALSE
  None = None
SPECIFICATION Spec
INVARIANTS ShownOnceKept
