\* Three runs of the plan step that may decide on the same plan.
\* Any of them may be cut short.
CONSTANTS
  Keepers = {k1, k2, k3}
  Plans = {p1}
  Cut = TRUE
  None = None
SPECIFICATION Spec
INVARIANTS TypeOK AnnouncedIsKept
PROPERTIES KeptForGood
