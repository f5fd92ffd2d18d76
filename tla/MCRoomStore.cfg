SPECIFICATION Spec
CONSTANTS
  Instances = {i1, i2}
  Requests = {r1, r2}
  Nobody = Nobody
  Calm = TRUE
  Bound <- Bounds
  MaxUpdates = 3
  MaxEvents = 3
  Creates = 2
  Expiries = 1
  Faults = 1
  Crashes = 1
  Drains = 1
  Evictions = 1
SYMMETRY Symmetry
INVARIANTS TypeOK AckedIsSaved HolderKnowsAll NothingForgotten
PROPERTIES KeepsRooms
CHECK_DEADLOCK FALSE
