SPECIFICATION Spec
CONSTANTS
  Instances = {i1, i2}
  Requests = {r1, r2}
  Nobody = Nobody
  Calm = TRUE
  Bound <- Bounds
  MaxUpdates = 3
  MaxEvents = 2
  Creates = 1
  Expiries = 0
  Faults = 0
  Crashes = 0
  Drains = 1
  Evictions = 0
SYMMETRY Symmetry
INVARIANTS ShutdownSavesAll
CHECK_DEADLOCK FALSE
