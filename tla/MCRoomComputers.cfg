SPECIFICATION Spec
CONSTANTS
  Humans = {h1, h2}
  Computers = {c1, c2, c3}
  NoPlayer = NoPlayer
  HandSize = 2
  MinPlayers = 3
  MaxPlayersCeiling = 4
  DefaultScoreLimit = 1
  DefaultMaxPlayers = 4
  ScoreLimits = {1}
  PlayerLimits = {3}
  MaxSockets = 2
  MaxSeq = 5
  MaxLate = 1
  StaleSpan = 1
  MaxRestarts = 1
SYMMETRY Symmetry
INVARIANTS HostIsPresent NoComputerStalls SnapshotIsCurrent OpenRoundIsRestorable
CHECK_DEADLOCK FALSE
