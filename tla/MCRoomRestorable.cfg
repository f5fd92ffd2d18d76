SPECIFICATION Spec
CONSTANTS
  Humans = {h1, h2, h3, h4}
  Computers = {}
  NoPlayer = NoPlayer
  HandSize = 2
  MinPlayers = 3
  MaxPlayersCeiling = 4
  DefaultScoreLimit = 1
  DefaultMaxPlayers = 4
  ScoreLimits = {1}
  PlayerLimits = {3}
  MaxSockets = 1
  MaxSeq = 2
  MaxLate = 1
  StaleSpan = 1
  MaxRestarts = 0
SYMMETRY Symmetry
INVARIANT AlwaysRestorable
CHECK_DEADLOCK FALSE
