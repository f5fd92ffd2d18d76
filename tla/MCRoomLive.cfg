SPECIFICATION FairSpec
CONSTANTS
  Humans = {h1, h2}
  Computers = {c1}
  NoPlayer = NoPlayer
  HandSize = 1
  MinPlayers = 3
  MaxPlayersCeiling = 3
  DefaultScoreLimit = 1
  DefaultMaxPlayers = 3
  ScoreLimits = {1}
  PlayerLimits = {}
  MaxSockets = 1
  MaxSeq = 3
  MaxLate = 1
  StaleSpan = 1
  MaxRestarts = 1
PROPERTIES TimedPhaseEnds
CHECK_DEADLOCK FALSE
