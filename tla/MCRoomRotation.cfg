SPECIFICATION SeatedSpec
CONSTANTS
  h1 = h1
  h2 = h2
  h3 = h3
  h4 = h4
  h5 = h5
  Humans = {h1, h2, h3, h4, h5}
  Seated <- FourSeats
  Computers = {}
  NoPlayer = NoPlayer
  HandSize = 1
  MinPlayers = 3
  MaxPlayersCeiling = 5
  DefaultScoreLimit = 2
  DefaultMaxPlayers = 5
  ScoreLimits = {2}
  PlayerLimits = {}
  MaxSockets = 1
  MaxSeq = 5
  MaxLate = 1
  StaleSpan = 1
  MaxRestarts = 0
PROPERTIES RotationInOrder
CHECK_DEADLOCK FALSE
