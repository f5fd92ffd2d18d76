SPECIFICATION Spec
CONSTANTS
  Humans = {h1, h2, h3, h4}
  Computers = {}
  NoPlayer = NoPlayer
  HandSize = 2
  MinPlayers = 3
  MaxPlayersCeiling = 4
  DefaultScoreLimit = 2
  DefaultMaxPlayers = 4
  ScoreLimits = {1, 2}
  PlayerLimits = {}
  MaxSockets = 1
  MaxSeq = 4
  MaxLate = 1
  StaleSpan = 1
  MaxRestarts = 0
SYMMETRY Symmetry
INVARIANTS TypeOK RoundIsPlayable AnswersToJudge WaitsForSomeone HandsConserved NobodyPastTheLimit
PROPERTIES NobodyIsCutOff PlaysByTheRules
CHECK_DEADLOCK FALSE
