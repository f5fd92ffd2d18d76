SPECIFICATION CheckedSpec
CONSTANTS
  g1 = g1
  p1 = p1
  p2 = p2
  joke = joke
  wit = wit
  dots = dots
  pun = pun
  quip = quip
  utc = utc
  east = east
  Groups = {g1}
  People = {p1, p2, p3}
  Workers = {w1}
  Views = {v1}
  Requests = {q1}
  Texts = {joke}
  Keys = {pun, quip}
  Key <- Normal
  Nothing = Nothing
  Zones = {utc}
  Offset <- Clocks
  Hours = {2}
  Day = 3
  DefaultHour = 2
  Window = 2
  MaxMembers = 2
  MinVotes = 1
  MaxPromoted = 1
  MaxTime = 7
  MaxLag = 1
  Bound <- Bounds
  Start = 4
  MaxEvents = 3
  Early = 0
  Creates = 0
  Deletes = 0
  Joins = 0
  Edits = 0
  Submits = 2
  Ballots = 0
  Looks = 0
  Faults = 0
  Removals = 0
  Reviews = 0
INVARIANTS StreakCounts
CHECK_DEADLOCK FALSE
