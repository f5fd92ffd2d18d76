SPECIFICATION CheckedSpec
CONSTANTS
  g1 = g1
  p1 = p1
  p2 = p2
  joke = joke
  wit = wit
  dots = dots
  pun = pun
  quip = quip
  utc = utc
  east = east
  Groups = {g1, g2}
  People = {p1, p2, p3}
  Workers = {w1}
  Views = {v1}
  Requests = {q1}
  Texts = {joke, wit}
  Keys = {pun, quip}
  Key <- Normal
  Nothing = Nothing
  Zones = {utc, east}
  Offset <- Clocks
  Hours = {1}
  Day = 3
  DefaultHour = 1
  Window = 2
  MaxMembers = 2
  MinVotes = 1
  MaxPromoted = 1
  MaxTime = 6
  MaxLag = 1
  Bound <- Bounds
  Start = 3
  MaxEvents = 3
  Early = 2
  Creates = 2
  Deletes = 1
  Joins = 1
  Edits = 1
  Submits = 2
  Ballots = 2
  Looks = 1
  Faults = 1
  Removals = 1
  Reviews = 1
INVARIANTS TypeDaily InsertsNeverConflict VotesAreSound CandidatesAreEarned PopularAnswersAreQueued 
PROPERTIES KeepsRoundLife RevealedIsLeftAlone ReviewIsFinal WorkersCatchUp
CHECK_DEADLOCK FALSE
