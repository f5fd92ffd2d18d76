SPECIFICATION ServicesSpec
CONSTANTS
  Cards = {a, b}
  Reporters = {r1, r2, r3}
  Filings = {f1, f2}
  autoRetireThreshold = 2
  MinDeck = 1
  MaxReports = 3
  MaxRulings = 1
  Conns = {c1}
  Callbacks = {k1}
  sendQueue = 1
  MaxVersion = 2
  MaxFrames = 2
  Callers = {x1, x2}
  Limit = 2
  WindowTicks = 2
  LastTick = 6
  MaxWait = 1
  MaxRefused = 1
  Kinds = {prompt, answer}
  buffer = 2
  MaxRecorded = 2
  old = old
  new = new
  Runners = {old, new}
  Files <- FilesOf
  MaxFailures = 2
INVARIANTS  NothingMissedWhileOpen AtMostTwoWindows EventsAreAccounted NothingCountsTwice MigratedInOrder
PROPERTIES RetiredForCause DeckFollows  ClosedIsDetached NothingIsLeftInMemory
CHECK_DEADLOCK FALSE
