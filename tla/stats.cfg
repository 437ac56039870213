SPECIFICATION StatsSpec
CONSTANTS
  good = good
  bad = bad
  r1 = r1
  r2 = r2
  Blank = Blank
  Unset = Unset
  NoFile = NoFile
  CutFile = CutFile
  Entry <- TwoEntries
  Good = good
  Bad = bad
  Requests <- TwoRequests
  Size = 2
  Bounds <- QueryBounds
  MaxSendAttempts = 2
  MaxStarts = 2
  MaxTicks = 1
SYMMETRY Symmetry
CHECK_DEADLOCK FALSE
INVARIANT StatsTypeOK
INVARIANT QueriesAnswerPages
INVARIANT NothingCountedTwice
INVARIANT SnapshotAddsUp
PROPERTY KeepsTheLatest
INVARIANT ShutdownKeepsCounts
