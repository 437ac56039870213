SPECIFICATION Spec
CONSTANTS
  Accounts = {a1, a2}
  NoAccount = NoAccount
  Texts <- MCTexts
  Ids <- MCIds
  Dash = Dash
  Blank = Blank
  a = a
  b = b
  c = c
  t1 = t1
  t2 = t2
  Requests <- MCRequests
  Refusals <- MCRefusals
  MaxSendAttempts = 3
SYMMETRY Symmetry
INVARIANT TypeOK
INVARIANT HistoryAlternates
INVARIANT NothingLost
INVARIANT CompactedIffRotated
INVARIANT BlameIsFair
