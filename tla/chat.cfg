SPECIFICATION FairSpec
CONSTANTS
  a1 = a1
  a2 = a2
  k1 = k1
  k2 = k2
  r1 = r1
  r2 = r2
  NoAccount = NoAccount
  NoKey = NoKey
  Accounts <- TwoAccounts
  Keys <- OneKey
  Requests <- OneRequest
  TTL = 0
  MaxEntries = 1
  MaxSendAttempts = 2
  MaxRequests = 3
  SlowRequests = FALSE
  UpstreamRenames = TRUE
INVARIANT AttemptsSettled
INVARIANT AccountChangeRotates
INVARIANT CompactionRotates
PROPERTY RequestsEnd
