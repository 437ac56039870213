SPECIFICATION Spec
CONSTANTS
  a1 = a1
  a2 = a2
  k1 = k1
  k2 = k2
  r1 = r1
  r2 = r2
  NoAccount = NoAccount
  NoKey = NoKey
  Accounts <- OneAccount
  Keys <- TwoKeys
  Requests <- TwoRequests
  TTL = 0
  MaxEntries = 1
  MaxSendAttempts = 1
  MaxRequests = 3
  SlowRequests = TRUE
  UpstreamRenames = FALSE
SYMMETRY Symmetric
INVARIANT TypeOK
INVARIANT SessionsBounded
INVARIANT ConversationsPrivate
INVARIANT RequestsAccounted
