SPECIFICATION Spec
CONSTANTS
  a1 = a1
  a2 = a2
  a3 = a3
  r1 = r1
  r2 = r2
  NoAccount = NoAccount
  NoRequest = NoRequest
  Managed <- OtherAccount
  Persistent = TRUE
  SavesMayFail = FALSE
  TornWrites = FALSE
  Accounts <- TwoAccounts
  HasCreds <- TwoAccounts
  Source = "csv"
  Requests <- TwoRequests
  PoolSize = 1
  RefreshFailures = {"auth", "network"}
  Issued = {"fresh", "stale", "none"}
  ReportReasons = {"ban", "quota", "unknown"}
SYMMETRY RequestSymmetry
INVARIANT BlockedIsDisabled
INVARIANT DiskKnowsDisabled
PROPERTY LeaseOnlyUsable
CHECK_DEADLOCK FALSE
