SPECIFICATION Spec
CONSTANTS
  a1 = a1
  a2 = a2
  a3 = a3
  r1 = r1
  r2 = r2
  NoAccount = NoAccount
  NoRequest = NoRequest
  Managed <- NoAccounts
  Persistent = FALSE
  SavesMayFail = FALSE
  TornWrites = FALSE
  Accounts <- TwoAccounts
  HasCreds <- TwoAccounts
  Source = "csv"
  Requests <- OneRequest
  PoolSize = 1
  RefreshFailures = {"auth"}
  Issued = {"fresh"}
  ReportReasons = {"ban"}
PROPERTY NoActiveAccountIsTrue
CHECK_DEADLOCK FALSE
