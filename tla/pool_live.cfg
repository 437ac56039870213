SPECIFICATION FairSpec
CONSTANTS
  a1 = a1
  a2 = a2
  a3 = a3
  r1 = r1
  r2 = r2
  NoAccount = NoAccount
  NoRequest = NoRequest
  Managed <- NoAccounts
  Persistent = TRUE
  SavesMayFail = TRUE
  TornWrites = TRUE
  Accounts <- TwoAccounts
  HasCreds <- OneAccount
  Source = "api"
  Requests <- OneRequest
  PoolSize = 1
  RefreshFailures = {"auth", "network"}
  Issued = {"fresh", "none"}
  ReportReasons = {"ban"}
INVARIANT EnabledIsSchedulable
PROPERTY MutexReleased
PROPERTY RefillRuns
