SPECIFICATION Spec
CONSTANTS
  a1 = a1
  a2 = a2
  a3 = a3
  r1 = r1
  r2 = r2
  NoAccount = NoAccount
  NoRequest = NoRequest
  Managed <- NoAccounts
  Persistent = FALSE
  SavesMayFail = FALSE
  TornWrites = FALSE
  Accounts <- ThreeAccounts
  HasCreds <- ThreeAccounts
  Source = "api"
  Requests <- OneRequest
  PoolSize = 2
  RefreshFailures = {"auth", "quota", "network"}
  Issued = {"fresh", "stale", "none"}
  ReportReasons = {"ban", "network", "not_implemented"}
SYMMETRY AccountSymmetry
INVARIANT TypeOK
INVARIANT MaintainFillsPool
INVARIANT AcquireNeverRetriesFailed
PROPERTY PoolGrowth
