SPECIFICATION HangingSpec
CONSTANTS
  Requests = {r1, r2}
  Events = {e1}
  Workers = {}
  MaxGen = 3
  EventOps = {"reload"}
  RequestsReload = TRUE
  Booted = TRUE
  AsyncReloads = FALSE
  SuspendOnReload = TRUE
  SuspendMaxWait = 1
  WaitOnShutdown = TRUE
  MaxWait = 1
  ReloadFile = FALSE
  MayFail = FALSE
  NoThread = NoThread
PROPERTY OperationsEnd
PROPERTY SiteComesBack
