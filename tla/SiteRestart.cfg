SPECIFICATION Spec
CONSTANTS
  Requests = {r1, r2}
  Events = {e1}
  Workers = {}
  MaxGen = 2
  EventOps = {"reload", "stop"}
  RequestsReload = FALSE
  Booted = TRUE
  AsyncReloads = FALSE
  SuspendOnReload = TRUE
  SuspendMaxWait = 1
  WaitOnShutdown = TRUE
  MaxWait = 1
  ReloadFile = FALSE
  MayFail = FALSE
  NoThread = NoThread
INVARIANT LoadsSucceed
