SPECIFICATION Spec
CONSTANTS
  Requests = {r1}
  Events = {e1}
  Workers = {w1}
  MaxGen = 2
  EventOps = {"reload", "remove", "delete"}
  RequestsReload = FALSE
  Booted = FALSE
  AsyncReloads = TRUE
  SuspendOnReload = FALSE
  SuspendMaxWait = 1
  WaitOnShutdown = FALSE
  MaxWait = 1
  ReloadFile = TRUE
  MayFail = TRUE
  NoThread = NoThread
INVARIANT TypeOK
INVARIANT RequestsCounted
INVARIANT UpImpliesOpen
PROPERTY NeverServedClosed
CHECK_DEADLOCK FALSE
