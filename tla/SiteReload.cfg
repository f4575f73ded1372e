SPECIFICATION Spec
CONSTANTS
  Requests = {r1, r2}
  Events = {e1}
  Workers = {}
  MaxGen = 3
  EventOps = {"reload"}
  RequestsReload = TRUE
  Booted = TRUE
  AsyncReloads = FALSE
  SuspendOnReload = FALSE
  SuspendMaxWait = 1
  WaitOnShutdown = TRUE
  MaxWait = 1
  ReloadFile = TRUE
  MayFail = TRUE
  NoThread = NoThread
SYMMETRY RequestSymmetry
INVARIANT RunningIsMapped
INVARIANT NodeStateAgrees
PROPERTY NeverResurrected
PROPERTY ImplementsService
