SPECIFICATION FairIndexSpec
CONSTANTS
  Docs = {d1}
  Producers = {p1, p2}
  Kinds <- RunKinds
  MaxGeneration = 2
  QueueSize = 1
  BufferSize = 2
  MaxEvents = 2
  MaxFailures = 1
  Nobody = Nobody
INVARIANT IndexTypeOK
PROPERTY CommitsIntended
PROPERTY ImplementsIndexService
PROPERTY QueuedIsServed
PROPERTY LockIsFreed
CHECK_DEADLOCK FALSE
