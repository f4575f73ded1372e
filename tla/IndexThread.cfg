SPECIFICATION IndexSpec
CONSTANTS
  Docs = {d1}
  Producers = {p1, p2}
  Kinds <- RunKinds
  MaxGeneration = 2
  QueueSize = 1
  BufferSize = 2
  MaxEvents = 2
  MaxFailures = 0
  Nobody = Nobody
INVARIANT ThreadAwaitsProducers
CHECK_DEADLOCK FALSE
