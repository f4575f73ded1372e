SPECIFICATION FairSpec
CONSTANTS
  Booted = FALSE
  Changing = {n1}
  Nodes = {n1, n2}
  Setters = {k1, k2}
  States = {"STARTING", "STARTED", "STOPPED", "DELETED"}
  MaxChanges = 4
  MaxAsks = 0
  MaxDepartures = 0
  MaxInbox = 1
  Lossy = TRUE
  Hazelcast = FALSE
INVARIANT ClusterTypeOK
INVARIANT ReportsWereTrue
PROPERTY Converges
