SPECIFICATION Spec
CONSTANTS
  Booted = TRUE
  Changing = {n1, n2}
  Nodes = {n1, n2}
  Setters = {k1}
  States = {"STARTING", "STARTED", "STOPPED"}
  MaxChanges = 2
  MaxAsks = 1
  MaxDepartures = 1
  MaxInbox = 2
  Lossy = FALSE
  Hazelcast = TRUE
SYMMETRY NodeSymmetry
INVARIANT OwnEntryTrue
INVARIANT DepartedForgotten
