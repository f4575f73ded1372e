SPECIFICATION Spec
CONSTANTS
  Nodes = {n1, n2, n3}
  Admins = {n1}
  New = {n3}
  Leaving = {n2, n3}
  Handlers = {h1}
  Gui = Gui
  Async = TRUE
  MaxWait = 2
  Failing <- AvailableFailing
  Budgets <- AvailableBudgets
INVARIANT RollingTypeOK
INVARIANT StaysAvailable
CHECK_DEADLOCK FALSE
