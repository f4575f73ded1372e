SPECIFICATION FairSpec
CONSTANTS
  Nodes = {n1, n2}
  Admins = {n1}
  New = {}
  Leaving = {n2}
  Handlers = {h1}
  Gui = Gui
  Async = FALSE
  MaxWait = 2
  Failing <- ConvergesFailing
  Budgets <- ConvergesBudgets
INVARIANT NobodyLeftBehind
PROPERTY HandlersEnd
PROPERTY AllCurrent
CHECK_DEADLOCK FALSE
