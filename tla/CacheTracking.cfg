SPECIFICATION Spec
CONSTANTS
  Pages = {p1}
  Methods = {"GET"}
  Readers = {r1, r2}
  Expirers = {e1}
  UseListener = TRUE
  ByCreation = FALSE
  Clears = {TRUE}
  Watches = {TRUE}
  MayOverflow = FALSE
  MaxChanges = 0
  MaxReloads = 1
INVARIANT KeepsTrack
