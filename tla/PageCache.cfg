SPECIFICATION FairSpec
CONSTANTS
  Pages = {p1}
  Methods = {"GET", "HEAD"}
  Readers = {r1}
  Expirers = {e1}
  UseListener = TRUE
  ByCreation = TRUE
  Clears = {TRUE, FALSE}
  Watches = {TRUE, FALSE}
  MayOverflow = TRUE
  MaxChanges = 2
  MaxReloads = 2
INVARIANT PageTypeOK
INVARIANT StaleExplained
INVARIANT OldPagesExplained
PROPERTY EventuallyFresh
