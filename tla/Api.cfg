\* Two answers or a walk of one row a page or two, cut to two when the client asks
\* for three, next to the indexer with one rollback and one failure.
SPECIFICATION ApiSpec
CONSTANTS
  a1 = a1
  a2 = a2
  Limits <- MCLimits
  Body <- MCBody
  Parent <- MCParent
  Capacity = 1
  MaxCommits = 3
  MaxRollbacks = 1
  MaxFaults = 1
  Reader = a1
  PageLimits = {1, 3}
  MaxPage = 2
  MaxRequests = 2
INVARIANTS PagesOnce GapsOnlyAtPageEnds
CHECK_DEADLOCK FALSE
