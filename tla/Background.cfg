\* Channel of one, two reorganisations, two failed statements or crashes.
SPECIFICATION FairSpec
CONSTANTS
  a1 = a1
  a2 = a2
  Limits <- MCLimits
  Body <- MCBody
  Parent <- MCParent
  Capacity = 1
  MaxCommits = 4
  MaxRollbacks = 2
  MaxFaults = 2
CHECK_DEADLOCK FALSE
INVARIANTS ExplainedUnlessDropped
PROPERTIES MainGoesOn ShutdownEnds
