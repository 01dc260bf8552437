SPECIFICATION FairSpec
CONSTANTS
  Node = {n1, n2, n3}
  Topic = {t}
  Nothing = Nothing
  MaxPublish = 3
  MaxClock = 4
  MaxFaults = 0
  Lossy = FALSE
  Calm = TRUE
CHECK_DEADLOCK FALSE
INVARIANT Converged
PROPERTY EveryPublicationSpreads
