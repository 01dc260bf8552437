SPECIFICATION Spec
CONSTANTS
  Node = {n1, n2}
  Topic = {t1, t2}
  Nothing = Nothing
  MaxPublish = 3
  MaxClock = 2
  MaxFaults = 1
  Lossy = TRUE
  Calm = FALSE
CHECK_DEADLOCK FALSE
INVARIANT TypeOK
INVARIANT CopiesAreTruthful
INVARIANT OwnWritesHold
SYMMETRY Symmetry
