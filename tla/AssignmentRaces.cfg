SPECIFICATION Spec
CONSTANTS
  Node = {n1, n2, n3}
  Group = {g}
  AssignedGroups <- HandlesAll
  Nobody = Nobody
  NoCall = NoCall
  MaxCalls = 2
  MaxFaults = 1
  Unassigns = TRUE
  Lossy = TRUE
  Calm = FALSE
CHECK_DEADLOCK FALSE
INVARIANT TypeOK
INVARIANT AssignmentsWereRequested
SYMMETRY Symmetry
