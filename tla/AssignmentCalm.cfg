SPECIFICATION FairSpec
CONSTANTS
  Node = {n1, n2, n3}
  Group = {g1, g2, g3}
  AssignedGroups <- OneOwner
  Nobody = Nobody
  NoCall = NoCall
  MaxCalls = 2
  MaxFaults = 0
  Unassigns = TRUE
  Lossy = FALSE
  Calm = TRUE
CHECK_DEADLOCK FALSE
INVARIANT AgreedWhenQuiet
INVARIANT ListingsAgree
INVARIANT LookupsAgree
PROPERTY RebalanceSpreads
