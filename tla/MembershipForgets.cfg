SPECIFICATION FairSpec
CONSTANTS
  Node = {n1, n2}
  Group = {n1, n2}
  Wildcard = Wildcard
  Ephemeral = Ephemeral
  Seeds <- FullMesh
  AssignedGroups <- OwnGroup
  BindAddr <- DirectAddr
  HeartbeatEvery = 1
  CheckEvery = 2
  SuspectAfter = 2
  DownAfter = 6
  MaxInFlight = 1
  MaxCrashes = 2
  Lossy = TRUE
  Prompt = TRUE
  StartWhen = "any"
INVARIANT TypeOK
INVARIANT VerdictsAreEarned
INVARIANT SilenceIsBounded
PROPERTY CrashedIsForgotten
