SPECIFICATION FairSpec
CONSTANTS
  Node = {n1, n2, n3}
  Group = {n1, n2, n3}
  Wildcard = Wildcard
  Ephemeral = Ephemeral
  Seeds <- FullMesh
  AssignedGroups <- OwnGroup
  BindAddr <- DirectAddr
  HeartbeatEvery = 1
  CheckEvery = 1
  SuspectAfter = 1
  DownAfter = 2
  MaxInFlight = 1
  MaxCrashes = 1
  Lossy = FALSE
  Prompt = TRUE
  StartWhen = "settled"
INVARIANT NoSelfPeer
INVARIANT EntriesDescribeTheirNode
INVARIANT MutualPeersAreTrusted
PROPERTY ImplementsPeerView
PROPERTY MeshForms
PROPERTY MeshLasts
