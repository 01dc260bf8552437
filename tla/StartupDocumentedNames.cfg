SPECIFICATION Spec
CONSTANTS
  Token = {"-c", "-h", "x"}
  MaxArgs = 5
  Key = {"k1", "k2"}
  Hash <- MCHash
  Files <- MCFiles
  Environments <- MCEnvironments
  Builds = {TRUE, FALSE}
CHECK_DEADLOCK FALSE
INVARIANT DocumentedNamesCount
