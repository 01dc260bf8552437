SPECIFICATION FairSpec
CONSTANTS
  Enabled = {"api"}
  Embedded = TRUE
  MaxClients = 1
  MaxPublishes = 1
  MaxQueue = 2
CHECK_DEADLOCK FALSE
INVARIANT TypeOK
INVARIANT CountersAreExact
PROPERTY GaugesCatchUp
PROPERTY StopRequestsEnd
