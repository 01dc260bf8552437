SPECIFICATION FairSpec
CONSTANTS
  Sender = {beat}
  Caller = {call}
  Lister = {list}
  Handler = {h}
  Looker = {look}
  Checker = check
  Shards = 2
  Entries <- OnePeerEach
  Wants <- Spread
  Workers = 2
CHECK_DEADLOCK FALSE
INVARIANT TypeOK
INVARIANT OnlySendsDeadlock
PROPERTY StuckForEver
PROPERTY HandlersEnd
PROPERTY WalksEnd
