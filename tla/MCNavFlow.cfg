SPECIFICATION FairSpec
CONSTANTS
  QueueSize = 2
  MaxCommands = 4
  MaxFailures = 2
  MaxGameEvents = 3
INVARIANTS TypeOK SentInOrder
PROPERTIES QueuedDrained CommandCompletes
CHECK_DEADLOCK FALSE
