SPECIFICATION FairSpec
CONSTANTS
  BufferSize = 5
  ReadChunk = 3
  Retries = 2
  MaxCells = 5
  MaxSessions = 2
INVARIANTS TypeOK RepliesInOrder LockOutlivesReader
PROPERTY RequestsAnswered
CHECK_DEADLOCK FALSE
