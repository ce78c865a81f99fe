SPECIFICATION Spec
CONSTANTS
  BufferSize = 5
  ReadChunk = 3
  Retries = 2
  MaxCells = 5
  MaxSessions = 2
INVARIANT OneReplyPerRequest
CHECK_DEADLOCK FALSE
