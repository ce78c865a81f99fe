SPECIFICATION FairSpec
CONSTANTS
  OutboundLengths <- MCOutboundLengths
  TcpLengths <- MCTcpLengths
  ChunkSizes <- MCChunkSizes
  MaxTcpSends = 0
PROPERTY SendCompletionObserved
CHECK_DEADLOCK FALSE
