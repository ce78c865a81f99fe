SPECIFICATION FairSpec
CONSTANTS
  OutboundLengths <- MCOutboundLengths
  TcpLengths <- MCTcpLengths
  ChunkSizes <- MCChunkSizes
  MaxTcpSends = 2
INVARIANTS TypeOK SendAccountsAgree FlagsMatchState OutboundCovered ReceiveNeedsTcpSend RecvExact
PROPERTY CompletedRecvConsumed
CHECK_DEADLOCK FALSE
