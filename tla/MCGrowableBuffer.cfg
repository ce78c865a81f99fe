SPECIFICATION BufferSpec
CONSTANTS
  Byte <- MCByte
  Junk = Junk
  SlackFloor = 1
  SlackCeiling = 2
  WideFloor = 3
  SlackShare = 2
  MinCapacities <- MCMinCapacities
  Requests <- MCRequests
  MaxSize = 5
INVARIANT BufferTypeOK
PROPERTY StreamSpec
