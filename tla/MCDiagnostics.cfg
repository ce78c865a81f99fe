SPECIFICATION FairSpec
CONSTANTS
  Main = main
  Poll = poll
  Others = {}
  Pipes = {p1, p2, p3}
  Null = null
  Stages = {"lobby"}
  Tries = 2
  Rounds = 2
  MaxEvents = 2
  MaxSessions = 2
INVARIANTS TypeOK LinesWhole AttachedReachable StageReported SingleStart
CHECK_DEADLOCK FALSE
PROPERTY AttachedStarted
