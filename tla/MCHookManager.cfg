SPECIFICATION Spec
CONSTANTS
  compressed = compressed
  strlen = strlen
  wsasend = wsasend
  concatenate = concatenate
  concatenate_cstr = concatenate_cstr
  Stubs <- MCStubs
  SysStubs = {wsasend}
  Passthrough = {compressed}
  Addresses = {1, 2, 3, 4}
  Addr <- MCAddr
  Order <- MCOrder
  Game = Game
  Threads = {t1, t2}
  MaxCalls = 4
  MaxFailures = 2
INVARIANTS TypeOK PatchAgrees RepatchedAtRest ReentryNeedsRace UnloadedClean
CHECK_DEADLOCK FALSE
