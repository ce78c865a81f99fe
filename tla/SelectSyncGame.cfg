SPECIFICATION PSpec
CONSTANTS
  n1 = n1
  n2 = n2
  Nodes <- MCNodes
  Leg <- GameAndProbe
  Handles = {h1, h2, h3}
  NoHandle = NoHandle
  OtherPort = 80
  MaxOutside = 4
  Callers = {}
PROPERTY GameSlotKept
CHECK_DEADLOCK FALSE
