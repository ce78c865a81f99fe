SPECIFICATION PSpec
CONSTANTS
  n1 = n1
  n2 = n2
  Nodes <- MCNodes
  Leg <- GameAndProbe
  Handles = {h1, h2, h3}
  NoHandle = NoHandle
  OtherPort = 80
  MaxOutside = 3
  Callers = {c1}
INVARIANTS PTypeOK HelloPeer CloseableIsPrivate LegsTracked
PROPERTIES HandedOver
SYMMETRY Symmetry
CHECK_DEADLOCK FALSE
