CONSTANTS
  t1 = t1
  t2 = t2
  s1 = s1
  s2 = s2
  l1 = l1
  l2 = l2
  Threads = {t1, t2}
  Strings = {s1, s2}
  Owner <- MCOwner
  Bodies = {b1, b2, b3, b4}
  Null = Null
  Letters = {l1, l2}
  Inputs <- MCInputs
  MaxLen = 3
  MaxRefs = 3
  NullRefs = 2
SPECIFICATION Spec
INVARIANTS TypeOK RefsExact
PROPERTY ValuesSpec
VIEW View
CHECK_DEADLOCK FALSE
