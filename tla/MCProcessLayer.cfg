SPECIFICATION Spec
CONSTANT MaxWraps = 3
INVARIANTS TypeOK WrapTransparent StackMessagesDestroyed
PROPERTY ReturnedWhole
CHECK_DEADLOCK FALSE
