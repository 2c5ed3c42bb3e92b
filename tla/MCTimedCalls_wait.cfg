SPECIFICATION Spec
CONSTANTS
  Wrap = 32
  Timeout = 2
  MaxStep = 1
INVARIANTS
  TypeOK
  WaitEnds
PROPERTIES
  NotCutShort
