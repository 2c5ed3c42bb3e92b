SPECIFICATION FairSpec
CONSTANTS
  Long = 2
  LongLong = 4
  Wrap = 6
  MaxHold = 9
  MaxPending = 2
INVARIANTS
  TypeOK
  NoPressForgotten
  EachActionHasItsPress
PROPERTIES
  PressClassified
  PressServed
