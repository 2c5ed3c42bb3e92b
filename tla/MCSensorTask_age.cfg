SPECIFICATION Spec
CONSTANTS
  Wrap = 5
  Fresh = 2
  MaxCall = 2
  MockMin = 1
  MockStart = 2
  MockMax = 3
  Threshold = 2
  Co2Answers = {0, 1, 3}
INVARIANTS
  TypeOK
PROPERTIES
  BusMeansFresh
  FallbackMeansSilent
  StatusAgrees
