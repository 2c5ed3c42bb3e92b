SPECIFICATION FairSpec
CONSTANTS
  Packets = 3
  Digits <- MCDigits
  Start <- MCStart
  Radix = 3
INVARIANTS
  TypeOK
  InStepUntilCut
PROPERTIES
  AllDelivered
