SPECIFICATION Spec
CONSTANTS
  Packets = 3
  Digits <- MCDigits
  Start <- MCStart
  Radix = 3
INVARIANTS
  WholePackets
