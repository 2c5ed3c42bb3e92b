SPECIFICATION Spec
CONSTANTS
  TempHumi = TempHumi
  Co2 = Co2
  Writes = {lampOn}
  None = None
  Part = Part
  NoiseOnSend = TRUE
INVARIANTS
  NoOverlap
