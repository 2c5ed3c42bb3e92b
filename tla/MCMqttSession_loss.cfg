SPECIFICATION FairSpec
CONSTANTS
  MaxRx = 2
  MaxTx = 2
  MaxPub = 1
  Commands = {1}
  Faults = {"close"}
  MaxFaults = 1
PROPERTIES
  LossNoticed
