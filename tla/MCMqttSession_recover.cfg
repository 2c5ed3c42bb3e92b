SPECIFICATION FairSpec
CONSTANTS
  MaxRx = 2
  MaxTx = 2
  MaxPub = 2
  Commands = {1}
  Faults = {"close", "vanish", "slow", "refuse"}
  MaxFaults = 2
PROPERTIES
  Reconnects
  KeepsTurning
  HandledOrCut
