SPECIFICATION Spec
CONSTANTS
  MaxRx = 2
  MaxTx = 2
  MaxPub = 2
  Commands = {1}
  Faults = {"close", "earlyclose", "vanish", "slow", "refuse", "spi", "reset"}
  MaxFaults = 3
INVARIANTS
  TypeOK
  SessionAgreed
  SubscriptionAgreed
  ConnectFirst
  PingAccounted
PROPERTIES
  AtMostOnceInOrder
CHECK_DEADLOCK FALSE
