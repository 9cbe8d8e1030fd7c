SPECIFICATION GateFairSpec
CONSTANTS
  Workers = {w1, w2, w3}
  Hosts = {a, b}
  Delay = 1
  NoHost = NoHost
  SlotIds = {s1, s2, s3}
  NoSlot = NoSlot
  SweepAbove = 1
INVARIANTS GateInv
PROPERTIES ImplementsSpacing EveryWaiterAsks
