SPECIFICATION Spec
CONSTANTS
  x1 = x1
  x2 = x2
  old = old
  new = new
  QueueSize = 5
  MaxWrites = 2
  Extent <- OneBlock
  Erased = Erased
  Garbled = Garbled
  Data <- Contents
  Factory = old
  Torn = Torn
  NoWrite = NoWrite
  Private = TRUE
  RetrySame = TRUE
  Ops = {"allocate", "abort"}
  MaxCalls = 4
  MaxFaults = 0
  MaxPowerCuts = 0
INVARIANTS
  AllocatedIsFound
CHECK_DEADLOCK FALSE
