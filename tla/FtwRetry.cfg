SPECIFICATION Spec
CONSTANTS
  x1 = x1
  x2 = x2
  old = old
  new = new
  QueueSize = 4
  MaxWrites = 1
  Extent <- TwoBlocks
  Erased = Erased
  Garbled = Garbled
  Data <- Contents
  Factory = old
  Torn = Torn
  NoWrite = NoWrite
  Private = FALSE
  RetrySame = FALSE
  Ops = {"write"}
  MaxCalls = 2
  MaxFaults = 1
  MaxPowerCuts = 0
INVARIANTS
  ContentsAvailable
CHECK_DEADLOCK FALSE
