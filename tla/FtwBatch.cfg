SPECIFICATION Spec
CONSTANTS
  x1 = x1
  x2 = x2
  old = old
  new = new
  QueueSize = 9
  MaxWrites = 2
  Extent <- TwoBlocks
  Erased = Erased
  Garbled = Garbled
  Data <- Contents
  Factory = old
  Torn = Torn
  NoWrite = NoWrite
  Private = TRUE
  RetrySame = TRUE
  Ops = {"allocate", "write", "restart", "abort", "lastWrite"}
  MaxCalls = 5
  MaxFaults = 1
  MaxPowerCuts = 1
INVARIANTS
  AllocatedIsFound
  ProgramsErased
PROPERTIES
  ImplementsAtomicStore
CHECK_DEADLOCK FALSE
