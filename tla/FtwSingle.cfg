SPECIFICATION FairSpec
CONSTANTS
  x1 = x1
  x2 = x2
  old = old
  new = new
  QueueSize = 5
  MaxWrites = 1
  Extent <- TwoBlocks
  Erased = Erased
  Garbled = Garbled
  Data <- Contents
  Factory = old
  Torn = Torn
  NoWrite = NoWrite
  Private = FALSE
  RetrySame = TRUE
  Ops = {"write"}
  MaxCalls = 4
  MaxFaults = 0
  MaxPowerCuts = 2
INVARIANTS
  FtwTypeOK
  IdleIsSettled
  ProgramsErased
PROPERTIES
  ImplementsAtomicStore
  TornIsRepaired
CHECK_DEADLOCK FALSE
