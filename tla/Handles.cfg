SPECIFICATION Spec
CONSTANTS
  disk = disk
  part1 = part1
  part2 = part2
  r1 = r1
  r2 = r2
  NoHandle = NoHandle
  ListHead = ListHead
  Handle <- Handles
  Partitions <- PartitionsOf
  PathLength <- PathLengths
  Registration <- Regs
  RegGuid <- RegGuids
  Disk = disk
  CallbackConnects <- Handles
  MaxCalls = 5
  MaxInterrupts = 1
INVARIANTS
  HdbTypeOK
  NothingMissed
  OneManager
  LayersStand
  RefusedIsReconnected
PROPERTIES
  ImplementsNotifyQueues
  CallsReturn
CHECK_DEADLOCK FALSE
