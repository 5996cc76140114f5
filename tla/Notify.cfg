SPECIFICATION Spec
CONSTANTS
  p = p
  q = q
  r = r
  g = g
  CheckTimer = CheckTimer
  IdleLoop = IdleLoop
  NoEvent = NoEvent
  NoGroup = NoGroup
  IdleGroup = IdleGroup
  Client <- Events
  ReqType <- NotifyTypes
  ReqTpl <- NotifyLevels
  ReqGroup <- None
  Ops = {"signal", "raise", "close", "timer"}
  MaxCalls = 3
  MaxTime = 1
  MaxNest = 1
  Delays <- Relative
  TickPeriod = 1
  WaitLists <- NoArrays
  Polite = TRUE
  Reload = FALSE
INVARIANTS
  StackInv
  QueuedIsPending
  NotificationsNest
  LevelRestored
  CoreAssertions
PROPERTIES
  ImplementsScheduler
