SPECIFICATION Spec
CONSTANTS
  p = p
  q = q
  r = r
  g = g
  CheckTimer = CheckTimer
  IdleLoop = IdleLoop
  NoEvent = NoEvent
  NoGroup = NoGroup
  IdleGroup = IdleGroup
  Client <- Events
  ReqType <- GroupTypes
  ReqTpl <- GroupLevels
  ReqGroup <- Groups
  Ops = {"signal", "close", "check", "timer"}
  MaxCalls = 3
  MaxTime = 1
  MaxNest = 1
  Delays <- OneTick
  TickPeriod = 1
  WaitLists <- Alone
  Polite = TRUE
  Reload = FALSE
INVARIANTS
  TypeOK
  QueueSound
  NoLostSignal
  NoUseAfterFree
PROPERTIES
  ImplementsScheduler
