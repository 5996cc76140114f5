SPECIFICATION FairSpec
CONSTANTS
  p = p
  q = q
  r = r
  g = g
  CheckTimer = CheckTimer
  IdleLoop = IdleLoop
  NoEvent = NoEvent
  NoGroup = NoGroup
  IdleGroup = IdleGroup
  Client <- Events
  ReqType <- WaitTypes
  ReqTpl <- WaitLevels
  ReqGroup <- WaitGroups
  Ops = {"signal", "wait", "timer"}
  MaxCalls = 2
  MaxTime = 2
  MaxNest = 1
  Delays <- OneTick
  TickPeriod = 1
  WaitLists <- Pairs
  Polite = TRUE
  Reload = FALSE
PROPERTIES
  QueuedIsNotified
  TimerFires
  WaitReturns
