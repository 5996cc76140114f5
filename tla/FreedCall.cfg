SPECIFICATION Spec
CONSTANTS
  p = p
  q = q
  r = r
  g = g
  CheckTimer = CheckTimer
  IdleLoop = IdleLoop
  NoEvent = NoEvent
  NoGroup = NoGroup
  IdleGroup = IdleGroup
  Client <- Events
  ReqType <- TimerTypes
  ReqTpl <- TimerLevels
  ReqGroup <- None
  Ops = {"timer", "close"}
  MaxCalls = 3
  MaxTime = 2
  MaxNest = 1
  Delays <- OneTick
  TickPeriod = 1
  WaitLists <- NoArrays
  Polite = FALSE
  Reload = FALSE
INVARIANTS
  CalledIsAllocated
