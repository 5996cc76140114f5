SPECIFICATION Spec
CONSTANTS
  p = p
  q = q
  r = r
  g = g
  CheckTimer = CheckTimer
  IdleLoop = IdleLoop
  NoEvent = NoEvent
  NoGroup = NoGroup
  IdleGroup = IdleGroup
  Client <- Events
  ReqType <- TimerTypes
  ReqTpl <- TimerLevels
  ReqGroup <- None
  Ops = {"timer"}
  MaxCalls = 2
  MaxTime = 2
  MaxNest = 2
  Delays <- WithCancel
  TickPeriod = 1
  WaitLists <- NoArrays
  Polite = TRUE
  Reload = TRUE
INVARIANTS
  DatabaseAtomic
  TimerListSound
  PeriodicStaysArmed
CHECK_DEADLOCK FALSE
