------------------------------ MODULE DxeTimer ------------------------------
(***************************************************************************)
(* The timer services of the DXE core (Event/Timer.c), the timer interrupt *)
(* that drives them (PcAtChipsetPkg/8254TimerDxe/Timer.c), and the whole   *)
(* specification of the event, timer and task priority services.           *)
(***************************************************************************)
EXTENDS DxeEvent

CONSTANTS
  Delays,      \* the TriggerTimes, in ticks, that clients pass to SetTimer
  TickPeriod,  \* what gTimer->GetTimerPeriod returns, in ticks
  MaxTime,     \* bound: mEfiSystemTime saturates here
  MaxNest      \* bound: timer interrupts being served at the same time

ASSUME TimerAssumption ==
  /\ Delays \subseteq Nat \cup {-1}
  /\ TickPeriod \in Nat \ {0}
  /\ MaxTime \in Nat /\ MaxNest \in Nat

VARIABLES
  mEfiTimerList,   \* the armed timers in ascending order of TriggerTime
  TriggerTime,     \* event -> Timer.TriggerTime
  Period,          \* event -> Timer.Period, 0 for one-shot
  mEfiSystemTime   \* the system time, in ticks

timerVars == <<mEfiTimerList, TriggerTime, Period, mEfiSystemTime>>
vars == <<tplVars, eventVars, clientVars, timerVars>>

-----------------------------------------------------------------------------
(* The timer database.  It is protected by mEfiTimerLock, TPL_TIMER.        *)

\* CoreInsertEventTimer of e with trigger time t: before the first later timer.
FirstLater(i, t) ==
  /\ TriggerTime[mEfiTimerList[i]] > t
  /\ \A j \in 1..(i-1) : TriggerTime[mEfiTimerList[j]] <= t

CoreInsertEventTimer(e, t) ==
  mEfiTimerList' =
    IF \E i \in DOMAIN mEfiTimerList : FirstLater(i, t)
    THEN InsertAt(mEfiTimerList, CHOOSE i \in DOMAIN mEfiTimerList : FirstLater(i, t), e)
    ELSE Append(mEfiTimerList, e)

SetTimer(e) ==
  /\ Invokes("timer")
  /\ life[e] = "live" /\ IsTimer(e)
  /\ gEfiCurrentTpl <= TPL_TIMER
  /\ \E d \in Delays, pc \in {"SetTimer", "SetPeriodic"} :
       /\ pc = "SetPeriodic" => d # -1
       /\ stack' = Append(stack, Frame(pc, gEfiCurrentTpl, e, d))
  /\ UNCHANGED <<gEfiCurrentTpl, intr, eventVars, timerVars, UserEvents>>

\* Mutant of TimerLock: the level is not raised.
TimerLockLow ==
  /\ Top.pc \in {"SetTimer", "SetPeriodic"}
  /\ Goto(IF Top.pc = "SetTimer" THEN "unlinkOne" ELSE "unlinkPeriodic")
  /\ UNCHANGED <<gEfiCurrentTpl, intr, eventVars, clientVars, timerVars>>

\* CoreAcquireLock (&mEfiTimerLock): raise to TPL_TIMER.
TimerLock ==
  /\ Top.pc \in {"SetTimer", "SetPeriodic"}
  /\ gEfiCurrentTpl' = TPL_TIMER
  /\ Goto(IF Top.pc = "SetTimer" THEN "unlinkOne" ELSE "unlinkPeriodic")
  /\ UNCHANGED <<intr, eventVars, clientVars, timerVars>>

\* A period of 0 is the timer's own; at = -1 is TimerCancel.
TimerUnlink ==
  /\ Top.pc \in {"unlinkOne", "unlinkPeriodic"}
  /\ LET d == IF Top.pc = "unlinkPeriodic" /\ Top.at = 0 THEN TickPeriod ELSE Top.at
     IN  /\ mEfiTimerList' = RemoveEntry(mEfiTimerList, Top.ev)
         /\ TriggerTime' = [TriggerTime EXCEPT ![Top.ev] = 0]
         /\ Period' = [Period EXCEPT ![Top.ev] =
                         IF Top.pc = "unlinkPeriodic" THEN d ELSE 0]
         /\ stack' = Append(Callers,
                       IF d = -1 THEN Now("unlock", Top.ev, 0) ELSE Now("arm", Top.ev, d))
  /\ UNCHANGED <<gEfiCurrentTpl, intr, eventVars, clientVars, mEfiSystemTime>>

\* CoreCurrentSystemTime () + TriggerTime.
TimerArm ==
  /\ Top.pc = "arm"
  /\ TriggerTime' = [TriggerTime EXCEPT ![Top.ev] = mEfiSystemTime + Top.at]
  /\ Goto("insert")
  /\ UNCHANGED <<gEfiCurrentTpl, intr, eventVars, clientVars, mEfiTimerList,
                 Period, mEfiSystemTime>>

TimerInsert ==
  /\ Top.pc = "insert"
  /\ CoreInsertEventTimer(Top.ev, TriggerTime[Top.ev])
  /\ \/ /\ Top.at = 0
        /\ CoreSignalEvent(CheckTimer, TPL_TIMER,
                           Append(Callers, Now("unlock", Top.ev, Top.at)))
     \/ /\ Top.at # 0
        /\ Goto("unlock")
        /\ UNCHANGED <<gEfiCurrentTpl, intr, eventVars>>
  /\ UNCHANGED <<clientVars, TriggerTime, Period, mEfiSystemTime>>

TimerUnlock ==
  /\ Top.pc = "unlock"
  /\ stack' = Append(Callers, Restore(Top.tpl))
  /\ UNCHANGED <<gEfiCurrentTpl, intr, eventVars, clientVars, timerVars>>

-----------------------------------------------------------------------------
(* CoreCheckTimers, the notification function of mEfiCheckTimerEvent.  at  *)
(* is the local SystemTime, ev the timer being signalled.                  *)

CheckStart ==
  /\ Top.pc = "check"
  /\ stack' = Append(Callers, Now("scan", CheckTimer, mEfiSystemTime))
  /\ UNCHANGED <<gEfiCurrentTpl, intr, eventVars, clientVars, timerVars>>

Expired(t) == mEfiTimerList # <<>> /\ TriggerTime[Head(mEfiTimerList)] <= t

CheckRemove ==
  /\ Top.pc = "scan" /\ Expired(Top.at)
  /\ mEfiTimerList' = Tail(mEfiTimerList)
  /\ stack' = Append(Callers, Now("fire", Head(mEfiTimerList), Top.at))
  /\ UNCHANGED <<gEfiCurrentTpl, intr, eventVars, clientVars, TriggerTime, Period,
                 mEfiSystemTime>>

CheckFire ==
  /\ Top.pc = "fire"
  /\ CoreSignalEvent(Top.ev, TPL_TIMER, Append(Callers, Now("rearm", Top.ev, Top.at)))
  /\ UNCHANGED <<clientVars, timerVars>>

NextScan == stack' = Append(Callers, Now("scan", CheckTimer, Top.at))

CheckRearm ==
  /\ Top.pc = "rearm"
  /\ LET next == TriggerTime[Top.ev] + Period[Top.ev]
         late == next <= Top.at
     IN  \/ /\ Period[Top.ev] = 0
            /\ NextScan
            /\ UNCHANGED <<gEfiCurrentTpl, intr, eventVars, mEfiTimerList, TriggerTime>>
         \/ /\ Period[Top.ev] # 0 /\ ~late
            /\ TriggerTime' = [TriggerTime EXCEPT ![Top.ev] = next]
            /\ CoreInsertEventTimer(Top.ev, next)
            /\ NextScan
            /\ UNCHANGED <<gEfiCurrentTpl, intr, eventVars>>
         \/ /\ Period[Top.ev] # 0 /\ late
            /\ TriggerTime' = [TriggerTime EXCEPT ![Top.ev] = Top.at]
            /\ CoreSignalEvent(CheckTimer, TPL_TIMER,
                               Append(Callers, Now("reinsert", Top.ev, Top.at)))
            /\ UNCHANGED mEfiTimerList
  /\ UNCHANGED <<clientVars, Period, mEfiSystemTime>>

\* Mutant of CheckReinsert: a late periodic timer is not inserted again.
ReinsertNothing ==
  /\ Top.pc = "reinsert"
  /\ NextScan
  /\ UNCHANGED <<gEfiCurrentTpl, intr, eventVars, clientVars, timerVars>>

CheckReinsert ==
  /\ Top.pc = "reinsert"
  /\ CoreInsertEventTimer(Top.ev, TriggerTime[Top.ev])
  /\ NextScan
  /\ UNCHANGED <<gEfiCurrentTpl, intr, eventVars, clientVars, TriggerTime, Period,
                 mEfiSystemTime>>

CheckDone ==
  /\ Top.pc = "scan" /\ ~Expired(Top.at)
  /\ stack' = Append(Callers, Restore(TPL_TIMER))
  /\ UNCHANGED <<gEfiCurrentTpl, intr, eventVars, clientVars, timerVars>>

-----------------------------------------------------------------------------
(* The timer interrupt: the handler raises to TPL_HIGH_LEVEL, calls        *)
(* CoreTimerTick, restores the interrupted level and returns.  The         *)
(* RestoreTPL inside CoreSignalEvent (to TPL_HIGH_LEVEL) does nothing.     *)

Nest == Len(SelectSeq(stack, LAMBDA f : f.pc = "iret"))

TimerInterrupt ==
  /\ intr /\ Nest < MaxNest
  /\ mEfiSystemTime' = IF mEfiSystemTime < MaxTime THEN mEfiSystemTime + 1
                                                   ELSE MaxTime
  /\ LET handler == Append(stack, Frame("iret", gEfiCurrentTpl, NoEvent, 0))
     IN  \/ /\ Expired(mEfiSystemTime')
            /\ CoreSignalEvent(CheckTimer, gEfiCurrentTpl, handler)
         \/ /\ ~Expired(mEfiSystemTime')
            /\ AtHighLevel
            /\ stack' = Append(handler, Restore(gEfiCurrentTpl))
            /\ UNCHANGED eventVars
  /\ UNCHANGED <<clientVars, mEfiTimerList, TriggerTime, Period>>

InterruptReturn ==
  /\ Top.pc = "iret"
  /\ intr' = TRUE
  /\ stack' = Callers
  /\ UNCHANGED <<gEfiCurrentTpl, eventVars, clientVars, timerVars>>

-----------------------------------------------------------------------------
Init ==
  /\ gEfiCurrentTpl = TPL_APPLICATION
  /\ intr = TRUE
  /\ stack = <<Frame("run", TPL_APPLICATION, NoEvent, 0)>>
  /\ gEventPending = {}
  /\ gEventQueue = [t \in Level |-> <<>>]
  /\ gEventSignalQueue = <<IdleLoop, CheckTimer>>
  /\ SignalCount = [e \in Event |-> 0]
  /\ life = [e \in Event |-> IF e \in Client THEN "none" ELSE "live"]
  /\ calls = MaxCalls
  /\ UserEvents = <<>>
  /\ mEfiTimerList = <<>>
  /\ TriggerTime = [e \in Event |-> 0]
  /\ Period = [e \in Event |-> 0]
  /\ mEfiSystemTime = 0

\* A step of the running frame, other than a service newly called by client code.
FrameStep ==
  \/ ServiceStep /\ UNCHANGED timerVars
  \/ TimerLock \/ TimerUnlink \/ TimerArm \/ TimerInsert \/ TimerUnlock
  \/ CheckStart \/ CheckRemove \/ CheckFire \/ CheckRearm \/ CheckReinsert \/ CheckDone
  \/ InterruptReturn

Next ==
  \/ FrameStep
  \/ ClientCall /\ UNCHANGED timerVars
  \/ \E e \in Client : SetTimer(e)
  \/ TimerInterrupt

Spec == Init /\ [][Next]_vars

(* Fairness.  With n interrupts being served the processor executes the     *)
(* running frame again and again, for a tick is far longer than an          *)
(* instruction: SF, as a nested interrupt suspends the frame meanwhile.     *)
(* The interrupt controller latches a tick until interrupts are enabled.    *)
Fairness ==
  /\ \A n \in 0..MaxNest : SF_vars(Nest = n /\ FrameStep)
  /\ SF_vars(TimerInterrupt)

FairSpec == Spec /\ Fairness
=============================================================================
