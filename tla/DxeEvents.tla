------------------------------ MODULE DxeEvents -----------------------------
(***************************************************************************)
(* What the event, timer and task priority services of the DXE core        *)
(* promise, as properties of DxeTimer!Spec.                                *)
(***************************************************************************)
EXTENDS DxeTimer

LockHolder == {"unlinkOne", "unlinkPeriodic", "arm", "insert", "unlock",
               "scan", "fire", "rearm", "reinsert"}
PC == LockHolder \cup
      {"run", "section", "restore", "pick", "lower", "dispatch", "call", "halt",
       "group", "members", "relock", "poll", "wait", "close", "free",
       "SetTimer", "SetPeriodic", "check", "iret"}

FrameType == [pc : PC, tpl : 0..TPL_HIGH_LEVEL, ev : Event \cup {NoEvent}, at : Int]

\* What a frame's locals hold, by the function it is a frame of.
FrameOK(f) ==
  /\ f.pc \notin {"run", "section", "restore", "pick", "lower", "dispatch", "wait",
                  "iret", "halt"} => f.ev \in Event
  /\ f.pc = "section" => f.at \in 0..f.tpl
  /\ f.pc = "pick" => f.at \in Level
  /\ f.pc \in {"dispatch", "call"} => f.tpl \in Level
  /\ f.pc = "call" => NotifyTpl(f.ev) = f.tpl
  /\ f.pc \in {"members", "wait"} => f.at >= 1
  /\ f.pc = "poll" => f.at >= 0
  /\ f.pc \in {"SetTimer", "SetPeriodic"} => f.tpl <= TPL_TIMER
  /\ f.pc \in {"check", "scan", "fire", "rearm", "reinsert"} => f.tpl = TPL_TIMER

IsMain(f) == f.pc = "run" /\ f.ev = NoEvent
Frames    == {f \in FrameType : FrameOK(f)}
Stacks    == {s \in Seq(Frames) : s # <<>> /\ IsMain(s[1])}

NotifiedAt(t) == {e \in Event : NotifyTpl(e) = t}
SignalEvents  == {e \in Event : IsSignal(e)}

ServiceType ==
  /\ gEfiCurrentTpl \in 0..TPL_HIGH_LEVEL
  /\ intr \in BOOLEAN
  /\ stack \in Stacks
  /\ gEventPending \subseteq Level
  /\ gEventQueue = [t \in Level |-> gEventQueue[t]]
  /\ \A t \in Level : gEventQueue[t] \in Seq(NotifiedAt(t))
  /\ gEventSignalQueue \in Seq(SignalEvents)
  /\ SignalCount \in [Event -> {0, 1}]
  /\ life \in [Event -> {"none", "live", "closing", "freed"}]

ClientType == calls \in Nat /\ UserEvents \in Seq(Client)

TimerType ==
  /\ mEfiTimerList \in Seq(Event)
  /\ TriggerTime \in [Event -> Int]
  /\ Period \in [Event -> Int]
  /\ mEfiSystemTime \in Nat

\* Every variable keeps its type; the main program is the outermost frame.
TypeOK == ServiceType /\ ClientType /\ TimerType

-----------------------------------------------------------------------------
Queued(e) == \E t \in Level : Contains(gEventQueue[t], e)
DriverCode(f) == f.pc \in {"run", "section"}
Notification(f) == \/ f.pc = "run" /\ f.ev # NoEvent
                   \/ f.pc \in {"check", "scan", "fire", "rearm", "reinsert"}
InDatabase(e) == \E i \in DOMAIN stack :
                   stack[i].ev = e /\ stack[i].pc \in LockHolder \ {"unlock"}

(* A queued notification is announced in gEventPending, the only thing      *)
(* CoreRestoreTpl looks at (Event.c:207,243-244).  Losing the bit while the *)
(* queue is not empty would leave the notification there for ever.          *)
QueuedIsPending == \A t \in Level : gEventQueue[t] # <<>> => t \in gEventPending

(* An event is in at most one place of one queue, that of its NotifyTpl,    *)
(* and CoreCloseEvent leaves no freed event in a queue, in the signal list  *)
(* or in the timer database (Event.c:234-244, 740-760).                     *)
QueueSound ==
  /\ \A t \in Level :
       /\ IsInjective(gEventQueue[t])
       /\ \A e \in ToSet(gEventQueue[t]) : NotifyTpl(e) = t
  /\ IsInjective(gEventSignalQueue)
  /\ \A e \in Event : life[e] \in {"none", "freed"} =>
       ~Queued(e) /\ ~Contains(gEventSignalQueue, e) /\ ~Contains(mEfiTimerList, e)

(* A signalled EVT_NOTIFY_SIGNAL event is in its queue, or the SignalEvent  *)
(* that is about to notify its whole group is still running: SignalCount    *)
(* can never be stuck at 1 with nothing queued, which would make every      *)
(* later SignalEvent a no-op (Event.c:189-191, 550-568).                    *)
NoLostSignal ==
  \A e \in Event : IsSignal(e) /\ life[e] = "live" /\ SignalCount[e] # 0 =>
    \/ Queued(e)
    \/ \E i \in DOMAIN stack : stack[i].ev = e /\ stack[i].pc \in {"group", "members"}

(* A notification function preempts only driver code of a lower level: the  *)
(* code that raised to a level, or was notified at it, is never interrupted *)
(* by a notification of the same or of a lower level (Tpl.c:126-131).       *)
NotificationsNest ==
  \A i, j \in DOMAIN stack :
    i < j /\ DriverCode(stack[i]) /\ Notification(stack[j])
      => stack[i].tpl < stack[j].tpl

(* Driver code runs at the level it was entered or raised to, and           *)
(* interrupts are disabled exactly at TPL_HIGH_LEVEL: no service returns to *)
(* it at another level, however many notifications ran meanwhile.           *)
LevelRestored ==
  DriverCode(Top) => /\ gEfiCurrentTpl = Top.tpl
                     /\ intr = (gEfiCurrentTpl < TPL_HIGH_LEVEL)

(* The ASSERTs of the core hold: RaiseTPL and RestoreTPL never go the wrong *)
(* way (Tpl.c:68-71,108-111), gEventQueueLock is taken at the dispatched    *)
(* level (Event.c:172), mEfiTimerLock is never taken twice (Library.c:71).  *)
CoreAssertions ==
  /\ Top.pc # "halt"
  /\ Top.pc \in {"restore", "lower", "SetTimer", "SetPeriodic"} => Top.tpl <= gEfiCurrentTpl
  /\ Top.pc = "pick" => Top.tpl < Top.at
  /\ Top.pc = "dispatch" => gEfiCurrentTpl = Top.tpl
  /\ Top.pc \in LockHolder => gEfiCurrentTpl = TPL_TIMER
  /\ \A i, j \in DOMAIN stack :
       stack[i].pc \in LockHolder /\ stack[j].pc \in LockHolder => i = j

(* While a frame holds mEfiTimerLock no driver code runs: the timer         *)
(* database changes under CoreCheckTimers or CoreSetTimer only by their own *)
(* hand, although both signal events halfway (Timer.c:111-160, 268-298).    *)
DatabaseAtomic ==
  \A i, j \in DOMAIN stack :
    i < j /\ stack[i].pc \in LockHolder => ~DriverCode(stack[j])

(* The timer database is in ascending order of TriggerTime and holds every  *)
(* armed timer once; CoreTimerTick and CoreCheckTimers stop at the first    *)
(* timer that is not due (Timer.c:59-67, 120-122, 216-221).                 *)
TimerListSound ==
  /\ IsInjective(mEfiTimerList)
  /\ \A i, j \in DOMAIN mEfiTimerList :
       i < j => TriggerTime[mEfiTimerList[i]] <= TriggerTime[mEfiTimerList[j]]

(* A periodic timer stays armed: it is in the database, or the SetTimer or  *)
(* CoreCheckTimers that will insert it is running (Timer.c:139-157).        *)
PeriodicStaysArmed ==
  \A e \in Event : Period[e] # 0 => Contains(mEfiTimerList, e) \/ InDatabase(e)

(* The core does not touch a freed event: every frame that will still read  *)
(* its event finds it allocated.  A notification function may close its own *)
(* event while it runs (Event.c:180-199, 562-563, 769).                     *)
NoUseAfterFree ==
  \A i \in DOMAIN stack :
    stack[i].ev \in Event /\ stack[i].pc # "run" => life[stack[i].ev] # "freed"

-----------------------------------------------------------------------------
(* The event whose NotifyFunction CoreDispatchEventNotifies calls is still  *)
(* allocated.                                                               *)
CalledIsAllocated == Top.pc = "call" => life[Top.ev] # "freed"

-----------------------------------------------------------------------------
(* The shape of the call stack, from which NotificationsNest, LevelRestored, *)
(* CoreAssertions and DatabaseAtomic follow.                                *)

\* Frames that may run while mEfiTimerLock is held below them.
Quiet == {"restore", "pick", "lower", "iret", "group", "members", "relock"}

\* No frame above f works at, or returns to, a level below Base(f); f's caller
\* continues at level Resume(f).
Base(f)   == IF f.pc \in LockHolder THEN TPL_TIMER ELSE f.tpl
Resume(f) == IF f.pc = "section" THEN f.at ELSE f.tpl

\* Frame f can be running at level t.
RunsAt(f, t) ==
  CASE f.pc \in {"restore", "lower"} -> f.tpl <= t
    [] f.pc = "pick"       -> f.tpl <= t /\ f.tpl < f.at
    [] f.pc \in LockHolder -> t = TPL_TIMER /\ f.tpl <= TPL_TIMER
    [] f.pc = "members"    -> t = TPL_HIGH_LEVEL
    [] OTHER               -> t = f.tpl

\* Frame f can have called frame h.
Calls(f, h) ==
  /\ RunsAt(f, Resume(h))
  /\ h.pc \in {"dispatch", "call"} => f.pc = "restore" /\ f.tpl < h.tpl
  /\ h.pc = "run" \/ Notification(h) => f.pc = "dispatch" /\ f.tpl = h.tpl
  /\ h.pc \notin Quiet \cup {"dispatch", "call"} => f.pc \notin Quiet \cup LockHolder

StackOK(s) ==
  /\ \A i \in DOMAIN s : s[i].pc # "halt" /\ (s[i].pc = "iret" => s[i].tpl < TPL_HIGH_LEVEL)
  /\ \A i \in 2..Len(s) : Calls(s[i-1], s[i]) /\ ~IsMain(s[i])
  /\ \A i, j \in DOMAIN s : i < j =>
       /\ Base(s[i]) <= Base(s[j])
       /\ s[j].pc \in {"dispatch", "call"} => Base(s[i]) < s[j].tpl
       /\ s[i].pc \in LockHolder => s[j].pc \in Quiet

StackInv ==
  /\ StackOK(stack)
  /\ RunsAt(Top, gEfiCurrentTpl)
  /\ intr => gEfiCurrentTpl < TPL_HIGH_LEVEL
  /\ Top.pc \notin {"restore", "pick", "lower", "members"} =>
       intr = (gEfiCurrentTpl < TPL_HIGH_LEVEL)

-----------------------------------------------------------------------------
(* The services implement a preemptive priority scheduler.  A notification  *)
(* starts when CoreDispatchEventNotifies takes its event from the queue.    *)
IsContext(f) == DriverCode(f) \/ Notification(f) \/ f.pc = "call"
NotifiedEvent(f) == CASE f.pc \in {"run", "call"} -> f.ev
                      [] f.pc = "section"       -> NoEvent
                      [] OTHER                  -> CheckTimer
ContextOf(f) == [event |-> NotifiedEvent(f), level |-> f.tpl]

\* The contexts among the first i frames of stack s, for i = Len(s).
Contexts(s) ==
  LET first[i \in 0..Len(s)] ==
        IF i = 0 THEN <<>>
        ELSE IF IsContext(s[i]) THEN Append(first[i-1], ContextOf(s[i])) ELSE first[i-1]
  IN  first[Len(s)]

Scheduler == INSTANCE NotifyScheduler WITH
  Events <- Event, LevelOf <- NotifyTpl,
  MainLevel <- TPL_APPLICATION, TopLevel <- TPL_HIGH_LEVEL, NoEvent <- NoEvent,
  owed <- {e \in Event : Queued(e)}, active <- Contexts(stack)

ImplementsScheduler == Scheduler!Spec

-----------------------------------------------------------------------------
(* A queued notification is eventually called, or its event is closed: also *)
(* one that an interrupt queued behind CoreRestoreTpl's last test, which    *)
(* waits for the next tick.                                                 *)
QueuedIsNotified ==
  \A e \in Event : Queued(e) ~> (Top.ev = e /\ Top.pc \in {"run", "check"}) \/ life[e] # "live"

(* An armed timer eventually leaves the database: it fires, or is cancelled *)
(* or set again.                                                            *)
TimerFires ==
  \A e \in Client :
    Contains(mEfiTimerList, e) /\ TriggerTime[e] <= MaxTime ~> ~Contains(mEfiTimerList, e)

(* WaitForEvent returns when one of its events has an armed timer.          *)
Waiting == \E i \in DOMAIN stack :
             stack[i].pc = "wait" \/ (stack[i].pc = "poll" /\ stack[i].at # 0)
WaitReturns ==
  (Waiting /\ \E e \in ToSet(UserEvents) : Contains(mEfiTimerList, e)
                                           /\ TriggerTime[e] <= MaxTime) ~> ~Waiting
=============================================================================
