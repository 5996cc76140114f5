------------------------------ MODULE DxeEvent ------------------------------
(***************************************************************************)
(* The event services of the DXE core (Event/Event.c): CreateEvent(Ex),    *)
(* SignalEvent, CheckEvent, WaitForEvent and CloseEvent, called by driver  *)
(* code that runs in the main program or in a notification function.       *)
(***************************************************************************)
EXTENDS DxeTpl

CONSTANTS
  Ops,         \* the services this client code uses
  MaxCalls,    \* bound: services called in a behaviour (CreateEvent not counted)
  WaitLists,   \* the UserEvents arrays passed to WaitForEvent
  Polite       \* does client code close an event only at or below its NotifyTpl?

VARIABLES
  calls,       \* services the client code may still call
  UserEvents   \* the array CoreWaitForEvent scans

clientVars == <<calls, UserEvents>>

\* mEventTable; the EFI 1.1 group types are "signal" with a predefined group.
EventTable == {{"timer", "signal"}, {"timer"}, {"wait"}, {"signal"}, {}, {"timer", "wait"}}

CreateAccepts(e) ==
  /\ ReqType[e] \in EventTable
  /\ (IsSignal(e) \/ IsWait(e)) => ReqTpl[e] \in {TPL_CALLBACK, TPL_NOTIFY}

\* A request that is rejected leaves no event: Client holds the others.
ASSUME EventAssumption ==
  /\ CheckTimer \notin Client /\ IdleLoop \notin Client /\ CheckTimer # IdleLoop
  /\ NoEvent \notin Event
  /\ IdleGroup # NoGroup
  /\ \A e \in Client : CreateAccepts(e)
  /\ MaxCalls \in Nat
  /\ \A list \in WaitLists : list \in Seq(Client)
  /\ Reload \in BOOLEAN /\ Polite \in BOOLEAN

-----------------------------------------------------------------------------
(* Client code: the main program or a notification function ("run"), or    *)
(* such code between its own RaiseTPL and RestoreTPL ("section").          *)

ClientRuns == Top.pc \in {"run", "section"} /\ Top.ev # IdleLoop
Invokes(op) == ClientRuns /\ op \in Ops /\ calls > 0 /\ calls' = calls - 1

\* Is a service that was called on e still in progress in an interrupted frame?
\* A notification of e ("run", "call") is not a service call on e.
InUse(e) ==
  \/ \E i \in DOMAIN stack : stack[i].ev = e /\ stack[i].pc \notin {"run", "call"}
  \/ /\ \E i \in DOMAIN stack : stack[i].pc \in {"wait", "poll"}
     /\ e \in ToSet(UserEvents)

RaiseTPL ==
  /\ Invokes("raise")
  /\ \E t \in {TPL_CALLBACK, TPL_NOTIFY, TPL_HIGH_LEVEL} :
       /\ t >= gEfiCurrentTpl
       /\ gEfiCurrentTpl' = t
       /\ intr' = (intr /\ t < TPL_HIGH_LEVEL)
       /\ stack' = Append(stack, Frame("section", t, NoEvent, gEfiCurrentTpl))
  /\ UNCHANGED <<eventVars, UserEvents>>

RestoreTPL ==
  /\ Top.pc = "section"
  /\ stack' = Append(Callers, Restore(Top.at))
  /\ UNCHANGED <<gEfiCurrentTpl, intr, eventVars, clientVars>>

\* A notification function returns to CoreDispatchEventNotifies.
Return ==
  /\ Top.pc = "run" /\ Top.ev # NoEvent
  /\ stack' = Callers
  /\ UNCHANGED <<gEfiCurrentTpl, intr, eventVars, clientVars>>

CreateEvent(e) ==
  /\ ClientRuns
  /\ gEfiCurrentTpl <= TPL_NOTIFY       \* the pool's lock
  /\ life[e] = "none"
  /\ life' = [life EXCEPT ![e] = "live"]
  /\ gEventSignalQueue' = IF IsSignal(e) THEN Cons(e, gEventSignalQueue)
                                         ELSE gEventSignalQueue
  /\ AtHighLevel
  /\ stack' = Append(stack, Restore(gEfiCurrentTpl))
  /\ UNCHANGED <<queueVars, clientVars>>

-----------------------------------------------------------------------------
(* CoreNotifyEvent, CoreSignalEvent and CoreNotifySignalList.              *)

\* Mutant of CoreNotifyEvent: the level's bit is not set.
QueueOnly(e) ==
  /\ gEventQueue' = [gEventQueue EXCEPT ![NotifyTpl(e)] = Append(RemoveEntry(@, e), e)]
  /\ UNCHANGED gEventPending

CoreNotifyEvent(e) ==
  /\ gEventQueue' = [gEventQueue EXCEPT ![NotifyTpl(e)] = Append(RemoveEntry(@, e), e)]
  /\ gEventPending' = gEventPending \cup {NotifyTpl(e)}

\* CoreSignalEvent called at level t; rest is the stack it returns to.
CoreSignalEvent(e, t, rest) ==
  /\ AtHighLevel
  /\ SignalCount' = [SignalCount EXCEPT ![e] = 1]
  /\ \/ /\ SignalCount[e] = 0 /\ IsSignal(e)
        /\ EventGroup(e) = NoGroup
        /\ CoreNotifyEvent(e)
        /\ stack' = Append(rest, Restore(t))
     \/ /\ SignalCount[e] = 0 /\ IsSignal(e)
        /\ EventGroup(e) # NoGroup
        /\ stack' = rest \o <<Frame("group", t, e, 0), Restore(t)>>
        /\ UNCHANGED <<gEventQueue, gEventPending>>
     \/ /\ SignalCount[e] # 0 \/ ~IsSignal(e)
        /\ stack' = Append(rest, Restore(t))
        /\ UNCHANGED <<gEventQueue, gEventPending>>
  /\ UNCHANGED <<gEventSignalQueue, life>>

SignalEvent(e) ==
  /\ Invokes("signal")
  /\ life[e] = "live"
  /\ CoreSignalEvent(e, gEfiCurrentTpl, stack)
  /\ UNCHANGED UserEvents

\* CoreNotifySignalList (&Event->EventGroup), one list element at a time.
GroupLock ==
  /\ Top.pc = "group"
  /\ AtHighLevel
  /\ stack' = Append(Callers, Now("members", Top.ev, 1))
  /\ UNCHANGED <<eventVars, clientVars>>

GroupMember ==
  /\ Top.pc = "members" /\ Top.at <= Len(gEventSignalQueue)
  /\ LET m == gEventSignalQueue[Top.at]
     IN  IF EventGroup(m) = EventGroup(Top.ev) THEN CoreNotifyEvent(m)
                                               ELSE UNCHANGED <<gEventQueue, gEventPending>>
  /\ stack' = Append(Callers, Now("members", Top.ev, Top.at + 1))
  /\ UNCHANGED <<gEfiCurrentTpl, intr, SignalCount, gEventSignalQueue, life, clientVars>>

GroupUnlock ==
  /\ Top.pc = "members" /\ Top.at > Len(gEventSignalQueue)
  /\ stack' = Callers \o <<Now("relock", Top.ev, 0), Restore(Top.tpl)>>
  /\ UNCHANGED <<gEfiCurrentTpl, intr, eventVars, clientVars>>

\* CoreSignalEvent takes gEventQueueLock again after the list, and releases it.
SignalRelock ==
  /\ Top.pc = "relock"
  /\ AtHighLevel
  /\ stack' = Append(Callers, Restore(Top.tpl))
  /\ UNCHANGED <<eventVars, clientVars>>

-----------------------------------------------------------------------------
(* CoreCheckEvent, first half (queue the wait function) and second half.   *)
(* at is 0 for a caller that is not CoreWaitForEvent, else its Index + 1.  *)

CoreCheckEvent(e, t, rest, i) ==
  /\ \/ /\ SignalCount[e] = 0 /\ IsWait(e)
        /\ AtHighLevel
        /\ CoreNotifyEvent(e)
        /\ stack' = rest \o <<Frame("poll", t, e, i), Restore(t)>>
     \/ /\ SignalCount[e] # 0 \/ ~IsWait(e)
        /\ stack' = Append(rest, Frame("poll", t, e, i))
        /\ UNCHANGED <<gEfiCurrentTpl, intr, gEventQueue, gEventPending>>
  /\ UNCHANGED <<SignalCount, gEventSignalQueue, life>>

CheckEvent(e) ==
  /\ Invokes("check")
  /\ life[e] = "live" /\ ~IsSignal(e)
  /\ CoreCheckEvent(e, gEfiCurrentTpl, stack, 0)
  /\ UNCHANGED UserEvents

\* EFI_SUCCESS: the signal is consumed, and CoreWaitForEvent returns too.
PollSignalled ==
  /\ Top.pc = "poll" /\ SignalCount[Top.ev] # 0
  /\ SignalCount' = [SignalCount EXCEPT ![Top.ev] = 0]
  /\ AtHighLevel
  /\ stack' = Append(Callers, Restore(Top.tpl))
  /\ UNCHANGED <<gEventQueue, gEventPending, gEventSignalQueue, life, clientVars>>

\* EFI_NOT_READY: CoreWaitForEvent goes on to the next event.
PollNotReady ==
  /\ Top.pc = "poll" /\ SignalCount[Top.ev] = 0
  /\ stack' = IF Top.at = 0 THEN Callers
              ELSE Append(Callers, Now("wait", NoEvent, Top.at + 1))
  /\ UNCHANGED <<gEfiCurrentTpl, intr, eventVars, clientVars>>

WaitForEvent(list) ==
  /\ Invokes("wait")
  /\ gEfiCurrentTpl = TPL_APPLICATION
  /\ list # <<>>
  /\ \A e \in ToSet(list) : life[e] = "live" /\ ~IsSignal(e)
  /\ UserEvents' = list
  /\ stack' = Append(stack, Frame("wait", TPL_APPLICATION, NoEvent, 1))
  /\ UNCHANGED <<gEfiCurrentTpl, intr, eventVars>>

\* Mutant of MoreEvents: the last event of the array is skipped.
MoreButLast == Top.at < Len(UserEvents)

MoreEvents == Top.at <= Len(UserEvents)

WaitCheck ==
  /\ Top.pc = "wait" /\ MoreEvents
  /\ CoreCheckEvent(UserEvents[Top.at], Top.tpl, Callers, Top.at)
  /\ UNCHANGED clientVars

WaitIdle ==
  /\ Top.pc = "wait" /\ ~MoreEvents
  /\ CoreSignalEvent(IdleLoop, Top.tpl,
                     Append(Callers, Now("wait", NoEvent, 1)))
  /\ UNCHANGED clientVars

-----------------------------------------------------------------------------
(* CoreCloseEvent.  CoreUnregisterProtocolNotify raises to TPL_NOTIFY.     *)

CloseEvent(e) ==
  /\ Invokes("close")
  /\ gEfiCurrentTpl <= TPL_NOTIFY
  /\ life[e] = "live" /\ ~InUse(e)
  /\ (Polite /\ (IsSignal(e) \/ IsWait(e))) => gEfiCurrentTpl <= NotifyTpl(e)
  /\ life' = [life EXCEPT ![e] = "closing"]
  /\ stack' = stack \o <<Frame("close", gEfiCurrentTpl, e, 0)>>
                    \o (IF IsTimer(e)
                        THEN <<Frame("SetTimer", gEfiCurrentTpl, e, -1)>> ELSE <<>>)
  /\ UNCHANGED <<gEfiCurrentTpl, intr, queueVars, gEventSignalQueue, UserEvents>>

CloseUnlink ==
  /\ Top.pc = "close"
  /\ gEventQueue' = [t \in Level |-> RemoveEntry(gEventQueue[t], Top.ev)]
  /\ gEventSignalQueue' = RemoveEntry(gEventSignalQueue, Top.ev)
  /\ AtHighLevel
  /\ stack' = Callers \o <<Now("free", Top.ev, 0), Restore(Top.tpl)>>
  /\ UNCHANGED <<gEventPending, SignalCount, life, clientVars>>

CloseFree ==
  /\ Top.pc = "free"
  /\ life' = [life EXCEPT ![Top.ev] = "freed"]
  /\ stack' = Callers
  /\ UNCHANGED <<gEfiCurrentTpl, intr, queueVars, gEventSignalQueue, clientVars>>

-----------------------------------------------------------------------------
\* A step of a service or of the core in the running frame.
ServiceStep ==
  \/ TplStep /\ UNCHANGED clientVars
  \/ RestoreTPL \/ Return
  \/ GroupLock \/ GroupMember \/ GroupUnlock \/ SignalRelock
  \/ PollSignalled \/ PollNotReady \/ WaitCheck \/ WaitIdle
  \/ CloseUnlink \/ CloseFree

\* A service called by client code.
ClientCall ==
  \/ RaiseTPL
  \/ \E e \in Client : CreateEvent(e) \/ SignalEvent(e) \/ CheckEvent(e) \/ CloseEvent(e)
  \/ \E list \in WaitLists : WaitForEvent(list)
=============================================================================
