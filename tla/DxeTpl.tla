------------------------------- MODULE DxeTpl -------------------------------
(***************************************************************************)
(* Task priority levels of the DXE core (MdeModulePkg/Core/Dxe/Event/Tpl.c *)
(* and CoreDispatchEventNotifies of Event.c).                              *)
(*                                                                         *)
(* There is one processor and one call stack.  "stack" is that call stack: *)
(* one frame per C function that still has something to do, the running    *)
(* one last.  A step of the system is a step of the last frame, or the     *)
(* timer interrupt, which pushes its own frames.  A critical section under *)
(* gEventQueueLock runs at TPL_HIGH_LEVEL with interrupts disabled, so it  *)
(* is one step; every other point where an interrupt can be taken between  *)
(* two accesses to shared state separates two steps.                       *)
(***************************************************************************)
EXTENDS Integers, SequencesExt

CONSTANTS
  Client,      \* the IEVENTs that drivers create
  CheckTimer,  \* mEfiCheckTimerEvent, created by CoreInitializeTimer
  IdleLoop,    \* gIdleLoopEvent, created by CoreInitializeEventServices
  NoEvent,     \* no event: a frame that works on none
  NoGroup,     \* ExFlag = FALSE: an event without an EventGroup
  ReqType,     \* [Client -> flags]: the Type passed to CreateEvent(Ex)
  ReqTpl,      \* [Client -> Nat]: the NotifyTpl passed to CreateEvent(Ex)
  ReqGroup,    \* [Client -> group]: the EventGroup passed, or NoGroup
  IdleGroup,   \* gIdleLoopEventGuid
  Reload       \* does the build load gEventPending again for HighBitSet64?

VARIABLES
  gEfiCurrentTpl,    \* current task priority level
  intr,              \* are the processor's interrupts enabled?
  stack,             \* the call stack
  gEventPending,     \* the levels whose bit is set in the bit mask
  gEventQueue,       \* level -> the events queued there, oldest first
  gEventSignalQueue, \* the EVT_NOTIFY_SIGNAL events, newest first
  SignalCount,       \* event -> 0 or 1
  life               \* event -> "none", "live", "closing" or "freed"

tplVars   == <<gEfiCurrentTpl, intr, stack>>
queueVars == <<gEventPending, gEventQueue, SignalCount>>
eventVars == <<queueVars, gEventSignalQueue, life>>

TPL_APPLICATION == 4
TPL_CALLBACK    == 8
TPL_NOTIFY      == 16
TPL_TIMER       == 30     \* TPL_HIGH_LEVEL - 1: mEfiTimerLock, CoreCheckTimers
TPL_HIGH_LEVEL  == 31

Event  == Client \cup {CheckTimer, IdleLoop}
\* The NotifyTpls that an event which passed CoreCreateEvent's checks can have.
Level  == {TPL_CALLBACK, TPL_NOTIFY, TPL_TIMER}

\* IEVENT.Type, .NotifyTpl and .EventGroup as CoreCreateEventInternal stores them.
EvtType(e) == IF e \in Client THEN ReqType[e] ELSE {"signal"}
IsSignal(e) == "signal" \in EvtType(e)
IsWait(e)   == "wait" \in EvtType(e)
IsTimer(e)  == "timer" \in EvtType(e)
NotifyTpl(e) == CASE e = CheckTimer -> TPL_TIMER
                  [] e = IdleLoop   -> TPL_NOTIFY
                  [] OTHER -> IF IsSignal(e) \/ IsWait(e) THEN ReqTpl[e] ELSE 0
EventGroup(e) == CASE e = CheckTimer -> NoGroup
                   [] e = IdleLoop   -> IdleGroup
                   [] OTHER -> ReqGroup[e]

-----------------------------------------------------------------------------
(* The call stack.  tpl is the level the frame's function works at or will *)
(* restore, ev the event it works on, at a local variable.                 *)

Frame(pc, t, e, n) == [pc |-> pc, tpl |-> t, ev |-> e, at |-> n]
Restore(t) == Frame("restore", t, NoEvent, 0)

Top    == stack[Len(stack)]
Callers == Front(stack)
\* The running frame after it goes on to pc.
Now(pc, e, n) == Frame(pc, Top.tpl, e, n)
Goto(pc) == stack' = Append(Callers, Now(pc, Top.ev, Top.at))

\* A critical section under gEventQueueLock, or any raise to TPL_HIGH_LEVEL:
\* the section's effects, then CoreRestoreTpl still to run.
AtHighLevel == /\ gEfiCurrentTpl' = TPL_HIGH_LEVEL
               /\ intr' = FALSE

\* Mutant of RemoveEntry: the entry is left in the list.
KeepEntry(s, e) == s

\* RemoveEntryList of an event that may be in the list, at one place.
RemoveEntry(s, e) ==
  IF Contains(s, e) THEN RemoveAt(s, CHOOSE i \in DOMAIN s : s[i] = e) ELSE s

\* Mutant of Above: "-1 <<" instead of "-2 <<".
AtOrAbove(t) == {p \in gEventPending : p >= t}

\* The test of the loop: (-2 << NewTpl) & gEventPending.
Above(t) == {p \in gEventPending : p > t}

-----------------------------------------------------------------------------
(* CoreRestoreTpl (NewTpl = Top.tpl): test the loop condition, pick the     *)
(* level to dispatch, or store the new level and enable interrupts.         *)

RestoreLoop ==
  /\ Top.pc = "restore"
  /\ \/ /\ Above(Top.tpl) # {}
        /\ stack' = Append(Callers, Now("pick", Top.ev, Max(gEventPending)))
     \/ /\ Above(Top.tpl) = {}
        /\ Goto("lower")
  /\ UNCHANGED <<gEfiCurrentTpl, intr, eventVars>>

\* HighBitSet64 of what was loaded for the loop test, or of a second load.
HighBit == {Top.at} \cup
  (IF Reload THEN {IF gEventPending = {} THEN -1 ELSE Max(gEventPending)} ELSE {})

RestorePick ==
  /\ Top.pc = "pick"
  /\ \E p \in HighBit :
       \/ /\ p # -1
          /\ gEfiCurrentTpl' = p
          /\ intr' = TRUE
          /\ stack' = Callers \o <<Now("restore", Top.ev, 0), Frame("dispatch", p, NoEvent, 0)>>
       \/ /\ p = -1          \* CoreAcquireEventLock raises from MAX_UINTN
          /\ gEfiCurrentTpl' = TPL_HIGH_LEVEL
          /\ intr' = FALSE
          /\ Goto("halt")
  /\ UNCHANGED eventVars

\* Mutant of RestoreLower: interrupts are not enabled again.
LowerOnly ==
  /\ Top.pc = "lower"
  /\ gEfiCurrentTpl' = Top.tpl
  /\ stack' = Callers
  /\ UNCHANGED <<intr, eventVars>>

RestoreLower ==
  /\ Top.pc = "lower"
  /\ gEfiCurrentTpl' = Top.tpl
  /\ intr' = (intr \/ Top.tpl < TPL_HIGH_LEVEL)
  /\ stack' = Callers
  /\ UNCHANGED eventVars

-----------------------------------------------------------------------------
(* CoreDispatchEventNotifies (Priority = Top.tpl).                          *)

\* Mutants of PopSignalCount: not reset, and counted down.
KeepSignalCount(e) == UNCHANGED SignalCount
CountDown(e) ==
  SignalCount' = IF IsSignal(e) THEN [SignalCount EXCEPT ![e] = @ - 1] ELSE SignalCount

\* What the loop does with the event it pops: WAIT events stay signalled.
PopSignalCount(e) ==
  SignalCount' = IF IsSignal(e) THEN [SignalCount EXCEPT ![e] = 0] ELSE SignalCount

DispatchPop ==
  /\ Top.pc = "dispatch"
  /\ gEventQueue[Top.tpl] # <<>>
  /\ LET e == Head(gEventQueue[Top.tpl])
     IN  /\ gEventQueue' = [gEventQueue EXCEPT ![Top.tpl] = Tail(@)]
         /\ PopSignalCount(e)
         /\ stack' = Callers \o <<Now("call", e, 0), Restore(Top.tpl)>>
  /\ AtHighLevel
  /\ UNCHANGED <<gEventPending, gEventSignalQueue, life>>

DispatchDone ==
  /\ Top.pc = "dispatch"
  /\ gEventQueue[Top.tpl] = <<>>
  /\ gEventPending' = gEventPending \ {Top.tpl}
  /\ AtHighLevel
  /\ stack' = Append(Callers, Restore(Top.tpl))
  /\ UNCHANGED <<gEventQueue, gEventSignalQueue, SignalCount, life>>

\* Event->NotifyFunction: CoreCheckTimers, or code of a driver.
DispatchCall ==
  /\ Top.pc = "call"
  /\ LET pc == IF Top.ev = CheckTimer THEN "check" ELSE "run"
     IN  stack' = Callers \o <<Now("dispatch", NoEvent, 0), Frame(pc, Top.tpl, Top.ev, 0)>>
  /\ UNCHANGED <<gEfiCurrentTpl, intr, eventVars>>

TplStep == RestoreLoop \/ RestorePick \/ RestoreLower
             \/ DispatchPop \/ DispatchDone \/ DispatchCall
=============================================================================
