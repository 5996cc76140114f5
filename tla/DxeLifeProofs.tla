---------------------------- MODULE DxeLifeProofs ---------------------------
(***************************************************************************)
(* The life of an event, proved for any events, groups and interleavings:  *)
(* no queue or list of the core holds an event that is not allocated, no   *)
(* signal is lost, and no service touches an event that CoreCloseEvent has *)
(* freed; and from this, that the services implement NotifyScheduler.      *)
(***************************************************************************)
EXTENDS DxeTimerProofs

\* CoreSetTimer (Event, TimerCancel, 0) before it has taken the timer out.
Cancels(f) == f.pc \in {"SetTimer", "unlinkOne"} /\ f.at = -1

\* Frame f will still read event e.
UsesEvent(f, e) == f.ev = e /\ f.pc \notin {"run", "call"}

\* No queue or list of the core holds e.
Unlinked(e) ==
  ~Queued(e) /\ ~Contains(gEventSignalQueue, e) /\ ~Contains(mEfiTimerList, e)

CoreEvents == life[CheckTimer] = "live" /\ life[IdleLoop] = "live"

FramesAllocated ==
  \A i \in DOMAIN stack : Uses(stack[i]) => life[stack[i].ev] \in {"live", "closing"}

\* Frame i of CoreCloseEvent has its event for itself, but for the functions of
\* Timer.c that finish with it; before it frees the event it has unlinked it.
ClosingAt(i) ==
  LET e == stack[i].ev
  IN  /\ life[e] = "closing"
      /\ \A j \in DOMAIN stack : j < i => ~UsesEvent(stack[j], e)
      /\ stack[i].pc = "free" =>
           Unlinked(e) /\ \A j \in DOMAIN stack : j > i => ~UsesEvent(stack[j], e)
      /\ stack[i].pc = "close" =>
           \/ /\ ~Contains(mEfiTimerList, e)
              /\ \A j \in DOMAIN stack :
                   j > i /\ UsesEvent(stack[j], e) => stack[j].pc = "unlock"
           \/ i + 1 \in DOMAIN stack /\ stack[i + 1].ev = e /\ Cancels(stack[i + 1])

Closing == \A i \in DOMAIN stack : stack[i].pc \in {"close", "free"} => ClosingAt(i)

\* The events waited for are live while CoreWaitForEvent runs.
Waiters == (\E i \in DOMAIN stack : WaitFrame(stack[i]))
             => \A e \in ToSet(UserEvents) : life[e] = "live"

LifeInv == QueueSound /\ CoreEvents /\ FramesAllocated /\ Closing /\ Waiters

-----------------------------------------------------------------------------
(* What a step does to the queues.                                          *)

QueuesInjective == \A t \in Level : IsInjective(gEventQueue[t])

\* Only events that a function may work on, or of the signal list, are queued.
QueueStep ==
  /\ QueuesInjective'
  /\ \A x \in Event : Queued(x)' => Queued(x) \/ Source(x) \/ Contains(gEventSignalQueue, x)

LEMMA QueueTypes ==
  ASSUME TypeOK
  PROVE  /\ DOMAIN gEventQueue = Level
         /\ \A t \in Level : gEventQueue[t] \in Seq(NotifiedAt(t))
         /\ gEventSignalQueue \in Seq(SignalEvents)
         /\ \A x : Contains(gEventSignalQueue, x) => x \in Event /\ IsSignal(x)
         /\ \A x : Queued(x) => x \in Event
<1>1. /\ DOMAIN gEventQueue = Level
      /\ \A t \in Level : gEventQueue[t] \in Seq(NotifiedAt(t))
      /\ gEventSignalQueue \in Seq(SignalEvents)
  BY DEF TypeOK, ServiceType
<1>2. \A x : Contains(gEventSignalQueue, x) => x \in Event /\ IsSignal(x)
  BY <1>1 DEF Contains, SignalEvents
<1>3. ASSUME NEW x, Queued(x) PROVE x \in Event
  <2>1. PICK t \in Level : Contains(gEventQueue[t], x)
    BY <1>3 DEF Queued
  <2>2. PICK i \in DOMAIN gEventQueue[t] : gEventQueue[t][i] = x
    BY <2>1 DEF Contains
  <2>3. x \in NotifiedAt(t)
    BY <1>1, <2>2
  <2> QED BY <2>3 DEF NotifiedAt
<1> QED BY <1>1, <1>2, <1>3

LEMMA SameQueueStep ==
  ASSUME QueuesInjective, UNCHANGED gEventQueue PROVE QueueStep
BY DEF QueuesInjective, QueueStep, Queued

\* CoreNotifyEvent appends e to its queue, where it may be already.
LEMMA NotifyQueued ==
  ASSUME TypeOK, QueuesInjective, NEW e \in Event, IsSignal(e) \/ IsWait(e), CoreNotifyEvent(e)
  PROVE  /\ QueuesInjective'
         /\ \A x : Queued(x)' <=> Queued(x) \/ x = e
<1> DEFINE n == NotifyTpl(e)
           q == RemoveEntry(gEventQueue[n], e)
<1>1. n \in Level /\ DOMAIN gEventQueue = Level
  BY LevelOfNotify, QueueTypes
<1>2. gEventQueue' = [gEventQueue EXCEPT ![n] = Append(q, e)]
  BY DEF CoreNotifyEvent
<1>3. /\ q \in Seq(NotifiedAt(n)) /\ IsInjective(q) /\ ~Contains(q, e)
      /\ \A y : Contains(q, y) => Contains(gEventQueue[n], y)
      /\ \A y : Contains(gEventQueue[n], y) /\ y # e => Contains(q, y)
  BY <1>1, QueueTypes, RemoveEntryIs DEF QueuesInjective
<1>4. e \in NotifiedAt(n)
  BY DEF NotifiedAt
<1> HIDE DEF n, q
<1>5. /\ \A y : Contains(Append(q, e), y) <=> Contains(q, y) \/ y = e
      /\ IsInjective(Append(q, e))
  BY <1>3, <1>4, AppendedIs
<1>6. \A t \in Level : gEventQueue'[t] = IF t = n THEN Append(q, e) ELSE gEventQueue[t]
  BY <1>1, <1>2
<1>7. QueuesInjective'
  BY <1>5, <1>6 DEF QueuesInjective
<1>8. \A x : Queued(x)' <=> Queued(x) \/ x = e
  BY <1>1, <1>3, <1>5, <1>6 DEF Queued
<1> QED BY <1>7, <1>8

LEMMA NotifyStep ==
  ASSUME TypeOK, QueuesInjective, NEW e \in Event, IsSignal(e) \/ IsWait(e), CoreNotifyEvent(e),
         Source(e) \/ Contains(gEventSignalQueue, e)
  PROVE  QueueStep
BY NotifyQueued DEF QueueStep

LEMMA SignalStep ==
  ASSUME TypeOK, QueuesInjective, NEW e \in Event, Source(e), NEW t, NEW rest,
         CoreSignalEvent(e, t, rest)
  PROVE  QueueStep
<1>1. (IsSignal(e) /\ CoreNotifyEvent(e)) \/ UNCHANGED gEventQueue
  BY Zenon DEF CoreSignalEvent
<1> QED BY <1>1, NotifyStep, SameQueueStep

LEMMA CheckStep ==
  ASSUME TypeOK, QueuesInjective, NEW e \in Event, Source(e), NEW t, NEW rest, NEW i,
         CoreCheckEvent(e, t, rest, i)
  PROVE  QueueStep
<1>1. (IsWait(e) /\ CoreNotifyEvent(e)) \/ UNCHANGED gEventQueue
  BY Zenon DEF CoreCheckEvent
<1> QED BY <1>1, NotifyStep, SameQueueStep

\* CoreDispatchEventNotifies takes the first event of the queue.
LEMMA PopQueued ==
  ASSUME TypeOK, QueuesInjective, DispatchPop
  PROVE  /\ QueuesInjective'
         /\ \A x : Queued(x)' => Queued(x)
         /\ \A x : Queued(x) /\ x # Head(gEventQueue[Top.tpl]) => Queued(x)'
<1> DEFINE n == Top.tpl
           q == gEventQueue[n]
<1>1. n \in Level /\ DOMAIN gEventQueue = Level
  BY Running, QueueTypes DEF DispatchPop, Frames, FrameOK
<1>2. q # <<>> /\ gEventQueue' = [gEventQueue EXCEPT ![n] = Tail(q)]
  BY DEF DispatchPop
<1>3. /\ IsInjective(Tail(q))
      /\ \A y : Contains(Tail(q), y) => Contains(q, y)
      /\ \A y : Contains(q, y) /\ y # Head(q) => Contains(Tail(q), y)
  BY <1>1, <1>2, QueueTypes, TailIs DEF QueuesInjective
<1> HIDE DEF n
<1>4. \A t \in Level : gEventQueue'[t] = IF t = n THEN Tail(q) ELSE gEventQueue[t]
  BY <1>1, <1>2
<1>5. QueuesInjective'
  BY <1>3, <1>4 DEF QueuesInjective
<1>6. \A x : Queued(x)' => Queued(x)
  BY <1>1, <1>3, <1>4 DEF Queued
<1>7. \A x : Queued(x) /\ x # Head(q) => Queued(x)'
  BY <1>1, <1>3, <1>4 DEF Queued
<1> QED BY <1>5, <1>6, <1>7 DEF n

\* CoreCloseEvent takes its event out of every queue.
LEMMA UnlinkQueued ==
  ASSUME TypeOK, QueuesInjective, CloseUnlink
  PROVE  /\ QueuesInjective' /\ \A t \in Level : ~Contains(gEventQueue'[t], Top.ev)
         /\ \A x : Queued(x)' => Queued(x)
         /\ \A x : Queued(x) /\ x # Top.ev => Queued(x)'
<1> DEFINE e == Top.ev
<1>1. \A t \in Level : gEventQueue'[t] = RemoveEntry(gEventQueue[t], e)
  BY DEF CloseUnlink
<1> HIDE DEF e
<1>2. ASSUME NEW t \in Level
      PROVE  LET q == gEventQueue[t] IN
             /\ IsInjective(RemoveEntry(q, e)) /\ ~Contains(RemoveEntry(q, e), e)
             /\ \A y : Contains(RemoveEntry(q, e), y) => Contains(q, y)
             /\ \A y : Contains(q, y) /\ y # e => Contains(RemoveEntry(q, e), y)
  <2>1. gEventQueue[t] \in Seq(NotifiedAt(t)) /\ IsInjective(gEventQueue[t])
    BY QueueTypes DEF QueuesInjective
  <2> QED BY <2>1, RemoveEntryIs
<1>3. QueuesInjective'
  BY <1>1, <1>2 DEF QueuesInjective
<1>4. \A t \in Level : ~Contains(gEventQueue'[t], e)
  BY <1>1, <1>2
<1>5. \A x : Queued(x)' => Queued(x)
  BY <1>1, <1>2 DEF Queued
<1>6. \A x : Queued(x) /\ x # e => Queued(x)'
  BY <1>1, <1>2 DEF Queued
<1> QED BY <1>3, <1>4, <1>5, <1>6 DEF e

-----------------------------------------------------------------------------
(* A step that frees no event and starts to close none.                     *)

\* The event that a function may work on is allocated.
LEMMA SourceAllocated ==
  ASSUME TypeOK, LifeInv, NEW e \in Event, Source(e) PROVE life[e] \in {"live", "closing"}
<1>1. Len(stack) \in DOMAIN stack /\ Top = stack[Len(stack)]
  BY Running DEF Stacks, Top
<1>2. life[e] \in {"none", "live", "closing", "freed"}
  BY DEF TypeOK, ServiceType
<1>3. CASE Contains(mEfiTimerList, e)
  BY <1>2, <1>3 DEF LifeInv, QueueSound
<1>4. CASE WaitFrame(Top) /\ e \in ToSet(UserEvents)
  BY <1>1, <1>4 DEF LifeInv, Waiters
<1>5. CASE Uses(Top) /\ Top.ev = e
  BY <1>1, <1>5 DEF LifeInv, FramesAllocated
<1> QED BY <1>3, <1>4, <1>5 DEF Source, LifeInv, CoreEvents

\* An event being closed is worked on only by the function that closes it.
LEMMA SourceClosing ==
  ASSUME TypeOK, LifeInv, NEW e \in Event, Source(e), life[e] = "closing",
         ~Contains(mEfiTimerList, e)
  PROVE  Uses(Top) /\ Top.ev = e /\ Top.pc \notin {"close", "free", "unlock"}
<1>1. Len(stack) \in DOMAIN stack /\ Top = stack[Len(stack)]
  BY Running DEF Stacks, Top
<1>2. ~(WaitFrame(Top) /\ e \in ToSet(UserEvents))
  BY <1>1 DEF LifeInv, Waiters
<1> QED BY <1>2 DEF Source, LifeInv, CoreEvents

\* What such a step does to the lists and the lives of the events.
QueuesGrow ==
  /\ \A x \in Event : life'[x] = life[x] \/ (life[x] = "none" /\ life'[x] = "live")
  /\ IsInjective(gEventSignalQueue')
  /\ \A x \in Event : Contains(gEventSignalQueue', x) =>
       Contains(gEventSignalQueue, x) \/ life'[x] = "live"
  /\ QueueStep
  /\ \A x \in Event : Contains(mEfiTimerList', x) => Source(x)

\* What it may put on the stack.
Served(f) == f.pc \notin {"close", "free"} /\ (Uses(f) => Source(f.ev))

\* The function that cancels a timer for CoreCloseEvent goes on with it.
CancelGoesOn ==
  /\ Len(stack) \in DOMAIN stack' /\ stack'[Len(stack)].ev = Top.ev
  /\ \/ Cancels(stack'[Len(stack)])
     \/ /\ stack'[Len(stack)].pc = "unlock" /\ ~Contains(mEfiTimerList', Top.ev)
        /\ Len(stack') = Len(stack)

LEMMA GrowSound ==
  ASSUME TypeOK, TypeOK', LifeInv, QueuesGrow
  PROVE  /\ QueueSound' /\ CoreEvents'
         /\ \A e \in Event : life[e] = "closing" /\ Unlinked(e) /\ ~Source(e) => Unlinked(e)'
<1>0. life \in [Event -> {"none", "live", "closing", "freed"}] /\ {CheckTimer, IdleLoop} \subseteq Event
  BY DEF TypeOK, ServiceType, Event
<1>1. CoreEvents'
  BY <1>0 DEF LifeInv, CoreEvents, QueuesGrow
<1>2. ASSUME NEW t \in Level
      PROVE  IsInjective(gEventQueue'[t]) /\ \A e \in ToSet(gEventQueue'[t]) : NotifyTpl(e) = t
  <2>1. gEventQueue'[t] \in Seq(NotifiedAt(t))
    BY DEF TypeOK, ServiceType
  <2>2. ToSet(gEventQueue'[t]) \subseteq NotifiedAt(t)
    BY <2>1 DEF ToSet
  <2> QED BY <2>2 DEF QueuesGrow, QueueStep, QueuesInjective, NotifiedAt
<1>3. ASSUME NEW e \in Event, life'[e] \in {"none", "freed"}
      PROVE  ~Queued(e)' /\ ~Contains(gEventSignalQueue', e) /\ ~Contains(mEfiTimerList', e)
  <2>1. life[e] \in {"none", "freed"}
    BY <1>0, <1>3 DEF QueuesGrow
  <2>2. ~Queued(e) /\ ~Contains(gEventSignalQueue, e) /\ ~Contains(mEfiTimerList, e)
    BY <2>1 DEF LifeInv, QueueSound
  <2>3. ~Source(e)
    BY <2>1, SourceAllocated
  <2> QED BY <1>3, <2>2, <2>3 DEF QueuesGrow, QueueStep
<1>4. QueueSound'
  BY <1>2, <1>3 DEF QueueSound, QueuesGrow
<1>5. ASSUME NEW e \in Event, life[e] = "closing", Unlinked(e), ~Source(e) PROVE Unlinked(e)'
  BY <1>5 DEF Unlinked, QueuesGrow, QueueStep
<1> QED BY <1>1, <1>4, <1>5

LEMMA LifeStep ==
  ASSUME TypeOK, TypeOK', LifeInv, QueuesGrow, NEW N, Over(stack', N), \A f \in N : Served(f),
         \/ UserEvents' = UserEvents /\ \A f \in N : WaitFrame(f) => WaitFrame(Top)
         \/ \A e \in ToSet(UserEvents') : e \in Event /\ life[e] = "live",
         Cancels(Top) => CancelGoesOn
  PROVE  LifeInv'
<1> DEFINE n == Len(stack)
<1>0. /\ n \in Nat /\ DOMAIN stack = 1..n /\ n >= 1 /\ Top = stack[n]
      /\ \A i \in DOMAIN stack : stack[i] \in Frames
      /\ DOMAIN stack' = 1..Len(stack') /\ Len(stack') \in Nat
      /\ \A i \in DOMAIN stack' : stack'[i] \in Frames
      /\ life \in [Event -> {"none", "live", "closing", "freed"}]
  BY Running DEF Stacks, Top, TypeOK, ServiceType
<1>a. /\ \A i \in 1..(n - 1) : i \in DOMAIN stack' /\ stack'[i] = stack[i]
      /\ \A i \in DOMAIN stack' : i >= n => (i = n /\ stack'[i] = Top) \/ stack'[i] \in N
  BY DEF Over
<1> HIDE DEF n
<1>b. \A i \in DOMAIN stack' : (i \in DOMAIN stack /\ stack'[i] = stack[i]) \/ (i >= n /\ stack'[i] \in N)
  BY <1>0, <1>a
<1>1. /\ QueueSound' /\ CoreEvents'
      /\ \A e \in Event : life[e] = "closing" /\ Unlinked(e) /\ ~Source(e) => Unlinked(e)'
  BY GrowSound
<1>2. FramesAllocated'
  <2> SUFFICES ASSUME NEW i \in DOMAIN stack', Uses(stack'[i])
               PROVE  life'[stack'[i].ev] \in {"live", "closing"}
    BY DEF FramesAllocated
  <2>1. stack'[i].ev \in Event
    BY DEF Uses
  <2>2. life[stack'[i].ev] \in {"live", "closing"}
    BY <1>b, <2>1, SourceAllocated DEF Served, LifeInv, FramesAllocated
  <2> QED BY <2>1, <2>2 DEF QueuesGrow
<1>3. ASSUME NEW i \in DOMAIN stack', stack'[i].pc \in {"close", "free"} PROVE ClosingAt(i)'
  <2>0. PICK e : e = stack[i].ev
    OBVIOUS
  <2>1. i \in DOMAIN stack /\ stack'[i] = stack[i] /\ ClosingAt(i)
    BY <2>0, <1>b, <1>3 DEF Served, LifeInv, Closing
  <2>2. e \in Event /\ life[e] = "closing" /\ life'[e] = "closing" /\ stack'[i].ev = e
    <3>1. stack[i] \in Frames
      BY <1>0, <2>1
    <3>2. stack[i].ev \in Event
      BY <1>3, <2>1, <3>1 DEF Frames, FrameOK
    <3> QED BY <2>0, <2>1, <3>2 DEF ClosingAt, QueuesGrow
  <2>c. ~(Cancels(Top) /\ i = n)
    BY <1>0, <1>3, <2>1 DEF Cancels
  <2>3. ASSUME NEW j \in DOMAIN stack', j < i PROVE ~UsesEvent(stack'[j], e)
    <3>1. j \in 1..(n - 1)
      BY <1>0, <2>1, <2>3
    <3>2. j \in DOMAIN stack /\ stack'[j] = stack[j]
      BY <1>0, <1>a, <3>1
    <3> QED BY <2>0, <2>1, <2>3, <3>2 DEF ClosingAt
  \* A function called since then may use the event only by continuing with it.
  <2>4. ASSUME ~Contains(mEfiTimerList, e), NEW j \in DOMAIN stack', j > i, UsesEvent(stack'[j], e),
               ~(j \in DOMAIN stack /\ stack'[j] = stack[j])
        PROVE  n > i /\ UsesEvent(Top, e) /\ Top.pc \notin {"close", "free", "unlock"}
    <3>1. j >= n /\ stack'[j] \in N
      BY <1>b, <2>4
    <3>2. Source(e)
      BY <2>2, <2>4, <3>1 DEF Served, Uses, UsesEvent
    <3>3. Uses(Top) /\ Top.ev = e /\ Top.pc \notin {"close", "free", "unlock"}
      BY <2>2, <2>4, <3>2, SourceClosing
    <3>4. n # i
      BY <1>0, <1>3, <2>1, <3>3
    <3> QED BY <1>0, <2>1, <3>3, <3>4 DEF Uses, UsesEvent
  <2>5. CASE stack[i].pc = "free"
    <3>1. Unlinked(e) /\ \A j \in DOMAIN stack : j > i => ~UsesEvent(stack[j], e)
      BY <2>0, <2>1, <2>5 DEF ClosingAt
    <3>2. ~(n > i /\ UsesEvent(Top, e))
      BY <1>0, <3>1
    <3>3. ~Source(e)
      <4> SUFFICES ASSUME Source(e) PROVE FALSE
        OBVIOUS
      <4>1. Uses(Top) /\ Top.ev = e /\ Top.pc # "free"
        BY <2>2, <3>1, SourceClosing DEF Unlinked
      <4>2. n # i
        BY <1>0, <2>5, <4>1
      <4> QED BY <1>0, <2>1, <3>2, <4>1, <4>2 DEF Uses, UsesEvent
    <3>4. \A j \in DOMAIN stack' : j > i => ~UsesEvent(stack'[j], e)
      BY <2>4, <3>1, <3>2 DEF Unlinked
    <3>5. Unlinked(e)'
      BY <1>1, <2>2, <3>1, <3>3
    <3>6. \A j \in DOMAIN stack' : j < i => ~UsesEvent(stack'[j], e)
      BY <2>3
    <3>7. stack'[i].pc = "free" /\ stack'[i].ev = e
      BY <2>1, <2>2, <2>5
    <3>8. Unlinked(stack[i].ev)'
      BY <3>5, <3>7 DEF Unlinked, Queued
    <3> QED BY <2>2, <3>4, <3>6, <3>7, <3>8 DEF ClosingAt, UsesEvent
  <2>6. CASE stack[i].pc = "close" /\ ~Contains(mEfiTimerList, e)
             /\ \A j \in DOMAIN stack : j > i /\ UsesEvent(stack[j], e) => stack[j].pc = "unlock"
    <3>1. ~(n > i /\ UsesEvent(Top, e) /\ Top.pc # "unlock")
      BY <1>0, <2>6
    <3>2. ~Source(e)
      <4> SUFFICES ASSUME Source(e) PROVE FALSE
        OBVIOUS
      <4>1. Uses(Top) /\ Top.ev = e /\ Top.pc \notin {"close", "unlock"}
        BY <2>2, <2>6, SourceClosing
      <4>2. n # i
        BY <1>0, <2>6, <4>1
      <4> QED BY <1>0, <2>1, <3>1, <4>1, <4>2 DEF Uses, UsesEvent
    <3>3. ~Contains(mEfiTimerList', e)
      BY <2>2, <3>2 DEF QueuesGrow
    <3>4. ASSUME NEW j \in DOMAIN stack', j > i, UsesEvent(stack'[j], e)
          PROVE  stack'[j].pc = "unlock"
      BY <2>4, <2>6, <3>1, <3>4
    <3>5. stack'[i].pc = "close"
      BY <2>1, <2>6
    <3> QED BY <2>2, <2>3, <3>3, <3>4, <3>5 DEF ClosingAt, UsesEvent
  <2>7. CASE stack[i].pc = "close" /\ i + 1 \in DOMAIN stack /\ stack[i + 1].ev = e
             /\ Cancels(stack[i + 1])
    <3>1. i + 1 = n \/ (i + 1 \in 1..(n - 1))
      BY <1>0, <2>7
    <3>2. stack'[i].pc = "close"
      BY <2>1, <2>7
    <3>3. CASE i + 1 \in 1..(n - 1)
      <4>1. i + 1 \in DOMAIN stack' /\ stack'[i + 1] = stack[i + 1]
        BY <1>a, <3>3
      <4> QED BY <2>2, <2>3, <2>7, <3>2, <4>1 DEF ClosingAt, UsesEvent, Cancels
    <3>4. CASE i + 1 = n
      <4>1. Cancels(Top) /\ Top.ev = e
        BY <1>0, <2>7, <3>4
      <4>2. CancelGoesOn
        BY <4>1
      <4>3. i + 1 \in DOMAIN stack' /\ stack'[i + 1].ev = e
        BY <3>4, <4>1, <4>2 DEF CancelGoesOn, n
      <4>4. CASE Cancels(stack'[i + 1])
        BY <2>2, <2>3, <3>2, <4>3, <4>4 DEF ClosingAt, UsesEvent, Cancels
      <4>5. CASE /\ stack'[i + 1].pc = "unlock" /\ ~Contains(mEfiTimerList', e)
                 /\ Len(stack') = i + 1
        <5>1. \A j \in DOMAIN stack' : j > i => j = i + 1
          BY <1>0, <4>5
        <5> QED BY <2>2, <2>3, <3>2, <4>3, <4>5, <5>1 DEF ClosingAt, UsesEvent
      <4> QED BY <3>4, <4>1, <4>2, <4>4, <4>5 DEF CancelGoesOn, n
    <3> QED BY <3>1, <3>3, <3>4
  <2>8. stack[i].pc \in {"close", "free"}
    BY <1>3, <2>1
  <2> QED BY <2>0, <2>1, <2>5, <2>6, <2>7, <2>8 DEF ClosingAt
<1>4. Waiters'
  <2> SUFFICES ASSUME NEW i \in DOMAIN stack', WaitFrame(stack'[i]), NEW e \in ToSet(UserEvents')
               PROVE  life'[e] = "live"
    BY DEF Waiters
  <2>1. e \in Event /\ life[e] = "live"
    <3>1. CASE UserEvents' = UserEvents /\ \A f \in N : WaitFrame(f) => WaitFrame(Top)
      <4>1. \E j \in DOMAIN stack : WaitFrame(stack[j])
        BY <1>0, <1>b, <3>1
      <4>2. e \in ToSet(UserEvents)
        BY <3>1
      <4>3. UserEvents \in Seq(Client)
        BY DEF TypeOK, ClientType
      <4>4. e \in Event
        BY <4>2, <4>3 DEF ToSet, Event
      <4> QED BY <4>1, <4>2, <4>4 DEF LifeInv, Waiters
    <3> QED BY <3>1
  <2> QED BY <2>1 DEF QueuesGrow
<1> QED BY <1>1, <1>2, <1>3, <1>4 DEF LifeInv, Closing

-----------------------------------------------------------------------------
(* The steps outside Timer.c.                                               *)

LEMMA LifeQueues == LifeInv => QueuesInjective /\ IsInjective(gEventSignalQueue)
BY DEF LifeInv, QueueSound, QueuesInjective

\* The lives and the lists but the queues stay.
LEMMA SameLists ==
  ASSUME TypeOK, LifeInv, QueueStep, UNCHANGED <<life, gEventSignalQueue>>,
         \A x \in Event : Contains(mEfiTimerList', x) => Source(x)
  PROVE  QueuesGrow
BY LifeQueues DEF QueuesGrow

LEMMA CreateEventLists ==
  ASSUME TypeOK, LifeInv, NEW e \in Client, CreateEvent(e), UNCHANGED mEfiTimerList
  PROVE  QueuesGrow
<1>1. /\ e \in Event /\ life[e] = "none" /\ life' = [life EXCEPT ![e] = "live"]
      /\ gEventSignalQueue' = Cons(e, gEventSignalQueue) \/ UNCHANGED gEventSignalQueue
      /\ UNCHANGED gEventQueue
  BY DEF CreateEvent, Event, queueVars
<1>2. life \in [Event -> {"none", "live", "closing", "freed"}] /\ gEventSignalQueue \in Seq(Event)
  <2>1. SignalEvents \subseteq Event
    BY DEF SignalEvents
  <2> QED BY <2>1, SeqOfMore DEF TypeOK, ServiceType
<1>3. ~Contains(gEventSignalQueue, e)
  BY <1>1 DEF LifeInv, QueueSound
<1>4. QueueStep
  BY <1>1, LifeQueues, SameQueueStep
<1>5. /\ IsInjective(gEventSignalQueue')
      /\ \A x : Contains(gEventSignalQueue', x) => Contains(gEventSignalQueue, x) \/ x = e
  BY <1>1, <1>2, <1>3, LifeQueues, ConsedIs
<1>6. \A x \in Event : life'[x] = IF x = e THEN "live" ELSE life[x]
  BY <1>1, <1>2
<1> QED BY <1>1, <1>4, <1>5, <1>6 DEF QueuesGrow, Source

LEMMA GroupMemberLists ==
  ASSUME TypeOK, LifeInv, GroupMember PROVE QueueStep
<1> DEFINE m == gEventSignalQueue[Top.at]
<1>1. /\ Top.pc = "members" /\ Top.at <= Len(gEventSignalQueue)
      /\ CoreNotifyEvent(m) \/ UNCHANGED gEventQueue
  BY DEF GroupMember
<1>2. Top.at \in Int /\ Top.at >= 1
  BY <1>1, Running DEF Frames, FrameOK
<1>3. Contains(gEventSignalQueue, m)
  BY <1>1, <1>2, QueueTypes DEF Contains
<1>4. m \in Event /\ IsSignal(m)
  BY <1>3, QueueTypes
<1> HIDE DEF m
<1> QED BY <1>1, <1>3, <1>4, LifeQueues, NotifyStep, SameQueueStep

LEMMA IdleLists ==
  ASSUME TypeOK, LifeInv, IdleAction, UNCHANGED mEfiTimerList PROVE QueuesGrow
<1>0. CheckTimer \in Event /\ IdleLoop \in Event /\ Client \subseteq Event
  BY DEF Event
<1>1. CASE \E e \in Client : CreateEvent(e)
  BY <1>1, CreateEventLists
<1>2. CASE UNCHANGED <<life, gEventSignalQueue>> /\ QueueStep
  BY <1>2, SameLists DEF Source
<1>3. CASE UNCHANGED <<life, gEventSignalQueue, gEventQueue>>
  BY <1>2, <1>3, LifeQueues, SameQueueStep
<1>4. CASE \E e \in Client : SignalEvent(e)
  <2>1. PICK e \in Client : SignalEvent(e)
    BY <1>4
  <2>2. /\ CoreSignalEvent(e, gEfiCurrentTpl, stack) /\ Source(e) /\ e \in Event
        /\ UNCHANGED <<life, gEventSignalQueue>>
    BY <1>0, <2>1 DEF SignalEvent, Source, CoreSignalEvent
  <2>3. QueueStep
    BY <2>2, LifeQueues, SignalStep
  <2> QED BY <1>2, <2>2, <2>3
<1>5. CASE \E e \in Client : CheckEvent(e)
  <2>1. PICK e \in Client : CheckEvent(e)
    BY <1>5
  <2>2. /\ CoreCheckEvent(e, gEfiCurrentTpl, stack, 0) /\ Source(e) /\ e \in Event
        /\ UNCHANGED <<life, gEventSignalQueue>>
    BY <1>0, <2>1 DEF CheckEvent, Source, CoreCheckEvent
  <2>3. QueueStep
    BY <2>2, LifeQueues, CheckStep
  <2> QED BY <1>2, <2>2, <2>3
<1>6. CASE WaitCheck
  <2> DEFINE e == UserEvents[Top.at]
  <2>1. /\ Top.pc = "wait" /\ Top.at \in 1..Len(UserEvents) /\ UserEvents \in Seq(Client)
        /\ CoreCheckEvent(e, Top.tpl, Callers, Top.at)
    BY <1>6, Running DEF WaitCheck, MoreEvents, Frames, FrameOK, TypeOK, ClientType
  <2>2. e \in ToSet(UserEvents) /\ e \in Event
    BY <1>0, <2>1 DEF ToSet
  <2> HIDE DEF e
  <2>3. Source(e)
    BY <2>1, <2>2 DEF Source, WaitFrame
  <2>4. QueueStep /\ UNCHANGED <<life, gEventSignalQueue>>
    BY <2>1, <2>2, <2>3, LifeQueues, CheckStep DEF CoreCheckEvent
  <2> QED BY <1>2, <2>4
<1>7. CASE WaitIdle
  <2>1. PICK r : CoreSignalEvent(IdleLoop, Top.tpl, r)
    BY <1>7 DEF WaitIdle
  <2>2. Source(IdleLoop)
    BY DEF Source
  <2>3. QueueStep /\ UNCHANGED <<life, gEventSignalQueue>>
    BY <1>0, <2>1, <2>2, LifeQueues, SignalStep DEF CoreSignalEvent
  <2> QED BY <1>2, <2>3
<1>8. CASE TimerInterrupt
  <2>1. \/ \E r : CoreSignalEvent(CheckTimer, gEfiCurrentTpl, r)
        \/ UNCHANGED <<life, gEventSignalQueue, gEventQueue>>
    BY <1>8, Zenon DEF TimerInterrupt, eventVars, queueVars
  <2>2. Source(CheckTimer)
    BY DEF Source
  <2>3. ASSUME NEW r, CoreSignalEvent(CheckTimer, gEfiCurrentTpl, r)
        PROVE  QueueStep /\ UNCHANGED <<life, gEventSignalQueue>>
    BY <1>0, <2>2, <2>3, LifeQueues, SignalStep DEF CoreSignalEvent
  <2> QED BY <1>2, <1>3, <2>1, <2>3
<1>9. CASE GroupMember
  <2>1. QueueStep /\ UNCHANGED <<life, gEventSignalQueue>>
    BY <1>9, GroupMemberLists DEF GroupMember
  <2> QED BY <1>2, <2>1
<1>10. CASE DispatchPop
  <2>1. QueueStep /\ UNCHANGED <<life, gEventSignalQueue>>
    BY <1>10, LifeQueues, PopQueued DEF DispatchPop, QueueStep
  <2> QED BY <1>2, <2>1
<1>11. CASE RestoreLoop \/ RestorePick \/ RestoreLower \/ DispatchDone \/ DispatchCall
  <2>1. UNCHANGED <<life, gEventSignalQueue, gEventQueue>>
    BY <1>11 DEF RestoreLoop, RestorePick, RestoreLower, DispatchDone, DispatchCall,
                 eventVars, queueVars
  <2> QED BY <1>3, <2>1
<1>12. CASE RestoreTPL \/ Return \/ GroupLock \/ GroupUnlock \/ SignalRelock
            \/ PollSignalled \/ PollNotReady \/ RaiseTPL \/ InterruptReturn
  <2>1. UNCHANGED <<life, gEventSignalQueue, gEventQueue>>
    BY <1>12 DEF RestoreTPL, Return, GroupLock, GroupUnlock, SignalRelock, PollSignalled,
                 PollNotReady, RaiseTPL, InterruptReturn, eventVars, queueVars
  <2> QED BY <1>3, <2>1
<1> QED BY <1>1, <1>4, <1>5, <1>6, <1>7, <1>8, <1>9, <1>10, <1>11, <1>12, Zenon
        DEF IdleAction, TplStep

LEMMA IdleActionLife ==
  ASSUME TypeOK, TypeOK', StackInv, LifeInv, IdleAction, UNCHANGED <<mEfiTimerList, UserEvents>>
  PROVE  LifeInv'
<1> DEFINE N == {f \in Frames : Mild(f)}
<1>1. IdleStep
  BY IdleActionStep
<1>2. Over(stack', N)
  BY <1>1 DEF IdleStep
<1>3. \A f \in N : Served(f) /\ (WaitFrame(f) => WaitFrame(Top))
  BY DEF Mild, Fresh, Served
<1>4. Cancels(Top) => CancelGoesOn
  BY <1>1 DEF IdleStep, Cancels, CancelGoesOn, LockHolder
<1>5. QueuesGrow
  BY IdleLists
<1> HIDE DEF N
<1> QED BY <1>2, <1>3, <1>4, <1>5, LifeStep

-----------------------------------------------------------------------------
(* The steps of Timer.c.                                                    *)

LEMMA ServedNow ==
  ASSUME NEW pc, pc \notin {"close", "free", "wait", "poll"}, NEW e, NEW n,
         e \in Event => Source(e)
  PROVE  Served(Now(pc, e, n)) /\ ~WaitFrame(Now(pc, e, n))
<1>1. Now(pc, e, n).pc = pc /\ Now(pc, e, n).ev = e
  BY NowFields
<1> QED BY <1>1 DEF Served, Uses, WaitFrame

LEMMA ServedFrame ==
  ASSUME NEW pc, pc \notin {"close", "free", "wait", "poll"}, NEW e, NEW n, NEW t,
         e \in Event => Source(e)
  PROVE  Served(Frame(pc, t, e, n)) /\ ~WaitFrame(Frame(pc, t, e, n))
<1>1. Frame(pc, t, e, n).pc = pc /\ Frame(pc, t, e, n).ev = e
  BY FrameParts
<1> QED BY <1>1 DEF Served, Uses, WaitFrame

LEMMA ServedRestore ==
  ASSUME NEW t PROVE Served(Restore(t)) /\ ~WaitFrame(Restore(t))
BY ServedFrame, EventAssumption DEF Restore

\* The running function goes on as f, and may have called CoreSignalEvent (e).
LEMMA TimerStepLife ==
  ASSUME TypeOK, TypeOK', LifeInv, ~IsMain(Top), UNCHANGED UserEvents,
         NEW f, Served(f), ~WaitFrame(f), NEW e \in Event, Source(e),
         \/ stack' = Append(Callers, f) /\ UNCHANGED eventVars
         \/ CoreSignalEvent(e, TPL_TIMER, Append(Callers, f)),
         \A x \in Event : Contains(mEfiTimerList', x) => Source(x),
         Cancels(Top) =>
           /\ f.ev = Top.ev
           /\ \/ Cancels(f)
              \/ /\ f.pc = "unlock" /\ ~Contains(mEfiTimerList', Top.ev)
                 /\ stack' = Append(Callers, f)
  PROVE  LifeInv'
<1> DEFINE N == {f, Restore(TPL_TIMER), Frame("group", TPL_TIMER, e, 0)}
<1>0. Len(stack) \in Nat /\ Len(stack) >= 1
  BY Running DEF Stacks
<1>1. stack' = Append(Callers, f) =>
        Over(stack', N) /\ Len(stack') = Len(stack) /\ stack'[Len(stack)] = f
  BY OverGoto
<1>2. Over(stack', N) /\ Len(stack) \in DOMAIN stack' /\ stack'[Len(stack)] = f
  <2>1. CASE stack' = Append(Callers, f)
    BY <1>0, <1>1, <2>1 DEF Over
  <2>2. CASE CoreSignalEvent(e, TPL_TIMER, Append(Callers, f))
    BY <2>2, OverSignalGoto
  <2> QED BY <2>1, <2>2
<1>3. \A g \in N : Served(g) /\ ~WaitFrame(g)
  BY ServedRestore, ServedFrame
<1>4. QueueStep /\ UNCHANGED <<life, gEventSignalQueue>>
  <2>1. CASE UNCHANGED eventVars
    <3>1. UNCHANGED <<gEventQueue, life, gEventSignalQueue>>
      BY <2>1 DEF eventVars, queueVars
    <3> QED BY <3>1, LifeQueues, SameQueueStep
  <2>2. CASE CoreSignalEvent(e, TPL_TIMER, Append(Callers, f))
    BY <2>2, LifeQueues, SignalStep DEF CoreSignalEvent
  <2> QED BY <2>1, <2>2
<1>5. QueuesGrow
  BY <1>4, SameLists
<1>6. Cancels(Top) => CancelGoesOn
  BY <1>1, <1>2 DEF CancelGoesOn
<1> HIDE DEF N
<1> QED BY <1>2, <1>3, <1>5, <1>6, LifeStep

LEMMA InsertContains ==
  ASSUME TypeOK, NEW e \in Event, NEW t, CoreInsertEventTimer(e, t)
  PROVE  \A y : Contains(mEfiTimerList', y) => Contains(mEfiTimerList, y) \/ y = e
<1> DEFINE s == mEfiTimerList
<1>1. s \in Seq(Event)
  BY DEF TypeOK, TimerType
<1>2. CASE \E i \in DOMAIN s : FirstLater(i, t)
  <2>1. PICK i \in DOMAIN s : s' = InsertAt(s, i, e)
    BY <1>2, Zenon DEF CoreInsertEventTimer
  <2>2. i \in 1..Len(s)
    BY <1>1, <2>1
  <2> QED BY <1>1, <2>1, <2>2, InsertedIs
<1>3. CASE ~\E i \in DOMAIN s : FirstLater(i, t)
  <2>1. s' = Append(s, e)
    BY <1>3 DEF CoreInsertEventTimer
  <2> QED BY <1>1, <2>1, AppendedIs
<1> QED BY <1>2, <1>3

\* The running function works on its own event.
LEMMA OwnSource ==
  ASSUME TypeOK, Top.pc \in {"SetTimer", "SetPeriodic", "unlinkOne", "unlinkPeriodic", "arm",
                             "insert", "fire", "rearm", "reinsert"}
  PROVE  Top.ev \in Event /\ Source(Top.ev) /\ ~IsMain(Top)
<1>1. Top.ev \in Event
  BY Running DEF Frames, FrameOK
<1> QED BY <1>1 DEF Source, Uses, IsMain

LEMMA CheckSource == CheckTimer \in Event /\ Source(CheckTimer)
BY DEF Event, Source

LEMMA ListSource == \A x \in Event : Contains(mEfiTimerList, x) => Source(x)
BY DEF Source

LEMMA TimerLockLife ==
  ASSUME TypeOK, TypeOK', LifeInv, TimerLock PROVE LifeInv'
<1> DEFINE pc == IF Top.pc = "SetTimer" THEN "unlinkOne" ELSE "unlinkPeriodic"
           f == Now(pc, Top.ev, Top.at)
<1>1. /\ Top.pc \in {"SetTimer", "SetPeriodic"} /\ stack' = Append(Callers, f)
      /\ UNCHANGED <<eventVars, mEfiTimerList, UserEvents>>
  BY DEF TimerLock, Goto, timerVars, clientVars
<1>2. Top.ev \in Event /\ Source(Top.ev) /\ ~IsMain(Top)
  BY <1>1, OwnSource
<1>3. Served(f) /\ ~WaitFrame(f) /\ f.pc = pc /\ f.ev = Top.ev /\ f.at = Top.at
  BY <1>2, ServedNow, NowFields
<1> HIDE DEF f
<1>4. Cancels(Top) => f.ev = Top.ev /\ Cancels(f)
  BY <1>1, <1>3 DEF Cancels
<1> HIDE DEF pc
<1> QED BY <1>1, <1>2, <1>3, <1>4, ListSource, TimerStepLife

LEMMA TimerUnlinkLife ==
  ASSUME TypeOK, TypeOK', TimerInv, LifeInv, TimerUnlink PROVE LifeInv'
<1> DEFINE d == IF Top.pc = "unlinkPeriodic" /\ Top.at = 0 THEN TickPeriod ELSE Top.at
           f == IF d = -1 THEN Now("unlock", Top.ev, 0) ELSE Now("arm", Top.ev, d)
<1>1. /\ Top.pc \in {"unlinkOne", "unlinkPeriodic"} /\ stack' = Append(Callers, f)
      /\ mEfiTimerList' = RemoveEntry(mEfiTimerList, Top.ev)
      /\ UNCHANGED <<eventVars, UserEvents>>
  BY DEF TimerUnlink, clientVars
<1>2. Top.ev \in Event /\ Source(Top.ev) /\ ~IsMain(Top)
  BY <1>1, OwnSource
<1>3. Served(f) /\ ~WaitFrame(f) /\ f.ev = Top.ev /\ (d = -1 => f.pc = "unlock")
  BY <1>2, ServedNow, NowFields
<1>4. /\ ~Contains(mEfiTimerList', Top.ev)
      /\ \A y : Contains(mEfiTimerList', y) => Contains(mEfiTimerList, y)
  BY <1>1, TopTimer, RemoveEntryIs
<1>5. Cancels(Top) => d = -1
  BY <1>1 DEF Cancels
<1> HIDE DEF d, f
<1>6. \A x \in Event : Contains(mEfiTimerList', x) => Source(x)
  BY <1>4, ListSource
<1> QED BY <1>1, <1>2, <1>3, <1>4, <1>5, <1>6, TimerStepLife

LEMMA TimerArmLife ==
  ASSUME TypeOK, TypeOK', LifeInv, TimerArm PROVE LifeInv'
<1> DEFINE f == Now("insert", Top.ev, Top.at)
<1>1. /\ Top.pc = "arm" /\ stack' = Append(Callers, f)
      /\ UNCHANGED <<eventVars, mEfiTimerList, UserEvents>>
  BY DEF TimerArm, Goto, clientVars
<1>2. Top.ev \in Event /\ Source(Top.ev) /\ ~IsMain(Top)
  BY <1>1, OwnSource
<1>3. Served(f) /\ ~WaitFrame(f) /\ ~Cancels(Top)
  BY <1>1, <1>2, ServedNow DEF Cancels
<1> HIDE DEF f
<1> QED BY <1>1, <1>2, <1>3, ListSource, TimerStepLife

LEMMA TimerInsertLife ==
  ASSUME TypeOK, TypeOK', LifeInv, TimerInsert PROVE LifeInv'
<1> DEFINE f == Now("unlock", Top.ev, Top.at)
<1>1. /\ Top.pc = "insert" /\ CoreInsertEventTimer(Top.ev, TriggerTime[Top.ev])
      /\ \/ CoreSignalEvent(CheckTimer, TPL_TIMER, Append(Callers, f))
         \/ stack' = Append(Callers, f) /\ UNCHANGED eventVars
      /\ UNCHANGED UserEvents
  BY Zenon DEF TimerInsert, Goto, clientVars
<1>2. Top.ev \in Event /\ Source(Top.ev) /\ ~IsMain(Top)
  BY <1>1, OwnSource
<1>3. Served(f) /\ ~WaitFrame(f) /\ ~Cancels(Top)
  BY <1>1, <1>2, ServedNow DEF Cancels
<1> HIDE DEF f
<1>4. \A x \in Event : Contains(mEfiTimerList', x) => Source(x)
  BY <1>1, <1>2, InsertContains, ListSource
<1> QED BY <1>1, <1>3, <1>4, <1>2, CheckSource, TimerStepLife

LEMMA TimerReleaseLife ==
  ASSUME TypeOK, TypeOK', LifeInv, TimerUnlock \/ CheckDone PROVE LifeInv'
<1>1. PICK t : /\ Top.pc \in {"unlock", "scan"} /\ stack' = Append(Callers, Restore(t))
               /\ UNCHANGED <<eventVars, mEfiTimerList, UserEvents>>
  BY DEF TimerUnlock, CheckDone, clientVars, timerVars
<1>2. ~IsMain(Top) /\ ~Cancels(Top)
  BY <1>1 DEF IsMain, Cancels
<1> QED BY <1>1, <1>2, ServedRestore, CheckSource, ListSource, TimerStepLife

LEMMA CheckStartLife ==
  ASSUME TypeOK, TypeOK', LifeInv, CheckStart PROVE LifeInv'
<1> DEFINE f == Now("scan", CheckTimer, mEfiSystemTime)
<1>1. /\ Top.pc = "check" /\ stack' = Append(Callers, f)
      /\ UNCHANGED <<eventVars, mEfiTimerList, UserEvents>>
  BY DEF CheckStart, clientVars, timerVars
<1>2. ~IsMain(Top) /\ ~Cancels(Top) /\ Served(f) /\ ~WaitFrame(f)
  BY <1>1, CheckSource, ServedNow DEF IsMain, Cancels
<1> HIDE DEF f
<1> QED BY <1>1, <1>2, CheckSource, ListSource, TimerStepLife

LEMMA CheckRemoveLife ==
  ASSUME TypeOK, TypeOK', LifeInv, CheckRemove PROVE LifeInv'
<1> DEFINE e == Head(mEfiTimerList)
           f == Now("fire", e, Top.at)
<1>1. /\ Top.pc = "scan" /\ mEfiTimerList # <<>> /\ mEfiTimerList' = Tail(mEfiTimerList)
      /\ stack' = Append(Callers, f) /\ UNCHANGED <<eventVars, UserEvents>>
  BY DEF CheckRemove, Expired, clientVars
<1>2. /\ e \in Event /\ Contains(mEfiTimerList, e)
      /\ \A y : Contains(mEfiTimerList', y) => Contains(mEfiTimerList, y)
  BY <1>1, TailIs DEF TypeOK, TimerType
<1> HIDE DEF e
<1>3. ~IsMain(Top) /\ ~Cancels(Top) /\ Served(f) /\ ~WaitFrame(f)
  BY <1>1, <1>2, ListSource, ServedNow DEF IsMain, Cancels
<1> HIDE DEF f
<1>4. \A x \in Event : Contains(mEfiTimerList', x) => Source(x)
  BY <1>2, ListSource
<1> QED BY <1>1, <1>3, <1>4, CheckSource, TimerStepLife

LEMMA CheckFireLife ==
  ASSUME TypeOK, TypeOK', LifeInv, CheckFire PROVE LifeInv'
<1> DEFINE f == Now("rearm", Top.ev, Top.at)
<1>1. /\ Top.pc = "fire" /\ CoreSignalEvent(Top.ev, TPL_TIMER, Append(Callers, f))
      /\ UNCHANGED <<mEfiTimerList, UserEvents>>
  BY DEF CheckFire, clientVars, timerVars
<1>2. Top.ev \in Event /\ Source(Top.ev) /\ ~IsMain(Top)
  BY <1>1, OwnSource
<1>3. Served(f) /\ ~WaitFrame(f) /\ ~Cancels(Top)
  BY <1>1, <1>2, ServedNow DEF Cancels
<1> HIDE DEF f
<1> QED BY <1>1, <1>2, <1>3, ListSource, TimerStepLife

\* CoreCheckTimers has dealt with a timer, and may have put it back.
LEMMA NextScanLife ==
  ASSUME TypeOK, TypeOK', LifeInv, Top.pc \in {"rearm", "reinsert"}, NextScan,
         UNCHANGED <<eventVars, UserEvents>>,
         UNCHANGED mEfiTimerList \/ \E t : CoreInsertEventTimer(Top.ev, t)
  PROVE  LifeInv'
<1> DEFINE f == Now("scan", CheckTimer, Top.at)
<1>1. stack' = Append(Callers, f)
  BY DEF NextScan
<1>2. Top.ev \in Event /\ Source(Top.ev) /\ ~IsMain(Top)
  BY OwnSource
<1>3. ~Cancels(Top) /\ Served(f) /\ ~WaitFrame(f)
  BY CheckSource, ServedNow DEF Cancels
<1> HIDE DEF f
<1>4. \A x \in Event : Contains(mEfiTimerList', x) => Source(x)
  BY <1>2, InsertContains, ListSource
<1> QED BY <1>1, <1>2, <1>3, <1>4, CheckSource, TimerStepLife

LEMMA CheckRearmLife ==
  ASSUME TypeOK, TypeOK', LifeInv, CheckRearm PROVE LifeInv'
<1> DEFINE f == Now("reinsert", Top.ev, Top.at)
<1>1. /\ Top.pc = "rearm" /\ UNCHANGED UserEvents
      /\ \/ NextScan /\ UNCHANGED <<eventVars, mEfiTimerList>>
         \/ (\E t : CoreInsertEventTimer(Top.ev, t)) /\ NextScan /\ UNCHANGED eventVars
         \/ CoreSignalEvent(CheckTimer, TPL_TIMER, Append(Callers, f)) /\ UNCHANGED mEfiTimerList
  BY Zenon DEF CheckRearm, clientVars
<1>2. CASE NextScan /\ UNCHANGED eventVars
           /\ (UNCHANGED mEfiTimerList \/ \E t : CoreInsertEventTimer(Top.ev, t))
  BY <1>1, <1>2, NextScanLife
<1>3. CASE CoreSignalEvent(CheckTimer, TPL_TIMER, Append(Callers, f)) /\ UNCHANGED mEfiTimerList
  <2>1. Top.ev \in Event /\ Source(Top.ev) /\ ~IsMain(Top)
    BY <1>1, OwnSource
  <2>2. ~Cancels(Top) /\ Served(f) /\ ~WaitFrame(f)
    BY <1>1, <2>1, ServedNow DEF Cancels
  <2> HIDE DEF f
  <2> QED BY <1>1, <1>3, <2>1, <2>2, CheckSource, ListSource, TimerStepLife
<1> QED BY <1>1, <1>2, <1>3

LEMMA CheckReinsertLife ==
  ASSUME TypeOK, TypeOK', LifeInv, CheckReinsert PROVE LifeInv'
<1>1. Top.pc = "reinsert" /\ NextScan /\ UNCHANGED <<eventVars, UserEvents>>
      /\ \E t : CoreInsertEventTimer(Top.ev, t)
  BY DEF CheckReinsert, clientVars
<1> QED BY <1>1, NextScanLife

-----------------------------------------------------------------------------
(* SetTimer, WaitForEvent and the steps of CoreCloseEvent.                  *)

\* A client that calls a service, whose frame is f.
LEMMA CallLife ==
  ASSUME TypeOK, TypeOK', LifeInv, ClientRuns, NEW f, stack' = Append(stack, f), Served(f),
         \/ UserEvents' = UserEvents /\ ~WaitFrame(f)
         \/ \A e \in ToSet(UserEvents') : e \in Event /\ life[e] = "live",
         UNCHANGED <<eventVars, mEfiTimerList>>
  PROVE  LifeInv'
<1>1. Over(stack', {f})
  BY OverPush
<1>2. QueuesGrow
  <2>1. QueueStep /\ UNCHANGED <<life, gEventSignalQueue>>
    BY LifeQueues, SameQueueStep DEF eventVars, queueVars
  <2> QED BY <2>1, SameLists, ListSource
<1>3. ~Cancels(Top)
  BY DEF ClientRuns, Cancels
<1> QED BY <1>1, <1>2, <1>3, LifeStep

LEMMA SetTimerLife ==
  ASSUME TypeOK, TypeOK', LifeInv, NEW e \in Client, SetTimer(e) PROVE LifeInv'
<1>1. /\ ClientRuns /\ life[e] = "live" /\ UNCHANGED <<eventVars, mEfiTimerList, UserEvents>>
      /\ \E d \in Delays, pc \in {"SetTimer", "SetPeriodic"} :
           stack' = Append(stack, Frame(pc, gEfiCurrentTpl, e, d))
  BY Zenon DEF SetTimer, Invokes, timerVars
<1>2. PICK d \in Delays, pc \in {"SetTimer", "SetPeriodic"} :
        stack' = Append(stack, Frame(pc, gEfiCurrentTpl, e, d))
  BY <1>1, Zenon
<1> DEFINE f == Frame(pc, gEfiCurrentTpl, e, d)
<1>3. Served(f) /\ ~WaitFrame(f)
  BY <1>1, ServedFrame DEF Source
<1> HIDE DEF f
<1>4. stack' = Append(stack, f)
  BY <1>2 DEF f
<1> QED BY <1>1, <1>3, <1>4, CallLife

LEMMA WaitForEventLife ==
  ASSUME TypeOK, TypeOK', LifeInv, NEW list \in WaitLists, WaitForEvent(list),
         UNCHANGED mEfiTimerList
  PROVE  LifeInv'
<1> DEFINE f == Frame("wait", TPL_APPLICATION, NoEvent, 1)
<1>1. /\ ClientRuns /\ UNCHANGED eventVars /\ UserEvents' = list /\ stack' = Append(stack, f)
      /\ \A e \in ToSet(list) : life[e] = "live"
  BY DEF WaitForEvent, Invokes
<1>2. f.pc = "wait" /\ f.ev = NoEvent
  BY FrameParts
<1> HIDE DEF f
<1>3. Served(f)
  BY <1>2, EventAssumption DEF Served, Uses
<1>4. list \in Seq(Client)
  BY EventAssumption
<1>5. ToSet(list) \subseteq Event
  BY <1>4 DEF ToSet, Event
<1> QED BY <1>1, <1>3, <1>5, CallLife

\* No function in progress works on the event, so CoreCloseEvent has it for itself.
LEMMA CloseEventLife ==
  ASSUME TypeOK, TypeOK', TimerInv, LifeInv, NEW e \in Client, CloseEvent(e),
         UNCHANGED mEfiTimerList
  PROVE  LifeInv'
<1> DEFINE n == Len(stack)
           f == Frame("close", gEfiCurrentTpl, e, 0)
           g == Frame("SetTimer", gEfiCurrentTpl, e, -1)
<1>1. /\ e \in Event /\ life[e] = "live" /\ ~InUse(e) /\ life' = [life EXCEPT ![e] = "closing"]
      /\ UNCHANGED <<gEventQueue, gEventSignalQueue, UserEvents>> /\ ClientRuns
  BY DEF CloseEvent, Event, queueVars, Invokes
<1>2. /\ stack'[n] = Top /\ stack'[n + 1] = f
      /\ IsTimer(e) => /\ Over(stack', {f, g}) /\ Len(stack') = n + 2 /\ stack'[n + 2] = g
      /\ ~IsTimer(e) => Over(stack', {f}) /\ Len(stack') = n + 1
  BY CloseEventFrames
<1>3. f.pc = "close" /\ f.ev = e /\ g.pc = "SetTimer" /\ g.ev = e /\ g.at = -1
  BY FrameParts
<1>0. /\ n \in Nat /\ DOMAIN stack = 1..n /\ n >= 1 /\ Top = stack[n]
      /\ \A i \in DOMAIN stack : stack[i] \in Frames
      /\ DOMAIN stack' = 1..Len(stack') /\ Len(stack') \in Nat
      /\ life \in [Event -> {"none", "live", "closing", "freed"}]
  BY Running, SMTT(30) DEF Stacks, Top, TypeOK, ServiceType
<1> HIDE DEF f, g
<1>a. ~IsTimer(e) => Len(stack') = n + 1
  BY <1>2
<1>b. IsTimer(e) => Len(stack') = n + 2 /\ stack'[n + 2] = g
  BY <1>2
<1>c. stack'[n] = Top /\ stack'[n + 1] = f
  BY <1>2
<1>4. Over(stack', {f, g})
  BY <1>2, <1>3, OverMore
<1>5. \A i \in 1..n : i \in DOMAIN stack' /\ stack'[i] = stack[i]
  <2>1. \A i \in 1..(n - 1) : i \in DOMAIN stack' /\ stack'[i] = stack[i]
    BY <1>4 DEF Over
  <2> HIDE DEF n
  <2>2. Len(stack') >= n
    <3>1. CASE IsTimer(e)
      BY <1>0, <1>b, <3>1
    <3>2. CASE ~IsTimer(e)
      BY <1>0, <1>a, <3>2
    <3> QED BY <3>1, <3>2
  <2>3. n \in DOMAIN stack' /\ stack'[n] = stack[n]
    BY <1>0, <1>c, <2>2
  <2> QED BY <1>0, <2>1, <2>3
<1>6. \A i \in DOMAIN stack' : i \in 1..n \/ (i = n + 1 /\ stack'[i] = f)
                                \/ (i = n + 2 /\ stack'[i] = g)
  <2> HIDE DEF n
  <2>1. CASE IsTimer(e)
    BY <1>0, <1>b, <1>c, <2>1
  <2>2. CASE ~IsTimer(e)
    BY <1>0, <1>a, <1>c, <2>2
  <2> QED BY <2>1, <2>2
<1> HIDE DEF n
<1>7. \A i \in DOMAIN stack : ~UsesEvent(stack[i], e)
  BY <1>1 DEF InUse, UsesEvent
<1>8. \A x \in Event : life'[x] = IF x = e THEN "closing" ELSE life[x]
  BY <1>0, <1>1
<1>9. QueueSound' /\ CoreEvents'
  <2>1. \A x \in Event : life'[x] \in {"none", "freed"} => life[x] \in {"none", "freed"}
    BY <1>8
  <2>2. QueueSound'
    BY <1>1, <2>1 DEF LifeInv, QueueSound, Queued
  <2>3. CheckTimer # e /\ IdleLoop # e /\ CheckTimer \in Event /\ IdleLoop \in Event
    BY EventAssumption DEF Event
  <2> QED BY <1>8, <2>2, <2>3 DEF LifeInv, CoreEvents
<1>10. FramesAllocated'
  <2> SUFFICES ASSUME NEW i \in DOMAIN stack', Uses(stack'[i])
               PROVE  life'[stack'[i].ev] \in {"live", "closing"}
    BY DEF FramesAllocated
  <2>1. CASE i \in 1..n
    BY <1>0, <1>5, <1>8, <2>1 DEF LifeInv, FramesAllocated, Uses
  <2>2. CASE i \notin 1..n
    BY <1>1, <1>3, <1>6, <1>8, <2>2
  <2> QED BY <2>1, <2>2
<1>11. ASSUME NEW i \in DOMAIN stack', stack'[i].pc \in {"close", "free"} PROVE ClosingAt(i)'
  <2>1. CASE i \in 1..n
    <3>1. PICK x : x = stack[i].ev
      OBVIOUS
    <3>2. ClosingAt(i) /\ stack'[i] = stack[i] /\ x \in Event
      BY <1>0, <1>5, <1>11, <2>1, <3>1 DEF LifeInv, Closing, Frames, FrameOK
    <3>3. x # e
      BY <1>0, <1>1, <2>1, <3>1, <3>2 DEF ClosingAt
    <3>4. \A j \in DOMAIN stack' :
            UsesEvent(stack'[j], x) => j \in DOMAIN stack /\ stack'[j] = stack[j]
      BY <1>0, <1>3, <1>5, <1>6, <3>3 DEF UsesEvent
    <3>5. life'[x] = life[x] /\ DOMAIN stack \subseteq DOMAIN stack'
      BY <1>0, <1>5, <1>8, <3>2, <3>3
    <3>6. (Unlinked(x) => Unlinked(x)') /\ (~Contains(mEfiTimerList, x) => ~Contains(mEfiTimerList', x))
      BY <1>1 DEF Unlinked, Queued
    <3>7. \A j \in DOMAIN stack' : j < i => ~UsesEvent(stack'[j], x)
      BY <3>1, <3>2, <3>4 DEF ClosingAt
    <3>8. CASE stack[i].pc = "free"
      <4>1. \A j \in DOMAIN stack' : j > i => ~UsesEvent(stack'[j], x)
        BY <3>1, <3>2, <3>4, <3>8 DEF ClosingAt
      <4>2. Unlinked(stack[i].ev)'
        BY <3>1, <3>2, <3>6, <3>8 DEF ClosingAt, Unlinked, Queued
      <4> QED BY <3>1, <3>2, <3>5, <3>7, <3>8, <4>1, <4>2 DEF ClosingAt, UsesEvent
    <3>9. CASE stack[i].pc = "close"
      <4>1. CASE ~Contains(mEfiTimerList, x) /\ \A j \in DOMAIN stack :
                   j > i /\ UsesEvent(stack[j], x) => stack[j].pc = "unlock"
        <5>1. \A j \in DOMAIN stack' : j > i /\ UsesEvent(stack'[j], x) => stack'[j].pc = "unlock"
          BY <3>4, <4>1
        <5> QED BY <3>1, <3>2, <3>5, <3>6, <3>7, <3>9, <4>1, <5>1 DEF ClosingAt, UsesEvent
      <4>2. CASE i + 1 \in DOMAIN stack /\ stack[i + 1].ev = x /\ Cancels(stack[i + 1])
        <5>1. i + 1 \in DOMAIN stack' /\ stack'[i + 1] = stack[i + 1]
          BY <1>0, <1>5, <4>2
        <5> QED BY <3>1, <3>2, <3>5, <3>7, <3>9, <4>2, <5>1 DEF ClosingAt, UsesEvent, Cancels
      <4> QED BY <3>1, <3>2, <3>9, <4>1, <4>2 DEF ClosingAt
    <3> QED BY <1>11, <3>2, <3>8, <3>9
  <2>2. CASE i = n + 1
    <3>1. stack'[i].pc = "close" /\ stack'[i].ev = e /\ life'[e] = "closing"
      BY <1>1, <1>2, <1>3, <1>8, <2>2 DEF n
    <3>2. \A j \in DOMAIN stack' : j < i => ~UsesEvent(stack'[j], e)
      BY <1>0, <1>5, <1>7, <2>2
    <3>3. CASE IsTimer(e)
      <4>1. i + 1 \in DOMAIN stack' /\ stack'[i + 1].ev = e /\ Cancels(stack'[i + 1])
        BY <1>0, <1>2, <1>3, <2>2, <3>3 DEF n, Cancels
      <4> QED BY <3>1, <3>2, <4>1 DEF ClosingAt, UsesEvent, Cancels
    <3>4. CASE ~IsTimer(e)
      <4>1. ~Contains(mEfiTimerList', e)
        BY <1>1, <3>4 DEF TimerInv, TimersOnly
      <4>2. \A j \in DOMAIN stack' : ~(j > i)
        BY <1>0, <1>a, <2>2, <3>4
      <4> QED BY <3>1, <3>2, <4>1, <4>2 DEF ClosingAt, UsesEvent
    <3> QED BY <3>3, <3>4
  <2> QED BY <1>3, <1>6, <1>11, <2>1, <2>2
<1>12. Waiters'
  <2> SUFFICES ASSUME NEW i \in DOMAIN stack', WaitFrame(stack'[i]), NEW x \in ToSet(UserEvents')
               PROVE  life'[x] = "live"
    BY DEF Waiters
  <2>1. i \in DOMAIN stack /\ WaitFrame(stack[i])
    BY <1>0, <1>3, <1>5, <1>6 DEF WaitFrame
  <2>2. x \in ToSet(UserEvents) /\ UserEvents \in Seq(Client)
    BY <1>1 DEF TypeOK, ClientType
  <2>3. x \in Event
    BY <2>2 DEF ToSet, Event
  <2>4. life[x] = "live" /\ x # e
    BY <1>1, <2>1, <2>2 DEF LifeInv, Waiters, WaitFrame, InUse
  <2> QED BY <1>8, <2>3, <2>4
<1> QED BY <1>9, <1>10, <1>11, <1>12 DEF LifeInv, Closing

\* CoreCloseEvent takes its event out of the queues and the signal list.
LEMMA CloseUnlinkLife ==
  ASSUME TypeOK, TypeOK', LifeInv, CloseUnlink, UNCHANGED mEfiTimerList
  PROVE  LifeInv'
<1> DEFINE n == Len(stack)
           f == Now("free", Top.ev, 0)
           g == Restore(Top.tpl)
<1>1. PICK e : e = Top.ev
  OBVIOUS
<1>2. /\ Top.pc = "close" /\ ~IsMain(Top) /\ stack' = Callers \o <<f, g>>
      /\ gEventSignalQueue' = RemoveEntry(gEventSignalQueue, e) /\ UNCHANGED <<life, UserEvents>>
  BY <1>1 DEF CloseUnlink, IsMain, clientVars
<1>3. f.pc = "free" /\ f.ev = e /\ g.pc = "restore" /\ g.ev = NoEvent /\ NoEvent \notin Event
  BY <1>1, NowFields, FrameParts, EventAssumption DEF Restore
<1> HIDE DEF f, g
<1>4. Over(stack', {f, g}) /\ Len(stack') = n + 1 /\ stack'[n] = f /\ stack'[n + 1] = g
  <2>1. f \in {f, g} /\ g \in {f, g}
    OBVIOUS
  <2> QED BY <1>2, <2>1, OverCall, Zenon
<1>0. /\ n \in Nat /\ DOMAIN stack = 1..n /\ n >= 1 /\ Top = stack[n]
      /\ \A i \in DOMAIN stack : stack[i] \in Frames
      /\ DOMAIN stack' = 1..Len(stack')
      /\ life \in [Event -> {"none", "live", "closing", "freed"}]
  BY Running, <1>4 DEF Stacks, Top, TypeOK, ServiceType, Over
<1>5. \A i \in 1..(n - 1) : i \in DOMAIN stack' /\ stack'[i] = stack[i]
  BY <1>4 DEF Over
<1> HIDE DEF n
<1>6. \A i \in DOMAIN stack' : i \in 1..(n - 1) \/ i = n \/ i = n + 1
  BY <1>0, <1>4
<1>7. e \in Event /\ ClosingAt(n)
  <2>1. stack[n].pc = "close" /\ stack[n].ev = e /\ n \in DOMAIN stack /\ stack[n] \in Frames
    BY <1>0, <1>1, <1>2
  <2>2. ClosingAt(n)
    BY <2>1 DEF LifeInv, Closing
  <2>3. e \in Event
    BY <2>1 DEF Frames, FrameOK
  <2> QED BY <2>2, <2>3
<1>8. /\ life[e] = "closing" /\ ~Contains(mEfiTimerList, e)
      /\ \A j \in 1..(n - 1) : ~UsesEvent(stack[j], e)
  <2>1. n + 1 \notin DOMAIN stack /\ stack[n].pc = "close"
    BY <1>0, <1>2
  <2> QED BY <1>0, <1>1, <1>7, <2>1 DEF ClosingAt
<1>9. /\ QueuesInjective' /\ \A t \in Level : ~Contains(gEventQueue'[t], e)
      /\ \A x : Queued(x)' => Queued(x)
  BY <1>1, LifeQueues, UnlinkQueued
<1>10. /\ IsInjective(gEventSignalQueue') /\ ~Contains(gEventSignalQueue', e)
       /\ \A x : Contains(gEventSignalQueue', x) => Contains(gEventSignalQueue, x)
  BY <1>2, QueueTypes, LifeQueues, RemoveEntryIs
<1>11. Unlinked(e)' /\ \A x : Unlinked(x) => Unlinked(x)'
  BY <1>8, <1>9, <1>10 DEF Unlinked, Queued
<1>12. QueueSound' /\ CoreEvents'
  <2>1. QueuesGrow
    BY <1>2, <1>9, <1>10 DEF QueuesGrow, QueueStep, Source
  <2> QED BY <2>1, GrowSound
<1>13. FramesAllocated'
  <2> SUFFICES ASSUME NEW i \in DOMAIN stack', Uses(stack'[i])
               PROVE  life'[stack'[i].ev] \in {"live", "closing"}
    BY DEF FramesAllocated
  <2>1. CASE i \in 1..(n - 1)
    <3>1. i \in DOMAIN stack /\ stack'[i] = stack[i]
      BY <1>0, <1>5, <2>1
    <3> QED BY <1>2, <3>1 DEF LifeInv, FramesAllocated
  <2>2. CASE i \notin 1..(n - 1)
    <3>1. stack'[i] = f \/ stack'[i] = g
      BY <1>4, <1>6, <2>2
    <3>2. stack'[i].ev = e
      BY <1>3, <3>1 DEF Uses
    <3> QED BY <1>2, <1>8, <3>2
  <2> QED BY <2>1, <2>2
<1>14. ASSUME NEW i \in DOMAIN stack', stack'[i].pc \in {"close", "free"} PROVE ClosingAt(i)'
  <2>1. CASE i = n
    <3>1. stack'[i].pc = "free" /\ stack'[i].ev = e
      BY <1>3, <1>4, <2>1
    <3>2. \A j \in DOMAIN stack' : j # i => ~UsesEvent(stack'[j], e)
      BY <1>3, <1>4, <1>5, <1>6, <1>7, <1>8, <2>1 DEF UsesEvent
    <3>3. Unlinked(stack[i].ev)'
      BY <1>11, <3>1 DEF Unlinked, Queued
    <3>4. life'[e] = "closing" /\ i \in Int /\ \A j \in DOMAIN stack' : j \in Int
      BY <1>0, <1>2, <1>8, <2>1
    <3> QED BY <3>1, <3>2, <3>3, <3>4 DEF ClosingAt, UsesEvent
  <2>2. CASE i \in 1..(n - 1)
    <3>1. PICK x : x = stack[i].ev
      OBVIOUS
    <3>2. ClosingAt(i) /\ stack'[i] = stack[i] /\ i \in DOMAIN stack /\ i < n
      BY <1>0, <1>5, <1>14, <2>2 DEF LifeInv, Closing
    <3>3. x # e
      BY <1>8, <1>14, <2>2, <3>1, <3>2 DEF UsesEvent
    <3>a. x \in Event
      BY <1>0, <1>14, <3>1, <3>2 DEF Frames, FrameOK
    <3>4. \A j \in DOMAIN stack' :
            UsesEvent(stack'[j], x) => j \in DOMAIN stack /\ stack'[j] = stack[j] /\ j < n
      BY <1>0, <1>3, <1>4, <1>5, <1>6, <3>3, <3>a DEF UsesEvent
    <3>5. life'[x] = "closing"
      BY <1>2, <3>1, <3>2 DEF ClosingAt
    <3>7. \A j \in DOMAIN stack' : j < i => ~UsesEvent(stack'[j], x)
      BY <3>1, <3>2, <3>4 DEF ClosingAt
    <3>8. CASE stack[i].pc = "free"
      <4>1. \A j \in DOMAIN stack' : j > i => ~UsesEvent(stack'[j], x)
        BY <3>1, <3>2, <3>4, <3>8 DEF ClosingAt
      <4>2. Unlinked(stack[i].ev)'
        BY <1>11, <3>1, <3>2, <3>8 DEF ClosingAt, Unlinked, Queued
      <4>3. stack'[i].pc = "free" /\ stack'[i].ev = x
        BY <3>1, <3>2, <3>8
      <4> QED BY <3>5, <3>7, <4>1, <4>2, <4>3 DEF ClosingAt, UsesEvent
    <3>9. CASE stack[i].pc = "close"
      <4>1. CASE ~Contains(mEfiTimerList, x) /\ \A j \in DOMAIN stack :
                   j > i /\ UsesEvent(stack[j], x) => stack[j].pc = "unlock"
        <5>1. \A j \in DOMAIN stack' : j > i /\ UsesEvent(stack'[j], x) => stack'[j].pc = "unlock"
          BY <3>4, <4>1
        <5>2. stack'[i].pc = "close" /\ stack'[i].ev = x /\ ~Contains(mEfiTimerList', x)
          BY <3>1, <3>2, <3>9, <4>1
        <5> QED BY <3>5, <3>7, <5>1, <5>2 DEF ClosingAt, UsesEvent
      <4>2. CASE i + 1 \in DOMAIN stack /\ stack[i + 1].ev = x /\ Cancels(stack[i + 1])
        <5>0. i + 1 # n
          BY <1>0, <1>2, <4>2 DEF Cancels
        <5>1. i + 1 \in DOMAIN stack' /\ stack'[i + 1] = stack[i + 1]
          BY <1>0, <1>5, <3>2, <4>2, <5>0
        <5> QED BY <1>2, <3>1, <3>2, <3>7, <3>9, <4>2, <5>1 DEF ClosingAt, UsesEvent, Cancels
      <4> QED BY <3>1, <3>2, <3>9, <4>1, <4>2 DEF ClosingAt
    <3> QED BY <1>14, <3>2, <3>8, <3>9
  <2>3. i # n + 1
    BY <1>3, <1>4, <1>14
  <2> QED BY <1>6, <2>1, <2>2, <2>3
<1>15. Waiters'
  <2> SUFFICES ASSUME NEW i \in DOMAIN stack', WaitFrame(stack'[i]), NEW x \in ToSet(UserEvents')
               PROVE  life'[x] = "live"
    BY DEF Waiters
  <2>1. i \in DOMAIN stack /\ WaitFrame(stack[i])
    BY <1>0, <1>3, <1>4, <1>5, <1>6 DEF WaitFrame
  <2> QED BY <1>2, <2>1 DEF LifeInv, Waiters
<1> QED BY <1>12, <1>13, <1>14, <1>15 DEF LifeInv, Closing

\* ... and frees it.
LEMMA CloseFreeLife ==
  ASSUME TypeOK, TypeOK', LifeInv, CloseFree, UNCHANGED mEfiTimerList
  PROVE  LifeInv'
<1> DEFINE n == Len(stack)
<1>1. PICK e : e = Top.ev
  OBVIOUS
<1>2. /\ Top.pc = "free" /\ ~IsMain(Top) /\ stack' = Callers
      /\ life' = [life EXCEPT ![e] = "freed"]
      /\ UNCHANGED <<gEventQueue, gEventSignalQueue, UserEvents>>
  BY <1>1 DEF CloseFree, IsMain, clientVars, queueVars
<1>3. Over(stack', {}) /\ Len(stack') = n - 1
  BY <1>2, OverReturn
<1>0. /\ n \in Nat /\ DOMAIN stack = 1..n /\ n >= 1 /\ Top = stack[n]
      /\ \A i \in DOMAIN stack : stack[i] \in Frames
      /\ DOMAIN stack' = 1..Len(stack')
      /\ life \in [Event -> {"none", "live", "closing", "freed"}]
  BY Running, <1>3 DEF Stacks, Top, TypeOK, ServiceType, Over
<1>4. DOMAIN stack' = 1..(n - 1) /\ \A i \in 1..(n - 1) : stack'[i] = stack[i]
  BY <1>0, <1>3 DEF Over
<1> HIDE DEF n
<1>5. e \in Event /\ ClosingAt(n)
  BY <1>0, <1>1, <1>2 DEF LifeInv, Closing, Frames, FrameOK
<1>6. /\ life[e] = "closing" /\ Unlinked(e)
      /\ \A j \in 1..(n - 1) : ~UsesEvent(stack[j], e)
  <2>1. stack[n].pc = "free" /\ stack[n].ev = e
    BY <1>0, <1>1, <1>2
  <2> QED BY <1>0, <1>5, <2>1 DEF ClosingAt
<1>7. \A x \in Event : life'[x] = IF x = e THEN "freed" ELSE life[x]
  BY <1>0, <1>2
<1>8. QueueSound' /\ CoreEvents'
  <2>1. \A x \in Event : life'[x] \in {"none", "freed"} => life[x] \in {"none", "freed"} \/ x = e
    BY <1>7
  <2>2. ~Queued(e) /\ ~Contains(gEventSignalQueue, e) /\ ~Contains(mEfiTimerList, e)
    BY <1>6 DEF Unlinked
  <2>3. QueueSound'
    BY <1>2, <2>1, <2>2 DEF LifeInv, QueueSound, Queued
  <2>4. CheckTimer # e /\ IdleLoop # e /\ CheckTimer \in Event /\ IdleLoop \in Event
    BY <1>6 DEF Event, LifeInv, CoreEvents
  <2> QED BY <1>7, <2>3, <2>4 DEF LifeInv, CoreEvents
<1>9. FramesAllocated'
  <2> SUFFICES ASSUME NEW i \in DOMAIN stack', Uses(stack'[i])
               PROVE  life'[stack'[i].ev] \in {"live", "closing"}
    BY DEF FramesAllocated
  <2>1. i \in DOMAIN stack /\ stack'[i] = stack[i] /\ ~UsesEvent(stack[i], e)
    BY <1>0, <1>4, <1>6
  <2> QED BY <1>7, <2>1 DEF LifeInv, FramesAllocated, Uses, UsesEvent
<1>10. ASSUME NEW i \in DOMAIN stack', stack'[i].pc \in {"close", "free"} PROVE ClosingAt(i)'
  <2>1. PICK x : x = stack[i].ev
    OBVIOUS
  <2>2. /\ ClosingAt(i) /\ stack'[i] = stack[i] /\ i \in 1..(n - 1) /\ x \in Event
    BY <1>0, <1>4, <1>10, <2>1 DEF LifeInv, Closing, Frames, FrameOK
  <2>3. x # e
    BY <1>6, <1>10, <2>1, <2>2 DEF UsesEvent
  <2>4. life'[x] = "closing"
    BY <1>7, <2>1, <2>2, <2>3 DEF ClosingAt
  <2>5. \A j \in DOMAIN stack' : j \in DOMAIN stack /\ stack'[j] = stack[j]
    BY <1>0, <1>4
  <2>6. Unlinked(stack[i].ev) => Unlinked(stack[i].ev)'
    BY <1>2, <2>2 DEF Unlinked, Queued
  <2>7. CASE i + 1 \in DOMAIN stack /\ stack[i + 1].ev = x /\ Cancels(stack[i + 1])
    <3>1. i + 1 # n
      BY <1>0, <1>2, <2>7 DEF Cancels
    <3>2. i + 1 \in DOMAIN stack' /\ stack'[i + 1] = stack[i + 1]
      BY <1>0, <1>4, <2>2, <2>7, <3>1
    <3> QED BY <2>1, <2>2, <2>4, <2>5, <2>6, <2>7, <3>2 DEF ClosingAt, UsesEvent, Cancels
  <2>8. CASE ~(i + 1 \in DOMAIN stack /\ stack[i + 1].ev = x /\ Cancels(stack[i + 1]))
    BY <2>1, <2>2, <2>4, <2>5, <2>6, <2>8 DEF ClosingAt, UsesEvent
  <2> QED BY <2>7, <2>8
<1>11. Waiters'
  <2> SUFFICES ASSUME NEW i \in DOMAIN stack', WaitFrame(stack'[i]), NEW x \in ToSet(UserEvents')
               PROVE  life'[x] = "live"
    BY DEF Waiters
  <2>1. i \in DOMAIN stack /\ WaitFrame(stack[i]) /\ x \in ToSet(UserEvents)
    BY <1>0, <1>2, <1>4
  <2>2. UserEvents \in Seq(Client)
    BY DEF TypeOK, ClientType
  <2>3. x \in Event
    BY <2>1, <2>2 DEF ToSet, Event
  <2>4. life[x] = "live"
    BY <2>1 DEF LifeInv, Waiters
  <2> QED BY <1>6, <1>7, <2>3, <2>4
<1> QED BY <1>8, <1>9, <1>10, <1>11 DEF LifeInv, Closing

-----------------------------------------------------------------------------
(* The queues of the whole specification.                                   *)

LEMMA InitLife == Init => LifeInv
<1> SUFFICES ASSUME Init PROVE LifeInv
  OBVIOUS
<1>1. /\ mEfiTimerList = <<>> /\ gEventQueue = [t \in Level |-> <<>>]
      /\ gEventSignalQueue = <<IdleLoop, CheckTimer>>
      /\ life = [e \in Event |-> IF e \in Client THEN "none" ELSE "live"]
      /\ stack = <<Frame("run", TPL_APPLICATION, NoEvent, 0)>>
  BY DEF Init
<1> HIDE DEF Init
<1>2. CheckTimer \in Event /\ IdleLoop \in Event /\ CheckTimer # IdleLoop
      /\ CheckTimer \notin Client /\ IdleLoop \notin Client
  BY EventAssumption DEF Event
<1>3. CoreEvents
  BY <1>1, <1>2 DEF CoreEvents
<1>4. \A e \in Event : ~Queued(e) /\ ~Contains(mEfiTimerList, e)
  BY <1>1 DEF Queued, Contains
<1>5. \A e \in Event : Contains(gEventSignalQueue, e) => life[e] = "live"
  BY <1>1, <1>2 DEF Contains
<1>6. \A t \in Level : IsInjective(gEventQueue[t]) /\ ToSet(gEventQueue[t]) = {}
  BY <1>1 DEF IsInjective, ToSet
<1>7. IsInjective(gEventSignalQueue)
  BY <1>1, <1>2 DEF IsInjective
<1>8. QueueSound
  BY <1>4, <1>5, <1>6, <1>7 DEF QueueSound
<1>9. DOMAIN stack = {1} /\ stack[1].pc = "run"
  BY <1>1, FrameParts
<1>10. FramesAllocated /\ Closing /\ Waiters
  BY <1>9 DEF FramesAllocated, Closing, Waiters, Uses, WaitFrame
<1> QED BY <1>3, <1>8, <1>10 DEF LifeInv

LEMMA NextLife ==
  ASSUME TypeOK, TypeOK', StackInv, TimerInv, LifeInv, [Next]_vars PROVE LifeInv'
<1>1. CASE ServiceStep /\ UNCHANGED timerVars
  <2>1. UNCHANGED mEfiTimerList
    BY <1>1 DEF timerVars
  <2>2. (IdleAction /\ UNCHANGED UserEvents) \/ CloseUnlink \/ CloseFree
    <3>1. CASE CloseUnlink \/ CloseFree
      BY <3>1
    <3>2. CASE ~(CloseUnlink \/ CloseFree)
      <4>1. IdleAction
        BY <1>1, <3>2, Zenon DEF ServiceStep, IdleAction
      <4>2. UNCHANGED clientVars
        BY <1>1, <3>2, Zenon DEF ServiceStep, RestoreTPL, Return, GroupLock, GroupMember,
           GroupUnlock, SignalRelock, PollSignalled, PollNotReady, WaitCheck, WaitIdle, clientVars
      <4> QED BY <4>1, <4>2 DEF clientVars
    <3> QED BY <3>1, <3>2
  <2> QED BY <2>1, <2>2, IdleActionLife, CloseUnlinkLife, CloseFreeLife
<1>2. CASE TimerLock \/ TimerUnlink \/ TimerArm \/ TimerInsert \/ TimerUnlock
  BY <1>2, TimerLockLife, TimerUnlinkLife, TimerArmLife, TimerInsertLife, TimerReleaseLife
<1>3. CASE CheckStart \/ CheckRemove \/ CheckFire \/ CheckRearm \/ CheckReinsert \/ CheckDone
  BY <1>3, CheckStartLife, CheckRemoveLife, CheckFireLife, CheckRearmLife, CheckReinsertLife,
     TimerReleaseLife
<1>4. CASE InterruptReturn \/ TimerInterrupt
  <2>1. UNCHANGED <<mEfiTimerList, UserEvents>>
    BY <1>4 DEF InterruptReturn, TimerInterrupt, timerVars, clientVars
  <2> QED BY <1>4, <2>1, IdleActionLife DEF IdleAction
<1>5. CASE ClientCall /\ UNCHANGED timerVars
  <2>1. UNCHANGED mEfiTimerList
    BY <1>5 DEF timerVars
  <2>2. CASE RaiseTPL \/ \E e \in Client : CreateEvent(e) \/ SignalEvent(e) \/ CheckEvent(e)
    <3>1. UNCHANGED UserEvents
      BY <2>2 DEF RaiseTPL, CreateEvent, SignalEvent, CheckEvent, clientVars
    <3> QED BY <2>1, <2>2, <3>1, IdleActionLife DEF IdleAction
  <2>3. CASE \E e \in Client : CloseEvent(e)
    BY <2>1, <2>3, CloseEventLife
  <2>4. CASE \E list \in WaitLists : WaitForEvent(list)
    BY <2>1, <2>4, WaitForEventLife
  <2> QED BY <1>5, <2>2, <2>3, <2>4, Zenon DEF ClientCall
<1>6. CASE \E e \in Client : SetTimer(e)
  BY <1>6, SetTimerLife
<1>7. CASE UNCHANGED vars
  <2>1. UNCHANGED <<stack, gEventQueue, gEventSignalQueue, life, UserEvents, mEfiTimerList>>
    BY <1>7 DEF vars, tplVars, eventVars, queueVars, clientVars, timerVars
  <2>2. QueueSound'
    BY <2>1 DEF LifeInv, QueueSound, Queued
  <2>3. CoreEvents' /\ FramesAllocated' /\ Waiters'
    BY <2>1 DEF LifeInv, CoreEvents, FramesAllocated, Waiters
  <2>4. Closing'
    BY <2>1 DEF LifeInv, Closing, ClosingAt, Unlinked, Queued
  <2> QED BY <2>2, <2>3, <2>4 DEF LifeInv
<1> QED BY <1>1, <1>2, <1>3, <1>4, <1>5, <1>6, <1>7, Zenon DEF Next, FrameStep

(* The four invariants together are inductive: the shape of the call stack  *)
(* and the timer database tell which functions can hold an event, and the   *)
(* lives of the events which queues can (Event.c:189-244,715-775).          *)
THEOREM LifeInvariant ==
  ASSUME ~Reload PROVE Spec => [](TypeOK /\ StackInv /\ TimerInv /\ LifeInv)
<1>1. Init => TypeOK /\ StackInv /\ TimerInv /\ LifeInv
  BY InitType, InitInv, InitTimers, InitLife
<1>2. TypeOK /\ StackInv /\ TimerInv /\ LifeInv /\ [Next]_vars
        => (TypeOK /\ StackInv /\ TimerInv /\ LifeInv)'
  BY NextType, NextInv, NextTimers, NextLife
<1> QED BY <1>1, <1>2, PTL DEF Spec

(* An event is queued at most once, at its NotifyTpl, and CoreCloseEvent    *)
(* leaves no freed event in a queue, in the signal list or in the timer     *)
(* database, for any number of events and any nesting (Event.c:234-244,     *)
(* 740-769).                                                                *)
THEOREM QueuesCorrect ==
  ASSUME ~Reload PROVE Spec => []QueueSound
BY LifeInvariant, PTL DEF LifeInv

-----------------------------------------------------------------------------
(* Signals.  CoreNotifySignalList walks the signal list element by element; *)
(* what it has passed is queued.                                            *)

SignalList ==
  \A e \in Event : IsSignal(e) /\ life[e] = "live" => Contains(gEventSignalQueue, e)
Unsignalled == \A e \in Event : life[e] = "none" => SignalCount[e] = 0
Members ==
  \A i \in DOMAIN stack : stack[i].pc = "members" =>
    /\ i = Len(stack)
    /\ \A k \in DOMAIN gEventSignalQueue :
         k < stack[i].at /\ EventGroup(gEventSignalQueue[k]) = EventGroup(stack[i].ev)
           => Queued(gEventSignalQueue[k])

SignalInv == NoLostSignal /\ SignalList /\ Unsignalled /\ Members

Notifies(f, e) == f.ev = e /\ f.pc \in {"group", "members"}
Signalled(e) == Queued(e) \/ \E i \in DOMAIN stack : Notifies(stack[i], e)

\* What every step but those of CoreNotifySignalList does to the signals.
SignalStays ==
  \A x \in Event :
    /\ life'[x] = "none" => life[x] = "none" /\ (SignalCount'[x] # 0 => SignalCount[x] # 0)
    /\ IsSignal(x) /\ life'[x] = "live" =>
         /\ life[x] = "live" /\ Contains(gEventSignalQueue, x) => Contains(gEventSignalQueue', x)
         /\ life[x] # "live" => Contains(gEventSignalQueue', x) /\ SignalCount'[x] = 0
         /\ SignalCount'[x] # 0 =>
              \/ SignalCount[x] # 0 /\ (Queued(x) => Queued(x)')
              \/ Queued(x)'
              \/ \E i \in DOMAIN stack' : Notifies(stack'[i], x)

LEMMA SignalsStep ==
  ASSUME TypeOK, SignalInv, SignalStays, Top.pc # "members",
         NEW N, Over(stack', N), \A f \in N : f.pc # "members",
         Top.pc = "group" => Len(stack) \in DOMAIN stack' /\ stack'[Len(stack)] = Top
  PROVE  SignalInv'
<1>0. /\ Len(stack) \in Nat /\ DOMAIN stack = 1..Len(stack) /\ Len(stack) >= 1
      /\ DOMAIN stack' = 1..Len(stack') /\ Top = stack[Len(stack)]
  BY Running DEF Stacks, Over, Top
<1>1. ASSUME NEW i \in DOMAIN stack' PROVE stack'[i].pc # "members"
  <2>1. CASE i < Len(stack)
    <3>1. i \in DOMAIN stack /\ stack'[i] = stack[i]
      BY <1>0, <2>1 DEF Over
    <3> QED BY <2>1, <3>1 DEF SignalInv, Members
  <2>2. CASE i >= Len(stack)
    BY <2>2 DEF Over
  <2> QED BY <1>0, <2>1, <2>2
<1>2. Members'
  BY <1>1 DEF Members
<1>3. ASSUME NEW i \in DOMAIN stack, stack[i].pc \in {"group", "members"}
      PROVE  i \in DOMAIN stack' /\ stack'[i] = stack[i]
  BY <1>0, <1>3 DEF Over
<1>4. ASSUME NEW x \in Event, IsSignal(x), life'[x] = "live", SignalCount'[x] # 0
      PROVE  Queued(x)' \/ \E i \in DOMAIN stack' : Notifies(stack'[i], x)
  <2>1. CASE SignalCount[x] # 0 /\ (Queued(x) => Queued(x)')
    <3>1. life[x] = "live"
      BY <1>4 DEF SignalStays
    <3>2. Queued(x) \/ \E i \in DOMAIN stack : Notifies(stack[i], x)
      BY <1>4, <2>1, <3>1 DEF SignalInv, NoLostSignal, Notifies
    <3> QED BY <1>3, <2>1, <3>2 DEF Notifies
  <2> QED BY <1>4, <2>1 DEF SignalStays
<1>5. NoLostSignal'
  BY <1>4 DEF NoLostSignal, Notifies
<1>6. SignalList'
  BY DEF SignalInv, SignalList, SignalStays
<1>7. Unsignalled'
  BY DEF SignalInv, Unsignalled, SignalStays
<1> QED BY <1>2, <1>5, <1>6, <1>7 DEF SignalInv

\* The signals, the lives and the signal list stay, and no event leaves its queue.
LEMMA SameSignals ==
  ASSUME UNCHANGED <<life, gEventSignalQueue>>, \A x \in Event : SignalCount'[x] # 0 => SignalCount[x] # 0,
         \A x \in Event : Queued(x) => Queued(x)'
  PROVE  SignalStays
BY DEF SignalStays

LEMMA StillQueued ==
  ASSUME UNCHANGED gEventQueue PROVE \A x : Queued(x) <=> Queued(x)'
BY DEF Queued

\* CoreSignalEvent queues the event, or notifies its group, unless it is signalled already.
LEMMA SignalEventSignals ==
  ASSUME TypeOK, LifeInv, NEW e \in Event, Source(e), NEW t, NEW S, NEW rest \in Seq(S),
         CoreSignalEvent(e, t, rest)
  PROVE  SignalStays
<1>1. SignalCount \in [Event -> {0, 1}] /\ QueuesInjective
  BY LifeQueues DEF TypeOK, ServiceType
<1>2. UNCHANGED <<life, gEventSignalQueue>> /\ SignalCount' = [SignalCount EXCEPT ![e] = 1]
  BY DEF CoreSignalEvent
<1>3. \A x \in Event : x # e => SignalCount'[x] = SignalCount[x]
  BY <1>1, <1>2
<1>4. life[e] # "none"
  BY SourceAllocated
<1>5. CASE IsSignal(e) /\ CoreNotifyEvent(e)
  BY <1>1, <1>2, <1>3, <1>4, <1>5, NotifyQueued DEF SignalStays
<1>6. CASE stack' = rest \o <<Frame("group", t, e, 0), Restore(t)>> /\ UNCHANGED gEventQueue
  <2> DEFINE f == Frame("group", t, e, 0)
             r == Restore(t)
             T == S \cup {f, r}
  <2>1. rest \in Seq(T) /\ f \in T /\ r \in T
    BY SeqOfMore
  <2>2. Notifies(f, e)
    BY FrameParts DEF Notifies
  <2>3. stack' = rest \o <<f, r>>
    BY <1>6
  <2> HIDE DEF f, r, T
  <2>4. <<f, r>> \in Seq(T) /\ Len(<<f, r>>) = 2 /\ <<f, r>>[1] = f
    BY <2>1
  <2>5. Len(rest) + 1 \in DOMAIN stack' /\ stack'[Len(rest) + 1] = f
    BY <2>1, <2>3, <2>4, ConcatProperties
  <2>6. \E i \in DOMAIN stack' : Notifies(stack'[i], e)
    BY <2>2, <2>5
  <2> QED BY <1>2, <1>3, <1>4, <1>6, <2>6, StillQueued DEF SignalStays
<1>7. CASE (SignalCount[e] # 0 \/ ~IsSignal(e)) /\ UNCHANGED gEventQueue
  BY <1>2, <1>3, <1>4, <1>7, StillQueued DEF SignalStays
<1>8. \/ IsSignal(e) /\ CoreNotifyEvent(e)
      \/ stack' = rest \o <<Frame("group", t, e, 0), Restore(t)>> /\ UNCHANGED gEventQueue
      \/ (SignalCount[e] # 0 \/ ~IsSignal(e)) /\ UNCHANGED gEventQueue
  BY Zenon DEF CoreSignalEvent
<1> QED BY <1>5, <1>6, <1>7, <1>8

LEMMA CheckEventSignals ==
  ASSUME TypeOK, LifeInv, NEW e \in Event, NEW t, NEW rest, NEW i, CoreCheckEvent(e, t, rest, i)
  PROVE  SignalStays
<1>1. /\ (IsWait(e) /\ CoreNotifyEvent(e)) \/ UNCHANGED gEventQueue
      /\ UNCHANGED <<SignalCount, life, gEventSignalQueue>>
  BY Zenon DEF CoreCheckEvent
<1>2. \A x \in Event : Queued(x) => Queued(x)'
  BY <1>1, LifeQueues, NotifyQueued, StillQueued
<1> QED BY <1>1, <1>2, SameSignals

LEMMA DispatchPopSignals ==
  ASSUME TypeOK, LifeInv, DispatchPop PROVE SignalStays
<1> DEFINE e == Head(gEventQueue[Top.tpl])
<1>1. UNCHANGED <<life, gEventSignalQueue>> /\ PopSignalCount(e)
  BY DEF DispatchPop
<1>2. SignalCount \in [Event -> {0, 1}]
  BY DEF TypeOK, ServiceType
<1>3. \A x : Queued(x) /\ x # e => Queued(x)'
  BY LifeQueues, PopQueued
<1> HIDE DEF e
<1>4. \A x \in Event : SignalCount'[x] # 0 => SignalCount[x] # 0 /\ (IsSignal(x) => x # e)
  BY <1>1, <1>2 DEF PopSignalCount
<1> QED BY <1>1, <1>3, <1>4 DEF SignalStays

LEMMA CallersFrames ==
  ASSUME TypeOK, ~IsMain(Top), NEW f
  PROVE  Append(Callers, f) \in Seq(Frames \cup {f})
<1>1. Callers \in Seq(Frames)
  BY Running, Pop DEF Stacks, Callers, Top
<1>2. Callers \in Seq(Frames \cup {f})
  BY <1>1, SeqOfMore
<1> QED BY <1>2, AppendProperties

LEMMA CreateEventSignals ==
  ASSUME TypeOK, SignalInv, NEW e \in Client, CreateEvent(e) PROVE SignalStays
<1>1. /\ e \in Event /\ life[e] = "none" /\ life' = [life EXCEPT ![e] = "live"]
      /\ gEventSignalQueue' = IF IsSignal(e) THEN Cons(e, gEventSignalQueue) ELSE gEventSignalQueue
      /\ UNCHANGED <<gEventQueue, SignalCount>>
  BY DEF CreateEvent, Event, queueVars
<1>2. gEventSignalQueue \in Seq(Event) /\ life \in [Event -> {"none", "live", "closing", "freed"}]
  <2>1. SignalEvents \subseteq Event
    BY DEF SignalEvents
  <2> QED BY <2>1, SeqOfMore DEF TypeOK, ServiceType
<1>3. \A y : Contains(gEventSignalQueue, y) => Contains(gEventSignalQueue', y)
  BY <1>1, <1>2, ConsedIs
<1>4. IsSignal(e) => Contains(gEventSignalQueue', e)
  BY <1>1, <1>2, ConsedIs
<1>5. \A x \in Event : life'[x] = IF x = e THEN "live" ELSE life[x]
  BY <1>1, <1>2
<1>6. SignalCount[e] = 0
  BY <1>1 DEF SignalInv, Unsignalled
<1> QED BY <1>1, <1>3, <1>4, <1>5, <1>6, StillQueued DEF SignalStays

LEMMA ClientActionSignals ==
  ASSUME TypeOK, LifeInv, SignalInv,
         RaiseTPL \/ \E e \in Client : CreateEvent(e) \/ SignalEvent(e) \/ CheckEvent(e)
  PROVE  SignalStays /\ Top.pc \notin {"group", "members"}
<1>1. CASE \E e \in Client : CreateEvent(e)
  BY <1>1, CreateEventSignals DEF CreateEvent, ClientRuns
<1>2. CASE \E e \in Client : SignalEvent(e)
  <2>1. PICK e \in Client : SignalEvent(e)
    BY <1>2
  <2>2. CoreSignalEvent(e, gEfiCurrentTpl, stack) /\ e \in Event /\ Source(e) /\ ClientRuns
    BY <2>1 DEF SignalEvent, Source, Event, Invokes
  <2>3. stack \in Seq(Frames)
    BY DEF TypeOK, ServiceType, Stacks
  <2>4. SignalStays
    BY <2>2, <2>3, SignalEventSignals
  <2> QED BY <2>2, <2>4 DEF ClientRuns
<1>3. CASE \E e \in Client : CheckEvent(e)
  <2>1. PICK e \in Client : CheckEvent(e)
    BY <1>3
  <2>2. CoreCheckEvent(e, gEfiCurrentTpl, stack, 0) /\ e \in Event /\ ClientRuns
    BY <2>1 DEF CheckEvent, Event, Invokes
  <2>3. SignalStays
    BY <2>2, CheckEventSignals
  <2> QED BY <2>2, <2>3 DEF ClientRuns
<1>4. CASE RaiseTPL
  <2>1. ClientRuns /\ UNCHANGED <<life, gEventSignalQueue, gEventQueue, SignalCount>>
    BY <1>4 DEF RaiseTPL, Invokes, eventVars, queueVars
  <2> QED BY <2>1, SameSignals, StillQueued DEF ClientRuns
<1> QED BY <1>1, <1>2, <1>3, <1>4

LEMMA CoreActionSignals ==
  ASSUME TypeOK, LifeInv,
         \/ TplStep \/ RestoreTPL \/ Return \/ SignalRelock \/ PollSignalled \/ PollNotReady
         \/ WaitCheck \/ WaitIdle \/ InterruptReturn
  PROVE  SignalStays /\ Top.pc \notin {"group", "members"}
<1>1. CASE RestoreLoop \/ RestorePick \/ RestoreLower \/ DispatchDone \/ DispatchCall
           \/ RestoreTPL \/ Return \/ SignalRelock \/ PollNotReady \/ InterruptReturn
  <2>1. UNCHANGED <<life, gEventSignalQueue, gEventQueue, SignalCount>>
    BY <1>1 DEF RestoreLoop, RestorePick, RestoreLower, DispatchDone, DispatchCall, RestoreTPL,
                Return, SignalRelock, PollNotReady, InterruptReturn, eventVars, queueVars
  <2>2. Top.pc \notin {"group", "members"}
    BY <1>1 DEF RestoreLoop, RestorePick, RestoreLower, DispatchDone, DispatchCall, RestoreTPL,
                Return, SignalRelock, PollNotReady, InterruptReturn
  <2> QED BY <2>1, <2>2, SameSignals, StillQueued
<1>2. CASE DispatchPop
  BY <1>2, DispatchPopSignals DEF DispatchPop
<1>3. CASE PollSignalled
  <2>1. /\ UNCHANGED <<life, gEventSignalQueue, gEventQueue>> /\ Top.pc = "poll"
        /\ SignalCount' = [SignalCount EXCEPT ![Top.ev] = 0]
    BY <1>3 DEF PollSignalled
  <2>2. \A x \in Event : SignalCount'[x] # 0 => SignalCount[x] # 0
    BY <2>1 DEF TypeOK, ServiceType
  <2> QED BY <2>1, <2>2, SameSignals, StillQueued
<1>4. CASE WaitCheck
  <2> DEFINE e == UserEvents[Top.at]
  <2>1. /\ Top.pc = "wait" /\ Top.at \in 1..Len(UserEvents) /\ UserEvents \in Seq(Client)
        /\ CoreCheckEvent(e, Top.tpl, Callers, Top.at)
    BY <1>4, Running DEF WaitCheck, MoreEvents, Frames, FrameOK, TypeOK, ClientType
  <2>2. e \in Event
    BY <2>1 DEF Event
  <2> HIDE DEF e
  <2> QED BY <2>1, <2>2, CheckEventSignals
<1>5. CASE WaitIdle
  <2>1. PICK f : CoreSignalEvent(IdleLoop, Top.tpl, Append(Callers, f)) /\ Top.pc = "wait"
    BY <1>5 DEF WaitIdle
  <2>2. Append(Callers, f) \in Seq(Frames \cup {f})
    BY <2>1, CallersFrames DEF IsMain
  <2>3. IdleLoop \in Event /\ Source(IdleLoop)
    BY DEF Event, Source
  <2> QED BY <2>1, <2>2, <2>3, SignalEventSignals
<1> QED BY <1>1, <1>2, <1>3, <1>4, <1>5 DEF TplStep

LEMMA IdleActionSignals ==
  ASSUME TypeOK, TypeOK', StackInv, LifeInv, SignalInv, IdleAction,
         ~(GroupLock \/ GroupMember \/ GroupUnlock \/ TimerInterrupt)
  PROVE  SignalInv'
<1>1. SignalStays /\ Top.pc \notin {"group", "members"}
  BY ClientActionSignals, CoreActionSignals DEF IdleAction
<1> DEFINE N == {f \in Frames : Mild(f)}
<1>2. Over(stack', N)
  BY IdleActionStep DEF IdleStep
<1>3. \A f \in N : f.pc # "members"
  BY <1>1 DEF Mild, Fresh
<1> HIDE DEF N
<1> QED BY <1>1, <1>2, <1>3, SignalsStep

LEMMA TimerInterruptSignals ==
  ASSUME TypeOK, StackInv, LifeInv, SignalInv, TimerInterrupt PROVE SignalInv'
<1> DEFINE t == gEfiCurrentTpl
           f == Frame("iret", t, NoEvent, 0)
           N == {f, Restore(t), Frame("group", t, CheckTimer, 0)}
<1>1. Over(stack', N) /\ Len(stack) \in DOMAIN stack' /\ stack'[Len(stack)] = Top
  BY TimerInterruptOver
<1>2. \A g \in N : g.pc # "members"
  BY FrameParts DEF Restore
<1>3. Top.pc # "members"
  <2> SUFFICES ASSUME Top.pc = "members" PROVE FALSE
    OBVIOUS
  <2>1. t = TPL_HIGH_LEVEL
    BY RunsAtCases DEF StackInv
  <2> QED BY <2>1 DEF StackInv, TimerInterrupt, TPL_HIGH_LEVEL
<1>4. SignalStays
  <2>1. CASE CoreSignalEvent(CheckTimer, t, Append(stack, f))
    <3>1. stack \in Seq(Frames) /\ stack \in Seq(Frames \cup {f})
      BY SeqOfMore DEF TypeOK, ServiceType, Stacks
    <3>2. Append(stack, f) \in Seq(Frames \cup {f})
      BY <3>1, AppendProperties
    <3> QED BY <2>1, <3>2, CheckSource, SignalEventSignals
  <2>2. CASE UNCHANGED eventVars
    <3>1. UNCHANGED <<life, gEventSignalQueue, gEventQueue, SignalCount>>
      BY <2>2 DEF eventVars, queueVars
    <3> QED BY <3>1, SameSignals, StillQueued
  <2> QED BY <2>1, <2>2, Zenon DEF TimerInterrupt
<1> HIDE DEF N
<1> QED BY <1>1, <1>2, <1>3, <1>4, SignalsStep

\* The steps of Timer.c: the running function goes on as f, perhaps after a call
\* of CoreSignalEvent (e).
LEMMA TimerStepSignals ==
  ASSUME TypeOK, LifeInv, SignalInv, ~IsMain(Top), Top.pc \notin {"group", "members"},
         NEW f, f.pc # "members", NEW e \in Event, Source(e),
         \/ stack' = Append(Callers, f) /\ UNCHANGED eventVars
         \/ CoreSignalEvent(e, TPL_TIMER, Append(Callers, f))
  PROVE  SignalInv'
<1> DEFINE N == {f, Restore(TPL_TIMER), Frame("group", TPL_TIMER, e, 0)}
<1>1. Over(stack', N)
  <2>1. CASE stack' = Append(Callers, f)
    BY <2>1, OverGoto
  <2>2. CASE CoreSignalEvent(e, TPL_TIMER, Append(Callers, f))
    BY <2>2, OverSignalGoto
  <2> QED BY <2>1, <2>2
<1>2. \A g \in N : g.pc # "members"
  BY FrameParts DEF Restore
<1>3. SignalStays
  <2>1. CASE UNCHANGED eventVars
    <3>1. UNCHANGED <<life, gEventSignalQueue, gEventQueue, SignalCount>>
      BY <2>1 DEF eventVars, queueVars
    <3> QED BY <3>1, SameSignals, StillQueued
  <2>2. CASE CoreSignalEvent(e, TPL_TIMER, Append(Callers, f))
    BY <2>2, CallersFrames, SignalEventSignals
  <2> QED BY <2>1, <2>2
<1> HIDE DEF N
<1> QED BY <1>1, <1>2, <1>3, SignalsStep

\* The running function goes on as f, perhaps after a call of CoreSignalEvent (e).
GoesOnAs(pc, ev, n, e) ==
  \/ stack' = Append(Callers, Now(pc, ev, n)) /\ UNCHANGED eventVars
  \/ CoreSignalEvent(e, TPL_TIMER, Append(Callers, Now(pc, ev, n)))

OfTimerStep ==
  \/ TimerLock \/ TimerUnlink \/ TimerArm \/ TimerInsert
  \/ CheckStart \/ CheckRemove \/ CheckFire \/ CheckRearm \/ CheckReinsert

\* The steps of Timer.c but those that leave it.
LEMMA TimerGoesOn ==
  ASSUME TypeOK, OfTimerStep
  PROVE  /\ Top.pc \in LockHolder \cup {"SetTimer", "SetPeriodic", "check"}
         /\ \E pc, ev, n, e : /\ pc \in LockHolder /\ e \in Event /\ Source(e)
                              /\ GoesOnAs(pc, ev, n, e)
<1> DEFINE From == LockHolder \cup {"SetTimer", "SetPeriodic", "check"}
<1>0. ASSUME Top.pc \in From, NEW pc \in LockHolder, NEW ev, NEW n, NEW e \in Event, Source(e),
             GoesOnAs(pc, ev, n, e)
      PROVE  /\ Top.pc \in From
             /\ \E pc1, ev1, n1, e1 : /\ pc1 \in LockHolder /\ e1 \in Event /\ Source(e1)
                                     /\ GoesOnAs(pc1, ev1, n1, e1)
  BY <1>0
<1>1. CheckTimer \in Event /\ Source(CheckTimer)
  BY CheckSource
<1>a. /\ {"unlinkOne", "unlinkPeriodic", "unlock", "arm", "insert", "scan", "fire", "rearm",
          "reinsert"} \subseteq LockHolder
      /\ LockHolder \subseteq From /\ {"SetTimer", "SetPeriodic", "check"} \subseteq From
  BY DEF LockHolder
<1> HIDE DEF From
<1>2. CASE TimerLock
  <2>1. Top.pc \in {"SetTimer", "SetPeriodic"}
        /\ \E pc \in {"unlinkOne", "unlinkPeriodic"} : GoesOnAs(pc, Top.ev, Top.at, CheckTimer)
    BY <1>2 DEF TimerLock, Goto, GoesOnAs
  <2> QED BY <1>0, <1>1, <1>a, <2>1
<1>3. CASE TimerUnlink
  <2>1. Top.pc \in {"unlinkOne", "unlinkPeriodic"}
        /\ \E pc \in {"unlock", "arm"} : \E n : GoesOnAs(pc, Top.ev, n, CheckTimer)
    BY <1>3 DEF TimerUnlink, GoesOnAs
  <2> QED BY <1>0, <1>1, <1>a, <2>1
<1>4. CASE TimerArm
  <2>1. Top.pc = "arm" /\ GoesOnAs("insert", Top.ev, Top.at, CheckTimer)
    BY <1>4 DEF TimerArm, Goto, GoesOnAs
  <2> QED BY <1>0, <1>1, <1>a, <2>1
<1>5. CASE TimerInsert
  <2>1. Top.pc = "insert" /\ GoesOnAs("unlock", Top.ev, Top.at, CheckTimer)
    BY <1>5, Zenon DEF TimerInsert, Goto, GoesOnAs
  <2> QED BY <1>0, <1>1, <1>a, <2>1
<1>6. CASE CheckStart \/ CheckRemove \/ CheckReinsert
  <2>1. Top.pc \in {"check", "scan", "reinsert"}
        /\ \E pc \in {"scan", "fire"} : \E ev, n : GoesOnAs(pc, ev, n, CheckTimer)
    BY <1>6 DEF CheckStart, CheckRemove, CheckReinsert, NextScan, GoesOnAs
  <2> QED BY <1>0, <1>1, <1>a, <2>1
<1>7. CASE CheckFire
  <2>1. Top.pc = "fire" /\ GoesOnAs("rearm", Top.ev, Top.at, Top.ev)
    BY <1>7 DEF CheckFire, GoesOnAs
  <2>2. Top.ev \in Event /\ Source(Top.ev)
    BY <2>1, OwnSource
  <2> QED BY <1>0, <1>a, <2>1, <2>2
<1>8. CASE CheckRearm
  <2>1. Top.pc = "rearm"
        /\ \/ GoesOnAs("scan", CheckTimer, Top.at, CheckTimer)
           \/ GoesOnAs("reinsert", Top.ev, Top.at, CheckTimer)
    BY <1>8, Zenon DEF CheckRearm, NextScan, GoesOnAs
  <2> QED BY <1>0, <1>1, <1>a, <2>1
<1> USE DEF From
<1> QED BY <1>2, <1>3, <1>4, <1>5, <1>6, <1>7, <1>8 DEF OfTimerStep

LEMMA TimerSignals ==
  ASSUME TypeOK, LifeInv, SignalInv, OfTimerStep \/ TimerUnlock \/ CheckDone
  PROVE  SignalInv'
<1>1. CASE OfTimerStep
  <2>1. PICK pc, ev, n, e : /\ pc \in LockHolder /\ e \in Event /\ Source(e)
                           /\ GoesOnAs(pc, ev, n, e)
    BY <1>1, TimerGoesOn
  <2>2. Top.pc \in LockHolder \cup {"SetTimer", "SetPeriodic", "check"}
    BY <1>1, TimerGoesOn
  <2>3. PICK f : f = Now(pc, ev, n)
    OBVIOUS
  <2>4. f.pc = pc
    BY <2>3, NowFields
  <2>5. f.pc # "members" /\ ~IsMain(Top) /\ Top.pc \notin {"group", "members"}
    BY <2>1, <2>2, <2>4 DEF LockHolder, IsMain
  <2> QED BY <2>1, <2>3, <2>5, TimerStepSignals DEF GoesOnAs
<1>2. CASE TimerUnlock \/ CheckDone
  <2>1. PICK t : Top.pc \in {"unlock", "scan"} /\ stack' = Append(Callers, Restore(t))
                 /\ UNCHANGED eventVars
    BY <1>2 DEF TimerUnlock, CheckDone
  <2>2. Restore(t).pc # "members"
    BY FrameParts DEF Restore
  <2> QED BY CheckSource, <2>1, <2>2, TimerStepSignals DEF IsMain
<1> QED BY <1>1, <1>2

\* CoreNotifySignalList goes on as f: what it has passed is queued.
LEMMA GroupGoesOnSignals ==
  ASSUME TypeOK, SignalInv, Top.pc \in {"group", "members"},
         NEW f, stack' = Append(Callers, f), f.pc = "members", f.ev = Top.ev,
         UNCHANGED <<life, gEventSignalQueue, SignalCount>>,
         \A x \in Event : Queued(x) => Queued(x)',
         \A k \in DOMAIN gEventSignalQueue :
           k < f.at /\ EventGroup(gEventSignalQueue[k]) = EventGroup(f.ev)
             => Queued(gEventSignalQueue[k])'
  PROVE  SignalInv'
<1>n. PICK n : n = Len(stack)
  OBVIOUS
<1>0. /\ n \in Nat /\ n >= 1 /\ DOMAIN stack = 1..n /\ Top = stack[n] /\ ~IsMain(Top)
      /\ \A i \in DOMAIN stack : stack[i].pc = "members" => i = n
  BY <1>n, Running DEF Stacks, Top, IsMain, SignalInv, Members
<1>1. /\ Len(stack') = n /\ DOMAIN stack' = 1..n /\ stack'[n] = f
      /\ \A i \in 1..(n - 1) : stack'[i] = stack[i]
  <2>1. Over(stack', {f}) /\ Len(stack') = n /\ stack'[n] = f
    BY <1>n, <1>0, OverGoto
  <2> QED BY <1>n, <2>1 DEF Over
<1>3. Members'
  <2> SUFFICES ASSUME NEW i \in DOMAIN stack', stack'[i].pc = "members"
               PROVE  /\ i = Len(stack')
                      /\ \A k \in DOMAIN gEventSignalQueue :
                           k < stack'[i].at
                           /\ EventGroup(gEventSignalQueue[k]) = EventGroup(stack'[i].ev)
                             => Queued(gEventSignalQueue[k])'
    BY DEF Members
  <2>0. i \in 1..n /\ (i = n \/ i \in 1..(n - 1))
    BY <1>0, <1>1
  <2>1. i = n
    <3> SUFFICES ASSUME i \in 1..(n - 1) PROVE FALSE
      BY <2>0
    <3>1. i \in DOMAIN stack /\ i # n
      BY <1>0
    <3> QED BY <1>0, <1>1, <3>1
  <2> QED BY <1>1, <2>1
<1>4. ASSUME NEW i \in DOMAIN stack, stack[i].pc \in {"group", "members"}
      PROVE  /\ i \in DOMAIN stack' /\ stack'[i].ev = stack[i].ev
             /\ stack'[i].pc \in {"group", "members"}
  <2>0. i \in DOMAIN stack' /\ (i = n \/ i \in 1..(n - 1))
    BY <1>0, <1>1
  <2>1. CASE i = n
    BY <1>0, <1>1, <2>0, <2>1
  <2>2. CASE i \in 1..(n - 1)
    BY <1>1, <1>4, <2>0, <2>2
  <2> QED BY <2>0, <2>1, <2>2
<1>5. NoLostSignal'
  <2> SUFFICES ASSUME NEW e \in Event, IsSignal(e), life[e] = "live", SignalCount[e] # 0
               PROVE  Queued(e)' \/ \E i \in DOMAIN stack' :
                                      stack'[i].ev = e /\ stack'[i].pc \in {"group", "members"}
    BY DEF NoLostSignal
  <2>1. Queued(e) \/ \E i \in DOMAIN stack :
                       stack[i].ev = e /\ stack[i].pc \in {"group", "members"}
    BY DEF SignalInv, NoLostSignal
  <2> QED BY <1>4, <2>1
<1>6. SignalList' /\ Unsignalled'
  BY DEF SignalInv, SignalList, Unsignalled
<1> QED BY <1>3, <1>5, <1>6 DEF SignalInv

LEMMA GroupLockSignals ==
  ASSUME TypeOK, SignalInv, GroupLock PROVE SignalInv'
<1> DEFINE f == Now("members", Top.ev, 1)
<1>1. /\ Top.pc = "group" /\ stack' = Append(Callers, f)
      /\ UNCHANGED <<life, gEventSignalQueue, SignalCount, gEventQueue>>
  BY DEF GroupLock, eventVars, queueVars
<1>2. f.pc = "members" /\ f.ev = Top.ev /\ f.at = 1
  BY NowFields
<1> HIDE DEF f
<1>3. \A k \in DOMAIN gEventSignalQueue : ~(k < f.at)
  BY <1>2, QueueTypes
<1> QED BY <1>1, <1>2, <1>3, StillQueued, GroupGoesOnSignals

LEMMA GroupMemberSignals ==
  ASSUME TypeOK, LifeInv, SignalInv, GroupMember PROVE SignalInv'
<1> DEFINE f == Now("members", Top.ev, Top.at + 1)
<1>q. PICK q, m : q = gEventSignalQueue /\ m = gEventSignalQueue[Top.at]
  OBVIOUS
<1>1. /\ Top.pc = "members" /\ Top.at <= Len(q) /\ stack' = Append(Callers, f)
      /\ IF EventGroup(m) = EventGroup(Top.ev) THEN CoreNotifyEvent(m) ELSE UNCHANGED gEventQueue
      /\ UNCHANGED <<life, gEventSignalQueue, SignalCount>>
  BY <1>q DEF GroupMember
<1>2. f.pc = "members" /\ f.ev = Top.ev /\ f.at = Top.at + 1
  BY NowFields
<1>3. Top.at \in Int /\ Top.at >= 1 /\ Top.at \in DOMAIN q /\ q \in Seq(SignalEvents)
  BY <1>q, <1>1, Running, QueueTypes DEF Frames, FrameOK, FrameType
<1>4. m \in Event /\ IsSignal(m)
  BY <1>q, <1>3 DEF SignalEvents
<1>5. Len(stack) \in DOMAIN stack /\ Top = stack[Len(stack)]
  BY Running DEF Stacks, Top
<1> HIDE DEF f
<1>6. \A x : Queued(x) => Queued(x)'
  BY <1>1, <1>4, LifeQueues, NotifyQueued, StillQueued
<1>7. EventGroup(m) = EventGroup(Top.ev) => Queued(m)'
  BY <1>1, <1>4, LifeQueues, NotifyQueued
<1>8. ASSUME NEW k \in DOMAIN q, k < f.at, EventGroup(q[k]) = EventGroup(f.ev) PROVE Queued(q[k])'
  <2>0. k \in Int
    BY <1>3
  <2>1. CASE k = Top.at
    BY <1>q, <1>2, <1>7, <1>8, <2>1
  <2>2. CASE k < Top.at
    <3>1. Queued(q[k])
      BY <1>q, <1>1, <1>2, <1>5, <1>8, <2>2 DEF SignalInv, Members
    <3> QED BY <1>6, <3>1
  <2> QED BY <1>2, <1>3, <1>8, <2>0, <2>1, <2>2
<1>9. ASSUME NEW k \in DOMAIN gEventSignalQueue,
             k < f.at /\ EventGroup(gEventSignalQueue[k]) = EventGroup(f.ev)
      PROVE  Queued(gEventSignalQueue[k])'
  <2>1. Queued(q[k])' /\ q' = gEventSignalQueue'
    BY <1>q, <1>1, <1>8, <1>9
  <2> QED BY <2>1 DEF Queued
<1> QED BY <1>1, <1>2, <1>6, <1>9, GroupGoesOnSignals
\* The whole group has been notified, the signalled event with it.
LEMMA GroupUnlockSignals ==
  ASSUME TypeOK, SignalInv, GroupUnlock PROVE SignalInv'
<1> DEFINE e == Top.ev
           f == Now("relock", Top.ev, 0)
           g == Restore(Top.tpl)
<1>1. /\ Top.pc = "members" /\ Top.at > Len(gEventSignalQueue)
      /\ stack' = Callers \o <<f, g>>
      /\ UNCHANGED <<life, gEventSignalQueue, SignalCount, gEventQueue>>
  BY DEF GroupUnlock, eventVars, queueVars
<1>2. f.pc = "relock" /\ g.pc = "restore"
  BY NowFields, FrameParts DEF Restore
<1> HIDE DEF f, g
<1>n. PICK n : n = Len(stack)
  OBVIOUS
<1>0. /\ n \in Nat /\ n >= 1 /\ DOMAIN stack = 1..n /\ Top = stack[n] /\ Top.at \in Int
      /\ \A i \in DOMAIN stack : stack[i].pc = "members" => i = n
  BY <1>n, Running DEF Stacks, Top, Frames, FrameType, SignalInv, Members
<1>3. /\ DOMAIN stack' = 1..(n + 1) /\ stack'[n] = f /\ stack'[n + 1] = g
      /\ \A i \in 1..(n - 1) : stack'[i] = stack[i]
  <2>1. f \in {f, g} /\ g \in {f, g} /\ ~IsMain(Top)
    BY <1>1 DEF IsMain
  <2>2. /\ Over(stack', {f, g}) /\ Len(stack') = Len(stack) + 1
        /\ stack'[Len(stack)] = f /\ stack'[Len(stack) + 1] = g
    BY <1>1, <2>1, OverCall, Zenon
  <2> QED BY <1>n, <2>2 DEF Over
<1>4. ASSUME NEW i \in DOMAIN stack' PROVE stack'[i].pc # "members"
  <2>0. i \in 1..(n - 1) \/ i = n \/ i = n + 1
    BY <1>0, <1>3
  <2>1. CASE i \in 1..(n - 1)
    <3>1. i \in DOMAIN stack /\ i # n
      BY <1>0, <2>1
    <3> QED BY <1>0, <1>3, <2>1, <3>1
  <2> QED BY <1>2, <1>3, <2>0, <2>1
<1>5. Members'
  BY <1>4 DEF Members
<1>6. ASSUME NEW x \in Event, IsSignal(x), life[x] = "live", x = e PROVE Queued(x)
  <2>1. PICK k \in DOMAIN gEventSignalQueue : gEventSignalQueue[k] = x
    BY <1>6 DEF SignalInv, SignalList, Contains
  <2>2. k < Top.at
    BY <1>0, <1>1, <2>1, QueueTypes
  <2>3. EventGroup(gEventSignalQueue[k]) = EventGroup(stack[n].ev)
    BY <1>0, <1>6, <2>1
  <2> QED BY <1>0, <1>1, <2>1, <2>2, <2>3 DEF SignalInv, Members
<1>7. NoLostSignal'
  <2> SUFFICES ASSUME NEW x \in Event, IsSignal(x), life[x] = "live", SignalCount[x] # 0
               PROVE  Queued(x) \/ \E i \in DOMAIN stack' :
                                      stack'[i].ev = x /\ stack'[i].pc \in {"group", "members"}
    BY <1>1 DEF NoLostSignal, Queued
  <2>1. CASE Queued(x)
    BY <2>1
  <2>2. CASE \E i \in DOMAIN stack : stack[i].ev = x /\ stack[i].pc \in {"group", "members"}
    <3>1. PICK i \in DOMAIN stack : stack[i].ev = x /\ stack[i].pc \in {"group", "members"}
      BY <2>2
    <3>2. CASE i = n
      BY <1>0, <1>6, <3>1, <3>2
    <3>3. CASE i # n
      <4>1. i \in 1..(n - 1)
        BY <1>0, <3>3
      <4>2. i \in DOMAIN stack' /\ stack'[i] = stack[i]
        BY <1>0, <1>3, <4>1
      <4> QED BY <3>1, <4>2
    <3> QED BY <3>2, <3>3
  <2> QED BY <2>1, <2>2 DEF SignalInv, NoLostSignal
<1>8. SignalList' /\ Unsignalled'
  BY <1>1 DEF SignalInv, SignalList, Unsignalled
<1> QED BY <1>5, <1>7, <1>8 DEF SignalInv

\* CoreCloseEvent touches only the signals of its own event.
LEMMA CloseSignals ==
  ASSUME TypeOK, LifeInv, SignalInv, (\E e \in Client : CloseEvent(e)) \/ CloseUnlink \/ CloseFree
  PROVE  SignalInv'
<1>0. life \in [Event -> {"none", "live", "closing", "freed"}] /\ Len(stack) \in DOMAIN stack
      /\ Top = stack[Len(stack)] /\ Top \in Frames
  BY Running DEF TypeOK, ServiceType, Stacks, Top
<1>1. CASE \E e \in Client : CloseEvent(e)
  <2>1. PICK e \in Client : CloseEvent(e)
    BY <1>1
  <2>2. /\ ClientRuns /\ life' = [life EXCEPT ![e] = "closing"] /\ e \in Event
        /\ UNCHANGED <<gEventQueue, SignalCount, gEventSignalQueue>>
    BY <2>1 DEF CloseEvent, queueVars, Invokes, Event
  <2>3. \A x \in Event : life'[x] = IF x = e THEN "closing" ELSE life[x]
    BY <1>0, <2>2
  <2>4. SignalStays
    BY <2>2, <2>3, StillQueued DEF SignalStays
  <2> DEFINE f == Frame("close", gEfiCurrentTpl, e, 0)
             g == Frame("SetTimer", gEfiCurrentTpl, e, -1)
  <2>5. (IsTimer(e) => Over(stack', {f, g})) /\ (~IsTimer(e) => Over(stack', {f}))
    BY <2>1, CloseEventFrames
  <2>6. f.pc = "close" /\ g.pc = "SetTimer"
    BY FrameParts
  <2> HIDE DEF f, g
  <2>7. CASE IsTimer(e)
    BY <2>2, <2>4, <2>5, <2>6, <2>7, SignalsStep DEF ClientRuns
  <2>8. CASE ~IsTimer(e)
    BY <2>2, <2>4, <2>5, <2>6, <2>8, SignalsStep DEF ClientRuns
  <2> QED BY <2>7, <2>8
<1>2. CASE CloseUnlink
  <2> DEFINE f == Now("free", Top.ev, 0)
             g == Restore(Top.tpl)
  <2>1. PICK e : e = Top.ev
    OBVIOUS
  <2>2. /\ Top.pc = "close" /\ stack' = Callers \o <<f, g>> /\ ~IsMain(Top)
        /\ gEventSignalQueue' = RemoveEntry(gEventSignalQueue, e)
        /\ UNCHANGED <<life, SignalCount>>
    BY <1>2, <2>1 DEF CloseUnlink, IsMain
  <2>3. f.pc = "free" /\ g.pc = "restore"
    BY NowFields, FrameParts DEF Restore
  <2> HIDE DEF f, g
  <2>4. Over(stack', {f, g})
    <3>1. f \in {f, g} /\ g \in {f, g}
      OBVIOUS
    <3> QED BY <2>2, <3>1, OverCall, Zenon
  <2>5. life[e] = "closing"
    BY <1>0, <2>1, <2>2 DEF LifeInv, Closing, ClosingAt
  <2>6. \A y : Contains(gEventSignalQueue, y) /\ y # e => Contains(gEventSignalQueue', y)
    BY <2>2, QueueTypes, RemoveEntryIs
  <2>7. \A x : Queued(x) /\ x # e => Queued(x)'
    BY <1>2, <2>1, LifeQueues, UnlinkQueued
  <2>8. SignalStays
    BY <2>2, <2>5, <2>6, <2>7 DEF SignalStays
  <2> QED BY <2>2, <2>3, <2>4, <2>8, SignalsStep
<1>3. CASE CloseFree
  <2>1. PICK e : e = Top.ev
    OBVIOUS
  <2>2. /\ Top.pc = "free" /\ stack' = Callers /\ ~IsMain(Top)
        /\ life' = [life EXCEPT ![e] = "freed"]
        /\ UNCHANGED <<gEventQueue, SignalCount, gEventSignalQueue>>
    BY <1>3, <2>1 DEF CloseFree, IsMain, queueVars
  <2>3. Over(stack', {})
    BY <2>2, OverReturn
  <2>4. \A x \in Event : life'[x] = IF x = e THEN "freed" ELSE life[x]
    BY <1>0, <2>2
  <2>5. SignalStays
    BY <2>2, <2>4, StillQueued DEF SignalStays
  <2> QED BY <2>2, <2>3, <2>5, SignalsStep
<1> QED BY <1>1, <1>2, <1>3

\* SetTimer and WaitForEvent start with a frame of their own.
LEMMA CallSignals ==
  ASSUME TypeOK, SignalInv, (\E e \in Client : SetTimer(e)) \/ \E list \in WaitLists : WaitForEvent(list)
  PROVE  SignalInv'
<1>1. ClientRuns /\ UNCHANGED eventVars
  BY Zenon DEF SetTimer, WaitForEvent, Invokes
<1>2. \E pc \in {"SetTimer", "SetPeriodic", "wait"} : \E t, e, n : stack' = Append(stack, Frame(pc, t, e, n))
  BY DEF SetTimer, WaitForEvent
<1>3. PICK f : stack' = Append(stack, f) /\ f.pc # "members"
  BY <1>2, FrameParts
<1>4. Over(stack', {f})
  BY <1>3, OverPush
<1>5. SignalStays
  <2>1. UNCHANGED <<life, gEventSignalQueue, gEventQueue, SignalCount>>
    BY <1>1 DEF eventVars, queueVars
  <2> QED BY <2>1, SameSignals, StillQueued
<1> QED BY <1>1, <1>3, <1>4, <1>5, SignalsStep DEF ClientRuns

LEMMA InitSignals == Init => SignalInv
<1> SUFFICES ASSUME Init PROVE SignalInv
  OBVIOUS
<1>1. /\ gEventSignalQueue = <<IdleLoop, CheckTimer>> /\ SignalCount = [e \in Event |-> 0]
      /\ life = [e \in Event |-> IF e \in Client THEN "none" ELSE "live"]
      /\ stack = <<Frame("run", TPL_APPLICATION, NoEvent, 0)>>
  BY DEF Init
<1> HIDE DEF Init
<1>2. NoLostSignal /\ Unsignalled
  BY <1>1 DEF NoLostSignal, Unsignalled
<1>3. SignalList
  BY <1>1 DEF SignalList, Contains, Event
<1>4. DOMAIN stack = {1} /\ stack[1].pc = "run"
  BY <1>1, FrameParts
<1> QED BY <1>2, <1>3, <1>4 DEF SignalInv, Members

LEMMA NextSignals ==
  ASSUME TypeOK, TypeOK', StackInv, LifeInv, SignalInv, [Next]_vars PROVE SignalInv'
<1>1. CASE GroupLock \/ GroupMember \/ GroupUnlock \/ TimerInterrupt
  BY <1>1, GroupLockSignals, GroupMemberSignals, GroupUnlockSignals, TimerInterruptSignals
<1>2. CASE IdleAction
  BY <1>1, <1>2, IdleActionSignals
<1>3. CASE CloseUnlink \/ CloseFree \/ \E e \in Client : CloseEvent(e)
  BY <1>3, CloseSignals
<1>4. CASE OfTimerStep \/ TimerUnlock \/ CheckDone
  BY <1>4, TimerSignals
<1>5. CASE (\E e \in Client : SetTimer(e)) \/ \E list \in WaitLists : WaitForEvent(list)
  BY <1>5, CallSignals
<1>6. CASE UNCHANGED vars
  <2>1. UNCHANGED <<stack, gEventQueue, gEventSignalQueue, life, SignalCount>>
    BY <1>6 DEF vars, tplVars, eventVars, queueVars
  <2> QED BY <2>1 DEF SignalInv, NoLostSignal, SignalList, Unsignalled, Members, Queued
<1>7. \/ GroupLock \/ GroupMember \/ GroupUnlock \/ TimerInterrupt
      \/ IdleAction
      \/ CloseUnlink \/ CloseFree \/ (\E e \in Client : CloseEvent(e))
      \/ OfTimerStep \/ TimerUnlock \/ CheckDone
      \/ (\E e \in Client : SetTimer(e)) \/ (\E list \in WaitLists : WaitForEvent(list))
      \/ UNCHANGED vars
  BY Zenon DEF Next, FrameStep, ServiceStep, ClientCall, IdleAction, OfTimerStep
<1> QED BY <1>1, <1>2, <1>3, <1>4, <1>5, <1>6, <1>7

(* A signal is never lost: a signalled EVT_NOTIFY_SIGNAL event is queued,   *)
(* or the SignalEvent that notifies its group is still at work, whichever   *)
(* groups, levels and interrupts meet (Event.c:189-191,301-323,550-568).    *)
THEOREM SignalsCorrect ==
  ASSUME ~Reload PROVE Spec => []NoLostSignal
<1> DEFINE IInv == TypeOK /\ StackInv /\ TimerInv /\ LifeInv /\ SignalInv
<1>1. Init => IInv
  BY InitType, InitInv, InitTimers, InitLife, InitSignals
<1>2. IInv /\ [Next]_vars => IInv'
  BY NextType, NextInv, NextTimers, NextLife, NextSignals
<1>3. IInv => NoLostSignal
  BY DEF SignalInv
<1> QED BY <1>1, <1>2, <1>3, PTL DEF Spec

-----------------------------------------------------------------------------
(* The event whose NotifyFunction CoreDispatchEventNotifies calls.  It is   *)
(* no longer queued, so only the level protects it.                         *)

\* The call frame i was interrupted only by driver code of higher levels, and
\* its event is not freed before it is called.
CallAt(i) ==
  LET e == stack[i].ev
  IN  /\ life[e] \in {"live", "closing"}
      /\ \A j \in DOMAIN stack : j > i /\ DriverCode(stack[j]) => stack[i].tpl < stack[j].tpl
      /\ \A j \in DOMAIN stack : stack[j].pc \in {"close", "free"} /\ stack[j].ev = e =>
           j < i /\ stack[j].pc = "close"

CallInv == \A i \in DOMAIN stack : stack[i].pc = "call" => CallAt(i)

\* Nobody is about to call e's notification function.
Uncalled(e) ==
  Top.pc # "dispatch" /\ \A i \in DOMAIN stack : ~(stack[i].pc = "call" /\ stack[i].ev = e)

LEMMA CallsStep ==
  ASSUME TypeOK, TypeOK', StackInv, LifeInv, CallInv, NEW N, Over(stack', N),
         \A x \in Event : life[x] \in {"live", "closing"} =>
           life'[x] \in {"live", "closing"} \/ Uncalled(x),
         \A f \in N : f.pc = "call" => Top.pc = "dispatch" /\ Queued(f.ev),
         \A f \in N : f.pc \in {"close", "free"} => Uncalled(f.ev),
         \A f \in N : DriverCode(f) => Top.pc \in {"call", "run", "section"} /\ Top.tpl <= f.tpl,
         Top.pc = "call" /\ Len(stack) \in DOMAIN stack' /\ stack'[Len(stack)] = Top =>
           \A f \in N : ~DriverCode(f)
  PROVE  CallInv'
<1>n. PICK n : n = Len(stack)
  OBVIOUS
<1>0. /\ n \in Nat /\ n >= 1 /\ DOMAIN stack = 1..n /\ Top = stack[n]
      /\ \A i \in DOMAIN stack : stack[i] \in Frames
      /\ DOMAIN stack' \subseteq Nat
      /\ \A i \in DOMAIN stack' : stack'[i] \in Frames
  BY <1>n, Running DEF Stacks, Top, TypeOK, ServiceType
<1>1. \A i \in DOMAIN stack' : 
            (i \in DOMAIN stack /\ stack'[i] = stack[i]) \/ (i >= n /\ stack'[i] \in N)
  BY <1>n, <1>0 DEF Over
<1> SUFFICES ASSUME NEW i \in DOMAIN stack', stack'[i].pc = "call" PROVE CallAt(i)'
  BY DEF CallInv
<1>2. PICK e : e = stack'[i].ev
  OBVIOUS
<1>3. e \in Event /\ stack'[i].tpl \in 0..TPL_HIGH_LEVEL
  BY <1>0, <1>2 DEF Frames, FrameOK, FrameType
<1>4. CASE i \in DOMAIN stack /\ stack'[i] = stack[i]
  <2>1. /\ life[e] \in {"live", "closing"} /\ ~Uncalled(e)
        /\ \A j \in DOMAIN stack : j > i /\ DriverCode(stack[j]) => stack[i].tpl < stack[j].tpl
        /\ \A j \in DOMAIN stack : stack[j].pc \in {"close", "free"} /\ stack[j].ev = e =>
             j < i /\ stack[j].pc = "close"
    BY <1>2, <1>4 DEF CallInv, CallAt, Uncalled
  <2>2. life'[e] \in {"live", "closing"}
    BY <1>3, <2>1
  <2>3. ASSUME NEW j \in DOMAIN stack', j > i, DriverCode(stack'[j])
        PROVE  stack'[i].tpl < stack'[j].tpl
    <3>1. CASE j \in DOMAIN stack /\ stack'[j] = stack[j]
      BY <1>4, <2>1, <2>3, <3>1
    <3>2. CASE stack'[j] \in N
      <4>1. Top.pc \in {"call", "run", "section"} /\ Top.tpl <= stack'[j].tpl
        BY <2>3, <3>2
      <4>2. i # n
        BY <1>n, <1>0, <1>4, <2>3, <3>2, <4>1 DEF DriverCode
      <4>3. stack[i].tpl < Top.tpl
        <5>1. i < n /\ n \in DOMAIN stack
          BY <1>0, <1>4, <4>2
        <5>2. CASE Top.pc = "call"
          BY <1>0, <1>4, <5>1, <5>2 DEF StackInv, StackOK, Base, LockHolder
        <5> QED BY <1>0, <2>1, <4>1, <5>1, <5>2 DEF DriverCode
      <4>4. /\ stack[i].tpl \in 0..TPL_HIGH_LEVEL /\ Top.tpl \in 0..TPL_HIGH_LEVEL
            /\ stack'[j].tpl \in 0..TPL_HIGH_LEVEL
        BY <1>0, <1>4, Running DEF Frames, FrameType
      <4>5. stack'[i].tpl = stack[i].tpl
        BY <1>4
      <4> QED BY ONLY <4>1, <4>3, <4>4, <4>5 DEF TPL_HIGH_LEVEL
    <3> QED BY <1>1, <3>1, <3>2
  <2>4. ASSUME NEW j \in DOMAIN stack', stack'[j].pc \in {"close", "free"}, stack'[j].ev = e
        PROVE  j < i /\ stack'[j].pc = "close"
    BY <1>1, <2>1, <2>4
  <2> QED BY <1>2, <2>2, <2>3, <2>4 DEF CallAt
<1>5. CASE i >= n /\ stack'[i] \in N
  <2>1. Top.pc = "dispatch" /\ Queued(e)
    BY <1>2, <1>5
  <2>2. life[e] \in {"live", "closing"} /\ life'[e] \in {"live", "closing"}
    <3>1. life[e] \in {"none", "live", "closing", "freed"}
      BY <1>3 DEF TypeOK, ServiceType
    <3>2. life[e] \in {"live", "closing"}
      BY <1>3, <2>1, <3>1 DEF LifeInv, QueueSound
    <3> QED BY <1>3, <2>1, <3>2 DEF Uncalled
  <2>3. ASSUME NEW j \in DOMAIN stack', j > i PROVE ~DriverCode(stack'[j])
    <3>1. ~(j \in DOMAIN stack)
      BY <1>0, <1>5, <2>3
    <3>2. stack'[j] \in N
      BY <1>1, <3>1
    <3> QED BY <2>1, <3>2
  <2>4. ASSUME NEW j \in DOMAIN stack', stack'[j].pc \in {"close", "free"}, stack'[j].ev = e
        PROVE  j < i /\ stack'[j].pc = "close"
    <3>1. j \in DOMAIN stack /\ stack'[j] = stack[j]
      BY <1>1, <2>1, <2>4 DEF Uncalled
    <3>2. j # n /\ j < i
      BY <1>0, <1>5, <2>1, <2>4, <3>1
    <3>3. stack[j].pc # "free"
      BY <2>1, <2>4, <3>1 DEF LifeInv, Closing, ClosingAt, Unlinked
    <3> QED BY <2>4, <3>1, <3>2, <3>3
  <2> QED BY <1>2, <2>2, <2>3, <2>4 DEF CallAt
<1> QED BY <1>1, <1>4, <1>5

\* Frames that neither call a notification function nor close an event.
Calm(f) == f.pc \notin {"call", "close", "free", "run", "section"}

LEMMA CalmStep ==
  ASSUME TypeOK, TypeOK', StackInv, LifeInv, CallInv, NEW N, Over(stack', N), \A f \in N : Calm(f),
         \A x \in Event : life[x] \in {"live", "closing"} =>
           life'[x] \in {"live", "closing"} \/ Uncalled(x)
  PROVE  CallInv'
BY CallsStep DEF Calm, DriverCode

\* Only DispatchCall and an interrupt find a call frame on top.
LEMMA CallOnTop ==
  ASSUME IdleAction, Top.pc = "call" PROVE DispatchCall \/ TimerInterrupt
<1>1. ~(RestoreLoop \/ RestorePick \/ RestoreLower \/ DispatchPop \/ DispatchDone)
  BY DEF RestoreLoop, RestorePick, RestoreLower, DispatchPop, DispatchDone
<1>2. ~(\/ RestoreTPL \/ Return \/ GroupLock \/ GroupMember \/ GroupUnlock \/ SignalRelock
        \/ PollSignalled \/ PollNotReady \/ WaitCheck \/ WaitIdle \/ InterruptReturn)
  BY DEF RestoreTPL, Return, GroupLock, GroupMember, GroupUnlock, SignalRelock, PollSignalled,
         PollNotReady, WaitCheck, WaitIdle, InterruptReturn
<1>3. ~(RaiseTPL \/ \E e \in Client : CreateEvent(e) \/ SignalEvent(e) \/ CheckEvent(e))
  BY DEF RaiseTPL, CreateEvent, SignalEvent, CheckEvent, Invokes, ClientRuns
<1> QED BY <1>1, <1>2, <1>3, Zenon DEF IdleAction, TplStep

LEMMA IdleActionCalled ==
  ASSUME TypeOK, TypeOK', StackInv, LifeInv, CallInv, IdleAction, UNCHANGED mEfiTimerList
  PROVE  CallInv'
<1>1. \A x \in Event : life[x] \in {"live", "closing"} => life'[x] \in {"live", "closing"}
  BY IdleLists DEF QueuesGrow
<1>2. CASE Top.pc # "call"
  <2> DEFINE N == {f \in Frames : Mild(f)}
  <2>1. Over(stack', N)
    BY IdleActionStep DEF IdleStep
  <2>2. /\ \A f \in N : f.pc = "call" => Top.pc = "dispatch" /\ Queued(f.ev)
        /\ \A f \in N : f.pc \notin {"close", "free"}
        /\ \A f \in N : DriverCode(f) => Top.pc \in {"call", "run", "section"} /\ Top.tpl <= f.tpl
    BY DEF Mild, Fresh
  <2> HIDE DEF N
  <2> QED BY <1>1, <1>2, <2>1, <2>2, CallsStep
<1>3. CASE Top.pc = "call" /\ TimerInterrupt
  <2> DEFINE N == {Frame("iret", gEfiCurrentTpl, NoEvent, 0), Restore(gEfiCurrentTpl),
                   Frame("group", gEfiCurrentTpl, CheckTimer, 0)}
  <2>1. Over(stack', N)
    BY <1>3, TimerInterruptOver
  <2>2. \A f \in N : Calm(f)
    BY FrameParts DEF Restore, Calm
  <2> HIDE DEF N
  <2> QED BY <1>1, <2>1, <2>2, CalmStep
<1>4. CASE Top.pc = "call" /\ DispatchCall
  <2> DEFINE f == Now("dispatch", NoEvent, 0)
             g == Frame(IF Top.ev = CheckTimer THEN "check" ELSE "run", Top.tpl, Top.ev, 0)
  <2>1. stack' = Callers \o <<f, g>> /\ ~IsMain(Top)
    BY <1>4 DEF DispatchCall, IsMain
  <2>2. f.pc = "dispatch" /\ g.pc \in {"check", "run"} /\ g.tpl = Top.tpl
    BY NowFields, FrameParts
  <2> HIDE DEF f, g
  <2>3. Over(stack', {f, g}) /\ stack'[Len(stack)] = f
    <3>1. f \in {f, g} /\ g \in {f, g}
      OBVIOUS
    <3> QED BY <2>1, <3>1, OverCall, Zenon
  <2>4. Top.tpl <= g.tpl
    BY <2>2, Running, LevelOrder
  <2>5. stack'[Len(stack)] # Top
    BY <1>4, <2>2, <2>3
  <2> QED BY <1>1, <1>4, <2>2, <2>3, <2>4, <2>5, CallsStep DEF DriverCode
<1> QED BY <1>2, <1>3, <1>4, CallOnTop

LEMMA TimerCalled ==
  ASSUME TypeOK, TypeOK', StackInv, LifeInv, CallInv, OfTimerStep \/ TimerUnlock \/ CheckDone
  PROVE  CallInv'
<1>1. CASE OfTimerStep
  <2>1. /\ Top.pc \in LockHolder \cup {"SetTimer", "SetPeriodic", "check"}
        /\ \E pc, ev, n, e : /\ pc \in LockHolder /\ e \in Event /\ Source(e)
                             /\ GoesOnAs(pc, ev, n, e)
    BY <1>1, TimerGoesOn
  <2>2. PICK pc, ev, n, e : pc \in LockHolder /\ GoesOnAs(pc, ev, n, e)
    BY <2>1
  <2>3. PICK f : f = Now(pc, ev, n)
    OBVIOUS
  <2>4. ~IsMain(Top)
    BY <2>1 DEF LockHolder, IsMain
  <2> DEFINE N == {f, Restore(TPL_TIMER), Frame("group", TPL_TIMER, e, 0)}
  <2>5. Over(stack', N) /\ UNCHANGED life
    <3>1. CASE stack' = Append(Callers, f) /\ UNCHANGED eventVars
      BY <2>4, <3>1, OverGoto DEF eventVars
    <3>2. CASE CoreSignalEvent(e, TPL_TIMER, Append(Callers, f))
      <4>1. UNCHANGED life
        BY <3>2 DEF CoreSignalEvent
      <4> QED BY <2>4, <3>2, <4>1, OverSignalGoto
    <3> QED BY <2>2, <2>3, <3>1, <3>2 DEF GoesOnAs
  <2>6. \A g \in N : Calm(g)
    <3>1. f.pc = pc /\ Restore(TPL_TIMER).pc = "restore" /\ Frame("group", TPL_TIMER, e, 0).pc = "group"
      BY <2>3, NowFields, FrameParts DEF Restore
    <3> QED BY <2>2, <3>1 DEF Calm, LockHolder
  <2> HIDE DEF N
  <2> QED BY <2>5, <2>6, CalmStep
<1>2. CASE TimerUnlock \/ CheckDone
  <2>1. PICK t : Top.pc \in {"unlock", "scan"} /\ stack' = Append(Callers, Restore(t))
                 /\ UNCHANGED life
    BY <1>2 DEF TimerUnlock, CheckDone, eventVars
  <2>2. Calm(Restore(t))
    BY FrameParts DEF Restore, Calm
  <2>3. Over(stack', {Restore(t)})
    BY <2>1, OverGoto DEF IsMain
  <2> QED BY <2>1, <2>2, <2>3, CalmStep
<1> QED BY <1>1, <1>2

\* SetTimer and WaitForEvent start with a frame of their own.
LEMMA ServiceCalled ==
  ASSUME TypeOK, TypeOK', StackInv, LifeInv, CallInv,
         (\E e \in Client : SetTimer(e)) \/ \E list \in WaitLists : WaitForEvent(list)
  PROVE  CallInv'
<1>1. UNCHANGED life
  BY Zenon DEF SetTimer, WaitForEvent, eventVars
<1>2. \E pc \in {"SetTimer", "SetPeriodic", "wait"} : \E t, e, n : stack' = Append(stack, Frame(pc, t, e, n))
  BY DEF SetTimer, WaitForEvent
<1>3. PICK f : stack' = Append(stack, f) /\ Calm(f)
  BY <1>2, FrameParts DEF Calm
<1>4. Over(stack', {f})
  BY <1>3, OverPush
<1> QED BY <1>1, <1>3, <1>4, CalmStep

\* A notification function about to be called was interrupted below the level at
\* which polite client code may close its event.
LEMMA CloseEventCalled ==
  ASSUME Polite, TypeOK, TypeOK', StackInv, LifeInv, CallInv, NEW e \in Client, CloseEvent(e)
  PROVE  CallInv'
<1>n. PICK n : n = Len(stack)
  OBVIOUS
<1>1. /\ ClientRuns /\ life' = [life EXCEPT ![e] = "closing"] /\ e \in Event
      /\ IsSignal(e) \/ IsWait(e) => gEfiCurrentTpl <= NotifyTpl(e)
  BY DEF CloseEvent, Invokes, Event
<1>2. /\ n \in Nat /\ n \in DOMAIN stack /\ Top = stack[n] /\ DOMAIN stack = 1..n
      /\ gEfiCurrentTpl = Top.tpl /\ Top.tpl \in 0..TPL_HIGH_LEVEL
      /\ \A i \in DOMAIN stack : stack[i] \in Frames
  BY <1>n, <1>1, ClientAt, Running DEF ClientRuns, Stacks
<1>3. Uncalled(e)
  <2>1. Top.pc # "dispatch"
    BY <1>1 DEF ClientRuns
  <2>2. ASSUME NEW i \in DOMAIN stack, stack[i].pc = "call", stack[i].ev = e PROVE FALSE
    <3>1. stack[i].tpl < Top.tpl
      <4>1. i # n /\ n > i
        BY <1>1, <1>2, <2>2 DEF ClientRuns
      <4> QED BY <1>1, <1>2, <2>2, <4>1 DEF CallInv, CallAt, DriverCode, ClientRuns
    <3>2. NotifyTpl(e) = stack[i].tpl /\ stack[i].tpl \in Level
      BY <1>2, <2>2 DEF Frames, FrameOK
    <3>3. IsSignal(e) \/ IsWait(e)
      BY <3>2, EventAssumption DEF NotifyTpl, Level, Event, TPL_CALLBACK, TPL_NOTIFY, TPL_TIMER
    <3>4. Top.tpl <= stack[i].tpl
      BY <1>1, <1>2, <3>2, <3>3
    <3>5. Top.tpl \in Nat /\ stack[i].tpl \in Nat
      BY <1>2, <3>2 DEF Level, TPL_CALLBACK, TPL_NOTIFY, TPL_TIMER
    <3> QED BY <3>1, <3>4, <3>5
  <2> QED BY <2>1, <2>2 DEF Uncalled
<1> DEFINE f == Frame("close", gEfiCurrentTpl, e, 0)
           g == Frame("SetTimer", gEfiCurrentTpl, e, -1)
<1>4. (IsTimer(e) => Over(stack', {f, g})) /\ (~IsTimer(e) => Over(stack', {f}))
  BY CloseEventFrames
<1>5. f.pc = "close" /\ f.ev = e /\ g.pc = "SetTimer"
  BY FrameParts
<1> HIDE DEF f, g
<1>6. \A x \in Event : life[x] \in {"live", "closing"} => life'[x] \in {"live", "closing"}
  BY <1>1 DEF TypeOK, ServiceType
<1>7. Top.pc # "call"
  BY <1>1 DEF ClientRuns
<1>8. CASE IsTimer(e)
  BY <1>3, <1>4, <1>5, <1>6, <1>7, <1>8, CallsStep DEF DriverCode
<1>9. CASE ~IsTimer(e)
  BY <1>3, <1>4, <1>5, <1>6, <1>7, <1>9, CallsStep DEF DriverCode
<1> QED BY <1>8, <1>9

LEMMA CloseStepCalled ==
  ASSUME TypeOK, TypeOK', StackInv, LifeInv, CallInv, CloseUnlink \/ CloseFree
  PROVE  CallInv'
<1>n. PICK n, e : n = Len(stack) /\ e = Top.ev
  OBVIOUS
<1>1. /\ Top.pc \in {"close", "free"} /\ ~IsMain(Top)
      /\ life' = life \/ life' = [life EXCEPT ![e] = "freed"]
      /\ stack' = Callers \/ (UNCHANGED life /\ stack' = Callers \o <<Now("free", Top.ev, 0), Restore(Top.tpl)>>)
  BY <1>n DEF CloseUnlink, CloseFree, IsMain
<1>2. n \in Nat /\ DOMAIN stack = 1..n /\ n \in DOMAIN stack /\ Top = stack[n]
  BY <1>n, Running DEF Stacks, Top
<1>3. Uncalled(e)
  <2>1. ASSUME NEW i \in DOMAIN stack, stack[i].pc = "call", stack[i].ev = e PROVE FALSE
    <3>1. n < i
      BY <1>n, <1>1, <1>2, <2>1 DEF CallInv, CallAt
    <3> QED BY <1>2, <3>1
  <2> QED BY <1>1, <2>1 DEF Uncalled
<1>4. \A x \in Event : life[x] \in {"live", "closing"} => life'[x] \in {"live", "closing"} \/ Uncalled(x)
  <2>1. \A x \in Event : x # e => life'[x] = life[x]
    BY <1>1 DEF TypeOK, ServiceType
  <2> QED BY <1>3, <2>1
<1>5. CASE stack' = Callers
  <2>1. Over(stack', {})
    BY <1>1, <1>5, OverReturn
  <2> QED BY <1>4, <2>1, CalmStep
<1>6. CASE stack' = Callers \o <<Now("free", Top.ev, 0), Restore(Top.tpl)>>
  <2> DEFINE f == Now("free", Top.ev, 0)
             g == Restore(Top.tpl)
  <2>1. f.pc = "free" /\ f.ev = e /\ g.pc = "restore"
    BY <1>n, NowFields, FrameParts DEF Restore
  <2>2. stack' = Callers \o <<f, g>>
    BY <1>6
  <2> HIDE DEF f, g
  <2>3. Over(stack', {f, g})
    <3>1. f \in {f, g} /\ g \in {f, g}
      OBVIOUS
    <3> QED BY <1>1, <2>2, <3>1, OverCall, Zenon
  <2> QED BY <1>1, <1>3, <1>4, <2>1, <2>3, CallsStep DEF DriverCode
<1> QED BY <1>1, <1>5, <1>6

LEMMA InitCalled == Init => CallInv
<1> SUFFICES ASSUME Init PROVE CallInv
  OBVIOUS
<1>1. stack = <<Frame("run", TPL_APPLICATION, NoEvent, 0)>>
  BY DEF Init
<1>2. DOMAIN stack = {1} /\ stack[1].pc = "run"
  BY <1>1, FrameParts
<1> QED BY <1>2 DEF CallInv

LEMMA NextCalled ==
  ASSUME Polite, TypeOK, TypeOK', StackInv, LifeInv, CallInv, [Next]_vars PROVE CallInv'
<1>1. CASE IdleAction /\ UNCHANGED mEfiTimerList
  BY <1>1, IdleActionCalled
<1>2. CASE CloseUnlink \/ CloseFree
  BY <1>2, CloseStepCalled
<1>3. CASE \E e \in Client : CloseEvent(e)
  BY <1>3, CloseEventCalled
<1>4. CASE OfTimerStep \/ TimerUnlock \/ CheckDone
  BY <1>4, TimerCalled
<1>5. CASE (\E e \in Client : SetTimer(e)) \/ \E list \in WaitLists : WaitForEvent(list)
  BY <1>5, ServiceCalled
<1>6. CASE UNCHANGED vars
  <2>1. UNCHANGED <<stack, life>>
    BY <1>6 DEF vars, tplVars, eventVars
  <2> QED BY <2>1 DEF CallInv, CallAt
<1>7. UNCHANGED timerVars => UNCHANGED mEfiTimerList
  BY DEF timerVars
<1>8. TimerInterrupt \/ InterruptReturn => UNCHANGED mEfiTimerList
  BY <1>7 DEF TimerInterrupt, InterruptReturn
<1>9. CASE InterruptReturn \/ TimerInterrupt
  BY <1>1, <1>8, <1>9 DEF IdleAction
<1>10. CASE ServiceStep /\ UNCHANGED timerVars
  BY <1>1, <1>2, <1>7, <1>10, Zenon DEF ServiceStep, IdleAction
<1>11. CASE ClientCall /\ UNCHANGED timerVars
  BY <1>1, <1>3, <1>5, <1>7, <1>11, Zenon DEF ClientCall, IdleAction
<1> QED BY <1>4, <1>5, <1>6, <1>9, <1>10, <1>11, Zenon DEF Next, FrameStep, OfTimerStep

(* The core does not touch a freed event: neither the functions in progress *)
(* nor the notification that CoreDispatchEventNotifies has popped and is    *)
(* about to call, as long as client code closes an event at or below its    *)
(* NotifyTpl (Event.c:180-199,562-563,715-775).                             *)
THEOREM AllocatedWhileUsed ==
  ASSUME ~Reload, Polite PROVE Spec => []NoUseAfterFree
<1> DEFINE IInv == TypeOK /\ StackInv /\ TimerInv /\ LifeInv /\ CallInv
<1>1. Init => IInv
  BY InitType, InitInv, InitTimers, InitLife, InitCalled
<1>2. IInv /\ [Next]_vars => IInv'
  BY NextType, NextInv, NextTimers, NextLife, NextCalled
<1>3. IInv => NoUseAfterFree
  BY DEF NoUseAfterFree, LifeInv, FramesAllocated, Uses, CallInv, CallAt
<1> QED BY <1>1, <1>2, <1>3, PTL DEF Spec

-----------------------------------------------------------------------------
(* The scheduler.  The contexts of a stack, frame by frame: a[i] are those  *)
(* among its first i frames.                                                *)

ContextStep(s, a, i) ==
  IF i = 0 THEN <<>>
  ELSE IF IsContext(s[i]) THEN Append(a[i-1], ContextOf(s[i])) ELSE a[i-1]

LEMMA ContextFunction ==
  ASSUME NEW s, NEW n \in Nat
  PROVE  \E f : f = [i \in 0..n |-> ContextStep(s, f, i)]
<1> DEFINE Good(k, g) == \A i \in 0..n : i <= k => g[i] = ContextStep(s, g, i)
           T == {k \in 0..n : ~ \E g : Good(k, g)}
<1>1. T = {}
  <2> SUFFICES ASSUME T # {} PROVE FALSE
    OBVIOUS
  <2>1. PICK k \in T : \A j \in T : k <= j
    <3>1. T \subseteq Nat
      OBVIOUS
    <3> HIDE DEF T
    <3> QED BY <3>1, LeastNat
  <2>2. Good(0, [i \in 0..n |-> <<>>])
    BY DEF ContextStep
  <2>3. k \in 0..n /\ k # 0
    BY <2>1, <2>2
  <2>4. k - 1 \in 0..n /\ k - 1 \notin T
    <3>1. k - 1 \in 0..n /\ ~(k <= k - 1)
      BY <2>3
    <3> HIDE DEF T
    <3> QED BY <2>1, <3>1
  <2>5. PICK g : Good(k - 1, g)
    BY <2>4
  <2> DEFINE h == [i \in 0..n |-> IF i = k THEN ContextStep(s, g, k) ELSE g[i]]
  <2>6. ASSUME NEW i \in 0..n, i <= k PROVE ContextStep(s, h, i) = ContextStep(s, g, i)
    <3>1. i # 0 => i - 1 \in 0..n /\ i - 1 # k
      BY <2>3, <2>6
    <3>2. i # 0 => h[i - 1] = g[i - 1]
      BY <3>1
    <3> HIDE DEF h
    <3> QED BY <3>2 DEF ContextStep
  <2>7. ASSUME NEW i \in 0..n, i <= k PROVE h[i] = ContextStep(s, h, i)
    <3>1. CASE i = k
      BY <2>6, <2>7, <3>1
    <3>2. CASE i # k
      <4>1. i <= k - 1
        BY <2>3, <2>7, <3>2
      <4>2. g[i] = ContextStep(s, g, i)
        BY <2>5, <4>1
      <4> QED BY <2>6, <2>7, <3>2, <4>2
    <3> QED BY <3>1, <3>2
  <2>8. Good(k, h)
    BY <2>7
  <2> HIDE DEF h, Good
  <2> QED BY <2>1, <2>8
<1>2. PICK g : Good(n, g)
  <2>1. n \in 0..n
    OBVIOUS
  <2> HIDE DEF Good
  <2> QED BY <1>1, <2>1
<1> DEFINE f == [i \in 0..n |-> g[i]]
<1>3. ASSUME NEW i \in 0..n PROVE g[i] = ContextStep(s, f, i)
  <2>1. g[i] = ContextStep(s, g, i)
    BY <1>2
  <2>2. i # 0 => f[i - 1] = g[i - 1]
    OBVIOUS
  <2> HIDE DEF f
  <2> QED BY <2>1, <2>2 DEF ContextStep
<1>4. f = [i \in 0..n |-> ContextStep(s, f, i)]
  BY <1>3
<1> QED BY <1>4

\* f goes through the first n frames of s.
Counts(s, n, f) == \A i \in 0..n : f[i] = ContextStep(s, f, i)

LEMMA ContextsCount ==
  ASSUME NEW s, Len(s) \in Nat
  PROVE  \E f : Contexts(s) = f[Len(s)] /\ Counts(s, Len(s), f)
<1> DEFINE f == CHOOSE f : f = [i \in 0..Len(s) |-> ContextStep(s, f, i)]
<1>1. f = [i \in 0..Len(s) |-> ContextStep(s, f, i)]
  BY ContextFunction
<1>2. Contexts(s) = f[Len(s)]
  BY DEF Contexts, ContextStep
<1>3. Counts(s, Len(s), f)
  BY <1>1 DEF Counts
<1> HIDE DEF f
<1> QED BY <1>2, <1>3

LEMMA CountsAgree ==
  ASSUME NEW s, NEW t, NEW n \in Nat, \A i \in 1..n : s[i] = t[i],
         NEW f, Counts(s, n, f), NEW g, Counts(t, n, g)
  PROVE  f[n] = g[n]
<1> DEFINE T == {k \in 0..n : f[k] # g[k]}
<1> SUFFICES ASSUME T # {} PROVE FALSE
  OBVIOUS
<1>1. PICK k \in T : \A j \in T : k <= j
  <2>1. T \subseteq Nat
    OBVIOUS
  <2> HIDE DEF T
  <2> QED BY <2>1, LeastNat
<1>2. k \in 0..n /\ f[k] = ContextStep(s, f, k) /\ g[k] = ContextStep(t, g, k) /\ f[k] # g[k]
  BY <1>1 DEF Counts
<1>3. k # 0
  BY <1>2 DEF ContextStep
<1>4. f[k - 1] = g[k - 1]
  <2>1. k - 1 \in 0..n /\ ~(k <= k - 1)
    BY <1>2, <1>3
  <2>2. k - 1 \notin T
    <3> HIDE DEF T
    <3> QED BY <1>1, <2>1
  <2> QED BY <2>1, <2>2
<1>5. s[k] = t[k]
  BY <1>2, <1>3
<1> QED BY <1>2, <1>3, <1>4, <1>5 DEF ContextStep

LEMMA NoContexts == Contexts(<<>>) = <<>>
<1>1. Len(<<>>) = 0
  OBVIOUS
<1>2. PICK f : Contexts(<<>>) = f[0] /\ Counts(<<>>, 0, f)
  BY <1>1, ContextsCount
<1> QED BY <1>2 DEF Counts, ContextStep

\* What a frame adds to the contexts of the stack below it.
LEMMA ContextsPush ==
  ASSUME NEW S, NEW s \in Seq(S), NEW x \in S
  PROVE  Contexts(Append(s, x)) = IF IsContext(x) THEN Append(Contexts(s), ContextOf(x)) ELSE Contexts(s)
<1> DEFINE t == Append(s, x)
           n == Len(s)
<1>1. n \in Nat /\ Len(t) = n + 1 /\ t[n + 1] = x /\ \A i \in 1..n : t[i] = s[i]
  OBVIOUS
<1>2. PICK f : Contexts(s) = f[n] /\ Counts(s, n, f)
  BY <1>1, ContextsCount
<1> HIDE DEF t
<1>3. PICK g : Contexts(t) = g[n + 1] /\ Counts(t, n + 1, g)
  BY <1>1, ContextsCount
<1> HIDE DEF n
<1>4. Counts(t, n, g)
  BY <1>1, <1>3 DEF Counts
<1>5. g[n] = f[n]
  BY <1>1, <1>2, <1>4, CountsAgree
<1>6. g[n + 1] = IF IsContext(x) THEN Append(g[n], ContextOf(x)) ELSE g[n]
  <2>1. n + 1 \in 0..(n + 1) /\ n + 1 # 0 /\ n + 1 - 1 = n
    BY <1>1
  <2>2. g[n + 1] = ContextStep(t, g, n + 1)
    BY <1>3, <2>1 DEF Counts
  <2> QED BY <1>1, <2>1, <2>2 DEF ContextStep
<1> QED BY <1>2, <1>3, <1>5, <1>6 DEF t

ContextPC == {"run", "section", "call", "check", "scan", "fire", "rearm", "reinsert"}

LEMMA ContextFrame ==
  ASSUME NEW f PROVE IsContext(f) <=> f.pc \in ContextPC
BY DEF IsContext, DriverCode, Notification, ContextPC

\* The running context is that of a frame, and no frame above it has one.
LEMMA LastContext ==
  ASSUME NEW s \in Stacks
  PROVE  /\ Contexts(s) \in Seq([event : Event \cup {NoEvent}, level : 0..TPL_HIGH_LEVEL])
         /\ Len(Contexts(s)) > 0
         /\ \E j \in 1..Len(s) : /\ IsContext(s[j])
                                /\ Contexts(s)[Len(Contexts(s))] = ContextOf(s[j])
<1> DEFINE R == [event : Event \cup {NoEvent}, level : 0..TPL_HIGH_LEVEL]
           n == Len(s)
<1>1. s \in Seq(Frames) /\ n \in Nat /\ n > 0 /\ IsMain(s[1])
  BY DEF Stacks
<1>2. PICK f : Contexts(s) = f[n] /\ Counts(s, n, f)
  BY <1>1, ContextsCount
<1>3. \A x \in Frames : IsContext(x) => ContextOf(x) \in R
  BY DEF Frames, FrameType, ContextOf, NotifiedEvent, Event
<1>4. IsContext(s[1])
  BY <1>1 DEF IsMain, IsContext, DriverCode
<1> DEFINE Good(i) == /\ f[i] \in Seq(R) /\ Len(f[i]) > 0
                      /\ \E j \in 1..i : IsContext(s[j]) /\ f[i][Len(f[i])] = ContextOf(s[j])
           T == {i \in 1..n : ~Good(i)}
<1>5. \A i \in 1..n : s[i] \in Frames
  BY <1>1
<1>6. ASSUME NEW i \in 1..n, NEW q \in Seq(R), f[i] = Append(q, ContextOf(s[i])), IsContext(s[i])
      PROVE  Good(i)
  <2>1. ContextOf(s[i]) \in R
    BY <1>3, <1>5, <1>6
  <2> HIDE DEF R
  <2>2. f[i] \in Seq(R) /\ Len(f[i]) > 0 /\ f[i][Len(f[i])] = ContextOf(s[i])
    BY <1>6, <2>1, AppendProperties
  <2>3. i \in 1..i
    BY <1>1
  <2> QED BY <1>6, <2>2, <2>3
<1>7. T = {}
  <2> SUFFICES ASSUME T # {} PROVE FALSE
    OBVIOUS
  <2>1. PICK i \in T : \A j \in T : i <= j
    <3>1. T \subseteq Nat
      OBVIOUS
    <3> HIDE DEF T
    <3> QED BY <3>1, LeastNat
  <2>2. i \in 1..n /\ ~Good(i) /\ i \in 0..n /\ i # 0
    BY <2>1
  <2>3. f[i] = IF IsContext(s[i]) THEN Append(f[i-1], ContextOf(s[i])) ELSE f[i-1]
    BY <1>2, <2>2 DEF Counts, ContextStep
  <2>4. CASE i = 1
    <3>1. f[0] = <<>>
      BY <1>1, <1>2 DEF Counts, ContextStep
    <3>2. f[i] = Append(<<>>, ContextOf(s[i])) /\ <<>> \in Seq(R) /\ IsContext(s[i])
      <4>1. <<>> \in Seq(R)
        BY EmptySeq
      <4>2. i - 1 = 0 /\ s[i] = s[1]
        BY <2>4
      <4> HIDE DEF R
      <4> QED BY <1>4, <2>3, <3>1, <4>1, <4>2
    <3> HIDE DEF Good
    <3> QED BY <1>6, <2>2, <3>2
  <2>5. CASE i # 1
    <3>1. i - 1 \in 1..n /\ ~(i <= i - 1) /\ 1..(i - 1) \subseteq 1..i
      BY <1>1, <2>2, <2>5
    <3>2. i - 1 \notin T
      <4> HIDE DEF T
      <4> QED BY <2>1, <3>1
    <3>3. Good(i - 1)
      BY <3>1, <3>2
    <3>4. CASE IsContext(s[i])
      <4>1. f[i] = Append(f[i-1], ContextOf(s[i])) /\ f[i-1] \in Seq(R)
        BY <2>3, <3>3, <3>4
      <4> HIDE DEF Good
      <4> QED BY <1>6, <2>2, <3>4, <4>1
    <3>5. CASE ~IsContext(s[i])
      <4>1. f[i] = f[i-1]
        BY <2>3, <3>5
      <4>2. Good(i)
        BY <3>1, <3>3, <4>1
      <4> HIDE DEF Good
      <4> QED BY <2>2, <4>2
    <3> QED BY <3>4, <3>5
  <2> QED BY <2>4, <2>5
<1>8. Good(n)
  <2>1. n \in 1..n
    BY <1>1
  <2>2. n \notin T
    <3> HIDE DEF T
    <3> QED BY <1>7
  <2> QED BY <2>1, <2>2
<1> QED BY <1>2, <1>8

LEMMA PushPlain ==
  ASSUME NEW A, NEW s \in Seq(A), NEW x, x.pc \notin ContextPC
  PROVE  Contexts(Append(s, x)) = Contexts(s)
<1>1. s \in Seq(A \cup {x})
  BY SeqOfMore
<1> QED BY <1>1, ContextsPush, ContextFrame

LEMMA PushTwoPlain ==
  ASSUME NEW A, NEW s \in Seq(A), NEW x, NEW y, y.pc \notin ContextPC
  PROVE  /\ s \o <<x, y>> = Append(Append(s, x), y)
         /\ Contexts(s \o <<x, y>>) = Contexts(Append(s, x))
<1> DEFINE B == A \cup {x, y}
<1>1. s \in Seq(B) /\ x \in B /\ y \in B
  BY SeqOfMore
<1> HIDE DEF B
<1>2. s \o <<x, y>> = Append(Append(s, x), y) /\ Append(s, x) \in Seq(B)
  BY <1>1, PushTwo, AppendProperties
<1>3. Contexts(Append(Append(s, x), y)) = Contexts(Append(s, x))
  BY <1>2, PushPlain
<1> QED BY <1>2, <1>3

\* The stack is its callers with the running frame.
LEMMA RunningLast ==
  ASSUME TypeOK, ~IsMain(Top)
  PROVE  /\ stack = Append(Callers, Top) /\ Callers \in Seq(Frames) /\ Callers \in Stacks
         /\ Contexts(stack) = IF IsContext(Top) THEN Append(Contexts(Callers), ContextOf(Top))
                                                ELSE Contexts(Callers)
<1>1. stack \in Seq(Frames) /\ stack # <<>> /\ Top \in Frames /\ Callers \in Stacks
  BY Running DEF Stacks
<1>2. Callers \in Seq(Frames)
  BY <1>1 DEF Stacks
<1>3. stack = Append(Callers, Top)
  <2>1. /\ Len(Callers) = Len(stack) - 1 /\ Len(stack) \in Nat
        /\ \A i \in 1..(Len(stack)-1) : Callers[i] = stack[i]
    BY <1>1, Running, Pop DEF Callers, Top
  <2> DEFINE a == Append(Callers, Top)
  <2>2. /\ a \in Seq(Frames) /\ Len(a) = Len(Callers) + 1 /\ a[Len(Callers) + 1] = Top
        /\ \A i \in 1..Len(Callers) : a[i] = Callers[i]
    BY <1>1, <1>2, AppendProperties
  <2> HIDE DEF a
  <2>3. Len(a) = Len(stack) /\ \A i \in 1..Len(stack) : a[i] = stack[i]
    BY <2>1, <2>2 DEF Top
  <2>4. a = stack
    BY <1>1, <2>2, <2>3, SeqEqual
  <2> QED BY <2>4 DEF a
<1>4. Contexts(Append(Callers, Top)) = IF IsContext(Top) THEN Append(Contexts(Callers), ContextOf(Top))
                                                        ELSE Contexts(Callers)
  BY <1>1, <1>2, ContextsPush
<1> QED BY <1>1, <1>2, <1>3, <1>4

\* The running function goes on as f without becoming another context.
LEMMA GoesOnAlike ==
  ASSUME TypeOK, ~IsMain(Top), NEW f,
         IF Top.pc \in ContextPC THEN f.pc \in ContextPC /\ ContextOf(f) = ContextOf(Top)
                                 ELSE f.pc \notin ContextPC
  PROVE  Contexts(Append(Callers, f)) = Contexts(stack)
<1>1. Callers \in Seq(Frames \cup {f})
  BY RunningLast, SeqOfMore
<1>2. Contexts(Append(Callers, f)) = IF IsContext(f) THEN Append(Contexts(Callers), ContextOf(f))
                                                    ELSE Contexts(Callers)
  BY <1>1, ContextsPush
<1> QED BY <1>2, RunningLast, ContextFrame

-----------------------------------------------------------------------------
(* What a step does to the scheduler.                                       *)

Keeps == \A x \in Event : Queued(x) => Queued(x)'

LEMMA SameKeeps ==
  ASSUME UNCHANGED gEventQueue
  PROVE  Keeps /\ \A x : Queued(x)' <=> Queued(x)
BY DEF Keeps, Queued

LEMMA Stays ==
  ASSUME Keeps, Contexts(stack') = Contexts(stack)
  PROVE  Scheduler!Next
<1> DEFINE S == {e \in Event : Queued(e)'}
<1>1. S \in SUBSET Event /\ {e \in Event : Queued(e)}' = {e \in Event : Queued(e)} \cup S
  BY DEF Keeps
<1>2. Scheduler!Signal
  BY <1>1 DEF Scheduler!Signal
<1> QED BY <1>2 DEF Scheduler!Next

\* The running context ends.
LEMMA Ends ==
  ASSUME TypeOK, ~IsMain(Top), Top.pc \in ContextPC, UNCHANGED gEventQueue,
         Contexts(stack') = Contexts(Callers)
  PROVE  Scheduler!Next
<1> DEFINE R == [event : Event \cup {NoEvent}, level : 0..TPL_HIGH_LEVEL]
<1>1. /\ Contexts(stack) = Append(Contexts(Callers), ContextOf(Top))
      /\ Contexts(stack) \in Seq(R) /\ Contexts(Callers) \in Seq(R) /\ Len(Contexts(Callers)) > 0
  BY RunningLast, Running, LastContext, ContextFrame
<1>2. ContextOf(Top) \in R
  BY Running, ContextFrame DEF ContextPC, Frames, FrameType, ContextOf, NotifiedEvent, Event
<1> HIDE DEF R
<1> DEFINE a == Contexts(stack)
           c == Contexts(Callers)
           x == ContextOf(Top)
<1>3. a = Append(c, x) /\ c \in Seq(R) /\ x \in R /\ Len(c) > 0
  BY <1>1, <1>2
<1> HIDE DEF a, c, x
<1>4. Len(a) > 1 /\ Front(a) = c
  <2>1. Len(a) = Len(c) + 1 /\ Len(c) \in Nat
    BY <1>3, AppendProperties
  <2>2. Front(Append(c, x)) = c
    BY <1>3, SubSeqProperties, AppendProperties DEF Front
  <2> QED BY <1>3, <2>1, <2>2
<1>5. {e \in Event : Queued(e)}' = {e \in Event : Queued(e)}
  BY SameKeeps
<1>6. Scheduler!End
  BY <1>4, <1>5 DEF Scheduler!End, Scheduler!Front, Front, a, c
<1> QED BY <1>6 DEF Scheduler!Next

\* CoreSignalEvent, called with the stack rest to return to.
LEMMA SignalKeeps ==
  ASSUME TypeOK, LifeInv, NEW e \in Event, NEW t, NEW A, NEW rest \in Seq(A), CoreSignalEvent(e, t, rest)
  PROVE  Keeps /\ Contexts(stack') = Contexts(rest)
<1>1. (IsSignal(e) /\ CoreNotifyEvent(e)) \/ UNCHANGED gEventQueue
  BY Zenon DEF CoreSignalEvent
<1>2. Keeps
  BY <1>1, LifeQueues, NotifyQueued, SameKeeps DEF Keeps
<1>3. \/ stack' = Append(rest, Restore(t))
      \/ stack' = rest \o <<Frame("group", t, e, 0), Restore(t)>>
  BY Zenon DEF CoreSignalEvent
<1>4. Restore(t).pc \notin ContextPC /\ Frame("group", t, e, 0).pc \notin ContextPC
  BY DEF Restore, Frame, ContextPC
<1>5. Contexts(Append(rest, Restore(t))) = Contexts(rest)
  BY <1>4, PushPlain
<1>6. Contexts(rest \o <<Frame("group", t, e, 0), Restore(t)>>) = Contexts(rest)
  BY <1>4, PushPlain, PushTwoPlain
<1> QED BY <1>2, <1>3, <1>5, <1>6

LEMMA CheckKeeps ==
  ASSUME TypeOK, LifeInv, NEW e \in Event, NEW t, NEW i, NEW A, NEW rest \in Seq(A),
         CoreCheckEvent(e, t, rest, i)
  PROVE  Keeps /\ Contexts(stack') = Contexts(rest)
<1>1. (IsWait(e) /\ CoreNotifyEvent(e)) \/ UNCHANGED gEventQueue
  BY Zenon DEF CoreCheckEvent
<1>2. Keeps
  BY <1>1, LifeQueues, NotifyQueued, SameKeeps DEF Keeps
<1>3. \/ stack' = Append(rest, Frame("poll", t, e, i))
      \/ stack' = rest \o <<Frame("poll", t, e, i), Restore(t)>>
  BY Zenon DEF CoreCheckEvent
<1>4. Restore(t).pc \notin ContextPC /\ Frame("poll", t, e, i).pc \notin ContextPC
  BY DEF Restore, Frame, ContextPC
<1>5. Contexts(Append(rest, Frame("poll", t, e, i))) = Contexts(rest)
  BY <1>4, PushPlain
<1>6. Contexts(rest \o <<Frame("poll", t, e, i), Restore(t)>>) = Contexts(rest)
  BY <1>4, PushPlain, PushTwoPlain
<1> QED BY <1>2, <1>3, <1>5, <1>6

\* The running function goes on as f and calls a function of the core, g.
LEMMA CallsPlain ==
  ASSUME TypeOK, ~IsMain(Top), NEW f, NEW g, f.pc \notin ContextPC, g.pc \notin ContextPC,
         Top.pc \notin ContextPC
  PROVE  Contexts(Callers \o <<f, g>>) = Contexts(stack)
<1>1. Contexts(Callers \o <<f, g>>) = Contexts(Append(Callers, f))
  BY RunningLast, PushTwoPlain
<1> QED BY <1>1, GoesOnAlike

-----------------------------------------------------------------------------
(* Steps inside the core that neither start nor end a context.              *)

LEMMA GoesStays ==
  ASSUME TypeOK, ~IsMain(Top), UNCHANGED gEventQueue, NEW f, stack' = Append(Callers, f),
         IF Top.pc \in ContextPC THEN f.pc \in ContextPC /\ ContextOf(f) = ContextOf(Top)
                                 ELSE f.pc \notin ContextPC
  PROVE  Scheduler!Next
<1>1. Contexts(stack') = Contexts(stack)
  BY GoesOnAlike
<1> QED BY <1>1, SameKeeps, Stays

LEMMA CallStays ==
  ASSUME TypeOK, ~IsMain(Top), UNCHANGED gEventQueue, NEW f, NEW g, stack' = Callers \o <<f, g>>,
         f.pc \notin ContextPC, g.pc \notin ContextPC, Top.pc \notin ContextPC
  PROVE  Scheduler!Next
<1>1. Contexts(stack') = Contexts(stack)
  BY CallsPlain
<1> QED BY <1>1, SameKeeps, Stays

LEMMA PopStays ==
  ASSUME TypeOK, ~IsMain(Top), UNCHANGED gEventQueue, stack' = Callers, Top.pc \notin ContextPC
  PROVE  Scheduler!Next
<1>1. Contexts(stack') = Contexts(stack)
  BY RunningLast, ContextFrame
<1> QED BY <1>1, SameKeeps, Stays

LEMMA PushStays ==
  ASSUME TypeOK, UNCHANGED gEventQueue, NEW x, x.pc \notin ContextPC, stack' = Append(stack, x)
  PROVE  Scheduler!Next
<1>1. stack \in Seq(Frames)
  BY Running DEF Stacks
<1>2. Contexts(stack') = Contexts(stack)
  BY <1>1, PushPlain
<1> QED BY <1>2, SameKeeps, Stays

LEMMA RestoreSched ==
  ASSUME TypeOK, RestoreLoop \/ RestorePick \/ RestoreLower PROVE Scheduler!Next
<1>1. ~IsMain(Top) /\ Top.pc \notin ContextPC
  BY DEF RestoreLoop, RestorePick, RestoreLower, IsMain, ContextPC
<1>2. UNCHANGED gEventQueue
  BY DEF RestoreLoop, RestorePick, RestoreLower, eventVars, queueVars
<1>3. CASE RestoreLoop
  <2>1. PICK f : stack' = Append(Callers, f) /\ f.pc \notin ContextPC
    BY <1>3 DEF RestoreLoop, Goto, Now, Frame, ContextPC
  <2> QED BY <1>1, <1>2, <2>1, GoesStays
<1>4. CASE RestorePick
  <2>1. \A e, n, t : /\ Now("restore", e, n).pc = "restore" /\ Now("halt", e, n).pc = "halt"
                     /\ Frame("dispatch", t, e, n).pc = "dispatch"
    BY DEF Now, Frame
  <2>2. \/ \E p : stack' = Callers \o <<Now("restore", Top.ev, 0), Frame("dispatch", p, NoEvent, 0)>>
        \/ stack' = Append(Callers, Now("halt", Top.ev, Top.at))
    BY <1>4 DEF RestorePick, Goto
  <2>3. ASSUME NEW p,
               stack' = Callers \o <<Now("restore", Top.ev, 0), Frame("dispatch", p, NoEvent, 0)>>
        PROVE  Scheduler!Next
    <3>1. /\ Now("restore", Top.ev, 0).pc \notin ContextPC
          /\ Frame("dispatch", p, NoEvent, 0).pc \notin ContextPC
      BY <2>1 DEF ContextPC
    <3> QED BY <1>1, <1>2, <2>3, <3>1, CallStays
  <2>4. ASSUME stack' = Append(Callers, Now("halt", Top.ev, Top.at))
        PROVE  Scheduler!Next
    <3>1. Now("halt", Top.ev, Top.at).pc \notin ContextPC
      BY <2>1 DEF ContextPC
    <3> QED BY <1>1, <1>2, <2>4, <3>1, GoesStays
  <2> QED BY <2>2, <2>3, <2>4
<1>5. CASE RestoreLower
  BY <1>1, <1>2, <1>5, PopStays DEF RestoreLower
<1> QED BY <1>3, <1>4, <1>5

\* Steps that go on to another frame of the core.
LEMMA CoreGoesSched ==
  ASSUME TypeOK, DispatchDone \/ GroupLock \/ SignalRelock \/ PollSignalled
  PROVE  Scheduler!Next
<1>1. ~IsMain(Top) /\ Top.pc \notin ContextPC
  BY DEF DispatchDone, GroupLock, SignalRelock, PollSignalled, IsMain, ContextPC
<1>2. UNCHANGED gEventQueue
  BY DEF DispatchDone, GroupLock, SignalRelock, PollSignalled, eventVars, queueVars
<1>3. PICK f : stack' = Append(Callers, f) /\ f.pc \notin ContextPC
  BY DEF DispatchDone, GroupLock, SignalRelock, PollSignalled, Now, Restore, Frame, ContextPC
<1> QED BY <1>1, <1>2, <1>3, GoesStays

LEMMA GroupUnlockSched ==
  ASSUME TypeOK, GroupUnlock PROVE Scheduler!Next
<1>1. ~IsMain(Top) /\ Top.pc \notin ContextPC /\ UNCHANGED gEventQueue
  BY DEF GroupUnlock, IsMain, ContextPC, eventVars, queueVars
<1>2. stack' = Callers \o <<Now("relock", Top.ev, 0), Restore(Top.tpl)>>
  BY DEF GroupUnlock
<1>3. Now("relock", Top.ev, 0).pc \notin ContextPC /\ Restore(Top.tpl).pc \notin ContextPC
  BY DEF Now, Restore, Frame, ContextPC
<1> QED BY <1>1, <1>2, <1>3, CallStays

LEMMA PollNotReadySched ==
  ASSUME TypeOK, PollNotReady PROVE Scheduler!Next
<1>1. ~IsMain(Top) /\ Top.pc \notin ContextPC /\ UNCHANGED gEventQueue
  BY DEF PollNotReady, IsMain, ContextPC, eventVars, queueVars
<1>2. stack' = Callers \/ stack' = Append(Callers, Now("wait", NoEvent, Top.at + 1))
  BY DEF PollNotReady
<1>3. Now("wait", NoEvent, Top.at + 1).pc \notin ContextPC
  BY DEF Now, Frame, ContextPC
<1> QED BY <1>1, <1>2, <1>3, PopStays, GoesStays

LEMMA CoreReturnsSched ==
  ASSUME TypeOK, CloseFree \/ InterruptReturn PROVE Scheduler!Next
<1>1. ~IsMain(Top) /\ Top.pc \notin ContextPC /\ UNCHANGED gEventQueue /\ stack' = Callers
  BY DEF CloseFree, InterruptReturn, IsMain, ContextPC, eventVars, queueVars
<1> QED BY <1>1, PopStays

LEMMA TimerGoesSched ==
  ASSUME TypeOK, TimerLock \/ TimerUnlink \/ TimerArm \/ TimerUnlock PROVE Scheduler!Next
<1>1. ~IsMain(Top) /\ Top.pc \notin ContextPC
  BY DEF TimerLock, TimerUnlink, TimerArm, TimerUnlock, IsMain, ContextPC
<1>2. UNCHANGED gEventQueue
  BY DEF TimerLock, TimerUnlink, TimerArm, TimerUnlock, eventVars, queueVars
<1>3. \E f : stack' = Append(Callers, f) /\ f.pc \notin ContextPC
  <2>1. \A e, n : /\ Now("unlinkOne", e, n).pc = "unlinkOne" /\ Now("arm", e, n).pc = "arm"
                  /\ Now("unlinkPeriodic", e, n).pc = "unlinkPeriodic"
                  /\ Now("insert", e, n).pc = "insert" /\ Now("unlock", e, n).pc = "unlock"
                  /\ Restore(n).pc = "restore"
    BY DEF Now, Restore, Frame
  <2>2. \/ \E pc \in {"unlinkOne", "unlinkPeriodic", "arm", "insert", "unlock"} : \E n :
             stack' = Append(Callers, Now(pc, Top.ev, n))
        \/ stack' = Append(Callers, Restore(Top.tpl))
    BY DEF TimerLock, TimerUnlink, TimerArm, TimerUnlock, Goto
  <2> QED BY <2>1, <2>2 DEF ContextPC
<1> QED BY <1>1, <1>2, <1>3, GoesStays

CheckPC == {"check", "scan", "fire", "rearm", "reinsert"}

\* CoreCheckTimers runs at TPL_TIMER as the notification of CheckTimer.
LEMMA CheckContext ==
  ASSUME TypeOK, Top.pc \in CheckPC
  PROVE  /\ ~IsMain(Top) /\ Top.pc \in ContextPC
         /\ ContextOf(Top) = [event |-> CheckTimer, level |-> Top.tpl]
         /\ \A pc \in CheckPC : \A e, n : /\ Now(pc, e, n).pc \in ContextPC
                                          /\ ContextOf(Now(pc, e, n)) = ContextOf(Top)
<1>1. \A pc \in CheckPC : pc \in ContextPC /\ pc \notin {"run", "call", "section"}
  BY DEF CheckPC, ContextPC
<1>2. ContextOf(Top) = [event |-> CheckTimer, level |-> Top.tpl]
  BY <1>1 DEF ContextOf, NotifiedEvent
<1>3. ASSUME NEW pc \in CheckPC, NEW e, NEW n
      PROVE  Now(pc, e, n).pc \in ContextPC /\ ContextOf(Now(pc, e, n)) = ContextOf(Top)
  <2>1. Now(pc, e, n).pc = pc /\ Now(pc, e, n).tpl = Top.tpl
    BY DEF Now, Frame
  <2> QED BY <1>1, <1>2, <2>1 DEF ContextOf, NotifiedEvent
<1> QED BY <1>1, <1>2, <1>3 DEF IsMain

LEMMA CheckGoesSched ==
  ASSUME TypeOK, CheckStart \/ CheckRemove \/ CheckReinsert PROVE Scheduler!Next
<1>1. Top.pc \in CheckPC /\ UNCHANGED gEventQueue
  BY DEF CheckStart, CheckRemove, CheckReinsert, CheckPC, eventVars, queueVars
<1>2. \E pc \in CheckPC : \E e, n : stack' = Append(Callers, Now(pc, e, n))
  BY DEF CheckStart, CheckRemove, CheckReinsert, NextScan, CheckPC
<1> QED BY <1>1, <1>2, CheckContext, GoesStays

LEMMA CheckDoneSched ==
  ASSUME TypeOK, CheckDone PROVE Scheduler!Next
<1>1. Top.pc \in CheckPC /\ UNCHANGED gEventQueue /\ stack' = Append(Callers, Restore(TPL_TIMER))
  BY DEF CheckDone, CheckPC, eventVars, queueVars
<1>2. ~IsMain(Top) /\ Top.pc \in ContextPC
  BY <1>1, CheckContext
<1>3. Contexts(stack') = Contexts(Callers)
  <2>1. Restore(TPL_TIMER).pc \notin ContextPC
    BY DEF Restore, Frame, ContextPC
  <2> QED BY <1>1, <1>2, <2>1, RunningLast, PushPlain
<1> QED BY <1>1, <1>2, <1>3, Ends

\* Driver code returns, or ends its raised section.
LEMMA DriverEndsSched ==
  ASSUME TypeOK, RestoreTPL \/ Return PROVE Scheduler!Next
<1>1. ~IsMain(Top) /\ Top.pc \in ContextPC /\ UNCHANGED gEventQueue
  BY DEF RestoreTPL, Return, IsMain, ContextPC, eventVars, queueVars
<1>2. stack' = Callers \/ stack' = Append(Callers, Restore(Top.at))
  BY DEF RestoreTPL, Return
<1>3. Restore(Top.at).pc \notin ContextPC
  BY DEF Restore, Frame, ContextPC
<1>4. Contexts(stack') = Contexts(Callers)
  BY <1>1, <1>2, <1>3, RunningLast, PushPlain
<1> QED BY <1>1, <1>4, Ends

\* The frame that was about to call the function becomes that function.
LEMMA DispatchCallSched ==
  ASSUME TypeOK, DispatchCall PROVE Scheduler!Next
<1> DEFINE pc == IF Top.ev = CheckTimer THEN "check" ELSE "run"
           f  == Now("dispatch", NoEvent, 0)
           g  == Frame(pc, Top.tpl, Top.ev, 0)
<1>1. ~IsMain(Top) /\ Top.pc = "call" /\ UNCHANGED gEventQueue /\ stack' = Callers \o <<f, g>>
  BY DEF DispatchCall, IsMain, eventVars, queueVars
<1>2. f.pc = "dispatch" /\ g.pc = pc /\ g.tpl = Top.tpl /\ g.ev = Top.ev
  BY DEF Now, Frame
<1>3. g.pc \in ContextPC /\ ContextOf(g) = ContextOf(Top) /\ f.pc \notin ContextPC /\ Top.pc \in ContextPC
  BY <1>1, <1>2 DEF ContextPC, ContextOf, NotifiedEvent
<1> HIDE DEF f, g
<1> DEFINE B == Frames \cup {f, g}
<1>4. Callers \in Seq(B) /\ f \in B /\ g \in B
  BY <1>1, RunningLast, SeqOfMore
<1> HIDE DEF B
<1>5. Append(Callers, f) \in Seq(B) /\ stack' = Append(Append(Callers, f), g)
  BY <1>1, <1>4, PushTwo, AppendProperties
<1>6. Contexts(Append(Callers, f)) = Contexts(Callers)
  BY <1>3, <1>4, PushPlain
<1>7. Contexts(stack') = Append(Contexts(Callers), ContextOf(g))
  BY <1>3, <1>4, <1>5, <1>6, ContextsPush, ContextFrame
<1>8. Contexts(stack') = Contexts(stack)
  BY <1>1, <1>3, <1>7, RunningLast, ContextFrame
<1> QED BY <1>1, <1>8, SameKeeps, Stays

-----------------------------------------------------------------------------
(* Services that driver code calls.                                         *)

LEMMA PlainCallsSched ==
  ASSUME TypeOK, NEW e \in Client, CreateEvent(e) \/ SetTimer(e) PROVE Scheduler!Next
<1>1. UNCHANGED gEventQueue
  BY DEF CreateEvent, SetTimer, eventVars, queueVars
<1>2. \E x : stack' = Append(stack, x) /\ x.pc \notin ContextPC
  <2>1. \A t, n : /\ Restore(t).pc = "restore" /\ Frame("SetTimer", t, e, n).pc = "SetTimer"
                  /\ Frame("SetPeriodic", t, e, n).pc = "SetPeriodic"
    BY DEF Restore, Frame
  <2>2. \/ stack' = Append(stack, Restore(gEfiCurrentTpl))
        \/ \E n : \E pc \in {"SetTimer", "SetPeriodic"} :
             stack' = Append(stack, Frame(pc, gEfiCurrentTpl, e, n))
    <3>1. CASE CreateEvent(e)
      BY <3>1 DEF CreateEvent
    <3>2. CASE SetTimer(e)
      <4>1. PICK d \in Delays, pc \in {"SetTimer", "SetPeriodic"} :
              stack' = Append(stack, Frame(pc, gEfiCurrentTpl, e, d))
        BY <3>2 DEF SetTimer
      <4> QED BY <4>1
    <3> QED BY <3>1, <3>2
  <2> QED BY <2>1, <2>2 DEF ContextPC
<1> QED BY <1>1, <1>2, PushStays

LEMMA WaitForEventSched ==
  ASSUME TypeOK, NEW list, WaitForEvent(list) PROVE Scheduler!Next
<1>1. UNCHANGED gEventQueue
  BY DEF WaitForEvent, eventVars, queueVars
<1>2. /\ stack' = Append(stack, Frame("wait", TPL_APPLICATION, NoEvent, 1))
      /\ Frame("wait", TPL_APPLICATION, NoEvent, 1).pc \notin ContextPC
  BY DEF WaitForEvent, Frame, ContextPC
<1> QED BY <1>1, <1>2, PushStays

LEMMA CloseEventSched ==
  ASSUME TypeOK, NEW e \in Client, CloseEvent(e) PROVE Scheduler!Next
<1> DEFINE f == Frame("close", gEfiCurrentTpl, e, 0)
           g == Frame("SetTimer", gEfiCurrentTpl, e, -1)
<1>1. UNCHANGED gEventQueue /\ stack \in Seq(Frames)
  BY Running DEF CloseEvent, queueVars, Stacks
<1>2. f.pc \notin ContextPC /\ g.pc \notin ContextPC
  BY DEF Frame, ContextPC
<1>3. stack' = stack \o <<f>> \o (IF IsTimer(e) THEN <<g>> ELSE <<>>)
  BY DEF CloseEvent
<1> HIDE DEF f, g
<1>4. stack' = stack \o <<f, g>> \/ stack' = Append(stack, f)
  <2> DEFINE B == Frames \cup {f, g}
  <2>1. stack \in Seq(B) /\ f \in B /\ g \in B
    BY <1>1, SeqOfMore
  <2> HIDE DEF B
  <2>2. stack \o <<f>> = Append(stack, f) /\ stack \o <<f>> \in Seq(B)
    BY <2>1
  <2>3. (stack \o <<f>>) \o <<g>> = Append(Append(stack, f), g)
    BY <2>1, <2>2
  <2>4. (stack \o <<f>>) \o <<>> = stack \o <<f>>
    <3> DEFINE t == stack \o <<f>>
    <3>1. t \in Seq(B)
      BY <2>2
    <3> HIDE DEF t
    <3>2. t \o <<>> = t
      BY <3>1
    <3> QED BY <3>2 DEF t
  <2>5. stack \o <<f, g>> = Append(Append(stack, f), g)
    BY <2>1, PushTwo
  <2> QED BY <1>3, <2>2, <2>3, <2>4, <2>5
<1>5. Contexts(Append(stack, f)) = Contexts(stack)
  BY <1>1, <1>2, PushPlain
<1>6. Contexts(stack \o <<f, g>>) = Contexts(Append(stack, f))
  BY <1>1, <1>2, PushTwoPlain
<1>7. Contexts(stack') = Contexts(stack)
  BY <1>4, <1>5, <1>6
<1> QED BY <1>1, <1>7, SameKeeps, Stays

-----------------------------------------------------------------------------
(* Steps that signal events.                                                *)

\* The running function goes on as f and signals e.
LEMMA SignalGoes ==
  ASSUME TypeOK, LifeInv, ~IsMain(Top), NEW e \in Event, NEW t, NEW f,
         CoreSignalEvent(e, t, Append(Callers, f)),
         IF Top.pc \in ContextPC THEN f.pc \in ContextPC /\ ContextOf(f) = ContextOf(Top)
                                 ELSE f.pc \notin ContextPC
  PROVE  Scheduler!Next
<1> DEFINE B == Frames \cup {f}
<1>1. Callers \in Seq(B) /\ f \in B
  BY RunningLast, SeqOfMore
<1> HIDE DEF B
<1>2. Append(Callers, f) \in Seq(B)
  BY <1>1, AppendProperties
<1>3. Keeps /\ Contexts(stack') = Contexts(Append(Callers, f))
  BY <1>2, SignalKeeps
<1>4. Contexts(Append(Callers, f)) = Contexts(stack)
  BY GoesOnAlike
<1> QED BY <1>3, <1>4, Stays

LEMMA ClientSignalsSched ==
  ASSUME TypeOK, LifeInv, NEW e \in Client, SignalEvent(e) \/ CheckEvent(e) PROVE Scheduler!Next
<1>1. e \in Event /\ stack \in Seq(Frames)
  BY Running DEF Event, Stacks
<1>2. CASE SignalEvent(e)
  <2>1. CoreSignalEvent(e, gEfiCurrentTpl, stack)
    BY <1>2 DEF SignalEvent
  <2> QED BY <1>1, <2>1, SignalKeeps, Stays
<1>3. CASE CheckEvent(e)
  <2>1. CoreCheckEvent(e, gEfiCurrentTpl, stack, 0)
    BY <1>3 DEF CheckEvent
  <2> QED BY <1>1, <2>1, CheckKeeps, Stays
<1> QED BY <1>2, <1>3

LEMMA WaitSched ==
  ASSUME TypeOK, LifeInv, WaitCheck \/ WaitIdle PROVE Scheduler!Next
<1>1. ~IsMain(Top) /\ Top.pc = "wait" /\ Top.pc \notin ContextPC
  BY DEF WaitCheck, WaitIdle, IsMain, ContextPC
<1>2. CASE WaitCheck
  <2>1. Callers \in Seq(Frames) /\ Contexts(stack) = Contexts(Callers)
    BY <1>1, RunningLast, ContextFrame
  <2>2. UserEvents[Top.at] \in Event
    <3>1. Top.at \in 1..Len(UserEvents) /\ UserEvents \in Seq(Client)
      BY <1>1, <1>2, Running DEF WaitCheck, MoreEvents, Frames, FrameOK, TypeOK, ClientType
    <3> QED BY <3>1 DEF Event
  <2>3. CoreCheckEvent(UserEvents[Top.at], Top.tpl, Callers, Top.at)
    BY <1>2 DEF WaitCheck
  <2>4. Keeps /\ Contexts(stack') = Contexts(Callers)
    BY <2>1, <2>2, <2>3, CheckKeeps
  <2> QED BY <2>1, <2>4, Stays
<1>3. CASE WaitIdle
  <2>1. CoreSignalEvent(IdleLoop, Top.tpl, Append(Callers, Now("wait", NoEvent, 1)))
    BY <1>3 DEF WaitIdle
  <2>2. IdleLoop \in Event /\ Now("wait", NoEvent, 1).pc \notin ContextPC
    BY DEF Event, Now, Frame, ContextPC
  <2> QED BY <1>1, <2>1, <2>2, SignalGoes
<1> QED BY <1>2, <1>3

LEMMA GroupMemberSched ==
  ASSUME TypeOK, LifeInv, GroupMember PROVE Scheduler!Next
<1> DEFINE f == Now("members", Top.ev, Top.at + 1)
           m == gEventSignalQueue[Top.at]
<1>1. ~IsMain(Top) /\ Top.pc = "members" /\ Top.pc \notin ContextPC /\ f.pc \notin ContextPC
  BY DEF GroupMember, IsMain, ContextPC, Now, Frame
<1>2. stack' = Append(Callers, f) /\ (CoreNotifyEvent(m) \/ UNCHANGED gEventQueue)
  BY DEF GroupMember
<1>3. m \in SignalEvents
  <2>1. Top.at >= 1 /\ Top.at \in Int /\ gEventSignalQueue \in Seq(SignalEvents)
    BY <1>1, Running DEF Frames, FrameOK, TypeOK, ServiceType
  <2>2. Top.at \in 1..Len(gEventSignalQueue)
    BY <2>1 DEF GroupMember
  <2> QED BY <2>1, <2>2
<1>4. m \in Event /\ IsSignal(m)
  BY <1>3 DEF SignalEvents
<1>5. Keeps
  <2>1. CASE CoreNotifyEvent(m)
    BY <1>4, <2>1, LifeQueues, NotifyQueued DEF Keeps
  <2> QED BY <1>2, <2>1, SameKeeps
<1>6. Contexts(stack') = Contexts(stack)
  <2> HIDE DEF f
  <2> QED BY <1>1, <1>2, GoesOnAlike
<1> QED BY <1>5, <1>6, Stays

LEMMA TimerSignalsSched ==
  ASSUME TypeOK, LifeInv, TimerInsert \/ CheckFire \/ CheckRearm PROVE Scheduler!Next
<1>1. CheckTimer \in Event
  BY DEF Event
<1>2. CASE TimerInsert
  <2> DEFINE f == Now("unlock", Top.ev, Top.at)
  <2>1. ~IsMain(Top) /\ Top.pc \notin ContextPC /\ f.pc \notin ContextPC
    BY <1>2 DEF TimerInsert, IsMain, ContextPC, Now, Frame
  <2>2. \/ CoreSignalEvent(CheckTimer, TPL_TIMER, Append(Callers, f))
        \/ stack' = Append(Callers, f) /\ UNCHANGED gEventQueue
    BY <1>2 DEF TimerInsert, Goto, eventVars, queueVars
  <2> HIDE DEF f
  <2> QED BY <1>1, <2>1, <2>2, SignalGoes, GoesStays
<1>3. CASE CheckFire
  <2>1. Top.pc \in CheckPC /\ Top.ev \in Event /\ "rearm" \in CheckPC
    BY <1>3, CheckFrames DEF CheckFire, CheckPC
  <2>2. CoreSignalEvent(Top.ev, TPL_TIMER, Append(Callers, Now("rearm", Top.ev, Top.at)))
    BY <1>3 DEF CheckFire
  <2> QED BY <2>1, <2>2, CheckContext, SignalGoes
<1>4. CASE CheckRearm
  <2>1. Top.pc \in CheckPC /\ "scan" \in CheckPC /\ "reinsert" \in CheckPC
    BY <1>4 DEF CheckRearm, CheckPC
  <2>2. \/ CoreSignalEvent(CheckTimer, TPL_TIMER, Append(Callers, Now("reinsert", Top.ev, Top.at)))
        \/ stack' = Append(Callers, Now("scan", CheckTimer, Top.at)) /\ UNCHANGED gEventQueue
    BY <1>4 DEF CheckRearm, NextScan, eventVars, queueVars
  <2> QED BY <1>1, <2>1, <2>2, CheckContext, SignalGoes, GoesStays
<1> QED BY <1>2, <1>3, <1>4

LEMMA TimerInterruptSched ==
  ASSUME TypeOK, LifeInv, TimerInterrupt PROVE Scheduler!Next
<1> DEFINE f == Frame("iret", gEfiCurrentTpl, NoEvent, 0)
           h == Append(stack, f)
<1>1. f.pc \notin ContextPC /\ Restore(gEfiCurrentTpl).pc \notin ContextPC /\ CheckTimer \in Event
  BY DEF Frame, Restore, ContextPC, Event
<1> DEFINE B == Frames \cup {f}
<1>2. /\ \/ CoreSignalEvent(CheckTimer, gEfiCurrentTpl, h)
         \/ stack' = Append(h, Restore(gEfiCurrentTpl)) /\ UNCHANGED gEventQueue
  BY DEF TimerInterrupt, eventVars, queueVars
<1> HIDE DEF f
<1>3. stack \in Seq(B) /\ f \in B
  BY Running, SeqOfMore DEF Stacks
<1> HIDE DEF B
<1>4. h \in Seq(B) /\ Contexts(h) = Contexts(stack)
  BY <1>1, <1>3, AppendProperties, PushPlain
<1> HIDE DEF h
<1>5. Keeps /\ Contexts(stack') = Contexts(h)
  <2>1. CASE CoreSignalEvent(CheckTimer, gEfiCurrentTpl, h)
    BY <1>1, <1>4, <2>1, SignalKeeps
  <2>2. CASE stack' = Append(h, Restore(gEfiCurrentTpl)) /\ UNCHANGED gEventQueue
    BY <1>1, <1>4, <2>2, PushPlain, SameKeeps
  <2> QED BY <1>2, <2>1, <2>2
<1> QED BY <1>4, <1>5, Stays

\* CoreCloseEvent takes the event's notification from the queue, if it is there.
LEMMA CloseUnlinkSched ==
  ASSUME TypeOK, LifeInv, CloseUnlink PROVE Scheduler!Next
<1> DEFINE f == Now("free", Top.ev, 0)
           g == Restore(Top.tpl)
<1>1. ~IsMain(Top) /\ Top.pc \notin ContextPC /\ stack' = Callers \o <<f, g>>
  BY DEF CloseUnlink, IsMain, ContextPC
<1>2. f.pc \notin ContextPC /\ g.pc \notin ContextPC
  BY DEF Now, Restore, Frame, ContextPC
<1> HIDE DEF f, g
<1>3. Contexts(stack') = Contexts(stack)
  BY <1>1, <1>2, CallsPlain
<1>c. PICK c : c = Top.ev
  OBVIOUS
<1>4. /\ \A t \in Level : ~Contains(gEventQueue'[t], c)
      /\ \A x : Queued(x)' => Queued(x)
      /\ \A x : Queued(x) /\ x # c => Queued(x)'
  BY <1>c, LifeQueues, UnlinkQueued
<1>5. ~Queued(c)'
  BY <1>4 DEF Queued
<1>6. CASE c \in {e \in Event : Queued(e)}
  <2>1. {e \in Event : Queued(e)}' = {e \in Event : Queued(e)} \ {c}
    BY <1>4, <1>5
  <2>2. Scheduler!Cancel
    BY <1>3, <1>6, <2>1 DEF Scheduler!Cancel
  <2> QED BY <2>2 DEF Scheduler!Next
<1>7. CASE c \notin {e \in Event : Queued(e)}
  <2>1. Keeps
    BY <1>4, <1>7 DEF Keeps
  <2> QED BY <1>3, <2>1, Stays
<1> QED BY <1>6, <1>7

-----------------------------------------------------------------------------
(* Steps that start a context.                                              *)

\* A notification starts at a level above that of every active context.
LEMMA ActiveBelow ==
  ASSUME TypeOK, StackInv, Top.pc = "dispatch"
  PROVE  Scheduler!Level < Top.tpl
<1> DEFINE n == Len(stack)
<1>1. stack \in Stacks /\ StackOK(stack) /\ Top = stack[n] /\ n \in Nat
  BY Running DEF StackInv, Top, Stacks
<1>2. PICK j \in 1..n : /\ IsContext(stack[j])
                        /\ Contexts(stack)[Len(Contexts(stack))] = ContextOf(stack[j])
  BY <1>1, LastContext
<1>3. j # n
  BY <1>1, <1>2, ContextFrame DEF ContextPC
<1>4. Base(stack[j]) < Top.tpl
  <2>1. j \in DOMAIN stack /\ n \in DOMAIN stack /\ j < n
    BY <1>1, <1>2, <1>3 DEF Stacks
  <2> HIDE DEF n
  <2> QED BY <1>1, <2>1 DEF StackOK
<1>5. Base(stack[j]) = stack[j].tpl
  <2>1. stack[j] \in Frames
    BY <1>1 DEF Stacks
  <2>2. stack[j].pc \in LockHolder => stack[j].pc \in {"scan", "fire", "rearm", "reinsert"}
    BY <1>2, ContextFrame DEF ContextPC, LockHolder
  <2> QED BY <2>1, <2>2 DEF Base, Frames, FrameOK
<1>6. Scheduler!Level = stack[j].tpl
  BY <1>2 DEF Scheduler!Level, Scheduler!Last, Last, ContextOf
<1> QED BY <1>4, <1>5, <1>6

LEMMA DispatchPopSched ==
  ASSUME TypeOK, StackInv, LifeInv, DispatchPop PROVE Scheduler!Next
<1> DEFINE n == Top.tpl
           q == gEventQueue[n]
           f == Now("call", Head(q), 0)
           g == Restore(n)
<1>1. /\ Top.pc = "dispatch" /\ Top.pc \notin ContextPC /\ ~IsMain(Top)
      /\ n \in Level /\ q # <<>> /\ q \in Seq(NotifiedAt(n)) /\ IsInjective(q)
  BY Running, QueueTypes, LifeQueues
     DEF DispatchPop, Frames, FrameOK, IsMain, ContextPC, QueuesInjective
<1>2. Head(q) \in Event /\ NotifyTpl(Head(q)) = n /\ Contains(q, Head(q))
  <2>1. Head(q) \in NotifiedAt(n) /\ Contains(q, Head(q))
    BY <1>1 DEF Contains
  <2> QED BY <2>1 DEF NotifiedAt
<1>3. Queued(Head(q))
  BY <1>1, <1>2 DEF Queued
<1>4. ~Contains(Tail(q), Head(q))
  BY <1>1 DEF Contains, IsInjective
<1>c. PICK c : c = Head(q)
  OBVIOUS
<1>5. ~Queued(c)'
  <2>1. \A t \in Level : gEventQueue'[t] = IF t = n THEN Tail(q) ELSE gEventQueue[t]
    BY <1>1, QueueTypes DEF DispatchPop
  <2>2. ASSUME NEW t \in Level, t # n PROVE ~Contains(gEventQueue[t], c)
    <3> SUFFICES ASSUME NEW i \in 1..Len(gEventQueue[t]), gEventQueue[t][i] = c PROVE FALSE
      BY DEF Contains
    <3>1. gEventQueue[t] \in Seq(NotifiedAt(t))
      BY QueueTypes
    <3>2. gEventQueue[t][i] \in NotifiedAt(t)
      BY <3>1
    <3> QED BY <1>2, <1>c, <2>2, <3>2 DEF NotifiedAt
  <2>3. \A t \in Level : ~Contains(gEventQueue'[t], c)
    BY <1>4, <1>c, <2>1, <2>2
  <2> QED BY <2>3 DEF Queued
<1>6. {e \in Event : Queued(e)}' = {e \in Event : Queued(e)} \ {c}
  BY <1>c, <1>5, LifeQueues, PopQueued
<1>7. stack' = Callers \o <<f, g>>
  BY DEF DispatchPop
<1>8. /\ f.pc \in ContextPC /\ g.pc \notin ContextPC
      /\ ContextOf(f) = [event |-> c, level |-> n]
  BY <1>c DEF Now, Restore, Frame, ContextPC, ContextOf, NotifiedEvent
<1> HIDE DEF f, g
<1>9. Contexts(stack') = Append(Contexts(stack), ContextOf(f))
  <2>1. Callers \in Seq(Frames \cup {f}) /\ Callers \in Seq(Frames)
    BY <1>1, RunningLast, SeqOfMore
  <2>2. Contexts(stack') = Contexts(Append(Callers, f))
    BY <1>7, <1>8, <2>1, PushTwoPlain
  <2>3. Contexts(Append(Callers, f)) = Append(Contexts(Callers), ContextOf(f))
    BY <1>8, <2>1, ContextsPush, ContextFrame
  <2> QED BY <1>1, <2>2, <2>3, RunningLast, ContextFrame
<1>10. Scheduler!Start
  <2>1. Scheduler!Level < NotifyTpl(c)
    BY <1>1, <1>2, <1>c, ActiveBelow
  <2>2. c \in {e \in Event : Queued(e)}
    BY <1>2, <1>3, <1>c
  <2>3. Contexts(stack') = Append(Contexts(stack), [event |-> c, level |-> NotifyTpl(c)])
    BY <1>2, <1>c, <1>8, <1>9
  <2> QED BY <1>6, <2>1, <2>2, <2>3, Zenon DEF Scheduler!Start, Scheduler!Context
<1> QED BY <1>10 DEF Scheduler!Next

\* The running driver code is the running context.
LEMMA ActiveRuns ==
  ASSUME TypeOK, StackInv, Top.pc \in {"run", "section"}
  PROVE  Scheduler!Level = Top.tpl
<1> DEFINE n == Len(stack)
<1>1. stack \in Stacks /\ StackOK(stack) /\ Top = stack[n] /\ n \in Nat /\ n > 0
  BY Running DEF StackInv, Top, Stacks
<1>2. IsContext(Top)
  BY ContextFrame DEF ContextPC
<1>3. Contexts(stack)[Len(Contexts(stack))] = ContextOf(Top)
  <2>1. CASE IsMain(Top)
    <3>1. n = 1
      <4>1. \A i \in 2..n : ~IsMain(stack[i])
        BY <1>1 DEF StackOK
      <4> HIDE DEF n
      <4> QED BY <1>1, <2>1, <4>1
    <3>2. \E j \in 1..n : Contexts(stack)[Len(Contexts(stack))] = ContextOf(stack[j])
      BY <1>1, LastContext
    <3> QED BY <1>1, <3>1, <3>2
  <2>2. CASE ~IsMain(Top)
    <3> DEFINE R == [event : Event \cup {NoEvent}, level : 0..TPL_HIGH_LEVEL]
               c == Contexts(Callers)
               x == ContextOf(Top)
    <3>1. Contexts(stack) = Append(c, x) /\ c \in Seq(R)
      BY <1>2, <2>2, RunningLast, LastContext
    <3> HIDE DEF R, c, x
    <3>2. c \in Seq(R \cup {x})
      BY <3>1, SeqOfMore
    <3>3. Append(c, x)[Len(Append(c, x))] = x
      BY <3>2, AppendProperties
    <3> QED BY <3>1, <3>3 DEF x
  <2> QED BY <2>1, <2>2
<1> QED BY <1>3 DEF Scheduler!Level, Scheduler!Last, Last, ContextOf

LEMMA RaiseTPLSched ==
  ASSUME TypeOK, StackInv, RaiseTPL PROVE Scheduler!Next
<1>1. Top.pc \in {"run", "section"} /\ UNCHANGED gEventQueue
  BY DEF RaiseTPL, Invokes, ClientRuns, eventVars, queueVars
<1>2. gEfiCurrentTpl = Top.tpl /\ Scheduler!Level = Top.tpl /\ Top.tpl \in 0..TPL_HIGH_LEVEL
  BY <1>1, ClientAt, ActiveRuns
<1>3. PICK t \in {TPL_CALLBACK, TPL_NOTIFY, TPL_HIGH_LEVEL} :
        t >= gEfiCurrentTpl /\ stack' = Append(stack, Frame("section", t, NoEvent, gEfiCurrentTpl))
  BY DEF RaiseTPL
<1> DEFINE f == Frame("section", t, NoEvent, gEfiCurrentTpl)
<1>4. f.pc \in ContextPC /\ ContextOf(f) = [event |-> NoEvent, level |-> t]
  BY DEF Frame, ContextPC, ContextOf, NotifiedEvent
<1>5. stack' = Append(stack, f)
  BY <1>3
<1> HIDE DEF f
<1>6. Contexts(stack') = Append(Contexts(stack), ContextOf(f))
  <2>1. stack \in Seq(Frames \cup {f})
    BY Running, SeqOfMore DEF Stacks
  <2> QED BY <1>4, <1>5, <2>1, ContextsPush, ContextFrame
<1>7. t \in Scheduler!Level..TPL_HIGH_LEVEL
  BY <1>2, <1>3 DEF TPL_CALLBACK, TPL_NOTIFY, TPL_HIGH_LEVEL
<1>8. {e \in Event : Queued(e)}' = {e \in Event : Queued(e)}
  BY <1>1, SameKeeps
<1>9. Scheduler!Raise
  BY <1>4, <1>6, <1>7, <1>8, Zenon DEF Scheduler!Raise, Scheduler!Context
<1> QED BY <1>9 DEF Scheduler!Next

LEMMA InitSched == Init => Scheduler!Init
<1> SUFFICES ASSUME Init PROVE Scheduler!Init
  OBVIOUS
<1> DEFINE f == Frame("run", TPL_APPLICATION, NoEvent, 0)
<1>1. stack = <<f>> /\ gEventQueue = [t \in Level |-> <<>>]
  BY DEF Init
<1>2. \A e : ~Queued(e)
  BY <1>1 DEF Queued, Contains
<1>3. f.pc \in ContextPC /\ ContextOf(f) = [event |-> NoEvent, level |-> TPL_APPLICATION]
  BY DEF Frame, ContextPC, ContextOf, NotifiedEvent
<1> HIDE DEF f
<1>4. Contexts(stack) = <<[event |-> NoEvent, level |-> TPL_APPLICATION]>>
  <2>1. <<>> \in Seq({f}) /\ stack = Append(<<>>, f)
    BY <1>1
  <2>2. Contexts(stack) = Append(Contexts(<<>>), ContextOf(f))
    BY <1>3, <2>1, ContextsPush, ContextFrame
  <2>3. Contexts(stack) = Append(<<>>, ContextOf(f))
    BY <2>2, NoContexts
  <2>4. \A x : Append(<<>>, x) = <<x>>
    OBVIOUS
  <2> QED BY <1>3, <2>3, <2>4, Zenon
<1> QED BY <1>2, <1>4 DEF Scheduler!Init, Scheduler!Context

LEMMA TplStepSched ==
  ASSUME TypeOK, StackInv, LifeInv, TplStep PROVE Scheduler!Next
BY RestoreSched, CoreGoesSched, DispatchPopSched, DispatchCallSched, Zenon DEF TplStep

LEMMA ServiceStepSched ==
  ASSUME TypeOK, StackInv, LifeInv, ServiceStep PROVE Scheduler!Next
BY TplStepSched, DriverEndsSched, CoreGoesSched, GroupMemberSched, GroupUnlockSched,
   PollNotReadySched, WaitSched, CloseUnlinkSched, CoreReturnsSched, Zenon DEF ServiceStep

LEMMA FrameStepSched ==
  ASSUME TypeOK, StackInv, LifeInv, FrameStep PROVE Scheduler!Next
BY ServiceStepSched, TimerGoesSched, TimerSignalsSched, CheckGoesSched, CheckDoneSched,
   CoreReturnsSched, Zenon DEF FrameStep

LEMMA ClientCallSched ==
  ASSUME TypeOK, StackInv, LifeInv, ClientCall PROVE Scheduler!Next
BY RaiseTPLSched, PlainCallsSched, ClientSignalsSched, CloseEventSched, WaitForEventSched, Zenon
   DEF ClientCall

LEMMA NextSched ==
  ASSUME TypeOK, StackInv, LifeInv, [Next]_vars
  PROVE  Scheduler!Next \/ UNCHANGED <<{e \in Event : Queued(e)}, Contexts(stack)>>
<1>1. CASE Next
  BY <1>1, FrameStepSched, ClientCallSched, PlainCallsSched, TimerInterruptSched, Zenon DEF Next
<1>2. CASE UNCHANGED vars
  <2>1. UNCHANGED <<stack, gEventQueue>>
    BY <1>2 DEF vars, tplVars, eventVars, queueVars
  <2>2. {e \in Event : Queued(e)}' = {e \in Event : Queued(e)}
    BY <2>1, SameKeeps
  <2>3. Contexts(stack') = Contexts(stack)
    BY <2>1
  <2> QED BY <2>2, <2>3
<1> QED BY <1>1, <1>2

(* The event, timer and task priority services are a preemptive priority    *)
(* scheduler: an event owes one notification however often it is signalled, *)
(* a notification starts only when its event owes one and only above every  *)
(* active context, and contexts end in the reverse order in which they      *)
(* started (Event.c:148-207, Tpl.c:53-150, Timer.c:96-165).                 *)
THEOREM SchedulerImplemented ==
  ASSUME ~Reload PROVE Spec => ImplementsScheduler
<1> DEFINE IInv == TypeOK /\ StackInv /\ TimerInv /\ LifeInv
<1>1. Spec => []IInv
  BY LifeInvariant
<1>2. IInv /\ [Next]_vars =>
        [Scheduler!Next]_<<{e \in Event : Queued(e)}, Contexts(stack)>>
  BY NextSched
<1> HIDE DEF IInv
<1> QED BY <1>1, <1>2, InitSched, PTL DEF Spec, ImplementsScheduler, Scheduler!Spec
=============================================================================
