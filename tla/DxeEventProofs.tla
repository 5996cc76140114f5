--------------------------- MODULE DxeEventProofs ---------------------------
(***************************************************************************)
(* The types of the event, timer and TPL services and the shape of their   *)
(* call stack, proved for every set of events and every bound, and what    *)
(* follows: notifications nest by level, services restore the level, the   *)
(* ASSERTs of the core hold and the timer database is changed by one       *)
(* function at a time.                                                     *)
(***************************************************************************)
EXTENDS DxeEvents, TLAPS, SequenceTheorems

LEMMA PushTwo ==
  ASSUME NEW S, NEW s \in Seq(S), NEW x \in S, NEW y \in S
  PROVE  s \o <<x, y>> = Append(Append(s, x), y)
  OBVIOUS

LEMMA LevelOfNotify ==
  ASSUME NEW e \in Event, IsSignal(e) \/ IsWait(e)
  PROVE  NotifyTpl(e) \in Level
BY EventAssumption DEF Event, Level, NotifyTpl, CreateAccepts, TPL_NOTIFY, TPL_CALLBACK, TPL_TIMER, IsSignal, IsWait

LEMMA RemoveAtType ==
  ASSUME NEW S, NEW s \in Seq(S), NEW i \in 1..Len(s)
  PROVE  RemoveAt(s, i) \in Seq(S)
<1>1. SubSeq(s, 1, i-1) \in Seq(S)
  BY SubSeqProperties
<1>2. SubSeq(s, i+1, Len(s)) \in Seq(S)
  BY SubSeqProperties
<1> QED BY <1>1, <1>2 DEF RemoveAt

LEMMA RemoveEntryType ==
  ASSUME NEW S, NEW s \in Seq(S), NEW x
  PROVE  /\ RemoveEntry(s, x) \in Seq(S)
         /\ s = <<>> => RemoveEntry(s, x) = <<>>
BY RemoveAtType DEF RemoveEntry, Contains

LEMMA InsertAtType ==
  ASSUME NEW S, NEW s \in Seq(S), NEW i \in 1..Len(s), NEW x \in S
  PROVE  InsertAt(s, i, x) \in Seq(S)
<1>1. SubSeq(s, 1, i-1) \in Seq(S)
  BY SubSeqProperties
<1>2. SubSeq(s, i, Len(s)) \in Seq(S)
  BY SubSeqProperties
<1> QED BY <1>1, <1>2 DEF InsertAt

-----------------------------------------------------------------------------
LEMMA Push ==
  ASSUME NEW s \in Stacks, NEW x \in Frames
  PROVE  /\ Append(s, x) \in Stacks
         /\ Append(s, x)[Len(Append(s, x))] = x
         /\ Front(Append(s, x)) = s
<1>1. Front(Append(s, x)) = s
  BY SubSeqProperties, AppendProperties DEF Front, Stacks
<1>2. s \in Seq(Frames) /\ Len(s) \in Nat \ {0} /\ IsMain(s[1])
  BY DEF Stacks
<1>3. /\ Append(s, x) \in Seq(Frames) /\ Append(s, x) # <<>>
      /\ Append(s, x)[1] = s[1]
      /\ Append(s, x)[Len(Append(s, x))] = x
  BY <1>2, AppendProperties
<1> QED BY <1>1, <1>2, <1>3 DEF Stacks

LEMMA PushPush ==
  ASSUME NEW s \in Stacks, NEW x \in Frames, NEW y \in Frames
  PROVE  /\ s \o <<x, y>> = Append(Append(s, x), y)
         /\ s \o <<x, y>> \in Stacks
<1>1. s \o <<x, y>> = Append(Append(s, x), y)
  BY PushTwo DEF Stacks
<1>2. Append(s, x) \in Stacks
  BY Push
<1> QED BY <1>1, <1>2, Push

LEMMA Pop ==
  ASSUME NEW s \in Stacks, ~IsMain(s[Len(s)])
  PROVE  /\ Len(s) > 1
         /\ Front(s) \in Stacks
         /\ Len(Front(s)) = Len(s) - 1
         /\ \A i \in 1..(Len(s)-1) : Front(s)[i] = s[i]
<1>1. s \in Seq(Frames) /\ Len(s) \in Nat /\ Len(s) > 1
  BY DEF Stacks
<1>2. /\ Front(s) \in Seq(Frames)
      /\ Len(Front(s)) = Len(s) - 1
      /\ \A i \in 1..(Len(s)-1) : Front(s)[i] = s[i]
  BY <1>1, SubSeqProperties DEF Front
<1> QED BY <1>1, <1>2 DEF Stacks

LEMMA Levels ==
  /\ Level \subseteq 0..TPL_HIGH_LEVEL /\ Level \subseteq Int /\ 0 \in Int
  /\ TPL_HIGH_LEVEL \in 0..TPL_HIGH_LEVEL
  /\ TPL_TIMER \in 0..TPL_HIGH_LEVEL /\ TPL_TIMER \in Level
  /\ TPL_APPLICATION \in 0..TPL_HIGH_LEVEL
BY DEF Level, TPL_HIGH_LEVEL, TPL_TIMER, TPL_NOTIFY, TPL_CALLBACK, TPL_APPLICATION

\* The frames that the steps build satisfy FrameOK.
LEMMA NewFrame ==
  ASSUME NEW t \in 0..TPL_HIGH_LEVEL, NEW e \in Event, NEW n \in Int
  PROVE  /\ \A pc \in {"run", "group", "relock", "close", "free", "unlinkOne",
                       "unlinkPeriodic", "unlock", "arm", "insert"} :
              Frame(pc, t, e, n) \in Frames
         /\ n >= 1 => Frame("members", t, e, n) \in Frames
         /\ n >= 0 => Frame("poll", t, e, n) \in Frames
         /\ t \in Level /\ NotifyTpl(e) = t => Frame("call", t, e, n) \in Frames
         /\ t <= TPL_TIMER => /\ Frame("SetTimer", t, e, n) \in Frames
                              /\ Frame("SetPeriodic", t, e, n) \in Frames
         /\ t = TPL_TIMER => \A pc \in {"check", "scan", "fire", "rearm", "reinsert"} :
              Frame(pc, t, e, n) \in Frames
BY DEF Frame, Frames, FrameType, FrameOK, PC, LockHolder

LEMMA NewFrameNoEvent ==
  ASSUME NEW t \in 0..TPL_HIGH_LEVEL, NEW e \in Event \cup {NoEvent}, NEW n \in Int
  PROVE  /\ \A pc \in {"restore", "lower", "halt", "iret"} : Frame(pc, t, e, n) \in Frames
         /\ n \in Level => Frame("pick", t, e, n) \in Frames
         /\ t \in Level => Frame("dispatch", t, e, n) \in Frames
         /\ n >= 1 => Frame("wait", t, e, n) \in Frames
         /\ n \in 0..t => Frame("section", t, e, n) \in Frames
BY DEF Frame, Frames, FrameType, FrameOK, PC, LockHolder

LEMMA RestoreFrame ==
  ASSUME NEW t \in 0..TPL_HIGH_LEVEL
  PROVE  Restore(t) \in Frames
BY NewFrameNoEvent DEF Restore

\* The running frame and what it may return to.
LEMMA Running ==
  ASSUME TypeOK
  PROVE  /\ stack \in Stacks /\ Top \in Frames
         /\ Top.tpl \in 0..TPL_HIGH_LEVEL
         /\ Top.ev \in Event \cup {NoEvent}
         /\ Top.at \in Int
         /\ Restore(Top.tpl) \in Frames
         /\ Restore(gEfiCurrentTpl) \in Frames
         /\ ~IsMain(Top) => Callers \in Stacks
<1>1. stack \in Stacks /\ Top \in Frames /\ gEfiCurrentTpl \in 0..TPL_HIGH_LEVEL
  BY DEF TypeOK, ServiceType, Top, Stacks
<1>2. Top.tpl \in 0..TPL_HIGH_LEVEL /\ Top.ev \in Event \cup {NoEvent} /\ Top.at \in Int
  BY <1>1 DEF Frames, FrameType
<1>3. ~IsMain(Top) => Callers \in Stacks
  BY <1>1, Pop DEF Top, Callers
<1> QED BY <1>1, <1>2, <1>3, RestoreFrame

\* A step that leaves the events alone keeps ServiceType if it keeps the stack's type.
LEMMA StackStep ==
  ASSUME TypeOK, UNCHANGED eventVars, stack' \in Stacks,
         gEfiCurrentTpl' \in 0..TPL_HIGH_LEVEL, intr' \in BOOLEAN
  PROVE  ServiceType'
BY DEF TypeOK, ServiceType, eventVars, queueVars

LEMMA NotifyType ==
  ASSUME ServiceType, NEW e \in Event, IsSignal(e) \/ IsWait(e), CoreNotifyEvent(e)
  PROVE  /\ gEventPending' \subseteq Level
         /\ gEventQueue' = [t \in Level |-> gEventQueue'[t]]
         /\ \A t \in Level : gEventQueue'[t] \in Seq(NotifiedAt(t))
<1> DEFINE n == NotifyTpl(e)
<1>1. n \in Level
  BY LevelOfNotify
<1>2. RemoveEntry(gEventQueue[n], e) \in Seq(NotifiedAt(n))
  BY <1>1, RemoveEntryType DEF ServiceType
<1>3. Append(RemoveEntry(gEventQueue[n], e), e) \in Seq(NotifiedAt(n))
  BY <1>2 DEF NotifiedAt
<1> DEFINE q == Append(RemoveEntry(gEventQueue[n], e), e)
<1>4. gEventQueue' = [gEventQueue EXCEPT ![n] = q] /\ gEventPending' = gEventPending \cup {n}
  BY DEF CoreNotifyEvent
<1> HIDE DEF q, n
<1>5. gEventQueue' = [t \in Level |-> IF t = n THEN q ELSE gEventQueue[t]]
  BY <1>1, <1>4 DEF ServiceType
<1> QED BY <1>1, <1>3, <1>4, <1>5 DEF ServiceType, q

LEMMA SignalType ==
  ASSUME ServiceType, NEW e \in Event, NEW t \in 0..TPL_HIGH_LEVEL, NEW rest \in Stacks,
         CoreSignalEvent(e, t, rest)
  PROVE  ServiceType'
<1>1. Restore(t) \in Frames
  BY RestoreFrame
<1>2. Frame("group", t, e, 0) \in Frames
  BY DEF Frame, Frames, FrameType, FrameOK, PC, TPL_HIGH_LEVEL
<1>a. /\ AtHighLevel
      /\ SignalCount' = [SignalCount EXCEPT ![e] = 1]
      /\ UNCHANGED <<gEventSignalQueue, life>>
      /\ \/ stack' = Append(rest, Restore(t))
         \/ stack' = rest \o <<Frame("group", t, e, 0), Restore(t)>>
      /\ \/ CoreNotifyEvent(e) /\ IsSignal(e)
         \/ UNCHANGED <<gEventQueue, gEventPending>>
  BY Zenon DEF CoreSignalEvent
<1>3. stack' \in Stacks
  <2>1. CASE stack' = Append(rest, Restore(t))
    BY <2>1, <1>1, Push
  <2>2. CASE stack' = rest \o <<Frame("group", t, e, 0), Restore(t)>>
    BY <2>2, <1>1, <1>2, PushPush
  <2> QED BY <1>a, <2>1, <2>2
<1>4. /\ gEventPending' \subseteq Level
      /\ gEventQueue' = [u \in Level |-> gEventQueue'[u]]
      /\ \A u \in Level : gEventQueue'[u] \in Seq(NotifiedAt(u))
  <2>1. CASE CoreNotifyEvent(e) /\ IsSignal(e)
    BY <2>1, NotifyType
  <2>2. CASE UNCHANGED <<gEventQueue, gEventPending>>
    BY <2>2 DEF ServiceType
  <2> QED BY <1>a, <2>1, <2>2
<1>5. /\ gEfiCurrentTpl' \in 0..TPL_HIGH_LEVEL
      /\ SignalCount' \in [Event -> {0, 1}]
      /\ UNCHANGED <<gEventSignalQueue, life>>
  BY <1>a DEF ServiceType, AtHighLevel, TPL_HIGH_LEVEL
<1>6. intr' \in BOOLEAN
  BY <1>a DEF AtHighLevel
<1> QED
  BY <1>3, <1>4, <1>5, <1>6 DEF ServiceType

LEMMA MaxPending ==
  ASSUME gEventPending \subseteq Level, gEventPending # {}
  PROVE  /\ Max(gEventPending) \in gEventPending
         /\ \A p \in gEventPending : p <= Max(gEventPending)
<1>1. \E x \in gEventPending : \A y \in gEventPending : x >= y
  <2> USE DEF Level, TPL_CALLBACK, TPL_NOTIFY, TPL_TIMER
  <2>0. \A y \in gEventPending : y = 8 \/ y = 16 \/ y = 30
    OBVIOUS
  <2>1. CASE 30 \in gEventPending
    BY <2>0, <2>1
  <2>2. CASE 30 \notin gEventPending /\ 16 \in gEventPending
    BY <2>0, <2>2
  <2>3. CASE 30 \notin gEventPending /\ 16 \notin gEventPending
    <3>1. \A y \in gEventPending : y = 8
      BY <2>0, <2>3
    <3>2. 8 \in gEventPending
      BY <3>1
    <3> QED BY <3>1, <3>2
  <2> QED BY <2>1, <2>2, <2>3
<1>2. Level \subseteq Int
  BY DEF Level, TPL_CALLBACK, TPL_NOTIFY, TPL_TIMER
<1> QED BY <1>1, <1>2 DEF Max

-----------------------------------------------------------------------------
(* Tpl.c and CoreDispatchEventNotifies.                                     *)

LEMMA RestoreLoopType ==
  ASSUME TypeOK, RestoreLoop PROVE ServiceType'
<1>1. ~IsMain(Top)
  BY DEF RestoreLoop, IsMain
<1>2. Now("lower", Top.ev, Top.at) \in Frames
  BY Running, NewFrameNoEvent DEF Now
<1>3. ASSUME Above(Top.tpl) # {}
      PROVE  Now("pick", Top.ev, Max(gEventPending)) \in Frames
  <2>1. gEventPending # {} /\ gEventPending \subseteq Level
    BY <1>3 DEF Above, TypeOK, ServiceType
  <2>2. Max(gEventPending) \in Level /\ Max(gEventPending) \in Int
    BY <2>1, MaxPending, Levels
  <2> QED BY <2>2, Running, NewFrameNoEvent DEF Now
<1>4. stack' \in Stacks
  <2>1. CASE Above(Top.tpl) # {} /\ stack' = Append(Callers, Now("pick", Top.ev, Max(gEventPending)))
    BY <2>1, <1>1, <1>3, Running, Push
  <2>2. CASE Goto("lower")
    BY <2>2, <1>1, <1>2, Running, Push DEF Goto
  <2> QED BY <2>1, <2>2 DEF RestoreLoop
<1>5. gEfiCurrentTpl' \in 0..TPL_HIGH_LEVEL /\ UNCHANGED eventVars
  BY DEF RestoreLoop, TypeOK, ServiceType
<1>6. intr' \in BOOLEAN
  BY DEF RestoreLoop, TypeOK, ServiceType
<1> QED BY <1>4, <1>5, <1>6, StackStep

LEMMA RestorePickType ==
  ASSUME TypeOK, RestorePick PROVE ServiceType'
<1>1. Top.pc = "pick" /\ ~IsMain(Top) /\ UNCHANGED eventVars
  BY DEF RestorePick, IsMain
<1>2. PICK p \in HighBit :
        \/ /\ p # -1
           /\ gEfiCurrentTpl' = p
           /\ intr' = TRUE
           /\ stack' = Callers \o <<Now("restore", Top.ev, 0), Frame("dispatch", p, NoEvent, 0)>>
        \/ /\ p = -1
           /\ gEfiCurrentTpl' = TPL_HIGH_LEVEL
           /\ intr' = FALSE
           /\ Goto("halt")
  BY Zenon DEF RestorePick
<1>3. Callers \in Stacks
  BY <1>1, Running
<1>4. Top.at \in Level
  BY <1>1, Running DEF Frames, FrameOK
<1>5. p # -1 => p \in Level
  <2>1. gEventPending # {} => Max(gEventPending) \in Level
    BY MaxPending DEF TypeOK, ServiceType
  <2> QED BY <1>4, <2>1 DEF HighBit
<1>6. stack' \in Stacks
  <2>0. Now("restore", Top.ev, 0) \in Frames
    BY Running, Levels, NewFrameNoEvent DEF Now
  <2>1. Now("halt", Top.ev, Top.at) \in Frames
    BY Running, NewFrameNoEvent DEF Now
  <2>2. p # -1 => Frame("dispatch", p, NoEvent, 0) \in Frames
    BY <1>5, Levels, NewFrameNoEvent
  <2>3. CASE p # -1
    BY <2>3, <1>2, <1>3, <2>0, <2>2, PushPush
  <2>4. CASE p = -1
    BY <2>4, <1>2, <1>3, <2>1, Push DEF Goto
  <2> QED BY <2>3, <2>4
<1>7. gEfiCurrentTpl' \in 0..TPL_HIGH_LEVEL
  <2>1. (p # -1 /\ gEfiCurrentTpl' = p) \/ gEfiCurrentTpl' = TPL_HIGH_LEVEL
    BY <1>2, Zenon
  <2> QED BY <2>1, <1>5, Levels
<1>8. intr' \in BOOLEAN
  BY <1>2, Zenon
<1> QED BY <1>1, <1>6, <1>7, <1>8, StackStep

LEMMA RestoreLowerType ==
  ASSUME TypeOK, RestoreLower PROVE ServiceType'
<1>1. stack' \in Stacks /\ gEfiCurrentTpl' \in 0..TPL_HIGH_LEVEL /\ UNCHANGED eventVars
  BY Running DEF RestoreLower, IsMain
<1>2. intr' \in BOOLEAN
  BY DEF RestoreLower
<1> QED BY <1>1, <1>2, StackStep

LEMMA DispatchPopType ==
  ASSUME TypeOK, DispatchPop PROVE ServiceType'
<1> DEFINE t == Top.tpl
           e == Head(gEventQueue[t])
<1>1. Top.pc = "dispatch" /\ t \in Level /\ gEventQueue[t] # <<>>
  BY Running DEF DispatchPop, Frames, FrameOK
<1>2. gEventQueue[t] \in Seq(NotifiedAt(t))
  BY <1>1 DEF TypeOK, ServiceType
<1>3. e \in NotifiedAt(t) /\ Tail(gEventQueue[t]) \in Seq(NotifiedAt(t))
  BY <1>1, <1>2, HeadTailProperties
<1>4. e \in Event /\ NotifyTpl(e) = t
  BY <1>3 DEF NotifiedAt
<1>5. /\ gEventQueue' = [gEventQueue EXCEPT ![t] = Tail(gEventQueue[t])]
      /\ stack' = Callers \o <<Now("call", e, 0), Restore(t)>>
      /\ PopSignalCount(e)
      /\ UNCHANGED <<gEventPending, gEventSignalQueue, life>>
  BY DEF DispatchPop
<1>6. stack' \in Stacks
  <2>1. Now("call", e, 0) \in Frames
    BY <1>1, <1>4, Running, NewFrame DEF Now
  <2>2. Callers \in Stacks /\ Restore(t) \in Frames
    BY <1>1, Running DEF IsMain
  <2> QED BY <2>1, <2>2, <1>5, PushPush
<1>7. SignalCount' \in [Event -> {0, 1}]
  BY <1>4, <1>5 DEF PopSignalCount, TypeOK, ServiceType
<1>8. /\ gEventQueue' = [u \in Level |-> gEventQueue'[u]]
      /\ \A u \in Level : gEventQueue'[u] \in Seq(NotifiedAt(u))
  BY <1>1, <1>3, <1>5 DEF TypeOK, ServiceType
<1>9. gEfiCurrentTpl' \in 0..TPL_HIGH_LEVEL
  BY Levels DEF DispatchPop, AtHighLevel
<1>10. intr' \in BOOLEAN
  BY DEF DispatchPop, AtHighLevel
<1> HIDE DEF t, e
<1> QED BY <1>5, <1>6, <1>7, <1>8, <1>9, <1>10 DEF TypeOK, ServiceType

LEMMA DispatchDoneType ==
  ASSUME TypeOK, DispatchDone PROVE ServiceType'
<1>1. stack' \in Stacks
  BY Running, Push DEF DispatchDone, IsMain
<1>2. gEfiCurrentTpl' \in 0..TPL_HIGH_LEVEL
  BY Levels DEF DispatchDone, AtHighLevel
<1>3. intr' \in BOOLEAN
  BY DEF DispatchDone, AtHighLevel
<1>4. /\ gEventPending' = gEventPending \ {Top.tpl}
      /\ UNCHANGED <<gEventQueue, gEventSignalQueue, SignalCount, life>>
  BY DEF DispatchDone
<1> QED BY <1>1, <1>2, <1>3, <1>4 DEF TypeOK, ServiceType

LEMMA DispatchCallType ==
  ASSUME TypeOK, DispatchCall PROVE ServiceType'
<1> DEFINE pc == IF Top.ev = CheckTimer THEN "check" ELSE "run"
           callee == Frame(pc, Top.tpl, Top.ev, 0)
<1>1. /\ Top.pc = "call" /\ Top.ev \in Event /\ Top.tpl \in Level
      /\ NotifyTpl(Top.ev) = Top.tpl
  BY Running DEF DispatchCall, Frames, FrameOK
<1>2. callee \in Frames
  <2>0. NotifyTpl(CheckTimer) = TPL_TIMER /\ 0 \in Int
    BY EventAssumption DEF NotifyTpl
  <2>1. CASE Top.ev = CheckTimer
    BY <2>0, <2>1, <1>1, Running, NewFrame
  <2>2. CASE Top.ev # CheckTimer
    BY <2>2, <1>1, Running, NewFrame
  <2> QED BY <2>1, <2>2
<1>3. Now("dispatch", NoEvent, 0) \in Frames
  BY <1>1, Running, NewFrameNoEvent, SMTT(30) DEF Now
<1>4. stack' = Callers \o <<Now("dispatch", NoEvent, 0), callee>>
  BY DEF DispatchCall
<1> HIDE DEF callee
<1>5. stack' \in Stacks
  BY <1>1, <1>2, <1>3, <1>4, Running, PushPush DEF IsMain
<1>6. gEfiCurrentTpl' \in 0..TPL_HIGH_LEVEL /\ UNCHANGED eventVars
  BY DEF DispatchCall, TypeOK, ServiceType
<1>7. intr' \in BOOLEAN
  BY DEF DispatchCall, TypeOK, ServiceType
<1> QED BY <1>5, <1>6, <1>7, StackStep

-----------------------------------------------------------------------------
(* Event.c.                                                                 *)

LEMMA HighType ==
  ASSUME AtHighLevel
  PROVE  gEfiCurrentTpl' \in 0..TPL_HIGH_LEVEL /\ intr' \in BOOLEAN
<1>1. gEfiCurrentTpl' \in 0..TPL_HIGH_LEVEL
  BY Levels DEF AtHighLevel
<1>2. intr' \in BOOLEAN
  BY DEF AtHighLevel
<1> QED BY <1>1, <1>2

LEMMA SameLevel ==
  ASSUME TypeOK, UNCHANGED <<gEfiCurrentTpl, intr>>
  PROVE  gEfiCurrentTpl' \in 0..TPL_HIGH_LEVEL /\ intr' \in BOOLEAN
<1>1. gEfiCurrentTpl' \in 0..TPL_HIGH_LEVEL
  BY DEF TypeOK, ServiceType
<1>2. intr' \in BOOLEAN
  BY DEF TypeOK, ServiceType
<1> QED BY <1>1, <1>2

LEMMA BudgetType ==
  ASSUME TypeOK, NEW op, Invokes(op), UNCHANGED UserEvents
  PROVE  ClientType'
BY DEF TypeOK, ClientType, Invokes

LEMMA SameClient ==
  ASSUME TypeOK, UNCHANGED clientVars
  PROVE  ClientType'
BY DEF TypeOK, ClientType, clientVars

LEMMA RaiseTPLType ==
  ASSUME TypeOK, RaiseTPL PROVE ServiceType'
<1>1. PICK t \in {TPL_CALLBACK, TPL_NOTIFY, TPL_HIGH_LEVEL} :
        /\ t >= gEfiCurrentTpl
        /\ gEfiCurrentTpl' = t
        /\ intr' = (intr /\ t < TPL_HIGH_LEVEL)
        /\ stack' = Append(stack, Frame("section", t, NoEvent, gEfiCurrentTpl))
  BY Zenon DEF RaiseTPL
<1>2. /\ t \in 0..TPL_HIGH_LEVEL
      /\ gEfiCurrentTpl \in 0..TPL_HIGH_LEVEL /\ gEfiCurrentTpl \in 0..t
  <2>1. t \in {TPL_CALLBACK, TPL_NOTIFY, TPL_HIGH_LEVEL} /\ t >= gEfiCurrentTpl
    BY <1>1, Zenon
  <2>2. gEfiCurrentTpl \in 0..TPL_HIGH_LEVEL
    BY DEF TypeOK, ServiceType
  <2> QED BY <2>1, <2>2 DEF TPL_CALLBACK, TPL_NOTIFY, TPL_HIGH_LEVEL
<1>3. Frame("section", t, NoEvent, gEfiCurrentTpl) \in Frames
  BY <1>2, NewFrameNoEvent
<1>4. stack' \in Stacks
  BY <1>1, <1>3, Running, Push
<1>5. intr' \in BOOLEAN
  BY <1>1
<1>6. UNCHANGED eventVars
  BY DEF RaiseTPL
<1>7. gEfiCurrentTpl' \in 0..TPL_HIGH_LEVEL
  BY <1>1, <1>2
<1> QED BY <1>4, <1>5, <1>6, <1>7, StackStep

LEMMA RestoreTPLType ==
  ASSUME TypeOK, RestoreTPL PROVE ServiceType'
<1>1. Top.pc = "section" /\ ~IsMain(Top) /\ UNCHANGED <<gEfiCurrentTpl, intr, eventVars>>
  BY DEF RestoreTPL, IsMain
<1>2. Top.at \in 0..TPL_HIGH_LEVEL
  <2>1. Top.at \in 0..Top.tpl
    BY <1>1, Running DEF Frames, FrameOK
  <2> QED BY <2>1, Running DEF TPL_HIGH_LEVEL
<1>3. stack' \in Stacks
  BY <1>1, <1>2, Running, RestoreFrame, Push DEF RestoreTPL
<1> QED BY <1>1, <1>3, SameLevel, StackStep

LEMMA ReturnType ==
  ASSUME TypeOK, Return PROVE ServiceType'
<1>1. stack' = Callers /\ ~IsMain(Top) /\ UNCHANGED <<gEfiCurrentTpl, intr, eventVars>>
  BY DEF Return, IsMain
<1> QED BY <1>1, Running, SameLevel, StackStep

LEMMA CreateEventType ==
  ASSUME TypeOK, NEW e \in Client, CreateEvent(e) PROVE ServiceType'
<1>1. stack' \in Stacks
  BY Running, Push DEF CreateEvent
<1>2. gEventSignalQueue' \in Seq(SignalEvents)
  <2>1. e \in Event
    BY DEF Event
  <2>2. IsSignal(e) => Cons(e, gEventSignalQueue) \in Seq(SignalEvents)
    BY <2>1 DEF TypeOK, ServiceType, Cons, SignalEvents
  <2> QED BY <2>2 DEF CreateEvent, TypeOK, ServiceType
<1>3. AtHighLevel /\ life' = [life EXCEPT ![e] = "live"] /\ UNCHANGED queueVars
  BY DEF CreateEvent
<1>4. life' \in [Event -> {"none", "live", "closing", "freed"}]
  BY <1>3 DEF TypeOK, ServiceType
<1> QED BY <1>1, <1>2, <1>3, <1>4, HighType DEF TypeOK, ServiceType, queueVars

LEMMA SignalEventType ==
  ASSUME TypeOK, NEW e \in Client, SignalEvent(e) PROVE ServiceType'
<1>1. gEfiCurrentTpl \in 0..TPL_HIGH_LEVEL /\ ServiceType
  BY DEF TypeOK, ServiceType
<1>2. CoreSignalEvent(e, gEfiCurrentTpl, stack) /\ e \in Event
  BY DEF SignalEvent, Event
<1> QED BY <1>1, <1>2, Running, SignalType

LEMMA GroupLockType ==
  ASSUME TypeOK, GroupLock PROVE ServiceType'
<1>1. /\ Top.pc = "group" /\ AtHighLevel /\ UNCHANGED eventVars
      /\ stack' = Append(Callers, Now("members", Top.ev, 1))
  BY DEF GroupLock
<1>2. Top.ev \in Event /\ ~IsMain(Top)
  BY <1>1, Running DEF Frames, FrameOK, IsMain
<1>3. Now("members", Top.ev, 1) \in Frames
  BY <1>2, Running, NewFrame DEF Now
<1>4. stack' \in Stacks
  BY <1>1, <1>2, <1>3, Running, Push
<1> QED BY <1>1, <1>4, HighType, StackStep

LEMMA GroupMemberType ==
  ASSUME TypeOK, GroupMember PROVE ServiceType'
<1> DEFINE m == gEventSignalQueue[Top.at]
<1>1. /\ Top.pc = "members" /\ Top.at <= Len(gEventSignalQueue)
      /\ CoreNotifyEvent(m) \/ UNCHANGED <<gEventQueue, gEventPending>>
      /\ stack' = Append(Callers, Now("members", Top.ev, Top.at + 1))
      /\ UNCHANGED <<gEfiCurrentTpl, intr, SignalCount, gEventSignalQueue, life>>
  BY Zenon DEF GroupMember
<1>2. Top.ev \in Event /\ ~IsMain(Top) /\ Top.at >= 1
  BY <1>1, Running DEF Frames, FrameOK, IsMain
<1>3. Now("members", Top.ev, Top.at + 1) \in Frames
  BY <1>2, Running, NewFrame DEF Now
<1>4. stack' \in Stacks
  BY <1>1, <1>2, <1>3, Running, Push
<1>5. m \in Event /\ IsSignal(m)
  <2>1. gEventSignalQueue \in Seq(SignalEvents)
    BY DEF TypeOK, ServiceType
  <2>2. m \in SignalEvents
    BY <2>1, <1>1, <1>2, Running
  <2> QED BY <2>2 DEF SignalEvents
<1> HIDE DEF m
<1>6. /\ gEventPending' \subseteq Level
      /\ gEventQueue' = [u \in Level |-> gEventQueue'[u]]
      /\ \A u \in Level : gEventQueue'[u] \in Seq(NotifiedAt(u))
  <2>1. CASE CoreNotifyEvent(m)
    BY <2>1, <1>5, NotifyType DEF TypeOK
  <2>2. CASE UNCHANGED <<gEventQueue, gEventPending>>
    BY <2>2 DEF TypeOK, ServiceType
  <2> QED BY <1>1, <2>1, <2>2
<1>7. UNCHANGED <<gEfiCurrentTpl, intr>>
  BY <1>1
<1> QED BY <1>1, <1>4, <1>6, <1>7, SameLevel DEF TypeOK, ServiceType

LEMMA GroupUnlockType ==
  ASSUME TypeOK, GroupUnlock PROVE ServiceType'
<1>1. /\ Top.pc = "members" /\ UNCHANGED <<gEfiCurrentTpl, intr, eventVars>>
      /\ stack' = Callers \o <<Now("relock", Top.ev, 0), Restore(Top.tpl)>>
  BY DEF GroupUnlock
<1>2. Top.ev \in Event /\ ~IsMain(Top)
  BY <1>1, Running DEF Frames, FrameOK, IsMain
<1>3. Now("relock", Top.ev, 0) \in Frames
  BY <1>2, Levels, Running, NewFrame DEF Now
<1>4. stack' \in Stacks
  BY <1>1, <1>2, <1>3, Running, PushPush
<1> QED BY <1>1, <1>4, SameLevel, StackStep

LEMMA SignalRelockType ==
  ASSUME TypeOK, SignalRelock PROVE ServiceType'
<1>1. AtHighLevel /\ UNCHANGED eventVars /\ stack' \in Stacks
  BY Running, Push DEF SignalRelock, IsMain
<1> QED BY <1>1, HighType, StackStep

LEMMA CoreCheckEventType ==
  ASSUME TypeOK, NEW e \in Event, NEW t \in 0..TPL_HIGH_LEVEL, NEW rest \in Stacks,
         NEW i \in Nat, CoreCheckEvent(e, t, rest, i)
  PROVE  ServiceType'
<1>1. Frame("poll", t, e, i) \in Frames /\ Restore(t) \in Frames
  <2>1. i \in Int /\ i >= 0
    OBVIOUS
  <2> QED BY <2>1, NewFrame, RestoreFrame
<1>2. UNCHANGED <<SignalCount, gEventSignalQueue, life>>
  BY DEF CoreCheckEvent
<1>3. CASE /\ IsWait(e) /\ AtHighLevel /\ CoreNotifyEvent(e)
           /\ stack' = rest \o <<Frame("poll", t, e, i), Restore(t)>>
  <2>1. stack' \in Stacks
    BY <1>1, <1>3, PushPush
  <2>2. /\ gEventPending' \subseteq Level
        /\ gEventQueue' = [u \in Level |-> gEventQueue'[u]]
        /\ \A u \in Level : gEventQueue'[u] \in Seq(NotifiedAt(u))
    BY <1>3, NotifyType DEF TypeOK
  <2> QED BY <1>2, <1>3, <2>1, <2>2, HighType DEF TypeOK, ServiceType
<1>4. CASE /\ stack' = Append(rest, Frame("poll", t, e, i))
           /\ UNCHANGED <<gEfiCurrentTpl, intr, gEventQueue, gEventPending>>
  <2>1. stack' \in Stacks
    BY <1>1, <1>4, Push
  <2>2. UNCHANGED eventVars /\ UNCHANGED <<gEfiCurrentTpl, intr>>
    BY <1>2, <1>4 DEF eventVars, queueVars
  <2> QED BY <2>1, <2>2, SameLevel, StackStep
<1> QED BY <1>3, <1>4, Zenon DEF CoreCheckEvent

LEMMA CheckEventType ==
  ASSUME TypeOK, NEW e \in Client, CheckEvent(e) PROVE ServiceType'
<1>1. gEfiCurrentTpl \in 0..TPL_HIGH_LEVEL /\ e \in Event /\ 0 \in Nat
  BY DEF TypeOK, ServiceType, Event
<1>2. CoreCheckEvent(e, gEfiCurrentTpl, stack, 0)
  BY DEF CheckEvent
<1> QED BY <1>1, <1>2, Running, CoreCheckEventType

LEMMA PollSignalledType ==
  ASSUME TypeOK, PollSignalled PROVE ServiceType'
<1>1. /\ AtHighLevel /\ stack' \in Stacks
      /\ UNCHANGED <<gEventQueue, gEventPending, gEventSignalQueue, life>>
  BY Running, Push DEF PollSignalled, IsMain
<1>2. SignalCount' \in [Event -> {0, 1}]
  BY DEF PollSignalled, TypeOK, ServiceType
<1> QED BY <1>1, <1>2, HighType DEF TypeOK, ServiceType

LEMMA PollNotReadyType ==
  ASSUME TypeOK, PollNotReady PROVE ServiceType'
<1>1. /\ Top.pc = "poll" /\ ~IsMain(Top)
      /\ UNCHANGED <<gEfiCurrentTpl, intr, eventVars>>
  BY DEF PollNotReady, IsMain
<1>2. Now("wait", NoEvent, Top.at + 1) \in Frames
  <2>1. Top.at >= 0 /\ Top.at \in Int
    BY <1>1, Running DEF Frames, FrameOK
  <2>2. Top.at + 1 \in Int /\ Top.at + 1 >= 1
    BY <2>1
  <2> QED BY <2>2, Running, NewFrameNoEvent DEF Now
<1>3. stack' \in Stacks
  BY <1>1, <1>2, Running, Push DEF PollNotReady
<1> QED BY <1>1, <1>3, SameLevel, StackStep

LEMMA WaitForEventType ==
  ASSUME TypeOK, NEW list \in WaitLists, WaitForEvent(list)
  PROVE  ServiceType' /\ ClientType'
<1>1. /\ stack' = Append(stack, Frame("wait", TPL_APPLICATION, NoEvent, 1))
      /\ UNCHANGED <<gEfiCurrentTpl, intr, eventVars>>
      /\ UserEvents' = list /\ calls > 0 /\ calls' = calls - 1
  BY DEF WaitForEvent, Invokes
<1>2. Frame("wait", TPL_APPLICATION, NoEvent, 1) \in Frames
  <2>1. 1 \in Int /\ 1 >= 1
    OBVIOUS
  <2> QED BY <2>1, Levels, NewFrameNoEvent
<1>3. stack' \in Stacks
  BY <1>1, <1>2, Running, Push
<1>4. ServiceType'
  BY <1>1, <1>3, SameLevel, StackStep
<1>5. ClientType'
  BY <1>1, EventAssumption DEF TypeOK, ClientType
<1> QED BY <1>4, <1>5

LEMMA WaitCheckType ==
  ASSUME TypeOK, WaitCheck PROVE ServiceType'
<1>1. /\ Top.pc = "wait" /\ Top.at <= Len(UserEvents) /\ ~IsMain(Top)
      /\ CoreCheckEvent(UserEvents[Top.at], Top.tpl, Callers, Top.at)
  BY DEF WaitCheck, MoreEvents, IsMain
<1>2. Top.at >= 1 /\ Top.at \in Nat
  BY <1>1, Running DEF Frames, FrameOK
<1>3. UserEvents[Top.at] \in Event
  BY <1>1, <1>2 DEF TypeOK, ClientType, Event
<1> QED BY <1>1, <1>2, <1>3, Running, CoreCheckEventType

LEMMA WaitIdleType ==
  ASSUME TypeOK, WaitIdle PROVE ServiceType'
<1>1. /\ ~IsMain(Top)
      /\ CoreSignalEvent(IdleLoop, Top.tpl, Append(Callers, Now("wait", NoEvent, 1)))
  BY DEF WaitIdle, IsMain
<1>2. Now("wait", NoEvent, 1) \in Frames
  <2>1. 1 \in Int /\ 1 >= 1
    OBVIOUS
  <2> QED BY <2>1, Running, NewFrameNoEvent DEF Now
<1>3. Append(Callers, Now("wait", NoEvent, 1)) \in Stacks
  BY <1>1, <1>2, Running, Push
<1>4. IdleLoop \in Event /\ ServiceType
  BY DEF Event, TypeOK
<1> QED BY <1>1, <1>3, <1>4, Running, SignalType

LEMMA CloseEventType ==
  ASSUME TypeOK, NEW e \in Client, CloseEvent(e) PROVE ServiceType'
<1> DEFINE close == Frame("close", gEfiCurrentTpl, e, 0)
           cancel == Frame("SetTimer", gEfiCurrentTpl, e, -1)
<1>1. /\ gEfiCurrentTpl <= TPL_NOTIFY
      /\ life' = [life EXCEPT ![e] = "closing"]
      /\ stack' = stack \o <<close>> \o (IF IsTimer(e) THEN <<cancel>> ELSE <<>>)
      /\ UNCHANGED <<gEfiCurrentTpl, intr, queueVars, gEventSignalQueue>>
  BY DEF CloseEvent
<1>2. /\ gEfiCurrentTpl \in 0..TPL_HIGH_LEVEL /\ gEfiCurrentTpl <= TPL_TIMER
      /\ e \in Event /\ 0 \in Int /\ -1 \in Int
  BY <1>1 DEF TypeOK, ServiceType, Event, TPL_NOTIFY, TPL_TIMER
<1>3. close \in Frames /\ cancel \in Frames
  BY <1>2, NewFrame
<1> HIDE DEF close, cancel
<1>4. stack \in Stacks /\ stack \in Seq(Frames)
  BY Running DEF Stacks
<1>5. stack \o <<close>> = Append(stack, close) /\ Append(stack, close) \in Stacks
  BY <1>3, <1>4, Push
<1>6. stack' \in Stacks
  <2>1. CASE IsTimer(e)
    <3>1. stack' = Append(stack, close) \o <<cancel>>
      BY <2>1, <1>1, <1>5
    <3>2. stack' = Append(Append(stack, close), cancel)
      BY <3>1, <1>3, <1>5 DEF Stacks
    <3> QED BY <3>2, <1>3, <1>5, Push
  <2>2. CASE ~IsTimer(e)
    <3>1. stack' = Append(stack, close) \o <<>>
      BY <2>2, <1>1, <1>5
    <3>2. stack' = Append(stack, close)
      BY <3>1, <1>5 DEF Stacks
    <3> QED BY <3>2, <1>5
  <2> QED BY <2>1, <2>2
<1>7. life' \in [Event -> {"none", "live", "closing", "freed"}]
  BY <1>1, <1>2 DEF TypeOK, ServiceType
<1> QED BY <1>1, <1>6, <1>7, SameLevel DEF TypeOK, ServiceType, queueVars

LEMMA CloseUnlinkType ==
  ASSUME TypeOK, CloseUnlink PROVE ServiceType'
<1>1. /\ Top.pc = "close" /\ ~IsMain(Top) /\ AtHighLevel
      /\ gEventQueue' = [t \in Level |-> RemoveEntry(gEventQueue[t], Top.ev)]
      /\ gEventSignalQueue' = RemoveEntry(gEventSignalQueue, Top.ev)
      /\ stack' = Callers \o <<Now("free", Top.ev, 0), Restore(Top.tpl)>>
      /\ UNCHANGED <<gEventPending, SignalCount, life>>
  BY DEF CloseUnlink, IsMain
<1>2. Now("free", Top.ev, 0) \in Frames
  <2>1. Top.ev \in Event
    BY <1>1, Running DEF Frames, FrameOK
  <2> QED BY <2>1, Running, Levels, NewFrame DEF Now
<1>3. stack' \in Stacks
  BY <1>1, <1>2, Running, PushPush
<1>4. \A t \in Level : RemoveEntry(gEventQueue[t], Top.ev) \in Seq(NotifiedAt(t))
  BY RemoveEntryType DEF TypeOK, ServiceType
<1>5. gEventSignalQueue' \in Seq(SignalEvents)
  BY <1>1, RemoveEntryType DEF TypeOK, ServiceType
<1> QED BY <1>1, <1>3, <1>4, <1>5, HighType DEF TypeOK, ServiceType

LEMMA CloseFreeType ==
  ASSUME TypeOK, CloseFree PROVE ServiceType'
<1>1. /\ stack' \in Stacks
      /\ UNCHANGED <<gEfiCurrentTpl, intr, queueVars, gEventSignalQueue>>
  BY Running DEF CloseFree, IsMain
<1>2. life' \in [Event -> {"none", "live", "closing", "freed"}]
  BY DEF CloseFree, TypeOK, ServiceType
<1> QED BY <1>1, <1>2, SameLevel DEF TypeOK, ServiceType, queueVars

-----------------------------------------------------------------------------
(* Timer.c.                                                                 *)

LEMMA InsertTimerType ==
  ASSUME TypeOK, NEW e \in Event, NEW t, CoreInsertEventTimer(e, t)
  PROVE  mEfiTimerList' \in Seq(Event)
<1>1. mEfiTimerList \in Seq(Event)
  BY DEF TypeOK, TimerType
<1>2. CASE /\ \E i \in DOMAIN mEfiTimerList : FirstLater(i, t)
           /\ mEfiTimerList' = InsertAt(mEfiTimerList,
                CHOOSE i \in DOMAIN mEfiTimerList : FirstLater(i, t), e)
  BY <1>1, <1>2, InsertAtType
<1>3. CASE mEfiTimerList' = Append(mEfiTimerList, e)
  BY <1>1, <1>3
<1> QED BY <1>2, <1>3 DEF CoreInsertEventTimer

LEMMA SameTimers ==
  ASSUME TypeOK, UNCHANGED timerVars PROVE TimerType'
BY DEF TypeOK, TimerType, timerVars

LEMMA SetTimerType ==
  ASSUME TypeOK, NEW e \in Client, SetTimer(e) PROVE ServiceType'
<1>1. PICK d \in Delays, pc \in {"SetTimer", "SetPeriodic"} :
        stack' = Append(stack, Frame(pc, gEfiCurrentTpl, e, d))
  BY DEF SetTimer
<1>2. /\ UNCHANGED <<gEfiCurrentTpl, intr, eventVars>>
      /\ gEfiCurrentTpl \in 0..TPL_HIGH_LEVEL /\ gEfiCurrentTpl <= TPL_TIMER
      /\ d \in Int /\ e \in Event
  BY TimerAssumption DEF SetTimer, TypeOK, ServiceType, Event
<1>3. Frame(pc, gEfiCurrentTpl, e, d) \in Frames
  BY <1>2, NewFrame
<1>4. stack' \in Stacks
  BY <1>1, <1>3, Running, Push
<1> QED BY <1>2, <1>4, SameLevel, StackStep

LEMMA TimerLockType ==
  ASSUME TypeOK, TimerLock PROVE ServiceType'
<1>1. /\ Top.pc \in {"SetTimer", "SetPeriodic"} /\ ~IsMain(Top)
      /\ gEfiCurrentTpl' = TPL_TIMER
      /\ Goto("unlinkOne") \/ Goto("unlinkPeriodic")
      /\ UNCHANGED <<intr, eventVars>>
  BY DEF TimerLock, IsMain
<1>2. Top.ev \in Event
  BY <1>1, Running DEF Frames, FrameOK
<1>3. /\ Now("unlinkOne", Top.ev, Top.at) \in Frames
      /\ Now("unlinkPeriodic", Top.ev, Top.at) \in Frames
  BY <1>2, Running, NewFrame DEF Now
<1>4. stack' \in Stacks
  BY <1>1, <1>3, Running, Push DEF Goto
<1>5. gEfiCurrentTpl' \in 0..TPL_HIGH_LEVEL
  BY <1>1, Levels
<1>6. intr' \in BOOLEAN
  BY <1>1 DEF TypeOK, ServiceType
<1> QED BY <1>1, <1>4, <1>5, <1>6, StackStep

LEMMA TimerUnlinkType ==
  ASSUME TypeOK, TimerUnlink PROVE ServiceType' /\ TimerType'
<1> DEFINE d == IF Top.pc = "unlinkPeriodic" /\ Top.at = 0 THEN TickPeriod ELSE Top.at
<1>1. /\ Top.pc \in {"unlinkOne", "unlinkPeriodic"} /\ ~IsMain(Top)
      /\ mEfiTimerList' = RemoveEntry(mEfiTimerList, Top.ev)
      /\ TriggerTime' = [TriggerTime EXCEPT ![Top.ev] = 0]
      /\ Period' = [Period EXCEPT ![Top.ev] =
                      IF Top.pc = "unlinkPeriodic" THEN d ELSE 0]
      /\ stack' = Append(Callers,
                    IF d = -1 THEN Now("unlock", Top.ev, 0) ELSE Now("arm", Top.ev, d))
      /\ UNCHANGED <<gEfiCurrentTpl, intr, eventVars, mEfiSystemTime>>
  BY DEF TimerUnlink, IsMain
<1>2. Top.ev \in Event
  BY <1>1, Running DEF Frames, FrameOK
<1>3. d \in Int
  BY Running, TimerAssumption
<1> HIDE DEF d
<1>4. Now("unlock", Top.ev, 0) \in Frames /\ Now("arm", Top.ev, d) \in Frames
  BY <1>2, <1>3, Levels, Running, NewFrame DEF Now
<1>5. stack' \in Stacks
  BY <1>1, <1>4, Running, Push
<1>6. ServiceType'
  BY <1>1, <1>5, SameLevel, StackStep
<1>7. mEfiTimerList' \in Seq(Event)
  BY <1>1, RemoveEntryType DEF TypeOK, TimerType
<1>8. TriggerTime' \in [Event -> Int] /\ Period' \in [Event -> Int]
  BY <1>1, <1>3, Levels DEF TypeOK, TimerType
<1> QED BY <1>1, <1>6, <1>7, <1>8 DEF TypeOK, TimerType

LEMMA TimerArmType ==
  ASSUME TypeOK, TimerArm PROVE ServiceType' /\ TimerType'
<1>1. /\ Top.pc = "arm" /\ ~IsMain(Top) /\ Goto("insert")
      /\ TriggerTime' = [TriggerTime EXCEPT ![Top.ev] = mEfiSystemTime + Top.at]
      /\ UNCHANGED <<gEfiCurrentTpl, intr, eventVars, mEfiTimerList, Period, mEfiSystemTime>>
  BY DEF TimerArm, IsMain
<1>2. Top.ev \in Event
  BY <1>1, Running DEF Frames, FrameOK
<1>3. Now("insert", Top.ev, Top.at) \in Frames
  BY <1>2, Running, NewFrame DEF Now
<1>4. stack' \in Stacks
  BY <1>1, <1>3, Running, Push DEF Goto
<1>5. ServiceType'
  BY <1>1, <1>4, SameLevel, StackStep
<1>6. mEfiSystemTime + Top.at \in Int
  BY Running DEF TypeOK, TimerType
<1> QED BY <1>1, <1>5, <1>6 DEF TypeOK, TimerType

LEMMA TimerInsertType ==
  ASSUME TypeOK, TimerInsert PROVE ServiceType' /\ TimerType'
<1>1. /\ Top.pc = "insert" /\ ~IsMain(Top)
      /\ CoreInsertEventTimer(Top.ev, TriggerTime[Top.ev])
      /\ \/ CoreSignalEvent(CheckTimer, TPL_TIMER, Append(Callers, Now("unlock", Top.ev, Top.at)))
         \/ Goto("unlock") /\ UNCHANGED <<gEfiCurrentTpl, intr, eventVars>>
      /\ UNCHANGED <<TriggerTime, Period, mEfiSystemTime>>
  BY Zenon DEF TimerInsert, IsMain
<1>2. Top.ev \in Event /\ CheckTimer \in Event
  BY <1>1, Running DEF Frames, FrameOK, Event
<1>3. Append(Callers, Now("unlock", Top.ev, Top.at)) \in Stacks
  BY <1>1, <1>2, Running, NewFrame, Push DEF Now
<1>4. ServiceType'
  <2>1. CASE CoreSignalEvent(CheckTimer, TPL_TIMER, Append(Callers, Now("unlock", Top.ev, Top.at)))
    BY <2>1, <1>2, <1>3, Levels, SignalType DEF TypeOK
  <2>2. CASE Goto("unlock") /\ UNCHANGED <<gEfiCurrentTpl, intr, eventVars>>
    BY <2>2, <1>3, SameLevel, StackStep DEF Goto
  <2> QED BY <1>1, <2>1, <2>2
<1>5. mEfiTimerList' \in Seq(Event)
  BY <1>1, <1>2, InsertTimerType
<1> QED BY <1>1, <1>4, <1>5 DEF TypeOK, TimerType

LEMMA TimerUnlockType ==
  ASSUME TypeOK, TimerUnlock PROVE ServiceType'
<1>1. stack' \in Stacks /\ UNCHANGED <<gEfiCurrentTpl, intr, eventVars>>
  BY Running, Push DEF TimerUnlock, IsMain
<1> QED BY <1>1, SameLevel, StackStep

\* The frames of CoreCheckTimers, which all work at TPL_TIMER.
LEMMA CheckFrames ==
  ASSUME TypeOK, Top.pc \in {"check", "scan", "fire", "rearm", "reinsert"}
  PROVE  /\ Top.ev \in Event /\ CheckTimer \in Event /\ Top.tpl = TPL_TIMER
         /\ Callers \in Stacks
         /\ \A e \in Event, n \in Int : /\ Now("scan", e, n) \in Frames
                                      /\ Now("fire", e, n) \in Frames
                                      /\ Now("rearm", e, n) \in Frames
                                      /\ Now("reinsert", e, n) \in Frames
<1>1. Top.ev \in Event /\ Top.tpl = TPL_TIMER /\ ~IsMain(Top)
  BY Running DEF Frames, FrameOK, IsMain
<1>2. CheckTimer \in Event
  BY DEF Event
<1> QED BY <1>1, <1>2, Levels, Running, NewFrame DEF Now

LEMMA CheckStartType ==
  ASSUME TypeOK, CheckStart PROVE ServiceType'
<1>1. /\ Top.pc = "check" /\ UNCHANGED <<gEfiCurrentTpl, intr, eventVars>>
      /\ stack' = Append(Callers, Now("scan", CheckTimer, mEfiSystemTime))
  BY DEF CheckStart
<1>2. mEfiSystemTime \in Int
  BY DEF TypeOK, TimerType
<1>3. stack' \in Stacks
  BY <1>1, <1>2, CheckFrames, Push
<1> QED BY <1>1, <1>3, SameLevel, StackStep

LEMMA CheckRemoveType ==
  ASSUME TypeOK, CheckRemove PROVE ServiceType' /\ TimerType'
<1>1. /\ Top.pc = "scan" /\ mEfiTimerList # <<>>
      /\ mEfiTimerList' = Tail(mEfiTimerList)
      /\ stack' = Append(Callers, Now("fire", Head(mEfiTimerList), Top.at))
      /\ UNCHANGED <<gEfiCurrentTpl, intr, eventVars, TriggerTime, Period, mEfiSystemTime>>
  BY DEF CheckRemove, Expired
<1>2. Head(mEfiTimerList) \in Event /\ Tail(mEfiTimerList) \in Seq(Event)
  BY <1>1, HeadTailProperties DEF TypeOK, TimerType
<1>3. stack' \in Stacks
  BY <1>1, <1>2, Running, CheckFrames, Push
<1>4. ServiceType'
  BY <1>1, <1>3, SameLevel, StackStep
<1> QED BY <1>1, <1>2, <1>4 DEF TypeOK, TimerType

LEMMA CheckFireType ==
  ASSUME TypeOK, CheckFire PROVE ServiceType'
<1>1. /\ Top.pc = "fire"
      /\ CoreSignalEvent(Top.ev, TPL_TIMER, Append(Callers, Now("rearm", Top.ev, Top.at)))
  BY DEF CheckFire
<1>2. Append(Callers, Now("rearm", Top.ev, Top.at)) \in Stacks /\ Top.ev \in Event
  BY <1>1, Running, CheckFrames, Push
<1> QED BY <1>1, <1>2, Levels, SignalType DEF TypeOK

LEMMA NextScanType ==
  ASSUME TypeOK, Top.pc \in {"rearm", "reinsert"}, NextScan
  PROVE  stack' \in Stacks
BY Running, CheckFrames, Push DEF NextScan

LEMMA CheckRearmType ==
  ASSUME TypeOK, CheckRearm PROVE ServiceType' /\ TimerType'
<1> DEFINE next == TriggerTime[Top.ev] + Period[Top.ev]
           signals == CoreSignalEvent(CheckTimer, TPL_TIMER,
                                      Append(Callers, Now("reinsert", Top.ev, Top.at)))
<1>1. /\ Top.pc = "rearm" /\ UNCHANGED <<Period, mEfiSystemTime>>
      /\ \/ /\ NextScan
            /\ UNCHANGED <<gEfiCurrentTpl, intr, eventVars, mEfiTimerList, TriggerTime>>
         \/ /\ NextScan
            /\ TriggerTime' = [TriggerTime EXCEPT ![Top.ev] = next]
            /\ CoreInsertEventTimer(Top.ev, next)
            /\ UNCHANGED <<gEfiCurrentTpl, intr, eventVars>>
         \/ /\ TriggerTime' = [TriggerTime EXCEPT ![Top.ev] = Top.at]
            /\ signals
            /\ UNCHANGED mEfiTimerList
  BY Zenon DEF CheckRearm
<1>2. Top.ev \in Event /\ next \in Int /\ Top.at \in Int
  BY <1>1, Running, CheckFrames DEF TypeOK, TimerType
<1> HIDE DEF next, signals
<1>3. CASE /\ NextScan
           /\ UNCHANGED <<gEfiCurrentTpl, intr, eventVars, mEfiTimerList, TriggerTime>>
  <2>1. ServiceType'
    BY <1>1, <1>3, NextScanType, SameLevel, StackStep
  <2> QED BY <1>1, <1>3, <2>1 DEF TypeOK, TimerType
<1>4. CASE /\ NextScan
           /\ TriggerTime' = [TriggerTime EXCEPT ![Top.ev] = next]
           /\ CoreInsertEventTimer(Top.ev, next)
           /\ UNCHANGED <<gEfiCurrentTpl, intr, eventVars>>
  <2>1. ServiceType'
    BY <1>1, <1>4, NextScanType, SameLevel, StackStep
  <2>2. mEfiTimerList' \in Seq(Event)
    BY <1>2, <1>4, InsertTimerType
  <2> QED BY <1>1, <1>2, <1>4, <2>1, <2>2 DEF TypeOK, TimerType
<1>5. CASE /\ TriggerTime' = [TriggerTime EXCEPT ![Top.ev] = Top.at]
           /\ signals
           /\ UNCHANGED mEfiTimerList
  <2>1. Append(Callers, Now("reinsert", Top.ev, Top.at)) \in Stacks /\ CheckTimer \in Event
    BY <1>1, <1>2, CheckFrames, Push
  <2>2. ServiceType'
    BY <1>5, <2>1, Levels, SignalType DEF signals, TypeOK
  <2> QED BY <1>1, <1>2, <1>5, <2>2 DEF TypeOK, TimerType
<1> QED BY <1>1, <1>3, <1>4, <1>5

LEMMA CheckReinsertType ==
  ASSUME TypeOK, CheckReinsert PROVE ServiceType' /\ TimerType'
<1>1. /\ Top.pc = "reinsert" /\ NextScan
      /\ CoreInsertEventTimer(Top.ev, TriggerTime[Top.ev])
      /\ UNCHANGED <<gEfiCurrentTpl, intr, eventVars, TriggerTime, Period, mEfiSystemTime>>
  BY DEF CheckReinsert
<1>2. ServiceType'
  BY <1>1, NextScanType, SameLevel, StackStep
<1>3. mEfiTimerList' \in Seq(Event)
  BY <1>1, CheckFrames, InsertTimerType
<1> QED BY <1>1, <1>2, <1>3 DEF TypeOK, TimerType

LEMMA CheckDoneType ==
  ASSUME TypeOK, CheckDone PROVE ServiceType'
<1>1. stack' \in Stacks /\ UNCHANGED <<gEfiCurrentTpl, intr, eventVars>>
  BY Levels, RestoreFrame, CheckFrames, Push DEF CheckDone
<1> QED BY <1>1, SameLevel, StackStep

LEMMA TimerInterruptType ==
  ASSUME TypeOK, TimerInterrupt PROVE ServiceType' /\ TimerType'
<1> DEFINE handler == Append(stack, Frame("iret", gEfiCurrentTpl, NoEvent, 0))
<1>1. /\ mEfiSystemTime' = IF mEfiSystemTime < MaxTime THEN mEfiSystemTime + 1 ELSE MaxTime
      /\ \/ CoreSignalEvent(CheckTimer, gEfiCurrentTpl, handler)
         \/ /\ AtHighLevel /\ UNCHANGED eventVars
            /\ stack' = Append(handler, Restore(gEfiCurrentTpl))
      /\ UNCHANGED <<mEfiTimerList, TriggerTime, Period>>
  BY Zenon DEF TimerInterrupt
<1>2. gEfiCurrentTpl \in 0..TPL_HIGH_LEVEL
  BY DEF TypeOK, ServiceType
<1>3. handler \in Stacks
  BY <1>2, Levels, Running, NewFrameNoEvent, Push
<1> HIDE DEF handler
<1>4. ServiceType'
  <2>1. CASE CoreSignalEvent(CheckTimer, gEfiCurrentTpl, handler)
    <3>1. CheckTimer \in Event
      BY DEF Event
    <3> QED BY <2>1, <3>1, <1>2, <1>3, SignalType DEF TypeOK
  <2>2. CASE /\ AtHighLevel /\ UNCHANGED eventVars
             /\ stack' = Append(handler, Restore(gEfiCurrentTpl))
    BY <2>2, <1>3, HighType, Running, Push, StackStep
  <2> QED BY <1>1, <2>1, <2>2
<1>5. mEfiSystemTime' \in Nat
  BY <1>1, TimerAssumption DEF TypeOK, TimerType
<1> QED BY <1>1, <1>4, <1>5 DEF TypeOK, TimerType

LEMMA InterruptReturnType ==
  ASSUME TypeOK, InterruptReturn PROVE ServiceType'
<1>1. stack' \in Stacks /\ UNCHANGED <<gEfiCurrentTpl, eventVars>>
  BY Running DEF InterruptReturn, IsMain
<1>2. intr' \in BOOLEAN
  BY DEF InterruptReturn
<1>3. gEfiCurrentTpl' \in 0..TPL_HIGH_LEVEL
  BY <1>1 DEF TypeOK, ServiceType
<1> QED BY <1>1, <1>2, <1>3, StackStep

-----------------------------------------------------------------------------
(* The whole specification.                                                 *)

LEMMA InitType == Init => TypeOK
<1> SUFFICES ASSUME Init PROVE TypeOK
  OBVIOUS
<1>1. stack \in Stacks
  <2>1. Frame("run", TPL_APPLICATION, NoEvent, 0) \in Frames
    BY Levels DEF Frame, Frames, FrameType, FrameOK, PC
  <2>2. stack = <<Frame("run", TPL_APPLICATION, NoEvent, 0)>>
    BY DEF Init
  <2>3. IsMain(Frame("run", TPL_APPLICATION, NoEvent, 0))
    BY DEF IsMain, Frame
  <2> HIDE DEF Init
  <2> QED BY <2>1, <2>2, <2>3 DEF Stacks
<1>2. /\ gEfiCurrentTpl \in 0..TPL_HIGH_LEVEL
      /\ gEventPending \subseteq Level
      /\ gEventQueue = [t \in Level |-> gEventQueue[t]]
      /\ \A t \in Level : gEventQueue[t] \in Seq(NotifiedAt(t))
  BY Levels DEF Init
<1>3. intr \in BOOLEAN
  BY DEF Init
<1>4. gEventSignalQueue \in Seq(SignalEvents)
  <2>1. CheckTimer \in SignalEvents /\ IdleLoop \in SignalEvents
    BY EventAssumption DEF SignalEvents, Event, IsSignal, EvtType
  <2> QED BY <2>1 DEF Init
<1>5. /\ SignalCount \in [Event -> {0, 1}]
      /\ life \in [Event -> {"none", "live", "closing", "freed"}]
  BY DEF Init
<1>6. ClientType /\ TimerType
  BY EventAssumption, Levels DEF Init, ClientType, TimerType
<1> QED BY <1>1, <1>2, <1>3, <1>4, <1>5, <1>6 DEF TypeOK, ServiceType

LEMMA TplStepType ==
  ASSUME TypeOK, TplStep PROVE ServiceType'
BY RestoreLoopType, RestorePickType, RestoreLowerType, DispatchPopType, DispatchDoneType,
   DispatchCallType, Zenon DEF TplStep

LEMMA ServiceStepType ==
  ASSUME TypeOK, ServiceStep PROVE ServiceType' /\ ClientType'
<1>1. ServiceType'
  BY TplStepType, RestoreTPLType, ReturnType, GroupLockType, GroupMemberType,
     GroupUnlockType, SignalRelockType, PollSignalledType, PollNotReadyType, WaitCheckType,
     WaitIdleType, CloseUnlinkType, CloseFreeType, Zenon DEF ServiceStep
<1>2. UNCHANGED clientVars
  BY Zenon DEF ServiceStep, RestoreTPL, Return, GroupLock, GroupMember, GroupUnlock, SignalRelock,
     PollSignalled, PollNotReady, WaitCheck, WaitIdle, CloseUnlink, CloseFree
<1> QED BY <1>1, <1>2, SameClient

LEMMA ClientCallType ==
  ASSUME TypeOK, ClientCall PROVE ServiceType' /\ ClientType'
<1>1. CASE RaiseTPL
  <2>1. Invokes("raise") /\ UNCHANGED UserEvents
    BY <1>1, Zenon DEF RaiseTPL
  <2> QED BY <1>1, <2>1, RaiseTPLType, BudgetType
<1>2. ASSUME NEW e \in Client, CreateEvent(e) PROVE ServiceType' /\ ClientType'
  <2>1. UNCHANGED clientVars
    BY <1>2, Zenon DEF CreateEvent
  <2> QED BY <1>2, <2>1, CreateEventType, SameClient
<1>3. ASSUME NEW e \in Client, SignalEvent(e) PROVE ServiceType' /\ ClientType'
  <2>1. Invokes("signal") /\ UNCHANGED UserEvents
    BY <1>3, Zenon DEF SignalEvent
  <2> QED BY <1>3, <2>1, SignalEventType, BudgetType
<1>4. ASSUME NEW e \in Client, CheckEvent(e) PROVE ServiceType' /\ ClientType'
  <2>1. Invokes("check") /\ UNCHANGED UserEvents
    BY <1>4, Zenon DEF CheckEvent
  <2> QED BY <1>4, <2>1, CheckEventType, BudgetType
<1>5. ASSUME NEW e \in Client, CloseEvent(e) PROVE ServiceType' /\ ClientType'
  <2>1. Invokes("close") /\ UNCHANGED UserEvents
    BY <1>5, Zenon DEF CloseEvent
  <2> QED BY <1>5, <2>1, CloseEventType, BudgetType
<1>6. ASSUME NEW list \in WaitLists, WaitForEvent(list) PROVE ServiceType' /\ ClientType'
  BY <1>6, WaitForEventType
<1> QED BY <1>1, <1>2, <1>3, <1>4, <1>5, <1>6, Zenon DEF ClientCall

LEMMA FrameStepType ==
  ASSUME TypeOK, FrameStep PROVE TypeOK'
<1>1. CASE ServiceStep /\ UNCHANGED timerVars
  BY <1>1, ServiceStepType, SameTimers DEF TypeOK
<1>2. CASE TimerLock \/ TimerUnlock \/ CheckStart \/ CheckFire \/ CheckDone \/ InterruptReturn
  <2>1. UNCHANGED clientVars /\ UNCHANGED timerVars
    BY <1>2, Zenon DEF TimerLock, TimerUnlock, CheckStart, CheckFire, CheckDone, InterruptReturn
  <2>2. ServiceType'
    BY <1>2, TimerLockType, TimerUnlockType, CheckStartType, CheckFireType, CheckDoneType,
       InterruptReturnType
  <2> QED BY <2>1, <2>2, SameClient, SameTimers DEF TypeOK
<1>3. CASE TimerUnlink \/ TimerArm \/ TimerInsert \/ CheckRemove \/ CheckRearm \/ CheckReinsert
  <2>1. UNCHANGED clientVars
    BY <1>3, Zenon DEF TimerUnlink, TimerArm, TimerInsert, CheckRemove, CheckRearm, CheckReinsert
  <2>2. ServiceType' /\ TimerType'
    BY <1>3, TimerUnlinkType, TimerArmType, TimerInsertType, CheckRemoveType, CheckRearmType,
       CheckReinsertType
  <2> QED BY <2>1, <2>2, SameClient DEF TypeOK
<1> QED BY <1>1, <1>2, <1>3, Zenon DEF FrameStep

LEMMA NextType ==
  ASSUME TypeOK, [Next]_vars PROVE TypeOK'
<1>1. CASE FrameStep
  BY <1>1, FrameStepType
<1>2. CASE ClientCall /\ UNCHANGED timerVars
  BY <1>2, ClientCallType, SameTimers DEF TypeOK
<1>3. ASSUME NEW e \in Client, SetTimer(e) PROVE TypeOK'
  <2>1. Invokes("timer") /\ UNCHANGED UserEvents /\ UNCHANGED timerVars
    BY <1>3, Zenon DEF SetTimer
  <2> QED BY <1>3, <2>1, SetTimerType, BudgetType, SameTimers DEF TypeOK
<1>4. CASE TimerInterrupt
  <2>1. UNCHANGED clientVars
    BY <1>4, Zenon DEF TimerInterrupt
  <2> QED BY <1>4, <2>1, TimerInterruptType, SameClient DEF TypeOK
<1>5. CASE UNCHANGED vars
  <2>1. /\ UNCHANGED <<gEfiCurrentTpl, intr, stack>>
        /\ UNCHANGED eventVars /\ UNCHANGED clientVars /\ UNCHANGED timerVars
    BY <1>5, Zenon DEF vars, tplVars
  <2>2. stack' \in Stacks
    BY <2>1, Running
  <2> QED BY <2>1, <2>2, SameLevel, StackStep, SameClient, SameTimers DEF TypeOK
<1> QED BY <1>1, <1>2, <1>3, <1>4, <1>5, Zenon DEF Next

(* Every variable of the event, timer and task priority services keeps its  *)
(* type in every behaviour: in particular a queue holds only events that    *)
(* are notified at its level, CoreDispatchEventNotifies only runs at one of *)
(* the three levels that have a queue, and the stack never runs empty.      *)
THEOREM TypeCorrect == Spec => []TypeOK
<1>1. TypeOK /\ [Next]_vars => TypeOK'
  BY NextType
<1> QED BY InitType, <1>1, PTL DEF Spec

-----------------------------------------------------------------------------
(***************************************************************************)
(* The notification queues and the bit mask gEventPending, proved for any  *)
(* number of events, calls and nested interrupts.                          *)
(***************************************************************************)

LEMMA SameQueues ==
  ASSUME QueuedIsPending, UNCHANGED <<gEventPending, gEventQueue>>
  PROVE  QueuedIsPending'
BY DEF QueuedIsPending

LEMMA NotifyPending ==
  ASSUME TypeOK, QueuedIsPending, NEW e \in Event, CoreNotifyEvent(e)
  PROVE  QueuedIsPending'
<1>1. /\ gEventQueue' = [gEventQueue EXCEPT ![NotifyTpl(e)] = Append(RemoveEntry(@, e), e)]
      /\ gEventPending' = gEventPending \cup {NotifyTpl(e)}
  BY DEF CoreNotifyEvent
<1>2. \A t \in Level : t # NotifyTpl(e) => gEventQueue'[t] = gEventQueue[t]
  <2>1. DOMAIN gEventQueue = Level
    BY DEF TypeOK, ServiceType
  <2> QED BY <1>1, <2>1
<1> QED BY <1>1, <1>2 DEF QueuedIsPending

LEMMA SignalPending ==
  ASSUME TypeOK, QueuedIsPending, NEW e \in Event, NEW t, NEW rest, CoreSignalEvent(e, t, rest)
  PROVE  QueuedIsPending'
<1>1. CoreNotifyEvent(e) \/ UNCHANGED <<gEventPending, gEventQueue>>
  BY Zenon DEF CoreSignalEvent
<1> QED BY <1>1, NotifyPending, SameQueues

LEMMA CheckPending ==
  ASSUME TypeOK, QueuedIsPending, NEW e \in Event, NEW t, NEW rest, NEW i,
         CoreCheckEvent(e, t, rest, i)
  PROVE  QueuedIsPending'
<1>1. CoreNotifyEvent(e) \/ UNCHANGED <<gEventPending, gEventQueue>>
  BY Zenon DEF CoreCheckEvent
<1> QED BY <1>1, NotifyPending, SameQueues

LEMMA DispatchPending ==
  ASSUME TypeOK, QueuedIsPending, DispatchPop \/ DispatchDone
  PROVE  QueuedIsPending'
<1> DEFINE p == Top.tpl
<1>1. p \in Level /\ DOMAIN gEventQueue = Level
  BY Running DEF DispatchPop, DispatchDone, Frames, FrameOK, TypeOK, ServiceType
<1>2. CASE DispatchPop
  <2>1. /\ gEventQueue[p] # <<>> /\ UNCHANGED gEventPending
        /\ gEventQueue' = [gEventQueue EXCEPT ![p] = Tail(@)]
    BY <1>2 DEF DispatchPop
  <2>2. \A t \in Level : t # p => gEventQueue'[t] = gEventQueue[t]
    BY <1>1, <2>1
  <2> HIDE DEF p
  <2> QED BY <1>1, <2>1, <2>2 DEF QueuedIsPending
<1>3. CASE DispatchDone
  <2>1. /\ gEventQueue[p] = <<>> /\ UNCHANGED gEventQueue
        /\ gEventPending' = gEventPending \ {p}
    BY <1>3 DEF DispatchDone
  <2> HIDE DEF p
  <2> QED BY <2>1 DEF QueuedIsPending
<1> QED BY <1>2, <1>3

LEMMA ClosePending ==
  ASSUME TypeOK, QueuedIsPending, CloseUnlink
  PROVE  QueuedIsPending'
<1>1. /\ gEventQueue' = [t \in Level |-> RemoveEntry(gEventQueue[t], Top.ev)]
      /\ UNCHANGED gEventPending
  BY DEF CloseUnlink
<1>2. \A t \in Level : gEventQueue[t] = <<>> => gEventQueue'[t] = <<>>
  BY <1>1, RemoveEntryType DEF TypeOK, ServiceType
<1> QED BY <1>1, <1>2 DEF QueuedIsPending

LEMMA ServicePending ==
  ASSUME TypeOK, QueuedIsPending, ServiceStep
  PROVE  QueuedIsPending'
<1>1. CASE RestoreLoop \/ RestorePick \/ RestoreLower \/ DispatchCall \/ RestoreTPL \/ Return
           \/ GroupLock \/ GroupUnlock \/ SignalRelock \/ PollSignalled \/ PollNotReady
           \/ CloseFree
  <2>1. UNCHANGED <<gEventPending, gEventQueue>>
    BY <1>1, Zenon DEF RestoreLoop, RestorePick, RestoreLower, DispatchCall, RestoreTPL, Return,
       GroupLock, GroupUnlock, SignalRelock, PollSignalled, PollNotReady, CloseFree,
       eventVars, queueVars
  <2> QED BY <2>1, SameQueues
<1>2. CASE DispatchPop \/ DispatchDone
  BY <1>2, DispatchPending
<1>3. CASE GroupMember
  <2> DEFINE m == gEventSignalQueue[Top.at]
  <2>1. CoreNotifyEvent(m) \/ UNCHANGED <<gEventPending, gEventQueue>>
    BY <1>3, Zenon DEF GroupMember
  <2>2. m \in Event
    <3>1. Top.at \in Int /\ Top.at >= 1 /\ Top.at <= Len(gEventSignalQueue)
      BY <1>3, Running DEF GroupMember, Frames, FrameOK
    <3>2. gEventSignalQueue \in Seq(SignalEvents)
      BY DEF TypeOK, ServiceType
    <3> QED BY <3>1, <3>2 DEF SignalEvents
  <2> HIDE DEF m
  <2> QED BY <2>1, <2>2, NotifyPending, SameQueues
<1>4. CASE WaitCheck
  <2>1. /\ Top.at \in Int /\ Top.at >= 1 /\ Top.at <= Len(UserEvents)
        /\ CoreCheckEvent(UserEvents[Top.at], Top.tpl, Callers, Top.at)
    BY <1>4, Running DEF WaitCheck, MoreEvents, Frames, FrameOK
  <2>2. UserEvents[Top.at] \in Event
    BY <2>1 DEF TypeOK, ClientType, Event
  <2> QED BY <2>1, <2>2, CheckPending
<1>5. CASE WaitIdle
  <2>1. IdleLoop \in Event
    BY DEF Event
  <2> QED BY <1>5, <2>1, SignalPending DEF WaitIdle
<1>6. CASE CloseUnlink
  BY <1>6, ClosePending
<1> QED BY <1>1, <1>2, <1>3, <1>4, <1>5, <1>6, Zenon DEF ServiceStep, TplStep

LEMMA TimerPending ==
  ASSUME TypeOK, QueuedIsPending, FrameStep, ~ServiceStep
  PROVE  QueuedIsPending'
<1>1. CASE TimerLock \/ TimerUnlink \/ TimerArm \/ TimerUnlock \/ CheckStart \/ CheckRemove
           \/ CheckReinsert \/ CheckDone \/ InterruptReturn
  <2>1. UNCHANGED <<gEventPending, gEventQueue>>
    BY <1>1, Zenon DEF TimerLock, TimerUnlink, TimerArm, TimerUnlock, CheckStart, CheckRemove,
       CheckReinsert, CheckDone, InterruptReturn, eventVars, queueVars
  <2> QED BY <2>1, SameQueues
<1>2. CheckTimer \in Event
  BY DEF Event
<1>3. CASE TimerInsert
  <2>1. \/ CoreSignalEvent(CheckTimer, TPL_TIMER, Append(Callers, Now("unlock", Top.ev, Top.at)))
        \/ UNCHANGED <<gEventPending, gEventQueue>>
    BY <1>3, Zenon DEF TimerInsert, eventVars, queueVars
  <2> QED BY <1>2, <2>1, SignalPending, SameQueues
<1>4. CASE CheckFire
  <2>1. Top.ev \in Event
    BY <1>4, Running DEF CheckFire, Frames, FrameOK
  <2> QED BY <1>4, <2>1, SignalPending DEF CheckFire
<1>5. CASE CheckRearm
  <2>1. \/ CoreSignalEvent(CheckTimer, TPL_TIMER, Append(Callers, Now("reinsert", Top.ev, Top.at)))
        \/ UNCHANGED <<gEventPending, gEventQueue>>
    BY <1>5, Zenon DEF CheckRearm, eventVars, queueVars
  <2> QED BY <1>2, <2>1, SignalPending, SameQueues
<1> QED BY <1>1, <1>3, <1>4, <1>5, Zenon DEF FrameStep

LEMMA CallPending ==
  ASSUME TypeOK, QueuedIsPending, ClientCall \/ \E e \in Client : SetTimer(e)
  PROVE  QueuedIsPending'
<1>1. CASE RaiseTPL \/ (\E e \in Client : CreateEvent(e) \/ CloseEvent(e) \/ SetTimer(e))
           \/ (\E list \in WaitLists : WaitForEvent(list))
  <2>1. UNCHANGED <<gEventPending, gEventQueue>>
    BY <1>1, Zenon DEF RaiseTPL, CreateEvent, CloseEvent, SetTimer, WaitForEvent,
       eventVars, queueVars
  <2> QED BY <2>1, SameQueues
<1>2. ASSUME NEW e \in Client, SignalEvent(e) PROVE QueuedIsPending'
  <2>1. e \in Event
    BY DEF Event
  <2> QED BY <1>2, <2>1, SignalPending DEF SignalEvent
<1>3. ASSUME NEW e \in Client, CheckEvent(e) PROVE QueuedIsPending'
  <2>1. e \in Event
    BY DEF Event
  <2> QED BY <1>3, <2>1, CheckPending DEF CheckEvent
<1> QED BY <1>1, <1>2, <1>3, Zenon DEF ClientCall

LEMMA NextPending ==
  ASSUME TypeOK, QueuedIsPending, [Next]_vars
  PROVE  QueuedIsPending'
<1>1. CASE FrameStep
  BY <1>1, ServicePending, TimerPending
<1>2. CASE ClientCall \/ \E e \in Client : SetTimer(e)
  BY <1>2, CallPending
<1>3. CASE TimerInterrupt
  <2>1. \/ CoreSignalEvent(CheckTimer, gEfiCurrentTpl,
                           Append(stack, Frame("iret", gEfiCurrentTpl, NoEvent, 0)))
        \/ UNCHANGED <<gEventPending, gEventQueue>>
    BY <1>3, Zenon DEF TimerInterrupt, eventVars, queueVars
  <2>2. CheckTimer \in Event
    BY DEF Event
  <2> QED BY <2>1, <2>2, SignalPending, SameQueues
<1>4. CASE UNCHANGED vars
  <2>1. UNCHANGED <<gEventPending, gEventQueue>>
    BY <1>4, Zenon DEF vars, eventVars, queueVars
  <2> QED BY <2>1, SameQueues
<1> QED BY <1>1, <1>2, <1>3, <1>4, Zenon DEF Next

(* A queued notification always has its level's bit in gEventPending, in    *)
(* either build: CoreRestoreTpl's loop can never pass it over because of a  *)
(* lost bit (Event.c:157-213, 221-245, 740-752).                            *)
THEOREM PendingCorrect == Spec => []QueuedIsPending
<1>1. Init => TypeOK /\ QueuedIsPending
  <2>1. Init => QueuedIsPending
    BY DEF Init, QueuedIsPending
  <2> QED BY <2>1, InitType
<1>2. (TypeOK /\ QueuedIsPending) /\ [Next]_vars => (TypeOK /\ QueuedIsPending)'
  BY NextType, NextPending
<1> QED BY <1>1, <1>2, PTL DEF Spec

-----------------------------------------------------------------------------
(* The frames of the call stack and their levels.                           *)

LEMMA FrameFields ==
  ASSUME NEW f \in Frames
  PROVE  /\ f.tpl \in 0..TPL_HIGH_LEVEL /\ f.at \in Int /\ f.pc \in PC
         /\ f.pc = "section" => f.at \in 0..f.tpl
BY DEF Frames, FrameType, FrameOK

LEMMA LevelOrder ==
  ASSUME NEW a \in 0..TPL_HIGH_LEVEL, NEW b \in 0..TPL_HIGH_LEVEL, NEW c \in 0..TPL_HIGH_LEVEL
  PROVE  /\ a <= a
         /\ a <= b /\ b <= c => a <= c
         /\ a <= b /\ b < c => a < c
BY DEF TPL_HIGH_LEVEL

LEMMA RunsAtCases ==
  ASSUME NEW f, NEW t
  PROVE  /\ f.pc \in {"restore", "lower"} => (RunsAt(f, t) <=> f.tpl <= t)
         /\ f.pc = "pick" => (RunsAt(f, t) <=> f.tpl <= t /\ f.tpl < f.at)
         /\ f.pc \in LockHolder => (RunsAt(f, t) <=> t = TPL_TIMER /\ f.tpl <= TPL_TIMER)
         /\ f.pc = "members" => (RunsAt(f, t) <=> t = TPL_HIGH_LEVEL)
         /\ f.pc \notin {"restore", "lower", "pick", "members"} \cup LockHolder =>
              (RunsAt(f, t) <=> t = f.tpl)
BY DEF RunsAt, LockHolder

\* A frame works at or above Base, and returns at or below it.
LEMMA BaseLevel ==
  ASSUME NEW f \in Frames
  PROVE  /\ Base(f) \in 0..TPL_HIGH_LEVEL
         /\ Resume(f) \in 0..TPL_HIGH_LEVEL
         /\ \A t \in 0..TPL_HIGH_LEVEL : RunsAt(f, t) => Base(f) <= t /\ Resume(f) <= Base(f)
<1>1. f.tpl \in 0..TPL_HIGH_LEVEL /\ (f.pc = "section" => f.at \in 0..f.tpl)
  BY FrameFields
<1>2. CASE f.pc \in LockHolder
  BY <1>1, <1>2 DEF Base, Resume, RunsAt, LockHolder, TPL_TIMER, TPL_HIGH_LEVEL
<1>3. CASE f.pc \notin LockHolder
  BY <1>1, <1>3 DEF Base, Resume, RunsAt, TPL_HIGH_LEVEL
<1> QED BY <1>2, <1>3

\* A call: the callee may be put on the caller's stack.
LEMMA PushOK ==
  ASSUME NEW s \in Stacks, StackOK(s), NEW x \in Frames,
         Calls(s[Len(s)], x), Resume(x) <= Base(x), ~IsMain(x),
         x.pc # "halt", x.pc = "iret" => x.tpl < TPL_HIGH_LEVEL
  PROVE  StackOK(Append(s, x))
<1> DEFINE n == Len(s)
           r == Append(s, x)
           f == s[n]
<1>1. n \in Nat /\ n >= 1 /\ \A i \in 1..n : s[i] \in Frames
  BY DEF Stacks
<1>2. Len(r) = n + 1 /\ r[n+1] = x /\ \A i \in 1..n : r[i] = s[i]
  BY <1>1, AppendProperties DEF Stacks
<1>3. DOMAIN r = 1..(n+1) /\ DOMAIN s = 1..n
  BY <1>1, <1>2 DEF Stacks
<1> HIDE DEF n, r, f
<1>4. \A i \in 1..n : Base(s[i]) <= Base(f)
  <2>1. \A i, j \in 1..n : i < j => Base(s[i]) <= Base(s[j])
    BY <1>3 DEF StackOK
  <2>2. Base(f) \in 0..TPL_HIGH_LEVEL
    BY <1>1, BaseLevel DEF f, n
  <2>3. Base(f) <= Base(f)
    BY <2>2, LevelOrder, Zenon
  <2> QED BY <1>1, <2>1, <2>3 DEF f
<1>5. Base(f) <= Resume(x) /\ f \in Frames /\ RunsAt(f, Resume(x))
  BY <1>1, BaseLevel DEF f, Calls, n
<1>6. \A i \in 1..n : Base(s[i]) <= Base(x)
  <2>1. \A i \in 1..n : Base(s[i]) \in 0..TPL_HIGH_LEVEL
    BY <1>1, BaseLevel
  <2>2. Base(f) \in 0..TPL_HIGH_LEVEL /\ Base(x) \in 0..TPL_HIGH_LEVEL
        /\ Resume(x) \in 0..TPL_HIGH_LEVEL
    BY <1>5, BaseLevel
  <2> TAKE i \in 1..n
  <2>3. Base(s[i]) <= Base(f) /\ Base(f) <= Resume(x) /\ Resume(x) <= Base(x)
    BY <1>4, <1>5, Zenon
  <2>4. Base(s[i]) <= Resume(x)
    BY <2>1, <2>2, <2>3, LevelOrder, Zenon
  <2> QED BY <2>1, <2>2, <2>3, <2>4, LevelOrder, Zenon
<1>7. ASSUME x.pc \in {"dispatch", "call"}, NEW i \in 1..n
      PROVE  Base(s[i]) < x.tpl
  <2>1. f.pc = "restore" /\ f.tpl < x.tpl
    BY <1>7 DEF Calls, f, n
  <2>2. Base(f) = f.tpl
    BY <2>1 DEF Base, LockHolder
  <2>3. Base(s[i]) \in 0..TPL_HIGH_LEVEL /\ f.tpl \in 0..TPL_HIGH_LEVEL
        /\ x.tpl \in 0..TPL_HIGH_LEVEL
    BY <1>1, <1>5, <1>7, BaseLevel, FrameFields
  <2>4. Base(s[i]) <= f.tpl
    BY <1>4, <1>7, <2>2, Zenon
  <2> QED BY <2>1, <2>3, <2>4, LevelOrder, Zenon
<1>8. ASSUME NEW i \in 1..n, s[i].pc \in LockHolder
      PROVE  x.pc \in Quiet
  <2>1. f.pc \in Quiet \cup LockHolder
    BY <1>1, <1>3, <1>8 DEF StackOK, f
  <2>2. x.pc \notin {"dispatch", "call"}
    <3> SUFFICES ASSUME x.pc \in {"dispatch", "call"} PROVE FALSE
      OBVIOUS
    <3>1. Base(s[i]) < x.tpl /\ Base(s[i]) = TPL_TIMER
      BY <1>7, <1>8 DEF Base
    <3>2. x.tpl \in Level
      BY DEF Frames, FrameOK
    <3> QED BY <3>1, <3>2 DEF Level, TPL_TIMER, TPL_NOTIFY, TPL_CALLBACK
  <2> QED BY <2>1, <2>2 DEF Calls, f, n
<1>9. \A i \in DOMAIN r : r[i].pc # "halt" /\ (r[i].pc = "iret" => r[i].tpl < TPL_HIGH_LEVEL)
  <2>1. \A i \in 1..n : s[i].pc # "halt" /\ (s[i].pc = "iret" => s[i].tpl < TPL_HIGH_LEVEL)
    BY <1>3 DEF StackOK
  <2> QED BY <1>1, <1>2, <1>3, <2>1
<1>10. \A i \in 2..Len(r) : Calls(r[i-1], r[i]) /\ ~IsMain(r[i])
  <2>1. \A i \in 2..n : Calls(s[i-1], s[i]) /\ ~IsMain(s[i])
    BY DEF StackOK, n
  <2>2. Calls(s[n], x)
    BY DEF n
  <2> TAKE i \in 2..Len(r)
  <2>3. CASE i = n + 1
    BY <1>1, <1>2, <2>2, <2>3
  <2>4. CASE i \in 2..n
    BY <1>1, <1>2, <2>1, <2>4
  <2> QED BY <1>1, <1>2, <2>3, <2>4
<1>11. \A i, j \in DOMAIN r : i < j =>
         /\ Base(r[i]) <= Base(r[j])
         /\ r[j].pc \in {"dispatch", "call"} => Base(r[i]) < r[j].tpl
         /\ r[i].pc \in LockHolder => r[j].pc \in Quiet
  <2> SUFFICES ASSUME NEW i \in DOMAIN r, NEW j \in DOMAIN r, i < j
               PROVE  /\ Base(r[i]) <= Base(r[j])
                      /\ r[j].pc \in {"dispatch", "call"} => Base(r[i]) < r[j].tpl
                      /\ r[i].pc \in LockHolder => r[j].pc \in Quiet
    OBVIOUS
  <2>1. i \in 1..n /\ r[i] = s[i]
    BY <1>1, <1>2, <1>3
  <2>2. CASE j = n + 1
    BY <1>2, <1>6, <1>7, <1>8, <2>1, <2>2
  <2>3. CASE j \in 1..n
    <3>1. r[j] = s[j]
      BY <1>2, <2>3
    <3> QED BY <1>3, <2>1, <2>3, <3>1 DEF StackOK
  <2> QED BY <1>1, <1>3, <2>2, <2>3
<1> QED BY <1>9, <1>10, <1>11 DEF StackOK, r

\* A return: what is left is the caller's stack.
LEMMA PopOK ==
  ASSUME NEW s \in Stacks, StackOK(s), Len(s) > 1
  PROVE  StackOK(Front(s)) /\ Calls(Front(s)[Len(Front(s))], s[Len(s)]) /\ ~IsMain(s[Len(s)])
<1> DEFINE n == Len(s)
           r == Front(s)
<1>1. s \in Seq(Frames) /\ n \in Nat /\ n > 1
  BY DEF Stacks
<1>2. Len(r) = n - 1 /\ \A i \in 1..(n-1) : r[i] = s[i]
  BY <1>1, SubSeqProperties DEF Front
<1>3. DOMAIN r = 1..(n-1) /\ DOMAIN s = 1..n
  BY <1>1, <1>2, SubSeqProperties DEF Front
<1>4. Calls(s[n-1], s[n]) /\ ~IsMain(s[n])
  BY <1>1 DEF StackOK
<1>5. r[Len(r)] = s[n-1]
  BY <1>1, <1>2
<1> HIDE DEF r
<1>6. \A i \in DOMAIN r : i \in DOMAIN s /\ r[i] = s[i]
  BY <1>1, <1>2, <1>3
<1>7. \A i \in 2..Len(r) : i \in 2..n /\ r[i] = s[i] /\ r[i-1] = s[i-1]
  BY <1>1, <1>2
<1>8. \A i \in 2..Len(r) : Calls(r[i-1], r[i]) /\ ~IsMain(r[i])
  BY <1>7 DEF StackOK
<1>9. /\ \A i \in DOMAIN r : r[i].pc # "halt" /\ (r[i].pc = "iret" => r[i].tpl < TPL_HIGH_LEVEL)
      /\ \A i, j \in DOMAIN r : i < j =>
           /\ Base(r[i]) <= Base(r[j])
           /\ r[j].pc \in {"dispatch", "call"} => Base(r[i]) < r[j].tpl
           /\ r[i].pc \in LockHolder => r[j].pc \in Quiet
  BY <1>6 DEF StackOK
<1>10. StackOK(r)
  BY <1>8, <1>9 DEF StackOK
<1> QED BY <1>4, <1>5, <1>10 DEF r

-----------------------------------------------------------------------------
(* What the steps below do to the stack.                                    *)

\* Functions that run with interrupts in either state.
Settling == {"restore", "pick", "lower", "members"}

LEMMA Below ==
  ASSUME TypeOK, StackInv, ~IsMain(Top)
  PROVE  /\ Callers \in Stacks /\ StackOK(Callers)
         /\ Calls(Callers[Len(Callers)], Top)
<1>1. stack \in Stacks /\ StackOK(stack) /\ Top = stack[Len(stack)]
  BY Running DEF StackInv, Top
<1>2. Len(stack) > 1
  BY <1>1, Pop
<1> QED BY <1>1, <1>2, PopOK, Running DEF Callers

\* The running frame goes on as x.
LEMMA ReplaceOK ==
  ASSUME TypeOK, StackInv, ~IsMain(Top), NEW x \in Frames,
         Resume(x) = Resume(Top), Resume(x) <= Base(x), x.pc \notin {"halt", "iret", "run"},
         x.pc \in {"dispatch", "call"} => Top.pc \in {"dispatch", "call"} /\ x.tpl = Top.tpl,
         Notification(x) => Notification(Top) /\ x.tpl = Top.tpl,
         x.pc \notin Quiet \cup {"dispatch", "call"} => Top.pc \notin Quiet \cup {"dispatch", "call"}
  PROVE  StackOK(Append(Callers, x)) /\ Callers \in Stacks
<1> DEFINE f == Callers[Len(Callers)]
<1>1. Callers \in Stacks /\ StackOK(Callers) /\ Calls(f, Top)
  BY Below
<1> HIDE DEF f
<1>2. RunsAt(f, Resume(x))
  BY <1>1 DEF Calls
<1>3. x.pc \in {"dispatch", "call"} => f.pc = "restore" /\ f.tpl < x.tpl
  BY <1>1 DEF Calls
<1>4. x.pc = "run" \/ Notification(x) => f.pc = "dispatch" /\ f.tpl = x.tpl
  BY <1>1 DEF Calls
<1>5. x.pc \notin Quiet \cup {"dispatch", "call"} => f.pc \notin Quiet \cup LockHolder
  BY <1>1 DEF Calls
<1>6. Calls(f, x)
  BY <1>2, <1>3, <1>4, <1>5 DEF Calls
<1>7. ~IsMain(x)
  BY DEF IsMain
<1> QED BY <1>1, <1>6, <1>7, PushOK DEF f

LEMMA NewTop ==
  ASSUME NEW r \in Stacks, NEW x \in Frames, stack' = Append(r, x), StackOK(Append(r, x)),
         RunsAt(x, gEfiCurrentTpl'),
         intr' => gEfiCurrentTpl' < TPL_HIGH_LEVEL,
         x.pc \notin Settling => intr' = (gEfiCurrentTpl' < TPL_HIGH_LEVEL)
  PROVE  StackInv'
<1>1. Top' = x
  BY Push DEF Top
<1> QED BY <1>1 DEF StackInv, Settling

\* A step that leaves the level and the interrupt state alone.
LEMMA SameLevelTop ==
  ASSUME StackInv, UNCHANGED <<gEfiCurrentTpl, intr>>,
         NEW r \in Stacks, NEW x \in Frames, stack' = Append(r, x), StackOK(Append(r, x)),
         RunsAt(x, gEfiCurrentTpl),
         x.pc \in Settling \/ Top.pc \notin Settling
  PROVE  StackInv'
<1>1. intr' => gEfiCurrentTpl' < TPL_HIGH_LEVEL
  BY DEF StackInv
<1>2. x.pc \notin Settling => intr' = (gEfiCurrentTpl' < TPL_HIGH_LEVEL)
  BY DEF StackInv, Settling
<1>3. RunsAt(x, gEfiCurrentTpl')
  BY DEF RunsAt
<1> QED BY <1>1, <1>2, <1>3, NewTop

\* Leaving a critical section: CoreRestoreTpl is left to run.
LEMMA RestoreOK ==
  ASSUME NEW r \in Stacks, StackOK(r), NEW t \in 0..TPL_HIGH_LEVEL, RunsAt(r[Len(r)], t)
  PROVE  StackOK(Append(r, Restore(t))) /\ Restore(t) \in Frames
<1>1. Restore(t) \in Frames
  BY RestoreFrame
<1>2. Resume(Restore(t)) = t /\ Base(Restore(t)) = t /\ Restore(t).pc = "restore"
  BY DEF Resume, Base, Restore, Frame, LockHolder
<1>3. Resume(Restore(t)) <= Base(Restore(t))
  BY <1>2, LevelOrder
<1>4. Calls(r[Len(r)], Restore(t))
  BY <1>2 DEF Calls, Notification, Quiet
<1> QED BY <1>1, <1>2, <1>3, <1>4, PushOK DEF IsMain

LEMMA HighTop ==
  ASSUME AtHighLevel, NEW r \in Stacks, StackOK(r), NEW t \in 0..TPL_HIGH_LEVEL,
         RunsAt(r[Len(r)], t), stack' = Append(r, Restore(t))
  PROVE  StackInv'
<1>1. StackOK(Append(r, Restore(t))) /\ Restore(t) \in Frames
  BY RestoreOK
<1>2. gEfiCurrentTpl' = TPL_HIGH_LEVEL /\ ~intr'
  BY DEF AtHighLevel
<1>3. RunsAt(Restore(t), gEfiCurrentTpl')
  <2>1. Restore(t).pc = "restore" /\ Restore(t).tpl = t
    BY DEF Restore, Frame
  <2>2. t <= TPL_HIGH_LEVEL
    BY DEF TPL_HIGH_LEVEL
  <2> QED BY <1>2, <2>1, <2>2, RunsAtCases
<1>4. Restore(t).pc \in Settling
  BY DEF Restore, Frame, Settling
<1> QED BY <1>1, <1>2, <1>3, <1>4, NewTop

\* A function returns to its caller at the level where it was called.
LEMMA PopTop ==
  ASSUME TypeOK, StackInv, ~IsMain(Top), stack' = Callers,
         gEfiCurrentTpl' = Resume(Top),
         intr' = (gEfiCurrentTpl' < TPL_HIGH_LEVEL)
  PROVE  StackInv'
<1>1. StackOK(Callers) /\ Calls(Callers[Len(Callers)], Top)
  BY Below
<1>2. Top' = Callers[Len(Callers)]
  BY DEF Top
<1>3. RunsAt(Top', gEfiCurrentTpl')
  BY <1>1, <1>2 DEF Calls
<1>4. /\ intr' => gEfiCurrentTpl' < TPL_HIGH_LEVEL
      /\ Top'.pc \notin Settling => intr' = (gEfiCurrentTpl' < TPL_HIGH_LEVEL)
  OBVIOUS
<1>5. StackOK(stack')
  BY <1>1
<1> QED BY <1>3, <1>4, <1>5 DEF StackInv, Settling

LEMMA NowFields ==
  ASSUME NEW pc, NEW e, NEW n
  PROVE  /\ Now(pc, e, n).pc = pc /\ Now(pc, e, n).tpl = Top.tpl
         /\ Now(pc, e, n).ev = e /\ Now(pc, e, n).at = n
BY DEF Now, Frame

LEMMA FrameParts ==
  ASSUME NEW pc, NEW t, NEW e, NEW n
  PROVE  /\ Frame(pc, t, e, n).pc = pc /\ Frame(pc, t, e, n).tpl = t
         /\ Frame(pc, t, e, n).ev = e /\ Frame(pc, t, e, n).at = n
BY DEF Frame

\* The running function goes on in the queue or in CoreRestoreTpl.
LEMMA QuietNow ==
  ASSUME TypeOK, StackInv, ~IsMain(Top), Top.pc # "section",
         NEW pc \in Quiet \ {"iret"}, NEW e, NEW n, Now(pc, e, n) \in Frames
  PROVE  StackOK(Append(Callers, Now(pc, e, n))) /\ Callers \in Stacks
<1> DEFINE x == Now(pc, e, n)
<1>1. x.pc = pc /\ x.tpl = Top.tpl
  BY NowFields
<1> HIDE DEF x
<1>2. Resume(x) = Top.tpl /\ Resume(Top) = Top.tpl /\ Base(x) = Top.tpl
  BY <1>1 DEF Resume, Base, Quiet, LockHolder
<1>3. Resume(x) <= Base(x)
  BY <1>2, Running, LevelOrder
<1>4. ~Notification(x) /\ x.pc \in Quiet /\ x.pc \notin {"dispatch", "call", "halt", "iret", "run"}
  BY <1>1 DEF Notification, Quiet
<1> QED BY <1>2, <1>3, <1>4, ReplaceOK DEF x

\* The running service goes on in a step of its own that holds no lock.
LEMMA ServiceNow ==
  ASSUME TypeOK, StackInv, Top.pc \notin Quiet \cup {"dispatch", "call", "section", "run"},
         NEW pc \in {"relock", "poll", "wait", "free"}, NEW e, NEW n, Now(pc, e, n) \in Frames
  PROVE  StackOK(Append(Callers, Now(pc, e, n))) /\ Callers \in Stacks
<1> DEFINE x == Now(pc, e, n)
<1>1. x.pc = pc /\ x.tpl = Top.tpl
  BY NowFields
<1> HIDE DEF x
<1>2. Resume(x) = Top.tpl /\ Resume(Top) = Top.tpl /\ Base(x) = Top.tpl
  BY <1>1 DEF Resume, Base, LockHolder
<1>3. Resume(x) <= Base(x)
  BY <1>2, Running, LevelOrder
<1>4. ~Notification(x) /\ x.pc \notin {"dispatch", "call", "halt", "iret", "run"} /\ ~IsMain(Top)
  BY <1>1 DEF Notification, IsMain
<1> QED BY <1>2, <1>3, <1>4, ReplaceOK DEF x

\* The running service takes, keeps or has taken mEfiTimerLock.
LEMMA LockNow ==
  ASSUME TypeOK, StackInv, Top.pc \in LockHolder \cup {"SetTimer", "SetPeriodic", "check"},
         NEW pc \in LockHolder, NEW e, NEW n, Now(pc, e, n) \in Frames,
         Notification(Now(pc, e, n)) => Notification(Top)
  PROVE  /\ StackOK(Append(Callers, Now(pc, e, n))) /\ Callers \in Stacks
         /\ RunsAt(Now(pc, e, n), TPL_TIMER)
<1> DEFINE x == Now(pc, e, n)
<1>1. x.pc = pc /\ x.tpl = Top.tpl
  BY NowFields
<1>2. Top.tpl <= TPL_TIMER
  <2>1. Top.pc \in LockHolder => Top.tpl <= TPL_TIMER
    BY RunsAtCases DEF StackInv
  <2>2. Top.pc \in {"SetTimer", "SetPeriodic", "check"} => Top.tpl <= TPL_TIMER
    BY Running, Levels, LevelOrder DEF Frames, FrameOK
  <2> QED BY <2>1, <2>2
<1> HIDE DEF x
<1>3. Resume(x) = Top.tpl /\ Resume(Top) = Top.tpl /\ Base(x) = TPL_TIMER
  BY <1>1 DEF Resume, Base, LockHolder
<1>4. Resume(x) <= Base(x)
  BY <1>2, <1>3
<1>5. /\ x.pc \notin {"dispatch", "call", "halt", "iret", "run"} /\ ~IsMain(Top)
      /\ Top.pc \notin Quiet \cup {"dispatch", "call"}
  BY <1>1 DEF IsMain, LockHolder, Quiet
<1>6. Notification(x) => Notification(Top) /\ x.tpl = Top.tpl
  BY <1>1 DEF x
<1>7. StackOK(Append(Callers, x)) /\ Callers \in Stacks
  BY <1>3, <1>4, <1>5, <1>6, ReplaceOK DEF x
<1>8. RunsAt(x, TPL_TIMER)
  BY <1>1, <1>2, RunsAtCases
<1> QED BY <1>7, <1>8 DEF x

-----------------------------------------------------------------------------
(* Tpl.c and CoreDispatchEventNotifies.                                     *)

LEMMA RestoreLoopInv ==
  ASSUME TypeOK, StackInv, RestoreLoop PROVE StackInv'
<1>1. /\ Top.pc = "restore" /\ ~IsMain(Top) /\ UNCHANGED <<gEfiCurrentTpl, intr>>
      /\ \/ /\ Above(Top.tpl) # {}
            /\ stack' = Append(Callers, Now("pick", Top.ev, Max(gEventPending)))
         \/ stack' = Append(Callers, Now("lower", Top.ev, Top.at))
  BY DEF RestoreLoop, IsMain, Goto
<1>2. Top.tpl <= gEfiCurrentTpl
  BY <1>1, RunsAtCases DEF StackInv
<1>3. CASE stack' = Append(Callers, Now("lower", Top.ev, Top.at))
  <2> DEFINE x == Now("lower", Top.ev, Top.at)
  <2>1. x \in Frames
    BY Running, NewFrameNoEvent DEF Now
  <2>2. StackOK(Append(Callers, x)) /\ Callers \in Stacks
    BY <1>1, <2>1, QuietNow DEF Quiet
  <2>3. RunsAt(x, gEfiCurrentTpl) /\ x.pc \in Settling
    BY <1>2, NowFields, RunsAtCases DEF Settling
  <2> HIDE DEF x
  <2> QED BY <1>1, <1>3, <2>1, <2>2, <2>3, SameLevelTop DEF x
<1>4. CASE /\ Above(Top.tpl) # {}
           /\ stack' = Append(Callers, Now("pick", Top.ev, Max(gEventPending)))
  <2> DEFINE m == Max(gEventPending)
             x == Now("pick", Top.ev, m)
  <2>1. gEventPending \subseteq Level /\ gEventPending # {}
    BY <1>4 DEF Above, TypeOK, ServiceType
  <2>2. m \in Level /\ m \in Int /\ \A t \in gEventPending : t <= m
    BY <2>1, MaxPending, Levels
  <2>3. Top.tpl < m
    <3>1. PICK t \in gEventPending : t > Top.tpl
      BY <1>4 DEF Above
    <3>2. t <= m /\ t \in Int /\ Top.tpl \in Int
      BY <2>1, <2>2, Levels, Running DEF TPL_HIGH_LEVEL
    <3> HIDE DEF m
    <3> QED BY <2>2, <3>1, <3>2
  <2> HIDE DEF m
  <2>4. x \in Frames
    BY <2>2, Running, NewFrameNoEvent DEF Now
  <2>5. StackOK(Append(Callers, x)) /\ Callers \in Stacks
    BY <1>1, <2>4, QuietNow DEF Quiet
  <2>6. RunsAt(x, gEfiCurrentTpl) /\ x.pc \in Settling
    BY <1>2, <2>3, NowFields, RunsAtCases DEF Settling
  <2> HIDE DEF x
  <2> QED BY <1>1, <1>4, <2>4, <2>5, <2>6, SameLevelTop DEF x, m
<1> QED BY <1>1, <1>3, <1>4

LEMMA RestorePickInv ==
  ASSUME TypeOK, StackInv, ~Reload, RestorePick PROVE StackInv'
<1> DEFINE p == Top.at
           x == Now("restore", Top.ev, 0)
           y == Frame("dispatch", p, NoEvent, 0)
           r == Append(Callers, x)
<1>1. Top.pc = "pick" /\ ~IsMain(Top)
  BY DEF RestorePick, IsMain
<1>2. p \in Level /\ p # -1 /\ p \in 0..TPL_HIGH_LEVEL /\ p < TPL_HIGH_LEVEL
  BY <1>1, Running DEF Frames, FrameOK, Level, TPL_HIGH_LEVEL, TPL_CALLBACK, TPL_NOTIFY, TPL_TIMER
<1>3. gEfiCurrentTpl' = p /\ intr' = TRUE /\ stack' = Callers \o <<x, y>>
  <2>1. HighBit = {p}
    BY DEF HighBit
  <2>2. PICK q \in HighBit :
          \/ q # -1 /\ gEfiCurrentTpl' = q /\ intr' = TRUE
             /\ stack' = Callers \o <<x, Frame("dispatch", q, NoEvent, 0)>>
          \/ q = -1
    BY DEF RestorePick
  <2> QED BY <1>2, <2>1, <2>2
<1>4. Top.tpl < p
  BY <1>1, RunsAtCases DEF StackInv
<1> HIDE DEF p
<1>5. x \in Frames /\ y \in Frames
  BY <1>2, Running, NewFrameNoEvent, Levels DEF Now
<1>6. x.pc = "restore" /\ x.tpl = Top.tpl
  BY NowFields
<1>7. y.pc = "dispatch" /\ y.tpl = p
  BY FrameParts
<1>8. StackOK(r) /\ Callers \in Stacks
  BY <1>1, <1>5, QuietNow DEF Quiet
<1>9. r \in Stacks /\ r[Len(r)] = x /\ stack' = Append(r, y)
  BY <1>3, <1>5, <1>8, Push, PushPush
<1> HIDE DEF x, y, r
<1>10. Resume(y) = p /\ Base(y) = p /\ Resume(y) <= Base(y)
  BY <1>2, <1>7, LevelOrder DEF Resume, Base, LockHolder
<1>11. Calls(x, y)
  <2>1. Top.tpl <= p
    BY <1>2, <1>4, Running DEF TPL_HIGH_LEVEL
  <2>2. RunsAt(x, Resume(y))
    BY <1>6, <1>10, <2>1, RunsAtCases
  <2> QED BY <1>4, <1>6, <1>7, <2>2 DEF Calls, Notification
<1>12. StackOK(Append(r, y))
  BY <1>5, <1>7, <1>8, <1>9, <1>10, <1>11, PushOK DEF IsMain
<1>13. RunsAt(y, gEfiCurrentTpl')
  BY <1>3, <1>7, RunsAtCases DEF LockHolder
<1>14. gEfiCurrentTpl' < TPL_HIGH_LEVEL
  BY <1>2, <1>3
<1>15. intr' = (gEfiCurrentTpl' < TPL_HIGH_LEVEL)
  BY <1>3, <1>14
<1> QED BY <1>5, <1>9, <1>12, <1>13, <1>14, <1>15, NewTop

LEMMA RestoreLowerInv ==
  ASSUME TypeOK, StackInv, RestoreLower PROVE StackInv'
<1>1. /\ Top.pc = "lower" /\ ~IsMain(Top) /\ stack' = Callers
      /\ gEfiCurrentTpl' = Top.tpl /\ intr' = (intr \/ Top.tpl < TPL_HIGH_LEVEL)
  BY DEF RestoreLower, IsMain
<1>2. Resume(Top) = Top.tpl
  BY <1>1 DEF Resume
<1>3. Top.tpl <= gEfiCurrentTpl /\ gEfiCurrentTpl \in Int /\ Top.tpl \in Int
  <2>1. Top.tpl <= gEfiCurrentTpl
    BY <1>1, RunsAtCases DEF StackInv
  <2>2. gEfiCurrentTpl \in 0..TPL_HIGH_LEVEL /\ Top.tpl \in 0..TPL_HIGH_LEVEL
    BY Running DEF TypeOK, ServiceType
  <2> QED BY <2>1, <2>2 DEF TPL_HIGH_LEVEL
<1>4. intr => Top.tpl < TPL_HIGH_LEVEL
  BY <1>3 DEF StackInv, TPL_HIGH_LEVEL
<1>5. intr' = (Top.tpl < TPL_HIGH_LEVEL)
  <2>1. CASE Top.tpl < TPL_HIGH_LEVEL
    BY <1>1, <2>1
  <2>2. CASE ~(Top.tpl < TPL_HIGH_LEVEL)
    <3>1. intr = FALSE
      BY <1>4, <2>2 DEF TypeOK, ServiceType
    <3> QED BY <1>1, <2>2, <3>1
  <2> QED BY <2>1, <2>2
<1> QED BY <1>1, <1>2, <1>5, PopTop

LEMMA DispatchPopInv ==
  ASSUME TypeOK, StackInv, DispatchPop PROVE StackInv'
<1> DEFINE e == Head(gEventQueue[Top.tpl])
           x == Now("call", e, 0)
           r == Append(Callers, x)
<1>1. /\ Top.pc = "dispatch" /\ ~IsMain(Top) /\ AtHighLevel
      /\ stack' = Callers \o <<x, Restore(Top.tpl)>>
  BY DEF DispatchPop, IsMain
<1>2. x \in Frames
  <2>1. Top.tpl \in Level
    BY <1>1, Running DEF Frames, FrameOK
  <2>2. gEventQueue[Top.tpl] \in Seq(NotifiedAt(Top.tpl)) /\ gEventQueue[Top.tpl] # <<>>
    BY <2>1 DEF TypeOK, ServiceType, DispatchPop
  <2>3. e \in Event /\ NotifyTpl(e) = Top.tpl
    BY <2>2 DEF NotifiedAt
  <2> HIDE DEF e
  <2> QED BY <2>1, <2>3, NewFrame, Levels, Running DEF Now
<1>3. x.pc = "call" /\ x.tpl = Top.tpl
  BY NowFields
<1> HIDE DEF x
<1>4. Resume(x) = Top.tpl /\ Base(x) = Top.tpl /\ Resume(Top) = Top.tpl /\ ~Notification(x)
  BY <1>1, <1>3 DEF Resume, Base, LockHolder, Notification
<1>5. Resume(x) <= Base(x)
  BY <1>4, Running, LevelOrder
<1>6. StackOK(r) /\ Callers \in Stacks
  BY <1>1, <1>2, <1>3, <1>4, <1>5, ReplaceOK DEF Quiet
<1>7. r \in Stacks /\ r[Len(r)] = x /\ stack' = Append(r, Restore(Top.tpl))
  BY <1>1, <1>2, <1>6, Push, PushPush, Running
<1> HIDE DEF r
<1>8. RunsAt(x, Top.tpl)
  BY <1>3, RunsAtCases DEF LockHolder
<1> QED BY <1>1, <1>6, <1>7, <1>8, HighTop, Running

\* The running frame ends with the release of the lock.
LEMMA LastRelease ==
  ASSUME TypeOK, StackInv, AtHighLevel, ~IsMain(Top), Top.pc # "section",
         stack' = Append(Callers, Restore(Top.tpl))
  PROVE  StackInv'
<1>1. StackOK(Callers) /\ Calls(Callers[Len(Callers)], Top) /\ Callers \in Stacks
  BY Below
<1>2. RunsAt(Callers[Len(Callers)], Top.tpl)
  BY <1>1 DEF Calls, Resume
<1> QED BY <1>1, <1>2, HighTop, Running

LEMMA DispatchDoneInv ==
  ASSUME TypeOK, StackInv, DispatchDone PROVE StackInv'
BY LastRelease DEF DispatchDone, IsMain

LEMMA DispatchCallInv ==
  ASSUME TypeOK, StackInv, DispatchCall PROVE StackInv'
<1> DEFINE pc == IF Top.ev = CheckTimer THEN "check" ELSE "run"
           x == Now("dispatch", NoEvent, 0)
           y == Frame(pc, Top.tpl, Top.ev, 0)
           r == Append(Callers, x)
<1>1. /\ Top.pc = "call" /\ ~IsMain(Top) /\ UNCHANGED <<gEfiCurrentTpl, intr>>
      /\ stack' = Callers \o <<x, y>>
  BY DEF DispatchCall, IsMain
<1>2. Top.tpl \in Level /\ Top.ev \in Event /\ Top.ev # NoEvent /\ NotifyTpl(Top.ev) = Top.tpl
  BY <1>1, Running, EventAssumption DEF Frames, FrameOK
<1>3. x.pc = "dispatch" /\ x.tpl = Top.tpl /\ x \in Frames
  <2>1. x \in Frames
    BY <1>2, Running, NewFrameNoEvent, Levels DEF Now
  <2> QED BY <2>1, NowFields
<1>4. y.tpl = Top.tpl /\ y.ev = Top.ev /\ y.pc = pc /\ y \in Frames
  <2>1. pc = "check" => Top.tpl = TPL_TIMER
    BY <1>2, EventAssumption DEF NotifyTpl
  <2>2. pc \in {"check", "run"}
    OBVIOUS
  <2> HIDE DEF pc
  <2>3. y \in Frames
    BY <1>2, <2>1, <2>2, Running, NewFrame, Levels
  <2> QED BY <2>3, FrameParts
<1> HIDE DEF x, y
<1>5. Resume(x) = Top.tpl /\ Base(x) = Top.tpl /\ Resume(Top) = Top.tpl /\ ~Notification(x)
  BY <1>1, <1>3 DEF Resume, Base, LockHolder, Notification
<1>6. Resume(x) <= Base(x)
  BY <1>5, Running, LevelOrder
<1>7. StackOK(r) /\ Callers \in Stacks
  BY <1>1, <1>3, <1>5, <1>6, ReplaceOK
<1>8. r \in Stacks /\ r[Len(r)] = x /\ stack' = Append(r, y)
  BY <1>1, <1>3, <1>4, <1>7, Push, PushPush
<1> HIDE DEF r
<1>9. Resume(y) = Top.tpl /\ Base(y) = Top.tpl
  BY <1>4 DEF Resume, Base, LockHolder
<1>10. RunsAt(x, Top.tpl) /\ RunsAt(y, Top.tpl)
  BY <1>3, <1>4, RunsAtCases DEF LockHolder
<1>11. Calls(x, y)
  BY <1>3, <1>4, <1>9, <1>10 DEF Calls, LockHolder, Quiet
<1>12. StackOK(Append(r, y))
  BY <1>2, <1>4, <1>5, <1>6, <1>7, <1>8, <1>9, <1>11, PushOK DEF IsMain
<1>13. gEfiCurrentTpl = Top.tpl
  BY <1>1, RunsAtCases DEF StackInv, LockHolder
<1>14. Top.pc \notin Settling
  BY <1>1 DEF Settling
<1> QED BY <1>1, <1>4, <1>8, <1>10, <1>12, <1>13, <1>14, SameLevelTop

-----------------------------------------------------------------------------
(* Event.c.                                                                 *)

\* Client code runs at its own level, with the interrupts that go with it.
LEMMA ClientAt ==
  ASSUME TypeOK, StackInv, Top.pc \in {"run", "section"}
  PROVE  /\ gEfiCurrentTpl = Top.tpl /\ RunsAt(Top, gEfiCurrentTpl)
         /\ gEfiCurrentTpl \in 0..TPL_HIGH_LEVEL
         /\ stack \in Stacks /\ StackOK(stack) /\ Top = stack[Len(stack)]
         /\ Top.pc \notin Quiet \cup LockHolder \cup Settling
<1>1. Top.pc \notin Quiet \cup LockHolder \cup Settling
  BY DEF Quiet, LockHolder, Settling
<1>2. RunsAt(Top, gEfiCurrentTpl)
  BY DEF StackInv
<1>3. gEfiCurrentTpl = Top.tpl
  BY <1>1, <1>2, RunsAtCases DEF Quiet
<1>4. stack \in Stacks /\ StackOK(stack) /\ Top = stack[Len(stack)]
  BY Running DEF StackInv, Top
<1> QED BY <1>1, <1>2, <1>3, <1>4, Running

\* Client code calls a service, which becomes the running frame.
LEMMA ServicePush ==
  ASSUME TypeOK, StackInv, ClientRuns,
         NEW pc \in {"poll", "wait", "close", "SetTimer", "SetPeriodic"}, NEW e, NEW n,
         Frame(pc, gEfiCurrentTpl, e, n) \in Frames
  PROVE  /\ StackOK(Append(stack, Frame(pc, gEfiCurrentTpl, e, n)))
         /\ RunsAt(Frame(pc, gEfiCurrentTpl, e, n), gEfiCurrentTpl)
<1> DEFINE x == Frame(pc, gEfiCurrentTpl, e, n)
<1>1. x.pc = pc /\ x.tpl = gEfiCurrentTpl
  BY FrameParts
<1>2. /\ RunsAt(Top, gEfiCurrentTpl) /\ gEfiCurrentTpl \in 0..TPL_HIGH_LEVEL
      /\ stack \in Stacks /\ StackOK(stack) /\ Top = stack[Len(stack)]
      /\ Top.pc \notin Quiet \cup LockHolder
  BY ClientAt DEF ClientRuns
<1> HIDE DEF x
<1>3. Resume(x) = gEfiCurrentTpl /\ Base(x) = gEfiCurrentTpl
  BY <1>1 DEF Resume, Base, LockHolder
<1>4. Resume(x) <= Base(x)
  BY <1>2, <1>3, LevelOrder
<1>5. Calls(Top, x)
  BY <1>1, <1>2, <1>3 DEF Calls, Notification
<1>6. StackOK(Append(stack, x))
  BY <1>1, <1>2, <1>4, <1>5, PushOK DEF x, IsMain
<1>7. RunsAt(x, gEfiCurrentTpl)
  BY <1>1, RunsAtCases DEF LockHolder
<1> QED BY <1>6, <1>7 DEF x

LEMMA ServiceCall ==
  ASSUME TypeOK, StackInv, ClientRuns, UNCHANGED <<gEfiCurrentTpl, intr>>,
         NEW pc \in {"poll", "wait", "close", "SetTimer", "SetPeriodic"}, NEW e, NEW n,
         Frame(pc, gEfiCurrentTpl, e, n) \in Frames,
         stack' = Append(stack, Frame(pc, gEfiCurrentTpl, e, n))
  PROVE  StackInv'
<1> DEFINE x == Frame(pc, gEfiCurrentTpl, e, n)
<1>1. StackOK(Append(stack, x)) /\ RunsAt(x, gEfiCurrentTpl)
  BY ServicePush
<1>2. stack \in Stacks /\ Top.pc \notin Settling
  BY ClientAt DEF ClientRuns
<1> HIDE DEF x
<1> QED BY <1>1, <1>2, SameLevelTop DEF x

LEMMA RaiseTPLInv ==
  ASSUME TypeOK, StackInv, RaiseTPL PROVE StackInv'
<1>1. PICK t \in {TPL_CALLBACK, TPL_NOTIFY, TPL_HIGH_LEVEL} :
        /\ t >= gEfiCurrentTpl
        /\ gEfiCurrentTpl' = t
        /\ intr' = (intr /\ t < TPL_HIGH_LEVEL)
        /\ stack' = Append(stack, Frame("section", t, NoEvent, gEfiCurrentTpl))
  BY DEF RaiseTPL
<1> DEFINE x == Frame("section", t, NoEvent, gEfiCurrentTpl)
<1>2. /\ gEfiCurrentTpl = Top.tpl /\ RunsAt(Top, gEfiCurrentTpl)
      /\ gEfiCurrentTpl \in 0..TPL_HIGH_LEVEL
      /\ stack \in Stacks /\ StackOK(stack) /\ Top = stack[Len(stack)]
      /\ Top.pc \notin Quiet \cup LockHolder \cup Settling
  BY ClientAt DEF RaiseTPL, Invokes, ClientRuns
<1>3. t \in 0..TPL_HIGH_LEVEL /\ gEfiCurrentTpl \in 0..t /\ gEfiCurrentTpl <= t
  <2>1. gEfiCurrentTpl <= t /\ gEfiCurrentTpl \in 0..TPL_HIGH_LEVEL
    BY <1>1, <1>2
  <2> QED BY <2>1 DEF TPL_CALLBACK, TPL_NOTIFY, TPL_HIGH_LEVEL
<1>4. x \in Frames
  <2>1. gEfiCurrentTpl \in Int
    BY <1>2 DEF TPL_HIGH_LEVEL
  <2> QED BY <1>3, <2>1, NewFrameNoEvent
<1>5. x.pc = "section" /\ x.tpl = t /\ x.at = gEfiCurrentTpl
  BY FrameParts
<1> HIDE DEF x
<1>6. Resume(x) = gEfiCurrentTpl /\ Base(x) = t
  BY <1>5 DEF Resume, Base, LockHolder
<1>7. Calls(Top, x)
  BY <1>2, <1>5, <1>6 DEF Calls, Notification
<1>8. StackOK(Append(stack, x))
  BY <1>2, <1>3, <1>4, <1>5, <1>6, <1>7, PushOK DEF IsMain
<1>9. RunsAt(x, gEfiCurrentTpl')
  BY <1>1, <1>5, RunsAtCases DEF LockHolder
<1>10. intr' = (gEfiCurrentTpl' < TPL_HIGH_LEVEL)
  <2>1. ~(gEfiCurrentTpl < TPL_HIGH_LEVEL) => ~(t < TPL_HIGH_LEVEL)
    BY <1>2, <1>3 DEF TPL_HIGH_LEVEL
  <2>2. intr = (gEfiCurrentTpl < TPL_HIGH_LEVEL)
    BY <1>2 DEF StackInv, Settling
  <2>3. CASE t < TPL_HIGH_LEVEL
    BY <1>1, <2>1, <2>2, <2>3
  <2>4. CASE ~(t < TPL_HIGH_LEVEL)
    BY <1>1, <2>4
  <2> QED BY <2>3, <2>4
<1> QED BY <1>1, <1>2, <1>4, <1>8, <1>9, <1>10, NewTop DEF x

LEMMA RestoreTPLInv ==
  ASSUME TypeOK, StackInv, RestoreTPL PROVE StackInv'
<1> DEFINE x == Restore(Top.at)
<1>1. /\ Top.pc = "section" /\ ~IsMain(Top) /\ UNCHANGED <<gEfiCurrentTpl, intr>>
      /\ stack' = Append(Callers, x)
  BY DEF RestoreTPL, IsMain
<1>2. gEfiCurrentTpl = Top.tpl /\ Top.pc \notin Settling
  BY <1>1, ClientAt
<1>3. Top.at \in 0..TPL_HIGH_LEVEL /\ Top.at <= gEfiCurrentTpl
  <2>1. Top.tpl \in 0..TPL_HIGH_LEVEL /\ Top.at \in 0..Top.tpl
    BY <1>1, FrameFields, Running
  <2> QED BY <1>2, <2>1 DEF TPL_HIGH_LEVEL
<1>4. x \in Frames /\ x.pc = "restore" /\ x.tpl = Top.at
  BY <1>3, RestoreFrame DEF Restore, Frame
<1> HIDE DEF x
<1>5. Resume(x) = Top.at /\ Base(x) = Top.at /\ Resume(Top) = Top.at
  BY <1>1, <1>4 DEF Resume, Base, LockHolder
<1>6. Resume(x) <= Base(x)
  BY <1>3, <1>5, LevelOrder
<1>7. StackOK(Append(Callers, x)) /\ Callers \in Stacks
  BY <1>1, <1>4, <1>5, <1>6, ReplaceOK DEF Notification, Quiet
<1>8. RunsAt(x, gEfiCurrentTpl) /\ x.pc \in Settling
  BY <1>3, <1>4, RunsAtCases DEF Settling
<1> QED BY <1>1, <1>4, <1>7, <1>8, SameLevelTop

\* A function that runs at its own level returns.
LEMMA PlainReturn ==
  ASSUME TypeOK, StackInv, ~IsMain(Top), Top.pc \in {"run", "poll", "free"},
         UNCHANGED <<gEfiCurrentTpl, intr>>, stack' = Callers
  PROVE  StackInv'
<1>1. gEfiCurrentTpl = Top.tpl
  BY RunsAtCases DEF StackInv, LockHolder
<1>2. intr' = (gEfiCurrentTpl' < TPL_HIGH_LEVEL)
  BY DEF StackInv
<1>3. gEfiCurrentTpl' = Resume(Top)
  BY <1>1 DEF Resume
<1> QED BY <1>2, <1>3, PopTop

LEMMA ReturnInv ==
  ASSUME TypeOK, StackInv, Return PROVE StackInv'
BY PlainReturn DEF Return, IsMain

LEMMA CloseFreeInv ==
  ASSUME TypeOK, StackInv, CloseFree PROVE StackInv'
BY PlainReturn DEF CloseFree, IsMain

LEMMA CreateEventInv ==
  ASSUME TypeOK, StackInv, NEW e \in Client, CreateEvent(e) PROVE StackInv'
<1>1. AtHighLevel /\ stack' = Append(stack, Restore(gEfiCurrentTpl))
  BY DEF CreateEvent
<1>2. /\ RunsAt(Top, gEfiCurrentTpl) /\ gEfiCurrentTpl \in 0..TPL_HIGH_LEVEL
      /\ stack \in Stacks /\ StackOK(stack) /\ Top = stack[Len(stack)]
  BY ClientAt DEF CreateEvent, ClientRuns
<1> QED BY <1>1, <1>2, HighTop

\* CoreSignalEvent at level t, called by the last frame of rest.
LEMMA CoreSignalEventInv ==
  ASSUME TypeOK, NEW e \in Event, NEW t \in 0..TPL_HIGH_LEVEL, NEW rest \in Stacks,
         StackOK(rest), RunsAt(rest[Len(rest)], t), CoreSignalEvent(e, t, rest)
  PROVE  StackInv'
<1> DEFINE x == Frame("group", t, e, 0)
           r == Append(rest, x)
<1>1. /\ AtHighLevel
      /\ \/ stack' = Append(rest, Restore(t))
         \/ stack' = rest \o <<x, Restore(t)>>
  BY Zenon DEF CoreSignalEvent
<1>2. CASE stack' = Append(rest, Restore(t))
  BY <1>1, <1>2, HighTop
<1>3. CASE stack' = rest \o <<x, Restore(t)>>
  <2>1. x \in Frames
    BY NewFrame, Levels
  <2>2. x.pc = "group" /\ x.tpl = t
    BY FrameParts
  <2> HIDE DEF x
  <2>3. Resume(x) = t /\ Base(x) = t
    BY <2>2 DEF Resume, Base, LockHolder
  <2>4. Resume(x) <= Base(x)
    BY <2>3, LevelOrder
  <2>5. Calls(rest[Len(rest)], x)
    BY <2>2, <2>3 DEF Calls, Notification, Quiet
  <2>6. StackOK(r)
    BY <2>1, <2>2, <2>4, <2>5, PushOK DEF IsMain
  <2>7. r \in Stacks /\ r[Len(r)] = x /\ stack' = Append(r, Restore(t))
    BY <1>3, <2>1, Push, PushPush, RestoreFrame
  <2> HIDE DEF r
  <2>8. RunsAt(x, t)
    BY <2>2, RunsAtCases DEF LockHolder
  <2> QED BY <1>1, <2>6, <2>7, <2>8, HighTop
<1> QED BY <1>1, <1>2, <1>3

LEMMA SignalEventInv ==
  ASSUME TypeOK, StackInv, NEW e \in Client, SignalEvent(e) PROVE StackInv'
<1>1. CoreSignalEvent(e, gEfiCurrentTpl, stack) /\ Top.pc \in {"run", "section"} /\ e \in Event
  BY DEF SignalEvent, Invokes, ClientRuns, Event
<1>2. /\ RunsAt(Top, gEfiCurrentTpl) /\ gEfiCurrentTpl \in 0..TPL_HIGH_LEVEL
      /\ stack \in Stacks /\ StackOK(stack) /\ Top = stack[Len(stack)]
  BY <1>1, ClientAt
<1> QED BY <1>1, <1>2, CoreSignalEventInv

LEMMA GroupLockInv ==
  ASSUME TypeOK, StackInv, GroupLock PROVE StackInv'
<1> DEFINE x == Now("members", Top.ev, 1)
<1>1. /\ Top.pc = "group" /\ ~IsMain(Top) /\ AtHighLevel /\ stack' = Append(Callers, x)
  BY DEF GroupLock, IsMain
<1>2. x \in Frames
  <2>1. Top.ev \in Event /\ 1 \in Int /\ 1 >= 1
    BY <1>1, Running DEF Frames, FrameOK
  <2> QED BY <2>1, Running, NewFrame DEF Now
<1>3. StackOK(Append(Callers, x)) /\ Callers \in Stacks
  BY <1>1, <1>2, QuietNow DEF Quiet
<1>4. gEfiCurrentTpl' = TPL_HIGH_LEVEL /\ ~intr'
  BY <1>1 DEF AtHighLevel
<1>5. RunsAt(x, gEfiCurrentTpl') /\ x.pc \in Settling
  BY <1>4, NowFields, RunsAtCases DEF Settling
<1> HIDE DEF x
<1> QED BY <1>1, <1>2, <1>3, <1>4, <1>5, NewTop

LEMMA GroupMemberInv ==
  ASSUME TypeOK, StackInv, GroupMember PROVE StackInv'
<1> DEFINE x == Now("members", Top.ev, Top.at + 1)
<1>1. /\ Top.pc = "members" /\ ~IsMain(Top) /\ UNCHANGED <<gEfiCurrentTpl, intr>>
      /\ stack' = Append(Callers, x)
  BY DEF GroupMember, IsMain
<1>2. x \in Frames
  <2>1. Top.ev \in Event /\ Top.at \in Int /\ Top.at >= 1
    BY <1>1, Running DEF Frames, FrameOK
  <2>2. Top.at + 1 \in Int /\ Top.at + 1 >= 1
    BY <2>1
  <2> QED BY <2>1, <2>2, Running, NewFrame DEF Now
<1>3. StackOK(Append(Callers, x)) /\ Callers \in Stacks
  BY <1>1, <1>2, QuietNow DEF Quiet
<1>4. gEfiCurrentTpl = TPL_HIGH_LEVEL
  BY <1>1, RunsAtCases DEF StackInv
<1>5. RunsAt(x, gEfiCurrentTpl) /\ x.pc \in Settling
  BY <1>4, NowFields, RunsAtCases DEF Settling
<1> HIDE DEF x
<1> QED BY <1>1, <1>2, <1>3, <1>5, SameLevelTop

LEMMA GroupUnlockInv ==
  ASSUME TypeOK, StackInv, GroupUnlock PROVE StackInv'
<1> DEFINE x == Now("relock", Top.ev, 0)
           r == Append(Callers, x)
           y == Restore(Top.tpl)
<1>1. /\ Top.pc = "members" /\ ~IsMain(Top) /\ UNCHANGED <<gEfiCurrentTpl, intr>>
      /\ stack' = Callers \o <<x, y>>
  BY DEF GroupUnlock, IsMain
<1>2. x \in Frames
  <2>1. Top.ev \in Event
    BY <1>1, Running DEF Frames, FrameOK
  <2> QED BY <2>1, Running, NewFrame, Levels DEF Now
<1>3. x.pc = "relock" /\ x.tpl = Top.tpl
  BY NowFields
<1>4. y \in Frames /\ y.pc = "restore" /\ y.tpl = Top.tpl
  BY Running DEF Restore, Frame
<1>5. StackOK(r) /\ Callers \in Stacks
  BY <1>1, <1>2, QuietNow DEF Quiet
<1> HIDE DEF x, y
<1>6. r \in Stacks /\ r[Len(r)] = x /\ stack' = Append(r, y)
  BY <1>1, <1>2, <1>4, <1>5, Push, PushPush
<1> HIDE DEF r
<1>7. RunsAt(x, Top.tpl)
  BY <1>3, RunsAtCases DEF LockHolder
<1>8. StackOK(Append(r, y))
  BY <1>5, <1>6, <1>7, RestoreOK, Running DEF y
<1>9. gEfiCurrentTpl = TPL_HIGH_LEVEL /\ Top.tpl <= TPL_HIGH_LEVEL
  <2>1. gEfiCurrentTpl = TPL_HIGH_LEVEL
    BY <1>1, RunsAtCases DEF StackInv
  <2>2. Top.tpl \in 0..TPL_HIGH_LEVEL
    BY Running
  <2> QED BY <2>1, <2>2 DEF TPL_HIGH_LEVEL
<1>10. RunsAt(y, gEfiCurrentTpl) /\ y.pc \in Settling
  BY <1>4, <1>9, RunsAtCases DEF Settling
<1> QED BY <1>1, <1>4, <1>6, <1>8, <1>10, SameLevelTop

LEMMA SignalRelockInv ==
  ASSUME TypeOK, StackInv, SignalRelock PROVE StackInv'
BY LastRelease DEF SignalRelock, IsMain

\* CoreCheckEvent, after poll has become the frame that tests the event again.
LEMMA CoreCheckEventInv ==
  ASSUME TypeOK, StackInv, Top.pc \notin Settling, NEW e \in Event, NEW rest \in Stacks,
         NEW i \in Nat, CoreCheckEvent(e, gEfiCurrentTpl, rest, i),
         StackOK(Append(rest, Frame("poll", gEfiCurrentTpl, e, i)))
  PROVE  StackInv'
<1> DEFINE t == gEfiCurrentTpl
           x == Frame("poll", t, e, i)
           r == Append(rest, x)
<1>1. t \in 0..TPL_HIGH_LEVEL
  BY DEF TypeOK, ServiceType
<1>2. \/ AtHighLevel /\ stack' = rest \o <<x, Restore(t)>>
      \/ UNCHANGED <<gEfiCurrentTpl, intr>> /\ stack' = r
  BY Zenon DEF CoreCheckEvent
<1> HIDE DEF t
<1>3. x \in Frames /\ x.pc = "poll" /\ x.tpl = t
  <2>1. i \in Int /\ i >= 0
    OBVIOUS
  <2> QED BY <1>1, <2>1, NewFrame, FrameParts
<1>4. StackOK(r)
  BY DEF t
<1> HIDE DEF x
<1>5. RunsAt(x, t)
  BY <1>3, RunsAtCases DEF LockHolder
<1>6. r \in Stacks /\ r[Len(r)] = x
  BY <1>3, Push
<1>7. CASE AtHighLevel /\ stack' = rest \o <<x, Restore(t)>>
  <2>1. stack' = Append(r, Restore(t))
    BY <1>1, <1>3, <1>7, PushPush, RestoreFrame
  <2> HIDE DEF r
  <2> QED BY <1>1, <1>4, <1>5, <1>6, <1>7, <2>1, HighTop
<1>8. CASE UNCHANGED <<gEfiCurrentTpl, intr>> /\ stack' = r
  BY <1>3, <1>4, <1>5, <1>8, SameLevelTop DEF t, r
<1> QED BY <1>2, <1>7, <1>8

LEMMA CheckEventInv ==
  ASSUME TypeOK, StackInv, NEW e \in Client, CheckEvent(e) PROVE StackInv'
<1>1. CoreCheckEvent(e, gEfiCurrentTpl, stack, 0) /\ ClientRuns /\ e \in Event
  BY DEF CheckEvent, Invokes, Event
<1>2. Top.pc \notin Settling /\ stack \in Stacks /\ gEfiCurrentTpl \in 0..TPL_HIGH_LEVEL
  BY <1>1, ClientAt DEF ClientRuns
<1>3. Frame("poll", gEfiCurrentTpl, e, 0) \in Frames
  <2>1. 0 >= 0
    OBVIOUS
  <2> QED BY <1>1, <1>2, <2>1, NewFrame, Levels
<1>4. StackOK(Append(stack, Frame("poll", gEfiCurrentTpl, e, 0)))
  BY <1>1, <1>3, ServicePush
<1> QED BY <1>1, <1>2, <1>4, CoreCheckEventInv

LEMMA PollSignalledInv ==
  ASSUME TypeOK, StackInv, PollSignalled PROVE StackInv'
BY LastRelease DEF PollSignalled, IsMain

\* A step of the running service that leaves the level alone.
LEMMA ServiceGoesOn ==
  ASSUME TypeOK, StackInv, Top.pc \in {"poll", "wait"}, UNCHANGED <<gEfiCurrentTpl, intr>>,
         NEW n \in Int, n >= 1, stack' = Append(Callers, Now("wait", NoEvent, n))
  PROVE  StackInv'
<1> DEFINE x == Now("wait", NoEvent, n)
<1>1. x \in Frames
  BY Running, NewFrameNoEvent DEF Now
<1>2. StackOK(Append(Callers, x)) /\ Callers \in Stacks
  BY <1>1, ServiceNow DEF Quiet
<1>3. gEfiCurrentTpl = Top.tpl
  BY RunsAtCases DEF StackInv, LockHolder
<1>4. RunsAt(x, gEfiCurrentTpl)
  BY <1>3, NowFields, RunsAtCases DEF LockHolder
<1>5. Top.pc \notin Settling
  BY DEF Settling
<1> HIDE DEF x
<1> QED BY <1>1, <1>2, <1>4, <1>5, SameLevelTop DEF x

LEMMA PollNotReadyInv ==
  ASSUME TypeOK, StackInv, PollNotReady PROVE StackInv'
<1>1. /\ Top.pc = "poll" /\ ~IsMain(Top) /\ UNCHANGED <<gEfiCurrentTpl, intr>>
      /\ stack' = IF Top.at = 0 THEN Callers
                  ELSE Append(Callers, Now("wait", NoEvent, Top.at + 1))
  BY DEF PollNotReady, IsMain
<1>2. Top.at \in Int /\ Top.at >= 0
  BY <1>1, Running DEF Frames, FrameOK
<1>3. Top.at + 1 \in Int /\ Top.at + 1 >= 1
  BY <1>2
<1>4. CASE Top.at = 0
  BY <1>1, <1>4, PlainReturn
<1>5. CASE Top.at # 0
  BY <1>1, <1>3, <1>5, ServiceGoesOn
<1> QED BY <1>4, <1>5

LEMMA WaitForEventInv ==
  ASSUME TypeOK, StackInv, NEW list \in WaitLists, WaitForEvent(list) PROVE StackInv'
<1>1. /\ ClientRuns /\ gEfiCurrentTpl = TPL_APPLICATION /\ UNCHANGED <<gEfiCurrentTpl, intr>>
      /\ stack' = Append(stack, Frame("wait", gEfiCurrentTpl, NoEvent, 1))
  BY DEF WaitForEvent, Invokes
<1>2. Frame("wait", gEfiCurrentTpl, NoEvent, 1) \in Frames
  <2>1. 1 \in Int /\ 1 >= 1
    OBVIOUS
  <2> QED BY <1>1, <2>1, Levels, NewFrameNoEvent
<1> QED BY <1>1, <1>2, ServiceCall

LEMMA WaitCheckInv ==
  ASSUME TypeOK, StackInv, WaitCheck PROVE StackInv'
<1> DEFINE e == UserEvents[Top.at]
<1>1. /\ Top.pc = "wait" /\ Top.at <= Len(UserEvents) /\ ~IsMain(Top)
      /\ CoreCheckEvent(e, Top.tpl, Callers, Top.at)
  BY DEF WaitCheck, MoreEvents, IsMain
<1>2. Top.at >= 1 /\ Top.at \in Nat
  BY <1>1, Running DEF Frames, FrameOK
<1>3. e \in Event
  BY <1>1, <1>2 DEF TypeOK, ClientType, Event
<1> HIDE DEF e
<1>4. gEfiCurrentTpl = Top.tpl /\ Top.pc \notin Settling
  BY <1>1, RunsAtCases DEF StackInv, LockHolder, Settling
<1>5. Now("poll", e, Top.at) \in Frames
  <2>1. Top.at \in Int /\ Top.at >= 0
    BY <1>2
  <2> QED BY <1>3, <2>1, Running, NewFrame DEF Now
<1>6. StackOK(Append(Callers, Now("poll", e, Top.at))) /\ Callers \in Stacks
  BY <1>1, <1>5, ServiceNow DEF Quiet
<1>7. Now("poll", e, Top.at) = Frame("poll", gEfiCurrentTpl, e, Top.at)
  BY <1>4 DEF Now
<1> QED BY <1>1, <1>2, <1>3, <1>4, <1>6, <1>7, CoreCheckEventInv

LEMMA WaitIdleInv ==
  ASSUME TypeOK, StackInv, WaitIdle PROVE StackInv'
<1> DEFINE x == Now("wait", NoEvent, 1)
           r == Append(Callers, x)
<1>1. Top.pc = "wait" /\ ~IsMain(Top) /\ CoreSignalEvent(IdleLoop, Top.tpl, r)
  BY DEF WaitIdle, IsMain
<1>2. x \in Frames
  <2>1. 1 \in Int /\ 1 >= 1
    OBVIOUS
  <2> QED BY <2>1, Running, NewFrameNoEvent DEF Now
<1>3. StackOK(r) /\ Callers \in Stacks
  BY <1>1, <1>2, ServiceNow DEF Quiet
<1>4. RunsAt(x, Top.tpl)
  BY NowFields, RunsAtCases DEF LockHolder
<1>5. r \in Stacks /\ r[Len(r)] = x
  BY <1>2, <1>3, Push
<1>6. IdleLoop \in Event
  BY DEF Event
<1> HIDE DEF x, r
<1> QED BY <1>1, <1>3, <1>4, <1>5, <1>6, Running, CoreSignalEventInv

LEMMA CloseEventInv ==
  ASSUME TypeOK, StackInv, NEW e \in Client, CloseEvent(e) PROVE StackInv'
<1> DEFINE t == gEfiCurrentTpl
           close == Frame("close", t, e, 0)
           cancel == Frame("SetTimer", t, e, -1)
           r == Append(stack, close)
<1>1. /\ t <= TPL_NOTIFY /\ UNCHANGED <<gEfiCurrentTpl, intr>> /\ ClientRuns
      /\ stack' = stack \o <<close>> \o (IF IsTimer(e) THEN <<cancel>> ELSE <<>>)
  BY DEF CloseEvent, Invokes
<1>2. /\ t \in 0..TPL_HIGH_LEVEL /\ t <= TPL_TIMER
      /\ e \in Event /\ 0 \in Int /\ -1 \in Int
  BY <1>1 DEF TypeOK, ServiceType, Event, TPL_NOTIFY, TPL_TIMER
<1>3. close \in Frames /\ cancel \in Frames
  BY <1>2, NewFrame
<1>4. StackOK(r) /\ RunsAt(close, t)
  BY <1>1, <1>3, ServicePush
<1>5. close.pc = "close" /\ close.tpl = t /\ cancel.pc = "SetTimer" /\ cancel.tpl = t
  BY FrameParts
<1>6. stack \in Stacks /\ Top.pc \notin Settling
  BY <1>1, ClientAt DEF ClientRuns
<1>7. r \in Stacks /\ stack \o <<close>> = r /\ r[Len(r)] = close
  BY <1>3, <1>6, Push DEF Stacks
<1> HIDE DEF close, cancel, t
<1>8. CASE IsTimer(e)
  <2>1. stack' = r \o <<cancel>>
    BY <1>1, <1>7, <1>8
  <2>2. stack' = Append(r, cancel)
    BY <1>3, <1>7, <2>1 DEF Stacks
  <2>3. Resume(cancel) = t /\ Base(cancel) = t
    BY <1>5 DEF Resume, Base, LockHolder
  <2>4. Resume(cancel) <= Base(cancel)
    BY <1>2, <2>3, LevelOrder
  <2>5. Calls(close, cancel)
    BY <1>4, <1>5, <2>3 DEF Calls, Notification, Quiet, LockHolder
  <2> HIDE DEF r
  <2>6. StackOK(Append(r, cancel))
    BY <1>3, <1>4, <1>5, <1>7, <2>4, <2>5, PushOK DEF IsMain
  <2>7. RunsAt(cancel, t)
    BY <1>5, RunsAtCases DEF LockHolder
  <2> QED BY <1>1, <1>3, <1>6, <1>7, <2>2, <2>6, <2>7, SameLevelTop DEF t
<1>9. CASE ~IsTimer(e)
  <2>1. stack' = r \o <<>>
    BY <1>1, <1>7, <1>9
  <2>2. stack' = Append(stack, close)
    BY <1>7, <2>1 DEF Stacks
  <2> QED BY <1>1, <1>3, <1>4, <1>6, <2>2, SameLevelTop DEF t
<1> QED BY <1>8, <1>9

LEMMA CloseUnlinkInv ==
  ASSUME TypeOK, StackInv, CloseUnlink PROVE StackInv'
<1> DEFINE x == Now("free", Top.ev, 0)
           r == Append(Callers, x)
<1>1. /\ Top.pc = "close" /\ ~IsMain(Top) /\ AtHighLevel
      /\ stack' = Callers \o <<x, Restore(Top.tpl)>>
  BY DEF CloseUnlink, IsMain
<1>2. x \in Frames
  <2>1. Top.ev \in Event
    BY <1>1, Running DEF Frames, FrameOK
  <2> QED BY <2>1, Running, Levels, NewFrame DEF Now
<1>3. StackOK(r) /\ Callers \in Stacks
  BY <1>1, <1>2, ServiceNow DEF Quiet
<1>4. RunsAt(x, Top.tpl)
  BY NowFields, RunsAtCases DEF LockHolder
<1>5. r \in Stacks /\ r[Len(r)] = x /\ stack' = Append(r, Restore(Top.tpl))
  BY <1>1, <1>2, <1>3, Push, PushPush, Running
<1> HIDE DEF x, r
<1> QED BY <1>1, <1>3, <1>4, <1>5, HighTop, Running

-----------------------------------------------------------------------------
(* Timer.c.                                                                 *)

LEMMA SetTimerInv ==
  ASSUME TypeOK, StackInv, NEW e \in Client, SetTimer(e) PROVE StackInv'
<1>1. PICK d \in Delays, pc \in {"SetTimer", "SetPeriodic"} :
        stack' = Append(stack, Frame(pc, gEfiCurrentTpl, e, d))
  BY DEF SetTimer
<1>2. /\ UNCHANGED <<gEfiCurrentTpl, intr>> /\ ClientRuns
      /\ gEfiCurrentTpl \in 0..TPL_HIGH_LEVEL /\ gEfiCurrentTpl <= TPL_TIMER
      /\ d \in Int /\ e \in Event
  BY TimerAssumption DEF SetTimer, Invokes, TypeOK, ServiceType, Event
<1>3. Frame(pc, gEfiCurrentTpl, e, d) \in Frames
  BY <1>2, NewFrame
<1> QED BY <1>1, <1>2, <1>3, ServiceCall

\* A step under mEfiTimerLock that leaves the level alone.
LEMMA LockStep ==
  ASSUME TypeOK, StackInv, Top.pc \in LockHolder \cup {"check"},
         UNCHANGED <<gEfiCurrentTpl, intr>>,
         NEW pc \in LockHolder, NEW e, NEW n, Now(pc, e, n) \in Frames,
         pc \in {"scan", "fire", "rearm", "reinsert"} => Notification(Top),
         stack' = Append(Callers, Now(pc, e, n))
  PROVE  StackInv'
<1> DEFINE x == Now(pc, e, n)
<1>1. Notification(x) => Notification(Top)
  BY NowFields DEF Notification, LockHolder
<1>2. /\ StackOK(Append(Callers, x)) /\ Callers \in Stacks
      /\ RunsAt(x, TPL_TIMER)
  BY <1>1, LockNow
<1>3. gEfiCurrentTpl = TPL_TIMER
  <2>1. Top.pc = "check" => Top.tpl = TPL_TIMER
    BY Running DEF Frames, FrameOK
  <2> QED BY <2>1, RunsAtCases DEF StackInv, LockHolder
<1>4. Top.pc \notin Settling
  BY DEF Settling, LockHolder
<1> HIDE DEF x
<1> QED BY <1>2, <1>3, <1>4, SameLevelTop DEF x

\* An event is signalled under mEfiTimerLock.
LEMMA LockSignal ==
  ASSUME TypeOK, StackInv, Top.pc \in LockHolder,
         NEW pc \in LockHolder, NEW e, NEW n, Now(pc, e, n) \in Frames,
         pc \in {"scan", "fire", "rearm", "reinsert"} => Notification(Top),
         NEW d \in Event, CoreSignalEvent(d, TPL_TIMER, Append(Callers, Now(pc, e, n)))
  PROVE  StackInv'
<1> DEFINE x == Now(pc, e, n)
           r == Append(Callers, x)
<1>1. Notification(x) => Notification(Top)
  BY NowFields DEF Notification, LockHolder
<1>2. StackOK(r) /\ Callers \in Stacks /\ RunsAt(x, TPL_TIMER)
  BY <1>1, LockNow
<1>3. r \in Stacks /\ r[Len(r)] = x
  BY <1>2, Push
<1> HIDE DEF x, r
<1>4. CoreSignalEvent(d, TPL_TIMER, r)
  BY DEF x, r
<1> QED BY <1>2, <1>3, <1>4, Levels, CoreSignalEventInv

LEMMA TimerLockInv ==
  ASSUME TypeOK, StackInv, TimerLock PROVE StackInv'
<1>1. /\ Top.pc \in {"SetTimer", "SetPeriodic"} /\ gEfiCurrentTpl' = TPL_TIMER
      /\ intr' = intr
      /\ \/ stack' = Append(Callers, Now("unlinkOne", Top.ev, Top.at))
         \/ stack' = Append(Callers, Now("unlinkPeriodic", Top.ev, Top.at))
  BY DEF TimerLock, Goto
<1>2. PICK pc \in {"unlinkOne", "unlinkPeriodic"} :
        stack' = Append(Callers, Now(pc, Top.ev, Top.at))
  BY <1>1
<1> DEFINE x == Now(pc, Top.ev, Top.at)
<1>3. x \in Frames
  <2>1. Top.ev \in Event
    BY <1>1, Running DEF Frames, FrameOK
  <2> QED BY <1>2, <2>1, Running, NewFrame DEF Now
<1>4. /\ StackOK(Append(Callers, x)) /\ Callers \in Stacks
      /\ RunsAt(x, TPL_TIMER)
  <2>1. x.pc = pc
    BY NowFields
  <2>2. ~Notification(x) /\ pc \in LockHolder
    BY <2>1 DEF Notification, LockHolder
  <2> HIDE DEF x
  <2> QED BY <1>1, <1>3, <2>2, LockNow DEF x
<1>5. gEfiCurrentTpl < TPL_HIGH_LEVEL
  <2>1. gEfiCurrentTpl = Top.tpl
    BY <1>1, RunsAtCases DEF StackInv, LockHolder
  <2>2. Top.tpl <= TPL_TIMER /\ Top.tpl \in 0..TPL_HIGH_LEVEL
    BY <1>1, Running DEF Frames, FrameOK
  <2> QED BY <2>1, <2>2 DEF TPL_TIMER, TPL_HIGH_LEVEL
<1>6. intr' = TRUE
  BY <1>1, <1>5 DEF StackInv
<1>7. gEfiCurrentTpl' < TPL_HIGH_LEVEL
  BY <1>1 DEF TPL_TIMER, TPL_HIGH_LEVEL
<1>8. intr' = (gEfiCurrentTpl' < TPL_HIGH_LEVEL)
  BY <1>6, <1>7
<1>9. RunsAt(x, gEfiCurrentTpl')
  BY <1>1, <1>4
<1> HIDE DEF x
<1> QED BY <1>2, <1>3, <1>4, <1>7, <1>8, <1>9, NewTop DEF x

LEMMA TimerUnlinkInv ==
  ASSUME TypeOK, StackInv, TimerUnlink PROVE StackInv'
<1> DEFINE d == IF Top.pc = "unlinkPeriodic" /\ Top.at = 0 THEN TickPeriod ELSE Top.at
<1>1. /\ Top.pc \in {"unlinkOne", "unlinkPeriodic"} /\ UNCHANGED <<gEfiCurrentTpl, intr>>
      /\ stack' = Append(Callers,
                    IF d = -1 THEN Now("unlock", Top.ev, 0) ELSE Now("arm", Top.ev, d))
  BY DEF TimerUnlink
<1>2. Top.ev \in Event /\ Top.pc \in LockHolder
  BY <1>1, Running DEF Frames, FrameOK, LockHolder
<1>3. d \in Int
  BY Running, TimerAssumption
<1> HIDE DEF d
<1>4. Now("unlock", Top.ev, 0) \in Frames /\ Now("arm", Top.ev, d) \in Frames
  BY <1>2, <1>3, Levels, Running, NewFrame DEF Now
<1>5. "unlock" \in LockHolder /\ "arm" \in LockHolder
  BY DEF LockHolder
<1>6. CASE d = -1
  <2>1. stack' = Append(Callers, Now("unlock", Top.ev, 0))
    BY <1>1, <1>6
  <2> QED BY <1>1, <1>2, <1>4, <1>5, <2>1, LockStep
<1>7. CASE d # -1
  <2>1. stack' = Append(Callers, Now("arm", Top.ev, d))
    BY <1>1, <1>7
  <2> QED BY <1>1, <1>2, <1>4, <1>5, <2>1, LockStep
<1> QED BY <1>6, <1>7

LEMMA TimerArmInv ==
  ASSUME TypeOK, StackInv, TimerArm PROVE StackInv'
<1>1. /\ Top.pc = "arm" /\ UNCHANGED <<gEfiCurrentTpl, intr>>
      /\ stack' = Append(Callers, Now("insert", Top.ev, Top.at))
  BY DEF TimerArm, Goto
<1>2. Top.ev \in Event /\ Top.pc \in LockHolder /\ "insert" \in LockHolder
  BY <1>1, Running DEF Frames, FrameOK, LockHolder
<1>3. Now("insert", Top.ev, Top.at) \in Frames
  BY <1>2, Running, NewFrame DEF Now
<1> QED BY <1>1, <1>2, <1>3, LockStep

LEMMA TimerInsertInv ==
  ASSUME TypeOK, StackInv, TimerInsert PROVE StackInv'
<1> DEFINE x == Now("unlock", Top.ev, Top.at)
<1>1. /\ Top.pc = "insert"
      /\ \/ CoreSignalEvent(CheckTimer, TPL_TIMER, Append(Callers, x))
         \/ stack' = Append(Callers, x) /\ UNCHANGED <<gEfiCurrentTpl, intr>>
  BY Zenon DEF TimerInsert, Goto
<1>2. Top.ev \in Event /\ CheckTimer \in Event
  BY <1>1, Running DEF Frames, FrameOK, Event
<1>3. x \in Frames
  BY <1>2, Running, NewFrame DEF Now
<1>4. Top.pc \in LockHolder /\ "unlock" \in LockHolder
  BY <1>1 DEF LockHolder
<1>5. CASE CoreSignalEvent(CheckTimer, TPL_TIMER, Append(Callers, x))
  BY <1>2, <1>3, <1>4, <1>5, LockSignal
<1>6. CASE stack' = Append(Callers, x) /\ UNCHANGED <<gEfiCurrentTpl, intr>>
  BY <1>3, <1>4, <1>6, LockStep
<1> QED BY <1>1, <1>5, <1>6

\* mEfiTimerLock is released: CoreRestoreTpl is left to run.
LEMMA TimerRelease ==
  ASSUME TypeOK, StackInv, Top.pc \in LockHolder, UNCHANGED <<gEfiCurrentTpl, intr>>,
         stack' = Append(Callers, Restore(Top.tpl))
  PROVE  StackInv'
<1> DEFINE y == Restore(Top.tpl)
<1>1. StackOK(Callers) /\ Calls(Callers[Len(Callers)], Top) /\ Callers \in Stacks
  BY Below DEF LockHolder, IsMain
<1>2. RunsAt(Callers[Len(Callers)], Top.tpl)
  BY <1>1 DEF Calls, Resume, LockHolder
<1>3. StackOK(Append(Callers, y)) /\ y \in Frames
  BY <1>1, <1>2, RestoreOK, Running
<1>4. y.pc = "restore" /\ y.tpl = Top.tpl
  BY DEF Restore, Frame
<1>5. Top.tpl <= gEfiCurrentTpl
  BY RunsAtCases DEF StackInv
<1>6. RunsAt(y, gEfiCurrentTpl) /\ y.pc \in Settling
  BY <1>4, <1>5, RunsAtCases DEF Settling
<1> HIDE DEF y
<1> QED BY <1>1, <1>3, <1>6, SameLevelTop DEF y

LEMMA TimerUnlockInv ==
  ASSUME TypeOK, StackInv, TimerUnlock PROVE StackInv'
BY TimerRelease DEF TimerUnlock, LockHolder

\* What the steps of CoreCheckTimers need of the running frame.
LEMMA Checking ==
  ASSUME TypeOK, Top.pc \in {"check", "scan", "fire", "rearm", "reinsert"}
  PROVE  /\ Notification(Top) /\ Top.pc \in LockHolder \cup {"check"}
         /\ {"scan", "fire", "rearm", "reinsert"} \subseteq LockHolder
BY DEF Notification, LockHolder

LEMMA CheckStartInv ==
  ASSUME TypeOK, StackInv, CheckStart PROVE StackInv'
<1>1. /\ Top.pc = "check" /\ UNCHANGED <<gEfiCurrentTpl, intr>>
      /\ stack' = Append(Callers, Now("scan", CheckTimer, mEfiSystemTime))
  BY DEF CheckStart
<1>2. Now("scan", CheckTimer, mEfiSystemTime) \in Frames
  <2>1. mEfiSystemTime \in Int
    BY DEF TypeOK, TimerType
  <2> QED BY <1>1, <2>1, CheckFrames
<1>3. Notification(Top) /\ Top.pc \in LockHolder \cup {"check"} /\ "scan" \in LockHolder
  BY <1>1, Checking
<1> QED BY <1>1, <1>2, <1>3, LockStep

LEMMA CheckRemoveInv ==
  ASSUME TypeOK, StackInv, CheckRemove PROVE StackInv'
<1> DEFINE e == Head(mEfiTimerList)
<1>1. /\ Top.pc = "scan" /\ mEfiTimerList # <<>> /\ UNCHANGED <<gEfiCurrentTpl, intr>>
      /\ stack' = Append(Callers, Now("fire", e, Top.at))
  BY DEF CheckRemove, Expired
<1>2. e \in Event
  BY <1>1, HeadTailProperties DEF TypeOK, TimerType
<1> HIDE DEF e
<1>3. Now("fire", e, Top.at) \in Frames
  BY <1>1, <1>2, Running, CheckFrames
<1>4. Notification(Top) /\ Top.pc \in LockHolder \cup {"check"} /\ "fire" \in LockHolder
  BY <1>1, Checking
<1> QED BY <1>1, <1>3, <1>4, LockStep

LEMMA CheckFireInv ==
  ASSUME TypeOK, StackInv, CheckFire PROVE StackInv'
<1>1. /\ Top.pc = "fire"
      /\ CoreSignalEvent(Top.ev, TPL_TIMER, Append(Callers, Now("rearm", Top.ev, Top.at)))
  BY DEF CheckFire
<1>2. Now("rearm", Top.ev, Top.at) \in Frames /\ Top.ev \in Event
  BY <1>1, Running, CheckFrames
<1>3. Notification(Top) /\ Top.pc \in LockHolder /\ "rearm" \in LockHolder
  BY <1>1 DEF Notification, LockHolder
<1> QED BY <1>1, <1>2, <1>3, LockSignal

LEMMA NextScanInv ==
  ASSUME TypeOK, StackInv, Top.pc \in {"rearm", "reinsert"}, NextScan,
         UNCHANGED <<gEfiCurrentTpl, intr>>
  PROVE  StackInv'
<1>1. stack' = Append(Callers, Now("scan", CheckTimer, Top.at))
  BY DEF NextScan
<1>2. Now("scan", CheckTimer, Top.at) \in Frames
  BY Running, CheckFrames
<1>3. Notification(Top) /\ Top.pc \in LockHolder \cup {"check"} /\ "scan" \in LockHolder
  BY Checking
<1> QED BY <1>1, <1>2, <1>3, LockStep

LEMMA CheckRearmInv ==
  ASSUME TypeOK, StackInv, CheckRearm PROVE StackInv'
<1> DEFINE x == Now("reinsert", Top.ev, Top.at)
<1>1. /\ Top.pc = "rearm"
      /\ \/ NextScan /\ UNCHANGED <<gEfiCurrentTpl, intr>>
         \/ CoreSignalEvent(CheckTimer, TPL_TIMER, Append(Callers, x))
  BY Zenon DEF CheckRearm
<1>2. CASE NextScan /\ UNCHANGED <<gEfiCurrentTpl, intr>>
  BY <1>1, <1>2, NextScanInv
<1>3. CASE CoreSignalEvent(CheckTimer, TPL_TIMER, Append(Callers, x))
  <2>1. x \in Frames /\ CheckTimer \in Event
    BY <1>1, Running, CheckFrames
  <2>2. Notification(Top) /\ Top.pc \in LockHolder /\ "reinsert" \in LockHolder
    BY <1>1 DEF Notification, LockHolder
  <2> QED BY <1>3, <2>1, <2>2, LockSignal
<1> QED BY <1>1, <1>2, <1>3

LEMMA CheckReinsertInv ==
  ASSUME TypeOK, StackInv, CheckReinsert PROVE StackInv'
BY NextScanInv DEF CheckReinsert

LEMMA CheckDoneInv ==
  ASSUME TypeOK, StackInv, CheckDone PROVE StackInv'
<1>1. /\ Top.pc = "scan" /\ UNCHANGED <<gEfiCurrentTpl, intr>>
      /\ stack' = Append(Callers, Restore(TPL_TIMER))
  BY DEF CheckDone
<1>2. Top.tpl = TPL_TIMER /\ Top.pc \in LockHolder
  BY <1>1, CheckFrames DEF LockHolder
<1> QED BY <1>1, <1>2, TimerRelease

LEMMA TimerInterruptInv ==
  ASSUME TypeOK, StackInv, TimerInterrupt PROVE StackInv'
<1> DEFINE t == gEfiCurrentTpl
           x == Frame("iret", t, NoEvent, 0)
           handler == Append(stack, x)
<1>1. /\ intr
      /\ \/ CoreSignalEvent(CheckTimer, t, handler)
         \/ AtHighLevel /\ stack' = Append(handler, Restore(t))
  BY Zenon DEF TimerInterrupt
<1>2. /\ t \in 0..TPL_HIGH_LEVEL /\ t < TPL_HIGH_LEVEL /\ RunsAt(Top, t)
      /\ stack \in Stacks /\ StackOK(stack) /\ Top = stack[Len(stack)]
  BY <1>1, Running DEF TypeOK, ServiceType, StackInv, Top
<1> HIDE DEF t
<1>3. x \in Frames /\ x.pc = "iret" /\ x.tpl = t
  BY <1>2, Levels, NewFrameNoEvent, FrameParts
<1> HIDE DEF x
<1>4. Resume(x) = t /\ Base(x) = t
  BY <1>3 DEF Resume, Base, LockHolder
<1>5. Resume(x) <= Base(x)
  BY <1>2, <1>4, LevelOrder
<1>6. Calls(Top, x)
  BY <1>2, <1>3, <1>4 DEF Calls, Notification, Quiet
<1>7. StackOK(handler)
  BY <1>2, <1>3, <1>5, <1>6, PushOK DEF IsMain
<1>8. handler \in Stacks /\ handler[Len(handler)] = x
  BY <1>2, <1>3, Push
<1> HIDE DEF handler
<1>9. RunsAt(x, t)
  BY <1>3, RunsAtCases DEF LockHolder
<1>10. CASE CoreSignalEvent(CheckTimer, t, handler)
  <2>1. CheckTimer \in Event
    BY DEF Event
  <2> QED BY <1>2, <1>7, <1>8, <1>9, <1>10, <2>1, CoreSignalEventInv
<1>11. CASE AtHighLevel /\ stack' = Append(handler, Restore(t))
  BY <1>2, <1>7, <1>8, <1>9, <1>11, HighTop
<1> QED BY <1>1, <1>10, <1>11

LEMMA InterruptReturnInv ==
  ASSUME TypeOK, StackInv, InterruptReturn PROVE StackInv'
<1>1. /\ Top.pc = "iret" /\ ~IsMain(Top) /\ stack' = Callers
      /\ gEfiCurrentTpl' = gEfiCurrentTpl /\ intr' = TRUE
  BY DEF InterruptReturn, IsMain
<1>2. Top.tpl < TPL_HIGH_LEVEL
  BY <1>1, Running DEF StackInv, StackOK, Top, Stacks
<1>3. gEfiCurrentTpl = Top.tpl
  BY <1>1, RunsAtCases DEF StackInv, LockHolder
<1>4. Resume(Top) = Top.tpl
  BY <1>1 DEF Resume
<1>5. intr' = (gEfiCurrentTpl' < TPL_HIGH_LEVEL)
  BY <1>1, <1>2, <1>3
<1> QED BY <1>1, <1>3, <1>4, <1>5, PopTop

-----------------------------------------------------------------------------
(* The whole specification.                                                 *)

LEMMA InitInv == Init => StackInv
<1> SUFFICES ASSUME Init PROVE StackInv
  OBVIOUS
<1> DEFINE main == Frame("run", TPL_APPLICATION, NoEvent, 0)
<1>1. stack = <<main>> /\ gEfiCurrentTpl = TPL_APPLICATION /\ intr = TRUE
  BY DEF Init
<1>2. main.pc = "run" /\ main.tpl = TPL_APPLICATION
  BY FrameParts
<1> HIDE DEF main, Init
<1>3. Len(stack) = 1 /\ DOMAIN stack = {1} /\ stack[1] = main /\ Top = main
  BY <1>1 DEF Top
<1>4. StackOK(stack)
  <2>1. \A i \in 2..Len(stack) : FALSE
    BY <1>3
  <2>2. \A i, j \in DOMAIN stack : ~(i < j)
    BY <1>3
  <2> QED BY <1>2, <1>3, <2>1, <2>2 DEF StackOK
<1>5. RunsAt(Top, gEfiCurrentTpl)
  BY <1>1, <1>2, <1>3, RunsAtCases DEF LockHolder
<1>6. gEfiCurrentTpl < TPL_HIGH_LEVEL
  BY <1>1 DEF TPL_APPLICATION, TPL_HIGH_LEVEL
<1> QED BY <1>1, <1>4, <1>5, <1>6 DEF StackInv

LEMMA FrameStepInv ==
  ASSUME TypeOK, StackInv, ~Reload, FrameStep PROVE StackInv'
<1>1. CASE TplStep
  BY <1>1, RestoreLoopInv, RestorePickInv, RestoreLowerInv, DispatchPopInv, DispatchDoneInv,
     DispatchCallInv, Zenon DEF TplStep
<1>2. CASE ServiceStep /\ ~TplStep
  BY <1>2, RestoreTPLInv, ReturnInv, GroupLockInv, GroupMemberInv, GroupUnlockInv,
     SignalRelockInv, PollSignalledInv, PollNotReadyInv, WaitCheckInv, WaitIdleInv,
     CloseUnlinkInv, CloseFreeInv, Zenon DEF ServiceStep
<1>3. CASE ~ServiceStep
  BY <1>3, TimerLockInv, TimerUnlinkInv, TimerArmInv, TimerInsertInv, TimerUnlockInv,
     CheckStartInv, CheckRemoveInv, CheckFireInv, CheckRearmInv, CheckReinsertInv,
     CheckDoneInv, InterruptReturnInv, Zenon DEF FrameStep
<1> QED BY <1>1, <1>2, <1>3

LEMMA NextInv ==
  ASSUME TypeOK, StackInv, ~Reload, [Next]_vars PROVE StackInv'
<1>1. CASE FrameStep
  BY <1>1, FrameStepInv
<1>2. CASE ClientCall
  BY <1>2, RaiseTPLInv, CreateEventInv, SignalEventInv, CheckEventInv, CloseEventInv,
     WaitForEventInv, Zenon DEF ClientCall
<1>3. ASSUME NEW e \in Client, SetTimer(e) PROVE StackInv'
  BY <1>3, SetTimerInv
<1>4. CASE TimerInterrupt
  BY <1>4, TimerInterruptInv
<1>5. CASE UNCHANGED vars
  <2>1. gEfiCurrentTpl' = gEfiCurrentTpl /\ intr' = intr /\ stack' = stack
    BY <1>5, Zenon DEF vars, tplVars
  <2>2. Top' = Top
    BY <2>1 DEF Top
  <2> QED BY <2>1, <2>2 DEF StackInv
<1> QED BY <1>1, <1>2, <1>3, <1>4, <1>5, Zenon DEF Next

(* The call stack always has the shape StackInv describes, whatever the     *)
(* drivers' events, levels, groups and delays, and however deep timer       *)
(* interrupts nest (Tpl.c, Event.c:157-213, Timer.c:98-174), in a build     *)
(* that loads gEventPending once per pass of CoreRestoreTpl's loop.         *)
THEOREM StackShape ==
  ASSUME ~Reload PROVE Spec => []StackInv
<1>1. Init => TypeOK /\ StackInv
  BY InitType, InitInv
<1>2. (TypeOK /\ StackInv) /\ [Next]_vars => (TypeOK /\ StackInv)'
  BY NextType, NextInv
<1> QED BY <1>1, <1>2, PTL DEF Spec

-----------------------------------------------------------------------------
(* What follows from the shape of the stack.                                *)

LEMMA CallersOf ==
  ASSUME NEW s \in Stacks, StackOK(s), NEW j \in DOMAIN s, ~IsMain(s[j])
  PROVE  j - 1 \in DOMAIN s /\ Calls(s[j-1], s[j])
<1>1. s \in Seq(Frames) /\ IsMain(s[1]) /\ DOMAIN s = 1..Len(s) /\ Len(s) \in Nat
  BY DEF Stacks
<1>2. j \in 2..Len(s)
  BY <1>1
<1> QED BY <1>1, <1>2 DEF StackOK

LEMMA StackNests == TypeOK /\ StackInv => NotificationsNest
<1> SUFFICES ASSUME TypeOK, StackInv, NEW i \in DOMAIN stack, NEW j \in DOMAIN stack,
                    i < j, DriverCode(stack[i]), Notification(stack[j])
             PROVE  stack[i].tpl < stack[j].tpl
  BY DEF NotificationsNest
<1> DEFINE f == stack[i]
           h == stack[j]
           k == stack[j-1]
<1>1. stack \in Stacks /\ StackOK(stack) /\ f \in Frames /\ h \in Frames
  BY Running DEF StackInv, Stacks
<1>2. ~IsMain(h)
  BY DEF IsMain, Notification
<1>3. j - 1 \in DOMAIN stack /\ Calls(k, h)
  BY <1>1, <1>2, CallersOf
<1>4. k.pc = "dispatch" /\ k.tpl = h.tpl
  BY <1>3 DEF Calls
<1>5. i \in Int /\ j \in Int /\ i < j - 1
  <2>1. i \in Int /\ j \in Int /\ i # j - 1
    BY <1>1, <1>4 DEF Stacks, DriverCode
  <2> QED BY <2>1
<1>6. Base(f) < k.tpl
  BY <1>1, <1>3, <1>4, <1>5 DEF StackOK
<1>7. Base(f) = f.tpl
  BY DEF Base, DriverCode, LockHolder
<1> QED BY <1>4, <1>6, <1>7

(* Notification functions nest strictly by level: none preempts code that   *)
(* runs at, or raised to, its own level (Tpl.c:126-131).                    *)
THEOREM NestingCorrect ==
  ASSUME ~Reload PROVE Spec => []NotificationsNest
BY TypeCorrect, StackShape, StackNests, PTL

LEMMA StackRestores == TypeOK /\ StackInv => LevelRestored
<1> SUFFICES ASSUME TypeOK, StackInv, DriverCode(Top)
             PROVE  gEfiCurrentTpl = Top.tpl /\ intr = (gEfiCurrentTpl < TPL_HIGH_LEVEL)
  BY DEF LevelRestored
<1>1. gEfiCurrentTpl = Top.tpl
  BY ClientAt DEF DriverCode
<1>2. intr = (gEfiCurrentTpl < TPL_HIGH_LEVEL)
  BY DEF StackInv, DriverCode
<1> QED BY <1>1, <1>2

(* Every service returns to driver code at the level at which it was        *)
(* called, with interrupts enabled below TPL_HIGH_LEVEL (Tpl.c:96-152).     *)
THEOREM LevelCorrect ==
  ASSUME ~Reload PROVE Spec => []LevelRestored
BY TypeCorrect, StackShape, StackRestores, PTL

LEMMA StackHoldsLockOnce ==
  ASSUME TypeOK, StackInv, NEW i \in DOMAIN stack, NEW j \in DOMAIN stack,
         i < j, stack[i].pc \in LockHolder
  PROVE  stack[j].pc \in Quiet
BY DEF StackInv, StackOK

LEMMA StackAsserts == TypeOK /\ StackInv => CoreAssertions
<1> SUFFICES ASSUME TypeOK, StackInv PROVE CoreAssertions
  OBVIOUS
<1>1. RunsAt(Top, gEfiCurrentTpl) /\ stack \in Stacks /\ Top \in Frames
  BY Running DEF StackInv
<1>2. Top.pc # "halt"
  BY <1>1 DEF StackInv, StackOK, Top, Stacks
<1>3. Top.pc \in {"restore", "lower"} => Top.tpl <= gEfiCurrentTpl
  BY <1>1, RunsAtCases
<1>4. Top.pc \in {"SetTimer", "SetPeriodic"} => Top.tpl <= gEfiCurrentTpl
  <2> SUFFICES ASSUME Top.pc \in {"SetTimer", "SetPeriodic"} PROVE Top.tpl <= gEfiCurrentTpl
    OBVIOUS
  <2>1. gEfiCurrentTpl = Top.tpl
    BY <1>1, RunsAtCases DEF LockHolder
  <2> QED BY <2>1, Running, LevelOrder
<1>5. Top.pc = "pick" => Top.tpl < Top.at
  BY <1>1, RunsAtCases
<1>6. Top.pc = "dispatch" => gEfiCurrentTpl = Top.tpl
  BY <1>1, RunsAtCases DEF LockHolder
<1>7. Top.pc \in LockHolder => gEfiCurrentTpl = TPL_TIMER
  BY <1>1, RunsAtCases
<1>8. ASSUME NEW i \in DOMAIN stack, NEW j \in DOMAIN stack,
             stack[i].pc \in LockHolder, stack[j].pc \in LockHolder
      PROVE  i = j
  <2>1. i \in Int /\ j \in Int
    BY <1>1 DEF Stacks
  <2>2. stack[i].pc \notin Quiet /\ stack[j].pc \notin Quiet
    BY <1>8 DEF LockHolder, Quiet
  <2>3. ~(i < j) /\ ~(j < i)
    BY <1>8, <2>2, StackHoldsLockOnce
  <2> QED BY <2>1, <2>3
<1> QED BY <1>2, <1>3, <1>4, <1>5, <1>6, <1>7, <1>8 DEF CoreAssertions

(* The ASSERTs of CoreRaiseTpl, CoreRestoreTpl and CoreAcquireLock hold in  *)
(* every behaviour (Tpl.c:68-71,108-111, Event.c:172, Library.c:71).        *)
THEOREM AssertionsHold ==
  ASSUME ~Reload PROVE Spec => []CoreAssertions
BY TypeCorrect, StackShape, StackAsserts, PTL

LEMMA StackAtomic == TypeOK /\ StackInv => DatabaseAtomic
<1> SUFFICES ASSUME TypeOK, StackInv, NEW i \in DOMAIN stack, NEW j \in DOMAIN stack,
                    i < j, stack[i].pc \in LockHolder
             PROVE  ~DriverCode(stack[j])
  BY DEF DatabaseAtomic
<1> QED BY StackHoldsLockOnce DEF DriverCode, Quiet

(* No driver code runs while mEfiTimerLock is held (Timer.c:98-174,250-305). *)
THEOREM AtomicityCorrect ==
  ASSUME ~Reload PROVE Spec => []DatabaseAtomic
BY TypeCorrect, StackShape, StackAtomic, PTL

=============================================================================
