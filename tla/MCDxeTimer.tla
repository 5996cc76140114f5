----------------------------- MODULE MCDxeTimer -----------------------------
(***************************************************************************)
(* Small sets of events for model checking DxeTimer: each run uses one of  *)
(* these profiles of events with the bounds of its configuration.          *)
(***************************************************************************)
EXTENDS DxeEvents

CONSTANTS p, q, r, g

Events == {p, q, r}
None   == [e \in Events |-> NoGroup]

\* Notifications: a callback fired by timer and a callback and a notify-level
\* event signalled by software.
NotifyTypes  == (p :> {"timer", "signal"}) @@ (q :> {"signal"}) @@ (r :> {"signal"})
NotifyLevels == (p :> TPL_CALLBACK) @@ (q :> TPL_CALLBACK) @@ (r :> TPL_NOTIFY)

\* Timers: at both levels, and one that is only polled.
TimerTypes   == (p :> {"timer", "signal"}) @@ (q :> {"timer", "signal"}) @@ (r :> {"timer"})
TimerLevels  == (p :> TPL_NOTIFY) @@ (q :> TPL_CALLBACK) @@ (r :> 0)

\* Groups and polling: a wait event, and a timer and an event of one group.
GroupTypes   == (p :> {"timer", "wait"}) @@ (q :> {"signal"}) @@ (r :> {"signal"})
GroupLevels  == (p :> TPL_NOTIFY) @@ (q :> TPL_CALLBACK) @@ (r :> TPL_NOTIFY)
Groups       == (p :> NoGroup) @@ (q :> g) @@ (r :> g)

\* Waiting: a wait event, a polled timer and a member of the idle group.
WaitTypes    == (p :> {"wait"}) @@ (q :> {"timer"}) @@ (r :> {"signal"})
WaitLevels   == (p :> TPL_NOTIFY) @@ (q :> 0) @@ (r :> TPL_CALLBACK)
WaitGroups   == (p :> NoGroup) @@ (q :> NoGroup) @@ (r :> IdleGroup)

NoArrays   == {}
Pairs      == {<<p, q>>}
Alone      == {<<p>>}
Relative   == {0, 1}
WithCancel == {-1, 0, 1}
OneTick    == {1}
=============================================================================
