-------------------------- MODULE NotifyScheduler ---------------------------
(***************************************************************************)
(* What the task priority levels promise to driver code: a preemptive      *)
(* priority scheduler of notifications on one processor.                   *)
(*                                                                         *)
(* An event that is signalled owes one notification, however often it is   *)
(* signalled before the notification starts.  A notification starts only   *)
(* above everything that is active, and contexts end in the reverse order  *)
(* in which they started.                                                  *)
(***************************************************************************)
EXTENDS Integers, SequencesExt

CONSTANTS
  Events,       \* the events that can owe a notification
  LevelOf(_),   \* the level of an event's notification
  MainLevel,    \* the level of the main program
  NoEvent,      \* a context that is no notification: the main program, a raised section
  TopLevel      \* the highest level driver code can raise to

VARIABLES
  owed,         \* the events that owe a notification
  active        \* the active contexts with their levels, the running one last

Context(e, t) == [event |-> e, level |-> t]
Level == Last(active).level

Init == owed = {} /\ active = <<Context(NoEvent, MainLevel)>>

Signal == \E S \in SUBSET Events : owed' = owed \cup S /\ UNCHANGED active

Cancel == \E e \in owed : owed' = owed \ {e} /\ UNCHANGED active

\* A notification preempts the running context.
Start ==
  \E e \in owed :
    /\ LevelOf(e) > Level
    /\ owed' = owed \ {e}
    /\ active' = Append(active, Context(e, LevelOf(e)))

\* Driver code raises its own level for a while.
Raise ==
  \E t \in Level..TopLevel : active' = Append(active, Context(NoEvent, t)) /\ UNCHANGED owed

End == Len(active) > 1 /\ active' = Front(active) /\ UNCHANGED owed

Next == Signal \/ Cancel \/ Start \/ Raise \/ End
Spec == Init /\ [][Next]_<<owed, active>>
=============================================================================
