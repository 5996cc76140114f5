---------------------------- MODULE NotifyQueues -----------------------------
(***************************************************************************)
(* What RegisterProtocolNotify and LocateHandle (ByRegisterNotify) promise *)
(* together: every registration has a queue of the handles whose interface *)
(* arrived and was not located yet, oldest first.                          *)
(***************************************************************************)
EXTENDS SequencesExt

CONSTANTS Handle, Registration, Guid, RegGuid

VARIABLES
  installed,   \* [Guid -> SUBSET Handle]
  queue        \* [Registration -> Seq(Handle)]

vars == <<installed, queue>>

Drop(s, h) ==
  IF Contains(s, h) THEN RemoveAt(s, CHOOSE i \in DOMAIN s : s[i] = h) ELSE s

\* The orders in which the members of a set can arrive.
OrdersOf(S) == {hs \in [1..Cardinality(S) -> S] : IsInjective(hs)}

\* The queues of a protocol change alike.
Queues(g, change(_)) ==
  queue' = [r \in Registration |-> IF RegGuid[r] = g THEN change(queue[r]) ELSE queue[r]]

Init ==
  /\ installed = [g \in Guid |-> {}]
  /\ queue = [r \in Registration |-> <<>>]

\* Interfaces that were not there are installed, in this order.
Arrive(g, hs) ==
  /\ Range(hs) \cap installed[g] = {}
  /\ installed' = [installed EXCEPT ![g] = @ \cup Range(hs)]
  /\ Queues(g, LAMBDA q : q \o hs)

\* One is reinstalled: it is given again, after all others.
Renew(g, h) ==
  /\ h \in installed[g]
  /\ Queues(g, LAMBDA q : Append(Drop(q, h), h))
  /\ UNCHANGED installed

\* One is removed: nobody is given it any more.
Leave(g, h) ==
  /\ h \in installed[g]
  /\ installed' = [installed EXCEPT ![g] = @ \ {h}]
  /\ Queues(g, LAMBDA q : Drop(q, h))

\* One registration is given its oldest.
Take(r) ==
  /\ queue[r] # <<>>
  /\ queue' = [queue EXCEPT ![r] = Tail(@)]
  /\ UNCHANGED installed

Next ==
  \/ \E g \in Guid :
       \/ \E new \in SUBSET Handle : \E hs \in OrdersOf(new) : Arrive(g, hs)
       \/ \E h \in Handle : Renew(g, h) \/ Leave(g, h)
  \/ \E r \in Registration : Take(r)

Spec == Init /\ [][Next]_vars
=============================================================================
