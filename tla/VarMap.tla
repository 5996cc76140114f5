------------------------------- MODULE VarMap -------------------------------
(***************************************************************************)
(* What the variable services promise: each variable has one value or      *)
(* none; only SetVariable changes it, at one instant or never, whatever    *)
(* fails and whenever the power does; and SetVariable reports success only *)
(* when the variable has the value it was given.                           *)
(***************************************************************************)
CONSTANTS Name, Value, NoValue

VARIABLES
  value,   \* of each variable
  asked,   \* the name and value given to the last SetVariable
  busy,    \* it is in progress
  reply    \* its status

Data   == Value \cup {NoValue}
Status == {"none", "success", "failed", "full"}

Init ==
  /\ value = [n \in Name |-> NoValue]
  /\ asked \in [name : Name, value : Data]
  /\ busy = FALSE /\ reply = "none"

\* A status is reported once the call is over, and success only of what is so.
Report ==
  /\ reply' \in Status
  /\ busy' => reply' = "none"
  /\ reply' = "success" => value'[asked'.name] = asked'.value

Set ==
  /\ ~busy /\ busy' \in BOOLEAN
  /\ asked' \in [name : Name, value : Data]
  /\ UNCHANGED value
  /\ Report

TakeEffect == value' = [value EXCEPT ![asked.name] = asked.value]

\* The call takes effect, and is perhaps over at once.
Apply == busy /\ busy' \in BOOLEAN /\ TakeEffect /\ Report /\ UNCHANGED asked

Return == busy /\ busy' = FALSE /\ Report /\ UNCHANGED <<value, asked>>

\* The power fails or the system is reset: the call may have taken effect.
Restart ==
  /\ busy' = FALSE /\ reply' = "none"
  /\ asked' \in [name : Name, value : Data]
  /\ UNCHANGED value \/ (busy /\ TakeEffect)

Next == Set \/ Apply \/ Return \/ Restart
Spec == Init /\ [][Next]_<<value, asked, busy, reply>>
=============================================================================
