---------------------------- MODULE AtomicStore -----------------------------
(***************************************************************************)
(* What the fault tolerant write protocol promises: a write of a block     *)
(* takes effect at one instant or never, whatever fails and whenever the   *)
(* power does, a write that reports success has taken effect, and nothing  *)
(* else ever changes the contents.                                         *)
(***************************************************************************)
CONSTANTS Extent, Data, Factory, NoWrite

VARIABLES
  content,    \* block -> the contents that are available
  request,    \* the write in progress, or NoWrite
  committed,  \* it has taken effect
  reply       \* of the last call: "none", "success" or "failed"

Init ==
  /\ content = [x \in Extent |-> Factory]
  /\ request = NoWrite /\ committed = FALSE
  /\ reply \in {"none", "success", "failed"}

Request ==
  /\ request = NoWrite
  /\ \E x \in Extent, d \in Data : request' = [ext |-> x, data |-> d]
  /\ committed' = FALSE /\ reply' = "none"
  /\ UNCHANGED content

Commit ==
  /\ request # NoWrite /\ ~committed
  /\ content' = [content EXCEPT ![request.ext] = request.data]
  /\ committed' = TRUE
  /\ UNCHANGED <<request, reply>>

Succeed ==
  /\ request # NoWrite /\ committed
  /\ request' = NoWrite /\ committed' = FALSE /\ reply' = "success"
  /\ UNCHANGED content

\* An error is reported, or the power fails.  Either can come after Commit.
Fail ==
  /\ request # NoWrite
  /\ request' = NoWrite /\ committed' = FALSE /\ reply' \in {"none", "failed"}
  /\ UNCHANGED content

\* The other services and the restart change no contents.
Other ==
  /\ request = NoWrite
  /\ reply' \in {"none", "success", "failed"}
  /\ UNCHANGED <<content, request, committed>>

Next == Request \/ Commit \/ Succeed \/ Fail \/ Other
Spec == Init /\ [][Next]_<<content, request, committed, reply>>
=============================================================================
