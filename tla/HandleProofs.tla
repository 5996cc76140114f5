---------------------------- MODULE HandleProofs ----------------------------
(***************************************************************************)
(* What holds of the database and of the call stack of the driver model.   *)
(***************************************************************************)
EXTENDS HandleDbProofs

-----------------------------------------------------------------------------
(* The call stack.                                                          *)

Looking  == {"uninstall", "reinstall", "exclusive"}
Agents   == {"disconnect", "childrenStopped", "stopped"}
Sections == Looking \cup Agents \cup
  {"disconnectAll", "stopDiskIo", "stopDiskIoEnd", "stopBus", "stopChildren", "childStopped"}
Outside  == {"callback", "locate"}
Pcs      == Sections \cup Outside \cup {"connect", "start", "refused", "reconnected"}

\* What a function knows of its arguments and its loop.
FrameOK(f) ==
  /\ f \in Frames
  /\ f.pc \notin Outside => f.handle \in Handle
  /\ f.pc \in Agents \cup {"connect", "start"} => f.left \subseteq Driver
  /\ f.pc \in {"start", "childrenStopped", "stopped"} => f.who \in Driver
  /\ f.pc \in {"stopChildren", "childStopped"} => f.left \subseteq Partitions[f.handle]
  /\ f.pc = "childStopped" => f.who \in Partitions[f.handle]
  /\ f.pc = "locate" => \E r \in Registration : f.left = {r}

\* How far from the disk's Block I/O the function is that disconnects, stops or
\* uninstalls.
Depth(f) ==
  IF f.pc \in Looking THEN (IF f.guid = BlockIo THEN 0 ELSE 3)
  ELSE IF f.pc \in Agents THEN (IF DiskIoDxe \in f.left \cup {f.who} THEN 1 ELSE 4)
  ELSE IF f.pc = "disconnectAll" THEN 1
  ELSE IF f.pc \in {"stopDiskIo", "stopDiskIoEnd"} THEN 2 ELSE 5
Rank(f) == 8 * PathLength[f.handle] + Depth(f)

FramesOK(s) == s \in Seq(Frames) /\ \A i \in 1..Len(s) : FrameOK(s[i])

\* Removing goes up the layers: what a function disconnects is above what its callers do.
Ranked(s) ==
  \A i, j \in 1..Len(s) :
    i < j /\ s[i].pc \in Sections /\ s[j].pc \in Sections => Rank(s[i]) < Rank(s[j])

\* An interface that was looked up before the lock was released is still there.
RecordedIn(d, f) == f.pc \in Looking /\ f.done => Live(d, f.handle, f.guid)
Recorded(d, s)   == \A i \in 1..Len(s) : RecordedIn(d, s[i])

Bounded == calls \in 0..MaxCalls /\ interrupts \in 0..MaxInterrupts

HdbInv == DbInv(db) /\ FramesOK(stack) /\ Ranked(stack) /\ Recorded(db, stack) /\ Bounded

\* The same frame, with another answer from its callee.
Alike(e, f) ==
  /\ e \in Frames
  /\ e.pc = f.pc /\ e.handle = f.handle /\ e.guid = f.guid
  /\ e.left = f.left /\ e.who = f.who /\ e.done = f.done

Altered(f, pc, left, who, done) ==
  [pc |-> pc, handle |-> f.handle, guid |-> f.guid, left |-> left, who |-> who,
   ok |-> f.ok, done |-> done]
Answered(f, ok) == [f EXCEPT !.ok = ok]

LEMMA PcsAre ==
  /\ Looking \subseteq Sections /\ Agents \subseteq Sections /\ Sections \subseteq Pcs
  /\ Sections \cap Outside = {} /\ Looking \cap Agents = {}
  /\ \A pc \in {"connect", "start", "refused", "reconnected"} : pc \in Pcs \ (Sections \cup Outside)
  /\ \A pc \in {"callback", "locate"} : pc \in Pcs \ Sections
BY DEF Pcs, Sections, Outside, Looking, Agents

LEMMA FrameType ==
  ASSUME NEW pc \in Pcs, NEW h \in Handle \cup {NoHandle}, NEW g \in Guid,
         NEW left \in SUBSET (Driver \cup Handle \cup Registration),
         NEW who \in Driver \cup {App} \cup Handle
  PROVE  Frame(pc, h, g, left, who) \in Frames
BY DEF Frame, Frames, Pcs, Sections, Looking, Agents, Outside

LEMMA FrameIs ==
  ASSUME NEW pc, NEW h, NEW g, NEW left, NEW who, NEW e, e = Frame(pc, h, g, left, who)
  PROVE  /\ e.pc = pc /\ e.handle = h /\ e.guid = g /\ e.left = left /\ e.who = who
         /\ e.ok /\ ~e.done
BY DEF Frame

LEMMA AlteredIs ==
  ASSUME NEW f \in Frames, NEW pc, NEW left, NEW who, NEW done,
         pc \in Pcs,
         left \subseteq f.left, who \in {f.who} \cup Driver \cup Handle, done \in BOOLEAN,
         NEW e, e = Altered(f, pc, left, who, done)
  PROVE  /\ e \in Frames
         /\ e.pc = pc /\ e.handle = f.handle /\ e.guid = f.guid /\ e.left = left
         /\ e.who = who /\ e.ok = f.ok /\ e.done = done
BY DEF Altered, Frames, Pcs, Sections, Looking, Agents, Outside

LEMMA AnsweredIs ==
  ASSUME NEW f \in Frames, NEW ok \in BOOLEAN, NEW e, e = Answered(f, ok)
  PROVE  Alike(e, f) /\ e.ok = ok
BY DEF Answered, Alike, Frames

\* The ways in which the steps alter the running frame.
LEMMA AlteredOne ==
  ASSUME NEW f \in Frames, NEW x
  PROVE  /\ [f EXCEPT !.pc = x] = Altered(f, x, f.left, f.who, f.done)
         /\ [f EXCEPT !.left = x] = Altered(f, f.pc, x, f.who, f.done)
         /\ [f EXCEPT !.who = x] = Altered(f, f.pc, f.left, x, f.done)
         /\ [f EXCEPT !.done = x] = Altered(f, f.pc, f.left, f.who, x)
<1>1. [f EXCEPT !.pc = x] = Altered(f, x, f.left, f.who, f.done)
  BY DEF Altered, Frames
<1>2. [f EXCEPT !.left = x] = Altered(f, f.pc, x, f.who, f.done)
  BY DEF Altered, Frames
<1>3. [f EXCEPT !.who = x] = Altered(f, f.pc, f.left, x, f.done)
  BY DEF Altered, Frames
<1>4. [f EXCEPT !.done = x] = Altered(f, f.pc, f.left, f.who, x)
  BY DEF Altered, Frames
<1> QED BY <1>1, <1>2, <1>3, <1>4, Zenon

Going(f, pc)             == [f EXCEPT !.pc = pc]
Marking(f, pc, done)     == [f EXCEPT !.pc = pc, !.done = done]
Visiting(f, left, who)   == [f EXCEPT !.left = left, !.who = who]
Moving(f, pc, left, who) == [f EXCEPT !.pc = pc, !.left = left, !.who = who]

\* e is f with these fields.
Has(e, f, pc, left, who, done) ==
  /\ e \in Frames /\ e.pc = pc /\ e.handle = f.handle /\ e.guid = f.guid /\ e.left = left
  /\ e.who = who /\ e.ok = f.ok /\ e.done = done

LEMMA GoingIs ==
  ASSUME NEW f \in Frames, NEW pc \in Pcs, NEW e, e = Going(f, pc)
  PROVE  Has(e, f, pc, f.left, f.who, f.done)
<1>1. e = Altered(f, pc, f.left, f.who, f.done)
  BY AlteredOne DEF Going
<1>2. f.done \in BOOLEAN
  BY DEF Frames
<1> QED BY <1>1, <1>2, AlteredIs DEF Has

LEMMA VisitingIs ==
  ASSUME NEW f \in Frames, NEW left \in SUBSET f.left, NEW who \in {f.who} \cup Driver \cup Handle,
         NEW e, e = Visiting(f, left, who)
  PROVE  Has(e, f, f.pc, left, who, f.done)
<1>1. e = [[f EXCEPT !.left = left] EXCEPT !.who = who]
  BY DEF Visiting
<1>2. PICK a : a = Altered(f, f.pc, left, f.who, f.done)
  OBVIOUS
<1>3. [f EXCEPT !.left = left] = a
  BY <1>2, AlteredOne
<1>4. f.done \in BOOLEAN /\ f.pc \in Pcs
  BY DEF Frames, Pcs, Sections, Outside, Looking, Agents
<1>5. Has(a, f, f.pc, left, f.who, f.done)
  BY <1>2, <1>4, AlteredIs DEF Has
<1>6. e = [a EXCEPT !.who = who]
  BY <1>1, <1>3, Zenon
<1>7. e = Altered(a, a.pc, a.left, who, a.done)
  BY <1>5, <1>6, AlteredOne DEF Has
<1>8. e = Altered(f, f.pc, left, who, f.done)
  BY <1>5, <1>7 DEF Has, Altered
<1> QED BY <1>4, <1>8, AlteredIs DEF Has

LEMMA MovingIs ==
  ASSUME NEW f \in Frames, NEW pc \in Pcs, NEW left \in SUBSET f.left,
         NEW who \in {f.who} \cup Driver \cup Handle, NEW e, e = Moving(f, pc, left, who)
  PROVE  Has(e, f, pc, left, who, f.done)
<1>1. e = [[f EXCEPT !.pc = pc] EXCEPT !.left = left, !.who = who]
  BY DEF Moving
<1>2. PICK a : a = Going(f, pc)
  OBVIOUS
<1>3. Has(a, f, pc, f.left, f.who, f.done)
  BY <1>2, GoingIs
<1>4. e = Visiting(a, left, who)
  BY <1>1, <1>2, Zenon DEF Visiting, Going
<1>5. a \in Frames /\ left \in SUBSET a.left /\ who \in {a.who} \cup Driver \cup Handle
  BY <1>3 DEF Has
<1>6. Has(e, a, a.pc, left, who, a.done)
  BY <1>4, <1>5, VisitingIs
<1> QED BY <1>3, <1>6 DEF Has

LEMMA MarkingIs ==
  ASSUME NEW f \in Frames, NEW pc \in Pcs, NEW done \in BOOLEAN, NEW e, e = Marking(f, pc, done)
  PROVE  Has(e, f, pc, f.left, f.who, done)
<1>1. e = [[f EXCEPT !.pc = pc] EXCEPT !.done = done]
  BY DEF Marking
<1>2. PICK a : a = Going(f, pc)
  OBVIOUS
<1>3. Has(a, f, pc, f.left, f.who, f.done)
  BY <1>2, GoingIs
<1>4. e = [a EXCEPT !.done = done]
  BY <1>1, <1>2, Zenon DEF Going
<1>5. e = Altered(a, a.pc, a.left, a.who, done)
  BY <1>3, <1>4, AlteredOne DEF Has
<1>6. e = Altered(f, pc, f.left, f.who, done)
  BY <1>3, <1>5 DEF Has, Altered
<1> QED BY <1>6, AlteredIs DEF Has

LEMMA MarkedIs ==
  ASSUME NEW f \in Frames, NEW done \in BOOLEAN, NEW e, e = [f EXCEPT !.done = done]
  PROVE  Has(e, f, f.pc, f.left, f.who, done)
<1>1. e = Altered(f, f.pc, f.left, f.who, done)
  BY AlteredOne
<1>2. f.pc \in Pcs
  BY DEF Frames, Pcs, Sections, Outside, Looking, Agents
<1> QED BY <1>1, <1>2, AlteredIs DEF Has

LEMMA AlikeOK ==
  ASSUME NEW f, NEW e, FrameOK(f), Alike(e, f)
  PROVE  FrameOK(e) /\ Rank(e) = Rank(f) /\ e.pc = f.pc
         /\ \A d : RecordedIn(d, f) => RecordedIn(d, e)
<1>1. FrameOK(e)
  BY DEF FrameOK, Alike
<1>2. Rank(e) = Rank(f)
  BY DEF Rank, Depth, Alike
<1> QED BY <1>1, <1>2 DEF Alike, RecordedIn

\* A section frame has a rank.
LEMMA RankIs ==
  ASSUME NEW f, FrameOK(f), f.pc \notin Outside
  PROVE  Rank(f) \in Nat /\ Depth(f) \in 0..5 /\ f.handle \in Handle
         /\ PathLength[f.handle] \in Nat
<1>1. f.handle \in Handle
  BY DEF FrameOK
<1>2. PathLength[f.handle] \in Nat
  BY <1>1, PartitionAssumption
<1>3. Depth(f) \in 0..5
  BY DEF Depth
<1> QED BY <1>1, <1>2, <1>3 DEF Rank

-----------------------------------------------------------------------------
(* What a step does to the stack.                                           *)

LEMMA CallersIs ==
  ASSUME stack \in Seq(Frames), stack # <<>>, NEW n, n = Len(stack)
  PROVE  /\ n \in Nat /\ n >= 1 /\ Top \in Frames /\ Top = stack[n]
         /\ Callers \in Seq(Frames) /\ Len(Callers) = n - 1
         /\ \A i \in 1..(n - 1) : Callers[i] = stack[i]
         /\ stack = Append(Callers, Top)
BY DEF Callers, Front, Top

\* The callers stay.
Rests(s) ==
  /\ s \in Seq(Frames)
  /\ \A i \in 1..Len(s) : i < Len(stack) => Alike(s[i], stack[i])

\* What may come instead of the running frame.
Follows(d, f) ==
  /\ FrameOK(f) /\ RecordedIn(d, f)
  /\ f.pc \in Sections => Top.pc \in Sections /\ Rank(Top) <= Rank(f)

LEMMA Stacked ==
  ASSUME FramesOK(stack), Ranked(stack), stack # <<>>, NEW d, NEW s, Rests(s),
         \A i \in 1..Len(s) : i >= Len(stack) => Follows(d, s[i]),
         \A i, j \in 1..Len(s) :
           i >= Len(stack) /\ i < j /\ s[i].pc \in Sections /\ s[j].pc \in Sections
             => Rank(s[i]) < Rank(s[j]),
         \A i \in 1..(Len(stack) - 1) : RecordedIn(d, stack[i])
  PROVE  FramesOK(s) /\ Ranked(s) /\ Recorded(d, s)
<1>1. PICK n : n = Len(stack)
  OBVIOUS
<1>2. n \in Nat /\ n >= 1 /\ Top = stack[n] /\ s \in Seq(Frames) /\ Len(s) \in Nat
  BY <1>1, CallersIs DEF FramesOK, Rests
<1>3. \A i \in 1..Len(s) : i < n => Alike(s[i], stack[i]) /\ FrameOK(stack[i])
                                    /\ RecordedIn(d, stack[i])
  BY <1>1, <1>2 DEF FramesOK, Rests
<1>4. \A i \in 1..Len(s) : i < n => FrameOK(s[i]) /\ RecordedIn(d, s[i])
                             /\ Rank(s[i]) = Rank(stack[i]) /\ s[i].pc = stack[i].pc
  BY <1>3, AlikeOK
<1>5. \A i \in 1..Len(s) : i >= n => Follows(d, s[i])
  BY <1>1
<1>6. \A i \in 1..Len(s) : FrameOK(s[i]) /\ RecordedIn(d, s[i])
  <2> SUFFICES ASSUME NEW i \in 1..Len(s) PROVE FrameOK(s[i]) /\ RecordedIn(d, s[i])
    OBVIOUS
  <2>1. CASE i < n
    BY <1>4, <2>1
  <2>2. CASE i >= n
    BY <1>5, <2>2 DEF Follows
  <2> QED BY <1>2, <2>1, <2>2
<1>7. ASSUME NEW i \in 1..Len(s), NEW j \in 1..Len(s), i < j,
             s[i].pc \in Sections, s[j].pc \in Sections
      PROVE  Rank(s[i]) < Rank(s[j])
  <2>0. Sections \cap Outside = {}
    BY DEF Sections, Outside, Looking, Agents
  <2>1. CASE j < n
    <3>1. Rank(stack[i]) < Rank(stack[j])
      BY <1>1, <1>2, <1>4, <1>7, <2>1 DEF Ranked
    <3> QED BY <1>2, <1>4, <1>7, <2>1, <3>1
  <2>2. CASE i >= n
    BY <1>1, <1>7, <2>2
  <2>3. CASE i < n /\ j >= n
    <3>1. Top.pc \in Sections /\ Rank(Top) <= Rank(s[j])
      BY <1>5, <1>7, <2>3 DEF Follows
    <3>2. Rank(stack[i]) < Rank(stack[n])
      BY <1>1, <1>2, <1>4, <1>7, <2>3, <3>1 DEF Ranked
    <3>3. Rank(s[i]) \in Nat /\ Rank(s[j]) \in Nat /\ Rank(Top) \in Nat
      <4>1. FrameOK(Top) /\ FrameOK(s[i]) /\ FrameOK(s[j])
        BY <1>1, <1>2, <1>6 DEF FramesOK
      <4> QED BY <1>7, <2>0, <3>1, <4>1, RankIs
    <3> QED BY <1>2, <1>4, <2>3, <3>1, <3>2, <3>3
  <2> QED BY <1>2, <2>1, <2>2, <2>3
<1> QED BY <1>2, <1>6, <1>7 DEF FramesOK, Ranked, Recorded

LEMMA GotoIs ==
  ASSUME stack \in Seq(Frames), stack # <<>>, NEW f \in Frames,
         NEW s, s = Append(Callers, f)
  PROVE  /\ Rests(s) /\ Len(s) = Len(stack) /\ s[Len(stack)] = f
         /\ \A i \in 1..(Len(stack) - 1) : s[i] = stack[i]
<1>1. PICK n : n = Len(stack)
  OBVIOUS
<1>2. PICK c : c = Callers
  OBVIOUS
<1>3. /\ n \in Nat /\ n >= 1 /\ c \in Seq(Frames) /\ Len(c) = n - 1
      /\ \A i \in 1..(n - 1) : c[i] = stack[i]
  BY <1>1, <1>2, CallersIs
<1>4. s \in Seq(Frames) /\ Len(s) = n /\ s[n] = f /\ \A i \in 1..(n - 1) : s[i] = stack[i]
  BY <1>2, <1>3, AppendProperties
<1>5. \A i \in 1..(n - 1) : Alike(s[i], stack[i])
  <2>1. \A i \in 1..(n - 1) : stack[i] \in Frames
    BY <1>1
  <2> QED BY <1>4, <2>1 DEF Alike
<1>6. \A i \in 1..Len(s) : i < n => Alike(s[i], stack[i])
  BY <1>3, <1>4, <1>5
<1>7. Rests(s)
  BY <1>1, <1>4, <1>6, Zenon DEF Rests
<1> QED BY <1>1, <1>4, <1>7, Zenon

Pushed(f, g) == Callers \o <<f, g>>

LEMMA PushIs ==
  ASSUME stack \in Seq(Frames), stack # <<>>, NEW f \in Frames, NEW g \in Frames,
         NEW s, s = Pushed(f, g)
  PROVE  /\ Rests(s) /\ Len(s) = Len(stack) + 1
         /\ s[Len(stack)] = f /\ s[Len(stack) + 1] = g
         /\ \A i \in 1..(Len(stack) - 1) : s[i] = stack[i]
<1>1. PICK n : n = Len(stack)
  OBVIOUS
<1>2. PICK c : c = Callers
  OBVIOUS
<1>3. /\ n \in Nat /\ n >= 1 /\ c \in Seq(Frames) /\ Len(c) = n - 1
      /\ \A i \in 1..(n - 1) : c[i] = stack[i]
  BY <1>1, <1>2, CallersIs
<1>4. PICK t : t = <<f, g>>
  OBVIOUS
<1>5. t \in Seq(Frames) /\ Len(t) = 2 /\ t[1] = f /\ t[2] = g
  BY <1>4
<1>6. /\ s \in Seq(Frames) /\ Len(s) = Len(c) + Len(t)
      /\ \A i \in 1..(Len(c) + Len(t)) : s[i] = IF i <= Len(c) THEN c[i] ELSE t[i - Len(c)]
  BY <1>2, <1>3, <1>4, <1>5, ConcatProperties DEF Pushed
<1>7. /\ Len(s) = n + 1 /\ s[n] = f /\ s[n + 1] = g
      /\ \A i \in 1..(n - 1) : s[i] = stack[i]
  BY <1>3, <1>5, <1>6
<1>8. \A i \in 1..(n - 1) : Alike(s[i], stack[i])
  <2>1. \A i \in 1..(n - 1) : stack[i] \in Frames
    BY <1>1
  <2> QED BY <1>7, <2>1 DEF Alike
<1>9. \A i \in 1..Len(s) : i < n => Alike(s[i], stack[i])
  BY <1>3, <1>7, <1>8
<1>10. Rests(s)
  BY <1>1, <1>6, <1>9, Zenon DEF Rests
<1> QED BY <1>1, <1>7, <1>10, Zenon

LEMMA ReturnIs ==
  ASSUME stack \in Seq(Frames), stack # <<>>, NEW ok \in BOOLEAN,
         NEW s, s = IF Callers = <<>> THEN <<>>
                    ELSE [Callers EXCEPT ![Len(Callers)].ok = ok]
  PROVE  /\ Rests(s) /\ Len(s) = Len(stack) - 1
         /\ \A i \in 1..(Len(stack) - 2) : s[i] = stack[i]
         /\ Len(stack) > 1 => s[Len(stack) - 1] = Answered(stack[Len(stack) - 1], ok)
<1>1. PICK n : n = Len(stack)
  OBVIOUS
<1>2. PICK c : c = Callers
  OBVIOUS
<1>3. /\ n \in Nat /\ n >= 1 /\ c \in Seq(Frames) /\ Len(c) = n - 1
      /\ \A i \in 1..(n - 1) : c[i] = stack[i]
  BY <1>1, <1>2, CallersIs
<1>4. CASE c = <<>>
  <2>1. n = 1 /\ s = <<>>
    BY <1>2, <1>3, <1>4
  <2> QED BY <1>1, <2>1 DEF Rests
<1>5. CASE c # <<>>
  <2>0. n > 1
    BY <1>3, <1>5
  <2>1. s = [c EXCEPT ![n - 1] = Answered(c[n - 1], ok)]
    <3>1. s = [c EXCEPT ![Len(c)].ok = ok]
      BY <1>2, <1>5
    <3>2. s = [c EXCEPT ![Len(c)] = Answered(c[Len(c)], ok)]
      BY <3>1 DEF Answered
    <3> QED BY <1>3, <3>2
  <2>2. PICK a : a = Answered(c[n - 1], ok)
    OBVIOUS
  <2>3. c[n - 1] \in Frames
    BY <1>3, <2>0
  <2>4. Alike(a, c[n - 1]) /\ a \in Frames
    <3>1. Alike(a, c[n - 1])
      BY <2>2, <2>3, AnsweredIs
    <3> QED BY <3>1 DEF Alike
  <2>5. /\ s \in Seq(Frames) /\ Len(s) = n - 1
        /\ \A i \in 1..(n - 1) : s[i] = IF i = n - 1 THEN a ELSE c[i]
    <3>1. s = [c EXCEPT ![n - 1] = a]
      BY <2>1, <2>2
    <3> QED BY ONLY <3>1, <1>3, <2>0, <2>4
  <2>6. \A i \in 1..(n - 1) : Alike(s[i], stack[i])
    <3>1. \A i \in 1..(n - 1) : stack[i] \in Frames
      BY <1>1
    <3> QED BY <1>3, <2>4, <2>5, <3>1, ZenonT(40) DEF Alike
  <2>7. \A i \in 1..Len(s) : i < n => Alike(s[i], stack[i])
    BY <1>3, <2>5, <2>6
  <2>8. Rests(s)
    BY <1>1, <2>5, <2>7, Zenon DEF Rests
  <2>9. /\ \A i \in 1..(n - 2) : s[i] = stack[i]
        /\ s[n - 1] = Answered(stack[n - 1], ok)
    <3>1. c[n - 1] = stack[n - 1]
      BY <1>3, <2>0
    <3>2. s[n - 1] = a
      BY <1>3, <2>0, <2>5
    <3>3. s[n - 1] = Answered(stack[n - 1], ok)
      BY <2>2, <3>1, <3>2, Zenon
    <3>4. \A i \in 1..(n - 2) : s[i] = stack[i]
      BY <1>3, <2>0, <2>5
    <3> QED BY <3>3, <3>4
  <2> QED BY <1>1, <2>5, <2>8, <2>9, Zenon
<1> QED BY <1>4, <1>5


CallersRecorded(d) == \A i \in 1..(Len(stack) - 1) : RecordedIn(d, stack[i])

LEMMA GotoOK ==
  ASSUME FramesOK(stack), Ranked(stack), stack # <<>>, NEW d, CallersRecorded(d),
         NEW f, Follows(d, f), NEW s, s = Append(Callers, f)
  PROVE  FramesOK(s) /\ Ranked(s) /\ Recorded(d, s)
<1>1. PICK n : n = Len(stack)
  OBVIOUS
<1>2. n \in Nat /\ n >= 1 /\ stack \in Seq(Frames) /\ f \in Frames
  BY <1>1 DEF FramesOK, Follows, FrameOK
<1>3. Rests(s) /\ Len(s) = n /\ s[n] = f
  BY <1>1, <1>2, GotoIs
<1>4. \A i \in 1..Len(s) : i >= n => Follows(d, s[i])
  BY <1>2, <1>3
<1>5. \A i, j \in 1..Len(s) : ~(i >= n /\ i < j)
  BY <1>2, <1>3
<1>6. \A i \in 1..Len(s) : i >= Len(stack) => Follows(d, s[i])
  BY <1>1, <1>4, Zenon
<1>7. \A i, j \in 1..Len(s) : i >= Len(stack) /\ i < j /\ s[i].pc \in Sections /\ s[j].pc \in Sections
        => Rank(s[i]) < Rank(s[j])
  BY <1>1, <1>5, Zenon
<1>8. \A i \in 1..(Len(stack) - 1) : RecordedIn(d, stack[i])
  BY Zenon DEF CallersRecorded
<1> QED BY <1>3, <1>6, <1>7, <1>8, Stacked, Zenon

Rises(d, f, g) ==
  FrameOK(g) /\ RecordedIn(d, g) /\ (g.pc \in Sections => f.pc \in Sections /\ Rank(f) < Rank(g))

LEMMA PushOK ==
  ASSUME FramesOK(stack), Ranked(stack), stack # <<>>, NEW d, CallersRecorded(d),
         NEW f, Follows(d, f), NEW g, Rises(d, f, g), NEW s, s = Pushed(f, g)
  PROVE  FramesOK(s) /\ Ranked(s) /\ Recorded(d, s)
<1>1. PICK n : n = Len(stack)
  OBVIOUS
<1>2. n \in Nat /\ n >= 1 /\ stack \in Seq(Frames) /\ f \in Frames /\ g \in Frames
  BY <1>1 DEF FramesOK, Follows, FrameOK, Rises
<1>3. Rests(s) /\ Len(s) = n + 1 /\ s[n] = f /\ s[n + 1] = g
  <2>1. Rests(s) /\ Len(s) = Len(stack) + 1 /\ s[Len(stack)] = f /\ s[Len(stack) + 1] = g
    BY <1>2, PushIs
  <2> QED BY <1>1, <2>1, Zenon
<1>9. Follows(d, g)
  <2>1. CASE g.pc \in Sections
    <3>1. Sections \cap Outside = {}
      BY DEF Sections, Outside, Looking, Agents
    <3>2. f.pc \in Sections /\ Rank(f) < Rank(g) /\ Top.pc \in Sections /\ Rank(Top) <= Rank(f)
      BY <2>1 DEF Rises, Follows
    <3>3. FrameOK(Top)
      BY CallersIs DEF FramesOK
    <3>4. Rank(f) \in Nat /\ Rank(g) \in Nat /\ Rank(Top) \in Nat
      BY <2>1, <3>1, <3>2, <3>3, RankIs DEF Rises, Follows
    <3> QED BY <3>2, <3>4 DEF Rises, Follows
  <2>2. CASE g.pc \notin Sections
    BY <2>2 DEF Rises, Follows
  <2> QED BY <2>1, <2>2
<1>4. \A i \in 1..Len(s) : i >= n => Follows(d, s[i])
  <2>1. \A i \in 1..(n + 1) : i >= n => i = n \/ i = n + 1
    BY <1>2
  <2> QED BY <1>3, <1>9, <2>1, Zenon
<1>5. \A i, j \in 1..Len(s) : i >= n /\ i < j => i = n /\ j = n + 1
  BY <1>2, <1>3
<1>6. \A i \in 1..Len(s) : i >= Len(stack) => Follows(d, s[i])
  BY <1>1, <1>4, Zenon
<1>7. \A i, j \in 1..Len(s) : i >= Len(stack) /\ i < j /\ s[i].pc \in Sections /\ s[j].pc \in Sections
        => Rank(s[i]) < Rank(s[j])
  BY <1>1, <1>3, <1>5, Zenon DEF Rises
<1>8. \A i \in 1..(Len(stack) - 1) : RecordedIn(d, stack[i])
  BY Zenon DEF CallersRecorded
<1> QED BY <1>3, <1>6, <1>7, <1>8, Stacked, Zenon

LEMMA ReturnOK ==
  ASSUME FramesOK(stack), Ranked(stack), stack # <<>>, NEW d, CallersRecorded(d),
         NEW ok \in BOOLEAN,
         NEW s, s = IF Callers = <<>> THEN <<>>
                    ELSE [Callers EXCEPT ![Len(Callers)].ok = ok]
  PROVE  FramesOK(s) /\ Ranked(s) /\ Recorded(d, s)
<1>1. PICK n : n = Len(stack)
  OBVIOUS
<1>2. n \in Nat /\ n >= 1 /\ stack \in Seq(Frames)
  BY <1>1 DEF FramesOK
<1>3. Rests(s) /\ Len(s) = n - 1
  BY <1>1, <1>2, ReturnIs
<1>4. \A i \in 1..Len(s) : ~(i >= n)
  BY <1>2, <1>3
<1>6. \A i \in 1..Len(s) : i >= Len(stack) => Follows(d, s[i])
  BY <1>1, <1>4, Zenon
<1>7. \A i, j \in 1..Len(s) : i >= Len(stack) /\ i < j /\ s[i].pc \in Sections /\ s[j].pc \in Sections
        => Rank(s[i]) < Rank(s[j])
  BY <1>1, <1>4, Zenon
<1>8. \A i \in 1..(Len(stack) - 1) : RecordedIn(d, stack[i])
  BY Zenon DEF CallersRecorded
<1> QED BY <1>3, <1>6, <1>7, <1>8, Stacked, Zenon

\* The function returns, whatever it answers.
LEMMA PopOK ==
  ASSUME FramesOK(stack), Ranked(stack), stack # <<>>, NEW d, CallersRecorded(d)
  PROVE  FramesOK(Callers) /\ Ranked(Callers) /\ Recorded(d, Callers)
<1>1. PICK n : n = Len(stack)
  OBVIOUS
<1>2. PICK s : s = Callers
  OBVIOUS
<1>3. /\ n \in Nat /\ n >= 1 /\ s \in Seq(Frames) /\ Len(s) = n - 1
      /\ \A i \in 1..(n - 1) : s[i] = stack[i] /\ stack[i] \in Frames
  BY <1>1, <1>2, CallersIs DEF FramesOK
<1>4. \A i \in 1..Len(s) : i < n => Alike(s[i], stack[i])
  BY <1>3 DEF Alike
<1>5. Rests(s)
  BY <1>1, <1>3, <1>4, Zenon DEF Rests
<1>6. \A i \in 1..Len(s) : ~(i >= n)
  BY <1>3
<1>7. /\ \A i \in 1..Len(s) : i >= Len(stack) => Follows(d, s[i])
      /\ \A i, j \in 1..Len(s) : i >= Len(stack) /\ i < j /\ s[i].pc \in Sections /\ s[j].pc \in Sections
           => Rank(s[i]) < Rank(s[j])
  BY <1>1, <1>6, Zenon
<1>8. \A i \in 1..(Len(stack) - 1) : RecordedIn(d, stack[i])
  BY Zenon DEF CallersRecorded
<1>9. FramesOK(s) /\ Ranked(s) /\ Recorded(d, s)
  BY <1>5, <1>7, <1>8, Stacked, Zenon
<1> QED BY <1>2, <1>9, Zenon

\* Nothing leaves the database: all recorded interfaces are still there.
LEMMA AllRecorded ==
  ASSUME HdbInv, stack # <<>>, NEW d,
         \A x \in Handle, y \in Guid : Live(db, x, y) => Live(d, x, y)
  PROVE  CallersRecorded(d) /\ RecordedIn(d, Top)
<1>1. ASSUME NEW i \in 1..Len(stack) PROVE RecordedIn(d, stack[i])
  <2>1. RecordedIn(db, stack[i]) /\ FrameOK(stack[i])
    BY DEF HdbInv, Recorded, FramesOK
  <2>2. Looking \cap Outside = {}
    BY DEF Looking, Outside
  <2>3. stack[i].pc \in Looking => stack[i].handle \in Handle /\ stack[i].guid \in Guid
    BY <2>1, <2>2 DEF FrameOK, Frames
  <2> QED BY <2>1, <2>3, Zenon DEF RecordedIn
<1>2. stack \in Seq(Frames)
  BY DEF HdbInv, FramesOK
<1>3. Len(stack) \in 1..Len(stack) /\ 1..(Len(stack) - 1) \subseteq 1..Len(stack) /\ Top = stack[Len(stack)]
  BY <1>2, CallersIs
<1> QED BY <1>1, <1>3, Zenon DEF CallersRecorded


LEMMA TopFacts ==
  ASSUME HdbInv, stack # <<>>
  PROVE  /\ FramesOK(stack) /\ Ranked(stack) /\ DbInv(db) /\ stack \in Seq(Frames)
         /\ FrameOK(Top) /\ Top \in Frames /\ RecordedIn(db, Top)
         /\ Top.guid \in Guid /\ Top.ok \in BOOLEAN /\ Top.done \in BOOLEAN
         /\ Top.who \in Driver \cup {App} \cup Handle
<1>1. FramesOK(stack) /\ Ranked(stack) /\ DbInv(db) /\ stack \in Seq(Frames)
  BY DEF HdbInv, FramesOK
<1>2. Len(stack) \in 1..Len(stack) /\ Top = stack[Len(stack)]
  BY <1>1, CallersIs
<1>3. FrameOK(Top) /\ Top \in Frames
  BY <1>1, <1>2 DEF FramesOK, FrameOK
<1>4. RecordedIn(db, Top)
  BY <1>2 DEF HdbInv, Recorded
<1> QED BY <1>1, <1>3, <1>4 DEF Frames

\* What is in the database stays there.
Keeps(d) == \A x \in Handle, y \in Guid : Live(db, x, y) => Live(d, x, y)

LEMMA KeptBySame ==
  ASSUME DbInv(db), NEW d, DbInv(d), d.list = db.list
  PROVE  Keeps(d)
BY DEF Keeps, Live

LEMMA GoesOn ==
  ASSUME HdbInv, stack # <<>>, UNCHANGED bounds, DbInv(db'), Keeps(db'),
         NEW f, Goto(f), Follows(db', f)
  PROVE  HdbInv'
<1>1. PICK d : d = db'
  OBVIOUS
<1>2. PICK s : s = Append(Callers, f)
  OBVIOUS
<1>3. FramesOK(stack) /\ Ranked(stack) /\ Keeps(d) /\ Follows(d, f) /\ stack' = s
  BY <1>1, <1>2, TopFacts, Zenon DEF Goto
<1>4. CallersRecorded(d)
  BY <1>3, AllRecorded DEF Keeps
<1>5. FramesOK(s) /\ Ranked(s) /\ Recorded(d, s)
  BY <1>2, <1>3, <1>4, GotoOK
<1>6. FramesOK(stack)' /\ Ranked(stack)' /\ Recorded(db, stack)'
  <2>1. FramesOK(stack') /\ Ranked(stack') /\ Recorded(db', stack')
    BY <1>1, <1>3, <1>5, Zenon
  <2> QED BY <2>1 DEF FramesOK, Ranked, Recorded, RecordedIn, Live
<1>7. DbInv(db)' /\ Bounded'
  BY DEF bounds, HdbInv, Bounded
<1> QED BY <1>6, <1>7 DEF HdbInv

LEMMA Calls ==
  ASSUME HdbInv, stack # <<>>, UNCHANGED bounds, DbInv(db'), Keeps(db'),
         NEW f, NEW g, Push(f, g), Follows(db', f), Rises(db', f, g)
  PROVE  HdbInv'
<1>1. PICK d : d = db'
  OBVIOUS
<1>2. PICK s : s = Pushed(f, g)
  OBVIOUS
<1>3. FramesOK(stack) /\ Ranked(stack) /\ Keeps(d) /\ Follows(d, f) /\ Rises(d, f, g) /\ stack' = s
  BY <1>1, <1>2, TopFacts, Zenon DEF Push, Pushed
<1>4. CallersRecorded(d)
  BY <1>3, AllRecorded DEF Keeps
<1>5. FramesOK(s) /\ Ranked(s) /\ Recorded(d, s)
  BY <1>2, <1>3, <1>4, PushOK
<1>6. FramesOK(stack)' /\ Ranked(stack)' /\ Recorded(db, stack)'
  <2>1. FramesOK(stack') /\ Ranked(stack') /\ Recorded(db', stack')
    BY <1>1, <1>3, <1>5, Zenon
  <2> QED BY <2>1 DEF FramesOK, Ranked, Recorded, RecordedIn, Live
<1>7. DbInv(db)' /\ Bounded'
  BY DEF bounds, HdbInv, Bounded
<1> QED BY <1>6, <1>7 DEF HdbInv

\* The callers' interfaces need only stay: the running function may remove its own.
LEMMA ReturnsTo ==
  ASSUME HdbInv, stack # <<>>, UNCHANGED bounds, DbInv(db'), CallersRecorded(db'),
         NEW ok \in BOOLEAN, Return(ok)
  PROVE  HdbInv'
<1>1. PICK d : d = db'
  OBVIOUS
<1>2. PICK s : s = IF Callers = <<>> THEN <<>>
                   ELSE [Callers EXCEPT ![Len(Callers)].ok = ok]
  OBVIOUS
<1>3. FramesOK(stack) /\ Ranked(stack) /\ CallersRecorded(d) /\ stack' = s
  BY <1>1, <1>2, TopFacts, Zenon DEF Return
<1>5. FramesOK(s) /\ Ranked(s) /\ Recorded(d, s)
  BY <1>2, <1>3, ReturnOK
<1>6. FramesOK(stack)' /\ Ranked(stack)' /\ Recorded(db, stack)'
  <2>1. FramesOK(stack') /\ Ranked(stack') /\ Recorded(db', stack')
    BY <1>1, <1>3, <1>5, Zenon
  <2> QED BY <2>1 DEF FramesOK, Ranked, Recorded, RecordedIn, Live
<1>7. DbInv(db)' /\ Bounded'
  BY DEF bounds, HdbInv, Bounded
<1> QED BY <1>6, <1>7 DEF HdbInv

LEMMA Returns ==
  ASSUME HdbInv, stack # <<>>, UNCHANGED bounds, DbInv(db'), Keeps(db'),
         NEW ok \in BOOLEAN, Return(ok)
  PROVE  HdbInv'
<1>1. PICK d : d = db'
  OBVIOUS
<1>2. CallersRecorded(d)
  BY <1>1, AllRecorded DEF Keeps
<1>3. CallersRecorded(db')
  BY <1>1, <1>2, Zenon
<1> QED BY <1>3, ReturnsTo

LEMMA SameDb ==
  ASSUME HdbInv, UNCHANGED db
  PROVE  DbInv(db') /\ Keeps(db')
<1>1. PICK d : d = db
  OBVIOUS
<1>2. db' = d
  BY <1>1
<1>3. DbInv(d) /\ Keeps(d)
  BY <1>1 DEF HdbInv, Keeps
<1> QED BY <1>2, <1>3, Zenon

-----------------------------------------------------------------------------
(* ConnectController.                                                       *)

\* The children of a driver are partitions of the controller.
LEMMA ChildrenAre ==
  ASSUME NEW d, DbInv(d), NEW h \in Handle, NEW agents
  PROVE  /\ ChildrenOf(d, h, agents) \subseteq Partitions[h]
         /\ ChildrenOf(d, h, agents) \subseteq Handle
         /\ IsFiniteSet(ChildrenOf(d, h, agents))
         /\ PartitionDxe \notin agents => ChildrenOf(d, h, agents) = {}
         /\ \A p : PartitionDxe \in agents /\ Opened(PartitionDxe, p, "child") \in d.open[<<h, DiskIo>>]
                     => p \in ChildrenOf(d, h, agents)
<1>1. ASSUME NEW g \in Guid, NEW i \in With(d, h, g, "child")
      PROVE  i.agent = PartitionDxe /\ i.controller \in Partitions[h]
  BY <1>1 DEF DbInv, OpenOK, ItemOK, With
<1>2. \A c \in ChildrenOf(d, h, agents) : c \in Partitions[h] /\ PartitionDxe \in agents
  BY <1>1 DEF ChildrenOf
<1>3. Partitions[h] \subseteq Handle /\ IsFiniteSet(Partitions[h])
  BY HandleAssumption, PartitionAssumption
<1>4. ASSUME NEW p, PartitionDxe \in agents,
             Opened(PartitionDxe, p, "child") \in d.open[<<h, DiskIo>>]
      PROVE  p \in ChildrenOf(d, h, agents)
  <2>1. PICK i : i = Opened(PartitionDxe, p, "child")
    OBVIOUS
  <2>2. i.agent = PartitionDxe /\ i.controller = p /\ i.attr = "child"
    BY <2>1 DEF Opened
  <2>3. DiskIo \in Guid
    BY Names
  <2>4. i \in With(d, h, DiskIo, "child")
    BY <1>4, <2>1, <2>2 DEF With
  <2> QED BY <1>4, <2>2, <2>3, <2>4 DEF ChildrenOf
<1> QED BY <1>2, <1>3, <1>4, FS_Subset

LEMMA StartKeeps ==
  ASSUME DbInv(db), NEW driver, NEW h \in Handle, NEW d, d = Start(db, driver, h)
  PROVE  DbInv(d) /\ Keeps(d)
<1>1. CASE driver = DiskIoDxe
  <2>1. d = StartDiskIo(db, h)
    BY <1>1, Zenon DEF Start
  <2>2. d = db \/ DiskIoStarted(db, h, d)
    BY <2>1, StartDiskIoIs
  <2> QED BY <2>2 DEF Keeps, DiskIoStarted
<1>2. CASE driver # DiskIoDxe
  <2>1. d = StartPartition(db, h)
    BY <1>2, Zenon DEF Start
  <2>2. PICK g \in Guid : g = BlockIo
    BY Names
  <2>3. PICK item : item = Opened(PartitionDxe, h, "get")
    OBVIOUS
  <2>4. item \in OpenData /\ Admits(db, h, g, item)
    BY <2>3, Names, GetAdmitted
  <2>5. PICK new : new = NewPartitions(db, h)
    OBVIOUS
  <2>6. d = Add(db, h, g, item) \/ PartitionStarted(db, h, new, d)
    BY <2>1, <2>2, <2>3, <2>5, StartPartitionIs
  <2>7. ASSUME d = Add(db, h, g, item) PROVE DbInv(d) /\ Keeps(d)
    <3>1. DbInv(d) /\ d.list = db.list
      BY <2>4, <2>7, AddIs
    <3> QED BY <3>1, KeptBySame
  <2>8. ASSUME PartitionStarted(db, h, new, d) PROVE DbInv(d) /\ Keeps(d)
    BY <2>8 DEF PartitionStarted, Keeps
  <2> QED BY <2>6, <2>7, <2>8
<1> QED BY <1>1, <1>2

\* Not one of the functions that remove.
Quiet(f) == f.pc \notin Sections

LEMMA QuietFollows ==
  ASSUME NEW f, FrameOK(f), Quiet(f), NEW d
  PROVE  Follows(d, f) /\ \A e : Rises(d, e, f)
<1>1. RecordedIn(d, f)
  BY DEF Quiet, RecordedIn, Sections
<1> QED BY <1>1 DEF Follows, Rises, Quiet

LEMMA ConnectSupportedKeeps ==
  ASSUME HdbInv, ConnectSupported
  PROVE  HdbInv'
<1>1. /\ stack # <<>> /\ Top.pc = "connect" /\ UNCHANGED bounds /\ UNCHANGED db
  BY DEF ConnectSupported, At, Running
<1>2. PICK driver \in Top.left : Goto(Moving(Top, "start", Top.left \ {driver}, driver))
  BY Zenon DEF ConnectSupported, Moving
<1>3. Top \in Frames /\ FrameOK(Top)
  BY <1>1, TopFacts
<1>4. Top.left \subseteq Driver /\ Top.handle \in Handle
  BY <1>1, <1>3 DEF FrameOK, Outside
<1>5. PICK pc \in Pcs : pc = "start"
  BY PcsAre
<1>6. PICK f : f = Moving(Top, pc, Top.left \ {driver}, driver)
  OBVIOUS
<1>7. Has(f, Top, pc, Top.left \ {driver}, driver, Top.done)
  BY <1>3, <1>4, <1>6, MovingIs
<1>8. FrameOK(f) /\ Quiet(f)
  BY <1>4, <1>5, <1>7 DEF Has, FrameOK, Quiet, Sections, Looking, Agents, Outside
<1>9. Goto(f)
  BY <1>2, <1>5, <1>6, Zenon
<1>10. Follows(db', f) /\ DbInv(db') /\ Keeps(db')
  BY <1>1, <1>8, QuietFollows, SameDb
<1> QED BY <1>1, <1>9, <1>10, GoesOn

LEMMA ConnectStartKeeps ==
  ASSUME HdbInv, ConnectStart
  PROVE  HdbInv'
<1>1. /\ stack # <<>> /\ Top.pc = "start" /\ UNCHANGED bounds
      /\ db' = Start(db, Top.who, Top.handle)
      /\ Goto(Going(Top, "connect"))
  BY DEF ConnectStart, At, Running, Going
<1>2. Top \in Frames /\ FrameOK(Top) /\ DbInv(db)
  BY <1>1, TopFacts
<1>3. Top.left \subseteq Driver /\ Top.handle \in Handle
  BY <1>1, <1>2 DEF FrameOK, Outside
<1>4. PICK pc \in Pcs : pc = "connect"
  BY PcsAre
<1>5. PICK f : f = Going(Top, pc)
  OBVIOUS
<1>6. Has(f, Top, pc, Top.left, Top.who, Top.done)
  BY <1>2, <1>5, GoingIs
<1>7. FrameOK(f) /\ Quiet(f)
  BY <1>3, <1>4, <1>6 DEF Has, FrameOK, Quiet, Sections, Looking, Agents, Outside
<1>8. Goto(f)
  BY <1>1, <1>4, <1>5, Zenon
<1>9. DbInv(db') /\ Keeps(db') /\ Follows(db', f)
  <2>1. PICK d : d = db'
    OBVIOUS
  <2>2. DbInv(d) /\ Keeps(d)
    BY <1>1, <1>2, <1>3, <2>1, StartKeeps
  <2>3. Follows(d, f)
    BY <1>7, QuietFollows
  <2> QED BY <2>1, <2>2, <2>3, Zenon
<1> QED BY <1>1, <1>8, <1>9, GoesOn

\* Functions that remove nothing are called.
LEMMA JoinOK ==
  ASSUME NEW d, NEW b, FramesOK(b), Ranked(b), Recorded(d, b),
         NEW t \in Seq(Frames), \A i \in 1..Len(t) : FrameOK(t[i]) /\ Quiet(t[i]),
         NEW s, s = b \o t
  PROVE  FramesOK(s) /\ Ranked(s) /\ Recorded(d, s)
<1>1. b \in Seq(Frames) /\ Len(b) \in Nat /\ Len(t) \in Nat
  BY DEF FramesOK
<1>2. /\ s \in Seq(Frames) /\ Len(s) = Len(b) + Len(t)
      /\ \A i \in 1..(Len(b) + Len(t)) : s[i] = IF i <= Len(b) THEN b[i] ELSE t[i - Len(b)]
  BY <1>1, ConcatProperties
<1>3. ASSUME NEW i \in 1..Len(s)
      PROVE  /\ i <= Len(b) => i \in 1..Len(b) /\ s[i] = b[i]
             /\ ~(i <= Len(b)) => FrameOK(s[i]) /\ Quiet(s[i])
  <2>1. ~(i <= Len(b)) => i - Len(b) \in 1..Len(t)
    BY <1>1, <1>2
  <2> QED BY <1>1, <1>2, <2>1
<1>4. ASSUME NEW i \in 1..Len(s) PROVE FrameOK(s[i]) /\ RecordedIn(d, s[i])
  <2>1. CASE i <= Len(b)
    BY <1>3, <2>1 DEF FramesOK, Recorded
  <2>2. CASE ~(i <= Len(b))
    BY <1>3, <2>2, QuietFollows DEF Follows
  <2> QED BY <2>1, <2>2
<1>5. ASSUME NEW i \in 1..Len(s), NEW j \in 1..Len(s), i < j,
             s[i].pc \in Sections, s[j].pc \in Sections
      PROVE  Rank(s[i]) < Rank(s[j])
  <2>1. i <= Len(b) /\ j <= Len(b)
    BY <1>3, <1>5 DEF Quiet
  <2>2. i \in 1..Len(b) /\ s[i] = b[i] /\ j \in 1..Len(b) /\ s[j] = b[j]
    BY <1>3, <2>1
  <2> QED BY <1>5, <2>2 DEF Ranked
<1> QED BY <1>2, <1>4, <1>5 DEF FramesOK, Ranked, Recorded

LEMMA ConnectIs ==
  ASSUME NEW h \in Handle
  PROVE  FrameOK(Connect(h)) /\ Quiet(Connect(h)) /\ Connect(h) \in Frames
<1>1. PICK f : f = Connect(h)
  OBVIOUS
<1>2. f.pc = "connect" /\ f.handle = h /\ f.left = Driver
  BY <1>1, FrameIs DEF Connect
<1>3. f \in Frames
  <2>1. /\ "connect" \in Pcs /\ h \in Handle \cup {NoHandle} /\ BlockIo \in Guid
        /\ Driver \in SUBSET (Driver \cup Handle \cup Registration)
        /\ App \in Driver \cup {App} \cup Handle
    BY PcsAre, Names
  <2> QED BY <1>1, <2>1, FrameType, Zenon DEF Connect
<1>4. FrameOK(f) /\ Quiet(f)
  BY <1>2, <1>3 DEF FrameOK, Quiet, Sections, Looking, Agents, Outside
<1> QED BY <1>1, <1>3, <1>4, Zenon

Connects(kids) == [i \in DOMAIN kids |-> Connect(kids[i])]

LEMMA ConnectsIs ==
  ASSUME NEW kids \in Seq(Handle), NEW t, t = Connects(kids)
  PROVE  /\ t \in Seq(Frames) /\ Len(t) = Len(kids)
         /\ \A i \in 1..Len(t) : t[i] = Connect(kids[i])
         /\ \A i \in 1..Len(t) : FrameOK(t[i]) /\ Quiet(t[i])
<1>1. PICK n : n = Len(kids)
  OBVIOUS
<1>2. n \in Nat /\ DOMAIN kids = 1..n /\ \A i \in 1..n : kids[i] \in Handle
  BY <1>1
<1>3. t = [i \in 1..n |-> Connect(kids[i])] /\ \A i \in 1..n : t[i] = Connect(kids[i])
  BY <1>2 DEF Connects
<1>4. \A i \in 1..n : Connect(kids[i]) \in Frames
  BY <1>2, ConnectIs
<1>5. t \in Seq(Frames) /\ Len(t) = n
  <2>1. t \in [1..n -> Frames] /\ DOMAIN t = 1..n
    BY <1>3, <1>4
  <2> QED BY <1>2, <2>1, SeqDef, LenProperties
<1>6. \A i \in 1..n : FrameOK(t[i]) /\ Quiet(t[i])
  BY <1>2, <1>3, ConnectIs
<1> QED BY <1>1, <1>3, <1>5, <1>6, Zenon

\* The next stack, built on the callers or on the whole stack.
LEMMA Rebuilt ==
  ASSUME HdbInv, DbInv(db'), Bounded', NEW s, stack' = s,
         FramesOK(s), Ranked(s), Recorded(db', s)
  PROVE  HdbInv'
<1>1. FramesOK(stack)' /\ Ranked(stack)' /\ Recorded(db, stack)'
  <2>1. FramesOK(stack') /\ Ranked(stack') /\ Recorded(db', stack')
    BY Zenon
  <2> QED BY <2>1 DEF FramesOK, Ranked, Recorded, RecordedIn, Live
<1>2. DbInv(db)'
  OBVIOUS
<1> QED BY <1>1, <1>2 DEF HdbInv

LEMMA SameBounds ==
  ASSUME HdbInv, UNCHANGED bounds
  PROVE  Bounded'
BY DEF HdbInv, Bounded, bounds

LEMMA ConnectChildrenKeeps ==
  ASSUME HdbInv, ConnectChildren
  PROVE  HdbInv'
<1>1. /\ stack # <<>> /\ Top.pc = "connect" /\ UNCHANGED bounds /\ UNCHANGED db
  BY DEF ConnectChildren, At, Running
<1>2. PICK S : S = ChildrenOf(db, Top.handle, Driver)
  OBVIOUS
<1>3. PICK kids : kids = SetToSeq(S)
  OBVIOUS
<1>4. IF kids = <<>> THEN Return(TRUE) ELSE stack' = Callers \o Connects(kids)
  BY <1>2, <1>3, Zenon DEF ConnectChildren, Connects
<1>5. Top.handle \in Handle /\ DbInv(db) /\ FramesOK(stack) /\ Ranked(stack)
  BY <1>1, TopFacts DEF FrameOK, Outside
<1>6. kids \in Seq(Handle)
  <2>1. S \in SUBSET Handle /\ IsFiniteSet(S)
    BY <1>2, <1>5, ChildrenAre
  <2> QED BY <1>3, <2>1, OrderIs DEF Lists
<1>7. DbInv(db') /\ Keeps(db') /\ Bounded'
  BY <1>1, SameDb, SameBounds
<1>8. CASE Return(TRUE)
  BY <1>1, <1>7, <1>8, Returns
<1>9. CASE stack' = Callers \o Connects(kids)
  <2>1. PICK t : t = Connects(kids)
    OBVIOUS
  <2>2. PICK d : d = db'
    OBVIOUS
  <2>3. PICK c : c = Callers
    OBVIOUS
  <2>4. t \in Seq(Frames) /\ \A i \in 1..Len(t) : FrameOK(t[i]) /\ Quiet(t[i])
    BY <1>6, <2>1, ConnectsIs
  <2>5. CallersRecorded(d)
    <3>1. Keeps(d)
      BY <1>7, <2>2, Zenon
    <3> QED BY <1>1, <3>1, AllRecorded DEF Keeps
  <2>6. FramesOK(c) /\ Ranked(c) /\ Recorded(d, c)
    BY <1>1, <1>5, <2>3, <2>5, PopOK, Zenon
  <2>7. PICK s : s = c \o t
    OBVIOUS
  <2>8. FramesOK(s) /\ Ranked(s) /\ Recorded(d, s)
    BY <2>4, <2>6, <2>7, JoinOK
  <2>9. stack' = s
    BY <1>9, <2>1, <2>3, <2>7, Zenon
  <2> QED BY <1>7, <2>2, <2>8, <2>9, Rebuilt, Zenon
<1> QED BY <1>4, <1>8, <1>9

-----------------------------------------------------------------------------
(* The functions that remove, and how far they are from the disk.           *)

LEMMA UninstallIs ==
  ASSUME NEW h \in Handle, NEW g \in Guid, NEW f, f = Uninstall(h, g)
  PROVE  /\ FrameOK(f) /\ f.pc = "uninstall" /\ f.handle = h /\ f.guid = g /\ f.ok /\ ~f.done
         /\ f.pc \in Sections
         /\ Depth(f) = IF g = BlockIo THEN 0 ELSE 3
         /\ \A d : RecordedIn(d, f)
<1>1. f.pc = "uninstall" /\ f.handle = h /\ f.guid = g /\ f.ok /\ ~f.done /\ f.left = {}
  BY FrameIs DEF Uninstall
<1>2. f \in Frames
  <2>1. /\ "uninstall" \in Pcs /\ h \in Handle \cup {NoHandle}
        /\ {} \in SUBSET (Driver \cup Handle \cup Registration)
        /\ App \in Driver \cup {App} \cup Handle
    BY DEF Pcs, Sections, Looking
  <2> QED BY <2>1, FrameType, Zenon DEF Uninstall
<1>3. FrameOK(f) /\ f.pc \in Sections
  BY <1>1, <1>2 DEF FrameOK, Sections, Looking, Agents, Outside
<1>4. Depth(f) = IF g = BlockIo THEN 0 ELSE 3
  BY <1>1 DEF Depth, Looking
<1> QED BY <1>1, <1>3, <1>4 DEF RecordedIn

LEMMA DisconnectIs ==
  ASSUME NEW h \in Handle, NEW agents \in SUBSET Driver, NEW f, f = Disconnect(h, agents)
  PROVE  /\ FrameOK(f) /\ f.pc = "disconnect" /\ f.handle = h /\ f.left = agents /\ f.ok /\ ~f.done
         /\ f.pc \in Sections
         /\ Depth(f) = IF DiskIoDxe \in agents THEN 1 ELSE 4
         /\ \A d : RecordedIn(d, f)
<1>1. f.pc = "disconnect" /\ f.handle = h /\ f.ok /\ ~f.done /\ f.left = agents /\ f.who = App
  BY FrameIs DEF Disconnect
<1>2. f \in Frames
  <2>1. /\ "disconnect" \in Pcs /\ h \in Handle \cup {NoHandle} /\ BlockIo \in Guid
        /\ agents \in SUBSET (Driver \cup Handle \cup Registration)
        /\ App \in Driver \cup {App} \cup Handle
    BY Names DEF Pcs, Sections, Agents
  <2> QED BY <2>1, FrameType, Zenon DEF Disconnect
<1>3. FrameOK(f) /\ f.pc \in Sections
  BY <1>1, <1>2 DEF FrameOK, Sections, Looking, Agents, Outside
<1>4. Depth(f) = IF DiskIoDxe \in agents THEN 1 ELSE 4
  BY <1>1, Names DEF Depth, Looking, Agents
<1> QED BY <1>1, <1>3, <1>4 DEF RecordedIn, Looking

LEMMA StopIs ==
  ASSUME NEW h \in Handle, NEW driver \in Driver, NEW kids \in SUBSET Partitions[h],
         NEW f, f = Stop(driver, h, kids)
  PROVE  /\ FrameOK(f) /\ f.handle = h /\ f.left = kids /\ f.ok /\ ~f.done
         /\ f.pc = IF driver = DiskIoDxe THEN "stopDiskIo"
                   ELSE IF kids = {} THEN "stopBus" ELSE "stopChildren"
         /\ f.pc \in Sections
         /\ Depth(f) = IF driver = DiskIoDxe THEN 2 ELSE 5
         /\ \A d : RecordedIn(d, f)
<1>0. PICK pc : pc = IF driver = DiskIoDxe THEN "stopDiskIo"
                     ELSE IF kids = {} THEN "stopBus" ELSE "stopChildren"
  OBVIOUS
<1>1. f.pc = pc /\ f.handle = h /\ f.ok /\ ~f.done /\ f.left = kids
  BY <1>0, FrameIs DEF Stop
<1>2. f \in Frames
  <2>1. /\ pc \in Pcs /\ h \in Handle \cup {NoHandle} /\ DiskIo \in Guid
        /\ kids \in SUBSET (Driver \cup Handle \cup Registration)
        /\ App \in Driver \cup {App} \cup Handle
    BY <1>0, Names, HandleAssumption DEF Pcs, Sections
  <2> QED BY <1>0, <2>1, FrameType, Zenon DEF Stop
<1>3. FrameOK(f) /\ f.pc \in Sections
  BY <1>0, <1>1, <1>2 DEF FrameOK, Sections, Looking, Agents, Outside
<1>4. Depth(f) = IF driver = DiskIoDxe THEN 2 ELSE 5
  BY <1>0, <1>1 DEF Depth, Looking, Agents
<1> QED BY <1>0, <1>1, <1>3, <1>4 DEF RecordedIn, Looking

LEMMA DeeperHere ==
  ASSUME NEW f, NEW g, FrameOK(f), FrameOK(g), f.pc \in Sections, g.pc \in Sections,
         g.handle = f.handle
  PROVE  /\ Depth(f) <= Depth(g) => Rank(f) <= Rank(g)
         /\ Depth(f) < Depth(g) => Rank(f) < Rank(g)
<1>1. /\ Depth(f) \in Int /\ Depth(g) \in Int
      /\ f.handle \in Handle /\ PathLength[f.handle] \in Nat
  BY PcsAre, RankIs
<1> QED BY <1>1 DEF Rank

LEMMA FollowsHere ==
  ASSUME FrameOK(Top), Top.pc \in Sections, NEW f, FrameOK(f), f.pc \in Sections,
         f.handle = Top.handle, Depth(Top) <= Depth(f), NEW d, RecordedIn(d, f)
  PROVE  Follows(d, f)
BY DeeperHere DEF Follows

LEMMA RisesHere ==
  ASSUME NEW f, FrameOK(f), f.pc \in Sections, NEW g, FrameOK(g), g.pc \in Sections,
         g.handle = f.handle, Depth(f) < Depth(g), NEW d, RecordedIn(d, g)
  PROVE  Rises(d, f, g)
BY DeeperHere DEF Rises

-----------------------------------------------------------------------------
(* CoreDisconnectController.                                                *)

\* Only drivers manage a controller, and each through its own protocol.
LEMMA ManagingAre ==
  ASSUME NEW d, DbInv(d), NEW h \in Handle
  PROVE  /\ Managing(d, h) \subseteq Driver
         /\ \A g \in Guid : \A i \in With(d, h, g, "driver") :
              i = Opened(OwnerOf(g), h, "driver") /\ i.agent = OwnerOf(g)
<1>1. ASSUME NEW g \in Guid, NEW i \in With(d, h, g, "driver")
      PROVE  i = Opened(OwnerOf(g), h, "driver") /\ i.agent = OwnerOf(g)
  <2>1. i = Opened(OwnerOf(g), h, "driver")
    BY <1>1 DEF DbInv, OpenOK, ItemOK, With
  <2> QED BY <2>1 DEF Opened
<1>2. \A g \in Guid : OwnerOf(g) \in Driver
  BY Names
<1> QED BY <1>1, <1>2 DEF Managing

LEMMA DisconnectCollectKeeps ==
  ASSUME HdbInv, DisconnectCollect
  PROVE  HdbInv'
<1>1. /\ stack # <<>> /\ Top.pc = "disconnectAll" /\ UNCHANGED bounds /\ UNCHANGED db
  BY DEF DisconnectCollect, At, Running
<1>2. PICK agents : agents = Managing(db, Top.handle)
  OBVIOUS
<1>3. FrameOK(Top) /\ Top.handle \in Handle /\ DbInv(db)
  BY <1>1, TopFacts DEF FrameOK, Outside
<1>4. agents \in SUBSET Driver
  BY <1>2, <1>3, ManagingAre
<1>5. DbInv(db') /\ Keeps(db')
  BY <1>1, SameDb
<1>6. CASE Return(TRUE)
  BY <1>1, <1>5, <1>6, Returns
<1>7. CASE Goto(Disconnect(Top.handle, agents))
  <2>1. PICK f : f = Disconnect(Top.handle, agents)
    OBVIOUS
  <2>2. /\ FrameOK(f) /\ f.handle = Top.handle /\ f.pc \in Sections /\ Depth(f) >= 1
        /\ \A d : RecordedIn(d, f)
    BY <1>3, <1>4, <2>1, DisconnectIs
  <2>3. Top.pc \in Sections /\ Depth(Top) = 1
    BY <1>1 DEF Sections, Depth, Looking, Agents
  <2>4. Follows(db', f)
    <3>1. Depth(f) \in Int
      BY <2>2, PcsAre, RankIs
    <3>2. Depth(Top) <= Depth(f)
      BY <2>2, <2>3, <3>1
    <3> QED BY <1>3, <2>2, <2>3, <3>2, FollowsHere
  <2>5. Goto(f)
    BY <1>7, <2>1, Zenon
  <2> QED BY <1>1, <1>5, <2>4, <2>5, GoesOn
<1>8. IF agents = {} THEN Return(TRUE) ELSE Goto(Disconnect(Top.handle, agents))
  BY <1>2, Zenon DEF DisconnectCollect
<1> QED BY <1>6, <1>7, <1>8

\* A frame of the loop over the drivers, at the next of them.
LEMMA AgentFrame ==
  ASSUME FrameOK(Top), Top.pc \in Agents, NEW pc \in Agents,
         NEW left \in SUBSET Top.left, NEW who \in Driver, NEW done \in BOOLEAN,
         Top.left \cup {Top.who} = left \cup {who} \cup {Top.who},
         NEW f, Has(f, Top, pc, left, who, done)
  PROVE  /\ FrameOK(f) /\ f.handle = Top.handle /\ f.pc \in Sections
         /\ \A d : Follows(d, f)
         /\ Depth(f) = IF DiskIoDxe \in left \cup {who} THEN 1 ELSE 4
<1>1. Top.left \subseteq Driver /\ Top.handle \in Handle
  BY DEF FrameOK, Agents, Outside
<1>2. FrameOK(f) /\ f.handle = Top.handle /\ f.pc \in Sections
  BY <1>1 DEF Has, FrameOK, Sections, Looking, Agents, Outside
<1>3. /\ Depth(f) = IF DiskIoDxe \in left \cup {who} THEN 1 ELSE 4
      /\ Depth(Top) = IF DiskIoDxe \in Top.left \cup {Top.who} THEN 1 ELSE 4
  <2>1. f.pc \in Agents /\ f.left = left /\ f.who = who /\ f.pc \notin Looking /\ Top.pc \notin Looking
    BY PcsAre DEF Has
  <2> QED BY <2>1 DEF Depth
<1>4. Depth(Top) <= Depth(f)
  BY <1>3
<1>5. \A d : RecordedIn(d, f)
  BY PcsAre DEF Has, RecordedIn
<1> QED BY <1>2, <1>3, <1>4, <1>5, PcsAre, FollowsHere

LEMMA DisconnectNextKeeps ==
  ASSUME HdbInv, DisconnectNext
  PROVE  HdbInv'
<1>1. /\ stack # <<>> /\ Top.pc = "disconnect" /\ UNCHANGED bounds /\ UNCHANGED db
  BY DEF DisconnectNext, At, Running
<1>2. PICK driver \in Top.left :
        \/ Goto(Visiting(Top, Top.left \ {driver}, driver))
        \/ Push(Moving(Top, IF ChildrenOf(db, Top.handle, {driver}) = {}
                            THEN "stopped" ELSE "childrenStopped",
                       Top.left \ {driver}, driver),
                Stop(driver, Top.handle, ChildrenOf(db, Top.handle, {driver})))
  <2>1. PICK driver \in Top.left :
          LET kids == ChildrenOf(db, Top.handle, {driver})
              next == Visiting(Top, Top.left \ {driver}, driver)
          IN  IF driver \notin Managing(db, Top.handle) THEN Goto(next)
              ELSE Push([next EXCEPT !.pc = IF kids = {} THEN "stopped" ELSE "childrenStopped"],
                        Stop(driver, Top.handle, kids))
    BY Zenon DEF DisconnectNext, Visiting
  <2>2. PICK pc : pc = IF ChildrenOf(db, Top.handle, {driver}) = {}
                       THEN "stopped" ELSE "childrenStopped"
    OBVIOUS
  <2>3. [Visiting(Top, Top.left \ {driver}, driver) EXCEPT !.pc = pc]
          = Moving(Top, pc, Top.left \ {driver}, driver)
    <3>0. PICK left : left = Top.left \ {driver}
      OBVIOUS
    <3>1. Top \in Frames /\ left \in SUBSET Top.left /\ pc \in Pcs /\ driver \in Driver
      <4>1. Top \in Frames /\ Top.left \subseteq Driver
        BY <1>1, TopFacts DEF FrameOK, Agents
      <4> QED BY <2>2, <3>0, <4>1 DEF Pcs, Sections, Agents
    <3>2. PICK v : v = Visiting(Top, left, driver)
      OBVIOUS
    <3>3. PICK m : m = Moving(Top, pc, left, driver)
      OBVIOUS
    <3>4. driver \in {Top.who} \cup Driver \cup Handle
      BY <3>1
    <3>5. Has(v, Top, Top.pc, left, driver, Top.done) /\ Has(m, Top, pc, left, driver, Top.done)
      BY <3>1, <3>2, <3>3, <3>4, VisitingIs, MovingIs
    <3>6. [v EXCEPT !.pc = pc] = Altered(v, pc, v.left, v.who, v.done)
      BY <3>5, AlteredOne DEF Has
    <3>7. m = Altered(v, pc, v.left, v.who, v.done)
      BY <3>5 DEF Has, Altered, Frames
    <3> QED BY <3>0, <3>2, <3>3, <3>6, <3>7, Zenon
  <2> QED BY <2>1, <2>2, <2>3, Zenon
<1>3. FrameOK(Top) /\ Top.handle \in Handle /\ DbInv(db) /\ Top \in Frames /\ Top.left \subseteq Driver
      /\ Top.done \in BOOLEAN /\ Top.pc \in Agents
  BY <1>1, TopFacts DEF FrameOK, Outside, Agents
<1>4. PICK left : left = Top.left \ {driver}
  OBVIOUS
<1>5. /\ left \in SUBSET Top.left /\ driver \in Driver
      /\ driver \in {Top.who} \cup Driver \cup Handle
      /\ Top.left \cup {Top.who} = left \cup {driver} \cup {Top.who}
  BY <1>3, <1>4
<1>6. DbInv(db') /\ Keeps(db')
  BY <1>1, SameDb
<1>7. CASE Goto(Visiting(Top, Top.left \ {driver}, driver))
  <2>1. PICK f : f = Visiting(Top, left, driver)
    OBVIOUS
  <2>2. Has(f, Top, Top.pc, left, driver, Top.done)
    BY <1>3, <1>5, <2>1, VisitingIs
  <2>0. PICK pc \in Agents : pc = Top.pc
    BY <1>3
  <2>a. Has(f, Top, pc, left, driver, Top.done)
    BY <2>0, <2>2, Zenon
  <2>3. /\ FrameOK(f) /\ f.handle = Top.handle /\ f.pc \in Sections /\ Follows(db', f)
        /\ Depth(f) = IF DiskIoDxe \in left \cup {driver} THEN 1 ELSE 4
    BY <1>3, <1>5, <2>0, <2>a, AgentFrame
  <2>4. Goto(f)
    BY <1>4, <1>7, <2>1, Zenon
  <2> QED BY <1>1, <1>6, <2>3, <2>4, GoesOn
<1>8. PICK kids : kids = ChildrenOf(db, Top.handle, {driver})
  OBVIOUS
<1>9. PICK pc : pc = IF kids = {} THEN "stopped" ELSE "childrenStopped"
  OBVIOUS
<1>10. CASE Push(Moving(Top, pc, left, driver), Stop(driver, Top.handle, kids))
  <2>0. pc \in Agents /\ pc \in Pcs
    BY <1>9, PcsAre DEF Agents
  <2>1. PICK f : f = Moving(Top, pc, left, driver)
    OBVIOUS
  <2>2. Has(f, Top, pc, left, driver, Top.done)
    BY <1>3, <1>5, <2>0, <2>1, MovingIs
  <2>3. /\ FrameOK(f) /\ f.handle = Top.handle /\ f.pc \in Sections /\ Follows(db', f)
        /\ Depth(f) = IF DiskIoDxe \in left \cup {driver} THEN 1 ELSE 4
    BY <1>3, <1>5, <2>0, <2>2, AgentFrame
  <2>4. PICK g : g = Stop(driver, Top.handle, kids)
    OBVIOUS
  <2>5. kids \in SUBSET Partitions[Top.handle]
    BY <1>3, <1>8, ChildrenAre
  <2>6. /\ FrameOK(g) /\ g.handle = Top.handle /\ g.pc \in Sections
        /\ Depth(g) = IF driver = DiskIoDxe THEN 2 ELSE 5
        /\ \A d : RecordedIn(d, g)
    BY <1>3, <1>5, <2>4, <2>5, StopIs
  <2>7. Depth(f) < Depth(g)
    BY <2>3, <2>6
  <2>8. Rises(db', f, g)
    BY <2>3, <2>6, <2>7, RisesHere
  <2>9. Push(f, g)
    BY <1>10, <2>1, <2>4, Zenon
  <2> QED BY <1>1, <1>6, <2>3, <2>8, <2>9, Calls
<1> QED BY <1>2, <1>4, <1>7, <1>8, <1>9, <1>10, Zenon

LEMMA DisconnectChildrenStoppedKeeps ==
  ASSUME HdbInv, DisconnectChildrenStopped
  PROVE  HdbInv'
<1>1. /\ stack # <<>> /\ Top.pc = "childrenStopped" /\ UNCHANGED bounds /\ UNCHANGED db
      /\ IF Top.ok THEN Push(Going(Top, "stopped"), Stop(Top.who, Top.handle, {}))
         ELSE Goto(Going(Top, "disconnect"))
  BY Zenon DEF DisconnectChildrenStopped, At, Running, Going
<1>2. FrameOK(Top) /\ Top.handle \in Handle /\ Top \in Frames /\ Top.who \in Driver
      /\ Top.done \in BOOLEAN /\ Top.pc \in Agents
  BY <1>1, TopFacts DEF FrameOK, Outside, Agents
<1>3. PICK who \in Driver : who = Top.who
  BY <1>2
<1>4. PICK left \in SUBSET Top.left : left = Top.left
  OBVIOUS
<1>5. Top.left \cup {Top.who} = left \cup {who} \cup {Top.who}
  BY <1>3, <1>4
<1>6. DbInv(db') /\ Keeps(db')
  BY <1>1, SameDb
<1>7. ASSUME NEW pc \in Agents, NEW f, f = Going(Top, pc)
      PROVE  /\ FrameOK(f) /\ f.handle = Top.handle /\ f.pc \in Sections /\ Follows(db', f)
             /\ Depth(f) = IF DiskIoDxe \in left \cup {who} THEN 1 ELSE 4
  <2>1. Has(f, Top, pc, Top.left, Top.who, Top.done)
    BY <1>2, <1>7, PcsAre, GoingIs
  <2>2. Has(f, Top, pc, left, who, Top.done)
    BY <1>3, <1>4, <2>1, Zenon
  <2> QED BY <1>2, <1>5, <1>7, <2>2, AgentFrame
<1>8. CASE Goto(Going(Top, "disconnect"))
  <2>1. PICK pc \in Agents : pc = "disconnect"
    BY DEF Agents
  <2>2. PICK f : f = Going(Top, pc)
    OBVIOUS
  <2>3. Goto(f)
    BY <1>8, <2>1, <2>2, Zenon
  <2>4. Follows(db', f)
    BY <1>7, <2>2, Zenon
  <2> QED BY <1>1, <1>6, <2>3, <2>4, GoesOn
<1>9. CASE Push(Going(Top, "stopped"), Stop(Top.who, Top.handle, {}))
  <2>1. PICK pc \in Agents : pc = "stopped"
    BY DEF Agents
  <2>2. PICK f : f = Going(Top, pc)
    OBVIOUS
  <2>3. PICK g : g = Stop(who, Top.handle, {})
    OBVIOUS
  <2>4. Push(f, g)
    BY <1>3, <1>9, <2>1, <2>2, <2>3, Zenon
  <2>5. /\ FrameOK(f) /\ f.handle = Top.handle /\ f.pc \in Sections /\ Follows(db', f)
        /\ Depth(f) = IF DiskIoDxe \in left \cup {who} THEN 1 ELSE 4
    BY <1>7, <2>2, Zenon
  <2>6. PICK kids \in SUBSET Partitions[Top.handle] : kids = {}
    OBVIOUS
  <2>7. g = Stop(who, Top.handle, kids)
    BY <2>3, <2>6, Zenon
  <2>8. /\ FrameOK(g) /\ g.handle = Top.handle /\ g.pc \in Sections
        /\ Depth(g) = IF who = DiskIoDxe THEN 2 ELSE 5
        /\ \A d : RecordedIn(d, g)
    BY <1>2, <2>7, StopIs
  <2>9. Depth(f) < Depth(g)
    BY <2>5, <2>8
  <2>10. Rises(db', f, g)
    BY <2>5, <2>8, <2>9, RisesHere
  <2> QED BY <1>1, <1>6, <2>4, <2>5, <2>10, Calls
<1> QED BY <1>1, <1>8, <1>9

LEMMA DisconnectStoppedKeeps ==
  ASSUME HdbInv, DisconnectStopped
  PROVE  HdbInv'
<1>1. /\ stack # <<>> /\ Top.pc = "stopped" /\ UNCHANGED bounds /\ UNCHANGED db
      /\ Goto(Marking(Top, "disconnect", Top.done \/ Top.ok))
  BY Zenon DEF DisconnectStopped, At, Running, Marking
<1>2. FrameOK(Top) /\ Top \in Frames /\ Top.who \in Driver
      /\ Top.done \in BOOLEAN /\ Top.ok \in BOOLEAN /\ Top.pc \in Agents
  BY <1>1, TopFacts DEF FrameOK, Agents
<1>3. PICK who \in Driver : who = Top.who
  BY <1>2
<1>4. PICK left \in SUBSET Top.left : left = Top.left
  OBVIOUS
<1>5. Top.left \cup {Top.who} = left \cup {who} \cup {Top.who}
  BY <1>3, <1>4
<1>6. DbInv(db') /\ Keeps(db')
  BY <1>1, SameDb
<1>7. PICK pc \in Agents : pc = "disconnect"
  BY DEF Agents
<1>8. PICK done \in BOOLEAN : done = (Top.done \/ Top.ok)
  BY <1>2
<1>9. PICK f : f = Marking(Top, pc, done)
  OBVIOUS
<1>10. Has(f, Top, pc, left, who, done)
  <2>1. Has(f, Top, pc, Top.left, Top.who, done)
    BY <1>2, <1>9, PcsAre, MarkingIs
  <2> QED BY <1>3, <1>4, <2>1, Zenon
<1>11. /\ FrameOK(f) /\ f.handle = Top.handle /\ f.pc \in Sections /\ Follows(db', f)
       /\ Depth(f) = IF DiskIoDxe \in left \cup {who} THEN 1 ELSE 4
  BY <1>2, <1>5, <1>10, AgentFrame
<1>12. Goto(f)
  BY <1>1, <1>7, <1>8, <1>9, Zenon
<1> QED BY <1>1, <1>6, <1>11, <1>12, GoesOn

LEMMA DisconnectReturnKeeps ==
  ASSUME HdbInv, DisconnectReturn
  PROVE  HdbInv'
<1>1. /\ stack # <<>> /\ UNCHANGED bounds /\ UNCHANGED db /\ Return(Top.done)
  BY DEF DisconnectReturn, At, Running
<1>2. DbInv(db') /\ Keeps(db') /\ Top.done \in BOOLEAN
  BY <1>1, SameDb, TopFacts
<1> QED BY <1>1, <1>2, Returns

-----------------------------------------------------------------------------
(* The drivers' Stop.                                                       *)

\* Only openings change.
SameLists(d) == d.list = db.list /\ d.position = db.position /\ d.signalled = db.signalled

LEMMA GetKeeps ==
  ASSUME DbInv(db), NEW h \in Handle, NEW g \in Guid, NEW agent \in Driver, NEW c \in Handle,
         NEW d, d = Add(db, h, g, Opened(agent, c, "get"))
  PROVE  DbInv(d) /\ Keeps(d) /\ SameLists(d)
<1>1. PICK item : item = Opened(agent, c, "get")
  OBVIOUS
<1>2. item \in OpenData /\ Admits(db, h, g, item)
  BY <1>1, GetAdmitted
<1>3. DbInv(d) /\ SameLists(d)
  BY <1>1, <1>2, AddIs DEF SameLists
<1> QED BY <1>3, KeptBySame DEF SameLists

LEMMA CloseKeeps ==
  ASSUME NEW b, DbInv(b), NEW h \in Handle, NEW g \in Guid, NEW agent, NEW controller,
         SameLists(b), NEW d, d = CoreCloseProtocol(b, h, g, agent, controller)
  PROVE  DbInv(d) /\ SameLists(d) /\ (DbInv(db) => Keeps(d))
<1>1. DbInv(d) /\ SameLists(d)
  BY CloseIs DEF SameLists
<1> QED BY <1>1, KeptBySame DEF SameLists

LEMMA StopDiskIoKeeps ==
  ASSUME HdbInv, StopDiskIo
  PROVE  HdbInv' /\ SameLists(db')
<1>1. /\ stack # <<>> /\ Top.pc = "stopDiskIo" /\ UNCHANGED bounds
      /\ \/ Return(FALSE)
         \/ Push(Going(Top, "stopDiskIoEnd"), Uninstall(Top.handle, DiskIo))
      /\ db' = Add(db, Top.handle, DiskIo, Opened(DiskIoDxe, Top.handle, "get"))
  BY Zenon DEF StopDiskIo, At, Running, Going
<1>2. FrameOK(Top) /\ Top.handle \in Handle /\ Top \in Frames /\ DbInv(db)
  BY <1>1, TopFacts DEF FrameOK, Outside
<1>3. DbInv(db') /\ Keeps(db') /\ SameLists(db')
  <2>1. PICK d : d = db'
    OBVIOUS
  <2>2. PICK g \in Guid : g = DiskIo
    BY Names
  <2>3. PICK agent \in Driver : agent = DiskIoDxe
    BY Names
  <2>4. d = Add(db, Top.handle, g, Opened(agent, Top.handle, "get"))
    BY <1>1, <2>1, <2>2, <2>3, Zenon
  <2>5. DbInv(d) /\ Keeps(d) /\ SameLists(d)
    BY <1>2, <2>4, GetKeeps
  <2> QED BY <2>1, <2>5, Zenon
<1>4. CASE Return(FALSE)
  BY <1>1, <1>3, <1>4, Returns
<1>5. CASE Push(Going(Top, "stopDiskIoEnd"), Uninstall(Top.handle, DiskIo))
  <2>1. PICK pc \in Pcs : pc = "stopDiskIoEnd"
    BY DEF Pcs, Sections
  <2>2. PICK f : f = Going(Top, pc)
    OBVIOUS
  <2>3. Has(f, Top, pc, Top.left, Top.who, Top.done)
    BY <1>2, <2>2, GoingIs
  <2>4. FrameOK(f) /\ f.pc \in Sections /\ f.handle = Top.handle /\ Depth(f) = 2 /\ Depth(Top) = 2
        /\ Top.pc \in Sections /\ \A d : RecordedIn(d, f)
    BY <1>1, <1>2, <2>1, <2>3
       DEF Has, FrameOK, Sections, Looking, Agents, Outside, Depth, RecordedIn
  <2>5. Follows(db', f)
    BY <1>2, <2>4, FollowsHere
  <2>6. PICK y \in Guid : y = DiskIo
    BY Names
  <2>7. PICK g : g = Uninstall(Top.handle, y)
    OBVIOUS
  <2>8. /\ FrameOK(g) /\ g.handle = Top.handle /\ g.pc \in Sections
        /\ Depth(g) = IF y = BlockIo THEN 0 ELSE 3
        /\ \A d : RecordedIn(d, g)
    BY <1>2, <2>7, UninstallIs
  <2>9. Depth(f) < Depth(g)
    BY <2>4, <2>6, <2>8, Names
  <2>10. Rises(db', f, g)
    BY <2>4, <2>8, <2>9, RisesHere
  <2>11. Push(f, g)
    BY <1>5, <2>1, <2>2, <2>6, <2>7, Zenon
  <2> QED BY <1>1, <1>3, <2>5, <2>10, <2>11, Calls
<1> QED BY <1>1, <1>3, <1>4, <1>5

LEMMA StopDiskIoEndKeeps ==
  ASSUME HdbInv, StopDiskIoEnd
  PROVE  HdbInv' /\ SameLists(db')
<1>1. /\ stack # <<>> /\ Top.pc = "stopDiskIoEnd" /\ UNCHANGED bounds /\ Return(Top.ok)
      /\ db' = IF Top.ok THEN CoreCloseProtocol(db, Top.handle, BlockIo, DiskIoDxe, Top.handle) ELSE db
  BY Zenon DEF StopDiskIoEnd, At, Running
<1>2. Top.handle \in Handle /\ DbInv(db) /\ Top.ok \in BOOLEAN
  BY <1>1, TopFacts DEF FrameOK, Outside
<1>3. DbInv(db') /\ Keeps(db') /\ SameLists(db')
  <2>1. PICK d : d = db'
    OBVIOUS
  <2>2. SameLists(db) /\ Keeps(db)
    BY DEF SameLists, Keeps
  <2>3. CASE d = db
    BY <1>2, <2>1, <2>2, <2>3, Zenon
  <2>4. CASE d = CoreCloseProtocol(db, Top.handle, BlockIo, DiskIoDxe, Top.handle)
    <3>1. PICK g \in Guid : g = BlockIo
      BY Names
    <3>2. d = CoreCloseProtocol(db, Top.handle, g, DiskIoDxe, Top.handle)
      BY <2>4, <3>1, Zenon
    <3>3. DbInv(d) /\ Keeps(d) /\ SameLists(d)
      BY <1>2, <2>2, <3>2, CloseKeeps
    <3> QED BY <2>1, <3>3, Zenon
  <2> QED BY <1>1, <2>1, <2>3, <2>4
<1> QED BY <1>1, <1>2, <1>3, Returns

LEMMA StopBusKeeps ==
  ASSUME HdbInv, StopBus
  PROVE  HdbInv' /\ SameLists(db')
<1>1. /\ stack # <<>> /\ Top.pc = "stopBus" /\ UNCHANGED bounds /\ Return(TRUE)
      /\ db' = CoreCloseProtocol(db, Top.handle, DiskIo, PartitionDxe, Top.handle)
  BY Zenon DEF StopBus, At, Running
<1>2. Top.handle \in Handle /\ DbInv(db)
  BY <1>1, TopFacts DEF FrameOK, Outside
<1>3. DbInv(db') /\ Keeps(db') /\ SameLists(db')
  <2>1. PICK d : d = db'
    OBVIOUS
  <2>2. SameLists(db)
    BY DEF SameLists
  <2>3. PICK g \in Guid : g = DiskIo
    BY Names
  <2>4. d = CoreCloseProtocol(db, Top.handle, g, PartitionDxe, Top.handle)
    BY <1>1, <2>1, <2>3, Zenon
  <2>5. DbInv(d) /\ Keeps(d) /\ SameLists(d)
    BY <1>2, <2>2, <2>4, CloseKeeps
  <2> QED BY <2>1, <2>5, Zenon
<1> QED BY <1>1, <1>3, Returns

\* A frame of the loop over the children.
LEMMA ChildFrame ==
  ASSUME FrameOK(Top), Top.pc \in {"stopChildren", "childStopped"},
         NEW pc \in {"stopChildren", "childStopped"},
         NEW left \in SUBSET Top.left, NEW who, pc = "childStopped" => who \in Partitions[Top.handle],
         NEW done, NEW f, Has(f, Top, pc, left, who, done)
  PROVE  /\ FrameOK(f) /\ f.handle = Top.handle /\ f.pc \in Sections /\ Depth(f) = 5
         /\ \A d : Follows(d, f)
<1>1. /\ FrameOK(f) /\ f.handle = Top.handle /\ f.pc \in Sections /\ Depth(f) = 5
      /\ Top.pc \in Sections /\ Depth(Top) = 5 /\ \A d : RecordedIn(d, f)
  BY DEF Has, FrameOK, Sections, Looking, Agents, Outside, Depth, RecordedIn
<1> QED BY <1>1, FollowsHere

LEMMA StopChildKeeps ==
  ASSUME HdbInv, StopChild
  PROVE  HdbInv' /\ SameLists(db')
<1>1. /\ stack # <<>> /\ Top.pc = "stopChildren" /\ UNCHANGED bounds
  BY DEF StopChild, At, Running
<1>2. PICK c \in Top.left :
        /\ Push(Moving(Top, "childStopped", Top.left \ {c}, c), Uninstall(c, BlockIo))
        /\ db' = CoreCloseProtocol(
                   Add(db, c, BlockIo, Opened(PartitionDxe, Top.handle, "get")),
                   Top.handle, DiskIo, PartitionDxe, c)
  BY Zenon DEF StopChild, Moving
<1>3. FrameOK(Top) /\ Top.handle \in Handle /\ Top \in Frames /\ DbInv(db)
      /\ Top.left \subseteq Partitions[Top.handle]
  BY <1>1, TopFacts DEF FrameOK, Outside
<1>4. c \in Partitions[Top.handle] /\ c \in Handle /\ PathLength[c] = PathLength[Top.handle] + 1
  BY <1>2, <1>3, HandleAssumption, PartitionAssumption
<1>5. DbInv(db') /\ Keeps(db') /\ SameLists(db')
  <2>1. PICK d : d = db'
    OBVIOUS
  <2>2. PICK y \in Guid : y = BlockIo
    BY Names
  <2>3. PICK agent \in Driver : agent = PartitionDxe
    BY Names
  <2>4. PICK a : a = Add(db, c, y, Opened(agent, Top.handle, "get"))
    OBVIOUS
  <2>5. DbInv(a) /\ SameLists(a)
    BY <1>3, <1>4, <2>4, GetKeeps
  <2>6. PICK g \in Guid : g = DiskIo
    BY Names
  <2>7. d = CoreCloseProtocol(a, Top.handle, g, PartitionDxe, c)
    BY <1>2, <2>1, <2>2, <2>3, <2>4, <2>6, Zenon
  <2>8. DbInv(d) /\ Keeps(d) /\ SameLists(d)
    BY <1>3, <2>5, <2>7, CloseKeeps
  <2> QED BY <2>1, <2>8, Zenon
<1>6. PICK pc \in Pcs : pc = "childStopped"
  BY DEF Pcs, Sections
<1>7. PICK left \in SUBSET Top.left : left = Top.left \ {c}
  OBVIOUS
<1>8. PICK f : f = Moving(Top, pc, left, c)
  OBVIOUS
<1>9. Has(f, Top, pc, left, c, Top.done)
  <2>1. c \in {Top.who} \cup Driver \cup Handle
    BY <1>4
  <2> QED BY <1>3, <1>8, <2>1, MovingIs
<1>10. /\ FrameOK(f) /\ f.handle = Top.handle /\ f.pc \in Sections /\ Depth(f) = 5
       /\ Follows(db', f)
  <2>1. pc \in {"stopChildren", "childStopped"} /\ Top.pc \in {"stopChildren", "childStopped"}
    BY <1>1, <1>6
  <2> QED BY <1>3, <1>4, <1>9, <2>1, ChildFrame
<1>11. PICK y \in Guid : y = BlockIo
  BY Names
<1>12. PICK g : g = Uninstall(c, y)
  OBVIOUS
<1>13. /\ FrameOK(g) /\ g.handle = c /\ g.pc \in Sections /\ \A d : RecordedIn(d, g)
  BY <1>4, <1>12, UninstallIs
<1>14. Rank(f) < Rank(g)
  <2>1. Depth(g) \in 0..5 /\ PathLength[Top.handle] \in Nat
    BY <1>3, <1>13, PcsAre, RankIs, PartitionAssumption
  <2>2. Rank(f) = 8 * PathLength[Top.handle] + 5
    BY <1>10 DEF Rank
  <2>3. Rank(g) = 8 * (PathLength[Top.handle] + 1) + Depth(g)
    BY <1>4, <1>13 DEF Rank
  <2> QED BY <2>1, <2>2, <2>3
<1>15. Rises(db', f, g)
  BY <1>10, <1>13, <1>14 DEF Rises
<1>16. Push(f, g)
  BY <1>2, <1>6, <1>7, <1>8, <1>11, <1>12, Zenon
<1> QED BY <1>1, <1>5, <1>10, <1>15, <1>16, Calls

LEMMA ChildStoppedKeeps ==
  ASSUME HdbInv, ChildStopped
  PROVE  HdbInv' /\ SameLists(db')
<1>1. /\ stack # <<>> /\ Top.pc = "childStopped" /\ UNCHANGED bounds
      /\ db' = IF Top.ok THEN db
               ELSE Add(db, Top.handle, DiskIo, Opened(PartitionDxe, Top.who, "child"))
      /\ Goto(Marking(Top, "stopChildren", Top.done \/ ~Top.ok))
  BY Zenon DEF ChildStopped, At, Running, Marking
<1>2. FrameOK(Top) /\ Top.handle \in Handle /\ Top \in Frames /\ DbInv(db)
      /\ Top.who \in Partitions[Top.handle] /\ Top.done \in BOOLEAN /\ Top.ok \in BOOLEAN
  BY <1>1, TopFacts DEF FrameOK, Outside
<1>3. DbInv(db') /\ Keeps(db') /\ SameLists(db')
  <2>1. PICK d : d = db'
    OBVIOUS
  <2>2. CASE d = db
    BY <1>2, <2>1, <2>2, Zenon DEF Keeps, SameLists
  <2>3. CASE d = Add(db, Top.handle, DiskIo, Opened(PartitionDxe, Top.who, "child"))
    <3>1. PICK g \in Guid : g = DiskIo
      BY Names
    <3>2. PICK item : item = Opened(PartitionDxe, Top.who, "child")
      OBVIOUS
    <3>3. Top.who \in Handle
      BY <1>2, HandleAssumption
    <3>4. item \in OpenData /\ item.agent = PartitionDxe /\ item.controller = Top.who
          /\ item.attr = "child"
      BY <3>2, <3>3, Names DEF Opened, OpenData
    <3>5. Admits(db, Top.handle, g, item)
      BY <1>2, <3>1, <3>4 DEF Admits, ItemOK
    <3>6. d = Add(db, Top.handle, g, item)
      BY <2>3, <3>1, <3>2, Zenon
    <3>7. item \in OpenData
      BY <3>4
    <3>8. DbInv(d) /\ SameLists(d)
      BY <1>2, <3>5, <3>6, <3>7, AddIs DEF SameLists
    <3>9. Keeps(d)
      BY <1>2, <3>8, KeptBySame DEF SameLists
    <3> QED BY <2>1, <3>8, <3>9, Zenon
  <2> QED BY <1>1, <2>1, <2>2, <2>3
<1>4. PICK pc \in Pcs : pc = "stopChildren"
  BY DEF Pcs, Sections
<1>5. PICK done \in BOOLEAN : done = (Top.done \/ ~Top.ok)
  BY <1>2
<1>6. PICK f : f = Marking(Top, pc, done)
  OBVIOUS
<1>7. Has(f, Top, pc, Top.left, Top.who, done)
  BY <1>2, <1>6, MarkingIs
<1>8. Follows(db', f) /\ FrameOK(f)
  <2>1. pc \in {"stopChildren", "childStopped"} /\ Top.pc \in {"stopChildren", "childStopped"}
        /\ Top.left \in SUBSET Top.left
    BY <1>1, <1>4
  <2> QED BY <1>2, <1>7, <2>1, ChildFrame
<1>9. Goto(f)
  BY <1>1, <1>4, <1>5, <1>6, Zenon
<1> QED BY <1>1, <1>3, <1>8, <1>9, GoesOn

LEMMA StopChildrenReturnKeeps ==
  ASSUME HdbInv, StopChildrenReturn
  PROVE  HdbInv'
<1>1. /\ stack # <<>> /\ UNCHANGED bounds /\ UNCHANGED db /\ Return(~Top.done)
  BY DEF StopChildrenReturn, At, Running
<1>2. DbInv(db') /\ Keeps(db') /\ (~Top.done) \in BOOLEAN
  BY <1>1, SameDb, TopFacts
<1> QED BY <1>1, <1>2, Returns

-----------------------------------------------------------------------------
(* Uninstall, reinstall and exclusive opening.                              *)

LEMMA LookingTop ==
  ASSUME HdbInv, AtRelease
  PROVE  /\ stack # <<>> /\ Top.pc \in Looking /\ UNCHANGED bounds
         /\ FrameOK(Top) /\ Top.handle \in Handle /\ Top.guid \in Guid /\ Top \in Frames
         /\ Top.pc \in Sections /\ Top.pc \notin Agents
         /\ Depth(Top) = IF Top.guid = BlockIo THEN 0 ELSE 3
         /\ Admitted => Live(db, Top.handle, Top.guid)
<1>1. stack # <<>> /\ Top.pc \in Looking /\ UNCHANGED bounds
  BY DEF AtRelease, Looking, Running
<1>2. FrameOK(Top) /\ Top.guid \in Guid /\ Top \in Frames /\ RecordedIn(db, Top)
  BY <1>1, TopFacts
<1>3. Top.pc \in Sections /\ Top.pc \notin Agents /\ Top.pc \notin Outside
  BY <1>1, PcsAre
<1>4. Depth(Top) = IF Top.guid = BlockIo THEN 0 ELSE 3
  BY <1>1 DEF Depth
<1>5. Admitted => Live(db, Top.handle, Top.guid)
  BY <1>1, <1>2 DEF Admitted, RecordedIn
<1> QED BY <1>1, <1>2, <1>3, <1>4, <1>5 DEF FrameOK

LEMMA DisconnectUserKeeps ==
  ASSUME HdbInv, DisconnectUser
  PROVE  HdbInv'
<1>1. AtRelease /\ Admitted /\ UNCHANGED db
  BY DEF DisconnectUser
<1>2. PICK i \in Users : Push([Top EXCEPT !.done = TRUE], Disconnect(Top.handle, {i.agent}))
  BY Zenon DEF DisconnectUser
<1>3. /\ stack # <<>> /\ Top.pc \in Looking /\ UNCHANGED bounds
      /\ FrameOK(Top) /\ Top.handle \in Handle /\ Top.guid \in Guid /\ Top \in Frames
      /\ Top.pc \in Sections /\ Top.pc \notin Agents
      /\ Depth(Top) = IF Top.guid = BlockIo THEN 0 ELSE 3
      /\ Live(db, Top.handle, Top.guid)
  BY <1>1, LookingTop
<1>4. DbInv(db') /\ Keeps(db') /\ DbInv(db)
  BY <1>1, SameDb DEF HdbInv
<1>5. i.agent = OwnerOf(Top.guid)
  BY <1>2, <1>3, <1>4, ManagingAre DEF Users
<1>6. PICK done \in BOOLEAN : done = TRUE
  OBVIOUS
<1>7. PICK f : f = [Top EXCEPT !.done = done]
  OBVIOUS
<1>8. Has(f, Top, Top.pc, Top.left, Top.who, done)
  BY <1>3, <1>7, MarkedIs
<1>9. /\ FrameOK(f) /\ f.handle = Top.handle /\ f.guid = Top.guid /\ f.pc \in Sections
      /\ Depth(f) = Depth(Top) /\ RecordedIn(db', f)
  <2>1. FrameOK(f) /\ f.handle = Top.handle /\ f.guid = Top.guid /\ f.pc = Top.pc
    BY <1>3, <1>8 DEF Has, FrameOK
  <2>2. Depth(f) = Depth(Top)
    BY <1>3, <2>1 DEF Depth
  <2>3. Live(db', Top.handle, Top.guid)
    BY <1>3, <1>4 DEF Keeps
  <2> QED BY <1>3, <2>1, <2>2, <2>3, Zenon DEF RecordedIn
<1>10. Depth(Top) <= Depth(f)
  BY <1>3, <1>9
<1>11. Follows(db', f)
  BY <1>3, <1>9, <1>10, FollowsHere
<1>12. PICK agents \in SUBSET Driver : agents = {i.agent}
  BY <1>3, <1>5, Names DEF OwnerOf
<1>13. PICK g : g = Disconnect(Top.handle, agents)
  OBVIOUS
<1>14. /\ FrameOK(g) /\ g.handle = Top.handle /\ g.pc \in Sections
       /\ Depth(g) = IF DiskIoDxe \in agents THEN 1 ELSE 4
       /\ \A d : RecordedIn(d, g)
  BY <1>3, <1>13, DisconnectIs
<1>15. Depth(f) < Depth(g)
  BY <1>3, <1>5, <1>9, <1>12, <1>14, Names DEF OwnerOf
<1>16. Rises(db', f, g)
  BY <1>9, <1>14, <1>15, RisesHere
<1>17. Push(f, g)
  BY <1>2, <1>6, <1>7, <1>12, <1>13, Zenon
<1> QED BY <1>3, <1>4, <1>11, <1>16, <1>17, Calls

LEMMA NotAdmittedKeeps ==
  ASSUME HdbInv, NotAdmitted
  PROVE  HdbInv'
<1>1. AtRelease /\ Return(FALSE) /\ UNCHANGED db
  BY DEF NotAdmitted
<1>2. stack # <<>> /\ UNCHANGED bounds
  BY <1>1, LookingTop
<1>3. DbInv(db') /\ Keeps(db')
  BY <1>1, SameDb
<1> QED BY <1>1, <1>2, <1>3, Returns

\* The database without GET_PROTOCOL openings of the interface.
LEMMA EmptiedIs ==
  ASSUME HdbInv, AtRelease, NEW b, b = Emptied
  PROVE  /\ DbInv(b) /\ Keeps(b) /\ SameLists(b)
         /\ \A x \in Handle, y \in Guid : b.open[<<x, y>>] =
              IF x = Top.handle /\ y = Top.guid
              THEN NotGets(db.open[<<x, y>>]) ELSE db.open[<<x, y>>]
<1>1. Top.handle \in Handle /\ Top.guid \in Guid /\ DbInv(db)
  BY LookingTop DEF HdbInv
<1>2. PICK h \in Handle : h = Top.handle
  BY <1>1
<1>3. PICK g \in Guid : g = Top.guid
  BY <1>1
<1>4. PICK e : e = db
  OBVIOUS
<1>5. b = RemoveGets(e, h, g)
  BY <1>2, <1>3, <1>4, Zenon DEF Emptied
<1>6. DbInv(e)
  BY <1>1, <1>4
<1>7. /\ DbInv(b)
      /\ b.list = e.list /\ b.position = e.position /\ b.signalled = e.signalled
      /\ \A x \in Handle, y \in Guid : b.open[<<x, y>>] =
           IF x = h /\ y = g
           THEN NotGets(e.open[<<x, y>>]) ELSE e.open[<<x, y>>]
  BY <1>5, <1>6, RemoveGetsIs
<1>8. SameLists(b)
  BY <1>4, <1>7 DEF SameLists
<1>9. Keeps(b)
  BY <1>1, <1>7, <1>8, KeptBySame DEF SameLists
<1> QED BY <1>2, <1>3, <1>4, <1>7, <1>8, <1>9, Zenon

LEMMA RefuseKeeps ==
  ASSUME HdbInv, Refuse
  PROVE  HdbInv' /\ SameLists(db')
<1>1. /\ AtRelease /\ db' = (IF Top.ok THEN Emptied ELSE db)
      /\ Push(Going(Top, "refused"), Connect(Top.handle))
  BY Zenon DEF Refuse, Going
<1>2. /\ stack # <<>> /\ UNCHANGED bounds /\ FrameOK(Top) /\ Top.handle \in Handle
      /\ Top \in Frames
  BY <1>1, LookingTop
<1>3. DbInv(db') /\ Keeps(db') /\ SameLists(db')
  <2>1. PICK b : b = Emptied
    OBVIOUS
  <2>2. DbInv(b) /\ Keeps(b) /\ SameLists(b)
    BY <1>1, <2>1, EmptiedIs
  <2>3. DbInv(db) /\ Keeps(db) /\ SameLists(db)
    BY DEF HdbInv, Keeps, SameLists
  <2>4. db' = b \/ db' = db
    BY <1>1, <2>1
  <2> QED BY <2>2, <2>3, <2>4, Zenon
<1>4. PICK pc \in Pcs : pc = "refused"
  BY PcsAre
<1>5. PICK f : f = Going(Top, pc)
  OBVIOUS
<1>6. Has(f, Top, pc, Top.left, Top.who, Top.done)
  BY <1>2, <1>5, GoingIs
<1>7. FrameOK(f) /\ Quiet(f)
  BY <1>2, <1>4, <1>6 DEF Has, FrameOK, Quiet, Sections, Looking, Agents, Outside
<1>8. PICK g : g = Connect(Top.handle)
  OBVIOUS
<1>9. FrameOK(g) /\ Quiet(g)
  BY <1>2, <1>8, ConnectIs
<1>10. Follows(db', f) /\ Rises(db', f, g)
  BY <1>7, <1>9, QuietFollows
<1>11. Push(f, g)
  BY <1>1, <1>4, <1>5, <1>8, Zenon
<1> QED BY <1>2, <1>3, <1>10, <1>11, Calls

LEMMA RefusedKeeps ==
  ASSUME HdbInv, Refused
  PROVE  HdbInv'
<1>1. /\ stack # <<>> /\ UNCHANGED bounds /\ UNCHANGED db /\ Return(FALSE)
  BY DEF Refused, At, Running
<1>2. DbInv(db') /\ Keeps(db')
  BY <1>1, SameDb
<1> QED BY <1>1, <1>2, Returns

\* e is d without the interface, to which nobody points any more.
Departed(d, h, g, e) ==
  /\ DbInv(e) /\ e.signalled = d.signalled
  /\ \A y \in Guid : e.list[y] = IF y = g THEN RemoveEntry(d.list[y], h) ELSE d.list[y]
  /\ \A r \in Registration : e.position[r] =
       IF RegGuid[r] = g THEN BackedUp(d.list[g], d.position[r], h) ELSE d.position[r]
  /\ \A x \in Handle, y \in Guid :
       Live(e, x, y) <=> Live(d, x, y) /\ ~(x = h /\ y = g)

LEMMA ReleasedIs ==
  ASSUME HdbInv, AtRelease, Top.ok, Users = {}, ~Kept,
         NEW d, d = CoreRemoveInterfaceFromProtocol(Emptied, Top.handle, Top.guid)
  PROVE  Departed(db, Top.handle, Top.guid, d)
<1>1. Top.handle \in Handle /\ Top.guid \in Guid
  BY LookingTop
<1>2. PICK h \in Handle : h = Top.handle
  BY <1>1
<1>3. PICK g \in Guid : g = Top.guid
  BY <1>1
<1>4. PICK b : b = Emptied
  OBVIOUS
<1>5. DbInv(b) /\ SameLists(b)
  BY <1>4, EmptiedIs
<1>6. b.open[<<h, g>>] = {}
  BY <1>2, <1>3, <1>4, Zenon DEF Kept
<1>7. d = CoreRemoveInterfaceFromProtocol(b, h, g)
  BY <1>2, <1>3, <1>4, Zenon
<1>8. /\ DbInv(d) /\ d.signalled = b.signalled
      /\ \A y \in Guid : d.list[y] = IF y = g THEN RemoveEntry(b.list[y], h) ELSE b.list[y]
      /\ \A r \in Registration : d.position[r] =
           IF RegGuid[r] = g THEN BackedUp(b.list[g], b.position[r], h) ELSE b.position[r]
      /\ \A x \in Handle, y \in Guid :
           Live(d, x, y) <=> Live(b, x, y) /\ ~(x = h /\ y = g)
  BY <1>5, <1>6, <1>7, RemoveIs
<1>9. \A x \in Handle, y \in Guid : Live(b, x, y) <=> Live(db, x, y)
  BY <1>5 DEF Live, SameLists
<1>10. Departed(db, h, g, d)
  BY <1>5, <1>8, <1>9 DEF Departed, SameLists
<1> QED BY <1>2, <1>3, <1>10, Zenon

\* No caller of an uninstall has looked up the interface that goes: the callers are
\* all nearer to the disk's Block I/O.
LEMMA NotTheirs ==
  ASSUME HdbInv, stack # <<>>, Top.pc \in Looking, NEW d,
         \A x \in Handle, y \in Guid :
           Live(db, x, y) /\ ~(x = Top.handle /\ y = Top.guid) => Live(d, x, y)
  PROVE  CallersRecorded(d)
<1>1. PICK n : n = Len(stack)
  OBVIOUS
<1>2. n \in Nat /\ n >= 1 /\ Top = stack[n] /\ stack \in Seq(Frames)
  BY <1>1, CallersIs DEF HdbInv, FramesOK
<1>3. SUFFICES ASSUME NEW i \in 1..(n - 1) PROVE RecordedIn(d, stack[i])
  BY <1>1, Zenon DEF CallersRecorded
<1>4. i \in 1..n /\ n \in 1..n /\ i < n
  BY <1>2
<1>5. PICK f : f = stack[i]
  OBVIOUS
<1>6. FrameOK(f) /\ RecordedIn(db, f) /\ FrameOK(Top)
  BY <1>1, <1>2, <1>4, <1>5 DEF HdbInv, FramesOK, Recorded
<1>7. f.pc \in Sections /\ Top.pc \in Sections => Rank(f) < Rank(Top)
  BY <1>1, <1>2, <1>4, <1>5 DEF HdbInv, Ranked
<1>8. SUFFICES ASSUME f.pc \in Looking, f.done PROVE Live(d, f.handle, f.guid)
  BY <1>5 DEF RecordedIn
<1>9. f.pc \notin Outside /\ Top.pc \notin Outside /\ f.pc \in Sections /\ Top.pc \in Sections
  BY <1>8, PcsAre
<1>10. f.handle \in Handle /\ f.guid \in Guid
  BY <1>6, <1>9 DEF FrameOK, Frames
<1>11. Live(db, f.handle, f.guid)
  BY <1>6, <1>8 DEF RecordedIn
<1>12. ~(f.handle = Top.handle /\ f.guid = Top.guid)
  <2> SUFFICES ASSUME f.handle = Top.handle, f.guid = Top.guid PROVE FALSE
    OBVIOUS
  <2>1. Rank(f) = Rank(Top)
    BY <1>8 DEF Rank, Depth
  <2>2. Rank(f) \in Nat
    BY <1>6, <1>9, RankIs
  <2> QED BY <1>7, <1>9, <2>1, <2>2
<1> QED BY <1>10, <1>11, <1>12

LEMMA CoreUninstallProtocolInterfaceKeeps ==
  ASSUME HdbInv, CoreUninstallProtocolInterface
  PROVE  HdbInv' /\ Departed(db, Top.handle, Top.guid, db')
<1>1. AtRelease /\ Top.ok /\ Users = {} /\ ~Kept /\ Return(TRUE)
  BY DEF CoreUninstallProtocolInterface, Released
<1>2. PICK d : d = db'
  OBVIOUS
<1>3. Departed(db, Top.handle, Top.guid, d)
  BY <1>1, <1>2, ReleasedIs DEF CoreUninstallProtocolInterface
<1>4. stack # <<>> /\ Top.pc \in Looking /\ UNCHANGED bounds
  BY <1>1, LookingTop
<1>5. CallersRecorded(d) /\ DbInv(d)
  BY <1>3, <1>4, NotTheirs DEF Departed
<1>6. CallersRecorded(db') /\ DbInv(db')
  BY <1>2, <1>5, Zenon
<1>7. HdbInv'
  BY <1>1, <1>4, <1>6, ReturnsTo
<1> QED BY <1>2, <1>3, <1>7, Zenon

\* e is d with the interface at the tail of its list.
Renewed(d, h, g, e) ==
  \E b : /\ Departed(d, h, g, b) /\ DbInv(e)
         /\ \A y \in Guid : e.list[y] = IF y = g THEN b.list[y] \o <<h>> ELSE b.list[y]
         /\ e.position = b.position /\ e.signalled = d.signalled

LEMMA CoreReinstallProtocolInterfaceKeeps ==
  ASSUME HdbInv, CoreReinstallProtocolInterface
  PROVE  /\ HdbInv' /\ Renewed(db, Top.handle, Top.guid, db') /\ Live(db, Top.handle, Top.guid)
<1>1. /\ AtRelease /\ Top.ok /\ Users = {} /\ ~Kept /\ Admitted
      /\ Push(Going(Top, "reconnected"), Connect(Top.handle))
  BY Zenon DEF CoreReinstallProtocolInterface, Released, Going
<1>2. /\ stack # <<>> /\ UNCHANGED bounds /\ FrameOK(Top) /\ Top.handle \in Handle
      /\ Top \in Frames /\ Top.guid \in Guid /\ Live(db, Top.handle, Top.guid)
  BY <1>1, LookingTop
<1>3. DbInv(db') /\ Keeps(db') /\ Renewed(db, Top.handle, Top.guid, db')
  <2>1. PICK h \in Handle : h = Top.handle
    BY <1>2
  <2>2. PICK g \in Guid : g = Top.guid
    BY <1>2
  <2>3. PICK b : b = CoreRemoveInterfaceFromProtocol(Emptied, Top.handle, Top.guid)
    OBVIOUS
  <2>4. Departed(db, Top.handle, Top.guid, b)
    BY <1>1, <2>3, ReleasedIs
  <2>5. Departed(db, h, g, b) /\ DbInv(b)
    BY <2>1, <2>2, <2>4 DEF Departed
  <2>6. PICK d : d = db'
    OBVIOUS
  <2>7. d = InsertTail(b, h, g)
    BY <2>1, <2>2, <2>3, <2>6, Zenon DEF CoreReinstallProtocolInterface
  <2>8. ~Live(b, h, g)
    BY <2>5 DEF Departed
  <2>9. /\ DbInv(d)
        /\ \A y \in Guid : d.list[y] = IF y = g THEN b.list[y] \o <<h>> ELSE b.list[y]
        /\ d.position = b.position /\ d.signalled = b.signalled
        /\ \A x \in Handle, y \in Guid : Live(d, x, y) <=> Live(b, x, y) \/ (y = g /\ x = h)
    BY <2>5, <2>7, <2>8, TailIs
  <2>10. Keeps(d)
    BY <2>5, <2>9 DEF Keeps, Departed
  <2>11. d.signalled = db.signalled
    BY <2>5, <2>9 DEF Departed
  <2>12. Renewed(db, h, g, d)
    BY <2>5, <2>9, <2>11, Zenon DEF Renewed
  <2> QED BY <2>1, <2>2, <2>6, <2>9, <2>10, <2>12, Zenon
<1>4. PICK pc \in Pcs : pc = "reconnected"
  BY PcsAre
<1>5. PICK f : f = Going(Top, pc)
  OBVIOUS
<1>6. Has(f, Top, pc, Top.left, Top.who, Top.done)
  BY <1>2, <1>5, GoingIs
<1>7. FrameOK(f) /\ Quiet(f)
  BY <1>2, <1>4, <1>6 DEF Has, FrameOK, Quiet, Sections, Looking, Agents, Outside
<1>8. PICK g : g = Connect(Top.handle)
  OBVIOUS
<1>9. FrameOK(g) /\ Quiet(g)
  BY <1>2, <1>8, ConnectIs
<1>10. Follows(db', f) /\ Rises(db', f, g)
  BY <1>7, <1>9, QuietFollows
<1>11. Push(f, g)
  BY <1>1, <1>4, <1>5, <1>8, Zenon
<1>12. HdbInv'
  BY <1>2, <1>3, <1>10, <1>11, Calls
<1> QED BY <1>2, <1>3, <1>12

\* A notification is signalled, and nothing else.
Notified(d, g, e) ==
  /\ DbInv(e) /\ e.list = d.list /\ e.position = d.position
  /\ e.signalled = d.signalled \cup {r \in Registration : RegGuid[r] = g}

LEMMA ReinstallNotifyKeeps ==
  ASSUME HdbInv, ReinstallNotify
  PROVE  HdbInv' /\ Notified(db, Top.guid, db')
<1>1. stack # <<>> /\ UNCHANGED bounds /\ Return(TRUE)
  BY DEF ReinstallNotify, At, Running
<1>2. Top.guid \in Guid /\ DbInv(db)
  BY <1>1, TopFacts
<1>3. PICK d : d = db'
  OBVIOUS
<1>4. PICK g \in Guid : g = Top.guid
  BY <1>2
<1>5. d = CoreNotifyProtocolEntry(db, g)
  BY <1>3, <1>4, Zenon DEF ReinstallNotify
<1>6. Notified(db, g, d)
  BY <1>2, <1>5, NotifyIs DEF Notified
<1>7. DbInv(d) /\ Keeps(d)
  BY <1>2, <1>6, KeptBySame DEF Notified
<1>8. DbInv(db') /\ Keeps(db') /\ Notified(db, Top.guid, db')
  BY <1>3, <1>4, <1>6, <1>7, Zenon
<1>9. HdbInv'
  BY <1>1, <1>8, Returns
<1> QED BY <1>8, <1>9

LEMMA CoreOpenProtocolExclusiveKeeps ==
  ASSUME HdbInv, CoreOpenProtocolExclusive
  PROVE  HdbInv' /\ SameLists(db')
<1>1. AtRelease /\ Users = {} /\ Return(TRUE)
  BY DEF CoreOpenProtocolExclusive, Released
<1>2. /\ stack # <<>> /\ UNCHANGED bounds /\ Top.handle \in Handle /\ Top.guid \in Guid
      /\ DbInv(db)
  BY <1>1, LookingTop DEF HdbInv
<1>3. PICK h \in Handle : h = Top.handle
  BY <1>2
<1>4. PICK g \in Guid : g = Top.guid
  BY <1>2
<1>5. PICK item : item = Opened(App, NoHandle, "exclusive")
  OBVIOUS
<1>6. item \in OpenData /\ item.attr = "exclusive"
  BY <1>5 DEF Opened, OpenData
<1>7. With(db, h, g, "driver") = {}
  BY <1>1, <1>3, <1>4, Zenon DEF Users
<1>8. Admits(db, h, g, item)
  BY <1>5, <1>6, <1>7 DEF Admits, ItemOK
<1>9. PICK d : d = db'
  OBVIOUS
<1>10. d = Add(db, h, g, item)
  BY <1>3, <1>4, <1>5, <1>9, Zenon DEF CoreOpenProtocolExclusive
<1>11. DbInv(d) /\ SameLists(d)
  BY <1>2, <1>6, <1>8, <1>10, AddIs DEF SameLists
<1>12. Keeps(d)
  BY <1>2, <1>11, KeptBySame DEF SameLists
<1>13. DbInv(db') /\ Keeps(db') /\ SameLists(db')
  BY <1>9, <1>11, <1>12, Zenon
<1>14. HdbInv'
  BY <1>1, <1>2, <1>13, Returns
<1> QED BY <1>13, <1>14

-----------------------------------------------------------------------------
(* Clients, notifications and timer functions.                              *)

LEMMA CallbackIs ==
  /\ FrameOK(Callback) /\ Quiet(Callback) /\ Callback \in Frames
  /\ \A r \in Registration : FrameOK(Locate(r)) /\ Quiet(Locate(r)) /\ Locate(r) \in Frames
<1>1. /\ NoHandle \in Handle \cup {NoHandle} /\ BlockIo \in Guid
      /\ App \in Driver \cup {App} \cup Handle
      /\ {} \in SUBSET (Driver \cup Handle \cup Registration)
      /\ "callback" \in Pcs /\ "locate" \in Pcs
  BY Names, PcsAre
<1>2. PICK f : f = Callback
  OBVIOUS
<1>3. f.pc = "callback" /\ f.left = {}
  BY <1>2, FrameIs DEF Callback
<1>4. f \in Frames
  BY <1>1, <1>2, FrameType, Zenon DEF Callback
<1>5. FrameOK(f) /\ Quiet(f)
  BY <1>3, <1>4 DEF FrameOK, Quiet, Sections, Looking, Agents, Outside
<1>6. ASSUME NEW r \in Registration
      PROVE  FrameOK(Locate(r)) /\ Quiet(Locate(r)) /\ Locate(r) \in Frames
  <2>1. PICK e : e = Locate(r)
    OBVIOUS
  <2>2. e.pc = "locate" /\ e.left = {r}
    BY <2>1, FrameIs DEF Locate
  <2>3. RegGuid[r] \in Guid /\ {r} \in SUBSET (Driver \cup Handle \cup Registration)
    BY HandleAssumption
  <2>4. e \in Frames
    BY <1>1, <2>1, <2>3, FrameType, Zenon DEF Locate
  <2>5. FrameOK(e) /\ Quiet(e)
    BY <2>2, <2>4 DEF FrameOK, Quiet, Sections, Looking, Agents, Outside
  <2> QED BY <2>1, <2>4, <2>5, Zenon
<1> QED BY <1>2, <1>4, <1>5, <1>6, Zenon

LEMMA ServiceIs ==
  ASSUME NEW f \in Services
  PROVE  FrameOK(f) /\ f \in Frames /\ \A d : RecordedIn(d, f)
<1>1. ASSUME NEW pc \in Looking \cup {"disconnectAll"}, NEW h \in Handle, NEW g \in Guid,
             NEW e, e = Frame(pc, h, g, {}, App)
      PROVE  FrameOK(e) /\ e \in Frames /\ \A d : RecordedIn(d, e)
  <2>1. e.pc = pc /\ e.handle = h /\ ~e.done /\ e.left = {}
    BY <1>1, FrameIs
  <2>2. e \in Frames
    <3>1. /\ pc \in Pcs /\ h \in Handle \cup {NoHandle}
          /\ {} \in SUBSET (Driver \cup Handle \cup Registration)
          /\ App \in Driver \cup {App} \cup Handle
      BY DEF Pcs, Sections
    <3> QED BY <1>1, <3>1, FrameType, Zenon
  <2>3. FrameOK(e)
    BY <2>1, <2>2 DEF FrameOK, Looking, Agents, Outside
  <2> QED BY <2>1, <2>2, <2>3 DEF RecordedIn
<1>2. \/ \E h \in Handle : f = Connect(h) \/ f = DisconnectAll(h)
      \/ f = Uninstall(Disk, BlockIo) \/ f = Reinstall(Disk, BlockIo)
      \/ \E h \in Handle, g \in Guid : f = OpenExclusive(h, g)
  BY DEF Services
<1>3. Disk \in Handle /\ BlockIo \in Guid
  BY Names, DriverModelAssumption
<1>4. \A pc \in {"uninstall", "reinstall", "exclusive", "disconnectAll"} :
        pc \in Looking \cup {"disconnectAll"}
  BY DEF Looking
<1>5. CASE \E h \in Handle : f = Connect(h)
  BY <1>5, ConnectIs, QuietFollows DEF Follows
<1>6. CASE \E h \in Handle : f = DisconnectAll(h)
  BY <1>1, <1>3, <1>4, <1>6, Zenon DEF DisconnectAll
<1>7. CASE f = Uninstall(Disk, BlockIo) \/ f = Reinstall(Disk, BlockIo)
  BY <1>1, <1>3, <1>4, <1>7, Zenon DEF Uninstall, Reinstall
<1>8. CASE \E h \in Handle, g \in Guid : f = OpenExclusive(h, g)
  BY <1>1, <1>4, <1>8, Zenon DEF OpenExclusive
<1> QED BY <1>2, <1>5, <1>6, <1>7, <1>8

\* A service that was called from TPL_APPLICATION or from a function at TPL_CALLBACK.
LEMMA AloneOK ==
  ASSUME NEW d, NEW base \in {<<>>, <<Callback>>}, NEW f, FrameOK(f), RecordedIn(d, f)
  PROVE  /\ FramesOK(base) /\ Ranked(base) /\ Recorded(d, base)
         /\ FramesOK(Append(base, f)) /\ Ranked(Append(base, f)) /\ Recorded(d, Append(base, f))
<1>1. PICK c : c = Callback
  OBVIOUS
<1>2. FrameOK(c) /\ Quiet(c) /\ c \in Frames /\ f \in Frames /\ RecordedIn(d, c)
  BY <1>1, CallbackIs, QuietFollows DEF FrameOK, Follows
<1>3. base = <<>> \/ base = <<c>>
  BY <1>1
<1>4. /\ base \in Seq(Frames) /\ Len(base) \in {0, 1}
      /\ \A i \in 1..Len(base) : base[i] = c
  <2>1. CASE base = <<>>
    BY <2>1
  <2>2. CASE base = <<c>>
    BY <1>2, <2>2
  <2> QED BY <1>3, <2>1, <2>2
<1>5. PICK s : s = Append(base, f)
  OBVIOUS
<1>6. /\ s \in Seq(Frames) /\ Len(s) = Len(base) + 1 /\ s[Len(base) + 1] = f
      /\ \A i \in 1..Len(base) : s[i] = c
  BY <1>2, <1>4, <1>5, AppendProperties
<1>7. FramesOK(base) /\ Ranked(base) /\ Recorded(d, base)
  BY <1>2, <1>4 DEF FramesOK, Ranked, Recorded, Quiet
<1>8. \A i \in 1..Len(s) : s[i] = c \/ (i = Len(s) /\ s[i] = f)
  BY <1>4, <1>6
<1>9. FramesOK(s) /\ Recorded(d, s)
  BY <1>2, <1>6, <1>8 DEF FramesOK, Recorded
<1>10. Ranked(s)
  <2>1. \A i, j \in 1..Len(s) : ~(i < j /\ s[i].pc \in Sections)
    BY <1>2, <1>4, <1>8 DEF Quiet
  <2> QED BY <2>1 DEF Ranked
<1> QED BY <1>5, <1>7, <1>9, <1>10, Zenon

\* Interfaces arrive, in this order, and the registrations are signalled.
Arrived(d, g, hs, e) ==
  /\ DbInv(e) /\ hs \in Lists /\ Range(hs) \cap Range(d.list[g]) = {}
  /\ hs \in {q \in [1..Cardinality(Range(hs)) -> Range(hs)] : IsInjective(q)}
  /\ \A y \in Guid : e.list[y] = IF y = g THEN d.list[y] \o hs ELSE d.list[y]
  /\ e.position = d.position
  /\ e.signalled = d.signalled \cup {r \in Registration : RegGuid[r] = g}

LEMMA OneArrives ==
  ASSUME NEW d, DbInv(d), NEW h \in Handle, NEW g \in Guid, ~Live(d, h, g), NEW e, DbInv(e),
         \A y \in Guid : e.list[y] = IF y = g THEN d.list[y] \o <<h>> ELSE d.list[y],
         e.position = d.position,
         e.signalled = d.signalled \cup {r \in Registration : RegGuid[r] = g}
  PROVE  Arrived(d, g, <<h>>, e)
<1>1. PICK hs : hs = <<h>>
  OBVIOUS
<1>2. hs \in Lists /\ Range(hs) = {h} /\ Len(hs) = 1
  BY <1>1, OneIs
<1>3. Range(hs) \cap Range(d.list[g]) = {}
  BY <1>2, DbLists
<1>4. Cardinality(Range(hs)) = 1
  BY <1>2, FS_Singleton
<1>5. hs \in [1..Cardinality(Range(hs)) -> Range(hs)] /\ IsInjective(hs)
  <2>1. hs \in [1..1 -> {h}]
    BY <1>1
  <2>2. IsInjective(hs)
    BY <1>2 DEF Lists
  <2> QED BY <1>2, <1>4, <2>1, <2>2, Zenon
<1>6. \A y \in Guid : e.list[y] = IF y = g THEN d.list[y] \o hs ELSE d.list[y]
  BY <1>1, Zenon
<1>7. Arrived(d, g, hs, e)
  BY <1>2, <1>3, <1>5, <1>6 DEF Arrived
<1> QED BY <1>1, <1>7, Zenon

LEMMA CallKeeps ==
  ASSUME HdbInv, Call
  PROVE  HdbInv' /\ (SameLists(db') \/ Arrived(db, BlockIo, <<Disk>>, db'))
<1>1. stack = <<>> /\ calls > 0 /\ calls' = calls - 1 /\ UNCHANGED interrupts
  BY DEF Call
<1>2. Bounded'
  BY <1>1, DriverModelAssumption DEF HdbInv, Bounded
<1>3. PICK base \in {<<>>, <<Callback>>} :
       \/ \E f \in Services : stack' = Append(base, f) /\ UNCHANGED db
       \/ /\ ~Live(db, Disk, BlockIo)
          /\ db' = Install(db, Disk, BlockIo)
          /\ stack' = base
       \/ /\ \E h \in Handle, g \in Guid :
               db' = CoreCloseProtocol(db, h, g, App, NoHandle)
          /\ stack' = base
  BY Zenon DEF Call
<1>4. DbInv(db)
  BY DEF HdbInv
<1>5. PICK d : d = db'
  OBVIOUS
<1>6. CASE \E f \in Services : stack' = Append(base, f) /\ UNCHANGED db
  <2>1. PICK f \in Services : stack' = Append(base, f)
    BY <1>6
  <2>2. FrameOK(f) /\ RecordedIn(d, f)
    BY ServiceIs
  <2>3. PICK s : s = Append(base, f)
    OBVIOUS
  <2>4. FramesOK(s) /\ Ranked(s) /\ Recorded(d, s)
    BY <2>2, <2>3, AloneOK, Zenon
  <2>5. DbInv(db') /\ SameLists(db')
    BY <1>4, <1>6 DEF SameLists
  <2>6. stack' = s /\ Recorded(db', s)
    BY <1>5, <2>1, <2>3, <2>4, Zenon
  <2> QED BY <1>2, <2>4, <2>5, <2>6, Rebuilt
<1>7. ASSUME stack' = base, DbInv(d) PROVE HdbInv'
  <2>1. FrameOK(Callback) /\ RecordedIn(d, Callback)
    BY CallbackIs, QuietFollows DEF Follows
  <2>2. FramesOK(base) /\ Ranked(base) /\ Recorded(db', base) /\ DbInv(db')
    BY <1>5, <1>7, <2>1, AloneOK, Zenon
  <2> QED BY <1>2, <1>7, <2>2, Rebuilt
<1>8. CASE ~Live(db, Disk, BlockIo) /\ db' = Install(db, Disk, BlockIo) /\ stack' = base
  <2>1. PICK h \in Handle : h = Disk
    BY DriverModelAssumption
  <2>2. PICK g \in Guid : g = BlockIo
    BY Names
  <2>3. ~Live(db, h, g) /\ d = Install(db, h, g)
    BY <1>5, <1>8, <2>1, <2>2, Zenon
  <2>4. /\ DbInv(d)
        /\ \A y \in Guid : d.list[y] = IF y = g THEN db.list[y] \o <<h>> ELSE db.list[y]
        /\ d.position = db.position
        /\ d.signalled = db.signalled \cup {r \in Registration : RegGuid[r] = g}
    BY <1>4, <2>3, InstallIs
  <2>5. Arrived(db, g, <<h>>, d)
    BY <1>4, <2>3, <2>4, OneArrives
  <2> QED BY <1>5, <1>7, <1>8, <2>1, <2>2, <2>4, <2>5, Zenon
<1>9. CASE /\ \E h \in Handle, g \in Guid : db' = CoreCloseProtocol(db, h, g, App, NoHandle)
           /\ stack' = base
  <2>1. PICK h \in Handle, g \in Guid : d = CoreCloseProtocol(db, h, g, App, NoHandle)
    BY <1>5, <1>9
  <2>2. DbInv(d) /\ SameLists(d)
    BY <1>4, <2>1, CloseIs DEF SameLists
  <2> QED BY <1>5, <1>7, <1>9, <2>2, Zenon
<1> QED BY <1>3, <1>6, <1>8, <1>9, Zenon

\* Functions that remove nothing run on top of what they interrupt.
LEMMA Interrupts ==
  ASSUME HdbInv, DbInv(db'), Keeps(db'), Bounded',
         NEW t \in Seq(Frames), \A i \in 1..Len(t) : FrameOK(t[i]) /\ Quiet(t[i]),
         stack' = stack \o t
  PROVE  HdbInv'
<1>1. PICK b : b = stack
  OBVIOUS
<1>2. PICK s : s = b \o t
  OBVIOUS
<1>3. PICK d : d = db'
  OBVIOUS
<1>4. FramesOK(b) /\ Ranked(b)
  BY <1>1 DEF HdbInv
<1>5. Recorded(d, b)
  <2>1. \A x \in Handle, y \in Guid : Live(db, x, y) => Live(d, x, y)
    BY <1>3, Zenon DEF Keeps
  <2>2. ASSUME NEW i \in 1..Len(b) PROVE RecordedIn(d, b[i])
    <3>1. RecordedIn(db, b[i]) /\ FrameOK(b[i])
      BY <1>1 DEF HdbInv, Recorded, FramesOK
    <3>2. b[i].pc \in Looking => b[i].handle \in Handle /\ b[i].guid \in Guid
      BY <3>1, PcsAre DEF FrameOK, Frames
    <3> QED BY <2>1, <3>1, <3>2, Zenon DEF RecordedIn
  <2> QED BY <2>2 DEF Recorded
<1>6. FramesOK(s) /\ Ranked(s) /\ Recorded(d, s)
  BY <1>2, <1>4, <1>5, JoinOK
<1>7. stack' = s /\ Recorded(db', s)
  BY <1>1, <1>2, <1>3, <1>6, Zenon
<1> QED BY <1>6, <1>7, Rebuilt

LEMMA InterruptKeeps ==
  ASSUME HdbInv, Interrupt
  PROVE  HdbInv'
<1>1. interrupts > 0 /\ interrupts' = interrupts - 1 /\ UNCHANGED <<db, calls>>
  BY DEF Interrupt
<1>2. Bounded'
  BY <1>1, DriverModelAssumption DEF HdbInv, Bounded
<1>3. PICK h \in CallbackConnects : stack' = stack \o <<Callback, Connect(h)>>
  BY DEF Interrupt
<1>4. h \in Handle
  BY DriverModelAssumption
<1>5. PICK c : c = Callback
  OBVIOUS
<1>6. PICK k : k = Connect(h)
  OBVIOUS
<1>7. /\ FrameOK(c) /\ Quiet(c) /\ c \in Frames /\ FrameOK(k) /\ Quiet(k) /\ k \in Frames
  BY <1>4, <1>5, <1>6, CallbackIs, ConnectIs
<1>8. PICK t : t = <<c, k>>
  OBVIOUS
<1>9. t \in Seq(Frames) /\ Len(t) = 2 /\ t[1] = c /\ t[2] = k
  BY <1>7, <1>8
<1>10. \A i \in 1..Len(t) : FrameOK(t[i]) /\ Quiet(t[i])
  BY <1>7, <1>9
<1>11. stack' = stack \o t
  BY <1>3, <1>5, <1>6, <1>8, Zenon
<1>12. DbInv(db') /\ Keeps(db')
  BY <1>1, SameDb
<1> QED BY <1>2, <1>9, <1>10, <1>11, <1>12, Interrupts

LEMMA Ends ==
  ASSUME HdbInv, stack # <<>>, UNCHANGED <<db, bounds>>, stack' = Callers
  PROVE  HdbInv'
<1>1. DbInv(db') /\ Keeps(db') /\ Bounded'
  BY SameDb, SameBounds
<1>2. PICK d : d = db'
  OBVIOUS
<1>3. CallersRecorded(d)
  BY <1>1, <1>2, AllRecorded DEF Keeps
<1>4. PICK c : c = Callers
  OBVIOUS
<1>5. FramesOK(c) /\ Ranked(c) /\ Recorded(d, c)
  BY <1>3, <1>4, PopOK, TopFacts, Zenon
<1>6. stack' = c /\ Recorded(db', c)
  BY <1>2, <1>4, <1>5, Zenon
<1> QED BY <1>1, <1>5, <1>6, Rebuilt

SameQueues(d) == d.list = db.list /\ d.position = db.position

LEMMA DispatchKeeps ==
  ASSUME HdbInv, Dispatch
  PROVE  HdbInv' /\ SameQueues(db')
<1>1. PICK r \in Registration :
        /\ db' = PutSignalled(db, db.signalled \ {r})
        /\ stack' = Append(stack, Locate(r))
  BY Fields DEF Dispatch, PutSignalled, HdbInv, DbInv
<1>2. UNCHANGED bounds /\ DbInv(db) /\ Bounded'
  BY SameBounds DEF Dispatch, HdbInv
<1>3. PICK d : d = db'
  OBVIOUS
<1>4. db.signalled \ {r} \in SUBSET Registration
  BY <1>2, Fields DEF DbInv
<1>5. DbInv(d) /\ SameQueues(d)
  BY <1>1, <1>2, <1>3, <1>4, SignalledIs DEF SameQueues
<1>6. Keeps(d)
  BY <1>2, <1>5, KeptBySame DEF SameQueues
<1>7. PICK f : f = Locate(r)
  OBVIOUS
<1>8. FrameOK(f) /\ Quiet(f) /\ f \in Frames
  BY <1>7, CallbackIs
<1>9. PICK t : t = <<f>>
  OBVIOUS
<1>10. t \in Seq(Frames) /\ Len(t) = 1 /\ t[1] = f
  BY <1>8, <1>9
<1>11. \A i \in 1..Len(t) : FrameOK(t[i]) /\ Quiet(t[i])
  BY <1>8, <1>10
<1>12. stack' = stack \o t
  <2>1. stack \in Seq(Frames)
    BY DEF HdbInv, FramesOK
  <2>2. stack' = Append(stack, f)
    BY <1>1, <1>7, Zenon
  <2>3. PICK b : b = stack
    OBVIOUS
  <2>4. Append(b, f) = b \o <<f>>
    BY <1>8, <2>1, <2>3, AppendIsConcat
  <2> QED BY <1>9, <2>2, <2>3, <2>4, Zenon
<1>13. DbInv(db') /\ Keeps(db') /\ SameQueues(db')
  BY <1>3, <1>5, <1>6, Zenon
<1>14. HdbInv'
  BY <1>2, <1>10, <1>11, <1>12, <1>13, Interrupts
<1> QED BY <1>13, <1>14

\* A registration was given the next interface.
Taken(d, r, e) ==
  /\ DbInv(e) /\ e.list = d.list /\ e.signalled = d.signalled /\ Pending(d, r) # <<>>
  /\ e.position[r] = Pending(d, r)[1]
  /\ \A k \in Registration : k # r => e.position[k] = d.position[k]

LEMMA LocateNextIs ==
  ASSUME NEW d, DbInv(d), NEW r \in Registration, Pending(d, r) # <<>>,
         NEW e, e = LocateNext(d, r)
  PROVE  Taken(d, r, e)
<1>1. PICK s : s = d.list[RegGuid[r]]
  OBVIOUS
<1>2. PICK q : q = d.position[r]
  OBVIOUS
<1>3. RegGuid[r] \in Guid /\ d \in Database
  BY HandleAssumption DEF DbInv
<1>4. s \in Lists /\ q \in Range(s) \cup {ListHead}
  BY <1>1, <1>2, <1>3, DbLists DEF DbInv
<1>5. PICK x : x = Pending(d, r)[1]
  OBVIOUS
<1>6. x \in Range(s) /\ x \in Handle
  <2>1. PICK a : a = After(s, q)
    OBVIOUS
  <2>2. a # <<>> /\ x = a[1]
    BY <1>1, <1>2, <1>5, <2>1, Zenon DEF Pending
  <2>3. /\ a \in Lists /\ Len(a) = Len(s) - Place(s, q)
        /\ \A i \in 1..(Len(s) - Place(s, q)) : a[i] = s[i + Place(s, q)]
    BY <1>4, <2>1, AfterIs
  <2>4. Place(s, q) \in 0..Len(s) /\ Len(s) \in Nat
    BY <1>4, PlaceRange, ListFacts
  <2>5. Len(a) > 0
    BY <2>2, <2>3, ListFacts
  <2>6. x = s[1 + Place(s, q)] /\ 1 + Place(s, q) \in 1..Len(s)
    BY <2>2, <2>3, <2>4, <2>5
  <2> QED BY <1>4, <2>6, ListFacts
<1>7. PICK p : p = [d.position EXCEPT ![r] = x]
  OBVIOUS
<1>8. /\ p \in [Registration -> Handle \cup {ListHead}] /\ p[r] = x
      /\ \A k \in Registration : k # r => p[k] = d.position[k]
  BY <1>3, <1>6, <1>7, Fields
<1>9. e = PutPosition(d, p)
  BY <1>5, <1>7 DEF LocateNext, PutPosition
<1>10. /\ e \in Database /\ e.position = p /\ e.list = d.list /\ e.open = d.open
       /\ e.signalled = d.signalled
  BY <1>3, <1>8, <1>9, SetPosition
<1>11. DbInv(e)
  <2>1. \A k \in Registration : e.position[k] \in Range(e.list[RegGuid[k]]) \cup {ListHead}
    BY <1>1, <1>6, <1>8, <1>10 DEF DbInv
  <2>2. \A h \in Handle, g \in Guid : OpenOK(h, g, Live(e, h, g), e.open[<<h, g>>])
    <3>1. \A h \in Handle, g \in Guid : Live(e, h, g) = Live(d, h, g)
      BY <1>10 DEF Live
    <3> QED BY <1>10, <3>1, Zenon DEF DbInv
  <2> QED BY <1>10, <2>1, <2>2 DEF DbInv
<1> QED BY <1>5, <1>8, <1>10, <1>11 DEF Taken

LEMMA LocateHandleKeeps ==
  ASSUME HdbInv, LocateHandle
  PROVE  /\ HdbInv' /\ \E r \in Registration : Top.left = {r} /\ Taken(db, r, db')
<1>1. stack # <<>> /\ Top.pc = "locate" /\ UNCHANGED <<stack, bounds>>
  BY DEF LocateHandle, At
<1>2. FrameOK(Top) /\ DbInv(db)
  BY <1>1, TopFacts
<1>3. PICK r \in Registration : Top.left = {r}
  BY <1>1, <1>2 DEF FrameOK
<1>4. PICK k \in Top.left : Pending(db, k) # <<>> /\ db' = LocateNext(db, k)
  BY DEF LocateHandle
<1>5. k = r
  BY <1>3, <1>4
<1>6. PICK d : d = db'
  OBVIOUS
<1>7. Pending(db, r) # <<>> /\ d = LocateNext(db, r)
  BY <1>4, <1>5, <1>6, Zenon
<1>8. Taken(db, r, d)
  BY <1>2, <1>7, LocateNextIs
<1>9. DbInv(d) /\ Keeps(d)
  BY <1>2, <1>8, KeptBySame DEF Taken
<1>10. PICK t : t = <<>>
  OBVIOUS
<1>11. t \in Seq(Frames) /\ Len(t) = 0
  BY <1>10
<1>12. \A i \in 1..Len(t) : FrameOK(t[i]) /\ Quiet(t[i])
  BY <1>11
<1>13. stack' = stack \o t
  BY <1>1, <1>2, <1>10, TopFacts
<1>14. DbInv(db') /\ Keeps(db') /\ Taken(db, r, db') /\ Bounded'
  BY <1>1, <1>6, <1>8, <1>9, SameBounds, Zenon
<1>15. HdbInv'
  BY <1>11, <1>12, <1>13, <1>14, Interrupts
<1> QED BY <1>3, <1>14, <1>15

LEMMA CallbackReturnKeeps ==
  ASSUME HdbInv, CallbackReturn \/ LocateNotFound
  PROVE  HdbInv'
<1>1. stack # <<>> /\ UNCHANGED <<db, bounds>> /\ stack' = Callers
  BY DEF CallbackReturn, LocateNotFound, At
<1> QED BY <1>1, Ends

-----------------------------------------------------------------------------
(* The theorems.                                                            *)

LEMMA EmptyIs == DbInv(EmptyDatabase)
<1>1. PICK d : d = EmptyDatabase
  OBVIOUS
<1>2. /\ d.list = [g \in Guid |-> <<>>] /\ d.open = [i \in Handle \X Guid |-> {}]
      /\ d.position = [r \in Registration |-> ListHead] /\ d.signalled = {}
      /\ d \in Database
  BY <1>1 DEF EmptyDatabase, Database
<1>3. \A g \in Guid : IsInjective(d.list[g])
  <2> SUFFICES ASSUME NEW g \in Guid PROVE IsInjective(d.list[g])
    OBVIOUS
  <2>1. d.list[g] = <<>>
    BY <1>2
  <2>2. IsInjective(<<>>)
    BY DEF IsInjective
  <2> QED BY <2>1, <2>2, Zenon
<1>4. \A r \in Registration : d.position[r] = ListHead
  BY <1>2
<1>5. \A h \in Handle, g \in Guid : d.open[<<h, g>>] = {}
  BY <1>2
<1>6. \A h \in Handle, g \in Guid : OpenOK(h, g, Live(d, h, g), d.open[<<h, g>>])
  BY <1>5 DEF OpenOK
<1>7. DbInv(d)
  BY <1>2, <1>3, <1>4, <1>6 DEF DbInv
<1> QED BY <1>1, <1>7, Zenon

LEMMA InitKeeps ==
  ASSUME Init
  PROVE  HdbInv
<1>1. db = EmptyDatabase /\ stack = <<>> /\ calls = MaxCalls /\ interrupts = MaxInterrupts
  BY DEF Init
<1>2. DbInv(db)
  BY <1>1, EmptyIs, Zenon
<1>3. FramesOK(stack) /\ Ranked(stack) /\ Recorded(db, stack)
  BY <1>1 DEF FramesOK, Ranked, Recorded
<1>4. Bounded
  BY <1>1, DriverModelAssumption DEF Bounded
<1> QED BY <1>2, <1>3, <1>4 DEF HdbInv

LEMMA NextKeeps ==
  ASSUME HdbInv, [Next]_vars
  PROVE  HdbInv'
<1>1. CASE ConnectStep
  BY <1>1, ConnectSupportedKeeps, ConnectStartKeeps, ConnectChildrenKeeps DEF ConnectStep
<1>2. CASE DisconnectStep
  BY <1>2, DisconnectCollectKeeps, DisconnectNextKeeps, DisconnectChildrenStoppedKeeps,
     DisconnectStoppedKeeps, DisconnectReturnKeeps DEF DisconnectStep
<1>3. CASE StopStep
  BY <1>3, StopDiskIoKeeps, StopDiskIoEndKeeps, StopBusKeeps, StopChildKeeps,
     ChildStoppedKeeps, StopChildrenReturnKeeps DEF StopStep
<1>4. CASE ReleaseStep
  BY <1>4, DisconnectUserKeeps, NotAdmittedKeeps, RefuseKeeps, RefusedKeeps,
     CoreUninstallProtocolInterfaceKeeps, CoreReinstallProtocolInterfaceKeeps,
     ReinstallNotifyKeeps, CoreOpenProtocolExclusiveKeeps DEF ReleaseStep
<1>5. CASE CallbackStep
  BY <1>5, CallbackReturnKeeps, DispatchKeeps, LocateHandleKeeps DEF CallbackStep
<1>6. CASE Call \/ Interrupt
  BY <1>6, CallKeeps, InterruptKeeps
<1>7. CASE UNCHANGED vars
  <2>1. UNCHANGED db /\ UNCHANGED stack /\ UNCHANGED bounds
    BY <1>7 DEF vars
  <2>2. DbInv(db') /\ Bounded'
    BY <2>1, SameDb, SameBounds
  <2>3. FramesOK(stack) /\ Ranked(stack) /\ Recorded(db, stack)
    BY DEF HdbInv
  <2>4. FramesOK(stack') /\ Ranked(stack') /\ Recorded(db', stack')
    BY <2>1, <2>3, Zenon
  <2> QED BY <2>2, <2>4, Rebuilt
<1> QED BY <1>1, <1>2, <1>3, <1>4, <1>5, <1>6, <1>7 DEF Next, Continue

\* The inductive invariant of the database and the call stack: each service that
\* CoreDisconnectController and the drivers' Stop functions start takes down a layer
\* nearer the top than any layer that a service below it is at work on.
THEOREM HdbInvariant == Spec => []HdbInv
<1>1. Init => HdbInv
  BY InitKeeps
<1>2. HdbInv /\ [Next]_vars => HdbInv'
  BY NextKeeps
<1> QED BY <1>1, <1>2, PTL DEF Spec

\* The database keeps its shape: no PROTOCOL_NOTIFY points to an interface that
\* CoreRemoveInterfaceFromProtocol took out, an interface that is gone has no OpenList
\* left, and the interface that an uninstall, a reinstall or an exclusive opening looked
\* up is in the database each time it takes gProtocolDatabaseLock again.
THEOREM HdbTypeCorrect == Spec => []HdbTypeOK
<1>1. HdbInv => HdbTypeOK
  <2> SUFFICES ASSUME HdbInv PROVE HdbTypeOK
    OBVIOUS
  <2>1. db \in Database /\ Bounded
    BY DEF HdbInv, DbInv
  <2>2. DOMAIN stack = 1..Len(stack)
    BY DEF HdbInv, FramesOK
  <2>3. \A i \in DOMAIN stack : stack[i] \in Frames
    BY <2>2 DEF HdbInv, FramesOK, FrameOK
  <2>4. \A r \in Registration : db.position[r] \in Range(db.list[RegGuid[r]]) \cup {ListHead}
    BY DEF HdbInv, DbInv
  <2>5. \A h \in Handle, g \in Guid : ~Live(db, h, g) => db.open[<<h, g>>] = {}
    BY DEF HdbInv, DbInv, OpenOK
  <2>6. \A i \in DOMAIN stack :
          stack[i].pc \in {"uninstall", "reinstall", "exclusive"} /\ stack[i].done
            => Live(db, stack[i].handle, stack[i].guid)
    BY <2>2, Zenon DEF HdbInv, Recorded, RecordedIn, Looking
  <2> QED BY <2>1, <2>3, <2>4, <2>5, <2>6 DEF HdbTypeOK, Bounded
<1> QED BY <1>1, HdbInvariant, PTL

\* CoreOpenProtocol and CoreDisconnectControllersUsingProtocolInterface release the
\* lock while drivers are stopped, and still an interface never is open for two drivers,
\* for two exclusive users, or for both.
THEOREM OneManagerCorrect == Spec => []OneManager
<1>1. HdbInv => OneManager
  <2> SUFFICES ASSUME HdbInv, NEW h \in Handle, NEW g \in Guid
               PROVE  Cardinality(With(db, h, g, "driver") \cup With(db, h, g, "exclusive")) <= 1
    BY DEF OneManager
  <2>1. PICK S : S = With(db, h, g, "driver") \cup With(db, h, g, "exclusive")
    OBVIOUS
  <2>2. OpenOK(h, g, Live(db, h, g), db.open[<<h, g>>])
    BY DEF HdbInv, DbInv
  <2>3. \E x : S \subseteq {x}
    <3>1. CASE With(db, h, g, "exclusive") = {}
      <4>1. \A i \in S : i = Opened(OwnerOf(g), h, "driver")
        BY <2>1, <2>2, <3>1 DEF With, OpenOK, ItemOK
      <4> QED BY <4>1
    <3>2. CASE With(db, h, g, "exclusive") # {}
      <4>1. \A i \in S : i = Opened(App, NoHandle, "exclusive")
        BY <2>1, <2>2, <3>2 DEF With, OpenOK, ItemOK
      <4> QED BY <4>1
    <3> QED BY <3>1, <3>2
  <2>4. PICK x : S \subseteq {x}
    BY <2>3
  <2>5. S = {} \/ S = {x}
    BY <2>4
  <2>6. Cardinality({}) = 0 /\ Cardinality({x}) = 1
    BY FS_EmptySet, FS_Singleton
  <2>7. Cardinality(S) <= 1
    BY <2>5, <2>6
  <2> QED BY <2>1, <2>7
<1> QED BY <1>1, HdbInvariant, PTL

-----------------------------------------------------------------------------
(***************************************************************************)
(* The lists of the protocols and the positions of the registrations       *)
(* implement one queue for each registration, and no queue is forgotten.   *)
(*                                                                         *)
(* What comes after a position.                                            *)
(***************************************************************************)

\* New interfaces come last.
LEMMA AfterJoined ==
  ASSUME NEW s \in Lists, NEW t \in Lists, Range(s) \cap Range(t) = {},
         NEW p \in Range(s) \cup {ListHead}
  PROVE  After(s \o t, p) = After(s, p) \o t
<1>1. PICK u : u = s \o t
  OBVIOUS
<1>2. PICK n : n = Len(s)
  OBVIOUS
<1>3. PICK m : m = Len(t)
  OBVIOUS
<1>4. /\ u \in Lists /\ Range(u) = Range(s) \cup Range(t) /\ Len(u) = n + m
      /\ \A i \in 1..n : u[i] = s[i]
      /\ \A i \in 1..m : u[n + i] = t[i]
  BY <1>1, <1>2, <1>3, JoinedIs
<1>5. n \in Nat /\ m \in Nat /\ t \in Seq(Handle)
  BY <1>2, <1>3, ListFacts
<1>6. PICK k : k = Place(s, p)
  OBVIOUS
<1>7. k \in 0..n
  BY <1>2, <1>6, PlaceRange
<1>8. p \in Range(u) \cup {ListHead} /\ Place(u, p) = k
  <2>1. CASE p = ListHead
    BY <1>6, <2>1 DEF Place
  <2>2. CASE p \in Range(s)
    <3>1. k \in 1..n /\ s[k] = p
      BY <1>2, <1>6, <2>2, PlaceIs
    <3>2. u[k] = p /\ k \in 1..Len(u) /\ p \in Range(u)
      BY <1>4, <1>5, <2>2, <3>1
    <3>3. k = Place(u, p)
      BY <1>4, <3>2, PlaceIs
    <3> QED BY <3>2, <3>3
  <2> QED BY <2>1, <2>2
<1>9. PICK a : a = After(s, p)
  OBVIOUS
<1>10. a \in Lists /\ Len(a) = n - k /\ \A i \in 1..(n - k) : a[i] = s[i + k]
  BY <1>2, <1>6, <1>9, AfterIs
<1>11. PICK b : b = After(u, p)
  OBVIOUS
<1>12. b \in Lists /\ Len(b) = n + m - k /\ \A i \in 1..(n + m - k) : b[i] = u[i + k]
  <2>1. /\ b \in Lists /\ Len(b) = Len(u) - Place(u, p)
        /\ \A i \in 1..(Len(u) - Place(u, p)) : b[i] = u[i + Place(u, p)]
    BY <1>4, <1>8, <1>11, AfterIs
  <2>2. PICK l : l = Len(u)
    OBVIOUS
  <2>3. b \in Lists /\ Len(b) = l - k /\ \A i \in 1..(l - k) : b[i] = u[i + k]
    BY <1>8, <2>1, <2>2
  <2>4. l = n + m
    BY <1>4, <2>2
  <2>5. l - k = n + m - k
    BY <1>5, <1>7, <2>4
  <2> QED BY <2>3, <2>5, Zenon
<1>13. PICK c : c = a \o t
  OBVIOUS
<1>14. a \in Seq(Handle) /\ b \in Seq(Handle)
  BY <1>10, <1>12, ListFacts
<1>15. /\ c \in Seq(Handle) /\ Len(c) = n - k + m
       /\ \A i \in 1..(n - k + m) : c[i] = IF i <= n - k THEN a[i] ELSE t[i - (n - k)]
  <2>1. /\ c \in Seq(Handle) /\ Len(c) = Len(a) + Len(t)
        /\ \A i \in 1..(Len(a) + Len(t)) : c[i] = IF i <= Len(a) THEN a[i] ELSE t[i - Len(a)]
    BY <1>5, <1>13, <1>14, ConcatProperties
  <2> QED BY <1>3, <1>10, <2>1, Zenon
<1>16. ASSUME NEW i \in 1..(n + m - k) PROVE b[i] = c[i]
  <2>1. CASE i <= n - k
    <3>1. i + k \in 1..n /\ i \in 1..(n - k) /\ i \in 1..(n - k + m)
      BY <1>5, <1>7, <2>1
    <3> QED BY <1>4, <1>10, <1>12, <1>15, <2>1, <3>1
  <2>2. CASE i > n - k
    <3>1. /\ i - (n - k) \in 1..m /\ i + k = n + (i - (n - k)) /\ i \in 1..(n - k + m)
          /\ ~(i <= n - k)
      BY <1>5, <1>7, <2>2
    <3>2. b[i] = u[n + (i - (n - k))]
      BY <1>12, <3>1
    <3>3. c[i] = t[i - (n - k)]
      BY <1>15, <3>1
    <3> QED BY <1>4, <3>1, <3>2, <3>3
  <2> QED BY <1>5, <1>7, <2>1, <2>2
<1>17. b = c
  <2>1. Len(b) = n + m - k /\ Len(c) = n + m - k
    BY <1>5, <1>7, <1>12, <1>15
  <2> QED BY <1>14, <1>15, <1>16, <2>1, SeqEqual
<1> QED BY <1>1, <1>9, <1>11, <1>13, <1>17, Zenon

\* An interface that is removed is dropped from what is pending.
LEMMA AfterRemoved ==
  ASSUME NEW s \in Lists, NEW h \in Range(s), NEW p \in Range(s) \cup {ListHead}
  PROVE  After(RemoveEntry(s, h), BackedUp(s, p, h)) = RemoveEntry(After(s, p), h)
<1>1. PICK n : n = Len(s)
  OBVIOUS
<1>2. PICK k : k = Place(s, h)
  OBVIOUS
<1>3. PICK m : m = Place(s, p)
  OBVIOUS
<1>4. /\ n \in Nat /\ k \in 1..n /\ m \in 0..n /\ s[k] = h
      /\ \A i \in 1..n : s[i] = h => i = k
  BY <1>1, <1>2, <1>3, ListFacts, PlaceIs, PlaceRange
<1>5. PICK r : r = RemoveEntry(s, h)
  OBVIOUS
<1>6. r \in Lists /\ Len(r) = n - 1 /\ \A j \in 1..(n - 1) : r[j] = IF j < k THEN s[j] ELSE s[j + 1]
  BY <1>1, <1>2, <1>5, RemovedIs
<1>7. PICK q : q = BackedUp(s, p, h)
  OBVIOUS
<1>8. q \in Range(r) \cup {ListHead} /\ Place(r, q) = IF m < k THEN m ELSE m - 1
  BY <1>2, <1>3, <1>5, <1>7, BackedUpIs
<1>9. PICK a : a = After(s, p)
  OBVIOUS
<1>10. a \in Lists /\ Len(a) = n - m /\ \A i \in 1..(n - m) : a[i] = s[i + m]
  BY <1>1, <1>3, <1>9, AfterIs
<1>11. PICK b : b = After(r, q)
  OBVIOUS
<1>12. PICK w : w = Place(r, q)
  OBVIOUS
<1>13. /\ b \in Lists /\ Len(b) = n - 1 - w
       /\ \A i \in 1..(n - 1 - w) : b[i] = r[i + w]
  BY <1>6, <1>8, <1>11, <1>12, AfterIs
<1>14. PICK c : c = RemoveEntry(a, h)
  OBVIOUS
<1>15. CASE m < k
  <2>1. a[k - m] = h /\ k - m \in 1..(n - m)
    BY <1>4, <1>10, <1>15
  <2>2. h \in Range(a)
    BY <1>10, <2>1, ListFacts
  <2>3. Place(a, h) = k - m
    BY <1>10, <2>1, <2>2, PlaceIs
  <2>4. /\ c \in Lists /\ Len(c) = n - m - 1
        /\ \A j \in 1..(n - m - 1) : c[j] = IF j < k - m THEN a[j] ELSE a[j + 1]
    BY <1>10, <1>14, <2>2, <2>3, RemovedIs
  <2>5. w = m
    BY <1>8, <1>12, <1>15
  <2>6. ASSUME NEW i \in 1..(n - 1 - m) PROVE b[i] = c[i]
    <3>1. b[i] = r[i + m] /\ i + m \in 1..(n - 1)
      BY <1>4, <1>13, <2>5
    <3>2. r[i + m] = IF i + m < k THEN s[i + m] ELSE s[i + m + 1]
      BY <1>6, <3>1
    <3>3. c[i] = IF i < k - m THEN a[i] ELSE a[i + 1]
      BY <1>4, <2>4
    <3>4. i \in 1..(n - m) /\ i + 1 \in 1..(n - m)
      BY <1>4
    <3>5. a[i] = s[i + m] /\ a[i + 1] = s[i + 1 + m]
      BY <1>10, <3>4
    <3>6. i + 1 + m = i + m + 1 /\ (i < k - m <=> i + m < k)
      BY <1>4
    <3> QED BY <3>1, <3>2, <3>3, <3>5, <3>6
  <2>7. b \in Seq(Handle) /\ c \in Seq(Handle) /\ Len(b) = n - 1 - m /\ Len(c) = n - 1 - m
    BY <1>4, <1>13, <2>4, <2>5, ListFacts
  <2>8. b = c
    BY <2>6, <2>7, SeqEqual
  <2> QED BY <1>5, <1>7, <1>9, <1>11, <1>14, <2>8, Zenon
<1>16. CASE ~(m < k)
  <2>1. h \notin Range(a)
    <3>1. \A i \in 1..(n - m) : a[i] # h
      <4> SUFFICES ASSUME NEW i \in 1..(n - m), a[i] = h PROVE FALSE
        OBVIOUS
      <4>1. s[i + m] = h /\ i + m \in 1..n
        BY <1>4, <1>10
      <4> QED BY <1>4, <1>16, <4>1
    <3> QED BY <1>10, <3>1, ListFacts
  <2>2. c = a
    BY <1>10, <1>14, <2>1, NotRemoved
  <2>3. w = m - 1
    BY <1>8, <1>12, <1>16
  <2>4. ASSUME NEW i \in 1..(n - m) PROVE b[i] = a[i]
    <3>1. i \in 1..(n - 1 - w) /\ i + w \in 1..(n - 1) /\ ~(i + w < k) /\ i + w + 1 = i + m
      BY <1>4, <1>16, <2>3
    <3>2. b[i] = r[i + w]
      BY <1>13, <3>1
    <3>3. r[i + w] = s[i + w + 1]
      BY <1>6, <3>1
    <3>4. a[i] = s[i + m]
      BY <1>10
    <3> QED BY <3>1, <3>2, <3>3, <3>4
  <2>5. b \in Seq(Handle) /\ a \in Seq(Handle) /\ Len(b) = n - m /\ Len(a) = n - m
    BY <1>4, <1>10, <1>13, <2>3, ListFacts
  <2>6. b = a
    BY <2>4, <2>5, SeqEqual
  <2> QED BY <1>5, <1>7, <1>9, <1>11, <1>14, <2>2, <2>6, Zenon
<1> QED BY <1>15, <1>16

\* The position moves to the first that is pending.
LEMMA AfterFirst ==
  ASSUME NEW s \in Lists, NEW p \in Range(s) \cup {ListHead}, After(s, p) # <<>>
  PROVE  After(s, After(s, p)[1]) = Tail(After(s, p))
<1>1. PICK n : n = Len(s)
  OBVIOUS
<1>2. PICK m : m = Place(s, p)
  OBVIOUS
<1>3. n \in Nat /\ m \in 0..n
  BY <1>1, <1>2, ListFacts, PlaceRange
<1>4. PICK a : a = After(s, p)
  OBVIOUS
<1>5. a \in Lists /\ Len(a) = n - m /\ \A i \in 1..(n - m) : a[i] = s[i + m]
  BY <1>1, <1>2, <1>4, AfterIs
<1>6. a # <<>> /\ a \in Seq(Handle)
  BY <1>4, <1>5, ListFacts
<1>7. n - m >= 1
  BY <1>3, <1>5, <1>6
<1>8. PICK x : x = a[1]
  OBVIOUS
<1>9. x = s[m + 1] /\ m + 1 \in 1..n
  BY <1>3, <1>5, <1>7, <1>8
<1>10. x \in Range(s) /\ Place(s, x) = m + 1
  <2>1. x \in Range(s)
    BY <1>1, <1>9, ListFacts
  <2> QED BY <1>1, <1>9, <2>1, PlaceIs
<1>11. PICK b : b = After(s, x)
  OBVIOUS
<1>12. b \in Lists /\ Len(b) = n - (m + 1) /\ \A i \in 1..(n - (m + 1)) : b[i] = s[i + (m + 1)]
  BY <1>1, <1>10, <1>11, AfterIs
<1>13. PICK t : t = Tail(a)
  OBVIOUS
<1>14. t \in Seq(Handle) /\ Len(t) = n - m - 1 /\ \A i \in 1..(n - m - 1) : t[i] = a[i + 1]
  BY <1>5, <1>6, <1>13, HeadTailProperties
<1>15. ASSUME NEW i \in 1..(n - m - 1) PROVE b[i] = t[i]
  <2>1. i + 1 \in 1..(n - m) /\ i \in 1..(n - (m + 1)) /\ i + 1 + m = i + (m + 1)
    BY <1>3
  <2> QED BY <1>5, <1>12, <1>14, <2>1
<1>16. b = t
  <2>1. Len(b) = n - m - 1 /\ b \in Seq(Handle)
    BY <1>3, <1>12, ListFacts
  <2> QED BY <1>14, <1>15, <2>1, SeqEqual
<1> QED BY <1>4, <1>8, <1>11, <1>13, <1>16, Zenon

-----------------------------------------------------------------------------
(* What the sections do to the queues.                                      *)

LEMMA PendingIs ==
  ASSUME NEW d, DbInv(d), NEW r \in Registration
  PROVE  /\ RegGuid[r] \in Guid /\ d.list[RegGuid[r]] \in Lists
         /\ d.position[r] \in Range(d.list[RegGuid[r]]) \cup {ListHead}
         /\ Pending(d, r) \in Lists
<1>1. RegGuid[r] \in Guid
  BY HandleAssumption
<1>2. d.list[RegGuid[r]] \in Lists
  BY <1>1, DbLists
<1>3. d.position[r] \in Range(d.list[RegGuid[r]]) \cup {ListHead}
  BY DEF DbInv
<1> QED BY <1>1, <1>2, <1>3, AfterIs DEF Pending

LEMMA SameQueuesAre ==
  ASSUME NEW d, NEW e, e.list = d.list, e.position = d.position
  PROVE  \A r \in Registration : Pending(e, r) = Pending(d, r)
BY DEF Pending

LEMMA ArrivedQueues ==
  ASSUME NEW d, DbInv(d), NEW g \in Guid, NEW hs, NEW e, Arrived(d, g, hs, e)
  PROVE  \A r \in Registration :
           Pending(e, r) = IF RegGuid[r] = g THEN Pending(d, r) \o hs ELSE Pending(d, r)
<1> SUFFICES ASSUME NEW r \in Registration
             PROVE  Pending(e, r) = IF RegGuid[r] = g THEN Pending(d, r) \o hs ELSE Pending(d, r)
  OBVIOUS
<1>1. PICK y : y = RegGuid[r]
  OBVIOUS
<1>2. PICK s : s = d.list[y]
  OBVIOUS
<1>3. PICK p : p = d.position[r]
  OBVIOUS
<1>4. y \in Guid /\ s \in Lists /\ p \in Range(s) \cup {ListHead}
  BY <1>1, <1>2, <1>3, PendingIs
<1>5. hs \in Lists /\ e.position[r] = p /\ Range(hs) \cap Range(d.list[g]) = {}
      /\ e.list[y] = IF y = g THEN s \o hs ELSE s
  BY <1>2, <1>3, <1>4 DEF Arrived
<1>6. Pending(d, r) = After(s, p) /\ Pending(e, r) = After(e.list[y], p)
  BY <1>1, <1>2, <1>3, <1>5 DEF Pending
<1>7. CASE y = g
  <2>1. After(s \o hs, p) = After(s, p) \o hs
    BY <1>2, <1>4, <1>5, <1>7, AfterJoined
  <2> QED BY <1>1, <1>5, <1>6, <1>7, <2>1
<1>8. CASE y # g
  BY <1>1, <1>5, <1>6, <1>8
<1> QED BY <1>7, <1>8

LEMMA DepartedQueues ==
  ASSUME NEW d, DbInv(d), NEW h \in Handle, NEW g \in Guid, Live(d, h, g),
         NEW e, Departed(d, h, g, e)
  PROVE  \A r \in Registration : Pending(e, r) =
           IF RegGuid[r] = g THEN RemoveEntry(Pending(d, r), h) ELSE Pending(d, r)
<1> SUFFICES ASSUME NEW r \in Registration
             PROVE  Pending(e, r) =
                      IF RegGuid[r] = g THEN RemoveEntry(Pending(d, r), h) ELSE Pending(d, r)
  OBVIOUS
<1>1. PICK y : y = RegGuid[r]
  OBVIOUS
<1>2. PICK s : s = d.list[y]
  OBVIOUS
<1>3. PICK p : p = d.position[r]
  OBVIOUS
<1>4. y \in Guid /\ s \in Lists /\ p \in Range(s) \cup {ListHead}
  BY <1>1, <1>2, <1>3, PendingIs
<1>5. /\ e.list[y] = IF y = g THEN RemoveEntry(s, h) ELSE s
      /\ e.position[r] = IF y = g THEN BackedUp(d.list[g], p, h) ELSE p
  BY <1>1, <1>2, <1>3, <1>4 DEF Departed
<1>6. Pending(d, r) = After(s, p) /\ Pending(e, r) = After(e.list[y], e.position[r])
  BY <1>1, <1>2, <1>3, <1>5 DEF Pending
<1>7. CASE y = g
  <2>1. h \in Range(s)
    BY <1>2, <1>7, DbLists
  <2>2. After(RemoveEntry(s, h), BackedUp(s, p, h)) = RemoveEntry(After(s, p), h)
    BY <1>4, <2>1, AfterRemoved
  <2> QED BY <1>1, <1>2, <1>5, <1>6, <1>7, <2>2
<1>8. CASE y # g
  BY <1>1, <1>5, <1>6, <1>8
<1> QED BY <1>7, <1>8

LEMMA RenewedQueues ==
  ASSUME NEW d, DbInv(d), NEW h \in Handle, NEW g \in Guid, Live(d, h, g),
         NEW e, Renewed(d, h, g, e)
  PROVE  /\ \A r \in Registration : Pending(e, r) =
             IF RegGuid[r] = g THEN Append(RemoveEntry(Pending(d, r), h), h) ELSE Pending(d, r)
         /\ \A x \in Handle, y \in Guid : Live(e, x, y) <=> Live(d, x, y)
<1>1. PICK b :
        /\ Departed(d, h, g, b) /\ DbInv(e)
        /\ \A y \in Guid : e.list[y] = IF y = g THEN b.list[y] \o <<h>> ELSE b.list[y]
        /\ e.position = b.position
  BY Zenon DEF Renewed
<1>2. PICK t : t = <<h>>
  OBVIOUS
<1>3. t \in Lists /\ Range(t) = {h}
  BY <1>2, OneIs
<1>4. DbInv(b) /\ ~Live(b, h, g)
  BY <1>1 DEF Departed
<1>5. Range(b.list[g]) \cap Range(t) = {}
  BY <1>3, <1>4, DbLists
<1>6. \A y \in Guid : e.list[y] = IF y = g THEN b.list[y] \o t ELSE b.list[y]
  BY <1>1, <1>2, Zenon
<1>7. ASSUME NEW r \in Registration
      PROVE  Pending(e, r) =
               IF RegGuid[r] = g THEN Append(RemoveEntry(Pending(d, r), h), h) ELSE Pending(d, r)
  <2>1. PICK y : y = RegGuid[r]
    OBVIOUS
  <2>2. PICK s : s = b.list[y]
    OBVIOUS
  <2>3. PICK p : p = b.position[r]
    OBVIOUS
  <2>4. y \in Guid /\ s \in Lists /\ p \in Range(s) \cup {ListHead} /\ After(s, p) \in Lists
    BY <1>4, <2>1, <2>2, <2>3, PendingIs DEF Pending
  <2>5. Pending(b, r) = After(s, p) /\ Pending(e, r) = After(e.list[y], p)
    BY <1>1, <2>1, <2>2, <2>3 DEF Pending
  <2>6. Pending(b, r) = IF y = g THEN RemoveEntry(Pending(d, r), h) ELSE Pending(d, r)
    BY <1>1, <2>1, DepartedQueues
  <2>7. CASE y = g
    <3>1. After(s \o t, p) = After(s, p) \o t
      BY <1>3, <1>5, <2>2, <2>4, <2>7, AfterJoined, ZenonT(40)
    <3>2. PICK q : q = After(s, p)
      OBVIOUS
    <3>3. Append(q, h) = q \o t
      <4>1. q \in Seq(Handle)
        BY <2>4, <3>2, ListFacts
      <4> QED BY <1>2, <4>1, AppendIsConcat
    <3>4. e.list[y] = s \o t
      BY <1>6, <2>2, <2>4, <2>7
    <3> QED BY <2>1, <2>5, <2>6, <2>7, <3>1, <3>2, <3>3, <3>4
  <2>8. CASE y # g
    <3>1. e.list[y] = s
      BY <1>6, <2>2, <2>4, <2>8
    <3> QED BY <2>1, <2>5, <2>6, <2>8, <3>1
  <2> QED BY <2>7, <2>8
<1>8. ASSUME NEW x \in Handle, NEW y \in Guid PROVE Live(e, x, y) <=> Live(d, x, y)
  <2>1. /\ Live(e, x, y) <=> x \in Range(e.list[y])
        /\ Live(b, x, y) <=> x \in Range(b.list[y])
    BY <1>1, <1>4, DbLists
  <2>2. Live(b, x, y) <=> Live(d, x, y) /\ ~(x = h /\ y = g)
    BY <1>1 DEF Departed
  <2>3. CASE y = g
    <3>1. PICK s : s = b.list[g]
      OBVIOUS
    <3>2. s \in Lists /\ Range(s) \cap Range(t) = {}
      BY <1>4, <1>5, <3>1, DbLists
    <3>3. Range(s \o t) = Range(s) \cup Range(t)
      BY <1>3, <3>2, JoinedIs
    <3>4. e.list[y] = s \o t /\ b.list[y] = s
      BY <1>6, <2>3, <3>1
    <3> QED BY <1>3, <2>1, <2>2, <2>3, <3>3, <3>4
  <2>4. CASE y # g
    BY <1>6, <2>1, <2>2, <2>4
  <2> QED BY <2>3, <2>4
<1> QED BY <1>7, <1>8

LEMMA TakenQueues ==
  ASSUME NEW d, DbInv(d), NEW r \in Registration, NEW e, Taken(d, r, e)
  PROVE  \A k \in Registration :
           Pending(e, k) = IF k = r THEN Tail(Pending(d, r)) ELSE Pending(d, k)
<1>1. ASSUME NEW k \in Registration, k # r PROVE Pending(e, k) = Pending(d, k)
  BY <1>1 DEF Taken, Pending
<1>2. PICK s : s = d.list[RegGuid[r]]
  OBVIOUS
<1>3. PICK p : p = d.position[r]
  OBVIOUS
<1>4. s \in Lists /\ p \in Range(s) \cup {ListHead}
  BY <1>2, <1>3, PendingIs
<1>5. Pending(d, r) = After(s, p) /\ Pending(d, r) # <<>>
  BY <1>2, <1>3 DEF Pending, Taken
<1>6. Pending(e, r) = After(s, Pending(d, r)[1])
  BY <1>2 DEF Pending, Taken
<1>7. After(s, After(s, p)[1]) = Tail(After(s, p))
  BY <1>4, <1>5, AfterFirst
<1>8. Pending(e, r) = Tail(Pending(d, r))
  BY <1>5, <1>6, <1>7, Zenon
<1> QED BY <1>1, <1>8

-----------------------------------------------------------------------------
(* What every step does to the database, as far as the queues see it.       *)

ListsStay == SameQueues(db') /\ db'.signalled = db.signalled

LEMMA StartArrives ==
  ASSUME HdbInv, ConnectStart
  PROVE  ListsStay \/ \E g \in Guid : \E hs : Arrived(db, g, hs, db')
<1>1. stack # <<>> /\ Top.pc = "start" /\ db' = Start(db, Top.who, Top.handle)
  BY DEF ConnectStart, At
<1>2. FrameOK(Top) /\ DbInv(db)
  BY <1>1, TopFacts
<1>3. PICK h \in Handle : h = Top.handle
  BY <1>1, <1>2 DEF FrameOK, Outside
<1>4. PICK d : d = db'
  OBVIOUS
<1>5. PICK disk \in Guid : disk = DiskIo
  BY Names
<1>6. PICK block \in Guid : block = BlockIo
  BY Names
<1>7. d = StartDiskIo(db, h) \/ d = StartPartition(db, h)
  BY <1>1, <1>3, <1>4, Zenon DEF Start
<1>8. CASE d = StartDiskIo(db, h)
  <2>1. d = db \/ DiskIoStarted(db, h, d)
    BY <1>2, <1>8, StartDiskIoIs
  <2>2. CASE d = db
    BY <1>4, <2>2, Zenon DEF ListsStay, SameQueues
  <2>3. CASE DiskIoStarted(db, h, d)
    <3>1. /\ ~Live(db, h, disk) /\ DbInv(d)
          /\ \A y \in Guid : d.list[y] = IF y = disk THEN db.list[y] \o <<h>> ELSE db.list[y]
          /\ d.position = db.position
          /\ d.signalled = db.signalled \cup {r \in Registration : RegGuid[r] = disk}
      BY <1>5, <2>3, Zenon DEF DiskIoStarted
    <3>2. Arrived(db, disk, <<h>>, d)
      BY <1>2, <3>1, OneArrives
    <3> QED BY <1>4, <3>2, Zenon
  <2> QED BY <2>1, <2>2, <2>3
<1>9. CASE d = StartPartition(db, h)
  <2>1. PICK new : new = NewPartitions(db, h)
    OBVIOUS
  <2>2. PICK item : item = Opened(PartitionDxe, h, "get")
    OBVIOUS
  <2>3. d = Add(db, h, block, item) \/ PartitionStarted(db, h, new, d)
    BY <1>2, <1>6, <1>9, <2>1, <2>2, StartPartitionIs
  <2>4. CASE d = Add(db, h, block, item)
    <3>1. item \in OpenData /\ Admits(db, h, block, item)
      BY <2>2, Names, GetAdmitted
    <3>2. d.list = db.list /\ d.position = db.position /\ d.signalled = db.signalled
      BY <1>2, <2>4, <3>1, AddIs
    <3> QED BY <1>4, <3>2, Zenon DEF ListsStay, SameQueues
  <2>5. CASE PartitionStarted(db, h, new, d)
    <3>1. PICK hs : hs = SetToSeq(new)
      OBVIOUS
    <3>2. /\ DbInv(d) /\ hs \in Lists /\ Range(hs) = new /\ new \in SUBSET Handle
          /\ hs \in {q \in [1..Cardinality(new) -> new] : IsInjective(q)}
          /\ \A y \in Guid : d.list[y] = IF y = block THEN db.list[y] \o hs ELSE db.list[y]
          /\ d.position = db.position
          /\ d.signalled = db.signalled \cup {r \in Registration : RegGuid[r] = block}
      BY <1>6, <2>5, <3>1, Zenon DEF PartitionStarted
    <3>3. Range(hs) \cap Range(db.list[block]) = {}
      <4>1. \A p \in new : ~Live(db, p, block)
        BY <1>6, <2>1 DEF NewPartitions
      <4> QED BY <1>2, <3>2, <4>1, DbLists
    <3>4. hs \in {q \in [1..Cardinality(Range(hs)) -> Range(hs)] : IsInjective(q)}
      BY <3>2, Zenon
    <3>5. Arrived(db, block, hs, d)
      BY <3>2, <3>3, <3>4 DEF Arrived
    <3> QED BY <1>4, <3>5, Zenon
  <2> QED BY <2>3, <2>4, <2>5
<1> QED BY <1>7, <1>8, <1>9

\* Most steps leave the queues alone.
LEMMA OthersStay ==
  ASSUME HdbInv,
         \/ ConnectSupported \/ ConnectChildren \/ DisconnectStep \/ StopStep
         \/ DisconnectUser \/ NotAdmitted \/ Refuse \/ Refused \/ CoreOpenProtocolExclusive
  PROVE  ListsStay
<1>1. CASE UNCHANGED db
  BY <1>1 DEF ListsStay, SameQueues
<1>2. CASE SameLists(db')
  BY <1>2 DEF ListsStay, SameQueues, SameLists
<1>3. ConnectSupported \/ ConnectChildren => UNCHANGED db
  BY DEF ConnectSupported, ConnectChildren
<1>4. DisconnectStep => UNCHANGED db
  BY DEF DisconnectStep, DisconnectCollect, DisconnectNext, DisconnectChildrenStopped,
     DisconnectStopped, DisconnectReturn
<1>5. DisconnectUser \/ NotAdmitted \/ Refused => UNCHANGED db
  BY DEF DisconnectUser, NotAdmitted, Refused
<1>6. StopChildrenReturn => UNCHANGED db
  BY DEF StopChildrenReturn
<1>7. StopStep /\ ~StopChildrenReturn => SameLists(db')
  BY StopDiskIoKeeps, StopDiskIoEndKeeps, StopBusKeeps, StopChildKeeps, ChildStoppedKeeps
     DEF StopStep
<1>8. Refuse \/ CoreOpenProtocolExclusive => SameLists(db')
  BY RefuseKeeps, CoreOpenProtocolExclusiveKeeps
<1> QED BY <1>1, <1>2, <1>3, <1>4, <1>5, <1>6, <1>7, <1>8

QueuesStep ==
  \/ SameQueues(db')
  \/ \E g \in Guid : \E hs : Arrived(db, g, hs, db')
  \/ \E h \in Handle, g \in Guid :
       Live(db, h, g) /\ (Departed(db, h, g, db') \/ Renewed(db, h, g, db'))
  \/ \E r \in Registration : Taken(db, r, db')

LEMMA QueuesStepIs ==
  ASSUME HdbInv, [Next]_vars
  PROVE  QueuesStep
<1>1. CASE UNCHANGED db
  BY <1>1 DEF QueuesStep, SameQueues
<1>2. CASE ConnectStart
  BY <1>2, StartArrives DEF QueuesStep, ListsStay
<1>3. CASE CoreUninstallProtocolInterface
  <2>1. Departed(db, Top.handle, Top.guid, db') /\ AtRelease /\ Admitted
    BY <1>3, CoreUninstallProtocolInterfaceKeeps DEF CoreUninstallProtocolInterface, Released
  <2>2. Top.handle \in Handle /\ Top.guid \in Guid /\ Live(db, Top.handle, Top.guid)
    BY <2>1, LookingTop
  <2> QED BY <2>1, <2>2 DEF QueuesStep
<1>4. CASE CoreReinstallProtocolInterface
  <2>1. Renewed(db, Top.handle, Top.guid, db') /\ AtRelease /\ Live(db, Top.handle, Top.guid)
    BY <1>4, CoreReinstallProtocolInterfaceKeeps DEF CoreReinstallProtocolInterface, Released
  <2>2. Top.handle \in Handle /\ Top.guid \in Guid
    BY <2>1, LookingTop
  <2> QED BY <2>1, <2>2 DEF QueuesStep
<1>5. CASE ReinstallNotify
  BY <1>5, ReinstallNotifyKeeps DEF QueuesStep, Notified, SameQueues
<1>6. CASE Dispatch
  BY <1>6, DispatchKeeps DEF QueuesStep
<1>7. CASE LocateHandle
  BY <1>7, LocateHandleKeeps DEF QueuesStep
<1>8. CASE Call
  BY <1>8, CallKeeps, Names DEF QueuesStep, SameLists, SameQueues
<1>9. CASE CallbackReturn \/ LocateNotFound \/ Interrupt \/ UNCHANGED vars
  BY <1>1, <1>9 DEF CallbackReturn, LocateNotFound, Interrupt, vars
<1>10. CASE ListsStay
  BY <1>10 DEF ListsStay, QueuesStep
<1> QED BY <1>2, <1>3, <1>4, <1>5, <1>6, <1>7, <1>8, <1>9, <1>10, OthersStay
     DEF Next, Continue, ConnectStep, ReleaseStep, CallbackStep

-----------------------------------------------------------------------------
(* The refinement.                                                          *)

LEMMA ArriveImplemented ==
  ASSUME HdbInv, NEW g \in Guid, NEW hs, Arrived(db, g, hs, db')
  PROVE  Queues!Next
<1>1. PICK d : d = db'
  OBVIOUS
<1>2. Arrived(db, g, hs, d) /\ DbInv(db)
  BY <1>1 DEF HdbInv
<1>3. hs \in Lists /\ Range(hs) \cap Range(db.list[g]) = {} /\ Range(hs) \in SUBSET Handle
  BY <1>2, ListFacts DEF Arrived
<1>4. hs \in Queues!OrdersOf(Range(hs))
  <2>1. Queues!Cardinality(Range(hs)) = Cardinality(Range(hs))
    BY DEF Queues!Cardinality, Cardinality
  <2> QED BY <1>2, <2>1 DEF Arrived, Queues!OrdersOf, IsInjective, Queues!IsInjective
<1>5. ASSUME NEW y \in Guid
      PROVE  Range(d.list[y]) = IF y = g THEN Range(db.list[y]) \cup Range(hs) ELSE Range(db.list[y])
  <2>1. d.list[y] = IF y = g THEN db.list[y] \o hs ELSE db.list[y]
    BY <1>2 DEF Arrived
  <2>2. Range(db.list[g] \o hs) = Range(db.list[g]) \cup Range(hs)
    BY <1>2, <1>3, DbLists, JoinedIs
  <2> QED BY <2>1, <2>2
<1>6. \A r \in Registration :
        Pending(d, r) = IF RegGuid[r] = g THEN Pending(db, r) \o hs ELSE Pending(db, r)
  BY <1>2, ArrivedQueues
<1>7. Queues!Arrive(g, hs)
  <2>1. Queues!Range(hs) = Range(hs)
    BY DEF Queues!Range, Range
  <2>2. [y \in Guid |-> Range(d.list[y])] =
          [[y \in Guid |-> Range(db.list[y])] EXCEPT ![g] = @ \cup Range(hs)]
    BY <1>5
  <2>3. [r \in Registration |-> Pending(d, r)] =
          [r \in Registration |->
             IF RegGuid[r] = g THEN [k \in Registration |-> Pending(db, k)][r] \o hs
             ELSE [k \in Registration |-> Pending(db, k)][r]]
    BY <1>6
  <2> QED BY <1>1, <1>3, <2>1, <2>2, <2>3 DEF Queues!Arrive, Queues!Queues
<1> QED BY <1>3, <1>4, <1>7 DEF Queues!Next

LEMMA DropIs ==
  ASSUME NEW q, NEW h \in Handle
  PROVE  Queues!Drop(q, h) = RemoveEntry(q, h)
<1>1. h # ListHead
  BY HandleAssumption
<1>2. Place(q, h) = CHOOSE i \in DOMAIN q : q[i] = h
  BY <1>1 DEF Place
<1>3. Queues!Contains(q, h) = Contains(q, h)
  BY Zenon DEF Queues!Contains, Contains
<1>4. \A i : Queues!RemoveAt(q, i) = RemoveAt(q, i)
  BY Zenon DEF Queues!RemoveAt, RemoveAt
<1> QED BY <1>2, <1>3, <1>4, Zenon DEF Queues!Drop, RemoveEntry

LEMMA LeaveImplemented ==
  ASSUME HdbInv, NEW h \in Handle, NEW g \in Guid, Live(db, h, g), Departed(db, h, g, db')
  PROVE  Queues!Next
<1>1. PICK d : d = db'
  OBVIOUS
<1>2. Departed(db, h, g, d) /\ DbInv(db)
  BY <1>1 DEF HdbInv
<1>3. h \in Range(db.list[g])
  BY <1>2, DbLists
<1>4. ASSUME NEW y \in Guid
      PROVE  Range(d.list[y]) = IF y = g THEN Range(db.list[y]) \ {h} ELSE Range(db.list[y])
  <2>1. d.list[y] = IF y = g THEN RemoveEntry(db.list[y], h) ELSE db.list[y]
    BY <1>2 DEF Departed
  <2>2. Range(RemoveEntry(db.list[g], h)) = Range(db.list[g]) \ {h}
    BY <1>2, <1>3, DbLists, RemovedIs
  <2> QED BY <2>1, <2>2
<1>5. \A r \in Registration : Pending(d, r) =
        IF RegGuid[r] = g THEN Queues!Drop(Pending(db, r), h) ELSE Pending(db, r)
  BY <1>2, DepartedQueues, DropIs
<1>6. Queues!Leave(g, h)
  <2>1. [y \in Guid |-> Range(d.list[y])] =
          [[y \in Guid |-> Range(db.list[y])] EXCEPT ![g] = @ \ {h}]
    BY <1>4
  <2>2. [r \in Registration |-> Pending(d, r)] =
          [r \in Registration |->
             IF RegGuid[r] = g THEN Queues!Drop([k \in Registration |-> Pending(db, k)][r], h)
             ELSE [k \in Registration |-> Pending(db, k)][r]]
    BY <1>5
  <2> QED BY <1>1, <1>3, <2>1, <2>2 DEF Queues!Leave, Queues!Queues
<1> QED BY <1>6 DEF Queues!Next

LEMMA RenewImplemented ==
  ASSUME HdbInv, NEW h \in Handle, NEW g \in Guid, Live(db, h, g), Renewed(db, h, g, db')
  PROVE  Queues!Next
<1>1. PICK d : d = db'
  OBVIOUS
<1>2. Renewed(db, h, g, d) /\ DbInv(db) /\ DbInv(d)
  BY <1>1 DEF HdbInv, Renewed
<1>3. h \in Range(db.list[g])
  BY <1>2, DbLists
<1>4. /\ \A r \in Registration : Pending(d, r) =
             IF RegGuid[r] = g THEN Append(RemoveEntry(Pending(db, r), h), h) ELSE Pending(db, r)
      /\ \A x \in Handle, y \in Guid : Live(d, x, y) <=> Live(db, x, y)
  BY <1>2, RenewedQueues
<1>5. ASSUME NEW y \in Guid PROVE Range(d.list[y]) = Range(db.list[y])
  <2>1. /\ Range(d.list[y]) \subseteq Handle /\ Range(db.list[y]) \subseteq Handle
        /\ \A x \in Handle : x \in Range(d.list[y]) <=> x \in Range(db.list[y])
    <3>1. d.list[y] \in Lists /\ db.list[y] \in Lists
      BY <1>2, DbLists
    <3>2. Range(d.list[y]) \subseteq Handle /\ Range(db.list[y]) \subseteq Handle
      BY <3>1, ListFacts
    <3>3. \A x \in Handle : x \in Range(d.list[y]) <=> x \in Range(db.list[y])
      BY <1>2, <1>4, DbLists
    <3> QED BY <3>2, <3>3
  <2> QED BY <2>1
<1>6. \A r \in Registration : Pending(d, r) =
        IF RegGuid[r] = g THEN Append(Queues!Drop(Pending(db, r), h), h) ELSE Pending(db, r)
  BY <1>4, DropIs
<1>7. Queues!Renew(g, h)
  <2>1. [y \in Guid |-> Range(d.list[y])] = [y \in Guid |-> Range(db.list[y])]
    BY <1>5
  <2>2. [r \in Registration |-> Pending(d, r)] =
          [r \in Registration |->
             IF RegGuid[r] = g
             THEN Append(Queues!Drop([k \in Registration |-> Pending(db, k)][r], h), h)
             ELSE [k \in Registration |-> Pending(db, k)][r]]
    BY <1>6
  <2> QED BY <1>1, <1>3, <2>1, <2>2 DEF Queues!Renew, Queues!Queues
<1> QED BY <1>7 DEF Queues!Next

LEMMA TakeImplemented ==
  ASSUME HdbInv, NEW r \in Registration, Taken(db, r, db')
  PROVE  Queues!Next
<1>1. PICK d : d = db'
  OBVIOUS
<1>2. Taken(db, r, d) /\ DbInv(db)
  BY <1>1 DEF HdbInv
<1>3. \A k \in Registration :
        Pending(d, k) = IF k = r THEN Tail(Pending(db, r)) ELSE Pending(db, k)
  BY <1>2, TakenQueues
<1>4. Pending(db, r) # <<>> /\ d.list = db.list
  BY <1>2 DEF Taken
<1>5. Queues!Take(r)
  <2>1. [k \in Registration |-> Pending(d, k)] =
          [[k \in Registration |-> Pending(db, k)] EXCEPT ![r] = Tail(@)]
    BY <1>3
  <2>2. [y \in Guid |-> Range(d.list[y])] = [y \in Guid |-> Range(db.list[y])]
    BY <1>4
  <2> QED BY <1>1, <1>4, <2>1, <2>2 DEF Queues!Take
<1> QED BY <1>5 DEF Queues!Next

\* One queue for each registration: an interface that InstallProtocolInterface brings
\* comes last, one that is reinstalled is given again, last, one that is removed is
\* given to nobody, and LocateHandle (ByRegisterNotify) gives the oldest, whatever the
\* positions in the lists are moved to meanwhile.
THEOREM QueuesImplemented == Spec => ImplementsNotifyQueues
<1>1. Init => Queues!Init
  <2> SUFFICES ASSUME Init PROVE Queues!Init
    OBVIOUS
  <2>1. \A g \in Guid : Range(db.list[g]) = {}
    <3>1. \A g \in Guid : db.list[g] = <<>>
      BY DEF Init, EmptyDatabase
    <3>2. Range(<<>>) = {}
      BY DEF Range
    <3> QED BY <3>1, <3>2, Zenon
  <2>2. \A r \in Registration : Pending(db, r) = <<>>
    <3> SUFFICES ASSUME NEW r \in Registration PROVE Pending(db, r) = <<>>
      OBVIOUS
    <3>1. db.list[RegGuid[r]] = <<>> /\ db.position[r] = ListHead
      BY HandleAssumption DEF Init, EmptyDatabase
    <3>2. Pending(db, r) = SubSeq(<<>>, 1, 0)
      BY <3>1 DEF Pending, After, Place
    <3> QED BY <3>2
  <2> QED BY <2>1, <2>2 DEF Queues!Init
<1>2. HdbInv /\ [Next]_vars => [Queues!Next]_(Queues!vars)
  <2> SUFFICES ASSUME HdbInv, [Next]_vars PROVE [Queues!Next]_(Queues!vars)
    OBVIOUS
  <2>1. CASE SameQueues(db')
    <3>1. PICK d : d = db'
      OBVIOUS
    <3>2. d.list = db.list /\ \A r \in Registration : Pending(d, r) = Pending(db, r)
      BY <2>1, <3>1, SameQueuesAre DEF SameQueues
    <3>3. /\ [y \in Guid |-> Range(d.list[y])] = [y \in Guid |-> Range(db.list[y])]
          /\ [r \in Registration |-> Pending(d, r)] = [r \in Registration |-> Pending(db, r)]
      BY <3>2
    <3>4. UNCHANGED Queues!vars
      BY <3>1, <3>3 DEF Queues!vars
    <3> QED BY <3>4
  <2> QED BY <2>1, QueuesStepIs, ArriveImplemented, LeaveImplemented, RenewImplemented,
             TakeImplemented DEF QueuesStep
<1> QED BY <1>1, <1>2, HdbInvariant, PTL DEF Spec, ImplementsNotifyQueues, Queues!Spec

-----------------------------------------------------------------------------
(* No queue is forgotten.                                                   *)

Waiting == {"locate", "reconnected"}

\* A function in progress will look for what is pending, or signal the registration.
WaitsIn(f, r) ==
  \/ f.pc = "locate" /\ f.left = {r}
  \/ f.pc = "reconnected" /\ f.guid = RegGuid[r]
Waits(s, r) == \E i \in 1..Len(s) : WaitsIn(s[i], r)

\* What is pending will be located.
Owed ==
  \A r \in Registration :
    Pending(db, r) = <<>> \/ r \in db.signalled \/ Waits(stack, r)

\* The waiting functions stay on the stack.
Stays(s) ==
  \A i \in 1..Len(stack) : stack[i].pc \in Waiting => i \in 1..Len(s) /\ Alike(s[i], stack[i])

LEMMA WaitsStay ==
  ASSUME NEW s, Stays(s), NEW r, Waits(stack, r)
  PROVE  Waits(s, r)
<1>1. PICK i \in 1..Len(stack) : WaitsIn(stack[i], r)
  BY DEF Waits
<1>2. stack[i].pc \in Waiting
  BY <1>1 DEF WaitsIn, Waiting
<1>3. i \in 1..Len(s) /\ Alike(s[i], stack[i])
  BY <1>2 DEF Stays
<1>4. WaitsIn(s[i], r)
  BY <1>1, <1>3 DEF WaitsIn, Alike
<1> QED BY <1>3, <1>4 DEF Waits

LEMMA StillOwed ==
  ASSUME Owed, NEW s, stack' = s, NEW d, db' = d,
         \A r \in Registration : Waits(stack, r) => Waits(s, r) \/ Pending(d, r) = <<>>
                                    \/ r \in d.signalled,
         \A r \in Registration : r \in db.signalled => r \in d.signalled \/ Waits(s, r),
         \A r \in Registration :
           Pending(db, r) = <<>> =>
             Pending(d, r) = <<>> \/ r \in d.signalled \/ Waits(s, r)
  PROVE  Owed'
<1>1. \A r \in Registration : Pending(d, r) = <<>> \/ r \in d.signalled \/ Waits(s, r)
  BY DEF Owed
<1>2. \A r \in Registration : Pending(db', r) = <<>> \/ r \in db'.signalled \/ Waits(stack', r)
  BY <1>1, Zenon
<1> QED BY <1>2 DEF Owed, Waits, WaitsIn, Pending

\* The running function goes on, calls or returns.
MovesOn ==
  \/ \E f : Goto(f)
  \/ \E f, g : Push(f, g)
  \/ \E ok \in BOOLEAN : Return(ok)
  \/ \E t \in Seq(Frames) : stack' = Callers \o t

LEMMA CallersStay ==
  ASSUME HdbInv, stack # <<>>, MovesOn, NEW s, s = stack'
  PROVE  \A i \in 1..(Len(stack) - 1) : i \in 1..Len(s) /\ Alike(s[i], stack[i])
<1>1. PICK n : n = Len(stack)
  OBVIOUS
<1>2. PICK c : c = Callers
  OBVIOUS
<1>3. stack \in Seq(Frames)
  BY DEF HdbInv, FramesOK
<1>4. /\ n \in Nat /\ n >= 1 /\ c \in Seq(Frames) /\ Len(c) = n - 1
      /\ \A i \in 1..(n - 1) : c[i] = stack[i] /\ stack[i] \in Frames
  BY <1>1, <1>2, <1>3, CallersIs
<1>5. \A i \in 1..(n - 1) : Alike(c[i], stack[i])
  BY <1>4 DEF Alike
<1>6. ASSUME NEW S, NEW t \in Seq(S), s = c \o t
      PROVE  \A i \in 1..(n - 1) : i \in 1..Len(s) /\ Alike(s[i], stack[i])
  <2>1. PICK U : U = Frames \cup S
    OBVIOUS
  <2>2. c \in Seq(U) /\ t \in Seq(U) /\ Len(t) \in Nat
    BY <1>4, <2>1
  <2>3. /\ Len(s) = Len(c) + Len(t)
        /\ \A i \in 1..(Len(c) + Len(t)) : s[i] = IF i <= Len(c) THEN c[i] ELSE t[i - Len(c)]
    BY <1>6, <2>2, ConcatProperties
  <2>4. \A i \in 1..(n - 1) : i \in 1..Len(s) /\ s[i] = c[i]
    BY <1>4, <2>2, <2>3
  <2> QED BY <1>5, <2>4, Zenon
<1>7. CASE \E f : Goto(f)
  <2>1. PICK f : s = Append(c, f)
    BY <1>2, <1>7 DEF Goto
  <2>2. PICK U : U = Frames \cup {f}
    OBVIOUS
  <2>3. c \in Seq(U) /\ f \in U
    BY <1>4, <2>2
  <2>4. s = c \o <<f>>
    BY <2>1, <2>3, AppendIsConcat
  <2>5. <<f>> \in Seq(U)
    BY <2>3
  <2> QED BY <1>1, <1>6, <2>4, <2>5, Zenon
<1>8. CASE \E f, g : Push(f, g)
  <2>1. PICK f, g : s = c \o <<f, g>>
    BY <1>2, <1>8 DEF Push
  <2>2. <<f, g>> \in Seq({f, g})
    OBVIOUS
  <2> QED BY <1>1, <1>6, <2>1, <2>2, Zenon
<1>9. CASE \E ok \in BOOLEAN : Return(ok)
  <2>1. PICK ok \in BOOLEAN : s = IF Callers = <<>> THEN <<>>
                                 ELSE [Callers EXCEPT ![Len(Callers)].ok = ok]
    BY <1>9, Zenon DEF Return
  <2>2. Rests(s) /\ Len(s) = Len(stack) - 1
    BY <1>3, <2>1, ReturnIs
  <2>3. Len(s) = n - 1 /\ \A i \in 1..Len(s) : i < n => Alike(s[i], stack[i])
    BY <1>1, <2>2, Zenon DEF Rests
  <2>4. \A i \in 1..(n - 1) : i \in 1..Len(s) /\ Alike(s[i], stack[i])
    BY <1>4, <2>3
  <2> QED BY <1>1, <2>4, Zenon
<1>10. CASE \E t \in Seq(Frames) : stack' = Callers \o t
  BY <1>1, <1>2, <1>6, <1>10, Zenon
<1> QED BY <1>7, <1>8, <1>9, <1>10 DEF MovesOn

LEMMA CallersWait ==
  ASSUME HdbInv, stack # <<>>, MovesOn, Top.pc \notin Waiting, NEW s, s = stack'
  PROVE  Stays(s)
<1>1. PICK n : n = Len(stack)
  OBVIOUS
<1>2. n \in Nat /\ n >= 1 /\ Top = stack[n]
  BY <1>1, CallersIs DEF HdbInv, FramesOK
<1>3. \A i \in 1..(n - 1) : i \in 1..Len(s) /\ Alike(s[i], stack[i])
  BY <1>1, CallersStay, Zenon
<1>4. ASSUME NEW i \in 1..n, stack[i].pc \in Waiting
      PROVE  i \in 1..Len(s) /\ Alike(s[i], stack[i])
  <2>1. i # n
    BY <1>2, <1>4
  <2>2. i \in 1..(n - 1)
    BY <1>2, <2>1
  <2> QED BY <1>3, <2>2
<1> QED BY <1>1, <1>4, Zenon DEF Stays

LEMMA StackStays ==
  ASSUME HdbInv, NEW t \in Seq(Frames), NEW s, s = stack \o t
  PROVE  Stays(s) /\ \A i \in 1..Len(t) : \E j \in 1..Len(s) : s[j] = t[i]
<1>1. PICK b : b = stack
  OBVIOUS
<1>2. b \in Seq(Frames) /\ Len(b) \in Nat /\ Len(t) \in Nat
  BY <1>1 DEF HdbInv, FramesOK
<1>3. /\ Len(s) = Len(b) + Len(t)
      /\ \A i \in 1..(Len(b) + Len(t)) : s[i] = IF i <= Len(b) THEN b[i] ELSE t[i - Len(b)]
  BY <1>1, <1>2, ConcatProperties
<1>4. \A i \in 1..Len(b) : i \in 1..Len(s) /\ s[i] = b[i] /\ b[i] \in Frames
  BY <1>2, <1>3
<1>5. \A i \in 1..Len(b) : i \in 1..Len(s) /\ Alike(s[i], b[i])
  BY <1>4 DEF Alike
<1>6. ASSUME NEW i \in 1..Len(t) PROVE \E j \in 1..Len(s) : s[j] = t[i]
  <2>1. Len(b) + i \in 1..Len(s) /\ ~(Len(b) + i <= Len(b)) /\ Len(b) + i - Len(b) = i
    BY <1>2, <1>3
  <2>2. s[Len(b) + i] = t[i]
    BY <1>3, <2>1
  <2> QED BY <2>1, <2>2
<1> QED BY <1>1, <1>5, <1>6, Zenon DEF Stays

LEMMA Forms ==
  /\ ConnectSupported \/ ConnectStart => stack # <<>> /\ MovesOn /\ Top.pc \notin Waiting
  /\ HdbInv /\ ConnectChildren => stack # <<>> /\ MovesOn /\ Top.pc \notin Waiting
  /\ HdbInv /\ DisconnectStep => stack # <<>> /\ MovesOn /\ Top.pc \notin Waiting
  /\ HdbInv /\ StopStep => stack # <<>> /\ MovesOn /\ Top.pc \notin Waiting
  /\ ReleaseStep /\ ~ReinstallNotify => stack # <<>> /\ MovesOn /\ Top.pc \notin Waiting
  /\ ReinstallNotify => stack # <<>> /\ MovesOn
<1>0. /\ \A f : Goto(f) => MovesOn
      /\ \A f, g : Push(f, g) => MovesOn
      /\ \A ok \in BOOLEAN : Return(ok) => MovesOn
  BY Zenon DEF MovesOn
<1>1. TRUE \in BOOLEAN /\ FALSE \in BOOLEAN
  OBVIOUS
<1>2. ConnectSupported \/ ConnectStart => stack # <<>> /\ MovesOn /\ Top.pc \notin Waiting
  <2>1. ConnectSupported \/ ConnectStart => MovesOn
    BY <1>0, Zenon DEF ConnectSupported, ConnectStart
  <2> QED BY <2>1 DEF ConnectSupported, ConnectStart, At, Waiting
<1>3. HdbInv /\ ConnectChildren => stack # <<>> /\ MovesOn /\ Top.pc \notin Waiting
  <2> SUFFICES ASSUME HdbInv, ConnectChildren
               PROVE  stack # <<>> /\ MovesOn /\ Top.pc \notin Waiting
    OBVIOUS
  <2>1. stack # <<>> /\ Top.pc = "connect" /\ DbInv(db) /\ FrameOK(Top)
    BY TopFacts DEF ConnectChildren, At
  <2>2. Top.handle \in Handle
    BY <2>1 DEF FrameOK, Outside
  <2>3. PICK S : S = ChildrenOf(db, Top.handle, Driver)
    OBVIOUS
  <2>4. PICK kids : kids = SetToSeq(S)
    OBVIOUS
  <2>5. S \in SUBSET Handle /\ IsFiniteSet(S)
    BY <2>1, <2>2, <2>3, ChildrenAre
  <2>6. kids \in Seq(Handle)
    BY <2>4, <2>5, OrderIs DEF Lists
  <2>7. Connects(kids) \in Seq(Frames)
    BY <2>6, ConnectsIs
  <2>8. IF kids = <<>> THEN Return(TRUE) ELSE stack' = Callers \o Connects(kids)
    BY <2>3, <2>4, Zenon DEF ConnectChildren, Connects
  <2>9. MovesOn
    BY <1>0, <1>1, <2>7, <2>8, Zenon DEF MovesOn
  <2> QED BY <2>1, <2>9 DEF Waiting
<1>4. HdbInv /\ DisconnectStep => stack # <<>> /\ MovesOn /\ Top.pc \notin Waiting
  <2> SUFFICES ASSUME HdbInv, DisconnectStep
               PROVE  stack # <<>> /\ MovesOn /\ Top.pc \notin Waiting
    OBVIOUS
  <2>1. stack # <<>> /\ Top.pc \notin Waiting
    BY DEF DisconnectStep, DisconnectCollect, DisconnectNext, DisconnectChildrenStopped,
       DisconnectStopped, DisconnectReturn, At, Waiting
  <2>2. Top.done \in BOOLEAN
    BY <2>1, TopFacts
  <2>3. CASE DisconnectCollect
    BY <1>0, <2>1, <1>1, <2>3, Zenon DEF DisconnectCollect
  <2>4. CASE DisconnectNext
    BY <1>0, <2>1, <2>4, Zenon DEF DisconnectNext
  <2>5. CASE DisconnectChildrenStopped
    BY <1>0, <2>1, <2>5, Zenon DEF DisconnectChildrenStopped
  <2>6. CASE DisconnectStopped \/ DisconnectReturn
    BY <1>0, <2>1, <2>2, <2>6, Zenon DEF DisconnectStopped, DisconnectReturn
  <2> QED BY <2>1, <2>3, <2>4, <2>5, <2>6 DEF DisconnectStep
<1>5. HdbInv /\ StopStep => stack # <<>> /\ MovesOn /\ Top.pc \notin Waiting
  <2> SUFFICES ASSUME HdbInv, StopStep
               PROVE  stack # <<>> /\ MovesOn /\ Top.pc \notin Waiting
    OBVIOUS
  <2>1. stack # <<>> /\ Top.pc \notin Waiting
    BY DEF StopStep, StopDiskIo, StopDiskIoEnd, StopBus, StopChild, ChildStopped,
       StopChildrenReturn, At, Waiting
  <2>2. Top.ok \in BOOLEAN /\ (~Top.done) \in BOOLEAN
    BY <2>1, TopFacts
  <2>3. CASE StopDiskIo
    BY <1>0, <2>1, <1>1, <2>3, Zenon DEF StopDiskIo
  <2>4. CASE StopDiskIoEnd \/ StopBus
    BY <1>0, <2>1, <1>1, <2>2, <2>4, Zenon DEF StopDiskIoEnd, StopBus
  <2>5. CASE StopChild
    BY <1>0, <2>1, <2>5, Zenon DEF StopChild
  <2>6. CASE ChildStopped \/ StopChildrenReturn
    BY <1>0, <2>1, <2>2, <2>6, Zenon DEF ChildStopped, StopChildrenReturn
  <2> QED BY <2>1, <2>3, <2>4, <2>5, <2>6 DEF StopStep
<1>6. ReleaseStep /\ ~ReinstallNotify => stack # <<>> /\ MovesOn /\ Top.pc \notin Waiting
  <2> SUFFICES ASSUME ReleaseStep, ~ReinstallNotify
               PROVE  stack # <<>> /\ MovesOn /\ Top.pc \notin Waiting
    OBVIOUS
  <2>1. stack # <<>> /\ Top.pc \notin Waiting
    BY DEF ReleaseStep, DisconnectUser, NotAdmitted, Refuse, Refused,
       CoreUninstallProtocolInterface, CoreReinstallProtocolInterface,
       CoreOpenProtocolExclusive, Released, AtRelease, At, Waiting
  <2>2. CASE DisconnectUser \/ NotAdmitted
    BY <1>0, <2>1, <1>1, <2>2, Zenon DEF DisconnectUser, NotAdmitted
  <2>3. CASE Refuse \/ Refused
    BY <1>0, <2>1, <1>1, <2>3, Zenon DEF Refuse, Refused
  <2>4. CASE CoreUninstallProtocolInterface \/ CoreReinstallProtocolInterface
    BY <1>0, <2>1, <1>1, <2>4, Zenon DEF CoreUninstallProtocolInterface, CoreReinstallProtocolInterface
  <2>5. CASE CoreOpenProtocolExclusive
    BY <1>0, <2>1, <1>1, <2>5, Zenon DEF CoreOpenProtocolExclusive
  <2> QED BY <2>1, <2>2, <2>3, <2>4, <2>5 DEF ReleaseStep
<1>7. ReinstallNotify => stack # <<>> /\ MovesOn
  <2>1. ReinstallNotify => MovesOn
    BY <1>0, <1>1, Zenon DEF ReinstallNotify
  <2> QED BY <2>1 DEF ReinstallNotify, At
<1> QED BY <1>2, <1>3, <1>4, <1>5, <1>6, <1>7

LEMMA ListsStayOwed ==
  ASSUME HdbInv, Owed, ListsStay, NEW s, s = stack', Stays(s)
  PROVE  Owed'
<1>1. PICK d : d = db'
  OBVIOUS
<1>2. d.signalled = db.signalled /\ \A r \in Registration : Pending(d, r) = Pending(db, r)
  BY <1>1, SameQueuesAre DEF ListsStay, SameQueues
<1>3. \A r \in Registration : Waits(stack, r) => Waits(s, r)
  BY WaitsStay
<1> QED BY <1>1, <1>2, <1>3, StillOwed

LEMMA ArrivedOwed ==
  ASSUME HdbInv, Owed, NEW g \in Guid, NEW hs, Arrived(db, g, hs, db'),
         NEW s, s = stack', Stays(s)
  PROVE  Owed'
<1>1. PICK d : d = db'
  OBVIOUS
<1>2. DbInv(db) /\ Arrived(db, g, hs, d)
  BY <1>1 DEF HdbInv
<1>3. \A r \in Registration : RegGuid[r] # g => Pending(d, r) = Pending(db, r)
  BY <1>2, ArrivedQueues
<1>4. d.signalled = db.signalled \cup {r \in Registration : RegGuid[r] = g}
  BY <1>2 DEF Arrived
<1>5. \A r \in Registration : Waits(stack, r) => Waits(s, r)
  BY WaitsStay
<1> QED BY <1>1, <1>3, <1>4, <1>5, StillOwed

\* Nothing is dropped from an empty queue.
LEMMA EmptyStays ==
  ASSUME NEW h
  PROVE  RemoveEntry(<<>>, h) = <<>>
BY DEF RemoveEntry, Contains

LEMMA DepartedOwed ==
  ASSUME HdbInv, Owed, CoreUninstallProtocolInterface
  PROVE  Owed'
<1>1. /\ Departed(db, Top.handle, Top.guid, db') /\ AtRelease /\ Admitted
      /\ stack # <<>> /\ MovesOn /\ Top.pc \notin Waiting
  <2>1. ReleaseStep /\ ~ReinstallNotify
    BY DEF ReleaseStep, CoreUninstallProtocolInterface, Released, AtRelease, ReinstallNotify, At
  <2> QED BY <2>1, CoreUninstallProtocolInterfaceKeeps, Forms
          DEF CoreUninstallProtocolInterface, Released
<1>2. PICK h \in Handle, g \in Guid : h = Top.handle /\ g = Top.guid
  BY <1>1, LookingTop
<1>3. PICK d : d = db'
  OBVIOUS
<1>4. Departed(db, h, g, d) /\ Live(db, h, g) /\ DbInv(db)
  BY <1>1, <1>2, <1>3, LookingTop DEF HdbInv
<1>5. PICK s : s = stack'
  OBVIOUS
<1>6. \A r \in Registration : Waits(stack, r) => Waits(s, r)
  <2>1. Stays(s)
    BY <1>1, <1>5, CallersWait
  <2> QED BY <2>1, WaitsStay
<1>7. \A r \in Registration : Pending(db, r) = <<>> => Pending(d, r) = <<>>
  BY <1>4, DepartedQueues, EmptyStays
<1>8. d.signalled = db.signalled
  BY <1>4 DEF Departed
<1> QED BY <1>3, <1>5, <1>6, <1>7, <1>8, StillOwed

LEMMA RenewedOwed ==
  ASSUME HdbInv, Owed, CoreReinstallProtocolInterface
  PROVE  Owed'
<1>1. /\ Renewed(db, Top.handle, Top.guid, db') /\ AtRelease /\ Live(db, Top.handle, Top.guid)
      /\ stack # <<>> /\ MovesOn /\ Top.pc \notin Waiting
  <2>1. ReleaseStep /\ ~ReinstallNotify
    BY DEF ReleaseStep, CoreReinstallProtocolInterface, Released, AtRelease, ReinstallNotify, At
  <2> QED BY <2>1, CoreReinstallProtocolInterfaceKeeps, Forms
          DEF CoreReinstallProtocolInterface, Released
<1>2. PICK h \in Handle, g \in Guid : h = Top.handle /\ g = Top.guid
  BY <1>1, LookingTop
<1>3. PICK d : d = db'
  OBVIOUS
<1>4. Renewed(db, h, g, d) /\ Live(db, h, g) /\ DbInv(db)
  BY <1>1, <1>2, <1>3 DEF HdbInv
<1>5. PICK s : s = stack'
  OBVIOUS
<1>6. \A r \in Registration : Waits(stack, r) => Waits(s, r)
  <2>1. Stays(s)
    BY <1>1, <1>5, CallersWait
  <2> QED BY <2>1, WaitsStay
<1>7. \A r \in Registration : RegGuid[r] # g => Pending(d, r) = Pending(db, r)
  BY <1>4, RenewedQueues
<1>8. d.signalled = db.signalled
  BY <1>4 DEF Renewed
<1>9. \A r \in Registration : RegGuid[r] = g => Waits(s, r)
  <2>1. Top \in Frames /\ Top.handle \in Handle /\ stack \in Seq(Frames)
    BY <1>1, LookingTop, TopFacts
  <2>2. PICK pc \in Pcs : pc = "reconnected"
    BY PcsAre
  <2>3. PICK f : f = Going(Top, pc)
    OBVIOUS
  <2>4. f \in Frames /\ f.pc = "reconnected" /\ f.guid = g
    BY <1>2, <2>1, <2>2, <2>3, GoingIs DEF Has
  <2>5. PICK k : k = Connect(Top.handle)
    OBVIOUS
  <2>6. k \in Frames
    BY <2>1, <2>5, ConnectIs
  <2>7. s = Pushed(f, k)
    BY <1>5, <2>2, <2>3, <2>5, Zenon DEF CoreReinstallProtocolInterface, Push, Pushed, Going
  <2>8. PICK n : n = Len(stack)
    OBVIOUS
  <2>9. Len(s) = n + 1 /\ s[n] = f
    <3>1. Len(s) = Len(stack) + 1 /\ s[Len(stack)] = f
      BY <1>1, <2>1, <2>4, <2>6, <2>7, PushIs
    <3> QED BY <2>8, <3>1, Zenon
  <2>10. n \in 1..Len(s)
    BY <1>1, <2>1, <2>8, <2>9, CallersIs
  <2> QED BY <2>4, <2>9, <2>10 DEF Waits, WaitsIn
<1> QED BY <1>3, <1>5, <1>6, <1>7, <1>8, <1>9, StillOwed

LEMMA NotifiedOwed ==
  ASSUME HdbInv, Owed, ReinstallNotify
  PROVE  Owed'
<1>1. Notified(db, Top.guid, db') /\ stack # <<>> /\ MovesOn /\ Top.pc = "reconnected"
  BY ReinstallNotifyKeeps, Forms DEF ReinstallNotify, At
<1>2. PICK g : g = Top.guid
  OBVIOUS
<1>3. PICK d : d = db'
  OBVIOUS
<1>4. /\ d.signalled = db.signalled \cup {r \in Registration : RegGuid[r] = g}
      /\ \A r \in Registration : Pending(d, r) = Pending(db, r)
  BY <1>1, <1>2, <1>3, SameQueuesAre DEF Notified
<1>5. PICK s : s = stack'
  OBVIOUS
<1>6. ASSUME NEW r \in Registration, Waits(stack, r), RegGuid[r] # g
      PROVE  Waits(s, r)
  <2>1. PICK i \in 1..Len(stack) : WaitsIn(stack[i], r)
    BY <1>6 DEF Waits
  <2>2. PICK n : n = Len(stack)
    OBVIOUS
  <2>3. n \in Nat /\ n >= 1 /\ Top = stack[n]
    BY <1>1, <2>2, CallersIs DEF HdbInv, FramesOK
  <2>4. i # n
    BY <1>1, <1>2, <1>6, <2>1, <2>3 DEF WaitsIn
  <2>5. i \in 1..(n - 1)
    BY <2>1, <2>2, <2>3, <2>4
  <2>6. i \in 1..Len(s) /\ Alike(s[i], stack[i])
    BY <1>1, <1>5, <2>2, <2>5, CallersStay
  <2>7. WaitsIn(s[i], r)
    BY <2>1, <2>6 DEF WaitsIn, Alike
  <2> QED BY <2>6, <2>7 DEF Waits
<1> QED BY <1>3, <1>4, <1>5, <1>6, StillOwed

LEMMA OtherOwed ==
  ASSUME HdbInv, Owed, stack # <<>>, MovesOn, Top.pc \notin Waiting, ListsStay
  PROVE  Owed'
<1>1. PICK s : s = stack'
  OBVIOUS
<1>2. Stays(s)
  BY <1>1, CallersWait
<1> QED BY <1>1, <1>2, ListsStayOwed

LEMMA StartOwed ==
  ASSUME HdbInv, Owed, ConnectStart
  PROVE  Owed'
<1>1. stack # <<>> /\ MovesOn /\ Top.pc \notin Waiting
  BY Forms
<1>2. CASE ListsStay
  BY <1>1, <1>2, OtherOwed
<1>3. ASSUME NEW g \in Guid, NEW hs, Arrived(db, g, hs, db') PROVE Owed'
  <2>1. PICK s : s = stack'
    OBVIOUS
  <2>2. Stays(s)
    BY <1>1, <2>1, CallersWait
  <2> QED BY <1>3, <2>1, <2>2, ArrivedOwed
<1> QED BY <1>2, <1>3, StartArrives

LEMMA CallOwed ==
  ASSUME HdbInv, Owed, Call
  PROVE  Owed'
<1>1. stack = <<>>
  BY DEF Call
<1>2. PICK s : s = stack'
  OBVIOUS
<1>3. Stays(s)
  BY <1>1 DEF Stays
<1>4. SameLists(db') \/ Arrived(db, BlockIo, <<Disk>>, db')
  BY CallKeeps
<1>5. CASE SameLists(db')
  <2>1. ListsStay
    BY <1>5 DEF ListsStay, SameLists, SameQueues
  <2> QED BY <1>2, <1>3, <2>1, ListsStayOwed
<1>6. CASE Arrived(db, BlockIo, <<Disk>>, db')
  BY <1>2, <1>3, <1>6, Names, ArrivedOwed
<1> QED BY <1>4, <1>5, <1>6

LEMMA InterruptOwed ==
  ASSUME HdbInv, Owed, Interrupt
  PROVE  Owed'
<1>1. PICK h \in CallbackConnects : stack' = stack \o <<Callback, Connect(h)>>
  BY DEF Interrupt
<1>2. h \in Handle
  BY DriverModelAssumption
<1>3. PICK c : c = Callback
  OBVIOUS
<1>4. PICK k : k = Connect(h)
  OBVIOUS
<1>5. PICK t : t = <<c, k>>
  OBVIOUS
<1>6. t \in Seq(Frames)
  <2>1. c \in Frames /\ k \in Frames
    BY <1>2, <1>3, <1>4, CallbackIs, ConnectIs
  <2> QED BY <1>5, <2>1
<1>7. PICK s : s = stack'
  OBVIOUS
<1>8. s = stack \o t
  BY <1>1, <1>3, <1>4, <1>5, <1>7, Zenon
<1>9. Stays(s)
  BY <1>6, <1>8, StackStays
<1>10. ListsStay
  BY DEF Interrupt, ListsStay, SameQueues
<1> QED BY <1>7, <1>9, <1>10, ListsStayOwed

\* A registration whose event was signalled is looked at when its function is called.
LEMMA DispatchOwed ==
  ASSUME HdbInv, Owed, Dispatch
  PROVE  Owed'
<1>1. PICK r \in db.signalled :
        /\ db' = PutSignalled(db, db.signalled \ {r})
        /\ stack' = Append(stack, Locate(r))
  BY Fields DEF Dispatch, PutSignalled, HdbInv, DbInv
<1>2. db \in Database /\ stack \in Seq(Frames) /\ db.signalled \in SUBSET Registration
  BY Fields DEF HdbInv, DbInv, FramesOK
<1>3. r \in Registration /\ db.signalled \ {r} \in SUBSET Registration
  BY <1>2
<1>4. PICK d : d = db'
  OBVIOUS
<1>5. d.signalled = db.signalled \ {r} /\ d.list = db.list /\ d.position = db.position
  BY <1>1, <1>2, <1>3, <1>4, SetSignalled
<1>6. PICK f : f = Locate(r)
  OBVIOUS
<1>7. f \in Frames /\ f.pc = "locate" /\ f.left = {r}
  BY <1>3, <1>6, CallbackIs, FrameIs DEF Locate
<1>8. PICK t : t = <<f>>
  OBVIOUS
<1>9. t \in Seq(Frames) /\ Len(t) = 1 /\ t[1] = f
  BY <1>7, <1>8
<1>10. PICK s : s = stack'
  OBVIOUS
<1>11. s = stack \o t
  <2>1. PICK b : b = stack
    OBVIOUS
  <2>2. Append(b, f) = b \o <<f>>
    BY <1>2, <1>7, <2>1, AppendIsConcat
  <2> QED BY <1>1, <1>6, <1>8, <1>10, <2>1, <2>2, Zenon
<1>12. Stays(s) /\ \E j \in 1..Len(s) : s[j] = f
  <2>0. t \in Seq(Frames)
    BY <1>9
  <2>1. Stays(s) /\ \A i \in 1..Len(t) : \E j \in 1..Len(s) : s[j] = t[i]
    BY <1>11, <2>0, StackStays, ZenonT(40)
  <2>2. 1 \in 1..Len(t)
    BY <1>9
  <2> QED BY <1>9, <2>1, <2>2, Zenon
<1>13. Waits(s, r)
  BY <1>7, <1>12 DEF Waits, WaitsIn
<1>14. \A k \in Registration : Waits(stack, k) => Waits(s, k)
  BY <1>12, WaitsStay
<1>15. \A k \in Registration : k \in db.signalled => k \in d.signalled \/ Waits(s, k)
  BY <1>5, <1>13
<1>16. \A k \in Registration : Pending(d, k) = Pending(db, k)
  BY <1>5, SameQueuesAre
<1> QED BY <1>4, <1>10, <1>14, <1>15, <1>16, StillOwed

LEMMA LocateOwed ==
  ASSUME HdbInv, Owed, LocateHandle
  PROVE  Owed'
<1>1. PICK r \in Registration : Taken(db, r, db')
  BY LocateHandleKeeps
<1>2. PICK d : d = db'
  OBVIOUS
<1>3. Taken(db, r, d) /\ DbInv(db) /\ Pending(db, r) # <<>> /\ d.signalled = db.signalled
  BY <1>1, <1>2 DEF HdbInv, Taken
<1>4. \A k \in Registration : k # r => Pending(d, k) = Pending(db, k)
  BY <1>3, TakenQueues
<1>5. PICK s : s = stack'
  OBVIOUS
<1>6. s = stack
  BY <1>5 DEF LocateHandle
<1>7. \A k \in Registration : Waits(stack, k) => Waits(s, k)
  BY <1>6
<1> QED BY <1>2, <1>3, <1>4, <1>5, <1>7, StillOwed

\* A notification function ends when LocateHandle has no more for it.
LEMMA EndOwed ==
  ASSUME HdbInv, Owed, CallbackReturn \/ LocateNotFound
  PROVE  Owed'
<1>1. stack # <<>> /\ UNCHANGED db /\ stack' = Callers
  BY DEF CallbackReturn, LocateNotFound, At
<1>2. stack \in Seq(Frames) /\ FrameOK(Top)
  BY <1>1, TopFacts
<1>3. PICK n : n = Len(stack)
  OBVIOUS
<1>4. PICK s : s = Callers
  OBVIOUS
<1>5. n \in Nat /\ n >= 1 /\ Top = stack[n] /\ Len(s) = n - 1 /\ \A i \in 1..(n - 1) : s[i] = stack[i]
  BY <1>1, <1>2, <1>3, <1>4, CallersIs
<1>6. PICK d : d = db'
  OBVIOUS
<1>7. d = db
  BY <1>1, <1>6
<1>8. ASSUME NEW r \in Registration, Waits(stack, r), Pending(d, r) # <<>>
      PROVE  Waits(s, r)
  <2>1. PICK i \in 1..n : WaitsIn(stack[i], r)
    BY <1>3, <1>8 DEF Waits
  <2>2. ~WaitsIn(Top, r)
    <3>1. CASE CallbackReturn
      BY <3>1 DEF CallbackReturn, At, WaitsIn
    <3>2. CASE LocateNotFound
      <4>1. Top.pc = "locate" /\ \E k \in Top.left : Pending(db, k) = <<>>
        BY <3>2 DEF LocateNotFound, At
      <4> QED BY <1>7, <1>8, <4>1 DEF WaitsIn
    <3> QED BY <3>1, <3>2
  <2>3. i # n
    BY <1>5, <2>1, <2>2
  <2>4. i \in 1..(n - 1)
    BY <1>5, <2>1, <2>3
  <2>5. i \in 1..Len(s) /\ WaitsIn(s[i], r)
    BY <1>5, <2>1, <2>4
  <2> QED BY <2>5 DEF Waits
<1>9. stack' = s
  BY <1>1, <1>4
<1> QED BY <1>6, <1>7, <1>8, <1>9, StillOwed

LEMMA OwedKept ==
  ASSUME HdbInv, Owed, [Next]_vars
  PROVE  Owed'
<1>1. CASE ConnectSupported \/ ConnectChildren \/ DisconnectStep \/ StopStep
  BY <1>1, Forms, OthersStay, OtherOwed
<1>2. CASE ConnectStart
  BY <1>2, StartOwed
<1>3. CASE DisconnectUser \/ NotAdmitted \/ Refuse \/ Refused \/ CoreOpenProtocolExclusive
  <2>1. ReleaseStep
    BY <1>3 DEF ReleaseStep
  <2>2. ~ReinstallNotify
    BY <1>3 DEF DisconnectUser, NotAdmitted, Refuse, Refused, CoreOpenProtocolExclusive, Released,
       AtRelease, At, ReinstallNotify
  <2> QED BY <1>3, <2>1, <2>2, Forms, OthersStay, OtherOwed
<1>4. CASE CoreUninstallProtocolInterface \/ CoreReinstallProtocolInterface \/ ReinstallNotify
  BY <1>4, DepartedOwed, RenewedOwed, NotifiedOwed
<1>5. CASE CallbackStep
  BY <1>5, EndOwed, DispatchOwed, LocateOwed DEF CallbackStep
<1>6. CASE Call \/ Interrupt
  BY <1>6, CallOwed, InterruptOwed
<1>7. CASE UNCHANGED vars
  <2>1. PICK s : s = stack'
    OBVIOUS
  <2>2. s = stack /\ ListsStay
    BY <1>7, <2>1 DEF vars, ListsStay, SameQueues
  <2>3. PICK d : d = db'
    OBVIOUS
  <2>4. d = db
    BY <1>7, <2>3 DEF vars
  <2> QED BY <2>1, <2>2, <2>3, <2>4, StillOwed
<1> QED BY <1>1, <1>2, <1>3, <1>4, <1>5, <1>6, <1>7
     DEF Next, Continue, ConnectStep, ReleaseStep

\* Whatever was installed or reinstalled in the middle of a service, of a connection or
\* of another notification, its registrations have been given it when the processor is
\* back at TPL_APPLICATION with no event signalled.
THEOREM NothingIsMissed == Spec => []NothingMissed
<1>1. Init => Owed
  <2> SUFFICES ASSUME Init, NEW r \in Registration PROVE Pending(db, r) = <<>>
    BY DEF Owed
  <2>1. db.list[RegGuid[r]] = <<>> /\ db.position[r] = ListHead
    BY HandleAssumption DEF Init, EmptyDatabase
  <2>2. Pending(db, r) = SubSeq(<<>>, 1, 0)
    BY <2>1 DEF Pending, After, Place
  <2> QED BY <2>2
<1>2. HdbInv /\ Owed /\ [Next]_vars => Owed'
  BY OwedKept
<1>3. Owed => NothingMissed
  <2> SUFFICES ASSUME Owed, stack = <<>>, db.signalled = {}, NEW r \in Registration
               PROVE  Pending(db, r) = <<>>
    BY DEF NothingMissed
  <2>1. ~Waits(stack, r)
    BY DEF Waits
  <2> QED BY <2>1 DEF Owed
<1> QED BY <1>1, <1>2, <1>3, HdbInvariant, PTL DEF Spec
=============================================================================
