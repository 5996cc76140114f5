------------------------------ MODULE VarStore ------------------------------
(***************************************************************************)
(* The variable driver over its non-volatile store: SetVariable and        *)
(* UpdateVariable step by step as they change the flash, Reclaim over the  *)
(* fault tolerant write protocol, the start of the driver, and power       *)
(* failures and flash errors between any two changes.                      *)
(***************************************************************************)
EXTENDS VarLog

CONSTANTS
  RuntimeSpace,          \* CommonRuntimeVariableSpace, in units
  Faulty,                \* the steps whose flash access can fail
  MaxFailures,           \* bound: flash errors and power failures
  MaxTotal,              \* bound: totals up to which SetVariable is called
  Overfill,              \* callers update variables without room at runtime,
                         \* after a failure, too
  NoSpare                \* the spare block holds nothing a start would use

ASSUME DriverAssumption ==
  /\ RuntimeSpace \in 0..StoreSize
  /\ MaxFailures \in Nat /\ MaxTotal \in Nat /\ Overfill \in BOOLEAN
  /\ Faulty \subseteq {"mark", "header", "headerValid", "data", "added", "deleteInDeleted",
                      "deleteCurr", "reclaim", "reclaimForOS", "flush"}
  /\ NoSpare \notin Store

VARIABLES
  flash,        \* the store in flash
  cache,        \* mNvVariableCache
  last,         \* NonVolatileLastVariableOffset
  total,        \* CommonVariableTotalSize
  pc,           \* the step that comes next, "idle" outside the services
  args,         \* the name and value of the SetVariable in progress
  track,        \* VARIABLE_POINTER_TRACK: the copies found
  reply,        \* "none", "success", "failed" or "full"
  atRuntime,    \* AtRuntime
  reclaimed,    \* ReclaimForOS's Reclaimed
  spare,        \* what the next start copies from the spare block over the store
  refusing,     \* FtwProtocol->Write refuses until then: its record is half done
  failures      \* left of MaxFailures

memory == <<cache, last, total>>
call   == <<args, track>>
ftw    == <<spare, refusing>>
mode   == <<atRuntime, reclaimed, ftw>>
vars   == <<flash, memory, pc, call, reply, mode, failures>>

NoTrack == [curr |-> 0, inDeleted |-> 0]
NoArgs  == [name |-> CHOOSE n \in Name : TRUE, value |-> NoValue]

Return(status) ==
  /\ pc' = "idle" /\ reply' = status /\ track' = NoTrack
  /\ UNCHANGED args
Goto(step) == pc' = step /\ UNCHANGED <<call, reply>>

\* What the next start finds: an interrupted fault tolerant write is finished first.
AtRestart == IF spare = NoSpare THEN flash ELSE spare

\* State &= bits, in a store.
SetState(store, p, bits) == [store EXCEPT ![p].state = @ \cup bits]

-----------------------------------------------------------------------------
(* UpdateVariable                                                           *)

\* Mutant of NoRoom: the size of the new variable is forgotten.
NoneLeft(space) == total >= space

NoRoom(space) == VarSize + total > space

\* VariableServiceSetVariable finds the copies in the cache.
SetVariable(n, v) ==
  LET found == FindVariableEx(cache, n)
  IN  /\ pc = "idle" /\ total <= MaxTotal
      /\ \/ Overfill \/ failures = MaxFailures
         \/ atRuntime /\ NoRoom(RuntimeSpace) => found.curr = 0 \/ v = NoValue
      /\ args' = [name |-> n, value |-> v]
      /\ IF \/ found.curr = 0 /\ v = NoValue
            \/ found.curr # 0 /\ v = Get(cache, n)
         THEN /\ reply' = IF found.curr = 0 THEN "failed" ELSE "success"
              /\ UNCHANGED <<pc, track>>
         ELSE /\ track' = found /\ reply' = "none"
              /\ pc' = IF found.curr = 0 THEN "append"
                       ELSE IF v # NoValue THEN "mark"
                       ELSE IF found.inDeleted # 0 THEN "deleteInDeleted" ELSE "deleteCurr"
      /\ UNCHANGED <<flash, memory, mode, failures>>

\* Mutant of Mark: only the flash is marked.
MarkFlash ==
  /\ pc = "mark"
  /\ flash' = SetState(flash, track.curr, VAR_IN_DELETED_TRANSITION)
  /\ Goto("append")
  /\ UNCHANGED <<memory, mode, failures>>

\* Mutant of Mark: the old copy stays ADDED until the new one is.
SkipMark ==
  /\ pc = "mark"
  /\ Goto("append")
  /\ UNCHANGED <<flash, memory, mode, failures>>

\* Mark the old variable as in delete transition.
Mark ==
  /\ pc = "mark"
  /\ flash' = SetState(flash, track.curr, VAR_IN_DELETED_TRANSITION)
  /\ cache' = SetState(cache, track.curr, VAR_IN_DELETED_TRANSITION)
  /\ Goto("append")
  /\ UNCHANGED <<last, total, mode, failures>>

\* At runtime nothing is reclaimed, and less of the store is used.
CheckSpace ==
  /\ pc = "append"
  /\ IF atRuntime /\ NoRoom(RuntimeSpace) THEN Return("full")
     ELSE Goto(IF NoRoom(StoreSize) THEN "reclaim" ELSE "header")
  /\ UNCHANGED <<flash, memory, mode, failures>>

\* Four steps: 1. the header, its State still erased.
WriteHeader ==
  /\ pc = "header"
  /\ flash' = [flash EXCEPT ![last].start = TRUE]
  /\ Goto("headerValid")
  /\ UNCHANGED <<memory, mode, failures>>

\* 2. The State becomes VAR_HEADER_VALID_ONLY.
WriteHeaderValid ==
  /\ pc = "headerValid"
  /\ flash' = SetState(flash, last, VAR_HEADER_VALID_ONLY)
  /\ Goto("data")
  /\ UNCHANGED <<memory, mode, failures>>

\* 3. Name and data.
WriteData ==
  /\ pc = "data"
  /\ flash' = [flash EXCEPT ![last + 1].body = IF @ \in {Erased, args} THEN args ELSE Garbled]
  /\ Goto("added")
  /\ UNCHANGED <<memory, mode, failures>>

\* 4. The State becomes VAR_ADDED; then offset, size and cache follow.
WriteAdded ==
  /\ pc = "added"
  /\ flash' = SetState(flash, last, VAR_ADDED)
  /\ cache' = [cache EXCEPT ![last] = [ErasedUnit EXCEPT !.start = TRUE, !.state = VAR_ADDED],
                            ![last + 1] = [ErasedUnit EXCEPT !.body = args]]
  /\ last' = last + VarSize /\ total' = total + VarSize
  /\ IF track.curr = 0 THEN Return("success")
     ELSE Goto(IF track.inDeleted # 0 THEN "deleteInDeleted" ELSE "deleteCurr")
  /\ UNCHANGED <<mode, failures>>

\* The copy in delete transition goes first: the ADDED one hides it.
DeleteInDeleted ==
  /\ pc = "deleteInDeleted"
  /\ flash' = SetState(flash, track.inDeleted, VAR_DELETED)
  /\ cache' = SetState(cache, track.inDeleted, VAR_DELETED)
  /\ Goto("deleteCurr")
  /\ UNCHANGED <<last, total, mode, failures>>

DeleteCurr ==
  /\ pc = "deleteCurr"
  /\ flash' = SetState(flash, track.curr, VAR_DELETED)
  /\ cache' = SetState(cache, track.curr, VAR_DELETED)
  /\ Return("success")
  /\ UNCHANGED <<last, total, mode, failures>>

UpdateStep ==
  \/ Mark \/ CheckSpace \/ WriteHeader \/ WriteHeaderValid \/ WriteData \/ WriteAdded
  \/ DeleteInDeleted \/ DeleteCurr

-----------------------------------------------------------------------------
(* Reclaim, with and without a new variable                                 *)

Reclaiming == pc \in {"reclaim", "reclaimForOS", "reclaimAtBoot"}

\* Mutant of NewStore: the copy being updated is kept beside the new one.
KeepUpdating ==
  Survivors(flash, NoTrack) \o (IF pc = "reclaim" THEN <<args>> ELSE <<>>)

NewStore == Survivors(flash, track) \o (IF pc = "reclaim" THEN <<args>> ELSE <<>>)
Fits     == VarSize * Len(NewStore) <= StoreSize

\* mNvVariableCache, where the new store was made, is copied back from the flash.
Reclaim ==
  /\ Reclaiming /\ (Fits => ~refusing)
  /\ IF Fits
     THEN /\ flash' = Compact(NewStore) /\ cache' = flash'
          /\ total' = VarSize * Len(NewStore) /\ last' = 1 + total'
          /\ Return(IF pc = "reclaim" THEN "success" ELSE "none")
     ELSE /\ cache' = flash
          /\ Return("full")
          /\ UNCHANGED <<flash, last, total>>
  /\ UNCHANGED <<mode, failures>>

\* FtwProtocol->Write has failed and left this store behind, which is read again: its
\* sizes are added to the totals.
WriteFailed(store) ==
  /\ pc \in {"reclaim", "reclaimForOS"} /\ Fits
  /\ flash' = store /\ cache' = store
  /\ last' = End(store) /\ total' = total + End(store) - 1
  /\ Return(IF pc = "reclaim" THEN "failed" ELSE "none")
  /\ UNCHANGED <<atRuntime, reclaimed>>

\* An error before the spare block counts, or after the store was written; FtwWrite
\* may be left with a header it cannot use or a record that counts as done.
ReclaimFault ==
  /\ pc \in Faulty /\ ~refusing /\ failures > 0
  /\ \E store \in {flash, Compact(NewStore)} : WriteFailed(store)
  /\ refusing' \in BOOLEAN /\ failures' = failures - 1
  /\ UNCHANGED spare

\* The variables a write of all of them has written when it is cut off: of the last
\* one perhaps no name, a part of it, or the name and other data.
CutOff(bodies) ==
  {<<>>} \cup UNION {{Append(SubSeq(bodies, 1, k - 1), body) :
                        body \in {Erased, Garbled} \cup {c \in Contents : c.name = bodies[k].name}} :
                     k \in DOMAIN bodies}

\* The store behind a failed FlushSpareBlockToTargetBlock: as it was, or erased and
\* the new one begun, perhaps to its end.
Torn == {flash} \cup {Compact(bodies) : bodies \in CutOff(NewStore)}

\* An error once SpareComplete is set: the new store waits in the spare block, and
\* until a start has copied it FtwWrite takes its record for one in progress.
FlushFault ==
  /\ "flush" \in Faulty /\ ~refusing /\ failures > 0
  /\ \E store \in Torn : WriteFailed(store)
  /\ spare' = Compact(NewStore) /\ refusing' = TRUE
  /\ failures' = failures - 1

\* FtwProtocol->Write returns EFI_NOT_READY or EFI_ACCESS_DENIED at once.
WriteRefused ==
  /\ refusing /\ WriteFailed(flash)
  /\ UNCHANGED <<ftw, failures>>

\* Once, at EndOfDxe or ReadyToBoot.
ReclaimForOS ==
  /\ pc = "idle" /\ ~atRuntime /\ ~reclaimed
  /\ reclaimed' = TRUE
  /\ IF RuntimeSpace - total < VarSize THEN Goto("reclaimForOS") ELSE Goto("idle")
  /\ UNCHANGED <<flash, memory, atRuntime, ftw, failures>>

-----------------------------------------------------------------------------
(* The start of the driver                                                  *)

\* InitNonVolatileVariableStore: the cache is read from the store (see AtRestart).
InitStore ==
  /\ pc = "boot"
  /\ cache' = flash
  /\ last' = End(flash) /\ total' = End(flash) - 1
  /\ Goto("writeService")
  /\ UNCHANGED <<flash, mode, failures>>

\* Mutant of WriteServiceInitialize: the free area is not looked at.
TrustFreeArea ==
  /\ pc = "writeService"
  /\ Goto("idle")
  /\ UNCHANGED <<flash, memory, mode, failures>>

\* VariableWriteServiceInitialize: is the free area really free?
WriteServiceInitialize ==
  /\ pc = "writeService"
  /\ Goto(IF \A p \in Offset : p >= last => cache[p] = ErasedUnit
          THEN "idle" ELSE "reclaimAtBoot")
  /\ UNCHANGED <<flash, memory, mode, failures>>

-----------------------------------------------------------------------------
(* Errors, power failures and resets                                        *)

\* Fvb->Write fails and changes nothing.
Fault ==
  /\ pc \in Faulty \ {"reclaim", "reclaimForOS"} /\ failures > 0
  /\ Return("failed")
  /\ failures' = failures - 1
  /\ UNCHANGED <<flash, memory, mode>>

\* What a power failure leaves of the access it interrupts: of a header without
\* or with its StartId, of name and data a part, of a reclaim one of the two stores.
Remains ==
  CASE pc = "header" ->
         {flash, [flash EXCEPT ![last].body = Garbled], [flash EXCEPT ![last].start = TRUE]}
    [] pc = "data"   -> {flash, [flash EXCEPT ![last + 1].body = Garbled]}
    [] Reclaiming    -> {flash} \cup (IF Fits /\ ~refusing THEN {Compact(NewStore)} ELSE {})
    [] OTHER         -> {flash}

Restart ==
  /\ pc' = "boot" /\ args' = NoArgs /\ track' = NoTrack /\ reply' = "none"
  /\ cache' = ErasedStore /\ last' = 1 /\ total' = 0
  /\ atRuntime' = FALSE /\ reclaimed' = FALSE
  /\ spare' = NoSpare /\ refusing' = FALSE

PowerCut ==
  /\ failures > 0 /\ pc # "boot"
  /\ flash' \in (IF spare = NoSpare THEN Remains ELSE {spare})
  /\ failures' = failures - 1
  /\ Restart

Reset == pc = "idle" /\ flash' = AtRestart /\ Restart /\ UNCHANGED failures

ExitBootServices ==
  /\ pc = "idle" /\ ~atRuntime /\ reclaimed
  /\ atRuntime' = TRUE
  /\ UNCHANGED <<flash, memory, pc, call, reply, reclaimed, ftw, failures>>

Init ==
  /\ flash = ErasedStore /\ cache = ErasedStore /\ last = 1 /\ total = 0
  /\ pc = "boot" /\ args = NoArgs /\ track = NoTrack /\ reply = "none"
  /\ atRuntime = FALSE /\ reclaimed = FALSE
  /\ spare = NoSpare /\ refusing = FALSE
  /\ failures = MaxFailures

DriverStep == UpdateStep \/ Reclaim \/ InitStore \/ WriteServiceInitialize

Next ==
  \/ DriverStep
  \/ \E n \in Name, v \in Value \cup {NoValue} : SetVariable(n, v)
  \/ ReclaimForOS \/ ExitBootServices \/ Reset
  \/ Fault \/ ReclaimFault \/ FlushFault \/ WriteRefused \/ PowerCut

Spec == Init /\ [][Next]_vars
=============================================================================
