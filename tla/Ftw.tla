-------------------------------- MODULE Ftw ---------------------------------
(***************************************************************************)
(* The fault tolerant write driver (FaultTolerantWriteDxe): its services,  *)
(* the reclaim of its work space and its start after a reset, with the     *)
(* power failing between any two accesses to the flash or during one.      *)
(*                                                                         *)
(* A service in progress is the sequence todo of the steps it still has to *)
(* take, each of which changes the flash at most once.  The driver's copy  *)
(* FtwWorkSpace of the work space equals the flash wherever it is read, so *)
(* only the pointers into it are variables.                                *)
(***************************************************************************)
EXTENDS FtwWorkSpace, Sequences

CONSTANTS
  Data,         \* the contents of a block
  Factory,      \* those that every block has at first
  Torn,         \* a block that is erased or half written
  Private,      \* clients pass private data with a write
  RetrySame,    \* a client repeats a write that failed, or aborts it
  Ops,          \* the services clients call
  MaxCalls,     \* bound: calls of them
  MaxFaults,    \* bound: errors of the FVB protocol or of the pool
  MaxPowerCuts  \* bound: power failures

ASSUME FtwAssumption ==
  /\ Factory \in Data /\ Torn \notin Data
  /\ Private \in BOOLEAN /\ RetrySame \in BOOLEAN
  /\ {MaxCalls, MaxFaults, MaxPowerCuts} \subseteq Nat

VARIABLES
  work,                \* flash: the work space in the working block
  spare,               \* flash: the spare block
  target,              \* flash: the blocks clients write
  FtwLastWriteHeader,  \* position of the header of the writes in progress
  FtwLastWriteRecord,  \* position of their record in progress
  Offset,              \* FtwAllocate's local: where it will write the header
  Buffer,              \* MyBuffer, TempBuffer or the Buffer of a flush
  SpareBuffer,         \* the spare block's contents, to be put back
  todo,                \* the steps of the service in progress
  args,                \* which service it is and its arguments
  reply,               \* what the last call returned
  calls, faults, powerCuts  \* what is left of each

flash    == <<work, spare, target>>
pointers == <<FtwLastWriteHeader, FtwLastWriteRecord>>
buffers  == <<Buffer, SpareBuffer>>
budgets  == <<calls, faults, powerCuts>>
vars     == <<flash, pointers, Offset, buffers, todo, args, reply, budgets>>

Block       == [data : Data \cup {Torn}, ws : Image]
ErasedBlock == [data |-> Torn, ws |-> Blank]

hdr == FtwLastWriteHeader
rec == FtwLastWriteRecord
LastHeader == work.queue[hdr]
LastRecord == work.queue[rec]

-----------------------------------------------------------------------------
(* The order of the steps in each function.                                 *)

FlushToWorkingBlock ==
  <<"spareValid", "readSpare", "workInvalid", "eraseWork", "writeWork", "workValid">>
ReclaimSteps ==
  <<"eraseSpare", "writeSpare", "spareValid", "workInvalid">>
    \o FlushToWorkingBlock \o <<"eraseSpare", "restoreSpare">>
\* Mutant of AllocateSteps: WritesAllocated is not set.
HeaderOnly    == <<"allocateHeader">>
AllocateSteps == <<"allocateHeader", "allocateWrites">>
\* Mutant of WriteSteps: SpareComplete is set before the data is in the spare block.
EarlyComplete == <<"record", "spareComplete", "eraseSpare", "writeSpare">>
WriteSteps    == <<"record", "eraseSpare", "writeSpare", "spareComplete">>
FtwWriteRecord ==
  <<"readSpare", "eraseTarget", "writeTarget", "destComplete", "writesComplete">>
FtwAbort == <<"refresh", "abort">>
InitFtwProtocol ==
  <<"refresh", "bootValid", "bootFirst", "bootLast", "bootTail", "bootRestart">>

Call == [op : {"boot", "allocate", "write", "restart", "abort", "lastWrite"},
         ext : Extent \cup {Erased}, data : Data, n : 1..MaxWrites]
BootCall == [op |-> "boot", ext |-> Erased, data |-> Factory, n |-> 1]

Step(s) == todo # <<>> /\ Head(todo) = s

\* The step is done; more steps come before those that were left.
Continue(more) ==
  /\ todo' = more \o Tail(todo)
  /\ reply' = IF todo' = <<>> THEN "success" ELSE reply
  /\ UNCHANGED <<args, budgets>>

Return(r) == todo' = <<>> /\ reply' = r /\ UNCHANGED <<args, budgets>>

-----------------------------------------------------------------------------
(* The work space: WorkSpaceRefresh and FtwReclaimWorkSpace.                *)

PointInto(queue) ==
  LET h == GetLastWriteHeader(queue).at
  IN  /\ FtwLastWriteHeader' = h
      /\ FtwLastWriteRecord' = GetLastWriteRecord(queue, h)

\* FtwReclaimWorkSpace up to its first access to the flash: the new work
\* space is prepared in memory and the spare block is read.
Reclaim(queue, header, more) ==
  /\ PointInto(queue)
  /\ Buffer' = [data |-> Torn,
                ws |-> [header EXCEPT !.valid = FALSE, !.invalid = FALSE, !.queue = queue]]
  /\ SpareBuffer' = spare
  /\ Continue(ReclaimSteps \o more)

\* A work space without room for a header and a record is reclaimed first.
Refresh ==
  /\ Step("refresh")
  /\ IF HasRoom(work.queue)
     THEN PointInto(work.queue) /\ Continue(<<>>) /\ UNCHANGED buffers
     ELSE Reclaim(Preserved(work.queue), work, <<"reread">>)
  /\ UNCHANGED <<flash, Offset>>

Reread ==
  /\ Step("reread")
  /\ IF GetLastWriteHeader(work.queue).full
     THEN Return("failed") /\ UNCHANGED pointers
     ELSE PointInto(work.queue) /\ Continue(<<>>)
  /\ UNCHANGED <<flash, Offset, buffers>>

EraseSpare ==
  /\ Step("eraseSpare")
  /\ spare' = ErasedBlock
  /\ Continue(<<>>)
  /\ UNCHANGED <<work, target, pointers, Offset, buffers>>

WriteSpare ==
  /\ Step("writeSpare")
  /\ spare' = Buffer
  /\ Continue(<<>>)
  /\ UNCHANGED <<work, target, pointers, Offset, buffers>>

RestoreSpare ==
  /\ Step("restoreSpare")
  /\ spare' = SpareBuffer
  /\ SpareBuffer' = ErasedBlock
  /\ Continue(<<>>)
  /\ UNCHANGED <<work, target, pointers, Offset, Buffer>>

SpareValid ==
  /\ Step("spareValid")
  /\ spare' = [spare EXCEPT !.ws.valid = TRUE]
  /\ Continue(<<>>)
  /\ UNCHANGED <<work, target, pointers, Offset, buffers>>

WorkInvalid ==
  /\ Step("workInvalid")
  /\ work' = [work EXCEPT !.invalid = TRUE]
  /\ Continue(<<>>)
  /\ UNCHANGED <<spare, target, pointers, Offset, buffers>>

ReadSpare ==
  /\ Step("readSpare")
  /\ Buffer' = spare
  /\ Continue(<<>>)
  /\ UNCHANGED <<flash, pointers, Offset, SpareBuffer>>

EraseWork ==
  /\ Step("eraseWork")
  /\ work' = Blank
  /\ Continue(<<>>)
  /\ UNCHANGED <<spare, target, pointers, Offset, buffers>>

\* With the header made anew (InitWorkSpaceHeader), neither valid nor invalid.
WriteWork ==
  /\ Step("writeWork")
  /\ work' = [Header EXCEPT !.queue = Buffer.ws.queue]
  /\ Buffer' = ErasedBlock
  /\ Continue(<<>>)
  /\ UNCHANGED <<spare, target, pointers, Offset, SpareBuffer>>

WorkValid ==
  /\ Step("workValid")
  /\ work' = [work EXCEPT !.valid = TRUE]
  /\ Continue(<<>>)
  /\ UNCHANGED <<spare, target, pointers, Offset, buffers>>

ReclaimStep ==
  \/ Refresh \/ Reread \/ EraseSpare \/ WriteSpare \/ RestoreSpare \/ SpareValid
  \/ WorkInvalid \/ ReadSpare \/ EraseWork \/ WriteWork \/ WorkValid

-----------------------------------------------------------------------------
(* FtwAllocate                                                              *)

Allocate ==
  /\ Step("allocate")
  /\ LET room == hdr + args.n <= QueueSize
     IN  IF \/ 1 + args.n > QueueSize
                \/ {HeaderAllocated, WritesAllocated} \cap LastHeader.flags # {}
         THEN Return("failed") /\ UNCHANGED <<pointers, Offset, buffers>>
         ELSE /\ Offset' = hdr
              /\ IF room
                 THEN Continue(AllocateSteps) /\ UNCHANGED <<pointers, buffers>>
                 ELSE Reclaim(Preserved(work.queue), work, AllocateSteps)
  /\ UNCHANGED flash

ProgramUnit(p, flags, body) ==
  work' = [work EXCEPT !.queue[p] = Program(@, [flags |-> flags, body |-> body])]

AllocateHeader ==
  /\ Step("allocateHeader")
  /\ ProgramUnit(Offset, {HeaderAllocated}, args.n)
  /\ Continue(<<>>)
  /\ UNCHANGED <<spare, target, pointers, Offset, buffers>>

AllocateWrites ==
  /\ Step("allocateWrites")
  /\ ProgramUnit(Offset, {WritesAllocated}, Erased)
  /\ Continue(<<>>)
  /\ UNCHANGED <<spare, target, pointers, Offset, buffers>>

-----------------------------------------------------------------------------
(* FtwWrite and FtwWriteRecord                                              *)

\* Without private data, a write allocates for itself when nothing is allocated.
Write ==
  /\ Step("write")
  /\ IF LastHeader # ErasedUnit THEN Continue(<<"checks">>)
     ELSE IF Private THEN Return("failed")
     ELSE Continue(<<"refresh", "allocate", "checks">>)
  /\ UNCHANGED <<flash, pointers, Offset, buffers>>

\* SpareComplete or DestinationComplete in the record refuse the write.
Checks ==
  /\ Step("checks")
  /\ IF \/ HasCount(LastHeader) /\ rec > hdr + LastHeader.body
        \/ Complete \in LastHeader.flags
        \/ {SpareComplete, DestinationComplete} \cap LastRecord.flags # {}
     THEN Return("failed")
     ELSE Continue(WriteSteps \o FtwWriteRecord \o <<"eraseSpare", "restoreSpare">>)
  /\ UNCHANGED <<flash, pointers, Offset, buffers>>

\* The record is written; then the target and the spare block are read.
Record ==
  /\ Step("record")
  /\ ProgramUnit(rec, {}, args.ext)
  /\ Buffer' = [data |-> args.data, ws |-> Blank]
  /\ SpareBuffer' = spare
  /\ Continue(<<>>)
  /\ UNCHANGED <<spare, target, pointers, Offset>>

SetSpareComplete ==
  /\ Step("spareComplete")
  /\ ProgramUnit(rec, {SpareComplete}, Erased)
  /\ Continue(<<>>)
  /\ UNCHANGED <<spare, target, pointers, Offset, buffers>>

\* FlushSpareBlockToTargetBlock, after "readSpare".
EraseTarget ==
  /\ Step("eraseTarget")
  /\ target' = [target EXCEPT ![args.ext] = Torn]
  /\ Continue(<<>>)
  /\ UNCHANGED <<work, spare, pointers, Offset, buffers>>

WriteTarget ==
  /\ Step("writeTarget")
  /\ target' = [target EXCEPT ![args.ext] = Buffer.data]
  /\ Buffer' = ErasedBlock
  /\ Continue(<<>>)
  /\ UNCHANGED <<work, spare, pointers, Offset, SpareBuffer>>

DestComplete ==
  /\ Step("destComplete")
  /\ ProgramUnit(rec, {DestinationComplete}, Erased)
  /\ Continue(<<>>)
  /\ UNCHANGED <<spare, target, pointers, Offset, buffers>>

\* After the last record the whole sequence of writes is complete.
WritesComplete ==
  /\ Step("writesComplete")
  /\ IF IsLastRecordOfWrites(work.queue, hdr, rec)
     THEN ProgramUnit(hdr, {Complete}, Erased) ELSE UNCHANGED work
  /\ Continue(<<>>)
  /\ UNCHANGED <<spare, target, pointers, Offset, buffers>>

WriteStep ==
  \/ Allocate \/ AllocateHeader \/ AllocateWrites \/ Write \/ Checks \/ Record
  \/ SetSpareComplete \/ EraseTarget \/ WriteTarget \/ DestComplete \/ WritesComplete

-----------------------------------------------------------------------------
(* FtwRestart, FtwAbort and FtwGetLastWrite                                 *)

Restart ==
  /\ Step("restart")
  /\ IF \/ Complete \in LastHeader.flags \/ DestinationComplete \in LastRecord.flags
        \/ SpareComplete \notin LastRecord.flags
     THEN Return("failed")
     ELSE /\ todo' = FtwWriteRecord \o <<"eraseSpare">> \o Tail(todo)
          /\ args' = [args EXCEPT !.ext = LastRecord.body]
          /\ UNCHANGED <<reply, budgets>>
  /\ UNCHANGED <<flash, pointers, Offset, buffers>>

\* With nothing allocated or all complete there is nothing to abort.
Abort ==
  /\ Step("abort")
  /\ IF HeaderAllocated \in LastHeader.flags /\ Complete \notin LastHeader.flags
     THEN ProgramUnit(hdr, {Complete}, Erased) ELSE UNCHANGED work
  /\ Continue(<<>>)
  /\ UNCHANGED <<spare, target, pointers, Offset, buffers>>

\* All records are completed and the header is not.
OnlyHeaderLeft ==
  /\ Complete \notin LastHeader.flags
  /\ DestinationComplete \in LastRecord.flags
  /\ IsLastRecordOfWrites(work.queue, hdr, rec)

\* The first record has no data in the spare block: nothing can be restarted.
NothingToRestart ==
  /\ HeaderAllocated \in LastHeader.flags
  /\ SpareComplete \notin LastRecord.flags
  /\ IsFirstRecordOfWrites(hdr, rec)

GetLastWrite ==
  /\ Step("lastWrite")
  /\ Continue(IF OnlyHeaderLeft \/ NothingToRestart THEN FtwAbort ELSE <<>>)
  /\ UNCHANGED <<flash, pointers, Offset, buffers>>

ServiceStep == Restart \/ Abort \/ GetLastWrite

-----------------------------------------------------------------------------
(* InitFtwProtocol, the start of the driver after a reset                   *)

\* A work space that is not valid is replaced by the one in the spare block,
\* or made anew when that is not valid either.
BootValid ==
  /\ Step("bootValid")
  /\ IF IsValidWorkSpace(work) THEN Continue(<<>>) /\ UNCHANGED <<pointers, buffers>>
     ELSE IF IsValidWorkSpace(spare.ws)
     THEN Continue(FlushToWorkingBlock \o FtwAbort \o <<"refresh">>)
          /\ UNCHANGED <<pointers, buffers>>
     ELSE Reclaim(EmptyQueue, Header, <<>>)
  /\ UNCHANGED <<flash, Offset>>

BootFirst ==
  /\ Step("bootFirst")
  /\ Continue(IF NothingToRestart THEN FtwAbort ELSE <<>>)
  /\ UNCHANGED <<flash, pointers, Offset, buffers>>

BootLast ==
  /\ Step("bootLast")
  /\ Continue(IF OnlyHeaderLeft THEN FtwAbort ELSE <<>>)
  /\ UNCHANGED <<flash, pointers, Offset, buffers>>

\* Mutant of BootTail: what follows the last header is not looked at.
TailUnchecked ==
  /\ Step("bootTail")
  /\ Continue(<<>>)
  /\ UNCHANGED <<flash, pointers, Offset, buffers>>

BootTail ==
  /\ Step("bootTail")
  /\ IF TailIsErased(work.queue, hdr)
     THEN Continue(<<>>) /\ UNCHANGED <<pointers, buffers>>
     ELSE Reclaim(Preserved(work.queue), work, <<>>)
  /\ UNCHANGED <<flash, Offset>>

\* Mutant of BootRestart: the interrupted write is aborted only.
AbortOnly ==
  /\ Step("bootRestart")
  /\ Continue(FtwAbort)
  /\ UNCHANGED <<flash, pointers, Offset, buffers>>

\* GetFvbByAddress finds the block when the record names one.
BootRestart ==
  /\ Step("bootRestart")
  /\ Continue(
       IF Complete \in LastHeader.flags \/ SpareComplete \notin LastRecord.flags THEN <<>>
       ELSE IF LastRecord.body \in Extent THEN <<"refresh", "restart">> \o FtwAbort
       ELSE FtwAbort)
  /\ UNCHANGED <<flash, pointers, Offset, buffers>>

BootStep == BootValid \/ BootFirst \/ BootLast \/ BootTail \/ BootRestart

-----------------------------------------------------------------------------
(* Clients, errors and power failures                                       *)

\* The record in progress in the flash, when the driver would take it from there.
InProgress ==
  IF IsValidWorkSpace(work) /\ HasRoom(work.queue)
  THEN work.queue[GetLastWriteRecord(work.queue, GetLastWriteHeader(work.queue).at)]
  ELSE ErasedUnit

\* The data of the write in progress is in the spare block, its target may be torn.
Pending ==
  /\ SpareComplete \in InProgress.flags
  /\ DestinationComplete \notin InProgress.flags

Service(op) ==
  CASE op = "abort" -> FtwAbort
    [] OTHER -> <<"refresh", op>>

\* Clients do not abort a write that could be restarted.
Invoke ==
  /\ todo = <<>> /\ calls > 0
  /\ \E op \in Ops, x \in Extent, d \in Data, n \in 1..MaxWrites :
       /\ op # "write" => x = CHOOSE e \in Extent : TRUE
       /\ op # "write" => d = Factory
       /\ op # "allocate" => n = 1
       /\ op = "write" /\ RetrySame => InProgress.body \in {Erased, x}
       /\ op = "abort" => ~Pending
       /\ op = "restart" => ~Pending \/ InProgress.body \in Extent
       /\ args' = [op |-> op, ext |-> x, data |-> d, n |-> n]
       /\ todo' = Service(op)
  /\ reply' = "none"
  /\ calls' = calls - 1
  /\ UNCHANGED <<flash, pointers, Offset, buffers, faults, powerCuts>>

\* An access to the flash or an allocation fails and with it the service.
Fault ==
  /\ todo # <<>> /\ args.op # "boot" /\ faults > 0
  /\ todo' = <<>> /\ reply' = "failed"
  /\ Buffer' = ErasedBlock /\ SpareBuffer' = ErasedBlock
  /\ faults' = faults - 1
  /\ UNCHANGED <<flash, pointers, Offset, args, calls, powerCuts>>

\* What a power failure can leave of the work space: an erase has reached a part
\* of the queue; a header has its first byte, and perhaps others before the count.
Remains ==
  IF Step("eraseWork")
  THEN {work} \cup
       {[Blank EXCEPT !.queue = [p \in Position |-> IF p \in kept THEN work.queue[p]
                                                    ELSE ErasedUnit]] :
          kept \in SUBSET Position}
  ELSE IF Step("allocateHeader")
  THEN {work} \cup
       {[work EXCEPT !.queue[Offset].flags = @ \cup {HeaderAllocated},
                     !.queue[Offset + 1] = Program(@, [flags |-> {}, body |-> rest])] :
          rest \in {Erased, Garbled}}
  ELSE {work}

PowerCut ==
  /\ powerCuts > 0
  /\ work' \in Remains
  /\ FtwLastWriteHeader' = 1 /\ FtwLastWriteRecord' = 2 /\ Offset' = 1
  /\ Buffer' = ErasedBlock /\ SpareBuffer' = ErasedBlock
  /\ todo' = InitFtwProtocol /\ args' = BootCall /\ reply' = "none"
  /\ powerCuts' = powerCuts - 1
  /\ UNCHANGED <<spare, target, calls, faults>>

Init ==
  /\ work = Blank /\ spare = ErasedBlock
  /\ target = [x \in Extent |-> Factory]
  /\ FtwLastWriteHeader = 1 /\ FtwLastWriteRecord = 2 /\ Offset = 1
  /\ Buffer = ErasedBlock /\ SpareBuffer = ErasedBlock
  /\ todo = InitFtwProtocol /\ args = BootCall /\ reply = "none"
  /\ calls = MaxCalls /\ faults = MaxFaults /\ powerCuts = MaxPowerCuts

DriverStep == ReclaimStep \/ WriteStep \/ ServiceStep \/ BootStep

Next == DriverStep \/ Invoke \/ Fault \/ PowerCut

Spec == Init /\ [][Next]_vars
\* The driver runs to the end of a service; calls and failures may never come.
FairSpec == Spec /\ WF_vars(DriverStep)
=============================================================================
