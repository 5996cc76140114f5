---------------------------- MODULE FtwWorkSpace ----------------------------
(***************************************************************************)
(* The work space of the fault tolerant write driver                       *)
(* (MdeModulePkg/Universal/FaultTolerantWriteDxe): a header and a queue of *)
(* write headers, each followed by its write records.                      *)
(*                                                                         *)
(* The queue is counted in units: a write header and a write record are    *)
(* forty bytes each.  A unit is a byte of flags and a body.  The same      *)
(* three bits of the first byte serve headers and records.                 *)
(***************************************************************************)
EXTENDS Integers, FiniteSetsExt

CONSTANTS
  QueueSize,   \* WriteQueueSize, in units
  MaxWrites,   \* the largest NumberOfWrites clients ask for
  Extent,      \* the blocks that clients write: Lba, Offset and Length
  Erased,      \* all bits as EraseBlocks leaves them
  Garbled      \* bits of two values, or of a part of one

ASSUME QueueAssumption ==
  /\ QueueSize \in Nat /\ QueueSize >= 2
  /\ MaxWrites \in Nat \ {0}
  /\ {Erased, Garbled} \cap (Extent \cup 1..MaxWrites) = {} /\ Erased # Garbled

Position == 1..QueueSize
Beyond   == QueueSize + 1

\* Bits 0, 1 and 2 of the first byte of EFI_FAULT_TOLERANT_WRITE_HEADER ...
HeaderAllocated == 0
WritesAllocated == 1
Complete        == 2
\* ... and of EFI_FAULT_TOLERANT_WRITE_RECORD.  Bit 0 is BootBlockUpdate.
SpareComplete       == 1
DestinationComplete == 2

Unit  == [flags : SUBSET (0..2), body : 1..MaxWrites \cup Extent \cup {Erased, Garbled}]
Queue == [Position -> Unit]
Image == [written : BOOLEAN, valid : BOOLEAN, invalid : BOOLEAN, queue : Queue]

ErasedUnit == [flags |-> {}, body |-> Erased]
EmptyQueue == [p \in Position |-> ErasedUnit]
\* A working block without signature, Crc and size, and one that has them.
Blank  == [written |-> FALSE, valid |-> FALSE, invalid |-> FALSE, queue |-> EmptyQueue]
Header == [Blank EXCEPT !.written = TRUE]

\* The header equals mWorkingBlockHeader: complete, valid and not invalid.
IsValidWorkSpace(w) == w.written /\ w.valid /\ ~w.invalid

\* Fvb->Write on sticky flash: it clears bits and sets none.
Program(old, new) ==
  [flags |-> old.flags \cup new.flags,
   body  |-> IF old.body \in {Erased, new.body} THEN new.body
             ELSE IF new.body = Erased THEN old.body ELSE Garbled]

-----------------------------------------------------------------------------
(* NumberOfWrites is all ones in an erased header and in one whose write   *)
(* was cut short.  The size computed from it wraps to one byte; it is one  *)
(* unit here, and the other bytes of that header lie in the unit behind.   *)

HasCount(h)        == h.body \in 1..MaxWrites
NumberOfWrites(h)  == IF HasCount(h) THEN h.body ELSE QueueSize
\* Mutant of WriteTotalSize: the write header itself is forgotten.
RecordsOnly(h)     == IF HasCount(h) THEN h.body ELSE 1
WriteTotalSize(h)  == 1 + IF HasCount(h) THEN h.body ELSE 0

\* FtwGetLastWriteHeader: the first header that is not complete.  full says
\* that there is none, and at is then the last complete one.
GetLastWriteHeader(queue) ==
  LET from[p \in Position] ==
        LET next == p + WriteTotalSize(queue[p])
        IN  IF Complete \notin queue[p].flags THEN [at |-> p, full |-> FALSE]
            ELSE IF next > QueueSize THEN [at |-> p, full |-> TRUE]
            ELSE from[next]
  IN  from[1]

\* WorkSpaceRefresh's test: a last header that has room for a record after it.
HasRoom(queue) ==
  LET last == GetLastWriteHeader(queue)
  IN  ~last.full /\ last.at + 1 <= QueueSize

\* Mutant of GetLastWriteRecord: the one after the last when all are completed.
PastLastRecord(queue, h) ==
  LET n    == NumberOfWrites(queue[h])
      open == {r \in (h + 1)..(h + n) \cap Position :
                 DestinationComplete \notin queue[r].flags}
  IN  IF open # {} THEN Min(open) ELSE IF HasCount(queue[h]) THEN h + n + 1 ELSE Beyond

\* FtwGetLastWriteRecord: the first record of header h that is not completed,
\* else its last record.  Without a count the search runs out of the queue, which
\* only happens in the remains of an interrupted erase.
GetLastWriteRecord(queue, h) ==
  LET n    == NumberOfWrites(queue[h])
      open == {r \in (h + 1)..(h + n) \cap Position :
                 DestinationComplete \notin queue[r].flags}
  IN  IF open # {} THEN Min(open) ELSE IF HasCount(queue[h]) THEN h + n ELSE Beyond

IsFirstRecordOfWrites(h, r)       == r = h + 1
IsLastRecordOfWrites(queue, h, r) == HasCount(queue[h]) /\ r = h + queue[h].body

\* The queue FtwReclaimWorkSpace keeps: the header and the records of the
\* writes that are allocated and not complete.
Preserved(queue) ==
  LET last == GetLastWriteHeader(queue)
      h    == queue[last.at]
  IN  [p \in Position |->
        IF /\ ~last.full /\ HeaderAllocated \in h.flags
           /\ p <= WriteTotalSize(h) /\ last.at + p - 1 <= QueueSize
        THEN queue[last.at + p - 1] ELSE ErasedUnit]

\* InitFtwProtocol's test of the queue behind the last header and its records.
TailIsErased(queue, h) ==
  LET next == IF queue[h].flags = {} THEN h ELSE h + WriteTotalSize(queue[h])
  IN  \A p \in Position : p >= next => queue[p] = ErasedUnit
=============================================================================
