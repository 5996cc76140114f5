---------------------------- MODULE FtwRecovery -----------------------------
(***************************************************************************)
(* What the fault tolerant write driver promises its clients, as           *)
(* properties of Ftw!Spec.                                                 *)
(***************************************************************************)
EXTENDS Ftw

CONSTANT NoWrite

ASSUME RecoveryAssumption == NoWrite \notin [ext : Extent, data : Data]

StepName ==
  {"refresh", "reread", "spareValid", "readSpare", "workInvalid", "eraseWork",
   "writeWork", "workValid", "eraseSpare", "writeSpare", "restoreSpare", "allocate",
   "allocateHeader", "allocateWrites", "write", "checks", "record", "spareComplete",
   "eraseTarget", "writeTarget", "destComplete", "writesComplete", "restart", "abort",
   "lastWrite", "bootValid", "bootFirst", "bootLast", "bootTail", "bootRestart"}

\* The steps that read or write through FtwLastWriteRecord.
RecordStep ==
  {"checks", "record", "spareComplete", "destComplete", "restart", "lastWrite",
   "bootFirst", "bootLast", "bootRestart"}

\* Every variable keeps its type, and no pointer is used outside the work space:
\* FtwGetLastWriteRecord may run out of the remains of an interrupted erase, but
\* the driver takes another work space before it follows that pointer.
FtwTypeOK ==
  /\ work \in Image /\ spare \in Block
  /\ target \in [Extent -> Data \cup {Torn}]
  /\ FtwLastWriteHeader \in Position /\ FtwLastWriteRecord \in Position \cup {Beyond}
  /\ todo # <<>> /\ Head(todo) \in RecordStep => FtwLastWriteRecord \in Position
  /\ Offset \in Position
  /\ Buffer \in Block /\ SpareBuffer \in Block
  /\ todo \in Seq(StepName)
  /\ args \in Call
  /\ reply \in {"none", "success", "failed"}
  /\ calls \in Nat /\ faults \in Nat /\ powerCuts \in Nat

-----------------------------------------------------------------------------
\* The contents of each block that the flash still determines: those of the
\* spare block for the write that InitFtwProtocol would restart.
Available ==
  IF Pending /\ InProgress.body \in Extent
  THEN [target EXCEPT ![InProgress.body] = spare.data]
  ELSE target

Writing == args.op = "write" /\ todo # <<>>
NotYet  == {"write", "checks", "spareComplete"}

Store == INSTANCE AtomicStore WITH
  content   <- Available,
  request   <- IF Writing THEN [ext |-> args.ext, data |-> args.data] ELSE NoWrite,
  committed <- Writing /\ \A i \in DOMAIN todo : todo[i] \notin NotYet

\* FtwWrite's comment, "ensuring at all times that either the original contents
\* or the modified contents are available": whatever the power does, a write is
\* one atomic change of the available contents, and success means it happened.
ImplementsAtomicStore == Store!Spec

\* The same comment, for errors: no block is ever without contents.
ContentsAvailable == \A x \in Extent : Available[x] # Torn

\* When no error occurred, the driver leaves every service, and every start after
\* a power failure, with a valid work space, no write that needs the spare block
\* and every block whole (InitFtwProtocol, FtwWriteRecord).
IdleIsSettled ==
  todo = <<>> => /\ IsValidWorkSpace(work) /\ ~Pending
                 /\ \A x \in Extent : target[x] # Torn

\* Sticky flash wants a range erased before it is written: FtwAllocate programs
\* a header, and FtwWrite a record, only over erased units or, for a write that
\* is repeated, over the same value; and no record lacks an allocated header.
ProgramsErased ==
  /\ Step("allocateHeader") => work.queue[Offset] = ErasedUnit
  /\ Step("record") => /\ HeaderAllocated \in LastHeader.flags
                       /\ LastRecord.flags = {} /\ LastRecord.body \in {Erased, args.ext}

\* What FtwAllocate reports as allocated is what the next service finds: the
\* header it wrote is the last one, with all its records free.
AllocatedIsFound ==
  todo = <<>> /\ args.op = "allocate" /\ reply = "success" =>
    LET last == GetLastWriteHeader(work.queue)
    IN  /\ ~last.full
        /\ work.queue[last.at].flags = {HeaderAllocated, WritesAllocated}
        /\ work.queue[last.at].body = args.n
        /\ \A r \in (last.at + 1)..(last.at + args.n) :
             r \in Position /\ work.queue[r] = ErasedUnit

\* A block left half written by a power failure is repaired by the driver itself.
TornIsRepaired ==
  \A x \in Extent : target[x] = Torn ~> target[x] # Torn
=============================================================================
