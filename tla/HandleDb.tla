------------------------------ MODULE HandleDb ------------------------------
(***************************************************************************)
(* The handle and protocol database (MdeModulePkg/Core/Dxe/Hand): what     *)
(* each section under gProtocolDatabaseLock does to it, as functions from  *)
(* the database to the database, and the two disk drivers of               *)
(* MdeModulePkg/Universal/Disk as users of it.  A PROTOCOL_INTERFACE is    *)
(* named by its handle and its GUID.                                       *)
(***************************************************************************)
EXTENDS Integers, SequencesExt

CONSTANTS
  Handle,        \* the device handles
  Partitions,    \* [Handle -> SUBSET Handle]: those in the MBR of a disk
  PathLength,    \* [Handle -> Nat]: the nodes of a handle's device path
  NoHandle,      \* no handle
  Registration,  \* the PROTOCOL_NOTIFY records
  RegGuid,       \* [Registration -> Guid]: the protocol of each
  ListHead       \* a Position at the list head: nothing located yet

BlockIo == "BlockIo"
DiskIo  == "DiskIo"
Guid    == {BlockIo, DiskIo}

DiskIoDxe    == "DiskIoDxe"
PartitionDxe == "PartitionDxe"
Driver       == {DiskIoDxe, PartitionDxe}
App          == "App"

ASSUME HandleAssumption ==
  /\ Partitions \in [Handle -> SUBSET Handle]
  /\ RegGuid \in [Registration -> Guid]
  /\ NoHandle \notin Handle /\ ListHead \notin Handle

\* A partition's device path is its disk's and one node more, which numbers it.
ASSUME PartitionAssumption ==
  /\ PathLength \in [Handle -> Nat]
  /\ \A h \in Handle :
       /\ IsFiniteSet(Partitions[h])
       /\ \A p \in Partitions[h] : PathLength[p] = PathLength[h] + 1
       /\ \A k \in Handle : k # h => Partitions[h] \cap Partitions[k] = {}

\* OPEN_PROTOCOL_DATA; the attributes that matter: BY_DRIVER, BY_CHILD_CONTROLLER,
\* EXCLUSIVE and GET_PROTOCOL.
OpenData ==
  [agent : Driver \cup {App}, controller : Handle \cup {NoHandle},
   attr : {"driver", "child", "exclusive", "get"}]

\* list: PROTOCOL_ENTRY.Protocols of each GUID.  open: the OpenList of each interface.
\* position: PROTOCOL_NOTIFY.Position.  signalled: whose event is signalled.
Database ==
  [list : [Guid -> Seq(Handle)], open : [Handle \X Guid -> SUBSET OpenData],
   position : [Registration -> Handle \cup {ListHead}], signalled : SUBSET Registration]

EmptyDatabase ==
  [list |-> [g \in Guid |-> <<>>], open |-> [i \in Handle \X Guid |-> {}],
   position |-> [r \in Registration |-> ListHead], signalled |-> {}]

\* CoreGetProtocolInterface finds an interface.
Live(d, h, g) == Contains(d.list[g], h)

-----------------------------------------------------------------------------
(* Installing, removing and locating interfaces.                            *)

\* Where an interface is in the list, the list head before all.
Place(s, p) == IF p = ListHead THEN 0 ELSE CHOOSE i \in DOMAIN s : s[i] = p

\* RemoveEntryList; nothing if the interface is not there.
RemoveEntry(s, h) == IF Contains(s, h) THEN RemoveAt(s, Place(s, h)) ELSE s

\* Mutant of BackLink: removing the located entry starts the list again.
AtHead(s, h) == ListHead

\* ByProtocol.BackLink, and all that come ForwardLink.
BackLink(s, h) == IF Place(s, h) = 1 THEN ListHead ELSE s[Place(s, h) - 1]
After(s, p) == SubSeq(s, Place(s, p) + 1, Len(s))

\* Mutant of CoreNotifyProtocolEntry: a registration that is behind is not signalled.
NotifyUpToDate(d, g) ==
  LET upToDate == BackLink(d.list[g], Last(d.list[g]))
  IN  [d EXCEPT !.signalled =
         @ \cup {r \in Registration : RegGuid[r] = g /\ d.position[r] = upToDate}]

CoreNotifyProtocolEntry(d, g) ==
  [d EXCEPT !.signalled = @ \cup {r \in Registration : RegGuid[r] = g}]

InsertTail(d, h, g) == [d EXCEPT !.list[g] = Append(@, h)]

Install(d, h, g) == CoreNotifyProtocolEntry(InsertTail(d, h, g), g)

\* Mutant of CoreRemoveInterfaceFromProtocol: positions stay on the removed entry.
KeepPosition(d, h, g) == [d EXCEPT !.list[g] = RemoveEntry(@, h)]

\* A notify position that points to the removed entry backs up one.
CoreRemoveInterfaceFromProtocol(d, h, g) ==
  [d EXCEPT
     !.list[g] = RemoveEntry(@, h),
     !.position = [r \in Registration |->
       IF RegGuid[r] = g /\ @[r] = h THEN BackLink(d.list[g], h) ELSE @[r]]]

\* CoreLocateHandle (ByRegisterNotify): what it would still return, in order.
Pending(d, r) == After(d.list[RegGuid[r]], d.position[r])
LocateNext(d, r) == [d EXCEPT !.position[r] = Pending(d, r)[1]]

-----------------------------------------------------------------------------
(* Opening and closing interfaces.                                          *)

Opened(agent, controller, attr) ==
  [agent |-> agent, controller |-> controller, attr |-> attr]
With(d, h, g, attr) == {i \in d.open[<<h, g>>] : i.attr = attr}

\* CoreOpenProtocol where no other opening denies it.
Add(d, h, g, item) == IF Live(d, h, g) THEN [d EXCEPT !.open[<<h, g>>] = @ \cup {item}] ELSE d
CoreCloseProtocol(d, h, g, agent, controller) ==
  [d EXCEPT !.open[<<h, g>>] = {i \in @ : i.agent # agent \/ i.controller # controller}]
RemoveGets(d, h, g) == [d EXCEPT !.open[<<h, g>>] = {i \in @ : i.attr # "get"}]

\* BY_DRIVER is denied beside another driver and beside an exclusive opening.
Manages(d, driver, h, g) == Opened(driver, h, "driver") \in d.open[<<h, g>>]
CanManage(d, h, g) ==
  Live(d, h, g) /\ With(d, h, g, "driver") = {} /\ With(d, h, g, "exclusive") = {}

\* The drivers that manage a controller, and their children on it.
Managing(d, h) == {i.agent : i \in UNION {With(d, h, g, "driver") : g \in Guid}}
ChildrenOf(d, h, agents) ==
  {i.controller : i \in {i \in UNION {With(d, h, g, "child") : g \in Guid} : i.agent \in agents}}

-----------------------------------------------------------------------------
(* The disk drivers: DiskIoDxe makes Disk I/O from Block I/O on the same    *)
(* handle, PartitionDxe the Block I/O of a partition's handle from it.      *)

Supported(d, driver, h) ==
  IF driver = DiskIoDxe THEN CanManage(d, h, BlockIo)
  ELSE \/ Manages(d, PartitionDxe, h, DiskIo)          \* EFI_ALREADY_STARTED
       \/ CanManage(d, h, DiskIo) /\ Live(d, h, BlockIo)

\* The partitions whose device path is not in the database yet.
NewPartitions(d, h) == {p \in Partitions[h] : ~Live(d, p, BlockIo)}

\* PartitionInstallChildHandle of each: install its Block I/O, open Disk I/O for it.
InstallChildren(d, h, new) ==
  CoreNotifyProtocolEntry(
    [d EXCEPT !.list[BlockIo] = @ \o SetToSeq(new),
              !.open[<<h, DiskIo>>] = @ \cup {Opened(PartitionDxe, p, "child") : p \in new}],
    BlockIo)

\* The drivers' Start, at TPL_CALLBACK, which tries the openings of Supported again.
StartDiskIo(d, h) ==
  IF CanManage(d, h, BlockIo) /\ ~Live(d, h, DiskIo)
  THEN Install(Add(d, h, BlockIo, Opened(DiskIoDxe, h, "driver")), h, DiskIo) ELSE d

\* Disk I/O is closed again if it was opened and no partition is installed.
StartPartition(d, h) ==
  LET looked == Add(d, h, BlockIo, Opened(PartitionDxe, h, "get"))
      opened == Add(looked, h, DiskIo, Opened(PartitionDxe, h, "driver"))
  IN  IF ~Supported(d, PartitionDxe, h) \/ NewPartitions(d, h) = {} THEN looked
      ELSE InstallChildren(opened, h, NewPartitions(d, h))

Start(d, driver, h) ==
  IF driver = DiskIoDxe THEN StartDiskIo(d, h) ELSE StartPartition(d, h)
=============================================================================
