----------------------------- MODULE HandleProps -----------------------------
(* What the handle database, its notifications and the disk drivers promise. *)
EXTENDS HandleServices

Frames ==
  [pc : {"uninstall", "reinstall", "exclusive", "connect", "start", "disconnectAll",
         "disconnect", "childrenStopped", "stopped", "stopDiskIo", "stopDiskIoEnd", "stopBus",
         "stopChildren", "childStopped", "refused", "reconnected", "callback", "locate"},
   handle : Handle \cup {NoHandle}, guid : Guid,
   left : SUBSET (Driver \cup Handle \cup Registration),
   who : Driver \cup {App} \cup Handle, ok : BOOLEAN, done : BOOLEAN]

\* No PROTOCOL_NOTIFY points to an interface that was removed, only an interface in
\* the database has openings, and the interface that an uninstall, a reinstall or an
\* exclusive opening looked up (Prot, UserProtocol) before it released the lock is
\* still in the database when it takes the lock again and goes on with the pointer.
HdbTypeOK ==
  /\ db \in Database
  /\ \A i \in DOMAIN stack : stack[i] \in Frames
  /\ calls \in 0..MaxCalls /\ interrupts \in 0..MaxInterrupts
  /\ \A r \in Registration : db.position[r] \in Range(db.list[RegGuid[r]]) \cup {ListHead}
  /\ \A h \in Handle, g \in Guid : ~Live(db, h, g) => db.open[<<h, g>>] = {}
  /\ \A i \in DOMAIN stack :
       stack[i].pc \in {"uninstall", "reinstall", "exclusive"} /\ stack[i].done
         => Live(db, stack[i].handle, stack[i].guid)

\* What comes after PROTOCOL_NOTIFY.Position in the list of the protocol is the queue
\* of the registration: whatever is installed, reinstalled and removed while a
\* notification function locates, each arrival is given once, in order, and no
\* removed interface is given.
Queues == INSTANCE NotifyQueues WITH
  installed <- [g \in Guid |-> Range(db.list[g])],
  queue <- [r \in Registration |-> Pending(db, r)]

ImplementsNotifyQueues == Queues!Spec

\* When the processor is back at TPL_APPLICATION and no notification is signalled,
\* every registered function has been given every interface: an install or reinstall
\* in the middle of a service, a connection or another notification signals again.
NothingMissed ==
  stack = <<>> /\ db.signalled = {} => \A r \in Registration : Pending(db, r) = <<>>

\* An interface is open for one driver or for one exclusive user, though CoreOpenProtocol
\* and CoreDisconnectControllersUsingProtocolInterface release the lock while drivers
\* are stopped and the functions that run there connect drivers again.
OneManager ==
  \A h \in Handle, g \in Guid :
    Cardinality(With(db, h, g, "driver") \cup With(db, h, g, "exclusive")) <= 1

\* Undisturbed: no timer function has run in the middle of a service.
Undisturbed == interrupts = MaxInterrupts

\* No layer outlives the one below it: Disk I/O is there only while DiskIoDxe holds
\* Block I/O, and a partition's Block I/O only with its disk's Disk I/O.  Between two
\* calls, if no timer function has connected in the middle of a service, PartitionDxe
\* also holds that Disk I/O, for itself and for the partition.
LayersStand ==
  \A h \in Handle :
    /\ Live(db, h, DiskIo) => Manages(db, DiskIoDxe, h, BlockIo)
    /\ \A p \in Partitions[h] : Live(db, p, BlockIo) =>
         /\ Live(db, h, DiskIo)
         /\ stack = <<>> /\ Undisturbed =>
              /\ Manages(db, PartitionDxe, h, DiskIo)
              /\ Opened(PartitionDxe, p, "child") \in db.open[<<h, DiskIo>>]

Used(h, g, driver) ==
  Live(db, h, g) => Manages(db, driver, h, g) \/ With(db, h, g, "exclusive") # {}

\* An uninstall or reinstall that fails leaves the interface as usable as it was: the
\* drivers it had stopped are connected again, all the way up to the partitions
\* (Handle.c: "reconnect all the drivers and return an error"), if no timer function
\* has connected in the middle of a service.
RefusedIsReconnected ==
  At("refused") /\ Undisturbed =>
    /\ Used(Top.handle, BlockIo, DiskIoDxe)
    /\ Used(Top.handle, DiskIo, PartitionDxe) \/ Partitions[Top.handle] = {}
    /\ Manages(db, PartitionDxe, Top.handle, DiskIo) => NewPartitions(db, Top.handle) = {}

\* Every service returns: the loop that disconnects users until there is none ends,
\* and so does the recursion between disconnecting, Stop, uninstalling and connecting.
CallsReturn == stack # <<>> ~> stack = <<>>
=============================================================================
