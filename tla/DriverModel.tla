----------------------------- MODULE DriverModel -----------------------------
(***************************************************************************)
(* The services of the handle database as they call each other: uninstall, *)
(* reinstall and exclusive opening disconnect drivers, whose Stop          *)
(* uninstalls what they had installed, and reconnect them when they fail.  *)
(*                                                                         *)
(* One processor and one call stack: "stack" has a frame for each function *)
(* in progress, the running one last.  A step is one section under         *)
(* gProtocolDatabaseLock (TPL_NOTIFY) or a driver's Start (TPL_CALLBACK);  *)
(* wherever the level falls below TPL_CALLBACK between two of them, the    *)
(* signalled notifications and timers run their functions and may call the *)
(* same services.                                                          *)
(***************************************************************************)
EXTENDS HandleDb

CONSTANTS
  Disk,             \* the handle on which a device driver installs Block I/O
  CallbackConnects, \* what a function that interrupts a service connects
  MaxCalls,         \* bound: service calls of the device driver and applications
  MaxInterrupts     \* bound: timer functions that call ConnectController

ASSUME DriverModelAssumption ==
  /\ Disk \in Handle /\ \A h \in Handle : Disk \notin Partitions[h]
  /\ CallbackConnects \subseteq Handle
  /\ MaxCalls \in Nat /\ MaxInterrupts \in Nat

VARIABLES
  db,          \* the database
  stack,       \* the call stack
  calls,       \* left of MaxCalls
  interrupts   \* left of MaxInterrupts

bounds == <<calls, interrupts>>
vars   == <<db, stack, bounds>>

\* pc: where the function goes on.  left: what its loop has still to visit.  who: the
\* driver or child it is at.  ok: the status its callee returned.  done: the flag its
\* loop sets, StopCount > 0 or a child that was not stopped.
Frame(pc, h, g, left, who) ==
  [pc |-> pc, handle |-> h, guid |-> g, left |-> left, who |-> who,
   ok |-> TRUE, done |-> FALSE]

Uninstall(h, g)       == Frame("uninstall", h, g, {}, App)
Reinstall(h, g)       == Frame("reinstall", h, g, {}, App)
OpenExclusive(h, g)   == Frame("exclusive", h, g, {}, App)
Connect(h)            == Frame("connect", h, BlockIo, Driver, App)
DisconnectAll(h)      == Frame("disconnectAll", h, BlockIo, {}, App)
Disconnect(h, agents) == Frame("disconnect", h, BlockIo, agents, App)
Stop(driver, h, kids) ==
  Frame(IF driver = DiskIoDxe THEN "stopDiskIo"
        ELSE IF kids = {} THEN "stopBus" ELSE "stopChildren", h, DiskIo, kids, App)
Callback  == Frame("callback", NoHandle, BlockIo, {}, App)
Locate(r) == Frame("locate", NoHandle, RegGuid[r], {r}, App)

Top     == stack[Len(stack)]
Callers == Front(stack)
At(pc)  == stack # <<>> /\ Top.pc = pc

Push(frame, callee) == stack' = Callers \o <<frame, callee>>
Goto(frame)         == stack' = Append(Callers, frame)
Return(ok) ==
  stack' = IF Callers = <<>> THEN <<>>
           ELSE [Callers EXCEPT ![Len(Callers)].ok = ok]

\* Functions at TPL_CALLBACK can run: none is running already.
CanInterrupt == \A i \in DOMAIN stack : stack[i].pc \notin {"callback", "locate"}
\* A release of the lock runs them first.
Running == (CanInterrupt => db.signalled = {}) /\ UNCHANGED bounds

-----------------------------------------------------------------------------
(* CoreConnectController, recursive, for all drivers.                       *)

\* A driver whose Supported succeeds is not asked again.
ConnectSupported ==
  /\ At("connect") /\ Running
  /\ \E driver \in Top.left :
       /\ Supported(db, driver, Top.handle)
       /\ Goto([Top EXCEPT !.pc = "start", !.left = @ \ {driver}, !.who = driver])
  /\ UNCHANGED db

ConnectStart ==
  /\ At("start") /\ Running
  /\ db' = Start(db, Top.who, Top.handle)
  /\ Goto([Top EXCEPT !.pc = "connect"])

\* No driver is left: connect the children.
ConnectChildren ==
  /\ At("connect") /\ Running
  /\ ~ \E driver \in Top.left : Supported(db, driver, Top.handle)
  /\ LET kids == SetToSeq(ChildrenOf(db, Top.handle, Driver))
     IN  IF kids = <<>> THEN Return(TRUE)
         ELSE stack' = Callers \o [i \in DOMAIN kids |-> Connect(kids[i])]
  /\ UNCHANGED db

-----------------------------------------------------------------------------
(* CoreDisconnectController.                                                *)

\* DriverImageHandle = NULL: all drivers that manage the controller.
DisconnectCollect ==
  /\ At("disconnectAll") /\ Running
  /\ LET agents == Managing(db, Top.handle)
     IN  IF agents = {} THEN Return(TRUE) ELSE Goto(Disconnect(Top.handle, agents))
  /\ UNCHANGED db

\* First the driver's children are stopped, then the driver.
DisconnectNext ==
  /\ At("disconnect") /\ Running
  /\ \E driver \in Top.left :
       LET kids == ChildrenOf(db, Top.handle, {driver})
           next == [Top EXCEPT !.left = @ \ {driver}, !.who = driver]
       IN  IF driver \notin Managing(db, Top.handle) THEN Goto(next)
           ELSE Push([next EXCEPT !.pc = IF kids = {} THEN "stopped" ELSE "childrenStopped"],
                     Stop(driver, Top.handle, kids))
  /\ UNCHANGED db

DisconnectChildrenStopped ==
  /\ At("childrenStopped") /\ Running
  /\ IF Top.ok THEN Push([Top EXCEPT !.pc = "stopped"], Stop(Top.who, Top.handle, {}))
     ELSE Goto([Top EXCEPT !.pc = "disconnect"])
  /\ UNCHANGED db

DisconnectStopped ==
  /\ At("stopped") /\ Running
  /\ Goto([Top EXCEPT !.pc = "disconnect", !.done = @ \/ Top.ok])
  /\ UNCHANGED db

\* EFI_NOT_FOUND if no driver was stopped.
DisconnectReturn ==
  /\ At("disconnect") /\ Running /\ Top.left = {}
  /\ Return(Top.done)
  /\ UNCHANGED db

-----------------------------------------------------------------------------
(* The drivers' Stop.                                                       *)

StopDiskIo ==
  /\ At("stopDiskIo") /\ Running
  /\ IF Live(db, Top.handle, DiskIo)
     THEN Push([Top EXCEPT !.pc = "stopDiskIoEnd"], Uninstall(Top.handle, DiskIo))
     ELSE Return(FALSE)
  /\ db' = Add(db, Top.handle, DiskIo, Opened(DiskIoDxe, Top.handle, "get"))

\* Mutant of StopDiskIoEnd: Block I/O is closed whatever the uninstall returned.
CloseAnyway ==
  /\ At("stopDiskIoEnd") /\ Running
  /\ db' = CoreCloseProtocol(db, Top.handle, BlockIo, DiskIoDxe, Top.handle)
  /\ Return(Top.ok)

StopDiskIoEnd ==
  /\ At("stopDiskIoEnd") /\ Running
  /\ db' = IF Top.ok THEN CoreCloseProtocol(db, Top.handle, BlockIo, DiskIoDxe, Top.handle) ELSE db
  /\ Return(Top.ok)

\* Mutant of StopBus: Disk I/O is not closed.
KeepBus ==
  /\ At("stopBus") /\ Running
  /\ Return(TRUE)
  /\ UNCHANGED db

StopBus ==
  /\ At("stopBus") /\ Running
  /\ db' = CoreCloseProtocol(db, Top.handle, DiskIo, PartitionDxe, Top.handle)
  /\ Return(TRUE)

\* The child's Block I/O is looked up, then the parent is closed for it.
StopChild ==
  /\ At("stopChildren") /\ Running
  /\ \E c \in Top.left :
       /\ Push([Top EXCEPT !.pc = "childStopped", !.left = @ \ {c}, !.who = c],
               Uninstall(c, BlockIo))
       /\ db' = CoreCloseProtocol(
                  Add(db, c, BlockIo, Opened(PartitionDxe, Top.handle, "get")),
                  Top.handle, DiskIo, PartitionDxe, c)

\* A child that cannot be removed is opened for again.
ChildStopped ==
  /\ At("childStopped") /\ Running
  /\ db' = IF Top.ok THEN db
           ELSE Add(db, Top.handle, DiskIo, Opened(PartitionDxe, Top.who, "child"))
  /\ Goto([Top EXCEPT !.pc = "stopChildren", !.done = @ \/ ~Top.ok])

StopChildrenReturn ==
  /\ At("stopChildren") /\ Running /\ Top.left = {}
  /\ Return(~Top.done)
  /\ UNCHANGED db
=============================================================================
