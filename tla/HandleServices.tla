--------------------------- MODULE HandleServices ----------------------------
(***************************************************************************)
(* Uninstalling, reinstalling and opening an interface exclusively over    *)
(* the driver model, the clients that call these services, the protocol    *)
(* notifications and the timer functions that interrupt them.              *)
(***************************************************************************)
EXTENDS DriverModel

\* Mutant of Users: the OpenList is not read again after the lock was released.
UsersOnce == IF Top.done THEN {} ELSE With(db, Top.handle, Top.guid, "driver")

\* The drivers that have the interface open, and what the database is without its
\* GET_PROTOCOL openings.  Top.done: drivers were disconnected before.
Users   == With(db, Top.handle, Top.guid, "driver")
Emptied == RemoveGets(db, Top.handle, Top.guid)

\* The first section looks the interface up and refuses a second exclusive opening;
\* Prot and the test are kept over the sections that follow.
Admitted ==
  \/ Top.done
  \/ /\ Live(db, Top.handle, Top.guid)
     /\ Top.pc = "exclusive" => With(db, Top.handle, Top.guid, "exclusive") = {}

AtRelease == stack # <<>> /\ Top.pc \in {"uninstall", "reinstall", "exclusive"} /\ Running

\* The lock is released around CoreDisconnectController; then the list is read again.
DisconnectUser ==
  /\ AtRelease /\ Admitted /\ Top.ok
  /\ \E i \in Users : Push([Top EXCEPT !.done = TRUE], Disconnect(Top.handle, {i.agent}))
  /\ UNCHANGED db

NotAdmitted ==
  /\ AtRelease
  /\ Admitted => Top.pc = "exclusive" /\ ~Top.ok
  /\ Return(FALSE)
  /\ UNCHANGED db

\* A driver was not stopped, or someone else still has it open.
Kept == Top.ok => Users = {} /\ Emptied.open[<<Top.handle, Top.guid>>] # {}

\* Mutant of Refuse: the drivers are not connected again.
RefuseOnly ==
  /\ AtRelease /\ Top.pc # "exclusive" /\ Admitted /\ Kept
  /\ db' = IF Top.ok THEN Emptied ELSE db
  /\ Goto([Top EXCEPT !.pc = "refused"])

\* "reconnect all the drivers and return an error"
Refuse ==
  /\ AtRelease /\ Top.pc # "exclusive" /\ Admitted /\ Kept
  /\ db' = IF Top.ok THEN Emptied ELSE db
  /\ Push([Top EXCEPT !.pc = "refused"], Connect(Top.handle))

Refused ==
  /\ At("refused") /\ Running
  /\ Return(FALSE)
  /\ UNCHANGED db

Released(pc) == AtRelease /\ Top.pc = pc /\ Admitted /\ Top.ok /\ Users = {}

CoreUninstallProtocolInterface ==
  /\ Released("uninstall") /\ ~Kept
  /\ db' = CoreRemoveInterfaceFromProtocol(Emptied, Top.handle, Top.guid)
  /\ Return(TRUE)

\* Moved to the tail; the drivers are connected before the notification.
CoreReinstallProtocolInterface ==
  /\ Released("reinstall") /\ ~Kept
  /\ db' = InsertTail(CoreRemoveInterfaceFromProtocol(Emptied, Top.handle, Top.guid),
                      Top.handle, Top.guid)
  /\ Push([Top EXCEPT !.pc = "reconnected"], Connect(Top.handle))

ReinstallNotify ==
  /\ At("reconnected") /\ Running
  /\ db' = CoreNotifyProtocolEntry(db, Top.guid)
  /\ Return(TRUE)

CoreOpenProtocolExclusive ==
  /\ Released("exclusive")
  /\ db' = Add(db, Top.handle, Top.guid, Opened(App, NoHandle, "exclusive"))
  /\ Return(TRUE)

-----------------------------------------------------------------------------
(* Clients: the device driver of Disk and applications.                     *)

Services ==
  {Connect(h) : h \in {k \in Handle : Live(db, k, BlockIo)}}
  \cup {DisconnectAll(h) : h \in {k \in Handle : Live(db, k, BlockIo)}}
  \cup (IF Live(db, Disk, BlockIo) THEN {Uninstall(Disk, BlockIo), Reinstall(Disk, BlockIo)} ELSE {})
  \cup {OpenExclusive(h, g) : h \in Handle, g \in Guid}

\* At TPL_APPLICATION, or from a function at TPL_CALLBACK that interrupts no service.
Call ==
  /\ stack = <<>> /\ calls > 0 /\ db.signalled = {}
  /\ calls' = calls - 1
  /\ \E base \in {<<>>, <<Callback>>} :
       \/ \E f \in Services : stack' = Append(base, f) /\ UNCHANGED db
       \/ /\ ~Live(db, Disk, BlockIo)
          /\ db' = Install(db, Disk, BlockIo)
          /\ stack' = base
       \/ /\ \E h \in Handle, g \in Guid :
               /\ With(db, h, g, "exclusive") # {}
               /\ db' = CoreCloseProtocol(db, h, g, App, NoHandle)
          /\ stack' = base
  /\ UNCHANGED interrupts

\* A timer function interrupts a service between two sections.
Interrupt ==
  /\ stack # <<>> /\ CanInterrupt /\ db.signalled = {} /\ interrupts > 0
  /\ interrupts' = interrupts - 1
  /\ \E h \in CallbackConnects :
       /\ Live(db, h, BlockIo)
       /\ stack' = stack \o <<Callback, Connect(h)>>
  /\ UNCHANGED <<db, calls>>

\* The function returns to what it interrupted.
CallbackReturn ==
  /\ At("callback")
  /\ stack' = Callers
  /\ UNCHANGED <<db, bounds>>

\* The event of a registration is dispatched.
Dispatch ==
  /\ CanInterrupt
  /\ \E r \in db.signalled :
       /\ db' = [db EXCEPT !.signalled = @ \ {r}]
       /\ stack' = Append(stack, Locate(r))
  /\ UNCHANGED bounds

\* The notification function asks for interfaces until there is none.
LocateHandle ==
  /\ At("locate")
  /\ \E r \in Top.left :
       /\ Pending(db, r) # <<>>
       /\ db' = LocateNext(db, r)
  /\ UNCHANGED <<stack, bounds>>

LocateNotFound ==
  /\ At("locate")
  /\ \E r \in Top.left : Pending(db, r) = <<>>
  /\ stack' = Callers
  /\ UNCHANGED <<db, bounds>>

-----------------------------------------------------------------------------
Init ==
  /\ db = EmptyDatabase /\ stack = <<>>
  /\ calls = MaxCalls /\ interrupts = MaxInterrupts

ConnectStep == ConnectSupported \/ ConnectStart \/ ConnectChildren
DisconnectStep ==
  DisconnectCollect \/ DisconnectNext \/ DisconnectChildrenStopped
    \/ DisconnectStopped \/ DisconnectReturn
StopStep ==
  StopDiskIo \/ StopDiskIoEnd \/ StopBus \/ StopChild \/ ChildStopped \/ StopChildrenReturn
ReleaseStep ==
  DisconnectUser \/ NotAdmitted \/ Refuse \/ Refused \/ CoreUninstallProtocolInterface
    \/ CoreReinstallProtocolInterface \/ ReinstallNotify \/ CoreOpenProtocolExclusive
CallbackStep == CallbackReturn \/ Dispatch \/ LocateHandle \/ LocateNotFound

\* What the processor does by itself.
Continue == ConnectStep \/ DisconnectStep \/ StopStep \/ ReleaseStep \/ CallbackStep

Next == Continue \/ Call \/ Interrupt

Spec == Init /\ [][Next]_vars /\ WF_vars(Continue)
=============================================================================
