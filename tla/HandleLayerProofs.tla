-------------------------- MODULE HandleLayerProofs --------------------------
(***************************************************************************)
(* No layer outlives the one below it: what DiskIoDxe and PartitionDxe     *)
(* build on a disk, while the services that take it down call each other,  *)
(* and what a service that is refused builds again.                        *)
(***************************************************************************)
EXTENDS HandleProofs

OnDisk(d, h)   == Manages(d, DiskIoDxe, h, BlockIo)
OnBus(d, h)    == Manages(d, PartitionDxe, h, DiskIo)
Child(d, h, p) == Opened(PartitionDxe, p, "child") \in d.open[<<h, DiskIo>>]
Bare(d, h)     == \A p \in Partitions[h] : ~Live(d, p, BlockIo)

\* Each layer holds the one below it.
Stands(d) ==
  \A h \in Handle :
    /\ Live(d, h, DiskIo) => OnDisk(d, h)
    /\ \A p \in Partitions[h] : Live(d, p, BlockIo) => Live(d, h, DiskIo)

\* Stop has closed the parent for child p and is uninstalling the child.
Stopping(f, h, p) == f.pc = "childStopped" /\ f.handle = h /\ f.who = p
Linked(d, s) ==
  \A h \in Handle : \A p \in Partitions[h] :
    Live(d, p, BlockIo) => Child(d, h, p) \/ \E i \in 1..Len(s) : Stopping(s[i], h, p)

\* Frame i has not been answered: its callee is above it.
Awaits(s, i) == i < Len(s) /\ s[i + 1].pc \notin Outside

CalleeOf(f, g) ==
  /\ f.pc = "stopDiskIoEnd" =>
       g.pc \in {"uninstall", "refused"} /\ g.handle = f.handle /\ g.guid = DiskIo
  /\ f.pc = "childStopped" =>
       g.pc \in {"uninstall", "refused"} /\ g.handle = f.who /\ g.guid = BlockIo
  /\ f.pc = "childrenStopped" =>
       g.pc \in {"stopChildren", "childStopped"} /\ g.handle = f.handle
Called(s) == \A i \in 1..Len(s) : Awaits(s, i) => CalleeOf(s[i], s[i + 1])

\* DiskIoDxe does not close Block I/O before its Disk I/O is uninstalled; what the
\* answer TRUE means to it and to PartitionDxe.
Holds(d, f) == f.pc = "stopDiskIoEnd" => OnDisk(d, f.handle)
Settled(d, f) ==
  f.ok =>
    /\ f.pc = "stopDiskIoEnd" => ~Live(d, f.handle, DiskIo)
    /\ f.pc = "childStopped" /\ Live(d, f.who, BlockIo) => Child(d, f.handle, f.who)
Answers(d, s) ==
  \A i \in 1..Len(s) : Holds(d, s[i]) /\ (Awaits(s, i) \/ Settled(d, s[i]))

Layered(d, s) == Stands(d) /\ Linked(d, s) /\ Called(s) /\ Answers(d, s)
LayerInv == Layered(db, stack)

-----------------------------------------------------------------------------
(* While no timer function has run in the middle of a service.              *)

\* PartitionDxe holds the Disk I/O under each partition.
Managed(d) == \A h \in Handle : Bare(d, h) \/ OnBus(d, h)

\* PartitionDxe's Stop, and what is left of the children while it is called for them.
Emptying == {"childrenStopped", "stopBus", "stopChildren", "childStopped"}
Empties(d, f) ==
  /\ f.pc = "stopBus" => Bare(d, f.handle)
  /\ f.pc = "childrenStopped" => f.who = PartitionDxe
  /\ f.pc \in {"stopChildren", "childStopped"} /\ ~f.done =>
       \A p \in Partitions[f.handle] :
         Live(d, p, BlockIo) => p \in f.left \/ Stopping(f, f.handle, p)
Cleared(d, f) ==
  f.ok =>
    /\ f.pc = "childStopped" => ~Live(d, f.who, BlockIo)
    /\ f.pc = "childrenStopped" => Bare(d, f.handle)
Stripped(d, s) ==
  \A i \in 1..Len(s) : Empties(d, s[i]) /\ (Awaits(s, i) \/ Cleared(d, s[i]))

\* No function connects a controller under one that Stop empties.
Starting == {"connect", "start"}
Higher(s) ==
  \A i, j \in 1..Len(s) :
    i < j /\ s[i].pc \in Emptying /\ s[j].pc \in Starting
      => PathLength[s[i].handle] < PathLength[s[j].handle]
\* No function interrupts another but a notification, the innermost.
Innermost(s) ==
  \A i \in 1..Len(s) : (s[i].pc = "callback" => i = 1) /\ (s[i].pc = "locate" => i = Len(s))

Calm(d, s) == Managed(d) /\ Stripped(d, s) /\ Higher(s) /\ Innermost(s)
CalmInv == Undisturbed => Calm(db, stack)

-----------------------------------------------------------------------------
(* What a refused service connects again.                                   *)

\* A layer is as usable as it can be: its driver or an exclusive user has it.
UsedIn(d, h, g, driver) ==
  Live(d, h, g) => Manages(d, driver, h, g) \/ With(d, h, g, "exclusive") # {}
DiskUsed(d, h) == UsedIn(d, h, BlockIo, DiskIoDxe)
BusUsed(d, h) ==
  /\ UsedIn(d, h, DiskIo, PartitionDxe) \/ Partitions[h] = {}
  /\ OnBus(d, h) => NewPartitions(d, h) = {}

\* The drivers that CoreConnectController has connected or found not to be supported.
Connected(f) == Driver \ (f.left \cup (IF f.pc = "start" THEN {f.who} ELSE {}))
Connecting(d, f) ==
  /\ DiskIoDxe \in Connected(f) => DiskUsed(d, f.handle)
  /\ PartitionDxe \in Connected(f) => BusUsed(d, f.handle) /\ Live(d, f.handle, DiskIo)
  /\ f.pc = "start" => Supported(d, f.who, f.handle)
\* Frame i is refused: its drivers are being connected, or its children.
Reconnects(d, s, i) ==
  \/ /\ i < Len(s) /\ s[i + 1].pc \in Starting /\ s[i + 1].handle = s[i].handle
     /\ Connecting(d, s[i + 1])
     /\ \A j \in 1..Len(s) : i + 1 < j => s[j].pc = "locate"
  \/ /\ DiskUsed(d, s[i].handle) /\ BusUsed(d, s[i].handle)
     /\ \A j \in 1..Len(s) : i < j =>
          \/ s[j].pc = "locate"
          \/ s[j].pc \in Starting /\ PathLength[s[i].handle] < PathLength[s[j].handle]
Reconnected(d, s) ==
  \A i \in 1..Len(s) : s[i].pc = "refused" => Reconnects(d, s, i)
RefusedInv == Undisturbed => Reconnected(db, stack)
-----------------------------------------------------------------------------
(* What the steps do to the layers.                                         *)

\* The openings that keep an interface.
Held(d, h, g) == NotGets(d.open[<<h, g>>])

Claimed(d, h, g) == With(d, h, g, "exclusive") # {}

LiveSame(d, e)   == \A x \in Handle, y \in Guid : Live(e, x, y) <=> Live(d, x, y)
HeldSame(d, e)   == \A x \in Handle, y \in Guid : Held(e, x, y) = Held(d, x, y)
DisksSame(d, e)  == \A x \in Handle : OnDisk(e, x) <=> OnDisk(d, x)
BusesSame(d, e)  == \A x \in Handle : OnBus(e, x) <=> OnBus(d, x)
KidsSame(d, e)   == \A x \in Handle : \A p \in Partitions[x] : Child(e, x, p) <=> Child(d, x, p)
ClaimsSame(d, e) == \A x \in Handle, y \in Guid : Claimed(e, x, y) <=> Claimed(d, x, y)

Still(d, e) == LiveSame(d, e) /\ DisksSame(d, e) /\ BusesSame(d, e) /\ KidsSame(d, e)

LEMMA HeldIs ==
  ASSUME NEW d, NEW x \in Handle, NEW y \in Guid
  PROVE  /\ \A i : i \in Held(d, x, y) <=> i \in d.open[<<x, y>>] /\ i.attr # "get"
         /\ OnDisk(d, x) <=> Opened(DiskIoDxe, x, "driver") \in Held(d, x, BlockIo)
         /\ OnBus(d, x) <=> Opened(PartitionDxe, x, "driver") \in Held(d, x, DiskIo)
         /\ \A p \in Handle :
              Child(d, x, p) <=> Opened(PartitionDxe, p, "child") \in Held(d, x, DiskIo)
         /\ Claimed(d, x, y) <=> \E i \in Held(d, x, y) : i.attr = "exclusive"
<1>1. \A w \in Guid : \A i : i \in Held(d, x, w) <=> i \in d.open[<<x, w>>] /\ i.attr # "get"
  BY DEF Held, NotGets
<1>2. /\ Opened(DiskIoDxe, x, "driver").attr = "driver"
      /\ Opened(PartitionDxe, x, "driver").attr = "driver"
      /\ \A p \in Handle : Opened(PartitionDxe, p, "child").attr = "child"
  BY Names, OpenedIs
<1>3. OnDisk(d, x) <=> Opened(DiskIoDxe, x, "driver") \in Held(d, x, BlockIo)
  BY <1>1, <1>2, Names DEF OnDisk, Manages
<1>4. OnBus(d, x) <=> Opened(PartitionDxe, x, "driver") \in Held(d, x, DiskIo)
  BY <1>1, <1>2, Names DEF OnBus, Manages
<1>5. \A p \in Handle :
        Child(d, x, p) <=> Opened(PartitionDxe, p, "child") \in Held(d, x, DiskIo)
  BY <1>1, <1>2, Names DEF Child
<1>6. Claimed(d, x, y) <=> \E i \in Held(d, x, y) : i.attr = "exclusive"
  BY <1>1 DEF Claimed, With
<1> QED BY <1>1, <1>3, <1>4, <1>5, <1>6

LEMMA HeldStill ==
  ASSUME NEW d, NEW e, LiveSame(d, e), HeldSame(d, e)
  PROVE  Still(d, e) /\ ClaimsSame(d, e)
<1>1. DisksSame(d, e)
  BY HeldIs, Names DEF DisksSame, HeldSame
<1>2. BusesSame(d, e)
  BY HeldIs, Names DEF BusesSame, HeldSame
<1>3. KidsSame(d, e)
  <2>1. \A x \in Handle : Partitions[x] \subseteq Handle
    BY HandleAssumption
  <2> QED BY <2>1, HeldIs, Names DEF KidsSame, HeldSame
<1>4. ClaimsSame(d, e)
  BY HeldIs DEF ClaimsSame, HeldSame
<1> QED BY <1>1, <1>2, <1>3, <1>4 DEF Still

LEMMA PartitionsAre ==
  ASSUME NEW h \in Handle
  PROVE  /\ Partitions[h] \subseteq Handle /\ h \notin Partitions[h]
         /\ \A p \in Partitions[h] : \A k \in Handle : p \in Partitions[k] => k = h
<1>1. Partitions[h] \subseteq Handle
  BY HandleAssumption
<1>2. h \notin Partitions[h]
  BY PartitionAssumption
<1>3. \A p \in Partitions[h] : \A k \in Handle : p \in Partitions[k] => k = h
  BY PartitionAssumption
<1> QED BY <1>1, <1>2, <1>3

LEMMA ListSame ==
  ASSUME NEW d, NEW e, e.list = d.list PROVE LiveSame(d, e)
BY DEF LiveSame, Live

\* A GET_PROTOCOL opening changes nothing.
LEMMA GetStill ==
  ASSUME NEW d, DbInv(d), NEW h \in Handle, NEW g \in Guid, NEW agent \in Driver,
         NEW c \in Handle, NEW e, e = Add(d, h, g, Opened(agent, c, "get"))
  PROVE  DbInv(e) /\ e.list = d.list /\ Still(d, e) /\ ClaimsSame(d, e)
<1>1. PICK item : item = Opened(agent, c, "get")
  OBVIOUS
<1>2. item \in OpenData /\ Admits(d, h, g, item) /\ item.attr = "get"
  BY <1>1, GetAdmitted, OpenedIs
<1>3. Grown(d, h, g, item, e)
  BY <1>1, <1>2, AddGrows
<1>4. HeldSame(d, e)
  <2> SUFFICES ASSUME NEW x \in Handle, NEW y \in Guid PROVE Held(e, x, y) = Held(d, x, y)
    BY DEF HeldSame
  <2>1. e.open[<<x, y>>] \in {d.open[<<x, y>>], d.open[<<x, y>>] \cup {item}}
    BY <1>3 DEF Grown
  <2> QED BY <1>2, <2>1 DEF Held, NotGets
<1>5. DbInv(e) /\ e.list = d.list
  BY <1>3 DEF Grown
<1> QED BY <1>4, <1>5, ListSame, HeldStill

\* DiskIoDxe starts on h, or PartitionDxe.
DiskIoUp(d, h, e) ==
  /\ ~OnDisk(d, h) /\ Live(d, h, BlockIo) /\ ~Live(d, h, DiskIo)
  /\ \A x \in Handle, y \in Guid : Live(e, x, y) <=> Live(d, x, y) \/ (x = h /\ y = DiskIo)
  /\ \A x \in Handle : OnDisk(e, x) <=> OnDisk(d, x) \/ x = h
  /\ BusesSame(d, e) /\ KidsSame(d, e) /\ ClaimsSame(d, e)

PartitionsUp(d, h, e) ==
  /\ Live(d, h, DiskIo)
  /\ \A x \in Handle, y \in Guid :
       Live(e, x, y) <=> Live(d, x, y) \/ (x \in Partitions[h] /\ y = BlockIo)
  /\ DisksSame(d, e) /\ \A x \in Handle : OnBus(e, x) <=> OnBus(d, x) \/ x = h
  /\ \A x \in Handle : \A p \in Partitions[x] :
       Child(e, x, p) <=> Child(d, x, p) \/ (x = h /\ ~Live(d, p, BlockIo))
  /\ ClaimsSame(d, e)

LEMMA DiskIoRises ==
  ASSUME NEW d, NEW h \in Handle, NEW e, DiskIoStarted(d, h, e)
  PROVE  DiskIoUp(d, h, e)
<1>1. PICK item : item = Opened(DiskIoDxe, h, "driver")
  OBVIOUS
<1>2. /\ item.attr = "driver" /\ item.agent = DiskIoDxe /\ item.controller = h
      /\ BlockIo \in Guid /\ DiskIo \in Guid /\ BlockIo # DiskIo /\ DiskIoDxe \in Driver
  BY <1>1, Names, OpenedIs
<1>3. \A x \in Handle, y \in Guid : e.open[<<x, y>>] =
        IF x = h /\ y = BlockIo THEN d.open[<<x, y>>] \cup {item} ELSE d.open[<<x, y>>]
  BY <1>1 DEF DiskIoStarted
<1>4. ~OnDisk(d, h) /\ Live(d, h, BlockIo) /\ ~Live(d, h, DiskIo)
  <2>1. With(d, h, BlockIo, "driver") = {} /\ Live(d, h, BlockIo) /\ ~Live(d, h, DiskIo)
    BY DEF DiskIoStarted, CanManage
  <2> QED BY <1>1, <1>2, <2>1 DEF OnDisk, Manages, With
<1>5. \A x \in Handle : OnDisk(e, x) <=> OnDisk(d, x) \/ x = h
  <2> SUFFICES ASSUME NEW x \in Handle PROVE OnDisk(e, x) <=> OnDisk(d, x) \/ x = h
    OBVIOUS
  <2>1. PICK i : i = Opened(DiskIoDxe, x, "driver")
    OBVIOUS
  <2>2. i.controller = x
    BY <1>2, <2>1, OpenedIs
  <2>3. i \in e.open[<<x, BlockIo>>] <=> i \in d.open[<<x, BlockIo>>] \/ x = h
    BY <1>1, <1>2, <1>3, <2>1, <2>2
  <2> QED BY <2>1, <2>3 DEF OnDisk, Manages
<1>6. BusesSame(d, e) /\ KidsSame(d, e)
  BY <1>2, <1>3 DEF BusesSame, KidsSame, OnBus, Manages, Child
<1>7. ClaimsSame(d, e)
  <2> SUFFICES ASSUME NEW x \in Handle, NEW y \in Guid PROVE Claimed(e, x, y) <=> Claimed(d, x, y)
    BY DEF ClaimsSame
  <2>1. e.open[<<x, y>>] \in {d.open[<<x, y>>], d.open[<<x, y>>] \cup {item}}
    BY <1>3
  <2> QED BY <1>2, <2>1 DEF Claimed, With
<1>8. \A x \in Handle, y \in Guid : Live(e, x, y) <=> Live(d, x, y) \/ (x = h /\ y = DiskIo)
  BY DEF DiskIoStarted
<1> QED BY <1>4, <1>5, <1>6, <1>7, <1>8 DEF DiskIoUp

LEMMA PartitionRises ==
  ASSUME NEW d, NEW h \in Handle, NEW new, new = NewPartitions(d, h),
         NEW e, PartitionStarted(d, h, new, e)
  PROVE  PartitionsUp(d, h, e)
<1>1. PICK drv, get : /\ drv = Opened(PartitionDxe, h, "driver")
                      /\ get = Opened(PartitionDxe, h, "get")
  OBVIOUS
<1>2. /\ drv.attr = "driver" /\ drv.controller = h /\ get.attr = "get"
      /\ BlockIo \in Guid /\ DiskIo \in Guid /\ BlockIo # DiskIo /\ PartitionDxe \in Driver
      /\ new \subseteq Partitions[h] /\ new \subseteq Handle
      /\ \A p \in Partitions[h] : p \in new <=> ~Live(d, p, BlockIo)
  BY <1>1, Names, OpenedIs, PartitionsAre DEF NewPartitions
<1>3. \A x \in Handle, y \in Guid : e.open[<<x, y>>] =
        IF x = h /\ y = DiskIo THEN d.open[<<x, y>>] \cup {drv} \cup Kids(new)
        ELSE IF x = h /\ y = BlockIo /\ Live(d, x, y) THEN d.open[<<x, y>>] \cup {get}
        ELSE d.open[<<x, y>>]
  BY <1>1 DEF PartitionStarted
<1>4. \A i \in Kids(new) : i.attr = "child" /\ \E p \in new : i.controller = p
  <2> SUFFICES ASSUME NEW p \in new
               PROVE  LET i == Opened(PartitionDxe, p, "child")
                      IN  i.attr = "child" /\ i.controller = p
    BY DEF Kids
  <2> QED BY <1>2, OpenedIs
<1>5. \A x \in Handle : OnBus(e, x) <=> OnBus(d, x) \/ x = h
  <2> SUFFICES ASSUME NEW x \in Handle PROVE OnBus(e, x) <=> OnBus(d, x) \/ x = h
    OBVIOUS
  <2>1. PICK i : i = Opened(PartitionDxe, x, "driver")
    OBVIOUS
  <2>2. i.controller = x /\ i.attr = "driver"
    BY <1>2, <2>1, OpenedIs
  <2>3. i \in e.open[<<x, DiskIo>>] <=> i \in d.open[<<x, DiskIo>>] \/ x = h
    BY <1>1, <1>2, <1>3, <1>4, <2>1, <2>2
  <2> QED BY <2>1, <2>3 DEF OnBus, Manages
<1>6. \A x \in Handle : \A p \in Partitions[x] :
        Child(e, x, p) <=> Child(d, x, p) \/ (x = h /\ ~Live(d, p, BlockIo))
  <2> SUFFICES ASSUME NEW x \in Handle, NEW p \in Partitions[x]
               PROVE  Child(e, x, p) <=> Child(d, x, p) \/ (x = h /\ ~Live(d, p, BlockIo))
    OBVIOUS
  <2>1. PICK i : i = Opened(PartitionDxe, p, "child")
    OBVIOUS
  <2>2. i.controller = p /\ i.attr = "child" /\ p \in Handle
    BY <1>2, <2>1, OpenedIs, PartitionsAre
  <2>3. i \in Kids(new) <=> p \in new
    BY <1>4, <2>1, <2>2 DEF Kids
  <2>4. i \in e.open[<<x, DiskIo>>] <=> i \in d.open[<<x, DiskIo>>] \/ (x = h /\ p \in new)
    BY <1>2, <1>3, <2>2, <2>3
  <2> QED BY <1>2, <2>1, <2>4 DEF Child
<1>7. DisksSame(d, e)
  <2> SUFFICES ASSUME NEW x \in Handle PROVE OnDisk(e, x) <=> OnDisk(d, x)
    BY DEF DisksSame
  <2>1. PICK i : i = Opened(DiskIoDxe, x, "driver")
    OBVIOUS
  <2>2. i.attr = "driver"
    BY <2>1, Names, OpenedIs
  <2>3. e.open[<<x, BlockIo>>] \in {d.open[<<x, BlockIo>>], d.open[<<x, BlockIo>>] \cup {get}}
    BY <1>2, <1>3
  <2>4. i \in e.open[<<x, BlockIo>>] <=> i \in d.open[<<x, BlockIo>>]
    BY <1>2, <2>2, <2>3
  <2> QED BY <2>1, <2>4 DEF OnDisk, Manages
<1>8. ClaimsSame(d, e)
  <2> SUFFICES ASSUME NEW x \in Handle, NEW y \in Guid PROVE Claimed(e, x, y) <=> Claimed(d, x, y)
    BY DEF ClaimsSame
  <2>1. PICK o, q, k : o = d.open[<<x, y>>] /\ q = e.open[<<x, y>>] /\ k = Kids(new)
    OBVIOUS
  <2>2. q \in {o, o \cup {get}, o \cup {drv} \cup k}
    BY <1>3, <2>1
  <2>3. \A i : i.attr = "exclusive" => (i \in q <=> i \in o)
    BY <1>2, <1>4, <2>1, <2>2
  <2> QED BY <2>1, <2>3 DEF Claimed, With
<1>9. /\ Live(d, h, DiskIo)
      /\ \A x \in Handle, y \in Guid :
           Live(e, x, y) <=> Live(d, x, y) \/ (x \in Partitions[h] /\ y = BlockIo)
  <2>1. /\ Live(d, h, DiskIo)
        /\ \A x \in Handle, y \in Guid :
             Live(e, x, y) <=> Live(d, x, y) \/ (y = BlockIo /\ x \in new)
    BY DEF PartitionStarted
  <2> QED BY <1>2, <2>1
<1> QED BY <1>5, <1>6, <1>7, <1>8, <1>9 DEF PartitionsUp

LEMMA StartLayers ==
  ASSUME DbInv(db), NEW driver, NEW h \in Handle, NEW e, e = Start(db, driver, h)
  PROVE  \/ Still(db, e) /\ ClaimsSame(db, e)
         \/ driver = DiskIoDxe /\ DiskIoUp(db, h, e)
         \/ driver # DiskIoDxe /\ PartitionsUp(db, h, e)
<1>1. CASE driver = DiskIoDxe
  <2>1. e = db \/ DiskIoStarted(db, h, e)
    BY <1>1, StartDiskIoIs DEF Start
  <2> QED BY <1>1, <2>1, DiskIoRises
          DEF Still, LiveSame, DisksSame, BusesSame, KidsSame, ClaimsSame
<1>2. CASE driver # DiskIoDxe
  <2>1. PICK new : new = NewPartitions(db, h)
    OBVIOUS
  <2>2. \/ e = Add(db, h, BlockIo, Opened(PartitionDxe, h, "get"))
        \/ PartitionStarted(db, h, new, e)
    BY <1>2, <2>1, StartPartitionIs DEF Start
  <2>3. PICK g \in Guid : g = BlockIo
    BY Names
  <2>4. PICK agent \in Driver : agent = PartitionDxe
    BY Names
  <2>5. ASSUME e = Add(db, h, BlockIo, Opened(PartitionDxe, h, "get"))
        PROVE  Still(db, e) /\ ClaimsSame(db, e)
    BY <2>3, <2>4, <2>5, GetStill
  <2>6. ASSUME PartitionStarted(db, h, new, e) PROVE PartitionsUp(db, h, e)
    BY <2>1, <2>6, PartitionRises
  <2> QED BY <1>2, <2>2, <2>5, <2>6
<1> QED BY <1>1, <1>2

\* What is closed, and what is opened again.
DiskClosed(d, h, e) ==
  /\ LiveSame(d, e) /\ \A x \in Handle : OnDisk(e, x) <=> OnDisk(d, x) /\ x # h
  /\ BusesSame(d, e) /\ KidsSame(d, e)

BusClosed(d, h, e) ==
  /\ LiveSame(d, e) /\ DisksSame(d, e)
  /\ \A x \in Handle : OnBus(e, x) <=> OnBus(d, x) /\ x # h
  /\ KidsSame(d, e)

ChildClosed(d, h, c, e) ==
  /\ LiveSame(d, e) /\ DisksSame(d, e) /\ BusesSame(d, e)
  /\ \A x \in Handle : \A p \in Partitions[x] :
       Child(e, x, p) <=> Child(d, x, p) /\ ~(x = h /\ p = c)

ChildOpened(d, h, c, e) ==
  /\ LiveSame(d, e) /\ DisksSame(d, e) /\ BusesSame(d, e)
  /\ \A x \in Handle : \A p \in Partitions[x] :
       Child(e, x, p) <=> Child(d, x, p) \/ (x = h /\ p = c /\ Live(d, h, DiskIo))

LEMMA Closing ==
  ASSUME NEW d, DbInv(d), NEW h \in Handle, NEW g \in Guid, NEW agent, NEW controller,
         NEW e, e = CoreCloseProtocol(d, h, g, agent, controller),
         NEW x \in Handle, NEW y \in Guid, NEW i
  PROVE  /\ LiveSame(d, e)
         /\ i \in e.open[<<x, y>>] <=>
              /\ i \in d.open[<<x, y>>]
              /\ ~(x = h /\ y = g /\ i.agent = agent /\ i.controller = controller)
<1>1. PICK items : items = {k \in d.open[<<h, g>>] : k.agent # agent \/ k.controller # controller}
  OBVIOUS
<1>2. e = Reopen(d, h, g, items) /\ items \in SUBSET d.open[<<h, g>>]
  BY <1>1 DEF CoreCloseProtocol, Reopen
<1>3. OpenListIs(d, h, g, items, e)
  BY <1>2, NarrowedIs
<1>4. /\ e.list = d.list
      /\ e.open[<<x, y>>] = IF x = h /\ y = g THEN items ELSE d.open[<<x, y>>]
  BY <1>3 DEF OpenListIs
<1> QED BY <1>1, <1>4, ListSame

\* Each of the views after a close.
LEMMA ClosedViews ==
  ASSUME NEW d, DbInv(d), NEW h \in Handle, NEW g \in Guid, NEW agent, NEW controller,
         NEW e, e = CoreCloseProtocol(d, h, g, agent, controller)
  PROVE  /\ LiveSame(d, e)
         /\ \A x \in Handle : OnDisk(e, x) <=>
              OnDisk(d, x) /\ ~(x = h /\ g = BlockIo /\ agent = DiskIoDxe /\ controller = x)
         /\ \A x \in Handle : OnBus(e, x) <=>
              OnBus(d, x) /\ ~(x = h /\ g = DiskIo /\ agent = PartitionDxe /\ controller = x)
         /\ \A x \in Handle : \A p \in Partitions[x] : Child(e, x, p) <=>
              Child(d, x, p) /\ ~(x = h /\ g = DiskIo /\ agent = PartitionDxe /\ controller = p)
<1>0. BlockIo \in Guid /\ DiskIo \in Guid
  BY Names
<1>1. LiveSame(d, e)
  BY <1>0, Closing
<1>2. ASSUME NEW x \in Handle
      PROVE  OnDisk(e, x) <=>
               OnDisk(d, x) /\ ~(x = h /\ g = BlockIo /\ agent = DiskIoDxe /\ controller = x)
  <2>1. PICK i : i = Opened(DiskIoDxe, x, "driver")
    OBVIOUS
  <2>2. i.agent = DiskIoDxe /\ i.controller = x
    BY <2>1, Names, OpenedIs
  <2>3. PICK y \in Guid : y = BlockIo
    BY <1>0
  <2>4. i \in e.open[<<x, y>>] <=>
              /\ i \in d.open[<<x, y>>]
              /\ ~(x = h /\ y = g /\ i.agent = agent /\ i.controller = controller)
    BY Closing
  <2> QED BY <2>1, <2>2, <2>3, <2>4 DEF OnDisk, Manages
<1>3. ASSUME NEW x \in Handle
      PROVE  OnBus(e, x) <=>
               OnBus(d, x) /\ ~(x = h /\ g = DiskIo /\ agent = PartitionDxe /\ controller = x)
  <2>1. PICK i : i = Opened(PartitionDxe, x, "driver")
    OBVIOUS
  <2>2. i.agent = PartitionDxe /\ i.controller = x
    BY <2>1, Names, OpenedIs
  <2>3. PICK y \in Guid : y = DiskIo
    BY <1>0
  <2>4. i \in e.open[<<x, y>>] <=>
              /\ i \in d.open[<<x, y>>]
              /\ ~(x = h /\ y = g /\ i.agent = agent /\ i.controller = controller)
    BY Closing
  <2> QED BY <2>1, <2>2, <2>3, <2>4 DEF OnBus, Manages
<1>4. ASSUME NEW x \in Handle, NEW p \in Partitions[x]
      PROVE  Child(e, x, p) <=>
               Child(d, x, p) /\ ~(x = h /\ g = DiskIo /\ agent = PartitionDxe /\ controller = p)
  <2>1. PICK i : i = Opened(PartitionDxe, p, "child")
    OBVIOUS
  <2>2. i.agent = PartitionDxe /\ i.controller = p
    BY <2>1, Names, OpenedIs, PartitionsAre
  <2>3. PICK y \in Guid : y = DiskIo
    BY <1>0
  <2>4. i \in e.open[<<x, y>>] <=>
              /\ i \in d.open[<<x, y>>]
              /\ ~(x = h /\ y = g /\ i.agent = agent /\ i.controller = controller)
    BY Closing
  <2> QED BY <2>1, <2>2, <2>3, <2>4 DEF Child
<1> QED BY <1>1, <1>2, <1>3, <1>4

LEMMA DiskCloses ==
  ASSUME NEW d, DbInv(d), NEW h \in Handle,
         NEW e, e = CoreCloseProtocol(d, h, BlockIo, DiskIoDxe, h)
  PROVE  DiskClosed(d, h, e)
<1>1. PICK g \in Guid : g = BlockIo
  BY Names
<1>2. e = CoreCloseProtocol(d, h, g, DiskIoDxe, h)
  BY <1>1
<1>3. PICK agent : agent = DiskIoDxe
  OBVIOUS
<1>4. /\ LiveSame(d, e)
      /\ \A x \in Handle : OnDisk(e, x) <=>
           OnDisk(d, x) /\ ~(x = h /\ g = BlockIo /\ agent = DiskIoDxe /\ h = x)
      /\ \A x \in Handle : OnBus(e, x) <=>
           OnBus(d, x) /\ ~(x = h /\ g = DiskIo /\ agent = PartitionDxe /\ h = x)
      /\ \A x \in Handle : \A p \in Partitions[x] : Child(e, x, p) <=>
           Child(d, x, p) /\ ~(x = h /\ g = DiskIo /\ agent = PartitionDxe /\ h = p)
  BY <1>2, <1>3, ClosedViews
<1> QED BY <1>1, <1>3, <1>4, Names DEF DiskClosed, BusesSame, KidsSame

LEMMA BusCloses ==
  ASSUME NEW d, DbInv(d), NEW h \in Handle,
         NEW e, e = CoreCloseProtocol(d, h, DiskIo, PartitionDxe, h)
  PROVE  BusClosed(d, h, e)
<1>1. PICK g \in Guid : g = DiskIo
  BY Names
<1>2. e = CoreCloseProtocol(d, h, g, PartitionDxe, h)
  BY <1>1
<1>3. PICK agent : agent = PartitionDxe
  OBVIOUS
<1>4. /\ LiveSame(d, e)
      /\ \A x \in Handle : OnDisk(e, x) <=>
           OnDisk(d, x) /\ ~(x = h /\ g = BlockIo /\ agent = DiskIoDxe /\ h = x)
      /\ \A x \in Handle : OnBus(e, x) <=>
           OnBus(d, x) /\ ~(x = h /\ g = DiskIo /\ agent = PartitionDxe /\ h = x)
      /\ \A x \in Handle : \A p \in Partitions[x] : Child(e, x, p) <=>
           Child(d, x, p) /\ ~(x = h /\ g = DiskIo /\ agent = PartitionDxe /\ h = p)
  BY <1>2, <1>3, ClosedViews
<1>5. h \notin Partitions[h]
  BY PartitionsAre
<1> QED BY <1>1, <1>3, <1>4, <1>5, Names DEF BusClosed, DisksSame, KidsSame

LEMMA ChildCloses ==
  ASSUME NEW d, DbInv(d), NEW h \in Handle, NEW c \in Partitions[h],
         NEW e, e = CoreCloseProtocol(d, h, DiskIo, PartitionDxe, c)
  PROVE  ChildClosed(d, h, c, e)
<1>1. PICK g \in Guid : g = DiskIo
  BY Names
<1>2. e = CoreCloseProtocol(d, h, g, PartitionDxe, c)
  BY <1>1
<1>3. PICK agent : agent = PartitionDxe
  OBVIOUS
<1>4. /\ LiveSame(d, e)
      /\ \A x \in Handle : OnDisk(e, x) <=>
           OnDisk(d, x) /\ ~(x = h /\ g = BlockIo /\ agent = DiskIoDxe /\ c = x)
      /\ \A x \in Handle : OnBus(e, x) <=>
           OnBus(d, x) /\ ~(x = h /\ g = DiskIo /\ agent = PartitionDxe /\ c = x)
      /\ \A x \in Handle : \A p \in Partitions[x] : Child(e, x, p) <=>
           Child(d, x, p) /\ ~(x = h /\ g = DiskIo /\ agent = PartitionDxe /\ c = p)
  BY <1>2, <1>3, ClosedViews
<1>5. h \notin Partitions[h]
  BY PartitionsAre
<1> QED BY <1>1, <1>3, <1>4, <1>5, Names DEF ChildClosed, DisksSame, BusesSame

LEMMA AppCloses ==
  ASSUME NEW d, DbInv(d), NEW h \in Handle, NEW g \in Guid,
         NEW e, e = CoreCloseProtocol(d, h, g, App, NoHandle)
  PROVE  Still(d, e)
<1>1. PICK agent : agent = App
  OBVIOUS
<1>4. /\ LiveSame(d, e)
      /\ \A x \in Handle : OnDisk(e, x) <=>
           OnDisk(d, x) /\ ~(x = h /\ g = BlockIo /\ agent = DiskIoDxe /\ NoHandle = x)
      /\ \A x \in Handle : OnBus(e, x) <=>
           OnBus(d, x) /\ ~(x = h /\ g = DiskIo /\ agent = PartitionDxe /\ NoHandle = x)
      /\ \A x \in Handle : \A p \in Partitions[x] : Child(e, x, p) <=>
           Child(d, x, p) /\ ~(x = h /\ g = DiskIo /\ agent = PartitionDxe /\ NoHandle = p)
  BY <1>1, ClosedViews
<1> QED BY <1>1, <1>4, Names DEF Still, DisksSame, BusesSame, KidsSame

LEMMA ChildOpens ==
  ASSUME NEW d, DbInv(d), NEW h \in Handle, NEW c \in Partitions[h],
         NEW e, e = Add(d, h, DiskIo, Opened(PartitionDxe, c, "child"))
  PROVE  ChildOpened(d, h, c, e)
<1>1. PICK item : item = Opened(PartitionDxe, c, "child")
  OBVIOUS
<1>2. /\ item \in OpenData /\ item.attr = "child" /\ item.agent = PartitionDxe
      /\ item.controller = c /\ BlockIo # DiskIo
  BY <1>1, Names, OpenedIs, PartitionsAre
<1>3. PICK g \in Guid : g = DiskIo
  BY Names
<1>4. Admits(d, h, g, item) /\ e = Add(d, h, g, item)
  BY <1>1, <1>2, <1>3 DEF Admits, ItemOK
<1>5. Grown(d, h, g, item, e)
  BY <1>2, <1>4, AddGrows
<1>6. \A x \in Handle, y \in Guid : e.open[<<x, y>>] =
        IF x = h /\ y = g /\ Live(d, h, g) THEN d.open[<<x, y>>] \cup {item}
        ELSE d.open[<<x, y>>]
  BY <1>5 DEF Grown
<1>7. DisksSame(d, e)
  BY <1>2, <1>3, <1>6, Names DEF DisksSame, OnDisk, Manages
<1>8. BusesSame(d, e)
  <2> SUFFICES ASSUME NEW x \in Handle PROVE OnBus(e, x) <=> OnBus(d, x)
    BY DEF BusesSame
  <2>1. PICK i : i = Opened(PartitionDxe, x, "driver")
    OBVIOUS
  <2>2. i # item
    BY <1>2, <2>1, Names, OpenedIs
  <2>3. i \in e.open[<<x, g>>] <=> i \in d.open[<<x, g>>]
    BY <1>6, <2>2
  <2> QED BY <1>3, <2>1, <2>3 DEF OnBus, Manages
<1>9. ASSUME NEW x \in Handle, NEW p \in Partitions[x]
      PROVE  Child(e, x, p) <=> Child(d, x, p) \/ (x = h /\ p = c /\ Live(d, h, DiskIo))
  <2>1. PICK i : i = Opened(PartitionDxe, p, "child")
    OBVIOUS
  <2>2. i = item <=> p = c
    BY <1>1, <1>2, <2>1, Names, OpenedIs, PartitionsAre
  <2>3. i \in e.open[<<x, g>>] <=> i \in d.open[<<x, g>>] \/ (x = h /\ p = c /\ Live(d, h, g))
    BY <1>6, <2>2
  <2> QED BY <1>3, <2>1, <2>3 DEF Child
<1>10. LiveSame(d, e)
  BY <1>5, ListSame DEF Grown
<1> QED BY <1>7, <1>8, <1>9, <1>10 DEF ChildOpened

\* GET_PROTOCOL openings are closed.
LEMMA EmptiedStill ==
  ASSUME HdbInv, AtRelease, NEW b, b = Emptied
  PROVE  DbInv(b) /\ Still(db, b) /\ ClaimsSame(db, b)
<1>1. PICK h, g : h = Top.handle /\ g = Top.guid
  OBVIOUS
<1>2. /\ DbInv(b) /\ b.list = db.list
      /\ \A x \in Handle, y \in Guid : b.open[<<x, y>>] =
           IF x = h /\ y = g THEN NotGets(db.open[<<x, y>>]) ELSE db.open[<<x, y>>]
  BY <1>1, EmptiedIs DEF SameLists
<1>3. HeldSame(db, b)
  BY <1>2 DEF HeldSame, Held, NotGets
<1> QED BY <1>2, <1>3, ListSame, HeldStill

LEMMA OpenSame ==
  ASSUME NEW d, NEW e, e.open = d.open
  PROVE  DisksSame(d, e) /\ BusesSame(d, e) /\ KidsSame(d, e) /\ ClaimsSame(d, e)
BY DEF DisksSame, BusesSame, KidsSame, ClaimsSame, OnDisk, OnBus, Manages, Child, Claimed, With

\* An interface that nothing holds is removed.
Gone(d, h, g, e) ==
  /\ \A x \in Handle, y \in Guid : Live(e, x, y) <=> Live(d, x, y) /\ ~(x = h /\ y = g)
  /\ DisksSame(d, e) /\ BusesSame(d, e) /\ KidsSame(d, e)
  /\ g = BlockIo => ~OnDisk(d, h)
  /\ g = DiskIo => ~OnBus(d, h) /\ \A p \in Partitions[h] : ~Child(d, h, p)

LEMMA Removes ==
  ASSUME HdbInv, AtRelease, ~Kept, Top.ok, Users = {}, NEW h \in Handle, h = Top.handle,
         NEW g \in Guid, g = Top.guid, NEW e, e = CoreRemoveInterfaceFromProtocol(Emptied, h, g)
  PROVE  DbInv(e) /\ Gone(db, h, g, e)
<1>1. PICK b : b = Emptied
  OBVIOUS
<1>2. DbInv(b) /\ Still(db, b)
  BY <1>1, EmptiedStill
<1>3. b.open[<<h, g>>] = {}
  BY <1>1, Zenon DEF Kept
<1>4. e = CoreRemoveInterfaceFromProtocol(b, h, g)
  BY <1>1
<1>5. /\ DbInv(e) /\ e.open = b.open
      /\ \A x \in Handle, y \in Guid : Live(e, x, y) <=> Live(b, x, y) /\ ~(x = h /\ y = g)
  BY <1>2, <1>3, <1>4, RemoveIs
<1>6. DisksSame(b, e) /\ BusesSame(b, e) /\ KidsSame(b, e)
  BY <1>5, OpenSame
<1>7. g = BlockIo => ~OnDisk(b, h)
  BY <1>3 DEF OnDisk, Manages
<1>8. g = DiskIo => ~OnBus(b, h) /\ \A p \in Partitions[h] : ~Child(b, h, p)
  BY <1>3 DEF OnBus, Manages, Child
<1> QED BY <1>2, <1>5, <1>6, <1>7, <1>8
        DEF Gone, Still, LiveSame, DisksSame, BusesSame, KidsSame

\* A reinstall takes the interface out and puts it at the tail.
LEMMA RenewsStill ==
  ASSUME HdbInv, AtRelease, ~Kept, Top.ok, Users = {}, NEW h \in Handle, h = Top.handle,
         NEW g \in Guid, g = Top.guid, Live(db, h, g),
         NEW e, e = InsertTail(CoreRemoveInterfaceFromProtocol(Emptied, h, g), h, g)
  PROVE  DbInv(e) /\ Still(db, e)
<1>1. PICK a : a = CoreRemoveInterfaceFromProtocol(Emptied, h, g)
  OBVIOUS
<1>2. DbInv(a) /\ Gone(db, h, g, a)
  BY <1>1, Removes
<1>3. ~Live(a, h, g) /\ e = InsertTail(a, h, g)
  BY <1>1, <1>2 DEF Gone
<1>4. /\ DbInv(e)
      /\ \A y \in Guid : e.list[y] = IF y = g THEN a.list[y] \o <<h>> ELSE a.list[y]
      /\ e.position = a.position /\ e.open = a.open /\ e.signalled = a.signalled
      /\ \A x \in Handle, y \in Guid : Live(e, x, y) <=> Live(a, x, y) \/ (y = g /\ x = h)
  BY <1>2, <1>3, TailIs
<1>5. LiveSame(db, e)
  BY <1>2, <1>4 DEF Gone, LiveSame
<1>6. DisksSame(a, e) /\ BusesSame(a, e) /\ KidsSame(a, e)
  BY <1>4, OpenSame
<1> QED BY <1>2, <1>4, <1>5, <1>6 DEF Gone, Still, DisksSame, BusesSame, KidsSame

\* Only registrations change.
LEMMA QuietStill ==
  ASSUME NEW d, NEW e, e.list = d.list, e.open = d.open
  PROVE  Still(d, e) /\ ClaimsSame(d, e)
BY ListSame, OpenSame DEF Still

\* An exclusive opening.
LEMMA ClaimStill ==
  ASSUME NEW d, DbInv(d), NEW h \in Handle, NEW g \in Guid, With(d, h, g, "driver") = {},
         NEW e, e = Add(d, h, g, Opened(App, NoHandle, "exclusive"))
  PROVE  Still(d, e)
<1>1. PICK item : item = Opened(App, NoHandle, "exclusive")
  OBVIOUS
<1>2. item \in OpenData /\ item.attr = "exclusive" /\ item.agent = App
  BY <1>1 DEF Opened, OpenData
<1>3. Admits(d, h, g, item) /\ e = Add(d, h, g, item)
  BY <1>1, <1>2 DEF Admits, ItemOK
<1>4. Grown(d, h, g, item, e)
  BY <1>2, <1>3, AddGrows
<1>5. ASSUME NEW x \in Handle, NEW y \in Guid, NEW i, i.agent # App
      PROVE  i \in e.open[<<x, y>>] <=> i \in d.open[<<x, y>>]
  BY <1>2, <1>4, <1>5 DEF Grown
<1>6. DisksSame(d, e)
  <2> SUFFICES ASSUME NEW x \in Handle PROVE OnDisk(e, x) <=> OnDisk(d, x)
    BY DEF DisksSame
  <2>1. Opened(DiskIoDxe, x, "driver").agent # App
    BY Names, OpenedIs
  <2> QED BY <1>5, <2>1, Names DEF OnDisk, Manages
<1>7. BusesSame(d, e)
  <2> SUFFICES ASSUME NEW x \in Handle PROVE OnBus(e, x) <=> OnBus(d, x)
    BY DEF BusesSame
  <2>1. Opened(PartitionDxe, x, "driver").agent # App
    BY Names, OpenedIs
  <2> QED BY <1>5, <2>1, Names DEF OnBus, Manages
<1>8. KidsSame(d, e)
  <2> SUFFICES ASSUME NEW x \in Handle, NEW p \in Partitions[x]
               PROVE  Child(e, x, p) <=> Child(d, x, p)
    BY DEF KidsSame
  <2>1. Opened(PartitionDxe, p, "child").agent # App
    BY Names, OpenedIs, PartitionsAre
  <2> QED BY <1>5, <2>1, Names DEF Child
<1>9. LiveSame(d, e)
  BY <1>4, ListSame DEF Grown
<1> QED BY <1>6, <1>7, <1>8, <1>9 DEF Still

-----------------------------------------------------------------------------
(* What the steps do to the stack.                                          *)

\* The callers stay and the running function goes on at t[Len(stack)].
Goes(t) ==
  /\ t \in Seq(Frames) /\ Len(stack) <= Len(t)
  /\ \A i \in 1..(Len(stack) - 1) : t[i] = stack[i]

\* The running function returned; the caller may have its answer.
Backs(t) ==
  /\ t \in Seq(Frames) /\ Len(t) = Len(stack) - 1
  /\ \A i \in 1..(Len(stack) - 2) : t[i] = stack[i]
  /\ Len(stack) > 1 => Alike(t[Len(stack) - 1], stack[Len(stack) - 1])

\* The callers know what they knew.
Lasts(e) ==
  \A i \in 1..(Len(stack) - 1) :
    (Holds(db, stack[i]) => Holds(e, stack[i])) /\ (Settled(db, stack[i]) => Settled(e, stack[i]))

\* No child is without its opening, save one that Stop is uninstalling.
Relinks(e, t) ==
  \A h \in Handle : \A p \in Partitions[h] : Live(e, p, BlockIo) /\ ~Child(e, h, p) =>
    \/ Live(db, p, BlockIo) /\ ~Child(db, h, p) /\ ~Stopping(Top, h, p)
    \/ \E i \in 1..Len(t) : i >= Len(stack) /\ Stopping(t[i], h, p)

FrameStands(e, t, i) ==
  /\ Awaits(t, i) => CalleeOf(t[i], t[i + 1])
  /\ Holds(e, t[i]) /\ (Awaits(t, i) \/ Settled(e, t[i]))

\* f serves the callers as the running function did.
Replaces(f) ==
  Top.pc \notin Outside /\ f.pc \notin Outside /\ \A c : CalleeOf(c, Top) => CalleeOf(c, f)

LEMMA FramesStand ==
  ASSUME NEW e, NEW t
  PROVE  Called(t) /\ Answers(e, t) <=> \A i \in 1..Len(t) : FrameStands(e, t, i)
BY DEF Called, Answers, FrameStands

LEMMA Onward ==
  ASSUME HdbInv, LayerInv, stack # <<>>, NEW e, NEW t, Goes(t), Stands(e), Lasts(e),
         Relinks(e, t), Replaces(t[Len(stack)]),
         \A i \in 1..Len(t) : i >= Len(stack) => FrameStands(e, t, i)
  PROVE  Layered(e, t)
<1>1. PICK n : n = Len(stack)
  OBVIOUS
<1>2. /\ n \in Nat /\ n >= 1 /\ Top = stack[n] /\ Len(t) \in Nat /\ n <= Len(t)
      /\ \A i \in 1..(n - 1) : t[i] = stack[i]
  BY <1>1, CallersIs DEF HdbInv, FramesOK, Goes
<1>3. \A i \in 1..n : FrameStands(db, stack, i)
  BY <1>1, FramesStand DEF LayerInv, Layered
<1>4. \A i \in 1..(n - 1) : (Holds(db, stack[i]) => Holds(e, stack[i]))
                         /\ (Settled(db, stack[i]) => Settled(e, stack[i]))
  BY <1>1 DEF Lasts
<1>5. ASSUME NEW i \in 1..Len(t) PROVE FrameStands(e, t, i)
  <2>1. CASE i >= n
    BY <1>1, <2>1
  <2>2. CASE i < n - 1
    <3>1. i \in 1..n /\ i \in 1..(n - 1) /\ t[i] = stack[i] /\ t[i + 1] = stack[i + 1]
      BY <1>2, <2>2
    <3>2. Awaits(t, i) <=> Awaits(stack, i)
      BY <1>1, <1>2, <2>2, <3>1 DEF Awaits
    <3>3. FrameStands(db, stack, i)
      BY <1>3, <3>1
    <3> QED BY <1>4, <3>1, <3>2, <3>3 DEF FrameStands
  <2>3. CASE i = n - 1
    <3>1. i \in 1..n /\ i \in 1..(n - 1) /\ t[i] = stack[i] /\ i + 1 = n
      BY <1>2, <2>3
    <3>2. Awaits(stack, i) /\ Awaits(t, i)
      BY <1>1, <1>2, <3>1 DEF Awaits, Replaces
    <3>3. FrameStands(db, stack, i)
      BY <1>3, <3>1
    <3>4. CalleeOf(stack[i], Top)
      BY <1>2, <3>1, <3>2, <3>3 DEF FrameStands
    <3>5. CalleeOf(t[i], t[i + 1])
      BY <1>1, <3>1, <3>4 DEF Replaces
    <3> QED BY <1>4, <3>1, <3>2, <3>3, <3>5 DEF FrameStands
  <2> QED BY <1>2, <2>1, <2>2, <2>3
<1>6. Called(t) /\ Answers(e, t)
  BY <1>5, FramesStand
<1>7. Linked(e, t)
  <2> SUFFICES ASSUME NEW h \in Handle, NEW p \in Partitions[h], Live(e, p, BlockIo),
                      ~Child(e, h, p)
               PROVE  \E i \in 1..Len(t) : Stopping(t[i], h, p)
    BY DEF Linked
  <2>1. CASE Live(db, p, BlockIo) /\ ~Child(db, h, p) /\ ~Stopping(Top, h, p)
    <3>1. PICK i \in 1..n : Stopping(stack[i], h, p)
      BY <1>1, <2>1 DEF LayerInv, Layered, Linked
    <3>2. i \in 1..(n - 1)
      BY <1>2, <2>1, <3>1
    <3>3. i \in 1..Len(t) /\ t[i] = stack[i]
      BY <1>2, <3>2
    <3> QED BY <3>1, <3>3
  <2> QED BY <2>1 DEF Relinks
<1> QED BY <1>6, <1>7 DEF Layered

LEMMA Backward ==
  ASSUME HdbInv, LayerInv, stack # <<>>, NEW e, NEW t, Backs(t), Stands(e), Lasts(e),
         Relinks(e, t), Len(stack) > 1 => Settled(e, t[Len(stack) - 1])
  PROVE  Layered(e, t)
<1>1. PICK n : n = Len(stack)
  OBVIOUS
<1>2. /\ n \in Nat /\ n >= 1 /\ Top = stack[n] /\ Len(t) = n - 1
      /\ \A i \in 1..(n - 2) : t[i] = stack[i]
      /\ n > 1 => Alike(t[n - 1], stack[n - 1]) /\ Settled(e, t[n - 1])
  BY <1>1, CallersIs DEF HdbInv, FramesOK, Backs
<1>3. \A i \in 1..n : FrameStands(db, stack, i)
  BY <1>1, FramesStand DEF LayerInv, Layered
<1>4. \A i \in 1..(n - 1) : (Holds(db, stack[i]) => Holds(e, stack[i]))
                         /\ (Settled(db, stack[i]) => Settled(e, stack[i]))
  BY <1>1 DEF Lasts
<1>5. \A i \in 1..(n - 1) : t[i].pc = stack[i].pc /\ t[i].handle = stack[i].handle
                         /\ t[i].guid = stack[i].guid /\ t[i].who = stack[i].who
  <2> SUFFICES ASSUME NEW i \in 1..(n - 1)
               PROVE  t[i].pc = stack[i].pc /\ t[i].handle = stack[i].handle
                      /\ t[i].guid = stack[i].guid /\ t[i].who = stack[i].who
    OBVIOUS
  <2>1. CASE i = n - 1
    BY <1>2, <2>1 DEF Alike
  <2>2. CASE i # n - 1
    BY <1>2, <2>2
  <2> QED BY <2>1, <2>2
<1>6. ASSUME NEW i \in 1..(n - 1) PROVE FrameStands(e, t, i)
  <2>1. FrameStands(db, stack, i) /\ i \in 1..n
    BY <1>2, <1>3
  <2>2. Holds(e, t[i])
    BY <1>4, <1>5, <2>1 DEF FrameStands, Holds
  <2>3. CASE i = n - 1
    <3>1. ~Awaits(t, i) /\ Settled(e, t[i])
      BY <1>2, <2>3 DEF Awaits
    <3> QED BY <2>2, <3>1 DEF FrameStands
  <2>4. CASE i < n - 1
    <3>1. i \in 1..(n - 2) /\ i + 1 \in 1..(n - 1) /\ t[i] = stack[i]
      BY <1>2, <2>4
    <3>2. t[i + 1].pc = stack[i + 1].pc /\ t[i + 1].handle = stack[i + 1].handle
          /\ t[i + 1].guid = stack[i + 1].guid
      BY <1>5, <3>1
    <3>3. Awaits(t, i) <=> Awaits(stack, i)
      BY <1>1, <1>2, <2>4, <3>2 DEF Awaits
    <3>4. Awaits(t, i) => CalleeOf(t[i], t[i + 1])
      BY <2>1, <3>1, <3>2, <3>3 DEF FrameStands, CalleeOf
    <3> QED BY <1>4, <2>1, <2>2, <3>1, <3>3, <3>4 DEF FrameStands
  <2> QED BY <1>2, <2>3, <2>4
<1>7. Called(t) /\ Answers(e, t)
  BY <1>2, <1>6, FramesStand
<1>8. Linked(e, t)
  <2> SUFFICES ASSUME NEW h \in Handle, NEW p \in Partitions[h], Live(e, p, BlockIo),
                      ~Child(e, h, p)
               PROVE  \E i \in 1..Len(t) : Stopping(t[i], h, p)
    BY DEF Linked
  <2>1. Live(db, p, BlockIo) /\ ~Child(db, h, p) /\ ~Stopping(Top, h, p)
    BY <1>1, <1>2 DEF Relinks
  <2>2. PICK i \in 1..n : Stopping(stack[i], h, p)
    BY <1>1, <2>1 DEF LayerInv, Layered, Linked
  <2>3. i \in 1..(n - 1) /\ i \in 1..Len(t)
    BY <1>2, <2>1, <2>2
  <2>4. Stopping(t[i], h, p)
    BY <1>5, <2>2, <2>3 DEF Stopping
  <2> QED BY <2>3, <2>4
<1> QED BY <1>7, <1>8 DEF Layered

\* Interfaces and the openings the layers stand on.
Steady(d, e) == LiveSame(d, e) /\ DisksSame(d, e) /\ KidsSame(d, e)

LEMMA StandsSteady ==
  ASSUME NEW d, NEW e, Steady(d, e), Stands(d)
  PROVE  Stands(e)
<1> SUFFICES ASSUME NEW h \in Handle, NEW p \in Partitions[h]
             PROVE  /\ Live(e, h, DiskIo) => OnDisk(e, h)
                    /\ Live(e, p, BlockIo) => Live(e, h, DiskIo)
  <2> SUFFICES ASSUME NEW h \in Handle PROVE Live(e, h, DiskIo) => OnDisk(e, h)
    BY DEF Stands
  <2> QED BY Names DEF Steady, LiveSame, DisksSame, Stands
<1>1. p \in Handle
  BY PartitionsAre
<1> QED BY <1>1, Names DEF Steady, LiveSame, DisksSame, Stands

\* What a frame knows rests on the layers alone.
LEMMA KnowsSteady ==
  ASSUME NEW d, NEW e, Steady(d, e), NEW f, FrameOK(f)
  PROVE  (Holds(d, f) => Holds(e, f)) /\ (Settled(d, f) => Settled(e, f))
<1>1. f.pc \in {"stopDiskIoEnd", "childStopped"} => f.handle \in Handle
  BY DEF FrameOK, Outside
<1>2. f.pc = "childStopped" => f.who \in Partitions[f.handle] /\ f.who \in Handle
  BY <1>1, PartitionsAre DEF FrameOK
<1>3. Holds(d, f) => Holds(e, f)
  BY <1>1 DEF Holds, Steady, DisksSame
<1>4. Settled(d, f) => Settled(e, f)
  BY <1>1, <1>2, Names DEF Settled, Steady, LiveSame, KidsSame
<1> QED BY <1>3, <1>4

LEMMA LastsSteady ==
  ASSUME HdbInv, stack # <<>>, NEW e, Steady(db, e)
  PROVE  Lasts(e)
<1>1. \A i \in 1..(Len(stack) - 1) : FrameOK(stack[i])
  BY CallersIs DEF HdbInv, FramesOK
<1> QED BY <1>1, KnowsSteady DEF Lasts

LEMMA RelinksSteady ==
  ASSUME NEW e, Steady(db, e), Top.pc # "childStopped", NEW t
  PROVE  Relinks(e, t)
<1> SUFFICES ASSUME NEW h \in Handle, NEW p \in Partitions[h], Live(e, p, BlockIo),
                    ~Child(e, h, p)
             PROVE  Live(db, p, BlockIo) /\ ~Child(db, h, p) /\ ~Stopping(Top, h, p)
  BY DEF Relinks
<1>1. p \in Handle
  BY PartitionsAre
<1> QED BY <1>1, Names DEF Stopping, Steady, LiveSame, KidsSame

LEMMA OnwardSteady ==
  ASSUME HdbInv, LayerInv, stack # <<>>, NEW e, Steady(db, e), Top.pc # "childStopped",
         NEW t, Goes(t), Replaces(t[Len(stack)]),
         \A i \in 1..Len(t) : i >= Len(stack) => FrameStands(e, t, i)
  PROVE  Layered(e, t)
<1>1. Stands(e)
  BY StandsSteady DEF LayerInv, Layered
<1> QED BY <1>1, LastsSteady, RelinksSteady, Onward

LEMMA BackwardSteady ==
  ASSUME HdbInv, LayerInv, stack # <<>>, NEW e, Steady(db, e), Top.pc # "childStopped",
         NEW t, Backs(t), Len(stack) > 1 => Settled(e, t[Len(stack) - 1])
  PROVE  Layered(e, t)
<1>1. Stands(e)
  BY StandsSteady DEF LayerInv, Layered
<1> QED BY <1>1, LastsSteady, RelinksSteady, Backward

\* A function that holds nothing of another's answer.
Free(f) == f.pc \notin {"stopDiskIoEnd", "childStopped", "childrenStopped"}

LEMMA FreeStands ==
  ASSUME NEW t, NEW i, Free(t[i]), NEW e
  PROVE  FrameStands(e, t, i)
BY DEF Free, FrameStands, Holds, Settled, CalleeOf

\* Functions come on top of the whole stack.
LEMMA AboveSteady ==
  ASSUME HdbInv, LayerInv, NEW e, Steady(db, e), NEW w \in Seq(Frames),
         \A i \in 1..Len(w) : Free(w[i]),
         stack # <<>> /\ w # <<>> => w[1].pc \in Outside,
         NEW t, t = stack \o w
  PROVE  Layered(e, t)
<1>1. PICK n, m : n = Len(stack) /\ m = Len(w)
  OBVIOUS
<1>2. /\ n \in Nat /\ m \in Nat /\ Len(t) = n + m
      /\ \A i \in 1..n : t[i] = stack[i]
      /\ \A i \in 1..(n + m) : i > n => t[i] = w[i - n] /\ i - n \in 1..m
  <2>1. stack \in Seq(Frames)
    BY DEF HdbInv, FramesOK
  <2>2. PICK s : s = stack
    OBVIOUS
  <2>3. /\ Len(t) = n + m /\ n \in Nat /\ m \in Nat
        /\ \A i \in 1..(n + m) : t[i] = IF i <= n THEN s[i] ELSE w[i - n]
    BY <1>1, <2>1, <2>2, ConcatProperties
  <2> QED BY <2>2, <2>3
<1>3. Stands(e)
  BY StandsSteady DEF LayerInv, Layered
<1>4. ASSUME NEW i \in 1..Len(t) PROVE FrameStands(e, t, i)
  <2>1. CASE i > n
    BY <1>1, <1>2, <2>1, FreeStands
  <2>2. CASE i <= n
    <3>1. i \in 1..n /\ t[i] = stack[i] /\ FrameOK(stack[i]) /\ FrameStands(db, stack, i)
      BY <1>1, <1>2, <2>2, FramesStand DEF HdbInv, FramesOK, LayerInv, Layered
    <3>2. (Holds(db, stack[i]) => Holds(e, stack[i])) /\ (Settled(db, stack[i]) => Settled(e, stack[i]))
      BY <3>1, KnowsSteady
    <3>3. CASE i < n
      <4>1. t[i + 1] = stack[i + 1]
        BY <1>2, <3>1, <3>3
      <4>2. Awaits(t, i) <=> Awaits(stack, i)
        BY <1>1, <1>2, <3>3, <4>1 DEF Awaits
      <4> QED BY <3>1, <3>2, <4>1, <4>2 DEF FrameStands
    <3>4. CASE i = n
      <4>1. ~Awaits(stack, i)
        BY <1>1, <1>2, <3>4 DEF Awaits
      <4>2. ~Awaits(t, i)
        <5>1. CASE m = 0
          BY <1>2, <3>4, <5>1 DEF Awaits
        <5>2. CASE m # 0
          <6>1. stack # <<>> /\ w # <<>>
            BY <1>1, <1>2, <3>1, <3>4, <5>2
          <6>2. t[i + 1] = w[1]
            BY <1>2, <3>4, <5>2
          <6> QED BY <6>1, <6>2 DEF Awaits
        <5> QED BY <5>1, <5>2
      <4> QED BY <3>1, <3>2, <4>1, <4>2 DEF FrameStands
    <3> QED BY <1>2, <2>2, <3>3, <3>4
  <2> QED BY <1>2, <2>1, <2>2
<1>5. Called(t) /\ Answers(e, t)
  BY <1>4, FramesStand
<1>6. Linked(e, t)
  <2> SUFFICES ASSUME NEW h \in Handle, NEW p \in Partitions[h], Live(e, p, BlockIo),
                      ~Child(e, h, p)
               PROVE  \E i \in 1..Len(t) : Stopping(t[i], h, p)
    BY DEF Linked
  <2>1. Live(db, p, BlockIo) /\ ~Child(db, h, p)
    BY PartitionsAre, Names DEF Steady, LiveSame, KidsSame
  <2>2. PICK i \in 1..n : Stopping(stack[i], h, p)
    BY <1>1, <2>1 DEF LayerInv, Layered, Linked
  <2>3. i \in 1..Len(t) /\ t[i] = stack[i]
    BY <1>2
  <2> QED BY <2>2, <2>3
<1> QED BY <1>3, <1>5, <1>6 DEF Layered

LEMMA GotoGoes ==
  ASSUME HdbInv, stack # <<>>, NEW f \in Frames, NEW t, t = Append(Callers, f)
  PROVE  Goes(t) /\ Len(t) = Len(stack) /\ t[Len(stack)] = f
<1>1. stack \in Seq(Frames)
  BY DEF HdbInv, FramesOK
<1>2. /\ Rests(t) /\ Len(t) = Len(stack) /\ t[Len(stack)] = f
      /\ \A i \in 1..(Len(stack) - 1) : t[i] = stack[i]
  BY <1>1, GotoIs
<1>3. t \in Seq(Frames) /\ Len(stack) <= Len(t)
  BY <1>1, <1>2 DEF Rests
<1> QED BY <1>2, <1>3 DEF Goes

LEMMA PushGoes ==
  ASSUME HdbInv, stack # <<>>, NEW f \in Frames, NEW g \in Frames, NEW t, t = Pushed(f, g)
  PROVE  Goes(t) /\ Len(t) = Len(stack) + 1 /\ t[Len(stack)] = f /\ t[Len(stack) + 1] = g
<1>1. stack \in Seq(Frames)
  BY DEF HdbInv, FramesOK
<1>2. /\ Rests(t) /\ Len(t) = Len(stack) + 1 /\ t[Len(stack)] = f /\ t[Len(stack) + 1] = g
      /\ \A i \in 1..(Len(stack) - 1) : t[i] = stack[i]
  BY <1>1, PushIs
<1> QED BY <1>1, <1>2 DEF Rests, Goes

Returned(ok) ==
  IF Callers = <<>> THEN <<>> ELSE [Callers EXCEPT ![Len(Callers)].ok = ok]

LEMMA ReturnBacks ==
  ASSUME HdbInv, stack # <<>>, NEW ok \in BOOLEAN, NEW t, t = Returned(ok)
  PROVE  Backs(t) /\ (Len(stack) > 1 => t[Len(stack) - 1] = Answered(stack[Len(stack) - 1], ok))
<1>1. stack \in Seq(Frames)
  BY DEF HdbInv, FramesOK
<1>2. /\ Rests(t) /\ Len(t) = Len(stack) - 1
      /\ \A i \in 1..(Len(stack) - 2) : t[i] = stack[i]
      /\ Len(stack) > 1 => t[Len(stack) - 1] = Answered(stack[Len(stack) - 1], ok)
  BY <1>1, ReturnIs DEF Returned
<1>3. PICK n : n = Len(stack)
  OBVIOUS
<1>4. n > 1 => n - 1 \in 1..Len(t) /\ n - 1 < n
  BY <1>1, <1>2, <1>3
<1>5. n > 1 => Alike(t[n - 1], stack[n - 1])
  BY <1>2, <1>3, <1>4 DEF Rests
<1> QED BY <1>2, <1>3, <1>5 DEF Rests, Backs

\* The running frame goes on, calls or returns, and the layers are what they were.
LEMMA GotoSteady ==
  ASSUME HdbInv, LayerInv, stack # <<>>, NEW e, Steady(db, e), Top.pc # "childStopped",
         NEW f \in Frames, Free(f), Replaces(f), NEW t, t = Append(Callers, f)
  PROVE  Layered(e, t)
<1>1. Goes(t) /\ Len(t) = Len(stack) /\ t[Len(stack)] = f
  BY GotoGoes
<1>2. \A i \in 1..Len(t) : i >= Len(stack) => FrameStands(e, t, i)
  <2>1. \A i \in 1..Len(t) : i >= Len(stack) => i = Len(stack)
    BY <1>1 DEF Goes
  <2> QED BY <1>1, <2>1, FreeStands
<1> QED BY <1>1, <1>2, OnwardSteady

LEMMA PushStands ==
  ASSUME HdbInv, stack # <<>>, NEW e, NEW f \in Frames, NEW g \in Frames,
         g.pc \notin Outside, CalleeOf(f, g), Holds(e, f), Free(g),
         NEW t, t = Pushed(f, g)
  PROVE  Goes(t) /\ t[Len(stack)] = f
         /\ \A i \in 1..Len(t) : i >= Len(stack) => FrameStands(e, t, i)
<1>1. Goes(t) /\ Len(t) = Len(stack) + 1 /\ t[Len(stack)] = f /\ t[Len(stack) + 1] = g
  BY PushGoes
<1>2. PICK n : n = Len(stack)
  OBVIOUS
<1>3. n \in Nat
  BY <1>2 DEF HdbInv, FramesOK
<1>4. \A i \in 1..Len(t) : i >= n => i = n \/ i = n + 1
  BY <1>1, <1>2, <1>3
<1>5. FrameStands(e, t, n)
  <2>1. Awaits(t, n)
    BY <1>1, <1>2, <1>3 DEF Awaits
  <2> QED BY <1>1, <1>2, <2>1 DEF FrameStands
<1>6. FrameStands(e, t, n + 1)
  BY <1>1, <1>2, FreeStands
<1> QED BY <1>1, <1>2, <1>4, <1>5, <1>6

LEMMA PushSteady ==
  ASSUME HdbInv, LayerInv, stack # <<>>, NEW e, Steady(db, e), Top.pc # "childStopped",
         NEW f \in Frames, NEW g \in Frames, Replaces(f),
         g.pc \notin Outside, CalleeOf(f, g), Holds(e, f), Free(g),
         NEW t, t = Pushed(f, g)
  PROVE  Layered(e, t)
<1>1. Goes(t) /\ t[Len(stack)] = f
      /\ \A i \in 1..Len(t) : i >= Len(stack) => FrameStands(e, t, i)
  BY PushStands
<1> QED BY <1>1, OnwardSteady

\* The caller of the running function.
LEMMA CallerIs ==
  ASSUME HdbInv, LayerInv, stack # <<>>, Len(stack) > 1, Top.pc \notin Outside,
         NEW c, c = stack[Len(stack) - 1]
  PROVE  c \in Frames /\ FrameOK(c) /\ CalleeOf(c, Top)
<1>1. PICK n : n = Len(stack)
  OBVIOUS
<1>2. n \in Nat /\ n > 1 /\ Top = stack[n]
  BY <1>1, CallersIs DEF HdbInv, FramesOK
<1>3. n - 1 \in 1..n /\ FrameOK(stack[n - 1])
  BY <1>1, <1>2 DEF HdbInv, FramesOK
<1>4. Awaits(stack, n - 1)
  BY <1>1, <1>2 DEF Awaits
<1>5. CalleeOf(stack[n - 1], stack[n])
  BY <1>1, <1>3, <1>4, <1>2 DEF LayerInv, Layered, Called
<1> QED BY <1>1, <1>2, <1>3, <1>5 DEF FrameOK

\* No answer that a driver's Stop relies on.
LEMMA ReturnSettles ==
  ASSUME HdbInv, LayerInv, stack # <<>>, Top.pc \notin Outside,
         NEW ok \in BOOLEAN, ok => Top.pc \notin {"uninstall", "refused"},
         NEW t, t = Returned(ok), NEW e
  PROVE  Backs(t) /\ (Len(stack) > 1 => Settled(e, t[Len(stack) - 1]))
<1>1. Backs(t) /\ (Len(stack) > 1 => t[Len(stack) - 1] = Answered(stack[Len(stack) - 1], ok))
  BY ReturnBacks
<1> SUFFICES ASSUME Len(stack) > 1 PROVE Settled(e, t[Len(stack) - 1])
  BY <1>1
<1>2. PICK c : c = stack[Len(stack) - 1]
  OBVIOUS
<1>3. c \in Frames /\ CalleeOf(c, Top)
  BY <1>2, CallerIs
<1>4. PICK a : a = Answered(c, ok)
  OBVIOUS
<1>5. Alike(a, c) /\ a.ok = ok
  BY <1>3, <1>4, AnsweredIs
<1>6. Settled(e, a)
  BY <1>3, <1>5 DEF Settled, Alike, CalleeOf
<1> QED BY <1>1, <1>2, <1>4, <1>6

LEMMA ReturnSteady ==
  ASSUME HdbInv, LayerInv, stack # <<>>, NEW e, Steady(db, e), Top.pc # "childStopped",
         Top.pc \notin Outside, NEW ok \in BOOLEAN, ok => Top.pc \notin {"uninstall", "refused"},
         NEW t, t = Returned(ok)
  PROVE  Layered(e, t)
BY ReturnSettles, BackwardSteady

-----------------------------------------------------------------------------
(* Where each step leaves the running frame.                                *)

GoesTo(pc, left, who, done) ==
  \E f \in Frames : stack' = Append(Callers, f) /\ Has(f, Top, pc, left, who, done)
CallsFrom(pc, left, who, done, g) ==
  \E f \in Frames : stack' = Pushed(f, g) /\ Has(f, Top, pc, left, who, done)

LEMMA WentTo ==
  ASSUME HdbInv, stack # <<>>, NEW pc \in Pcs, Goto(Going(Top, pc))
  PROVE  GoesTo(pc, Top.left, Top.who, Top.done)
<1>1. Top \in Frames
  BY TopFacts
<1>2. PICK f : f = Going(Top, pc)
  OBVIOUS
<1>3. Has(f, Top, pc, Top.left, Top.who, Top.done)
  BY <1>1, <1>2, GoingIs
<1>4. stack' = Append(Callers, f) /\ f \in Frames
  BY <1>2, <1>3, Zenon DEF Goto, Has
<1> QED BY <1>3, <1>4, Zenon DEF GoesTo

LEMMA CalledFrom ==
  ASSUME HdbInv, stack # <<>>, NEW pc \in Pcs, NEW g, Push(Going(Top, pc), g)
  PROVE  CallsFrom(pc, Top.left, Top.who, Top.done, g)
<1>1. Top \in Frames
  BY TopFacts
<1>2. PICK f : f = Going(Top, pc)
  OBVIOUS
<1>3. Has(f, Top, pc, Top.left, Top.who, Top.done)
  BY <1>1, <1>2, GoingIs
<1>4. stack' = Pushed(f, g) /\ f \in Frames
  BY <1>2, <1>3, Zenon DEF Push, Pushed, Has
<1> QED BY <1>3, <1>4, Zenon DEF CallsFrom

LEMMA ConnectSupportedGoes ==
  ASSUME HdbInv, ConnectSupported
  PROVE  /\ stack # <<>> /\ Top.pc = "connect" /\ Top.handle \in Handle /\ UNCHANGED db
         /\ \E driver \in Top.left :
              /\ GoesTo("start", Top.left \ {driver}, driver, Top.done)
              /\ Supported(db, driver, Top.handle)
<1>1. /\ stack # <<>> /\ Top.pc = "connect" /\ UNCHANGED db
  BY DEF ConnectSupported, At
<1>2. PICK driver \in Top.left : /\ Goto(Moving(Top, "start", Top.left \ {driver}, driver))
                                 /\ Supported(db, driver, Top.handle)
  BY Zenon DEF ConnectSupported, Moving
<1>3. Top \in Frames /\ FrameOK(Top)
  BY <1>1, TopFacts
<1>4. Top.left \subseteq Driver /\ Top.handle \in Handle
  BY <1>1, <1>3 DEF FrameOK, Outside
<1>5. PICK pc \in Pcs : pc = "start"
  BY PcsAre
<1>6. PICK f : f = Moving(Top, pc, Top.left \ {driver}, driver)
  OBVIOUS
<1>7. Has(f, Top, pc, Top.left \ {driver}, driver, Top.done)
  BY <1>3, <1>4, <1>6, MovingIs
<1>8. stack' = Append(Callers, f) /\ f \in Frames
  BY <1>2, <1>5, <1>6, <1>7, Zenon DEF Goto, Has
<1>9. GoesTo("start", Top.left \ {driver}, driver, Top.done)
  BY <1>5, <1>7, <1>8, Zenon DEF GoesTo
<1> QED BY <1>1, <1>2, <1>4, <1>9

LEMMA ConnectStartGoes ==
  ASSUME HdbInv, ConnectStart
  PROVE  /\ stack # <<>> /\ Top.pc = "start" /\ Top.handle \in Handle
         /\ db' = Start(db, Top.who, Top.handle)
         /\ GoesTo("connect", Top.left, Top.who, Top.done)
<1>1. /\ stack # <<>> /\ Top.pc = "start" /\ db' = Start(db, Top.who, Top.handle)
      /\ Goto(Going(Top, "connect"))
  BY Zenon DEF ConnectStart, At, Going
<1>2. PICK pc \in Pcs : pc = "connect"
  BY PcsAre
<1>3. GoesTo(pc, Top.left, Top.who, Top.done)
  BY <1>1, <1>2, WentTo
<1>4. Top.handle \in Handle
  BY <1>1, TopFacts DEF FrameOK, Outside
<1> QED BY <1>1, <1>2, <1>3, <1>4

LEMMA ConnectChildrenGoes ==
  ASSUME HdbInv, ConnectChildren
  PROVE  /\ stack # <<>> /\ Top.pc = "connect" /\ Top.handle \in Handle /\ UNCHANGED db
         /\ ~ \E driver \in Top.left : Supported(db, driver, Top.handle)
         /\ \E kids \in Seq(Handle) :
              /\ Range(kids) = ChildrenOf(db, Top.handle, Driver)
              /\ kids = <<>> => stack' = Returned(TRUE)
              /\ kids # <<>> => stack' = Callers \o Connects(kids)
<1>1. /\ stack # <<>> /\ Top.pc = "connect" /\ UNCHANGED db
      /\ ~ \E driver \in Top.left : Supported(db, driver, Top.handle)
  BY DEF ConnectChildren, At
<1>2. PICK S : S = ChildrenOf(db, Top.handle, Driver)
  OBVIOUS
<1>3. PICK kids : kids = SetToSeq(S)
  OBVIOUS
<1>4. IF kids = <<>> THEN Return(TRUE) ELSE stack' = Callers \o Connects(kids)
  BY <1>2, <1>3, Zenon DEF ConnectChildren, Connects
<1>5. Top.handle \in Handle /\ DbInv(db)
  BY <1>1, TopFacts DEF FrameOK, Outside
<1>6. kids \in Seq(Handle) /\ Range(kids) = S
  <2>1. S \in SUBSET Handle /\ IsFiniteSet(S)
    BY <1>2, <1>5, ChildrenAre
  <2> QED BY <1>3, <2>1, OrderIs DEF Lists
<1>7. /\ kids = <<>> => stack' = Returned(TRUE)
      /\ kids # <<>> => stack' = Callers \o Connects(kids)
  BY <1>4 DEF Return, Returned
<1> QED BY <1>1, <1>2, <1>5, <1>6, <1>7

LEMMA DisconnectCollectGoes ==
  ASSUME HdbInv, DisconnectCollect
  PROVE  /\ stack # <<>> /\ Top.pc = "disconnectAll" /\ UNCHANGED db
         /\ \/ stack' = Returned(TRUE)
            \/ \E f \in Frames : stack' = Append(Callers, f) /\ f.pc = "disconnect"
<1>1. /\ stack # <<>> /\ Top.pc = "disconnectAll" /\ UNCHANGED db
  BY DEF DisconnectCollect, At
<1>2. PICK agents : agents = Managing(db, Top.handle)
  OBVIOUS
<1>3. Top.handle \in Handle /\ DbInv(db)
  BY <1>1, TopFacts DEF FrameOK, Outside
<1>4. agents \in SUBSET Driver
  BY <1>2, <1>3, ManagingAre
<1>5. IF agents = {} THEN Return(TRUE) ELSE Goto(Disconnect(Top.handle, agents))
  BY <1>2, Zenon DEF DisconnectCollect
<1>6. PICK f : f = Disconnect(Top.handle, agents)
  OBVIOUS
<1>7. FrameOK(f) /\ f.pc = "disconnect"
  BY <1>3, <1>4, <1>6, DisconnectIs
<1>8. stack' = Returned(TRUE) \/ stack' = Append(Callers, f)
  BY <1>5, <1>6, Zenon DEF Return, Returned, Goto
<1> QED BY <1>1, <1>7, <1>8 DEF FrameOK

\* A driver does not manage the controller and is passed over, or its children are to
\* be stopped, or the driver itself.
LEMMA DisconnectNextGoes ==
  ASSUME HdbInv, DisconnectNext
  PROVE  /\ stack # <<>> /\ Top.pc = "disconnect" /\ Top.handle \in Handle /\ UNCHANGED db
         /\ \E driver \in Driver :
              \/ GoesTo("disconnect", Top.left \ {driver}, driver, Top.done)
              \/ \E kids \in SUBSET Partitions[Top.handle], pc \in {"stopped", "childrenStopped"} :
                   /\ kids = ChildrenOf(db, Top.handle, {driver})
                   /\ pc = "stopped" <=> kids = {}
                   /\ CallsFrom(pc, Top.left \ {driver}, driver, Top.done,
                                Stop(driver, Top.handle, kids))
<1>1. /\ stack # <<>> /\ Top.pc = "disconnect" /\ UNCHANGED db
  BY DEF DisconnectNext, At
<1>2. PICK driver \in Top.left :
          LET kids == ChildrenOf(db, Top.handle, {driver})
              next == Visiting(Top, Top.left \ {driver}, driver)
          IN  IF driver \notin Managing(db, Top.handle) THEN Goto(next)
              ELSE Push([next EXCEPT !.pc = IF kids = {} THEN "stopped" ELSE "childrenStopped"],
                        Stop(driver, Top.handle, kids))
  BY Zenon DEF DisconnectNext, Visiting
<1>3. /\ FrameOK(Top) /\ Top.handle \in Handle /\ DbInv(db) /\ Top \in Frames
      /\ Top.left \subseteq Driver
  BY <1>1, TopFacts DEF FrameOK, Outside, Agents
<1>4. PICK left : left = Top.left \ {driver}
  OBVIOUS
<1>5. /\ left \in SUBSET Top.left /\ driver \in Driver
      /\ driver \in {Top.who} \cup Driver \cup Handle
  BY <1>3, <1>4
<1>6. PICK kids : kids = ChildrenOf(db, Top.handle, {driver})
  OBVIOUS
<1>7. PICK pc : pc = IF kids = {} THEN "stopped" ELSE "childrenStopped"
  OBVIOUS
<1>8. PICK v : v = Visiting(Top, left, driver)
  OBVIOUS
<1>9. Has(v, Top, Top.pc, left, driver, Top.done) /\ v \in Frames
  <2>1. Has(v, Top, Top.pc, left, driver, Top.done)
    BY <1>3, <1>5, <1>8, VisitingIs
  <2> QED BY <2>1 DEF Has
<1>10. Goto(v) \/ Push(Going(v, pc), Stop(driver, Top.handle, kids))
  BY <1>2, <1>4, <1>6, <1>7, <1>8, Zenon DEF Going
<1>11. ASSUME Goto(v)
       PROVE  GoesTo("disconnect", left, driver, Top.done)
  <2>1. stack' = Append(Callers, v)
    BY <1>11 DEF Goto
  <2> QED BY <1>1, <1>9, <2>1, Zenon DEF GoesTo
<1>12. ASSUME Push(Going(v, pc), Stop(driver, Top.handle, kids))
       PROVE  CallsFrom(pc, left, driver, Top.done, Stop(driver, Top.handle, kids))
  <2>1. PICK f : f = Going(v, pc)
    OBVIOUS
  <2>2. pc \in Pcs
    BY <1>7 DEF Pcs, Sections, Agents
  <2>3. Has(f, v, pc, left, driver, Top.done)
    <3>1. Has(f, v, pc, v.left, v.who, v.done)
      BY <1>9, <2>1, <2>2, GoingIs
    <3> QED BY <1>9, <3>1 DEF Has
  <2>4. Has(f, Top, pc, left, driver, Top.done) /\ f \in Frames
    BY <1>9, <2>3 DEF Has
  <2>5. stack' = Pushed(f, Stop(driver, Top.handle, kids))
    BY <1>12, <2>1, Zenon DEF Push, Pushed
  <2> QED BY <2>4, <2>5, Zenon DEF CallsFrom
<1>13. kids \in SUBSET Partitions[Top.handle]
  BY <1>3, <1>6, ChildrenAre
<1>14. pc \in {"stopped", "childrenStopped"} /\ (pc = "stopped" <=> kids = {})
  BY <1>7
<1> QED BY <1>1, <1>3, <1>4, <1>5, <1>6, <1>10, <1>11, <1>12, <1>13, <1>14

LEMMA DisconnectChildrenStoppedGoes ==
  ASSUME HdbInv, DisconnectChildrenStopped
  PROVE  /\ stack # <<>> /\ Top.pc = "childrenStopped" /\ Top.handle \in Handle
         /\ Top.who \in Driver /\ UNCHANGED db
         /\ \/ GoesTo("disconnect", Top.left, Top.who, Top.done)
            \/ /\ Top.ok
               /\ CallsFrom("stopped", Top.left, Top.who, Top.done, Stop(Top.who, Top.handle, {}))
<1>1. /\ stack # <<>> /\ Top.pc = "childrenStopped" /\ UNCHANGED db
      /\ IF Top.ok THEN Push(Going(Top, "stopped"), Stop(Top.who, Top.handle, {}))
         ELSE Goto(Going(Top, "disconnect"))
  BY Zenon DEF DisconnectChildrenStopped, At, Going
<1>2. Top.handle \in Handle /\ Top.who \in Driver
  BY <1>1, TopFacts DEF FrameOK, Outside, Agents
<1>3. PICK pc \in Pcs : pc = "stopped"
  BY DEF Pcs, Sections, Agents
<1>4. PICK qc \in Pcs : qc = "disconnect"
  BY DEF Pcs, Sections, Agents
<1>5. CASE ~Top.ok
  <2>1. Goto(Going(Top, qc))
    BY <1>1, <1>4, <1>5
  <2>2. GoesTo(qc, Top.left, Top.who, Top.done)
    BY <1>1, <2>1, WentTo
  <2> QED BY <1>1, <1>2, <1>4, <2>2
<1>6. CASE Top.ok
  <2>1. PICK g : g = Stop(Top.who, Top.handle, {})
    OBVIOUS
  <2>2. Push(Going(Top, pc), g)
    BY <1>1, <1>3, <1>6, <2>1
  <2>3. CallsFrom(pc, Top.left, Top.who, Top.done, g)
    BY <1>1, <2>2, CalledFrom
  <2> QED BY <1>1, <1>2, <1>3, <1>6, <2>1, <2>3
<1> QED BY <1>5, <1>6

LEMMA DisconnectStoppedGoes ==
  ASSUME HdbInv, DisconnectStopped
  PROVE  /\ stack # <<>> /\ Top.pc = "stopped" /\ UNCHANGED db
         /\ \E done \in BOOLEAN : GoesTo("disconnect", Top.left, Top.who, done)
<1>1. /\ stack # <<>> /\ Top.pc = "stopped" /\ UNCHANGED db
      /\ Goto(Marking(Top, "disconnect", Top.done \/ Top.ok))
  BY Zenon DEF DisconnectStopped, At, Marking
<1>2. Top \in Frames /\ Top.done \in BOOLEAN /\ Top.ok \in BOOLEAN
  BY <1>1, TopFacts
<1>3. PICK done \in BOOLEAN : done = (Top.done \/ Top.ok)
  BY <1>2
<1>4. PICK pc \in Pcs : pc = "disconnect"
  BY DEF Pcs, Sections, Agents
<1>5. PICK f : f = Marking(Top, pc, done)
  OBVIOUS
<1>6. Has(f, Top, pc, Top.left, Top.who, done)
  BY <1>2, <1>5, MarkingIs
<1>7. stack' = Append(Callers, f) /\ f \in Frames
  BY <1>1, <1>3, <1>4, <1>5, <1>6, Zenon DEF Goto, Has
<1>8. GoesTo("disconnect", Top.left, Top.who, done)
  BY <1>4, <1>6, <1>7, Zenon DEF GoesTo
<1> QED BY <1>1, <1>8

LEMMA StopDiskIoGoes ==
  ASSUME HdbInv, StopDiskIo
  PROVE  /\ stack # <<>> /\ Top.pc = "stopDiskIo" /\ Top.handle \in Handle
         /\ db' = Add(db, Top.handle, DiskIo, Opened(DiskIoDxe, Top.handle, "get"))
         /\ \/ stack' = Returned(FALSE)
            \/ /\ Live(db, Top.handle, DiskIo)
               /\ CallsFrom("stopDiskIoEnd", Top.left, Top.who, Top.done,
                            Uninstall(Top.handle, DiskIo))
<1>1. /\ stack # <<>> /\ Top.pc = "stopDiskIo"
      /\ db' = Add(db, Top.handle, DiskIo, Opened(DiskIoDxe, Top.handle, "get"))
      /\ \/ Return(FALSE)
         \/ /\ Live(db, Top.handle, DiskIo)
            /\ Push(Going(Top, "stopDiskIoEnd"), Uninstall(Top.handle, DiskIo))
  BY Zenon DEF StopDiskIo, At, Going
<1>2. Top.handle \in Handle
  BY <1>1, TopFacts DEF FrameOK, Outside
<1>3. PICK pc \in Pcs : pc = "stopDiskIoEnd"
  BY DEF Pcs, Sections
<1>4. PICK g : g = Uninstall(Top.handle, DiskIo)
  OBVIOUS
<1>5. Push(Going(Top, pc), g) => CallsFrom(pc, Top.left, Top.who, Top.done, g)
  BY <1>1, CalledFrom
<1> QED BY <1>1, <1>2, <1>3, <1>4, <1>5, Zenon DEF Return, Returned

LEMMA StopDiskIoEndGoes ==
  ASSUME HdbInv, StopDiskIoEnd
  PROVE  /\ stack # <<>> /\ Top.pc = "stopDiskIoEnd" /\ Top.handle \in Handle
         /\ Top.ok \in BOOLEAN /\ stack' = Returned(Top.ok)
         /\ db' = IF Top.ok
                  THEN CoreCloseProtocol(db, Top.handle, BlockIo, DiskIoDxe, Top.handle) ELSE db
<1>1. /\ stack # <<>> /\ Top.pc = "stopDiskIoEnd" /\ stack' = Returned(Top.ok)
      /\ db' = IF Top.ok
               THEN CoreCloseProtocol(db, Top.handle, BlockIo, DiskIoDxe, Top.handle) ELSE db
  BY Zenon DEF StopDiskIoEnd, At, Return, Returned
<1> QED BY <1>1, TopFacts DEF FrameOK, Outside

LEMMA StopBusGoes ==
  ASSUME HdbInv, StopBus
  PROVE  /\ stack # <<>> /\ Top.pc = "stopBus" /\ Top.handle \in Handle
         /\ stack' = Returned(TRUE)
         /\ db' = CoreCloseProtocol(db, Top.handle, DiskIo, PartitionDxe, Top.handle)
<1>1. /\ stack # <<>> /\ Top.pc = "stopBus" /\ stack' = Returned(TRUE)
      /\ db' = CoreCloseProtocol(db, Top.handle, DiskIo, PartitionDxe, Top.handle)
  BY Zenon DEF StopBus, At, Return, Returned
<1> QED BY <1>1, TopFacts DEF FrameOK, Outside

LEMMA StopChildGoes ==
  ASSUME HdbInv, StopChild
  PROVE  /\ stack # <<>> /\ Top.pc = "stopChildren" /\ Top.handle \in Handle
         /\ \E c \in Top.left :
              /\ c \in Partitions[Top.handle]
              /\ CallsFrom("childStopped", Top.left \ {c}, c, Top.done, Uninstall(c, BlockIo))
              /\ db' = CoreCloseProtocol(
                         Add(db, c, BlockIo, Opened(PartitionDxe, Top.handle, "get")),
                         Top.handle, DiskIo, PartitionDxe, c)
<1>1. /\ stack # <<>> /\ Top.pc = "stopChildren"
  BY DEF StopChild, At
<1>2. PICK c \in Top.left :
        /\ Push(Moving(Top, "childStopped", Top.left \ {c}, c), Uninstall(c, BlockIo))
        /\ db' = CoreCloseProtocol(
                   Add(db, c, BlockIo, Opened(PartitionDxe, Top.handle, "get")),
                   Top.handle, DiskIo, PartitionDxe, c)
  BY Zenon DEF StopChild, Moving
<1>3. /\ Top.handle \in Handle /\ Top \in Frames /\ Top.left \subseteq Partitions[Top.handle]
  BY <1>1, TopFacts DEF FrameOK, Outside
<1>4. c \in Partitions[Top.handle] /\ c \in Handle
  BY <1>2, <1>3, PartitionsAre
<1>5. PICK pc \in Pcs : pc = "childStopped"
  BY DEF Pcs, Sections
<1>6. PICK left \in SUBSET Top.left : left = Top.left \ {c}
  OBVIOUS
<1>7. PICK f : f = Moving(Top, pc, left, c)
  OBVIOUS
<1>8. Has(f, Top, pc, left, c, Top.done)
  <2>1. c \in {Top.who} \cup Driver \cup Handle
    BY <1>4
  <2> QED BY <1>3, <1>7, <2>1, MovingIs
<1>9. stack' = Pushed(f, Uninstall(c, BlockIo)) /\ f \in Frames
  BY <1>2, <1>5, <1>6, <1>7, <1>8, Zenon DEF Push, Pushed, Has
<1>10. CallsFrom("childStopped", Top.left \ {c}, c, Top.done, Uninstall(c, BlockIo))
  BY <1>5, <1>6, <1>8, <1>9, Zenon DEF CallsFrom
<1> QED BY <1>1, <1>2, <1>3, <1>4, <1>10

LEMMA ChildStoppedGoes ==
  ASSUME HdbInv, ChildStopped
  PROVE  /\ stack # <<>> /\ Top.pc = "childStopped" /\ Top.handle \in Handle
         /\ Top.who \in Partitions[Top.handle]
         /\ db' = IF Top.ok THEN db
                  ELSE Add(db, Top.handle, DiskIo, Opened(PartitionDxe, Top.who, "child"))
         /\ \E done \in BOOLEAN :
              done = (Top.done \/ ~Top.ok) /\ GoesTo("stopChildren", Top.left, Top.who, done)
<1>1. /\ stack # <<>> /\ Top.pc = "childStopped"
      /\ db' = IF Top.ok THEN db
               ELSE Add(db, Top.handle, DiskIo, Opened(PartitionDxe, Top.who, "child"))
      /\ Goto(Marking(Top, "stopChildren", Top.done \/ ~Top.ok))
  BY Zenon DEF ChildStopped, At, Marking
<1>2. /\ Top.handle \in Handle /\ Top \in Frames /\ Top.who \in Partitions[Top.handle]
      /\ Top.done \in BOOLEAN /\ Top.ok \in BOOLEAN
  BY <1>1, TopFacts DEF FrameOK, Outside
<1>3. PICK done \in BOOLEAN : done = (Top.done \/ ~Top.ok)
  BY <1>2
<1>4. PICK pc \in Pcs : pc = "stopChildren"
  BY DEF Pcs, Sections
<1>5. PICK f : f = Marking(Top, pc, done)
  OBVIOUS
<1>6. Has(f, Top, pc, Top.left, Top.who, done)
  BY <1>2, <1>5, MarkingIs
<1>7. stack' = Append(Callers, f) /\ f \in Frames
  BY <1>1, <1>3, <1>4, <1>5, <1>6, Zenon DEF Goto, Has
<1>8. GoesTo("stopChildren", Top.left, Top.who, done)
  BY <1>4, <1>6, <1>7, Zenon DEF GoesTo
<1> QED BY <1>1, <1>2, <1>3, <1>8

LEMMA DisconnectUserGoes ==
  ASSUME HdbInv, DisconnectUser
  PROVE  /\ stack # <<>> /\ Top.pc \in Looking /\ UNCHANGED db
         /\ \E agents \in SUBSET Driver :
              CallsFrom(Top.pc, Top.left, Top.who, TRUE, Disconnect(Top.handle, agents))
<1>1. AtRelease /\ Admitted /\ UNCHANGED db
  BY DEF DisconnectUser
<1>2. PICK i \in Users : Push([Top EXCEPT !.done = TRUE], Disconnect(Top.handle, {i.agent}))
  BY Zenon DEF DisconnectUser
<1>3. /\ stack # <<>> /\ Top.pc \in Looking /\ Top.handle \in Handle /\ Top.guid \in Guid
      /\ Top \in Frames
  BY <1>1, LookingTop
<1>4. i.agent = OwnerOf(Top.guid)
  BY <1>2, <1>3, ManagingAre DEF Users, HdbInv
<1>5. PICK agents \in SUBSET Driver : agents = {i.agent}
  BY <1>3, <1>4, Names DEF OwnerOf
<1>6. PICK done \in BOOLEAN : done = TRUE
  OBVIOUS
<1>7. PICK f : f = [Top EXCEPT !.done = done]
  OBVIOUS
<1>8. Has(f, Top, Top.pc, Top.left, Top.who, done)
  BY <1>3, <1>7, MarkedIs
<1>9. stack' = Pushed(f, Disconnect(Top.handle, agents)) /\ f \in Frames
  BY <1>2, <1>5, <1>6, <1>7, <1>8, Zenon DEF Push, Pushed, Has
<1>10. CallsFrom(Top.pc, Top.left, Top.who, TRUE, Disconnect(Top.handle, agents))
  BY <1>6, <1>8, <1>9, Zenon DEF CallsFrom
<1> QED BY <1>1, <1>3, <1>10

LEMMA RefuseGoes ==
  ASSUME HdbInv, Refuse
  PROVE  /\ AtRelease /\ Top.pc \in {"uninstall", "reinstall"}
         /\ db' = (IF Top.ok THEN Emptied ELSE db)
         /\ CallsFrom("refused", Top.left, Top.who, Top.done, Connect(Top.handle))
<1>1. /\ AtRelease /\ db' = (IF Top.ok THEN Emptied ELSE db) /\ Top.pc # "exclusive"
      /\ Push(Going(Top, "refused"), Connect(Top.handle))
  BY Zenon DEF Refuse, Going
<1>2. stack # <<>> /\ Top.pc \in Looking
  BY <1>1, LookingTop
<1>3. PICK pc \in Pcs : pc = "refused"
  BY PcsAre
<1>4. PICK g : g = Connect(Top.handle)
  OBVIOUS
<1>5. CallsFrom(pc, Top.left, Top.who, Top.done, g)
  BY <1>1, <1>2, <1>3, <1>4, CalledFrom
<1> QED BY <1>1, <1>2, <1>3, <1>4, <1>5 DEF Looking

LEMMA CoreReinstallProtocolInterfaceGoes ==
  ASSUME HdbInv, CoreReinstallProtocolInterface
  PROVE  /\ AtRelease /\ Top.pc = "reinstall" /\ Top.ok /\ Users = {} /\ ~Kept
         /\ Live(db, Top.handle, Top.guid)
         /\ db' = InsertTail(CoreRemoveInterfaceFromProtocol(Emptied, Top.handle, Top.guid),
                             Top.handle, Top.guid)
         /\ CallsFrom("reconnected", Top.left, Top.who, Top.done, Connect(Top.handle))
<1>1. /\ AtRelease /\ Top.ok /\ Users = {} /\ ~Kept /\ Admitted /\ Top.pc = "reinstall"
      /\ db' = InsertTail(CoreRemoveInterfaceFromProtocol(Emptied, Top.handle, Top.guid),
                          Top.handle, Top.guid)
      /\ Push(Going(Top, "reconnected"), Connect(Top.handle))
  BY Zenon DEF CoreReinstallProtocolInterface, Released, Going
<1>2. stack # <<>> /\ Live(db, Top.handle, Top.guid)
  BY <1>1, LookingTop
<1>3. PICK pc \in Pcs : pc = "reconnected"
  BY PcsAre
<1>4. PICK g : g = Connect(Top.handle)
  OBVIOUS
<1>5. CallsFrom(pc, Top.left, Top.who, Top.done, g)
  BY <1>1, <1>2, <1>3, <1>4, CalledFrom
<1> QED BY <1>1, <1>2, <1>3, <1>4, <1>5

-----------------------------------------------------------------------------
(* The layers stand after each step.                                        *)

LEMMA Layering ==
  ASSUME NEW e, e = db', NEW t, t = stack', Layered(e, t)
  PROVE  LayerInv'
<1>1. Layered(db', stack')
  BY Zenon
<1> QED BY <1>1 DEF LayerInv, Layered, Stands, Linked, Called, Answers, Awaits, Stopping,
     CalleeOf, Holds, Settled, OnDisk, Manages, Child, Live

\* The functions whose answer another's Stop waits for.
Answering == {"uninstall", "refused", "stopChildren", "childStopped"}

LEMMA FreeReplaces ==
  ASSUME Top.pc \notin Outside, Top.pc \notin Answering, NEW f, f.pc \notin Outside
  PROVE  Replaces(f)
BY DEF Replaces, Answering, CalleeOf

LEMMA SameReplaces ==
  ASSUME Top.pc \notin Outside, NEW f, f.pc \notin Outside,
         f.handle = Top.handle, f.guid = Top.guid,
         \/ f.pc = Top.pc
         \/ Top.pc \in {"uninstall", "reinstall"} /\ f.pc = "refused"
         \/ Top.pc \in {"stopChildren", "childStopped"} /\ f.pc \in {"stopChildren", "childStopped"}
  PROVE  Replaces(f)
BY DEF Replaces, CalleeOf

LEMMA GoesSteady ==
  ASSUME HdbInv, LayerInv, stack # <<>>, NEW e, e = db', Steady(db, e),
         Top.pc \notin Outside, Top.pc \notin Answering,
         NEW f \in Frames, f.pc \notin Outside, Free(f), stack' = Append(Callers, f)
  PROVE  LayerInv'
<1>1. PICK t : t = stack'
  OBVIOUS
<1>2. t = Append(Callers, f)
  BY <1>1
<1>3. Replaces(f) /\ Top.pc # "childStopped"
  BY FreeReplaces DEF Answering
<1>4. Layered(e, t)
  BY <1>2, <1>3, GotoSteady
<1> QED BY <1>1, <1>4, Layering

LEMMA CallsSteady ==
  ASSUME HdbInv, LayerInv, stack # <<>>, NEW e, e = db', Steady(db, e),
         Top.pc # "childStopped",
         NEW f \in Frames, NEW g \in Frames, Replaces(f),
         g.pc \notin Outside, CalleeOf(f, g), Holds(e, f), Free(g), stack' = Pushed(f, g)
  PROVE  LayerInv'
<1>1. PICK t : t = stack'
  OBVIOUS
<1>2. t = Pushed(f, g)
  BY <1>1
<1>3. Layered(e, t)
  BY <1>2, PushSteady
<1> QED BY <1>1, <1>3, Layering

LEMMA ReturnsSteady ==
  ASSUME HdbInv, LayerInv, stack # <<>>, NEW e, e = db', Steady(db, e),
         Top.pc # "childStopped", Top.pc \notin Outside,
         NEW ok \in BOOLEAN, ok => Top.pc \notin {"uninstall", "refused"}, stack' = Returned(ok)
  PROVE  LayerInv'
<1>1. PICK t : t = stack'
  OBVIOUS
<1>2. t = Returned(ok)
  BY <1>1
<1>3. Layered(e, t)
  BY <1>2, ReturnSteady
<1> QED BY <1>1, <1>3, Layering

LEMMA SteadySame ==
  ASSUME UNCHANGED db
  PROVE  \E e : e = db' /\ Steady(db, e) /\ BusesSame(db, e) /\ ClaimsSame(db, e)
<1>1. PICK e : e = db
  OBVIOUS
<1>2. Steady(db, e) /\ BusesSame(db, e) /\ ClaimsSame(db, e)
  BY <1>1 DEF Steady, LiveSame, DisksSame, KidsSame, BusesSame, ClaimsSame
<1> QED BY <1>1, <1>2

LEMMA GoesToSteady ==
  ASSUME HdbInv, LayerInv, stack # <<>>, NEW e, e = db', Steady(db, e),
         Top.pc \notin Outside, Top.pc \notin Answering,
         NEW pc, pc \notin Outside, pc \notin {"stopDiskIoEnd", "childStopped", "childrenStopped"},
         NEW left, NEW who, NEW done, GoesTo(pc, left, who, done)
  PROVE  LayerInv'
<1>1. PICK f \in Frames : stack' = Append(Callers, f) /\ Has(f, Top, pc, left, who, done)
  BY DEF GoesTo
<1>2. f.pc \notin Outside /\ Free(f)
  BY <1>1 DEF Has, Free
<1> QED BY <1>1, <1>2, GoesSteady

LEMMA ConnectSupportedLayers ==
  ASSUME HdbInv, LayerInv, ConnectSupported
  PROVE  LayerInv'
<1>1. /\ stack # <<>> /\ Top.pc = "connect" /\ UNCHANGED db
      /\ \E left, who : GoesTo("start", left, who, Top.done)
  BY ConnectSupportedGoes
<1>2. PICK e : e = db' /\ Steady(db, e)
  BY <1>1, SteadySame
<1>3. PICK left, who : GoesTo("start", left, who, Top.done)
  BY <1>1
<1>4. PICK pc : pc = "start"
  OBVIOUS
<1>5. /\ GoesTo(pc, left, who, Top.done) /\ pc \notin Outside
      /\ pc \notin {"stopDiskIoEnd", "childStopped", "childrenStopped"}
  BY <1>3, <1>4 DEF Outside
<1>6. Top.pc \notin Outside /\ Top.pc \notin Answering
  BY <1>1 DEF Outside, Answering
<1> QED BY <1>1, <1>2, <1>5, <1>6, GoesToSteady

\* Connect frames in place of the running one.
Spreads(t, kids) ==
  /\ Goes(t) /\ Len(t) = Len(stack) - 1 + Len(kids)
  /\ \A i \in 1..Len(kids) : t[Len(stack) - 1 + i] = Connect(kids[i])
  /\ \A i \in 1..Len(t) : i >= Len(stack) =>
       \E k \in 1..Len(kids) : i = Len(stack) - 1 + k /\ t[i] = Connect(kids[k])

LEMMA ConnectsGo ==
  ASSUME HdbInv, stack # <<>>, NEW kids \in Seq(Handle), kids # <<>>,
         NEW t, t = Callers \o Connects(kids)
  PROVE  Spreads(t, kids)
<1>1. PICK n, m : n = Len(stack) /\ m = Len(kids)
  OBVIOUS
<1>2. PICK c, w : c = Callers /\ w = Connects(kids)
  OBVIOUS
<1>3. /\ n \in Nat /\ n >= 1 /\ c \in Seq(Frames) /\ Len(c) = n - 1
      /\ \A i \in 1..(n - 1) : c[i] = stack[i]
  <2>1. stack \in Seq(Frames)
    BY DEF HdbInv, FramesOK
  <2> QED BY <1>1, <1>2, <2>1, CallersIs
<1>4. w \in Seq(Frames) /\ Len(w) = m /\ \A i \in 1..m : w[i] = Connect(kids[i])
  BY <1>1, <1>2, ConnectsIs
<1>5. m \in Nat /\ m >= 1
  BY <1>1
<1>6. /\ t \in Seq(Frames) /\ Len(t) = n - 1 + m
      /\ \A i \in 1..(n - 1 + m) : t[i] = IF i <= n - 1 THEN c[i] ELSE w[i - (n - 1)]
  <2>1. /\ c \o w \in Seq(Frames) /\ Len(c \o w) = Len(c) + Len(w)
        /\ \A i \in 1..(Len(c) + Len(w)) : (c \o w)[i] = IF i <= Len(c) THEN c[i] ELSE w[i - Len(c)]
    BY <1>3, <1>4, ConcatProperties
  <2> QED BY <1>2, <1>3, <1>4, <2>1
<1>7. \A i \in 1..m : t[n - 1 + i] = w[i]
  <2> SUFFICES ASSUME NEW i \in 1..m PROVE t[n - 1 + i] = w[i]
    OBVIOUS
  <2>1. PICK j : j = n - 1 + i
    OBVIOUS
  <2>2. j \in 1..(n - 1 + m) /\ ~(j <= n - 1) /\ j - (n - 1) = i
    BY <1>3, <1>5, <2>1
  <2>3. t[j] = w[j - (n - 1)]
    BY <1>6, <2>2
  <2> QED BY <2>1, <2>2, <2>3
<1>8. \A i \in 1..(n - 1) : t[i] = stack[i]
  BY <1>3, <1>5, <1>6
<1>9. Goes(t)
  <2>1. n <= Len(t)
    BY <1>3, <1>5, <1>6
  <2>2. Len(stack) <= Len(t) /\ \A i \in 1..(Len(stack) - 1) : t[i] = stack[i]
    BY <1>1, <1>8, <2>1
  <2> QED BY <1>6, <2>2 DEF Goes
<1>10. \A i \in 1..m : t[n - 1 + i] = Connect(kids[i])
  BY <1>4, <1>7
<1>11. \A i \in 1..(n - 1 + m) : i >= n => i - (n - 1) \in 1..m /\ i = n - 1 + (i - (n - 1))
  BY <1>3, <1>5
<1>12. \A i \in 1..(n - 1 + m) : i >= n => \E k \in 1..m : i = n - 1 + k /\ t[i] = Connect(kids[k])
  BY <1>10, <1>11
<1> QED BY <1>1, <1>6, <1>9, <1>10, <1>12 DEF Spreads

LEMMA ConnectHas ==
  ASSUME NEW h, NEW f, f = Connect(h)
  PROVE  f.pc = "connect" /\ f.handle = h /\ f.left = Driver /\ f.who = App /\ Free(f)
BY FrameIs DEF Connect, Free

LEMMA ConnectChildrenLayers ==
  ASSUME HdbInv, LayerInv, ConnectChildren
  PROVE  LayerInv'
<1>1. /\ stack # <<>> /\ Top.pc = "connect" /\ UNCHANGED db
      /\ \E kids \in Seq(Handle) :
              /\ kids = <<>> => stack' = Returned(TRUE)
              /\ kids # <<>> => stack' = Callers \o Connects(kids)
  BY ConnectChildrenGoes
<1>2. PICK e : e = db' /\ Steady(db, e)
  BY <1>1, SteadySame
<1>3. PICK kids \in Seq(Handle) :
              /\ kids = <<>> => stack' = Returned(TRUE)
              /\ kids # <<>> => stack' = Callers \o Connects(kids)
  BY <1>1
<1>4. /\ Top.pc \notin Outside /\ Top.pc \notin Answering /\ Top.pc # "childStopped"
      /\ Top.pc \notin {"uninstall", "refused"}
  BY <1>1 DEF Outside, Answering
<1>5. CASE kids = <<>>
  <2>1. PICK ok \in BOOLEAN : ok = TRUE
    OBVIOUS
  <2>2. stack' = Returned(ok)
    BY <1>3, <1>5, <2>1
  <2> QED BY <1>1, <1>2, <1>4, <2>2, ReturnsSteady
<1>6. CASE kids # <<>>
  <2>1. PICK t : t = stack'
    OBVIOUS
  <2>2. t = Callers \o Connects(kids)
    BY <1>3, <1>6, <2>1
  <2>3. /\ Goes(t)
        /\ \A i \in 1..Len(t) : i >= Len(stack) =>
              \E k \in 1..Len(kids) : i = Len(stack) - 1 + k /\ t[i] = Connect(kids[k])
    <3>1. Spreads(t, kids)
      BY <1>1, <1>3, <1>6, <2>2, ConnectsGo
    <3> QED BY <3>1 DEF Spreads
  <2>4. \A i \in 1..Len(t) : i >= Len(stack) => t[i].pc = "connect" /\ Free(t[i])
    BY <2>3, ConnectHas
  <2>5. \A i \in 1..Len(t) : i >= Len(stack) => FrameStands(e, t, i)
    BY <2>4, FreeStands
  <2>6. Replaces(t[Len(stack)])
    <3>1. Len(stack) \in 1..Len(t)
      BY <1>1, <2>3, CallersIs DEF Goes, HdbInv, FramesOK
    <3>2. t[Len(stack)].pc \notin Outside
      BY <2>4, <3>1 DEF Outside
    <3> QED BY <1>4, <3>2, FreeReplaces
  <2>7. Layered(e, t)
    BY <1>1, <1>2, <1>4, <2>3, <2>5, <2>6, OnwardSteady
  <2> QED BY <1>2, <2>1, <2>7, Layering
<1> QED BY <1>5, <1>6

LEMMA DisconnectCollectLayers ==
  ASSUME HdbInv, LayerInv, DisconnectCollect
  PROVE  LayerInv'
<1>1. /\ stack # <<>> /\ Top.pc = "disconnectAll" /\ UNCHANGED db
      /\ \/ stack' = Returned(TRUE)
         \/ \E f \in Frames : stack' = Append(Callers, f) /\ f.pc = "disconnect"
  BY DisconnectCollectGoes
<1>2. PICK e : e = db' /\ Steady(db, e)
  BY <1>1, SteadySame
<1>3. /\ Top.pc \notin Outside /\ Top.pc \notin Answering /\ Top.pc # "childStopped"
      /\ Top.pc \notin {"uninstall", "refused"}
  BY <1>1 DEF Outside, Answering
<1>4. CASE stack' = Returned(TRUE)
  <2>1. PICK ok \in BOOLEAN : ok = TRUE
    OBVIOUS
  <2>2. stack' = Returned(ok)
    BY <1>4, <2>1
  <2> QED BY <1>1, <1>2, <1>3, <2>2, ReturnsSteady
<1>5. CASE \E f \in Frames : stack' = Append(Callers, f) /\ f.pc = "disconnect"
  <2>1. PICK f \in Frames : stack' = Append(Callers, f) /\ f.pc = "disconnect"
    BY <1>5
  <2>2. f.pc \notin Outside /\ Free(f)
    BY <2>1 DEF Outside, Free
  <2> QED BY <1>1, <1>2, <1>3, <2>1, <2>2, GoesSteady
<1> QED BY <1>1, <1>4, <1>5

\* What a driver's Start adds leaves what others know.
LEMMA RiseLayers ==
  ASSUME HdbInv, LayerInv, stack # <<>>, Top.pc # "childStopped", NEW h \in Handle, NEW e,
         DiskIoUp(db, h, e) \/ PartitionsUp(db, h, e), NEW t
  PROVE  Stands(e) /\ Lasts(e) /\ Relinks(e, t)
<1>1. PICK d : d = db
  OBVIOUS
<1>2. Stands(d) /\ Answers(d, stack)
  BY <1>1 DEF LayerInv, Layered
<1>3. /\ BlockIo \in Guid /\ DiskIo \in Guid /\ BlockIo # DiskIo
      /\ \A x \in Handle : Partitions[x] \subseteq Handle
      /\ \A x \in Handle : \A p \in Partitions[x] : p \in Partitions[h] => x = h
  BY Names, PartitionsAre
<1>4. \A i \in 1..(Len(stack) - 1) :
        Holds(d, stack[i]) /\ FrameOK(stack[i]) /\ i \in 1..Len(stack)
  <2>1. Len(stack) \in Nat
    BY DEF HdbInv, FramesOK
  <2> QED BY <1>2, <2>1 DEF Answers, HdbInv, FramesOK
<1>5. CASE DiskIoUp(d, h, e)
  <2>1. /\ ~OnDisk(d, h) /\ \A x \in Handle : OnDisk(e, x) <=> OnDisk(d, x) \/ x = h
        /\ \A x \in Handle, y \in Guid : Live(e, x, y) <=> Live(d, x, y) \/ (x = h /\ y = DiskIo)
        /\ \A x \in Handle : \A p \in Partitions[x] : Child(e, x, p) <=> Child(d, x, p)
    BY <1>5 DEF DiskIoUp, KidsSame
  <2>2. /\ \A x \in Handle : Live(e, x, BlockIo) <=> Live(d, x, BlockIo)
        /\ \A x \in Handle : Live(e, x, DiskIo) <=> Live(d, x, DiskIo) \/ x = h
    BY <1>3, <2>1
  <2>3. Stands(e)
    BY <1>2, <1>3, <2>1, <2>2 DEF Stands
  <2>4. Lasts(e)
    <3> SUFFICES ASSUME NEW i \in 1..(Len(stack) - 1), NEW f, f = stack[i]
                 PROVE  (Holds(d, f) => Holds(e, f)) /\ (Settled(d, f) => Settled(e, f))
      BY <1>1 DEF Lasts
    <3>1. Holds(d, f) /\ FrameOK(f)
      BY <1>4
    <3>2. f.pc \in {"stopDiskIoEnd", "childStopped"} => f.handle \in Handle
      BY <3>1 DEF FrameOK, Outside
    <3>3. f.pc = "childStopped" => f.who \in Partitions[f.handle]
      BY <3>1 DEF FrameOK
    <3>4. Holds(e, f)
      BY <2>1, <3>1, <3>2 DEF Holds
    <3>5. f.pc = "stopDiskIoEnd" => f.handle # h
      BY <2>1, <3>1 DEF Holds
    <3>6. Settled(d, f) => Settled(e, f)
      BY <1>3, <2>1, <2>2, <3>2, <3>3, <3>5 DEF Settled
    <3> QED BY <3>4, <3>6
  <2>5. Relinks(e, t)
    BY <1>1, <1>3, <2>1, <2>2 DEF Relinks, Stopping
  <2> QED BY <2>3, <2>4, <2>5
<1>6. CASE PartitionsUp(d, h, e)
  <2>1. /\ Live(d, h, DiskIo) /\ \A x \in Handle : OnDisk(e, x) <=> OnDisk(d, x)
        /\ \A x \in Handle, y \in Guid :
             Live(e, x, y) <=> Live(d, x, y) \/ (x \in Partitions[h] /\ y = BlockIo)
        /\ \A x \in Handle : \A p \in Partitions[x] :
             Child(e, x, p) <=> Child(d, x, p) \/ (x = h /\ ~Live(d, p, BlockIo))
    BY <1>6 DEF PartitionsUp, DisksSame
  <2>2. /\ \A x \in Handle : Live(e, x, DiskIo) <=> Live(d, x, DiskIo)
        /\ \A x \in Handle : Live(e, x, BlockIo) <=> Live(d, x, BlockIo) \/ x \in Partitions[h]
    BY <1>3, <2>1
  <2>3. \A x \in Handle : \A p \in Partitions[x] :
          Live(e, p, BlockIo) => Live(d, p, BlockIo) \/ (x = h /\ Child(e, x, p))
    BY <1>3, <2>1, <2>2
  <2>4. Stands(e)
    BY <1>2, <1>3, <2>1, <2>2, <2>3 DEF Stands
  <2>5. Lasts(e)
    <3> SUFFICES ASSUME NEW i \in 1..(Len(stack) - 1), NEW f, f = stack[i]
                 PROVE  (Holds(d, f) => Holds(e, f)) /\ (Settled(d, f) => Settled(e, f))
      BY <1>1 DEF Lasts
    <3>1. FrameOK(f)
      BY <1>4
    <3>2. f.pc \in {"stopDiskIoEnd", "childStopped"} => f.handle \in Handle
      BY <3>1 DEF FrameOK, Outside
    <3>3. f.pc = "childStopped" => f.who \in Partitions[f.handle]
      BY <3>1 DEF FrameOK
    <3>4. Holds(d, f) => Holds(e, f)
      BY <2>1, <3>2 DEF Holds
    <3>5. Settled(d, f) => Settled(e, f)
      BY <2>1, <2>2, <2>3, <3>2, <3>3 DEF Settled
    <3> QED BY <3>4, <3>5
  <2>6. Relinks(e, t)
    BY <1>1, <1>3, <2>1, <2>3 DEF Relinks, Stopping
  <2> QED BY <2>4, <2>5, <2>6
<1> QED BY <1>1, <1>5, <1>6

LEMMA ConnectStartLayers ==
  ASSUME HdbInv, LayerInv, ConnectStart
  PROVE  LayerInv'
<1>1. /\ stack # <<>> /\ Top.pc = "start" /\ Top.handle \in Handle
      /\ db' = Start(db, Top.who, Top.handle)
      /\ GoesTo("connect", Top.left, Top.who, Top.done)
  BY ConnectStartGoes
<1>2. PICK e, h, driver : e = db' /\ h = Top.handle /\ driver = Top.who
  OBVIOUS
<1>3. PICK pc, left, done : pc = "connect" /\ left = Top.left /\ done = Top.done
  OBVIOUS
<1>4. /\ GoesTo(pc, left, driver, done) /\ pc \notin Outside
      /\ pc \notin {"stopDiskIoEnd", "childStopped", "childrenStopped"}
  BY <1>1, <1>2, <1>3 DEF Outside
<1>5. Top.pc \notin Outside /\ Top.pc \notin Answering /\ Top.pc # "childStopped"
  BY <1>1 DEF Outside, Answering
<1>6. \/ Still(db, e) /\ ClaimsSame(db, e)
      \/ driver = DiskIoDxe /\ DiskIoUp(db, h, e)
      \/ driver # DiskIoDxe /\ PartitionsUp(db, h, e)
  <2>1. e = Start(db, driver, h) /\ DbInv(db) /\ h \in Handle
    BY <1>1, <1>2 DEF HdbInv
  <2> QED BY <2>1, StartLayers
<1>7. CASE Still(db, e)
  <2>1. Steady(db, e)
    BY <1>7 DEF Still, Steady
  <2> QED BY <1>1, <1>2, <1>4, <1>5, <2>1, GoesToSteady
<1>8. CASE DiskIoUp(db, h, e) \/ PartitionsUp(db, h, e)
  <2>1. PICK f \in Frames : stack' = Append(Callers, f) /\ Has(f, Top, pc, left, driver, done)
    BY <1>4 DEF GoesTo
  <2>2. f.pc \notin Outside /\ Free(f)
    BY <1>4, <2>1 DEF Has, Free
  <2>3. PICK t : t = stack'
    OBVIOUS
  <2>4. Goes(t) /\ Len(t) = Len(stack) /\ t[Len(stack)] = f
    BY <1>1, <2>1, <2>3, GotoGoes
  <2>5. Stands(e) /\ Lasts(e) /\ Relinks(e, t)
    <3>1. h \in Handle
      BY <1>1, <1>2
    <3> QED BY <1>1, <1>5, <1>8, <3>1, RiseLayers
  <2>6. Replaces(t[Len(stack)])
    BY <1>5, <2>2, <2>4, FreeReplaces
  <2>7. \A i \in 1..Len(t) : i >= Len(stack) => FrameStands(e, t, i)
    <3>1. \A i \in 1..Len(t) : i >= Len(stack) => i = Len(stack)
      BY <2>4 DEF HdbInv, FramesOK
    <3> QED BY <2>2, <2>4, <3>1, FreeStands
  <2>8. Layered(e, t)
    BY <1>1, <2>4, <2>5, <2>6, <2>7, Onward
  <2> QED BY <1>2, <2>3, <2>8, Layering
<1> QED BY <1>6, <1>7, <1>8

LEMMA CallsFromSteady ==
  ASSUME HdbInv, LayerInv, stack # <<>>, NEW e, e = db', Steady(db, e),
         Top.pc \notin Outside, Top.pc \notin Answering,
         NEW pc, pc \notin Outside, NEW left, NEW who, NEW done,
         NEW g \in Frames, g.pc \notin Outside, Free(g),
         \A f : Has(f, Top, pc, left, who, done) => CalleeOf(f, g) /\ Holds(e, f),
         CallsFrom(pc, left, who, done, g)
  PROVE  LayerInv'
<1>1. PICK f \in Frames : stack' = Pushed(f, g) /\ Has(f, Top, pc, left, who, done)
  BY DEF CallsFrom
<1>2. f.pc \notin Outside /\ CalleeOf(f, g) /\ Holds(e, f)
  BY <1>1 DEF Has
<1>3. Replaces(f) /\ Top.pc # "childStopped"
  BY <1>2, FreeReplaces DEF Answering
<1> QED BY <1>1, <1>2, <1>3, CallsSteady

\* The driver's Stop is called, with children or without.
LEMMA StopServes ==
  ASSUME NEW h \in Handle, NEW driver \in Driver, NEW kids \in SUBSET Partitions[h],
         NEW g, g = Stop(driver, h, kids), kids # {} => driver = PartitionDxe,
         NEW f, f.handle = h, f.pc = IF kids = {} THEN "stopped" ELSE "childrenStopped"
  PROVE  g \in Frames /\ g.pc \notin Outside /\ Free(g) /\ CalleeOf(f, g) /\ \A e : Holds(e, f)
<1>1. /\ FrameOK(g) /\ g.handle = h
      /\ g.pc = IF driver = DiskIoDxe THEN "stopDiskIo"
                ELSE IF kids = {} THEN "stopBus" ELSE "stopChildren"
  BY StopIs
<1>2. g \in Frames /\ g.pc \notin Outside /\ Free(g)
  BY <1>1 DEF FrameOK, Outside, Free
<1>3. kids # {} => g.pc = "stopChildren"
  BY <1>1, Names
<1> QED BY <1>1, <1>2, <1>3 DEF CalleeOf, Holds

LEMMA DisconnectNextLayers ==
  ASSUME HdbInv, LayerInv, DisconnectNext
  PROVE  LayerInv'
<1>1. /\ stack # <<>> /\ Top.pc = "disconnect" /\ Top.handle \in Handle /\ UNCHANGED db
      /\ \E driver \in Driver :
           \/ GoesTo("disconnect", Top.left \ {driver}, driver, Top.done)
           \/ \E kids \in SUBSET Partitions[Top.handle], pc \in {"stopped", "childrenStopped"} :
                /\ kids = ChildrenOf(db, Top.handle, {driver})
                /\ pc = "stopped" <=> kids = {}
                /\ CallsFrom(pc, Top.left \ {driver}, driver, Top.done,
                             Stop(driver, Top.handle, kids))
  BY DisconnectNextGoes
<1>2. PICK e : e = db' /\ Steady(db, e)
  BY <1>1, SteadySame
<1>3. PICK driver \in Driver :
           \/ GoesTo("disconnect", Top.left \ {driver}, driver, Top.done)
           \/ \E kids \in SUBSET Partitions[Top.handle], pc \in {"stopped", "childrenStopped"} :
                /\ kids = ChildrenOf(db, Top.handle, {driver})
                /\ pc = "stopped" <=> kids = {}
                /\ CallsFrom(pc, Top.left \ {driver}, driver, Top.done,
                             Stop(driver, Top.handle, kids))
  BY <1>1
<1>4. PICK h, left, done : h = Top.handle /\ left = Top.left \ {driver} /\ done = Top.done
  OBVIOUS
<1>5. Top.pc \notin Outside /\ Top.pc \notin Answering
  BY <1>1 DEF Outside, Answering
<1>6. CASE GoesTo("disconnect", Top.left \ {driver}, driver, Top.done)
  <2>1. PICK pc : pc = "disconnect"
    OBVIOUS
  <2>2. /\ GoesTo(pc, left, driver, done) /\ pc \notin Outside
        /\ pc \notin {"stopDiskIoEnd", "childStopped", "childrenStopped"}
    BY <1>4, <1>6, <2>1 DEF Outside
  <2> QED BY <1>1, <1>2, <1>5, <2>2, GoesToSteady
<1>7. CASE \E kids \in SUBSET Partitions[Top.handle], pc \in {"stopped", "childrenStopped"} :
                /\ kids = ChildrenOf(db, Top.handle, {driver})
                /\ pc = "stopped" <=> kids = {}
                /\ CallsFrom(pc, Top.left \ {driver}, driver, Top.done,
                             Stop(driver, Top.handle, kids))
  <2>1. PICK kids \in SUBSET Partitions[Top.handle], pc \in {"stopped", "childrenStopped"} :
                /\ kids = ChildrenOf(db, Top.handle, {driver})
                /\ pc = "stopped" <=> kids = {}
                /\ CallsFrom(pc, Top.left \ {driver}, driver, Top.done,
                             Stop(driver, Top.handle, kids))
    BY <1>7
  <2>2. PICK g : g = Stop(driver, h, kids)
    OBVIOUS
  <2>3. CallsFrom(pc, left, driver, done, g)
    BY <1>4, <2>1, <2>2
  <2>4. kids # {} => driver = PartitionDxe
    <3>1. PartitionDxe \notin {driver} => kids = {}
      BY <1>1, <2>1, ChildrenAre DEF HdbInv
    <3> QED BY <3>1
  <2>5. pc = IF kids = {} THEN "stopped" ELSE "childrenStopped"
    BY <2>1
  <2>6. h \in Handle /\ kids \in SUBSET Partitions[h]
    BY <1>1, <1>4, <2>1
  <2>7. g \in Frames /\ g.pc \notin Outside /\ Free(g)
    <3>1. PICK f : f = [handle |-> h, pc |-> pc]
      OBVIOUS
    <3>2. f.handle = h /\ f.pc = IF kids = {} THEN "stopped" ELSE "childrenStopped"
      BY <2>5, <3>1
    <3> QED BY <2>2, <2>4, <2>6, <3>2, StopServes
  <2>8. \A f : Has(f, Top, pc, left, driver, done) => CalleeOf(f, g) /\ Holds(e, f)
    <3> SUFFICES ASSUME NEW f, Has(f, Top, pc, left, driver, done)
                 PROVE  CalleeOf(f, g) /\ Holds(e, f)
      OBVIOUS
    <3>1. f.handle = h /\ f.pc = IF kids = {} THEN "stopped" ELSE "childrenStopped"
      BY <1>4, <2>5 DEF Has
    <3> QED BY <2>2, <2>4, <2>6, <3>1, StopServes
  <2>9. pc \notin Outside
    BY <2>1 DEF Outside
  <2> QED BY <1>1, <1>2, <1>5, <2>3, <2>7, <2>8, <2>9, CallsFromSteady
<1> QED BY <1>3, <1>6, <1>7

LEMMA DisconnectChildrenStoppedLayers ==
  ASSUME HdbInv, LayerInv, DisconnectChildrenStopped
  PROVE  LayerInv'
<1>1. /\ stack # <<>> /\ Top.pc = "childrenStopped" /\ Top.handle \in Handle
      /\ Top.who \in Driver /\ UNCHANGED db
      /\ \/ GoesTo("disconnect", Top.left, Top.who, Top.done)
         \/ /\ Top.ok
            /\ CallsFrom("stopped", Top.left, Top.who, Top.done, Stop(Top.who, Top.handle, {}))
  BY DisconnectChildrenStoppedGoes
<1>2. PICK e : e = db' /\ Steady(db, e)
  BY <1>1, SteadySame
<1>3. PICK h, left, driver, done :
        h = Top.handle /\ left = Top.left /\ driver = Top.who /\ done = Top.done
  OBVIOUS
<1>4. Top.pc \notin Outside /\ Top.pc \notin Answering
  BY <1>1 DEF Outside, Answering
<1>5. CASE GoesTo("disconnect", Top.left, Top.who, Top.done)
  <2>1. PICK pc : pc = "disconnect"
    OBVIOUS
  <2>2. /\ GoesTo(pc, left, driver, done) /\ pc \notin Outside
        /\ pc \notin {"stopDiskIoEnd", "childStopped", "childrenStopped"}
    BY <1>3, <1>5, <2>1 DEF Outside
  <2> QED BY <1>1, <1>2, <1>4, <2>2, GoesToSteady
<1>6. CASE CallsFrom("stopped", Top.left, Top.who, Top.done, Stop(Top.who, Top.handle, {}))
  <2>1. PICK pc, kids, g : pc = "stopped" /\ kids = {} /\ g = Stop(driver, h, kids)
    OBVIOUS
  <2>2. CallsFrom(pc, left, driver, done, g)
    BY <1>3, <1>6, <2>1
  <2>3. h \in Handle /\ driver \in Driver /\ kids \in SUBSET Partitions[h] /\ kids = {}
    BY <1>1, <1>3, <2>1
  <2>4. pc = IF kids = {} THEN "stopped" ELSE "childrenStopped"
    BY <2>1
  <2>5. g \in Frames /\ g.pc \notin Outside /\ Free(g)
    <3>1. PICK f : f = [handle |-> h, pc |-> pc]
      OBVIOUS
    <3>2. f.handle = h /\ f.pc = IF kids = {} THEN "stopped" ELSE "childrenStopped"
      BY <2>4, <3>1
    <3> QED BY <2>1, <2>3, <3>2, StopServes
  <2>6. \A f : Has(f, Top, pc, left, driver, done) => CalleeOf(f, g) /\ Holds(e, f)
    <3> SUFFICES ASSUME NEW f, Has(f, Top, pc, left, driver, done)
                 PROVE  CalleeOf(f, g) /\ Holds(e, f)
      OBVIOUS
    <3>1. f.handle = h /\ f.pc = IF kids = {} THEN "stopped" ELSE "childrenStopped"
      BY <1>3, <2>4 DEF Has
    <3> QED BY <2>1, <2>3, <3>1, StopServes
  <2>7. pc \notin Outside
    BY <2>1 DEF Outside
  <2> QED BY <1>1, <1>2, <1>4, <2>2, <2>5, <2>6, <2>7, CallsFromSteady
<1> QED BY <1>1, <1>5, <1>6

LEMMA DisconnectStoppedLayers ==
  ASSUME HdbInv, LayerInv, DisconnectStopped
  PROVE  LayerInv'
<1>1. /\ stack # <<>> /\ Top.pc = "stopped" /\ UNCHANGED db
      /\ \E done \in BOOLEAN : GoesTo("disconnect", Top.left, Top.who, done)
  BY DisconnectStoppedGoes
<1>2. PICK e : e = db' /\ Steady(db, e)
  BY <1>1, SteadySame
<1>3. PICK done : GoesTo("disconnect", Top.left, Top.who, done)
  BY <1>1
<1>4. PICK pc, left, who : pc = "disconnect" /\ left = Top.left /\ who = Top.who
  OBVIOUS
<1>5. /\ GoesTo(pc, left, who, done) /\ pc \notin Outside
      /\ pc \notin {"stopDiskIoEnd", "childStopped", "childrenStopped"}
  BY <1>3, <1>4 DEF Outside
<1>6. Top.pc \notin Outside /\ Top.pc \notin Answering
  BY <1>1 DEF Outside, Answering
<1> QED BY <1>1, <1>2, <1>5, <1>6, GoesToSteady

LEMMA DisconnectReturnLayers ==
  ASSUME HdbInv, LayerInv, DisconnectReturn
  PROVE  LayerInv'
<1>1. stack # <<>> /\ Top.pc = "disconnect" /\ UNCHANGED db /\ stack' = Returned(Top.done)
  BY DEF DisconnectReturn, At, Return, Returned
<1>2. PICK e : e = db' /\ Steady(db, e)
  BY <1>1, SteadySame
<1>3. PICK ok \in BOOLEAN : ok = Top.done
  BY <1>1, TopFacts
<1>4. Top.pc \notin Outside /\ Top.pc # "childStopped" /\ Top.pc \notin {"uninstall", "refused"}
  BY <1>1 DEF Outside
<1>5. stack' = Returned(ok)
  BY <1>1, <1>3
<1> QED BY <1>1, <1>2, <1>4, <1>5, ReturnsSteady

LEMMA TopSettled ==
  ASSUME HdbInv, LayerInv, stack # <<>>
  PROVE  Settled(db, Top) /\ Holds(db, Top)
<1>1. PICK n : n = Len(stack)
  OBVIOUS
<1>2. n \in Nat /\ n >= 1 /\ Top = stack[n]
  BY <1>1, CallersIs DEF HdbInv, FramesOK
<1>3. n \in 1..n /\ ~(n < n)
  BY <1>2
<1>4. ~Awaits(stack, n)
  BY <1>1, <1>3 DEF Awaits
<1>5. Answers(db, stack)
  BY DEF LayerInv, Layered
<1>6. Settled(db, stack[n]) /\ Holds(db, stack[n])
  BY <1>1, <1>3, <1>4, <1>5 DEF Answers
<1> QED BY <1>2, <1>6

\* A caller at the same handle is at a lower layer.
LEMMA NotAsDeep ==
  ASSUME HdbInv, stack # <<>>, NEW i \in 1..(Len(stack) - 1), NEW f, f = stack[i],
         f.pc \in Sections, Top.pc \in Sections, f.handle = Top.handle
  PROVE  FrameOK(f) /\ Depth(f) < Depth(Top)
<1>1. PICK n : n = Len(stack)
  OBVIOUS
<1>2. n \in Nat /\ n >= 1 /\ Top = stack[n]
  BY <1>1, CallersIs DEF HdbInv, FramesOK
<1>3. i \in 1..n /\ n \in 1..n /\ i < n
  BY <1>1, <1>2
<1>4. FrameOK(f) /\ FrameOK(Top)
  BY <1>1, <1>2, <1>3 DEF HdbInv, FramesOK
<1>5. Rank(f) < Rank(Top)
  BY <1>1, <1>2, <1>3 DEF HdbInv, Ranked
<1>6. f.pc \notin Outside /\ Top.pc \notin Outside
  BY DEF Outside, Sections, Looking, Agents
<1>7. Depth(f) \in 0..5 /\ Depth(Top) \in 0..5 /\ PathLength[f.handle] \in Nat
  BY <1>4, <1>6, RankIs
<1>8. PICK a, b, k : a = Depth(f) /\ b = Depth(Top) /\ k = PathLength[f.handle]
  OBVIOUS
<1>9. Rank(f) = 8 * k + a /\ Rank(Top) = 8 * k + b
  BY <1>8 DEF Rank
<1>10. 8 * k + a < 8 * k + b /\ a \in 0..5 /\ b \in 0..5 /\ k \in Nat
  BY <1>5, <1>7, <1>8, <1>9
<1>11. a < b
  BY <1>10
<1> QED BY <1>4, <1>8, <1>11

LEMMA StopDiskIoLayers ==
  ASSUME HdbInv, LayerInv, StopDiskIo
  PROVE  LayerInv'
<1>1. /\ stack # <<>> /\ Top.pc = "stopDiskIo" /\ Top.handle \in Handle
      /\ db' = Add(db, Top.handle, DiskIo, Opened(DiskIoDxe, Top.handle, "get"))
      /\ \/ stack' = Returned(FALSE)
         \/ /\ Live(db, Top.handle, DiskIo)
            /\ CallsFrom("stopDiskIoEnd", Top.left, Top.who, Top.done,
                         Uninstall(Top.handle, DiskIo))
  BY StopDiskIoGoes
<1>2. PICK h, left, who, done, e :
        h = Top.handle /\ left = Top.left /\ who = Top.who /\ done = Top.done /\ e = db'
  OBVIOUS
<1>3. PICK g, agent : g = DiskIo /\ agent = DiskIoDxe
  OBVIOUS
<1>4. h \in Handle /\ g \in Guid /\ agent \in Driver /\ DbInv(db)
  BY <1>1, <1>2, <1>3, Names DEF HdbInv
<1>5. e = Add(db, h, g, Opened(agent, h, "get"))
  BY <1>1, <1>2, <1>3
<1>6. Steady(db, e)
  BY <1>4, <1>5, GetStill DEF Steady, Still
<1>7. /\ Top.pc \notin Outside /\ Top.pc \notin Answering /\ Top.pc # "childStopped"
      /\ Top.pc \notin {"uninstall", "refused"}
  BY <1>1 DEF Outside, Answering
<1>8. CASE stack' = Returned(FALSE)
  <2>1. PICK ok \in BOOLEAN : ok = FALSE
    OBVIOUS
  <2>2. stack' = Returned(ok)
    BY <1>8, <2>1
  <2> QED BY <1>1, <1>2, <1>6, <1>7, <2>2, ReturnsSteady
<1>9. CASE /\ Live(db, Top.handle, DiskIo)
           /\ CallsFrom("stopDiskIoEnd", Top.left, Top.who, Top.done,
                        Uninstall(Top.handle, DiskIo))
  <2>1. PICK pc, f : pc = "stopDiskIoEnd" /\ f = Uninstall(h, g)
    OBVIOUS
  <2>2. CallsFrom(pc, left, who, done, f)
    BY <1>2, <1>3, <1>9, <2>1
  <2>3. FrameOK(f) /\ f.pc = "uninstall" /\ f.handle = h /\ f.guid = g
    BY <1>4, <2>1, UninstallIs
  <2>4. f \in Frames /\ f.pc \notin Outside /\ Free(f)
    BY <2>3 DEF FrameOK, Outside, Free
  <2>5. OnDisk(e, h)
    <3>1. OnDisk(db, h)
      BY <1>1, <1>2, <1>9 DEF LayerInv, Layered, Stands
    <3> QED BY <1>4, <1>6, <3>1 DEF Steady, DisksSame
  <2>6. \A c : Has(c, Top, pc, left, who, done) => CalleeOf(c, f) /\ Holds(e, c)
    BY <1>2, <1>3, <2>1, <2>3, <2>5 DEF Has, CalleeOf, Holds
  <2>7. pc \notin Outside
    BY <2>1 DEF Outside
  <2> QED BY <1>1, <1>2, <1>6, <1>7, <2>2, <2>4, <2>6, <2>7, CallsFromSteady
<1> QED BY <1>1, <1>8, <1>9

LEMMA StopDiskIoEndLayers ==
  ASSUME HdbInv, LayerInv, StopDiskIoEnd
  PROVE  LayerInv'
<1>1. /\ stack # <<>> /\ Top.pc = "stopDiskIoEnd" /\ Top.handle \in Handle
      /\ Top.ok \in BOOLEAN /\ stack' = Returned(Top.ok)
      /\ db' = IF Top.ok
               THEN CoreCloseProtocol(db, Top.handle, BlockIo, DiskIoDxe, Top.handle) ELSE db
  BY StopDiskIoEndGoes
<1>2. /\ Top.pc \notin Outside /\ Top.pc # "childStopped"
      /\ Top.pc \notin {"uninstall", "refused"} /\ Top.pc \in Sections
  BY <1>1 DEF Outside, Sections
<1>3. PICK ok \in BOOLEAN : ok = Top.ok
  BY <1>1
<1>4. stack' = Returned(ok)
  BY <1>1, <1>3
<1>5. CASE ~Top.ok
  <2>1. UNCHANGED db
    BY <1>1, <1>5
  <2>2. PICK e : e = db' /\ Steady(db, e)
    BY <2>1, SteadySame
  <2> QED BY <1>1, <1>2, <1>4, <2>2, ReturnsSteady
<1>6. CASE Top.ok
  <2>1. PICK h, d, e : h = Top.handle /\ d = db /\ e = db'
    OBVIOUS
  <2>2. h \in Handle /\ DbInv(d) /\ e = CoreCloseProtocol(d, h, BlockIo, DiskIoDxe, h)
    BY <1>1, <1>6, <2>1 DEF HdbInv
  <2>3. DiskClosed(d, h, e)
    BY <2>2, DiskCloses
  <2>4. /\ LiveSame(d, e) /\ KidsSame(d, e)
        /\ \A x \in Handle : OnDisk(e, x) <=> OnDisk(d, x) /\ x # h
    BY <2>3 DEF DiskClosed
  <2>5. ~Live(d, h, DiskIo)
    BY <1>1, <1>6, <2>1, TopSettled DEF Settled
  <2>6. Stands(e)
    <3>1. Stands(d)
      BY <2>1 DEF LayerInv, Layered
    <3>2. \A x \in Handle : (Live(e, x, DiskIo) <=> Live(d, x, DiskIo)) /\ (Live(e, x, BlockIo) <=> Live(d, x, BlockIo))
      BY <2>4, Names DEF LiveSame
    <3>3. \A x \in Handle : Partitions[x] \subseteq Handle
      BY PartitionsAre
    <3> QED BY <2>4, <2>5, <3>1, <3>2, <3>3 DEF Stands
  <2>7. Lasts(e)
    <3> SUFFICES ASSUME NEW i \in 1..(Len(stack) - 1), NEW f, f = stack[i]
                 PROVE  (Holds(d, f) => Holds(e, f)) /\ (Settled(d, f) => Settled(e, f))
      BY <2>1 DEF Lasts
    <3>1. FrameOK(f)
      BY <1>1 DEF HdbInv, FramesOK
    <3>2. f.pc = "stopDiskIoEnd" => f.handle # h
      <4> SUFFICES ASSUME f.pc = "stopDiskIoEnd", f.handle = h PROVE FALSE
        OBVIOUS
      <4>1. f.pc \in Sections /\ f.handle = Top.handle
        BY <2>1 DEF Sections
      <4>2. Depth(f) < Depth(Top)
        BY <1>1, <1>2, <4>1, NotAsDeep
      <4>3. Depth(f) = 2 /\ Depth(Top) = 2
        BY <1>1 DEF Depth, Looking, Agents
      <4> QED BY <4>2, <4>3
    <3>3. f.pc \in {"stopDiskIoEnd", "childStopped"} => f.handle \in Handle
      BY <3>1 DEF FrameOK, Outside
    <3>4. f.pc = "childStopped" => f.who \in Partitions[f.handle] /\ f.who \in Handle
      BY <3>1, <3>3, PartitionsAre DEF FrameOK
    <3>5. Holds(d, f) => Holds(e, f)
      BY <2>4, <3>2, <3>3 DEF Holds
    <3>6. Settled(d, f) => Settled(e, f)
      BY <2>4, <3>3, <3>4, Names DEF Settled, LiveSame, KidsSame
    <3> QED BY <3>5, <3>6
  <2>8. PICK t : t = stack'
    OBVIOUS
  <2>9. Relinks(e, t)
    BY <1>1, <2>1, <2>4, PartitionsAre, Names DEF Relinks, Stopping, LiveSame, KidsSame
  <2>10. Backs(t) /\ (Len(stack) > 1 => Settled(e, t[Len(stack) - 1]))
    BY <1>1, <1>2, <1>4, <2>8, ReturnSettles
  <2>11. Layered(e, t)
    BY <1>1, <2>1, <2>6, <2>7, <2>9, <2>10, Backward
  <2> QED BY <2>1, <2>8, <2>11, Layering
<1> QED BY <1>1, <1>5, <1>6

LEMMA StopBusLayers ==
  ASSUME HdbInv, LayerInv, StopBus
  PROVE  LayerInv'
<1>1. /\ stack # <<>> /\ Top.pc = "stopBus" /\ Top.handle \in Handle
      /\ stack' = Returned(TRUE)
      /\ db' = CoreCloseProtocol(db, Top.handle, DiskIo, PartitionDxe, Top.handle)
  BY StopBusGoes
<1>2. PICK h, e : h = Top.handle /\ e = db'
  OBVIOUS
<1>3. h \in Handle /\ DbInv(db) /\ e = CoreCloseProtocol(db, h, DiskIo, PartitionDxe, h)
  BY <1>1, <1>2 DEF HdbInv
<1>4. Steady(db, e)
  BY <1>3, BusCloses DEF BusClosed, Steady
<1>5. PICK ok \in BOOLEAN : ok = TRUE
  OBVIOUS
<1>6. stack' = Returned(ok)
  BY <1>1, <1>5
<1>7. Top.pc \notin Outside /\ Top.pc # "childStopped" /\ Top.pc \notin {"uninstall", "refused"}
  BY <1>1 DEF Outside
<1> QED BY <1>1, <1>2, <1>4, <1>6, <1>7, ReturnsSteady

LEMMA StopChildLayers ==
  ASSUME HdbInv, LayerInv, StopChild
  PROVE  LayerInv'
<1>1. /\ stack # <<>> /\ Top.pc = "stopChildren" /\ Top.handle \in Handle
      /\ \E c \in Top.left :
           /\ c \in Partitions[Top.handle]
           /\ CallsFrom("childStopped", Top.left \ {c}, c, Top.done, Uninstall(c, BlockIo))
           /\ db' = CoreCloseProtocol(
                      Add(db, c, BlockIo, Opened(PartitionDxe, Top.handle, "get")),
                      Top.handle, DiskIo, PartitionDxe, c)
  BY StopChildGoes
<1>2. PICK c \in Top.left :
           /\ c \in Partitions[Top.handle]
           /\ CallsFrom("childStopped", Top.left \ {c}, c, Top.done, Uninstall(c, BlockIo))
           /\ db' = CoreCloseProtocol(
                      Add(db, c, BlockIo, Opened(PartitionDxe, Top.handle, "get")),
                      Top.handle, DiskIo, PartitionDxe, c)
  BY <1>1
<1>3. PICK h, d, b, e, g : /\ h = Top.handle /\ d = db /\ e = db' /\ g = Uninstall(c, BlockIo)
                           /\ b = Add(d, c, BlockIo, Opened(PartitionDxe, h, "get"))
  OBVIOUS
<1>4. h \in Handle /\ c \in Partitions[h] /\ c \in Handle /\ DbInv(d)
  BY <1>1, <1>2, <1>3, PartitionsAre DEF HdbInv
<1>5. PICK agent \in Driver, guid \in Guid : agent = PartitionDxe /\ guid = BlockIo
  BY Names
<1>6. b = Add(d, c, guid, Opened(agent, h, "get"))
  BY <1>3, <1>5
<1>7. DbInv(b) /\ Still(d, b)
  BY <1>4, <1>6, GetStill
<1>8. ChildClosed(b, h, c, e)
  <2>1. e = CoreCloseProtocol(b, h, DiskIo, PartitionDxe, c)
    BY <1>2, <1>3
  <2> QED BY <1>4, <1>7, <2>1, ChildCloses
<1>9. /\ \A x \in Handle, y \in Guid : Live(e, x, y) <=> Live(d, x, y)
      /\ \A x \in Handle : OnDisk(e, x) <=> OnDisk(d, x)
      /\ \A x \in Handle : \A p \in Partitions[x] :
           Child(e, x, p) <=> Child(d, x, p) /\ ~(x = h /\ p = c)
  BY <1>7, <1>8 DEF Still, ChildClosed, LiveSame, DisksSame, KidsSame
<1>10. PICK f \in Frames : stack' = Pushed(f, g) /\ Has(f, Top, "childStopped", Top.left \ {c}, c, Top.done)
  BY <1>2, <1>3 DEF CallsFrom
<1>11. f.pc = "childStopped" /\ f.handle = h /\ f.who = c /\ f.guid = Top.guid
  BY <1>3, <1>10 DEF Has
<1>12. FrameOK(g) /\ g.pc = "uninstall" /\ g.handle = c /\ g.guid = BlockIo
  BY <1>3, <1>4, Names, UninstallIs
<1>13. g \in Frames /\ g.pc \notin Outside /\ Free(g)
  BY <1>12 DEF FrameOK, Outside, Free
<1>14. CalleeOf(f, g) /\ Holds(e, f)
  BY <1>11, <1>12 DEF CalleeOf, Holds
<1>15. PICK t : t = stack'
  OBVIOUS
<1>16. /\ Goes(t) /\ t[Len(stack)] = f
       /\ \A i \in 1..Len(t) : i >= Len(stack) => FrameStands(e, t, i)
  <2>1. t = Pushed(f, g)
    BY <1>10, <1>15
  <2> QED BY <1>1, <1>13, <1>14, <2>1, PushStands
<1>17. Stands(e)
  <2>1. Stands(d)
    BY <1>3 DEF LayerInv, Layered
  <2>2. \A x \in Handle : (Live(e, x, DiskIo) <=> Live(d, x, DiskIo)) /\ (Live(e, x, BlockIo) <=> Live(d, x, BlockIo))
    BY <1>9, Names
  <2>3. \A x \in Handle : Partitions[x] \subseteq Handle
    BY PartitionsAre
  <2> QED BY <1>9, <2>1, <2>2, <2>3 DEF Stands
<1>18. Lasts(e)
  <2> SUFFICES ASSUME NEW i \in 1..(Len(stack) - 1), NEW k, k = stack[i]
               PROVE  (Holds(d, k) => Holds(e, k)) /\ (Settled(d, k) => Settled(e, k))
    BY <1>3 DEF Lasts
  <2>1. FrameOK(k)
    BY <1>1 DEF HdbInv, FramesOK
  <2>2. k.pc = "childStopped" => k.handle # h
    <3> SUFFICES ASSUME k.pc = "childStopped", k.handle = h PROVE FALSE
      OBVIOUS
    <3>1. k.pc \in Sections /\ k.handle = Top.handle /\ Top.pc \in Sections
      BY <1>1, <1>3 DEF Sections
    <3>2. Depth(k) < Depth(Top)
      BY <1>1, <3>1, NotAsDeep
    <3>3. Depth(k) = 5 /\ Depth(Top) = 5
      BY <1>1 DEF Depth, Looking, Agents
    <3> QED BY <3>2, <3>3
  <2>3. k.pc \in {"stopDiskIoEnd", "childStopped"} => k.handle \in Handle
    BY <2>1 DEF FrameOK, Outside
  <2>4. k.pc = "childStopped" => k.who \in Partitions[k.handle] /\ k.who \in Handle
    BY <2>1, <2>3, PartitionsAre DEF FrameOK
  <2>5. Holds(d, k) => Holds(e, k)
    BY <1>9, <2>3 DEF Holds
  <2>6. Settled(d, k) => Settled(e, k)
    BY <1>9, <2>2, <2>3, <2>4, Names DEF Settled
  <2> QED BY <2>5, <2>6
<1>19. Relinks(e, t)
  <2> SUFFICES ASSUME NEW x \in Handle, NEW p \in Partitions[x],
                      Live(e, p, BlockIo), ~Child(e, x, p)
               PROVE  \/ Live(db, p, BlockIo) /\ ~Child(db, x, p) /\ ~Stopping(Top, x, p)
                      \/ \E i \in 1..Len(t) : i >= Len(stack) /\ Stopping(t[i], x, p)
    BY DEF Relinks
  <2>1. Live(d, p, BlockIo)
    BY <1>9, PartitionsAre, Names
  <2>2. CASE x = h /\ p = c
    <3>1. Len(stack) \in 1..Len(t) /\ Len(stack) >= Len(stack)
      BY <1>1, <1>16, CallersIs DEF Goes, HdbInv, FramesOK
    <3>2. Stopping(t[Len(stack)], x, p)
      BY <1>11, <1>16, <2>2 DEF Stopping
    <3> QED BY <3>1, <3>2
  <2>3. CASE ~(x = h /\ p = c)
    <3>1. ~Child(d, x, p)
      BY <1>9, <2>3
    <3>2. ~Stopping(Top, x, p)
      BY <1>1 DEF Stopping
    <3> QED BY <1>3, <2>1, <3>1, <3>2
  <2> QED BY <2>2, <2>3
<1>20. Replaces(f)
  BY <1>1, <1>3, <1>11, SameReplaces DEF Outside
<1>21. Layered(e, t)
  BY <1>1, <1>16, <1>17, <1>18, <1>19, <1>20, Onward
<1> QED BY <1>3, <1>15, <1>21, Layering

LEMMA ChildStoppedLayers ==
  ASSUME HdbInv, LayerInv, ChildStopped
  PROVE  LayerInv'
<1>1. /\ stack # <<>> /\ Top.pc = "childStopped" /\ Top.handle \in Handle
      /\ Top.who \in Partitions[Top.handle]
      /\ db' = IF Top.ok THEN db
               ELSE Add(db, Top.handle, DiskIo, Opened(PartitionDxe, Top.who, "child"))
      /\ \E done \in BOOLEAN :
          done = (Top.done \/ ~Top.ok) /\ GoesTo("stopChildren", Top.left, Top.who, done)
  BY ChildStoppedGoes
<1>2. PICK f \in Frames : stack' = Append(Callers, f) /\ f.pc = "stopChildren"
                          /\ f.handle = Top.handle /\ f.guid = Top.guid
  BY <1>1 DEF GoesTo, Has
<1>3. PICK h, c, d, e, t : h = Top.handle /\ c = Top.who /\ d = db /\ e = db' /\ t = stack'
  OBVIOUS
<1>4. h \in Handle /\ c \in Partitions[h] /\ c \in Handle /\ DbInv(d)
  BY <1>1, <1>3, PartitionsAre DEF HdbInv
<1>5. Top.ok /\ Live(d, c, BlockIo) => Child(d, h, c)
  BY <1>1, <1>3, TopSettled DEF Settled
<1>6. Stands(d)
  BY <1>3 DEF LayerInv, Layered
<1>7. /\ \A x \in Handle, y \in Guid : Live(e, x, y) <=> Live(d, x, y)
      /\ \A x \in Handle : OnDisk(e, x) <=> OnDisk(d, x)
      /\ \A x \in Handle : \A p \in Partitions[x] :
           Child(e, x, p) <=> Child(d, x, p) \/ (x = h /\ p = c /\ ~Top.ok /\ Live(d, h, DiskIo))
  <2>1. CASE Top.ok
    BY <1>1, <1>3, <2>1
  <2>2. CASE ~Top.ok
    <3>1. e = Add(d, h, DiskIo, Opened(PartitionDxe, c, "child"))
      BY <1>1, <1>3, <2>2
    <3>2. ChildOpened(d, h, c, e)
      BY <1>4, <3>1, ChildOpens
    <3> QED BY <2>2, <3>2 DEF ChildOpened, LiveSame, DisksSame
  <2> QED BY <2>1, <2>2
<1>8. Stands(e)
  <2>1. \A x \in Handle : (Live(e, x, DiskIo) <=> Live(d, x, DiskIo)) /\ (Live(e, x, BlockIo) <=> Live(d, x, BlockIo))
    BY <1>7, Names
  <2>2. \A x \in Handle : Partitions[x] \subseteq Handle
    BY PartitionsAre
  <2> QED BY <1>6, <1>7, <2>1, <2>2 DEF Stands
<1>9. Lasts(e)
  <2> SUFFICES ASSUME NEW i \in 1..(Len(stack) - 1), NEW k, k = stack[i]
               PROVE  (Holds(d, k) => Holds(e, k)) /\ (Settled(d, k) => Settled(e, k))
    BY <1>3 DEF Lasts
  <2>1. FrameOK(k)
    BY <1>1 DEF HdbInv, FramesOK
  <2>2. k.pc \in {"stopDiskIoEnd", "childStopped"} => k.handle \in Handle
    BY <2>1 DEF FrameOK, Outside
  <2>3. k.pc = "childStopped" => k.who \in Partitions[k.handle] /\ k.who \in Handle
    BY <2>1, <2>2, PartitionsAre DEF FrameOK
  <2>4. Holds(d, k) => Holds(e, k)
    BY <1>7, <2>2 DEF Holds
  <2>5. Settled(d, k) => Settled(e, k)
    BY <1>7, <2>2, <2>3, Names DEF Settled
  <2> QED BY <2>4, <2>5
<1>10. Relinks(e, t)
  <2> SUFFICES ASSUME NEW x \in Handle, NEW p \in Partitions[x],
                      Live(e, p, BlockIo), ~Child(e, x, p)
               PROVE  Live(db, p, BlockIo) /\ ~Child(db, x, p) /\ ~Stopping(Top, x, p)
    BY DEF Relinks
  <2>1. Live(d, p, BlockIo) /\ ~Child(d, x, p)
    BY <1>7, PartitionsAre, Names
  <2>2. ~(x = h /\ p = c)
    <3>1. Live(d, c, BlockIo) => Live(d, h, DiskIo)
      BY <1>4, <1>6 DEF Stands
    <3> QED BY <1>5, <1>7, <2>1, <3>1
  <2>3. ~Stopping(Top, x, p)
    BY <1>3, <2>2 DEF Stopping
  <2> QED BY <1>3, <2>1, <2>3
<1>11. Goes(t) /\ Len(t) = Len(stack) /\ t[Len(stack)] = f
  BY <1>1, <1>2, <1>3, GotoGoes
<1>12. Replaces(t[Len(stack)])
  BY <1>1, <1>2, <1>11, SameReplaces DEF Outside
<1>13. \A i \in 1..Len(t) : i >= Len(stack) => FrameStands(e, t, i)
  <2>1. \A i \in 1..Len(t) : i >= Len(stack) => i = Len(stack)
    BY <1>11 DEF HdbInv, FramesOK
  <2>2. Free(f)
    BY <1>2 DEF Free
  <2> QED BY <1>11, <2>1, <2>2, FreeStands
<1>14. Layered(e, t)
  BY <1>1, <1>8, <1>9, <1>10, <1>11, <1>12, <1>13, Onward
<1> QED BY <1>3, <1>14, Layering

LEMMA StopChildrenReturnLayers ==
  ASSUME HdbInv, LayerInv, StopChildrenReturn
  PROVE  LayerInv'
<1>1. stack # <<>> /\ Top.pc = "stopChildren" /\ UNCHANGED db /\ stack' = Returned(~Top.done)
  BY DEF StopChildrenReturn, At, Return, Returned
<1>2. PICK e : e = db' /\ Steady(db, e)
  BY <1>1, SteadySame
<1>3. PICK ok \in BOOLEAN : ok = ~Top.done
  OBVIOUS
<1>4. Top.pc \notin Outside /\ Top.pc # "childStopped" /\ Top.pc \notin {"uninstall", "refused"}
  BY <1>1 DEF Outside
<1>5. stack' = Returned(ok)
  BY <1>1, <1>3
<1> QED BY <1>1, <1>2, <1>4, <1>5, ReturnsSteady

\* A service calls CoreConnectController or CoreDisconnectController.
LEMMA ServiceCalls ==
  ASSUME HdbInv, LayerInv, stack # <<>>, NEW e, e = db', Steady(db, e),
         Top.pc \in Looking, NEW pc, pc \in Looking \cup {"refused", "reconnected"},
         pc = Top.pc \/ (pc = "refused" /\ Top.pc \in {"uninstall", "reinstall"})
           \/ Top.pc = "reinstall",
         NEW left, NEW who, NEW done, NEW g \in Frames, g.pc \in {"connect", "disconnect"},
         CallsFrom(pc, left, who, done, g)
  PROVE  LayerInv'
<1>1. PICK f \in Frames : stack' = Pushed(f, g) /\ Has(f, Top, pc, left, who, done)
  BY DEF CallsFrom
<1>2. f.pc = pc /\ f.handle = Top.handle /\ f.guid = Top.guid
  BY <1>1 DEF Has
<1>3. Top.pc \notin Outside /\ Top.pc # "childStopped" /\ f.pc \notin Outside
  BY <1>2 DEF Looking, Outside
<1>4. g.pc \notin Outside /\ Free(g)
  BY DEF Outside, Free
<1>5. CalleeOf(f, g) /\ Holds(e, f)
  BY <1>2 DEF CalleeOf, Holds, Looking
<1>6. Replaces(f)
  <2>1. CASE Top.pc = "reinstall"
    <3>1. Top.pc \notin Answering
      BY <2>1 DEF Answering
    <3> QED BY <1>3, <3>1, FreeReplaces
  <2>2. CASE Top.pc # "reinstall"
    BY <1>2, <1>3, <2>2, SameReplaces
  <2> QED BY <2>1, <2>2
<1> QED BY <1>1, <1>3, <1>4, <1>5, <1>6, CallsSteady

LEMMA DisconnectUserLayers ==
  ASSUME HdbInv, LayerInv, DisconnectUser
  PROVE  LayerInv'
<1>1. /\ stack # <<>> /\ Top.pc \in Looking /\ UNCHANGED db
      /\ \E agents \in SUBSET Driver :
           CallsFrom(Top.pc, Top.left, Top.who, TRUE, Disconnect(Top.handle, agents))
  BY DisconnectUserGoes
<1>2. PICK e : e = db' /\ Steady(db, e)
  BY <1>1, SteadySame
<1>3. PICK agents \in SUBSET Driver :
        CallsFrom(Top.pc, Top.left, Top.who, TRUE, Disconnect(Top.handle, agents))
  BY <1>1
<1>4. PICK pc, left, who, done, h, g :
        /\ pc = Top.pc /\ left = Top.left /\ who = Top.who /\ done = TRUE /\ h = Top.handle
        /\ g = Disconnect(h, agents)
  OBVIOUS
<1>5. CallsFrom(pc, left, who, done, g)
  BY <1>3, <1>4
<1>6. h \in Handle
  BY <1>1, <1>4, LookingTop DEF DisconnectUser
<1>7. FrameOK(g) /\ g.pc = "disconnect"
  BY <1>4, <1>6, DisconnectIs
<1>8. g \in Frames /\ g.pc \in {"connect", "disconnect"}
  BY <1>7 DEF FrameOK
<1>9. pc \in Looking \cup {"refused", "reconnected"} /\ pc = Top.pc
  BY <1>1, <1>4
<1> QED BY <1>1, <1>2, <1>5, <1>8, <1>9, ServiceCalls

LEMMA NotAdmittedLayers ==
  ASSUME HdbInv, LayerInv, NotAdmitted \/ Refused
  PROVE  LayerInv'
<1>1. stack # <<>> /\ Top.pc \in Looking \cup {"refused"} /\ UNCHANGED db /\ stack' = Returned(FALSE)
  BY DEF NotAdmitted, Refused, AtRelease, At, Return, Returned, Looking
<1>2. PICK e : e = db' /\ Steady(db, e)
  BY <1>1, SteadySame
<1>3. PICK ok \in BOOLEAN : ok = FALSE
  OBVIOUS
<1>4. Top.pc \notin Outside /\ Top.pc # "childStopped"
  BY <1>1 DEF Outside, Looking
<1>5. stack' = Returned(ok) /\ (ok => Top.pc \notin {"uninstall", "refused"})
  BY <1>1, <1>3
<1> QED BY <1>1, <1>2, <1>4, <1>5, ReturnsSteady

LEMMA RefuseLayers ==
  ASSUME HdbInv, LayerInv, Refuse
  PROVE  LayerInv'
<1>1. /\ AtRelease /\ Top.pc \in {"uninstall", "reinstall"}
      /\ db' = (IF Top.ok THEN Emptied ELSE db)
      /\ CallsFrom("refused", Top.left, Top.who, Top.done, Connect(Top.handle))
  BY RefuseGoes
<1>2. stack # <<>> /\ Top.pc \in Looking /\ Top.handle \in Handle
  BY <1>1, LookingTop
<1>3. PICK e : e = db' /\ Steady(db, e)
  <2>1. CASE Top.ok
    <3>1. PICK e : e = Emptied
      OBVIOUS
    <3>2. Still(db, e)
      BY <1>1, <3>1, EmptiedStill
    <3> QED BY <1>1, <2>1, <3>1, <3>2 DEF Still, Steady
  <2>2. CASE ~Top.ok
    BY <1>1, <2>2, SteadySame
  <2> QED BY <2>1, <2>2
<1>4. PICK pc, left, who, done, h, g :
        /\ pc = "refused" /\ left = Top.left /\ who = Top.who /\ done = Top.done
        /\ h = Top.handle /\ g = Connect(h)
  OBVIOUS
<1>5. CallsFrom(pc, left, who, done, g)
  BY <1>1, <1>4
<1>6. g \in Frames /\ g.pc \in {"connect", "disconnect"}
  BY <1>2, <1>4, ConnectIs, ConnectHas
<1>7. /\ pc \in Looking \cup {"refused", "reconnected"}
      /\ pc = "refused" /\ Top.pc \in {"uninstall", "reinstall"}
  BY <1>1, <1>4
<1> QED BY <1>2, <1>3, <1>5, <1>6, <1>7, ServiceCalls

LEMMA CoreReinstallLayers ==
  ASSUME HdbInv, LayerInv, CoreReinstallProtocolInterface
  PROVE  LayerInv'
<1>1. /\ AtRelease /\ Top.pc = "reinstall" /\ Top.ok /\ Users = {} /\ ~Kept
      /\ Live(db, Top.handle, Top.guid)
      /\ db' = InsertTail(CoreRemoveInterfaceFromProtocol(Emptied, Top.handle, Top.guid),
                          Top.handle, Top.guid)
      /\ CallsFrom("reconnected", Top.left, Top.who, Top.done, Connect(Top.handle))
  BY CoreReinstallProtocolInterfaceGoes
<1>2. stack # <<>> /\ Top.pc \in Looking /\ Top.handle \in Handle /\ Top.guid \in Guid
  BY <1>1, LookingTop
<1>3. PICK h, g, e : h = Top.handle /\ g = Top.guid /\ e = db'
  OBVIOUS
<1>4. h \in Handle /\ g \in Guid /\ Live(db, h, g)
      /\ e = InsertTail(CoreRemoveInterfaceFromProtocol(Emptied, h, g), h, g)
  BY <1>1, <1>2, <1>3
<1>5. Still(db, e)
  BY <1>1, <1>3, <1>4, RenewsStill
<1>6. PICK pc, left, who, done, c :
        /\ pc = "reconnected" /\ left = Top.left /\ who = Top.who /\ done = Top.done
        /\ c = Connect(h)
  OBVIOUS
<1>7. CallsFrom(pc, left, who, done, c)
  BY <1>1, <1>3, <1>6
<1>8. c \in Frames /\ c.pc \in {"connect", "disconnect"}
  BY <1>4, <1>6, ConnectIs, ConnectHas
<1>9. pc \in Looking \cup {"refused", "reconnected"}
  BY <1>6
<1>10. Steady(db, e)
  BY <1>5 DEF Still, Steady
<1> QED BY <1>1, <1>2, <1>3, <1>7, <1>8, <1>9, <1>10, ServiceCalls

LEMMA ReinstallNotifyLayers ==
  ASSUME HdbInv, LayerInv, ReinstallNotify
  PROVE  LayerInv'
<1>1. stack # <<>> /\ Top.pc = "reconnected" /\ stack' = Returned(TRUE)
  BY DEF ReinstallNotify, At, Return, Returned
<1>2. PICK e : e = db'
  OBVIOUS
<1>3. e.list = db.list /\ e.open = db.open
  <2>1. PICK d, g, s : d = db /\ g = Top.guid
                       /\ s = db.signalled \cup {r \in Registration : RegGuid[r] = g}
    OBVIOUS
  <2>2. e = [d EXCEPT !.signalled = @ \cup {r \in Registration : RegGuid[r] = g}]
    BY <1>2, <2>1 DEF ReinstallNotify, CoreNotifyProtocolEntry
  <2>3. d \in Database
    BY <2>1 DEF HdbInv, DbInv
  <2>4. e.list = d.list /\ e.open = d.open
    BY <2>2, <2>3 DEF Database
  <2> QED BY <2>1, <2>4
<1>4. Steady(db, e)
  BY <1>3, QuietStill DEF Still, Steady
<1>5. PICK ok \in BOOLEAN : ok = TRUE
  OBVIOUS
<1>6. stack' = Returned(ok)
  BY <1>1, <1>5
<1>7. Top.pc \notin Outside /\ Top.pc # "childStopped" /\ Top.pc \notin {"uninstall", "refused"}
  BY <1>1 DEF Outside
<1> QED BY <1>1, <1>2, <1>4, <1>6, <1>7, ReturnsSteady

LEMMA CoreOpenProtocolExclusiveLayers ==
  ASSUME HdbInv, LayerInv, CoreOpenProtocolExclusive
  PROVE  LayerInv'
<1>1. /\ AtRelease /\ Top.pc = "exclusive" /\ Users = {} /\ stack' = Returned(TRUE)
      /\ db' = Add(db, Top.handle, Top.guid, Opened(App, NoHandle, "exclusive"))
  BY DEF CoreOpenProtocolExclusive, Released, Return, Returned
<1>2. stack # <<>> /\ Top.handle \in Handle /\ Top.guid \in Guid /\ DbInv(db)
  BY <1>1, LookingTop DEF HdbInv
<1>3. PICK h, g, e : h = Top.handle /\ g = Top.guid /\ e = db'
  OBVIOUS
<1>4. /\ h \in Handle /\ g \in Guid /\ With(db, h, g, "driver") = {}
      /\ e = Add(db, h, g, Opened(App, NoHandle, "exclusive"))
  BY <1>1, <1>2, <1>3 DEF Users
<1>5. Steady(db, e)
  BY <1>2, <1>4, ClaimStill DEF Still, Steady
<1>6. PICK ok \in BOOLEAN : ok = TRUE
  OBVIOUS
<1>7. stack' = Returned(ok)
  BY <1>1, <1>6
<1>8. Top.pc \notin Outside /\ Top.pc # "childStopped" /\ Top.pc \notin {"uninstall", "refused"}
  BY <1>1 DEF Outside
<1> QED BY <1>2, <1>3, <1>5, <1>7, <1>8, ReturnsSteady

LEMMA CoreUninstallLayers ==
  ASSUME HdbInv, LayerInv, CoreUninstallProtocolInterface
  PROVE  LayerInv'
<1>1. /\ AtRelease /\ Top.pc = "uninstall" /\ Top.ok /\ Users = {} /\ ~Kept
      /\ db' = CoreRemoveInterfaceFromProtocol(Emptied, Top.handle, Top.guid)
      /\ stack' = Returned(TRUE)
  BY DEF CoreUninstallProtocolInterface, Released, Return, Returned
<1>2. /\ stack # <<>> /\ Top.handle \in Handle /\ Top.guid \in Guid /\ Top.pc \in Sections
      /\ Depth(Top) = IF Top.guid = BlockIo THEN 0 ELSE 3
  BY <1>1, LookingTop
<1>3. PICK h, g, d, e, t : h = Top.handle /\ g = Top.guid /\ d = db /\ e = db' /\ t = stack'
  OBVIOUS
<1>4. Gone(d, h, g, e)
  <2>1. h \in Handle /\ g \in Guid /\ e = CoreRemoveInterfaceFromProtocol(Emptied, h, g)
    BY <1>1, <1>2, <1>3
  <2>2. Gone(db, h, g, e)
    BY <1>1, <1>3, <2>1, Removes
  <2> QED BY <1>3, <2>2
<1>5. /\ \A x \in Handle, y \in Guid : Live(e, x, y) <=> Live(d, x, y) /\ ~(x = h /\ y = g)
      /\ \A x \in Handle : OnDisk(e, x) <=> OnDisk(d, x)
      /\ \A x \in Handle : \A p \in Partitions[x] : Child(e, x, p) <=> Child(d, x, p)
      /\ g = DiskIo => \A p \in Partitions[h] : ~Child(d, h, p)
  BY <1>4 DEF Gone, DisksSame, KidsSame
<1>6. /\ \A x \in Handle : Live(e, x, DiskIo) <=> Live(d, x, DiskIo) /\ ~(x = h /\ g = DiskIo)
      /\ \A x \in Handle : Live(e, x, BlockIo) <=> Live(d, x, BlockIo) /\ ~(x = h /\ g = BlockIo)
  BY <1>5, Names
<1>7. /\ \A x \in Handle : Partitions[x] \subseteq Handle
  BY PartitionsAre
<1>8. g = DiskIo => \A p \in Partitions[h] : ~Live(d, p, BlockIo)
  <2> SUFFICES ASSUME g = DiskIo, NEW p \in Partitions[h], Live(d, p, BlockIo) PROVE FALSE
    OBVIOUS
  <2>1. ~Child(d, h, p)
    BY <1>5
  <2>2. PICK i \in 1..Len(stack) : Stopping(stack[i], h, p)
    BY <1>2, <1>3, <2>1 DEF LayerInv, Layered, Linked
  <2>3. PICK f, n : f = stack[i] /\ n = Len(stack)
    OBVIOUS
  <2>4. f.pc = "childStopped" /\ f.handle = Top.handle
    BY <1>3, <2>2, <2>3 DEF Stopping
  <2>5. n \in Nat /\ n >= 1 /\ Top = stack[n]
    BY <1>2, <2>3, CallersIs DEF HdbInv, FramesOK
  <2>6. i # n
    BY <1>1, <2>3, <2>4, <2>5
  <2>7. i \in 1..(n - 1)
    BY <2>3, <2>5, <2>6
  <2>8. f.pc \in Sections
    BY <2>4 DEF Sections
  <2>9. Depth(f) < Depth(Top)
    BY <1>2, <2>3, <2>4, <2>7, <2>8, NotAsDeep
  <2>10. Depth(f) = 5
    BY <2>4 DEF Depth, Looking, Agents
  <2>11. Depth(Top) = 3
    BY <1>2, <1>3, Names
  <2> QED BY <2>9, <2>10, <2>11
<1>9. Stands(e)
  <2>1. Stands(d)
    BY <1>3 DEF LayerInv, Layered
  <2> QED BY <1>5, <1>6, <1>7, <1>8, <2>1, Names DEF Stands
<1>10. Lasts(e)
  <2> SUFFICES ASSUME NEW i \in 1..(Len(stack) - 1), NEW k, k = stack[i]
               PROVE  (Holds(d, k) => Holds(e, k)) /\ (Settled(d, k) => Settled(e, k))
    BY <1>3 DEF Lasts
  <2>1. FrameOK(k)
    BY <1>2 DEF HdbInv, FramesOK
  <2>2. k.pc \in {"stopDiskIoEnd", "childStopped"} => k.handle \in Handle
    BY <2>1 DEF FrameOK, Outside
  <2>3. k.pc = "childStopped" => k.who \in Partitions[k.handle] /\ k.who \in Handle
    BY <2>1, <2>2, PartitionsAre DEF FrameOK
  <2>4. Holds(d, k) => Holds(e, k)
    BY <1>5, <2>2 DEF Holds
  <2>5. Settled(d, k) => Settled(e, k)
    BY <1>5, <1>6, <2>2, <2>3 DEF Settled
  <2> QED BY <2>4, <2>5
<1>11. Relinks(e, t)
  BY <1>1, <1>3, <1>5, <1>6, <1>7 DEF Relinks, Stopping
<1>12. PICK ok \in BOOLEAN : ok = TRUE
  OBVIOUS
<1>13. t = Returned(ok)
  BY <1>1, <1>3, <1>12
<1>14. Backs(t) /\ (Len(stack) > 1 => t[Len(stack) - 1] = Answered(stack[Len(stack) - 1], ok))
  BY <1>2, <1>13, ReturnBacks
<1>15. ASSUME Len(stack) > 1 PROVE Settled(e, t[Len(stack) - 1])
  <2>1. PICK c, a : c = stack[Len(stack) - 1] /\ a = Answered(c, ok)
    OBVIOUS
  <2>2. c \in Frames /\ FrameOK(c) /\ CalleeOf(c, Top)
    <3>1. Top.pc \notin Outside
      BY <1>1 DEF Outside
    <3> QED BY <1>2, <1>15, <2>1, <3>1, CallerIs
  <2>3. a.pc = c.pc /\ a.handle = c.handle /\ a.who = c.who
    BY <2>1, <2>2, AnsweredIs DEF Alike
  <2>4. c.pc = "stopDiskIoEnd" => c.handle = h /\ g = DiskIo
    BY <1>3, <2>2 DEF CalleeOf
  <2>5. c.pc = "childStopped" => c.who = h /\ g = BlockIo
    BY <1>3, <2>2 DEF CalleeOf
  <2>6. Settled(e, a)
    BY <1>2, <1>3, <1>6, <2>3, <2>4, <2>5 DEF Settled
  <2> QED BY <1>14, <1>15, <2>1, <2>6
<1>16. Layered(e, t)
  BY <1>2, <1>3, <1>9, <1>10, <1>11, <1>14, <1>15, Backward
<1> QED BY <1>3, <1>16, Layering

\* Functions that run above the others.
LEMMA AboveLayers ==
  ASSUME HdbInv, LayerInv, NEW e, e = db', Steady(db, e), NEW w \in Seq(Frames),
         \A i \in 1..Len(w) : Free(w[i]),
         stack # <<>> /\ w # <<>> => w[1].pc \in Outside, stack' = stack \o w
  PROVE  LayerInv'
<1>1. PICK t : t = stack'
  OBVIOUS
<1>2. t = stack \o w
  BY <1>1
<1>3. Layered(e, t)
  BY <1>2, AboveSteady
<1> QED BY <1>1, <1>3, Layering

LEMMA InterruptLayers ==
  ASSUME HdbInv, LayerInv, Interrupt
  PROVE  LayerInv'
<1>1. UNCHANGED db
  BY DEF Interrupt
<1>2. PICK h \in CallbackConnects : stack' = stack \o <<Callback, Connect(h)>>
  BY DEF Interrupt
<1>3. h \in Handle
  BY DriverModelAssumption
<1>4. PICK c, k, w : c = Callback /\ k = Connect(h) /\ w = <<c, k>>
  OBVIOUS
<1>5. c \in Frames /\ k \in Frames /\ c.pc = "callback" /\ k.pc = "connect"
  BY <1>3, <1>4, CallbackIs, ConnectIs, FrameIs DEF Callback, Connect
<1>6. w \in Seq(Frames) /\ Len(w) = 2 /\ w[1] = c /\ w[2] = k
  BY <1>4, <1>5
<1>7. \A i \in 1..Len(w) : Free(w[i])
  BY <1>5, <1>6 DEF Free
<1>8. w[1].pc \in Outside
  BY <1>5, <1>6 DEF Outside
<1>9. PICK e : e = db' /\ Steady(db, e)
  BY <1>1, SteadySame
<1>10. stack' = stack \o w
  BY <1>2, <1>4, Zenon
<1> QED BY <1>6, <1>7, <1>8, <1>9, <1>10, AboveLayers

LEMMA DispatchLayers ==
  ASSUME HdbInv, LayerInv, Dispatch
  PROVE  LayerInv'
<1>1. PICK r \in Registration :
        /\ db' = PutSignalled(db, db.signalled \ {r})
        /\ stack' = Append(stack, Locate(r))
  BY Fields DEF Dispatch, PutSignalled, HdbInv, DbInv
<1>2. PICK e, d, q : e = db' /\ d = db /\ q = db.signalled \ {r}
  OBVIOUS
<1>3. DbInv(d) /\ q \in SUBSET Registration /\ e = PutSignalled(d, q)
  BY <1>1, <1>2, Fields DEF HdbInv, DbInv
<1>4. e.list = d.list /\ e.open = d.open
  BY <1>3, SignalledIs
<1>5. Steady(db, e)
  BY <1>2, <1>4, QuietStill DEF Still, Steady
<1>6. PICK f, w : f = Locate(r) /\ w = <<f>>
  OBVIOUS
<1>7. f \in Frames /\ f.pc = "locate"
  <2>1. f \in Frames
    BY <1>6, CallbackIs, Zenon
  <2>2. f.pc = "locate"
    BY <1>6, FrameIs DEF Locate
  <2> QED BY <2>1, <2>2
<1>8. w \in Seq(Frames) /\ Len(w) = 1 /\ w[1] = f
  BY <1>6, <1>7
<1>9. (\A i \in 1..Len(w) : Free(w[i])) /\ w[1].pc \in Outside
  BY <1>7, <1>8 DEF Free, Outside
<1>10. stack' = stack \o w
  <2>1. stack \in Seq(Frames)
    BY DEF HdbInv, FramesOK
  <2>2. stack' = Append(stack, f)
    BY <1>1, <1>6, Zenon
  <2>3. PICK b : b = stack
    OBVIOUS
  <2>4. Append(b, f) = b \o <<f>>
    BY <1>7, <2>1, <2>3, AppendIsConcat
  <2> QED BY <1>6, <2>2, <2>3, <2>4, Zenon
<1> QED BY <1>2, <1>5, <1>8, <1>9, <1>10, AboveLayers

LEMMA LocateHandleLayers ==
  ASSUME HdbInv, LayerInv, LocateHandle
  PROVE  LayerInv'
<1>1. stack # <<>> /\ Top.pc = "locate" /\ UNCHANGED stack
  BY DEF LocateHandle, At
<1>2. PICK d, e : d = db /\ e = db'
  OBVIOUS
<1>3. e.list = d.list /\ e.open = d.open
  <2>1. PICK k \in Top.left : db' = LocateNext(db, k)
    BY DEF LocateHandle
  <2>2. e = [d EXCEPT !.position[k] = Pending(d, k)[1]]
    BY <1>2, <2>1 DEF LocateNext
  <2>3. d \in Database
    BY <1>2 DEF HdbInv, DbInv
  <2> QED BY <2>2, <2>3 DEF Database
<1>4. Steady(db, e)
  BY <1>2, <1>3, QuietStill DEF Still, Steady
<1>5. PICK w : w = <<>>
  OBVIOUS
<1>6. w \in Seq(Frames) /\ Len(w) = 0
  BY <1>5
<1>7. stack' = stack \o w
  BY <1>1, <1>5 DEF HdbInv, FramesOK
<1>8. \A i \in 1..Len(w) : Free(w[i])
  BY <1>6
<1> QED BY <1>2, <1>4, <1>5, <1>6, <1>7, <1>8, AboveLayers

\* A notification or timer function returns: the caller had its answer before.
LEMMA CallbackReturnLayers ==
  ASSUME HdbInv, LayerInv, CallbackReturn \/ LocateNotFound
  PROVE  LayerInv'
<1>1. stack # <<>> /\ Top.pc \in Outside /\ UNCHANGED db /\ stack' = Callers
  BY DEF CallbackReturn, LocateNotFound, At, Outside
<1>2. PICK e : e = db' /\ Steady(db, e)
  BY <1>1, SteadySame
<1>3. PICK n, t : n = Len(stack) /\ t = Callers
  OBVIOUS
<1>4. /\ n \in Nat /\ n >= 1 /\ Top = stack[n] /\ stack \in Seq(Frames)
      /\ t \in Seq(Frames) /\ Len(t) = n - 1 /\ \A i \in 1..(n - 1) : t[i] = stack[i]
  BY <1>1, <1>3, CallersIs DEF HdbInv, FramesOK
<1>5. ASSUME n > 1 PROVE Alike(t[n - 1], stack[n - 1]) /\ Settled(e, t[n - 1])
  <2>1. PICK j : j = n - 1
    OBVIOUS
  <2>2. j \in 1..n /\ j \in 1..(n - 1) /\ j + 1 = n
    BY <1>4, <1>5, <2>1
  <2>3. t[j] = stack[j] /\ stack[j] \in Frames /\ FrameOK(stack[j])
    BY <1>3, <1>4, <2>2 DEF HdbInv, FramesOK
  <2>4. ~Awaits(stack, j)
    BY <1>1, <1>4, <2>2 DEF Awaits
  <2>5. Settled(db, stack[j])
    BY <1>3, <2>2, <2>4 DEF LayerInv, Layered, Answers
  <2>6. Settled(e, stack[j])
    BY <1>2, <2>3, <2>5, KnowsSteady
  <2> QED BY <2>1, <2>3, <2>6 DEF Alike
<1>6. Backs(t)
  <2>1. \A i \in 1..(n - 2) : i \in 1..(n - 1)
    BY <1>4
  <2> QED BY <1>3, <1>4, <1>5, <2>1 DEF Backs
<1>7. Top.pc # "childStopped"
  BY <1>1 DEF Outside
<1>8. Layered(e, t)
  BY <1>1, <1>2, <1>3, <1>5, <1>6, <1>7, BackwardSteady
<1> QED BY <1>1, <1>2, <1>3, <1>8, Layering

\* What the clients change: the disk's Block I/O is installed, or nothing in the layers.
ClientOf(d, e) ==
  /\ \A x \in Handle : Live(e, x, DiskIo) <=> Live(d, x, DiskIo)
  /\ \A x \in Handle : \A p \in Partitions[x] : Live(e, p, BlockIo) <=> Live(d, p, BlockIo)
  /\ DisksSame(d, e) /\ BusesSame(d, e) /\ KidsSame(d, e)

\* The service they call, from TPL_APPLICATION or from a function at TPL_CALLBACK.
Begun(t) ==
  /\ t \in Seq(Frames)
  /\ \A i \in 1..Len(t) :
       \/ t[i].pc = "callback" /\ i = 1
       \/ t[i].pc \in Looking \cup {"connect", "disconnectAll"} /\ i = Len(t)

LEMMA ServicePc ==
  ASSUME NEW f \in Services
  PROVE  f.pc \in Looking \cup {"connect", "disconnectAll"}
<1>1. \/ \E h \in Handle : f = Connect(h) \/ f = DisconnectAll(h)
      \/ f = Uninstall(Disk, BlockIo) \/ f = Reinstall(Disk, BlockIo)
      \/ \E h \in Handle, g \in Guid : f = OpenExclusive(h, g)
  BY DEF Services
<1> QED BY <1>1 DEF Connect, DisconnectAll, Uninstall, Reinstall, OpenExclusive, Frame, Looking

LEMMA CallGoes ==
  ASSUME HdbInv, Call
  PROVE  /\ stack = <<>> /\ UNCHANGED interrupts
         /\ \E d, e, t : d = db /\ e = db' /\ t = stack' /\ ClientOf(d, e) /\ Begun(t)
<1>1. stack = <<>> /\ UNCHANGED interrupts
  BY DEF Call
<1>2. PICK base \in {<<>>, <<Callback>>} :
       \/ \E f \in Services : stack' = Append(base, f) /\ UNCHANGED db
       \/ /\ ~Live(db, Disk, BlockIo)
          /\ db' = Install(db, Disk, BlockIo)
          /\ stack' = base
       \/ /\ \E h \in Handle, g \in Guid :
               db' = CoreCloseProtocol(db, h, g, App, NoHandle)
          /\ stack' = base
  BY Zenon DEF Call
<1>3. PICK c, d, e, t : c = Callback /\ d = db /\ e = db' /\ t = stack'
  OBVIOUS
<1>4. DbInv(d)
  BY <1>3 DEF HdbInv
<1>5. c \in Frames /\ c.pc = "callback"
  BY <1>3, CallbackIs, FrameIs DEF Callback
<1>6. base = <<>> \/ base = <<c>>
  BY <1>2, <1>3
<1>7. /\ base \in Seq(Frames) /\ Len(base) \in {0, 1} /\ Begun(base)
      /\ \A i \in 1..Len(base) : base[i] = c /\ i = 1
  <2>1. CASE base = <<>>
    BY <2>1 DEF Begun
  <2>2. CASE base = <<c>>
    <3>1. /\ base \in Seq(Frames) /\ Len(base) \in {0, 1}
          /\ \A i \in 1..Len(base) : base[i] = c /\ i = 1
      BY <1>5, <2>2
    <3>2. Begun(base)
      BY <1>5, <3>1 DEF Begun
    <3> QED BY <3>1, <3>2
  <2> QED BY <1>6, <2>1, <2>2
<1>8. Still(d, e) => ClientOf(d, e)
  BY PartitionsAre, Names DEF Still, ClientOf, LiveSame
<1>9. CASE \E f \in Services : stack' = Append(base, f) /\ UNCHANGED db
  <2>1. PICK f \in Services : t = Append(base, f) /\ e = d
    BY <1>3, <1>9
  <2>2. f \in Frames /\ f.pc \in Looking \cup {"connect", "disconnectAll"}
    BY ServiceIs, ServicePc
  <2>3. /\ t \in Seq(Frames) /\ Len(t) = Len(base) + 1 /\ t[Len(base) + 1] = f
        /\ \A i \in 1..Len(base) : t[i] = c /\ i = 1
    BY <1>7, <2>1, <2>2, AppendProperties
  <2>4. Begun(t)
    <3> SUFFICES ASSUME NEW i \in 1..Len(t)
                 PROVE  \/ t[i].pc = "callback" /\ i = 1
                        \/ t[i].pc \in Looking \cup {"connect", "disconnectAll"} /\ i = Len(t)
      BY <2>3 DEF Begun
    <3>1. i \in 1..Len(base) \/ i = Len(base) + 1
      BY <1>7, <2>3
    <3> QED BY <1>5, <2>2, <2>3, <3>1
  <2>5. Still(d, e)
    BY <2>1, QuietStill
  <2> QED BY <1>1, <1>3, <1>8, <2>4, <2>5
<1>10. CASE ~Live(db, Disk, BlockIo) /\ db' = Install(db, Disk, BlockIo) /\ stack' = base
  <2>1. PICK h \in Handle, g \in Guid : h = Disk /\ g = BlockIo
    BY DriverModelAssumption, Names
  <2>2. ~Live(d, h, g) /\ e = Install(d, h, g) /\ t = base
    BY <1>3, <1>10, <2>1
  <2>3. /\ e.open = d.open
        /\ \A x \in Handle, y \in Guid : Live(e, x, y) <=> Live(d, x, y) \/ (y = g /\ x = h)
    <3>1. Installed(d, h, g, e)
      BY <1>4, <2>2, Installs
    <3> QED BY <3>1 DEF Installed
  <2>4. DisksSame(d, e) /\ BusesSame(d, e) /\ KidsSame(d, e)
    BY <2>3, OpenSame
  <2>5. \A x \in Handle : \A p \in Partitions[x] : p \in Handle /\ p # h
    BY <2>1, PartitionsAre, DriverModelAssumption
  <2>6. ClientOf(d, e)
    BY <2>1, <2>3, <2>4, <2>5, Names DEF ClientOf
  <2> QED BY <1>1, <1>3, <1>7, <2>2, <2>6
<1>11. CASE /\ \E h \in Handle, g \in Guid : db' = CoreCloseProtocol(db, h, g, App, NoHandle)
            /\ stack' = base
  <2>1. PICK h \in Handle, g \in Guid : e = CoreCloseProtocol(d, h, g, App, NoHandle)
    BY <1>3, <1>11
  <2>2. Still(d, e)
    BY <1>4, <2>1, AppCloses
  <2> QED BY <1>1, <1>3, <1>7, <1>8, <1>11, <2>2
<1> QED BY <1>2, <1>9, <1>10, <1>11

LEMMA CallLayers ==
  ASSUME HdbInv, LayerInv, Call
  PROVE  LayerInv'
<1>1. /\ stack = <<>>
      /\ \E d, e, t : d = db /\ e = db' /\ t = stack' /\ ClientOf(d, e) /\ Begun(t)
  BY CallGoes
<1>2. PICK d, e, t : d = db /\ e = db' /\ t = stack' /\ ClientOf(d, e) /\ Begun(t)
  BY <1>1
<1>3. /\ \A x \in Handle : Live(e, x, DiskIo) <=> Live(d, x, DiskIo)
      /\ \A x \in Handle : \A p \in Partitions[x] : Live(e, p, BlockIo) <=> Live(d, p, BlockIo)
      /\ \A x \in Handle : OnDisk(e, x) <=> OnDisk(d, x)
      /\ \A x \in Handle : \A p \in Partitions[x] : Child(e, x, p) <=> Child(d, x, p)
  BY <1>2 DEF ClientOf, DisksSame, KidsSame
<1>4. Stands(d) /\ Linked(d, <<>>)
  BY <1>1, <1>2 DEF LayerInv, Layered
<1>5. Stands(e)
  BY <1>3, <1>4 DEF Stands
<1>6. Linked(e, t)
  BY <1>3, <1>4 DEF Linked
<1>7. \A i \in 1..Len(t) : FrameStands(e, t, i)
  <2>1. \A i \in 1..Len(t) : Free(t[i])
    BY <1>2 DEF Begun, Free, Looking
  <2> QED BY <2>1, FreeStands
<1>8. Layered(e, t)
  BY <1>5, <1>6, <1>7, FramesStand DEF Layered
<1> QED BY <1>2, <1>8, Layering

LEMMA InitLayers ==
  ASSUME Init
  PROVE  LayerInv
<1>1. db = EmptyDatabase /\ stack = <<>> /\ Len(stack) = 0
  BY DEF Init
<1>2. \A x \in Handle, y \in Guid : ~Live(db, x, y)
  <2> SUFFICES ASSUME NEW x \in Handle, NEW y \in Guid, Live(db, x, y) PROVE FALSE
    OBVIOUS
  <2>1. db.list[y] = <<>>
    BY <1>1 DEF EmptyDatabase
  <2> QED BY <2>1 DEF Live, Contains
<1>3. Stands(db) /\ Linked(db, stack)
  BY <1>2, PartitionsAre, Names DEF Stands, Linked
<1>4. Called(stack) /\ Answers(db, stack)
  BY <1>1 DEF Called, Answers
<1> QED BY <1>3, <1>4 DEF LayerInv, Layered

LEMMA NextLayers ==
  ASSUME HdbInv, LayerInv, [Next]_vars
  PROVE  LayerInv'
<1>1. CASE ConnectStep
  BY <1>1, ConnectSupportedLayers, ConnectStartLayers, ConnectChildrenLayers DEF ConnectStep
<1>2. CASE DisconnectStep
  BY <1>2, DisconnectCollectLayers, DisconnectNextLayers, DisconnectChildrenStoppedLayers,
     DisconnectStoppedLayers, DisconnectReturnLayers DEF DisconnectStep
<1>3. CASE StopStep
  BY <1>3, StopDiskIoLayers, StopDiskIoEndLayers, StopBusLayers, StopChildLayers,
     ChildStoppedLayers, StopChildrenReturnLayers DEF StopStep
<1>4. CASE ReleaseStep
  BY <1>4, DisconnectUserLayers, NotAdmittedLayers, RefuseLayers, CoreUninstallLayers,
     CoreReinstallLayers, ReinstallNotifyLayers, CoreOpenProtocolExclusiveLayers
     DEF ReleaseStep
<1>5. CASE CallbackStep
  BY <1>5, CallbackReturnLayers, DispatchLayers, LocateHandleLayers DEF CallbackStep
<1>6. CASE Call \/ Interrupt
  BY <1>6, CallLayers, InterruptLayers
<1>7. CASE UNCHANGED vars
  BY <1>7 DEF vars, LayerInv
<1> QED BY <1>1, <1>2, <1>3, <1>4, <1>5, <1>6, <1>7 DEF Next, Continue

\* The inductive invariant of the layers: a driver's Stop closes the interface that its
\* own layer stands on only when CoreUninstallProtocolInterface has taken that layer out,
\* and the answers that the functions of the call stack wait for mean what they act on,
\* also when a timer function connects the controller between two of their sections.
THEOREM LayerInvariant == Spec => []LayerInv
<1>1. Init => LayerInv
  BY InitLayers
<1>2. HdbInv /\ LayerInv /\ [Next]_vars => LayerInv'
  BY NextLayers
<1> QED BY <1>1, <1>2, HdbInvariant, PTL DEF Spec

-----------------------------------------------------------------------------
(* While no timer function has run.                                         *)

\* No partition appears, and no bus is left.
Lighter(d, e) ==
  /\ \A h \in Handle : \A p \in Partitions[h] : Live(e, p, BlockIo) => Live(d, p, BlockIo)
  /\ \A h \in Handle : OnBus(d, h) => OnBus(e, h)

LEMMA StillLighter ==
  ASSUME NEW d, NEW e, LiveSame(d, e), BusesSame(d, e)
  PROVE  Lighter(d, e)
BY PartitionsAre, Names DEF LiveSame, BusesSame, Lighter

LEMMA ManagedLighter ==
  ASSUME NEW d, NEW e, Lighter(d, e), Managed(d)
  PROVE  Managed(e)
BY DEF Lighter, Managed, Bare

\* The callers know what they knew.
Strengthens(d, e, f) == (Empties(d, f) => Empties(e, f)) /\ (Cleared(d, f) => Cleared(e, f))
CalmLasts(e) == \A i \in 1..(Len(stack) - 1) : Strengthens(db, e, stack[i])

LEMMA LighterStrengthens ==
  ASSUME NEW d, NEW e, NEW f, FrameOK(f),
         f.pc \in Emptying =>
           \A p \in Partitions[f.handle] : Live(e, p, BlockIo) => Live(d, p, BlockIo)
  PROVE  Strengthens(d, e, f)
<1>1. f.pc \in Emptying => f.handle \in Handle
  BY DEF FrameOK, Outside, Emptying
<1>2. f.pc = "childStopped" => f.who \in Partitions[f.handle]
  BY DEF FrameOK
<1>3. Empties(d, f) => Empties(e, f)
  BY <1>1 DEF Empties, Bare, Emptying
<1>4. Cleared(d, f) => Cleared(e, f)
  BY <1>1, <1>2 DEF Cleared, Bare, Emptying
<1> QED BY <1>3, <1>4 DEF Strengthens

LEMMA CalmLastsLighter ==
  ASSUME HdbInv, stack # <<>>, NEW e, Lighter(db, e)
  PROVE  CalmLasts(e)
<1> SUFFICES ASSUME NEW i \in 1..(Len(stack) - 1), NEW f, f = stack[i]
             PROVE  Strengthens(db, e, f)
  BY DEF CalmLasts
<1>1. FrameOK(f)
  BY DEF HdbInv, FramesOK
<1>2. f.pc \in Emptying => f.handle \in Handle
  BY <1>1 DEF FrameOK, Outside, Emptying
<1>3. f.pc \in Emptying =>
        \A p \in Partitions[f.handle] : Live(e, p, BlockIo) => Live(db, p, BlockIo)
  BY <1>2 DEF Lighter
<1> QED BY <1>1, <1>3, LighterStrengthens

\* What a frame on top of the callers must be.
Above(f) ==
  \A i \in 1..(Len(stack) - 1) :
    stack[i].pc \in Emptying => PathLength[stack[i].handle] < PathLength[f.handle]
CalmAt(e, t, i) ==
  /\ t[i].pc \notin Outside
  /\ Empties(e, t[i]) /\ (Awaits(t, i) \/ Cleared(e, t[i]))
  /\ t[i].pc \in Starting => Above(t[i])
  /\ t[i].pc \in Emptying => \A j \in 1..Len(t) : t[j].pc \in Starting => j < i

LEMMA OnwardCalm ==
  ASSUME HdbInv, Calm(db, stack), stack # <<>>, NEW e, NEW t, Goes(t), Managed(e),
         CalmLasts(e), Top.pc \notin Outside,
         \A i \in 1..Len(t) : i >= Len(stack) => CalmAt(e, t, i)
  PROVE  Calm(e, t)
<1>1. PICK n : n = Len(stack)
  OBVIOUS
<1>2. /\ n \in Nat /\ n >= 1 /\ Top = stack[n] /\ t \in Seq(Frames) /\ n <= Len(t)
      /\ \A i \in 1..(n - 1) : t[i] = stack[i]
  BY <1>1, CallersIs DEF Goes, HdbInv, FramesOK
<1>3. PICK m : m = Len(t)
  OBVIOUS
<1>4. m \in Nat /\ n <= m
  BY <1>2, <1>3
<1>5. \A i \in 1..m : i >= n \/ i \in 1..(n - 1)
  BY <1>2, <1>4
<1>6. Stripped(e, t)
  <2> SUFFICES ASSUME NEW i \in 1..m PROVE Empties(e, t[i]) /\ (Awaits(t, i) \/ Cleared(e, t[i]))
    BY <1>3 DEF Stripped
  <2>1. CASE i >= n
    BY <1>1, <1>3, <2>1 DEF CalmAt
  <2>2. CASE i \in 1..(n - 1)
    <3>1. i \in 1..n /\ i + 1 <= n /\ i < m /\ i < n
      BY <1>4, <2>2, <1>2
    <3>2. t[i] = stack[i] /\ Strengthens(db, e, stack[i])
      BY <1>1, <1>2, <2>2 DEF CalmLasts
    <3>3. Empties(db, stack[i]) /\ (Awaits(stack, i) \/ Cleared(db, stack[i]))
      BY <1>1, <3>1 DEF Calm, Stripped
    <3>4. Awaits(stack, i) => Awaits(t, i)
      <4>1. CASE i + 1 = n
        <5>1. t[n].pc \notin Outside
          BY <1>1, <1>2, <1>3, <1>4 DEF CalmAt
        <5> QED BY <1>3, <3>1, <4>1, <5>1 DEF Awaits
      <4>2. CASE i + 1 # n
        <5>1. t[i + 1] = stack[i + 1]
          BY <1>2, <2>2, <3>1, <4>2
        <5> QED BY <1>3, <3>1, <5>1 DEF Awaits
      <4> QED BY <4>1, <4>2
    <3> QED BY <3>2, <3>3, <3>4 DEF Strengthens
  <2> QED BY <1>5, <2>1, <2>2
<1>7. Higher(t)
  <2> SUFFICES ASSUME NEW i \in 1..m, NEW j \in 1..m, i < j, t[i].pc \in Emptying,
                      t[j].pc \in Starting
               PROVE  PathLength[t[i].handle] < PathLength[t[j].handle]
    BY <1>3 DEF Higher
  <2>1. CASE i >= n
    <3>1. CalmAt(e, t, i)
      BY <1>1, <1>3, <2>1
    <3>2. j < i
      BY <1>3, <3>1 DEF CalmAt
    <3> QED BY <3>2, <1>4
  <2>2. CASE i \in 1..(n - 1) /\ j >= n
    <3>1. CalmAt(e, t, j)
      BY <1>1, <1>3, <2>2
    <3>2. t[i] = stack[i]
      BY <1>2, <2>2
    <3> QED BY <1>1, <2>2, <3>1, <3>2 DEF CalmAt, Above
  <2>3. CASE i \in 1..(n - 1) /\ j \in 1..(n - 1)
    <3>1. t[i] = stack[i] /\ t[j] = stack[j] /\ i \in 1..n /\ j \in 1..n
      BY <1>2, <2>3
    <3> QED BY <1>1, <3>1 DEF Calm, Higher
  <2> QED BY <1>5, <2>1, <2>2, <2>3
<1>8. Innermost(t)
  <2> SUFFICES ASSUME NEW i \in 1..m
               PROVE  (t[i].pc = "callback" => i = 1) /\ (t[i].pc = "locate" => i = m)
    BY <1>3 DEF Innermost
  <2>1. CASE i >= n
    <3>1. t[i].pc \notin Outside
      BY <1>1, <1>3, <2>1 DEF CalmAt
    <3> QED BY <3>1 DEF Outside
  <2>2. CASE i \in 1..(n - 1)
    <3>1. t[i] = stack[i] /\ i \in 1..n /\ i # n
      BY <1>2, <2>2
    <3> QED BY <1>1, <3>1 DEF Calm, Innermost
  <2> QED BY <1>5, <2>1, <2>2
<1> QED BY <1>6, <1>7, <1>8 DEF Calm

LEMMA BackwardCalm ==
  ASSUME HdbInv, Calm(db, stack), stack # <<>>, NEW e, NEW t, Backs(t), Managed(e),
         CalmLasts(e), Len(stack) > 1 => Cleared(e, t[Len(stack) - 1])
  PROVE  Calm(e, t)
<1>1. PICK n : n = Len(stack)
  OBVIOUS
<1>2. /\ n \in Nat /\ n >= 1 /\ t \in Seq(Frames) /\ Len(t) = n - 1
      /\ \A i \in 1..(n - 2) : t[i] = stack[i]
      /\ n > 1 => Alike(t[n - 1], stack[n - 1])
  BY <1>1, CallersIs DEF Backs, HdbInv, FramesOK
<1>3. \A i \in 1..(n - 1) :
        /\ i \in 1..n /\ i < n
        /\ t[i].pc = stack[i].pc /\ t[i].handle = stack[i].handle /\ t[i].left = stack[i].left
        /\ t[i].who = stack[i].who /\ t[i].done = stack[i].done
        /\ i \in 1..(n - 2) => t[i] = stack[i]
  <2> SUFFICES ASSUME NEW i \in 1..(n - 1)
               PROVE  /\ i \in 1..n /\ i < n
                      /\ t[i].pc = stack[i].pc /\ t[i].handle = stack[i].handle /\ t[i].left = stack[i].left
                      /\ t[i].who = stack[i].who /\ t[i].done = stack[i].done
    BY <1>2
  <2>1. i \in 1..(n - 2) \/ (i = n - 1 /\ n > 1)
    BY <1>2
  <2>2. CASE i \in 1..(n - 2)
    BY <1>2, <2>2
  <2>3. CASE i = n - 1 /\ n > 1
    BY <1>2, <2>3 DEF Alike
  <2> QED BY <2>1, <2>2, <2>3
<1>4. Stripped(e, t)
  <2> SUFFICES ASSUME NEW i \in 1..(n - 1)
               PROVE  Empties(e, t[i]) /\ (Awaits(t, i) \/ Cleared(e, t[i]))
    BY <1>2 DEF Stripped
  <2>1. Strengthens(db, e, stack[i])
    BY <1>1 DEF CalmLasts
  <2>2. Empties(db, stack[i]) /\ (Awaits(stack, i) \/ Cleared(db, stack[i]))
    BY <1>1, <1>3 DEF Calm, Stripped
  <2>3. Empties(e, t[i])
    <3>1. Empties(e, stack[i])
      BY <2>1, <2>2 DEF Strengthens
    <3> QED BY <1>3, <3>1 DEF Empties, Stopping
  <2>4. CASE i = n - 1
    BY <1>1, <1>2, <2>3, <2>4
  <2>5. CASE i # n - 1
    <3>1. i \in 1..(n - 2) /\ i + 1 \in 1..(n - 1) /\ i < n - 1 /\ i < n
      BY <1>2, <2>5
    <3>2. t[i] = stack[i] /\ t[i + 1].pc = stack[i + 1].pc
      BY <1>3, <3>1
    <3>3. Awaits(stack, i) => Awaits(t, i)
      BY <1>2, <3>1, <3>2 DEF Awaits
    <3> QED BY <2>1, <2>2, <2>3, <3>2, <3>3 DEF Strengthens
  <2> QED BY <2>4, <2>5
<1>5. Higher(t)
  <2> SUFFICES ASSUME NEW i \in 1..(n - 1), NEW j \in 1..(n - 1), i < j, t[i].pc \in Emptying,
                      t[j].pc \in Starting
               PROVE  PathLength[t[i].handle] < PathLength[t[j].handle]
    BY <1>2 DEF Higher
  <2>1. PathLength[stack[i].handle] < PathLength[stack[j].handle]
    BY <1>1, <1>3 DEF Calm, Higher
  <2> QED BY <1>3, <2>1
<1>6. Innermost(t)
  <2> SUFFICES ASSUME NEW i \in 1..(n - 1)
               PROVE  (t[i].pc = "callback" => i = 1) /\ t[i].pc # "locate"
    BY <1>2 DEF Innermost
  <2> QED BY <1>1, <1>3 DEF Calm, Innermost
<1> QED BY <1>4, <1>5, <1>6 DEF Calm

CalmNow == Calm(db, stack)

LEMMA Calming ==
  ASSUME NEW e, e = db', NEW t, t = stack', Calm(e, t)
  PROVE  CalmNow'
<1>1. CalmNow' = Calm(db', stack')
  BY DEF CalmNow
<1> QED BY <1>1

\* The database is what the callers count on.
Eases(e) == Managed(e) /\ CalmLasts(e)

LEMMA LighterEases ==
  ASSUME HdbInv, CalmNow, stack # <<>>, NEW e, Lighter(db, e)
  PROVE  Eases(e)
BY ManagedLighter, CalmLastsLighter DEF Eases, CalmNow, Calm

LEMMA SameEases ==
  ASSUME HdbInv, CalmNow, stack # <<>>, UNCHANGED db
  PROVE  \E e : e = db' /\ Eases(e)
<1>1. PICK e : e = db' /\ Steady(db, e) /\ BusesSame(db, e) /\ ClaimsSame(db, e)
  BY SteadySame
<1>2. Lighter(db, e)
  BY <1>1, StillLighter DEF Steady
<1> QED BY <1>1, <1>2, LighterEases

LEMMA GotoCalm ==
  ASSUME HdbInv, CalmNow, stack # <<>>, NEW e, e = db', Eases(e), Top.pc \notin Outside,
         NEW f \in Frames, f.pc \notin Outside, Empties(e, f), Cleared(e, f),
         f.pc \in Starting => Above(f), stack' = Append(Callers, f)
  PROVE  CalmNow'
<1>1. PICK t, n : t = stack' /\ n = Len(stack)
  OBVIOUS
<1>2. Goes(t) /\ Len(t) = n /\ t[n] = f
  BY <1>1, GotoGoes
<1>3. n \in Nat
  BY <1>1 DEF HdbInv, FramesOK
<1>4. \A i \in 1..Len(t) : i >= n => CalmAt(e, t, i)
  <2> SUFFICES ASSUME NEW i \in 1..Len(t), i >= n PROVE CalmAt(e, t, i)
    OBVIOUS
  <2>1. i = n /\ t[i] = f
    BY <1>2, <1>3
  <2>2. ASSUME f.pc \in Emptying, NEW j \in 1..Len(t), t[j].pc \in Starting PROVE j < i
    <3>1. f.pc \notin Starting
      BY <2>2 DEF Emptying, Starting
    <3>2. j # n
      BY <1>2, <2>2, <3>1
    <3> QED BY <1>2, <1>3, <2>1, <3>2
  <2> QED BY <2>1, <2>2 DEF CalmAt
<1>5. Calm(e, t)
  BY <1>1, <1>2, <1>4, OnwardCalm DEF Eases, CalmNow
<1> QED BY <1>1, <1>5, Calming

LEMMA PushCalm ==
  ASSUME HdbInv, CalmNow, stack # <<>>, NEW e, e = db', Eases(e), Top.pc \notin Outside,
         NEW f \in Frames, NEW g \in Frames, f.pc \notin Outside, f.pc \notin Starting,
         g.pc \notin Outside, Empties(e, f), Empties(e, g), Cleared(e, g),
         g.pc \in Starting => Above(g) /\ f.pc \notin Emptying, stack' = Pushed(f, g)
  PROVE  CalmNow'
<1>1. PICK t, n : t = stack' /\ n = Len(stack)
  OBVIOUS
<1>2. Goes(t) /\ Len(t) = n + 1 /\ t[n] = f /\ t[n + 1] = g
  BY <1>1, PushGoes
<1>3. n \in Nat
  BY <1>1 DEF HdbInv, FramesOK
<1>4. \A i \in 1..Len(t) : i >= n => CalmAt(e, t, i)
  <2> SUFFICES ASSUME NEW i \in 1..Len(t), i >= n PROVE CalmAt(e, t, i)
    OBVIOUS
  <2>1. i = n \/ i = n + 1
    BY <1>2, <1>3
  <2>2. CASE i = n
    <3>1. t[i] = f /\ Awaits(t, i)
      BY <1>2, <1>3, <2>2 DEF Awaits
    <3>2. ASSUME f.pc \in Emptying, NEW j \in 1..Len(t), t[j].pc \in Starting PROVE j < i
      <4>1. j # n /\ j # n + 1
        BY <1>2, <3>2
      <4> QED BY <1>2, <1>3, <2>2, <4>1
    <3> QED BY <3>1, <3>2 DEF CalmAt
  <2>3. CASE i = n + 1
    <3>1. t[i] = g
      BY <1>2, <2>3
    <3>2. ASSUME g.pc \in Emptying, NEW j \in 1..Len(t), t[j].pc \in Starting PROVE j < i
      <4>1. g.pc \notin Starting
        BY <3>2 DEF Emptying, Starting
      <4>2. j # n + 1
        BY <1>2, <3>2, <4>1
      <4> QED BY <1>2, <1>3, <2>3, <4>2
    <3> QED BY <3>1, <3>2 DEF CalmAt
  <2> QED BY <2>1, <2>2, <2>3
<1>5. Calm(e, t)
  BY <1>1, <1>2, <1>4, OnwardCalm DEF Eases, CalmNow
<1> QED BY <1>1, <1>5, Calming

\* The caller is told that what it asked for is done.
LEMMA ReturnCalm ==
  ASSUME HdbInv, LayerInv, CalmNow, stack # <<>>, NEW e, e = db', Eases(e),
         Top.pc \notin Outside, NEW ok \in BOOLEAN, stack' = Returned(ok),
         ok => \A c : CalleeOf(c, Top) /\ FrameOK(c) =>
                 /\ c.pc = "childStopped" => ~Live(e, c.who, BlockIo)
                 /\ c.pc = "childrenStopped" => Bare(e, c.handle)
  PROVE  CalmNow'
<1>1. PICK t, n : t = stack' /\ n = Len(stack)
  OBVIOUS
<1>2. Backs(t) /\ (n > 1 => t[n - 1] = Answered(stack[n - 1], ok))
  BY <1>1, ReturnBacks
<1>3. ASSUME n > 1 PROVE Cleared(e, t[n - 1])
  <2>1. PICK c, a : c = stack[n - 1] /\ a = Answered(c, ok)
    OBVIOUS
  <2>2. c \in Frames /\ FrameOK(c) /\ CalleeOf(c, Top)
    BY <1>1, <1>3, <2>1, CallerIs
  <2>3. a.pc = c.pc /\ a.handle = c.handle /\ a.who = c.who /\ a.ok = ok
    BY <2>1, <2>2, AnsweredIs DEF Alike
  <2>4. Cleared(e, a)
    BY <2>2, <2>3 DEF Cleared
  <2> QED BY <1>2, <1>3, <2>1, <2>4
<1>4. Calm(e, t)
  BY <1>1, <1>2, <1>3, BackwardCalm DEF Eases, CalmNow
<1> QED BY <1>1, <1>4, Calming

LEMMA ReturnPlain ==
  ASSUME HdbInv, LayerInv, CalmNow, stack # <<>>, NEW e, e = db', Eases(e),
         Top.pc \notin Outside, NEW ok \in BOOLEAN, stack' = Returned(ok),
         ok => Top.pc \notin Answering
  PROVE  CalmNow'
<1>1. ok => \A c : CalleeOf(c, Top) /\ FrameOK(c) =>
                 /\ c.pc = "childStopped" => ~Live(e, c.who, BlockIo)
                 /\ c.pc = "childrenStopped" => Bare(e, c.handle)
  BY DEF CalleeOf, Answering
<1> QED BY <1>1, ReturnCalm

\* Functions that take nothing from the layers.
Plain(f) == f.pc \notin Outside /\ f.pc \notin Emptying /\ f.pc \notin Starting

LEMMA PlainKnows ==
  ASSUME NEW f, f.pc \notin Emptying, NEW e
  PROVE  Empties(e, f) /\ Cleared(e, f)
BY DEF Empties, Cleared, Emptying

LEMMA GotoPlain ==
  ASSUME HdbInv, CalmNow, stack # <<>>, NEW e, e = db', Eases(e), Top.pc \notin Outside,
         NEW f \in Frames, Plain(f), stack' = Append(Callers, f)
  PROVE  CalmNow'
BY GotoCalm, PlainKnows DEF Plain

LEMMA PushPlain ==
  ASSUME HdbInv, CalmNow, stack # <<>>, NEW e, e = db', Eases(e), Top.pc \notin Outside,
         NEW f \in Frames, NEW g \in Frames, Plain(f), Plain(g), stack' = Pushed(f, g)
  PROVE  CalmNow'
BY PushCalm, PlainKnows DEF Plain

LEMMA GoesToPlain ==
  ASSUME HdbInv, CalmNow, stack # <<>>, NEW e, e = db', Eases(e), Top.pc \notin Outside,
         NEW pc, pc \notin Outside, pc \notin Emptying, pc \notin Starting,
         NEW left, NEW who, NEW done, GoesTo(pc, left, who, done)
  PROVE  CalmNow'
<1>1. PICK f \in Frames : stack' = Append(Callers, f) /\ Has(f, Top, pc, left, who, done)
  BY DEF GoesTo
<1>2. Plain(f)
  BY <1>1 DEF Has, Plain
<1> QED BY <1>1, <1>2, GotoPlain

LEMMA CallsFromPlain ==
  ASSUME HdbInv, CalmNow, stack # <<>>, NEW e, e = db', Eases(e), Top.pc \notin Outside,
         NEW pc, pc \notin Outside, pc \notin Emptying, pc \notin Starting,
         NEW left, NEW who, NEW done, NEW g \in Frames, Plain(g),
         CallsFrom(pc, left, who, done, g)
  PROVE  CalmNow'
<1>1. PICK f \in Frames : stack' = Pushed(f, g) /\ Has(f, Top, pc, left, who, done)
  BY DEF CallsFrom
<1>2. Plain(f)
  BY <1>1 DEF Has, Plain
<1> QED BY <1>1, <1>2, PushPlain

\* What connects on top of the callers stays above what they take down.
LEMMA ConnectAbove ==
  ASSUME HdbInv, CalmNow, stack # <<>>, Top.pc \in Starting, NEW f, f.handle = Top.handle
  PROVE  Above(f)
<1>1. PICK n : n = Len(stack)
  OBVIOUS
<1>2. n \in Nat /\ n >= 1 /\ Top = stack[n]
  BY <1>1, CallersIs DEF HdbInv, FramesOK
<1> SUFFICES ASSUME NEW i \in 1..(n - 1), stack[i].pc \in Emptying
             PROVE  PathLength[stack[i].handle] < PathLength[f.handle]
  BY <1>1 DEF Above
<1>3. i \in 1..n /\ n \in 1..n /\ i < n
  BY <1>2
<1> QED BY <1>1, <1>2, <1>3 DEF CalmNow, Calm, Higher

LEMMA ConnectSupportedCalm ==
  ASSUME HdbInv, CalmNow, ConnectSupported
  PROVE  CalmNow'
<1>1. /\ stack # <<>> /\ Top.pc = "connect" /\ UNCHANGED db
      /\ \E left, who : GoesTo("start", left, who, Top.done)
  BY ConnectSupportedGoes
<1>2. PICK e : e = db' /\ Eases(e)
  BY <1>1, SameEases
<1>3. PICK f \in Frames : stack' = Append(Callers, f) /\ f.pc = "start" /\ f.handle = Top.handle
  BY <1>1 DEF GoesTo, Has
<1>4. Top.pc \notin Outside /\ f.pc \notin Outside /\ f.pc \notin Emptying /\ Top.pc \in Starting
  BY <1>1, <1>3 DEF Outside, Emptying, Starting
<1>5. Above(f)
  BY <1>1, <1>3, <1>4, ConnectAbove
<1>6. Empties(e, f) /\ Cleared(e, f)
  BY <1>4, PlainKnows
<1> QED BY <1>1, <1>2, <1>3, <1>4, <1>5, <1>6, GotoCalm

LEMMA PartitionsEase ==
  ASSUME HdbInv, CalmNow, stack # <<>>, Top.pc \in Starting, NEW h \in Handle, h = Top.handle,
         NEW e, PartitionsUp(db, h, e)
  PROVE  Eases(e)
<1>1. PICK d : d = db
  OBVIOUS
<1>2. /\ \A x \in Handle, y \in Guid :
           Live(e, x, y) <=> Live(d, x, y) \/ (x \in Partitions[h] /\ y = BlockIo)
      /\ \A x \in Handle : OnBus(e, x) <=> OnBus(d, x) \/ x = h
  BY <1>1 DEF PartitionsUp
<1>3. \A x \in Handle : x # h => \A p \in Partitions[x] : Live(e, p, BlockIo) => Live(d, p, BlockIo)
  BY <1>2, PartitionsAre, Names
<1>4. Managed(e)
  <2> SUFFICES ASSUME NEW x \in Handle, x # h PROVE Bare(e, x) \/ OnBus(e, x)
    BY <1>2 DEF Managed
  <2>1. Bare(d, x) \/ OnBus(d, x)
    BY <1>1 DEF CalmNow, Calm, Managed
  <2> QED BY <1>2, <1>3, <2>1 DEF Bare
<1>5. CalmLasts(e)
  <2> SUFFICES ASSUME NEW i \in 1..(Len(stack) - 1), NEW f, f = stack[i]
               PROVE  Strengthens(d, e, f)
    BY <1>1 DEF CalmLasts
  <2>1. FrameOK(f)
    BY DEF HdbInv, FramesOK
  <2>2. f.pc \in Emptying => f.handle \in Handle
    BY <2>1 DEF FrameOK, Outside, Emptying
  <2>3. f.pc \in Emptying => f.handle # h
    <3>1. Above(Top)
      BY ConnectAbove
    <3>2. f.pc \in Emptying => PathLength[f.handle] < PathLength[h]
      BY <3>1 DEF Above
    <3>3. PathLength[h] \in Nat
      BY PartitionAssumption
    <3> QED BY <3>2, <3>3
  <2> QED BY <1>3, <2>1, <2>2, <2>3, LighterStrengthens
<1> QED BY <1>4, <1>5 DEF Eases

LEMMA ConnectStartCalm ==
  ASSUME HdbInv, CalmNow, ConnectStart
  PROVE  CalmNow'
<1>1. /\ stack # <<>> /\ Top.pc = "start" /\ Top.handle \in Handle
      /\ db' = Start(db, Top.who, Top.handle)
      /\ GoesTo("connect", Top.left, Top.who, Top.done)
  BY ConnectStartGoes
<1>2. PICK e, h, driver : e = db' /\ h = Top.handle /\ driver = Top.who
  OBVIOUS
<1>3. h \in Handle /\ e = Start(db, driver, h) /\ DbInv(db)
  BY <1>1, <1>2 DEF HdbInv
<1>4. \/ Still(db, e)
      \/ DiskIoUp(db, h, e)
      \/ PartitionsUp(db, h, e)
  BY <1>3, StartLayers
<1>5. PICK f \in Frames : stack' = Append(Callers, f) /\ f.pc = "connect" /\ f.handle = Top.handle
  BY <1>1 DEF GoesTo, Has
<1>6. Top.pc \notin Outside /\ f.pc \notin Outside /\ f.pc \notin Emptying /\ Top.pc \in Starting
  BY <1>1, <1>5 DEF Outside, Emptying, Starting
<1>7. Eases(e)
  <2>1. CASE Still(db, e)
    <3>1. Lighter(db, e)
      BY <2>1, StillLighter DEF Still
    <3> QED BY <1>1, <3>1, LighterEases
  <2>2. CASE DiskIoUp(db, h, e)
    <3>1. Lighter(db, e)
      BY <2>2, PartitionsAre, Names DEF DiskIoUp, BusesSame, Lighter
    <3> QED BY <1>1, <3>1, LighterEases
  <2>3. CASE PartitionsUp(db, h, e)
    BY <1>1, <1>2, <1>3, <1>6, <2>3, PartitionsEase
  <2> QED BY <1>4, <2>1, <2>2, <2>3
<1>8. Above(f)
  BY <1>1, <1>5, <1>6, ConnectAbove
<1>9. Empties(e, f) /\ Cleared(e, f)
  BY <1>6, PlainKnows
<1> QED BY <1>1, <1>2, <1>5, <1>6, <1>7, <1>8, <1>9, GotoCalm

LEMMA ConnectChildrenCalm ==
  ASSUME HdbInv, LayerInv, CalmNow, ConnectChildren
  PROVE  CalmNow'
<1>1. /\ stack # <<>> /\ Top.pc = "connect" /\ Top.handle \in Handle /\ UNCHANGED db
      /\ \E kids \in Seq(Handle) :
           /\ Range(kids) = ChildrenOf(db, Top.handle, Driver)
           /\ kids = <<>> => stack' = Returned(TRUE)
           /\ kids # <<>> => stack' = Callers \o Connects(kids)
  BY ConnectChildrenGoes
<1>2. PICK e : e = db' /\ Eases(e)
  BY <1>1, SameEases
<1>3. PICK kids \in Seq(Handle) :
           /\ Range(kids) = ChildrenOf(db, Top.handle, Driver)
           /\ kids = <<>> => stack' = Returned(TRUE)
           /\ kids # <<>> => stack' = Callers \o Connects(kids)
  BY <1>1
<1>4. Top.pc \notin Outside /\ Top.pc \notin Answering /\ Top.pc \in Starting
  BY <1>1 DEF Outside, Answering, Starting
<1>5. CASE kids = <<>>
  <2>1. PICK ok \in BOOLEAN : ok = TRUE
    OBVIOUS
  <2>2. stack' = Returned(ok)
    BY <1>3, <1>5, <2>1
  <2>3. ok => Top.pc \notin Answering
    BY <1>4
  <2> QED BY <1>1, <1>2, <1>4, <2>2, <2>3, ReturnCalm DEF CalleeOf, Answering
<1>6. CASE kids # <<>>
  <2>1. PICK t, n, h : t = stack' /\ n = Len(stack) /\ h = Top.handle
    OBVIOUS
  <2>2. Spreads(t, kids)
    BY <1>1, <1>3, <1>6, <2>1, ConnectsGo
  <2>3. Above(Top)
    BY <1>1, <1>4, ConnectAbove
  <2>4. \A k \in 1..Len(kids) :
          kids[k] \in Handle /\ PathLength[kids[k]] = PathLength[h] + 1 /\ PathLength[h] \in Nat
    <3> SUFFICES ASSUME NEW k \in 1..Len(kids)
                 PROVE  kids[k] \in Handle /\ PathLength[kids[k]] = PathLength[h] + 1
                        /\ PathLength[h] \in Nat
      OBVIOUS
    <3>1. kids[k] \in Range(kids)
      BY <1>3 DEF Range
    <3>2. PICK agents : agents = Driver
      OBVIOUS
    <3>3. ChildrenOf(db, h, agents) \subseteq Partitions[h] /\ ChildrenOf(db, h, agents) \subseteq Handle
      BY <1>1, <2>1, ChildrenAre DEF HdbInv
    <3>4. kids[k] \in Partitions[h] /\ kids[k] \in Handle
      BY <1>3, <2>1, <3>1, <3>2, <3>3
    <3> QED BY <1>1, <2>1, <3>4, PartitionAssumption
  <2>5. \A k \in 1..Len(kids) : \A f : f = Connect(kids[k]) => f.pc = "connect" /\ Above(f)
    <3> SUFFICES ASSUME NEW k \in 1..Len(kids), NEW f, f = Connect(kids[k])
                 PROVE  f.pc = "connect" /\ Above(f)
      OBVIOUS
    <3>1. f.pc = "connect" /\ f.handle = kids[k]
      BY ConnectHas
    <3>2. PICK a, b : a = PathLength[h] /\ b = PathLength[kids[k]]
      OBVIOUS
    <3>3. a \in Nat /\ b = a + 1 /\ PathLength[f.handle] = b
      BY <2>4, <3>1, <3>2
    <3> SUFFICES ASSUME NEW i \in 1..(Len(stack) - 1), stack[i].pc \in Emptying
                 PROVE  PathLength[stack[i].handle] < b
      BY <3>1, <3>3 DEF Above
    <3>4. PathLength[stack[i].handle] < a
      BY <2>1, <2>3, <3>2 DEF Above
    <3>5. FrameOK(stack[i])
      BY <1>1 DEF HdbInv, FramesOK
    <3>6. stack[i].handle \in Handle
      BY <3>5 DEF FrameOK, Outside, Emptying
    <3>7. PathLength[stack[i].handle] \in Nat
      BY <3>6, PartitionAssumption
    <3> QED BY <3>3, <3>4, <3>7
  <2>6. \A i \in 1..Len(t) : i >= n => CalmAt(e, t, i)
    <3> SUFFICES ASSUME NEW i \in 1..Len(t), i >= n PROVE CalmAt(e, t, i)
      OBVIOUS
    <3>1. PICK k \in 1..Len(kids) : t[i] = Connect(kids[k])
      BY <2>1, <2>2 DEF Spreads
    <3>2. t[i].pc = "connect" /\ Above(t[i])
      BY <2>5, <3>1
    <3>3. t[i].pc \notin Outside /\ t[i].pc \notin Emptying
      BY <3>2 DEF Outside, Emptying
    <3>4. Empties(e, t[i]) /\ Cleared(e, t[i])
      BY <3>3, PlainKnows
    <3> QED BY <3>2, <3>3, <3>4 DEF CalmAt
  <2>7. Goes(t)
    BY <2>2 DEF Spreads
  <2>8. Calm(e, t)
    BY <1>1, <1>2, <1>4, <2>1, <2>6, <2>7, OnwardCalm DEF Eases, CalmNow
  <2> QED BY <1>2, <2>1, <2>8, Calming
<1> QED BY <1>5, <1>6

LEMMA DisconnectCollectCalm ==
  ASSUME HdbInv, LayerInv, CalmNow, DisconnectCollect
  PROVE  CalmNow'
<1>1. /\ stack # <<>> /\ Top.pc = "disconnectAll" /\ UNCHANGED db
      /\ \/ stack' = Returned(TRUE)
         \/ \E f \in Frames : stack' = Append(Callers, f) /\ f.pc = "disconnect"
  BY DisconnectCollectGoes
<1>2. PICK e : e = db' /\ Eases(e)
  BY <1>1, SameEases
<1>3. Top.pc \notin Outside /\ Top.pc \notin Answering
  BY <1>1 DEF Outside, Answering
<1>4. CASE stack' = Returned(TRUE)
  <2>1. PICK ok \in BOOLEAN : ok = TRUE
    OBVIOUS
  <2>2. stack' = Returned(ok) /\ (ok => Top.pc \notin Answering)
    BY <1>3, <1>4, <2>1
  <2> QED BY <1>1, <1>2, <1>3, <2>2, ReturnPlain
<1>5. CASE \E f \in Frames : stack' = Append(Callers, f) /\ f.pc = "disconnect"
  <2>1. PICK f \in Frames : stack' = Append(Callers, f) /\ f.pc = "disconnect"
    BY <1>5
  <2>2. Plain(f)
    BY <2>1 DEF Plain, Outside, Emptying, Starting
  <2> QED BY <1>1, <1>2, <1>3, <2>1, <2>2, GotoPlain
<1> QED BY <1>1, <1>4, <1>5

\* No child of a controller is being uninstalled while its drivers are disconnected.
LEMMA ChildrenHeld ==
  ASSUME HdbInv, LayerInv, stack # <<>>, Top.pc \in Agents, NEW h \in Handle, h = Top.handle,
         NEW p \in Partitions[h], Live(db, p, BlockIo)
  PROVE  Child(db, h, p)
<1> SUFFICES ASSUME ~Child(db, h, p) PROVE FALSE
  OBVIOUS
<1>1. PICK i \in 1..Len(stack) : Stopping(stack[i], h, p)
  BY DEF LayerInv, Layered, Linked
<1>2. PICK f, n : f = stack[i] /\ n = Len(stack)
  OBVIOUS
<1>3. f.pc = "childStopped" /\ f.handle = Top.handle
  BY <1>1, <1>2 DEF Stopping
<1>4. n \in Nat /\ n >= 1 /\ Top = stack[n]
  BY <1>2, CallersIs DEF HdbInv, FramesOK
<1>5. i # n
  BY <1>2, <1>3, <1>4 DEF Agents
<1>6. i \in 1..(n - 1)
  BY <1>2, <1>4, <1>5
<1>7. f.pc \in Sections /\ Top.pc \in Sections
  BY <1>3 DEF Sections
<1>8. Depth(f) < Depth(Top)
  BY <1>2, <1>3, <1>6, <1>7, NotAsDeep
<1>9. Depth(f) = 5
  BY <1>3 DEF Depth, Looking, Agents
<1>10. Depth(Top) = 1 \/ Depth(Top) = 4
  BY DEF Depth, Looking, Agents
<1> QED BY <1>8, <1>9, <1>10

\* PartitionDxe's Stop is called for all the children that are left.
LEMMA StopEmpties ==
  ASSUME NEW h \in Handle, NEW driver \in Driver, NEW kids \in SUBSET Partitions[h],
         NEW e, driver = PartitionDxe => \A p \in Partitions[h] : Live(e, p, BlockIo) => p \in kids,
         kids # {} => driver = PartitionDxe, NEW g, g = Stop(driver, h, kids)
  PROVE  /\ g \in Frames /\ g.pc \notin Outside /\ g.pc \notin Starting
         /\ Empties(e, g) /\ Cleared(e, g)
<1>1. /\ FrameOK(g) /\ g.handle = h /\ g.left = kids
      /\ g.pc = IF driver = DiskIoDxe THEN "stopDiskIo"
                ELSE IF kids = {} THEN "stopBus" ELSE "stopChildren"
  BY StopIs
<1>2. g \in Frames /\ g.pc \notin Outside /\ g.pc \notin Starting
  BY <1>1 DEF FrameOK, Outside, Starting
<1>3. Cleared(e, g)
  BY <1>1 DEF Cleared
<1>4. g.pc \in {"stopBus", "stopChildren"} => driver = PartitionDxe
  BY <1>1, Names
<1>5. g.pc = "stopBus" => kids = {}
  BY <1>1
<1>6. g.pc \notin {"childrenStopped", "childStopped"}
  BY <1>1
<1>7. Empties(e, g)
  BY <1>1, <1>4, <1>5, <1>6 DEF Empties, Bare
<1> QED BY <1>2, <1>3, <1>7

LEMMA DisconnectNextCalm ==
  ASSUME HdbInv, LayerInv, CalmNow, DisconnectNext
  PROVE  CalmNow'
<1>1. /\ stack # <<>> /\ Top.pc = "disconnect" /\ Top.handle \in Handle /\ UNCHANGED db
      /\ \E driver \in Driver :
           \/ GoesTo("disconnect", Top.left \ {driver}, driver, Top.done)
           \/ \E kids \in SUBSET Partitions[Top.handle], pc \in {"stopped", "childrenStopped"} :
                /\ kids = ChildrenOf(db, Top.handle, {driver})
                /\ pc = "stopped" <=> kids = {}
                /\ CallsFrom(pc, Top.left \ {driver}, driver, Top.done,
                             Stop(driver, Top.handle, kids))
  BY DisconnectNextGoes
<1>2. PICK e : e = db' /\ Eases(e)
  BY <1>1, SameEases
<1>3. PICK driver \in Driver :
           \/ GoesTo("disconnect", Top.left \ {driver}, driver, Top.done)
           \/ \E kids \in SUBSET Partitions[Top.handle], pc \in {"stopped", "childrenStopped"} :
                /\ kids = ChildrenOf(db, Top.handle, {driver})
                /\ pc = "stopped" <=> kids = {}
                /\ CallsFrom(pc, Top.left \ {driver}, driver, Top.done,
                             Stop(driver, Top.handle, kids))
  BY <1>1
<1>4. PICK h, left, done : h = Top.handle /\ left = Top.left \ {driver} /\ done = Top.done
  OBVIOUS
<1>5. Top.pc \notin Outside /\ Top.pc \in Agents
  BY <1>1 DEF Outside, Agents
<1>6. CASE GoesTo("disconnect", Top.left \ {driver}, driver, Top.done)
  <2>1. PICK pc : pc = "disconnect"
    OBVIOUS
  <2>2. /\ GoesTo(pc, left, driver, done)
        /\ pc \notin Outside /\ pc \notin Emptying /\ pc \notin Starting
    BY <1>4, <1>6, <2>1 DEF Outside, Emptying, Starting
  <2> QED BY <1>1, <1>2, <1>5, <2>2, GoesToPlain
<1>7. CASE \E kids \in SUBSET Partitions[Top.handle], pc \in {"stopped", "childrenStopped"} :
                /\ kids = ChildrenOf(db, Top.handle, {driver})
                /\ pc = "stopped" <=> kids = {}
                /\ CallsFrom(pc, Top.left \ {driver}, driver, Top.done,
                             Stop(driver, Top.handle, kids))
  <2>1. PICK kids \in SUBSET Partitions[Top.handle], pc \in {"stopped", "childrenStopped"} :
                /\ kids = ChildrenOf(db, Top.handle, {driver})
                /\ pc = "stopped" <=> kids = {}
                /\ CallsFrom(pc, Top.left \ {driver}, driver, Top.done,
                             Stop(driver, Top.handle, kids))
    BY <1>7
  <2>2. PICK g, agents : g = Stop(driver, h, kids) /\ agents = {driver}
    OBVIOUS
  <2>3. PICK f \in Frames : stack' = Pushed(f, g) /\ Has(f, Top, pc, left, driver, done)
    BY <1>4, <2>1, <2>2 DEF CallsFrom
  <2>4. /\ h \in Handle /\ kids \in SUBSET Partitions[h]
        /\ kids = ChildrenOf(db, h, agents)
    BY <1>1, <1>4, <2>1, <2>2
  <2>5. kids # {} => driver = PartitionDxe
    <3>1. PartitionDxe \notin agents => kids = {}
      BY <2>4, ChildrenAre DEF HdbInv
    <3> QED BY <2>2, <3>1
  <2>6. driver = PartitionDxe => \A p \in Partitions[h] : Live(e, p, BlockIo) => p \in kids
    <3> SUFFICES ASSUME driver = PartitionDxe, NEW p \in Partitions[h], Live(e, p, BlockIo)
                 PROVE  p \in kids
      OBVIOUS
    <3>1. Live(db, p, BlockIo)
      BY <1>1, <1>2
    <3>2. Child(db, h, p)
      BY <1>1, <1>4, <1>5, <2>4, <3>1, ChildrenHeld
    <3>3. PartitionDxe \in agents
      BY <2>2
    <3>4. DbInv(db)
      BY DEF HdbInv
    <3> QED BY <2>4, <3>2, <3>3, <3>4, ChildrenAre DEF Child
  <2>7. /\ g \in Frames /\ g.pc \notin Outside /\ g.pc \notin Starting
        /\ Empties(e, g) /\ Cleared(e, g)
    BY <2>2, <2>4, <2>5, <2>6, StopEmpties
  <2>8. f.pc \notin Outside /\ f.pc \notin Starting /\ Empties(e, f)
    <3>1. f.pc \in {"stopped", "childrenStopped"} /\ f.who = driver
          /\ (f.pc = "childrenStopped" => kids # {})
      BY <2>1, <2>3 DEF Has
    <3> QED BY <2>5, <3>1 DEF Outside, Starting, Empties
  <2> QED BY <1>1, <1>2, <1>5, <2>3, <2>7, <2>8, PushCalm
<1> QED BY <1>3, <1>6, <1>7

LEMMA TopCleared ==
  ASSUME HdbInv, CalmNow, stack # <<>>
  PROVE  Empties(db, Top) /\ Cleared(db, Top)
<1>1. PICK n : n = Len(stack)
  OBVIOUS
<1>2. n \in Nat /\ n >= 1 /\ Top = stack[n]
  BY <1>1, CallersIs DEF HdbInv, FramesOK
<1>3. n \in 1..n /\ ~(n < n)
  BY <1>2
<1>4. ~Awaits(stack, n)
  BY <1>1, <1>3 DEF Awaits
<1>5. Stripped(db, stack)
  BY DEF CalmNow, Calm
<1>6. Cleared(db, stack[n]) /\ Empties(db, stack[n])
  BY <1>1, <1>3, <1>4, <1>5 DEF Stripped
<1> QED BY <1>2, <1>6

LEMMA DisconnectChildrenStoppedCalm ==
  ASSUME HdbInv, LayerInv, CalmNow, DisconnectChildrenStopped
  PROVE  CalmNow'
<1>1. /\ stack # <<>> /\ Top.pc = "childrenStopped" /\ Top.handle \in Handle
      /\ Top.who \in Driver /\ UNCHANGED db
      /\ \/ GoesTo("disconnect", Top.left, Top.who, Top.done)
         \/ /\ Top.ok
            /\ CallsFrom("stopped", Top.left, Top.who, Top.done, Stop(Top.who, Top.handle, {}))
  BY DisconnectChildrenStoppedGoes
<1>2. PICK e : e = db' /\ Eases(e)
  BY <1>1, SameEases
<1>3. PICK h, left, driver, done :
        h = Top.handle /\ left = Top.left /\ driver = Top.who /\ done = Top.done
  OBVIOUS
<1>4. Top.pc \notin Outside
  BY <1>1 DEF Outside
<1>5. CASE GoesTo("disconnect", Top.left, Top.who, Top.done)
  <2>1. PICK pc : pc = "disconnect"
    OBVIOUS
  <2>2. /\ GoesTo(pc, left, driver, done)
        /\ pc \notin Outside /\ pc \notin Emptying /\ pc \notin Starting
    BY <1>3, <1>5, <2>1 DEF Outside, Emptying, Starting
  <2> QED BY <1>1, <1>2, <1>4, <2>2, GoesToPlain
<1>6. CASE Top.ok /\ CallsFrom("stopped", Top.left, Top.who, Top.done, Stop(Top.who, Top.handle, {}))
  <2>1. PICK kids, g : kids = {} /\ g = Stop(driver, h, kids)
    OBVIOUS
  <2>2. PICK f \in Frames : stack' = Pushed(f, g) /\ f.pc = "stopped"
    BY <1>3, <1>6, <2>1 DEF CallsFrom, Has
  <2>3. h \in Handle /\ driver \in Driver /\ kids \in SUBSET Partitions[h]
    BY <1>1, <1>3, <2>1
  <2>4. \A p \in Partitions[h] : ~Live(e, p, BlockIo)
    BY <1>1, <1>2, <1>3, <1>6, TopCleared DEF Cleared, Bare
  <2>5. /\ g \in Frames /\ g.pc \notin Outside /\ g.pc \notin Starting
        /\ Empties(e, g) /\ Cleared(e, g)
    BY <2>1, <2>3, <2>4, StopEmpties
  <2>6. f.pc \notin Outside /\ f.pc \notin Starting /\ Empties(e, f)
    BY <2>2 DEF Outside, Starting, Empties
  <2> QED BY <1>1, <1>2, <1>4, <2>2, <2>5, <2>6, PushCalm
<1> QED BY <1>1, <1>5, <1>6

LEMMA DisconnectStoppedCalm ==
  ASSUME HdbInv, CalmNow, DisconnectStopped
  PROVE  CalmNow'
<1>1. /\ stack # <<>> /\ Top.pc = "stopped" /\ UNCHANGED db
      /\ \E done \in BOOLEAN : GoesTo("disconnect", Top.left, Top.who, done)
  BY DisconnectStoppedGoes
<1>2. PICK e : e = db' /\ Eases(e)
  BY <1>1, SameEases
<1>3. PICK f \in Frames : stack' = Append(Callers, f) /\ f.pc = "disconnect"
  BY <1>1 DEF GoesTo, Has
<1>4. Top.pc \notin Outside /\ Plain(f)
  BY <1>1, <1>3 DEF Outside, Plain, Emptying, Starting
<1> QED BY <1>1, <1>2, <1>3, <1>4, GotoPlain

LEMMA DisconnectReturnCalm ==
  ASSUME HdbInv, LayerInv, CalmNow, DisconnectReturn
  PROVE  CalmNow'
<1>1. stack # <<>> /\ Top.pc = "disconnect" /\ UNCHANGED db /\ stack' = Returned(Top.done)
  BY DEF DisconnectReturn, At, Return, Returned
<1>2. PICK e : e = db' /\ Eases(e)
  BY <1>1, SameEases
<1>3. PICK ok \in BOOLEAN : ok = Top.done
  BY <1>1, TopFacts
<1>4. Top.pc \notin Outside /\ (ok => Top.pc \notin Answering)
  BY <1>1 DEF Outside, Answering
<1>5. stack' = Returned(ok)
  BY <1>1, <1>3
<1> QED BY <1>1, <1>2, <1>4, <1>5, ReturnPlain

LEMMA StopDiskIoCalm ==
  ASSUME HdbInv, LayerInv, CalmNow, StopDiskIo
  PROVE  CalmNow'
<1>1. /\ stack # <<>> /\ Top.pc = "stopDiskIo" /\ Top.handle \in Handle
      /\ db' = Add(db, Top.handle, DiskIo, Opened(DiskIoDxe, Top.handle, "get"))
      /\ \/ stack' = Returned(FALSE)
         \/ /\ Live(db, Top.handle, DiskIo)
            /\ CallsFrom("stopDiskIoEnd", Top.left, Top.who, Top.done,
                         Uninstall(Top.handle, DiskIo))
  BY StopDiskIoGoes
<1>2. PICK h, left, who, done, e :
        h = Top.handle /\ left = Top.left /\ who = Top.who /\ done = Top.done /\ e = db'
  OBVIOUS
<1>3. PICK g, agent : g = DiskIo /\ agent = DiskIoDxe
  OBVIOUS
<1>4. h \in Handle /\ g \in Guid /\ agent \in Driver /\ DbInv(db)
  BY <1>1, <1>2, <1>3, Names DEF HdbInv
<1>5. e = Add(db, h, g, Opened(agent, h, "get"))
  BY <1>1, <1>2, <1>3
<1>6. Eases(e)
  <2>1. Still(db, e)
    BY <1>4, <1>5, GetStill
  <2>2. Lighter(db, e)
    BY <2>1, StillLighter DEF Still
  <2> QED BY <1>1, <2>2, LighterEases
<1>7. Top.pc \notin Outside /\ Top.pc \notin Answering
  BY <1>1 DEF Outside, Answering
<1>8. CASE stack' = Returned(FALSE)
  <2>1. PICK ok \in BOOLEAN : ok = FALSE
    OBVIOUS
  <2>2. stack' = Returned(ok)
    BY <1>8, <2>1
  <2> QED BY <1>1, <1>2, <1>6, <1>7, <2>2, ReturnPlain
<1>9. CASE CallsFrom("stopDiskIoEnd", Top.left, Top.who, Top.done, Uninstall(Top.handle, DiskIo))
  <2>1. PICK pc, f : pc = "stopDiskIoEnd" /\ f = Uninstall(h, g)
    OBVIOUS
  <2>2. CallsFrom(pc, left, who, done, f)
    BY <1>2, <1>3, <1>9, <2>1
  <2>3. FrameOK(f) /\ f.pc = "uninstall"
    BY <1>4, <2>1, UninstallIs
  <2>4. f \in Frames /\ Plain(f)
    BY <2>3 DEF FrameOK, Plain, Outside, Emptying, Starting
  <2>5. pc \notin Outside /\ pc \notin Emptying /\ pc \notin Starting
    BY <2>1 DEF Outside, Emptying, Starting
  <2> QED BY <1>1, <1>2, <1>6, <1>7, <2>2, <2>4, <2>5, CallsFromPlain
<1> QED BY <1>1, <1>8, <1>9

LEMMA StopDiskIoEndCalm ==
  ASSUME HdbInv, LayerInv, CalmNow, StopDiskIoEnd
  PROVE  CalmNow'
<1>1. /\ stack # <<>> /\ Top.pc = "stopDiskIoEnd" /\ Top.handle \in Handle
      /\ Top.ok \in BOOLEAN /\ stack' = Returned(Top.ok)
      /\ db' = IF Top.ok
               THEN CoreCloseProtocol(db, Top.handle, BlockIo, DiskIoDxe, Top.handle) ELSE db
  BY StopDiskIoEndGoes
<1>2. PICK h, e : h = Top.handle /\ e = db'
  OBVIOUS
<1>3. Eases(e)
  <2>1. CASE ~Top.ok
    <3>1. UNCHANGED db
      BY <1>1, <2>1
    <3> QED BY <1>1, <1>2, <3>1, SameEases
  <2>2. CASE Top.ok
    <3>1. h \in Handle /\ DbInv(db) /\ e = CoreCloseProtocol(db, h, BlockIo, DiskIoDxe, h)
      BY <1>1, <1>2, <2>2 DEF HdbInv
    <3>2. DiskClosed(db, h, e)
      BY <3>1, DiskCloses
    <3>3. Lighter(db, e)
      BY <3>2, StillLighter DEF DiskClosed
    <3> QED BY <1>1, <3>3, LighterEases
  <2> QED BY <2>1, <2>2
<1>4. PICK ok \in BOOLEAN : ok = Top.ok
  BY <1>1
<1>5. stack' = Returned(ok) /\ Top.pc \notin Outside /\ Top.pc \notin Answering
  BY <1>1, <1>4 DEF Outside, Answering
<1> QED BY <1>1, <1>2, <1>3, <1>5, ReturnPlain

LEMMA StopBusCalm ==
  ASSUME HdbInv, LayerInv, CalmNow, StopBus
  PROVE  CalmNow'
<1>1. /\ stack # <<>> /\ Top.pc = "stopBus" /\ Top.handle \in Handle
      /\ stack' = Returned(TRUE)
      /\ db' = CoreCloseProtocol(db, Top.handle, DiskIo, PartitionDxe, Top.handle)
  BY StopBusGoes
<1>2. PICK h, d, e : h = Top.handle /\ d = db /\ e = db'
  OBVIOUS
<1>3. h \in Handle /\ DbInv(d) /\ e = CoreCloseProtocol(d, h, DiskIo, PartitionDxe, h)
  BY <1>1, <1>2 DEF HdbInv
<1>4. BusClosed(d, h, e)
  BY <1>3, BusCloses
<1>5. /\ \A x \in Handle : \A p \in Partitions[x] : Live(e, p, BlockIo) <=> Live(d, p, BlockIo)
      /\ \A x \in Handle : OnBus(e, x) <=> OnBus(d, x) /\ x # h
  BY <1>4, PartitionsAre, Names DEF BusClosed, LiveSame
<1>6. Managed(e)
  <2>1. Bare(d, h)
    BY <1>1, <1>2, TopCleared DEF Empties
  <2>2. Managed(d)
    BY <1>2 DEF CalmNow, Calm
  <2> QED BY <1>3, <1>5, <2>1, <2>2 DEF Managed, Bare
<1>7. CalmLasts(e)
  <2> SUFFICES ASSUME NEW i \in 1..(Len(stack) - 1), NEW f, f = stack[i]
               PROVE  Strengthens(d, e, f)
    BY <1>2 DEF CalmLasts
  <2>1. FrameOK(f)
    BY <1>1 DEF HdbInv, FramesOK
  <2>2. f.pc \in Emptying => f.handle \in Handle
    BY <2>1 DEF FrameOK, Outside, Emptying
  <2> QED BY <1>5, <2>1, <2>2, LighterStrengthens
<1>8. Eases(e)
  BY <1>6, <1>7 DEF Eases
<1>9. PICK ok \in BOOLEAN : ok = TRUE
  OBVIOUS
<1>10. stack' = Returned(ok) /\ Top.pc \notin Outside /\ Top.pc \notin Answering
  BY <1>1, <1>9 DEF Outside, Answering
<1> QED BY <1>1, <1>2, <1>8, <1>10, ReturnPlain

LEMMA StopChildCalm ==
  ASSUME HdbInv, LayerInv, CalmNow, StopChild
  PROVE  CalmNow'
<1>1. /\ stack # <<>> /\ Top.pc = "stopChildren" /\ Top.handle \in Handle
      /\ \E c \in Top.left :
           /\ c \in Partitions[Top.handle]
           /\ CallsFrom("childStopped", Top.left \ {c}, c, Top.done, Uninstall(c, BlockIo))
           /\ db' = CoreCloseProtocol(
                      Add(db, c, BlockIo, Opened(PartitionDxe, Top.handle, "get")),
                      Top.handle, DiskIo, PartitionDxe, c)
  BY StopChildGoes
<1>2. PICK c \in Top.left :
           /\ c \in Partitions[Top.handle]
           /\ CallsFrom("childStopped", Top.left \ {c}, c, Top.done, Uninstall(c, BlockIo))
           /\ db' = CoreCloseProtocol(
                      Add(db, c, BlockIo, Opened(PartitionDxe, Top.handle, "get")),
                      Top.handle, DiskIo, PartitionDxe, c)
  BY <1>1
<1>3. PICK h, d, b, e, g : /\ h = Top.handle /\ d = db /\ e = db' /\ g = Uninstall(c, BlockIo)
                           /\ b = Add(d, c, BlockIo, Opened(PartitionDxe, h, "get"))
  OBVIOUS
<1>4. h \in Handle /\ c \in Partitions[h] /\ c \in Handle /\ DbInv(d)
  BY <1>1, <1>2, <1>3, PartitionsAre DEF HdbInv
<1>5. PICK agent \in Driver, guid \in Guid : agent = PartitionDxe /\ guid = BlockIo
  BY Names
<1>6. b = Add(d, c, guid, Opened(agent, h, "get"))
  BY <1>3, <1>5
<1>7. DbInv(b) /\ Still(d, b)
  BY <1>4, <1>6, GetStill
<1>8. ChildClosed(b, h, c, e)
  <2>1. e = CoreCloseProtocol(b, h, DiskIo, PartitionDxe, c)
    BY <1>2, <1>3
  <2> QED BY <1>4, <1>7, <2>1, ChildCloses
<1>9. LiveSame(d, e) /\ BusesSame(d, e)
  BY <1>7, <1>8 DEF Still, ChildClosed, LiveSame, BusesSame
<1>10. Eases(e)
  <2>1. Lighter(d, e)
    BY <1>9, StillLighter
  <2> QED BY <1>1, <1>3, <2>1, LighterEases
<1>11. PICK f \in Frames : stack' = Pushed(f, g) /\ Has(f, Top, "childStopped", Top.left \ {c}, c, Top.done)
  BY <1>2, <1>3 DEF CallsFrom
<1>12. /\ f.pc = "childStopped" /\ f.handle = h /\ f.who = c /\ f.left = Top.left \ {c}
       /\ f.done = Top.done
  BY <1>3, <1>11 DEF Has
<1>13. FrameOK(g) /\ g.pc = "uninstall"
  BY <1>3, <1>4, Names, UninstallIs
<1>14. g \in Frames /\ g.pc \notin Outside /\ g.pc \notin Starting /\ g.pc \notin Emptying
  BY <1>13 DEF FrameOK, Outside, Starting, Emptying
<1>15. Empties(e, g) /\ Cleared(e, g)
  BY <1>14, PlainKnows
<1>16. Empties(e, f)
  <2>1. ~Top.done => \A p \in Partitions[h] : Live(d, p, BlockIo) => p \in Top.left
    BY <1>1, <1>3, TopCleared DEF Empties, Stopping
  <2>2. \A p \in Partitions[h] : Live(e, p, BlockIo) <=> Live(d, p, BlockIo)
    BY <1>4, <1>9, PartitionsAre, Names DEF LiveSame
  <2> QED BY <1>12, <2>1, <2>2 DEF Empties, Stopping
<1>17. Top.pc \notin Outside /\ f.pc \notin Outside /\ f.pc \notin Starting
  BY <1>1, <1>12 DEF Outside, Starting
<1> QED BY <1>1, <1>3, <1>10, <1>11, <1>14, <1>15, <1>16, <1>17, PushCalm

LEMMA ChildStoppedCalm ==
  ASSUME HdbInv, LayerInv, CalmNow, ChildStopped
  PROVE  CalmNow'
<1>1. /\ stack # <<>> /\ Top.pc = "childStopped" /\ Top.handle \in Handle
      /\ Top.who \in Partitions[Top.handle]
      /\ db' = IF Top.ok THEN db
               ELSE Add(db, Top.handle, DiskIo, Opened(PartitionDxe, Top.who, "child"))
      /\ \E done \in BOOLEAN :
          done = (Top.done \/ ~Top.ok) /\ GoesTo("stopChildren", Top.left, Top.who, done)
  BY ChildStoppedGoes
<1>2. PICK f \in Frames : /\ stack' = Append(Callers, f) /\ f.pc = "stopChildren"
                          /\ f.handle = Top.handle /\ f.left = Top.left
                          /\ f.done = (Top.done \/ ~Top.ok) /\ f.ok = Top.ok
  BY <1>1 DEF GoesTo, Has
<1>3. PICK h, c, d, e : h = Top.handle /\ c = Top.who /\ d = db /\ e = db'
  OBVIOUS
<1>4. h \in Handle /\ c \in Partitions[h] /\ c \in Handle /\ DbInv(d)
  BY <1>1, <1>3, PartitionsAre DEF HdbInv
<1>5. LiveSame(d, e) /\ BusesSame(d, e)
  <2>1. CASE Top.ok
    BY <1>1, <1>3, <2>1 DEF LiveSame, BusesSame
  <2>2. CASE ~Top.ok
    <3>1. e = Add(d, h, DiskIo, Opened(PartitionDxe, c, "child"))
      BY <1>1, <1>3, <2>2
    <3> QED BY <1>4, <3>1, ChildOpens DEF ChildOpened
  <2> QED BY <2>1, <2>2
<1>6. Eases(e)
  <2>1. Lighter(d, e)
    BY <1>5, StillLighter
  <2> QED BY <1>1, <1>3, <2>1, LighterEases
<1>7. Empties(e, f)
  <2>1. /\ ~Top.done => \A p \in Partitions[h] : Live(d, p, BlockIo) => p \in Top.left \/ p = c
        /\ Top.ok => ~Live(d, c, BlockIo)
    BY <1>1, <1>3, TopCleared DEF Empties, Cleared, Stopping
  <2>2. \A p \in Partitions[h] : Live(e, p, BlockIo) <=> Live(d, p, BlockIo)
    BY <1>4, <1>5, PartitionsAre, Names DEF LiveSame
  <2>3. ~f.done => ~Top.done /\ Top.ok
    BY <1>2
  <2>4. ~f.done => \A p \in Partitions[f.handle] : Live(e, p, BlockIo) => p \in f.left
    BY <1>2, <1>3, <2>1, <2>2, <2>3
  <2> QED BY <1>2, <2>4 DEF Empties
<1>8. Cleared(e, f)
  BY <1>2 DEF Cleared
<1>9. Top.pc \notin Outside /\ f.pc \notin Outside /\ f.pc \notin Starting
  BY <1>1, <1>2 DEF Outside, Starting
<1> QED BY <1>1, <1>2, <1>3, <1>6, <1>7, <1>8, <1>9, GotoCalm

LEMMA StopChildrenReturnCalm ==
  ASSUME HdbInv, LayerInv, CalmNow, StopChildrenReturn
  PROVE  CalmNow'
<1>1. /\ stack # <<>> /\ Top.pc = "stopChildren" /\ Top.left = {} /\ UNCHANGED db
      /\ stack' = Returned(~Top.done)
  BY DEF StopChildrenReturn, At, Return, Returned
<1>2. PICK e : e = db' /\ Eases(e)
  BY <1>1, SameEases
<1>3. PICK ok \in BOOLEAN : ok = ~Top.done
  OBVIOUS
<1>4. stack' = Returned(ok) /\ Top.pc \notin Outside
  BY <1>1, <1>3 DEF Outside
<1>5. ok => Bare(e, Top.handle)
  <2>1. ok => \A p \in Partitions[Top.handle] : Live(db, p, BlockIo) => p \in Top.left
    BY <1>1, <1>3, TopCleared DEF Empties, Stopping
  <2>2. e = db
    BY <1>1, <1>2
  <2> QED BY <1>1, <2>1, <2>2 DEF Bare
<1>6. ok => \A c : CalleeOf(c, Top) /\ FrameOK(c) =>
               /\ c.pc = "childStopped" => ~Live(e, c.who, BlockIo)
               /\ c.pc = "childrenStopped" => Bare(e, c.handle)
  BY <1>1, <1>5 DEF CalleeOf
<1> QED BY <1>1, <1>2, <1>4, <1>6, ReturnCalm

\* A service that disconnects or uninstalls is above the layers that its callers empty.
LEMMA DeepBelow ==
  ASSUME HdbInv, stack # <<>>, Top.pc \in Looking, NEW i \in 1..(Len(stack) - 1),
         NEW f, f = stack[i], f.pc \in {"stopBus", "stopChildren", "childStopped"}
  PROVE  PathLength[f.handle] < PathLength[Top.handle]
<1>1. PICK n : n = Len(stack)
  OBVIOUS
<1>2. n \in Nat /\ n >= 1 /\ Top = stack[n]
  BY <1>1, CallersIs DEF HdbInv, FramesOK
<1>3. i \in 1..n /\ n \in 1..n /\ i < n
  BY <1>1, <1>2
<1>4. FrameOK(f) /\ FrameOK(Top)
  BY <1>1, <1>2, <1>3 DEF HdbInv, FramesOK
<1>5. f.pc \in Sections /\ Top.pc \in Sections
  BY DEF Sections
<1>6. Rank(f) < Rank(Top)
  BY <1>1, <1>2, <1>3, <1>5 DEF HdbInv, Ranked
<1>7. f.pc \notin Outside /\ Top.pc \notin Outside
  BY DEF Outside, Looking
<1>8. PathLength[f.handle] \in Nat /\ PathLength[Top.handle] \in Nat
  BY <1>4, <1>7, RankIs
<1>9. Depth(f) = 5 /\ (Depth(Top) = 0 \/ Depth(Top) = 3)
  BY DEF Depth, Looking, Agents
<1>10. PICK a, k, m : a = Depth(Top) /\ k = PathLength[f.handle] /\ m = PathLength[Top.handle]
  OBVIOUS
<1>11. 8 * k + 5 < 8 * m + a
  BY <1>6, <1>9, <1>10 DEF Rank
<1>12. k < m
  <2>1. k \in Nat /\ m \in Nat /\ (a = 0 \/ a = 3)
    BY <1>8, <1>9, <1>10
  <2> QED BY <1>11, <2>1
<1> QED BY <1>10, <1>12

LEMMA RestartAbove ==
  ASSUME HdbInv, LayerInv, CalmNow, stack # <<>>, Top.pc \in Looking, NEW g, g.handle = Top.handle
  PROVE  Above(g)
<1>1. PICK n : n = Len(stack)
  OBVIOUS
<1>2. n \in Nat /\ n >= 1 /\ Top = stack[n]
  BY <1>1, CallersIs DEF HdbInv, FramesOK
<1> SUFFICES ASSUME NEW i \in 1..(n - 1), NEW f, f = stack[i], f.pc \in Emptying
             PROVE  PathLength[f.handle] < PathLength[Top.handle]
  BY <1>1 DEF Above
<1>3. CASE f.pc \in {"stopBus", "stopChildren", "childStopped"}
  BY <1>1, <1>3, DeepBelow
<1>4. CASE f.pc = "childrenStopped"
  <2>1. PICK j, c : j = i + 1 /\ c = stack[j]
    OBVIOUS
  <2>2. i \in 1..n /\ i < n /\ j \in 1..n /\ j # 1
    BY <1>2, <2>1
  <2>3. c.pc \notin Outside
    <3>1. CASE j = n
      BY <1>2, <2>1, <3>1 DEF Looking, Outside
    <3>2. CASE j # n
      BY <1>1, <2>1, <2>2, <3>2 DEF CalmNow, Calm, Innermost, Outside
    <3> QED BY <3>1, <3>2
  <2>4. Awaits(stack, i)
    BY <1>1, <2>1, <2>2, <2>3 DEF Awaits
  <2>5. CalleeOf(f, c)
    BY <1>1, <2>1, <2>2, <2>4 DEF LayerInv, Layered, Called
  <2>6. c.pc \in {"stopChildren", "childStopped"} /\ c.handle = f.handle
    BY <1>4, <2>5 DEF CalleeOf
  <2>7. j # n
    BY <1>2, <2>1, <2>6 DEF Looking
  <2>8. j \in 1..(n - 1)
    BY <1>2, <2>2, <2>7
  <2>9. PathLength[c.handle] < PathLength[Top.handle]
    BY <1>1, <2>1, <2>6, <2>8, DeepBelow
  <2> QED BY <2>6, <2>9
<1> QED BY <1>3, <1>4 DEF Emptying

LEMMA DisconnectUserCalm ==
  ASSUME HdbInv, LayerInv, CalmNow, DisconnectUser
  PROVE  CalmNow'
<1>1. /\ stack # <<>> /\ Top.pc \in Looking /\ UNCHANGED db
      /\ \E agents \in SUBSET Driver :
           CallsFrom(Top.pc, Top.left, Top.who, TRUE, Disconnect(Top.handle, agents))
  BY DisconnectUserGoes
<1>2. PICK e : e = db' /\ Eases(e)
  BY <1>1, SameEases
<1>3. PICK agents \in SUBSET Driver :
        CallsFrom(Top.pc, Top.left, Top.who, TRUE, Disconnect(Top.handle, agents))
  BY <1>1
<1>4. PICK pc, left, who, done, h, g :
        /\ pc = Top.pc /\ left = Top.left /\ who = Top.who /\ done = TRUE /\ h = Top.handle
        /\ g = Disconnect(h, agents)
  OBVIOUS
<1>5. CallsFrom(pc, left, who, done, g)
  BY <1>3, <1>4
<1>6. h \in Handle
  BY <1>1, <1>4, LookingTop DEF DisconnectUser
<1>7. FrameOK(g) /\ g.pc = "disconnect"
  BY <1>4, <1>6, DisconnectIs
<1>8. g \in Frames /\ Plain(g)
  BY <1>7 DEF FrameOK, Plain, Outside, Emptying, Starting
<1>9. Top.pc \notin Outside /\ pc \notin Outside /\ pc \notin Emptying /\ pc \notin Starting
  BY <1>1, <1>4 DEF Looking, Outside, Emptying, Starting
<1> QED BY <1>1, <1>2, <1>5, <1>8, <1>9, CallsFromPlain

LEMMA NotAdmittedCalm ==
  ASSUME HdbInv, LayerInv, CalmNow, NotAdmitted \/ Refused
  PROVE  CalmNow'
<1>1. stack # <<>> /\ Top.pc \in Looking \cup {"refused"} /\ UNCHANGED db /\ stack' = Returned(FALSE)
  BY DEF NotAdmitted, Refused, AtRelease, At, Return, Returned, Looking
<1>2. PICK e : e = db' /\ Eases(e)
  BY <1>1, SameEases
<1>3. PICK ok \in BOOLEAN : ok = FALSE
  OBVIOUS
<1>4. Top.pc \notin Outside
  BY <1>1 DEF Outside, Looking
<1>5. stack' = Returned(ok) /\ (ok => Top.pc \notin Answering)
  BY <1>1, <1>3
<1> QED BY <1>1, <1>2, <1>4, <1>5, ReturnPlain

\* A service connects the controller again.
LEMMA RestartCalm ==
  ASSUME HdbInv, LayerInv, CalmNow, stack # <<>>, NEW e, e = db', Still(db, e),
         Top.pc \in Looking, Top.handle \in Handle, NEW pc, pc \in {"refused", "reconnected"},
         NEW left, NEW who, NEW done, CallsFrom(pc, left, who, done, Connect(Top.handle))
  PROVE  CalmNow'
<1>1. Eases(e)
  <2>1. Lighter(db, e)
    BY StillLighter DEF Still
  <2> QED BY <2>1, LighterEases
<1>2. PICK h, g : h = Top.handle /\ g = Connect(h)
  OBVIOUS
<1>3. PICK f \in Frames : stack' = Pushed(f, g) /\ Has(f, Top, pc, left, who, done)
  BY <1>2 DEF CallsFrom
<1>4. f.pc \in {"refused", "reconnected"}
  BY <1>3 DEF Has
<1>5. g \in Frames /\ g.pc = "connect" /\ g.handle = Top.handle
  BY <1>2, ConnectIs, ConnectHas
<1>6. /\ Top.pc \notin Outside /\ f.pc \notin Outside /\ f.pc \notin Starting /\ f.pc \notin Emptying
      /\ g.pc \notin Outside /\ g.pc \notin Emptying
  BY <1>4, <1>5 DEF Looking, Outside, Starting, Emptying
<1>7. Empties(e, f) /\ Empties(e, g) /\ Cleared(e, g)
  BY <1>6, PlainKnows
<1>8. Above(g)
  BY <1>5, RestartAbove
<1> QED BY <1>1, <1>3, <1>5, <1>6, <1>7, <1>8, PushCalm

LEMMA RefuseCalm ==
  ASSUME HdbInv, LayerInv, CalmNow, Refuse
  PROVE  CalmNow'
<1>1. /\ AtRelease /\ Top.pc \in {"uninstall", "reinstall"}
      /\ db' = (IF Top.ok THEN Emptied ELSE db)
      /\ CallsFrom("refused", Top.left, Top.who, Top.done, Connect(Top.handle))
  BY RefuseGoes
<1>2. stack # <<>> /\ Top.pc \in Looking /\ Top.handle \in Handle
  BY <1>1, LookingTop
<1>3. PICK e : e = db' /\ Still(db, e)
  <2>1. CASE Top.ok
    <3>1. PICK e : e = Emptied
      OBVIOUS
    <3>2. Still(db, e)
      BY <1>1, <3>1, EmptiedStill
    <3> QED BY <1>1, <2>1, <3>1, <3>2
  <2>2. CASE ~Top.ok
    <3>1. PICK e, d : e = db' /\ d = db
      OBVIOUS
    <3>2. e.list = d.list /\ e.open = d.open
      BY <1>1, <2>2, <3>1
    <3> QED BY <3>1, <3>2, QuietStill
  <2> QED BY <2>1, <2>2
<1>4. PICK pc, left, who, done :
        pc = "refused" /\ left = Top.left /\ who = Top.who /\ done = Top.done
  OBVIOUS
<1>5. CallsFrom(pc, left, who, done, Connect(Top.handle)) /\ pc \in {"refused", "reconnected"}
  BY <1>1, <1>4
<1> QED BY <1>2, <1>3, <1>5, RestartCalm

LEMMA CoreReinstallCalm ==
  ASSUME HdbInv, LayerInv, CalmNow, CoreReinstallProtocolInterface
  PROVE  CalmNow'
<1>1. /\ AtRelease /\ Top.pc = "reinstall" /\ Top.ok /\ Users = {} /\ ~Kept
      /\ Live(db, Top.handle, Top.guid)
      /\ db' = InsertTail(CoreRemoveInterfaceFromProtocol(Emptied, Top.handle, Top.guid),
                          Top.handle, Top.guid)
      /\ CallsFrom("reconnected", Top.left, Top.who, Top.done, Connect(Top.handle))
  BY CoreReinstallProtocolInterfaceGoes
<1>2. stack # <<>> /\ Top.pc \in Looking /\ Top.handle \in Handle /\ Top.guid \in Guid
  BY <1>1, LookingTop
<1>3. PICK h, g, e : h = Top.handle /\ g = Top.guid /\ e = db'
  OBVIOUS
<1>4. h \in Handle /\ g \in Guid /\ Live(db, h, g)
      /\ e = InsertTail(CoreRemoveInterfaceFromProtocol(Emptied, h, g), h, g)
  BY <1>1, <1>2, <1>3
<1>5. Still(db, e)
  BY <1>1, <1>3, <1>4, RenewsStill
<1>6. PICK pc, left, who, done :
        pc = "reconnected" /\ left = Top.left /\ who = Top.who /\ done = Top.done
  OBVIOUS
<1>7. CallsFrom(pc, left, who, done, Connect(Top.handle)) /\ pc \in {"refused", "reconnected"}
  BY <1>1, <1>6
<1> QED BY <1>2, <1>3, <1>5, <1>7, RestartCalm

\* Only registrations change.
Quiets(d, e) == e.list = d.list /\ e.open = d.open

LEMMA ReinstallNotifyStill ==
  ASSUME HdbInv, ReinstallNotify
  PROVE  \E e : e = db' /\ Still(db, e) /\ Quiets(db, e)
<1>1. PICK d, e, g : d = db /\ e = db' /\ g = Top.guid
  OBVIOUS
<1>2. e = [d EXCEPT !.signalled = @ \cup {r \in Registration : RegGuid[r] = g}]
  BY <1>1 DEF ReinstallNotify, CoreNotifyProtocolEntry
<1>3. d \in Database
  BY <1>1 DEF HdbInv, DbInv
<1>4. e.list = d.list /\ e.open = d.open
  BY <1>2, <1>3 DEF Database
<1> QED BY <1>1, <1>4, QuietStill DEF Quiets

LEMMA LocateStill ==
  ASSUME HdbInv, LocateHandle
  PROVE  \E e : e = db' /\ Still(db, e) /\ Quiets(db, e)
<1>1. PICK d, e : d = db /\ e = db'
  OBVIOUS
<1>2. PICK r : db' = LocateNext(db, r)
  BY DEF LocateHandle
<1>3. e = [d EXCEPT !.position[r] = Pending(d, r)[1]]
  BY <1>1, <1>2 DEF LocateNext
<1>4. d \in Database
  BY <1>1 DEF HdbInv, DbInv
<1>5. e.list = d.list /\ e.open = d.open
  BY <1>3, <1>4 DEF Database
<1> QED BY <1>1, <1>5, QuietStill DEF Quiets

LEMMA DispatchGoes ==
  ASSUME HdbInv, Dispatch
  PROVE  /\ CanInterrupt /\ \E e : e = db' /\ Still(db, e) /\ Quiets(db, e)
         /\ \E f \in Frames : f.pc = "locate" /\ stack' = Append(stack, f)
<1>1. PICK r \in Registration :
        /\ db' = PutSignalled(db, db.signalled \ {r})
        /\ stack' = Append(stack, Locate(r))
  BY Fields DEF Dispatch, PutSignalled, HdbInv, DbInv
<1>2. PICK e, d, q : e = db' /\ d = db /\ q = db.signalled \ {r}
  OBVIOUS
<1>3. DbInv(d) /\ q \in SUBSET Registration /\ e = PutSignalled(d, q)
  BY <1>1, <1>2, Fields DEF HdbInv, DbInv
<1>4. e.list = d.list /\ e.open = d.open
  BY <1>3, SignalledIs
<1>5. Still(d, e) /\ Quiets(d, e)
  BY <1>4, QuietStill DEF Quiets
<1>6. PICK f : f = Locate(r)
  OBVIOUS
<1>7. f \in Frames
  BY <1>6, CallbackIs, Zenon
<1>8. f.pc = "locate"
  BY <1>6, FrameIs DEF Locate
<1>9. stack' = Append(stack, f)
  BY <1>1, <1>6, Zenon
<1>10. CanInterrupt
  BY DEF Dispatch
<1> QED BY <1>2, <1>5, <1>7, <1>8, <1>9, <1>10

LEMMA ReinstallNotifyCalm ==
  ASSUME HdbInv, LayerInv, CalmNow, ReinstallNotify
  PROVE  CalmNow'
<1>1. stack # <<>> /\ Top.pc = "reconnected" /\ stack' = Returned(TRUE)
  BY DEF ReinstallNotify, At, Return, Returned
<1>2. PICK e : e = db' /\ Still(db, e)
  BY ReinstallNotifyStill
<1>3. Eases(e)
  <2>1. Lighter(db, e)
    BY <1>2, StillLighter DEF Still
  <2> QED BY <1>1, <2>1, LighterEases
<1>4. PICK ok \in BOOLEAN : ok = TRUE
  OBVIOUS
<1>5. stack' = Returned(ok) /\ Top.pc \notin Outside /\ Top.pc \notin Answering
  BY <1>1, <1>4 DEF Outside, Answering
<1> QED BY <1>1, <1>2, <1>3, <1>5, ReturnPlain

LEMMA CoreOpenProtocolExclusiveCalm ==
  ASSUME HdbInv, LayerInv, CalmNow, CoreOpenProtocolExclusive
  PROVE  CalmNow'
<1>1. /\ AtRelease /\ Top.pc = "exclusive" /\ Users = {} /\ stack' = Returned(TRUE)
      /\ db' = Add(db, Top.handle, Top.guid, Opened(App, NoHandle, "exclusive"))
  BY DEF CoreOpenProtocolExclusive, Released, Return, Returned
<1>2. stack # <<>> /\ Top.handle \in Handle /\ Top.guid \in Guid /\ DbInv(db)
  BY <1>1, LookingTop DEF HdbInv
<1>3. PICK h, g, e : h = Top.handle /\ g = Top.guid /\ e = db'
  OBVIOUS
<1>4. /\ h \in Handle /\ g \in Guid /\ With(db, h, g, "driver") = {}
      /\ e = Add(db, h, g, Opened(App, NoHandle, "exclusive"))
  BY <1>1, <1>2, <1>3 DEF Users
<1>5. Eases(e)
  <2>1. Still(db, e)
    BY <1>2, <1>4, ClaimStill
  <2>2. Lighter(db, e)
    BY <2>1, StillLighter DEF Still
  <2> QED BY <1>2, <2>2, LighterEases
<1>6. PICK ok \in BOOLEAN : ok = TRUE
  OBVIOUS
<1>7. stack' = Returned(ok) /\ Top.pc \notin Outside /\ Top.pc \notin Answering
  BY <1>1, <1>6 DEF Outside, Answering
<1> QED BY <1>2, <1>3, <1>5, <1>7, ReturnPlain

LEMMA CoreUninstallCalm ==
  ASSUME HdbInv, LayerInv, CalmNow, CoreUninstallProtocolInterface
  PROVE  CalmNow'
<1>1. /\ AtRelease /\ Top.pc = "uninstall" /\ Top.ok /\ Users = {} /\ ~Kept
      /\ db' = CoreRemoveInterfaceFromProtocol(Emptied, Top.handle, Top.guid)
      /\ stack' = Returned(TRUE)
  BY DEF CoreUninstallProtocolInterface, Released, Return, Returned
<1>2. stack # <<>> /\ Top.handle \in Handle /\ Top.guid \in Guid
  BY <1>1, LookingTop
<1>3. PICK h, g, e : h = Top.handle /\ g = Top.guid /\ e = db'
  OBVIOUS
<1>4. Gone(db, h, g, e)
  <2>1. h \in Handle /\ g \in Guid /\ e = CoreRemoveInterfaceFromProtocol(Emptied, h, g)
    BY <1>1, <1>2, <1>3
  <2> QED BY <1>1, <1>3, <2>1, Removes
<1>5. \A x \in Handle, y \in Guid : Live(e, x, y) <=> Live(db, x, y) /\ ~(x = h /\ y = g)
  BY <1>4 DEF Gone
<1>6. Eases(e)
  <2>1. Lighter(db, e)
    BY <1>4, <1>5, PartitionsAre, Names DEF Gone, BusesSame, Lighter
  <2> QED BY <1>2, <2>1, LighterEases
<1>7. PICK ok \in BOOLEAN : ok = TRUE
  OBVIOUS
<1>8. stack' = Returned(ok) /\ Top.pc \notin Outside
  BY <1>1, <1>7 DEF Outside
<1>9. ok => \A c : CalleeOf(c, Top) /\ FrameOK(c) =>
               /\ c.pc = "childStopped" => ~Live(e, c.who, BlockIo)
               /\ c.pc = "childrenStopped" => Bare(e, c.handle)
  <2> SUFFICES ASSUME NEW c, CalleeOf(c, Top)
               PROVE  /\ c.pc = "childStopped" => ~Live(e, c.who, BlockIo)
                      /\ c.pc # "childrenStopped"
    OBVIOUS
  <2>1. c.pc # "childrenStopped"
    BY <1>1 DEF CalleeOf
  <2>2. c.pc = "childStopped" => c.who = h /\ g = BlockIo
    BY <1>3 DEF CalleeOf
  <2> QED BY <1>2, <1>3, <1>5, <2>1, <2>2
<1> QED BY <1>2, <1>3, <1>6, <1>8, <1>9, ReturnCalm

LEMMA CallbackReturnCalm ==
  ASSUME HdbInv, CalmNow, CallbackReturn \/ LocateNotFound
  PROVE  CalmNow'
<1>1. stack # <<>> /\ Top.pc \in Outside /\ UNCHANGED db /\ stack' = Callers
  BY DEF CallbackReturn, LocateNotFound, At, Outside
<1>2. PICK e : e = db' /\ Eases(e)
  BY <1>1, SameEases
<1>3. PICK n, t : n = Len(stack) /\ t = Callers
  OBVIOUS
<1>4. /\ n \in Nat /\ n >= 1 /\ Top = stack[n] /\ stack \in Seq(Frames)
      /\ t \in Seq(Frames) /\ Len(t) = n - 1 /\ \A i \in 1..(n - 1) : t[i] = stack[i]
  BY <1>1, <1>3, CallersIs DEF HdbInv, FramesOK
<1>5. ASSUME n > 1 PROVE Alike(t[n - 1], stack[n - 1]) /\ Cleared(e, t[n - 1])
  <2>1. PICK j : j = n - 1
    OBVIOUS
  <2>2. j \in 1..n /\ j \in 1..(n - 1) /\ j + 1 = n
    BY <1>4, <1>5, <2>1
  <2>3. t[j] = stack[j] /\ stack[j] \in Frames
    BY <1>3, <1>4, <2>2
  <2>4. ~Awaits(stack, j)
    BY <1>1, <1>4, <2>2 DEF Awaits
  <2>5. Cleared(db, stack[j])
    BY <1>3, <2>2, <2>4 DEF CalmNow, Calm, Stripped
  <2>6. Strengthens(db, e, stack[j])
    BY <1>2, <1>3, <2>2 DEF Eases, CalmLasts
  <2> QED BY <2>1, <2>3, <2>5, <2>6 DEF Alike, Strengthens
<1>6. Backs(t)
  <2>1. \A i \in 1..(n - 2) : i \in 1..(n - 1)
    BY <1>4
  <2> QED BY <1>3, <1>4, <1>5, <2>1 DEF Backs
<1>7. Calm(e, t)
  BY <1>1, <1>2, <1>3, <1>5, <1>6, BackwardCalm DEF Eases, CalmNow
<1> QED BY <1>1, <1>2, <1>3, <1>7, Calming

\* Every function knows what it knew.
LEMMA AllStrengthen ==
  ASSUME HdbInv, NEW e, Lighter(db, e), NEW i \in 1..Len(stack)
  PROVE  Strengthens(db, e, stack[i])
<1>1. PICK f : f = stack[i]
  OBVIOUS
<1>2. FrameOK(f)
  BY <1>1 DEF HdbInv, FramesOK
<1>3. f.pc \in Emptying => f.handle \in Handle
  BY <1>2 DEF FrameOK, Outside, Emptying
<1>4. Strengthens(db, e, f)
  BY <1>2, <1>3, LighterStrengthens DEF Lighter
<1> QED BY <1>1, <1>4

LEMMA LocateHandleCalm ==
  ASSUME HdbInv, CalmNow, LocateHandle
  PROVE  CalmNow'
<1>1. PICK e : e = db' /\ Still(db, e)
  BY LocateStill
<1>2. PICK t : t = stack' /\ t = stack
  BY DEF LocateHandle
<1>3. Lighter(db, e)
  BY <1>1, StillLighter DEF Still
<1>4. Managed(e)
  BY <1>3, ManagedLighter DEF CalmNow, Calm
<1>5. Stripped(e, t)
  BY <1>2, <1>3, AllStrengthen DEF CalmNow, Calm, Stripped, Strengthens
<1>6. Calm(e, t)
  BY <1>2, <1>4, <1>5 DEF CalmNow, Calm
<1> QED BY <1>1, <1>2, <1>6, Calming

LEMMA DispatchCalm ==
  ASSUME HdbInv, CalmNow, Dispatch
  PROVE  CalmNow'
<1>1. PICK e : e = db' /\ Still(db, e)
  BY DispatchGoes
<1>2. PICK f \in Frames : f.pc = "locate" /\ stack' = Append(stack, f)
  BY DispatchGoes
<1>3. PICK n, s, t : n = Len(stack) /\ s = stack /\ t = Append(stack, f)
  OBVIOUS
<1>4. s \in Seq(Frames) /\ n = Len(s) /\ n \in Nat
  BY <1>3 DEF HdbInv, FramesOK
<1>5. /\ t \in Seq(Frames) /\ Len(t) = n + 1 /\ t[n + 1] = f
      /\ \A i \in 1..n : t[i] = s[i]
  BY <1>2, <1>3, <1>4, AppendProperties
<1>6. \A i \in 1..n : s[i].pc \notin Outside
  <2>1. CanInterrupt
    BY DispatchGoes
  <2>2. \A i \in 1..n : i \in DOMAIN stack
    BY <1>3, <1>4
  <2> QED BY <1>3, <2>1, <2>2 DEF CanInterrupt, Outside
<1>7. \A i \in 1..Len(t) : i \in 1..n \/ i = n + 1
  BY <1>4, <1>5
<1>8. \A i \in 1..n : i # n + 1 /\ i < n + 1
  BY <1>4
<1>9. f.pc \notin Emptying /\ f.pc \notin Starting /\ f.pc # "callback" /\ f.pc \in Outside
  BY <1>2 DEF Emptying, Starting, Outside
<1>10. Lighter(db, e)
  BY <1>1, StillLighter DEF Still
<1>11. Managed(e)
  BY <1>10, ManagedLighter DEF CalmNow, Calm
<1>12. Stripped(e, t)
  <2> SUFFICES ASSUME NEW i \in 1..Len(t) PROVE Empties(e, t[i]) /\ (Awaits(t, i) \/ Cleared(e, t[i]))
    BY DEF Stripped
  <2>1. CASE i = n + 1
    BY <1>5, <1>9, <2>1, PlainKnows
  <2>2. CASE i \in 1..n
    <3>1. Empties(db, s[i]) /\ (Awaits(s, i) \/ Cleared(db, s[i]))
      BY <1>3, <2>2 DEF CalmNow, Calm, Stripped
    <3>2. Strengthens(db, e, s[i])
      BY <1>3, <1>10, <2>2, AllStrengthen
    <3>3. Awaits(s, i) => Awaits(t, i)
      <4> SUFFICES ASSUME Awaits(s, i) PROVE Awaits(t, i)
        OBVIOUS
      <4>1. i < n /\ s[i + 1].pc \notin Outside
        BY <1>4 DEF Awaits
      <4>2. i + 1 \in 1..n
        BY <1>4, <2>2, <4>1
      <4>3. i < n + 1
        BY <1>8, <2>2
      <4> QED BY <1>5, <4>1, <4>2, <4>3 DEF Awaits
    <3> QED BY <1>5, <2>2, <3>1, <3>2, <3>3 DEF Strengthens
  <2> QED BY <1>7, <2>1, <2>2
<1>13. Higher(t)
  <2> SUFFICES ASSUME NEW i \in 1..Len(t), NEW j \in 1..Len(t), i < j,
                      t[i].pc \in Emptying, t[j].pc \in Starting
               PROVE  PathLength[t[i].handle] < PathLength[t[j].handle]
    BY DEF Higher
  <2>1. i \in 1..n /\ j \in 1..n
    BY <1>5, <1>7, <1>9
  <2> QED BY <1>3, <1>5, <2>1 DEF CalmNow, Calm, Higher
<1>14. Innermost(t)
  BY <1>5, <1>6, <1>7, <1>9 DEF Innermost, Outside
<1>15. Calm(e, t)
  BY <1>11, <1>12, <1>13, <1>14 DEF Calm
<1>16. t = stack'
  BY <1>2, <1>3
<1> QED BY <1>1, <1>15, <1>16, Calming

LEMMA CallCalm ==
  ASSUME HdbInv, CalmNow, Call
  PROVE  CalmNow'
<1>1. PICK d, e, t : d = db /\ e = db' /\ t = stack' /\ ClientOf(d, e) /\ Begun(t)
  BY CallGoes
<1>2. Lighter(d, e)
  BY <1>1 DEF ClientOf, Lighter, BusesSame
<1>3. Managed(e)
  BY <1>1, <1>2, ManagedLighter DEF CalmNow, Calm
<1>4. \A i \in 1..Len(t) : t[i].pc \notin Emptying /\ t[i].pc # "locate" /\ (t[i].pc = "callback" => i = 1)
  BY <1>1 DEF Begun, Emptying, Looking
<1>5. Stripped(e, t)
  BY <1>4, PlainKnows DEF Stripped
<1>6. Higher(t) /\ Innermost(t)
  BY <1>4 DEF Higher, Innermost
<1>7. Calm(e, t)
  BY <1>3, <1>5, <1>6 DEF Calm
<1> QED BY <1>1, <1>7, Calming

LEMMA InitCalm ==
  ASSUME Init
  PROVE  CalmNow
<1>1. db = EmptyDatabase /\ stack = <<>> /\ Len(stack) = 0
  BY DEF Init
<1>2. \A x \in Handle, y \in Guid : ~Live(db, x, y)
  <2> SUFFICES ASSUME NEW x \in Handle, NEW y \in Guid, Live(db, x, y) PROVE FALSE
    OBVIOUS
  <2>1. db.list[y] = <<>>
    BY <1>1 DEF EmptyDatabase
  <2> QED BY <2>1 DEF Live, Contains
<1>3. Managed(db)
  BY <1>2, PartitionsAre, Names DEF Managed, Bare
<1>4. Stripped(db, stack) /\ Higher(stack) /\ Innermost(stack)
  BY <1>1 DEF Stripped, Higher, Innermost
<1> QED BY <1>3, <1>4 DEF CalmNow, Calm

\* A timer function that runs is counted, and never uncounted.
LEMMA Disturbs ==
  ASSUME HdbInv, Next, Undisturbed'
  PROVE  Undisturbed /\ ~Interrupt
<1>1. interrupts \in Nat /\ interrupts <= MaxInterrupts /\ MaxInterrupts \in Nat
  BY DriverModelAssumption DEF HdbInv, Bounded
<1>2. interrupts' = MaxInterrupts
  BY DEF Undisturbed
<1>3. ~Interrupt
  <2> SUFFICES ASSUME Interrupt PROVE FALSE
    OBVIOUS
  <2>1. interrupts' = interrupts - 1
    BY DEF Interrupt
  <2>2. PICK a, b : a = interrupts /\ b = interrupts'
    OBVIOUS
  <2>3. b = a - 1 /\ a \in Nat /\ a <= MaxInterrupts /\ b = MaxInterrupts
    BY <1>1, <1>2, <2>1, <2>2
  <2> QED BY <1>1, <2>3
<1>4. UNCHANGED interrupts
  <2>1. CASE Call
    BY <2>1 DEF Call
  <2>2. CASE Continue
    <3>1. UNCHANGED bounds
      <4>1. CASE ConnectStep
        BY <4>1 DEF ConnectStep, ConnectSupported, ConnectStart, ConnectChildren, Running
      <4>2. CASE DisconnectStep
        BY <4>2 DEF DisconnectStep, DisconnectCollect, DisconnectNext, DisconnectChildrenStopped,
           DisconnectStopped, DisconnectReturn, Running
      <4>3. CASE StopStep
        BY <4>3 DEF StopStep, StopDiskIo, StopDiskIoEnd, StopBus, StopChild, ChildStopped,
           StopChildrenReturn, Running
      <4>4. CASE ReleaseStep
        BY <4>4 DEF ReleaseStep, DisconnectUser, NotAdmitted, Refuse, Refused,
           CoreUninstallProtocolInterface, CoreReinstallProtocolInterface, ReinstallNotify,
           CoreOpenProtocolExclusive, Released, AtRelease, Running
      <4>5. CASE CallbackStep
        BY <4>5 DEF CallbackStep, CallbackReturn, Dispatch, LocateHandle, LocateNotFound
      <4> QED BY <2>2, <4>1, <4>2, <4>3, <4>4, <4>5 DEF Continue
    <3> QED BY <3>1 DEF bounds
  <2> QED BY <1>3, <2>1, <2>2 DEF Next
<1> QED BY <1>2, <1>3, <1>4 DEF Undisturbed

LEMMA NextCalm ==
  ASSUME HdbInv, LayerInv, CalmInv, [Next]_vars
  PROVE  CalmInv'
<1>1. CASE UNCHANGED vars
  BY <1>1 DEF vars, bounds, CalmInv, Undisturbed
<1>2. CASE Next
  <2> SUFFICES ASSUME Undisturbed' PROVE CalmNow'
    BY DEF CalmInv, CalmNow
  <2>1. Undisturbed /\ ~Interrupt
    BY <1>2, Disturbs
  <2>2. CalmNow
    BY <2>1 DEF CalmInv, CalmNow
  <2>3. CASE ConnectStep
    BY <2>2, <2>3, ConnectSupportedCalm, ConnectStartCalm, ConnectChildrenCalm DEF ConnectStep
  <2>4. CASE DisconnectStep
    BY <2>2, <2>4, DisconnectCollectCalm, DisconnectNextCalm, DisconnectChildrenStoppedCalm,
       DisconnectStoppedCalm, DisconnectReturnCalm DEF DisconnectStep
  <2>5. CASE StopStep
    BY <2>2, <2>5, StopDiskIoCalm, StopDiskIoEndCalm, StopBusCalm, StopChildCalm,
       ChildStoppedCalm, StopChildrenReturnCalm DEF StopStep
  <2>6. CASE ReleaseStep
    BY <2>2, <2>6, DisconnectUserCalm, NotAdmittedCalm, RefuseCalm, CoreUninstallCalm,
       CoreReinstallCalm, ReinstallNotifyCalm, CoreOpenProtocolExclusiveCalm
       DEF ReleaseStep
  <2>7. CASE CallbackStep
    BY <2>2, <2>7, CallbackReturnCalm, DispatchCalm, LocateHandleCalm DEF CallbackStep
  <2>8. CASE Call
    BY <2>2, <2>8, CallCalm
  <2> QED BY <1>2, <2>1, <2>3, <2>4, <2>5, <2>6, <2>7, <2>8 DEF Next, Continue
<1> QED BY <1>1, <1>2

\* The inductive invariant while no timer function has run in the middle of a service:
\* PartitionDxe holds the Disk I/O of each disk that has partitions, for itself as long as
\* there is one, and its Stop for the controller comes when Stop for the children has
\* left none.
THEOREM CalmInvariant == Spec => []CalmInv
<1>1. Init => CalmInv
  BY InitCalm DEF CalmInv, CalmNow
<1>2. HdbInv /\ LayerInv /\ CalmInv /\ [Next]_vars => CalmInv'
  BY NextCalm
<1> QED BY <1>1, <1>2, HdbInvariant, LayerInvariant, PTL DEF Spec

\* Whatever services, Stop functions, timer functions and notifications interleave, there
\* is no Disk I/O without DiskIoDxe on its Block I/O and no partition without its disk's
\* Disk I/O; and services that no timer function has interrupted leave each partition
\* with PartitionDxe's openings of it.
THEOREM LayersCorrect == Spec => []LayersStand
<1>1. HdbInv /\ LayerInv /\ CalmInv => LayersStand
  <2> SUFFICES ASSUME HdbInv, LayerInv, CalmInv PROVE LayersStand
    OBVIOUS
  <2>1. Stands(db)
    BY DEF LayerInv, Layered
  <2>2. ASSUME NEW h \in Handle, NEW p \in Partitions[h], Live(db, p, BlockIo), stack = <<>>
        PROVE  Child(db, h, p)
    <3>1. Len(stack) = 0
      BY <2>2
    <3> QED BY <2>2, <3>1 DEF LayerInv, Layered, Linked
  <2>3. ASSUME NEW h \in Handle, NEW p \in Partitions[h], Live(db, p, BlockIo), Undisturbed
        PROVE  OnBus(db, h)
    BY <2>3 DEF CalmInv, Calm, Managed, Bare
  <2> QED BY <2>1, <2>2, <2>3 DEF LayersStand, Stands, OnDisk, OnBus, Child
<1> QED BY <1>1, HdbInvariant, LayerInvariant, CalmInvariant, PTL

-----------------------------------------------------------------------------
(* What was refused is connected again.                                     *)

RefusedNow == Reconnected(db, stack)

LEMMA Refusing ==
  ASSUME NEW e, e = db', NEW t, t = stack', Reconnected(e, t)
  PROVE  RefusedNow'
<1>1. Reconnected(db', stack')
  OBVIOUS
<1> QED BY <1>1 DEF RefusedNow, Reconnected, Reconnects, Connecting, Connected, DiskUsed,
   BusUsed, UsedIn, OnBus, Manages, With, NewPartitions, Live, Supported, CanManage

\* Above a refused service there are only functions that connect and that locate.
LEMMA NoneBelow ==
  ASSUME HdbInv, RefusedNow, stack # <<>>, Top.pc \notin Starting, Top.pc # "locate",
         NEW i \in 1..(Len(stack) - 1)
  PROVE  stack[i].pc # "refused"
<1>1. PICK n, s : n = Len(stack) /\ s = stack
  OBVIOUS
<1>2. n \in Nat /\ n >= 1 /\ Top = s[n]
  BY <1>1, CallersIs DEF HdbInv, FramesOK
<1>3. i \in 1..n /\ n \in 1..n /\ i < n /\ (i + 1 = n \/ i + 1 < n)
  BY <1>1, <1>2
<1> SUFFICES ASSUME Reconnects(db, s, i) PROVE FALSE
  BY <1>1, <1>3 DEF RefusedNow, Reconnected
<1> QED BY <1>1, <1>2, <1>3 DEF Reconnects, Starting

LEMMA OnwardRefused ==
  ASSUME HdbInv, RefusedNow, stack # <<>>, Top.pc \notin Starting, Top.pc # "locate",
         NEW t, t = stack', Goes(t) \/ Backs(t) \/ t = Callers,
         \A i \in 1..Len(t) : i >= Len(stack) => t[i].pc # "refused"
  PROVE  RefusedNow'
<1>1. PICK n, s : n = Len(stack) /\ s = stack
  OBVIOUS
<1>2. /\ n \in Nat /\ n >= 1
      /\ Callers \in Seq(Frames) /\ Len(Callers) = n - 1
      /\ \A i \in 1..(n - 1) : Callers[i] = s[i]
  BY <1>1, CallersIs DEF HdbInv, FramesOK
<1>3. \A i \in 1..(n - 1) : s[i].pc # "refused"
  BY <1>1, NoneBelow
<1>4. \A i \in 1..Len(t) : t[i].pc # "refused"
  <2> SUFFICES ASSUME NEW i \in 1..Len(t), ~(i >= n) PROVE t[i].pc # "refused"
    BY <1>1
  <2>1. i \in 1..(n - 1)
    BY <1>2
  <2>2. CASE Goes(t)
    BY <1>1, <1>3, <2>1, <2>2 DEF Goes
  <2>3. CASE t = Callers
    BY <1>2, <1>3, <2>1, <2>3
  <2>4. CASE Backs(t)
    <3>1. i \in 1..(n - 2) \/ (i = n - 1 /\ n > 1)
      BY <1>2, <2>1
    <3> QED BY <1>1, <1>3, <2>1, <2>4, <3>1 DEF Backs, Alike
  <2> QED BY <2>2, <2>3, <2>4
<1>5. PICK e : e = db'
  OBVIOUS
<1>6. Reconnected(e, t)
  BY <1>4 DEF Reconnected
<1> QED BY <1>5, <1>6, Refusing

LEMMA GotoRefused ==
  ASSUME HdbInv, RefusedNow, stack # <<>>, Top.pc \notin Starting, Top.pc # "locate",
         NEW f \in Frames, f.pc # "refused", stack' = Append(Callers, f)
  PROVE  RefusedNow'
<1>1. PICK n, t : n = Len(stack) /\ t = stack'
  OBVIOUS
<1>2. Goes(t) /\ Len(t) = n /\ t[n] = f
  BY <1>1, GotoGoes
<1>3. n \in Nat
  BY <1>1 DEF HdbInv, FramesOK
<1>4. \A i \in 1..Len(t) : i >= n => i = n
  BY <1>2, <1>3
<1> QED BY <1>1, <1>2, <1>4, OnwardRefused

LEMMA PushRefused ==
  ASSUME HdbInv, RefusedNow, stack # <<>>, Top.pc \notin Starting, Top.pc # "locate",
         NEW f \in Frames, f.pc # "refused", NEW g \in Frames, g.pc # "refused",
         stack' = Pushed(f, g)
  PROVE  RefusedNow'
<1>1. PICK n, t : n = Len(stack) /\ t = stack'
  OBVIOUS
<1>2. Goes(t) /\ Len(t) = n + 1 /\ t[n] = f /\ t[n + 1] = g
  BY <1>1, PushGoes
<1>3. n \in Nat
  BY <1>1 DEF HdbInv, FramesOK
<1>4. \A i \in 1..Len(t) : i >= n => i = n \/ i = n + 1
  BY <1>2, <1>3
<1> QED BY <1>1, <1>2, <1>4, OnwardRefused

LEMMA ReturnRefused ==
  ASSUME HdbInv, RefusedNow, stack # <<>>, Top.pc \notin Starting, Top.pc # "locate",
         NEW ok \in BOOLEAN, stack' = Returned(ok)
  PROVE  RefusedNow'
<1>1. PICK n, t : n = Len(stack) /\ t = stack'
  OBVIOUS
<1>2. Backs(t) /\ Len(t) = n - 1
  <2>1. Backs(t)
    BY <1>1, ReturnBacks
  <2> QED BY <1>1, <2>1 DEF Backs
<1>3. n \in Nat
  BY <1>1 DEF HdbInv, FramesOK
<1>4. \A i \in 1..Len(t) : ~(i >= n)
  BY <1>2, <1>3
<1> QED BY <1>1, <1>2, <1>4, OnwardRefused

LEMMA GoesToRefused ==
  ASSUME HdbInv, RefusedNow, stack # <<>>, Top.pc \notin Starting, Top.pc # "locate",
         NEW pc, pc # "refused", NEW left, NEW who, NEW done, GoesTo(pc, left, who, done)
  PROVE  RefusedNow'
<1>1. PICK f \in Frames : stack' = Append(Callers, f) /\ Has(f, Top, pc, left, who, done)
  BY DEF GoesTo
<1>2. f.pc # "refused"
  BY <1>1 DEF Has
<1> QED BY <1>1, <1>2, GotoRefused

LEMMA CallsFromRefused ==
  ASSUME HdbInv, RefusedNow, stack # <<>>, Top.pc \notin Starting, Top.pc # "locate",
         NEW pc, pc # "refused", NEW left, NEW who, NEW done,
         NEW g, FrameOK(g), g.pc # "refused", CallsFrom(pc, left, who, done, g)
  PROVE  RefusedNow'
<1>1. PICK f \in Frames : stack' = Pushed(f, g) /\ Has(f, Top, pc, left, who, done)
  BY DEF CallsFrom
<1>2. f.pc # "refused" /\ g \in Frames
  BY <1>1 DEF Has, FrameOK
<1> QED BY <1>1, <1>2, PushRefused

LEMMA DisconnectStepRefused ==
  ASSUME HdbInv, RefusedNow, DisconnectStep
  PROVE  RefusedNow'
<1>1. CASE DisconnectCollect
  <2>1. /\ stack # <<>> /\ Top.pc = "disconnectAll"
        /\ \/ stack' = Returned(TRUE)
           \/ \E f \in Frames : stack' = Append(Callers, f) /\ f.pc = "disconnect"
    BY <1>1, DisconnectCollectGoes
  <2>2. Top.pc \notin Starting /\ Top.pc # "locate"
    BY <2>1 DEF Starting
  <2>3. PICK ok \in BOOLEAN : ok = TRUE
    OBVIOUS
  <2>4. CASE stack' = Returned(TRUE)
    BY <2>1, <2>2, <2>3, <2>4, ReturnRefused
  <2>5. CASE \E f \in Frames : stack' = Append(Callers, f) /\ f.pc = "disconnect"
    <3>1. PICK f \in Frames : stack' = Append(Callers, f) /\ f.pc = "disconnect"
      BY <2>5
    <3>2. f.pc # "refused"
      BY <3>1
    <3> QED BY <2>1, <2>2, <3>1, <3>2, GotoRefused
  <2> QED BY <2>1, <2>4, <2>5
<1>2. CASE DisconnectNext
  <2>1. /\ stack # <<>> /\ Top.pc = "disconnect" /\ Top.handle \in Handle
        /\ \E driver \in Driver :
             \/ GoesTo("disconnect", Top.left \ {driver}, driver, Top.done)
             \/ \E kids \in SUBSET Partitions[Top.handle], pc \in {"stopped", "childrenStopped"} :
                  CallsFrom(pc, Top.left \ {driver}, driver, Top.done,
                            Stop(driver, Top.handle, kids))
    BY <1>2, DisconnectNextGoes
  <2>2. Top.pc \notin Starting /\ Top.pc # "locate"
    BY <2>1 DEF Starting
  <2>3. PICK driver \in Driver :
             \/ GoesTo("disconnect", Top.left \ {driver}, driver, Top.done)
             \/ \E kids \in SUBSET Partitions[Top.handle], pc \in {"stopped", "childrenStopped"} :
                  CallsFrom(pc, Top.left \ {driver}, driver, Top.done,
                            Stop(driver, Top.handle, kids))
    BY <2>1
  <2>4. PICK h, left, done : h = Top.handle /\ left = Top.left \ {driver} /\ done = Top.done
    OBVIOUS
  <2>5. CASE GoesTo("disconnect", Top.left \ {driver}, driver, Top.done)
    <3>1. PICK pc : pc = "disconnect"
      OBVIOUS
    <3>2. GoesTo(pc, left, driver, done) /\ pc # "refused"
      BY <2>4, <2>5, <3>1
    <3> QED BY <2>1, <2>2, <3>2, GoesToRefused
  <2>6. CASE \E kids \in SUBSET Partitions[Top.handle], pc \in {"stopped", "childrenStopped"} :
                  CallsFrom(pc, Top.left \ {driver}, driver, Top.done,
                            Stop(driver, Top.handle, kids))
    <3>1. PICK kids \in SUBSET Partitions[Top.handle], pc \in {"stopped", "childrenStopped"} :
                  CallsFrom(pc, Top.left \ {driver}, driver, Top.done,
                            Stop(driver, Top.handle, kids))
      BY <2>6
    <3>2. PICK g : g = Stop(driver, h, kids)
      OBVIOUS
    <3>3. h \in Handle /\ kids \in SUBSET Partitions[h] /\ pc # "refused"
      BY <2>1, <2>4, <3>1
    <3>4. FrameOK(g) /\ g.pc # "refused"
      BY <3>2, <3>3, StopIs
    <3>5. CallsFrom(pc, left, driver, done, g)
      BY <2>4, <3>1, <3>2
    <3> QED BY <2>1, <2>2, <3>3, <3>4, <3>5, CallsFromRefused
  <2> QED BY <2>3, <2>5, <2>6
<1>3. CASE DisconnectChildrenStopped
  <2>1. /\ stack # <<>> /\ Top.pc = "childrenStopped" /\ Top.handle \in Handle
        /\ Top.who \in Driver
        /\ \/ GoesTo("disconnect", Top.left, Top.who, Top.done)
           \/ CallsFrom("stopped", Top.left, Top.who, Top.done, Stop(Top.who, Top.handle, {}))
    BY <1>3, DisconnectChildrenStoppedGoes
  <2>2. Top.pc \notin Starting /\ Top.pc # "locate"
    BY <2>1 DEF Starting
  <2>3. PICK h, left, driver, done, kids :
          h = Top.handle /\ left = Top.left /\ driver = Top.who /\ done = Top.done /\ kids = {}
    OBVIOUS
  <2>4. CASE GoesTo("disconnect", Top.left, Top.who, Top.done)
    <3>1. PICK pc : pc = "disconnect"
      OBVIOUS
    <3>2. GoesTo(pc, left, driver, done) /\ pc # "refused"
      BY <2>3, <2>4, <3>1
    <3> QED BY <2>1, <2>2, <3>2, GoesToRefused
  <2>5. CASE CallsFrom("stopped", Top.left, Top.who, Top.done, Stop(Top.who, Top.handle, {}))
    <3>1. PICK pc, g : pc = "stopped" /\ g = Stop(driver, h, kids)
      OBVIOUS
    <3>2. h \in Handle /\ driver \in Driver /\ kids \in SUBSET Partitions[h] /\ pc # "refused"
      BY <2>1, <2>3, <3>1
    <3>3. FrameOK(g) /\ g.pc # "refused"
      BY <3>1, <3>2, StopIs
    <3>4. CallsFrom(pc, left, driver, done, g)
      BY <2>3, <2>5, <3>1
    <3> QED BY <2>1, <2>2, <3>2, <3>3, <3>4, CallsFromRefused
  <2> QED BY <2>1, <2>4, <2>5
<1>4. CASE DisconnectStopped
  <2>1. /\ stack # <<>> /\ Top.pc = "stopped"
        /\ \E done \in BOOLEAN : GoesTo("disconnect", Top.left, Top.who, done)
    BY <1>4, DisconnectStoppedGoes
  <2>2. Top.pc \notin Starting /\ Top.pc # "locate"
    BY <2>1 DEF Starting
  <2>3. PICK pc, left, who : pc = "disconnect" /\ left = Top.left /\ who = Top.who
    OBVIOUS
  <2>4. pc # "refused" /\ \E done \in BOOLEAN : GoesTo(pc, left, who, done)
    BY <2>1, <2>3
  <2> QED BY <2>1, <2>2, <2>4, GoesToRefused
<1>5. CASE DisconnectReturn
  <2>1. stack # <<>> /\ Top.pc = "disconnect" /\ stack' = Returned(Top.done)
    BY <1>5 DEF DisconnectReturn, At, Return, Returned
  <2>2. Top.pc \notin Starting /\ Top.pc # "locate"
    BY <2>1 DEF Starting
  <2>3. PICK ok \in BOOLEAN : ok = Top.done
    BY <2>1, TopFacts
  <2> QED BY <2>1, <2>2, <2>3, ReturnRefused
<1> QED BY <1>1, <1>2, <1>3, <1>4, <1>5 DEF DisconnectStep

LEMMA StopStepRefused ==
  ASSUME HdbInv, RefusedNow, StopStep
  PROVE  RefusedNow'
<1>1. CASE StopDiskIo
  <2>1. /\ stack # <<>> /\ Top.pc = "stopDiskIo" /\ Top.handle \in Handle
        /\ \/ stack' = Returned(FALSE)
           \/ CallsFrom("stopDiskIoEnd", Top.left, Top.who, Top.done,
                        Uninstall(Top.handle, DiskIo))
    BY <1>1, StopDiskIoGoes
  <2>2. Top.pc \notin Starting /\ Top.pc # "locate"
    BY <2>1 DEF Starting
  <2>3. PICK ok \in BOOLEAN : ok = FALSE
    OBVIOUS
  <2>4. CASE stack' = Returned(FALSE)
    BY <2>1, <2>2, <2>3, <2>4, ReturnRefused
  <2>5. CASE CallsFrom("stopDiskIoEnd", Top.left, Top.who, Top.done, Uninstall(Top.handle, DiskIo))
    <3>1. PICK h, g, left, who, done : h = Top.handle /\ g = DiskIo /\ left = Top.left
                                       /\ who = Top.who /\ done = Top.done
      OBVIOUS
    <3>2. PICK pc, f : pc = "stopDiskIoEnd" /\ f = Uninstall(h, g)
      OBVIOUS
    <3>3. h \in Handle /\ g \in Guid /\ pc # "refused"
      BY <2>1, <3>1, <3>2, Names
    <3>4. FrameOK(f) /\ f.pc # "refused"
      BY <3>2, <3>3, UninstallIs
    <3>5. CallsFrom(pc, left, who, done, f)
      BY <2>5, <3>1, <3>2
    <3> QED BY <2>1, <2>2, <3>3, <3>4, <3>5, CallsFromRefused
  <2> QED BY <2>1, <2>4, <2>5
<1>2. CASE StopDiskIoEnd
  <2>1. stack # <<>> /\ Top.pc = "stopDiskIoEnd" /\ Top.ok \in BOOLEAN /\ stack' = Returned(Top.ok)
    BY <1>2, StopDiskIoEndGoes
  <2>2. Top.pc \notin Starting /\ Top.pc # "locate"
    BY <2>1 DEF Starting
  <2>3. PICK ok \in BOOLEAN : ok = Top.ok
    BY <2>1
  <2> QED BY <2>1, <2>2, <2>3, ReturnRefused
<1>3. CASE StopBus
  <2>1. stack # <<>> /\ Top.pc = "stopBus" /\ stack' = Returned(TRUE)
    BY <1>3, StopBusGoes
  <2>2. Top.pc \notin Starting /\ Top.pc # "locate"
    BY <2>1 DEF Starting
  <2>3. PICK ok \in BOOLEAN : ok = TRUE
    OBVIOUS
  <2> QED BY <2>1, <2>2, <2>3, ReturnRefused
<1>4. CASE StopChild
  <2>1. /\ stack # <<>> /\ Top.pc = "stopChildren" /\ Top.handle \in Handle
        /\ \E c \in Top.left :
             /\ c \in Partitions[Top.handle]
             /\ CallsFrom("childStopped", Top.left \ {c}, c, Top.done, Uninstall(c, BlockIo))
    BY <1>4, StopChildGoes
  <2>2. Top.pc \notin Starting /\ Top.pc # "locate"
    BY <2>1 DEF Starting
  <2>3. PICK c \in Top.left :
             /\ c \in Partitions[Top.handle]
             /\ CallsFrom("childStopped", Top.left \ {c}, c, Top.done, Uninstall(c, BlockIo))
    BY <2>1
  <2>4. PICK g, left, done, pc, f : g = BlockIo /\ left = Top.left \ {c} /\ done = Top.done
                                    /\ pc = "childStopped" /\ f = Uninstall(c, g)
    OBVIOUS
  <2>5. c \in Handle /\ g \in Guid /\ pc # "refused"
    BY <2>1, <2>3, <2>4, PartitionsAre, Names
  <2>6. FrameOK(f) /\ f.pc # "refused"
    BY <2>4, <2>5, UninstallIs
  <2>7. CallsFrom(pc, left, c, done, f)
    BY <2>3, <2>4
  <2> QED BY <2>1, <2>2, <2>5, <2>6, <2>7, CallsFromRefused
<1>5. CASE ChildStopped
  <2>1. /\ stack # <<>> /\ Top.pc = "childStopped"
        /\ \E done \in BOOLEAN : GoesTo("stopChildren", Top.left, Top.who, done)
    BY <1>5, ChildStoppedGoes
  <2>2. Top.pc \notin Starting /\ Top.pc # "locate"
    BY <2>1 DEF Starting
  <2>3. PICK pc, left, who : pc = "stopChildren" /\ left = Top.left /\ who = Top.who
    OBVIOUS
  <2>4. pc # "refused" /\ \E done \in BOOLEAN : GoesTo(pc, left, who, done)
    BY <2>1, <2>3
  <2> QED BY <2>1, <2>2, <2>4, GoesToRefused
<1>6. CASE StopChildrenReturn
  <2>1. stack # <<>> /\ Top.pc = "stopChildren" /\ stack' = Returned(~Top.done)
    BY <1>6 DEF StopChildrenReturn, At, Return, Returned
  <2>2. Top.pc \notin Starting /\ Top.pc # "locate"
    BY <2>1 DEF Starting
  <2>3. PICK ok \in BOOLEAN : ok = ~Top.done
    OBVIOUS
  <2> QED BY <2>1, <2>2, <2>3, ReturnRefused
<1> QED BY <1>1, <1>2, <1>3, <1>4, <1>5, <1>6 DEF StopStep

LEMMA RefuseRefused ==
  ASSUME HdbInv, RefusedNow, Refuse
  PROVE  RefusedNow'
<1>1. /\ AtRelease /\ Top.pc \in {"uninstall", "reinstall"}
      /\ CallsFrom("refused", Top.left, Top.who, Top.done, Connect(Top.handle))
  BY RefuseGoes
<1>2. stack # <<>> /\ Top.handle \in Handle /\ Top.pc \notin Starting /\ Top.pc # "locate"
  BY <1>1, LookingTop DEF Starting
<1>3. PICK h, g, e, t, n :
        h = Top.handle /\ g = Connect(h) /\ e = db' /\ t = stack' /\ n = Len(stack)
  OBVIOUS
<1>4. PICK f \in Frames : t = Pushed(f, g) /\ f.pc = "refused" /\ f.handle = h
  BY <1>1, <1>3 DEF CallsFrom, Has
<1>5. g \in Frames /\ g.pc = "connect" /\ g.handle = h /\ g.left = Driver
  BY <1>2, <1>3, ConnectIs, ConnectHas
<1>6. Goes(t) /\ Len(t) = n + 1 /\ t[n] = f /\ t[n + 1] = g
  BY <1>2, <1>3, <1>4, <1>5, PushGoes
<1>7. n \in Nat /\ n >= 1
  BY <1>2, <1>3, CallersIs DEF HdbInv, FramesOK
<1>8. Connecting(e, g)
  BY <1>5, Names DEF Connecting, Connected
<1>9. Reconnected(e, t)
  <2> SUFFICES ASSUME NEW i \in 1..Len(t), t[i].pc = "refused" PROVE Reconnects(e, t, i)
    BY DEF Reconnected
  <2>1. i = n
    <3>1. i \in 1..(n - 1) \/ i = n \/ i = n + 1
      BY <1>6, <1>7
    <3>2. \A j \in 1..(n - 1) : t[j].pc # "refused"
      BY <1>2, <1>3, <1>6, NoneBelow DEF Goes
    <3> QED BY <1>5, <1>6, <3>1, <3>2
  <2>2. i + 1 = n + 1 /\ i < n + 1 /\ \A j \in 1..(n + 1) : ~(i + 1 < j)
    BY <1>7, <2>1
  <2> QED BY <1>4, <1>5, <1>6, <1>8, <2>1, <2>2 DEF Reconnects, Starting
<1> QED BY <1>3, <1>9, Refusing

LEMMA ReleaseStepRefused ==
  ASSUME HdbInv, RefusedNow, ReleaseStep
  PROVE  RefusedNow'
<1>1. CASE DisconnectUser
  <2>1. /\ stack # <<>> /\ Top.pc \in Looking
        /\ \E agents \in SUBSET Driver :
             CallsFrom(Top.pc, Top.left, Top.who, TRUE, Disconnect(Top.handle, agents))
    BY <1>1, DisconnectUserGoes
  <2>2. Top.handle \in Handle
    BY <1>1, LookingTop DEF DisconnectUser
  <2>3. PICK agents \in SUBSET Driver :
          CallsFrom(Top.pc, Top.left, Top.who, TRUE, Disconnect(Top.handle, agents))
    BY <2>1
  <2>4. PICK pc, left, who, done, h, g :
          /\ pc = Top.pc /\ left = Top.left /\ who = Top.who /\ done = TRUE /\ h = Top.handle
          /\ g = Disconnect(h, agents)
    OBVIOUS
  <2>5. CallsFrom(pc, left, who, done, g)
    BY <2>3, <2>4
  <2>6. FrameOK(g) /\ g.pc # "refused"
    BY <2>2, <2>4, DisconnectIs
  <2>7. Top.pc \notin Starting /\ Top.pc # "locate" /\ pc # "refused"
    BY <2>1, <2>4 DEF Looking, Starting
  <2> QED BY <2>1, <2>5, <2>6, <2>7, CallsFromRefused
<1>2. CASE NotAdmitted \/ Refused
  <2>1. stack # <<>> /\ Top.pc \in Looking \cup {"refused"} /\ stack' = Returned(FALSE)
    BY <1>2 DEF NotAdmitted, Refused, AtRelease, At, Return, Returned, Looking
  <2>2. Top.pc \notin Starting /\ Top.pc # "locate"
    BY <2>1 DEF Starting, Looking
  <2>3. PICK ok \in BOOLEAN : ok = FALSE
    OBVIOUS
  <2> QED BY <2>1, <2>2, <2>3, ReturnRefused
<1>3. CASE Refuse
  BY <1>3, RefuseRefused
<1>4. CASE CoreUninstallProtocolInterface \/ ReinstallNotify \/ CoreOpenProtocolExclusive
  <2>1. /\ stack # <<>> /\ Top.pc \in {"uninstall", "exclusive", "reconnected"}
        /\ stack' = Returned(TRUE)
    BY <1>4 DEF CoreUninstallProtocolInterface, ReinstallNotify, CoreOpenProtocolExclusive,
       Released, AtRelease, At, Return, Returned
  <2>2. Top.pc \notin Starting /\ Top.pc # "locate"
    BY <2>1 DEF Starting
  <2>3. PICK ok \in BOOLEAN : ok = TRUE
    OBVIOUS
  <2> QED BY <2>1, <2>2, <2>3, ReturnRefused
<1>5. CASE CoreReinstallProtocolInterface
  <2>1. /\ AtRelease /\ Top.pc = "reinstall"
        /\ CallsFrom("reconnected", Top.left, Top.who, Top.done, Connect(Top.handle))
    BY <1>5, CoreReinstallProtocolInterfaceGoes
  <2>2. stack # <<>> /\ Top.handle \in Handle
    BY <2>1, LookingTop
  <2>3. PICK pc, left, who, done, h, g :
          /\ pc = "reconnected" /\ left = Top.left /\ who = Top.who /\ done = Top.done
          /\ h = Top.handle /\ g = Connect(h)
    OBVIOUS
  <2>4. CallsFrom(pc, left, who, done, g) /\ pc # "refused"
    BY <2>1, <2>3
  <2>5. FrameOK(g) /\ g.pc # "refused"
    BY <2>2, <2>3, ConnectIs, ConnectHas
  <2>6. Top.pc \notin Starting /\ Top.pc # "locate"
    BY <2>1 DEF Starting
  <2> QED BY <2>2, <2>4, <2>5, <2>6, CallsFromRefused
<1> QED BY <1>1, <1>2, <1>3, <1>4, <1>5 DEF ReleaseStep

LEMMA CallRefused ==
  ASSUME HdbInv, RefusedNow, Call
  PROVE  RefusedNow'
<1>1. PICK e, t : e = db' /\ t = stack' /\ Begun(t)
  BY CallGoes
<1>2. Reconnected(e, t)
  BY <1>1 DEF Begun, Looking, Reconnected
<1> QED BY <1>1, <1>2, Refusing

LEMMA CallbackReturnRefused ==
  ASSUME HdbInv, RefusedNow, CallbackReturn
  PROVE  RefusedNow'
<1>1. stack # <<>> /\ Top.pc = "callback" /\ stack' = Callers
  BY DEF CallbackReturn, At
<1>2. PICK n, t : n = Len(stack) /\ t = stack'
  OBVIOUS
<1>3. n \in Nat /\ Len(t) = n - 1
  BY <1>1, <1>2, CallersIs DEF HdbInv, FramesOK
<1>4. \A i \in 1..Len(t) : ~(i >= n)
  BY <1>3
<1>5. Top.pc \notin Starting /\ Top.pc # "locate"
  BY <1>1 DEF Starting
<1> QED BY <1>1, <1>2, <1>4, <1>5, OnwardRefused

\* What has been connected rests on the interfaces and their openings.
LEMMA QuietReconnects ==
  ASSUME NEW d, NEW e, Quiets(d, e), NEW s, NEW i, Reconnects(d, s, i)
  PROVE  Reconnects(e, s, i)
<1>1. \A x, y, a : Live(e, x, y) = Live(d, x, y) /\ With(e, x, y, a) = With(d, x, y, a)
                   /\ Manages(e, a, x, y) = Manages(d, a, x, y)
  BY DEF Quiets, Live, With, Manages
<1>2. \A x : NewPartitions(e, x) = NewPartitions(d, x)
  BY <1>1 DEF NewPartitions
<1>3. \A x : DiskUsed(e, x) = DiskUsed(d, x) /\ BusUsed(e, x) = BusUsed(d, x)
  BY <1>1, <1>2 DEF DiskUsed, BusUsed, UsedIn, OnBus
<1>4. \A x, y : Supported(e, y, x) = Supported(d, y, x)
  BY <1>1 DEF Supported, CanManage
<1>5. \A f : Connecting(d, f) => Connecting(e, f)
  BY <1>1, <1>3, <1>4 DEF Connecting
<1> QED BY <1>3, <1>5 DEF Reconnects

LEMMA LocateHandleRefused ==
  ASSUME HdbInv, RefusedNow, LocateHandle
  PROVE  RefusedNow'
<1>1. PICK e : e = db' /\ Quiets(db, e)
  BY LocateStill
<1>2. PICK t : t = stack' /\ t = stack
  BY DEF LocateHandle
<1>3. Reconnected(e, t)
  BY <1>1, <1>2, QuietReconnects DEF RefusedNow, Reconnected
<1> QED BY <1>1, <1>2, <1>3, Refusing

LEMMA DispatchRefused ==
  ASSUME HdbInv, RefusedNow, Dispatch
  PROVE  RefusedNow'
<1>1. PICK e : e = db' /\ Quiets(db, e)
  BY DispatchGoes
<1>2. PICK f \in Frames : f.pc = "locate" /\ stack' = Append(stack, f)
  BY DispatchGoes
<1>3. PICK n, s, t : n = Len(stack) /\ s = stack /\ t = Append(stack, f)
  OBVIOUS
<1>4. s \in Seq(Frames) /\ n = Len(s) /\ n \in Nat
  BY <1>3 DEF HdbInv, FramesOK
<1>5. /\ t \in Seq(Frames) /\ Len(t) = n + 1 /\ t[n + 1] = f
      /\ \A i \in 1..n : t[i] = s[i]
  BY <1>2, <1>3, <1>4, AppendProperties
<1>6. Reconnected(e, t)
  <2> SUFFICES ASSUME NEW i \in 1..Len(t), t[i].pc = "refused" PROVE Reconnects(e, t, i)
    BY DEF Reconnected
  <2>1. i \in 1..n /\ i < n + 1
    <3>1. i \in 1..n \/ i = n + 1
      BY <1>4, <1>5
    <3>2. i # n + 1
      BY <1>2, <1>5
    <3> QED BY <1>4, <3>1, <3>2
  <2>2. Reconnects(e, s, i)
    <3>1. Reconnects(db, s, i)
      BY <1>3, <1>5, <2>1 DEF RefusedNow, Reconnected
    <3> QED BY <1>1, <3>1, QuietReconnects
  <2>3. \A j \in 1..(n + 1) : j \in 1..n \/ j = n + 1
    BY <1>4
  <2>4. i + 1 \in 1..n \/ ~(i < n)
    BY <1>4, <2>1
  <2>5. CASE /\ i < n /\ s[i + 1].pc \in Starting /\ s[i + 1].handle = s[i].handle
             /\ Connecting(e, s[i + 1])
             /\ \A j \in 1..n : i + 1 < j => s[j].pc = "locate"
    <3>1. t[i + 1] = s[i + 1] /\ t[i] = s[i]
      BY <1>5, <2>1, <2>4, <2>5
    <3>2. \A j \in 1..Len(t) : i + 1 < j => t[j].pc = "locate"
      BY <1>2, <1>5, <2>3, <2>5
    <3> QED BY <1>5, <2>1, <2>5, <3>1, <3>2 DEF Reconnects
  <2>6. CASE /\ DiskUsed(e, s[i].handle) /\ BusUsed(e, s[i].handle)
             /\ \A j \in 1..n : i < j =>
                  \/ s[j].pc = "locate"
                  \/ s[j].pc \in Starting /\ PathLength[s[i].handle] < PathLength[s[j].handle]
    <3>1. t[i] = s[i]
      BY <1>5, <2>1
    <3>2. \A j \in 1..Len(t) : i < j =>
                  \/ t[j].pc = "locate"
                  \/ t[j].pc \in Starting /\ PathLength[t[i].handle] < PathLength[t[j].handle]
      BY <1>2, <1>5, <2>3, <2>6, <3>1
    <3> QED BY <2>6, <3>1, <3>2 DEF Reconnects
  <2> QED BY <1>4, <2>2, <2>5, <2>6 DEF Reconnects
<1>7. t = stack'
  BY <1>2, <1>3
<1> QED BY <1>1, <1>6, <1>7, Refusing

LEMMA LocateNotFoundRefused ==
  ASSUME HdbInv, RefusedNow, LocateNotFound
  PROVE  RefusedNow'
<1>1. stack # <<>> /\ Top.pc = "locate" /\ UNCHANGED db /\ stack' = Callers
  BY DEF LocateNotFound, At
<1>2. PICK n, s, t, e : n = Len(stack) /\ s = stack /\ t = stack' /\ e = db'
  OBVIOUS
<1>3. /\ n \in Nat /\ n >= 1 /\ Top = s[n]
      /\ t \in Seq(Frames) /\ Len(t) = n - 1 /\ \A i \in 1..(n - 1) : t[i] = s[i]
  BY <1>1, <1>2, CallersIs DEF HdbInv, FramesOK
<1>4. Reconnected(e, t)
  <2> SUFFICES ASSUME NEW i \in 1..(n - 1), s[i].pc = "refused" PROVE Reconnects(e, t, i)
    BY <1>3 DEF Reconnected
  <2>1. i \in 1..n /\ i < n /\ (i + 1 = n \/ (i + 1 \in 1..(n - 1) /\ i < n - 1))
    BY <1>3
  <2>2. Reconnects(e, s, i)
    <3>1. Reconnects(db, s, i)
      BY <1>2, <2>1 DEF RefusedNow, Reconnected
    <3>2. Quiets(db, e)
      BY <1>1, <1>2 DEF Quiets
    <3> QED BY <3>1, <3>2, QuietReconnects
  <2>3. \A j \in 1..(n - 1) : j \in 1..n
    BY <1>3
  <2>4. CASE /\ i < n /\ s[i + 1].pc \in Starting /\ s[i + 1].handle = s[i].handle
             /\ Connecting(e, s[i + 1])
             /\ \A j \in 1..n : i + 1 < j => s[j].pc = "locate"
    <3>1. i + 1 \in 1..(n - 1) /\ i < n - 1
      BY <1>1, <1>3, <2>1, <2>4 DEF Starting
    <3>2. t[i + 1] = s[i + 1] /\ t[i] = s[i]
      BY <1>3, <3>1
    <3>3. \A j \in 1..Len(t) : i + 1 < j => t[j].pc = "locate"
      BY <1>3, <2>3, <2>4
    <3> QED BY <1>3, <2>4, <3>1, <3>2, <3>3 DEF Reconnects
  <2>5. CASE /\ DiskUsed(e, s[i].handle) /\ BusUsed(e, s[i].handle)
             /\ \A j \in 1..n : i < j =>
                  \/ s[j].pc = "locate"
                  \/ s[j].pc \in Starting /\ PathLength[s[i].handle] < PathLength[s[j].handle]
    <3>1. t[i] = s[i]
      BY <1>3
    <3>2. \A j \in 1..Len(t) : i < j =>
                  \/ t[j].pc = "locate"
                  \/ t[j].pc \in Starting /\ PathLength[t[i].handle] < PathLength[t[j].handle]
      BY <1>3, <2>3, <2>5, <3>1
    <3> QED BY <2>5, <3>1, <3>2 DEF Reconnects
  <2> QED BY <1>2, <2>2, <2>4, <2>5 DEF Reconnects
<1> QED BY <1>2, <1>4, Refusing

\* Function i, refused, is being connected by f, or has been and f connects a child of it.
Restored(d, h) == DiskUsed(d, h) /\ BusUsed(d, h)
RestoredBy(d, i, f) ==
  \/ i + 1 = Len(stack) /\ f.handle = stack[i].handle /\ Connecting(d, f)
  \/ Restored(d, stack[i].handle) /\ PathLength[stack[i].handle] < PathLength[f.handle]
Overlaid(i) ==
  \A j \in 1..(Len(stack) - 1) : i < j =>
    \/ stack[j].pc = "locate"
    \/ stack[j].pc \in Starting /\ PathLength[stack[i].handle] < PathLength[stack[j].handle]

LEMMA Underneath ==
  ASSUME HdbInv, RefusedNow, stack # <<>>, Top.pc \in Starting,
         NEW i \in 1..(Len(stack) - 1), stack[i].pc = "refused"
  PROVE  Overlaid(i) /\ RestoredBy(db, i, Top) /\ stack[i].handle \in Handle
<1>1. PICK n, s : n = Len(stack) /\ s = stack
  OBVIOUS
<1>2. n \in Nat /\ n >= 1 /\ Top = s[n]
  BY <1>1, CallersIs DEF HdbInv, FramesOK
<1>3. /\ i \in 1..n /\ n \in 1..n /\ i < n /\ (i + 1 = n \/ i + 1 < n)
      /\ \A j \in 1..(n - 1) : j \in 1..n /\ (i < j => i + 1 = j \/ i + 1 < j)
  BY <1>1, <1>2
<1>4. FrameOK(s[i])
  BY <1>1, <1>3 DEF HdbInv, FramesOK
<1>5. s[i].handle \in Handle
  BY <1>1, <1>4 DEF FrameOK, Outside
<1>6. Reconnects(db, s, i)
  BY <1>1, <1>3 DEF RefusedNow, Reconnected
<1>7. CASE /\ s[i + 1].pc \in Starting /\ s[i + 1].handle = s[i].handle
           /\ Connecting(db, s[i + 1])
           /\ \A j \in 1..n : i + 1 < j => s[j].pc = "locate"
  <2>1. i + 1 = n
    <3> SUFFICES ASSUME i + 1 < n PROVE FALSE
      BY <1>3
    <3> QED BY <1>2, <1>3, <1>7 DEF Starting
  <2>2. Overlaid(i)
    <3> SUFFICES ASSUME NEW j \in 1..(n - 1) PROVE ~(i < j)
      BY <1>1 DEF Overlaid
    <3> QED BY <1>2, <1>3, <2>1
  <2>3. RestoredBy(db, i, Top)
    BY <1>1, <1>2, <1>7, <2>1 DEF RestoredBy
  <2> QED BY <1>1, <1>5, <2>2, <2>3
<1>8. CASE /\ DiskUsed(db, s[i].handle) /\ BusUsed(db, s[i].handle)
           /\ \A j \in 1..n : i < j =>
                \/ s[j].pc = "locate"
                \/ s[j].pc \in Starting /\ PathLength[s[i].handle] < PathLength[s[j].handle]
  <2>1. Overlaid(i)
    BY <1>1, <1>3, <1>8 DEF Overlaid
  <2>2. PathLength[s[i].handle] < PathLength[Top.handle]
    BY <1>2, <1>3, <1>8 DEF Starting
  <2> QED BY <1>1, <1>5, <1>8, <2>1, <2>2 DEF RestoredBy, Restored
<1> QED BY <1>1, <1>6, <1>7, <1>8 DEF Reconnects

\* Functions that connect come in place of the running one.
LEMMA OverheadRefused ==
  ASSUME HdbInv, RefusedNow, stack # <<>>, Top.pc \in Starting,
         NEW e, e = db', NEW t, t = stack', Goes(t),
         \A j \in 1..Len(t) : j >= Len(stack) => t[j].pc \in Starting,
         \A i \in 1..(Len(stack) - 1) : stack[i].pc = "refused" =>
           \/ Len(t) = Len(stack) /\ RestoredBy(e, i, t[Len(stack)])
           \/ /\ Restored(e, stack[i].handle)
              /\ \A j \in 1..Len(t) : j >= Len(stack) =>
                   PathLength[stack[i].handle] < PathLength[t[j].handle]
  PROVE  RefusedNow'
<1>1. PICK n, s, m : n = Len(stack) /\ s = stack /\ m = Len(t)
  OBVIOUS
<1>2. /\ n \in Nat /\ n >= 1 /\ m \in Nat /\ n <= m
      /\ \A j \in 1..(n - 1) : t[j] = s[j]
  BY <1>1 DEF HdbInv, FramesOK, Goes
<1>3. \A j \in 1..m : j \in 1..(n - 1) \/ j >= n
  BY <1>2
<1> SUFFICES ASSUME NEW i \in 1..m, t[i].pc = "refused" PROVE Reconnects(e, t, i)
  BY <1>1, Refusing DEF Reconnected
<1>4. i \in 1..(n - 1) /\ t[i] = s[i] /\ s[i].pc = "refused"
  BY <1>1, <1>2, <1>3 DEF Starting
<1>5. /\ i < m /\ \A j \in 1..m : i < j => j \in 1..(n - 1) \/ (j >= n /\ j \in 1..m)
  BY <1>2, <1>4
<1>6. Overlaid(i)
  BY <1>1, <1>4, Underneath
<1>7. \A j \in 1..(n - 1) : i < j =>
        t[j].pc = "locate" \/ (t[j].pc \in Starting /\ PathLength[t[i].handle] < PathLength[t[j].handle])
  BY <1>1, <1>2, <1>4, <1>6 DEF Overlaid
<1>8. ASSUME Restored(e, s[i].handle),
             \A j \in 1..m : j >= n => PathLength[s[i].handle] < PathLength[t[j].handle]
      PROVE  Reconnects(e, t, i)
  <2>1. \A j \in 1..m : i < j =>
          \/ t[j].pc = "locate"
          \/ t[j].pc \in Starting /\ PathLength[t[i].handle] < PathLength[t[j].handle]
    BY <1>1, <1>4, <1>5, <1>7, <1>8
  <2> QED BY <1>1, <1>4, <1>8, <2>1 DEF Reconnects, Restored
<1>9. CASE m = n /\ RestoredBy(e, i, t[n])
  <2>1. CASE i + 1 = n /\ t[n].handle = s[i].handle /\ Connecting(e, t[n])
    <3>1. i + 1 \in 1..m /\ i + 1 >= n
      BY <1>2, <2>1, <1>9
    <3>2. t[i + 1].pc \in Starting /\ t[i + 1].handle = t[i].handle /\ Connecting(e, t[i + 1])
      BY <1>1, <1>4, <2>1, <3>1
    <3>3. \A j \in 1..m : ~(i + 1 < j)
      BY <1>2, <1>9, <2>1
    <3> QED BY <1>1, <1>5, <3>2, <3>3 DEF Reconnects
  <2>2. CASE Restored(e, s[i].handle) /\ PathLength[s[i].handle] < PathLength[t[n].handle]
    <3>1. \A j \in 1..m : j >= n => j = n
      BY <1>2, <1>9
    <3> QED BY <1>8, <2>2, <3>1
  <2> QED BY <1>1, <1>9, <2>1, <2>2 DEF RestoredBy
<1> QED BY <1>1, <1>4, <1>8, <1>9

LEMMA StartingRefused ==
  ASSUME HdbInv, RefusedNow, stack # <<>>, Top.pc \in Starting,
         NEW f \in Frames, f.pc \in Starting, f.handle = Top.handle, stack' = Append(Callers, f),
         NEW e, e = db', Connecting(db, Top) => Connecting(e, f),
         \A h \in Handle :
           PathLength[h] < PathLength[Top.handle] /\ Restored(db, h) => Restored(e, h)
  PROVE  RefusedNow'
<1>1. PICK n, t : n = Len(stack) /\ t = stack'
  OBVIOUS
<1>2. Goes(t) /\ Len(t) = n /\ t[n] = f
  BY <1>1, GotoGoes
<1>3. n \in Nat
  BY <1>1 DEF HdbInv, FramesOK
<1>4. \A i \in 1..Len(t) : i >= n => i = n
  BY <1>2, <1>3
<1>5. ASSUME NEW i \in 1..(n - 1), stack[i].pc = "refused" PROVE RestoredBy(e, i, f)
  <2>1. RestoredBy(db, i, Top) /\ stack[i].handle \in Handle
    BY <1>1, <1>5, Underneath
  <2> QED BY <2>1 DEF RestoredBy
<1>6. \A j \in 1..Len(t) : j >= n => t[j].pc \in Starting
  BY <1>2, <1>4
<1> QED BY <1>1, <1>2, <1>5, <1>6, OverheadRefused

LEMMA ConnectSupportedRefused ==
  ASSUME HdbInv, RefusedNow, ConnectSupported
  PROVE  RefusedNow'
<1>1. /\ stack # <<>> /\ Top.pc = "connect" /\ Top.handle \in Handle /\ UNCHANGED db
      /\ \E driver \in Top.left :
           /\ GoesTo("start", Top.left \ {driver}, driver, Top.done)
           /\ Supported(db, driver, Top.handle)
  BY ConnectSupportedGoes
<1>2. PICK driver \in Top.left : /\ GoesTo("start", Top.left \ {driver}, driver, Top.done)
                                 /\ Supported(db, driver, Top.handle)
  BY <1>1
<1>3. PICK f \in Frames : /\ stack' = Append(Callers, f)
                          /\ f.pc = "start" /\ f.handle = Top.handle
                          /\ f.left = Top.left \ {driver} /\ f.who = driver
  BY <1>2 DEF GoesTo, Has
<1>4. PICK e : e = db' /\ e = db
  BY <1>1
<1>5. Top.pc \in Starting /\ f.pc \in Starting
  BY <1>1, <1>3 DEF Starting
<1>6. Connected(f) = Connected(Top)
  <2>1. f.left \cup {f.who} = Top.left
    BY <1>2, <1>3
  <2>2. Connected(f) = Driver \ (f.left \cup {f.who})
    BY <1>3 DEF Connected
  <2>3. Connected(Top) = Driver \ Top.left
    BY <1>1 DEF Connected
  <2> QED BY <2>1, <2>2, <2>3
<1>7. Connecting(db, Top) => Connecting(e, f)
  BY <1>2, <1>3, <1>4, <1>6 DEF Connecting
<1> QED BY <1>1, <1>3, <1>4, <1>5, <1>7, StartingRefused

LEMMA UsedViews ==
  ASSUME NEW d, NEW h \in Handle
  PROVE  /\ DiskUsed(d, h) <=> (Live(d, h, BlockIo) => OnDisk(d, h) \/ Claimed(d, h, BlockIo))
         /\ BusUsed(d, h) <=>
              /\ (Live(d, h, DiskIo) => OnBus(d, h) \/ Claimed(d, h, DiskIo)) \/ Partitions[h] = {}
              /\ OnBus(d, h) => \A p \in Partitions[h] : Live(d, p, BlockIo)
<1>1. NewPartitions(d, h) = {} <=> \A p \in Partitions[h] : Live(d, p, BlockIo)
  BY DEF NewPartitions
<1> QED BY <1>1 DEF DiskUsed, BusUsed, UsedIn, OnDisk, OnBus, Claimed

\* Start builds a layer on the interfaces of k, or none.
Builds(d, k, e) ==
  \/ Still(d, e) /\ ClaimsSame(d, e)
  \/ DiskIoUp(d, k, e)
  \/ PartitionsUp(d, k, e)

\* Nearer the disk nothing changes.
LEMMA RestoredBelow ==
  ASSUME NEW d, NEW k \in Handle, NEW e, Builds(d, k, e),
         NEW h \in Handle, PathLength[h] < PathLength[k], Restored(d, h)
  PROVE  Restored(e, h)
<1>1. PICK a, b : a = PathLength[h] /\ b = PathLength[k]
  OBVIOUS
<1>2. a \in Nat /\ b \in Nat /\ a < b /\ \A p \in Partitions[k] : PathLength[p] = b + 1
  BY <1>1, PartitionAssumption
<1>3. h # k /\ h \notin Partitions[k] /\ BlockIo \in Guid /\ DiskIo \in Guid
      /\ Partitions[h] \subseteq Handle
  BY <1>1, <1>2, Names, PartitionsAre
<1>4. /\ \A g \in Guid : Live(e, h, g) <=> Live(d, h, g)
      /\ \A p \in Handle : Live(d, p, BlockIo) => Live(e, p, BlockIo)
  BY <1>3 DEF Builds, Still, LiveSame, DiskIoUp, PartitionsUp
<1>5. (OnDisk(e, h) <=> OnDisk(d, h)) /\ (OnBus(e, h) <=> OnBus(d, h))
  BY <1>3 DEF Builds, Still, DisksSame, BusesSame, DiskIoUp, PartitionsUp
<1>6. \A g \in Guid : Claimed(e, h, g) <=> Claimed(d, h, g)
  BY <1>3 DEF Builds, ClaimsSame, DiskIoUp, PartitionsUp
<1> QED BY <1>3, <1>4, <1>5, <1>6, UsedViews DEF Restored

LEMMA DiskStarts ==
  ASSUME NEW d, DbInv(d), Stands(d), NEW h \in Handle, Supported(d, DiskIoDxe, h),
         NEW e, e = Start(d, DiskIoDxe, h)
  PROVE  ~Live(d, h, DiskIo) /\ Builds(d, h, e) /\ DiskUsed(e, h)
<1>1. CanManage(d, h, BlockIo)
  BY DEF Supported
<1>2. Opened(DiskIoDxe, h, "driver").attr = "driver"
  BY Names, OpenedIs
<1>3. ~OnDisk(d, h)
  BY <1>1, <1>2 DEF CanManage, OnDisk, Manages, With
<1>4. ~Live(d, h, DiskIo)
  BY <1>3 DEF Stands
<1>5. DiskIoStarted(d, h, e)
  BY <1>1, <1>4, StartDiskIoIs DEF Start
<1>6. DiskIoUp(d, h, e)
  BY <1>5, DiskIoRises
<1>7. OnDisk(e, h)
  BY <1>6 DEF DiskIoUp
<1> QED BY <1>4, <1>6, <1>7, UsedViews DEF Builds

LEMMA BusStarts ==
  ASSUME NEW d, DbInv(d), Managed(d), NEW h \in Handle, Supported(d, PartitionDxe, h),
         NEW e, e = Start(d, PartitionDxe, h)
  PROVE  /\ Builds(d, h, e) /\ BusUsed(e, h) /\ Live(e, h, DiskIo)
         /\ DiskUsed(d, h) => DiskUsed(e, h)
<1>1. BlockIo \in Guid /\ DiskIo \in Guid /\ BlockIo # DiskIo /\ h \notin Partitions[h]
      /\ Partitions[h] \subseteq Handle /\ PartitionDxe \in Driver /\ PartitionDxe # DiskIoDxe
  BY Names, PartitionsAre
<1>2. Live(d, h, DiskIo)
  <2>1. Manages(d, PartitionDxe, h, DiskIo) \/ CanManage(d, h, DiskIo)
    BY <1>1 DEF Supported
  <2>2. OpenOK(h, DiskIo, Live(d, h, DiskIo), d.open[<<h, DiskIo>>])
    BY <1>1 DEF DbInv
  <2> QED BY <2>1, <2>2 DEF Manages, OpenOK, CanManage
<1>3. PICK new : new = NewPartitions(d, h)
  OBVIOUS
<1>4. \/ e = Add(d, h, BlockIo, Opened(PartitionDxe, h, "get")) /\ new = {}
      \/ PartitionStarted(d, h, new, e)
  <2>1. \/ /\ e = Add(d, h, BlockIo, Opened(PartitionDxe, h, "get"))
           /\ ~Supported(d, PartitionDxe, h) \/ new = {}
        \/ PartitionStarted(d, h, new, e)
    BY <1>1, <1>3, StartPartitionIs DEF Start
  <2> QED BY <2>1
<1>5. CASE e = Add(d, h, BlockIo, Opened(PartitionDxe, h, "get")) /\ new = {}
  <2>1. PICK g \in Guid : g = BlockIo
    BY <1>1
  <2>2. PICK agent \in Driver : agent = PartitionDxe
    BY <1>1
  <2>3. Still(d, e) /\ ClaimsSame(d, e)
    BY <1>5, <2>1, <2>2, GetStill
  <2>4. \A p \in Partitions[h] : Live(d, p, BlockIo)
    BY <1>3, <1>5 DEF NewPartitions
  <2>5. OnBus(d, h) \/ Partitions[h] = {}
    BY <2>4 DEF Managed, Bare
  <2>6. /\ \A x \in Handle, g1 \in Guid : Live(e, x, g1) <=> Live(d, x, g1)
        /\ OnBus(e, h) <=> OnBus(d, h)
        /\ OnDisk(e, h) <=> OnDisk(d, h)
        /\ Claimed(e, h, BlockIo) <=> Claimed(d, h, BlockIo)
    BY <1>1, <2>3 DEF Still, LiveSame, BusesSame, DisksSame, ClaimsSame
  <2>7. BusUsed(e, h)
    BY <1>1, <2>4, <2>5, <2>6, UsedViews
  <2>8. DiskUsed(d, h) => DiskUsed(e, h)
    BY <1>1, <2>6, UsedViews
  <2> QED BY <1>1, <1>2, <2>3, <2>6, <2>7, <2>8 DEF Builds
<1>6. CASE PartitionStarted(d, h, new, e)
  <2>1. PartitionsUp(d, h, e)
    BY <1>3, <1>6, PartitionRises
  <2>2. /\ \A x \in Handle, y \in Guid :
             Live(e, x, y) <=> Live(d, x, y) \/ (x \in Partitions[h] /\ y = BlockIo)
        /\ OnBus(e, h)
        /\ OnDisk(e, h) <=> OnDisk(d, h)
        /\ Claimed(e, h, BlockIo) <=> Claimed(d, h, BlockIo)
    BY <1>1, <2>1 DEF PartitionsUp, DisksSame, ClaimsSame
  <2>3. BusUsed(e, h)
    BY <1>1, <2>2, UsedViews
  <2>4. DiskUsed(d, h) => DiskUsed(e, h)
    BY <1>1, <2>2, UsedViews
  <2> QED BY <1>1, <1>2, <2>1, <2>2, <2>3, <2>4 DEF Builds
<1> QED BY <1>4, <1>5, <1>6

LEMMA ConnectStartRefused ==
  ASSUME HdbInv, LayerInv, CalmNow, RefusedNow, ConnectStart
  PROVE  RefusedNow'
<1>1. /\ stack # <<>> /\ Top.pc = "start" /\ Top.handle \in Handle
      /\ db' = Start(db, Top.who, Top.handle)
      /\ GoesTo("connect", Top.left, Top.who, Top.done)
  BY ConnectStartGoes
<1>2. PICK d, e, h, driver : d = db /\ e = db' /\ h = Top.handle /\ driver = Top.who
  OBVIOUS
<1>3. /\ h \in Handle /\ e = Start(d, driver, h) /\ DbInv(d) /\ Stands(d) /\ Managed(d)
      /\ driver \in Driver
  BY <1>1, <1>2, TopFacts DEF HdbInv, LayerInv, Layered, CalmNow, Calm, FrameOK
<1>4. PICK f \in Frames : /\ stack' = Append(Callers, f)
                          /\ f.pc = "connect" /\ f.handle = h /\ f.left = Top.left
  BY <1>1, <1>2 DEF GoesTo, Has
<1>5. Top.pc \in Starting /\ f.pc \in Starting
  BY <1>1, <1>4 DEF Starting
<1>6. Builds(d, h, e)
  BY <1>2, <1>3, StartLayers DEF Builds
<1>7. \A x \in Handle : PathLength[x] < PathLength[h] /\ Restored(d, x) => Restored(e, x)
  BY <1>3, <1>6, RestoredBelow
<1>8. ASSUME Connecting(d, Top) PROVE Connecting(e, f)
  <2>1. Supported(d, driver, h)
    BY <1>1, <1>2, <1>8 DEF Connecting
  <2>2. \A x : x \in Connected(f) => x = driver \/ x \in Connected(Top)
    BY <1>1, <1>2, <1>4 DEF Connected
  <2>3. /\ DiskIoDxe \in Connected(Top) => DiskUsed(d, h)
        /\ PartitionDxe \in Connected(Top) => BusUsed(d, h) /\ Live(d, h, DiskIo)
    BY <1>2, <1>8 DEF Connecting
  <2>4. CASE driver = DiskIoDxe
    <3>1. ~Live(d, h, DiskIo) /\ DiskUsed(e, h)
      BY <1>3, <2>1, <2>4, DiskStarts
    <3>2. PartitionDxe \notin Connected(f)
      BY <2>2, <2>3, <2>4, <3>1, Names
    <3> QED BY <1>4, <3>1, <3>2 DEF Connecting
  <2>5. CASE driver = PartitionDxe
    <3>1. BusUsed(e, h) /\ Live(e, h, DiskIo) /\ (DiskUsed(d, h) => DiskUsed(e, h))
      BY <1>3, <2>1, <2>5, BusStarts
    <3>2. DiskIoDxe \in Connected(f) => DiskUsed(e, h)
      BY <2>2, <2>3, <2>5, <3>1, Names
    <3> QED BY <1>4, <3>1, <3>2 DEF Connecting
  <2> QED BY <1>3, <2>4, <2>5, Names
<1> QED BY <1>1, <1>2, <1>4, <1>5, <1>7, <1>8, StartingRefused

\* No driver is left to connect.
LEMMA DoneRestored ==
  ASSUME NEW d, DbInv(d), Stands(d), NEW f, f.pc = "connect", f.handle \in Handle,
         Connecting(d, f), ~ \E driver \in f.left : Supported(d, driver, f.handle),
         f.left \subseteq Driver
  PROVE  Restored(d, f.handle)
<1>1. PICK h : h = f.handle
  OBVIOUS
<1>2. h \in Handle /\ BlockIo \in Guid /\ DiskIo \in Guid /\ PartitionDxe # DiskIoDxe
  BY <1>1, Names
<1>3. /\ DiskIoDxe \in f.left \/ DiskIoDxe \in Connected(f)
      /\ PartitionDxe \in f.left \/ PartitionDxe \in Connected(f)
  BY Names DEF Connected
<1>4. ASSUME NEW g \in Guid, Live(d, h, g), ~Claimed(d, h, g), ~CanManage(d, h, g)
      PROVE  Manages(d, OwnerOf(g), h, g)
  <2>1. PICK i \in d.open[<<h, g>>] : i.attr = "driver"
    BY <1>4 DEF Claimed, CanManage, With
  <2>2. OpenOK(h, g, Live(d, h, g), d.open[<<h, g>>])
    BY <1>2, <1>4 DEF DbInv
  <2>3. i = Opened(OwnerOf(g), h, "driver")
    BY <2>1, <2>2 DEF OpenOK, ItemOK
  <2> QED BY <2>1, <2>3 DEF Manages
<1>5. DiskUsed(d, h)
  <2>1. CASE DiskIoDxe \in Connected(f)
    BY <1>1, <2>1 DEF Connecting
  <2>2. CASE DiskIoDxe \in f.left
    <3>1. ~CanManage(d, h, BlockIo)
      BY <1>1, <2>2 DEF Supported
    <3>2. Live(d, h, BlockIo) /\ ~Claimed(d, h, BlockIo) => OnDisk(d, h)
      BY <1>2, <1>4, <3>1, Names DEF OnDisk
    <3> QED BY <1>2, <3>2, UsedViews
  <2> QED BY <1>3, <2>1, <2>2
<1>6. BusUsed(d, h)
  <2>1. CASE PartitionDxe \in Connected(f)
    BY <1>1, <2>1 DEF Connecting
  <2>2. CASE PartitionDxe \in f.left
    <3>1. ~Supported(d, PartitionDxe, h)
      BY <1>1, <2>2
    <3>2. ~OnBus(d, h) /\ ~(CanManage(d, h, DiskIo) /\ Live(d, h, BlockIo))
      BY <1>2, <3>1 DEF Supported, OnBus
    <3>3. ASSUME Live(d, h, DiskIo), ~Claimed(d, h, DiskIo) PROVE FALSE
      <4>1. OnDisk(d, h)
        BY <1>2, <3>3 DEF Stands
      <4>2. OpenOK(h, BlockIo, Live(d, h, BlockIo), d.open[<<h, BlockIo>>])
        BY <1>2 DEF DbInv
      <4>3. Live(d, h, BlockIo)
        BY <4>1, <4>2 DEF OnDisk, Manages, OpenOK
      <4>4. Manages(d, OwnerOf(DiskIo), h, DiskIo)
        BY <1>2, <1>4, <3>2, <3>3, <4>3
      <4> QED BY <3>2, <4>4, Names DEF OnBus
    <3> QED BY <1>2, <3>2, <3>3, UsedViews
  <2> QED BY <1>3, <2>1, <2>2
<1> QED BY <1>1, <1>5, <1>6 DEF Restored

\* The running function has connected all there was, and returns.
LEMMA AnswerRefused ==
  ASSUME HdbInv, RefusedNow, stack # <<>>, Top.pc \in Starting,
         NEW e, e = db', NEW ok \in BOOLEAN, stack' = Returned(ok),
         \A i \in 1..(Len(stack) - 1) : stack[i].pc = "refused" => Restored(e, stack[i].handle)
  PROVE  RefusedNow'
<1>1. PICK n, s, t : n = Len(stack) /\ s = stack /\ t = stack'
  OBVIOUS
<1>2. Backs(t)
  BY <1>1, ReturnBacks
<1>3. /\ n \in Nat /\ n >= 1 /\ Len(t) = n - 1
      /\ \A j \in 1..(n - 2) : t[j] = s[j]
      /\ n > 1 => Alike(t[n - 1], s[n - 1])
  BY <1>1, <1>2 DEF HdbInv, FramesOK, Backs
<1>4. \A j \in 1..(n - 1) : j \in 1..(n - 2) \/ (j = n - 1 /\ n > 1)
  BY <1>3
<1>5. \A j \in 1..(n - 1) : t[j].pc = s[j].pc /\ t[j].handle = s[j].handle
  BY <1>3, <1>4 DEF Alike
<1> SUFFICES ASSUME NEW i \in 1..(n - 1), t[i].pc = "refused" PROVE Reconnects(e, t, i)
  BY <1>1, <1>3, Refusing DEF Reconnected
<1>6. Overlaid(i)
  BY <1>1, <1>5, Underneath
<1>7. \A j \in 1..Len(t) : i < j =>
        t[j].pc = "locate" \/ (t[j].pc \in Starting /\ PathLength[t[i].handle] < PathLength[t[j].handle])
  <2>1. \A j \in 1..(n - 1) : i < j =>
          s[j].pc = "locate" \/ (s[j].pc \in Starting /\ PathLength[s[i].handle] < PathLength[s[j].handle])
    BY <1>1, <1>6 DEF Overlaid
  <2> QED BY <1>3, <1>5, <2>1
<1>8. Restored(e, t[i].handle)
  BY <1>1, <1>5
<1> QED BY <1>7, <1>8 DEF Reconnects, Restored

LEMMA ConnectChildrenRefused ==
  ASSUME HdbInv, LayerInv, RefusedNow, ConnectChildren
  PROVE  RefusedNow'
<1>1. /\ stack # <<>> /\ Top.pc = "connect" /\ Top.handle \in Handle /\ UNCHANGED db
      /\ ~ \E driver \in Top.left : Supported(db, driver, Top.handle)
      /\ \E kids \in Seq(Handle) :
           /\ Range(kids) = ChildrenOf(db, Top.handle, Driver)
           /\ kids = <<>> => stack' = Returned(TRUE)
           /\ kids # <<>> => stack' = Callers \o Connects(kids)
  BY ConnectChildrenGoes
<1>2. PICK e : e = db' /\ e = db
  BY <1>1
<1>3. PICK kids \in Seq(Handle) :
           /\ Range(kids) = ChildrenOf(db, Top.handle, Driver)
           /\ kids = <<>> => stack' = Returned(TRUE)
           /\ kids # <<>> => stack' = Callers \o Connects(kids)
  BY <1>1
<1>4. PICK n, h, b : n = Len(stack) /\ h = Top.handle /\ b = PathLength[h]
  OBVIOUS
<1>5. Top.pc \in Starting /\ Top.left \subseteq Driver /\ DbInv(db) /\ Stands(db) /\ b \in Nat
  BY <1>1, <1>4, TopFacts, PartitionAssumption
     DEF Starting, FrameOK, HdbInv, LayerInv, Layered
<1>6. ASSUME NEW i \in 1..(n - 1), stack[i].pc = "refused"
      PROVE  Restored(e, stack[i].handle) /\ PathLength[stack[i].handle] \in Nat
             /\ PathLength[stack[i].handle] <= b
  <2>1. RestoredBy(db, i, Top) /\ stack[i].handle \in Handle
    BY <1>1, <1>4, <1>5, <1>6, Underneath
  <2>2. PICK a : a = PathLength[stack[i].handle]
    OBVIOUS
  <2>3. a \in Nat
    BY <2>1, <2>2, PartitionAssumption
  <2>4. CASE h = stack[i].handle /\ Connecting(db, Top)
    <3>1. Restored(db, h)
      BY <1>1, <1>4, <1>5, <2>4, DoneRestored
    <3> QED BY <1>2, <1>4, <2>2, <2>3, <2>4, <3>1
  <2>5. CASE Restored(db, stack[i].handle) /\ a < b
    BY <1>2, <1>5, <2>2, <2>3, <2>5
  <2> QED BY <1>4, <2>1, <2>2, <2>4, <2>5 DEF RestoredBy
<1>7. CASE kids = <<>>
  <2>1. PICK ok \in BOOLEAN : ok = TRUE
    OBVIOUS
  <2>2. stack' = Returned(ok)
    BY <1>3, <1>7, <2>1
  <2> QED BY <1>1, <1>2, <1>4, <1>5, <1>6, <2>2, AnswerRefused
<1>8. CASE kids # <<>>
  <2>1. PICK t : t = stack'
    OBVIOUS
  <2>2. Spreads(t, kids)
    BY <1>1, <1>3, <1>8, <2>1, ConnectsGo
  <2>3. ASSUME NEW j \in 1..Len(t), j >= n
        PROVE  t[j].pc \in Starting /\ PathLength[t[j].handle] = b + 1
    <3>1. PICK k \in 1..Len(kids) : t[j] = Connect(kids[k])
      BY <1>4, <2>2, <2>3 DEF Spreads
    <3>2. t[j].pc = "connect" /\ t[j].handle = kids[k]
      BY <3>1, ConnectHas
    <3>3. kids[k] \in Range(kids)
      BY <1>3 DEF Range
    <3>4. PICK agents : agents = Driver
      OBVIOUS
    <3>5. ChildrenOf(db, h, agents) \subseteq Partitions[h] /\ ChildrenOf(db, h, agents) \subseteq Handle
      BY <1>1, <1>4, <1>5, ChildrenAre
    <3>6. kids[k] \in Partitions[h]
      BY <1>3, <1>4, <3>3, <3>4, <3>5
    <3>7. PathLength[kids[k]] = b + 1
      BY <1>1, <1>4, <3>6, PartitionAssumption
    <3> QED BY <3>2, <3>7 DEF Starting
  <2>4. ASSUME NEW i \in 1..(n - 1), stack[i].pc = "refused",
               NEW j \in 1..Len(t), j >= n
        PROVE  PathLength[stack[i].handle] < PathLength[t[j].handle]
    <3>1. PICK a, c : a = PathLength[stack[i].handle] /\ c = PathLength[t[j].handle]
      OBVIOUS
    <3>2. a \in Nat /\ a <= b /\ c = b + 1
      BY <1>6, <2>3, <2>4, <3>1
    <3> QED BY <1>5, <3>1, <3>2
  <2>5. Goes(t)
    BY <2>2 DEF Spreads
  <2> QED BY <1>1, <1>2, <1>4, <1>5, <1>6, <2>1, <2>3, <2>4, <2>5, OverheadRefused
<1> QED BY <1>7, <1>8

LEMMA NextRefused ==
  ASSUME HdbInv, LayerInv, CalmInv, RefusedInv, [Next]_vars
  PROVE  RefusedInv'
<1>1. CASE UNCHANGED vars
  <2>1. UNCHANGED <<db, stack, interrupts>>
    BY <1>1 DEF vars, bounds
  <2> SUFFICES ASSUME Undisturbed' PROVE RefusedNow'
    BY DEF RefusedInv, RefusedNow
  <2>2. PICK e, t : e = db' /\ t = stack' /\ e = db /\ t = stack
    BY <2>1
  <2>3. Reconnected(e, t)
    BY <2>1, <2>2 DEF RefusedInv, Undisturbed
  <2> QED BY <2>2, <2>3, Refusing
<1>2. CASE Next
  <2> SUFFICES ASSUME Undisturbed' PROVE RefusedNow'
    BY DEF RefusedInv, RefusedNow
  <2>1. Undisturbed /\ ~Interrupt
    BY <1>2, Disturbs
  <2>2. CalmNow /\ RefusedNow
    BY <2>1 DEF CalmInv, CalmNow, RefusedInv, RefusedNow
  <2>3. CASE ConnectStep
    BY <2>2, <2>3, ConnectSupportedRefused, ConnectStartRefused, ConnectChildrenRefused
       DEF ConnectStep
  <2>4. CASE DisconnectStep
    BY <2>2, <2>4, DisconnectStepRefused
  <2>5. CASE StopStep
    BY <2>2, <2>5, StopStepRefused
  <2>6. CASE ReleaseStep
    BY <2>2, <2>6, ReleaseStepRefused
  <2>7. CASE CallbackStep
    BY <2>2, <2>7, CallbackReturnRefused, DispatchRefused, LocateHandleRefused,
       LocateNotFoundRefused DEF CallbackStep
  <2>8. CASE Call
    BY <2>2, <2>8, CallRefused
  <2> QED BY <1>2, <2>1, <2>3, <2>4, <2>5, <2>6, <2>7, <2>8 DEF Next, Continue
<1> QED BY <1>1, <1>2

\* The inductive invariant of an uninstall or a reinstall that is refused and calls
\* CoreConnectController: each driver that it has asked has its layer, and when it has
\* gone on to the children, nothing of that is taken down again.
THEOREM RefusedInvariant == Spec => []RefusedInv
<1>1. Init => RefusedInv
  <2> SUFFICES ASSUME Init PROVE Reconnected(db, stack)
    BY DEF RefusedInv
  <2>1. Len(stack) = 0
    BY DEF Init
  <2> QED BY <2>1 DEF Reconnected
<1>2. HdbInv /\ LayerInv /\ CalmInv /\ RefusedInv /\ [Next]_vars => RefusedInv'
  BY NextRefused
<1> QED BY <1>1, <1>2, HdbInvariant, LayerInvariant, CalmInvariant, PTL DEF Spec

\* When the CoreConnectController that CoreUninstallProtocolInterface or
\* CoreReinstallProtocolInterface calls before it returns an error comes back, the drivers
\* manage the controller again, up to the partitions, if no timer function has connected
\* in the middle of a service.
THEOREM RefusedCorrect == Spec => []RefusedIsReconnected
<1>1. HdbInv /\ RefusedInv => RefusedIsReconnected
  <2> SUFFICES ASSUME HdbInv, RefusedInv, stack # <<>>, Top.pc = "refused", Undisturbed
               PROVE  /\ Used(Top.handle, BlockIo, DiskIoDxe)
                      /\ Used(Top.handle, DiskIo, PartitionDxe) \/ Partitions[Top.handle] = {}
                      /\ Manages(db, PartitionDxe, Top.handle, DiskIo) =>
                           NewPartitions(db, Top.handle) = {}
    BY DEF RefusedIsReconnected, At
  <2>1. PICK n, s : n = Len(stack) /\ s = stack
    OBVIOUS
  <2>2. n \in 1..Len(s) /\ Top = s[n] /\ ~(n < Len(s))
    BY <2>1, CallersIs DEF HdbInv, FramesOK
  <2>3. Reconnects(db, s, n)
    BY <2>1, <2>2 DEF RefusedInv, Reconnected
  <2>4. DiskUsed(db, Top.handle) /\ BusUsed(db, Top.handle)
    BY <2>2, <2>3 DEF Reconnects
  <2> QED BY <2>4 DEF DiskUsed, BusUsed, UsedIn, OnBus, Used
<1> QED BY <1>1, HdbInvariant, RefusedInvariant, PTL
=============================================================================
