# A verification project for UDK2015

UDK2015 is a release of EDK II, Intel's implementation of UEFI firmware: 5584
files in C, assembly and Python, of which the firmware proper is a core (PEI,
DXE, SMM, runtime), a few hundred drivers and libraries, and a shell. This
directory holds TLA+ specifications of four of its parts, the runs in which TLC
checks them, and proofs that TLAPS checks:

- **events, timers and task priority levels of the DXE core**, the only
  scheduler the firmware has, and the ground on which every lock, callback,
  timeout and network driver stands;
- **the fault tolerant write driver**, the only protection of the variable
  store against a power failure in the middle of a flash update;
- **the UEFI variable store**, its main client, which keeps every setting of the
  platform and stays readable only by the order of its single-byte state writes;
- **the handle and protocol database with the driver model**, through which
  every driver finds every other, re-entered by the drivers it stops.

Paths below are relative to `src/`. `tlc -workers 2 -config X.cfg M` checks a
run, `tlapm M.tla` a module of proofs.

## 1. Inventory

The parts that hold the firmware's own logic, with the state each keeps, its
operations, and what makes it hard and correct. `PROJECT.json` lists all parts
with their status.

### Task priority levels and events (modelled)
`MdeModulePkg/Core/Dxe/Event/{Tpl,Event}.c`, `Core/Dxe/Library/Library.c`.
State: the current level `gEfiCurrentTpl`, the interrupt flag, the bit mask
`gEventPending`, one queue of notifications per level, the list of signal
events, and in each event `SignalCount`. Operations: RaiseTPL, RestoreTPL,
CreateEvent(Ex), SignalEvent, CheckEvent, WaitForEvent, CloseEvent. There is
one processor and one stack: a timer interrupt runs on top of whatever it
interrupts, and RestoreTPL calls the notification functions of every level it
unmasks, which call the services again. A lock is a raised level; nothing ever
blocks. Hard: interrupts between any two accesses, re-entrance from
notification functions, events closed while queued. Correct when notifications
nest strictly by level, no signal is lost, a service gives its caller the level
back, and nothing freed is used.

### Timers (modelled)
`Core/Dxe/Event/Timer.c` and the tick of `PcAtChipsetPkg/8254TimerDxe/Timer.c`.
State: the clock `mEfiSystemTime`, the ordered timer database `mEfiTimerList`,
trigger time and period of each event. Operations: SetTimer, the tick (which
reads the head of the database without its lock) and the notification
`CoreCheckTimers`, at TPL_HIGH_LEVEL-1, which fires what is due. Hard: ticks
nest; the check event is signalled from its own walk over the list; the build
may load `gEventPending` twice. Correct when the database stays ordered and
changes under its lock only, and armed timers fire.

### Fault tolerant write (modelled)
`MdeModulePkg/Universal/FaultTolerantWriteDxe`. State in flash: a work space
(header with valid and invalid bits, then a queue of write headers and records)
in a working block, a spare block as large as the largest target, and the
target blocks; in memory, pointers to the last header and record. Operations:
Allocate, Write, Restart, Abort, GetLastWrite; the reclaim of a full work space
through the spare block; and InitFtwProtocol, which repairs at boot what a power
failure left. Clients: the variable driver's reclaim, and platform updates.
Hard: power failures between and during flash accesses, errors in the middle of
a service, state derived by scanning a half written queue, flash that can only
clear bits. Correct when a write is atomic whatever happens.

### Variable store (modelled in part)
`MdeModulePkg/Universal/Variable/RuntimeDxe/{Variable,Reclaim,VariableDxe}.c`.
State: the store in flash (variables appended one behind the other, each with a
State byte whose bits are only ever cleared), its copy `mNvVariableCache`, the
offset of the next append, and the sizes in use. Operations: SetVariable,
GetVariable, GetNextVariableName, the reclaim of a full store through FtwWrite,
the reclaim before the operating system starts, and the start of the driver. Hard:
an update is six flash accesses, any of which can fail or be the last before a
power failure; several copies of a variable are then in the store, and three
searches (FindVariableEx, GetNextVariableName, Reclaim) choose between them, each
with code of its own. Correct when a variable has its old or its new value at all
times, the searches agree, the cache is the flash, and dead copies take no room.
The hardest part is a reclaim whose write fails: the session goes on over whatever
that left, and the next start may replace it.

### Handle and protocol database (modelled in part)
`Core/Dxe/Hand/{Handle,Notify,Locate,DriverSupport}.c`, with
`Universal/Disk/{DiskIoDxe,PartitionDxe}` as the drivers. State: the interfaces of
each protocol in order of arrival, the openings of each interface, and for every
registered notification the position up to which it has been told. Operations:
install, uninstall, reinstall, open, close, locate by registration, connect and
disconnect. Hard: uninstalling, reinstalling and exclusive opening release
`gProtocolDatabaseLock` to stop drivers, whose Stop functions uninstall in turn;
notifications and timer functions run wherever the level falls, and connect
drivers to what is being taken apart. Correct when an interface has one manager,
no layer outlives the one below it, a refused call restores what it stopped, and
each registration is told of each arrival once.

### The parts not modelled yet
- **DXE dispatcher** (`Core/Dxe/Dispatcher`): discovered and scheduled drivers,
  dependency expressions, BEFORE and AFTER. Firmware volumes appear while it
  runs. Correct when each schedulable driver is started once and in order.
- **Memory services** (`Core/Dxe/Mem`, `Gcd`): the memory map and its key, free
  page bins, pools that grow by pages. Re-entrance through the memory map change
  event. Correct when regions never overlap and a stale key is refused.
- **MP services** (`UefiCpuPkg/CpuDxe/CpuMp.c`): a state per processor, a
  spinlock each, a polling timer, timeouts. The only true parallelism.
- **DPC** (`Universal/Network/DpcDxe`): a queue per level and a free list that
  grows with the level lowered.
- **Network stacks** (`Universal/Network`, `NetworkPkg`): TCP, DHCP, MTFTP, ARP
  with timers and retransmission, all driven by events and DPCs.
- **PEI and SMM cores**: simpler dispatchers and databases of the same kind,
  without preemption.
- **Images, firmware volumes, sections, HII, EBC, consoles, PCD, buses, FAT,
  BDS, shell, base libraries, tools, third-party cryptography**: parsers,
  hardware access, data tables and sequential programs; see the notes in
  `PROJECT.json`.

### How they interact
Every driver calls the event services; the handle database signals its notify
events under a lock of TPL_NOTIFY, so the event services decide when its clients
learn of a protocol; dispatcher, image loading and driver connection call the
database; the variable driver calls FtwWrite, and its authentication and every
driver with a setting call it; MP services,
DPC and the network are clients of timers and events; ExitBootServices stops the
timer and compares the memory map key.

## 2. Plan

The modules in the order of their importance, each on what is there before it.

| | modules | status |
|---|---|---|
| 1 | `DxeTpl`, `DxeEvent`, `DxeTimer`: the scheduler | done |
| 2 | `NotifyScheduler`: what it promises; `DxeEvents`: properties and refinement | done |
| 3 | `DxeEventProofs`, `DxeTimerProofs`, `DxeLifeProofs`: proofs about 1 | done |
| 4 | `FtwWorkSpace`, `Ftw`, `AtomicStore`, `FtwRecovery`: the flash | done |
| 5 | `VarLog`, `VarStore`, `VarMap`, `VarRecovery`: the variable store, on what 4 shows of FtwWrite | done |
| 6 | `HandleDb`, `DriverModel`, `HandleServices`, `NotifyQueues`, `HandleProps`: the handle database, on the levels of 1 | done |
| 7 | `HandleDbProofs`, `HandleProofs`, `HandleLayerProofs`: proofs about 6 | done |
| 8 | `VarProofs`: proofs about 5 | done |
| 9 | `FtwProofs`: proofs about 4 | done |
| 10 | the dispatcher: dependencies, late firmware volumes | planned |
| 11 | the page allocator with the memory map key | planned |
| 12 | MP services; DPC queues (clients of 1) | planned |

Abstract specifications: `NotifyScheduler`, `AtomicStore`, `VarMap` and
`NotifyQueues`.
Proved: every safety invariant of the event core, with the refinement of
`NotifyScheduler`, and of the handle database, with the refinement of
`NotifyQueues`; every safety invariant of the variable store, with the refinement
of `VarMap`; for the flash, under single writes,
every safety invariant that `FtwSingle` checks and the refinement of `AtomicStore`.
Planned: the flash with sequences of several writes.

## 3. The event core

### Modules
- `DxeTpl`: levels, queues, `CoreRestoreTpl` and `CoreDispatchEventNotifies`.
- `DxeEvent`: the services of Event.c and the driver code that calls them.
- `DxeTimer`: SetTimer, CoreCheckTimers, the tick; `Init`, `Next` and `Spec` of
  the whole.
- `DxeEvents`: the properties, the invariant of the stack, the refinement.
- `NotifyScheduler`: the abstract specification.
- `MCDxeTimer`: profiles of three events for the runs.

### Correspondence
`stack` is the call stack: a frame per C function that still has work, with its
program point `pc`, the level `tpl` it works at or will restore, its event `ev`
and a local `at`. Services, notification functions, raised sections, CoreRestoreTpl
and the interrupt handler are all frames. A step is a step of the last frame or a
timer interrupt that pushes one. Each action is named for its function and the
part of it that it stands for (`SetTimer`, `TimerLock`, `TimerUnlink`, `TimerArm`,
`TimerInsert`, `TimerUnlock`).

Granularity: a section under `gEventQueueLock` runs at TPL_HIGH_LEVEL with
interrupts disabled and is one step; any other point between two accesses to
shared state, where an interrupt can come, separates two steps. In particular
CoreRestoreTpl's loop test, the choice of the level, the store of the level and
the enabling of interrupts are apart, and so are `CoreSetTimer`'s steps under
`mEfiTimerLock`, which only raises to TPL_HIGH_LEVEL-1.

Abstractions: CoreCheckEvent's test of `SignalCount` outside the lock is merged
with the one under it; the pool lock is only the level it needs; EXIT_BOOT_SERVICES
and VIRTUAL_ADDRESS_CHANGE events are events of their groups, and the runtime's
`EventHead` list is left out; the time before the CPU protocol is installed, when
interrupts are not yet managed, and SMM are not modelled; a failed ASSERT
is the frame `"halt"`, whose stack never runs again. The clock saturates at
`MaxTime` and is not taken through 2^64.

Clients create, signal, check, wait for and close events, raise their level, and
set timers, from the main program or from a notification function, up to
`MaxCalls` times. They use no closed event, close none that one of their callers
is still using, check no signal event, and with `Polite` they close an event only
at its notification level or below it. `FreedCall` shows why the last is needed.

### Runs (module MCDxeTimer, three events)
| run | asks | size |
|---|---|---|
| Notify | a timer callback, a callback and a notify-level event, signalled, raised over and closed: stack invariant, pending bits, nesting, levels, ASSERTs, refinement of `NotifyScheduler` | 443k states |
| Timers | relative, immediate and cancelled timers, two nested interrupts, a build that loads `gEventPending` twice: the timer database | 945k |
| Groups | a polled wait timer and a group of two: types, queues, signals, freed events, refinement | 175k |
| Live | WaitForEvent over two events, the idle event and its group, under fairness: liveness | 42k |
| FreedCall | a finding, below | |

Bounds: three client events are enough for two levels with preemption and a
third event between or behind them; three calls suffice for a signal, a close
and a raise in any order and any nesting of callers; two ticks fire a timer, let
it be late and re-arm it; one interrupt nested in another (two in `Timers`) already interrupts
every step of the first. `Timers` does not check deadlock, for in a build that
loads the mask twice the system may halt at an ASSERT.

Fairness (`Live`): the running frame of each nesting depth takes its step again
and again unless interrupts come for ever, which is strong fairness of `FrameStep`
for each depth (an interrupt handler takes less than a tick); and the timer
interrupt comes again and again while interrupts are enabled again and again.
Nothing is assumed of driver code but that it returns.

### Findings
1. *FreedCall* (Event.c:193). An event closed above its NotifyTpl, between its
   removal from the queue and the call, is freed and then called.

Two more behaviours of CoreRestoreTpl that the model has and no run singles out: a
tick between the last test of `gEventPending` and the store of the level leaves a
notification pending above the level at which driver code then runs
(`QueuedIsNotified` shows that it is delivered nevertheless), and a build that
loads `gEventPending` twice can compute the highest bit of zero and fail the ASSERT
in CoreRaiseTpl (the frame `"halt"`; `Timers` covers that build and shows the timer
database intact in it).

### Proofs
All are for every set of events, every table of types, levels and groups that
`EventAssumption` admits, and every bound.

- `TypeCorrect`: `Spec => []TypeOK`, in both builds. Each action is a lemma. The
  part that is not routine is that `gEventQueue[t]` holds only events notified at
  t, which later gives the level of the notification a dispatch starts.
- `StackShape`: `StackInv` is inductive together with `TypeOK`, for the build that
  loads the mask once (`~Reload`; in the other CoreRaiseTpl may halt). The
  properties one wants (nesting, restored levels, ASSERTs, atomicity) are about
  pairs of frames at any distance, and no one of them is inductive: after a return
  the level must be that of the frame below, which nothing remembers but the
  frames themselves. `StackInv` therefore says which frame can have called which
  (`Calls`: the upper frame's resume level is one the lower can run at), that
  base levels ascend through the stack, that only frames of signalling and of
  restoring run above a holder of `mEfiTimerLock`, and when interrupts are
  enabled. `PushOK`, `PopOK` and `ReplaceOK` reduce each action to a few facts
  about the last two frames.
- `NestingCorrect`, `LevelCorrect`, `AssertionsHold`, `AtomicityCorrect`:
  consequences of `TypeOK /\ StackInv`, each from a lemma about one state.
- `PendingCorrect`: `QueuedIsPending`, inductive with `TypeOK`, in both builds: the
  bit is cleared in the same section that finds the queue empty.


What follows is for the build that loads the mask once, since `StackInv` is.

- `TimersInvariant`, `TimerListCorrect`, `PeriodicCorrect`: `TimerListSound` and
  `PeriodicStaysArmed` are not inductive because CoreSetTimer and CoreCheckTimers
  change the list in several steps: what keeps the list sorted at an insertion is
  that the event is not in it, which the step before established. `TimerInv` adds
  `TimersOnly` (only timer events have a period or stand in the list) and
  `TimerFrames`, what each program point of Timer.c and CoreCloseEvent knows of its
  event. That nobody changes the list in between is `DatabaseAtomic`, which
  `StackInv` gives. An insertion goes before the first later entry, which exists
  as the least of a set of indices; that every non-empty set of naturals has a
  least one is itself a lemma (`LeastNat`), proved from the library's well-foundedness
  of the natural numbers.
- `LifeInvariant`, `QueuesCorrect`: with `QueueSound`, that a function in progress
  uses no freed event (`FramesAllocated`, but for the dispatcher), that a
  CoreCloseEvent has unlinked its event before it frees it and nothing links it
  again (`Closing`), and that the events WaitForEvent waits for stay allocated. The
  argument is about pairs of frames: a driver closes no event that a caller below it
  is using, and none that starts after the close takes up an event that is no longer
  live, but the CoreSetTimer by which the close itself cancels the timer.
- `SignalsCorrect`: `NoLostSignal` adds to that, for a CoreSignalEvent that walks the
  signal list, that every member of the group before its place is queued, and that no
  other frame stands above it, since the walk is under a lock of TPL_HIGH_LEVEL.
- `AllocatedWhileUsed`: `NoUseAfterFree`, which assumes `Polite`. The hazard is the
  dispatcher between popping an event and calling it. `CallInv` says that driver code
  above it runs at a higher level than the event's, where a polite driver may not
  close it, and that a CoreCloseEvent of the event below it has not yet unlinked it.
  Without `Polite` the property is false: `FreedCall`.
- `SchedulerImplemented`: `Spec => ImplementsScheduler`. Mapped to `NotifyScheduler`,
  an event owes a notification while it is queued, and the active contexts are those
  frames of the stack that are driver code, a notification function, or the
  dispatcher about to call one. Each action is a lemma: a dispatch that pops an event
  is `Start`, a RaiseTPL is `Raise`, a return or a RestoreTPL is `End`, a close of a
  queued event is `Cancel`, and every other step adds to what is owed, if anything,
  and leaves the contexts alone. `Start` needs two facts about the whole state: the
  popped event owes nothing more, because queues are injective and disjoint
  (`QueueSound`), and every active context is below the dispatched level, which
  `StackInv` says of each frame (`ActiveBelow`). `Contexts` is a recursive function on
  the frames; the lemmas `ContextsPush` and `LastContext` are what is needed of it,
  each by the least frame at which it would fail.

Only model-checked: the refinement of `NotifyScheduler`, `TimerListSound`
and `PeriodicStaysArmed` for the build that loads the mask twice, and
liveness, which is out of the prover's reach, as are ENABLED, induction over data
and recursive operators (none is used in these modules).

## 4. The fault tolerant write driver

### Modules
- `FtwWorkSpace`: the format of the work space and the pure functions on it:
  the last header, the last record, what a reclaim preserves, what programming
  does to a unit of sticky flash.
- `Ftw`: the driver and its flash.
- `AtomicStore`: what the protocol promises. A block's contents change at one
  instant inside a write or not at all; a write that reports success has taken
  effect.
- `FtwRecovery`: the properties and the refinement. `MCFtw`: blocks and contents.

### Correspondence
The working block is `work` (its header's bits and its queue), the spare block
`spare` (data of a target or an image of a work space), the targets `target`. A
header and a record are forty bytes each, so the queue is counted in units of
forty bytes: a set of cleared flag bits and a body, which is the number of writes
in a header and the block's Lba, Offset and Length in a record. Erased bits and
garbled ones are two values of a body.

A service in progress is the sequence `todo` of the steps that it has left. Each
step is the code up to and with at most one change of the flash, and a step can
put more steps in front (a refresh that reclaims) or end the service. The
functions' orders of steps are definitions with the functions' names. The driver
keeps a copy of the work space in memory and updates it together with the flash;
it equals the flash wherever it is read, so only the pointers into it are
variables. The exception is the window inside a reclaim, whose new queue is
`Buffer`.

Failures: `PowerCut` may come at any step and starts `InitFtwProtocol`. `Remains`
is what it leaves of the access it interrupts: an interrupted erase of the working
block leaves any subset of its units; an interrupted header leaves its first byte
and, because a header without a count seems one byte long to the driver, garbled
bytes behind it. A block that is erased or half written is `Torn`, which is also
what an interrupted write of a block leaves. A record cut short holds a part of
its own bytes; a client that repeats the write completes them, as it does after a
record that was written whole. `Fault` is an error of the flash or of the pool
between two accesses, which ends the service; not at boot, where the driver
asserts.

Not modelled: the boot block (`IsBootBlock` is FALSE, and so is
`IsWorkingBlock`), several blocks in one write, private data beyond its being
there or not, the replies of GetLastWrite, and a block's FVB that is not yet
installed at boot.

Clients: they do not abort a write whose data is in the spare block, for Abort
sets the header's Complete bit, after which no start restores a torn target, and
with `RetrySame` they repeat a
write that failed, or abort it, before they write another block. `FtwRetry`
shows why.

### Runs (module MCFtw, two blocks, two contents)
| run | asks | size |
|---|---|---|
| FtwSingle | four single writes in a queue of five units, which forces a reclaim, and two power failures anywhere, also in the recovery from the first: types, refinement of `AtomicStore`, settled at the end of every service and start, sticky flash, torn blocks repaired | 109k states |
| FtwBatch | all services in any order, five calls, sequences of two writes, an error and a power failure: allocations are found, refinement, sticky flash | 560k |
| FtwStale, FtwRetry | two findings, below | |

Bounds: two blocks tell the block being written from another; a queue of five
units holds two single writes, so that the third is preceded by a reclaim; two
power failures let the second hit any step of the recovery. `FtwBatch` has a queue
of nine units and stops at five calls, short of the reclaim in `FtwAllocate` that
`FtwStale` is about. The runs do not check deadlock: after the last call and the
last failure the driver is idle for good.

Fairness (`FtwSingle`): weak fairness of the driver's steps only. Calls,
errors and failures need never come.

`ImplementsAtomicStore` takes as the contents of a block what the flash determines:
the spare block for the block named by a record that a start would restart, the
target for all others. A write has taken effect once SpareComplete is set.

### Findings
2. *FtwStale* (FaultTolerantWrite.c:116). FtwAllocate computes the offset of its
   header before the reclaim that moves the queue, and writes the header to the
   old offset. Allocate reports success, but the work space has no allocated header
   where the next service looks.
3. *FtwRetry* (FaultTolerantWrite.c:453). After a write that failed once its
   record was in the flash, a write of another block is accepted and programs its
   record over the first one. From the erase of its target on, the record no longer
   names the block, and a power failure loses it.

### Proofs
`FtwProofs` is about single writes, `SingleWrites`: clients only call FtwWrite, one
block at a time and without private data, and the flash reports no errors. The
variable driver is such a client (VariableRuntimeDxe/Reclaim.c:150). The number and
contents of the blocks, the size of the work space, the calls and the power failures
are any, where `FtwSingle` has two, two, five, four and two. The theorems assume
what the modules assume of their constants (`FtwAssumption`, and that `NoWrite` is no
request) and nothing else.

- `FtwInvariant`: `FtwTypes /\ FtwInv` is inductive. The properties are about the
  last header of the queue, which a loop over the headers finds: `Leads` says that a
  path of complete headers goes there, so that the search can be reasoned about
  without counting its iterations. `Looks` then has one case for the last header and
  its record at each point of a write ("free", "leftover", "bare", "headed", "open",
  "recorded", "pending", "written"), and `InFlash` adds what the blocks hold: the
  targets are whole, except that of a "pending" record, whose contents are in the
  spare block. `Situation` has one statement for each service, of what it has left to
  do and what the flash looks like then; a reclaim, whose working block may be
  erased or half written, is `Lost` until the copy of the queue in the spare block
  takes its place. At every step the flash is `Recoverable`, and what a power failure
  makes of the access under way is recoverable again: that is why a failure
  may come at any step of the recovery from another one.
- `FtwTypeCorrect`, `SettledWhenIdle`, `ErasedWhenProgrammed`: consequences in each
  state.
- `WritesAreAtomic`: each step is a step or a stutter of `AtomicStore`. `Ahead`, which
  follows from the invariant, says what the next access needs of the flash. The
  contents change when SpareComplete is set (`SpareCompleteStep`); at every other
  access, and whatever a power failure leaves of it, `Available` stays as it is:
  while the target is torn its contents are those of the spare block, and they are the
  target's own before DestinationComplete frees the spare block.

Outside these hypotheses the properties are model-checked: batches, private data, the
other services and errors by `FtwBatch`. The two findings lie there.
Only model-checked: `AllocatedIsFound`, which is about FtwAllocate as a service of its
own, and `TornIsRepaired`, which is liveness.

## 5. The variable store

### Modules
- `VarLog`: the store as a log of variables, and the walks over it: FindVariableEx,
  GetVariable, GetNextVariableName, what a reclaim keeps. Pure functions.
- `VarStore`: SetVariable and UpdateVariable one flash access at a time, Reclaim,
  ReclaimForOS, the start of the driver, errors, power failures and resets.
- `VarMap`: what the services promise. A variable's value changes at one instant
  inside a SetVariable of it or not at all, and success means that it has.
- `VarRecovery`: the properties and the refinement. `MCVar`: names and values.

### Correspondence
The store is counted in units: a variable takes one for its header and one for its
name and data. A unit has a StartId, the set of cleared bits of its State byte, and
a body, which is a name with a value, erased or garbled. `State &= VAR_x` is a union
of sets. All variables are non-volatile with boot and runtime access, of one size.
`cache` is `mNvVariableCache`, `last` is `NonVolatileLastVariableOffset`, `total` is
`CommonVariableTotalSize`, `track` is the VARIABLE_POINTER_TRACK of the call in
progress. A step is the code up to and with one change of the flash; the services
hold a lock at boot and the operating system serialises them at runtime, so that
none interleaves with another, and `pc` is the next access of the only call.

A header whose State byte is erased has no size yet, so the walks take the unit
behind it for the next header (`EntrySize`); an append interrupted there ends the
log, and its remains lie in the free area until the next start reclaims.

Reclaim replaces the store through FtwWrite. What `AtomicStore` promises, and section 4
checks, is about what the next start finds: the old contents or the new
(`AtRestart`). Inside the session that begins with an error of FtwWrite the store may
be neither, and Reclaim, which is told only that the write failed, reads it again
whatever it is (`WriteFailed`): cache and offset become those of the store in flash, and
the sizes of all variables are added to the totals, which are not set to zero first.
- `ReclaimFault`: an error before SpareComplete, or after DestinationComplete. The
  store is the old or the new one. FtwWrite may be left with a header it cannot use or
  a record that counts as done (`refusing`).
- `FlushFault`: an error after SpareComplete (FaultTolerantWrite.c:576-588,
  FtwMisc.c:485-538). The store is as it was, erased, or written up to some variable
  (`Torn`); the new store stands in the spare block (`spare`), and the next start copies
  it over whatever was stored meanwhile (`Reset`, `PowerCut`).
- `WriteRefused`: until that start every other reclaim fails at once, with
  EFI_NOT_READY or EFI_ACCESS_DENIED (FaultTolerantWrite.c:377-391).

A torn store is cut between two units or inside one; its own header is there as a
whole or the store counts as erased. In the code a store whose header is erased has a
Size of all ones, with which Reclaim's last line copies (Variable.c:1214) until the
machine stops; what the next start finds then is what `PowerCut` leaves. Errors in the
recovery at the start itself and in the reclaim at the start are not in the model.
ReclaimForOS asserts success in debug builds; the model is the release build.

Failures: `Fault` is an FVB error that ends the call; `PowerCut` may come at any
access and leaves the part of it that `Remains` lists; `Reset` comes between calls.

Not modelled: the volatile store, variables from HOBs, authentication, hardware
error records and user quotas, appending writes, attribute changes,
QueryVariableInfo, the SMM front end, and re-entrance from a machine check or INIT
handler (Variable.c:3194-3204), on which the driver searches the end of the log again.

### Runs (module MCVar, two variables of two values, seven units)
| run | asks | size |
|---|---|---|
| VarStore | all services in any order and at any length, one power failure at any access or one error at any but those of an append: types, cache, erased appends, copies, searches, room, listing, refinement of `VarMap` | 140k states |
| VarDeleted | a finding, below | |

Bounds: the store holds three variables and half of a fourth, so that an update is
refused, reclaimed or appended according to what is dead; at runtime the last unit
is not used. Two names tell the variable being set from another. There is no bound
on calls or resets, but SetVariable is called only up to a total of eight units
(`MaxTotal`), which no store of seven reaches unless a failed reclaim has added to it,
and which is beyond all room. One failure is the bound because a second one can leave what the
finding describes: two copies in delete transition, of which FindVariableEx chooses
the last (Variable.c:1272-1284) and Reclaim promotes the first (Variable.c:1078-1108). No fairness is assumed: nothing here has to happen by itself.

Two assumptions limit the passing run, and each stands for a weakness of the code.
`Faulty` leaves out errors in the four accesses of an append: after one,
`NonVolatileLastVariableOffset` still points at what was written, and the next
SetVariable programs flash that is not erased (Variable.c:2573-2623). With
`Overfill = FALSE`, no variable is updated without room at runtime after a failure:
the refused update has already marked the old copy (Variable.c:2386, 2525), which
leaves the same two copies as the second failure of the finding. `ListingIsExact` is about stores where each readable variable
has an ADDED copy: after an interrupted update, GetNextVariableName starts at the
first ADDED variable and does not return one before it that has only a copy in
delete transition (Variable.c:1258-1264, 2859-2985).

While a store waits in the spare block the properties say less, because the code does.
`CacheIsFlash` and `AppendsErased` hold of the torn store as well. `ImplementsVarMap` is
about what the next start reads: no call changes it any more, and a success, which
promises that it has, counts as a failure.
`LookupsAgree`, `ListingIsExact` and `RefusedOnlyWhenFull` are about stores that
no failed write has torn. `RefusedOnlyWhenFull` is also about boot time only, where
SetVariable reclaims before it refuses.

What these hypotheses leave out is behaviour of the code, which the model has and no
run singles out:
- *Success undone* (FaultTolerantWrite.c:584). An FVB error in a reclaim, after
  SpareComplete, leaves a torn or old store and the new one in the spare block. A
  SetVariable that then appends to the former reports success; the next start copies
  the spare block over it, and the variable is gone or old again. Until then values may
  be missing that the start brings back.
- *Refused with room* (Variable.c:1188-1203). A reclaim whose write fails adds the sizes
  of all variables to totals that already count them. At runtime, where nothing is
  reclaimed, variables are then refused that would fit, as they are when dead copies
  take the room.

### Proofs
`VarProofs` is for stores of any size, any names and values and any number of calls,
resets and restarts. Its first half is about `VarLog` alone: the recursive walk that
`Headers` and `End` stand for exists and is unique (`WalkFrom`), an append, a state
byte and a damaged tail change it in the way one expects, the copies a reclaim keeps
are written one behind the other in the order in which they are found, and
FindVariableEx finds in the compacted store what it found before.

Two hypotheses take the place of the bounds of the run:

- `AppendNeverFails`: no FVB error comes in the accesses of an append. The code does
  not survive one before its next start (Variable.c:2573-2655, above); power failures may
  come anywhere, and errors of FtwWrite. With it hold, for *any number* of errors and
  power failures:
  - `StoreInvariant`: `StoreInv` is inductive. `CacheIsFlash` alone is not: while
    an append is under way the cache is behind, and `WrittenInv` says by exactly which
    units; that they end where `NonVolatileLastVariableOffset` says is `LogInv`; and
    that there is room for them is `RoomInv`. `AppendsErased` needs that nothing
    lies behind that offset (`FreeInv`), except between a start and its reclaim. All
    this is so of a torn store, too, in which a variable may have no name or no data
    (`GoodStore` is about its shape alone); a store that waits is a good one, and
    FtwWrite refuses others until the start has used it (`SpareInv`). Of the total
    only that it is never less than what lies before the offset (`LogInv`).
  - `VarTypeCorrect`, `CacheCorrect`, `AppendsCorrect`: consequences in each state.
- `SingleFailure`: in addition, at most one failure, and no update without room at
  runtime after it. `VarDeleted` shows that what follows is false with two.
  - `CopiesInvariant`: `CopyInv` is inductive with `StoreInv` and with `WholeInv`, that
    each copy has its name and data, in the flash or, while a store waits, in the
    spare block. The properties are about what a walk finds; `CopyInv` says which copies each variable has. A variable that no
    call is changing is `Tidy`: one ADDED copy at most and one in delete transition, the
    latter in front, and both only after the failure. For the variable being changed
    there is one statement per phase: the copies found are all there are and hidden
    (`HiddenInv`), the new one stands behind them (`ReplacedInv`), they are
    removed in the right order (`RemovedInv`). An error of FtwWrite, unlike the other
    failures, leaves no second copy: the call it ends marked none, or the copies of the
    torn store are those of a new one (`TornNeat`).
  - `OneAddedCorrect`, `LookupsCorrect`, `RefusedCorrect`: consequences in each state,
    the last two while no store waits. `RefusedCorrect` rests on `FullInv`, that every
    copy left is needed when a refusal at boot time is reported.
  - `MapImplemented`: each step is a step or a stutter of `VarMap`, for what the next
    start reads. It changes when the new copy's State byte becomes ADDED, when the last
    copy of a variable that is removed becomes DELETED, or when a reclaim with the new
    variable is in the spare block, and at no other access; while a store waits there,
    at none at all.
  - `ListingCorrect`: the k-th call of GetNextVariableName returns the k-th ADDED copy in
    the order of the log (`Nth`). This function satisfies the recursion that defines
    `Listing`, and it is the only one that does (`ListStep`, by induction on k). By
    `CopyInv` the ADDED copies correspond one to one to the variables that can be read.
    The theorem also assumes that `Name` is finite, because `Listing` makes as many calls
    as there are names; the set of variables of a flash of finite size is.

### Findings
4. *VarDeleted* (Variable.c:2386). Two power failures and no flash error. The first,
   between the append of a new copy and the deletion of the old one, leaves the old one
   in delete transition; the second, after the next update has marked the new copy and
   before its own append, leaves two. SetVariable then deletes the last, reports
   success, and GetVariable finds the first, with an older value.

## 6. The handle database and the driver model

### Modules
- `HandleDb`: the database and what each section under its lock does to it, as
  functions from database to database, and the Supported and Start of the two disk
  drivers. Pure functions.
- `DriverModel`: CoreConnectController, CoreDisconnectController and the drivers'
  Stop as frames of a call stack.
- `HandleServices`: uninstall, reinstall and exclusive opening, which call them with
  the lock released; clients, timer functions and notifications.
- `NotifyQueues`: what registration and location promise. Every registration has a
  queue of what arrived and was not given to it, oldest first.
- `HandleProps`: the properties and the refinement. `MCHandle`: a disk with two
  partitions and a registration for each protocol.

### Correspondence
An interface is named by its handle and its protocol. `db.list` is the list
`PROTOCOL_ENTRY.Protocols`, `db.open` the OpenList of each interface, `db.position`
the Position of each PROTOCOL_NOTIFY, `db.signalled` the registrations whose event is
signalled. `stack` has a frame per C function that still has work; a frame keeps the
function's arguments, what its loop has still to visit, the status its callee
returned, and a flag.

Granularity: the lock is TPL_NOTIFY, and a driver's Start runs at TPL_CALLBACK, so
neither a timer function nor a notification comes between two accesses of one; each
is one step. Between two steps a function at TPL_CALLBACK may run: a timer function
that connects a controller (as UsbConnectDriver does, UsbEnumer.c:287) or the
function of a signalled notification, which locates until nothing is left
(NotifyFwVolBlock, FwVol.c:639-656). Such functions do not nest, which section 3
proves (`NestingCorrect`), and what is signalled runs before the interrupted function
goes on. `CoreDisconnectController` counts a controller's drivers, and a driver's
children, in one section, allocates a buffer, and fills it in another without looking
at its size (DriverSupport.c:785-834, 865-920). The model takes the two as one. In the
code a timer function that connects in between adds openings, and the second section
then writes past the pool buffer; what follows from that is outside every property here.

The drivers: DiskIoDxe opens Block I/O BY_DRIVER and installs Disk I/O on the same
handle; PartitionDxe opens Disk I/O BY_DRIVER, installs Block I/O on a handle per
partition and opens Disk I/O BY_CHILD_CONTROLLER for it. Stopping a disk therefore goes
through three levels of uninstall, each of which disconnects what is above it. The
bus drivers' Block I/O 2 and Disk I/O 2 follow the same path and are left out; of the
partition formats the model has the MBR. A partition's DevicePath is left out as well,
and it does not quite follow that path: PartitionDxe's Stop uninstalls it before Block
I/O, in a service of its own (Partition.c:477-500). A timer function that connects
the disk between the two finds no partition with that device path and installs a second
handle for it, where the model has one handle per partition.

Clients: any controller is connected or disconnected, any interface opened
exclusively and closed, and the device driver installs, uninstalls and reinstalls
the Block I/O of its disk. A function that interrupts a service only connects: one
that disconnected or opened exclusively could free the interface whose address the
interrupted service kept across the release of the lock (Handle.c:650, 1137). The
last conjunct of `HdbTypeOK` shows that connecting alone cannot.

Not modelled: the other searches, OpenProtocolInformation, RegisterProtocolNotify
and its reverse while the system runs, driver ordering and overrides, connecting
with a device path, drivers that come and go, media changes.

### Runs (module MCHandle)
| run | asks | size |
|---|---|---|
| Handles | five calls of any service, one timer function in the middle of any of them, notifications everywhere: types and held pointers, queues, missed arrivals, single managers, layers, refused calls, termination | 212k states |

Bounds: two partitions let Stop succeed for one child and fail for the other; five
calls connect a disk, open a partition or the disk exclusively, uninstall or
reinstall under it, close and try again; the drivers' recursion is as deep as the
layers. The run does not check deadlock: after the last call nothing runs.

Fairness: weak fairness of `Continue`, a step of the running function. There is one
processor, and nothing that a function waits for; calls and timer functions need
never come. `CallsReturn` needs no more.

`LayersStand` and `RefusedIsReconnected` state some facts only for behaviours in which
no timer function has run in the middle of a service (`Undisturbed`). The code does
not keep them otherwise: CoreDisconnectController calls Stop for the children and
then for the controller, and a connection between the two lets PartitionDxe create a
partition again, whose Disk I/O the second Stop then closes (DriverSupport.c:934-939).
On an MBR disk nothing opens it again: the next Start finds no new partition, returns
an error and closes Disk I/O itself (Partition.c:341-372), and the disk cannot be
uninstalled any more.

### Proofs
For every set of handles, every table of partitions, every set of registrations and
every bound that the two assumptions of `HandleDb` admit. `PartitionAssumption` says
that a partition's device path is its disk's and one node more (Partition.c:1163
appends it) and that no two disks share a partition; so partitions of partitions are
covered, to any depth, and nothing is on a disk made of itself.

`HandleDbProofs` has the lemmas about lists with positions (what an append, a removal
and a step of the position do to what follows it) and about each function of `HandleDb`.
`HandleProofs` has one lemma per action, in terms of a few changes of a database
(`Arrived`, `Departed`, `Renewed`, `Notified`, `Taken`) that the refinement of the
queues, in its second half, uses again.

- `HdbInvariant`: `HdbInv` is inductive. Its parts are `DbInv`, the shape of the
  database, `FramesOK`, what each function knows of its arguments, `Recorded` and
  `Ranked`. `Recorded` is what one wants: the interface that an uninstall, a reinstall
  or an exclusive opening looked up is there when the lock is taken again. It is not
  inductive, because any function above in the call stack may uninstall. `Ranked` is why
  none of them uninstalls that interface: each service that disconnecting
  starts is at work on a layer strictly farther from the disk's Block I/O than all those
  below it, `Rank` counting the nodes of the device path and the layer on the handle.
- `HdbTypeCorrect`, `OneManagerCorrect`: consequences in each state.
- `QueuesImplemented`: the refinement of `NotifyQueues`. Each change of the database is
  a step of the queues: an arrival joins at the end of all queues of the protocol, several
  partitions in one order; a removal takes one entry out of each queue, also where the
  position backs up; a reinstallation, which moves an interface to the end, gives it again.
- `NothingIsMissed`: `NothingMissed` is inductive as `Owed`: what a registration has not
  been given is signalled, or a notification function of it is still in its loop, or a
  reinstall that has moved its interface is about to notify.

`HandleLayerProofs` is about the disk drivers: what their Start and Stop and the
services do to the layers (`DiskIoUp`, `PartitionsUp`, `DiskClosed`, `Gone`, ...), then
what each step does to the call stack, then one lemma per action and invariant.

- `LayerInvariant`: `LayerInv` is inductive, with timer functions that connect between
  any two sections. `LayersStand` alone is not: DiskIoDxe closes Block I/O, and PartitionDxe
  Disk I/O, because of an answer that another function gave. `Answers` says what the answer
  TRUE to an uninstall means to the Stop that waits for it (the interface is gone,
  or was installed again with an opening of its own); `Called` that the function above it in
  the stack is the one it waits for; `Linked` that a partition without its child opening
  has a Stop at work on it. `Ranked` of `HdbInv` gives that two Stops are never at work
  on one controller, and the openings of `DbInv` that no interface goes while it is held.
- `CalmInvariant`: `CalmInv`, the same while no timer function has run in the middle of a
  service. Managed, that PartitionDxe holds the Disk I/O under each partition, rests on
  `Stripped`: when Stop comes for the controller, Stop for the children has left none.
  `Higher` keeps it: a function that connects in the middle works on a controller farther
  from the disk than any that is being emptied below it in the stack.
- `LayersCorrect`: `LayersStand` follows from both in each state.
- `RefusedInvariant`, `RefusedCorrect`: a refused service waits for CoreConnectController,
  which tries drivers until none is supported and then the children. `RefusedInv` says what
  each driver that it has been through left behind (`Connecting`), and that once it is at
  the children, everything above it in the stack is farther from the disk, where
  Start changes nothing of what has been connected (`RestoredBelow`).

Only model-checked: `CallsReturn`, which is liveness.

## 7. What the project does not show
The parts of section 1 that are not modelled, and of those that are, what their
sections list. Arithmetic beyond the models' counters. Anything of the compiler but
the second load. Anything of the flash but the failures named above. That driver code
keeps to the contracts stated for clients.
