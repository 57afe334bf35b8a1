# A verification project for the QEMU board support package of Windows CE

The repository is a board support package (BSP) that lets Windows Embedded
Compact 2013 run on QEMU's `vexpress-a15` board: the OEM adaptation layer, the
KITL debug transport and the device drivers. This directory holds TLA+ models
of its parts, the TLC configurations that check them and the proofs that
TLAPS checks.

## 1. The system

| Part | Source | State it keeps | Operations |
|---|---|---|---|
| virtio_blk, disk I/O | `drivers/virtio_blk/virtio.c` | the split virtqueue, `last_used_idx`, the disk critical section, the interrupt event; per call the request, its pages, the batch counters | `InitVirtioBlk`, `DoDiskIO`, `CloseVirtioBlk` |
| virtio_blk, stream interface | `system.c`, `diskio.c` | the list of disks `v_DiskList` and its critical section | `DSK_Init`, `DSK_Open`, `DSK_Close`, `DSK_Deinit`, `DSK_IOControl`, `CloseDisk` |
| virtio_tablet | `drivers/virtio_tablet` | event queue, `next_fill_pos`, `last_used_idx`, the input position | `TouchPanelEnableEx`, `TouchPanelDisable`, the update thread |
| OAL, interrupts | `oal/oallib/intr.c` | `irq_armed`, `irq_iar`, the GIC | enable, disable, mask, done, the handler |
| OAL, timers and clock | `oal/oallib/timer.c`, `intr.c` | `CurMSec`, `timeUS`, `lastTimer`, two SP804 timers, the RTC | tick counter, reschedule time, get/set time, alarm |
| OAL, start-up | `init.c`, `multiproc.c`, `startup.s` | `g_numExtraCPUs` | start all CPUs, IPIs |
| KITL serial | `kitl/init.c` | the partly received frame | send, receive, encode, decode |
| pl011 | `drivers/pl011` | open count, time-outs, the break event | `COM_*` |
| pl041 | `drivers/pl041` | play state, the FIFO's rate and interrupt, the buffers queued | start, continue, pause, restart, stop, the interrupt thread |
| pl050 | `drivers/pl050` | the port's two data registers and locks, the scan code and the report in progress | commands, the keyboard's and the mouse's threads, power |
| smsc9118 | `drivers/smsc9118` | the receive rings, the deferred packets, MAC_CR, filters, power state, the indirect registers | the NDIS 5 miniport's handlers, ISR and DPC |
| virtio library | `drivers/virtio` | free list, available and used ring, event suppression; or the packed ring | add, kick, get, detach, shut down |
| netkvm, NDIS 5 | `drivers/netkvm/NDIS5` | the send queue, the received buffers, the DPC's gates, resets and power | send, receive, return, reset, halt |
| netkvm, NDIS 6 | `drivers/netkvm/Common`, `wlh` | features, vectors, link; flows and the miniport's state; the lists being sent; the virtual function's binding | initialize, restart, pause, send, bind and unbind, power, halt |

How they interact. The file system calls `DSK_IOControl` from any thread. A
driver writes descriptors and indices into memory it shares with its device,
notifies it by a register write and sleeps on an event. The device raises an
interrupt line; `OEMInterruptHandler` maps it to a SYSINTR and leaves it
active at the GIC, the kernel sets the event, the driver's thread acknowledges
the device and calls `InterruptDone`, which comes back to `OEMInterruptDone`
and deactivates the interrupt.

What is hard. Shared memory between a driver and a device that runs at its own
pace; ring indices that wrap; threads that share one queue; interrupts and
notifications suppressed by agreement, where one index off by one loses a
wake-up; time-outs that strike while an answer is on its way; failures half
way through a list of pages; tearing a device down while it is in use;
counters updated on two CPUs.

## 2. What makes each part correct

* Disk I/O: a request is refused without touching the disk, or each of its
  sectors is carried out once between call and return and the status says what
  happened; the device's descriptors are never rewritten; a thread consumes
  its own completions only; exactly the pages that were locked are unlocked;
  calls return.
* Stream interface: no call works on a disk that has been freed, none to an
  active disk is refused.
* Tablet: events are processed once each and in order, for ever; the device is
  never short of buffers for good.
* Interrupts: each interrupt taken is deactivated once; none stays active. Each
  CPU that comes up is counted once.
* Timers: the clock never loses or doubles time; the rescheduling interrupt
  comes, when it was asked for. A date that is set is the date shown, and an alarm
  that is due is the one set last; for dates after the February of a leap year and for
  alarms to come the code does not keep to that, and nothing is claimed (4.3).
* Serial lines: a frame accepted is a frame sent, and the receiver finds the next
  frame; a reader loses no byte, and is not left asleep when the port closes. The
  code misses the last two where a read meets a close at the wrong moment (4.3).
* Audio: the FIFO is never overfilled; each sample is played once and in order.
* PS/2: answers go to who asked, interrupts are on again when nobody writes, keys
  and reports are those made.
* smsc9118: packets are in one ring at a time, answered once, handed up in
  order; the filter is the one asked for; no access to a register of the MAC or
  the PHY is mixed with another, until one is given up and leaves its lock to a
  thread that has already made its test (4.3); what fails to start is given back.
* Virtqueues: a descriptor is free or of one buffer; each buffer comes back once;
  no kick and no interrupt that somebody sleeps for is suppressed.
* netkvm: a packet is completed once, and with success only if it was sent, which
  the code fails where sending stops (4.3); a buffer is in one place, nothing is
  outstanding when a stop is reported, and stops end; a binding is not deleted
  while it is referenced, and a virtual function that is up gets used.

## 3. Modules

| Module | What it is | Code |
|---|---|---|
| `BlkService` | abstract: call, refuse, perform a sector, return | what `DSK_IOControl` promises |
| `VirtioBlk` | `DoDiskIO` by several threads, the interrupt, the device | `virtio_blk/virtio.c` |
| `DskLifecycle` | the disk list, activation, calls, deactivation | `virtio_blk/system.c`, `diskio.c` |
| `TabletService` | abstract: report an event, handle an event | what the update thread promises |
| `VirtioTablet` | the update thread and the device | `virtio_tablet/virtio.c` |
| `OalIntr` | enable, disable, done, the handler, the GIC, the drivers' protocol | `oallib/intr.c` |
| `OalTimer` | the clock, the rescheduling timer | `oallib/intr.c`, `timer.c` |
| `OalRtc` | dates, setting the clock, the alarm | `oallib/timer.c` |
| `OalMp` | start of the other CPUs, IPIs, exclusive stores | `oallib/startup.s`, `multiproc.c` |
| `KitlSerial` | frames over a line that damages and loses bytes | `kitl/init.c` |
| `Pl011` | open, close, read and purge by several threads | `pl011/pl011.cpp` |
| `Pl041` | audio buffers between application and interrupt thread | `pl041/pl041.cpp` |
| `Pl050` | commands, keys, reports, power | `pl050/pl050_lib` |
| `Smsc9118Data` | the receive rings, the deferred packets, ISR and DPC | `smsc9118/smsc9118.c` |
| `Smsc9118Mac` | filter, multicast hash, duplex: the three that share MAC_CR | `smsc9118/smsc9118.c` |
| `Smsc9118Adapter` | initialization with failures, halt, power, wake-up patterns | `smsc9118/smsc9118.c` |
| `Lan9118` | indirect registers, PHY, link | `smsc9118/lan9118.c` |
| `VirtqueueService` | abstract: a queue that returns each buffer once, in the device's order, and gives back the rest when it is stopped | what the virtio library promises |
| `VirtIORing`, `VirtIORingPacked` | the two layouts of the queue | `virtio/VirtIORing.c`, `VirtIORing-packed.c` |
| `NetkvmSend`, `NetkvmReceive` | the two paths of the NDIS 5 driver around resets, power and halt | `netkvm/NDIS5` |
| `NetkvmInit` | the NDIS 6 adapter's start, features, vectors, link, power | `netkvm/Common/ParaNdis_Common.cpp`, `wlh/ParaNdis6_Driver.cpp` |
| `NetkvmFlow` | flows and the miniport's state machine | `netkvm/Common/ParaNdis-SM.h` |
| `NetkvmTx` | the lists being sent | `netkvm/Common/ParaNdis_TX.cpp`, `ParaNdis_VirtQueue.cpp` |
| `NetkvmProtocol` | the binding to a virtual function | `netkvm/Common/ParaNdis_Protocol.cpp` |
| `Interrupts`, `Lifecycles`, `Queues`, `Safety` | compositions of parts | |
| `MC*` | instances for TLC; `MCSafety` adds the parts of `safety` that have no theorem of their own | |
| `*_proofs` | inductive invariants and theorems (section 5) | |

`VirtioBlk`, `VirtioTablet`, `VirtIORing` and `VirtIORingPacked` each contain an
instance of their abstract module with a refinement mapping (`Service`), and
`ServiceSpec` is checked as a property.

What one module shows another takes for granted. `DskLifecycle` uses what
`VirtioBlk` establishes (a batch ends, and nothing of a call but its entering and
leaving `d_DiskCardCrit` shows); `VirtioBlk` takes interrupts the way `OalIntr`
justifies (masked from the handler to `InterruptDone`, delivered when raised);
`NetkvmSend`, `NetkvmReceive` and `NetkvmTx` take a virtqueue for what
`VirtIORing` shows it to be; a flow in `NetkvmProtocol` is what `NetkvmFlow` shows
(running or not, and what is outstanding).

**Compositions.** Parts that share no state are checked together: in
`Interrupts`, `Lifecycles`, `Queues`, `Safety` and `MCSafety` a behaviour is one of one
part, chosen at the start (`part`), while the others stay where they begin. A
run then answers one question about the board rather than about one routine, and
the number of states is the sum of the parts' and not their product. A property of a
part holds of the composition exactly if it holds of the part.

### 3.1 VirtioBlk

A thread is in `pc[t]`; the labels follow `DoDiskIO` from top to bottom.

| State | Code |
|---|---|
| `req`, `sr_status`, `locked`, `pfns` | the `SG_REQ`, its status, the SG entries locked, whether `sr_pfns` is allocated |
| `handled`, `ops_failure` | `sectors_handled`, `ops_failure` |
| `avail_idx`, `prev_avail_idx`, `desc_pos`, `ops_counter` | locals of a batch |
| `crit` | owner of `d_DiskCardCrit` |
| `desc`, `tails`, `avail_ring`, `avail`, `used_event` | what the driver writes for the device; `tails` holds the status bytes |
| `used_ring`, `used`, `avail_event`, `no_notify` | what the device writes |
| `interrupt_ev`, `irq_masked`, `isr`, `kick` | the event, the line from handler to `InterruptDone`, the device's interrupt status, the notification register |
| `dev_avail`, `inflight`, `dev_mode`, `signalled`, `sig_pending` | the device (external) |
| `io` | history: what became of each sector |

| Action | Lines of `DoDiskIO` |
|---|---|
| `Submit`, `Refusal` | the checks and the early returns |
| `LockPages`, `UnlockPages` | the loop over the SG entries, with its undoing |
| `Enter`, `FillSector`, `LeaveFill` | the descriptors of a batch, up to the split |
| `SetUsedEvent`, `Publish`, `Notify` | the available ring, `used_event`, the notification |
| `Wake`, `Ack`, `IntDone`, `Timeout` | the wait for the event |
| `DrainOne`, `WaitMore`, `Leave` | the used ring, the next wait or the next batch |
| `Finish`, `Return` | the status, unlocking, the return |

Descriptors and status bytes are kept, because the driver finds the status
byte of a completed chain by walking descriptors; buffer addresses and data are
not. The device takes chains in order, has several in flight, completes them in
any order with either outcome, and follows the event-index protocol or the
flags, as negotiated. Publishing an index and reading the other side's are
separate steps: each may fall between any two of the other side. Memory is
taken to be sequentially consistent: the code puts a `_dsb()` before it
publishes, before it decides whether to notify and before it looks at the used
ring again, and QEMU's device does its part.

### 3.2 DskLifecycle

A disk is an address; `LocalFree` makes it available to `LocalAlloc` again, so
a stale handle may denote a new disk. `InitList`, `CreateDisk`, `EnterToLink`,
`Link` and `SetUp` are `DSK_Init`; `Call`, `EnterToCheck`, `Walk`, `Found`,
`NotFound`, `EnterBatch` and `LeaveBatch` are `DSK_IOControl` with its
`IsValidDisk` and the batches of `DoDiskIO`; `Deinit` runs the same check and
then `CloseDisk`: `EnterToUnlink`, `UnlinkFirst`, `UnlinkNext`, `Sleep`,
`EnterToDrain`, `LeaveDrain`, `DeleteCrit`, `Free`. Each step of a walk along
the list is an action of its own. Constants state who may do what:
`InitFails`, `ManagerWaits` (no disk is deactivated that a call is using, none
is called while it is deactivated, and the first disk is activated while nobody
walks the empty list; calls with the handle of a disk long gone remain) and
`SleepLong` (fifty milliseconds are enough for every thread that can run
to get to its next wait).

### 3.3 VirtioTablet

The n-th event is the number n, so that order and repetition show. `Populate`,
`Fill`, `SetUsedEvent`, `Publish`, `Notify` are `populate_buffers`; `Wake`,
`Ack`, `IntDone`, `Timeout`, `Drain`, `DrainOver`, `Rearm`, `Recheck` are
`drain_buffers`. Both widths are kept: `avail` and `used` wrap at `IdxMod`,
`last_used_idx` and `next_fill_pos` do not.

### 3.4 OalIntr

Per line: `irq_armed` as in the code; `enabled`, `active` and `running` of the
GIC, with priority drop and deactivation apart, as `EOImode` 1 has them; the
device's `level`; the kernel's event `ev`. `ReadIar`, `Disarm`, `WriteEoir` and
`SetIntrEvent` are `OEMInterruptHandler` and what the kernel does with the
SYSINTR it returns; `EnableArm`, `EnableGic`, `DoneArm`, `DoneDir`,
`DisableArm`, `DisableGic` are the two statements of each of the other
routines; `Wake`, `Serve`, `AfterDone`, `Close` and `Poll` are the driver, which
follows virtio_blk, pl011 and pl050. With `MP` false a thread runs only while the handler
does not; with `MP` true it runs on another CPU.

### 3.5 OalTimer

`Tick` lets a microsecond pass: the periodic counter runs down and starts again,
the one-shot may expire. `update_timer` is the function, as an operator that
`TakeTimerIrq` and `OEMUpdateReschedTime` use; the handler then looks at each
timer in a step of its own (`ClearPeriodic`, `ClearOneShot`), and the call loads
the one-shot in another (`LoadOneShot`). Time passes inside both, up to
`Latency`. `readAt`, `askedAt` and `waiting` are history.

### 3.6 OalRtc, OalMp

A date of `OalRtc` is a number of days and a second of the day; the loop over years
and months is the code's, and `DatesRight` compares it with a count of
leap years. A day has ten seconds (136 years have more than TLC can count), and
the days are those at the turns of months, leap years and centuries.
`SetKeepsDate` makes no claim of the dates that setting gets wrong
(`LeapDayForgotten`). The alarm's interrupt is raised by the match alone, whether it
is enabled or not; `AlarmIrqEnable` and the handler clear it, and `pendingFor` is the
match it was raised for: `AlarmIsLast` says that none rings for an alarm that has been
set anew. `HalRtcAlarm` may come late, after another alarm has been set, which it then
disables.

`OalMp`: `Boot` is `OEMMpStartAllCPUs` on the first CPU, step by step
(`SetupTimer`, `SetGlobals`, `SendStartup`, `Count`); `CpuStep` is the wait loop and
the kernel entry of `startup.s`, with the load-exclusive and the
store-exclusive of the counter apart and a monitor each.

### 3.7 KitlSerial, Pl011, Pl041, Pl050

`KitlSerial`: `SerialSend` puts an encoded frame on the line, a fault changes or loses
one byte, `SerialRecv` goes on from what it has of a frame. Check sums are sums modulo
`ByteMod`, as the code's are modulo 2^8.

`Pl011`: every open makes two new events, so a thread may hold handles of an
opening that is over. Open, close, purge and reads of several threads meet at every
step: between a reader's `ResetEvent` and its wait, between `COM_Close`'s `SetEvent`
and its `CloseHandle`, and after it. What the code gets wrong there is recorded where
it happens. `wiped` has the openings whose break a reader took back after
`COM_Close` had set it: who waits on them sleeps on. `outlived` is set when a read goes on
after its port was closed: on closed handles, whose failure it takes for an
interrupt, on those of the next opening, or still taking bytes when the port is
opened again. `SerialSound` and `AllServed` except these and nothing else; without
either exception TLC shows the race. The event of the interrupt lets go
one waiter, or the next that comes (it resets itself); a break lets go all that
wait and stays set.

`Pl041`: the upper half of the wave driver is external; the n-th sample is
the number n. "Loaded anew" means a codec just reset.

`Pl050`: a thread is a list of what it still has to do at the port. Bytes that come
while a command drains the registers, or an answer later than the poll, are
marked `disturbed`; keys are typed once the driver listens.

### 3.8 smsc9118

`Smsc9118Data`: the ISR and the handler of the moment (NDIS runs one at a time) are
two program counters; the rings are arrays with a read and a write index, as
in the code. `Many` stands for the two limits 100 and 1500 of deferred packets.
`Smsc9118Mac`: ISR and handler are lists of what they still have to do, since they
meet in the read, change and write of MAC_CR; what they may do to each other is
recorded (`raced`, `late`, `swallowed`, `skipped`) and excepted by the
properties, so that these say what else can go wrong: nothing. `late` and `swallowed`
matter to the requests that never end only: whatever happened, a filter
that is not set and a receiver that stands still have a request pending. A link stays
down for at least one tick of the timer that looks at it (200 ms, less than
a link takes to negotiate): were it up again within a tick, the ISR would not see
that it changed, and the duplex would stay that of the old one.
`CheckPhyStatus` takes auto-negotiation to be complete when the link is up.
`Smsc9118Adapter`: `stage` runs through `DriverEntry` and `Smsc9118Initialize`, each of
which may fail and gives back `have`. NDIS moves between D0 and one other state, and
patterns have no twins of equal CRC. `Lan9118`: two threads at the MAC's and the PHY's
command registers; before that, the search for the PHY and the link. An access is
cut into its test, made without the lock, the data, the command and the wait, which ends
with the MAC or, at any time, without it (40 polls; 100 for the PHY):
the lock is left, a read has all ones, and the command stays with the MAC
(`abandoned`) until it is carried out or another takes its place. `raced` is set
when a thread that made its test before gets the lock of a MAC in that state, or that
of the PHY while a value is on its way to it; `AccessesAreExact` is claimed until then.
`missed` is set when a write of the PHY's value or command met a busy MAC and was
not made.

### 3.9 The virtqueues

The driver holds the queue's lock, so one routine runs at a time; it is cut where
the device can see it: descriptors, available ring, index, barrier, the look at the
event. The driver sleeps with interrupts enabled; an interrupt makes it disable
them, take what is used, enable them and look once more. It may also look without
waiting, stop the device, detach what it still has and start again. In the packed ring
`avail_wrap_counter` misses the turn of a chain that takes the whole ring, which is
marked off by `turned`.

### 3.10 netkvm

NDIS 5: `NetkvmSend` and `NetkvmReceive` have the DPC, the timer after an
unfinished DPC and the check for a hanging DPC as threads that run the same
routine. `lock` is `SendLock` or `ReceiveLock`; `counterDPCInside` and
`dpcReceiveActive` are the code's gates. `aborted` has the packets that were queued when
sending stopped while others waited: `SuccessIsSent` makes no claim of their
status, which is wrong (4.3).

NDIS 6: `NetkvmInit` walks `ParaNdis6_Initialize` with every failure it can have.
It leaves out RSC's offload message and the ARP announcement, and no control
message is lost. `NetkvmFlow` is the build for Windows CE, where `CompleteStopping`
takes no lock; `NetkvmTx` is the build that has its spin locks. In `NetkvmProtocol`
the threads under the protocol's mutex (`vf`, `adapter`, `work`) and those that use the
binding (`user`, `returner`) are lists of operations. An operation may put
others in front of the rest, as a call does; `orphaned`, `unheard`, `leaked` mark what
the code loses (section 4.3), after which the properties promise less.

## 4. Runs

| Run | Module | Checks |
|---|---|---|
| `blk_two_threads` | `MCVirtioBlk` | `ServiceSpec`, `CounterMatches`, `BatchFits`, `OwnedUntouched`: two threads, a ring that holds one sector, indices modulo 4, time-outs at any wait, lost and spurious notifications and interrupts |
| `blk_calls` | `MCVirtioBlk` | `TypeOK`, `PagesSafe`, `CallsReturn`: every kind of request, refused or not, pages that cannot be locked or unlocked, a lossy device; calls return by the time-out |
| `blk_prompt` | `MCVirtioBlk` | `CallsReturn`: two chains to a batch, completed in any order, event index, no time-out at all |
| `lifecycles` | `MCLifecycles` | `DisksSound`, `ActiveAccepted`, `Returns` (disks); `BuffersSound` (NDIS 5 receiving); `NeverRingFull` (sending); `ProtocolSound` (binding); `AllEnd` (resets, halts, changes of power and unbinding end, packets are completed) |
| `interrupts` | `MCIntr` | `NoneStuck`, `ArmedIsInactive`, `NoUnexpectedTrigger`, `RaisedIsServed` (`OalIntr`); `CpusCounted` (`OalMp`); `SerialSound` (`KitlSerial`, `Pl011`); `PlaySound` (`Pl041`); `MacSound` (`Smsc9118Mac`); `AllServed` (frames arrive, bytes are read, buffers are played, requests complete) |
| `queues` | `MCQueues` | `AllOffered`, `ServiceSpec`, `BuffersUntouched` (`VirtioTablet`); `DataSound` (`Smsc9118Data`); `AllHandled` |
| `safety` | `MCSafety` | `ClockSafe` (`OalTimer`), `DatesRight` (`OalRtc`), `RingSound`, `ServiceSpec` (split virtqueue), `PackedSound`, `PackedServes` (packed virtqueue), `FlowsSound` (`NetkvmFlow`), `PacketsSound` (`NetkvmSend` with the check for hanging DPCs, `NetkvmReceive` with batches, `NetkvmFlow` with two threads), `TxSound`, `AdaptersSound` (`Smsc9118Adapter`, `Lan9118`, `NetkvmInit`), `PortsSound` (`Pl050`) |
| `dsk_failed_init` | `MCDskLifecycle` | violation of `ListedIsValid` |
| `dsk_close_race` | `MCDskLifecycle` | violation of `CritUnheldAtDelete` |
| `intr_reopen` | `OalIntr` | violation of `EnableEnables` |
| `tab_wrap` | `VirtioTablet` | violation of `HandledOnce` |
| `timer_idle` | `OalTimer` | violation of `TickCountIsUptime` |

Deadlock is checked in the runs of the block driver with time-outs. `blk_prompt`
does without: a missed wake-up would stop the system, and `CallsReturn` is to be
what says that none is missed. In the compositions the parts come to their bounds and
stop.

### 4.1 Bounds, and why they are enough

* Indices of 2^16 are modelled modulo 4 or 8 (`IdxMod`), never smaller than the
  ring; they wrap in the middle of a batch, and the code uses them only through
  differences, equality and the ring mask.
* Disk I/O: a ring of 4 holds exactly one sector (`Reserve` = 4 with `MaxSgBuf` = 1), so
  each request of two sectors is split; a ring of 8 holds two chains, the least that
  can be completed out of order. Segment lengths are in quarter sectors with a
  header of one: a sector of one segment and one of two, which is what a page
  boundary makes. Two threads: the critical section admits one, the other waits.
* Disks: one user, one manager, two addresses in `lifecycles`, requests of two
  batches: the least with which a handle becomes stale. The theorem is about any
  number; the two violation runs have two users and three addresses.
* Tablet: five events through a ring of four with indices modulo eight: all
  buffers go round; `used` does not wrap, which is `tab_wrap`'s question, with
  nine events.
* Timer: a millisecond of 3 and a period of 8 microseconds (not a multiple, as a
  register read at any point is), latency 2, 28 microseconds: the counter starts
  again three times.
* Interrupts: two lines, so that one can be served while the other is taken; two
  CPUs beside the first, for the two exclusive stores that meet; two frames, one
  fault, bytes modulo 4 and an MTU of 6 for a line that loses its framing in the
  header, in the payload and between frames; two threads and two openings of the
  serial port, of two bytes, and no new calls once a read has outlived its opening,
  of which nothing is claimed; a FIFO of four and buffers of one and four samples for a half that
  a buffer fills, and does not; two filter settings, one change of the link, one
  error.
* Lifecycles: four packets of all kinds through two descriptors, one reset; two
  buffers, three frames and a limit of one per DPC; two bindings, one change of
  status, three of power, one packet each way.
* Queues: two packets in the receive ring, a FIFO of four units, and loads of one
  to three packets each way: the ring is empty and full, the FIFO has and lacks room.
* Safety: two buffers of one and two descriptors in rings of two, with event indices or
  indirect descriptors or both, and a queue shut down once; a thread that
  sends and receives while NDIS asks for anything, and two around restarts and pauses, and
  around the binding; two lists of
  buffers; every set of the features that depend on each other with up to five
  messages; three keys of four kinds, two reports of four mice.

### 4.2 Fairness

Every fairness condition is of one thread, one device or one interrupt.

* Threads run (weak fairness of a thread's steps); a critical section is
  granted in turn (strong fairness of entering), since the kernel queues its
  waiters by priority and the priorities are equal.
* The device works off its queue and raises its interrupt; the interrupt is
  delivered (weak fairness). A packet that NDIS has it returns.
* `PromptSpec` has no time-outs in its next-state relation: `CallsReturn` says
  there that the wake-up protocol alone suffices. `TimeoutSpec` adds that a
  wait that nothing ends is ended by its time-out and that, of
  notifications sent again and again, one arrives.
* `VirtioTablet` allows time-outs and does not rely on them.
* `OalIntr`: the handler goes on, the lines are taken in turn, and drivers go on;
  strong fairness because another line's interrupt may come first, or the handler
  occupy the driver's CPU, again and again. The handler of `Smsc9118Mac` has
  strong fairness for the same reason: the ISR comes between any two steps of it.
* `DskLifecycle` lets each batch end, which is `CallsReturn` of `VirtioBlk`.
  Nobody has to call, activate or deactivate.
* A composition has the fairness of all its parts. Where a part begins nothing of it
  has to happen, so that of the parts that do not run asks for nothing;
  the tablet's thread has a step to make from the start, so `Queues` asks for
  that only where it runs.
* `safety` is without fairness: lateness, where a property is about it, is
  bounded in the steps.

### 4.3 What the code gets wrong

With a run:

* `dsk_failed_init`: `DSK_Init` links a disk before it knows that the device
  answers, and frees it without unlinking it when it does not.
* `dsk_close_race`: `CloseDisk` enters and leaves the disk's critical section
  once and deletes it, although a call that was accepted may enter it again
  for its next batch.
* `intr_reopen`: on another CPU than the handler's, a driver may look for the event
  it has to acknowledge before the kernel has set it; the line stays active for good.
* `tab_wrap`: a 32-bit `last_used_idx` is compared with a 16-bit index; after
  65536 events the drain loop never ends.
* `timer_idle`: the clock is kept by a counter that starts again each second
  and read by an interrupt that comes each second; if nobody else reads
  it, a second is lost whenever the interrupt is taken no sooner than the last.

Met while modelling, without a run of its own. Most of it is in a model, whose
properties then except it by name (`orphaned`, `unheard`, `leaked` of
`NetkvmProtocol`, `swallowed` and `skipped` of `Smsc9118Mac`, `disturbed` of `Pl050`,
`turned` of `VirtIORingPacked`, `wiped` and `outlived` of `Pl011`, `raced` of `Lan9118`,
`aborted` of `NetkvmSend`, `late` of `NetkvmFlow`, and so on).

* virtio_blk: `sr_start + sr_num_sec` is computed in 32 bits, so a request whose end
  wraps passes the check (`Refusal` keeps the width). Two first activations at once
  initialise `v_DiskCrit` anew while one holds it.
* pl011: `COM_Read` takes back the break of `COM_Close` if its `ResetEvent`
  (pl011.cpp:253) comes after line 221: it then waits on handles that are closed
  under it, and sleeps on. If it comes to wait after `CloseHandle`, the failed wait is
  taken for an interrupt (256), and it takes bytes and calls `InterruptDone` although
  the port is closed; if the port has been opened again, those of another reader
  (`wiped`, `outlived`).
* timer.c: the leap day is added only where `wMonth == 1`, when there are no months to
  add up (103, 158): a date after the February of a leap year is set a day early.
  `OEMSetAlarmTime` refuses the times that are yet to come (165) and takes those
  that are past, whose match never comes unless the clock is set back; an alarm for
  the present second is raised as it is written (168) and cleared by the next line
  (169, 120), so that it does not ring either. No alarm rings because its time has come.
* pl050: `~Ps2Keybd` disables its line without silencing the device (`OalIntr` with
  `Silent` false violates `NoUnexpectedTrigger` and `NoneStuck`); the mouse is
  reset at power-up without `HardwareLock`; `EnterWrite` drains both ports;
  `KeybdDataRead` returns stale data and always succeeds.
* smsc9118: `RegisterAdapter` always unlinks the adapter, so `Halt`'s walk finds no
  list; a failed `InitializeQueues` frees an adapter whose interrupt is registered;
  a wake-up that times out leaves the PHY down and the interrupt off; removing a partly
  masked pattern never disables its filter; a filter set without a link is forgotten;
  the recovery from a receiver error may swallow the stop a request waits for.
* lan9118: an access tests for busy before it takes the lock (145, 180) and leaves
  the lock when it has polled 40 times (122-130, 157-161, 196-199), the PHY's after
  100 (284-295), with the command still under way: a thread past its test then overwrites
  it, although lan9118.c:67-70 calls the access "multi-thread safe"
  (`raced`). A write that meets a busy MAC is left out without a
  word (`missed`), and a read that gives up returns 0xFFFFFFFF, which callers that
  change a bit of MAC_CR write back.
* netkvm, NDIS 5: packets still queued when sending stops while others wait are
  marked ready and completed with their status, SUCCESS, although they are never sent
  (ParaNdis5-Impl.c:1374-1382); with none waiting they get REQUEST_ABORTED (1389)
  (`aborted`). An indirect packet is checked for one free buffer and takes all of its
  own, so that the unsigned count wraps (ParaNdis-Common.c:1774) and the next
  packet meets a full ring.
* VirtIORing-packed: `avail_wrap_counter` misses the turn of a chain that takes the whole
  ring (3.9).
* netkvm, NDIS 6: MSI-X without a control queue never signals changes of the link; one
  between the reading of the link and DRIVER_OK is lost; a failure to create the
  control path leaves more path bundles than there are; a failed `set_features` at power-on
  leaves the queues shut down; a failed third call for attributes leaves the interrupt
  registered; a late control answer is taken for the next command's;
  `OnAdapterHalted` keeps the adapter's pointer to a binding that may then go; `SetOidAsync`
  leaks a reference; a work item that cannot be allocated leaves the function's status
  unheard; `NeedsReset` to `Reset` trips the state machine's assertion;
  `BuildCancelList` drops packets whose buffers are out; in the build for Windows CE two
  threads may complete one stop, the second of them after a restart (`late` of `NetkvmFlow`).
* netkvm, offloads (not modelled): the pseudo header of an IPv6 packet with extension headers
  takes the wrong protocol; fragments are verified as whole packets.

## 5. Proofs

TLC checks small instances; TLAPS proves the following for every value of the
constants. Each theorem of the form `Spec => []P` rests on an invariant that is
inductive, of which the first thing to know is why `P` alone is not. A theorem about
a part of a composition is about that part's specification (`Mp!Spec`), since
the part's properties hold of the composition exactly if they hold of the part. What
a theorem assumes is a named hypothesis; each of them was found to be necessary by
TLC, or says what a number is.

| Property that a run checks | Theorem | Assumed |
|---|---|---|
| `TypeOK`, `BatchFits`, `CounterMatches`, `OwnedUntouched` | `VirtioBlk_proofs`: `TypeCorrect`, `BatchesFit`, `CompletionsMatched`, `OwnedDescriptorsUntouched` | the named assumptions of `VirtioBlk` |
| `PagesSafe` | `VirtioBlk_proofs`: `PagesAreSafe` | the same |
| `ServiceSpec` (disk) | `VirtioBlk_proofs`: `ImplementsService` | the same |
| `DisksSound`, `ActiveAccepted` | `Lifecycles_proofs`: `DisksAreSound`, `ActiveOnesAccepted` | `Orderly` |
| `AllOffered`, `BuffersUntouched`, `ServiceSpec` (tablet) | `Queues_proofs`: `AllAreOffered`, `BuffersStayUntouched`, `ImplementsService` | `BeforeWrap` |
| `DataSound` | `Smsc9118Data_proofs`, `Queues_proofs`: `DataIsSound` | `Sizes` |
| `BuffersSound` | `NetkvmReceive_proofs`, `Lifecycles_proofs`: `BuffersAreSound` | finitely many buffers |
| `ProtocolSound` | `NetkvmProtocol_proofs`, `Lifecycles_proofs`: `ProtocolIsSound` | nothing |
| `NoneStuck`, `ArmedIsInactive`, `NoUnexpectedTrigger` | `Interrupts_proofs`: `NeverStuck`, `ArmedTellsActive`, `NothingUnexpected` | `SafeUse` |
| `CpusCounted` | `Interrupts_proofs`: `CountedCpusRun` | `Board` |
| `PlaySound` | `Interrupts_proofs`: `PlayIsSound` | `WaveNumbers` |
| `RingSound` | `Safety_proofs`: `RingAlwaysSound` | `RingSizes` |
| `ServiceSpec` (split virtqueue) | `Safety_proofs`: `RingIsService` | `RingSizes` |
| `ClockSafe` | `Safety_proofs`: `ClockIsSafe` | `~Idle` |
| `FlowsSound` | `Safety_proofs`: `FlowsAreSound` | `FlowThreads` |

**VirtioBlk_proofs.** `IInv` is the conjunction of `TypeOK`, `CritInv` (a thread
within a batch is the owner of `crit`), `BatchInv` (while a sector is added
there is room for the longest one, and each took three descriptors or more), `CounterInv`
(`ops_counter` is what has been published and not drained) and `QueueInv` (the four
indices of the ring come in order). That a descriptor of the device's is not
rewritten follows only if no other thread is in a batch and the batch before was
drained to the end, which is `CritInv` with `CounterInv`.

`PagesAreSafe` adds `PagesInv`: a call has its pages locked from `LockPages` to
`UnlockPages` (`PinInv`), and every chain of the batch, offered or about to be,
carries a sector of the thread in the critical section (`FilledInv`, `OwnerInv`): so the
pages of a sector the device has are locked.

`ImplementsService` shows that every step of `VirtioBlk` is a step of `BlkService`, or
stutters, under the mapping `Service`. It adds `ServiceInv`. `CallInv` tells how far a
call has got; `AddedInv`, that the chains a batch has added carry different sectors and
lie behind each other in the table; `DeviceInv`, what the device owes (`Owed`):
each chain it has leads to a status byte of its own, for a sector not yet carried out,
and each it has used carries that sector's outcome; `FailureInv`, that a failure is in
`ops_failure` or still to be found in the used ring; `TodoInv`, that no sector that was
added is forgotten. Chains are followed through descriptors, so the proof describes
what is laid there (`Laid(h, last)`) instead of unfolding the recursive `Chain`, and
where an induction would be needed (the head of a batch is the least of the indices)
it uses that a set of naturals has a least element. That entries of the ring do not fall
on each other (`SlotsApart`) is where `Num` has to divide 2^16.

The assumptions: the ring holds the longest sector and its size divides the range
of the indices (`SizesAssumption`); a sector has between one and twice `MAX_SG_BUF`
segments, which add up to a sector (`RequestsAssumption`, `Covered`); `NoThread` is none.

**Lifecycles_proofs.** Of the disks: `DskInv` describes the heap: the disks in the list are a
sequence without repetition, `v_DiskList` and `d_next` lead along it, and who walks
is at some place of it, with what is before checked already (`WalkInv`, `SeekInv`); who may
still use a disk that is out of the list (`UserInv`, `ManagerInv`). The list is bound by
an existential quantifier, over its length as well, so that adding and removing at any
place are changes of that sequence. `Orderly`: disks are deactivated by a manager that
waits for calls to return (`ManagerWaits`; `dsk_close_race` shows why), activation does
not fail after the linking (`~InitFails`; `dsk_failed_init`), and one thread activates
(two first activations would initialise the critical section twice). The device manager of the
system has one thread for this. The theorems of `NetkvmReceive_proofs` and
`NetkvmProtocol_proofs` are stated here too, of these parts as `Lifecycles` has them.

**Queues_proofs.** Of the tablet: `TabInv` counts: what is offered, reported, drained and handled
are one sequence of numbers cut at four places (`Counts`, `Offered`, `Reported`,
`InOrder`), and `Filling` is what of it `populate_buffers` has written and not
published. `BeforeWrap` (fewer events than the range of the index) is what `tab_wrap`
shows to be needed: the guarantee ends after 65536 events. The theorem of
`Smsc9118Data_proofs` is stated here of the Ethernet part of `Queues`.

**Smsc9118Data_proofs.** The four rings are read as sequences (what leaving one of them and
entering it do to that sequence are the lemmas `RingGot` and `RingPut`). On the receive side, `RxPlaced`: each
packet is in one place of the free ring, the full ring, the DPC's array, NDIS and the hands
that carry it, so by counting no ring is ever full (`Room`); `RxMarked`: a packet that NDIS
keeps stays in the array until the DPC reaches it; `RxOrdered`: frames rise along
the way from what NDIS has seen through the array and the full ring to the RX FIFO (`Way`).
On the send side, `TxOnce`: a packet that is deferred or still in the array is not on the
wire and not answered; `TxOrdered`: calls are answered in order, and all that waits while
`SendPackets` goes through its array is of that call. `Sizes`: the number of packets is
natural, and the calls are sequences of natural numbers.

**NetkvmReceive_proofs.** `ReceiveInv`: `GateInv` (how many threads are counted by
`counterDPCInside`, and at most one has claimed `dpcReceiveActive`), `PauseInv` (where stop,
power-down and halt are, and what is impossible from there on), `RoundInv` (each buffer is in
exactly one place of the ring, the used ones, a batch, NDIS and those waiting to return)
and `OrderInv` (frames come in order along that way). Proved for any finite set of
buffers, with and without batches.

**NetkvmProtocol_proofs.** The threads' lists of operations are paths: `Follows(k, p, n)`
says which operation may come next in a thread that binds, unbinds, adds, removes, and `Path`
that a list is one. `MutexInv` reads off the path who holds the mutex. `BindInv`,
`RefsInv` and `LinkInv` say how the list of bindings, the count of references and the flows
hang together at each place; `CalmInv` and `StagesInv`, how far a start or a stop of the flows
has come (`Even`: both run or neither; `BoundIff`: bound exactly if there are an
adapter and a function that fit); `UpInv`, who will still see that the function is up
when it is not in use yet; `UserInv`, that who uses the binding holds a reference. No
hypothesis is needed: the code's slips are marked in the state, and the property
excepts them itself.

**Interrupts_proofs.** Of `OalIntr`: `LinesInv` says of the handler (`HandlerInv`), of each
line (`HandInv`: active lines are in exactly one pair of hands) and of each driver
(`DriverInv`) what `irq_armed` is at that point. `SafeUse`: no driver closes, or drivers close
on the handler's CPU and silence their devices first. `intr_reopen` shows that this is
needed.

Of `OalMp`: `MpInv`; a store-exclusive that will succeed stores the successor of the count
(`CountInv`), the SGI that starts a CPU is sent when the globals are set (`StartInv`), and
what the kernel is told is at most the CPUs that run, and all of them if they are
prompt (`ToldInv`). `Board`: finitely many CPUs, and a timer loaded with more than the half
at which the counting ends.

Of `Pl041`: `WaveInv`; in whose hands the interrupt is (`WaveHandInv`), that half the FIFO is
free when a half is transferred (`HalfInv`), the rate (`RateInv`), and that what is
written, what is left of the queued buffers and what the application has come behind
one another (`SamplesInv`, with `Sorted` and `ComeBefore`). `WaveNumbers`: sizes and lengths
are natural numbers.

Of `Smsc9118Mac`: what ISR and handler have still to do are `Path`s, lists in which no
operation stands before one it may not precede (`Fits`), each write of MAC_CR comes
right after its read (`Meets`), and one that needs a later one is followed by it (`Leads`);
the lists the code begins with are joined from short ones (`ListJoined`). On
these rest who has asked for a stop or a software interrupt, and that it is pending
(`AskInv`), that the ISR does what was asked first (`IsrInv`), that a receiver that is to
stop runs until it is told (`StopInv`), that the handler's copy of MAC_CR is
fresh (`RegInv`), that what is not yet set is still on a list or asked for (`SetInv`), and
the same of the link (`LinkInv`). `MacLinks`: the links are those there are.

**Safety_proofs.** Of the split virtqueue: `RingInv`. `TableInv` says that there are sequences,
one of the free descriptors and one for each head, that `next` leads along and that have
nothing in common. `OwnInv` reads the available ring from where the device stands to
where the driver does, and the used ring likewise: their entries, and the heads the device
holds, are heads of chains and all different; so by counting (`RoomInv`) neither ring
overruns its reader. `KickInv`, `FlagInv` and `SignalInv` say what each side has told the other
before it sleeps: a device that sleeps has asked to be told of the next entry, and was told of
all but those added since the last kick; a driver that sleeps has its interrupts on, and has as
much to find as it waits for only if an interrupt is on its way. Excepted is a driver that
was `misjudged`: the comparison of `enable_cb_delayed` is in `int`, and wrong when an index has
wrapped. `ResetInv`: a stopped queue is
at rest. The chain that `detachbuf` walks is a recursive function (`Follow`), about which the proof
finds what it needs without induction, by the least place at which it leaves the sequence.
`RingSizes` says what the numbers are: the ring's size divides the range of the indices, which
is greater, a buffer has at least one descriptor, and `NoBuf` is none of the buffers. That it
divides is where `SlotsApart` needs it: two indices less than `Num` apart have different places.

`RingIsService` shows that every step is one of `VirtqueueService`, or stutters. It adds
`BufInv`: no two chains have the same buffer, and none has one that the driver has as well. The
mapping reads `given` off the chains and `used` off the used ring, from `last_used` to
`used_idx`, as the sequence `View` of the buffers of those heads: `dequeue` takes its first
(`get_buf`), the device adds a last, and no other step changes an entry inside. A buffer
counts as given from the moment its index is published, before which it is the driver's:
the descriptors are written, and the entry, but the device cannot see them.

Of the clock: `ClockInv` adds to the checked invariants `ElapsedInv` (the
counter tells the time since it was read last, which is less than a period) and
`WaitInv` (the one-shot never expired unseen, and a call in progress knows how
long to wait). The arithmetic is in the lemmas `UpdateExact` (dividing into
milliseconds and a rest loses nothing) and `WaitExact`. `~Idle`: the kernel looks at
the clock within each period; `timer_idle` shows why.

Of the flows: `FlowIInv`. What is left of each thread's call is a list whose shape is known
(`ShapeInv`): a user's is of one flow, and that of a flow's owner is what remains of a start or
a stop (`Part`), followed by operations that touch no flow but may begin one of them. So at any
flow a thread is about to do one thing (`Doing`), and a step takes it from there to the next (`Goes`),
which is all that the rest of the proof knows of lists. `FlowAt` has of each flow what its state, bit
and event may be while its owner is there (`StateAt`), that whoever completes a stop finds it
masked and empty (`EndAt`), and the counter (`CountAt`). It promises nothing of a flow that is `late`:
of which a thread still has a stop to complete that another completed as well.
`BindInv` has the same of the binding's pointer. `MpInv` says where NDIS is in what it asked for
(`Phases`) and with it the states of the adapter and of its data flow (`Known`): that is why the
queues are shut down only when the flow is stopped, and why the flow runs when the miniport
does, though between two operations neither holds. It ends when the state machine refuses a state, and
`FlagsInv` says why it may: the device asked for a reset, was removed, or is shut down. `FlowThreads`:
finitely many users, none of which is NDIS, the virtual function or the DPC; NDIS asks for something
only where there is a data flow.

Model-checked only:

* liveness (`CallsReturn`, `Returns`, `RaisedIsServed`, `AllServed`, `AllEnd`, `AllHandled`):
  the prover does neither fairness nor ENABLED;
* `SerialSound`: that a damaged frame is dropped needs an induction over the bytes a check sum
  folds, and induction over data is out of reach;
* `DatesRight`: the calendar's loops are recursive, what they compute for every year is
  an induction;
* the parts of `MCSafety`, whose modules reach the calendar's: `PackedSound` and `PackedServes`
  (the packed ring; its `turned` stops the argument that carries the split one),
  `PacketsSound` (its receiving half is proved in `NetkvmReceive_proofs`, with and without batches;
  sending counts descriptors with a fold), `TxSound`, `AdaptersSound`, `PortsSound`;
* `NeverRingFull`: that the descriptors fit is a sum over the packets in the ring, a fold
  again.

## 6. Not modelled

* Of virtio_blk: the walk that cuts an SG list into segments at page and sector
  boundaries (its result is `RequestsAssumption`), control codes that copy
  disk information, `DSK_Open`, registry and power.
* Of virtio_tablet: what `process_event` makes of an event, and
  `TouchPanelDisable`, which frees the rings under the update thread.
* Of the OAL: `OEMInterruptMask` (no driver of the board calls it); two CPUs in
  `update_timer` at once; the first CPU's own start; power, memory, debug, ioctl and cache
  routines, which are stubs and single register accesses.
* `COM_Write` (a loop on one flag) and settings of the serial port; volume,
  capabilities and power of the audio driver; exit and destructors of pl050.
* Of smsc9118: queries of statistics; its platform's DMA functions are stubs.
* The PCI transports of the virtio library.
* Of netkvm: the OID handlers, RSS, the parsing of packets for offloads and the NDIS 6
  receive path; its tools and installers are not part of the image.
* The boot loader is a template of stubs; `nkbinconvert` is sequential file I/O.

## 7. Plan

1. Proofs: `TxSound`, `PortsSound`, and the packed ring while it has not `turned`. Each moves
   from `MCSafety` to `Safety` first.
2. `SgWalk`: the bytes of each sector are covered once, by at most two segments for
   each entry, against a reference definition; with it `RequestsAssumption` would be a theorem.
3. The NDIS 6 receive path and RSS, which share `NetkvmFlow` and `NetkvmInit`'s queues.
4. Two CPUs in `update_timer`; `TouchPanelDisable` against the update thread.
