------------------------------ MODULE VirtIORing ------------------------------
(***************************************************************************)
(* The split virtqueue of the virtio library: the free list of descriptors *)
(* threaded through their next fields, the available and the used ring     *)
(* with their free-running 16-bit indices, and the suppression of kicks    *)
(* and of interrupts, by flags or by event indices.  The driver calls one  *)
(* routine at a time (it holds the queue's lock); the device runs between  *)
(* any two accesses to the memory they share.                              *)
(*                                                                         *)
(* The driver here is the library's usual one: it sleeps with interrupts   *)
(* enabled, and an interrupt makes it disable them, take what has been     *)
(* used, enable them and look once more.                                   *)
(***************************************************************************)
EXTENDS Integers, Sequences, FiniteSets, SequencesExt, Functions

CONSTANTS
  Num,          \* vring.num, a power of 2
  IdxMod,       \* 2^16, the range of the indices: a multiple of Num
  Bufs, NoBuf,  \* buffers; NULL
  Need,         \* out + in: how many descriptors each buffer needs
  MaxAdds, MaxResets    \* bounds: buffers added and shutdowns together, shutdowns

RingSizes ==
  /\ Num \in Nat /\ Num > 0 /\ IdxMod \in Nat /\ Num < IdxMod /\ IdxMod % Num = 0
  /\ NoBuf \notin Bufs /\ Need \in [Bufs -> Nat \ {0}]
ASSUME RingAssumption == RingSizes

Descs         == 0 .. Num - 1
Plus(i, k)    == (i + k) % IdxMod               \* (u16)(i + k)
Minus(i, j)   == (i + IdxMod - j) % IdxMod      \* (u16)(i - j)
DESC_INDEX(i) == i % Num

VARIABLES
  event, indirect,      \* event_suppression_enabled; there is an indirect page
  next, NEXT,           \* desc[].next, and whether VIRTQ_DESC_F_NEXT is set
  num_unused, first_unused, opaque,
  master_idx, num_added_since_kick, last_used,
  NO_INTERRUPT,         \* in master_vring_avail.flags
  avail_ring, avail_idx, avail_flags, used_event,       \* written by the driver
  used_ring, used_idx, used_flags, avail_event,         \* written by the device
  mine,         \* buffers the driver has
  pc,           \* where the driver is in a call
  bufs,         \* how many used buffers it is willing to wait for
  awake,        \* it polls; otherwise it waits for an interrupt
  misjudged,    \* enable_cb_delayed went wrong, see below
  held, taken,  \* heads of chains the device has, and the avail index up to where
  dev, signal, old,     \* where the device is, and its used index when it signalled last
  irq,          \* an interrupt under way
  adds, resets

ringVars  == << next, NEXT, num_unused, first_unused, opaque >>
countVars == << master_idx, num_added_since_kick, last_used, NO_INTERRUPT >>
driverMem == << avail_ring, avail_idx, avail_flags, used_event >>
deviceMem == << used_ring, used_idx, used_flags, avail_event >>
callVars  == << mine, pc, bufs, awake, misjudged, adds, resets >>
devVars   == << held, taken, dev, signal, old >>
vars == << event, indirect, ringVars, countVars, driverMem, deviceMem, callVars, devVars, irq >>

(* vring_new_virtqueue_split, and the device after its reset.              *)
FreshNext == [d \in Descs |-> IF d = Num - 1 THEN 0 ELSE d + 1]
FreshNEXT == [d \in Descs |-> d # Num - 1]
Zeros     == [d \in Descs |-> 0]

Init ==
  /\ event \in BOOLEAN /\ indirect \in BOOLEAN
  /\ next = FreshNext /\ NEXT = FreshNEXT
  /\ num_unused = Num /\ first_unused = 0 /\ opaque = [d \in Descs |-> NoBuf]
  /\ master_idx = 0 /\ num_added_since_kick = 0 /\ last_used = 0 /\ NO_INTERRUPT = FALSE
  /\ avail_ring = Zeros /\ avail_idx = 0 /\ avail_flags = FALSE /\ used_event = 0
  /\ used_ring = Zeros /\ used_idx = 0 /\ used_flags = FALSE /\ avail_event = 0
  /\ mine = Bufs /\ pc = "idle" /\ bufs = 0 /\ awake = FALSE /\ misjudged = FALSE
  /\ held = {} /\ taken = 0 /\ dev = "asleep" /\ signal = FALSE /\ old = 0
  /\ irq = FALSE /\ adds = 0 /\ resets = 0
-----------------------------------------------------------------------------
(* Following next: n descriptors from d; the chain that begins at d.       *)
Follow[n \in 0 .. Num] ==
  [d \in Descs |-> IF n = 0 THEN << >> ELSE << d >> \o Follow[n - 1][next[d]]]
Chain(d) ==
  LET path == Follow[Num][d] IN
  SubSeq(path, 1, CHOOSE n \in 1 .. Num : /\ NEXT[path[n]] => n = Num
                                          /\ \A i \in 1 .. n - 1 : NEXT[path[i]])
FreeList  == Follow[num_unused][first_unused]

HasBuf == last_used # used_idx

(* vring_need_event: new has gone past event_idx since before.             *)
need_event(event_idx, new, before) == Minus(new, Plus(event_idx, 1)) < Minus(new, before)

NoCall == pc = "idle" /\ dev # "reset"

(* virtqueue_add_buf_split: n descriptors off the free list, or one that   *)
(* points to an indirect page.                                             *)
AddBuf(b) ==
  LET m     == IF indirect /\ Need[b] > 1 /\ num_unused > 0 THEN 1 ELSE Need[b]
      chain == SubSeq(FreeList, 1, m) IN
  /\ NoCall /\ b \in mine /\ m <= num_unused /\ adds + resets < MaxAdds /\ adds' = adds + 1
  /\ NEXT' = [d \in Descs |-> IF Contains(chain, d) THEN d # Last(chain) ELSE NEXT[d]]
  /\ first_unused' = next[Last(chain)] /\ num_unused' = num_unused - m
  /\ opaque' = [opaque EXCEPT ![Head(chain)] = b]
  /\ avail_ring' = [avail_ring EXCEPT ![DESC_INDEX(master_idx)] = Head(chain)]
  /\ mine' = mine \ {b} /\ pc' = "publish"
  /\ UNCHANGED << next, countVars, avail_idx, avail_flags, used_event, deviceMem, bufs, awake,
                  misjudged, resets, devVars, irq >>

(* After the barrier.                                                      *)
Publish ==
  /\ pc = "publish" /\ pc' = "idle"
  /\ master_idx' = Plus(master_idx, 1) /\ avail_idx' = master_idx'
  /\ num_added_since_kick' = num_added_since_kick + 1
  /\ UNCHANGED << ringVars, last_used, NO_INTERRUPT, avail_ring, avail_flags, used_event, deviceMem,
                  mine, bufs, awake, misjudged, adds, resets, devVars, irq >>

(* virtqueue_kick_prepare_split, virtqueue_kick.                           *)
KickLast ==   (* mutant: asks of the last one added only *)
  IF event THEN avail_event = Minus(master_idx, 1) ELSE ~used_flags
KickPrepare ==
  IF event
    THEN \/ num_added_since_kick >= IdxMod
         \/ need_event(avail_event, master_idx, Minus(master_idx, num_added_since_kick % IdxMod))
    ELSE ~used_flags

(* A device that sleeps begins to run when it is notified and asks for no  *)
(* more kicks; one that runs looks again before it sleeps.                 *)
DevWake == dev' = "running" /\ used_flags' = ~event

Kick(always) ==
  /\ NoCall /\ num_added_since_kick > 0 /\ num_added_since_kick' = 0
  /\ IF dev = "asleep" /\ (always \/ KickPrepare) THEN DevWake ELSE UNCHANGED << dev, used_flags >>
  /\ UNCHANGED << ringVars, master_idx, last_used, NO_INTERRUPT, driverMem, used_ring, used_idx,
                  avail_event, callVars, held, taken, signal, old, irq >>

(* put_unused_desc_chain.                                                  *)
PutChain(h) ==
  LET chain == Chain(h) IN
  /\ opaque' = [opaque EXCEPT ![h] = NoBuf]
  /\ NEXT' = [NEXT EXCEPT ![Last(chain)] = TRUE]
  /\ next' = [next EXCEPT ![Last(chain)] = first_unused]
  /\ first_unused' = h /\ num_unused' = num_unused + Len(chain)
  /\ mine' = mine \cup {opaque[h]}

(* It takes what was used last, not what was used first.                   *)
GetBufLatest ==
  /\ awake /\ NoCall /\ HasBuf
  /\ PutChain(used_ring[DESC_INDEX(used_idx + IdxMod - 1)])
  /\ last_used' = Plus(last_used, 1) /\ bufs' = 0
  /\ used_event' = IF event /\ ~NO_INTERRUPT THEN last_used' ELSE used_event
  /\ UNCHANGED << master_idx, num_added_since_kick, NO_INTERRUPT, avail_ring, avail_idx,
                  avail_flags, deviceMem, pc, awake, misjudged, adds, resets, devVars, irq >>

(* virtqueue_get_buf_split.                                                *)
GetBuf ==
  /\ awake /\ NoCall /\ HasBuf
  /\ PutChain(used_ring[DESC_INDEX(last_used)])
  /\ last_used' = Plus(last_used, 1) /\ bufs' = 0
  /\ used_event' = IF event /\ ~NO_INTERRUPT THEN last_used' ELSE used_event
  /\ UNCHANGED << master_idx, num_added_since_kick, NO_INTERRUPT, avail_ring, avail_idx,
                  avail_flags, deviceMem, pc, awake, misjudged, adds, resets, devVars, irq >>

(* virtqueue_disable_cb_split, virtqueue_enable_cb_split: with event       *)
(* indices the flag stays with the driver.                                 *)
SetNoInterrupt(off) ==
  /\ NO_INTERRUPT' = off /\ avail_flags' = IF event THEN avail_flags ELSE off

Interrupt ==
  /\ irq /\ NoCall /\ ~awake /\ irq' = FALSE /\ awake' = TRUE
  /\ SetNoInterrupt(TRUE)
  /\ UNCHANGED << ringVars, master_idx, num_added_since_kick, last_used, avail_ring, avail_idx,
                  used_event, deviceMem, mine, pc, bufs, misjudged, adds, resets, devVars >>

(* Or it looks without waiting for one, and stops when get_buf finds none. *)
Poll ==
  /\ NoCall /\ awake' = ~awake /\ irq' = FALSE
  /\ awake => ~NO_INTERRUPT /\ bufs = 0 /\ ~HasBuf
  /\ UNCHANGED << ringVars, countVars, driverMem, deviceMem, mine, pc, bufs, misjudged, adds,
                  resets, devVars >>

Enable(at, n) ==
  /\ awake /\ NoCall /\ pc' = at /\ bufs' = n
  /\ SetNoInterrupt(FALSE) /\ used_event' = Plus(last_used, n)
  /\ UNCHANGED << ringVars, master_idx, num_added_since_kick, last_used, avail_ring, avail_idx,
                  deviceMem, mine, awake, misjudged, adds, resets, devVars, irq >>

EnableCb        == Enable("check", 0)
EnableCbDelayed == Enable("check_delayed", (Minus(master_idx, last_used) * 3) \div 4)

(* What it returns: nothing has been used; or, for enable_cb_delayed, no   *)
(* more than bufs, the difference being taken in int, not modulo 2^16.     *)
Check ==
  /\ \/ pc = "check" /\ awake' = HasBuf /\ UNCHANGED misjudged
     \/ /\ pc = "check_delayed" /\ awake' = ~(used_idx - last_used <= bufs)
        /\ misjudged' = (misjudged \/ (~awake' /\ Minus(used_idx, last_used) > bufs))
  /\ pc' = "idle"
  /\ IF awake' THEN SetNoInterrupt(TRUE) ELSE UNCHANGED << NO_INTERRUPT, avail_flags >>
  /\ UNCHANGED << ringVars, master_idx, num_added_since_kick, last_used, avail_ring, avail_idx,
                  used_event, deviceMem, mine, bufs, adds, resets, devVars, irq >>
-----------------------------------------------------------------------------
(* The device.                                                             *)
DevTake ==
  /\ dev = "running" /\ taken # avail_idx
  /\ held' = held \cup {avail_ring[DESC_INDEX(taken)]} /\ taken' = Plus(taken, 1)
  /\ UNCHANGED << ringVars, countVars, driverMem, deviceMem, callVars, dev, signal, old, irq >>

DevIdle ==
  /\ dev = "running" /\ taken = avail_idx /\ dev' = "recheck"
  /\ avail_event' = (IF event THEN taken ELSE avail_event) /\ used_flags' = FALSE
  /\ UNCHANGED << ringVars, countVars, driverMem, used_ring, used_idx, callVars, held, taken, signal,
                  old, irq >>

DevRecheck ==
  /\ dev = "recheck" /\ dev' = IF taken = avail_idx THEN "asleep" ELSE "running"
  /\ used_flags' = (~event /\ taken # avail_idx)
  /\ UNCHANGED << ringVars, countVars, driverMem, used_ring, used_idx, avail_event, callVars, held,
                  taken, signal, old, irq >>

(* It signals before it has used more than the ring holds.                 *)
DevUse(h) ==
  /\ h \in held /\ held' = held \ {h} /\ signal' = TRUE /\ Minus(used_idx, old) < Num
  /\ used_ring' = [used_ring EXCEPT ![DESC_INDEX(used_idx)] = h] /\ used_idx' = Plus(used_idx, 1)
  /\ UNCHANGED << ringVars, countVars, driverMem, used_flags, avail_event, callVars, taken, dev, old,
                  irq >>

DevSignal ==
  /\ signal /\ signal' = FALSE /\ old' = used_idx
  /\ irq' = (~awake /\ (irq \/ IF event THEN need_event(used_event, used_idx, old) ELSE ~avail_flags))
  /\ UNCHANGED << ringVars, countVars, driverMem, deviceMem, callVars, held, taken, dev >>
-----------------------------------------------------------------------------
(* Shutting down: the device is reset, what it has not given back is       *)
(* detached, and virtqueue_shutdown_split makes a new queue of the old.    *)
Reset ==
  /\ NoCall /\ resets < MaxResets /\ adds + resets + 1 < MaxAdds /\ resets' = resets + 1
  /\ dev' = "reset" /\ held' = {} /\ signal' = FALSE /\ irq' = FALSE
  /\ UNCHANGED << ringVars, countVars, driverMem, deviceMem, mine, pc, bufs, awake, misjudged,
                  adds, taken, old >>

DetachUnusedBuf ==
  /\ dev = "reset"
  /\ \E d \in Descs :
       /\ opaque[d] # NoBuf /\ \A e \in Descs : e < d => opaque[e] = NoBuf
       /\ PutChain(d)
  /\ master_idx' = Minus(master_idx, 1) /\ avail_idx' = master_idx'
  /\ UNCHANGED << num_added_since_kick, last_used, NO_INTERRUPT, avail_ring, avail_flags, used_event,
                  deviceMem, pc, bufs, awake, misjudged, adds, resets, devVars, irq >>

Shutdown ==
  /\ dev = "reset" /\ \A d \in Descs : opaque[d] = NoBuf
  /\ next' = FreshNext /\ NEXT' = FreshNEXT
  /\ num_unused' = Num /\ first_unused' = 0 /\ opaque' = [d \in Descs |-> NoBuf]
  /\ master_idx' = 0 /\ num_added_since_kick' = 0 /\ last_used' = 0 /\ NO_INTERRUPT' = FALSE
  /\ avail_ring' = Zeros /\ avail_idx' = 0 /\ avail_flags' = FALSE /\ used_event' = 0
  /\ used_ring' = Zeros /\ used_idx' = 0 /\ used_flags' = FALSE /\ avail_event' = 0
  /\ bufs' = 0 /\ awake' = FALSE
  /\ taken' = 0 /\ dev' = "asleep" /\ old' = 0
  /\ UNCHANGED << mine, pc, misjudged, held, signal, irq, adds, resets >>

DriverStep ==
  \/ Publish \/ (\E always \in BOOLEAN : Kick(always)) \/ GetBuf \/ Interrupt \/ Poll
  \/ EnableCb \/ EnableCbDelayed \/ Check

DeviceStep ==
  \/ DevTake \/ DevIdle \/ DevRecheck \/ (\E h \in held : DevUse(h)) \/ DevSignal

Next ==
  /\ UNCHANGED << event, indirect >>
  /\ \/ DriverStep \/ DeviceStep
     \/ \E b \in Bufs : AddBuf(b)
     \/ Reset \/ DetachUnusedBuf \/ Shutdown

Spec == Init /\ [][Next]_vars
-----------------------------------------------------------------------------
(* Every descriptor is free or in the chain of one buffer: the free list,  *)
(* which add_buf, get_buf and detach_unused_buf cut and join, holds        *)
(* num_unused descriptors, and no chain shares one with it or another      *)
(* (VirtIORing.c:182-213, 247-290, 329-333, 488-503).                      *)
Heads == {d \in Descs : opaque[d] # NoBuf}
FreeListSound ==
  /\ Cardinality(ToSet(FreeList)) = num_unused
  /\ \A h \in Heads : ToSet(Chain(h)) \cap ToSet(FreeList) = {}
  /\ \A g, h \in Heads : g # h => ToSet(Chain(g)) \cap ToSet(Chain(h)) = {}

(* A device that sleeps while there is something for it, of which it has   *)
(* had its chance to be told, has been notified (VirtIORing.c:355-388).    *)
KickNotLost == dev = "asleep" /\ taken # avail_idx => num_added_since_kick > 0

(* A driver that sleeps while more has been used than it wants to wait for *)
(* has an interrupt coming: not if enable_cb_delayed, whose last           *)
(* comparison is wrong when the index has wrapped, said so                 *)
(* (VirtIORing.c:395-440).                                                 *)
InterruptNotLost ==
  ~awake /\ NoCall /\ ~signal /\ ~misjudged /\ Minus(used_idx, last_used) > bufs => irq

(* And it does all that VirtqueueService promises.                         *)
UsedBufs ==
  IF dev = "reset" THEN << >>
  ELSE [i \in 1 .. Minus(used_idx, last_used) |->
          opaque[used_ring[DESC_INDEX(Plus(last_used, i - 1))]]]
Unpublished == IF pc = "publish" THEN {opaque[avail_ring[DESC_INDEX(master_idx)]]} ELSE {}
Queue == INSTANCE VirtqueueService WITH
           mine <- mine \cup Unpublished,
           stopped <- dev = "reset",
           used <- UsedBufs,
           given <- (Range(opaque) \ {NoBuf}) \ (ToSet(UsedBufs) \cup Unpublished)

(* The service of the queue, through every add, use and detach             *)
(* (VirtIORing.c:230-346, 488-503).                                        *)
ServiceSpec == Queue!Spec

(* What a driver may rely on in any state: the free list is sound and      *)
(* neither side sleeps on what the other has done (VirtIORing.c:182-503).  *)
RingSound == FreeListSound /\ KickNotLost /\ InterruptNotLost
=============================================================================
