--------------------------- MODULE VirtIORingPacked ---------------------------
(***************************************************************************)
(* The packed virtqueue of the virtio library: one ring of descriptors     *)
(* that driver and device overwrite in turn, telling by two bits of flags  *)
(* and a wrap counter each which round a descriptor belongs to, and a      *)
(* table of what was added, linked into a free list.  As in VirtIORing the *)
(* driver calls one routine at a time and the device runs in between.      *)
(*                                                                         *)
(* avail_wrap_counter misses the turn of a chain that takes the whole ring *)
(* (i = head in the test i < head), and from then on kick_prepare misreads *)
(* the device's event; what happens after that is marked off by turned.    *)
(***************************************************************************)
EXTENDS Integers, Sequences, FiniteSets, SequencesExt, Functions

CONSTANTS
  Num,          \* vring.num
  IdxMod,       \* 2^16, the range of the offsets: more than Num
  Bufs, NoBuf,  \* buffers; NULL
  Need,         \* out + in: how many descriptors each buffer needs
  MaxAdds, MaxResets    \* bounds: buffers added and shutdowns together, shutdowns

Slots    == 0 .. Num - 1
Minus(i, j) == (i + 2 * IdxMod - j) % IdxMod    \* (u16)(i - j)

(* An offset and the wrap counter that goes with it; the same, k later.    *)
Pos(at, wrap) == [at |-> at, wrap |-> wrap]
After(p, k) ==
  IF p.at + k >= Num THEN Pos(p.at + k - Num, ~p.wrap) ELSE Pos(p.at + k, p.wrap)
Between(p, q) == q.at - p.at + IF p.wrap = q.wrap THEN 0 ELSE Num

VARIABLES
  event, indirect,      \* event_suppression_enabled; there is an indirect page
  desc,                 \* AVAIL, USED, NEXT and id of each descriptor
  state_num, state_next, state_last, data,      \* desc_state
  free_head, num_free, num_added,
  next_avail_idx, avail_flag,   \* where the driver writes, and what it writes for AVAIL
  avail_wrap_counter,
  last_used,            \* last_used_idx with used_wrap_counter
  shadow,               \* event_flags_shadow
  driver, device,       \* what each has published: flags and off_wrap
  mine, pc, bufs, awake,
  adding,               \* the buffer add_buf is about to make available
  adds, resets, turned,
  held, taken, usedAt, dev, signal,     \* the device: chains it has, where it reads and writes
  since,                \* descriptors used since it signalled
  irq                   \* an interrupt under way

ringVars   == << desc, state_num, state_next, state_last, data, free_head, num_free >>
driverVars == << num_added, next_avail_idx, avail_flag, avail_wrap_counter, last_used, shadow, driver >>
callVars   == << mine, adding, pc, bufs, awake, adds, resets, turned >>
devVars    == << held, taken, usedAt, dev, signal, since, device >>
vars == << event, indirect, ringVars, driverVars, callVars, devVars, irq >>

Fresh == [avail |-> FALSE, used |-> FALSE, next |-> FALSE, id |-> 0]
FreshNext == [i \in Slots |-> IF i = Num - 1 THEN 0 ELSE i + 1]
Zeros == [i \in Slots |-> 0]
Off   == [flags |-> "enable", pos |-> Pos(0, FALSE)]

(* vring_new_virtqueue_packed, and the device after its reset.             *)
Init ==
  /\ event \in BOOLEAN /\ indirect \in BOOLEAN
  /\ desc = [i \in Slots |-> Fresh] /\ data = [i \in Slots |-> NoBuf]
  /\ state_num = Zeros /\ state_next = FreshNext /\ state_last = Zeros
  /\ free_head = 0 /\ num_free = Num /\ num_added = 0
  /\ next_avail_idx = 0 /\ avail_flag = TRUE /\ avail_wrap_counter = TRUE
  /\ last_used = Pos(0, TRUE) /\ shadow = "enable" /\ driver = Off /\ device = Off
  /\ mine = Bufs /\ adding = NoBuf /\ pc = "idle" /\ bufs = 0 /\ awake = FALSE /\ adds = 0 /\ resets = 0
  /\ turned = FALSE /\ held = {} /\ taken = Pos(0, TRUE) /\ usedAt = Pos(0, TRUE)
  /\ dev = "asleep" /\ signal = FALSE /\ since = 0 /\ irq = FALSE
-----------------------------------------------------------------------------
Follow[n \in 0 .. Num, i \in Slots] ==
  IF n = 0 THEN << >> ELSE << i >> \o Follow[n - 1, state_next[i]]
FreeList == Follow[num_free, free_head]

(* Without regard to the round.                                            *)
is_used_desc_ever(p) == desc[p.at].avail = desc[p.at].used

(* is_used_desc_packed; what the device asks of a descriptor.              *)
is_used_desc(p)  == desc[p.at].avail = desc[p.at].used /\ desc[p.at].used = p.wrap
is_avail_desc(p) == desc[p.at].avail = p.wrap /\ desc[p.at].used # p.wrap
more_used == is_used_desc(last_used)

need_event(off, new, before) == Minus(Minus(new, off), 1) < Minus(new, before)
(* Without regard to the round the event was set in.                       *)
WantedNoWrap(e, at, wrap, count) ==
  IF e.flags # "desc" THEN e.flags = "enable"
  ELSE need_event(e.pos.at, at, Minus(at, count))

Wanted(e, at, wrap, count) ==
  IF e.flags # "desc" THEN e.flags = "enable"
  ELSE need_event(IF e.pos.wrap = wrap THEN e.pos.at ELSE e.pos.at - Num, at, Minus(at, count))

NoCall == pc = "idle" /\ adding = NoBuf /\ dev # "reset"

(* virtqueue_add_buf_packed: n descriptors from next_avail_idx on, n       *)
(* entries of the table off the free list; one that points to an indirect  *)
(* page counts for one.  The head's flags are left for the end.            *)
AddBuf(b) ==
  LET n  == IF indirect /\ num_free > 0 THEN 1 ELSE Need[b]
      id == free_head
      at(k) == (next_avail_idx + k) % Num
      flag(k) == IF next_avail_idx + k >= Num THEN ~avail_flag ELSE avail_flag
      i  == at(n) IN
  /\ NoCall /\ b \in mine /\ n <= num_free /\ adds + resets < MaxAdds /\ adds' = adds + 1
  /\ desc' = [j \in Slots |->
       IF j = next_avail_idx THEN [desc[j] EXCEPT !.id = id, !.next = n > 1]
       ELSE IF \E k \in 1 .. n - 1 : j = at(k)
       THEN LET k == CHOOSE k \in 1 .. n - 1 : j = at(k) IN
            [avail |-> flag(k), used |-> ~flag(k), next |-> k < n - 1, id |-> id]
       ELSE desc[j]]
  /\ next_avail_idx' = i /\ avail_flag' = flag(n)
  /\ avail_wrap_counter' = IF i < next_avail_idx \/ (indirect /\ i = 0)
                             THEN ~avail_wrap_counter ELSE avail_wrap_counter
  /\ turned' = (turned \/ (n = Num /\ ~indirect))
  /\ num_free' = num_free - n /\ free_head' = state_next[FreeList[n]]
  /\ state_num' = [state_num EXCEPT ![id] = n]
  /\ state_last' = [state_last EXCEPT ![id] = FreeList[n]]
  /\ data' = [data EXCEPT ![id] = b]
  /\ mine' = mine \ {b} /\ adding' = b
  /\ UNCHANGED << state_next, num_added, last_used, shadow, driver, pc, bufs, awake, resets, devVars, irq >>

(* The head's flags, after the barrier: the buffer is the device's.  The   *)
(* head and its flag are where the call found them.                        *)
Added == CHOOSE i \in Slots : data[i] = adding
Publish ==
  LET n    == state_num[Added]
      head == (next_avail_idx + Num - n) % Num
      flag == IF next_avail_idx < n THEN ~avail_flag ELSE avail_flag IN
  /\ adding # NoBuf /\ adding' = NoBuf
  /\ desc' = [desc EXCEPT ![head].avail = flag, ![head].used = ~flag]
  /\ num_added' = num_added + n
  /\ UNCHANGED << state_num, state_next, state_last, data, free_head, num_free, next_avail_idx,
                    avail_flag, avail_wrap_counter, last_used, shadow, driver, mine, pc, bufs,
                    awake, adds, resets, turned, devVars, irq >>

(* virtqueue_kick_prepare_packed, virtqueue_kick_always_packed.            *)
KickPrepare == Wanted(device, next_avail_idx, avail_wrap_counter, num_added)

DevWake == dev' = "running" /\ device' = [device EXCEPT !.flags = "disable"]

Kick(always) ==
  /\ NoCall /\ num_added > 0 /\ num_added' = 0
  /\ IF dev = "asleep" /\ (always \/ KickPrepare) THEN DevWake ELSE UNCHANGED << dev, device >>
  /\ UNCHANGED << ringVars, next_avail_idx, avail_flag, avail_wrap_counter, last_used, shadow,
                  driver, callVars, held, taken, usedAt, signal, since, irq >>

(* detach_buf_packed.                                                      *)
DetachBuf(id) ==
  /\ data' = [data EXCEPT ![id] = NoBuf] /\ mine' = mine \cup {data[id]}
  /\ state_next' = [state_next EXCEPT ![state_last[id]] = free_head]
  /\ free_head' = id /\ num_free' = num_free + state_num[id]

(* virtqueue_get_buf_packed.                                               *)
GetBuf ==
  LET id == desc[last_used.at].id IN
  /\ awake /\ NoCall /\ more_used
  /\ DetachBuf(id) /\ last_used' = After(last_used, state_num[id])
  /\ driver' = IF shadow = "desc" THEN [driver EXCEPT !.pos = last_used'] ELSE driver
  /\ bufs' = 0
  /\ UNCHANGED << desc, state_num, state_last, num_added, next_avail_idx, avail_flag,
                  avail_wrap_counter, shadow, adding, pc, awake, adds, resets, turned, devVars, irq >>

(* virtqueue_disable_cb_packed, in the interrupt and after a late answer.  *)
DisableCb == shadow' = "disable" /\ driver' = [driver EXCEPT !.flags = "disable"]

Interrupt ==
  /\ irq /\ NoCall /\ ~awake /\ irq' = FALSE /\ awake' = TRUE /\ DisableCb
  /\ UNCHANGED << ringVars, num_added, next_avail_idx, avail_flag, avail_wrap_counter, last_used,
                  mine, adding, pc, bufs, adds, resets, turned, devVars >>

(* The driver looks without an interrupt, and stops when it finds none.    *)
Poll ==
  /\ NoCall /\ awake' = ~awake /\ irq' = FALSE
  /\ awake => shadow # "disable" /\ bufs = 0 /\ ~more_used
  /\ UNCHANGED << ringVars, driverVars, mine, adding, pc, bufs, adds, resets, turned, devVars >>

(* virtqueue_enable_cb_packed and virtqueue_enable_cb_delayed_packed: the  *)
(* event's place first, then the flags, then a look at the next descriptor.*)
Enable(n) ==
  LET flags == IF shadow # "disable" THEN shadow ELSE IF event THEN "desc" ELSE "enable" IN
  /\ awake /\ NoCall /\ pc' = "check" /\ bufs' = IF flags = "desc" THEN n ELSE 0
  /\ shadow' = flags
  /\ driver' = [flags |-> flags, pos |-> IF event THEN After(last_used, n) ELSE driver.pos]
  /\ UNCHANGED << ringVars, num_added, next_avail_idx, avail_flag, avail_wrap_counter, last_used,
                  mine, adding, awake, adds, resets, turned, devVars, irq >>

EnableCb        == Enable(0)
EnableCbDelayed == Enable(((Num - num_free) * 3) \div 4)

Check ==
  /\ pc = "check" /\ pc' = "idle" /\ awake' = more_used
  /\ IF awake' THEN DisableCb ELSE UNCHANGED << shadow, driver >>
  /\ UNCHANGED << ringVars, num_added, next_avail_idx, avail_flag, avail_wrap_counter, last_used,
                  mine, adding, bufs, adds, resets, turned, devVars, irq >>
-----------------------------------------------------------------------------
(* The device.  A chain is as long as its NEXT flags say.                  *)
ChainLen[n \in 0 .. Num, i \in Slots] ==
  IF n = 0 \/ ~desc[i].next THEN 1 ELSE 1 + ChainLen[n - 1, (i + 1) % Num]

DevTake ==
  /\ dev = "running" /\ is_avail_desc(taken)
  /\ LET n == ChainLen[Num - 1, taken.at] IN
     /\ held' = held \cup {[id |-> desc[(taken.at + n - 1) % Num].id, num |-> n]}
     /\ taken' = After(taken, n)
  /\ UNCHANGED << ringVars, driverVars, callVars, usedAt, dev, signal, since, device, irq >>

DevIdle ==
  /\ dev = "running" /\ ~is_avail_desc(taken) /\ dev' = "recheck"
  /\ device' = [flags |-> IF event THEN "desc" ELSE "enable", pos |-> taken]
  /\ UNCHANGED << ringVars, driverVars, callVars, held, taken, usedAt, signal, since, irq >>

DevRecheck ==
  /\ dev = "recheck"
  /\ IF is_avail_desc(taken) THEN DevWake ELSE dev' = "asleep" /\ UNCHANGED device
  /\ UNCHANGED << ringVars, driverVars, callVars, held, taken, usedAt, signal, since, irq >>

DevUse(h) ==
  /\ h \in held /\ held' = held \ {h} /\ signal' = TRUE /\ since < Num /\ since' = since + h.num
  /\ desc' = [desc EXCEPT ![usedAt.at].avail = usedAt.wrap, ![usedAt.at].used = usedAt.wrap,
                          ![usedAt.at].id = h.id]
  /\ usedAt' = After(usedAt, h.num)
  /\ UNCHANGED << state_num, state_next, state_last, data, free_head, num_free, driverVars, callVars,
                  taken, dev, device, irq >>

DevSignal ==
  /\ signal /\ signal' = FALSE /\ since' = 0
  /\ irq' = (~awake /\ (irq \/ Wanted(driver, usedAt.at, usedAt.wrap, since)))
  /\ UNCHANGED << ringVars, driverVars, callVars, held, taken, usedAt, dev, device >>
-----------------------------------------------------------------------------
(* The device is reset, what it has not given back is detached, and        *)
(* virtqueue_shutdown_packed clears the ring and makes it anew.            *)
Reset ==
  /\ NoCall /\ resets < MaxResets /\ adds + resets + 1 < MaxAdds /\ resets' = resets + 1
  /\ dev' = "reset" /\ held' = {} /\ signal' = FALSE /\ irq' = FALSE
  /\ UNCHANGED << ringVars, driverVars, mine, adding, pc, bufs, awake, adds, turned, taken, usedAt, since,
                  device >>

DetachUnusedBuf ==
  /\ dev = "reset"
  /\ \E i \in Slots : /\ data[i] # NoBuf /\ \A j \in Slots : j < i => data[j] = NoBuf
                      /\ DetachBuf(i)
  /\ UNCHANGED << desc, state_num, state_last, driverVars, adding, pc, bufs, awake, adds, resets, turned,
                  devVars, irq >>

Shutdown ==
  /\ dev = "reset" /\ Range(data) = {NoBuf}
  /\ desc' = [i \in Slots |-> Fresh] /\ data' = [i \in Slots |-> NoBuf]
  /\ state_num' = Zeros /\ state_next' = FreshNext /\ state_last' = Zeros
  /\ free_head' = 0 /\ num_free' = Num /\ num_added' = 0
  /\ next_avail_idx' = 0 /\ avail_flag' = TRUE /\ avail_wrap_counter' = TRUE
  /\ last_used' = Pos(0, TRUE) /\ shadow' = "enable" /\ driver' = Off /\ device' = Off
  /\ bufs' = 0 /\ awake' = FALSE /\ turned' = FALSE
  /\ taken' = Pos(0, TRUE) /\ usedAt' = Pos(0, TRUE) /\ dev' = "asleep" /\ since' = 0
  /\ UNCHANGED << mine, adding, pc, adds, resets, held, signal, irq >>

DriverStep ==
  \/ Publish \/ (\E always \in BOOLEAN : Kick(always)) \/ GetBuf \/ Interrupt \/ Poll
  \/ EnableCb \/ EnableCbDelayed \/ Check

DeviceStep == DevTake \/ DevIdle \/ DevRecheck \/ (\E h \in held : DevUse(h)) \/ DevSignal

Next ==
  /\ UNCHANGED << event, indirect >>
  /\ \/ DriverStep \/ DeviceStep
     \/ \E b \in Bufs : AddBuf(b)
     \/ Reset \/ DetachUnusedBuf \/ Shutdown

Spec == Init /\ [][Next]_vars
-----------------------------------------------------------------------------
(* The table's free list holds num_free entries, none of them in use, and  *)
(* with what is in use they make up the ring (VirtIORing-packed.c:245-317).*)
TableSound ==
  LET heads == {i \in Slots : data[i] # NoBuf} IN
  /\ Cardinality(ToSet(FreeList)) = num_free
  /\ heads \cap ToSet(FreeList) = {}
  /\ num_free + FoldFunctionOnSet(+, 0, state_num, heads) = Num

(* A device that sleeps while there is a buffer for it, of which it has    *)
(* had its chance to be told, has been notified: not after a chain that    *)
(* took the whole ring (VirtIORing-packed.c:275, 577-620).                 *)
PackedKickNotLost == dev = "asleep" /\ is_avail_desc(taken) /\ ~turned => num_added > 0

(* A driver that sleeps while more descriptors have been used than it      *)
(* wants to wait for has an interrupt coming (VirtIORing-packed.c:381-480, *)
(* 548-566).                                                               *)
PackedInterruptNotLost ==
  ~awake /\ NoCall /\ ~signal /\ Between(last_used, usedAt) > bufs => irq

(* And the packed ring does all that VirtqueueService promises.            *)
UsedFrom[n \in 0 .. Num, i \in Slots] ==
  IF n = 0 THEN << >>
  ELSE LET id == desc[i].id IN
       << data[id] >> \o UsedFrom[n - state_num[id], (i + state_num[id]) % Num]
UsedBufs ==
  IF dev = "reset" THEN << >> ELSE UsedFrom[Between(last_used, usedAt), last_used.at]
Unpublished == {adding} \ {NoBuf}
Queue == INSTANCE VirtqueueService WITH
           mine <- mine \cup Unpublished,
           stopped <- dev = "reset",
           used <- UsedBufs,
           given <- (Range(data) \ {NoBuf}) \ (ToSet(UsedBufs) \cup Unpublished)

(* The service of the queue, through every add, use and detach             *)
(* (VirtIORing-packed.c:176-340, 512-569).                                 *)
ServiceSpec == Queue!Spec

(* What a driver may rely on in any state: the table of buffers is sound   *)
(* and neither side sleeps on what the other has done (VirtIORing-         *)
(* packed.c:176-632).                                                      *)
RingSound == TableSound /\ PackedKickNotLost /\ PackedInterruptNotLost
=============================================================================
