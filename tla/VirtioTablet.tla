---------------------------- MODULE VirtioTablet -----------------------------
(***************************************************************************)
(* populate_buffers and drain_buffers of drivers/virtio_tablet/virtio.c:   *)
(* the update thread offers event buffers to the device, waits, and        *)
(* handles what the device put into them.  The device (external) uses      *)
(* buffers in the order they were offered, as populate_buffers takes for   *)
(* granted: it offers descriptor next_fill_pos & num_mask again, whichever *)
(* descriptors came back.                                                  *)
(*                                                                         *)
(* The n-th event is the number n; what process_event makes of an event is *)
(* left out.                                                               *)
(***************************************************************************)
EXTENDS Integers, Sequences

CONSTANTS
  Num,         (* vq->num, a power of two                                  *)
  IdxMod,      (* 2^16: avail->idx and used->idx wrap, last_used_idx and   *)
               (* next_fill_pos are 32 bits wide and do not                *)
  MaxEvents    (* bound: events the user causes                            *)

ASSUME TabletAssumption ==
  /\ Num \in Nat /\ Num > 1 /\ IdxMod \in Nat /\ IdxMod >= Num /\ IdxMod % Num = 0
  /\ MaxEvents \in Nat

VARIABLES
  vq_feat,                              \* VIRTIO_F_EVENT_IDX was negotiated
  pc, avail_idx, prev_avail_idx,        \* the update thread
  last_used_idx, next_fill_pos,         \* of vq[0]
  avail_ring, avail, used_event,        \* written by the driver
  events,                               \* the buffers; 0 is a cleared one
  used_ring, used, avail_event, no_notify,     \* written by the device
  interrupt_ev, irq_masked, isr, kick,  \* event, IRQ, device lines
  dev_avail, dev_mode, signalled, sig_pending, \* device
  caused, sent, handled                 \* events: by the user, reported, handled

localVars  == << avail_idx, prev_avail_idx >>
countVars  == << last_used_idx, next_fill_pos >>
availVars  == << avail_ring, avail >>
usedVars   == << used_ring, used >>
notifyVars == << avail_event, no_notify >>
irqVars    == << interrupt_ev, irq_masked, isr >>
devVars    == << dev_avail, dev_mode >>
sigVars    == << signalled, sig_pending >>
eventVars  == << caused, sent, handled >>
vars == << vq_feat, pc, localVars, countVars, availVars, used_event, events, usedVars,
           notifyVars, irqVars, kick, devVars, sigVars, eventVars >>

(* uint16_t arithmetic, and VIRTQ_NEED_EVENT.                              *)
Short(i) == i % IdxMod
NeedEvent(event_idx, new_idx, old_idx) ==
  Short(new_idx - event_idx - 1) < Short(new_idx - old_idx)

(* i & vq->num_mask                                                        *)
Slot(i) == i % Num
Pos == 0 .. Num - 1
Idx == 0 .. IdxMod - 1

Init ==
  /\ vq_feat \in BOOLEAN
  /\ pc = "populate" /\ avail_idx = 0 /\ prev_avail_idx = 0
  /\ last_used_idx = 0 /\ next_fill_pos = 0
  /\ avail_ring = [p \in Pos |-> 0] /\ avail = 0 /\ used_event = 0
  /\ events = [p \in Pos |-> 0]
  /\ used_ring = [p \in Pos |-> 0] /\ used = 0 /\ avail_event = 0 /\ no_notify = FALSE
  /\ interrupt_ev = FALSE /\ irq_masked = FALSE /\ isr = FALSE /\ kick = FALSE
  /\ dev_avail = 0 /\ dev_mode = "off" /\ signalled = 0 /\ sig_pending = FALSE
  /\ caused = 0 /\ sent = 0 /\ handled = << >>
-----------------------------------------------------------------------------
(* populate_buffers: every descriptor but one is offered ...               *)
RoomForAll ==   (* mutant: one descriptor too many *)
  next_fill_pos - last_used_idx <= Num
RoomUsed ==   (* mutant: makes room for what the device has used *)
  Slot(next_fill_pos + 1) # Slot(used)
RoomLess ==   (* mutant: one descriptor too few *)
  Slot(next_fill_pos + 2) # Slot(last_used_idx)
Room == Slot(next_fill_pos + 1) # Slot(last_used_idx)

Populate ==
  /\ pc = "populate"
  /\ avail_idx' = avail
  /\ pc' = "fill"
  /\ UNCHANGED << vq_feat, prev_avail_idx, countVars, availVars, used_event, events, usedVars,
                  notifyVars, irqVars, kick, devVars, sigVars, eventVars >>

Fill ==
  LET desc_pos == Slot(next_fill_pos)
  IN /\ pc = "fill" /\ Room
     /\ next_fill_pos' = next_fill_pos + 1
     /\ avail_ring' = [avail_ring EXCEPT ![Slot(avail_idx)] = desc_pos]
     /\ avail_idx' = Short(avail_idx + 1)
     /\ events' = [events EXCEPT ![desc_pos] = 0]
     /\ UNCHANGED << vq_feat, pc, prev_avail_idx, last_used_idx, avail, used_event, usedVars,
                     notifyVars, irqVars, kick, devVars, sigVars, eventVars >>

(* ... an interrupt is asked for at the next event ...                     *)
WantedEvent == IF vq_feat THEN Short(last_used_idx) ELSE used_event

SetUsedEvent ==
  /\ pc = "fill" /\ ~Room
  /\ used_event' = WantedEvent
  /\ pc' = "publish"
  /\ UNCHANGED << vq_feat, localVars, countVars, availVars, events, usedVars, notifyVars, irqVars,
                  kick, devVars, sigVars, eventVars >>

Publish ==
  /\ pc = "publish"
  /\ prev_avail_idx' = avail
  /\ avail' = avail_idx
  /\ pc' = "kick"
  /\ UNCHANGED << vq_feat, avail_idx, countVars, avail_ring, used_event, events, usedVars, notifyVars,
                  irqVars, kick, devVars, sigVars, eventVars >>

(* ... and the device notified if it asked for it.                         *)
NotifyWanted ==
  IF vq_feat THEN NeedEvent(avail_event, avail_idx, prev_avail_idx) ELSE ~no_notify

Notify ==
  /\ pc = "kick"
  /\ kick' = (NotifyWanted \/ kick)
  /\ pc' = "wait"
  /\ UNCHANGED << vq_feat, localVars, countVars, availVars, used_event, events, usedVars, notifyVars,
                  irqVars, devVars, sigVars, eventVars >>
-----------------------------------------------------------------------------
(* drain_buffers: the wait is over by the interrupt ...                    *)
Wake ==
  /\ pc = "wait" /\ interrupt_ev
  /\ interrupt_ev' = FALSE
  /\ pc' = "ack"
  /\ UNCHANGED << vq_feat, localVars, countVars, availVars, used_event, events, usedVars, notifyVars,
                  irq_masked, isr, kick, devVars, sigVars, eventVars >>

Ack ==
  /\ pc = "ack"
  /\ isr' = FALSE
  /\ pc' = "intdone"
  /\ UNCHANGED << vq_feat, localVars, countVars, availVars, used_event, events, usedVars, notifyVars,
                  interrupt_ev, irq_masked, kick, devVars, sigVars, eventVars >>

IntDone ==
  /\ pc = "intdone"
  /\ irq_masked' = FALSE
  /\ pc' = "drain"
  /\ UNCHANGED << vq_feat, localVars, countVars, availVars, used_event, events, usedVars, notifyVars,
                  interrupt_ev, isr, kick, devVars, sigVars, eventVars >>

(* ... or after a second.                                                  *)
Timeout ==
  /\ pc = "wait" /\ ~interrupt_ev
  /\ kick' = TRUE
  /\ pc' = "drain"
  /\ UNCHANGED << vq_feat, localVars, countVars, availVars, used_event, events, usedVars, notifyVars,
                  irqVars, devVars, sigVars, eventVars >>

Drain ==
  /\ pc = "drain" /\ last_used_idx # used
  /\ handled' = Append(handled, events[used_ring[Slot(last_used_idx)]])
  /\ last_used_idx' = last_used_idx + 1
  /\ UNCHANGED << vq_feat, pc, localVars, next_fill_pos, availVars, used_event, events, usedVars,
                  notifyVars, irqVars, kick, devVars, sigVars, caused, sent >>

DrainOver ==
  /\ pc = "drain" /\ last_used_idx = used
  /\ pc' = "rearm"
  /\ UNCHANGED << vq_feat, localVars, countVars, availVars, used_event, events, usedVars, notifyVars,
                  irqVars, kick, devVars, sigVars, eventVars >>

Rearm ==
  /\ pc = "rearm"
  /\ used_event' = WantedEvent
  /\ pc' = "recheck"
  /\ UNCHANGED << vq_feat, localVars, countVars, availVars, events, usedVars, notifyVars, irqVars,
                  kick, devVars, sigVars, eventVars >>

(* An event may have come before the device could see used_event.          *)
NoRecheck ==   (* mutant: the ring is not looked at again *)
  /\ pc = "recheck"
  /\ pc' = "populate"
  /\ UNCHANGED << vq_feat, localVars, countVars, availVars, used_event, events, usedVars, notifyVars,
                  irqVars, kick, devVars, sigVars, eventVars >>

Recheck ==
  /\ pc = "recheck"
  /\ pc' = IF last_used_idx # used THEN "drain" ELSE "populate"
  /\ UNCHANGED << vq_feat, localVars, countVars, availVars, used_event, events, usedVars, notifyVars,
                  irqVars, kick, devVars, sigVars, eventVars >>
-----------------------------------------------------------------------------
(* The interrupt: level triggered, masked from the handler to              *)
(* InterruptDone.                                                          *)
Interrupt ==
  /\ isr /\ ~irq_masked
  /\ irq_masked' = TRUE /\ interrupt_ev' = TRUE
  /\ UNCHANGED << vq_feat, pc, localVars, countVars, availVars, used_event, events, usedVars,
                  notifyVars, isr, kick, devVars, sigVars, eventVars >>

(* The user moves the pointer.  The device keeps one event back at most.   *)
Cause ==
  /\ caused < MaxEvents /\ caused <= sent
  /\ caused' = caused + 1
  /\ UNCHANGED << vq_feat, pc, localVars, countVars, availVars, used_event, events, usedVars,
                  notifyVars, irqVars, kick, devVars, sigVars, sent, handled >>

DevStart ==
  /\ kick /\ kick' = FALSE
  /\ IF dev_mode = "off"
       THEN dev_mode' = "on" /\ no_notify' = ~vq_feat
       ELSE UNCHANGED << dev_mode, no_notify >>
  /\ UNCHANGED << vq_feat, pc, localVars, countVars, availVars, used_event, events, usedVars,
                  avail_event, irqVars, dev_avail, sigVars, eventVars >>

(* An event goes into the next buffer offered.                             *)
DevReport ==
  LET head == avail_ring[Slot(dev_avail)]
  IN /\ dev_mode = "on" /\ sent < caused /\ dev_avail # avail
     /\ events' = [events EXCEPT ![head] = sent + 1]
     /\ used_ring' = [used_ring EXCEPT ![Slot(used)] = head]
     /\ used' = Short(used + 1) /\ dev_avail' = Short(dev_avail + 1)
     /\ sent' = sent + 1 /\ sig_pending' = TRUE
     /\ UNCHANGED << vq_feat, pc, localVars, countVars, availVars, used_event, notifyVars, irqVars,
                     kick, dev_mode, signalled, caused, handled >>

(* Out of buffers: ask to be notified, look again, sleep.                  *)
DevStarve ==
  /\ dev_mode = "on" /\ dev_avail = avail
  /\ dev_mode' = "rearm"
  /\ avail_event' = IF vq_feat THEN dev_avail ELSE avail_event
  /\ no_notify' = FALSE
  /\ UNCHANGED << vq_feat, pc, localVars, countVars, availVars, used_event, events, usedVars, irqVars,
                  kick, dev_avail, sigVars, eventVars >>

DevSleep ==
  /\ dev_mode = "rearm"
  /\ IF dev_avail = avail
       THEN dev_mode' = "off" /\ UNCHANGED no_notify
       ELSE dev_mode' = "on" /\ no_notify' = ~vq_feat
  /\ UNCHANGED << vq_feat, pc, localVars, countVars, availVars, used_event, events, usedVars,
                  avail_event, irqVars, kick, dev_avail, sigVars, eventVars >>

DevSignal ==
  LET wanted == vq_feat => NeedEvent(used_event, used, signalled)
  IN /\ sig_pending /\ sig_pending' = FALSE
     /\ signalled' = used
     /\ isr' = (wanted \/ isr)
     /\ UNCHANGED << vq_feat, pc, localVars, countVars, availVars, used_event, events, usedVars,
                     notifyVars, interrupt_ev, irq_masked, kick, devVars, eventVars >>
-----------------------------------------------------------------------------
Step ==
  \/ Populate \/ Fill \/ SetUsedEvent \/ Publish \/ Notify
  \/ Wake \/ Ack \/ IntDone \/ Drain \/ DrainOver \/ Rearm \/ Recheck
DevWork == DevStart \/ DevReport \/ DevStarve \/ DevSleep \/ DevSignal

Next == Step \/ Timeout \/ Interrupt \/ Cause \/ DevWork

Spec == Init /\ [][Next]_vars

(* The thread runs, interrupts are delivered, the device works.  Nothing   *)
(* makes a time-out happen.                                                *)
Fairness ==
  /\ WF_vars(Step) /\ WF_vars(Interrupt)
  /\ WF_vars(DevStart) /\ WF_vars(DevReport) /\ WF_vars(DevStarve) /\ WF_vars(DevSleep)
  /\ WF_vars(DevSignal)

FairSpec == Spec /\ Fairness
-----------------------------------------------------------------------------
TypeOK ==
  /\ vq_feat \in BOOLEAN
  /\ pc \in {"populate", "fill", "publish", "kick", "wait", "ack", "intdone", "drain",
             "rearm", "recheck"}
  /\ avail_idx \in Idx /\ prev_avail_idx \in Idx
  /\ last_used_idx \in Nat /\ next_fill_pos \in Nat
  /\ avail_ring \in [Pos -> Pos] /\ used_ring \in [Pos -> Pos]
  /\ events \in [Pos -> 0 .. MaxEvents]
  /\ \A i \in {avail, used_event, used, avail_event, dev_avail, signalled} : i \in Idx
  /\ \A b \in {no_notify, interrupt_ev, irq_masked, isr, kick, sig_pending} : b \in BOOLEAN
  /\ dev_mode \in {"off", "on", "rearm"}
  /\ caused \in 0 .. MaxEvents /\ sent \in 0 .. caused
  /\ handled \in Seq(0 .. MaxEvents)

(* Buffers offered and not yet used, and used and not yet drained.         *)
Ahead(i, from, to) == Short(i - from) < Short(to - from)
Owned == {avail_ring[Slot(i)] : i \in {j \in Idx : Ahead(j, dev_avail, avail)}}

(* A buffer the device owns is not cleared or offered a second time: only  *)
(* the device changes it, by reporting an event (virtio.c:303-314).        *)
BuffersUntouched ==
  [][\A p \in Owned : events'[p] = events[p] \/ sent' = sent + 1]_vars

(* All descriptors but one are offered while the thread waits: refilling   *)
(* keeps up with draining, and the device is never short of buffers for    *)
(* good (virtio.c:303).                                                    *)
AllOffered ==
  pc \in {"kick", "wait"} => Short(avail - last_used_idx) = Num - 1

(* Events are handled once each and in order.                              *)
Service == INSTANCE TabletService WITH
  Events <- 1 .. MaxEvents,
  reported <- [n \in 1 .. sent |-> n]

ServiceSpec == Service!Spec

(* What the user does is handled at last, and under FairSpec without       *)
(* waiting for a time-out: no interrupt and no notification is missed.     *)
CausedIsHandled ==
  \A n \in 1 .. MaxEvents : caused >= n ~> Len(handled) >= n

(* The tablet is a device the board supports (README.md:11): an event      *)
(* reported once is handled once, however many came before.                *)
HandledOnce == Len(handled) <= sent
=============================================================================
