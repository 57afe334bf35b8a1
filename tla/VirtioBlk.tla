----------------------------- MODULE VirtioBlk ------------------------------
(***************************************************************************)
(* DoDiskIO of drivers/virtio_blk/virtio.c: threads that carry out disk    *)
(* requests over one split virtqueue, the disk critical section they       *)
(* share, the interrupt event they wait on, and the device (external:      *)
(* modelled from the queue protocol the driver relies on).                 *)
(*                                                                         *)
(* A request is cut into batches.  A batch is filled, published, waited    *)
(* for and drained inside d_DiskCardCrit; descriptors are taken from index *)
(* 0 again by every batch, so the driver is right only if the device owns  *)
(* no descriptor when a batch begins.                                      *)
(***************************************************************************)
EXTENDS Integers, Sequences, SequencesExt

CONSTANTS
  Threads, NoThread,
  Requests,      (* [write, start, secs, sgs, aligned]: sr_start, per      *)
                 (* sector the lengths of its data segments, sr_num_sg,    *)
                 (* and whether the SG bytes add up to sr_num_sec sectors  *)
  Num,           (* vq.num                                                 *)
  MaxSgBuf,      (* MAX_SG_BUF                                             *)
  IdxMod,        (* 2^16: avail->idx, used->idx and last_used_idx wrap     *)
  DWordMod,      (* 2^32: sr_start + sr_num_sec wraps                      *)
  DiskSectors,   (* pDisk->sectors                                         *)
  HeaderLen, SectorLen,   (* 16 and 512                                    *)
  ReadOnly,      (* VIRTIO_BLK_F_RO was negotiated                         *)
  EventIdx,      (* VIRTIO_F_EVENT_IDX was negotiated                      *)
  PagesFail,     (* LockPages and UnlockPages may fail                     *)
  Lossy          (* notifications may get lost, interrupts may get lost or *)
                 (* come without cause                                     *)

(* The most descriptors one sector needs: a header, two segments for each  *)
(* SG entry, and the status byte.                                          *)
Reserve == MaxSgBuf * 2 + 2

ASSUME SizesAssumption ==
  /\ MaxSgBuf \in Nat /\ Num \in Nat /\ IdxMod \in Nat /\ DiskSectors \in Nat
  /\ HeaderLen \in Nat /\ SectorLen \in Nat /\ DWordMod \in Nat
  /\ ReadOnly \in BOOLEAN /\ EventIdx \in BOOLEAN
  /\ PagesFail \in BOOLEAN /\ Lossy \in BOOLEAN
  /\ Num >= Reserve /\ IdxMod >= Num /\ Num > 0 /\ IdxMod % Num = 0

ASSUME NoThreadAssumption == NoThread \notin Threads

(* The segments of a sector: sector_bytes_left, a sector at first, is used *)
(* up by the last of them and by no other.                                 *)
Covered(segs) ==
  \E left \in [0 .. Len(segs) -> 0 .. SectorLen] :
    /\ left[0] = SectorLen /\ left[Len(segs)] = 0
    /\ \A n \in 1 .. Len(segs) : left[n - 1] > 0 /\ left[n] = left[n - 1] - segs[n]

(* What the walk over the SG list yields: every sector has at least one    *)
(* and at most 2 * MAX_SG_BUF segments, and in a request whose buffers add *)
(* up they make up the sector.                                             *)
ASSUME RequestsAssumption ==
  \A r \in Requests :
    /\ r.start \in Nat /\ r.sgs \in Nat /\ r.write \in BOOLEAN /\ r.aligned \in BOOLEAN
    /\ r.secs \in Seq(Seq(Nat))
    /\ \A k \in 1 .. Len(r.secs) :
         Len(r.secs[k]) \in 1 .. MaxSgBuf * 2 /\ (r.aligned => Covered(r.secs[k]))

VARIABLES
  pc, req, sr_status,       \* the call a thread is in
  handled, ops_failure,     \* sectors_handled, ops_failure
  locked, pfns,             \* SG entries locked, sr_pfns allocated
  avail_idx, prev_avail_idx, desc_pos, ops_counter,   \* locals of a batch
  crit,                     \* who holds d_DiskCardCrit
  desc, tails, avail_ring, avail, used_event,         \* written by the driver
  used_ring, used, avail_event, no_notify,            \* written by the device
  last_used_idx,            \* pDisk->last_used_idx
  interrupt_ev, irq_masked, isr, kick,                \* event, IRQ, device lines
  dev_avail, inflight, dev_mode, signalled, sig_pending,   \* device
  io                        \* io[t][k]: what became of the k-th sector

callVars  == << req, sr_status, locked, pfns >>
workVars  == << handled, ops_failure >>
batchVars == << avail_idx, prev_avail_idx, desc_pos, ops_counter >>
ringVars  == << desc, avail_ring, avail, used_event >>
irqVars   == << interrupt_ev, irq_masked, isr >>
devRing   == << used_ring, used >>
devNotify == << avail_event, no_notify >>
devVars   == << dev_avail, inflight, dev_mode >>
sigVars   == << signalled, sig_pending >>
vars == << pc, callVars, workVars, batchVars, crit, ringVars, tails, devRing,
           devNotify, last_used_idx, irqVars, kick, devVars, sigVars, io >>

(* uint16_t arithmetic.                                                    *)
IncNoWrap(i) == i + 1   (* mutant: wider than 16 bits *)
Inc(i) == IF i + 1 = IdxMod THEN 0 ELSE i + 1
Dec(i) == IF i = 0 THEN IdxMod - 1 ELSE i - 1
Sub(a, b) == IF a >= b THEN a - b ELSE a - b + IdxMod

(* VIRTQ_NEED_EVENT                                                        *)
NeedEvent(event_idx, new_idx, old_idx) ==
  Sub(Sub(new_idx, event_idx), 1) < Sub(new_idx, old_idx)

(* The ring slot of an index: idx & num_mask.                              *)
Slot(i) == i % Num

Pos == 0 .. Num - 1
Idx == 0 .. IdxMod - 1
NumSec(t) == Len(req[t].secs)
NoRequest == [write |-> FALSE, start |-> 0, secs |-> << >>, sgs |-> 0, aligned |-> TRUE]
NoOp == << NoThread, 0 >>
Untouched(r) == [k \in DOMAIN r.secs |-> "todo"]
-----------------------------------------------------------------------------
Init ==
  /\ pc = [t \in Threads |-> "idle"]
  /\ req = [t \in Threads |-> NoRequest]
  /\ sr_status = [t \in Threads |-> "ERROR_IO_PENDING"]
  /\ handled = [t \in Threads |-> 0]
  /\ ops_failure = [t \in Threads |-> FALSE]
  /\ locked = [t \in Threads |-> 0]
  /\ pfns = [t \in Threads |-> FALSE]
  /\ avail_idx = [t \in Threads |-> 0]
  /\ prev_avail_idx = [t \in Threads |-> 0]
  /\ desc_pos = [t \in Threads |-> 0]
  /\ ops_counter = [t \in Threads |-> 0]
  /\ crit = NoThread
  /\ desc = [p \in Pos |-> [op |-> NoOp, len |-> 0, next |-> 0, more |-> FALSE]]
  /\ tails = [p \in Pos |-> "unset"]
  /\ avail_ring = [p \in Pos |-> 0]
  /\ avail = 0 /\ used_event = 0
  /\ used_ring = [p \in Pos |-> 0]
  /\ used = 0 /\ avail_event = 0 /\ no_notify = FALSE
  /\ last_used_idx = 0
  /\ interrupt_ev = FALSE /\ irq_masked = FALSE /\ isr = FALSE /\ kick = FALSE
  /\ dev_avail = 0 /\ inflight = << >> /\ dev_mode = "off"
  /\ signalled = 0 /\ sig_pending = FALSE
  /\ io = [t \in Threads |-> Untouched(NoRequest)]
-----------------------------------------------------------------------------
(* A call of DoDiskIO: the checks before any page is locked.               *)
Refusal(r) ==
  IF r.sgs > MaxSgBuf THEN "ERROR_INVALID_PARAMETER"
  ELSE IF (r.start + Len(r.secs)) % DWordMod > DiskSectors THEN "ERROR_SECTOR_NOT_FOUND"
  ELSE IF r.write /\ ReadOnly THEN "ERROR_WRITE_PROTECT"
  ELSE "ERROR_IO_PENDING"

Submit(t, r) ==
  /\ pc[t] = "idle"
  /\ req' = [req EXCEPT ![t] = r]
  /\ io' = [io EXCEPT ![t] = Untouched(r)]
  /\ sr_status' = [sr_status EXCEPT ![t] = Refusal(r)]
  /\ pc' = [pc EXCEPT ![t] = IF Refusal(r) = "ERROR_IO_PENDING" THEN "lock" ELSE "return"]
  /\ UNCHANGED << locked, pfns, workVars, batchVars, crit, ringVars, tails, devRing, devNotify,
                  last_used_idx, irqVars, kick, devVars, sigVars >>

(* The UnlockPages loop over n entries, and the return with status s.  A   *)
(* failure returns at once: that entry and the later ones stay locked and  *)
(* sr_pfns is not freed.                                                   *)
UnlockPagesNoFree(t, n, s) ==   (* mutant: sr_pfns is never freed *)
  /\ pc' = [pc EXCEPT ![t] = "return"]
  /\ locked' = [locked EXCEPT ![t] = 0]
  /\ pfns' = [pfns EXCEPT ![t] = TRUE]
  /\ sr_status' = [sr_status EXCEPT ![t] = s]

UnlockPages(t, n, s) ==
  /\ pc' = [pc EXCEPT ![t] = "return"]
  /\ \/ /\ locked' = [locked EXCEPT ![t] = 0]
        /\ pfns' = [pfns EXCEPT ![t] = FALSE]
        /\ sr_status' = [sr_status EXCEPT ![t] = s]
     \/ \E i \in 1 .. n :
          /\ PagesFail
          /\ locked' = [locked EXCEPT ![t] = i]
          /\ pfns' = [pfns EXCEPT ![t] = TRUE]
          /\ sr_status' = [sr_status EXCEPT ![t] = "ERROR_GEN_FAILURE"]

(* LocalAlloc of sr_pfns, the LockPages loop, the check of request_bytes.  *)
LockPages(t) ==
  /\ pc[t] = "lock"
  /\ \/ /\ req[t].aligned
        /\ locked' = [locked EXCEPT ![t] = req[t].sgs]
        /\ pfns' = [pfns EXCEPT ![t] = TRUE]
        /\ pc' = [pc EXCEPT ![t] = "loop"]
        /\ UNCHANGED sr_status
     \/ /\ ~req[t].aligned
        /\ UnlockPages(t, req[t].sgs, "ERROR_INVALID_PARAMETER")
     \/ \E i \in 0 .. req[t].sgs - 1 :
          PagesFail /\ UnlockPages(t, i, "ERROR_GEN_FAILURE")
  /\ UNCHANGED << req, workVars, batchVars, crit, ringVars, tails, devRing, devNotify,
                  last_used_idx, irqVars, kick, devVars, sigVars, io >>

EnterUnlocked(t) ==   (* mutant: no critical section *)
  /\ pc[t] = "loop" /\ handled[t] < NumSec(t)
  /\ crit' = t
  /\ avail_idx' = [avail_idx EXCEPT ![t] = avail]
  /\ pc' = [pc EXCEPT ![t] = "fill"]
  /\ UNCHANGED << callVars, workVars, prev_avail_idx, desc_pos, ops_counter, ringVars, tails,
                  devRing, devNotify, last_used_idx, irqVars, kick, devVars, sigVars, io >>

Enter(t) ==
  /\ pc[t] = "loop" /\ handled[t] < NumSec(t)
  /\ crit = NoThread
  /\ crit' = t
  /\ avail_idx' = [avail_idx EXCEPT ![t] = avail]
  /\ pc' = [pc EXCEPT ![t] = "fill"]
  /\ UNCHANGED << callVars, workVars, prev_avail_idx, desc_pos, ops_counter, ringVars, tails,
                  devRing, devNotify, last_used_idx, irqVars, kick, devVars, sigVars, io >>

(* A chain of descriptors for the k-th sector of t: header, segments,      *)
(* status byte.                                                            *)
ChainDesc(p, first, last, op, segs) ==
  [op |-> op, next |-> IF p = last THEN 0 ELSE p + 1, more |-> p # last,
   len |-> IF p = first THEN HeaderLen ELSE IF p = last THEN 1 ELSE segs[p - first]]

LeaveFillFull(t) ==   (* mutant: no room is kept for the next sector *)
  IF desc_pos'[t] >= Num \/ handled'[t] = NumSec(t) THEN "event" ELSE "fill"

LeaveFill(t) == IF \/ desc_pos'[t] >= Num - Reserve
                   \/ handled'[t] = NumSec(t)
                THEN "event" ELSE "fill"

FillSector(t) ==
  LET segs  == req[t].secs[handled[t] + 1]
      first == desc_pos[t]
      last  == first + Len(segs) + 1
      op    == << t, handled[t] + 1 >>
  IN /\ pc[t] = "fill"
     /\ avail_ring' = [avail_ring EXCEPT ![Slot(avail_idx[t])] = first]
     /\ desc' = [p \in Pos |-> IF p \in first .. last
                               THEN ChainDesc(p, first, last, op, segs) ELSE desc[p]]
     /\ tails' = [tails EXCEPT ![last] = "unset"]
     /\ avail_idx' = [avail_idx EXCEPT ![t] = Inc(@)]
     /\ ops_counter' = [ops_counter EXCEPT ![t] = Inc(@)]
     /\ desc_pos' = [desc_pos EXCEPT ![t] = last + 1]
     /\ handled' = [handled EXCEPT ![t] = @ + 1]
     /\ pc' = [pc EXCEPT ![t] = LeaveFill(t)]
     /\ UNCHANGED << callVars, ops_failure, prev_avail_idx, crit, avail, used_event, devRing,
                     devNotify, last_used_idx, irqVars, kick, devVars, sigVars, io >>

(* The interrupt is asked for when the last entry of the batch is used.    *)
NextEntry(t) == avail_idx[t]   (* mutant: one entry too late *)
LastEntry(t) == Dec(avail_idx[t])

SetUsedEvent(t) ==
  /\ pc[t] = "event"
  /\ used_event' = IF EventIdx THEN LastEntry(t) ELSE used_event
  /\ pc' = [pc EXCEPT ![t] = "publish"]
  /\ UNCHANGED << callVars, workVars, batchVars, crit, desc, avail_ring, avail, tails, devRing,
                  devNotify, last_used_idx, irqVars, kick, devVars, sigVars, io >>

Publish(t) ==
  /\ pc[t] = "publish"
  /\ prev_avail_idx' = [prev_avail_idx EXCEPT ![t] = avail]
  /\ avail' = avail_idx[t]
  /\ pc' = [pc EXCEPT ![t] = "kick"]
  /\ UNCHANGED << callVars, workVars, avail_idx, desc_pos, ops_counter, crit, desc, avail_ring,
                  used_event, tails, devRing, devNotify, last_used_idx, irqVars, kick, devVars,
                  sigVars, io >>

NotifyWanted(t) ==
  IF EventIdx THEN NeedEvent(avail_event, avail_idx[t], prev_avail_idx[t]) ELSE ~no_notify

Notify(t) ==
  /\ pc[t] = "kick"
  /\ kick' = IF NotifyWanted(t) THEN TRUE ELSE kick
  /\ pc' = [pc EXCEPT ![t] = "wait"]
  /\ UNCHANGED << callVars, workVars, batchVars, crit, ringVars, tails, devRing, devNotify,
                  last_used_idx, irqVars, devVars, sigVars, io >>

(* WaitForSingleObject returns WAIT_OBJECT_0: the event is auto-reset.     *)
Wake(t) ==
  /\ pc[t] = "wait" /\ interrupt_ev
  /\ interrupt_ev' = FALSE
  /\ pc' = [pc EXCEPT ![t] = "ack"]
  /\ UNCHANGED << callVars, workVars, batchVars, crit, ringVars, tails, devRing, devNotify,
                  last_used_idx, irq_masked, isr, kick, devVars, sigVars, io >>

(* ... or the second is over, however far the device has got.              *)
TimeoutQuiet(t) ==   (* mutant: the device is not notified again *)
  /\ pc[t] = "wait" /\ ~interrupt_ev
  /\ pc' = [pc EXCEPT ![t] = "drain"]
  /\ UNCHANGED << callVars, workVars, batchVars, crit, ringVars, tails, devRing, devNotify,
                  last_used_idx, irqVars, kick, devVars, sigVars, io >>

Timeout(t) ==
  /\ pc[t] = "wait" /\ ~interrupt_ev
  /\ kick' = TRUE
  /\ pc' = [pc EXCEPT ![t] = "drain"]
  /\ UNCHANGED << callVars, workVars, batchVars, crit, ringVars, tails, devRing, devNotify,
                  last_used_idx, irqVars, devVars, sigVars, io >>

(* VIO_InterruptACK := VIO_InterruptStatus, one action: the only bit used  *)
(* is set from the interrupt to the ACK.                                   *)
Ack(t) ==
  /\ pc[t] = "ack"
  /\ isr' = FALSE
  /\ pc' = [pc EXCEPT ![t] = "intdone"]
  /\ UNCHANGED << callVars, workVars, batchVars, crit, ringVars, tails, devRing, devNotify,
                  last_used_idx, interrupt_ev, irq_masked, kick, devVars, sigVars, io >>

IntDone(t) ==
  /\ pc[t] = "intdone"
  /\ irq_masked' = FALSE
  /\ pc' = [pc EXCEPT ![t] = "drain"]
  /\ UNCHANGED << callVars, workVars, batchVars, crit, ringVars, tails, devRing, devNotify,
                  last_used_idx, interrupt_ev, isr, kick, devVars, sigVars, io >>

(* Where the drain loop looks for the status byte: behind the descriptors  *)
(* that hold the header and 512 bytes.                                     *)
StatusFixed(head) == head + 2   (* mutant: one segment per sector *)

StatusPos(head) ==
  LET Walk[n \in 0 .. Num] ==
        IF n = 0 THEN << head, HeaderLen + SectorLen >>
        ELSE LET w == Walk[n - 1]
             IN IF w[2] = 0 THEN w ELSE << desc[w[1]].next, w[2] - desc[w[1]].len >>
  IN Walk[Num][1]

Failed(t, head) == ops_failure[t] \/ tails[StatusPos(head)] # "ok"

DrainOne(t) ==
  /\ pc[t] = "drain" /\ last_used_idx # used
  /\ ops_failure' = [ops_failure EXCEPT ![t] = Failed(t, used_ring[Slot(last_used_idx)])]
  /\ ops_counter' = [ops_counter EXCEPT ![t] = Dec(@)]
  /\ last_used_idx' = Inc(last_used_idx)
  /\ UNCHANGED << pc, callVars, handled, avail_idx, prev_avail_idx, desc_pos, crit, ringVars,
                  tails, devRing, devNotify, irqVars, kick, devVars, sigVars, io >>

OneWait(t) == TRUE   (* mutant: one wait for a batch *)
BatchDone(t) == ops_counter[t] = 0

WaitMore(t) ==
  /\ pc[t] = "drain" /\ last_used_idx = used /\ ~BatchDone(t)
  /\ pc' = [pc EXCEPT ![t] = "wait"]
  /\ UNCHANGED << callVars, workVars, batchVars, crit, ringVars, tails, devRing, devNotify,
                  last_used_idx, irqVars, kick, devVars, sigVars, io >>

(* The batch is over; its locals go out of scope.                          *)
Leave(t) ==
  /\ pc[t] = "drain" /\ last_used_idx = used /\ BatchDone(t)
  /\ crit' = NoThread
  /\ avail_idx' = [avail_idx EXCEPT ![t] = 0]
  /\ prev_avail_idx' = [prev_avail_idx EXCEPT ![t] = 0]
  /\ desc_pos' = [desc_pos EXCEPT ![t] = 0]
  /\ ops_counter' = [ops_counter EXCEPT ![t] = 0]
  /\ pc' = [pc EXCEPT ![t] = "loop"]
  /\ UNCHANGED << callVars, workVars, ringVars, tails, devRing, devNotify, last_used_idx,
                  irqVars, kick, devVars, sigVars, io >>

Finish(t) ==
  /\ pc[t] = "loop" /\ handled[t] >= NumSec(t)
  /\ UnlockPages(t, req[t].sgs,
                 IF ~ops_failure[t] THEN "ERROR_SUCCESS"
                 ELSE IF req[t].write THEN "ERROR_WRITE_FAULT" ELSE "ERROR_READ_FAULT")
  /\ UNCHANGED << req, workVars, batchVars, crit, ringVars, tails, devRing, devNotify,
                  last_used_idx, irqVars, kick, devVars, sigVars, io >>

(* DSK_IOControl returns sr_status; the locals of the call are gone.       *)
Return(t) ==
  /\ pc[t] = "return"
  /\ pc' = [pc EXCEPT ![t] = "idle"]
  /\ req' = [req EXCEPT ![t] = NoRequest]
  /\ io' = [io EXCEPT ![t] = Untouched(NoRequest)]
  /\ sr_status' = [sr_status EXCEPT ![t] = "ERROR_IO_PENDING"]
  /\ handled' = [handled EXCEPT ![t] = 0]
  /\ ops_failure' = [ops_failure EXCEPT ![t] = FALSE]
  /\ locked' = [locked EXCEPT ![t] = 0]
  /\ pfns' = [pfns EXCEPT ![t] = FALSE]
  /\ UNCHANGED << batchVars, crit, ringVars, tails, devRing, devNotify, last_used_idx,
                  irqVars, kick, devVars, sigVars >>
-----------------------------------------------------------------------------
(* The interrupt: level triggered, masked from the handler to              *)
(* InterruptDone.                                                          *)
Interrupt ==
  /\ isr /\ ~irq_masked
  /\ irq_masked' = TRUE
  /\ interrupt_ev' = TRUE
  /\ UNCHANGED << pc, callVars, workVars, batchVars, crit, ringVars, tails, devRing, devNotify,
                  last_used_idx, isr, kick, devVars, sigVars, io >>

(* The device starts on the queue: it asks for no further notification     *)
(* while it looks at the ring itself.                                      *)
DevStart ==
  /\ kick /\ kick' = FALSE
  /\ IF dev_mode = "off"
       THEN dev_mode' = "on" /\ no_notify' = ~EventIdx
       ELSE UNCHANGED << dev_mode, no_notify >>
  /\ UNCHANGED << pc, callVars, workVars, batchVars, crit, ringVars, tails, devRing, avail_event,
                  last_used_idx, irqVars, dev_avail, inflight, sigVars, io >>

DevLoseKick ==
  /\ Lossy /\ kick /\ kick' = FALSE
  /\ UNCHANGED << pc, callVars, workVars, batchVars, crit, ringVars, tails, devRing, devNotify,
                  last_used_idx, irqVars, devVars, sigVars, io >>

DevFetch ==
  /\ dev_mode = "on" /\ dev_avail # avail
  /\ inflight' = Append(inflight, avail_ring[Slot(dev_avail)])
  /\ dev_avail' = Inc(dev_avail)
  /\ UNCHANGED << pc, callVars, workVars, batchVars, crit, ringVars, tails, devRing, devNotify,
                  last_used_idx, irqVars, kick, dev_mode, sigVars, io >>

(* The ring is empty: ask to be notified of the next entry ...             *)
DevRearm ==
  /\ dev_mode = "on" /\ dev_avail = avail
  /\ dev_mode' = "rearm"
  /\ avail_event' = IF EventIdx THEN dev_avail ELSE avail_event
  /\ no_notify' = FALSE
  /\ UNCHANGED << pc, callVars, workVars, batchVars, crit, ringVars, tails, devRing,
                  last_used_idx, irqVars, kick, dev_avail, inflight, sigVars, io >>

(* ... and look again before going to sleep.                               *)
DevSleep ==
  /\ dev_mode = "rearm"
  /\ IF dev_avail = avail
       THEN dev_mode' = "off" /\ UNCHANGED no_notify
       ELSE dev_mode' = "on" /\ no_notify' = ~EventIdx
  /\ UNCHANGED << pc, callVars, workVars, batchVars, crit, ringVars, tails, devRing, avail_event,
                  last_used_idx, irqVars, kick, dev_avail, inflight, sigVars, io >>

(* The chain the device finds at a head: as far as the NEXT flags go.      *)
Chain(head) ==
  LET Hop[n \in 0 .. Num - 1] ==
        IF n = 0 THEN head
        ELSE LET p == Hop[n - 1] IN IF desc[p].more THEN desc[p].next ELSE p
  IN [n \in 0 .. Num - 1 |-> Hop[n]]

(* Sectors the device can carry out.                                       *)
OnDisk(op) == /\ req[op[1]].start + op[2] <= DiskSectors
              /\ req[op[1]].write => ~ReadOnly

(* An in-flight chain is completed, in any order.  A chain whose           *)
(* descriptors belong to different sectors, and a sector done before, are  *)
(* recorded as "mixed" and "twice".  Several completions may go by before  *)
(* the device decides on an interrupt, but fewer than the index can count. *)
Effect(chain, op, res) ==
  IF \E n \in DOMAIN chain : desc[chain[n]].op # op THEN "mixed"
  ELSE IF io[op[1]][op[2]] # "todo" THEN "twice" ELSE res

DevComplete(i, res) ==
  LET chain == Chain(inflight[i])
      op    == desc[inflight[i]].op
  IN /\ op # NoOp
     /\ Sub(used, signalled) < IdxMod - 1
     /\ res = "ok" => OnDisk(op)
     /\ inflight' = RemoveAt(inflight, i)
     /\ tails' = [tails EXCEPT ![chain[Num - 1]] = res]
     /\ used_ring' = [used_ring EXCEPT ![Slot(used)] = inflight[i]]
     /\ used' = Inc(used)
     /\ sig_pending' = TRUE
     /\ io' = [io EXCEPT ![op[1]] =
                 [k \in DOMAIN @ |-> IF k = op[2] THEN Effect(chain, op, res) ELSE @[k]]]
     /\ UNCHANGED << pc, callVars, workVars, batchVars, crit, ringVars, devNotify,
                     last_used_idx, irqVars, kick, dev_avail, dev_mode, signalled >>

(* After a completion the device interrupts if the driver asked for it.    *)
DevSignal ==
  LET wanted == EventIdx => NeedEvent(used_event, used, signalled)
  IN /\ sig_pending
     /\ sig_pending' = FALSE
     /\ signalled' = used
     /\ isr' \in {IF wanted THEN TRUE ELSE isr} \cup (IF Lossy THEN {isr, TRUE} ELSE {})
     /\ UNCHANGED << pc, callVars, workVars, batchVars, crit, ringVars, tails, devRing, devNotify,
                     last_used_idx, interrupt_ev, irq_masked, kick, devVars, io >>
-----------------------------------------------------------------------------
(* One step of DoDiskIO in thread t that takes no time-out.                *)
Step(t) ==
  \/ LockPages(t) \/ Enter(t) \/ FillSector(t) \/ SetUsedEvent(t) \/ Publish(t) \/ Notify(t)
  \/ Wake(t) \/ Ack(t) \/ IntDone(t) \/ DrainOne(t) \/ WaitMore(t) \/ Leave(t) \/ Finish(t)
  \/ Return(t)

DevWork ==
  \/ DevStart \/ DevFetch \/ DevRearm \/ DevSleep \/ DevSignal
  \/ \E i \in DOMAIN inflight, res \in {"ok", "err"} : DevComplete(i, res)

(* All but the time-out of a wait.                                         *)
InTime ==
  \/ \E t \in Threads : Step(t) \/ \E r \in Requests : Submit(t, r)
  \/ Interrupt \/ DevWork \/ DevLoseKick

Next == InTime \/ \E t \in Threads : Timeout(t)

Spec == Init /\ [][Next]_vars

(* Threads run, the critical section is granted in turn (it queues its     *)
(* waiters), the device works off its queue, interrupts are delivered.     *)
(* Nothing makes a time-out happen.                                        *)
Fairness ==
  /\ \A t \in Threads : WF_vars(Step(t)) /\ SF_vars(Enter(t))
  /\ WF_vars(Interrupt)
  /\ WF_vars(DevStart) /\ WF_vars(DevFetch) /\ WF_vars(DevRearm) /\ WF_vars(DevSleep)
  /\ WF_vars(DevSignal)
  /\ WF_vars(\E i \in DOMAIN inflight, res \in {"ok", "err"} : DevComplete(i, res))

(* A run of the system in which no wait ever times out.                    *)
PromptSpec == Init /\ [][InTime]_vars /\ Fairness

(* As above, and a wait that nothing ends is ended by its time-out; of     *)
(* notifications sent again and again, one arrives.                        *)
TimeoutSpec ==
  Spec /\ Fairness /\ (\A t \in Threads : WF_vars(Timeout(t))) /\ SF_vars(DevStart)
-----------------------------------------------------------------------------
Statuses == {"ERROR_SUCCESS", "ERROR_IO_PENDING", "ERROR_INVALID_PARAMETER",
             "ERROR_SECTOR_NOT_FOUND", "ERROR_WRITE_PROTECT", "ERROR_GEN_FAILURE",
             "ERROR_READ_FAULT", "ERROR_WRITE_FAULT"}
CallTypes ==
  /\ pc \in [Threads -> {"idle", "lock", "loop", "fill", "event", "publish", "kick", "wait",
                         "ack", "intdone", "drain", "return"}]
  /\ req \in [Threads -> Requests \cup {NoRequest}]
  /\ sr_status \in [Threads -> Statuses]
  /\ handled \in [Threads -> Nat] /\ ops_failure \in [Threads -> BOOLEAN]
  /\ locked \in [Threads -> Nat] /\ pfns \in [Threads -> BOOLEAN]
BatchTypes ==
  /\ avail_idx \in [Threads -> Idx] /\ prev_avail_idx \in [Threads -> Idx]
  /\ desc_pos \in [Threads -> Nat] /\ ops_counter \in [Threads -> Idx]
  /\ crit \in Threads \cup {NoThread}
RingTypes ==
  /\ inflight \in Seq(Pos) /\ avail_ring \in [Pos -> Pos] /\ used_ring \in [Pos -> Pos]
  /\ tails \in [Pos -> {"unset", "ok", "err"}]
  /\ desc \in [Pos -> [op : (Threads \cup {NoThread}) \X Nat, len : Nat, next : Nat,
                       more : BOOLEAN]]
IndexTypes ==
  /\ avail \in Idx /\ used_event \in Idx /\ used \in Idx /\ avail_event \in Idx
  /\ last_used_idx \in Idx /\ dev_avail \in Idx /\ signalled \in Idx
LineTypes ==
  /\ no_notify \in BOOLEAN /\ interrupt_ev \in BOOLEAN /\ irq_masked \in BOOLEAN
  /\ isr \in BOOLEAN /\ kick \in BOOLEAN /\ sig_pending \in BOOLEAN
  /\ dev_mode \in {"off", "on", "rearm"}
TypeOK == CallTypes /\ BatchTypes /\ RingTypes /\ IndexTypes /\ LineTypes

(* Indices published and not fetched, and the heads of the chains that are *)
(* the device's: published and not yet used.                               *)
Unfetched == {i \in Idx : Sub(i, dev_avail) < Sub(avail, dev_avail)}
OwnedHeads == {avail_ring[Slot(i)] : i \in Unfetched} \cup ToSet(inflight)
OwnedPos == UNION {ToSet(Chain(h)) : h \in OwnedHeads}

(* A descriptor the device owns is never rewritten, although every batch   *)
(* of every thread starts again at descriptor 0 (virtio.c:285).            *)
OwnedUntouched == [][\A p \in OwnedPos : desc'[p] = desc[p]]_vars

(* A batch never runs past the descriptor table: the early split at        *)
(* virtio.c:353 leaves room for the longest sector.                        *)
BatchFits == \A t \in Threads : desc_pos[t] <= Num

(* ops_counter is what makes the drain loop of one thread consume its own  *)
(* completions and no others: it counts exactly the published chains not   *)
(* yet drained, and between batches there are none (virtio.c:381-415).     *)
CounterMatches ==
  LET waiting == {t \in Threads : pc[t] \in {"kick", "wait", "ack", "intdone", "drain"}}
  IN /\ \A t \in waiting : ops_counter[t] = Sub(avail, last_used_idx)
     /\ waiting = {} => avail = last_used_idx

(* The caller's pages stay locked while the device may still access them   *)
(* (virtio.c:260-273 and 427-438).                                         *)
PagesPinned ==
  \A h \in OwnedHeads : \A t \in Threads :
    desc[h].op[1] = t => pfns[t] /\ locked[t] = req[t].sgs

(* A call that returns leaves either nothing locked and nothing allocated, *)
(* or reports ERROR_GEN_FAILURE (virtio.c:433-437 gives up half way).      *)
PagesReleased ==
  \A t \in Threads : pc[t] = "return" =>
    /\ pfns[t] <=> locked[t] > 0
    /\ pfns[t] => sr_status[t] = "ERROR_GEN_FAILURE"

(* Every sector exactly once, and a status that tells the truth.           *)
Service == INSTANCE BlkService WITH
  call <- [t \in Threads |-> CASE pc[t] = "idle" -> "out" [] pc[t] = "return" -> "back"
                              [] OTHER -> "in"],
  request <- req,
  done <- io,
  result <- [t \in Threads |-> IF pc[t] = "return" THEN sr_status[t] ELSE "ERROR_IO_PENDING"]

ServiceSpec == Service!Spec

(* Every call of DSK_IOControl returns.  Under PromptSpec this says more:  *)
(* no notification and no interrupt is ever missing, the one-second        *)
(* time-out of virtio.c:382 is not needed.                                 *)
CallsReturn == \A t \in Threads : pc[t] # "idle" ~> pc[t] = "idle"

(* The pages of a caller's buffers are pinned from before the device is    *)
(* told of them until it is done with them, and then released              *)
(* (virtio.c:260-273, 427-438).                                            *)
PagesSafe == PagesPinned /\ PagesReleased
=============================================================================
