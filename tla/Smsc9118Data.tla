---------------------------- MODULE Smsc9118Data -----------------------------
(***************************************************************************)
(* The data path of the LAN9118 miniport: the two rings of receive packets *)
(* the ISR and the DPC hand to each other, the packets the protocols keep, *)
(* and the queue of packets for which the chip's TX FIFO had no room, with *)
(* the TX-data-available (TDFA) interrupt that empties it.  NDIS runs one  *)
(* handler of this miniport at a time (it is not deserialised), and the    *)
(* ISR between any two of their steps.                                     *)
(*                                                                         *)
(* A frame is a number, in the order of arrival; what a packet for sending *)
(* needs of the FIFO is a few units.                                       *)
(***************************************************************************)
EXTENDS Naturals, Sequences, FiniteSets, SequencesExt, FiniteSetsExt, Functions

CONSTANTS
  MaxRx,        \* MAX_RXPACKETS_IN_QUEUE: the driver's own receive packets
  FifoSize,     \* room of the TX data FIFO, in units
  Level,        \* TDFA level 0x20, in units: the interrupt comes above it
  Many,         \* deferred packets above which receiving gives way (100)
  Batches,      \* what one call of SendPackets may bring: sequences of needs
  Loads         \* <<how many frames arrive, how many packets are sent>>  (bound)

Pkts  == 1 .. MaxRx
Slots == 0 .. MaxRx             \* MAX_RXPACKET_IN_LIST is one more than the packets
None  == 0

VARIABLES
  load,         \* which of Loads
  rxFifo,       \* frames in the chip's RX FIFO
  arrived,      \* frames that have arrived
  EmptyPkt, FullPkt,            \* rings [arr, rd, wr] of packets
  frame,        \* packet -> the frame in its buffer
  status,       \* packet -> NDIS status, "success" or "pending"
  batch,        \* HandlerRxDPC's RxPacketArrayIndicate
  held,         \* packets a protocol has kept
  seen,         \* the frames given to protocols
  yielded,      \* HandlerRxDPC has last given way to TX
  TxDeferedPkt, \* queue of packets waiting for room
  args,         \* what is left of SendPackets' array
  sends,        \* packet for sending -> [need, call]
  calls,        \* calls of SendPackets so far
  txFifo,       \* packets in the chip's TX FIFO
  wire,         \* packets that have been put into it, in order
  answers,      \* packet for sending -> how often NDIS was told that it is done
  TDFALevel, level,             \* the adapter's variable, the chip's register
  isr, tdfa,    \* where the ISR is; the TDFA bit of its IntStatus
  RxDPCNeeded, TxDPCNeeded, dpc,\* and whether NDIS will call HandleInterrupt
  pc, RxStatus, TxStatus        \* where the handler of NDIS is

rxVars  == << rxFifo, arrived, EmptyPkt, FullPkt, frame, status, batch, held, seen, yielded >>
txVars  == << TxDeferedPkt, args, sends, calls, txFifo, wire, answers, TDFALevel, level >>
isrVars == << isr, tdfa, RxDPCNeeded, TxDPCNeeded, dpc >>
vars    == << load, rxVars, txVars, isrVars, pc, RxStatus, TxStatus >>
-----------------------------------------------------------------------------
(* The rings.                                                              *)
IncPtr(x)       == (x + 1) % (MaxRx + 1)
IsArrayEmpty(r) == r.rd = r.wr
IsArrayFull(r)  == r.rd = IncPtr(r.wr)
Put(r, p) == IF IsArrayFull(r) THEN r ELSE [r EXCEPT !.arr[r.wr] = p, !.wr = IncPtr(@)]
First(r)  == r.arr[r.rd]
Got(r)    == [r EXCEPT !.rd = IncPtr(@)]

Content(r) == [i \in 1 .. (r.wr + MaxRx + 1 - r.rd) % (MaxRx + 1) |->
                 r.arr[(r.rd + i - 1) % (MaxRx + 1)]]

(* InitializeQueues.                                                       *)
InitEmpty == [arr |-> [s \in Slots |-> IF s = MaxRx THEN None ELSE s + 1], rd |-> 0, wr |-> MaxRx]
InitFull  == [arr |-> [s \in Slots |-> None], rd |-> 0, wr |-> 0]

Init ==
  /\ load \in Loads
  /\ rxFifo = << >> /\ arrived = 0 /\ EmptyPkt = InitEmpty /\ FullPkt = InitFull
  /\ frame = [p \in Pkts |-> 0] /\ status = [p \in Pkts |-> "success"]
  /\ batch = << >> /\ held = {} /\ seen = << >> /\ yielded = FALSE
  /\ TxDeferedPkt = << >> /\ args = << >> /\ sends = << >> /\ calls = 0
  /\ txFifo = << >> /\ wire = << >> /\ answers = << >>
  /\ TDFALevel = "off" /\ level = "off"
  /\ isr = "none" /\ tdfa = FALSE /\ RxDPCNeeded = FALSE /\ TxDPCNeeded = FALSE /\ dpc = FALSE
  /\ pc = "idle" /\ RxStatus = "done" /\ TxStatus = "done"
-----------------------------------------------------------------------------
(* The chip.                                                               *)
Free == FifoSize - FoldSeq(LAMBDA k, n : sends[k].need + n, 0, txFifo)

Arrive ==
  /\ arrived < load[1]
  /\ arrived' = arrived + 1 /\ rxFifo' = Append(rxFifo, arrived')
  /\ UNCHANGED << EmptyPkt, FullPkt, frame, status, batch, held, seen, yielded, txVars, isrVars,
                  pc, RxStatus, TxStatus >>

Transmitted ==
  /\ txFifo # << >> /\ txFifo' = Tail(txFifo)
  /\ UNCHANGED << rxVars, TxDeferedPkt, args, sends, calls, wire, answers, TDFALevel, level,
                  isrVars, pc, RxStatus, TxStatus >>

TdfaSet == level = "low" /\ Free > Level
-----------------------------------------------------------------------------
(* The ISR.                                                                *)
IsrEnter ==
  /\ isr = "none" /\ (rxFifo # << >> \/ TdfaSet)
  /\ tdfa' = TdfaSet
  /\ isr' = IF rxFifo # << >> THEN "rx" ELSE "rest"
  /\ RxDPCNeeded' = (RxDPCNeeded /\ rxFifo = << >>)
  /\ UNCHANGED << rxVars, txVars, TxDPCNeeded, dpc, pc, RxStatus, TxStatus >>

(* HandlerRxISR, one frame: into an empty packet, or, if the frame is bad  *)
(* or there is none, away.                                                 *)
RxISR(good) ==
  /\ isr = "rx" /\ rxFifo # << >>
  /\ rxFifo' = Tail(rxFifo)
  /\ RxDPCNeeded' = (RxDPCNeeded \/ good)
  /\ IF good /\ ~IsArrayEmpty(EmptyPkt)
       THEN LET p == First(EmptyPkt) IN
            /\ EmptyPkt' = Got(EmptyPkt) /\ FullPkt' = Put(FullPkt, p)
            /\ frame' = [frame EXCEPT ![p] = Head(rxFifo)]
            /\ status' = [status EXCEPT ![p] = "success"]
       ELSE UNCHANGED << EmptyPkt, FullPkt, frame, status >>
  /\ UNCHANGED << arrived, batch, held, seen, yielded, txVars, isr, tdfa, TxDPCNeeded, dpc,
                  pc, RxStatus, TxStatus >>

RxISREnd ==
  /\ isr = "rx" /\ rxFifo = << >> /\ isr' = "rest"
  /\ UNCHANGED << rxVars, txVars, tdfa, RxDPCNeeded, TxDPCNeeded, dpc, pc, RxStatus, TxStatus >>

(* HandlerTxISR turns the TDFA interrupt off; then the DPC is asked for if *)
(* either side needs it.                                                   *)
IsrLeave ==
  /\ isr = "rest" /\ isr' = "none" /\ tdfa' = FALSE
  /\ IF tdfa THEN TDFALevel' = "off" /\ level' = "off" ELSE UNCHANGED << TDFALevel, level >>
  /\ dpc' = (dpc \/ RxDPCNeeded \/ TxDPCNeeded \/ tdfa)
  /\ RxDPCNeeded' = FALSE /\ TxDPCNeeded' = FALSE
  /\ UNCHANGED << rxVars, TxDeferedPkt, args, sends, calls, txFifo, wire, answers, pc,
                  RxStatus, TxStatus >>
-----------------------------------------------------------------------------
(* Sending.  Smsc9118XmitOnePacket fills the FIFO, and then reads the      *)
(* status of whatever has been transmitted: the packet is answered with    *)
(* success or failure, which the answers do not tell apart.                *)
Fits(k)   == sends[k].need < Free
Queued(k) == TxDeferedPkt' = Append(TxDeferedPkt, k)
Answer(k) == answers' = [answers EXCEPT ![k] = @ + 1]

XmitOnePacket(k) == txFifo' = Append(txFifo, k) /\ wire' = Append(wire, k)

(* Smsc9118SendPackets: behind what is deferred if something is.           *)
SendPackets(needs) ==
  /\ pc = "idle" /\ Len(sends) + Len(needs) <= load[2]
  /\ LET new == [i \in 1 .. Len(needs) |-> Len(sends) + i] IN
     /\ sends' = sends \o [i \in 1 .. Len(needs) |-> [need |-> needs[i], call |-> calls + 1]]
     /\ answers' = answers \o [i \in 1 .. Len(needs) |-> 0]
     /\ IF TxDeferedPkt # << >>
          THEN TxDeferedPkt' = TxDeferedPkt \o new /\ pc' = "defered" /\ UNCHANGED args
          ELSE args' = new /\ pc' = "xmit" /\ UNCHANGED TxDeferedPkt
  /\ calls' = calls + 1
  /\ UNCHANGED << rxVars, txFifo, wire, TDFALevel, level, isrVars, RxStatus, TxStatus >>

(* The first of the queue into the FIFO, for SendPackets as for the DPC.   *)
SendFirst(at) ==
  /\ pc = at /\ TxDeferedPkt # << >>
  /\ LET k == Head(TxDeferedPkt) IN Fits(k) /\ XmitOnePacket(k) /\ Answer(k)
  /\ TxDeferedPkt' = Tail(TxDeferedPkt)
  /\ UNCHANGED << rxVars, args, sends, calls, TDFALevel, level, isrVars, pc, RxStatus, TxStatus >>

(* When none is left, or there is no room, the level is set.               *)
SendDeferedEnd ==
  /\ pc = "defered"
  /\ TxDeferedPkt # << >> => ~Fits(Head(TxDeferedPkt))
  /\ TDFALevel' = "low" /\ pc' = "sync"
  /\ UNCHANGED << rxVars, TxDeferedPkt, args, sends, calls, txFifo, wire, answers, level, isrVars,
                  RxStatus, TxStatus >>

(* With nothing deferred each packet is sent, or becomes deferred.         *)
SendOne ==
  /\ pc = "xmit" /\ args # << >>
  /\ LET k == Head(args) IN
     IF Fits(k)
       THEN XmitOnePacket(k) /\ Answer(k) /\ TDFALevel' = "off" /\ pc' = "sync_sent"
            /\ UNCHANGED TxDeferedPkt
       ELSE Queued(k) /\ TDFALevel' = "low" /\ pc' = "sync_xmit"
            /\ UNCHANGED << txFifo, wire, answers >>
  /\ args' = Tail(args)
  /\ UNCHANGED << rxVars, sends, calls, level, isrVars, RxStatus, TxStatus >>

SendEnd ==
  /\ pc = "xmit" /\ args = << >> /\ pc' = "idle"
  /\ UNCHANGED << rxVars, txVars, isrVars, RxStatus, TxStatus >>

(* SyncSetTDFALevel, which runs with the ISR kept out and programs what    *)
(* the variable holds by then.                                             *)
AfterSync == [sync_sent |-> "sent", sync_xmit |-> "xmit", sync |-> "idle", sync_dpc |-> "dpc"]

SyncSetTDFALevel ==
  /\ isr = "none" /\ level' = TDFALevel
  /\ pc \in DOMAIN AfterSync /\ pc' = AfterSync[pc]
  /\ UNCHANGED << rxVars, TxDeferedPkt, args, sends, calls, txFifo, wire, answers, TDFALevel,
                  isrVars, RxStatus, TxStatus >>

SendAgainLow ==
  /\ pc = "sent" /\ TDFALevel' = "low" /\ pc' = "sync_xmit"
  /\ UNCHANGED << rxVars, TxDeferedPkt, args, sends, calls, txFifo, wire, answers, level, isrVars,
                  RxStatus, TxStatus >>
-----------------------------------------------------------------------------
(* Smsc9118HandleInterrupt.                                                *)
DpcStart ==
  /\ dpc /\ pc = "idle" /\ pc' = "dpc" /\ dpc' = FALSE
  /\ RxStatus' = "done" /\ TxStatus' = "done"
  /\ UNCHANGED << rxVars, txVars, isr, tdfa, RxDPCNeeded, TxDPCNeeded >>

WantsRx == ~IsArrayEmpty(FullPkt) /\ RxStatus = "done"
WantsTx == TxDeferedPkt # << >> /\ TxStatus = "done"

DpcRx ==
  /\ pc = "dpc" /\ WantsRx /\ pc' = "rx" /\ args' = << Len(TxDeferedPkt) >> /\ yielded' = FALSE
  /\ UNCHANGED << rxFifo, arrived, EmptyPkt, FullPkt, frame, status, batch, held, seen,
                  TxDeferedPkt, sends, calls, txFifo, wire, answers, TDFALevel, level, isrVars,
                  RxStatus, TxStatus >>

(* HandlerRxDPC collects the full packets; one whose address no list names *)
(* goes back; with many packets deferred it collects no more than twice as *)
(* many.                                                                   *)
RxCollect(wanted) ==
  /\ pc = "rx" /\ ~IsArrayEmpty(FullPkt)
  /\ LET p == First(FullPkt) IN
     /\ FullPkt' = Got(FullPkt)
     /\ IF wanted THEN batch' = Append(batch, p) /\ UNCHANGED EmptyPkt
                  ELSE EmptyPkt' = Put(EmptyPkt, p) /\ UNCHANGED batch
  /\ IF wanted /\ args[1] > Many /\ Len(batch') > 2 * args[1]
       THEN RxStatus' = "pending" /\ yielded' = TRUE /\ pc' = "indicate"
       ELSE UNCHANGED << RxStatus, yielded, pc >>
  /\ UNCHANGED << rxFifo, arrived, frame, status, held, seen, txVars, isrVars, TxStatus >>

RxCollectEnd ==
  /\ pc = "rx" /\ IsArrayEmpty(FullPkt) /\ pc' = "indicate"
  /\ UNCHANGED << rxVars, txVars, isrVars, RxStatus, TxStatus >>

(* NdisMIndicateReceivePacket: the protocols look at all of the packets    *)
(* and keep some, whose status NDIS makes pending.                         *)
Indicate(kept) ==
  /\ pc = "indicate" /\ pc' = "returning"
  /\ held' = held \cup kept
  /\ status' = [p \in Pkts |-> IF p \in kept THEN "pending" ELSE status[p]]
  /\ seen' = seen \o [i \in 1 .. Len(batch) |-> frame[batch[i]]]
  /\ UNCHANGED << rxFifo, arrived, EmptyPkt, FullPkt, frame, batch, yielded, txVars, isrVars,
                  RxStatus, TxStatus >>

(* Mutant of the next: the kept ones are put back as well.                 *)
RxReturnAll ==
  /\ pc = "returning" /\ batch # << >>
  /\ EmptyPkt' = Put(EmptyPkt, Head(batch))
  /\ batch' = Tail(batch)
  /\ UNCHANGED << rxFifo, arrived, FullPkt, frame, status, held, seen, yielded, txVars, isrVars,
                  pc, RxStatus, TxStatus >>

(* The others are empty again.                                             *)
RxReturn ==
  /\ pc = "returning" /\ batch # << >>
  /\ EmptyPkt' = IF status[Head(batch)] = "success" THEN Put(EmptyPkt, Head(batch)) ELSE EmptyPkt
  /\ batch' = Tail(batch)
  /\ UNCHANGED << rxFifo, arrived, FullPkt, frame, status, held, seen, yielded, txVars, isrVars,
                  pc, RxStatus, TxStatus >>

(* After the receive half comes the transmit half of the same round.       *)
RxReturnEnd ==
  /\ pc = "returning" /\ batch = << >>
  /\ pc' = IF WantsTx THEN "tx" ELSE "dpc"
  /\ args' = << >>
  /\ UNCHANGED << rxVars, TxDeferedPkt, sends, calls, txFifo, wire, answers, TDFALevel, level,
                  isrVars, RxStatus, TxStatus >>

DpcTx ==
  /\ pc = "dpc" /\ ~WantsRx /\ WantsTx /\ pc' = "tx"
  /\ UNCHANGED << rxVars, txVars, isrVars, RxStatus, TxStatus >>

(* HandlerTxDPC: without room for the first it waits for the interrupt.    *)
TxNoRoom ==
  /\ pc = "tx" /\ TxDeferedPkt # << >> /\ ~Fits(Head(TxDeferedPkt))
  /\ TDFALevel' = "low" /\ TxStatus' = "pending" /\ pc' = "sync_dpc"
  /\ UNCHANGED << rxVars, TxDeferedPkt, args, sends, calls, txFifo, wire, answers, level, isrVars,
                  RxStatus >>

TxDone ==
  /\ pc = "tx" /\ TxDeferedPkt = << >> /\ pc' = "dpc"
  /\ UNCHANGED << rxVars, txVars, isrVars, RxStatus, TxStatus >>

DpcEnd ==
  /\ pc = "dpc" /\ ~WantsRx /\ ~WantsTx /\ pc' = "idle"
  /\ UNCHANGED << rxVars, txVars, isrVars, RxStatus, TxStatus >>
-----------------------------------------------------------------------------
(* Smsc9118GetReturnedPackets.                                             *)
GetReturnedPackets(p) ==
  /\ pc = "idle" /\ p \in held
  /\ held' = held \ {p} /\ status' = [status EXCEPT ![p] = "success"]
  /\ EmptyPkt' = Put(EmptyPkt, p)
  /\ UNCHANGED << rxFifo, arrived, FullPkt, frame, batch, seen, yielded, txVars, isrVars, pc,
                  RxStatus, TxStatus >>

(* Reset118, when the queue has grown too long: with the chip's interrupt  *)
(* off, whatever is deferred fails.                                        *)
Reset118 ==
  /\ pc = "idle" /\ isr = "none" /\ Len(TxDeferedPkt) > Many
  /\ answers' = [k \in DOMAIN answers |->
                   IF Contains(TxDeferedPkt, k) THEN answers[k] + 1 ELSE answers[k]]
  /\ TxDeferedPkt' = << >>
  /\ UNCHANGED << rxVars, args, sends, calls, txFifo, wire, TDFALevel, level, isrVars, pc,
                  RxStatus, TxStatus >>

IsrStep == IsrEnter \/ (\E good \in BOOLEAN : RxISR(good)) \/ RxISREnd \/ IsrLeave

HandlerStep ==
  \/ SendFirst("defered") \/ SendDeferedEnd \/ SendOne \/ SendEnd \/ SendAgainLow
  \/ SyncSetTDFALevel
  \/ DpcStart \/ DpcRx \/ (\E wanted \in BOOLEAN : RxCollect(wanted)) \/ RxCollectEnd
  \/ (\E kept \in SUBSET ToSet(batch) : Indicate(kept)) \/ RxReturn \/ RxReturnEnd
  \/ DpcTx \/ SendFirst("tx") \/ TxNoRoom \/ TxDone \/ DpcEnd

Next ==
  /\ UNCHANGED load
  /\ \/ Arrive \/ Transmitted \/ IsrStep \/ HandlerStep
     \/ \E needs \in Batches : SendPackets(needs)
     \/ \E p \in Pkts : GetReturnedPackets(p)
     \/ Reset118

Spec == Init /\ [][Next]_vars

(* The chip transmits, its interrupts are served, and a handler runs on.   *)
Fairness ==
  /\ WF_vars(Transmitted /\ UNCHANGED load) /\ WF_vars(IsrStep /\ UNCHANGED load)
  /\ WF_vars(HandlerStep /\ UNCHANGED load)
FairSpec == Spec /\ Fairness
-----------------------------------------------------------------------------
(* Every packet of the driver is in one place: a ring, the DPC's array or  *)
(* a protocol (smsc9118.c:2597-2665, 2720-2750, 3066).                     *)
Places(p) ==
  Cardinality({i \in DOMAIN Content(EmptyPkt) : Content(EmptyPkt)[i] = p})
    + Cardinality({i \in DOMAIN Content(FullPkt) : Content(FullPkt)[i] = p})
    + Cardinality({i \in DOMAIN batch : batch[i] = p /\ ~(pc = "returning" /\ p \in held)})
    + (IF p \in held THEN 1 ELSE 0)
PacketsConserved == \A p \in Pkts : Places(p) = 1

(* No frame is given to the protocols twice, nor after a later one, though *)
(* the ISR refills packets while the DPC empties others                    *)
(* (smsc9118.c:2669-2760).                                                 *)
SeenInOrder == \A i, j \in DOMAIN seen : i < j => seen[i] < seen[j]

(* A packet is answered once, and no packet is put into the FIFO and kept  *)
(* for later as well (smsc9118.c:3556-3725, 3794-3836, 4846-4852).         *)
AnsweredOnce ==
  \A k \in DOMAIN answers :
    /\ answers[k] <= 1
    /\ Contains(TxDeferedPkt, k) => answers[k] = 0 /\ ~Contains(wire, k)

(* What one call hands over is sent before what a later call hands over    *)
(* (smsc9118.c:3543-3556: behind the deferred ones).                       *)
CallsInOrder == \A i, j \in DOMAIN wire : i < j => sends[wire[i]].call <= sends[wire[j]].call

(* A packet that waits for room is answered: the level set in the adapter  *)
(* may be overwritten by the ISR before it reaches the chip, but then the  *)
(* DPC comes.  One in so many pieces that it needs more than the FIFO has  *)
(* is never sent, nor what is behind it                                    *)
(* (smsc9118.c:3626, 3731-3767, 3831).                                     *)
Answered(k) == k \in DOMAIN answers /\ answers[k] > 0
TooLarge(k) == sends[k].need >= FifoSize
DeferedAreSent ==
  \A k \in 1 .. Max({l[2] : l \in Loads}) :
    (k \in DOMAIN answers) ~> (Answered(k) \/ \E j \in DOMAIN sends : j <= k /\ TooLarge(j))

(* A received frame is given to the protocols, except those HandlerRxDPC   *)
(* leaves when it gives way to sending (smsc9118.c:2724-2730).             *)
FullIsHandedUp == (Content(FullPkt) # << >>) ~> (Content(FullPkt) = << >> \/ yielded)

(* No packet is lost or doubled on its way through the queues, they are    *)
(* seen and sent in order, and each is answered once                       *)
(* (smsc9118.c:2597-3836).                                                 *)
DataSound == PacketsConserved /\ SeenInOrder /\ AnsweredOnce /\ CallsInOrder
=============================================================================
