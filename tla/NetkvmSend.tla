------------------------------ MODULE NetkvmSend ------------------------------
(***************************************************************************)
(* The send path of netkvm for NDIS 5: NDIS hands over packets, which are  *)
(* queued, submitted to the TX virtqueue as far as there is room for them, *)
(* and completed in the order of submission when the device is done with   *)
(* them.  The same routine, ParaNdis_ProcessTx, is run by whoever sends,   *)
(* by the DPC, by the timer that follows a DPC that did not finish and by  *)
(* the check for a hanging DPC; a reset or a halt stops sending and waits  *)
(* until no packet is left.  SendLock makes their critical sections        *)
(* exclude each other.                                                     *)
(*                                                                         *)
(* The virtqueue is taken for what VirtIORing shows it to be: a device     *)
(* that is kicked sees what was added; a driver that has interrupts        *)
(* enabled gets one when more than bufs buffers are used.                  *)
(***************************************************************************)
EXTENDS Integers, Sequences, FiniteSets, SequencesExt, Functions

CONSTANTS
  Packets,      \* 1 .. n, handed over in this order
  Kind,         \* of each: [frags |-> fragments, lso |-> BOOLEAN, fits |-> BOOLEAN]
  Batches,      \* how many packets a call of NDIS brings
  MaxTx,        \* maxFreeTxDescriptors; there are twice as many hardware buffers
  UintMod,      \* 2^32, the range of a UINT
  UseSG, UseIndirect,   \* bUseScatterGather, bUseIndirect
  Checker,      \* nEnableDPCChecker
  MaxResets, Removes    \* bounds: resets; whether the device may be removed by surprise

Threads == {"sender", "dpc", "timer", "hang"}
MaxHw   == 2 * MaxTx
Ring    == 2 * MaxTx            \* the queue has room for that much at least

VARIABLES
  next,                 \* the next packet of NDIS
  SendQueue, TxWaitingList, ready, noIndirect,  \* entries, and their flags
  status, completions,  \* of each packet
  freeTx, freeHw, nofUsedBuffers,       \* nofFreeTxDescriptors, nofFreeHardwareBuffers
  unkicked, inQueue, used,      \* the virtqueue: not yet seen by the device, with it, used
  cb, bufs,             \* its interrupts
  doKickOnNoBuffer,
  InterruptStatus, irq, dpcQueued, timerSet, dpcInactive,
  SendState, pauseCb, ResetEvent, resetPc, resets,
  lock,                 \* who holds SendLock
  pc, nSent, done, callback,    \* of each thread: in ProcessTx
  removed,              \* surprise removal
  aborted, sent         \* history: unsent, returned with success; used by the device

listVars  == << SendQueue, TxWaitingList, ready, noIndirect >>
countVars == << freeTx, freeHw, nofUsedBuffers >>
queueVars == << unkicked, inQueue, used, cb, bufs >>
irqVars   == << InterruptStatus, irq, dpcQueued, timerSet, dpcInactive >>
stopVars  == << SendState, pauseCb, ResetEvent, resetPc, resets, removed, aborted, sent >>
callVars  == << lock, pc, nSent, done, callback >>
vars == << next, listVars, status, completions, countVars, queueVars, doKickOnNoBuffer, irqVars,
           stopVars, callVars >>

Init ==
  /\ next = 1 /\ SendQueue = << >> /\ TxWaitingList = << >> /\ ready = {} /\ noIndirect = {}
  /\ status = [p \in Packets |-> "none"] /\ completions = [p \in Packets |-> 0]
  /\ freeTx = MaxTx /\ freeHw = MaxHw /\ nofUsedBuffers = [p \in Packets |-> 0]
  /\ unkicked = {} /\ inQueue = {} /\ used = << >> /\ cb = TRUE /\ bufs = 0
  /\ doKickOnNoBuffer = FALSE
  /\ InterruptStatus = FALSE /\ irq = FALSE /\ dpcQueued = FALSE /\ timerSet = FALSE
  /\ dpcInactive = FALSE
  /\ SendState = "enabled" /\ pauseCb = FALSE /\ ResetEvent = FALSE /\ resetPc = "none"
  /\ resets = 0 /\ removed = FALSE /\ aborted = {} /\ sent = {}
  /\ lock = "free" /\ pc = [t \in Threads |-> "idle"] /\ nSent = [t \in Threads |-> 0]
  /\ done = [t \in Threads |-> {}] /\ callback = [t \in Threads |-> FALSE]
-----------------------------------------------------------------------------
(* ParaNdis5_SendPackets, up to ParaNdis_ProcessTx.  A packet is refused   *)
(* for good, or after PrepareSendEntry finds fault with it.                *)
Going(n) == next .. next + n - 1
SendPackets ==
  \E n \in Batches, bad \in BOOLEAN :
    /\ pc["sender"] = "idle" /\ lock = "free" /\ Going(n) \subseteq Packets
    /\ next' = next + n
    /\ LET refused == IF removed \/ SendState # "enabled" THEN Going(n)
                      ELSE IF bad THEN {next} ELSE {} IN
       /\ SendQueue' = SendQueue \o SelectSeq([i \in 1 .. n |-> next + i - 1],
                                              LAMBDA p : p \notin refused)
       /\ status' = [p \in Packets |->
                       IF p \in refused THEN IF removed THEN "NOT_ACCEPTED" ELSE "FAILURE"
                       ELSE IF p \in Going(n) THEN "SUCCESS" ELSE status[p]]
       /\ completions' = [p \in Packets |-> completions[p] + IF p \in refused THEN 1 ELSE 0]
    /\ pc' = [pc EXCEPT !["sender"] = "process"]
    /\ UNCHANGED << TxWaitingList, ready, noIndirect, countVars, queueVars, doKickOnNoBuffer, irqVars,
                    stopVars, lock, nSent, done, callback >>

(* ParaNdis5_CancelSendPackets: what is still in the queue.                *)
CancelSendPackets(p) ==
  /\ lock = "free" /\ Contains(SendQueue, p)
  /\ SendQueue' = Remove(SendQueue, p)
  /\ status' = [status EXCEPT ![p] = "REQUEST_ABORTED"]
  /\ completions' = [completions EXCEPT ![p] = @ + 1]
  /\ UNCHANGED << next, TxWaitingList, ready, noIndirect, countVars, queueVars, doKickOnNoBuffer,
                  irqVars, stopVars, callVars >>
-----------------------------------------------------------------------------
(* ParaNdis_ProcessTx takes the lock and goes round its loop, releasing    *)
(* what is used and submitting what is queued.                             *)
ProcessTx(t) ==
  /\ pc[t] = "process" /\ lock = "free" /\ lock' = t
  /\ pc' = [pc EXCEPT ![t] = "loop"] /\ nSent' = [nSent EXCEPT ![t] = 0]
  /\ UNCHANGED << next, listVars, status, completions, countVars, queueVars, doKickOnNoBuffer,
                  irqVars, stopVars, done, callback >>

(* ParaNdis_VirtIONetReleaseTransmitBuffers.                               *)
SumUsed(S) == FoldFunctionOnSet(LAMBDA a, b : a + b, 0, nofUsedBuffers, S)
Released   == ToSet(used)

(* Mutant: every packet is taken to have had two buffers.                  *)
AfterReleaseTwo == [tx |-> freeTx + Len(used), hw |-> (freeHw + 2 * Len(used)) % UintMod]

AfterRelease ==
  [tx |-> freeTx + Len(used), hw |-> (freeHw + SumUsed(Released)) % UintMod]

ReleaseTransmitBuffers ==
  /\ used' = << >> /\ freeTx' = AfterRelease.tx /\ freeHw' = AfterRelease.hw
  /\ ready' = ready \cup Released
  /\ nofUsedBuffers' = [p \in Packets |-> IF p \in Released THEN 0 ELSE nofUsedBuffers[p]]
  /\ doKickOnNoBuffer' = (doKickOnNoBuffer \/ used # << >>)
  /\ bufs' = IF used # << >> THEN 0 ELSE bufs

(* What ParaNdis_DoSubmitPacket makes of a packet when tx descriptors and  *)
(* hw buffers are free: nothing yet, or an error, or so many buffers, in   *)
(* so many entries of the ring.  A packet whose header does not fit before *)
(* its indirect table goes without one, if there is room.                  *)
InRing(p)  == IF UseIndirect /\ Kind[p].fits /\ nofUsedBuffers[p] > 0 /\ p \notin noIndirect
                THEN 1 ELSE nofUsedBuffers[p]
RingFree   == Ring - FoldFunctionOnSet(LAMBDA a, b : a + b, 0, [p \in Packets |-> InRing(p)], Packets)

(* Mutant: only the descriptors are looked at.                             *)
SubmitBlind(p, tx, hw) ==
  LET copy     == ~UseSG \/ (~Kind[p].lso /\ Kind[p].frags + 1 > MaxHw)
      indirect == UseIndirect /\ p \notin noIndirect /\ ~copy
      required == IF copy THEN 2 ELSE IF indirect THEN 1 ELSE Kind[p].frags + 1
      mapped   == IF copy THEN 2 ELSE Kind[p].frags + 1
      entries  == IF indirect /\ Kind[p].fits THEN 1 ELSE mapped IN
  IF required > MaxHw THEN [error |-> "TooLarge", mapped |-> 0]
  ELSE IF tx = 0 THEN [error |-> "NoBuffer", mapped |-> 0]
  ELSE IF Kind[p].lso /\ copy THEN [error |-> "InternalError", mapped |-> 0]
  ELSE IF indirect /\ ~Kind[p].fits /\ mapped > hw THEN [error |-> "NoIndirect", mapped |-> 0]
  ELSE IF entries > RingFree THEN [error |-> "InternalError", mapped |-> 0]
  ELSE [error |-> "OK", mapped |-> mapped]

Submit(p, tx, hw) ==
  LET copy     == ~UseSG \/ (~Kind[p].lso /\ Kind[p].frags + 1 > MaxHw)
      indirect == UseIndirect /\ p \notin noIndirect /\ ~copy
      required == IF copy THEN 2 ELSE IF indirect THEN 1 ELSE Kind[p].frags + 1
      mapped   == IF copy THEN 2 ELSE Kind[p].frags + 1
      entries  == IF indirect /\ Kind[p].fits THEN 1 ELSE mapped IN
  IF required > MaxHw THEN [error |-> "TooLarge", mapped |-> 0]
  ELSE IF hw < required \/ tx = 0 THEN [error |-> "NoBuffer", mapped |-> 0]
  ELSE IF Kind[p].lso /\ copy THEN [error |-> "InternalError", mapped |-> 0]
  ELSE IF indirect /\ ~Kind[p].fits /\ mapped > hw THEN [error |-> "NoIndirect", mapped |-> 0]
  ELSE IF entries > RingFree THEN [error |-> "InternalError", mapped |-> 0]
  ELSE [error |-> "OK", mapped |-> mapped]

(* A round of the loop.  The queue's used buffers are released first if    *)
(* not all descriptors are free; if there is no room now, interrupts are   *)
(* delayed until there is.                                                 *)
Release(t) ==
  /\ pc[t] = "loop" /\ pc' = [pc EXCEPT ![t] = "submit"]
  /\ IF freeTx < MaxTx THEN ReleaseTransmitBuffers
     ELSE UNCHANGED << used, freeTx, freeHw, ready, nofUsedBuffers, doKickOnNoBuffer, bufs >>
  /\ UNCHANGED << next, SendQueue, TxWaitingList, noIndirect, status, completions, unkicked, inQueue,
                  cb, irqVars, stopVars, lock, nSent, done, callback >>

KickNow == inQueue' = inQueue \cup unkicked /\ unkicked' = {}

SubmitHead(t) ==
  LET p == Head(SendQueue)
      r == Submit(p, freeTx, freeHw)
      outstanding == Cardinality(inQueue) + Cardinality(unkicked) + Len(used) IN
  /\ pc[t] = "submit" /\ SendQueue # << >>
  /\ CASE r.error = "OK" ->
            /\ SendQueue' = Tail(SendQueue) /\ TxWaitingList' = Append(TxWaitingList, p)
            /\ freeTx' = freeTx - 1 /\ freeHw' = (freeHw + UintMod - r.mapped) % UintMod
            /\ nofUsedBuffers' = [nofUsedBuffers EXCEPT ![p] = r.mapped]
            /\ unkicked' = unkicked \cup {p} /\ nSent' = [nSent EXCEPT ![t] = @ + 1]
            /\ pc' = [pc EXCEPT ![t] = "loop"]
            /\ UNCHANGED << ready, noIndirect, status, inQueue, cb, bufs, doKickOnNoBuffer >>
       [] r.error = "NoBuffer" ->
            /\ cb' = TRUE /\ bufs' = (outstanding * 3) \div 4
            /\ IF doKickOnNoBuffer THEN KickNow ELSE UNCHANGED << inQueue, unkicked >>
            /\ doKickOnNoBuffer' = FALSE /\ pc' = [pc EXCEPT ![t] = "collect"]
            /\ UNCHANGED << listVars, status, freeTx, freeHw, nofUsedBuffers, nSent >>
       [] r.error = "NoIndirect" ->
            /\ noIndirect' = noIndirect \cup {p} /\ pc' = [pc EXCEPT ![t] = "loop"]
            /\ UNCHANGED << SendQueue, TxWaitingList, ready, status, freeTx, freeHw, nofUsedBuffers,
                            unkicked, inQueue, cb, bufs, doKickOnNoBuffer, nSent >>
       [] OTHER ->
            /\ SendQueue' = Tail(SendQueue) /\ TxWaitingList' = Append(TxWaitingList, p)
            /\ ready' = ready \cup {p}
            /\ status' = [status EXCEPT ![p] =
                            IF r.error = "TooLarge" THEN "BUFFER_OVERFLOW" ELSE "FAILURE"]
            /\ pc' = [pc EXCEPT ![t] = "loop"]
            /\ UNCHANGED << noIndirect, freeTx, freeHw, nofUsedBuffers, unkicked, inQueue, cb, bufs,
                            doKickOnNoBuffer, nSent >>
  /\ UNCHANGED << next, completions, used, irqVars, stopVars, lock, done, callback >>

(* After the loop: the kick, which the DPC leaves for later; what is ready *)
(* at the head of TxWaitingList; and the end of a pause.                   *)

ReadyLen == CHOOSE k \in 0 .. Len(TxWaitingList) :
              /\ \A i \in 1 .. k : TxWaitingList[i] \in ready
              /\ k < Len(TxWaitingList) => TxWaitingList[k + 1] \notin ready

Collect(t) ==
  /\ pc[t] = "collect" \/ (pc[t] = "submit" /\ SendQueue = << >>)
  /\ IF nSent[t] > 0 /\ t = "sender" THEN KickNow ELSE UNCHANGED << inQueue, unkicked >>
  /\ done' = [done EXCEPT ![t] = ToSet(SubSeq(TxWaitingList, 1, ReadyLen))]
  /\ TxWaitingList' = SubSeq(TxWaitingList, ReadyLen + 1, Len(TxWaitingList))
  /\ IF TxWaitingList' = << >> /\ SendState = "pausing" /\ pauseCb
       THEN /\ SendState' = "disabled" /\ pauseCb' = FALSE
            /\ callback' = [callback EXCEPT ![t] = TRUE]
       ELSE UNCHANGED << SendState, pauseCb, callback >>
  /\ lock' = "free" /\ pc' = [pc EXCEPT ![t] = "complete"]
  /\ UNCHANGED << next, SendQueue, ready, noIndirect, status, completions, countVars, used, cb, bufs,
                  doKickOnNoBuffer, irqVars, ResetEvent, resetPc, resets, removed, aborted, sent,
                  nSent >>

Complete(t) ==
  /\ pc[t] = "complete"
  /\ completions' = [p \in Packets |-> completions[p] + IF p \in done[t] THEN 1 ELSE 0]
  /\ done' = [done EXCEPT ![t] = {}] /\ callback' = [callback EXCEPT ![t] = FALSE]
  /\ ResetEvent' = (ResetEvent \/ callback[t])
  /\ pc' = [pc EXCEPT ![t] = IF t = "sender" THEN "idle" ELSE "restart"]
  /\ UNCHANGED << next, listVars, status, countVars, queueVars, doKickOnNoBuffer, irqVars, SendState,
                  pauseCb, resetPc, resets, removed, aborted, sent, lock, nSent >>
-----------------------------------------------------------------------------
(* ParaNdis_OnLegacyInterrupt.                                             *)
Isr ==
  /\ irq /\ irq' = FALSE /\ cb' = FALSE /\ InterruptStatus' = TRUE /\ dpcQueued' = TRUE
  /\ UNCHANGED << next, listVars, status, completions, countVars, unkicked, inQueue, used, bufs,
                  doKickOnNoBuffer, timerSet, dpcInactive, stopVars, callVars >>

(* ParaNdis_DPCWorkBody takes what there is to do, ...                     *)
WorkBody(t) ==
  /\ dpcInactive' = FALSE /\ InterruptStatus' = FALSE
  /\ pc' = [pc EXCEPT ![t] = IF InterruptStatus THEN "process" ELSE "idle"]

(* ... begun by ParaNdis5_HandleDPC, ...                                   *)
HandleDPC ==
  /\ dpcQueued /\ pc["dpc"] = "idle" /\ dpcQueued' = FALSE /\ timerSet' = FALSE
  /\ WorkBody("dpc")
  /\ UNCHANGED << next, listVars, status, completions, countVars, queueVars, doKickOnNoBuffer, irq,
                  stopVars, lock, nSent, done, callback >>

(* ... by OnDPCPostProcessTimer, ...                                       *)
OnDPCPostProcessTimer ==
  /\ timerSet /\ pc["timer"] = "idle" /\ timerSet' = FALSE
  /\ WorkBody("timer")
  /\ UNCHANGED << next, listVars, status, completions, countVars, queueVars, doKickOnNoBuffer, irq,
                  dpcQueued, stopVars, lock, nSent, done, callback >>

(* ... or, when no DPC ran since the last time and packets are out, by     *)
(* CheckRunningDpc.                                                        *)
CheckRunningDpc ==
  /\ Checker /\ pc["hang"] = "idle"
  /\ IF dpcInactive /\ \E p \in Packets : p < next /\ completions[p] = 0
       THEN /\ pc' = [pc EXCEPT !["hang"] = "process"]
            /\ dpcInactive' = FALSE /\ InterruptStatus' = FALSE
       ELSE dpcInactive' = TRUE /\ UNCHANGED << pc, InterruptStatus >>
  /\ UNCHANGED << next, listVars, status, completions, countVars, queueVars, doKickOnNoBuffer, irq,
                  dpcQueued, timerSet, stopVars, lock, nSent, done, callback >>

(* At its end interrupts are enabled (RestartQueueSynchronously), unless   *)
(* more has been used: then the DPC and the timer have the timer come      *)
(* again, but the check does not.                                          *)
Restart(t) ==
  /\ pc[t] = "restart" /\ lock = "free" /\ pc' = [pc EXCEPT ![t] = "idle"]
  /\ cb' = (used = << >>) /\ bufs' = 0
  /\ IF nSent[t] > 0 THEN KickNow ELSE UNCHANGED << inQueue, unkicked >>
  /\ IF used # << >> /\ t # "hang"
       THEN InterruptStatus' = TRUE /\ timerSet' = TRUE
       ELSE UNCHANGED << InterruptStatus, timerSet >>
  /\ UNCHANGED << next, listVars, status, completions, countVars, used, doKickOnNoBuffer, irq,
                  dpcQueued, dpcInactive, stopVars, lock, nSent, done, callback >>

(* The device uses what it has been told of, in any order.                 *)
DeviceUses(p) ==
  /\ p \in inQueue /\ ~removed /\ inQueue' = inQueue \ {p} /\ used' = Append(used, p)
  /\ irq' = (irq \/ (cb /\ Len(used') > bufs)) /\ sent' = sent \cup {p}
  /\ UNCHANGED << next, listVars, status, completions, countVars, unkicked, cb, bufs,
                  doKickOnNoBuffer, InterruptStatus, dpcQueued, timerSet, dpcInactive, SendState,
                  pauseCb, ResetEvent, resetPc, resets, removed, aborted, callVars >>
-----------------------------------------------------------------------------
(* ParaNdis5_StopSend, called to reset (ParaNdis_Suspend) or to halt.      *)
(* Packets in the queue are returned unsent: with REQUEST_ABORTED if none  *)
(* is waiting, or else marked ready after those that are, and so with the  *)
(* status they have, SUCCESS.                                              *)
StopSend ==
  /\ resetPc \in {"none", "running"} /\ resets < MaxResets /\ lock = "free"
  /\ resets' = resets + 1 /\ SendQueue' = << >>
  /\ IF TxWaitingList = << >>
       THEN /\ SendState' = "disabled" /\ ResetEvent' = TRUE
            /\ status' = [p \in Packets |-> IF Contains(SendQueue, p) THEN "REQUEST_ABORTED"
                                            ELSE status[p]]
            /\ completions' = [p \in Packets |-> completions[p] + IF Contains(SendQueue, p)
                                                                    THEN 1 ELSE 0]
            /\ UNCHANGED << TxWaitingList, ready, pauseCb, aborted >>
       ELSE /\ SendState' = "pausing" /\ pauseCb' = TRUE /\ ResetEvent' = FALSE
            /\ TxWaitingList' = TxWaitingList \o SendQueue
            /\ ready' = ready \cup ToSet(SendQueue) /\ aborted' = aborted \cup ToSet(SendQueue)
            /\ UNCHANGED << status, completions >>
  /\ resetPc' = "wait"
  /\ UNCHANGED << next, noIndirect, countVars, queueVars, doKickOnNoBuffer, irqVars, removed,
                  sent, callVars >>

(* A reset goes on (ParaNdis_Resume, without the lock), a halt does not.   *)
Stopped ==
  /\ resetPc = "wait" /\ ResetEvent /\ ResetEvent' = FALSE
  /\ \/ resetPc' = "running" /\ SendState' = "enabled"
     \/ resetPc' = "halted" /\ UNCHANGED SendState
  /\ UNCHANGED << next, listVars, status, completions, countVars, queueVars, doKickOnNoBuffer,
                  irqVars, pauseCb, resets, removed, aborted, sent, callVars >>

(* ParaNdis_OnPnPEvent: the device is reset and uses nothing any more.     *)
SurpriseRemoved ==
  /\ Removes /\ ~removed /\ removed' = TRUE
  /\ UNCHANGED << next, listVars, status, completions, countVars, queueVars, doKickOnNoBuffer,
                  irqVars, SendState, pauseCb, ResetEvent, resetPc, resets, aborted, sent,
                  callVars >>

ProcessStep(t) == ProcessTx(t) \/ Release(t) \/ SubmitHead(t) \/ Collect(t) \/ Complete(t) \/ Restart(t)

Next ==
  \/ SendPackets \/ (\E p \in Packets : CancelSendPackets(p))
  \/ (\E t \in Threads : ProcessStep(t))
  \/ Isr \/ HandleDPC \/ OnDPCPostProcessTimer \/ CheckRunningDpc
  \/ (\E p \in Packets : DeviceUses(p))
  \/ StopSend \/ Stopped \/ SurpriseRemoved

Spec == Init /\ [][Next]_vars

(* Threads run, the device uses what it has, interrupts and DPCs are       *)
(* delivered, timers expire and NDIS checks for a hang every two seconds.  *)
Fairness ==
  /\ \A t \in Threads : WF_vars(ProcessStep(t))
  /\ \A p \in Packets : WF_vars(DeviceUses(p))
  /\ WF_vars(Isr) /\ WF_vars(HandleDPC) /\ WF_vars(OnDPCPostProcessTimer)
  /\ WF_vars(CheckRunningDpc) /\ WF_vars(Stopped)
-----------------------------------------------------------------------------
Out == {p \in Packets : p < next /\ completions[p] = 0}

(* A packet that was taken over is completed once, and until then it is in *)
(* one of the queues or on one thread's list to complete                   *)
(* (ParaNdis5-Impl.c:950-1073, 1264-1402).                                 *)
CompletedOnceEach ==
  \A p \in Packets :
    LET places == (IF Contains(SendQueue, p) THEN 1 ELSE 0)
                  + (IF Contains(TxWaitingList, p) THEN 1 ELSE 0)
                  + Cardinality({t \in Threads : p \in done[t]}) IN
    places + completions[p] = IF p < next THEN 1 ELSE 0

(* When sending has stopped no packet is queued or waiting and no buffer   *)
(* is with the device, so the queue may be taken down                      *)
(* (ParaNdis5-Impl.c:1051, 1361-1375, ParaNdis-Common.c:2841).             *)
StoppedIsQuiet ==
  SendState = "disabled" => SendQueue = << >> /\ TxWaitingList = << >>
                            /\ unkicked = {} /\ inQueue = {} /\ used = << >>

(* Descriptors and buffers are given back to the last, through every error *)
(* and however far the count of buffers has wrapped                        *)
(* (ParaNdis-Common.c:1572-1579, 1666-1790).                               *)
NothingLeaks ==
  LET busy == {p \in Packets : nofUsedBuffers[p] > 0} IN
  /\ freeTx + Cardinality(busy) = MaxTx
  /\ (freeHw + SumUsed(busy)) % UintMod = MaxHw

(* A packet NDIS gets back is not with the device any more, and with       *)
(* success the device had it (ParaNdis5-Impl.c:1013-1021, 1264-1320).      *)
(* Nothing is claimed of the packets still queued when sending stops while *)
(* others wait: those are not sent and reported with success all the same  *)
(* (ParaNdis5-Impl.c:1374-1382), where the branch with none waiting        *)
(* answers REQUEST_ABORTED (1389).                                         *)
SuccessIsSent ==
  \A p \in Packets : completions[p] > 0 =>
    /\ p \notin unkicked \cup inQueue \cup ToSet(used)
    /\ status[p] = "SUCCESS" => p \in sent \cup aborted

(* A packet that is right for the adapter fails only because the ring is   *)
(* full when the count of free buffers, from which indirect packets take   *)
(* more than they were checked for, has gone below zero                    *)
(* (ParaNdis-Common.c:1643-1666, 1762-1775).                               *)
NeverRingFull ==
  [][\A p \in Packets : status[p] = "SUCCESS" /\ status'[p] = "FAILURE" =>
        \/ Kind[p].lso /\ ~UseSG
        \/ freeHw > MaxHw]_vars

(* Every packet is completed (ParaNdis-Common.c:2230-2330), unless the     *)
(* device was removed while it had some.                                   *)
AllCompleted == \A p \in Packets : p \in Out ~> p \notin Out \/ removed

(* A reset or a halt ends (ParaNdis5-Driver.c:191-208, 304-312): not after *)
(* a surprise removal, when packets the device had are waited for forever. *)
StopEnds == resetPc = "wait" ~> resetPc # "wait" \/ removed

(* Every packet is answered once, an adapter that has stopped sending has  *)
(* none of them, and buffers of the ring and of the pool are all accounted *)
(* for (ParaNdis5-Impl.c:942-1402, ParaNdis-Common.c:1562-1845); what is   *)
(* reported sent was sent, but for the packets queued at a stop, which the *)
(* code reports so wrongly.                                                *)
PacketsSound == CompletedOnceEach /\ StoppedIsQuiet /\ NothingLeaks /\ SuccessIsSent
=============================================================================
