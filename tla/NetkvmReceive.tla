----------------------------- MODULE NetkvmReceive -----------------------------
(***************************************************************************)
(* The receive path of netkvm for NDIS 5, with what interrupts it: a       *)
(* reset, a change of power and a halt.  Buffers go round between the RX   *)
(* virtqueue and NDIS, which returns each packet when it likes.  The same  *)
(* routine is run by the DPC, by the timer after a DPC that did not finish *)
(* and by the check for a hanging DPC: dpcReceiveActive keeps all but one  *)
(* of them away, and counterDPCInside all of them from a queue that is     *)
(* taken down.                                                             *)
(*                                                                         *)
(* The virtqueue is taken for what VirtIORing shows it to be.  The device  *)
(* takes buffers in the order they were added and need not look for new    *)
(* ones before it is kicked.  Adding a buffer does not fail: there are as  *)
(* many as the queue took at the start.                                    *)
(***************************************************************************)
EXTENDS Integers, Sequences, FiniteSets, SequencesExt

CONSTANTS
  Buffers,
  Limit,        \* uNumberOfHandledRXPacketsInDPC
  Batch,        \* bBatchReceive
  MaxFrames, MaxStops,  \* bounds: frames; resets, power cycles and halts;
  MaxOthers, MaxChecks  \* interrupts of other kinds; checks, 0 without nEnableDPCChecker

Threads == {"dpc", "timer", "hang"}

nReusedLimit == Cardinality(Buffers) \div 4 + 1         \* Limits.nReusedRxBuffers

VARIABLES
  ring,         \* whether there is a queue
  posted, told, \* buffers added, in order; how many of them the device knows of
  used, frame,  \* used buffers with the frame in each; the next frame
  cb, irq,
  waiting, atNdis,      \* NetReceiveBuffersWaiting; packets NDIS has
  indicated,            \* history: the frames NDIS was given
  reused,               \* nReusedRxBuffers
  InterruptStatus, dpcQueued, timerSet, dpcInactive, others, checks,
  bEnableInterruptHandlingDPC, counterDPCInside, dpcReceiveActive,
  ReceiveState, pauseProc, ResetEvent, connected, powerPc, why, stops, d0,
  lock,         \* who holds ReceiveLock
  pc, batch, nIndicated, restart        \* of each thread in ParaNdis_DPCWorkBody

ringVars  == << ring, posted, told, used, frame, cb, irq >>
bufVars   == << waiting, atNdis, indicated, reused >>
irqVars   == << InterruptStatus, dpcQueued, timerSet, dpcInactive, others, checks >>
gateVars  == << bEnableInterruptHandlingDPC, counterDPCInside, dpcReceiveActive >>
pauseVars == << ReceiveState, pauseProc, ResetEvent >>
powerVars == << connected, powerPc, why, stops, d0 >>
callVars  == << pc, batch, nIndicated, restart >>
vars == << ringVars, bufVars, irqVars, gateVars, pauseVars, powerVars, lock, callVars >>

Init ==
  /\ ring = FALSE /\ posted = << >> /\ told = 0
  /\ used = << >> /\ frame = 1 /\ cb = FALSE /\ irq = FALSE
  /\ waiting = {} /\ atNdis = {} /\ indicated = << >> /\ reused = 0
  /\ InterruptStatus = FALSE /\ dpcQueued = FALSE /\ timerSet = FALSE /\ dpcInactive = FALSE
  /\ others = 0 /\ checks = 0
  /\ bEnableInterruptHandlingDPC = FALSE /\ counterDPCInside = 0 /\ dpcReceiveActive = 0
  /\ ReceiveState = "enabled" /\ pauseProc = FALSE /\ ResetEvent = FALSE
  /\ connected = FALSE /\ powerPc = "new" /\ why = "none" /\ stops = 0 /\ d0 = FALSE
  /\ lock = "free" /\ pc = [t \in Threads |-> "idle"] /\ batch = [t \in Threads |-> << >>]
  /\ nIndicated = [t \in Threads |-> 0] /\ restart = [t \in Threads |-> FALSE]
-----------------------------------------------------------------------------
(* ParaNdis_FinishInitialization: the queue is made and given all buffers. *)
FinishInitialization ==
  /\ powerPc = "new" /\ powerPc' = "on"
  /\ ring' = TRUE /\ posted' = SetToSeq(Buffers) /\ told' = Cardinality(Buffers) /\ cb' = TRUE
  /\ bEnableInterruptHandlingDPC' = TRUE /\ d0' = TRUE /\ connected' = TRUE
  /\ UNCHANGED << used, frame, irq, bufVars, irqVars, counterDPCInside, dpcReceiveActive,
                  pauseVars, why, stops, lock, callVars >>

(* The device puts a frame into its next buffer.                           *)
DeviceReceives ==
  /\ ring /\ posted # << >> /\ frame <= MaxFrames
  /\ used' = Append(used, [buf |-> Head(posted), frame |-> frame])
  /\ posted' = Tail(posted) /\ frame' = frame + 1
  /\ told' = IF told > 0 THEN told - 1 ELSE 0
  /\ irq' = (irq \/ cb)
  /\ UNCHANGED << ring, cb, bufVars, irqVars, gateVars, pauseVars, powerVars, lock, callVars >>

(* ParaNdis_OnLegacyInterrupt.  The TX queue and the configuration use the *)
(* same interrupt, and every one of them is taken for RX too.              *)
TakeInterrupt ==
  /\ IF d0 THEN cb' = FALSE /\ InterruptStatus' = TRUE /\ dpcQueued' = TRUE
     ELSE UNCHANGED << cb, InterruptStatus, dpcQueued >>
  /\ UNCHANGED << ring, posted, told, used, frame, bufVars, timerSet, dpcInactive, checks, gateVars, pauseVars,
                  powerVars, lock, callVars >>

Isr      == irq /\ irq' = FALSE /\ UNCHANGED others /\ TakeInterrupt
OtherIsr == others < MaxOthers /\ others' = others + 1 /\ UNCHANGED irq /\ TakeInterrupt

(* ReuseReceiveBufferRegular.                                              *)
Reuse(b) ==
  /\ waiting' = waiting \ {b} /\ posted' = Append(posted, b)
  /\ IF reused + 1 >= nReusedLimit
       THEN reused' = 0 /\ told' = Len(posted')
       ELSE reused' = reused + 1 /\ UNCHANGED told
  /\ IF waiting' = {} /\ (ReceiveState = "pausing" \/ pauseProc)
       THEN ReceiveState' = "disabled" /\ pauseProc' = FALSE /\ ResetEvent' = (ResetEvent \/ pauseProc)
       ELSE UNCHANGED pauseVars

(* ParaNdis5_ReturnPacket.                                                 *)
ReturnPacket(b) ==
  /\ b \in atNdis /\ lock = "free" /\ atNdis' = atNdis \ {b} /\ Reuse(b)
  /\ UNCHANGED << ring, used, frame, cb, irq, indicated, irqVars, gateVars, powerVars, lock, callVars >>
-----------------------------------------------------------------------------
(* ParaNdis_DPCWorkBody is called by ParaNdis5_HandleDPC, by               *)
(* OnDPCPostProcessTimer and by CheckRunningDpc, which looks whether any   *)
(* DPC ran since the last time.                                            *)
Call(t) == pc[t] = "idle" /\ pc' = [pc EXCEPT ![t] = "called"]
                          /\ nIndicated' = [nIndicated EXCEPT ![t] = 0]
                          /\ restart' = [restart EXCEPT ![t] = FALSE]

HandleDPC ==
  /\ dpcQueued /\ Call("dpc") /\ dpcQueued' = FALSE /\ timerSet' = FALSE
  /\ UNCHANGED << ringVars, bufVars, InterruptStatus, dpcInactive, others, checks, gateVars, pauseVars, powerVars,
                  lock, batch >>

OnDPCPostProcessTimer ==
  /\ timerSet /\ Call("timer") /\ timerSet' = FALSE
  /\ UNCHANGED << ringVars, bufVars, InterruptStatus, dpcQueued, dpcInactive, others, checks, gateVars, pauseVars,
                  powerVars, lock, batch >>

CheckRunningDpc ==
  /\ checks < MaxChecks /\ checks' = checks + 1 /\ pc["hang"] = "idle" /\ dpcInactive' = TRUE
  /\ IF dpcInactive THEN Call("hang") /\ InterruptStatus' = TRUE
     ELSE UNCHANGED << pc, nIndicated, restart, InterruptStatus >>
  /\ UNCHANGED << ringVars, bufVars, dpcQueued, timerSet, others, gateVars, pauseVars, powerVars, lock, batch >>

(* The two looks at bEnableInterruptHandlingDPC, with counterDPCInside     *)
(* counted up between them.                                                *)
Enter(t) ==
  /\ pc[t] = "called"
  /\ IF bEnableInterruptHandlingDPC THEN pc' = [pc EXCEPT ![t] = "counted"]
                                    ELSE pc' = [pc EXCEPT ![t] = "idle"]
  /\ UNCHANGED << ringVars, bufVars, irqVars, gateVars, pauseVars, powerVars, lock, batch, nIndicated,
                  restart >>

CountIn(t) ==
  /\ pc[t] = "counted" /\ pc' = [pc EXCEPT ![t] = "inside"]
  /\ counterDPCInside' = counterDPCInside + 1
  /\ UNCHANGED << ringVars, bufVars, irqVars, bEnableInterruptHandlingDPC, dpcReceiveActive, pauseVars,
                  powerVars, lock, batch, nIndicated, restart >>

(* Mutant: one look is enough.                                             *)
TakeStatusUnseen(t) ==
  /\ pc[t] = "inside" /\ dpcInactive' = FALSE /\ InterruptStatus' = FALSE
  /\ pc' = [pc EXCEPT ![t] = IF InterruptStatus THEN "again" ELSE "leave"]
  /\ UNCHANGED << ringVars, bufVars, dpcQueued, timerSet, others, checks, gateVars, pauseVars, powerVars, lock, batch,
                  nIndicated, restart >>

TakeStatus(t) ==
  /\ pc[t] = "inside"
  /\ IF bEnableInterruptHandlingDPC
       THEN /\ dpcInactive' = FALSE /\ InterruptStatus' = FALSE
            /\ pc' = [pc EXCEPT ![t] = IF InterruptStatus THEN "again" ELSE "leave"]
       ELSE pc' = [pc EXCEPT ![t] = "leave"] /\ UNCHANGED << dpcInactive, InterruptStatus >>
  /\ UNCHANGED << ringVars, bufVars, dpcQueued, timerSet, others, checks, gateVars, pauseVars, powerVars, lock, batch,
                  nIndicated, restart >>

(* A round of its loop for isReceive.                                      *)
ClaimReceive(t) ==
  /\ pc[t] = "again" /\ dpcReceiveActive' = dpcReceiveActive + 1
  /\ pc' = [pc EXCEPT ![t] = IF dpcReceiveActive = 0 THEN "enter_rx" ELSE "skip"]
  /\ UNCHANGED << ringVars, bufVars, irqVars, bEnableInterruptHandlingDPC, counterDPCInside, pauseVars,
                  powerVars, lock, batch, nIndicated, restart >>

Unclaim(t) ==
  /\ pc[t] \in {"skip", "unclaim"} /\ dpcReceiveActive' = dpcReceiveActive - 1
  /\ pc' = [pc EXCEPT ![t] = IF pc[t] = "unclaim" THEN "restart"
                             ELSE IF restart[t] THEN "leave" ELSE "skip_restart"]
  /\ UNCHANGED << ringVars, bufVars, irqVars, bEnableInterruptHandlingDPC, counterDPCInside, pauseVars,
                  powerVars, lock, batch, nIndicated, restart >>

(* Mutant: interrupts are enabled without a look at what came meanwhile.   *)
RestartUnseen(t) ==
  /\ pc[t] \in {"restart", "skip_restart"} /\ lock = "free"
  /\ cb' = TRUE /\ restart' = [restart EXCEPT ![t] = FALSE]
  /\ pc' = [pc EXCEPT ![t] = "leave"]
  /\ UNCHANGED << ring, posted, told, used, frame, irq, bufVars, irqVars, gateVars, pauseVars, powerVars,
                  lock, batch, nIndicated >>

(* RestartQueueSynchronously.                                              *)
Restart(t) ==
  /\ pc[t] \in {"restart", "skip_restart"} /\ lock = "free"
  /\ cb' = (used = << >>) /\ restart' = [restart EXCEPT ![t] = used # << >>]
  /\ pc' = [pc EXCEPT ![t] = IF pc[t] = "restart" /\ nIndicated[t] # Limit /\ used # << >>
                               THEN "again" ELSE "leave"]
  /\ UNCHANGED << ring, posted, told, used, frame, irq, bufVars, irqVars, gateVars, pauseVars, powerVars,
                  lock, batch, nIndicated >>

(* After it is counted out, what it left is for the timer; the check does  *)
(* not mind.                                                               *)
Leave(t) ==
  /\ pc[t] = "leave" /\ counterDPCInside' = counterDPCInside - 1
  /\ pc' = [pc EXCEPT ![t] = IF restart[t] /\ t # "hang" THEN "set_timer" ELSE "idle"]
  /\ UNCHANGED << ringVars, bufVars, irqVars, bEnableInterruptHandlingDPC, dpcReceiveActive, pauseVars,
                  powerVars, lock, batch, nIndicated, restart >>

SetTimer(t) ==
  /\ pc[t] = "set_timer" /\ pc' = [pc EXCEPT ![t] = "idle"]
  /\ InterruptStatus' = TRUE /\ timerSet' = TRUE
  /\ UNCHANGED << ringVars, bufVars, dpcQueued, dpcInactive, others, checks, gateVars, pauseVars, powerVars, lock, batch,
                  nIndicated, restart >>
-----------------------------------------------------------------------------
(* ParaNdis_ProcessRxPath.                                                 *)
LockReceive(t) ==
  /\ pc[t] \in {"enter_rx", "relock"} /\ lock = "free" /\ lock' = t
  /\ pc' = [pc EXCEPT ![t] = "rx"]
  /\ UNCHANGED << ringVars, bufVars, irqVars, gateVars, pauseVars, powerVars, batch, nIndicated, restart >>

(* A buffer is taken; a frame that does not pass, or that comes while      *)
(* receiving is stopped, is dropped.  Without a batch the lock is let go   *)
(* to indicate it.                                                         *)
TakeBuffer(t) ==
  LET b == Head(used).buf IN
  /\ pc[t] = "rx" /\ used # << >> /\ nIndicated[t] < Limit /\ used' = Tail(used)
  /\ \E pass \in BOOLEAN :
       IF pass /\ ReceiveState = "enabled" /\ connected
         THEN /\ waiting' = waiting \cup {b} /\ batch' = [batch EXCEPT ![t] = Append(@, Head(used))]
              /\ nIndicated' = [nIndicated EXCEPT ![t] = @ + 1]
              /\ IF Batch THEN UNCHANGED << lock, pc >>
                          ELSE lock' = "free" /\ pc' = [pc EXCEPT ![t] = "indicate"]
              /\ UNCHANGED << posted, told, reused, pauseVars >>
         ELSE Reuse(b) /\ UNCHANGED << batch, nIndicated, lock, pc >>
  /\ UNCHANGED << ring, frame, cb, irq, atNdis, indicated, irqVars, gateVars, powerVars, restart >>

EndOfRx(t) ==
  /\ pc[t] = "rx" /\ (used = << >> \/ nIndicated[t] = Limit) /\ lock' = "free"
  /\ pc' = [pc EXCEPT ![t] = IF batch[t] = << >> THEN "unclaim" ELSE "indicate"]
  /\ UNCHANGED << ringVars, bufVars, irqVars, gateVars, pauseVars, powerVars, batch, nIndicated, restart >>

(* NdisMIndicateReceivePacket.                                             *)
Indicate(t) ==
  /\ pc[t] = "indicate" /\ batch' = [batch EXCEPT ![t] = << >>]
  /\ atNdis' = atNdis \cup {batch[t][i].buf : i \in DOMAIN batch[t]}
  /\ indicated' = indicated \o [i \in DOMAIN batch[t] |-> batch[t][i].frame]
  /\ pc' = [pc EXCEPT ![t] = IF Batch THEN "unclaim" ELSE "relock"]
  /\ UNCHANGED << ringVars, waiting, reused, irqVars, gateVars, pauseVars, powerVars, lock, nIndicated,
                  restart >>
-----------------------------------------------------------------------------
(* The work item of a reset, of a change of power and the halt.  Packets   *)
(* that NDIS has are waited for (ParaNdis_Suspend, ParaNdis5_StopReceive). *)
Suspend(reason) ==
  /\ powerPc = "on" /\ stops < MaxStops /\ lock = "free" /\ stops' = stops + 1 /\ why' = reason
  /\ connected' = (reason = "halt")
  /\ IF waiting = {}
       THEN ReceiveState' = "disabled" /\ ResetEvent' = TRUE /\ UNCHANGED pauseProc
       ELSE ReceiveState' = "pausing" /\ ResetEvent' = FALSE /\ pauseProc' = TRUE
  /\ powerPc' = "suspend"
  /\ UNCHANGED << ringVars, bufVars, irqVars, gateVars, d0, lock, callVars >>

Suspended ==
  /\ powerPc = "suspend" /\ ResetEvent /\ ResetEvent' = FALSE
  /\ powerPc' = IF why = "reset" THEN "resume" ELSE "prevent"
  /\ d0' = (why # "power")
  /\ UNCHANGED << ringVars, bufVars, irqVars, gateVars, ReceiveState, pauseProc, connected, why, stops,
                  lock, callVars >>

(* PreventDPCServicing.                                                    *)
Prevent ==
  /\ powerPc = "prevent" /\ powerPc' = "drain" /\ bEnableInterruptHandlingDPC' = FALSE
  /\ UNCHANGED << ringVars, bufVars, irqVars, counterDPCInside, dpcReceiveActive, pauseVars, connected,
                  why, stops, d0, lock, callVars >>

Drained ==
  /\ powerPc = "drain" /\ counterDPCInside = 0 /\ powerPc' = "delete"
  /\ UNCHANGED << ringVars, bufVars, irqVars, gateVars, pauseVars, connected, why, stops, d0, lock,
                  callVars >>

(* Shut down and delete the queues; the buffers stay on NetReceiveBuffers. *)
DeleteQueues ==
  /\ powerPc = "delete" /\ lock = "free"
  /\ ring' = FALSE /\ told' = 0 /\ used' = << >> /\ d0' = FALSE /\ cb' = FALSE
  /\ posted' = posted \o [i \in DOMAIN used |-> used[i].buf]
  /\ powerPc' = IF why = "halt" THEN "halted" ELSE "off"
  /\ UNCHANGED << frame, irq, bufVars, irqVars, gateVars, pauseVars, connected, why, stops, lock,
                  callVars >>

(* ParaNdis_PowerOn, up to ParaNdis_Resume: all buffers are submitted, in  *)
(* the order they have.                                                    *)
PowerOn ==
  /\ powerPc = "off" /\ lock = "free"
  /\ ring' = TRUE /\ told' = Len(posted) /\ cb' = TRUE /\ d0' = TRUE
  /\ bEnableInterruptHandlingDPC' = TRUE /\ powerPc' = "resume"
  /\ UNCHANGED << posted, used, frame, irq, bufVars, irqVars, counterDPCInside, dpcReceiveActive,
                  pauseVars, connected, why, stops, lock, callVars >>

(* ParaNdis_Resume, without the lock, and ParaNdis_ReportLinkStatus.       *)
Resume ==
  /\ powerPc = "resume" /\ powerPc' = "on" /\ ReceiveState' = "enabled" /\ connected' = TRUE
  /\ UNCHANGED << ringVars, bufVars, irqVars, gateVars, pauseProc, ResetEvent, why, stops, d0, lock,
                  callVars >>

WorkStep(t) ==
  \/ Enter(t) \/ CountIn(t) \/ TakeStatus(t) \/ ClaimReceive(t) \/ Unclaim(t) \/ Restart(t) \/ Leave(t)
  \/ SetTimer(t) \/ LockReceive(t) \/ TakeBuffer(t) \/ EndOfRx(t) \/ Indicate(t)
PowerStep == Suspended \/ Prevent \/ Drained \/ DeleteQueues \/ PowerOn \/ Resume

Next ==
  \/ FinishInitialization \/ DeviceReceives \/ Isr \/ OtherIsr \/ (\E b \in Buffers : ReturnPacket(b))
  \/ HandleDPC \/ OnDPCPostProcessTimer \/ CheckRunningDpc
  \/ (\E t \in Threads : WorkStep(t))
  \/ (\E reason \in {"reset", "power", "halt"} : Suspend(reason)) \/ PowerStep

Spec == Init /\ [][Next]_vars

(* Frames come as long as the device knows of a buffer; NDIS returns what  *)
(* it has; interrupts, DPCs and timers are delivered; threads run; what is *)
(* powered off comes on again.                                             *)
Fairness ==
  /\ WF_vars(told > 0 /\ DeviceReceives)
  /\ WF_vars(Isr) /\ WF_vars(HandleDPC) /\ WF_vars(OnDPCPostProcessTimer)
  /\ \A b \in Buffers : WF_vars(ReturnPacket(b))
  /\ \A t \in Threads : WF_vars(WorkStep(t))
  /\ WF_vars(PowerStep)
-----------------------------------------------------------------------------
InRx    == {"again", "enter_rx", "rx", "relock", "indicate", "unclaim", "skip", "skip_restart",
            "restart"}
OfBatch == UNION {{batch[t][i].buf : i \in DOMAIN batch[t]} : t \in Threads}

(* A buffer is in the queue, used, being indicated or with NDIS, and       *)
(* NetReceiveBuffersWaiting is the list of the last two                    *)
(* (ParaNdis-Common.c:2104-2190, 1486-1536).                               *)
BuffersGoRound ==
  /\ IsInjective(posted \o [i \in DOMAIN used |-> used[i].buf])
  /\ powerPc # "new" => Buffers = ToSet(posted) \cup {used[i].buf : i \in DOMAIN used} \cup waiting
  /\ waiting = atNdis \cup OfBatch /\ atNdis \cap OfBatch = {}
  /\ waiting \cap (ToSet(posted) \cup {used[i].buf : i \in DOMAIN used}) = {}

(* Nobody is at work in a queue that is deleted, or has a buffer to return *)
(* to it (ParaNdis-Common.c:1301-1316, 2238-2241, 2831-2862).              *)
NobodyInDeletedQueue ==
  ~ring => waiting = {} /\ \A t \in Threads : pc[t] \notin InRx

(* When receiving has stopped NDIS has none of the driver's packets, and   *)
(* gets none before it goes on (ParaNdis5-Impl.c:1410-1443).               *)
StoppedHasNone == ReceiveState = "disabled" => waiting = {}

(* Frames are indicated in the order they came, whoever indicates them     *)
(* (ParaNdis-Common.c:2266-2271).                                          *)
FramesInOrder == \A i, j \in DOMAIN indicated : i < j => indicated[i] < indicated[j]

(* What was received is taken, if only because the queue goes down         *)
(* (ParaNdis-Common.c:2264-2315).  Interrupts of other kinds must come to  *)
(* an end: two threads that go on meeting in ParaNdis_DPCWorkBody each     *)
(* find the other one counted in dpcReceiveActive, and leave.              *)
FramesAreTaken == used # << >> ~> used = << >>

(* The device does not run out of buffers for want of a kick: the next     *)
(* frame comes (ParaNdis-Common.c:1512-1516, 1216).                        *)
FramesKeepComing == (powerPc = "on" /\ frame <= MaxFrames) ~> (frame > MaxFrames \/ powerPc # "on")

(* A reset, a change of power and a halt end                               *)
(* (ParaNdis5-Driver.c:191-209, ParaNdis-Common.c:2805-2865).              *)
ChangesEnd == powerPc \notin {"new", "on"} ~> powerPc \in {"on", "halted"}

(* Every buffer is in one place, and in none that is deleted; the          *)
(* protocols have none once receiving has stopped, and see the frames in   *)
(* the order of the wire (ParaNdis-Common.c:1486-1536, 2092-2330,          *)
(* 2805-2865).                                                             *)
BuffersSound == BuffersGoRound /\ NobodyInDeletedQueue /\ StoppedHasNone /\ FramesInOrder
=============================================================================
