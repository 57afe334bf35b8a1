------------------------------- MODULE MCSafety -------------------------------
(***************************************************************************)
(* What is checked for safety only, with no fairness assumed: the clocks   *)
(* of the OAL (OalTimer, OalRtc); the virtio library's split (VirtIORing)  *)
(* and packed (VirtIORingPacked) queues; of netkvm, the life of its        *)
(* adapter (NetkvmInit), its flows (NetkvmFlow), the NDIS 6 sends          *)
(* (NetkvmTx), and the NDIS 5 sends and receives in instances other than   *)
(* those of MCLifecycles (NetkvmSend, NetkvmReceive); the LAN9118's        *)
(* adapter (Smsc9118Adapter) and chip access (Lan9118); keyboard and mouse *)
(* (Pl050).  They share no state: a behaviour is one of one part, chosen   *)
(* at the start, while the others stay where they begin.                   *)
(***************************************************************************)
EXTENDS Safety

CONSTANTS b1, b2

VARIABLES
  part,
  (* VirtIORingPacked *)
  p_event, p_indirect, p_desc, p_state_num, p_state_next, p_state_last,
  p_data, p_free_head, p_num_free, p_num_added, p_next_avail_idx,
  p_avail_flag, p_avail_wrap_counter, p_last_used, p_shadow, p_driver,
  p_device, p_mine, p_pc, p_bufs, p_awake, p_adding, p_adds, p_resets,
  p_turned, p_held, p_taken, p_usedAt, p_dev, p_signal, p_since, p_irq,
  (* of the other parts, one at a time *)
  n1, n2, n3, n4, n5, n6, n7, n8, n9, n10, n11, n12, n13, n14, n15, n16, n17,
  n18, n19, n20, n21, n22, n23, n24, n25, n26, n27, n28, n29, n30, n31, n32,
  n33, n34, n35, n36, n37

(* Days at the turns of months, of leap years and of centuries; a day of   *)
(* ten seconds, since the number of seconds in 136 years is out of TLC's   *)
(* reach.                                                                  *)
Rtc == INSTANCE OalRtc WITH
  DaySecs <- 10, Seconds <- {0, 9}, MaxSteps <- 3,
  Starts <- {0, 30, 31, 58, 59, 364, 365, 788, 789, 790, 1095, 1096, 11015, 11016, 11017,
             11322, 11323, 19722, 19723, 19781, 19782, 19783, 20087, 20088, 24836, 24837,
             47480, 47540, 47541, 47542, 47846, 47847, 49709},
  rtc <- n1, mr <- n2, imsc <- n3, ris <- n4, pendingFor <- n5, rang <- n6,
  steps <- n7

packedVars ==
  <<
     p_event, p_indirect, p_desc, p_state_num, p_state_next, p_state_last,
     p_data, p_free_head, p_num_free, p_num_added, p_next_avail_idx,
     p_avail_flag, p_avail_wrap_counter, p_last_used, p_shadow, p_driver,
     p_device, p_mine, p_pc, p_bufs, p_awake, p_adding, p_adds, p_resets,
     p_turned, p_held, p_taken, p_usedAt, p_dev, p_signal, p_since, p_irq >>
(* One buffer of one descriptor, one of two.                               *)
MCNeed == (b1 :> 1) @@ (b2 :> 2)

PackedRing == INSTANCE VirtIORingPacked WITH
  Num <- 2, IdxMod <- 8, Bufs <- {b1, b2}, Need <- MCNeed, MaxAdds <- 3, MaxResets <- 1,
  event <- p_event, indirect <- p_indirect, desc <- p_desc, state_num <-
  p_state_num, state_next <- p_state_next, state_last <- p_state_last, data <-
  p_data, free_head <- p_free_head, num_free <- p_num_free, num_added <-
  p_num_added, next_avail_idx <- p_next_avail_idx, avail_flag <- p_avail_flag,
  avail_wrap_counter <- p_avail_wrap_counter, last_used <- p_last_used, shadow
  <- p_shadow, driver <- p_driver, device <- p_device, mine <- p_mine, pc <-
  p_pc, bufs <- p_bufs, awake <- p_awake, adding <- p_adding, adds <- p_adds,
  resets <- p_resets, turned <- p_turned, held <- p_held, taken <- p_taken,
  usedAt <- p_usedAt, dev <- p_dev, signal <- p_signal, since <- p_since, irq
  <- p_irq

(* The NDIS 5 send path: one large packet and one of many fragments.       *)
Send == INSTANCE NetkvmSend WITH
  Packets <- 1 .. 2, Kind <- << [frags |-> 2, lso |-> TRUE, fits |-> FALSE],
                                [frags |-> 4, lso |-> FALSE, fits |-> TRUE] >>,
  Batches <- {1, 2}, MaxTx <- 2, UintMod <- 32, UseSG <- TRUE, UseIndirect <- TRUE,
  Checker <- TRUE, MaxResets <- 1, Removes <- FALSE,
  next <- n1, SendQueue <- n2, TxWaitingList <- n3, ready <- n4, noIndirect <-
  n5, status <- n6, completions <- n7, freeTx <- n8, freeHw <- n9,
  nofUsedBuffers <- n10, unkicked <- n11, inQueue <- n12, used <- n13, cb <-
  n14, bufs <- n15, doKickOnNoBuffer <- n16, InterruptStatus <- n17, irq <-
  n18, dpcQueued <- n19, timerSet <- n20, dpcInactive <- n21, SendState <-
  n22, pauseCb <- n23, ResetEvent <- n24, resetPc <- n25, resets <- n26, lock
  <- n27, pc <- n28, nSent <- n29, done <- n30, callback <- n31, removed <-
  n32, aborted <- n33, sent <- n34

(* The NDIS 5 receive path, indicated in batches.                          *)
Receive == INSTANCE NetkvmReceive WITH
  Buffers <- {b1, b2}, Limit <- 1, Batch <- TRUE,
  MaxFrames <- 2, MaxStops <- 1, MaxOthers <- 0, MaxChecks <- 2,
  ring <- n1, posted <- n2, told <- n3, used <- n4, frame <- n5, cb <- n6, irq
  <- n7, waiting <- n8, atNdis <- n9, indicated <- n10, reused <- n11,
  InterruptStatus <- n12, dpcQueued <- n13, timerSet <- n14, dpcInactive <-
  n15, others <- n16, checks <- n17, bEnableInterruptHandlingDPC <- n18,
  counterDPCInside <- n19, dpcReceiveActive <- n20, ReceiveState <- n21,
  pauseProc <- n22, ResetEvent <- n23, connected <- n24, powerPc <- n25, why
  <- n26, stops <- n27, d0 <- n28, lock <- n29, pc <- n30, batch <- n31,
  nIndicated <- n32, restart <- n33

(* The flows of netkvm with two threads: restarts and pauses, and the      *)
(* binding.  (Safety's own instance has one, and all that NDIS may ask.)   *)
TwoUsers(Flows, Ops) == INSTANCE NetkvmFlow WITH
  Users <- {"u1", "u2"},
  m_State <- n1, count <- n2, masked <- n3, m_NoOutstandingItems <- n4,
  m_Value <- n5, mp <- n6, bEnableInterruptHandlingDPC <- n7, needsReset <-
  n8, bDeviceNeedsReset <- n9, ndis <- n10, todo <- n11, held <- n12, late <-
  n13, refused <- n14

FlowOf == [race    |-> [flows |-> {"data"}, ops |-> {"restart", "pause"}],
           binding |-> [flows |-> {"binding"}, ops |-> {}]]
Flows  == DOMAIN FlowOf

(* The NDIS 6 transmit path: two lists that send and fail, and two that    *)
(* are cancelled, or lose their device.                                    *)
Tx(Size, Slots, MayFail, Events) == INSTANCE NetkvmTx WITH
  NBLs <- {"a", "b"}, Num <- Slots,
  place <- n1, left <- n2, detached <- n3, buffersDone <- n4, failed <- n5,
  ring <- n6, used <- n7, m_SendQueue <- n8, m_DoKickOnNoBuffer <- n9,
  m_Killed <- n10, event <- n11, irq <- n12, dpcQueued <- n13, awake <- n14,
  m_DpcWaiting <- n15, m_Lock <- n16, kick <- n17, round <- n18, todo <- n19,
  nbToFree <- n20, completed <- n21, bSurprizeRemoved <- n22, events <- n23,
  raced <- n24

TxOf == [tx        |-> [size |-> [a |-> 2, b |-> 1], num |-> 2, fails |-> TRUE, events |-> {}],
         pulled    |-> [size |-> [a |-> 1, b |-> 1], num |-> 1, fails |-> FALSE, events |-> {"remove"}],
         cancelled |-> [size |-> [a |-> 1, b |-> 1], num |-> 1, fails |-> FALSE, events |-> {"cancel"}]]
Txs  == DOMAIN TxOf

(* The Ethernet adapter: two patterns for two filters.                     *)
Adapter == INSTANCE Smsc9118Adapter WITH
  Patterns <- {"a", "b"}, Full <- {"a"}, Slots <- {0, 1}, MaxOids <- 3,
  stage <- n1, have <- n2, failedAt <- n3, fRxDMAMode <- n4, fTxDMAMode <- n5,
  AdapterQueue <- n6, irqEn <- n7, armed <- n8, mode <- n9, phyDown <- n10,
  edDown <- n11, wucsr <- n12, filters <- n13, wups <- n14, CurrentPowerState
  <- n15, dwWakeUpSource <- n16, Wuff <- n17, told <- n18, added <- n19, stuck
  <- n20, oids <- n21

(* The access to its chip.                                                 *)
Lan == INSTANCE Lan9118 WITH
  Threads <- {"ndis", "isr"}, Values <- {1, 2}, MaxOps <- 2,
  stage <- n1, chip <- n2, bPhyAddress <- n3, smi <- n4, request <- n5,
  partner <- n6, dwLinkMode <- n7, duplex <- n8, pause <- n9, busy <- n10, cmd
  <- n11, data <- n12, mac <- n13, phy <- n14, csAccessMacReg <- n15,
  csAccessPhyReg <- n16, todo <- n17, want <- n18, got <- n19, ops <- n20,
  missed <- n21, abandoned <- n22, raced <- n23, wrong <- n24, last <- n25

(* Keyboard and mouse: keys; mice that may answer late; the loss of power; *)
(* and the keyboard's lights.                                              *)
Port(Mice, Keys, MaxKeys, MaxReports, MaxSlow, MaxLights, MaxPowerUps) == INSTANCE Pl050 WITH
  mouse <- n1, mode <- n2, rates <- n3, enabled <- n4, down <- n5, out <- n6,
  reg <- n7, avail <- n8, int <- n9, event <- n10, m_int <- n11, m_fMouseFound
  <- n12, m_fIntelliMouseFound <- n13, m_fIntelli5ButtonMouseFound <- n14,
  csWrite <- n15, csHardware <- n16, todo <- n17, ok <- n18, ui8MouseId <-
  n19, ready <- n20, scInProgress <- n21, scPrevious <- n22, fKeyUp <- n23,
  due <- n24, m_cReportFormatLength <- n25, buf <- n26, reports <- n27,
  m_ui8ButtonState <- n28, m_uiXButtonState <- n29, pressed <- n30, disturbed
  <- n31, wrong <- n32, typed <- n33, moved <- n34, slow <- n35, lights <-
  n36, powerUps <- n37

FourKeys == {"plain", "extended", "pause", "korean"}
PortOf == [keys   |-> [mice |-> {"none"}, keys |-> FourKeys, typed |-> 3, moved |-> 0, slow |-> 0,
                       lights |-> 0, powerUps |-> 0],
           mice   |-> [mice |-> {"none", "plain", "wheel", "five"}, keys |-> {}, typed |-> 0,
                       moved |-> 2, slow |-> 1, lights |-> 0, powerUps |-> 0],
           power  |-> [mice |-> {"five"}, keys |-> {}, typed |-> 0, moved |-> 1, slow |-> 0,
                       lights |-> 0, powerUps |-> 1],
           lights |-> [mice |-> {"plain"}, keys |-> {"pause"}, typed |-> 1, moved |-> 1, slow |-> 0,
                       lights |-> 1, powerUps |-> 0]]
Ports  == DOMAIN PortOf

(* The life of netkvm's adapter: what features it agrees on with any       *)
(* device; and one with all of them, for any number of messages.           *)
Init6(Envs, Far) == INSTANCE NetkvmInit WITH
  Vlans <- 0 .. 2, MaxTurns <- 2, MaxSets <- 3,
  stage <- n1, have <- n2, env <- n3, acked <- n4, bSuppressLinkUp <- n5,
  fCurrentLinkState <- n6, told <- n7, link <- n8, bConnected <- n9,
  bDeviceInitialized <- n10, ok <- n11, nPathBundles <- n12, vector <- n13,
  bSharedVectors <- n14, bCXPathCreated <- n15, control <- n16, pairs <- n17,
  mac <- n18, ulCurrentVlansFilterSet <- n19, vlans <- n20, VlanId <- n21,
  bEnableInterruptHandlingDPC <- n22, dpc <- n23, pending <- n24, missed <-
  n25, turns <- n26, sets <- n27

Base6  == {"CTRL_VQ", "STATUS", "VERSION_1", "GUEST_CSUM", "CTRL_GUEST_OFFLOADS", "STANDBY"}
Other6 == {"MQ", "RSS", "CTRL_RX", "CTRL_VLAN", "CTRL_MAC_ADDR", "GUEST_ANNOUNCE", "GUEST_TSO4", "GUEST_TSO6",
           "RSC_EXT", "HOST_USO", "RING_PACKED", "MAC"}
InitOf == [features |-> [envs |-> {[offered |-> S \cup Other6, msgs |-> 3, hwq |-> 1, cpus |-> 1] : S \in SUBSET Base6},
                         far |-> FALSE],
           life     |-> [envs |-> {[offered |-> S \cup Other6, msgs |-> m, hwq |-> 2, cpus |-> 2] :
                                     S \in {{}, Base6 \ {"STANDBY"}}, m \in {0, 1, 2, 3, 5}}, far |-> TRUE]]
Inits  == DOMAIN InitOf

(* What is left of the shared variables after the first so many, and its  *)
(* value when there is nothing to do with it.                              *)
after34 == << n35, n36, n37 >>
none34 == n35 = 0 /\ n36 = 0 /\ n37 = 0
after33 == << n34, after34 >>
none33 == n34 = 0 /\ none34
after27 == << n28, n29, n30, n31, n32, n33, after33 >>
none27 == n28 = 0 /\ n29 = 0 /\ n30 = 0 /\ n31 = 0 /\ n32 = 0 /\ n33 = 0 /\ none33
after25 == << n26, n27, after27 >>
none25 == n26 = 0 /\ n27 = 0 /\ none27
after24 == << n25, after25 >>
none24 == n25 = 0 /\ none25
after21 == << n22, n23, n24, after24 >>
none21 == n22 = 0 /\ n23 = 0 /\ n24 = 0 /\ none24
after14 == << n15, n16, n17, n18, n19, n20, n21, after21 >>
none14 == n15 = 0 /\ n16 = 0 /\ n17 = 0 /\ n18 = 0 /\ n19 = 0 /\ n20 = 0 /\ n21 = 0 /\
  none21
after7 == << n8, n9, n10, n11, n12, n13, n14, after14 >>
none7 == n8 = 0 /\ n9 = 0 /\ n10 = 0 /\ n11 = 0 /\ n12 = 0 /\ n13 = 0 /\ n14 = 0 /\ none14
sharedVars == << n1, n2, n3, n4, n5, n6, n7, after7 >>
none == n1 = 0 /\ n2 = 0 /\ n3 = 0 /\ n4 = 0 /\ n5 = 0 /\ n6 = 0 /\ n7 = 0 /\ none7

SharedInit ==
  \/ part = "rtc" /\ Rtc!Init /\ none7
  \/ part = "send" /\ Send!Init /\ none34
  \/ part = "receive" /\ Receive!Init /\ none33
  \/ \E f \in Flows : part = f /\ none14
         /\ TwoUsers(FlowOf[f].flows, FlowOf[f].ops)!Init
  \/ \E t \in Txs : part = t /\ none24
         /\ Tx(TxOf[t].size, TxOf[t].num, TxOf[t].fails, TxOf[t].events)!Init
  \/ part = "adapter" /\ Adapter!Init /\ none21
  \/ part = "lan" /\ Lan!Init /\ none25
  \/ \E p \in Ports : part = p
         /\ Port(PortOf[p].mice, PortOf[p].keys, PortOf[p].typed, PortOf[p].moved,
                 PortOf[p].slow, PortOf[p].lights, PortOf[p].powerUps)!Init
  \/ \E i \in Inits : part = i /\ none27
         /\ Init6(InitOf[i].envs, InitOf[i].far)!Init
  \/ part \in {"timer", "split", "packed", "flows"} /\ none

SharedNext ==
  \/ part = "rtc" /\ Rtc!Next /\ UNCHANGED after7
  \/ part = "send" /\ Send!Next /\ UNCHANGED after34
  \/ part = "receive" /\ Receive!Next /\ UNCHANGED after33
  \/ \E f \in Flows : part = f /\ UNCHANGED after14
         /\ TwoUsers(FlowOf[f].flows, FlowOf[f].ops)!Next
  \/ \E t \in Txs : part = t /\ UNCHANGED after24
         /\ Tx(TxOf[t].size, TxOf[t].num, TxOf[t].fails, TxOf[t].events)!Next
  \/ part = "adapter" /\ Adapter!Next /\ UNCHANGED after21
  \/ part = "lan" /\ Lan!Next /\ UNCHANGED after25
  \/ \E p \in Ports : part = p
         /\ Port(PortOf[p].mice, PortOf[p].keys, PortOf[p].typed, PortOf[p].moved,
                 PortOf[p].slow, PortOf[p].lights, PortOf[p].powerUps)!Next
  \/ \E i \in Inits : part = i /\ UNCHANGED after27
         /\ Init6(InitOf[i].envs, InitOf[i].far)!Next

(* Kicks and interrupts are suppressed by event indices, with the          *)
(* descriptors in the ring or, if it is the split one, with indirect ones; *)
(* or by flags with indirect ones.                                         *)
MCInit ==
  /\ SharedInit /\ Timer!Init /\ Init /\ PackedRing!Init /\ Flow!Init
  /\ event \/ indirect
  /\ p_indirect = ~p_event
  /\ part # "split" => event /\ ~indirect
  /\ part # "packed" => p_event

(* Only the part that runs changes its variables.                          *)
MCNext ==
  /\ UNCHANGED part
  /\ \/ part = "timer" /\ Timer!Next /\ UNCHANGED << vars, netkvmVars, packedVars, sharedVars >>
     \/ part = "split" /\ Next /\ UNCHANGED << clockVars, netkvmVars, packedVars, sharedVars >>
     \/ part = "flows" /\ Flow!Next /\ UNCHANGED << clockVars, vars, packedVars, sharedVars >>
     \/ part = "packed" /\ PackedRing!Next
          /\ UNCHANGED << clockVars, vars, netkvmVars, sharedVars >>
     \/ SharedNext /\ UNCHANGED << clockVars, vars, netkvmVars, packedVars >>

MCSpec ==
  MCInit /\ [][MCNext]_<< part, clockVars, vars, netkvmVars, packedVars, sharedVars >>
-----------------------------------------------------------------------------
(* OalRtc: what the clock shows and is set to, but for the leap day that   *)
(* settings forget, and whose alarm is due (timer.c:24-184).               *)
DatesRight == part = "rtc" => Rtc!DatesRight

(* VirtIORingPacked: the descriptors are free or of one buffer, and no     *)
(* kick and no interrupt is lost (VirtIORing-packed.c:176-632).            *)
PackedSound == part = "packed" => PackedRing!RingSound

(* And the packed ring is a queue as VirtqueueService has it               *)
(* (VirtIORing-packed.c:176-632).                                          *)
PackedServes == PackedRing!ServiceSpec

(* NetkvmSend: packets are completed once, a stopped adapter has none,     *)
(* buffers are given back, and success means sent but for the packets      *)
(* queued at a stop, which get it unsent                                   *)
(* (ParaNdis5-Impl.c:942-1402, ParaNdis-Common.c:1562-1845).               *)
(* NetkvmReceive, indicating batches: every buffer is in one place, none   *)
(* in a deleted queue, NDIS has none after a stop, and gets frames in      *)
(* order (ParaNdis-Common.c:1486-1536, 2092-2330, 2805-2865).              *)
(* NetkvmFlow, with two threads: a stopped flow has nothing outstanding,   *)
(* its counter is exact (ParaNdis-SM.h:26-139, 178-198).                   *)
PacketsSound ==
  /\ part = "send" => Send!PacketsSound
  /\ part = "receive" => Receive!BuffersSound
  /\ \A f \in Flows : part = f => TwoUsers(FlowOf[f].flows, FlowOf[f].ops)!FlowSound

(* NetkvmTx: a list is completed once, when none of its buffers is out,    *)
(* and none is left behind (ParaNdis_TX.cpp:370-770).                      *)
TxSound ==
  \A t \in Txs :
    part = t => Tx(TxOf[t].size, TxOf[t].num, TxOf[t].fails, TxOf[t].events)!TxSound

(* Smsc9118Adapter, Lan9118: the Ethernet adapter's handlers find it, it   *)
(* sleeps and wakes as asked; its link is the best one, and its registers  *)
(* are written as meant, but after an access that was given up met a       *)
(* thread past its test (smsc9118.c:186-968, 4054-5174,                    *)
(* lan9118.c:118-1236).                                                    *)
(* NetkvmInit: netkvm's agrees on features that go together, its messages  *)
(* are served, NDIS knows the link, nothing is left behind                 *)
(* (ParaNdis6_Driver.cpp:160-385, ParaNdis_Common.cpp:824-2109).           *)
AdaptersSound ==
  /\ part = "adapter" => Adapter!AdapterSound
  /\ part = "lan" => Lan!Lan9118Sound
  /\ \A i \in Inits : part = i => Init6(InitOf[i].envs, InitOf[i].far)!NetkvmInitSound

(* Pl050: interrupts are on when nobody writes, keys and mouse reports are *)
(* those made, buttons are told (ps2port.cpp, ps2keybd.cpp, ps2mouse.cpp). *)
PortsSound ==
  \A p \in Ports :
    part = p => Port(PortOf[p].mice, PortOf[p].keys, PortOf[p].typed, PortOf[p].moved,
                     PortOf[p].slow, PortOf[p].lights, PortOf[p].powerUps)!Pl050Sound
===============================================================================
