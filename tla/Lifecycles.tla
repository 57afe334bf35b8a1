------------------------------ MODULE Lifecycles ------------------------------
(***************************************************************************)
(* What must come to an end though calls, resets, functions and disks come *)
(* and go: the disks and their users (DskLifecycle), and the netkvm        *)
(* adapter's sending (NetkvmSend) and receiving (NetkvmReceive) around     *)
(* resets, power changes and halts, and its binding to a virtual function  *)
(* (NetkvmProtocol).  They share no state: a behaviour is one of one part, *)
(* chosen at the start, while the others stay where they begin.            *)
(***************************************************************************)
EXTENDS DskLifecycle

CONSTANTS
  Packets, Kind, SendBatches, MaxTx, UintMod, UseSG, UseIndirect, Checker,
  MaxResets, Removes,                                           \* NetkvmSend
  Buffers, Limit, Batch, MaxFrames, MaxStops, MaxOthers, MaxChecks,     \* NetkvmReceive
  MaxBinds, MaxStatus, MaxPower, MaxOut, MayFail                \* NetkvmProtocol

VARIABLES
  part,
  (* NetkvmSend *)
  t_next, t_SendQueue, t_TxWaitingList, t_ready, t_noIndirect, t_status,
  t_completions, t_freeTx, t_freeHw, t_nofUsedBuffers, t_unkicked, t_inQueue,
  t_used, t_cb, t_bufs, t_doKickOnNoBuffer, t_InterruptStatus, t_irq,
  t_dpcQueued, t_timerSet, t_dpcInactive, t_SendState, t_pauseCb, t_ResetEvent,
  t_resetPc, t_resets, t_lock, t_pc, t_nSent, t_done, t_callback, t_removed,
  t_aborted, t_sent,
  (* NetkvmReceive *)
  r_ring, r_posted, r_told, r_used, r_frame, r_cb, r_irq, r_waiting, r_atNdis,
  r_indicated, r_reused, r_InterruptStatus, r_dpcQueued, r_timerSet,
  r_dpcInactive, r_others, r_checks, r_bEnableInterruptHandlingDPC,
  r_counterDPCInside, r_dpcReceiveActive, r_ReceiveState, r_pauseProc,
  r_ResetEvent, r_connected, r_powerPc, r_why, r_stops, r_d0, r_lock, r_pc,
  r_batch, r_nIndicated, r_restart,
  (* NetkvmProtocol *)
  p_entry, p_mutex, p_binding, p_bindings, p_refs, p_open, p_compatible,
  p_m_Operational, p_m_Started, p_m_BoundAdapter, p_flow, p_out, p_m_Value,
  p_work, p_todo, p_using, p_changes, p_powers, p_orphaned, p_unheard, p_leaked, p_lost

dskVars == vars
sendVars ==
  << t_next, t_SendQueue, t_TxWaitingList, t_ready, t_noIndirect, t_status,
     t_completions, t_freeTx, t_freeHw, t_nofUsedBuffers, t_unkicked, t_inQueue,
     t_used, t_cb, t_bufs, t_doKickOnNoBuffer, t_InterruptStatus, t_irq,
     t_dpcQueued, t_timerSet, t_dpcInactive, t_SendState, t_pauseCb, t_ResetEvent,
     t_resetPc, t_resets, t_lock, t_pc, t_nSent, t_done, t_callback, t_removed,
     t_aborted, t_sent >>
receiveVars ==
  << r_ring, r_posted, r_told, r_used, r_frame, r_cb, r_irq, r_waiting, r_atNdis,
     r_indicated, r_reused, r_InterruptStatus, r_dpcQueued, r_timerSet,
     r_dpcInactive, r_others, r_checks, r_bEnableInterruptHandlingDPC,
     r_counterDPCInside, r_dpcReceiveActive, r_ReceiveState, r_pauseProc,
     r_ResetEvent, r_connected, r_powerPc, r_why, r_stops, r_d0, r_lock, r_pc,
     r_batch, r_nIndicated, r_restart >>
protocolVars ==
  << p_entry, p_mutex, p_binding, p_bindings, p_refs, p_open, p_compatible,
     p_m_Operational, p_m_Started, p_m_BoundAdapter, p_flow, p_out, p_m_Value,
     p_work, p_todo, p_using, p_changes, p_powers, p_orphaned, p_unheard, p_leaked, p_lost >>
partsVars == << part, dskVars, sendVars, receiveVars, protocolVars >>

Send == INSTANCE NetkvmSend WITH
  Batches <- SendBatches,
  next <- t_next, SendQueue <- t_SendQueue, TxWaitingList <- t_TxWaitingList, ready
  <- t_ready, noIndirect <- t_noIndirect, status <- t_status, completions <-
  t_completions, freeTx <- t_freeTx, freeHw <- t_freeHw, nofUsedBuffers <-
  t_nofUsedBuffers, unkicked <- t_unkicked, inQueue <- t_inQueue, used <- t_used, cb
  <- t_cb, bufs <- t_bufs, doKickOnNoBuffer <- t_doKickOnNoBuffer, InterruptStatus
  <- t_InterruptStatus, irq <- t_irq, dpcQueued <- t_dpcQueued, timerSet <-
  t_timerSet, dpcInactive <- t_dpcInactive, SendState <- t_SendState, pauseCb <-
  t_pauseCb, ResetEvent <- t_ResetEvent, resetPc <- t_resetPc, resets <- t_resets,
  lock <- t_lock, pc <- t_pc, nSent <- t_nSent, done <- t_done, callback <-
  t_callback, removed <- t_removed, aborted <- t_aborted, sent <- t_sent

Receive == INSTANCE NetkvmReceive_proofs WITH
  ring <- r_ring, posted <- r_posted, told <- r_told, used <- r_used, frame <-
  r_frame, cb <- r_cb, irq <- r_irq, waiting <- r_waiting, atNdis <- r_atNdis,
  indicated <- r_indicated, reused <- r_reused, InterruptStatus <-
  r_InterruptStatus, dpcQueued <- r_dpcQueued, timerSet <- r_timerSet, dpcInactive
  <- r_dpcInactive, others <- r_others, checks <- r_checks,
  bEnableInterruptHandlingDPC <- r_bEnableInterruptHandlingDPC, counterDPCInside <-
  r_counterDPCInside, dpcReceiveActive <- r_dpcReceiveActive, ReceiveState <-
  r_ReceiveState, pauseProc <- r_pauseProc, ResetEvent <- r_ResetEvent, connected <-
  r_connected, powerPc <- r_powerPc, why <- r_why, stops <- r_stops, d0 <- r_d0,
  lock <- r_lock, pc <- r_pc, batch <- r_batch, nIndicated <- r_nIndicated, restart
  <- r_restart

Protocol == INSTANCE NetkvmProtocol_proofs WITH
  entry <- p_entry, mutex <- p_mutex, binding <- p_binding, bindings <- p_bindings,
  refs <- p_refs, open <- p_open, compatible <- p_compatible, m_Operational <-
  p_m_Operational, m_Started <- p_m_Started, m_BoundAdapter <- p_m_BoundAdapter,
  flow <- p_flow, out <- p_out, m_Value <- p_m_Value, work <- p_work, todo <-
  p_todo, using <- p_using, changes <- p_changes, powers <- p_powers, orphaned <- p_orphaned, unheard <-
  p_unheard, leaked <- p_leaked, lost <- p_lost

PartsInit ==
  /\ part \in {"dsk", "send", "receive", "protocol"}
  /\ Init /\ Send!Init /\ Receive!Init /\ Protocol!Init

PartsNext ==
  /\ UNCHANGED part
  /\ \/ part = "dsk" /\ Next /\ UNCHANGED << sendVars, receiveVars, protocolVars >>
     \/ part = "send" /\ Send!Next /\ UNCHANGED << dskVars, receiveVars, protocolVars >>
     \/ part = "receive" /\ Receive!Next /\ UNCHANGED << dskVars, sendVars, protocolVars >>
     \/ part = "protocol" /\ Protocol!Next
        /\ UNCHANGED << sendVars, receiveVars, dskVars >>

(* The fairness of all: where a part begins nothing of it has to happen.   *)
PartsSpec ==
  /\ PartsInit /\ [][PartsNext]_partsVars
  /\ Fairness /\ Send!Fairness /\ Receive!Fairness /\ Protocol!Fairness
-----------------------------------------------------------------------------
(* NetkvmSend: no right packet fails for want of room in the ring          *)
(* (ParaNdis-Common.c:1643-1666).                                          *)
NeverRingFull == Send!NeverRingFull

(* NetkvmReceive: every buffer is in one place, none in a deleted queue,   *)
(* NDIS has none when receiving has stopped, and gets frames in order      *)
(* (ParaNdis-Common.c:1486-1536, 2092-2330, 2805-2865).                    *)
BuffersSound == Receive!BuffersSound

(* NetkvmProtocol: the virtual function's binding outlives its users, and  *)
(* is in use when the function is up (ParaNdis_Protocol.cpp:277-437,       *)
(* 701-880, 916-1064, 1257-1279).                                          *)
ProtocolSound == Protocol!ProtocolSound

(* What is begun comes to its end: packets are completed, and resets and   *)
(* halts of sending end (ParaNdis-Common.c:2230-2330,                      *)
(* ParaNdis5-Driver.c:191-208, 304-312); frames are taken and keep coming, *)
(* and resets, power changes and halts of receiving end                    *)
(* (ParaNdis-Common.c:1512-1516, 2264-2315, 2805-2865); the virtual        *)
(* function is unbound, the adapter unregistered                           *)
(* (ParaNdis_Protocol.cpp:277-330).                                        *)
AllEnd ==
  /\ Send!AllCompleted /\ Send!StopEnds
  /\ Receive!FramesAreTaken /\ Receive!FramesKeepComing /\ Receive!ChangesEnd
  /\ Protocol!ChangesEnd
=============================================================================
