-------------------------------- MODULE Queues --------------------------------
(***************************************************************************)
(* The paths along which data queue between a device and its driver: the   *)
(* tablet's events (VirtioTablet) and the frames of the LAN9118            *)
(* (Smsc9118Data).  They share no state: a behaviour is one of one part,   *)
(* chosen at the start, while the other stays where it begins.             *)
(***************************************************************************)
EXTENDS VirtioTablet

CONSTANTS
  MaxRx, FifoSize, Level, Many, Batches, Loads                  \* Smsc9118Data

VARIABLES
  part,
  (* Smsc9118Data *)
  n_load, n_rxFifo, n_arrived, n_EmptyPkt, n_FullPkt, n_frame, n_status,
  n_batch, n_held, n_seen, n_yielded, n_TxDeferedPkt, n_args, n_sends, n_calls,
  n_txFifo, n_wire, n_answers, n_TDFALevel, n_level, n_isr, n_tdfa,
  n_RxDPCNeeded, n_TxDPCNeeded, n_dpc, n_pc, n_RxStatus, n_TxStatus

tabVars == vars
nicVars ==
  << n_load, n_rxFifo, n_arrived, n_EmptyPkt, n_FullPkt, n_frame, n_status, n_batch,
     n_held, n_seen, n_yielded, n_TxDeferedPkt, n_args, n_sends, n_calls, n_txFifo,
     n_wire, n_answers, n_TDFALevel, n_level, n_isr, n_tdfa, n_RxDPCNeeded,
     n_TxDPCNeeded, n_dpc, n_pc, n_RxStatus, n_TxStatus >>

Nic == INSTANCE Smsc9118Data_proofs WITH
  load <- n_load, rxFifo <- n_rxFifo, arrived <- n_arrived, EmptyPkt <- n_EmptyPkt,
  FullPkt <- n_FullPkt, frame <- n_frame, status <- n_status, batch <- n_batch, held
  <- n_held, seen <- n_seen, yielded <- n_yielded, TxDeferedPkt <- n_TxDeferedPkt,
  args <- n_args, sends <- n_sends, calls <- n_calls, txFifo <- n_txFifo, wire <-
  n_wire, answers <- n_answers, TDFALevel <- n_TDFALevel, level <- n_level, isr <-
  n_isr, tdfa <- n_tdfa, RxDPCNeeded <- n_RxDPCNeeded, TxDPCNeeded <- n_TxDPCNeeded,
  dpc <- n_dpc, pc <- n_pc, RxStatus <- n_RxStatus, TxStatus <- n_TxStatus

PartsInit ==
  /\ part \in {"tab", "nic"}
  /\ Init /\ Nic!Init
  /\ part # "tab" => ~vq_feat
  /\ part # "nic" => n_load = CHOOSE l \in Loads : TRUE

PartsNext ==
  /\ UNCHANGED part
  /\ \/ part = "tab" /\ Next /\ UNCHANGED nicVars
     \/ part = "nic" /\ Nic!Next /\ UNCHANGED tabVars

(* The fairness of both.  The tablet's thread has a step to make from the  *)
(* start, so that is asked for only where it runs; nothing else has to     *)
(* happen where either begins.                                             *)
PartsSpec ==
  /\ PartsInit /\ [][PartsNext]_<< part, tabVars, nicVars >>
  /\ WF_tabVars(part = "tab" /\ Step) /\ WF_tabVars(Interrupt)
  /\ WF_tabVars(DevStart) /\ WF_tabVars(DevReport) /\ WF_tabVars(DevStarve) /\ WF_tabVars(DevSleep)
  /\ WF_tabVars(DevSignal)
  /\ Nic!Fairness
-----------------------------------------------------------------------------
(* Smsc9118Data: no packet is lost or doubled in the queues, frames are    *)
(* handed up and packets sent in order, each answered once                 *)
(* (smsc9118.c:2597-3836).                                                 *)
DataSound == Nic!DataSound

(* What the tablet's device causes is handled (virtio.c:221-288), what the *)
(* Ethernet driver put off is sent (smsc9118.c:3749-3836), and what it has *)
(* read is handed up (smsc9118.c:2669-2760).                               *)
AllHandled == CausedIsHandled /\ Nic!DeferedAreSent /\ Nic!FullIsHandedUp
=============================================================================
