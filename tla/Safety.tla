-------------------------------- MODULE Safety --------------------------------
(***************************************************************************)
(* The split virtqueue of the virtio library (VirtIORing), the OAL's clock *)
(* (OalTimer) and the flows of netkvm (NetkvmFlow), which have no state in *)
(* common: what holds of each at every moment, whatever the size of the    *)
(* ring, the period of the timer and the number of threads that send and   *)
(* receive.                                                                *)
(***************************************************************************)
EXTENDS VirtIORing

CONSTANTS MSec, Period, TickMod, UsMod, Ahead, Latency, Idle, MaxNow    \* of OalTimer

(* The clock does not reach the wrap of CurMSec, nor a wait that of        *)
(* interval.                                                               *)
ASSUME TimerAssumption ==
  /\ MSec \in Nat \ {0} /\ Period \in Nat \ {0} /\ Latency \in Nat /\ MaxNow \in Nat
  /\ Ahead \in Nat /\ TickMod \in Nat /\ UsMod \in Nat /\ Idle \in BOOLEAN
  /\ MaxNow < TickMod * MSec /\ Ahead * MSec < UsMod /\ 1 < UsMod

VARIABLES
  t_now, t_CurMSec, t_timeUS, t_lastTimer, t_TimerValue, t_irq0, t_deadline, t_irq1, t_pc,
  t_late, t_dwTick, t_interval, t_waiting, t_readAt, t_askedAt

clockVars ==
  << t_now, t_CurMSec, t_timeUS, t_lastTimer, t_TimerValue, t_irq0, t_deadline, t_irq1, t_pc,
     t_late, t_dwTick, t_interval, t_waiting, t_readAt, t_askedAt >>
Timer == INSTANCE OalTimer WITH
  now <- t_now, CurMSec <- t_CurMSec, timeUS <- t_timeUS, lastTimer <- t_lastTimer,
  TimerValue <- t_TimerValue, irq0 <- t_irq0, deadline <- t_deadline, irq1 <- t_irq1,
  pc <- t_pc, late <- t_late, dwTick <- t_dwTick, interval <- t_interval,
  waiting <- t_waiting, readAt <- t_readAt, askedAt <- t_askedAt

CONSTANTS FlowUsers, FlowKinds, FlowOps    \* of NetkvmFlow: Users, Flows, Ops

VARIABLES
  f_State, f_count, f_masked, f_event, f_Value, f_mp, f_dpc, f_needsReset, f_bDeviceNeedsReset,
  f_ndis, f_todo, f_held, f_late, f_refused

netkvmVars ==
  << f_State, f_count, f_masked, f_event, f_Value, f_mp, f_dpc, f_needsReset,
     f_bDeviceNeedsReset, f_ndis, f_todo, f_held, f_late, f_refused >>
Flow == INSTANCE NetkvmFlow WITH
  Users <- FlowUsers, Flows <- FlowKinds, Ops <- FlowOps,
  m_State <- f_State, count <- f_count, masked <- f_masked, m_NoOutstandingItems <- f_event,
  m_Value <- f_Value, mp <- f_mp, bEnableInterruptHandlingDPC <- f_dpc,
  needsReset <- f_needsReset, bDeviceNeedsReset <- f_bDeviceNeedsReset, ndis <- f_ndis,
  todo <- f_todo, held <- f_held, late <- f_late, refused <- f_refused

(* The threads are different ones, and NDIS asks for nothing where there   *)
(* is no data flow.                                                        *)
FlowThreads ==
  /\ IsFiniteSet(FlowUsers) /\ FlowUsers \cap {"ndis", "vf", "cx"} = {}
  /\ FlowKinds \subseteq Flow!AllFlows /\ FlowOps \subseteq Flow!AllOps
  /\ FlowOps # {} => "data" \in FlowKinds
ASSUME FlowAssumption == FlowThreads

(* OalTimer: the clock is exact and no wake-up is lost or late             *)
(* (intr.c:113-164, timer.c:226-262).                                      *)
ClockSafe == Timer!ClockSafe

(* NetkvmFlow: a stopped flow has nothing outstanding, its counter is      *)
(* exact, and it runs when the miniport does                               *)
(* (ParaNdis-SM.h:26-139, 275-334).                                        *)
FlowsSound == Flow!FlowSound
=============================================================================
