----------------------------- MODULE Interrupts ------------------------------
(***************************************************************************)
(* What hangs on the interrupts: the OAL's routines (OalIntr), the start   *)
(* of the other CPUs (OalMp), the debug line's frames (KitlSerial), and    *)
(* the drivers of the serial port (Pl011), of the audio controller (Pl041) *)
(* and of the LAN9118's receiver between NDIS and the link (Smsc9118Mac).  *)
(* Each is a system of its own, with the GIC as far as it needs it: a      *)
(* behaviour is one of one part, chosen at the start, while the others     *)
(* stay where they begin.                                                  *)
(***************************************************************************)
EXTENDS OalIntr

CONSTANTS
  Others, Half, Period, MaxIpis,                                \* OalMp
  ByteMod, SerialPacket, MTU, RoomFor, Payloads, MaxFrames, MaxFaults,  \* KitlSerial
  Threads, MaxBytes, MaxOpens, Counts,                          \* Pl011
  FifoSizes, Rates, Lengths, MaxSamples, MaxInits,              \* Pl041
  Links, MaxSets, MaxLinks, MaxErrors                           \* Smsc9118Mac

VARIABLES
  part,
  g_numExtraCPUs, regsSet, pc0, TimerValue, nCpus, gic, cpuPc, r2,    \* OalMp
  monitor, pending, sgi, ipis, prompt,
  buf, line, sent, received, faults, hit, shifted, small,             \* KitlSerial
  is_open, limit, opens, interrupt, breakev, gone, imsc, uart,        \* Pl011
  arrived, comEnabled, comArmed, comActive, handle, comPc, on, left, taken_bytes,
  wiped, outlived,
  fifo_size, in_use, set_rate, play_state, rate, ie, fifo, ac97Active, \* Pl041
  ac97Ev, ist, wants, queue, paused, written, played, inits,
  (* Smsc9118Mac *)
  m_rev1, m_want, m_wantHash, m_mac, m_hash, m_stopping, m_stopSts, m_stopEn,
  m_swInt, m_link, m_dwLinkMode, m_wOldPhyBSR, m_timer, m_rxe, m_rdfo,
  m_f100Done, m_SWDPCNeeded, m_RxStopDPCNeeded, m_PhyDPCNeeded, m_RxOverRun,
  m_isr, m_dpc, m_todo, m_reg, m_pending, m_cpuInt, m_sets, m_links, m_errors,
  m_spurious, m_late, m_skipped, m_raced, m_swallowed

intrVars == vars
mpVars   == << g_numExtraCPUs, regsSet, pc0, TimerValue, nCpus, gic, cpuPc, r2, monitor, pending,
               sgi, ipis, prompt >>
kitlVars == << buf, line, sent, received, faults, hit, shifted, small >>
comVars  == << is_open, limit, opens, interrupt, breakev, gone, imsc, uart, arrived, comEnabled,
               comArmed, comActive, handle, comPc, on, left, taken_bytes, wiped, outlived >>
waveVars == << fifo_size, in_use, set_rate, play_state, rate, ie, fifo, ac97Active, ac97Ev, ist,
               wants, queue, paused, written, played, inits >>

macVars ==
  << m_rev1, m_want, m_wantHash, m_mac, m_hash, m_stopping, m_stopSts, m_stopEn,
     m_swInt, m_link, m_dwLinkMode, m_wOldPhyBSR, m_timer, m_rxe, m_rdfo,
     m_f100Done, m_SWDPCNeeded, m_RxStopDPCNeeded, m_PhyDPCNeeded, m_RxOverRun,
     m_isr, m_dpc, m_todo, m_reg, m_pending, m_cpuInt, m_sets, m_links, m_errors,
     m_spurious, m_late, m_skipped, m_raced, m_swallowed >>

Mp == INSTANCE OalMp WITH
  pc <- cpuPc, running <- sgi

Kitl == INSTANCE KitlSerial

Com == INSTANCE Pl011 WITH
  fifo <- uart, enabled <- comEnabled, armed <- comArmed, active <- comActive, pc <- comPc,
  taken <- taken_bytes

Wave == INSTANCE Pl041 WITH
  active <- ac97Active, ev <- ac97Ev

Mac == INSTANCE Smsc9118Mac WITH
  rev1 <- m_rev1, want <- m_want, wantHash <- m_wantHash, mac <- m_mac, hash <-
  m_hash, stopping <- m_stopping, stopSts <- m_stopSts, stopEn <- m_stopEn, swInt <-
  m_swInt, link <- m_link, dwLinkMode <- m_dwLinkMode, wOldPhyBSR <- m_wOldPhyBSR,
  timer <- m_timer, rxe <- m_rxe, rdfo <- m_rdfo, f100Done <- m_f100Done,
  SWDPCNeeded <- m_SWDPCNeeded, RxStopDPCNeeded <- m_RxStopDPCNeeded, PhyDPCNeeded
  <- m_PhyDPCNeeded, RxOverRun <- m_RxOverRun, isr <- m_isr, dpc <- m_dpc, todo <-
  m_todo, reg <- m_reg, pending <- m_pending, cpuInt <- m_cpuInt, sets <- m_sets,
  links <- m_links, errors <- m_errors, spurious <- m_spurious, late <- m_late,
  skipped <- m_skipped, raced <- m_raced, swallowed <- m_swallowed

PartsInit ==
  /\ part \in {"intr", "mp", "kitl", "com", "wave", "mac"}
  /\ Init /\ Mp!Init /\ Kitl!Init /\ Com!Init /\ Wave!Init /\ Mac!Init
  /\ part # "mp" => prompt
  /\ part # "mac" => m_rev1

PartsNext ==
  /\ UNCHANGED part
  /\ \/ part = "intr" /\ Next /\ UNCHANGED << mpVars, kitlVars, comVars, waveVars, macVars >>
     \/ part = "mp" /\ Mp!Next /\ UNCHANGED << intrVars, kitlVars, comVars, waveVars, macVars >>
     \/ part = "kitl" /\ Kitl!Next /\ UNCHANGED << intrVars, mpVars, comVars, waveVars, macVars >>
     \/ part = "com" /\ Com!Next /\ UNCHANGED << intrVars, mpVars, kitlVars, waveVars, macVars >>
     \/ part = "wave" /\ Wave!Next /\ UNCHANGED << intrVars, mpVars, kitlVars, comVars, macVars >>
     \/ part = "mac" /\ Mac!Next /\ UNCHANGED << intrVars, mpVars, kitlVars, comVars, waveVars >>

(* Where a part begins nothing of it has to happen: the fairness of those  *)
(* that do not run asks for nothing.                                       *)
PartsSpec ==
  /\ PartsInit /\ [][PartsNext]_<< part, intrVars, mpVars, kitlVars, comVars, waveVars, macVars >>
  /\ Fairness /\ Mp!Fairness /\ Kitl!Fairness /\ Com!Fairness /\ Wave!Fairness /\ Mac!Fairness
-----------------------------------------------------------------------------
(* OalMp: no CPU goes on before it knows where to, those that have come up *)
(* are counted exactly, and the kernel is told of all that are prompt      *)
(* (startup.s:73-131, multiproc.c:43-46).                                  *)
CpusCounted == Mp!CpusCounted

(* KitlSerial: the buffer is not written past its end, damaged frames are  *)
(* dropped and cost no other (init.c:93-140).  Pl011: reads, purges,       *)
(* closings and openings come at any time; bytes are neither lost nor made *)
(* up, COM_Close leaves no reader asleep nor the line active, but for two  *)
(* slips that the state marks: a break taken back, and a read that goes on *)
(* after its port was closed (pl011.cpp:209-268).                          *)
SerialSound == Kitl!ReceiverSound /\ Com!PortSound

(* Pl041: the FIFO is never given more than it holds, gets the samples in  *)
(* order, and plays at the rate of who opened it (pl041.cpp:113-190).      *)
PlaySound == Wave!PlaySound

(* Smsc9118Mac: a request of NDIS is completed once, the receiver has the  *)
(* filter set last, and the MAC's duplex is the link's                     *)
(* (smsc9118.c:1844-2034, 3936-3952, 4154-4191, 4483-4505).                *)
MacSound == Mac!MacSound

(* What is begun comes to its end: CPUs come up and take their IPIs        *)
(* (startup.s:69-83), frames arrive (init.c:93-117), bytes are read by who *)
(* waits for them (pl011.cpp:261-265), buffers are played to their end     *)
(* (pl041.cpp:106-133), requests are completed and the CPU's interrupts    *)
(* come back (smsc9118.c:4134-4541).                                       *)
AllServed ==
  /\ Mp!AllComeUp /\ Kitl!FramesArrive /\ Com!BytesAreRead /\ Wave!BuffersArePlayed
  /\ Mac!SetCompletes /\ Mac!InterruptsComeBack
=============================================================================
