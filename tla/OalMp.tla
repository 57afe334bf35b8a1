-------------------------------- MODULE OalMp --------------------------------
(***************************************************************************)
(* How the other CPUs come up: the wait loop and the kernel entry of       *)
(* oal/oallib/startup.s, OEMMpStartAllCPUs and OEMSendIPI of multiproc.c,  *)
(* and what the GIC (external) does with software generated interrupts: a  *)
(* CPU that is sent one keeps it pending until it takes it, the one with   *)
(* the lowest number first, and takes no other while one is running.       *)
(***************************************************************************)
EXTENDS Naturals, FiniteSets

CONSTANTS
  Others,     (* the CPUs but the first                                    *)
  Half,       (* 500000: where the loop that waits for the others ends     *)
  Period,     (* 1000000: what the timer is loaded with                    *)
  MaxIpis     (* bound: IPIs the kernel sends                              *)

NoCount == 0

VARIABLES
  g_numExtraCPUs, regsSet,      \* globals; regsSet: g_controlRegs, g_pfnNkContinue
  pc0, TimerValue, nCpus,       \* the first CPU; what the kernel was told
  gic,                          \* the distributor and CPU 0 are enabled
  pc, r2, monitor,              \* of each other CPU: where, a register, ldrex
  pending, running,             \* SGIs sent to it; the one it has taken
  ipis, prompt                  \* prompt: the others answer in time

cpuVars  == << pc, r2, monitor >>
sgiVars  == << pending, running >>
bootVars == << pc0, nCpus, regsSet, prompt >>
vars == << g_numExtraCPUs, bootVars, TimerValue, gic, cpuVars, sgiVars, ipis >>

Startup == 0   (* the SGI that starts a CPU                                *)
Ipi == 1       (* the SGI of OEMSendIPI                                    *)
None == 2

Init ==
  /\ g_numExtraCPUs = 0 /\ regsSet = FALSE
  /\ pc0 = "init" /\ TimerValue = Period /\ nCpus = NoCount /\ gic = FALSE
  /\ pc = [c \in Others |-> "reset"] /\ r2 = [c \in Others |-> 0]
  /\ monitor = [c \in Others |-> FALSE]
  /\ pending = [c \in Others |-> {}] /\ running = [c \in Others |-> None]
  /\ ipis = 0 /\ prompt \in BOOLEAN

Goto(c, label) == pc' = [pc EXCEPT ![c] = label]
Running == {c \in Others : pc[c] = "kernel"}
-----------------------------------------------------------------------------
(* setup_timer, by way of OEMInit: the timer runs, the GIC is enabled.     *)
SetupTimer ==
  /\ pc0 = "init"
  /\ gic' = TRUE /\ TimerValue' = Period /\ pc0' = "boot"
  /\ UNCHANGED << g_numExtraCPUs, regsSet, nCpus, prompt, cpuVars, sgiVars, ipis >>

(* Time passes.  That the others answer promptly means that time does not  *)
(* run out for them.                                                       *)
Tick ==
  /\ gic /\ TimerValue > 0
  /\ prompt /\ TimerValue - 1 <= Half =>
       pc0 = "kernel" \/ (pc0 = "spin" /\ Running = Others)
  /\ TimerValue' = IF TimerValue = 1 THEN Period ELSE TimerValue - 1
  /\ UNCHANGED << g_numExtraCPUs, bootVars, gic, cpuVars, sgiVars, ipis >>

Send(sgi) == pending' = [c \in Others |-> pending[c] \cup {sgi}]

(* OEMMpStartAllCPUs: the globals are set, then the others are told ...    *)
SetGlobals ==
  /\ pc0 = "boot"
  /\ g_numExtraCPUs' = 0 /\ regsSet' = TRUE
  /\ pc0' = "send"
  /\ UNCHANGED << nCpus, prompt, TimerValue, gic, cpuVars, sgiVars, ipis >>

SendStartup ==
  /\ pc0 = "send"
  /\ Send(Startup)
  /\ pc0' = "spin"
  /\ UNCHANGED << g_numExtraCPUs, regsSet, nCpus, prompt, TimerValue, gic, cpuVars, running, ipis >>

(* ... and counted when the timer is past its half.                        *)
Count ==
  /\ pc0 = "spin" /\ TimerValue <= Half
  /\ nCpus' = g_numExtraCPUs + 1
  /\ pc0' = "kernel"
  /\ UNCHANGED << g_numExtraCPUs, regsSet, prompt, TimerValue, gic, cpuVars, sgiVars, ipis >>

(* OEMSendIPI to all, or to one.                                           *)
OEMSendIPI(cs) ==
  /\ pc0 = "kernel" /\ ipis < MaxIpis
  /\ pending' = [c \in Others |-> IF c \in cs THEN pending[c] \cup {Ipi} ELSE pending[c]]
  /\ ipis' = ipis + 1
  /\ UNCHANGED << g_numExtraCPUs, bootVars, TimerValue, gic, cpuVars, running >>
-----------------------------------------------------------------------------
(* Another CPU enables its interrupts and waits ...                        *)
EnterWait(c) ==
  /\ pc[c] = "reset"
  /\ Goto(c, "wfi")
  /\ UNCHANGED << g_numExtraCPUs, bootVars, TimerValue, gic, r2, monitor, sgiVars, ipis >>

(* ... and takes the first SGI.  Only the one that starts it is completed. *)
First(c) == IF Startup \in pending[c] THEN Startup ELSE Ipi

TakeSgi(c) ==
  /\ pc[c] = "wfi" /\ gic /\ pending[c] # {} /\ running[c] = None
  /\ pending' = [pending EXCEPT ![c] = @ \ {First(c)}]
  /\ running' = [running EXCEPT ![c] = First(c)]
  /\ Goto(c, IF First(c) = Startup THEN "eoi" ELSE "wfi")
  /\ UNCHANGED << g_numExtraCPUs, bootVars, TimerValue, gic, r2, monitor, ipis >>

Eoi(c) ==
  /\ pc[c] = "eoi"
  /\ running' = [running EXCEPT ![c] = None]
  /\ Goto(c, "regs")
  /\ UNCHANGED << g_numExtraCPUs, bootVars, TimerValue, gic, r2, monitor, pending, ipis >>

LoadRegs(c) ==
  /\ pc[c] = "regs"
  /\ Goto(c, "ldrex")
  /\ UNCHANGED << g_numExtraCPUs, bootVars, TimerValue, gic, r2, monitor, sgiVars, ipis >>

(* VIRTUALSMP: ldrex, add, strex until it was exclusive.                   *)
Ldrex(c) ==
  /\ pc[c] = "ldrex"
  /\ r2' = [r2 EXCEPT ![c] = g_numExtraCPUs] /\ monitor' = [monitor EXCEPT ![c] = TRUE]
  /\ Goto(c, "strex")
  /\ UNCHANGED << g_numExtraCPUs, bootVars, TimerValue, gic, sgiVars, ipis >>

StrexOnce(c) ==   (* mutant: the result of strex is not looked at *)
  /\ pc[c] = "strex"
  /\ g_numExtraCPUs' = IF monitor[c] THEN r2[c] + 1 ELSE g_numExtraCPUs
  /\ monitor' = IF monitor[c] THEN [d \in Others |-> FALSE] ELSE monitor
  /\ Goto(c, "kernel")
  /\ UNCHANGED << bootVars, TimerValue, gic, r2, sgiVars, ipis >>

Strex(c) ==
  /\ pc[c] = "strex"
  /\ g_numExtraCPUs' = IF monitor[c] THEN r2[c] + 1 ELSE g_numExtraCPUs
  /\ monitor' = IF monitor[c] THEN [d \in Others |-> FALSE] ELSE monitor
  /\ Goto(c, IF monitor[c] THEN "kernel" ELSE "ldrex")
  /\ UNCHANGED << bootVars, TimerValue, gic, r2, sgiVars, ipis >>

(* In the kernel (external) the IPI is handled.                            *)
HandleIpi(c) ==
  /\ pc[c] = "kernel" /\ pending[c] # {} /\ running[c] = None
  /\ pending' = [pending EXCEPT ![c] = {}]
  /\ UNCHANGED << g_numExtraCPUs, bootVars, TimerValue, gic, cpuVars, running, ipis >>

Boot == SetupTimer \/ SetGlobals \/ SendStartup \/ Count
CpuStep(c) ==
  \/ EnterWait(c) \/ TakeSgi(c) \/ Eoi(c) \/ LoadRegs(c) \/ Ldrex(c) \/ Strex(c) \/ HandleIpi(c)

Next ==
  \/ Boot \/ Tick
  \/ \E cs \in SUBSET Others : OEMSendIPI(cs)
  \/ \E c \in Others : CpuStep(c)

Spec == Init /\ [][Next]_vars

(* Once the first CPU has set the GIC up, the others run, and nobody       *)
(* sleeps for ever who has an interrupt to take.                           *)
Fairness ==
  /\ WF_vars(SetGlobals \/ SendStartup \/ Count) /\ WF_vars(Tick)
  /\ \A c \in Others : WF_vars(gic /\ CpuStep(c))

FairSpec == Spec /\ Fairness
-----------------------------------------------------------------------------
(* No CPU leaves the wait loop before the first one has set what it is to  *)
(* load and where it is to go, not even for an IPI (startup.s:73-131,      *)
(* multiproc.c:36-41).                                                     *)
RegsBeforeUse ==
  \A c \in Others : pc[c] \in {"regs", "ldrex", "strex", "kernel"} => regsSet

(* g_numExtraCPUs is how many CPUs have gone on to the kernel, however     *)
(* their increments cross (startup.s:121-127).                             *)
CountIsExact == g_numExtraCPUs = Cardinality(Running)

(* Promptly answered, the kernel is told of all CPUs; and never of more    *)
(* than run (multiproc.c:43-46).                                           *)
ToldOfAll ==
  nCpus # NoCount =>
    nCpus <= Cardinality(Running) + 1 /\ (prompt => nCpus = Cardinality(Others) + 1)

(* Every CPU comes up, and takes the IPIs it is sent, those sent while it  *)
(* was still on its way, too.                                              *)
AllComeUp == \A c \in Others : pending[c] # {} ~> pc[c] = "kernel" /\ pending[c] = {}

(* No CPU runs on globals that are not set, the count of CPUs is of those  *)
(* that run, and what one is sent all are told (startup.s:73-131,          *)
(* multiproc.c:26-46).                                                     *)
CpusCounted == RegsBeforeUse /\ CountIsExact /\ ToldOfAll
=============================================================================
