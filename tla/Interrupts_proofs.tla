-------------------------- MODULE Interrupts_proofs ---------------------------
(***************************************************************************)
(* What is proved of the parts of Interrupts, for every value of their     *)
(* constants: of OalIntr, of OalMp, of Pl041, and of Smsc9118Mac.          *)
(*                                                                         *)
(* Of OalIntr: an interrupt the handler leaves active is in somebody's     *)
(* hands until it is deactivated, as long as drivers that close run on the *)
(* handler's CPU and silence their device first.                           *)
(***************************************************************************)
EXTENDS Interrupts, Sequences, FiniteSets, FiniteSetTheorems, SequenceTheorems, TLAPS

(* The uses of the interrupt routines for which they work.                 *)
SafeUse == ~Closes \/ (~MP /\ Silent)

(* The handler: with which line it is, and how far.                        *)
HandlerInv ==
  /\ handler = "idle" <=> taken = NoLine
  /\ taken # NoLine => active[taken] /\ enabled[taken]
  /\ handler = "disarm" => irq_armed[taken]
  /\ handler \in {"eoi", "return"} => ~irq_armed[taken]

(* An active line is in exactly one pair of hands, and irq_armed is FALSE  *)
(* from the handler to InterruptDone.                                      *)
HandInv(i) ==
  /\ active[i] => InHand(i)
  /\ ev[i] => active[i] /\ ~irq_armed[i] /\ taken # i /\ pc[i] \notin {"serve", "done", "dir"}
  /\ pc[i] \in {"serve", "done"} => active[i] /\ ~irq_armed[i] /\ taken # i
  /\ pc[i] = "dir" => active[i] /\ irq_armed[i] /\ taken # i
  /\ ~active[i] /\ pc[i] \in {"enable", "wait", "poll", "disable"} => irq_armed[i]

(* What is known of a driver from where it is.                             *)
DriverInv(i) ==
  /\ registered[i] <=> pc[i] # "closed"
  /\ enabled[i] => pc[i] \notin {"closed", "enable"}
  /\ pc[i] \in {"closed", "enable", "disable", "mask"} => ~active[i]
  /\ pc[i] \in {"poll", "disable", "mask"} => closing[i] /\ Closes
  /\ closing[i] => Closes /\ ~level[i]

LinesInv == TypeOK /\ HandlerInv /\ \A i \in Lines : HandInv(i) /\ DriverInv(i)

(* The initial states and every step keep the invariant.                   *)
LEMMA LinesStep == ASSUME SafeUse PROVE LinesInv /\ [Next]_vars => LinesInv'
<1> USE IntrAssumption
<1> SUFFICES ASSUME LinesInv, [Next]_vars PROVE LinesInv'
  OBVIOUS
<1>1. ASSUME NEW i \in Lines, ReadIar(i) PROVE LinesInv'
  <2> USE <1>1 DEF ReadIar, TypeOK, gicVars, handVars, evVars, drvVars, LinesInv
  <2>1. TypeOK'
    OBVIOUS
  <2>2. HandlerInv'
    BY DEF HandlerInv, HandInv, DriverInv
  <2>3. \A j \in Lines : HandInv(j)' /\ DriverInv(j)'
    BY DEF HandlerInv, HandInv, DriverInv, InHand, SafeUse
  <2> QED
    BY <2>1, <2>2, <2>3
<1>2. CASE Disarm
  <2> USE <1>2 DEF Disarm, TypeOK, gicVars, handVars, evVars, drvVars, LinesInv
  <2>1. TypeOK'
    OBVIOUS
  <2>2. HandlerInv'
    BY DEF HandlerInv, HandInv, DriverInv
  <2>3. \A j \in Lines : HandInv(j)' /\ DriverInv(j)'
    BY DEF HandlerInv, HandInv, DriverInv, InHand, SafeUse
  <2> QED
    BY <2>1, <2>2, <2>3
<1>3. CASE WriteEoir
  <2> USE <1>3 DEF WriteEoir, TypeOK, gicVars, handVars, evVars, drvVars, LinesInv
  <2>1. TypeOK'
    OBVIOUS
  <2>2. HandlerInv'
    BY DEF HandlerInv, HandInv, DriverInv
  <2>3. \A j \in Lines : HandInv(j)' /\ DriverInv(j)'
    BY DEF HandlerInv, HandInv, DriverInv, InHand, SafeUse
  <2> QED
    BY <2>1, <2>2, <2>3
<1>4. CASE SetIntrEvent
  <2> USE <1>4 DEF SetIntrEvent, TypeOK, gicVars, handVars, evVars, drvVars, LinesInv
  <2>1. TypeOK'
    OBVIOUS
  <2>2. HandlerInv'
    BY DEF HandlerInv, HandInv, DriverInv
  <2>3. \A j \in Lines : HandInv(j)' /\ DriverInv(j)'
    BY DEF HandlerInv, HandInv, DriverInv, InHand, SafeUse
  <2> QED
    BY <2>1, <2>2, <2>3
<1>5. ASSUME NEW i \in Lines, Raise(i) PROVE LinesInv'
  <2> USE <1>5 DEF Raise, TypeOK, gicVars, handVars, evVars, drvVars, LinesInv
  <2>1. TypeOK'
    OBVIOUS
  <2>2. HandlerInv'
    BY DEF HandlerInv, HandInv, DriverInv
  <2>3. \A j \in Lines : HandInv(j)' /\ DriverInv(j)'
    BY DEF HandlerInv, HandInv, DriverInv, InHand, SafeUse
  <2> QED
    BY <2>1, <2>2, <2>3
<1>6. ASSUME NEW i \in Lines, EnableArm(i) PROVE LinesInv'
  <2> USE <1>6 DEF EnableArm, TypeOK, gicVars, handVars, evVars, drvVars, CanRun, Goto, LinesInv
  <2>1. TypeOK'
    OBVIOUS
  <2>2. HandlerInv'
    BY DEF HandlerInv, HandInv, DriverInv
  <2>3. \A j \in Lines : HandInv(j)' /\ DriverInv(j)'
    BY DEF HandlerInv, HandInv, DriverInv, InHand, SafeUse
  <2> QED
    BY <2>1, <2>2, <2>3
<1>7. ASSUME NEW i \in Lines, EnableGic(i) PROVE LinesInv'
  <2> USE <1>7 DEF EnableGic, TypeOK, gicVars, handVars, evVars, drvVars, CanRun, Goto, LinesInv
  <2>1. TypeOK'
    OBVIOUS
  <2>2. HandlerInv'
    BY DEF HandlerInv, HandInv, DriverInv
  <2>3. \A j \in Lines : HandInv(j)' /\ DriverInv(j)'
    BY DEF HandlerInv, HandInv, DriverInv, InHand, SafeUse
  <2> QED
    BY <2>1, <2>2, <2>3
<1>8. ASSUME NEW i \in Lines, Wake(i) PROVE LinesInv'
  <2> USE <1>8 DEF Wake, TypeOK, gicVars, handVars, evVars, drvVars, CanRun, Goto, LinesInv
  <2>1. TypeOK'
    OBVIOUS
  <2>2. HandlerInv'
    BY DEF HandlerInv, HandInv, DriverInv
  <2>3. \A j \in Lines : HandInv(j)' /\ DriverInv(j)'
    BY DEF HandlerInv, HandInv, DriverInv, InHand, SafeUse
  <2> QED
    BY <2>1, <2>2, <2>3
<1>9. ASSUME NEW i \in Lines, Serve(i) PROVE LinesInv'
  <2> USE <1>9 DEF Serve, TypeOK, gicVars, handVars, evVars, drvVars, CanRun, Goto, LinesInv
  <2>1. TypeOK'
    OBVIOUS
  <2>2. HandlerInv'
    BY DEF HandlerInv, HandInv, DriverInv
  <2>3. \A j \in Lines : HandInv(j)' /\ DriverInv(j)'
    BY DEF HandlerInv, HandInv, DriverInv, InHand, SafeUse
  <2> QED
    BY <2>1, <2>2, <2>3
<1>10. ASSUME NEW i \in Lines, DoneArm(i) PROVE LinesInv'
  <2> USE <1>10 DEF DoneArm, AfterDone, TypeOK, gicVars, handVars, evVars, drvVars, CanRun, Goto, LinesInv
  <2>1. TypeOK'
    OBVIOUS
  <2>2. HandlerInv'
    BY DEF HandlerInv, HandInv, DriverInv
  <2>3. \A j \in Lines : HandInv(j)' /\ DriverInv(j)'
    BY DEF HandlerInv, HandInv, DriverInv, InHand, SafeUse
  <2> QED
    BY <2>1, <2>2, <2>3
<1>11. ASSUME NEW i \in Lines, DoneDir(i) PROVE LinesInv'
  <2> USE <1>11 DEF DoneDir, AfterDone, TypeOK, gicVars, handVars, evVars, drvVars, CanRun, Goto, LinesInv
  <2>1. TypeOK'
    OBVIOUS
  <2>2. HandlerInv'
    BY DEF HandlerInv, HandInv, DriverInv
  <2>3. \A j \in Lines : HandInv(j)' /\ DriverInv(j)'
    BY DEF HandlerInv, HandInv, DriverInv, InHand, SafeUse
  <2> QED
    BY <2>1, <2>2, <2>3
<1>12. ASSUME NEW i \in Lines, Poll(i) PROVE LinesInv'
  <2> USE <1>12 DEF Poll, TypeOK, gicVars, handVars, evVars, drvVars, CanRun, Goto, LinesInv
  <2>1. TypeOK'
    OBVIOUS
  <2>2. HandlerInv'
    BY DEF HandlerInv, HandInv, DriverInv
  <2>3. \A j \in Lines : HandInv(j)' /\ DriverInv(j)'
    BY DEF HandlerInv, HandInv, DriverInv, InHand, SafeUse
  <2> QED
    BY <2>1, <2>2, <2>3
<1>13. ASSUME NEW i \in Lines, DisableArm(i) PROVE LinesInv'
  <2> USE <1>13 DEF DisableArm, TypeOK, gicVars, handVars, evVars, drvVars, CanRun, Goto, LinesInv
  <2>1. TypeOK'
    OBVIOUS
  <2>2. HandlerInv'
    BY DEF HandlerInv, HandInv, DriverInv
  <2>3. \A j \in Lines : HandInv(j)' /\ DriverInv(j)'
    BY DEF HandlerInv, HandInv, DriverInv, InHand, SafeUse
  <2> QED
    BY <2>1, <2>2, <2>3
<1>14. ASSUME NEW i \in Lines, DisableGic(i) PROVE LinesInv'
  <2> USE <1>14 DEF DisableGic, TypeOK, gicVars, handVars, evVars, drvVars, CanRun, Goto, LinesInv
  <2>1. TypeOK'
    OBVIOUS
  <2>2. HandlerInv'
    BY DEF HandlerInv, HandInv, DriverInv
  <2>3. \A j \in Lines : HandInv(j)' /\ DriverInv(j)'
    BY DEF HandlerInv, HandInv, DriverInv, InHand, SafeUse
  <2> QED
    BY <2>1, <2>2, <2>3
<1>15. ASSUME NEW i \in Lines, Close(i) PROVE LinesInv'
  <2> USE <1>15 DEF Close, TypeOK, gicVars, handVars, evVars, drvVars, CanRun, Goto, LinesInv
  <2>1. TypeOK'
    OBVIOUS
  <2>2. HandlerInv'
    BY DEF HandlerInv, HandInv, DriverInv
  <2>3. \A j \in Lines : HandInv(j)' /\ DriverInv(j)'
    BY DEF HandlerInv, HandInv, DriverInv, InHand, SafeUse
  <2> QED
    BY <2>1, <2>2, <2>3
<1>16. CASE UNCHANGED vars
  BY <1>16 DEF vars, gicVars, handVars, evVars, drvVars, LinesInv, TypeOK, HandlerInv, HandInv, DriverInv, InHand
<1> QED
  BY <1>1, <1>2, <1>3, <1>4, <1>5, <1>6, <1>7, <1>8, <1>9, <1>10, <1>11, <1>12, <1>13, <1>14, <1>15, <1>16 DEF Next, Handle, DriverStep

(* The invariant holds throughout: each action of the handler, of a driver *)
(* and of a device keeps it.                                               *)
THEOREM LinesKept == ASSUME SafeUse PROVE Spec => []LinesInv
<1>1. Init => LinesInv
  BY IntrAssumption DEF Init, LinesInv, TypeOK, HandlerInv, HandInv, DriverInv, InHand
<1> QED
  BY <1>1, LinesStep, PTL DEF Spec

(* Whatever the number of lines, the routines keep the types.              *)
THEOREM LinesTyped == ASSUME SafeUse PROVE Spec => []TypeOK
<1>1. LinesInv => TypeOK
  BY DEF LinesInv
<1> QED
  BY <1>1, LinesKept, PTL

(* No line gets stuck: OEMInterruptHandler leaves it active only for       *)
(* somebody who is going to call OEMInterruptDone.                         *)
THEOREM NeverStuck == ASSUME SafeUse PROVE Spec => []NoneStuck
<1>1. LinesInv => NoneStuck
  BY DEF LinesInv, HandInv, NoneStuck
<1> QED
  BY <1>1, LinesKept, PTL

(* OEMInterruptDone and OEMInterruptHandler find irq_armed as they expect  *)
(* it: neither message about an unexpected interrupt ever shows.           *)
THEOREM NothingUnexpected ==
  ASSUME SafeUse PROVE Spec => [](NoUnexpectedArming /\ NoUnexpectedTrigger)
<1>1. LinesInv => NoUnexpectedArming /\ NoUnexpectedTrigger
  BY DEF LinesInv, HandInv, HandlerInv, NoUnexpectedArming, NoUnexpectedTrigger
<1> QED
  BY <1>1, LinesKept, PTL

(* irq_armed is the complement of the GIC's active state.                  *)
THEOREM ArmedTellsActive == ASSUME SafeUse PROVE Spec => []ArmedIsInactive
<1>1. LinesInv => ArmedIsInactive
  BY DEF LinesInv, TypeOK, HandInv, DriverInv, InHand, ArmedIsInactive
<1> QED
  BY <1>1, LinesKept, PTL
-----------------------------------------------------------------------------
(* What is assumed of the board: finitely many CPUs, and a timer that is   *)
(* loaded with more than the half at which the counting ends.              *)
Board == /\ IsFiniteSet(Others)
         /\ Half \in Nat /\ Period \in Nat /\ Half < Period

BeforeStart == {"reset", "wfi"}
AfterStart  == {"eoi", "regs", "ldrex", "strex", "kernel"}

MpTypes ==
  /\ g_numExtraCPUs \in Nat /\ nCpus \in Nat /\ TimerValue \in Nat
  /\ regsSet \in BOOLEAN /\ prompt \in BOOLEAN /\ gic \in BOOLEAN
  /\ pc0 \in {"init", "boot", "send", "spin", "kernel"}
  /\ cpuPc \in [Others -> BeforeStart \cup AfterStart]
  /\ r2 \in [Others -> Nat] /\ monitor \in [Others -> BOOLEAN]
  /\ pending \in [Others -> SUBSET {Mp!Startup, Mp!Ipi}]
  /\ sgi \in [Others -> {Mp!Startup, Mp!Ipi, Mp!None}]

(* The SGI that starts a CPU is sent when the globals are set, and no CPU  *)
(* leaves the wait loop without it.                                        *)
StartInv ==
  /\ pc0 \in {"send", "spin", "kernel"} => regsSet
  /\ \A c \in Others :
       cpuPc[c] \in AfterStart \/ Mp!Startup \in pending[c] => pc0 \in {"spin", "kernel"}
  /\ pc0 = "kernel" <=> nCpus # Mp!NoCount

(* A store that will be exclusive stores the successor of the count.       *)
CountInv ==
  /\ g_numExtraCPUs = Cardinality(Mp!Running)
  /\ \A c \in Others : monitor[c] => cpuPc[c] = "strex" /\ r2[c] = g_numExtraCPUs

(* What the kernel is told are CPUs that run, and all of them if none of   *)
(* them lets the first one wait for the half of the timer.                 *)
ToldInv ==
  /\ prompt /\ TimerValue <= Half => pc0 = "kernel" \/ (pc0 = "spin" /\ Mp!Running = Others)
  /\ pc0 = "kernel" => /\ nCpus <= Cardinality(Mp!Running) + 1
                       /\ prompt => nCpus = Cardinality(Others) + 1

MpInv == MpTypes /\ StartInv /\ CountInv /\ ToldInv
-----------------------------------------------------------------------------
(* The CPUs that run are finitely many, not more than there are.           *)
LEMMA RunningFacts ==
  ASSUME Board
  PROVE  /\ IsFiniteSet(Mp!Running) /\ Cardinality(Mp!Running) \in Nat
         /\ Cardinality(Others) \in Nat
<1>1. Mp!Running \subseteq Others
  BY DEF Mp!Running
<1> QED BY <1>1, FS_Subset, FS_CardinalityType DEF Board

(* One more CPU runs.                                                      *)
LEMMA OneMoreRuns ==
  ASSUME Board, MpTypes, NEW c \in Others, cpuPc[c] # "kernel", cpuPc' = [cpuPc EXCEPT ![c] = "kernel"]
  PROVE  Cardinality(Mp!Running') = Cardinality(Mp!Running) + 1
<1>1. Mp!Running' = Mp!Running \cup {c} /\ c \notin Mp!Running
  BY DEF Mp!Running, MpTypes
<1> QED BY <1>1, RunningFacts, FS_AddElement

(* After reset no CPU runs.                                                *)
LEMMA InitMpInv == ASSUME Board, Mp!Init PROVE MpInv
<1> USE DEF Mp!Init
<1>1. MpTypes
  BY DEF Board, MpTypes, BeforeStart, AfterStart, Mp!Startup, Mp!Ipi, Mp!None, Mp!NoCount
<1>2. Mp!Running = {}
  BY DEF Mp!Running
<1>3. StartInv /\ CountInv /\ ToldInv
  BY <1>2, FS_EmptySet DEF Board, StartInv, CountInv, ToldInv, AfterStart, Mp!NoCount
<1> QED BY <1>1, <1>3 DEF MpInv

(* The steps of the first CPU, and of the kernel on it.                    *)
LEMMA FirstCpuStep ==
  ASSUME Board, MpInv, Mp!Boot \/ Mp!Tick \/ \E cs \in SUBSET Others : Mp!OEMSendIPI(cs)
  PROVE  MpInv'
<1> USE DEF MpInv
<1>1. CASE Mp!SetupTimer
  <2>1. MpTypes'
    BY <1>1 DEF Mp!SetupTimer, Board, MpTypes, Mp!cpuVars, Mp!sgiVars
  <2>2. StartInv'
    BY <1>1 DEF Mp!SetupTimer, StartInv, Mp!cpuVars, Mp!sgiVars
  <2>3. CountInv' /\ ToldInv'
    BY <1>1 DEF Mp!SetupTimer, Board, CountInv, ToldInv, Mp!Running, Mp!cpuVars
  <2> QED BY <2>1, <2>2, <2>3
<1>2. CASE Mp!SetGlobals
  <2>1. MpTypes' /\ StartInv'
    BY <1>2 DEF Mp!SetGlobals, MpTypes, StartInv, Mp!cpuVars, Mp!sgiVars
  <2>2. Mp!Running = {}
    BY <1>2 DEF Mp!SetGlobals, StartInv, Mp!Running, AfterStart
  <2>3. Mp!Running' = {}
    BY <1>2, <2>2 DEF Mp!SetGlobals, Mp!Running, Mp!cpuVars
  <2>4. CountInv'
    BY <1>2, <2>2, <2>3, FS_EmptySet DEF Mp!SetGlobals, CountInv, Mp!cpuVars
  <2>5. ToldInv'
    BY <1>2, <2>2, <2>3 DEF Mp!SetGlobals, ToldInv
  <2> QED BY <2>1, <2>4, <2>5
<1>3. CASE Mp!SendStartup
  <2>1. MpTypes'
    BY <1>3 DEF Mp!SendStartup, Mp!Send, MpTypes, Mp!cpuVars
  <2>2. StartInv'
    BY <1>3 DEF Mp!SendStartup, StartInv
  <2>3. CountInv' /\ ToldInv'
    BY <1>3 DEF Mp!SendStartup, CountInv, ToldInv, Mp!Running, Mp!cpuVars
  <2> QED BY <2>1, <2>2, <2>3
<1>4. CASE Mp!Count
  <2>1. Mp!Running' = Mp!Running
    BY <1>4 DEF Mp!Count, Mp!Running, Mp!cpuVars
  <2>2. MpTypes' /\ StartInv'
    BY <1>4 DEF Mp!Count, MpTypes, StartInv, Mp!NoCount, Mp!cpuVars, Mp!sgiVars
  <2>3. CountInv'
    BY <1>4, <2>1 DEF Mp!Count, CountInv, Mp!cpuVars
  <2>4. ToldInv'
    BY <1>4, <2>1, RunningFacts DEF Mp!Count, ToldInv, CountInv
  <2> QED BY <2>2, <2>3, <2>4
<1>5. CASE Mp!Tick
  <2>1. Mp!Running' = Mp!Running
    BY <1>5 DEF Mp!Tick, Mp!Running, Mp!cpuVars
  <2>2. MpTypes' /\ StartInv' /\ CountInv'
    BY <1>5, <2>1 DEF Mp!Tick, Board, MpTypes, StartInv, CountInv, Mp!bootVars, Mp!cpuVars, Mp!sgiVars
  <2>3. ToldInv'
    BY <1>5, <2>1 DEF Mp!Tick, Board, MpTypes, ToldInv, Mp!bootVars
  <2> QED BY <2>2, <2>3
<1>6. ASSUME NEW cs \in SUBSET Others, Mp!OEMSendIPI(cs) PROVE MpInv'
  <2>1. MpTypes'
    BY <1>6 DEF Mp!OEMSendIPI, MpTypes, Mp!bootVars, Mp!cpuVars
  <2>2. \A c \in Others : Mp!Startup \in pending'[c] => Mp!Startup \in pending[c]
    BY <1>6 DEF Mp!OEMSendIPI, Mp!Startup, Mp!Ipi
  <2>3. StartInv' /\ CountInv' /\ ToldInv'
    BY <1>6, <2>2 DEF Mp!OEMSendIPI, StartInv, CountInv, ToldInv, Mp!Running, Mp!bootVars, Mp!cpuVars
  <2> QED BY <2>1, <2>3
<1> QED BY <1>1, <1>2, <1>3, <1>4, <1>5, <1>6 DEF Mp!Boot

(* Another CPU on its way to the kernel, up to the count.                  *)
LEMMA OtherCpuStep ==
  ASSUME Board, MpInv, NEW c \in Others,
         Mp!EnterWait(c) \/ Mp!TakeSgi(c) \/ Mp!Eoi(c) \/ Mp!LoadRegs(c) \/ Mp!Ldrex(c) \/ Mp!HandleIpi(c)
  PROVE  MpInv'
<1> USE DEF MpInv
<1>1. /\ cpuPc' = [cpuPc EXCEPT ![c] = cpuPc'[c]] /\ cpuPc'[c] \in BeforeStart \cup AfterStart
      /\ cpuPc[c] = "kernel" <=> cpuPc'[c] = "kernel"
      /\ cpuPc'[c] \in AfterStart /\ cpuPc[c] \notin AfterStart => Mp!Startup \in pending[c]
      /\ \A d \in Others : pending'[d] \subseteq pending[d]
      /\ UNCHANGED << g_numExtraCPUs, Mp!bootVars, TimerValue, gic >>
  BY DEF Mp!EnterWait, Mp!TakeSgi, Mp!Eoi, Mp!LoadRegs, Mp!Ldrex, Mp!HandleIpi, Mp!First,
         Mp!Goto, MpTypes, BeforeStart, AfterStart, Mp!cpuVars, Mp!sgiVars
<1>2. Mp!Running' = Mp!Running
  BY <1>1 DEF Mp!Running, MpTypes
<1>3. MpTypes'
  <2>1. r2' \in [Others -> Nat] /\ monitor' \in [Others -> BOOLEAN]
    BY DEF Mp!EnterWait, Mp!TakeSgi, Mp!Eoi, Mp!LoadRegs, Mp!Ldrex, Mp!HandleIpi, MpTypes, Mp!cpuVars
  <2>2. sgi' \in [Others -> {Mp!Startup, Mp!Ipi, Mp!None}]
    BY DEF Mp!EnterWait, Mp!TakeSgi, Mp!Eoi, Mp!LoadRegs, Mp!Ldrex, Mp!HandleIpi, Mp!First, MpTypes,
        Mp!sgiVars
  <2>3. pending' \in [Others -> SUBSET {Mp!Startup, Mp!Ipi}]
    BY DEF Mp!EnterWait, Mp!TakeSgi, Mp!Eoi, Mp!LoadRegs, Mp!Ldrex, Mp!HandleIpi, Mp!First, MpTypes,
        Mp!sgiVars
  <2> QED BY <1>1, <2>1, <2>2, <2>3 DEF MpTypes, Mp!bootVars
<1>4. StartInv'
  BY <1>1 DEF StartInv, MpTypes, Mp!bootVars
<1>5. CountInv'
  <2>1. CASE Mp!Ldrex(c)
    BY <1>1, <1>2, <2>1 DEF Mp!Ldrex, Mp!Goto, CountInv, MpTypes
  <2>2. CASE ~Mp!Ldrex(c)
    <3>1. (UNCHANGED << r2, monitor >> /\ cpuPc[c] # "strex") \/ UNCHANGED Mp!cpuVars
      BY <2>2 DEF Mp!EnterWait, Mp!TakeSgi, Mp!Eoi, Mp!LoadRegs, Mp!HandleIpi, Mp!cpuVars
    <3> QED BY <1>1, <1>2, <3>1 DEF CountInv, MpTypes, Mp!cpuVars
  <2> QED BY <2>1, <2>2
<1>6. ToldInv'
  BY <1>1, <1>2 DEF ToldInv, Mp!bootVars
<1> QED BY <1>3, <1>4, <1>5, <1>6

(* An exclusive store counts the CPU, and spoils those under way.          *)
LEMMA StrexStep ==
  ASSUME Board, MpInv, NEW c \in Others, Mp!Strex(c)
  PROVE  MpInv'
<1> USE DEF MpInv
<1>1. CASE ~monitor[c]
  <2>1. /\ cpuPc[c] = "strex" /\ cpuPc' = [cpuPc EXCEPT ![c] = "ldrex"]
        /\ UNCHANGED << g_numExtraCPUs, monitor, Mp!bootVars, TimerValue, gic, r2, Mp!sgiVars, ipis >>
    BY <1>1 DEF Mp!Strex, Mp!Goto
  <2>2. Mp!Running' = Mp!Running
    BY <2>1 DEF Mp!Running, MpTypes
  <2>3. MpTypes' /\ StartInv' /\ ToldInv'
    BY <2>1, <2>2 DEF MpTypes, StartInv, ToldInv, BeforeStart, AfterStart, Mp!bootVars, Mp!sgiVars
  <2>4. CountInv'
    BY <1>1, <2>1, <2>2 DEF CountInv, MpTypes
  <2> QED BY <2>3, <2>4
<1>2. CASE monitor[c]
  <2>1. /\ cpuPc[c] = "strex" /\ cpuPc' = [cpuPc EXCEPT ![c] = "kernel"]
        /\ g_numExtraCPUs' = g_numExtraCPUs + 1
        /\ monitor' = [d \in Others |-> FALSE]
        /\ UNCHANGED << Mp!bootVars, TimerValue, gic, r2, Mp!sgiVars, ipis >>
    BY <1>2 DEF Mp!Strex, Mp!Goto, CountInv
  <2>2. Cardinality(Mp!Running') = Cardinality(Mp!Running) + 1
    BY <2>1, OneMoreRuns
  <2>3. MpTypes' /\ StartInv'
    BY <2>1 DEF MpTypes, StartInv, BeforeStart, AfterStart, Mp!bootVars, Mp!sgiVars
  <2>4. CountInv'
    BY <2>1, <2>2 DEF CountInv
  <2>5. ToldInv'
    <3>1. Mp!Running # Others
      BY <2>1 DEF Mp!Running
    <3>2. nCpus \in Nat /\ Cardinality(Mp!Running) \in Nat
      BY RunningFacts DEF MpTypes
    <3> QED BY <2>1, <2>2, <3>1, <3>2 DEF ToldInv, Mp!bootVars
  <2> QED BY <2>3, <2>4, <2>5
<1> QED BY <1>1, <1>2

(* Every step keeps the invariant.                                         *)
LEMMA NextMpInv == ASSUME Board, MpInv, [Mp!Next]_(Mp!vars) PROVE MpInv'
<1>1. CASE UNCHANGED Mp!vars
  BY <1>1 DEF Mp!vars, Mp!bootVars, Mp!cpuVars, Mp!sgiVars, MpInv, MpTypes,
              StartInv, CountInv, ToldInv, Mp!Running
<1>2. CASE Mp!Next
  BY <1>2, FirstCpuStep, OtherCpuStep, StrexStep DEF Mp!Next, Mp!CpuStep
<1> QED BY <1>1, <1>2

(* Whatever the order in which the CPUs come up, and however their         *)
(* increments cross: none leaves the wait loop before the globals are set, *)
(* g_numExtraCPUs counts those that run, and the kernel is told of those   *)
(* that run, of all of them if they answer in time (startup.s:73-131,      *)
(* multiproc.c:26-46).                                                     *)
THEOREM CountedCpusRun == ASSUME Board PROVE Mp!Spec => []CpusCounted
<1>1. Mp!Init => MpInv
  BY InitMpInv
<1>2. MpInv /\ [Mp!Next]_(Mp!vars) => MpInv'
  BY NextMpInv
<1>3. \A S : Mp!Cardinality(S) = Cardinality(S)
  BY DEF Mp!Cardinality, Cardinality
<1>4. MpInv => CpusCounted
  BY <1>3 DEF CpusCounted, MpInv, StartInv, CountInv, ToldInv, Mp!CpusCounted, Mp!RegsBeforeUse,
              Mp!CountIsExact, Mp!ToldOfAll, AfterStart
<1> QED BY <1>1, <1>2, <1>4, PTL DEF Mp!Spec
-----------------------------------------------------------------------------
(* Pl041.  A FIFO and a buffer have some number of samples.                *)
WaveNumbers == FifoSizes \subseteq Nat /\ Lengths \subseteq Nat

Samples == [from : Nat, len : Nat, pos : Nat]

WaveTypes ==
  /\ fifo_size \in Nat /\ fifo \in Nat /\ written \in Nat
  /\ in_use \in BOOLEAN /\ ac97Active \in BOOLEAN /\ ac97Ev \in BOOLEAN
  /\ play_state \in 0 .. 2
  /\ ist \in {"wait", "playing", "stopped", "done"}
  /\ queue \in Seq(Samples) /\ played \in Seq(Nat)

(* An interrupt is active from the controller to InterruptDone, and in one *)
(* pair of hands: no second one comes before.                              *)
WaveHandInv ==
  /\ ac97Ev => ac97Active
  /\ ist # "wait" => ac97Active /\ ~ac97Ev

(* From the interrupt to the transfer half of the FIFO is free.            *)
HalfInv ==
  /\ ac97Ev \/ ist = "playing" => fifo <= fifo_size \div 2
  /\ fifo <= fifo_size
  /\ ~Wave!Loaded => ist # "playing" /\ play_state = 0 /\ ~in_use /\ set_rate = 0

RateInv ==
  /\ Wave!Loaded => rate = set_rate
  /\ in_use => wants = set_rate

(* The buffers of a queue follow each other, up to the sample written last *)
(* of all; samples increase, and come before those of the queue.           *)
Sorted(q, w) ==
  /\ \A i \in 1 .. Len(q) : q[i].pos <= q[i].len /\ q[i].from + q[i].len <= w
  /\ \A i, j \in 1 .. Len(q) : i < j => q[i].from + q[i].len <= q[j].from
Increasing(p) == \A m, n \in 1 .. Len(p) : m < n => p[m] < p[n]
UpToSample(p, w) == \A n \in 1 .. Len(p) : p[n] <= w
ComeBefore(p, q) == \A i \in 1 .. Len(q) : UpToSample(p, q[i].from + q[i].pos)

SamplesInv ==
  Sorted(queue, written) /\ Increasing(played) /\ UpToSample(played, written) /\ ComeBefore(played, queue)

WaveInv == WaveTypes /\ WaveHandInv /\ HalfInv /\ RateInv /\ SamplesInv
-----------------------------------------------------------------------------
LEMMA Halved == ASSUME NEW n \in Nat PROVE n \div 2 \in Nat /\ n \div 2 + n \div 2 <= n
OBVIOUS

LEMMA Appended ==
  ASSUME NEW S, NEW s \in Seq(S), NEW e \in S
  PROVE  /\ Append(s, e) \in Seq(S) /\ Len(s) \in Nat /\ Len(Append(s, e)) = Len(s) + 1
         /\ \A i \in 1 .. Len(s) : Append(s, e)[i] = s[i] /\ s[i] \in S
         /\ Append(s, e)[Len(s) + 1] = e
BY AppendProperties, ElementOfSeq, LenProperties

LEMMA HeadAndTail ==
  ASSUME NEW S, NEW s \in Seq(S), s # << >>
  PROVE  /\ Len(s) \in Nat /\ Len(s) >= 1 /\ Head(s) = s[1] /\ Head(s) \in S
         /\ Tail(s) \in Seq(S) /\ Len(Tail(s)) = Len(s) - 1
         /\ \A i \in 1 .. Len(s) - 1 : Tail(s)[i] = s[i + 1] /\ s[i + 1] \in S
<1>1. Len(s) \in Nat /\ \A i \in 1 .. Len(s) : s[i] \in S
  BY ElementOfSeq, LenProperties
<1>2. \A i \in 1 .. Len(s) - 1 : i + 1 \in 1 .. Len(s)
  BY <1>1
<1> QED BY <1>1, <1>2, HeadTailProperties, EmptySeq

(* The head of a queue goes back.                                          *)
LEMMA TailKeeps ==
  ASSUME NEW q \in Seq(Samples), q # << >>, NEW w \in Nat, Sorted(q, w),
         NEW p \in Seq(Nat), ComeBefore(p, q)
  PROVE  Sorted(Tail(q), w) /\ ComeBefore(p, Tail(q))
<1>1. /\ Len(q) \in Nat /\ Len(Tail(q)) = Len(q) - 1
      /\ \A i \in 1 .. Len(Tail(q)) : i + 1 \in 1 .. Len(q) /\ Tail(q)[i] = q[i + 1]
  BY HeadAndTail
<1>2. \A i, j \in 1 .. Len(Tail(q)) : i < j => i + 1 < j + 1
  BY <1>1
<1>3. ComeBefore(p, Tail(q))
  BY <1>1 DEF ComeBefore
<1>4. Sorted(Tail(q), w)
  BY <1>1, <1>2 DEF Sorted
<1> QED BY <1>3, <1>4

(* A buffer is queued.                                                     *)
LEMMA WriteKeeps ==
  ASSUME NEW q \in Seq(Samples), NEW w \in Nat, Sorted(q, w), NEW n \in Nat,
         NEW p \in Seq(Nat), ComeBefore(p, q), UpToSample(p, w),
         NEW r, r = Append(q, [from |-> w, len |-> n, pos |-> 0])
  PROVE  /\ r \in Seq(Samples) /\ Sorted(r, w + n)
         /\ ComeBefore(p, r) /\ UpToSample(p, w + n)
<1> DEFINE b == [from |-> w, len |-> n, pos |-> 0]
<1>1. b \in Samples /\ b.from = w /\ b.len = n /\ b.pos = 0
  BY DEF Samples
<1> HIDE DEF b
<1>2. /\ r \in Seq(Samples) /\ Len(q) \in Nat /\ Len(r) = Len(q) + 1
      /\ \A i \in 1 .. Len(q) : r[i] = q[i] /\ q[i] \in Samples
      /\ r[Len(q) + 1] = b
  BY <1>1, Appended DEF b
<1>3. \A i \in 1 .. Len(r) : i \in 1 .. Len(q) \/ (i = Len(q) + 1 /\ \A j \in 1 .. Len(r) : ~ i < j)
  BY <1>2
<1>4. \A i \in 1 .. Len(q) :
        /\ q[i].from \in Nat /\ q[i].len \in Nat /\ q[i].pos \in Nat
        /\ q[i].from + q[i].len <= w + n
  BY <1>2 DEF Samples, Sorted
<1>5. Sorted(r, w + n)
  BY <1>1, <1>2, <1>3, <1>4 DEF Sorted
<1>6. \A i \in 1 .. Len(p) : p[i] \in Nat
  BY ElementOfSeq
<1>7. UpToSample(p, w + n)
  BY <1>6 DEF UpToSample
<1>8. ComeBefore(p, r)
  BY <1>1, <1>2, <1>3 DEF ComeBefore, UpToSample
<1> QED BY <1>2, <1>5, <1>7, <1>8

(* The next k samples after m are played.                                  *)
LEMMA Counted ==
  ASSUME NEW m \in Nat, NEW k \in Nat, NEW d, d = [i \in 1 .. k |-> m + i]
  PROVE  d \in Seq(Nat) /\ Len(d) = k /\ \A i \in 1 .. k : d[i] = m + i
<1>1. \A i \in 1 .. k : m + i \in Nat
  OBVIOUS
<1> QED BY <1>1

LEMMA AddedInOrder ==
  ASSUME NEW p \in Seq(Nat), Increasing(p), NEW m \in Nat, UpToSample(p, m), NEW k \in Nat,
         NEW e, e = p \o [i \in 1 .. k |-> m + i]
  PROVE  e \in Seq(Nat) /\ Increasing(e) /\ UpToSample(e, m + k)
<1>1. PICK d : d = [i \in 1 .. k |-> m + i]
  OBVIOUS
<1>2. d \in Seq(Nat) /\ Len(d) = k /\ \A i \in 1 .. k : d[i] = m + i
  BY <1>1, Counted
<1>3. PICK l \in Nat : l = Len(p)
  BY LenProperties
<1>4. \A i \in 1 .. l : p[i] \in Nat /\ p[i] <= m
  BY <1>3, ElementOfSeq DEF UpToSample
<1>5. /\ e \in Seq(Nat) /\ Len(e) = l + k
      /\ \A i \in 1 .. l + k : e[i] = IF i <= l THEN p[i] ELSE d[i - l]
  BY <1>1, <1>2, <1>3, ConcatProperties
<1>6. ASSUME NEW i \in 1 .. l + k
      PROVE  (i \in 1 .. l /\ e[i] = p[i]) \/ (i > l /\ e[i] = m + (i - l))
  <2>1. CASE i <= l
    BY <1>5, <2>1
  <2>2. CASE ~(i <= l)
    <3>1. i - l \in 1 .. k /\ i > l
      BY <2>2
    <3> QED BY <1>2, <1>5, <2>2, <3>1
  <2> QED BY <2>1, <2>2
<1>7. ASSUME NEW i \in 1 .. l + k, NEW j \in 1 .. l + k, i < j
      PROVE  e[i] < e[j]
  <2>1. CASE j \in 1 .. l
    <3>1. i \in 1 .. l /\ e[i] = p[i] /\ e[j] = p[j]
      BY <1>5, <1>7, <2>1
    <3> QED BY <1>3, <1>7, <2>1, <3>1 DEF Increasing
  <2>2. CASE j > l /\ e[j] = m + (j - l)
    <3>1. PICK t \in Nat : e[j] = m + t /\ l + t = j /\ t > 0
      <4>1. j - l \in Nat /\ l + (j - l) = j /\ j - l > 0
        BY <2>2
      <4> QED BY <2>2, <4>1
    <3>2. CASE i \in 1 .. l /\ e[i] = p[i]
      <4>1. PICK x \in Nat : e[i] = x /\ x <= m
        BY <1>4, <3>2
      <4>2. x < m + t
        BY <3>1, <4>1
      <4> QED BY <3>1, <4>1, <4>2
    <3>3. CASE i > l /\ e[i] = m + (i - l)
      <4>1. PICK s \in Nat : e[i] = m + s /\ l + s = i
        <5>1. i - l \in Nat /\ l + (i - l) = i
          BY <3>3
        <5> QED BY <3>3, <5>1
      <4>2. m + s < m + t
        BY <1>7, <3>1, <4>1
      <4> QED BY <3>1, <4>1, <4>2
    <3> QED BY <1>6, <3>2, <3>3
  <2> QED BY <1>6, <2>1, <2>2
<1>8. ASSUME NEW i \in 1 .. l + k PROVE e[i] <= m + k
  <2>1. CASE i \in 1 .. l /\ e[i] = p[i]
    <3>1. PICK x \in Nat : e[i] = x /\ x <= m
      BY <1>4, <2>1
    <3>2. x <= m + k
      BY <3>1
    <3> QED BY <3>1, <3>2
  <2>2. CASE i > l /\ e[i] = m + (i - l)
    <3>1. PICK s \in Nat : e[i] = m + s /\ s <= k
      <4>1. i - l \in Nat /\ i - l <= k
        BY <2>2
      <4> QED BY <2>2, <4>1
    <3>2. m + s <= m + k
      BY <3>1
    <3> QED BY <3>1, <3>2
  <2> QED BY <1>6, <2>1, <2>2
<1> QED BY <1>5, <1>7, <1>8 DEF Increasing, UpToSample

(* Samples up to one are samples up to a later one.                        *)
LEMMA UpToLater ==
  ASSUME NEW p \in Seq(Nat), NEW v \in Nat, NEW w \in Nat, v <= w, UpToSample(p, v)
  PROVE  UpToSample(p, w)
<1>1. \A i \in 1 .. Len(p) : p[i] \in Nat
  BY ElementOfSeq
<1> QED BY <1>1 DEF UpToSample

(* The samples of the head up to u are played.                             *)
Given(p, q, u) == p \o [i \in 1 .. u - Head(q).pos |-> Head(q).from + Head(q).pos + i]
GivenUpTo(q, u) == << [Head(q) EXCEPT !.pos = u] >> \o Tail(q)

LEMMA ContinueKeeps ==
  ASSUME NEW q \in Seq(Samples), q # << >>, NEW w \in Nat, Sorted(q, w),
         NEW p \in Seq(Nat), Increasing(p), ComeBefore(p, q),
         NEW u \in Nat, Head(q).pos <= u, u <= Head(q).len,
         NEW e, e = Given(p, q, u), NEW r, r = GivenUpTo(q, u)
  PROVE  /\ r \in Seq(Samples) /\ Sorted(r, w)
         /\ e \in Seq(Nat) /\ Increasing(e) /\ ComeBefore(e, r) /\ UpToSample(e, w)
<1>1. /\ Len(q) \in Nat /\ Len(q) >= 1 /\ Head(q) = q[1] /\ Head(q) \in Samples
      /\ Tail(q) \in Seq(Samples) /\ Len(Tail(q)) = Len(q) - 1
      /\ \A i \in 1 .. Len(q) - 1 : Tail(q)[i] = q[i + 1] /\ q[i + 1] \in Samples
  BY HeadAndTail
<1>2. PICK a, c, n \in Nat : a = Head(q).from /\ c = Head(q).pos /\ n = Head(q).len
  BY <1>1 DEF Samples
<1>3. PICK b : b = [Head(q) EXCEPT !.pos = u]
  OBVIOUS
<1>4. b \in Samples /\ b.from = a /\ b.pos = u /\ b.len = n
  BY <1>1, <1>2, <1>3 DEF Samples
<1>5. << b >> \in Seq(Samples) /\ Len(<< b >>) = 1 /\ << b >>[1] = b
  BY <1>4
<1>6. /\ r \in Seq(Samples) /\ Len(r) = Len(q) /\ r[1] = b
      /\ \A i \in 1 .. Len(q) : i # 1 => r[i] = q[i] /\ q[i] \in Samples
  <2> USE DEF GivenUpTo
  <2>1. r \in Seq(Samples) /\ Len(r) = 1 + (Len(q) - 1)
    BY <1>1, <1>3, <1>5, ConcatProperties
  <2>2. r[1] = b
    BY <1>1, <1>3, <1>5, ConcatProperties
  <2>3. ASSUME NEW i \in 1 .. Len(q), i # 1 PROVE r[i] = q[i] /\ q[i] \in Samples
    <3>1. i - 1 \in 1 .. Len(q) - 1 /\ (i - 1) + 1 = i /\ i > 1 /\ i \in 1 .. 1 + (Len(q) - 1)
      BY <1>1, <2>3
    <3>2. Tail(q)[i - 1] = q[i] /\ q[i] \in Samples
      BY <1>1, <3>1
    <3>3. r[i] = Tail(q)[i - 1]
      BY <1>1, <1>3, <1>5, <3>1, ConcatProperties
    <3> QED BY <3>2, <3>3
  <2> QED BY <1>1, <2>1, <2>2, <2>3
<1>7. 1 \in 1 .. Len(q) /\ a + n <= w /\ \A j \in 1 .. Len(q) : j # 1 => a + n <= q[j].from
  BY <1>1, <1>2 DEF Sorted
<1>8. Sorted(r, w)
  <2>1. \A i \in 1 .. Len(q) : /\ r[i].from = q[i].from /\ r[i].len = q[i].len
                               /\ r[i].pos <= r[i].len
    BY <1>1, <1>2, <1>4, <1>6 DEF Sorted
  <2> QED BY <1>6, <2>1 DEF Sorted
<1>9. PICK m, k \in Nat : m = a + c /\ k = u - c /\ m + k = a + u
  <2>1. c <= u
    BY <1>2
  <2>2. a + c \in Nat /\ u - c \in Nat /\ (a + c) + (u - c) = a + u
    BY <2>1
  <2> QED BY <2>2
<1>9a. u <= n
  BY <1>2
<1>9b. m + k <= a + n
  BY <1>9, <1>9a
<1>10. UpToSample(p, m)
  BY <1>1, <1>2, <1>7, <1>9 DEF ComeBefore
<1>11. e = p \o [i \in 1 .. k |-> m + i]
  BY <1>2, <1>9 DEF Given
<1>12. e \in Seq(Nat) /\ Increasing(e) /\ UpToSample(e, m + k)
  BY <1>10, <1>11, AddedInOrder
<1>13. UpToSample(e, w)
  <2>1. m + k <= w
    BY <1>7, <1>9b
  <2>2. m + k \in Nat
    OBVIOUS
  <2> QED BY <1>12, <2>1, <2>2, UpToLater
<1>14. ASSUME NEW i \in 1 .. Len(r) PROVE UpToSample(e, r[i].from + r[i].pos)
  <2>1. CASE i = 1
    BY <1>4, <1>6, <1>9, <1>12, <2>1
  <2>2. CASE i # 1
    <3>1. PICK f, g \in Nat : f = r[i].from /\ g = r[i].pos
      BY <1>6, <2>2 DEF Samples
    <3>2. a + n <= f
      BY <1>6, <1>7, <2>2, <3>1
    <3>3. m + k <= f + g
      BY <1>9b, <3>2
    <3>4. f + g \in Nat /\ m + k \in Nat
      OBVIOUS
    <3>5. UpToSample(e, f + g)
      BY <1>12, <3>3, <3>4, UpToLater
    <3> QED BY <3>1, <3>5
  <2> QED BY <2>1, <2>2
<1> QED BY <1>6, <1>8, <1>12, <1>13, <1>14 DEF ComeBefore
-----------------------------------------------------------------------------
LEMMA WaveInit == Wave!Init => WaveInv
<1> SUFFICES ASSUME Wave!Init PROVE WaveInv
  OBVIOUS
<1> USE DEF Wave!Init
<1>1. WaveTypes
  <2>1. << >> \in Seq(Samples) /\ << >> \in Seq(Nat)
    BY EmptySeq
  <2>2. 0 \in Nat /\ 0 \in 0 .. 2
    OBVIOUS
  <2> QED BY <2>1, <2>2, Zenon DEF WaveTypes
<1>2. WaveHandInv /\ RateInv
  BY DEF WaveHandInv, RateInv
<1>3. HalfInv
  BY DEF HalfInv
<1>4. Len(queue) = 0 /\ Len(played) = 0
  BY EmptySeq
<1>5. SamplesInv
  BY <1>4 DEF SamplesInv, Sorted, Increasing, UpToSample, ComeBefore
<1> QED BY <1>1, <1>2, <1>3, <1>5 DEF WaveInv

(* What is told apart by the steps that leave the samples alone.           *)
LEMMA SamplesStay ==
  ASSUME SamplesInv, UNCHANGED << queue, written, played >>
  PROVE  SamplesInv'
BY DEF SamplesInv

LEMMA WaveStep ==
  ASSUME WaveNumbers, WaveInv, [Wave!Next]_(Wave!vars)
  PROVE  WaveInv'
<1> USE DEF WaveInv, Wave!Loaded, Wave!codeVars, Wave!lineVars, Wave!mddVars
<1>1. ASSUME NEW n \in FifoSizes, Wave!Initialize(n) PROVE WaveInv'
  <2> USE <1>1 DEF Wave!Initialize
  <2>1. n \in Nat
    BY DEF WaveNumbers
  <2>2. WaveTypes' /\ WaveHandInv' /\ RateInv'
    BY <2>1 DEF WaveTypes, WaveHandInv, RateInv, HalfInv
  <2>3. HalfInv'
    BY <2>1, Halved DEF HalfInv, WaveTypes
  <2> QED BY <2>2, <2>3, SamplesStay
<1>2. ASSUME Wave!Deinitialize PROVE WaveInv'
  <2> USE <1>2 DEF Wave!Deinitialize
  <2>1. WaveTypes'
    <3>1. 0 \in Nat /\ 0 \in 0 .. 2
      OBVIOUS
    <3> QED BY <3>1, Zenon DEF WaveTypes
  <2>2. WaveHandInv' /\ RateInv'
    BY DEF WaveHandInv, RateInv
  <2>3. HalfInv'
    BY DEF HalfInv, WaveTypes
  <2> QED BY <2>1, <2>2, <2>3, SamplesStay
<1>3. ASSUME NEW r \in Rates, Wave!WaveOpen(r) PROVE WaveInv'
  BY <1>3, SamplesStay DEF Wave!WaveOpen, WaveTypes, WaveHandInv, RateInv, HalfInv
<1>4. ASSUME Wave!WaveClose PROVE WaveInv'
  <2> USE <1>4 DEF Wave!WaveClose, Wave!WaveStop
  <2>1. WaveHandInv' /\ RateInv' /\ HalfInv'
    BY DEF WaveHandInv, RateInv, HalfInv
  <2>4. << >> \in Seq(Samples)
    BY EmptySeq
  <2>5. WaveTypes'
    <3>1. play_state' \in 0 .. 2
      BY DEF WaveTypes
    <3> QED BY <2>4, <3>1, Zenon DEF WaveTypes
  <2>2. Len(queue') = 0
    BY EmptySeq
  <2>3. SamplesInv'
    BY <2>2 DEF SamplesInv, Sorted, ComeBefore
  <2> QED BY <2>1, <2>3, <2>5
<1>5. ASSUME NEW n \in Lengths, Wave!Write(n) PROVE WaveInv'
  <2> USE <1>5 DEF Wave!Write, Wave!WaveStart
  <2>1. n \in Nat
    BY DEF WaveNumbers
  <2>2. PICK q, w, p : q = queue /\ w = written /\ p = played
    OBVIOUS
  <2>3. q \in Seq(Samples) /\ w \in Nat /\ p \in Seq(Nat)
        /\ Sorted(q, w) /\ ComeBefore(p, q) /\ UpToSample(p, w) /\ Increasing(p)
    BY <2>2 DEF WaveTypes, SamplesInv
  <2>4. PICK r : r = queue' /\ r = Append(q, [from |-> w, len |-> n, pos |-> 0])
    BY <2>2
  <2>5. r \in Seq(Samples) /\ Sorted(r, w + n) /\ ComeBefore(p, r) /\ UpToSample(p, w + n)
    BY <2>1, <2>3, <2>4, WriteKeeps
  <2>6. written' = w + n /\ played' = p
    BY <2>2
  <2>7. SamplesInv' /\ queue' \in Seq(Samples)
    BY <2>3, <2>4, <2>5, <2>6 DEF SamplesInv
  <2>8. WaveTypes' /\ WaveHandInv' /\ RateInv' /\ HalfInv'
    BY <2>1, <2>7 DEF WaveTypes, WaveHandInv, RateInv, HalfInv
  <2> QED BY <2>7, <2>8
<1>6. ASSUME Wave!Pause \/ Wave!Restart PROVE WaveInv'
  BY <1>6, SamplesStay DEF Wave!Pause, Wave!Restart, Wave!WaveStop, Wave!WaveStart, WaveTypes,
                           WaveHandInv, RateInv, HalfInv
<1>7. ASSUME Wave!Play PROVE WaveInv'
  <2> USE <1>7 DEF Wave!Play
  <2>1. PICK h \in Nat : h = fifo_size \div 2
    BY Halved DEF WaveTypes
  <2>2. WaveTypes' /\ WaveHandInv' /\ RateInv'
    BY DEF WaveTypes, WaveHandInv, RateInv
  <2>3. HalfInv'
    BY <2>1 DEF HalfInv, WaveTypes
  <2> QED BY <2>2, <2>3, SamplesStay
<1>8. ASSUME Wave!Interrupt PROVE WaveInv'
  <2> USE <1>8 DEF Wave!Interrupt
  <2>1. fifo <= fifo_size \div 2
    BY Halved DEF WaveTypes
  <2>2. WaveTypes' /\ WaveHandInv' /\ RateInv' /\ HalfInv'
    BY <2>1 DEF WaveTypes, WaveHandInv, RateInv, HalfInv
  <2> QED BY <2>2, SamplesStay
<1>9. ASSUME Wave!GetInterruptType PROVE WaveInv'
  <2> USE <1>9 DEF Wave!GetInterruptType
  <2>1. WaveTypes' /\ WaveHandInv' /\ RateInv'
    BY DEF WaveTypes, WaveHandInv, RateInv
  <2>2. HalfInv'
    BY DEF WaveTypes, HalfInv
  <2> QED BY <2>1, <2>2, SamplesStay
<1>10. ASSUME Wave!WaveContinue PROVE WaveInv'
  <2>1. PICK q, w, p, h : q = Wave!Rest /\ w = written /\ p = played /\ h = fifo_size \div 2
    OBVIOUS
  <2>2. /\ q \in Seq(Samples) /\ w \in Nat /\ p \in Seq(Nat)
        /\ Sorted(q, w) /\ ComeBefore(p, q) /\ Increasing(p)
    <3>1. CASE q = queue
      BY <2>1, <3>1 DEF WaveTypes, SamplesInv
    <3>2. CASE queue # << >> /\ q = Tail(queue)
      <4>1. queue \in Seq(Samples) /\ w \in Nat /\ p \in Seq(Nat) /\ Increasing(p)
            /\ Sorted(queue, w) /\ ComeBefore(p, queue)
        BY <2>1 DEF WaveTypes, SamplesInv
      <4>2. PICK s : s = queue
        OBVIOUS
      <4>3. Tail(s) \in Seq(Samples)
        BY <3>2, <4>1, <4>2, HeadAndTail
      <4>4. Sorted(Tail(s), w) /\ ComeBefore(p, Tail(s))
        BY <3>2, <4>1, <4>2, TailKeeps
      <4> QED BY <3>2, <4>1, <4>2, <4>3, <4>4
    <3> QED BY <2>1, <3>1, <3>2 DEF Wave!Rest
  <2>3. q # << >> /\ Head(q) \in Samples /\ Len(q) \in Nat /\ 1 \in 1 .. Len(q) /\ Head(q) = q[1]
    BY <1>10, <2>1, <2>2, HeadAndTail DEF Wave!WaveContinue
  <2>4. PICK f, c, n \in Nat : f = Head(q).from /\ c = Head(q).pos /\ n = Head(q).len
    BY <2>3 DEF Samples
  <2>5. c <= n
    BY <2>2, <2>3, <2>4 DEF Sorted
  <2>6. h \in Nat /\ h + h <= fifo_size /\ fifo_size \in Nat /\ fifo \in Nat /\ fifo <= h
    BY <1>10, <2>1, Halved DEF WaveTypes, HalfInv, Wave!WaveContinue
  <2>7. PICK u \in Nat : u = Wave!UpTo(Head(q)) /\ c <= u /\ u <= n /\ u - c <= h
    <3>1. Wave!UpTo(Head(q)) = IF n - c > h THEN c + h ELSE n
      BY <2>1, <2>4 DEF Wave!UpTo
    <3>2. CASE n - c > h
      BY <2>4, <2>5, <2>6, <3>1, <3>2
    <3>3. CASE ~(n - c > h)
      BY <2>4, <2>5, <2>6, <3>1, <3>3
    <3> QED BY <3>2, <3>3
  <2>8. PICK e, r : e = played' /\ r = queue'
    OBVIOUS
  <2>9. e = Given(p, q, u) /\ r = GivenUpTo(q, u) /\ fifo' = fifo + u - c
    BY <1>10, <2>1, <2>4, <2>7, <2>8 DEF Wave!WaveContinue, Given, GivenUpTo
  <2>10. Head(q).pos <= u /\ u <= Head(q).len
    BY <2>4, <2>7
  <2>11. /\ r \in Seq(Samples) /\ Sorted(r, w)
         /\ e \in Seq(Nat) /\ Increasing(e) /\ ComeBefore(e, r) /\ UpToSample(e, w)
    BY <2>2, <2>3, <2>9, <2>10, ContinueKeeps
  <2>12. written' = w
    BY <1>10, <2>1 DEF Wave!WaveContinue
  <2>13. SamplesInv'
    BY <2>8, <2>11, <2>12 DEF SamplesInv
  <2>14. fifo' \in Nat /\ fifo' <= fifo_size
    <3>1. u - c \in Nat /\ fifo + (u - c) = fifo + u - c
      BY <2>6, <2>7
    <3>2. fifo + (u - c) \in Nat /\ fifo + (u - c) <= h + h
      BY <2>6, <2>7, <3>1
    <3>3. fifo' = fifo + (u - c)
      BY <2>9, <3>1
    <3> QED BY <2>6, <3>2, <3>3
  <2>15. queue' \in Seq(Samples) /\ played' \in Seq(Nat)
    BY <2>8, <2>11
  <2>16. WaveTypes'
    BY <1>10, <2>14, <2>15 DEF WaveTypes, Wave!WaveContinue
  <2>17. HalfInv'
    BY <1>10, <2>14 DEF HalfInv, WaveHandInv, Wave!WaveContinue
  <2>18. WaveHandInv' /\ RateInv'
    BY <1>10 DEF WaveHandInv, RateInv, Wave!WaveContinue
  <2> QED BY <2>13, <2>16, <2>17, <2>18
<1>11. ASSUME Wave!WaveEndOfData PROVE WaveInv'
  <2> USE <1>11 DEF Wave!WaveEndOfData
  <2>1. WaveHandInv' /\ RateInv' /\ HalfInv'
    BY DEF WaveHandInv, RateInv, HalfInv
  <2>4. << >> \in Seq(Samples)
    BY EmptySeq
  <2>5. WaveTypes'
    <3>1. play_state' \in 0 .. 2
      BY DEF WaveTypes
    <3> QED BY <2>4, <3>1, Zenon DEF WaveTypes
  <2>2. Len(queue') = 0
    BY EmptySeq
  <2>3. SamplesInv'
    BY <2>2 DEF SamplesInv, Sorted, ComeBefore
  <2> QED BY <2>1, <2>3, <2>5
<1>12. ASSUME Wave!WaveStandby PROVE WaveInv'
  BY <1>12, SamplesStay DEF Wave!WaveStandby, WaveTypes, WaveHandInv, RateInv, HalfInv
<1>13. ASSUME Wave!InterruptDone PROVE WaveInv'
  BY <1>13, SamplesStay DEF Wave!InterruptDone, WaveTypes, WaveHandInv, RateInv, HalfInv
<1>14. ASSUME UNCHANGED Wave!vars PROVE WaveInv'
  BY <1>14, SamplesStay DEF Wave!vars, WaveTypes, WaveHandInv, RateInv, HalfInv
<1> QED BY <1>1, <1>2, <1>3, <1>4, <1>5, <1>6, <1>7, <1>8, <1>9, <1>10, <1>11, <1>12, <1>13, <1>14
        DEF Wave!Next, Wave!IstStep

(* Half of the FIFO is free at every transfer, so it is never filled       *)
(* beyond its size; the samples played are those of the buffers in order,  *)
(* once each; and the codec runs at the opener's rate, for any sizes of    *)
(* the FIFO and of the buffers (pl041.cpp:113-131, 186-271).               *)
THEOREM PlayIsSound == ASSUME WaveNumbers PROVE Wave!Spec => []PlaySound
<1>1. WaveInv /\ [Wave!Next]_(Wave!vars) => WaveInv'
  BY WaveStep
<1>2. WaveInv => PlaySound
  BY DEF WaveInv, HalfInv, RateInv, SamplesInv, Increasing, PlaySound, Wave!PlaySound,
         Wave!FifoFits, Wave!SamplesInOrder, Wave!RateIsOpeners
<1> QED BY WaveInit, <1>1, <1>2, PTL DEF Wave!Spec
-----------------------------------------------------------------------------
(***************************************************************************)
(* Smsc9118Mac.  The list of what the ISR, and a handler, has to do is a   *)
(* path: no operation stands in it where it might not, and each that needs *)
(* a later one is followed by it.  From that, and from how the flags stand *)
(* to the lists, it follows what is left to do to set the receiver.        *)
(***************************************************************************)
(* The links are those there are.                                          *)
MacLinks == Links \subseteq Mac!AllLinks

Has(s, x) == \E i \in 1 .. Len(s) : s[i] = x

IsrOps == {"workaround", "check", "phy", "rxstop", "discard", "discarded", "overrun", "sw", "leave"}
MacWrites == {"off", "filter", "on", "filter_on"}
Asks   == {"clearstop", "stopint", "f100", "swint", "pend", "read", "off"}
Ops    == IsrOps \cup Asks \cup MacWrites
             \cup {"hash", "disable", "waitstop", "phy_done", "sw_done", "complete_sw",
                   "complete_stop", "over_done"}

(* Of the lists of the ISR and of a handler: whether b may come somewhere  *)
(* after a, and next to it; what has to come after some operations.        *)
IsrFits(a, b) == a # "leave" /\ b # "workaround" /\ ~(a = "rxstop" /\ b = "rxstop")
DpcFits(a, b) ==
  /\ a \in {"phy", "phy_done"} => b \in {"sw", "rxstop", "overrun"}
  /\ a \in {"sw", "complete_sw"} => b \in {"rxstop", "overrun"}
  /\ a = "sw_done" => b \in {"complete_sw", "rxstop", "overrun"}
  /\ a \in {"rxstop", "complete_stop"} => b = "overrun"
  /\ a \notin {"overrun", "over_done", "pend"}
  /\ a \in {"f100", "swint"} => b \in {"swint", "pend"}
  /\ a = "stopint" => b \in {"read", "off", "pend"}
  /\ a \in {"off", "disable"} => b # "off"
  /\ b \notin {"phy", "phy_done", "complete_stop", "f100"}
  /\ b = "sw" => a \in {"phy", "phy_done"}
  /\ b = "stopint" => a = "clearstop"
  /\ b = "swint" => a = "f100"
  /\ b = "pend" => a \in Asks
Fits(k, a, b) == (k = "isr" => IsrFits(a, b)) /\ (k = "dpc" => DpcFits(a, b))

DpcMeets(a, b) ==
  /\ b \in MacWrites => a \in {"read", "off"}
  /\ b = "clearstop" => a = "waitstop"
Meets(k, a, b) == /\ k = "isr" => (a = "discard" <=> b = "discarded")
                  /\ k = "dpc" => DpcMeets(a, b)

DpcLeads(a, b) ==
  /\ a = "off" => b \in {"on", "filter_on", "pend"}
  /\ a = "disable" => b = "on"
  /\ a \in {"stopint", "f100"} => b = "pend"
  /\ a = "sw_done" => b = "complete_sw"
Leads(k, a, b) == (k = "isr" => b = "leave") /\ (k = "dpc" => DpcLeads(a, b))
Ended(k, a) == /\ k = "isr" => a = "leave"
               /\ k = "dpc" => a \notin {"off", "disable", "stopint", "f100", "sw_done"}

(* What has to come may come after the list, if it is in R.                *)
Later(k, s, i) == \E j \in 1 .. Len(s) : i < j /\ Leads(k, s[i], s[j])
Open(k, s, R) ==
  /\ s \in Seq(Ops)
  /\ \A i \in 1 .. Len(s), j \in 1 .. Len(s) : i < j => Fits(k, s[i], s[j])
  /\ \A i \in 1 .. Len(s) : i + 1 \in 1 .. Len(s) => Meets(k, s[i], s[i + 1])
  /\ \A i \in 1 .. Len(s) : Ended(k, s[i]) \/ Later(k, s, i) \/ \E x \in R : Leads(k, s[i], x)
Path(k, s) == Open(k, s, {})
-----------------------------------------------------------------------------
LEMMA Taken ==
  ASSUME NEW S, NEW s \in Seq(S), s # << >>
  PROVE  /\ Len(s) \in Nat /\ Len(s) >= 1 /\ Head(s) = s[1] /\ Head(s) \in S
         /\ Tail(s) \in Seq(S) /\ Len(Tail(s)) = Len(s) - 1
         /\ \A i \in 1 .. Len(Tail(s)) : Tail(s)[i] = s[i + 1] /\ i + 1 \in 1 .. Len(s)
<1>1. Len(s) \in Nat /\ \A i \in 1 .. Len(s) : s[i] \in S
  BY ElementOfSeq, LenProperties
<1> QED BY <1>1, HeadTailProperties, EmptySeq

LEMMA HasTaken ==
  ASSUME NEW S, NEW s \in Seq(S), s # << >>
  PROVE  \A x : Has(s, x) <=> x = Head(s) \/ Has(Tail(s), x)
<1>1. /\ Len(s) \in Nat /\ Len(s) >= 1 /\ Head(s) = s[1] /\ Len(Tail(s)) = Len(s) - 1
      /\ \A i \in 1 .. Len(Tail(s)) : Tail(s)[i] = s[i + 1] /\ i + 1 \in 1 .. Len(s)
  BY Taken
<1>2. \A i \in 1 .. Len(s) : i = 1 \/ (i - 1 \in 1 .. Len(Tail(s)) /\ Tail(s)[i - 1] = s[i])
  BY <1>1
<1> QED BY <1>1, <1>2 DEF Has

LEMMA HasNone == Len(<< >>) = 0 /\ \A x : ~Has(<< >>, x)
BY DEF Has

(* A path without its first operation.                                     *)
LEMMA PathTaken ==
  ASSUME NEW k, NEW s, Path(k, s), s # << >>
  PROVE  /\ Path(k, Tail(s)) /\ Head(s) \in Ops /\ Head(s) = s[1]
         /\ \A x : Has(s, x) <=> x = Head(s) \/ Has(Tail(s), x)
         /\ \A x : Has(Tail(s), x) => Fits(k, Head(s), x)
         /\ Tail(s) # << >> => Meets(k, Head(s), Tail(s)[1])
         /\ Ended(k, Head(s)) \/ \E x : Leads(k, Head(s), x) /\ Has(Tail(s), x)
<1> DEFINE t == Tail(s)
<1>1. /\ Len(s) \in Nat /\ Len(s) >= 1 /\ Head(s) = s[1] /\ Head(s) \in Ops
      /\ t \in Seq(Ops) /\ Len(t) = Len(s) - 1
      /\ \A i \in 1 .. Len(t) : t[i] = s[i + 1] /\ i + 1 \in 1 .. Len(s)
  BY Taken DEF Path, Open
<1>2. \A x : Has(s, x) <=> x = Head(s) \/ Has(t, x)
  BY HasTaken DEF Path, Open
<1>3. \A i \in 1 .. Len(s) : i > 1 => i - 1 \in 1 .. Len(t) /\ t[i - 1] = s[i]
  BY <1>1
<1> HIDE DEF t
<1>4. 1 \in 1 .. Len(s) /\ \A i \in 1 .. Len(t) : 1 < i + 1
  BY <1>1
<1>5. \A x : Has(t, x) => Fits(k, Head(s), x)
  BY <1>1, <1>4 DEF Has, Path, Open
<1>6. t # << >> => Meets(k, Head(s), t[1])
  <2>1. t # << >> => 1 \in 1 .. Len(t) /\ Len(t) \in Nat
    BY <1>1, EmptySeq
  <2> QED BY <1>1, <1>4, <2>1 DEF Path, Open
<1>7. Ended(k, Head(s)) \/ \E x : Leads(k, Head(s), x) /\ Has(t, x)
  BY <1>1, <1>3, <1>4 DEF Path, Open, Later, Has
<1>8. \A i, j \in 1 .. Len(t) : i < j => i + 1 < j + 1
  BY <1>1
<1>9. Path(k, t)
  <2>1. \A i \in 1 .. Len(t), j \in 1 .. Len(t) : i < j => Fits(k, t[i], t[j])
    BY <1>1, <1>8 DEF Path, Open
  <2>2. \A i \in 1 .. Len(t) : i + 1 \in 1 .. Len(t) => Meets(k, t[i], t[i + 1])
    <3>1. \A i \in 1 .. Len(s) : i + 1 \in 1 .. Len(s) => Meets(k, s[i], s[i + 1])
      BY DEF Path, Open
    <3> QED BY <1>1, <3>1
  <2>3. \A i \in 1 .. Len(t) : Ended(k, t[i]) \/ Later(k, t, i)
    <3>1. SUFFICES ASSUME NEW i \in 1 .. Len(t), ~Ended(k, t[i]) PROVE Later(k, t, i)
      OBVIOUS
    <3>2. PICK j \in 1 .. Len(s) : i + 1 < j /\ Leads(k, s[i + 1], s[j])
      BY <1>1, <3>1 DEF Path, Open, Later
    <3>3. j - 1 \in 1 .. Len(t) /\ i < j - 1 /\ t[j - 1] = s[j]
      BY <1>1, <1>3, <3>2
    <3> QED BY <1>1, <3>2, <3>3 DEF Later
  <2> QED BY <1>1, <2>1, <2>2, <2>3 DEF Path, Open
<1> QED BY <1>1, <1>2, <1>5, <1>6, <1>7, <1>9 DEF t


(* A list of operations before others.                                     *)
LEMMA OpenJoined ==
  ASSUME NEW k, NEW e, NEW R, Open(k, e, R), e # << >>, NEW t, NEW Q, Open(k, t, Q),
         t # << >> => Meets(k, e[Len(e)], t[1]),
         \A x, y : Has(e, x) /\ Has(t, y) => Fits(k, x, y), \A x \in R : Has(t, x) \/ x \in Q
  PROVE  /\ Open(k, e \o t, Q) /\ e \o t # << >> /\ (e \o t)[1] = e[1]
         /\ \A x : Has(e \o t, x) <=> Has(e, x) \/ Has(t, x)
<1> DEFINE s == e \o t
           n == Len(e)
           m == Len(t)
<1>1. /\ s \in Seq(Ops) /\ n \in Nat /\ n >= 1 /\ m \in Nat /\ Len(s) = n + m
      /\ \A i \in 1 .. n : s[i] = e[i] /\ i \in 1 .. Len(s)
      /\ \A i \in 1 .. m : s[n + i] = t[i] /\ n + i \in 1 .. Len(s)
  <2>1. e \in Seq(Ops) /\ t \in Seq(Ops)
    BY DEF Open
  <2>2. n \in Nat /\ n >= 1 /\ m \in Nat
    BY <2>1, Taken, LenProperties
  <2>3. s \in Seq(Ops) /\ Len(s) = n + m /\ \A i \in 1 .. n + m : s[i] = IF i <= n THEN e[i] ELSE t[i - n]
    BY <2>1, ConcatProperties
  <2>4. \A i \in 1 .. m : n + i \in 1 .. n + m /\ ~(n + i <= n) /\ n + i - n = i
    BY <2>2
  <2> HIDE DEF s, n, m
  <2> QED BY <2>2, <2>3, <2>4
<1>2. \A i \in 1 .. Len(s) : \/ i \in 1 .. n
                             \/ i > n /\ i - n \in 1 .. m /\ s[i] = t[i - n]
  <2>1. SUFFICES ASSUME NEW i \in 1 .. Len(s), i \notin 1 .. n
                 PROVE i > n /\ i - n \in 1 .. m /\ n + (i - n) = i
    BY <1>1
  <2> QED BY <1>1, <2>1
<1>3. \A i \in 1 .. n : Has(e, e[i])
  BY DEF Has
<1>4. \A i \in 1 .. m : Has(t, t[i])
  BY DEF Has
<1>5. s # << >> /\ s[1] = e[1]
  BY <1>1, HasNone
<1> HIDE DEF s, n, m
<1>6. \A x : Has(s, x) <=> Has(e, x) \/ Has(t, x)
  <2>1. \A x : Has(s, x) => Has(e, x) \/ Has(t, x)
    BY <1>1, <1>2 DEF Has, n, m
  <2>2. \A x : Has(e, x) => Has(s, x)
    BY <1>1 DEF Has, n
  <2>3. \A x : Has(t, x) => Has(s, x)
    BY <1>1 DEF Has, m
  <2> QED BY <2>1, <2>2, <2>3
<1>7. \A i \in 1 .. Len(s), j \in 1 .. Len(s) : i < j => Fits(k, s[i], s[j])
  <2>1. SUFFICES ASSUME NEW i \in 1 .. Len(s), NEW j \in 1 .. Len(s), i < j PROVE Fits(k, s[i], s[j])
    OBVIOUS
  <2>2. CASE j \in 1 .. n
    <3>1. i \in 1 .. n
      BY <1>1, <2>1, <2>2
    <3> QED BY <1>1, <2>1, <2>2, <3>1 DEF Open, n
  <2>3. CASE i \in 1 .. n /\ j \notin 1 .. n
    BY <1>1, <1>2, <1>3, <1>4, <2>3
  <2>4. CASE i \notin 1 .. n /\ j \notin 1 .. n
    <3>1. i - n \in 1 .. m /\ j - n \in 1 .. m /\ s[i] = t[i - n] /\ s[j] = t[j - n]
      BY <1>2, <2>4
    <3>2. i - n < j - n
      BY <1>1, <2>1
    <3> QED BY <3>1, <3>2 DEF Open, m
  <2>5. i \in 1 .. n \/ j \notin 1 .. n
    BY <1>1, <2>1
  <2> QED BY <2>2, <2>3, <2>4, <2>5
<1>8. \A i \in 1 .. Len(s) : i + 1 \in 1 .. Len(s) => Meets(k, s[i], s[i + 1])
  <2>1. SUFFICES ASSUME NEW i \in 1 .. Len(s), i + 1 \in 1 .. Len(s) PROVE Meets(k, s[i], s[i + 1])
    OBVIOUS
  <2>2. CASE i + 1 \in 1 .. n
    <3>1. i \in 1 .. n
      BY <1>1, <2>1, <2>2
    <3> QED BY <1>1, <2>2, <3>1 DEF Open, n
  <2>3. CASE i = n
    <3>1. i + 1 - n = 1 /\ 1 \in 1 .. m /\ s[i + 1] = t[1]
      BY <1>1, <1>2, <2>1, <2>3
    <3>2. t # << >>
      BY <1>1, <3>1, HasNone DEF m
    <3> QED BY <1>1, <2>3, <3>1, <3>2 DEF n
  <2>4. CASE i \notin 1 .. n
    <3>1. i - n \in 1 .. m /\ s[i] = t[i - n] /\ i > n
      BY <1>2, <2>4
    <3>2. i + 1 - n \in 1 .. m /\ s[i + 1] = t[i + 1 - n] /\ i + 1 - n = (i - n) + 1
      BY <1>1, <1>2, <2>1, <3>1
    <3> QED BY <3>1, <3>2 DEF Open, m
  <2>5. i + 1 \in 1 .. n \/ i = n \/ i \notin 1 .. n
    BY <1>1
  <2> QED BY <2>2, <2>3, <2>4, <2>5
<1>9. \A i \in 1 .. Len(s) : Ended(k, s[i]) \/ Later(k, s, i) \/ \E x \in Q : Leads(k, s[i], x)
  <2>1. SUFFICES ASSUME NEW i \in 1 .. Len(s), ~Ended(k, s[i]), ~\E x \in Q : Leads(k, s[i], x)
                 PROVE  Later(k, s, i)
    OBVIOUS
  <2>2. CASE i \in 1 .. n
    <3>1. s[i] = e[i]
      BY <1>1, <2>2
    <3>2. Later(k, e, i) \/ \E x \in R : Leads(k, e[i], x)
      BY <2>1, <2>2, <3>1 DEF Open, n
    <3>3. CASE Later(k, e, i)
      <4>1. PICK j \in 1 .. n : i < j /\ Leads(k, e[i], e[j])
        BY <3>3 DEF Later, n
      <4> QED BY <1>1, <3>1, <4>1 DEF Later
    <3>4. CASE \E x \in R : Leads(k, e[i], x)
      <4>1. PICK j \in 1 .. m : Leads(k, e[i], t[j])
        BY <2>1, <3>1, <3>4 DEF Has, m
      <4>2. n + j \in 1 .. Len(s) /\ s[n + j] = t[j] /\ i < n + j
        BY <1>1, <2>2
      <4> QED BY <3>1, <4>1, <4>2 DEF Later
    <3> QED BY <3>2, <3>3, <3>4
  <2>3. CASE i \notin 1 .. n
    <3>1. i - n \in 1 .. m /\ s[i] = t[i - n]
      BY <1>2, <2>3
    <3>2. PICK j \in 1 .. m : i - n < j /\ Leads(k, t[i - n], t[j])
      BY <2>1, <3>1 DEF Open, Later, m
    <3>3. n + j \in 1 .. Len(s) /\ s[n + j] = t[j] /\ i < n + j
      BY <1>1, <3>2
    <3> QED BY <3>1, <3>2, <3>3 DEF Later
  <2> QED BY <2>2, <2>3
<1> QED BY <1>1, <1>5, <1>6, <1>7, <1>8, <1>9 DEF Open, s
-----------------------------------------------------------------------------

(* A list that begins with a, ends with z and has the operations S.        *)
List(k, s, a, z, S, R) ==
  Open(k, s, R) /\ s # << >> /\ s[1] = a /\ s[Len(s)] = z /\ \A x : Has(s, x) <=> x \in S

LEMMA Single ==
  ASSUME NEW k, NEW a \in Ops, NEW R, Ended(k, a) \/ \E x \in R : Leads(k, a, x)
  PROVE  List(k, << a >>, a, a, {a}, R)
<1> DEFINE e == << a >>
<1>1. e \in Seq(Ops) /\ Len(e) = 1 /\ e[1] = a
  OBVIOUS
<1>2. \A i \in 1 .. 1 : i = 1 /\ i + 1 \notin 1 .. 1
  OBVIOUS
<1> HIDE DEF e
<1>3. \A x : Has(e, x) <=> x \in {a}
  BY <1>1, <1>2 DEF Has
<1> QED BY <1>1, <1>2, <1>3, HasNone DEF List, Open, e

LEMMA ListJoined ==
  ASSUME NEW k, NEW e, NEW a, NEW y, NEW S, NEW R, List(k, e, a, y, S, R),
         NEW t, NEW b, NEW z, NEW T, NEW Q, List(k, t, b, z, T, Q),
         Meets(k, y, b), \A x \in S, w \in T : Fits(k, x, w), R \subseteq T \cup Q
  PROVE  List(k, e \o t, a, z, S \cup T, Q)
<1>1. /\ Open(k, e, R) /\ e # << >> /\ e[1] = a /\ e[Len(e)] = y /\ Open(k, t, Q) /\ t # << >> /\ t[1] = b
      /\ \A x : (Has(e, x) <=> x \in S) /\ (Has(t, x) <=> x \in T)
  BY DEF List
<1>2. /\ Open(k, e \o t, Q) /\ e \o t # << >> /\ (e \o t)[1] = a
      /\ \A x : Has(e \o t, x) <=> Has(e, x) \/ Has(t, x)
  <2>1. Meets(k, e[Len(e)], t[1])
    BY <1>1
  <2>2. \A x, w : Has(e, x) /\ Has(t, w) => Fits(k, x, w)
    BY <1>1
  <2>3. \A x \in R : Has(t, x) \/ x \in Q
    BY <1>1
  <2> QED BY <1>1, <2>1, <2>2, <2>3, OpenJoined
<1>3. (e \o t)[Len(e \o t)] = z
  <2>1. e \in Seq(Ops) /\ t \in Seq(Ops)
    BY <1>1 DEF Open
  <2>2. Len(e) \in Nat /\ Len(e) >= 1 /\ Len(t) \in Nat /\ Len(t) >= 1
    BY <1>1, <2>1, Taken
  <2>3. Len(e \o t) = Len(e) + Len(t) /\ (e \o t)[Len(e) + Len(t)] = t[Len(t)]
    BY <2>1, <2>2, ConcatProperties
  <2> QED BY <2>3 DEF List
<1> QED BY <1>1, <1>2, <1>3 DEF List

LEMMA MacFilterSet ==
  List("dpc", << "read", "filter" >>, "read", "filter",
       {"read", "filter"}, {"on"})
<1> DEFINE e == << "read", "filter" >>
<1>1. /\ e \in Seq(Ops) /\ Len(e) = 2
      /\ e[1] = "read" /\ e[2] = "filter"
  BY DEF Ops, IsrOps, Asks, MacWrites
<1>2. \A i \in 1 .. 2 : i = 1 \/ i = 2
  OBVIOUS
<1> HIDE DEF e
<1>3. \A i \in 1 .. 2, j \in 1 .. 2 : i < j => Fits("dpc", e[i], e[j])
  BY <1>1, <1>2 DEF Fits, DpcFits, Asks
<1>4. \A i \in 1 .. 2 : i + 1 \in 1 .. 2 => Meets("dpc", e[i], e[i + 1])
  BY <1>1, <1>2 DEF Meets, DpcMeets, MacWrites
<1>5. \A i \in 1 .. 2 : \/ Ended("dpc", e[i]) \/ \E j \in 1 .. 2 : i < j /\ Leads("dpc", e[i], e[j])
                      \/ \E x \in {"on"} : Leads("dpc", e[i], x)
  BY <1>1, <1>2 DEF Ended, Leads, DpcLeads
<1>6. \A x : Has(e, x) <=> x \in {"read", "filter"}
  BY <1>1, <1>2 DEF Has
<1> QED BY <1>1, <1>3, <1>4, <1>5, <1>6, HasNone DEF List, Open, Later, e

LEMMA MacRxEnabled ==
  List("dpc", << "read", "on" >>, "read", "on",
       {"read", "on"}, {})
<1> DEFINE e == << "read", "on" >>
<1>1. /\ e \in Seq(Ops) /\ Len(e) = 2
      /\ e[1] = "read" /\ e[2] = "on"
  BY DEF Ops, IsrOps, Asks, MacWrites
<1>2. \A i \in 1 .. 2 : i = 1 \/ i = 2
  OBVIOUS
<1> HIDE DEF e
<1>3. \A i \in 1 .. 2, j \in 1 .. 2 : i < j => Fits("dpc", e[i], e[j])
  BY <1>1, <1>2 DEF Fits, DpcFits, Asks
<1>4. \A i \in 1 .. 2 : i + 1 \in 1 .. 2 => Meets("dpc", e[i], e[i + 1])
  BY <1>1, <1>2 DEF Meets, DpcMeets, MacWrites
<1>5. \A i \in 1 .. 2 : \/ Ended("dpc", e[i]) \/ \E j \in 1 .. 2 : i < j /\ Leads("dpc", e[i], e[j])
                      \/ \E x \in {} : Leads("dpc", e[i], x)
  BY <1>1, <1>2 DEF Ended, Leads, DpcLeads
<1>6. \A x : Has(e, x) <=> x \in {"read", "on"}
  BY <1>1, <1>2 DEF Has
<1> QED BY <1>1, <1>3, <1>4, <1>5, <1>6, HasNone DEF List, Open, Later, e

LEMMA StoppedHashed ==
  List("dpc", << "disable", "hash" >>, "disable", "hash",
       {"disable", "hash"}, {"on"})
<1> DEFINE e == << "disable", "hash" >>
<1>1. /\ e \in Seq(Ops) /\ Len(e) = 2
      /\ e[1] = "disable" /\ e[2] = "hash"
  BY DEF Ops, IsrOps, Asks, MacWrites
<1>2. \A i \in 1 .. 2 : i = 1 \/ i = 2
  OBVIOUS
<1> HIDE DEF e
<1>3. \A i \in 1 .. 2, j \in 1 .. 2 : i < j => Fits("dpc", e[i], e[j])
  BY <1>1, <1>2 DEF Fits, DpcFits, Asks
<1>4. \A i \in 1 .. 2 : i + 1 \in 1 .. 2 => Meets("dpc", e[i], e[i + 1])
  BY <1>1, <1>2 DEF Meets, DpcMeets, MacWrites
<1>5. \A i \in 1 .. 2 : \/ Ended("dpc", e[i]) \/ \E j \in 1 .. 2 : i < j /\ Leads("dpc", e[i], e[j])
                      \/ \E x \in {"on"} : Leads("dpc", e[i], x)
  BY <1>1, <1>2 DEF Ended, Leads, DpcLeads
<1>6. \A x : Has(e, x) <=> x \in {"disable", "hash"}
  BY <1>1, <1>2 DEF Has
<1> QED BY <1>1, <1>3, <1>4, <1>5, <1>6, HasNone DEF List, Open, Later, e

LEMMA StopAwaited ==
  List("dpc", << "clearstop", "stopint", "read", "off", "pend" >>, "clearstop", "pend",
       {"clearstop", "stopint", "read", "off", "pend"}, {})
<1> DEFINE e == << "clearstop", "stopint", "read", "off", "pend" >>
<1>1. /\ e \in Seq(Ops) /\ Len(e) = 5
      /\ e[1] = "clearstop" /\ e[2] = "stopint" /\ e[3] = "read" /\ e[4] = "off" /\ e[5] = "pend"
  BY DEF Ops, IsrOps, Asks, MacWrites
<1>2. \A i \in 1 .. 5 : i = 1 \/ i = 2 \/ i = 3 \/ i = 4 \/ i = 5
  OBVIOUS
<1> HIDE DEF e
<1>3. \A i \in 1 .. 5, j \in 1 .. 5 : i < j => Fits("dpc", e[i], e[j])
  BY <1>1, <1>2 DEF Fits, DpcFits, Asks
<1>4. \A i \in 1 .. 5 : i + 1 \in 1 .. 5 => Meets("dpc", e[i], e[i + 1])
  BY <1>1, <1>2 DEF Meets, DpcMeets, MacWrites
<1>5. \A i \in 1 .. 5 : \/ Ended("dpc", e[i]) \/ \E j \in 1 .. 5 : i < j /\ Leads("dpc", e[i], e[j])
                      \/ \E x \in {} : Leads("dpc", e[i], x)
  BY <1>1, <1>2 DEF Ended, Leads, DpcLeads
<1>6. \A x : Has(e, x) <=> x \in {"clearstop", "stopint", "read", "off", "pend"}
  BY <1>1, <1>2 DEF Has
<1> QED BY <1>1, <1>3, <1>4, <1>5, <1>6, HasNone DEF List, Open, Later, e

LEMMA SwIntAwaited ==
  List("dpc", << "f100", "swint", "pend" >>, "f100", "pend",
       {"f100", "swint", "pend"}, {})
<1> DEFINE e == << "f100", "swint", "pend" >>
<1>1. /\ e \in Seq(Ops) /\ Len(e) = 3
      /\ e[1] = "f100" /\ e[2] = "swint" /\ e[3] = "pend"
  BY DEF Ops, IsrOps, Asks, MacWrites
<1>2. \A i \in 1 .. 3 : i = 1 \/ i = 2 \/ i = 3
  OBVIOUS
<1> HIDE DEF e
<1>3. \A i \in 1 .. 3, j \in 1 .. 3 : i < j => Fits("dpc", e[i], e[j])
  BY <1>1, <1>2 DEF Fits, DpcFits, Asks
<1>4. \A i \in 1 .. 3 : i + 1 \in 1 .. 3 => Meets("dpc", e[i], e[i + 1])
  BY <1>1, <1>2 DEF Meets, DpcMeets, MacWrites
<1>5. \A i \in 1 .. 3 : \/ Ended("dpc", e[i]) \/ \E j \in 1 .. 3 : i < j /\ Leads("dpc", e[i], e[j])
                      \/ \E x \in {} : Leads("dpc", e[i], x)
  BY <1>1, <1>2 DEF Ended, Leads, DpcLeads
<1>6. \A x : Has(e, x) <=> x \in {"f100", "swint", "pend"}
  BY <1>1, <1>2 DEF Has
<1> QED BY <1>1, <1>3, <1>4, <1>5, <1>6, HasNone DEF List, Open, Later, e

LEMMA FilterSetAtOnce ==
  List("dpc", << "read", "off", "filter_on" >>, "read", "filter_on",
       {"read", "off", "filter_on"}, {})
<1> DEFINE e == << "read", "off", "filter_on" >>
<1>1. /\ e \in Seq(Ops) /\ Len(e) = 3
      /\ e[1] = "read" /\ e[2] = "off" /\ e[3] = "filter_on"
  BY DEF Ops, IsrOps, Asks, MacWrites
<1>2. \A i \in 1 .. 3 : i = 1 \/ i = 2 \/ i = 3
  OBVIOUS
<1> HIDE DEF e
<1>3. \A i \in 1 .. 3, j \in 1 .. 3 : i < j => Fits("dpc", e[i], e[j])
  BY <1>1, <1>2 DEF Fits, DpcFits, Asks
<1>4. \A i \in 1 .. 3 : i + 1 \in 1 .. 3 => Meets("dpc", e[i], e[i + 1])
  BY <1>1, <1>2 DEF Meets, DpcMeets, MacWrites
<1>5. \A i \in 1 .. 3 : \/ Ended("dpc", e[i]) \/ \E j \in 1 .. 3 : i < j /\ Leads("dpc", e[i], e[j])
                      \/ \E x \in {} : Leads("dpc", e[i], x)
  BY <1>1, <1>2 DEF Ended, Leads, DpcLeads
<1>6. \A x : Has(e, x) <=> x \in {"read", "off", "filter_on"}
  BY <1>1, <1>2 DEF Has
<1> QED BY <1>1, <1>3, <1>4, <1>5, <1>6, HasNone DEF List, Open, Later, e

LEMMA DpcBegun ==
  List("dpc", << "phy", "sw", "rxstop", "overrun" >>, "phy", "overrun",
       {"phy", "sw", "rxstop", "overrun"}, {})
<1> DEFINE e == << "phy", "sw", "rxstop", "overrun" >>
<1>1. /\ e \in Seq(Ops) /\ Len(e) = 4
      /\ e[1] = "phy" /\ e[2] = "sw" /\ e[3] = "rxstop" /\ e[4] = "overrun"
  BY DEF Ops, IsrOps, Asks, MacWrites
<1>2. \A i \in 1 .. 4 : i = 1 \/ i = 2 \/ i = 3 \/ i = 4
  OBVIOUS
<1> HIDE DEF e
<1>3. \A i \in 1 .. 4, j \in 1 .. 4 : i < j => Fits("dpc", e[i], e[j])
  BY <1>1, <1>2 DEF Fits, DpcFits, Asks
<1>4. \A i \in 1 .. 4 : i + 1 \in 1 .. 4 => Meets("dpc", e[i], e[i + 1])
  BY <1>1, <1>2 DEF Meets, DpcMeets, MacWrites
<1>5. \A i \in 1 .. 4 : \/ Ended("dpc", e[i]) \/ \E j \in 1 .. 4 : i < j /\ Leads("dpc", e[i], e[j])
                      \/ \E x \in {} : Leads("dpc", e[i], x)
  BY <1>1, <1>2 DEF Ended, Leads, DpcLeads
<1>6. \A x : Has(e, x) <=> x \in {"phy", "sw", "rxstop", "overrun"}
  BY <1>1, <1>2 DEF Has
<1> QED BY <1>1, <1>3, <1>4, <1>5, <1>6, HasNone DEF List, Open, Later, e

LEMMA ReceiverStopped ==
  List("dpc", << "clearstop", "read", "off", "waitstop", "clearstop" >>, "clearstop", "clearstop",
       {"clearstop", "read", "off", "waitstop"}, {"on"})
<1> DEFINE e == << "clearstop", "read", "off", "waitstop", "clearstop" >>
<1>1. /\ e \in Seq(Ops) /\ Len(e) = 5
      /\ e[1] = "clearstop" /\ e[2] = "read" /\ e[3] = "off" /\ e[4] = "waitstop" /\ e[5] = "clearstop"
  BY DEF Ops, IsrOps, Asks, MacWrites
<1>2. \A i \in 1 .. 5 : i = 1 \/ i = 2 \/ i = 3 \/ i = 4 \/ i = 5
  OBVIOUS
<1> HIDE DEF e
<1>3. \A i \in 1 .. 5, j \in 1 .. 5 : i < j => Fits("dpc", e[i], e[j])
  BY <1>1, <1>2 DEF Fits, DpcFits, Asks
<1>4. \A i \in 1 .. 5 : i + 1 \in 1 .. 5 => Meets("dpc", e[i], e[i + 1])
  BY <1>1, <1>2 DEF Meets, DpcMeets, MacWrites
<1>5. \A i \in 1 .. 5 : \/ Ended("dpc", e[i]) \/ \E j \in 1 .. 5 : i < j /\ Leads("dpc", e[i], e[j])
                      \/ \E x \in {"on"} : Leads("dpc", e[i], x)
  BY <1>1, <1>2 DEF Ended, Leads, DpcLeads
<1>6. \A x : Has(e, x) <=> x \in {"clearstop", "read", "off", "waitstop"}
  BY <1>1, <1>2 DEF Has
<1> QED BY <1>1, <1>3, <1>4, <1>5, <1>6, HasNone DEF List, Open, Later, e

LEMMA WorkedAround ==
  List("isr", << "workaround", "check" >>, "workaround", "check",
       {"workaround", "check"}, {"leave"})
<1> DEFINE e == << "workaround", "check" >>
<1>1. /\ e \in Seq(Ops) /\ Len(e) = 2
      /\ e[1] = "workaround" /\ e[2] = "check"
  BY DEF Ops, IsrOps, Asks, MacWrites
<1>2. \A i \in 1 .. 2 : i = 1 \/ i = 2
  OBVIOUS
<1> HIDE DEF e
<1>3. \A i \in 1 .. 2, j \in 1 .. 2 : i < j => Fits("isr", e[i], e[j])
  BY <1>1, <1>2 DEF Fits, IsrFits
<1>4. \A i \in 1 .. 2 : i + 1 \in 1 .. 2 => Meets("isr", e[i], e[i + 1])
  BY <1>1, <1>2 DEF Meets
<1>5. \A i \in 1 .. 2 : \/ Ended("isr", e[i]) \/ \E j \in 1 .. 2 : i < j /\ Leads("isr", e[i], e[j])
                      \/ \E x \in {"leave"} : Leads("isr", e[i], x)
  BY <1>1, <1>2 DEF Ended, Leads
<1>6. \A x : Has(e, x) <=> x \in {"workaround", "check"}
  BY <1>1, <1>2 DEF Has
<1> QED BY <1>1, <1>3, <1>4, <1>5, <1>6, HasNone DEF List, Open, Later, e

LEMMA DiscardForced ==
  List("isr", << "discard", "discarded" >>, "discard", "discarded",
       {"discard", "discarded"}, {"leave"})
<1> DEFINE e == << "discard", "discarded" >>
<1>1. /\ e \in Seq(Ops) /\ Len(e) = 2
      /\ e[1] = "discard" /\ e[2] = "discarded"
  BY DEF Ops, IsrOps, Asks, MacWrites
<1>2. \A i \in 1 .. 2 : i = 1 \/ i = 2
  OBVIOUS
<1> HIDE DEF e
<1>3. \A i \in 1 .. 2, j \in 1 .. 2 : i < j => Fits("isr", e[i], e[j])
  BY <1>1, <1>2 DEF Fits, IsrFits
<1>4. \A i \in 1 .. 2 : i + 1 \in 1 .. 2 => Meets("isr", e[i], e[i + 1])
  BY <1>1, <1>2 DEF Meets
<1>5. \A i \in 1 .. 2 : \/ Ended("isr", e[i]) \/ \E j \in 1 .. 2 : i < j /\ Leads("isr", e[i], e[j])
                      \/ \E x \in {"leave"} : Leads("isr", e[i], x)
  BY <1>1, <1>2 DEF Ended, Leads
<1>6. \A x : Has(e, x) <=> x \in {"discard", "discarded"}
  BY <1>1, <1>2 DEF Has
<1> QED BY <1>1, <1>3, <1>4, <1>5, <1>6, HasNone DEF List, Open, Later, e

LEMMA IsrLeft ==
  List("isr", << "check", "leave" >>, "check", "leave",
       {"check", "leave"}, {})
<1> DEFINE e == << "check", "leave" >>
<1>1. /\ e \in Seq(Ops) /\ Len(e) = 2
      /\ e[1] = "check" /\ e[2] = "leave"
  BY DEF Ops, IsrOps, Asks, MacWrites
<1>2. \A i \in 1 .. 2 : i = 1 \/ i = 2
  OBVIOUS
<1> HIDE DEF e
<1>3. \A i \in 1 .. 2, j \in 1 .. 2 : i < j => Fits("isr", e[i], e[j])
  BY <1>1, <1>2 DEF Fits, IsrFits
<1>4. \A i \in 1 .. 2 : i + 1 \in 1 .. 2 => Meets("isr", e[i], e[i + 1])
  BY <1>1, <1>2 DEF Meets
<1>5. \A i \in 1 .. 2 : \/ Ended("isr", e[i]) \/ \E j \in 1 .. 2 : i < j /\ Leads("isr", e[i], e[j])
                      \/ \E x \in {} : Leads("isr", e[i], x)
  BY <1>1, <1>2 DEF Ended, Leads
<1>6. \A x : Has(e, x) <=> x \in {"check", "leave"}
  BY <1>1, <1>2 DEF Has
<1> QED BY <1>1, <1>3, <1>4, <1>5, <1>6, HasNone DEF List, Open, Later, e
-----------------------------------------------------------------------------
(* The lists that SetInformation, the DPC and the ISR begin with.          *)
LEMMA RunAfter ==
  ASSUME NEW e, NEW a, NEW z, NEW S, List("dpc", e, a, z, S, {"on"}), S \subseteq {"hash", "disable"},
         z \in {"hash", "disable"}
  PROVE  /\ List("dpc", e \o Mac!EnableMacRxEn, a, "on", S \cup {"read", "on"}, {})
         /\ List("dpc", e \o Mac!SetMacFilter \o Mac!EnableMacRxEn, a, "on", S \cup {"read", "filter", "on"}, {})
<1>1. /\ \A x \in S, w \in {"read", "on"} : Fits("dpc", x, w)
      /\ \A x \in S, w \in {"read", "filter"} : Fits("dpc", x, w)
  BY DEF Fits, DpcFits, Asks
<1>2. \A x \in S \cup {"read", "filter"}, w \in {"read", "on"} : Fits("dpc", x, w)
  BY DEF Fits, DpcFits, Asks
<1>3. /\ Meets("dpc", z, "read") /\ Meets("dpc", "filter", "read")
      /\ {"on"} \subseteq {"read", "on"} \cup {} /\ {"on"} \subseteq {"read", "filter"} \cup {"on"}
  BY DEF Meets, DpcMeets, MacWrites
<1>4. List("dpc", Mac!EnableMacRxEn, "read", "on", {"read", "on"}, {})
  BY MacRxEnabled DEF Mac!EnableMacRxEn
<1>5. List("dpc", Mac!SetMacFilter, "read", "filter", {"read", "filter"}, {"on"})
  BY MacFilterSet DEF Mac!SetMacFilter
<1>6. List("dpc", e \o Mac!EnableMacRxEn, a, "on", S \cup {"read", "on"}, {})
  BY <1>1, <1>3, <1>4, ListJoined
<1>7. List("dpc", e \o Mac!SetMacFilter, a, "filter", S \cup {"read", "filter"}, {"on"})
  BY <1>1, <1>3, <1>5, ListJoined
<1>8. List("dpc", e \o Mac!SetMacFilter \o Mac!EnableMacRxEn, a, "on", (S \cup {"read", "filter"}) \cup {"read", "on"}, {})
  <2>1. PICK f : f = e \o Mac!SetMacFilter
    OBVIOUS
  <2>2. PICK t : t = Mac!EnableMacRxEn
    OBVIOUS
  <2>3. PICK T : T = S \cup {"read", "filter"}
    OBVIOUS
  <2>4. List("dpc", f, a, "filter", T, {"on"}) /\ List("dpc", t, "read", "on", {"read", "on"}, {})
    BY <1>4, <1>7, <2>1, <2>2, <2>3, Zenon
  <2>5. \A x \in T, w \in {"read", "on"} : Fits("dpc", x, w)
    BY <1>2, <2>3, Zenon
  <2>6. List("dpc", f \o t, a, "on", T \cup {"read", "on"}, {})
    BY <1>3, <2>4, <2>5, ListJoined
  <2> QED BY <2>1, <2>2, <2>3, <2>6, Zenon
<1>9. (S \cup {"read", "filter"}) \cup {"read", "on"} = S \cup {"read", "filter", "on"}
  OBVIOUS
<1> QED BY <1>6, <1>8, <1>9

LEMMA RunAtOnce == List("dpc", Mac!SetMacFilter \o Mac!EnableMacRxEn, "read", "on", {"read", "filter", "on"}, {})
<1>1. List("dpc", Mac!EnableMacRxEn, "read", "on", {"read", "on"}, {})
  BY MacRxEnabled DEF Mac!EnableMacRxEn
<1>2. List("dpc", Mac!SetMacFilter, "read", "filter", {"read", "filter"}, {"on"})
  BY MacFilterSet DEF Mac!SetMacFilter
<1>3. \A x \in {"read", "filter"}, w \in {"read", "on"} : Fits("dpc", x, w)
  BY DEF Fits, DpcFits, Asks
<1>4. Meets("dpc", "filter", "read")
  BY DEF Meets, DpcMeets, MacWrites
<1>5. List("dpc", Mac!SetMacFilter \o Mac!EnableMacRxEn, "read", "on", {"read", "filter"} \cup {"read", "on"}, {})
  BY <1>1, <1>2, <1>3, <1>4, ListJoined
<1>6. {"read", "filter"} \cup {"read", "on"} = {"read", "filter", "on"}
  OBVIOUS
<1> QED BY <1>5, <1>6

LEMMA Hashes == List("dpc", << "hash" >>, "hash", "hash", {"hash"}, {"on"})
<1>1. "hash" \in Ops /\ Ended("dpc", "hash")
  BY DEF Ops, Ended
<1> QED BY <1>1, Single

LEMMA Disables == List("dpc", << "disable" >>, "disable", "disable", {"disable"}, {"on"})
<1>1. "disable" \in Ops /\ Leads("dpc", "disable", "on")
  BY DEF Ops, Leads, DpcLeads
<1> QED BY <1>1, Single

(* The filter is set at once, or the receiver asked to stop.               *)
Asked(s) ==
  /\ Path("dpc", s) /\ (s # << >> => s[1] \notin MacWrites)
  /\ \A x \in {"complete_sw", "complete_stop", "phy", "phy_done", "sw_done"} : ~Has(s, x)
  /\ Has(s, "pend") <=> Has(s, "stopint") \/ Has(s, "f100")
  /\ Has(s, "stopint") => m_mac.rxen /\ s[1] = "clearstop"
  /\ Has(s, "pend") /\ Has(s, "off") => Has(s, "stopint")

LEMMA SetPacketFilterList ==
  ASSUME m_rev1 \in BOOLEAN, m_dwLinkMode \in Mac!AllLinks, ~(m_rev1 /\ m_dwLinkMode = "none")
  PROVE  /\ Asked(Mac!SetPacketFilter)
         /\ \/ Has(Mac!SetPacketFilter, "filter") /\ Has(Mac!SetPacketFilter, "on")
            \/ Has(Mac!SetPacketFilter, "filter_on") \/ Has(Mac!SetPacketFilter, "stopint")
            \/ Has(Mac!SetPacketFilter, "f100")
<1> DEFINE s == Mac!SetPacketFilter
<1>1. CASE ~m_rev1
  <2>1. s = << "read", "off", "filter_on" >>
    BY <1>1 DEF Mac!SetPacketFilter
  <2> HIDE DEF s
  <2>2. List("dpc", s, "read", "filter_on", {"read", "off", "filter_on"}, {})
    BY <2>1, FilterSetAtOnce
  <2> QED BY <2>2 DEF List, Path, Asked, MacWrites, s
<1>2. CASE m_rev1 /\ m_dwLinkMode = "10half"
  <2>1. s = << "disable" >> \o Mac!SetMacFilter \o Mac!EnableMacRxEn
    BY <1>2 DEF Mac!SetPacketFilter, Mac!At100
  <2> HIDE DEF s
  <2>2. List("dpc", s, "disable", "on", {"disable"} \cup {"read", "filter", "on"}, {})
    BY <2>1, Disables, RunAfter
  <2> QED BY <2>2 DEF List, Path, Asked, MacWrites, s
<1>3. CASE m_rev1 /\ m_dwLinkMode = "10full" /\ m_mac.rxen
  <2>1. s = << "clearstop", "stopint", "read", "off", "pend" >>
    BY <1>3 DEF Mac!SetPacketFilter, Mac!WaitForStop, Mac!At100
  <2> HIDE DEF s
  <2>2. List("dpc", s, "clearstop", "pend", {"clearstop", "stopint", "read", "off", "pend"}, {})
    BY <2>1, StopAwaited
  <2> QED BY <1>3, <2>2 DEF List, Path, Asked, MacWrites, s
<1>4. CASE m_rev1 /\ m_dwLinkMode = "10full" /\ ~m_mac.rxen
  <2>1. s = Mac!SetMacFilter \o Mac!EnableMacRxEn
    BY <1>4 DEF Mac!SetPacketFilter, Mac!At100
  <2> HIDE DEF s
  <2>2. List("dpc", s, "read", "on", {"read", "filter", "on"}, {})
    BY <2>1, RunAtOnce
  <2> QED BY <2>2 DEF List, Path, Asked, MacWrites, s
<1>5. CASE m_rev1 /\ Mac!At100(m_dwLinkMode) /\ m_mac.rxen
  <2>1. s = << "f100", "swint", "pend" >>
    BY <1>5 DEF Mac!SetPacketFilter, Mac!WaitForSwInt, Mac!At100
  <2> HIDE DEF s
  <2>2. List("dpc", s, "f100", "pend", {"f100", "swint", "pend"}, {})
    BY <2>1, SwIntAwaited
  <2> QED BY <2>2 DEF List, Path, Asked, MacWrites, s
<1>6. CASE m_rev1 /\ Mac!At100(m_dwLinkMode) /\ ~m_mac.rxen
  <2>1. s = << "hash" >> \o Mac!SetMacFilter \o Mac!EnableMacRxEn
    BY <1>6 DEF Mac!SetPacketFilter, Mac!At100
  <2> HIDE DEF s
  <2>2. List("dpc", s, "hash", "on", {"hash"} \cup {"read", "filter", "on"}, {})
    BY <2>1, Hashes, RunAfter
  <2> QED BY <2>2 DEF List, Path, Asked, MacWrites, s
<1> QED BY <1>1, <1>2, <1>3, <1>4, <1>5, <1>6 DEF Mac!AllLinks, Mac!At100

LEMMA SetMulticastAddressListList ==
  ASSUME m_rev1 \in BOOLEAN, m_dwLinkMode \in Mac!AllLinks, ~(m_rev1 /\ m_dwLinkMode = "none")
  PROVE  /\ Asked(Mac!SetMulticastAddressList)
         /\ \/ Has(Mac!SetMulticastAddressList, "hash") \/ Has(Mac!SetMulticastAddressList, "stopint")
            \/ Has(Mac!SetMulticastAddressList, "f100")
<1> DEFINE s == Mac!SetMulticastAddressList
<1>1. CASE ~m_rev1
  <2>1. s = << "hash" >>
    BY <1>1 DEF Mac!SetMulticastAddressList
  <2> HIDE DEF s
  <2>2. "hash" \in Ops /\ Ended("dpc", "hash")
    BY DEF Ops, Ended
  <2>3. List("dpc", s, "hash", "hash", {"hash"}, {})
    BY <2>1, <2>2, Single
  <2> QED BY <2>3 DEF List, Path, Asked, MacWrites, s
<1>2. CASE m_rev1 /\ m_dwLinkMode = "10half"
  <2>1. s = << "disable", "hash" >> \o Mac!EnableMacRxEn
    BY <1>2 DEF Mac!SetMulticastAddressList, Mac!At100
  <2> HIDE DEF s
  <2>2. List("dpc", s, "disable", "on", {"disable", "hash"} \cup {"read", "on"}, {})
    BY <2>1, StoppedHashed, RunAfter
  <2> QED BY <2>2 DEF List, Path, Asked, MacWrites, s
<1>3. CASE m_rev1 /\ m_dwLinkMode = "10full" /\ m_mac.rxen
  <2>1. s = << "clearstop", "stopint", "read", "off", "pend" >>
    BY <1>3 DEF Mac!SetMulticastAddressList, Mac!WaitForStop, Mac!At100
  <2> HIDE DEF s
  <2>2. List("dpc", s, "clearstop", "pend", {"clearstop", "stopint", "read", "off", "pend"}, {})
    BY <2>1, StopAwaited
  <2> QED BY <1>3, <2>2 DEF List, Path, Asked, MacWrites, s
<1>4. CASE m_rev1 /\ m_dwLinkMode = "10full" /\ ~m_mac.rxen
  <2>1. s = << "hash" >> \o Mac!EnableMacRxEn
    BY <1>4 DEF Mac!SetMulticastAddressList, Mac!At100
  <2> HIDE DEF s
  <2>2. List("dpc", s, "hash", "on", {"hash"} \cup {"read", "on"}, {})
    BY <2>1, Hashes, RunAfter
  <2> QED BY <2>2 DEF List, Path, Asked, MacWrites, s
<1>5. CASE m_rev1 /\ Mac!At100(m_dwLinkMode) /\ m_mac.rxen
  <2>1. s = << "f100", "swint", "pend" >>
    BY <1>5 DEF Mac!SetMulticastAddressList, Mac!WaitForSwInt, Mac!At100
  <2> HIDE DEF s
  <2>2. List("dpc", s, "f100", "pend", {"f100", "swint", "pend"}, {})
    BY <2>1, SwIntAwaited
  <2> QED BY <2>2 DEF List, Path, Asked, MacWrites, s
<1>6. CASE m_rev1 /\ Mac!At100(m_dwLinkMode) /\ ~m_mac.rxen
  <2>1. s = << "hash" >> \o Mac!SetMacFilter \o Mac!EnableMacRxEn
    BY <1>6 DEF Mac!SetMulticastAddressList, Mac!At100
  <2> HIDE DEF s
  <2>2. List("dpc", s, "hash", "on", {"hash"} \cup {"read", "filter", "on"}, {})
    BY <2>1, Hashes, RunAfter
  <2> QED BY <2>2 DEF List, Path, Asked, MacWrites, s
<1> QED BY <1>1, <1>2, <1>3, <1>4, <1>5, <1>6 DEF Mac!AllLinks, Mac!At100
-----------------------------------------------------------------------------
(* A handler's step: its list is what was left of it, or what replaces its *)
(* first operation comes before that.                                      *)
LEMMA AtStep ==
  ASSUME Path("dpc", m_todo), NEW op, Mac!At(op)
  PROVE  /\ m_isr = << >> /\ m_isr' = << >> /\ m_dpc' = m_dpc /\ m_todo # << >> /\ Head(m_todo) = op /\ m_todo[1] = op
         /\ Path("dpc", Tail(m_todo)) /\ \A x : Has(m_todo, x) <=> x = op \/ Has(Tail(m_todo), x)
         /\ \A x : Has(Tail(m_todo), x) => DpcFits(op, x)
         /\ Tail(m_todo) # << >> => Meets("dpc", op, Tail(m_todo)[1])
         /\ Ended("dpc", op) \/ \E x : DpcLeads(op, x) /\ Has(Tail(m_todo), x)
<1>1. m_isr = << >> /\ m_isr' = << >> /\ m_dpc' = m_dpc /\ m_todo # << >> /\ Head(m_todo) = op
  BY DEF Mac!At
<1>2. /\ Path("dpc", Tail(m_todo)) /\ Head(m_todo) = m_todo[1]
      /\ \A x : Has(m_todo, x) <=> x = op \/ Has(Tail(m_todo), x)
      /\ \A x : Has(Tail(m_todo), x) => Fits("dpc", op, x)
      /\ Tail(m_todo) # << >> => Meets("dpc", op, Tail(m_todo)[1])
      /\ Ended("dpc", op) \/ \E x : Leads("dpc", op, x) /\ Has(Tail(m_todo), x)
  BY <1>1, PathTaken
<1> QED BY <1>1, <1>2 DEF Fits, Leads

LEMMA PutBefore ==
  ASSUME NEW e, NEW a, NEW z, NEW S, NEW R, List("dpc", e, a, z, S, R), NEW t, Path("dpc", t),
         t # << >> => Meets("dpc", z, t[1]), \A x, w : x \in S /\ Has(t, w) => DpcFits(x, w),
         \A x \in R : Has(t, x)
  PROVE  /\ Path("dpc", e \o t) /\ e \o t # << >> /\ (e \o t)[1] = a
         /\ \A x : Has(e \o t, x) <=> x \in S \/ Has(t, x)
<1>1. /\ Open("dpc", e, R) /\ e # << >> /\ e[1] = a /\ e[Len(e)] = z
      /\ \A x : Has(e, x) <=> x \in S
  BY DEF List
<1>2. Open("dpc", t, {}) /\ (t # << >> => Meets("dpc", e[Len(e)], t[1]))
  BY <1>1 DEF Path
<1>3. \A x, w : Has(e, x) /\ Has(t, w) => Fits("dpc", x, w)
  BY <1>1 DEF Fits
<1>4. \A x \in R : Has(t, x) \/ x \in {}
  OBVIOUS
<1>5. /\ Open("dpc", e \o t, {}) /\ e \o t # << >> /\ (e \o t)[1] = e[1]
      /\ \A x : Has(e \o t, x) <=> Has(e, x) \/ Has(t, x)
  BY <1>1, <1>2, <1>3, <1>4, OpenJoined
<1> QED BY <1>1, <1>5 DEF Path

LEMMA NothingBefore == ASSUME NEW t, Path("dpc", t) PROVE << >> \o t = t
BY ConcatEmptySeq DEF Path, Open

LEMMA DisableStep ==
  ASSUME Path("dpc", m_todo), Mac!DisableMacRxEn
  PROVE  /\ Path("dpc", m_todo') /\ m_todo' # << >>
         /\ m_todo'[1] # "read" => m_todo'[1] \notin MacWrites
         /\ \A x : Has(m_todo', x) => x \in {"clearstop", "read", "off", "waitstop"} \/ Has(m_todo, x)
         /\ \A x : Has(m_todo, x) => x = "disable" \/ Has(m_todo', x)
         /\ Has(m_todo', "on") /\ ~Has(m_todo', "pend")
<1> DEFINE t == Tail(m_todo)
           e == << "clearstop", "read", "off", "waitstop", "clearstop" >>
<1>1. /\ Path("dpc", t) /\ (t # << >> => t[1] \notin MacWrites \cup {"clearstop"}) /\ Has(t, "on") /\ ~Has(t, "pend")
      /\ \A x : (Has(m_todo, x) <=> x = "disable" \/ Has(t, x)) /\ (Has(t, x) => DpcFits("disable", x))
  <2>1. Mac!At("disable")
    BY DEF Mac!DisableMacRxEn
  <2> HIDE DEF t
  <2> QED BY <2>1, AtStep DEF t, Meets, DpcMeets, Ended, DpcLeads, DpcFits, Asks
<1>2. m_todo' = IF m_mac.rxen THEN e \o t ELSE << >> \o t
  BY DEF Mac!DisableMacRxEn, Mac!When
<1>3. << >> \o t = t
  BY <1>1, NothingBefore
<1> HIDE DEF t
<1>4. List("dpc", e, "clearstop", "clearstop", {"clearstop", "read", "off", "waitstop"}, {"on"})
  BY ReceiverStopped
<1> HIDE DEF e
<1>5. \A x, w : x \in {"clearstop", "read", "off", "waitstop"} /\ Has(t, w) => DpcFits(x, w)
  BY <1>1 DEF DpcFits, Asks
<1>6. t # << >> => Meets("dpc", "clearstop", t[1])
  BY <1>1 DEF Meets, DpcMeets
<1>7. /\ Path("dpc", e \o t) /\ e \o t # << >> /\ (e \o t)[1] = "clearstop"
      /\ \A x : Has(e \o t, x) <=> x \in {"clearstop", "read", "off", "waitstop"} \/ Has(t, x)
  BY <1>1, <1>4, <1>5, <1>6, PutBefore
<1>8. t # << >>
  BY <1>1, HasNone
<1> QED BY <1>1, <1>2, <1>3, <1>7, <1>8 DEF MacWrites

LEMMA PhyStep ==
  ASSUME Path("dpc", m_todo), Mac!LinkIndicate, m_PhyDPCNeeded \in BOOLEAN
  PROVE  /\ Path("dpc", m_todo') /\ (m_todo' # << >> => m_todo'[1] \notin MacWrites)
         /\ \A x : Has(m_todo', x) <=> (m_PhyDPCNeeded /\ x = "phy_done") \/ (x # "phy" /\ Has(m_todo, x))
<1> DEFINE t == Tail(m_todo)
           e == << "phy_done" >>
<1>1. /\ Path("dpc", t) /\ (t # << >> => t[1] \notin MacWrites \cup {"clearstop"}) /\ ~Has(t, "phy")
      /\ \A x : (Has(m_todo, x) <=> x = "phy" \/ Has(t, x)) /\ (Has(t, x) => DpcFits("phy", x))
  <2>1. Mac!At("phy")
    BY DEF Mac!LinkIndicate
  <2> HIDE DEF t
  <2> QED BY <2>1, AtStep DEF t, Meets, DpcMeets, Ended, DpcLeads, DpcFits
<1>2. m_todo' = IF m_PhyDPCNeeded THEN e \o t ELSE << >> \o t
  BY DEF Mac!LinkIndicate, Mac!When
<1>3. << >> \o t = t
  BY <1>1, NothingBefore
<1> HIDE DEF t
<1>4. List("dpc", e, "phy_done", "phy_done", {"phy_done"}, {})
  <2>1. "phy_done" \in Ops /\ Ended("dpc", "phy_done")
    BY DEF Ops, Ended
  <2> QED BY <2>1, Single
<1> HIDE DEF e
<1>5. \A x, w : x \in {"phy_done"} /\ Has(t, w) => DpcFits(x, w)
  BY <1>1 DEF DpcFits, Asks
<1>6. t # << >> => Meets("dpc", "phy_done", t[1])
  BY <1>1 DEF Meets, DpcMeets
<1>7. /\ Path("dpc", e \o t) /\ e \o t # << >> /\ (e \o t)[1] = "phy_done"
      /\ \A x : Has(e \o t, x) <=> x \in {"phy_done"} \/ Has(t, x)
  BY <1>1, <1>4, <1>5, <1>6, PutBefore
<1> QED BY <1>1, <1>2, <1>3, <1>7 DEF MacWrites

LEMMA RxStopStep ==
  ASSUME Path("dpc", m_todo), Mac!At("rxstop"),
         m_todo' = Mac!When(m_RxStopDPCNeeded, << "complete_stop" >>) \o Tail(m_todo)
  PROVE  /\ Path("dpc", m_todo') /\ (m_todo' # << >> => m_todo'[1] \notin MacWrites)
         /\ \A x : Has(m_todo', x) => (m_RxStopDPCNeeded /\ x = "complete_stop") \/ x = "overrun"
         /\ ~Has(m_todo, "pend") /\ \A x : Has(m_todo, x) => x \in {"rxstop", "overrun"}
<1> DEFINE t == Tail(m_todo)
           e == << "complete_stop" >>
<1>1. /\ Path("dpc", t) /\ (t # << >> => t[1] \notin MacWrites \cup {"clearstop"})
      /\ \A x : (Has(m_todo, x) <=> x = "rxstop" \/ Has(t, x)) /\ (Has(t, x) => x = "overrun")
  <2> HIDE DEF t
  <2> QED BY AtStep DEF t, Meets, DpcMeets, DpcFits
<1>2. m_todo' = IF m_RxStopDPCNeeded THEN e \o t ELSE << >> \o t
  BY DEF Mac!When
<1>3. << >> \o t = t
  BY <1>1, NothingBefore
<1> HIDE DEF t
<1>4. List("dpc", e, "complete_stop", "complete_stop", {"complete_stop"}, {})
  <2>1. "complete_stop" \in Ops /\ Ended("dpc", "complete_stop")
    BY DEF Ops, Ended
  <2> QED BY <2>1, Single
<1> HIDE DEF e
<1>5. \A x, w : x \in {"complete_stop"} /\ Has(t, w) => DpcFits(x, w)
  BY <1>1 DEF DpcFits, Asks
<1>6. t # << >> => Meets("dpc", "complete_stop", t[1])
  BY <1>1 DEF Meets, DpcMeets
<1>7. /\ Path("dpc", e \o t) /\ e \o t # << >> /\ (e \o t)[1] = "complete_stop"
      /\ \A x : Has(e \o t, x) <=> x \in {"complete_stop"} \/ Has(t, x)
  BY <1>1, <1>4, <1>5, <1>6, PutBefore
<1> QED BY <1>1, <1>2, <1>3, <1>7 DEF MacWrites

LEMMA OverrunStep ==
  ASSUME Path("dpc", m_todo), Mac!At("overrun"),
         m_todo' = Mac!When(m_RxOverRun, << "disable" >> \o Mac!EnableMacRxEn \o << "over_done" >>) \o Tail(m_todo)
  PROVE  /\ Path("dpc", m_todo') /\ (m_todo' # << >> => m_todo'[1] \notin MacWrites)
         /\ \A x : Has(m_todo', x) => x \in {"disable", "read", "on", "over_done"}
         /\ \A x : Has(m_todo, x) => x = "overrun"
<1> DEFINE t == Tail(m_todo)
           e == << "disable" >> \o Mac!EnableMacRxEn \o << "over_done" >>
           S == {"disable"} \cup {"read", "on"} \cup {"over_done"}
<1>1. Path("dpc", t) /\ (t # << >> => FALSE) /\ \A x : (Has(m_todo, x) <=> x = "overrun") /\ ~Has(t, x)
  <2>1. /\ Path("dpc", t) /\ \A x : ~Has(t, x)
        /\ \A x : Has(m_todo, x) <=> x = "overrun" \/ Has(t, x)
    <3> HIDE DEF t
    <3> QED BY AtStep DEF t, DpcFits
  <2>2. t \in Seq(Ops) /\ \A i \in 1 .. Len(t) : FALSE
    <3> HIDE DEF t
    <3> QED BY <2>1 DEF Has, Path, Open
  <2>3. t = << >>
    <3> HIDE DEF t
    <3>1. t # << >> => 1 \in 1 .. Len(t)
      BY <2>2, Taken
    <3> QED BY <2>2, <3>1
  <2> QED BY <2>1, <2>3
<1>2. m_todo' = IF m_RxOverRun THEN e \o t ELSE << >> \o t
  BY DEF Mac!When
<1>3. << >> \o t = t
  BY <1>1, NothingBefore
<1> HIDE DEF t
<1>4. List("dpc", e, "disable", "over_done", S, {})
  <2>1. "over_done" \in Ops /\ Ended("dpc", "over_done") /\ Meets("dpc", "on", "over_done")
    BY DEF Ops, Ended, Meets, DpcMeets, MacWrites
  <2>2. List("dpc", << "over_done" >>, "over_done", "over_done", {"over_done"}, {})
    BY <2>1, Single
  <2>3. List("dpc", << "disable" >> \o Mac!EnableMacRxEn, "disable", "on", {"disable"} \cup {"read", "on"}, {})
    BY Disables, RunAfter
  <2>4. \A x \in {"disable"} \cup {"read", "on"}, w \in {"over_done"} : Fits("dpc", x, w)
    BY DEF Fits, DpcFits, Asks
  <2> QED BY <2>1, <2>2, <2>3, <2>4, ListJoined
<1> HIDE DEF e
<1> HIDE DEF S
<1>5. \A x, w : x \in S /\ Has(t, w) => DpcFits(x, w)
  BY <1>1
<1>6. t # << >> => Meets("dpc", "over_done", t[1])
  BY <1>1
<1>7. /\ Path("dpc", e \o t) /\ e \o t # << >> /\ (e \o t)[1] = "disable"
      /\ \A x : Has(e \o t, x) <=> x \in S \/ Has(t, x)
  BY <1>1, <1>4, <1>5, <1>6, PutBefore
<1> QED BY <1>1, <1>2, <1>3, <1>7 DEF MacWrites, S

LEMMA SwStep ==
  ASSUME Path("dpc", m_todo), Mac!At("sw"), m_SWDPCNeeded \in BOOLEAN, m_stopSts \in BOOLEAN,
         m_todo' = Mac!When(m_SWDPCNeeded /\ m_stopSts,
                      << "hash" >> \o Mac!SetMacFilter \o Mac!EnableMacRxEn \o << "sw_done" >>)
                   \o Mac!When(m_SWDPCNeeded, << "complete_sw" >>) \o Tail(m_todo)
  PROVE  /\ Path("dpc", m_todo') /\ (m_todo' # << >> => m_todo'[1] \notin MacWrites)
         /\ \A x : Has(m_todo', x) => \/ x \in {"rxstop", "overrun"} \/ (m_SWDPCNeeded /\ x = "complete_sw")
                                      \/ /\ m_SWDPCNeeded /\ m_stopSts
                                         /\ x \in {"hash", "read", "filter", "on", "sw_done"}
         /\ m_SWDPCNeeded /\ m_stopSts => Has(m_todo', "hash") /\ Has(m_todo', "filter") /\ Has(m_todo', "on")
         /\ \A x : Has(m_todo, x) => x \in {"sw", "rxstop", "overrun"}
<1> DEFINE t == Tail(m_todo)
           e == << "hash" >> \o Mac!SetMacFilter \o Mac!EnableMacRxEn \o << "sw_done" >>
           c == << "complete_sw" >>
           S == {"hash"} \cup {"read", "filter", "on"} \cup {"sw_done"}
           U == S \cup {"complete_sw"}
           b == e \o c
<1>1. /\ Path("dpc", t) /\ (t # << >> => t[1] \notin MacWrites \cup {"clearstop"})
      /\ \A x : (Has(m_todo, x) <=> x = "sw" \/ Has(t, x)) /\ (Has(t, x) => x \in {"rxstop", "overrun"})
  <2> HIDE DEF t
  <2> QED BY AtStep DEF t, Meets, DpcMeets, DpcFits
<1>2. /\ m_SWDPCNeeded /\ m_stopSts => m_todo' = b \o t
      /\ m_SWDPCNeeded /\ ~m_stopSts => m_todo' = (<< >> \o c) \o t
      /\ ~m_SWDPCNeeded => m_todo' = (<< >> \o << >>) \o t
  BY DEF Mac!When
<1>3. << >> \o t = t /\ << >> \o << >> = << >>
  BY <1>1, NothingBefore
<1> HIDE DEF t
<1>4. List("dpc", c, "complete_sw", "complete_sw", {"complete_sw"}, {}) /\ << >> \o c = c
  <2>1. "complete_sw" \in Ops /\ Ended("dpc", "complete_sw")
    BY DEF Ops, Ended
  <2>2. List("dpc", c, "complete_sw", "complete_sw", {"complete_sw"}, {})
    BY <2>1, Single
  <2> QED BY <2>2, NothingBefore DEF List, Path
<1> HIDE DEF c
<1>5. List("dpc", e, "hash", "sw_done", S, {"complete_sw"})
  <2>1. /\ "sw_done" \in Ops /\ Leads("dpc", "sw_done", "complete_sw") /\ Meets("dpc", "on", "sw_done")
        /\ {} \subseteq {"sw_done"} \cup {"complete_sw"}
    BY DEF Ops, Leads, DpcLeads, Meets, DpcMeets, MacWrites
  <2>2. List("dpc", << "sw_done" >>, "sw_done", "sw_done", {"sw_done"}, {"complete_sw"})
    BY <2>1, Single
  <2>3. List("dpc", << "hash" >> \o Mac!SetMacFilter \o Mac!EnableMacRxEn, "hash", "on",
             {"hash"} \cup {"read", "filter", "on"}, {})
    BY Hashes, RunAfter
  <2>4. \A x \in {"hash"} \cup {"read", "filter", "on"}, w \in {"sw_done"} : Fits("dpc", x, w)
    BY DEF Fits, DpcFits, Asks
  <2> QED BY <2>1, <2>2, <2>3, <2>4, ListJoined
<1> HIDE DEF e
<1>6. List("dpc", b, "hash", "complete_sw", U, {})
  <2>1. /\ \A x \in S, w \in {"complete_sw"} : Fits("dpc", x, w)
        /\ Meets("dpc", "sw_done", "complete_sw") /\ {"complete_sw"} \subseteq {"complete_sw"} \cup {}
    BY DEF Fits, DpcFits, Asks, Meets, DpcMeets, MacWrites
  <2> QED BY <1>4, <1>5, <2>1, ListJoined
<1>7. /\ \A x, w : x \in U /\ Has(t, w) => DpcFits(x, w)
      /\ \A x, w : x \in {"complete_sw"} /\ Has(t, w) => DpcFits(x, w)
      /\ t # << >> => Meets("dpc", "complete_sw", t[1])
  BY <1>1 DEF DpcFits, Asks, Meets, DpcMeets
<1> HIDE DEF S, U, b
<1>8. /\ Path("dpc", b \o t) /\ b \o t # << >> /\ (b \o t)[1] = "hash"
      /\ \A x : Has(b \o t, x) <=> x \in U \/ Has(t, x)
  BY <1>1, <1>6, <1>7, PutBefore
<1>9. /\ Path("dpc", c \o t) /\ c \o t # << >> /\ (c \o t)[1] = "complete_sw"
      /\ \A x : Has(c \o t, x) <=> x \in {"complete_sw"} \/ Has(t, x)
  BY <1>1, <1>4, <1>7, PutBefore
<1>10. CASE m_SWDPCNeeded /\ m_stopSts
  BY <1>1, <1>2, <1>8, <1>10 DEF MacWrites, S, U
<1>11. CASE m_SWDPCNeeded /\ ~m_stopSts
  BY <1>1, <1>2, <1>4, <1>9, <1>11 DEF MacWrites
<1>12. CASE ~m_SWDPCNeeded
  BY <1>1, <1>2, <1>3, <1>12 DEF MacWrites
<1> QED BY <1>10, <1>11, <1>12
-----------------------------------------------------------------------------
(* The list of the ISR, as far as it is put together.                      *)
IsrBegun(p) ==
  /\ Open("isr", p, {"leave"}) /\ ~Has(p, "leave")
  /\ p # << >> => p[Len(p)] # "discard" /\ p[1] # "discarded"

LEMMA IsrGoesOn ==
  ASSUME NEW p, IsrBegun(p), NEW e, NEW a, NEW z, NEW S, List("isr", e, a, z, S, {"leave"}),
         a # "discarded", z # "discard", "workaround" \notin S, "leave" \notin S,
         ~(Has(p, "rxstop") /\ "rxstop" \in S), NEW c
  PROVE  LET s == p \o Mac!When(c, e) IN
         /\ IsrBegun(s) /\ (p # << >> => s # << >> /\ s[1] = p[1])
         /\ \A x : Has(s, x) <=> Has(p, x) \/ (c /\ x \in S)
<1> DEFINE s == p \o Mac!When(c, e)
<1>1. /\ Open("isr", p, {"leave"}) /\ ~Has(p, "leave") /\ p \in Seq(Ops)
      /\ p # << >> => p[Len(p)] # "discard" /\ p[1] # "discarded"
      /\ Open("isr", e, {"leave"}) /\ e # << >> /\ e[1] = a /\ e[Len(e)] = z /\ e \in Seq(Ops)
      /\ \A x : Has(e, x) <=> x \in S
  BY DEF IsrBegun, List, Open
<1>2. CASE ~c
  <2>1. s = p
    BY <1>1, <1>2, ConcatEmptySeq DEF Mac!When
  <2> HIDE DEF s
  <2> QED BY <1>2, <2>1 DEF s
<1>3. CASE c /\ p = << >>
  <2>1. s = e
    BY <1>1, <1>3, ConcatEmptySeq DEF Mac!When
  <2> HIDE DEF s
  <2>2. IsrBegun(s)
    BY <1>1, <2>1 DEF IsrBegun
  <2>3. \A x : Has(s, x) <=> Has(p, x) \/ (c /\ x \in S)
    BY <1>1, <1>3, <2>1, HasNone
  <2> QED BY <1>3, <2>2, <2>3 DEF s
<1>4. CASE c /\ p # << >>
  <2>1. s = p \o e
    BY <1>4 DEF Mac!When
  <2> HIDE DEF s
  <2> DEFINE L == {"leave"}
  <2>2. /\ \A x, w : Has(p, x) /\ Has(e, w) => Fits("isr", x, w)
        /\ e # << >> => Meets("isr", p[Len(p)], e[1])
        /\ \A x \in L : Has(e, x) \/ x \in L
        /\ Open("isr", p, L) /\ Open("isr", e, L)
    BY <1>1, <1>4 DEF Fits, IsrFits, Meets
  <2> HIDE DEF L
  <2>3. /\ Open("isr", p \o e, L) /\ p \o e # << >> /\ (p \o e)[1] = p[1]
        /\ \A x : Has(p \o e, x) <=> Has(p, x) \/ Has(e, x)
    BY <1>1, <1>4, <2>2, OpenJoined
  <2>4. (p \o e)[Len(p \o e)] = e[Len(e)]
    <3>1. Len(p) \in Nat /\ Len(e) \in Nat /\ Len(e) >= 1
      BY <1>1, <1>4, Taken
    <3> QED BY <1>1, <3>1, ConcatProperties
  <2>5. IsrBegun(s)
    BY <1>1, <1>4, <2>1, <2>3, <2>4 DEF IsrBegun, L
  <2> QED BY <1>1, <1>4, <2>1, <2>3, <2>5 DEF s
<1> QED BY <1>2, <1>3, <1>4

LEMMA IsrBegins ==
  ASSUME NEW rx, Mac!Isr(rx)
  PROVE  /\ Path("isr", m_isr') /\ m_isr' # << >> /\ Head(m_isr') # "discarded"
         /\ ~m_f100Done => Head(m_isr') = "workaround"
         /\ Has(m_isr', "workaround") => ~m_f100Done
         /\ Has(m_isr', "rxstop") => m_stopEn /\ m_stopSts
<1> DEFINE p1 == Mac!When(~m_f100Done, << "workaround", "check" >>)
           p2 == p1 \o Mac!When(rx, << "check" >>)
           p3 == p2 \o Mac!When(m_timer, << "phy" >>)
           p4 == p3 \o Mac!When(m_stopEn /\ m_stopSts, << "rxstop" >>)
           p5 == p4 \o Mac!When(m_rxe, << "discard", "discarded" >>)
           p6 == p5 \o Mac!When(m_rdfo, << "overrun" >>)
           p7 == p6 \o Mac!When(m_swInt, << "sw" >>)
           l  == << "check", "leave" >>
<1>1. m_isr' = p7 \o l
  BY DEF Mac!Isr
<1>2. \A a \in {"check", "phy", "rxstop", "overrun", "sw"} : List("isr", << a >>, a, a, {a}, {"leave"})
  <2>1. SUFFICES ASSUME NEW a \in {"check", "phy", "rxstop", "overrun", "sw"}
                 PROVE  List("isr", << a >>, a, a, {a}, {"leave"})
    OBVIOUS
  <2>2. a \in Ops /\ \E x \in {"leave"} : Leads("isr", a, x)
    BY <2>1 DEF Ops, IsrOps, Leads
  <2> QED BY <2>2, Single
<1>3. /\ IsrBegun(p1) /\ (~m_f100Done => p1 # << >> /\ p1[1] = "workaround")
      /\ \A x : Has(p1, x) => ~m_f100Done /\ x \in {"workaround", "check"}
  <2>1. CASE m_f100Done
    <3>1. p1 = << >>
      BY <2>1 DEF Mac!When
    <3> HIDE DEF p1
    <3>2. Open("isr", << >>, {"leave"})
      BY HasNone DEF Open
    <3> QED BY <2>1, <3>1, <3>2, HasNone DEF IsrBegun
  <2>2. CASE ~m_f100Done
    <3>1. p1 = << "workaround", "check" >>
      BY <2>2 DEF Mac!When
    <3> HIDE DEF p1
    <3>2. List("isr", p1, "workaround", "check", {"workaround", "check"}, {"leave"})
      BY <3>1, WorkedAround
    <3> QED BY <2>2, <3>2 DEF List, IsrBegun
  <2> QED BY <2>1, <2>2
<1> HIDE DEF p1
<1>4. /\ IsrBegun(p2) /\ (p1 # << >> => p2 # << >> /\ p2[1] = p1[1])
      /\ \A x : Has(p2, x) <=> Has(p1, x) \/ (rx /\ x \in {"check"})
  BY <1>2, <1>3, IsrGoesOn
<1> HIDE DEF p2
<1>5. /\ IsrBegun(p3) /\ (p2 # << >> => p3 # << >> /\ p3[1] = p2[1])
      /\ \A x : Has(p3, x) <=> Has(p2, x) \/ (m_timer /\ x \in {"phy"})
  <2>1. List("isr", << "phy" >>, "phy", "phy", {"phy"}, {"leave"})
    BY <1>2
  <2> QED BY <1>4, <2>1, IsrGoesOn
<1> HIDE DEF p3
<1>6. /\ IsrBegun(p4) /\ (p3 # << >> => p4 # << >> /\ p4[1] = p3[1])
      /\ \A x : Has(p4, x) <=> Has(p3, x) \/ ((m_stopEn /\ m_stopSts) /\ x \in {"rxstop"})
  <2>1. ~Has(p3, "rxstop")
    BY <1>3, <1>4, <1>5
  <2> QED BY <1>2, <1>5, <2>1, IsrGoesOn
<1> HIDE DEF p4
<1>7. /\ IsrBegun(p5) /\ (p4 # << >> => p5 # << >> /\ p5[1] = p4[1])
      /\ \A x : Has(p5, x) <=> Has(p4, x) \/ (m_rxe /\ x \in {"discard", "discarded"})
  BY <1>6, DiscardForced, IsrGoesOn
<1> HIDE DEF p5
<1>8. /\ IsrBegun(p6) /\ (p5 # << >> => p6 # << >> /\ p6[1] = p5[1])
      /\ \A x : Has(p6, x) <=> Has(p5, x) \/ (m_rdfo /\ x \in {"overrun"})
  BY <1>2, <1>7, IsrGoesOn
<1> HIDE DEF p6
<1>9. /\ IsrBegun(p7) /\ (p6 # << >> => p7 # << >> /\ p7[1] = p6[1])
      /\ \A x : Has(p7, x) <=> Has(p6, x) \/ (m_swInt /\ x \in {"sw"})
  BY <1>2, <1>8, IsrGoesOn
<1> HIDE DEF p7
<1>10. List("isr", l, "check", "leave", {"check", "leave"}, {})
  BY IsrLeft
<1> HIDE DEF l
<1>11. /\ \A x : Has(p7, x) => \/ x \in {"check", "phy", "discard", "discarded", "overrun", "sw"}
                               \/ (~m_f100Done /\ x = "workaround") \/ (m_stopEn /\ m_stopSts /\ x = "rxstop")
       /\ ~m_f100Done => p7 # << >> /\ p7[1] = "workaround"
       /\ p7 # << >> => p7[Len(p7)] # "discard" /\ p7[1] # "discarded"
       /\ Open("isr", p7, {"leave"})
  BY <1>3, <1>4, <1>5, <1>6, <1>7, <1>8, <1>9 DEF IsrBegun
<1>12. /\ Path("isr", m_isr') /\ m_isr' # << >> /\ m_isr'[1] # "discarded"
       /\ ~m_f100Done => m_isr'[1] = "workaround"
       /\ \A x : Has(m_isr', x) => Has(p7, x) \/ x \in {"check", "leave"}
  <2>1. CASE p7 = << >>
    <3>1. m_isr' = l
      BY <1>1, <1>10, <2>1, ConcatEmptySeq DEF List, Open
    <3> QED BY <1>10, <1>11, <2>1, <3>1 DEF List, Path
  <2>2. CASE p7 # << >>
    <3> DEFINE L == {"leave"}
              N == {}
    <3>1. /\ Open("isr", l, N) /\ l # << >> /\ l[1] = "check"
          /\ \A x : Has(l, x) <=> x \in {"check", "leave"}
      BY <1>10 DEF List
    <3>2. /\ \A x, w : Has(p7, x) /\ Has(l, w) => Fits("isr", x, w)
          /\ l # << >> => Meets("isr", p7[Len(p7)], l[1])
          /\ Open("isr", p7, L) /\ Open("isr", l, N) /\ \A x \in L : Has(l, x) \/ x \in N
      BY <1>11, <2>2, <3>1 DEF Fits, IsrFits, Meets
    <3> HIDE DEF L, N
    <3>3. /\ Open("isr", p7 \o l, N) /\ p7 \o l # << >> /\ (p7 \o l)[1] = p7[1]
          /\ \A x : Has(p7 \o l, x) <=> Has(p7, x) \/ Has(l, x)
      BY <2>2, <3>2, OpenJoined
    <3> QED BY <1>1, <1>11, <2>2, <3>1, <3>3 DEF Path, N
  <2> QED BY <2>1, <2>2
<1>13. Head(m_isr') = m_isr'[1]
  BY <1>12, Taken DEF Path, Open
<1> QED BY <1>11, <1>12, <1>13

(* A step of the ISR's.                                                    *)
LEMMA IsrAtStep ==
  ASSUME Path("isr", m_isr), NEW op, Mac!IsrAt(op)
  PROVE  /\ Path("isr", m_isr') /\ m_isr # << >> /\ Head(m_isr) = op
         /\ \A x : Has(m_isr, x) <=> x = op \/ Has(m_isr', x)
         /\ ~Has(m_isr', "workaround") /\ (op = "rxstop" => ~Has(m_isr', "rxstop"))
         /\ op = "leave" => m_isr' = << >>
         /\ op # "leave" => m_isr' # << >> /\ (Head(m_isr') = "discarded" <=> op = "discard")
<1>1. m_isr # << >> /\ Head(m_isr) = op /\ m_isr' = Tail(m_isr)
  BY DEF Mac!IsrAt
<1>2. /\ Path("isr", m_isr') /\ \A x : Has(m_isr, x) <=> x = op \/ Has(m_isr', x)
      /\ \A x : Has(m_isr', x) => Fits("isr", op, x)
      /\ m_isr' # << >> => Meets("isr", op, m_isr'[1])
      /\ Ended("isr", op) \/ \E x : Leads("isr", op, x) /\ Has(m_isr', x)
  BY <1>1, PathTaken
<1>3. m_isr' # << >> => Head(m_isr') = m_isr'[1] /\ Has(m_isr', m_isr'[1])
  <2>1. m_isr' # << >> => m_isr' \in Seq(Ops) /\ Head(m_isr') = m_isr'[1] /\ 1 \in 1 .. Len(m_isr')
    BY <1>2, Taken DEF Path, Open
  <2> QED BY <2>1 DEF Has
<1>4. op = "leave" => m_isr' = << >>
  BY <1>2, <1>3 DEF Fits, IsrFits
<1>5. op # "leave" => m_isr' # << >>
  BY <1>2, HasNone DEF Ended
<1>6. ~Has(m_isr', "workaround") /\ (op = "rxstop" => ~Has(m_isr', "rxstop"))
  BY <1>2 DEF Fits, IsrFits
<1>7. m_isr' # << >> => (Head(m_isr') = "discarded" <=> op = "discard")
  BY <1>2, <1>3 DEF Meets
<1> QED BY <1>1, <1>2, <1>4, <1>5, <1>6, <1>7
-----------------------------------------------------------------------------
(* The inductive invariant.                                                *)
MacCr == [rxen : BOOLEAN, filt : Nat, full : BOOLEAN]

ValueTypes ==
  /\ m_mac \in MacCr /\ m_reg \in MacCr /\ m_want \in Nat /\ m_wantHash \in Nat /\ m_hash \in Nat
  /\ m_link \in Mac!AllLinks /\ m_dwLinkMode \in Mac!AllLinks
ChipFlags ==
  /\ m_stopping \in BOOLEAN /\ m_stopSts \in BOOLEAN /\ m_stopEn \in BOOLEAN /\ m_cpuInt \in BOOLEAN
DpcFlags ==
  /\ m_f100Done \in BOOLEAN /\ m_SWDPCNeeded \in BOOLEAN /\ m_RxStopDPCNeeded \in BOOLEAN
  /\ m_PhyDPCNeeded \in BOOLEAN /\ m_wOldPhyBSR \in BOOLEAN
PastFlags ==
  /\ m_rev1 \in BOOLEAN /\ m_dpc \in BOOLEAN /\ m_pending \in BOOLEAN
  /\ m_spurious \in BOOLEAN /\ m_skipped \in BOOLEAN /\ m_raced \in BOOLEAN
FlagTypes == ChipFlags /\ DpcFlags /\ PastFlags

StopBusy == m_stopEn \/ m_RxStopDPCNeeded
SwBusy   == m_SWDPCNeeded \/ (~m_f100Done /\ m_cpuInt)

(* What is asked for is pending, and asked for once.                       *)
AskInv ==
  /\ StopBusy \/ SwBusy => m_pending \/ Has(m_todo, "pend")
  /\ ~(StopBusy /\ SwBusy) /\ ~(m_stopEn /\ m_RxStopDPCNeeded)
  /\ Has(m_todo, "stopint") \/ Has(m_todo, "f100") => ~StopBusy /\ ~SwBusy
  /\ Has(m_todo, "complete_sw") => m_SWDPCNeeded /\ m_pending
  /\ Has(m_todo, "complete_stop") => m_RxStopDPCNeeded /\ m_pending
  /\ ~m_spurious

(* The ISR does the workaround first, and hears of the stop asked for.     *)
IsrInv ==
  /\ m_SWDPCNeeded => m_f100Done \/ ~m_cpuInt
  /\ m_isr # << >> /\ ~m_f100Done => m_SWDPCNeeded \/ Head(m_isr) = "workaround"
  /\ Has(m_isr, "workaround") => ~m_f100Done /\ m_cpuInt
  /\ Has(m_isr, "rxstop") => m_stopEn

(* A receiver that is to stop for a request runs until it is told to.      *)
Discarding == m_isr # << >> /\ Head(m_isr) = "discarded"
Stopping   == Has(m_todo, "pend") /\ Has(m_todo, "off")
StopInv ==
  /\ m_mac.rxen => ~m_stopping
  /\ Stopping =>
       /\ ~SwBusy /\ (m_stopEn \/ Has(m_todo, "stopint"))
       /\ m_todo[1] = "clearstop" => Has(m_todo, "stopint")
       /\ m_mac.rxen \/ Discarding
       /\ m_todo[1] # "clearstop" => (m_stopSts => Discarding) /\ ~Has(m_isr, "rxstop")

(* The copy of MAC_CR that is written is fresh.                            *)
RegInv == ~m_raced /\ m_todo # << >> /\ m_todo[1] \in MacWrites => m_reg = m_mac

(* The filter, the hash and the receiver are as they are wanted, or there  *)
(* is someone yet to set them.                                             *)
Due == m_stopEn \/ Has(m_todo, "stopint") \/ Has(m_todo, "f100")
SetInv ==
  ~m_raced /\ ~m_skipped /\ (m_f100Done \/ Has(m_todo, "sw_done")) =>
    /\ m_mac.filt = m_want \/ Has(m_todo, "filter") \/ Has(m_todo, "filter_on") \/ Due
    /\ m_hash = m_wantHash \/ Has(m_todo, "hash") \/ Due
    /\ m_mac.rxen \/ m_want = 0 \/ Has(m_todo, "on") \/ Has(m_todo, "filter_on") \/ Due \/ Discarding

(* The link the ISR has seen is the MAC's, and the adapter's once told.    *)
LinkInv ==
  /\ ~m_raced /\ m_wOldPhyBSR /\ m_link # "none" =>
       /\ m_mac.full = Mac!Full(m_link)
       /\ m_dwLinkMode = m_link \/ (m_PhyDPCNeeded /\ ~Has(m_todo, "phy_done"))
  /\ m_PhyDPCNeeded => m_dpc \/ m_isr # << >> \/ Has(m_todo, "phy") \/ Has(m_todo, "phy_done")

Paths  == Path("isr", m_isr) /\ Path("dpc", m_todo)
MacInv == ValueTypes /\ FlagTypes /\ Paths /\ AskInv /\ IsrInv /\ StopInv /\ RegInv /\ SetInv /\ LinkInv

-----------------------------------------------------------------------------
LEMMA MacInvInit == Mac!Init => MacInv
<1> SUFFICES ASSUME Mac!Init PROVE MacInv
  OBVIOUS
<1> USE DEF Mac!Init
<1>1. m_mac \in MacCr
  BY DEF MacCr
<1>2. Path("isr", << >>) /\ Path("dpc", << >>)
  BY HasNone DEF Path, Open
<1>3. \A x : ~Has(m_isr, x) /\ ~Has(m_todo, x)
  BY HasNone
<1>4. ValueTypes /\ FlagTypes /\ Paths
  BY <1>1, <1>2 DEF ValueTypes, FlagTypes, ChipFlags, DpcFlags, PastFlags, Paths, Mac!AllLinks
<1>5. AskInv /\ IsrInv
  BY <1>3 DEF AskInv, IsrInv, StopBusy, SwBusy
<1>6. StopInv /\ RegInv
  BY <1>3 DEF StopInv, RegInv, Stopping
<1>7. SetInv /\ LinkInv
  BY <1>3 DEF SetInv, LinkInv, Due
<1> QED BY <1>4, <1>5, <1>6, <1>7 DEF MacInv

(* Writes of MAC_CR.                                                       *)
LEMMA RxEnWritten ==
  ASSUME m_mac \in MacCr, m_stopping \in BOOLEAN, NEW b \in BOOLEAN, Mac!WriteMac([m_mac EXCEPT !.rxen = b])
  PROVE  /\ m_mac' \in MacCr /\ m_mac'.rxen = b /\ m_mac'.filt = m_mac.filt /\ m_mac'.full = m_mac.full
         /\ b => m_stopping' = FALSE
         /\ m_stopping' \in BOOLEAN
<1> DEFINE m == [m_mac EXCEPT !.rxen = b]
<1>1. m \in MacCr /\ m.rxen = b /\ m.filt = m_mac.filt /\ m.full = m_mac.full
  BY DEF MacCr
<1>2. m_mac' = m /\ m_stopping' = IF m.rxen THEN FALSE ELSE m_stopping \/ m_mac.rxen
  BY DEF Mac!WriteMac
<1>3. m_mac.rxen \in BOOLEAN
  BY DEF MacCr
<1> HIDE DEF m
<1> QED BY <1>1, <1>2, <1>3

LEMMA FullWritten ==
  ASSUME m_mac \in MacCr, m_stopping \in BOOLEAN, NEW b \in BOOLEAN, Mac!WriteMac([m_mac EXCEPT !.full = b])
  PROVE  /\ m_mac' \in MacCr /\ m_mac'.rxen = m_mac.rxen /\ m_mac'.filt = m_mac.filt /\ m_mac'.full = b
         /\ m_mac.rxen => m_stopping' = FALSE
         /\ m_stopping' \in BOOLEAN
<1> DEFINE m == [m_mac EXCEPT !.full = b]
<1>1. m \in MacCr /\ m.rxen = m_mac.rxen /\ m.filt = m_mac.filt /\ m.full = b
  BY DEF MacCr
<1>2. m_mac' = m /\ m_stopping' = IF m.rxen THEN FALSE ELSE m_stopping \/ m_mac.rxen
  BY DEF Mac!WriteMac
<1>3. m_mac.rxen \in BOOLEAN
  BY DEF MacCr
<1> HIDE DEF m
<1> QED BY <1>1, <1>2, <1>3

LEMMA Updated ==
  ASSUME m_mac \in MacCr, m_want \in Nat, Mac!UpdateFilterAndMacReg
  PROVE  /\ m_mac' \in MacCr /\ m_mac'.rxen = TRUE /\ m_mac'.filt = m_want /\ m_mac'.full = m_mac.full
         /\ m_stopping' = FALSE /\ m_hash' = m_wantHash /\ m_stopping' \in BOOLEAN
<1> DEFINE m == [m_mac EXCEPT !.filt = m_want, !.rxen = TRUE]
<1>1. m \in MacCr /\ m.rxen = TRUE /\ m.filt = m_want /\ m.full = m_mac.full
  BY DEF MacCr
<1>2. m_mac' = m /\ m_stopping' = IF m.rxen THEN FALSE ELSE m_stopping \/ m_mac.rxen
  BY DEF Mac!UpdateFilterAndMacReg, Mac!WriteMac
<1> HIDE DEF m
<1> QED BY <1>1, <1>2 DEF Mac!UpdateFilterAndMacReg

LEMMA Fields == ASSUME NEW m \in MacCr PROVE m.rxen \in BOOLEAN /\ m.filt \in Nat /\ m.full \in BOOLEAN
BY DEF MacCr

(* What the list of a handler says of its operations.                      *)
LEMMA PathHas ==
  ASSUME NEW s, Path("dpc", s)
  PROVE  /\ \A x, y : Has(s, x) /\ Has(s, y) => x = y \/ DpcFits(x, y) \/ DpcFits(y, x)
         /\ Has(s, "sw_done") => Has(s, "complete_sw")
         /\ Has(s, "stopint") \/ Has(s, "f100") => Has(s, "pend")
         /\ Has(s, "disable") => Has(s, "on")
<1>1. \A x, y : Has(s, x) /\ Has(s, y) => x = y \/ DpcFits(x, y) \/ DpcFits(y, x)
  <2>1. SUFFICES ASSUME NEW i \in 1 .. Len(s), NEW j \in 1 .. Len(s)
                 PROVE  s[i] = s[j] \/ DpcFits(s[i], s[j]) \/ DpcFits(s[j], s[i])
    BY DEF Has
  <2>2. i < j \/ i = j \/ j < i
    <3>1. Len(s) \in Nat
      BY LenProperties DEF Path, Open
    <3> QED BY <3>1
  <2> QED BY <2>2 DEF Path, Open, Fits
<1>2. \A i \in 1 .. Len(s) : Ended("dpc", s[i]) \/ \E j \in 1 .. Len(s) : DpcLeads(s[i], s[j])
  BY DEF Path, Open, Later, Leads
<1>3. Has(s, "sw_done") => Has(s, "complete_sw")
  BY <1>2 DEF Has, Ended, DpcLeads
<1>4. Has(s, "stopint") => Has(s, "pend")
  BY <1>2 DEF Has, Ended, DpcLeads
<1>5. Has(s, "f100") => Has(s, "pend")
  BY <1>2 DEF Has, Ended, DpcLeads
<1>6. Has(s, "disable") => Has(s, "on")
  BY <1>2 DEF Has, Ended, DpcLeads
<1> QED BY <1>1, <1>3, <1>4, <1>5, <1>6

(* What is not raced.                                                      *)
LEMMA NotRaced ==
  ASSUME Paths, Mac!Racing, m_raced \in BOOLEAN
  PROVE  /\ m_raced' \in BOOLEAN /\ (m_raced => m_raced')
         /\ ~m_raced' /\ m_todo # << >> /\ m_todo[1] \in MacWrites => m_mac' = m_mac
         /\ ~m_raced' /\ Has(m_todo, "phy_done") /\ m_isr # << >> => Head(m_isr) # "phy"
<1>1. m_raced' \in BOOLEAN /\ (m_raced => m_raced')
  BY DEF Mac!Racing
<1>2. ~m_raced' /\ m_todo # << >> /\ m_todo[1] \in MacWrites => m_mac' = m_mac
  <2>1. m_todo # << >> => Head(m_todo) = m_todo[1]
    BY PathTaken DEF Paths
  <2> QED BY <2>1 DEF Mac!Racing, Mac!HandlerHasRead, MacWrites
<1>3. Has(m_todo, "phy_done") => m_todo # << >> /\ Head(m_todo) = "phy_done"
  <2>1. m_todo # << >> => /\ \A x : Has(m_todo, x) <=> x = Head(m_todo) \/ Has(Tail(m_todo), x)
                          /\ \A x : Has(Tail(m_todo), x) => Fits("dpc", Head(m_todo), x)
    BY PathTaken DEF Paths
  <2>2. m_todo # << >> => ~Has(Tail(m_todo), "phy_done")
    BY <2>1 DEF Fits, DpcFits
  <2> QED BY <2>1, <2>2, HasNone
<1>4. ~m_raced' /\ Has(m_todo, "phy_done") /\ m_isr # << >> => Head(m_isr) # "phy"
  BY <1>3 DEF Mac!Racing
<1> QED BY <1>1, <1>2, <1>4

(* The receiver stops.                                                    *)
LEMMA ReceiverStopsStep ==
  ASSUME MacInv, Mac!ReceiverStops, UNCHANGED m_rev1
  PROVE  MacInv'
<1> USE DEF MacInv, FlagTypes, Mac!ReceiverStops, Mac!chipVars, Mac!flagVars, Mac!linkVars,
        Mac!setVars, Mac!pastVars
<1>1. ValueTypes' /\ Paths'
  BY DEF ValueTypes, Paths
<1>2. ChipFlags' /\ DpcFlags'
  BY DEF ChipFlags, DpcFlags
<1>3. PastFlags'
  BY DEF PastFlags
<1>4. AskInv' /\ IsrInv'
  BY DEF ChipFlags, DpcFlags, PastFlags, AskInv, IsrInv, StopBusy, SwBusy
<1>5. StopInv'
  BY DEF ChipFlags, DpcFlags, PastFlags, StopInv, Stopping, StopBusy, SwBusy, Discarding
<1>6. RegInv'
  BY DEF ChipFlags, DpcFlags, PastFlags, RegInv
<1>7. SetInv'
  BY DEF ChipFlags, DpcFlags, PastFlags, SetInv, Due, Discarding
<1>8. LinkInv'
  BY DEF ChipFlags, DpcFlags, PastFlags, LinkInv
<1> QED BY <1>1, <1>2, <1>3, <1>4, <1>5, <1>6, <1>7, <1>8

(* The link changes.                                                      *)
LEMMA LinkChangesStep ==
  ASSUME MacInv, NEW l \in Mac!AllLinks, Mac!LinkChanges(l), UNCHANGED m_rev1
  PROVE  MacInv'
<1> USE DEF MacInv, FlagTypes, Mac!LinkChanges, Mac!chipVars, Mac!flagVars, Mac!linkVars,
        Mac!setVars, Mac!pastVars
<1>1. ValueTypes' /\ Paths'
  BY DEF ValueTypes, Paths
<1>2. ChipFlags' /\ DpcFlags'
  BY DEF ChipFlags, DpcFlags
<1>3. PastFlags'
  BY DEF PastFlags
<1>4. AskInv' /\ IsrInv'
  BY DEF ChipFlags, DpcFlags, PastFlags, AskInv, IsrInv, StopBusy, SwBusy
<1>5. StopInv'
  BY DEF ChipFlags, DpcFlags, PastFlags, StopInv, Stopping, StopBusy, SwBusy, Discarding
<1>6. RegInv'
  BY DEF ChipFlags, DpcFlags, PastFlags, RegInv
<1>7. SetInv'
  BY DEF ChipFlags, DpcFlags, PastFlags, SetInv, Due, Discarding
<1>8. LinkInv'
  BY DEF ChipFlags, DpcFlags, PastFlags, LinkInv
<1> QED BY <1>1, <1>2, <1>3, <1>4, <1>5, <1>6, <1>7, <1>8

(* The timer fires.                                                       *)
LEMMA TimerFiresStep ==
  ASSUME MacInv, Mac!TimerFires, UNCHANGED m_rev1
  PROVE  MacInv'
<1> USE DEF MacInv, FlagTypes, Mac!TimerFires, Mac!chipVars, Mac!flagVars, Mac!linkVars,
        Mac!setVars, Mac!pastVars
<1>1. ValueTypes' /\ Paths'
  BY DEF ValueTypes, Paths
<1>2. ChipFlags' /\ DpcFlags'
  BY DEF ChipFlags, DpcFlags
<1>3. PastFlags'
  BY DEF PastFlags
<1>4. AskInv' /\ IsrInv'
  BY DEF ChipFlags, DpcFlags, PastFlags, AskInv, IsrInv, StopBusy, SwBusy
<1>5. StopInv'
  BY DEF ChipFlags, DpcFlags, PastFlags, StopInv, Stopping, StopBusy, SwBusy, Discarding
<1>6. RegInv'
  BY DEF ChipFlags, DpcFlags, PastFlags, RegInv
<1>7. SetInv'
  BY DEF ChipFlags, DpcFlags, PastFlags, SetInv, Due, Discarding
<1>8. LinkInv'
  BY DEF ChipFlags, DpcFlags, PastFlags, LinkInv
<1> QED BY <1>1, <1>2, <1>3, <1>4, <1>5, <1>6, <1>7, <1>8

(* An error of the receiver.                                              *)
LEMMA ReceiverErrorStep ==
  ASSUME MacInv, Mac!ReceiverError, UNCHANGED m_rev1
  PROVE  MacInv'
<1> USE DEF MacInv, FlagTypes, Mac!ReceiverError, Mac!chipVars, Mac!flagVars, Mac!linkVars,
        Mac!setVars, Mac!pastVars
<1>1. ValueTypes' /\ Paths'
  BY DEF ValueTypes, Paths
<1>2. ChipFlags' /\ DpcFlags'
  BY DEF ChipFlags, DpcFlags
<1>3. PastFlags'
  BY DEF PastFlags
<1>4. AskInv' /\ IsrInv'
  BY DEF ChipFlags, DpcFlags, PastFlags, AskInv, IsrInv, StopBusy, SwBusy
<1>5. StopInv'
  BY DEF ChipFlags, DpcFlags, PastFlags, StopInv, Stopping, StopBusy, SwBusy, Discarding
<1>6. RegInv'
  BY DEF ChipFlags, DpcFlags, PastFlags, RegInv
<1>7. SetInv'
  BY DEF ChipFlags, DpcFlags, PastFlags, SetInv, Due, Discarding
<1>8. LinkInv'
  BY DEF ChipFlags, DpcFlags, PastFlags, LinkInv
<1> QED BY <1>1, <1>2, <1>3, <1>4, <1>5, <1>6, <1>7, <1>8

(* The ISR is called.                                                     *)
LEMMA IsrStepBegins ==
  ASSUME MacInv, NEW rx, Mac!Isr(rx), UNCHANGED m_rev1
  PROVE  MacInv'
<1> USE DEF MacInv, FlagTypes, Mac!Isr, Mac!chipVars, Mac!flagVars, Mac!linkVars, Mac!setVars,
        Mac!pastVars
<1>a. /\ Path("isr", m_isr') /\ m_isr' # << >> /\ Head(m_isr') # "discarded"
      /\ ~m_f100Done => Head(m_isr') = "workaround"
      /\ Has(m_isr', "workaround") => ~m_f100Done
      /\ Has(m_isr', "rxstop") => m_stopEn /\ m_stopSts
  BY IsrBegins
<1>1. ValueTypes' /\ Paths'
  BY <1>a DEF ValueTypes, Paths
<1>2. ChipFlags' /\ DpcFlags'
  BY <1>a DEF ChipFlags, DpcFlags
<1>3. PastFlags'
  BY <1>a DEF PastFlags
<1>4. AskInv' /\ IsrInv'
  BY <1>a DEF ChipFlags, DpcFlags, PastFlags, AskInv, IsrInv, StopBusy, SwBusy
<1>5. StopInv'
  BY <1>a DEF ChipFlags, DpcFlags, PastFlags, StopInv, Stopping, StopBusy, SwBusy, Discarding
<1>6. RegInv'
  BY <1>a DEF ChipFlags, DpcFlags, PastFlags, RegInv
<1>7. SetInv'
  BY <1>a DEF ChipFlags, DpcFlags, PastFlags, SetInv, Due, Discarding
<1>8. LinkInv'
  BY <1>a DEF ChipFlags, DpcFlags, PastFlags, LinkInv
<1> QED BY <1>1, <1>2, <1>3, <1>4, <1>5, <1>6, <1>7, <1>8

(* What a step of the ISR does to its list, and when it is not raced.      *)
IsrWent(op) ==
  /\ Path("isr", m_isr') /\ m_isr # << >> /\ Head(m_isr) = op
  /\ \A x : Has(m_isr, x) <=> x = op \/ Has(m_isr', x)
  /\ ~Has(m_isr', "workaround") /\ (op = "rxstop" => ~Has(m_isr', "rxstop"))
  /\ op = "leave" => m_isr' = << >>
  /\ op # "leave" => m_isr' # << >> /\ (Head(m_isr') = "discarded" <=> op = "discard")
  /\ m_raced' \in BOOLEAN /\ (m_raced => m_raced')
  /\ ~m_raced' /\ m_todo # << >> /\ m_todo[1] \in MacWrites => m_mac' = m_mac
  /\ ~m_raced' /\ Has(m_todo, "phy_done") => op # "phy"
  /\ m_mac.rxen \in BOOLEAN /\ m_mac.filt \in Nat /\ m_mac.full \in BOOLEAN
  /\ Has(m_todo, "sw_done") => Has(m_todo, "complete_sw")

LEMMA IsrWentOn ==
  ASSUME MacInv, Mac!Racing, NEW op, Mac!IsrAt(op)
  PROVE  IsrWent(op)
<1>1. m_mac \in MacCr /\ Paths /\ m_raced \in BOOLEAN
  BY DEF MacInv, ValueTypes, FlagTypes, PastFlags
<1>2. /\ Path("isr", m_isr') /\ m_isr # << >> /\ Head(m_isr) = op
      /\ \A x : Has(m_isr, x) <=> x = op \/ Has(m_isr', x)
      /\ ~Has(m_isr', "workaround") /\ (op = "rxstop" => ~Has(m_isr', "rxstop"))
      /\ op = "leave" => m_isr' = << >>
      /\ op # "leave" => m_isr' # << >> /\ (Head(m_isr') = "discarded" <=> op = "discard")
  BY <1>1, IsrAtStep DEF Paths
<1>3. /\ m_raced' \in BOOLEAN /\ (m_raced => m_raced')
      /\ ~m_raced' /\ m_todo # << >> /\ m_todo[1] \in MacWrites => m_mac' = m_mac
      /\ ~m_raced' /\ Has(m_todo, "phy_done") => op # "phy"
  BY <1>1, <1>2, NotRaced
<1>4. /\ m_mac.rxen \in BOOLEAN /\ m_mac.filt \in Nat /\ m_mac.full \in BOOLEAN
      /\ Has(m_todo, "sw_done") => Has(m_todo, "complete_sw")
  BY <1>1, Fields, PathHas DEF Paths
<1> QED BY <1>2, <1>3, <1>4 DEF IsrWent

(* The workaround stops the receiver, or sets it at once.                 *)
LEMMA WorkaroundStep ==
  ASSUME MacInv, Mac!MacRxEnWorkaround, Mac!Racing, UNCHANGED m_rev1
  PROVE  MacInv'
<1> USE DEF MacInv, FlagTypes, Mac!MacRxEnWorkaround, Mac!IsrAt, IsrWent, Mac!chipVars,
        Mac!flagVars, Mac!linkVars, Mac!setVars, Mac!pastVars
<1>a. IsrWent("workaround")
  BY IsrWentOn DEF Mac!MacRxEnWorkaround
<1>d.  /\ m_mac' \in MacCr /\ m_stopping' \in BOOLEAN /\ ((m_mac.rxen => ~m_stopping) => (m_mac'.rxen => ~m_stopping'))
       /\ m_mac.rxen => m_mac'.rxen = FALSE /\ m_mac'.filt = m_mac.filt /\ m_mac'.full = m_mac.full
       /\ ~m_mac.rxen => m_mac'.rxen = TRUE /\ m_mac'.filt = m_want /\ m_mac'.full = m_mac.full /\ m_stopping' = FALSE /\ m_hash' = m_wantHash
  <2>1. CASE m_mac.rxen
    BY <1>a, <2>1, Updated, RxEnWritten DEF ValueTypes, ChipFlags
  <2>2. CASE ~(m_mac.rxen)
    BY <1>a, <2>2, Updated, RxEnWritten DEF ValueTypes, ChipFlags
  <2> QED BY <2>1, <2>2
<1>1. ValueTypes' /\ Paths'
  BY <1>a, <1>d DEF ValueTypes, Paths
<1>2. ChipFlags' /\ DpcFlags'
  BY <1>a, <1>d DEF ChipFlags, DpcFlags
<1>3. PastFlags'
  BY <1>a, <1>d DEF PastFlags
<1>4. AskInv' /\ IsrInv'
  BY <1>a, <1>d DEF ChipFlags, DpcFlags, PastFlags, AskInv, IsrInv, StopBusy, SwBusy
<1>5. StopInv'
  BY <1>a, <1>d DEF ChipFlags, DpcFlags, PastFlags, StopInv, Stopping, StopBusy, SwBusy,
     Discarding, AskInv, IsrInv, StopBusy, SwBusy
<1>6. RegInv'
  BY <1>a, <1>d DEF ChipFlags, DpcFlags, PastFlags, RegInv
<1>7. SetInv'
  BY <1>a, <1>d DEF ChipFlags, DpcFlags, PastFlags, SetInv, Due, Discarding, AskInv, IsrInv,
     StopBusy, SwBusy
<1>8. LinkInv'
  BY <1>a, <1>d DEF ChipFlags, DpcFlags, PastFlags, LinkInv
<1> QED BY <1>1, <1>2, <1>3, <1>4, <1>5, <1>6, <1>7, <1>8

(* The ISR looks whether the receiver has stopped.                        *)
LEMMA CheckStoppedStep ==
  ASSUME MacInv, Mac!CheckStopped, Mac!Racing, UNCHANGED m_rev1
  PROVE  MacInv'
<1> USE DEF MacInv, FlagTypes, Mac!CheckStopped, Mac!IsrAt, IsrWent, Mac!chipVars, Mac!flagVars,
        Mac!linkVars, Mac!setVars, Mac!pastVars
<1>a. IsrWent("check")
  BY IsrWentOn DEF Mac!CheckStopped
<1>d.  /\ m_mac' \in MacCr /\ m_stopping' \in BOOLEAN /\ ((m_mac.rxen => ~m_stopping) => (m_mac'.rxen => ~m_stopping'))
       /\ ~m_f100Done /\ m_stopSts => m_mac'.rxen = TRUE /\ m_mac'.filt = m_want /\ m_mac'.full = m_mac.full /\ m_stopping' = FALSE /\ m_hash' = m_wantHash
       /\ ~(~m_f100Done /\ m_stopSts) => m_mac' = m_mac
  <2>1. CASE ~m_f100Done /\ m_stopSts
    BY <1>a, <2>1, Updated DEF ValueTypes, ChipFlags
  <2>2. CASE ~(~m_f100Done /\ m_stopSts)
    BY <1>a, <2>2, Updated DEF ValueTypes, ChipFlags
  <2> QED BY <2>1, <2>2
<1>1. ValueTypes' /\ Paths'
  BY <1>a, <1>d DEF ValueTypes, Paths
<1>2. ChipFlags' /\ DpcFlags'
  BY <1>a, <1>d DEF ChipFlags, DpcFlags
<1>3. PastFlags'
  BY <1>a, <1>d DEF PastFlags
<1>4. AskInv' /\ IsrInv'
  BY <1>a, <1>d DEF ChipFlags, DpcFlags, PastFlags, AskInv, IsrInv, StopBusy, SwBusy
<1>5. StopInv'
  BY <1>a, <1>d DEF ChipFlags, DpcFlags, PastFlags, StopInv, Stopping, StopBusy, SwBusy,
     Discarding, IsrInv
<1>6. RegInv'
  BY <1>a, <1>d DEF ChipFlags, DpcFlags, PastFlags, RegInv
<1>7. SetInv'
  BY <1>a, <1>d DEF ChipFlags, DpcFlags, PastFlags, SetInv, Due, Discarding, IsrInv
<1>8. LinkInv'
  BY <1>a, <1>d DEF ChipFlags, DpcFlags, PastFlags, LinkInv
<1> QED BY <1>1, <1>2, <1>3, <1>4, <1>5, <1>6, <1>7, <1>8

(* The ISR looks at the link.                                             *)
LEMMA CheckPhyStatusStep ==
  ASSUME MacInv, Mac!CheckPhyStatus, Mac!Racing, UNCHANGED m_rev1
  PROVE  MacInv'
<1> USE DEF MacInv, FlagTypes, Mac!CheckPhyStatus, Mac!IsrAt, IsrWent, Mac!chipVars, Mac!flagVars,
        Mac!linkVars, Mac!setVars, Mac!pastVars
<1>a. IsrWent("phy")
  BY IsrWentOn DEF Mac!CheckPhyStatus
<1>d.  /\ m_mac' \in MacCr /\ m_stopping' \in BOOLEAN /\ ((m_mac.rxen => ~m_stopping) => (m_mac'.rxen => ~m_stopping'))
       /\ m_mac'.rxen = m_mac.rxen /\ m_mac'.filt = m_mac.filt
       /\ m_link # "none" /\ ~m_wOldPhyBSR => m_mac'.full = Mac!Full(m_link)
       /\ ~(m_link # "none" /\ ~m_wOldPhyBSR) => m_mac' = m_mac
  <2>3. Mac!Full(m_link) \in BOOLEAN
    BY DEF Mac!Full
  <2>1. CASE m_link # "none" /\ ~m_wOldPhyBSR
    BY <1>a, <2>1, <2>3, FullWritten DEF ValueTypes, ChipFlags
  <2>2. CASE ~(m_link # "none" /\ ~m_wOldPhyBSR)
    BY <1>a, <2>2, <2>3, FullWritten DEF ValueTypes, ChipFlags
  <2> QED BY <2>1, <2>2
<1>1. ValueTypes' /\ Paths'
  BY <1>a, <1>d DEF ValueTypes, Paths
<1>2. ChipFlags' /\ DpcFlags'
  BY <1>a, <1>d DEF ChipFlags, DpcFlags
<1>3. PastFlags'
  BY <1>a, <1>d DEF PastFlags
<1>4. AskInv' /\ IsrInv'
  BY <1>a, <1>d DEF ChipFlags, DpcFlags, PastFlags, AskInv, IsrInv, StopBusy, SwBusy
<1>5. StopInv'
  BY <1>a, <1>d DEF ChipFlags, DpcFlags, PastFlags, StopInv, Stopping, StopBusy, SwBusy, Discarding
<1>6. RegInv'
  BY <1>a, <1>d DEF ChipFlags, DpcFlags, PastFlags, RegInv
<1>7. SetInv'
  BY <1>a, <1>d DEF ChipFlags, DpcFlags, PastFlags, SetInv, Due, Discarding
<1>8. LinkInv'
  BY <1>a, <1>d DEF ChipFlags, DpcFlags, PastFlags, LinkInv
<1> QED BY <1>1, <1>2, <1>3, <1>4, <1>5, <1>6, <1>7, <1>8

(* The ISR hears that the receiver has stopped.                           *)
LEMMA HandlerRxStopStep ==
  ASSUME MacInv, Mac!HandlerRxStopISR, Mac!Racing, UNCHANGED m_rev1
  PROVE  MacInv'
<1> USE DEF MacInv, FlagTypes, Mac!HandlerRxStopISR, Mac!IsrAt, IsrWent, Mac!chipVars,
        Mac!flagVars, Mac!linkVars, Mac!setVars, Mac!pastVars
<1>a. IsrWent("rxstop")
  BY IsrWentOn DEF Mac!HandlerRxStopISR
<1>d.  /\ m_mac' \in MacCr /\ m_stopping' \in BOOLEAN /\ ((m_mac.rxen => ~m_stopping) => (m_mac'.rxen => ~m_stopping'))
       /\ m_mac'.rxen = TRUE /\ m_mac'.filt = m_want /\ m_mac'.full = m_mac.full /\ m_stopping' = FALSE /\ m_hash' = m_wantHash
  BY <1>a, Updated DEF ValueTypes, ChipFlags
<1>1. ValueTypes' /\ Paths'
  BY <1>a, <1>d DEF ValueTypes, Paths
<1>2. ChipFlags' /\ DpcFlags'
  BY <1>a, <1>d DEF ChipFlags, DpcFlags
<1>3. PastFlags'
  BY <1>a, <1>d DEF PastFlags
<1>4. AskInv' /\ IsrInv'
  BY <1>a, <1>d DEF ChipFlags, DpcFlags, PastFlags, AskInv, IsrInv, StopBusy, SwBusy
<1>5. StopInv'
  BY <1>a, <1>d DEF ChipFlags, DpcFlags, PastFlags, StopInv, Stopping, StopBusy, SwBusy, Discarding
<1>6. RegInv'
  BY <1>a, <1>d DEF ChipFlags, DpcFlags, PastFlags, RegInv
<1>7. SetInv'
  BY <1>a, <1>d DEF ChipFlags, DpcFlags, PastFlags, SetInv, Due, Discarding
<1>8. LinkInv'
  BY <1>a, <1>d DEF ChipFlags, DpcFlags, PastFlags, LinkInv
<1> QED BY <1>1, <1>2, <1>3, <1>4, <1>5, <1>6, <1>7, <1>8

(* The ISR has the receiver discard a frame.                              *)
LEMMA DiscardStep ==
  ASSUME MacInv, Mac!Discard, Mac!Racing, UNCHANGED m_rev1
  PROVE  MacInv'
<1> USE DEF MacInv, FlagTypes, Mac!Discard, Mac!IsrAt, IsrWent, Mac!chipVars, Mac!flagVars,
        Mac!linkVars, Mac!setVars, Mac!pastVars
<1>a. IsrWent("discard")
  BY IsrWentOn DEF Mac!Discard
<1>d.  /\ m_mac' \in MacCr /\ m_stopping' \in BOOLEAN /\ ((m_mac.rxen => ~m_stopping) => (m_mac'.rxen => ~m_stopping'))
       /\ m_mac'.rxen = FALSE /\ m_mac'.filt = m_mac.filt /\ m_mac'.full = m_mac.full
  BY <1>a, RxEnWritten DEF ValueTypes, ChipFlags
<1>1. ValueTypes' /\ Paths'
  BY <1>a, <1>d DEF ValueTypes, Paths
<1>2. ChipFlags' /\ DpcFlags'
  BY <1>a, <1>d DEF ChipFlags, DpcFlags
<1>3. PastFlags'
  BY <1>a, <1>d DEF PastFlags
<1>4. AskInv' /\ IsrInv'
  BY <1>a, <1>d DEF ChipFlags, DpcFlags, PastFlags, AskInv, IsrInv, StopBusy, SwBusy
<1>5. StopInv'
  BY <1>a, <1>d DEF ChipFlags, DpcFlags, PastFlags, StopInv, Stopping, StopBusy, SwBusy, Discarding
<1>6. RegInv'
  BY <1>a, <1>d DEF ChipFlags, DpcFlags, PastFlags, RegInv
<1>7. SetInv'
  BY <1>a, <1>d DEF ChipFlags, DpcFlags, PastFlags, SetInv, Due, Discarding
<1>8. LinkInv'
  BY <1>a, <1>d DEF ChipFlags, DpcFlags, PastFlags, LinkInv
<1> QED BY <1>1, <1>2, <1>3, <1>4, <1>5, <1>6, <1>7, <1>8

(* The ISR has the receiver go on.                                        *)
LEMMA DiscardedStep ==
  ASSUME MacInv, Mac!Discarded, Mac!Racing, UNCHANGED m_rev1
  PROVE  MacInv'
<1> USE DEF MacInv, FlagTypes, Mac!Discarded, Mac!IsrAt, IsrWent, Mac!chipVars, Mac!flagVars,
        Mac!linkVars, Mac!setVars, Mac!pastVars
<1>a. IsrWent("discarded")
  BY IsrWentOn DEF Mac!Discarded
<1>d.  /\ m_mac' \in MacCr /\ m_stopping' \in BOOLEAN /\ ((m_mac.rxen => ~m_stopping) => (m_mac'.rxen => ~m_stopping'))
       /\ m_mac'.rxen = TRUE /\ m_mac'.filt = m_mac.filt /\ m_mac'.full = m_mac.full
  BY <1>a, RxEnWritten DEF ValueTypes, ChipFlags
<1>1. ValueTypes' /\ Paths'
  BY <1>a, <1>d DEF ValueTypes, Paths
<1>2. ChipFlags' /\ DpcFlags'
  BY <1>a, <1>d DEF ChipFlags, DpcFlags
<1>3. PastFlags'
  BY <1>a, <1>d DEF PastFlags
<1>4. AskInv' /\ IsrInv'
  BY <1>a, <1>d DEF ChipFlags, DpcFlags, PastFlags, AskInv, IsrInv, StopBusy, SwBusy
<1>5. StopInv'
  BY <1>a, <1>d DEF ChipFlags, DpcFlags, PastFlags, StopInv, Stopping, StopBusy, SwBusy, Discarding
<1>6. RegInv'
  BY <1>a, <1>d DEF ChipFlags, DpcFlags, PastFlags, RegInv
<1>7. SetInv'
  BY <1>a, <1>d DEF ChipFlags, DpcFlags, PastFlags, SetInv, Due, Discarding
<1>8. LinkInv'
  BY <1>a, <1>d DEF ChipFlags, DpcFlags, PastFlags, LinkInv
<1> QED BY <1>1, <1>2, <1>3, <1>4, <1>5, <1>6, <1>7, <1>8

(* The ISR tells the DPC of an overrun.                                   *)
LEMMA OverrunIsrStep ==
  ASSUME MacInv, Mac!Overrun, Mac!Racing, UNCHANGED m_rev1
  PROVE  MacInv'
<1> USE DEF MacInv, FlagTypes, Mac!Overrun, Mac!IsrAt, IsrWent, Mac!chipVars, Mac!flagVars,
        Mac!linkVars, Mac!setVars, Mac!pastVars
<1>a. IsrWent("overrun")
  BY IsrWentOn DEF Mac!Overrun
<1>1. ValueTypes' /\ Paths'
  BY <1>a DEF ValueTypes, Paths
<1>2. ChipFlags' /\ DpcFlags'
  BY <1>a DEF ChipFlags, DpcFlags
<1>3. PastFlags'
  BY <1>a DEF PastFlags
<1>4. AskInv' /\ IsrInv'
  BY <1>a DEF ChipFlags, DpcFlags, PastFlags, AskInv, IsrInv, StopBusy, SwBusy
<1>5. StopInv'
  BY <1>a DEF ChipFlags, DpcFlags, PastFlags, StopInv, Stopping, StopBusy, SwBusy, Discarding
<1>6. RegInv'
  BY <1>a DEF ChipFlags, DpcFlags, PastFlags, RegInv
<1>7. SetInv'
  BY <1>a DEF ChipFlags, DpcFlags, PastFlags, SetInv, Due, Discarding
<1>8. LinkInv'
  BY <1>a DEF ChipFlags, DpcFlags, PastFlags, LinkInv
<1> QED BY <1>1, <1>2, <1>3, <1>4, <1>5, <1>6, <1>7, <1>8

(* The ISR clears the software interrupt.                                 *)
LEMMA SwIntStep ==
  ASSUME MacInv, Mac!SwInt, Mac!Racing, UNCHANGED m_rev1
  PROVE  MacInv'
<1> USE DEF MacInv, FlagTypes, Mac!SwInt, Mac!IsrAt, IsrWent, Mac!chipVars, Mac!flagVars,
        Mac!linkVars, Mac!setVars, Mac!pastVars
<1>a. IsrWent("sw")
  BY IsrWentOn DEF Mac!SwInt
<1>1. ValueTypes' /\ Paths'
  BY <1>a DEF ValueTypes, Paths
<1>2. ChipFlags' /\ DpcFlags'
  BY <1>a DEF ChipFlags, DpcFlags
<1>3. PastFlags'
  BY <1>a DEF PastFlags
<1>4. AskInv' /\ IsrInv'
  BY <1>a DEF ChipFlags, DpcFlags, PastFlags, AskInv, IsrInv, StopBusy, SwBusy
<1>5. StopInv'
  BY <1>a DEF ChipFlags, DpcFlags, PastFlags, StopInv, Stopping, StopBusy, SwBusy, Discarding
<1>6. RegInv'
  BY <1>a DEF ChipFlags, DpcFlags, PastFlags, RegInv
<1>7. SetInv'
  BY <1>a DEF ChipFlags, DpcFlags, PastFlags, SetInv, Due, Discarding
<1>8. LinkInv'
  BY <1>a DEF ChipFlags, DpcFlags, PastFlags, LinkInv
<1> QED BY <1>1, <1>2, <1>3, <1>4, <1>5, <1>6, <1>7, <1>8

(* The ISR leaves.                                                        *)
LEMMA IsrLeaveStep ==
  ASSUME MacInv, Mac!IsrLeave, Mac!Racing, UNCHANGED m_rev1
  PROVE  MacInv'
<1> USE DEF MacInv, FlagTypes, Mac!IsrLeave, Mac!IsrAt, IsrWent, Mac!chipVars, Mac!flagVars,
        Mac!linkVars, Mac!setVars, Mac!pastVars
<1>a. IsrWent("leave")
  BY IsrWentOn DEF Mac!IsrLeave
<1>1. ValueTypes' /\ Paths'
  BY <1>a DEF ValueTypes, Paths
<1>2. ChipFlags' /\ DpcFlags'
  BY <1>a DEF ChipFlags, DpcFlags
<1>3. PastFlags'
  BY <1>a DEF PastFlags
<1>4. AskInv' /\ IsrInv'
  BY <1>a DEF ChipFlags, DpcFlags, PastFlags, AskInv, IsrInv, StopBusy, SwBusy
<1>5. StopInv'
  BY <1>a DEF ChipFlags, DpcFlags, PastFlags, StopInv, Stopping, StopBusy, SwBusy, Discarding
<1>6. RegInv'
  BY <1>a DEF ChipFlags, DpcFlags, PastFlags, RegInv
<1>7. SetInv'
  BY <1>a DEF ChipFlags, DpcFlags, PastFlags, SetInv, Due, Discarding
<1>8. LinkInv'
  BY <1>a DEF ChipFlags, DpcFlags, PastFlags, LinkInv
<1> QED BY <1>1, <1>2, <1>3, <1>4, <1>5, <1>6, <1>7, <1>8

(* What a handler's step that only takes its operation does to its list.   *)
GoesOn(op) ==
  /\ m_isr = << >> /\ m_isr' = << >> /\ m_dpc' = m_dpc /\ m_todo # << >> /\ m_todo[1] = op
  /\ Path("dpc", m_todo') /\ \A x : Has(m_todo, x) <=> x = op \/ Has(m_todo', x)
  /\ \A x : Has(m_todo', x) => DpcFits(op, x)
  /\ m_todo' # << >> => DpcMeets(op, m_todo'[1])
  /\ Ended("dpc", op) \/ \E x : DpcLeads(op, x) /\ Has(m_todo', x)
  /\ \A x : ~Has(m_isr, x) /\ ~Has(m_isr', x)
  /\ m_mac.rxen \in BOOLEAN /\ m_mac.filt \in Nat /\ m_mac.full \in BOOLEAN
  /\ Has(m_todo', "sw_done") => Has(m_todo', "complete_sw")
  /\ Has(m_todo', "stopint") \/ Has(m_todo', "f100") => Has(m_todo', "pend")
  /\ Has(m_todo', "pend") => m_todo' # << >>

LEMMA HandlerGoesOn == ASSUME MacInv, NEW op, Mac!Does(op) PROVE GoesOn(op)
<1>1. m_mac \in MacCr /\ Path("dpc", m_todo)
  BY DEF MacInv, ValueTypes, Paths
<1>2. /\ m_isr = << >> /\ m_isr' = << >> /\ m_dpc' = m_dpc /\ m_todo # << >> /\ m_todo[1] = op
      /\ Path("dpc", m_todo') /\ \A x : Has(m_todo, x) <=> x = op \/ Has(m_todo', x)
      /\ \A x : Has(m_todo', x) => DpcFits(op, x)
      /\ m_todo' # << >> => DpcMeets(op, m_todo'[1])
      /\ Ended("dpc", op) \/ \E x : DpcLeads(op, x) /\ Has(m_todo', x)
  BY <1>1, AtStep DEF Mac!Does, Meets
<1>3. \A x : ~Has(m_isr, x) /\ ~Has(m_isr', x)
  BY <1>2, HasNone
<1>4. /\ m_mac.rxen \in BOOLEAN /\ m_mac.filt \in Nat /\ m_mac.full \in BOOLEAN
      /\ Has(m_todo', "sw_done") => Has(m_todo', "complete_sw")
      /\ Has(m_todo', "stopint") \/ Has(m_todo', "f100") => Has(m_todo', "pend")
      /\ Has(m_todo', "pend") => m_todo' # << >>
  BY <1>1, <1>2, Fields, PathHas, HasNone
<1> QED BY <1>2, <1>3, <1>4 DEF GoesOn

(* A handler reads MAC_CR.                                                *)
LEMMA ReadStep ==
  ASSUME MacInv, Mac!Read, UNCHANGED m_rev1
  PROVE  MacInv'
<1> USE DEF MacInv, FlagTypes, Mac!Read, Mac!At, Mac!Does, Mac!chipVars, Mac!flagVars,
        Mac!linkVars, Mac!setVars, Mac!pastVars, GoesOn
<1>a. GoesOn("read")
  BY HandlerGoesOn DEF Mac!Read
<1>1. ValueTypes' /\ Paths'
  BY <1>a DEF ValueTypes, Paths
<1>2. ChipFlags' /\ DpcFlags'
  BY <1>a DEF ChipFlags, DpcFlags
<1>3. PastFlags'
  BY <1>a DEF PastFlags
<1>4. AskInv' /\ IsrInv'
  BY <1>a DEF ChipFlags, DpcFlags, PastFlags, AskInv, IsrInv, StopBusy, SwBusy, Ended, DpcFits,
     DpcLeads, DpcMeets, Asks, MacWrites
<1>5. StopInv'
  BY <1>a DEF ChipFlags, DpcFlags, PastFlags, StopInv, Stopping, StopBusy, SwBusy, Discarding,
     Ended, DpcFits, DpcLeads, DpcMeets, Asks, MacWrites
<1>6. RegInv'
  BY <1>a DEF ChipFlags, DpcFlags, PastFlags, RegInv, Ended, DpcFits, DpcLeads, DpcMeets, Asks,
     MacWrites
<1>7. SetInv'
  BY <1>a DEF ChipFlags, DpcFlags, PastFlags, SetInv, Due, Discarding, Ended, DpcFits, DpcLeads,
     DpcMeets, Asks, MacWrites
<1>8. LinkInv'
  BY <1>a DEF ChipFlags, DpcFlags, PastFlags, LinkInv, Ended, DpcFits, DpcLeads, DpcMeets, Asks,
     MacWrites
<1> QED BY <1>1, <1>2, <1>3, <1>4, <1>5, <1>6, <1>7, <1>8

(* A handler writes the hash.                                             *)
LEMMA WriteHashStep ==
  ASSUME MacInv, Mac!WriteHash, UNCHANGED m_rev1
  PROVE  MacInv'
<1> USE DEF MacInv, FlagTypes, Mac!WriteHash, Mac!At, Mac!Does, Mac!chipVars, Mac!flagVars,
        Mac!linkVars, Mac!setVars, Mac!pastVars, GoesOn
<1>a. GoesOn("hash")
  BY HandlerGoesOn DEF Mac!WriteHash
<1>1. ValueTypes' /\ Paths'
  BY <1>a DEF ValueTypes, Paths
<1>2. ChipFlags' /\ DpcFlags'
  BY <1>a DEF ChipFlags, DpcFlags
<1>3. PastFlags'
  BY <1>a DEF PastFlags
<1>4. AskInv' /\ IsrInv'
  BY <1>a DEF ChipFlags, DpcFlags, PastFlags, AskInv, IsrInv, StopBusy, SwBusy, Ended, DpcFits,
     DpcLeads, DpcMeets, Asks, MacWrites
<1>5. StopInv'
  BY <1>a DEF ChipFlags, DpcFlags, PastFlags, StopInv, Stopping, StopBusy, SwBusy, Discarding,
     Ended, DpcFits, DpcLeads, DpcMeets, Asks, MacWrites
<1>6. RegInv'
  BY <1>a DEF ChipFlags, DpcFlags, PastFlags, RegInv, Ended, DpcFits, DpcLeads, DpcMeets, Asks,
     MacWrites
<1>7. SetInv'
  BY <1>a DEF ChipFlags, DpcFlags, PastFlags, SetInv, Due, Discarding, Ended, DpcFits, DpcLeads,
     DpcMeets, Asks, MacWrites
<1>8. LinkInv'
  BY <1>a DEF ChipFlags, DpcFlags, PastFlags, LinkInv, Ended, DpcFits, DpcLeads, DpcMeets, Asks,
     MacWrites
<1> QED BY <1>1, <1>2, <1>3, <1>4, <1>5, <1>6, <1>7, <1>8

(* A handler sees that the receiver has stopped.                          *)
LEMMA WaitStopStep ==
  ASSUME MacInv, Mac!WaitStop, UNCHANGED m_rev1
  PROVE  MacInv'
<1> USE DEF MacInv, FlagTypes, Mac!WaitStop, Mac!At, Mac!Does, Mac!chipVars, Mac!flagVars,
        Mac!linkVars, Mac!setVars, Mac!pastVars, GoesOn
<1>a. GoesOn("waitstop")
  BY HandlerGoesOn DEF Mac!WaitStop
<1>1. ValueTypes' /\ Paths'
  BY <1>a DEF ValueTypes, Paths
<1>2. ChipFlags' /\ DpcFlags'
  BY <1>a DEF ChipFlags, DpcFlags
<1>3. PastFlags'
  BY <1>a DEF PastFlags
<1>4. AskInv' /\ IsrInv'
  BY <1>a DEF ChipFlags, DpcFlags, PastFlags, AskInv, IsrInv, StopBusy, SwBusy, Ended, DpcFits,
     DpcLeads, DpcMeets, Asks, MacWrites
<1>5. StopInv'
  BY <1>a DEF ChipFlags, DpcFlags, PastFlags, StopInv, Stopping, StopBusy, SwBusy, Discarding,
     Ended, DpcFits, DpcLeads, DpcMeets, Asks, MacWrites
<1>6. RegInv'
  BY <1>a DEF ChipFlags, DpcFlags, PastFlags, RegInv, Ended, DpcFits, DpcLeads, DpcMeets, Asks,
     MacWrites
<1>7. SetInv'
  BY <1>a DEF ChipFlags, DpcFlags, PastFlags, SetInv, Due, Discarding, Ended, DpcFits, DpcLeads,
     DpcMeets, Asks, MacWrites
<1>8. LinkInv'
  BY <1>a DEF ChipFlags, DpcFlags, PastFlags, LinkInv, Ended, DpcFits, DpcLeads, DpcMeets, Asks,
     MacWrites
<1> QED BY <1>1, <1>2, <1>3, <1>4, <1>5, <1>6, <1>7, <1>8

(* SetInformation returns, pending.                                       *)
LEMMA PendStep ==
  ASSUME MacInv, Mac!Pend, UNCHANGED m_rev1
  PROVE  MacInv'
<1> USE DEF MacInv, FlagTypes, Mac!Pend, Mac!At, Mac!Does, Mac!chipVars, Mac!flagVars,
        Mac!linkVars, Mac!setVars, Mac!pastVars, GoesOn
<1>a. GoesOn("pend")
  BY HandlerGoesOn DEF Mac!Pend
<1>1. ValueTypes' /\ Paths'
  BY <1>a DEF ValueTypes, Paths
<1>2. ChipFlags' /\ DpcFlags'
  BY <1>a DEF ChipFlags, DpcFlags
<1>3. PastFlags'
  BY <1>a DEF PastFlags
<1>4. AskInv' /\ IsrInv'
  BY <1>a DEF ChipFlags, DpcFlags, PastFlags, AskInv, IsrInv, StopBusy, SwBusy, Ended, DpcFits,
     DpcLeads, DpcMeets, Asks, MacWrites
<1>5. StopInv'
  BY <1>a DEF ChipFlags, DpcFlags, PastFlags, StopInv, Stopping, StopBusy, SwBusy, Discarding,
     Ended, DpcFits, DpcLeads, DpcMeets, Asks, MacWrites
<1>6. RegInv'
  BY <1>a DEF ChipFlags, DpcFlags, PastFlags, RegInv, Ended, DpcFits, DpcLeads, DpcMeets, Asks,
     MacWrites
<1>7. SetInv'
  BY <1>a DEF ChipFlags, DpcFlags, PastFlags, SetInv, Due, Discarding, Ended, DpcFits, DpcLeads,
     DpcMeets, Asks, MacWrites
<1>8. LinkInv'
  BY <1>a DEF ChipFlags, DpcFlags, PastFlags, LinkInv, Ended, DpcFits, DpcLeads, DpcMeets, Asks,
     MacWrites
<1> QED BY <1>1, <1>2, <1>3, <1>4, <1>5, <1>6, <1>7, <1>8

(* The link was told.                                                     *)
LEMMA LinkIndicatedStep ==
  ASSUME MacInv, Mac!LinkIndicated, UNCHANGED m_rev1
  PROVE  MacInv'
<1> USE DEF MacInv, FlagTypes, Mac!LinkIndicated, Mac!At, Mac!Does, Mac!chipVars, Mac!flagVars,
        Mac!linkVars, Mac!setVars, Mac!pastVars, GoesOn
<1>a. GoesOn("phy_done")
  BY HandlerGoesOn DEF Mac!LinkIndicated
<1>1. ValueTypes' /\ Paths'
  BY <1>a DEF ValueTypes, Paths
<1>2. ChipFlags' /\ DpcFlags'
  BY <1>a DEF ChipFlags, DpcFlags
<1>3. PastFlags'
  BY <1>a DEF PastFlags
<1>4. AskInv' /\ IsrInv'
  BY <1>a DEF ChipFlags, DpcFlags, PastFlags, AskInv, IsrInv, StopBusy, SwBusy, Ended, DpcFits,
     DpcLeads, DpcMeets, Asks, MacWrites
<1>5. StopInv'
  BY <1>a DEF ChipFlags, DpcFlags, PastFlags, StopInv, Stopping, StopBusy, SwBusy, Discarding,
     Ended, DpcFits, DpcLeads, DpcMeets, Asks, MacWrites
<1>6. RegInv'
  BY <1>a DEF ChipFlags, DpcFlags, PastFlags, RegInv, Ended, DpcFits, DpcLeads, DpcMeets, Asks,
     MacWrites
<1>7. SetInv'
  BY <1>a DEF ChipFlags, DpcFlags, PastFlags, SetInv, Due, Discarding, Ended, DpcFits, DpcLeads,
     DpcMeets, Asks, MacWrites
<1>8. LinkInv'
  BY <1>a DEF ChipFlags, DpcFlags, PastFlags, LinkInv, Ended, DpcFits, DpcLeads, DpcMeets, Asks,
     MacWrites
<1> QED BY <1>1, <1>2, <1>3, <1>4, <1>5, <1>6, <1>7, <1>8

(* The workaround is at its end.                                          *)
LEMMA SwDoneStep ==
  ASSUME MacInv, Mac!SwDone, UNCHANGED m_rev1
  PROVE  MacInv'
<1> USE DEF MacInv, FlagTypes, Mac!SwDone, Mac!At, Mac!Does, Mac!chipVars, Mac!flagVars,
        Mac!linkVars, Mac!setVars, Mac!pastVars, GoesOn
<1>a. GoesOn("sw_done")
  BY HandlerGoesOn DEF Mac!SwDone
<1>1. ValueTypes' /\ Paths'
  BY <1>a DEF ValueTypes, Paths
<1>2. ChipFlags' /\ DpcFlags'
  BY <1>a DEF ChipFlags, DpcFlags
<1>3. PastFlags'
  BY <1>a DEF PastFlags
<1>4. AskInv' /\ IsrInv'
  BY <1>a DEF ChipFlags, DpcFlags, PastFlags, AskInv, IsrInv, StopBusy, SwBusy, Ended, DpcFits,
     DpcLeads, DpcMeets, Asks, MacWrites
<1>5. StopInv'
  BY <1>a DEF ChipFlags, DpcFlags, PastFlags, StopInv, Stopping, StopBusy, SwBusy, Discarding,
     Ended, DpcFits, DpcLeads, DpcMeets, Asks, MacWrites
<1>6. RegInv'
  BY <1>a DEF ChipFlags, DpcFlags, PastFlags, RegInv, Ended, DpcFits, DpcLeads, DpcMeets, Asks,
     MacWrites
<1>7. SetInv'
  BY <1>a DEF ChipFlags, DpcFlags, PastFlags, SetInv, Due, Discarding, Ended, DpcFits, DpcLeads,
     DpcMeets, Asks, MacWrites
<1>8. LinkInv'
  BY <1>a DEF ChipFlags, DpcFlags, PastFlags, LinkInv, Ended, DpcFits, DpcLeads, DpcMeets, Asks,
     MacWrites
<1> QED BY <1>1, <1>2, <1>3, <1>4, <1>5, <1>6, <1>7, <1>8

(* The overrun is at its end.                                             *)
LEMMA OverrunDoneStep ==
  ASSUME MacInv, Mac!OverrunDone, UNCHANGED m_rev1
  PROVE  MacInv'
<1> USE DEF MacInv, FlagTypes, Mac!OverrunDone, Mac!At, Mac!Does, Mac!chipVars, Mac!flagVars,
        Mac!linkVars, Mac!setVars, Mac!pastVars, GoesOn
<1>a. GoesOn("over_done")
  BY HandlerGoesOn DEF Mac!OverrunDone
<1>1. ValueTypes' /\ Paths'
  BY <1>a DEF ValueTypes, Paths
<1>2. ChipFlags' /\ DpcFlags'
  BY <1>a DEF ChipFlags, DpcFlags
<1>3. PastFlags'
  BY <1>a DEF PastFlags
<1>4. AskInv' /\ IsrInv'
  BY <1>a DEF ChipFlags, DpcFlags, PastFlags, AskInv, IsrInv, StopBusy, SwBusy, Ended, DpcFits,
     DpcLeads, DpcMeets, Asks, MacWrites
<1>5. StopInv'
  BY <1>a DEF ChipFlags, DpcFlags, PastFlags, StopInv, Stopping, StopBusy, SwBusy, Discarding,
     Ended, DpcFits, DpcLeads, DpcMeets, Asks, MacWrites
<1>6. RegInv'
  BY <1>a DEF ChipFlags, DpcFlags, PastFlags, RegInv, Ended, DpcFits, DpcLeads, DpcMeets, Asks,
     MacWrites
<1>7. SetInv'
  BY <1>a DEF ChipFlags, DpcFlags, PastFlags, SetInv, Due, Discarding, Ended, DpcFits, DpcLeads,
     DpcMeets, Asks, MacWrites
<1>8. LinkInv'
  BY <1>a DEF ChipFlags, DpcFlags, PastFlags, LinkInv, Ended, DpcFits, DpcLeads, DpcMeets, Asks,
     MacWrites
<1> QED BY <1>1, <1>2, <1>3, <1>4, <1>5, <1>6, <1>7, <1>8

(* A handler takes RXEN away.                                             *)
LEMMA WriteOffStep ==
  ASSUME MacInv, Mac!Write, Mac!Does("off"), UNCHANGED m_rev1
  PROVE  MacInv'
<1> USE DEF MacInv, FlagTypes, Mac!Write, Mac!At, Mac!Does, Mac!chipVars, Mac!flagVars,
        Mac!linkVars, Mac!setVars, Mac!pastVars, GoesOn
<1>a. GoesOn("off")
  BY HandlerGoesOn
<1>d.  /\ m_reg' \in MacCr /\ m_mac' = m_reg' /\ m_mac' \in MacCr /\ m_stopping' \in BOOLEAN /\ (m_mac'.rxen => ~m_stopping')
       /\ m_mac'.rxen = FALSE /\ (~m_raced => m_mac'.filt = m_mac.filt /\ m_mac'.full = m_mac.full /\ m_mac'.rxen = FALSE)
  <2> DEFINE m == [m_reg EXCEPT !.rxen = FALSE]
  <2>1. m \in MacCr /\ m.rxen = FALSE /\ m.filt = m_reg.filt /\ m.full = m_reg.full
    BY DEF ValueTypes, MacCr
  <2>2. m_reg' = m /\ Mac!WriteMac(m)
    BY <1>a DEF Mac!Write, Mac!Does, Mac!At
  <2> HIDE DEF m
  <2>3. m.rxen \in BOOLEAN
    BY <2>1, Fields
  <2>4. m_mac' = m /\ m_stopping' \in BOOLEAN /\ (m.rxen => ~m_stopping')
    BY <1>a, <2>2, <2>3 DEF Mac!WriteMac, ChipFlags
  <2>5. ~m_raced => m_reg = m_mac
    BY <1>a DEF RegInv, MacWrites
  <2> QED BY <2>1, <2>2, <2>4, <2>5
<1>1. ValueTypes' /\ Paths'
  BY <1>a, <1>d DEF ValueTypes, Paths
<1>2. ChipFlags' /\ DpcFlags'
  BY <1>a, <1>d DEF ChipFlags, DpcFlags
<1>3. PastFlags'
  BY <1>a, <1>d DEF PastFlags
<1>4. AskInv' /\ IsrInv'
  BY <1>a, <1>d DEF ChipFlags, DpcFlags, PastFlags, AskInv, IsrInv, StopBusy, SwBusy, Ended,
     DpcFits, DpcLeads, DpcMeets, Asks, MacWrites
<1>5. StopInv'
  BY <1>a, <1>d DEF ChipFlags, DpcFlags, PastFlags, StopInv, Stopping, StopBusy, SwBusy,
     Discarding, Ended, DpcFits, DpcLeads, DpcMeets, Asks, MacWrites, StopInv, Stopping
<1>6. RegInv'
  BY <1>a, <1>d DEF ChipFlags, DpcFlags, PastFlags, RegInv, Ended, DpcFits, DpcLeads, DpcMeets,
     Asks, MacWrites
<1>7. SetInv'
  BY <1>a, <1>d DEF ChipFlags, DpcFlags, PastFlags, SetInv, Due, Discarding, Ended, DpcFits,
     DpcLeads, DpcMeets, Asks, MacWrites, StopInv, Stopping
<1>8. LinkInv'
  BY <1>a, <1>d DEF ChipFlags, DpcFlags, PastFlags, LinkInv, Ended, DpcFits, DpcLeads, DpcMeets,
     Asks, MacWrites
<1> QED BY <1>1, <1>2, <1>3, <1>4, <1>5, <1>6, <1>7, <1>8

(* A handler writes the filter.                                           *)
LEMMA WriteFilterStep ==
  ASSUME MacInv, Mac!Write, Mac!Does("filter"), UNCHANGED m_rev1
  PROVE  MacInv'
<1> USE DEF MacInv, FlagTypes, Mac!Write, Mac!At, Mac!Does, Mac!chipVars, Mac!flagVars,
        Mac!linkVars, Mac!setVars, Mac!pastVars, GoesOn
<1>a. GoesOn("filter")
  BY HandlerGoesOn
<1>d.  /\ m_reg' \in MacCr /\ m_mac' = m_reg' /\ m_mac' \in MacCr /\ m_stopping' \in BOOLEAN /\ (m_mac'.rxen => ~m_stopping')
       /\ m_mac'.rxen = m_reg.rxen /\ (~m_raced => m_mac'.filt = m_want /\ m_mac'.full = m_mac.full /\ m_mac'.rxen = m_mac.rxen)
  <2> DEFINE m == [m_reg EXCEPT !.filt = m_want]
  <2>1. m \in MacCr /\ m.rxen = m_reg.rxen /\ m.filt = m_want /\ m.full = m_reg.full
    BY DEF ValueTypes, MacCr
  <2>2. m_reg' = m /\ Mac!WriteMac(m)
    BY <1>a DEF Mac!Write, Mac!Does, Mac!At
  <2> HIDE DEF m
  <2>3. m.rxen \in BOOLEAN
    BY <2>1, Fields
  <2>4. m_mac' = m /\ m_stopping' \in BOOLEAN /\ (m.rxen => ~m_stopping')
    BY <1>a, <2>2, <2>3 DEF Mac!WriteMac, ChipFlags
  <2>5. ~m_raced => m_reg = m_mac
    BY <1>a DEF RegInv, MacWrites
  <2> QED BY <2>1, <2>2, <2>4, <2>5
<1>1. ValueTypes' /\ Paths'
  BY <1>a, <1>d DEF ValueTypes, Paths
<1>2. ChipFlags' /\ DpcFlags'
  BY <1>a, <1>d DEF ChipFlags, DpcFlags
<1>3. PastFlags'
  BY <1>a, <1>d DEF PastFlags
<1>4. AskInv' /\ IsrInv'
  BY <1>a, <1>d DEF ChipFlags, DpcFlags, PastFlags, AskInv, IsrInv, StopBusy, SwBusy, Ended,
     DpcFits, DpcLeads, DpcMeets, Asks, MacWrites
<1>5. StopInv'
  BY <1>a, <1>d DEF ChipFlags, DpcFlags, PastFlags, StopInv, Stopping, StopBusy, SwBusy,
     Discarding, Ended, DpcFits, DpcLeads, DpcMeets, Asks, MacWrites, StopInv, Stopping
<1>6. RegInv'
  BY <1>a, <1>d DEF ChipFlags, DpcFlags, PastFlags, RegInv, Ended, DpcFits, DpcLeads, DpcMeets,
     Asks, MacWrites
<1>7. SetInv'
  BY <1>a, <1>d DEF ChipFlags, DpcFlags, PastFlags, SetInv, Due, Discarding, Ended, DpcFits,
     DpcLeads, DpcMeets, Asks, MacWrites, StopInv, Stopping
<1>8. LinkInv'
  BY <1>a, <1>d DEF ChipFlags, DpcFlags, PastFlags, LinkInv, Ended, DpcFits, DpcLeads, DpcMeets,
     Asks, MacWrites
<1> QED BY <1>1, <1>2, <1>3, <1>4, <1>5, <1>6, <1>7, <1>8

(* A handler sets RXEN.                                                   *)
LEMMA WriteOnStep ==
  ASSUME MacInv, Mac!Write, Mac!Does("on"), UNCHANGED m_rev1
  PROVE  MacInv'
<1> USE DEF MacInv, FlagTypes, Mac!Write, Mac!At, Mac!Does, Mac!chipVars, Mac!flagVars,
        Mac!linkVars, Mac!setVars, Mac!pastVars, GoesOn
<1>a. GoesOn("on")
  BY HandlerGoesOn
<1>d.  /\ m_reg' \in MacCr /\ m_mac' = m_reg' /\ m_mac' \in MacCr /\ m_stopping' \in BOOLEAN /\ (m_mac'.rxen => ~m_stopping')
       /\ m_mac'.rxen = TRUE /\ (~m_raced => m_mac'.filt = m_mac.filt /\ m_mac'.full = m_mac.full /\ m_mac'.rxen = TRUE)
  <2> DEFINE m == [m_reg EXCEPT !.rxen = TRUE]
  <2>1. m \in MacCr /\ m.rxen = TRUE /\ m.filt = m_reg.filt /\ m.full = m_reg.full
    BY DEF ValueTypes, MacCr
  <2>2. m_reg' = m /\ Mac!WriteMac(m)
    BY <1>a DEF Mac!Write, Mac!Does, Mac!At
  <2> HIDE DEF m
  <2>3. m.rxen \in BOOLEAN
    BY <2>1, Fields
  <2>4. m_mac' = m /\ m_stopping' \in BOOLEAN /\ (m.rxen => ~m_stopping')
    BY <1>a, <2>2, <2>3 DEF Mac!WriteMac, ChipFlags
  <2>5. ~m_raced => m_reg = m_mac
    BY <1>a DEF RegInv, MacWrites
  <2> QED BY <2>1, <2>2, <2>4, <2>5
<1>1. ValueTypes' /\ Paths'
  BY <1>a, <1>d DEF ValueTypes, Paths
<1>2. ChipFlags' /\ DpcFlags'
  BY <1>a, <1>d DEF ChipFlags, DpcFlags
<1>3. PastFlags'
  BY <1>a, <1>d DEF PastFlags
<1>4. AskInv' /\ IsrInv'
  BY <1>a, <1>d DEF ChipFlags, DpcFlags, PastFlags, AskInv, IsrInv, StopBusy, SwBusy, Ended,
     DpcFits, DpcLeads, DpcMeets, Asks, MacWrites
<1>5. StopInv'
  BY <1>a, <1>d DEF ChipFlags, DpcFlags, PastFlags, StopInv, Stopping, StopBusy, SwBusy,
     Discarding, Ended, DpcFits, DpcLeads, DpcMeets, Asks, MacWrites, StopInv, Stopping
<1>6. RegInv'
  BY <1>a, <1>d DEF ChipFlags, DpcFlags, PastFlags, RegInv, Ended, DpcFits, DpcLeads, DpcMeets,
     Asks, MacWrites
<1>7. SetInv'
  BY <1>a, <1>d DEF ChipFlags, DpcFlags, PastFlags, SetInv, Due, Discarding, Ended, DpcFits,
     DpcLeads, DpcMeets, Asks, MacWrites, StopInv, Stopping
<1>8. LinkInv'
  BY <1>a, <1>d DEF ChipFlags, DpcFlags, PastFlags, LinkInv, Ended, DpcFits, DpcLeads, DpcMeets,
     Asks, MacWrites
<1> QED BY <1>1, <1>2, <1>3, <1>4, <1>5, <1>6, <1>7, <1>8

(* A handler writes the filter and sets RXEN.                             *)
LEMMA WriteFilterOnStep ==
  ASSUME MacInv, Mac!Write, Mac!Does("filter_on"), UNCHANGED m_rev1
  PROVE  MacInv'
<1> USE DEF MacInv, FlagTypes, Mac!Write, Mac!At, Mac!Does, Mac!chipVars, Mac!flagVars,
        Mac!linkVars, Mac!setVars, Mac!pastVars, GoesOn
<1>a. GoesOn("filter_on")
  BY HandlerGoesOn
<1>d.  /\ m_reg' \in MacCr /\ m_mac' = m_reg' /\ m_mac' \in MacCr /\ m_stopping' \in BOOLEAN /\ (m_mac'.rxen => ~m_stopping')
       /\ m_mac'.rxen = TRUE /\ (~m_raced => m_mac'.filt = m_want /\ m_mac'.full = m_mac.full /\ m_mac'.rxen = TRUE)
  <2> DEFINE m == [m_reg EXCEPT !.filt = m_want, !.rxen = TRUE]
  <2>1. m \in MacCr /\ m.rxen = TRUE /\ m.filt = m_want /\ m.full = m_reg.full
    BY DEF ValueTypes, MacCr
  <2>2. m_reg' = m /\ Mac!WriteMac(m)
    BY <1>a DEF Mac!Write, Mac!Does, Mac!At
  <2> HIDE DEF m
  <2>3. m.rxen \in BOOLEAN
    BY <2>1, Fields
  <2>4. m_mac' = m /\ m_stopping' \in BOOLEAN /\ (m.rxen => ~m_stopping')
    BY <1>a, <2>2, <2>3 DEF Mac!WriteMac, ChipFlags
  <2>5. ~m_raced => m_reg = m_mac
    BY <1>a DEF RegInv, MacWrites
  <2> QED BY <2>1, <2>2, <2>4, <2>5
<1>1. ValueTypes' /\ Paths'
  BY <1>a, <1>d DEF ValueTypes, Paths
<1>2. ChipFlags' /\ DpcFlags'
  BY <1>a, <1>d DEF ChipFlags, DpcFlags
<1>3. PastFlags'
  BY <1>a, <1>d DEF PastFlags
<1>4. AskInv' /\ IsrInv'
  BY <1>a, <1>d DEF ChipFlags, DpcFlags, PastFlags, AskInv, IsrInv, StopBusy, SwBusy, Ended,
     DpcFits, DpcLeads, DpcMeets, Asks, MacWrites
<1>5. StopInv'
  BY <1>a, <1>d DEF ChipFlags, DpcFlags, PastFlags, StopInv, Stopping, StopBusy, SwBusy,
     Discarding, Ended, DpcFits, DpcLeads, DpcMeets, Asks, MacWrites, StopInv, Stopping
<1>6. RegInv'
  BY <1>a, <1>d DEF ChipFlags, DpcFlags, PastFlags, RegInv, Ended, DpcFits, DpcLeads, DpcMeets,
     Asks, MacWrites
<1>7. SetInv'
  BY <1>a, <1>d DEF ChipFlags, DpcFlags, PastFlags, SetInv, Due, Discarding, Ended, DpcFits,
     DpcLeads, DpcMeets, Asks, MacWrites, StopInv, Stopping
<1>8. LinkInv'
  BY <1>a, <1>d DEF ChipFlags, DpcFlags, PastFlags, LinkInv, Ended, DpcFits, DpcLeads, DpcMeets,
     Asks, MacWrites
<1> QED BY <1>1, <1>2, <1>3, <1>4, <1>5, <1>6, <1>7, <1>8

(* A handler clears RXSTOP.                                               *)
LEMMA ClearStopStep ==
  ASSUME MacInv, Mac!Interrupts, Mac!Does("clearstop"), UNCHANGED m_rev1
  PROVE  MacInv'
<1> USE DEF MacInv, FlagTypes, Mac!Interrupts, Mac!At, Mac!Does, Mac!chipVars, Mac!flagVars,
        Mac!linkVars, Mac!setVars, Mac!pastVars, GoesOn
<1>a. GoesOn("clearstop")
  BY HandlerGoesOn
<1>1. ValueTypes' /\ Paths'
  BY <1>a DEF ValueTypes, Paths
<1>2. ChipFlags' /\ DpcFlags'
  BY <1>a DEF ChipFlags, DpcFlags
<1>3. PastFlags'
  BY <1>a DEF PastFlags
<1>4. AskInv' /\ IsrInv'
  BY <1>a DEF ChipFlags, DpcFlags, PastFlags, AskInv, IsrInv, StopBusy, SwBusy, Ended, DpcFits,
     DpcLeads, DpcMeets, Asks, MacWrites
<1>5. StopInv'
  BY <1>a DEF ChipFlags, DpcFlags, PastFlags, StopInv, Stopping, StopBusy, SwBusy, Discarding,
     Ended, DpcFits, DpcLeads, DpcMeets, Asks, MacWrites, AskInv
<1>6. RegInv'
  BY <1>a DEF ChipFlags, DpcFlags, PastFlags, RegInv, Ended, DpcFits, DpcLeads, DpcMeets, Asks,
     MacWrites
<1>7. SetInv'
  BY <1>a DEF ChipFlags, DpcFlags, PastFlags, SetInv, Due, Discarding, Ended, DpcFits, DpcLeads,
     DpcMeets, Asks, MacWrites, AskInv
<1>8. LinkInv'
  BY <1>a DEF ChipFlags, DpcFlags, PastFlags, LinkInv, Ended, DpcFits, DpcLeads, DpcMeets, Asks,
     MacWrites
<1> QED BY <1>1, <1>2, <1>3, <1>4, <1>5, <1>6, <1>7, <1>8

(* A handler enables RXSTOP.                                              *)
LEMMA StopIntStep ==
  ASSUME MacInv, Mac!Interrupts, Mac!Does("stopint"), UNCHANGED m_rev1
  PROVE  MacInv'
<1> USE DEF MacInv, FlagTypes, Mac!Interrupts, Mac!At, Mac!Does, Mac!chipVars, Mac!flagVars,
        Mac!linkVars, Mac!setVars, Mac!pastVars, GoesOn
<1>a. GoesOn("stopint")
  BY HandlerGoesOn
<1>1. ValueTypes' /\ Paths'
  BY <1>a DEF ValueTypes, Paths
<1>2. ChipFlags' /\ DpcFlags'
  BY <1>a DEF ChipFlags, DpcFlags
<1>3. PastFlags'
  BY <1>a DEF PastFlags
<1>4. AskInv' /\ IsrInv'
  BY <1>a DEF ChipFlags, DpcFlags, PastFlags, AskInv, IsrInv, StopBusy, SwBusy, Ended, DpcFits,
     DpcLeads, DpcMeets, Asks, MacWrites
<1>5. StopInv'
  BY <1>a DEF ChipFlags, DpcFlags, PastFlags, StopInv, Stopping, StopBusy, SwBusy, Discarding,
     Ended, DpcFits, DpcLeads, DpcMeets, Asks, MacWrites, AskInv
<1>6. RegInv'
  BY <1>a DEF ChipFlags, DpcFlags, PastFlags, RegInv, Ended, DpcFits, DpcLeads, DpcMeets, Asks,
     MacWrites
<1>7. SetInv'
  BY <1>a DEF ChipFlags, DpcFlags, PastFlags, SetInv, Due, Discarding, Ended, DpcFits, DpcLeads,
     DpcMeets, Asks, MacWrites, AskInv
<1>8. LinkInv'
  BY <1>a DEF ChipFlags, DpcFlags, PastFlags, LinkInv, Ended, DpcFits, DpcLeads, DpcMeets, Asks,
     MacWrites
<1> QED BY <1>1, <1>2, <1>3, <1>4, <1>5, <1>6, <1>7, <1>8

(* A handler asks for the workaround.                                     *)
LEMMA F100Step ==
  ASSUME MacInv, Mac!Interrupts, Mac!Does("f100"), UNCHANGED m_rev1
  PROVE  MacInv'
<1> USE DEF MacInv, FlagTypes, Mac!Interrupts, Mac!At, Mac!Does, Mac!chipVars, Mac!flagVars,
        Mac!linkVars, Mac!setVars, Mac!pastVars, GoesOn
<1>a. GoesOn("f100")
  BY HandlerGoesOn
<1>1. ValueTypes' /\ Paths'
  BY <1>a DEF ValueTypes, Paths
<1>2. ChipFlags' /\ DpcFlags'
  BY <1>a DEF ChipFlags, DpcFlags
<1>3. PastFlags'
  BY <1>a DEF PastFlags
<1>4. AskInv' /\ IsrInv'
  BY <1>a DEF ChipFlags, DpcFlags, PastFlags, AskInv, IsrInv, StopBusy, SwBusy, Ended, DpcFits,
     DpcLeads, DpcMeets, Asks, MacWrites
<1>5. StopInv'
  BY <1>a DEF ChipFlags, DpcFlags, PastFlags, StopInv, Stopping, StopBusy, SwBusy, Discarding,
     Ended, DpcFits, DpcLeads, DpcMeets, Asks, MacWrites, AskInv
<1>6. RegInv'
  BY <1>a DEF ChipFlags, DpcFlags, PastFlags, RegInv, Ended, DpcFits, DpcLeads, DpcMeets, Asks,
     MacWrites
<1>7. SetInv'
  BY <1>a DEF ChipFlags, DpcFlags, PastFlags, SetInv, Due, Discarding, Ended, DpcFits, DpcLeads,
     DpcMeets, Asks, MacWrites, AskInv
<1>8. LinkInv'
  BY <1>a DEF ChipFlags, DpcFlags, PastFlags, LinkInv, Ended, DpcFits, DpcLeads, DpcMeets, Asks,
     MacWrites
<1> QED BY <1>1, <1>2, <1>3, <1>4, <1>5, <1>6, <1>7, <1>8

(* A handler raises the software interrupt.                               *)
LEMMA SwIntAskedStep ==
  ASSUME MacInv, Mac!Interrupts, Mac!Does("swint"), UNCHANGED m_rev1
  PROVE  MacInv'
<1> USE DEF MacInv, FlagTypes, Mac!Interrupts, Mac!At, Mac!Does, Mac!chipVars, Mac!flagVars,
        Mac!linkVars, Mac!setVars, Mac!pastVars, GoesOn
<1>a. GoesOn("swint")
  BY HandlerGoesOn
<1>1. ValueTypes' /\ Paths'
  BY <1>a DEF ValueTypes, Paths
<1>2. ChipFlags' /\ DpcFlags'
  BY <1>a DEF ChipFlags, DpcFlags
<1>3. PastFlags'
  BY <1>a DEF PastFlags
<1>4. AskInv' /\ IsrInv'
  BY <1>a DEF ChipFlags, DpcFlags, PastFlags, AskInv, IsrInv, StopBusy, SwBusy, Ended, DpcFits,
     DpcLeads, DpcMeets, Asks, MacWrites
<1>5. StopInv'
  BY <1>a DEF ChipFlags, DpcFlags, PastFlags, StopInv, Stopping, StopBusy, SwBusy, Discarding,
     Ended, DpcFits, DpcLeads, DpcMeets, Asks, MacWrites, AskInv
<1>6. RegInv'
  BY <1>a DEF ChipFlags, DpcFlags, PastFlags, RegInv, Ended, DpcFits, DpcLeads, DpcMeets, Asks,
     MacWrites
<1>7. SetInv'
  BY <1>a DEF ChipFlags, DpcFlags, PastFlags, SetInv, Due, Discarding, Ended, DpcFits, DpcLeads,
     DpcMeets, Asks, MacWrites, AskInv
<1>8. LinkInv'
  BY <1>a DEF ChipFlags, DpcFlags, PastFlags, LinkInv, Ended, DpcFits, DpcLeads, DpcMeets, Asks,
     MacWrites
<1> QED BY <1>1, <1>2, <1>3, <1>4, <1>5, <1>6, <1>7, <1>8

(* A request is completed: by the workaround.                             *)
LEMMA CompleteSwStep ==
  ASSUME MacInv, Mac!SetInformationComplete, Mac!Does("complete_sw"), UNCHANGED m_rev1
  PROVE  MacInv'
<1> USE DEF MacInv, FlagTypes, Mac!SetInformationComplete, Mac!At, Mac!Does, Mac!chipVars,
        Mac!flagVars, Mac!linkVars, Mac!setVars, Mac!pastVars, GoesOn
<1>a. GoesOn("complete_sw")
  BY HandlerGoesOn
<1>1. ValueTypes' /\ Paths'
  BY <1>a DEF ValueTypes, Paths
<1>2. ChipFlags' /\ DpcFlags'
  BY <1>a DEF ChipFlags, DpcFlags
<1>3. PastFlags'
  BY <1>a DEF PastFlags
<1>4. AskInv' /\ IsrInv'
  BY <1>a DEF ChipFlags, DpcFlags, PastFlags, AskInv, IsrInv, StopBusy, SwBusy, Ended, DpcFits,
     DpcLeads, DpcMeets, Asks, MacWrites
<1>5. StopInv'
  BY <1>a DEF ChipFlags, DpcFlags, PastFlags, StopInv, Stopping, StopBusy, SwBusy, Discarding,
     Ended, DpcFits, DpcLeads, DpcMeets, Asks, MacWrites
<1>6. RegInv'
  BY <1>a DEF ChipFlags, DpcFlags, PastFlags, RegInv, Ended, DpcFits, DpcLeads, DpcMeets, Asks,
     MacWrites
<1>7. SetInv'
  BY <1>a DEF ChipFlags, DpcFlags, PastFlags, SetInv, Due, Discarding, Ended, DpcFits, DpcLeads,
     DpcMeets, Asks, MacWrites
<1>8. LinkInv'
  BY <1>a DEF ChipFlags, DpcFlags, PastFlags, LinkInv, Ended, DpcFits, DpcLeads, DpcMeets, Asks,
     MacWrites
<1> QED BY <1>1, <1>2, <1>3, <1>4, <1>5, <1>6, <1>7, <1>8

(* A request is completed: by the stop.                                   *)
LEMMA CompleteStopStep ==
  ASSUME MacInv, Mac!SetInformationComplete, Mac!Does("complete_stop"), UNCHANGED m_rev1
  PROVE  MacInv'
<1> USE DEF MacInv, FlagTypes, Mac!SetInformationComplete, Mac!At, Mac!Does, Mac!chipVars,
        Mac!flagVars, Mac!linkVars, Mac!setVars, Mac!pastVars, GoesOn
<1>a. GoesOn("complete_stop")
  BY HandlerGoesOn
<1>1. ValueTypes' /\ Paths'
  BY <1>a DEF ValueTypes, Paths
<1>2. ChipFlags' /\ DpcFlags'
  BY <1>a DEF ChipFlags, DpcFlags
<1>3. PastFlags'
  BY <1>a DEF PastFlags
<1>4. AskInv' /\ IsrInv'
  BY <1>a DEF ChipFlags, DpcFlags, PastFlags, AskInv, IsrInv, StopBusy, SwBusy, Ended, DpcFits,
     DpcLeads, DpcMeets, Asks, MacWrites
<1>5. StopInv'
  BY <1>a DEF ChipFlags, DpcFlags, PastFlags, StopInv, Stopping, StopBusy, SwBusy, Discarding,
     Ended, DpcFits, DpcLeads, DpcMeets, Asks, MacWrites
<1>6. RegInv'
  BY <1>a DEF ChipFlags, DpcFlags, PastFlags, RegInv, Ended, DpcFits, DpcLeads, DpcMeets, Asks,
     MacWrites
<1>7. SetInv'
  BY <1>a DEF ChipFlags, DpcFlags, PastFlags, SetInv, Due, Discarding, Ended, DpcFits, DpcLeads,
     DpcMeets, Asks, MacWrites
<1>8. LinkInv'
  BY <1>a DEF ChipFlags, DpcFlags, PastFlags, LinkInv, Ended, DpcFits, DpcLeads, DpcMeets, Asks,
     MacWrites
<1> QED BY <1>1, <1>2, <1>3, <1>4, <1>5, <1>6, <1>7, <1>8

(* A handler has the receiver stop.                                       *)
LEMMA DisableMacRxEnStep ==
  ASSUME MacInv, Mac!DisableMacRxEn, UNCHANGED m_rev1
  PROVE  MacInv'
<1> USE DEF MacInv, FlagTypes, Mac!DisableMacRxEn, Mac!At, Mac!chipVars, Mac!flagVars,
        Mac!linkVars, Mac!setVars, Mac!pastVars
<1>a. /\ Path("dpc", m_todo') /\ m_todo' # << >>
      /\ m_todo'[1] # "read" => m_todo'[1] \notin MacWrites
      /\ \A x : Has(m_todo', x) => x \in {"clearstop", "read", "off", "waitstop"} \/ Has(m_todo, x)
      /\ \A x : Has(m_todo, x) => x = "disable" \/ Has(m_todo', x)
      /\ Has(m_todo', "on") /\ ~Has(m_todo', "pend")
  BY DisableStep DEF Paths
<1>b. /\ m_isr = << >> /\ m_isr' = << >> /\ m_dpc' = m_dpc /\ m_todo # << >> /\ m_todo[1] = "disable"
      /\ \A x : Has(m_todo, x) <=> x = "disable" \/ Has(Tail(m_todo), x)
      /\ \A x : Has(Tail(m_todo), x) => DpcFits("disable", x)
  BY AtStep DEF Paths, Mac!DisableMacRxEn
<1>c.  /\ \A x : ~Has(m_isr, x) /\ ~Has(m_isr', x)
       /\ Has(m_todo', "sw_done") => Has(m_todo', "complete_sw")
       /\ Has(m_todo', "stopint") \/ Has(m_todo', "f100") => Has(m_todo', "pend")
       /\ Has(m_todo', "pend") => m_todo' # << >>
  BY <1>a, <1>b, PathHas, HasNone
<1>1. ValueTypes' /\ Paths'
  BY <1>a, <1>b, <1>c DEF ValueTypes, Paths
<1>2. ChipFlags' /\ DpcFlags'
  BY <1>a, <1>b, <1>c DEF ChipFlags, DpcFlags
<1>3. PastFlags'
  BY <1>a, <1>b, <1>c DEF PastFlags
<1>4. AskInv' /\ IsrInv'
  BY <1>a, <1>b, <1>c DEF ChipFlags, DpcFlags, PastFlags, AskInv, IsrInv, StopBusy, SwBusy,
     MacWrites
<1>5. StopInv'
  BY <1>a, <1>b, <1>c DEF ChipFlags, DpcFlags, PastFlags, StopInv, Stopping, StopBusy, SwBusy,
     Discarding
<1>6. RegInv'
  BY <1>a, <1>b, <1>c DEF ChipFlags, DpcFlags, PastFlags, RegInv, MacWrites
<1>7. SetInv'
  BY <1>a, <1>b, <1>c DEF ChipFlags, DpcFlags, PastFlags, SetInv, Due, Discarding
<1>8. LinkInv'
  BY <1>a, <1>b, <1>c DEF ChipFlags, DpcFlags, PastFlags, LinkInv
<1> QED BY <1>1, <1>2, <1>3, <1>4, <1>5, <1>6, <1>7, <1>8

(* The DPC tells of the link.                                             *)
LEMMA LinkIndicateStep ==
  ASSUME MacInv, Mac!LinkIndicate, UNCHANGED m_rev1
  PROVE  MacInv'
<1> USE DEF MacInv, FlagTypes, Mac!LinkIndicate, Mac!At, Mac!chipVars, Mac!flagVars, Mac!linkVars,
        Mac!setVars, Mac!pastVars
<1>a. /\ Path("dpc", m_todo') /\ (m_todo' # << >> => m_todo'[1] \notin MacWrites)
      /\ \A x : Has(m_todo', x) <=> (m_PhyDPCNeeded /\ x = "phy_done") \/ (x # "phy" /\ Has(m_todo, x))
  BY PhyStep DEF Paths, DpcFlags
<1>b. /\ m_isr = << >> /\ m_isr' = << >> /\ m_dpc' = m_dpc /\ m_todo # << >> /\ m_todo[1] = "phy"
      /\ \A x : Has(m_todo, x) <=> x = "phy" \/ Has(Tail(m_todo), x)
      /\ \A x : Has(Tail(m_todo), x) => DpcFits("phy", x)
  BY AtStep DEF Paths, Mac!LinkIndicate
<1>c.  /\ \A x : ~Has(m_isr, x) /\ ~Has(m_isr', x)
       /\ Has(m_todo', "sw_done") => Has(m_todo', "complete_sw")
       /\ Has(m_todo', "stopint") \/ Has(m_todo', "f100") => Has(m_todo', "pend")
       /\ Has(m_todo', "pend") => m_todo' # << >>
  BY <1>a, <1>b, PathHas, HasNone
<1>1. ValueTypes' /\ Paths'
  BY <1>a, <1>b, <1>c DEF ValueTypes, Paths
<1>2. ChipFlags' /\ DpcFlags'
  BY <1>a, <1>b, <1>c DEF ChipFlags, DpcFlags
<1>3. PastFlags'
  BY <1>a, <1>b, <1>c DEF PastFlags
<1>4. AskInv' /\ IsrInv'
  BY <1>a, <1>b, <1>c DEF ChipFlags, DpcFlags, PastFlags, AskInv, IsrInv, StopBusy, SwBusy,
     DpcFits, Asks
<1>5. StopInv'
  BY <1>a, <1>b, <1>c DEF ChipFlags, DpcFlags, PastFlags, StopInv, Stopping, StopBusy, SwBusy,
     Discarding, DpcFits, Asks
<1>6. RegInv'
  BY <1>a, <1>b, <1>c DEF ChipFlags, DpcFlags, PastFlags, RegInv, DpcFits, Asks
<1>7. SetInv'
  BY <1>a, <1>b, <1>c DEF ChipFlags, DpcFlags, PastFlags, SetInv, Due, Discarding, DpcFits, Asks
<1>8. LinkInv'
  BY <1>a, <1>b, <1>c DEF ChipFlags, DpcFlags, PastFlags, LinkInv, DpcFits
<1> QED BY <1>1, <1>2, <1>3, <1>4, <1>5, <1>6, <1>7, <1>8

(* The DPC looks whether the workaround was begun.                        *)
LEMMA SwFlaggedStep ==
  ASSUME MacInv, Mac!Flagged, Mac!At("sw"), UNCHANGED m_rev1
  PROVE  MacInv'
<1> USE DEF MacInv, FlagTypes, Mac!chipVars, Mac!flagVars, Mac!linkVars, Mac!setVars, Mac!pastVars
<1>a. /\ Path("dpc", m_todo') /\ (m_todo' # << >> => m_todo'[1] \notin MacWrites)
      /\ \A x : Has(m_todo', x) => \/ x \in {"rxstop", "overrun"} \/ (m_SWDPCNeeded /\ x = "complete_sw")
                                   \/ /\ m_SWDPCNeeded /\ m_stopSts
                                      /\ x \in {"hash", "read", "filter", "on", "sw_done"}
      /\ m_SWDPCNeeded /\ m_stopSts => Has(m_todo', "hash") /\ Has(m_todo', "filter") /\ Has(m_todo', "on")
      /\ \A x : Has(m_todo, x) => x \in {"sw", "rxstop", "overrun"}
  BY SwStep DEF Paths, ChipFlags, DpcFlags, Mac!Flagged, Mac!At
<1>b. /\ m_isr = << >> /\ m_isr' = << >> /\ m_dpc' = m_dpc /\ m_todo # << >> /\ m_todo[1] = "sw"
      /\ \A x : Has(m_todo, x) <=> x = "sw" \/ Has(Tail(m_todo), x)
      /\ \A x : Has(Tail(m_todo), x) => DpcFits("sw", x)
  BY AtStep DEF Paths
<1>c.  /\ \A x : ~Has(m_isr, x) /\ ~Has(m_isr', x)
       /\ Has(m_todo', "sw_done") => Has(m_todo', "complete_sw")
       /\ Has(m_todo', "stopint") \/ Has(m_todo', "f100") => Has(m_todo', "pend")
       /\ Has(m_todo', "pend") => m_todo' # << >>
  BY <1>a, <1>b, PathHas, HasNone
<1>d.  UNCHANGED << Mac!chipVars, Mac!flagVars, Mac!linkVars, Mac!setVars, m_spurious, m_skipped, m_raced, m_reg >>
  BY DEF Mac!Flagged
<1>1. ValueTypes' /\ Paths'
  BY <1>a, <1>b, <1>c, <1>d DEF ValueTypes, Paths
<1>2. ChipFlags' /\ DpcFlags'
  BY <1>a, <1>b, <1>c, <1>d DEF ChipFlags, DpcFlags
<1>3. PastFlags'
  BY <1>a, <1>b, <1>c, <1>d DEF PastFlags
<1>4. AskInv' /\ IsrInv'
  BY <1>a, <1>b, <1>c, <1>d DEF ChipFlags, DpcFlags, PastFlags, AskInv, IsrInv, StopBusy, SwBusy
<1>5. StopInv'
  BY <1>a, <1>b, <1>c, <1>d DEF ChipFlags, DpcFlags, PastFlags, StopInv, Stopping, StopBusy,
     SwBusy, Discarding
<1>6. RegInv'
  BY <1>a, <1>b, <1>c, <1>d DEF ChipFlags, DpcFlags, PastFlags, RegInv
<1>7. SetInv'
  BY <1>a, <1>b, <1>c, <1>d DEF ChipFlags, DpcFlags, PastFlags, SetInv, Due, Discarding
<1>8. LinkInv'
  BY <1>a, <1>b, <1>c, <1>d DEF ChipFlags, DpcFlags, PastFlags, LinkInv
<1> QED BY <1>1, <1>2, <1>3, <1>4, <1>5, <1>6, <1>7, <1>8

(* The DPC looks whether the receiver stopped.                            *)
LEMMA RxStopFlaggedStep ==
  ASSUME MacInv, Mac!Flagged, Mac!At("rxstop"), UNCHANGED m_rev1
  PROVE  MacInv'
<1> USE DEF MacInv, FlagTypes, Mac!chipVars, Mac!flagVars, Mac!linkVars, Mac!setVars, Mac!pastVars
<1>a. /\ Path("dpc", m_todo') /\ (m_todo' # << >> => m_todo'[1] \notin MacWrites)
      /\ \A x : Has(m_todo', x) => (m_RxStopDPCNeeded /\ x = "complete_stop") \/ x = "overrun"
      /\ ~Has(m_todo, "pend") /\ \A x : Has(m_todo, x) => x \in {"rxstop", "overrun"}
  BY RxStopStep DEF Paths, Mac!Flagged, Mac!At
<1>b. /\ m_isr = << >> /\ m_isr' = << >> /\ m_dpc' = m_dpc /\ m_todo # << >> /\ m_todo[1] = "rxstop"
      /\ \A x : Has(m_todo, x) <=> x = "rxstop" \/ Has(Tail(m_todo), x)
      /\ \A x : Has(Tail(m_todo), x) => DpcFits("rxstop", x)
  BY AtStep DEF Paths
<1>c.  /\ \A x : ~Has(m_isr, x) /\ ~Has(m_isr', x)
       /\ Has(m_todo', "sw_done") => Has(m_todo', "complete_sw")
       /\ Has(m_todo', "stopint") \/ Has(m_todo', "f100") => Has(m_todo', "pend")
       /\ Has(m_todo', "pend") => m_todo' # << >>
  BY <1>a, <1>b, PathHas, HasNone
<1>d.  UNCHANGED << Mac!chipVars, Mac!flagVars, Mac!linkVars, Mac!setVars, m_spurious, m_skipped, m_raced, m_reg >>
  BY DEF Mac!Flagged
<1>1. ValueTypes' /\ Paths'
  BY <1>a, <1>b, <1>c, <1>d DEF ValueTypes, Paths
<1>2. ChipFlags' /\ DpcFlags'
  BY <1>a, <1>b, <1>c, <1>d DEF ChipFlags, DpcFlags
<1>3. PastFlags'
  BY <1>a, <1>b, <1>c, <1>d DEF PastFlags
<1>4. AskInv' /\ IsrInv'
  BY <1>a, <1>b, <1>c, <1>d DEF ChipFlags, DpcFlags, PastFlags, AskInv, IsrInv, StopBusy, SwBusy
<1>5. StopInv'
  BY <1>a, <1>b, <1>c, <1>d DEF ChipFlags, DpcFlags, PastFlags, StopInv, Stopping, StopBusy,
     SwBusy, Discarding
<1>6. RegInv'
  BY <1>a, <1>b, <1>c, <1>d DEF ChipFlags, DpcFlags, PastFlags, RegInv
<1>7. SetInv'
  BY <1>a, <1>b, <1>c, <1>d DEF ChipFlags, DpcFlags, PastFlags, SetInv, Due, Discarding
<1>8. LinkInv'
  BY <1>a, <1>b, <1>c, <1>d DEF ChipFlags, DpcFlags, PastFlags, LinkInv
<1> QED BY <1>1, <1>2, <1>3, <1>4, <1>5, <1>6, <1>7, <1>8

(* The DPC looks whether there was an overrun.                            *)
LEMMA OverrunFlaggedStep ==
  ASSUME MacInv, Mac!Flagged, Mac!At("overrun"), UNCHANGED m_rev1
  PROVE  MacInv'
<1> USE DEF MacInv, FlagTypes, Mac!chipVars, Mac!flagVars, Mac!linkVars, Mac!setVars, Mac!pastVars
<1>a. /\ Path("dpc", m_todo') /\ (m_todo' # << >> => m_todo'[1] \notin MacWrites)
      /\ \A x : Has(m_todo', x) => x \in {"disable", "read", "on", "over_done"}
      /\ \A x : Has(m_todo, x) => x = "overrun"
  BY OverrunStep DEF Paths, Mac!Flagged, Mac!At
<1>b. /\ m_isr = << >> /\ m_isr' = << >> /\ m_dpc' = m_dpc /\ m_todo # << >> /\ m_todo[1] = "overrun"
      /\ \A x : Has(m_todo, x) <=> x = "overrun" \/ Has(Tail(m_todo), x)
      /\ \A x : Has(Tail(m_todo), x) => DpcFits("overrun", x)
  BY AtStep DEF Paths
<1>c.  /\ \A x : ~Has(m_isr, x) /\ ~Has(m_isr', x)
       /\ Has(m_todo', "sw_done") => Has(m_todo', "complete_sw")
       /\ Has(m_todo', "stopint") \/ Has(m_todo', "f100") => Has(m_todo', "pend")
       /\ Has(m_todo', "pend") => m_todo' # << >>
  BY <1>a, <1>b, PathHas, HasNone
<1>d.  UNCHANGED << Mac!chipVars, Mac!flagVars, Mac!linkVars, Mac!setVars, m_spurious, m_skipped, m_raced, m_reg >>
  BY DEF Mac!Flagged
<1>1. ValueTypes' /\ Paths'
  BY <1>a, <1>b, <1>c, <1>d DEF ValueTypes, Paths
<1>2. ChipFlags' /\ DpcFlags'
  BY <1>a, <1>b, <1>c, <1>d DEF ChipFlags, DpcFlags
<1>3. PastFlags'
  BY <1>a, <1>b, <1>c, <1>d DEF PastFlags
<1>4. AskInv' /\ IsrInv'
  BY <1>a, <1>b, <1>c, <1>d DEF ChipFlags, DpcFlags, PastFlags, AskInv, IsrInv, StopBusy, SwBusy
<1>5. StopInv'
  BY <1>a, <1>b, <1>c, <1>d DEF ChipFlags, DpcFlags, PastFlags, StopInv, Stopping, StopBusy,
     SwBusy, Discarding
<1>6. RegInv'
  BY <1>a, <1>b, <1>c, <1>d DEF ChipFlags, DpcFlags, PastFlags, RegInv
<1>7. SetInv'
  BY <1>a, <1>b, <1>c, <1>d DEF ChipFlags, DpcFlags, PastFlags, SetInv, Due, Discarding
<1>8. LinkInv'
  BY <1>a, <1>b, <1>c, <1>d DEF ChipFlags, DpcFlags, PastFlags, LinkInv
<1> QED BY <1>1, <1>2, <1>3, <1>4, <1>5, <1>6, <1>7, <1>8

(* NDIS calls HandleInterrupt.                                            *)
LEMMA HandleInterruptStep ==
  ASSUME MacInv, Mac!HandleInterrupt, UNCHANGED m_rev1
  PROVE  MacInv'
<1> USE DEF MacInv, FlagTypes, Mac!HandleInterrupt, Mac!chipVars, Mac!flagVars, Mac!linkVars,
        Mac!setVars, Mac!pastVars
<1>a. /\ Path("dpc", m_todo') /\ m_todo' # << >> /\ m_todo'[1] = "phy"
      /\ \A x : Has(m_todo', x) <=> x \in {"phy", "sw", "rxstop", "overrun"}
  <2> DEFINE s == << "phy", "sw", "rxstop", "overrun" >>
  <2>1. m_todo' = s
    BY DEF Mac!HandleInterrupt
  <2>2. List("dpc", s, "phy", "overrun", {"phy", "sw", "rxstop", "overrun"}, {})
    BY DpcBegun
  <2> HIDE DEF s
  <2> QED BY <2>1, <2>2 DEF List, Path
<1>b. \A x : ~Has(m_todo, x)
  BY HasNone DEF Mac!HandleInterrupt
<1>1. ValueTypes' /\ Paths'
  BY <1>a, <1>b DEF ValueTypes, Paths
<1>2. ChipFlags' /\ DpcFlags'
  BY <1>a, <1>b DEF ChipFlags, DpcFlags
<1>3. PastFlags'
  BY <1>a, <1>b DEF PastFlags
<1>4. AskInv' /\ IsrInv'
  BY <1>a, <1>b DEF ChipFlags, DpcFlags, PastFlags, AskInv, IsrInv, StopBusy, SwBusy, MacWrites
<1>5. StopInv'
  BY <1>a, <1>b DEF ChipFlags, DpcFlags, PastFlags, StopInv, Stopping, StopBusy, SwBusy, Discarding
<1>6. RegInv'
  BY <1>a, <1>b DEF ChipFlags, DpcFlags, PastFlags, RegInv, MacWrites
<1>7. SetInv'
  BY <1>a, <1>b DEF ChipFlags, DpcFlags, PastFlags, SetInv, Due, Discarding
<1>8. LinkInv'
  BY <1>a, <1>b DEF ChipFlags, DpcFlags, PastFlags, LinkInv
<1> QED BY <1>1, <1>2, <1>3, <1>4, <1>5, <1>6, <1>7, <1>8

(* Without a link the first revision does not set anything.               *)
LEMMA SetSkippedStep ==
  ASSUME MacInv, Mac!SetInformation, m_rev1 /\ m_dwLinkMode = "none", UNCHANGED m_rev1
  PROVE  MacInv'
<1> USE DEF MacInv, FlagTypes, Mac!SetInformation, Mac!chipVars, Mac!flagVars, Mac!linkVars,
        Mac!setVars, Mac!pastVars
<1>a. m_todo' = << >> /\ m_skipped' /\ m_want' \in Nat /\ m_wantHash' \in Nat
  <2>1. Mac!SetPacketFilter = << >> /\ Mac!SetMulticastAddressList = << >>
    BY DEF Mac!SetPacketFilter, Mac!SetMulticastAddressList, Mac!At100
  <2>2. m_want' \in Nat /\ m_wantHash' \in Nat
    BY DEF Mac!SetInformation, ValueTypes
  <2> QED BY <2>1, <2>2 DEF Mac!SetInformation
<1>b. Path("dpc", m_todo') /\ \A x : ~Has(m_todo, x) /\ ~Has(m_todo', x)
  BY <1>a, HasNone DEF Mac!SetInformation, Path, Open
<1>1. ValueTypes' /\ Paths'
  BY <1>a, <1>b DEF ValueTypes, Paths
<1>2. ChipFlags' /\ DpcFlags'
  BY <1>a, <1>b DEF ChipFlags, DpcFlags
<1>3. PastFlags'
  BY <1>a, <1>b DEF PastFlags
<1>4. AskInv' /\ IsrInv'
  BY <1>a, <1>b DEF ChipFlags, DpcFlags, PastFlags, AskInv, IsrInv, StopBusy, SwBusy
<1>5. StopInv'
  BY <1>a, <1>b DEF ChipFlags, DpcFlags, PastFlags, StopInv, Stopping, StopBusy, SwBusy, Discarding
<1>6. RegInv'
  BY <1>a, <1>b DEF ChipFlags, DpcFlags, PastFlags, RegInv
<1>7. SetInv'
  BY <1>a, <1>b DEF ChipFlags, DpcFlags, PastFlags, SetInv, Due, Discarding
<1>8. LinkInv'
  BY <1>a, <1>b DEF ChipFlags, DpcFlags, PastFlags, LinkInv
<1> QED BY <1>1, <1>2, <1>3, <1>4, <1>5, <1>6, <1>7, <1>8

(* SetInformation sets something, or asks for it.                         *)
LEMMA SetAskedStep ==
  ASSUME MacInv, Mac!SetInformation, ~(m_rev1 /\ m_dwLinkMode = "none"), UNCHANGED m_rev1
  PROVE  MacInv'
<1> USE DEF MacInv, FlagTypes, Mac!SetInformation, Mac!chipVars, Mac!flagVars, Mac!linkVars,
        Mac!setVars, Mac!pastVars
<1>a. /\ Asked(m_todo') /\ m_want' \in Nat /\ m_wantHash' \in Nat
      /\ m_want' # m_want => \/ Has(m_todo', "filter") /\ Has(m_todo', "on")
                             \/ Has(m_todo', "filter_on") \/ Has(m_todo', "stopint") \/ Has(m_todo', "f100")
      /\ m_wantHash' # m_wantHash => Has(m_todo', "hash") \/ Has(m_todo', "stopint") \/ Has(m_todo', "f100")
  <2>1. (m_want' = m_want + 1 /\ m_todo' = Mac!SetPacketFilter /\ m_wantHash' = m_wantHash)
         \/ (m_wantHash' = m_wantHash + 1 /\ m_todo' = Mac!SetMulticastAddressList /\ m_want' = m_want)
    BY DEF Mac!SetInformation
  <2>2. m_want \in Nat /\ m_wantHash \in Nat /\ m_rev1 \in BOOLEAN /\ m_dwLinkMode \in Mac!AllLinks
    BY DEF ValueTypes, PastFlags
  <2>3. CASE m_want' = m_want + 1 /\ m_todo' = Mac!SetPacketFilter /\ m_wantHash' = m_wantHash
    <3> HIDE DEF Mac!SetInformation
    <3>1. m_want' \in Nat
      BY <2>2, <2>3
    <3> QED BY <2>2, <2>3, <3>1, SetPacketFilterList
  <2>4. CASE m_wantHash' = m_wantHash + 1 /\ m_todo' = Mac!SetMulticastAddressList /\ m_want' = m_want
    <3> HIDE DEF Mac!SetInformation
    <3>1. m_wantHash' \in Nat
      BY <2>2, <2>4
    <3> QED BY <2>2, <2>4, <3>1, SetMulticastAddressListList
  <2> QED BY <2>1, <2>3, <2>4
<1>b. m_todo = << >> /\ ~m_pending /\ \A x : ~Has(m_todo, x)
  BY HasNone DEF Mac!SetInformation
<1>c.  Path("dpc", m_todo') /\ (m_todo' # << >> => m_todo'[1] \notin MacWrites)
  BY <1>a DEF Asked
<1>d.  Has(m_todo', "pend") => m_todo' # << >>
  BY HasNone
<1>e.  /\ \A x \in {"complete_sw", "complete_stop", "phy", "phy_done", "sw_done"} : ~Has(m_todo', x)
       /\ Has(m_todo', "pend") <=> Has(m_todo', "stopint") \/ Has(m_todo', "f100")
       /\ Has(m_todo', "stopint") => m_mac.rxen /\ m_todo'[1] = "clearstop"
       /\ Has(m_todo', "pend") /\ Has(m_todo', "off") => Has(m_todo', "stopint")
  BY <1>a DEF Asked
<1>1. ValueTypes' /\ Paths'
  BY <1>a, <1>b, <1>c, <1>d, <1>e DEF ValueTypes, Paths
<1>2. ChipFlags' /\ DpcFlags'
  BY <1>a, <1>b, <1>c, <1>d, <1>e DEF ChipFlags, DpcFlags
<1>3. PastFlags'
  BY <1>a, <1>b, <1>c, <1>d, <1>e DEF PastFlags
<1>4. AskInv' /\ IsrInv'
  BY <1>a, <1>b, <1>c, <1>d, <1>e DEF ChipFlags, DpcFlags, PastFlags, AskInv, IsrInv, StopBusy,
     SwBusy, AskInv
<1>5. StopInv'
  BY <1>a, <1>b, <1>c, <1>d, <1>e DEF ChipFlags, DpcFlags, PastFlags, StopInv, Stopping, StopBusy,
     SwBusy, Discarding, AskInv, StopBusy, SwBusy
<1>6. RegInv'
  BY <1>a, <1>b, <1>c, <1>d, <1>e DEF ChipFlags, DpcFlags, PastFlags, RegInv, AskInv
<1>7. SetInv'
  BY <1>a, <1>b, <1>c, <1>d, <1>e DEF ChipFlags, DpcFlags, PastFlags, SetInv, Due, Discarding,
     AskInv, StopBusy, SwBusy
<1>8. LinkInv'
  BY <1>a, <1>b, <1>c, <1>d, <1>e DEF ChipFlags, DpcFlags, PastFlags, LinkInv
<1> QED BY <1>1, <1>2, <1>3, <1>4, <1>5, <1>6, <1>7, <1>8

-----------------------------------------------------------------------------
(* A step of the ISR preserves the invariant.                              *)
LEMMA IsrOpStep == ASSUME MacInv, Mac!IsrOp, UNCHANGED m_rev1 PROVE MacInv'
<1>1. /\ Mac!Racing
      /\ \/ Mac!MacRxEnWorkaround \/ Mac!CheckStopped \/ Mac!CheckPhyStatus \/ Mac!HandlerRxStopISR
         \/ Mac!Discard \/ Mac!Discarded \/ Mac!Overrun \/ Mac!SwInt \/ Mac!IsrLeave
  BY DEF Mac!IsrOp
<1> QED
  BY <1>1, WorkaroundStep, CheckStoppedStep, CheckPhyStatusStep, HandlerRxStopStep, DiscardStep,
     DiscardedStep, OverrunIsrStep, SwIntStep, IsrLeaveStep

(* A step of a handler does.                                               *)
LEMMA HandlerOpStep == ASSUME MacInv, Mac!HandlerStep, UNCHANGED m_rev1 PROVE MacInv'
<1>1. CASE Mac!Write
  <2>1. \E op \in {"off", "filter", "on", "filter_on"} : Mac!Does(op)
    BY <1>1 DEF Mac!Write
  <2> QED BY <1>1, <2>1, WriteOffStep, WriteFilterStep, WriteOnStep, WriteFilterOnStep
<1>2. CASE Mac!Interrupts
  <2>1. \E op \in {"clearstop", "stopint", "f100", "swint"} : Mac!Does(op)
    BY <1>2 DEF Mac!Interrupts
  <2> QED BY <1>2, <2>1, ClearStopStep, StopIntStep, F100Step, SwIntAskedStep
<1>3. CASE Mac!Flagged
  <2>1. \E op \in {"sw", "rxstop", "overrun"} : Mac!At(op)
    BY <1>3 DEF Mac!Flagged
  <2> QED BY <1>3, <2>1, SwFlaggedStep, RxStopFlaggedStep, OverrunFlaggedStep
<1>4. CASE Mac!SetInformationComplete
  <2>1. \E op \in {"complete_sw", "complete_stop"} : Mac!Does(op)
    BY <1>4 DEF Mac!SetInformationComplete
  <2> QED BY <1>4, <2>1, CompleteSwStep, CompleteStopStep
<1>5. \/ Mac!HandleInterrupt \/ Mac!Read \/ Mac!Write \/ Mac!WriteHash \/ Mac!DisableMacRxEn \/ Mac!WaitStop \/ Mac!Interrupts
      \/ Mac!Pend \/ Mac!LinkIndicate \/ Mac!LinkIndicated \/ Mac!Flagged \/ Mac!SwDone \/ Mac!OverrunDone
      \/ Mac!SetInformationComplete
  BY DEF Mac!HandlerStep
<1> QED
  BY SMTT(30), <1>1, <1>2, <1>3, <1>4, <1>5, HandleInterruptStep, ReadStep, WriteHashStep, DisableMacRxEnStep,
     WaitStopStep, PendStep, LinkIndicateStep, LinkIndicatedStep, SwDoneStep, OverrunDoneStep

(* Every step preserves the invariant.                                     *)
LEMMA MacInvStep == ASSUME MacLinks, MacInv, [Mac!Next]_(Mac!vars) PROVE MacInv'
<1>1. CASE UNCHANGED Mac!vars
  BY <1>1 DEF Mac!vars, Mac!chipVars, Mac!flagVars, Mac!linkVars, Mac!setVars, Mac!pastVars,
     MacInv, FlagTypes, ValueTypes,
              ChipFlags, DpcFlags, PastFlags, AskInv, IsrInv, StopInv, RegInv, SetInv, LinkInv, Paths,
              StopBusy, SwBusy, Discarding, Stopping, Due
<1>2. CASE Mac!Next
  <2>1. /\ UNCHANGED m_rev1
        /\ \/ Mac!ReceiverStops \/ (\E l \in Links : Mac!LinkChanges(l)) \/ Mac!TimerFires \/ Mac!ReceiverError
           \/ Mac!Isr(FALSE) \/ Mac!IsrOp \/ Mac!Isr(TRUE) \/ Mac!HandlerStep \/ Mac!SetInformation
    BY <1>2 DEF Mac!Next, Mac!IsrStep
  <2>2. CASE \E l \in Links : Mac!LinkChanges(l)
    BY <2>1, <2>2, LinkChangesStep DEF MacLinks
  <2>3. CASE Mac!Isr(FALSE) \/ Mac!Isr(TRUE)
    BY <2>1, <2>3, IsrStepBegins
  <2>4. CASE Mac!SetInformation
    BY <2>1, <2>4, SetSkippedStep, SetAskedStep
  <2> QED
    BY <2>1, <2>2, <2>3, <2>4, ReceiverStopsStep, TimerFiresStep, ReceiverErrorStep, IsrOpStep,
       HandlerOpStep
<1> QED BY <1>1, <1>2

LEMMA MacInvSound == MacInv => MacSound
<1> SUFFICES ASSUME MacInv PROVE MacSound
  OBVIOUS
<1>1. Mac!CompletedOnce
  BY DEF MacInv, AskInv, Mac!CompletedOnce
<1>2. ASSUME Mac!Quiet
      PROVE  /\ \A x : ~Has(m_todo, x) /\ ~Has(m_isr, x)
             /\ ~Due /\ ~Discarding /\ ~m_PhyDPCNeeded
  <2>1. /\ m_todo = << >> /\ m_isr = << >> /\ ~m_dpc /\ ~m_pending /\ \A x : ~Has(m_todo, x) /\ ~Has(m_isr, x)
    BY <1>2, HasNone DEF Mac!Quiet
  <2> QED BY <2>1 DEF MacInv, AskInv, StopBusy, Due, Discarding, LinkInv
<1>3. Mac!ReceiverIsSet
  BY <1>2 DEF Mac!ReceiverIsSet, MacInv, SetInv
<1>4. Mac!DuplexFollowsLink
  BY <1>2 DEF Mac!DuplexFollowsLink, MacInv, LinkInv
<1> QED BY <1>1, <1>3, <1>4 DEF MacSound, Mac!MacSound

(* A request of NDIS is completed once, the receiver has the filter and    *)
(* the hash set last, and the MAC's duplex is the link's, for any number   *)
(* of requests, changes of the link and receiver errors (smsc9118.c:       *)
(* 1844-2034, 3936-3952, 4154-4191, 4483-4505).                            *)
THEOREM MacIsSound == ASSUME MacLinks PROVE Mac!Spec => []MacSound
<1>1. MacInv /\ [Mac!Next]_(Mac!vars) => MacInv'
  BY MacInvStep
<1>2. Mac!Spec => []MacInv
  BY <1>1, MacInvInit, PTL DEF Mac!Spec
<1> QED BY <1>2, MacInvSound, PTL
=============================================================================
