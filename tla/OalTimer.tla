------------------------------ MODULE OalTimer -------------------------------
(***************************************************************************)
(* The kernel's clock: update_timer and the timer's part of                *)
(* OEMInterruptHandler (oal/oallib/intr.c), OEMUpdateReschedTime           *)
(* (timer.c) and the two SP804 timers (external), as setup_timer leaves    *)
(* them: one that counts down once a second for ever, and a one-shot.      *)
(*                                                                         *)
(* The handler and the kernel's call exclude each other: one CPU, the      *)
(* kernel calls with interrupts off.  Time goes on inside both.            *)
(***************************************************************************)
EXTENDS Integers

CONSTANTS
  MSec,         (* 1000: microseconds in a millisecond                     *)
  Period,       (* 1000000: what the periodic timer is loaded with         *)
  TickMod,      (* 2^32: CurMSec and dwTick wrap                           *)
  UsMod,        (* 2^32: interval wraps                                    *)
  Ahead,        (* how far ahead of CurMSec the kernel asks to be called   *)
  Latency,      (* most time until an interrupt is taken, and most time in *)
                (* the handler or the call                                 *)
  Idle,         (* the kernel may be idle for more than a period           *)
  MaxNow        (* bound: the time the system runs                         *)

(* What the constants are assumed to be is TimerAssumption in Safety.      *)
VARIABLES
  now,                          \* microseconds since the timers were set up
  CurMSec, timeUS, lastTimer,   \* as in the code
  TimerValue, irq0,             \* the periodic timer: its register, its line
  deadline, irq1,               \* the one-shot: when it expires (0: stopped)
  pc, late,                     \* what the CPU is at, and for how long
  dwTick, interval, waiting,    \* the kernel's call; not yet called back
  readAt, askedAt               \* when the clock was read last, and for a call

clockVars == << CurMSec, timeUS, lastTimer, readAt >>
timerVars == << TimerValue, irq0, deadline, irq1 >>
callVars  == << dwTick, interval, waiting, askedAt >>
vars == << now, clockVars, timerVars, pc, late, callVars >>

Init ==
  /\ now = 0 /\ readAt = 0
  /\ CurMSec = 0 /\ timeUS = 0 /\ lastTimer = 0
  /\ TimerValue = Period /\ irq0 = FALSE
  /\ deadline = Period /\ irq1 = FALSE
  /\ pc = "run" /\ late = 0
  /\ dwTick = 0 /\ interval = 1 /\ waiting = FALSE /\ askedAt = 0
-----------------------------------------------------------------------------
(* A microsecond passes.  Unless the kernel is idle it looks at the clock  *)
(* at least once in a period.                                              *)
Pressing == irq0 \/ irq1 \/ pc # "run"

Tick ==
  /\ now < MaxNow
  /\ Pressing => late < Latency
  /\ Idle \/ now + 1 - readAt < Period
  /\ now' = now + 1
  /\ late' = IF Pressing THEN late + 1 ELSE 0
  /\ TimerValue' = IF TimerValue = 1 THEN Period ELSE TimerValue - 1
  /\ irq0' = (irq0 \/ TimerValue = 1)
  /\ deadline' = IF deadline = now + 1 THEN 0 ELSE deadline
  /\ irq1' = (irq1 \/ deadline = now + 1)
  /\ UNCHANGED << clockVars, pc, callVars >>

(* The microseconds since the timer was read last, if not more than a      *)
(* period.                                                                 *)
Elapsed ==
  IF TimerValue <= lastTimer THEN lastTimer - TimerValue
  ELSE lastTimer + (Period - TimerValue)

Reckon(us) ==
  /\ timeUS' = us % MSec
  /\ CurMSec' = (CurMSec + us \div MSec) % TickMod

update_timer ==
  /\ Reckon(timeUS + Elapsed)
  /\ lastTimer' = TimerValue
  /\ readAt' = now

(* OEMInterruptHandler on TIMER_IRQ brings the clock up to date ...        *)
TakeTimerIrq ==
  /\ pc = "run" /\ (irq0 \/ irq1)
  /\ update_timer
  /\ pc' = "periodic" /\ late' = 0
  /\ UNCHANGED << now, timerVars, callVars >>

(* ... clears the periodic timer's interrupt ...                           *)
ClearBoth ==   (* mutant: and the one-shot's unseen *)
  /\ pc = "periodic"
  /\ irq0' = FALSE
  /\ irq1' = (irq1 /\ ~irq0)
  /\ pc' = "oneshot"
  /\ UNCHANGED << now, clockVars, TimerValue, deadline, late, callVars >>

ClearPeriodic ==
  /\ pc = "periodic"
  /\ irq0' = FALSE
  /\ pc' = "oneshot"
  /\ UNCHANGED << now, clockVars, TimerValue, deadline, irq1, late, callVars >>

(* ... and returns SYSINTR_RESCHED if the one-shot has expired.            *)
ClearOneShot ==
  /\ pc = "oneshot"
  /\ irq1' = FALSE
  /\ waiting' = (waiting /\ ~(irq1 /\ deadline = 0))
  /\ pc' = "run" /\ late' = 0
  /\ UNCHANGED << now, clockVars, TimerValue, irq0, deadline, dwTick, interval, askedAt >>
-----------------------------------------------------------------------------
(* OEMUpdateReschedTime: the interval from now to dwTick ...               *)
WaitFor(t) == IF t > CurMSec' THEN ((t - CurMSec') * MSec - timeUS') % UsMod ELSE 1

OEMUpdateReschedTime(t) ==
  /\ pc = "run"
  /\ update_timer
  /\ dwTick' = t
  /\ interval' = WaitFor(t)
  /\ askedAt' = now /\ waiting' = TRUE
  /\ pc' = "load" /\ late' = 0
  /\ UNCHANGED << now, timerVars >>

(* ... is loaded into the one-shot, which starts anew.                     *)
LoadOneShot ==
  /\ pc = "load"
  /\ deadline' = now + interval
  /\ pc' = "run" /\ late' = 0
  /\ UNCHANGED << now, clockVars, TimerValue, irq0, irq1, callVars >>

Next ==
  \/ Tick
  \/ TakeTimerIrq \/ ClearPeriodic \/ ClearOneShot
  \/ \E t \in 0 .. CurMSec + Ahead : OEMUpdateReschedTime(t)
  \/ LoadOneShot

Spec == Init /\ [][Next]_vars
-----------------------------------------------------------------------------
TypeOK ==
  /\ now \in 0 .. MaxNow /\ readAt \in 0 .. now /\ askedAt \in 0 .. now
  /\ CurMSec \in 0 .. TickMod - 1 /\ timeUS \in 0 .. MSec - 1 /\ lastTimer \in 0 .. Period
  /\ TimerValue \in 1 .. Period /\ deadline \in Nat
  /\ pc \in {"run", "periodic", "oneshot", "load"} /\ late \in 0 .. Latency
  /\ dwTick \in Nat /\ interval \in 1 .. UsMod - 1
  /\ \A b \in {irq0, irq1, waiting} : b \in BOOLEAN

(* Whenever it has been brought up to date, the clock is right to the      *)
(* microsecond: over any number of reads and reloads of the periodic timer *)
(* nothing is lost or counted twice (intr.c:113-133).                      *)
ClockExact == CurMSec * MSec + timeUS = readAt

(* A call of the kernel's is not forgotten: until it is called back the    *)
(* one-shot is running or its interrupt is up (intr.c:161-164,             *)
(* timer.c:258-262).                                                       *)
NotForgotten == waiting => pc = "load" \/ deadline > now \/ irq1

(* The one-shot expires at dwTick, or at once if that has passed, or later *)
(* by no more than the time the call took, never earlier (timer.c:258).    *)
OnTime ==
  LET target == dwTick * MSec
      due == IF target > askedAt THEN target ELSE askedAt + 1
  IN waiting /\ pc # "load" /\ deadline # 0 => deadline \in due .. due + Latency

(* "returns the number of milliseconds since the device booted"            *)
(* (timer.c:221-222), as of the last time the clock was read.              *)
TickCountIsUptime == CurMSec = readAt \div MSec

(* The clock that was read is exact, and a wake-up the kernel asked for is *)
(* still to come, at its time (intr.c:113-164, timer.c:226-262).           *)
ClockSafe == ClockExact /\ NotForgotten /\ OnTime
=============================================================================
