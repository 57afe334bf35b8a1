-------------------------------- MODULE OalRtc --------------------------------
(***************************************************************************)
(* The real-time clock: OEMGetRealTime, OEMSetRealTime, OEMSetAlarmTime    *)
(* and OALIoCtlHalRtcAlarm of oal/oallib/timer.c, and the PL031 (external) *)
(* that counts the seconds since 1970 in 32 bits.  A time of day is one    *)
(* number, its second; the code splits it by division.                     *)
(***************************************************************************)
EXTENDS Integers, Sequences

CONSTANTS
  DaySecs,     (* 86400                                                    *)
  Starts,      (* days since 1970 at which the clock may stand at first    *)
  Seconds,     (* times of day it is set to                                *)
  MaxSteps     (* bound: calls and midnights                               *)

VARIABLES
  rtc,             \* RTCDR
  mr, imsc, ris,   \* RTCMR, and the alarm interrupt: enabled, raised
  pendingFor,      \* the match that has raised it
  rang,            \* SYSINTR_RTC_ALARM was returned, and nobody has answered
  steps

alarmVars == << mr, imsc, ris, pendingFor, rang >>
vars == << rtc, alarmVars, steps >>

days_count == << 31, 28, 31, 30, 31, 30, 31, 31, 30, 31, 30, 31 >>
isleap(y) == IF y % 4 = 0 /\ (y % 100 # 0 \/ y % 400 = 0) THEN 1 ELSE 0
Yearsecs(y) == DaySecs * (365 + isleap(y))
-----------------------------------------------------------------------------
(* OEMGetRealTime: whole years are taken off ...                           *)
RECURSIVE TakeYears(_, _), TakeDays(_, _, _), AddYears(_, _), AddMonths(_, _)
TakeYears(y, t) == IF t >= Yearsecs(y) THEN TakeYears(y + 1, t - Yearsecs(y)) ELSE << y, t >>

(* ... then days, a month at a time; months and days count from 0.         *)
Mdays(y, m) == days_count[m + 1] + (IF m = 1 THEN isleap(y) ELSE 0)

TakeDays(y, m, t) ==
  IF t < DaySecs * Mdays(y, m)
    THEN [year |-> y, month |-> m + 1, day |-> t \div DaySecs + 1, second |-> t % DaySecs]
    ELSE TakeDays(y, m + 1, t - DaySecs * Mdays(y, m))

OEMGetRealTime(t) == LET r == TakeYears(1970, t) IN TakeDays(r[1], 0, r[2])

(* OEMSetRealTime, and OEMSetAlarmTime the same: the years and months      *)
(* before are added up.  The leap day is added if lpst->wMonth = 1, when   *)
(* there are no months before.                                             *)
AddYears(y, year) == IF y < year THEN Yearsecs(y) + AddYears(y + 1, year) ELSE 0
AddMonths(m, month) == IF m < month THEN DaySecs * days_count[m] + AddMonths(m + 1, month) ELSE 0

TimestampFrom0(date) ==   (* mutant: the first day of a month counts *)
  date.second + date.day * DaySecs + AddYears(1970, date.year) + AddMonths(1, date.month)
Timestamp(date) ==
  date.second + (date.day - 1) * DaySecs + AddYears(1970, date.year) + AddMonths(1, date.month)
-----------------------------------------------------------------------------
Init ==
  /\ \E d \in Starts, s \in Seconds : rtc = d * DaySecs + s
  /\ mr = 0 /\ imsc = FALSE /\ ris = FALSE /\ pendingFor = 0 /\ rang = FALSE
  /\ steps = 0

Step == steps < MaxSteps /\ steps' = steps + 1

(* The PL031 raises its interrupt when the clock comes to the match        *)
(* register, be it counted or set there.                                   *)
Raise(match) ==
  /\ ris' = (ris \/ match)
  /\ pendingFor' = IF match /\ ~ris THEN mr ELSE pendingFor

(* Seconds pass, up to the next midnight or to the alarm's time.           *)
Pass(t) ==
  /\ Step /\ t > rtc
  /\ rtc' = t
  /\ Raise(rtc < mr /\ mr <= t)
  /\ UNCHANGED << mr, imsc, rang >>

SetRealTime(date) ==
  /\ Step
  /\ rtc' = Timestamp(date)
  /\ Raise(mr = Timestamp(date))
  /\ UNCHANGED << mr, imsc, rang >>

(* AlarmIrqEnable clears what is pending and enables or disables.          *)
EnableOnly(enabled) ==   (* mutant: nothing is cleared *)
  imsc' = enabled /\ UNCHANGED << ris, pendingFor >>
AlarmIrqEnable(enabled) == ris' = FALSE /\ imsc' = enabled /\ UNCHANGED pendingFor

(* OEMSetAlarmTime: FALSE, and nothing done, if the time is yet to come.   *)
(* An alarm for this very second matches when it is written, and is then   *)
(* cleared.                                                                *)
SetAlarm(date) ==
  /\ Step /\ rtc >= Timestamp(date)
  /\ mr' = Timestamp(date) /\ AlarmIrqEnable(TRUE)
  /\ UNCHANGED << rtc, rang >>

(* OEMInterruptHandler clears the interrupt; OALIoCtlHalRtcAlarm disables. *)
Ring ==
  /\ ris /\ imsc
  /\ ris' = FALSE /\ rang' = TRUE
  /\ UNCHANGED << rtc, mr, imsc, pendingFor, steps >>

HalRtcAlarm ==
  /\ rang /\ rang' = FALSE /\ AlarmIrqEnable(FALSE)
  /\ UNCHANGED << rtc, mr, steps >>

(* What the clock is set to: the date it shows, one day on, or back.       *)
Near == {d \in {rtc, rtc + DaySecs, rtc - DaySecs} : d >= 0}

Next ==
  \/ Pass(((rtc \div DaySecs) + 1) * DaySecs) \/ (mr > rtc /\ Pass(mr))
  \/ \E t \in Near : SetRealTime(OEMGetRealTime(t)) \/ SetAlarm(OEMGetRealTime(t))
  \/ Ring \/ HalRtcAlarm

Spec == Init /\ [][Next]_vars
-----------------------------------------------------------------------------
(* The day count of a date in the Gregorian calendar, years starting in    *)
(* March: the definition the loops are held against.                       *)
DayCount(date) ==
  LET y == IF date.month <= 2 THEN date.year - 1 ELSE date.year
      m == (date.month + 9) % 12
  IN 365 * y + y \div 4 - y \div 100 + y \div 400 + (153 * m + 2) \div 5 + date.day - 719469

(* The date shown is the calendar's, at every turn of a month, a leap day, *)
(* a year and a century up to where 32 bits end (timer.c:24-75).           *)
DateIsCalendars ==
  LET date == OEMGetRealTime(rtc)
  IN /\ date.month \in 1 .. 12 /\ date.day \in 1 .. 31
     /\ DayCount(date) = rtc \div DaySecs
     /\ date.second = rtc % DaySecs

(* The clock set to the date it shows stays where it is                    *)
(* (timer.c:24-113).  Nothing is claimed of the dates after the February   *)
(* of a leap year: OEMSetRealTime forgets the leap day (timer.c:103), and  *)
(* the clock goes back by a day.                                           *)
LeapDayForgotten(date) == isleap(date.year) = 1 /\ date.month > 2
SetKeepsDate ==
  LET date == OEMGetRealTime(rtc) IN LeapDayForgotten(date) \/ Timestamp(date) = rtc

(* An alarm that is due is the one set last: what was pending for an       *)
(* earlier one does not ring for it, whatever the clock was set to and     *)
(* however late the answer to that one comes (timer.c:115-180).  That an   *)
(* alarm rings when its time comes is not so, and not claimed: the test of *)
(* timer.c:165 lets only those be set whose time has come, and             *)
(* AlarmIrqEnable takes back that of the present second.                   *)
AlarmIsLast == ris => pendingFor = mr

(* Outside those slips, what the clock shows, what it is set to and what   *)
(* alarm is due are right together, at every date and after every setting  *)
(* (timer.c:24-184).                                                       *)
DatesRight == DateIsCalendars /\ SetKeepsDate /\ AlarmIsLast
=============================================================================
