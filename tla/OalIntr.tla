------------------------------- MODULE OalIntr -------------------------------
(***************************************************************************)
(* The interrupt routines of oal/oallib/intr.c: OEMInterruptEnable,        *)
(* OEMInterruptDisable, OEMInterruptDone and OEMInterruptHandler, with the *)
(* GIC, the kernel's interrupt events and the threads of the drivers that  *)
(* use them (external to the OAL; the drivers follow virtio_blk, pl011 and *)
(* pl050).  One line of the GIC per driver.                                *)
(*                                                                         *)
(* The handler drops the priority of an interrupt and leaves it active;    *)
(* the driver's InterruptDone deactivates it.  irq_armed tells the two     *)
(* halves apart.                                                           *)
(***************************************************************************)
EXTENDS Integers

CONSTANTS
  Lines, NoLine,  (* indices of irq_mapping whose SYSINTR is not handled   *)
                  (* at once                                               *)
  MP,             (* drivers run on other CPUs than the handler, too       *)
  Silent,         (* a driver silences its device before InterruptDisable, *)
                  (* as CloseVirtioBlk and COM_Close do, ~Ps2Keybd not     *)
  Closes          (* drivers close                                         *)

ASSUME IntrAssumption ==
  /\ NoLine \notin Lines
  /\ MP \in BOOLEAN /\ Silent \in BOOLEAN /\ Closes \in BOOLEAN

VARIABLES
  irq_armed,                 \* per line, as in the code
  enabled, active, level,    \* GIC: forwarded, active; the device's line
  running,                   \* GIC: whose priority the CPU runs at
  handler, taken,            \* where OEMInterruptHandler is, with which line
  ev, registered,            \* the kernel's event of a line
  pc, closing                \* the driver's thread

gicVars  == << enabled, active, running >>
handVars == << handler, taken >>
evVars   == << ev, registered >>
drvVars  == << pc, closing >>
vars == << irq_armed, gicVars, level, handVars, evVars, drvVars >>

Init ==
  /\ irq_armed = [i \in Lines |-> FALSE]
  /\ enabled = [i \in Lines |-> FALSE] /\ active = [i \in Lines |-> FALSE]
  /\ level = [i \in Lines |-> FALSE]
  /\ running = NoLine /\ handler = "idle" /\ taken = NoLine
  /\ ev = [i \in Lines |-> FALSE] /\ registered = [i \in Lines |-> FALSE]
  /\ pc = [i \in Lines |-> "closed"] /\ closing = [i \in Lines |-> FALSE]

Goto(i, label) == pc' = [pc EXCEPT ![i] = label]

(* A thread on the handler's CPU waits until the handler has returned.     *)
CanRun == MP \/ handler = "idle"
-----------------------------------------------------------------------------
(* The device raises its line.                                             *)
Raise(i) ==
  /\ pc[i] # "closed" /\ ~level[i] /\ (Silent => ~closing[i])
  /\ level' = [level EXCEPT ![i] = TRUE]
  /\ UNCHANGED << irq_armed, gicVars, handVars, evVars, drvVars >>

(* OEMInterruptHandler reads GICC_IAR: the line becomes active.  The GIC   *)
(* offers it when it is enabled, asserted and not active yet, and no other *)
(* of its priority is running.                                             *)
ReadIar(i) ==
  /\ handler = "idle" /\ running = NoLine
  /\ enabled[i] /\ level[i] /\ ~active[i]
  /\ active' = [active EXCEPT ![i] = TRUE]
  /\ running' = i
  /\ handler' = "disarm" /\ taken' = i
  /\ UNCHANGED << irq_armed, enabled, level, evVars, drvVars >>

(* irq_iar[i] = iar; irq_armed[i] = 0.  Only the interrupt number matters  *)
(* of what irq_iar keeps, and it is the same every time.                   *)
Disarm ==
  /\ handler = "disarm"
  /\ irq_armed' = [irq_armed EXCEPT ![taken] = FALSE]
  /\ handler' = "eoi"
  /\ UNCHANGED << gicVars, level, taken, evVars, drvVars >>

(* GICC_EOIR drops the priority only (EOI mode, init.c:119).               *)
WriteEoirLate ==   (* mutant: the priority is never dropped *)
  /\ handler = "eoi"
  /\ handler' = "return"
  /\ UNCHANGED << irq_armed, gicVars, level, taken, evVars, drvVars >>

WriteEoir ==
  /\ handler = "eoi"
  /\ running' = NoLine
  /\ handler' = "return"
  /\ UNCHANGED << irq_armed, enabled, active, level, taken, evVars, drvVars >>

(* The kernel sets the event registered for the SYSINTR returned.          *)
SetIntrEvent ==
  /\ handler = "return"
  /\ ev' = [ev EXCEPT ![taken] = registered[taken] \/ @]
  /\ handler' = "idle" /\ taken' = NoLine
  /\ UNCHANGED << irq_armed, gicVars, level, registered, drvVars >>
-----------------------------------------------------------------------------
(* InterruptInitialize with a new event; OEMInterruptEnable arms ...       *)
EnableUnarmed(i) ==   (* mutant: the line is not armed *)
  /\ CanRun /\ pc[i] = "closed"
  /\ registered' = [registered EXCEPT ![i] = TRUE]
  /\ ev' = [ev EXCEPT ![i] = FALSE]
  /\ Goto(i, "enable") /\ closing' = [closing EXCEPT ![i] = FALSE]
  /\ UNCHANGED << irq_armed, gicVars, level, handVars >>

EnableArm(i) ==
  /\ CanRun /\ pc[i] = "closed"
  /\ registered' = [registered EXCEPT ![i] = TRUE]
  /\ ev' = [ev EXCEPT ![i] = FALSE]
  /\ irq_armed' = [irq_armed EXCEPT ![i] = TRUE]
  /\ Goto(i, "enable") /\ closing' = [closing EXCEPT ![i] = FALSE]
  /\ UNCHANGED << gicVars, level, handVars >>

(* ... and enables the line.                                               *)
EnableGic(i) ==
  /\ CanRun /\ pc[i] = "enable"
  /\ enabled' = [enabled EXCEPT ![i] = TRUE]
  /\ Goto(i, "wait")
  /\ UNCHANGED << irq_armed, active, running, level, handVars, evVars, closing >>

Wake(i) ==
  /\ CanRun /\ pc[i] = "wait" /\ ev[i]
  /\ ev' = [ev EXCEPT ![i] = FALSE]
  /\ Goto(i, "serve")
  /\ UNCHANGED << irq_armed, gicVars, level, handVars, registered, closing >>

(* The driver removes the cause at the device.                             *)
Serve(i) ==
  /\ CanRun /\ pc[i] = "serve"
  /\ level' = [level EXCEPT ![i] = FALSE]
  /\ Goto(i, "done")
  /\ UNCHANGED << irq_armed, gicVars, handVars, evVars, closing >>

(* OEMInterruptDone: an armed line is left alone, a disarmed one is armed  *)
(* again ...                                                               *)
AfterDone(i) == IF closing[i] THEN "disable" ELSE "wait"

DoneArm(i) ==
  /\ CanRun /\ pc[i] = "done"
  /\ Goto(i, IF irq_armed[i] THEN AfterDone(i) ELSE "dir")
  /\ irq_armed' = [irq_armed EXCEPT ![i] = TRUE]
  /\ UNCHANGED << gicVars, level, handVars, evVars, closing >>

(* ... and deactivated.                                                    *)
DoneDirOnly(i) ==   (* mutant: disarms after the deactivation *)
  /\ CanRun /\ pc[i] = "dir"
  /\ active' = [active EXCEPT ![i] = FALSE]
  /\ irq_armed' = [irq_armed EXCEPT ![i] = FALSE]
  /\ Goto(i, AfterDone(i))
  /\ UNCHANGED << enabled, running, level, handVars, evVars, closing >>

DoneDir(i) ==
  /\ CanRun /\ pc[i] = "dir"
  /\ active' = [active EXCEPT ![i] = FALSE]
  /\ Goto(i, AfterDone(i))
  /\ UNCHANGED << irq_armed, enabled, running, level, handVars, evVars, closing >>

(* A driver closes: it silences its device and looks for an interrupt not  *)
(* yet answered, or disables the line as it is.                            *)
Close(i) ==
  /\ Closes /\ CanRun /\ pc[i] = "wait"
  /\ closing' = [closing EXCEPT ![i] = TRUE]
  /\ level' = [level EXCEPT ![i] = ~Silent /\ @]
  /\ Goto(i, IF Silent THEN "poll" ELSE "disable")
  /\ UNCHANGED << irq_armed, gicVars, handVars, evVars >>

PollSkipped(i) ==   (* mutant: closes without InterruptDone *)
  /\ CanRun /\ pc[i] = "poll"
  /\ Goto(i, "disable")
  /\ UNCHANGED << irq_armed, gicVars, level, handVars, evVars, closing >>

(* WaitForSingleObject(interrupt_ev, 0)                                    *)
Poll(i) ==
  /\ CanRun /\ pc[i] = "poll"
  /\ ev' = [ev EXCEPT ![i] = FALSE]
  /\ Goto(i, IF ev[i] THEN "done" ELSE "disable")
  /\ UNCHANGED << irq_armed, gicVars, level, handVars, registered, closing >>

(* OEMInterruptDisable disarms ...                                         *)
DisableArm(i) ==
  /\ CanRun /\ pc[i] = "disable"
  /\ irq_armed' = [irq_armed EXCEPT ![i] = FALSE]
  /\ Goto(i, "mask")
  /\ UNCHANGED << gicVars, level, handVars, evVars, closing >>

(* ... and disables the line; the kernel forgets the event, the driver     *)
(* closes it.                                                              *)
DisableGic(i) ==
  /\ CanRun /\ pc[i] = "mask"
  /\ enabled' = [enabled EXCEPT ![i] = FALSE]
  /\ registered' = [registered EXCEPT ![i] = FALSE]
  /\ ev' = [ev EXCEPT ![i] = FALSE]
  /\ Goto(i, "closed")
  /\ UNCHANGED << irq_armed, active, running, level, handVars, closing >>
-----------------------------------------------------------------------------
Handle == (\E i \in Lines : ReadIar(i)) \/ Disarm \/ WriteEoir \/ SetIntrEvent

(* What a driver does by itself once it is open, and what it need not do.  *)
DriverStep(i) ==
  \/ EnableGic(i) \/ Wake(i) \/ Serve(i) \/ DoneArm(i) \/ DoneDir(i)
  \/ Poll(i) \/ DisableArm(i) \/ DisableGic(i)

Next ==
  \/ Handle
  \/ \E i \in Lines : Raise(i) \/ EnableArm(i) \/ DriverStep(i) \/ Close(i)

Spec == Init /\ [][Next]_vars

(* Interrupts are taken, the lines in turn, and drivers go on.             *)
Fairness ==
  /\ WF_vars(Disarm) /\ WF_vars(WriteEoir) /\ WF_vars(SetIntrEvent)
  /\ \A i \in Lines : SF_vars(ReadIar(i)) /\ SF_vars(DriverStep(i))

FairSpec == Spec /\ Fairness
-----------------------------------------------------------------------------
TypeOK ==
  /\ irq_armed \in [Lines -> BOOLEAN] /\ level \in [Lines -> BOOLEAN]
  /\ enabled \in [Lines -> BOOLEAN] /\ active \in [Lines -> BOOLEAN]
  /\ ev \in [Lines -> BOOLEAN] /\ registered \in [Lines -> BOOLEAN]
  /\ closing \in [Lines -> BOOLEAN]
  /\ running \in Lines \cup {NoLine} /\ taken \in Lines \cup {NoLine}
  /\ handler \in {"idle", "disarm", "eoi", "return"}
  /\ pc \in [Lines -> {"closed", "enable", "wait", "serve", "done", "dir", "poll", "disable",
                       "mask"}]

(* Somebody is about to deactivate the line: the handler has yet to set    *)
(* the event, or it is set, or the driver is on its way to InterruptDone.  *)
InHand(i) == taken = i \/ ev[i] \/ pc[i] \in {"serve", "done", "dir"}

(* A line left active by the handler is in somebody's hands until it is    *)
(* deactivated: no line gets stuck, and none is left active by a driver    *)
(* that closes (intr.c:83-94, 178-205; virtio.c:199-207).                  *)
NoneStuck == \A i \in Lines : active[i] => InHand(i)

(* irq_armed tells whether the line is active, whenever neither half is at *)
(* work on it: the one thing OEMInterruptDone decides by (intr.c:87).      *)
ArmedIsInactive ==
  \A i \in Lines :
    (taken # i /\ pc[i] \notin {"enable", "dir", "mask", "closed"})
      => (irq_armed[i] <=> ~active[i])

(* "unexpected IRQ arming" (intr.c:88) never shows.                        *)
NoUnexpectedArming == \A i \in Lines : pc[i] = "done" => ~irq_armed[i]

(* "unexpected IRQ trigger" (intr.c:183) never shows: the handler finds    *)
(* the line armed.                                                         *)
NoUnexpectedTrigger == handler = "disarm" => irq_armed[taken]

(* A device that raises its line is served, or its driver closes.          *)
RaisedIsServed == \A i \in Lines : level[i] ~> ~level[i] \/ pc[i] = "closed"

(* "performs all hardware operations necessary to enable the specified     *)
(* hardware interrupt" (intr.c:43-44): after it, the line is inactive or   *)
(* in somebody's hands, so that the GIC offers it.                         *)
EnableEnables == \A i \in Lines : pc[i] = "wait" /\ active[i] => InHand(i)
=============================================================================
