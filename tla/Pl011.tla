-------------------------------- MODULE Pl011 --------------------------------
(***************************************************************************)
(* The serial port driver, drivers/pl011/pl011.cpp: COM_Open, COM_Close,   *)
(* COM_Read and COM_IOControl called by several threads, and the UART and  *)
(* its interrupt line (external).  The n-th byte that arrives is the       *)
(* number n.  COM_Write touches only the data register, which takes        *)
(* whatever it is given, and is left out.                                  *)
(*                                                                         *)
(* Every COM_Open makes two new events, so that a thread may hold handles  *)
(* of an opening that is over: the events of the k-th opening have index k.*)
(***************************************************************************)
EXTENDS Naturals, Sequences

CONSTANTS
  Threads,
  MaxBytes,    (* bound: bytes that arrive                                 *)
  MaxOpens,    (* bound: calls of COM_Open that create events              *)
  Counts       (* bytes asked for by a read                                *)

VARIABLES
  is_open,                         \* of port_state
  opens, interrupt, breakev, gone, \* the events: how many, set, set, closed
  imsc, fifo, arrived,             \* the UART
  enabled, armed, active,          \* its line: intr.c and the GIC
  handle,                          \* the application's handle is valid
  pc, on, left, limit,             \* a call: where; until it has waited, on which events and
                                   \* whether total_timeout is not INFINITE; bytes to go
  taken,                           \* the bytes read, 0 for garbage
  wiped,                           \* history: the openings whose COM_Close a reader has
                                   \* taken back the break of
  outlived                         \* history: a read has gone on after its port was closed

eventVars == << opens, interrupt, breakev, gone >>
lineVars  == << enabled, armed, active >>
callVars  == << pc, on, left, limit >>
history   == << wiped, outlived >>
vars == << is_open, eventVars, imsc, fifo, arrived, lineVars, handle, callVars, taken, history >>

Events == 1 .. MaxOpens

Init ==
  /\ is_open = FALSE /\ handle = FALSE
  /\ opens = 0
  /\ interrupt = [k \in Events |-> FALSE] /\ breakev = [k \in Events |-> FALSE]
  /\ gone = [k \in Events |-> FALSE]
  /\ imsc = FALSE /\ fifo = << >> /\ arrived = 0
  /\ enabled = FALSE /\ armed = FALSE /\ active = FALSE
  /\ pc = [t \in Threads |-> "idle"] /\ on = [t \in Threads |-> 0]
  /\ left = [t \in Threads |-> 0] /\ limit = [t \in Threads |-> FALSE]
  /\ taken = << >> /\ wiped = {} /\ outlived = FALSE

Goto(t, label) == pc' = [pc EXCEPT ![t] = label]

(* A call that waits for the events of an opening.                         *)
Waits(t, k) == pc[t] = "wait" /\ on[t] = k

(* One that need not wait any more.                                        *)
GoOn(t) ==
  Goto(t, "loop") /\ on' = [on EXCEPT ![t] = 0] /\ limit' = [limit EXCEPT ![t] = FALSE]

(* OEMInterruptDone (oal/oallib/intr.c): an armed line is left alone.      *)
InterruptDone ==
  /\ armed' = TRUE
  /\ active' = (active /\ armed)
  /\ UNCHANGED enabled
-----------------------------------------------------------------------------
(* A byte arrives.  The UART holds the sender off while it is full.        *)
Arrive ==
  /\ arrived < MaxBytes
  /\ arrived' = arrived + 1 /\ fifo' = Append(fifo, arrived + 1)
  /\ UNCHANGED << is_open, eventVars, imsc, lineVars, handle, callVars, taken, history >>

(* The receive interrupt is up while there are bytes; the handler makes    *)
(* the line active and sets the event registered last.  The event lets one *)
(* thread go: one that waits, or the next that comes to wait.              *)
Interrupt ==
  /\ imsc /\ fifo # << >> /\ enabled /\ ~active
  /\ active' = TRUE /\ armed' = FALSE
  /\ \/ \E t \in Threads : Waits(t, opens) /\ GoOn(t) /\ UNCHANGED interrupt
     \/ /\ \A t \in Threads : ~Waits(t, opens)
        /\ interrupt' = [interrupt EXCEPT ![opens] = TRUE] /\ UNCHANGED << pc, on, limit >>
  /\ UNCHANGED << is_open, opens, breakev, gone, imsc, fifo, arrived, enabled, handle,
                  left, taken, history >>
-----------------------------------------------------------------------------
(* COM_Open: refused while open; opened by one thread at a time.  Reads of *)
(* the last opening may still be going on.                                 *)
Opening == {"initialize", "poll", "break", "disable", "forget"}
Taking  == {"loop", "byte", "done"}

Open(t) ==
  /\ pc[t] = "idle" /\ ~is_open /\ ~handle /\ opens < MaxOpens
  /\ \A u \in Threads : pc[u] \notin Opening
  /\ imsc' = TRUE
  /\ opens' = opens + 1
  /\ Goto(t, "initialize")
  /\ UNCHANGED << is_open, interrupt, breakev, gone, fifo, arrived, lineVars, handle, on, left,
                  limit, taken, history >>

(* InterruptInitialize, which may fail: the events are closed again.       *)
Initialize(t) ==
  /\ pc[t] = "initialize"
  /\ Goto(t, "idle")
  /\ \/ /\ enabled' = TRUE /\ armed' = TRUE
        /\ is_open' = TRUE /\ handle' = TRUE
        /\ outlived' = (outlived \/ \E u \in Threads : pc[u] \in Taking)
        /\ UNCHANGED << gone, active >>
     \/ /\ gone' = [gone EXCEPT ![opens] = TRUE]
        /\ UNCHANGED << lineVars, is_open, handle, outlived >>
  /\ UNCHANGED << opens, interrupt, breakev, imsc, fifo, arrived, on, left, limit, taken, wiped >>
-----------------------------------------------------------------------------
(* COM_Close: silence the UART; the handle is not valid any more.          *)
Close(t) ==
  /\ pc[t] = "idle" /\ handle /\ is_open
  /\ handle' = FALSE /\ imsc' = FALSE
  /\ Goto(t, "poll")
  /\ UNCHANGED << is_open, eventVars, fifo, arrived, lineVars, on, left, limit, taken, history >>

(* An interrupt nobody has answered is answered here.                      *)
Poll(t) ==
  /\ pc[t] = "poll"
  /\ interrupt' = [interrupt EXCEPT ![opens] = FALSE]
  /\ IF interrupt[opens] THEN InterruptDone ELSE UNCHANGED lineVars
  /\ Goto(t, "break")
  /\ UNCHANGED << is_open, opens, breakev, gone, imsc, fifo, arrived, handle, on, left, limit,
                  taken, history >>

NoBreak(t) ==   (* mutant: the readers are not told *)
  /\ pc[t] = "break"
  /\ Goto(t, "disable")
  /\ UNCHANGED << is_open, eventVars, imsc, fifo, arrived, lineVars, handle, on, left, limit,
                  taken, history >>

(* SetEvent(breakev): the reads that wait return without a byte.           *)
SetBreak(t, label) ==
  LET told == {u \in Threads : Waits(u, opens)} IN
  /\ breakev' = [breakev EXCEPT ![opens] = @ \/ ~gone[opens]]
  /\ pc'    = [u \in Threads |-> IF u = t THEN label ELSE IF u \in told THEN "idle" ELSE pc[u]]
  /\ on'    = [u \in Threads |-> IF u \in told THEN 0 ELSE on[u]]
  /\ left'  = [u \in Threads |-> IF u \in told THEN 0 ELSE left[u]]
  /\ limit' = [u \in Threads |-> limit[u] /\ u \notin told]
  /\ UNCHANGED << is_open, opens, interrupt, gone, imsc, fifo, arrived, lineVars, handle, taken,
                  history >>

Break(t) == pc[t] = "break" /\ SetBreak(t, "disable")

Disable(t) ==
  /\ pc[t] = "disable"
  /\ armed' = FALSE /\ enabled' = FALSE
  /\ Goto(t, "forget")
  /\ UNCHANGED << is_open, eventVars, imsc, fifo, arrived, active, handle, on, left, limit, taken,
                  history >>

Forget(t) ==
  /\ pc[t] = "forget"
  /\ gone' = [gone EXCEPT ![opens] = TRUE]
  /\ interrupt' = [interrupt EXCEPT ![opens] = FALSE] /\ breakev' = [breakev EXCEPT ![opens] = FALSE]
  /\ is_open' = FALSE
  /\ Goto(t, "idle")
  /\ UNCHANGED << opens, imsc, fifo, arrived, lineVars, handle, on, left,
                  limit, taken, history >>
-----------------------------------------------------------------------------
(* COM_Read of Count bytes, with a time-out or none: IOCTL_SERIAL_SET_     *)
(* TIMEOUTS lets it be either.  ResetEvent(breakev) ...                    *)
Read(t, count, lim) ==
  /\ pc[t] = "idle" /\ handle /\ count > 0
  /\ on' = [on EXCEPT ![t] = opens] /\ left' = [left EXCEPT ![t] = count]
  /\ limit' = [limit EXCEPT ![t] = lim]
  /\ Goto(t, "reset")
  /\ UNCHANGED << is_open, eventVars, imsc, fifo, arrived, lineVars, handle, taken, history >>

(* ... which takes back the one that COM_Close has just set, too ...       *)
ResetBreak(t) ==
  /\ pc[t] = "reset"
  /\ breakev' = [breakev EXCEPT ![opens] = FALSE]
  /\ wiped' = IF \E u \in Threads : pc[u] \in {"disable", "forget"} THEN wiped \cup {opens} ELSE wiped
  /\ Goto(t, "begin")
  /\ UNCHANGED << is_open, opens, interrupt, gone, imsc, fifo, arrived, lineVars, handle, on,
                  left, limit, taken, outlived >>

Return(t) ==
  /\ Goto(t, "idle")
  /\ on' = [on EXCEPT ![t] = 0] /\ left' = [left EXCEPT ![t] = 0]
  /\ limit' = [limit EXCEPT ![t] = FALSE]

(* ... WaitForMultipleObjects, on the events there are by now: it finds an *)
(* interrupt, or a break, or none; or it fails, on closed handles, and     *)
(* that is taken for an interrupt ...                                      *)
BeginWait(t) ==
  /\ pc[t] = "begin"
  /\ outlived' = (outlived \/ gone[opens] \/ on[t] # opens)
  /\ \/ gone[opens] /\ GoOn(t) /\ UNCHANGED << interrupt, left >>
     \/ /\ ~gone[opens] /\ interrupt[opens] /\ GoOn(t)
        /\ interrupt' = [interrupt EXCEPT ![opens] = FALSE] /\ UNCHANGED left
     \/ /\ ~gone[opens] /\ ~interrupt[opens] /\ breakev[opens] /\ Return(t)
        /\ UNCHANGED interrupt
     \/ /\ ~gone[opens] /\ ~interrupt[opens] /\ ~breakev[opens] /\ Goto(t, "wait")
        /\ on' = [on EXCEPT ![t] = opens] /\ UNCHANGED << interrupt, left, limit >>
  /\ UNCHANGED << is_open, opens, breakev, gone, imsc, fifo, arrived, lineVars, handle, taken, wiped >>

(* ... or times out.                                                       *)
GiveUp(t) ==
  /\ pc[t] = "wait" /\ limit[t]
  /\ Return(t)
  /\ UNCHANGED << is_open, eventVars, imsc, fifo, arrived, lineVars, handle, taken, history >>

(* ... the bytes: a look at the flag register, then one at the data        *)
(* register, and InterruptDone.                                            *)
LookAtFlags(t) ==
  /\ pc[t] = "loop"
  /\ Goto(t, IF fifo = << >> THEN "done" ELSE "byte")
  /\ UNCHANGED << is_open, eventVars, imsc, fifo, arrived, lineVars, handle, on, left, limit, taken,
                  history >>

TakeByte(t) ==
  /\ pc[t] = "byte"
  /\ taken' = Append(taken, IF fifo = << >> THEN 0 ELSE Head(fifo))
  /\ fifo' = IF fifo = << >> THEN fifo ELSE Tail(fifo)
  /\ left' = [left EXCEPT ![t] = @ - 1]
  /\ Goto(t, IF left[t] = 1 THEN "done" ELSE "loop")
  /\ UNCHANGED << is_open, eventVars, imsc, arrived, lineVars, handle, on, limit, history >>

EndRead(t) ==
  /\ pc[t] = "done"
  /\ InterruptDone
  /\ Return(t)
  /\ UNCHANGED << is_open, eventVars, imsc, fifo, arrived, handle, taken, history >>
-----------------------------------------------------------------------------
(* COM_IOControl with PURGE_RXABORT; the other codes that it serves answer *)
(* with constants.                                                         *)
Purge(t) == pc[t] = "idle" /\ handle /\ SetBreak(t, "idle")

ReadStep(t) ==
  \/ ResetBreak(t) \/ BeginWait(t) \/ GiveUp(t)
  \/ LookAtFlags(t) \/ TakeByte(t) \/ EndRead(t)
CloseStep(t) == Poll(t) \/ Break(t) \/ Disable(t) \/ Forget(t)
Call(t) == Open(t) \/ Close(t) \/ Purge(t) \/ (\E n \in Counts, lim \in BOOLEAN : Read(t, n, lim))

(* Bound: nobody calls any more after a read has outlived its opening.      *)
Next ==
  \/ Arrive \/ Interrupt
  \/ \E t \in Threads : (~outlived /\ Call(t)) \/ Initialize(t) \/ ReadStep(t) \/ CloseStep(t)

Spec == Init /\ [][Next]_vars

(* Interrupts are taken and calls go on; nobody has to make one.           *)
Fairness ==
  /\ WF_vars(Interrupt)
  /\ \A t \in Threads : WF_vars(ReadStep(t)) /\ WF_vars(CloseStep(t))

FairSpec == Spec /\ Fairness
-----------------------------------------------------------------------------
TypeOK ==
  /\ \A b \in {is_open, imsc, enabled, armed, active, handle} : b \in BOOLEAN
  /\ opens \in 0 .. MaxOpens
  /\ \A e \in {interrupt, breakev, gone} : e \in [Events -> BOOLEAN]
  /\ arrived \in 0 .. MaxBytes /\ fifo \in Seq(1 .. MaxBytes) /\ taken \in Seq(0 .. MaxBytes)
  /\ pc \in [Threads -> {"idle", "initialize", "poll", "break", "disable", "forget",
                         "reset", "begin", "wait", "loop", "byte", "done"}]
  /\ on \in [Threads -> 0 .. MaxOpens] /\ left \in [Threads -> Nat]
  /\ limit \in [Threads -> BOOLEAN] /\ wiped \subseteq Events /\ outlived \in BOOLEAN

(* Readers share the FIFO without a lock: what keeps one from taking the   *)
(* byte another has seen the flag for is that the interrupt stays active   *)
(* until InterruptDone.  No byte is made up, lost or taken out of order    *)
(* (pl011.cpp:259-265).  Not so when a read goes on after its port was     *)
(* closed: its InterruptDone is then that of another's interrupt.          *)
BytesInOrder == ~outlived => taken = [i \in 1 .. Len(taken) |-> i]

(* COM_Close leaves no reader asleep on events nothing will set again      *)
(* (pl011.cpp:221), but for the one slip there is: COM_Read's ResetEvent   *)
(* (pl011.cpp:253) falls between COM_Close's SetEvent and its CloseHandle. *)
NoneLeftWaiting ==
  ~outlived => \A t \in Threads : pc[t] = "wait" /\ gone[on[t]] => on[t] \in wiped

(* Nor the line active, which would keep interrupts from the next opening  *)
(* (pl011.cpp:218-219), unless a read has gone on into that opening.       *)
LineLeftInactive ==
  ~is_open /\ ~outlived /\ (\A t \in Threads : pc[t] \in {"idle", "initialize"}) => ~active

(* Bytes that have arrived are read by who waits for them, those a short   *)
(* read has left in the FIFO, too (pl011.cpp:261-265).                     *)
BytesAreRead ==
  \A n \in 1 .. MaxBytes :
    (arrived >= n /\ \E t \in Threads : Waits(t, opens))
      ~> (Len(taken) >= n \/ (\A t \in Threads : ~Waits(t, opens)) \/ ~handle \/ outlived)

(* Bytes are read in the order they came, nobody waits on a port that is   *)
(* closed, and a closed port's line is inactive, whenever calls meet, with *)
(* two slips marked in the state: wiped and outlived (pl011.cpp:209-265).  *)
PortSound == BytesInOrder /\ NoneLeftWaiting /\ LineLeftInactive
=============================================================================
