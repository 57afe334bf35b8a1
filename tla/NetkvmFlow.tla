------------------------------ MODULE NetkvmFlow ------------------------------
(***************************************************************************)
(* The flows of the NDIS 6 adapter: the counters of what NDIS, the device  *)
(* or the virtual function still has in hand (CFlowStateMachine), and the  *)
(* miniport's state machine that starts and stops them when NDIS restarts, *)
(* pauses, suspends, resets or halts the adapter.  A flow is stopped by    *)
(* setting a bit in its counter; whoever then takes the counter to that    *)
(* bit alone completes the stop.                                           *)
(*                                                                         *)
(* Every thread is a list of what it still has to do, one step for each    *)
(* access to what is shared: this is the build for Windows CE, where       *)
(* CompleteStopping takes no lock.                                         *)
(***************************************************************************)
EXTENDS Naturals, Sequences, FiniteSets

CONSTANTS
  Users,        \* threads that send, receive, complete and return
  Flows,        \* a subset of AllFlows: they meet in nothing but the threads
  Ops           \* what NDIS asks for: a subset of AllOps, if there is the data flow

AllFlows == {"data", "binding"}
AllOps == {"restart", "pause", "suspend", "resume", "reset", "remove", "shutdown", "halt"}

VARIABLES
  m_State, count, masked, m_NoOutstandingItems,  \* of each flow; masked: StoppedMask is set
  m_Value,      \* the binding: CFlowStateMachineWithPointer
  mp,           \* CMiniportStateMachine::m_State
  bEnableInterruptHandlingDPC,
  needsReset, bDeviceNeedsReset, \* the device's status; seen by the DPC
  ndis,         \* what NDIS thinks: [running, powered, removed, reset, halted]
  todo,         \* of each thread: what it has to do
  held,         \* of each flow: the threads with an item registered
  late,         \* of each flow: a stop was completed by two, and one still has to
  refused       \* ChangeState found a state it does not allow

flowVars == << m_State, count, masked, m_NoOutstandingItems, m_Value, held, late >>
mpVars   == << mp, bEnableInterruptHandlingDPC, needsReset, bDeviceNeedsReset, ndis, refused >>
vars     == << flowVars, mpVars, todo >>

Threads == Users \cup {"ndis", "vf", "cx"}
Op(op, f) == [op |-> op, f |-> f]

(* After NotifyInitialized.                                                *)
Init ==
  /\ m_State = [f \in Flows |-> "Stopped"] /\ count = [f \in Flows |-> 0]
  /\ masked = [f \in Flows |-> TRUE]
  /\ m_NoOutstandingItems = [f \in Flows |-> FALSE]
  /\ m_Value = FALSE /\ mp = "Paused" /\ bEnableInterruptHandlingDPC = TRUE
  /\ needsReset = FALSE /\ bDeviceNeedsReset = FALSE
  /\ ndis = [running |-> FALSE, powered |-> TRUE, removed |-> FALSE, reset |-> FALSE,
             halted |-> FALSE]
  /\ todo = [t \in Threads |-> << >>]
  /\ held = [f \in Flows |-> {}] /\ late = [f \in Flows |-> FALSE] /\ refused = FALSE
-----------------------------------------------------------------------------
At(t, op, f)   == todo[t] # << >> /\ Head(todo[t]) = Op(op, f)
Then(t, s)     == todo' = [todo EXCEPT ![t] = s \o Tail(@)]
When(c, s)     == IF c THEN s ELSE << >>

(* CheckCompletion: of the last to leave a counter that is masked.         *)
CheckCompletion(f) == When(masked[f] /\ count'[f] = 0, << Op("check", f) >>)

(* RegisterOutstandingItem(s): AddRef, and if the flow is not running      *)
(* Release again.  Reference finds no binding: it lets go of the flow.     *)
AddRef(t, f) ==
  /\ At(t, "addref", f) /\ count' = [count EXCEPT ![f] = @ + 1]
  /\ held' = [held EXCEPT ![f] = IF masked[f] THEN @ ELSE @ \cup {t}]
  /\ Then(t, IF masked[f] THEN << Op("release", f) >>
             ELSE When(f = "binding" /\ ~m_Value, << Op("release", f) >>))
  /\ UNCHANGED << m_State, masked, m_NoOutstandingItems, m_Value, late, mpVars >>

Release(t, f) ==
  /\ At(t, "release", f) /\ count' = [count EXCEPT ![f] = @ - 1]
  /\ held' = [held EXCEPT ![f] = @ \ {t}]
  /\ Then(t, CheckCompletion(f))
  /\ UNCHANGED << m_State, masked, m_NoOutstandingItems, m_Value, late, mpVars >>

(* CompleteStopping, without its lock: a look, an assignment, the event.   *)
CompleteStopping(t, f) ==
  /\ \/ At(t, "check", f) /\ UNCHANGED << m_State, m_NoOutstandingItems >>
        /\ Then(t, When(m_State[f] = "Stopping", << Op("stopped", f), Op("notify", f) >>))
     \/ At(t, "stopped", f) /\ m_State' = [m_State EXCEPT ![f] = "Stopped"] /\ Then(t, << >>)
        /\ UNCHANGED m_NoOutstandingItems
     \/ At(t, "notify", f) /\ Then(t, << >>) /\ UNCHANGED m_State
        /\ m_NoOutstandingItems' = [m_NoOutstandingItems EXCEPT ![f] = TRUE]
  /\ UNCHANGED << count, masked, m_Value, held, late, mpVars >>

Completing(t, f) == \E op \in {"check", "stopped", "notify"} : At(t, op, f)
TooLate(t, f) ==
  late' = [late EXCEPT ![f] = @ \/ \E u \in Threads \ {t} : Completing(u, f)]

(* Mutant of the next: the event is left as the last stop set it.          *)
StopKeepsEvent(t, f) ==
  /\ At(t, "stop", f)
  /\ IF m_State[f] = "Running"
       THEN /\ m_State' = [m_State EXCEPT ![f] = "Stopping"] /\ TooLate(t, f)
            /\ Then(t, << Op("mask", f), Op("release", f), Op("wait", f) >>)
       ELSE /\ Then(t, << >>) /\ UNCHANGED << m_State, late >>
  /\ UNCHANGED << count, masked, m_NoOutstandingItems, m_Value, held, mpVars >>

(* Stop, of a flow that runs.                                              *)
Stop(t, f) ==
  /\ At(t, "stop", f)
  /\ IF m_State[f] = "Running"
       THEN /\ m_State' = [m_State EXCEPT ![f] = "Stopping"] /\ TooLate(t, f)
            /\ Then(t, << Op("clear", f), Op("mask", f), Op("release", f), Op("wait", f) >>)
       ELSE /\ Then(t, << >>) /\ UNCHANGED << m_State, late >>
  /\ UNCHANGED << count, masked, m_NoOutstandingItems, m_Value, held, mpVars >>

Stopping(t, f) ==
  /\ \/ At(t, "clear", f)
        /\ m_NoOutstandingItems' = [m_NoOutstandingItems EXCEPT ![f] = FALSE] /\ UNCHANGED masked
     \/ At(t, "mask", f) /\ masked' = [masked EXCEPT ![f] = TRUE] /\ UNCHANGED m_NoOutstandingItems
     \/ At(t, "wait", f) /\ m_NoOutstandingItems[f] /\ UNCHANGED << masked, m_NoOutstandingItems >>
  /\ Then(t, << >>)
  /\ UNCHANGED << m_State, count, m_Value, held, late, mpVars >>

(* Start: its own reference first, and the bit last.                       *)
Start(t, f) ==
  /\ \/ At(t, "start", f) /\ UNCHANGED << m_State, masked >>
        /\ IF m_State[f] = "Stopped"
             THEN /\ count' = [count EXCEPT ![f] = @ + 1] /\ TooLate(t, f)
                  /\ Then(t, << Op("running", f), Op("unmask", f) >>)
             ELSE Then(t, << >>) /\ UNCHANGED << count, late >>
     \/ At(t, "running", f) /\ m_State' = [m_State EXCEPT ![f] = "Running"] /\ Then(t, << >>)
        /\ UNCHANGED << count, masked, late >>
     \/ At(t, "unmask", f) /\ masked' = [masked EXCEPT ![f] = FALSE] /\ Then(t, << >>)
        /\ UNCHANGED << m_State, count, late >>
  /\ UNCHANGED << m_NoOutstandingItems, m_Value, held, mpVars >>

(* CFlowStateMachineWithPointer.                                           *)
SetValue(t) ==
  /\ \/ At(t, "set", "binding") /\ m_Value' = TRUE
     \/ At(t, "null", "binding") /\ m_Value' = FALSE
  /\ Then(t, << >>)
  /\ UNCHANGED << m_State, count, masked, m_NoOutstandingItems, held, late, mpVars >>
Set   == << Op("set", "binding"), Op("start", "binding") >>
Clear == << Op("stop", "binding"), Op("null", "binding") >>
-----------------------------------------------------------------------------
(* The users: a frame is indicated and returned, a packet is sent and      *)
(* completed, the binding is referenced and dereferenced, at any time.     *)
Use(t, f) ==
  /\ todo[t] = << >> /\ \A g \in Flows : t \notin held[g]
  /\ todo' = [todo EXCEPT ![t] = << Op("addref", f) >>]
  /\ UNCHANGED << flowVars, mpVars >>
Unuse(t, f) ==
  /\ todo[t] = << >> /\ t \in held[f]
  /\ todo' = [todo EXCEPT ![t] = << Op("release", f) >>]
  /\ UNCHANGED << flowVars, mpVars >>

(* The virtual function comes and goes: NotifyBindSriov, NotifyUnbindSriov.*)
Bind ==
  /\ "binding" \in Flows /\ todo["vf"] = << >> /\ ~ndis.halted
  /\ todo' = [todo EXCEPT !["vf"] = IF m_Value THEN Clear ELSE Set]
  /\ UNCHANGED << flowVars, mpVars >>

(* The device asks for a reset; the configuration DPC sees it, between a   *)
(* step of the others and another (ParaNdis_CXDPCWorkBody).                *)
DeviceNeedsReset ==
  /\ ~needsReset /\ ~bDeviceNeedsReset /\ ndis.powered /\ ~ndis.removed /\ needsReset' = TRUE
  /\ ndis' = [ndis EXCEPT !.reset = TRUE]
  /\ UNCHANGED << flowVars, mp, bEnableInterruptHandlingDPC, bDeviceNeedsReset, refused, todo >>

ChangeState(new, allowed) == mp' = new /\ refused' = (refused \/ mp # allowed)

(* Inside from its look at bEnableInterruptHandlingDPC on.                 *)
CXDPC ==
  /\ todo["cx"] = << >> /\ bEnableInterruptHandlingDPC /\ needsReset
  /\ todo' = [todo EXCEPT !["cx"] = << Op("needs_reset", "cx") >>]
  /\ UNCHANGED << flowVars, mpVars >>
NotifyDeviceNeedsReset ==
  /\ At("cx", "needs_reset", "cx") /\ Then("cx", << >>)
  /\ ChangeState("NeedsReset", "Running") /\ bDeviceNeedsReset' = TRUE
  /\ UNCHANGED << flowVars, bEnableInterruptHandlingDPC, needsReset, ndis >>
-----------------------------------------------------------------------------
(* What NDIS asks for, one thing at a time.                                *)
Data(op) == << Op(op, "data") >>
Mp(op)   == << Op(op, "mp") >>

NotifyRestarted == Data("start") \o Mp("restarted")
NotifyPaused    == Data("stop") \o Mp("paused")
PowerOff        == Mp("suspend") \o Mp("device_off") \o Mp("prevent_dpc") \o Mp("shutdown_queues")
PowerOn         == Mp("device_on") \o Mp("resume")
Halting         == Mp("device_off") \o Mp("prevent_dpc")

Ask(op) ==
  /\ todo["ndis"] = << >> /\ ~ndis.halted
  /\ todo' = [todo EXCEPT !["ndis"] =
       CASE op = "restart"  -> NotifyRestarted
         [] op = "pause"    -> NotifyPaused
         [] op = "suspend"  -> PowerOff
         [] op = "resume"   -> PowerOn
         [] op = "reset"    -> PowerOff \o PowerOn
         [] op = "remove"   -> Mp("removed")
         [] op = "shutdown" -> Mp("shutdown")
         [] op = "halt"     -> Halting]
  /\ CASE op = "restart"  -> ~ndis.running /\ ndis.powered /\ ~ndis.removed
       [] op = "pause"    -> ndis.running /\ ndis.powered
       [] op = "suspend"  -> ndis.powered /\ ~ndis.removed
       [] op = "resume"   -> ~ndis.powered /\ ~ndis.removed
       [] op = "reset"    -> bDeviceNeedsReset /\ ndis.powered /\ ~ndis.removed
       [] op = "remove"   -> ndis.powered /\ ~ndis.removed
       [] op = "shutdown" -> ndis.powered
       [] op = "halt"     -> ~ndis.running
  /\ ndis' = [ndis EXCEPT !.running = IF op = "restart" THEN TRUE ELSE IF op = "pause" THEN FALSE ELSE @,
                          !.powered = IF op = "suspend" THEN FALSE ELSE op = "resume" \/ @,
                          !.removed = @ \/ op = "remove",
                          !.halted  = @ \/ op \in {"shutdown", "halt"}]
  /\ bDeviceNeedsReset' = (bDeviceNeedsReset /\ op # "reset")   \* CheckForHang
  /\ UNCHANGED << flowVars, mp, bEnableInterruptHandlingDPC, needsReset, refused >>

(* The state machine follows the flows, except that a suspended adapter    *)
(* is one that ran or one that was paused.                                 *)
MpOp(op) == At("ndis", op, "mp") /\ UNCHANGED << flowVars, ndis, bDeviceNeedsReset >>

NotifyState ==
  /\ \/ MpOp("restarted") /\ ChangeState("Running", "Paused") /\ Then("ndis", << >>)
     \/ MpOp("paused") /\ ChangeState("Paused", "Running") /\ Then("ndis", << >>)
     \/ MpOp("removed") /\ ChangeState("SurpriseRemoved", "Running") /\ Then("ndis", Mp("device_off"))
     \/ MpOp("shutdown") /\ ChangeState("Shutdown", "Paused") /\ Then("ndis", << >>)
     \/ MpOp("fast") /\ ChangeState("FastSuspend", "Running") /\ Then("ndis", << >>)
     \/ MpOp("suspend") /\ mp = "Running" /\ UNCHANGED << mp, refused >>
        /\ Then("ndis", Data("stop") \o Mp("fast"))
     \/ MpOp("suspend") /\ mp # "Running" /\ ChangeState("Suspended", "Paused") /\ Then("ndis", << >>)
     \/ MpOp("resume") /\ mp = "FastSuspend" /\ UNCHANGED << mp, refused >>
        /\ Then("ndis", Data("start") \o Mp("faster"))
     \/ MpOp("faster") /\ ChangeState("Running", "FastSuspend") /\ Then("ndis", << >>)
     \/ MpOp("resume") /\ mp # "FastSuspend" /\ ChangeState("Paused", "Suspended") /\ Then("ndis", << >>)
  /\ UNCHANGED << bEnableInterruptHandlingDPC, needsReset >>

(* PreventDPCServicing waits for the DPC that is inside; queues are shut   *)
(* down, and the device is set up again, or refuses its features.          *)
Device ==
  /\ \/ MpOp("device_off") /\ needsReset' = FALSE /\ UNCHANGED bEnableInterruptHandlingDPC
        /\ Then("ndis", << >>)
     \/ MpOp("prevent_dpc") /\ bEnableInterruptHandlingDPC' = FALSE /\ UNCHANGED needsReset
        /\ Then("ndis", Mp("wait_dpc"))
     \/ MpOp("wait_dpc") /\ todo["cx"] = << >> /\ Then("ndis", << >>)
        /\ UNCHANGED << bEnableInterruptHandlingDPC, needsReset >>
     \/ MpOp("shutdown_queues") /\ Then("ndis", << >>)
        /\ UNCHANGED << bEnableInterruptHandlingDPC, needsReset >>
     \/ MpOp("device_on") /\ Then("ndis", << >>) /\ UNCHANGED needsReset
        /\ bEnableInterruptHandlingDPC' \in {TRUE, bEnableInterruptHandlingDPC}
  /\ UNCHANGED << mp, refused >>
-----------------------------------------------------------------------------
FlowStep(t) ==
  \E f \in Flows : AddRef(t, f) \/ Release(t, f) \/ CompleteStopping(t, f) \/ Stop(t, f)
                   \/ Stopping(t, f) \/ Start(t, f) \/ SetValue(t)

UserStep(t) == FlowStep(t) \/ \E f \in Flows : Unuse(t, f)

Next ==
  \/ \E t \in Users : UserStep(t) \/ \E f \in Flows : Use(t, f)
  \/ FlowStep("vf") \/ Bind
  \/ DeviceNeedsReset \/ CXDPC \/ NotifyDeviceNeedsReset
  \/ FlowStep("ndis") \/ NotifyState \/ Device \/ \E op \in Ops : Ask(op)

Spec == Init /\ [][Next]_vars
-----------------------------------------------------------------------------
(* A flow that is stopped has nothing outstanding, however many left it at *)
(* once (ParaNdis-SM.h:36-62, 128-139): but for a thread that was to       *)
(* complete a stop and only gets to it when the flow has been started, or  *)
(* is being stopped, again.                                                *)
StoppedIsQuiet == \A f \in Flows : m_State[f] = "Stopped" /\ ~late[f] => held[f] = {}

(* The counter is never below what it counts: the flow's own reference,    *)
(* the items, and who is on the way out after having been refused          *)
(* (ParaNdis-SM.h:26-34, 64-82).                                           *)
Leaving(f)  == {t \in Threads \ held[f] : \E i \in DOMAIN todo[t] : todo[t][i] = Op("release", f)}
Starting(f) == \E t \in Threads : todo[t] # << >> /\ Head(todo[t]) = Op("running", f)
CountIsExact ==
  \A f \in Flows : ~late[f] =>
    count[f] = Cardinality(held[f]) + Cardinality(Leaving(f))
                 + IF m_State[f] = "Running" \/ Starting(f) THEN 1 ELSE 0

(* Nobody has the binding in hand that is being taken away                 *)
(* (ParaNdis-SM.h:178-198).                                                *)
BindingHeld ==
  \A f \in Flows \cap {"binding"} : ~late[f] =>
    \A t \in held[f] : ~m_Value => todo[t] # << >>

(* The miniport's states follow each other as the source allows, unless    *)
(* the device asked for a reset, was removed or is shut down while it is   *)
(* not running, or is (ParaNdis-SM.h:275-330, 361).                        *)
StatesFollow == refused => ndis.reset \/ ndis.removed \/ ndis.halted

(* When NDIS has nothing under way the data flow runs exactly when the     *)
(* miniport does (ParaNdis-SM.h:275-320).                                  *)
FlowFollowsState ==
  "data" \in Flows /\ todo["ndis"] = << >> /\ ~refused /\ ~late["data"] =>
    /\ mp \in {"Running", "Paused", "Suspended", "FastSuspend"} =>
         (m_State["data"] = "Running" <=> mp = "Running")
    /\ ndis.running /\ ndis.powered => m_State["data"] = "Running"

(* The queues are only shut down when nothing of the data flow is          *)
(* outstanding: but not by a reset that the device asked for, which finds  *)
(* a state that NotifySuspended does not know                              *)
(* (ParaNdis-SM.h:322-334, ParaNdis_Common.cpp:2076-2102).                 *)
ShutDownQuiet ==
  At("ndis", "shutdown_queues", "mp") /\ ~refused /\ ~late["data"] =>
    m_State["data"] = "Stopped" /\ held["data"] = {}

(* All of these, of one instance.                                          *)
FlowSound ==
  /\ StoppedIsQuiet /\ CountIsExact /\ BindingHeld
  /\ StatesFollow /\ FlowFollowsState /\ ShutDownQuiet
===============================================================================
