---------------------------- MODULE NetkvmProtocol ----------------------------
(***************************************************************************)
(* The protocol half of the NDIS 6 adapter: it binds to the virtual        *)
(* function with the adapter's MAC address and lets it do the sending and  *)
(* the receiving.  Three threads meet under the protocol's mutex: NDIS     *)
(* binding and unbinding the function, the adapter coming and going with   *)
(* its power, and the work item that hears that the function is up.        *)
(* Sends, returns and OIDs reference the binding at any time.              *)
(*                                                                         *)
(* One adapter and one function at a time.  A flow is what NetkvmFlow      *)
(* shows it to be: running or not, and what is outstanding.                *)
(***************************************************************************)
EXTENDS Naturals, Sequences, FiniteSets

CONSTANTS
  MaxBinds,     \* bound: bindings, one after the other
  MaxStatus,    \* bound: changes of the function's operational status
  MaxPower,     \* bound: times the adapter registers or unregisters
  MaxOut,       \* bound: packets with the function, each way, and OIDs
  MayFail       \* opens, allocations and the MTU may be refused

None == 0       \* no binding

VARIABLES
  entry,        \* m_Adapters: [adapter, binding], both empty: not listed
  mutex,        \* m_Mutex: the thread that holds it
  binding,      \* the CProtocolBinding there is, None when it is deleted
  bindings,     \* bindings made so far
  refs,         \* its reference count
  open,         \* m_BindingHandle
  compatible, m_Operational, m_Started, m_BoundAdapter,
  flow,         \* "tx", "rx" of the binding, "ref" of the adapter: running
  out,          \* ...and what is outstanding
  m_Value,      \* the adapter's m_BindingToSriov: the binding it references
  work,         \* work items that will say the function is up
  todo,         \* of each thread: what it has to do
  using,        \* of each user: the binding it has referenced
  changes,      \* of the status, so far
  powers,       \* times the adapter came or went, so far
  orphaned, unheard, leaked, lost       \* what has happened, see below

objVars  == << binding, bindings, refs, open, compatible, m_Operational >>
bindVars == << m_Started, m_BoundAdapter >>
flowVars == << flow, out, m_Value >>
pastVars == << orphaned, unheard, leaked, lost >>
boundVars == << changes, powers >>
vars == << entry, mutex, objVars, bindVars, flowVars, work, todo, using, boundVars, pastVars >>

FlowNames == {"tx", "rx", "ref"}
Clients   == {"user", "returner"}
Threads   == {"vf", "adapter", "work", "status"} \cup Clients

Init ==
  /\ entry = [adapter |-> FALSE, binding |-> None] /\ mutex = "none"
  /\ binding = None /\ bindings = 0 /\ refs = 0 /\ open = FALSE /\ compatible = TRUE
  /\ m_Operational = FALSE /\ m_Started = FALSE /\ m_BoundAdapter = FALSE
  /\ flow = [f \in FlowNames |-> FALSE] /\ out = [f \in FlowNames |-> 0] /\ m_Value = None
  /\ work = 0 /\ todo = [t \in Threads |-> << >>] /\ using = [u \in Clients |-> None] /\ changes = 0
  /\ powers = 0
  /\ orphaned = FALSE /\ unheard = FALSE /\ leaked = FALSE /\ lost = FALSE
-----------------------------------------------------------------------------
At(t, op)   == todo[t] # << >> /\ Head(todo[t]) = op
Then(t, s)  == todo' = [todo EXCEPT ![t] = s \o Tail(@)]
Free(t)     == todo[t] = << >>
When(c, s)  == IF c THEN s ELSE << >>

Lock(t) ==
  /\ At(t, "lock") /\ mutex = "none" /\ mutex' = t /\ Then(t, << >>)
  /\ UNCHANGED << entry, objVars, bindVars, flowVars, work, using, boundVars, pastVars >>
Unlock(t) ==
  /\ At(t, "unlock") /\ mutex' = "none" /\ Then(t, << >>)
  /\ UNCHANGED << entry, objVars, bindVars, flowVars, work, using, boundVars, pastVars >>

(* The last reference deletes the binding.                                 *)
Drop == refs' = refs - 1 /\ binding' = IF refs = 1 THEN None ELSE binding

StopOf == [tx |-> "stop_tx", rx |-> "stop_rx", ref |-> "stop_ref"]
WaitOf == [tx |-> "wait_tx", rx |-> "wait_rx", ref |-> "wait_ref"]

(* Stop of a flow: nobody gets in any more, then all get out.              *)
StopFlow(t) ==
  \E f \in FlowNames :
    /\ \/ At(t, StopOf[f]) /\ flow' = [flow EXCEPT ![f] = FALSE]
       \/ At(t, WaitOf[f]) /\ out[f] = 0 /\ UNCHANGED flow
    /\ Then(t, << >>)
    /\ UNCHANGED << entry, mutex, objVars, bindVars, out, m_Value, work, using, boundVars, pastVars >>
Stop(f) == << StopOf[f], WaitOf[f] >>
-----------------------------------------------------------------------------
(* CProtocolBinding, of the thread that has the mutex.                     *)
Attach   == << "bind_sriov", "start", "started" >>
FlowsOff == Stop("tx") \o Stop("rx")

(* OnAdapterFound: it waits a tenth of a second for the function to be up. *)
OnAdapterFound(t) ==
  /\ \/ At(t, "found") /\ m_BoundAdapter' = compatible /\ Then(t, When(compatible, << "look" >>))
     \/ At(t, "look") /\ Then(t, When(m_Operational, Attach)) /\ UNCHANGED m_BoundAdapter
  /\ UNCHANGED << entry, mutex, objVars, m_Started, flowVars, work, using, boundVars, pastVars >>

(* OnAdapterAttached.  The three OIDs that it propagates reference the     *)
(* binding until they are completed.                                       *)
OnAdapterAttached(t) ==
  /\ \/ At(t, "bind_sriov") /\ m_Value' = binding /\ UNCHANGED m_Started
        /\ flow' = [flow EXCEPT !["ref"] = TRUE]
        /\ out' \in {out, [out EXCEPT !["ref"] = IF @ < MaxOut THEN @ + 1 ELSE @]}
     \/ At(t, "start") /\ flow' = [flow EXCEPT !["tx"] = TRUE, !["rx"] = TRUE]
        /\ UNCHANGED << out, m_Value, m_Started >>
     \/ At(t, "started") /\ m_Started' = TRUE /\ UNCHANGED flowVars
  /\ Then(t, << >>)
  /\ UNCHANGED << entry, mutex, objVars, m_BoundAdapter, work, using, boundVars, pastVars >>

(* OnAdapterHalted leaves the adapter its reference to the binding.        *)
OnAdapterHalted(t) ==
  /\ At(t, "halted")
  /\ Then(t, When(m_Started, FlowsOff) \o << "unstart", "unbound" >>)
  /\ UNCHANGED << entry, mutex, objVars, bindVars, flowVars, work, using, boundVars, pastVars >>

(* Mutant of the next: the sends are not waited for.                       *)
OnAdapterDetachAtOnce(t) ==
  /\ At(t, "detach")
  /\ Then(t, When(m_Started, << StopOf["tx"] >> \o Stop("rx") \o Stop("ref") \o << "unref", "unstart" >>)
               \o << "unbound", "unlist" >>)
  /\ UNCHANGED << entry, mutex, objVars, bindVars, flowVars, work, using, boundVars, pastVars >>

OnAdapterDetach(t) ==
  /\ At(t, "detach")
  /\ Then(t, When(m_Started, FlowsOff \o Stop("ref") \o << "unref", "unstart" >>)
               \o << "unbound", "unlist" >>)
  /\ orphaned' = (orphaned \/ (~m_Started /\ m_Value = binding))
  /\ UNCHANGED << entry, mutex, objVars, bindVars, flowVars, work, using, boundVars, unheard, leaked, lost >>

Unset(t) ==
  /\ \/ At(t, "unref") /\ m_Value' = None /\ UNCHANGED << bindVars, entry >>
     \/ At(t, "unstart") /\ m_Started' = FALSE /\ UNCHANGED << m_BoundAdapter, m_Value, entry >>
     \/ At(t, "unbound") /\ m_BoundAdapter' = FALSE /\ UNCHANGED << m_Started, m_Value, entry >>
     \/ At(t, "unlist") /\ entry' = [entry EXCEPT !.binding = None] /\ UNCHANGED << bindVars, m_Value >>
  /\ Then(t, << >>)
  /\ UNCHANGED << mutex, objVars, flow, out, work, using, boundVars, pastVars >>
-----------------------------------------------------------------------------
(* NDIS binds the virtual function, which may fail or not fit, and unbinds *)
(* it again.                                                               *)
Bind ==
  /\ Free("vf") /\ ~open /\ binding = None /\ bindings < MaxBinds /\ bindings' = bindings + 1
  /\ \/ MayFail /\ UNCHANGED << binding, refs, open, compatible, m_Operational, todo >>
     \/ /\ binding' = bindings + 1 /\ refs' = 1 /\ open' = TRUE /\ m_Operational' = FALSE
        /\ compatible' \in {TRUE, ~MayFail}
        /\ todo' = [todo EXCEPT !["vf"] = << "lock", "add_binding", "unlock" >>]
  /\ UNCHANGED << entry, mutex, bindVars, flowVars, work, using, boundVars, pastVars >>

AddBinding ==
  /\ At("vf", "add_binding") /\ entry' = [entry EXCEPT !.binding = binding]
  /\ Then("vf", When(entry.adapter, << "found" >>))
  /\ UNCHANGED << mutex, objVars, bindVars, flowVars, work, using, boundVars, pastVars >>

Unbind ==
  /\ Free("vf") /\ open
  /\ todo' = [todo EXCEPT !["vf"] = << "lock", "remove_binding", "unlock", "close", "release" >>]
  /\ UNCHANGED << entry, mutex, objVars, bindVars, flowVars, work, using, boundVars, pastVars >>

RemoveBinding ==
  /\ At("vf", "remove_binding")
  /\ IF entry.adapter
       THEN Then("vf", << "detach" >>) /\ UNCHANGED << entry, orphaned >>
       ELSE /\ entry' = [entry EXCEPT !.binding = None] /\ Then("vf", << >>)
            /\ orphaned' = (orphaned \/ m_Value = binding)
  /\ UNCHANGED << mutex, objVars, bindVars, flowVars, work, using, boundVars, unheard, leaked, lost >>

(* NdisCloseAdapterEx, once the function is through with its OIDs and has  *)
(* been told no more status; and the last Release of Unbind's.             *)
Close ==
  /\ At("vf", "close") /\ Free("status") /\ open' = FALSE /\ Then("vf", << >>)
  /\ UNCHANGED << entry, mutex, binding, bindings, refs, compatible, m_Operational, bindVars, flowVars, work,
                  using, boundVars, pastVars >>
Release ==
  /\ At("vf", "release") /\ Drop /\ Then("vf", << >>)
  /\ UNCHANGED << entry, mutex, bindings, open, compatible, m_Operational, bindVars, flowVars, work,
                  using, boundVars, pastVars >>

(* The adapter registers when it starts or powers on, and unregisters when *)
(* it powers off or halts.                                                 *)
RegisterAdapter ==
  /\ Free("adapter") /\ powers < MaxPower /\ powers' = powers + 1
  /\ todo' = [todo EXCEPT !["adapter"] =
                << "lock", IF entry.adapter THEN "remove_adapter" ELSE "add_adapter", "unlock" >>]
  /\ UNCHANGED << entry, mutex, objVars, bindVars, flowVars, work, using, changes, pastVars >>
AddAdapter ==
  /\ At("adapter", "add_adapter") /\ entry' = [entry EXCEPT !.adapter = TRUE]
  /\ Then("adapter", When(entry.binding # None, << "found" >>))
  /\ UNCHANGED << mutex, objVars, bindVars, flowVars, work, using, boundVars, pastVars >>
RemoveAdapter ==
  /\ At("adapter", "remove_adapter") /\ entry' = [entry EXCEPT !.adapter = FALSE]
  /\ Then("adapter", When(entry.binding # None, << "halted" >>))
  /\ UNCHANGED << mutex, objVars, bindVars, flowVars, work, using, boundVars, pastVars >>

(* The function comes up or goes down: OnStatusIndication sets the flag,   *)
(* and then looks whether there is an adapter to be told, by a work item   *)
(* that holds a reference.                                                 *)
StatusIndication ==
  /\ Free("status") /\ open /\ changes < MaxStatus /\ changes' = changes + 1
  /\ At("vf", "release") = FALSE
  /\ m_Operational' = ~m_Operational /\ todo' = [todo EXCEPT !["status"] = << "tell" >>]
  /\ UNCHANGED << entry, mutex, binding, bindings, refs, open, compatible, bindVars, flowVars, work,
                  using, powers, pastVars >>
Tell ==
  /\ At("status", "tell") /\ Then("status", << >>)
  /\ \/ /\ m_BoundAdapter /\ m_Operational /\ work' = work + 1 /\ refs' = refs + 1 /\ UNCHANGED unheard
     \/ /\ m_BoundAdapter /\ m_Operational /\ MayFail /\ unheard' = TRUE /\ UNCHANGED << work, refs >>
     \/ /\ ~(m_BoundAdapter /\ m_Operational) /\ UNCHANGED << work, refs, unheard >>
  /\ UNCHANGED << entry, mutex, binding, bindings, open, compatible, m_Operational, bindVars,
                  flowVars, using, boundVars, orphaned, leaked, lost >>

(* The work item: OnOpStateChange.                                         *)
Fired ==
  /\ Free("work") /\ work > 0 /\ work' = work - 1
  /\ todo' = [todo EXCEPT !["work"] = << "lock", "changed", "unlock", "drop" >>]
  /\ UNCHANGED << entry, mutex, objVars, bindVars, flowVars, using, boundVars, pastVars >>
OnOpStateChange ==
  /\ At("work", "changed") /\ Then("work", When(~m_Started /\ m_BoundAdapter, Attach))
  /\ UNCHANGED << entry, mutex, objVars, bindVars, flowVars, work, using, boundVars, pastVars >>
WorkDone ==
  /\ At("work", "drop") /\ Drop /\ Then("work", << >>)
  /\ UNCHANGED << entry, mutex, bindings, open, compatible, m_Operational, bindVars, flowVars, work,
                  using, boundVars, pastVars >>
-----------------------------------------------------------------------------
(* ParaNdis_ReferenceBinding, for a send, the return of a received packet  *)
(* or an OID.  A return that finds no binding has nowhere to go.           *)
Reference(u, what) ==
  /\ Free(u) /\ (what = "return" => out["rx"] > 0) /\ (what = "oid" => out["ref"] < MaxOut)
  /\ IF flow["ref"] /\ m_Value # None
       THEN /\ out' = [out EXCEPT !["ref"] = @ + 1] /\ using' = [using EXCEPT ![u] = m_Value]
            /\ todo' = [todo EXCEPT ![u] = << what >>] /\ UNCHANGED lost
       ELSE /\ lost' = (lost \/ what = "return") /\ UNCHANGED << out, using, todo >>
  /\ UNCHANGED << entry, mutex, objVars, bindVars, flow, m_Value, work, boundVars, orphaned, unheard, leaked >>
Return == Reference("returner", "return")

(* An OID keeps the reference until it is completed: SetOidAsync for good, *)
(* if there is no memory for it.                                           *)
Use(u) ==
  /\ \/ At(u, "send") /\ UNCHANGED leaked
        /\ out' = [out EXCEPT !["tx"] = IF flow["tx"] /\ @ < MaxOut THEN @ + 1 ELSE @, !["ref"] = @ - 1]
     \/ At(u, "return") /\ out' = [out EXCEPT !["rx"] = @ - 1, !["ref"] = @ - 1] /\ UNCHANGED leaked
     \/ At(u, "oid") /\ UNCHANGED out /\ leaked' \in {leaked, leaked \/ MayFail}
  /\ using' = [using EXCEPT ![u] = None] /\ Then(u, << >>)
  /\ UNCHANGED << entry, mutex, objVars, bindVars, flow, m_Value, work, boundVars, orphaned, unheard, lost >>

(* The function receives, completes what was sent, and completes OIDs.     *)
OnReceive ==
  /\ open /\ flow["rx"] /\ out["rx"] < MaxOut /\ out' = [out EXCEPT !["rx"] = @ + 1]
  /\ UNCHANGED << entry, mutex, objVars, bindVars, flow, m_Value, work, todo, using, boundVars, pastVars >>
OnSendCompletion ==
  /\ out["tx"] > 0 /\ out' = [out EXCEPT !["tx"] = @ - 1]
  /\ UNCHANGED << entry, mutex, objVars, bindVars, flow, m_Value, work, todo, using, boundVars, pastVars >>
OidComplete ==
  /\ out["ref"] > Cardinality({u \in Clients : todo[u] # << >>}) + IF leaked THEN 1 ELSE 0
  /\ out' = [out EXCEPT !["ref"] = @ - 1]
  /\ UNCHANGED << entry, mutex, objVars, bindVars, flow, m_Value, work, todo, using, boundVars, pastVars >>
-----------------------------------------------------------------------------
BindingStep(t) ==
  \/ Lock(t) \/ Unlock(t) \/ StopFlow(t) \/ OnAdapterFound(t) \/ OnAdapterAttached(t)
  \/ OnAdapterHalted(t) \/ OnAdapterDetach(t) \/ Unset(t)
VfStep      == BindingStep("vf") \/ AddBinding \/ RemoveBinding \/ Close \/ Release
AdapterStep == BindingStep("adapter") \/ AddAdapter \/ RemoveAdapter
WorkStep    == Fired \/ BindingStep("work") \/ OnOpStateChange \/ WorkDone

Next ==
  \/ VfStep \/ Bind \/ Unbind
  \/ AdapterStep \/ RegisterAdapter
  \/ WorkStep \/ StatusIndication \/ Tell
  \/ Reference("user", "send") \/ Reference("user", "oid") \/ Return \/ \E u \in Clients : Use(u)
  \/ OnReceive \/ OnSendCompletion \/ OidComplete

Spec == Init /\ [][Next]_vars

(* The threads go on, whoever waits for the mutex gets it some time, and   *)
(* the function and NDIS give back what they have.                         *)
Fairness ==
  /\ WF_vars(VfStep) /\ WF_vars(AdapterStep) /\ WF_vars(WorkStep) /\ WF_vars(Tell)
  /\ WF_vars(Use("user")) /\ WF_vars(Use("returner")) /\ WF_vars(OnSendCompletion) /\ WF_vars(OidComplete)
  /\ WF_vars(Return)
FairSpec == Spec /\ Fairness
-----------------------------------------------------------------------------
(* A binding that somebody has referenced is not deleted, nor its          *)
(* function closed: unless it was unbound after the adapter was powered    *)
(* off and before they met again, which leaves the adapter its reference   *)
(* (ParaNdis_Protocol.cpp:302-312, 838-861, 1052, 1283).                   *)
ReferencedIsThere ==
  ~orphaned => /\ \A u \in Clients : using[u] # None => binding = using[u] /\ open
               /\ m_Value # None => m_Value = binding

(* Packets are with the function only while it is open and bound: a        *)
(* received one always finds the adapter, which "should never" be missing, *)
(* and goes back through the binding (ParaNdis_Protocol.cpp:1015-1064).    *)
OutIsBound ==
  /\ out["rx"] > 0 => m_BoundAdapter /\ open
  /\ out["tx"] > 0 => open
  /\ ~lost

(* When nobody is at work the function that is up, fits and has an adapter *)
(* is in use: whichever comes last, the adapter, the binding or the        *)
(* status, sees the other two (ParaNdis_Protocol.cpp:362-383, 417-437).    *)
UpIsStarted ==
  /\ Free("vf") /\ Free("adapter") /\ Free("work") /\ Free("status") /\ work = 0 /\ ~unheard =>
       (m_Operational /\ open /\ entry.adapter /\ compatible => m_Started)
  /\ mutex = "none" => (flow["tx"] <=> m_Started) /\ (flow["rx"] <=> m_Started)
                       /\ (m_Started => m_BoundAdapter /\ m_Value = binding /\ entry.adapter)

(* The binding is kept exactly as long as it is open or a work item holds  *)
(* it (ParaNdis_Protocol.cpp:916-1013, 1403-1421).                         *)
KeptWhileUsed ==
  /\ open => binding # None
  /\ work > 0 \/ At("work", "lock") \/ At("work", "drop") => binding # None
  /\ binding # None => refs > 0

(* Unbinding the function and unregistering the adapter come to an end,    *)
(* unless an OID's reference was never given back                          *)
(* (ParaNdis_Protocol.cpp:277-330, 1133-1141).                             *)
ChangesEnd == \A t \in {"vf", "adapter"} : todo[t] # << >> ~> todo[t] = << >> \/ leaked

ProtocolSound == ReferencedIsThere /\ OutIsBound /\ UpIsStarted /\ KeptWhileUsed
=============================================================================
