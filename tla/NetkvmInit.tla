------------------------------ MODULE NetkvmInit ------------------------------
(***************************************************************************)
(* The life of the NDIS 6 driver's adapter: what ParaNdis6_Initialize asks *)
(* of NDIS and of the device, one after the other, with what a failure     *)
(* gives back; the features it agrees on; its queues and the messages that *)
(* interrupt for them; how it enters D0, is powered off and on, and halts. *)
(* The state of the link may change any time, and is reported from a DPC;  *)
(* NDIS sets the VLAN.                                                     *)
(***************************************************************************)
EXTENDS Naturals, FiniteSets

CONSTANTS
  Envs,         \* [offered, msgs, hwq, cpus]: the device, and the machine
  Far,          \* whether initialisation goes on when the features are agreed
  Vlans,        \* numbers from 0
  MaxTurns, MaxSets     \* bounds: changes of the link, of power or of the VLAN

VARIABLES
  stage,        \* what comes next: a step, "ready", "off", "failed", ...
  have,         \* what has been taken and not been given back
  env,          \* which of Envs it is
  acked,        \* u64GuestFeatures
  bSuppressLinkUp,
  fCurrentLinkState, told,      \* the link's state as reported, and as NDIS knows it
  link, bConnected,     \* the device's link; as it was read last
  bDeviceInitialized, ok,       \* and the device's DRIVER_OK
  nPathBundles, vector, bSharedVectors, bCXPathCreated,
  control,      \* what the control queue is used for: of "rx", "vlan", "mac"
  pairs,        \* how many pairs of queues the device uses
  mac,          \* the MAC address the device has: "permanent", "current"
  ulCurrentVlansFilterSet, vlans, VlanId,       \* vlans: those the device lets through
  bEnableInterruptHandlingDPC,
  dpc,          \* the DPC of the control path: "idle", "inside", "read"
  pending,      \* it is queued
  missed,       \* the link has changed when it would not be noticed
  turns, sets

linkVars  == << bSuppressLinkUp, fCurrentLinkState, told, bConnected >>
queueVars == << nPathBundles, vector, bSharedVectors, bCXPathCreated, control >>
vlanVars  == << ulCurrentVlansFilterSet, vlans, VlanId >>
dpcVars   == << bEnableInterruptHandlingDPC, dpc, pending >>
vars == << stage, have, env, acked, linkVars, link, bDeviceInitialized, ok, queueVars, pairs, mac,
           vlanVars, dpcVars, missed, turns, sets >>
-----------------------------------------------------------------------------
All   == 1 + (CHOOSE v \in Vlans : \A w \in Vlans : w <= v)     \* MAX_VLAN_ID + 1

Init ==
  /\ env \in Envs /\ stage = "new" /\ have = {} /\ acked = {}
  /\ bSuppressLinkUp = FALSE /\ fCurrentLinkState = "unknown" /\ told = "unknown"
  /\ link \in BOOLEAN /\ bConnected = FALSE
  /\ bDeviceInitialized = FALSE /\ ok = FALSE
  /\ nPathBundles = 0 /\ vector = << >> /\ bSharedVectors = FALSE /\ bCXPathCreated = FALSE
  /\ control = {} /\ pairs = 1 /\ mac = "permanent"
  /\ ulCurrentVlansFilterSet = 0 /\ vlans = {} /\ VlanId = 0
  /\ bEnableInterruptHandlingDPC = FALSE /\ dpc = "idle" /\ pending = FALSE /\ missed = FALSE
  /\ turns = 0 /\ sets = 0
-----------------------------------------------------------------------------
(* The features that are agreed on: what is offered, and what it depends   *)
(* on; the receive offloads need the guest's checksums, USO goes not with  *)
(* failover, a packed ring needs a device of version 1.                    *)
AckFeature(f) == IF f \in env.offered THEN {f} ELSE {}
Needs(cond, S) == IF cond THEN S ELSE {}
ControlQueue == "CTRL_VQ" \in env.offered
Version1     == "VERSION_1" \in env.offered

InitializeMAC == AckFeature("MAC") \cup Needs(ControlQueue, AckFeature("CTRL_MAC_ADDR"))
InitializeRSCState ==
  Needs("GUEST_CSUM" \in env.offered,
        AckFeature("GUEST_TSO4") \cup AckFeature("GUEST_TSO6")
          \cup Needs(ControlQueue, AckFeature("CTRL_GUEST_OFFLOADS"))
          \cup Needs(ControlQueue /\ "CTRL_GUEST_OFFLOADS" \in env.offered, AckFeature("RSC_EXT")))
AckRss == Needs(ControlQueue /\ Version1, AckFeature("RSS") \cup AckFeature("HASH_REPORT"))
AckUso == Needs("STANDBY" \notin env.offered, AckFeature("HOST_USO"))

Negotiated ==
  UNION {AckFeature(f) : f \in {"STANDBY", "STATUS", "CTRL_VQ", "GUEST_CSUM", "VERSION_1"}}
    \cup InitializeMAC \cup InitializeRSCState \cup AckRss \cup AckUso
    \cup Needs(ControlQueue, AckFeature("MQ") \cup AckFeature("CTRL_RX") \cup AckFeature("CTRL_VLAN"))
    \cup Needs(ControlQueue /\ "STATUS" \in env.offered, AckFeature("GUEST_ANNOUNCE"))
    \cup Needs(Version1, AckFeature("RING_PACKED"))

bMultiQueue == acked \cap {"MQ", "RSS"} # {}
nHardwareQueues == IF bMultiQueue THEN env.hwq ELSE 1
bUsingMSIX  == env.msgs > 0
-----------------------------------------------------------------------------
(* A step takes something and goes on, or fails, and then everything is    *)
(* given back: the destructor cleans the context up.                       *)
Thing(name) == << name, 0 >>
Take(step, next, what) == stage = step /\ stage' = next /\ have' = have \cup what

(* ParaNdis_SetLinkState tells NDIS of what is new only.                   *)
SetLinkState(s) == fCurrentLinkState' = s /\ told' = IF s = fCurrentLinkState THEN told ELSE s

(* ParaNdis_CleanupContext: the device is reset if it was told to go, DPCs *)
(* end, the link is unknown, and all is given back.                        *)
CleanupContext ==
  /\ dpc = "idle" /\ have' = {} /\ pending' = FALSE
  /\ ok' = FALSE /\ bDeviceInitialized' = FALSE /\ bEnableInterruptHandlingDPC' = FALSE
  /\ SetLinkState("unknown")
  /\ mac' = IF bDeviceInitialized \/ (~Version1 /\ "mac" \notin control) THEN "permanent" ELSE mac
  /\ ulCurrentVlansFilterSet' = IF bDeviceInitialized THEN 0 ELSE ulCurrentVlansFilterSet
  /\ vlans' = IF bDeviceInitialized THEN {} ELSE vlans
  /\ pairs' = IF bDeviceInitialized THEN 1 ELSE pairs

Failed(step) ==
  /\ stage = step /\ stage' = "failed" /\ CleanupContext
  /\ UNCHANGED << env, acked, bSuppressLinkUp, link, bConnected, queueVars, VlanId, dpc, missed, turns, sets >>

DeviceAlone == << link, bDeviceInitialized, ok, pairs, vlanVars, dpcVars, missed, turns, sets >>
Rest == << env, acked, linkVars, queueVars, mac, DeviceAlone >>

NewContext ==
  /\ \/ Take("new", "attributes 1", {Thing("context")})
     \/ stage = "new" /\ stage' = "failed" /\ UNCHANGED have
  /\ UNCHANGED Rest

(* The attributes: with the second NDIS is told the state of the link; if  *)
(* the third are refused nothing is given back.                            *)
SetMiniportAttributes ==
  \/ Take("attributes 1", "context", {}) /\ UNCHANGED Rest
  \/ Take("attributes 2", "pool", {}) /\ told' = fCurrentLinkState
     /\ UNCHANGED << env, acked, bSuppressLinkUp, fCurrentLinkState, bConnected, queueVars, mac, DeviceAlone >>
  \/ \E step \in {"attributes 1", "attributes 2"} : Failed(step)
  \/ Take("attributes 3", "ready", {Thing("registered")}) /\ UNCHANGED Rest
  \/ Take("attributes 3", "abandoned", {}) /\ UNCHANGED Rest

(* The link is taken to be up if the device does not tell.                 *)
ReadLinkState(features) == bConnected' = (link \/ "STATUS" \notin features)
StateOf(connected, suppressed) == IF connected /\ ~suppressed THEN "connected" ELSE "disconnected"

(* ParaNdis_InitializeContext.                                             *)
InitializeContext ==
  \/ /\ Take("context", IF Far THEN "attributes 2" ELSE "agreed", {Thing("device")})
     /\ acked' = Negotiated /\ bSuppressLinkUp' = ("STANDBY" \in Negotiated)
     /\ ReadLinkState(Negotiated) /\ UNCHANGED told
     /\ fCurrentLinkState' = StateOf(bConnected', bSuppressLinkUp')
     /\ bSharedVectors' = ~bUsingMSIX
     /\ control' = {c \in {"rx", "vlan", "mac"} :
                      [rx |-> "CTRL_RX", vlan |-> "CTRL_VLAN", mac |-> "CTRL_MAC_ADDR"][c] \in Negotiated}
     /\ mac' = IF Version1 \/ "mac" \in control' \/ "MAC" \notin acked' THEN mac ELSE "current"
     /\ UNCHANGED << env, nPathBundles, vector, bCXPathCreated, DeviceAlone >>
  \/ Failed("context")

(* ParaNdis_FinishSpecificInitialization: a pool, the interrupt, DMA, and  *)
(* the messages if it is to have them.                                     *)
FinishSpecificInitialization ==
  \/ /\ \/ Take("pool", "interrupt", {Thing("pool")}) \/ Take("interrupt", "dma", {Thing("interrupt")})
        \/ Take("dma", "table", {Thing("dma")}) \/ Take("table", "queues", {})
     /\ UNCHANGED Rest
  \/ \E step \in {"pool", "interrupt", "dma"} : Failed(step)
  \/ bUsingMSIX /\ Failed("table")

(* As many bundles as there are pairs of messages, but one for the control *)
(* queue, pairs of queues, and CPUs.                                       *)
Less(a, b) == IF a < b THEN a ELSE b
DetermineQueueNumber ==
  IF ~bUsingMSIX \/ ~bMultiQueue THEN 1
  ELSE Less(IF env.msgs \in {1, 2} THEN 1 ELSE (env.msgs - 1) \div 2, Less(nHardwareQueues, env.cpus))

Rx(i) == << "rx", i >>
Tx(i) == << "tx", i >>
Cx    == << "cx", 0 >>
PathsOf(n) == {Rx(i) : i \in 0 .. n - 1} \cup {Tx(i) : i \in 0 .. n - 1}

(* ParaNdis_VirtIONetInit.  If the control queue cannot be created the     *)
(* driver goes on without.  The destructor goes through the bundles that   *)
(* are to be: if they could not be allocated, it crashes.                  *)
CreateControl ==
  /\ nPathBundles' = DetermineQueueNumber /\ UNCHANGED << vector, bSharedVectors >>
  /\ \/ ControlQueue /\ Take("queues", "paths", {Cx}) /\ bCXPathCreated' = TRUE /\ UNCHANGED control
     \/ Take("queues", "paths", {}) /\ bCXPathCreated' = FALSE /\ control' = control \ {"rx", "vlan", "mac"}
  /\ UNCHANGED << env, acked, linkVars, mac, DeviceAlone >>

CreatePaths ==
  \/ nPathBundles # 0 /\ Take("paths", "vectors", PathsOf(nPathBundles)) /\ UNCHANGED Rest
  \/ Failed("paths")
  \/ /\ stage \in {"queues", "paths"} /\ stage' = "crashed" /\ UNCHANGED << have, Rest >>

(* ParaNdis_ConfigureMSIXVectors: two messages for a bundle, one for the   *)
(* control queue; where there are fewer than three it shares the last.     *)
VectorOf(q) ==
  CASE q[1] = "tx" -> 2 * q[2]
    [] q[1] = "rx" -> IF env.msgs > 1 THEN 2 * q[2] + 1 ELSE 2 * q[2]
    [] q[1] = "cx" -> IF env.msgs < 3 THEN env.msgs - 1 ELSE 2 * nPathBundles

(* Mutant of the next: that the control queue shares is not remembered.    *)
VectorsAlone ==
  IF bUsingMSIX
    THEN vector' = [q \in PathsOf(nPathBundles) \cup (IF bCXPathCreated THEN {Cx} ELSE {}) |-> VectorOf(q)]
         /\ UNCHANGED bSharedVectors
    ELSE UNCHANGED << vector, bSharedVectors >>

ConfigureMSIXVectors ==
  IF bUsingMSIX
    THEN /\ vector' = [q \in PathsOf(nPathBundles) \cup (IF bCXPathCreated THEN {Cx} ELSE {}) |-> VectorOf(q)]
         /\ bSharedVectors' = (bSharedVectors \/ (bCXPathCreated /\ env.msgs < 3))
    ELSE UNCHANGED << vector, bSharedVectors >>

SetupVectors ==
  \/ /\ Take("vectors", "enter D0", {}) /\ ConfigureMSIXVectors
     /\ UNCHANGED << env, acked, linkVars, nPathBundles, bCXPathCreated, control, mac, DeviceAlone >>
  \/ Failed("vectors")
-----------------------------------------------------------------------------
(* ParaNdis_DeviceEnterD0: the link is read, DPCs may run, the state of    *)
(* the link is reported, the device is told to go, and then what it is to  *)
(* be told through the control queue.                                      *)
EnterD0 ==
  /\ stage = "enter D0" /\ stage' = "report" /\ ReadLinkState(acked) /\ missed' = FALSE
  /\ bEnableInterruptHandlingDPC' = TRUE
  /\ UNCHANGED << have, env, acked, bSuppressLinkUp, fCurrentLinkState, told, link, bDeviceInitialized,
                  ok, queueVars, pairs, mac, vlanVars, dpc, pending, turns, sets >>

SynchronizeLinkState ==
  /\ stage = "report" /\ stage' = "driver ok" /\ SetLinkState(StateOf(bConnected, bSuppressLinkUp))
  /\ UNCHANGED << have, env, acked, bSuppressLinkUp, bConnected, link, bDeviceInitialized, ok, queueVars,
                  pairs, mac, vlanVars, dpcVars, missed, turns, sets >>

AddDriverOKStatus ==
  /\ stage = "driver ok" /\ stage' = "configure" /\ bDeviceInitialized' = TRUE /\ ok' = TRUE
  /\ UNCHANGED << have, env, acked, linkVars, link, queueVars, pairs, mac, vlanVars, dpcVars, missed, turns, sets >>

(* The filter for VLANs: none, one, or all that there are.                 *)
Through(filter) == IF filter = 0 THEN {} ELSE IF filter = All THEN Vlans ELSE {filter}
UpdateVlanId(id) ==
  LET filter == IF id = 0 THEN All ELSE id
  IN  IF "vlan" \in control /\ filter # ulCurrentVlansFilterSet
        THEN /\ ulCurrentVlansFilterSet' = filter
             /\ vlans' = IF ok' /\ Cx \in have THEN (vlans \ Through(ulCurrentVlansFilterSet)) \cup Through(filter)
                                              ELSE vlans
        ELSE UNCHANGED << ulCurrentVlansFilterSet, vlans >>

(* The number of pairs, the MAC address; when power comes back the filters *)
(* too.  A message that cannot be sent is lost.                            *)
DeviceConfigureMultiQueue == pairs' = IF nPathBundles > 1 /\ bCXPathCreated THEN nPathBundles ELSE pairs
UpdateMAC == mac' = IF "mac" \in control THEN "current" ELSE mac

Configure ==
  /\ stage = "configure" /\ DeviceConfigureMultiQueue /\ UpdateMAC /\ UNCHANGED ok
  /\ IF Thing("registered") \in have
       THEN UpdateVlanId(VlanId) /\ stage' = "ready"
       ELSE UNCHANGED << ulCurrentVlansFilterSet, vlans >> /\ stage' = "attributes 3"
  /\ UNCHANGED << have, env, acked, linkVars, link, bDeviceInitialized, queueVars, VlanId, dpcVars, missed,
                  turns, sets >>

SetVlanId ==
  /\ stage = "ready" /\ sets < MaxSets /\ sets' = sets + 1 /\ UNCHANGED ok
  /\ \E v \in Vlans : VlanId' = v /\ UpdateVlanId(v)
  /\ UNCHANGED << stage, have, env, acked, linkVars, link, bDeviceInitialized, queueVars, pairs, mac, dpcVars,
                  missed, turns >>
-----------------------------------------------------------------------------
(* ParaNdis_ResetVirtIONetDevice: the device forgets what it was told.     *)
ResetVirtIONetDevice ==
  /\ ok' = FALSE /\ bDeviceInitialized' = FALSE /\ ulCurrentVlansFilterSet' = 0
  /\ vlans' = {} /\ pairs' = 1 /\ mac' = "permanent"

(* ParaNdis_PowerOff: reset, the link is unknown, DPCs end, and then the   *)
(* queues are shut down.                                                   *)
PowerOff ==
  \/ /\ stage = "ready" /\ sets < MaxSets /\ sets' = sets + 1 /\ stage' = "off: unknown"
     /\ bConnected' = FALSE /\ ResetVirtIONetDevice
     /\ UNCHANGED << have, env, acked, bSuppressLinkUp, fCurrentLinkState, told, link, queueVars, VlanId,
                     dpcVars, missed, turns >>
  \/ /\ stage = "off: unknown" /\ stage' = "off: shutdown" /\ SetLinkState("unknown")
     /\ missed' = (dpc # "idle") /\ bEnableInterruptHandlingDPC' = FALSE
     /\ UNCHANGED << have, env, acked, bSuppressLinkUp, link, bConnected, bDeviceInitialized, ok, queueVars,
                     pairs, mac, vlanVars, dpc, pending, turns, sets >>
  \/ /\ stage = "off: shutdown" /\ dpc = "idle" /\ stage' = "off"
     /\ have' = have \ (PathsOf(nPathBundles) \cup {Cx})
     /\ UNCHANGED Rest

(* ParaNdis_PowerOn: the same features and queues once more.  If they are  *)
(* refused the queues stay as they are.                                    *)
PowerOn ==
  /\ stage = "off" /\ ResetVirtIONetDevice
  /\ \/ /\ stage' = "enter D0" /\ ConfigureMSIXVectors
        /\ have' = have \cup PathsOf(nPathBundles) \cup (IF bCXPathCreated THEN {Cx} ELSE {})
     \/ stage' = "refused" /\ UNCHANGED << have, vector, bSharedVectors >>
  /\ UNCHANGED << env, acked, linkVars, link, nPathBundles, bCXPathCreated, control, VlanId, dpcVars, missed,
                  turns, sets >>

(* ParaNdis6_Halt.                                                         *)
Halt ==
  /\ stage \in {"ready", "off", "refused"} /\ stage' = "halted" /\ CleanupContext
  /\ UNCHANGED << env, acked, bSuppressLinkUp, link, bConnected, queueVars, VlanId, dpc, missed, turns, sets >>
-----------------------------------------------------------------------------
(* The link changes.  The device interrupts if it has been told to go, and *)
(* if there is a message for it: that of the control queue.                *)
Noticed == ok /\ "STATUS" \in acked /\ (~bUsingMSIX \/ bCXPathCreated)

LinkChange ==
  /\ turns < MaxTurns /\ turns' = turns + 1 /\ link' = ~link
  /\ pending' = (pending \/ Noticed)
  /\ missed' = (missed \/ (~Noticed /\ stage \in {"report", "driver ok"}))
  /\ UNCHANGED << stage, have, env, acked, linkVars, bDeviceInitialized, ok, queueVars, pairs, mac, vlanVars,
                  bEnableInterruptHandlingDPC, dpc, sets >>

(* ParaNdis_CXDPCWorkBody.                                                 *)
Dpc ==
  /\ \/ /\ pending /\ dpc = "idle" /\ pending' = FALSE
        /\ dpc' = IF bEnableInterruptHandlingDPC THEN "inside" ELSE "idle"
        /\ UNCHANGED << bConnected, fCurrentLinkState, told >>
     \/ /\ dpc = "inside" /\ dpc' = "read" /\ ReadLinkState(acked)
        /\ UNCHANGED << pending, fCurrentLinkState, told >>
     \/ /\ dpc = "read" /\ dpc' = "idle" /\ SetLinkState(StateOf(bConnected, bSuppressLinkUp))
        /\ UNCHANGED << pending, bConnected >>
  /\ UNCHANGED << stage, have, env, acked, bSuppressLinkUp, link, bDeviceInitialized, ok, queueVars, pairs,
                  mac, vlanVars, bEnableInterruptHandlingDPC, missed, turns, sets >>

Next ==
  \/ NewContext \/ SetMiniportAttributes \/ InitializeContext \/ FinishSpecificInitialization
  \/ CreateControl \/ CreatePaths \/ SetupVectors
  \/ EnterD0 \/ SynchronizeLinkState \/ AddDriverOKStatus \/ Configure \/ SetVlanId
  \/ PowerOff \/ PowerOn \/ Halt \/ LinkChange \/ Dpc

Spec == Init /\ [][Next]_vars
-----------------------------------------------------------------------------
(* GetPathByMessageId: the path a message stands for in the handler.       *)
PathOf(m) ==
  IF m \div 2 < nPathBundles THEN (IF m % 2 = 1 THEN {Rx(m \div 2)} ELSE {Tx(m \div 2)})
  ELSE {q \in DOMAIN vector : q = Cx /\ vector[q] = m}

(* What its DPC serves: the bundle, and the control queue where that has   *)
(* no message of its own.                                                  *)
Served(p) == IF p = Cx THEN {Cx} ELSE {Rx(p[2]), Tx(p[2])} \cup (IF bSharedVectors THEN {Cx} ELSE {})

(* What depends on another feature, or goes not with it, is agreed on so.  *)
(* (ParaNdis_InitializeContext, ParaNdis_Common.cpp:824-990)               *)
FeaturesAreSound ==
  /\ acked \subseteq env.offered
  /\ (acked \cap {"MQ", "RSS", "CTRL_RX", "CTRL_VLAN", "CTRL_MAC_ADDR", "CTRL_GUEST_OFFLOADS", "GUEST_ANNOUNCE"} # {}
        => "CTRL_VQ" \in acked)
  /\ (acked \cap {"GUEST_TSO4", "GUEST_TSO6"} # {} => "GUEST_CSUM" \in acked)
  /\ ("RSC_EXT" \in acked => "CTRL_GUEST_OFFLOADS" \in acked)
  /\ ("GUEST_ANNOUNCE" \in acked => "STATUS" \in acked)
  /\ ("HOST_USO" \in acked => "STANDBY" \notin acked)
  /\ (acked \cap {"RING_PACKED", "RSS"} # {} => "VERSION_1" \in acked)

(* Once the device runs, the message each queue interrupts with is one     *)
(* there is, and its DPC serves that queue.  (ParaNdis6_Impl.cpp:252-343,  *)
(* 519-584, ParaNdis_Common.cpp:994-1033)                                  *)
MessagesServed ==
  bDeviceInitialized /\ bUsingMSIX =>
    /\ PathsOf(nPathBundles) \subseteq DOMAIN vector /\ (bCXPathCreated => Cx \in DOMAIN vector)
    /\ \A q \in DOMAIN vector :
         vector[q] < env.msgs /\ \E p \in PathOf(vector[q]) : q \in Served(p)

(* What NDIS knows of the link is what the driver reported, and with no    *)
(* change on its way, that is what it is; the driver powered off does not  *)
(* know.  Except for what changes between the driver's look at it and its  *)
(* telling the device to go, for a control path with no message, and for   *)
(* what a DPC reports while the driver powers off.  (ParaNdis_Common.cpp:  *)
(* 767-780, 1268-1284, 1755-1785, 2071-2109)                               *)
LinkIsTold ==
  /\ stage \in {"ready", "off", "refused", "halted"} => told = fCurrentLinkState
  /\ stage = "ready" /\ dpc = "idle" /\ ~pending /\ ~missed /\ Noticed
       => told = StateOf(link, bSuppressLinkUp)
  /\ stage = "off" /\ ~missed => told = "unknown"

(* A device that runs has all its queues, uses as many pairs as there are  *)
(* bundles, and was told of the MAC and the VLAN to use, first and after   *)
(* each loss of power.  (ParaNdis_Common.cpp:1268-1284, 1917-2069)         *)
GoesWithAll ==
  /\ ok => PathsOf(nPathBundles) \subseteq have /\ (bCXPathCreated => Cx \in have)
  /\ stage = "ready" /\ bCXPathCreated =>
       /\ pairs = nPathBundles
       /\ ("mac" \in control => mac = "current")
       /\ vlans = Through(ulCurrentVlansFilterSet)
       /\ (sets > 0 /\ "vlan" \in control => ulCurrentVlansFilterSet # 0)

(* An adapter that is not there leaves nothing behind, neither its         *)
(* interrupt.  (ParaNdis6_Driver.cpp:300-349, ParaNdis_Common.cpp:1417-1460)*)
NothingLeft == stage \in {"failed", "halted"} => have = {} /\ ~bDeviceInitialized /\ ~bEnableInterruptHandlingDPC

NetkvmInitSound == FeaturesAreSound /\ MessagesServed /\ LinkIsTold /\ GoesWithAll /\ NothingLeft
=============================================================================
