--------------------------- MODULE Smsc9118Adapter ---------------------------
(***************************************************************************)
(* The life of a LAN9118 adapter: what DriverEntry and Smsc9118Initialize  *)
(* take one after the other, what they give back when a step fails, what   *)
(* Smsc9118Halt gives back, and between them the power states NDIS asks    *)
(* for with the wake-up frame filters the chip is to sleep with.  NDIS     *)
(* calls one of these at a time; the chip's PME interrupt comes any time.  *)
(***************************************************************************)
EXTENDS Naturals, FiniteSets, FiniteSetsExt

CONSTANTS
  Patterns,     \* wake-up patterns
  Full,         \* those whose mask leaves no byte out
  Slots,        \* the filters of the chip, numbers from 0
  MaxOids       \* bound: how often NDIS changes patterns or sources

VARIABLES
  stage,        \* what comes next: a step of initialisation, "ready", ...
  have,         \* what has been taken and not been given back
  failedAt,     \* the step that failed
  fRxDMAMode, fTxDMAMode,
  AdapterQueue, \* the block's list of adapters: this one is in it
  irqEn, armed, \* INT_CFG's IRQ_EN, INT_EN
  mode,         \* PM_MODE of the chip: "on", "wol", "ed"
  phyDown, edDown,  \* the PHY is powered down; it is while there is no energy
  wucsr,        \* WUCSR: the wake-up events the MAC looks for
  filters,      \* what is in the WUFF registers: slot -> pattern
  wups,         \* WUPS: the event that woke the chip
  CurrentPowerState, dwWakeUpSource,
  Wuff,         \* the adapter's filters: slot -> pattern that is enabled
  told,         \* the state NDIS has the adapter in
  added,        \* pattern -> how often NDIS has added it and not removed it
  stuck,        \* a wake-up from D3 that timed out has not been made up for
  oids

initVars  == << stage, have, failedAt, fRxDMAMode, fTxDMAMode, AdapterQueue >>
chipVars  == << irqEn, armed, mode, phyDown, edDown, wucsr, filters, wups >>
powerVars == << CurrentPowerState, dwWakeUpSource, Wuff, told, added, stuck, oids >>
vars      == << initVars, chipVars, powerVars >>
-----------------------------------------------------------------------------
Sources  == {"pattern", "magic"}
Off      == "off"               \* a filter that is not enabled
Started  == {"tx", "rx", "gpt", "rdfo"}

Init ==
  /\ stage = "entry" /\ have = {} /\ failedAt = "none" /\ AdapterQueue = FALSE
  /\ fRxDMAMode = FALSE /\ fTxDMAMode = FALSE
  /\ irqEn = FALSE /\ armed = {} /\ mode = "on" /\ phyDown = FALSE /\ edDown = FALSE
  /\ wucsr = {} /\ filters = [s \in Slots |-> Off] /\ wups = "none"
  /\ CurrentPowerState = "none" /\ dwWakeUpSource = {} /\ Wuff = [s \in Slots |-> Off]
  /\ told = "D0" /\ added = [p \in Patterns |-> 0] /\ stuck = FALSE /\ oids = 0

(* A step takes something and goes on, or fails and gives some of it back. *)
Take(step, next, what) == stage = step /\ stage' = next /\ have' = have \cup what /\ UNCHANGED failedAt
Fail(step, what)       == stage = step /\ stage' = "failed" /\ have' = have \ what /\ failedAt' = step
-----------------------------------------------------------------------------
DriverEntry ==
  /\ \/ Take("entry", "memory", {"wrapper"})
     \/ Fail("entry", {})                   \* KITL has the chip, or no registry, or NDIS refuses
  /\ UNCHANGED << fRxDMAMode, fTxDMAMode, AdapterQueue, chipVars, powerVars >>

AllocateAdapter ==
  /\ \/ Take("memory", "config", {"adapter"})
     \/ Fail("memory", {})                  \* or no medium that it supports
  /\ UNCHANGED << fRxDMAMode, fTxDMAMode, AdapterQueue, chipVars, powerVars >>

ReadConfiguration ==
  /\ \/ /\ Take("config", "map", {}) /\ fRxDMAMode' \in BOOLEAN /\ fTxDMAMode' \in BOOLEAN
     \/ /\ Fail("config", {"adapter"}) /\ UNCHANGED << fRxDMAMode, fTxDMAMode >>
  /\ UNCHANGED << AdapterQueue, chipVars, powerVars >>

MapRegisters ==
  /\ \/ Take("map", "identify", {"lanVA"})
     \/ Fail("map", {})
  /\ UNCHANGED << fRxDMAMode, fTxDMAMode, AdapterQueue, chipVars, powerVars >>

(* The chip is reset; one that is not known is left mapped.                *)
ChipIdentify ==
  /\ Take("identify", "register", {}) \/ Fail("identify", {})
  /\ irqEn' = FALSE /\ armed' = {}
  /\ UNCHANGED << fRxDMAMode, fTxDMAMode, AdapterQueue, mode, phyDown, edDown, wucsr, filters,
                  wups, powerVars >>

(* The adapter is linked, and unlinked again whether the interrupt has     *)
(* been registered or not.                                                 *)
RegisterAdapter ==
  /\ \/ Take("register", "dma", {"irq"})
     \/ Fail("register", {"lanVA", "adapter"})
  /\ AdapterQueue' = FALSE
  /\ UNCHANGED << fRxDMAMode, fTxDMAMode, chipVars, powerVars >>

MapDma ==
  /\ IF fRxDMAMode \/ fTxDMAMode
       THEN Take("dma", "shared", {"dmaVA"}) \/ Fail("dma", {"lanVA", "adapter"})
       ELSE Take("dma", "shared", {})
  /\ UNCHANGED << fRxDMAMode, fTxDMAMode, AdapterQueue, chipVars, powerVars >>

AllocateShared ==
  /\ \/ Take("shared", "setup", {"shared"})
     \/ Fail("shared", IF fRxDMAMode THEN {} ELSE {"dmaVA", "lanVA", "adapter"})
  /\ UNCHANGED << fRxDMAMode, fTxDMAMode, AdapterQueue, chipVars, powerVars >>

(* ChipSetup enables the interrupt before it looks for the PHY; with the   *)
(* PHY, the transmitter, the receiver and the timer raise it.              *)
ChipSetup ==
  /\ irqEn' = TRUE
  /\ \/ Take("setup", "queues", {"shutdown"}) /\ armed' = Started
     \/ Fail("setup", {}) /\ armed' = {}
  /\ UNCHANGED << fRxDMAMode, fTxDMAMode, AdapterQueue, mode, phyDown, edDown, wucsr, filters,
                  wups, powerVars >>

SetupQueues ==
  /\ \/ Take("queues", "temp", {"pools"})
     \/ Fail("queues", {"adapter"})
  /\ UNCHANGED << fRxDMAMode, fTxDMAMode, AdapterQueue, chipVars, powerVars >>

AllocateTemp ==
  /\ CurrentPowerState' = IF stage = "temp" THEN "D0" ELSE CurrentPowerState
  /\ \/ Take("temp", "ready", {"temp"})
     \/ Fail("temp", {})
  /\ UNCHANGED << fRxDMAMode, fTxDMAMode, AdapterQueue, chipVars, dwWakeUpSource, Wuff, told,
                  added, stuck, oids >>

(* Smsc9118Halt looks for the adapter in the list, and goes through it     *)
(* without an end: if it is not there the rest of Halt is never reached.   *)
Halt ==
  /\ stage = "ready" /\ told = "D0" /\ stage' = "halted" /\ irqEn' = FALSE
  /\ have' = have \ (IF AdapterQueue
                       THEN {"shutdown", "irq", "wrapper", "pools", "shared", "dmaVA", "lanVA", "adapter"}
                       ELSE {"shutdown", "irq"})
  /\ AdapterQueue' = FALSE
  /\ UNCHANGED << failedAt, fRxDMAMode, fTxDMAMode, armed, mode, phyDown, edDown, wucsr, filters,
                  wups, powerVars >>

(* Smsc9118Shutdown: the chip is reset and started again.                  *)
ChipReset ==
  /\ stage = "ready" /\ irqEn' = TRUE /\ armed' = Started /\ mode' = "on" /\ phyDown' = FALSE
  /\ edDown' = FALSE /\ wucsr' = {} /\ filters' = [s \in Slots |-> Off] /\ wups' = "none"
  /\ stage' = "shut down"
  /\ UNCHANGED << have, failedAt, fRxDMAMode, fTxDMAMode, AdapterQueue, powerVars >>
-----------------------------------------------------------------------------
(* The patterns.  The CRC of a filter is taken over the bytes its mask     *)
(* leaves; to remove one, the CRC of the whole pattern is looked for.      *)
Enabled(s) == Wuff[s] # Off
SameCrc(s, p) == Enabled(s) /\ Wuff[s] = p /\ p \in Full
FirstSlot(S) == Min(S)

Ask == stage = "ready" /\ told = "D0" /\ oids < MaxOids /\ oids' = oids + 1

SetWakeUpFrameFilter(p) ==
  /\ Ask
  /\ LET free == {s \in Slots : ~Enabled(s)}
     IN  IF free = {}
           THEN UNCHANGED << Wuff, added >>                     \* NDIS_STATUS_RESOURCES
           ELSE /\ Wuff' = [Wuff EXCEPT ![FirstSlot(free)] = p]
                /\ added' = [added EXCEPT ![p] = @ + 1]
  /\ UNCHANGED << initVars, chipVars, CurrentPowerState, dwWakeUpSource, told, stuck >>

(* Mutant of the next: every filter with the CRC is disabled.              *)
DisablesAll(p) ==
  /\ Ask /\ added[p] > 0 /\ added' = [added EXCEPT ![p] = @ - 1]
  /\ Wuff' = [s \in Slots |-> IF Wuff[s] = p /\ p \in Full THEN Off ELSE Wuff[s]]
  /\ UNCHANGED << initVars, chipVars, CurrentPowerState, dwWakeUpSource, told, stuck >>

ResetWakeUpFrameFilter(p) ==
  /\ Ask /\ added[p] > 0 /\ added' = [added EXCEPT ![p] = @ - 1]
  /\ LET same == {s \in Slots : SameCrc(s, p)}
     IN  Wuff' = IF same = {} THEN Wuff ELSE [Wuff EXCEPT ![FirstSlot(same)] = Off]
  /\ UNCHANGED << initVars, chipVars, CurrentPowerState, dwWakeUpSource, told, stuck >>

EnableWakeUp(sources) ==
  /\ Ask /\ dwWakeUpSource' = sources
  /\ UNCHANGED << initVars, chipVars, CurrentPowerState, Wuff, told, added, stuck >>
-----------------------------------------------------------------------------
(* SetPowerState.  NDIS goes from D0 to another state and back.  The chip  *)
(* is woken by a write, and says within a time that it is ready.           *)
Wakeup9118(woken) == mode' = IF woken THEN "on" ELSE mode

SetD0 ==
  /\ stage = "ready" /\ told' = "D0" /\ CurrentPowerState' = "D0"
  /\ \E woken \in BOOLEAN :
       LET fromD3 == CurrentPowerState = "D3"
       IN  /\ Wakeup9118(woken)
           /\ phyDown' = (phyDown /\ ~(woken /\ fromD3))
           /\ irqEn' = (irqEn \/ (woken /\ fromD3))
           /\ stuck' = IF fromD3 THEN ~woken ELSE stuck \/ ~woken
  /\ UNCHANGED << initVars, armed, edDown, wucsr, filters, wups, dwWakeUpSource, Wuff, added, oids >>

(* D1: the chip waits for frames that match the filters and for magic      *)
(* packets, if it is to wait for anything.                                 *)
ConfigWUFFReg == IF "pattern" \in dwWakeUpSource THEN Wuff ELSE filters

SetD1 ==
  /\ stage = "ready" /\ told = "D0" /\ told' = "D1"
  /\ IF dwWakeUpSource \cap Sources = {}
       THEN UNCHANGED << chipVars, CurrentPowerState >>
       ELSE /\ filters' = ConfigWUFFReg /\ wucsr' = dwWakeUpSource \cap Sources
            /\ armed' = armed \cup {"pme"} /\ wups' = "none" /\ mode' = "wol"
            /\ CurrentPowerState' = "D1" /\ UNCHANGED << irqEn, phyDown, edDown >>
  /\ UNCHANGED << initVars, dwWakeUpSource, Wuff, added, stuck, oids >>

(* D2: the chip waits for energy on the wire.                              *)
SetD2 ==
  /\ stage = "ready" /\ told = "D0" /\ told' = "D2" /\ CurrentPowerState' = "D2"
  /\ edDown' = TRUE /\ armed' = armed \cup {"pme"} /\ wups' = "none" /\ mode' = "ed"
  /\ UNCHANGED << initVars, irqEn, phyDown, wucsr, filters, dwWakeUpSource, Wuff, added, stuck, oids >>

SetD3 ==
  /\ stage = "ready" /\ told = "D0" /\ told' = "D3" /\ CurrentPowerState' = "D3"
  /\ irqEn' = FALSE /\ phyDown' = TRUE /\ mode' = "ed"
  /\ UNCHANGED << initVars, armed, edDown, wucsr, filters, wups, dwWakeUpSource, Wuff, added, stuck, oids >>

(* The chip sees what it waits for.                                        *)
WakeUpEvent ==
  /\ stage = "ready" /\ wups = "none"
  /\ \/ mode = "wol" /\ wucsr # {} /\ wups' = "wol"
     \/ mode = "ed" /\ edDown /\ wups' = "ed"
  /\ UNCHANGED << initVars, irqEn, armed, mode, phyDown, edDown, wucsr, filters, powerVars >>

HandlerPmeISR ==
  /\ stage = "ready" /\ wups # "none" /\ irqEn /\ "pme" \in armed
  /\ \/ /\ CurrentPowerState = "D1" /\ wups = "wol"
        /\ wucsr' = wucsr \ dwWakeUpSource /\ UNCHANGED edDown
     \/ /\ CurrentPowerState = "D2" /\ wups = "ed"
        /\ edDown' = FALSE /\ UNCHANGED wucsr
  /\ mode' = "on" /\ wups' = "none" /\ armed' = armed \ {"pme"}
  /\ UNCHANGED << initVars, irqEn, phyDown, filters, powerVars >>

Next ==
  \/ DriverEntry \/ AllocateAdapter \/ ReadConfiguration \/ MapRegisters \/ ChipIdentify \/ RegisterAdapter
  \/ MapDma \/ AllocateShared \/ ChipSetup \/ SetupQueues \/ AllocateTemp \/ Halt \/ ChipReset
  \/ \E p \in Patterns : SetWakeUpFrameFilter(p) \/ ResetWakeUpFrameFilter(p)
  \/ \E sources \in SUBSET Sources : EnableWakeUp(sources)
  \/ SetD0 \/ SetD1 \/ SetD2 \/ SetD3 \/ WakeUpEvent \/ HandlerPmeISR

Spec == Init /\ [][Next]_vars
-----------------------------------------------------------------------------
(* As long as the interrupt is connected and the chip may raise it, the    *)
(* handler finds the adapter and its registers, and so does the shutdown   *)
(* handler: but for an initialisation that fails at its queues, which      *)
(* frees the adapter and leaves both (smsc9118.c:650-968, 2503-2590).      *)
HandlersFindTheAdapter ==
  ("irq" \in have /\ irqEn /\ armed # {}) \/ "shutdown" \in have =>
    {"adapter", "lanVA"} \subseteq have \/ failedAt = "queues"

(* In D0 the chip is awake with its PHY and its interrupt, if the last     *)
(* wake-up did not time out (smsc9118.c:4937-5085).                        *)
AwakeInD0 ==
  stage = "ready" /\ CurrentPowerState = "D0" /\ ~stuck => mode = "on" /\ ~phyDown /\ irqEn

(* A chip that sleeps in D1 waits for what NDIS has asked for, with the    *)
(* filters that are enabled, and will interrupt (smsc9118.c:4967-5085).    *)
SleepsAsAsked ==
  stage = "ready" /\ CurrentPowerState = "D1" /\ mode = "wol" =>
    /\ wucsr = dwWakeUpSource \cap Sources /\ "pme" \in armed /\ (irqEn \/ stuck)
    /\ "pattern" \in wucsr => filters = Wuff

(* The filters are the patterns NDIS has added and not removed; one whose  *)
(* mask leaves bytes out can stay enabled when it is removed               *)
(* (smsc9118.c:2190-2312, 4863-4931).                                      *)
FiltersAreThoseAdded ==
  \A p \in Patterns :
    LET n == Cardinality({s \in Slots : Wuff[s] = p})
    IN  n >= added[p] /\ (p \in Full => n = added[p])

AdapterSound == HandlersFindTheAdapter /\ AwakeInD0 /\ SleepsAsAsked /\ FiltersAreThoseAdded
===============================================================================
