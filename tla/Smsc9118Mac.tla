----------------------------- MODULE Smsc9118Mac ------------------------------
(***************************************************************************)
(* The receiver of the LAN9118: the packet filter and the multicast hash,  *)
(* which on the first revision of the chip may only be changed while the   *)
(* receiver stands still, and the duplex mode that follows the link.  All  *)
(* of them meet in one register, MAC_CR, that the handlers of the miniport *)
(* read, change and write back, and so does the ISR between any two steps  *)
(* of a handler.  The ISR itself is interrupted by the chip only.          *)
(*                                                                         *)
(* A handler, and the ISR, is a list of what it still has to do.  What is  *)
(* wanted of the filter and of the hash is a number: of the request.       *)
(***************************************************************************)
EXTENDS Naturals, Sequences

CONSTANTS
  Links,        \* link modes there are: a subset of AllLinks, with "none"
  MaxSets,      \* bound: SetInformation calls
  MaxLinks,     \* bound: changes of the link
  MaxErrors     \* bound: receiver errors and overruns

AllLinks == {"none", "10half", "10full", "100half", "100full"}
Full(l)  == l \in {"10full", "100full"}
At100(l) == l \in {"100half", "100full"}

VARIABLES
  rev1,         \* the chip's IdRev is 0x011x0001
  want, wantHash,       \* ulPacketFilter, ucNicMulticastRegs
  mac, hash,    \* MAC_CR [rxen, filt, full]; HASHH and HASHL
  stopping,     \* RXEN is off and the receiver not yet still
  stopSts, stopEn, swInt,       \* INT_STS_RXSTOP and its enable; SW_INT on
  link, dwLinkMode,     \* the PHY's, and the adapter's idea of it
  wOldPhyBSR,   \* link up at the last look of the ISR
  timer, rxe, rdfo,     \* GPT, RXE, RDFO raised
  f100Done,     \* f100RxEnWorkaroundDone
  SWDPCNeeded, RxStopDPCNeeded, PhyDPCNeeded, RxOverRun,
  isr,          \* what the ISR has to do; << >>: it does not run
  dpc,          \* NDIS will call HandleInterrupt
  todo, reg,    \* what the handler has to do, and its copy of MAC_CR
  pending,      \* a SetInformation is pending
  cpuInt,       \* the CPU's interrupts are on
  sets, links, errors,          \* so far
  spurious, late, skipped, raced, swallowed     \* what has happened, see below

chipVars == << mac, hash, stopping, stopSts, stopEn, swInt, timer, rxe, rdfo >>
flagVars == << f100Done, SWDPCNeeded, RxStopDPCNeeded, PhyDPCNeeded, RxOverRun, cpuInt >>
linkVars == << link, dwLinkMode, wOldPhyBSR >>
setVars  == << want, wantHash, pending, sets, links, errors >>
pastVars == << spurious, late, skipped, raced, swallowed >>
vars     == << rev1, chipVars, flagVars, linkVars, setVars, pastVars, isr, dpc, todo, reg >>

Init ==
  /\ rev1 \in BOOLEAN
  /\ want = 0 /\ wantHash = 0 /\ mac = [rxen |-> FALSE, filt |-> 0, full |-> FALSE] /\ hash = 0
  /\ stopping = FALSE /\ stopSts = FALSE /\ stopEn = FALSE /\ swInt = FALSE
  /\ link = "none" /\ dwLinkMode = "none" /\ wOldPhyBSR = FALSE
  /\ timer = FALSE /\ rxe = FALSE /\ rdfo = FALSE /\ f100Done = TRUE
  /\ SWDPCNeeded = FALSE /\ RxStopDPCNeeded = FALSE /\ PhyDPCNeeded = FALSE /\ RxOverRun = FALSE
  /\ isr = << >> /\ dpc = FALSE /\ todo = << >> /\ reg = mac /\ pending = FALSE /\ cpuInt = TRUE
  /\ sets = 0 /\ links = 0 /\ errors = 0
  /\ spurious = FALSE /\ late = FALSE /\ skipped = FALSE /\ raced = FALSE /\ swallowed = FALSE
-----------------------------------------------------------------------------
(* The chip.                                                               *)
ReceiverStops ==
  /\ stopping /\ stopping' = FALSE /\ stopSts' = TRUE
  /\ UNCHANGED << mac, hash, stopEn, swInt, timer, rxe, rdfo, flagVars, linkVars, setVars, pastVars,
                  isr, dpc, todo, reg >>

(* A link takes longer to negotiate than the timer to tick, so that the    *)
(* ISR has seen it down before it is up again.                             *)
LinkChanges(l) ==
  /\ links < MaxLinks /\ l # link
  /\ IF link = "none" THEN ~wOldPhyBSR ELSE l = "none"
  /\ link' = l /\ links' = links + 1
  /\ UNCHANGED << chipVars, flagVars, dwLinkMode, wOldPhyBSR, want, wantHash, pending, sets, errors,
                  pastVars, isr, dpc, todo, reg >>

(* The general purpose timer, which makes the ISR look at the PHY.         *)
TimerFires ==
  /\ ~timer /\ (link # "none") # wOldPhyBSR /\ timer' = TRUE
  /\ UNCHANGED << mac, hash, stopping, stopSts, stopEn, swInt, rxe, rdfo, flagVars, linkVars,
                  setVars, pastVars, isr, dpc, todo, reg >>

ReceiverError ==
  /\ errors < MaxErrors /\ errors' = errors + 1 /\ mac.rxen
  /\ \/ rxe' = TRUE /\ UNCHANGED rdfo
     \/ rdfo' = TRUE /\ UNCHANGED rxe
  /\ UNCHANGED << mac, hash, stopping, stopSts, stopEn, swInt, timer, flagVars, linkVars, want,
                  wantHash, pending, sets, links, pastVars, isr, dpc, todo, reg >>

(* A write of MAC_CR: taking RXEN away makes the receiver stop.            *)
WriteMac(m) ==
  /\ mac' = m
  /\ stopping' = IF m.rxen THEN FALSE ELSE stopping \/ mac.rxen
-----------------------------------------------------------------------------
(* The ISR.  Once a handler has read MAC_CR to change it, a write of the   *)
(* ISR's is lost; so is a change of the link after the DPC has told of the *)
(* last and before it clears the flag: raced.                              *)
HandlerHasRead == todo # << >> /\ Head(todo) \in {"off", "filter", "on", "filter_on"}
Racing ==
  raced' = (raced \/ (HandlerHasRead /\ mac' # mac)
                  \/ (todo # << >> /\ Head(todo) = "phy_done" /\ isr # << >> /\ Head(isr) = "phy"))

UpdateFilterAndMacReg == hash' = wantHash /\ WriteMac([mac EXCEPT !.filt = want, !.rxen = TRUE])

When(c, s) == IF c THEN s ELSE << >>

(* Smsc9118Isr reads the status once, and handles what it finds; of        *)
(* HandlerRxISR only the look at the receiver after a frame.               *)
Isr(rx) ==
  /\ isr = << >> /\ cpuInt
  /\ timer \/ rxe \/ rdfo \/ swInt \/ (stopEn /\ stopSts) \/ (rx /\ mac.rxen)
  /\ isr' = When(~f100Done, << "workaround", "check" >>) \o When(rx, << "check" >>)
              \o When(timer, << "phy" >>) \o When(stopEn /\ stopSts, << "rxstop" >>)
              \o When(rxe, << "discard", "discarded" >>) \o When(rdfo, << "overrun" >>)
              \o When(swInt, << "sw" >>) \o << "check", "leave" >>
  /\ UNCHANGED << chipVars, flagVars, linkVars, setVars, pastVars, dpc, todo, reg >>

IsrAt(op) ==
  /\ isr # << >> /\ Head(isr) = op /\ isr' = Tail(isr)
  /\ UNCHANGED << setVars, todo, reg, link, dwLinkMode, spurious, late, skipped >>

MacRxEnWorkaround ==
  /\ IsrAt("workaround") /\ SWDPCNeeded' = TRUE
  /\ IF mac.rxen
       THEN /\ WriteMac([mac EXCEPT !.rxen = FALSE]) /\ stopSts' = FALSE /\ cpuInt' = FALSE
            /\ UNCHANGED << hash, f100Done >>
       ELSE UpdateFilterAndMacReg /\ f100Done' = TRUE /\ UNCHANGED << stopSts, cpuInt >>
  /\ UNCHANGED << stopEn, swInt, timer, rxe, rdfo, RxStopDPCNeeded, PhyDPCNeeded, RxOverRun,
                  wOldPhyBSR, swallowed, dpc >>

(* Has the receiver stopped by now?                                        *)
CheckStopped ==
  /\ IsrAt("check")
  /\ IF ~f100Done /\ stopSts
       THEN UpdateFilterAndMacReg /\ cpuInt' = TRUE /\ f100Done' = TRUE
       ELSE UNCHANGED << mac, stopping, hash, cpuInt, f100Done >>
  /\ SWDPCNeeded' = (SWDPCNeeded \/ (~f100Done /\ ~stopSts))
  /\ UNCHANGED << stopSts, stopEn, swInt, timer, rxe, rdfo, RxStopDPCNeeded, PhyDPCNeeded,
                  RxOverRun, wOldPhyBSR, swallowed, dpc >>

(* HandlerGptISR, CheckPhyStatus.                                          *)
CheckPhyStatus ==
  /\ IsrAt("phy") /\ timer' = FALSE /\ wOldPhyBSR' = (link # "none")
  /\ IF link # "none" /\ ~wOldPhyBSR
       THEN WriteMac([mac EXCEPT !.full = Full(link)])
       ELSE UNCHANGED << mac, stopping >>
  /\ PhyDPCNeeded' = (PhyDPCNeeded \/ (link # "none") # wOldPhyBSR)
  /\ UNCHANGED << hash, stopSts, stopEn, swInt, rxe, rdfo, f100Done, SWDPCNeeded, RxStopDPCNeeded,
                  RxOverRun, cpuInt, swallowed, dpc >>

HandlerRxStopISR ==
  /\ IsrAt("rxstop") /\ stopSts' = FALSE /\ stopEn' = FALSE
  /\ UpdateFilterAndMacReg /\ RxStopDPCNeeded' = TRUE
  /\ UNCHANGED << swInt, timer, rxe, rdfo, f100Done, SWDPCNeeded, PhyDPCNeeded, RxOverRun, cpuInt,
                  wOldPhyBSR, swallowed, dpc >>

(* RxForceReceiverDiscard, which assumes that the receiver was running: if *)
(* it was being stopped it runs again, and nobody hears that it stopped.   *)
Discard ==
  /\ IsrAt("discard") /\ WriteMac([mac EXCEPT !.rxen = FALSE])
  /\ UNCHANGED << hash, stopSts, stopEn, swInt, timer, rxe, rdfo, flagVars, wOldPhyBSR, swallowed,
                  dpc >>
Discarded ==
  /\ IsrAt("discarded") /\ WriteMac([mac EXCEPT !.rxen = TRUE]) /\ stopSts' = FALSE /\ rxe' = FALSE
  /\ swallowed' = (swallowed \/ stopEn \/ ~f100Done)
  /\ UNCHANGED << hash, stopEn, swInt, timer, rdfo, flagVars, wOldPhyBSR, dpc >>

Overrun ==
  /\ IsrAt("overrun") /\ rdfo' = FALSE /\ RxOverRun' = TRUE
  /\ UNCHANGED << mac, stopping, hash, stopSts, stopEn, swInt, timer, rxe, f100Done, SWDPCNeeded,
                  RxStopDPCNeeded, PhyDPCNeeded, cpuInt, wOldPhyBSR, swallowed, dpc >>

SwInt ==
  /\ IsrAt("sw") /\ swInt' = FALSE
  /\ UNCHANGED << mac, stopping, hash, stopSts, stopEn, timer, rxe, rdfo, flagVars, wOldPhyBSR,
                  swallowed, dpc >>

IsrLeave ==
  /\ IsrAt("leave") /\ dpc' = (dpc \/ SWDPCNeeded \/ RxStopDPCNeeded \/ PhyDPCNeeded)
  /\ UNCHANGED << chipVars, flagVars, wOldPhyBSR, swallowed >>

IsrOp ==
  /\ \/ MacRxEnWorkaround \/ CheckStopped \/ CheckPhyStatus \/ HandlerRxStopISR
     \/ Discard \/ Discarded \/ Overrun \/ SwInt \/ IsrLeave
  /\ Racing

IsrStep == Isr(FALSE) \/ IsrOp
-----------------------------------------------------------------------------
(* SetInformation: what SetPacketFilter and SetMulticastAddressList do on  *)
(* each chip and link.                                                     *)
WaitForStop   == << "clearstop", "stopint", "read", "off", "pend" >>
WaitForSwInt  == << "f100", "swint", "pend" >>
SetMacFilter  == << "read", "filter" >>
EnableMacRxEn == << "read", "on" >>

SetPacketFilter ==
  CASE ~rev1                 -> << "read", "off", "filter_on" >>
    [] rev1 /\ dwLinkMode = "none"   -> << >>
    [] rev1 /\ dwLinkMode = "10half" -> << "disable" >> \o SetMacFilter \o EnableMacRxEn
    [] rev1 /\ dwLinkMode = "10full" ->
         IF mac.rxen THEN WaitForStop ELSE SetMacFilter \o EnableMacRxEn
    [] rev1 /\ At100(dwLinkMode) ->
         IF mac.rxen THEN WaitForSwInt ELSE << "hash" >> \o SetMacFilter \o EnableMacRxEn

SetMulticastAddressList ==
  CASE ~rev1                 -> << "hash" >>
    [] rev1 /\ dwLinkMode = "none"   -> << >>
    [] rev1 /\ dwLinkMode = "10half" -> << "disable", "hash" >> \o EnableMacRxEn
    [] rev1 /\ dwLinkMode = "10full" ->
         IF mac.rxen THEN WaitForStop ELSE << "hash" >> \o EnableMacRxEn
    [] rev1 /\ At100(dwLinkMode) ->
         IF mac.rxen THEN WaitForSwInt ELSE << "hash" >> \o SetMacFilter \o EnableMacRxEn

SetInformation ==
  /\ todo = << >> /\ ~pending /\ sets < MaxSets /\ sets' = sets + 1
  /\ \/ want' = want + 1 /\ todo' = SetPacketFilter /\ UNCHANGED wantHash
     \/ wantHash' = wantHash + 1 /\ todo' = SetMulticastAddressList /\ UNCHANGED want
  /\ skipped' = (skipped \/ (rev1 /\ dwLinkMode = "none"))
  /\ UNCHANGED << chipVars, flagVars, linkVars, pending, links, errors, spurious, late, raced,
                  swallowed, isr, dpc, reg >>

(* Smsc9118HandleInterrupt, without the rings.                             *)
HandleInterrupt ==
  /\ dpc /\ todo = << >> /\ dpc' = FALSE
  /\ todo' = << "phy", "sw", "rxstop", "overrun" >>
  /\ UNCHANGED << chipVars, flagVars, linkVars, setVars, pastVars, isr, reg >>

At(op)  == isr = << >> /\ todo # << >> /\ Head(todo) = op /\ UNCHANGED << isr, dpc >>
Does(op) == At(op) /\ todo' = Tail(todo)

Read ==
  /\ Does("read") /\ reg' = mac
  /\ UNCHANGED << chipVars, flagVars, linkVars, setVars, pastVars >>

Write ==
  /\ \/ Does("off") /\ reg' = [reg EXCEPT !.rxen = FALSE]
     \/ Does("filter") /\ reg' = [reg EXCEPT !.filt = want]
     \/ Does("on") /\ reg' = [reg EXCEPT !.rxen = TRUE]
     \/ Does("filter_on") /\ reg' = [reg EXCEPT !.filt = want, !.rxen = TRUE]
  /\ WriteMac(reg')
  /\ UNCHANGED << hash, stopSts, stopEn, swInt, timer, rxe, rdfo, flagVars, linkVars, setVars,
                  pastVars >>

WriteHash ==
  /\ Does("hash") /\ hash' = wantHash
  /\ UNCHANGED << mac, stopping, stopSts, stopEn, swInt, timer, rxe, rdfo, flagVars, linkVars,
                  setVars, pastVars, reg >>

(* DisableMacRxEn waits until the receiver has stopped, or for two         *)
(* milliseconds, which it never needs.                                     *)
DisableMacRxEn ==
  /\ At("disable")
  /\ todo' = When(mac.rxen, << "clearstop", "read", "off", "waitstop", "clearstop" >>) \o Tail(todo)
  /\ UNCHANGED << chipVars, flagVars, linkVars, setVars, pastVars, reg >>
WaitStop ==
  /\ Does("waitstop") /\ ~stopping
  /\ UNCHANGED << chipVars, flagVars, linkVars, setVars, pastVars, reg >>

Interrupts ==
  /\ \/ Does("clearstop") /\ stopSts' = FALSE /\ UNCHANGED << stopEn, swInt, f100Done >>
     \/ Does("stopint") /\ stopEn' = TRUE /\ UNCHANGED << stopSts, swInt, f100Done >>
     \/ Does("f100") /\ f100Done' = FALSE /\ UNCHANGED << stopSts, stopEn, swInt >>
     \/ Does("swint") /\ swInt' = TRUE /\ UNCHANGED << stopSts, stopEn, f100Done >>
  /\ UNCHANGED << mac, stopping, hash, timer, rxe, rdfo, SWDPCNeeded, RxStopDPCNeeded,
                  PhyDPCNeeded, RxOverRun, cpuInt, linkVars, setVars, pastVars, reg >>

Pend ==
  /\ Does("pend") /\ pending' = TRUE
  /\ UNCHANGED << chipVars, flagVars, linkVars, want, wantHash, sets, links, errors, pastVars, reg >>

(* HandlerPhyDPC: LinkIndicate, and then the flag.                         *)
LinkIndicate ==
  /\ At("phy") /\ todo' = When(PhyDPCNeeded, << "phy_done" >>) \o Tail(todo)
  /\ dwLinkMode' = IF PhyDPCNeeded THEN link ELSE dwLinkMode
  /\ UNCHANGED << chipVars, flagVars, link, wOldPhyBSR, setVars, pastVars, reg >>
LinkIndicated ==
  /\ Does("phy_done") /\ PhyDPCNeeded' = FALSE
  /\ UNCHANGED << chipVars, f100Done, SWDPCNeeded, RxStopDPCNeeded, RxOverRun, cpuInt, linkVars,
                  setVars, pastVars, reg >>

Flagged ==
  /\ \/ At("sw") /\ late' = (late \/ (SWDPCNeeded /\ ~stopSts /\ ~f100Done))
        /\ todo' = When(SWDPCNeeded /\ stopSts,
                        << "hash" >> \o SetMacFilter \o EnableMacRxEn \o << "sw_done" >>)
                     \o When(SWDPCNeeded, << "complete_sw" >>) \o Tail(todo)
     \/ At("rxstop") /\ todo' = When(RxStopDPCNeeded, << "complete_stop" >>) \o Tail(todo)
        /\ UNCHANGED late
     \/ At("overrun") /\ UNCHANGED late
        /\ todo' = When(RxOverRun, << "disable" >> \o EnableMacRxEn \o << "over_done" >>) \o Tail(todo)
  /\ UNCHANGED << chipVars, flagVars, linkVars, setVars, spurious, skipped, raced, swallowed, reg >>

SwDone ==
  /\ Does("sw_done") /\ cpuInt' = TRUE /\ f100Done' = TRUE
  /\ UNCHANGED << chipVars, SWDPCNeeded, RxStopDPCNeeded, PhyDPCNeeded, RxOverRun, linkVars,
                  setVars, pastVars, reg >>
OverrunDone ==
  /\ Does("over_done") /\ RxOverRun' = FALSE
  /\ swallowed' = (swallowed \/ stopEn \/ ~f100Done)
  /\ UNCHANGED << chipVars, f100Done, SWDPCNeeded, RxStopDPCNeeded, PhyDPCNeeded, cpuInt, linkVars,
                  setVars, spurious, late, skipped, raced, reg >>

(* Mutant of the next: SWDPCNeeded stays set.                              *)
SetCompleteKeepsFlag ==
  /\ \/ Does("complete_sw") /\ UNCHANGED SWDPCNeeded /\ UNCHANGED RxStopDPCNeeded
     \/ Does("complete_stop") /\ RxStopDPCNeeded' = FALSE /\ UNCHANGED SWDPCNeeded
  /\ pending' = FALSE /\ spurious' = (spurious \/ ~pending)
  /\ UNCHANGED << chipVars, f100Done, PhyDPCNeeded, RxOverRun, cpuInt, linkVars, want, wantHash,
                  sets, links, errors, late, skipped, raced, swallowed, reg >>

(* NdisMSetInformationComplete.                                            *)
SetInformationComplete ==
  /\ \/ Does("complete_sw") /\ SWDPCNeeded' = FALSE /\ UNCHANGED RxStopDPCNeeded
     \/ Does("complete_stop") /\ RxStopDPCNeeded' = FALSE /\ UNCHANGED SWDPCNeeded
  /\ pending' = FALSE /\ spurious' = (spurious \/ ~pending)
  /\ UNCHANGED << chipVars, f100Done, PhyDPCNeeded, RxOverRun, cpuInt, linkVars, want, wantHash,
                  sets, links, errors, late, skipped, raced, swallowed, reg >>

HandlerStep ==
  \/ HandleInterrupt \/ Read \/ Write \/ WriteHash \/ DisableMacRxEn \/ WaitStop \/ Interrupts \/ Pend
  \/ LinkIndicate \/ LinkIndicated \/ Flagged \/ SwDone \/ OverrunDone \/ SetInformationComplete

Next ==
  /\ UNCHANGED rev1
  /\ \/ ReceiverStops \/ (\E l \in Links : LinkChanges(l)) \/ TimerFires \/ ReceiverError
     \/ IsrStep \/ Isr(TRUE) \/ HandlerStep \/ SetInformation

Spec == Init /\ [][Next]_vars

(* A receiver told to stop stops, the timer ticks, the ISR and the handler *)
(* of the moment go on, the handler between interrupts, however many there *)
(* are: the chip holds back an interrupt for a while after the last.       *)
Fairness ==
  /\ WF_vars(ReceiverStops /\ UNCHANGED rev1) /\ WF_vars(TimerFires /\ UNCHANGED rev1)
  /\ WF_vars(IsrStep /\ UNCHANGED rev1) /\ SF_vars(HandlerStep /\ UNCHANGED rev1)
FairSpec == Spec /\ Fairness
-----------------------------------------------------------------------------
Quiet == isr = << >> /\ todo = << >> /\ ~dpc /\ ~pending

(* No request of NDIS is completed that is not pending: the ISR's look at  *)
(* the receiver after every frame, its last one and the DPC's complete it  *)
(* once (smsc9118.c:1898-1901, 4154-4191, 4347-4362, 4483-4505).           *)
CompletedOnce == ~spurious

(* When nothing is going on the filter and the hash are those that were    *)
(* set last, and the receiver runs once a filter was set; but not what was *)
(* set without a link, which the first revision leaves alone               *)
(* (smsc9118.c:1844-1922, 1968-2034).                                      *)
ReceiverIsSet ==
  Quiet /\ f100Done /\ ~raced /\ ~skipped =>
    mac.filt = want /\ hash = wantHash /\ (want > 0 => mac.rxen)

(* The MAC is as full or half duplex as the link it was last seen with, if *)
(* no handler has written back the MAC_CR of before                        *)
(* (smsc9118.c:1796-1804, 3936-3952).                                      *)
DuplexFollowsLink ==
  Quiet /\ ~raced /\ wOldPhyBSR /\ link # "none" => mac.full = Full(link) /\ dwLinkMode = link

(* A pending request is completed, unless the receiver took longer to stop *)
(* than the DPC to come, or the recovery from a receiver error or from an  *)
(* overrun had it restarted: then it never is                              *)
(* (smsc9118.c:4134-4147, 4207-4235, 4486, 4511-4541).                     *)
SetCompletes == pending ~> ~pending \/ late \/ swallowed

(* The CPU's interrupts, turned off by the workaround, come back on: with  *)
(* the same exception (smsc9118.c:4159, 4354, 4492).                       *)
InterruptsComeBack == ~cpuInt ~> cpuInt \/ late \/ swallowed

(* Each request is completed once, the receiver's filter is what was asked *)
(* for, and the MAC's duplex is the link's (smsc9118.c:1796-2034,          *)
(* 3936-4541).                                                             *)
MacSound == CompletedOnce /\ ReceiverIsSet /\ DuplexFollowsLink
=============================================================================
