------------------------------- MODULE Lan9118 -------------------------------
(***************************************************************************)
(* The access to the LAN9118: its PHY is looked for and reset              *)
(* (Lan_InitializePhy), and brings the link up (Lan_EstablishLink), by the *)
(* one thread there is then.  Later NDIS' thread and the interrupt's use   *)
(* the chip's indirect registers: those of the MAC behind a command and a  *)
(* data register, those of the PHY behind two registers of the MAC.  None  *)
(* of the three depends on how the others went: a behaviour is one of one. *)
(***************************************************************************)
EXTENDS Naturals, Sequences, FiniteSets

CONSTANTS
  Threads,      \* the threads that use the registers
  Values,       \* what they write: small numbers, but 0
  MaxOps        \* bound: how many operations they make

VARIABLES
  stage,        \* what begins: "phy", "link", "running"; or "found", "failed", "up"
  chip,         \* [id, extDetected, answers, asked]: the chip, and PhyAddress
  bPhyAddress, smi,     \* the PHY that is used, and the bus it is on
  request, partner,     \* what may be advertised, what the other end does
  dwLinkMode, duplex, pause,    \* the link; MAC_CR's duplex; FLOW and AFC_CFG
  busy, cmd, data,      \* MAC_CSR_CMD, MAC_CSR_DATA
  mac,          \* the registers of the MAC
  phy,          \* the register of the PHY
  csAccessMacReg, csAccessPhyReg,       \* who holds them, or "nobody"
  todo,         \* thread -> the steps it has before it
  want, got,    \* thread -> the value it writes, the one it read
  ops,          \* operations so far
  missed,       \* a write of the PHY's last value has met a busy MAC, and was not made
  abandoned,    \* the MAC is busy with a command nobody waits for any more
  raced,        \* a thread past its test has met such a MAC, or such a PHY
  wrong,        \* an access that was made has not done what it was to do
  last          \* the value last written to the PHY

chipVars == << stage, chip, bPhyAddress, smi, request, partner, dwLinkMode, duplex, pause >>
hwVars   == << busy, cmd, data, mac, phy >>
history  == << missed, abandoned, raced, wrong, last >>
useVars  == << todo, want, got, ops, history >>
vars     == << chipVars, hwVars, csAccessMacReg, csAccessPhyReg, useVars >>
-----------------------------------------------------------------------------
Internal == 1                   \* the address of the PHY in the chip
Auto     == 32                  \* PhyAddress 0x20 and above: look for it
Ones     == 99                  \* a register that reads 0xFFFFFFFF
Modes    == << "100full", "100half", "10full", "10half" >>    \* the best first
Pauses   == {"sym", "asym"}
Ability  == {Modes[i] : i \in DOMAIN Modes} \cup Pauses
Regs     == {"CR", "ACC", "DATA"}       \* MAC_CR, MII_ACC, MII_DATA
None     == [thread |-> "nobody", reg |-> "CR", write |-> FALSE]

Ids == {"rev0", "0117", "117A", "0118"}

Init ==
  /\ stage \in {"phy", "link", "running"}
  /\ chip \in (IF stage = "phy"
                 THEN [id : Ids, extDetected : BOOLEAN, answers : SUBSET {0, 2}, asked : {0, 2, Auto, 255}]
                 ELSE {[id |-> "0118", extDetected |-> FALSE, answers |-> {}, asked |-> 255]})
  /\ bPhyAddress = Internal /\ smi = "int" /\ request = {} /\ partner = {}
  /\ dwLinkMode = "none" /\ duplex = "none" /\ pause = {}
  /\ busy = FALSE /\ cmd = None /\ data = 0 /\ mac = [r \in Regs |-> 0] /\ phy = 0
  /\ csAccessMacReg = "nobody" /\ csAccessPhyReg = "nobody"
  /\ todo = [t \in Threads |-> << >>] /\ want = [t \in Threads |-> 0] /\ got = [t \in Threads |-> 0]
  /\ ops = 0 /\ missed = FALSE /\ abandoned = FALSE /\ raced = FALSE /\ wrong = FALSE /\ last = 0
-----------------------------------------------------------------------------
(* The PHY outside the chip, if the chip has a bus for it and sees one: at *)
(* the address that was given, or the first at which there is an answer.   *)
HasExternalBus == chip.id \in {"0117", "117A"} /\ chip.extDetected /\ chip.asked # 255
Found == IF chip.asked = Auto THEN {a \in chip.answers : \A b \in chip.answers : a <= b}
                              ELSE chip.answers \cap {chip.asked}

(* Which it is.  A chip of revision 0 keeps the address it was given, on   *)
(* its own bus.                                                            *)
SelectPhy ==
  IF HasExternalBus /\ Found # {} THEN [address |-> CHOOSE a \in Found : TRUE, bus |-> "ext"]
  ELSE IF chip.id = "rev0" /\ chip.asked # 255 THEN [address |-> chip.asked, bus |-> "int"]
  ELSE [address |-> Internal, bus |-> "int"]

Answers(p) == IF p.bus = "ext" THEN p.address \in chip.answers ELSE p.address = Internal

(* Mutant of the next: the PHY is not asked whether it has been reset.     *)
NoReset ==
  /\ stage = "phy" /\ bPhyAddress' = SelectPhy.address /\ smi' = SelectPhy.bus /\ stage' = "found"
  /\ UNCHANGED << chip, request, partner, dwLinkMode, duplex, pause, hwVars, csAccessMacReg,
                  csAccessPhyReg, useVars >>

LoopBackTest == SelectPhy.bus = "int"

(* Lan_InitializePhy: a PHY that does not answer never ends its reset; the *)
(* one in the chip may fail its loop-back test.                            *)
InitializePhy ==
  /\ stage = "phy" /\ bPhyAddress' = SelectPhy.address /\ smi' = SelectPhy.bus
  /\ \/ Answers(SelectPhy) /\ stage' = "found"
     \/ (~Answers(SelectPhy) \/ LoopBackTest) /\ stage' = "failed"
  /\ UNCHANGED << chip, request, partner, dwLinkMode, duplex, pause, hwVars, csAccessMacReg,
                  csAccessPhyReg, useVars >>

(* Lan_GetLinkMode and the pauses it sets, in a link of two that negotiate.*)
Best(S) == IF \E i \in DOMAIN Modes : Modes[i] \in S
             THEN Modes[CHOOSE i \in DOMAIN Modes : Modes[i] \in S /\ \A j \in 1 .. i - 1 : Modes[j] \notin S]
             ELSE "none"

PauseOf(adv, lpa) ==
  IF adv \cap lpa \cap {"100full", "10full"} = {} THEN {}
  ELSE IF "sym" \in adv \cap lpa THEN {"receive", "send"}
  ELSE IF Pauses \subseteq adv /\ lpa \cap Pauses = {"asym"} THEN {"receive"}
  ELSE {}

DuplexOf(m) ==
  IF m \in {"100full", "10full"} THEN "full" ELSE IF m \in {"100half", "10half"} THEN "half" ELSE "none"

(* Lan_EstablishLink: negotiated, or the best mode that was asked for; in  *)
(* that case the link mode is left to the first change of the link.        *)
EstablishLink(adv, lpa, aneg, up) ==
  /\ stage' = "up" /\ request' = adv /\ partner' = lpa
  /\ IF aneg
       THEN /\ dwLinkMode' = IF up THEN Best(adv \cap lpa) ELSE "none"
            /\ pause' = IF up THEN PauseOf(adv, lpa) ELSE pause
            /\ duplex' = DuplexOf(dwLinkMode')
       ELSE /\ duplex' = DuplexOf(Best(adv)) /\ UNCHANGED << dwLinkMode, pause >>
  /\ UNCHANGED << chip, bPhyAddress, smi, hwVars, csAccessMacReg, csAccessPhyReg, useVars >>
-----------------------------------------------------------------------------
(* The steps of an access to a register of the MAC: it must not be busy;   *)
(* under the lock the data to write, if any, and the command are given;    *)
(* the MAC is waited for, and its answer read.                             *)
Get(r) == << << "test", r >>, << "read", r >>, << "result", r >> >>
Set(r) == << << "test", r >>, << "data", r >>, << "write", r >>, << "wait", r >> >>

At(t, step) == todo[t] # << >> /\ todo[t][1][1] = step
Reg(t)      == todo[t][1][2]
Go(t, more) == todo' = [todo EXCEPT ![t] = more \o Tail(@)]

(* What the threads do: change a register of the MAC, or one of the PHY,   *)
(* which begins with a look at MII_ACC.                                    *)
Begin(t, v) ==
  /\ stage = "running" /\ todo[t] = << >> /\ ops < MaxOps /\ ops' = ops + 1
  /\ want' = [want EXCEPT ![t] = v]
  /\ todo' = [todo EXCEPT ![t] = IF v \in Values THEN Get("ACC") \o << << "phy?", "ACC" >> >>
                                 ELSE Get("CR") \o Set("CR")]
  /\ UNCHANGED << chipVars, hwVars, csAccessMacReg, csAccessPhyReg, got, history >>

(* The test is made before the lock is taken; an access that meets a busy  *)
(* MAC reads all ones, or is not made.                                     *)
Test(t) ==
  /\ At(t, "test")
  /\ LET read == todo[t][2][1] = "read"
     IN IF busy THEN /\ todo' = [todo EXCEPT ![t] = SubSeq(@, IF read THEN 4 ELSE 5, Len(@))]
                     /\ got' = IF read THEN [got EXCEPT ![t] = Ones] ELSE got
                     /\ missed' = (missed \/ (~read /\ Reg(t) # "CR"))
        ELSE Go(t, << >>) /\ UNCHANGED << got, missed >>
  /\ UNCHANGED << chipVars, hwVars, csAccessMacReg, csAccessPhyReg, want, ops, abandoned, raced, wrong, last >>

(* What is written: MAC_CR as it was read, with another bit changed; a     *)
(* value for the PHY; the command to write it.                             *)
ToWrite(t) == CASE Reg(t) = "CR" -> 1 - (got[t] % 2) [] Reg(t) = "DATA" -> want[t] [] OTHER -> Ones

(* Mutant of the next: the lock is not taken.                              *)
EnterUnlocked(t) == csAccessMacReg' = t /\ raced' = (raced \/ (busy /\ abandoned))
Enter(t) ==
  csAccessMacReg = "nobody" /\ csAccessMacReg' = t /\ raced' = (raced \/ (busy /\ abandoned))

(* A command given to a MAC that has one takes its place.                  *)
Give(t) ==
  busy' = TRUE /\ abandoned' = FALSE /\ cmd' = [thread |-> t, reg |-> Reg(t), write |-> At(t, "write")]

Command(t) ==
  /\ \/ At(t, "read") /\ Enter(t) /\ Give(t) /\ UNCHANGED data
     \/ At(t, "data") /\ Enter(t) /\ data' = ToWrite(t) /\ UNCHANGED << busy, abandoned, cmd >>
     \/ At(t, "write") /\ Give(t) /\ UNCHANGED << data, csAccessMacReg, raced >>
  /\ Go(t, << >>)
  /\ UNCHANGED << chipVars, mac, phy, csAccessPhyReg, want, got, ops, missed, wrong, last >>

(* The MAC carries a command out; one to the PHY keeps MII_ACC busy.       *)
Complete ==
  /\ busy /\ busy' = FALSE /\ abandoned' = FALSE
  /\ IF cmd.write THEN mac' = [mac EXCEPT ![cmd.reg] = data] /\ UNCHANGED data
                  ELSE data' = mac[cmd.reg] /\ UNCHANGED mac
  /\ UNCHANGED << chipVars, cmd, phy, csAccessMacReg, csAccessPhyReg, todo, want, got, ops, missed,
                  raced, wrong, last >>

Transfer ==
  /\ mac["ACC"] = Ones /\ mac' = [mac EXCEPT !["ACC"] = 0] /\ phy' = mac["DATA"]
  /\ UNCHANGED << chipVars, busy, cmd, data, csAccessMacReg, csAccessPhyReg, useVars >>

(* Lan_MacNotBusy: the MAC is done, or still busy when it has been asked   *)
(* 40 times; the lock is then left all the same, and all ones returned.    *)
End(t) ==
  /\ At(t, "result") \/ At(t, "wait")
  /\ csAccessMacReg' = "nobody" /\ Go(t, << >>) /\ abandoned' = busy
  /\ got' = IF At(t, "result") THEN [got EXCEPT ![t] = IF busy THEN Ones ELSE data] ELSE got
  /\ wrong' = (wrong \/ (~busy /\ cmd # [thread |-> t, reg |-> Reg(t), write |-> At(t, "wait")]))
  /\ UNCHANGED << chipVars, hwVars, csAccessPhyReg, want, ops, missed, raced, last >>

(* A value is on its way to the PHY: MII_ACC is busy with it, or the MAC   *)
(* with the command to make it so.                                         *)
OnItsWay(v) ==
  mac["DATA"] = v /\ (mac["ACC"] = Ones \/ (busy /\ cmd.write /\ cmd.reg = "ACC"))

(* Lan_SetMiiRegW: nothing if MII_ACC is busy, or seems to be; else the    *)
(* data, the command, and MII_ACC until it is no longer busy, or has been  *)
(* asked 100 times.                                                        *)
SetMiiRegW(t) ==
  /\ \/ At(t, "phy?") /\ UNCHANGED << csAccessPhyReg, missed, raced, last >>
        /\ IF got[t] = Ones THEN Go(t, << >>) ELSE Go(t, << << "enter", "ACC" >> >>)
     \/ At(t, "enter") /\ csAccessPhyReg = "nobody" /\ csAccessPhyReg' = t /\ last' = want[t]
        /\ raced' = (raced \/ \E v \in Values : OnItsWay(v)) /\ missed' = FALSE
        /\ Go(t, Set("DATA") \o Set("ACC") \o Get("ACC") \o << << "done?", "ACC" >> >>)
     \/ At(t, "done?") /\ UNCHANGED << missed, raced, last >>
        /\ \/ got[t] = Ones /\ Go(t, Get("ACC") \o << << "done?", "ACC" >> >>) /\ UNCHANGED csAccessPhyReg
           \/ Go(t, << >>) /\ csAccessPhyReg' = "nobody"
  /\ UNCHANGED << chipVars, hwVars, csAccessMacReg, want, got, ops, abandoned, wrong >>

Next ==
  \/ InitializePhy
  \/ stage = "link" /\ \E adv, lpa \in SUBSET Ability, aneg, up \in BOOLEAN :
       EstablishLink(adv, lpa, aneg, up)
  \/ \E t \in Threads :
       (\E v \in Values \cup {0} : Begin(t, v)) \/ Test(t) \/ Command(t) \/ End(t) \/ SetMiiRegW(t)
  \/ Complete \/ Transfer

Spec == Init /\ [][Next]_vars
-----------------------------------------------------------------------------
(* Once InitializePhy has succeeded there is a PHY at the address and on   *)
(* the bus the driver uses (lan9118.c:613-904).                            *)
PhyIsThere == stage = "found" => Answers([address |-> bPhyAddress, bus |-> smi])

(* The link has the best mode that both ends advertise, the MAC its        *)
(* duplex, and uses no pause frames but those that the table of IEEE 802.3 *)
(* (28B-3) gives it, and in half duplex none, unless both advertise        *)
(* 10full, with which the code takes a 100half link for a full duplex one  *)
(* (lan9118.c:959-1236).                                                   *)
Resolution ==
  IF "sym" \in request \cap partner THEN {"receive", "send"}
  ELSE IF "asym" \notin request \cap partner THEN {}
  ELSE IF "sym" \in request THEN {"receive"} ELSE IF "sym" \in partner THEN {"send"} ELSE {}
LinkIsBest ==
  stage = "up" /\ dwLinkMode # "none" =>
    /\ dwLinkMode \in request \cap partner /\ duplex = DuplexOf(dwLinkMode)
    /\ \A i, j \in DOMAIN Modes :
         i < j /\ dwLinkMode = Modes[j] => Modes[i] \notin request \cap partner
    /\ pause \subseteq Resolution /\ (duplex = "half" /\ "10full" \notin request \cap partner => pause = {})

(* An access to the MAC whose end is waited for is the one that was to be  *)
(* made, and if no write was given up before it began, the PHY has the     *)
(* value last written to it, or is about to (lan9118.c:118-296).  It is    *)
(* not so after a race the locks do not prevent: an access that is given   *)
(* up leaves its lock, and a thread that had made its test before goes on  *)
(* to give its command to a MAC, or a PHY, that is still busy.             *)
AccessesAreExact ==
  ~raced =>
    /\ ~wrong
    /\ ~missed /\ csAccessPhyReg = "nobody" /\ last # 0 => phy = last \/ OnItsWay(last)

Lan9118Sound == PhyIsThere /\ LinkIsBest /\ AccessesAreExact
===============================================================================
