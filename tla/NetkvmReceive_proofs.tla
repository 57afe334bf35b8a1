------------------------- MODULE NetkvmReceive_proofs -------------------------
(***************************************************************************)
(* The receive path of netkvm for NDIS 5, for any number of buffers, any   *)
(* limit of a DPC, with and without batches: every buffer is in one place, *)
(* none in a queue that is deleted, NDIS has none when receiving has       *)
(* stopped, and gets frames in the order they came.                        *)
(***************************************************************************)
EXTENDS NetkvmReceive, SequenceTheorems, FiniteSetTheorems, TLAPS

Labels == {"idle", "called", "counted", "inside", "leave", "set_timer"} \cup InRx
Inside == {"inside", "leave"} \cup InRx                 \* counted by counterDPCInside
Claims == {"enter_rx", "rx", "relock", "indicate", "unclaim", "skip"}
Owns   == Claims \ {"skip"}                             \* found dpcReceiveActive 0
Down   == {"new", "delete", "off", "halted"}

Used  == [buf : Buffers, frame : Nat]
UsedBufs == {used[i].buf : i \in 1 .. Len(used)}
BatchBufs(t) == {batch[t][i].buf : i \in 1 .. Len(batch[t])}

Types ==
  /\ posted \in Seq(Buffers) /\ used \in Seq(Used) /\ frame \in Nat /\ indicated \in Seq(Nat)
  /\ waiting \subseteq Buffers /\ atNdis \subseteq Buffers
  /\ pc \in [Threads -> Labels] /\ batch \in [Threads -> Seq(Used)]
  /\ powerPc \in {"on", "suspend", "prevent", "drain", "resume"} \cup Down

(* Who is in ParaNdis_DPCWorkBody, and who of them receives.               *)
One(t, labels) == IF pc[t] \in labels THEN 1 ELSE 0
Number(labels) == One("dpc", labels) + One("timer", labels) + One("hang", labels)

GateInv ==
  /\ counterDPCInside = Number(Inside) /\ dpcReceiveActive = Number(Claims)
  /\ \A t, u \in Threads : pc[t] \in Owns /\ pc[u] \in Owns => t = u
  /\ \A t \in Threads : lock = t <=> pc[t] = "rx"
  /\ bEnableInterruptHandlingDPC = (powerPc \notin Down \cup {"drain"})
  /\ ring = (powerPc \notin {"new", "off", "halted"})
  /\ powerPc \in Down => \A t \in Threads : pc[t] \notin InRx

(* Receiving has stopped, or goes on, or is about to stop.                 *)
PauseInv ==
  /\ ReceiveState \in {"enabled", "pausing", "disabled"}
  /\ ReceiveState = "pausing" => powerPc = "suspend" /\ waiting # {}
  /\ ReceiveState = "disabled" => waiting = {}
  /\ pauseProc => ReceiveState = "pausing"
  /\ powerPc = "suspend" /\ ResetEvent => ReceiveState = "disabled"
  /\ powerPc \in {"prevent", "drain", "delete", "off", "halted"} => ReceiveState = "disabled"
  /\ powerPc = "new" => posted = << >> /\ used = << >> /\ waiting = {}

(* The places of the buffers.                                              *)
RoundInv ==
  /\ \A i, j \in 1 .. Len(posted) : posted[i] = posted[j] => i = j
  /\ \A i, j \in 1 .. Len(used) : used[i].buf = used[j].buf => i = j
  /\ \A i \in 1 .. Len(posted) : posted[i] \notin UsedBufs \cup waiting
  /\ UsedBufs \cap waiting = {}
  /\ \A t \in Threads : batch[t] # << >> => pc[t] \in {"rx", "indicate"}
  /\ \A b \in Buffers : b \in waiting <=> b \in atNdis \/ \E t \in Threads : b \in BatchBufs(t)
  /\ \A t \in Threads : atNdis \cap BatchBufs(t) = {}
  /\ powerPc # "new" =>
       \A b \in Buffers : b \in waiting \cup UsedBufs \/ \E i \in 1 .. Len(posted) : posted[i] = b

(* The frames on their way, from the first to the latest.                  *)
OrderInv ==
  /\ \A i, j \in 1 .. Len(indicated) : i < j => indicated[i] < indicated[j]
  /\ \A i, j \in 1 .. Len(used) : i < j => used[i].frame < used[j].frame
  /\ \A i \in 1 .. Len(indicated), j \in 1 .. Len(used) : indicated[i] < used[j].frame
  /\ \A i \in 1 .. Len(indicated) : indicated[i] < frame
  /\ \A i \in 1 .. Len(used) : used[i].frame < frame
  /\ \A t \in Threads : \A i \in 1 .. Len(batch[t]) :
       /\ \A j \in 1 .. Len(batch[t]) : i < j => batch[t][i].frame < batch[t][j].frame
       /\ \A j \in 1 .. Len(indicated) : indicated[j] < batch[t][i].frame
       /\ \A j \in 1 .. Len(used) : batch[t][i].frame < used[j].frame
       /\ batch[t][i].frame < frame

ReceiveInv == Types /\ GateInv /\ PauseInv /\ RoundInv /\ OrderInv
-----------------------------------------------------------------------------
LEMMA Append1 ==
  ASSUME NEW S, NEW s \in Seq(S), NEW e \in S
  PROVE  /\ Append(s, e) \in Seq(S) /\ Len(s) \in Nat /\ Len(Append(s, e)) = Len(s) + 1
         /\ \A i \in 1 .. Len(s) : Append(s, e)[i] = s[i] /\ s[i] \in S
         /\ Append(s, e)[Len(s) + 1] = e
BY AppendProperties, ElementOfSeq, LenProperties

LEMMA Tail1 ==
  ASSUME NEW S, NEW s \in Seq(S), s # << >>
  PROVE  /\ Len(s) \in Nat /\ Len(s) >= 1 /\ Head(s) = s[1] /\ Head(s) \in S
         /\ Tail(s) \in Seq(S) /\ Len(Tail(s)) = Len(s) - 1
         /\ \A i \in 1 .. Len(s) - 1 : Tail(s)[i] = s[i + 1]
BY HeadTailProperties, LenProperties, EmptySeq

LEMMA Concat1 ==
  ASSUME NEW S, NEW s \in Seq(S), NEW u \in Seq(S)
  PROVE  /\ s \o u \in Seq(S) /\ Len(s) \in Nat /\ Len(u) \in Nat /\ Len(s \o u) = Len(s) + Len(u)
         /\ \A i \in 1 .. Len(s) : (s \o u)[i] = s[i]
         /\ \A i \in 1 .. Len(u) : (s \o u)[Len(s) + i] = u[i]
<1>1. Len(s) \in Nat /\ Len(u) \in Nat
  BY LenProperties
<1>2. \A i \in 1 .. Len(u) :
        Len(s) + i \in 1 .. Len(s) + Len(u) /\ Len(s) + i > Len(s) /\ (Len(s) + i) - Len(s) = i
  BY <1>1
<1>3. \A i \in 1 .. Len(s) : i \in 1 .. Len(s) + Len(u) /\ i <= Len(s)
  BY <1>1
<1> QED BY <1>1, <1>2, <1>3, ConcatProperties

LEMMA MovedUp ==
  ASSUME NEW m \in Nat, NEW n \in Nat, NEW i \in 1 .. m + n
  PROVE  i \in 1 .. m \/ \E k \in 1 .. n : i = m + k
<1>1. i \in 1 .. m \/ (i - m \in 1 .. n /\ i = m + (i - m))
  OBVIOUS
<1> QED BY <1>1

LEMMA BufsOf ==
  ASSUME NEW s \in Seq(Used)
  PROVE  /\ [i \in DOMAIN s |-> s[i].buf] \in Seq(Buffers)
         /\ Len([i \in DOMAIN s |-> s[i].buf]) = Len(s) /\ Len(s) \in Nat
         /\ \A i \in 1 .. Len(s) : [k \in DOMAIN s |-> s[k].buf][i] = s[i].buf /\ s[i].buf \in Buffers
<1>1. Len(s) \in Nat /\ DOMAIN s = 1 .. Len(s) /\ \A i \in 1 .. Len(s) : s[i] \in Used
  BY LenProperties, ElementOfSeq
<1> QED BY <1>1 DEF Used

LEMMA FramesOf ==
  ASSUME NEW s \in Seq(Used)
  PROVE  /\ [i \in DOMAIN s |-> s[i].frame] \in Seq(Nat)
         /\ Len([i \in DOMAIN s |-> s[i].frame]) = Len(s) /\ Len(s) \in Nat
         /\ \A i \in 1 .. Len(s) : [k \in DOMAIN s |-> s[k].frame][i] = s[i].frame /\ s[i].frame \in Nat
<1>1. Len(s) \in Nat /\ DOMAIN s = 1 .. Len(s) /\ \A i \in 1 .. Len(s) : s[i] \in Used
  BY LenProperties, ElementOfSeq
<1> QED BY <1>1 DEF Used

(* A thread that goes on to another label.                                 *)
LEMMA NumberMoved ==
  ASSUME pc \in [Threads -> Labels], NEW t \in Threads, NEW l, pc' = [pc EXCEPT ![t] = l]
  PROVE  \A labels : Number(labels)' = Number(labels) + (IF l \in labels THEN 1 ELSE 0) - One(t, labels)
BY DEF Number, One, Threads

LEMMA NumberZero ==
  \A labels : Number(labels) = 0 => \A t \in Threads : pc[t] \notin labels
BY DEF Number, One, Threads

(* It enters and leaves what is counted, receives only if nobody does, and *)
(* takes the lock only when it is free.                                    *)
LEMMA GateMoved ==
  ASSUME Types, GateInv, NEW t \in Threads, NEW l \in Labels, pc' = [pc EXCEPT ![t] = l],
         counterDPCInside' = counterDPCInside + (IF l \in Inside THEN 1 ELSE 0) - One(t, Inside),
         dpcReceiveActive' = dpcReceiveActive + (IF l \in Claims THEN 1 ELSE 0) - One(t, Claims),
         l \in Owns => pc[t] \in Owns \/ dpcReceiveActive = 0,
         lock' = (IF l = "rx" THEN t ELSE IF pc[t] = "rx" THEN "free" ELSE lock),
         l = "rx" => pc[t] = "rx" \/ lock = "free",
         UNCHANGED << ring, powerPc, bEnableInterruptHandlingDPC >>,
         powerPc \in Down /\ l \in InRx => pc[t] \in InRx
  PROVE  GateInv'
<1>1. pc'[t] = l /\ \A u \in Threads \ {t} : pc'[u] = pc[u]
  BY DEF Types
<1>2. counterDPCInside' = Number(Inside)' /\ dpcReceiveActive' = Number(Claims)'
  BY NumberMoved DEF Types, GateInv
<1>3. dpcReceiveActive = 0 => \A u \in Threads : pc[u] \notin Claims
  BY NumberZero DEF GateInv
<1>4. \A u, v \in Threads : pc'[u] \in Owns /\ pc'[v] \in Owns => u = v
  BY <1>1, <1>3 DEF GateInv, Owns
<1>5. t # "free"
  BY DEF Threads
<1>6. \A u \in Threads : lock' = u <=> pc'[u] = "rx"
  <2> SUFFICES ASSUME NEW u \in Threads PROVE lock' = u <=> pc'[u] = "rx"
    OBVIOUS
  <2>1. u # "free"
    BY DEF Threads
  <2>2. (lock = u <=> pc[u] = "rx") /\ (lock = t <=> pc[t] = "rx")
    BY DEF GateInv
  <2> QED BY <1>1, <1>5, <2>1, <2>2
<1> QED BY <1>1, <1>2, <1>4, <1>6 DEF GateInv

(* What the threads do to no buffer.                                       *)
LEMMA BuffersKept ==
  ASSUME Types, RoundInv, OrderInv, PauseInv, NEW t \in Threads, NEW l \in Labels,
         pc' = [pc EXCEPT ![t] = l], l \in {"rx", "indicate"} \/ batch[t] = << >>,
         UNCHANGED << posted, used, frame, waiting, atNdis, indicated, pauseVars, powerPc, batch >>
  PROVE  Types' /\ RoundInv' /\ OrderInv' /\ PauseInv'
<1>1. Types'
  BY DEF Types
<1>2. \A u \in Threads : batch'[u] # << >> => pc'[u] \in {"rx", "indicate"}
  BY DEF Types, RoundInv
<1>3. RoundInv'
  BY <1>2 DEF RoundInv, UsedBufs, BatchBufs
<1>4. OrderInv' /\ PauseInv'
  BY DEF OrderInv, PauseInv, pauseVars
<1> QED BY <1>1, <1>3, <1>4

(* Where a thread goes from one label to another, and what it counts.      *)
Weight(l, labels) == IF l \in labels THEN 1 ELSE 0

Shared == << posted, used, frame, waiting, atNdis, indicated, pauseVars, powerPc, ring,
             bEnableInterruptHandlingDPC, batch >>

Goes(t, k, l, in, cl) ==
  /\ pc[t] = k /\ pc' = [pc EXCEPT ![t] = l] /\ UNCHANGED Shared
  /\ counterDPCInside' = counterDPCInside + in /\ dpcReceiveActive' = dpcReceiveActive + cl

LEMMA ThreadGoes ==
  ASSUME ReceiveInv, NEW t \in Threads, NEW k \in Labels, NEW l \in Labels, NEW in \in Int, NEW cl \in Int,
         Goes(t, k, l, in, cl),
         in = Weight(l, Inside) - Weight(k, Inside), cl = Weight(l, Claims) - Weight(k, Claims),
         l \in Owns => k \in Owns \/ dpcReceiveActive = 0,
         lock' = (IF l = "rx" THEN t ELSE IF k = "rx" THEN "free" ELSE lock),
         l = "rx" => k = "rx" \/ lock = "free",
         powerPc \in Down /\ l \in InRx => k \in InRx,
         l \in {"rx", "indicate"} \/ batch[t] = << >>
  PROVE  ReceiveInv'
<1>1. counterDPCInside \in Nat /\ dpcReceiveActive \in Nat
  BY DEF ReceiveInv, GateInv, Number, One
<1>2. One(t, Inside) = Weight(k, Inside) /\ One(t, Claims) = Weight(k, Claims)
  BY DEF One, Weight, Goes
<1>3. \A labels : Weight(l, labels) \in {0, 1} /\ Weight(k, labels) \in {0, 1}
  BY DEF Weight
<1>4. /\ counterDPCInside' = counterDPCInside + Weight(l, Inside) - One(t, Inside)
      /\ dpcReceiveActive' = dpcReceiveActive + Weight(l, Claims) - One(t, Claims)
  BY <1>1, <1>2, <1>3 DEF Goes
<1>5. GateInv'
  BY <1>4, GateMoved DEF ReceiveInv, Weight, Goes, Shared
<1>6. Types' /\ RoundInv' /\ OrderInv' /\ PauseInv'
  BY BuffersKept DEF ReceiveInv, Goes, Shared
<1> QED BY <1>5, <1>6 DEF ReceiveInv

(* The steps of a thread that touch no buffer.                             *)
LEMMA ThreadStep ==
  ASSUME ReceiveInv, NEW t \in Threads,
         \/ Call(t) /\ UNCHANGED << ringVars, bufVars, gateVars, pauseVars, powerVars, lock, batch >>
         \/ Enter(t) \/ CountIn(t) \/ TakeStatus(t) \/ ClaimReceive(t) \/ Unclaim(t) \/ Restart(t)
         \/ Leave(t) \/ SetTimer(t) \/ LockReceive(t) \/ EndOfRx(t)
  PROVE  ReceiveInv'
<1>1. /\ bEnableInterruptHandlingDPC => powerPc \notin Down
      /\ pc[t] \notin {"rx", "indicate"} => batch[t] = << >>
      /\ lock = t <=> pc[t] = "rx"
  BY DEF ReceiveInv, RoundInv, GateInv
<1>2. counterDPCInside \in Nat /\ dpcReceiveActive \in Nat
  BY DEF ReceiveInv, GateInv, Number, One
<1>3. CASE Call(t) /\ UNCHANGED << ringVars, bufVars, gateVars, pauseVars, powerVars, lock, batch >>
  <2>1. PICK k \in {"idle"} : pc[t] = k
    BY <1>3 DEF Call
  <2>2. PICK l \in {"called"} : pc' = [pc EXCEPT ![t] = l]
    BY <1>3 DEF Call
  <2>3. lock' = lock /\ UNCHANGED Shared
    BY <1>3 DEF Call, Shared, ringVars, bufVars, gateVars, pauseVars, powerVars
  <2>4. counterDPCInside' = counterDPCInside /\ dpcReceiveActive' = dpcReceiveActive
    BY <1>2, <1>3, <2>1 DEF Call, gateVars
  <2>5. Goes(t, k, l, 0, 0)
    BY <1>2, <2>1, <2>2, <2>3, <2>4 DEF Goes
  <2>6. k \in Labels /\ l \in Labels /\ (l \in Owns => k \in Owns \/ dpcReceiveActive = 0)
    BY <2>2 DEF Labels, Claims, Owns, InRx
  <2>7. powerPc \in Down /\ l \in InRx => k \in InRx
    BY <1>1, <2>2 DEF InRx
  <2>8. 0 = Weight(l, Inside) - Weight(k, Inside) /\ 0 = Weight(l, Claims) - Weight(k, Claims)
    BY <2>2 DEF Claims, Inside, InRx, Weight
  <2>9. /\ lock' = (IF l = "rx" THEN t ELSE IF k = "rx" THEN "free" ELSE lock)
        /\ l = "rx" => k = "rx" \/ lock = "free"
        /\ l \in {"rx", "indicate"} \/ batch[t] = << >>
    BY <1>1, <2>1, <2>2, <2>3
  <2> QED BY <2>5, <2>6, <2>7, <2>8, <2>9, ThreadGoes
<1>4. CASE Enter(t)
  <2>1. PICK k \in {"called"} : pc[t] = k
    BY <1>4 DEF Enter
  <2>2. PICK l \in {"counted", "idle"} : pc' = [pc EXCEPT ![t] = l]
    BY <1>4 DEF Enter
  <2>3. lock' = lock /\ UNCHANGED Shared
    BY <1>4 DEF Enter, Shared, ringVars, bufVars, gateVars, pauseVars, powerVars
  <2>4. counterDPCInside' = counterDPCInside /\ dpcReceiveActive' = dpcReceiveActive
    BY <1>2, <1>4, <2>1 DEF Enter, gateVars
  <2>5. Goes(t, k, l, 0, 0)
    BY <1>2, <2>1, <2>2, <2>3, <2>4 DEF Goes
  <2>6. k \in Labels /\ l \in Labels /\ (l \in Owns => k \in Owns \/ dpcReceiveActive = 0)
    BY <2>2 DEF Labels, Claims, Owns, InRx
  <2>7. powerPc \in Down /\ l \in InRx => k \in InRx
    BY <1>1, <2>2 DEF InRx
  <2>8. 0 = Weight(l, Inside) - Weight(k, Inside) /\ 0 = Weight(l, Claims) - Weight(k, Claims)
    BY <2>2 DEF Claims, Inside, InRx, Weight
  <2>9. /\ lock' = (IF l = "rx" THEN t ELSE IF k = "rx" THEN "free" ELSE lock)
        /\ l = "rx" => k = "rx" \/ lock = "free"
        /\ l \in {"rx", "indicate"} \/ batch[t] = << >>
    BY <1>1, <2>1, <2>2, <2>3
  <2> QED BY <2>5, <2>6, <2>7, <2>8, <2>9, ThreadGoes
<1>5. CASE CountIn(t)
  <2>1. PICK k \in {"counted"} : pc[t] = k
    BY <1>5 DEF CountIn
  <2>2. PICK l \in {"inside"} : pc' = [pc EXCEPT ![t] = l]
    BY <1>5 DEF CountIn
  <2>3. lock' = lock /\ UNCHANGED Shared
    BY <1>5 DEF CountIn, Shared, ringVars, bufVars, gateVars, pauseVars, powerVars
  <2>4. counterDPCInside' = counterDPCInside + 1 /\ dpcReceiveActive' = dpcReceiveActive
    BY <1>2, <1>5, <2>1 DEF CountIn, gateVars
  <2>5. Goes(t, k, l, 1, 0)
    BY <1>2, <2>1, <2>2, <2>3, <2>4 DEF Goes
  <2>6. k \in Labels /\ l \in Labels /\ (l \in Owns => k \in Owns \/ dpcReceiveActive = 0)
    BY <2>2 DEF Labels, Claims, Owns, InRx
  <2>7. powerPc \in Down /\ l \in InRx => k \in InRx
    BY <1>1, <2>2 DEF InRx
  <2>8. 1 = Weight(l, Inside) - Weight(k, Inside) /\ 0 = Weight(l, Claims) - Weight(k, Claims)
    BY <2>2 DEF Claims, Inside, InRx, Weight
  <2>9. /\ lock' = (IF l = "rx" THEN t ELSE IF k = "rx" THEN "free" ELSE lock)
        /\ l = "rx" => k = "rx" \/ lock = "free"
        /\ l \in {"rx", "indicate"} \/ batch[t] = << >>
    BY <1>1, <2>1, <2>2, <2>3
  <2> QED BY <2>5, <2>6, <2>7, <2>8, <2>9, ThreadGoes
<1>6. CASE TakeStatus(t)
  <2>1. PICK k \in {"inside"} : pc[t] = k
    BY <1>6 DEF TakeStatus
  <2>2. PICK l \in {"again", "leave"} :
          pc' = [pc EXCEPT ![t] = l] /\ (l = "again" => bEnableInterruptHandlingDPC)
    BY <1>6 DEF TakeStatus
  <2>3. lock' = lock /\ UNCHANGED Shared
    BY <1>6 DEF TakeStatus, Shared, ringVars, bufVars, gateVars, pauseVars, powerVars
  <2>4. counterDPCInside' = counterDPCInside /\ dpcReceiveActive' = dpcReceiveActive
    BY <1>2, <1>6, <2>1 DEF TakeStatus, gateVars
  <2>5. Goes(t, k, l, 0, 0)
    BY <1>2, <2>1, <2>2, <2>3, <2>4 DEF Goes
  <2>6. k \in Labels /\ l \in Labels /\ (l \in Owns => k \in Owns \/ dpcReceiveActive = 0)
    BY <2>2 DEF Labels, Claims, Owns, InRx
  <2>7. powerPc \in Down /\ l \in InRx => k \in InRx
    BY <1>1, <2>2 DEF InRx
  <2>8. 0 = Weight(l, Inside) - Weight(k, Inside) /\ 0 = Weight(l, Claims) - Weight(k, Claims)
    BY <2>2 DEF Claims, Inside, InRx, Weight
  <2>9. /\ lock' = (IF l = "rx" THEN t ELSE IF k = "rx" THEN "free" ELSE lock)
        /\ l = "rx" => k = "rx" \/ lock = "free"
        /\ l \in {"rx", "indicate"} \/ batch[t] = << >>
    BY <1>1, <2>1, <2>2, <2>3
  <2> QED BY <2>5, <2>6, <2>7, <2>8, <2>9, ThreadGoes
<1>7. CASE ClaimReceive(t)
  <2>1. PICK k \in {"again"} : pc[t] = k
    BY <1>7 DEF ClaimReceive
  <2>2. PICK l : l = (IF dpcReceiveActive = 0 THEN "enter_rx" ELSE "skip")
    OBVIOUS
  <2>3. l \in {"enter_rx", "skip"} /\ pc' = [pc EXCEPT ![t] = l] /\ (l = "enter_rx" => dpcReceiveActive = 0)
    BY <1>7, <2>1, <2>2 DEF ClaimReceive
  <2>4. lock' = lock /\ UNCHANGED Shared
    BY <1>7 DEF ClaimReceive, Shared, ringVars, bufVars, gateVars, pauseVars, powerVars
  <2>5. counterDPCInside' = counterDPCInside /\ dpcReceiveActive' = dpcReceiveActive + 1
    BY <1>2, <1>7, <2>1 DEF ClaimReceive, gateVars
  <2>6. Goes(t, k, l, 0, 1)
    BY <1>2, <2>1, <2>3, <2>4, <2>5 DEF Goes
  <2>7. k \in Labels /\ l \in Labels /\ (l \in Owns => k \in Owns \/ dpcReceiveActive = 0)
    BY <2>3 DEF Labels, Claims, Owns, InRx
  <2>8. powerPc \in Down /\ l \in InRx => k \in InRx
    BY <1>1, <2>3 DEF InRx
  <2>9. 0 = Weight(l, Inside) - Weight(k, Inside) /\ 1 = Weight(l, Claims) - Weight(k, Claims)
    BY <2>3 DEF Claims, Inside, InRx, Weight
  <2>10. /\ lock' = (IF l = "rx" THEN t ELSE IF k = "rx" THEN "free" ELSE lock)
         /\ l = "rx" => k = "rx" \/ lock = "free"
         /\ l \in {"rx", "indicate"} \/ batch[t] = << >>
    BY <1>1, <2>1, <2>3, <2>4
  <2> QED BY <2>6, <2>7, <2>8, <2>9, <2>10, ThreadGoes
<1>8. CASE Unclaim(t)
  <2>1. PICK k \in {"skip", "unclaim"} : pc[t] = k
    BY <1>8 DEF Unclaim
  <2>2. PICK l : l = (IF k = "unclaim" THEN "restart" ELSE IF restart[t] THEN "leave" ELSE "skip_restart")
    OBVIOUS
  <2>3. l \in {"restart", "leave", "skip_restart"} /\ pc' = [pc EXCEPT ![t] = l]
    BY <1>8, <2>1, <2>2 DEF Unclaim
  <2>4. lock' = lock /\ UNCHANGED Shared
    BY <1>8 DEF Unclaim, Shared, ringVars, bufVars, gateVars, pauseVars, powerVars
  <2>5. counterDPCInside' = counterDPCInside /\ dpcReceiveActive' = dpcReceiveActive - 1
    BY <1>2, <1>8, <2>1 DEF Unclaim, gateVars
  <2>6. Goes(t, k, l, 0, -1)
    BY <1>2, <2>1, <2>3, <2>4, <2>5 DEF Goes
  <2>7. k \in Labels /\ l \in Labels /\ (l \in Owns => k \in Owns \/ dpcReceiveActive = 0)
    BY <2>3 DEF Labels, Claims, Owns, InRx
  <2>8. powerPc \in Down /\ l \in InRx => k \in InRx
    BY <1>1, <2>3 DEF InRx
  <2>9. 0 = Weight(l, Inside) - Weight(k, Inside) /\ -1 = Weight(l, Claims) - Weight(k, Claims)
    BY <2>3 DEF Claims, Inside, InRx, Weight
  <2>10. /\ lock' = (IF l = "rx" THEN t ELSE IF k = "rx" THEN "free" ELSE lock)
         /\ l = "rx" => k = "rx" \/ lock = "free"
         /\ l \in {"rx", "indicate"} \/ batch[t] = << >>
    BY <1>1, <2>1, <2>3, <2>4
  <2> QED BY <2>6, <2>7, <2>8, <2>9, <2>10, ThreadGoes
<1>9. CASE Restart(t)
  <2>1. PICK k \in {"restart", "skip_restart"} : pc[t] = k
    BY <1>9 DEF Restart
  <2>2. PICK l : l = (IF k = "restart" /\ nIndicated[t] # Limit /\ used # << >> THEN "again" ELSE "leave")
    OBVIOUS
  <2>3. l \in {"again", "leave"} /\ pc' = [pc EXCEPT ![t] = l]
    BY <1>9, <2>1, <2>2 DEF Restart
  <2>4. lock' = lock /\ UNCHANGED Shared
    BY <1>9 DEF Restart, Shared, ringVars, bufVars, gateVars, pauseVars, powerVars
  <2>5. counterDPCInside' = counterDPCInside /\ dpcReceiveActive' = dpcReceiveActive
    BY <1>2, <1>9, <2>1 DEF Restart, gateVars
  <2>6. Goes(t, k, l, 0, 0)
    BY <1>2, <2>1, <2>3, <2>4, <2>5 DEF Goes
  <2>7. k \in Labels /\ l \in Labels /\ (l \in Owns => k \in Owns \/ dpcReceiveActive = 0)
    BY <2>3 DEF Labels, Claims, Owns, InRx
  <2>8. powerPc \in Down /\ l \in InRx => k \in InRx
    BY <1>1, <2>3 DEF InRx
  <2>9. 0 = Weight(l, Inside) - Weight(k, Inside) /\ 0 = Weight(l, Claims) - Weight(k, Claims)
    BY <2>3 DEF Claims, Inside, InRx, Weight
  <2>10. /\ lock' = (IF l = "rx" THEN t ELSE IF k = "rx" THEN "free" ELSE lock)
         /\ l = "rx" => k = "rx" \/ lock = "free"
         /\ l \in {"rx", "indicate"} \/ batch[t] = << >>
    BY <1>1, <2>1, <2>3, <2>4
  <2> QED BY <2>6, <2>7, <2>8, <2>9, <2>10, ThreadGoes
<1>10. CASE Leave(t)
  <2>1. PICK k \in {"leave"} : pc[t] = k
    BY <1>10 DEF Leave
  <2>2. PICK l : l = (IF restart[t] /\ t # "hang" THEN "set_timer" ELSE "idle")
    OBVIOUS
  <2>3. l \in {"set_timer", "idle"} /\ pc' = [pc EXCEPT ![t] = l]
    BY <1>10, <2>1, <2>2 DEF Leave
  <2>4. lock' = lock /\ UNCHANGED Shared
    BY <1>10 DEF Leave, Shared, ringVars, bufVars, gateVars, pauseVars, powerVars
  <2>5. counterDPCInside' = counterDPCInside - 1 /\ dpcReceiveActive' = dpcReceiveActive
    BY <1>2, <1>10, <2>1 DEF Leave, gateVars
  <2>6. Goes(t, k, l, -1, 0)
    BY <1>2, <2>1, <2>3, <2>4, <2>5 DEF Goes
  <2>7. k \in Labels /\ l \in Labels /\ (l \in Owns => k \in Owns \/ dpcReceiveActive = 0)
    BY <2>3 DEF Labels, Claims, Owns, InRx
  <2>8. powerPc \in Down /\ l \in InRx => k \in InRx
    BY <1>1, <2>3 DEF InRx
  <2>9. -1 = Weight(l, Inside) - Weight(k, Inside) /\ 0 = Weight(l, Claims) - Weight(k, Claims)
    BY <2>3 DEF Claims, Inside, InRx, Weight
  <2>10. /\ lock' = (IF l = "rx" THEN t ELSE IF k = "rx" THEN "free" ELSE lock)
         /\ l = "rx" => k = "rx" \/ lock = "free"
         /\ l \in {"rx", "indicate"} \/ batch[t] = << >>
    BY <1>1, <2>1, <2>3, <2>4
  <2> QED BY <2>6, <2>7, <2>8, <2>9, <2>10, ThreadGoes
<1>11. CASE SetTimer(t)
  <2>1. PICK k \in {"set_timer"} : pc[t] = k
    BY <1>11 DEF SetTimer
  <2>2. PICK l \in {"idle"} : pc' = [pc EXCEPT ![t] = l]
    BY <1>11 DEF SetTimer
  <2>3. lock' = lock /\ UNCHANGED Shared
    BY <1>11 DEF SetTimer, Shared, ringVars, bufVars, gateVars, pauseVars, powerVars
  <2>4. counterDPCInside' = counterDPCInside /\ dpcReceiveActive' = dpcReceiveActive
    BY <1>2, <1>11, <2>1 DEF SetTimer, gateVars
  <2>5. Goes(t, k, l, 0, 0)
    BY <1>2, <2>1, <2>2, <2>3, <2>4 DEF Goes
  <2>6. k \in Labels /\ l \in Labels /\ (l \in Owns => k \in Owns \/ dpcReceiveActive = 0)
    BY <2>2 DEF Labels, Claims, Owns, InRx
  <2>7. powerPc \in Down /\ l \in InRx => k \in InRx
    BY <1>1, <2>2 DEF InRx
  <2>8. 0 = Weight(l, Inside) - Weight(k, Inside) /\ 0 = Weight(l, Claims) - Weight(k, Claims)
    BY <2>2 DEF Claims, Inside, InRx, Weight
  <2>9. /\ lock' = (IF l = "rx" THEN t ELSE IF k = "rx" THEN "free" ELSE lock)
        /\ l = "rx" => k = "rx" \/ lock = "free"
        /\ l \in {"rx", "indicate"} \/ batch[t] = << >>
    BY <1>1, <2>1, <2>2, <2>3
  <2> QED BY <2>5, <2>6, <2>7, <2>8, <2>9, ThreadGoes
<1>12. CASE LockReceive(t)
  <2>1. PICK k \in {"enter_rx", "relock"} : pc[t] = k
    BY <1>12 DEF LockReceive
  <2>2. PICK l \in {"rx"} : pc' = [pc EXCEPT ![t] = l]
    BY <1>12 DEF LockReceive
  <2>3. lock' = t /\ UNCHANGED Shared
    BY <1>12 DEF LockReceive, Shared, ringVars, bufVars, gateVars, pauseVars, powerVars
  <2>4. counterDPCInside' = counterDPCInside /\ dpcReceiveActive' = dpcReceiveActive
    BY <1>2, <1>12, <2>1 DEF LockReceive, gateVars
  <2>5. Goes(t, k, l, 0, 0)
    BY <1>2, <2>1, <2>2, <2>3, <2>4 DEF Goes
  <2>6. k \in Labels /\ l \in Labels /\ (l \in Owns => k \in Owns \/ dpcReceiveActive = 0)
    BY <2>2 DEF Labels, Claims, Owns, InRx
  <2>7. powerPc \in Down /\ l \in InRx => k \in InRx
    BY <1>1, <2>2 DEF InRx
  <2>8. 0 = Weight(l, Inside) - Weight(k, Inside) /\ 0 = Weight(l, Claims) - Weight(k, Claims)
    BY <2>2 DEF Claims, Inside, InRx, Weight
  <2>9. /\ lock' = (IF l = "rx" THEN t ELSE IF k = "rx" THEN "free" ELSE lock)
        /\ l = "rx" => k = "rx" \/ lock = "free"
        /\ l \in {"rx", "indicate"} \/ batch[t] = << >>
    BY <1>1, <1>12, <2>1, <2>2, <2>3 DEF LockReceive
  <2> QED BY <2>5, <2>6, <2>7, <2>8, <2>9, ThreadGoes
<1>13. CASE EndOfRx(t)
  <2>1. PICK k \in {"rx"} : pc[t] = k
    BY <1>13 DEF EndOfRx
  <2>2. PICK l : l = (IF batch[t] = << >> THEN "unclaim" ELSE "indicate")
    OBVIOUS
  <2>3. l \in {"unclaim", "indicate"} /\ pc' = [pc EXCEPT ![t] = l] /\ (l = "indicate" \/ batch[t] = << >>)
    BY <1>13, <2>1, <2>2 DEF EndOfRx
  <2>4. lock' = "free" /\ UNCHANGED Shared
    BY <1>13 DEF EndOfRx, Shared, ringVars, bufVars, gateVars, pauseVars, powerVars
  <2>5. counterDPCInside' = counterDPCInside /\ dpcReceiveActive' = dpcReceiveActive
    BY <1>2, <1>13, <2>1 DEF EndOfRx, gateVars
  <2>6. Goes(t, k, l, 0, 0)
    BY <1>2, <2>1, <2>3, <2>4, <2>5 DEF Goes
  <2>7. k \in Labels /\ l \in Labels /\ (l \in Owns => k \in Owns \/ dpcReceiveActive = 0)
    BY <2>3 DEF Labels, Claims, Owns, InRx
  <2>8. powerPc \in Down /\ l \in InRx => k \in InRx
    BY <1>1, <2>3 DEF InRx
  <2>9. 0 = Weight(l, Inside) - Weight(k, Inside) /\ 0 = Weight(l, Claims) - Weight(k, Claims)
    BY <2>3 DEF Claims, Inside, InRx, Weight
  <2>10. /\ lock' = (IF l = "rx" THEN t ELSE IF k = "rx" THEN "free" ELSE lock)
         /\ l = "rx" => k = "rx" \/ lock = "free"
         /\ l \in {"rx", "indicate"} \/ batch[t] = << >>
    BY <1>1, <2>1, <2>3, <2>4
  <2> QED BY <2>6, <2>7, <2>8, <2>9, <2>10, ThreadGoes
<1> QED BY <1>3, <1>4, <1>5, <1>6, <1>7, <1>8, <1>9, <1>10, <1>11, <1>12, <1>13

(* Steps that leave the threads, the lock and the gate as they are.        *)
LEMMA GateKept ==
  ASSUME GateInv, UNCHANGED << pc, lock, counterDPCInside, dpcReceiveActive, bEnableInterruptHandlingDPC,
                               ring, powerPc >>
  PROVE  GateInv'
BY DEF GateInv, Number, One

(* Steps that touch neither buffers nor threads.                           *)
LEMMA QuietStep ==
  ASSUME ReceiveInv,
         UNCHANGED << posted, used, frame, waiting, atNdis, indicated, pauseVars, gateVars, powerPc, ring,
                      batch, pc, lock >>
  PROVE  ReceiveInv'
<1>1. GateInv'
  BY GateKept DEF ReceiveInv, gateVars
<1>2. Types' /\ PauseInv'
  BY DEF ReceiveInv, Types, PauseInv, pauseVars
<1>3. RoundInv' /\ OrderInv'
  BY DEF ReceiveInv, RoundInv, OrderInv, UsedBufs, BatchBufs
<1> QED BY <1>1, <1>2, <1>3 DEF ReceiveInv

LEMMA SeqOfSet ==
  ASSUME NEW S, IsFiniteSet(S)
  PROVE  /\ SetToSeq(S) \in Seq(S)
         /\ \A i, j \in 1 .. Len(SetToSeq(S)) : SetToSeq(S)[i] = SetToSeq(S)[j] => i = j
         /\ \A b \in S : \E i \in 1 .. Len(SetToSeq(S)) : SetToSeq(S)[i] = b
<1>1. Cardinality(S) \in Nat /\ \E g \in [1 .. Cardinality(S) -> S] : IsInjective(g)
  BY FS_CardinalityType DEF ExistsBijection, Bijection, Injection
<1>2. PICK f : f = SetToSeq(S)
  OBVIOUS
<1>3. f \in [1 .. Cardinality(S) -> S] /\ IsInjective(f)
  BY <1>1, <1>2, Zenon DEF SetToSeq
<1>4. IsFiniteSet(1 .. Cardinality(S)) /\ Cardinality(1 .. Cardinality(S)) = Cardinality(S)
  BY <1>1, FS_Interval
<1>5. f \in Injection(1 .. Cardinality(S), S)
  BY <1>3 DEF Injection
<1>6. f \in Surjection(1 .. Cardinality(S), S)
  BY <1>4, <1>5, FS_Injection
<1>7. f \in Seq(S) /\ Len(f) = Cardinality(S)
  BY <1>1, <1>3
<1> QED BY <1>2, <1>3, <1>6, <1>7 DEF IsInjective, Surjection

LEMMA FinishStep ==
  ASSUME IsFiniteSet(Buffers), ReceiveInv, FinishInitialization
  PROVE  ReceiveInv'
<1>1. /\ powerPc = "new" /\ powerPc' = "on" /\ ring' = TRUE /\ bEnableInterruptHandlingDPC' = TRUE
      /\ posted' = SetToSeq(Buffers)
      /\ UNCHANGED << used, frame, waiting, atNdis, indicated, batch, pc, lock, counterDPCInside,
                      dpcReceiveActive, ReceiveState, pauseProc, ResetEvent >>
  BY DEF FinishInitialization, bufVars, pauseVars, callVars
<1>2. posted = << >> /\ used = << >> /\ waiting = {}
  BY <1>1 DEF ReceiveInv, PauseInv
<1>3. Types'
  BY <1>1, SeqOfSet DEF ReceiveInv, Types
<1>4. GateInv'
  BY <1>1 DEF ReceiveInv, GateInv, Number, One, Down
<1>5. PauseInv'
  BY <1>1 DEF ReceiveInv, PauseInv
<1>6. UsedBufs = {} /\ UsedBufs' = {}
  BY <1>1, <1>2 DEF UsedBufs
<1>7. RoundInv'
  BY <1>1, <1>2, <1>6, SeqOfSet DEF ReceiveInv, RoundInv, BatchBufs
<1>8. OrderInv'
  BY <1>1 DEF ReceiveInv, OrderInv
<1> QED BY <1>3, <1>4, <1>5, <1>7, <1>8 DEF ReceiveInv

LEMMA DeviceStep ==
  ASSUME ReceiveInv, DeviceReceives
  PROVE  ReceiveInv'
<1>1. /\ posted # << >> /\ posted' = Tail(posted) /\ frame' = frame + 1
      /\ used' = Append(used, [buf |-> Head(posted), frame |-> frame])
      /\ UNCHANGED << waiting, atNdis, indicated, batch, pc, lock, counterDPCInside, dpcReceiveActive,
                      bEnableInterruptHandlingDPC, ring, powerPc, ReceiveState, pauseProc, ResetEvent >>
  BY DEF DeviceReceives, bufVars, pauseVars, powerVars, gateVars, callVars
<1>2. PICK m \in Nat, n \in Nat : m = Len(posted) /\ n = Len(used)
  BY LenProperties DEF ReceiveInv, Types
<1>3. PICK e \in Used : e = [buf |-> posted[1], frame |-> frame]
  BY <1>1, Tail1 DEF ReceiveInv, Types, Used
<1>4. /\ m >= 1 /\ posted[1] \in Buffers /\ posted' \in Seq(Buffers) /\ Len(posted') = m - 1
      /\ \A i \in 1 .. m - 1 : posted'[i] = posted[i + 1]
  BY <1>1, <1>2, Tail1 DEF ReceiveInv, Types
<1>5. /\ used' \in Seq(Used) /\ Len(used') = n + 1 /\ used'[n + 1] = e
      /\ \A i \in 1 .. n : used'[i] = used[i] /\ used[i] \in Used
  BY <1>1, <1>2, <1>3, Append1, Tail1 DEF ReceiveInv, Types
<1>6. UsedBufs' = UsedBufs \cup {posted[1]}
  BY <1>2, <1>3, <1>5 DEF UsedBufs
<1>7. Types'
  BY <1>1, <1>4, <1>5 DEF ReceiveInv, Types
<1>8. GateInv' /\ PauseInv'
  BY <1>1, GateKept DEF ReceiveInv, PauseInv, GateInv, Down
<1>9. RoundInv'
  <2>1. \A i, j \in 1 .. Len(posted') : posted'[i] = posted'[j] => i = j
    BY <1>2, <1>4 DEF ReceiveInv, RoundInv
  <2>2. posted[1] \notin UsedBufs \cup waiting
    BY <1>2, <1>4 DEF ReceiveInv, RoundInv
  <2>3. \A i, j \in 1 .. Len(used') : used'[i].buf = used'[j].buf => i = j
    <3>1. \A i \in 1 .. n : used[i].buf \in UsedBufs
      BY <1>2 DEF UsedBufs
    <3>2. \A i, j \in 1 .. n : used[i].buf = used[j].buf => i = j
      BY <1>2 DEF ReceiveInv, RoundInv
    <3> QED BY <1>3, <1>5, <2>2, <3>1, <3>2
  <2>4. \A i \in 1 .. Len(posted') : posted'[i] \notin UsedBufs' \cup waiting'
    BY <1>1, <1>2, <1>4, <1>6 DEF ReceiveInv, RoundInv
  <2>5. UsedBufs' \cap waiting' = {}
    BY <1>1, <1>6, <2>2 DEF ReceiveInv, RoundInv
  <2>6. powerPc' # "new" =>
          \A b \in Buffers : b \in waiting' \cup UsedBufs' \/ \E i \in 1 .. Len(posted') : posted'[i] = b
    <3> SUFFICES ASSUME powerPc # "new", NEW b \in Buffers, b \notin waiting \cup UsedBufs'
                 PROVE  \E i \in 1 .. Len(posted') : posted'[i] = b
      BY <1>1
    <3>1. PICK i \in 1 .. m : posted[i] = b
      BY <1>2, <1>6 DEF ReceiveInv, RoundInv
    <3>2. i # 1 /\ i - 1 \in 1 .. m - 1
      BY <1>2, <1>4, <1>6, <3>1
    <3> QED BY <1>4, <3>1, <3>2
  <2>7. \A t \in Threads : batch'[t] # << >> => pc'[t] \in {"rx", "indicate"}
    BY <1>1 DEF ReceiveInv, RoundInv
  <2>8. /\ \A b \in Buffers : b \in waiting' <=> b \in atNdis' \/ \E t \in Threads : b \in BatchBufs(t)'
        /\ \A t \in Threads : atNdis' \cap BatchBufs(t)' = {}
    <3>1. waiting' = waiting /\ atNdis' = atNdis /\ \A t : BatchBufs(t)' = BatchBufs(t)
      BY <1>1 DEF BatchBufs
    <3>2. /\ \A b \in Buffers : b \in waiting <=> b \in atNdis \/ \E t \in Threads : b \in BatchBufs(t)
          /\ \A t \in Threads : atNdis \cap BatchBufs(t) = {}
      BY Zenon DEF ReceiveInv, RoundInv
    <3> QED BY <3>1, <3>2
  <2>9. powerPc' = powerPc
    BY <1>1
  <2> QED BY <2>1, <2>3, <2>4, <2>5, <2>6, <2>7, <2>8, <2>9 DEF RoundInv
<1>10. OrderInv'
  <2>1. frame \in Nat /\ frame' = frame + 1 /\ e.frame = frame /\ \A i \in 1 .. n : used[i].frame \in Nat
    <3>1. frame \in Nat /\ used \in Seq(Used)
      BY DEF ReceiveInv, Types
    <3>2. e.frame = frame
      BY <1>3
    <3> QED BY <1>1, <1>2, <3>1, <3>2, FramesOf
  <2>2. \A i \in 1 .. Len(indicated) : indicated[i] \in Nat
    BY ElementOfSeq DEF ReceiveInv, Types
  <2>3. \A t \in Threads : \A i \in 1 .. Len(batch[t]) : batch[t][i].frame \in Nat
    <3>1. \A t \in Threads : batch[t] \in Seq(Used)
      BY DEF ReceiveInv, Types
    <3> QED BY <3>1, FramesOf
  <2>4. \A i, j \in 1 .. Len(used') : i < j => used'[i].frame < used'[j].frame
    <3>1. /\ \A i, j \in 1 .. n : i < j => used[i].frame < used[j].frame
          /\ \A i \in 1 .. n : used[i].frame < frame
      BY <1>2 DEF ReceiveInv, OrderInv
    <3> SUFFICES ASSUME NEW i \in 1 .. n + 1, NEW j \in 1 .. n + 1, i < j
                 PROVE  used'[i].frame < used'[j].frame
      BY <1>5
    <3>2. i \in 1 .. n /\ (j \in 1 .. n \/ j = n + 1)
      BY <1>2
    <3> QED BY <1>5, <2>1, <3>1, <3>2
  <2>5. \A i \in 1 .. Len(used') : used'[i].frame < frame'
    BY <1>2, <1>5, <2>1 DEF ReceiveInv, OrderInv
  <2>6. \A i \in 1 .. Len(indicated) :
          indicated[i] < frame' /\ \A j \in 1 .. Len(used') : indicated[i] < used'[j].frame
    BY <1>2, <1>5, <2>1, <2>2 DEF ReceiveInv, OrderInv
  <2>7. ASSUME NEW t \in Threads, NEW i \in 1 .. Len(batch[t])
        PROVE  /\ \A j \in 1 .. Len(batch[t]) : i < j => batch[t][i].frame < batch[t][j].frame
               /\ \A j \in 1 .. Len(indicated) : indicated[j] < batch[t][i].frame
               /\ \A j \in 1 .. Len(used') : batch[t][i].frame < used'[j].frame
               /\ batch[t][i].frame < frame'
    <3>1. /\ \A j \in 1 .. Len(batch[t]) : i < j => batch[t][i].frame < batch[t][j].frame
          /\ \A j \in 1 .. Len(indicated) : indicated[j] < batch[t][i].frame
          /\ \A j \in 1 .. n : batch[t][i].frame < used[j].frame
          /\ batch[t][i].frame < frame
      BY <1>2 DEF ReceiveInv, OrderInv
    <3>2. \A j \in 1 .. Len(used') : (j \in 1 .. n /\ used'[j] = used[j]) \/ used'[j] = e
      BY <1>2, <1>5
    <3>3. batch[t][i].frame \in Nat
      BY <2>3
    <3> QED BY <2>1, <3>1, <3>2, <3>3
  <2>8. \A i, j \in 1 .. Len(indicated) : i < j => indicated[i] < indicated[j]
    BY DEF ReceiveInv, OrderInv
  <2> QED BY <1>1, <2>4, <2>5, <2>6, <2>7, <2>8 DEF OrderInv
<1> QED BY <1>7, <1>8, <1>9, <1>10 DEF ReceiveInv

(* The work items, which leave the buffers and the threads alone.          *)
LEMMA RoundKept ==
  ASSUME Types, RoundInv, OrderInv, powerPc # "new",
         powerPc' \in {"on", "suspend", "prevent", "drain", "resume"} \cup Down,
         UNCHANGED << posted, used, frame, waiting, atNdis, indicated, batch, pc >>
  PROVE  Types' /\ RoundInv' /\ OrderInv'
<1>1. Types'
  BY DEF Types
<1>2. RoundInv'
  BY DEF RoundInv, UsedBufs, BatchBufs
<1>3. OrderInv'
  BY DEF OrderInv
<1> QED BY <1>1, <1>2, <1>3

LEMMA PowerSteps ==
  ASSUME ReceiveInv,
         \/ \E reason \in {"reset", "power", "halt"} : Suspend(reason)
         \/ Suspended \/ Prevent \/ Drained \/ PowerOn \/ Resume
  PROVE  ReceiveInv'
<1> USE DEF ReceiveInv
<1>1. /\ UNCHANGED << posted, used, frame, waiting, atNdis, indicated, batch, pc, lock, counterDPCInside,
                      dpcReceiveActive >>
      /\ powerPc \in {"on", "suspend", "prevent", "drain", "resume", "off"}
      /\ powerPc' \in {"on", "suspend", "prevent", "drain", "resume", "delete"}
  BY DEF Suspend, Suspended, Prevent, Drained, PowerOn, Resume, ringVars, bufVars, gateVars, callVars
<1>2. Types' /\ RoundInv' /\ OrderInv'
  BY <1>1, RoundKept DEF Down
<1>3. /\ counterDPCInside' = Number(Inside)' /\ dpcReceiveActive' = Number(Claims)'
      /\ \A t, u \in Threads : pc'[t] \in Owns /\ pc'[u] \in Owns => t = u
      /\ \A t \in Threads : lock' = t <=> pc'[t] = "rx"
  BY <1>1 DEF GateInv, Number, One
<1>4. bEnableInterruptHandlingDPC' = (powerPc' \notin Down \cup {"drain"})
  BY DEF GateInv, Down, Suspend, Suspended, Prevent, Drained, PowerOn, Resume, gateVars
<1>5. ring' = (powerPc' \notin {"new", "off", "halted"})
  BY DEF GateInv, Down, Suspend, Suspended, Prevent, Drained, PowerOn, Resume, ringVars
<1>6. powerPc' \in Down => \A t \in Threads : pc'[t] \notin InRx
  <2> SUFFICES ASSUME powerPc' \in Down, NEW t \in Threads PROVE pc[t] \notin InRx
    BY <1>1
  <2>1. Drained
    BY <1>1 DEF Down, Suspend, Suspended, Prevent, PowerOn, Resume
  <2>2. Number(Inside) = 0
    BY <2>1 DEF Drained, GateInv
  <2> QED BY <2>2, NumberZero DEF Inside
<1>7. GateInv'
  BY <1>3, <1>4, <1>5, <1>6 DEF GateInv
<1>8. PauseInv'
  BY <1>1 DEF PauseInv, Suspend, Suspended, Prevent, Drained, PowerOn, Resume, pauseVars, Types
<1> QED BY <1>2, <1>7, <1>8

(* Nobody has a batch when nobody receives, or when somebody else does.    *)
LEMMA BatchOfOwner ==
  ASSUME ReceiveInv, NEW t \in Threads, NEW u \in Threads, t # u, pc[t] \in {"rx", "indicate"}
  PROVE  batch[u] = << >>
BY DEF ReceiveInv, GateInv, RoundInv, Owns, Claims

LEMMA DeleteStep ==
  ASSUME ReceiveInv, DeleteQueues
  PROVE  ReceiveInv'
<1> USE DEF ReceiveInv
<1>1. /\ powerPc = "delete" /\ powerPc' \in {"halted", "off"} /\ ring' = FALSE /\ used' = << >>
      /\ posted' = posted \o [i \in DOMAIN used |-> used[i].buf]
      /\ UNCHANGED << frame, waiting, atNdis, indicated, batch, pc, lock, counterDPCInside, dpcReceiveActive,
                      bEnableInterruptHandlingDPC, ReceiveState, pauseProc, ResetEvent >>
  BY DEF DeleteQueues, bufVars, gateVars, pauseVars, callVars
<1>2. PICK m \in Nat, n \in Nat : m = Len(posted) /\ n = Len(used)
  BY LenProperties DEF Types
<1>3. PICK s \in Seq(Buffers) : /\ s = [i \in DOMAIN used |-> used[i].buf] /\ Len(s) = n
                                 /\ \A i \in 1 .. n : s[i] = used[i].buf /\ used[i].buf \in Buffers
  BY <1>2, BufsOf DEF Types
<1>4. /\ posted' \in Seq(Buffers) /\ Len(posted') = m + n
      /\ \A i \in 1 .. m : posted'[i] = posted[i]
      /\ \A i \in 1 .. n : posted'[m + i] = used[i].buf
  <2>1. posted \in Seq(Buffers) /\ posted' = posted \o s
    BY <1>1, <1>3 DEF Types
  <2>2. /\ posted \o s \in Seq(Buffers) /\ Len(posted \o s) = Len(posted) + Len(s)
        /\ \A i \in 1 .. Len(posted) : (posted \o s)[i] = posted[i]
        /\ \A i \in 1 .. Len(s) : (posted \o s)[Len(posted) + i] = s[i]
    BY <2>1, Concat1
  <2> QED BY <1>2, <1>3, <2>1, <2>2
<1>5. waiting = {} /\ \A t \in Threads : pc[t] \notin InRx
  <2>1. ReceiveState = "disabled"
    BY <1>1 DEF PauseInv
  <2>2. powerPc \in Down
    BY <1>1 DEF Down
  <2> QED BY <2>1, <2>2 DEF PauseInv, GateInv
<1>6. Types'
  BY <1>1, <1>4 DEF Types, Down
<1>7. GateInv'
  BY <1>1, <1>5 DEF GateInv, Number, One, Down
<1>8. PauseInv'
  BY <1>1 DEF PauseInv
<1>9. RoundInv'
  <2>1. UsedBufs' = {}
    BY <1>1 DEF UsedBufs
  <2>2. /\ \A i, j \in 1 .. m : posted[i] = posted[j] => i = j
        /\ \A i, j \in 1 .. n : used[i].buf = used[j].buf => i = j
        /\ \A i \in 1 .. m, j \in 1 .. n : posted[i] # used[j].buf
    BY <1>2 DEF RoundInv, UsedBufs
  <2>3. \A i, j \in 1 .. m + n : posted'[i] = posted'[j] => i = j
    <3> SUFFICES ASSUME NEW i \in 1 .. m + n, NEW j \in 1 .. m + n, posted'[i] = posted'[j] PROVE i = j
      OBVIOUS
    <3>1. i \in 1 .. m \/ \E k \in 1 .. n : i = m + k
      BY MovedUp
    <3>2. j \in 1 .. m \/ \E k \in 1 .. n : j = m + k
      BY MovedUp
    <3>3. CASE i \in 1 .. m /\ j \in 1 .. m
      BY <1>4, <2>2, <3>3
    <3>4. CASE i \in 1 .. m /\ \E k \in 1 .. n : j = m + k
      BY <1>4, <2>2, <3>4
    <3>5. CASE j \in 1 .. m /\ \E k \in 1 .. n : i = m + k
      BY <1>4, <2>2, <3>5
    <3>6. CASE (\E k \in 1 .. n : i = m + k) /\ (\E k \in 1 .. n : j = m + k)
      <4>1. PICK k \in 1 .. n, l \in 1 .. n : i = m + k /\ j = m + l
        BY <3>6
      <4> QED BY <1>4, <2>2, <4>1
    <3> QED BY <3>1, <3>2, <3>3, <3>4, <3>5, <3>6
  <2>4. ASSUME NEW b \in Buffers
        PROVE  \E i \in 1 .. m + n : posted'[i] = b
    <3>1. CASE \E i \in 1 .. m : posted[i] = b
      BY <1>4, <3>1
    <3>2. CASE b \in UsedBufs
      <4>1. PICK i \in 1 .. n : used[i].buf = b
        BY <1>2, <3>2 DEF UsedBufs
      <4>2. m + i \in 1 .. m + n
        OBVIOUS
      <4> QED BY <1>4, <4>1, <4>2
    <3>3. (\E i \in 1 .. m : posted[i] = b) \/ b \in UsedBufs
      BY <1>1, <1>2, <1>5 DEF RoundInv
    <3> QED BY <3>1, <3>2, <3>3
  <2>5. \A t \in Threads : batch[t] # << >> => pc[t] \in {"rx", "indicate"}
    BY DEF RoundInv
  <2>6. /\ \A b \in Buffers : b \in waiting <=> b \in atNdis \/ \E t \in Threads : b \in BatchBufs(t)
        /\ \A t \in Threads : atNdis \cap BatchBufs(t) = {}
    BY DEF RoundInv
  <2>7. /\ \A b \in Buffers : b \in waiting' <=> b \in atNdis' \/ \E t \in Threads : b \in BatchBufs(t)'
        /\ \A t \in Threads : atNdis' \cap BatchBufs(t)' = {}
    BY <1>1, <2>6 DEF BatchBufs
  <2>8. \A i, j \in 1 .. Len(used') : used'[i].buf = used'[j].buf => i = j
    BY <1>1
  <2>9. \A i \in 1 .. Len(posted') : posted'[i] \notin UsedBufs' \cup waiting'
    BY <1>1, <1>5, <2>1
  <2>10. \A b \in Buffers : b \in waiting' \cup UsedBufs' \/ \E i \in 1 .. Len(posted') : posted'[i] = b
    BY <1>4, <2>4
  <2>11. \A i, j \in 1 .. Len(posted') : posted'[i] = posted'[j] => i = j
    BY <1>4, <2>3
  <2>12. UsedBufs' \cap waiting' = {}
    BY <2>1
  <2>13. \A t \in Threads : batch'[t] # << >> => pc'[t] \in {"rx", "indicate"}
    BY <1>1, <2>5
  <2> QED BY <2>7, <2>8, <2>9, <2>10, <2>11, <2>12, <2>13 DEF RoundInv
<1>10. OrderInv'
  BY <1>1 DEF OrderInv
<1> QED BY <1>6, <1>7, <1>8, <1>9, <1>10

(* A buffer goes back to the queue; the last one may end a pause.          *)
LEMMA Reused ==
  ASSUME PauseInv, NEW b, Reuse(b), UNCHANGED powerPc, powerPc # "new"
  PROVE  PauseInv'
<1>1. waiting' = waiting \ {b}
  BY DEF Reuse
<1>2. CASE waiting' = {} /\ (ReceiveState = "pausing" \/ pauseProc)
  BY <1>1, <1>2 DEF PauseInv, Reuse
<1>3. CASE ~(waiting' = {} /\ (ReceiveState = "pausing" \/ pauseProc))
  <2>1. UNCHANGED << ReceiveState, pauseProc, ResetEvent >>
    BY <1>3 DEF Reuse, pauseVars
  <2> QED BY <1>1, <1>3, <2>1 DEF PauseInv
<1> QED BY <1>2, <1>3

LEMMA ReturnStep ==
  ASSUME ReceiveInv, NEW b \in Buffers, ReturnPacket(b)
  PROVE  ReceiveInv'
<1> USE DEF ReceiveInv
<1>1. /\ b \in atNdis /\ atNdis' = atNdis \ {b} /\ waiting' = waiting \ {b} /\ posted' = Append(posted, b)
      /\ UNCHANGED << used, frame, indicated, batch, pc, lock, counterDPCInside, dpcReceiveActive,
                      bEnableInterruptHandlingDPC, ring, powerPc >>
  BY DEF ReturnPacket, Reuse, gateVars, powerVars, callVars
<1>2. PICK m \in Nat : m = Len(posted)
  BY LenProperties DEF Types
<1>3. /\ posted' \in Seq(Buffers) /\ Len(posted') = m + 1 /\ posted'[m + 1] = b
      /\ \A i \in 1 .. m : posted'[i] = posted[i]
  BY <1>1, <1>2, Append1 DEF Types
<1>4. b \in waiting /\ (\A t \in Threads : b \notin BatchBufs(t)) /\ b \notin UsedBufs
  BY <1>1 DEF RoundInv
<1>5. powerPc # "new"
  BY <1>4 DEF PauseInv
<1>6. Types' /\ GateInv' /\ OrderInv'
  BY <1>1, <1>3, GateKept DEF Types, OrderInv
<1>7. PauseInv'
  BY <1>1, <1>5, Reused DEF ReturnPacket
<1>8. RoundInv'
  <2>1. \A i, j \in 1 .. Len(posted') : posted'[i] = posted'[j] => i = j
    <3>1. \A i \in 1 .. m : posted[i] # b /\ \A j \in 1 .. m : posted[i] = posted[j] => i = j
      BY <1>2, <1>4 DEF RoundInv
    <3> QED BY <1>2, <1>3, <3>1
  <2>2. \A i, j \in 1 .. Len(used') : used'[i].buf = used'[j].buf => i = j
    BY <1>1 DEF RoundInv
  <2>3. UsedBufs' = UsedBufs /\ \A t \in Threads : BatchBufs(t)' = BatchBufs(t)
    BY <1>1 DEF UsedBufs, BatchBufs
  <2>4. \A i \in 1 .. Len(posted') : posted'[i] \notin UsedBufs' \cup waiting'
    <3>1. \A i \in 1 .. m : posted[i] \notin UsedBufs \cup waiting
      BY <1>2 DEF RoundInv
    <3> QED BY <1>1, <1>2, <1>3, <1>4, <2>3, <3>1
  <2>5. UsedBufs' \cap waiting' = {}
    BY <1>1, <2>3 DEF RoundInv
  <2>6. \A t \in Threads : batch'[t] # << >> => pc'[t] \in {"rx", "indicate"}
    BY <1>1 DEF RoundInv
  <2>7. \A c \in Buffers : c \in waiting' <=> c \in atNdis' \/ \E t \in Threads : c \in BatchBufs(t)'
    <3>1. \A c \in Buffers : c \in waiting <=> c \in atNdis \/ \E t \in Threads : c \in BatchBufs(t)
      BY DEF RoundInv
    <3> QED BY <1>1, <1>4, <2>3, <3>1
  <2>8. \A t \in Threads : atNdis' \cap BatchBufs(t)' = {}
    BY <1>1, <2>3 DEF RoundInv
  <2>9. \A c \in Buffers : c \in waiting' \cup UsedBufs' \/ \E i \in 1 .. Len(posted') : posted'[i] = c
    <3>1. \A c \in Buffers : c \in waiting \cup UsedBufs \/ \E i \in 1 .. m : posted[i] = c
      BY <1>2, <1>5 DEF RoundInv
    <3>2. m + 1 \in 1 .. m + 1 /\ \A i \in 1 .. m : i \in 1 .. m + 1
      BY <1>2
    <3> QED BY <1>1, <1>3, <2>3, <3>1, <3>2
  <2> QED BY <2>1, <2>2, <2>4, <2>5, <2>6, <2>7, <2>8, <2>9 DEF RoundInv
<1> QED BY <1>6, <1>7, <1>8

(* The first used buffer is taken.                                         *)
LEMMA Taken ==
  ASSUME ReceiveInv, used # << >>, used' = Tail(used)
  PROVE  /\ Head(used) \in Used /\ Head(used).buf \in Buffers /\ Head(used).frame \in Nat
         /\ used' \in Seq(Used) /\ Len(used') \in Nat
         /\ \A i \in 1 .. Len(used') : i + 1 \in 1 .. Len(used) /\ used'[i] = used[i + 1]
         /\ Head(used).buf \in UsedBufs /\ Head(used).buf \notin UsedBufs'
         /\ UsedBufs = UsedBufs' \cup {Head(used).buf}
         /\ \A i, j \in 1 .. Len(used') : used'[i].buf = used'[j].buf => i = j
         /\ \A i \in 1 .. Len(used') : Head(used).frame < used'[i].frame
         /\ \A i, j \in 1 .. Len(used') : i < j => used'[i].frame < used'[j].frame
         /\ Head(used).frame < frame
<1> USE DEF ReceiveInv
<1>1. PICK n \in Nat : n = Len(used) /\ n >= 1 /\ \A i \in 1 .. n : used[i] \in Used
  BY Tail1, ElementOfSeq DEF Types
<1>2. /\ Head(used) = used[1] /\ used' \in Seq(Used) /\ Len(used') = n - 1
      /\ \A i \in 1 .. n - 1 : used'[i] = used[i + 1]
  BY <1>1, Tail1 DEF Types
<1>3. /\ \A i, j \in 1 .. n : used[i].buf = used[j].buf => i = j
      /\ \A i, j \in 1 .. n : i < j => used[i].frame < used[j].frame
      /\ \A i \in 1 .. n : used[i].frame < frame
  BY <1>1 DEF RoundInv, OrderInv
<1>4. UsedBufs = {used[i].buf : i \in 1 .. n} /\ UsedBufs' = {used'[i].buf : i \in 1 .. n - 1}
  BY <1>1, <1>2 DEF UsedBufs
<1>5. \A i \in 1 .. n - 1 : i + 1 \in 1 .. n /\ i + 1 # 1 /\ 1 < i + 1
  BY <1>1
<1>6. \A i \in 1 .. n : i = 1 \/ (i - 1 \in 1 .. n - 1 /\ (i - 1) + 1 = i)
  BY <1>1
<1>7. Head(used) \in Used /\ Head(used).buf \in Buffers /\ Head(used).frame \in Nat /\ Head(used).frame < frame
  BY <1>1, <1>2, <1>3 DEF Used
<1>8. Head(used).buf \in UsedBufs
  BY <1>1, <1>2, <1>4
<1>9. Head(used).buf \notin UsedBufs'
  BY <1>1, <1>2, <1>3, <1>4, <1>5
<1>10. UsedBufs = UsedBufs' \cup {Head(used).buf}
  <2>1. \A i \in 1 .. n : used[i].buf \in UsedBufs' \cup {Head(used).buf}
    <3>1. ASSUME NEW i \in 1 .. n, i # 1 PROVE used[i].buf \in UsedBufs'
      <4>1. i - 1 \in 1 .. n - 1 /\ (i - 1) + 1 = i
        BY <1>6, <3>1, Zenon
      <4>2. used'[i - 1] = used[i]
        BY <1>2, <4>1
      <4> QED BY <1>4, <4>1, <4>2
    <3> QED BY <1>2, <3>1
  <2>2. \A i \in 1 .. n - 1 : used'[i].buf \in UsedBufs
    BY <1>2, <1>4, <1>5
  <2> QED BY <1>4, <1>8, <2>1, <2>2
<1>11. \A i, j \in 1 .. n - 1 : /\ used'[i].buf = used'[j].buf => i = j
                                /\ i < j => used'[i].frame < used'[j].frame
  <2> SUFFICES ASSUME NEW i \in 1 .. n - 1, NEW j \in 1 .. n - 1
               PROVE  /\ used'[i].buf = used'[j].buf => i = j
                      /\ i < j => used'[i].frame < used'[j].frame
    OBVIOUS
  <2>1. (i + 1 = j + 1 => i = j) /\ (i < j => i + 1 < j + 1)
    BY <1>1
  <2> QED BY <1>2, <1>3, <1>5, <2>1
<1>12. \A i \in 1 .. n - 1 : Head(used).frame < used'[i].frame
  BY <1>1, <1>2, <1>3, <1>5
<1>13. Len(used') \in Nat /\ \A i \in 1 .. Len(used') : i + 1 \in 1 .. Len(used) /\ used'[i] = used[i + 1]
  BY <1>1, <1>2, <1>5
<1>14. /\ \A i, j \in 1 .. Len(used') : used'[i].buf = used'[j].buf => i = j
       /\ \A i \in 1 .. Len(used') : Head(used).frame < used'[i].frame
       /\ \A i, j \in 1 .. Len(used') : i < j => used'[i].frame < used'[j].frame
  BY <1>2, <1>11, <1>12
<1> QED BY <1>2, <1>7, <1>8, <1>9, <1>10, <1>13, <1>14

LEMMA DropStep ==
  ASSUME ReceiveInv, NEW t \in Threads, pc[t] = "rx", used # << >>, used' = Tail(used), Reuse(Head(used).buf),
         UNCHANGED << frame, indicated, batch, pc, lock, gateVars, ring, powerPc, atNdis >>
  PROVE  ReceiveInv'
<1> USE DEF ReceiveInv
<1>1. PICK b \in Buffers : b = Head(used).buf
  BY Taken
<1>2. PICK m \in Nat : m = Len(posted)
  BY LenProperties DEF Types
<1>3. b \in UsedBufs /\ b \notin UsedBufs' /\ UsedBufs = UsedBufs' \cup {b}
  BY <1>1, Taken
<1>4. b \notin waiting /\ waiting' = waiting /\ posted' = Append(posted, b)
  BY <1>1, <1>3 DEF RoundInv, Reuse
<1>5. /\ posted' \in Seq(Buffers) /\ Len(posted') = m + 1 /\ posted'[m + 1] = b
      /\ \A i \in 1 .. m : posted'[i] = posted[i]
  BY <1>1, <1>2, <1>4, Append1 DEF Types
<1>6. powerPc # "new"
  BY DEF PauseInv
<1>7. Types'
  BY <1>4, <1>5, Taken DEF Types
<1>8. GateInv'
  BY GateKept DEF gateVars
<1>9. PauseInv'
  BY <1>1, <1>6, Reused
<1>10. RoundInv'
  <2>1. \A i, j \in 1 .. Len(posted') : posted'[i] = posted'[j] => i = j
    <3>1. \A i \in 1 .. m : posted[i] # b /\ \A j \in 1 .. m : posted[i] = posted[j] => i = j
      BY <1>2, <1>3 DEF RoundInv
    <3> QED BY <1>2, <1>5, <3>1
  <2>2. \A i, j \in 1 .. Len(used') : used'[i].buf = used'[j].buf => i = j
    BY Taken
  <2>3. \A i \in 1 .. Len(posted') : posted'[i] \notin UsedBufs' \cup waiting'
    <3>1. \A i \in 1 .. m : posted[i] \notin UsedBufs \cup waiting
      BY <1>2 DEF RoundInv
    <3> QED BY <1>2, <1>3, <1>4, <1>5, <3>1
  <2>4. UsedBufs' \cap waiting' = {}
    BY <1>3, <1>4 DEF RoundInv
  <2>5. \A u \in Threads : batch'[u] # << >> => pc'[u] \in {"rx", "indicate"}
    BY DEF RoundInv
  <2>6. /\ \A c \in Buffers : c \in waiting' <=> c \in atNdis' \/ \E u \in Threads : c \in BatchBufs(u)'
        /\ \A u \in Threads : atNdis' \cap BatchBufs(u)' = {}
    BY <1>4 DEF RoundInv, BatchBufs
  <2>7. \A c \in Buffers : c \in waiting' \cup UsedBufs' \/ \E i \in 1 .. Len(posted') : posted'[i] = c
    <3>1. \A c \in Buffers : c \in waiting \cup UsedBufs \/ \E i \in 1 .. m : posted[i] = c
      BY <1>2, <1>6 DEF RoundInv
    <3>2. m + 1 \in 1 .. m + 1 /\ \A i \in 1 .. m : i \in 1 .. m + 1
      BY <1>2
    <3> QED BY <1>3, <1>4, <1>5, <3>1, <3>2
  <2> QED BY <2>1, <2>2, <2>3, <2>4, <2>5, <2>6, <2>7 DEF RoundInv
<1>11. OrderInv'
  <2>1. \A i \in 1 .. Len(used') : i + 1 \in 1 .. Len(used) /\ used'[i] = used[i + 1]
    BY Taken
  <2>2. \A i, j \in 1 .. Len(used') : i < j => used'[i].frame < used'[j].frame
    BY Taken
  <2>3. /\ \A i \in 1 .. Len(indicated), j \in 1 .. Len(used') : indicated[i] < used'[j].frame
        /\ \A i \in 1 .. Len(used') : used'[i].frame < frame
    BY <2>1 DEF OrderInv
  <2>4. ASSUME NEW u \in Threads, NEW i \in 1 .. Len(batch[u])
        PROVE  /\ \A j \in 1 .. Len(batch[u]) : i < j => batch[u][i].frame < batch[u][j].frame
               /\ \A j \in 1 .. Len(indicated) : indicated[j] < batch[u][i].frame
               /\ \A j \in 1 .. Len(used') : batch[u][i].frame < used'[j].frame
               /\ batch[u][i].frame < frame
    BY <2>1 DEF OrderInv
  <2>5. /\ \A i, j \in 1 .. Len(indicated) : i < j => indicated[i] < indicated[j]
        /\ \A i \in 1 .. Len(indicated) : indicated[i] < frame
    BY DEF OrderInv
  <2> QED BY <2>2, <2>3, <2>4, <2>5 DEF OrderInv
<1> QED BY <1>7, <1>8, <1>9, <1>10, <1>11

LEMMA PassStep ==
  ASSUME ReceiveInv, NEW t \in Threads, pc[t] = "rx", used # << >>, used' = Tail(used),
         ReceiveState = "enabled", waiting' = waiting \cup {Head(used).buf},
         batch' = [batch EXCEPT ![t] = Append(@, Head(used))],
         UNCHANGED << lock, pc >> \/ (lock' = "free" /\ pc' = [pc EXCEPT ![t] = "indicate"]),
         UNCHANGED << posted, frame, indicated, atNdis, gateVars, ring, powerPc, pauseVars >>
  PROVE  ReceiveInv'
<1> USE DEF ReceiveInv
<1>1. PICK e \in Used : e = Head(used) /\ e.buf \in Buffers /\ e.frame \in Nat
  BY Taken
<1>2. PICK k \in Nat : k = Len(batch[t])
  BY LenProperties DEF Types
<1>3. batch[t] \in Seq(Used) /\ batch'[t] = Append(batch[t], e) /\ \A u \in Threads \ {t} : batch'[u] = batch[u]
  BY <1>1 DEF Types
<1>4. /\ batch'[t] \in Seq(Used) /\ Len(batch'[t]) = k + 1 /\ batch'[t][k + 1] = e
      /\ \A i \in 1 .. k : batch'[t][i] = batch[t][i]
  BY <1>1, <1>2, <1>3, Append1
<1>5. \A u \in Threads \ {t} : batch[u] = << >>
  BY BatchOfOwner
<1>6. pc' \in [Threads -> Labels] /\ pc'[t] \in {"rx", "indicate"} /\ \A u \in Threads \ {t} : pc'[u] = pc[u]
  BY DEF Types, Labels, InRx
<1>7. Types'
  <2>1. used' \in Seq(Used)
    BY Taken
  <2>2. batch' \in [Threads -> Seq(Used)]
    BY <1>1, <1>3, <1>4 DEF Types
  <2> QED BY <1>1, <1>6, <2>1, <2>2 DEF Types
<1>8. GateInv'
  <2>1. CASE UNCHANGED << lock, pc >>
    BY <2>1, GateKept DEF gateVars
  <2>2. CASE lock' = "free" /\ pc' = [pc EXCEPT ![t] = "indicate"]
    <3>1. One(t, Inside) = 1 /\ One(t, Claims) = 1
      BY DEF One, Inside, InRx, Claims
    <3>2. counterDPCInside \in Nat /\ dpcReceiveActive \in Nat
      BY DEF GateInv, Number, One
    <3>3. /\ "indicate" \in Labels /\ "indicate" \in Inside /\ "indicate" \in Claims
          /\ pc[t] \in Owns /\ pc[t] \in InRx
      BY DEF Labels, Inside, InRx, Claims, Owns
    <3>4. /\ counterDPCInside' = counterDPCInside + (IF "indicate" \in Inside THEN 1 ELSE 0) - One(t, Inside)
          /\ dpcReceiveActive' = dpcReceiveActive + (IF "indicate" \in Claims THEN 1 ELSE 0) - One(t, Claims)
      BY <3>1, <3>2, <3>3 DEF gateVars
    <3> QED BY <2>2, <3>3, <3>4, GateMoved DEF gateVars
  <2> QED BY <2>1, <2>2
<1>9. PauseInv'
  <2>1. powerPc # "new"
    BY DEF GateInv, Down, InRx
  <2> QED BY <2>1 DEF PauseInv, pauseVars
<1>10. RoundInv'
  <2>1. e.buf \in UsedBufs /\ e.buf \notin UsedBufs' /\ UsedBufs = UsedBufs' \cup {e.buf}
    BY <1>1, Taken
  <2>2. e.buf \notin waiting /\ waiting' = waiting \cup {e.buf}
    BY <1>1, <2>1 DEF RoundInv
  <2>3. /\ BatchBufs(t)' = BatchBufs(t) \cup {e.buf}
        /\ \A u \in Threads \ {t} : BatchBufs(u)' = BatchBufs(u)
    <3>1. BatchBufs(t)' = BatchBufs(t) \cup {e.buf}
      <4>1. /\ BatchBufs(t) = {batch[t][i].buf : i \in 1 .. k}
            /\ BatchBufs(t)' = {batch'[t][i].buf : i \in 1 .. k + 1}
        BY <1>2, <1>4 DEF BatchBufs
      <4>2. \A i \in 1 .. k + 1 : batch'[t][i].buf \in BatchBufs(t) \cup {e.buf}
        BY <1>4, <4>1
      <4>3. \A i \in 1 .. k : i \in 1 .. k + 1 /\ batch[t][i].buf \in BatchBufs(t)'
        BY <1>4, <4>1
      <4>4. k + 1 \in 1 .. k + 1 /\ e.buf \in BatchBufs(t)'
        BY <1>4, <4>1
      <4>5. \A c \in BatchBufs(t)' : c \in BatchBufs(t) \cup {e.buf}
        BY <4>1, <4>2
      <4>6. \A c \in BatchBufs(t) : c \in BatchBufs(t)'
        BY <4>1, <4>3
      <4> QED BY <4>4, <4>5, <4>6
    <3> QED BY <1>3, <3>1 DEF BatchBufs
  <2>4. /\ \A i, j \in 1 .. Len(posted') : posted'[i] = posted'[j] => i = j
        /\ \A i \in 1 .. Len(posted') : posted'[i] \notin UsedBufs' \cup waiting'
    BY <2>1, <2>2 DEF RoundInv
  <2>5. \A i, j \in 1 .. Len(used') : used'[i].buf = used'[j].buf => i = j
    BY Taken
  <2>6. UsedBufs' \cap waiting' = {}
    BY <2>1, <2>2 DEF RoundInv
  <2>7. \A u \in Threads : batch'[u] # << >> => pc'[u] \in {"rx", "indicate"}
    BY <1>3, <1>6 DEF RoundInv
  <2>8. /\ \A c \in Buffers : c \in waiting' <=> c \in atNdis' \/ \E u \in Threads : c \in BatchBufs(u)'
        /\ \A u \in Threads : atNdis' \cap BatchBufs(u)' = {}
    <3>1. /\ \A c \in Buffers : c \in waiting <=> c \in atNdis \/ \E u \in Threads : c \in BatchBufs(u)
          /\ \A u \in Threads : atNdis \cap BatchBufs(u) = {}
      BY DEF RoundInv
    <3>2. e.buf \notin atNdis
      BY <1>1, <2>2, <3>1
    <3> QED BY <2>2, <2>3, <3>1, <3>2
  <2>9. powerPc' # "new" =>
          \A c \in Buffers : c \in waiting' \cup UsedBufs' \/ \E i \in 1 .. Len(posted') : posted'[i] = c
    BY <2>1, <2>2 DEF RoundInv
  <2> QED BY <2>4, <2>5, <2>6, <2>7, <2>8, <2>9 DEF RoundInv
<1>11. OrderInv'
  <2>1. /\ \A i \in 1 .. Len(used') : i + 1 \in 1 .. Len(used) /\ used'[i] = used[i + 1]
        /\ \A i, j \in 1 .. Len(used') : i < j => used'[i].frame < used'[j].frame
        /\ \A i \in 1 .. Len(used') : e.frame < used'[i].frame
        /\ e.frame < frame
    BY <1>1, Taken
  <2>2. 1 \in 1 .. Len(used) /\ e = used[1]
    BY <1>1, Tail1 DEF Types
  <2>3. /\ \A i \in 1 .. Len(indicated), j \in 1 .. Len(used') : indicated[i] < used'[j].frame
        /\ \A i \in 1 .. Len(used') : used'[i].frame < frame
        /\ \A i \in 1 .. Len(indicated) : indicated[i] < e.frame
    BY <2>1, <2>2 DEF OrderInv
  <2>4. ASSUME NEW i \in 1 .. k
        PROVE  /\ \A j \in 1 .. k : i < j => batch[t][i].frame < batch[t][j].frame
               /\ \A j \in 1 .. Len(indicated) : indicated[j] < batch[t][i].frame
               /\ \A j \in 1 .. Len(used') : batch[t][i].frame < used'[j].frame
               /\ batch[t][i].frame < frame /\ batch[t][i].frame < e.frame
    BY <1>2, <2>1, <2>2 DEF OrderInv
  <2>5. ASSUME NEW i \in 1 .. k + 1
        PROVE  /\ \A j \in 1 .. k + 1 : i < j => batch'[t][i].frame < batch'[t][j].frame
               /\ \A j \in 1 .. Len(indicated) : indicated[j] < batch'[t][i].frame
               /\ \A j \in 1 .. Len(used') : batch'[t][i].frame < used'[j].frame
               /\ batch'[t][i].frame < frame
    <3>1. CASE i \in 1 .. k
      BY <1>4, <2>4, <3>1
    <3>2. CASE i = k + 1
      BY <1>4, <2>1, <2>3, <3>2
    <3>3. i \in 1 .. k \/ i = k + 1
      OBVIOUS
    <3> QED BY <3>1, <3>2, <3>3
  <2>6. \A u \in Threads \ {t} : 1 .. Len(batch'[u]) = {}
    BY <1>3, <1>5
  <2>7. /\ \A i, j \in 1 .. Len(indicated) : i < j => indicated[i] < indicated[j]
        /\ \A i \in 1 .. Len(indicated) : indicated[i] < frame
    BY DEF OrderInv
  <2>8. ASSUME NEW u \in Threads, NEW i \in 1 .. Len(batch'[u])
        PROVE  /\ \A j \in 1 .. Len(batch'[u]) : i < j => batch'[u][i].frame < batch'[u][j].frame
               /\ \A j \in 1 .. Len(indicated) : indicated[j] < batch'[u][i].frame
               /\ \A j \in 1 .. Len(used') : batch'[u][i].frame < used'[j].frame
               /\ batch'[u][i].frame < frame
    <3>1. u = t
      BY <2>6
    <3> QED BY <1>4, <2>5, <3>1
  <2> QED BY <2>1, <2>3, <2>7, <2>8 DEF OrderInv
<1> QED BY <1>7, <1>8, <1>9, <1>10, <1>11

LEMMA TakeStep ==
  ASSUME ReceiveInv, NEW t \in Threads, TakeBuffer(t)
  PROVE  ReceiveInv'
<1>1. /\ pc[t] = "rx" /\ used # << >> /\ used' = Tail(used)
      /\ UNCHANGED << ring, frame, atNdis, indicated, gateVars, powerPc >>
  BY DEF TakeBuffer, powerVars
<1>2. \/ Reuse(Head(used).buf) /\ UNCHANGED << batch, lock, pc >>
      \/ /\ ReceiveState = "enabled" /\ waiting' = waiting \cup {Head(used).buf}
         /\ batch' = [batch EXCEPT ![t] = Append(@, Head(used))]
         /\ UNCHANGED << lock, pc >> \/ (lock' = "free" /\ pc' = [pc EXCEPT ![t] = "indicate"])
         /\ UNCHANGED << posted, pauseVars >>
  BY DEF TakeBuffer
<1>3. CASE Reuse(Head(used).buf) /\ UNCHANGED << batch, lock, pc >>
  BY <1>1, <1>3, DropStep
<1>4. CASE /\ ReceiveState = "enabled" /\ waiting' = waiting \cup {Head(used).buf}
           /\ batch' = [batch EXCEPT ![t] = Append(@, Head(used))]
           /\ UNCHANGED << lock, pc >> \/ (lock' = "free" /\ pc' = [pc EXCEPT ![t] = "indicate"])
           /\ UNCHANGED << posted, pauseVars >>
  BY <1>1, <1>4, PassStep
<1> QED BY <1>2, <1>3, <1>4

(* The batch goes to NDIS, behind all that went there before.              *)
LEMMA IndicateStep ==
  ASSUME ReceiveInv, NEW t \in Threads, Indicate(t)
  PROVE  ReceiveInv'
<1> USE DEF ReceiveInv
<1>1. /\ pc[t] = "indicate" /\ batch' = [batch EXCEPT ![t] = << >>]
      /\ atNdis' = atNdis \cup {batch[t][i].buf : i \in DOMAIN batch[t]}
      /\ indicated' = indicated \o [i \in DOMAIN batch[t] |-> batch[t][i].frame]
      /\ UNCHANGED << posted, used, frame, waiting, ring, lock, counterDPCInside, dpcReceiveActive,
                      bEnableInterruptHandlingDPC, powerPc, ReceiveState, pauseProc, ResetEvent >>
  BY DEF Indicate, ringVars, gateVars, pauseVars, powerVars
<1>2. PICK k \in Nat, n \in Nat : k = Len(batch[t]) /\ n = Len(indicated) /\ DOMAIN batch[t] = 1 .. k
  BY LenProperties DEF Types
<1>3. PICK l : l = (IF Batch THEN "unclaim" ELSE "relock")
  OBVIOUS
<1>4. l \in {"unclaim", "relock"} /\ pc' = [pc EXCEPT ![t] = l]
  BY <1>3 DEF Indicate
<1>5. PICK s \in Seq(Nat) : /\ s = [i \in DOMAIN batch[t] |-> batch[t][i].frame] /\ Len(s) = k
                             /\ \A i \in 1 .. k : s[i] = batch[t][i].frame /\ batch[t][i].frame \in Nat
  BY <1>2, FramesOf DEF Types
<1>6. /\ indicated' \in Seq(Nat) /\ Len(indicated') = n + k
      /\ \A i \in 1 .. n : indicated'[i] = indicated[i]
      /\ \A i \in 1 .. k : indicated'[n + i] = batch[t][i].frame
  <2>1. indicated' = indicated \o s /\ indicated \in Seq(Nat)
    BY <1>1, <1>5 DEF Types
  <2> QED BY <1>2, <1>5, <2>1, Concat1
<1>7. \A u \in Threads : batch'[u] = << >>
  BY <1>1, BatchOfOwner DEF Types
<1>8. \A u \in Threads \ {t} : batch[u] = << >>
  BY <1>1, BatchOfOwner
<1>9. atNdis' = atNdis \cup BatchBufs(t) /\ \A u \in Threads : BatchBufs(u)' = {}
  BY <1>1, <1>2, <1>7 DEF BatchBufs
<1>10. waiting = atNdis'
  <2>1. /\ \A b \in Buffers : b \in waiting <=> b \in atNdis \/ \E u \in Threads : b \in BatchBufs(u)
        /\ waiting \subseteq Buffers /\ atNdis \subseteq Buffers
    BY DEF RoundInv, Types
  <2>2. \A u \in Threads \ {t} : BatchBufs(u) = {}
    BY <1>8 DEF BatchBufs
  <2>3. BatchBufs(t) \subseteq Buffers
    BY BufsOf DEF BatchBufs, Types
  <2> QED BY <1>9, <2>1, <2>2, <2>3
<1>11. Types'
  <2>1. batch' \in [Threads -> Seq(Used)]
    BY <1>1 DEF Types
  <2>2. pc' \in [Threads -> Labels]
    BY <1>4 DEF Types, Labels, InRx
  <2> QED BY <1>1, <1>6, <1>10, <2>1, <2>2 DEF Types
<1>12. GateInv'
  <2>1. /\ l \in Labels /\ l \in Inside /\ l \in Claims /\ l # "rx"
        /\ pc[t] \in Owns /\ pc[t] \in InRx /\ pc[t] # "rx"
    BY <1>1, <1>4 DEF Labels, Inside, InRx, Claims, Owns
  <2>2. One(t, Inside) = 1 /\ One(t, Claims) = 1
    BY <1>1 DEF One, Inside, InRx, Claims
  <2>3. counterDPCInside \in Nat /\ dpcReceiveActive \in Nat
    BY DEF GateInv, Number, One
  <2>4. /\ counterDPCInside' = counterDPCInside + (IF l \in Inside THEN 1 ELSE 0) - One(t, Inside)
        /\ dpcReceiveActive' = dpcReceiveActive + (IF l \in Claims THEN 1 ELSE 0) - One(t, Claims)
    BY <1>1, <2>1, <2>2, <2>3
  <2> QED BY <1>1, <1>4, <2>1, <2>4, GateMoved
<1>13. PauseInv'
  BY <1>1 DEF PauseInv
<1>14. RoundInv'
  <2>1. UsedBufs' = UsedBufs
    BY <1>1 DEF UsedBufs
  <2>2. /\ \A i, j \in 1 .. Len(posted') : posted'[i] = posted'[j] => i = j
        /\ \A i, j \in 1 .. Len(used') : used'[i].buf = used'[j].buf => i = j
        /\ \A i \in 1 .. Len(posted') : posted'[i] \notin UsedBufs' \cup waiting'
        /\ UsedBufs' \cap waiting' = {}
        /\ powerPc' # "new" =>
             \A b \in Buffers : b \in waiting' \cup UsedBufs' \/ \E i \in 1 .. Len(posted') : posted'[i] = b
    BY <1>1, <2>1 DEF RoundInv
  <2>3. /\ \A b \in Buffers : b \in waiting' <=> b \in atNdis' \/ \E u \in Threads : b \in BatchBufs(u)'
        /\ \A u \in Threads : atNdis' \cap BatchBufs(u)' = {}
    BY <1>1, <1>9, <1>10
  <2> QED BY <1>7, <2>2, <2>3 DEF RoundInv
<1>15. OrderInv'
  <2>1. /\ \A i, j \in 1 .. n : i < j => indicated[i] < indicated[j]
        /\ \A i, j \in 1 .. Len(used) : i < j => used[i].frame < used[j].frame
        /\ \A i \in 1 .. n, j \in 1 .. Len(used) : indicated[i] < used[j].frame
        /\ \A i \in 1 .. n : indicated[i] < frame
        /\ \A i \in 1 .. Len(used) : used[i].frame < frame
    BY <1>2 DEF OrderInv
  <2>2. \A i \in 1 .. k :
          /\ \A j \in 1 .. k : i < j => batch[t][i].frame < batch[t][j].frame
          /\ \A j \in 1 .. n : indicated[j] < batch[t][i].frame
          /\ \A j \in 1 .. Len(used) : batch[t][i].frame < used[j].frame
          /\ batch[t][i].frame < frame
    BY <1>2 DEF OrderInv
  <2>3. ASSUME NEW i \in 1 .. n + k
        PROVE  /\ \A j \in 1 .. n + k : i < j => indicated'[i] < indicated'[j]
               /\ \A j \in 1 .. Len(used) : indicated'[i] < used[j].frame
               /\ indicated'[i] < frame
    <3>1. CASE i \in 1 .. n
      <4>1. \A j \in 1 .. n + k : i < j => indicated'[i] < indicated'[j]
        <5> SUFFICES ASSUME NEW j \in 1 .. n + k, i < j PROVE indicated'[i] < indicated'[j]
          OBVIOUS
        <5>1. j \in 1 .. n \/ \E q \in 1 .. k : j = n + q
          BY MovedUp
        <5> QED BY <1>6, <2>1, <2>2, <3>1, <5>1
      <4> QED BY <1>6, <2>1, <3>1, <4>1
    <3>2. CASE \E p \in 1 .. k : i = n + p
      <4>1. PICK p \in 1 .. k : i = n + p
        BY <3>2
      <4>2. \A j \in 1 .. n + k : i < j => indicated'[i] < indicated'[j]
        <5> SUFFICES ASSUME NEW j \in 1 .. n + k, i < j PROVE indicated'[i] < indicated'[j]
          OBVIOUS
        <5>1. PICK q \in 1 .. k : j = n + q /\ p < q
          <6>1. j \notin 1 .. n
            BY <4>1
          <6>2. PICK q \in 1 .. k : j = n + q
            BY <6>1, MovedUp
          <6> QED BY <4>1, <6>2
        <5> QED BY <1>6, <2>2, <4>1, <5>1
      <4> QED BY <1>6, <2>2, <4>1, <4>2
    <3> QED BY <3>1, <3>2, MovedUp
  <2>4. \A u \in Threads : 1 .. Len(batch'[u]) = {}
    BY <1>7
  <2>5. /\ \A i, j \in 1 .. Len(indicated') : i < j => indicated'[i] < indicated'[j]
        /\ \A i \in 1 .. Len(indicated'), j \in 1 .. Len(used') : indicated'[i] < used'[j].frame
        /\ \A i \in 1 .. Len(indicated') : indicated'[i] < frame'
    BY <1>1, <1>6, <2>3
  <2> QED BY <1>1, <2>1, <2>4, <2>5 DEF OrderInv
<1> QED BY <1>11, <1>12, <1>13, <1>14, <1>15
-----------------------------------------------------------------------------
LEMMA InitInv ==
  Init => ReceiveInv
<1> SUFFICES ASSUME Init PROVE ReceiveInv
  OBVIOUS
<1>1. Types
  BY DEF Init, Types, Labels, Down
<1>2. GateInv
  <2>1. \A t \in Threads : pc[t] = "idle" /\ t # "free"
    BY DEF Init, Threads
  <2>2. "idle" \notin Inside /\ "idle" \notin Claims /\ "idle" \notin Owns
    BY DEF Inside, InRx, Claims, Owns
  <2>3. Number(Inside) = 0 /\ Number(Claims) = 0
    BY <2>1, <2>2 DEF Number, One, Threads
  <2>4. powerPc = "new" /\ powerPc \in Down /\ "idle" \notin InRx
    BY DEF Init, Down, InRx
  <2> QED BY <2>1, <2>2, <2>3, <2>4 DEF Init, GateInv
<1>3. PauseInv
  BY DEF Init, PauseInv
<1>4. RoundInv
  BY DEF Init, RoundInv, UsedBufs, BatchBufs
<1>5. OrderInv
  BY DEF Init, OrderInv
<1> QED BY <1>1, <1>2, <1>3, <1>4, <1>5 DEF ReceiveInv

LEMMA NextInv ==
  ASSUME IsFiniteSet(Buffers), ReceiveInv, [Next]_vars
  PROVE  ReceiveInv'
<1> USE DEF ringVars, bufVars, irqVars, gateVars, powerVars, callVars
<1>1. CASE FinishInitialization
  BY <1>1, FinishStep
<1>2. CASE DeviceReceives
  BY <1>2, DeviceStep
<1>3. CASE Isr \/ OtherIsr
  BY <1>3, QuietStep DEF Isr, OtherIsr, TakeInterrupt
<1>4. CASE \E b \in Buffers : ReturnPacket(b)
  BY <1>4, ReturnStep
<1>5. CASE HandleDPC
  BY <1>5, ThreadStep DEF HandleDPC, Threads
<1>6. CASE OnDPCPostProcessTimer
  BY <1>6, ThreadStep DEF OnDPCPostProcessTimer, Threads
<1>7. CASE CheckRunningDpc
  <2>1. CASE dpcInactive
    BY <1>7, <2>1, ThreadStep DEF CheckRunningDpc, Threads
  <2>2. CASE ~dpcInactive
    BY <1>7, <2>2, QuietStep DEF CheckRunningDpc
  <2> QED BY <2>1, <2>2
<1>8. CASE \E t \in Threads : WorkStep(t)
  <2> PICK t \in Threads : WorkStep(t)
    BY <1>8
  <2> QED BY ThreadStep, TakeStep, IndicateStep DEF WorkStep
<1>9. CASE \E reason \in {"reset", "power", "halt"} : Suspend(reason)
  BY <1>9, PowerSteps
<1>10. CASE PowerStep
  BY <1>10, PowerSteps, DeleteStep DEF PowerStep
<1>11. CASE UNCHANGED vars
  BY <1>11, QuietStep DEF vars
<1> QED BY <1>1, <1>2, <1>3, <1>4, <1>5, <1>6, <1>7, <1>8, <1>9, <1>10, <1>11 DEF Next

LEMMA SoundFromInv ==
  ASSUME ReceiveInv
  PROVE  BuffersSound
<1> USE DEF ReceiveInv
<1>1. PICK m \in Nat, n \in Nat : /\ m = Len(posted) /\ DOMAIN posted = 1 .. m
                                  /\ n = Len(used) /\ DOMAIN used = 1 .. n
  BY LenProperties DEF Types
<1>2. PICK s \in Seq(Buffers) : /\ s = [i \in DOMAIN used |-> used[i].buf] /\ Len(s) = n
                                 /\ \A i \in 1 .. n : s[i] = used[i].buf
  BY <1>1, BufsOf DEF Types
<1>3. /\ posted \o s \in Seq(Buffers) /\ Len(posted \o s) = m + n
      /\ \A i \in 1 .. m : (posted \o s)[i] = posted[i]
      /\ \A i \in 1 .. n : (posted \o s)[m + i] = used[i].buf
  BY <1>1, <1>2, Concat1 DEF Types
<1>4. ToSet(posted) = {posted[i] : i \in 1 .. m} /\ UsedBufs = {used[i].buf : i \in DOMAIN used}
  BY <1>1 DEF ToSet, UsedBufs
<1>5. OfBatch = UNION {BatchBufs(t) : t \in Threads}
  <2>1. \A t \in Threads : DOMAIN batch[t] = 1 .. Len(batch[t])
    BY LenProperties DEF Types
  <2> QED BY <2>1 DEF OfBatch, BatchBufs
<1>6. IsInjective(posted \o s)
  <2>1. /\ \A i, j \in 1 .. m : posted[i] = posted[j] => i = j
        /\ \A i, j \in 1 .. n : used[i].buf = used[j].buf => i = j
        /\ \A i \in 1 .. m, j \in 1 .. n : posted[i] # used[j].buf
    BY <1>1 DEF RoundInv, UsedBufs
  <2>2. DOMAIN (posted \o s) = 1 .. m + n
    BY <1>3, LenProperties
  <2> SUFFICES ASSUME NEW i \in 1 .. m + n, NEW j \in 1 .. m + n, (posted \o s)[i] = (posted \o s)[j]
               PROVE  i = j
    BY <2>2 DEF IsInjective
  <2>3. (i \in 1 .. m \/ \E k \in 1 .. n : i = m + k) /\ (j \in 1 .. m \/ \E k \in 1 .. n : j = m + k)
    BY MovedUp
  <2>4. CASE i \in 1 .. m /\ j \in 1 .. m
    BY <1>3, <2>1, <2>4
  <2>5. CASE i \in 1 .. m /\ \E k \in 1 .. n : j = m + k
    <3>1. PICK k \in 1 .. n : j = m + k
      BY <2>5
    <3>2. (posted \o s)[i] = posted[i] /\ (posted \o s)[j] = used[k].buf
      BY <1>3, <2>5, <3>1
    <3> QED BY <2>1, <2>5, <3>2
  <2>6. CASE j \in 1 .. m /\ \E k \in 1 .. n : i = m + k
    <3>1. PICK k \in 1 .. n : i = m + k
      BY <2>6
    <3>2. (posted \o s)[j] = posted[j] /\ (posted \o s)[i] = used[k].buf
      BY <1>3, <2>6, <3>1
    <3> QED BY <2>1, <2>6, <3>2
  <2>7. CASE (\E k \in 1 .. n : i = m + k) /\ (\E k \in 1 .. n : j = m + k)
    <3>1. PICK k \in 1 .. n, l \in 1 .. n : i = m + k /\ j = m + l
      BY <2>7
    <3> QED BY <1>3, <2>1, <3>1
  <2> QED BY <2>3, <2>4, <2>5, <2>6, <2>7
<1>7. powerPc # "new" => Buffers = ToSet(posted) \cup UsedBufs \cup waiting
  <2>1. ToSet(posted) \subseteq Buffers /\ UsedBufs \subseteq Buffers /\ waiting \subseteq Buffers
    <3>1. ToSet(posted) \subseteq Buffers
      BY <1>1, <1>4, ElementOfSeq DEF Types
    <3>2. UsedBufs \subseteq Buffers
      BY BufsOf DEF UsedBufs, Types
    <3> QED BY <3>1, <3>2 DEF Types
  <2>2. powerPc # "new" => \A b \in Buffers : b \in waiting \cup UsedBufs \/ b \in ToSet(posted)
    BY <1>1, <1>4 DEF RoundInv
  <2> QED BY <2>1, <2>2
<1>8. waiting = atNdis \cup OfBatch /\ atNdis \cap OfBatch = {}
  <2>1. /\ \A b \in Buffers : b \in waiting <=> b \in atNdis \/ \E u \in Threads : b \in BatchBufs(u)
        /\ \A t \in Threads : atNdis \cap BatchBufs(t) = {}
        /\ waiting \subseteq Buffers /\ atNdis \subseteq Buffers
    BY DEF RoundInv, Types
  <2>2. \A t \in Threads : BatchBufs(t) \subseteq Buffers
    BY BufsOf DEF BatchBufs, Types
  <2> QED BY <1>5, <2>1, <2>2
<1>9. waiting \cap (ToSet(posted) \cup UsedBufs) = {}
  BY <1>1, <1>4 DEF RoundInv
<1>10. BuffersGoRound
  BY <1>2, <1>4, <1>6, <1>7, <1>8, <1>9 DEF BuffersGoRound
<1>11. NobodyInDeletedQueue
  BY DEF NobodyInDeletedQueue, GateInv, PauseInv, Down
<1>12. StoppedHasNone
  BY DEF StoppedHasNone, PauseInv
<1>13. FramesInOrder
  BY LenProperties DEF FramesInOrder, OrderInv, Types
<1> QED BY <1>10, <1>11, <1>12, <1>13 DEF BuffersSound

(* Whatever the order of frames, DPCs, timers, checks, returned packets    *)
(* and work items, every buffer of the receive path is in one place, none  *)
(* in a deleted queue, NDIS holds none after a stop, and the frames reach  *)
(* it in the order of the wire (ParaNdis-Common.c:1486-1536, 2092-2330,    *)
(* 2805-2865).                                                             *)
THEOREM BuffersAreSound ==
  ASSUME IsFiniteSet(Buffers)
  PROVE  Spec => []BuffersSound
<1>1. ReceiveInv /\ [Next]_vars => ReceiveInv'
  BY NextInv
<1> QED BY <1>1, InitInv, SoundFromInv, PTL DEF Spec
=============================================================================
