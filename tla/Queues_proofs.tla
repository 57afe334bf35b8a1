---------------------------- MODULE Queues_proofs -----------------------------
(***************************************************************************)
(* The tablet's queue, of any size and for any number of events less than  *)
(* 2^16: populate_buffers never takes a buffer the device owns, offers all *)
(* but one of the descriptors, and every event is handled once and in      *)
(* order.  And the data path of the LAN9118, whose theorem                 *)
(* Smsc9118Data_proofs has, stated of its place in Queues.                 *)
(***************************************************************************)
EXTENDS Queues, SequenceTheorems, TLAPS

(* Until used->idx wraps: last_used_idx, which does not, is compared with  *)
(* it (virtio.c:355).                                                      *)
BeforeWrap == MaxEvents < IdxMod
-----------------------------------------------------------------------------
(* Remainders.  TabletAssumption is about Num and IdxMod, so these are     *)
(* used for both.                                                          *)
LEMMA Division ==
  ASSUME NEW n \in Nat, n > 0, NEW a \in Int
  PROVE  /\ a % n \in 0 .. n - 1 /\ a \div n \in Int
         /\ a = n * (a \div n) + (a % n)
  OBVIOUS

LEMMA SmallMultiple ==
  ASSUME NEW n \in Nat, n > 0, NEW d \in Int, n * d < n, 0 - n < n * d
  PROVE  d = 0
<1>1. CASE d >= 1
  <2>1. n * d >= n * 1
    BY <1>1, Z3
  <2> QED BY <2>1
<1>2. CASE d <= -1
  <2>1. n * d <= n * (-1)
    BY <1>2, Z3
  <2> QED BY <2>1
<1> QED BY <1>1, <1>2

(* The remainder is the only one there can be.                             *)
LEMMA Remainder ==
  ASSUME NEW n \in Nat, n > 0, NEW q \in Int, NEW r \in 0 .. n - 1
  PROVE  (n * q + r) % n = r
<1> DEFINE a == n * q + r
           d == q - (a \div n)
<1>1. a \in Int /\ a % n \in 0 .. n - 1 /\ a \div n \in Int /\ a = n * (a \div n) + (a % n)
  BY Division
<1>2. n * d = (a % n) - r /\ d \in Int
  BY <1>1, Z3
<1> HIDE DEF a, d
<1>3. n * d < n /\ 0 - n < n * d
  BY <1>1, <1>2
<1>4. d = 0
  BY <1>2, <1>3, SmallMultiple
<1>5. a % n = r
  BY <1>1, <1>2, <1>4
<1> QED BY <1>5 DEF a

(* Numbers a multiple of n apart have the same remainder ...               *)
LEMMA Congruent ==
  ASSUME NEW n \in Nat, n > 0, NEW k \in Int, NEW b \in Int
  PROVE  (n * k + b) % n = b % n
<1>1. b % n \in 0 .. n - 1 /\ b \div n \in Int /\ b = n * (b \div n) + (b % n)
  BY Division
<1>2. n * k + b = n * (k + (b \div n)) + (b % n) /\ k + (b \div n) \in Int
  BY <1>1, Z3
<1>3. (n * (k + (b \div n)) + (b % n)) % n = b % n
  BY <1>1, <1>2, Remainder
<1> QED BY <1>2, <1>3

(* ... and different numbers less than n apart different ones.             *)
LEMMA Apart ==
  ASSUME NEW n \in Nat, n > 0, NEW a \in Int, NEW b \in Int, a < b, b < a + n
  PROVE  a % n # b % n
<1> SUFFICES ASSUME a % n = b % n PROVE FALSE
  OBVIOUS
<1> DEFINE d == (b \div n) - (a \div n)
<1>1. /\ a \div n \in Int /\ a = n * (a \div n) + (a % n) /\ a % n \in Int
      /\ b \div n \in Int /\ b = n * (b \div n) + (b % n)
  BY Division
<1>2. n * d = b - a /\ d \in Int
  BY <1>1, Z3
<1> HIDE DEF d
<1>3. d = 0
  BY <1>2, SmallMultiple
<1> QED BY <1>2, <1>3

(* Remainders may be taken of the parts of a sum, of a difference, and,    *)
(* where one modulus divides the other, before the smaller is.             *)
LEMMA RemainderPlus ==
  ASSUME NEW n \in Nat, n > 0, NEW a \in Int, NEW c \in Int
  PROVE  ((a % n) + c) % n = (a + c) % n
<1>1. a % n \in Int /\ a \div n \in Int /\ a = n * (a \div n) + (a % n)
  BY Division
<1>2. a + c = n * (a \div n) + ((a % n) + c) /\ (a % n) + c \in Int
  BY <1>1
<1>3. (n * (a \div n) + ((a % n) + c)) % n = ((a % n) + c) % n
  BY <1>1, <1>2, Congruent
<1> QED BY <1>2, <1>3

LEMMA RemainderMinus ==
  ASSUME NEW n \in Nat, n > 0, NEW a \in Int, NEW b \in Int
  PROVE  (a - (b % n)) % n = (a - b) % n
<1>1. b % n \in Int /\ b \div n \in Int /\ b = n * (b \div n) + (b % n)
  BY Division
<1>2. a - (b % n) = n * (b \div n) + (a - b) /\ a - b \in Int
  BY <1>1
<1>3. (n * (b \div n) + (a - b)) % n = (a - b) % n
  BY <1>1, <1>2, Congruent
<1> QED BY <1>2, <1>3

LEMMA RemainderTwice ==
  ASSUME NEW n \in Nat, n > 0, NEW k \in Nat, k > 0, k % n = 0, NEW a \in Int
  PROVE  (a % k) % n = a % n
<1> DEFINE q == a \div k
           m == k \div n
           r == a % k
<1>1. r \in Int /\ q \in Int /\ a = k * q + r
  BY Division
<1>2. m \in Int /\ k = n * m
  <2>1. m \in Int /\ k = n * m + (k % n)
    BY Division
  <2> HIDE DEF m
  <2> QED BY <2>1
<1> HIDE DEF q, m, r
<1>3. m * q \in Int /\ a = n * (m * q) + r
  BY <1>1, <1>2, Z3
<1>4. (n * (m * q) + r) % n = r % n
  BY <1>1, <1>3, Congruent
<1>5. a % n = r % n
  BY <1>3, <1>4
<1> QED BY <1>5 DEF r
-----------------------------------------------------------------------------
(* uint16_t and slot arithmetic.                                           *)
LEMMA Widths ==
  /\ Num \in Nat /\ Num > 0 /\ Num > 1
  /\ IdxMod \in Nat /\ IdxMod > 0 /\ IdxMod >= Num
  /\ IdxMod % Num = 0
BY TabletAssumption

LEMMA ShortType == ASSUME NEW a \in Int PROVE Short(a) \in Idx
<1>1. a % IdxMod \in 0 .. IdxMod - 1
  BY Widths, Division, Zenon
<1> QED BY <1>1 DEF Short, Idx

LEMMA SlotType == ASSUME NEW a \in Int PROVE Slot(a) \in Pos
<1>1. a % Num \in 0 .. Num - 1
  BY Widths, Division, Zenon
<1> QED BY <1>1 DEF Slot, Pos

LEMMA ShortIsSmall == ASSUME NEW a \in Idx PROVE Short(a) = a
<1>1. a = IdxMod * 0 + a /\ a \in 0 .. IdxMod - 1 /\ 0 \in Int
  BY Widths DEF Idx
<1>2. (IdxMod * 0 + a) % IdxMod = a
  BY <1>1, Widths, Remainder, Zenon
<1> QED BY <1>1, <1>2 DEF Short

LEMMA ShortPlus ==
  ASSUME NEW a \in Int, NEW c \in Int
  PROVE  Short(Short(a) + c) = Short(a + c)
BY Widths, RemainderPlus, Zenon DEF Short

LEMMA ShortMinus ==
  ASSUME NEW a \in Int, NEW b \in Int
  PROVE  Short(a - Short(b)) = Short(a - b)
BY Widths, RemainderMinus, Zenon DEF Short

(* The slot of an index is that of the counter: Num divides IdxMod.        *)
LEMMA SlotOfShort ==
  ASSUME NEW a \in Int
  PROVE  Slot(Short(a)) = Slot(a)
BY Widths, RemainderTwice, Zenon DEF Short, Slot

(* Positions less than the ring apart are in different slots, those the    *)
(* ring apart in the same.                                                 *)
LEMMA SlotsApart ==
  ASSUME NEW a \in Int, NEW b \in Int, a < b, b < a + Num
  PROVE  Slot(a) # Slot(b)
BY Widths, Apart, Zenon DEF Slot

LEMMA SlotAround == ASSUME NEW a \in Int PROVE Slot(a + Num) = Slot(a)
<1>1. a + Num = Num * 1 + a /\ a + Num \in Int /\ 1 \in Int
  BY Widths
<1>2. (Num * 1 + a) % Num = a % Num
  BY <1>1, Widths, Congruent, Zenon
<1> QED BY <1>1, <1>2 DEF Slot
-----------------------------------------------------------------------------
(* The inductive invariant.  P counts the buffers published, sent those    *)
(* the device used, last_used_idx those drained, next_fill_pos those taken *)
(* by populate_buffers: a 16-bit index is the remainder of its counter,    *)
(* and position n of each ring is in slot n & num_mask, where descriptor   *)
(* n & num_mask is.                                                        *)
Counts(P) ==
  /\ last_used_idx <= sent /\ sent <= P /\ P <= next_fill_pos
  /\ next_fill_pos <= last_used_idx + Num - 1
  /\ avail = Short(P) /\ dev_avail = Short(sent) /\ used = sent

Filling(P) ==
  /\ IF pc \in {"fill", "publish"} THEN avail_idx = Short(next_fill_pos)
                                   ELSE next_fill_pos = P
  /\ pc \in {"publish", "kick", "wait", "ack", "intdone"} =>
       next_fill_pos = last_used_idx + Num - 1

Offered ==
  \A k \in sent .. next_fill_pos - 1 : avail_ring[Slot(k)] = Slot(k)

Reported ==
  \A k \in last_used_idx .. sent - 1 :
    used_ring[Slot(k)] = Slot(k) /\ events[Slot(k)] = k + 1

InOrder == handled = [n \in 1 .. last_used_idx |-> n]

Good(P) == TypeOK /\ Counts(P) /\ Filling(P) /\ Offered /\ Reported /\ InOrder
TabInv  == \E P \in Nat : Good(P)
-----------------------------------------------------------------------------
(* What Counts says of the arithmetic on the ring.                         *)
LEMMA Distances ==
  ASSUME NEW P \in Nat, TypeOK, Counts(P), BeforeWrap
  PROVE  /\ sent \in Nat /\ sent \in Idx /\ last_used_idx \in Nat /\ next_fill_pos \in Nat
         /\ P - sent \in Idx /\ P - last_used_idx \in Idx
         /\ sent < caused => sent + 1 \in Idx
<1>1. sent \in Nat /\ last_used_idx \in Nat /\ next_fill_pos \in Nat /\ caused \in Nat
      /\ sent <= caused /\ caused <= MaxEvents
  BY TabletAssumption DEF TypeOK
<1>2. MaxEvents \in Nat /\ IdxMod \in Nat /\ Num \in Nat /\ Num <= IdxMod /\ MaxEvents < IdxMod
  BY TabletAssumption DEF BeforeWrap
<1>3. last_used_idx <= sent /\ sent <= P /\ P <= next_fill_pos
      /\ next_fill_pos <= last_used_idx + Num - 1
  BY DEF Counts
<1> QED BY <1>1, <1>2, <1>3 DEF Idx

(* There is room exactly while a descriptor but the last one is free.      *)
LEMMA RoomIsLeft ==
  ASSUME NEW P \in Nat, TypeOK, Counts(P), BeforeWrap
  PROVE  Room <=> next_fill_pos < last_used_idx + Num - 1
<1>1. next_fill_pos \in Int /\ last_used_idx \in Int /\ Num \in Int
      /\ next_fill_pos + 1 \in Int
  BY Distances, Widths
<1>2. last_used_idx <= next_fill_pos /\ next_fill_pos <= last_used_idx + Num - 1
  BY <1>1, Distances DEF Counts
<1>3. CASE next_fill_pos = last_used_idx + Num - 1
  <2>1. next_fill_pos + 1 = last_used_idx + Num
    BY <1>1, <1>3
  <2>2. Slot(next_fill_pos + 1) = Slot(last_used_idx)
    BY <1>1, <2>1, SlotAround
  <2> QED BY <1>1, <1>3, <2>2 DEF Room
<1>4. CASE next_fill_pos < last_used_idx + Num - 1
  <2>1. last_used_idx < next_fill_pos + 1 /\ next_fill_pos + 1 < last_used_idx + Num
    BY <1>1, <1>2, <1>4
  <2>2. Slot(last_used_idx) # Slot(next_fill_pos + 1)
    BY <1>1, <2>1, SlotsApart
  <2> QED BY <1>4, <2>2 DEF Room
<1> QED BY <1>1, <1>2, <1>3, <1>4

(* The device finds a buffer exactly while one published is unused.        *)
LEMMA BufferIsThere ==
  ASSUME NEW P \in Nat, TypeOK, Counts(P), BeforeWrap, dev_avail # avail
  PROVE  sent < P
<1>1. sent # P
  BY DEF Counts
<1>2. sent \in Int /\ sent <= P
  BY Distances DEF Counts
<1> QED BY <1>1, <1>2

(* Buffers the device owns are those published and not used.               *)
LEMMA OwnedArePublished ==
  ASSUME NEW P \in Nat, Good(P), BeforeWrap, NEW p \in Owned
  PROVE  \E k \in sent .. P - 1 : p = Slot(k)
<1>1. PICK j \in Idx : Ahead(j, dev_avail, avail) /\ p = avail_ring[Slot(j)]
  BY DEF Owned
<1>2. j \in Int /\ sent \in Int /\ sent \in Nat /\ P \in Int /\ P - sent \in Idx
  BY Distances, Widths DEF Idx, Good
<1>3. Short(avail - dev_avail) = P - sent
  <2>1. avail = Short(P) /\ dev_avail = Short(sent)
    BY DEF Good, Counts
  <2>2. Short(P) \in Int
    BY <1>2, ShortType, Widths DEF Idx
  <2>3. Short(Short(P) - Short(sent)) = Short(Short(P) - sent)
    BY <1>2, <2>2, ShortMinus
  <2>4. Short(P) - sent = Short(P) + (0 - sent) /\ P - sent = P + (0 - sent) /\ 0 - sent \in Int
    BY <1>2, <2>2
  <2>5. Short(Short(P) + (0 - sent)) = Short(P + (0 - sent))
    BY <1>2, <2>4, ShortPlus
  <2>6. Short(P - sent) = P - sent
    BY <1>2, ShortIsSmall
  <2> QED BY <2>1, <2>3, <2>4, <2>5, <2>6
<1> DEFINE d == Short(j - dev_avail)
           k == sent + d
<1>4. d = Short(j - sent) /\ d \in Idx /\ d < P - sent
  <2>1. d = Short(j - sent)
    BY <1>2, ShortMinus DEF Good, Counts
  <2>2. j - sent \in Int
    BY <1>2
  <2>3. Short(j - sent) \in Idx
    BY <2>2, ShortType
  <2> QED BY <1>1, <1>3, <2>1, <2>3 DEF Ahead
<1> HIDE DEF d
<1>5. k \in sent .. P - 1 /\ k \in Int
  BY <1>2, <1>4, Widths DEF Idx
<1>6. Slot(k) = Slot(j)
  <2>1. j - sent \in Int
    BY <1>2
  <2>2. Short(Short(j - sent) + sent) = Short((j - sent) + sent)
    BY <1>2, <2>1, ShortPlus
  <2>3. Short(j - sent) + sent = k /\ (j - sent) + sent = j
    BY <1>2, <1>4, Widths DEF Idx
  <2>4. Short(k) = Short(j)
    BY <2>2, <2>3
  <2> QED BY <1>2, <1>5, <2>4, SlotOfShort
<1>7. k \in sent .. next_fill_pos - 1
  <2>1. P <= next_fill_pos /\ next_fill_pos \in Int
    BY Distances DEF Good, Counts
  <2> QED BY <1>2, <1>5, <2>1
<1>8. avail_ring[Slot(k)] = Slot(k)
  BY <1>7 DEF Good, Offered
<1> QED BY <1>1, <1>5, <1>6, <1>8
-----------------------------------------------------------------------------
(* At the start nothing is offered.                                        *)
LEMMA InitGood == ASSUME Init PROVE Good(0)
<1> USE DEF Init
<1>1. 0 \in Pos /\ 0 \in Idx /\ 0 \in Nat /\ 0 \in 0 .. MaxEvents /\ 0 \in 0 .. caused
  BY TabletAssumption DEF Pos, Idx
<1>2. handled = [n \in 1 .. last_used_idx |-> n]
  <2>1. [n \in 1 .. last_used_idx |-> n] \in Seq(Int) /\ Len([n \in 1 .. last_used_idx |-> n]) = 0
    OBVIOUS
  <2> QED BY <2>1
<1>3. Short(0) = 0
  BY <1>1, ShortIsSmall
<1>4. TypeOK
  BY <1>1 DEF TypeOK
<1>5. Counts(0)
  BY <1>3, Widths DEF Counts
<1>6. Filling(0) /\ Offered /\ Reported
  BY <1>1 DEF Filling, Offered, Reported
<1> QED BY <1>2, <1>4, <1>5, <1>6 DEF Good, InOrder

(* The counters and the rings stay as they are.                            *)
Steady ==
  UNCHANGED << avail, avail_ring, dev_avail, used, used_ring, events, sent, handled >>

LEMMA SteadyStep ==
  ASSUME NEW P \in Nat, Good(P), Steady, UNCHANGED countVars, TypeOK', Filling(P)'
  PROVE  Good(P)'
<1>1. Counts(P)'
  BY DEF Good, Steady, countVars, Counts
<1>2. Offered' /\ Reported' /\ InOrder'
  BY DEF Good, Steady, countVars, Offered, Reported, InOrder
<1> QED BY <1>1, <1>2 DEF Good

(* The steps of the thread that touch neither a counter nor a ring.        *)
LEMMA ThreadStep ==
  ASSUME NEW P \in Nat, Good(P), BeforeWrap,
         \/ Populate \/ SetUsedEvent \/ Notify \/ Wake \/ Ack \/ IntDone
         \/ DrainOver \/ Rearm \/ Recheck \/ Timeout
  PROVE  Good(P)'
<1>1. TypeOK /\ Counts(P) /\ Filling(P)
  BY DEF Good
<1>2. Steady /\ UNCHANGED countVars
  BY DEF Steady, countVars, Populate, SetUsedEvent, Notify, Wake, Ack, IntDone, DrainOver, Rearm,
         Recheck, Timeout, usedVars, availVars, eventVars, devVars
<1>3. WantedEvent \in Idx
  <2>1. last_used_idx \in Int
    BY <1>1 DEF TypeOK
  <2> QED BY <1>1, <2>1, ShortType DEF WantedEvent, TypeOK
<1>4. TypeOK'
  <2>1. CASE Populate \/ Notify \/ Wake \/ Ack \/ IntDone
    BY <1>1, <1>2, <2>1 DEF TypeOK, Steady, countVars, Populate, Notify, Wake, Ack, IntDone,
       localVars, notifyVars, irqVars, devVars, sigVars, eventVars, NotifyWanted, NeedEvent
  <2>2. CASE SetUsedEvent \/ Rearm
    BY <1>1, <1>2, <1>3, <2>2 DEF TypeOK, Steady, countVars, SetUsedEvent, Rearm,
       localVars, notifyVars, irqVars, devVars, sigVars, eventVars
  <2>3. CASE DrainOver \/ Recheck \/ Timeout
    BY <1>1, <1>2, <2>3 DEF TypeOK, Steady, countVars, DrainOver, Recheck, Timeout,
       localVars, notifyVars, irqVars, devVars, sigVars, eventVars
  <2> QED BY <2>1, <2>2, <2>3
<1>5. Filling(P)'
  <2>1. CASE Populate
    BY <1>1, <1>2, <2>1 DEF Populate, Filling, Counts, countVars
  <2>2. CASE SetUsedEvent
    <3>1. next_fill_pos = last_used_idx + Num - 1
      <4>1. ~(next_fill_pos < last_used_idx + Num - 1)
        BY <1>1, <2>2, RoomIsLeft DEF SetUsedEvent
      <4>2. next_fill_pos \in Int /\ last_used_idx \in Int /\ Num \in Int
            /\ next_fill_pos <= last_used_idx + Num - 1
        BY <1>1, Widths DEF TypeOK, Counts
      <4> QED BY <4>1, <4>2
    <3> QED BY <1>1, <1>2, <2>2, <3>1 DEF SetUsedEvent, Filling, countVars, localVars
  <2>3. CASE Notify \/ Wake \/ Ack \/ IntDone \/ DrainOver \/ Rearm \/ Recheck \/ Timeout
    BY <1>1, <1>2, <2>3 DEF Notify, Wake, Ack, IntDone, DrainOver, Rearm, Recheck, Timeout,
       Filling, countVars, localVars
  <2> QED BY <2>1, <2>2, <2>3
<1> QED BY <1>2, <1>4, <1>5, SteadyStep

(* The steps of the others that do not: of the user, the interrupt and the *)
(* device.                                                                 *)
LEMMA OtherStep ==
  ASSUME NEW P \in Nat, Good(P),
         Interrupt \/ Cause \/ DevStart \/ DevStarve \/ DevSleep \/ DevSignal
  PROVE  Good(P)'
<1>1. TypeOK /\ Filling(P)
  BY DEF Good
<1>2. Steady /\ UNCHANGED << pc, countVars, localVars >>
  BY DEF Steady, Interrupt, Cause, DevStart, DevStarve, DevSleep, DevSignal, usedVars, availVars,
         eventVars, devVars
<1>3. Filling(P)'
  BY <1>1, <1>2 DEF Filling, countVars, localVars
<1>4. TypeOK'
  <2>1. CASE Cause
    <3>1. caused' \in 0 .. MaxEvents /\ sent' \in 0 .. caused'
      BY <1>1, <2>1, TabletAssumption DEF TypeOK, Cause
    <3> QED BY <1>1, <1>2, <2>1, <3>1 DEF TypeOK, Steady, Cause, countVars, localVars, notifyVars,
               irqVars, devVars, sigVars
  <2>2. CASE Interrupt \/ DevStart \/ DevStarve \/ DevSleep \/ DevSignal
    BY <1>1, <1>2, <2>2 DEF TypeOK, Steady, Interrupt, DevStart, DevStarve, DevSleep, DevSignal,
       countVars, localVars, notifyVars, irqVars, devVars, sigVars, eventVars, NeedEvent
  <2> QED BY <2>1, <2>2
<1> QED BY <1>2, <1>3, <1>4, SteadyStep DEF countVars

(* A descriptor is taken: the one after those of the device and of the     *)
(* events not drained, with which it shares no slot.                       *)
LEMMA FillStep ==
  ASSUME NEW P \in Nat, Good(P), BeforeWrap, Fill
  PROVE  Good(P)' /\ \A p \in Owned : events'[p] = events[p]
<1> DEFINE F == next_fill_pos
<1>1. TypeOK /\ Counts(P) /\ Filling(P) /\ Offered /\ Reported /\ InOrder
  BY DEF Good
<1>2. /\ F \in Nat /\ F \in Int /\ sent \in Int /\ last_used_idx \in Int /\ Num \in Int
      /\ last_used_idx <= sent /\ sent <= P /\ P <= F /\ F < last_used_idx + Num - 1
      /\ Slot(F) \in Pos
  BY <1>1, Distances, RoomIsLeft, SlotType, Widths DEF Fill, Counts
<1>3. /\ next_fill_pos' = F + 1 /\ avail_idx' = Short(avail_idx + 1)
      /\ avail_ring' = [avail_ring EXCEPT ![Slot(F)] = Slot(F)]
      /\ events' = [events EXCEPT ![Slot(F)] = 0]
      /\ UNCHANGED << vq_feat, pc, prev_avail_idx, last_used_idx, avail, used_event, usedVars,
                      notifyVars, irqVars, kick, devVars, sigVars, eventVars >>
      /\ pc = "fill" /\ avail_idx = Short(F)
  <2>1. pc = "fill" /\ avail_idx = Short(F)
    BY <1>1 DEF Fill, Filling
  <2>2. Slot(avail_idx) = Slot(F)
    BY <1>2, <2>1, SlotOfShort
  <2> QED BY <2>1, <2>2 DEF Fill
<1>4. \A k \in last_used_idx .. F - 1 : Slot(k) # Slot(F)
  <2> SUFFICES ASSUME NEW k \in last_used_idx .. F - 1 PROVE Slot(k) # Slot(F)
    OBVIOUS
  <2>1. k \in Int /\ k < F /\ F < k + Num
    BY <1>2
  <2> QED BY <1>2, <2>1, SlotsApart
<1>5. avail_idx' = Short(F + 1) /\ avail_idx' \in Idx
  <2>1. F + 1 \in Int
    BY <1>2
  <2> QED BY <1>2, <1>3, <2>1, ShortPlus, ShortType
<1>6. TypeOK'
  <2>1. next_fill_pos' \in Nat
    BY <1>2, <1>3
  <2>2. avail_ring' \in [Pos -> Pos] /\ events' \in [Pos -> 0 .. MaxEvents]
    BY <1>1, <1>2, <1>3, TabletAssumption DEF TypeOK
  <2> QED BY <1>1, <1>3, <1>5, <2>1, <2>2 DEF TypeOK, usedVars, notifyVars, irqVars, devVars,
             sigVars, eventVars
<1>7. Counts(P)'
  <2>1. P <= F + 1 /\ F + 1 <= last_used_idx + Num - 1
    BY <1>2
  <2> QED BY <1>1, <1>3, <2>1 DEF Counts, usedVars, devVars, eventVars
<1>8. Filling(P)'
  BY <1>3, <1>5 DEF Filling
<1>9. Offered'
  <2> SUFFICES ASSUME NEW k \in sent .. F
               PROVE  avail_ring'[Slot(k)] = Slot(k)
    <3>1. sent' = sent /\ next_fill_pos' - 1 = F
      BY <1>2, <1>3 DEF eventVars
    <3> QED BY <3>1 DEF Offered
  <2>1. k \in Int /\ Slot(k) \in Pos
    BY <1>2, SlotType
  <2>2. CASE k = F
    BY <1>1, <1>2, <1>3, <2>2 DEF TypeOK
  <2>3. CASE k # F
    <3>1. k \in sent .. F - 1 /\ k \in last_used_idx .. F - 1
      BY <1>2, <2>1, <2>3
    <3> QED BY <1>1, <1>3, <1>4, <2>1, <3>1 DEF TypeOK, Offered
  <2> QED BY <2>2, <2>3
<1>10. Reported'
  <2> SUFFICES ASSUME NEW k \in last_used_idx .. sent - 1
               PROVE  used_ring[Slot(k)] = Slot(k) /\ events'[Slot(k)] = k + 1
    BY <1>3 DEF Reported, usedVars, eventVars
  <2>1. k \in Int /\ k \in last_used_idx .. F - 1
    BY <1>2
  <2> QED BY <1>1, <1>3, <1>4, <2>1, SlotType DEF TypeOK, Reported
<1>11. InOrder'
  BY <1>1, <1>3 DEF InOrder, eventVars
<1>12. ASSUME NEW p \in Owned PROVE events'[p] = events[p]
  <2>1. PICK k \in sent .. P - 1 : p = Slot(k)
    BY OwnedArePublished
  <2>2. k \in Int /\ k \in last_used_idx .. F - 1
    BY <1>2
  <2> QED BY <1>1, <1>3, <1>4, <2>1, <2>2, SlotType DEF TypeOK
<1> QED BY <1>6, <1>7, <1>8, <1>9, <1>10, <1>11, <1>12 DEF Good

(* What was taken is published.                                            *)
LEMMA PublishStep ==
  ASSUME NEW P \in Nat, Good(P), BeforeWrap, Publish
  PROVE  next_fill_pos' \in Nat /\ Good(next_fill_pos)'
<1>1. TypeOK /\ Counts(P) /\ Filling(P) /\ Offered /\ Reported /\ InOrder
  BY DEF Good
<1>2. /\ next_fill_pos \in Nat /\ sent \in Int /\ sent <= P /\ P <= next_fill_pos
      /\ avail' = Short(next_fill_pos)
      /\ UNCHANGED << vq_feat, avail_idx, countVars, avail_ring, used_event, events, usedVars,
                      notifyVars, irqVars, kick, devVars, sigVars, eventVars >>
  BY <1>1, Distances DEF Publish, Filling, Counts
<1>3. sent <= next_fill_pos /\ next_fill_pos <= next_fill_pos
  BY <1>2
<1>4. TypeOK'
  BY <1>1, <1>2 DEF TypeOK, Publish, countVars, usedVars, notifyVars, irqVars, devVars, sigVars,
     eventVars
<1>5. Counts(next_fill_pos)'
  BY <1>1, <1>2, <1>3 DEF Counts, countVars, usedVars, devVars, eventVars
<1>6. Filling(next_fill_pos)'
  BY <1>1, <1>2 DEF Publish, Filling, countVars
<1>7. Offered' /\ Reported' /\ InOrder'
  BY <1>1, <1>2 DEF Offered, Reported, InOrder, countVars, usedVars, eventVars
<1>8. next_fill_pos' \in Nat
  BY <1>2 DEF countVars
<1> QED BY <1>4, <1>5, <1>6, <1>7, <1>8 DEF Good

(* The next event is handled.                                              *)
LEMMA DrainStep ==
  ASSUME NEW P \in Nat, Good(P), BeforeWrap, Drain
  PROVE  /\ Good(P)'
         /\ last_used_idx < sent /\ handled' = Append(handled, last_used_idx + 1)
<1>1. TypeOK /\ Counts(P) /\ Filling(P) /\ Offered /\ Reported /\ InOrder
  BY DEF Good
<1>2. /\ last_used_idx \in Nat /\ sent \in Nat /\ next_fill_pos \in Nat /\ Num \in Int
      /\ last_used_idx < sent /\ last_used_idx \in last_used_idx .. sent - 1
      /\ caused \in 0 .. MaxEvents /\ sent <= caused
  BY <1>1, Distances, Widths, TabletAssumption DEF Drain, Counts, TypeOK
<1>3. /\ events[used_ring[Slot(last_used_idx)]] = last_used_idx + 1
      /\ last_used_idx + 1 \in 0 .. MaxEvents
  BY <1>1, <1>2, TabletAssumption DEF Reported
<1>4. /\ handled' = Append(handled, last_used_idx + 1) /\ last_used_idx' = last_used_idx + 1
      /\ pc = "drain"
      /\ UNCHANGED << vq_feat, pc, localVars, next_fill_pos, availVars, used_event, events,
                      usedVars, notifyVars, irqVars, kick, devVars, sigVars, caused, sent >>
  BY <1>3 DEF Drain
<1>5. TypeOK'
  <2>1. last_used_idx' \in Nat /\ handled' \in Seq(0 .. MaxEvents)
    BY <1>1, <1>2, <1>3, <1>4, AppendProperties DEF TypeOK
  <2> QED BY <1>1, <1>4, <2>1 DEF TypeOK, localVars, availVars, usedVars, notifyVars, irqVars,
             devVars, sigVars
<1>6. Counts(P)'
  <2>1. last_used_idx + 1 <= sent /\ next_fill_pos <= last_used_idx + 1 + Num - 1
    BY <1>1, <1>2 DEF Counts
  <2> QED BY <1>1, <1>4, <2>1 DEF Counts, availVars, usedVars, devVars
<1>7. Filling(P)' /\ Offered'
  BY <1>1, <1>4 DEF Filling, Offered, localVars, availVars
<1>8. Reported'
  <2> SUFFICES ASSUME NEW k \in last_used_idx + 1 .. sent - 1
               PROVE  used_ring[Slot(k)] = Slot(k) /\ events[Slot(k)] = k + 1
    BY <1>4 DEF Reported, usedVars
  <2>1. k \in last_used_idx .. sent - 1
    BY <1>2
  <2> QED BY <1>1, <2>1 DEF Reported
<1>9. InOrder'
  <2>1. handled = [n \in 1 .. last_used_idx |-> n]
    BY <1>1 DEF InOrder
  <2>2. handled \in Seq(Int) /\ Len(handled) = last_used_idx
    BY <1>2, <2>1
  <2>3. Append(handled, last_used_idx + 1) = [n \in 1 .. last_used_idx + 1 |-> n]
    BY <1>2, <2>1, <2>2
  <2> QED BY <1>4, <2>3 DEF InOrder
<1> QED BY <1>2, <1>4, <1>5, <1>6, <1>7, <1>8, <1>9 DEF Good

(* The device reports an event: in the oldest buffer it owns, and position *)
(* sent of the used ring.                                                  *)
LEMMA ReportStep ==
  ASSUME NEW P \in Nat, Good(P), BeforeWrap, DevReport
  PROVE  Good(P)' /\ sent' = sent + 1 /\ UNCHANGED handled /\ sent + 1 \in 1 .. MaxEvents
<1>1. TypeOK /\ Counts(P) /\ Filling(P) /\ Offered /\ Reported /\ InOrder
  BY DEF Good
<1>2. /\ sent \in Nat /\ sent \in Idx /\ sent + 1 \in Idx /\ last_used_idx \in Nat
      /\ next_fill_pos \in Nat /\ Num \in Int /\ Slot(sent) \in Pos
      /\ caused \in 0 .. MaxEvents /\ sent + 1 <= caused /\ sent + 1 \in 0 .. MaxEvents
  <2>1. sent \in Nat /\ last_used_idx \in Nat /\ next_fill_pos \in Nat /\ Num \in Int
    BY <1>1, Distances, Widths
  <2>2. sent < caused /\ caused \in 0 .. MaxEvents /\ MaxEvents \in Nat
    BY <1>1, TabletAssumption DEF DevReport, TypeOK
  <2>3. sent \in Idx /\ sent + 1 \in Idx
    BY <1>1, <2>2, Distances
  <2>4. Slot(sent) \in Pos
    BY <2>1, SlotType
  <2>5. sent + 1 <= caused /\ sent + 1 \in 0 .. MaxEvents
    BY <2>1, <2>2
  <2> QED BY <2>1, <2>2, <2>3, <2>4, <2>5
<1>3. /\ last_used_idx <= sent /\ sent < P /\ P <= next_fill_pos
      /\ next_fill_pos <= last_used_idx + Num - 1
  BY <1>1, BufferIsThere DEF DevReport, Counts
<1>4. avail_ring[Slot(dev_avail)] = Slot(sent)
  <2>1. Slot(dev_avail) = Slot(sent)
    BY <1>1, <1>2, SlotOfShort DEF Counts
  <2>2. sent \in sent .. next_fill_pos - 1
    BY <1>2, <1>3
  <2> QED BY <1>1, <2>1, <2>2 DEF Offered
<1>5. /\ events' = [events EXCEPT ![Slot(sent)] = sent + 1]
      /\ used_ring' = [used_ring EXCEPT ![Slot(sent)] = Slot(sent)]
      /\ used' = Short(sent + 1) /\ dev_avail' = Short(dev_avail + 1)
      /\ sent' = sent + 1 /\ sig_pending' = TRUE
      /\ UNCHANGED << vq_feat, pc, localVars, countVars, availVars, used_event, notifyVars,
                      irqVars, kick, dev_mode, signalled, caused, handled >>
  BY <1>1, <1>4 DEF DevReport, Counts
<1>6. used' = sent + 1 /\ dev_avail' = Short(sent + 1) /\ dev_avail' \in Idx
  BY <1>1, <1>2, <1>5, ShortIsSmall, ShortPlus, ShortType DEF Counts
<1>7. TypeOK'
  <2>1. events' \in [Pos -> 0 .. MaxEvents] /\ used_ring' \in [Pos -> Pos]
    BY <1>1, <1>2, <1>5 DEF TypeOK
  <2>2. sent' \in 0 .. caused'
    BY <1>2, <1>5
  <2> QED BY <1>1, <1>2, <1>5, <1>6, <2>1, <2>2 DEF TypeOK, localVars, countVars, availVars,
             notifyVars, irqVars
<1>8. Counts(P)'
  <2>1. last_used_idx <= sent + 1 /\ sent + 1 <= P
    BY <1>2, <1>3
  <2> QED BY <1>1, <1>5, <1>6, <2>1 DEF Counts, countVars, availVars
<1>9. Filling(P)'
  BY <1>1, <1>5 DEF Filling, localVars, countVars
<1>10. Offered'
  <2> SUFFICES ASSUME NEW k \in sent + 1 .. next_fill_pos - 1
               PROVE  avail_ring[Slot(k)] = Slot(k)
    BY <1>5 DEF Offered, countVars, availVars
  <2>1. k \in sent .. next_fill_pos - 1
    BY <1>2
  <2> QED BY <1>1, <2>1 DEF Offered
<1>11. Reported'
  <2> SUFFICES ASSUME NEW k \in last_used_idx .. sent
               PROVE  used_ring'[Slot(k)] = Slot(k) /\ events'[Slot(k)] = k + 1
    <3>1. last_used_idx' = last_used_idx /\ sent' - 1 = sent
      BY <1>2, <1>5 DEF countVars
    <3> QED BY <3>1 DEF Reported
  <2>1. k \in Int /\ Slot(k) \in Pos
    BY <1>2, SlotType
  <2>2. CASE k = sent
    BY <1>1, <1>2, <1>5, <2>2 DEF TypeOK
  <2>3. CASE k # sent
    <3>1. k \in last_used_idx .. sent - 1
      BY <1>2, <2>1, <2>3
    <3>2. k < sent /\ sent < k + Num /\ sent \in Int
      BY <1>2, <1>3, <3>1
    <3>3. Slot(k) # Slot(sent)
      BY <2>1, <3>2, SlotsApart
    <3> QED BY <1>1, <1>5, <2>1, <3>1, <3>3 DEF TypeOK, Reported
  <2> QED BY <2>2, <2>3
<1>12. InOrder'
  BY <1>1, <1>5 DEF InOrder, countVars
<1>13. sent + 1 \in 1 .. MaxEvents
  BY <1>2
<1> QED BY <1>5, <1>7, <1>8, <1>9, <1>10, <1>11, <1>12, <1>13 DEF Good
-----------------------------------------------------------------------------
LEMMA InitTabInv == Init => TabInv
BY InitGood DEF TabInv

LEMMA NextTabInv ==
  ASSUME BeforeWrap, TabInv, [Next]_vars
  PROVE  TabInv'
<1>1. PICK P \in Nat : Good(P)
  BY DEF TabInv
<1>2. CASE Step \/ Timeout
  <2>1. CASE Fill
    BY <1>1, <2>1, FillStep DEF TabInv
  <2>2. CASE Publish
    <3>1. next_fill_pos' \in Nat /\ Good(next_fill_pos)'
      BY <1>1, <2>2, PublishStep
    <3> QED BY <3>1 DEF TabInv
  <2>3. CASE Drain
    BY <1>1, <2>3, DrainStep DEF TabInv
  <2>4. CASE \/ Populate \/ SetUsedEvent \/ Notify \/ Wake \/ Ack \/ IntDone
             \/ DrainOver \/ Rearm \/ Recheck \/ Timeout
    BY <1>1, <2>4, ThreadStep DEF TabInv
  <2> QED BY <1>2, <2>1, <2>2, <2>3, <2>4 DEF Step
<1>3. CASE Interrupt \/ Cause \/ DevWork
  <2>1. CASE DevReport
    BY <1>1, <2>1, ReportStep DEF TabInv
  <2>2. CASE Interrupt \/ Cause \/ DevStart \/ DevStarve \/ DevSleep \/ DevSignal
    BY <1>1, <2>2, OtherStep DEF TabInv
  <2> QED BY <1>3, <2>1, <2>2 DEF DevWork
<1>4. CASE UNCHANGED vars
  <2>1. Steady /\ UNCHANGED countVars /\ TypeOK' /\ Filling(P)'
    BY <1>1, <1>4 DEF vars, Steady, localVars, countVars, availVars, usedVars, notifyVars,
       irqVars, devVars, sigVars, eventVars, Good, TypeOK, Filling
  <2> QED BY <1>1, <2>1, SteadyStep DEF TabInv
<1> QED BY <1>2, <1>3, <1>4 DEF Next

(* Until the used index wraps, the 16-bit indices and the rings are what   *)
(* the counters say.                                                       *)
THEOREM Invariance == ASSUME BeforeWrap PROVE Spec => []TabInv
<1>1. TabInv /\ [Next]_vars => TabInv'
  BY NextTabInv
<1> QED BY <1>1, InitTabInv, PTL DEF Spec

(* The variables have their types: no index leaves its 16 bits, and no     *)
(* slot the ring.                                                          *)
THEOREM TypeCorrect == ASSUME BeforeWrap PROVE Spec => []TypeOK
<1>1. TabInv => TypeOK
  BY DEF TabInv, Good
<1> QED BY <1>1, Invariance, PTL

(* While the thread waits all descriptors but one are with the device: the *)
(* refilling of populate_buffers (virtio.c:303-314) keeps up.              *)
THEOREM AllAreOffered == ASSUME BeforeWrap PROVE Spec => []AllOffered
<1>1. ASSUME TabInv PROVE AllOffered
  <2> SUFFICES ASSUME pc \in {"kick", "wait"} PROVE Short(avail - last_used_idx) = Num - 1
    BY DEF AllOffered
  <2>1. PICK P \in Nat : Good(P)
    BY <1>1 DEF TabInv
  <2>2. /\ avail = Short(P) /\ P = last_used_idx + Num - 1
        /\ last_used_idx \in Nat /\ P - last_used_idx \in Idx
    BY <2>1, Distances DEF Good, Counts, Filling
  <2>3. Short(Short(P) + (0 - last_used_idx)) = Short(P + (0 - last_used_idx))
    <3>1. 0 - last_used_idx \in Int /\ P \in Int
      BY <2>2
    <3> QED BY <3>1, ShortPlus
  <2>4. Short(P - last_used_idx) = P - last_used_idx
    BY <2>2, ShortIsSmall
  <2>5. /\ Short(P) \in Int
        /\ Short(P) + (0 - last_used_idx) = Short(P) - last_used_idx
        /\ P + (0 - last_used_idx) = P - last_used_idx
        /\ P - last_used_idx = Num - 1
    <3>1. Short(P) \in Idx
      BY ShortType
    <3> QED BY <2>2, <3>1, Widths DEF Idx
  <2> QED BY <2>2, <2>3, <2>4, <2>5
<1> QED BY <1>1, Invariance, PTL

(* A buffer that is with the device is changed by the device alone, when   *)
(* it reports an event: the thread neither clears nor offers it again.     *)
THEOREM BuffersStayUntouched == ASSUME BeforeWrap PROVE Spec => BuffersUntouched
<1>1. ASSUME TabInv, [Next]_vars
      PROVE  [\A p \in Owned : events'[p] = events[p] \/ sent' = sent + 1]_vars
  <2>1. PICK P \in Nat : Good(P)
    BY <1>1 DEF TabInv
  <2>2. CASE Fill
    BY <2>1, <2>2, FillStep
  <2>3. CASE DevReport
    BY <2>3 DEF DevReport
  <2>4. CASE UNCHANGED vars
    BY <2>4
  <2>5. CASE Next /\ ~Fill /\ ~DevReport
    <3>1. events' = events
      BY <2>5 DEF Next, Step, DevWork, Populate, SetUsedEvent, Publish, Notify, Wake, Ack,
         IntDone, Drain, DrainOver, Rearm, Recheck, Timeout, Interrupt, Cause, DevStart,
         DevStarve, DevSleep, DevSignal
    <3> QED BY <3>1
  <2> QED BY <1>1, <2>2, <2>3, <2>4, <2>5
<1> QED BY <1>1, Invariance, PTL DEF Spec, BuffersUntouched

(* The queue implements TabletService: the events the device reports are   *)
(* handled once each and in order.                                         *)
THEOREM ImplementsService == ASSUME BeforeWrap PROVE Spec => ServiceSpec
<1> DEFINE reported == [n \in 1 .. sent |-> n]
<1>1. Init => Service!Init
  <2> SUFFICES ASSUME Init PROVE reported = << >> /\ handled = << >>
    BY DEF Service!Init
  <2>1. sent = 0 /\ handled = << >>
    BY DEF Init
  <2>2. reported \in Seq(Int) /\ Len(reported) = 0
    BY <2>1
  <2> QED BY <2>1, <2>2
<1>2. ASSUME TabInv, [Next]_vars PROVE [Service!Next]_(Service!tvars)
  <2>1. PICK P \in Nat : Good(P)
    BY <1>2 DEF TabInv
  <2>2. TypeOK /\ Counts(P) /\ InOrder
    BY <2>1 DEF Good
  <2>3. sent \in Nat /\ last_used_idx \in Nat
    BY <2>2, Distances
  <2>4. CASE Drain
    <3>1. /\ last_used_idx < sent /\ handled' = Append(handled, last_used_idx + 1)
          /\ sent' = sent
      BY <2>1, <2>4, DrainStep DEF Drain
    <3>2. handled = [n \in 1 .. last_used_idx |-> n]
      BY <2>2 DEF InOrder
    <3>3. Len(handled) = last_used_idx /\ Len(reported) = sent
      BY <2>3, <3>2
    <3>4. reported[last_used_idx + 1] = last_used_idx + 1
      BY <2>3, <3>1
    <3>5. Service!Handle
      BY <3>1, <3>3, <3>4 DEF Service!Handle
    <3> QED BY <3>5 DEF Service!Next
  <2>5. CASE DevReport
    <3>1. sent' = sent + 1 /\ UNCHANGED handled /\ sent + 1 \in 1 .. MaxEvents
      BY <2>1, <2>5, ReportStep
    <3>2. reported' = Append(reported, sent + 1)
      BY <2>3, <3>1
    <3>3. \E e \in 1 .. MaxEvents : Service!Report(e)
      BY <3>1, <3>2 DEF Service!Report
    <3> QED BY <3>3 DEF Service!Next
  <2>6. CASE (Next /\ ~Drain /\ ~DevReport) \/ UNCHANGED vars
    <3>1. sent' = sent /\ handled' = handled
      BY <2>6 DEF Next, Step, DevWork, Populate, Fill, SetUsedEvent, Publish, Notify, Wake, Ack,
         IntDone, DrainOver, Rearm, Recheck, Timeout, Interrupt, Cause, DevStart, DevStarve,
         DevSleep, DevSignal, vars, eventVars
    <3> QED BY <3>1 DEF Service!tvars
  <2> QED BY <1>2, <2>4, <2>5, <2>6
<1>3. TabInv /\ [Next]_vars => [Service!Next]_(Service!tvars)
  BY <1>2
<1> QED BY <1>1, <1>3, Invariance, PTL DEF Spec, ServiceSpec, Service!Spec
-----------------------------------------------------------------------------
(* The LAN9118: packets are in one place, frames are seen and calls are    *)
(* sent in order, and each packet is answered at most once, for any number *)
(* of packets, any FIFO and any calls (smsc9118.c:2597-3836).              *)
THEOREM DataIsSound ==
  ASSUME MaxRx \in Nat, Batches \subseteq Seq(Nat)
  PROVE  Nic!Spec => []DataSound
<1>1. Nic!Sizes
  BY DEF Nic!Sizes
<1>2. Nic!Spec => []Nic!DataSound
  BY <1>1, Nic!DataIsSound
<1> QED BY <1>2, PTL DEF DataSound
=============================================================================
