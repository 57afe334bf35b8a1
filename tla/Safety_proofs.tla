---------------------------- MODULE Safety_proofs ----------------------------
(***************************************************************************)
(* For a split virtqueue of any size and any buffers: every descriptor is  *)
(* free or in the chain of one buffer, and neither the driver nor the      *)
(* device sleeps on what the other has done.                               *)
(*                                                                         *)
(* The invariant has sequences of descriptors that the free list and the   *)
(* chains are (TableInv), the heads offered to the device, held and used   *)
(* apart from each other (OwnInv), the rings with room for them (RoomInv), *)
(* and how far behind a sleeping side may be (KickInv, SignalInv).  With   *)
(* it the ring keeps what VirtqueueService promises: each buffer that is   *)
(* added is used once and comes back once, in the order of use.            *)
(*                                                                         *)
(* For any period, width of the counters and latency: as long as the clock *)
(* is looked at more than once in a period, it is right to the             *)
(* microsecond, and the kernel is called back when it asked to be.         *)
(*                                                                         *)
(* For any threads that send and receive over the NDIS 6 adapter: its      *)
(* flows stop when nothing of them is out, and run when the miniport does. *)
(* The invariant has of each thread's list what is left of the call it is  *)
(* in (ShapeInv), of each flow what it may be in while its owner is there  *)
(* and who still counts on it (FlowAt), the virtual function's pointer     *)
(* (BindInv), and how far the miniport is with what NDIS asked for (MpInv).*)
(***************************************************************************)
EXTENDS Safety, FiniteSetTheorems, WellFoundedInduction, TLAPS

Idx == 0 .. IdxMod - 1

(* The indices from lo on and before hi.                                   *)
Between(lo, hi) == {i \in Idx : Minus(i, lo) < Minus(hi, lo)}

(* What the device is offered, an entry that is about to be published      *)
(* among it, and what it has used.                                         *)
Top          == IF pc = "publish" THEN Plus(master_idx, 1) ELSE master_idx
Entry(i)     == avail_ring[DESC_INDEX(i)]
UsedEntry(i) == used_ring[DESC_INDEX(i)]
Offered      == Between(taken, Top)
Used         == Between(last_used, used_idx)

TypeInv ==
  /\ event \in BOOLEAN /\ indirect \in BOOLEAN
  /\ master_idx \in Idx /\ avail_idx = master_idx /\ last_used \in Idx /\ used_idx \in Idx
  /\ taken \in Idx /\ old \in Idx /\ avail_event \in Idx /\ used_event \in Idx
  /\ num_added_since_kick \in Nat /\ bufs \in Nat /\ bufs < IdxMod
  /\ NO_INTERRUPT \in BOOLEAN /\ avail_flags \in BOOLEAN /\ used_flags \in BOOLEAN
  /\ awake \in BOOLEAN /\ misjudged \in BOOLEAN /\ signal \in BOOLEAN /\ irq \in BOOLEAN
  /\ avail_ring \in [Descs -> Descs] /\ used_ring \in [Descs -> Descs]
  /\ held \subseteq Descs
  /\ pc \in {"idle", "publish", "check", "check_delayed"}
  /\ dev \in {"asleep", "running", "recheck", "reset"}

(* A descriptor sequence that next goes along, without one twice.          *)
Line(s) ==
  /\ s \in Seq(Descs)
  /\ \A i, j \in 1 .. Len(s) : s[i] = s[j] => i = j
  /\ \A i \in 1 .. Len(s) - 1 : next[s[i]] = s[i + 1]
Apart(s, t) == \A i \in 1 .. Len(s), j \in 1 .. Len(t) : s[i] # t[j]

(* A chain: flagged NEXT but for its last.                                 *)
IsChain(h, s) ==
  /\ Line(s) /\ Len(s) > 0 /\ s[1] = h
  /\ \A i \in 1 .. Len(s) - 1 : NEXT[s[i]]
  /\ ~NEXT[s[Len(s)]]

(* The free descriptors, f, and the chains, c, are all apart.              *)
Laid(f, c) ==
  /\ Line(f) /\ Len(f) = num_unused /\ (Len(f) > 0 => f[1] = first_unused)
  /\ \A h \in Heads : IsChain(h, c[h]) /\ Apart(c[h], f)
  /\ \A g, h \in Heads : g # h => Apart(c[g], c[h])
TableInv ==
  /\ next \in [Descs -> Descs] /\ NEXT \in [Descs -> BOOLEAN]
  /\ first_unused \in Descs /\ opaque \in [Descs -> Bufs \cup {NoBuf}]
  /\ mine \subseteq Bufs
  /\ \E f, c : Laid(f, c)

(* The heads that the device is offered, has, or has used, are all         *)
(* different.                                                              *)
OwnInv ==
  /\ held \subseteq Heads
  /\ \A i \in Offered : Entry(i) \in Heads \ held
  /\ \A i, j \in Offered : Entry(i) = Entry(j) => i = j
  /\ \A i \in Used : UsedEntry(i) \in Heads \ held
  /\ \A i, j \in Used : UsedEntry(i) = UsedEntry(j) => i = j
  /\ \A i \in Offered, j \in Used : Entry(i) # UsedEntry(j)
RoomInv ==
  /\ pc = "publish" => taken # Top
  /\ Minus(Top, taken) <= Num /\ Minus(used_idx, last_used) <= Num /\ Minus(used_idx, old) <= Num
ResetInv == dev = "reset" => pc = "idle" /\ ~signal /\ held = {} /\ ~irq

(* A device that sleeps has been told of all but what the driver has added *)
(* since it kicked last, and has said what to tell it next.                *)
KickInv ==
  /\ dev = "asleep" => Minus(Top, taken) <= num_added_since_kick + IF pc = "publish" THEN 1 ELSE 0
  /\ dev = "asleep" => ~used_flags
  /\ event /\ dev \in {"recheck", "asleep"} => avail_event = taken

(* A driver that sleeps has its interrupts enabled, ...                    *)
FlagInv ==
  /\ pc \in {"check", "check_delayed"} => awake /\ ~NO_INTERRUPT
  /\ ~awake => ~NO_INTERRUPT
  /\ ~event => avail_flags = NO_INTERRUPT
  /\ event /\ ~NO_INTERRUPT => used_event = Plus(last_used, bufs)

(* ... and what had been used when the device signalled last, or began,    *)
(* was no more than it waits for, or the interrupt is on its way.          *)
SignalInv ==
  /\ ~signal => old = used_idx
  /\ ~awake /\ ~misjudged => irq \/ Minus(used_idx, last_used) - Minus(used_idx, old) <= bufs

RunInv  == dev # "reset" => OwnInv /\ RoomInv /\ KickInv /\ SignalInv
RingInv == TypeInv /\ TableInv /\ FlagInv /\ ResetInv /\ RunInv
-----------------------------------------------------------------------------
(* A set of naturals that is not empty has a least member: what stands in  *)
(* for induction below.                                                    *)
LEMMA LeastNat ==
  ASSUME NEW T, T \subseteq Nat, T # {}
  PROVE  \E x \in T : \A y \in T : x <= y
<1> DEFINE R == OpToRel(<, Nat)
<1>1. IsWellFoundedOn(R, Nat)
  BY NatLessThanWellFounded
<1>2. \A x, y \in Nat : x < y => << x, y >> \in R
  BY DEF OpToRel
<1> HIDE DEF R
<1>3. PICK x \in T : \A y \in T : ~(<< y, x >> \in R)
  BY <1>1, WFMin
<1>4. \A y \in T : ~(y < x)
  BY <1>2, <1>3
<1> QED BY <1>3, <1>4

(* Indices: one on, and how far apart two are.                             *)
LEMMA Wrapped ==
  ASSUME RingSizes, NEW x \in Nat, x < IdxMod + IdxMod
  PROVE  /\ x < IdxMod => x % IdxMod = x
         /\ ~(x < IdxMod) => x % IdxMod = x - IdxMod
<1> USE DEF RingSizes
<1>1. x < IdxMod => x % IdxMod = x
  OBVIOUS
<1>2. ASSUME ~(x < IdxMod) PROVE x % IdxMod = x - IdxMod
  <2>1. x - IdxMod \in Nat /\ x - IdxMod < IdxMod
    BY <1>2
  <2>2. (x - IdxMod + IdxMod) % IdxMod = (x - IdxMod) % IdxMod
    BY <2>1
  <2>3. (x - IdxMod) % IdxMod = x - IdxMod
    BY <2>1
  <2> QED BY <2>1, <2>2, <2>3
<1> QED BY <1>1, <1>2

LEMMA PlusIs ==
  ASSUME RingSizes, NEW i \in Idx, NEW k \in Nat, k < IdxMod
  PROVE  /\ Plus(i, k) \in Idx
         /\ i + k < IdxMod => Plus(i, k) = i + k
         /\ ~(i + k < IdxMod) => Plus(i, k) = i + k - IdxMod
<1>1. PICK x \in Nat : x = i + k /\ x < IdxMod + IdxMod
  BY DEF RingSizes, Idx
<1>2. Plus(i, k) = x % IdxMod
  BY <1>1, Zenon DEF Plus
<1>3. /\ x < IdxMod => Plus(i, k) = x
      /\ ~(x < IdxMod) => Plus(i, k) = x - IdxMod
  BY <1>1, <1>2, Wrapped, Zenon
<1> QED BY <1>1, <1>3 DEF RingSizes, Idx

LEMMA MinusIs ==
  ASSUME RingSizes, NEW i \in Idx, NEW j \in Idx
  PROVE  /\ Minus(i, j) \in Idx
         /\ i >= j => Minus(i, j) = i - j
         /\ ~(i >= j) => Minus(i, j) = i - j + IdxMod
<1>1. PICK x \in Nat : x = i + IdxMod - j /\ x < IdxMod + IdxMod
  BY DEF RingSizes, Idx
<1>2. Minus(i, j) = x % IdxMod
  BY <1>1, Zenon DEF Minus
<1>3. /\ x < IdxMod => Minus(i, j) = x
      /\ ~(x < IdxMod) => Minus(i, j) = x - IdxMod
  BY <1>1, <1>2, Wrapped, Zenon
<1> QED BY <1>1, <1>3 DEF RingSizes, Idx

LEMMA Sizes ==
  ASSUME RingSizes
  PROVE  /\ Num \in Nat /\ Num > 0 /\ IdxMod \in Nat /\ Num < IdxMod
         /\ 0 \in Idx /\ \A i \in Idx : i \in Nat /\ i < IdxMod
         /\ \A i \in Nat : i < IdxMod => i \in Idx
BY DEF RingSizes, Idx

(* How far apart two indices are, when one of them goes on.                *)
LEMMA FarApart ==
  ASSUME RingSizes, NEW i \in Idx, NEW j \in Idx
  PROVE  /\ Minus(i, j) \in Nat /\ Minus(i, j) < IdxMod
         /\ Minus(i, j) = 0 <=> i = j
         /\ i >= j => Minus(i, j) = i - j
         /\ i < j => Minus(i, j) = i - j + IdxMod
<1>1. /\ i \in Nat /\ i < IdxMod /\ j \in Nat /\ j < IdxMod /\ IdxMod \in Nat
  BY Sizes
<1>2. /\ Minus(i, j) \in Idx
      /\ i >= j => Minus(i, j) = i - j
      /\ ~(i >= j) => Minus(i, j) = i - j + IdxMod
  BY MinusIs
<1>3. Minus(i, j) \in Nat /\ Minus(i, j) < IdxMod
  BY <1>2, Sizes
<1> QED BY <1>1, <1>2, <1>3

LEMMA Further ==
  ASSUME RingSizes, NEW i \in Idx, NEW j \in Idx, NEW k \in Nat, k < IdxMod
  PROVE  /\ Plus(i, k) \in Idx
         /\ Minus(i, j) + k < IdxMod => Minus(Plus(i, k), j) = Minus(i, j) + k
         /\ k <= Minus(i, j) => Minus(i, Plus(j, k)) = Minus(i, j) - k
         /\ i = j /\ k > 0 => Minus(i, Plus(j, k)) = IdxMod - k
<1>1. /\ i \in Nat /\ i < IdxMod /\ j \in Nat /\ j < IdxMod /\ IdxMod \in Nat
  BY Sizes
<1>2. PICK p \in Idx : /\ p = Plus(i, k)
                       /\ i + k < IdxMod => p = i + k
                       /\ ~(i + k < IdxMod) => p = i + k - IdxMod
  BY PlusIs
<1>3. PICK q \in Idx : /\ q = Plus(j, k)
                       /\ j + k < IdxMod => q = j + k
                       /\ ~(j + k < IdxMod) => q = j + k - IdxMod
  BY PlusIs
<1>4. p \in Nat /\ p < IdxMod /\ q \in Nat /\ q < IdxMod
  BY Sizes
<1>5. PICK m \in Nat : m = Minus(i, j) /\ m < IdxMod /\ (i >= j => m = i - j) /\ (i < j => m = i - j + IdxMod)
  BY FarApart
<1>6. PICK a \in Nat : a = Minus(p, j) /\ a < IdxMod /\ (p >= j => a = p - j) /\ (p < j => a = p - j + IdxMod)
  BY FarApart
<1>7. PICK b \in Nat : b = Minus(i, q) /\ b < IdxMod /\ (i >= q => b = i - q) /\ (i < q => b = i - q + IdxMod)
  BY FarApart
<1>8. m + k < IdxMod => a = m + k
  BY <1>1, <1>2, <1>4, <1>5, <1>6
<1>9. k <= m => b = m - k
  BY <1>1, <1>3, <1>4, <1>5, <1>7
<1>10. i = j /\ k > 0 => b = IdxMod - k
  BY <1>1, <1>3, <1>4, <1>5, <1>7
<1> QED BY <1>2, <1>3, <1>5, <1>6, <1>7, <1>8, <1>9, <1>10

LEMMA Same ==
  ASSUME RingSizes, NEW i \in Idx, NEW j \in Idx, NEW b \in Idx, Minus(i, b) = Minus(j, b)
  PROVE  i = j
<1>1. /\ i \in Nat /\ i < IdxMod /\ j \in Nat /\ j < IdxMod /\ IdxMod \in Nat
      /\ b \in Nat /\ b < IdxMod
  BY Sizes
<1>2. (i >= b => Minus(i, b) = i - b) /\ (i < b => Minus(i, b) = i - b + IdxMod)
  BY FarApart
<1>3. (j >= b => Minus(j, b) = j - b) /\ (j < b => Minus(j, b) = j - b + IdxMod)
  BY FarApart
<1> QED BY <1>1, <1>2, <1>3

LEMMA SlotInRing == RingSizes => \A i \in Idx : DESC_INDEX(i) \in Descs
BY DEF RingSizes, Idx, DESC_INDEX, Descs

(* The window of indices when its lower end is advanced ...                *)
LEMMA Shrink ==
  ASSUME RingSizes, NEW a \in Idx, NEW b \in Idx, a # b
  PROVE  /\ b \in Between(b, a) /\ Plus(b, 1) \in Idx
         /\ Between(Plus(b, 1), a) = Between(b, a) \ {b}
         /\ Minus(a, Plus(b, 1)) = Minus(a, b) - 1
<1>1. 1 \in Nat /\ 1 < IdxMod /\ IdxMod \in Nat
  BY Sizes
<1>2. Plus(b, 1) \in Idx /\ Minus(b, Plus(b, 1)) = IdxMod - 1 /\ Minus(b, b) = 0
  <2>1. Minus(b, b) = 0
    BY FarApart
  <2>2. b = b /\ 1 > 0
    OBVIOUS
  <2> QED BY <1>1, <2>1, <2>2, Further
<1>3. ASSUME NEW i \in Idx, i # b
      PROVE  Minus(i, Plus(b, 1)) = Minus(i, b) - 1 /\ Minus(i, b) \in Nat /\ Minus(i, b) < IdxMod
  <2>1. Minus(i, b) \in Nat /\ Minus(i, b) < IdxMod /\ Minus(i, b) # 0
    BY <1>3, FarApart
  <2>2. 1 <= Minus(i, b)
    BY <2>1
  <2> QED BY <1>1, <2>1, <2>2, Further
<1>4. ASSUME NEW i \in Idx
      PROVE  Minus(i, Plus(b, 1)) < Minus(a, Plus(b, 1)) <=> Minus(i, b) < Minus(a, b) /\ i # b
  <2>1. PICK m \in Nat : m = Minus(a, b) /\ m < IdxMod /\ Minus(a, Plus(b, 1)) = m - 1
    BY <1>3
  <2>2. CASE i = b
    BY <1>1, <1>2, <2>1, <2>2
  <2>3. CASE i # b
    <3>1. PICK n \in Nat : n = Minus(i, b) /\ Minus(i, Plus(b, 1)) = n - 1
      BY <1>3, <2>3
    <3> QED BY <2>1, <2>3, <3>1
  <2> QED BY <2>2, <2>3
<1>5. Minus(b, b) < Minus(a, b)
  <2>1. PICK m \in Nat : m = Minus(a, b) /\ m # 0
    BY FarApart
  <2> QED BY <1>2, <2>1
<1>6. Between(Plus(b, 1), a) = Between(b, a) \ {b}
  BY <1>4 DEF Between
<1>7. b \in Between(b, a)
  BY <1>5 DEF Between
<1>8. Minus(a, Plus(b, 1)) = Minus(a, b) - 1
  BY <1>3
<1> QED BY <1>2, <1>6, <1>7, <1>8

(* ... and when its upper end is.                                          *)
LEMMA Grow ==
  ASSUME RingSizes, NEW a \in Idx, NEW b \in Idx, Minus(a, b) + 1 < IdxMod
  PROVE  /\ a \notin Between(b, a) /\ Plus(a, 1) \in Idx
         /\ Between(b, Plus(a, 1)) = Between(b, a) \cup {a}
         /\ Minus(Plus(a, 1), b) = Minus(a, b) + 1
<1>1. 1 \in Nat /\ 1 < IdxMod /\ IdxMod \in Nat
  BY Sizes
<1>2. Plus(a, 1) \in Idx /\ Minus(Plus(a, 1), b) = Minus(a, b) + 1
  BY <1>1, Further
<1>3. PICK m \in Nat : m = Minus(a, b)
  BY FarApart
<1>4. ASSUME NEW i \in Idx PROVE Minus(i, b) < m + 1 <=> Minus(i, b) < m \/ i = a
  <2>1. PICK n \in Nat : n = Minus(i, b)
    BY FarApart
  <2>2. n = m => i = a
    BY <1>3, <2>1, Same
  <2>3. i = a => n = m
    BY <1>3, <2>1
  <2> QED BY <2>1, <2>2, <2>3
<1>5. ~(m < m)
  OBVIOUS
<1>6. a \notin Between(b, a)
  BY <1>3, <1>5 DEF Between
<1>7. Between(b, Plus(a, 1)) = Between(b, a) \cup {a}
  BY <1>2, <1>3, <1>4 DEF Between
<1> QED BY <1>2, <1>6, <1>7

(* There is none in it when its ends meet.                                 *)
LEMMA NoneBetween == RingSizes => \A a \in Idx : Between(a, a) = {} /\ Minus(a, a) = 0
<1> SUFFICES ASSUME RingSizes, NEW a \in Idx PROVE Between(a, a) = {} /\ Minus(a, a) = 0
  OBVIOUS
<1>1. Minus(a, a) = 0
  BY FarApart
<1>2. ASSUME NEW i \in Idx PROVE ~(Minus(i, a) < Minus(a, a))
  <2>1. PICK n \in Nat : n = Minus(i, a)
    BY FarApart
  <2> QED BY <1>1, <2>1
<1> QED BY <1>1, <1>2 DEF Between

(* The only multiple of n that is less than n from zero is zero.           *)
LEMMA SmallMultiple ==
  ASSUME NEW n \in Nat, n > 0, NEW d \in Int, n * d < n, 0 - n < n * d
  PROVE  d = 0
<1>1. CASE d >= 1
  <2>1. n * d >= n * 1
    BY <1>1, Z3
  <2> QED BY <2>1
<1>2. CASE d <= -1
  <2>1. n * d <= n * (-1)
    BY <1>2, Z3
  <2> QED BY <2>1
<1> QED BY <1>1, <1>2

(* Products of which one factor is common.                                 *)
LEMMA Products ==
  ASSUME NEW a \in Int, NEW b \in Int, NEW c \in Int, NEW d \in Int
  PROVE  /\ a * b - a * c = a * (b - c)
         /\ (a * b - a * c) + a * d = a * (b - c + d)
         /\ (a * b - a * c) - a * d = a * (b - c - d)
<1>1. a * b - a * c = a * (b - c)
  BY Z3
<1>2. (a * b - a * c) + a * d = a * (b - c + d)
  BY Z3
<1>3. (a * b - a * c) - a * d = a * (b - c - d)
  BY Z3
<1> QED BY <1>1, <1>2, <1>3

(* Indices that are less than the ring apart have slots of their own: Num  *)
(* divides IdxMod.                                                         *)
LEMMA SlotsApart ==
  ASSUME RingSizes, NEW a \in Idx, NEW i \in Idx, NEW j \in Idx, i # j,
         Minus(i, a) < Num, Minus(j, a) < Num
  PROVE  DESC_INDEX(i) # DESC_INDEX(j)
<1> SUFFICES ASSUME i % Num = j % Num PROVE FALSE
  BY DEF DESC_INDEX
<1>1. Num \in Nat /\ Num > 0 /\ IdxMod \in Nat /\ IdxMod % Num = 0 /\ i \in Int /\ j \in Int
      /\ a \in Int
  BY DEF RingSizes, Idx
<1>2. PICK q \in Int : IdxMod = Num * q
  <2>1. IdxMod \div Num \in Int /\ IdxMod = Num * (IdxMod \div Num) + (IdxMod % Num)
    BY <1>1
  <2> QED BY <1>1, <2>1
<1>3. PICK m \in Int, n \in Int : i - j = Num * m - Num * n
  <2>1. i \div Num \in Int /\ i = Num * (i \div Num) + (i % Num)
    BY <1>1
  <2>2. j \div Num \in Int /\ j = Num * (j \div Num) + (j % Num)
    BY <1>1
  <2>3. PICK m \in Int : m = i \div Num
    BY <2>1
  <2>4. PICK n \in Int : n = j \div Num
    BY <2>2
  <2>5. PICK r \in Int : r = j % Num
    BY <1>1
  <2>6. PICK x \in Int : x = Num * m
    BY <1>1
  <2>7. PICK y \in Int : y = Num * n
    BY <1>1
  <2>8. i = x + r /\ j = y + r
    BY <2>1, <2>2, <2>3, <2>4, <2>5, <2>6, <2>7
  <2>9. i - j = x - y
    BY <2>8
  <2> QED BY <2>6, <2>7, <2>9
<1>4. PICK x \in Nat : /\ Minus(i, a) = x /\ (i >= a => x = i - a) /\ (i < a => x = i - a + IdxMod)
  BY FarApart
<1>5. PICK y \in Nat : /\ Minus(j, a) = y /\ (j >= a => y = j - a) /\ (j < a => y = j - a + IdxMod)
  BY FarApart
<1>6. PICK c \in {-1, 0, 1} : x - y = (i - j) + c * IdxMod
  BY <1>1, <1>4, <1>5
<1>7. PICK d \in Int : x - y = Num * d
  <2>1. x - y = (i - j) + c * IdxMod
    BY <1>6
  <2>2. CASE c = 0
    <3>1. x - y = Num * m - Num * n
      BY <1>1, <1>3, <2>1, <2>2
    <3>2. Num * m - Num * n = Num * (m - n)
      BY <1>1, Products
    <3> QED BY <3>1, <3>2
  <2>3. CASE c = 1
    <3>1. x - y = (Num * m - Num * n) + Num * q
      BY <1>1, <1>2, <1>3, <2>1, <2>3
    <3>2. (Num * m - Num * n) + Num * q = Num * (m - n + q)
      BY <1>1, Products
    <3> QED BY <3>1, <3>2
  <2>4. CASE c = -1
    <3>1. x - y = (Num * m - Num * n) - Num * q
      BY <1>1, <1>2, <1>3, <2>1, <2>4
    <3>2. (Num * m - Num * n) - Num * q = Num * (m - n - q)
      BY <1>1, Products
    <3> QED BY <3>1, <3>2
  <2> QED BY <2>2, <2>3, <2>4
<1>8. Num * d < Num /\ 0 - Num < Num * d
  BY <1>1, <1>4, <1>5, <1>7
<1>9. d = 0
  BY <1>1, <1>8, SmallMultiple
<1>10. x = y
  BY <1>1, <1>7, <1>9
<1> QED BY <1>4, <1>5, <1>10, Same

(* No more different descriptors than there are.                           *)
LEMMA Pigeons ==
  ASSUME RingSizes, NEW n \in Nat, NEW f,
         \A i \in 1 .. n : f[i] \in Descs,
         \A i, j \in 1 .. n : f[i] = f[j] => i = j
  PROVE  n <= Num
<1> DEFINE g == [i \in 1 .. n |-> f[i]]
<1>1. g \in [1 .. n -> Descs] /\ \A i, j \in 1 .. n : i # j => g[i] # g[j]
  OBVIOUS
<1>2. /\ IsFiniteSet(1 .. n) /\ IsFiniteSet(Descs)
      /\ Cardinality(1 .. n) = n /\ Cardinality(Descs) = Num
  BY FS_Interval DEF RingSizes, Descs
<1> HIDE DEF g
<1>3. ~(Cardinality(Descs) < Cardinality(1 .. n))
  BY <1>1, <1>2, FS_PigeonHole
<1> QED BY <1>2, <1>3 DEF RingSizes

(* A line of distinct descriptors names as many as it is long.             *)
LEMMA LineSize ==
  ASSUME RingSizes, NEW s, Line(s)
  PROVE  /\ Len(s) \in Nat /\ Len(s) <= Num
         /\ Cardinality(ToSet(s)) = Len(s)
<1>1. s \in Seq(Descs) /\ Len(s) \in Nat /\ \A i \in 1 .. Len(s) : s[i] \in Descs
  BY DEF Line
<1>2. \A i, j \in 1 .. Len(s) : s[i] = s[j] => i = j
  BY DEF Line
<1>3. Len(s) <= Num
  BY <1>1, <1>2, Pigeons
<1>4. s \in [1 .. Len(s) -> ToSet(s)] /\ ToSet(s) = {s[i] : i \in 1 .. Len(s)}
  BY <1>1 DEF ToSet
<1>5. s \in Injection(1 .. Len(s), ToSet(s)) /\ s \in Surjection(1 .. Len(s), ToSet(s))
  BY <1>2, <1>4 DEF Injection, Surjection, IsInjective
<1>6. \A n \in Nat : IsFiniteSet(1 .. n) /\ Cardinality(1 .. n) = n
  BY FS_Interval
<1>7. Cardinality(ToSet(s)) = Cardinality(1 .. Len(s))
  BY <1>5, <1>6, FS_Surjection
<1> QED BY <1>1, <1>3, <1>6, <1>7

(* When the entries of a window are different there is room for one more.  *)
LEMMA Room ==
  ASSUME RingSizes, NEW lo \in Idx, NEW hi \in Idx, NEW e, NEW d \in Descs,
         \A i \in Between(lo, hi) : e[DESC_INDEX(i)] \in Descs \ {d},
         \A i, j \in Between(lo, hi) : e[DESC_INDEX(i)] = e[DESC_INDEX(j)] => i = j
  PROVE  Minus(hi, lo) < Num
<1> DEFINE n == Minus(hi, lo)
           f == [k \in 1 .. n + 1 |-> IF k <= n THEN e[DESC_INDEX(Plus(lo, k - 1))] ELSE d]
<1>1. n \in Nat /\ n < IdxMod
  BY FarApart
<1>2. ASSUME NEW k \in 1 .. n
      PROVE  Plus(lo, k - 1) \in Idx /\ Minus(Plus(lo, k - 1), lo) = k - 1
  <2>1. Minus(lo, lo) = 0
    BY FarApart
  <2>2. k - 1 \in Nat /\ k - 1 < IdxMod /\ 0 + (k - 1) = k - 1 /\ IdxMod \in Nat
    BY <1>1, Sizes
  <2> QED BY <2>1, <2>2, Further
<1>3. \A k \in 1 .. n : Plus(lo, k - 1) \in Between(lo, hi)
  BY <1>1, <1>2 DEF Between
<1> HIDE DEF n
<1>4. \A k \in 1 .. n + 1 : IF k <= n THEN k \in 1 .. n /\ f[k] = e[DESC_INDEX(Plus(lo, k - 1))]
                                      ELSE k = n + 1 /\ f[k] = d
  BY <1>1
<1> HIDE DEF f
<1>5. \A k \in 1 .. n + 1 : f[k] \in Descs
  BY <1>3, <1>4
<1>6. ASSUME NEW j \in 1 .. n + 1, NEW k \in 1 .. n + 1, f[j] = f[k] PROVE j = k
  <2>1. CASE j <= n /\ k <= n
    <3>1. Plus(lo, j - 1) = Plus(lo, k - 1)
      BY <1>3, <1>4, <1>6, <2>1
    <3>2. j - 1 = k - 1
      BY <1>2, <1>4, <2>1, <3>1
    <3> QED BY <3>2
  <2>2. CASE ~(j <= n /\ k <= n)
    BY <1>3, <1>4, <1>6, <2>2
  <2> QED BY <2>1, <2>2
<1>7. n + 1 <= Num /\ Num \in Nat
  BY <1>1, <1>5, <1>6, Pigeons, Sizes
<1> QED BY <1>1, <1>7 DEF n
-----------------------------------------------------------------------------
(* Follow is a function: the n-th of it is made of the one before.         *)
FollowsTo(g, m) ==
  /\ \A d \in Descs : g[0][d] = << >>
  /\ \A n \in 1 .. m, d \in Descs : g[n][d] = << d >> \o g[n - 1][next[d]]
  /\ \A n \in 0 .. m, d \in Descs : g[n][d] \in Seq(Descs)

LEMMA FollowExists ==
  ASSUME next \in [Descs -> Descs], NEW m \in Nat
  PROVE  \E g : FollowsTo(g, m)
<1> DEFINE T == {n \in Nat : ~\E g : FollowsTo(g, n)}
<1> SUFFICES ASSUME T # {} PROVE FALSE
  OBVIOUS
<1>1. PICK n \in T : \A y \in T : n <= y
  <2>1. T \subseteq Nat
    OBVIOUS
  <2> HIDE DEF T
  <2> QED BY <2>1, LeastNat
<1>2. n \in Nat /\ ~\E g : FollowsTo(g, n)
  OBVIOUS
<1>3. n # 0
  <2> DEFINE g == [k \in {0} |-> [d \in Descs |-> << >>]]
  <2>1. FollowsTo(g, 0)
    BY DEF FollowsTo
  <2> QED BY <1>2, <2>1
<1>4. PICK g : FollowsTo(g, n - 1)
  <2>1. n - 1 \in Nat /\ ~(n <= n - 1)
    BY <1>2, <1>3
  <2> QED BY <1>1, <2>1
<1> DEFINE h == [k \in 0 .. n |-> [d \in Descs |-> IF k = n THEN << d >> \o g[n - 1][next[d]] ELSE g[k][d]]]
<1>5. \A k \in 0 .. n, d \in Descs : h[k][d] = IF k = n THEN << d >> \o g[n - 1][next[d]] ELSE g[k][d]
  OBVIOUS
<1> HIDE DEF h, T
<1>6. \A d \in Descs : h[0][d] = << >>
  <2>1. 0 \in 0 .. n
    BY <1>2
  <2> QED BY <1>3, <1>4, <1>5, <2>1 DEF FollowsTo
<1>7. ASSUME NEW k \in 1 .. n, NEW d \in Descs PROVE h[k][d] = << d >> \o h[k - 1][next[d]]
  <2>1. k \in 0 .. n /\ k - 1 \in 0 .. n /\ k - 1 # n /\ (k # n => k \in 1 .. n - 1) /\ next[d] \in Descs
    BY <1>2
  <2>2. h[k - 1][next[d]] = g[k - 1][next[d]]
    BY <1>5, <2>1
  <2>3. CASE k = n
    BY <1>5, <2>1, <2>2, <2>3
  <2>4. CASE k # n
    <3>1. h[k][d] = g[k][d]
      BY <1>5, <2>1, <2>4
    <3> QED BY <1>4, <2>1, <2>2, <2>4, <3>1 DEF FollowsTo
  <2> QED BY <2>3, <2>4
<1>8. ASSUME NEW k \in 0 .. n, NEW d \in Descs PROVE h[k][d] \in Seq(Descs)
  <2>1. CASE k = n
    <3>1. next[d] \in Descs /\ n - 1 \in 0 .. n - 1
      BY <1>2, <1>3
    <3>2. g[n - 1][next[d]] \in Seq(Descs)
      BY <1>4, <3>1 DEF FollowsTo
    <3>3. << d >> \o g[n - 1][next[d]] \in Seq(Descs)
      BY <3>2
    <3> QED BY <1>5, <2>1, <3>3
  <2>2. CASE k # n
    <3>1. k \in 0 .. n - 1
      BY <1>2, <2>2
    <3> QED BY <1>4, <1>5, <2>2, <3>1 DEF FollowsTo
  <2> QED BY <2>1, <2>2
<1>9. FollowsTo(h, n)
  BY <1>6, <1>7, <1>8 DEF FollowsTo
<1> QED BY <1>2, <1>9

LEMMA FollowIs ==
  ASSUME RingSizes, next \in [Descs -> Descs]
  PROVE  FollowsTo(Follow, Num)
<1> DEFINE Body(g) == [n \in 0 .. Num |-> [d \in Descs |->
                         IF n = 0 THEN << >> ELSE << d >> \o g[n - 1][next[d]]]]
<1>1. PICK g : FollowsTo(g, Num)
  BY FollowExists DEF RingSizes
<1> DEFINE h == [n \in 0 .. Num |-> [d \in Descs |-> g[n][d]]]
<1>2. \A n \in 0 .. Num, d \in Descs : h[n][d] = g[n][d]
  OBVIOUS
<1>3. \A n \in 0 .. Num, d \in Descs :
        h[n][d] = IF n = 0 THEN << >> ELSE << d >> \o h[n - 1][next[d]]
  <2> SUFFICES ASSUME NEW n \in 0 .. Num, NEW d \in Descs
               PROVE  h[n][d] = IF n = 0 THEN << >> ELSE << d >> \o h[n - 1][next[d]]
    OBVIOUS
  <2>1. CASE n = 0
    BY <1>1, <1>2, <2>1 DEF FollowsTo
  <2>2. CASE n # 0
    <3>1. n \in 1 .. Num /\ n - 1 \in 0 .. Num /\ next[d] \in Descs
      BY <2>2 DEF RingSizes
    <3>2. g[n][d] = << d >> \o g[n - 1][next[d]]
      BY <1>1, <3>1 DEF FollowsTo
    <3>3. h[n][d] = g[n][d] /\ h[n - 1][next[d]] = g[n - 1][next[d]]
      BY <1>2, <3>1
    <3> HIDE DEF h
    <3> QED BY <2>2, <3>2, <3>3
  <2> QED BY <2>1, <2>2
<1>4. h = Body(h)
  <2>1. h = [n \in 0 .. Num |-> [d \in Descs |-> h[n][d]]]
    OBVIOUS
  <2> HIDE DEF h
  <2> QED BY <1>3, <2>1
<1> HIDE DEF h
<1>5. Follow = CHOOSE f : f = Body(f)
  BY DEF Follow
<1>6. Follow = Body(Follow)
  BY <1>4, <1>5, Zenon
<1>7. \A n \in 0 .. Num, d \in Descs :
        Follow[n][d] = IF n = 0 THEN << >> ELSE << d >> \o Follow[n - 1][next[d]]
  <2> DEFINE B == Body(Follow)
  <2>1. \A n \in 0 .. Num, d \in Descs :
          B[n][d] = IF n = 0 THEN << >> ELSE << d >> \o Follow[n - 1][next[d]]
    OBVIOUS
  <2>2. Follow = B
    BY <1>6
  <2> HIDE DEF B
  <2> QED BY <2>1, <2>2
<1> DEFINE T == {n \in Nat : n <= Num /\ \E d \in Descs : Follow[n][d] # g[n][d]}
<1>8. T = {}
  <2> SUFFICES ASSUME T # {} PROVE FALSE
    OBVIOUS
  <2>1. PICK n \in T : \A y \in T : n <= y
    <3>1. T \subseteq Nat
      OBVIOUS
    <3> HIDE DEF T
    <3> QED BY <3>1, LeastNat
  <2>2. PICK d \in Descs : n \in 0 .. Num /\ Follow[n][d] # g[n][d]
    BY DEF RingSizes
  <2>3. n # 0
    BY <1>1, <1>7, <2>2 DEF FollowsTo
  <2>4. n \in 1 .. Num /\ n - 1 \in Nat /\ n - 1 <= Num /\ ~(n <= n - 1) /\ next[d] \in Descs
    BY <2>2, <2>3 DEF RingSizes
  <2>5. n - 1 \notin T
    BY <2>1, <2>4
  <2>6. Follow[n - 1][next[d]] = g[n - 1][next[d]]
    BY <2>4, <2>5
  <2> HIDE DEF T
  <2>7. g[n][d] = << d >> \o g[n - 1][next[d]]
    BY <1>1, <2>4 DEF FollowsTo
  <2>8. Follow[n][d] = << d >> \o Follow[n - 1][next[d]]
    BY <1>7, <2>2, <2>3
  <2> QED BY <2>2, <2>6, <2>7, <2>8
<1>9. \A n \in 0 .. Num, d \in Descs : Follow[n][d] = g[n][d]
  BY <1>8 DEF RingSizes
<1>10. /\ 0 \in 0 .. Num
       /\ \A n \in 1 .. Num : n \in 0 .. Num /\ n - 1 \in 0 .. Num
       /\ \A d \in Descs : next[d] \in Descs
  BY DEF RingSizes
<1> HIDE DEF T
<1>11. ASSUME NEW d \in Descs PROVE Follow[0][d] = << >>
  BY <1>7, <1>10
<1>12. ASSUME NEW n \in 1 .. Num, NEW d \in Descs
       PROVE  Follow[n][d] = << d >> \o Follow[n - 1][next[d]]
  <2>1. n \in 0 .. Num /\ n # 0
    BY DEF RingSizes
  <2> QED BY <1>7, <2>1
<1>13. ASSUME NEW n \in 0 .. Num, NEW d \in Descs PROVE Follow[n][d] \in Seq(Descs)
  BY <1>1, <1>9 DEF FollowsTo
<1> QED BY <1>11, <1>12, <1>13 DEF FollowsTo

(* Sequences with the same elements.                                       *)
LEMMA SameSeq ==
  ASSUME NEW s \in Seq(Descs), NEW t \in Seq(Descs), Len(s) = Len(t),
         \A i \in 1 .. Len(s) : s[i] = t[i]
  PROVE  s = t
<1>1. s = [i \in 1 .. Len(s) |-> s[i]] /\ t = [i \in 1 .. Len(t) |-> t[i]]
  OBVIOUS
<1> QED BY <1>1, Zenon

LEMMA FrontAt ==
  ASSUME NEW s \in Seq(Descs), NEW m \in Nat, m <= Len(s)
  PROVE  /\ SubSeq(s, 1, m) \in Seq(Descs) /\ Len(SubSeq(s, 1, m)) = m
         /\ \A i \in 1 .. m : SubSeq(s, 1, m)[i] = s[i]
OBVIOUS

LEMMA BackAt ==
  ASSUME NEW s \in Seq(Descs), NEW m \in Nat, m <= Len(s)
  PROVE  /\ SubSeq(s, m + 1, Len(s)) \in Seq(Descs) /\ Len(SubSeq(s, m + 1, Len(s))) = Len(s) - m
         /\ \A i \in 1 .. Len(s) - m : SubSeq(s, m + 1, Len(s))[i] = s[m + i]
OBVIOUS

LEMMA JoinAt ==
  ASSUME NEW s \in Seq(Descs), NEW t \in Seq(Descs)
  PROVE  /\ s \o t \in Seq(Descs) /\ Len(s \o t) = Len(s) + Len(t)
         /\ \A i \in 1 .. Len(s) : (s \o t)[i] = s[i]
         /\ \A i \in 1 .. Len(t) : (s \o t)[Len(s) + i] = t[i]
OBVIOUS

(* One in front.                                                           *)
LEMMA PrefixOne ==
  ASSUME NEW d \in Descs, NEW t \in Seq(Descs), NEW k \in 1 .. Len(t)
  PROVE  (<< d >> \o t)[k + 1] = t[k]
OBVIOUS

(* A path goes along a line as long as that lasts.                         *)
LEMMA PathLen ==
  ASSUME RingSizes, next \in [Descs -> Descs]
  PROVE  \A m \in 0 .. Num, d \in Descs : Len(Follow[m][d]) = m
<1> DEFINE T == {m \in Nat : m <= Num /\ \E d \in Descs : Len(Follow[m][d]) # m}
<1>1. T = {}
  <2> SUFFICES ASSUME T # {} PROVE FALSE
    OBVIOUS
  <2>1. PICK m \in T : \A y \in T : m <= y
    <3>1. T \subseteq Nat
      OBVIOUS
    <3> HIDE DEF T
    <3> QED BY <3>1, LeastNat
  <2>2. PICK d \in Descs : m \in 0 .. Num /\ Len(Follow[m][d]) # m
    BY DEF RingSizes
  <2>3. FollowsTo(Follow, Num)
    BY FollowIs
  <2>4. m # 0
    <3>1. Len(<< >>) = 0
      OBVIOUS
    <3> QED BY <2>2, <2>3, <3>1 DEF FollowsTo
  <2>5. m \in 1 .. Num /\ m - 1 \in Nat /\ m - 1 <= Num /\ m - 1 \in 0 .. Num /\ ~(m <= m - 1) /\ next[d] \in Descs
    BY <2>2, <2>4 DEF RingSizes
  <2>6. m - 1 \notin T
    BY <2>1, <2>5
  <2>7. Len(Follow[m - 1][next[d]]) = m - 1
    BY <2>5, <2>6
  <2> HIDE DEF T
  <2>8. Follow[m][d] = << d >> \o Follow[m - 1][next[d]] /\ Follow[m - 1][next[d]] \in Seq(Descs)
    BY <2>3, <2>5 DEF FollowsTo
  <2>9. Len(Follow[m][d]) = 1 + Len(Follow[m - 1][next[d]])
    BY <2>8
  <2> QED BY <2>2, <2>5, <2>7, <2>9
<1> QED BY <1>1 DEF RingSizes

LEMMA PathAlong ==
  ASSUME RingSizes, next \in [Descs -> Descs], NEW s, Line(s)
  PROVE  \A m \in 0 .. Num, j \in 1 .. Len(s), i \in Nat :
           i > 0 /\ i <= m /\ j + i - 1 <= Len(s) => Follow[m][s[j]][i] = s[j + i - 1]
<1> DEFINE Fits(m, j, i) == j \in 1 .. Len(s) /\ i \in Nat /\ i > 0 /\ i <= m /\ j + i - 1 <= Len(s)
           T == {m \in Nat : m <= Num /\ \E j, i : Fits(m, j, i) /\ Follow[m][s[j]][i] # s[j + i - 1]}
<1>1. s \in Seq(Descs) /\ Len(s) \in Nat /\ \A i \in 1 .. Len(s) : s[i] \in Descs
  BY DEF Line
<1>2. T = {}
  <2> SUFFICES ASSUME T # {} PROVE FALSE
    OBVIOUS
  <2>1. PICK m \in T : \A y \in T : m <= y
    <3>1. T \subseteq Nat
      OBVIOUS
    <3> HIDE DEF T
    <3> QED BY <3>1, LeastNat
  <2>2. PICK j, i : m \in 0 .. Num /\ Fits(m, j, i) /\ Follow[m][s[j]][i] # s[j + i - 1]
    BY DEF RingSizes
  <2>3. FollowsTo(Follow, Num)
    BY FollowIs
  <2>4. /\ m \in 1 .. Num /\ m - 1 \in Nat /\ m - 1 <= Num /\ m - 1 \in 0 .. Num /\ ~(m <= m - 1)
        /\ i \in Nat /\ i > 0 /\ i <= m /\ j \in 1 .. Len(s) /\ j + i - 1 <= Len(s)
    BY <2>2 DEF RingSizes
  <2>5. s[j] \in Descs /\ next[s[j]] \in Descs
    BY <1>1, <2>4
  <2>6. m - 1 \notin T
    BY <2>1, <2>4
  <2>7. PICK t \in Seq(Descs) : t = Follow[m - 1][next[s[j]]] /\ Follow[m][s[j]] = << s[j] >> \o t
    BY <2>3, <2>4, <2>5 DEF FollowsTo
  <2>8. Len(t) = m - 1
    BY <2>4, <2>5, <2>7, PathLen
  <2>9. CASE i = 1
    <3>1. (<< s[j] >> \o t)[1] = s[j] /\ j + 1 - 1 = j
      BY <2>4, <2>5, <2>7
    <3> QED BY <2>2, <2>7, <2>9, <3>1
  <2>10. CASE i # 1
    <3>0. /\ i \in Nat /\ i > 1 /\ m \in Nat /\ j \in Nat /\ Len(s) \in Nat
          /\ i <= m /\ 1 <= j /\ j + i - 1 <= Len(s)
      BY <1>1, <2>4, <2>10
    <3>1. /\ i - 1 \in Nat /\ i - 1 > 0 /\ i - 1 <= m - 1 /\ j + 1 \in 1 .. Len(s)
          /\ (j + 1) + (i - 1) - 1 <= Len(s) /\ (j + 1) + (i - 1) - 1 = j + i - 1 /\ j \in 1 .. Len(s) - 1
      <4> DEFINE n == Len(s)
      <4>1. /\ i \in Nat /\ i > 1 /\ m \in Nat /\ j \in Nat /\ n \in Nat
            /\ i <= m /\ 1 <= j /\ j + i - 1 <= n
        BY <3>0
      <4> HIDE DEF n
      <4>2. j < n /\ (j + 1) + (i - 1) - 1 = j + i - 1
        BY <4>1
      <4>3. i - 1 \in Nat /\ i - 1 > 0 /\ i - 1 <= m - 1
        BY <4>1
      <4>4. j + 1 \in 1 .. n /\ j \in 1 .. n - 1
        BY <4>1, <4>2
      <4> QED BY <4>1, <4>2, <4>3, <4>4 DEF n
    <3>2. next[s[j]] = s[j + 1]
      BY <3>1 DEF Line
    <3>3. Fits(m - 1, j + 1, i - 1)
      BY <3>1
    <3>4. Follow[m - 1][s[j + 1]][i - 1] = s[(j + 1) + (i - 1) - 1]
      BY <2>4, <2>6, <3>3
    <3>5. t[i - 1] = s[j + i - 1]
      BY <2>7, <3>1, <3>2, <3>4
    <3>6. (<< s[j] >> \o t)[i] = t[i - 1]
      <4>1. PICK k \in 1 .. Len(t) : k = i - 1 /\ k + 1 = i
        BY <2>8, <3>0
      <4> QED BY <2>5, <4>1, PrefixOne
    <3> QED BY <2>2, <2>7, <3>5, <3>6
  <2> QED BY <2>9, <2>10
<1>3. ASSUME NEW m \in 0 .. Num, NEW j \in 1 .. Len(s), NEW i \in Nat,
             i > 0, i <= m, j + i - 1 <= Len(s)
      PROVE  Follow[m][s[j]][i] = s[j + i - 1]
  <2>1. m \in Nat /\ m <= Num
    BY DEF RingSizes
  <2>2. Fits(m, j, i)
    BY <1>3
  <2>3. m \notin T
    BY <1>2
  <2> HIDE DEF Fits
  <2> QED BY <2>1, <2>2, <2>3
<1> QED BY <1>3

(* Which is how the free list and a chain are found again.                 *)
LEMMA FoundLine ==
  ASSUME RingSizes, next \in [Descs -> Descs], NEW s, Line(s), NEW d \in Descs,
         Len(s) > 0 => s[1] = d
  PROVE  Len(s) \in 0 .. Num /\ Follow[Len(s)][d] = s
<1>1. s \in Seq(Descs) /\ Len(s) \in Nat /\ Len(s) <= Num
  BY LineSize DEF Line
<1>2. Len(s) \in 0 .. Num
  BY <1>1 DEF RingSizes
<1>3. Follow[Len(s)][d] \in Seq(Descs) /\ Len(Follow[Len(s)][d]) = Len(s)
  BY <1>2, FollowIs, PathLen DEF FollowsTo
<1>4. ASSUME NEW i \in 1 .. Len(s) PROVE Follow[Len(s)][d][i] = s[i]
  <2>1. /\ 1 \in 1 .. Len(s) /\ i \in Nat /\ i > 0 /\ i <= Len(s) /\ 1 + i - 1 <= Len(s)
        /\ 1 + i - 1 = i /\ s[1] = d
    BY <1>1
  <2>2. Follow[Len(s)][s[1]][i] = s[1 + i - 1]
    BY <1>2, <2>1, PathAlong
  <2> QED BY <2>1, <2>2
<1> QED BY <1>1, <1>2, <1>3, <1>4, SameSeq

LEMMA FoundChain ==
  ASSUME RingSizes, next \in [Descs -> Descs], NEW h \in Descs, NEW s, IsChain(h, s)
  PROVE  Chain(h) = s
<1> DEFINE path == Follow[Num][h]
           End(n) == /\ NEXT[path[n]] => n = Num
                     /\ \A i \in 1 .. n - 1 : NEXT[path[i]]
<1>1. s \in Seq(Descs) /\ Len(s) \in Nat /\ Len(s) > 0 /\ Len(s) <= Num /\ Line(s) /\ s[1] = h
  BY LineSize DEF IsChain, Line
<1>2. Num \in Nat /\ Num \in 0 .. Num /\ Len(s) \in 1 .. Num
  BY <1>1, Sizes
<1>3. path \in Seq(Descs) /\ Len(path) = Num
  BY <1>2, FollowIs, PathLen DEF FollowsTo
<1>4. ASSUME NEW i \in 1 .. Len(s) PROVE path[i] = s[i]
  <2>1. /\ 1 \in 1 .. Len(s) /\ i \in Nat /\ i > 0 /\ i <= Num /\ 1 + i - 1 <= Len(s) /\ 1 + i - 1 = i
    BY <1>1, <1>2
  <2>2. Follow[Num][s[1]][i] = s[1 + i - 1]
    BY <1>1, <1>2, <2>1, PathAlong
  <2> QED BY <1>1, <2>1, <2>2
<1> HIDE DEF path
<1>5. End(Len(s))
  <2>1. ~NEXT[path[Len(s)]]
    <3>1. Len(s) \in 1 .. Len(s)
      BY <1>1
    <3> QED BY <1>4, <3>1 DEF IsChain
  <2>2. ASSUME NEW i \in 1 .. Len(s) - 1 PROVE NEXT[path[i]]
    <3>1. i \in 1 .. Len(s)
      BY <1>1
    <3> QED BY <1>4, <3>1 DEF IsChain
  <2> QED BY <2>1, <2>2
<1>6. ASSUME NEW n \in 1 .. Num, End(n) PROVE n = Len(s)
  <2>1. ~(Len(s) < n)
    <3> SUFFICES ASSUME Len(s) < n PROVE FALSE
      OBVIOUS
    <3>1. Len(s) \in 1 .. n - 1
      BY <1>1, <1>2
    <3>2. NEXT[path[Len(s)]]
      BY <1>6, <3>1
    <3>3. Len(s) \in 1 .. Len(s)
      BY <1>1
    <3> QED BY <1>4, <3>2, <3>3 DEF IsChain
  <2>2. ~(n < Len(s))
    <3> SUFFICES ASSUME n < Len(s) PROVE FALSE
      OBVIOUS
    <3>1. n \in 1 .. Len(s) /\ n \in 1 .. Len(s) - 1 /\ n # Num
      BY <1>1, <1>2
    <3>2. NEXT[s[n]]
      BY <3>1 DEF IsChain
    <3> QED BY <1>4, <1>6, <3>1, <3>2
  <2> QED BY <1>1, <1>2, <2>1, <2>2
<1>7. (CHOOSE n \in 1 .. Num : End(n)) = Len(s)
  BY <1>2, <1>5, <1>6
<1>8. Chain(h) = SubSeq(path, 1, Len(s))
  <2>1. Chain(h) = SubSeq(path, 1, CHOOSE n \in 1 .. Num : End(n))
    BY Zenon DEF Chain, path
  <2> QED BY <1>7, <2>1
<1>9. /\ SubSeq(path, 1, Len(s)) \in Seq(Descs) /\ Len(SubSeq(path, 1, Len(s))) = Len(s)
      /\ \A i \in 1 .. Len(s) : SubSeq(path, 1, Len(s))[i] = path[i]
  <2>1. Len(s) <= Len(path)
    BY <1>1, <1>3
  <2> QED BY <1>1, <1>3, <2>1, FrontAt
<1> QED BY <1>1, <1>4, <1>8, <1>9, SameSeq
-----------------------------------------------------------------------------
(* What the table is for: the free list is sound.                          *)
LEMMA TableSound ==
  ASSUME RingSizes, TableInv
  PROVE  FreeListSound
<1>1. PICK f, c : Laid(f, c)
  BY DEF TableInv
<1>2. next \in [Descs -> Descs] /\ first_unused \in Descs
  BY DEF TableInv
<1>3. FreeList = f /\ Cardinality(ToSet(FreeList)) = num_unused
  <2>1. Line(f) /\ Len(f) = num_unused /\ (Len(f) > 0 => f[1] = first_unused)
    BY <1>1 DEF Laid
  <2>2. Follow[Len(f)][first_unused] = f
    BY <1>2, <2>1, FoundLine
  <2>3. Cardinality(ToSet(f)) = Len(f)
    BY <2>1, LineSize
  <2> QED BY <2>1, <2>2, <2>3 DEF FreeList
<1>4. ASSUME NEW h \in Heads PROVE Chain(h) = c[h]
  <2>1. h \in Descs /\ IsChain(h, c[h])
    BY <1>1 DEF Laid, Heads
  <2> QED BY <1>2, <2>1, FoundChain
<1>5. ASSUME NEW s, NEW t, Apart(s, t) PROVE ToSet(s) \cap ToSet(t) = {}
  BY <1>5 DEF Apart, ToSet
<1>6. ASSUME NEW h \in Heads PROVE ToSet(Chain(h)) \cap ToSet(FreeList) = {}
  <2>1. Apart(c[h], f)
    BY <1>1 DEF Laid
  <2> QED BY <1>3, <1>4, <1>5, <2>1
<1>7. ASSUME NEW g \in Heads, NEW h \in Heads, g # h PROVE ToSet(Chain(g)) \cap ToSet(Chain(h)) = {}
  <2>1. Apart(c[g], c[h])
    BY <1>1, <1>7 DEF Laid
  <2> QED BY <1>4, <1>5, <2>1
<1> QED BY <1>3, <1>6, <1>7 DEF FreeListSound

(* A chain that is put back is joined to the front of the free list.       *)
LEMMA PutKeepsTable ==
  ASSUME RingSizes, TableInv, NEW h \in Heads, PutChain(h)
  PROVE  TableInv' /\ Heads' = Heads \ {h}
<1>1. PICK f, c : Laid(f, c)
  BY DEF TableInv
<1>2. /\ next \in [Descs -> Descs] /\ first_unused \in Descs /\ NEXT \in [Descs -> BOOLEAN]
      /\ opaque \in [Descs -> Bufs \cup {NoBuf}] /\ mine \subseteq Bufs
  BY DEF TableInv
<1>3. h \in Descs /\ opaque[h] \in Bufs /\ opaque[h] # NoBuf
  BY <1>2 DEF Heads
<1>4. IsChain(h, c[h]) /\ Apart(c[h], f)
  BY <1>1 DEF Laid
<1>5. PICK s \in Seq(Descs) : s = c[h] /\ Chain(h) = s /\ Line(s) /\ Len(s) > 0 /\ s[1] = h
  <2>1. Chain(h) = c[h]
    BY <1>2, <1>3, <1>4, FoundChain
  <2> QED BY <1>4, <2>1 DEF IsChain, Line
<1>6. PICK n \in Nat : n = Len(s) /\ n > 0 /\ Last(s) = s[n]
  BY <1>5 DEF Last
<1>7. s[n] \in Descs /\ n \in 1 .. Len(s)
  BY <1>6
<1>8. Line(f) /\ f \in Seq(Descs) /\ Len(f) = num_unused /\ (Len(f) > 0 => f[1] = first_unused)
  BY <1>1 DEF Laid, Line
<1>9. /\ opaque' = [opaque EXCEPT ![h] = NoBuf]
      /\ NEXT' = [NEXT EXCEPT ![s[n]] = TRUE]
      /\ next' = [next EXCEPT ![s[n]] = first_unused]
      /\ first_unused' = h /\ num_unused' = num_unused + n
      /\ mine' = mine \cup {opaque[h]}
  BY <1>5, <1>6 DEF PutChain
<1>10. /\ next' \in [Descs -> Descs] /\ NEXT' \in [Descs -> BOOLEAN] /\ first_unused' \in Descs
       /\ opaque' \in [Descs -> Bufs \cup {NoBuf}] /\ mine' \subseteq Bufs
  BY <1>2, <1>3, <1>7, <1>9
<1>11. \A d \in Descs : d # s[n] => next'[d] = next[d] /\ NEXT'[d] = NEXT[d]
  BY <1>2, <1>9
<1>12. Heads' = Heads \ {h}
  BY <1>2, <1>3, <1>9 DEF Heads
<1> DEFINE f2 == s \o f
<1>13. /\ f2 \in Seq(Descs) /\ Len(f2) = n + Len(f)
       /\ \A i \in 1 .. n : f2[i] = s[i]
       /\ \A i \in 1 .. Len(f) : f2[n + i] = f[i]
  BY <1>6, <1>8, JoinAt
<1> HIDE DEF f2
<1>14. \A i \in 1 .. Len(f2) : \/ i \in 1 .. n /\ f2[i] = s[i]
                               \/ i - n \in 1 .. Len(f) /\ f2[i] = f[i - n]
  <2> TAKE i \in 1 .. Len(f2)
  <2>1. CASE i <= n
    BY <1>13, <2>1
  <2>2. CASE ~(i <= n)
    <3>1. i - n \in 1 .. Len(f) /\ n + (i - n) = i
      BY <1>8, <1>13, <2>2
    <3>2. PICK k \in 1 .. Len(f) : k = i - n
      BY <3>1
    <3>3. f2[n + k] = f[k]
      BY <1>13, <3>2, Zenon
    <3> QED BY <3>1, <3>2, <3>3
  <2> QED BY <2>1, <2>2
<1>15. Line(f2)'
  <2>1. ASSUME NEW i \in 1 .. Len(f2), NEW j \in 1 .. Len(f2), f2[i] = f2[j] PROVE i = j
    <3>1. CASE i \in 1 .. n /\ f2[i] = s[i] /\ j \in 1 .. n /\ f2[j] = s[j]
      BY <1>5, <1>6, <2>1, <3>1 DEF Line
    <3>2. CASE /\ i - n \in 1 .. Len(f) /\ f2[i] = f[i - n]
               /\ j - n \in 1 .. Len(f) /\ f2[j] = f[j - n]
      <4>1. i - n = j - n
        BY <1>8, <2>1, <3>2 DEF Line
      <4> QED BY <1>13, <4>1
    <3>3. ASSUME NEW k \in 1 .. n, NEW l \in 1 .. Len(f) PROVE s[k] # f[l]
      BY <1>4, <1>5, <1>6 DEF Apart
    <3> QED BY <1>14, <2>1, <3>1, <3>2, <3>3
  <2>2. ASSUME NEW i \in 1 .. Len(f2) - 1 PROVE next'[f2[i]] = f2[i + 1]
    <3>1. i \in 1 .. Len(f2) /\ i + 1 \in 1 .. Len(f2) /\ Len(f) \in Nat
      BY <1>8, <1>13
    <3>2. CASE i < n
      <4>1. i \in 1 .. n /\ i + 1 \in 1 .. n /\ i \in 1 .. Len(s) - 1 /\ i # n
        BY <1>6, <3>1, <3>2
      <4>2. next[s[i]] = s[i + 1] /\ s[i] \in Descs /\ s[i] # s[n]
        BY <1>5, <1>6, <1>7, <4>1 DEF Line
      <4> QED BY <1>11, <1>13, <4>1, <4>2
    <3>3. CASE i = n
      <4>1. n \in 1 .. n /\ 1 \in 1 .. Len(f) /\ Len(f) > 0
        BY <1>6, <1>13, <3>1, <3>3
      <4>2. f2[n] = s[n] /\ f2[n + 1] = first_unused
        BY <1>8, <1>13, <4>1
      <4> QED BY <1>2, <1>7, <1>9, <3>3, <4>2
    <3>4. CASE i > n
      <4>1. /\ i - n \in 1 .. Len(f) - 1 /\ i - n \in 1 .. Len(f) /\ (i - n) + 1 \in 1 .. Len(f)
            /\ n + (i - n) = i /\ n + ((i - n) + 1) = i + 1
        BY <1>13, <3>1, <3>4
      <4>2. next[f[i - n]] = f[(i - n) + 1] /\ f[i - n] \in Descs /\ s[n] # f[i - n]
        <5>1. next[f[i - n]] = f[(i - n) + 1]
          BY <1>8, <4>1 DEF Line
        <5>2. f[i - n] \in Descs
          BY <1>8, <4>1
        <5>3. s[n] # f[i - n]
          BY <1>4, <1>5, <1>7, <4>1 DEF Apart
        <5> QED BY <5>1, <5>2, <5>3
      <4>3. f2[n + (i - n)] = f[i - n] /\ f2[n + ((i - n) + 1)] = f[(i - n) + 1]
        BY <1>13, <4>1, Zenon
      <4>4. f2[i] = f[i - n] /\ f2[i + 1] = f[(i - n) + 1]
        BY <4>1, <4>3
      <4> QED BY <1>11, <4>2, <4>4
    <3> QED BY <1>6, <3>1, <3>2, <3>3, <3>4
  <2> QED BY <1>13, <2>1, <2>2 DEF Line
<1>16. Len(f2) = num_unused' /\ (Len(f2) > 0 => f2[1] = first_unused')
  <2>1. 1 \in 1 .. n /\ num_unused = Len(f) /\ Len(f) \in Nat
    BY <1>6, <1>8
  <2> QED BY <1>5, <1>9, <1>13, <2>1
<1>17. ASSUME NEW g \in Heads' PROVE IsChain(g, c[g])' /\ Apart(c[g], f2)
  <2>1. g \in Heads /\ g # h
    BY <1>12
  <2>2. IsChain(g, c[g]) /\ Apart(c[g], f) /\ Apart(c[g], s)
    BY <1>1, <1>5, <2>1 DEF Laid
  <2>3. \A i \in 1 .. Len(c[g]) : c[g][i] \in Descs /\ c[g][i] # s[n]
    BY <1>7, <2>2 DEF IsChain, Line, Apart
  <2>4. \A i \in 1 .. Len(c[g]) : next'[c[g][i]] = next[c[g][i]] /\ NEXT'[c[g][i]] = NEXT[c[g][i]]
    BY <1>11, <2>3
  <2>5. Len(c[g]) \in Nat /\ Len(c[g]) > 0 /\ Len(c[g]) \in 1 .. Len(c[g])
        /\ \A i \in 1 .. Len(c[g]) - 1 : i \in 1 .. Len(c[g])
    BY <2>2 DEF IsChain, Line
  <2>6. Line(c[g])'
    BY <2>2, <2>4, <2>5 DEF IsChain, Line
  <2>7. IsChain(g, c[g])'
    BY <2>2, <2>4, <2>5, <2>6 DEF IsChain
  <2>8. Apart(c[g], f2)
    BY <1>6, <1>14, <2>2 DEF Apart
  <2> QED BY <2>7, <2>8
<1>18. Laid(f2, c)'
  <2>1. \A g, k \in Heads' : g # k => Apart(c[g], c[k])
    BY <1>1, <1>12 DEF Laid
  <2> QED BY <1>15, <1>16, <1>17, <2>1 DEF Laid, Apart
<1>19. TableInv'
  BY <1>10, <1>18 DEF TableInv
<1> QED BY <1>12, <1>19

(* A new queue's descriptors are all free.                                 *)
LEMMA FreshLine ==
  ASSUME RingSizes
  PROVE  /\ FreshNext \in [Descs -> Descs] /\ FreshNEXT \in [Descs -> BOOLEAN] /\ 0 \in Descs
         /\ \E f \in Seq(Descs) :
              /\ Len(f) = Num /\ f[1] = 0
              /\ \A i, j \in 1 .. Num : f[i] = f[j] => i = j
              /\ \A i \in 1 .. Num - 1 : FreshNext[f[i]] = f[i + 1]
<1>1. Num \in Nat /\ Num > 0
  BY Sizes
<1>2. FreshNext \in [Descs -> Descs] /\ FreshNEXT \in [Descs -> BOOLEAN] /\ 0 \in Descs
  BY <1>1 DEF FreshNext, FreshNEXT, Descs
<1> DEFINE f == [i \in 1 .. Num |-> i - 1]
<1>3. f \in Seq(Descs) /\ Len(f) = Num /\ \A i \in 1 .. Num : f[i] = i - 1
  BY <1>1 DEF Descs
<1> HIDE DEF f
<1>4. ASSUME NEW i \in 1 .. Num - 1 PROVE FreshNext[f[i]] = f[i + 1]
  <2>1. /\ i \in 1 .. Num /\ i + 1 \in 1 .. Num /\ i - 1 \in Descs /\ i - 1 # Num - 1
        /\ (i - 1) + 1 = (i + 1) - 1
    BY <1>1 DEF Descs
  <2>2. FreshNext[i - 1] = (i - 1) + 1
    BY <2>1 DEF FreshNext
  <2> QED BY <1>3, <2>1, <2>2
<1>5. (\A i, j \in 1 .. Num : f[i] = f[j] => i = j) /\ f[1] = 0
  BY <1>1, <1>3
<1> QED BY <1>2, <1>3, <1>4, <1>5

LEMMA FreshTable ==
  ASSUME RingSizes, next = FreshNext, NEXT = FreshNEXT, num_unused = Num, first_unused = 0,
         opaque = [d \in Descs |-> NoBuf], mine \subseteq Bufs
  PROVE  TableInv /\ Heads = {}
<1>1. Heads = {} /\ opaque \in [Descs -> Bufs \cup {NoBuf}]
  BY DEF Heads
<1>2. PICK f \in Seq(Descs) : /\ Len(f) = Num /\ f[1] = 0
                              /\ \A i, j \in 1 .. Num : f[i] = f[j] => i = j
                              /\ \A i \in 1 .. Num - 1 : next[f[i]] = f[i + 1]
  BY FreshLine
<1>3. Line(f)
  BY <1>2 DEF Line
<1>4. Laid(f, f)
  BY <1>1, <1>2, <1>3 DEF Laid
<1> QED BY <1>1, <1>4, FreshLine DEF TableInv

LEMMA FreshTableNext ==
  ASSUME RingSizes, next' = FreshNext, NEXT' = FreshNEXT, num_unused' = Num, first_unused' = 0,
         opaque' = [d \in Descs |-> NoBuf], mine' \subseteq Bufs
  PROVE  TableInv' /\ Heads' = {}
<1>1. Heads' = {} /\ opaque' \in [Descs -> Bufs \cup {NoBuf}]
  BY DEF Heads
<1>2. PICK f \in Seq(Descs) : /\ Len(f) = Num /\ f[1] = 0
                              /\ \A i, j \in 1 .. Num : f[i] = f[j] => i = j
                              /\ \A i \in 1 .. Num - 1 : next'[f[i]] = f[i + 1]
  BY FreshLine
<1>3. Line(f)'
  BY <1>2 DEF Line
<1>4. Laid(f, f)'
  BY <1>1, <1>2, <1>3 DEF Laid
<1> QED BY <1>1, <1>4, FreshLine DEF TableInv

(* The buffer that is added takes the front of the free list.              *)
LEMMA AddKeepsTable ==
  ASSUME RingSizes, TableInv, NEW b \in Bufs, AddBuf(b)
  PROVE  /\ TableInv'
         /\ \E h \in Descs \ Heads :
              /\ Heads' = Heads \cup {h}
              /\ avail_ring' = [avail_ring EXCEPT ![DESC_INDEX(master_idx)] = h]
<1>1. PICK f, c : Laid(f, c)
  BY DEF TableInv
<1>2. /\ next \in [Descs -> Descs] /\ first_unused \in Descs /\ NEXT \in [Descs -> BOOLEAN]
      /\ opaque \in [Descs -> Bufs \cup {NoBuf}] /\ mine \subseteq Bufs /\ b # NoBuf
  BY DEF TableInv, RingSizes
<1>3. Line(f) /\ f \in Seq(Descs) /\ Len(f) = num_unused /\ (Len(f) > 0 => f[1] = first_unused)
  BY <1>1 DEF Laid, Line
<1>4. FreeList = f
  <2>1. Follow[Len(f)][first_unused] = f
    BY <1>2, <1>3, FoundLine
  <2> QED BY <1>3, <2>1 DEF FreeList
<1>5. PICK m \in Nat :
        /\ m > 0 /\ m <= num_unused
        /\ NEXT' = [d \in Descs |-> IF Contains(SubSeq(f, 1, m), d)
                                      THEN d # Last(SubSeq(f, 1, m)) ELSE NEXT[d]]
        /\ first_unused' = next[Last(SubSeq(f, 1, m))] /\ num_unused' = num_unused - m
        /\ opaque' = [opaque EXCEPT ![Head(SubSeq(f, 1, m))] = b]
        /\ avail_ring' = [avail_ring EXCEPT ![DESC_INDEX(master_idx)] = Head(SubSeq(f, 1, m))]
        /\ mine' = mine \ {b} /\ next' = next
  <2> DEFINE m == IF indirect /\ Need[b] > 1 /\ num_unused > 0 THEN 1 ELSE Need[b]
  <2>1. m \in Nat /\ m > 0
    BY DEF RingSizes
  <2>2. /\ m <= num_unused
        /\ NEXT' = [d \in Descs |-> IF Contains(SubSeq(FreeList, 1, m), d)
                                      THEN d # Last(SubSeq(FreeList, 1, m)) ELSE NEXT[d]]
        /\ first_unused' = next[Last(SubSeq(FreeList, 1, m))] /\ num_unused' = num_unused - m
        /\ opaque' = [opaque EXCEPT ![Head(SubSeq(FreeList, 1, m))] = b]
        /\ avail_ring' = [avail_ring EXCEPT ![DESC_INDEX(master_idx)] = Head(SubSeq(FreeList, 1, m))]
        /\ mine' = mine \ {b} /\ next' = next
    BY Zenon DEF AddBuf
  <2> HIDE DEF m
  <2> QED BY <1>4, <2>1, <2>2
<1>6. PICK s \in Seq(Descs) : /\ s = SubSeq(f, 1, m) /\ Len(s) = m
                              /\ \A i \in 1 .. m : s[i] = f[i]
  <2>1. m <= Len(f)
    BY <1>3, <1>5
  <2> QED BY <1>3, <2>1, FrontAt
<1>7. PICK t \in Seq(Descs) : /\ Len(t) = Len(f) - m
                              /\ \A i \in 1 .. Len(f) - m : t[i] = f[m + i]
  <2>1. m <= Len(f)
    BY <1>3, <1>5
  <2> QED BY <1>3, <2>1, BackAt
<1>8. /\ m \in 1 .. m /\ 1 \in 1 .. m /\ Len(f) \in Nat /\ m <= Len(f)
      /\ \A i \in 1 .. m : i \in 1 .. Len(f)
      /\ \A i \in 1 .. Len(f) - m : m + i \in 1 .. Len(f)
  BY <1>3, <1>5
<1>9. PICK h \in Descs : h = s[1] /\ h = f[1] /\ Head(s) = h
  BY <1>6, <1>8
<1>10. Last(s) = s[m] /\ s[m] \in Descs
  BY <1>6, <1>8 DEF Last
<1>11. /\ \A i \in 1 .. m - 1 : NEXT'[s[i]]
       /\ ~NEXT'[s[m]]
       /\ \A d \in Descs : (\A i \in 1 .. m : d # s[i]) => NEXT'[d] = NEXT[d]
  <2>1. \A d \in Descs : NEXT'[d] = IF \E i \in 1 .. m : s[i] = d THEN d # s[m] ELSE NEXT[d]
    BY <1>5, <1>6, <1>10 DEF Contains
  <2>2. ASSUME NEW i \in 1 .. m - 1 PROVE s[i] \in Descs /\ s[i] # s[m] /\ i \in 1 .. m
    <3>1. i \in 1 .. m /\ i # m
      BY <1>5
    <3> QED BY <1>3, <1>6, <1>8, <3>1 DEF Line
  <2> QED BY <1>8, <1>10, <2>1, <2>2
<1>12. /\ next' = next /\ first_unused' = next[s[m]] /\ num_unused' = num_unused - m
       /\ opaque' = [opaque EXCEPT ![h] = b] /\ mine' \subseteq Bufs
       /\ avail_ring' = [avail_ring EXCEPT ![DESC_INDEX(master_idx)] = h]
  BY <1>2, <1>5, <1>6, <1>9, <1>10
<1>13. /\ next' \in [Descs -> Descs] /\ first_unused' \in Descs
       /\ opaque' \in [Descs -> Bufs \cup {NoBuf}]
  BY <1>2, <1>10, <1>12
<1>14. NEXT' \in [Descs -> BOOLEAN]
  <2>1. \A d \in Descs : NEXT[d] \in BOOLEAN /\ (d # Last(SubSeq(f, 1, m))) \in BOOLEAN
    BY <1>2
  <2> QED BY <1>5, <2>1
<1>15. h \notin Heads
  <2> SUFFICES ASSUME h \in Heads PROVE FALSE
    OBVIOUS
  <2>1. Apart(c[h], f) /\ c[h][1] = h /\ 1 \in 1 .. Len(c[h])
    BY <1>1 DEF Laid, IsChain, Line
  <2> QED BY <1>8, <1>9, <2>1 DEF Apart
<1>16. Heads' = Heads \cup {h}
  BY <1>2, <1>12 DEF Heads
<1> DEFINE c2 == [g \in Descs |-> IF g = h THEN s ELSE c[g]]
<1>17. c2[h] = s /\ \A g \in Heads : c2[g] = c[g]
  BY <1>15 DEF Heads
<1> HIDE DEF c2
<1>18. Line(t)'
  <2>1. \A i, j \in 1 .. Len(t) : t[i] = t[j] => i = j
    <3> SUFFICES ASSUME NEW i \in 1 .. Len(t), NEW j \in 1 .. Len(t), t[i] = t[j] PROVE i = j
      OBVIOUS
    <3>1. f[m + i] = f[m + j] /\ m + i \in 1 .. Len(f) /\ m + j \in 1 .. Len(f)
      BY <1>7, <1>8
    <3>2. m + i = m + j
      BY <1>3, <3>1 DEF Line
    <3> QED BY <3>2
  <2>2. ASSUME NEW i \in 1 .. Len(t) - 1 PROVE next'[t[i]] = t[i + 1]
    <3>1. /\ i \in 1 .. Len(f) - m /\ i + 1 \in 1 .. Len(f) - m /\ m + i \in 1 .. Len(f) - 1
          /\ m + (i + 1) = (m + i) + 1
      BY <1>7, <1>8
    <3>2. next[f[m + i]] = f[(m + i) + 1]
      BY <1>3, <3>1 DEF Line
    <3>3. t[i] = f[m + i] /\ t[i + 1] = f[m + (i + 1)]
      BY <1>7, <3>1
    <3> QED BY <1>12, <3>1, <3>2, <3>3
  <2> QED BY <2>1, <2>2 DEF Line
<1>19. Len(t) = num_unused' /\ (Len(t) > 0 => t[1] = first_unused')
  <2>1. Len(t) = num_unused'
    BY <1>3, <1>7, <1>12
  <2>2. ASSUME Len(t) > 0 PROVE t[1] = first_unused'
    <3>1. 1 \in 1 .. Len(f) - m /\ m \in 1 .. Len(f) - 1
      BY <1>5, <1>7, <1>8, <2>2
    <3>2. next[f[m]] = f[m + 1] /\ t[1] = f[m + 1]
      BY <1>3, <1>7, <3>1 DEF Line
    <3> QED BY <1>6, <1>8, <1>12, <3>2
  <2> QED BY <2>1, <2>2
<1>20. IsChain(h, s)' /\ Apart(s, t)
  <2>1. \A i, j \in 1 .. Len(s) : s[i] = s[j] => i = j
    BY <1>3, <1>6, <1>8 DEF Line
  <2>2. ASSUME NEW i \in 1 .. Len(s) - 1 PROVE next'[s[i]] = s[i + 1]
    <3>1. i \in 1 .. m /\ i + 1 \in 1 .. m /\ i \in 1 .. Len(f) - 1
      BY <1>6, <1>8
    <3> QED BY <1>3, <1>6, <1>12, <3>1 DEF Line
  <2>3. Line(s)'
    BY <2>1, <2>2 DEF Line
  <2>4. IsChain(h, s)'
    BY <1>5, <1>6, <1>9, <1>11, <2>3 DEF IsChain
  <2>5. ASSUME NEW i \in 1 .. Len(s), NEW j \in 1 .. Len(t), s[i] = t[j] PROVE FALSE
    <3>1. f[i] = f[m + j] /\ i \in 1 .. Len(f) /\ m + j \in 1 .. Len(f)
      BY <1>6, <1>7, <1>8, <2>5
    <3>2. i = m + j
      BY <1>3, <3>1 DEF Line
    <3> QED BY <1>6, <3>2
  <2> QED BY <2>4, <2>5 DEF Apart
<1>21. ASSUME NEW g \in Heads PROVE IsChain(g, c[g])' /\ Apart(c[g], t) /\ Apart(c[g], s)
  <2>1. IsChain(g, c[g]) /\ Apart(c[g], f)
    BY <1>1 DEF Laid
  <2>2. Apart(c[g], t) /\ Apart(c[g], s)
    BY <1>6, <1>7, <1>8, <2>1 DEF Apart
  <2>3. \A i \in 1 .. Len(c[g]) : NEXT'[c[g][i]] = NEXT[c[g][i]]
    BY <1>6, <1>11, <2>1, <2>2 DEF IsChain, Line, Apart
  <2>4. Len(c[g]) \in Nat /\ Len(c[g]) > 0 /\ Len(c[g]) \in 1 .. Len(c[g])
        /\ \A i \in 1 .. Len(c[g]) - 1 : i \in 1 .. Len(c[g])
    BY <2>1 DEF IsChain, Line
  <2>5. Line(c[g])'
    BY <1>12, <2>1 DEF IsChain, Line
  <2>6. IsChain(g, c[g])'
    BY <2>1, <2>3, <2>4, <2>5 DEF IsChain
  <2> QED BY <2>2, <2>6
<1>22. ASSUME NEW g \in Heads', NEW k \in Heads', g # k PROVE Apart(c2[g], c2[k])
  <2>1. ASSUME NEW x, NEW y, Apart(x, y) PROVE Apart(y, x)
    BY <2>1 DEF Apart
  <2>2. CASE g = h
    BY <1>16, <1>17, <1>21, <1>22, <2>1, <2>2
  <2>3. CASE k = h
    BY <1>16, <1>17, <1>21, <1>22, <2>3
  <2>4. CASE g # h /\ k # h
    BY <1>1, <1>16, <1>17, <1>22, <2>4 DEF Laid
  <2> QED BY <2>2, <2>3, <2>4
<1>23. ASSUME NEW g \in Heads' PROVE IsChain(g, c2[g])' /\ Apart(c2[g], t)
  <2>1. CASE g = h
    <3>1. IsChain(h, c2[h])' <=> IsChain(h, s)'
      BY <1>17 DEF IsChain, Line
    <3> QED BY <1>17, <1>20, <2>1, <3>1
  <2>2. CASE g # h
    <3>1. g \in Heads /\ c2[g] = c[g]
      BY <1>16, <1>17, <2>2
    <3>2. IsChain(g, c2[g])' <=> IsChain(g, c[g])'
      BY <3>1 DEF IsChain, Line
    <3> QED BY <1>21, <3>1, <3>2
  <2> QED BY <2>1, <2>2
<1>24. Laid(t, c2)'
  BY <1>18, <1>19, <1>22, <1>23 DEF Laid, Apart, c2
<1>25. TableInv'
  BY <1>12, <1>13, <1>14, <1>24 DEF TableInv
<1> QED BY <1>12, <1>15, <1>16, <1>25
-----------------------------------------------------------------------------
(* The invariant, first where a queue begins.                              *)
LEMMA InitRingInv == RingSizes /\ Init => RingInv
<1> SUFFICES ASSUME RingSizes, Init PROVE RingInv
  OBVIOUS
<1>1. Num \in Nat /\ 0 \in Idx /\ 0 \in Descs /\ 0 \in Nat /\ 0 < IdxMod /\ Zeros \in [Descs -> Descs]
  BY Sizes, FreshLine DEF Zeros
<1>2. Between(0, 0) = {} /\ Minus(0, 0) = 0 /\ Plus(0, 0) = 0
  <2>1. Between(0, 0) = {} /\ Minus(0, 0) = 0
    BY <1>1, NoneBetween
  <2>2. 0 + 0 < IdxMod /\ 0 + 0 = 0
    BY <1>1
  <2> QED BY <1>1, <2>1, <2>2, PlusIs
<1>3. TypeInv
  BY <1>1 DEF Init, TypeInv
<1>4. TableInv /\ Heads = {}
  BY FreshTable DEF Init
<1>5. Top = 0 /\ Offered = {} /\ Used = {}
  BY <1>2 DEF Init, Top, Offered, Used
<1>6. OwnInv
  BY <1>4, <1>5 DEF Init, OwnInv
<1>7. RoomInv
  BY <1>1, <1>2, <1>5 DEF Init, RoomInv
<1>8. KickInv
  BY <1>2, <1>5 DEF Init, KickInv
<1>9. FlagInv
  BY <1>2 DEF Init, FlagInv
<1>10. SignalInv
  BY <1>2 DEF Init, SignalInv
<1>11. ResetInv
  BY DEF Init, ResetInv
<1> QED BY <1>3, <1>4, <1>6, <1>7, <1>8, <1>9, <1>10, <1>11 DEF RingInv, RunInv

LEMMA TableKept ==
  ASSUME TableInv, UNCHANGED << next, NEXT, num_unused, first_unused, opaque, mine >>
  PROVE  TableInv' /\ Heads' = Heads
<1>1. PICK f, c : Laid(f, c)
  BY DEF TableInv
<1>2. Heads' = Heads
  BY DEF Heads
<1>3. Laid(f, c)'
  BY <1>1, <1>2 DEF Laid, IsChain, Line, Apart
<1> QED BY <1>2, <1>3 DEF TableInv

(* An entry written just past a window that is not full.                   *)
LEMMA WriteSlot ==
  ASSUME RingSizes, NEW a \in Idx, NEW b \in Idx, Minus(b, a) < Num,
         NEW r \in [Descs -> Descs], NEW h \in Descs
  PROVE  /\ [r EXCEPT ![DESC_INDEX(b)] = h] \in [Descs -> Descs]
         /\ [r EXCEPT ![DESC_INDEX(b)] = h][DESC_INDEX(b)] = h
         /\ \A i \in Between(a, b) : [r EXCEPT ![DESC_INDEX(b)] = h][DESC_INDEX(i)] = r[DESC_INDEX(i)]
<1> DEFINE q == [r EXCEPT ![DESC_INDEX(b)] = h]
<1>1. DESC_INDEX(b) \in Descs
  BY SlotInRing
<1>2. ASSUME NEW i \in Between(a, b) PROVE q[DESC_INDEX(i)] = r[DESC_INDEX(i)]
  <2>1. i \in Idx /\ Minus(i, a) < Minus(b, a)
    BY DEF Between
  <2>2. PICK x \in Nat, y \in Nat : x = Minus(i, a) /\ y = Minus(b, a)
    BY <2>1, FarApart
  <2>3. x < Num /\ i # b
    BY <2>1, <2>2, Sizes
  <2>4. DESC_INDEX(i) # DESC_INDEX(b)
    BY <2>1, <2>2, <2>3, SlotsApart
  <2>5. DESC_INDEX(i) \in Descs
    BY <2>1, SlotInRing
  <2> QED BY <1>1, <2>4, <2>5
<1> QED BY <1>1, <1>2

LEMMA AddStep ==
  ASSUME RingSizes, RingInv, NEW b \in Bufs, AddBuf(b), UNCHANGED << event, indirect >>
  PROVE  RingInv'
<1>1. /\ TypeInv /\ TableInv /\ FlagInv /\ ResetInv
      /\ dev # "reset" /\ pc = "idle" /\ OwnInv /\ RoomInv /\ KickInv /\ SignalInv
  BY DEF RingInv, RunInv, AddBuf, NoCall
<1>2. PICK h \in Descs \ Heads :
        /\ Heads' = Heads \cup {h}
        /\ avail_ring' = [avail_ring EXCEPT ![DESC_INDEX(master_idx)] = h]
  BY <1>1, AddKeepsTable
<1>3. TableInv'
  BY <1>1, AddKeepsTable
<1>4. /\ pc' = "publish"
      /\ UNCHANGED << master_idx, num_added_since_kick, last_used, NO_INTERRUPT, avail_idx, avail_flags,
                      used_event, used_ring, used_idx, used_flags, avail_event, bufs, awake, misjudged,
                      held, taken, dev, signal, old, irq, event, indirect >>
  BY DEF AddBuf, countVars, deviceMem, devVars
<1>5. master_idx \in Idx /\ taken \in Idx /\ Top = master_idx /\ Offered = Between(taken, master_idx)
      /\ Heads \subseteq Descs
  BY <1>1 DEF TypeInv, Top, Offered, Heads
<1>6. Minus(master_idx, taken) < Num
  <2>1. \A i \in Between(taken, master_idx) : avail_ring[DESC_INDEX(i)] \in Descs \ {h}
    BY <1>1, <1>2, <1>5 DEF OwnInv, Entry
  <2>2. \A i, j \in Between(taken, master_idx) :
          avail_ring[DESC_INDEX(i)] = avail_ring[DESC_INDEX(j)] => i = j
    BY <1>1, <1>5 DEF OwnInv, Entry
  <2> QED BY <1>5, <2>1, <2>2, Room
<1>7. PICK m \in Nat : m = Minus(master_idx, taken) /\ m < Num /\ m + 1 < IdxMod
  <2>1. PICK m \in Nat : m = Minus(master_idx, taken)
    BY <1>5, FarApart
  <2> QED BY <1>6, <2>1, Sizes
<1>8. /\ master_idx \notin Offered /\ Plus(master_idx, 1) \in Idx
      /\ Between(taken, Plus(master_idx, 1)) = Offered \cup {master_idx}
      /\ Minus(Plus(master_idx, 1), taken) = m + 1
  BY <1>5, <1>7, Grow
<1>9. Top' = Plus(master_idx, 1) /\ Offered' = Offered \cup {master_idx} /\ Used' = Used
  BY <1>4, <1>8 DEF Top, Offered, Used
<1>10. /\ avail_ring' \in [Descs -> Descs] /\ avail_ring'[DESC_INDEX(master_idx)] = h
       /\ \A i \in Offered : avail_ring'[DESC_INDEX(i)] = avail_ring[DESC_INDEX(i)]
  <2>1. avail_ring \in [Descs -> Descs] /\ h \in Descs
    BY <1>1 DEF TypeInv
  <2> DEFINE q == [avail_ring EXCEPT ![DESC_INDEX(master_idx)] = h]
  <2>2. /\ q \in [Descs -> Descs] /\ q[DESC_INDEX(master_idx)] = h
        /\ \A i \in Between(taken, master_idx) : q[DESC_INDEX(i)] = avail_ring[DESC_INDEX(i)]
    BY <1>5, <1>6, <2>1, WriteSlot
  <2>3. avail_ring' = q
    BY <1>2
  <2> HIDE DEF q
  <2> QED BY <1>5, <2>2, <2>3
<1>11. TypeInv'
  BY <1>1, <1>4, <1>10 DEF TypeInv
<1>12. OwnInv'
  <2>1. /\ Offered' = Offered \cup {master_idx} /\ Used' = Used /\ used_ring' = used_ring
        /\ held' = held /\ Heads' = Heads \cup {h} /\ h \notin Heads /\ held \subseteq Heads
    BY <1>1, <1>2, <1>4, <1>9 DEF OwnInv
  <2>2. ASSUME NEW i \in Offered'
        PROVE  \/ /\ i \in Offered /\ avail_ring'[DESC_INDEX(i)] = avail_ring[DESC_INDEX(i)]
                  /\ avail_ring[DESC_INDEX(i)] \in Heads \ held
               \/ i = master_idx /\ avail_ring'[DESC_INDEX(i)] = h
    <3>1. CASE i \in Offered
      BY <1>1, <1>10, <3>1 DEF OwnInv, Entry
    <3>2. CASE i = master_idx
      BY <1>10, <3>2
    <3> QED BY <2>1, <3>1, <3>2
  <2>3. \A i \in Used : used_ring[DESC_INDEX(i)] \in Heads \ held
    BY <1>1 DEF OwnInv, UsedEntry
  <2>4. \A i, j \in Used : used_ring[DESC_INDEX(i)] = used_ring[DESC_INDEX(j)] => i = j
    BY <1>1 DEF OwnInv, UsedEntry
  <2>5. \A i, j \in Offered : avail_ring[DESC_INDEX(i)] = avail_ring[DESC_INDEX(j)] => i = j
    BY <1>1 DEF OwnInv, Entry
  <2>6. \A i \in Offered, j \in Used : avail_ring[DESC_INDEX(i)] # used_ring[DESC_INDEX(j)]
    BY <1>1 DEF OwnInv, Entry, UsedEntry
  <2>7. \A i \in Offered' : avail_ring'[DESC_INDEX(i)] \in Heads' \ held'
    BY <2>1, <2>2
  <2>8. ASSUME NEW i \in Offered', NEW j \in Offered', avail_ring'[DESC_INDEX(i)] = avail_ring'[DESC_INDEX(j)]
        PROVE  i = j
    BY <2>1, <2>2, <2>5, <2>8
  <2>9. \A i \in Used' : used_ring'[DESC_INDEX(i)] \in Heads' \ held'
    BY <2>1, <2>3
  <2>10. ASSUME NEW i \in Offered', NEW j \in Used' PROVE avail_ring'[DESC_INDEX(i)] # used_ring'[DESC_INDEX(j)]
    BY <2>1, <2>2, <2>3, <2>6
  <2> QED BY <2>1, <2>4, <2>7, <2>8, <2>9, <2>10 DEF OwnInv, Entry, UsedEntry, DESC_INDEX
<1>13. RoomInv'
  <2>1. m + 1 <= Num /\ m + 1 # 0
    BY <1>7, Sizes
  <2>2. Minus(Top', taken') = m + 1 /\ Top' \in Idx
    BY <1>4, <1>8, <1>9
  <2>3. taken' # Top'
    BY <1>4, <1>5, <2>1, <2>2, FarApart
  <2>4. /\ Minus(used_idx', last_used') = Minus(used_idx, last_used)
        /\ Minus(used_idx', old') = Minus(used_idx, old)
    BY <1>4
  <2> QED BY <1>1, <2>1, <2>2, <2>3, <2>4 DEF RoomInv, Minus
<1>14. KickInv'
  <2>1. dev = "asleep" => m <= num_added_since_kick
    BY <1>1, <1>5, <1>7 DEF KickInv, TypeInv
  <2>2. Minus(Top', taken') = m + 1 /\ num_added_since_kick \in Nat
    BY <1>1, <1>4, <1>8, <1>9 DEF TypeInv
  <2>3. dev = "asleep" => Minus(Top', taken') <= num_added_since_kick + 1
    BY <2>1, <2>2
  <2> QED BY <1>1, <1>4, <2>3 DEF KickInv, Minus
<1>15. FlagInv'
  BY <1>1, <1>4 DEF FlagInv, Plus
<1>16. SignalInv'
  BY <1>1, <1>4 DEF SignalInv, Minus
<1>17. ResetInv'
  BY <1>1, <1>4 DEF ResetInv
<1> QED BY <1>3, <1>11, <1>12, <1>13, <1>14, <1>15, <1>16, <1>17 DEF RingInv, RunInv

(* What a step that moves no index leaves as it was.                       *)
LEMMA SideStep ==
  ASSUME RingSizes, RingInv, dev # "reset",
         UNCHANGED << next, NEXT, num_unused, first_unused, opaque, mine, master_idx, last_used,
                      avail_ring, used_ring, used_idx, held, taken >>,
         pc' = "publish" <=> pc = "publish", old' = old \/ old' = used_idx
  PROVE  TableInv' /\ OwnInv' /\ RoomInv' /\ Top' = Top
<1>1. TypeInv /\ TableInv /\ OwnInv /\ RoomInv
  BY DEF RingInv, RunInv
<1>2. TableInv' /\ Heads' = Heads
  BY <1>1, TableKept
<1>3. Top' = Top
  BY DEF Top
<1>4. Offered' = Offered /\ Used' = Used
  BY <1>3 DEF Offered, Used, Between, Minus
<1>5. OwnInv'
  BY <1>1, <1>2, <1>4 DEF OwnInv, Entry, UsedEntry, DESC_INDEX
<1>6. RoomInv'
  <2>1. Minus(used_idx, used_idx) = 0 /\ 0 <= Num
    BY <1>1, FarApart, Sizes DEF TypeInv
  <2>2. Minus(used_idx', old') <= Num
    BY <1>1, <2>1 DEF RoomInv
  <2>3. Minus(Top', taken') <= Num /\ Minus(used_idx', last_used') <= Num /\ (pc' = "publish" => taken' # Top')
    BY <1>1, <1>3 DEF RoomInv
  <2> QED BY <2>2, <2>3 DEF RoomInv, Minus
<1> QED BY <1>2, <1>3, <1>5, <1>6

LEMMA PublishStep ==
  ASSUME RingSizes, RingInv, Publish, UNCHANGED << event, indirect >>
  PROVE  RingInv'
<1>1. /\ TypeInv /\ TableInv /\ FlagInv /\ ResetInv
      /\ dev # "reset" /\ pc = "publish" /\ OwnInv /\ RoomInv /\ KickInv /\ SignalInv
  BY DEF RingInv, RunInv, Publish, ResetInv
<1>2. /\ pc' = "idle" /\ master_idx' = Plus(master_idx, 1) /\ avail_idx' = master_idx'
      /\ num_added_since_kick' = num_added_since_kick + 1
      /\ UNCHANGED << next, NEXT, num_unused, first_unused, opaque, last_used, NO_INTERRUPT,
                      avail_ring, avail_flags, used_event, used_ring, used_idx, used_flags,
                      avail_event, mine, bufs, awake, misjudged, held, taken, dev, signal, old,
                      irq, event, indirect >>
  BY DEF Publish, ringVars, deviceMem, devVars
<1>3. TableInv' /\ Heads' = Heads
  BY <1>1, <1>2, TableKept
<1>4. Top = Plus(master_idx, 1) /\ Top' = Top
  BY <1>1, <1>2 DEF Top
<1>5. Offered' = Offered /\ Used' = Used
  BY <1>2, <1>4 DEF Offered, Used, Between, Minus
<1>6. OwnInv'
  BY <1>1, <1>2, <1>3, <1>5 DEF OwnInv, Entry, UsedEntry, DESC_INDEX
<1>7. RoomInv'
  BY <1>1, <1>2, <1>4 DEF RoomInv, Minus
<1>8. TypeInv'
  <2>1. Plus(master_idx, 1) \in Idx
    <3>1. 1 \in Nat /\ 1 < IdxMod
      BY Sizes
    <3> QED BY <1>1, <3>1, PlusIs DEF TypeInv
  <2> QED BY <1>1, <1>2, <2>1 DEF TypeInv
<1>9. KickInv'
  BY <1>1, <1>2, <1>4 DEF KickInv, TypeInv, Minus
<1>10. FlagInv' /\ SignalInv' /\ ResetInv'
  BY <1>1, <1>2 DEF FlagInv, SignalInv, ResetInv, Plus, Minus
<1> QED BY <1>3, <1>6, <1>7, <1>8, <1>9, <1>10 DEF RingInv, RunInv

(* A driver that does not kick had no need to: a device that sleeps knew.  *)
LEMMA KickStep ==
  ASSUME RingSizes, RingInv, NEW always \in BOOLEAN, Kick(always), UNCHANGED << event, indirect >>
  PROVE  RingInv'
<1>1. /\ TypeInv /\ TableInv /\ FlagInv /\ ResetInv
      /\ dev # "reset" /\ pc = "idle" /\ OwnInv /\ RoomInv /\ KickInv /\ SignalInv
  BY DEF RingInv, RunInv, Kick, NoCall
<1>2. /\ num_added_since_kick > 0 /\ num_added_since_kick' = 0
      /\ UNCHANGED << next, NEXT, num_unused, first_unused, opaque, master_idx, last_used, NO_INTERRUPT,
                      avail_ring, avail_idx, avail_flags, used_event, used_ring, used_idx, avail_event,
                      mine, pc, bufs, awake, misjudged, held, taken, signal, old, irq, event, indirect >>
  BY DEF Kick, ringVars, driverMem, callVars
<1>3. \/ dev = "asleep" /\ dev' = "running" /\ used_flags' = ~event
      \/ UNCHANGED << dev, used_flags >> /\ (dev = "asleep" => ~KickPrepare)
  BY DEF Kick, DevWake
<1>4. TableInv' /\ OwnInv' /\ RoomInv' /\ Top' = Top
  BY <1>1, <1>2, SideStep
<1>5. TypeInv'
  <2>1. /\ dev' \in {"asleep", "running", "recheck", "reset"} /\ used_flags' \in BOOLEAN
        /\ num_added_since_kick' \in Nat
    BY <1>1, <1>2, <1>3 DEF TypeInv
  <2> QED BY <1>1, <1>2, <2>1 DEF TypeInv
<1>6. ASSUME dev = "asleep", ~KickPrepare PROVE Minus(Top, taken) = 0
  <2>1. Top = master_idx /\ master_idx \in Idx /\ taken \in Idx /\ num_added_since_kick \in Nat
    BY <1>1 DEF Top, TypeInv
  <2>2. event /\ avail_event = taken
    BY <1>1, <1>6 DEF KickInv, KickPrepare, TypeInv
  <2>3. PICK n \in Nat : n = num_added_since_kick /\ n < IdxMod /\ n % IdxMod = n /\ n > 0
    <3>1. num_added_since_kick < IdxMod
      BY <1>6, <2>1, <2>2, Sizes DEF KickPrepare
    <3>2. num_added_since_kick < IdxMod + IdxMod
      BY <2>1, <3>1, Sizes
    <3>3. num_added_since_kick % IdxMod = num_added_since_kick
      BY <2>1, <3>1, <3>2, Wrapped
    <3> QED BY <1>2, <2>1, <3>1, <3>3
  <2>4. n \in Idx
    BY <2>3, Sizes
  <2>5. PICK p \in Idx : p = Minus(master_idx, n)
    BY <2>1, <2>4, MinusIs
  <2>6. Minus(master_idx, p) = n
    <3>1. /\ master_idx \in Nat /\ master_idx < IdxMod /\ IdxMod \in Nat /\ p \in Nat /\ p < IdxMod
      BY <2>1, Sizes
    <3>2. (master_idx >= n => p = master_idx - n) /\ (master_idx < n => p = master_idx - n + IdxMod)
      BY <2>1, <2>4, <2>5, FarApart
    <3>3. /\ master_idx >= p => Minus(master_idx, p) = master_idx - p
          /\ master_idx < p => Minus(master_idx, p) = master_idx - p + IdxMod
      BY <2>1, FarApart
    <3> QED BY <2>3, <3>1, <3>2, <3>3
  <2>7. ~(Minus(master_idx, Plus(taken, 1)) < n)
    <3>1. ~need_event(avail_event, master_idx, Minus(master_idx, num_added_since_kick % IdxMod))
      BY <1>6, <2>2 DEF KickPrepare
    <3>2. ~need_event(taken, master_idx, p)
      BY <2>2, <2>3, <2>5, <3>1
    <3> QED BY <2>6, <3>2 DEF need_event
  <2>8. PICK m \in Nat : m = Minus(master_idx, taken) /\ m <= n
    <3>1. PICK m \in Nat : m = Minus(master_idx, taken)
      BY <2>1, FarApart
    <3> QED BY <1>1, <1>6, <2>1, <2>3, <3>1 DEF KickInv
  <2>9. 1 <= m => Minus(master_idx, Plus(taken, 1)) = m - 1
    <3>1. 1 \in Nat /\ 1 < IdxMod
      BY Sizes
    <3> QED BY <2>1, <2>8, <3>1, Further
  <2>10. m = 0
    BY <2>3, <2>7, <2>8, <2>9
  <2> QED BY <2>1, <2>8, <2>10
<1>7. KickInv'
  <2>1. CASE dev' = "running"
    BY <2>1 DEF KickInv
  <2>2. CASE dev' # "running"
    <3>1. UNCHANGED << dev, used_flags >> /\ (dev = "asleep" => Minus(Top, taken) = 0)
      BY <1>3, <1>6, <2>2
    <3>2. dev' = "asleep" => Minus(Top', taken') = 0
      BY <1>2, <1>4, <3>1
    <3>3. dev' = "asleep" => Minus(Top', taken') <= num_added_since_kick' + IF pc' = "publish" THEN 1 ELSE 0
      BY <1>1, <1>2, <3>2
    <3> QED BY <1>1, <1>2, <3>1, <3>3 DEF KickInv, Minus
  <2> QED BY <2>1, <2>2
<1>8. FlagInv' /\ SignalInv' /\ ResetInv'
  BY <1>1, <1>2, <1>3 DEF FlagInv, SignalInv, ResetInv, Plus, Minus
<1> QED BY <1>4, <1>5, <1>7, <1>8 DEF RingInv, RunInv

LEMMA GetBufStep ==
  ASSUME RingSizes, RingInv, GetBuf, UNCHANGED << event, indirect >>
  PROVE  RingInv'
<1>1. /\ TypeInv /\ TableInv /\ FlagInv /\ ResetInv
      /\ dev # "reset" /\ pc = "idle" /\ OwnInv /\ RoomInv /\ KickInv /\ SignalInv /\ awake
      /\ last_used # used_idx
  BY DEF RingInv, RunInv, GetBuf, NoCall, HasBuf
<1>2. /\ PutChain(used_ring[DESC_INDEX(last_used)])
      /\ last_used' = Plus(last_used, 1) /\ bufs' = 0
      /\ used_event' = (IF event /\ ~NO_INTERRUPT THEN last_used' ELSE used_event)
      /\ UNCHANGED << master_idx, num_added_since_kick, NO_INTERRUPT, avail_ring, avail_idx, avail_flags,
                      used_ring, used_idx, used_flags, avail_event, pc, awake, misjudged, held, taken,
                      dev, signal, old, irq, event, indirect >>
  BY DEF GetBuf, deviceMem, devVars
<1>3. last_used \in Idx /\ used_idx \in Idx
  BY <1>1 DEF TypeInv
<1>4. /\ last_used \in Used /\ Plus(last_used, 1) \in Idx
      /\ Between(Plus(last_used, 1), used_idx) = Used \ {last_used}
      /\ Minus(used_idx, Plus(last_used, 1)) = Minus(used_idx, last_used) - 1
  BY <1>1, <1>3, Shrink DEF Used
<1>5. PICK h \in Heads : h = used_ring[DESC_INDEX(last_used)] /\ h \notin held
  BY <1>1, <1>4 DEF OwnInv, UsedEntry
<1>6. TableInv' /\ Heads' = Heads \ {h}
  BY <1>1, <1>2, <1>5, PutKeepsTable
<1>7. Top' = Top /\ Offered' = Offered /\ Used' = Used \ {last_used}
  BY <1>2, <1>4 DEF Top, Offered, Used, Between, Minus
<1>8. OwnInv'
  <2>1. \A i \in Used \ {last_used} : used_ring[DESC_INDEX(i)] # h
    BY <1>1, <1>4, <1>5 DEF OwnInv, UsedEntry
  <2>2. \A i \in Offered : avail_ring[DESC_INDEX(i)] # h
    BY <1>1, <1>4, <1>5 DEF OwnInv, Entry, UsedEntry
  <2> QED BY <1>1, <1>2, <1>5, <1>6, <1>7, <2>1, <2>2 DEF OwnInv, Entry, UsedEntry, DESC_INDEX
<1>9. RoomInv'
  <2>1. PICK m \in Nat : m = Minus(used_idx, last_used) /\ m <= Num
    <3>1. PICK m \in Nat : m = Minus(used_idx, last_used)
      BY <1>3, FarApart
    <3> QED BY <1>1, <3>1 DEF RoomInv
  <2>2. m - 1 <= Num
    BY <2>1, Sizes
  <2>3. Minus(used_idx', last_used') <= Num
    BY <1>2, <1>4, <2>1, <2>2
  <2> QED BY <1>1, <1>2, <1>7, <2>3 DEF RoomInv, Minus
<1>10. TypeInv'
  BY <1>1, <1>2, <1>4, Sizes DEF TypeInv
<1>11. KickInv'
  BY <1>1, <1>2, <1>7 DEF KickInv, Minus
<1>12. FlagInv'
  <2>1. Plus(last_used', bufs') = last_used'
    <3>1. last_used' \in Idx /\ last_used' \in Nat /\ last_used' < IdxMod /\ 0 \in Nat /\ 0 < IdxMod
      BY <1>2, <1>4, Sizes
    <3>2. Plus(last_used', 0) = last_used' + 0
      BY <3>1, PlusIs
    <3> QED BY <1>2, <3>1, <3>2
  <2> QED BY <1>1, <1>2, <2>1 DEF FlagInv, Plus
<1>13. SignalInv'
  BY <1>1, <1>2 DEF SignalInv
<1>14. ResetInv'
  BY <1>1, <1>2 DEF ResetInv
<1> QED BY <1>6, <1>8, <1>9, <1>10, <1>11, <1>12, <1>13, <1>14 DEF RingInv, RunInv

LEMMA InterruptStep ==
  ASSUME RingSizes, RingInv, Interrupt, UNCHANGED << event, indirect >>
  PROVE  RingInv'
<1>1. /\ TypeInv /\ TableInv /\ FlagInv /\ ResetInv
      /\ dev # "reset" /\ pc = "idle" /\ OwnInv /\ RoomInv /\ KickInv /\ SignalInv
  BY DEF RingInv, RunInv, Interrupt, NoCall
<1>2. /\ irq' = FALSE /\ awake' = TRUE /\ NO_INTERRUPT' = TRUE
      /\ (~event => avail_flags' = NO_INTERRUPT') /\ (event => avail_flags' = avail_flags)
      /\ UNCHANGED << next, NEXT, num_unused, first_unused, opaque, master_idx, num_added_since_kick,
                      last_used, avail_ring, avail_idx, used_event, used_ring, used_idx, used_flags,
                      avail_event, mine, pc, bufs, misjudged, held, taken, dev, signal, old, event,
                      indirect >>
  BY DEF Interrupt, SetNoInterrupt, ringVars, deviceMem, devVars
<1>3. TableInv' /\ OwnInv' /\ RoomInv' /\ Top' = Top
  BY <1>1, <1>2, SideStep
<1>4. TypeInv'
  BY <1>1, <1>2 DEF TypeInv
<1>5. KickInv'
  BY <1>1, <1>2, <1>3 DEF KickInv, Minus
<1>6. SignalInv' /\ ResetInv'
  BY <1>1, <1>2 DEF SignalInv, ResetInv
<1>7. FlagInv'
  <2>1. ~(event' /\ ~NO_INTERRUPT') /\ awake'
    BY <1>2
  <2>2. ~event' => avail_flags' = NO_INTERRUPT'
    <3>1. event' = event
      BY <1>2
    <3>2. ~event => avail_flags' = NO_INTERRUPT'
      BY <1>2, Zenon
    <3> QED BY <3>1, <3>2
  <2>3. ~(pc' \in {"check", "check_delayed"})
    BY <1>1, <1>2
  <2> QED BY <2>1, <2>2, <2>3 DEF FlagInv
<1> QED BY <1>3, <1>4, <1>5, <1>6, <1>7 DEF RingInv, RunInv

LEMMA PollStep ==
  ASSUME RingSizes, RingInv, Poll, UNCHANGED << event, indirect >>
  PROVE  RingInv'
<1>1. /\ TypeInv /\ TableInv /\ FlagInv /\ ResetInv
      /\ dev # "reset" /\ pc = "idle" /\ OwnInv /\ RoomInv /\ KickInv /\ SignalInv
  BY DEF RingInv, RunInv, Poll, NoCall
<1>2. /\ irq' = FALSE /\ awake' = ~awake /\ (awake => ~NO_INTERRUPT /\ bufs = 0 /\ last_used = used_idx)
      /\ UNCHANGED << next, NEXT, num_unused, first_unused, opaque, master_idx, num_added_since_kick,
                      last_used, NO_INTERRUPT, avail_ring, avail_idx, avail_flags, used_event, used_ring,
                      used_idx, used_flags, avail_event, mine, pc, bufs, misjudged, held, taken, dev,
                      signal, old, event, indirect >>
  BY DEF Poll, HasBuf, ringVars, countVars, driverMem, deviceMem, devVars
<1>3. TableInv' /\ OwnInv' /\ RoomInv' /\ Top' = Top
  BY <1>1, <1>2, SideStep
<1>4. TypeInv'
  BY <1>1, <1>2 DEF TypeInv
<1>5. KickInv'
  BY <1>1, <1>2, <1>3 DEF KickInv, Minus
<1>6. FlagInv' /\ ResetInv'
  BY <1>1, <1>2 DEF FlagInv, ResetInv, Plus
<1>7. SignalInv'
  <2>1. used_idx \in Idx /\ last_used \in Idx /\ old \in Idx
    BY <1>1 DEF TypeInv
  <2>2. PICK k \in Nat : k = Minus(used_idx, old)
    BY <2>1, FarApart
  <2>3. ASSUME awake PROVE Minus(used_idx', last_used') - Minus(used_idx', old') <= bufs'
    <3>1. Minus(used_idx, last_used) = 0
      BY <1>2, <2>1, <2>3, FarApart
    <3>2. 0 - k <= 0
      BY <2>2
    <3> QED BY <1>2, <2>2, <2>3, <3>1, <3>2 DEF Minus
  <2> QED BY <1>1, <1>2, <2>3 DEF SignalInv, Minus, TypeInv
<1> QED BY <1>3, <1>4, <1>5, <1>6, <1>7 DEF RingInv, RunInv

LEMMA EnableStep ==
  ASSUME RingSizes, RingInv, NEW at \in {"check", "check_delayed"}, NEW n \in Nat, n < IdxMod,
         Enable(at, n), UNCHANGED << event, indirect >>
  PROVE  RingInv'
<1>1. /\ TypeInv /\ TableInv /\ FlagInv /\ ResetInv
      /\ dev # "reset" /\ pc = "idle" /\ OwnInv /\ RoomInv /\ KickInv /\ SignalInv /\ awake
  BY DEF RingInv, RunInv, Enable, NoCall
<1>2. /\ pc' = at /\ bufs' = n /\ NO_INTERRUPT' = FALSE /\ used_event' = Plus(last_used, n)
      /\ (~event => avail_flags' = NO_INTERRUPT') /\ (event => avail_flags' = avail_flags)
      /\ UNCHANGED << next, NEXT, num_unused, first_unused, opaque, master_idx, num_added_since_kick,
                      last_used, avail_ring, avail_idx, used_ring, used_idx, used_flags, avail_event,
                      mine, awake, misjudged, held, taken, dev, signal, old, irq, event, indirect >>
  BY DEF Enable, SetNoInterrupt, ringVars, deviceMem, devVars
<1>3. TableInv' /\ OwnInv' /\ RoomInv' /\ Top' = Top
  BY <1>1, <1>2, SideStep
<1>4. TypeInv'
  <2>1. Plus(last_used, n) \in Idx
    BY <1>1, PlusIs DEF TypeInv
  <2> QED BY <1>1, <1>2, <2>1 DEF TypeInv
<1>5. KickInv'
  BY <1>1, <1>2, <1>3 DEF KickInv, Minus
<1>6. ResetInv' /\ SignalInv'
  BY <1>1, <1>2 DEF ResetInv, SignalInv
<1>7. FlagInv'
  <2>1. awake' /\ ~NO_INTERRUPT' /\ used_event' = Plus(last_used', bufs')
    BY <1>1, <1>2 DEF Plus
  <2>2. ~event' => avail_flags' = NO_INTERRUPT'
    <3>1. event' = event
      BY <1>2
    <3>2. ~event => avail_flags' = NO_INTERRUPT'
      BY <1>2, Zenon
    <3> QED BY <3>1, <3>2
  <2> QED BY <2>1, <2>2 DEF FlagInv, Plus
<1> QED BY <1>3, <1>4, <1>5, <1>6, <1>7 DEF RingInv, RunInv

LEMMA CheckStep ==
  ASSUME RingSizes, RingInv, Check, UNCHANGED << event, indirect >>
  PROVE  RingInv'
<1>1. /\ TypeInv /\ TableInv /\ FlagInv /\ ResetInv /\ pc \in {"check", "check_delayed"}
      /\ dev # "reset" /\ OwnInv /\ RoomInv /\ KickInv /\ SignalInv /\ awake /\ ~NO_INTERRUPT
  BY DEF RingInv, RunInv, Check, FlagInv, ResetInv
<1>2. /\ pc' = "idle"
      /\ UNCHANGED << next, NEXT, num_unused, first_unused, opaque, master_idx, num_added_since_kick,
                      last_used, avail_ring, avail_idx, used_event, used_ring, used_idx, used_flags,
                      avail_event, mine, bufs, held, taken, dev, signal, old, irq, event, indirect >>
      /\ \/ /\ awake' = TRUE /\ NO_INTERRUPT' = TRUE
            /\ (~event => avail_flags' = NO_INTERRUPT') /\ (event => avail_flags' = avail_flags)
         \/ awake' = FALSE /\ UNCHANGED << NO_INTERRUPT, avail_flags >>
  BY DEF Check, SetNoInterrupt, HasBuf, ringVars, deviceMem, devVars
<1>3. TableInv' /\ OwnInv' /\ RoomInv' /\ Top' = Top
  BY <1>1, <1>2, SideStep
<1>4. misjudged' \in BOOLEAN
  BY <1>1 DEF Check, TypeInv
<1>5. TypeInv'
  BY <1>1, <1>2, <1>4 DEF TypeInv
<1>6. KickInv'
  BY <1>1, <1>2, <1>3 DEF KickInv, Minus
<1>7. FlagInv' /\ ResetInv'
  <2>1. ~event' => avail_flags' = NO_INTERRUPT'
    <3>1. event' = event
      BY <1>2
    <3>2. CASE awake' = TRUE
      BY <1>2, <3>1, <3>2
    <3>3. CASE UNCHANGED << NO_INTERRUPT, avail_flags >>
      <4>1. NO_INTERRUPT' = NO_INTERRUPT /\ avail_flags' = avail_flags
        BY <3>3
      <4> QED BY <1>1, <3>1, <4>1 DEF FlagInv
    <3> QED BY <1>2, <3>2, <3>3
  <2>2. event' /\ ~NO_INTERRUPT' => used_event' = Plus(last_used', bufs')
    BY <1>1, <1>2 DEF FlagInv, Plus
  <2>3. (~awake' => ~NO_INTERRUPT') /\ pc' = "idle"
    BY <1>1, <1>2
  <2>4. FlagInv'
    BY <2>1, <2>2, <2>3 DEF FlagInv, Plus
  <2>5. ResetInv'
    BY <1>1, <1>2 DEF ResetInv
  <2> QED BY <2>4, <2>5
<1>8. SignalInv'
  <2>1. used_idx \in Idx /\ last_used \in Idx /\ old \in Idx /\ bufs \in Nat
    BY <1>1 DEF TypeInv
  <2>2. PICK k \in Nat, u \in Nat : k = Minus(used_idx, old) /\ u = Minus(used_idx, last_used)
    BY <2>1, FarApart
  <2>3. ASSUME ~awake', ~misjudged' PROVE u <= bufs
    <3>1. CASE pc = "check"
      <4>1. last_used = used_idx
        BY <2>3, <3>1 DEF Check, HasBuf
      <4>2. u = 0
        BY <2>1, <2>2, <4>1, FarApart
      <4> QED BY <2>1, <4>2
    <3>2. CASE pc = "check_delayed"
      <4>1. ~(Minus(used_idx, last_used) > bufs)
        BY <2>3, <3>2, Zenon DEF Check
      <4> QED BY <2>1, <2>2, <4>1
    <3> QED BY <1>1, <3>1, <3>2
  <2>4. ASSUME ~awake', ~misjudged' PROVE u - k <= bufs
    BY <2>1, <2>2, <2>3, <2>4
  <2>5. Minus(used_idx', last_used') = u /\ Minus(used_idx', old') = k
    BY <1>2, <2>2
  <2> QED BY <1>1, <1>2, <2>4, <2>5 DEF SignalInv
<1> QED BY <1>3, <1>5, <1>6, <1>7, <1>8 DEF RingInv, RunInv

(* The steps of the device.                                                *)
LEMMA DevTakeStep ==
  ASSUME RingSizes, RingInv, DevTake, UNCHANGED << event, indirect >>
  PROVE  RingInv'
<1>1. /\ TypeInv /\ TableInv /\ FlagInv /\ ResetInv
      /\ dev = "running" /\ OwnInv /\ RoomInv /\ KickInv /\ SignalInv /\ taken # avail_idx
  BY DEF RingInv, RunInv, DevTake
<1>2. /\ held' = held \cup {avail_ring[DESC_INDEX(taken)]} /\ taken' = Plus(taken, 1)
      /\ UNCHANGED << next, NEXT, num_unused, first_unused, opaque, master_idx, num_added_since_kick,
                      last_used, NO_INTERRUPT, avail_ring, avail_idx, avail_flags, used_event,
                      used_ring, used_idx, used_flags, avail_event, mine, pc, bufs, awake, misjudged,
                      dev, signal, old, irq, event, indirect >>
  BY DEF DevTake, ringVars, countVars, driverMem, deviceMem, callVars
<1>3. TableInv' /\ Heads' = Heads
  BY <1>1, <1>2, TableKept
<1>4. /\ Top' = Top /\ Top \in Idx /\ taken \in Idx /\ taken # master_idx /\ master_idx \in Idx
      /\ 1 \in Nat /\ 1 < IdxMod
  <2>1. master_idx \in Idx /\ 1 \in Nat /\ 1 < IdxMod
    BY <1>1, Sizes DEF TypeInv
  <2>2. Plus(master_idx, 1) \in Idx
    BY <2>1, PlusIs
  <2> QED BY <1>1, <1>2, <2>1, <2>2 DEF Top, TypeInv
<1>5. taken # Top
  BY <1>1, <1>4 DEF RoomInv, Top
<1>6. /\ taken \in Offered /\ Plus(taken, 1) \in Idx
      /\ Between(Plus(taken, 1), Top) = Offered \ {taken}
      /\ Minus(Top, Plus(taken, 1)) = Minus(Top, taken) - 1
  BY <1>4, <1>5, Shrink DEF Offered
<1>7. Offered' = Offered \ {taken} /\ Used' = Used
  BY <1>2, <1>4, <1>6 DEF Offered, Used, Between, Minus
<1>8. OwnInv'
  <2>1. PICK h \in Heads : h = avail_ring[DESC_INDEX(taken)] /\ h \notin held
    BY <1>1, <1>6 DEF OwnInv, Entry
  <2>2. \A i \in Offered \ {taken} : avail_ring[DESC_INDEX(i)] # h
    BY <1>1, <1>6, <2>1 DEF OwnInv, Entry
  <2>3. \A i \in Used : used_ring[DESC_INDEX(i)] # h
    BY <1>1, <1>6, <2>1 DEF OwnInv, Entry, UsedEntry
  <2>4. held' = held \cup {h}
    BY <1>2, <2>1
  <2> QED BY <1>1, <1>2, <1>3, <1>7, <2>2, <2>3, <2>4 DEF OwnInv, Entry, UsedEntry, DESC_INDEX
<1>9. RoomInv'
  <2>1. PICK m \in Nat : m = Minus(Top, taken) /\ m <= Num
    <3>1. PICK m \in Nat : m = Minus(Top, taken)
      BY <1>4, FarApart
    <3> QED BY <1>1, <3>1 DEF RoomInv
  <2>2. m - 1 <= Num
    BY <2>1, Sizes
  <2>3. Minus(Top', taken') <= Num
    BY <1>2, <1>4, <1>6, <2>1, <2>2
  <2>4. ASSUME pc = "publish" PROVE Plus(taken, 1) # Top
    <3> SUFFICES ASSUME Plus(taken, 1) = Plus(master_idx, 1) PROVE FALSE
      BY <2>4 DEF Top
    <3>1. /\ taken \in Nat /\ taken < IdxMod /\ master_idx \in Nat /\ master_idx < IdxMod /\ IdxMod \in Nat
      BY <1>4, Sizes
    <3>2. /\ taken + 1 < IdxMod => Plus(taken, 1) = taken + 1
          /\ ~(taken + 1 < IdxMod) => Plus(taken, 1) = taken + 1 - IdxMod
      BY <1>4, PlusIs
    <3>3. /\ master_idx + 1 < IdxMod => Plus(master_idx, 1) = master_idx + 1
          /\ ~(master_idx + 1 < IdxMod) => Plus(master_idx, 1) = master_idx + 1 - IdxMod
      BY <1>4, PlusIs
    <3>4. taken = master_idx
      BY <3>1, <3>2, <3>3
    <3> QED BY <1>4, <3>4
  <2> QED BY <1>1, <1>2, <1>4, <2>3, <2>4 DEF RoomInv, Minus
<1>10. TypeInv'
  <2>1. avail_ring[DESC_INDEX(taken)] \in Descs
    BY <1>1, <1>4, SlotInRing DEF TypeInv
  <2> QED BY <1>1, <1>2, <1>6, <2>1 DEF TypeInv
<1>11. KickInv' /\ FlagInv' /\ SignalInv' /\ ResetInv'
  BY <1>1, <1>2 DEF KickInv, FlagInv, SignalInv, ResetInv, Plus, Minus
<1> QED BY <1>3, <1>8, <1>9, <1>10, <1>11 DEF RingInv, RunInv

LEMMA DevIdleStep ==
  ASSUME RingSizes, RingInv, DevIdle, UNCHANGED << event, indirect >>
  PROVE  RingInv'
<1>1. /\ TypeInv /\ TableInv /\ FlagInv /\ ResetInv
      /\ dev = "running" /\ OwnInv /\ RoomInv /\ KickInv /\ SignalInv
  BY DEF RingInv, RunInv, DevIdle
<1>2. /\ dev' = "recheck" /\ used_flags' = FALSE
      /\ avail_event' = (IF event THEN taken ELSE avail_event)
      /\ UNCHANGED << next, NEXT, num_unused, first_unused, opaque, master_idx, num_added_since_kick,
                      last_used, NO_INTERRUPT, avail_ring, avail_idx, avail_flags, used_event,
                      used_ring, used_idx, mine, pc, bufs, awake, misjudged, held, taken,
                      signal, old, irq, event, indirect >>
  BY DEF DevIdle, ringVars, countVars, driverMem, callVars
<1>3. TableInv' /\ OwnInv' /\ RoomInv' /\ Top' = Top
  BY <1>1, <1>2, SideStep
<1>4. TypeInv'
  BY <1>1, <1>2 DEF TypeInv
<1>5. KickInv'
  BY <1>2 DEF KickInv
<1>6. FlagInv' /\ SignalInv' /\ ResetInv'
  BY <1>1, <1>2 DEF FlagInv, SignalInv, ResetInv, Plus, Minus
<1> QED BY <1>3, <1>4, <1>5, <1>6 DEF RingInv, RunInv

(* It sleeps when it has looked again and found nothing.                   *)
LEMMA DevRecheckStep ==
  ASSUME RingSizes, RingInv, DevRecheck, UNCHANGED << event, indirect >>
  PROVE  RingInv'
<1>1. /\ TypeInv /\ TableInv /\ FlagInv /\ ResetInv
      /\ dev = "recheck" /\ OwnInv /\ RoomInv /\ KickInv /\ SignalInv
  BY DEF RingInv, RunInv, DevRecheck
<1>2. /\ \/ dev' = "asleep" /\ taken = avail_idx /\ used_flags' = FALSE
         \/ dev' = "running" /\ used_flags' \in BOOLEAN
      /\ UNCHANGED << next, NEXT, num_unused, first_unused, opaque, master_idx, num_added_since_kick,
                      last_used, NO_INTERRUPT, avail_ring, avail_idx, avail_flags, used_event,
                      used_ring, used_idx, avail_event, mine, pc, bufs, awake, misjudged, held, taken,
                      signal, old, irq, event, indirect >>
  BY DEF DevRecheck, ringVars, countVars, driverMem, callVars
<1>3. TableInv' /\ OwnInv' /\ RoomInv' /\ Top' = Top
  BY <1>1, <1>2, SideStep
<1>4. TypeInv'
  <2>1. dev' \in {"asleep", "running", "recheck", "reset"} /\ used_flags' \in BOOLEAN
    BY <1>2
  <2> QED BY <1>1, <1>2, <2>1 DEF TypeInv
<1>5. KickInv'
  <2>1. ASSUME dev' = "asleep"
        PROVE  Minus(Top, taken) <= num_added_since_kick + IF pc = "publish" THEN 1 ELSE 0
    <3>1. taken = master_idx /\ master_idx \in Idx /\ num_added_since_kick \in Nat
      BY <1>1, <1>2, <2>1 DEF TypeInv
    <3>2. Minus(master_idx, master_idx) = 0
      BY <3>1, FarApart
    <3>3. Minus(Plus(master_idx, 1), master_idx) = 1
      <4>1. 1 \in Nat /\ 1 < IdxMod /\ 0 + 1 = 1
        BY Sizes
      <4> QED BY <3>1, <3>2, <4>1, Further
    <3>4. CASE pc = "publish"
      <4>1. Minus(Top, taken) = 1
        BY <3>1, <3>3, <3>4 DEF Top
      <4> QED BY <3>1, <3>4, <4>1
    <3>5. CASE pc # "publish"
      <4>1. Minus(Top, taken) = 0
        BY <3>1, <3>2, <3>5 DEF Top
      <4> QED BY <3>1, <3>5, <4>1
    <3> QED BY <3>4, <3>5
  <2> QED BY <1>1, <1>2, <1>3, <2>1 DEF KickInv, Minus
<1>6. FlagInv' /\ SignalInv' /\ ResetInv'
  BY <1>1, <1>2 DEF FlagInv, SignalInv, ResetInv, Plus, Minus
<1> QED BY <1>3, <1>4, <1>5, <1>6 DEF RingInv, RunInv

LEMMA DevUseStep ==
  ASSUME RingSizes, RingInv, NEW h \in held, DevUse(h), UNCHANGED << event, indirect >>
  PROVE  RingInv'
<1>1. /\ TypeInv /\ TableInv /\ FlagInv /\ ResetInv
      /\ dev # "reset" /\ OwnInv /\ RoomInv /\ KickInv /\ SignalInv
  BY DEF RingInv, RunInv, ResetInv
<1>2. /\ held' = held \ {h} /\ signal' = TRUE /\ Minus(used_idx, old) < Num
      /\ used_ring' = [used_ring EXCEPT ![DESC_INDEX(used_idx)] = h] /\ used_idx' = Plus(used_idx, 1)
      /\ UNCHANGED << next, NEXT, num_unused, first_unused, opaque, master_idx, num_added_since_kick,
                      last_used, NO_INTERRUPT, avail_ring, avail_idx, avail_flags, used_event,
                      used_flags, avail_event, mine, pc, bufs, awake, misjudged, taken, dev, old, irq,
                      event, indirect >>
  BY DEF DevUse, ringVars, countVars, driverMem, callVars
<1>3. TableInv' /\ Heads' = Heads
  BY <1>1, <1>2, TableKept
<1>4. /\ used_idx \in Idx /\ last_used \in Idx /\ old \in Idx /\ h \in Descs /\ h \in Heads
      /\ used_ring \in [Descs -> Descs] /\ 1 \in Nat /\ 1 < IdxMod /\ Num < IdxMod /\ Num \in Nat
      /\ IdxMod \in Nat
  BY <1>1, Sizes DEF TypeInv, OwnInv, Heads
<1>5. Minus(used_idx, last_used) < Num
  <2>1. \A i \in Between(last_used, used_idx) : used_ring[DESC_INDEX(i)] \in Descs \ {h}
    BY <1>1 DEF OwnInv, UsedEntry, Used, Heads
  <2>2. \A i, j \in Between(last_used, used_idx) :
          used_ring[DESC_INDEX(i)] = used_ring[DESC_INDEX(j)] => i = j
    BY <1>1 DEF OwnInv, UsedEntry, Used
  <2> QED BY <1>4, <2>1, <2>2, Room
<1>6. PICK u \in Nat, k \in Nat : /\ u = Minus(used_idx, last_used) /\ u < Num /\ u + 1 < IdxMod
                                  /\ k = Minus(used_idx, old) /\ k < Num /\ k + 1 < IdxMod
  <2>1. PICK u \in Nat, k \in Nat : u = Minus(used_idx, last_used) /\ k = Minus(used_idx, old)
    BY <1>4, FarApart
  <2> QED BY <1>2, <1>4, <1>5, <2>1
<1>7. /\ used_idx \notin Used /\ Plus(used_idx, 1) \in Idx
      /\ Between(last_used, Plus(used_idx, 1)) = Used \cup {used_idx}
      /\ Minus(Plus(used_idx, 1), last_used) = u + 1
  BY <1>4, <1>6, Grow DEF Used
<1>8. Minus(Plus(used_idx, 1), old) = k + 1
  BY <1>4, <1>6, Further
<1>9. Top' = Top /\ Offered' = Offered /\ Used' = Used \cup {used_idx}
  BY <1>2, <1>7 DEF Top, Offered, Used, Between, Minus
<1>10. /\ used_ring' \in [Descs -> Descs] /\ used_ring'[DESC_INDEX(used_idx)] = h
       /\ \A i \in Used : used_ring'[DESC_INDEX(i)] = used_ring[DESC_INDEX(i)]
  <2> DEFINE q == [used_ring EXCEPT ![DESC_INDEX(used_idx)] = h]
  <2>1. /\ q \in [Descs -> Descs] /\ q[DESC_INDEX(used_idx)] = h
        /\ \A i \in Between(last_used, used_idx) : q[DESC_INDEX(i)] = used_ring[DESC_INDEX(i)]
    BY <1>4, <1>5, WriteSlot
  <2>2. used_ring' = q
    BY <1>2
  <2> HIDE DEF q
  <2> QED BY <2>1, <2>2 DEF Used
<1>11. TypeInv'
  BY <1>1, <1>2, <1>7, <1>10 DEF TypeInv
<1>12. OwnInv'
  <2>1. /\ Offered' = Offered /\ Used' = Used \cup {used_idx} /\ avail_ring' = avail_ring
        /\ held' = held \ {h} /\ Heads' = Heads /\ h \in Heads /\ held \subseteq Heads
    BY <1>1, <1>2, <1>3, <1>4, <1>9 DEF OwnInv
  <2>2. ASSUME NEW i \in Used'
        PROVE  \/ /\ i \in Used /\ used_ring'[DESC_INDEX(i)] = used_ring[DESC_INDEX(i)]
                  /\ used_ring[DESC_INDEX(i)] \in Heads \ held
               \/ i = used_idx /\ used_ring'[DESC_INDEX(i)] = h
    <3>1. CASE i \in Used
      BY <1>1, <1>10, <3>1 DEF OwnInv, UsedEntry
    <3>2. CASE i = used_idx
      BY <1>10, <3>2
    <3> QED BY <2>1, <3>1, <3>2
  <2>3. \A i \in Offered : avail_ring[DESC_INDEX(i)] \in Heads \ held
    BY <1>1 DEF OwnInv, Entry
  <2>4. \A i, j \in Offered : avail_ring[DESC_INDEX(i)] = avail_ring[DESC_INDEX(j)] => i = j
    BY <1>1 DEF OwnInv, Entry
  <2>5. \A i, j \in Used : used_ring[DESC_INDEX(i)] = used_ring[DESC_INDEX(j)] => i = j
    BY <1>1 DEF OwnInv, UsedEntry
  <2>6. \A i \in Offered, j \in Used : avail_ring[DESC_INDEX(i)] # used_ring[DESC_INDEX(j)]
    BY <1>1 DEF OwnInv, Entry, UsedEntry
  <2>7. \A i \in Used' : used_ring'[DESC_INDEX(i)] \in Heads' \ held'
    BY <2>1, <2>2
  <2>8. ASSUME NEW i \in Used', NEW j \in Used', used_ring'[DESC_INDEX(i)] = used_ring'[DESC_INDEX(j)]
        PROVE  i = j
    BY <2>1, <2>2, <2>5, <2>8
  <2>9. \A i \in Offered' : avail_ring'[DESC_INDEX(i)] \in Heads' \ held'
    BY <2>1, <2>3
  <2>10. ASSUME NEW i \in Offered', NEW j \in Used' PROVE avail_ring'[DESC_INDEX(i)] # used_ring'[DESC_INDEX(j)]
    BY <2>1, <2>2, <2>3, <2>6
  <2> QED BY <2>1, <2>4, <2>7, <2>8, <2>9, <2>10 DEF OwnInv, Entry, UsedEntry, DESC_INDEX
<1>13. RoomInv'
  <2>1. u + 1 <= Num /\ k + 1 <= Num
    BY <1>4, <1>6
  <2> QED BY <1>1, <1>2, <1>7, <1>8, <1>9, <2>1 DEF RoomInv, Minus
<1>14. SignalInv'
  <2>1. (u + 1) - (k + 1) = u - k
    BY <1>6
  <2> QED BY <1>1, <1>2, <1>6, <1>7, <1>8, <2>1 DEF SignalInv
<1>15. KickInv' /\ FlagInv' /\ ResetInv'
  <2>1. KickInv'
    BY <1>1, <1>2, <1>9 DEF KickInv, Minus
  <2>2. FlagInv'
    BY <1>1, <1>2 DEF FlagInv, Plus
  <2>3. ResetInv'
    BY <1>1, <1>2 DEF ResetInv
  <2> QED BY <2>1, <2>2, <2>3
<1> QED BY <1>3, <1>11, <1>12, <1>13, <1>14, <1>15 DEF RingInv, RunInv

(* It signals unless less has been used than the driver waits for.         *)
LEMMA DevSignalStep ==
  ASSUME RingSizes, RingInv, DevSignal, UNCHANGED << event, indirect >>
  PROVE  RingInv'
<1>1. /\ TypeInv /\ TableInv /\ FlagInv /\ ResetInv
      /\ dev # "reset" /\ OwnInv /\ RoomInv /\ KickInv /\ SignalInv
  BY DEF RingInv, RunInv, DevSignal, ResetInv
<1>2. /\ signal' = FALSE /\ old' = used_idx
      /\ UNCHANGED << next, NEXT, num_unused, first_unused, opaque, master_idx, num_added_since_kick,
                      last_used, NO_INTERRUPT, avail_ring, avail_idx, avail_flags, used_event,
                      used_ring, used_idx, used_flags, avail_event, mine, pc, bufs, awake, misjudged,
                      held, taken, dev, event, indirect >>
  BY DEF DevSignal, ringVars, countVars, driverMem, deviceMem, callVars
<1>3. TableInv' /\ OwnInv' /\ RoomInv' /\ Top' = Top
  BY <1>1, <1>2, SideStep
<1>4. irq' \in BOOLEAN
  BY <1>1 DEF DevSignal, TypeInv
<1>5. TypeInv'
  BY <1>1, <1>2, <1>4 DEF TypeInv
<1>6. KickInv'
  BY <1>1, <1>2, <1>3 DEF KickInv, Minus
<1>7. FlagInv' /\ ResetInv'
  <2>1. FlagInv'
    BY <1>1, <1>2 DEF FlagInv, Plus
  <2>2. ResetInv'
    BY <1>1, <1>2 DEF ResetInv
  <2> QED BY <2>1, <2>2
<1>8. SignalInv'
  <2>1. used_idx \in Idx /\ last_used \in Idx /\ old \in Idx /\ bufs \in Nat /\ bufs < IdxMod
    BY <1>1 DEF TypeInv
  <2>2. PICK k \in Nat, u \in Nat : k = Minus(used_idx, old) /\ u = Minus(used_idx, last_used) /\ u < IdxMod
    BY <2>1, FarApart
  <2>3. ASSUME ~awake, ~misjudged, u > bufs PROVE irq'
    <3>1. CASE irq
      BY <2>3, <3>1, Zenon DEF DevSignal
    <3>2. CASE ~irq
      <4>1. u - k <= bufs
        BY <1>1, <2>2, <2>3, <3>2 DEF SignalInv
      <4>2. CASE event
        <5>1. ~NO_INTERRUPT /\ used_event = Plus(last_used, bufs)
          BY <1>1, <2>3, <4>2 DEF FlagInv
        <5>2. used_event \in Idx /\ Minus(used_idx, used_event) = u - bufs
          BY <2>1, <2>2, <2>3, <5>1, Further
        <5>3. Minus(used_idx, Plus(used_event, 1)) = (u - bufs) - 1
          <6>1. 1 \in Nat /\ 1 < IdxMod
            BY Sizes
          <6>2. 1 <= Minus(used_idx, used_event)
            BY <2>1, <2>2, <2>3, <5>2
          <6> QED BY <2>1, <5>2, <6>1, <6>2, Further
        <5>4. (u - bufs) - 1 < k
          BY <2>1, <2>2, <4>1
        <5>5. need_event(used_event, used_idx, old)
          BY <2>2, <5>3, <5>4 DEF need_event
        <5> QED BY <2>3, <4>2, <5>5, Zenon DEF DevSignal
      <4>3. CASE ~event
        <5>1. ~avail_flags
          BY <1>1, <2>3, <4>3 DEF FlagInv
        <5> QED BY <2>3, <4>3, <5>1, Zenon DEF DevSignal
      <4> QED BY <4>2, <4>3
    <3> QED BY <3>1, <3>2
  <2>4. Minus(used_idx', last_used') = u /\ Minus(used_idx', old') = 0
    <3>1. Minus(used_idx, used_idx) = 0
      BY <2>1, FarApart
    <3> QED BY <1>2, <2>2, <3>1
  <2>5. ~(u > bufs) => u - 0 <= bufs
    BY <2>1, <2>2
  <2> QED BY <1>2, <2>3, <2>4, <2>5 DEF SignalInv
<1> QED BY <1>3, <1>5, <1>6, <1>7, <1>8 DEF RingInv, RunInv

(* Shutting down.                                                          *)
LEMMA ResetStep ==
  ASSUME RingSizes, RingInv, Reset, UNCHANGED << event, indirect >>
  PROVE  RingInv'
<1>1. TypeInv /\ TableInv /\ FlagInv /\ pc = "idle"
  BY DEF RingInv, Reset, NoCall
<1>2. /\ dev' = "reset" /\ held' = {} /\ signal' = FALSE /\ irq' = FALSE
      /\ UNCHANGED << next, NEXT, num_unused, first_unused, opaque, master_idx, num_added_since_kick,
                      last_used, NO_INTERRUPT, avail_ring, avail_idx, avail_flags, used_event,
                      used_ring, used_idx, used_flags, avail_event, mine, pc, bufs, awake, misjudged,
                      taken, old, event, indirect >>
  BY DEF Reset, ringVars, countVars, driverMem, deviceMem
<1>3. TableInv'
  BY <1>1, <1>2, TableKept
<1>4. TypeInv'
  BY <1>1, <1>2 DEF TypeInv
<1>5. FlagInv'
  BY <1>1, <1>2 DEF FlagInv, Plus
<1>6. ResetInv' /\ RunInv'
  BY <1>1, <1>2 DEF ResetInv, RunInv
<1> QED BY <1>3, <1>4, <1>5, <1>6 DEF RingInv

LEMMA DetachStep ==
  ASSUME RingSizes, RingInv, DetachUnusedBuf, UNCHANGED << event, indirect >>
  PROVE  RingInv'
<1>1. TypeInv /\ TableInv /\ FlagInv /\ ResetInv /\ dev = "reset"
  BY DEF RingInv, DetachUnusedBuf
<1>2. PICK d \in Descs : opaque[d] # NoBuf /\ PutChain(d)
  BY DEF DetachUnusedBuf
<1>3. /\ master_idx' = Minus(master_idx, 1) /\ avail_idx' = master_idx'
      /\ UNCHANGED << num_added_since_kick, last_used, NO_INTERRUPT, avail_ring, avail_flags, used_event,
                      used_ring, used_idx, used_flags, avail_event, pc, bufs, awake, misjudged,
                      held, taken, dev, signal, old, irq, event, indirect >>
  BY DEF DetachUnusedBuf, deviceMem, devVars
<1>4. TableInv'
  <2>1. d \in Heads
    BY <1>2 DEF Heads
  <2> QED BY <1>1, <1>2, <2>1, PutKeepsTable
<1>5. TypeInv'
  <2>1. master_idx \in Idx /\ 1 \in Idx
    <3>1. 1 \in Nat /\ 1 < IdxMod
      BY Sizes
    <3> QED BY <1>1, <3>1, Sizes DEF TypeInv
  <2>2. Minus(master_idx, 1) \in Idx
    BY <2>1, MinusIs
  <2> QED BY <1>1, <1>3, <2>2 DEF TypeInv
<1>6. FlagInv'
  BY <1>1, <1>3 DEF FlagInv, Plus
<1>7. ResetInv' /\ RunInv'
  BY <1>1, <1>3 DEF ResetInv, RunInv
<1> QED BY <1>4, <1>5, <1>6, <1>7 DEF RingInv

LEMMA ShutdownStep ==
  ASSUME RingSizes, RingInv, Shutdown, UNCHANGED << event, indirect >>
  PROVE  RingInv'
<1>1. TypeInv /\ TableInv /\ ResetInv /\ dev = "reset"
  BY DEF RingInv, Shutdown
<1>2. /\ Num \in Nat /\ 0 \in Idx /\ 0 \in Descs /\ 0 \in Nat /\ 0 < IdxMod /\ 0 <= Num
      /\ Zeros \in [Descs -> Descs]
  BY Sizes, FreshLine DEF Zeros
<1>3. Between(0, 0) = {} /\ Minus(0, 0) = 0 /\ Plus(0, 0) = 0
  <2>1. Between(0, 0) = {} /\ Minus(0, 0) = 0
    BY <1>2, NoneBetween
  <2>2. 0 + 0 < IdxMod /\ 0 + 0 = 0
    BY <1>2
  <2> QED BY <1>2, <2>1, <2>2, PlusIs
<1>4. TableInv' /\ Heads' = {}
  <2>1. mine' \subseteq Bufs
    BY <1>1 DEF TableInv, Shutdown
  <2> QED BY <2>1, FreshTableNext DEF Shutdown
<1>5. /\ master_idx' = 0 /\ num_added_since_kick' = 0 /\ last_used' = 0 /\ NO_INTERRUPT' = FALSE
      /\ avail_ring' = Zeros /\ avail_idx' = 0 /\ avail_flags' = FALSE /\ used_event' = 0
      /\ used_ring' = Zeros /\ used_idx' = 0 /\ used_flags' = FALSE /\ avail_event' = 0
      /\ bufs' = 0 /\ awake' = FALSE /\ taken' = 0 /\ dev' = "asleep" /\ old' = 0
      /\ pc' = "idle" /\ held' = {} /\ signal' = FALSE /\ irq' = FALSE
      /\ UNCHANGED << event, indirect, misjudged >>
  BY <1>1 DEF Shutdown, ResetInv
<1>6. TypeInv'
  BY <1>1, <1>2, <1>5 DEF TypeInv
<1>7. Top' = 0 /\ Offered' = {} /\ Used' = {}
  BY <1>3, <1>5 DEF Top, Offered, Used, Between, Minus
<1>8. OwnInv'
  BY <1>4, <1>5, <1>7 DEF OwnInv
<1>9. RoomInv'
  BY <1>2, <1>3, <1>5, <1>7 DEF RoomInv, Minus
<1>10. KickInv'
  BY <1>3, <1>5, <1>7 DEF KickInv, Minus
<1>11. FlagInv'
  BY <1>3, <1>5 DEF FlagInv, Plus
<1>12. SignalInv' /\ ResetInv'
  BY <1>3, <1>5 DEF SignalInv, ResetInv, Minus
<1> QED BY <1>4, <1>6, <1>8, <1>9, <1>10, <1>11, <1>12 DEF RingInv, RunInv

LEMMA StutterStep ==
  ASSUME RingSizes, RingInv, UNCHANGED vars
  PROVE  RingInv'
<1>1. TypeInv /\ TableInv /\ FlagInv /\ ResetInv /\ RunInv
  BY DEF RingInv
<1>2. UNCHANGED << next, NEXT, num_unused, first_unused, opaque, master_idx, num_added_since_kick,
                   last_used, NO_INTERRUPT, avail_ring, avail_idx, avail_flags, used_event,
                   used_ring, used_idx, used_flags, avail_event, mine, pc, bufs, awake, misjudged,
                   held, taken, dev, signal, old, irq, event, indirect >>
  BY DEF vars, ringVars, countVars, driverMem, deviceMem, callVars, devVars
<1>3. TableInv'
  BY <1>1, <1>2, TableKept
<1>4. TypeInv' /\ FlagInv' /\ ResetInv'
  BY <1>1, <1>2 DEF TypeInv, FlagInv, ResetInv, Plus
<1>5. ASSUME dev # "reset" PROVE OwnInv' /\ RoomInv' /\ KickInv' /\ SignalInv'
  <2>1. OwnInv' /\ RoomInv' /\ Top' = Top
    BY <1>2, <1>5, SideStep
  <2>2. KickInv'
    BY <1>1, <1>2, <1>5, <2>1 DEF RunInv, KickInv, Minus
  <2>3. SignalInv'
    BY <1>1, <1>2, <1>5 DEF RunInv, SignalInv, Minus
  <2> QED BY <2>1, <2>2, <2>3
<1>6. RunInv'
  BY <1>2, <1>5 DEF RunInv
<1> QED BY <1>3, <1>4, <1>6 DEF RingInv

LEMMA NextRingInv == RingSizes /\ RingInv /\ [Next]_vars => RingInv'
<1> SUFFICES ASSUME RingSizes, RingInv, [Next]_vars PROVE RingInv'
  OBVIOUS
<1>1. CASE UNCHANGED vars
  BY <1>1, StutterStep
<1>2. CASE Next
  <2>1. UNCHANGED << event, indirect >>
    BY <1>2 DEF Next
  <2>2. CASE DriverStep
    <3>1. CASE Publish
      BY <2>1, <3>1, PublishStep
    <3>2. CASE \E always \in BOOLEAN : Kick(always)
      BY <2>1, <3>2, KickStep
    <3>3. CASE GetBuf
      BY <2>1, <3>3, GetBufStep
    <3>4. CASE Interrupt
      BY <2>1, <3>4, InterruptStep
    <3>5. CASE Poll
      BY <2>1, <3>5, PollStep
    <3>6. CASE EnableCb
      <4>1. 0 \in Nat /\ 0 < IdxMod
        BY Sizes
      <4> QED BY <2>1, <3>6, <4>1, EnableStep DEF EnableCb
    <3>7. CASE EnableCbDelayed
      <4>1. PICK m \in Nat : m = Minus(master_idx, last_used) /\ m < IdxMod
        <5>1. master_idx \in Idx /\ last_used \in Idx
          BY DEF RingInv, TypeInv
        <5> QED BY <5>1, FarApart
      <4>2. (m * 3) \div 4 \in Nat /\ (m * 3) \div 4 < IdxMod
        BY <4>1, Sizes
      <4>3. Enable("check_delayed", (m * 3) \div 4)
        BY <3>7, <4>1 DEF EnableCbDelayed
      <4> QED BY <2>1, <4>2, <4>3, EnableStep
    <3>8. CASE Check
      BY <2>1, <3>8, CheckStep
    <3> QED BY <2>2, <3>1, <3>2, <3>3, <3>4, <3>5, <3>6, <3>7, <3>8 DEF DriverStep
  <2>3. CASE DeviceStep
    <3>1. CASE DevTake
      BY <2>1, <3>1, DevTakeStep
    <3>2. CASE DevIdle
      BY <2>1, <3>2, DevIdleStep
    <3>3. CASE DevRecheck
      BY <2>1, <3>3, DevRecheckStep
    <3>4. CASE \E h \in held : DevUse(h)
      BY <2>1, <3>4, DevUseStep
    <3>5. CASE DevSignal
      BY <2>1, <3>5, DevSignalStep
    <3> QED BY <2>3, <3>1, <3>2, <3>3, <3>4, <3>5 DEF DeviceStep
  <2>4. CASE \E b \in Bufs : AddBuf(b)
    BY <2>1, <2>4, AddStep
  <2>5. CASE Reset
    BY <2>1, <2>5, ResetStep
  <2>6. CASE DetachUnusedBuf
    BY <2>1, <2>6, DetachStep
  <2>7. CASE Shutdown
    BY <2>1, <2>7, ShutdownStep
  <2> QED BY <1>2, <2>2, <2>3, <2>4, <2>5, <2>6, <2>7 DEF Next
<1> QED BY <1>1, <1>2

LEMMA RingInvSound == RingSizes /\ RingInv => RingSound
<1> SUFFICES ASSUME RingSizes, RingInv PROVE RingSound
  OBVIOUS
<1>1. TypeInv /\ TableInv
  BY DEF RingInv
<1>2. FreeListSound
  BY <1>1, TableSound
<1>3. KickNotLost
  <2> SUFFICES ASSUME dev = "asleep", taken # avail_idx PROVE num_added_since_kick > 0
    BY DEF KickNotLost
  <2>1. /\ master_idx \in Idx /\ taken \in Idx /\ taken # master_idx /\ num_added_since_kick \in Nat
        /\ KickInv /\ RoomInv
    BY DEF RingInv, RunInv, TypeInv
  <2>2. PICK m \in Nat : m = Minus(master_idx, taken) /\ m # 0 /\ m < IdxMod
    BY <2>1, FarApart
  <2>3. CASE pc # "publish"
    <3>1. m <= num_added_since_kick + 0
      BY <2>1, <2>2, <2>3 DEF KickInv, Top
    <3> QED BY <2>1, <2>2, <3>1
  <2>4. CASE pc = "publish"
    <3>1. Top = Plus(master_idx, 1) /\ 1 \in Nat /\ 1 < IdxMod /\ IdxMod \in Nat
      BY <2>4, Sizes DEF Top
    <3>2. PICK n \in Nat : n = Minus(Top, taken) /\ n # 0 /\ n <= num_added_since_kick + 1
      <4>1. Top \in Idx /\ taken # Top
        BY <2>1, <2>4, <3>1, PlusIs DEF RoomInv
      <4>2. PICK n \in Nat : n = Minus(Top, taken) /\ n # 0
        BY <2>1, <4>1, FarApart
      <4> QED BY <2>1, <2>4, <4>2 DEF KickInv
    <3>3. m + 1 < IdxMod => n = m + 1
      BY <2>1, <2>2, <3>1, <3>2, Further
    <3>4. m + 1 = IdxMod => FALSE
      <4> SUFFICES ASSUME m + 1 = IdxMod PROVE FALSE
        OBVIOUS
      <4>1. /\ master_idx \in Nat /\ master_idx < IdxMod /\ taken \in Nat /\ taken < IdxMod
        BY <2>1, Sizes
      <4>2. /\ master_idx >= taken => m = master_idx - taken
            /\ master_idx < taken => m = master_idx - taken + IdxMod
        BY <2>1, <2>2, FarApart
      <4>3. /\ master_idx + 1 < IdxMod => Top = master_idx + 1
            /\ ~(master_idx + 1 < IdxMod) => Top = master_idx + 1 - IdxMod
        BY <2>1, <3>1, PlusIs
      <4>4. Top = taken
        BY <2>2, <3>1, <4>1, <4>2, <4>3
      <4> QED BY <2>1, <2>4, <4>4 DEF RoomInv
    <3> QED BY <2>1, <2>2, <3>1, <3>2, <3>3, <3>4
  <2> QED BY <2>3, <2>4
<1>4. InterruptNotLost
  <2> SUFFICES ASSUME ~awake, NoCall, ~signal, ~misjudged, Minus(used_idx, last_used) > bufs
               PROVE  irq
    BY DEF InterruptNotLost
  <2>1. SignalInv /\ used_idx \in Idx /\ last_used \in Idx /\ bufs \in Nat
    BY DEF RingInv, RunInv, TypeInv, NoCall
  <2>2. PICK u \in Nat : u = Minus(used_idx, last_used) /\ u > bufs
    BY <2>1, FarApart
  <2>3. Minus(used_idx, old) = 0
    <3>1. old = used_idx
      BY <2>1 DEF SignalInv
    <3> QED BY <2>1, <3>1, FarApart
  <2>4. irq \/ u - 0 <= bufs
    BY <2>1, <2>2, <2>3 DEF SignalInv
  <2> QED BY <2>1, <2>2, <2>4
<1> QED BY <1>2, <1>3, <1>4 DEF RingSound

(* The ring is sound in every state, whatever its size.                    *)
THEOREM RingAlwaysSound == ASSUME RingSizes PROVE Spec => []RingSound
<1>1. Init => RingInv
  BY InitRingInv
<1>2. RingInv /\ [Next]_vars => RingInv'
  BY NextRingInv
<1>3. RingInv => RingSound
  BY RingInvSound
<1> QED BY <1>1, <1>2, <1>3, PTL DEF Spec
-----------------------------------------------------------------------------
(* The buffers the queue has, each in one chain, and none of them also     *)
(* with the driver; what the device has used of them, in its order.        *)
BufOrNone == Bufs \cup {NoBuf}
Inside == {opaque[h] : h \in Heads}
BufInv ==
  /\ \A g, h \in Heads : opaque[g] = opaque[h] => g = h
  /\ \A h \in Heads : opaque[h] \notin mine
View(o, r, lo, hi) == [i \in 1 .. Minus(hi, lo) |-> o[r[DESC_INDEX(Plus(lo, i - 1))]]]

(* With the queue are the buffers that have a chain.                       *)
LEMMA InsideIs ==
  ASSUME TableInv
  PROVE  /\ Range(opaque) \ {NoBuf} = Inside /\ Inside \subseteq Bufs
         /\ opaque \in [Descs -> BufOrNone]
<1>1. opaque \in [Descs -> BufOrNone]
  BY DEF TableInv, BufOrNone
<1>2. Range(opaque) = {opaque[d] : d \in Descs}
  BY <1>1 DEF Range
<1> QED BY <1>1, <1>2 DEF Inside, Heads, BufOrNone

LEMMA InsideIsNext ==
  ASSUME TableInv'
  PROVE  Range(opaque') \ {NoBuf} = Inside'
<1>1. opaque' \in [Descs -> BufOrNone]
  BY DEF TableInv, BufOrNone
<1>2. Range(opaque') = {opaque'[d] : d \in Descs}
  BY <1>1 DEF Range
<1> QED BY <1>1, <1>2 DEF Inside, Heads

(* The indices of a window, one after the other.                           *)
LEMMA Window ==
  ASSUME RingSizes, NEW lo \in Idx, NEW hi \in Idx
  PROVE  /\ Minus(hi, lo) \in Nat /\ Minus(hi, lo) < IdxMod
         /\ \A i \in 1 .. Minus(hi, lo) : Plus(lo, i - 1) \in Between(lo, hi)
         /\ \A j \in Between(lo, hi) : \E i \in 1 .. Minus(hi, lo) : j = Plus(lo, i - 1)
<1>1. PICK n \in Nat : n = Minus(hi, lo) /\ n < IdxMod
  BY FarApart
<1>2. Minus(lo, lo) = 0 /\ IdxMod \in Nat
  BY FarApart, Sizes
<1>3. ASSUME NEW i \in 1 .. n
      PROVE  Plus(lo, i - 1) \in Idx /\ Minus(Plus(lo, i - 1), lo) = i - 1 /\ i - 1 < n
  <2>1. PICK k \in Nat : k = i - 1 /\ k < n /\ k < IdxMod /\ 0 + k = k
    BY <1>1, <1>2
  <2>2. Plus(lo, k) \in Idx /\ Minus(Plus(lo, k), lo) = 0 + k
    BY <1>2, <2>1, Further
  <2> QED BY <2>1, <2>2
<1>4. ASSUME NEW i \in 1 .. n PROVE Plus(lo, i - 1) \in Between(lo, hi)
  BY <1>1, <1>3 DEF Between
<1>5. ASSUME NEW j \in Between(lo, hi) PROVE \E i \in 1 .. n : j = Plus(lo, i - 1)
  <2>1. j \in Idx /\ Minus(j, lo) < n
    BY <1>1 DEF Between
  <2>2. PICK k \in Nat : k = Minus(j, lo)
    BY <2>1, FarApart
  <2>3. PICK i \in 1 .. n : i = k + 1 /\ i - 1 = k
    BY <2>1, <2>2
  <2>4. Plus(lo, i - 1) \in Idx /\ Minus(Plus(lo, i - 1), lo) = Minus(j, lo)
    BY <1>3, <2>2, <2>3
  <2> QED BY <2>1, <2>4, Same
<1> QED BY <1>1, <1>4, <1>5

LEMMA ViewIs ==
  ASSUME RingSizes, NEW o \in [Descs -> BufOrNone], NEW r \in [Descs -> Descs],
         NEW lo \in Idx, NEW hi \in Idx
  PROVE  /\ View(o, r, lo, hi) \in Seq(BufOrNone) /\ Len(View(o, r, lo, hi)) = Minus(hi, lo)
         /\ Minus(hi, lo) \in Nat
         /\ \A i \in 1 .. Minus(hi, lo) : View(o, r, lo, hi)[i] = o[r[DESC_INDEX(Plus(lo, i - 1))]]
         /\ \A x : x \in ToSet(View(o, r, lo, hi)) <=>
                   \E j \in Between(lo, hi) : x = o[r[DESC_INDEX(j)]]
<1> DEFINE v == View(o, r, lo, hi)
<1>1. PICK n \in Nat : n = Minus(hi, lo)
  BY FarApart
<1>2. /\ \A i \in 1 .. n : Plus(lo, i - 1) \in Between(lo, hi)
      /\ \A j \in Between(lo, hi) : \E i \in 1 .. n : j = Plus(lo, i - 1)
  BY <1>1, Window
<1>3. \A j \in Between(lo, hi) : o[r[DESC_INDEX(j)]] \in BufOrNone
  BY SlotInRing DEF Between
<1>4. v = [i \in 1 .. n |-> o[r[DESC_INDEX(Plus(lo, i - 1))]]]
  BY <1>1 DEF View
<1>5. \A i \in 1 .. n : v[i] = o[r[DESC_INDEX(Plus(lo, i - 1))]]
  BY <1>4, Zenon
<1>6. v \in [1 .. n -> BufOrNone]
  BY <1>2, <1>3, <1>4
<1>7. v \in Seq(BufOrNone) /\ Len(v) = n
  BY <1>6
<1>8. ToSet(v) = {v[i] : i \in 1 .. n}
  BY <1>7 DEF ToSet
<1> HIDE DEF v
<1>9. \A x : x \in ToSet(v) <=> \E j \in Between(lo, hi) : x = o[r[DESC_INDEX(j)]]
  <2>1. ASSUME NEW i \in 1 .. n PROVE \E j \in Between(lo, hi) : v[i] = o[r[DESC_INDEX(j)]]
    BY <1>2, <1>5
  <2>2. ASSUME NEW j \in Between(lo, hi) PROVE \E i \in 1 .. n : v[i] = o[r[DESC_INDEX(j)]]
    BY <1>2, <1>5
  <2> QED BY <1>8, <2>1, <2>2
<1> QED BY <1>1, <1>5, <1>7, <1>9 DEF v

(* Sequences that are equal, element by element.                           *)
LEMMA EqualSeqs ==
  ASSUME NEW S, NEW s \in Seq(S), NEW t \in Seq(S), Len(s) = Len(t),
         \A i \in 1 .. Len(s) : s[i] = t[i]
  PROVE  s = t
<1>1. s = [i \in 1 .. Len(s) |-> s[i]] /\ t = [i \in 1 .. Len(t) |-> t[i]]
  OBVIOUS
<1> QED BY <1>1, Zenon

LEMMA TailIs ==
  ASSUME NEW S, NEW s \in Seq(S), NEW t \in Seq(S), Len(s) > 0, Len(t) = Len(s) - 1,
         \A i \in 1 .. Len(t) : t[i] = s[i + 1]
  PROVE  t = Tail(s) /\ Head(s) = s[1] /\ s # << >>
<1>1. Tail(s) \in Seq(S) /\ Len(Tail(s)) = Len(s) - 1 /\ \A i \in 1 .. Len(s) - 1 : Tail(s)[i] = s[i + 1]
      /\ s # << >> /\ Head(s) = s[1]
  OBVIOUS
<1>2. t = Tail(s)
  BY <1>1, EqualSeqs
<1> QED BY <1>1, <1>2

LEMMA AppendIs ==
  ASSUME NEW S, NEW s \in Seq(S), NEW t \in Seq(S), NEW x \in S, Len(t) = Len(s) + 1,
         \A i \in 1 .. Len(s) : t[i] = s[i], t[Len(s) + 1] = x
  PROVE  t = Append(s, x)
<1>1. /\ Append(s, x) \in Seq(S) /\ Len(Append(s, x)) = Len(s) + 1
      /\ \A i \in 1 .. Len(s) : Append(s, x)[i] = s[i]
      /\ Append(s, x)[Len(s) + 1] = x
  OBVIOUS
<1>2. \A i \in 1 .. Len(t) : t[i] = Append(s, x)[i]
  <2> TAKE i \in 1 .. Len(t)
  <2>1. i \in 1 .. Len(s) \/ i = Len(s) + 1
    OBVIOUS
  <2> QED BY <1>1, <2>1
<1> QED BY <1>1, <1>2, EqualSeqs

LEMMA EmptyIs == ASSUME NEW S, NEW s \in Seq(S), Len(s) = 0 PROVE s = << >> /\ ToSet(s) = {}
BY DEF ToSet

(* What the device has used, in a state of a queue that runs.              *)
LEMMA UsedIs ==
  ASSUME RingSizes, TypeInv, TableInv, OwnInv, dev # "reset"
  PROVE  /\ UsedBufs = View(opaque, used_ring, last_used, used_idx)
         /\ UsedBufs \in Seq(BufOrNone) /\ Len(UsedBufs) = Minus(used_idx, last_used)
         /\ \A i \in 1 .. Minus(used_idx, last_used) :
              UsedBufs[i] = opaque[used_ring[DESC_INDEX(Plus(last_used, i - 1))]]
         /\ \A x : x \in ToSet(UsedBufs) <=>
                   \E j \in Used : x = opaque[used_ring[DESC_INDEX(j)]]
         /\ ToSet(UsedBufs) \subseteq Inside
<1>1. /\ opaque \in [Descs -> BufOrNone] /\ used_ring \in [Descs -> Descs]
      /\ last_used \in Idx /\ used_idx \in Idx
  BY DEF TypeInv, TableInv, BufOrNone
<1>2. UsedBufs = View(opaque, used_ring, last_used, used_idx)
  BY DEF UsedBufs, View
<1>3. /\ UsedBufs \in Seq(BufOrNone) /\ Len(UsedBufs) = Minus(used_idx, last_used)
      /\ \A i \in 1 .. Minus(used_idx, last_used) :
           UsedBufs[i] = opaque[used_ring[DESC_INDEX(Plus(last_used, i - 1))]]
      /\ \A x : x \in ToSet(UsedBufs) <=>
           \E j \in Between(last_used, used_idx) : x = opaque[used_ring[DESC_INDEX(j)]]
  <2> DEFINE v == View(opaque, used_ring, last_used, used_idx)
  <2>2. /\ v \in Seq(BufOrNone) /\ Len(v) = Minus(used_idx, last_used)
        /\ \A i \in 1 .. Minus(used_idx, last_used) :
             v[i] = opaque[used_ring[DESC_INDEX(Plus(last_used, i - 1))]]
        /\ \A x : x \in ToSet(v) <=>
                  \E j \in Between(last_used, used_idx) : x = opaque[used_ring[DESC_INDEX(j)]]
    BY <1>1, ViewIs
  <2> HIDE DEF v
  <2>3. UsedBufs = v
    BY <1>2 DEF v
  <2> QED BY <2>2, <2>3
<1>4. ToSet(UsedBufs) \subseteq Inside
  BY <1>3 DEF OwnInv, UsedEntry, Used, Inside
<1> QED BY <1>2, <1>3, <1>4 DEF Used

LEMMA UsedIsNext ==
  ASSUME RingSizes, TypeInv', TableInv', dev' # "reset"
  PROVE  /\ UsedBufs' = View(opaque', used_ring', last_used', used_idx')
         /\ UsedBufs' \in Seq(BufOrNone) /\ Len(UsedBufs') = Minus(used_idx', last_used')
         /\ \A i \in 1 .. Minus(used_idx', last_used') :
              UsedBufs'[i] = opaque'[used_ring'[DESC_INDEX(Plus(last_used', i - 1))]]
         /\ \A x : x \in ToSet(UsedBufs') <=>
           \E j \in Between(last_used', used_idx') : x = opaque'[used_ring'[DESC_INDEX(j)]]
<1>1. /\ opaque' \in [Descs -> BufOrNone] /\ used_ring' \in [Descs -> Descs]
      /\ last_used' \in Idx /\ used_idx' \in Idx
  BY DEF TypeInv, TableInv, BufOrNone
<1>2. UsedBufs' = View(opaque', used_ring', last_used', used_idx')
  BY DEF UsedBufs, View, Minus, Plus, DESC_INDEX
<1>3. /\ UsedBufs' \in Seq(BufOrNone) /\ Len(UsedBufs') = Minus(used_idx', last_used')
      /\ \A i \in 1 .. Minus(used_idx', last_used') :
           UsedBufs'[i] = opaque'[used_ring'[DESC_INDEX(Plus(last_used', i - 1))]]
      /\ \A x : x \in ToSet(UsedBufs') <=>
           \E j \in Between(last_used', used_idx') : x = opaque'[used_ring'[DESC_INDEX(j)]]
  <2> DEFINE v == View(opaque', used_ring', last_used', used_idx')
  <2>2. /\ v \in Seq(BufOrNone) /\ Len(v) = Minus(used_idx', last_used')
        /\ \A i \in 1 .. Minus(used_idx', last_used') :
             v[i] = opaque'[used_ring'[DESC_INDEX(Plus(last_used', i - 1))]]
        /\ \A x : x \in ToSet(v) <=>
                  \E j \in Between(last_used', used_idx') : x = opaque'[used_ring'[DESC_INDEX(j)]]
    BY <1>1, ViewIs
  <2> HIDE DEF v
  <2>3. UsedBufs' = v
    BY <1>2 DEF v
  <2> QED BY <2>2, <2>3
<1> QED BY <1>2, <1>3

(* A chain that is put back takes its buffer to the driver.                *)
LEMMA PutBuf ==
  ASSUME RingSizes, TableInv, BufInv, NEW h \in Heads, PutChain(h)
  PROVE  /\ BufInv' /\ Inside' = Inside \ {opaque[h]} /\ opaque[h] \in Inside
         /\ opaque[h] \in Bufs /\ opaque[h] \notin mine /\ mine' = mine \cup {opaque[h]}
         /\ opaque' = [opaque EXCEPT ![h] = NoBuf] /\ Heads' = Heads \ {h}
         /\ \A g \in Heads : g # h => opaque'[g] = opaque[g]
<1>1. Heads' = Heads \ {h}
  BY PutKeepsTable
<1>2. opaque' = [opaque EXCEPT ![h] = NoBuf] /\ mine' = mine \cup {opaque[h]}
  BY DEF PutChain
<1>3. opaque \in [Descs -> BufOrNone] /\ Heads \subseteq Descs /\ opaque[h] \in Bufs
  BY DEF TableInv, Heads, BufOrNone
<1>4. \A g \in Heads : g # h => opaque'[g] = opaque[g] /\ opaque[g] # opaque[h]
  BY <1>2, <1>3 DEF BufInv
<1>5. BufInv'
  BY <1>1, <1>2, <1>4 DEF BufInv
<1>6. Inside' = Inside \ {opaque[h]} /\ opaque[h] \in Inside
  BY <1>1, <1>4 DEF Inside
<1> QED BY <1>1, <1>2, <1>3, <1>4, <1>5, <1>6 DEF BufInv

(* The entry that add_buf wrote is the last of those offered.              *)
LEMMA LastOffered ==
  ASSUME RingSizes, TypeInv, RoomInv, pc = "publish"
  PROVE  master_idx \in Offered
<1>1. master_idx \in Idx /\ taken \in Idx /\ taken # Top /\ 1 \in Nat /\ 1 < IdxMod
      /\ Top = Plus(master_idx, 1) /\ IdxMod \in Nat
  BY Sizes DEF TypeInv, RoomInv, Top
<1>2. PICK m \in Nat : m = Minus(master_idx, taken) /\ m < IdxMod
  BY <1>1, FarApart
<1>3. m + 1 # IdxMod
  <2> SUFFICES ASSUME m + 1 = IdxMod PROVE FALSE
    OBVIOUS
  <2>1. master_idx \in Nat /\ master_idx < IdxMod /\ taken \in Nat /\ taken < IdxMod
    BY <1>1, Sizes
  <2>2. /\ master_idx >= taken => m = master_idx - taken
        /\ master_idx < taken => m = master_idx - taken + IdxMod
    BY <1>1, <1>2, FarApart
  <2>3. /\ master_idx + 1 < IdxMod => Top = master_idx + 1
        /\ ~(master_idx + 1 < IdxMod) => Top = master_idx + 1 - IdxMod
    BY <1>1, PlusIs
  <2>4. Top = taken
    BY <1>1, <2>1, <2>2, <2>3
  <2> QED BY <1>1, <2>4
<1>4. Minus(master_idx, taken) + 1 < IdxMod
  BY <1>1, <1>2, <1>3
<1>5. Between(taken, Plus(master_idx, 1)) = Between(taken, master_idx) \cup {master_idx}
  BY <1>1, <1>4, Grow
<1> QED BY <1>1, <1>5 DEF Offered
-----------------------------------------------------------------------------
(* Step by step: first those that the driver does not see.                 *)
LEMMA Unseen ==
  ASSUME UNCHANGED << opaque, mine, used_ring, used_idx, last_used, avail_ring, master_idx >>,
         pc' = "publish" <=> pc = "publish", dev' = "reset" <=> dev = "reset"
  PROVE  UNCHANGED Queue!vars
<1>1. UsedBufs' = UsedBufs
  BY DEF UsedBufs, Minus, Plus, DESC_INDEX
<1>2. Unpublished' = Unpublished
  BY DEF Unpublished, DESC_INDEX
<1> QED BY <1>1, <1>2 DEF Queue!vars

LEMMA ServedInit == RingSizes /\ Init => BufInv /\ Queue!Init
<1> SUFFICES ASSUME RingSizes, Init PROVE BufInv /\ Queue!Init
  OBVIOUS
<1>1. RingInv
  BY InitRingInv
<1>2. /\ opaque = [d \in Descs |-> NoBuf] /\ mine = Bufs /\ pc = "idle" /\ dev = "asleep"
      /\ used_idx = 0 /\ last_used = 0 /\ 0 \in Idx
  BY Sizes DEF Init
<1>3. Heads = {} /\ Inside = {}
  BY <1>2 DEF Heads, Inside
<1>4. UsedBufs = << >> /\ ToSet(UsedBufs) = {}
  <2>1. TypeInv /\ TableInv /\ OwnInv /\ dev # "reset"
    BY <1>1, <1>2 DEF RingInv, RunInv
  <2>2. UsedBufs \in Seq(BufOrNone) /\ Len(UsedBufs) = Minus(used_idx, last_used)
    BY <2>1, UsedIs
  <2>3. Minus(used_idx, last_used) = 0
    BY <1>2, FarApart
  <2> QED BY <2>2, <2>3, EmptyIs
<1>5. Unpublished = {}
  BY <1>2 DEF Unpublished
<1>6. Range(opaque) \ {NoBuf} = {}
  BY <1>1, <1>3, InsideIs DEF RingInv
<1> QED BY <1>2, <1>3, <1>4, <1>5, <1>6 DEF BufInv, Queue!Init

(* What the theorem's steps begin with.                                    *)
ServedInv == RingInv /\ BufInv

LEMMA AddServed ==
  ASSUME RingSizes, ServedInv, RingInv', NEW b \in Bufs, AddBuf(b), UNCHANGED << event, indirect >>
  PROVE  BufInv' /\ UNCHANGED Queue!vars
<1>1. /\ TypeInv /\ TableInv /\ OwnInv /\ BufInv /\ TypeInv' /\ TableInv'
      /\ dev # "reset" /\ pc = "idle" /\ b \in mine
  BY DEF ServedInv, RingInv, RunInv, AddBuf, NoCall
<1>2. PICK h \in Descs \ Heads :
        /\ Heads' = Heads \cup {h}
        /\ avail_ring' = [avail_ring EXCEPT ![DESC_INDEX(master_idx)] = h]
  BY <1>1, AddKeepsTable
<1>3. /\ pc' = "publish" /\ mine' = mine \ {b}
      /\ UNCHANGED << master_idx, last_used, used_ring, used_idx, dev >>
  BY DEF AddBuf, countVars, deviceMem, devVars
<1>4. avail_ring \in [Descs -> Descs] /\ DESC_INDEX(master_idx) \in Descs
      /\ opaque \in [Descs -> BufOrNone] /\ mine \subseteq Bufs /\ b # NoBuf
  BY <1>1, SlotInRing, InsideIs DEF TypeInv, TableInv, RingSizes
<1>5. opaque' = [opaque EXCEPT ![h] = b] /\ avail_ring'[DESC_INDEX(master_idx)] = h
  <2>1. PICK x : /\ opaque' = [opaque EXCEPT ![x] = b]
                 /\ avail_ring' = [avail_ring EXCEPT ![DESC_INDEX(master_idx)] = x]
    BY Zenon DEF AddBuf
  <2>2. avail_ring'[DESC_INDEX(master_idx)] = h /\ avail_ring'[DESC_INDEX(master_idx)] = x
    BY <1>2, <1>4, <2>1
  <2> QED BY <2>1, <2>2
<1>6. h \notin Heads /\ opaque'[h] = b /\ \A g \in Heads : opaque'[g] = opaque[g] /\ opaque[g] # b
  BY <1>1, <1>2, <1>4, <1>5 DEF BufInv, Heads
<1>7. BufInv'
  <2>1. \A g \in Heads' : g \in Heads \/ g = h
    BY <1>2
  <2>2. \A f, g \in Heads' : opaque'[f] = opaque'[g] => f = g
    BY <1>1, <1>6, <2>1 DEF BufInv
  <2>3. \A g \in Heads' : opaque'[g] \notin mine'
    BY <1>1, <1>3, <1>6, <2>1 DEF BufInv
  <2> QED BY <2>2, <2>3 DEF BufInv
<1>8. Inside' = Inside \cup {b} /\ b \notin Inside
  BY <1>2, <1>6 DEF Inside
<1>9. UsedBufs' = UsedBufs
  <2>1. /\ UsedBufs \in Seq(BufOrNone) /\ Len(UsedBufs) = Minus(used_idx, last_used)
        /\ \A i \in 1 .. Minus(used_idx, last_used) :
             UsedBufs[i] = opaque[used_ring[DESC_INDEX(Plus(last_used, i - 1))]]
    BY <1>1, UsedIs
  <2>2. /\ UsedBufs' \in Seq(BufOrNone) /\ Len(UsedBufs') = Minus(used_idx, last_used)
        /\ \A i \in 1 .. Minus(used_idx, last_used) :
             UsedBufs'[i] = opaque'[used_ring[DESC_INDEX(Plus(last_used, i - 1))]]
    BY <1>1, <1>3, UsedIsNext
  <2>3. last_used \in Idx /\ used_idx \in Idx
    BY <1>1 DEF TypeInv
  <2>4. \A i \in 1 .. Minus(used_idx, last_used) : Plus(last_used, i - 1) \in Used
    BY <2>3, Window DEF Used
  <2>5. \A j \in Used : used_ring[DESC_INDEX(j)] \in Heads
    BY <1>1 DEF OwnInv, UsedEntry
  <2>6. \A i \in 1 .. Minus(used_idx, last_used) : UsedBufs'[i] = UsedBufs[i]
    BY <1>6, <2>1, <2>2, <2>4, <2>5
  <2> QED BY <2>1, <2>2, <2>6, EqualSeqs
<1>10. Unpublished = {} /\ Unpublished' = {b}
  BY <1>1, <1>3, <1>5, <1>6 DEF Unpublished, DESC_INDEX
<1>11. ToSet(UsedBufs) \subseteq Inside
  BY <1>1, UsedIs
<1>12. Range(opaque) \ {NoBuf} = Inside /\ Range(opaque') \ {NoBuf} = Inside'
  BY <1>1, InsideIs, InsideIsNext
<1>13. mine' \cup Unpublished' = mine \cup Unpublished
  BY <1>1, <1>3, <1>10
<1>14. (Range(opaque) \ {NoBuf}) \ (ToSet(UsedBufs) \cup Unpublished)
         = (Range(opaque') \ {NoBuf}) \ (ToSet(UsedBufs') \cup Unpublished')
  BY <1>8, <1>9, <1>10, <1>12
<1> QED BY <1>3, <1>7, <1>9, <1>13, <1>14 DEF Queue!vars

(* To publish a buffer is to add it.                                       *)
LEMMA PublishServed ==
  ASSUME RingSizes, ServedInv, RingInv', Publish, UNCHANGED << event, indirect >>
  PROVE  BufInv' /\ \E b \in Bufs : Queue!Add(b)
<1>1. /\ TypeInv /\ TableInv /\ OwnInv /\ RoomInv /\ BufInv /\ TableInv'
      /\ dev # "reset" /\ pc = "publish"
  BY DEF ServedInv, RingInv, RunInv, Publish, ResetInv
<1>2. /\ pc' = "idle"
      /\ UNCHANGED << opaque, last_used, avail_ring, used_ring, used_idx, mine, dev >>
  BY DEF Publish, ringVars, deviceMem, devVars
<1>3. BufInv' /\ Inside' = Inside
  BY <1>1, <1>2 DEF BufInv, Inside, Heads
<1>4. PICK h \in Heads : h = avail_ring[DESC_INDEX(master_idx)] /\ \A j \in Used : used_ring[DESC_INDEX(j)] # h
  <2>1. master_idx \in Offered
    BY <1>1, LastOffered
  <2> QED BY <1>1, <2>1 DEF OwnInv, Entry, UsedEntry
<1>5. PICK b : b = opaque[h] /\ b \in Inside /\ b \notin mine /\ b \in Bufs
  BY <1>1, <1>4, InsideIs DEF Inside, BufInv
<1>6. b \notin ToSet(UsedBufs)
  <2>1. \A j \in Used : used_ring[DESC_INDEX(j)] \in Heads /\ opaque[used_ring[DESC_INDEX(j)]] # b
    BY <1>1, <1>4, <1>5 DEF OwnInv, UsedEntry, BufInv
  <2> QED BY <1>1, <2>1, UsedIs
<1>7. Unpublished = {b} /\ Unpublished' = {}
  BY <1>1, <1>2, <1>4, <1>5 DEF Unpublished
<1>8. UsedBufs' = UsedBufs
  BY <1>2 DEF UsedBufs, Minus, Plus, DESC_INDEX
<1>9. Range(opaque) \ {NoBuf} = Inside /\ Range(opaque') \ {NoBuf} = Inside
  BY <1>1, <1>3, InsideIs, InsideIsNext
<1>10. ~(dev = "reset") /\ b \in mine \cup Unpublished /\ (dev' = "reset") = (dev = "reset")
  BY <1>1, <1>2, <1>7
<1>11. mine' \cup Unpublished' = (mine \cup Unpublished) \ {b}
  BY <1>2, <1>5, <1>7
<1>12. (Range(opaque') \ {NoBuf}) \ (ToSet(UsedBufs') \cup Unpublished')
         = ((Range(opaque) \ {NoBuf}) \ (ToSet(UsedBufs) \cup Unpublished)) \cup {b}
  BY <1>5, <1>6, <1>7, <1>8, <1>9
<1>13. Queue!Add(b)
  BY <1>8, <1>10, <1>11, <1>12 DEF Queue!Add
<1> QED BY <1>3, <1>5, <1>13

(* The device uses a buffer.                                               *)
LEMMA DevUseServed ==
  ASSUME RingSizes, ServedInv, RingInv', NEW h \in held, DevUse(h), UNCHANGED << event, indirect >>
  PROVE  BufInv' /\ \E b \in Bufs : Queue!Use(b)
<1>1. /\ TypeInv /\ TableInv /\ OwnInv /\ RoomInv /\ BufInv /\ TypeInv' /\ TableInv'
      /\ dev # "reset"
  BY DEF ServedInv, RingInv, RunInv, ResetInv
<1>2. /\ used_ring' = [used_ring EXCEPT ![DESC_INDEX(used_idx)] = h] /\ used_idx' = Plus(used_idx, 1)
      /\ UNCHANGED << opaque, master_idx, last_used, avail_ring, mine, pc, dev >>
  BY DEF DevUse, ringVars, countVars, driverMem, callVars
<1>3. BufInv' /\ Inside' = Inside
  BY <1>1, <1>2 DEF BufInv, Inside, Heads
<1>4. /\ used_idx \in Idx /\ last_used \in Idx /\ h \in Descs /\ h \in Heads
      /\ used_ring \in [Descs -> Descs] /\ 1 \in Nat /\ 1 < IdxMod /\ Num < IdxMod /\ Num \in Nat
      /\ IdxMod \in Nat
  BY <1>1, Sizes DEF TypeInv, OwnInv, Heads
<1>5. PICK b : b = opaque[h] /\ b \in Inside /\ b \in Bufs /\ b \in BufOrNone
  BY <1>1, <1>4, InsideIs DEF Inside, BufOrNone
<1>6. Minus(used_idx, last_used) < Num
  <2>1. \A i \in Between(last_used, used_idx) : used_ring[DESC_INDEX(i)] \in Descs \ {h}
    BY <1>1 DEF OwnInv, UsedEntry, Used, Heads
  <2>2. \A i, j \in Between(last_used, used_idx) :
          used_ring[DESC_INDEX(i)] = used_ring[DESC_INDEX(j)] => i = j
    BY <1>1 DEF OwnInv, UsedEntry, Used
  <2> QED BY <1>4, <2>1, <2>2, Room
<1>7. PICK n \in Nat : n = Minus(used_idx, last_used) /\ n + 1 < IdxMod
  <2>1. PICK n \in Nat : n = Minus(used_idx, last_used)
    BY <1>4, FarApart
  <2> QED BY <1>4, <1>6, <2>1
<1>8. /\ Between(last_used, Plus(used_idx, 1)) = Used \cup {used_idx}
      /\ Minus(Plus(used_idx, 1), last_used) = n + 1
  BY <1>4, <1>7, Grow DEF Used
<1>9. /\ used_ring'[DESC_INDEX(used_idx)] = h
      /\ \A j \in Used : used_ring'[DESC_INDEX(j)] = used_ring[DESC_INDEX(j)]
  <2> DEFINE q == [used_ring EXCEPT ![DESC_INDEX(used_idx)] = h]
  <2>1. /\ q \in [Descs -> Descs] /\ q[DESC_INDEX(used_idx)] = h
        /\ \A i \in Between(last_used, used_idx) : q[DESC_INDEX(i)] = used_ring[DESC_INDEX(i)]
    BY <1>4, <1>6, WriteSlot
  <2>2. used_ring' = q
    BY <1>2
  <2> HIDE DEF q
  <2> QED BY <2>1, <2>2 DEF Used
<1>10. /\ UsedBufs \in Seq(BufOrNone) /\ Len(UsedBufs) = n
       /\ \A i \in 1 .. n : UsedBufs[i] = opaque[used_ring[DESC_INDEX(Plus(last_used, i - 1))]]
       /\ \A x : x \in ToSet(UsedBufs) <=> \E j \in Used : x = opaque[used_ring[DESC_INDEX(j)]]
  BY <1>1, <1>7, UsedIs
<1>11. /\ UsedBufs' \in Seq(BufOrNone) /\ Len(UsedBufs') = n + 1
       /\ \A i \in 1 .. n + 1 : UsedBufs'[i] = opaque[used_ring'[DESC_INDEX(Plus(last_used, i - 1))]]
       /\ \A x : x \in ToSet(UsedBufs') <=>
                 \E j \in Used \cup {used_idx} : x = opaque[used_ring'[DESC_INDEX(j)]]
  <2>1. dev' # "reset" /\ Minus(used_idx', last_used') = n + 1
        /\ Between(last_used', used_idx') = Used \cup {used_idx}
    BY <1>1, <1>2, <1>8
  <2>2. /\ UsedBufs' \in Seq(BufOrNone) /\ Len(UsedBufs') = Minus(used_idx', last_used')
        /\ \A i \in 1 .. Minus(used_idx', last_used') :
             UsedBufs'[i] = opaque'[used_ring'[DESC_INDEX(Plus(last_used', i - 1))]]
        /\ \A x : x \in ToSet(UsedBufs') <=>
             \E j \in Between(last_used', used_idx') : x = opaque'[used_ring'[DESC_INDEX(j)]]
    BY <1>1, <2>1, UsedIsNext
  <2>3. opaque' = opaque /\ last_used' = last_used
    BY <1>2
  <2> QED BY <2>1, <2>2, <2>3
<1>12. UsedBufs' = Append(UsedBufs, b)
  <2>1. \A i \in 1 .. n : Plus(last_used, i - 1) \in Used
    BY <1>4, <1>7, Window DEF Used
  <2>2. \A i \in 1 .. n : UsedBufs'[i] = UsedBufs[i]
    BY <1>7, <1>9, <1>10, <1>11, <2>1
  <2>3. UsedBufs'[n + 1] = b
    <3>1. Plus(last_used, n) = used_idx
      <4>1. Plus(last_used, n) \in Idx /\ Minus(last_used, last_used) = 0
        BY <1>4, <1>7, PlusIs, FarApart
      <4>2. Minus(Plus(last_used, n), last_used) = 0 + n
        BY <1>4, <1>7, <4>1, Further
      <4>3. Minus(Plus(last_used, n), last_used) = Minus(used_idx, last_used)
        BY <1>7, <4>2
      <4> QED BY <1>4, <4>1, <4>3, Same
    <3>2. n + 1 \in 1 .. n + 1 /\ (n + 1) - 1 = n
      BY <1>7
    <3>3. UsedBufs'[n + 1] = opaque[used_ring'[DESC_INDEX(Plus(last_used, (n + 1) - 1))]]
      BY <1>11, <3>2
    <3> QED BY <1>5, <1>9, <3>1, <3>2, <3>3
  <2> QED BY <1>5, <1>10, <1>11, <2>2, <2>3, AppendIs
<1>13. b \notin ToSet(UsedBufs) /\ b \notin Unpublished /\ Unpublished' = Unpublished
  <2>1. \A j \in Used : opaque[used_ring[DESC_INDEX(j)]] # b
    BY <1>1, <1>4, <1>5 DEF OwnInv, UsedEntry, BufInv
  <2>2. pc = "publish" => opaque[avail_ring[DESC_INDEX(master_idx)]] # b
    <3> SUFFICES ASSUME pc = "publish" PROVE opaque[avail_ring[DESC_INDEX(master_idx)]] # b
      OBVIOUS
    <3>1. master_idx \in Offered
      BY <1>1, LastOffered
    <3> QED BY <1>1, <1>4, <1>5, <3>1 DEF OwnInv, Entry, BufInv
  <2> QED BY <1>2, <1>10, <2>1, <2>2 DEF Unpublished, DESC_INDEX
<1>14. ToSet(UsedBufs') = ToSet(UsedBufs) \cup {b}
  BY <1>5, <1>9, <1>10, <1>11
<1>15. Range(opaque) \ {NoBuf} = Inside /\ Range(opaque') \ {NoBuf} = Inside
  BY <1>1, <1>3, InsideIs, InsideIsNext
<1>16. /\ ~(dev = "reset") /\ (dev' = "reset") = (dev = "reset")
       /\ b \in (Range(opaque) \ {NoBuf}) \ (ToSet(UsedBufs) \cup Unpublished)
       /\ mine' \cup Unpublished' = mine \cup Unpublished
  BY <1>1, <1>2, <1>5, <1>13, <1>15
<1>17. (Range(opaque') \ {NoBuf}) \ (ToSet(UsedBufs') \cup Unpublished')
         = ((Range(opaque) \ {NoBuf}) \ (ToSet(UsedBufs) \cup Unpublished)) \ {b}
  BY <1>13, <1>14, <1>15
<1>18. Queue!Use(b)
  BY <1>12, <1>16, <1>17 DEF Queue!Use
<1> QED BY <1>3, <1>5, <1>18

(* get_buf returns what was used first.                                    *)
LEMMA GetBufServed ==
  ASSUME RingSizes, ServedInv, RingInv', GetBuf, UNCHANGED << event, indirect >>
  PROVE  BufInv' /\ Queue!Get
<1>1. /\ TypeInv /\ TableInv /\ OwnInv /\ RoomInv /\ BufInv /\ TypeInv' /\ TableInv'
      /\ dev # "reset" /\ pc = "idle" /\ last_used # used_idx
  BY DEF ServedInv, RingInv, RunInv, GetBuf, NoCall, HasBuf
<1>2. /\ PutChain(used_ring[DESC_INDEX(last_used)]) /\ last_used' = Plus(last_used, 1)
      /\ UNCHANGED << master_idx, avail_ring, used_ring, used_idx, pc, dev >>
  BY DEF GetBuf, deviceMem, devVars
<1>3. last_used \in Idx /\ used_idx \in Idx /\ IdxMod \in Nat
  BY <1>1, Sizes DEF TypeInv
<1>4. /\ last_used \in Used /\ Plus(last_used, 1) \in Idx
      /\ Between(Plus(last_used, 1), used_idx) = Used \ {last_used}
      /\ Minus(used_idx, Plus(last_used, 1)) = Minus(used_idx, last_used) - 1
  BY <1>1, <1>3, Shrink DEF Used
<1>5. PICK n \in Nat : n = Minus(used_idx, last_used) /\ n # 0 /\ n < IdxMod
  BY <1>1, <1>3, FarApart
<1>6. PICK h \in Heads : h = used_ring[DESC_INDEX(last_used)]
  BY <1>1, <1>4 DEF OwnInv, UsedEntry
<1>7. PICK b : b = opaque[h] /\ b \in Inside /\ Inside' = Inside \ {b} /\ mine' = mine \cup {b} /\ BufInv'
               /\ \A g \in Heads : g # h => opaque'[g] = opaque[g]
  BY <1>1, <1>2, <1>6, PutBuf
<1>8. \A j \in Used \ {last_used} : /\ used_ring[DESC_INDEX(j)] \in Heads
                                    /\ opaque'[used_ring[DESC_INDEX(j)]] = opaque[used_ring[DESC_INDEX(j)]]
  BY <1>1, <1>4, <1>6, <1>7 DEF OwnInv, UsedEntry
<1>9. /\ UsedBufs \in Seq(BufOrNone) /\ Len(UsedBufs) = n
      /\ \A i \in 1 .. n : UsedBufs[i] = opaque[used_ring[DESC_INDEX(Plus(last_used, i - 1))]]
      /\ \A x : x \in ToSet(UsedBufs) <=> \E j \in Used : x = opaque[used_ring[DESC_INDEX(j)]]
      /\ ToSet(UsedBufs) \subseteq Inside
  BY <1>1, <1>5, UsedIs
<1>10. /\ UsedBufs' \in Seq(BufOrNone) /\ Len(UsedBufs') = n - 1
       /\ \A i \in 1 .. n - 1 :
            UsedBufs'[i] = opaque'[used_ring[DESC_INDEX(Plus(Plus(last_used, 1), i - 1))]]
       /\ \A x : x \in ToSet(UsedBufs') <=>
                 \E j \in Used \ {last_used} : x = opaque'[used_ring[DESC_INDEX(j)]]
  <2>1. dev' # "reset" /\ Minus(used_idx', last_used') = n - 1
        /\ Between(last_used', used_idx') = Used \ {last_used}
    BY <1>1, <1>2, <1>4, <1>5
  <2>2. /\ UsedBufs' \in Seq(BufOrNone) /\ Len(UsedBufs') = Minus(used_idx', last_used')
        /\ \A i \in 1 .. Minus(used_idx', last_used') :
             UsedBufs'[i] = opaque'[used_ring'[DESC_INDEX(Plus(last_used', i - 1))]]
        /\ \A x : x \in ToSet(UsedBufs') <=>
             \E j \in Between(last_used', used_idx') : x = opaque'[used_ring'[DESC_INDEX(j)]]
    BY <1>1, <2>1, UsedIsNext
  <2>3. used_ring' = used_ring /\ last_used' = Plus(last_used, 1)
    BY <1>2
  <2> QED BY <2>1, <2>2, <2>3
<1>11. ASSUME NEW i \in 1 .. n - 1 PROVE UsedBufs'[i] = UsedBufs[i + 1]
  <2>1. Plus(Plus(last_used, 1), i - 1) \in Between(Plus(last_used, 1), used_idx)
    <3>1. i \in 1 .. Minus(used_idx, Plus(last_used, 1))
      BY <1>4, <1>5
    <3> QED BY <1>3, <1>4, <3>1, Window
  <2>2. Plus(Plus(last_used, 1), i - 1) = Plus(last_used, i)
    <3>1. PICK k \in Nat : k = i - 1 /\ k < IdxMod /\ i \in Nat /\ i < IdxMod /\ 1 + k = i /\ 0 + i = i
                           /\ 0 + 1 = 1 /\ 1 < IdxMod /\ 1 \in Nat
      BY <1>3, <1>5
    <3>2. Minus(last_used, last_used) = 0
      BY <1>3, FarApart
    <3>3. Plus(last_used, i) \in Idx /\ Minus(Plus(last_used, i), last_used) = 0 + i
      BY <1>3, <3>1, <3>2, Further
    <3>4. Minus(Plus(last_used, 1), last_used) = 0 + 1
      BY <1>3, <3>1, <3>2, Further
    <3>5. Minus(Plus(last_used, 1), last_used) + k < IdxMod
      BY <3>1, <3>4
    <3>6. /\ Plus(Plus(last_used, 1), k) \in Idx
          /\ Minus(Plus(Plus(last_used, 1), k), last_used) = Minus(Plus(last_used, 1), last_used) + k
      BY <1>3, <1>4, <3>1, <3>5, Further
    <3>7. Minus(Plus(Plus(last_used, 1), k), last_used) = Minus(Plus(last_used, i), last_used)
      BY <3>1, <3>3, <3>4, <3>6
    <3>8. Plus(Plus(last_used, 1), k) = Plus(last_used, i)
      BY <1>3, <3>3, <3>6, <3>7, Same
    <3> QED BY <3>1, <3>8
  <2>3. Plus(last_used, i) \in Used \ {last_used}
    BY <1>4, <2>1, <2>2
  <2>4. UsedBufs'[i] = opaque[used_ring[DESC_INDEX(Plus(last_used, i))]]
    BY <1>8, <1>10, <2>2, <2>3
  <2>5. i + 1 \in 1 .. n /\ (i + 1) - 1 = i
    BY <1>5
  <2>6. UsedBufs[i + 1] = opaque[used_ring[DESC_INDEX(Plus(last_used, (i + 1) - 1))]]
    BY <1>9, <2>5
  <2> QED BY <2>4, <2>5, <2>6
<1>12. UsedBufs' = Tail(UsedBufs) /\ Head(UsedBufs) = UsedBufs[1] /\ UsedBufs # << >>
  BY <1>5, <1>9, <1>10, <1>11, TailIs
<1>13. Head(UsedBufs) = b
  <2>1. 1 \in 1 .. n /\ 1 - 1 = 0 /\ 0 \in Nat /\ 0 < IdxMod
    BY <1>3, <1>5
  <2>2. Plus(last_used, 0) = last_used
    <3>1. last_used + 0 < IdxMod /\ last_used + 0 = last_used
      BY <1>3, Sizes
    <3> QED BY <1>3, <2>1, <3>1, PlusIs
  <2>3. UsedBufs[1] = opaque[used_ring[DESC_INDEX(Plus(last_used, 1 - 1))]]
    BY <1>9, <2>1
  <2> QED BY <1>6, <1>7, <1>12, <2>1, <2>2, <2>3
<1>14. \A x : x \in ToSet(UsedBufs) <=> x \in ToSet(UsedBufs') \/ x = b
  <2> TAKE x
  <2>1. ASSUME x \in ToSet(UsedBufs), x # b PROVE x \in ToSet(UsedBufs')
    <3>1. PICK j \in Used : x = opaque[used_ring[DESC_INDEX(j)]]
      BY <1>9, <2>1
    <3>2. j \in Used \ {last_used}
      BY <1>6, <1>7, <2>1, <3>1
    <3>3. x = opaque'[used_ring[DESC_INDEX(j)]]
      BY <1>8, <3>1, <3>2
    <3> QED BY <1>10, <3>2, <3>3
  <2>2. ASSUME x \in ToSet(UsedBufs') PROVE x \in ToSet(UsedBufs)
    <3>1. PICK j \in Used \ {last_used} : x = opaque'[used_ring[DESC_INDEX(j)]]
      BY <1>10, <2>2
    <3>2. x = opaque[used_ring[DESC_INDEX(j)]] /\ j \in Used
      BY <1>8, <3>1
    <3> QED BY <1>9, <3>2
  <2>3. b \in ToSet(UsedBufs)
    BY <1>4, <1>6, <1>7, <1>9
  <2> QED BY <2>1, <2>2, <2>3
<1>15. Unpublished = {} /\ Unpublished' = {}
  BY <1>1, <1>2 DEF Unpublished
<1>16. Range(opaque) \ {NoBuf} = Inside /\ Range(opaque') \ {NoBuf} = Inside \ {b}
  BY <1>1, <1>7, InsideIs, InsideIsNext
<1>17. (Range(opaque') \ {NoBuf}) \ (ToSet(UsedBufs') \cup Unpublished')
         = (Range(opaque) \ {NoBuf}) \ (ToSet(UsedBufs) \cup Unpublished)
  BY <1>14, <1>15, <1>16
<1>18. /\ ~(dev = "reset") /\ (dev' = "reset") = (dev = "reset")
       /\ mine' \cup Unpublished' = (mine \cup Unpublished) \cup {Head(UsedBufs)}
  BY <1>1, <1>2, <1>7, <1>13, <1>15
<1>19. Queue!Get
  BY <1>12, <1>17, <1>18 DEF Queue!Get
<1> QED BY <1>7, <1>19

(* Shutting down: what is inside is given up, detached, and none is left.  *)
LEMMA ResetServed ==
  ASSUME RingSizes, ServedInv, RingInv', Reset, UNCHANGED << event, indirect >>
  PROVE  BufInv' /\ Queue!Stop
<1>1. /\ TypeInv /\ TableInv /\ OwnInv /\ BufInv /\ TableInv'
      /\ dev # "reset" /\ pc = "idle"
  BY DEF ServedInv, RingInv, RunInv, Reset, NoCall
<1>2. /\ dev' = "reset"
      /\ UNCHANGED << opaque, mine, pc >>
  BY DEF Reset, ringVars, callVars
<1>3. BufInv' /\ Inside' = Inside
  BY <1>1, <1>2 DEF BufInv, Inside, Heads
<1>4. UsedBufs' = << >> /\ ToSet(UsedBufs') = {}
  <2>1. UsedBufs' = << >>
    BY <1>2 DEF UsedBufs
  <2>2. << >> \in Seq(Bufs) /\ Len(<< >>) = 0
    OBVIOUS
  <2> QED BY <2>1, <2>2, EmptyIs
<1>5. Unpublished = {} /\ Unpublished' = {} /\ ToSet(UsedBufs) \subseteq Inside
  BY <1>1, <1>2, UsedIs DEF Unpublished
<1>6. Range(opaque) \ {NoBuf} = Inside /\ Range(opaque') \ {NoBuf} = Inside
  BY <1>1, <1>3, InsideIs, InsideIsNext
<1>7. (Range(opaque') \ {NoBuf}) \ (ToSet(UsedBufs') \cup Unpublished')
        = ((Range(opaque) \ {NoBuf}) \ (ToSet(UsedBufs) \cup Unpublished)) \cup ToSet(UsedBufs)
  BY <1>4, <1>5, <1>6
<1>8. ~(dev = "reset") /\ (dev' = "reset") = TRUE /\ mine' \cup Unpublished' = mine \cup Unpublished
  BY <1>1, <1>2, <1>5
<1>9. Queue!Stop
  BY <1>4, <1>7, <1>8 DEF Queue!Stop, ToSet, Queue!ToSet
<1> QED BY <1>3, <1>9

LEMMA DetachServed ==
  ASSUME RingSizes, ServedInv, RingInv', DetachUnusedBuf, UNCHANGED << event, indirect >>
  PROVE  BufInv' /\ \E b \in Bufs : Queue!Detach(b)
<1>1. /\ TypeInv /\ TableInv /\ BufInv /\ TableInv' /\ dev = "reset" /\ pc = "idle"
  BY DEF ServedInv, RingInv, ResetInv, DetachUnusedBuf
<1>2. PICK d \in Descs : opaque[d] # NoBuf /\ PutChain(d)
  BY DEF DetachUnusedBuf
<1>3. d \in Heads
  BY <1>2 DEF Heads
<1>4. UNCHANGED << pc, dev >>
  BY DEF DetachUnusedBuf, devVars
<1>5. PICK b \in Bufs : b = opaque[d] /\ b \in Inside /\ Inside' = Inside \ {b} /\ mine' = mine \cup {b}
                        /\ BufInv'
  BY <1>1, <1>2, <1>3, PutBuf
<1>6. UsedBufs = << >> /\ UsedBufs' = << >> /\ ToSet(UsedBufs) = {} /\ ToSet(UsedBufs') = {}
  <2>1. UsedBufs = << >> /\ UsedBufs' = << >>
    BY <1>1, <1>4 DEF UsedBufs
  <2>2. << >> \in Seq(Bufs) /\ Len(<< >>) = 0
    OBVIOUS
  <2> QED BY <2>1, <2>2, EmptyIs
<1>7. Unpublished = {} /\ Unpublished' = {}
  BY <1>1, <1>4 DEF Unpublished
<1>8. Range(opaque) \ {NoBuf} = Inside /\ Range(opaque') \ {NoBuf} = Inside \ {b}
  BY <1>1, <1>5, InsideIs, InsideIsNext
<1>9. /\ b \in (Range(opaque) \ {NoBuf}) \ (ToSet(UsedBufs) \cup Unpublished)
      /\ (Range(opaque') \ {NoBuf}) \ (ToSet(UsedBufs') \cup Unpublished')
           = ((Range(opaque) \ {NoBuf}) \ (ToSet(UsedBufs) \cup Unpublished)) \ {b}
  BY <1>5, <1>6, <1>7, <1>8
<1>10. /\ dev = "reset" /\ (dev' = "reset") = (dev = "reset")
       /\ mine' \cup Unpublished' = (mine \cup Unpublished) \cup {b}
  BY <1>1, <1>4, <1>5, <1>7
<1>11. Queue!Detach(b)
  BY <1>6, <1>9, <1>10 DEF Queue!Detach
<1> QED BY <1>5, <1>11

LEMMA ShutdownServed ==
  ASSUME RingSizes, ServedInv, RingInv', Shutdown, UNCHANGED << event, indirect >>
  PROVE  BufInv' /\ Queue!Renew
<1>1. /\ TypeInv /\ TableInv /\ TypeInv' /\ TableInv' /\ dev = "reset" /\ pc = "idle"
  BY DEF ServedInv, RingInv, ResetInv, Shutdown
<1>2. /\ \A d \in Descs : opaque[d] = NoBuf
      /\ opaque' = [d \in Descs |-> NoBuf] /\ used_idx' = 0 /\ last_used' = 0
      /\ dev' = "asleep" /\ UNCHANGED << mine, pc >>
  BY DEF Shutdown
<1>3. Heads = {} /\ Heads' = {} /\ Inside = {} /\ Inside' = {}
  BY <1>2 DEF Heads, Inside
<1>4. BufInv'
  BY <1>3 DEF BufInv
<1>5. UsedBufs = << >> /\ UsedBufs' = << >> /\ ToSet(UsedBufs) = {} /\ ToSet(UsedBufs') = {}
  <2>1. UsedBufs = << >>
    BY <1>1 DEF UsedBufs
  <2>2. << >> \in Seq(Bufs) /\ Len(<< >>) = 0
    OBVIOUS
  <2>3. UsedBufs' \in Seq(BufOrNone) /\ Len(UsedBufs') = Minus(used_idx', last_used')
    <3>1. dev' # "reset"
      BY <1>2
    <3> QED BY <1>1, <3>1, UsedIsNext
  <2>4. Minus(used_idx', last_used') = 0
    <3>1. 0 \in Idx
      BY Sizes
    <3> QED BY <1>2, <3>1, FarApart
  <2> QED BY <2>1, <2>2, <2>3, <2>4, EmptyIs
<1>6. Unpublished = {} /\ Unpublished' = {}
  BY <1>1, <1>2 DEF Unpublished
<1>7. Range(opaque) \ {NoBuf} = {} /\ Range(opaque') \ {NoBuf} = {}
  BY <1>1, <1>3, InsideIs, InsideIsNext
<1>8. /\ (Range(opaque) \ {NoBuf}) \ (ToSet(UsedBufs) \cup Unpublished) = {}
      /\ (Range(opaque') \ {NoBuf}) \ (ToSet(UsedBufs') \cup Unpublished')
           = (Range(opaque) \ {NoBuf}) \ (ToSet(UsedBufs) \cup Unpublished)
  BY <1>5, <1>6, <1>7
<1>9. /\ dev = "reset" /\ (dev' = "reset") = FALSE
      /\ mine' \cup Unpublished' = mine \cup Unpublished
  BY <1>1, <1>2, <1>6
<1>10. Queue!Renew
  BY <1>5, <1>8, <1>9 DEF Queue!Renew
<1> QED BY <1>4, <1>10

(* Every step, of either side.                                             *)
LEMMA KeepsBufs ==
  ASSUME UNCHANGED << opaque, mine >>, BufInv PROVE BufInv'
BY DEF BufInv, Heads

LEMMA QuietStep ==
  ASSUME RingSizes, ServedInv,
         \/ \E always \in BOOLEAN : Kick(always)
         \/ Interrupt \/ Poll \/ EnableCb \/ EnableCbDelayed \/ Check
         \/ DevTake \/ DevIdle \/ DevRecheck \/ DevSignal \/ UNCHANGED vars
  PROVE  BufInv' /\ UNCHANGED Queue!vars
<1>1. BufInv
  BY DEF ServedInv
<1>2. UNCHANGED << opaque, mine, used_ring, used_idx, last_used, avail_ring, master_idx >>
  BY DEF Kick, Interrupt, Poll, EnableCb, EnableCbDelayed, Enable, Check, DevTake, DevIdle, DevRecheck,
     DevSignal, vars, ringVars, countVars, driverMem, deviceMem, callVars
<1>3. pc' = "publish" <=> pc = "publish"
  <2>1. CASE EnableCb \/ EnableCbDelayed \/ Check
    BY <2>1 DEF EnableCb, EnableCbDelayed, Enable, NoCall, Check
  <2>2. CASE \/ \E always \in BOOLEAN : Kick(always)
             \/ Interrupt \/ Poll \/ DevTake \/ DevIdle \/ DevRecheck \/ DevSignal \/ UNCHANGED vars
    BY <2>2 DEF Kick, Interrupt, Poll, DevTake, DevIdle, DevRecheck, DevSignal, vars, callVars
  <2> QED BY <2>1, <2>2
<1>4. dev' = "reset" <=> dev = "reset"
  <2>1. CASE \E always \in BOOLEAN : Kick(always)
    BY <2>1 DEF Kick, DevWake
  <2>2. CASE DevIdle \/ DevRecheck
    BY <2>2 DEF DevIdle, DevRecheck
  <2>3. CASE \/ Interrupt \/ Poll \/ EnableCb \/ EnableCbDelayed \/ Check \/ DevTake \/ DevSignal
             \/ UNCHANGED vars
    BY <2>3 DEF Interrupt, Poll, EnableCb, EnableCbDelayed, Enable, Check, DevTake, DevSignal, vars, devVars
  <2> QED BY <2>1, <2>2, <2>3
<1> QED BY <1>1, <1>2, <1>3, <1>4, KeepsBufs, Unseen

LEMMA NextServed ==
  RingSizes /\ ServedInv /\ RingInv' /\ [Next]_vars => BufInv' /\ [Queue!Next]_(Queue!vars)
<1> SUFFICES ASSUME RingSizes, ServedInv, RingInv', [Next]_vars
             PROVE  BufInv' /\ [Queue!Next]_(Queue!vars)
  OBVIOUS
<1>1. CASE UNCHANGED vars
  BY <1>1, QuietStep
<1>2. CASE Next
  <2>1. UNCHANGED << event, indirect >>
    BY <1>2 DEF Next
  <2>2. CASE Publish
    BY <2>1, <2>2, PublishServed DEF Queue!Next
  <2>3. CASE GetBuf
    BY <2>1, <2>3, GetBufServed DEF Queue!Next
  <2>4. CASE \E h \in held : DevUse(h)
    BY <2>1, <2>4, DevUseServed DEF Queue!Next
  <2>5. CASE \E b \in Bufs : AddBuf(b)
    BY <2>1, <2>5, AddServed
  <2>6. CASE Reset
    BY <2>1, <2>6, ResetServed DEF Queue!Next
  <2>7. CASE DetachUnusedBuf
    BY <2>1, <2>7, DetachServed DEF Queue!Next
  <2>8. CASE Shutdown
    BY <2>1, <2>8, ShutdownServed DEF Queue!Next
  <2>9. CASE \/ \E always \in BOOLEAN : Kick(always)
             \/ Interrupt \/ Poll \/ EnableCb \/ EnableCbDelayed \/ Check
             \/ DevTake \/ DevIdle \/ DevRecheck \/ DevSignal
    BY <2>9, QuietStep
  <2> QED BY <1>2, <2>2, <2>3, <2>4, <2>5, <2>6, <2>7, <2>8, <2>9 DEF Next, DriverStep, DeviceStep
<1> QED BY <1>1, <1>2

(* The split ring keeps the promise of VirtqueueService, whatever its size *)
(* and its buffers: each buffer that is added is used once, comes back     *)
(* once, in the order of use, and none is lost when the queue is stopped   *)
(* (VirtIORing.c:230-346, 488-503).                                        *)
THEOREM RingIsService == ASSUME RingSizes PROVE Spec => ServiceSpec
<1>1. Init => RingInv /\ BufInv /\ Queue!Init
  BY InitRingInv, ServedInit
<1>2. RingInv /\ [Next]_vars => RingInv'
  BY NextRingInv
<1>3. RingInv /\ BufInv /\ RingInv' /\ [Next]_vars => BufInv' /\ [Queue!Next]_(Queue!vars)
  BY NextServed DEF ServedInv
<1>4. Spec => [](RingInv /\ BufInv)
  BY <1>1, <1>2, <1>3, PTL DEF Spec
<1> QED BY <1>1, <1>2, <1>3, <1>4, PTL DEF Spec, ServiceSpec, Queue!Spec
-----------------------------------------------------------------------------
(* What the timer's register tells is the time since it was read last.     *)
ElapsedInv == Timer!Elapsed = t_now - t_readAt /\ t_now - t_readAt < Period

(* The call knows how long to wait, and the one-shot never expired unseen. *)
Target == t_dwTick * MSec
Due == IF Target > t_askedAt THEN Target ELSE t_askedAt + 1
WaitInv ==
  /\ t_deadline # 0 => t_deadline > t_now
  /\ t_pc = "load" => t_waiting /\ t_now = t_askedAt + t_late /\ t_interval = Due - t_askedAt

ClockInv ==
  /\ Timer!TypeOK /\ Timer!ClockExact /\ ElapsedInv /\ WaitInv
  /\ Timer!NotForgotten /\ Timer!OnTime
-----------------------------------------------------------------------------
(* Whole milliseconds and the rest.                                        *)
LEMMA Division ==
  ASSUME NEW n \in Nat
  PROVE  /\ n \div MSec \in Nat /\ n % MSec \in 0 .. MSec - 1
         /\ n % MSec = n - (n \div MSec) * MSec
BY TimerAssumption

(* Products by MSec.                                                       *)
LEMMA Distribute ==
  ASSUME NEW a \in Int, NEW b \in Int
  PROVE  /\ a * MSec \in Int
         /\ (a + b) * MSec = a * MSec + b * MSec
         /\ (a - b) * MSec = a * MSec - b * MSec
         /\ a < b => a * MSec + MSec <= b * MSec
         /\ a <= b => a * MSec <= b * MSec
<1>1. a * MSec \in Int
  BY TimerAssumption
<1>2. (a + b) * MSec = a * MSec + b * MSec
  BY TimerAssumption
<1>3. (a - b) * MSec = a * MSec - b * MSec
  BY TimerAssumption
<1>4. a < b => a * MSec + MSec <= b * MSec
  BY TimerAssumption
<1>5. a <= b => a * MSec <= b * MSec
  BY TimerAssumption
<1> QED
  BY <1>1, <1>2, <1>3, <1>4, <1>5

(* Bringing the clock up to date makes it exact: it neither loses what is  *)
(* over of a millisecond nor wraps.                                        *)
LEMMA UpdateExact ==
  ASSUME Timer!TypeOK, Timer!ClockExact, ElapsedInv, Timer!update_timer
  PROVE  /\ t_CurMSec' \in t_CurMSec .. TickMod - 1 /\ t_timeUS' \in 0 .. MSec - 1
         /\ t_CurMSec' * MSec + t_timeUS' = t_now
<1> DEFINE us == t_timeUS + Timer!Elapsed
           q == us \div MSec
<1>1. us \in Nat /\ t_CurMSec * MSec + us = t_now
  BY TimerAssumption, Distribute DEF Timer!TypeOK, Timer!ClockExact, ElapsedInv
<1>2. q \in Nat /\ us % MSec \in 0 .. MSec - 1 /\ us % MSec = us - q * MSec
  BY <1>1, Division
<1>3. (t_CurMSec + q) * MSec + (us % MSec) = t_now
  <2>1. (t_CurMSec + q) * MSec = t_CurMSec * MSec + q * MSec
    BY <1>2, Distribute DEF Timer!TypeOK
  <2>2. t_CurMSec * MSec \in Int /\ q * MSec \in Int
    BY <1>2, Distribute DEF Timer!TypeOK
  <2> HIDE DEF us, q
  <2> QED
    BY <1>1, <1>2, <2>1, <2>2 DEF Timer!TypeOK
<1>4. t_CurMSec + q < TickMod
  <2> DEFINE c == t_CurMSec + q
  <2>1. c \in Nat /\ c * MSec \in Int /\ TickMod \in Nat /\ TickMod * MSec \in Int
    BY <1>2, TimerAssumption, Distribute DEF Timer!TypeOK
  <2>2. c * MSec <= t_now
    BY <1>2, <1>3, <2>1 DEF Timer!TypeOK
  <2>3. c * MSec < TickMod * MSec
    BY <2>1, <2>2, TimerAssumption DEF Timer!TypeOK
  <2>4. TickMod <= c => TickMod * MSec <= c * MSec
    BY <2>1, Distribute
  <2> QED
    BY <2>1, <2>3, <2>4
<1>5. t_CurMSec' = t_CurMSec + q /\ t_timeUS' = us % MSec
  <2>1. t_CurMSec' = (t_CurMSec + q) % TickMod /\ t_timeUS' = us % MSec
    BY DEF Timer!update_timer, Timer!Reckon
  <2>2. \A n, m \in Nat : n < m => n % m = n
    OBVIOUS
  <2> QED
    BY <1>2, <1>4, <2>1, <2>2, TimerAssumption DEF Timer!TypeOK
<1>6. t_CurMSec' \in t_CurMSec .. TickMod - 1
  BY <1>2, <1>4, <1>5, TimerAssumption DEF Timer!TypeOK
<1>7. t_CurMSec' * MSec + t_timeUS' = t_now
  BY <1>3, <1>5
<1> QED
  BY <1>2, <1>5, <1>6, <1>7

(* A time of the kernel's not more than Ahead from now, n, is still to     *)
(* come if its millisecond is; what is left until then fits interval.      *)
LEMMA WaitFacts ==
  ASSUME NEW c \in Nat, NEW u \in 0 .. MSec - 1, NEW n \in Nat, c * MSec + u = n,
         NEW t \in Nat, t <= c + Ahead
  PROVE  /\ t > c => /\ t * MSec > n
                     /\ ((t - c) * MSec - u) % UsMod = t * MSec - n
                     /\ t * MSec - n \in 1 .. UsMod - 1
         /\ ~(t > c) => ~(t * MSec > n)
<1> DEFINE d == t - c
<1>1. MSec \in Nat \ {0} /\ Ahead \in Nat /\ UsMod \in Nat /\ Ahead * MSec < UsMod
  BY TimerAssumption
<1>2. t * MSec \in Int /\ c * MSec \in Int /\ Ahead * MSec \in Int /\ d \in Int
  BY <1>1, Distribute
<1>3. ASSUME t > c
      PROVE  /\ t * MSec > n
             /\ (d * MSec - u) % UsMod = t * MSec - n
             /\ t * MSec - n \in 1 .. UsMod - 1
  <2>1. c * MSec + MSec <= t * MSec
    BY <1>3, Distribute
  <2>2. d * MSec = t * MSec - c * MSec /\ d * MSec <= Ahead * MSec
    BY <1>1, <1>2, Distribute
  <2>3. d * MSec - u = t * MSec - n
    BY <1>1, <1>2, <2>2
  <2>4. t * MSec - n \in 1 .. UsMod - 1
    BY <1>1, <1>2, <2>1, <2>2, <2>3
  <2>5. \A k \in 1 .. UsMod - 1 : k % UsMod = k
    BY <1>1
  <2>6. t * MSec > n
    BY <1>2, <2>4
  <2> QED
    BY <2>3, <2>4, <2>5, <2>6
<1>4. ASSUME ~(t > c) PROVE ~(t * MSec > n)
  <2>1. t * MSec <= c * MSec
    BY <1>4, Distribute
  <2> QED
    BY <1>1, <1>2, <2>1
<1> QED
  BY <1>3, <1>4

(* The interval is what is left until the time the kernel asks for.        *)
LEMMA WaitExact ==
  ASSUME Timer!TypeOK, t_CurMSec' \in t_CurMSec .. TickMod - 1, t_timeUS' \in 0 .. MSec - 1,
         t_CurMSec' * MSec + t_timeUS' = t_now, NEW t \in Nat, t <= t_CurMSec + Ahead
  PROVE  /\ Timer!WaitFor(t) \in 1 .. UsMod - 1
         /\ Timer!WaitFor(t) = IF t * MSec > t_now THEN t * MSec - t_now ELSE 1
<1>1. TickMod \in Nat /\ MaxNow \in Nat /\ Ahead \in Nat
  BY TimerAssumption
<1>2. t_CurMSec \in Nat /\ t_now \in Nat
  BY <1>1 DEF Timer!TypeOK
<1>3. t_CurMSec' \in Nat
  BY <1>1, <1>2
<1>4. t <= t_CurMSec' + Ahead
  <2>1. t_CurMSec <= t_CurMSec'
    BY <1>1, <1>2
  <2>2. \A a, b, h \in Nat : a <= b /\ t <= a + h => t <= b + h
    OBVIOUS
  <2> QED
    BY <1>1, <1>2, <1>3, <2>1, <2>2
<1>5. 1 \in 1 .. UsMod - 1
  BY TimerAssumption
<1> QED
  BY <1>2, <1>3, <1>4, <1>5, WaitFacts DEF Timer!WaitFor
-----------------------------------------------------------------------------
(* Time passes: the register follows it, and the one-shot expires.         *)
LEMMA TickStep == ASSUME ~Idle, ClockInv, Timer!Tick PROVE ClockInv'
<1> USE DEF ClockInv
<1>1. MaxNow \in Nat /\ Latency \in Nat /\ Period \in Nat \ {0} /\ TickMod \in Nat /\ MSec \in Nat
  BY TimerAssumption
<1>2. Timer!TypeOK'
  BY <1>1 DEF Timer!TypeOK, Timer!Tick, Timer!Pressing, Timer!clockVars, Timer!callVars
<1>3. Timer!ClockExact'
  BY DEF Timer!Tick, Timer!clockVars, Timer!ClockExact
<1>4. ElapsedInv'
  BY <1>1 DEF Timer!TypeOK, Timer!Tick, Timer!clockVars, ElapsedInv, Timer!Elapsed
<1>5. WaitInv'
  BY <1>1 DEF Timer!TypeOK, Timer!Tick, Timer!callVars, WaitInv, Timer!Pressing, Due, Target
<1>6. Timer!NotForgotten'
  <2> SUFFICES ASSUME t_waiting' PROVE t_pc' = "load" \/ t_deadline' > t_now' \/ t_irq1'
    BY DEF Timer!NotForgotten
  <2>1. t_pc = "load" \/ t_deadline > t_now \/ t_irq1
    BY DEF Timer!NotForgotten, Timer!Tick, Timer!callVars
  <2>2. CASE t_pc = "load"
    BY <2>2 DEF Timer!Tick
  <2>3. CASE t_irq1
    BY <2>3 DEF Timer!Tick
  <2>4. CASE t_deadline > t_now
    <3>1. t_deadline = t_now + 1 \/ (t_deadline # t_now + 1 /\ t_deadline > t_now + 1)
      BY <1>1, <2>4 DEF Timer!TypeOK
    <3>2. CASE t_deadline = t_now + 1
      BY <3>2 DEF Timer!Tick
    <3>3. CASE t_deadline # t_now + 1 /\ t_deadline > t_now + 1
      BY <3>3 DEF Timer!Tick
    <3> QED
      BY <3>1, <3>2, <3>3
  <2> QED
    BY <2>1, <2>2, <2>3, <2>4
<1>7. Timer!OnTime'
  BY DEF Timer!Tick, Timer!callVars, Timer!OnTime
<1> QED
  BY <1>2, <1>3, <1>4, <1>5, <1>6, <1>7

(* Looking at the clock.                                                   *)
LEMMA UpdateStep ==
  ASSUME ClockInv, Timer!update_timer, UNCHANGED << t_now, Timer!timerVars >>
  PROVE  Timer!ClockExact' /\ ElapsedInv'
<1> USE DEF ClockInv
<1>1. Timer!ClockExact'
  BY UpdateExact DEF Timer!ClockExact, Timer!update_timer
<1>2. ElapsedInv'
  BY TimerAssumption DEF ElapsedInv, Timer!Elapsed, Timer!update_timer, Timer!TypeOK,
     Timer!timerVars
<1> QED
  BY <1>1, <1>2

(* The handler looks at the clock and clears what it finds.                *)
LEMMA HandlerStep ==
  ASSUME ClockInv, Timer!TakeTimerIrq \/ Timer!ClearPeriodic \/ Timer!ClearOneShot
  PROVE  ClockInv'
<1> USE DEF ClockInv
<1>1. Latency \in Nat /\ MSec \in Nat \ {0} /\ TickMod \in Nat /\ Period \in Nat \ {0}
  BY TimerAssumption
<1>2. CASE Timer!TakeTimerIrq
  <2>1. Timer!ClockExact' /\ ElapsedInv'
    BY <1>2, UpdateStep DEF Timer!TakeTimerIrq
  <2>2. t_CurMSec' \in t_CurMSec .. TickMod - 1 /\ t_timeUS' \in 0 .. MSec - 1
    BY <1>2, UpdateExact DEF Timer!TakeTimerIrq
  <2>3. Timer!TypeOK'
    BY <1>1, <1>2, <2>2 DEF Timer!TypeOK, Timer!TakeTimerIrq, Timer!timerVars, Timer!callVars,
       Timer!update_timer
  <2>4. WaitInv' /\ Timer!NotForgotten' /\ Timer!OnTime'
    BY <1>2 DEF Timer!TakeTimerIrq, Timer!timerVars, Timer!callVars, WaitInv,
       Timer!NotForgotten, Timer!OnTime
  <2> QED
    BY <2>1, <2>3, <2>4
<1>3. CASE Timer!ClearPeriodic
  BY <1>3 DEF Timer!ClearPeriodic, Timer!clockVars, Timer!callVars, Timer!TypeOK,
     Timer!ClockExact, ElapsedInv,
              Timer!Elapsed, WaitInv, Timer!NotForgotten, Timer!OnTime
<1>4. CASE Timer!ClearOneShot
  <2>1. Timer!TypeOK'
    <3>1. t_irq0' \in BOOLEAN /\ t_irq1' \in BOOLEAN /\ t_waiting' \in BOOLEAN
      BY <1>4 DEF Timer!ClearOneShot, Timer!TypeOK
    <3> QED
      BY <1>1, <1>4, <3>1 DEF Timer!ClearOneShot, Timer!clockVars, Timer!TypeOK
  <2>2. Timer!ClockExact' /\ ElapsedInv' /\ WaitInv'
    BY <1>4 DEF Timer!ClearOneShot, Timer!clockVars, Timer!ClockExact, ElapsedInv,
       Timer!Elapsed, WaitInv
  <2>3. Timer!NotForgotten'
    BY <1>4 DEF Timer!ClearOneShot, WaitInv, Timer!NotForgotten
  <2>4. Timer!OnTime'
    BY <1>4 DEF Timer!ClearOneShot, Timer!OnTime
  <2> QED
    BY <2>1, <2>2, <2>3, <2>4
<1> QED
  BY <1>2, <1>3, <1>4

(* The kernel's call sets the one-shot for dwTick.                         *)
LEMMA CallStep ==
  ASSUME ClockInv,
         (\E t \in 0 .. t_CurMSec + Ahead : Timer!OEMUpdateReschedTime(t)) \/ Timer!LoadOneShot
  PROVE  ClockInv'
<1> USE DEF ClockInv
<1>1. /\ Latency \in Nat /\ MSec \in Nat \ {0} /\ TickMod \in Nat /\ UsMod \in Nat
      /\ Ahead \in Nat /\ MaxNow \in Nat /\ Period \in Nat \ {0}
  BY TimerAssumption
<1>2. ASSUME NEW t \in 0 .. t_CurMSec + Ahead, Timer!OEMUpdateReschedTime(t) PROVE ClockInv'
  <2>1. Timer!ClockExact' /\ ElapsedInv'
    BY <1>2, UpdateStep DEF Timer!OEMUpdateReschedTime
  <2>2. /\ t_CurMSec' \in t_CurMSec .. TickMod - 1 /\ t_timeUS' \in 0 .. MSec - 1
        /\ t_CurMSec' * MSec + t_timeUS' = t_now
    BY <1>2, UpdateExact DEF Timer!OEMUpdateReschedTime
  <2>3. t \in Nat /\ t <= t_CurMSec + Ahead
    BY <1>1 DEF Timer!TypeOK
  <2>4. /\ Timer!WaitFor(t) \in 1 .. UsMod - 1
        /\ Timer!WaitFor(t) = IF t * MSec > t_now THEN t * MSec - t_now ELSE 1
    BY <2>2, <2>3, WaitExact
  <2>5. /\ t_dwTick' = t /\ t_interval' = Timer!WaitFor(t) /\ t_askedAt' = t_now /\ t_now' = t_now
        /\ t_waiting' = TRUE /\ t_pc' = "load" /\ t_late' = 0 /\ UNCHANGED Timer!timerVars
    BY <1>2 DEF Timer!OEMUpdateReschedTime
  <2>6. Timer!TypeOK'
    BY <1>1, <1>2, <2>2, <2>3, <2>4, <2>5
    DEF Timer!TypeOK, Timer!OEMUpdateReschedTime, Timer!timerVars, Timer!update_timer
  <2>7. WaitInv'
    <3>1. t * MSec \in Int
      BY <2>3, Distribute
    <3> QED
      BY <1>1, <2>4, <2>5, <3>1 DEF WaitInv, Timer!timerVars, Due, Target, Timer!TypeOK
  <2>8. Timer!NotForgotten' /\ Timer!OnTime'
    BY <2>5 DEF Timer!NotForgotten, Timer!OnTime
  <2> QED
    BY <2>1, <2>6, <2>7, <2>8
<1>3. CASE Timer!LoadOneShot
  <2>1. /\ t_pc = "load" /\ t_deadline' = t_now + t_interval /\ t_pc' = "run" /\ t_late' = 0
        /\ UNCHANGED << t_now, Timer!clockVars, t_TimerValue, t_irq0, t_irq1, Timer!callVars >>
    BY <1>3 DEF Timer!LoadOneShot
  <2>2. t_deadline' > t_now /\ t_deadline' \in Nat
    BY <1>1, <2>1 DEF Timer!TypeOK
  <2>3. Timer!TypeOK'
    BY <1>1, <2>1, <2>2 DEF Timer!TypeOK, Timer!clockVars, Timer!callVars
  <2>4. Timer!ClockExact' /\ ElapsedInv'
    BY <2>1 DEF Timer!ClockExact, ElapsedInv, Timer!Elapsed, Timer!clockVars
  <2>5. WaitInv' /\ Timer!NotForgotten'
    BY <2>1, <2>2 DEF WaitInv, Timer!NotForgotten
  <2>6. Timer!OnTime'
    <3>1. Target \in Int
      BY Distribute DEF Timer!TypeOK, Target
    <3>2. t_deadline' = Due + t_late
      BY <1>1, <2>1, <3>1 DEF WaitInv, Timer!TypeOK, Due
    <3>3. t_deadline' \in Due .. Due + Latency
      BY <1>1, <3>1, <3>2 DEF Timer!TypeOK, Due
    <3> QED
      BY <2>1, <3>3 DEF Timer!OnTime, Due, Target, Timer!callVars
  <2> QED
    BY <2>3, <2>4, <2>5, <2>6
<1> QED
  BY <1>2, <1>3

(* The clock starts right, with nothing asked for.                         *)
LEMMA ClockStart == ASSUME Timer!Init PROVE ClockInv
<1>1. /\ MSec \in Nat \ {0} /\ Period \in Nat \ {0} /\ UsMod \in Nat /\ 1 < UsMod
      /\ Latency \in Nat /\ MaxNow \in Nat /\ TickMod \in Nat
  BY TimerAssumption
<1>2. TickMod # 0
  <2>1. TickMod = 0 => TickMod * MSec = 0
    BY <1>1
  <2> QED
    BY <1>1, <2>1, TimerAssumption
<1>3. t_irq0 \in BOOLEAN /\ t_irq1 \in BOOLEAN /\ t_waiting \in BOOLEAN
  BY DEF Timer!Init
<1>4. Timer!TypeOK
  BY <1>1, <1>2, <1>3 DEF Timer!Init, Timer!TypeOK
<1>5. Timer!ClockExact /\ ElapsedInv
  BY <1>1 DEF Timer!Init, Timer!ClockExact, ElapsedInv, Timer!Elapsed
<1>6. WaitInv /\ Timer!NotForgotten /\ Timer!OnTime
  BY <1>1 DEF Timer!Init, WaitInv, Timer!NotForgotten, Timer!OnTime
<1> QED
  BY <1>4, <1>5, <1>6 DEF ClockInv

(* The invariant holds for ever.                                           *)
LEMMA ClockInvariance == ASSUME ~Idle PROVE Timer!Spec => []ClockInv
<1>1. Timer!Init => ClockInv
  BY ClockStart
<1>2. ClockInv /\ [Timer!Next]_(Timer!vars) => ClockInv'
  <2>1. ASSUME ClockInv, Timer!Next PROVE ClockInv'
    BY <2>1, TickStep, HandlerStep, CallStep DEF Timer!Next
  <2>2. ASSUME ClockInv, UNCHANGED Timer!vars PROVE ClockInv'
    BY <2>2 DEF Timer!vars, Timer!clockVars, Timer!timerVars, Timer!callVars, ClockInv,
       Timer!TypeOK, Timer!ClockExact,
                ElapsedInv, Timer!Elapsed, WaitInv, Due, Target, Timer!NotForgotten, Timer!OnTime
  <2> QED
    BY <2>1, <2>2
<1> QED
  BY <1>1, <1>2, PTL DEF Timer!Spec
-----------------------------------------------------------------------------
(* Every variable keeps its type: the clock does not wrap before its time, *)
(* and no wait is 0 or does not fit interval (intr.c:113-133,              *)
(* timer.c:247-262).                                                       *)
THEOREM TypeCorrect == ASSUME ~Idle PROVE Timer!Spec => []Timer!TypeOK
BY ClockInvariance, PTL DEF ClockInv

(* The clock is right to the microsecond whenever it is brought up to date *)
(* (intr.c:113-133), whatever the period and however often it is read, as  *)
(* long as that is more than once in a period.                             *)
THEOREM ClockRight == ASSUME ~Idle PROVE Timer!Spec => []Timer!ClockExact
BY ClockInvariance, PTL DEF ClockInv

(* The interrupt the kernel asked for is running down or up until it is    *)
(* taken (intr.c:158-164, timer.c:258-262).                                *)
THEOREM CalledBack == ASSUME ~Idle PROVE Timer!Spec => []Timer!NotForgotten
BY ClockInvariance, PTL DEF ClockInv

(* The one-shot expires at the millisecond asked for, never earlier, and   *)
(* no later than the call's own latency (timer.c:247-262).                 *)
THEOREM CalledOnTime == ASSUME ~Idle PROVE Timer!Spec => []Timer!OnTime
BY ClockInvariance, PTL DEF ClockInv

(* And all of it at once: what the run safety checks (intr.c:113-164,      *)
(* timer.c:247-262).                                                       *)
THEOREM ClockIsSafe == ASSUME ~Idle PROVE Timer!Spec => []ClockSafe
BY ClockInvariance, PTL DEF ClockInv, ClockSafe, Timer!ClockSafe
-----------------------------------------------------------------------------
(* The flows.                                                              *)
(*                                                                         *)
(* What a thread may be about to do to a flow: the starting and stopping   *)
(* of the one that owns it, and what others do.                            *)
Starts    == {"start", "running", "unmask"}
Completes == {"check", "stopped", "notify"}
Stops     == {"clear", "mask", "release", "wait"} \cup Completes
Owned     == Starts \cup {"stop"} \cup Stops
Shared    == {"addref", "release"} \cup Completes
Acts      == Owned \cup Shared
MpActs    == {"restarted", "paused", "suspend", "fast", "device_off", "prevent_dpc", "wait_dpc",
              "shutdown_queues", "device_on", "resume", "faster", "removed", "shutdown"}
MpRecord  == [op : MpActs, f : {"mp"}]
Record    == [op : Acts \cup MpActs \cup {"set", "null", "needs_reset"},
              f : {"data", "binding", "mp", "cx"}]

Owner(f) == IF f = "data" THEN "ndis" ELSE "vf"

(* What the owner, and what another, that is about to do h does with the   *)
(* flow from there on.                                                     *)
Part(h, f) ==
  CASE h \in {"stop", "wait", "start", "unmask"} -> << Flow!Op(h, f) >>
    [] h = "clear"   -> << Flow!Op("clear", f), Flow!Op("mask", f), Flow!Op("release", f),
                           Flow!Op("wait", f) >>
    [] h = "mask"    -> << Flow!Op("mask", f), Flow!Op("release", f), Flow!Op("wait", f) >>
    [] h \in {"release", "check", "notify"} -> << Flow!Op(h, f), Flow!Op("wait", f) >>
    [] h = "stopped" -> << Flow!Op("stopped", f), Flow!Op("notify", f), Flow!Op("wait", f) >>
    [] h = "running" -> << Flow!Op("running", f), Flow!Op("unmask", f) >>
    [] OTHER         -> << >>
UserPart(h, f) ==
  CASE h \in {"addref", "release", "check", "notify"} -> << Flow!Op(h, f) >>
    [] h = "stopped" -> << Flow!Op("stopped", f), Flow!Op("notify", f) >>
    [] OTHER         -> << >>

About(s, f) ==
  IF s # << >> /\ \E h \in Acts : Head(s) = Flow!Op(h, f) THEN Head(s).op ELSE "none"
Doing(t, f) == About(f_todo[t], f)

(* The rest of an owner's list.                                            *)
Calm(r)   == r \in Seq(Record) /\ (r # << >> => Head(r).f \in {"mp", "cx"} \/ Head(r).op \in {"set", "null"})
NullFlow  == << Flow!Op("null", "binding") >>
NdisAt(h, r) ==
  /\ h \in Owned \cup {"none"} /\ r \in Seq(MpRecord)
  /\ f_todo["ndis"] = Part(h, "data") \o r
  /\ h # "none" => "data" \in FlowKinds
  /\ FlowOps = {} => r = << >> /\ h = "none"
VfAt(h, r) ==
  /\ \/ r = << >> /\ h \in Starts \cup {"none"}
     \/ r = NullFlow /\ h \in {"none", "stop"} \cup Stops
     \/ r = Flow!Set /\ h = "none"
  /\ f_todo["vf"] = Part(h, "binding") \o r
  /\ "binding" \notin FlowKinds => h = "none" /\ r = << >>
UserAt(t) ==
  \/ f_todo[t] = << >>
  \/ \E f \in FlowKinds, h \in Shared :
       f_todo[t] = UserPart(h, f) /\ (h = "addref" => t \notin f_held[f])

FlowType ==
  /\ f_State \in [FlowKinds -> {"Running", "Stopping", "Stopped"}]
  /\ f_count \in [FlowKinds -> Int] /\ f_masked \in [FlowKinds -> BOOLEAN]
  /\ f_event \in [FlowKinds -> BOOLEAN] /\ f_late \in [FlowKinds -> BOOLEAN]
  /\ f_held \in [FlowKinds -> SUBSET FlowUsers] /\ f_todo \in [Flow!Threads -> Seq(Record)]
  /\ f_Value \in BOOLEAN /\ f_refused \in BOOLEAN
  /\ f_ndis \in [running : BOOLEAN, powered : BOOLEAN, removed : BOOLEAN, reset : BOOLEAN,
                 halted : BOOLEAN]
ShapeInv ==
  /\ \A t \in FlowUsers : UserAt(t)
  /\ \E h, r : VfAt(h, r)
  /\ \E h, r : NdisAt(h, r)
  /\ f_todo["cx"] = << >> \/ f_todo["cx"] = << Flow!Op("needs_reset", "cx") >>

(* Thread t goes on at flow f from a to b, and no other does at any.       *)
Goes(t, f, a, b) ==
  /\ t \in {Owner(f)} \cup FlowUsers /\ Doing(t, f) = a /\ Doing(t, f)' = b
  /\ \A u \in Flow!Threads, g \in FlowKinds : u # t \/ g # f => Doing(u, g)' = Doing(u, g)
  /\ \A u \in Flow!Threads \ {t} : f_todo'[u] = f_todo[u]
  /\ t = "ndis" => \A h, r : NdisAt(h, r) => h = a /\ NdisAt(b, r)'
  /\ t = "vf" => \A h, r : VfAt(h, r) => h = a /\ VfAt(b, r)'
-----------------------------------------------------------------------------
LEMMA JoinTail ==
  ASSUME NEW S, NEW p \in Seq(S), NEW r \in Seq(S), NEW x \in Seq(S), p # << >>
  PROVE  /\ p \o r \in Seq(S) /\ p \o r # << >> /\ Head(p \o r) = Head(p)
         /\ x \o Tail(p \o r) = (x \o Tail(p)) \o r
<1>1. Len(p) \in Nat /\ Len(p) > 0 /\ Len(r) \in Nat
  OBVIOUS
<1>2. p \o r \in Seq(S) /\ Len(p \o r) = Len(p) + Len(r)
  OBVIOUS
<1>3. p \o r # << >>
  BY <1>1, <1>2
<1>4. Head(p \o r) = Head(p)
  BY <1>1, <1>2
<1>5. Tail(p \o r) = Tail(p) \o r
  BY <1>1, <1>2
<1> QED BY <1>2, <1>3, <1>4, <1>5

LEMMA PartIs ==
  ASSUME NEW f \in {"data", "binding"}, NEW h \in Owned
  PROVE  /\ Part(h, f) \in Seq(Record) /\ Part(h, f) # << >> /\ Head(Part(h, f)) = Flow!Op(h, f)
<1>1. \A k \in Acts : Flow!Op(k, f) \in Record
  BY DEF Flow!Op, Record
<1>2. CASE h \in {"stop", "wait", "start", "unmask"}
  BY <1>1, <1>2 DEF Part, Acts, Owned
<1>3. CASE h = "clear"
  BY <1>1, <1>3 DEF Part, Acts, Owned, Starts, Stops
<1>4. CASE h = "mask"
  BY <1>1, <1>4 DEF Part, Acts, Owned, Starts, Stops
<1>5. CASE h \in {"release", "check", "notify"}
  BY <1>1, <1>5 DEF Part, Acts, Owned, Starts, Stops
<1>6. CASE h = "stopped"
  BY <1>1, <1>6 DEF Part, Acts, Owned, Starts, Stops, Completes
<1>7. CASE h = "running"
  BY <1>1, <1>7 DEF Part, Acts, Owned, Starts, Stops
<1> QED BY <1>2, <1>3, <1>4, <1>5, <1>6, <1>7 DEF Owned, Starts, Stops, Completes

LEMMA PartNone ==
  ASSUME NEW f PROVE Part("none", f) = << >>
BY DEF Part

LEMMA JoinTwo == ASSUME NEW a, NEW b PROVE << a >> \o << b >> = << a, b >>
<1>1. << a >> \in Seq({a, b}) /\ << b >> \in Seq({a, b}) /\ << a, b >> \in Seq({a, b})
  OBVIOUS
<1>2. << a >> \o << b >> \in Seq({a, b})
  BY <1>1
<1>3. Len(<< a >> \o << b >>) = 2 /\ Len(<< a, b >>) = 2
  BY <1>1
<1>4. \A i \in 1 .. 2 : (<< a >> \o << b >>)[i] = << a, b >>[i]
  BY <1>1
<1> QED BY <1>1, <1>2, <1>3, <1>4, EqualSeqs
LEMMA JoinThree == ASSUME NEW a, NEW b, NEW c PROVE << a, b >> \o << c >> = << a, b, c >>
<1>1. /\ << a, b >> \in Seq({a, b, c}) /\ << c >> \in Seq({a, b, c})
      /\ << a, b, c >> \in Seq({a, b, c})
  OBVIOUS
<1>2. << a, b >> \o << c >> \in Seq({a, b, c})
  BY <1>1
<1>3. Len(<< a, b >> \o << c >>) = 3 /\ Len(<< a, b, c >>) = 3
  BY <1>1
<1>4. \A i \in 1 .. 3 : (<< a, b >> \o << c >>)[i] = << a, b, c >>[i]
  BY <1>1
<1> QED BY <1>1, <1>2, <1>3, <1>4, EqualSeqs

(* How the owner goes on.                                                  *)
LEMMA PartNext ==
  ASSUME NEW f
  PROVE  /\ << >> \o Tail(Part("stop", f)) = Part("none", f)
         /\ << Flow!Op("clear", f), Flow!Op("mask", f), Flow!Op("release", f), Flow!Op("wait", f) >>
              \o Tail(Part("stop", f)) = Part("clear", f)
         /\ << >> \o Tail(Part("clear", f)) = Part("mask", f)
         /\ << >> \o Tail(Part("mask", f)) = Part("release", f)
         /\ << >> \o Tail(Part("release", f)) = Part("wait", f)
         /\ << Flow!Op("check", f) >> \o Tail(Part("release", f)) = Part("check", f)
         /\ << >> \o Tail(Part("check", f)) = Part("wait", f)
         /\ << Flow!Op("stopped", f), Flow!Op("notify", f) >> \o Tail(Part("check", f)) =
              Part("stopped", f)
         /\ << >> \o Tail(Part("stopped", f)) = Part("notify", f)
         /\ << >> \o Tail(Part("notify", f)) = Part("wait", f)
         /\ << >> \o Tail(Part("wait", f)) = Part("none", f)
         /\ << >> \o Tail(Part("start", f)) = Part("none", f)
         /\ << Flow!Op("running", f), Flow!Op("unmask", f) >> \o Tail(Part("start", f)) =
              Part("running", f)
         /\ << >> \o Tail(Part("running", f)) = Part("unmask", f)
         /\ << >> \o Tail(Part("unmask", f)) = Part("none", f)
<1> DEFINE sp == Flow!Op("stop", f)    cl == Flow!Op("clear", f)   ma == Flow!Op("mask", f)
           re == Flow!Op("release", f) wa == Flow!Op("wait", f)    ch == Flow!Op("check", f)
           sd == Flow!Op("stopped", f) no == Flow!Op("notify", f)  st == Flow!Op("start", f)
           ru == Flow!Op("running", f) un == Flow!Op("unmask", f)
<1>1. /\ Part("stop", f) = << sp >> /\ Part("wait", f) = << wa >> /\ Part("start", f) = << st >>
      /\ Part("unmask", f) = << un >> /\ Part("none", f) = << >>
      /\ Part("clear", f) = << cl, ma, re, wa >> /\ Part("mask", f) = << ma, re, wa >>
      /\ Part("release", f) = << re, wa >> /\ Part("check", f) = << ch, wa >>
      /\ Part("notify", f) = << no, wa >> /\ Part("stopped", f) = << sd, no, wa >>
      /\ Part("running", f) = << ru, un >>
  BY DEF Part
<1> HIDE DEF sp, cl, ma, re, wa, ch, sd, no, st, ru, un
<1>2. /\ Tail(<< sp >>) = << >> /\ Tail(<< wa >>) = << >> /\ Tail(<< st >>) = << >>
      /\ Tail(<< un >>) = << >> /\ << >> \o << >> = << >>
  OBVIOUS
<1>3. /\ Tail(<< re, wa >>) = << wa >> /\ Tail(<< ch, wa >>) = << wa >>
      /\ Tail(<< no, wa >>) = << wa >> /\ Tail(<< ru, un >>) = << un >>
      /\ << >> \o << wa >> = << wa >> /\ << >> \o << un >> = << un >>
  OBVIOUS
<1>4. /\ Tail(<< ma, re, wa >>) = << re, wa >> /\ Tail(<< sd, no, wa >>) = << no, wa >>
      /\ << >> \o << re, wa >> = << re, wa >> /\ << >> \o << no, wa >> = << no, wa >>
  OBVIOUS
<1>5. /\ Tail(<< cl, ma, re, wa >>) = << ma, re, wa >>
      /\ << >> \o << ma, re, wa >> = << ma, re, wa >>
  OBVIOUS
<1>6. << cl, ma, re, wa >> \o << >> = << cl, ma, re, wa >> /\ << ru, un >> \o << >> = << ru, un >>
  OBVIOUS
<1>7. << ch >> \o << wa >> = << ch, wa >> /\ << sd, no >> \o << wa >> = << sd, no, wa >>
  BY JoinTwo, JoinThree
<1>8. /\ << >> \o Tail(Part("stop", f)) = Part("none", f)
      /\ << >> \o Tail(Part("wait", f)) = Part("none", f)
      /\ << >> \o Tail(Part("start", f)) = Part("none", f)
      /\ << >> \o Tail(Part("unmask", f)) = Part("none", f)
      /\ << cl, ma, re, wa >> \o Tail(Part("stop", f)) = Part("clear", f)
      /\ << ru, un >> \o Tail(Part("start", f)) = Part("running", f)
  BY <1>1, <1>2, <1>6, Zenon
<1>9. /\ << >> \o Tail(Part("release", f)) = Part("wait", f)
      /\ << >> \o Tail(Part("check", f)) = Part("wait", f)
      /\ << >> \o Tail(Part("notify", f)) = Part("wait", f)
      /\ << >> \o Tail(Part("running", f)) = Part("unmask", f)
      /\ << ch >> \o Tail(Part("release", f)) = Part("check", f)
      /\ << sd, no >> \o Tail(Part("check", f)) = Part("stopped", f)
  BY <1>1, <1>3, <1>7, Zenon
<1>10. /\ << >> \o Tail(Part("clear", f)) = Part("mask", f)
       /\ << >> \o Tail(Part("mask", f)) = Part("release", f)
       /\ << >> \o Tail(Part("stopped", f)) = Part("notify", f)
  BY <1>1, <1>4, <1>5, Zenon
<1> QED BY <1>8, <1>9, <1>10 DEF sp, cl, ma, re, wa, ch, sd, no, st, ru, un

LEMMA UserNext ==
  ASSUME NEW f
  PROVE  /\ \A h \in {"addref", "release", "check", "notify"} :
              << >> \o Tail(UserPart(h, f)) = UserPart("none", f)
         /\ << Flow!Op("release", f) >> \o Tail(UserPart("addref", f)) = UserPart("release", f)
         /\ << Flow!Op("check", f) >> \o Tail(UserPart("release", f)) = UserPart("check", f)
         /\ << Flow!Op("stopped", f), Flow!Op("notify", f) >> \o Tail(UserPart("check", f)) =
              UserPart("stopped", f)
         /\ << >> \o Tail(UserPart("stopped", f)) = UserPart("notify", f)
         /\ UserPart("none", f) = << >>
<1> DEFINE ad == Flow!Op("addref", f)  re == Flow!Op("release", f) ch == Flow!Op("check", f)
           sd == Flow!Op("stopped", f) no == Flow!Op("notify", f)
<1>1. /\ UserPart("addref", f) = << ad >> /\ UserPart("release", f) = << re >>
      /\ UserPart("check", f) = << ch >> /\ UserPart("notify", f) = << no >>
      /\ UserPart("stopped", f) = << sd, no >> /\ UserPart("none", f) = << >>
  BY DEF UserPart
<1> HIDE DEF ad, re, ch, sd, no
<1>2. /\ Tail(<< ad >>) = << >> /\ Tail(<< re >>) = << >> /\ Tail(<< ch >>) = << >>
      /\ Tail(<< no >>) = << >> /\ Tail(<< sd, no >>) = << no >>
  OBVIOUS
<1>3. /\ << >> \o << >> = << >> /\ << re >> \o << >> = << re >> /\ << ch >> \o << >> = << ch >>
      /\ << sd, no >> \o << >> = << sd, no >> /\ << >> \o << no >> = << no >>
  OBVIOUS
<1>4. /\ << >> \o Tail(UserPart("addref", f)) = UserPart("none", f)
      /\ << >> \o Tail(UserPart("release", f)) = UserPart("none", f)
      /\ << >> \o Tail(UserPart("check", f)) = UserPart("none", f)
      /\ << >> \o Tail(UserPart("notify", f)) = UserPart("none", f)
  BY <1>1, <1>2, <1>3, Zenon
<1>5. /\ << re >> \o Tail(UserPart("addref", f)) = UserPart("release", f)
      /\ << ch >> \o Tail(UserPart("release", f)) = UserPart("check", f)
      /\ << sd, no >> \o Tail(UserPart("check", f)) = UserPart("stopped", f)
      /\ << >> \o Tail(UserPart("stopped", f)) = UserPart("notify", f)
  BY <1>1, <1>2, <1>3, Zenon
<1> QED BY <1>1, <1>4, <1>5 DEF re, ch, sd, no

(* What a thread is doing, read off its list.                              *)
LEMMA OpIs ==
  ASSUME NEW h, NEW f, NEW k, NEW g
  PROVE  /\ Flow!Op(h, f) = Flow!Op(k, g) <=> h = k /\ f = g
         /\ Flow!Op(h, f).op = h /\ Flow!Op(h, f).f = f
BY DEF Flow!Op

LEMMA AboutCalm ==
  ASSUME NEW r, Calm(r), NEW f \in {"data", "binding"}
  PROVE  About(r, f) = "none"
<1>1. r # << >> => \A h \in Acts : Head(r) # Flow!Op(h, f)
  BY OpIs DEF Calm, Acts, Owned, Starts, Stops, Completes, Shared
<1> QED BY <1>1 DEF About

LEMMA AboutHead ==
  ASSUME NEW s, s # << >>, NEW h \in Acts, NEW f, Head(s) = Flow!Op(h, f), NEW g
  PROVE  About(s, g) = IF f = g THEN h ELSE "none"
BY OpIs DEF About

LEMMA AboutPart ==
  ASSUME NEW f \in {"data", "binding"}, NEW h \in Owned \cup {"none"}, NEW r, Calm(r),
         NEW g \in {"data", "binding"}
  PROVE  /\ About(Part(h, f) \o r, g) = IF f = g THEN h ELSE "none"
         /\ Part(h, f) \o r \in Seq(Record)
<1>1. r \in Seq(Record)
  BY DEF Calm
<1>2. CASE h = "none"
  <2>1. Part(h, f) \o r = r
    BY <1>1, <1>2, PartNone
  <2> QED BY <2>1, <1>1, <1>2, AboutCalm
<1>3. CASE h \in Owned
  <2>1. Part(h, f) \in Seq(Record) /\ Part(h, f) # << >> /\ Head(Part(h, f)) = Flow!Op(h, f)
    BY <1>3, PartIs
  <2>2. /\ Part(h, f) \o r \in Seq(Record) /\ Part(h, f) \o r # << >>
        /\ Head(Part(h, f) \o r) = Flow!Op(h, f)
    BY <1>1, <2>1, JoinTail
  <2> QED BY <1>3, <2>2, AboutHead DEF Acts
<1> QED BY <1>2, <1>3

LEMMA AboutUser ==
  ASSUME NEW f \in FlowKinds, FlowThreads, NEW h \in Shared \cup {"none"}, NEW g
  PROVE  /\ About(UserPart(h, f), g) = IF f = g THEN h ELSE "none"
         /\ UserPart(h, f) \in Seq(Record)
         /\ h # "none" => UserPart(h, f) # << >> /\ Head(UserPart(h, f)) = Flow!Op(h, f)
<1>0. f \in {"data", "binding"}
  BY DEF FlowThreads, Flow!AllFlows
<1>1. \A k \in Acts : Flow!Op(k, f) \in Record
  BY <1>0 DEF Flow!Op, Record
<1>2. CASE h = "none"
  BY <1>2 DEF UserPart, About
<1>3. CASE h \in Shared
  <2>1. /\ UserPart(h, f) \in Seq(Record) /\ UserPart(h, f) # << >>
        /\ Head(UserPart(h, f)) = Flow!Op(h, f)
    <3>1. CASE h = "stopped"
      BY <1>1, <3>1 DEF UserPart, Acts, Shared, Completes
    <3>2. CASE h # "stopped"
      BY <1>1, <1>3, <3>2 DEF UserPart, Acts, Shared, Completes
    <3> QED BY <3>1, <3>2
  <2> QED BY <1>3, <2>1, AboutHead DEF Acts
<1> QED BY <1>2, <1>3

LEMMA AtDoing ==
  ASSUME NEW t, NEW f, NEW a \in Acts, Flow!At(t, a, f)
  PROVE  Doing(t, f) = a /\ f_todo[t] # << >> /\ Head(f_todo[t]) = Flow!Op(a, f)
BY AboutHead DEF Flow!At, Doing

LEMMA MpCalm ==
  ASSUME NEW r, r \in Seq(MpRecord)
  PROVE  r \in Seq(Record) /\ (r # << >> => Head(r) \in MpRecord /\ Head(r).f = "mp")
<1>1. /\ MpRecord \subseteq Record /\ \A m \in MpRecord : m.f = "mp"
  BY DEF Record, MpRecord
<1>2. r = [i \in 1 .. Len(r) |-> r[i]] /\ Len(r) \in Nat /\ \A i \in 1 .. Len(r) : r[i] \in MpRecord
  OBVIOUS
<1>3. \A i \in 1 .. Len(r) : r[i] \in Record
  BY <1>1, <1>2, Zenon
<1>4. r \in Seq(Record)
  BY <1>2, <1>3
<1>5. r # << >> => Head(r) \in MpRecord
  BY <1>2
<1> QED BY <1>1, <1>4, <1>5, Zenon

LEMMA NdisCalm ==
  ASSUME NEW h, NEW r, NdisAt(h, r)
  PROVE  /\ Calm(r) /\ h \in Owned \cup {"none"} /\ Doing("ndis", "data") = h
         /\ Doing("ndis", "binding") = "none" /\ f_todo["ndis"] = Part(h, "data") \o r
<1>1. r \in Seq(MpRecord)
  BY DEF NdisAt
<1>2. r \in Seq(Record) /\ (r # << >> => Head(r).f = "mp")
  BY <1>1, MpCalm
<1>5. Calm(r)
  BY <1>2, Zenon DEF Calm
<1>6. h \in Owned \cup {"none"} /\ f_todo["ndis"] = Part(h, "data") \o r
  BY DEF NdisAt
<1> QED BY <1>5, <1>6, AboutPart DEF Doing

LEMMA VfCalm ==
  ASSUME NEW h, NEW r, VfAt(h, r)
  PROVE  /\ Calm(r) /\ h \in Owned \cup {"none"} /\ Doing("vf", "binding") = h
         /\ Doing("vf", "data") = "none" /\ f_todo["vf"] = Part(h, "binding") \o r
<1>1. \A k \in {"set", "null", "start"} : Flow!Op(k, "binding") \in Record
  BY DEF Flow!Op, Record, Acts, Owned, Starts
<1>2. /\ NullFlow \in Seq(Record) /\ Head(NullFlow).op = "null"
      /\ Flow!Set \in Seq(Record) /\ Head(Flow!Set).op = "set"
  BY <1>1, OpIs DEF NullFlow, Flow!Set
<1>3. Calm(r)
  <2>1. r \in {<< >>, NullFlow, Flow!Set}
    BY Zenon DEF VfAt
  <2>2. << >> \in Seq(Record)
    OBVIOUS
  <2> QED BY <1>2, <2>1, <2>2, Zenon DEF Calm
<1>4. h \in Owned \cup {"none"} /\ f_todo["vf"] = Part(h, "binding") \o r
  BY DEF VfAt, Owned
<1> QED BY <1>3, <1>4, AboutPart DEF Doing

(* Another thread's list is of itself alone.                               *)
LEMMA UserDoing ==
  ASSUME FlowThreads, NEW t \in FlowUsers, UserAt(t), NEW f \in FlowKinds, Doing(t, f) # "none"
  PROVE  Doing(t, f) \in Shared /\ f_todo[t] = UserPart(Doing(t, f), f)
<1>1. f_todo[t] # << >>
  BY DEF Doing, About
<1>2. PICK g \in FlowKinds, h \in Shared : f_todo[t] = UserPart(h, g)
  BY <1>1 DEF UserAt
<1>3. Doing(t, f) = IF g = f THEN h ELSE "none"
  BY <1>2, AboutUser DEF Doing
<1> QED BY <1>2, <1>3

LEMMA KindIs ==
  ASSUME FlowThreads, NEW f \in FlowKinds
  PROVE  f \in {"data", "binding"} /\ Owner(f) \in {"ndis", "vf"} /\ Owner(f) \notin FlowUsers
BY DEF FlowThreads, Flow!AllFlows, Owner

(* Who can be about to do something to a flow.                             *)
LEMMA WhoDoes ==
  ASSUME FlowThreads, ShapeInv, NEW t \in Flow!Threads, NEW f \in FlowKinds,
         Doing(t, f) # "none"
  PROVE  \/ t = Owner(f) /\ Doing(t, f) \in Owned
         \/ t \in FlowUsers /\ Doing(t, f) \in Shared
<1>1. CASE t \in FlowUsers
  BY <1>1, UserDoing DEF ShapeInv
<1>2. CASE t = "ndis"
  <2>1. PICK h, r : NdisAt(h, r)
    BY DEF ShapeInv
  <2> QED BY <2>1, <1>2, NdisCalm, KindIs DEF Owner
<1>3. CASE t = "vf"
  <2>1. PICK h, r : VfAt(h, r)
    BY DEF ShapeInv
  <2> QED BY <2>1, <1>3, VfCalm, KindIs DEF Owner
<1>4. CASE t = "cx"
  <2>1. f_todo["cx"] = << >> \/ Head(f_todo["cx"]) = Flow!Op("needs_reset", "cx")
    BY DEF ShapeInv
  <2>2. \A h \in Acts : Flow!Op(h, f) # Flow!Op("needs_reset", "cx")
    BY OpIs DEF Acts, Owned, Starts, Stops, Completes, Shared
  <2> QED BY <2>1, <2>2, <1>4 DEF Doing, About
<1> QED BY <1>1, <1>2, <1>3, <1>4 DEF Flow!Threads

(* A step of a thread at a flow, of which only its list is at issue here.  *)
LEMMA Going ==
  ASSUME FlowThreads, FlowType, ShapeInv, NEW t \in Flow!Threads, NEW f \in FlowKinds,
         NEW a \in Acts, Flow!At(t, a, f), NEW x \in Seq(Record), Flow!Then(t, x), NEW b,
         t = Owner(f) => /\ x \o Tail(Part(a, f)) = Part(b, f)
                         /\ \/ b = "none"
                            \/ a \in Starts /\ b \in Starts
                            \/ a \in {"stop"} \cup Stops /\ b \in Stops,
         t \in FlowUsers => x \o Tail(UserPart(a, f)) = UserPart(b, f)
                              /\ b \in (Shared \ {"addref"}) \cup {"none"},
         \A u \in FlowUsers \ {t}, g \in FlowKinds : u \in f_held'[g] => u \in f_held[g]
  PROVE  /\ Goes(t, f, a, b) /\ ShapeInv' /\ f_todo' \in [Flow!Threads -> Seq(Record)]
         /\ t = Owner(f) => a \in Owned
         /\ t \in FlowUsers => a \in Shared
<1>1. Doing(t, f) = a /\ f_todo[t] # << >> /\ a # "none"
  BY AtDoing DEF Acts, Owned, Starts, Stops, Completes, Shared
<1>2. (t = Owner(f) /\ a \in Owned) \/ (t \in FlowUsers /\ a \in Shared)
  <2>1. Doing(t, f) # "none"
    BY <1>1
  <2>2. \/ t = Owner(f) /\ Doing(t, f) \in Owned
        \/ t \in FlowUsers /\ Doing(t, f) \in Shared
    BY <2>1, WhoDoes
  <2> QED BY <2>2, <1>1, Zenon
<1>3. f_todo' = [f_todo EXCEPT ![t] = x \o Tail(f_todo[t])]
  BY DEF Flow!Then
<1>4. f_todo \in [Flow!Threads -> Seq(Record)] /\ f_todo[t] \in Seq(Record)
  BY DEF FlowType
<1>5. x \o Tail(f_todo[t]) \in Seq(Record)
  BY <1>1, <1>4
<1>6. /\ f_todo' \in [Flow!Threads -> Seq(Record)] /\ f_todo'[t] = x \o Tail(f_todo[t])
      /\ \A u \in Flow!Threads \ {t} : f_todo'[u] = f_todo[u]
  BY <1>3, <1>4, <1>5
<1>7. \A u \in Flow!Threads \ {t} : \A g : Doing(u, g)' = Doing(u, g)
  BY <1>6 DEF Doing
<1>8. f \in {"data", "binding"} /\ {"ndis", "vf", "cx"} \cap FlowUsers = {}
  BY KindIs DEF FlowThreads
<1>9. \A u \in FlowUsers \ {t} : UserAt(u)'
  <2>1. SUFFICES ASSUME NEW u \in FlowUsers \ {t} PROVE UserAt(u)'
    OBVIOUS
  <2>2. f_todo'[u] = f_todo[u] /\ UserAt(u)
    BY <1>6 DEF Flow!Threads, ShapeInv
  <2> QED BY <2>2 DEF UserAt
<1>10. t # "cx" => f_todo'["cx"] = f_todo["cx"]
  BY <1>6 DEF Flow!Threads
<1>11. ASSUME t # "ndis", NEW h, NEW r PROVE NdisAt(h, r)' <=> NdisAt(h, r)
  BY <1>6, <1>11 DEF NdisAt, Flow!Threads
<1>12. ASSUME t # "vf", NEW h, NEW r PROVE VfAt(h, r)' <=> VfAt(h, r)
  BY <1>6, <1>12 DEF VfAt, Flow!Threads
<1>13. ASSUME t = Owner(f), NEW h, NEW r, Calm(r), h \in Owned \cup {"none"},
              f_todo[t] = Part(h, f) \o r
       PROVE  h = a /\ f_todo'[t] = Part(b, f) \o r /\ b \in Owned \cup {"none"}
  <2>1. h = a
    BY <1>1, <1>8, <1>13, AboutPart DEF Doing
  <2>2. Part(a, f) \in Seq(Record) /\ Part(a, f) # << >> /\ r \in Seq(Record)
    BY <1>1, <1>8, <1>13, <2>1, PartIs DEF Calm
  <2>3. x \o Tail(f_todo[t]) = (x \o Tail(Part(a, f))) \o r
    BY <2>1, <2>2, <1>13, JoinTail
  <2> QED BY <2>1, <2>3, <1>6, <1>13 DEF Owned
<1>14. CASE t = "ndis" /\ f = "data" /\ a \in Owned
  <2>1. ASSUME NEW h, NEW r, NdisAt(h, r) PROVE h = a /\ NdisAt(b, r)' /\ Calm(r)
    <3>1. h = a /\ f_todo'[t] = Part(b, f) \o r /\ b \in Owned \cup {"none"} /\ Calm(r)
      BY <2>1, <1>13, <1>14, NdisCalm DEF Owner
    <3> QED BY <3>1, <2>1, <1>1, <1>14 DEF NdisAt
  <2>2. PICK h, r : NdisAt(h, r)
    BY DEF ShapeInv
  <2>3. f_todo'[t] = Part(b, f) \o r /\ Calm(r) /\ b \in Owned \cup {"none"}
    BY <2>1, <2>2, <1>14 DEF NdisAt
  <2>4. \A g \in {"data", "binding"} : Doing(t, g)' = IF f = g THEN b ELSE "none"
    BY <2>3, <1>14, AboutPart DEF Doing
  <2>5. Doing(t, "binding") = "none"
    BY <2>2, <1>14, NdisCalm
  <2>6. Goes(t, f, a, b)
    BY <1>1, <1>6, <1>7, <2>1, <2>4, <2>5, <1>14, KindIs DEF Goes, Owner
  <2>7. ShapeInv'
    BY <1>8, <1>9, <1>10, <1>12, <2>1, <2>2, <1>14 DEF ShapeInv
  <2> QED BY <2>6, <2>7, <1>6, <1>8, <1>14
<1>15. CASE t = "vf" /\ f = "binding" /\ a \in Owned
  <2>1. ASSUME NEW h, NEW r, VfAt(h, r) PROVE h = a /\ VfAt(b, r)' /\ Calm(r)
    <3>1. h = a /\ f_todo'[t] = Part(b, f) \o r /\ b \in Owned \cup {"none"} /\ Calm(r)
      BY <2>1, <1>13, <1>15, VfCalm DEF Owner
    <3>a. t = Owner(f)
      BY <1>15 DEF Owner
    <3>2. \/ b = "none"
          \/ a \in Starts /\ b \in Starts
          \/ a \in {"stop"} \cup Stops /\ b \in Stops
      BY <3>a, Zenon
    <3>3. a \in Starts => a \notin {"none", "stop"} \cup Stops
      BY DEF Starts, Stops, Completes
    <3>4. a # "none"
      BY <1>1
    <3> QED BY <3>1, <3>2, <3>3, <3>4, <2>1, <1>15 DEF VfAt
  <2>2. PICK h, r : VfAt(h, r)
    BY DEF ShapeInv
  <2>3. f_todo'[t] = Part(b, f) \o r /\ Calm(r) /\ b \in Owned \cup {"none"}
    BY <2>1, <2>2, <1>15, <1>13, VfCalm DEF Owner
  <2>4. \A g \in {"data", "binding"} : Doing(t, g)' = IF f = g THEN b ELSE "none"
    BY <2>3, <1>15, AboutPart DEF Doing
  <2>5. Doing(t, "data") = "none"
    BY <2>2, <1>15, VfCalm
  <2>6. Goes(t, f, a, b)
    BY <1>1, <1>6, <1>7, <2>1, <2>4, <2>5, <1>15, KindIs DEF Goes, Owner
  <2>7. ShapeInv'
    BY <1>8, <1>9, <1>10, <1>11, <2>1, <2>2, <1>15 DEF ShapeInv
  <2> QED BY <2>6, <2>7, <1>6, <1>8, <1>15
<1>16. CASE t \in FlowUsers /\ a \in Shared
  <2>1. f_todo[t] = UserPart(a, f)
    BY <1>1, <1>16, UserDoing DEF ShapeInv
  <2>2. f_todo'[t] = UserPart(b, f) /\ b \in (Shared \ {"addref"}) \cup {"none"}
    BY <2>1, <1>6, <1>16
  <2>3. \A g : Doing(t, g)' = IF f = g THEN b ELSE "none"
    BY <2>2, AboutUser DEF Doing
  <2>4. \A g : Doing(t, g) = IF f = g THEN a ELSE "none"
    BY <2>1, <1>16, AboutUser DEF Doing
  <2>5. Goes(t, f, a, b)
    BY <1>6, <1>7, <1>8, <1>16, <2>3, <2>4 DEF Goes
  <2>6. UserAt(t)'
    BY <2>2, AboutUser, UserNext DEF UserAt
  <2>7. ShapeInv'
    BY <1>8, <1>9, <1>10, <1>11, <1>12, <2>6, <1>16 DEF ShapeInv
  <2> QED BY <2>5, <2>7, <1>6, <1>8, <1>16, KindIs
<1> QED BY <1>2, <1>8, <1>14, <1>15, <1>16 DEF Owner
-----------------------------------------------------------------------------
(* The steps at a flow, from what to what.                                 *)
Back(t, f) == IF t = Owner(f) THEN "wait" ELSE "none"
Gone(t, f, a, b) ==
  Goes(t, f, a, b) /\ ShapeInv' /\ f_todo' \in [Flow!Threads -> Seq(Record)]

LEMMA ActsAre == /\ Acts = {"start", "running", "unmask", "stop", "clear", "mask", "release",
                            "wait", "check", "stopped", "notify", "addref"}
                 /\ "addref" \notin Owned
                 /\ {"stop", "clear", "mask", "wait", "start", "running", "unmask"} \cap Shared = {}
                 /\ Stops = {"clear", "mask", "release", "wait", "check", "stopped", "notify"}
BY DEF Acts, Owned, Starts, Stops, Completes, Shared

LEMMA OpsAre ==
  ASSUME FlowThreads, NEW f \in FlowKinds
  PROVE  /\ << >> \in Seq(Record) /\ << Flow!Op("release", f) >> \in Seq(Record)
         /\ << Flow!Op("check", f) >> \in Seq(Record)
         /\ << Flow!Op("stopped", f), Flow!Op("notify", f) >> \in Seq(Record)
         /\ << Flow!Op("running", f), Flow!Op("unmask", f) >> \in Seq(Record)
         /\ << Flow!Op("clear", f), Flow!Op("mask", f), Flow!Op("release", f),
               Flow!Op("wait", f) >> \in Seq(Record)
<1>1. \A h \in Acts : Flow!Op(h, f) \in Record
  BY KindIs DEF Flow!Op, Record
<1> QED BY <1>1, ActsAre

LEMMA AtOwner ==
  ASSUME FlowThreads, ShapeInv, NEW t \in Flow!Threads, NEW f \in FlowKinds, NEW a \in Acts,
         Flow!At(t, a, f)
  PROVE  /\ Doing(t, f) = a
         /\ (t = Owner(f) /\ a \in Owned) \/ (t \in FlowUsers /\ a \in Shared)
<1>1. Doing(t, f) = a /\ Doing(t, f) # "none"
  BY AtDoing, ActsAre
<1>2. \/ t = Owner(f) /\ Doing(t, f) \in Owned
      \/ t \in FlowUsers /\ Doing(t, f) \in Shared
  BY <1>1, WhoDoes
<1> QED BY <1>1, <1>2, Zenon

LEMMA AddRefGoes ==
  ASSUME FlowThreads, FlowType, ShapeInv, NEW t \in Flow!Threads, NEW f \in FlowKinds,
         Flow!AddRef(t, f)
  PROVE  /\ t \in FlowUsers
         /\ \E b \in {"release", "none"} :
              Gone(t, f, "addref", b) /\ (f_masked[f] => b = "release")
<1>1. Flow!At(t, "addref", f) /\ "addref" \in Acts
  BY ActsAre DEF Flow!AddRef
<1>2. t \in FlowUsers /\ t # Owner(f)
  BY <1>1, AtOwner, ActsAre, KindIs
<1>7. {"release", "none"} \subseteq (Shared \ {"addref"}) \cup {"none"} /\ "addref" \in Acts
  BY ActsAre DEF Shared
<1>3. \A u \in FlowUsers \ {t}, g \in FlowKinds : u \in f_held'[g] => u \in f_held[g]
  BY DEF Flow!AddRef, FlowType
<1>4. \/ Flow!Then(t, << Flow!Op("release", f) >>)
      \/ ~f_masked[f] /\ Flow!Then(t, << >>)
  BY DEF Flow!AddRef, Flow!When
<1>5. CASE Flow!Then(t, << Flow!Op("release", f) >>)
  <2>1. << Flow!Op("release", f) >> \in Seq(Record)
    BY OpsAre
  <2>2. << Flow!Op("release", f) >> \o Tail(UserPart("addref", f)) = UserPart("release", f)
    BY UserNext
  <2>3. Gone(t, f, "addref", "release")
    BY <1>1, <1>2, <1>3, <1>5, <1>7, <2>1, <2>2, Going DEF Gone
  <2> QED BY <1>2, <2>3
<1>6. CASE ~f_masked[f] /\ Flow!Then(t, << >>)
  <2>1. << >> \in Seq(Record)
    OBVIOUS
  <2>2. << >> \o Tail(UserPart("addref", f)) = UserPart("none", f)
    BY UserNext
  <2>3. Gone(t, f, "addref", "none")
    BY <1>1, <1>2, <1>3, <1>6, <1>7, <2>1, <2>2, Going DEF Gone
  <2> QED BY <1>2, <1>6, <2>3
<1> QED BY <1>4, <1>5, <1>6

(* Of a thread that completes or releases.                                 *)
LEMMA SharedGoes ==
  ASSUME FlowThreads, FlowType, ShapeInv, NEW t \in Flow!Threads, NEW f \in FlowKinds,
         NEW a \in {"release", "check", "stopped", "notify"}, Flow!At(t, a, f),
         NEW b \in {"check", "stopped", "notify", Back(t, f)},
         NEW x \in Seq(Record), Flow!Then(t, x),
         t = Owner(f) => x \o Tail(Part(a, f)) = Part(b, f),
         t # Owner(f) => x \o Tail(UserPart(a, f)) = UserPart(b, f),
         \A u \in FlowUsers \ {t}, g \in FlowKinds : u \in f_held'[g] => u \in f_held[g]
  PROVE  Gone(t, f, a, b) /\ t \in {Owner(f)} \cup FlowUsers
<1>1. a \in Acts /\ a \in {"stop"} \cup Stops
  BY ActsAre
<1>2. t \in {Owner(f)} \cup FlowUsers /\ Owner(f) \notin FlowUsers
  BY <1>1, AtOwner, KindIs
<1>3. t = Owner(f) => b \in Stops
  BY ActsAre DEF Back
<1>4. t \in FlowUsers => b \in (Shared \ {"addref"}) \cup {"none"}
  BY <1>2 DEF Back, Shared, Completes
<1> QED BY <1>1, <1>2, <1>3, <1>4, Going DEF Gone

LEMMA ReleaseGoes ==
  ASSUME FlowThreads, FlowType, ShapeInv, NEW t \in Flow!Threads, NEW f \in FlowKinds,
         Flow!Release(t, f)
  PROVE  \/ f_masked[f] /\ f_count'[f] = 0 /\ Gone(t, f, "release", "check")
         \/ ~(f_masked[f] /\ f_count'[f] = 0) /\ Gone(t, f, "release", Back(t, f))
<1>1. Flow!At(t, "release", f)
  BY DEF Flow!Release
<1>2. \A u \in FlowUsers \ {t}, g \in FlowKinds : u \in f_held'[g] => u \in f_held[g]
  BY DEF Flow!Release, FlowType
<1>3. CASE f_masked[f] /\ f_count'[f] = 0
  <2>1. Flow!Then(t, << Flow!Op("check", f) >>)
    BY <1>3 DEF Flow!Release, Flow!CheckCompletion, Flow!When
  <2>2. << Flow!Op("check", f) >> \in Seq(Record)
    BY OpsAre
  <2>3. /\ << Flow!Op("check", f) >> \o Tail(Part("release", f)) = Part("check", f)
        /\ << Flow!Op("check", f) >> \o Tail(UserPart("release", f)) = UserPart("check", f)
    BY PartNext, UserNext
  <2> QED BY <1>1, <1>2, <1>3, <2>1, <2>2, <2>3, SharedGoes
<1>4. CASE ~(f_masked[f] /\ f_count'[f] = 0)
  <2>1. Flow!Then(t, << >>)
    BY <1>4 DEF Flow!Release, Flow!CheckCompletion, Flow!When
  <2>2. << >> \in Seq(Record)
    OBVIOUS
  <2>3. /\ << >> \o Tail(Part("release", f)) = Part("wait", f)
        /\ << >> \o Tail(UserPart("release", f)) = UserPart("none", f)
    BY PartNext, UserNext
  <2>4. /\ t = Owner(f) => << >> \o Tail(Part("release", f)) = Part(Back(t, f), f)
        /\ t # Owner(f) => << >> \o Tail(UserPart("release", f)) = UserPart(Back(t, f), f)
    BY <2>3 DEF Back
  <2>5. Gone(t, f, "release", Back(t, f))
    BY <1>1, <1>2, <2>1, <2>2, <2>4, SharedGoes
  <2> QED BY <1>4, <2>5
<1> QED BY <1>3, <1>4

LEMMA CompleteGoes ==
  ASSUME FlowThreads, FlowType, ShapeInv, NEW t \in Flow!Threads, NEW f \in FlowKinds,
         Flow!CompleteStopping(t, f)
  PROVE  \/ /\ Flow!At(t, "check", f) /\ UNCHANGED << f_State, f_event >>
            /\ Gone(t, f, "check", IF f_State[f] = "Stopping" THEN "stopped" ELSE Back(t, f))
         \/ /\ f_State' = [f_State EXCEPT ![f] = "Stopped"] /\ UNCHANGED f_event
            /\ Gone(t, f, "stopped", "notify")
         \/ /\ f_event' = [f_event EXCEPT ![f] = TRUE] /\ UNCHANGED f_State
            /\ Gone(t, f, "notify", Back(t, f))
<1>1. \A u \in FlowUsers \ {t}, g \in FlowKinds : u \in f_held'[g] => u \in f_held[g]
  BY DEF Flow!CompleteStopping
<1>2. << >> \in Seq(Record) /\ << Flow!Op("stopped", f), Flow!Op("notify", f) >> \in Seq(Record)
  BY OpsAre
<1>3. CASE Flow!At(t, "check", f) /\ UNCHANGED << f_State, f_event >>
             /\ Flow!Then(t, Flow!When(f_State[f] = "Stopping",
                                       << Flow!Op("stopped", f), Flow!Op("notify", f) >>))
  <2>1. CASE f_State[f] = "Stopping"
    <3>1. Flow!Then(t, << Flow!Op("stopped", f), Flow!Op("notify", f) >>)
      BY <1>3, <2>1 DEF Flow!When
    <3>2. /\ << Flow!Op("stopped", f), Flow!Op("notify", f) >> \o Tail(Part("check", f)) =
               Part("stopped", f)
          /\ << Flow!Op("stopped", f), Flow!Op("notify", f) >> \o Tail(UserPart("check", f)) =
               UserPart("stopped", f)
      BY PartNext, UserNext
    <3>3. Gone(t, f, "check", "stopped")
      BY <1>1, <1>2, <1>3, <3>1, <3>2, SharedGoes
    <3> QED BY <1>3, <2>1, <3>3
  <2>2. CASE f_State[f] # "Stopping"
    <3>1. Flow!Then(t, << >>)
      BY <1>3, <2>2 DEF Flow!When
    <3>2. /\ << >> \o Tail(Part("check", f)) = Part("wait", f)
          /\ << >> \o Tail(UserPart("check", f)) = UserPart("none", f)
      BY PartNext, UserNext
    <3>3. /\ t = Owner(f) => << >> \o Tail(Part("check", f)) = Part(Back(t, f), f)
          /\ t # Owner(f) => << >> \o Tail(UserPart("check", f)) = UserPart(Back(t, f), f)
      BY <3>2 DEF Back
    <3>4. Gone(t, f, "check", Back(t, f))
      BY <1>1, <1>2, <1>3, <3>1, <3>3, SharedGoes
    <3> QED BY <1>3, <2>2, <3>4
  <2> QED BY <2>1, <2>2
<1>4. CASE /\ Flow!At(t, "stopped", f) /\ f_State' = [f_State EXCEPT ![f] = "Stopped"]
           /\ Flow!Then(t, << >>) /\ UNCHANGED f_event
  <2>1. /\ << >> \o Tail(Part("stopped", f)) = Part("notify", f)
        /\ << >> \o Tail(UserPart("stopped", f)) = UserPart("notify", f)
    BY PartNext, UserNext
  <2>2. Gone(t, f, "stopped", "notify")
    BY <1>1, <1>2, <1>4, <2>1, SharedGoes
  <2> QED BY <1>4, <2>2
<1>5. CASE /\ Flow!At(t, "notify", f) /\ Flow!Then(t, << >>) /\ UNCHANGED f_State
           /\ f_event' = [f_event EXCEPT ![f] = TRUE]
  <2>1. /\ << >> \o Tail(Part("notify", f)) = Part("wait", f)
        /\ << >> \o Tail(UserPart("notify", f)) = UserPart("none", f)
    BY PartNext, UserNext
  <2>2. /\ t = Owner(f) => << >> \o Tail(Part("notify", f)) = Part(Back(t, f), f)
        /\ t # Owner(f) => << >> \o Tail(UserPart("notify", f)) = UserPart(Back(t, f), f)
    BY <2>1 DEF Back
  <2>3. Gone(t, f, "notify", Back(t, f))
    BY <1>1, <1>2, <1>5, <2>2, SharedGoes
  <2> QED BY <1>5, <2>3
<1> QED BY <1>3, <1>4, <1>5 DEF Flow!CompleteStopping

(* Of the owner.                                                           *)
LEMMA OwnerGoes ==
  ASSUME FlowThreads, FlowType, ShapeInv, NEW t \in Flow!Threads, NEW f \in FlowKinds,
         NEW a \in {"stop", "clear", "mask", "wait", "start", "running", "unmask"},
         Flow!At(t, a, f), NEW x \in Seq(Record), Flow!Then(t, x), UNCHANGED f_held
  PROVE  /\ t = Owner(f)
         /\ \A b \in {"none", "clear", "mask", "release"} :
              a \in {"stop", "clear", "mask", "wait"} /\ x \o Tail(Part(a, f)) = Part(b, f) =>
                Gone(t, f, a, b)
         /\ \A b \in {"none", "running", "unmask"} :
              a \in {"start", "running", "unmask"} /\ x \o Tail(Part(a, f)) = Part(b, f) =>
                Gone(t, f, a, b)
<1>1. a \in Acts /\ a \notin Shared
  BY ActsAre
<1>2. t = Owner(f) /\ Owner(f) \notin FlowUsers
  BY <1>1, AtOwner, KindIs
<1>3. ASSUME NEW b \in {"none", "clear", "mask", "release"},
             a \in {"stop", "clear", "mask", "wait"}, x \o Tail(Part(a, f)) = Part(b, f)
      PROVE  Gone(t, f, a, b)
  <2>1. a \in {"stop"} \cup Stops /\ (b = "none" \/ b \in Stops)
    BY <1>3 DEF Stops
  <2> QED BY <1>1, <1>2, <1>3, <2>1, Going DEF Gone
<1>4. ASSUME NEW b \in {"none", "running", "unmask"},
             a \in {"start", "running", "unmask"}, x \o Tail(Part(a, f)) = Part(b, f)
      PROVE  Gone(t, f, a, b)
  <2>1. a \in Starts /\ (b = "none" \/ b \in Starts)
    BY <1>4 DEF Starts
  <2> QED BY <1>1, <1>2, <1>4, <2>1, Going DEF Gone
<1> QED BY <1>2, <1>3, <1>4
-----------------------------------------------------------------------------
(* A list that is given anew: a user's, the owners'.                       *)
Others(t) ==
  /\ f_todo' \in [Flow!Threads -> Seq(Record)]
  /\ \A u \in Flow!Threads \ {t} : \A g : Doing(u, g)' = Doing(u, g)
  /\ ShapeInv'

LEMMA NewList ==
  ASSUME FlowThreads, FlowType, ShapeInv, UNCHANGED f_held, NEW t \in Flow!Threads, NEW s \in Seq(Record),
         f_todo' = [f_todo EXCEPT ![t] = s],
         t \in FlowUsers => UserAt(t)',
         t = "vf" => \E h, r : VfAt(h, r)',
         t = "ndis" => \E h, r : NdisAt(h, r)',
         t = "cx" => s = << >> \/ s = << Flow!Op("needs_reset", "cx") >>
  PROVE  Others(t) /\ f_todo'[t] = s
<1>1. /\ f_todo' \in [Flow!Threads -> Seq(Record)] /\ f_todo'[t] = s
      /\ \A u \in Flow!Threads \ {t} : f_todo'[u] = f_todo[u]
  BY DEF FlowType
<1>2. \A u \in Flow!Threads \ {t} : \A g : Doing(u, g)' = Doing(u, g)
  BY <1>1 DEF Doing
<1>3. \A u \in FlowUsers : UserAt(u)'
  <2>1. SUFFICES ASSUME NEW u \in FlowUsers, u # t PROVE UserAt(u)'
    OBVIOUS
  <2>2. f_todo'[u] = f_todo[u] /\ UserAt(u)
    BY <1>1, <2>1 DEF Flow!Threads, ShapeInv
  <2> QED BY <2>2 DEF UserAt
<1>4. t # "cx" => f_todo'["cx"] = f_todo["cx"]
  BY <1>1 DEF Flow!Threads
<1>5. ASSUME t # "ndis" PROVE \E h, r : NdisAt(h, r)'
  <2>1. PICK h, r : NdisAt(h, r)
    BY DEF ShapeInv
  <2>2. NdisAt(h, r)'
    BY <1>1, <1>5, <2>1 DEF NdisAt, Flow!Threads
  <2> QED BY <2>2
<1>6. ASSUME t # "vf" PROVE \E h, r : VfAt(h, r)'
  <2>1. PICK h, r : VfAt(h, r)
    BY DEF ShapeInv
  <2>2. VfAt(h, r)'
    BY <1>1, <1>6, <2>1 DEF VfAt, Flow!Threads
  <2> QED BY <2>2
<1>7. f_todo'["cx"] = << >> \/ f_todo'["cx"] = << Flow!Op("needs_reset", "cx") >>
  BY <1>1, <1>4 DEF ShapeInv
<1>8. ShapeInv'
  BY <1>3, <1>5, <1>6, <1>7 DEF ShapeInv
<1> QED BY <1>1, <1>2, <1>8 DEF Others

LEMMA UserList ==
  ASSUME FlowThreads, FlowType, ShapeInv, UNCHANGED f_held, NEW t \in FlowUsers, NEW f \in FlowKinds,
         NEW h \in {"addref", "release"}, h = "addref" => t \notin f_held[f], f_todo[t] = << >>,
         f_todo' = [f_todo EXCEPT ![t] = << Flow!Op(h, f) >>]
  PROVE  /\ Others(t) /\ \A g : Doing(t, g) = "none"
         /\ \A g : Doing(t, g)' = IF f = g THEN h ELSE "none"
<1>1. h \in Shared \cup {"none"} /\ h \in Shared /\ t \in Flow!Threads
  BY DEF Shared, Flow!Threads
<1>2. UserPart(h, f) = << Flow!Op(h, f) >>
  BY DEF UserPart
<1>3. << Flow!Op(h, f) >> \in Seq(Record) /\ \A g : About(<< Flow!Op(h, f) >>, g) = IF f = g THEN h ELSE "none"
  BY <1>1, <1>2, AboutUser
<1>4. f_todo'[t] = << Flow!Op(h, f) >>
  BY <1>1 DEF FlowType
<1>5. UserAt(t)'
  BY <1>1, <1>2, <1>4 DEF UserAt
<1>6. t \notin {"vf", "ndis", "cx"}
  BY DEF FlowThreads
<1>7. Others(t)
  BY <1>1, <1>3, <1>5, <1>6, NewList
<1> QED BY <1>3, <1>4, <1>7 DEF Doing, About

LEMMA VfList ==
  ASSUME FlowThreads, FlowType, ShapeInv, UNCHANGED f_held, NEW h, NEW r,
         \/ r = << >> /\ h \in {"start", "none"}
         \/ r = NullFlow /\ h = "stop"
         \/ r = Flow!Set /\ h = "none",
         "binding" \in FlowKinds,
         f_todo' = [f_todo EXCEPT !["vf"] = Part(h, "binding") \o r]
  PROVE  /\ Others("vf") /\ VfAt(h, r)'
         /\ Doing("vf", "binding")' = h /\ Doing("vf", "data")' = "none"
<1>1. "vf" \in Flow!Threads /\ "vf" \notin FlowUsers
  BY DEF FlowThreads, Flow!Threads
<1>2. f_todo'["vf"] = Part(h, "binding") \o r
  BY <1>1 DEF FlowType
<1>3. VfAt(h, r)'
  BY <1>2 DEF VfAt, Starts
<1>4. /\ Calm(r) /\ h \in Owned \cup {"none"}
      /\ Doing("vf", "binding")' = h /\ Doing("vf", "data")' = "none"
  <2>1. \A k \in {"set", "null", "start"} : Flow!Op(k, "binding") \in Record
    BY DEF Flow!Op, Record, Acts, Owned, Starts
  <2>2. /\ NullFlow \in Seq(Record) /\ Head(NullFlow).op = "null"
        /\ Flow!Set \in Seq(Record) /\ Head(Flow!Set).op = "set"
    BY <2>1, OpIs DEF NullFlow, Flow!Set
  <2>3. << >> \in Seq(Record)
    OBVIOUS
  <2>4. Calm(r) /\ h \in Owned \cup {"none"}
    BY <2>2, <2>3 DEF Calm, Owned, Starts
  <2>5. /\ About(Part(h, "binding") \o r, "binding") = h
        /\ About(Part(h, "binding") \o r, "data") = "none"
    BY <2>4, AboutPart
  <2> QED BY <2>4, <2>5, <1>2, Zenon DEF Doing
<1>5. Part(h, "binding") \o r \in Seq(Record)
  BY <1>4, AboutPart
<1>6. Others("vf")
  BY <1>1, <1>3, <1>5, NewList
<1> QED BY <1>3, <1>4, <1>6

LEMMA NdisList ==
  ASSUME FlowThreads, FlowType, ShapeInv, UNCHANGED f_held, NEW h \in {"none", "start", "stop"},
         NEW r \in Seq(MpRecord), FlowOps # {},
         f_todo' = [f_todo EXCEPT !["ndis"] = Part(h, "data") \o r]
  PROVE  /\ Others("ndis") /\ NdisAt(h, r)'
         /\ Doing("ndis", "data")' = h /\ Doing("ndis", "binding")' = "none"
<1>1. "ndis" \in Flow!Threads /\ "ndis" \notin FlowUsers /\ "data" \in FlowKinds
  BY DEF FlowThreads, Flow!Threads
<1>2. f_todo'["ndis"] = Part(h, "data") \o r
  BY <1>1 DEF FlowType
<1>3. h \in Owned \cup {"none"}
  BY DEF Owned, Starts
<1>4. NdisAt(h, r)'
  BY <1>1, <1>2, <1>3 DEF NdisAt
<1>5. r \in Seq(Record) /\ (r # << >> => Head(r).f = "mp")
  BY MpCalm
<1>6. Calm(r)
  BY <1>5, Zenon DEF Calm
<1>7. /\ Part(h, "data") \o r \in Seq(Record)
      /\ Doing("ndis", "binding")' = "none" /\ Doing("ndis", "data")' = h
  <2>1. /\ Part(h, "data") \o r \in Seq(Record)
        /\ About(Part(h, "data") \o r, "binding") = "none"
        /\ About(Part(h, "data") \o r, "data") = h
    BY <1>3, <1>6, AboutPart
  <2> QED BY <2>1, <1>2, Zenon DEF Doing
<1>8. Others("ndis")
  BY <1>1, <1>4, <1>7, NewList
<1> QED BY <1>4, <1>7, <1>8

LEMMA CxList ==
  ASSUME FlowThreads, FlowType, ShapeInv, UNCHANGED f_held, NEW s,
         s = << >> \/ s = << Flow!Op("needs_reset", "cx") >>,
         f_todo' = [f_todo EXCEPT !["cx"] = s]
  PROVE  Others("cx") /\ f_todo'["cx"] = s
<1>1. "cx" \in Flow!Threads /\ "cx" \notin FlowUsers
  BY DEF FlowThreads, Flow!Threads
<1>2. Flow!Op("needs_reset", "cx") \in Record
  BY DEF Flow!Op, Record
<1>3. << >> \in Seq(Record) /\ << Flow!Op("needs_reset", "cx") >> \in Seq(Record)
  BY <1>2
<1> QED BY <1>1, <1>3, NewList

(* An operation of the miniport at the head of NDIS's list.                *)
LEMMA NdisHead ==
  ASSUME FlowThreads, NEW h, NEW r, NdisAt(h, r), NEW op, Flow!At("ndis", op, "mp")
  PROVE  /\ h = "none" /\ r = f_todo["ndis"] /\ r # << >> /\ Head(r) = Flow!Op(op, "mp")
         /\ r \in Seq(MpRecord) /\ Tail(r) \in Seq(MpRecord) /\ FlowOps # {}
<1>1. r \in Seq(MpRecord) /\ f_todo["ndis"] = Part(h, "data") \o r /\ h \in Owned \cup {"none"}
  BY DEF NdisAt
<1>2. f_todo["ndis"] # << >> /\ Head(f_todo["ndis"]) = Flow!Op(op, "mp")
  BY DEF Flow!At
<1>3. h = "none"
  <2>1. ASSUME h \in Owned PROVE FALSE
    <3>1. Part(h, "data") \in Seq(Record) /\ Part(h, "data") # << >>
          /\ Head(Part(h, "data")) = Flow!Op(h, "data")
      BY <2>1, PartIs
    <3>2. Head(f_todo["ndis"]) = Flow!Op(h, "data")
      BY <1>1, <3>1, MpCalm, JoinTail
    <3> QED BY <1>2, <3>2, OpIs
  <2> QED BY <1>1, <2>1
<1>4. Part("none", "data") \o r = r
  BY <1>1, PartNone
<1>5. r = f_todo["ndis"]
  BY <1>1, <1>3, <1>4
<1>6. r # << >> /\ Head(r) = Flow!Op(op, "mp") /\ FlowOps # {}
  BY <1>2, <1>5 DEF NdisAt
<1> QED BY <1>1, <1>3, <1>5, <1>6
-----------------------------------------------------------------------------
(* What holds of a flow of which no stop was completed too late.           *)
IsOut(t, f) ==
  /\ t \notin f_held[f]
  /\ Doing(t, f) = "release" \/ (t = Owner(f) /\ Doing(t, f) \in {"clear", "mask"})
Outs(f)  == {t \in Flow!Threads : IsOut(t, f)}
Mine(f)  == IF f_State[f] = "Running" \/ Doing(Owner(f), f) = "running" THEN 1 ELSE 0

StateAt(f) ==
  LET h == Doing(Owner(f), f)
      s == f_State[f] IN
  /\ s = "Stopped" => f_held[f] = {}
  /\ h = "running" => s = "Stopped"
  /\ h = "unmask" => s = "Running"
  /\ h \in {"clear", "mask", "release"} => s = "Stopping"
  /\ s = "Stopping" => h \in Stops
  /\ s = "Running" => h \notin Stops
  /\ f_masked[f] <=> (s = "Stopped" \/ h = "unmask" \/ (s = "Stopping" /\ h \notin {"clear", "mask"}))
  /\ h \in Stops \ {"clear"} /\ f_event[f] => s = "Stopped"
EndAt(f) ==
  \A u \in Flow!Threads : Doing(u, f) \in Completes =>
    /\ f_masked[f] /\ f_held[f] = {} /\ f_State[f] # "Running"
    /\ Doing(Owner(f), f) \notin {"running", "unmask", "clear", "mask", "release"}
    /\ Doing(u, f) = "notify" => f_State[f] = "Stopped"
CountAt(f) == f_count[f] = Cardinality(f_held[f]) + Cardinality(Outs(f)) + Mine(f)
FlowAt(f)  == ~f_late[f] => StateAt(f) /\ EndAt(f) /\ CountAt(f)

LEMMA OneMember ==
  ASSUME NEW S, NEW T, NEW t, IsFiniteSet(S), \A u : u # t => (u \in S <=> u \in T)
  PROVE  /\ IsFiniteSet(T) /\ Cardinality(S) \in Nat /\ Cardinality(T) \in Nat
         /\ t \in T /\ t \notin S => Cardinality(T) = Cardinality(S) + 1
         /\ t \notin T /\ t \in S => Cardinality(T) = Cardinality(S) - 1
         /\ (t \in T <=> t \in S) => Cardinality(T) = Cardinality(S)
         /\ Cardinality(T) = 0 => T = {}
<1>1. CASE t \in T
  <2>1. T = S \cup {t}
    BY <1>1
  <2>2. /\ IsFiniteSet(S \cup {t})
        /\ Cardinality(S \cup {t}) = IF t \in S THEN Cardinality(S) ELSE Cardinality(S) + 1
    BY FS_AddElement
  <2>3. Cardinality(S) \in Nat /\ Cardinality(S \cup {t}) \in Nat
    BY <2>2, FS_CardinalityType
  <2>4. Cardinality(S \cup {t}) = 0 => S \cup {t} = {}
    BY <2>2, FS_EmptySet
  <2> QED BY <1>1, <2>1, <2>2, <2>3, <2>4
<1>2. CASE t \notin T
  <2>1. T = S \ {t}
    BY <1>2
  <2>2. /\ IsFiniteSet(S \ {t})
        /\ Cardinality(S \ {t}) = IF t \in S THEN Cardinality(S) - 1 ELSE Cardinality(S)
    BY FS_RemoveElement
  <2>3. Cardinality(S) \in Nat /\ Cardinality(S \ {t}) \in Nat
    BY <2>2, FS_CardinalityType
  <2>4. Cardinality(S \ {t}) = 0 => S \ {t} = {}
    BY <2>2, FS_EmptySet
  <2> QED BY <1>2, <2>1, <2>2, <2>3, <2>4
<1> QED BY <1>1, <1>2

LEMMA FiniteAt ==
  ASSUME FlowThreads, FlowType, NEW f \in FlowKinds
  PROVE  IsFiniteSet(f_held[f]) /\ IsFiniteSet(Outs(f)) /\ IsFiniteSet(Flow!Threads)
<1>1. IsFiniteSet(FlowUsers)
  BY DEF FlowThreads
<1>2. /\ IsFiniteSet({"ndis"}) /\ {"ndis", "vf"} = {"ndis"} \cup {"vf"}
      /\ {"ndis", "vf", "cx"} = {"ndis", "vf"} \cup {"cx"}
  BY FS_Singleton
<1>3. IsFiniteSet({"ndis", "vf", "cx"})
  <2>1. IsFiniteSet({"ndis"} \cup {"vf"})
    BY <1>2, FS_AddElement
  <2>2. IsFiniteSet({"ndis", "vf"} \cup {"cx"})
    BY <1>2, <2>1, FS_AddElement
  <2> QED BY <1>2, <2>2
<1>4. IsFiniteSet(Flow!Threads)
  BY <1>1, <1>3, FS_Union DEF Flow!Threads
<1>5. f_held[f] \in SUBSET FlowUsers /\ Outs(f) \in SUBSET Flow!Threads
  BY DEF FlowType, Outs
<1> QED BY <1>1, <1>4, <1>5, FS_Subset

(* The counter's two parts, when one thread moves.                         *)
LEMMA Counting ==
  ASSUME FlowThreads, FlowType, NEW t \in Flow!Threads, NEW f \in FlowKinds,
         \A u \in Flow!Threads \ {t} : Doing(u, f)' = Doing(u, f),
         \A u : u # t => (u \in f_held'[f] <=> u \in f_held[f])
  PROVE  /\ Cardinality(f_held[f]) \in Nat /\ Cardinality(f_held'[f]) \in Nat
         /\ Cardinality(Outs(f)) \in Nat /\ Cardinality(Outs(f)') \in Nat
         /\ t \in f_held'[f] /\ t \notin f_held[f] =>
              Cardinality(f_held'[f]) = Cardinality(f_held[f]) + 1
         /\ t \notin f_held'[f] /\ t \in f_held[f] =>
              Cardinality(f_held'[f]) = Cardinality(f_held[f]) - 1
         /\ (t \in f_held'[f] <=> t \in f_held[f]) =>
              Cardinality(f_held'[f]) = Cardinality(f_held[f])
         /\ IsOut(t, f)' /\ ~IsOut(t, f) => Cardinality(Outs(f)') = Cardinality(Outs(f)) + 1
         /\ ~IsOut(t, f)' /\ IsOut(t, f) => Cardinality(Outs(f)') = Cardinality(Outs(f)) - 1
         /\ (IsOut(t, f)' <=> IsOut(t, f)) => Cardinality(Outs(f)') = Cardinality(Outs(f))
         /\ Cardinality(f_held'[f]) = 0 => f_held'[f] = {}
         /\ Cardinality(Outs(f)') = 0 => Outs(f)' = {}
<1>1. IsFiniteSet(f_held[f]) /\ IsFiniteSet(Outs(f))
  BY FiniteAt
<1>2. \A u \in Flow!Threads \ {t} : IsOut(u, f)' <=> IsOut(u, f)
  BY DEF IsOut
<1>3. \A u : u # t => (u \in Outs(f)' <=> u \in Outs(f))
  BY <1>2 DEF Outs
<1>4. (t \in Outs(f) <=> IsOut(t, f)) /\ (t \in Outs(f)' <=> IsOut(t, f)')
  BY DEF Outs
<1> QED BY <1>1, <1>3, <1>4, OneMember

(* A step that is not of this flow.                                        *)
LEMMA OtherFlow ==
  ASSUME FlowThreads, NEW f \in FlowKinds, FlowAt(f),
         f_State'[f] = f_State[f], f_count'[f] = f_count[f], f_masked'[f] = f_masked[f],
         f_event'[f] = f_event[f], f_held'[f] = f_held[f], f_late'[f] = f_late[f],
         \A u \in Flow!Threads : Doing(u, f)' = Doing(u, f)
  PROVE  FlowAt(f)'
<1>1. Owner(f) \in Flow!Threads
  BY DEF Owner, Flow!Threads
<1>2. \A u \in Flow!Threads : IsOut(u, f)' <=> IsOut(u, f)
  BY DEF IsOut
<1>3. Outs(f)' = Outs(f)
  BY <1>2 DEF Outs
<1> QED BY <1>1, <1>3 DEF FlowAt, StateAt, EndAt, CountAt, Mine

(* What a step from a to b leaves of the flow's own threads.               *)
LEMMA Goer ==
  ASSUME FlowThreads, NEW t \in Flow!Threads, NEW f \in FlowKinds, NEW a, NEW b, Gone(t, f, a, b)
  PROVE  /\ Doing(t, f) = a /\ Doing(t, f)' = b /\ Owner(f) \in Flow!Threads
         /\ \A u \in Flow!Threads \ {t} : Doing(u, f)' = Doing(u, f)
         /\ t = Owner(f) \/ (t # Owner(f) /\ t \in FlowUsers)
         /\ t # Owner(f) => Doing(Owner(f), f)' = Doing(Owner(f), f)
<1>1. Owner(f) \in Flow!Threads /\ Owner(f) \notin FlowUsers
  BY KindIs DEF Owner, Flow!Threads
<1> QED BY <1>1 DEF Gone, Goes

LEMMA NotYetHeld ==
  ASSUME FlowThreads, ShapeInv, NEW t \in FlowUsers, NEW f \in FlowKinds, Doing(t, f) = "addref"
  PROVE  t \notin f_held[f]
<1>1. UserAt(t) /\ f_todo[t] # << >>
  BY DEF ShapeInv, Doing, About
<1>2. PICK g \in FlowKinds, h \in Shared :
        f_todo[t] = UserPart(h, g) /\ (h = "addref" => t \notin f_held[g])
  BY <1>1 DEF UserAt
<1>3. Doing(t, f) = IF g = f THEN h ELSE "none"
  BY <1>2, AboutUser DEF Doing
<1> QED BY <1>2, <1>3

LEMMA AddRefAt ==
  ASSUME FlowThreads, FlowType, ShapeInv, NEW t \in Flow!Threads, NEW f \in FlowKinds, FlowAt(f),
         Flow!AddRef(t, f)
  PROVE  FlowAt(f)'
<1> DEFINE o == Owner(f)
<1>1. /\ t \in FlowUsers
      /\ \E b \in {"release", "none"} : Gone(t, f, "addref", b) /\ (f_masked[f] => b = "release")
  BY AddRefGoes
<1>2. PICK b \in {"release", "none"} : Gone(t, f, "addref", b) /\ (f_masked[f] => b = "release")
  BY <1>1
<1>3. /\ Doing(t, f) = "addref" /\ Doing(t, f)' = b /\ o \in Flow!Threads
      /\ \A u \in Flow!Threads \ {t} : Doing(u, f)' = Doing(u, f)
      /\ t # o /\ Doing(o, f)' = Doing(o, f)
  BY <1>1, <1>2, Goer, KindIs
<1>4. t \notin f_held[f]
  BY <1>1, <1>3, NotYetHeld
<1>5. /\ f_count'[f] = f_count[f] + 1
      /\ f_held'[f] = IF f_masked[f] THEN f_held[f] ELSE f_held[f] \cup {t}
      /\ UNCHANGED << f_State, f_masked, f_event, f_late >>
  BY DEF Flow!AddRef, FlowType
<1>6. f_count[f] \in Int
  BY DEF FlowType
<1> HIDE DEF o
<1>7. SUFFICES ASSUME ~f_late[f], StateAt(f), EndAt(f), CountAt(f)
               PROVE  StateAt(f)' /\ EndAt(f)' /\ CountAt(f)'
  BY <1>5 DEF FlowAt
<1>8. f_State[f] = "Stopped" => f_held'[f] = {}
  BY <1>5, <1>7 DEF StateAt
<1>9. StateAt(f)'
  BY <1>3, <1>5, <1>7, <1>8 DEF StateAt, o
<1>10. EndAt(f)'
  <2>1. SUFFICES ASSUME NEW u \in Flow!Threads, Doing(u, f)' \in Completes
                 PROVE  /\ f_masked'[f] /\ f_held'[f] = {} /\ f_State'[f] # "Running"
                        /\ Doing(o, f)' \notin {"running", "unmask", "clear", "mask", "release"}
                        /\ Doing(u, f)' = "notify" => f_State'[f] = "Stopped"
    BY DEF EndAt, o
  <2>2. Doing(u, f)' = Doing(u, f)
    BY <1>2, <1>3, <2>1 DEF Completes
  <2> QED BY <1>3, <1>5, <1>7, <2>1, <2>2 DEF EndAt, o
<1>11. CountAt(f)'
  <2>1. Mine(f)' = Mine(f) /\ Mine(f) \in Nat
    BY <1>3, <1>5 DEF Mine, o
  <2>2. ~IsOut(t, f) /\ (IsOut(t, f)' <=> f_masked[f])
    BY <1>2, <1>3, <1>4, <1>5 DEF IsOut, o
  <2>3. \A u : u # t => (u \in f_held'[f] <=> u \in f_held[f])
    BY <1>5
  <2>4. t \in f_held'[f] <=> ~f_masked[f]
    BY <1>4, <1>5
  <2>5. /\ Cardinality(f_held[f]) \in Nat /\ Cardinality(Outs(f)) \in Nat
        /\ f_masked[f] => /\ Cardinality(f_held'[f]) = Cardinality(f_held[f])
                          /\ Cardinality(Outs(f)') = Cardinality(Outs(f)) + 1
        /\ ~f_masked[f] => /\ Cardinality(f_held'[f]) = Cardinality(f_held[f]) + 1
                           /\ Cardinality(Outs(f)') = Cardinality(Outs(f))
    BY <1>3, <1>4, <2>2, <2>3, <2>4, Counting
  <2> QED BY <1>5, <1>6, <1>7, <2>1, <2>5 DEF CountAt
<1> QED BY <1>9, <1>10, <1>11

LEMMA ReleaseAt ==
  ASSUME FlowThreads, FlowType, ShapeInv, NEW t \in Flow!Threads, NEW f \in FlowKinds, FlowAt(f),
         Flow!Release(t, f)
  PROVE  FlowAt(f)'
<1> DEFINE o == Owner(f)
           last == f_masked[f] /\ f_count'[f] = 0
<1>1. \E b \in {"check", Back(t, f)} : Gone(t, f, "release", b) /\ (b = "check" <=> last)
  BY ReleaseGoes DEF Back
<1>2. PICK b \in {"check", Back(t, f)} : Gone(t, f, "release", b) /\ (b = "check" <=> last)
  BY <1>1
<1>3. /\ Doing(t, f) = "release" /\ Doing(t, f)' = b /\ o \in Flow!Threads
      /\ \A u \in Flow!Threads \ {t} : Doing(u, f)' = Doing(u, f)
      /\ t # o => t \in FlowUsers /\ Doing(o, f)' = Doing(o, f)
  BY <1>2, Goer
<1>4. o \notin f_held[f]
  BY KindIs DEF FlowType
<1>5. /\ f_count'[f] = f_count[f] - 1 /\ f_held'[f] = f_held[f] \ {t}
      /\ UNCHANGED << f_State, f_masked, f_event, f_late >>
  BY DEF Flow!Release, FlowType
<1>6. f_count[f] \in Int /\ f_masked[f] \in BOOLEAN
  BY DEF FlowType
<1>b. b \in {"check", "wait", "none"} /\ (t = o => b \in {"check", "wait"})
  BY <1>2 DEF Back
<1> HIDE DEF o, last
<1>7. SUFFICES ASSUME ~f_late[f], StateAt(f), EndAt(f), CountAt(f)
               PROVE  StateAt(f)' /\ EndAt(f)' /\ CountAt(f)'
  BY <1>5 DEF FlowAt
<1>8. StateAt(f)'
  <2>1. CASE t = o
    <3>1. f_State[f] = "Stopping" /\ ~f_event[f] /\ f_masked[f]
      BY <1>3, <1>7, <2>1 DEF StateAt, o, Stops, Completes
    <3>2. Doing(o, f)' \in {"check", "wait"}
      BY <1>3, <1>b, <2>1
    <3> QED BY <1>5, <3>1, <3>2 DEF StateAt, o, Stops, Completes
  <2>2. CASE t # o
    <3>1. f_State[f] = "Stopped" => f_held'[f] = {}
      BY <1>5, <1>7 DEF StateAt
    <3> QED BY <1>3, <1>5, <1>7, <2>2, <3>1 DEF StateAt, o
  <2> QED BY <2>1, <2>2
<1>9. Mine(f)' = Mine(f) /\ Mine(f) \in {0, 1}
  <2>1. (Doing(o, f)' = "running") <=> (Doing(o, f) = "running")
    BY <1>3, <1>b
  <2> QED BY <2>1, <1>5 DEF Mine, o
<1>10. ~IsOut(t, f)' /\ (IsOut(t, f) <=> t \notin f_held[f])
  <2>1. t \notin f_held'[f]
    BY <1>5
  <2> QED BY <1>3, <1>b, <2>1 DEF IsOut, o
<1>11. /\ Cardinality(f_held[f]) \in Nat /\ Cardinality(f_held'[f]) \in Nat
       /\ Cardinality(Outs(f)) \in Nat /\ Cardinality(Outs(f)') \in Nat
       /\ t \in f_held[f] => /\ Cardinality(f_held'[f]) = Cardinality(f_held[f]) - 1
                             /\ Cardinality(Outs(f)') = Cardinality(Outs(f))
       /\ t \notin f_held[f] => /\ Cardinality(f_held'[f]) = Cardinality(f_held[f])
                                /\ Cardinality(Outs(f)') = Cardinality(Outs(f)) - 1
       /\ Cardinality(f_held'[f]) = 0 => f_held'[f] = {}
       /\ Cardinality(Outs(f)') = 0 => Outs(f)' = {}
  <2>1. \A u : u # t => (u \in f_held'[f] <=> u \in f_held[f])
    BY <1>5
  <2>2. t \notin f_held'[f]
    BY <1>5
  <2> QED BY <1>3, <1>10, <2>1, <2>2, Counting
<1>12. CountAt(f)'
  BY <1>5, <1>6, <1>7, <1>9, <1>11 DEF CountAt
<1>13. ASSUME last
       PROVE  /\ f_masked[f] /\ f_held'[f] = {} /\ f_State[f] # "Running"
              /\ Doing(o, f)' \notin {"running", "unmask", "clear", "mask", "release"}
  <2>1. f_masked[f] /\ f_count'[f] = 0
    BY <1>13 DEF last
  <2>2. Cardinality(f_held'[f]) = 0 /\ Cardinality(Outs(f)') = 0 /\ Mine(f)' = 0
    BY <2>1, <1>9, <1>11, <1>12 DEF CountAt
  <2>3. f_held'[f] = {} /\ Outs(f)' = {}
    BY <2>2, <1>11
  <2>4. f_State[f] # "Running" /\ Doing(o, f)' # "running"
    BY <2>2, <1>5 DEF Mine, o
  <2>5. Doing(o, f)' \notin {"clear", "mask", "release"}
    BY <2>3, <1>3 DEF Outs, IsOut, o
  <2>6. Doing(o, f)' # "unmask"
    BY <1>8, <1>5, <2>4 DEF StateAt, o
  <2> QED BY <2>1, <2>3, <2>4, <2>5, <2>6
<1>14. EndAt(f)'
  <2>1. SUFFICES ASSUME NEW u \in Flow!Threads, Doing(u, f)' \in Completes
                 PROVE  /\ f_masked'[f] /\ f_held'[f] = {} /\ f_State'[f] # "Running"
                        /\ Doing(o, f)' \notin {"running", "unmask", "clear", "mask", "release"}
                        /\ Doing(u, f)' = "notify" => f_State'[f] = "Stopped"
    BY DEF EndAt, o
  <2>2. CASE u = t
    <3>1. b = "check"
      BY <1>3, <1>b, <2>1, <2>2 DEF Completes
    <3> QED BY <1>2, <1>3, <1>5, <1>13, <2>2, <3>1
  <2>3. CASE u # t
    <3>1. Doing(u, f)' = Doing(u, f)
      BY <1>3, <2>3
    <3>2. t # o
      BY <1>3, <1>7, <2>1, <3>1 DEF EndAt, o
    <3> QED BY <1>3, <1>5, <1>7, <2>1, <3>1, <3>2 DEF EndAt, o
  <2> QED BY <2>2, <2>3
<1> QED BY <1>8, <1>12, <1>14

LEMMA CompleteAt ==
  ASSUME FlowThreads, FlowType, ShapeInv, NEW t \in Flow!Threads, NEW f \in FlowKinds, FlowAt(f),
         Flow!CompleteStopping(t, f)
  PROVE  FlowAt(f)'
<1> DEFINE o == Owner(f)
<1>1. \E a \in Completes, b \in {"stopped", "notify", Back(t, f)} :
        /\ Gone(t, f, a, b)
        /\ a = "check" => UNCHANGED << f_State, f_event >>
                            /\ (b = "stopped" => f_State[f] = "Stopping")
        /\ a = "stopped" => b = "notify" /\ UNCHANGED f_event
                              /\ f_State' = [f_State EXCEPT ![f] = "Stopped"]
        /\ a = "notify" => b = Back(t, f) /\ UNCHANGED f_State
                             /\ f_event' = [f_event EXCEPT ![f] = TRUE]
        /\ b = "notify" => a = "stopped"
  BY CompleteGoes DEF Back, Completes
<1>2. PICK a \in Completes, b \in {"stopped", "notify", Back(t, f)} :
        /\ Gone(t, f, a, b)
        /\ a = "check" => UNCHANGED << f_State, f_event >>
                            /\ (b = "stopped" => f_State[f] = "Stopping")
        /\ a = "stopped" => b = "notify" /\ UNCHANGED f_event
                              /\ f_State' = [f_State EXCEPT ![f] = "Stopped"]
        /\ a = "notify" => b = Back(t, f) /\ UNCHANGED f_State
                             /\ f_event' = [f_event EXCEPT ![f] = TRUE]
        /\ b = "notify" => a = "stopped"
  BY <1>1
<1>3. /\ Doing(t, f) = a /\ Doing(t, f)' = b /\ o \in Flow!Threads
      /\ \A u \in Flow!Threads \ {t} : Doing(u, f)' = Doing(u, f)
      /\ t # o => t \in FlowUsers /\ Doing(o, f)' = Doing(o, f)
  BY <1>2, Goer
<1>4. /\ UNCHANGED << f_count, f_masked, f_held, f_late >>
      /\ f_State \in [FlowKinds -> {"Running", "Stopping", "Stopped"}]
      /\ f_event \in [FlowKinds -> BOOLEAN] /\ f_count[f] \in Int /\ f_masked[f] \in BOOLEAN
  BY DEF Flow!CompleteStopping, FlowType
<1>5. SUFFICES ASSUME ~f_late[f], StateAt(f), EndAt(f), CountAt(f)
               PROVE  StateAt(f)' /\ EndAt(f)' /\ CountAt(f)'
  BY <1>4 DEF FlowAt
<1>6. /\ f_State'[f] = IF a = "stopped" THEN "Stopped" ELSE f_State[f]
      /\ f_event'[f] = (a = "notify" \/ f_event[f])
  BY <1>2, <1>4 DEF Completes
<1>7. /\ f_masked[f] /\ f_held[f] = {} /\ f_State[f] \in {"Stopped", "Stopping"}
      /\ Doing(o, f) \notin {"running", "unmask", "clear", "mask", "release"}
      /\ a = "notify" => f_State[f] = "Stopped"
  BY <1>3, <1>4, <1>5 DEF EndAt
<1>8. /\ b \in {"stopped", "notify", "wait", "none"} /\ (t = o => b \in {"stopped", "notify", "wait"})
      /\ b = "stopped" => a = "check" /\ f_State[f] = "Stopping"
  BY <1>2 DEF Back, Completes
<1>9. /\ Doing(o, f)' \notin {"running", "unmask", "clear", "mask", "release"}
      /\ \/ t # o /\ Doing(o, f)' = Doing(o, f)
         \/ t = o /\ Doing(o, f) = a /\ Doing(o, f)' = b /\ b \in Stops
  BY <1>3, <1>7, <1>8 DEF Stops, Completes
<1> HIDE DEF o
<1>10. StateAt(f)'
  <2>1. \/ f_State'[f] = "Stopped"
        \/ f_State'[f] = "Stopping" /\ f_State[f] = "Stopping" /\ a = "check"
    BY <1>6, <1>7 DEF Completes
  <2>2. CASE f_State'[f] = "Stopped"
    BY <1>4, <1>7, <1>9, <2>2 DEF StateAt, o
  <2>3. CASE f_State'[f] = "Stopping" /\ f_State[f] = "Stopping" /\ a = "check"
    <3>1. Doing(o, f) \in Stops
      BY <1>5, <2>3 DEF StateAt, o
    <3>2. Doing(o, f) # "clear" /\ ~f_event[f] /\ Doing(o, f)' \in Stops
      BY <1>5, <1>7, <1>9, <2>3, <3>1 DEF StateAt, o
    <3> QED BY <1>4, <1>6, <1>7, <1>9, <2>3, <3>2 DEF StateAt, o
  <2> QED BY <2>1, <2>2, <2>3
<1>11. EndAt(f)'
  <2>1. SUFFICES ASSUME NEW u \in Flow!Threads, Doing(u, f)' \in Completes
                 PROVE  Doing(u, f)' = "notify" => f_State'[f] = "Stopped"
    BY <1>4, <1>6, <1>7, <1>9 DEF EndAt, o
  <2>2. CASE u = t
    BY <1>2, <1>3, <1>6, <2>2
  <2>3. CASE u # t
    BY <1>3, <1>5, <1>6, <2>1, <2>3 DEF EndAt
  <2> QED BY <2>2, <2>3
<1>12. CountAt(f)'
  <2>1. Mine(f) = 0 /\ Mine(f)' = 0
    BY <1>6, <1>7, <1>9 DEF Mine, o
  <2>2. \A u \in Flow!Threads : IsOut(u, f)' <=> IsOut(u, f)
    BY <1>3, <1>4, <1>8 DEF IsOut, Completes
  <2>3. Outs(f)' = Outs(f)
    BY <2>2 DEF Outs
  <2> QED BY <1>4, <1>5, <2>1, <2>3 DEF CountAt
<1> QED BY <1>10, <1>11, <1>12

(* A stop or a start that finds no other at the end of a stop.             *)
LEMMA NoneLate ==
  ASSUME FlowType, NEW t \in Flow!Threads, NEW f \in FlowKinds, Flow!TooLate(t, f), ~f_late'[f]
  PROVE  ~f_late[f] /\ \A u \in Flow!Threads \ {t} : Doing(u, f) \notin Completes
<1>1. ~f_late[f] /\ \A u \in Flow!Threads \ {t} : ~Flow!Completing(u, f)
  BY DEF Flow!TooLate, FlowType
<1>2. ASSUME NEW u \in Flow!Threads \ {t}, Doing(u, f) \in Completes PROVE FALSE
  <2>1. f_todo[u] # << >> /\ \E h \in Acts : Head(f_todo[u]) = Flow!Op(h, f)
    BY <1>2 DEF Doing, About, Completes
  <2>2. PICK h \in Acts : Head(f_todo[u]) = Flow!Op(h, f)
    BY <2>1
  <2>3. Doing(u, f) = h
    BY <2>1, <2>2, AboutHead DEF Doing
  <2> QED BY <1>1, <1>2, <2>1, <2>2, <2>3 DEF Flow!Completing, Flow!At, Completes
<1> QED BY <1>1, <1>2

LEMMA StopAt ==
  ASSUME FlowThreads, FlowType, ShapeInv, NEW t \in Flow!Threads, NEW f \in FlowKinds, FlowAt(f),
         Flow!Stop(t, f)
  PROVE  /\ t = Owner(f) /\ FlowAt(f)'
         /\ \/ /\ f_State[f] = "Running" /\ Gone(t, f, "stop", "clear")
               /\ f_State' = [f_State EXCEPT ![f] = "Stopping"] /\ Flow!TooLate(t, f)
            \/ /\ f_State[f] # "Running" /\ Gone(t, f, "stop", "none")
               /\ UNCHANGED << f_State, f_late >>
<1>1. /\ Flow!At(t, "stop", f) /\ UNCHANGED << f_count, f_masked, f_event, f_held >>
      /\ f_State \in [FlowKinds -> {"Running", "Stopping", "Stopped"}]
      /\ f_count[f] \in Int /\ f_masked[f] \in BOOLEAN
  BY DEF Flow!Stop, FlowType
<1>2. "stop" \in {"stop", "clear", "mask", "wait", "start", "running", "unmask"}
  OBVIOUS
<1>3. CASE f_State[f] = "Running"
  <2>1. /\ f_State' = [f_State EXCEPT ![f] = "Stopping"] /\ Flow!TooLate(t, f)
        /\ Flow!Then(t, << Flow!Op("clear", f), Flow!Op("mask", f), Flow!Op("release", f),
                           Flow!Op("wait", f) >>)
    BY <1>3 DEF Flow!Stop
  <2>2. t = Owner(f) /\ Gone(t, f, "stop", "clear")
    BY <1>1, <1>2, <2>1, OpsAre, PartNext, OwnerGoes
  <2>3. /\ Doing(t, f) = "stop" /\ Doing(t, f)' = "clear" /\ Owner(f) \in Flow!Threads
        /\ \A u \in Flow!Threads \ {t} : Doing(u, f)' = Doing(u, f)
    BY <2>2, Goer
  <2>4. f_State'[f] = "Stopping"
    BY <1>1, <2>1
  <2>5. ASSUME ~f_late'[f]
        PROVE  StateAt(f)' /\ EndAt(f)' /\ CountAt(f)'
    <3>1. ~f_late[f] /\ \A u \in Flow!Threads \ {t} : Doing(u, f) \notin Completes
      BY <2>1, <2>5, NoneLate
    <3>2. StateAt(f) /\ CountAt(f)
      BY <3>1 DEF FlowAt
    <3>3. StateAt(f)'
      BY <1>1, <1>3, <2>2, <2>3, <2>4, <3>2 DEF StateAt, Stops
    <3>4. EndAt(f)'
      BY <2>3, <3>1 DEF EndAt, Completes
    <3>5. CountAt(f)'
      <4>1. Mine(f) = 1 /\ Mine(f)' = 0
        BY <1>3, <2>2, <2>3, <2>4 DEF Mine
      <4>2. t \notin f_held[f]
        BY <2>2, KindIs DEF FlowType
      <4>3. ~IsOut(t, f) /\ IsOut(t, f)'
        BY <1>1, <2>2, <2>3, <4>2 DEF IsOut
      <4>4. /\ Cardinality(Outs(f)') = Cardinality(Outs(f)) + 1
            /\ Cardinality(Outs(f)) \in Nat /\ Cardinality(f_held[f]) \in Nat
        BY <1>1, <2>3, <4>3, Counting
      <4> QED BY <1>1, <3>2, <4>1, <4>4 DEF CountAt
    <3> QED BY <3>3, <3>4, <3>5
  <2> QED BY <1>3, <2>1, <2>2, <2>5 DEF FlowAt
<1>4. CASE f_State[f] # "Running"
  <2>1. Flow!Then(t, << >>) /\ UNCHANGED << f_State, f_late >>
    BY <1>4 DEF Flow!Stop
  <2>2. t = Owner(f) /\ Gone(t, f, "stop", "none")
    BY <1>1, <1>2, <2>1, OpsAre, PartNext, OwnerGoes
  <2>3. /\ Doing(t, f) = "stop" /\ Doing(t, f)' = "none" /\ Owner(f) \in Flow!Threads
        /\ \A u \in Flow!Threads \ {t} : Doing(u, f)' = Doing(u, f)
    BY <2>2, Goer
  <2>4. ASSUME ~f_late[f], StateAt(f), EndAt(f), CountAt(f)
        PROVE  StateAt(f)' /\ EndAt(f)' /\ CountAt(f)'
    <3>1. StateAt(f)'
      BY <1>1, <2>1, <2>2, <2>3, <2>4 DEF StateAt, Stops, Completes
    <3>2. EndAt(f)'
      BY <1>1, <2>1, <2>2, <2>3, <2>4 DEF EndAt, Completes
    <3>3. CountAt(f)'
      <4>1. Mine(f)' = Mine(f)
        BY <2>1, <2>2, <2>3 DEF Mine
      <4>2. \A u \in Flow!Threads : IsOut(u, f)' <=> IsOut(u, f)
        BY <1>1, <2>2, <2>3 DEF IsOut
      <4>3. Outs(f)' = Outs(f)
        BY <4>2 DEF Outs
      <4> QED BY <1>1, <2>4, <4>1, <4>3 DEF CountAt
    <3> QED BY <3>1, <3>2, <3>3
  <2> QED BY <1>4, <2>1, <2>2, <2>4 DEF FlowAt
<1> QED BY <1>3, <1>4

(* A step of the owner after which the counter counts the same.            *)
LEMMA SameCount ==
  ASSUME FlowThreads, NEW f \in FlowKinds, NEW a, NEW b, Gone(Owner(f), f, a, b),
         a = "running" \/ b = "running" => FALSE,
         a \in {"clear", "mask", "release"} <=> b \in {"clear", "mask", "release"},
         CountAt(f), f_State'[f] = f_State[f], f_count'[f] = f_count[f], f_held'[f] = f_held[f]
  PROVE  CountAt(f)'
<1>1. /\ Doing(Owner(f), f) = a /\ Doing(Owner(f), f)' = b
      /\ \A u \in Flow!Threads \ {Owner(f)} : Doing(u, f)' = Doing(u, f)
  BY Goer DEF Owner, Flow!Threads
<1>2. Mine(f)' = Mine(f)
  BY <1>1 DEF Mine
<1>3. \A u \in Flow!Threads : IsOut(u, f)' <=> IsOut(u, f)
  BY <1>1 DEF IsOut
<1>4. Outs(f)' = Outs(f)
  BY <1>3 DEF Outs
<1> QED BY <1>2, <1>4 DEF CountAt

LEMMA StoppingAt ==
  ASSUME FlowThreads, FlowType, ShapeInv, NEW t \in Flow!Threads, NEW f \in FlowKinds, FlowAt(f),
         Flow!Stopping(t, f)
  PROVE  /\ t = Owner(f) /\ FlowAt(f)'
         /\ \/ Gone(t, f, "clear", "mask")
            \/ Gone(t, f, "mask", "release")
            \/ Gone(t, f, "wait", "none") /\ (f_late[f] \/ f_State[f] = "Stopped")
<1>1. /\ UNCHANGED << f_State, f_count, f_held, f_late >> /\ Flow!Then(t, << >>)
      /\ f_State \in [FlowKinds -> {"Running", "Stopping", "Stopped"}]
      /\ f_event \in [FlowKinds -> BOOLEAN] /\ f_masked \in [FlowKinds -> BOOLEAN]
  BY DEF Flow!Stopping, FlowType
<1>2. /\ "clear" \in {"stop", "clear", "mask", "wait", "start", "running", "unmask"}
      /\ "mask" \in {"stop", "clear", "mask", "wait", "start", "running", "unmask"}
      /\ "wait" \in {"stop", "clear", "mask", "wait", "start", "running", "unmask"}
  OBVIOUS
<1>3. CASE /\ Flow!At(t, "clear", f) /\ UNCHANGED f_masked
           /\ f_event' = [f_event EXCEPT ![f] = FALSE]
  <2>1. t = Owner(f) /\ Gone(t, f, "clear", "mask")
    BY <1>1, <1>2, <1>3, OpsAre, PartNext, OwnerGoes
  <2>2. /\ Doing(t, f) = "clear" /\ Doing(t, f)' = "mask" /\ Owner(f) \in Flow!Threads
        /\ \A u \in Flow!Threads \ {t} : Doing(u, f)' = Doing(u, f)
    BY <2>1, Goer
  <2>3. ASSUME ~f_late[f], StateAt(f), EndAt(f), CountAt(f)
        PROVE  StateAt(f)' /\ EndAt(f)' /\ CountAt(f)'
    <3>1. StateAt(f)'
      BY <1>1, <1>3, <2>1, <2>2, <2>3 DEF StateAt, Stops, Completes
    <3>2. EndAt(f)'
      BY <1>1, <1>3, <2>1, <2>2, <2>3 DEF EndAt, Completes
    <3>3. CountAt(f)'
      BY <1>1, <2>1, <2>3, SameCount
    <3> QED BY <3>1, <3>2, <3>3
  <2> QED BY <1>1, <2>1, <2>3 DEF FlowAt
<1>4. CASE /\ Flow!At(t, "mask", f) /\ UNCHANGED f_event
           /\ f_masked' = [f_masked EXCEPT ![f] = TRUE]
  <2>1. t = Owner(f) /\ Gone(t, f, "mask", "release")
    BY <1>1, <1>2, <1>4, OpsAre, PartNext, OwnerGoes
  <2>2. /\ Doing(t, f) = "mask" /\ Doing(t, f)' = "release" /\ Owner(f) \in Flow!Threads
        /\ \A u \in Flow!Threads \ {t} : Doing(u, f)' = Doing(u, f)
    BY <2>1, Goer
  <2>3. ASSUME ~f_late[f], StateAt(f), EndAt(f), CountAt(f)
        PROVE  StateAt(f)' /\ EndAt(f)' /\ CountAt(f)'
    <3>1. StateAt(f)'
      BY <1>1, <1>4, <2>1, <2>2, <2>3 DEF StateAt, Stops, Completes
    <3>2. EndAt(f)'
      BY <1>1, <1>4, <2>1, <2>2, <2>3 DEF EndAt, Completes
    <3>3. CountAt(f)'
      BY <1>1, <2>1, <2>3, SameCount
    <3> QED BY <3>1, <3>2, <3>3
  <2> QED BY <1>1, <2>1, <2>3 DEF FlowAt
<1>5. CASE Flow!At(t, "wait", f) /\ f_event[f] /\ UNCHANGED << f_masked, f_event >>
  <2>1. t = Owner(f) /\ Gone(t, f, "wait", "none")
    BY <1>1, <1>2, <1>5, OpsAre, PartNext, OwnerGoes
  <2>2. /\ Doing(t, f) = "wait" /\ Doing(t, f)' = "none" /\ Owner(f) \in Flow!Threads
        /\ \A u \in Flow!Threads \ {t} : Doing(u, f)' = Doing(u, f)
    BY <2>1, Goer
  <2>3. ASSUME ~f_late[f], StateAt(f), EndAt(f), CountAt(f)
        PROVE  f_State[f] = "Stopped" /\ StateAt(f)' /\ EndAt(f)' /\ CountAt(f)'
    <3>0. f_State[f] = "Stopped"
      BY <1>5, <2>1, <2>2, <2>3 DEF StateAt, Stops, Completes
    <3>1. StateAt(f)'
      BY <1>1, <1>5, <2>1, <2>2, <2>3, <3>0 DEF StateAt, Stops, Completes
    <3>2. EndAt(f)'
      BY <1>1, <1>5, <2>1, <2>2, <2>3 DEF EndAt, Completes
    <3>3. CountAt(f)'
      BY <1>1, <2>1, <2>3, SameCount
    <3> QED BY <3>0, <3>1, <3>2, <3>3
  <2> QED BY <1>1, <2>1, <2>3 DEF FlowAt
<1> QED BY <1>3, <1>4, <1>5 DEF Flow!Stopping

LEMMA StartAt ==
  ASSUME FlowThreads, FlowType, ShapeInv, NEW t \in Flow!Threads, NEW f \in FlowKinds, FlowAt(f),
         Flow!Start(t, f)
  PROVE  /\ t = Owner(f) /\ FlowAt(f)'
         /\ \/ /\ f_State[f] = "Stopped" /\ Gone(t, f, "start", "running")
               /\ UNCHANGED f_State /\ Flow!TooLate(t, f)
            \/ /\ f_State[f] # "Stopped" /\ Gone(t, f, "start", "none")
               /\ UNCHANGED << f_State, f_late >>
            \/ /\ Gone(t, f, "running", "unmask") /\ UNCHANGED f_late
               /\ f_State' = [f_State EXCEPT ![f] = "Running"]
            \/ /\ Gone(t, f, "unmask", "none") /\ UNCHANGED << f_State, f_late >>
               /\ f_late[f] \/ f_State[f] = "Running"
<1>1. /\ UNCHANGED << f_event, f_held >>
      /\ f_State \in [FlowKinds -> {"Running", "Stopping", "Stopped"}]
      /\ f_masked \in [FlowKinds -> BOOLEAN] /\ f_count \in [FlowKinds -> Int]
  BY DEF Flow!Start, FlowType
<1>2. /\ "start" \in {"stop", "clear", "mask", "wait", "start", "running", "unmask"}
      /\ "running" \in {"stop", "clear", "mask", "wait", "start", "running", "unmask"}
      /\ "unmask" \in {"stop", "clear", "mask", "wait", "start", "running", "unmask"}
  OBVIOUS
<1>3. CASE /\ Flow!At(t, "start", f) /\ f_State[f] = "Stopped" /\ UNCHANGED << f_State, f_masked >>
           /\ f_count' = [f_count EXCEPT ![f] = @ + 1] /\ Flow!TooLate(t, f)
           /\ Flow!Then(t, << Flow!Op("running", f), Flow!Op("unmask", f) >>)
  <2>1. t = Owner(f) /\ Gone(t, f, "start", "running")
    BY <1>1, <1>2, <1>3, OpsAre, PartNext, OwnerGoes
  <2>2. /\ Doing(t, f) = "start" /\ Doing(t, f)' = "running" /\ Owner(f) \in Flow!Threads
        /\ \A u \in Flow!Threads \ {t} : Doing(u, f)' = Doing(u, f)
    BY <2>1, Goer
  <2>3. ASSUME ~f_late'[f]
        PROVE  StateAt(f)' /\ EndAt(f)' /\ CountAt(f)'
    <3>1. ~f_late[f] /\ \A u \in Flow!Threads \ {t} : Doing(u, f) \notin Completes
      BY <1>3, <2>3, NoneLate
    <3>2. StateAt(f) /\ CountAt(f)
      BY <3>1 DEF FlowAt
    <3>3. StateAt(f)'
      BY <1>1, <1>3, <2>1, <2>2, <3>2 DEF StateAt, Stops, Completes
    <3>4. EndAt(f)'
      BY <2>2, <3>1 DEF EndAt, Completes
    <3>5. CountAt(f)'
      <4>1. Mine(f) = 0 /\ Mine(f)' = 1
        BY <1>3, <2>1, <2>2 DEF Mine
      <4>2. \A u \in Flow!Threads : IsOut(u, f)' <=> IsOut(u, f)
        BY <1>1, <2>1, <2>2 DEF IsOut
      <4>3. Outs(f)' = Outs(f)
        BY <4>2 DEF Outs
      <4>4. Cardinality(Outs(f)) \in Nat /\ Cardinality(f_held[f]) \in Nat
        BY FiniteAt, FS_CardinalityType
      <4>5. f_count'[f] = f_count[f] + 1 /\ f_held'[f] = f_held[f]
        BY <1>1, <1>3
      <4> QED BY <3>2, <4>1, <4>3, <4>4, <4>5 DEF CountAt
    <3> QED BY <3>3, <3>4, <3>5
  <2> QED BY <1>3, <2>1, <2>3 DEF FlowAt
<1>4. CASE /\ Flow!At(t, "start", f) /\ f_State[f] # "Stopped" /\ Flow!Then(t, << >>)
           /\ UNCHANGED << f_State, f_masked, f_count, f_late >>
  <2>1. t = Owner(f) /\ Gone(t, f, "start", "none")
    BY <1>1, <1>2, <1>4, OpsAre, PartNext, OwnerGoes
  <2>2. /\ Doing(t, f) = "start" /\ Doing(t, f)' = "none" /\ Owner(f) \in Flow!Threads
        /\ \A u \in Flow!Threads \ {t} : Doing(u, f)' = Doing(u, f)
    BY <2>1, Goer
  <2>3. ASSUME ~f_late[f], StateAt(f), EndAt(f), CountAt(f)
        PROVE  StateAt(f)' /\ EndAt(f)' /\ CountAt(f)'
    <3>1. StateAt(f)'
      BY <1>1, <1>4, <2>1, <2>2, <2>3 DEF StateAt, Stops, Completes
    <3>2. EndAt(f)'
      BY <1>1, <1>4, <2>1, <2>2, <2>3 DEF EndAt, Completes
    <3>3. CountAt(f)'
      BY <1>1, <1>4, <2>1, <2>3, SameCount
    <3> QED BY <3>1, <3>2, <3>3
  <2> QED BY <1>4, <2>1, <2>3 DEF FlowAt
<1>5. CASE /\ Flow!At(t, "running", f) /\ Flow!Then(t, << >>)
           /\ f_State' = [f_State EXCEPT ![f] = "Running"]
           /\ UNCHANGED << f_masked, f_count, f_late >>
  <2>1. t = Owner(f) /\ Gone(t, f, "running", "unmask")
    BY <1>1, <1>2, <1>5, OpsAre, PartNext, OwnerGoes
  <2>2. /\ Doing(t, f) = "running" /\ Doing(t, f)' = "unmask" /\ Owner(f) \in Flow!Threads
        /\ \A u \in Flow!Threads \ {t} : Doing(u, f)' = Doing(u, f)
    BY <2>1, Goer
  <2>3. f_State'[f] = "Running"
    BY <1>1, <1>5
  <2>4. ASSUME ~f_late[f], StateAt(f), EndAt(f), CountAt(f)
        PROVE  StateAt(f)' /\ EndAt(f)' /\ CountAt(f)'
    <3>1. StateAt(f)'
      BY <1>1, <1>5, <2>1, <2>2, <2>3, <2>4 DEF StateAt, Stops, Completes
    <3>2. EndAt(f)'
      BY <1>1, <1>5, <2>1, <2>2, <2>4 DEF EndAt, Completes
    <3>3. CountAt(f)'
      <4>1. Mine(f) = Mine(f)'
        BY <2>1, <2>2, <2>3 DEF Mine
      <4>2. \A u \in Flow!Threads : IsOut(u, f)' <=> IsOut(u, f)
        BY <1>1, <2>1, <2>2 DEF IsOut
      <4>3. Outs(f)' = Outs(f)
        BY <4>2 DEF Outs
      <4> QED BY <1>1, <1>5, <2>4, <4>1, <4>3 DEF CountAt
    <3> QED BY <3>1, <3>2, <3>3
  <2> QED BY <1>5, <2>1, <2>4 DEF FlowAt
<1>6. CASE /\ Flow!At(t, "unmask", f) /\ Flow!Then(t, << >>)
           /\ f_masked' = [f_masked EXCEPT ![f] = FALSE]
           /\ UNCHANGED << f_State, f_count, f_late >>
  <2>1. t = Owner(f) /\ Gone(t, f, "unmask", "none")
    BY <1>1, <1>2, <1>6, OpsAre, PartNext, OwnerGoes
  <2>2. /\ Doing(t, f) = "unmask" /\ Doing(t, f)' = "none" /\ Owner(f) \in Flow!Threads
        /\ \A u \in Flow!Threads \ {t} : Doing(u, f)' = Doing(u, f)
    BY <2>1, Goer
  <2>3. ASSUME ~f_late[f], StateAt(f), EndAt(f), CountAt(f)
        PROVE  f_State[f] = "Running" /\ StateAt(f)' /\ EndAt(f)' /\ CountAt(f)'
    <3>0. f_State[f] = "Running"
      BY <2>1, <2>2, <2>3 DEF StateAt
    <3>1. StateAt(f)'
      BY <1>1, <1>6, <2>1, <2>2, <2>3, <3>0 DEF StateAt, Stops, Completes
    <3>2. EndAt(f)'
      BY <1>1, <1>6, <2>1, <2>2, <2>3 DEF EndAt, Completes
    <3>3. CountAt(f)'
      BY <1>1, <1>6, <2>1, <2>3, SameCount
    <3> QED BY <3>0, <3>1, <3>2, <3>3
  <2> QED BY <1>6, <2>1, <2>3 DEF FlowAt
<1> QED BY <1>3, <1>4, <1>5, <1>6 DEF Flow!Start
-----------------------------------------------------------------------------
(* Any step at a flow: what it is to the owners and to the other flow.     *)
Unmoved(f)   == f_State'[f] = f_State[f]
Effect(t, f, a, b) ==
  /\ Gone(t, f, a, b)
  /\ t # Owner(f) => Unmoved(f) \/ (f_State'[f] = "Stopped" /\ (f_late[f] \/ f_State[f] # "Running"))
  /\ t = Owner(f) =>
       \/ a \in Starts /\ b \in Starts \ {"start"}
       \/ a \in {"stop"} \cup Stops /\ b \in Stops
       \/ a = "stop" /\ b = "none" /\ Unmoved(f) /\ f_State[f] # "Running"
       \/ a = "start" /\ b = "none" /\ Unmoved(f) /\ f_State[f] # "Stopped"
       \/ a = "wait" /\ b = "none" /\ Unmoved(f) /\ (f_late[f] \/ f_State[f] = "Stopped")
       \/ a = "unmask" /\ b = "none" /\ Unmoved(f) /\ (f_late[f] \/ f_State[f] = "Running")
  /\ \A g \in FlowKinds : (f_late[g] => f_late'[g]) /\ (g # f => Unmoved(g))
  /\ UNCHANGED << f_Value, f_mp, f_dpc, f_needsReset, f_bDeviceNeedsReset, f_ndis, f_refused >>

FlowAct(t, f) ==
  \/ Flow!AddRef(t, f) \/ Flow!Release(t, f) \/ Flow!CompleteStopping(t, f)
  \/ Flow!Stop(t, f) \/ Flow!Stopping(t, f) \/ Flow!Start(t, f)

LEMMA FlowActAt ==
  ASSUME FlowThreads, FlowType, ShapeInv, NEW t \in Flow!Threads, NEW f \in FlowKinds, FlowAt(f),
         FlowAct(t, f)
  PROVE  FlowAt(f)'
BY AddRefAt, ReleaseAt, CompleteAt, StopAt, StoppingAt, StartAt DEF FlowAct

LEMMA LateStays ==
  ASSUME FlowType, NEW t, NEW f \in FlowKinds, Flow!TooLate(t, f)
  PROVE  /\ f_late' \in [FlowKinds -> BOOLEAN]
         /\ \A g \in FlowKinds : (f_late[g] => f_late'[g]) /\ (g # f => f_late'[g] = f_late[g])
<1> DEFINE x == \E u \in Flow!Threads \ {t} : Flow!Completing(u, f)
<1>1. f_late' = [f_late EXCEPT ![f] = f_late[f] \/ x] /\ f_late \in [FlowKinds -> BOOLEAN]
  BY DEF Flow!TooLate, FlowType
<1>2. x \in BOOLEAN
  OBVIOUS
<1> HIDE DEF x
<1> QED BY <1>1, <1>2

LEMMA FlowActEffect ==
  ASSUME FlowThreads, FlowType, ShapeInv, NEW t \in Flow!Threads, NEW f \in FlowKinds, FlowAt(f),
         FlowAct(t, f)
  PROVE  \E a, b : Effect(t, f, a, b)
<1>0. /\ UNCHANGED << f_Value, f_mp, f_dpc, f_needsReset, f_bDeviceNeedsReset, f_ndis, f_refused >>
      /\ f_State \in [FlowKinds -> {"Running", "Stopping", "Stopped"}] /\ Owner(f) \notin FlowUsers
  BY KindIs DEF FlowAct, Flow!AddRef, Flow!Release, Flow!CompleteStopping, Flow!Stop, Flow!Stopping,
         Flow!Start, Flow!mpVars, FlowType
<1>1. CASE Flow!AddRef(t, f)
  <2>1. t \in FlowUsers /\ \E b : Gone(t, f, "addref", b)
    BY <1>1, AddRefGoes
  <2>2. UNCHANGED << f_State, f_late >>
    BY <1>1 DEF Flow!AddRef
  <2> QED BY <1>0, <2>1, <2>2 DEF Effect, Unmoved
<1>2. CASE Flow!Release(t, f)
  <2>1. \E b \in {"check", Back(t, f)} : Gone(t, f, "release", b)
    BY <1>2, ReleaseGoes
  <2>2. PICK b \in {"check", Back(t, f)} : Gone(t, f, "release", b)
    BY <2>1
  <2>3. UNCHANGED << f_State, f_late >>
    BY <1>2 DEF Flow!Release
  <2>4. t = Owner(f) => "release" \in {"stop"} \cup Stops /\ b \in Stops
    BY <2>2 DEF Back, Stops, Completes
  <2>5. Effect(t, f, "release", b)
    BY <1>0, <2>2, <2>3, <2>4 DEF Effect, Unmoved
  <2> QED BY <2>5
<1>3. CASE Flow!CompleteStopping(t, f)
  <2>1. \E a \in Completes, b \in {"stopped", "notify", Back(t, f)} :
          /\ Gone(t, f, a, b)
          /\ UNCHANGED f_State \/ (a = "stopped" /\ f_State' = [f_State EXCEPT ![f] = "Stopped"])
    BY <1>3, CompleteGoes DEF Back, Completes
  <2>2. PICK a \in Completes, b \in {"stopped", "notify", Back(t, f)} :
          /\ Gone(t, f, a, b)
          /\ UNCHANGED f_State \/ (a = "stopped" /\ f_State' = [f_State EXCEPT ![f] = "Stopped"])
    BY <2>1
  <2>3. UNCHANGED f_late
    BY <1>3 DEF Flow!CompleteStopping
  <2>4. t = Owner(f) => a \in {"stop"} \cup Stops /\ b \in Stops
    BY <2>2 DEF Back, Stops, Completes
  <2>5. Doing(t, f) \in Completes
    BY <2>2, Goer
  <2>6. f_late[f] \/ f_State[f] # "Running"
    BY <2>5 DEF FlowAt, EndAt
  <2>7. /\ \A g \in FlowKinds \ {f} : Unmoved(g)
        /\ Unmoved(f) \/ f_State'[f] = "Stopped"
    BY <2>2, <1>0 DEF Unmoved
  <2>8. Effect(t, f, a, b)
    BY <1>0, <2>2, <2>3, <2>4, <2>6, <2>7 DEF Effect
  <2> QED BY <2>8
<1>4. CASE Flow!Stop(t, f)
  <2>1. CASE /\ f_State[f] = "Running" /\ Gone(t, f, "stop", "clear")
             /\ f_State' = [f_State EXCEPT ![f] = "Stopping"] /\ Flow!TooLate(t, f)
    <3>1. \A g \in FlowKinds : (f_late[g] => f_late'[g]) /\ (g # f => Unmoved(g))
      BY <2>1, <1>0, LateStays DEF Unmoved
    <3>2. "clear" \in Stops /\ t = Owner(f)
      BY <1>4, StopAt DEF Stops
    <3>3. Effect(t, f, "stop", "clear")
      BY <1>0, <2>1, <3>1, <3>2 DEF Effect
    <3> QED BY <3>3
  <2>2. CASE /\ f_State[f] # "Running" /\ Gone(t, f, "stop", "none")
             /\ UNCHANGED << f_State, f_late >>
    <3>1. t = Owner(f)
      BY <1>4, StopAt
    <3>2. Effect(t, f, "stop", "none")
      BY <1>0, <2>2, <3>1 DEF Effect, Unmoved
    <3> QED BY <3>2
  <2> QED BY <1>4, <2>1, <2>2, StopAt
<1>5. CASE Flow!Stopping(t, f)
  <2>1. UNCHANGED << f_State, f_late >>
    BY <1>5 DEF Flow!Stopping
  <2>2. \E a, b : /\ Gone(t, f, a, b)
                  /\ \/ a \in {"stop"} \cup Stops /\ b \in Stops
                     \/ a = "wait" /\ b = "none" /\ (f_late[f] \/ f_State[f] = "Stopped")
    BY <1>5, StoppingAt DEF Stops
  <2>3. PICK a, b : /\ Gone(t, f, a, b)
                    /\ \/ a \in {"stop"} \cup Stops /\ b \in Stops
                       \/ a = "wait" /\ b = "none" /\ (f_late[f] \/ f_State[f] = "Stopped")
    BY <2>2
  <2>4. Effect(t, f, a, b)
    BY <1>0, <2>1, <2>3 DEF Effect, Unmoved
  <2> QED BY <2>4
<1>6. CASE Flow!Start(t, f)
  <2>1. CASE /\ f_State[f] = "Stopped" /\ Gone(t, f, "start", "running")
             /\ UNCHANGED f_State /\ Flow!TooLate(t, f)
    <3>1. \A g \in FlowKinds : (f_late[g] => f_late'[g]) /\ (g # f => Unmoved(g))
      BY <2>1, LateStays DEF Unmoved
    <3>2. "start" \in Starts /\ "running" \in Starts \ {"start"} /\ Unmoved(f)
      BY <2>1 DEF Starts, Unmoved
    <3>3. Effect(t, f, "start", "running")
      BY <1>0, <2>1, <3>1, <3>2 DEF Effect
    <3> QED BY <3>3
  <2>2. CASE /\ f_State[f] # "Stopped" /\ Gone(t, f, "start", "none")
             /\ UNCHANGED << f_State, f_late >>
    <3>1. Effect(t, f, "start", "none")
      BY <1>0, <2>2 DEF Effect, Unmoved
    <3> QED BY <3>1
  <2>3. CASE /\ Gone(t, f, "running", "unmask") /\ UNCHANGED f_late
             /\ f_State' = [f_State EXCEPT ![f] = "Running"]
    <3>1. t = Owner(f) /\ "running" \in Starts /\ "unmask" \in Starts \ {"start"}
      BY <1>6, StartAt DEF Starts
    <3>2. \A g \in FlowKinds : g # f => Unmoved(g)
      BY <1>0, <2>3 DEF Unmoved
    <3>3. Effect(t, f, "running", "unmask")
      BY <1>0, <2>3, <3>1, <3>2 DEF Effect
    <3> QED BY <3>3
  <2>4. CASE /\ Gone(t, f, "unmask", "none") /\ UNCHANGED << f_State, f_late >>
             /\ f_late[f] \/ f_State[f] = "Running"
    <3>1. Effect(t, f, "unmask", "none")
      BY <1>0, <2>4 DEF Effect, Unmoved
    <3> QED BY <3>1
  <2> QED BY <1>6, <2>1, <2>2, <2>3, <2>4, StartAt
<1> QED BY <1>1, <1>2, <1>3, <1>4, <1>5, <1>6 DEF FlowAct

LEMMA FlowActType ==
  ASSUME FlowThreads, FlowType, ShapeInv, NEW t \in Flow!Threads, NEW f \in FlowKinds, FlowAt(f),
         FlowAct(t, f)
  PROVE  /\ FlowType' /\ ShapeInv'
         /\ \A g \in FlowKinds \ {f} :
              /\ f_State'[g] = f_State[g] /\ f_count'[g] = f_count[g]
              /\ f_masked'[g] = f_masked[g] /\ f_event'[g] = f_event[g]
              /\ f_held'[g] = f_held[g] /\ f_late'[g] = f_late[g]
<1>1. PICK a, b : Effect(t, f, a, b)
  BY FlowActEffect
<1>2. f_todo' \in [Flow!Threads -> Seq(Record)] /\ ShapeInv'
  BY <1>1 DEF Effect, Gone
<1>3. /\ f_Value' \in BOOLEAN /\ f_refused' \in BOOLEAN
      /\ f_ndis' \in [running : BOOLEAN, powered : BOOLEAN, removed : BOOLEAN, reset : BOOLEAN,
                      halted : BOOLEAN]
  BY <1>1 DEF Effect, FlowType
<1>4. Flow!TooLate(t, f) \/ UNCHANGED f_late
  BY DEF FlowAct, Flow!AddRef, Flow!Release, Flow!CompleteStopping, Flow!Stop, Flow!Stopping, Flow!Start
<1>5. f_late' \in [FlowKinds -> BOOLEAN] /\ \A g \in FlowKinds \ {f} : f_late'[g] = f_late[g]
  BY <1>4, LateStays DEF FlowType
<1>6. /\ f_State' \in [FlowKinds -> {"Running", "Stopping", "Stopped"}]
      /\ f_event' \in [FlowKinds -> BOOLEAN] /\ f_masked' \in [FlowKinds -> BOOLEAN]
      /\ \A g \in FlowKinds \ {f} : f_State'[g] = f_State[g] /\ f_event'[g] = f_event[g]
                                      /\ f_masked'[g] = f_masked[g]
  BY DEF FlowAct, Flow!AddRef, Flow!Release, Flow!CompleteStopping, Flow!Stop, Flow!Stopping,
         Flow!Start, FlowType
<1>7. /\ f_count' \in [FlowKinds -> Int]
      /\ \A g \in FlowKinds \ {f} : f_count'[g] = f_count[g]
  BY DEF FlowAct, Flow!AddRef, Flow!Release, Flow!CompleteStopping, Flow!Stop, Flow!Stopping,
         Flow!Start, FlowType
<1>8. /\ f_held' \in [FlowKinds -> SUBSET FlowUsers]
      /\ \A g \in FlowKinds \ {f} : f_held'[g] = f_held[g]
  <2>1. CASE Flow!AddRef(t, f)
    <3>1. t \in FlowUsers
      BY <2>1, AddRefGoes
    <3>2. /\ f_held' = [f_held EXCEPT ![f] = IF f_masked[f] THEN f_held[f] ELSE f_held[f] \cup {t}]
          /\ f_held \in [FlowKinds -> SUBSET FlowUsers]
      BY <2>1 DEF Flow!AddRef, FlowType
    <3>3. (IF f_masked[f] THEN f_held[f] ELSE f_held[f] \cup {t}) \in SUBSET FlowUsers
      BY <3>1, <3>2
    <3> QED BY <3>2, <3>3
  <2>2. CASE Flow!Release(t, f)
    BY <2>2 DEF Flow!Release, FlowType
  <2>3. CASE UNCHANGED f_held
    BY <2>3 DEF FlowType
  <2> QED BY <2>1, <2>2, <2>3 DEF FlowAct, Flow!CompleteStopping, Flow!Stop, Flow!Stopping,
         Flow!Start
<1> QED BY <1>2, <1>3, <1>5, <1>6, <1>7, <1>8 DEF FlowType

LEMMA FlowActAll ==
  ASSUME FlowThreads, FlowType, ShapeInv, \A g \in FlowKinds : FlowAt(g),
         NEW t \in Flow!Threads, NEW f \in FlowKinds, FlowAct(t, f)
  PROVE  FlowType' /\ ShapeInv' /\ (\A g \in FlowKinds : FlowAt(g)') /\ \E a, b : Effect(t, f, a, b)
<1>1. FlowAt(f)'
  BY FlowActAt
<1>2. PICK a, b : Effect(t, f, a, b)
  BY FlowActEffect
<1>3. ASSUME NEW g \in FlowKinds, g # f PROVE FlowAt(g)'
  <2>1. \A u \in Flow!Threads : Doing(u, g)' = Doing(u, g)
    BY <1>2, <1>3 DEF Effect, Gone, Goes
  <2>2. /\ f_State'[g] = f_State[g] /\ f_count'[g] = f_count[g] /\ f_masked'[g] = f_masked[g]
        /\ f_event'[g] = f_event[g] /\ f_held'[g] = f_held[g] /\ f_late'[g] = f_late[g]
    BY <1>3, FlowActType
  <2> QED BY <1>3, <2>1, <2>2, OtherFlow
<1>4. FlowType' /\ ShapeInv'
  BY FlowActType
<1> QED BY <1>1, <1>2, <1>3, <1>4

(* A thread that had nothing to do gets something; a holder is to release. *)
LEMMA NewlyAt ==
  ASSUME FlowThreads, FlowType, NEW f \in FlowKinds, FlowAt(f), NEW t \in Flow!Threads, Others(t),
         UNCHANGED << f_State, f_count, f_masked, f_event, f_held, f_late >>,
         \/ Doing(t, f)' = Doing(t, f)
         \/ Doing(t, f) = "none" /\ Doing(t, f)' \in {"start", "stop", "addref"}
         \/ Doing(t, f) = "none" /\ Doing(t, f)' = "release" /\ t \in f_held[f]
  PROVE  FlowAt(f)'
<1>1. Owner(f) \in Flow!Threads /\ Owner(f) \notin f_held[f]
  BY KindIs DEF Owner, Flow!Threads, FlowType
<1>2. \A u \in Flow!Threads \ {t} : Doing(u, f)' = Doing(u, f)
  BY DEF Others
<1>3. \A u \in Flow!Threads : IsOut(u, f)' <=> IsOut(u, f)
  BY <1>2 DEF IsOut
<1>4. Outs(f)' = Outs(f)
  BY <1>3 DEF Outs
<1>5. \/ Doing(Owner(f), f)' = Doing(Owner(f), f)
      \/ Doing(Owner(f), f) = "none" /\ Doing(Owner(f), f)' \in {"start", "stop", "addref"}
  BY <1>1, <1>2
<1>6. SUFFICES ASSUME StateAt(f), EndAt(f), CountAt(f)
               PROVE  StateAt(f)' /\ EndAt(f)' /\ CountAt(f)'
  BY DEF FlowAt
<1>7. StateAt(f)'
  BY <1>5, <1>6 DEF StateAt, Stops, Completes
<1>8. EndAt(f)'
  BY <1>2, <1>5, <1>6 DEF EndAt, Completes
<1>9. Mine(f)' = Mine(f)
  BY <1>5 DEF Mine
<1> QED BY <1>4, <1>6, <1>7, <1>8, <1>9 DEF CountAt
-----------------------------------------------------------------------------
(* The binding: what the virtual function does, against the flow and the   *)
(* pointer.                                                                *)
BindAt(h, r) ==
  LET s == f_State["binding"] IN
  "binding" \in FlowKinds /\ ~f_late["binding"] =>
    /\ ~f_Value => s = "Stopped" /\ h = "none" /\ r # NullFlow
    /\ f_Value => r # Flow!Set
    /\ h = "start" => s = "Stopped"
    /\ h = "none" /\ r = << >> /\ f_Value => s = "Running"
    /\ h = "stop" => s = "Running"
    /\ h = "none" /\ r # << >> => s = "Stopped"
BindInv == \E h, r : VfAt(h, r) /\ BindAt(h, r)

LEMMA ListsDiffer ==
  /\ NullFlow # << >> /\ Flow!Set # << >> /\ NullFlow # Flow!Set
  /\ Head(NullFlow) = Flow!Op("null", "binding") /\ Tail(NullFlow) = << >>
  /\ Head(Flow!Set) = Flow!Op("set", "binding") /\ Tail(Flow!Set) = << Flow!Op("start", "binding") >>
<1> DEFINE x == Flow!Op("null", "binding") y == Flow!Op("set", "binding")
           z == Flow!Op("start", "binding")
<1>1. NullFlow = << x >> /\ Flow!Set = << y, z >> /\ x # y
  BY OpIs DEF NullFlow, Flow!Set
<1> HIDE DEF x, y, z
<1>2. /\ << x >> # << >> /\ << y, z >> # << >> /\ Head(<< x >>) = x /\ Tail(<< x >>) = << >>
      /\ Head(<< y, z >>) = y /\ Tail(<< y, z >>) = << z >>
  OBVIOUS
<1>3. << x >> # << y, z >>
  BY <1>1, <1>2
<1>4. /\ NullFlow # << >> /\ Flow!Set # << >> /\ NullFlow # Flow!Set
      /\ Head(NullFlow) = x /\ Tail(NullFlow) = << >>
      /\ Head(Flow!Set) = y /\ Tail(Flow!Set) = << z >>
  BY <1>1, <1>2, <1>3, Zenon
<1> QED BY <1>4 DEF x, y, z

LEMMA BindFlow ==
  ASSUME FlowThreads, ShapeInv, BindInv, NEW t \in Flow!Threads, NEW f \in FlowKinds,
         NEW a, NEW b, Effect(t, f, a, b)
  PROVE  BindInv'
<1>1. PICK h, r : VfAt(h, r) /\ BindAt(h, r)
  BY DEF BindInv
<1>2. /\ f \in {"data", "binding"} /\ Owner(f) \in {"ndis", "vf"} /\ Owner(f) \notin FlowUsers
      /\ "vf" \notin FlowUsers /\ "vf" \in Flow!Threads
  BY KindIs DEF FlowThreads, Flow!Threads
<1>3. t \in {Owner(f)} \cup FlowUsers /\ Goes(t, f, a, b)
  BY DEF Effect, Gone, Goes
<1>4. CASE t # "vf"
  <2>1. f_todo'["vf"] = f_todo["vf"]
    BY <1>2, <1>3, <1>4 DEF Goes
  <2>2. VfAt(h, r)'
    BY <1>1, <2>1 DEF VfAt
  <2>3. BindAt(h, r)'
    <3>1. SUFFICES ASSUME "binding" \in FlowKinds, ~f_late'["binding"] PROVE BindAt(h, r)'
      BY DEF BindAt
    <3>2. ~f_late["binding"] /\ f_Value' = f_Value
      BY <3>1 DEF Effect
    <3>3. \/ f_State'["binding"] = f_State["binding"]
          \/ f_State'["binding"] = "Stopped" /\ f_State["binding"] # "Running"
      BY <1>2, <1>3, <1>4, <3>1, <3>2 DEF Effect, Unmoved, Owner
    <3> QED BY <1>1, <3>1, <3>2, <3>3 DEF BindAt
  <2> QED BY <2>2, <2>3 DEF BindInv
<1>5. CASE t = "vf"
  <2>1. f = "binding" /\ t = Owner(f)
    BY <1>2, <1>3, <1>5 DEF Owner
  <2>2. h = a /\ VfAt(b, r)'
    BY <1>1, <1>3, <1>5 DEF Goes
  <2>3. BindAt(b, r)'
    <3>1. SUFFICES ASSUME "binding" \in FlowKinds, ~f_late'["binding"] PROVE BindAt(b, r)'
      BY DEF BindAt
    <3>2. ~f_late["binding"] /\ f_Value' = f_Value
      BY <3>1 DEF Effect
    <3>3. a # "none"
      BY <2>1 DEF Effect, Starts, Stops, Completes
    <3>4. f_Value' /\ r # Flow!Set
      BY <1>1, <2>2, <3>1, <3>2, <3>3 DEF BindAt
    <3>5. r = << >> => a \in Starts
      BY <1>1, <2>2, <3>3, ListsDiffer DEF VfAt
    <3>6. r # << >> => r = NullFlow /\ a \in {"stop"} \cup Stops
      BY <1>1, <2>2, <3>3, <3>4 DEF VfAt
    <3>7. CASE b \notin {"none", "start", "stop"}
      BY <3>4, <3>7 DEF BindAt
    <3>8. CASE b \in {"none", "start", "stop"}
      <4>1. \/ a = "stop" /\ b = "none" /\ Unmoved(f) /\ f_State[f] # "Running"
            \/ a = "start" /\ b = "none" /\ Unmoved(f) /\ f_State[f] # "Stopped"
            \/ a = "wait" /\ b = "none" /\ Unmoved(f) /\ (f_late[f] \/ f_State[f] = "Stopped")
            \/ a = "unmask" /\ b = "none" /\ Unmoved(f) /\ (f_late[f] \/ f_State[f] = "Running")
        BY <2>1, <3>8 DEF Effect, Starts, Stops, Completes
      <4>2. \/ a = "wait" /\ b = "none" /\ f_State'["binding"] = "Stopped"
            \/ a = "unmask" /\ b = "none" /\ f_State'["binding"] = "Running"
        BY <1>1, <2>1, <2>2, <3>1, <3>2, <4>1 DEF BindAt, Unmoved
      <4>3. a = "wait" => r # << >>
        BY <3>5 DEF Starts
      <4>4. a = "unmask" => r = << >>
        BY <3>6 DEF Stops, Completes
      <4> QED BY <3>4, <4>2, <4>3, <4>4 DEF BindAt
    <3> QED BY <3>7, <3>8
  <2> QED BY <2>2, <2>3 DEF BindInv
<1> QED BY <1>4, <1>5

LEMMA VfHead ==
  ASSUME FlowThreads, ShapeInv, NEW h, NEW r, VfAt(h, r), NEW t \in Flow!Threads,
         NEW op \in {"set", "null"}, Flow!At(t, op, "binding")
  PROVE  /\ t = "vf" /\ h = "none" /\ f_todo["vf"] = r /\ "binding" \in FlowKinds
         /\ r = IF op = "set" THEN Flow!Set ELSE NullFlow
<1>1. f_todo[t] # << >> /\ Head(f_todo[t]) = Flow!Op(op, "binding")
  BY DEF Flow!At
<1>2. ASSUME NEW k \in Acts, NEW g PROVE Head(f_todo[t]) # Flow!Op(k, g)
  <2>1. op # k
    BY DEF Acts, Owned, Starts, Stops, Completes, Shared
  <2> QED BY <1>1, <2>1, OpIs
<1>3. t \notin FlowUsers
  <2>1. ASSUME t \in FlowUsers PROVE FALSE
    <3>1. PICK g \in FlowKinds, k \in Shared : f_todo[t] = UserPart(k, g)
      BY <1>1, <2>1 DEF ShapeInv, UserAt
    <3>2. k # "none" /\ k \in Shared \cup {"none"} /\ k \in Acts
      BY DEF Shared, Acts, Completes
    <3>3. Head(UserPart(k, g)) = Flow!Op(k, g)
      BY <3>2, AboutUser
    <3> QED BY <1>2, <3>1, <3>2, <3>3
  <2> QED BY <2>1
<1>4. t # "cx"
  <2>1. ASSUME t = "cx" PROVE FALSE
    <3>1. Head(f_todo[t]) = Flow!Op("needs_reset", "cx")
      BY <1>1, <2>1 DEF ShapeInv
    <3> QED BY <1>1, <3>1, OpIs
  <2> QED BY <2>1
<1>5. t # "ndis"
  <2>1. ASSUME t = "ndis" PROVE FALSE
    <3>1. PICK k, q : NdisAt(k, q)
      BY DEF ShapeInv
    <3>2. /\ k \in Owned \cup {"none"} /\ f_todo["ndis"] = Part(k, "data") \o q
          /\ q \in Seq(MpRecord) /\ q \in Seq(Record) /\ (q # << >> => Head(q).f = "mp")
      BY <3>1, MpCalm DEF NdisAt
    <3>3. CASE k \in Owned
      <4>1. Part(k, "data") \in Seq(Record) /\ Part(k, "data") # << >>
            /\ Head(Part(k, "data")) = Flow!Op(k, "data")
        BY <3>3, PartIs
      <4>2. Head(f_todo["ndis"]) = Flow!Op(k, "data")
        BY <3>2, <4>1, JoinTail
      <4> QED BY <1>1, <2>1, <4>2, OpIs
    <3>4. CASE k = "none"
      <4>1. Part(k, "data") \o q = q
        BY <3>2, <3>4, PartNone
      <4>2. Flow!Op(op, "binding").f = "binding"
        BY OpIs
      <4> QED BY <1>1, <2>1, <3>2, <4>1, <4>2
    <3> QED BY <3>2, <3>3, <3>4
  <2> QED BY <2>1
<1>6. t = "vf"
  BY <1>3, <1>4, <1>5 DEF Flow!Threads
<1>7. h \in Owned \cup {"none"} /\ Calm(r) /\ f_todo["vf"] = Part(h, "binding") \o r
  BY VfCalm
<1>8. h = "none"
  <2>1. ASSUME h \in Owned PROVE FALSE
    <3>1. Part(h, "binding") \in Seq(Record) /\ Part(h, "binding") # << >>
          /\ Head(Part(h, "binding")) = Flow!Op(h, "binding") /\ h \in Acts
      BY <2>1, PartIs DEF Acts
    <3>2. Head(f_todo["vf"]) = Flow!Op(h, "binding")
      BY <1>7, <3>1, JoinTail DEF Calm
    <3> QED BY <1>2, <1>6, <3>1, <3>2
  <2> QED BY <1>7, <2>1
<1>9. f_todo["vf"] = r
  BY <1>7, <1>8, PartNone DEF Calm
<1>10. r \in {<< >>, NullFlow, Flow!Set} /\ (r # << >> => "binding" \in FlowKinds)
  BY DEF VfAt
<1>11. Flow!Op("set", "binding") # Flow!Op("null", "binding")
  BY OpIs
<1> QED BY <1>1, <1>6, <1>8, <1>9, <1>10, <1>11, ListsDiffer

LEMMA SetValueAt ==
  ASSUME FlowThreads, FlowType, ShapeInv, BindInv, NEW t \in Flow!Threads, Flow!SetValue(t)
  PROVE  /\ t = "vf" /\ Others("vf") /\ BindInv' /\ Doing("vf", "data")' = Doing("vf", "data")
         /\ f_Value' \in BOOLEAN
         /\ Doing("vf", "binding") = "none" /\ Doing("vf", "binding")' \in {"none", "start"}
<1>1. PICK h, r : VfAt(h, r) /\ BindAt(h, r)
  BY DEF BindInv
<1>2. /\ UNCHANGED << f_State, f_late, f_held >>
      /\ Doing("vf", "binding") = h /\ Doing("vf", "data") = "none"
  BY <1>1, VfCalm DEF Flow!SetValue
<1>3. \/ Flow!At(t, "set", "binding") /\ f_Value' = TRUE
      \/ Flow!At(t, "null", "binding") /\ f_Value' = FALSE
  BY DEF Flow!SetValue
<1>4. f_todo' = [f_todo EXCEPT ![t] = << >> \o Tail(f_todo[t])]
  BY DEF Flow!SetValue, Flow!Then
<1>5. CASE Flow!At(t, "set", "binding") /\ f_Value' = TRUE
  <2>1. t = "vf" /\ h = "none" /\ f_todo["vf"] = r /\ "binding" \in FlowKinds /\ r = Flow!Set
    BY <1>1, <1>5, VfHead
  <2>2. << >> \o Tail(Flow!Set) = Part("start", "binding") \o << >>
    <3>1. Tail(Flow!Set) = << Flow!Op("start", "binding") >>
      BY ListsDiffer
    <3>2. Part("start", "binding") = << Flow!Op("start", "binding") >>
      BY DEF Part
    <3>3. \A x : << >> \o << x >> = << x >> \o << >>
      OBVIOUS
    <3> QED BY <3>1, <3>2, <3>3, Zenon
  <2>3. f_todo' = [f_todo EXCEPT !["vf"] = Part("start", "binding") \o << >>]
    BY <1>4, <2>1, <2>2
  <2>4. /\ Others("vf") /\ VfAt("start", << >>)'
        /\ Doing("vf", "binding")' = "start" /\ Doing("vf", "data")' = "none"
    BY <1>2, <2>1, <2>3, VfList
  <2>5. BindAt("start", << >>)'
    BY <1>1, <1>2, <1>5, <2>1, ListsDiffer DEF BindAt
  <2> QED BY <1>2, <1>5, <2>1, <2>4, <2>5 DEF BindInv
<1>6. CASE Flow!At(t, "null", "binding") /\ f_Value' = FALSE
  <2>1. t = "vf" /\ h = "none" /\ f_todo["vf"] = r /\ "binding" \in FlowKinds /\ r = NullFlow
    BY <1>1, <1>6, VfHead
  <2>2. << >> \o Tail(NullFlow) = Part("none", "binding") \o << >>
    <3>1. Tail(NullFlow) = << >> /\ Part("none", "binding") = << >>
      BY ListsDiffer, PartNone
    <3> QED BY <3>1
  <2>3. f_todo' = [f_todo EXCEPT !["vf"] = Part("none", "binding") \o << >>]
    BY <1>4, <2>1, <2>2
  <2>4. /\ Others("vf") /\ VfAt("none", << >>)'
        /\ Doing("vf", "binding")' = "none" /\ Doing("vf", "data")' = "none"
    BY <1>2, <2>1, <2>3, VfList
  <2>5. BindAt("none", << >>)'
    BY <1>1, <1>2, <1>6, <2>1, ListsDiffer DEF BindAt
  <2> QED BY <1>2, <1>6, <2>1, <2>4, <2>5 DEF BindInv
<1> QED BY <1>3, <1>5, <1>6

LEMMA BindStep ==
  ASSUME FlowThreads, FlowType, ShapeInv, BindInv, Flow!Bind
  PROVE  /\ Others("vf") /\ BindInv' /\ Doing("vf", "data")' = Doing("vf", "data")
         /\ Doing("vf", "binding") = "none" /\ Doing("vf", "binding")' \in {"none", "stop"}
<1>1. PICK h, r : VfAt(h, r) /\ BindAt(h, r)
  BY DEF BindInv
<1>2. /\ UNCHANGED << f_State, f_late, f_held, f_Value >> /\ "binding" \in FlowKinds
      /\ Doing("vf", "binding") = h /\ Doing("vf", "data") = "none" /\ f_todo["vf"] = << >>
  BY <1>1, VfCalm DEF Flow!Bind, Flow!flowVars
<1>3. h = "none" /\ r = << >>
  <2>1. Calm(r) /\ h \in Owned \cup {"none"} /\ f_todo["vf"] = Part(h, "binding") \o r
    BY <1>1, VfCalm
  <2>2. h = "none"
    BY <1>2 DEF Doing, About
  <2>3. Part("none", "binding") \o r = r
    BY <2>1, PartNone DEF Calm
  <2> QED BY <1>2, <2>1, <2>2, <2>3
<1>4. CASE f_Value
  <2>1. f_todo' = [f_todo EXCEPT !["vf"] = Flow!Clear]
    BY <1>4 DEF Flow!Bind
  <2>2. Flow!Clear = Part("stop", "binding") \o NullFlow
    BY JoinTwo DEF Flow!Clear, Part, NullFlow
  <2>3. /\ Others("vf") /\ VfAt("stop", NullFlow)'
        /\ Doing("vf", "binding")' = "stop" /\ Doing("vf", "data")' = "none"
    BY <1>2, <2>1, <2>2, VfList
  <2>4. BindAt("stop", NullFlow)'
    BY <1>1, <1>2, <1>3, <1>4, ListsDiffer DEF BindAt
  <2> QED BY <1>2, <1>3, <2>3, <2>4 DEF BindInv
<1>5. CASE ~f_Value
  <2>1. f_todo' = [f_todo EXCEPT !["vf"] = Flow!Set]
    BY <1>5 DEF Flow!Bind
  <2>2. Flow!Set = Part("none", "binding") \o Flow!Set
    BY PartNone DEF Flow!Set
  <2>3. /\ Others("vf") /\ VfAt("none", Flow!Set)'
        /\ Doing("vf", "binding")' = "none" /\ Doing("vf", "data")' = "none"
    BY <1>2, <2>1, <2>2, VfList
  <2>4. BindAt("none", Flow!Set)'
    BY <1>1, <1>2, <1>3, <1>5, ListsDiffer DEF BindAt
  <2> QED BY <1>2, <1>3, <2>3, <2>4 DEF BindInv
<1> QED BY <1>4, <1>5
-----------------------------------------------------------------------------
(* The miniport: where NDIS is in what it asked for, against the states of *)
(* the adapter and of its data flow.                                       *)
Phases == {"idle", "restarted", "paused", "removed", "shutdown", "faster", "resume", "suspend",
           "reset", "fast", "off", "off2", "off3", "off4", "on", "gone", "halt", "halt2", "halt3"}
First(k) ==
  CASE k \in {"suspend", "reset"}     -> "suspend"
    [] k \in {"off", "gone", "halt"}  -> "device_off"
    [] k \in {"off2", "halt2"}        -> "prevent_dpc"
    [] k \in {"off3", "halt3"}        -> "wait_dpc"
    [] k = "off4"                     -> "shutdown_queues"
    [] k = "on"                       -> "device_on"
    [] OTHER                          -> k
Todo(k) ==
  CASE k = "idle"    -> << >>
    [] k = "suspend" -> Flow!PowerOff
    [] k = "reset"   -> Flow!PowerOff \o Flow!PowerOn
    [] k = "fast"    -> << Flow!Op("fast", "mp"), Flow!Op("device_off", "mp"),
                           Flow!Op("prevent_dpc", "mp"), Flow!Op("shutdown_queues", "mp") >>
    [] k = "off"     -> << Flow!Op("device_off", "mp"), Flow!Op("prevent_dpc", "mp"),
                           Flow!Op("shutdown_queues", "mp") >>
    [] k = "off2"    -> << Flow!Op("prevent_dpc", "mp"), Flow!Op("shutdown_queues", "mp") >>
    [] k = "off3"    -> << Flow!Op("wait_dpc", "mp"), Flow!Op("shutdown_queues", "mp") >>
    [] k = "on"      -> Flow!PowerOn
    [] k = "halt"    -> Flow!Halting
    [] OTHER         -> << Flow!Op(First(k), "mp") >>

Runs    == f_ndis.running
Powered == f_ndis.powered
Steady  == IF Powered THEN IF Runs THEN "Running" ELSE "Paused"
           ELSE IF Runs THEN "FastSuspend" ELSE "Suspended"
FlowIs(b) ==
  "data" \in FlowKinds /\ ~f_late["data"] => f_State["data"] = IF b THEN "Running" ELSE "Stopped"
Begins(h) == /\ h \in Starts \cup {"none"}
             /\ (h = "start" => FlowIs(FALSE)) /\ (h = "none" => FlowIs(TRUE))
Ends(h)   == /\ h \in {"none", "stop"} \cup Stops
             /\ (h = "stop" => FlowIs(TRUE)) /\ (h = "none" => FlowIs(FALSE))
Live(set) == f_mp \in IF Runs THEN {"Running"} \cup set ELSE {"Paused"}
Known(h, k) ==
  \/ /\ k = "idle" /\ h = "none" /\ FlowIs(Runs /\ Powered)
     /\ \/ f_mp = Steady
        \/ f_mp \in {"NeedsReset", "SurpriseRemoved"} /\ Runs /\ Powered
        \/ f_mp = "Shutdown" /\ ~Runs /\ Powered
  \/ k = "restarted" /\ Begins(h) /\ f_mp = "Paused" /\ Runs /\ Powered
  \/ k = "paused" /\ Ends(h) /\ ~Runs /\ Powered /\ f_mp \in {"Running", "NeedsReset", "SurpriseRemoved"}
  \/ k = "suspend" /\ h = "none" /\ ~Powered /\ FlowIs(Runs) /\ Live({"NeedsReset"})
  \/ k = "reset" /\ h = "none" /\ f_mp = "NeedsReset"
  \/ k = "fast" /\ Ends(h) /\ Runs /\ ~Powered /\ f_mp \in {"Running", "NeedsReset"}
  \/ k \in {"off", "off2", "off3", "off4"} /\ h = "none" /\ ~Powered /\ f_mp = Steady /\ FlowIs(FALSE)
  \/ /\ k \in {"on", "resume"} /\ h = "none" /\ Powered /\ FlowIs(FALSE)
     /\ f_mp = IF Runs THEN "FastSuspend" ELSE "Suspended"
  \/ k = "faster" /\ Begins(h) /\ f_mp = "FastSuspend" /\ Runs /\ Powered
  \/ k = "removed" /\ h = "none" /\ f_ndis.removed /\ Powered /\ FlowIs(Runs) /\ Live({"NeedsReset"})
  \/ k = "gone" /\ h = "none" /\ Runs /\ Powered /\ f_mp = "SurpriseRemoved" /\ FlowIs(TRUE)
  \/ /\ k = "shutdown" /\ h = "none" /\ f_ndis.halted /\ Powered /\ FlowIs(Runs)
     /\ Live({"NeedsReset", "SurpriseRemoved"})
  \/ /\ k \in {"halt", "halt2", "halt3"} /\ h = "none" /\ ~Runs
     /\ f_mp \in {"Paused", "Suspended"} /\ f_mp = Steady /\ FlowIs(FALSE)
MpInv == ~f_refused => \E k \in Phases, h \in Owned \cup {"none"} : NdisAt(h, Todo(k)) /\ Known(h, k)
FlagsInv ==
  /\ f_refused => f_ndis.reset \/ f_ndis.removed \/ f_ndis.halted
  /\ f_needsReset => f_ndis.reset
  /\ f_todo["cx"] # << >> => f_ndis.reset
  /\ ~f_refused => /\ f_mp = "NeedsReset" => f_ndis.reset
                   /\ f_mp = "SurpriseRemoved" => f_ndis.removed
                   /\ f_mp = "Shutdown" => f_ndis.halted
                   /\ f_bDeviceNeedsReset => f_mp = "NeedsReset"

LEMMA JoinFour ==
  ASSUME NEW a, NEW b, NEW c, NEW d PROVE << a, b, c >> \o << d >> = << a, b, c, d >>
<1>1. /\ << a, b, c >> \in Seq({a, b, c, d}) /\ << d >> \in Seq({a, b, c, d})
      /\ << a, b, c, d >> \in Seq({a, b, c, d})
  OBVIOUS
<1>2. << a, b, c >> \o << d >> \in Seq({a, b, c, d})
  BY <1>1
<1>3. Len(<< a, b, c >> \o << d >>) = 4 /\ Len(<< a, b, c, d >>) = 4
  BY <1>1
<1>4. \A i \in 1 .. 4 : (<< a, b, c >> \o << d >>)[i] = << a, b, c, d >>[i]
  BY <1>1
<1> QED BY <1>1, <1>2, <1>3, <1>4, EqualSeqs

LEMMA JoinHead ==
  ASSUME NEW a, NEW b, NEW c, NEW d
  PROVE  << a >> \o << b, c, d >> = << a, b, c, d >>
<1>1. << b >> \o << c >> = << b, c >>
  BY JoinTwo, Zenon
<1>2. << a >> \o << b >> = << a, b >>
  BY JoinTwo, Zenon
<1>3. << a, b >> \o << c >> = << a, b, c >>
  BY JoinThree, Zenon
<1>4. << b, c >> \o << d >> = << b, c, d >>
  BY JoinThree, Zenon
<1>5. << a, b, c >> \o << d >> = << a, b, c, d >>
  BY JoinFour, Zenon
<1>6. << a >> \o (<< b >> \o << c >>) = (<< a >> \o << b >>) \o << c >>
  OBVIOUS
<1>7. << a >> \o (<< b, c >> \o << d >>) = (<< a >> \o << b, c >>) \o << d >>
  OBVIOUS
<1>8. << a >> \o << b, c >> = << a, b, c >>
  BY <1>1, <1>2, <1>3, <1>6, Zenon
<1> QED BY <1>4, <1>5, <1>7, <1>8, Zenon

LEMMA MpOps == \A x \in MpActs : Flow!Op(x, "mp") \in MpRecord
BY DEF Flow!Op, MpRecord

(* The lists, spelled out.                                                 *)
LEMMA PowerLists ==
  /\ Flow!PowerOff = << Flow!Op("suspend", "mp"), Flow!Op("device_off", "mp"),
                        Flow!Op("prevent_dpc", "mp"), Flow!Op("shutdown_queues", "mp") >>
  /\ Flow!PowerOn = << Flow!Op("device_on", "mp"), Flow!Op("resume", "mp") >>
  /\ Flow!Halting = << Flow!Op("device_off", "mp"), Flow!Op("prevent_dpc", "mp") >>
<1> DEFINE a == Flow!Op("suspend", "mp")     b == Flow!Op("device_off", "mp")
           c == Flow!Op("prevent_dpc", "mp") d == Flow!Op("shutdown_queues", "mp")
           e == Flow!Op("device_on", "mp")   g == Flow!Op("resume", "mp")
<1>1. /\ Flow!PowerOff = << a >> \o << b >> \o << c >> \o << d >>
      /\ Flow!PowerOn = << e >> \o << g >> /\ Flow!Halting = << b >> \o << c >>
  BY DEF Flow!PowerOff, Flow!PowerOn, Flow!Halting, Flow!Mp
<1> HIDE DEF a, b, c, d, e, g
<1>2. /\ << a >> \o << b >> = << a, b >> /\ << e >> \o << g >> = << e, g >>
      /\ << b >> \o << c >> = << b, c >>
  BY JoinTwo, Zenon
<1>4. << a, b >> \o << c >> = << a, b, c >>
  BY JoinThree, Zenon
<1>5. << a, b, c >> \o << d >> = << a, b, c, d >>
  BY JoinFour, Zenon
<1>3. /\ Flow!PowerOff = << a, b, c, d >> /\ Flow!PowerOn = << e, g >> /\ Flow!Halting = << b, c >>
  BY <1>1, <1>2, <1>4, <1>5, Zenon
<1> QED BY <1>3 DEF a, b, c, d, e, g

LEMMA TodoIs ==
  ASSUME NEW k \in Phases
  PROVE  /\ Todo(k) \in Seq(MpRecord) /\ (k = "idle" <=> Todo(k) = << >>)
         /\ k # "idle" => Head(Todo(k)) = Flow!Op(First(k), "mp")
<1>1. /\ \A x \in MpActs : Flow!Op(x, "mp") \in MpRecord
      /\ {"restarted", "paused", "suspend", "fast", "device_off", "prevent_dpc", "wait_dpc",
          "shutdown_queues", "device_on", "resume", "faster", "removed", "shutdown"} = MpActs
  BY MpOps DEF MpActs
<1>2. CASE k = "idle"
  BY <1>2 DEF Todo
<1>3. CASE k = "suspend"
  BY <1>1, <1>3, PowerLists DEF Todo, First
<1>4. CASE k = "on"
  BY <1>1, <1>4, PowerLists DEF Todo, First
<1>5. CASE k = "halt"
  BY <1>1, <1>5, PowerLists DEF Todo, First
<1>6. CASE k = "reset"
  <2>1. /\ Flow!PowerOff \in Seq(MpRecord) /\ Flow!PowerOn \in Seq(MpRecord) /\ Flow!PowerOff # << >>
        /\ Head(Flow!PowerOff) = Flow!Op("suspend", "mp")
    BY <1>1, PowerLists
  <2>2. /\ Flow!PowerOff \o Flow!PowerOn \in Seq(MpRecord) /\ Flow!PowerOff \o Flow!PowerOn # << >>
        /\ Head(Flow!PowerOff \o Flow!PowerOn) = Flow!Op("suspend", "mp")
    BY <2>1, JoinTail
  <2>3. Todo(k) = Flow!PowerOff \o Flow!PowerOn /\ First(k) = "suspend"
    BY <1>6 DEF Todo, First
  <2> QED BY <1>6, <2>2, <2>3
<1>7. CASE k \in {"fast", "off", "off2", "off3"}
  <2>1. CASE k = "fast"
    BY <1>1, <2>1 DEF Todo, First
  <2>2. CASE k = "off"
    BY <1>1, <2>2 DEF Todo, First
  <2>3. CASE k = "off2"
    BY <1>1, <2>3 DEF Todo, First
  <2>4. CASE k = "off3"
    BY <1>1, <2>4 DEF Todo, First
  <2> QED BY <1>7, <2>1, <2>2, <2>3, <2>4
<1>8. CASE k \in {"restarted", "paused", "removed", "shutdown", "faster", "resume", "off4", "gone",
                  "halt2", "halt3"}
  <2>1. Todo(k) = << Flow!Op(First(k), "mp") >>
    BY <1>8 DEF Todo
  <2>2. First(k) \in MpActs
    BY <1>1, <1>8 DEF First
  <2>3. Flow!Op(First(k), "mp") \in MpRecord
    BY <1>1, <2>2
  <2> QED BY <1>8, <2>1, <2>3
<1> QED BY <1>2, <1>3, <1>4, <1>5, <1>6, <1>7, <1>8 DEF Phases

LEMMA TodoNext ==
  /\ \A k \in {"restarted", "paused", "shutdown", "faster", "resume", "off4", "gone", "halt3"} :
       << >> \o Tail(Todo(k)) = Todo("idle")
  /\ Flow!Mp("device_off") \o Tail(Todo("removed")) = Todo("gone")
  /\ Flow!Mp("faster") \o Tail(Todo("resume")) = Todo("faster")
  /\ Flow!Mp("fast") \o Tail(Todo("suspend")) = Todo("fast")
  /\ << >> \o Tail(Todo("suspend")) = Todo("off")
  /\ << >> \o Tail(Todo("fast")) = Todo("off")
  /\ << >> \o Tail(Todo("off")) = Todo("off2")
  /\ Flow!Mp("wait_dpc") \o Tail(Todo("off2")) = Todo("off3")
  /\ << >> \o Tail(Todo("off3")) = Todo("off4")
  /\ << >> \o Tail(Todo("on")) = Todo("resume")
  /\ << >> \o Tail(Todo("halt")) = Todo("halt2")
  /\ Flow!Mp("wait_dpc") \o Tail(Todo("halt2")) = Todo("halt3")
<1> DEFINE a == Flow!Op("suspend", "mp")     b == Flow!Op("device_off", "mp")
           c == Flow!Op("prevent_dpc", "mp") d == Flow!Op("shutdown_queues", "mp")
           e == Flow!Op("device_on", "mp")   g == Flow!Op("resume", "mp")
           i == Flow!Op("fast", "mp")        j == Flow!Op("wait_dpc", "mp")
           l == Flow!Op("removed", "mp")     n == Flow!Op("faster", "mp")
<1>1. /\ Todo("idle") = << >> /\ Todo("suspend") = << a, b, c, d >> /\ Todo("fast") = << i, b, c, d >>
      /\ Todo("off") = << b, c, d >> /\ Todo("off2") = << c, d >> /\ Todo("off3") = << j, d >>
      /\ Todo("off4") = << d >> /\ Todo("on") = << e, g >> /\ Todo("resume") = << g >>
      /\ Todo("halt") = << b, c >> /\ Todo("halt2") = << c >> /\ Todo("halt3") = << j >>
      /\ Todo("gone") = << b >> /\ Todo("removed") = << l >> /\ Todo("faster") = << n >>
  BY PowerLists DEF Todo, First
<1>2. /\ Flow!Mp("device_off") = << b >> /\ Flow!Mp("faster") = << n >> /\ Flow!Mp("fast") = << i >>
      /\ Flow!Mp("wait_dpc") = << j >>
  BY DEF Flow!Mp
<1>3. \A k \in {"restarted", "paused", "shutdown", "faster", "resume", "off4", "gone", "halt3"} :
        Todo(k) = << Flow!Op(First(k), "mp") >>
  BY DEF Todo
<1> HIDE DEF a, b, c, d, e, g, i, j, l, n
<1>4. /\ \A x : Tail(<< x >>) = << >> /\ << x >> \o << >> = << x >>
      /\ << >> \o << >> = << >>
  OBVIOUS
<1>5. /\ Tail(<< a, b, c, d >>) = << b, c, d >> /\ Tail(<< i, b, c, d >>) = << b, c, d >>
      /\ << >> \o << b, c, d >> = << b, c, d >>
  OBVIOUS
<1>6. /\ Tail(<< b, c, d >>) = << c, d >> /\ << >> \o << c, d >> = << c, d >>
      /\ Tail(<< c, d >>) = << d >> /\ Tail(<< j, d >>) = << d >> /\ << >> \o << d >> = << d >>
  OBVIOUS
<1>7. /\ Tail(<< e, g >>) = << g >> /\ << >> \o << g >> = << g >>
      /\ Tail(<< b, c >>) = << c >> /\ << >> \o << c >> = << c >>
  OBVIOUS
<1>8. << i >> \o << b, c, d >> = << i, b, c, d >>
  BY JoinHead, Zenon
<1>9. << j >> \o << d >> = << j, d >>
  BY JoinTwo
<1>10. /\ Flow!Mp("device_off") \o Tail(Todo("removed")) = Todo("gone")
       /\ Flow!Mp("faster") \o Tail(Todo("resume")) = Todo("faster")
       /\ Flow!Mp("wait_dpc") \o Tail(Todo("halt2")) = Todo("halt3")
  BY <1>1, <1>2, <1>4, Zenon
<1>11. /\ Flow!Mp("fast") \o Tail(Todo("suspend")) = Todo("fast")
       /\ << >> \o Tail(Todo("suspend")) = Todo("off")
       /\ << >> \o Tail(Todo("fast")) = Todo("off")
  BY <1>1, <1>2, <1>5, <1>8, Zenon
<1>12. /\ << >> \o Tail(Todo("off")) = Todo("off2")
       /\ Flow!Mp("wait_dpc") \o Tail(Todo("off2")) = Todo("off3")
       /\ << >> \o Tail(Todo("off3")) = Todo("off4")
  BY <1>1, <1>2, <1>6, <1>9, Zenon
<1>13. << >> \o Tail(Todo("on")) = Todo("resume") /\ << >> \o Tail(Todo("halt")) = Todo("halt2")
  BY <1>1, <1>7, Zenon
<1>14. \A k \in {"restarted", "paused", "shutdown", "faster", "resume", "off4", "gone", "halt3"} :
         << >> \o Tail(Todo(k)) = Todo("idle")
  BY <1>1, <1>3, <1>4, Zenon
<1> QED BY <1>10, <1>11, <1>12, <1>13, <1>14

LEMMA PhaseOf ==
  ASSUME NEW k \in Phases
  PROVE  /\ First(k) = "device_off" => k \in {"off", "gone", "halt"}
         /\ First(k) = "prevent_dpc" => k \in {"off2", "halt2"}
         /\ First(k) = "wait_dpc" => k \in {"off3", "halt3"}
         /\ First(k) = "shutdown_queues" => k = "off4"
         /\ First(k) = "device_on" => k = "on"
         /\ First(k) = "suspend" => k \in {"suspend", "reset"}
         /\ \A op \in {"restarted", "paused", "removed", "shutdown", "faster", "resume", "fast"} :
              First(k) = op => k = op
BY DEF First, Phases

(* An operation of the miniport: NDIS goes on to h at the data flow, and   *)
(* to y.                                                                   *)
LEMMA MpGoes ==
  ASSUME FlowThreads, FlowType, ShapeInv, UNCHANGED f_held, NEW op, Flow!At("ndis", op, "mp"),
         NEW h \in {"none", "start", "stop"}, NEW y \in Seq(MpRecord),
         Flow!Then("ndis", Part(h, "data") \o y)
  PROVE  /\ Others("ndis") /\ \A r : r = f_todo["ndis"] => NdisAt(h, y \o Tail(r))'
         /\ Doing("ndis", "data") = "none" /\ Doing("ndis", "data")' = h
         /\ Doing("ndis", "binding") = "none" /\ Doing("ndis", "binding")' = "none"
<1>1. PICK k, r : NdisAt(k, r)
  BY DEF ShapeInv
<1>2. /\ k = "none" /\ r = f_todo["ndis"] /\ Tail(r) \in Seq(MpRecord) /\ FlowOps # {}
  BY <1>1, NdisHead
<1>3. /\ Doing("ndis", "data") = "none" /\ Doing("ndis", "binding") = "none"
  BY <1>1, <1>2, NdisCalm
<1>4. y \o Tail(r) \in Seq(MpRecord)
  BY <1>2
<1>5. Part(h, "data") \in Seq(Record) /\ y \in Seq(Record) /\ Tail(r) \in Seq(Record)
  <2>1. Part(h, "data") \in Seq(Record)
    <3>1. CASE h = "none"
      <4>1. Part(h, "data") = << >>
        BY <3>1, PartNone
      <4>2. << >> \in Seq(Record)
        OBVIOUS
      <4> QED BY <4>1, <4>2, Zenon
    <3>2. CASE h # "none"
      BY <3>2, PartIs DEF Owned, Starts
    <3> QED BY <3>1, <3>2
  <2> QED BY <1>2, <2>1, MpCalm
<1>6. (Part(h, "data") \o y) \o Tail(r) = Part(h, "data") \o (y \o Tail(r))
  BY <1>5
<1>7. f_todo' = [f_todo EXCEPT !["ndis"] = Part(h, "data") \o (y \o Tail(r))]
  BY <1>2, <1>6 DEF Flow!Then
<1>8. /\ Others("ndis") /\ NdisAt(h, y \o Tail(r))'
      /\ Doing("ndis", "data")' = h /\ Doing("ndis", "binding")' = "none"
  BY <1>2, <1>4, <1>7, NdisList
<1> QED BY <1>2, <1>3, <1>8

LEMMA ThenIs ==
  /\ << >> = Part("none", "data") \o << >> /\ << >> \in Seq(MpRecord)
  /\ \A op \in MpActs : Flow!Mp(op) = Part("none", "data") \o Flow!Mp(op) /\ Flow!Mp(op) \in Seq(MpRecord)
  /\ Flow!Data("stop") \o Flow!Mp("fast") = Part("stop", "data") \o Flow!Mp("fast")
  /\ Flow!Data("start") \o Flow!Mp("faster") = Part("start", "data") \o Flow!Mp("faster")
<1>1. Part("none", "data") = << >> /\ << >> \o << >> = << >> /\ << >> \in Seq(MpRecord)
  BY PartNone
<1>2. ASSUME NEW op \in MpActs
      PROVE  Flow!Mp(op) = Part("none", "data") \o Flow!Mp(op) /\ Flow!Mp(op) \in Seq(MpRecord)
  <2>1. Flow!Mp(op) \in Seq(MpRecord)
    BY MpOps DEF Flow!Mp
  <2>2. << >> \o Flow!Mp(op) = Flow!Mp(op)
    BY <2>1
  <2> QED BY <1>1, <2>1, <2>2
<1>3. Part("stop", "data") = Flow!Data("stop") /\ Part("start", "data") = Flow!Data("start")
  BY DEF Part, Flow!Data
<1> QED BY <1>1, <1>2, <1>3

LEMMA PhaseIs ==
  ASSUME FlowThreads, MpInv, ~f_refused, NEW op, Flow!At("ndis", op, "mp")
  PROVE  \E k \in Phases : First(k) = op /\ Known("none", k) /\ f_todo["ndis"] = Todo(k)
<1>1. PICK k \in Phases, h \in Owned \cup {"none"} : NdisAt(h, Todo(k)) /\ Known(h, k)
  BY DEF MpInv
<1>2. h = "none" /\ Todo(k) = f_todo["ndis"] /\ Todo(k) # << >> /\ Head(Todo(k)) = Flow!Op(op, "mp")
  BY <1>1, NdisHead
<1>3. First(k) = op
  BY <1>2, TodoIs, OpIs
<1> QED BY <1>1, <1>2, <1>3

MpGone ==
  /\ Others("ndis") /\ Doing("ndis", "data") = "none" /\ Doing("ndis", "binding") = "none"
  /\ Doing("ndis", "data")' \in {"none", "start", "stop"} /\ Doing("ndis", "binding")' = "none"
  /\ MpInv'

LEMMA MpGoesOn ==
  ASSUME FlowThreads, FlowType, ShapeInv, MpInv, UNCHANGED f_held, NEW op, Flow!At("ndis", op, "mp"),
         NEW h \in {"none", "start", "stop"}, NEW y \in Seq(MpRecord),
         Flow!Then("ndis", Part(h, "data") \o y), f_refused => f_refused',
         \A k \in Phases : ~f_refused' /\ First(k) = op /\ Known("none", k) =>
           \E l \in Phases : y \o Tail(Todo(k)) = Todo(l) /\ Known(h, l)'
  PROVE  MpGone
<1>1. /\ Others("ndis") /\ \A r : r = f_todo["ndis"] => NdisAt(h, y \o Tail(r))'
      /\ Doing("ndis", "data") = "none" /\ Doing("ndis", "data")' = h
      /\ Doing("ndis", "binding") = "none" /\ Doing("ndis", "binding")' = "none"
  BY MpGoes
<1>2. ASSUME ~f_refused' PROVE \E l \in Phases : NdisAt(h, Todo(l))' /\ Known(h, l)'
  <2>1. PICK k \in Phases : First(k) = op /\ Known("none", k) /\ f_todo["ndis"] = Todo(k)
    BY <1>2, PhaseIs
  <2>2. PICK l \in Phases : y \o Tail(Todo(k)) = Todo(l) /\ Known(h, l)'
    BY <1>2, <2>1
  <2> QED BY <1>1, <2>1, <2>2
<1>3. MpInv'
  BY <1>2 DEF MpInv, Owned, Starts
<1> QED BY <1>1, <1>3 DEF MpGone

(* The steps of the miniport, one after the other.                         *)
LEMMA SameKnown ==
  ASSUME UNCHANGED << f_State, f_late, f_ndis >>
  PROVE  /\ Steady' = Steady /\ Runs' = Runs /\ Powered' = Powered /\ f_ndis' = f_ndis
         /\ \A b : FlowIs(b)' = FlowIs(b)
BY DEF Steady, Runs, Powered, FlowIs

LEMMA NotifyAt ==
  ASSUME FlowThreads, FlowType, ShapeInv, MpInv, Flow!NotifyState
  PROVE  MpGone
<1>1. UNCHANGED << f_State, f_late, f_held, f_ndis >>
  BY DEF Flow!NotifyState, Flow!MpOp, Flow!flowVars
<1>2. /\ Steady' = Steady /\ Runs' = Runs /\ Powered' = Powered /\ f_ndis' = f_ndis
      /\ \A b : FlowIs(b)' = FlowIs(b)
  BY <1>1, SameKnown
<1>3. {"idle", "gone", "off", "fast", "faster"} \subseteq Phases /\ "device_off" \in MpActs
      /\ "fast" \in MpActs /\ "faster" \in MpActs
  BY DEF Phases, MpActs
<1>4. /\ Runs \in BOOLEAN /\ Powered \in BOOLEAN
      /\ f_refused \in BOOLEAN
  BY DEF FlowType, Runs, Powered
<1>5. CASE Flow!At("ndis", "restarted", "mp") /\ Flow!ChangeState("Running", "Paused")
             /\ Flow!Then("ndis", << >>)
  <2>1. ASSUME NEW k \in Phases, ~f_refused', First(k) = "restarted", Known("none", k)
        PROVE  << >> \o Tail(Todo(k)) = Todo("idle") /\ Known("none", "idle")'
    <3>1. k = "restarted"
      BY <2>1, PhaseOf
    <3> QED BY <1>2, <1>4, <1>5, <2>1, <3>1, TodoNext DEF Known, Begins, Steady, Flow!ChangeState
  <2> QED BY <1>1, <1>3, <1>5, <2>1, ThenIs, MpGoesOn DEF Flow!ChangeState
<1>6. CASE Flow!At("ndis", "paused", "mp") /\ Flow!ChangeState("Paused", "Running")
             /\ Flow!Then("ndis", << >>)
  <2>1. ASSUME NEW k \in Phases, ~f_refused', First(k) = "paused", Known("none", k)
        PROVE  << >> \o Tail(Todo(k)) = Todo("idle") /\ Known("none", "idle")'
    <3>1. k = "paused"
      BY <2>1, PhaseOf
    <3> QED BY <1>2, <1>4, <1>6, <2>1, <3>1, TodoNext DEF Known, Ends, Steady, Flow!ChangeState
  <2> QED BY <1>1, <1>3, <1>6, <2>1, ThenIs, MpGoesOn DEF Flow!ChangeState
<1>7. CASE Flow!At("ndis", "removed", "mp") /\ Flow!ChangeState("SurpriseRemoved", "Running")
             /\ Flow!Then("ndis", Flow!Mp("device_off"))
  <2>1. ASSUME NEW k \in Phases, ~f_refused', First(k) = "removed", Known("none", k)
        PROVE  Flow!Mp("device_off") \o Tail(Todo(k)) = Todo("gone") /\ Known("none", "gone")'
    <3>1. k = "removed"
      BY <2>1, PhaseOf
    <3> QED BY <1>2, <1>4, <1>7, <2>1, <3>1, TodoNext DEF Known, Live, Flow!ChangeState
  <2> QED BY <1>1, <1>3, <1>7, <2>1, ThenIs, MpGoesOn DEF Flow!ChangeState
<1>8. CASE Flow!At("ndis", "shutdown", "mp") /\ Flow!ChangeState("Shutdown", "Paused")
             /\ Flow!Then("ndis", << >>)
  <2>1. ASSUME NEW k \in Phases, ~f_refused', First(k) = "shutdown", Known("none", k)
        PROVE  << >> \o Tail(Todo(k)) = Todo("idle") /\ Known("none", "idle")'
    <3>1. k = "shutdown"
      BY <2>1, PhaseOf
    <3> QED BY <1>2, <1>4, <1>8, <2>1, <3>1, TodoNext DEF Known, Live, Flow!ChangeState
  <2> QED BY <1>1, <1>3, <1>8, <2>1, ThenIs, MpGoesOn DEF Flow!ChangeState
<1>9. CASE Flow!At("ndis", "fast", "mp") /\ Flow!ChangeState("FastSuspend", "Running")
             /\ Flow!Then("ndis", << >>)
  <2>1. ASSUME NEW k \in Phases, ~f_refused', First(k) = "fast", Known("none", k)
        PROVE  << >> \o Tail(Todo(k)) = Todo("off") /\ Known("none", "off")'
    <3>1. k = "fast"
      BY <2>1, PhaseOf
    <3> QED BY <1>2, <1>4, <1>9, <2>1, <3>1, TodoNext DEF Known, Ends, Steady, Flow!ChangeState
  <2> QED BY <1>1, <1>3, <1>9, <2>1, ThenIs, MpGoesOn DEF Flow!ChangeState
<1>10. CASE Flow!At("ndis", "suspend", "mp") /\ f_mp = "Running" /\ UNCHANGED << f_mp, f_refused >>
              /\ Flow!Then("ndis", Flow!Data("stop") \o Flow!Mp("fast"))
  <2>1. ASSUME NEW k \in Phases, ~f_refused', First(k) = "suspend", Known("none", k)
        PROVE  Flow!Mp("fast") \o Tail(Todo(k)) = Todo("fast") /\ Known("stop", "fast")'
    <3>1. k \in {"suspend", "reset"}
      BY <2>1, PhaseOf
    <3>2. k = "suspend"
      BY <1>10, <2>1, <3>1 DEF Known
    <3> QED BY <1>2, <1>4, <1>10, <2>1, <3>2, TodoNext DEF Known, Live, Ends
  <2> QED BY <1>1, <1>3, <1>10, <2>1, ThenIs, MpGoesOn
<1>11. CASE Flow!At("ndis", "suspend", "mp") /\ Flow!ChangeState("Suspended", "Paused")
              /\ Flow!Then("ndis", << >>)
  <2>1. ASSUME NEW k \in Phases, ~f_refused', First(k) = "suspend", Known("none", k)
        PROVE  << >> \o Tail(Todo(k)) = Todo("off") /\ Known("none", "off")'
    <3>1. k \in {"suspend", "reset"}
      BY <2>1, PhaseOf
    <3>2. k = "suspend"
      BY <1>11, <2>1, <3>1 DEF Known, Flow!ChangeState
    <3> QED BY <1>2, <1>4, <1>11, <2>1, <3>2, TodoNext DEF Known, Live, Steady, Flow!ChangeState
  <2> QED BY <1>1, <1>3, <1>11, <2>1, ThenIs, MpGoesOn DEF Flow!ChangeState
<1>12. CASE Flow!At("ndis", "resume", "mp") /\ f_mp = "FastSuspend" /\ UNCHANGED << f_mp, f_refused >>
              /\ Flow!Then("ndis", Flow!Data("start") \o Flow!Mp("faster"))
  <2>1. ASSUME NEW k \in Phases, ~f_refused', First(k) = "resume", Known("none", k)
        PROVE  Flow!Mp("faster") \o Tail(Todo(k)) = Todo("faster") /\ Known("start", "faster")'
    <3>1. k = "resume"
      BY <2>1, PhaseOf
    <3> QED BY <1>2, <1>4, <1>12, <2>1, <3>1, TodoNext DEF Known, Begins, Starts
  <2> QED BY <1>1, <1>3, <1>12, <2>1, ThenIs, MpGoesOn
<1>13. CASE Flow!At("ndis", "faster", "mp") /\ Flow!ChangeState("Running", "FastSuspend")
              /\ Flow!Then("ndis", << >>)
  <2>1. ASSUME NEW k \in Phases, ~f_refused', First(k) = "faster", Known("none", k)
        PROVE  << >> \o Tail(Todo(k)) = Todo("idle") /\ Known("none", "idle")'
    <3>1. k = "faster"
      BY <2>1, PhaseOf
    <3> QED BY <1>2, <1>4, <1>13, <2>1, <3>1, TodoNext DEF Known, Begins, Steady, Flow!ChangeState
  <2> QED BY <1>1, <1>3, <1>13, <2>1, ThenIs, MpGoesOn DEF Flow!ChangeState
<1>14. CASE Flow!At("ndis", "resume", "mp") /\ Flow!ChangeState("Paused", "Suspended")
              /\ Flow!Then("ndis", << >>)
  <2>1. ASSUME NEW k \in Phases, ~f_refused', First(k) = "resume", Known("none", k)
        PROVE  << >> \o Tail(Todo(k)) = Todo("idle") /\ Known("none", "idle")'
    <3>1. k = "resume"
      BY <2>1, PhaseOf
    <3> QED BY <1>2, <1>4, <1>14, <2>1, <3>1, TodoNext DEF Known, Steady, Flow!ChangeState
  <2> QED BY <1>1, <1>3, <1>14, <2>1, ThenIs, MpGoesOn DEF Flow!ChangeState
<1> QED BY <1>5, <1>6, <1>7, <1>8, <1>9, <1>10, <1>11, <1>12, <1>13, <1>14
        DEF Flow!NotifyState, Flow!MpOp

LEMMA DeviceAt ==
  ASSUME FlowThreads, FlowType, ShapeInv, MpInv, Flow!Device
  PROVE  MpGone
<1>1. UNCHANGED << f_State, f_late, f_held, f_ndis, f_mp, f_refused >>
  BY DEF Flow!Device, Flow!MpOp, Flow!flowVars
<1>2. /\ Steady' = Steady /\ Runs' = Runs /\ Powered' = Powered /\ f_ndis' = f_ndis
      /\ \A b : FlowIs(b)' = FlowIs(b)
  BY <1>1, SameKnown
<1>3. /\ {"idle", "off2", "off3", "off4", "halt2", "halt3", "resume"} \subseteq Phases
      /\ "wait_dpc" \in MpActs
  BY DEF Phases, MpActs
<1>4. Runs \in BOOLEAN /\ Powered \in BOOLEAN
  BY DEF FlowType, Runs, Powered
<1>5. CASE Flow!At("ndis", "device_off", "mp") /\ Flow!Then("ndis", << >>)
  <2>1. ASSUME NEW k \in Phases, First(k) = "device_off", Known("none", k)
        PROVE  \E l \in Phases : << >> \o Tail(Todo(k)) = Todo(l) /\ Known("none", l)'
    <3>1. k \in {"off", "gone", "halt"}
      BY <2>1, PhaseOf
    <3>2. CASE k = "off"
      <4>1. << >> \o Tail(Todo(k)) = Todo("off2") /\ Known("none", "off2")'
        BY <1>1, <1>2, <2>1, <3>2, TodoNext DEF Known
      <4> QED BY <4>1, <1>3
    <3>3. CASE k = "gone"
      <4>1. << >> \o Tail(Todo(k)) = Todo("idle") /\ Known("none", "idle")'
        BY <1>1, <1>2, <1>4, <2>1, <3>3, TodoNext DEF Known
      <4> QED BY <4>1, <1>3
    <3>4. CASE k = "halt"
      <4>1. << >> \o Tail(Todo(k)) = Todo("halt2") /\ Known("none", "halt2")'
        BY <1>1, <1>2, <2>1, <3>4, TodoNext DEF Known
      <4> QED BY <4>1, <1>3
    <3> QED BY <3>1, <3>2, <3>3, <3>4
  <2>2. \A k \in Phases : ~f_refused' /\ First(k) = "device_off" /\ Known("none", k) =>
          \E l \in Phases : << >> \o Tail(Todo(k)) = Todo(l) /\ Known("none", l)'
    BY <2>1
  <2>3. Flow!Then("ndis", Part("none", "data") \o << >>) /\ << >> \in Seq(MpRecord)
    BY <1>3, <1>5, ThenIs
  <2>4. Flow!At("ndis", "device_off", "mp") /\ "none" \in {"none", "start", "stop"}
    BY <1>5
  <2> QED BY <1>1, <2>2, <2>3, <2>4, MpGoesOn
<1>6. CASE Flow!At("ndis", "prevent_dpc", "mp") /\ Flow!Then("ndis", Flow!Mp("wait_dpc"))
  <2>1. ASSUME NEW k \in Phases, First(k) = "prevent_dpc", Known("none", k)
        PROVE  \E l \in Phases : Flow!Mp("wait_dpc") \o Tail(Todo(k)) = Todo(l) /\ Known("none", l)'
    <3>1. k \in {"off2", "halt2"}
      BY <2>1, PhaseOf
    <3>2. CASE k = "off2"
      <4>1. Flow!Mp("wait_dpc") \o Tail(Todo(k)) = Todo("off3") /\ Known("none", "off3")'
        BY <1>1, <1>2, <2>1, <3>2, TodoNext DEF Known
      <4> QED BY <4>1, <1>3
    <3>3. CASE k = "halt2"
      <4>1. Flow!Mp("wait_dpc") \o Tail(Todo(k)) = Todo("halt3") /\ Known("none", "halt3")'
        BY <1>1, <1>2, <2>1, <3>3, TodoNext DEF Known
      <4> QED BY <4>1, <1>3
    <3> QED BY <3>1, <3>2, <3>3
  <2>2. \A k \in Phases : ~f_refused' /\ First(k) = "prevent_dpc" /\ Known("none", k) =>
          \E l \in Phases : Flow!Mp("wait_dpc") \o Tail(Todo(k)) = Todo(l) /\ Known("none", l)'
    BY <2>1
  <2>3. Flow!Then("ndis", Part("none", "data") \o Flow!Mp("wait_dpc")) /\ Flow!Mp("wait_dpc") \in Seq(MpRecord)
    BY <1>3, <1>6, ThenIs
  <2>4. Flow!At("ndis", "prevent_dpc", "mp") /\ "none" \in {"none", "start", "stop"}
    BY <1>6
  <2> QED BY <1>1, <2>2, <2>3, <2>4, MpGoesOn
<1>7. CASE Flow!At("ndis", "wait_dpc", "mp") /\ Flow!Then("ndis", << >>)
  <2>1. ASSUME NEW k \in Phases, First(k) = "wait_dpc", Known("none", k)
        PROVE  \E l \in Phases : << >> \o Tail(Todo(k)) = Todo(l) /\ Known("none", l)'
    <3>1. k \in {"off3", "halt3"}
      BY <2>1, PhaseOf
    <3>2. CASE k = "off3"
      <4>1. << >> \o Tail(Todo(k)) = Todo("off4") /\ Known("none", "off4")'
        BY <1>1, <1>2, <2>1, <3>2, TodoNext DEF Known
      <4> QED BY <4>1, <1>3
    <3>3. CASE k = "halt3"
      <4>1. << >> \o Tail(Todo(k)) = Todo("idle") /\ Known("none", "idle")'
        BY <1>1, <1>2, <1>4, <2>1, <3>3, TodoNext DEF Known
      <4> QED BY <4>1, <1>3
    <3> QED BY <3>1, <3>2, <3>3
  <2>2. \A k \in Phases : ~f_refused' /\ First(k) = "wait_dpc" /\ Known("none", k) =>
          \E l \in Phases : << >> \o Tail(Todo(k)) = Todo(l) /\ Known("none", l)'
    BY <2>1
  <2>3. Flow!Then("ndis", Part("none", "data") \o << >>) /\ << >> \in Seq(MpRecord)
    BY <1>3, <1>7, ThenIs
  <2>4. Flow!At("ndis", "wait_dpc", "mp") /\ "none" \in {"none", "start", "stop"}
    BY <1>7
  <2> QED BY <1>1, <2>2, <2>3, <2>4, MpGoesOn
<1>8. CASE Flow!At("ndis", "shutdown_queues", "mp") /\ Flow!Then("ndis", << >>)
  <2>1. ASSUME NEW k \in Phases, First(k) = "shutdown_queues", Known("none", k)
        PROVE  << >> \o Tail(Todo(k)) = Todo("idle") /\ Known("none", "idle")'
    <3>1. k = "off4"
      BY <2>1, PhaseOf
    <3> QED BY <1>1, <1>2, <1>4, <2>1, <3>1, TodoNext DEF Known
  <2> QED BY <1>1, <1>3, <1>8, <2>1, ThenIs, MpGoesOn
<1>9. CASE Flow!At("ndis", "device_on", "mp") /\ Flow!Then("ndis", << >>)
  <2>1. ASSUME NEW k \in Phases, First(k) = "device_on", Known("none", k)
        PROVE  << >> \o Tail(Todo(k)) = Todo("resume") /\ Known("none", "resume")'
    <3>1. k = "on"
      BY <2>1, PhaseOf
    <3> QED BY <1>1, <1>2, <2>1, <3>1, TodoNext DEF Known
  <2> QED BY <1>1, <1>3, <1>9, <2>1, ThenIs, MpGoesOn
<1> QED BY <1>5, <1>6, <1>7, <1>8, <1>9 DEF Flow!Device, Flow!MpOp

(* What the flags say of the states that are not expected.                 *)
LEMMA Expected ==
  ASSUME MpInv, FlagsInv, ~f_refused, NEW k \in Phases, Known("none", k)
  PROVE  /\ First(k) = "restarted" => f_mp = "Paused"
         /\ First(k) = "paused" => f_mp = "Running" \/ f_ndis.reset \/ f_ndis.removed
         /\ First(k) = "removed" => f_ndis.removed
         /\ First(k) = "shutdown" => f_ndis.halted
         /\ First(k) = "fast" => f_mp = "Running" \/ f_ndis.reset
         /\ First(k) = "suspend" => f_mp \in {"Running", "Paused"} \/ f_ndis.reset
         /\ First(k) = "resume" => f_mp \in {"FastSuspend", "Suspended"}
         /\ First(k) = "faster" => f_mp = "FastSuspend"
<1>1. CASE First(k) \in {"restarted", "paused", "removed", "shutdown", "fast", "faster", "resume"}
  <2>1. k = First(k)
    BY <1>1, PhaseOf
  <2> QED BY <2>1, <1>1 DEF Known, FlagsInv
<1>2. CASE First(k) = "suspend"
  <2>1. k \in {"suspend", "reset"}
    BY <1>2, PhaseOf
  <2> QED BY <2>1, <1>2 DEF Known, FlagsInv, Live
<1> QED BY <1>1, <1>2

LEMMA NotifyFlags ==
  ASSUME FlowThreads, FlowType, MpInv, FlagsInv, Flow!NotifyState
  PROVE  FlagsInv'
<1>1. /\ UNCHANGED << f_ndis, f_needsReset, f_bDeviceNeedsReset >>
      /\ f_todo'["cx"] = f_todo["cx"] /\ f_refused \in BOOLEAN
  <2>1. "cx" \in Flow!Threads /\ f_todo \in [Flow!Threads -> Seq(Record)]
    BY DEF Flow!Threads, FlowType
  <2>2. \E x : Flow!Then("ndis", x)
    BY DEF Flow!NotifyState
  <2> QED BY <2>1, <2>2 DEF Flow!NotifyState, Flow!MpOp, Flow!Then, FlowType
<1>2. ASSUME NEW op, NEW new, NEW allowed, Flow!At("ndis", op, "mp"), Flow!ChangeState(new, allowed),
             allowed \in {"Running", "Paused", "FastSuspend", "Suspended"},
             new = "NeedsReset" => FALSE,
             new = "SurpriseRemoved" => op = "removed", new = "Shutdown" => op = "shutdown",
             \A k \in Phases : ~f_refused /\ First(k) = op /\ Known("none", k) =>
               \/ f_mp = allowed \/ f_ndis.reset \/ f_ndis.removed \/ f_ndis.halted
      PROVE  FlagsInv'
  <2>1. f_mp' = new /\ (f_refused' <=> f_refused \/ f_mp # allowed)
    BY <1>1, <1>2 DEF Flow!ChangeState
  <2>2. CASE f_refused
    BY <1>1, <2>1, <2>2 DEF FlagsInv
  <2>3. CASE ~f_refused
    <3>1. PICK k \in Phases : First(k) = op /\ Known("none", k)
      BY <1>2, <2>3, PhaseIs
    <3>2. f_mp = allowed \/ f_ndis.reset \/ f_ndis.removed \/ f_ndis.halted
      BY <1>2, <2>3, <3>1
    <3>3. /\ op = "removed" => f_ndis.removed
          /\ op = "shutdown" => f_ndis.halted
      BY <2>3, <3>1, Expected
    <3>4. f_refused' => f_ndis.reset \/ f_ndis.removed \/ f_ndis.halted
      BY <2>1, <2>3, <3>2
    <3> QED BY <1>1, <1>2, <2>1, <2>3, <3>3, <3>4 DEF FlagsInv
  <2> QED BY <2>2, <2>3
<1>3. CASE UNCHANGED << f_mp, f_refused >>
  BY <1>1, <1>3 DEF FlagsInv
<1>4. \A k \in Phases : ~f_refused /\ First(k) = "restarted" /\ Known("none", k) => f_mp = "Paused"
  BY Expected
<1>5. \A k \in Phases : ~f_refused /\ First(k) = "paused" /\ Known("none", k) =>
        f_mp = "Running" \/ f_ndis.reset \/ f_ndis.removed
  BY Expected
<1>6. \A k \in Phases : ~f_refused /\ First(k) = "removed" /\ Known("none", k) => f_ndis.removed
  BY Expected
<1>7. \A k \in Phases : ~f_refused /\ First(k) = "shutdown" /\ Known("none", k) => f_ndis.halted
  BY Expected
<1>8. \A k \in Phases : ~f_refused /\ First(k) = "fast" /\ Known("none", k) =>
        f_mp = "Running" \/ f_ndis.reset
  BY Expected
<1>9. \A k \in Phases : ~f_refused /\ First(k) = "suspend" /\ Known("none", k) =>
        f_mp \in {"Running", "Paused"} \/ f_ndis.reset
  BY Expected
<1>10. \A k \in Phases : ~f_refused /\ First(k) = "faster" /\ Known("none", k) => f_mp = "FastSuspend"
  BY Expected
<1>11. \A k \in Phases : ~f_refused /\ First(k) = "resume" /\ Known("none", k) =>
         f_mp \in {"FastSuspend", "Suspended"}
  BY Expected
<1>12. CASE Flow!At("ndis", "restarted", "mp") /\ Flow!ChangeState("Running", "Paused")
  BY <1>2, <1>4, <1>12
<1>13. CASE Flow!At("ndis", "paused", "mp") /\ Flow!ChangeState("Paused", "Running")
  BY <1>2, <1>5, <1>13
<1>14. CASE Flow!At("ndis", "removed", "mp") /\ Flow!ChangeState("SurpriseRemoved", "Running")
  BY <1>2, <1>6, <1>14
<1>15. CASE Flow!At("ndis", "shutdown", "mp") /\ Flow!ChangeState("Shutdown", "Paused")
  BY <1>2, <1>7, <1>15
<1>16. CASE Flow!At("ndis", "fast", "mp") /\ Flow!ChangeState("FastSuspend", "Running")
  BY <1>2, <1>8, <1>16
<1>17. CASE Flow!At("ndis", "suspend", "mp") /\ f_mp # "Running" /\ Flow!ChangeState("Suspended", "Paused")
  BY <1>2, <1>9, <1>17
<1>18. CASE Flow!At("ndis", "faster", "mp") /\ Flow!ChangeState("Running", "FastSuspend")
  BY <1>2, <1>10, <1>18
<1>19. CASE Flow!At("ndis", "resume", "mp") /\ f_mp # "FastSuspend"
              /\ Flow!ChangeState("Paused", "Suspended")
  BY <1>2, <1>11, <1>19
<1> QED BY <1>3, <1>12, <1>13, <1>14, <1>15, <1>16, <1>17, <1>18, <1>19
        DEF Flow!NotifyState, Flow!MpOp

LEMMA DeviceFlags ==
  ASSUME FlowThreads, FlowType, FlagsInv, Flow!Device
  PROVE  FlagsInv'
<1>1. "cx" \in Flow!Threads /\ f_todo \in [Flow!Threads -> Seq(Record)]
  BY DEF Flow!Threads, FlowType
<1>2. \E x : Flow!Then("ndis", x)
  BY DEF Flow!Device
<1>3. f_todo'["cx"] = f_todo["cx"]
  BY <1>1, <1>2 DEF Flow!Then
<1>4. UNCHANGED << f_ndis, f_bDeviceNeedsReset, f_mp, f_refused >>
  BY DEF Flow!Device, Flow!MpOp
<1>5. f_needsReset' = FALSE \/ UNCHANGED f_needsReset
  BY DEF Flow!Device
<1> QED BY <1>3, <1>4, <1>5 DEF FlagsInv

LEMMA IdleIs ==
  ASSUME FlowThreads, f_todo["ndis"] = << >>, NEW h, NEW r, NdisAt(h, r)
  PROVE  h = "none" /\ r = << >> /\ Doing("ndis", "data") = "none" /\ Doing("ndis", "binding") = "none"
<1>1. Calm(r) /\ f_todo["ndis"] = Part(h, "data") \o r /\ Doing("ndis", "data") = h
      /\ Doing("ndis", "binding") = "none"
  BY NdisCalm
<1>2. h = "none"
  BY <1>1 DEF Doing, About
<1>3. Part("none", "data") \o r = r
  BY <1>1, PartNone DEF Calm
<1> QED BY <1>1, <1>2, <1>3

AskH(op) == IF op = "restart" THEN "start" ELSE IF op = "pause" THEN "stop" ELSE "none"
AskK(op) ==
  CASE op = "restart" -> "restarted"
    [] op = "pause"   -> "paused"
    [] op = "resume"  -> "on"
    [] op = "remove"  -> "removed"
    [] OTHER          -> op

LEMMA AskIs ==
  /\ Flow!NotifyRestarted = Part("start", "data") \o Todo("restarted")
  /\ Flow!NotifyPaused = Part("stop", "data") \o Todo("paused")
  /\ Flow!PowerOff = Part("none", "data") \o Todo("suspend")
  /\ Flow!PowerOn = Part("none", "data") \o Todo("on")
  /\ Flow!PowerOff \o Flow!PowerOn = Part("none", "data") \o Todo("reset")
  /\ Flow!Mp("removed") = Part("none", "data") \o Todo("removed")
  /\ Flow!Mp("shutdown") = Part("none", "data") \o Todo("shutdown")
  /\ Flow!Halting = Part("none", "data") \o Todo("halt")
<1>1. ASSUME NEW k \in Phases PROVE Part("none", "data") \o Todo(k) = Todo(k)
  BY TodoIs, PartNone
<1>2. {"suspend", "on", "reset", "removed", "shutdown", "halt"} \subseteq Phases
  BY DEF Phases
<1>3. /\ Todo("suspend") = Flow!PowerOff /\ Todo("on") = Flow!PowerOn
      /\ Todo("reset") = Flow!PowerOff \o Flow!PowerOn /\ Todo("halt") = Flow!Halting
      /\ Todo("removed") = Flow!Mp("removed") /\ Todo("shutdown") = Flow!Mp("shutdown")
      /\ Todo("restarted") = Flow!Mp("restarted") /\ Todo("paused") = Flow!Mp("paused")
  BY DEF Todo, First, Flow!Mp
<1>4. /\ Flow!NotifyRestarted = Part("start", "data") \o Todo("restarted")
      /\ Flow!NotifyPaused = Part("stop", "data") \o Todo("paused")
  BY <1>3 DEF Flow!NotifyRestarted, Flow!NotifyPaused, Flow!Data, Part
<1>5. /\ Part("none", "data") \o Todo("suspend") = Todo("suspend")
      /\ Part("none", "data") \o Todo("on") = Todo("on")
      /\ Part("none", "data") \o Todo("reset") = Todo("reset")
      /\ Part("none", "data") \o Todo("removed") = Todo("removed")
      /\ Part("none", "data") \o Todo("shutdown") = Todo("shutdown")
      /\ Part("none", "data") \o Todo("halt") = Todo("halt")
  BY <1>1, <1>2
<1> QED BY <1>3, <1>4, <1>5, Zenon

LEMMA AskAt ==
  ASSUME FlowThreads, FlowType, ShapeInv, MpInv, FlagsInv, NEW op \in FlowOps, Flow!Ask(op)
  PROVE  MpGone /\ FlagsInv'
         /\ f_ndis' \in [running : BOOLEAN, powered : BOOLEAN, removed : BOOLEAN, reset : BOOLEAN,
                         halted : BOOLEAN]
<1> DEFINE h == AskH(op)
           k == AskK(op)
<1>1. op \in {"restart", "pause", "suspend", "resume", "reset", "remove", "shutdown", "halt"}
  BY DEF FlowThreads, Flow!AllOps
<1>2. f_todo' = [f_todo EXCEPT !["ndis"] = Part(h, "data") \o Todo(k)]
  BY <1>1, AskIs DEF Flow!Ask, AskH, AskK
<1>3. h \in {"none", "start", "stop"} /\ k \in Phases
  BY <1>1 DEF AskH, AskK, Phases
<1>4. /\ UNCHANGED << f_State, f_late, f_held, f_mp, f_refused, f_needsReset >>
      /\ f_todo["ndis"] = << >> /\ ~f_ndis.halted
  BY DEF Flow!Ask, Flow!flowVars
<1>5. Todo(k) \in Seq(MpRecord)
  BY <1>3, TodoIs
<1>6. /\ Others("ndis") /\ NdisAt(h, Todo(k))'
      /\ Doing("ndis", "data")' = h /\ Doing("ndis", "binding")' = "none"
  BY <1>2, <1>3, <1>4, <1>5, NdisList
<1>7. Doing("ndis", "data") = "none" /\ Doing("ndis", "binding") = "none"
  BY <1>4, IdleIs DEF ShapeInv
<1>8. /\ f_ndis' \in [running : BOOLEAN, powered : BOOLEAN, removed : BOOLEAN, reset : BOOLEAN,
                      halted : BOOLEAN]
      /\ Runs' = IF op = "restart" THEN TRUE ELSE IF op = "pause" THEN FALSE ELSE Runs
      /\ Powered' = IF op = "suspend" THEN FALSE ELSE (op = "resume" \/ Powered)
      /\ f_ndis'.removed = (f_ndis.removed \/ op = "remove") /\ f_ndis'.reset = f_ndis.reset
      /\ f_ndis'.halted = (f_ndis.halted \/ op \in {"shutdown", "halt"})
  <2>1. f_ndis \in [running : BOOLEAN, powered : BOOLEAN, removed : BOOLEAN, reset : BOOLEAN,
                    halted : BOOLEAN]
    BY DEF FlowType
  <2>2. f_ndis' = [f_ndis EXCEPT
           !.running = IF op = "restart" THEN TRUE ELSE IF op = "pause" THEN FALSE ELSE @,
           !.powered = IF op = "suspend" THEN FALSE ELSE op = "resume" \/ @,
           !.removed = @ \/ op = "remove",
           !.halted  = @ \/ op \in {"shutdown", "halt"}]
    BY DEF Flow!Ask
  <2>3. Runs' = IF op = "restart" THEN TRUE ELSE IF op = "pause" THEN FALSE ELSE Runs
    BY <2>1, <2>2 DEF Runs
  <2>4. Powered' = IF op = "suspend" THEN FALSE ELSE (op = "resume" \/ Powered)
    BY <2>1, <2>2 DEF Powered
  <2>5. f_ndis'.removed = (f_ndis.removed \/ op = "remove") /\ f_ndis'.reset = f_ndis.reset
    BY <2>1, <2>2
  <2>6. f_ndis'.halted = (f_ndis.halted \/ op \in {"shutdown", "halt"})
    BY <2>1, <2>2
  <2>7. f_ndis' \in [running : BOOLEAN, powered : BOOLEAN, removed : BOOLEAN, reset : BOOLEAN,
                     halted : BOOLEAN]
    <3>1. f_ndis' = [running |-> f_ndis'.running, powered |-> f_ndis'.powered,
                     removed |-> f_ndis'.removed, reset |-> f_ndis'.reset,
                     halted |-> f_ndis'.halted]
      BY <2>1, <2>2
    <3>2. /\ f_ndis'.running \in BOOLEAN /\ f_ndis'.powered \in BOOLEAN
          /\ f_ndis'.removed \in BOOLEAN /\ f_ndis'.halted \in BOOLEAN
          /\ f_ndis'.reset \in BOOLEAN
      BY <2>1, <2>3, <2>4, <2>5, <2>6 DEF Runs, Powered
    <3> QED BY <3>1, <3>2
  <2> QED BY <2>3, <2>4, <2>5, <2>6, <2>7
<1>9. /\ op = "restart" => ~Runs /\ Powered /\ ~f_ndis.removed
      /\ op = "pause" => Runs /\ Powered
      /\ op = "suspend" => Powered /\ ~f_ndis.removed
      /\ op = "resume" => ~Powered /\ ~f_ndis.removed
      /\ op = "reset" => f_bDeviceNeedsReset /\ Powered /\ ~f_ndis.removed
      /\ op = "remove" => Powered /\ ~f_ndis.removed
      /\ op = "shutdown" => Powered
      /\ op = "halt" => ~Runs
  BY <1>1 DEF Flow!Ask, Runs, Powered
<1>10. ASSUME ~f_refused PROVE Known(h, k)'
  <2>1. PICK l \in Phases, j \in Owned \cup {"none"} : NdisAt(j, Todo(l)) /\ Known(j, l)
    BY <1>10 DEF MpInv
  <2>2. j = "none" /\ Todo(l) = << >>
    BY <1>4, <2>1, IdleIs
  <2>3. l = "idle"
    BY <2>2, TodoIs
  <2>4. /\ FlowIs(Runs /\ Powered)
        /\ \/ f_mp = Steady
           \/ f_mp \in {"NeedsReset", "SurpriseRemoved"} /\ Runs /\ Powered
    BY <1>4, <1>10, <2>1, <2>2, <2>3 DEF Known, FlagsInv
  <2>5. \A b : FlowIs(b)' = FlowIs(b)
    BY <1>4 DEF FlowIs
  <2>6. /\ Runs \in BOOLEAN /\ Powered \in BOOLEAN
        /\ f_mp = "SurpriseRemoved" => f_ndis.removed
        /\ f_bDeviceNeedsReset => f_mp = "NeedsReset"
    BY <1>10 DEF FlowType, Runs, Powered, FlagsInv
  <2>7. CASE op = "restart"
    <3>1. Runs' /\ Powered' /\ f_mp' = "Paused" /\ FlowIs(FALSE)' /\ h = "start" /\ k = "restarted"
      BY <1>4, <1>8, <1>9, <2>4, <2>5, <2>6, <2>7 DEF Steady, AskH, AskK
    <3> QED BY <3>1 DEF Known, Begins, Starts
  <2>8. CASE op = "pause"
    <3>1. /\ ~Runs' /\ Powered' /\ f_mp' \in {"Running", "NeedsReset", "SurpriseRemoved"}
          /\ FlowIs(TRUE)' /\ h = "stop" /\ k = "paused"
      BY <1>4, <1>8, <1>9, <2>4, <2>5, <2>6, <2>8 DEF Steady, AskH, AskK
    <3> QED BY <3>1 DEF Known, Ends
  <2>9. CASE op = "suspend"
    <3>1. /\ ~Powered' /\ FlowIs(Runs)' /\ Runs' = Runs /\ h = "none" /\ k = "suspend"
          /\ f_mp' \in IF Runs THEN {"Running", "NeedsReset"} ELSE {"Paused"}
      BY <1>4, <1>8, <1>9, <2>4, <2>5, <2>6, <2>9 DEF Steady, AskH, AskK
    <3> QED BY <3>1 DEF Known, Live
  <2>10. CASE op = "resume"
    <3>1. /\ Powered' /\ FlowIs(FALSE)' /\ Runs' = Runs /\ h = "none" /\ k = "on"
          /\ f_mp' = IF Runs THEN "FastSuspend" ELSE "Suspended"
      BY <1>4, <1>8, <1>9, <2>4, <2>5, <2>6, <2>10 DEF Steady, AskH, AskK
    <3> QED BY <3>1 DEF Known
  <2>11. CASE op = "reset"
    <3>1. f_mp' = "NeedsReset" /\ h = "none" /\ k = "reset"
      BY <1>4, <1>9, <2>6, <2>11 DEF AskH, AskK
    <3> QED BY <3>1 DEF Known
  <2>12. CASE op = "remove"
    <3>1. /\ Powered' /\ FlowIs(Runs)' /\ Runs' = Runs /\ h = "none" /\ k = "removed"
          /\ f_mp' \in IF Runs THEN {"Running", "NeedsReset"} ELSE {"Paused"}
          /\ f_ndis'.removed
      BY <1>4, <1>8, <1>9, <2>4, <2>5, <2>6, <2>12 DEF Steady, AskH, AskK
    <3> QED BY <3>1 DEF Known, Live
  <2>13. CASE op = "shutdown"
    <3>1. /\ Powered' /\ FlowIs(Runs)' /\ Runs' = Runs /\ h = "none" /\ k = "shutdown"
          /\ f_mp' \in IF Runs THEN {"Running", "NeedsReset", "SurpriseRemoved"} ELSE {"Paused"}
          /\ f_ndis'.halted
      BY <1>4, <1>8, <1>9, <2>4, <2>5, <2>6, <2>13 DEF Steady, AskH, AskK
    <3> QED BY <3>1 DEF Known, Live
  <2>14. CASE op = "halt"
    <3>1. /\ ~Runs' /\ Runs' = Runs /\ Powered' = Powered /\ FlowIs(FALSE)' /\ h = "none" /\ k = "halt"
          /\ f_mp' = Steady /\ Steady \in {"Paused", "Suspended"}
      BY <1>4, <1>8, <1>9, <2>4, <2>5, <2>6, <2>14 DEF Steady, AskH, AskK
    <3>2. Steady' = Steady
      BY <3>1 DEF Steady
    <3> QED BY <3>1, <3>2 DEF Known
  <2> QED BY <1>1, <2>7, <2>8, <2>9, <2>10, <2>11, <2>12, <2>13, <2>14
<1>11. h \in Owned \cup {"none"}
  BY <1>3 DEF Owned, Starts
<1>12. MpInv'
  BY <1>3, <1>4, <1>6, <1>10, <1>11 DEF MpInv
<1>13. FlagsInv'
  <2>1. f_todo'["cx"] = f_todo["cx"]
    BY <1>2 DEF FlowType, Flow!Threads
  <2>2. f_bDeviceNeedsReset' => f_bDeviceNeedsReset
    BY DEF Flow!Ask
  <2>3. /\ f_ndis.reset => f_ndis'.reset
        /\ f_ndis.removed => f_ndis'.removed
        /\ f_ndis.halted => f_ndis'.halted
    BY <1>8
  <2> QED BY <1>4, <2>1, <2>2, <2>3 DEF FlagsInv
<1> QED BY <1>3, <1>6, <1>7, <1>8, <1>12, <1>13 DEF MpGone

(* A step that is not of NDIS.                                             *)
LEMMA MpKeeps ==
  ASSUME MpInv, f_todo'["ndis"] = f_todo["ndis"], f_refused => f_refused',
         f_ndis'.running = f_ndis.running, f_ndis'.powered = f_ndis.powered,
         f_ndis'.removed = f_ndis.removed, f_ndis'.halted = f_ndis.halted, UNCHANGED f_mp,
         \A b : FlowIs(b) => FlowIs(b)'
  PROVE  MpInv'
<1>1. SUFFICES ASSUME ~f_refused' PROVE MpInv'
  BY DEF MpInv
<1>2. PICK k \in Phases, h \in Owned \cup {"none"} : NdisAt(h, Todo(k)) /\ Known(h, k)
  BY <1>1 DEF MpInv
<1>3. Runs' = Runs /\ Powered' = Powered
  BY DEF Runs, Powered
<1>4. Steady' = Steady
  BY <1>3 DEF Steady
<1>5. NdisAt(h, Todo(k))'
  BY <1>2 DEF NdisAt
<1>6. /\ Begins(h) => Begins(h)'
      /\ Ends(h) => Ends(h)'
  BY DEF Begins, Ends
<1>7. \A set : Live(set) => Live(set)'
  BY <1>3 DEF Live
<1>8. FlowIs(Runs /\ Powered) => FlowIs(Runs /\ Powered)'
  BY <1>3
<1>9. FlowIs(Runs) => FlowIs(Runs)'
  BY <1>3
<1>10. FlowIs(TRUE) => FlowIs(TRUE)'
  OBVIOUS
<1>11. FlowIs(FALSE) => FlowIs(FALSE)'
  OBVIOUS
<1>12. Known(h, k)'
  <2>1. CASE k = "idle"
    BY <1>2, <1>3, <1>4, <1>8, <2>1 DEF Known
  <2>2. CASE k \in {"restarted", "paused", "fast", "faster", "reset"}
    BY <1>2, <1>3, <1>6, <2>2 DEF Known
  <2>3. CASE k = "suspend"
    BY <1>2, <1>3, <1>7, <1>9, <2>3 DEF Known
  <2>4. CASE k \in {"removed", "shutdown"}
    BY <1>2, <1>3, <1>7, <1>9, <2>4 DEF Known
  <2>5. CASE k \in {"off", "off2", "off3", "off4", "halt", "halt2", "halt3"}
    BY <1>2, <1>3, <1>4, <1>11, <2>5 DEF Known
  <2>6. CASE k \in {"on", "resume", "gone"}
    BY <1>2, <1>3, <1>10, <1>11, <2>6 DEF Known
  <2> QED BY <2>1, <2>2, <2>3, <2>4, <2>5, <2>6 DEF Phases
<1> QED BY <1>5, <1>12 DEF MpInv

LEMMA FlowFlags ==
  ASSUME FlagsInv, f_todo'["cx"] = f_todo["cx"],
         UNCHANGED << f_mp, f_needsReset, f_bDeviceNeedsReset, f_ndis, f_refused >>
  PROVE  FlagsInv'
BY DEF FlagsInv

(* A step at a flow.                                                       *)
LEMMA MpFlow ==
  ASSUME FlowThreads, FlowType, ShapeInv, MpInv, NEW t \in Flow!Threads, NEW f \in FlowKinds,
         NEW a, NEW b, Effect(t, f, a, b)
  PROVE  MpInv'
<1>1. /\ f \in {"data", "binding"} /\ Owner(f) \in {"ndis", "vf"} /\ Owner(f) \notin FlowUsers
      /\ "ndis" \notin FlowUsers /\ "ndis" \in Flow!Threads
  BY KindIs DEF FlowThreads, Flow!Threads
<1>2. t \in {Owner(f)} \cup FlowUsers /\ Goes(t, f, a, b)
  BY DEF Effect, Gone, Goes
<1>3. UNCHANGED << f_mp, f_ndis, f_refused >>
  BY DEF Effect
<1>4. CASE t # "ndis"
  <2>1. f_todo'["ndis"] = f_todo["ndis"]
    BY <1>1, <1>2, <1>4 DEF Goes
  <2>2. ASSUME NEW c, FlowIs(c) PROVE FlowIs(c)'
    <3>1. SUFFICES ASSUME "data" \in FlowKinds, ~f_late'["data"]
                   PROVE  f_State'["data"] = IF c THEN "Running" ELSE "Stopped"
      BY DEF FlowIs
    <3>2. ~f_late["data"]
      BY <3>1 DEF Effect
    <3>3. \/ f_State'["data"] = f_State["data"]
          \/ f_State'["data"] = "Stopped" /\ f_State["data"] # "Running"
      BY <1>1, <1>2, <1>4, <3>1, <3>2 DEF Effect, Unmoved, Owner
    <3> QED BY <2>2, <3>1, <3>2, <3>3 DEF FlowIs
  <2> QED BY <1>3, <2>1, <2>2, MpKeeps
<1>5. CASE t = "ndis"
  <2>1. f = "data" /\ t = Owner(f)
    BY <1>1, <1>2, <1>5 DEF Owner
  <2>2. SUFFICES ASSUME ~f_refused' PROVE MpInv'
    BY DEF MpInv
  <2>3. PICK k \in Phases, h \in Owned \cup {"none"} : NdisAt(h, Todo(k)) /\ Known(h, k)
    BY <1>3, <2>2 DEF MpInv
  <2>4. h = a /\ NdisAt(b, Todo(k))'
    BY <1>2, <1>5, <2>3 DEF Goes
  <2>5. b \in Owned \cup {"none"}
    BY <2>4 DEF NdisAt
  <2>6. a # "none"
    BY <2>1 DEF Effect, Starts, Stops, Completes
  <2>7. Runs' = Runs /\ Powered' = Powered
    BY <1>3 DEF Runs, Powered
  <2>8. ASSUME Begins(a) PROVE Begins(b)'
    <3>1. a \in Starts /\ (a = "start" => FlowIs(FALSE))
      BY <2>6, <2>8 DEF Begins
    <3>2. CASE b \in Starts \ {"start"}
      BY <3>2 DEF Begins, Starts
    <3>3. CASE b \notin Starts \ {"start"}
      <4>1. \/ a = "start" /\ b = "none" /\ Unmoved(f) /\ f_State[f] # "Stopped"
            \/ a = "unmask" /\ b = "none" /\ Unmoved(f) /\ (f_late[f] \/ f_State[f] = "Running")
        BY <2>1, <3>1, <3>3 DEF Effect, Starts, Stops, Completes
      <4>2. b = "none" /\ (f_late[f] \/ f_State'[f] = "Running")
        BY <2>1, <3>1, <4>1 DEF FlowIs, Unmoved
      <4>3. FlowIs(TRUE)'
        BY <2>1, <4>2 DEF FlowIs, Effect
      <4> QED BY <4>2, <4>3 DEF Begins
    <3> QED BY <3>2, <3>3
  <2>9. ASSUME Ends(a) PROVE Ends(b)'
    <3>1. a \in {"stop"} \cup Stops /\ (a = "stop" => FlowIs(TRUE))
      BY <2>6, <2>9 DEF Ends
    <3>2. CASE b \in Stops
      BY <3>2 DEF Ends, Stops, Completes
    <3>3. CASE b \notin Stops
      <4>1. \/ a = "stop" /\ b = "none" /\ Unmoved(f) /\ f_State[f] # "Running"
            \/ a = "wait" /\ b = "none" /\ Unmoved(f) /\ (f_late[f] \/ f_State[f] = "Stopped")
        BY <2>1, <3>1, <3>3 DEF Effect, Starts, Stops, Completes
      <4>2. b = "none" /\ (f_late[f] \/ f_State'[f] = "Stopped")
        BY <2>1, <3>1, <4>1 DEF FlowIs, Unmoved
      <4>3. FlowIs(FALSE)'
        BY <2>1, <4>2 DEF FlowIs, Effect
      <4> QED BY <4>2, <4>3 DEF Ends
    <3> QED BY <3>2, <3>3
  <2>10. Known(b, k)'
    BY <1>3, <2>3, <2>4, <2>6, <2>7, <2>8, <2>9 DEF Known
  <2> QED BY <2>4, <2>5, <2>10 DEF MpInv
<1> QED BY <1>4, <1>5
-----------------------------------------------------------------------------
FlowIInv ==
  /\ FlowType /\ ShapeInv /\ (\A f \in FlowKinds : FlowAt(f))
  /\ BindInv /\ MpInv /\ FlagsInv

(* A step that gives a list anew, at any flow.                             *)
LEMMA ListStep ==
  ASSUME FlowThreads, FlowIInv, NEW t \in Flow!Threads, Others(t),
         UNCHANGED << f_State, f_count, f_masked, f_event, f_held, f_late >>,
         f_Value' \in BOOLEAN, f_refused' \in BOOLEAN,
         f_ndis' \in [running : BOOLEAN, powered : BOOLEAN, removed : BOOLEAN, reset : BOOLEAN,
                      halted : BOOLEAN],
         \A f \in FlowKinds :
           \/ Doing(t, f)' = Doing(t, f)
           \/ Doing(t, f) = "none" /\ Doing(t, f)' \in {"start", "stop", "addref"}
           \/ Doing(t, f) = "none" /\ Doing(t, f)' = "release" /\ t \in f_held[f]
  PROVE  FlowType' /\ ShapeInv' /\ \A f \in FlowKinds : FlowAt(f)'
<1>1. FlowType' /\ ShapeInv'
  BY DEF FlowIInv, FlowType, Others
<1>2. \A f \in FlowKinds : FlowAt(f)'
  BY NewlyAt DEF FlowIInv
<1> QED BY <1>1, <1>2

LEMMA SameBind ==
  ASSUME BindInv, f_todo'["vf"] = f_todo["vf"], UNCHANGED << f_State, f_late, f_Value >>
  PROVE  BindInv'
<1>1. PICK h, r : VfAt(h, r) /\ BindAt(h, r)
  BY DEF BindInv
<1>2. VfAt(h, r)' /\ BindAt(h, r)'
  BY <1>1 DEF VfAt, BindAt
<1> QED BY <1>2 DEF BindInv

LEMMA FlowStepAt ==
  ASSUME FlowThreads, FlowIInv, NEW t \in Flow!Threads, Flow!FlowStep(t)
  PROVE  FlowIInv'
<1>1. /\ FlowType /\ ShapeInv /\ (\A g \in FlowKinds : FlowAt(g))
      /\ BindInv /\ MpInv /\ FlagsInv
  BY DEF FlowIInv
<1>2. PICK f \in FlowKinds : FlowAct(t, f) \/ Flow!SetValue(t)
  BY DEF Flow!FlowStep, FlowAct
<1>3. CASE FlowAct(t, f)
  <2>1. FlowType' /\ ShapeInv' /\ (\A g \in FlowKinds : FlowAt(g)') /\ \E a, b : Effect(t, f, a, b)
    BY <1>1, <1>3, FlowActAll
  <2>2. PICK a, b : Effect(t, f, a, b)
    BY <2>1
  <2>3. BindInv' /\ MpInv'
    BY <1>1, <2>2, BindFlow, MpFlow
  <2>4. t # "cx" /\ "cx" \in Flow!Threads
    BY <2>2, KindIs DEF Effect, Gone, Goes, FlowThreads, Flow!Threads
  <2>5. f_todo'["cx"] = f_todo["cx"]
    BY <2>2, <2>4 DEF Effect, Gone, Goes
  <2>6. FlagsInv'
    BY <1>1, <2>2, <2>5, FlowFlags DEF Effect
  <2> QED BY <2>1, <2>3, <2>6 DEF FlowIInv
<1>4. CASE Flow!SetValue(t)
  <2>1. /\ t = "vf" /\ Others("vf") /\ BindInv' /\ Doing("vf", "data")' = Doing("vf", "data")
        /\ f_Value' \in BOOLEAN
        /\ Doing("vf", "binding") = "none" /\ Doing("vf", "binding")' \in {"none", "start"}
    BY <1>1, <1>4, SetValueAt
  <2>2. /\ UNCHANGED << f_State, f_count, f_masked, f_event, f_held, f_late >>
        /\ UNCHANGED << f_mp, f_needsReset, f_bDeviceNeedsReset, f_ndis, f_refused >>
    BY <1>4 DEF Flow!SetValue, Flow!mpVars
  <2>3. /\ f_todo'["ndis"] = f_todo["ndis"] /\ f_todo'["cx"] = f_todo["cx"]
        /\ "vf" \in Flow!Threads
    BY <1>1, <1>4, <2>1 DEF Flow!SetValue, Flow!Then, FlowType, Flow!Threads
  <2>4. \A g \in FlowKinds : g \in {"data", "binding"}
    BY KindIs
  <2>5. /\ f_refused' \in BOOLEAN
        /\ f_ndis' \in [running : BOOLEAN, powered : BOOLEAN, removed : BOOLEAN, reset : BOOLEAN,
                        halted : BOOLEAN]
    BY <1>1, <2>2 DEF FlowType
  <2>6. \A g \in FlowKinds :
          \/ Doing("vf", g)' = Doing("vf", g)
          \/ Doing("vf", g) = "none" /\ Doing("vf", g)' \in {"start", "stop", "addref"}
    BY <2>1, <2>4
  <2>7. FlowType' /\ ShapeInv' /\ \A g \in FlowKinds : FlowAt(g)'
    BY <2>1, <2>2, <2>3, <2>5, <2>6, ListStep
  <2>8. \A c : FlowIs(c) => FlowIs(c)'
    BY <2>2 DEF FlowIs
  <2>9. MpInv'
    BY <1>1, <2>2, <2>3, <2>8, MpKeeps
  <2>10. FlagsInv'
    BY <1>1, <2>2, <2>3, FlowFlags
  <2> QED BY <2>1, <2>7, <2>9, <2>10 DEF FlowIInv
<1> QED BY <1>2, <1>3, <1>4

(* A thread that takes up an item, or gives one back.                      *)
LEMMA UsersAt ==
  ASSUME FlowThreads, FlowIInv, NEW t \in FlowUsers, NEW f \in FlowKinds,
         Flow!Use(t, f) \/ Flow!Unuse(t, f)
  PROVE  FlowIInv'
<1>1. /\ FlowType /\ ShapeInv /\ BindInv /\ MpInv /\ FlagsInv
  BY DEF FlowIInv
<1>2. /\ UNCHANGED << f_State, f_count, f_masked, f_event, f_held, f_late, f_Value >>
      /\ UNCHANGED << f_mp, f_needsReset, f_bDeviceNeedsReset, f_ndis, f_refused >>
      /\ f_todo[t] = << >>
  BY DEF Flow!Use, Flow!Unuse, Flow!flowVars, Flow!mpVars
<1>3. PICK h \in {"addref", "release"} :
        /\ h = "addref" => t \notin f_held[f]
        /\ h = "release" => t \in f_held[f]
        /\ f_todo' = [f_todo EXCEPT ![t] = << Flow!Op(h, f) >>]
  BY DEF Flow!Use, Flow!Unuse
<1>4. /\ Others(t) /\ \A g : Doing(t, g) = "none"
      /\ \A g : Doing(t, g)' = IF f = g THEN h ELSE "none"
  BY <1>1, <1>2, <1>3, UserList
<1>5. /\ t \in Flow!Threads /\ t \notin {"ndis", "vf", "cx"}
      /\ {"ndis", "vf", "cx"} \subseteq Flow!Threads
  BY DEF FlowThreads, Flow!Threads
<1>6. /\ f_todo'["ndis"] = f_todo["ndis"] /\ f_todo'["cx"] = f_todo["cx"]
      /\ f_todo'["vf"] = f_todo["vf"]
  BY <1>1, <1>3, <1>5 DEF FlowType
<1>7. /\ f_refused' \in BOOLEAN /\ f_Value' \in BOOLEAN
      /\ f_ndis' \in [running : BOOLEAN, powered : BOOLEAN, removed : BOOLEAN, reset : BOOLEAN,
                      halted : BOOLEAN]
  BY <1>1, <1>2 DEF FlowType
<1>8. \A g \in FlowKinds :
        \/ Doing(t, g)' = Doing(t, g)
        \/ Doing(t, g) = "none" /\ Doing(t, g)' \in {"start", "stop", "addref"}
        \/ Doing(t, g) = "none" /\ Doing(t, g)' = "release" /\ t \in f_held[g]
  BY <1>3, <1>4
<1>9. FlowType' /\ ShapeInv' /\ \A g \in FlowKinds : FlowAt(g)'
  BY <1>2, <1>4, <1>5, <1>7, <1>8, ListStep
<1>10. \A c : FlowIs(c) => FlowIs(c)'
  BY <1>2 DEF FlowIs
<1>11. MpInv'
  BY <1>1, <1>2, <1>6, <1>10, MpKeeps
<1>12. FlagsInv' /\ BindInv'
  BY <1>1, <1>2, <1>6, FlowFlags, SameBind
<1> QED BY <1>9, <1>11, <1>12 DEF FlowIInv

LEMMA BindsAt ==
  ASSUME FlowThreads, FlowIInv, Flow!Bind
  PROVE  FlowIInv'
<1>1. /\ FlowType /\ ShapeInv /\ BindInv /\ MpInv /\ FlagsInv
  BY DEF FlowIInv
<1>2. /\ UNCHANGED << f_State, f_count, f_masked, f_event, f_held, f_late, f_Value >>
      /\ UNCHANGED << f_mp, f_needsReset, f_bDeviceNeedsReset, f_ndis, f_refused >>
  BY DEF Flow!Bind, Flow!flowVars, Flow!mpVars
<1>3. /\ Others("vf") /\ BindInv' /\ Doing("vf", "data")' = Doing("vf", "data")
      /\ Doing("vf", "binding") = "none" /\ Doing("vf", "binding")' \in {"none", "stop"}
  BY <1>1, BindStep
<1>4. \E x : f_todo' = [f_todo EXCEPT !["vf"] = x]
  BY DEF Flow!Bind
<1>5. /\ f_todo'["ndis"] = f_todo["ndis"] /\ f_todo'["cx"] = f_todo["cx"] /\ "vf" \in Flow!Threads
  BY <1>1, <1>4 DEF FlowType, Flow!Threads
<1>6. /\ f_refused' \in BOOLEAN /\ f_Value' \in BOOLEAN
      /\ f_ndis' \in [running : BOOLEAN, powered : BOOLEAN, removed : BOOLEAN, reset : BOOLEAN,
                      halted : BOOLEAN]
  BY <1>1, <1>2 DEF FlowType
<1>7. \A g \in FlowKinds : g \in {"data", "binding"}
  BY KindIs
<1>8. \A g \in FlowKinds :
        \/ Doing("vf", g)' = Doing("vf", g)
        \/ Doing("vf", g) = "none" /\ Doing("vf", g)' \in {"start", "stop", "addref"}
  BY <1>3, <1>7
<1>9. FlowType' /\ ShapeInv' /\ \A g \in FlowKinds : FlowAt(g)'
  BY <1>2, <1>3, <1>5, <1>6, <1>8, ListStep
<1>10. \A c : FlowIs(c) => FlowIs(c)'
  BY <1>2 DEF FlowIs
<1>11. MpInv'
  BY <1>1, <1>2, <1>5, <1>10, MpKeeps
<1>12. FlagsInv'
  BY <1>1, <1>2, <1>5, FlowFlags
<1> QED BY <1>3, <1>9, <1>11, <1>12 DEF FlowIInv

(* NDIS, and the state machine of the miniport.                            *)
LEMMA NdisAtAll ==
  ASSUME FlowThreads, FlowIInv,
         Flow!NotifyState \/ Flow!Device \/ \E op \in FlowOps : Flow!Ask(op)
  PROVE  FlowIInv'
<1>1. /\ FlowType /\ ShapeInv /\ BindInv /\ MpInv /\ FlagsInv
  BY DEF FlowIInv
<1>2. UNCHANGED << f_State, f_count, f_masked, f_event, f_held, f_late, f_Value >>
  BY DEF Flow!NotifyState, Flow!Device, Flow!Ask, Flow!MpOp, Flow!flowVars
<1>3. /\ MpGone /\ FlagsInv' /\ f_refused' \in BOOLEAN
      /\ f_ndis' \in [running : BOOLEAN, powered : BOOLEAN, removed : BOOLEAN, reset : BOOLEAN,
                      halted : BOOLEAN]
  <2>1. CASE Flow!NotifyState
    <3>1. f_ndis' = f_ndis
      BY <2>1 DEF Flow!NotifyState, Flow!MpOp
    <3>2. f_refused' \in BOOLEAN
      BY <1>1, <2>1 DEF Flow!NotifyState, Flow!MpOp, Flow!ChangeState, FlowType
    <3> QED BY <1>1, <2>1, <3>1, <3>2, NotifyAt, NotifyFlags DEF FlowType
  <2>2. CASE Flow!Device
    <3>1. f_ndis' = f_ndis /\ f_refused' = f_refused
      BY <2>2 DEF Flow!Device, Flow!MpOp
    <3> QED BY <1>1, <2>2, <3>1, DeviceAt, DeviceFlags DEF FlowType
  <2>3. CASE \E op \in FlowOps : Flow!Ask(op)
    <3>1. PICK op \in FlowOps : Flow!Ask(op)
      BY <2>3
    <3>2. f_refused' = f_refused
      BY <3>1 DEF Flow!Ask
    <3> QED BY <1>1, <3>1, <3>2, AskAt DEF FlowType
  <2> QED BY <2>1, <2>2, <2>3
<1>4. \E x : f_todo' = [f_todo EXCEPT !["ndis"] = x]
  BY DEF Flow!NotifyState, Flow!Device, Flow!Ask, Flow!Then
<1>5. f_todo'["vf"] = f_todo["vf"] /\ "ndis" \in Flow!Threads
  BY <1>1, <1>4 DEF FlowType, Flow!Threads
<1>6. \A g \in FlowKinds : g \in {"data", "binding"}
  BY KindIs
<1>7. \A g \in FlowKinds :
        \/ Doing("ndis", g)' = Doing("ndis", g)
        \/ Doing("ndis", g) = "none" /\ Doing("ndis", g)' \in {"start", "stop", "addref"}
  BY <1>3, <1>6 DEF MpGone
<1>8. f_Value' \in BOOLEAN
  BY <1>1, <1>2 DEF FlowType
<1>9. FlowType' /\ ShapeInv' /\ \A g \in FlowKinds : FlowAt(g)'
  BY <1>2, <1>3, <1>5, <1>7, <1>8, ListStep DEF MpGone
<1>10. BindInv'
  BY <1>1, <1>2, <1>5, SameBind
<1> QED BY <1>3, <1>9, <1>10 DEF FlowIInv, MpGone

(* The device and the configuration DPC.                                   *)
LEMMA NeedsResetAt ==
  ASSUME FlowThreads, FlowIInv, Flow!DeviceNeedsReset
  PROVE  FlowIInv'
<1>1. /\ FlowType /\ ShapeInv /\ (\A f \in FlowKinds : FlowAt(f))
      /\ BindInv /\ MpInv /\ FlagsInv
  BY DEF FlowIInv
<1>2. /\ UNCHANGED << f_State, f_count, f_masked, f_event, f_held, f_late, f_Value >>
      /\ UNCHANGED << f_mp, f_bDeviceNeedsReset, f_refused, f_todo >>
      /\ f_ndis' = [f_ndis EXCEPT !.reset = TRUE]
  BY DEF Flow!DeviceNeedsReset, Flow!flowVars
<1>3. /\ f_ndis' \in [running : BOOLEAN, powered : BOOLEAN, removed : BOOLEAN, reset : BOOLEAN,
                      halted : BOOLEAN]
      /\ f_ndis'.running = f_ndis.running /\ f_ndis'.powered = f_ndis.powered
      /\ f_ndis'.removed = f_ndis.removed /\ f_ndis'.halted = f_ndis.halted /\ f_ndis'.reset
  BY <1>1, <1>2 DEF FlowType
<1>4. Others("cx")
  <2>1. "cx" \in Flow!Threads /\ "cx" \notin FlowUsers
    BY DEF FlowThreads, Flow!Threads
  <2>2. /\ f_todo' = [f_todo EXCEPT !["cx"] = f_todo["cx"]]
        /\ f_todo["cx"] = << >> \/ f_todo["cx"] = << Flow!Op("needs_reset", "cx") >>
    BY <1>1, <1>2 DEF FlowType, ShapeInv
  <2> QED BY <1>1, <1>2, <2>2, CxList
<1>5. \A f \in FlowKinds : Doing("cx", f)' = Doing("cx", f)
  BY <1>2 DEF Doing
<1>6. f_Value' \in BOOLEAN /\ f_refused' \in BOOLEAN /\ "cx" \in Flow!Threads
  BY <1>1, <1>2 DEF FlowType, Flow!Threads
<1>7. FlowType' /\ ShapeInv' /\ \A f \in FlowKinds : FlowAt(f)'
  BY <1>2, <1>3, <1>4, <1>5, <1>6, ListStep
<1>8. \A c : FlowIs(c) => FlowIs(c)'
  BY <1>2 DEF FlowIs
<1>9. MpInv'
  BY <1>1, <1>2, <1>3, <1>8, MpKeeps
<1>10. BindInv'
  BY <1>1, <1>2, SameBind
<1>11. FlagsInv'
  BY <1>1, <1>2, <1>3 DEF FlagsInv
<1> QED BY <1>7, <1>9, <1>10, <1>11 DEF FlowIInv

LEMMA DpcList ==
  ASSUME FlowThreads, FlowIInv, NEW s, s = << >> \/ s = << Flow!Op("needs_reset", "cx") >>,
         f_todo' = [f_todo EXCEPT !["cx"] = s],
         UNCHANGED << f_State, f_count, f_masked, f_event, f_held, f_late, f_Value, f_ndis >>,
         f_refused' \in BOOLEAN
  PROVE  /\ FlowType' /\ ShapeInv' /\ (\A f \in FlowKinds : FlowAt(f)') /\ BindInv'
         /\ f_todo'["ndis"] = f_todo["ndis"] /\ f_todo'["cx"] = s
<1>1. FlowType /\ ShapeInv /\ BindInv
  BY DEF FlowIInv
<1>2. Others("cx") /\ f_todo'["cx"] = s
  BY <1>1, CxList
<1>3. /\ "cx" \in Flow!Threads
      /\ f_todo'["ndis"] = f_todo["ndis"] /\ f_todo'["vf"] = f_todo["vf"]
  BY <1>1 DEF FlowType, Flow!Threads
<1>4. ASSUME NEW x, x = << >> \/ x = << Flow!Op("needs_reset", "cx") >>, NEW f \in FlowKinds
      PROVE  About(x, f) = "none"
  <2>1. f \in {"data", "binding"}
    BY KindIs
  <2>2. CASE x = << >>
    BY <2>2 DEF About
  <2>3. CASE x = << Flow!Op("needs_reset", "cx") >>
    <3>1. Head(x) = Flow!Op("needs_reset", "cx")
      BY <2>3
    <3>2. \A h \in Acts : Head(x) # Flow!Op(h, f)
      BY <2>1, <3>1, OpIs
    <3> QED BY <3>2 DEF About
  <2> QED BY <1>4, <2>2, <2>3
<1>5. f_todo["cx"] = << >> \/ f_todo["cx"] = << Flow!Op("needs_reset", "cx") >>
  BY <1>1 DEF ShapeInv
<1>6. \A f \in FlowKinds : Doing("cx", f) = "none" /\ About(s, f) = "none"
  BY <1>4, <1>5 DEF Doing
<1>7. \A f \in FlowKinds : Doing("cx", f)' = Doing("cx", f)
  BY <1>2, <1>6 DEF Doing
<1>8. f_Value' \in BOOLEAN
      /\ f_ndis' \in [running : BOOLEAN, powered : BOOLEAN, removed : BOOLEAN, reset : BOOLEAN,
                      halted : BOOLEAN]
  BY <1>1 DEF FlowType
<1>9. FlowType' /\ ShapeInv' /\ \A f \in FlowKinds : FlowAt(f)'
  BY <1>2, <1>3, <1>7, <1>8, ListStep
<1>10. BindInv'
  BY <1>1, <1>3, SameBind
<1> QED BY <1>2, <1>3, <1>9, <1>10

LEMMA DpcAt ==
  ASSUME FlowThreads, FlowIInv, Flow!CXDPC
  PROVE  FlowIInv'
<1>1. FlowType /\ MpInv /\ FlagsInv
  BY DEF FlowIInv
<1>2. /\ UNCHANGED << f_State, f_count, f_masked, f_event, f_held, f_late, f_Value, f_ndis >>
      /\ UNCHANGED << f_mp, f_needsReset, f_bDeviceNeedsReset, f_refused >>
      /\ f_todo' = [f_todo EXCEPT !["cx"] = << Flow!Op("needs_reset", "cx") >>] /\ f_needsReset
  BY DEF Flow!CXDPC, Flow!flowVars, Flow!mpVars
<1>3. f_refused' \in BOOLEAN
  BY <1>1, <1>2 DEF FlowType
<1>4. /\ FlowType' /\ ShapeInv' /\ (\A f \in FlowKinds : FlowAt(f)') /\ BindInv'
      /\ f_todo'["ndis"] = f_todo["ndis"]
  BY <1>2, <1>3, DpcList
<1>5. \A c : FlowIs(c) => FlowIs(c)'
  BY <1>2 DEF FlowIs
<1>6. MpInv'
  BY <1>1, <1>2, <1>4, <1>5, MpKeeps
<1>7. FlagsInv'
  BY <1>1, <1>2 DEF FlagsInv
<1> QED BY <1>4, <1>6, <1>7 DEF FlowIInv

LEMMA KnownReset ==
  ASSUME FlowType, NEW k \in Phases, NEW h, Known(h, k), f_mp = "Running", f_mp' = "NeedsReset",
         UNCHANGED << f_State, f_late, f_ndis >>
  PROVE  Known(h, k)'
<1>1. /\ Runs' = Runs /\ Powered' = Powered /\ \A b : FlowIs(b)' = FlowIs(b)
  BY SameKnown
<1>2. Begins(h)' = Begins(h) /\ Ends(h)' = Ends(h)
  BY <1>1 DEF Begins, Ends
<1>3. Runs \in BOOLEAN /\ Powered \in BOOLEAN
  BY DEF FlowType, Runs, Powered
<1>4. k \in {"idle", "paused", "suspend", "fast", "removed", "shutdown"}
  BY <1>3 DEF Known, Phases, Steady
<1>5. CASE k = "idle"
  BY <1>1, <1>3, <1>5 DEF Known, Steady
<1>6. CASE k \in {"paused", "fast"}
  BY <1>1, <1>2, <1>6 DEF Known
<1>7. CASE k \in {"suspend", "removed", "shutdown"}
  BY <1>1, <1>3, <1>7 DEF Known, Live
<1> QED BY <1>4, <1>5, <1>6, <1>7

LEMMA NotifyResetAt ==
  ASSUME FlowThreads, FlowIInv, Flow!NotifyDeviceNeedsReset
  PROVE  FlowIInv'
<1>1. FlowType /\ MpInv /\ FlagsInv /\ ShapeInv
  BY DEF FlowIInv
<1>2. /\ UNCHANGED << f_State, f_count, f_masked, f_event, f_held, f_late, f_Value, f_ndis >>
      /\ UNCHANGED f_needsReset /\ f_bDeviceNeedsReset'
      /\ f_mp' = "NeedsReset" /\ f_refused' = (f_refused \/ f_mp # "Running")
      /\ f_todo["cx"] # << >>
      /\ f_todo' = [f_todo EXCEPT !["cx"] = << >> \o Tail(f_todo["cx"])]
  BY DEF Flow!NotifyDeviceNeedsReset, Flow!flowVars, Flow!ChangeState, Flow!At, Flow!Then
<1>3. << >> \o Tail(f_todo["cx"]) = << >>
  <2> DEFINE x == Flow!Op("needs_reset", "cx")
  <2>1. f_todo["cx"] = << x >>
    BY <1>1, <1>2 DEF ShapeInv
  <2> HIDE DEF x
  <2>2. << >> \o Tail(<< x >>) = << >>
    OBVIOUS
  <2> QED BY <2>1, <2>2
<1>4. f_refused' \in BOOLEAN /\ f_todo' = [f_todo EXCEPT !["cx"] = << >>]
  BY <1>1, <1>2, <1>3 DEF FlowType
<1>5. /\ FlowType' /\ ShapeInv' /\ (\A f \in FlowKinds : FlowAt(f)') /\ BindInv'
      /\ f_todo'["ndis"] = f_todo["ndis"] /\ f_todo'["cx"] = << >>
  BY <1>2, <1>4, DpcList
<1>6. MpInv'
  <2>1. SUFFICES ASSUME ~f_refused' PROVE MpInv'
    BY DEF MpInv
  <2>2. ~f_refused /\ f_mp = "Running"
    BY <1>2, <2>1
  <2>3. PICK k \in Phases, h \in Owned \cup {"none"} : NdisAt(h, Todo(k)) /\ Known(h, k)
    BY <1>1, <2>2 DEF MpInv
  <2>4. NdisAt(h, Todo(k))'
    BY <1>5, <2>3 DEF NdisAt
  <2>5. Known(h, k)'
    BY <1>1, <1>2, <2>2, <2>3, KnownReset
  <2> QED BY <2>4, <2>5 DEF MpInv
<1>7. FlagsInv'
  BY <1>1, <1>2, <1>5 DEF FlagsInv
<1> QED BY <1>5, <1>6, <1>7 DEF FlowIInv

LEMMA FlowStutter ==
  ASSUME FlowThreads, FlowIInv, UNCHANGED Flow!vars
  PROVE  FlowIInv'
<1>1. /\ FlowType /\ ShapeInv /\ (\A f \in FlowKinds : FlowAt(f))
      /\ BindInv /\ MpInv /\ FlagsInv
  BY DEF FlowIInv
<1>2. /\ UNCHANGED << f_State, f_count, f_masked, f_event, f_held, f_late, f_Value, f_ndis >>
      /\ UNCHANGED << f_mp, f_needsReset, f_bDeviceNeedsReset, f_refused, f_todo >>
  BY DEF Flow!vars, Flow!flowVars, Flow!mpVars
<1>3. /\ f_todo' = [f_todo EXCEPT !["cx"] = f_todo["cx"]] /\ f_refused' \in BOOLEAN
      /\ f_todo["cx"] = << >> \/ f_todo["cx"] = << Flow!Op("needs_reset", "cx") >>
  BY <1>1, <1>2 DEF FlowType, ShapeInv
<1>4. FlowType' /\ ShapeInv' /\ (\A f \in FlowKinds : FlowAt(f)') /\ BindInv'
  BY <1>2, <1>3, DpcList
<1>5. \A c : FlowIs(c) => FlowIs(c)'
  BY <1>2 DEF FlowIs
<1>6. MpInv' /\ FlagsInv'
  BY <1>1, <1>2, <1>5, MpKeeps, FlowFlags
<1> QED BY <1>4, <1>6 DEF FlowIInv

LEMMA FlowNext ==
  ASSUME FlowThreads, FlowIInv, Flow!Next
  PROVE  FlowIInv'
<1>1. ASSUME NEW t \in Flow!Threads, Flow!FlowStep(t) PROVE FlowIInv'
  BY <1>1, FlowStepAt
<1>2. ASSUME NEW t \in FlowUsers, NEW f \in FlowKinds, Flow!Use(t, f) \/ Flow!Unuse(t, f)
      PROVE  FlowIInv'
  BY <1>2, UsersAt
<1>3. CASE \E t \in FlowUsers : Flow!UserStep(t) \/ \E f \in FlowKinds : Flow!Use(t, f)
  BY <1>1, <1>2, <1>3 DEF Flow!UserStep, Flow!Threads
<1>4. CASE Flow!FlowStep("vf") \/ Flow!FlowStep("ndis")
  BY <1>1, <1>4 DEF Flow!Threads
<1>5. CASE Flow!Bind
  BY <1>5, BindsAt
<1>6. CASE Flow!DeviceNeedsReset \/ Flow!CXDPC \/ Flow!NotifyDeviceNeedsReset
  BY <1>6, NeedsResetAt, DpcAt, NotifyResetAt
<1>7. CASE Flow!NotifyState \/ Flow!Device \/ \E op \in FlowOps : Flow!Ask(op)
  BY <1>7, NdisAtAll
<1> QED BY <1>3, <1>4, <1>5, <1>6, <1>7 DEF Flow!Next

LEMMA FlowInit ==
  ASSUME FlowThreads, Flow!Init
  PROVE  FlowIInv
<1>1. << >> \in Seq(Record) /\ << >> \in Seq(MpRecord)
  OBVIOUS
<1>2. FlowType
  <2>1. /\ f_State \in [FlowKinds -> {"Running", "Stopping", "Stopped"}]
        /\ f_count \in [FlowKinds -> Int] /\ f_masked \in [FlowKinds -> BOOLEAN]
        /\ f_event \in [FlowKinds -> BOOLEAN] /\ f_late \in [FlowKinds -> BOOLEAN]
    BY DEF Flow!Init
  <2>2. f_held \in [FlowKinds -> SUBSET FlowUsers]
    BY DEF Flow!Init
  <2>3. f_todo \in [Flow!Threads -> Seq(Record)]
    BY <1>1, Zenon DEF Flow!Init
  <2>4. /\ f_Value \in BOOLEAN /\ f_refused \in BOOLEAN
        /\ f_ndis \in [running : BOOLEAN, powered : BOOLEAN, removed : BOOLEAN, reset : BOOLEAN,
                       halted : BOOLEAN]
    BY DEF Flow!Init
  <2> QED BY <2>1, <2>2, <2>3, <2>4 DEF FlowType
<1>3. \A t \in Flow!Threads : f_todo[t] = << >> /\ \A g : Doing(t, g) = "none"
  BY DEF Flow!Init, Doing, About
<1>4. /\ {"ndis", "vf", "cx"} \subseteq Flow!Threads /\ FlowUsers \subseteq Flow!Threads
      /\ {"none"} \subseteq Owned \cup {"none"} /\ "idle" \in Phases
  BY DEF Flow!Threads, Phases
<1>5. \A f : Part("none", f) \o << >> = << >>
  BY <1>1, PartNone
<1>6. NdisAt("none", << >>) /\ VfAt("none", << >>)
  BY <1>1, <1>3, <1>4, <1>5 DEF NdisAt, VfAt
<1>7. ShapeInv
  BY <1>3, <1>4, <1>6 DEF ShapeInv, UserAt
<1>8. \A f \in FlowKinds : FlowAt(f)
  <2>1. SUFFICES ASSUME NEW f \in FlowKinds PROVE FlowAt(f)
    OBVIOUS
  <2>2. /\ f_State[f] = "Stopped" /\ f_count[f] = 0 /\ f_masked[f] /\ ~f_event[f] /\ f_held[f] = {}
    BY DEF Flow!Init
  <2>3. Owner(f) \in Flow!Threads
    BY <1>4 DEF Owner
  <2>4. Doing(Owner(f), f) = "none"
    BY <1>3, <2>3
  <2>5. StateAt(f)
    BY <2>2, <2>4 DEF StateAt, Stops, Completes
  <2>6. EndAt(f)
    BY <1>3 DEF EndAt, Completes
  <2>7. Outs(f) = {}
    BY <1>3 DEF Outs, IsOut
  <2>8. Mine(f) = 0 /\ Cardinality({}) = 0
    BY <2>2, <2>4, FS_EmptySet DEF Mine
  <2>9. CountAt(f)
    BY <2>2, <2>7, <2>8 DEF CountAt
  <2> QED BY <2>5, <2>6, <2>9 DEF FlowAt
<1>9. BindInv
  <2>1. BindAt("none", << >>)
    BY ListsDiffer DEF BindAt, Flow!Init
  <2> QED BY <1>6, <2>1 DEF BindInv
<1>10. MpInv
  <2>1. Todo("idle") = << >>
    BY DEF Todo
  <2>2. ~Runs /\ Powered /\ f_mp = "Paused"
    BY DEF Flow!Init, Runs, Powered
  <2>3. FlowIs(FALSE)
    BY DEF Flow!Init, FlowIs
  <2>4. FlowIs(Runs /\ Powered)
    BY <2>2, <2>3 DEF FlowIs
  <2>5. Known("none", "idle")
    BY <2>2, <2>4 DEF Known, Steady
  <2> QED BY <1>4, <1>6, <2>1, <2>5 DEF MpInv
<1>11. FlagsInv
  BY <1>3, <1>4 DEF Flow!Init, FlagsInv
<1> QED BY <1>2, <1>7, <1>8, <1>9, <1>10, <1>11 DEF FlowIInv
-----------------------------------------------------------------------------
(* What is in a thread's list, against what it is about to do.             *)
Has(s, f) == \E i \in DOMAIN s : s[i] = Flow!Op("release", f)

LEMMA HasJoin ==
  ASSUME NEW p \in Seq(Record), NEW r \in Seq(Record), NEW f
  PROVE  Has(p \o r, f) <=> Has(p, f) \/ Has(r, f)
<1> DEFINE x == Flow!Op("release", f)
<1> HIDE DEF x
<1>1. /\ Len(p) \in Nat /\ Len(r) \in Nat /\ DOMAIN p = 1 .. Len(p) /\ DOMAIN r = 1 .. Len(r)
      /\ DOMAIN (p \o r) = 1 .. Len(p) + Len(r)
      /\ \A i \in 1 .. Len(p) + Len(r) :
           (p \o r)[i] = IF i =< Len(p) THEN p[i] ELSE r[i - Len(p)]
  OBVIOUS
<1>2. ASSUME NEW i \in DOMAIN (p \o r), (p \o r)[i] = x
      PROVE  (\E j \in DOMAIN p : p[j] = x) \/ \E j \in DOMAIN r : r[j] = x
  <2>1. CASE i =< Len(p)
    BY <1>1, <1>2, <2>1
  <2>2. CASE i > Len(p)
    <3>1. i - Len(p) \in DOMAIN r /\ r[i - Len(p)] = x
      BY <1>1, <1>2, <2>2
    <3> QED BY <3>1
  <2> QED BY <1>1, <2>1, <2>2
<1>3. ASSUME NEW j \in DOMAIN p, p[j] = x PROVE \E i \in DOMAIN (p \o r) : (p \o r)[i] = x
  <2>1. j \in DOMAIN (p \o r) /\ (p \o r)[j] = x
    BY <1>1, <1>3
  <2> QED BY <2>1
<1>4. ASSUME NEW j \in DOMAIN r, r[j] = x PROVE \E i \in DOMAIN (p \o r) : (p \o r)[i] = x
  <2>1. Len(p) + j \in DOMAIN (p \o r) /\ (p \o r)[Len(p) + j] = x
    BY <1>1, <1>4
  <2> QED BY <2>1
<1> QED BY <1>2, <1>3, <1>4, Zenon DEF Has, x

LEMMA HasOne ==
  ASSUME NEW op, NEW g, NEW f
  PROVE  Has(<< Flow!Op(op, g) >>, f) <=> op = "release" /\ g = f
<1> DEFINE x == Flow!Op(op, g)
<1> HIDE DEF x
<1>1. DOMAIN << x >> = {1} /\ << x >>[1] = x
  OBVIOUS
<1>2. x = Flow!Op("release", f) <=> op = "release" /\ g = f
  BY OpIs DEF x
<1> QED BY <1>1, <1>2 DEF Has, x

LEMMA HasTwo ==
  ASSUME NEW a, NEW b, NEW g, NEW f
  PROVE  Has(<< Flow!Op(a, g), Flow!Op(b, g) >>, f) <=> g = f /\ "release" \in {a, b}
<1> DEFINE x == Flow!Op(a, g) y == Flow!Op(b, g)
<1> HIDE DEF x, y
<1>1. DOMAIN << x, y >> = {1, 2} /\ << x, y >>[1] = x /\ << x, y >>[2] = y
  OBVIOUS
<1>2. /\ x = Flow!Op("release", f) <=> a = "release" /\ g = f
      /\ y = Flow!Op("release", f) <=> b = "release" /\ g = f
  BY OpIs DEF x, y
<1> QED BY <1>1, <1>2 DEF Has, x, y

LEMMA HasThree ==
  ASSUME NEW a, NEW b, NEW c, NEW g, NEW f
  PROVE  Has(<< Flow!Op(a, g), Flow!Op(b, g), Flow!Op(c, g) >>, f) <=> g = f /\ "release" \in {a, b, c}
<1> DEFINE x == Flow!Op(a, g) y == Flow!Op(b, g) z == Flow!Op(c, g)
<1> HIDE DEF x, y, z
<1>1. /\ DOMAIN << x, y, z >> = {1, 2, 3}
      /\ << x, y, z >>[1] = x /\ << x, y, z >>[2] = y /\ << x, y, z >>[3] = z
  OBVIOUS
<1>2. /\ x = Flow!Op("release", f) <=> a = "release" /\ g = f
      /\ y = Flow!Op("release", f) <=> b = "release" /\ g = f
      /\ z = Flow!Op("release", f) <=> c = "release" /\ g = f
  BY OpIs DEF x, y, z
<1> QED BY <1>1, <1>2 DEF Has, x, y, z

LEMMA HasFour ==
  ASSUME NEW a, NEW b, NEW c, NEW d, NEW g, NEW f
  PROVE  Has(<< Flow!Op(a, g), Flow!Op(b, g), Flow!Op(c, g), Flow!Op(d, g) >>, f)
           <=> g = f /\ "release" \in {a, b, c, d}
<1> DEFINE w == Flow!Op(a, g) x == Flow!Op(b, g) y == Flow!Op(c, g) z == Flow!Op(d, g)
<1> HIDE DEF w, x, y, z
<1>1. /\ DOMAIN << w, x, y, z >> = {1, 2, 3, 4} /\ << w, x, y, z >>[1] = w
      /\ << w, x, y, z >>[2] = x /\ << w, x, y, z >>[3] = y /\ << w, x, y, z >>[4] = z
  OBVIOUS
<1>2. /\ w = Flow!Op("release", f) <=> a = "release" /\ g = f
      /\ x = Flow!Op("release", f) <=> b = "release" /\ g = f
      /\ y = Flow!Op("release", f) <=> c = "release" /\ g = f
      /\ z = Flow!Op("release", f) <=> d = "release" /\ g = f
  BY OpIs DEF w, x, y, z
<1> QED BY <1>1, <1>2 DEF Has, w, x, y, z

LEMMA HasNone == ASSUME NEW f PROVE ~Has(<< >>, f)
BY DEF Has

LEMMA HasPart ==
  ASSUME NEW h \in Owned \cup {"none"}, NEW g, NEW f
  PROVE  Has(Part(h, g), f) <=> g = f /\ h \in {"clear", "mask", "release"}
<1>1. CASE h \in {"stop", "wait", "start", "unmask"}
  BY <1>1, HasOne DEF Part
<1>2. CASE h = "clear"
  BY <1>2, HasFour DEF Part
<1>3. CASE h \in {"mask", "stopped"}
  BY <1>3, HasThree DEF Part
<1>4. CASE h \in {"release", "check", "notify", "running"}
  BY <1>4, HasTwo DEF Part
<1>5. CASE h = "none"
  BY <1>5, HasNone, PartNone
<1> QED BY <1>1, <1>2, <1>3, <1>4, <1>5 DEF Owned, Starts, Stops, Completes

LEMMA HasUser ==
  ASSUME NEW h \in Shared, NEW g, NEW f
  PROVE  Has(UserPart(h, g), f) <=> g = f /\ h = "release"
<1>1. CASE h = "stopped"
  BY <1>1, HasTwo DEF UserPart
<1>2. CASE h # "stopped"
  BY <1>2, HasOne DEF UserPart, Shared, Completes
<1> QED BY <1>1, <1>2

(* Who is still to release a flow.                                         *)
LEMMA HasIs ==
  ASSUME FlowThreads, ShapeInv, NEW t \in Flow!Threads, NEW f \in FlowKinds
  PROVE  Has(f_todo[t], f) <=>
           Doing(t, f) = "release" \/ (t = Owner(f) /\ Doing(t, f) \in {"clear", "mask"})
<1>1. f \in {"data", "binding"} /\ Owner(f) = IF f = "data" THEN "ndis" ELSE "vf"
  BY KindIs DEF Owner
<1>2. CASE t \in FlowUsers
  <2>1. t # Owner(f) /\ UserAt(t)
    BY <1>2, KindIs DEF ShapeInv
  <2>2. CASE f_todo[t] = << >>
    BY <2>1, <2>2, HasNone DEF Doing, About
  <2>3. CASE f_todo[t] # << >>
    <3>1. PICK g \in FlowKinds, h \in Shared : f_todo[t] = UserPart(h, g)
      BY <2>1, <2>3 DEF UserAt
    <3>2. Doing(t, f) = IF g = f THEN h ELSE "none"
      BY <3>1, AboutUser DEF Doing
    <3>3. Has(f_todo[t], f) <=> g = f /\ h = "release"
      BY <3>1, HasUser
    <3> QED BY <2>1, <3>2, <3>3
  <2> QED BY <2>2, <2>3
<1>3. CASE t = "ndis"
  <2>1. PICK h, r : NdisAt(h, r)
    BY DEF ShapeInv
  <2>2. /\ Calm(r) /\ h \in Owned \cup {"none"} /\ Doing("ndis", "data") = h
        /\ Doing("ndis", "binding") = "none" /\ f_todo["ndis"] = Part(h, "data") \o r
    BY <2>1, NdisCalm
  <2>3. Part(h, "data") \in Seq(Record) /\ r \in Seq(Record)
    <3>1. << >> \in Seq(Record)
      OBVIOUS
    <3> QED BY <2>2, <3>1, PartIs, PartNone DEF Calm
  <2>4. ~Has(r, f)
    <3>1. r \in Seq(MpRecord) /\ \A m \in MpRecord : m.f = "mp"
      BY <2>1 DEF NdisAt, MpRecord
    <3>2. \A i \in DOMAIN r : r[i].f = "mp"
      BY <3>1
    <3> QED BY <1>1, <3>2, OpIs DEF Has
  <2>5. Has(f_todo["ndis"], f) <=> "data" = f /\ h \in {"clear", "mask", "release"}
    BY <2>2, <2>3, <2>4, HasJoin, HasPart
  <2> QED BY <1>1, <1>3, <2>2, <2>5
<1>4. CASE t = "vf"
  <2>1. PICK h, r : VfAt(h, r)
    BY DEF ShapeInv
  <2>2. /\ Calm(r) /\ h \in Owned \cup {"none"} /\ Doing("vf", "binding") = h
        /\ Doing("vf", "data") = "none" /\ f_todo["vf"] = Part(h, "binding") \o r
    BY <2>1, VfCalm
  <2>3. Part(h, "binding") \in Seq(Record) /\ r \in Seq(Record)
    <3>1. << >> \in Seq(Record)
      OBVIOUS
    <3> QED BY <2>2, <3>1, PartIs, PartNone DEF Calm
  <2>4. ~Has(r, f)
    <3>1. r \in {<< >>, NullFlow, Flow!Set}
      BY <2>1, Zenon DEF VfAt
    <3>2. ~Has(<< >>, f)
      BY HasNone
    <3>3. ~Has(NullFlow, f)
      BY HasOne DEF NullFlow
    <3>4. ~Has(Flow!Set, f)
      BY HasTwo DEF Flow!Set
    <3> QED BY <3>1, <3>2, <3>3, <3>4
  <2>5. Has(f_todo["vf"], f) <=> "binding" = f /\ h \in {"clear", "mask", "release"}
    BY <2>2, <2>3, <2>4, HasJoin, HasPart
  <2> QED BY <1>1, <1>4, <2>2, <2>5
<1>5. CASE t = "cx"
  <2>1. t # Owner(f) /\ t \notin FlowUsers
    BY <1>1, <1>5 DEF FlowThreads
  <2>2. Doing(t, f) # "release"
    BY <2>1, WhoDoes
  <2>3. f_todo["cx"] = << >> \/ f_todo["cx"] = << Flow!Op("needs_reset", "cx") >>
    BY DEF ShapeInv
  <2>4. ~Has(<< >>, f) /\ ~Has(<< Flow!Op("needs_reset", "cx") >>, f)
    BY HasNone, HasOne
  <2> QED BY <1>5, <2>1, <2>2, <2>3, <2>4
<1> QED BY <1>2, <1>3, <1>4, <1>5 DEF Flow!Threads

LEMMA StartingIs ==
  ASSUME FlowThreads, ShapeInv, NEW f \in FlowKinds
  PROVE  Flow!Starting(f) <=> Doing(Owner(f), f) = "running"
<1>1. ASSUME NEW t \in Flow!Threads, f_todo[t] # << >>, Head(f_todo[t]) = Flow!Op("running", f)
      PROVE  Doing(Owner(f), f) = "running"
  <2>1. Doing(t, f) = "running"
    BY <1>1, AboutHead DEF Doing, Acts, Owned, Starts
  <2>2. t = Owner(f)
    BY <2>1, WhoDoes DEF Shared, Completes
  <2> QED BY <2>1, <2>2
<1>2. ASSUME Doing(Owner(f), f) = "running" PROVE Flow!Starting(f)
  <2>1. Owner(f) \in Flow!Threads
    BY KindIs DEF Flow!Threads
  <2>2. /\ f_todo[Owner(f)] # << >>
        /\ \E h \in Acts : Head(f_todo[Owner(f)]) = Flow!Op(h, f)
        /\ Head(f_todo[Owner(f)]).op = "running"
    BY <1>2 DEF Doing, About
  <2>3. Head(f_todo[Owner(f)]) = Flow!Op("running", f)
    BY <2>2, OpIs
  <2> QED BY <2>1, <2>2, <2>3 DEF Flow!Starting
<1> QED BY <1>1, <1>2 DEF Flow!Starting

(* The instance has its own name for what is the same.                     *)
LEMMA CardinalityIs == ASSUME NEW S PROVE Flow!Cardinality(S) = Cardinality(S)
BY DEF Flow!Cardinality, Cardinality

LEMMA FlowsHold ==
  ASSUME FlowThreads, FlowIInv
  PROVE  FlowsSound
<1>1. /\ FlowType /\ ShapeInv /\ (\A f \in FlowKinds : FlowAt(f))
      /\ BindInv /\ MpInv /\ FlagsInv
  BY DEF FlowIInv
<1>2. Flow!StoppedIsQuiet
  BY <1>1 DEF Flow!StoppedIsQuiet, FlowAt, StateAt
<1>3. Flow!CountIsExact
  <2>1. SUFFICES ASSUME NEW f \in FlowKinds, ~f_late[f]
                 PROVE  f_count[f] = Cardinality(f_held[f]) + Cardinality(Flow!Leaving(f))
                          + IF f_State[f] = "Running" \/ Flow!Starting(f) THEN 1 ELSE 0
    BY CardinalityIs DEF Flow!CountIsExact
  <2>2. \A t \in Flow!Threads : Has(f_todo[t], f) <=>
          Doing(t, f) = "release" \/ (t = Owner(f) /\ Doing(t, f) \in {"clear", "mask"})
    BY <1>1, HasIs
  <2>3. Flow!Leaving(f) = Outs(f)
    BY <2>2 DEF Flow!Leaving, Outs, IsOut, Has
  <2>4. Mine(f) = IF f_State[f] = "Running" \/ Flow!Starting(f) THEN 1 ELSE 0
    BY <1>1, StartingIs DEF Mine
  <2>5. CountAt(f)
    BY <1>1, <2>1 DEF FlowAt
  <2> QED BY <2>3, <2>4, <2>5 DEF CountAt
<1>4. Flow!BindingHeld
  <2>1. SUFFICES ASSUME "binding" \in FlowKinds, ~f_late["binding"], f_held["binding"] # {}
                 PROVE  f_Value
    BY DEF Flow!BindingHeld
  <2>2. f_State["binding"] # "Stopped"
    BY <1>1, <2>1 DEF FlowAt, StateAt
  <2> QED BY <1>1, <2>1, <2>2 DEF BindInv, BindAt
<1>5. Flow!StatesFollow
  BY <1>1 DEF FlagsInv, Flow!StatesFollow
<1>6. Flow!FlowFollowsState
  <2>1. SUFFICES ASSUME "data" \in FlowKinds, f_todo["ndis"] = << >>, ~f_refused, ~f_late["data"]
                 PROVE  /\ f_mp \in {"Running", "Paused", "Suspended", "FastSuspend"} =>
                             (f_State["data"] = "Running" <=> f_mp = "Running")
                        /\ f_ndis.running /\ f_ndis.powered => f_State["data"] = "Running"
    BY DEF Flow!FlowFollowsState
  <2>2. PICK k \in Phases, h \in Owned \cup {"none"} : NdisAt(h, Todo(k)) /\ Known(h, k)
    BY <1>1, <2>1 DEF MpInv
  <2>3. h = "none" /\ Todo(k) = << >>
    BY <2>1, <2>2, IdleIs
  <2>4. k = "idle"
    BY <2>3, TodoIs
  <2>5. /\ FlowIs(Runs /\ Powered)
        /\ \/ f_mp = Steady
           \/ f_mp \in {"NeedsReset", "SurpriseRemoved"} /\ Runs /\ Powered
           \/ f_mp = "Shutdown" /\ ~Runs /\ Powered
    BY <2>2, <2>4 DEF Known
  <2>6. f_State["data"] = IF Runs /\ Powered THEN "Running" ELSE "Stopped"
    BY <2>1, <2>5 DEF FlowIs
  <2>7. f_mp = "Running" => Runs /\ Powered
    BY <2>5 DEF Steady
  <2>8. f_mp \in {"Paused", "Suspended", "FastSuspend"} => ~(Runs /\ Powered)
    BY <2>5 DEF Steady
  <2> QED BY <2>6, <2>7, <2>8 DEF Runs, Powered
<1>7. Flow!ShutDownQuiet
  <2>1. SUFFICES ASSUME Flow!At("ndis", "shutdown_queues", "mp"), ~f_refused, ~f_late["data"]
                 PROVE  f_State["data"] = "Stopped" /\ f_held["data"] = {}
    BY DEF Flow!ShutDownQuiet
  <2>2. PICK k \in Phases : First(k) = "shutdown_queues" /\ Known("none", k)
    BY <1>1, <2>1, PhaseIs
  <2>3. k = "off4" /\ FlowIs(FALSE)
    BY <2>2, PhaseOf DEF Known
  <2>4. "data" \in FlowKinds
    <3>1. PICK h, r : NdisAt(h, r)
      BY <1>1 DEF ShapeInv
    <3>2. FlowOps # {}
      BY <2>1, <3>1, NdisHead
    <3> QED BY <3>2 DEF FlowThreads
  <2>5. f_State["data"] = "Stopped"
    BY <2>1, <2>3, <2>4 DEF FlowIs
  <2> QED BY <1>1, <2>1, <2>4, <2>5 DEF FlowAt, StateAt
<1> QED BY <1>2, <1>3, <1>4, <1>5, <1>6, <1>7 DEF FlowsSound, Flow!FlowSound

(* NetkvmFlow: whatever the threads that send and receive, whichever flows *)
(* there are and whatever NDIS asks for, a stopped flow has nothing        *)
(* outstanding, its counter is exact, the binding is held by nobody while  *)
(* it is taken away, and the data flow runs when the miniport does         *)
(* (ParaNdis-SM.h:26-139, 178-198, 275-334).                               *)
THEOREM FlowsAreSound == Flow!Spec => []FlowsSound
<1>1. FlowThreads
  BY FlowAssumption
<1>2. Flow!Init => FlowIInv
  BY <1>1, FlowInit
<1>3. FlowIInv /\ [Flow!Next]_(Flow!vars) => FlowIInv'
  BY <1>1, FlowNext, FlowStutter
<1>4. FlowIInv => FlowsSound
  BY <1>1, FlowsHold
<1> QED BY <1>2, <1>3, <1>4, PTL DEF Flow!Spec
=============================================================================
