------------------------- MODULE Smsc9118Data_proofs --------------------------
(***************************************************************************)
(* The data path of the LAN9118, for any number of packets, any FIFO and   *)
(* any calls: every packet is in one place, frames are handed up in order, *)
(* each packet for sending is answered at most once, and calls are sent    *)
(* behind one another.                                                     *)
(***************************************************************************)
EXTENDS Smsc9118Data, FiniteSetTheorems, TLAPS

Sizes == MaxRx \in Nat /\ Batches \subseteq Seq(Nat)

N == MaxRx + 1
Ring == [arr : [Slots -> 0 .. MaxRx], rd : Slots, wr : Slots]
-----------------------------------------------------------------------------
(* Remainders of what goes round a ring at most once.                      *)
LEMMA Remainder ==
  ASSUME NEW n \in Nat, n > 0, NEW a \in 0 .. n + n - 1
  PROVE  (a < n => a % n = a) /\ (~(a < n) => a % n = a - n)
<1> DEFINE q == a \div n
           r == a % n
           b == IF a < n THEN 0 ELSE 1
<1>1. q \in Int /\ r \in 0 .. n - 1 /\ a = n * q + r
  OBVIOUS
<1> HIDE DEF q, r
<1>2. q = b
  <2>1. CASE q >= 2
    <3>1. n * q >= n * 2 BY <2>1, <1>1, Z3
    <3> QED BY <3>1, <1>1
  <2>2. CASE q <= -1
    <3>1. n * q <= n * (-1) BY <2>2, <1>1, Z3
    <3> QED BY <3>1, <1>1
  <2>3. CASE q = 0 BY <2>3, <1>1
  <2>4. CASE q = 1 BY <2>4, <1>1
  <2> QED BY <1>1, <2>1, <2>2, <2>3, <2>4
<1>3. (a < n => r = a) /\ (~(a < n) => r = a - n)
  BY <1>1, <1>2
<1> QED BY <1>3 DEF r

LEMMA Turn ==
  ASSUME Sizes, NEW a \in Slots
  PROVE  IncPtr(a) = (IF a = MaxRx THEN 0 ELSE a + 1) /\ IncPtr(a) \in Slots
<1> DEFINE x == a + 1
<1>1. a \in 0 .. MaxRx /\ MaxRx \in Nat /\ N = MaxRx + 1 /\ N \in Nat /\ N > 0
  BY DEF Sizes, Slots, N
<1>2. x \in 0 .. N + N - 1 /\ x = a + 1
  BY <1>1
<1>3. IncPtr(a) = x % N
  BY Zenon DEF IncPtr, N
<1> HIDE DEF x
<1>4. (x < N => x % N = x) /\ (~(x < N) => x % N = x - N)
  BY <1>1, <1>2, Remainder, Zenon
<1>5. CASE a = MaxRx
  <2>1. ~(x < N) /\ x - N = 0
    BY <1>1, <1>2, <1>5
  <2>2. IncPtr(a) = 0
    BY <2>1, <1>3, <1>4, Zenon
  <2> QED BY <2>2, <1>1, <1>5 DEF Slots
<1>6. CASE a # MaxRx
  <2>1. x < N
    BY <1>1, <1>2, <1>6
  <2>2. IncPtr(a) = x
    BY <2>1, <1>3, <1>4, Zenon
  <2> QED BY <2>2, <1>1, <1>2, <1>6 DEF Slots
<1> QED BY <1>5, <1>6

(* What is in a ring.                                                      *)
Filled(r) == IF r.wr >= r.rd THEN r.wr - r.rd ELSE r.wr + N - r.rd
Place(r, i) == IF r.rd + i <= N THEN r.rd + i - 1 ELSE r.rd + i - 1 - N

LEMMA InRing ==
  ASSUME Sizes, NEW r \in Ring
  PROVE  /\ Filled(r) \in 0 .. MaxRx
         /\ Content(r) = [i \in 1 .. Filled(r) |-> r.arr[Place(r, i)]]
         /\ \A i \in 1 .. N : Place(r, i) \in Slots
         /\ Content(r) \in Seq(0 .. MaxRx)
         /\ Len(Content(r)) = Filled(r)
<1>1. r.rd \in 0 .. MaxRx /\ r.wr \in 0 .. MaxRx /\ MaxRx \in Nat /\ N \in Nat /\ N > 0
      /\ N = MaxRx + 1
  BY DEF Ring, Slots, Sizes, N
<1> DEFINE x == r.wr + MaxRx + 1 - r.rd
<1>2. x \in 0 .. N + N - 1 /\ x = r.wr + N - r.rd
  BY <1>1
<1>6. Content(r) = [i \in 1 .. x % N |-> r.arr[(r.rd + i - 1) % N]]
  BY Zenon DEF Content, N
<1> HIDE DEF x
<1>3. x % N = Filled(r)
  <2>1. (x < N => x % N = x) /\ (~(x < N) => x % N = x - N)
    BY <1>1, <1>2, Remainder, Zenon
  <2>2. CASE r.wr >= r.rd
    <3>1. ~(x < N) /\ x - N = r.wr - r.rd
      BY <1>1, <1>2, <2>2
    <3> QED BY <3>1, <2>1, <2>2, Zenon DEF Filled
  <2>3. CASE ~(r.wr >= r.rd)
    <3>1. x < N
      BY <1>1, <1>2, <2>3
    <3> QED BY <3>1, <2>1, <2>3, <1>2, Zenon DEF Filled
  <2> QED BY <2>2, <2>3
<1>4. Filled(r) \in 0 .. MaxRx
  BY <1>1 DEF Filled
<1>5. ASSUME NEW i \in 1 .. N PROVE (r.rd + i - 1) % N = Place(r, i) /\ Place(r, i) \in Slots
  <2>1. r.rd + i - 1 \in 0 .. N + N - 1
    BY <1>1
  <2>2. /\ r.rd + i - 1 < N => (r.rd + i - 1) % N = r.rd + i - 1
        /\ ~(r.rd + i - 1 < N) => (r.rd + i - 1) % N = r.rd + i - 1 - N
    BY <1>1, <2>1, Remainder
  <2>3. r.rd + i - 1 < N <=> r.rd + i <= N
    BY <1>1
  <2>4. (r.rd + i - 1) % N = Place(r, i)
    BY <2>2, <2>3, Zenon DEF Place
  <2>5. Place(r, i) \in Slots
    BY <1>1 DEF Place, Slots
  <2> QED BY <2>4, <2>5
<1>7. Content(r) = [i \in 1 .. Filled(r) |-> r.arr[(r.rd + i - 1) % N]]
  BY <1>3, <1>6, Zenon
<1>8. Content(r) = [i \in 1 .. Filled(r) |-> r.arr[Place(r, i)]]
  <2>1. \A i \in 1 .. Filled(r) : i \in 1 .. N
    BY <1>1, <1>4
  <2>2. \A i \in 1 .. Filled(r) : (r.rd + i - 1) % N = Place(r, i)
    BY <2>1, <1>5, Zenon
  <2> QED BY <2>2, <1>7, Zenon
<1>9. \A i \in 1 .. Filled(r) : r.arr[Place(r, i)] \in 0 .. MaxRx
  BY <1>1, <1>4, <1>5 DEF Ring
<1> DEFINE n == Filled(r)
           c == Content(r)
<1>10. c = [i \in 1 .. n |-> r.arr[Place(r, i)]] /\ n \in Nat /\ \A i \in 1 .. n : r.arr[Place(r, i)] \in 0 .. MaxRx
  BY <1>1, <1>4, <1>8, <1>9
<1> HIDE DEF n, c
<1>11. c \in Seq(0 .. MaxRx) /\ Len(c) = n
  <2>1. c \in [1 .. n -> 0 .. MaxRx]
    BY <1>10
  <2> QED BY <2>1, <1>10
<1>12. c = Content(r) /\ n = Filled(r)
  BY DEF n, c
<1>13. \A i \in 1 .. N : Place(r, i) \in Slots
  BY <1>5
<1> QED BY <1>4, <1>8, <1>11, <1>12, <1>13, Zenon

LEMMA RingEmpty ==
  ASSUME Sizes, NEW r \in Ring
  PROVE  IsArrayEmpty(r) <=> Content(r) = << >>
<1>1. r.rd \in 0 .. MaxRx /\ r.wr \in 0 .. MaxRx /\ MaxRx \in Nat /\ N = MaxRx + 1
  BY DEF Ring, Slots, Sizes, N
<1>2. Filled(r) = 0 <=> r.rd = r.wr
  BY <1>1 DEF Filled
<1>3. Len(Content(r)) = Filled(r) /\ Content(r) \in Seq(0 .. MaxRx)
  BY InRing
<1> HIDE DEF Content
<1>4. Content(r) = << >> <=> Len(Content(r)) = 0
  BY <1>3
<1> QED BY <1>2, <1>3, <1>4 DEF IsArrayEmpty

LEMMA RingGot ==
  ASSUME Sizes, NEW r \in Ring, ~IsArrayEmpty(r)
  PROVE  /\ Got(r) \in Ring
         /\ Content(r) # << >> /\ First(r) = Head(Content(r))
         /\ Content(Got(r)) = Tail(Content(r))
<1> DEFINE g == Got(r)
           c == Content(r)
           d == Content(g)
<1>1. r.rd \in Slots /\ r.rd \in 0 .. MaxRx /\ r.wr \in 0 .. MaxRx /\ MaxRx \in Nat /\ N = MaxRx + 1
  BY DEF Ring, Slots, Sizes, N
<1>2. g \in Ring /\ g.arr = r.arr /\ g.wr = r.wr /\ g.rd = IncPtr(r.rd)
  BY <1>1, Turn DEF Got, Ring
<1>3. g.rd = IF r.rd = MaxRx THEN 0 ELSE r.rd + 1
  BY <1>1, <1>2, Turn
<1>4. r.rd # r.wr
  BY DEF IsArrayEmpty
<1>5. Filled(g) = Filled(r) - 1 /\ Filled(r) > 0
  BY <1>1, <1>2, <1>3, <1>4 DEF Filled
<1>6. ASSUME NEW i \in 1 .. Filled(g) PROVE Place(g, i) = Place(r, i + 1)
  <2> DEFINE k == g.rd
             n == Filled(g)
             a == r.rd
  <2>1. n \in 0 .. MaxRx /\ i \in 1 .. n /\ k = IF a = MaxRx THEN 0 ELSE a + 1
    BY <1>1, <1>2, <1>3, InRing
  <2>2. /\ Place(g, i) = IF k + i <= N THEN k + i - 1 ELSE k + i - 1 - N
        /\ Place(r, i + 1) = IF a + (i + 1) <= N THEN a + (i + 1) - 1 ELSE a + (i + 1) - 1 - N
    BY Zenon DEF Place
  <2>3. a \in 0 .. MaxRx
    BY <1>1
  <2> HIDE DEF k, n, a
  <2> QED BY <2>1, <2>2, <2>3, <1>1
<1>7. Place(r, 1) = r.rd
  BY <1>1 DEF Place
<1>8. /\ c = [i \in 1 .. Filled(r) |-> r.arr[Place(r, i)]] /\ c \in Seq(0 .. MaxRx) /\ Len(c) = Filled(r)
      /\ d = [i \in 1 .. Filled(g) |-> r.arr[Place(g, i)]] /\ d \in Seq(0 .. MaxRx) /\ Len(d) = Filled(g)
      /\ Filled(r) \in Nat /\ Filled(g) \in Nat
  <2> HIDE DEF g
  <2>1. /\ Filled(r) \in 0 .. MaxRx /\ Content(r) = [i \in 1 .. Filled(r) |-> r.arr[Place(r, i)]]
        /\ Content(r) \in Seq(0 .. MaxRx) /\ Len(Content(r)) = Filled(r)
    BY InRing, Zenon
  <2>2. /\ Filled(g) \in 0 .. MaxRx /\ Content(g) = [i \in 1 .. Filled(g) |-> g.arr[Place(g, i)]]
        /\ Content(g) \in Seq(0 .. MaxRx) /\ Len(Content(g)) = Filled(g)
    BY <1>2, InRing, Zenon
  <2>3. Filled(r) \in Nat /\ Filled(g) \in Nat
    BY <2>1, <2>2, <1>1
  <2> QED BY <2>1, <2>2, <2>3, <1>2, Zenon
<1> HIDE DEF g, c, d
<1>9. \A i \in 1 .. Len(d) : d[i] = c[i + 1]
  BY <1>5, <1>6, <1>8
<1>10. c # << >> /\ Head(c) = r.arr[r.rd]
  BY <1>5, <1>7, <1>8
<1>11. Tail(c) \in Seq(0 .. MaxRx) /\ Len(Tail(c)) = Len(c) - 1 /\ \A i \in 1 .. Len(Tail(c)) : Tail(c)[i] = c[i + 1]
  BY <1>8, <1>10
<1>12. d = Tail(c)
  BY <1>5, <1>8, <1>9, <1>11
<1> QED BY <1>2, <1>10, <1>12 DEF g, c, d, First

LEMMA RingPut ==
  ASSUME Sizes, NEW r \in Ring, NEW p \in Pkts, Len(Content(r)) < MaxRx
  PROVE  Put(r, p) \in Ring /\ Content(Put(r, p)) = Append(Content(r), p)
<1> DEFINE g == Put(r, p)
           c == Content(r)
           d == Content(g)
<1>1. r.wr \in Slots /\ r.rd \in 0 .. MaxRx /\ r.wr \in 0 .. MaxRx /\ MaxRx \in Nat /\ N = MaxRx + 1
  BY DEF Ring, Slots, Sizes, N
<1>2. Filled(r) < MaxRx
  BY InRing
<1>3. IncPtr(r.wr) = (IF r.wr = MaxRx THEN 0 ELSE r.wr + 1) /\ IncPtr(r.wr) \in Slots
  BY <1>1, Turn
<1>4. r.rd # IncPtr(r.wr)
  BY <1>1, <1>2, <1>3 DEF Filled
<1>5. g = [r EXCEPT !.arr[r.wr] = p, !.wr = IncPtr(@)]
  BY <1>4 DEF Put, IsArrayFull
<1>6. p \in 0 .. MaxRx
  BY <1>1 DEF Pkts
<1>7. g \in Ring /\ g.rd = r.rd /\ g.wr = IncPtr(r.wr) /\ g.arr = [r.arr EXCEPT ![r.wr] = p]
  BY <1>1, <1>3, <1>5, <1>6 DEF Ring
<1>8. Filled(g) = Filled(r) + 1
  BY <1>1, <1>2, <1>3, <1>7 DEF Filled
<1>9. ASSUME NEW i \in 1 .. Filled(r) + 1 PROVE Place(g, i) = Place(r, i)
  BY <1>7 DEF Place
<1>10. Place(r, Filled(r) + 1) = r.wr
  BY <1>1 DEF Place, Filled
<1>11. ASSUME NEW i \in 1 .. Filled(r) PROVE Place(r, i) # r.wr
  BY <1>1, <1>11 DEF Place, Filled
<1>12. /\ c = [i \in 1 .. Filled(r) |-> r.arr[Place(r, i)]] /\ c \in Seq(0 .. MaxRx) /\ Len(c) = Filled(r)
       /\ d = [i \in 1 .. Filled(g) |-> g.arr[Place(g, i)]] /\ d \in Seq(0 .. MaxRx) /\ Len(d) = Filled(g)
       /\ Filled(r) \in Nat /\ Filled(g) \in Nat
  <2> HIDE DEF g
  <2>1. /\ Filled(r) \in 0 .. MaxRx /\ Content(r) = [i \in 1 .. Filled(r) |-> r.arr[Place(r, i)]]
        /\ Content(r) \in Seq(0 .. MaxRx) /\ Len(Content(r)) = Filled(r)
    BY InRing, Zenon
  <2>2. /\ Filled(g) \in 0 .. MaxRx /\ Content(g) = [i \in 1 .. Filled(g) |-> g.arr[Place(g, i)]]
        /\ Content(g) \in Seq(0 .. MaxRx) /\ Len(Content(g)) = Filled(g)
    BY <1>7, InRing, Zenon
  <2>3. Filled(r) \in Nat /\ Filled(g) \in Nat
    BY <2>1, <2>2, <1>1
  <2> QED BY <2>1, <2>2, <2>3, Zenon
<1>13. \A i \in 1 .. N : Place(r, i) \in Slots
  BY InRing
<1> HIDE DEF g, c, d
<1>14. r.arr \in [Slots -> 0 .. MaxRx]
  BY DEF Ring
<1>15. ASSUME NEW i \in 1 .. Filled(r) PROVE d[i] = c[i]
  <2>1. d[i] = g.arr[Place(r, i)]
    BY <1>8, <1>9, <1>12
  <2>2. i \in 1 .. N
    BY <1>1, <1>2, <1>12
  <2> QED BY <2>1, <2>2, <1>7, <1>11, <1>12, <1>13, <1>14
<1>16. d[Filled(r) + 1] = p
  BY <1>1, <1>7, <1>8, <1>9, <1>10, <1>12, <1>14
<1>17. d = Append(c, p)
  <2>1. Append(c, p) \in Seq(0 .. MaxRx) /\ Len(Append(c, p)) = Len(c) + 1
    BY <1>6, <1>12
  <2>2. \A i \in 1 .. Len(c) : Append(c, p)[i] = c[i]
    BY <1>6, <1>12
  <2>3. Append(c, p)[Len(c) + 1] = p
    BY <1>6, <1>12
  <2>4. \A i \in 1 .. Len(d) : d[i] = Append(c, p)[i]
    <3> SUFFICES ASSUME NEW i \in 1 .. Len(d) PROVE d[i] = Append(c, p)[i]
      OBVIOUS
    <3>1. CASE i \in 1 .. Len(c)
      BY <2>2, <3>1, <1>12, <1>15
    <3>2. CASE i = Len(c) + 1
      BY <2>3, <3>2, <1>12, <1>16
    <3>3. i \in 1 .. Len(c) \/ i = Len(c) + 1
      BY <1>8, <1>12
    <3> QED BY <3>1, <3>2, <3>3
  <2> QED BY <2>1, <2>4, <1>8, <1>12
<1> QED BY <1>7, <1>17 DEF g, c, d
-----------------------------------------------------------------------------
(* Sequences without repetition, and what is in them.                      *)
Distinct(s) == \A i, j \in 1 .. Len(s) : s[i] = s[j] => i = j
Apart(s, t) == \A x : ~(Contains(s, x) /\ Contains(t, x))

LEMMA InNone == \A x : ~Contains(<< >>, x)
BY DEF Contains

LEMMA NoneDistinct == Distinct(<< >>)
BY DEF Distinct

LEMMA Counted ==
  ASSUME NEW s \in Seq(Nat), NEW k \in 1 .. Len(s), NEW t, t = [s EXCEPT ![k] = @ + 1]
  PROVE  /\ t \in Seq(Nat) /\ Len(t) = Len(s)
         /\ \A i \in 1 .. Len(s) : t[i] = IF i = k THEN s[i] + 1 ELSE s[i]
<1>1. s[k] + 1 \in Nat
  OBVIOUS
<1> QED BY <1>1

LEMMA Appended ==
  ASSUME NEW S, NEW s \in Seq(S), NEW x \in S
  PROVE  /\ Append(s, x) \in Seq(S)
         /\ Len(Append(s, x)) = Len(s) + 1
         /\ \A i \in 1 .. Len(s) : Append(s, x)[i] = s[i]
         /\ Append(s, x)[Len(s) + 1] = x
         /\ \A i \in 1 .. Len(Append(s, x)) : i \in 1 .. Len(s) \/ i = Len(s) + 1
OBVIOUS

LEMMA Tailed ==
  ASSUME NEW S, NEW s \in Seq(S), s # << >>
  PROVE  /\ Tail(s) \in Seq(S) /\ Head(s) \in S /\ Head(s) = s[1] /\ 1 \in 1 .. Len(s)
         /\ Len(Tail(s)) = Len(s) - 1
         /\ \A i \in 1 .. Len(Tail(s)) : i + 1 \in 1 .. Len(s) /\ Tail(s)[i] = s[i + 1]
         /\ \A i \in 1 .. Len(s) : i = 1 \/ i - 1 \in 1 .. Len(Tail(s))
OBVIOUS

LEMMA InAppended ==
  ASSUME NEW S, NEW s \in Seq(S), NEW x \in S
  PROVE  \A y : Contains(Append(s, x), y) <=> Contains(s, y) \/ y = x
<1> DEFINE t == Append(s, x)
<1>1. /\ Len(t) = Len(s) + 1 /\ Len(s) \in Nat
      /\ \A i \in 1 .. Len(s) : t[i] = s[i]
      /\ t[Len(s) + 1] = x
  BY Appended
<1> HIDE DEF t
<1> SUFFICES ASSUME NEW y PROVE Contains(t, y) <=> Contains(s, y) \/ y = x
  BY DEF t
<1>2. ASSUME Contains(t, y) PROVE Contains(s, y) \/ y = x
  <2>1. PICK i \in 1 .. Len(t) : t[i] = y
    BY <1>2 DEF Contains
  <2>2. i \in 1 .. Len(s) \/ i = Len(s) + 1
    BY <1>1
  <2> QED BY <2>1, <2>2, <1>1 DEF Contains
<1>3. ASSUME Contains(s, y) PROVE Contains(t, y)
  <2>1. PICK i \in 1 .. Len(s) : s[i] = y
    BY <1>3 DEF Contains
  <2>2. i \in 1 .. Len(t) /\ t[i] = y
    BY <2>1, <1>1
  <2> QED BY <2>2 DEF Contains
<1>4. Contains(t, x)
  <2>1. Len(s) + 1 \in 1 .. Len(t)
    BY <1>1
  <2> QED BY <2>1, <1>1 DEF Contains
<1> QED BY <1>2, <1>3, <1>4

LEMMA DistinctAppended ==
  ASSUME NEW S, NEW s \in Seq(S), NEW x \in S, Distinct(s), ~Contains(s, x)
  PROVE  Distinct(Append(s, x))
<1> DEFINE t == Append(s, x)
<1>1. /\ \A i \in 1 .. Len(s) : t[i] = s[i] /\ s[i] # x
      /\ t[Len(s) + 1] = x
      /\ \A i \in 1 .. Len(t) : i \in 1 .. Len(s) \/ i = Len(s) + 1
  BY Appended DEF Contains
<1> HIDE DEF t
<1>2. ASSUME NEW i \in 1 .. Len(t), NEW j \in 1 .. Len(t), t[i] = t[j] PROVE i = j
  BY <1>1, <1>2 DEF Distinct
<1>3. Distinct(t)
  BY <1>2 DEF Distinct
<1> QED BY <1>3 DEF t

LEMMA InTailed ==
  ASSUME NEW S, NEW s \in Seq(S), s # << >>, Distinct(s)
  PROVE  /\ Distinct(Tail(s)) /\ Contains(s, Head(s))
         /\ \A y : Contains(Tail(s), y) <=> Contains(s, y) /\ y # Head(s)
<1> DEFINE t == Tail(s)
<1>1. /\ Head(s) = s[1] /\ 1 \in 1 .. Len(s) /\ Len(s) \in Nat /\ Len(t) \in Nat
      /\ \A i \in 1 .. Len(t) : i + 1 \in 1 .. Len(s) /\ t[i] = s[i + 1]
      /\ \A i \in 1 .. Len(s) : i = 1 \/ i - 1 \in 1 .. Len(t)
  BY Tailed
<1> HIDE DEF t
<1>2. ASSUME NEW i \in 1 .. Len(t), NEW j \in 1 .. Len(t), t[i] = t[j] PROVE i = j
  <2>1. i + 1 = j + 1
    BY <1>1, <1>2 DEF Distinct
  <2> QED BY <2>1
<1>3. Distinct(t)
  BY <1>2 DEF Distinct
<1>4. ASSUME NEW y, Contains(t, y) PROVE Contains(s, y) /\ y # Head(s)
  <2>1. PICK i \in 1 .. Len(t) : t[i] = y
    BY <1>4 DEF Contains
  <2>2. i + 1 \in 1 .. Len(s) /\ s[i + 1] = y /\ i + 1 # 1
    BY <2>1, <1>1
  <2> QED BY <2>2, <1>1 DEF Contains, Distinct
<1>5. ASSUME NEW y, Contains(s, y), y # Head(s) PROVE Contains(t, y)
  <2>1. PICK i \in 1 .. Len(s) : s[i] = y
    BY <1>5 DEF Contains
  <2>2. i - 1 \in 1 .. Len(t)
    BY <2>1, <1>1, <1>5
  <2>3. t[i - 1] = s[(i - 1) + 1] /\ (i - 1) + 1 = i
    BY <2>2, <1>1
  <2>4. t[i - 1] = y
    BY <2>1, <2>3, Zenon
  <2> QED BY <2>2, <2>4 DEF Contains
<1>6. Contains(s, Head(s))
  BY <1>1 DEF Contains
<1> QED BY <1>3, <1>4, <1>5, <1>6 DEF t

(* Of so many packets a sequence without repetition that lacks one has     *)
(* fewer.                                                                  *)
LEMMA Room ==
  ASSUME Sizes, NEW s \in Seq(Pkts), Distinct(s), NEW p \in Pkts, ~Contains(s, p)
  PROVE  Len(s) < MaxRx
<1> DEFINE T == Pkts \ {p}
           I == 1 .. Len(s)
<1>1. MaxRx \in Nat /\ MaxRx > 0 /\ Len(s) \in Nat
  BY DEF Sizes, Pkts
<1>2. IsFiniteSet(Pkts) /\ Cardinality(Pkts) = MaxRx
  BY <1>1, FS_Interval DEF Pkts
<1>3. IsFiniteSet(T) /\ Cardinality(T) = MaxRx - 1
  BY <1>2, FS_RemoveElement
<1>4. IsFiniteSet(I) /\ Cardinality(I) = Len(s)
  BY <1>1, FS_Interval
<1>5. s \in [I -> T]
  BY DEF Contains
<1>6. \A i, j \in I : s[i] = s[j] => i = j
  BY DEF Distinct
<1> HIDE DEF T, I
<1>7. ~(Cardinality(T) < Cardinality(I))
  <2> SUFFICES ASSUME Cardinality(T) < Cardinality(I) PROVE FALSE
    OBVIOUS
  <2>1. \E i, j \in I : i # j /\ s[i] = s[j]
    BY <1>3, <1>4, <1>5, FS_PigeonHole
  <2> QED BY <2>1, <1>6
<1> QED BY <1>1, <1>3, <1>4, <1>7
-----------------------------------------------------------------------------
(* Numbers that rise: along each of four sequences, from each to the next, *)
(* and no further than a bound.                                            *)
Rising(s)      == \A i, j \in 1 .. Len(s) : i < j => s[i] < s[j]
Before(s, t)   == \A i \in 1 .. Len(s), j \in 1 .. Len(t) : s[i] < t[j]
UpTo(s, n)     == \A i \in 1 .. Len(s) : s[i] <= n
Way(a, b, c, d, n) ==
  /\ Rising(a) /\ Rising(b) /\ Rising(c) /\ Rising(d)
  /\ Before(a, b) /\ Before(a, c) /\ Before(a, d)
  /\ Before(b, c) /\ Before(b, d) /\ Before(c, d)
  /\ UpTo(a, n) /\ UpTo(b, n) /\ UpTo(c, n) /\ UpTo(d, n)

LEMMA WithNone ==
  ASSUME NEW s, NEW n
  PROVE  Rising(<< >>) /\ Before(<< >>, s) /\ Before(s, << >>) /\ UpTo(<< >>, n)
BY DEF Rising, Before, UpTo

LEMMA WithTail ==
  ASSUME NEW s \in Seq(Nat), s # << >>
  PROVE  /\ Rising(s) => Rising(Tail(s))
         /\ \A t \in Seq(Nat) : Before(s, t) => Before(Tail(s), t)
         /\ \A t \in Seq(Nat) : Before(t, s) => Before(t, Tail(s))
         /\ \A n \in Nat : UpTo(s, n) => UpTo(Tail(s), n)
<1> DEFINE r == Tail(s)
<1>1. r \in Seq(Nat) /\ Len(r) \in Nat /\ \A i \in 1 .. Len(r) : i + 1 \in 1 .. Len(s) /\ r[i] = s[i + 1]
  BY Tailed
<1> HIDE DEF r
<1>2. ASSUME Rising(s), NEW i \in 1 .. Len(r), NEW j \in 1 .. Len(r), i < j PROVE r[i] < r[j]
  <2>1. i + 1 \in 1 .. Len(s) /\ j + 1 \in 1 .. Len(s) /\ i + 1 < j + 1
    BY <1>1, <1>2
  <2>2. s[i + 1] < s[j + 1]
    BY <2>1, <1>2, Zenon DEF Rising
  <2> QED BY <2>2, <1>1, Zenon
<1>3. \A t \in Seq(Nat) : Before(s, t) => Before(r, t)
  BY <1>1 DEF Before
<1>4. \A t \in Seq(Nat) : Before(t, s) => Before(t, r)
  BY <1>1 DEF Before
<1>5. \A n \in Nat : UpTo(s, n) => UpTo(r, n)
  BY <1>1 DEF UpTo
<1>6. Rising(s) => Rising(r)
  BY <1>2 DEF Rising
<1> QED BY <1>3, <1>4, <1>5, <1>6 DEF r

LEMMA WithAppended ==
  ASSUME NEW s \in Seq(Nat), NEW x \in Nat
  PROVE  /\ Rising(s) /\ (\A i \in 1 .. Len(s) : s[i] < x) => Rising(Append(s, x))
         /\ \A t \in Seq(Nat) : Before(s, t) /\ (\A i \in 1 .. Len(t) : x < t[i]) => Before(Append(s, x), t)
         /\ \A t \in Seq(Nat) : Before(t, s) /\ (\A i \in 1 .. Len(t) : t[i] < x) => Before(t, Append(s, x))
         /\ \A n \in Nat : UpTo(s, n) /\ x <= n => UpTo(Append(s, x), n)
<1> DEFINE r == Append(s, x)
<1>1. /\ \A i \in 1 .. Len(s) : r[i] = s[i]
      /\ r[Len(s) + 1] = x
      /\ \A i \in 1 .. Len(r) : i \in 1 .. Len(s) \/ i = Len(s) + 1
      /\ Len(s) \in Nat
  BY Appended
<1> HIDE DEF r
<1>2. ASSUME Rising(s), \A i \in 1 .. Len(s) : s[i] < x,
             NEW i \in 1 .. Len(r), NEW j \in 1 .. Len(r), i < j
      PROVE  r[i] < r[j]
  <2>1. i \in 1 .. Len(s)
    BY <1>1, <1>2
  <2>2. CASE j \in 1 .. Len(s)
    BY <2>1, <2>2, <1>1, <1>2 DEF Rising
  <2>3. CASE j = Len(s) + 1
    BY <2>1, <2>3, <1>1, <1>2
  <2> QED BY <2>2, <2>3, <1>1
<1>3. Rising(s) /\ (\A i \in 1 .. Len(s) : s[i] < x) => Rising(r)
  BY <1>2 DEF Rising
<1>4. ASSUME NEW t \in Seq(Nat), Before(s, t), \A i \in 1 .. Len(t) : x < t[i] PROVE Before(r, t)
  BY <1>1, <1>4 DEF Before
<1>5. ASSUME NEW t \in Seq(Nat), Before(t, s), \A i \in 1 .. Len(t) : t[i] < x PROVE Before(t, r)
  BY <1>1, <1>5 DEF Before
<1>6. ASSUME NEW n \in Nat, UpTo(s, n), x <= n PROVE UpTo(r, n)
  BY <1>1, <1>6 DEF UpTo
<1> QED BY <1>3, <1>4, <1>5, <1>6 DEF r

LEMMA FromHead ==
  ASSUME NEW s \in Seq(Nat), s # << >>
  PROVE  /\ Head(s) \in Nat
         /\ Rising(s) => \A i \in 1 .. Len(Tail(s)) : Head(s) < Tail(s)[i]
         /\ \A t \in Seq(Nat) : Before(s, t) => \A i \in 1 .. Len(t) : Head(s) < t[i]
         /\ \A t \in Seq(Nat) : Before(t, s) => \A i \in 1 .. Len(t) : t[i] < Head(s)
         /\ \A n \in Nat : UpTo(s, n) => Head(s) <= n
<1>1. /\ Head(s) \in Nat /\ Head(s) = s[1] /\ 1 \in 1 .. Len(s)
      /\ \A i \in 1 .. Len(Tail(s)) : i + 1 \in 1 .. Len(s) /\ Tail(s)[i] = s[i + 1]
  BY Tailed
<1>2. ASSUME Rising(s), NEW i \in 1 .. Len(Tail(s)) PROVE Head(s) < Tail(s)[i]
  <2>1. i + 1 \in 1 .. Len(s) /\ 1 < i + 1
    BY <1>1
  <2>2. s[1] < s[i + 1]
    BY <2>1, <1>1, <1>2, Zenon DEF Rising
  <2> QED BY <2>2, <1>1, Zenon
<1>3. \A t \in Seq(Nat) : Before(s, t) => \A i \in 1 .. Len(t) : Head(s) < t[i]
  BY <1>1, Zenon DEF Before
<1>4. \A t \in Seq(Nat) : Before(t, s) => \A i \in 1 .. Len(t) : t[i] < Head(s)
  BY <1>1, Zenon DEF Before
<1>5. \A n \in Nat : UpTo(s, n) => Head(s) <= n
  BY <1>1, Zenon DEF UpTo
<1> QED BY <1>1, <1>2, <1>3, <1>4, <1>5

LEMMA WithBoth ==
  ASSUME NEW s \in Seq(Nat), NEW t \in Seq(Nat)
  PROVE  /\ s \o t \in Seq(Nat)
         /\ Rising(s) /\ Rising(t) /\ Before(s, t) => Rising(s \o t)
         /\ \A u \in Seq(Nat) : Before(s, u) /\ Before(t, u) => Before(s \o t, u)
         /\ \A n \in Nat : UpTo(s, n) /\ UpTo(t, n) => UpTo(s \o t, n)
<1> DEFINE r == s \o t
           m == Len(s)
<1>1. /\ r \in Seq(Nat) /\ Len(r) = m + Len(t) /\ m \in Nat /\ Len(t) \in Nat
      /\ \A i \in 1 .. m : r[i] = s[i]
      /\ \A i \in 1 .. Len(t) : r[m + i] = t[i]
  OBVIOUS
<1> HIDE DEF r, m
<1>2. ASSUME NEW i \in 1 .. Len(r), ~(i \in 1 .. m) PROVE i - m \in 1 .. Len(t) /\ r[i] = t[i - m]
  <2>1. i - m \in 1 .. Len(t) /\ m + (i - m) = i
    BY <1>1, <1>2
  <2>2. r[m + (i - m)] = t[i - m]
    BY <2>1, <1>1
  <2> QED BY <2>1, <2>2, Zenon
<1>3. ASSUME Rising(s), Rising(t), Before(s, t), NEW i \in 1 .. Len(r), NEW j \in 1 .. Len(r), i < j
      PROVE  r[i] < r[j]
  <2>1. CASE i \in 1 .. m /\ j \in 1 .. m
    BY <2>1, <1>1, <1>3 DEF Rising, m
  <2>2. CASE i \in 1 .. m /\ ~(j \in 1 .. m)
    BY <2>2, <1>1, <1>2, <1>3 DEF Before, m
  <2>3. CASE ~(i \in 1 .. m)
    <3>1. i - m \in 1 .. Len(t) /\ r[i] = t[i - m]
      BY <2>3, <1>2
    <3>2. ~(j \in 1 .. m) /\ i - m < j - m
      BY <2>3, <1>1, <1>3
    <3>3. j - m \in 1 .. Len(t) /\ r[j] = t[j - m]
      BY <3>2, <1>2
    <3>4. t[i - m] < t[j - m]
      BY <3>1, <3>2, <3>3, <1>3, Zenon DEF Rising
    <3> QED BY <3>1, <3>3, <3>4, Zenon
  <2> QED BY <2>1, <2>2, <2>3
<1>4. Rising(s) /\ Rising(t) /\ Before(s, t) => Rising(r)
  BY <1>3 DEF Rising
<1>5. ASSUME NEW u \in Seq(Nat), Before(s, u), Before(t, u), NEW i \in 1 .. Len(r), NEW j \in 1 .. Len(u)
      PROVE  r[i] < u[j]
  <2>1. CASE i \in 1 .. m
    BY <2>1, <1>1, <1>5 DEF Before, m
  <2>2. CASE ~(i \in 1 .. m)
    BY <2>2, <1>2, <1>5 DEF Before
  <2> QED BY <2>1, <2>2
<1>6. ASSUME NEW n \in Nat, UpTo(s, n), UpTo(t, n), NEW i \in 1 .. Len(r) PROVE r[i] <= n
  <2>1. CASE i \in 1 .. m
    BY <2>1, <1>1, <1>6 DEF UpTo, m
  <2>2. CASE ~(i \in 1 .. m)
    BY <2>2, <1>2, <1>6 DEF UpTo
  <2> QED BY <2>1, <2>2
<1>7. \A u \in Seq(Nat) : Before(s, u) /\ Before(t, u) => Before(r, u)
  BY <1>5 DEF Before
<1>8. \A n \in Nat : UpTo(s, n) /\ UpTo(t, n) => UpTo(r, n)
  BY <1>6 DEF UpTo
<1> QED BY <1>1, <1>4, <1>7, <1>8 DEF r

(* A number that is on its way goes to the next sequence, or is dropped; a *)
(* new one comes behind all.                                               *)
LEMMA WayOn ==
  ASSUME NEW a \in Seq(Nat), NEW b \in Seq(Nat), NEW c \in Seq(Nat), NEW d \in Seq(Nat),
         NEW n \in Nat, Way(a, b, c, d, n)
  PROVE  /\ Way(a, << >>, c, d, n)
         /\ Way(a \o b, << >>, c, d, n)
         /\ Way(a, b, c, Append(d, n + 1), n + 1)
         /\ c # << >> => Way(a, b, Tail(c), d, n) /\ Way(a, Append(b, Head(c)), Tail(c), d, n)
         /\ d # << >> => Way(a, b, c, Tail(d), n) /\ Way(a, b, Append(c, Head(d)), Tail(d), n)
<1>1. Way(a, << >>, c, d, n)
  BY WithNone DEF Way
<1>2. Way(a \o b, << >>, c, d, n)
  BY WithNone, WithBoth DEF Way
<1>3. Way(a, b, c, Append(d, n + 1), n + 1)
  <2>1. ASSUME NEW s \in Seq(Nat), UpTo(s, n)
        PROVE  UpTo(s, n + 1) /\ \A i \in 1 .. Len(s) : s[i] < n + 1
    <3>1. ASSUME NEW i \in 1 .. Len(s) PROVE s[i] \in Nat /\ s[i] <= n
      BY <2>1 DEF UpTo
    <3> QED BY <3>1 DEF UpTo
  <2>2. n + 1 \in Nat /\ n + 1 <= n + 1
    OBVIOUS
  <2> QED BY <2>1, <2>2, WithAppended DEF Way
<1>4. ASSUME c # << >> PROVE Way(a, b, Tail(c), d, n)
  BY <1>4, WithTail DEF Way
<1>5. ASSUME d # << >> PROVE Way(a, b, c, Tail(d), n)
  BY <1>5, WithTail DEF Way
<1>6. ASSUME c # << >> PROVE Way(a, Append(b, Head(c)), Tail(c), d, n)
  <2>1. Way(a, b, Tail(c), d, n) /\ Tail(c) \in Seq(Nat) /\ Head(c) \in Nat
    BY <1>4, <1>6, Tailed
  <2>2. /\ \A i \in 1 .. Len(Tail(c)) : Head(c) < Tail(c)[i]
        /\ \A i \in 1 .. Len(d) : Head(c) < d[i]
        /\ \A i \in 1 .. Len(a) : a[i] < Head(c)
        /\ \A i \in 1 .. Len(b) : b[i] < Head(c)
        /\ Head(c) <= n
    BY <1>6, FromHead DEF Way
  <2> QED BY <2>1, <2>2, WithAppended DEF Way
<1>7. ASSUME d # << >> PROVE Way(a, b, Append(c, Head(d)), Tail(d), n)
  <2>1. Way(a, b, c, Tail(d), n) /\ Tail(d) \in Seq(Nat) /\ Head(d) \in Nat
    BY <1>5, <1>7, Tailed
  <2>2. /\ \A i \in 1 .. Len(Tail(d)) : Head(d) < Tail(d)[i]
        /\ \A i \in 1 .. Len(a) : a[i] < Head(d)
        /\ \A i \in 1 .. Len(b) : b[i] < Head(d)
        /\ \A i \in 1 .. Len(c) : c[i] < Head(d)
        /\ Head(d) <= n
    BY <1>7, FromHead DEF Way
  <2> QED BY <2>1, <2>2, WithAppended DEF Way
<1> QED BY <1>1, <1>2, <1>3, <1>4, <1>5, <1>6, <1>7
-----------------------------------------------------------------------------
(* The frames in a sequence of packets.                                    *)
Frames(s, f) == [i \in 1 .. Len(s) |-> f[s[i]]]

LEMMA FramesAre ==
  ASSUME NEW s \in Seq(Pkts), NEW f \in [Pkts -> Nat]
  PROVE  Frames(s, f) \in Seq(Nat) /\ Len(Frames(s, f)) = Len(s)
         /\ \A i \in 1 .. Len(s) : Frames(s, f)[i] = f[s[i]]
<1>1. Len(s) \in Nat /\ \A i \in 1 .. Len(s) : f[s[i]] \in Nat
  OBVIOUS
<1> DEFINE n == Len(s)
           t == Frames(s, f)
<1>2. t \in [1 .. n -> Nat] /\ n \in Nat /\ \A i \in 1 .. n : t[i] = f[s[i]]
  BY <1>1 DEF Frames
<1> HIDE DEF n, t
<1>3. t \in Seq(Nat) /\ Len(t) = n
  BY <1>2
<1> QED BY <1>2, <1>3 DEF n, t

LEMMA FramesAppended ==
  ASSUME NEW s \in Seq(Pkts), NEW f \in [Pkts -> Nat], NEW p \in Pkts
  PROVE  Frames(Append(s, p), f) = Append(Frames(s, f), f[p])
<1> DEFINE t == Append(s, p)
           u == Frames(s, f)
           v == Frames(t, f)
           w == Append(u, f[p])
<1>1. /\ t \in Seq(Pkts) /\ Len(t) = Len(s) + 1 /\ Len(s) \in Nat
      /\ \A i \in 1 .. Len(s) : t[i] = s[i]
      /\ t[Len(s) + 1] = p
      /\ \A i \in 1 .. Len(t) : i \in 1 .. Len(s) \/ i = Len(s) + 1
  BY Appended
<1>2. u \in Seq(Nat) /\ Len(u) = Len(s) /\ \A i \in 1 .. Len(s) : u[i] = f[s[i]]
  BY FramesAre
<1> HIDE DEF t, u
<1>3. v \in Seq(Nat) /\ Len(v) = Len(t) /\ \A i \in 1 .. Len(t) : v[i] = f[t[i]]
  BY <1>1, FramesAre
<1>4. f[p] \in Nat
  OBVIOUS
<1>5. /\ w \in Seq(Nat) /\ Len(w) = Len(u) + 1
      /\ \A i \in 1 .. Len(u) : w[i] = u[i]
      /\ w[Len(u) + 1] = f[p]
  BY <1>2, <1>4, Appended
<1> HIDE DEF v, w
<1>6. ASSUME NEW i \in 1 .. Len(t) PROVE v[i] = w[i]
  <2>1. CASE i \in 1 .. Len(s)
    BY <2>1, <1>1, <1>2, <1>3, <1>5
  <2>2. CASE i = Len(s) + 1
    BY <2>2, <1>1, <1>2, <1>3, <1>5
  <2> QED BY <2>1, <2>2, <1>1
<1>7. v = w
  BY <1>1, <1>2, <1>3, <1>5, <1>6
<1> QED BY <1>7 DEF t, u, v, w

LEMMA FramesTailed ==
  ASSUME NEW s \in Seq(Pkts), NEW f \in [Pkts -> Nat], s # << >>
  PROVE  /\ Frames(s, f) # << >> /\ Head(Frames(s, f)) = f[Head(s)]
         /\ Frames(Tail(s), f) = Tail(Frames(s, f))
<1> DEFINE t == Tail(s)
           u == Frames(s, f)
           v == Frames(t, f)
           w == Tail(u)
<1>1. /\ t \in Seq(Pkts) /\ Head(s) = s[1] /\ 1 \in 1 .. Len(s) /\ Len(t) = Len(s) - 1
      /\ \A i \in 1 .. Len(t) : i + 1 \in 1 .. Len(s) /\ t[i] = s[i + 1]
  BY Tailed
<1>2. u \in Seq(Nat) /\ Len(u) = Len(s) /\ \A i \in 1 .. Len(s) : u[i] = f[s[i]]
  BY FramesAre
<1> HIDE DEF t, u
<1>3. v \in Seq(Nat) /\ Len(v) = Len(t) /\ \A i \in 1 .. Len(t) : v[i] = f[t[i]]
  BY <1>1, FramesAre
<1>4. u # << >>
  BY <1>1, <1>2
<1>5. /\ w \in Seq(Nat) /\ Head(u) = u[1] /\ Len(w) = Len(u) - 1
      /\ \A i \in 1 .. Len(w) : w[i] = u[i + 1]
  BY <1>2, <1>4, Tailed
<1> HIDE DEF v, w
<1>6. Len(v) = Len(w) /\ Len(w) = Len(t)
  BY <1>1, <1>2, <1>3, <1>5
<1>7. ASSUME NEW i \in 1 .. Len(t) PROVE v[i] = w[i]
  <2>1. v[i] = f[s[i + 1]]
    BY <1>1, <1>3
  <2>2. w[i] = u[i + 1] /\ i + 1 \in 1 .. Len(s)
    BY <1>1, <1>5, <1>6
  <2> QED BY <2>1, <2>2, <1>2
<1>8. v = w
  <2>1. \A i \in 1 .. Len(v) : v[i] = w[i]
    BY <1>3, <1>7, Zenon
  <2>2. v \in Seq(Nat) /\ w \in Seq(Nat) /\ Len(v) = Len(w)
    BY <1>3, <1>5, <1>6
  <2> QED BY <2>1, <2>2
<1> QED BY <1>1, <1>2, <1>4, <1>5, <1>8 DEF t, u, v, w

LEMMA FramesOther ==
  ASSUME NEW s \in Seq(Pkts), NEW f \in [Pkts -> Nat], NEW p \in Pkts, NEW x \in Nat, ~Contains(s, p)
  PROVE  Frames(s, [f EXCEPT ![p] = x]) = Frames(s, f)
<1>1. \A i \in 1 .. Len(s) : [f EXCEPT ![p] = x][s[i]] = f[s[i]]
  BY DEF Contains
<1> QED BY <1>1 DEF Frames
-----------------------------------------------------------------------------
(* The invariant of the receiving side: the types; each packet in exactly  *)
(* one place, but that one a protocol has kept stays in the DPC's array    *)
(* until the DPC comes to it; the status that tells those apart; and the   *)
(* frames, in the order of their arrival from the protocols down.          *)
Collecting == pc \in {"rx", "indicate"}

RxTyped ==
  /\ rxFifo \in Seq(Nat) /\ arrived \in Nat
  /\ EmptyPkt \in Ring /\ Content(EmptyPkt) \in Seq(Pkts)
  /\ FullPkt \in Ring /\ Content(FullPkt) \in Seq(Pkts)
  /\ frame \in [Pkts -> Nat] /\ status \in [Pkts -> {"success", "pending"}]
  /\ batch \in Seq(Pkts) /\ held \in SUBSET Pkts /\ seen \in Seq(Nat)

RxPlaced ==
  /\ Distinct(Content(EmptyPkt)) /\ Distinct(Content(FullPkt)) /\ Distinct(batch)
  /\ Apart(Content(EmptyPkt), Content(FullPkt))
  /\ Apart(Content(EmptyPkt), batch) /\ Apart(Content(FullPkt), batch)
  /\ \A p \in held : ~Contains(Content(EmptyPkt), p) /\ ~Contains(Content(FullPkt), p)
  /\ pc # "returning" => \A p \in held : ~Contains(batch, p)
  /\ \A p \in Pkts :
       \/ Contains(Content(EmptyPkt), p) \/ Contains(Content(FullPkt), p)
       \/ Contains(batch, p) \/ p \in held

RxMarked ==
  /\ ~Collecting /\ pc # "returning" => batch = << >>
  /\ \A p \in Pkts : Contains(Content(FullPkt), p) => status[p] = "success"
  /\ Collecting => \A p \in Pkts : Contains(batch, p) => status[p] = "success"
  /\ pc = "returning" =>
       \A p \in Pkts : Contains(batch, p) => (status[p] = "success" <=> p \notin held)

RxOrdered ==
  Way(seen, IF Collecting THEN Frames(batch, frame) ELSE << >>,
      Frames(Content(FullPkt), frame), rxFifo, arrived)

RxInv == RxTyped /\ RxPlaced /\ RxMarked /\ RxOrdered

LEMMA NoFrames == \A f : Frames(<< >>, f) = << >>
BY DEF Frames

(* The receiving side rests, and the handler goes from where it has no     *)
(* array to where it has none, or stays where it is with it.               *)
LEMMA RxRests ==
  ASSUME RxInv, UNCHANGED << rxFifo, arrived, EmptyPkt, FullPkt, frame, status, batch, held, seen >>,
         batch = << >> \/ ((Collecting' <=> Collecting) /\ (pc' = "returning" <=> pc = "returning"))
  PROVE  RxInv'
<1>1. RxTyped'
  BY DEF RxInv, RxTyped
<1>2. RxPlaced'
  BY InNone DEF RxInv, RxPlaced
<1>3. RxMarked'
  BY InNone DEF RxInv, RxMarked
<1>4. RxOrdered'
  BY NoFrames DEF RxInv, RxOrdered
<1> QED BY <1>1, <1>2, <1>3, <1>4 DEF RxInv

(* What is on its way, typed, for the lemma that moves it.                 *)
LEMMA WayTyped ==
  ASSUME RxInv
  PROVE  /\ Frames(batch, frame) \in Seq(Nat) /\ Frames(Content(FullPkt), frame) \in Seq(Nat)
         /\ (IF Collecting THEN Frames(batch, frame) ELSE << >>) \in Seq(Nat)
         /\ seen \in Seq(Nat) /\ rxFifo \in Seq(Nat) /\ arrived \in Nat
BY FramesAre DEF RxInv, RxTyped

LEMMA RxArrives == RxInv /\ Arrive => RxInv'
<1> SUFFICES ASSUME RxInv, Arrive PROVE RxInv'
  OBVIOUS
<1>1. /\ arrived' = arrived + 1 /\ rxFifo' = Append(rxFifo, arrived + 1)
      /\ UNCHANGED << EmptyPkt, FullPkt, frame, status, batch, held, seen, pc >>
  BY DEF Arrive
<1>2. RxTyped'
  BY <1>1 DEF RxInv, RxTyped
<1>3. RxPlaced' /\ RxMarked'
  BY <1>1 DEF RxInv, RxPlaced, RxMarked, Collecting
<1>4. RxOrdered'
  <2> DEFINE b == IF Collecting THEN Frames(batch, frame) ELSE << >>
             f == Frames(Content(FullPkt), frame)
  <2>1. /\ seen \in Seq(Nat) /\ b \in Seq(Nat) /\ f \in Seq(Nat) /\ rxFifo \in Seq(Nat)
        /\ arrived \in Nat /\ Way(seen, b, f, rxFifo, arrived)
    BY WayTyped DEF RxInv, RxOrdered
  <2>2. b' = b /\ f' = f
    BY <1>1 DEF Collecting
  <2> HIDE DEF b, f
  <2>3. Way(seen, b, f, rxFifo', arrived')
    BY <2>1, <1>1, WayOn
  <2> QED BY <2>2, <2>3, <1>1 DEF RxOrdered, b, f
<1> QED BY <1>2, <1>3, <1>4 DEF RxInv

(* The ISR moves a packet from the one ring to the other, which has room:  *)
(* there are fewer packets than slots.                                     *)
LEMMA RxFills ==
  ASSUME Sizes, RxInv, NEW good \in BOOLEAN, RxISR(good)
  PROVE  RxInv'
<1> DEFINE e == Content(EmptyPkt)
           f == Content(FullPkt)
           p == First(EmptyPkt)
           x == Head(rxFifo)
           b == IF Collecting THEN Frames(batch, frame) ELSE << >>
           g == Frames(f, frame)
<1>1. /\ rxFifo # << >> /\ rxFifo' = Tail(rxFifo)
      /\ UNCHANGED << arrived, batch, held, seen, pc >>
  BY DEF RxISR
<1>2. /\ seen \in Seq(Nat) /\ b \in Seq(Nat) /\ g \in Seq(Nat) /\ rxFifo \in Seq(Nat)
      /\ arrived \in Nat /\ Way(seen, b, g, rxFifo, arrived)
  BY WayTyped DEF RxInv, RxOrdered
<1>3. rxFifo' \in Seq(Nat) /\ x \in Nat
  BY <1>1, <1>2, Tailed
<1>4. CASE good /\ ~IsArrayEmpty(EmptyPkt)
  <2>1. /\ EmptyPkt' = Got(EmptyPkt) /\ FullPkt' = Put(FullPkt, p)
        /\ frame' = [frame EXCEPT ![p] = x] /\ status' = [status EXCEPT ![p] = "success"]
    BY <1>4 DEF RxISR
  <2>2. EmptyPkt' \in Ring /\ e # << >> /\ p = Head(e) /\ e' = Tail(e)
    BY <2>1, <1>4, RingGot DEF RxInv, RxTyped
  <2>3. e \in Seq(Pkts) /\ f \in Seq(Pkts) /\ batch \in Seq(Pkts) /\ FullPkt \in Ring
    BY DEF RxInv, RxTyped
  <2>4. p \in Pkts /\ e' \in Seq(Pkts)
    BY <2>2, <2>3, Tailed
  <2> HIDE DEF e, f, p, x
  <2>5. /\ Distinct(e') /\ Contains(e, p) /\ Distinct(e) /\ Distinct(f)
        /\ \A y : Contains(e', y) <=> Contains(e, y) /\ y # p
    BY <2>2, <2>3, InTailed DEF RxInv, RxPlaced, e, f
  <2>6. ~Contains(f, p) /\ ~Contains(batch, p) /\ p \notin held
    BY <2>5 DEF RxInv, RxPlaced, Apart, e, f
  <2>7. Len(f) < MaxRx
    BY <2>3, <2>4, <2>5, <2>6, Room
  <2>8. FullPkt' \in Ring /\ f' = Append(f, p)
    BY <2>1, <2>3, <2>4, <2>7, RingPut DEF f
  <2>9. /\ f' \in Seq(Pkts) /\ Distinct(f')
        /\ \A y : Contains(f', y) <=> Contains(f, y) \/ y = p
    BY <2>3, <2>4, <2>5, <2>6, <2>8, Appended, InAppended, DistinctAppended
  <2>10. frame' \in [Pkts -> Nat] /\ status' \in [Pkts -> {"success", "pending"}]
    BY <2>1, <2>4, <1>3 DEF RxInv, RxTyped
  <2>11. RxTyped'
    BY <2>2, <2>4, <2>8, <2>9, <2>10, <1>1, <1>3 DEF RxInv, RxTyped, e, f
  <2>12. RxPlaced'
    <3>1. Apart(e', f') /\ Apart(e', batch) /\ Apart(f', batch)
      BY <2>5, <2>6, <2>9 DEF RxInv, RxPlaced, Apart, e, f
    <3>2. \A q \in held : ~Contains(e', q) /\ ~Contains(f', q)
      BY <2>5, <2>6, <2>9 DEF RxInv, RxPlaced, e, f
    <3>3. \A q \in Pkts : Contains(e', q) \/ Contains(f', q) \/ Contains(batch, q) \/ q \in held
      BY <2>5, <2>9 DEF RxInv, RxPlaced, e, f
    <3> QED BY <3>1, <3>2, <3>3, <2>5, <2>9, <1>1 DEF RxInv, RxPlaced, e, f
  <2>13. RxMarked'
    <3>1. \A q \in Pkts : status'[q] = IF q = p THEN "success" ELSE status[q]
      BY <2>1, <2>4 DEF RxInv, RxTyped
    <3> QED BY <3>1, <2>6, <2>9, <1>1 DEF RxInv, RxMarked, Collecting, e, f
  <2>14. RxOrdered'
    <3>1. frame \in [Pkts -> Nat] /\ frame'[p] = x
      BY <2>1, <2>4 DEF RxInv, RxTyped
    <3>2. Frames(batch, frame') = Frames(batch, frame) /\ Frames(f, frame') = Frames(f, frame)
      BY <2>1, <2>3, <2>4, <2>6, <3>1, <1>3, FramesOther
    <3>3. Frames(f', frame') = Append(Frames(f, frame'), x)
      BY <2>3, <2>4, <2>8, <2>10, <3>1, FramesAppended
    <3>4. g' = Append(g, x) /\ b' = b
      BY <3>2, <3>3, <1>1 DEF Collecting
    <3> HIDE DEF b, g
    <3>5. Way(seen, b, g', rxFifo', arrived)
      BY <3>4, <1>1, <1>2, WayOn DEF x
    <3> QED BY <3>4, <3>5, <1>1 DEF RxOrdered, b, g, f
  <2> QED BY <2>11, <2>12, <2>13, <2>14 DEF RxInv
<1>5. CASE ~(good /\ ~IsArrayEmpty(EmptyPkt))
  <2>1. UNCHANGED << EmptyPkt, FullPkt, frame, status >>
    BY <1>5 DEF RxISR
  <2>2. RxTyped' /\ RxPlaced' /\ RxMarked'
    BY <2>1, <1>1, <1>3 DEF RxInv, RxTyped, RxPlaced, RxMarked, Collecting
  <2>3. b' = b /\ g' = g
    BY <2>1, <1>1 DEF Collecting
  <2> HIDE DEF b, g
  <2>4. Way(seen, b, g, rxFifo', arrived)
    BY <1>1, <1>2, WayOn
  <2>5. RxOrdered'
    BY <2>3, <2>4, <1>1 DEF RxOrdered, b, g
  <2> QED BY <2>2, <2>5 DEF RxInv
<1> QED BY <1>4, <1>5

(* The DPC takes a full packet, for its array or back to the empty ones.   *)
LEMMA RxTakes ==
  ASSUME Sizes, RxInv, NEW wanted \in BOOLEAN, RxCollect(wanted)
  PROVE  RxInv'
<1> DEFINE e == Content(EmptyPkt)
           f == Content(FullPkt)
           p == First(FullPkt)
           b == Frames(batch, frame)
           g == Frames(f, frame)
<1>1. /\ pc = "rx" /\ pc' \in {"rx", "indicate"}
      /\ ~IsArrayEmpty(FullPkt) /\ FullPkt' = Got(FullPkt)
      /\ UNCHANGED << rxFifo, arrived, frame, status, held, seen >>
  BY DEF RxCollect
<1>2. Collecting /\ Collecting' /\ pc # "returning" /\ pc' # "returning"
  BY <1>1 DEF Collecting
<1>3. FullPkt' \in Ring /\ f # << >> /\ p = Head(f) /\ f' = Tail(f)
  BY <1>1, RingGot DEF RxInv, RxTyped
<1>4. /\ e \in Seq(Pkts) /\ f \in Seq(Pkts) /\ batch \in Seq(Pkts) /\ EmptyPkt \in Ring
      /\ frame \in [Pkts -> Nat]
  BY DEF RxInv, RxTyped
<1>5. p \in Pkts /\ f' \in Seq(Pkts)
  BY <1>3, <1>4, Tailed
<1>6. /\ seen \in Seq(Nat) /\ b \in Seq(Nat) /\ g \in Seq(Nat) /\ rxFifo \in Seq(Nat)
      /\ arrived \in Nat /\ Way(seen, b, g, rxFifo, arrived)
  BY <1>2, WayTyped DEF RxInv, RxOrdered
<1>7. g # << >> /\ Head(g) = frame[p] /\ g' = Tail(g)
  BY <1>1, <1>3, <1>4, FramesTailed
<1> HIDE DEF e, f, p
<1>8. /\ Distinct(f') /\ Contains(f, p) /\ Distinct(e) /\ Distinct(batch)
      /\ \A y : Contains(f', y) <=> Contains(f, y) /\ y # p
  BY <1>3, <1>4, InTailed DEF RxInv, RxPlaced, e, f
<1>9. ~Contains(e, p) /\ ~Contains(batch, p) /\ p \notin held /\ status[p] = "success"
  BY <1>5, <1>8 DEF RxInv, RxPlaced, RxMarked, Apart, e, f
<1>10. CASE wanted
  <2>1. batch' = Append(batch, p) /\ EmptyPkt' = EmptyPkt
    BY <1>10 DEF RxCollect, p
  <2>2. /\ batch' \in Seq(Pkts) /\ Distinct(batch')
        /\ \A y : Contains(batch', y) <=> Contains(batch, y) \/ y = p
    BY <2>1, <1>4, <1>5, <1>8, <1>9, Appended, InAppended, DistinctAppended
  <2>3. RxTyped'
    BY <2>1, <2>2, <1>1, <1>3, <1>5 DEF RxInv, RxTyped, e, f
  <2>4. RxPlaced'
    <3>0. e' = e
      BY <2>1 DEF e
    <3>1. Apart(e', f') /\ Apart(e', batch') /\ Apart(f', batch')
      BY <3>0, <2>2, <1>8, <1>9 DEF RxInv, RxPlaced, Apart, e, f
    <3>2. \A q \in held : ~Contains(e', q) /\ ~Contains(f', q) /\ ~Contains(batch', q)
      BY <3>0, <2>2, <1>2, <1>8, <1>9 DEF RxInv, RxPlaced, e, f
    <3>3. \A q \in Pkts : Contains(e', q) \/ Contains(f', q) \/ Contains(batch', q) \/ q \in held
      BY <3>0, <2>2, <1>8 DEF RxInv, RxPlaced, e, f
    <3> QED BY <3>0, <3>1, <3>2, <3>3, <2>2, <1>1, <1>8 DEF RxPlaced, e, f
  <2>5. RxMarked'
    BY <2>2, <1>1, <1>2, <1>8, <1>9 DEF RxInv, RxMarked, e, f
  <2>6. RxOrdered'
    <3>1. b' = Append(b, frame[p])
      BY <2>1, <1>1, <1>4, <1>5, FramesAppended
    <3> HIDE DEF b, g
    <3>2. Way(seen, Append(b, Head(g)), Tail(g), rxFifo, arrived)
      BY <1>6, <1>7, WayOn
    <3>3. Way(seen', b', g', rxFifo', arrived')
      BY <3>1, <3>2, <1>1, <1>7
    <3> QED BY <3>3, <1>2 DEF RxOrdered, b, g, f
  <2> QED BY <2>3, <2>4, <2>5, <2>6 DEF RxInv
<1>11. CASE ~wanted
  <2>1. batch' = batch /\ EmptyPkt' = Put(EmptyPkt, p)
    BY <1>11 DEF RxCollect, p
  <2>2. Len(e) < MaxRx
    BY <1>4, <1>5, <1>8, <1>9, Room
  <2>3. EmptyPkt' \in Ring /\ e' = Append(e, p)
    BY <2>1, <2>2, <1>4, <1>5, RingPut DEF e
  <2>4. /\ e' \in Seq(Pkts) /\ Distinct(e')
        /\ \A y : Contains(e', y) <=> Contains(e, y) \/ y = p
    BY <2>3, <1>4, <1>5, <1>8, <1>9, Appended, InAppended, DistinctAppended
  <2>5. RxTyped'
    BY <2>1, <2>3, <2>4, <1>1, <1>3, <1>5 DEF RxInv, RxTyped, e, f
  <2>6. RxPlaced'
    <3>1. Apart(e', f') /\ Apart(e', batch) /\ Apart(f', batch)
      BY <2>4, <1>8, <1>9 DEF RxInv, RxPlaced, Apart, e, f
    <3>2. \A q \in held : ~Contains(e', q) /\ ~Contains(f', q) /\ ~Contains(batch, q)
      BY <2>4, <1>2, <1>8, <1>9 DEF RxInv, RxPlaced, e, f
    <3>3. \A q \in Pkts : Contains(e', q) \/ Contains(f', q) \/ Contains(batch, q) \/ q \in held
      BY <2>4, <1>8 DEF RxInv, RxPlaced, e, f
    <3> QED BY <3>1, <3>2, <3>3, <2>1, <2>4, <1>1, <1>8 DEF RxPlaced, e, f
  <2>7. RxMarked'
    BY <2>1, <1>1, <1>2, <1>8 DEF RxInv, RxMarked, e, f
  <2>8. RxOrdered'
    <3>1. b' = b
      BY <2>1, <1>1
    <3> HIDE DEF b, g
    <3>2. Way(seen, b, Tail(g), rxFifo, arrived)
      BY <1>6, <1>7, WayOn
    <3>3. Way(seen', b', g', rxFifo', arrived')
      BY <3>1, <3>2, <1>1, <1>7
    <3> QED BY <3>3, <1>2 DEF RxOrdered, b, g, f
  <2> QED BY <2>5, <2>6, <2>7, <2>8 DEF RxInv
<1> QED BY <1>10, <1>11

(* The protocols see the frames of the array and keep some packets.        *)
LEMMA RxShown ==
  ASSUME RxInv, NEW kept \in SUBSET ToSet(batch), Indicate(kept)
  PROVE  RxInv'
<1> DEFINE b == Frames(batch, frame)
           g == Frames(Content(FullPkt), frame)
<1>1. /\ pc = "indicate" /\ pc' = "returning" /\ held' = held \cup kept
      /\ status' = [p \in Pkts |-> IF p \in kept THEN "pending" ELSE status[p]]
      /\ seen' = seen \o b
      /\ UNCHANGED << rxFifo, arrived, EmptyPkt, FullPkt, frame, batch >>
  BY DEF Indicate, Frames
<1>2. Collecting /\ ~Collecting'
  BY <1>1 DEF Collecting
<1>3. /\ seen \in Seq(Nat) /\ b \in Seq(Nat) /\ g \in Seq(Nat) /\ rxFifo \in Seq(Nat)
      /\ arrived \in Nat /\ Way(seen, b, g, rxFifo, arrived)
  BY <1>2, WayTyped DEF RxInv, RxOrdered
<1>4. \A p \in kept : Contains(batch, p) /\ p \in Pkts
  BY DEF ToSet, Contains, RxInv, RxTyped
<1>5. seen \o b \in Seq(Nat)
  BY <1>3, WithBoth
<1>6. \A p \in Pkts : status'[p] = IF p \in kept THEN "pending" ELSE status[p]
  BY <1>1
<1>7. status' \in [Pkts -> {"success", "pending"}]
  BY <1>1 DEF RxInv, RxTyped
<1>8. RxTyped'
  <2>1. held' \in SUBSET Pkts
    BY <1>1, <1>4 DEF RxInv, RxTyped
  <2> QED BY <2>1, <1>1, <1>5, <1>7 DEF RxInv, RxTyped
<1>9. RxPlaced'
  <2>1. \A p \in kept : ~Contains(Content(EmptyPkt), p) /\ ~Contains(Content(FullPkt), p)
    BY <1>4 DEF RxInv, RxPlaced, Apart
  <2> QED BY <2>1, <1>1 DEF RxInv, RxPlaced
<1>10. RxMarked'
  <2>1. \A p \in Pkts : Contains(Content(FullPkt), p) => status'[p] = "success"
    BY <1>4, <1>6 DEF RxInv, RxPlaced, RxMarked, Apart
  <2>2. \A p \in Pkts : Contains(batch, p) => (status'[p] = "success" <=> p \notin held')
    BY <1>1, <1>2, <1>6 DEF RxInv, RxPlaced, RxMarked
  <2> QED BY <2>1, <2>2, <1>1, <1>2 DEF RxMarked
<1>11. RxOrdered'
  <2>1. g' = g
    BY <1>1
  <2> HIDE DEF b, g
  <2>2. Way(seen \o b, << >>, g, rxFifo, arrived)
    BY <1>3, WayOn
  <2> QED BY <2>1, <2>2, <1>1, <1>2 DEF RxOrdered, g
<1> QED BY <1>8, <1>9, <1>10, <1>11 DEF RxInv

(* What no protocol has kept goes back to the empty ones.                  *)
LEMMA RxGivesBack ==
  ASSUME Sizes, RxInv, RxReturn
  PROVE  RxInv'
<1> DEFINE e == Content(EmptyPkt)
           p == Head(batch)
<1>1. /\ pc = "returning" /\ pc' = pc /\ batch # << >> /\ batch' = Tail(batch)
      /\ EmptyPkt' = IF status[p] = "success" THEN Put(EmptyPkt, p) ELSE EmptyPkt
      /\ UNCHANGED << rxFifo, arrived, FullPkt, frame, status, held, seen >>
  BY DEF RxReturn
<1>2. ~Collecting /\ ~Collecting'
  BY <1>1 DEF Collecting
<1>3. e \in Seq(Pkts) /\ batch \in Seq(Pkts) /\ EmptyPkt \in Ring /\ Content(FullPkt) \in Seq(Pkts)
  BY DEF RxInv, RxTyped
<1>4. p \in Pkts /\ batch' \in Seq(Pkts)
  BY <1>1, <1>3, Tailed
<1> HIDE DEF p, e
<1>5. /\ Distinct(batch') /\ Contains(batch, p)
      /\ \A y : Contains(batch', y) <=> Contains(batch, y) /\ y # p
  BY <1>1, <1>3, InTailed DEF RxInv, RxPlaced, p
<1>6. /\ Distinct(e) /\ ~Contains(e, p) /\ ~Contains(Content(FullPkt), p)
      /\ status[p] = "success" <=> p \notin held
  BY <1>1, <1>4, <1>5 DEF RxInv, RxPlaced, RxMarked, Apart, e
<1>7. /\ EmptyPkt' \in Ring /\ e' \in Seq(Pkts) /\ Distinct(e')
      /\ \A y : Contains(e', y) <=> Contains(e, y) \/ (y = p /\ p \notin held)
  <2>1. CASE status[p] = "success"
    <3>1. EmptyPkt' = Put(EmptyPkt, p)
      BY <2>1, <1>1
    <3>2. Len(e) < MaxRx
      BY <1>3, <1>4, <1>6, Room
    <3>3. EmptyPkt' \in Ring /\ e' = Append(e, p)
      BY <3>1, <3>2, <1>3, <1>4, RingPut DEF e
    <3>4. /\ e' \in Seq(Pkts) /\ Distinct(e')
          /\ \A y : Contains(e', y) <=> Contains(e, y) \/ y = p
      BY <3>3, <1>3, <1>4, <1>6, Appended, InAppended, DistinctAppended
    <3> QED BY <3>3, <3>4, <2>1, <1>6
  <2>2. CASE status[p] # "success"
    <3>1. EmptyPkt' = EmptyPkt /\ e' = e
      BY <2>2, <1>1 DEF e
    <3> QED BY <3>1, <2>2, <1>3, <1>6
  <2> QED BY <2>1, <2>2
<1>8. RxTyped'
  BY <1>1, <1>4, <1>7 DEF RxInv, RxTyped, e
<1>9. RxPlaced'
  <2>1. Apart(e', Content(FullPkt)) /\ Apart(e', batch') /\ Apart(Content(FullPkt), batch')
    BY <1>5, <1>6, <1>7 DEF RxInv, RxPlaced, Apart, e
  <2>2. \A q \in held : ~Contains(e', q) /\ ~Contains(Content(FullPkt), q)
    BY <1>7 DEF RxInv, RxPlaced, e
  <2>3. \A q \in Pkts : \/ Contains(e', q) \/ Contains(Content(FullPkt), q)
                        \/ Contains(batch', q) \/ q \in held
    BY <1>5, <1>7 DEF RxInv, RxPlaced, e
  <2>4. Distinct(Content(FullPkt))
    BY DEF RxInv, RxPlaced
  <2> QED BY <2>1, <2>2, <2>3, <2>4, <1>1, <1>5, <1>7 DEF RxPlaced, e
<1>10. RxMarked'
  BY <1>1, <1>2, <1>5 DEF RxInv, RxMarked
<1>11. RxOrdered'
  BY <1>1, <1>2 DEF RxInv, RxOrdered
<1> QED BY <1>8, <1>9, <1>10, <1>11 DEF RxInv

(* A protocol returns a packet it has kept.                                *)
LEMMA RxReturned ==
  ASSUME Sizes, RxInv, NEW p \in Pkts, GetReturnedPackets(p)
  PROVE  RxInv'
<1> DEFINE e == Content(EmptyPkt)
<1>1. /\ pc = "idle" /\ pc' = pc /\ p \in held /\ held' = held \ {p}
      /\ status' = [status EXCEPT ![p] = "success"] /\ EmptyPkt' = Put(EmptyPkt, p)
      /\ UNCHANGED << rxFifo, arrived, FullPkt, frame, batch, seen >>
  BY DEF GetReturnedPackets
<1>2. ~Collecting /\ ~Collecting' /\ pc # "returning" /\ batch = << >>
  BY <1>1 DEF RxInv, RxMarked, Collecting
<1>3. e \in Seq(Pkts) /\ EmptyPkt \in Ring
  BY DEF RxInv, RxTyped
<1> HIDE DEF e
<1>4. Distinct(e) /\ ~Contains(e, p) /\ ~Contains(Content(FullPkt), p)
  BY <1>1 DEF RxInv, RxPlaced, e
<1>5. EmptyPkt' \in Ring /\ e' = Append(e, p)
  <2>1. Len(e) < MaxRx
    BY <1>3, <1>4, Room
  <2> QED BY <2>1, <1>1, <1>3, RingPut DEF e
<1>6. /\ e' \in Seq(Pkts) /\ Distinct(e')
      /\ \A y : Contains(e', y) <=> Contains(e, y) \/ y = p
  BY <1>3, <1>4, <1>5, Appended, InAppended, DistinctAppended
<1>7. /\ status' \in [Pkts -> {"success", "pending"}]
      /\ \A q \in Pkts : status'[q] = IF q = p THEN "success" ELSE status[q]
  BY <1>1 DEF RxInv, RxTyped
<1>8. RxTyped'
  BY <1>1, <1>5, <1>6, <1>7 DEF RxInv, RxTyped, e
<1>9. RxPlaced'
  <2>1. Apart(e', Content(FullPkt)) /\ Apart(e', batch) /\ Apart(Content(FullPkt), batch)
    BY <1>2, <1>4, <1>6, InNone DEF RxInv, RxPlaced, Apart, e
  <2>2. \A q \in held' : ~Contains(e', q) /\ ~Contains(Content(FullPkt), q) /\ ~Contains(batch, q)
    BY <1>1, <1>2, <1>6, InNone DEF RxInv, RxPlaced, e
  <2>3. \A q \in Pkts : \/ Contains(e', q) \/ Contains(Content(FullPkt), q)
                        \/ Contains(batch, q) \/ q \in held'
    BY <1>1, <1>6 DEF RxInv, RxPlaced, e
  <2>4. Distinct(Content(FullPkt)) /\ Distinct(batch)
    BY DEF RxInv, RxPlaced
  <2> QED BY <2>1, <2>2, <2>3, <2>4, <1>1, <1>6 DEF RxPlaced, e
<1>10. RxMarked'
  BY <1>1, <1>2, <1>7, InNone DEF RxInv, RxMarked
<1>11. RxOrdered'
  BY <1>1, <1>2 DEF RxInv, RxOrdered
<1> QED BY <1>8, <1>9, <1>10, <1>11 DEF RxInv
-----------------------------------------------------------------------------
(* At the start all packets are empty.                                     *)
LEMMA RxStarts == ASSUME Sizes, Init PROVE RxInv
<1> DEFINE e == Content(EmptyPkt)
<1>1. MaxRx \in Nat /\ N = MaxRx + 1 /\ N \in Nat
  BY DEF Sizes, N
<1>2. EmptyPkt \in Ring
  BY <1>1 DEF Init, InitEmpty, Ring, Slots, None
<1>3. FullPkt \in Ring
  BY <1>1 DEF Init, InitFull, Ring, Slots, None
<1>4. Content(FullPkt) = << >>
  BY <1>3, RingEmpty DEF Init, InitFull, IsArrayEmpty
<1>5. EmptyPkt.rd = 0 /\ EmptyPkt.wr = MaxRx /\ \A i \in 1 .. MaxRx : EmptyPkt.arr[i - 1] = i
  BY <1>1 DEF Init, InitEmpty, Slots
<1>6. Filled(EmptyPkt) = MaxRx
  BY <1>1, <1>5 DEF Filled
<1>7. \A i \in 1 .. MaxRx : Place(EmptyPkt, i) = i - 1
  BY <1>1, <1>5 DEF Place
<1>8. e = [i \in 1 .. MaxRx |-> EmptyPkt.arr[Place(EmptyPkt, i)]] /\ e \in Seq(0 .. MaxRx) /\ Len(e) = MaxRx
  BY <1>2, <1>6, InRing
<1> HIDE DEF e
<1>9. e = [i \in 1 .. MaxRx |-> i]
  BY <1>5, <1>7, <1>8
<1>10. e \in Seq(Pkts)
  BY <1>1, <1>9 DEF Pkts
<1>11. Distinct(e) /\ \A p \in Pkts : Contains(e, p)
  BY <1>1, <1>8, <1>9 DEF Distinct, Contains, Pkts
<1>12. /\ rxFifo = << >> /\ arrived = 0 /\ frame = [p \in Pkts |-> 0]
       /\ status = [p \in Pkts |-> "success"] /\ batch = << >> /\ held = {} /\ seen = << >>
       /\ pc = "idle"
  BY DEF Init
<1>13. RxTyped
  BY <1>2, <1>3, <1>4, <1>10, <1>12 DEF RxTyped, e
<1>14. RxPlaced
  BY <1>4, <1>11, <1>12, InNone, NoneDistinct DEF RxPlaced, Apart, e
<1>15. RxMarked
  BY <1>12 DEF RxMarked, Collecting
<1>16. RxOrdered
  BY <1>4, <1>12, NoFrames, WithNone DEF RxOrdered, Way, Collecting
<1> QED BY <1>13, <1>14, <1>15, <1>16 DEF RxInv
-----------------------------------------------------------------------------
(* One sequence behind another.                                            *)
LEMMA Joined ==
  ASSUME NEW S, NEW s \in Seq(S), NEW t \in Seq(S)
  PROVE  /\ s \o t \in Seq(S) /\ Len(s \o t) = Len(s) + Len(t)
         /\ \A i \in 1 .. Len(s) : (s \o t)[i] = s[i]
         /\ \A i \in 1 .. Len(t) : (s \o t)[Len(s) + i] = t[i]
OBVIOUS

LEMMA Parts ==
  ASSUME NEW S, NEW s \in Seq(S), NEW t \in Seq(S), NEW i \in 1 .. Len(s \o t)
  PROVE  \/ i \in 1 .. Len(s) /\ (s \o t)[i] = s[i]
         \/ ~(i \in 1 .. Len(s)) /\ i - Len(s) \in 1 .. Len(t) /\ (s \o t)[i] = t[i - Len(s)]
<1> DEFINE r == s \o t
           m == Len(s)
<1>1. /\ Len(r) = m + Len(t) /\ m \in Nat /\ Len(t) \in Nat
      /\ \A j \in 1 .. m : r[j] = s[j]
      /\ \A j \in 1 .. Len(t) : r[m + j] = t[j]
  BY Joined
<1> HIDE DEF r, m
<1>2. CASE i \in 1 .. m
  BY <1>2, <1>1 DEF r, m
<1>3. CASE ~(i \in 1 .. m)
  <2>1. i - m \in 1 .. Len(t) /\ m + (i - m) = i
    BY <1>1, <1>3 DEF r
  <2>2. r[m + (i - m)] = t[i - m]
    BY <2>1, <1>1
  <2> QED BY <2>1, <2>2, <1>3, Zenon DEF r, m
<1> QED BY <1>2, <1>3

LEMMA InJoined ==
  ASSUME NEW S, NEW s \in Seq(S), NEW t \in Seq(S)
  PROVE  \A y : Contains(s \o t, y) <=> Contains(s, y) \/ Contains(t, y)
<1> SUFFICES ASSUME NEW y PROVE Contains(s \o t, y) <=> Contains(s, y) \/ Contains(t, y)
  OBVIOUS
<1>1. ASSUME Contains(s \o t, y) PROVE Contains(s, y) \/ Contains(t, y)
  <2>1. PICK i \in 1 .. Len(s \o t) : (s \o t)[i] = y
    BY <1>1, Zenon DEF Contains
  <2>2. \/ i \in 1 .. Len(s) /\ (s \o t)[i] = s[i]
        \/ i - Len(s) \in 1 .. Len(t) /\ (s \o t)[i] = t[i - Len(s)]
    BY Parts
  <2> QED BY <2>1, <2>2, Zenon DEF Contains
<1>2. ASSUME Contains(s, y) PROVE Contains(s \o t, y)
  <2>1. PICK i \in 1 .. Len(s) : s[i] = y
    BY <1>2, Zenon DEF Contains
  <2>2. i \in 1 .. Len(s \o t)
    BY Joined
  <2>3. (s \o t)[i] = y
    BY <2>1, Joined, Zenon
  <2> QED BY <2>2, <2>3, Zenon DEF Contains
<1>3. ASSUME Contains(t, y) PROVE Contains(s \o t, y)
  <2>1. PICK i \in 1 .. Len(t) : t[i] = y
    BY <1>3, Zenon DEF Contains
  <2>2. Len(s) + i \in 1 .. Len(s \o t)
    BY Joined
  <2>3. (s \o t)[Len(s) + i] = y
    BY <2>1, Joined
  <2> QED BY <2>2, <2>3, Zenon DEF Contains
<1> QED BY <1>1, <1>2, <1>3

LEMMA DistinctJoined ==
  ASSUME NEW S, NEW s \in Seq(S), NEW t \in Seq(S), Distinct(s), Distinct(t), Apart(s, t)
  PROVE  Distinct(s \o t)
<1> DEFINE r == s \o t
           m == Len(s)
<1>1. /\ m \in Nat /\ Len(r) \in Nat
      /\ \A i \in 1 .. Len(r) :
           \/ i \in 1 .. m /\ r[i] = s[i]
           \/ ~(i \in 1 .. m) /\ i - m \in 1 .. Len(t) /\ r[i] = t[i - m]
  <2>1. m \in Nat /\ Len(r) \in Nat
    BY Joined
  <2> QED BY <2>1, Parts
<1>2. \A i \in 1 .. m : Contains(s, s[i])
  BY Zenon DEF Contains
<1>3. \A i \in 1 .. Len(t) : Contains(t, t[i])
  BY Zenon DEF Contains
<1>4. /\ \A i, j \in 1 .. m : s[i] = s[j] => i = j
      /\ \A i, j \in 1 .. Len(t) : t[i] = t[j] => i = j
      /\ \A x : ~(Contains(s, x) /\ Contains(t, x))
  BY Zenon DEF Distinct, Apart
<1> HIDE DEF r, m
<1>5. ASSUME NEW i \in 1 .. Len(r), NEW j \in 1 .. Len(r), r[i] = r[j] PROVE i = j
  <2>1. CASE i \in 1 .. m /\ j \in 1 .. m
    BY <2>1, <1>1, <1>4, <1>5
  <2>2. CASE i \in 1 .. m /\ ~(j \in 1 .. m)
    BY <2>2, <1>1, <1>2, <1>3, <1>4, <1>5
  <2>3. CASE ~(i \in 1 .. m) /\ j \in 1 .. m
    BY <2>3, <1>1, <1>2, <1>3, <1>4, <1>5
  <2>4. CASE ~(i \in 1 .. m) /\ ~(j \in 1 .. m)
    <3>1. i - m = j - m
      BY <2>4, <1>1, <1>4, <1>5
    <3> QED BY <3>1, <1>1
  <2> QED BY <2>1, <2>2, <2>3, <2>4
<1>6. Distinct(r)
  BY <1>5 DEF Distinct
<1> QED BY <1>6 DEF r
-----------------------------------------------------------------------------
(* Along a sequence what c says of its elements does not fall.             *)
InOrder(s, c) == \A i, j \in 1 .. Len(s) : i < j => c[s[i]] <= c[s[j]]

LEMMA OrderTailed ==
  ASSUME NEW S, NEW s \in Seq(S), s # << >>, NEW c, InOrder(s, c)
  PROVE  /\ InOrder(Tail(s), c)
         /\ \A y : Contains(Tail(s), y) => c[Head(s)] <= c[y]
<1> DEFINE t == Tail(s)
<1>1. /\ Head(s) = s[1] /\ 1 \in 1 .. Len(s) /\ Len(t) \in Nat
      /\ \A i \in 1 .. Len(t) : i + 1 \in 1 .. Len(s) /\ t[i] = s[i + 1]
  BY Tailed
<1> HIDE DEF t
<1>2. ASSUME NEW i \in 1 .. Len(t), NEW j \in 1 .. Len(t), i < j PROVE c[t[i]] <= c[t[j]]
  <2>1. i + 1 < j + 1 /\ i + 1 \in 1 .. Len(s) /\ j + 1 \in 1 .. Len(s)
    BY <1>1, <1>2
  <2>2. c[s[i + 1]] <= c[s[j + 1]]
    BY <2>1, Zenon DEF InOrder
  <2> QED BY <2>2, <1>1, Zenon
<1>3. ASSUME NEW y, Contains(t, y) PROVE c[Head(s)] <= c[y]
  <2>1. PICK i \in 1 .. Len(t) : t[i] = y
    BY <1>3, Zenon DEF Contains
  <2>2. 1 < i + 1 /\ i + 1 \in 1 .. Len(s)
    BY <1>1
  <2>3. c[s[1]] <= c[s[i + 1]]
    BY <2>2, <1>1, Zenon DEF InOrder
  <2> QED BY <2>1, <2>3, <1>1, Zenon
<1>4. InOrder(t, c)
  BY <1>2, Zenon DEF InOrder
<1> QED BY <1>3, <1>4, Zenon DEF t

LEMMA OrderAppended ==
  ASSUME NEW S, NEW s \in Seq(S), NEW x \in S, NEW c, InOrder(s, c),
         \A y : Contains(s, y) => c[y] <= c[x]
  PROVE  InOrder(Append(s, x), c)
<1> DEFINE t == Append(s, x)
<1>1. /\ \A i \in 1 .. Len(s) : t[i] = s[i]
      /\ t[Len(s) + 1] = x
      /\ \A i \in 1 .. Len(t) : i \in 1 .. Len(s) \/ i = Len(s) + 1
      /\ Len(s) \in Nat
  BY Appended
<1> HIDE DEF t
<1>2. ASSUME NEW i \in 1 .. Len(t), NEW j \in 1 .. Len(t), i < j PROVE c[t[i]] <= c[t[j]]
  <2>1. i \in 1 .. Len(s)
    BY <1>1, <1>2
  <2>2. CASE j \in 1 .. Len(s)
    <3>1. c[s[i]] <= c[s[j]]
      BY <2>1, <2>2, <1>2, Zenon DEF InOrder
    <3> QED BY <3>1, <2>1, <2>2, <1>1, Zenon
  <2>3. CASE j = Len(s) + 1
    <3>1. Contains(s, s[i])
      BY <2>1, Zenon DEF Contains
    <3> QED BY <3>1, <2>1, <2>3, <1>1, Zenon
  <2> QED BY <2>2, <2>3, <1>1, Zenon
<1>3. InOrder(t, c)
  BY <1>2, Zenon DEF InOrder
<1> QED BY <1>3, Zenon DEF t

(* Only the numbers of the members count.                                  *)
LEMMA OrderElsewhere ==
  ASSUME NEW S, NEW s \in Seq(S), NEW c, NEW e, InOrder(s, c), \A y \in S : e[y] = c[y]
  PROVE  InOrder(s, e)
<1>1. \A i \in 1 .. Len(s) : s[i] \in S
  OBVIOUS
<1>2. \A i \in 1 .. Len(s) : e[s[i]] = c[s[i]]
  BY <1>1, Zenon
<1> QED BY <1>2, Zenon DEF InOrder

(* All of one call behind what belongs to calls before.                    *)
LEMMA OrderJoined ==
  ASSUME NEW S, NEW s \in Seq(S), NEW t \in Seq(S), NEW c, NEW n \in Nat, InOrder(s, c),
         \A y : Contains(s, y) => c[y] <= n, \A y : Contains(t, y) => c[y] = n
  PROVE  InOrder(s \o t, c)
<1> DEFINE r == s \o t
           m == Len(s)
<1>1. /\ m \in Nat /\ Len(r) \in Nat
      /\ \A i \in 1 .. Len(r) :
           \/ i \in 1 .. m /\ r[i] = s[i]
           \/ ~(i \in 1 .. m) /\ i - m \in 1 .. Len(t) /\ r[i] = t[i - m]
  <2>1. m \in Nat /\ Len(r) \in Nat
    BY Joined
  <2> QED BY <2>1, Parts
<1>2. \A i \in 1 .. m : c[s[i]] <= n
  BY Zenon DEF Contains
<1>3. \A i \in 1 .. Len(t) : c[t[i]] = n
  BY Zenon DEF Contains
<1>4. \A i, j \in 1 .. m : i < j => c[s[i]] <= c[s[j]]
  BY Zenon DEF InOrder
<1> HIDE DEF r, m
<1>7. ASSUME NEW i \in 1 .. Len(r), ~(i \in 1 .. m) PROVE c[r[i]] = n
  <2>1. i - m \in 1 .. Len(t) /\ r[i] = t[i - m]
    BY <1>1, <1>7, Zenon
  <2>2. PICK k \in 1 .. Len(t) : r[i] = t[k]
    BY <2>1, Zenon
  <2> QED BY <2>2, <1>3, Zenon
<1>5. ASSUME NEW i \in 1 .. Len(r), NEW j \in 1 .. Len(r), i < j PROVE c[r[i]] <= c[r[j]]
  <2>1. CASE i \in 1 .. m /\ j \in 1 .. m
    BY <2>1, <1>1, <1>4, <1>5
  <2>2. CASE i \in 1 .. m /\ ~(j \in 1 .. m)
    BY <2>2, <1>1, <1>2, <1>3
  <2>3. CASE ~(i \in 1 .. m)
    <3>1. ~(j \in 1 .. m)
      BY <2>3, <1>1, <1>5
    <3>2. c[r[i]] = n /\ c[r[j]] = n
      BY <3>1, <2>3, <1>7, Zenon
    <3> QED BY <3>2
  <2> QED BY <2>1, <2>2, <2>3
<1>6. InOrder(r, c)
  BY <1>5, Zenon DEF InOrder
<1> QED BY <1>6, Zenon DEF r
-----------------------------------------------------------------------------
(* The invariant of the sending side: the types; what is deferred, and     *)
(* what is left of the array while SendPackets goes through it, has no     *)
(* answer yet and is not on the wire, and nothing is answered twice; along *)
(* the wire and the queue calls do not fall, and while SendPackets goes    *)
(* through an array all that waits is of its call.                         *)
Sending == pc \in {"xmit", "sync_xmit", "sync_sent", "sent"}
Ids     == 1 .. Len(sends)
Calls   == [k \in Ids |-> sends[k].call]

TxTyped ==
  /\ sends \in Seq([need : Nat, call : Nat]) /\ calls \in Nat
  /\ answers \in Seq(Nat) /\ Len(answers) = Len(sends)
  /\ TxDeferedPkt \in Seq(Ids) /\ wire \in Seq(Ids)
  /\ Sending => args \in Seq(Ids)

TxOnce ==
  /\ Distinct(TxDeferedPkt)
  /\ Sending => Distinct(args) /\ Apart(args, TxDeferedPkt)
  /\ \A k \in Ids : answers[k] <= 1
  /\ \A k \in Ids : Contains(TxDeferedPkt, k) => answers[k] = 0 /\ ~Contains(wire, k)
  /\ Sending => \A k \in Ids : Contains(args, k) => answers[k] = 0 /\ ~Contains(wire, k)

TxOrdered ==
  /\ \A k \in Ids : Calls[k] <= calls
  /\ InOrder(wire, Calls) /\ InOrder(TxDeferedPkt, Calls)
  /\ \A j, k \in Ids : Contains(wire, j) /\ Contains(TxDeferedPkt, k) => Calls[j] <= Calls[k]
  /\ Sending => \A k \in Ids : Contains(args, k) \/ Contains(TxDeferedPkt, k) => Calls[k] = calls

TxInv == TxTyped /\ TxOnce /\ TxOrdered

LEMMA InSeq == \A S : \A s \in Seq(S) : \A x : Contains(s, x) => x \in S
BY DEF Contains

LEMMA SeqWider ==
  ASSUME NEW S, NEW T, S \subseteq T
  PROVE  \A s \in Seq(S) : s \in Seq(T)
OBVIOUS

LEMMA TxStarts == Init => TxInv
<1> SUFFICES ASSUME Init PROVE TxInv
  OBVIOUS
<1>1. /\ sends = << >> /\ calls = 0 /\ answers = << >> /\ TxDeferedPkt = << >> /\ wire = << >>
      /\ ~Sending
  BY DEF Init, Sending
<1>2. Ids = {}
  BY <1>1 DEF Ids
<1>3. TxTyped
  BY <1>1 DEF TxTyped
<1>4. TxOnce
  BY <1>1, <1>2, NoneDistinct, InNone DEF TxOnce
<1>5. TxOrdered
  BY <1>1, <1>2 DEF TxOrdered, InOrder
<1> QED BY <1>3, <1>4, <1>5 DEF TxInv

(* Nothing is sent, and SendPackets does not begin with an array.          *)
LEMMA TxRests ==
  ASSUME TxInv, UNCHANGED << TxDeferedPkt, sends, calls, wire, answers >>,
         Sending' => Sending /\ args' = args
  PROVE  TxInv'
<1>1. Ids' = Ids /\ Calls' = Calls
  BY DEF Ids, Calls
<1> HIDE DEF Ids, Calls
<1>2. TxTyped'
  BY <1>1 DEF TxInv, TxTyped
<1>3. TxOnce'
  BY <1>1 DEF TxInv, TxOnce
<1>4. TxOrdered'
  BY <1>1 DEF TxInv, TxOrdered
<1> QED BY <1>2, <1>3, <1>4 DEF TxInv

(* The first of the queue is put into the FIFO and answered.               *)
LEMMA TxFirst ==
  ASSUME TxInv, NEW at \in {"defered", "tx"}, SendFirst(at)
  PROVE  TxInv'
<1> DEFINE k == Head(TxDeferedPkt)
           d == TxDeferedPkt
<1>1. /\ pc = at /\ pc' = pc /\ d # << >> /\ d' = Tail(d)
      /\ wire' = Append(wire, k) /\ answers' = [answers EXCEPT ![k] = @ + 1]
      /\ UNCHANGED << sends, calls >>
  BY DEF SendFirst, XmitOnePacket, Answer
<1>2. ~Sending /\ ~Sending'
  BY <1>1 DEF Sending
<1>3. Ids' = Ids /\ Calls' = Calls
  BY <1>1 DEF Ids, Calls
<1>4. /\ sends \in Seq([need : Nat, call : Nat]) /\ calls \in Nat
      /\ answers \in Seq(Nat) /\ Len(answers) = Len(sends) /\ Ids = 1 .. Len(answers)
      /\ d \in Seq(Ids) /\ wire \in Seq(Ids) /\ Distinct(d)
  BY DEF TxInv, TxTyped, TxOnce, Ids
<1> HIDE DEF Ids, Calls
<1>5. k \in Ids /\ d' \in Seq(Ids)
  BY <1>1, <1>4, Tailed
<1>6. /\ Distinct(d') /\ Contains(d, k)
      /\ \A y : Contains(d', y) <=> Contains(d, y) /\ y # k
  BY <1>1, <1>4, InTailed
<1>7. /\ InOrder(d', Calls) /\ \A y : Contains(d', y) => Calls[k] <= Calls[y]
  BY <1>1, <1>4, OrderTailed DEF TxInv, TxOrdered
<1> HIDE DEF d, k
<1>8. /\ wire' \in Seq(Ids)
      /\ \A y : Contains(wire', y) <=> Contains(wire, y) \/ y = k
  BY <1>1, <1>4, <1>5, Appended, InAppended
<1>9. /\ answers' \in Seq(Nat) /\ Len(answers') = Len(answers)
      /\ \A i \in Ids : answers'[i] = IF i = k THEN answers[i] + 1 ELSE answers[i]
  <2>1. k \in 1 .. Len(answers) /\ answers \in Seq(Nat) /\ Ids = 1 .. Len(answers)
    BY <1>4, <1>5, Zenon
  <2>2. PICK t : t = answers'
    OBVIOUS
  <2>3. t = [answers EXCEPT ![k] = @ + 1]
    BY <1>1, <2>2, Zenon
  <2> HIDE DEF k
  <2>4. /\ t \in Seq(Nat) /\ Len(t) = Len(answers)
       /\ \A i \in 1 .. Len(answers) : t[i] = IF i = k THEN answers[i] + 1 ELSE answers[i]
    BY <2>1, <2>3, Counted
  <2> QED BY <2>1, <2>2, <2>4, Zenon
<1>10. TxTyped'
  <2>1. sends' \in Seq([need : Nat, call : Nat]) /\ calls' \in Nat
    BY <1>1, <1>4, Zenon
  <2>2. Len(answers') = Len(sends')
    BY <1>1, <1>4, <1>9, Zenon
  <2>3. TxDeferedPkt' \in Seq(Ids') /\ wire' \in Seq(Ids')
    BY <1>3, <1>5, <1>8, Zenon DEF d
  <2> QED BY <2>1, <2>2, <2>3, <1>2, <1>9, Zenon DEF TxTyped
<1>11. TxOnce'
  <2>1. answers[k] = 0
    BY <1>5, <1>6 DEF TxInv, TxOnce, d
  <2>2. \A i \in Ids : answers'[i] <= 1
    BY <2>1, <1>9 DEF TxInv, TxOnce
  <2>3. \A i \in Ids : Contains(d', i) => answers'[i] = 0 /\ ~Contains(wire', i)
    BY <1>6, <1>8, <1>9 DEF TxInv, TxOnce, d
  <2> QED BY <2>2, <2>3, <1>2, <1>3, <1>6 DEF TxOnce, d
<1>12. TxOrdered'
  <2>1. \A y : Contains(wire, y) => Calls[y] <= Calls[k]
    BY <1>4, <1>5, <1>6, InSeq DEF TxInv, TxOrdered, d
  <2>2. InOrder(wire', Calls)
    BY <2>1, <1>1, <1>4, <1>5, OrderAppended DEF TxInv, TxOrdered
  <2>3. \A i, j \in Ids : Contains(wire', i) /\ Contains(d', j) => Calls[i] <= Calls[j]
    BY <1>6, <1>7, <1>8 DEF TxInv, TxOrdered, d
  <2> QED BY <2>2, <2>3, <1>1, <1>2, <1>3, <1>7 DEF TxInv, TxOrdered, d
<1> QED BY <1>10, <1>11, <1>12 DEF TxInv

(* The next of the array is put into the FIFO and answered, or deferred.   *)
LEMMA TxOne == TxInv /\ SendOne => TxInv'
<1> SUFFICES ASSUME TxInv, SendOne PROVE TxInv'
  OBVIOUS
<1> DEFINE k == Head(args)
           a == args
           d == TxDeferedPkt
<1>1. /\ pc = "xmit" /\ a # << >> /\ a' = Tail(a)
      /\ UNCHANGED << sends, calls >>
      /\ \/ /\ wire' = Append(wire, k) /\ answers' = [answers EXCEPT ![k] = @ + 1]
            /\ d' = d /\ pc' = "sync_sent"
         \/ /\ d' = Append(d, k) /\ wire' = wire /\ answers' = answers /\ pc' = "sync_xmit"
  BY DEF SendOne, XmitOnePacket, Answer, Queued
<1>2. Sending /\ Sending'
  BY <1>1 DEF Sending
<1>3. Ids' = Ids /\ Calls' = Calls
  BY <1>1 DEF Ids, Calls
<1>4. /\ sends \in Seq([need : Nat, call : Nat]) /\ calls \in Nat
      /\ answers \in Seq(Nat) /\ Len(answers) = Len(sends) /\ Ids = 1 .. Len(answers)
      /\ a \in Seq(Ids) /\ d \in Seq(Ids) /\ wire \in Seq(Ids) /\ Distinct(a) /\ Distinct(d)
  BY <1>2 DEF TxInv, TxTyped, TxOnce, Ids
<1> HIDE DEF Ids, Calls
<1>5. k \in Ids /\ a' \in Seq(Ids)
  BY <1>1, <1>4, Tailed
<1>6. /\ Distinct(a') /\ Contains(a, k)
      /\ \A y : Contains(a', y) <=> Contains(a, y) /\ y # k
  BY <1>1, <1>4, InTailed
<1> HIDE DEF a, d, k
<1>7. answers[k] = 0 /\ ~Contains(wire, k) /\ ~Contains(d, k) /\ Calls[k] = calls
  BY <1>2, <1>5, <1>6 DEF TxInv, TxOnce, TxOrdered, Apart, a, d
<1>8. \A y \in Ids : Contains(a, y) \/ Contains(d, y) => Calls[y] = calls
  BY <1>2 DEF TxInv, TxOrdered, a, d
<1>9. \A y \in Ids : Contains(a, y) \/ Contains(d, y) => answers[y] = 0 /\ ~Contains(wire, y)
  BY <1>2 DEF TxInv, TxOnce, a, d
<1>10. CASE /\ wire' = Append(wire, k) /\ answers' = [answers EXCEPT ![k] = @ + 1] /\ d' = d
  <2>1. /\ wire' \in Seq(Ids)
        /\ \A y : Contains(wire', y) <=> Contains(wire, y) \/ y = k
    BY <1>4, <1>5, <1>10, Appended, InAppended
  <2>2. /\ answers' \in Seq(Nat) /\ Len(answers') = Len(answers)
        /\ \A i \in Ids : answers'[i] = IF i = k THEN answers[i] + 1 ELSE answers[i]
    <3>1. k \in 1 .. Len(answers) /\ answers \in Seq(Nat) /\ Ids = 1 .. Len(answers)
      BY <1>4, <1>5, Zenon
    <3>2. PICK t : t = answers'
      OBVIOUS
    <3>3. t = [answers EXCEPT ![k] = @ + 1]
      BY <1>10, <3>2, Zenon
    <3> HIDE DEF k
    <3>4. /\ t \in Seq(Nat) /\ Len(t) = Len(answers)
         /\ \A i \in 1 .. Len(answers) : t[i] = IF i = k THEN answers[i] + 1 ELSE answers[i]
      BY <3>1, <3>3, Counted
    <3> QED BY <3>1, <3>2, <3>4, Zenon
  <2>3. TxTyped'
    <3>1. sends' \in Seq([need : Nat, call : Nat]) /\ calls' \in Nat
      BY <1>1, <1>4, Zenon
    <3>2. Len(answers') = Len(sends')
      BY <2>2, <1>1, <1>4, Zenon
    <3>3. /\ TxDeferedPkt' \in Seq(Ids') /\ wire' \in Seq(Ids')
          /\ args' \in Seq(Ids')
      BY <2>1, <1>3, <1>4, <1>5, <1>10, Zenon DEF a, d
    <3> QED BY <3>1, <3>2, <3>3, <2>2, Zenon DEF TxTyped
  <2>4. TxOnce'
    <3>1. \A i \in Ids : answers'[i] <= 1
      BY <2>2, <1>7 DEF TxInv, TxOnce
    <3>2. \A i \in Ids : Contains(a', i) \/ Contains(d', i) => answers'[i] = 0 /\ ~Contains(wire', i)
      BY <2>1, <2>2, <1>6, <1>7, <1>9, <1>10
    <3>3. Apart(a', d')
      BY <1>2, <1>6, <1>10 DEF TxInv, TxOnce, Apart, a, d
    <3>4. Distinct(d')
      BY <1>4, <1>10
    <3> QED BY <3>1, <3>2, <3>3, <3>4, <1>3, <1>6 DEF TxOnce, a, d
  <2>5. TxOrdered'
    <3>1. \A y : Contains(wire, y) => Calls[y] <= Calls[k]
      BY <1>4, <1>7, InSeq DEF TxInv, TxOrdered
    <3>2. InOrder(wire', Calls)
      BY <3>1, <1>4, <1>5, <1>10, OrderAppended DEF TxInv, TxOrdered
    <3>3. \A i \in Ids : Calls[i] <= calls
      BY DEF TxInv, TxOrdered
    <3>4. \A i, j \in Ids : Contains(wire', i) /\ Contains(d', j) => Calls[i] <= Calls[j]
      BY <3>3, <1>8, <1>10
    <3>5. \A y \in Ids : Contains(a', y) \/ Contains(d', y) => Calls[y] = calls
      BY <1>6, <1>8, <1>10
    <3>6. InOrder(d', Calls)
      BY <1>10 DEF TxInv, TxOrdered, d
    <3> QED BY <3>2, <3>3, <3>4, <3>5, <3>6, <1>1, <1>3 DEF TxOrdered, a, d
  <2> QED BY <2>3, <2>4, <2>5 DEF TxInv
<1>11. CASE d' = Append(d, k) /\ wire' = wire /\ answers' = answers
  <2>1. /\ d' \in Seq(Ids) /\ Distinct(d')
        /\ \A y : Contains(d', y) <=> Contains(d, y) \/ y = k
    BY <1>4, <1>5, <1>7, <1>11, Appended, InAppended, DistinctAppended
  <2>2. TxTyped'
    BY <2>1, <1>1, <1>3, <1>4, <1>5, <1>11 DEF TxTyped, a, d
  <2>3. TxOnce'
    <3>1. \A i \in Ids : answers'[i] <= 1
      BY <1>11 DEF TxInv, TxOnce
    <3>2. \A i \in Ids : Contains(a', i) \/ Contains(d', i) => answers'[i] = 0 /\ ~Contains(wire', i)
      BY <2>1, <1>6, <1>9, <1>11
    <3>3. Apart(a', d')
      BY <2>1, <1>2, <1>6 DEF TxInv, TxOnce, Apart, a, d
    <3> QED BY <2>1, <3>1, <3>2, <3>3, <1>3, <1>6 DEF TxOnce, a, d
  <2>4. TxOrdered'
    <3>1. \A i \in Ids : Calls[i] <= calls
      BY DEF TxInv, TxOrdered
    <3>2. \A y : Contains(d, y) => Calls[y] <= Calls[k]
      BY <3>1, <1>4, <1>7, InSeq
    <3>3. InOrder(d', Calls)
      BY <3>2, <1>4, <1>5, <1>11, OrderAppended DEF TxInv, TxOrdered, d
    <3>4. \A i, j \in Ids : Contains(wire', i) /\ Contains(d', j) => Calls[i] <= Calls[j]
      BY <2>1, <3>1, <1>6, <1>8, <1>11
    <3>5. \A y \in Ids : Contains(a', y) \/ Contains(d', y) => Calls[y] = calls
      BY <2>1, <1>6, <1>8
    <3>6. InOrder(wire', Calls)
      BY <1>11 DEF TxInv, TxOrdered
    <3> QED BY <3>1, <3>3, <3>4, <3>5, <3>6, <1>1, <1>3 DEF TxOrdered, a, d
  <2> QED BY <2>2, <2>3, <2>4 DEF TxInv
<1>12. \/ /\ wire' = Append(wire, k) /\ answers' = [answers EXCEPT ![k] = @ + 1] /\ d' = d
       \/ d' = Append(d, k) /\ wire' = wire /\ answers' = answers
  BY <1>1
<1> QED BY <1>10, <1>11, <1>12

(* A reset answers whatever is deferred.                                   *)
LEMMA TxReset == TxInv /\ Reset118 => TxInv'
<1> SUFFICES ASSUME TxInv, Reset118 PROVE TxInv'
  OBVIOUS
<1>1. /\ pc = "idle" /\ pc' = pc /\ TxDeferedPkt' = << >>
      /\ answers' = [k \in DOMAIN answers |->
                       IF Contains(TxDeferedPkt, k) THEN answers[k] + 1 ELSE answers[k]]
      /\ UNCHANGED << sends, calls, wire >>
  BY DEF Reset118
<1>2. ~Sending /\ ~Sending'
  BY <1>1 DEF Sending
<1>3. Ids' = Ids /\ Calls' = Calls
  BY <1>1 DEF Ids, Calls
<1>4. answers \in Seq(Nat) /\ Len(answers) = Len(sends) /\ Ids = 1 .. Len(answers) /\ Len(answers) \in Nat
  BY DEF TxInv, TxTyped, Ids
<1>5. \A k \in Ids : answers'[k] = IF Contains(TxDeferedPkt, k) THEN answers[k] + 1 ELSE answers[k]
  BY <1>1, <1>4
<1>6. answers' \in Seq(Nat) /\ Len(answers') = Len(answers)
  <2> DEFINE b == answers'
             n == Len(answers)
  <2>1. \A k \in Ids : b[k] \in Nat
    BY <1>4, <1>5
  <2>2. b = [k \in 1 .. n |-> b[k]] /\ n \in Nat /\ \A k \in 1 .. n : b[k] \in Nat
    BY <2>1, <1>1, <1>4
  <2> HIDE DEF b, n
  <2>3. b \in [1 .. n -> Nat]
    BY <2>2
  <2>4. b \in Seq(Nat) /\ Len(b) = n
    BY <2>2, <2>3
  <2> QED BY <2>4 DEF b, n
<1>7. TxTyped'
  BY <1>1, <1>2, <1>3, <1>4, <1>6 DEF TxInv, TxTyped
<1>8. TxOnce'
  BY <1>1, <1>2, <1>3, <1>5, InNone, NoneDistinct DEF TxInv, TxOnce
<1>9. TxOrdered'
  BY <1>1, <1>2, <1>3, InNone DEF TxInv, TxOrdered, InOrder
<1> QED BY <1>7, <1>8, <1>9 DEF TxInv

(* What a call of SendPackets brings is new, and of that call.             *)
LEMMA TxBegins ==
  ASSUME Sizes, TxInv, NEW needs \in Batches, SendPackets(needs)
  PROVE  TxInv'
<1> DEFINE n == Len(sends)
           m == Len(needs)
           new == [i \in 1 .. m |-> n + i]
           more == [i \in 1 .. m |-> [need |-> needs[i], call |-> calls + 1]]
           none == [i \in 1 .. m |-> 0]
           d == TxDeferedPkt
<1>1. /\ pc = "idle" /\ sends' = sends \o more /\ answers' = answers \o none
      /\ calls' = calls + 1 /\ wire' = wire
      /\ \/ d' = d \o new /\ pc' = "defered"
         \/ d = << >> /\ d' = d /\ args' = new /\ pc' = "xmit"
  BY DEF SendPackets
<1>2. ~Sending /\ (Sending' => d = << >> /\ d' = d /\ args' = new)
  BY <1>1 DEF Sending
<1>3. /\ sends \in Seq([need : Nat, call : Nat]) /\ calls \in Nat
      /\ answers \in Seq(Nat) /\ Len(answers) = n /\ d \in Seq(Ids) /\ wire \in Seq(Ids) /\ Distinct(d)
  BY DEF TxInv, TxTyped, TxOnce
<1>4. needs \in Seq(Nat) /\ m \in Nat /\ n \in Nat
  BY <1>3 DEF Sizes
<1>5. /\ more \in Seq([need : Nat, call : Nat]) /\ Len(more) = m
      /\ \A i \in 1 .. m : more[i].call = calls + 1
  <2> DEFINE R == [need : Nat, call : Nat]
  <2>1. \A i \in 1 .. m : [need |-> needs[i], call |-> calls + 1] \in R
    BY <1>3, <1>4
  <2>2. more \in [1 .. m -> R]
    BY <2>1
  <2>3. \A i \in 1 .. m : more[i].call = calls + 1
    OBVIOUS
  <2> HIDE DEF more, m, R
  <2>4. more \in Seq(R) /\ Len(more) = m
    BY <2>2, <1>4
  <2> QED BY <2>3, <2>4 DEF R
<1>6. none \in Seq(Nat) /\ Len(none) = m /\ \A i \in 1 .. m : none[i] = 0
  <2>1. none \in [1 .. m -> Nat] /\ \A i \in 1 .. m : none[i] = 0
    OBVIOUS
  <2> HIDE DEF none, m
  <2> QED BY <2>1, <1>4
<1>7. /\ new \in Seq(Nat) /\ Len(new) = m /\ \A i \in 1 .. m : new[i] = n + i
  <2>1. new \in [1 .. m -> Nat] /\ \A i \in 1 .. m : new[i] = n + i
    BY <1>4
  <2> HIDE DEF new, m
  <2> QED BY <2>1, <1>4
<1> HIDE DEF n, m, new, more, none, d
<1>8. /\ sends' \in Seq([need : Nat, call : Nat]) /\ Len(sends') = n + m
      /\ \A k \in 1 .. n : sends'[k] = sends[k]
      /\ \A k \in 1 .. m : sends'[n + k] = more[k]
  BY <1>1, <1>3, <1>5, Joined DEF n
<1>9. /\ answers' \in Seq(Nat) /\ Len(answers') = n + m
      /\ \A k \in 1 .. n : answers'[k] = answers[k]
      /\ \A k \in 1 .. m : answers'[n + k] = 0
  <2>1. /\ answers \o none \in Seq(Nat) /\ Len(answers \o none) = Len(answers) + Len(none)
        /\ \A k \in 1 .. Len(answers) : (answers \o none)[k] = answers[k]
        /\ \A k \in 1 .. Len(none) : (answers \o none)[Len(answers) + k] = none[k]
    <3>1. answers \in Seq(Nat)
      BY <1>3
    <3>2. none \in Seq(Nat)
      BY <1>6
    <3> QED BY <3>1, <3>2, Joined
  <2>2. \A k \in 1 .. m : answers'[n + k] = none[k]
    BY <2>1, <1>1, <1>3, <1>6, Zenon
  <2>3. answers' \in Seq(Nat) /\ Len(answers') = n + m /\ \A k \in 1 .. n : answers'[k] = answers[k]
    BY <2>1, <1>1, <1>3, <1>6, Zenon
  <2> QED BY <2>2, <2>3, <1>6
<1>10. Ids = 1 .. n /\ Ids' = 1 .. n + m /\ Ids \subseteq Ids'
  BY <1>4, <1>8 DEF Ids, n
<1>11. \A k \in Ids' : k \in Ids \/ (k - n \in 1 .. m /\ n + (k - n) = k)
  BY <1>4, <1>10
<1>12. /\ \A k \in Ids : Calls'[k] = Calls[k] /\ answers'[k] = answers[k]
       /\ \A k \in Ids' : k \notin Ids => Calls'[k] = calls + 1 /\ answers'[k] = 0
  <2>1. \A k \in Ids : Calls[k] = sends[k].call
    BY DEF Calls
  <2>2. \A k \in Ids' : Calls'[k] = sends'[k].call
    BY DEF Calls
  <2> HIDE DEF Calls
  <2>3. \A k \in Ids : Calls'[k] = Calls[k] /\ answers'[k] = answers[k]
    <3>1. \A k \in Ids : k \in 1 .. n /\ k \in Ids'
      BY <1>10, Zenon
    <3>2. \A k \in Ids : Calls'[k] = Calls[k]
      BY <3>1, <2>1, <2>2, <1>8, Zenon
    <3>3. \A k \in Ids : answers'[k] = answers[k]
      BY <3>1, <1>9, Zenon
    <3> QED BY <3>2, <3>3
  <2>4. ASSUME NEW k \in Ids', k \notin Ids PROVE Calls'[k] = calls + 1 /\ answers'[k] = 0
    <3>1. k - n \in 1 .. m /\ n + (k - n) = k
      BY <2>4, <1>11
    <3>2. sends'[n + (k - n)] = more[k - n] /\ answers'[n + (k - n)] = 0
      BY <3>1, <1>8, <1>9
    <3>3. more[k - n].call = calls + 1
      BY <3>1, <1>5
    <3> QED BY <3>1, <3>2, <3>3, <2>2, Zenon
  <2> QED BY <2>3, <2>4
<1>13. \A y : Contains(new, y) => y \in Ids' /\ y \notin Ids
  BY <1>4, <1>7, <1>10 DEF Contains
<1>14. new \in Seq(Ids') /\ Distinct(new)
  BY <1>4, <1>7, <1>10 DEF Distinct
<1>15. d \in Seq(Ids') /\ wire \in Seq(Ids')
  <2>1. d \in Seq(Ids)
    BY <1>3
  <2>2. wire \in Seq(Ids)
    BY <1>3
  <2>3. Ids \subseteq Ids'
    BY <1>10
  <2> QED BY <2>1, <2>2, <2>3, SeqWider
<1>16. \A y : Contains(d, y) \/ Contains(wire, y) => y \in Ids
  BY <1>3, InSeq
<1> HIDE DEF Ids, Calls
<1>17. /\ d' \in Seq(Ids') /\ Distinct(d')
       /\ \A y : Contains(d', y) => Contains(d, y) \/ Contains(new, y)
  <2>1. Apart(d, new)
    BY <1>13, <1>16 DEF Apart
  <2>2. d \o new \in Seq(Ids') /\ Distinct(d \o new)
    BY <2>1, <1>3, <1>14, <1>15, Joined, DistinctJoined
  <2>3. \A y : Contains(d \o new, y) <=> Contains(d, y) \/ Contains(new, y)
    BY <1>14, <1>15, InJoined
  <2>4. CASE d' = d \o new
    BY <2>2, <2>3, <2>4
  <2>5. CASE d' = d
    BY <2>5, <1>3, <1>15
  <2> QED BY <2>4, <2>5, <1>1
<1>18. TxTyped'
  BY <1>1, <1>2, <1>3, <1>8, <1>9, <1>14, <1>15, <1>17 DEF TxTyped, d
<1>19. TxOnce'
  <2>1. \A k \in Ids' : answers'[k] <= 1
    BY <1>12 DEF TxInv, TxOnce
  <2>2. \A k \in Ids' : Contains(new, k) => answers'[k] = 0 /\ ~Contains(wire', k)
    BY <1>1, <1>12, <1>13, <1>16
  <2>3. \A k \in Ids' : Contains(d, k) => answers'[k] = 0 /\ ~Contains(wire', k)
    BY <1>1, <1>12, <1>16 DEF TxInv, TxOnce, d
  <2>4. \A k \in Ids' : Contains(d', k) => answers'[k] = 0 /\ ~Contains(wire', k)
    BY <2>2, <2>3, <1>17
  <2>5. Sending' => /\ Distinct(args') /\ Apart(args', d')
                    /\ \A k \in Ids' : Contains(args', k) => answers'[k] = 0 /\ ~Contains(wire', k)
    BY <2>2, <1>2, <1>14, InNone DEF Apart
  <2> QED BY <2>1, <2>4, <2>5, <1>17 DEF TxOnce, d
<1>20. TxOrdered'
  <2>1. /\ \A k \in Ids : Calls[k] <= calls /\ Calls'[k] = Calls[k] /\ Calls[k] \in Nat
        /\ \A k \in Ids' : k \notin Ids => Calls'[k] = calls + 1
    <3>1. ASSUME NEW k \in Ids PROVE Calls[k] \in Nat
      <4> DEFINE R == [need : Nat, call : Nat]
      <4>1. sends \in Seq(R) /\ k \in 1 .. Len(sends)
        BY <1>3 DEF Ids
      <4> HIDE DEF R
      <4>2. sends[k] \in R
        BY <4>1
      <4>3. sends[k].call \in Nat
        BY <4>2 DEF R
      <4> QED BY <4>3 DEF Calls
    <3>2. \A k \in Ids : Calls[k] <= calls
      BY DEF TxInv, TxOrdered
    <3> QED BY <3>1, <3>2, <1>12
  <2>2. \A k \in Ids' : Calls'[k] <= calls'
    <3> SUFFICES ASSUME NEW k \in Ids' PROVE Calls'[k] <= calls + 1
      BY <1>1
    <3>1. CASE k \in Ids
      <4>1. Calls'[k] \in Nat /\ Calls'[k] <= calls
        BY <3>1, <2>1, Zenon
      <4> QED BY <4>1, <1>3
    <3>2. CASE k \notin Ids
      BY <3>2, <2>1, <1>3
    <3> QED BY <3>1, <3>2
  <2>3. InOrder(wire, Calls') /\ InOrder(d, Calls')
    <3>1. InOrder(wire, Calls) /\ InOrder(d, Calls)
      BY Zenon DEF TxInv, TxOrdered, d
    <3>2. \A k \in Ids : Calls'[k] = Calls[k]
      BY <2>1, Zenon
    <3>3. wire \in Seq(Ids) /\ d \in Seq(Ids)
      BY <1>3, Zenon
    <3> HIDE DEF d
    <3>4. PICK e : e = Calls'
      OBVIOUS
    <3>5. \A k \in Ids : e[k] = Calls[k]
      BY <3>2, <3>4, Zenon
    <3>6. InOrder(wire, e)
      BY <3>1, <3>3, <3>5, OrderElsewhere
    <3>7. InOrder(d, e)
      BY <3>1, <3>3, <3>5, OrderElsewhere
    <3> QED BY <3>4, <3>6, <3>7, Zenon
  <2>4. InOrder(d', Calls')
    <3>1. CASE d' = d
      BY <3>1, <2>3
    <3>2. CASE d' = d \o new
      <4>1. /\ \A y : Contains(d, y) => Calls'[y] <= calls + 1
            /\ \A y : Contains(new, y) => Calls'[y] = calls + 1
        <5>1. ASSUME NEW y, Contains(d, y) PROVE Calls'[y] <= calls + 1
          <6>1. y \in Ids
            BY <5>1, <1>16
          <6>2. Calls'[y] \in Nat /\ Calls'[y] <= calls
            BY <6>1, <2>1, Zenon
          <6> QED BY <6>2, <1>3
        <5>2. ASSUME NEW y, Contains(new, y) PROVE Calls'[y] = calls + 1
          BY <5>2, <2>1, <1>13
        <5> QED BY <5>1, <5>2
      <4>2. calls + 1 \in Nat
        BY <1>3
      <4> QED BY <4>1, <4>2, <3>2, <2>3, <1>14, <1>15, OrderJoined
    <3> QED BY <3>1, <3>2, <1>1
  <2>5. \A j, k \in Ids' : Contains(wire', j) /\ Contains(d', k) => Calls'[j] <= Calls'[k]
    <3> SUFFICES ASSUME NEW j \in Ids', NEW k \in Ids', Contains(wire, j), Contains(d', k)
                 PROVE  Calls'[j] <= Calls'[k]
      BY <1>1
    <3>1. j \in Ids
      BY <1>16
    <3>2. CASE Contains(d, k)
      BY <3>1, <3>2, <2>1, <1>16 DEF TxInv, TxOrdered, d
    <3>3. CASE Contains(new, k)
      <4>1. Calls'[k] = calls + 1
        BY <3>3, <2>1, <1>13
      <4>2. Calls'[j] \in Nat /\ Calls'[j] <= calls
        BY <3>1, <2>1
      <4> QED BY <4>1, <4>2, <1>3
    <3> QED BY <3>2, <3>3, <1>17
  <2>6. Sending' => \A k \in Ids' : Contains(args', k) \/ Contains(d', k) => Calls'[k] = calls'
    BY <2>1, <1>1, <1>2, <1>13, InNone
  <2> QED BY <2>2, <2>3, <2>4, <2>5, <2>6, <1>1 DEF TxOrdered, d
<1> QED BY <1>18, <1>19, <1>20 DEF TxInv
-----------------------------------------------------------------------------
(* Both sides together are inductive.                                      *)
IInv == RxInv /\ TxInv

(* A step of the handler that moves nothing on either side.                *)
LEMMA BothRest ==
  ASSUME IInv,
         UNCHANGED << rxFifo, arrived, EmptyPkt, FullPkt, frame, status, batch, held, seen >>,
         UNCHANGED << TxDeferedPkt, sends, calls, wire, answers >>,
         batch = << >> \/ ((Collecting' <=> Collecting) /\ (pc' = "returning" <=> pc = "returning")),
         Sending' => Sending /\ args' = args
  PROVE  IInv'
BY RxRests, TxRests DEF IInv

LEMMA Induction == ASSUME Sizes, IInv, [Next]_vars PROVE IInv'
<1>0. /\ ~Collecting /\ pc # "returning" => batch = << >>
      /\ pc # "rx" => pc = "indicate" \/ ~Collecting
  BY DEF IInv, RxInv, RxMarked, Collecting
<1>1. CASE Arrive
  <2>1. TxInv'
    BY <1>1, TxRests DEF IInv, Arrive, txVars, Sending
  <2> QED BY <2>1, <1>1, RxArrives DEF IInv
<1>2. CASE Transmitted
  BY <1>2, BothRest DEF Transmitted, rxVars, Collecting, Sending
<1>3. CASE IsrEnter \/ RxISREnd \/ IsrLeave
  BY <1>3, BothRest DEF IsrEnter, RxISREnd, IsrLeave, rxVars, txVars, Collecting, Sending
<1>4. ASSUME NEW good \in BOOLEAN, RxISR(good) PROVE IInv'
  <2>1. TxInv'
    BY <1>4, TxRests DEF IInv, RxISR, txVars, Sending
  <2> QED BY <2>1, <1>4, RxFills DEF IInv
<1>5. ASSUME NEW at \in {"defered", "tx"}, SendFirst(at) PROVE IInv'
  <2>1. RxInv'
    BY <1>5, RxRests DEF IInv, SendFirst, rxVars, Collecting
  <2> QED BY <2>1, <1>5, TxFirst DEF IInv
<1>6. CASE SendOne
  <2>1. RxInv'
    BY <1>6, <1>0, RxRests DEF IInv, SendOne, rxVars, Collecting
  <2> QED BY <2>1, <1>6, TxOne DEF IInv
<1>7. CASE SendDeferedEnd \/ SendEnd \/ SendAgainLow
  BY <1>7, <1>0, BothRest DEF SendDeferedEnd, SendEnd, SendAgainLow, rxVars, txVars, Collecting, Sending
<1>8. CASE SyncSetTDFALevel
  <2>1. pc \in {"sync_sent", "sync_xmit", "sync", "sync_dpc"} /\ pc' = AfterSync[pc]
    BY <1>8 DEF SyncSetTDFALevel, AfterSync
  <2>2. \/ pc \in {"sync_sent", "sync_xmit"} /\ pc' \in {"sent", "xmit"}
        \/ pc \in {"sync", "sync_dpc"} /\ pc' \in {"idle", "dpc"}
    BY <2>1 DEF AfterSync
  <2> QED BY <2>2, <1>0, <1>8, BothRest DEF SyncSetTDFALevel, rxVars, Collecting, Sending
<1>9. CASE DpcStart \/ DpcRx \/ RxCollectEnd \/ RxReturnEnd \/ DpcTx \/ TxNoRoom \/ TxDone \/ DpcEnd
  BY <1>9, <1>0, BothRest DEF DpcStart, DpcRx, RxCollectEnd, RxReturnEnd, DpcTx, TxNoRoom, TxDone,
       DpcEnd, rxVars, txVars, Collecting, Sending
<1>10. ASSUME NEW wanted \in BOOLEAN, RxCollect(wanted) PROVE IInv'
  <2>1. TxInv'
    BY <1>10, TxRests DEF IInv, RxCollect, txVars, Sending
  <2> QED BY <2>1, <1>10, RxTakes DEF IInv
<1>11. ASSUME NEW kept \in SUBSET ToSet(batch), Indicate(kept) PROVE IInv'
  <2>1. TxInv'
    BY <1>11, TxRests DEF IInv, Indicate, txVars, Sending
  <2> QED BY <2>1, <1>11, RxShown DEF IInv
<1>12. CASE RxReturn
  <2>1. TxInv'
    BY <1>12, TxRests DEF IInv, RxReturn, txVars, Sending
  <2> QED BY <2>1, <1>12, RxGivesBack DEF IInv
<1>13. ASSUME NEW needs \in Batches, SendPackets(needs) PROVE IInv'
  <2>1. RxInv'
    BY <1>13, <1>0, RxRests DEF IInv, SendPackets, rxVars, Collecting
  <2> QED BY <2>1, <1>13, TxBegins DEF IInv
<1>14. ASSUME NEW p \in Pkts, GetReturnedPackets(p) PROVE IInv'
  <2>1. TxInv'
    BY <1>14, TxRests DEF IInv, GetReturnedPackets, txVars, Sending
  <2> QED BY <2>1, <1>14, RxReturned DEF IInv
<1>15. CASE Reset118
  <2>1. RxInv'
    BY <1>15, RxRests DEF IInv, Reset118, rxVars, Collecting
  <2> QED BY <2>1, <1>15, TxReset DEF IInv
<1>16. CASE UNCHANGED vars
  BY <1>16, BothRest DEF vars, rxVars, txVars, Collecting, Sending
<1> QED
  BY <1>1, <1>2, <1>3, <1>4, <1>5, <1>6, <1>7, <1>8, <1>9, <1>10, <1>11, <1>12, <1>13, <1>14,
     <1>15, <1>16 DEF Next, IsrStep, HandlerStep

LEMMA Invariance == ASSUME Sizes PROVE Spec => []IInv
<1>1. Init => IInv
  BY RxStarts, TxStarts DEF IInv
<1>2. IInv /\ [Next]_vars => IInv'
  BY Induction
<1> QED BY <1>1, <1>2, PTL DEF Spec
-----------------------------------------------------------------------------
(* In a sequence without repetition what is in it is so at one place.      *)
LEMMA OnePlace ==
  ASSUME NEW s, Distinct(s), NEW p
  PROVE  Cardinality({i \in 1 .. Len(s) : s[i] = p}) = IF Contains(s, p) THEN 1 ELSE 0
<1> DEFINE I == {i \in 1 .. Len(s) : s[i] = p}
<1>1. CASE Contains(s, p)
  <2>1. PICK i \in 1 .. Len(s) : s[i] = p
    BY <1>1 DEF Contains
  <2>2. I = {i}
    BY <2>1 DEF Distinct
  <2> HIDE DEF I
  <2>3. Cardinality(I) = 1
    BY <2>2, FS_Singleton, Zenon
  <2> QED BY <2>3, <1>1 DEF I
<1>2. CASE ~Contains(s, p)
  <2>1. I = {}
    BY <1>2 DEF Contains
  <2> HIDE DEF I
  <2>2. Cardinality(I) = 0
    BY <2>1, FS_EmptySet, Zenon
  <2> QED BY <2>2, <1>2 DEF I
<1> QED BY <1>1, <1>2

LEMMA Conserved == IInv => PacketsConserved
<1> SUFFICES ASSUME IInv, NEW p \in Pkts PROVE Places(p) = 1
  BY DEF PacketsConserved
<1> DEFINE e == Content(EmptyPkt)
           f == Content(FullPkt)
           away == pc = "returning" /\ p \in held
           B == {i \in DOMAIN batch : batch[i] = p /\ ~away}
<1>1. /\ DOMAIN e = 1 .. Len(e) /\ DOMAIN f = 1 .. Len(f) /\ DOMAIN batch = 1 .. Len(batch)
  BY DEF IInv, RxInv, RxTyped
<1>2. /\ Distinct(e) /\ Distinct(f) /\ Distinct(batch)
      /\ ~(Contains(e, p) /\ Contains(f, p)) /\ ~(Contains(e, p) /\ Contains(batch, p))
      /\ ~(Contains(f, p) /\ Contains(batch, p))
      /\ p \in held => ~Contains(e, p) /\ ~Contains(f, p)
      /\ p \in held /\ pc # "returning" => ~Contains(batch, p)
      /\ Contains(e, p) \/ Contains(f, p) \/ Contains(batch, p) \/ p \in held
  BY DEF IInv, RxInv, RxPlaced, Apart
<1> HIDE DEF e, f
<1>3. Cardinality({i \in DOMAIN e : e[i] = p}) = IF Contains(e, p) THEN 1 ELSE 0
  BY <1>1, <1>2, OnePlace
<1>4. Cardinality({i \in DOMAIN f : f[i] = p}) = IF Contains(f, p) THEN 1 ELSE 0
  BY <1>1, <1>2, OnePlace
<1>5. Cardinality(B) = IF Contains(batch, p) /\ ~away THEN 1 ELSE 0
  <2>1. CASE away
    <3>1. B = {}
      BY <2>1
    <3> HIDE DEF B
    <3>2. Cardinality(B) = 0
      BY <3>1, FS_EmptySet, Zenon
    <3> QED BY <3>2, <2>1
  <2>2. CASE ~away
    <3>1. B = {i \in 1 .. Len(batch) : batch[i] = p}
      BY <1>1, <2>2
    <3> HIDE DEF B
    <3>2. Cardinality({i \in 1 .. Len(batch) : batch[i] = p}) = IF Contains(batch, p) THEN 1 ELSE 0
      BY <1>2, OnePlace
    <3> QED BY <3>1, <3>2, <2>2
  <2> QED BY <2>1, <2>2
<1>6. Places(p) = Cardinality({i \in DOMAIN e : e[i] = p}) + Cardinality({i \in DOMAIN f : f[i] = p})
                    + Cardinality(B) + (IF p \in held THEN 1 ELSE 0)
  BY Zenon DEF Places, e, f
<1> HIDE DEF B
<1> QED BY <1>2, <1>3, <1>4, <1>5, <1>6

(* No packet is lost or doubled in the queues, frames are handed up and    *)
(* calls are sent in order, and each packet is answered at most once.      *)
THEOREM DataIsSound == ASSUME Sizes PROVE Spec => []DataSound
<1>1. IInv => DataSound
  <2> SUFFICES ASSUME IInv PROVE DataSound
    OBVIOUS
  <2>1. PacketsConserved
    BY Conserved
  <2>2. SeenInOrder
    <3>1. Rising(seen) /\ DOMAIN seen = 1 .. Len(seen)
      BY DEF IInv, RxInv, RxTyped, RxOrdered, Way
    <3> QED BY <3>1 DEF SeenInOrder, Rising
  <2>3. AnsweredOnce
    <3>1. DOMAIN answers = Ids
      BY DEF IInv, TxInv, TxTyped, Ids
    <3> QED BY <3>1 DEF AnsweredOnce, IInv, TxInv, TxOnce
  <2>4. CallsInOrder
    <3>1. DOMAIN wire = 1 .. Len(wire) /\ \A i \in 1 .. Len(wire) : Calls[wire[i]] = sends[wire[i]].call
      BY DEF IInv, TxInv, TxTyped, Calls
    <3>2. InOrder(wire, Calls)
      BY DEF IInv, TxInv, TxOrdered
    <3> HIDE DEF Calls
    <3> QED BY <3>1, <3>2 DEF CallsInOrder, InOrder
  <2> QED BY <2>1, <2>2, <2>3, <2>4 DEF DataSound
<1>2. Spec => []IInv
  BY Invariance
<1> QED BY <1>1, <1>2, PTL
=============================================================================
