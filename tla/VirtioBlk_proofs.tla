-------------------------- MODULE VirtioBlk_proofs --------------------------
(***************************************************************************)
(* Safety of VirtioBlk for any number of threads, any requests, any ring   *)
(* size and any width of the ring indices.                                 *)
(***************************************************************************)
EXTENDS VirtioBlk, WellFoundedInduction, TLAPS

InCrit    == {"fill", "event", "publish", "kick", "wait", "ack", "intdone", "drain"}
Filling   == {"fill", "event", "publish"}
Published == {"kick", "wait", "ack", "intdone", "drain"}

(* The critical section is held by the one thread that is in a batch.      *)
CritInv == \A t \in Threads : pc[t] \in InCrit <=> crit = t

(* While a sector is added there is room for the longest one; every sector *)
(* took at least three descriptors.                                        *)
BatchInv ==
  \A t \in Threads :
    /\ desc_pos[t] <= Num
    /\ 3 * ops_counter[t] <= desc_pos[t]
    /\ pc[t] = "fill" => /\ handled[t] < NumSec(t)
                         /\ desc_pos[t] + Reserve <= Num
    /\ pc[t] \notin InCrit => desc_pos[t] = 0

(* What is published is not drained by exactly ops_counter entries.        *)
CounterInv ==
  /\ \A t \in Threads : pc[t] \in Filling => Sub(avail_idx[t], avail) = ops_counter[t]
  /\ \A t \in Threads : pc[t] \in Published => Sub(avail, last_used_idx) = ops_counter[t]
  /\ (\A t \in Threads : pc[t] \notin Published) => avail = last_used_idx

(* The four indices of the ring come in order.                             *)
QueueInv ==
  /\ Sub(avail, dev_avail) + Sub(dev_avail, used) + Sub(used, last_used_idx)
       = Sub(avail, last_used_idx)
  /\ Len(inflight) = Sub(dev_avail, used)

IInv == TypeOK /\ CritInv /\ BatchInv /\ CounterInv /\ QueueInv
-----------------------------------------------------------------------------
(* Ring indices: what a step of one or a difference of two yields.         *)
LEMMA IndexFacts ==
  /\ \A i \in Idx : Inc(i) \in Idx /\ Dec(i) \in Idx
  /\ \A a, b \in Idx : Sub(a, b) \in Idx /\ (Sub(a, b) = 0 <=> a = b)
  /\ \A a, b \in Idx : a # b => Sub(a, Inc(b)) = Sub(a, b) - 1
  /\ \A a, b \in Idx : Sub(a, b) + 1 < IdxMod => Sub(Inc(a), b) = Sub(a, b) + 1
BY SizesAssumption DEF Idx, Inc, Dec, Sub

(* idx & num_mask is a slot of the ring.                                   *)
LEMMA SlotInRing == \A i \in Idx : Slot(i) \in Pos
BY SizesAssumption DEF Idx, Slot, Pos

(* Taking one chain out of those in flight.                                *)
LEMMA RemoveAtFacts ==
  ASSUME NEW S, NEW s \in Seq(S), NEW i \in DOMAIN s
  PROVE  RemoveAt(s, i) \in Seq(S) /\ Len(RemoveAt(s, i)) = Len(s) - 1
BY DEF RemoveAt

(* An element of the second of two sequences.                              *)
LEMMA ConcatAt ==
  ASSUME NEW S, NEW A \in Seq(S), NEW B \in Seq(S), NEW n \in 1 .. Len(A) + Len(B), n > Len(A)
  PROVE  (A \o B)[n] = B[n - Len(A)]
<1>1. Len(A) \in Nat /\ Len(B) \in Nat /\ ~(n <= Len(A))
  OBVIOUS
<1> QED BY <1>1

(* Where the chains are that stay when the i-th is taken out.              *)
LEMMA RemoveAtPlaces ==
  ASSUME NEW S, NEW s \in Seq(S), NEW i \in DOMAIN s
  PROVE  /\ \A n \in DOMAIN RemoveAt(s, i) :
              /\ (IF n < i THEN n ELSE n + 1) \in DOMAIN s \ {i}
              /\ RemoveAt(s, i)[n] = s[IF n < i THEN n ELSE n + 1]
         /\ \A m \in DOMAIN s \ {i} : \E n \in DOMAIN RemoveAt(s, i) : RemoveAt(s, i)[n] = s[m]
<1>1. i \in 1 .. Len(s) /\ Len(s) \in Nat /\ DOMAIN s = 1 .. Len(s)
  OBVIOUS
<1>2. RemoveAt(s, i) \in Seq(S) /\ Len(RemoveAt(s, i)) = Len(s) - 1
  BY RemoveAtFacts
<1>3. ASSUME NEW n \in 1 .. Len(s) - 1
      PROVE  RemoveAt(s, i)[n] = s[IF n < i THEN n ELSE n + 1]
  <2>1. RemoveAt(s, i) = SubSeq(s, 1, i - 1) \o SubSeq(s, i + 1, Len(s))
    BY <1>1 DEF RemoveAt
  <2>2. /\ SubSeq(s, 1, i - 1) \in Seq(S) /\ Len(SubSeq(s, 1, i - 1)) = i - 1
        /\ SubSeq(s, i + 1, Len(s)) \in Seq(S) /\ Len(SubSeq(s, i + 1, Len(s))) = Len(s) - i
    BY <1>1
  <2>3. CASE n < i
    <3>1. n \in 1 .. i - 1
      BY <1>1, <2>3
    <3>2. SubSeq(s, 1, i - 1)[n] = s[n]
      BY <1>1, <3>1
    <3> QED BY <2>1, <2>2, <2>3, <3>1, <3>2
  <2>4. CASE ~(n < i)
    <3>1. n - (i - 1) \in 1 .. Len(s) - i
      BY <1>1, <2>4
    <3>2. SubSeq(s, i + 1, Len(s))[n - (i - 1)] = s[n + 1]
      BY <1>1, <3>1
    <3>3. PICK A \in Seq(S) : A = SubSeq(s, 1, i - 1)
      BY <2>2
    <3>4. PICK B \in Seq(S) : B = SubSeq(s, i + 1, Len(s))
      BY <2>2
    <3>5. n \in Nat /\ i \in Nat /\ Len(A) = i - 1 /\ Len(B) = Len(s) - i /\ n > Len(A)
          /\ n <= Len(A) + Len(B) /\ n \in 1 .. Len(A) + Len(B)
      BY <1>1, <2>2, <2>4, <3>3, <3>4
    <3>6. (A \o B)[n] = B[n - Len(A)]
      <4>1. A \in Seq(S) /\ B \in Seq(S)
        BY <3>3, <3>4
      <4> QED BY <3>5, <4>1, ConcatAt
    <3> QED BY <2>1, <2>4, <3>2, <3>3, <3>4, <3>5, <3>6
  <2> QED BY <2>3, <2>4
<1>4. \A n \in DOMAIN RemoveAt(s, i) :
              /\ (IF n < i THEN n ELSE n + 1) \in DOMAIN s \ {i}
              /\ RemoveAt(s, i)[n] = s[IF n < i THEN n ELSE n + 1]
  BY <1>1, <1>2, <1>3
<1>5. ASSUME NEW m \in DOMAIN s \ {i}
      PROVE  \E n \in DOMAIN RemoveAt(s, i) : RemoveAt(s, i)[n] = s[m]
  <2>1. CASE m < i
    <3>1. m \in 1 .. Len(s) - 1 /\ m \in DOMAIN RemoveAt(s, i)
      BY <1>1, <1>2, <2>1
    <3>2. RemoveAt(s, i)[m] = s[m]
      BY <1>3, <2>1, <3>1
    <3> QED BY <3>1, <3>2
  <2>2. CASE m > i
    <3>1. m - 1 \in 1 .. Len(s) - 1 /\ m - 1 \in DOMAIN RemoveAt(s, i) /\ ~(m - 1 < i)
          /\ (m - 1) + 1 = m
      BY <1>1, <1>2, <2>2
    <3>2. RemoveAt(s, i)[m - 1] = s[m]
      BY <1>3, <2>2, <3>1
    <3> QED BY <3>1, <3>2
  <2> QED BY <1>1, <2>1, <2>2
<1> QED BY <1>4, <1>5

(* The segments of a sector of an accepted request.                        *)
LEMMA SegmentFacts ==
  ASSUME TypeOK, NEW t \in Threads, handled[t] < NumSec(t)
  PROVE  /\ req[t].secs[handled[t] + 1] \in Seq(Nat)
         /\ Len(req[t].secs[handled[t] + 1]) \in 1 .. MaxSgBuf * 2
<1>1. req[t] \in Requests
  BY DEF TypeOK, CallTypes, NumSec, NoRequest
<1>2. handled[t] + 1 \in 1 .. Len(req[t].secs)
  BY <1>1, RequestsAssumption DEF TypeOK, CallTypes, NumSec
<1>3. req[t].secs \in Seq(Seq(Nat))
  BY <1>1, RequestsAssumption
<1>4. req[t].secs[handled[t] + 1] \in Seq(Nat)
  BY <1>2, <1>3
<1> QED BY <1>1, <1>2, <1>4, RequestsAssumption

(* A ring just set up by InitVirtioBlk satisfies the invariant.            *)
LEMMA InitIInv == Init => IInv
<1> SUFFICES ASSUME Init PROVE IInv
  OBVIOUS
<1> USE SizesAssumption, NoThreadAssumption DEF Init
<1>1. 0 \in Idx /\ 0 \in Pos /\ Sub(0, 0) = 0
  BY DEF Idx, Pos, Sub
<1>2. TypeOK
  <2>1. desc \in [Pos -> [op : (Threads \cup {NoThread}) \X Nat, len : Nat, next : Nat,
                        more : BOOLEAN]]
    BY DEF NoOp
  <2>2. inflight \in Seq(Pos) /\ req \in [Threads -> Requests \cup {NoRequest}]
    OBVIOUS
  <2>3. avail_ring \in [Pos -> Pos] /\ used_ring \in [Pos -> Pos]
    BY <1>1
  <2>4. tails \in [Pos -> {"unset", "ok", "err"}]
    OBVIOUS
  <2> QED BY <1>1, <2>1, <2>2, <2>3, <2>4 DEF TypeOK, CallTypes, Statuses, BatchTypes, RingTypes, IndexTypes, LineTypes
<1>3. CritInv /\ BatchInv
  BY DEF CritInv, BatchInv, InCrit, Reserve
<1>4. CounterInv /\ QueueInv
  BY <1>1 DEF CounterInv, QueueInv, Filling, Published
<1> QED BY <1>2, <1>3, <1>4 DEF IInv

(* Unlocking, whole or half way, keeps the types.                          *)
LEMMA UnlockTypes ==
  ASSUME CallTypes, NEW t \in Threads, NEW n \in Nat, NEW s \in Statuses,
         UnlockPages(t, n, s)
  PROVE  /\ locked' \in [Threads -> Nat] /\ pfns' \in [Threads -> BOOLEAN]
         /\ sr_status' \in [Threads -> Statuses]
         /\ pc' = [pc EXCEPT ![t] = "return"]
<1>1. pc' = [pc EXCEPT ![t] = "return"]
  BY DEF UnlockPages
<1>2. CASE /\ locked' = [locked EXCEPT ![t] = 0]
           /\ pfns' = [pfns EXCEPT ![t] = FALSE]
           /\ sr_status' = [sr_status EXCEPT ![t] = s]
  BY <1>1, <1>2 DEF CallTypes
<1>3. ASSUME NEW i \in 1 .. n, locked' = [locked EXCEPT ![t] = i],
             pfns' = [pfns EXCEPT ![t] = TRUE],
             sr_status' = [sr_status EXCEPT ![t] = "ERROR_GEN_FAILURE"]
      PROVE  /\ locked' \in [Threads -> Nat] /\ pfns' \in [Threads -> BOOLEAN]
             /\ sr_status' \in [Threads -> Statuses]
  BY <1>3 DEF CallTypes, Statuses
<1> QED BY <1>1, <1>2, <1>3 DEF UnlockPages

(* A request just submitted is in its type, untouched.                     *)
LEMMA RequestTypes ==
  ASSUME CallTypes, NEW t \in Threads
  PROVE  req[t].sgs \in Nat /\ NumSec(t) \in Nat
<1>1. CASE req[t] \in Requests
  BY <1>1, RequestsAssumption DEF NumSec
<1>2. CASE req[t] = NoRequest
  BY <1>2 DEF NoRequest, NumSec
<1> QED BY <1>1, <1>2 DEF CallTypes

(* Steps outside a batch.                                                  *)
LEMMA CallStep ==
  ASSUME IInv, NEW t \in Threads,
         \/ \E r \in Requests : Submit(t, r)
         \/ LockPages(t) \/ Finish(t) \/ Return(t)
  PROVE  IInv'
<1> USE DEF IInv
<1>1. /\ pc[t] \notin InCrit
      /\ pc'[t] \in {"lock", "loop", "return", "idle"}
      /\ pc' = [pc EXCEPT ![t] = pc'[t]]
      /\ UNCHANGED << batchVars, crit, ringVars, tails, devRing, devNotify, last_used_idx,
                      irqVars, kick, devVars, sigVars >>
      /\ handled'[t] \in Nat /\ handled' = [handled EXCEPT ![t] = handled'[t]]
      /\ \A u \in Threads \ {t} : req'[u] = req[u]
  BY DEF Submit, LockPages, Finish, Return, UnlockPages, workVars, InCrit, TypeOK, CallTypes
<1>2. TypeOK'
  <2>1. CallTypes'
    <3>1. ASSUME NEW r \in Requests, Submit(t, r) PROVE CallTypes'
      BY <3>1 DEF Submit, Refusal, TypeOK, CallTypes, Statuses, workVars
    <3>2. CASE LockPages(t)
      <4>1. CASE UnlockPages(t, req[t].sgs, "ERROR_INVALID_PARAMETER")
        BY <3>2, <4>1, RequestTypes, UnlockTypes
           DEF LockPages, TypeOK, CallTypes, workVars, Statuses
      <4>2. ASSUME NEW i \in 0 .. req[t].sgs - 1, UnlockPages(t, i, "ERROR_GEN_FAILURE")
            PROVE  CallTypes'
        BY <3>2, <4>2, RequestTypes, UnlockTypes
           DEF LockPages, TypeOK, CallTypes, workVars, Statuses
      <4>3. CASE locked' = [locked EXCEPT ![t] = req[t].sgs] /\ pc' = [pc EXCEPT ![t] = "loop"]
                   /\ UNCHANGED sr_status /\ pfns' = [pfns EXCEPT ![t] = TRUE]
        BY <3>2, <4>3, RequestTypes DEF LockPages, TypeOK, CallTypes, workVars
      <4> QED BY <3>2, <4>1, <4>2, <4>3 DEF LockPages
    <3>3. CASE Finish(t)
      BY <3>3, RequestTypes, UnlockTypes DEF Finish, TypeOK, CallTypes, workVars, Statuses
    <3>4. CASE Return(t)
      BY <3>4 DEF Return, TypeOK, CallTypes, Statuses
    <3> QED BY <3>1, <3>2, <3>3, <3>4
  <2> QED BY <1>1, <2>1 DEF TypeOK, BatchTypes, RingTypes, IndexTypes, LineTypes, batchVars,
             ringVars, devRing, devNotify, irqVars, devVars, sigVars
<1>3. CritInv'
  BY <1>1 DEF CritInv, InCrit, TypeOK, CallTypes
<1>4. BatchInv'
  BY <1>1 DEF BatchInv, InCrit, batchVars, NumSec, TypeOK, CallTypes
<1>5. CounterInv' /\ QueueInv'
  BY <1>1 DEF CounterInv, QueueInv, InCrit, Filling, Published, batchVars, ringVars, devRing,
              devVars, TypeOK, CallTypes
<1> QED BY <1>2, <1>3, <1>4, <1>5

(* Steps inside a batch that leave its counters and the ring alone.        *)
LEMMA QuietStep ==
  ASSUME IInv, NEW t \in Threads,
         SetUsedEvent(t) \/ Notify(t) \/ Wake(t) \/ Timeout(t) \/ Ack(t) \/ IntDone(t)
           \/ WaitMore(t)
  PROVE  IInv'
<1> USE DEF IInv
<1>1. /\ \/ pc[t] \in Filling /\ pc'[t] \in Filling \ {"fill"}
         \/ pc[t] \in Published /\ pc'[t] \in Published
      /\ pc' = [pc EXCEPT ![t] = pc'[t]]
      /\ UNCHANGED << callVars, workVars, batchVars, crit, desc, avail_ring, avail, tails, devRing,
                      devNotify, last_used_idx, devVars, sigVars >>
  BY DEF SetUsedEvent, Notify, Wake, Timeout, Ack, IntDone, WaitMore, Filling, Published, ringVars,
         irqVars, TypeOK, CallTypes
<1>2. /\ used_event' \in Idx
      /\ interrupt_ev' \in BOOLEAN /\ irq_masked' \in BOOLEAN /\ isr' \in BOOLEAN
      /\ kick' \in BOOLEAN
  <2>1. used_event' \in Idx
    <3>1. used_event \in Idx /\ avail_idx[t] \in Idx
      BY DEF TypeOK, IndexTypes, BatchTypes
    <3>2. Dec(avail_idx[t]) \in Idx
      BY <3>1, IndexFacts
    <3> QED BY <3>1, <3>2 DEF SetUsedEvent, LastEntry, Notify, Wake, Timeout, Ack, IntDone, WaitMore, ringVars
  <2>2. kick' \in BOOLEAN
    BY DEF SetUsedEvent, Notify, Wake, Timeout, Ack, IntDone, WaitMore, TypeOK, LineTypes
  <2>3. interrupt_ev' \in BOOLEAN /\ irq_masked' \in BOOLEAN /\ isr' \in BOOLEAN
    BY DEF SetUsedEvent, Notify, Wake, Timeout, Ack, IntDone, WaitMore, irqVars, TypeOK, LineTypes
  <2> QED BY <2>1, <2>2, <2>3
<1>3. TypeOK'
  <2>1. pc' \in [Threads -> {"idle", "lock", "loop", "fill", "event", "publish", "kick", "wait",
                            "ack", "intdone", "drain", "return"}]
    BY <1>1 DEF TypeOK, CallTypes, Filling, Published
  <2> QED BY <1>1, <1>2, <2>1 DEF TypeOK, CallTypes, BatchTypes, RingTypes, IndexTypes, LineTypes, callVars,
     workVars, batchVars, devRing, devNotify, devVars, sigVars, Filling, Published
<1>4. CritInv'
  BY <1>1 DEF CritInv, InCrit, Filling, Published, TypeOK, CallTypes
<1>5. BatchInv'
  BY <1>1 DEF BatchInv, InCrit, Filling, Published, batchVars, workVars, callVars, NumSec, TypeOK,
              CallTypes
<1>6. CounterInv' /\ QueueInv'
  BY <1>1 DEF CounterInv, QueueInv, Filling, Published, batchVars, devRing, devVars, TypeOK,
              CallTypes
<1> QED BY <1>3, <1>4, <1>5, <1>6

(* A batch begins with nothing published and nothing in the table.         *)
LEMMA EnterStep ==
  ASSUME IInv, NEW t \in Threads, Enter(t)
  PROVE  IInv'
<1> USE DEF IInv, Enter
<1>1. TypeOK'
  BY DEF TypeOK, CallTypes, BatchTypes, RingTypes, IndexTypes, LineTypes, callVars,
     workVars, batchVars, ringVars, irqVars, devRing, devNotify, devVars, sigVars
<1>2. CritInv'
  BY NoThreadAssumption DEF CritInv, InCrit, TypeOK, CallTypes
<1>3. BatchInv'
  BY SizesAssumption
     DEF BatchInv, InCrit, Reserve, NumSec, callVars, workVars, TypeOK, CallTypes, BatchTypes
<1>4. CounterInv'
  <2>1. \A u \in Threads : pc[u] \notin InCrit
    BY NoThreadAssumption DEF CritInv
  <2>2. ops_counter[t] = 0
    BY <2>1 DEF BatchInv, TypeOK, BatchTypes, Idx
  <2>3. avail_idx'[t] = avail /\ Sub(avail, avail) = 0
    BY IndexFacts DEF TypeOK, BatchTypes, IndexTypes
  <2> QED BY <2>1, <2>2, <2>3
          DEF CounterInv, InCrit, Filling, Published, ringVars, TypeOK, CallTypes
<1>5. QueueInv'
  BY DEF QueueInv, ringVars, devRing, devVars
<1> QED BY <1>1, <1>2, <1>3, <1>4, <1>5

(* A sector fits: there is room for its header, segments and status byte.  *)
LEMMA FillStep ==
  ASSUME IInv, NEW t \in Threads, FillSector(t)
  PROVE  IInv'
<1> DEFINE segs  == req[t].secs[handled[t] + 1]
           first == desc_pos[t]
           last  == first + Len(segs) + 1
           op    == << t, handled[t] + 1 >>
<1> USE DEF IInv
<1>1. /\ handled[t] < NumSec(t) /\ desc_pos[t] + Reserve <= Num
      /\ desc_pos[t] \in Nat /\ handled[t] \in Nat /\ ops_counter[t] \in Idx
      /\ avail_idx[t] \in Idx /\ NumSec(t) \in Nat
  BY RequestTypes DEF FillSector, BatchInv, TypeOK, CallTypes, BatchTypes
<1>2. /\ segs \in Seq(Nat) /\ Len(segs) \in 1 .. MaxSgBuf * 2
  BY <1>1, SegmentFacts
<1>3. /\ first \in Pos /\ last \in Nat /\ last + 1 <= Num /\ last >= first + 2
  <2>1. Len(segs) \in Nat /\ Len(segs) >= 1 /\ Len(segs) + 2 <= Reserve
    <3>1. MaxSgBuf * 2 \in Nat
      BY SizesAssumption
    <3>2. PICK n : n = Len(segs)
      OBVIOUS
    <3> HIDE DEF segs
    <3>3. n \in 1 .. MaxSgBuf * 2
      BY <1>2, <3>2, Zenon
    <3>4. n \in Nat /\ n >= 1 /\ n + 2 <= Reserve
      BY <3>1, <3>3 DEF Reserve
    <3> QED BY <3>2, <3>4, Zenon
  <2>2. first \in Nat /\ first + Reserve <= Num /\ Reserve \in Nat /\ Num \in Nat
    BY <1>1, SizesAssumption DEF Reserve
  <2> HIDE DEF segs, first
  <2> QED BY <2>1, <2>2 DEF Pos
<1>4. /\ desc_pos' = [desc_pos EXCEPT ![t] = last + 1]
      /\ handled' = [handled EXCEPT ![t] = handled[t] + 1]
      /\ ops_counter' = [ops_counter EXCEPT ![t] = Inc(ops_counter[t])]
      /\ avail_idx' = [avail_idx EXCEPT ![t] = Inc(avail_idx[t])]
      /\ pc[t] = "fill" /\ pc' = [pc EXCEPT ![t] = LeaveFill(t)]
      /\ UNCHANGED << callVars, ops_failure, prev_avail_idx, crit, avail, used_event, devRing,
                     devNotify, last_used_idx, irqVars, kick, devVars, sigVars, io >>
  BY DEF FillSector
<1>5. /\ LeaveFill(t) \in {"event", "fill"}
      /\ LeaveFill(t) = "fill" => handled[t] + 1 < NumSec(t) /\ last + 1 + Reserve <= Num
  <2>1. desc_pos'[t] = last + 1 /\ handled'[t] = handled[t] + 1
    BY <1>4 DEF TypeOK, CallTypes, BatchTypes
  <2>2. Reserve \in Nat /\ Num \in Nat
    BY SizesAssumption DEF Reserve
  <2>3. handled[t] + 1 # NumSec(t) => handled[t] + 1 < NumSec(t)
    BY <1>1
  <2> HIDE DEF last
  <2> QED BY <1>3, <2>1, <2>2, <2>3 DEF LeaveFill
<1>6. ops_counter[t] + 1 < IdxMod /\ Inc(ops_counter[t]) = ops_counter[t] + 1
  BY <1>1, SizesAssumption DEF BatchInv, Idx, Inc, Reserve
<1>7. TypeOK'
  <2>1. CallTypes'
    BY <1>1, <1>4, <1>5 DEF TypeOK, CallTypes, callVars
  <2>2. BatchTypes'
    <3>1. last + 1 \in Nat /\ Inc(ops_counter[t]) \in Idx /\ Inc(avail_idx[t]) \in Idx
      BY <1>1, <1>3, IndexFacts
    <3> HIDE DEF last
    <3> QED BY <1>4, <3>1 DEF TypeOK, BatchTypes
  <2>3. RingTypes'
    <3>1. avail_ring' \in [Pos -> Pos]
      BY <1>3 DEF FillSector, TypeOK, RingTypes
    <3>2. tails' \in [Pos -> {"unset", "ok", "err"}]
      BY DEF FillSector, TypeOK, RingTypes
    <3>3. ASSUME NEW p \in Pos, p \in first .. last
          PROVE  ChainDesc(p, first, last, op, segs)
                   \in [op : (Threads \cup {NoThread}) \X Nat, len : Nat, next : Nat,
                       more : BOOLEAN]
      <4>1. p \in Nat
        BY DEF Pos
      <4>2. p # first /\ p # last => segs[p - first] \in Nat
        <5> SUFFICES ASSUME p # first, p # last PROVE segs[p - first] \in Nat
          OBVIOUS
        <5>1. p - first \in 1 .. Len(segs)
          <6>1. first \in Nat /\ Len(segs) \in Nat
            BY <1>1, <1>2
          <6>2. p >= first /\ p <= first + Len(segs) + 1
            BY <3>3, <4>1, <6>1
          <6> HIDE DEF segs, first
          <6> QED BY <4>1, <6>1, <6>2 DEF last
        <5> HIDE DEF segs
        <5> QED BY <1>2, <5>1
      <4>3. (IF p = first THEN HeaderLen ELSE IF p = last THEN 1 ELSE segs[p - first]) \in Nat
        BY <4>2, SizesAssumption
      <4>4. op \in (Threads \cup {NoThread}) \X Nat /\ (IF p = last THEN 0 ELSE p + 1) \in Nat
        BY <1>1, <4>1
      <4> HIDE DEF op, segs, first, last
      <4> QED BY <4>3, <4>4 DEF ChainDesc
    <3>4. desc' = [p \in Pos |-> IF p \in first .. last
                                THEN ChainDesc(p, first, last, op, segs) ELSE desc[p]]
      BY DEF FillSector
    <3>5. desc' \in [Pos -> [op : (Threads \cup {NoThread}) \X Nat, len : Nat, next : Nat,
                           more : BOOLEAN]]
      <4> HIDE DEF op, segs, first, last
      <4> QED BY <3>3, <3>4 DEF TypeOK, RingTypes
    <3> QED BY <1>4, <3>1, <3>2, <3>5 DEF TypeOK, RingTypes, devVars, devRing
  <2> QED BY <1>4, <2>1, <2>2, <2>3
          DEF TypeOK, IndexTypes, LineTypes, devRing, devNotify, irqVars, devVars, sigVars
<1>8. CritInv'
  BY <1>4, <1>5 DEF CritInv, InCrit, TypeOK, CallTypes
<1>9. BatchInv'
  <2>1. ASSUME NEW u \in Threads, u # t
        PROVE  /\ desc_pos'[u] = desc_pos[u] /\ ops_counter'[u] = ops_counter[u]
               /\ pc'[u] = pc[u] /\ handled'[u] = handled[u] /\ NumSec(u)' = NumSec(u)
    BY <1>4, <2>1 DEF TypeOK, CallTypes, BatchTypes, NumSec, callVars
  <2>2. /\ desc_pos'[t] = last + 1 /\ ops_counter'[t] = ops_counter[t] + 1
        /\ pc'[t] = LeaveFill(t) /\ handled'[t] = handled[t] + 1 /\ NumSec(t)' = NumSec(t)
    BY <1>4, <1>6 DEF TypeOK, CallTypes, BatchTypes, NumSec, callVars
  <2>3. 3 * (ops_counter[t] + 1) <= last + 1
    BY <1>1, <1>3 DEF BatchInv, Idx
  <2> QED BY <1>3, <1>5, <2>1, <2>2, <2>3 DEF BatchInv, InCrit
<1>10. CounterInv'
  <2>1. \A u \in Threads : u # t => pc[u] \notin InCrit
    BY <1>4 DEF CritInv, InCrit
  <2>2. Sub(Inc(avail_idx[t]), avail) = Sub(avail_idx[t], avail) + 1
    BY <1>1, <1>4, <1>6, IndexFacts DEF CounterInv, Filling, TypeOK, IndexTypes
  <2>3. avail = last_used_idx
    BY <1>4, <2>1 DEF CounterInv, Published, InCrit
  <2>4. Sub(avail_idx'[t], avail') = ops_counter'[t]
    BY <1>4, <1>6, <2>2 DEF CounterInv, Filling, TypeOK, BatchTypes
  <2>5. \A u \in Threads : u # t => pc'[u] \notin Filling \cup Published
    BY <1>4, <2>1 DEF TypeOK, CallTypes, InCrit, Filling, Published
  <2>6. pc'[t] \in Filling
    BY <1>4, <1>5 DEF TypeOK, CallTypes, Filling
  <2> QED BY <1>4, <2>3, <2>4, <2>5, <2>6 DEF CounterInv, Filling, Published
<1>11. QueueInv'
  BY <1>4 DEF QueueInv, devRing, devVars
<1> QED BY <1>7, <1>8, <1>9, <1>10, <1>11

(* The batch is handed over while the queue is empty.                      *)
LEMMA PublishStep ==
  ASSUME IInv, NEW t \in Threads, Publish(t)
  PROVE  IInv'
<1> USE DEF IInv
<1>1. /\ pc[t] = "publish" /\ pc' = [pc EXCEPT ![t] = "kick"]
      /\ prev_avail_idx' = [prev_avail_idx EXCEPT ![t] = avail]
      /\ avail' = avail_idx[t]
      /\ UNCHANGED << callVars, workVars, avail_idx, desc_pos, ops_counter, crit, desc,
                      avail_ring, used_event, tails, devRing, devNotify, last_used_idx,
                      irqVars, kick, devVars, sigVars >>
  BY DEF Publish
<1>2. \A u \in Threads : u # t => pc[u] \notin InCrit
  BY <1>1 DEF CritInv, InCrit
<1>3. avail = last_used_idx /\ Sub(avail_idx[t], avail) = ops_counter[t]
  BY <1>1, <1>2 DEF CounterInv, Filling, Published, InCrit
<1>4. /\ avail \in Idx /\ dev_avail \in Idx /\ used \in Idx /\ last_used_idx \in Idx
      /\ avail_idx[t] \in Idx
  BY DEF TypeOK, IndexTypes, BatchTypes
<1>5. TypeOK'
  <2>1. CallTypes' /\ LineTypes'
    BY <1>1 DEF TypeOK, CallTypes, LineTypes, callVars, workVars, devNotify, irqVars, devVars, sigVars
  <2>2. BatchTypes' /\ IndexTypes'
    <3>1. BatchTypes'
      BY <1>1, <1>4 DEF TypeOK, BatchTypes
    <3>2. IndexTypes'
      BY <1>1, <1>4 DEF TypeOK, IndexTypes, devRing, devNotify, devVars, sigVars
    <3> QED BY <3>1, <3>2
  <2>3. RingTypes'
    BY <1>1 DEF TypeOK, RingTypes, devRing, devVars
  <2> QED BY <2>1, <2>2, <2>3 DEF TypeOK
<1>6. CritInv'
  BY <1>1 DEF CritInv, InCrit, TypeOK, CallTypes
<1>7. BatchInv'
  BY <1>1 DEF BatchInv, InCrit, callVars, workVars, NumSec, TypeOK, CallTypes
<1>8. CounterInv'
  BY <1>1, <1>2, <1>3 DEF CounterInv, Filling, Published, InCrit, TypeOK, CallTypes
<1>9. QueueInv'
  <2>1. dev_avail = avail /\ used = avail
    <3>1. Sub(avail, avail) = 0
      BY <1>4, IndexFacts
    <3>2. Sub(avail, dev_avail) \in Nat /\ Sub(dev_avail, used) \in Nat
          /\ Sub(used, last_used_idx) \in Nat
      BY <1>4, IndexFacts DEF Idx
    <3>3. Sub(avail, dev_avail) = 0 /\ Sub(dev_avail, used) = 0
      BY <1>3, <3>1, <3>2 DEF QueueInv
    <3> QED BY <1>4, <3>3, IndexFacts
  <2>2. Sub(avail, avail) = 0 /\ Sub(avail_idx[t], avail) \in Nat
    <3>1. Sub(avail, avail) = 0
      BY <1>4, IndexFacts
    <3>2. Sub(avail_idx[t], avail) \in Idx
      BY <1>4, IndexFacts
    <3> QED BY <3>1, <3>2 DEF Idx
  <2>3. Sub(avail_idx[t], dev_avail) + Sub(dev_avail, used) + Sub(used, last_used_idx)
          = Sub(avail_idx[t], last_used_idx)
    <3>1. Sub(dev_avail, used) = 0 /\ Sub(used, last_used_idx) = 0
      BY <1>3, <2>1, <2>2
    <3>2. Sub(avail_idx[t], dev_avail) = Sub(avail_idx[t], last_used_idx)
      BY <1>3, <2>1
    <3>3. Sub(avail_idx[t], dev_avail) \in Nat
      BY <2>1, <2>2
    <3> QED BY <3>1, <3>2, <3>3
  <2> QED BY <1>1, <2>3 DEF QueueInv, devRing, devVars
<1> QED BY <1>5, <1>6, <1>7, <1>8, <1>9

(* A used entry belongs to the batch that is waiting.                      *)
LEMMA DrainStep ==
  ASSUME IInv, NEW t \in Threads, DrainOne(t)
  PROVE  IInv'
<1> USE DEF IInv
<1>1. /\ pc[t] = "drain" /\ last_used_idx # used
      /\ ops_counter' = [ops_counter EXCEPT ![t] = Dec(ops_counter[t])]
      /\ last_used_idx' = Inc(last_used_idx)
      /\ ops_failure' \in [Threads -> BOOLEAN]
      /\ UNCHANGED << pc, callVars, handled, avail_idx, prev_avail_idx, desc_pos, crit, ringVars,
                      tails, devRing, devNotify, irqVars, kick, devVars, sigVars >>
  BY DEF DrainOne, Failed, TypeOK, CallTypes
<1>2. /\ avail \in Idx /\ dev_avail \in Idx /\ used \in Idx /\ last_used_idx \in Idx
      /\ ops_counter[t] \in Idx
  BY DEF TypeOK, IndexTypes, BatchTypes
<1>3. Sub(avail, last_used_idx) = ops_counter[t]
  BY <1>1 DEF CounterInv, Published
<1>4. /\ Sub(avail, dev_avail) \in Nat /\ Sub(dev_avail, used) \in Nat
      /\ Sub(used, last_used_idx) \in Nat /\ Sub(used, last_used_idx) # 0
  BY <1>1, <1>2, IndexFacts DEF Idx
<1>5. ops_counter[t] >= 1 /\ avail # last_used_idx
  <2>1. ops_counter[t] >= 1
    BY <1>2, <1>3, <1>4 DEF QueueInv, Idx
  <2> QED BY <1>2, <1>3, <2>1, IndexFacts
<1>6. Dec(ops_counter[t]) = ops_counter[t] - 1 /\ Dec(ops_counter[t]) \in Idx
      /\ Inc(last_used_idx) \in Idx
  BY <1>2, <1>5, IndexFacts DEF Dec
<1>7. /\ Sub(avail, Inc(last_used_idx)) = Sub(avail, last_used_idx) - 1
      /\ Sub(used, Inc(last_used_idx)) = Sub(used, last_used_idx) - 1
  BY <1>1, <1>2, <1>5, IndexFacts
<1>8. TypeOK'
  <2>1. BatchTypes' /\ IndexTypes'
    BY <1>1, <1>2, <1>6 DEF TypeOK, BatchTypes, IndexTypes, ringVars, devRing, devNotify, devVars,
       sigVars
  <2> QED BY <1>1, <2>1 DEF TypeOK, CallTypes, RingTypes, LineTypes, callVars, ringVars, devRing,
             devNotify, irqVars, devVars, sigVars
<1>9. CritInv'
  BY <1>1 DEF CritInv
<1>10. BatchInv'
  <2>1. 3 * Dec(ops_counter[t]) <= desc_pos[t]
    BY <1>2, <1>6 DEF BatchInv, TypeOK, BatchTypes, Idx
  <2> QED BY <1>1, <2>1 DEF BatchInv, callVars, NumSec, TypeOK, BatchTypes
<1>11. CounterInv'
  <2>1. \A u \in Threads : u # t => pc[u] \notin InCrit
    BY <1>1 DEF CritInv, InCrit
  <2>2. ops_counter'[t] = ops_counter[t] - 1
    BY <1>1, <1>6 DEF TypeOK, BatchTypes
  <2> QED BY <1>1, <1>3, <1>7, <2>1, <2>2 DEF CounterInv, Filling, Published, InCrit, ringVars
<1>12. QueueInv'
  <2>1. Sub(avail, dev_avail) + Sub(dev_avail, used) + Sub(used, Inc(last_used_idx))
          = Sub(avail, Inc(last_used_idx))
    BY <1>2, <1>3, <1>4, <1>7 DEF QueueInv, Idx
  <2> QED BY <1>1, <2>1 DEF QueueInv, ringVars, devRing, devVars
<1> QED BY <1>8, <1>9, <1>10, <1>11, <1>12

(* The critical section is left with nothing published.                    *)
LEMMA LeaveStep ==
  ASSUME IInv, NEW t \in Threads, Leave(t)
  PROVE  IInv'
<1> USE DEF IInv
<1>1. /\ pc[t] = "drain" /\ last_used_idx = used /\ ops_counter[t] = 0
      /\ pc' = [pc EXCEPT ![t] = "loop"] /\ crit' = NoThread
      /\ avail_idx' = [avail_idx EXCEPT ![t] = 0]
      /\ prev_avail_idx' = [prev_avail_idx EXCEPT ![t] = 0]
      /\ desc_pos' = [desc_pos EXCEPT ![t] = 0]
      /\ ops_counter' = [ops_counter EXCEPT ![t] = 0]
      /\ UNCHANGED << callVars, workVars, ringVars, tails, devRing, devNotify, last_used_idx,
                      irqVars, kick, devVars, sigVars >>
  BY DEF Leave, BatchDone
<1>2. \A u \in Threads : u # t => pc[u] \notin InCrit
  BY <1>1 DEF CritInv, InCrit
<1>3. 0 \in Idx
  BY SizesAssumption DEF Idx
<1>4. TypeOK'
  BY <1>1, <1>3 DEF TypeOK, CallTypes, BatchTypes, RingTypes, IndexTypes, LineTypes, callVars,
     workVars, ringVars, devRing, devNotify, irqVars, devVars, sigVars
<1>5. CritInv'
  BY <1>1, <1>2, NoThreadAssumption DEF CritInv, InCrit, TypeOK, CallTypes
<1>6. BatchInv'
  BY <1>1, SizesAssumption
     DEF BatchInv, InCrit, callVars, workVars, NumSec, TypeOK, CallTypes, BatchTypes
<1>7. avail = last_used_idx
  <2>1. Sub(avail, last_used_idx) = 0
    BY <1>1 DEF CounterInv, Published
  <2> QED BY <2>1, IndexFacts DEF TypeOK, IndexTypes
<1>8. CounterInv'
  BY <1>1, <1>2, <1>7 DEF CounterInv, Filling, Published, InCrit, ringVars, TypeOK, CallTypes
<1>9. QueueInv'
  BY <1>1 DEF QueueInv, ringVars, devRing, devVars
<1> QED BY <1>4, <1>5, <1>6, <1>8, <1>9

(* Steps of the interrupt and of the device that move no index.            *)
LEMMA LineStep ==
  ASSUME IInv,
         Interrupt \/ DevStart \/ DevLoseKick \/ DevRearm \/ DevSleep \/ DevSignal
  PROVE  IInv'
<1> USE DEF IInv
<1>1. UNCHANGED << pc, callVars, workVars, batchVars, crit, ringVars, tails, devRing,
                   last_used_idx, dev_avail, inflight >>
  BY DEF Interrupt, DevStart, DevLoseKick, DevRearm, DevSleep, DevSignal, devVars
<1>2. avail_event' \in Idx /\ signalled' \in Idx
  BY DEF Interrupt, DevStart, DevLoseKick, DevRearm, DevSleep, DevSignal, devVars, devNotify,
         sigVars, TypeOK, IndexTypes
<1>3. LineTypes'
  <2>1. no_notify' \in BOOLEAN /\ dev_mode' \in {"off", "on", "rearm"}
    BY SizesAssumption DEF Interrupt, DevStart, DevLoseKick, DevRearm, DevSleep, DevSignal,
       devVars, devNotify, TypeOK, LineTypes
  <2>2. interrupt_ev' \in BOOLEAN /\ irq_masked' \in BOOLEAN /\ isr' \in BOOLEAN
    BY DEF Interrupt, DevStart, DevLoseKick, DevRearm, DevSleep, DevSignal,
       irqVars, TypeOK, LineTypes
  <2>3. kick' \in BOOLEAN /\ sig_pending' \in BOOLEAN
    BY DEF Interrupt, DevStart, DevLoseKick, DevRearm, DevSleep, DevSignal,
       sigVars, TypeOK, LineTypes
  <2> QED BY <2>1, <2>2, <2>3 DEF LineTypes
<1>4. TypeOK'
  BY <1>1, <1>2, <1>3 DEF TypeOK, CallTypes, BatchTypes, RingTypes, IndexTypes, callVars,
     workVars, batchVars, ringVars, devRing
<1>5. CritInv' /\ BatchInv' /\ CounterInv' /\ QueueInv'
  BY <1>1 DEF CritInv, BatchInv, CounterInv, QueueInv, callVars, workVars, batchVars, ringVars,
     devRing, NumSec
<1> QED BY <1>4, <1>5

(* The device takes an entry: it moves from the published to the fetched.  *)
LEMMA FetchStep ==
  ASSUME IInv, DevFetch
  PROVE  IInv'
<1> USE DEF IInv
<1>1. /\ dev_avail # avail /\ dev_avail' = Inc(dev_avail)
      /\ inflight' = Append(inflight, avail_ring[Slot(dev_avail)])
      /\ UNCHANGED << pc, callVars, workVars, batchVars, crit, ringVars, tails, devRing,
                      devNotify, last_used_idx, irqVars, kick, dev_mode, sigVars >>
  BY DEF DevFetch
<1>2. avail \in Idx /\ dev_avail \in Idx /\ used \in Idx /\ last_used_idx \in Idx
  BY DEF TypeOK, IndexTypes
<1>3. inflight' \in Seq(Pos) /\ Len(inflight') = Len(inflight) + 1
  <2>1. avail_ring[Slot(dev_avail)] \in Pos
    BY <1>2, SlotInRing DEF TypeOK, RingTypes
  <2> QED BY <1>1, <2>1 DEF TypeOK, RingTypes
<1>4. TypeOK'
  BY <1>1, <1>2, <1>3, IndexFacts DEF TypeOK, CallTypes, BatchTypes, RingTypes, IndexTypes,
     LineTypes, callVars, workVars, batchVars, ringVars, devRing, devNotify, irqVars, sigVars
<1>5. CritInv' /\ BatchInv' /\ CounterInv'
  BY <1>1 DEF CritInv, BatchInv, CounterInv, callVars, workVars, batchVars, ringVars, NumSec
<1>6. QueueInv'
  <2>1. /\ Sub(avail, dev_avail) \in Nat /\ Sub(dev_avail, used) \in Nat
        /\ Sub(used, last_used_idx) \in Nat /\ Sub(avail, last_used_idx) \in 0 .. IdxMod - 1
        /\ Sub(avail, dev_avail) # 0
    BY <1>1, <1>2, IndexFacts DEF Idx
  <2>2. Sub(dev_avail, used) + 1 < IdxMod
    BY <2>1, SizesAssumption DEF QueueInv
  <2>3. /\ Sub(avail, Inc(dev_avail)) = Sub(avail, dev_avail) - 1
        /\ Sub(Inc(dev_avail), used) = Sub(dev_avail, used) + 1
    BY <1>1, <1>2, <2>2, IndexFacts
  <2>4. Sub(avail, Inc(dev_avail)) + Sub(Inc(dev_avail), used) + Sub(used, last_used_idx)
          = Sub(avail, last_used_idx)
    BY <2>1, <2>3 DEF QueueInv
  <2> QED BY <1>1, <1>3, <2>3, <2>4 DEF QueueInv, ringVars, devRing
<1> QED BY <1>4, <1>5, <1>6

(* The device completes a chain: it moves from the fetched to the used.    *)
LEMMA CompleteStep ==
  ASSUME IInv, NEW i \in DOMAIN inflight, NEW res \in {"ok", "err"}, DevComplete(i, res)
  PROVE  IInv'
<1> USE DEF IInv
<1>1. /\ inflight' = RemoveAt(inflight, i) /\ used' = Inc(used)
      /\ used_ring' = [used_ring EXCEPT ![Slot(used)] = inflight[i]]
      /\ tails' = [tails EXCEPT ![Chain(inflight[i])[Num - 1]] = res]
      /\ sig_pending' = TRUE
      /\ UNCHANGED << pc, callVars, workVars, batchVars, crit, ringVars, devNotify,
                      last_used_idx, irqVars, kick, dev_avail, dev_mode, signalled >>
  BY DEF DevComplete
<1>2. avail \in Idx /\ dev_avail \in Idx /\ used \in Idx /\ last_used_idx \in Idx
  BY DEF TypeOK, IndexTypes
<1>3. /\ inflight' \in Seq(Pos) /\ Len(inflight') = Len(inflight) - 1
      /\ inflight[i] \in Pos /\ Len(inflight) \in Nat /\ Len(inflight) >= 1
  <2>1. inflight \in Seq(Pos)
    BY DEF TypeOK, RingTypes
  <2> QED BY <1>1, <2>1, RemoveAtFacts
<1>4. TypeOK'
  <2>1. RingTypes'
    <3>1. tails' \in [Pos -> {"unset", "ok", "err"}]
      BY <1>1 DEF TypeOK, RingTypes
    <3>2. used_ring' \in [Pos -> Pos]
      BY <1>1, <1>3 DEF TypeOK, RingTypes
    <3> QED BY <1>1, <1>3, <3>1, <3>2 DEF TypeOK, RingTypes, ringVars
  <2> QED BY <1>1, <1>2, <2>1, IndexFacts DEF TypeOK, CallTypes, BatchTypes, IndexTypes,
             LineTypes, callVars, workVars, batchVars, ringVars, devNotify, irqVars
<1>5. CritInv' /\ BatchInv' /\ CounterInv'
  BY <1>1 DEF CritInv, BatchInv, CounterInv, callVars, workVars, batchVars, ringVars, NumSec
<1>6. QueueInv'
  <2>1. /\ Sub(avail, dev_avail) \in Nat /\ Sub(dev_avail, used) \in Nat
        /\ Sub(used, last_used_idx) \in Nat /\ Sub(avail, last_used_idx) \in 0 .. IdxMod - 1
    BY <1>2, IndexFacts DEF Idx
  <2>2. Sub(dev_avail, used) >= 1 /\ dev_avail # used
    BY <1>2, <1>3, <2>1, IndexFacts DEF QueueInv
  <2>3. Sub(used, last_used_idx) + 1 < IdxMod
    BY <2>1, <2>2, SizesAssumption DEF QueueInv
  <2>4. /\ Sub(dev_avail, Inc(used)) = Sub(dev_avail, used) - 1
        /\ Sub(Inc(used), last_used_idx) = Sub(used, last_used_idx) + 1
    BY <1>2, <2>2, <2>3, IndexFacts
  <2>5. Sub(avail, dev_avail) + Sub(dev_avail, Inc(used)) + Sub(Inc(used), last_used_idx)
          = Sub(avail, last_used_idx)
    BY <2>1, <2>4 DEF QueueInv
  <2> QED BY <1>1, <1>3, <2>4, <2>5 DEF QueueInv, ringVars
<1> QED BY <1>4, <1>5, <1>6

(* Every step keeps the invariant: one lemma for each kind of step.        *)
LEMMA NextIInv == IInv /\ [Next]_vars => IInv'
<1> SUFFICES ASSUME IInv, [Next]_vars PROVE IInv'
  OBVIOUS
<1>1. CASE UNCHANGED vars
  BY <1>1 DEF vars, callVars, workVars, batchVars, ringVars, irqVars, devRing, devNotify, devVars,
     sigVars, IInv, TypeOK, CallTypes, BatchTypes, RingTypes, IndexTypes, LineTypes, CritInv,
     BatchInv, CounterInv, QueueInv, NumSec
<1>2. ASSUME NEW t \in Threads, Step(t) \/ Timeout(t) \/ \E r \in Requests : Submit(t, r)
      PROVE  IInv'
  BY <1>2, CallStep, QuietStep, EnterStep, FillStep, PublishStep, DrainStep, LeaveStep DEF Step
<1>3. CASE Interrupt \/ DevWork \/ DevLoseKick
  BY <1>3, LineStep, FetchStep, CompleteStep DEF DevWork
<1> QED BY <1>1, <1>2, <1>3 DEF Next, InTime

(* The inductive invariant.                                                *)
THEOREM Invariance == Spec => []IInv
BY InitIInv, NextIInv, PTL DEF Spec

(* Every variable stays in its type: the ring indices of 16 bits, the      *)
(* descriptor indices in the table.                                        *)
THEOREM TypeCorrect == Spec => []TypeOK
<1>1. IInv => TypeOK
  BY DEF IInv
<1> QED BY <1>1, Invariance, PTL

(* d_DiskCardCrit: at most one thread works on the ring (virtio.c:289-417).*)
MutualExclusion == \A t, u \in Threads : pc[t] \in InCrit /\ pc[u] \in InCrit => t = u

(* Batches of different threads never overlap: the critical section is     *)
(* entered at virtio.c:289 and left at virtio.c:417 by each of them.       *)
THEOREM OneBatchAtATime == Spec => []MutualExclusion
<1>1. IInv => MutualExclusion
  BY DEF IInv, CritInv, MutualExclusion
<1> QED BY <1>1, Invariance, PTL

(* The split at virtio.c:353 keeps every batch inside the descriptor table.*)
THEOREM BatchesFit == Spec => []BatchFits
<1>1. IInv => BatchFits
  BY DEF IInv, BatchInv, BatchFits
<1> QED BY <1>1, Invariance, PTL

(* A thread leaves the critical section exactly when its own completions   *)
(* have been consumed, time-outs and wraps of the indices included         *)
(* (virtio.c:381-415).                                                     *)
THEOREM CompletionsMatched == Spec => []CounterMatches
<1>1. ASSUME IInv PROVE CounterMatches
  BY <1>1 DEF IInv, CounterInv, CounterMatches, Published
<1> QED BY <1>1, Invariance, PTL

(* While no batch is published the queue is empty.                         *)
LEMMA QueueEmpty ==
  ASSUME IInv, \A u \in Threads : pc[u] \notin Published
  PROVE  dev_avail = avail /\ inflight = << >> /\ OwnedHeads = {}
<1> USE DEF IInv
<1>1. avail = last_used_idx
  BY DEF CounterInv
<1>2. avail \in Idx /\ dev_avail \in Idx /\ used \in Idx
  BY DEF TypeOK, IndexTypes
<1>3. Sub(avail, dev_avail) = 0 /\ Sub(dev_avail, used) = 0
  <2>1. Sub(avail, avail) = 0 /\ Sub(avail, dev_avail) \in Nat /\ Sub(dev_avail, used) \in Nat
        /\ Sub(used, avail) \in Nat
    BY <1>2, IndexFacts DEF Idx
  <2> QED BY <1>1, <2>1 DEF QueueInv
<1>4. Unfetched = {}
  <2>1. \A i \in Idx : Sub(i, dev_avail) \in Nat
    BY <1>2, IndexFacts DEF Idx
  <2> QED BY <1>3, <2>1 DEF Unfetched
<1>5. dev_avail = avail /\ inflight = << >>
  BY <1>2, <1>3, IndexFacts DEF QueueInv, TypeOK, RingTypes
<1> QED BY <1>4, <1>5 DEF OwnedHeads, ToSet

(* While a batch is filled the device owns nothing.                        *)
LEMMA NothingOwnedWhileFilling ==
  ASSUME IInv, NEW t \in Threads, pc[t] = "fill"
  PROVE  OwnedPos = {}
<1>1. \A u \in Threads : pc[u] \notin Published
  <2>1. \A u \in Threads : u # t => pc[u] \notin InCrit
    BY DEF IInv, CritInv, InCrit
  <2> QED BY <2>1 DEF InCrit, Published
<1> QED BY <1>1, QueueEmpty DEF OwnedPos

(* A descriptor the device owns is never rewritten, for any number of      *)
(* threads and any batch (virtio.c:285: every batch starts at descriptor 0).*)
THEOREM OwnedDescriptorsUntouched == Spec => OwnedUntouched
<1>1. ASSUME IInv, [Next]_vars
      PROVE  [\A p \in OwnedPos : desc'[p] = desc[p]]_vars
  <2>1. ASSUME NEW t \in Threads, FillSector(t)
        PROVE  \A p \in OwnedPos : desc'[p] = desc[p]
    BY <1>1, <2>1, NothingOwnedWhileFilling DEF FillSector
  <2>2. CASE desc' = desc
    BY <2>2
  <2>3. (\E t \in Threads : FillSector(t)) \/ desc' = desc \/ vars' = vars
    BY <1>1 DEF Next, InTime, Step, DevWork, Submit, LockPages, Enter, SetUsedEvent, Publish, Notify,
       Wake, Timeout, Ack, IntDone, DrainOne, WaitMore, Leave, Finish, Return, Interrupt,
       DevStart, DevLoseKick, DevFetch, DevRearm, DevSleep, DevComplete, DevSignal, ringVars
  <2> QED BY <2>1, <2>2, <2>3
<1> QED BY <1>1, Invariance, PTL DEF Spec, OwnedUntouched
(* Pinned: a call has its pages from LockPages on until it gives them      *)
(* back, and no call that has yet to lock them has any.                    *)
PinInv ==
  \A t \in Threads :
    /\ pc[t] \in {"idle", "lock"} => ~pfns[t] /\ locked[t] = 0
    /\ pc[t] \in InCrit \cup {"loop"} => pfns[t] /\ locked[t] = req[t].sgs

(* Owned: every chain of a batch, offered or about to be, carries a sector *)
(* of the thread that holds the critical section.                          *)
FilledInv ==
  \A t \in Threads : pc[t] \in Filling =>
    \A i \in Idx : Sub(i, avail) < Sub(avail_idx[t], avail) =>
      desc[avail_ring[Slot(i)]].op[1] = t
OwnerInv ==
  \A t \in Threads : pc[t] \in Published => \A h \in OwnedHeads : desc[h].op[1] = t

PagesInv == PinInv /\ PagesReleased /\ FilledInv /\ OwnerInv

(* The steps of a call that have nothing to do with its pages.             *)
LEMMA PinKept ==
  ASSUME IInv, PinInv, PagesReleased, [Next]_vars
  PROVE  PinInv' /\ PagesReleased'
<1> USE DEF IInv, TypeOK, CallTypes
<1>1. ASSUME NEW t \in Threads, NEW r \in Requests, Submit(t, r)
      PROVE  PinInv' /\ PagesReleased'
  BY <1>1 DEF Submit, Refusal, PinInv, PagesReleased, InCrit
<1>2. ASSUME NEW t \in Threads, NEW n \in Nat, NEW s, UnlockPages(t, n, s), UNCHANGED req,
             n = 0 \/ n > 0
      PROVE  PinInv' /\ PagesReleased'
  BY <1>2 DEF UnlockPages, PinInv, PagesReleased, InCrit
<1>3. ASSUME NEW t \in Threads, LockPages(t) PROVE PinInv' /\ PagesReleased'
  <2>1. CASE /\ locked' = [locked EXCEPT ![t] = req[t].sgs]
             /\ pfns' = [pfns EXCEPT ![t] = TRUE]
             /\ pc' = [pc EXCEPT ![t] = "loop"]
             /\ UNCHANGED << sr_status, req >>
    BY <1>3, <2>1 DEF PinInv, PagesReleased, InCrit
  <2>2. \A i \in 0 .. req[t].sgs - 1 : i \in Nat
    BY RequestTypes
  <2> QED BY <1>2, <1>3, <2>1, <2>2, RequestTypes DEF LockPages
<1>4. ASSUME NEW t \in Threads, Finish(t) PROVE PinInv' /\ PagesReleased'
  BY <1>2, <1>4, RequestTypes DEF Finish
<1>5. ASSUME NEW t \in Threads, Return(t) PROVE PinInv' /\ PagesReleased'
  BY <1>5 DEF Return, PinInv, PagesReleased, InCrit
<1>6. ASSUME NEW t \in Threads, UNCHANGED callVars, pc' = [pc EXCEPT ![t] = pc'[t]],
             pc[t] \in InCrit \cup {"loop"}, pc'[t] \in InCrit \cup {"loop"}
      PROVE  PinInv' /\ PagesReleased'
  BY <1>6 DEF PinInv, PagesReleased, InCrit, callVars
<1>7. CASE UNCHANGED << pc, callVars >>
  BY <1>7 DEF PinInv, PagesReleased, callVars
<1>8. ASSUME NEW t \in Threads, Step(t) \/ Timeout(t) PROVE PinInv' /\ PagesReleased'
  <2>1. CASE Enter(t) \/ FillSector(t) \/ SetUsedEvent(t) \/ Publish(t) \/ Notify(t)
             \/ Wake(t) \/ Timeout(t) \/ Ack(t) \/ IntDone(t) \/ WaitMore(t) \/ Leave(t)
    BY <1>6, <2>1 DEF Enter, FillSector, LeaveFill, SetUsedEvent, Publish, Notify, Wake, Timeout,
       Ack, IntDone, WaitMore, Leave, InCrit
  <2>2. CASE DrainOne(t)
    BY <1>7, <2>2 DEF DrainOne
  <2> QED BY <1>3, <1>4, <1>5, <1>8, <2>1, <2>2 DEF Step
<1>9. CASE Interrupt \/ DevWork \/ DevLoseKick
  BY <1>7, <1>9 DEF Interrupt, DevWork, DevStart, DevLoseKick, DevFetch, DevRearm, DevSleep,
     DevComplete, DevSignal
<1>10. CASE UNCHANGED vars
  BY <1>7, <1>10 DEF vars
<1> QED BY <1>1, <1>8, <1>9, <1>10 DEF Next, InTime

(* A sector added to the batch is one more of its thread's.                *)
LEMMA FilledByFill ==
  ASSUME IInv, FilledInv, NEW t \in Threads, FillSector(t)
  PROVE  FilledInv' /\ OwnerInv'
<1> DEFINE first == desc_pos[t]
           last  == first + Len(req[t].secs[handled[t] + 1]) + 1
<1> USE DEF IInv
<1>1. /\ pc[t] = "fill" /\ pc' = [pc EXCEPT ![t] = LeaveFill(t)]
      /\ LeaveFill(t) \in {"event", "fill"}
      /\ avail_idx' = [avail_idx EXCEPT ![t] = Inc(avail_idx[t])] /\ avail' = avail
      /\ avail_ring' = [avail_ring EXCEPT ![Slot(avail_idx[t])] = first]
  BY DEF FillSector, LeaveFill
<1>2. /\ avail \in Idx /\ avail_idx[t] \in Idx /\ avail_ring \in [Pos -> Pos]
      /\ pc \in [Threads -> {"idle", "lock", "loop", "fill", "event", "publish", "kick", "wait",
                         "ack", "intdone", "drain", "return"}]
      /\ avail_idx \in [Threads -> Idx]
  BY DEF TypeOK, IndexTypes, BatchTypes, CallTypes, RingTypes
<1>3. first \in Pos /\ last >= first /\ first \in Nat /\ last \in Nat
  <2>1. /\ handled[t] < NumSec(t) /\ first + Reserve <= Num /\ first \in Nat
    BY DEF FillSector, BatchInv, TypeOK, BatchTypes
  <2>2. Len(req[t].secs[handled[t] + 1]) \in Nat
    BY <2>1, SegmentFacts
  <2>3. Reserve \in Nat /\ Reserve > 0
    BY SizesAssumption DEF Reserve
  <2> HIDE DEF first
  <2> QED BY <2>1, <2>2, <2>3, SizesAssumption DEF Pos
<1>4. \A p \in Pos : desc'[p].op[1] = t \/ desc'[p] = desc[p]
  <2> SUFFICES ASSUME NEW p \in Pos PROVE desc'[p].op[1] = t \/ desc'[p] = desc[p]
    OBVIOUS
  <2>1. CASE p \in first .. last
    BY <2>1 DEF FillSector, ChainDesc
  <2>2. CASE p \notin first .. last
    BY <2>2 DEF FillSector
  <2> QED BY <2>1, <2>2
<1>5. desc'[first].op[1] = t
  <2>1. first \in first .. last
    BY <1>3
  <2> QED BY <1>3, <2>1 DEF FillSector, ChainDesc
<1>6. \A u \in Threads : u # t => pc'[u] \notin InCrit
  BY <1>1, <1>2 DEF CritInv, InCrit
<1>7. Sub(Inc(avail_idx[t]), avail) = Sub(avail_idx[t], avail) + 1
  <2>1. Sub(avail_idx[t], avail) = ops_counter[t]
    BY <1>1 DEF CounterInv, Filling
  <2>2. ops_counter[t] + 1 < IdxMod
    BY <1>1, SizesAssumption DEF BatchInv, TypeOK, BatchTypes, Idx, Reserve
  <2> QED BY <1>2, <2>1, <2>2, IndexFacts
<1>8. ASSUME NEW i \in Idx, Sub(i, avail) < Sub(Inc(avail_idx[t]), avail)
      PROVE  desc'[avail_ring'[Slot(i)]].op[1] = t
  <2>1. Slot(i) \in Pos /\ avail_ring[Slot(i)] \in Pos
    BY <1>2, SlotInRing
  <2>2. CASE Slot(i) = Slot(avail_idx[t])
    <3>1. avail_ring'[Slot(i)] = first
      BY <1>1, <1>2, <2>1, <2>2
    <3> HIDE DEF first
    <3> QED BY <1>5, <3>1
  <2>3. CASE Slot(i) # Slot(avail_idx[t])
    <3>1. Sub(i, avail) < Sub(avail_idx[t], avail)
      <4>1. Sub(i, avail) # Sub(avail_idx[t], avail)
        <5>1. i # avail_idx[t]
          BY <2>3
        <5> QED BY <1>2, <5>1, SizesAssumption DEF Sub, Idx
      <4>2. Sub(i, avail) \in Int /\ Sub(avail_idx[t], avail) \in Int
        BY <1>2, IndexFacts DEF Idx
      <4> QED BY <1>7, <1>8, <4>1, <4>2
    <3>2. desc[avail_ring[Slot(i)]].op[1] = t
      BY <1>1, <3>1 DEF FilledInv, Filling
    <3> QED BY <1>1, <1>2, <1>4, <2>1, <2>3, <3>2
  <2> QED BY <2>2, <2>3
<1>9. FilledInv'
  BY <1>1, <1>2, <1>6, <1>8 DEF FilledInv, InCrit, Filling
<1>10. OwnerInv'
  BY <1>1, <1>2, <1>6 DEF OwnerInv, InCrit, Published
<1> QED BY <1>9, <1>10

(* What is published is what was filled.                                   *)
LEMMA OwnerByPublish ==
  ASSUME IInv, FilledInv, NEW t \in Threads, Publish(t)
  PROVE  FilledInv' /\ OwnerInv'
<1> USE DEF IInv
<1>1. /\ pc[t] = "publish" /\ pc' = [pc EXCEPT ![t] = "kick"] /\ avail' = avail_idx[t]
      /\ UNCHANGED << desc, avail_ring, dev_avail, inflight >>
  BY DEF Publish, devVars
<1>2. \A u \in Threads : u # t => pc[u] \notin InCrit
  BY <1>1 DEF CritInv, InCrit
<1>3. dev_avail = avail /\ inflight = << >>
  BY <1>1, <1>2, QueueEmpty DEF InCrit, Published
<1>4. \A h \in OwnedHeads' : desc[h].op[1] = t
  <2>1. \A i \in Unfetched' : desc[avail_ring[Slot(i)]].op[1] = t
    BY <1>1, <1>3 DEF Unfetched, FilledInv, Filling
  <2> QED BY <1>1, <1>3, <2>1 DEF OwnedHeads, ToSet
<1>5. FilledInv' /\ OwnerInv'
  BY <1>1, <1>2, <1>4 DEF FilledInv, OwnerInv, InCrit, Filling, Published, TypeOK, CallTypes
<1> QED BY <1>5

(* The device moves chains from one end of the queue to the other.         *)
LEMMA OwnedByDevice ==
  ASSUME IInv, DevFetch \/ \E i \in DOMAIN inflight, res \in {"ok", "err"} : DevComplete(i, res)
  PROVE  OwnedHeads' \subseteq OwnedHeads
<1> USE DEF IInv
<1>1. avail \in Idx /\ dev_avail \in Idx /\ inflight \in Seq(Pos)
  BY DEF TypeOK, IndexTypes, RingTypes
<1>2. CASE DevFetch
  <2>1. /\ dev_avail # avail /\ dev_avail' = Inc(dev_avail)
        /\ inflight' = Append(inflight, avail_ring[Slot(dev_avail)])
        /\ UNCHANGED << avail, avail_ring >>
    BY <1>2 DEF DevFetch, ringVars
  <2>2. dev_avail \in Unfetched
    BY <1>1, <2>1, IndexFacts DEF Unfetched, Idx
  <2>3. Unfetched' \subseteq Unfetched
    <3> SUFFICES ASSUME NEW i \in Idx, Sub(i, Inc(dev_avail)) < Sub(avail, Inc(dev_avail))
                 PROVE  Sub(i, dev_avail) < Sub(avail, dev_avail)
      BY <2>1 DEF Unfetched
    <3>1. i # dev_avail
      BY <1>1, <2>1, SizesAssumption DEF Sub, Inc, Idx
    <3> QED BY SMTT(30), <1>1, <2>1, <3>1, IndexFacts DEF Idx
  <2>4. ToSet(inflight') \subseteq ToSet(inflight) \cup {avail_ring[Slot(dev_avail)]}
    BY <1>1, <2>1 DEF ToSet
  <2> QED BY <2>1, <2>2, <2>3, <2>4 DEF OwnedHeads
<1>3. ASSUME NEW i \in DOMAIN inflight, NEW res \in {"ok", "err"}, DevComplete(i, res)
      PROVE  OwnedHeads' \subseteq OwnedHeads
  <2>1. inflight' = RemoveAt(inflight, i) /\ UNCHANGED << avail, avail_ring, dev_avail >>
    BY <1>3 DEF DevComplete, ringVars
  <2>2. ToSet(inflight') \subseteq ToSet(inflight)
    <3>1. \A n \in DOMAIN inflight' : /\ (IF n < i THEN n ELSE n + 1) \in DOMAIN inflight
                                      /\ inflight'[n] = inflight[IF n < i THEN n ELSE n + 1]
      BY <1>1, <2>1, RemoveAtPlaces
    <3> QED BY <3>1, Zenon DEF ToSet
  <2> QED BY <2>1, <2>2 DEF OwnedHeads, Unfetched
<1> QED BY <1>2, <1>3

(* The other steps offer nothing and take nothing back.                    *)
LEMMA OwnerKept ==
  ASSUME IInv, FilledInv, OwnerInv, [Next]_vars
  PROVE  FilledInv' /\ OwnerInv'
<1> USE DEF IInv
<1>1. ASSUME NEW t \in Threads, pc' = [pc EXCEPT ![t] = pc'[t]],
             pc'[t] \in Filling => pc[t] \in Filling, pc'[t] \in Published => pc[t] \in Published,
             \A u \in Threads : u = t \/ avail_idx'[u] = avail_idx[u],
             pc'[t] \in Filling => avail_idx'[t] = avail_idx[t],
             UNCHANGED << desc, avail_ring, avail, dev_avail, inflight >>
      PROVE  FilledInv' /\ OwnerInv'
  <2>1. OwnedHeads' = OwnedHeads
    BY <1>1 DEF OwnedHeads, Unfetched
  <2>2. \A u \in Threads : /\ pc'[u] \in Filling => pc[u] \in Filling /\ avail_idx'[u] = avail_idx[u]
                           /\ pc'[u] \in Published => pc[u] \in Published
    BY <1>1 DEF TypeOK, CallTypes
  <2> QED BY <1>1, <2>1, <2>2 DEF FilledInv, OwnerInv
<1>2. ASSUME NEW t \in Threads,
             \/ \E r \in Requests : Submit(t, r)
             \/ LockPages(t) \/ Finish(t) \/ Return(t)
      PROVE  FilledInv' /\ OwnerInv'
  BY <1>1, <1>2 DEF Submit, LockPages, Finish, Return, UnlockPages, Filling, Published, TypeOK,
     CallTypes, ringVars, batchVars, devVars
<1>3. ASSUME NEW t \in Threads,
             SetUsedEvent(t) \/ Notify(t) \/ Wake(t) \/ Timeout(t) \/ Ack(t) \/ IntDone(t)
               \/ DrainOne(t) \/ WaitMore(t)
      PROVE  FilledInv' /\ OwnerInv'
  BY <1>1, <1>3 DEF SetUsedEvent, Notify, Wake, Timeout, Ack, IntDone, DrainOne, WaitMore, Filling,
     Published, TypeOK, CallTypes, ringVars, batchVars, devVars
<1>4. ASSUME NEW t \in Threads, Leave(t) PROVE FilledInv' /\ OwnerInv'
  BY <1>1, <1>4 DEF Leave, Filling, Published, TypeOK, CallTypes, BatchTypes, ringVars, devVars
<1>5. ASSUME NEW t \in Threads, Enter(t) PROVE FilledInv' /\ OwnerInv'
  <2>1. \A u \in Threads : u # t => pc'[u] \notin InCrit
    BY <1>5, NoThreadAssumption DEF Enter, CritInv, TypeOK, CallTypes
  <2>2. avail_idx'[t] = avail' /\ pc'[t] = "fill" /\ avail' = avail /\ avail \in Idx
    BY <1>5 DEF Enter, ringVars, TypeOK, BatchTypes, CallTypes, IndexTypes
  <2>3. \A i \in Idx : ~(Sub(i, avail) < Sub(avail, avail))
    BY <2>2, IndexFacts DEF Idx
  <2> QED BY <2>1, <2>2, <2>3 DEF FilledInv, OwnerInv, InCrit, Filling, Published
<1>6. ASSUME NEW t \in Threads, Step(t) \/ Timeout(t) \/ \E r \in Requests : Submit(t, r)
      PROVE  FilledInv' /\ OwnerInv'
  BY <1>2, <1>3, <1>4, <1>5, <1>6, FilledByFill, OwnerByPublish DEF Step
<1>7. CASE UNCHANGED << pc, batchVars, ringVars, dev_avail, inflight >>
  <2>1. OwnedHeads' = OwnedHeads
    BY <1>7 DEF OwnedHeads, Unfetched, ringVars
  <2> QED BY <1>7, <2>1 DEF FilledInv, OwnerInv, batchVars, ringVars
<1>8. CASE DevFetch \/ \E i \in DOMAIN inflight, res \in {"ok", "err"} : DevComplete(i, res)
  <2>1. UNCHANGED << pc, batchVars, ringVars >>
    BY <1>8 DEF DevFetch, DevComplete
  <2>2. OwnedHeads' \subseteq OwnedHeads
    BY <1>8, OwnedByDevice
  <2> QED BY <2>1, <2>2 DEF FilledInv, OwnerInv, batchVars, ringVars
<1>9. CASE Interrupt \/ DevStart \/ DevLoseKick \/ DevRearm \/ DevSleep \/ DevSignal
  BY <1>7, <1>9 DEF Interrupt, DevStart, DevLoseKick, DevRearm, DevSleep, DevSignal, devVars
<1>10. CASE UNCHANGED vars
  BY <1>7, <1>10 DEF vars, devVars
<1> QED BY <1>6, <1>8, <1>9, <1>10 DEF Next, InTime, DevWork

(* The pages of a request are locked before the device is told of its      *)
(* sectors and given back when it has used them all, whoever else works on *)
(* the ring; a call returns with all of them given back, or reports the    *)
(* failure that made it give up half way (virtio.c:260-273, 427-438).      *)
THEOREM PagesAreSafe == Spec => []PagesSafe
<1>1. Init => PagesInv
  <2>1. ASSUME Init PROVE PinInv /\ PagesReleased /\ FilledInv /\ OwnerInv
    BY <2>1 DEF Init, PinInv, PagesReleased, FilledInv, OwnerInv, InCrit, Filling, Published
  <2> QED BY <2>1 DEF PagesInv
<1>2. IInv /\ PagesInv /\ [Next]_vars => PagesInv'
  BY PinKept, OwnerKept DEF PagesInv
<1>3. ASSUME IInv, PagesInv PROVE PagesSafe
  <2>1. CASE \E u \in Threads : pc[u] \in Published
    BY <1>3, <2>1 DEF PagesInv, PinInv, OwnerInv, InCrit, Published, PagesPinned, PagesSafe
  <2>2. CASE \A u \in Threads : pc[u] \notin Published
    BY <1>3, <2>2, QueueEmpty DEF PagesInv, PagesPinned, PagesSafe
  <2> QED BY <2>1, <2>2
<1> QED BY <1>1, <1>2, <1>3, Invariance, PTL DEF Spec
-----------------------------------------------------------------------------
(* A set of naturals that is not empty has a least member: what stands in  *)
(* for induction below.                                                    *)
LEMMA LeastNat ==
  ASSUME NEW T, T \subseteq Nat, T # {}
  PROVE  \E x \in T : \A y \in T : x <= y
<1> DEFINE R == OpToRel(<, Nat)
<1>1. IsWellFoundedOn(R, Nat)
  BY NatLessThanWellFounded
<1>2. \A x, y \in Nat : x < y => << x, y >> \in R
  BY DEF OpToRel
<1> HIDE DEF R
<1>3. PICK x \in T : \A y \in T : ~(<< y, x >> \in R)
  BY <1>1, WFMin
<1>4. \A y \in T : ~(y < x)
  BY <1>2, <1>3
<1> QED BY <1>3, <1>4

(* Two functions on 0 .. n that begin alike, and of which each value makes *)
(* the next in the same way, are the same.                                 *)
Alike(f, g, n) ==
  f[0] = g[0] /\ \A k \in 1 .. n : f[k - 1] = g[k - 1] => f[k] = g[k]

(* Two definitions of the walk along a chain that begin alike and go on    *)
(* alike yield the same walk.                                              *)
LEMMA SameByStep ==
  ASSUME NEW n \in Nat, NEW f, NEW g, Alike(f, g, n)
  PROVE  \A k \in 0 .. n : f[k] = g[k]
<1> USE DEF Alike
<1> DEFINE T == {k \in 0 .. n : f[k] # g[k]}
<1> SUFFICES ASSUME T # {} PROVE FALSE
  OBVIOUS
<1>0. T \subseteq Nat
  OBVIOUS
<1>1. PICK x \in T : \A y \in T : x <= y
  <2> HIDE DEF T
  <2> QED BY <1>0, LeastNat
<1>2. x \in 1 .. n /\ x - 1 \in 0 .. n
  BY <1>1
<1>3. f[x - 1] = g[x - 1]
  BY <1>1, <1>2
<1> QED BY <1>1, <1>2, <1>3

(* A chain as a batch lays it: descriptors that follow each other from h   *)
(* to last, of one sector, whose lengths, the last apart, are those of a   *)
(* header and a sector.                                                    *)
Laid(h, last) ==
  /\ h \in Pos /\ last \in Pos /\ h < last
  /\ \A p \in h .. last : desc[p].op = desc[h].op /\ desc[p].more = (p # last)
  /\ \A p \in h .. last - 1 : desc[p].next = p + 1
  /\ \E left \in [h .. last -> 0 .. HeaderLen + SectorLen] :
       /\ left[h] = HeaderLen + SectorLen /\ left[last] = 0
       /\ \A p \in h .. last - 1 : left[p] # 0 /\ left[p + 1] = left[p] - desc[p].len

(* The device follows the NEXT flags of a chain to its last descriptor.    *)
LEMMA LaidChain ==
  ASSUME NEW h, NEW last, Laid(h, last)
  PROVE  Chain(h) = [n \in 0 .. Num - 1 |-> IF h + n <= last THEN h + n ELSE last]
<1> DEFINE Hop == CHOOSE f : f = [n \in 0 .. Num - 1 |-> 
                      IF n = 0 THEN h
                      ELSE LET p == f[n - 1] IN IF desc[p].more THEN desc[p].next ELSE p]
           W == [n \in 0 .. Num - 1 |-> IF h + n <= last THEN h + n ELSE last]
<1>1. Chain(h) = [n \in 0 .. Num - 1 |-> Hop[n]]
  BY Zenon DEF Chain
<1>2. h \in Nat /\ last \in Nat /\ h < last /\ last < Num /\ Num \in Nat
  BY SizesAssumption DEF Laid, Pos
<1>3. ASSUME NEW n \in 1 .. Num - 1
      PROVE  W[n] = IF desc[W[n - 1]].more THEN desc[W[n - 1]].next ELSE W[n - 1]
  <2>1. W[n - 1] = IF h + (n - 1) <= last THEN h + (n - 1) ELSE last
    BY <1>2
  <2>2. W[n] = IF h + n <= last THEN h + n ELSE last
    BY <1>2
  <2>3. CASE h + n <= last
    <3>1. W[n - 1] \in h .. last - 1 /\ W[n - 1] \in h .. last /\ W[n - 1] # last
          /\ W[n - 1] + 1 = W[n]
      BY <1>2, <2>1, <2>2, <2>3
    <3> HIDE DEF W
    <3> QED BY <3>1 DEF Laid
  <2>4. CASE ~(h + n <= last)
    <3>1. W[n - 1] = last /\ W[n] = last /\ last \in h .. last
      BY <1>2, <2>1, <2>2, <2>4
    <3> HIDE DEF W
    <3> QED BY <3>1 DEF Laid
  <2> QED BY <2>3, <2>4
<1>4. W = [n \in 0 .. Num - 1 |-> 
                      IF n = 0 THEN h
                      ELSE LET p == W[n - 1] IN IF desc[p].more THEN desc[p].next ELSE p]
  <2>1. ASSUME NEW n \in 0 .. Num - 1
        PROVE  W[n] = IF n = 0 THEN h ELSE LET p == W[n - 1] IN IF desc[p].more THEN desc[p].next ELSE p
    <3>1. W[0] = h
      BY <1>2
    <3>2. n # 0 => n \in 1 .. Num - 1
      BY <1>2
    <3> HIDE DEF W
    <3> QED BY <1>3, <3>1, <3>2
  <2>2. W = [n \in 0 .. Num - 1 |-> W[n]]
    OBVIOUS
  <2> HIDE DEF W
  <2> QED BY <2>1, <2>2
<1>5. Hop = [n \in 0 .. Num - 1 |-> 
                      IF n = 0 THEN h
                      ELSE LET p == Hop[n - 1] IN IF desc[p].more THEN desc[p].next ELSE p]
  <2> HIDE DEF W
  <2> QED BY <1>4, Zenon
<1>6. \A n \in 0 .. Num - 1 : Hop[n] = W[n]
  <2> HIDE DEF Hop, W
  <2>1. Num - 1 \in Nat /\ 0 \in 0 .. Num - 1
    BY <1>2
  <2>2. Hop[0] = W[0]
    BY <1>4, <1>5, <2>1
  <2>3. ASSUME NEW k \in 1 .. Num - 1, Hop[k - 1] = W[k - 1]
        PROVE  Hop[k] = W[k]
    <3>1. k \in 0 .. Num - 1 /\ k # 0
      BY <1>2
    <3>2. Hop[k] = LET p == Hop[k - 1] IN IF desc[p].more THEN desc[p].next ELSE p
      BY <1>5, <3>1
    <3>3. W[k] = LET p == W[k - 1] IN IF desc[p].more THEN desc[p].next ELSE p
      BY <1>4, <3>1
    <3> QED BY <2>3, <3>2, <3>3
  <2>4. Alike(Hop, W, Num - 1)
    BY <2>2, <2>3 DEF Alike
  <2> QED BY <2>1, <2>4, SameByStep
<1>7. [n \in 0 .. Num - 1 |-> Hop[n]] = [n \in 0 .. Num - 1 |-> W[n]]
  <2> HIDE DEF Hop, W
  <2> QED BY <1>6
<1> QED BY <1>1, <1>7

(* Walking past the header and 512 bytes, the drain loop of                *)
(* virtio.c:396-407 ends at the status byte of that very chain.            *)
LEMMA LaidStatus ==
  ASSUME NEW h, NEW last, Laid(h, last)
  PROVE  StatusPos(h) = last
<1> DEFINE Walk == CHOOSE f : f = [n \in 0 .. Num |-> 
               IF n = 0 THEN << h, HeaderLen + SectorLen >>
               ELSE LET w == f[n - 1]
                    IN IF w[2] = 0 THEN w ELSE << desc[w[1]].next, w[2] - desc[w[1]].len >>]
<1>1. StatusPos(h) = Walk[Num][1]
  BY Zenon DEF StatusPos
<1>2. h \in Nat /\ last \in Nat /\ h < last /\ last < Num /\ Num \in Nat
  BY SizesAssumption DEF Laid, Pos
<1>3. PICK left \in [h .. last -> 0 .. HeaderLen + SectorLen] :
        /\ left[h] = HeaderLen + SectorLen /\ left[last] = 0
        /\ \A p \in h .. last - 1 : left[p] # 0 /\ left[p + 1] = left[p] - desc[p].len
  BY DEF Laid
<1> DEFINE At(n) == IF h + n <= last THEN h + n ELSE last
           W == [n \in 0 .. Num |-> << At(n), left[At(n)] >>]
<1>4. ASSUME NEW n \in 1 .. Num
      PROVE  W[n] = IF W[n - 1][2] = 0 THEN W[n - 1] 
                    ELSE << desc[W[n - 1][1]].next, W[n - 1][2] - desc[W[n - 1][1]].len >>
  <2>1. W[n - 1] = << At(n - 1), left[At(n - 1)] >> /\ W[n] = << At(n), left[At(n)] >>
    BY <1>2
  <2>2. CASE h + n <= last
    <3>1. At(n - 1) \in h .. last - 1 /\ At(n) = At(n - 1) + 1
      BY <1>2, <2>2
    <3> HIDE DEF W, At
    <3>2. desc[At(n - 1)].next = At(n)
      BY <3>1 DEF Laid
    <3> QED BY <1>3, <2>1, <3>1, <3>2
  <2>3. CASE ~(h + n <= last)
    <3>1. At(n - 1) = last /\ At(n) = last
      BY <1>2, <2>3
    <3> HIDE DEF W, At
    <3> QED BY <1>3, <2>1, <3>1
  <2> QED BY <2>2, <2>3
<1>5. W = [n \in 0 .. Num |-> 
               IF n = 0 THEN << h, HeaderLen + SectorLen >>
               ELSE LET w == W[n - 1]
                    IN IF w[2] = 0 THEN w ELSE << desc[w[1]].next, w[2] - desc[w[1]].len >>]
  <2>1. ASSUME NEW n \in 0 .. Num
        PROVE  W[n] = IF n = 0 THEN << h, HeaderLen + SectorLen >>
               ELSE LET w == W[n - 1]
                    IN IF w[2] = 0 THEN w ELSE << desc[w[1]].next, w[2] - desc[w[1]].len >>
    <3>1. W[0] = << h, HeaderLen + SectorLen >>
      BY <1>2, <1>3
    <3>2. n # 0 => n \in 1 .. Num
      BY <1>2
    <3> HIDE DEF W
    <3> QED BY <1>4, <3>1, <3>2
  <2>2. W = [n \in 0 .. Num |-> W[n]]
    OBVIOUS
  <2> HIDE DEF W
  <2> QED BY <2>1, <2>2
<1>6. Walk = [n \in 0 .. Num |-> 
               IF n = 0 THEN << h, HeaderLen + SectorLen >>
               ELSE LET w == Walk[n - 1]
                    IN IF w[2] = 0 THEN w ELSE << desc[w[1]].next, w[2] - desc[w[1]].len >>]
  <2> HIDE DEF W
  <2> QED BY <1>5, Zenon
<1>7. \A n \in 0 .. Num : Walk[n] = W[n]
  <2> HIDE DEF Walk, W
  <2>1. 0 \in 0 .. Num
    BY <1>2
  <2>2. Walk[0] = W[0]
    BY <1>5, <1>6, <2>1
  <2>3. \A k \in 1 .. Num : Walk[k - 1] = W[k - 1] => Walk[k] = W[k]
    <3> SUFFICES ASSUME NEW k \in 1 .. Num, Walk[k - 1] = W[k - 1] PROVE Walk[k] = W[k]
      OBVIOUS
    <3>1. k \in 0 .. Num /\ k # 0
      BY <1>2
    <3>2. W[k] = LET w == W[k - 1]
                 IN IF w[2] = 0 THEN w ELSE << desc[w[1]].next, w[2] - desc[w[1]].len >>
      BY <1>5, <3>1
    <3>3. Walk[k] = LET w == Walk[k - 1]
                    IN IF w[2] = 0 THEN w ELSE << desc[w[1]].next, w[2] - desc[w[1]].len >>
      BY <1>6, <3>1
    <3> QED BY <3>2, <3>3, Zenon
  <2>4. Alike(Walk, W, Num)
    BY <2>2, <2>3 DEF Alike
  <2> QED BY <1>2, <2>4, SameByStep
<1>8. W[Num] = << last, 0 >>
  BY <1>2, <1>3
<1>9. Walk[Num] = W[Num]
  <2> HIDE DEF Walk, W
  <2> QED BY <1>2, <1>7
<1> HIDE DEF Walk, W
<1> QED BY <1>1, <1>8, <1>9

-----------------------------------------------------------------------------
(* Entries of the rings: added to the batch and not yet published, used    *)
(* and not yet drained.                                                    *)
Entry(i)     == avail_ring[Slot(i)]
UsedEntry(i) == used_ring[Slot(i)]
Added(t)     == {i \in Idx : Sub(i, avail) < Sub(avail_idx[t], avail)}
Undrained    == {i \in Idx : Sub(i, last_used_idx) < Sub(used, last_used_idx)}
Op(h)        == desc[h].op

(* A chain for a sector of t that is yet to be carried out, and one that   *)
(* has been, with the outcome at its end.                                  *)
ToDo(t, h, last) ==
  /\ Laid(h, last)
  /\ \E k \in 1 .. handled[t] : Op(h) = << t, k >> /\ io[t][k] = "todo"
Done(t, h, last) ==
  /\ Laid(h, last)
  /\ \E k \in 1 .. handled[t] : Op(h) = << t, k >> /\ io[t][k] = tails[last] /\ tails[last] # "unset"

(* A call: what the requests and the outcomes of its sectors have to do    *)
(* with how far it has got.                                                *)
CallInv ==
  /\ io = [t \in Threads |-> io[t]]
  /\ \A t \in Threads :
       /\ io[t] \in [1 .. NumSec(t) -> {"todo", "ok", "err"}]
       /\ handled[t] <= NumSec(t)
       /\ \A k \in 1 .. NumSec(t) : k > handled[t] => io[t][k] = "todo"
       /\ pc[t] \in {"idle", "lock"} => handled[t] = 0 /\ ~ops_failure[t]
       /\ pc[t] \notin {"idle", "return"} =>
            req[t] \in Requests /\ Refusal(req[t]) = "ERROR_IO_PENDING"
       /\ pc[t] \in InCrit \cup {"loop"} => req[t].aligned

(* What a batch has added are chains of different sectors, behind each     *)
(* other in the table.                                                     *)
AddedInv ==
  \A t \in Threads : pc[t] \in Filling =>
    /\ \A i \in Added(t) : \E last \in Pos : ToDo(t, Entry(i), last) /\ last < desc_pos[t]
    /\ \A i, j \in Added(t) : i # j => Op(Entry(i)) # Op(Entry(j))

(* What the device owes to the thread that waits: the chains it holds are  *)
(* for different sectors, none of them done, and those it has used carry   *)
(* their outcome.                                                          *)
Owed(t) ==
  /\ \A h \in OwnedHeads : \E last \in Pos : ToDo(t, h, last)
  /\ \A i, j \in Unfetched : i # j => Op(Entry(i)) # Op(Entry(j))
  /\ \A i \in Unfetched, n \in DOMAIN inflight : Op(Entry(i)) # Op(inflight[n])
  /\ \A m, n \in DOMAIN inflight : m # n => Op(inflight[m]) # Op(inflight[n])
  /\ \A i \in Undrained : \E last \in Pos : Done(t, UsedEntry(i), last)
DeviceInv == \A t \in Threads : pc[t] \in Published => Owed(t)

(* ops_failure: a sector failed, and every failure not yet drained can     *)
(* still be found in the used ring.                                        *)
FailureInv ==
  \A t \in Threads : pc[t] \in InCrit \cup {"loop"} =>
    /\ ops_failure[t] => \E k \in 1 .. handled[t] : io[t][k] = "err"
    /\ \A k \in 1 .. handled[t] : io[t][k] = "err" =>
         ops_failure[t] \/ \E i \in Undrained : Op(UsedEntry(i)) = << t, k >>

(* No sector that was added is forgotten.                                  *)
Remembered(t, k) ==
  \/ pc[t] \in Filling /\ \E i \in Added(t) : Op(Entry(i)) = << t, k >>
  \/ pc[t] \in Published /\ \E h \in OwnedHeads : Op(h) = << t, k >>
TodoInv ==
  \A t \in Threads : pc[t] \in InCrit \cup {"loop"} =>
    \A k \in 1 .. handled[t] : io[t][k] = "todo" => Remembered(t, k)

(* The strengthening the promise to the callers rests on.                  *)
ServiceInv == CallInv /\ AddedInv /\ DeviceInv /\ FailureInv /\ TodoInv

(* The only multiple of n that is less than n from zero is zero.           *)
LEMMA SmallMultiple ==
  ASSUME NEW n \in Nat, n > 0, NEW d \in Int, n * d < n, 0 - n < n * d
  PROVE  d = 0
<1>1. CASE d >= 1
  <2>1. n * d >= n * 1
    BY <1>1, Z3
  <2> QED BY <2>1
<1>2. CASE d <= -1
  <2>1. n * d <= n * (-1)
    BY <1>2, Z3
  <2> QED BY <2>1
<1> QED BY <1>1, <1>2

(* Products of which one factor is common.                                 *)
LEMMA Products ==
  ASSUME NEW a \in Int, NEW b \in Int, NEW c \in Int, NEW d \in Int
  PROVE  /\ a * b - a * c = a * (b - c)
         /\ (a * b - a * c) + a * d = a * (b - c + d)
         /\ (a * b - a * c) - a * d = a * (b - c - d)
<1>1. a * b - a * c = a * (b - c)
  BY Z3
<1>2. (a * b - a * c) + a * d = a * (b - c + d)
  BY Z3
<1>3. (a * b - a * c) - a * d = a * (b - c - d)
  BY Z3
<1> QED BY <1>1, <1>2, <1>3

(* Indices that are less than the ring apart have slots of their own: Num  *)
(* divides IdxMod.                                                         *)
LEMMA SlotsApart ==
  ASSUME NEW a \in Idx, NEW i \in Idx, NEW j \in Idx, i # j,
         Sub(i, a) < Num, Sub(j, a) < Num
  PROVE  Slot(i) # Slot(j)
<1> SUFFICES ASSUME i % Num = j % Num PROVE FALSE
  BY DEF Slot
<1>1. Num \in Nat /\ Num > 0 /\ IdxMod \in Nat /\ IdxMod % Num = 0 /\ i \in Int /\ j \in Int
      /\ a \in Int
  BY SizesAssumption DEF Idx
<1>2. PICK q \in Int : IdxMod = Num * q
  <2>1. IdxMod \div Num \in Int /\ IdxMod = Num * (IdxMod \div Num) + (IdxMod % Num)
    BY <1>1
  <2> QED BY <1>1, <2>1
<1>3. PICK m \in Int, n \in Int : i - j = Num * m - Num * n
  <2>1. i \div Num \in Int /\ i = Num * (i \div Num) + (i % Num)
    BY <1>1
  <2>2. j \div Num \in Int /\ j = Num * (j \div Num) + (j % Num)
    BY <1>1
  <2>3. PICK m \in Int : m = i \div Num
    BY <2>1
  <2>4. PICK n \in Int : n = j \div Num
    BY <2>2
  <2>5. PICK r \in Int : r = j % Num
    BY <1>1
  <2>6. PICK x \in Int : x = Num * m
    BY <1>1
  <2>7. PICK y \in Int : y = Num * n
    BY <1>1
  <2>8. i = x + r /\ j = y + r
    BY <2>1, <2>2, <2>3, <2>4, <2>5, <2>6, <2>7
  <2>9. i - j = x - y
    BY <2>8
  <2> QED BY <2>6, <2>7, <2>9
<1>4. Sub(i, a) \in Nat /\ Sub(j, a) \in Nat
  BY IndexFacts DEF Idx
<1>5. PICK c \in {-1, 0, 1} : Sub(i, a) - Sub(j, a) = (i - j) + c * IdxMod
  BY <1>1 DEF Sub
<1>6. PICK x \in Nat, y \in Nat : Sub(i, a) = x /\ Sub(j, a) = y
  BY <1>4
<1>7. PICK d \in Int : x - y = Num * d
  <2>1. x - y = (i - j) + c * IdxMod
    BY <1>5, <1>6
  <2>2. CASE c = 0
    <3>1. x - y = Num * m - Num * n
      BY <1>1, <1>3, <2>1, <2>2
    <3>2. Num * m - Num * n = Num * (m - n)
      BY <1>1, Products
    <3> QED BY <3>1, <3>2
  <2>3. CASE c = 1
    <3>1. x - y = (Num * m - Num * n) + Num * q
      BY <1>1, <1>2, <1>3, <2>1, <2>3
    <3>2. (Num * m - Num * n) + Num * q = Num * (m - n + q)
      BY <1>1, Products
    <3> QED BY <3>1, <3>2
  <2>4. CASE c = -1
    <3>1. x - y = (Num * m - Num * n) - Num * q
      BY <1>1, <1>2, <1>3, <2>1, <2>4
    <3>2. (Num * m - Num * n) - Num * q = Num * (m - n - q)
      BY <1>1, Products
    <3> QED BY <3>1, <3>2
  <2> QED BY <2>2, <2>3, <2>4
<1>8. Num * d < Num /\ 0 - Num < Num * d
  BY <1>1, <1>6, <1>7
<1>9. d = 0
  BY <1>1, <1>8, SmallMultiple
<1>10. x = y
  BY <1>1, <1>7, <1>9
<1> QED BY <1>1, <1>6, <1>10, SizesAssumption DEF Sub, Idx

(* One thread is inside the critical section.                              *)
LEMMA Alone ==
  ASSUME IInv, NEW t \in Threads, pc[t] \in InCrit
  PROVE  \A u \in Threads : u # t => pc[u] \notin InCrit
BY DEF IInv, CritInv

(* A batch has less chains than the ring has slots.                        *)
LEMMA FewChains ==
  ASSUME IInv, NEW t \in Threads
  PROVE  ops_counter[t] \in Nat /\ ops_counter[t] < Num /\ ops_counter[t] + 1 < IdxMod
<1>1. ops_counter[t] \in Nat /\ desc_pos[t] \in Nat /\ desc_pos[t] <= Num
      /\ 3 * ops_counter[t] <= desc_pos[t]
  BY DEF IInv, BatchInv, TypeOK, BatchTypes, Idx
<1>2. PICK n \in Nat : n = ops_counter[t]
  BY <1>1
<1>3. 3 * n <= Num
  BY <1>1, <1>2, SizesAssumption
<1>4. Num \in Nat /\ IdxMod \in Nat /\ Num <= IdxMod /\ Num >= 2
  <2>1. MaxSgBuf \in Nat /\ Num >= MaxSgBuf * 2 + 2 /\ Num \in Nat /\ IdxMod \in Nat /\ Num <= IdxMod
    BY SizesAssumption DEF Reserve
  <2> QED BY <2>1
<1>5. n < Num /\ n + 1 < IdxMod
  BY <1>3, <1>4
<1> QED BY <1>2, <1>5

(* When all that was published has been drained there is nothing on the    *)
(* way.                                                                    *)
LEMMA Drained ==
  ASSUME IInv, avail = last_used_idx
  PROVE  /\ dev_avail = avail /\ used = avail /\ inflight = << >>
         /\ OwnedHeads = {} /\ Unfetched = {} /\ Undrained = {}
<1> USE DEF IInv
<1>1. avail \in Idx /\ dev_avail \in Idx /\ used \in Idx
  BY DEF TypeOK, IndexTypes
<1>2. Sub(avail, dev_avail) = 0 /\ Sub(dev_avail, used) = 0
  <2>1. Sub(avail, avail) = 0 /\ Sub(avail, dev_avail) \in Nat /\ Sub(dev_avail, used) \in Nat
        /\ Sub(used, avail) \in Nat
    BY <1>1, IndexFacts DEF Idx
  <2> QED BY <2>1 DEF QueueInv
<1>3. dev_avail = avail /\ used = avail /\ inflight = << >>
  BY <1>1, <1>2, IndexFacts DEF QueueInv, TypeOK, RingTypes
<1>4. \A i \in Idx : ~(Sub(i, avail) < Sub(avail, avail))
  BY <1>1, IndexFacts DEF Idx
<1> QED BY <1>3, <1>4 DEF OwnedHeads, Unfetched, Undrained, ToSet

(* While no batch is published, all is drained.                            *)
LEMMA IdleQueue ==
  ASSUME IInv, \A u \in Threads : pc[u] \notin Published
  PROVE  avail = last_used_idx
BY DEF IInv, CounterInv

(* What of the ring stays as it is.                                        *)
LEMMA SameRing ==
  ASSUME UNCHANGED << desc, avail_ring, avail, dev_avail, inflight, used_ring, used, last_used_idx >>
  PROVE  /\ OwnedHeads' = OwnedHeads /\ Unfetched' = Unfetched /\ Undrained' = Undrained
         /\ \A i : Entry(i)' = Entry(i) /\ UsedEntry(i)' = UsedEntry(i)
         /\ \A h : Op(h)' = Op(h)
         /\ \A h, last : Laid(h, last)' = Laid(h, last)
<1>1. OwnedHeads' = OwnedHeads /\ Unfetched' = Unfetched /\ Undrained' = Undrained
  BY DEF OwnedHeads, Unfetched, Undrained
<1>2. \A i : Entry(i)' = Entry(i) /\ UsedEntry(i)' = UsedEntry(i)
  BY DEF Entry, UsedEntry
<1>3. \A h : Op(h)' = Op(h)
  BY DEF Op
<1>4. \A h, last : Laid(h, last)' = Laid(h, last)
  BY DEF Laid
<1> QED BY <1>1, <1>2, <1>3, <1>4

(* The steps of a call outside its batches: nothing of the others' changes.*)
LEMMA OutsideStep ==
  ASSUME IInv, ServiceInv, NEW t \in Threads,
         pc[t] \notin InCrit, pc'[t] \notin InCrit, pc' = [pc EXCEPT ![t] = pc'[t]],
         \A u \in Threads : u # t =>
           req'[u] = req[u] /\ io'[u] = io[u] /\ handled'[u] = handled[u]
             /\ ops_failure'[u] = ops_failure[u],
         UNCHANGED << desc, avail_ring, avail, dev_avail, inflight, used_ring, used, last_used_idx,
                      tails, avail_idx, desc_pos >>
  PROVE  /\ AddedInv' /\ DeviceInv'
         /\ \A u \in Threads \ {t} :
              /\ io'[u] \in [1 .. NumSec(u)' -> {"todo", "ok", "err"}]
              /\ handled'[u] <= NumSec(u)'
              /\ \A k \in 1 .. NumSec(u)' : k > handled'[u] => io'[u][k] = "todo"
              /\ pc'[u] \in {"idle", "lock"} => handled'[u] = 0 /\ ~ops_failure'[u]
              /\ pc'[u] \notin {"idle", "return"} =>
                  req'[u] \in Requests /\ Refusal(req'[u]) = "ERROR_IO_PENDING"
              /\ pc'[u] \in InCrit \cup {"loop"} => req'[u].aligned
              /\ pc'[u] \in InCrit \cup {"loop"} =>
                  /\ ops_failure'[u] => \E k \in 1 .. handled'[u] : io'[u][k] = "err"
                  /\ \A k \in 1 .. handled'[u] : io'[u][k] = "err" =>
                       ops_failure'[u] \/ \E i \in Undrained' : Op(UsedEntry(i))' = << u, k >>
                  /\ \A k \in 1 .. handled'[u] : io'[u][k] = "todo" => Remembered(u, k)'
<1> USE DEF ServiceInv
<1>1. \A u \in Threads : u # t => pc'[u] = pc[u] /\ NumSec(u)' = NumSec(u)
  BY DEF IInv, TypeOK, CallTypes, NumSec
<1>2. pc[t] \notin Filling /\ pc[t] \notin Published /\ pc'[t] \notin Filling /\ pc'[t] \notin Published
  BY DEF InCrit, Filling, Published
<1>3. \A u \in Threads : Added(u)' = Added(u)
  BY DEF Added
<1>4. AddedInv'
  BY <1>1, <1>2, <1>3, SameRing DEF AddedInv, ToDo
<1>5. DeviceInv'
  BY <1>1, <1>2, SameRing DEF DeviceInv, Owed, ToDo, Done
<1>6. ASSUME NEW u \in Threads \ {t}
      PROVE  /\ io'[u] \in [1 .. NumSec(u)' -> {"todo", "ok", "err"}]
             /\ handled'[u] <= NumSec(u)'
             /\ \A k \in 1 .. NumSec(u)' : k > handled'[u] => io'[u][k] = "todo"
             /\ pc'[u] \in {"idle", "lock"} => handled'[u] = 0 /\ ~ops_failure'[u]
             /\ pc'[u] \notin {"idle", "return"} =>
                  req'[u] \in Requests /\ Refusal(req'[u]) = "ERROR_IO_PENDING"
             /\ pc'[u] \in InCrit \cup {"loop"} => req'[u].aligned
  BY <1>1 DEF CallInv
<1>7. ASSUME NEW u \in Threads \ {t}, pc'[u] \in InCrit \cup {"loop"}
      PROVE  /\ ops_failure'[u] => \E k \in 1 .. handled'[u] : io'[u][k] = "err"
             /\ \A k \in 1 .. handled'[u] : io'[u][k] = "err" =>
                  ops_failure'[u] \/ \E i \in Undrained' : Op(UsedEntry(i))' = << u, k >>
             /\ \A k \in 1 .. handled'[u] : io'[u][k] = "todo" => Remembered(u, k)'
  <2>1. ops_failure'[u] => \E k \in 1 .. handled'[u] : io'[u][k] = "err"
    BY <1>1, <1>7 DEF FailureInv
  <2>2. \A k \in 1 .. handled'[u] : io'[u][k] = "err" =>
                  ops_failure'[u] \/ \E i \in Undrained' : Op(UsedEntry(i))' = << u, k >>
    BY <1>1, <1>7, SameRing DEF FailureInv
  <2>3. \A k \in 1 .. handled'[u] : io'[u][k] = "todo" => Remembered(u, k)'
    BY <1>1, <1>3, <1>7, SameRing DEF TodoInv, Remembered
  <2> QED BY <2>1, <2>2, <2>3
<1> QED BY <1>4, <1>5, <1>6, <1>7

(* A call of DoDiskIO between its batches.                                 *)
LEMMA ServiceByCall ==
  ASSUME IInv, ServiceInv, NEW t \in Threads,
         \/ \E r \in Requests : Submit(t, r)
         \/ LockPages(t) \/ Finish(t) \/ Return(t)
  PROVE  ServiceInv'
<1> USE DEF IInv
<1>1. /\ pc[t] \notin InCrit
      /\ pc'[t] \in {"lock", "loop", "return", "idle"}
      /\ pc' = [pc EXCEPT ![t] = pc'[t]]
      /\ UNCHANGED << batchVars, crit, ringVars, tails, devRing, devNotify, last_used_idx,
                      irqVars, kick, devVars, sigVars >>
      /\ \A u \in Threads : u # t =>
           req'[u] = req[u] /\ io'[u] = io[u] /\ handled'[u] = handled[u]
             /\ ops_failure'[u] = ops_failure[u]
  <2>1. CASE \E r \in Requests : Submit(t, r)
    BY <2>1 DEF Submit, workVars, InCrit, TypeOK, CallTypes
  <2>2. CASE LockPages(t)
    BY <2>2 DEF LockPages, UnlockPages, workVars, InCrit, TypeOK, CallTypes
  <2>3. CASE Finish(t)
    BY <2>3 DEF Finish, UnlockPages, workVars, InCrit, TypeOK, CallTypes
  <2>4. CASE Return(t)
    BY <2>4 DEF Return, workVars, InCrit, TypeOK, CallTypes
  <2> QED BY <2>1, <2>2, <2>3, <2>4
<1>2. pc'[t] \notin InCrit
  BY <1>1 DEF InCrit
<1>3. UNCHANGED << desc, avail_ring, avail, dev_avail, inflight, used_ring, used, last_used_idx,
                   tails, avail_idx, desc_pos >>
  BY <1>1 DEF batchVars, ringVars, devRing, devVars
<1>4. /\ AddedInv' /\ DeviceInv'
      /\ \A u \in Threads \ {t} :
              /\ io'[u] \in [1 .. NumSec(u)' -> {"todo", "ok", "err"}]
              /\ handled'[u] <= NumSec(u)'
              /\ \A k \in 1 .. NumSec(u)' : k > handled'[u] => io'[u][k] = "todo"
              /\ pc'[u] \in {"idle", "lock"} => handled'[u] = 0 /\ ~ops_failure'[u]
              /\ pc'[u] \notin {"idle", "return"} =>
                  req'[u] \in Requests /\ Refusal(req'[u]) = "ERROR_IO_PENDING"
              /\ pc'[u] \in InCrit \cup {"loop"} => req'[u].aligned
              /\ pc'[u] \in InCrit \cup {"loop"} =>
                  /\ ops_failure'[u] => \E k \in 1 .. handled'[u] : io'[u][k] = "err"
                  /\ \A k \in 1 .. handled'[u] : io'[u][k] = "err" =>
                       ops_failure'[u] \/ \E i \in Undrained' : Op(UsedEntry(i))' = << u, k >>
                  /\ \A k \in 1 .. handled'[u] : io'[u][k] = "todo" => Remembered(u, k)'
  BY <1>1, <1>2, <1>3, OutsideStep
<1> DEFINE Own ==
              /\ io'[t] \in [1 .. NumSec(t)' -> {"todo", "ok", "err"}]
              /\ handled'[t] <= NumSec(t)'
              /\ \A k \in 1 .. NumSec(t)' : k > handled'[t] => io'[t][k] = "todo"
              /\ pc'[t] \in {"idle", "lock"} => handled'[t] = 0 /\ ~ops_failure'[t]
              /\ pc'[t] \notin {"idle", "return"} =>
                  req'[t] \in Requests /\ Refusal(req'[t]) = "ERROR_IO_PENDING"
              /\ pc'[t] = "loop" => req'[t].aligned /\ handled'[t] = 0 /\ ~ops_failure'[t]
<1>5. Own
  <2>1. ASSUME NEW r \in Requests, Submit(t, r) PROVE Own
    <3>1. /\ pc[t] = "idle" /\ handled' = handled /\ ops_failure' = ops_failure
          /\ req' = [req EXCEPT ![t] = r] /\ io' = [io EXCEPT ![t] = Untouched(r)]
          /\ pc'[t] = IF Refusal(r) = "ERROR_IO_PENDING" THEN "lock" ELSE "return"
      BY <2>1 DEF Submit, workVars, TypeOK, CallTypes
    <3>2. handled'[t] = 0 /\ ~ops_failure'[t]
      BY <3>1 DEF ServiceInv, CallInv
    <3>3. req'[t] = r
      BY <3>1 DEF TypeOK, CallTypes
    <3>4. NumSec(t)' = Len(r.secs) /\ Len(r.secs) \in Nat /\ DOMAIN r.secs = 1 .. Len(r.secs)
      BY <3>3, RequestsAssumption DEF NumSec
    <3>5. io'[t] = Untouched(r)
      <4>1. t \in DOMAIN io
        BY DEF ServiceInv, CallInv
      <4> QED BY <3>1, <4>1
    <3> QED BY <3>1, <3>2, <3>3, <3>4, <3>5 DEF Untouched
  <2>2. CASE LockPages(t)
    <3>1. /\ pc[t] = "lock" /\ handled' = handled /\ ops_failure' = ops_failure
          /\ req' = req /\ io' = io /\ pc'[t] \in {"loop", "return"}
          /\ pc'[t] = "loop" => req[t].aligned
      BY <2>2 DEF LockPages, UnlockPages, workVars, TypeOK, CallTypes
    <3> QED BY <3>1 DEF ServiceInv, CallInv, NumSec
  <2>3. CASE Finish(t)
    <3>1. /\ handled' = handled /\ ops_failure' = ops_failure
          /\ req' = req /\ io' = io /\ pc'[t] = "return"
      BY <2>3 DEF Finish, UnlockPages, workVars, TypeOK, CallTypes
    <3> QED BY <3>1 DEF ServiceInv, CallInv, NumSec
  <2>4. CASE Return(t)
    <3>1. /\ pc'[t] = "idle" /\ req'[t] = NoRequest /\ handled'[t] = 0 /\ ops_failure'[t] = FALSE
      BY <2>4 DEF Return, TypeOK, CallTypes
    <3>2. io'[t] = Untouched(NoRequest)
      <4>1. t \in DOMAIN io
        BY DEF ServiceInv, CallInv
      <4> QED BY <2>4, <4>1 DEF Return
    <3>3. NumSec(t)' = 0 /\ io'[t] = << >>
      BY <3>1, <3>2 DEF NumSec, NoRequest, Untouched
    <3> QED BY <3>1, <3>3
  <2> QED BY <2>1, <2>2, <2>3, <2>4
<1>6. CallInv'
  <2>0. io' = [u \in Threads |-> io'[u]]
    <3>1. io = [u \in Threads |-> io[u]]
      BY DEF ServiceInv, CallInv
    <3>2. io' = io \/ \E x : io' = [io EXCEPT ![t] = x]
      BY DEF Submit, LockPages, Finish, Return
    <3> QED BY <3>1, <3>2
  <2>1. ASSUME NEW u \in Threads
        PROVE  /\ io'[u] \in [1 .. NumSec(u)' -> {"todo", "ok", "err"}]
               /\ handled'[u] <= NumSec(u)'
               /\ \A k \in 1 .. NumSec(u)' : k > handled'[u] => io'[u][k] = "todo"
               /\ pc'[u] \in {"idle", "lock"} => handled'[u] = 0 /\ ~ops_failure'[u]
               /\ pc'[u] \notin {"idle", "return"} =>
                    req'[u] \in Requests /\ Refusal(req'[u]) = "ERROR_IO_PENDING"
               /\ pc'[u] \in InCrit \cup {"loop"} => req'[u].aligned
    <3>1. CASE u = t
      BY <1>2, <1>5, <3>1
    <3>2. CASE u # t
      BY <1>4, <3>2
    <3> QED BY <3>1, <3>2
  <2> HIDE DEF Own
  <2> QED BY <2>0, <2>1 DEF CallInv
<1>7. FailureInv' /\ TodoInv'
  <2>1. ASSUME NEW u \in Threads, pc'[u] \in InCrit \cup {"loop"}, u = t
        PROVE  handled'[u] = 0 /\ ~ops_failure'[u]
    BY <1>2, <1>5, <2>1
  <2>2. FailureInv'
    BY <1>4, <2>1 DEF FailureInv
  <2>3. TodoInv'
    BY <1>4, <2>1 DEF TodoInv
  <2> QED BY <2>2, <2>3
<1> QED BY <1>4, <1>6, <1>7 DEF ServiceInv

(* Steps that move neither a chain nor the outcome of a sector.            *)
LEMMA ServiceKept ==
  ASSUME ServiceInv,
         \A u \in Threads : \/ pc'[u] = pc[u]
                            \/ pc[u] \in Filling /\ pc'[u] \in Filling
                            \/ pc[u] \in Published /\ pc'[u] \in Published,
         UNCHANGED << req, io, handled, ops_failure, desc, avail_ring, avail, dev_avail, inflight,
                      used_ring, used, last_used_idx, tails, avail_idx, desc_pos >>
  PROVE  ServiceInv'
<1> USE DEF ServiceInv
<1>1. \A u \in Threads : /\ pc'[u] \in Filling <=> pc[u] \in Filling
                         /\ pc'[u] \in Published <=> pc[u] \in Published
                         /\ pc'[u] \in InCrit \cup {"loop"} <=> pc[u] \in InCrit \cup {"loop"}
                         /\ pc'[u] \in {"idle", "lock"} <=> pc[u] \in {"idle", "lock"}
                         /\ pc'[u] \in {"idle", "return"} <=> pc[u] \in {"idle", "return"}
  BY DEF Filling, Published, InCrit
<1>2. \A u \in Threads : Added(u)' = Added(u)
  BY DEF Added
<1>3. CallInv'
  BY <1>1 DEF CallInv, NumSec
<1>4. AddedInv'
  BY <1>1, <1>2, SameRing DEF AddedInv, ToDo
<1>5. DeviceInv'
  BY <1>1, SameRing DEF DeviceInv, Owed, ToDo, Done
<1>6. FailureInv'
  BY <1>1, SameRing DEF FailureInv
<1>7. TodoInv'
  BY <1>1, <1>2, SameRing DEF TodoInv, Remembered
<1> QED BY <1>3, <1>4, <1>5, <1>6, <1>7

(* The steps around the notification, the wait and the interrupt.          *)
LEMMA ServiceByQuiet ==
  ASSUME IInv, ServiceInv,
         \/ \E t \in Threads : SetUsedEvent(t) \/ Notify(t) \/ Wake(t) \/ Timeout(t) \/ Ack(t)
                                 \/ IntDone(t) \/ WaitMore(t)
         \/ Interrupt \/ DevStart \/ DevLoseKick \/ DevRearm \/ DevSleep \/ DevSignal
         \/ UNCHANGED vars
  PROVE  ServiceInv'
<1>1. UNCHANGED << req, io, handled, ops_failure, desc, avail_ring, avail, dev_avail, inflight,
                   used_ring, used, last_used_idx, tails, avail_idx, desc_pos >>
  BY DEF SetUsedEvent, Notify, Wake, Timeout, Ack, IntDone, WaitMore, Interrupt, DevStart,
         DevLoseKick, DevRearm, DevSleep, DevSignal, vars, callVars, workVars, batchVars, ringVars,
         devRing, devVars
<1>2. \A u \in Threads : \/ pc'[u] = pc[u]
                         \/ pc[u] \in Filling /\ pc'[u] \in Filling
                         \/ pc[u] \in Published /\ pc'[u] \in Published
  <2>1. ASSUME NEW t \in Threads, SetUsedEvent(t) \/ Notify(t) \/ Wake(t) \/ Timeout(t) \/ Ack(t)
                                 \/ IntDone(t) \/ WaitMore(t)
        PROVE  /\ pc' = [pc EXCEPT ![t] = pc'[t]]
               /\ \/ pc[t] \in Filling /\ pc'[t] \in Filling
                  \/ pc[t] \in Published /\ pc'[t] \in Published
    BY <2>1 DEF SetUsedEvent, Notify, Wake, Timeout, Ack, IntDone, WaitMore, Filling, Published,
       IInv, TypeOK, CallTypes
  <2>2. CASE \/ Interrupt \/ DevStart \/ DevLoseKick \/ DevRearm \/ DevSleep \/ DevSignal
             \/ UNCHANGED vars
    BY <2>2 DEF Interrupt, DevStart, DevLoseKick, DevRearm, DevSleep, DevSignal, vars
  <2> QED BY <2>1, <2>2 DEF IInv, TypeOK, CallTypes
<1> QED BY <1>1, <1>2, ServiceKept

(* A batch begins with no chain added.                                     *)
LEMMA ServiceByEnter ==
  ASSUME IInv, ServiceInv, NEW t \in Threads, Enter(t)
  PROVE  ServiceInv'
<1> USE DEF ServiceInv, IInv
<1>1. /\ pc[t] = "loop" /\ pc' = [pc EXCEPT ![t] = "fill"] /\ pc'[t] = "fill"
      /\ avail_idx' = [avail_idx EXCEPT ![t] = avail] /\ avail_idx'[t] = avail
      /\ UNCHANGED << req, io, handled, ops_failure, desc, avail_ring, avail, dev_avail, inflight,
                   used_ring, used, last_used_idx, tails, desc_pos >>
  BY DEF Enter, callVars, workVars, ringVars, devRing, devVars, TypeOK, CallTypes, BatchTypes
<1>2. \A u \in Threads : pc[u] \notin InCrit
  BY NoThreadAssumption DEF Enter, CritInv
<1>3. \A u \in Threads : u # t => pc'[u] = pc[u]
  BY <1>1 DEF TypeOK, CallTypes
<1>4. \A u \in Threads : u # t => pc'[u] \notin Filling /\ pc'[u] \notin InCrit
  BY <1>2, <1>3 DEF Filling, InCrit
<1>5. \A u \in Threads : pc'[u] \notin Published
  BY <1>1, <1>4 DEF Published, InCrit
<1>6. Added(t)' = {}
  <2>1. \A i \in Idx : ~(Sub(i, avail) < Sub(avail, avail))
    BY IndexFacts DEF Idx, TypeOK, IndexTypes
  <2> QED BY <1>1, <2>1 DEF Added
<1>7. CallInv'
  BY <1>1, <1>3 DEF CallInv, NumSec, InCrit
<1>8. AddedInv'
  BY <1>4, <1>6 DEF AddedInv
<1>9. DeviceInv'
  BY <1>5 DEF DeviceInv, Owed
<1>10. \A u \in Threads : pc'[u] \in InCrit \cup {"loop"} => pc[u] = "loop"
  BY <1>1, <1>2, <1>4
<1>11. FailureInv'
  BY <1>1, <1>10, SameRing DEF FailureInv
<1>12. TodoInv'
  <2>1. \A u \in Threads : pc[u] = "loop" => \A k \in 1 .. handled[u] : io[u][k] # "todo"
    BY DEF TodoInv, Remembered, Filling, Published
  <2> QED BY <1>1, <1>10, <2>1 DEF TodoInv
<1> QED BY <1>7, <1>8, <1>9, <1>11, <1>12

(* A batch ends with every one of its chains drained.                      *)
LEMMA ServiceByLeave ==
  ASSUME IInv, ServiceInv, NEW t \in Threads, Leave(t)
  PROVE  ServiceInv'
<1> USE DEF ServiceInv, IInv
<1>1. /\ pc[t] = "drain" /\ pc' = [pc EXCEPT ![t] = "loop"] /\ pc'[t] = "loop"
      /\ last_used_idx = used /\ ops_counter[t] = 0
      /\ UNCHANGED << req, io, handled, ops_failure, desc, avail_ring, avail, dev_avail, inflight,
                   used_ring, used, last_used_idx, tails >>
  BY DEF Leave, BatchDone, callVars, workVars, ringVars, devRing, devVars, TypeOK, CallTypes
<1>2. \A u \in Threads : u # t => pc'[u] = pc[u] /\ pc[u] \notin InCrit
  BY <1>1 DEF TypeOK, CallTypes, CritInv, InCrit
<1>3. \A u \in Threads : pc'[u] \notin Filling /\ pc'[u] \notin Published /\ pc'[u] \notin InCrit
  BY <1>1, <1>2 DEF Filling, Published, InCrit
<1>4. OwnedHeads = {}
  <2>1. avail = last_used_idx
    BY <1>1, IndexFacts DEF CounterInv, Published, TypeOK, IndexTypes
  <2> QED BY <2>1, Drained
<1>5. CallInv'
  BY <1>1, <1>2 DEF CallInv, NumSec, InCrit
<1>6. AddedInv' /\ DeviceInv'
  BY <1>3 DEF AddedInv, DeviceInv, Owed
<1>7. FailureInv'
  BY <1>1, <1>2, <1>3, SameRing DEF FailureInv, InCrit
<1>8. TodoInv'
  <2>1. \A k \in 1 .. handled[t] : io[t][k] # "todo"
    BY <1>1, <1>4 DEF TodoInv, Remembered, Filling, Published, InCrit
  <2>2. \A u \in Threads : u # t => (pc[u] = "loop" => \A k \in 1 .. handled[u] : io[u][k] # "todo")
    BY DEF TodoInv, Remembered, Filling, Published
  <2> QED BY <1>1, <1>2, <2>1, <2>2 DEF TodoInv
<1> QED BY <1>5, <1>6, <1>7, <1>8

(* What was added is now the device's.                                     *)
LEMMA ServiceByPublish ==
  ASSUME IInv, ServiceInv, NEW t \in Threads, Publish(t)
  PROVE  ServiceInv'
<1> USE DEF ServiceInv, IInv
<1>1. /\ pc[t] = "publish" /\ pc' = [pc EXCEPT ![t] = "kick"] /\ pc'[t] = "kick"
      /\ avail' = avail_idx[t]
      /\ UNCHANGED << req, io, handled, ops_failure, desc, avail_ring, dev_avail, inflight,
                   used_ring, used, last_used_idx, tails, avail_idx, desc_pos >>
  BY DEF Publish, callVars, workVars, devRing, devVars, TypeOK, CallTypes
<1>2. \A u \in Threads : u # t => pc'[u] = pc[u] /\ pc[u] \notin InCrit
  BY <1>1 DEF TypeOK, CallTypes, CritInv, InCrit
<1>3. \A u \in Threads : pc'[u] \notin Filling /\ (u # t => pc'[u] \notin InCrit)
  BY <1>1, <1>2 DEF Filling, InCrit
<1>4. avail = last_used_idx
  BY <1>1, <1>2, IdleQueue DEF Published, InCrit
<1>5. dev_avail = avail /\ used = avail /\ inflight = << >> /\ Undrained = {}
  BY <1>4, Drained
<1>6. Unfetched' = Added(t)
  BY <1>1, <1>5 DEF Unfetched, Added
<1>7. /\ \A i : Entry(i)' = Entry(i) /\ UsedEntry(i)' = UsedEntry(i)
      /\ \A h : Op(h)' = Op(h) /\ \A last : Laid(h, last)' = Laid(h, last)
      /\ Undrained' = {}
  <2>1. \A i : Entry(i)' = Entry(i) /\ UsedEntry(i)' = UsedEntry(i)
    BY <1>1 DEF Entry, UsedEntry
  <2>2. \A h : Op(h)' = Op(h) /\ \A last : Laid(h, last)' = Laid(h, last)
    BY <1>1 DEF Op, Laid
  <2>3. Undrained' = {}
    BY <1>1, <1>5 DEF Undrained
  <2> QED BY <2>1, <2>2, <2>3
<1>8. /\ \A h \in OwnedHeads' : \E i \in Added(t) : h = Entry(i)
      /\ \A i \in Added(t) : Entry(i) \in OwnedHeads'
  BY <1>1, <1>5, <1>6 DEF OwnedHeads, Entry, ToSet
<1>9. CallInv'
  BY <1>1, <1>2 DEF CallInv, NumSec, InCrit
<1>10. AddedInv'
  BY <1>3 DEF AddedInv
<1>11. DeviceInv'
  <2>1. \A h, last : ToDo(t, h, last)' <=> ToDo(t, h, last)
    BY <1>1, <1>7 DEF ToDo
  <2>2. \A h \in OwnedHeads' : \E last \in Pos : ToDo(t, h, last)'
    BY <1>1, <1>8, <2>1 DEF AddedInv, Filling
  <2>3. \A i, j \in Unfetched' : i # j => Op(Entry(i))' # Op(Entry(j))'
    <3>1. \A i, j \in Added(t) : i # j => Op(Entry(i)) # Op(Entry(j))
      BY <1>1 DEF AddedInv, Filling
    <3>2. \A i : Op(Entry(i))' = Op(Entry(i))
      BY <1>1 DEF Op, Entry
    <3> QED BY <1>6, <3>1, <3>2
  <2>4. \A u \in Threads : pc'[u] \in Published => u = t
    BY <1>3 DEF Published, InCrit
  <2>5. DOMAIN inflight' = {} /\ Undrained' = {}
    BY <1>1, <1>5, <1>7
  <2> QED BY <2>2, <2>3, <2>4, <2>5 DEF DeviceInv, Owed
<1>12. FailureInv'
  <2>1. \A u \in Threads : pc'[u] \in InCrit \cup {"loop"} => pc[u] \in InCrit \cup {"loop"}
    BY <1>1, <1>2 DEF InCrit
  <2> QED BY <1>1, <1>5, <1>7, <2>1 DEF FailureInv
<1>13. TodoInv'
  <2>1. ASSUME NEW k \in 1 .. handled[t], io[t][k] = "todo"
        PROVE  Remembered(t, k)'
    <3>1. PICK i \in Added(t) : Op(Entry(i)) = << t, k >>
      BY <1>1, <2>1 DEF TodoInv, Remembered, InCrit, Published
    <3>2. Op(Entry(i))' = << t, k >> /\ Entry(i) \in OwnedHeads' /\ Entry(i)' = Entry(i)
      BY <1>1, <1>8, <3>1 DEF Op, Entry
    <3> QED BY <1>1, <3>2 DEF Remembered, Published
  <2>2. \A u \in Threads : u # t => (pc[u] = "loop" => \A k \in 1 .. handled[u] : io[u][k] # "todo")
    BY DEF TodoInv, Remembered, Filling, Published
  <2> QED BY <1>1, <1>2, <2>1, <2>2 DEF TodoInv
<1> QED BY <1>9, <1>10, <1>11, <1>12, <1>13

(* The indices from b on and before a.                                     *)
Between(b, a) == {i \in Idx : Sub(i, b) < Sub(a, b)}

(* The window of indices when its lower end is advanced ...                *)
LEMMA Shrink ==
  ASSUME NEW a \in Idx, NEW b \in Idx, a # b
  PROVE  b \in Between(b, a) /\ Between(Inc(b), a) = Between(b, a) \ {b}
<1>1. b \in Between(b, a)
  BY IndexFacts DEF Between, Idx
<1>2. \A i \in Idx : Sub(i, Inc(b)) < Sub(a, Inc(b)) <=> Sub(i, b) < Sub(a, b) /\ i # b
  <2> SUFFICES ASSUME NEW i \in Idx
               PROVE  Sub(i, Inc(b)) < Sub(a, Inc(b)) <=> Sub(i, b) < Sub(a, b) /\ i # b
    OBVIOUS
  <2>1. Sub(a, Inc(b)) = Sub(a, b) - 1 /\ Sub(a, b) \in Nat /\ Sub(a, b) < IdxMod /\ IdxMod \in Nat
    <3>1. Sub(a, Inc(b)) = Sub(a, b) - 1
      BY IndexFacts
    <3>2. Sub(a, b) \in Idx
      BY IndexFacts
    <3> QED BY <3>1, <3>2, SizesAssumption DEF Idx
  <2>2. CASE i = b
    <3>1. Sub(b, Inc(b)) = IdxMod - 1
      BY SizesAssumption DEF Sub, Inc, Idx
    <3> QED BY <2>1, <2>2, <3>1
  <2>3. CASE i # b
    <3>1. Sub(i, Inc(b)) = Sub(i, b) - 1 /\ Sub(i, b) \in Nat
      BY <2>3, IndexFacts DEF Idx
    <3> QED BY <2>1, <2>3, <3>1
  <2> QED BY <2>2, <2>3
<1> QED BY <1>1, <1>2 DEF Between

(* ... and when its upper end is.                                          *)
LEMMA Grow ==
  ASSUME NEW a \in Idx, NEW b \in Idx, Sub(a, b) + 1 < IdxMod
  PROVE  a \notin Between(b, a) /\ Between(b, Inc(a)) = Between(b, a) \cup {a}
<1>1. Sub(Inc(a), b) = Sub(a, b) + 1 /\ Sub(a, b) \in Nat
  BY IndexFacts DEF Idx
<1>2. \A i \in Idx : Sub(i, b) = Sub(a, b) => i = a
  BY SizesAssumption DEF Sub, Idx
<1>3. \A i \in Idx : Sub(i, b) \in Nat
  BY IndexFacts DEF Idx
<1> QED BY <1>1, <1>2, <1>3 DEF Between

(* The device takes a chain from the ring.                                 *)
LEMMA ServiceByFetch ==
  ASSUME IInv, ServiceInv, DevFetch
  PROVE  ServiceInv'
<1> USE DEF ServiceInv, IInv
<1>1. /\ dev_avail # avail /\ dev_avail' = Inc(dev_avail)
      /\ inflight' = Append(inflight, Entry(dev_avail))
      /\ UNCHANGED << pc, req, io, handled, ops_failure, desc, avail_ring, avail,
                   used_ring, used, last_used_idx, tails, avail_idx, desc_pos >>
  BY DEF DevFetch, callVars, workVars, batchVars, ringVars, devRing, Entry
<1>2. avail \in Idx /\ dev_avail \in Idx /\ inflight \in Seq(Pos)
  BY DEF TypeOK, IndexTypes, RingTypes
<1>3. dev_avail \in Unfetched /\ Unfetched' = Unfetched \ {dev_avail}
  BY <1>1, <1>2, Shrink DEF Between, Unfetched
<1>4. /\ DOMAIN inflight = 1 .. Len(inflight) /\ Len(inflight) \in Nat
      /\ DOMAIN inflight' = 1 .. Len(inflight) + 1
      /\ \A n \in DOMAIN inflight : inflight'[n] = inflight[n] /\ n \in DOMAIN inflight'
      /\ inflight'[Len(inflight) + 1] = Entry(dev_avail)
      /\ \A n \in DOMAIN inflight' : n = Len(inflight) + 1 \/ n \in DOMAIN inflight
  BY <1>1, <1>2
<1>5. /\ \A i : Entry(i)' = Entry(i) /\ UsedEntry(i)' = UsedEntry(i)
      /\ \A h : Op(h)' = Op(h) /\ \A last : Laid(h, last)' = Laid(h, last)
      /\ Undrained' = Undrained
      /\ \A u \in Threads : Added(u)' = Added(u)
  <2>1. \A i : Entry(i)' = Entry(i) /\ UsedEntry(i)' = UsedEntry(i)
    BY <1>1 DEF Entry, UsedEntry
  <2>2. \A h : Op(h)' = Op(h) /\ \A last : Laid(h, last)' = Laid(h, last)
    BY <1>1 DEF Op, Laid
  <2>3. Undrained' = Undrained
    BY <1>1 DEF Undrained
  <2>4. \A u \in Threads : Added(u)' = Added(u)
    BY <1>1 DEF Added
  <2> QED BY <2>1, <2>2, <2>3, <2>4
<1>6. OwnedHeads' = OwnedHeads
  <2>1. ToSet(inflight') = ToSet(inflight) \cup {Entry(dev_avail)}
    BY <1>4 DEF ToSet
  <2>2. OwnedHeads = {Entry(i) : i \in Unfetched} \cup ToSet(inflight)
    BY DEF OwnedHeads, Entry
  <2>3. OwnedHeads' = {Entry(i) : i \in Unfetched'} \cup ToSet(inflight')
    BY <1>1 DEF OwnedHeads, Entry
  <2> QED BY <1>3, <2>1, <2>2, <2>3
<1>7. CallInv'
  BY <1>1 DEF CallInv, NumSec
<1>8. AddedInv'
  BY <1>1, <1>5 DEF AddedInv, ToDo
<1>9. DeviceInv'
  <2>1. ASSUME NEW t \in Threads, pc[t] \in Published
        PROVE  Owed(t)'
    <3>1. (\A h \in OwnedHeads : \E last \in Pos : ToDo(t, h, last))'
      BY <1>1, <1>5, <1>6, <2>1 DEF DeviceInv, Owed, ToDo
    <3>2. (\A i, j \in Unfetched : i # j => Op(Entry(i)) # Op(Entry(j)))'
      <4>1. \A i : Op(Entry(i))' = Op(Entry(i))
        BY <1>1 DEF Op, Entry
      <4> QED BY <1>3, <2>1, <4>1 DEF DeviceInv, Owed
    <3>3. (\A i \in Unfetched, n \in DOMAIN inflight : Op(Entry(i)) # Op(inflight[n]))'
      <4> SUFFICES ASSUME NEW i \in Unfetched', NEW n \in DOMAIN inflight'
                   PROVE  desc[Entry(i)].op # desc[inflight'[n]].op
        BY <1>1, <1>5 DEF Op
      <4>1. CASE n \in DOMAIN inflight
        BY <1>3, <1>4, <2>1, <4>1 DEF DeviceInv, Owed, Op
      <4>2. CASE n = Len(inflight) + 1
        BY <1>3, <1>4, <2>1, <4>2 DEF DeviceInv, Owed, Op
      <4> QED BY <1>4, <4>1, <4>2
    <3>4. (\A m, n \in DOMAIN inflight : m # n => Op(inflight[m]) # Op(inflight[n]))'
      <4> SUFFICES ASSUME NEW m \in DOMAIN inflight', NEW n \in DOMAIN inflight', m # n
                   PROVE  desc[inflight'[m]].op # desc[inflight'[n]].op
        BY <1>1 DEF Op
      <4>1. CASE m \in DOMAIN inflight /\ n \in DOMAIN inflight
        BY <1>4, <2>1, <4>1 DEF DeviceInv, Owed, Op
      <4>2. CASE m \in DOMAIN inflight /\ n = Len(inflight) + 1
        BY <1>3, <1>4, <2>1, <4>2 DEF DeviceInv, Owed, Op
      <4>3. CASE n \in DOMAIN inflight /\ m = Len(inflight) + 1
        BY <1>3, <1>4, <2>1, <4>3 DEF DeviceInv, Owed, Op
      <4> QED BY <1>4, <4>1, <4>2, <4>3
    <3>5. (\A i \in Undrained : \E last \in Pos : Done(t, UsedEntry(i), last))'
      BY <1>1, <1>5, <2>1 DEF DeviceInv, Owed, Done
    <3> QED BY <3>1, <3>2, <3>3, <3>4, <3>5 DEF Owed
  <2> QED BY <1>1, <2>1 DEF DeviceInv
<1>10. FailureInv'
  BY <1>1, <1>5 DEF FailureInv
<1>11. TodoInv'
  BY <1>1, <1>5, <1>6 DEF TodoInv, Remembered
<1> QED BY <1>7, <1>8, <1>9, <1>10, <1>11

(* A chain used by the device is taken into account.                       *)
LEMMA ServiceByDrain ==
  ASSUME IInv, ServiceInv, NEW t \in Threads, DrainOne(t)
  PROVE  ServiceInv'
<1> USE DEF ServiceInv, IInv
<1> DEFINE h == UsedEntry(last_used_idx)
<1>1. /\ last_used_idx # used /\ last_used_idx' = Inc(last_used_idx) /\ pc[t] = "drain"
      /\ ops_failure' = [ops_failure EXCEPT ![t] = Failed(t, h)]
      /\ ops_failure'[t] = Failed(t, h)
      /\ \A u \in Threads : u # t => ops_failure'[u] = ops_failure[u] /\ pc[u] \notin InCrit
      /\ UNCHANGED << pc, req, io, handled, inflight, desc, avail_ring, avail, dev_avail,
                   used_ring, used, tails, avail_idx, desc_pos >>
  BY Alone DEF DrainOne, callVars, ringVars, devRing, devVars, UsedEntry, TypeOK, CallTypes, InCrit
<1>2. used \in Idx /\ last_used_idx \in Idx
  BY DEF TypeOK, IndexTypes
<1>3. last_used_idx \in Undrained /\ Undrained' = Undrained \ {last_used_idx}
  BY <1>1, <1>2, Shrink DEF Between, Undrained
<1>4. /\ \A i : Entry(i)' = Entry(i) /\ UsedEntry(i)' = UsedEntry(i)
      /\ \A g : Op(g)' = Op(g) /\ \A last : Laid(g, last)' = Laid(g, last)
      /\ OwnedHeads' = OwnedHeads /\ Unfetched' = Unfetched
      /\ \A u \in Threads : Added(u)' = Added(u)
  <2>1. \A i : Entry(i)' = Entry(i) /\ UsedEntry(i)' = UsedEntry(i)
    BY <1>1 DEF Entry, UsedEntry
  <2>2. \A g : Op(g)' = Op(g) /\ \A last : Laid(g, last)' = Laid(g, last)
    BY <1>1 DEF Op, Laid
  <2>3. OwnedHeads' = OwnedHeads /\ Unfetched' = Unfetched
    BY <1>1 DEF OwnedHeads, Unfetched
  <2>4. \A u \in Threads : Added(u)' = Added(u)
    BY <1>1 DEF Added
  <2> QED BY <2>1, <2>2, <2>3, <2>4
<1>5. PICK last \in Pos : Done(t, h, last)
  BY <1>1, <1>3 DEF DeviceInv, Owed, Published
<1>6. PICK k \in 1 .. handled[t] : Op(h) = << t, k >> /\ io[t][k] = tails[last]
                                   /\ tails[last] # "unset"
  BY <1>5 DEF Done
<1>7. ops_failure'[t] = (ops_failure[t] \/ tails[last] # "ok") /\ tails[last] \in {"ok", "err"}
  <2>1. StatusPos(h) = last
    BY <1>5, LaidStatus DEF Done
  <2> HIDE DEF h
  <2> QED BY <1>1, <1>6, <2>1 DEF Failed, TypeOK, RingTypes
<1>8. CallInv'
  BY <1>1 DEF CallInv, NumSec
<1>9. AddedInv'
  BY <1>1, <1>4 DEF AddedInv, ToDo
<1>10. DeviceInv'
  BY <1>1, <1>3, <1>4 DEF DeviceInv, Owed, ToDo, Done
<1>11. FailureInv'
  <2>1. ops_failure'[t] => \E j \in 1 .. handled[t] : io[t][j] = "err"
    <3>1. CASE ops_failure[t]
      BY <1>1, <3>1 DEF FailureInv, InCrit
    <3>2. CASE ~ops_failure[t]
      BY <1>6, <1>7, <3>2
    <3> QED BY <3>1, <3>2
  <2>2. ASSUME NEW j \in 1 .. handled[t], io[t][j] = "err"
        PROVE  ops_failure'[t] \/ \E i \in Undrained' : Op(UsedEntry(i)) = << t, j >>
    <3>1. CASE ops_failure[t]
      BY <1>7, <3>1
    <3>2. ASSUME NEW i \in Undrained, Op(UsedEntry(i)) = << t, j >>
          PROVE  ops_failure'[t] \/ i \in Undrained'
      <4>1. CASE i = last_used_idx
        <5>1. j = k
          BY <1>6, <3>2, <4>1
        <5> QED BY <1>6, <1>7, <2>2, <5>1
      <4>2. CASE i # last_used_idx
        BY <1>3, <4>2
      <4> QED BY <4>1, <4>2
    <3>3. ops_failure[t] \/ \E i \in Undrained : Op(UsedEntry(i)) = << t, j >>
      BY <1>1, <2>2 DEF FailureInv, InCrit
    <3> QED BY <3>1, <3>2, <3>3
  <2>3. \A i : Op(UsedEntry(i))' = Op(UsedEntry(i))
    BY <1>1 DEF Op, UsedEntry
  <2>4. ASSUME NEW u \in Threads, u # t, pc[u] \in InCrit \cup {"loop"}
        PROVE  \A j \in 1 .. handled[u] : io[u][j] = "err" => ops_failure[u]
    <3>1. Undrained = {} \/ Undrained # {}
      OBVIOUS
    <3>2. \A i \in Undrained : \A j : Op(UsedEntry(i)) # << u, j >>
      BY <1>1, <2>4 DEF DeviceInv, Owed, Published, Done
    <3> QED BY <2>4, <3>2 DEF FailureInv
  <2>5. ASSUME NEW u \in Threads, u # t, pc[u] \in InCrit \cup {"loop"}
        PROVE  ops_failure[u] => \E j \in 1 .. handled[u] : io[u][j] = "err"
    BY <2>5 DEF FailureInv
  <2> QED BY <1>1, <2>1, <2>2, <2>3, <2>4, <2>5 DEF FailureInv
<1>12. TodoInv'
  BY <1>1, <1>4 DEF TodoInv, Remembered
<1> QED BY <1>8, <1>9, <1>10, <1>11, <1>12

(* What the device holds belongs to the thread that waits for it.          *)
LEMMA HeldForOne ==
  ASSUME IInv, ServiceInv, inflight # << >>
  PROVE  \E t \in Threads : pc[t] \in Published
BY Drained, IdleQueue

(* A completed chain carries its outcome to the sector it is for, and to   *)
(* no other.                                                               *)
LEMMA CompleteEffect ==
  ASSUME IInv, ServiceInv, NEW i \in DOMAIN inflight, NEW t \in Threads, pc[t] \in Published
  PROVE  \E last \in Pos, k \in 1 .. handled[t] :
           /\ Laid(inflight[i], last) /\ Op(inflight[i]) = << t, k >> /\ io[t][k] = "todo"
           /\ Chain(inflight[i])[Num - 1] = last
           /\ \A res : Effect(Chain(inflight[i]), << t, k >>, res) = res
<1> USE DEF ServiceInv, IInv
<1>1. inflight[i] \in OwnedHeads
  BY DEF OwnedHeads, ToSet
<1>2. PICK last \in Pos : ToDo(t, inflight[i], last)
  BY <1>1 DEF DeviceInv, Owed
<1>3. PICK k \in 1 .. handled[t] : Op(inflight[i]) = << t, k >> /\ io[t][k] = "todo"
  BY <1>2 DEF ToDo
<1> DEFINE h == inflight[i]
<1>4. Laid(h, last)
  BY <1>2 DEF ToDo
<1>5. Chain(h) = [n \in 0 .. Num - 1 |-> IF h + n <= last THEN h + n ELSE last]
  <2> HIDE DEF h
  <2> QED BY <1>4, LaidChain
<1>6. h \in Nat /\ last \in Nat /\ h < last /\ last < Num /\ Num \in Nat
  BY <1>4, SizesAssumption DEF Laid, Pos
<1>7. Chain(h)[Num - 1] = last
  <2> HIDE DEF h
  <2> QED BY <1>5, <1>6
<1>8. \A n \in DOMAIN Chain(h) : desc[Chain(h)[n]].op = << t, k >>
  <2>1. \A n \in 0 .. Num - 1 : Chain(h)[n] \in h .. last
    <3> HIDE DEF h
    <3> QED BY <1>5, <1>6
  <2>2. DOMAIN Chain(h) = 0 .. Num - 1
    <3> HIDE DEF h
    <3> QED BY <1>5
  <2>3. \A p \in h .. last : desc[p].op = << t, k >>
    BY <1>3, <1>4 DEF Laid, Op
  <2> HIDE DEF h
  <2> QED BY <2>1, <2>2, <2>3
<1>9. \A res : Effect(Chain(h), << t, k >>, res) = res
  <2> HIDE DEF h
  <2> QED BY <1>3, <1>8 DEF Effect
<1> QED BY <1>3, <1>4, <1>7, <1>9

(* The device uses a chain.                                                *)
LEMMA ServiceByComplete ==
  ASSUME IInv, ServiceInv, NEW i \in DOMAIN inflight, NEW res \in {"ok", "err"}, DevComplete(i, res)
  PROVE  ServiceInv'
<1> USE DEF ServiceInv, IInv
<1>0. PICK t \in Threads : pc[t] \in Published
  <2>1. inflight # << >>
    OBVIOUS
  <2> QED BY <2>1, HeldForOne
<1>1. PICK h \in Pos : h = inflight[i]
  BY DEF TypeOK, RingTypes
<1>2. PICK last \in Pos, k \in 1 .. handled[t] :
           /\ Laid(h, last) /\ Op(h) = << t, k >> /\ io[t][k] = "todo"
           /\ Chain(h)[Num - 1] = last
           /\ \A r : Effect(Chain(h), << t, k >>, r) = r
  BY <1>0, <1>1, CompleteEffect
<1>3. /\ inflight' = RemoveAt(inflight, i)
      /\ tails' = [tails EXCEPT ![last] = res]
      /\ used_ring' = [used_ring EXCEPT ![Slot(used)] = h]
      /\ used' = Inc(used)
      /\ UNCHANGED << pc, req, handled, ops_failure, desc, avail_ring, avail, dev_avail,
                      last_used_idx, avail_idx, desc_pos >>
  BY <1>1, <1>2 DEF DevComplete, callVars, workVars, batchVars, ringVars
<1>4. \A u \in Threads : u # t => pc[u] \notin InCrit
  BY <1>0 DEF CritInv, InCrit, Published
<1>5. io' = [io EXCEPT ![t] = [j \in DOMAIN io[t] |-> IF j = k THEN res ELSE io[t][j]]]
  <2>1. desc[inflight[i]].op = << t, k >>
    BY <1>1, <1>2 DEF Op
  <2>2. io' = [io EXCEPT ![t] = [j \in DOMAIN io[t] |->
                IF j = k THEN Effect(Chain(h), << t, k >>, res) ELSE io[t][j]]]
    BY <1>1, <2>1 DEF DevComplete
  <2>3. Effect(Chain(h), << t, k >>, res) = res
    BY <1>2
  <2> QED BY <2>2, <2>3
<1>6. /\ io[t] \in [1 .. NumSec(t) -> {"todo", "ok", "err"}]
      /\ handled[t] \in Nat /\ NumSec(t) \in Nat /\ handled[t] <= NumSec(t)
      /\ io = [u \in Threads |-> io[u]]
      /\ k \in 1 .. NumSec(t)
  <2>1. handled[t] \in Nat /\ NumSec(t) \in Nat
    BY RequestTypes DEF TypeOK, CallTypes
  <2>2. handled[t] <= NumSec(t)
    BY DEF CallInv
  <2>3. k \in 1 .. NumSec(t)
    BY <1>2, <2>1, <2>2
  <2> QED BY <2>1, <2>2, <2>3 DEF CallInv
<1>7. /\ io'[t][k] = res /\ \A j \in 1 .. NumSec(t) : j # k => io'[t][j] = io[t][j]
      /\ io'[t] \in [1 .. NumSec(t) -> {"todo", "ok", "err"}]
      /\ \A u \in Threads : u # t => io'[u] = io[u]
      /\ io' = [u \in Threads |-> io'[u]]
  BY <1>5, <1>6
<1>8. /\ used \in Idx /\ last_used_idx \in Idx /\ inflight \in Seq(Pos)
      /\ used_ring \in [Pos -> Pos] /\ tails \in [Pos -> {"unset", "ok", "err"}]
  BY DEF TypeOK, IndexTypes, RingTypes
<1>8a. PICK s \in Idx : s = used
  BY <1>8
<1>9. Sub(used, last_used_idx) < Num /\ Sub(used, last_used_idx) + 1 < IdxMod
  <2>1. Sub(avail, last_used_idx) = ops_counter[t]
    BY <1>0 DEF CounterInv
  <2>2. Sub(avail, dev_avail) \in Nat /\ Sub(dev_avail, used) \in Nat
        /\ Sub(used, last_used_idx) \in Nat
    BY IndexFacts DEF Idx, TypeOK, IndexTypes
  <2>3. Sub(used, last_used_idx) <= ops_counter[t]
    BY <2>1, <2>2 DEF QueueInv
  <2>4. ops_counter[t] \in Nat /\ ops_counter[t] < Num /\ ops_counter[t] + 1 < IdxMod
    BY FewChains
  <2> QED BY <2>2, <2>3, <2>4, SizesAssumption
<1>10. s \notin Undrained /\ Undrained' = Undrained \cup {s}
  BY <1>3, <1>8, <1>8a, <1>9, Grow DEF Between, Undrained
<1>11. /\ \A j \in Undrained : UsedEntry(j)' = UsedEntry(j)
       /\ UsedEntry(s)' = h
  <2>1. \A j \in Idx : Slot(j) \in Pos
    BY SlotInRing
  <2>2. ASSUME NEW j \in Undrained
        PROVE  Slot(j) # Slot(s)
    <3>1. j \in Idx /\ Sub(j, last_used_idx) < Num /\ j # s
      <4>1. j \in Idx /\ Sub(j, last_used_idx) < Sub(used, last_used_idx) /\ j # s
        BY <1>10 DEF Undrained
      <4>2. Sub(j, last_used_idx) \in Nat /\ Sub(used, last_used_idx) \in Nat /\ Num \in Nat
        BY <1>8, <4>1, IndexFacts, SizesAssumption DEF Idx
      <4> QED BY <1>9, <4>1, <4>2
    <3> QED BY <1>8, <1>8a, <1>9, <3>1, SlotsApart
  <2>3. \A j \in Undrained : j \in Idx
    BY DEF Undrained
  <2>4. \A j : UsedEntry(j)' = used_ring'[Slot(j)]
    BY DEF UsedEntry
  <2>5. used_ring' = [used_ring EXCEPT ![Slot(s)] = h] /\ Slot(s) \in Pos
    BY <1>3, <1>8a, <2>1
  <2>6. \A j \in Undrained : used_ring'[Slot(j)] = used_ring[Slot(j)]
    BY <1>8, <2>1, <2>2, <2>3, <2>5
  <2>7. used_ring'[Slot(s)] = h
    BY <1>8, <2>5
  <2> QED BY <2>4, <2>6, <2>7 DEF UsedEntry
<1>12. /\ \A j : Entry(j)' = Entry(j)
       /\ \A g : Op(g)' = Op(g) /\ \A l : Laid(g, l)' = Laid(g, l)
       /\ Unfetched' = Unfetched
       /\ \A u \in Threads : Added(u)' = Added(u)
  <2>1. \A j : Entry(j)' = Entry(j)
    BY <1>3 DEF Entry
  <2>2. \A g : Op(g)' = Op(g) /\ \A l : Laid(g, l)' = Laid(g, l)
    BY <1>3 DEF Op, Laid
  <2>3. Unfetched' = Unfetched
    BY <1>3 DEF Unfetched
  <2>4. \A u \in Threads : Added(u)' = Added(u)
    BY <1>3 DEF Added
  <2> QED BY <2>1, <2>2, <2>3, <2>4
<1>13. /\ \A n \in DOMAIN inflight' : \E m \in DOMAIN inflight \ {i} : inflight'[n] = inflight[m]
       /\ \A m \in DOMAIN inflight \ {i} : \E n \in DOMAIN inflight' : inflight'[n] = inflight[m]
       /\ \A n1, n2 \in DOMAIN inflight' : n1 # n2 => Op(inflight'[n1]) # Op(inflight'[n2])
  <2>1. \A n \in DOMAIN inflight' :
              /\ (IF n < i THEN n ELSE n + 1) \in DOMAIN inflight \ {i}
              /\ inflight'[n] = inflight[IF n < i THEN n ELSE n + 1]
    BY <1>3, <1>8, RemoveAtPlaces
  <2>2. \A m \in DOMAIN inflight \ {i} : \E n \in DOMAIN inflight' : inflight'[n] = inflight[m]
    BY <1>3, <1>8, RemoveAtPlaces
  <2>3. ASSUME NEW n1 \in DOMAIN inflight', NEW n2 \in DOMAIN inflight', n1 # n2
        PROVE  Op(inflight'[n1]) # Op(inflight'[n2])
    <3>1. inflight' \in Seq(Pos)
      BY <1>3, <1>8, RemoveAtFacts
    <3>2. n1 \in Int /\ n2 \in Int /\ i \in Int
      BY <1>8, <3>1
    <3>3. PICK m1 \in Int, m2 \in Int :
            m1 = (IF n1 < i THEN n1 ELSE n1 + 1) /\ m2 = (IF n2 < i THEN n2 ELSE n2 + 1)
      BY <3>2
    <3>4. m1 # m2
      BY <2>3, <3>2, <3>3
    <3>5. /\ m1 \in DOMAIN inflight /\ m2 \in DOMAIN inflight
          /\ inflight'[n1] = inflight[m1] /\ inflight'[n2] = inflight[m2]
      BY <2>1, <3>3
    <3> QED BY <1>0, <3>4, <3>5 DEF DeviceInv, Owed
  <2> QED BY <2>1, <2>2, <2>3
<1>14. \A g \in OwnedHeads' : g \in OwnedHeads /\ Op(g) # << t, k >>
  <2>1. \A j \in Unfetched : Op(Entry(j)) # Op(h)
    BY <1>0, <1>1 DEF DeviceInv, Owed
  <2>2. \A m \in DOMAIN inflight \ {i} : Op(inflight[m]) # Op(h)
    BY <1>0, <1>1 DEF DeviceInv, Owed
  <2>3. OwnedHeads = {Entry(j) : j \in Unfetched} \cup ToSet(inflight)
    BY DEF OwnedHeads, Entry
  <2>4. OwnedHeads' = {Entry(j) : j \in Unfetched} \cup ToSet(inflight')
    BY <1>3, <1>12 DEF OwnedHeads, Entry
  <2> QED BY <1>2, <1>13, <2>1, <2>2, <2>3, <2>4 DEF ToSet
<1>15. \A g \in OwnedHeads : Op(g) # << t, k >> => g \in OwnedHeads'
  <2>1. OwnedHeads = {Entry(j) : j \in Unfetched} \cup ToSet(inflight)
    BY DEF OwnedHeads, Entry
  <2>2. OwnedHeads' = {Entry(j) : j \in Unfetched} \cup ToSet(inflight')
    BY <1>3, <1>12 DEF OwnedHeads, Entry
  <2> QED BY <1>1, <1>2, <1>13, <2>1, <2>2 DEF ToSet
<1>16. CallInv'
  <2>1. ASSUME NEW j \in 1 .. NumSec(t), j > handled[t]
        PROVE  io'[t][j] = "todo"
    <3>1. j # k
      BY <1>2, <1>6, <2>1
    <3> QED BY <1>7, <2>1, <3>1 DEF CallInv
  <2>2. \A u \in Threads : NumSec(u)' = NumSec(u)
    BY <1>3 DEF NumSec
  <2>3. ASSUME NEW u \in Threads
        PROVE  /\ io'[u] \in [1 .. NumSec(u)' -> {"todo", "ok", "err"}]
               /\ handled'[u] <= NumSec(u)'
               /\ \A j \in 1 .. NumSec(u)' : j > handled'[u] => io'[u][j] = "todo"
               /\ pc'[u] \in {"idle", "lock"} => handled'[u] = 0 /\ ~ops_failure'[u]
               /\ pc'[u] \notin {"idle", "return"} =>
                    req'[u] \in Requests /\ Refusal(req'[u]) = "ERROR_IO_PENDING"
               /\ pc'[u] \in InCrit \cup {"loop"} => req'[u].aligned
    <3>1. CASE u = t
      BY <1>3, <1>7, <2>1, <2>2, <3>1 DEF CallInv
    <3>2. CASE u # t
      BY <1>3, <1>7, <2>2, <3>2 DEF CallInv
    <3> QED BY <3>1, <3>2
  <2> QED BY <1>7, <2>3 DEF CallInv
<1>17. AddedInv'
  <2>1. \A u \in Threads : pc'[u] \notin Filling
    BY <1>0, <1>3, <1>4 DEF InCrit, Filling, Published
  <2> QED BY <2>1 DEF AddedInv
<1>18. DeviceInv'
  <2>1. ASSUME NEW g \in OwnedHeads' PROVE \E l \in Pos : ToDo(t, g, l)'
    <3>1. PICK l \in Pos : ToDo(t, g, l)
      BY <1>0, <1>14, <2>1 DEF DeviceInv, Owed
    <3>2. PICK j \in 1 .. handled[t] : Op(g) = << t, j >> /\ io[t][j] = "todo"
      BY <3>1 DEF ToDo
    <3>3. j # k /\ j \in 1 .. NumSec(t)
      BY <1>6, <1>14, <2>1, <3>2
    <3>4. io'[t][j] = "todo"
      BY <1>7, <3>2, <3>3
    <3> QED BY <1>3, <1>12, <3>1, <3>2, <3>4 DEF ToDo
  <2>2. (\A j1, j2 \in Unfetched : j1 # j2 => Op(Entry(j1)) # Op(Entry(j2)))'
    <3>1. \A j : Op(Entry(j))' = Op(Entry(j))
      BY <1>3 DEF Op, Entry
    <3> QED BY <1>0, <1>12, <3>1 DEF DeviceInv, Owed
  <2>3. \A j \in Unfetched, n \in DOMAIN inflight' : Op(Entry(j)) # Op(inflight'[n])
    BY <1>0, <1>13 DEF DeviceInv, Owed
  <2>4. ASSUME NEW j \in Undrained PROVE \E l \in Pos : Done(t, UsedEntry(j), l)'
    <3>1. PICK g : g = UsedEntry(j)
      OBVIOUS
    <3>2. PICK l \in Pos : Done(t, g, l)
      BY <1>0, <3>1 DEF DeviceInv, Owed
    <3>3. PICK k2 \in 1 .. handled[t] : Op(g) = << t, k2 >> /\ io[t][k2] = tails[l] /\ tails[l] # "unset"
      BY <3>2 DEF Done
    <3>4. k2 \in 1 .. NumSec(t)
      BY <1>6
    <3>5. k2 # k
      BY <1>2, <1>8, <3>3
    <3>6. l # last
      <4>1. desc[l].op = desc[g].op /\ desc[last].op = desc[h].op
        <5>1. l \in g .. l /\ last \in h .. last
          BY <1>2, <3>2 DEF Done, Laid, Pos
        <5> QED BY <1>2, <3>2, <5>1 DEF Done, Laid
      <4> QED BY <1>2, <3>3, <3>5, <4>1 DEF Op
    <3>7. io'[t][k2] = tails'[l] /\ tails'[l] # "unset"
      BY <1>3, <1>7, <1>8, <3>3, <3>4, <3>5, <3>6
    <3>8. Done(t, g, l)'
      BY <1>3, <1>12, <3>2, <3>3, <3>7 DEF Done
    <3> QED BY <1>11, <3>1, <3>8
  <2>5. \E l \in Pos : Done(t, UsedEntry(s), l)'
    <3>1. io'[t][k] = tails'[last] /\ tails'[last] # "unset"
      BY <1>3, <1>7, <1>8
    <3>2. Done(t, h, last)'
      BY <1>2, <1>3, <1>12, <3>1 DEF Done
    <3> QED BY <1>11, <3>2
  <2>6. Owed(t)'
    <3>1. \A n \in DOMAIN inflight' : Op(inflight[n])' = Op(inflight'[n])
      BY <1>3 DEF Op
    <3>2. \A j : Op(Entry(j))' = Op(Entry(j))
      BY <1>3 DEF Op, Entry
    <3>3. (\A j \in Unfetched, n \in DOMAIN inflight : Op(Entry(j)) # Op(inflight[n]))'
      BY <1>12, <2>3, <3>1, <3>2
    <3>4. (\A m, n \in DOMAIN inflight : m # n => Op(inflight[m]) # Op(inflight[n]))'
      BY <1>13, <3>1
    <3>5. (\A j \in Undrained : \E l \in Pos : Done(t, UsedEntry(j), l))'
      BY <1>10, <2>4, <2>5
    <3> QED BY <2>1, <2>2, <3>3, <3>4, <3>5 DEF Owed
  <2>7. \A u \in Threads : pc'[u] \in Published => u = t
    BY <1>3, <1>4 DEF Published, InCrit
  <2> QED BY <2>6, <2>7 DEF DeviceInv
<1>19. FailureInv'
  <2>1. ASSUME ops_failure[t] PROVE \E j \in 1 .. handled[t] : io'[t][j] = "err"
    <3>1. PICK j \in 1 .. handled[t] : io[t][j] = "err"
      BY <1>0, <2>1 DEF FailureInv, Published, InCrit
    <3>2. j # k /\ j \in 1 .. NumSec(t)
      BY <1>2, <1>6, <3>1
    <3> QED BY <1>7, <3>1, <3>2
  <2>2. ASSUME NEW j \in 1 .. handled[t], io'[t][j] = "err"
        PROVE  ops_failure[t] \/ \E n \in Undrained' : Op(UsedEntry(n)') = << t, j >>
    <3>1. CASE j = k
      BY <1>2, <1>10, <1>11, <3>1
    <3>2. CASE j # k
      <4>1. io[t][j] = "err"
        BY <1>6, <1>7, <2>2, <3>2
      <4>2. ops_failure[t] \/ \E n \in Undrained : Op(UsedEntry(n)) = << t, j >>
        BY <1>0, <4>1 DEF FailureInv, Published, InCrit
      <4> QED BY <1>10, <1>11, <4>2
    <3> QED BY <3>1, <3>2
  <2>3. ASSUME NEW u \in Threads, u # t, pc[u] \in InCrit \cup {"loop"}
        PROVE  /\ ops_failure[u] => \E j \in 1 .. handled[u] : io'[u][j] = "err"
               /\ \A j \in 1 .. handled[u] : io'[u][j] = "err" => ops_failure[u]
    <3>1. \A n \in Undrained, j \in 1 .. handled[u] : Op(UsedEntry(n)) # << u, j >>
      BY <1>0, <2>3 DEF DeviceInv, Owed, Done
    <3> QED BY <1>7, <2>3, <3>1 DEF FailureInv
  <2>4. \A n : Op(UsedEntry(n)') = Op(UsedEntry(n))'
    BY <1>3 DEF Op, UsedEntry
  <2> QED BY <1>3, <2>1, <2>2, <2>3, <2>4 DEF FailureInv
<1>20. TodoInv'
  <2>1. ASSUME NEW j \in 1 .. handled[t], io'[t][j] = "todo"
        PROVE  Remembered(t, j)'
    <3>1. j # k /\ j \in 1 .. NumSec(t)
      BY <1>6, <1>7, <2>1
    <3>2. io[t][j] = "todo"
      BY <1>7, <2>1, <3>1
    <3>3. PICK g \in OwnedHeads : Op(g) = << t, j >>
      BY <1>0, <3>2 DEF TodoInv, Remembered, InCrit, Filling, Published
    <3>4. g \in OwnedHeads' /\ Op(g)' = << t, j >>
      BY <1>12, <1>15, <3>1, <3>3
    <3> QED BY <1>0, <1>3, <3>4 DEF Remembered
  <2>2. \A u \in Threads : u # t => (pc[u] = "loop" => \A j \in 1 .. handled[u] : io[u][j] # "todo")
    <3> SUFFICES ASSUME NEW u \in Threads, pc[u] = "loop", NEW j \in 1 .. handled[u],
                        io[u][j] = "todo"
                 PROVE  FALSE
      OBVIOUS
    <3>1. Remembered(u, j)
      BY Zenon DEF TodoInv
    <3> QED BY <3>1 DEF Remembered, Filling, Published
  <2>3. ASSUME NEW u \in Threads, pc'[u] \in InCrit \cup {"loop"}, NEW j \in 1 .. handled'[u],
               io'[u][j] = "todo"
        PROVE  Remembered(u, j)'
    <3>1. pc' = pc /\ handled' = handled
      BY <1>3
    <3>2. CASE u = t
      BY <2>1, <2>3, <3>1, <3>2, Zenon
    <3>3. CASE u # t
      <4>1. io'[u] = io[u] /\ pc[u] = "loop"
        BY <1>4, <1>7, <2>3, <3>1, <3>3
      <4> QED BY <2>2, <2>3, <3>1, <3>3, <4>1, Zenon
    <3> QED BY <3>2, <3>3
  <2> QED BY <2>3, Zenon DEF TodoInv
<1> QED BY <1>16, <1>17, <1>18, <1>19, <1>20

(* What is left of a sector before each of its segments; the descriptors   *)
(* of a sector as a batch writes them.                                     *)
Shares(segs, len, left) ==
  /\ left \in [0 .. len -> 0 .. SectorLen] /\ left[0] = SectorLen /\ left[len] = 0
  /\ \A n \in 1 .. len : left[n - 1] > 0 /\ left[n] = left[n - 1] - segs[n]
SetUp(op, segs, first, last) ==
  \A p \in first .. last : desc'[p] = ChainDesc(p, first, last, op, segs)

(* A header, segments that make up a sector and a status byte, set up one  *)
(* behind the other, are a chain.                                          *)
LEMMA ChainLaid ==
  ASSUME NEW op, NEW segs, NEW first \in Nat, NEW len \in Nat, NEW last \in Nat,
         len >= 1, last = first + len + 1, last < Num,
         NEW left, Shares(segs, len, left), SetUp(op, segs, first, last)
  PROVE  Laid(first, last)'
<1> USE DEF Shares, SetUp
<1>3. HeaderLen \in Nat /\ Num \in Nat
  BY SizesAssumption
<1>3a. last >= first + 2 /\ first < last /\ first \in Pos /\ last \in Pos
  BY <1>3 DEF Pos
<1>6. \A p \in first .. last : desc'[p] = ChainDesc(p, first, last, op, segs)
  OBVIOUS
<1>7. /\ left[0] = SectorLen /\ left[len] = 0
      /\ \A n \in 1 .. len : left[n - 1] > 0 /\ left[n] = left[n - 1] - segs[n]
  OBVIOUS
<1>8. SectorLen \in Nat /\ SectorLen > 0
  <2>1. 1 \in 1 .. len /\ 1 - 1 = 0
    OBVIOUS
  <2>2. left[0] > 0
    BY <1>7, <2>1
  <2> QED BY <1>7, <2>2, SizesAssumption
<1> DEFINE L == [p \in first .. last |->
                   IF p = first THEN HeaderLen + SectorLen ELSE left[p - first - 1]]
<1>9. \A p \in first .. last : p # first => p - first - 1 \in 0 .. len
  BY <1>3
<1>9a. \A n \in 0 .. len : left[n] \in Nat /\ left[n] <= SectorLen
  BY <1>7, <1>8
<1>10. L \in [first .. last -> 0 .. HeaderLen + SectorLen]
  <2>1. ASSUME NEW p \in first .. last PROVE L[p] \in 0 .. HeaderLen + SectorLen
    <3>1. CASE p = first
      BY <1>3, <1>8, <3>1
    <3>2. CASE p # first
      <4>1. left[p - first - 1] \in Nat /\ left[p - first - 1] <= SectorLen
        BY <1>9, <1>9a, <3>2
      <4> QED BY <1>3, <1>8, <3>2, <4>1
    <3> QED BY <3>1, <3>2
  <2> QED BY <2>1
<1>11. L[first] = HeaderLen + SectorLen /\ L[last] = 0
  <2>1. last # first /\ last - first - 1 = len /\ first \in first .. last /\ last \in first .. last
    BY <1>3
  <2> QED BY <1>7, <2>1
<1>12. ASSUME NEW p \in first .. last - 1
       PROVE  L[p] # 0 /\ L[p + 1] = L[p] - desc'[p].len
  <2>1. p \in first .. last /\ p + 1 \in first .. last /\ p + 1 # first /\ p # last /\ p \in Int
    BY <1>3, <1>3a
  <2>2. desc'[p] = ChainDesc(p, first, last, op, segs)
    BY <1>6, <2>1
  <2>3. L[p + 1] = left[p + 1 - first - 1]
    BY <2>1
  <2>4. CASE p = first
    <3>1. desc'[p].len = HeaderLen
      BY <2>2, <2>4 DEF ChainDesc
    <3>2. p + 1 - first - 1 = 0
      BY <1>3, <2>1, <2>4
    <3>3. L[p + 1] = SectorLen /\ L[p] = HeaderLen + SectorLen
      BY <1>7, <1>11, <2>3, <2>4, <3>2
    <3> HIDE DEF L
    <3> QED BY <1>3, <1>8, <3>1, <3>3
  <2>5. CASE p # first
    <3>1. desc'[p].len = segs[p - first]
      BY <2>1, <2>2, <2>5 DEF ChainDesc
    <3>2. PICK n \in 1 .. len : n = p - first
      BY <1>3, <2>1, <2>5
    <3>2a. p + 1 - first - 1 = n /\ p - first - 1 = n - 1 /\ n - 1 \in 0 .. len
      BY <1>3, <2>1, <3>2
    <3>3. L[p] = left[n - 1] /\ L[p + 1] = left[n]
      BY <2>1, <2>3, <2>5, <3>2, <3>2a
    <3>4. left[n - 1] > 0 /\ left[n] = left[n - 1] - segs[n]
      BY <1>7, <3>2
    <3>5. left[n - 1] \in Nat
      BY <1>9a, <3>2a
    <3> HIDE DEF L
    <3> QED BY <3>1, <3>2, <3>3, <3>4, <3>5
  <2> QED BY <2>4, <2>5
<1>13. Laid(first, last)'
  <2>1. ASSUME NEW p \in first .. last
        PROVE  desc'[p].op = desc'[first].op /\ desc'[p].more = (p # last)
    <3>1. first \in first .. last
      BY <1>3, <1>3a
    <3>2. \A x : ChainDesc(x, first, last, op, segs).op = op
      BY DEF ChainDesc
    <3>3. ChainDesc(p, first, last, op, segs).more = (p # last)
      BY DEF ChainDesc
    <3>4. desc'[p] = ChainDesc(p, first, last, op, segs)
      BY <1>6
    <3>5. desc'[first] = ChainDesc(first, first, last, op, segs)
      BY <1>6, <3>1
    <3> HIDE DEF L
    <3>6. desc'[p].more = (p # last)
      BY <3>3, <3>4, Zenon
    <3> QED BY <3>2, <3>4, <3>5, <3>6
  <2>2. ASSUME NEW p \in first .. last - 1
        PROVE  desc'[p].next = p + 1
    <3>1. p \in first .. last /\ p # last
      BY <1>3, <1>3a
    <3>2. \A x : x # last => ChainDesc(x, first, last, op, segs).next = x + 1
      BY DEF ChainDesc
    <3>3. desc'[p] = ChainDesc(p, first, last, op, segs)
      BY <1>6, <3>1
    <3> QED BY <3>1, <3>2, <3>3
  <2> HIDE DEF L
  <2> QED BY <1>3a, <1>10, <1>11, <1>12, <2>1, <2>2 DEF Laid
<1> QED BY <1>13

(* What a sector adds to the descriptors.                                  *)
LEMMA FillLaid ==
  ASSUME IInv, ServiceInv, NEW t \in Threads, FillSector(t)
  PROVE  \E segs : \E first \in Pos, last \in Pos :
           /\ segs = req[t].secs[handled[t] + 1]
           /\ first = desc_pos[t] /\ last = first + Len(segs) + 1 /\ first < last
           /\ handled[t] < NumSec(t) /\ handled[t] \in Nat
           /\ \A p \in first .. last : desc'[p] = ChainDesc(p, first, last, << t, handled[t] + 1 >>, segs)
           /\ \A p \in Pos : p < first => desc'[p] = desc[p]
           /\ Laid(first, last)'
<1> USE DEF IInv, ServiceInv
<1>1. /\ pc[t] = "fill" /\ handled[t] < NumSec(t) /\ desc_pos[t] + Reserve <= Num
      /\ desc_pos[t] \in Nat /\ handled[t] \in Nat /\ NumSec(t) \in Nat
  BY RequestTypes DEF FillSector, BatchInv, TypeOK, CallTypes, BatchTypes
<1>2. PICK segs : segs = req[t].secs[handled[t] + 1]
  OBVIOUS
<1>3. segs \in Seq(Nat) /\ Len(segs) \in 1 .. MaxSgBuf * 2
  BY <1>1, <1>2, SegmentFacts
<1>4. PICK len \in Nat : len = Len(segs) /\ len >= 1 /\ len + 2 <= Reserve
  <2>1. MaxSgBuf * 2 \in Nat
    BY SizesAssumption
  <2> QED BY <1>3, <2>1 DEF Reserve
<1>5. PICK first \in Nat : first = desc_pos[t]
  BY <1>1
<1>6. PICK last \in Nat : last = first + len + 1
  BY <1>4, <1>5
<1>7. last < Num /\ Num \in Nat /\ first < last
  <2>1. first + Reserve <= Num /\ Reserve \in Nat /\ Num \in Nat
    BY <1>1, <1>5, SizesAssumption DEF Reserve
  <2> QED BY <1>4, <1>6, <2>1
<1>8. first \in Pos /\ last \in Pos
  BY <1>7 DEF Pos
<1>9. \A p \in first .. last : p \in Pos
  BY <1>7 DEF Pos
<1> DEFINE op == << t, handled[t] + 1 >>
<1>10. desc' = [p \in Pos |-> IF p \in first .. last THEN ChainDesc(p, first, last, op, segs) ELSE desc[p]]
  <2>1. last = first + Len(segs) + 1
    BY <1>4, <1>6
  <2> QED BY <1>2, <1>5, <2>1 DEF FillSector
<1>11. /\ \A p \in first .. last : desc'[p] = ChainDesc(p, first, last, op, segs)
       /\ \A p \in Pos : p < first => desc'[p] = desc[p]
  <2> HIDE DEF op
  <2>1. \A p \in first .. last : desc'[p] = ChainDesc(p, first, last, op, segs)
    BY <1>9, <1>10
  <2>2. \A p \in Pos : p < first => p \notin first .. last
    BY <1>7 DEF Pos
  <2> QED BY <1>10, <2>1, <2>2
<1>12. PICK left \in [0 .. len -> 0 .. SectorLen] :
        /\ left[0] = SectorLen /\ left[len] = 0
        /\ \A n \in 1 .. len : left[n - 1] > 0 /\ left[n] = left[n - 1] - segs[n]
  <2>1. req[t] \in Requests /\ req[t].aligned
    BY <1>1 DEF CallInv, InCrit
  <2>2. handled[t] + 1 \in 1 .. Len(req[t].secs)
    BY <1>1 DEF NumSec
  <2>3. Covered(segs)
    BY <1>2, <2>1, <2>2, RequestsAssumption
  <2> QED BY <1>4, <2>3 DEF Covered
<1>13. Laid(first, last)'
  <2> HIDE DEF op
  <2>1. first \in Nat /\ len \in Nat /\ last \in Nat
    BY <1>4, <1>5, <1>6
  <2>2. len >= 1 /\ last = first + len + 1 /\ last < Num
    BY <1>4, <1>6, <1>7
  <2>3. Shares(segs, len, left)
    BY <1>12 DEF Shares
  <2>4. SetUp(op, segs, first, last)
    BY <1>11 DEF SetUp
  <2> QED BY <2>1, <2>2, <2>3, <2>4, ChainLaid
<1>14. last = first + Len(segs) + 1
  BY <1>4, <1>6
<1> QED BY <1>1, <1>2, <1>5, <1>7, <1>8, <1>11, <1>13, <1>14

(* A sector is added to the batch.                                         *)
LEMMA ServiceByFill ==
  ASSUME IInv, ServiceInv, NEW t \in Threads, FillSector(t)
  PROVE  ServiceInv'
<1> USE DEF IInv, ServiceInv
<1>0. PICK segs : \E first \in Pos, last \in Pos :
        /\ segs = req[t].secs[handled[t] + 1]
        /\ first = desc_pos[t] /\ last = first + Len(segs) + 1 /\ first < last
        /\ handled[t] < NumSec(t) /\ handled[t] \in Nat
        /\ \A p \in first .. last : desc'[p] = ChainDesc(p, first, last, << t, handled[t] + 1 >>, segs)
        /\ \A p \in Pos : p < first => desc'[p] = desc[p]
        /\ Laid(first, last)'
  BY FillLaid
<1>1. PICK first \in Pos, last \in Pos :
        /\ segs = req[t].secs[handled[t] + 1]
        /\ first = desc_pos[t] /\ last = first + Len(segs) + 1 /\ first < last
        /\ handled[t] < NumSec(t) /\ handled[t] \in Nat
        /\ \A p \in first .. last : desc'[p] = ChainDesc(p, first, last, << t, handled[t] + 1 >>, segs)
        /\ \A p \in Pos : p < first => desc'[p] = desc[p]
        /\ Laid(first, last)'
  BY <1>0
<1>2. first = desc_pos[t]
  BY <1>1
<1>3. last = first + Len(segs) + 1
  BY <1>1
<1>4. PICK k : k = handled[t] + 1
  OBVIOUS
<1>5. PICK s : s = avail_idx[t]
  OBVIOUS
<1>6. /\ first \in Nat /\ first < last /\ last \in Nat
      /\ handled[t] < NumSec(t) /\ handled[t] \in Nat
      /\ \A p \in first .. last : desc'[p] = ChainDesc(p, first, last, << t, k >>, segs)
      /\ \A p \in Pos : p < first => desc'[p] = desc[p]
      /\ Laid(first, last)'
  <2>1. first \in Nat /\ last \in Nat
    BY SizesAssumption DEF Pos
  <2> QED BY <1>1, <1>4, <2>1
<1>7. /\ pc[t] = "fill" /\ pc' = [pc EXCEPT ![t] = LeaveFill(t)] /\ LeaveFill(t) \in {"event", "fill"}
      /\ avail_ring' = [avail_ring EXCEPT ![Slot(s)] = first]
      /\ avail_idx' = [avail_idx EXCEPT ![t] = Inc(s)]
      /\ desc_pos' = [desc_pos EXCEPT ![t] = last + 1]
      /\ handled' = [handled EXCEPT ![t] = k]
      /\ UNCHANGED << req, io, ops_failure, avail, used_ring, used, last_used_idx, dev_avail, inflight >>
  BY <1>1, <1>2, <1>3, <1>4, <1>5 DEF FillSector, LeaveFill, callVars, devRing, devVars
<1>8. /\ pc \in [Threads -> {"idle", "lock", "loop", "fill", "event", "publish", "kick", "wait",
                         "ack", "intdone", "drain", "return"}]
      /\ avail_ring \in [Pos -> Pos] /\ s \in Idx /\ avail \in Idx
      /\ avail_idx'[t] = Inc(s) /\ desc_pos'[t] = last + 1 /\ handled'[t] = k
      /\ \A u \in Threads : u # t => avail_idx'[u] = avail_idx[u] /\ handled'[u] = handled[u]
                                     /\ desc_pos'[u] = desc_pos[u]
  BY <1>5, <1>7 DEF TypeOK, CallTypes, BatchTypes, RingTypes, IndexTypes
<1>9. /\ pc'[t] \in Filling /\ pc[t] \in Filling
      /\ \A u \in Threads : u # t => pc'[u] = pc[u] /\ pc[u] \notin InCrit
  <2>1. \A u \in Threads : u # t => pc[u] \notin InCrit
    BY <1>7, Alone DEF InCrit
  <2> QED BY <1>7, <1>8, <2>1 DEF Filling
<1>10. \A u \in Threads : pc[u] \notin Published /\ pc'[u] \notin Published
  BY <1>9 DEF Filling, Published, InCrit
<1>11. Undrained = {} /\ Undrained' = {}
  <2>1. avail = last_used_idx
    BY <1>10, IdleQueue
  <2>2. Undrained = {}
    BY <2>1, Drained
  <2> QED BY <1>7, <2>2 DEF Undrained
<1>12. Sub(s, avail) = ops_counter[t] /\ Sub(s, avail) < Num /\ Sub(s, avail) + 1 < IdxMod
       /\ Sub(s, avail) \in Nat
  <2>1. Sub(s, avail) = ops_counter[t]
    BY <1>5, <1>9 DEF CounterInv
  <2> QED BY <2>1, FewChains
<1>13. Added(t) = Between(avail, s) /\ Added(t)' = Between(avail, Inc(s))
  BY <1>5, <1>7, <1>8 DEF Added, Between
<1>14. s \notin Added(t) /\ Added(t)' = Added(t) \cup {s}
  BY <1>8, <1>12, <1>13, Grow
<1>15. /\ \A i \in Added(t) : Entry(i)' = Entry(i)
       /\ Entry(s)' = first
  <2>1. \A i \in Idx : Slot(i) \in Pos
    BY SlotInRing
  <2>2. ASSUME NEW i \in Added(t)
        PROVE  Slot(i) # Slot(s)
    <3>1. i \in Idx /\ Sub(i, avail) < Sub(s, avail) /\ i # s
      BY <1>13, <1>14 DEF Between
    <3>2. Sub(i, avail) \in Nat /\ Num \in Nat
      BY <1>8, <3>1, IndexFacts, SizesAssumption DEF Idx
    <3>3. Sub(i, avail) < Num
      BY <1>12, <3>1, <3>2
    <3> QED BY <1>8, <1>12, <3>1, <3>3, SlotsApart
  <2>3. \A i \in Added(t) : i \in Idx
    BY DEF Added
  <2>4. \A i : Entry(i)' = avail_ring'[Slot(i)]
    BY DEF Entry
  <2>5. \A i \in Added(t) : avail_ring'[Slot(i)] = avail_ring[Slot(i)]
    BY <1>7, <1>8, <2>1, <2>2, <2>3
  <2>6. avail_ring'[Slot(s)] = first
    BY <1>7, <1>8, <2>1
  <2> QED BY <2>4, <2>5, <2>6 DEF Entry
<1>16. ASSUME NEW h, NEW l \in Pos, ToDo(t, h, l), l < first
       PROVE  ToDo(t, h, l)' /\ Op(h)' = Op(h)
  <2>1. h \in Nat /\ l \in Nat /\ h < l /\ h \in Pos
    BY <1>16 DEF ToDo, Laid, Pos
  <2>2. \A p \in h .. l : p \in Pos /\ p < first
    BY <1>6, <1>16, <2>1, SizesAssumption DEF Pos
  <2>3. \A p \in h .. l : desc'[p] = desc[p]
    BY <1>6, <2>2
  <2>4. h \in h .. l
    BY <2>1
  <2>5. \A p \in h .. l - 1 : p \in h .. l
    BY <2>1
  <2>6. Laid(h, l)'
    <3>1. Laid(h, l)
      BY <1>16 DEF ToDo
    <3>2. \A p \in h .. l : desc'[p].op = desc'[h].op /\ desc'[p].more = (p # l)
      <4>1. \A p \in h .. l : desc[p].op = desc[h].op /\ desc[p].more = (p # l)
        BY <3>1 DEF Laid
      <4> QED BY <2>3, <2>4, <4>1, Zenon
    <3>3. \A p \in h .. l - 1 : desc'[p].next = p + 1
      BY <2>3, <2>5, <3>1 DEF Laid
    <3>4. PICK left \in [h .. l -> 0 .. HeaderLen + SectorLen] :
            /\ left[h] = HeaderLen + SectorLen /\ left[l] = 0
            /\ \A p \in h .. l - 1 : left[p] # 0 /\ left[p + 1] = left[p] - desc[p].len
      BY <3>1 DEF Laid
    <3>5. \A p \in h .. l - 1 : left[p] # 0 /\ left[p + 1] = left[p] - desc'[p].len
      BY <2>3, <2>5, <3>4
    <3> QED BY <2>1, <3>2, <3>3, <3>4, <3>5 DEF Laid
  <2>7. Op(h)' = Op(h)
    BY <2>3, <2>4 DEF Op
  <2>8. PICK j \in 1 .. handled[t] : Op(h) = << t, j >> /\ io[t][j] = "todo"
    BY <1>16 DEF ToDo
  <2>9. j \in 1 .. k
    BY <1>4, <1>6
  <2> QED BY <1>7, <1>8, <2>6, <2>7, <2>8, <2>9 DEF ToDo
<1>17. /\ k \in 1 .. NumSec(t) /\ k \in 1 .. k /\ handled[t] < k /\ k \in Nat
       /\ io[t][k] = "todo"
  <2>1. NumSec(t) \in Nat
    BY RequestTypes DEF TypeOK
  <2>2. k \in 1 .. NumSec(t) /\ k \in 1 .. k /\ handled[t] < k /\ k \in Nat
    BY <1>4, <1>6, <2>1
  <2> QED BY <2>2 DEF CallInv
<1>18. Op(first)' = << t, k >> /\ ToDo(t, first, last)'
  <2>1. first \in first .. last
    BY <1>6 DEF Pos
  <2>2. Op(first)' = << t, k >>
    <3>1. \A x : ChainDesc(x, first, last, << t, k >>, segs).op = << t, k >>
      BY DEF ChainDesc
    <3> QED BY <1>6, <2>1, <3>1 DEF Op
  <2> QED BY <1>6, <1>7, <1>8, <1>17, <2>2 DEF ToDo
<1>19. ASSUME NEW i \in Added(t)
       PROVE  \E l \in Pos, j \in 1 .. handled[t] :
                ToDo(t, Entry(i), l)' /\ l < first /\ Op(Entry(i))' = << t, j >> /\ Op(Entry(i)) = << t, j >>
  <2>1. PICK h : h = Entry(i)
    OBVIOUS
  <2>2. PICK l \in Pos : ToDo(t, h, l) /\ l < first
    BY <1>2, <1>9, <2>1 DEF AddedInv
  <2>3. PICK j \in 1 .. handled[t] : Op(h) = << t, j >>
    BY <2>2 DEF ToDo
  <2>4. ToDo(t, h, l)' /\ Op(h)' = << t, j >>
    BY <1>16, <2>2, <2>3
  <2>5. Entry(i)' = h
    BY <1>15, <2>1
  <2>6. Op(Entry(i))' = Op(h)' /\ (ToDo(t, Entry(i), l)' <=> ToDo(t, h, l)')
    BY <2>5 DEF Op, ToDo, Laid
  <2> QED BY <2>1, <2>2, <2>3, <2>4, <2>6
<1>20. Op(Entry(s))' = << t, k >> /\ ToDo(t, Entry(s), last)'
  <2>1. Op(Entry(s))' = Op(first)' /\ (ToDo(t, Entry(s), last)' <=> ToDo(t, first, last)')
    BY <1>15 DEF Op, ToDo, Laid
  <2> QED BY <1>18, <2>1
<1>21. CallInv'
  <2>1. ASSUME NEW u \in Threads
        PROVE  /\ io'[u] \in [1 .. NumSec(u)' -> {"todo", "ok", "err"}]
               /\ handled'[u] <= NumSec(u)'
               /\ \A j \in 1 .. NumSec(u)' : j > handled'[u] => io'[u][j] = "todo"
               /\ pc'[u] \in {"idle", "lock"} => handled'[u] = 0 /\ ~ops_failure'[u]
               /\ pc'[u] \notin {"idle", "return"} =>
                    req'[u] \in Requests /\ Refusal(req'[u]) = "ERROR_IO_PENDING"
               /\ pc'[u] \in InCrit \cup {"loop"} => req'[u].aligned
    <3>1. NumSec(u)' = NumSec(u)
      BY <1>7 DEF NumSec
    <3>2. CASE u = t
      <4>1. \A j \in 1 .. NumSec(t) : j > k => j > handled[t]
        BY <1>6, <1>17
      <4>2. pc'[t] \notin {"idle", "lock"} /\ pc[t] \notin {"idle", "return"} /\ pc[t] \in InCrit
            /\ k <= NumSec(t)
        BY <1>9, <1>17 DEF Filling, InCrit
      <4> QED BY <1>7, <1>8, <3>1, <3>2, <4>1, <4>2 DEF CallInv
    <3>3. CASE u # t
      BY <1>7, <1>8, <1>9, <3>1, <3>3 DEF CallInv
    <3> QED BY <3>2, <3>3
  <2>2. io' = [u \in Threads |-> io'[u]]
    BY <1>7 DEF CallInv
  <2> QED BY <2>1, <2>2 DEF CallInv
<1>22. AddedInv'
  <2>1. ASSUME NEW i \in Added(t)' PROVE \E l \in Pos : ToDo(t, Entry(i), l)' /\ l < desc_pos'[t]
    <3>1. CASE i = s
      <4>1. last < last + 1
        BY <1>6
      <4> QED BY <1>6, <1>8, <1>20, <3>1, <4>1
    <3>2. CASE i \in Added(t)
      <4>1. PICK l \in Pos : ToDo(t, Entry(i), l)' /\ l < first
        BY <1>19, <3>2
      <4>2. l < last + 1
        BY <1>6, <4>1 DEF Pos
      <4> QED BY <1>8, <4>1, <4>2
    <3> QED BY <1>14, <3>1, <3>2
  <2>2. ASSUME NEW i \in Added(t)', NEW j \in Added(t)', i # j
        PROVE  Op(Entry(i))' # Op(Entry(j))'
    <3>1. CASE i \in Added(t) /\ j \in Added(t)
      <4>1. Op(Entry(i)) # Op(Entry(j))
        BY <1>9, <2>2, <3>1 DEF AddedInv
      <4> QED BY <1>19, <3>1, <4>1
    <3>2. CASE i \in Added(t) /\ j = s
      <4>1. PICK n \in 1 .. handled[t] : Op(Entry(i))' = << t, n >>
        BY <1>19, <3>2
      <4>2. n # k
        BY <1>6, <1>17
      <4>3. Op(Entry(j))' = << t, k >>
        BY <1>20, <3>2
      <4> QED BY <4>1, <4>2, <4>3
    <3>3. CASE i = s /\ j \in Added(t)
      <4>1. PICK n \in 1 .. handled[t] : Op(Entry(j))' = << t, n >>
        BY <1>19, <3>3
      <4>2. n # k
        BY <1>6, <1>17
      <4>3. Op(Entry(i))' = << t, k >>
        BY <1>20, <3>3
      <4> QED BY <4>1, <4>2, <4>3
    <3> QED BY <1>14, <2>2, <3>1, <3>2, <3>3
  <2>3. \A u \in Threads : pc'[u] \in Filling => u = t
    BY <1>9 DEF Filling, InCrit
  <2> QED BY <2>1, <2>2, <2>3 DEF AddedInv
<1>23. DeviceInv'
  BY <1>10 DEF DeviceInv
<1>24. FailureInv'
  <2>1. ASSUME NEW u \in Threads, pc'[u] \in InCrit \cup {"loop"}
        PROVE  /\ ops_failure[u] => \E j \in 1 .. handled'[u] : io[u][j] = "err"
               /\ \A j \in 1 .. handled'[u] : io[u][j] = "err" => ops_failure[u]
    <3>1. CASE u = t
      <4>1. \A j \in 1 .. k : j = k \/ j \in 1 .. handled[t]
        BY <1>4, <1>6
      <4>2. \A j \in 1 .. handled[t] : j \in 1 .. k
        BY <1>4, <1>6
      <4>3. pc[t] \in InCrit
        BY <1>9 DEF InCrit, Filling
      <4> QED BY <1>8, <1>11, <1>17, <3>1, <4>1, <4>2, <4>3 DEF FailureInv
    <3>2. CASE u # t
      BY <1>8, <1>9, <1>11, <2>1, <3>2 DEF FailureInv
    <3> QED BY <3>1, <3>2
  <2> QED BY <1>7, <2>1 DEF FailureInv
<1>25. TodoInv'
  <2>1. ASSUME NEW j \in 1 .. k, io[t][j] = "todo"
        PROVE  Remembered(t, j)'
    <3>1. CASE j = k
      BY <1>9, <1>14, <1>20, <3>1 DEF Remembered
    <3>2. CASE j # k
      <4>1. j \in 1 .. handled[t]
        BY <1>4, <1>6, <3>2
      <4>2. PICK i \in Added(t) : Op(Entry(i)) = << t, j >>
        BY <1>7, <1>10, <2>1, <4>1 DEF TodoInv, Remembered, InCrit
      <4>3. Op(Entry(i))' = << t, j >>
        BY <1>19, <4>2
      <4> QED BY <1>9, <1>14, <4>2, <4>3 DEF Remembered
    <3> QED BY <3>1, <3>2
  <2>2. \A u \in Threads : u # t => (pc[u] = "loop" => \A j \in 1 .. handled[u] : io[u][j] # "todo")
    BY DEF TodoInv, Remembered, Filling, Published
  <2> QED BY <1>7, <1>8, <1>9, <2>1, <2>2 DEF TodoInv
<1> QED BY <1>21, <1>22, <1>23, <1>24, <1>25

(* No thread has called yet.                                               *)
LEMMA InitServiceInv == Init => ServiceInv
<1> SUFFICES ASSUME Init PROVE ServiceInv
  OBVIOUS
<1> USE DEF Init
<1>1. CallInv
  <2>1. io = [t \in Threads |-> io[t]]
    OBVIOUS
  <2>2. \A t \in Threads : NumSec(t) = 0 /\ io[t] = << >>
    BY DEF NumSec, NoRequest, Untouched
  <2>3. << >> \in [1 .. 0 -> {"todo", "ok", "err"}]
    OBVIOUS
  <2>4. \A t \in Threads : pc[t] = "idle" /\ handled[t] = 0 /\ ~ops_failure[t]
    OBVIOUS
  <2>5. ASSUME NEW t \in Threads
        PROVE  /\ io[t] \in [1 .. NumSec(t) -> {"todo", "ok", "err"}]
               /\ handled[t] <= NumSec(t)
               /\ \A k \in 1 .. NumSec(t) : k > handled[t] => io[t][k] = "todo"
    <3>1. NumSec(t) = 0 /\ io[t] = << >> /\ handled[t] = 0
      BY <2>2, <2>4
    <3> QED BY <2>3, <3>1
  <2> HIDE DEF Init
  <2> QED BY <2>1, <2>4, <2>5 DEF CallInv, InCrit
<1>2. AddedInv /\ DeviceInv
  BY DEF AddedInv, DeviceInv, Filling, Published
<1>3. FailureInv /\ TodoInv
  BY DEF FailureInv, TodoInv, InCrit
<1> QED BY <1>1, <1>2, <1>3 DEF ServiceInv

(* Every step keeps what the promise rests on.                             *)
LEMMA NextServiceInv ==
  ASSUME IInv, ServiceInv, [Next]_vars
  PROVE  ServiceInv'
<1>1. ASSUME NEW t \in Threads,
             \/ \E r \in Requests : Submit(t, r)
             \/ LockPages(t) \/ Finish(t) \/ Return(t)
      PROVE  ServiceInv'
  BY <1>1, ServiceByCall
<1>2. ASSUME \/ \E t \in Threads : SetUsedEvent(t) \/ Notify(t) \/ Wake(t) \/ Timeout(t) \/ Ack(t)
                                     \/ IntDone(t) \/ WaitMore(t)
             \/ Interrupt \/ DevStart \/ DevLoseKick \/ DevRearm \/ DevSleep \/ DevSignal
             \/ UNCHANGED vars
      PROVE  ServiceInv'
  BY <1>2, ServiceByQuiet
<1>3. ASSUME NEW t \in Threads, Enter(t) \/ FillSector(t) \/ Publish(t) \/ DrainOne(t) \/ Leave(t)
      PROVE  ServiceInv'
  BY <1>3, ServiceByEnter, ServiceByFill, ServiceByPublish, ServiceByDrain, ServiceByLeave
<1>4. ASSUME DevFetch \/ \E i \in DOMAIN inflight, res \in {"ok", "err"} : DevComplete(i, res)
      PROVE  ServiceInv'
  BY <1>4, ServiceByFetch, ServiceByComplete
<1> QED BY <1>1, <1>2, <1>3, <1>4 DEF Next, InTime, Step, DevWork

(* How the promise sees a thread.                                          *)
Seen(p) == CASE p = "idle" -> "out" [] p = "return" -> "back" [] OTHER -> "in"
SeenCall == [t \in Threads |-> Seen(pc[t])]
SeenResult == [t \in Threads |-> IF pc[t] = "return" THEN sr_status[t] ELSE "ERROR_IO_PENDING"]

(* Steps inside a call are none of the promise's.                          *)
LEMMA StepInside ==
  ASSUME IInv, UNCHANGED << req, io, sr_status >>,
         \A u \in Threads : \/ pc'[u] = pc[u]
                            \/ pc[u] \notin {"idle", "return"} /\ pc'[u] \notin {"idle", "return"}
  PROVE  UNCHANGED Service!bvars
<1>1. UNCHANGED << SeenCall, SeenResult, req, io >>
  <2>1. SeenCall' = SeenCall
    BY DEF SeenCall, Seen
  <2>2. SeenResult' = SeenResult
    BY DEF SeenResult
  <2> QED BY <2>1, <2>2
<1> QED BY <1>1 DEF Service!bvars, SeenCall, Seen, SeenResult

(* A call is over when none of its sectors is left to do and its status    *)
(* says whether one of them failed.                                        *)
LEMMA OverAndTrue ==
  ASSUME IInv, ServiceInv, NEW t \in Threads, pc[t] = "loop", handled[t] >= NumSec(t)
  PROVE  /\ \A k \in DOMAIN io[t] : io[t][k] \in {"ok", "err"}
         /\ ops_failure[t] <=> \E k \in DOMAIN io[t] : io[t][k] = "err"
<1> USE DEF IInv, ServiceInv
<1>1. handled[t] = NumSec(t) /\ DOMAIN io[t] = 1 .. NumSec(t)
      /\ io[t] \in [1 .. NumSec(t) -> {"todo", "ok", "err"}]
  BY RequestTypes DEF CallInv, TypeOK, CallTypes
<1>2. \A k \in 1 .. NumSec(t) : io[t][k] # "todo"
  BY <1>1 DEF TodoInv, Remembered, Filling, Published
<1>3. \A i \in Undrained, k \in 1 .. NumSec(t) : Op(UsedEntry(i)) # << t, k >>
  <2>1. CASE \A u \in Threads : pc[u] \notin Published
    BY <2>1, IdleQueue, Drained
  <2>2. ASSUME NEW u \in Threads, pc[u] \in Published
        PROVE  \A i \in Undrained, k \in 1 .. NumSec(t) : Op(UsedEntry(i)) # << t, k >>
    <3>1. u # t
      BY <2>2 DEF Published
    <3>2. \A i \in Undrained : \E j : Op(UsedEntry(i)) = << u, j >>
      BY <2>2 DEF DeviceInv, Owed, Done
    <3> QED BY <3>1, <3>2
  <2> QED BY <2>1, <2>2
<1>4. /\ ops_failure[t] => \E k \in 1 .. handled[t] : io[t][k] = "err"
      /\ \A k \in 1 .. handled[t] : io[t][k] = "err" =>
           ops_failure[t] \/ \E i \in Undrained : Op(UsedEntry(i)) = << t, k >>
  BY DEF FailureInv
<1> QED BY <1>1, <1>2, <1>3, <1>4

(* A step that ends the work of a call returns a status it may return.     *)
LEMMA StepBack ==
  ASSUME IInv, ServiceInv, NEW t \in Threads, pc[t] \notin {"idle", "return"},
         pc' = [pc EXCEPT ![t] = "return"], req' = req, io' = io,
         NEW s \in Service!Statuses, sr_status' = [sr_status EXCEPT ![t] = s],
         Service!MayReturn(t, s)
  PROVE  Service!Next
<1> USE DEF IInv
<1>1. SeenCall[t] = "in" /\ SeenCall' = [SeenCall EXCEPT ![t] = "back"]
  BY DEF SeenCall, Seen, TypeOK, CallTypes
<1>2. SeenResult' = [SeenResult EXCEPT ![t] = s]
  BY DEF SeenResult, TypeOK, CallTypes
<1>3. Service!Return(t, s)
  BY <1>1, <1>2 DEF Service!Return, SeenCall, Seen, SeenResult
<1> QED BY <1>3 DEF Service!Next

(* The two specifications begin alike.                                     *)
LEMMA ServiceInit == Init => Service!Init
BY DEF Init, Service!Init, Service!Untouched, Untouched

(* Submit is a call or a refusal, the end of LockPages or Finish a return, *)
(* Return the taking of the result, a completion the performance of a      *)
(* sector; every other step goes unseen.                                   *)
LEMMA ServiceStep ==
  ASSUME IInv, ServiceInv, [Next]_vars
  PROVE  [Service!Next]_Service!bvars
<1> USE DEF IInv
<1>1. ASSUME NEW t \in Threads, NEW r \in Requests, Submit(t, r)
      PROVE  Service!Next
  <2>1. SeenCall[t] = "out"
    BY <1>1 DEF Submit, SeenCall, Seen
  <2>2. io' = [io EXCEPT ![t] = Service!Untouched(r)] /\ req' = [req EXCEPT ![t] = r]
    BY <1>1 DEF Submit, Service!Untouched, Untouched
  <2>3. CASE Refusal(r) = "ERROR_IO_PENDING"
    <3>1. SeenCall' = [SeenCall EXCEPT ![t] = "in"]
      BY <1>1, <2>3 DEF Submit, SeenCall, Seen, TypeOK, CallTypes
    <3>2. SeenResult' = SeenResult
      BY <1>1, <2>3 DEF Submit, SeenResult, TypeOK, CallTypes
    <3>3. Service!Call(t, r)
      BY <2>1, <2>2, <3>1, <3>2 DEF Service!Call, SeenCall, Seen, SeenResult
    <3> QED BY <3>3 DEF Service!Next
  <2>4. CASE Refusal(r) # "ERROR_IO_PENDING"
    <3>1. SeenCall' = [SeenCall EXCEPT ![t] = "back"]
      BY <1>1, <2>4 DEF Submit, SeenCall, Seen, TypeOK, CallTypes
    <3>2. SeenResult' = [SeenResult EXCEPT ![t] = Refusal(r)]
      BY <1>1, <2>4 DEF Submit, SeenResult, TypeOK, CallTypes
    <3>3. Refusal(r) \in Service!Refusals
      BY <2>4 DEF Refusal, Service!Refusals
    <3>4. Service!Refuse(t, r, Refusal(r))
      BY <2>1, <2>2, <3>1, <3>2, <3>3 DEF Service!Refuse, SeenCall, Seen, SeenResult
    <3> QED BY <3>3, <3>4 DEF Service!Next
  <2> QED BY <2>3, <2>4
<1>2. ASSUME NEW t \in Threads, LockPages(t)
      PROVE  Service!Next \/ UNCHANGED Service!bvars
  <2>1. pc[t] = "lock" /\ req' = req /\ io' = io
    BY <1>2 DEF LockPages
  <2>2. CASE pc' = [pc EXCEPT ![t] = "loop"] /\ UNCHANGED sr_status
    <3>1. \A u \in Threads : \/ pc'[u] = pc[u]
                             \/ pc[u] \notin {"idle", "return"} /\ pc'[u] \notin {"idle", "return"}
      BY <2>1, <2>2 DEF TypeOK, CallTypes
    <3> QED BY <2>1, <2>2, <3>1, StepInside
  <2>3. ASSUME NEW s \in {"ERROR_INVALID_PARAMETER", "ERROR_GEN_FAILURE"},
               pc' = [pc EXCEPT ![t] = "return"], sr_status' = [sr_status EXCEPT ![t] = s]
        PROVE  Service!Next
    <3>1. \A k \in DOMAIN io[t] : io[t][k] = "todo"
      <4>1. handled[t] = 0 /\ NumSec(t) \in Nat /\ DOMAIN io[t] = 1 .. NumSec(t)
            /\ \A k \in 1 .. NumSec(t) : k > handled[t] => io[t][k] = "todo"
        BY <2>1, RequestTypes DEF ServiceInv, CallInv, TypeOK
      <4> QED BY <4>1
    <3>2. Service!MayReturn(t, s)
      BY <3>1 DEF Service!MayReturn, Service!Outcome, Service!Refusals
    <3>3. s \in Service!Statuses
      BY DEF Service!Statuses, Service!Refusals
    <3> QED BY <2>1, <2>3, <3>2, <3>3, StepBack
  <2> QED BY <1>2, <2>2, <2>3 DEF LockPages, UnlockPages
<1>3. ASSUME NEW t \in Threads, Finish(t)
      PROVE  Service!Next
  <2>1. pc[t] = "loop" /\ req' = req /\ io' = io /\ handled[t] >= NumSec(t)
    BY <1>3 DEF Finish, workVars
  <2>2. /\ \A k \in DOMAIN io[t] : io[t][k] \in {"ok", "err"}
        /\ ops_failure[t] <=> \E k \in DOMAIN io[t] : io[t][k] = "err"
    BY <2>1, OverAndTrue
  <2> DEFINE done == IF ~ops_failure[t] THEN "ERROR_SUCCESS"
                 ELSE IF req[t].write THEN "ERROR_WRITE_FAULT" ELSE "ERROR_READ_FAULT"
  <2>3. pc' = [pc EXCEPT ![t] = "return"]
        /\ \E s \in {done, "ERROR_GEN_FAILURE"} : sr_status' = [sr_status EXCEPT ![t] = s]
    BY <1>3 DEF Finish, UnlockPages
  <2>4. Service!MayReturn(t, done)
    <3>1. CASE ~ops_failure[t]
      <4>1. Service!Outcome(t) \subseteq {"ok"}
        BY <2>2, <3>1 DEF Service!Outcome
      <4> QED BY <3>1, <4>1 DEF Service!MayReturn
    <3>2. CASE ops_failure[t]
      <4>1. Service!Outcome(t) \subseteq {"ok", "err"} /\ "err" \in Service!Outcome(t)
        BY <2>2, <3>2 DEF Service!Outcome
      <4> QED BY <3>2, <4>1 DEF Service!MayReturn, Service!Fault
    <3> QED BY <3>1, <3>2
  <2>5. Service!MayReturn(t, "ERROR_GEN_FAILURE")
    <3>1. "todo" \notin Service!Outcome(t)
      BY <2>2 DEF Service!Outcome
    <3> QED BY <3>1 DEF Service!MayReturn
  <2>6. {done, "ERROR_GEN_FAILURE"} \subseteq Service!Statuses
    BY DEF Service!Statuses, Service!Refusals
  <2> HIDE DEF done
  <2> QED BY <2>1, <2>3, <2>4, <2>5, <2>6, StepBack
<1>4. ASSUME NEW t \in Threads, Return(t)
      PROVE  Service!Next
  <2>1. SeenCall[t] = "back" /\ SeenCall' = [SeenCall EXCEPT ![t] = "out"]
    BY <1>4 DEF Return, SeenCall, Seen, TypeOK, CallTypes
  <2>2. SeenResult' = [SeenResult EXCEPT ![t] = "ERROR_IO_PENDING"]
    BY <1>4 DEF Return, SeenResult, TypeOK, CallTypes
  <2>3. io' = [io EXCEPT ![t] = Service!Untouched(NoRequest)] /\ req' = [req EXCEPT ![t] = NoRequest]
    BY <1>4 DEF Return, Service!Untouched, Untouched
  <2>4. Service!Take(t)
    BY <2>1, <2>2, <2>3 DEF Service!Take, SeenCall, Seen, SeenResult
  <2> QED BY <2>4 DEF Service!Next
<1>5. ASSUME NEW i \in DOMAIN inflight, NEW res \in {"ok", "err"}, DevComplete(i, res)
      PROVE  Service!Next
  <2>1. inflight # << >>
    OBVIOUS
  <2>2. PICK t \in Threads : pc[t] \in Published
    BY <2>1, HeldForOne
  <2>3. PICK last \in Pos, k \in 1 .. handled[t] :
           /\ Laid(inflight[i], last) /\ Op(inflight[i]) = << t, k >> /\ io[t][k] = "todo"
           /\ Chain(inflight[i])[Num - 1] = last
           /\ \A r : Effect(Chain(inflight[i]), << t, k >>, r) = r
    BY <2>2, CompleteEffect
  <2>4. /\ UNCHANGED << pc, req, sr_status >>
        /\ io' = [io EXCEPT ![t] = [j \in DOMAIN io[t] |-> IF j = k THEN res ELSE io[t][j]]]
    <3>1. desc[inflight[i]].op = << t, k >>
      BY <2>3 DEF Op
    <3>2. io' = [io EXCEPT ![t] = [j \in DOMAIN io[t] |->
                IF j = k THEN Effect(Chain(inflight[i]), << t, k >>, res) ELSE io[t][j]]]
      BY <1>5, <3>1 DEF DevComplete
    <3>3. Effect(Chain(inflight[i]), << t, k >>, res) = res
      BY <2>3
    <3>4. UNCHANGED << pc, req, sr_status >>
      BY <1>5 DEF DevComplete, callVars
    <3> QED BY <3>2, <3>3, <3>4
  <2>5. k \in DOMAIN io[t]
    <3>1. handled[t] \in Nat /\ NumSec(t) \in Nat /\ handled[t] <= NumSec(t)
          /\ DOMAIN io[t] = 1 .. NumSec(t)
      BY RequestTypes DEF ServiceInv, CallInv, TypeOK, CallTypes
    <3> QED BY <3>1
  <2>6. req[t].write => ~ReadOnly
    <3>1. Refusal(req[t]) = "ERROR_IO_PENDING"
      BY <2>2 DEF ServiceInv, CallInv, Published
    <3> QED BY <3>1 DEF Refusal
  <2>7. io' = [io EXCEPT ![t][k] = res]
    BY <2>4, <2>5
  <2>8. SeenCall[t] = "in" /\ SeenCall' = SeenCall /\ SeenResult' = SeenResult
    BY <2>2, <2>4 DEF SeenCall, Seen, SeenResult, Published
  <2>9. Service!Perform(t, k, res)
    BY <2>3, <2>4, <2>6, <2>7, <2>8 DEF Service!Perform, SeenCall, Seen, SeenResult
  <2> QED BY <2>5, <2>9 DEF Service!Next
<1>6. ASSUME NEW t \in Threads,
             \/ Enter(t) \/ FillSector(t) \/ SetUsedEvent(t) \/ Publish(t) \/ Notify(t) \/ Timeout(t)
             \/ Wake(t) \/ Ack(t) \/ IntDone(t) \/ DrainOne(t) \/ WaitMore(t) \/ Leave(t)
      PROVE  UNCHANGED Service!bvars
  <2>1. UNCHANGED << req, io, sr_status >>
    BY <1>6 DEF Enter, FillSector, SetUsedEvent, Publish, Notify, Timeout, Wake, Ack, IntDone, DrainOne,
       WaitMore, Leave, callVars
  <2>2. pc[t] \in InCrit \cup {"loop"} /\ pc'[t] \in InCrit \cup {"loop"}
        /\ (pc' = pc \/ \E x : pc' = [pc EXCEPT ![t] = x])
    BY <1>6 DEF Enter, FillSector, LeaveFill, SetUsedEvent, Publish, Notify, Timeout, Wake, Ack, IntDone, DrainOne,
       WaitMore, Leave, InCrit, TypeOK, CallTypes
  <2>3. \A u \in Threads : \/ pc'[u] = pc[u]
                           \/ pc[u] \notin {"idle", "return"} /\ pc'[u] \notin {"idle", "return"}
    BY <2>2 DEF InCrit, TypeOK, CallTypes
  <2> QED BY <2>1, <2>3, StepInside
<1>7. ASSUME \/ Interrupt \/ DevStart \/ DevLoseKick \/ DevRearm \/ DevSleep \/ DevSignal \/ DevFetch
             \/ UNCHANGED vars
      PROVE  UNCHANGED Service!bvars
  <2>1. UNCHANGED << pc, req, io, sr_status >>
    BY <1>7 DEF Interrupt, DevStart, DevLoseKick, DevRearm, DevSleep, DevSignal, DevFetch, vars, callVars
  <2> QED BY <2>1, StepInside
<1> QED BY <1>1, <1>2, <1>3, <1>4, <1>5, <1>6, <1>7 DEF Next, InTime, Step, DevWork

(* virtio_blk keeps the promise of BlkService for any threads, requests    *)
(* and ring: every sector of a request is carried out exactly once, between*)
(* its call and its return, and sr_status tells the truth about all of them*)
(* (virtio.c:216-446).                                                     *)
THEOREM ImplementsService == Spec => ServiceSpec
<1>1. IInv /\ ServiceInv /\ [Next]_vars => ServiceInv'
  BY NextServiceInv
<1>2. Spec => [](IInv /\ ServiceInv)
  BY <1>1, InitServiceInv, Invariance, PTL DEF Spec
<1>3. IInv /\ ServiceInv /\ [Next]_vars => [Service!Next]_Service!bvars
  BY ServiceStep
<1> QED BY <1>2, <1>3, ServiceInit, PTL DEF Spec, ServiceSpec, Service!Spec
=============================================================================
