-------------------------- MODULE Lifecycles_proofs --------------------------
(***************************************************************************)
(* The parts of Lifecycles.  The disk list of virtio_blk, for any number   *)
(* of user threads and disks: no freed disk is followed, the list is       *)
(* guarded and holds exactly the disks that live, and no active disk is    *)
(* refused.  And netkvm's receiving and its binding to a virtual function, *)
(* whose theorems NetkvmReceive_proofs and NetkvmProtocol_proofs have,     *)
(* stated of their places in Lifecycles.                                   *)
(***************************************************************************)
EXTENDS Lifecycles, FiniteSets, WellFoundedInduction, TLAPS

(* The device manager activates and deactivates one disk at a time and     *)
(* keeps out of the way of calls, and every device answers.  Without       *)
(* either the properties do not hold: see the runs dsk_close_race and      *)
(* dsk_failed_init.                                                        *)
Orderly == ManagerWaits /\ ~InitFails /\ \A m, n \in Managers : m = n

Inside  == {"setup", "check", "walk", "unlink", "unlinking", "seek"}
Outside == {"link", "linking", "sleep", "drain", "drained", "delete", "free"}
Leaving == {"check", "walk", "unlink", "unlinking", "seek", "sleep", "drain", "drained",
            "delete", "free"}
Walking == {"walk", "linking", "unlinking", "seek"}

(* The disks in the list, and all that are allocated.                      *)
Members == active \cup Pending(Inside)

HeapInv ==
  /\ live = Members \cup Pending(Outside)
  /\ active \cap Pending(Inside \cup Outside) = {}
  /\ \A p \in live : card[p] = "deleted" => p \in Pending({"free"})

(* A user is in a disk only while it is in the list, and in none that is   *)
(* being deactivated.                                                      *)
UserInv ==
  \A u \in Users :
    /\ pc[u] \in {"idle", "check", "walk", "io", "batch"}
    /\ pc[u] \in {"io", "batch"} => pDisk[u] \in Members
    /\ pc[u] # "idle" => pDisk[u] \in Disks /\ pDisk[u] \notin Pending(Leaving)
    /\ pc[u] # "idle" => left[u] \in 1 .. Batches

ManagerInv ==
  \A m \in Managers :
    /\ pc[m] \notin {"io", "batch"}
    /\ pc[m] \in Inside \cup Outside => pDisk[m] \in Disks

(* The n disks of s, in this order, are what hangs on v_DiskList.          *)
At(n, s, i) == IF i <= n THEN s[i] ELSE NULL

List(n, s) ==
  /\ s \in [1 .. n -> Disks] /\ \A i, j \in 1 .. n : s[i] = s[j] => i = j
  /\ v_DiskList = At(n, s, 1)
  /\ \A i \in 1 .. n : d_next[s[i]] = At(n, s, i + 1)
  /\ \A p \in Disks : p \in Members <=> \E i \in 1 .. n : s[i] = p

(* A walk has not passed the disk it looks for.                            *)
WalkInv(n, s) ==
  \A t \in Threads : pc[t] = "walk" =>
    \E i \in 1 .. n + 1 : pd[t] = At(n, s, i) /\ \A j \in 1 .. n : s[j] = pDisk[t] => i <= j

SeekInv(n, s) ==
  \A m \in Managers : pc[m] = "seek" =>
    \E i, j \in 1 .. n : pd[m] = s[i] /\ s[j] = pDisk[m] /\ i < j

Shape(n, s) == List(n, s) /\ WalkInv(n, s) /\ SeekInv(n, s)
Plain == TypeOK /\ HeapInv /\ UserInv /\ ManagerInv /\ ListGuarded

DskInv == Plain /\ \E n \in Nat : \E s \in [1 .. n -> Disks] : Shape(n, s)
-----------------------------------------------------------------------------
Labels == {"idle", "create", "io", "batch"} \cup Inside \cup Outside

LEMMA Basics ==
  /\ NULL \notin Disks /\ NoThread \notin Threads /\ "deleted" \notin Threads
  /\ NoThread # "deleted" /\ Users \cap Managers = {} /\ Threads = Users \cup Managers
BY LifecycleAssumption DEF Threads

(* What the manager is about to do is not the users' to change ...         *)
LEMMA PendingKept ==
  ASSUME \A m \in Managers : pc'[m] = pc[m] /\ pDisk'[m] = pDisk[m]
  PROVE  \A labels : Pending(labels)' = Pending(labels)
BY DEF Pending

(* ... and is with one disk.                                               *)
LEMMA PendingOne ==
  ASSUME Orderly, NEW m \in Managers
  PROVE  \A labels : Pending(labels) = IF pc[m] \in labels THEN {pDisk[m]} ELSE {}
BY DEF Pending, Orderly

LEMMA PendingOneNext ==
  ASSUME Orderly, NEW m \in Managers
  PROVE  \A labels : Pending(labels)' = IF pc'[m] \in labels THEN {pDisk'[m]} ELSE {}
BY DEF Pending, Orderly

LEMMA PendingSame ==
  ASSUME Orderly, NEW m \in Managers, pDisk'[m] = pDisk[m]
  PROVE  \A labels : (pc'[m] \in labels <=> pc[m] \in labels)
                       => Pending(labels)' = Pending(labels)
BY PendingOne, PendingOneNext

(* The list is the same while no pointer and no member changes.            *)
LEMMA ListKept ==
  ASSUME NEW n \in Nat, NEW s \in [1 .. n -> Disks], List(n, s), UNCHANGED listVars, Members' = Members
  PROVE  List(n, s)'
BY DEF List, listVars, At

(* Walks go on where they are while others step.                           *)
LEMMA PlacesKept ==
  ASSUME NEW n \in Nat, NEW s \in [1 .. n -> Disks], NEW t \in Threads,
         WalkInv(n, s), SeekInv(n, s), pc'[t] \notin {"walk", "seek"},
         \A x \in Threads \ {t} : pc'[x] = pc[x] /\ pDisk'[x] = pDisk[x] /\ pd'[x] = pd[x]
  PROVE  WalkInv(n, s)' /\ SeekInv(n, s)'
<1>1. WalkInv(n, s)'
  <2> SUFFICES ASSUME NEW x \in Threads, pc'[x] = "walk"
               PROVE  \E i \in 1 .. n + 1 : /\ pd'[x] = At(n, s, i)
                                            /\ \A j \in 1 .. n : s[j] = pDisk'[x] => i <= j
    BY DEF WalkInv, At
  <2>1. pc[x] = "walk" /\ pDisk'[x] = pDisk[x] /\ pd'[x] = pd[x]
    OBVIOUS
  <2> QED BY <2>1 DEF WalkInv
<1>2. SeekInv(n, s)'
  <2> SUFFICES ASSUME NEW m \in Managers, pc'[m] = "seek"
               PROVE  \E i, j \in 1 .. n : pd'[m] = s[i] /\ s[j] = pDisk'[m] /\ i < j
    BY DEF SeekInv
  <2>1. pc[m] = "seek" /\ pDisk'[m] = pDisk[m] /\ pd'[m] = pd[m]
    BY Basics
  <2> QED BY <2>1 DEF SeekInv
<1> QED BY <1>1, <1>2

(* The list's critical section is kept while others step, given back, or   *)
(* taken when it is free.                                                  *)
LEMMA GuardKept ==
  ASSUME TypeOK, ListGuarded, NEW t \in Threads, pc' = [pc EXCEPT ![t] = pc'[t]],
         \/ v_DiskCrit' = v_DiskCrit /\ (pc'[t] \in Walking => pc[t] \in Walking)
         \/ v_DiskCrit' = NoThread /\ pc[t] \in Walking /\ pc'[t] \notin Walking
         \/ v_DiskCrit = NoThread /\ v_DiskCrit' = t
  PROVE  ListGuarded'
<1>1. \A x \in Threads \ {t} : pc'[x] = pc[x]
  BY DEF TypeOK
<1> QED BY <1>1, Basics DEF ListGuarded, Walking
-----------------------------------------------------------------------------
LEMMA InitDskInv == Init => DskInv
<1> SUFFICES ASSUME Init PROVE DskInv
  OBVIOUS
<1> USE DEF Init
<1>1. \A labels : "idle" \notin labels => Pending(labels) = {}
  BY DEF Pending, Threads
<1>2. Pending(Inside) = {} /\ Pending(Outside) = {} /\ Pending(Inside \cup Outside) = {}
  BY <1>1 DEF Inside, Outside
<1>3. TypeOK
  BY LifecycleAssumption DEF TypeOK
<1>4. HeapInv /\ UserInv /\ ManagerInv /\ ListGuarded
  BY <1>2 DEF HeapInv, UserInv, ManagerInv, ListGuarded, Members, Inside, Outside, Threads
<1> DEFINE s == [i \in 1 .. 0 |-> NULL]
<1>5. s \in [1 .. 0 -> Disks]
  OBVIOUS
<1>6. List(0, s)
  BY <1>2, <1>5 DEF List, At, Members
<1>7. WalkInv(0, s) /\ SeekInv(0, s)
  BY Basics DEF WalkInv, SeekInv
<1> HIDE DEF s
<1> QED BY <1>3, <1>4, <1>5, <1>6, <1>7 DEF DskInv, Plain, Shape

(* A call: of a disk the manager is not deactivating.                      *)
LEMMA CallStep ==
  ASSUME Orderly, Plain, NEW n \in Nat, NEW s \in [1 .. n -> Disks], Shape(n, s),
         NEW u \in Users, NEW p \in Disks, NEW k \in 1 .. Batches, Call(u, p, k)
  PROVE  Plain' /\ Shape(n, s)'
<1> USE DEF Plain
<1>1. /\ pc' = [pc EXCEPT ![u] = "check"] /\ pDisk' = [pDisk EXCEPT ![u] = p]
      /\ left' = [left EXCEPT ![u] = k]
      /\ UNCHANGED << pd, listVars, v_DiskCrit, card, heapVars >>
      /\ pc[u] = "idle" /\ Settled(p) /\ u \in Threads /\ u \notin Managers
  BY Basics DEF Call, Goto, Orderly
<1>2. TypeOK'
  BY <1>1, LifecycleAssumption DEF TypeOK, listVars, heapVars
<1>3. \A labels : Pending(labels)' = Pending(labels)
  BY <1>1, Basics, PendingKept DEF TypeOK
<1>4. p \notin Pending(Leaving)
  BY <1>1 DEF Settled, Using, Pending, Leaving
<1>5. Members' = Members
  BY <1>1, <1>3 DEF Members, heapVars
<1>6. HeapInv'
  BY <1>1, <1>3, <1>5 DEF HeapInv, heapVars
<1>7. UserInv'
  BY <1>1, <1>3, <1>4, <1>5 DEF UserInv, TypeOK, Threads
<1>8. ManagerInv'
  BY <1>1, Basics DEF ManagerInv, TypeOK
<1>9. ListGuarded'
  BY <1>1, GuardKept DEF Walking, TypeOK
<1>10. List(n, s)'
  BY <1>1, <1>5, ListKept DEF Shape
<1>11. WalkInv(n, s)' /\ SeekInv(n, s)'
  BY <1>1, PlacesKept DEF Shape, TypeOK
<1> QED BY <1>2, <1>6, <1>7, <1>8, <1>9, <1>10, <1>11 DEF Shape

(* A batch: the disk is in the list, so its critical section is there.     *)
LEMMA BatchStep ==
  ASSUME Orderly, Plain, NEW n \in Nat, NEW s \in [1 .. n -> Disks], Shape(n, s),
         NEW u \in Users, EnterBatch(u) \/ LeaveBatch(u)
  PROVE  Plain' /\ Shape(n, s)'
<1> USE DEF Plain
<1>1. /\ pc[u] \in {"io", "batch"} /\ pc' = [pc EXCEPT ![u] = pc'[u]]
      /\ pc'[u] \in {"io", "batch", "idle"} /\ u \in Threads /\ u \notin Managers
      /\ pDisk[u] \in Disks /\ pDisk[u] \in Members /\ pDisk' = pDisk /\ pd' = pd
      /\ \E c \in {u, NoThread} : card' = [card EXCEPT ![pDisk[u]] = c]
      /\ UNCHANGED << listVars, v_DiskCrit, heapVars >>
  BY Basics DEF EnterBatch, LeaveBatch, Goto, UserInv, TypeOK, walkVars
<1>2. TypeOK'
  <2>1. left' \in [Threads -> 0 .. Batches]
    <3>1. CASE EnterBatch(u)
      BY <3>1 DEF EnterBatch, walkVars, TypeOK
    <3>2. CASE LeaveBatch(u)
      <4>1. left[u] \in 0 .. Batches /\ Batches \in Nat
        BY <1>1, LifecycleAssumption DEF TypeOK
      <4>2. left[u] - 1 \in 0 .. Batches
        BY <1>1, <4>1 DEF UserInv
      <4> QED BY <3>2, <4>2 DEF LeaveBatch, TypeOK
    <3> QED BY <3>1, <3>2
  <2>2. card' \in [Disks -> Threads \cup {NoThread, "deleted"}]
    <3>1. PICK c \in {u, NoThread} : card' = [card EXCEPT ![pDisk[u]] = c]
      BY <1>1
    <3>2. c \in Threads \cup {NoThread, "deleted"}
      BY <1>1, <3>1
    <3> QED BY <3>1, <3>2 DEF TypeOK
  <2>3. pc'[u] \in {"io", "batch", "idle"} /\ pc \in [Threads -> Labels]
    BY <1>1 DEF TypeOK, Labels, Inside, Outside
  <2>4. pc' \in [Threads -> Labels]
    BY <1>1, <2>3 DEF Labels
  <2> QED BY <1>1, <2>1, <2>2, <2>4 DEF TypeOK, listVars, heapVars, Labels, Inside, Outside
<1>3. \A labels : Pending(labels)' = Pending(labels)
  BY <1>1, Basics, PendingKept DEF TypeOK
<1>4. Members' = Members
  BY <1>1, <1>3 DEF Members, heapVars
<1>5. HeapInv'
  <2>1. PICK c \in {u, NoThread} : card' = [card EXCEPT ![pDisk[u]] = c]
    BY <1>1
  <2>2. c # "deleted"
    BY <1>1, <2>1, Basics
  <2>3. \A p \in live : card'[p] = "deleted" => card[p] = "deleted"
    BY <2>1, <2>2 DEF TypeOK
  <2> QED BY <1>1, <1>3, <1>4, <2>3 DEF HeapInv, heapVars
<1>6. UserInv'
  <2>1. ASSUME NEW x \in Users, x # u
        PROVE  pc'[x] = pc[x] /\ pDisk'[x] = pDisk[x] /\ left'[x] = left[x]
    BY <1>1, <2>1 DEF TypeOK, Threads, EnterBatch, LeaveBatch, walkVars
  <2>2. pc'[u] # "idle" => left'[u] \in 1 .. Batches
    <3>1. left[u] \in 1 .. Batches
      BY <1>1 DEF UserInv
    <3>2. CASE EnterBatch(u)
      BY <3>1, <3>2 DEF EnterBatch, walkVars
    <3>3. CASE LeaveBatch(u)
      <4>1. left'[u] = left[u] - 1 /\ pc'[u] = IF left[u] = 1 THEN "idle" ELSE "io"
        BY <1>1, <3>3 DEF LeaveBatch, Goto, TypeOK
      <4> QED BY <3>1, <4>1, LifecycleAssumption
    <3> QED BY <3>2, <3>3
  <2>3. pc'[u] # "idle" => pDisk'[u] \in Disks /\ pDisk'[u] \notin Pending(Leaving)'
    BY <1>1, <1>3 DEF UserInv
  <2> QED BY <1>1, <1>3, <1>4, <2>1, <2>2, <2>3 DEF UserInv
<1>7. ManagerInv'
  BY <1>1, Basics DEF ManagerInv, TypeOK
<1>8. ListGuarded'
  BY <1>1, GuardKept DEF Walking
<1>9. List(n, s)'
  BY <1>1, <1>4, ListKept DEF Shape
<1>10. WalkInv(n, s)' /\ SeekInv(n, s)'
  BY <1>1, PlacesKept DEF Shape, TypeOK
<1> QED BY <1>2, <1>5, <1>6, <1>7, <1>8, <1>9, <1>10 DEF Shape

(* IsValidDisk.  A walk begins with the first disk of the list, and as it  *)
(* has not passed the disk it looks for, that one is found if it is there. *)
LEMMA CheckSteps ==
  ASSUME Orderly, Plain, NEW n \in Nat, NEW s \in [1 .. n -> Disks], Shape(n, s),
         NEW t \in Threads, EnterToCheck(t) \/ CheckStep(t)
  PROVE  /\ Plain' /\ Shape(n, s)'
         /\ NotFound(t) /\ t \in Users => pDisk[t] \notin active
<1> USE DEF Plain
<1> DEFINE Next1 == IF t \in Users THEN {"check", "walk", "io", "idle"}
                                   ELSE {"check", "walk", "unlink"}
<1>1. /\ pc[t] \in {"check", "walk"} /\ pc'[t] \in Next1 /\ pc' = [pc EXCEPT ![t] = pc'[t]]
      /\ pDisk' = pDisk /\ left' = left
      /\ pd' = [pd EXCEPT ![t] = pd'[t]]
      /\ UNCHANGED << listVars, card, heapVars >>
  BY DEF EnterToCheck, CheckStep, Walk, Found, NotFound, Goto, TypeOK, walkVars
<1>2. ASSUME EnterToCheck(t)
      PROVE  pd'[t] = At(n, s, 1) /\ pc'[t] = "walk"
  BY <1>2 DEF EnterToCheck, Goto, TypeOK, Shape, List
<1>3. ASSUME pc[t] = "walk"
      PROVE  \E i \in 1 .. n + 1 : pd[t] = At(n, s, i) /\ \A j \in 1 .. n : s[j] = pDisk[t] => i <= j
  BY <1>3 DEF Shape, WalkInv
<1>4. ASSUME Walk(t)
      PROVE  /\ pc'[t] = "walk"
             /\ \E i \in 1 .. n + 1 : /\ pd'[t] = At(n, s, i)
                                      /\ \A j \in 1 .. n : s[j] = pDisk[t] => i <= j
  <2>1. PICK i \in 1 .. n + 1 : pd[t] = At(n, s, i) /\ \A j \in 1 .. n : s[j] = pDisk[t] => i <= j
    BY <1>3, <1>4 DEF Walk
  <2>2. i \in 1 .. n /\ pd[t] = s[i]
    BY <1>4, <2>1 DEF Walk, At
  <2>3. pd'[t] = At(n, s, i + 1)
    BY <1>4, <2>2 DEF Walk, TypeOK, Shape, List
  <2>4. ASSUME NEW j \in 1 .. n, s[j] = pDisk[t] PROVE i + 1 <= j
    <3>1. i # j
      BY <1>4, <2>2, <2>4 DEF Walk
    <3> QED BY <2>1, <2>2, <2>4, <3>1
  <2> QED BY <1>4, <2>2, <2>3, <2>4 DEF Walk
<1>5. ASSUME Found(t) PROVE pDisk[t] \in Members
  <2>1. PICK i \in 1 .. n + 1 : pd[t] = At(n, s, i)
    BY <1>3, <1>5 DEF Found
  <2>2. pDisk[t] \in Disks
    BY <1>5, Basics DEF Found, UserInv, ManagerInv, Inside
  <2>3. i \in 1 .. n /\ pDisk[t] = s[i]
    BY <1>5, <2>1, <2>2, Basics DEF Found, At
  <2> QED BY <2>2, <2>3 DEF Shape, List
<1>6. ASSUME NotFound(t) PROVE pDisk[t] \notin Members
  <2>1. PICK i \in 1 .. n + 1 : pd[t] = At(n, s, i) /\ \A j \in 1 .. n : s[j] = pDisk[t] => i <= j
    BY <1>3, <1>6 DEF NotFound
  <2>2. ~(i \in 1 .. n)
    <3> SUFFICES ASSUME i \in 1 .. n PROVE FALSE
      OBVIOUS
    <3>1. pd[t] = s[i] /\ s[i] \in Disks
      BY <2>1 DEF At
    <3> QED BY <1>6, <3>1, Basics DEF NotFound
  <2>3. \A j \in 1 .. n : s[j] # pDisk[t]
    BY <2>1, <2>2
  <2>4. pDisk[t] \in Disks
    BY <1>6, Basics DEF NotFound, UserInv, ManagerInv, Inside
  <2> QED BY <2>3, <2>4 DEF Shape, List
<1>7. t \in Managers => pDisk[t] \in Members
  BY <1>1 DEF Members, Pending, Inside
<1>8. Pending(Inside)' = Pending(Inside) /\ Pending(Outside)' = Pending(Outside)
      /\ Pending(Inside \cup Outside)' = Pending(Inside \cup Outside)
      /\ Pending(Leaving)' = Pending(Leaving) /\ Pending({"free"})' = Pending({"free"})
  <2>1. CASE t \in Users
    BY <1>1, <2>1, Basics, PendingKept DEF TypeOK
  <2>2. CASE t \in Managers
    <3>1. pc[t] \in {"check", "walk"} /\ pc'[t] \in {"check", "walk", "unlink"}
      BY <1>1, <2>2, Basics
    <3>2. /\ pc'[t] \in Inside <=> pc[t] \in Inside
          /\ pc'[t] \in Outside <=> pc[t] \in Outside
          /\ pc'[t] \in Inside \cup Outside <=> pc[t] \in Inside \cup Outside
          /\ pc'[t] \in Leaving <=> pc[t] \in Leaving
          /\ pc'[t] \in {"free"} <=> pc[t] \in {"free"}
      BY <3>1 DEF Inside, Outside, Leaving
    <3> QED BY <1>1, <2>2, <3>2, PendingSame
  <2> QED BY <2>1, <2>2, Basics
<1>9. Members' = Members
  BY <1>1, <1>8 DEF Members, heapVars
<1>10. TypeOK'
  <2>1. pd'[t] \in Disks \cup {NULL}
    BY <1>1 DEF EnterToCheck, CheckStep, Walk, Found, NotFound, Goto, TypeOK, walkVars
  <2>2. v_DiskCrit' \in Threads \cup {NoThread}
    BY DEF EnterToCheck, CheckStep, Walk, Found, NotFound, TypeOK
  <2>3. pd' \in [Threads -> Disks \cup {NULL}]
    BY <1>1, <2>1 DEF TypeOK
  <2>4. pc' \in [Threads -> Labels]
    <3>1. pc \in [Threads -> Labels] /\ pc'[t] \in Labels
      BY <1>1 DEF TypeOK, Labels, Inside, Outside
    <3> QED BY <1>1, <3>1
  <2> QED BY <1>1, <2>2, <2>3, <2>4 DEF TypeOK, Labels, Inside, Outside, listVars, heapVars
<1>11. HeapInv'
  BY <1>1, <1>8, <1>9 DEF HeapInv, heapVars
<1>12. UserInv'
  <2>1. ASSUME NEW x \in Users, x # t PROVE pc'[x] = pc[x]
    BY <1>1, <2>1 DEF TypeOK, Threads
  <2>2. t \in Users /\ pc'[t] \in {"io", "batch"} => pDisk[t] \in Members
    BY <1>1, <1>5, <1>2 DEF CheckStep, Walk, NotFound, Goto, TypeOK
  <2> QED BY <1>1, <1>8, <1>9, <2>1, <2>2 DEF UserInv
<1>13. ManagerInv'
  BY <1>1, Basics DEF ManagerInv, TypeOK, Inside, Outside
<1>14. ListGuarded'
  <2>1. \/ v_DiskCrit' = v_DiskCrit /\ (pc'[t] \in Walking => pc[t] \in Walking)
        \/ v_DiskCrit' = NoThread /\ pc[t] \in Walking /\ pc'[t] \notin Walking
        \/ v_DiskCrit = NoThread /\ v_DiskCrit' = t
    BY DEF EnterToCheck, CheckStep, Walk, Found, NotFound, Goto, TypeOK, Walking
  <2> QED BY <1>1, <2>1, GuardKept
<1>15. List(n, s)'
  BY <1>1, <1>9, ListKept DEF Shape
<1>16. WalkInv(n, s)' /\ SeekInv(n, s)'
  <2>1. CASE pc'[t] # "walk"
    BY <1>1, <2>1, PlacesKept DEF Shape, TypeOK
  <2>2. CASE pc'[t] = "walk"
    <3>1. \E i \in 1 .. n + 1 : pd'[t] = At(n, s, i) /\ \A j \in 1 .. n : s[j] = pDisk[t] => i <= j
      <4>1. CASE EnterToCheck(t)
        BY <1>2, <4>1
      <4>2. CASE Walk(t)
        BY <1>4, <4>2
      <4> QED BY <2>2, <4>1, <4>2 DEF CheckStep, Found, NotFound, Goto, TypeOK
    <3>2. \A x \in Threads \ {t} : pc'[x] = pc[x] /\ pDisk'[x] = pDisk[x] /\ pd'[x] = pd[x]
      BY <1>1 DEF TypeOK
    <3>3. WalkInv(n, s)'
      <4> SUFFICES ASSUME NEW x \in Threads, pc'[x] = "walk"
                   PROVE  \E i \in 1 .. n + 1 : /\ pd'[x] = At(n, s, i)
                                                /\ \A j \in 1 .. n : s[j] = pDisk'[x] => i <= j
        BY DEF WalkInv, At
      <4> QED BY <1>1, <3>1, <3>2 DEF Shape, WalkInv
    <3>4. SeekInv(n, s)'
      BY <1>1, <2>2, <3>2, Basics DEF Shape, SeekInv
    <3> QED BY <3>3, <3>4
  <2> QED BY <2>1, <2>2
<1>17. NotFound(t) /\ t \in Users => pDisk[t] \notin active
  BY <1>6 DEF Members
<1> QED BY <1>10, <1>11, <1>12, <1>13, <1>14, <1>15, <1>16, <1>17 DEF Shape
-----------------------------------------------------------------------------
(* The steps of the manager.  Users see of them whether their disk stays   *)
(* in the list and is not the one deactivated.                             *)
LEMMA UsersKept ==
  ASSUME Orderly, Plain, NEW m \in Managers,
         \A x \in Threads \ {m} : pc'[x] = pc[x] /\ pDisk'[x] = pDisk[x] /\ left'[x] = left[x],
         \A u \in Users : pc[u] \in {"io", "batch"} => pDisk[u] \in Members',
         pc'[m] \in Leaving => \A u \in Users : pc[u] # "idle" => pDisk[u] # pDisk'[m]
  PROVE  UserInv'
<1>1. \A u \in Users : pc'[u] = pc[u] /\ pDisk'[u] = pDisk[u] /\ left'[u] = left[u]
  BY Basics
<1>2. \A u \in Users : pc[u] # "idle" => pDisk[u] \notin Pending(Leaving)'
  BY PendingOneNext
<1> QED BY <1>1, <1>2 DEF Plain, UserInv

(* What does not concern the list.                                         *)
LEMMA ManagerQuietStep ==
  ASSUME Orderly, Plain, NEW n \in Nat, NEW s \in [1 .. n -> Disks], Shape(n, s),
         NEW m \in Managers,
         \/ InitList(m) \/ EnterToLink(m) \/ EnterToUnlink(m) \/ Sleep(m)
         \/ EnterToDrain(m) \/ LeaveDrain(m) \/ DeleteCrit(m)
  PROVE  Plain' /\ Shape(n, s)'
<1> USE DEF Plain
<1>1. /\ pc' = [pc EXCEPT ![m] = pc'[m]] /\ m \in Threads
      /\ << pc[m], pc'[m] >> \in { << "idle", "create" >>, << "link", "linking" >>,
           << "unlink", "unlinking" >>, << "sleep", "drain" >>, << "drain", "drained" >>,
           << "drained", "delete" >>, << "delete", "free" >> }
      /\ UNCHANGED << walkVars, listVars, heapVars >>
  BY Basics DEF InitList, EnterToLink, EnterToUnlink, Sleep, EnterToDrain, LeaveDrain, DeleteCrit,
     Goto, TypeOK
<1>2. \A x \in Threads \ {m} : pc'[x] = pc[x] /\ pDisk'[x] = pDisk[x] /\ pd'[x] = pd[x]
                                /\ left'[x] = left[x]
  BY <1>1 DEF TypeOK, walkVars
<1>3. /\ Pending(Inside)' = Pending(Inside) /\ Pending(Outside)' = Pending(Outside)
      /\ Pending(Inside \cup Outside)' = Pending(Inside \cup Outside)
      /\ Pending({"free"}) \subseteq Pending({"free"})'
  <2>1. /\ pc'[m] \in Inside <=> pc[m] \in Inside
        /\ pc'[m] \in Outside <=> pc[m] \in Outside
        /\ pc'[m] \in Inside \cup Outside <=> pc[m] \in Inside \cup Outside
    BY <1>1 DEF Inside, Outside
  <2>2. pDisk'[m] = pDisk[m]
    BY <1>1 DEF walkVars
  <2>3. Pending({"free"}) = {}
    BY <1>1, PendingOne
  <2> QED BY <2>1, <2>2, <2>3, PendingSame
<1>4. Members' = Members
  BY <1>1, <1>3 DEF Members, heapVars
<1>5. \/ card' = card
      \/ pDisk[m] \in Disks /\ \E c \in {m, NoThread} : card' = [card EXCEPT ![pDisk[m]] = c]
      \/ /\ pc[m] = "delete" /\ pc'[m] = "free" /\ pDisk[m] \in Disks
         /\ card' = [card EXCEPT ![pDisk[m]] = "deleted"]
  BY <1>1 DEF InitList, EnterToLink, EnterToUnlink, Sleep, EnterToDrain, LeaveDrain, DeleteCrit,
     Goto, TypeOK, ManagerInv, Outside
<1>6. TypeOK'
  <2>1. pc' \in [Threads -> Labels]
    <3>1. pc \in [Threads -> Labels] /\ pc'[m] \in Labels
      BY <1>1 DEF TypeOK, Labels, Inside, Outside
    <3> QED BY <1>1, <3>1
  <2>2. card' \in [Disks -> Threads \cup {NoThread, "deleted"}]
    <3>1. \E c \in Threads \cup {NoThread, "deleted"} :
            card' = card \/ (pDisk[m] \in Disks /\ card' = [card EXCEPT ![pDisk[m]] = c])
      BY <1>1, <1>5
    <3> QED BY <3>1 DEF TypeOK
  <2>3. v_DiskCrit' \in Threads \cup {NoThread}
    BY <1>1 DEF InitList, EnterToLink, EnterToUnlink, Sleep, EnterToDrain, LeaveDrain, DeleteCrit,
       TypeOK
  <2> QED BY <1>1, <2>1, <2>2, <2>3 DEF TypeOK, Labels, Inside, Outside, walkVars, listVars, heapVars
<1>7. HeapInv'
  <2>1. ASSUME NEW p \in live, card'[p] = "deleted" PROVE p \in Pending({"free"})'
    <3>1. CASE card' = card
      BY <1>3, <2>1, <3>1 DEF HeapInv
    <3>2. CASE pDisk[m] \in Disks /\ \E c \in {m, NoThread} : card' = [card EXCEPT ![pDisk[m]] = c]
      <4>1. card[p] = "deleted"
        BY <1>1, <2>1, <3>2, Basics DEF TypeOK
      <4> QED BY <1>3, <2>1, <4>1 DEF HeapInv
    <3>3. CASE /\ pc[m] = "delete" /\ pc'[m] = "free" /\ pDisk[m] \in Disks
               /\ card' = [card EXCEPT ![pDisk[m]] = "deleted"]
      <4>1. Pending({"free"})' = {pDisk[m]} /\ Pending({"free"}) = {}
        BY <1>1, <3>3, PendingOne, PendingOneNext DEF walkVars
      <4>2. p = pDisk[m]
        BY <2>1, <3>3, <4>1 DEF HeapInv, TypeOK
      <4> QED BY <4>1, <4>2
    <3> QED BY <1>5, <3>1, <3>2, <3>3
  <2> QED BY <1>1, <1>3, <1>4, <2>1 DEF HeapInv, heapVars
<1>8. UserInv'
  <2>1. pc'[m] \in Leaving => pc[m] \in Leaving
    BY <1>1 DEF Leaving
  <2>2. pc'[m] \in Leaving => \A u \in Users : pc[u] # "idle" => pDisk[u] # pDisk'[m]
    BY <1>1, <2>1, PendingOne DEF UserInv, walkVars
  <2>3. \A u \in Users : pc[u] \in {"io", "batch"} => pDisk[u] \in Members'
    BY <1>4 DEF UserInv
  <2> QED BY <1>2, <2>2, <2>3, UsersKept
<1>9. ManagerInv'
  BY <1>1 DEF ManagerInv, Inside, Outside, Orderly, walkVars
<1>10. ListGuarded'
  <2>1. CASE InitList(m)
    <3>1. CASE v_DiskCrit' = v_DiskCrit
      <4>1. pc'[m] = "create"
        BY <1>1, <2>1 DEF InitList
      <4>2. pc'[m] \notin Walking
        BY <4>1 DEF Walking
      <4> QED BY <1>1, <3>1, <4>2, GuardKept
    <3>2. CASE v_DiskList = NULL
      <4>1. \A x \in Threads : pc[x] \notin Walking
        BY <2>1, <3>2, Basics DEF InitList, NoLateWalk, Orderly, UserInv, Walking
      <4>2. \A x \in Threads : pc'[x] \notin Walking
        BY <1>1, <1>2, <2>1, <4>1 DEF Walking, InitList
      <4> QED BY <4>2 DEF ListGuarded, Walking
    <3> QED BY <2>1, <3>1, <3>2 DEF InitList
  <2>2. CASE EnterToLink(m) \/ EnterToUnlink(m)
    BY <1>1, <2>2, GuardKept DEF EnterToLink, EnterToUnlink
  <2>3. CASE Sleep(m) \/ EnterToDrain(m) \/ LeaveDrain(m) \/ DeleteCrit(m)
    <3>1. v_DiskCrit' = v_DiskCrit /\ pc'[m] \in {"drain", "drained", "delete", "free"}
      BY <1>1, <2>3 DEF Sleep, EnterToDrain, LeaveDrain, DeleteCrit
    <3>2. pc'[m] \notin Walking
      BY <3>1 DEF Walking
    <3> QED BY <1>1, <3>1, <3>2, GuardKept
  <2> QED BY <2>1, <2>2, <2>3
<1>11. List(n, s)'
  BY <1>1, <1>4, ListKept DEF Shape
<1>12. WalkInv(n, s)' /\ SeekInv(n, s)'
  BY <1>1, <1>2, PlacesKept DEF Shape
<1> QED BY <1>6, <1>7, <1>8, <1>9, <1>10, <1>11, <1>12 DEF Shape

(* DSK_Deinit is called: of a disk no call is in.                          *)
LEMMA DeinitStep ==
  ASSUME Orderly, Plain, NEW n \in Nat, NEW s \in [1 .. n -> Disks], Shape(n, s),
         NEW m \in Managers, NEW p \in Disks, Deinit(m, p)
  PROVE  Plain' /\ Shape(n, s)'
<1> USE DEF Plain
<1>1. /\ pc[m] = "idle" /\ pc' = [pc EXCEPT ![m] = "check"] /\ m \in Threads
      /\ pDisk' = [pDisk EXCEPT ![m] = p] /\ active' = active \ {p} /\ p \in active
      /\ UNCHANGED << pd, left, listVars, v_DiskCrit, card, live, handles >>
      /\ \A u \in Users : pc[u] # "idle" => pDisk[u] # p
  BY Basics DEF Deinit, Goto, Orderly, Using
<1>2. /\ pc'[m] = "check" /\ pDisk'[m] = p
      /\ \A x \in Threads \ {m} : pc'[x] = pc[x] /\ pDisk'[x] = pDisk[x] /\ pd'[x] = pd[x]
                                   /\ left'[x] = left[x]
  BY <1>1 DEF TypeOK
<1>3. /\ Pending(Inside)' = {p} /\ Pending(Outside)' = {} /\ Pending(Inside \cup Outside)' = {p}
      /\ Pending(Inside) = {} /\ Pending(Outside) = {} /\ Pending({"free"}) = {}
  BY <1>1, <1>2, PendingOne, PendingOneNext DEF Inside, Outside
<1>4. Members' = Members
  BY <1>1, <1>3 DEF Members
<1>5. TypeOK'
  BY <1>1 DEF TypeOK, listVars
<1>6. HeapInv'
  BY <1>1, <1>3, <1>4 DEF HeapInv
<1>7. UserInv'
  <2>1. \A u \in Users : pc[u] \in {"io", "batch"} => pDisk[u] \in Members'
    BY <1>4 DEF UserInv
  <2> QED BY <1>1, <1>2, <2>1, UsersKept
<1>8. ManagerInv'
  BY <1>2 DEF ManagerInv, Orderly
<1>9. ListGuarded'
  BY <1>1, <1>2, GuardKept DEF Walking
<1>10. List(n, s)'
  BY <1>1, <1>4, ListKept DEF Shape
<1>11. WalkInv(n, s)' /\ SeekInv(n, s)'
  BY <1>1, <1>2, PlacesKept DEF Shape
<1> QED BY <1>5, <1>6, <1>7, <1>8, <1>9, <1>10, <1>11 DEF Shape

(* A disk is allocated: its next pointer is nobody's.                      *)
LEMMA CreateStep ==
  ASSUME Orderly, Plain, NEW n \in Nat, NEW s \in [1 .. n -> Disks], Shape(n, s),
         NEW m \in Managers, CreateDisk(m)
  PROVE  Plain' /\ Shape(n, s)'
<1> USE DEF Plain
<1>1. CASE pc' = [pc EXCEPT ![m] = "idle"] /\ UNCHANGED << pDisk, live, d_next, card >>
  <2>1. /\ pc[m] = "create" /\ pc'[m] = "idle" /\ m \in Threads
        /\ \A x \in Threads \ {m} : pc'[x] = pc[x]
        /\ UNCHANGED << pDisk, pd, left, v_DiskList, d_next, v_DiskCrit, card, heapVars >>
    BY <1>1, Basics DEF CreateDisk, TypeOK, heapVars
  <2>2. /\ Pending(Inside)' = Pending(Inside) /\ Pending(Outside)' = Pending(Outside)
        /\ Pending(Inside \cup Outside)' = Pending(Inside \cup Outside)
        /\ Pending({"free"})' = Pending({"free"})
    BY <2>1, PendingSame DEF Inside, Outside
  <2>3. Members' = Members
    BY <2>1, <2>2 DEF Members, heapVars
  <2>4. TypeOK'
    BY <1>1, <2>1 DEF TypeOK, heapVars
  <2>5. HeapInv'
    BY <2>1, <2>2, <2>3 DEF HeapInv, heapVars
  <2>6. UserInv'
    <3>1. \A u \in Users : pc[u] \in {"io", "batch"} => pDisk[u] \in Members'
      BY <2>3 DEF UserInv
    <3> QED BY <2>1, <3>1, UsersKept DEF Leaving
  <2>7. ManagerInv'
    BY <2>1 DEF ManagerInv, Orderly, Inside, Outside
  <2>8. ListGuarded'
    BY <2>1, <1>1, GuardKept DEF Walking
  <2>9. List(n, s)'
    BY <2>1, <2>3, ListKept DEF Shape, listVars
  <2>10. WalkInv(n, s)' /\ SeekInv(n, s)'
    BY <2>1, PlacesKept DEF Shape
  <2> QED BY <2>4, <2>5, <2>6, <2>7, <2>8, <2>9, <2>10 DEF Shape
<1>2. ASSUME NEW p \in Disks \ live,
             live' = live \cup {p}, d_next' = [d_next EXCEPT ![p] = NULL],
             card' = [card EXCEPT ![p] = NoThread], pDisk' = [pDisk EXCEPT ![m] = p],
             pc' = [pc EXCEPT ![m] = "link"]
      PROVE  Plain' /\ Shape(n, s)'
  <2>1. /\ pc[m] = "create" /\ pc'[m] = "link" /\ pDisk'[m] = p /\ m \in Threads
        /\ \A x \in Threads \ {m} : pc'[x] = pc[x] /\ pDisk'[x] = pDisk[x]
        /\ UNCHANGED << pd, left, v_DiskList, v_DiskCrit, active, handles >>
    BY <1>2, Basics DEF CreateDisk, TypeOK
  <2>2. /\ Pending(Inside)' = {} /\ Pending(Outside)' = {p} /\ Pending(Inside \cup Outside)' = {p}
        /\ Pending(Inside) = {} /\ Pending(Outside) = {} /\ Pending({"free"}) = {}
    BY <2>1, PendingOne, PendingOneNext DEF Inside, Outside
  <2>3. Members' = Members /\ p \notin Members
    BY <1>2, <2>1, <2>2 DEF Members, HeapInv
  <2>4. TypeOK'
    BY <1>2, <2>1 DEF TypeOK
  <2>5. HeapInv'
    <3>1. ASSUME NEW q \in live', card'[q] = "deleted" PROVE FALSE
      <4>1. q # p
        BY <1>2, <3>1, Basics DEF TypeOK
      <4>2. q \in live /\ card[q] = "deleted"
        BY <1>2, <3>1, <4>1 DEF TypeOK
      <4> QED BY <2>2, <4>2 DEF HeapInv
    <3>2. p \notin active
      BY <2>3 DEF Members
    <3> QED BY <1>2, <2>1, <2>2, <2>3, <3>1, <3>2 DEF HeapInv
  <2>6. UserInv'
    <3>1. \A u \in Users : pc[u] \in {"io", "batch"} => pDisk[u] \in Members'
      BY <2>3 DEF UserInv
    <3> QED BY <2>1, <3>1, UsersKept DEF Leaving
  <2>7. ManagerInv'
    BY <2>1 DEF ManagerInv, Orderly
  <2>8. ListGuarded'
    BY <1>2, <2>1, GuardKept DEF Walking
  <2>9. List(n, s)'
    <3>1. \A i \in 1 .. n : s[i] \in Members
      BY DEF Shape, List
    <3>2. \A i \in 1 .. n : d_next'[s[i]] = d_next[s[i]]
      BY <1>2, <2>3, <3>1 DEF TypeOK
    <3> QED BY <2>1, <2>3, <3>2 DEF Shape, List, At
  <2>10. WalkInv(n, s)' /\ SeekInv(n, s)'
    BY <2>1, PlacesKept DEF Shape
  <2> QED BY <2>4, <2>5, <2>6, <2>7, <2>8, <2>9, <2>10 DEF Shape
<1> QED BY <1>1, <1>2 DEF CreateDisk, Goto

(* The device answers: the disk is active.                                 *)
LEMMA SetUpStep ==
  ASSUME Orderly, Plain, NEW n \in Nat, NEW s \in [1 .. n -> Disks], Shape(n, s),
         NEW m \in Managers, SetUp(m)
  PROVE  Plain' /\ Shape(n, s)'
<1> USE DEF Plain
<1> DEFINE p == pDisk[m]
<1>1. /\ pc[m] = "setup" /\ pc' = [pc EXCEPT ![m] = "idle"] /\ pc'[m] = "idle" /\ m \in Threads
      /\ active' = active \cup {p} /\ handles' = handles \cup {p} /\ p \in Disks
      /\ \A x \in Threads \ {m} : pc'[x] = pc[x]
      /\ UNCHANGED << pDisk, pd, left, listVars, v_DiskCrit, live, card >>
  BY Basics DEF SetUp, Goto, TypeOK, walkVars, ManagerInv, Inside, Orderly
<1>2. /\ Pending(Inside)' = {} /\ Pending(Outside)' = {} /\ Pending(Inside \cup Outside)' = {}
      /\ Pending(Inside) = {p} /\ Pending(Outside) = {} /\ Pending({"free"}) = {}
  BY <1>1, PendingOne, PendingOneNext DEF Inside, Outside
<1>3. Members' = Members
  BY <1>1, <1>2 DEF Members
<1>4. TypeOK'
  BY <1>1, <1>2 DEF TypeOK, listVars, HeapInv, Members
<1>5. HeapInv'
  BY <1>1, <1>2, <1>3 DEF HeapInv
<1>6. UserInv'
  <2>1. \A u \in Users : pc[u] \in {"io", "batch"} => pDisk[u] \in Members'
    BY <1>3 DEF UserInv
  <2> QED BY <1>1, <2>1, UsersKept DEF Leaving
<1>7. ManagerInv'
  BY <1>1 DEF ManagerInv, Orderly, Inside, Outside
<1>8. ListGuarded'
  BY <1>1, GuardKept DEF Walking
<1>9. List(n, s)'
  BY <1>1, <1>3, ListKept DEF Shape
<1>10. WalkInv(n, s)' /\ SeekInv(n, s)'
  BY <1>1, PlacesKept DEF Shape
<1> QED BY <1>4, <1>5, <1>6, <1>7, <1>8, <1>9, <1>10 DEF Shape

(* The disk taken out of the list is freed.                                *)
LEMMA FreeStep ==
  ASSUME Orderly, Plain, NEW n \in Nat, NEW s \in [1 .. n -> Disks], Shape(n, s),
         NEW m \in Managers, Free(m)
  PROVE  Plain' /\ Shape(n, s)'
<1> USE DEF Plain
<1> DEFINE p == pDisk[m]
<1>1. /\ pc[m] = "free" /\ pc' = [pc EXCEPT ![m] = "idle"] /\ pc'[m] = "idle" /\ m \in Threads
      /\ live' = live \ {p} /\ p \in Disks
      /\ \A x \in Threads \ {m} : pc'[x] = pc[x]
      /\ UNCHANGED << pDisk, pd, left, listVars, v_DiskCrit, card, active, handles >>
  BY Basics DEF Free, Goto, TypeOK, walkVars, ManagerInv, Outside
<1>2. /\ Pending(Inside)' = {} /\ Pending(Outside)' = {} /\ Pending(Inside \cup Outside)' = {}
      /\ Pending({"free"}) = {p}
      /\ Pending(Inside) = {} /\ Pending(Outside) = {p} /\ Pending(Inside \cup Outside) = {p}
  BY <1>1, PendingOne, PendingOneNext DEF Inside, Outside
<1>3. Members' = Members
  BY <1>1, <1>2 DEF Members
<1>4. TypeOK'
  BY <1>1, <1>2 DEF TypeOK, listVars, HeapInv, Members
<1>5. HeapInv'
  BY <1>1, <1>2, <1>3 DEF HeapInv, Members
<1>6. UserInv'
  <2>1. \A u \in Users : pc[u] \in {"io", "batch"} => pDisk[u] \in Members'
    BY <1>3 DEF UserInv
  <2> QED BY <1>1, <2>1, UsersKept DEF Leaving
<1>7. ManagerInv'
  BY <1>1 DEF ManagerInv, Orderly, Inside, Outside
<1>8. ListGuarded'
  BY <1>1, GuardKept DEF Walking
<1>9. List(n, s)'
  BY <1>1, <1>3, ListKept DEF Shape
<1>10. WalkInv(n, s)' /\ SeekInv(n, s)'
  BY <1>1, PlacesKept DEF Shape
<1> QED BY <1>4, <1>5, <1>6, <1>7, <1>8, <1>9, <1>10 DEF Shape

(* Whoever changes the list is alone with it.                              *)
LEMMA Alone ==
  ASSUME ListGuarded, NEW m \in Managers, pc[m] \in Walking
  PROVE  v_DiskCrit = m /\ \A x \in Threads \ {m} : pc[x] \notin Walking
BY Basics DEF ListGuarded, Walking

(* ... so that no walk need be looked at.                                  *)
LEMMA NoWalks ==
  ASSUME ListGuarded, NEW m \in Managers, pc[m] \in Walking, pc'[m] \notin Walking,
         \A x \in Threads \ {m} : pc'[x] = pc[x]
  PROVE  /\ ListGuarded'
         /\ \A n \in Nat : \A s \in [1 .. n -> Disks] : WalkInv(n, s)' /\ SeekInv(n, s)'
<1>1. \A x \in Threads : pc'[x] \notin Walking
  BY Alone
<1> QED BY <1>1, Basics DEF ListGuarded, WalkInv, SeekInv, Walking

(* The new disk becomes the first one.                                     *)
LEMMA LinkStep ==
  ASSUME Orderly, Plain, NEW n \in Nat, NEW s \in [1 .. n -> Disks], Shape(n, s),
         NEW m \in Managers, Link(m)
  PROVE  Plain' /\ \E l \in Nat : \E z \in [1 .. l -> Disks] : Shape(l, z)'
<1> USE DEF Plain
<1> DEFINE p == pDisk[m]
<1>1. /\ pc[m] = "linking" /\ pc' = [pc EXCEPT ![m] = "setup"] /\ pc'[m] = "setup"
      /\ m \in Threads /\ p \in Disks
      /\ d_next' = [d_next EXCEPT ![p] = v_DiskList] /\ v_DiskList' = p
      /\ v_DiskCrit' = NoThread
      /\ \A x \in Threads \ {m} : pc'[x] = pc[x]
      /\ UNCHANGED << pDisk, pd, left, card, live, active, handles >>
  BY Basics DEF Link, Goto, TypeOK, walkVars, heapVars, ManagerInv, Outside
<1>2. /\ Pending(Inside)' = {p} /\ Pending(Outside)' = {} /\ Pending(Inside \cup Outside)' = {p}
      /\ Pending({"free"}) = {}
      /\ Pending(Inside) = {} /\ Pending(Outside) = {p} /\ Pending(Inside \cup Outside) = {p}
  BY <1>1, PendingOne, PendingOneNext DEF Inside, Outside
<1>3. Members' = Members \cup {p} /\ p \notin Members
  BY <1>1, <1>2 DEF Members, HeapInv
<1>4. TypeOK'
  BY <1>1 DEF TypeOK
<1>5. HeapInv'
  BY <1>1, <1>2, <1>3 DEF HeapInv, Members
<1>6. UserInv'
  <2>1. \A u \in Users : pc[u] \in {"io", "batch"} => pDisk[u] \in Members'
    BY <1>3 DEF UserInv
  <2> QED BY <1>1, <2>1, UsersKept DEF Leaving
<1>7. ManagerInv'
  BY <1>1 DEF ManagerInv, Orderly, Inside, Outside
<1>8. ListGuarded' /\ \A l \in Nat : \A y \in [1 .. l -> Disks] : WalkInv(l, y)' /\ SeekInv(l, y)'
  BY <1>1, NoWalks DEF Walking
<1>9. \E z \in [1 .. n + 1 -> Disks] : z[1] = p /\ \A i \in 1 .. n : z[i + 1] = s[i]
  <2> DEFINE y == [i \in 1 .. n + 1 |-> IF i = 1 THEN p ELSE s[i - 1]]
  <2>1. y \in [1 .. n + 1 -> Disks] /\ y[1] = p /\ \A i \in 1 .. n : y[i + 1] = s[i]
    BY <1>1
  <2> QED BY <2>1
<1>10. PICK z \in [1 .. n + 1 -> Disks] : z[1] = p /\ \A i \in 1 .. n : z[i + 1] = s[i]
  BY <1>9
<1>11. \A k \in 2 .. n + 1 : \E i \in 1 .. n : k = i + 1
  <2> TAKE k \in 2 .. n + 1
  <2> WITNESS k - 1 \in 1 .. n
  <2> QED OBVIOUS
<1>12. \A i \in 1 .. n : s[i] \in Members /\ s[i] # p
  BY <1>3 DEF Shape, List
<1>13. List(n + 1, z)'
  <2>1. \A i, j \in 1 .. n + 1 : z[i] = z[j] => i = j
    <3> SUFFICES ASSUME NEW i \in 1 .. n + 1, NEW j \in 1 .. n + 1, z[i] = z[j] PROVE i = j
      OBVIOUS
    <3>1. CASE i = 1 /\ j = 1
      BY <3>1
    <3>2. CASE i = 1 /\ j # 1
      <4>1. PICK b \in 1 .. n : j = b + 1
        BY <1>11, <3>2
      <4>2. z[j] = s[b] /\ z[i] = p
        BY <1>10, <3>2, <4>1
      <4> QED BY <1>12, <4>2
    <3>3. CASE i # 1 /\ j = 1
      <4>1. PICK a \in 1 .. n : i = a + 1
        BY <1>11, <3>3
      <4>2. z[i] = s[a] /\ z[j] = p
        BY <1>10, <3>3, <4>1
      <4> QED BY <1>12, <4>2
    <3>4. CASE i # 1 /\ j # 1
      <4>1. PICK a \in 1 .. n, b \in 1 .. n : i = a + 1 /\ j = b + 1
        BY <1>11, <3>4
      <4>2. z[i] = s[a] /\ z[j] = s[b]
        BY <1>10, <4>1
      <4>3. a = b
        BY <4>2 DEF Shape, List
      <4> QED BY <4>1, <4>3
    <3> QED BY <3>1, <3>2, <3>3, <3>4
  <2>2. v_DiskList' = At(n + 1, z, 1)
    BY <1>1, <1>10 DEF At
  <2>3. \A i \in 1 .. n + 1 : At(n + 1, z, i + 1) = At(n, s, i)
    BY <1>10 DEF At
  <2>4. \A i \in 1 .. n + 1 : d_next'[z[i]] = At(n + 1, z, i + 1)
    <3> SUFFICES ASSUME NEW i \in 1 .. n + 1 PROVE d_next'[z[i]] = At(n, s, i)
      BY <2>3
    <3>1. CASE i = 1
      BY <1>1, <1>10, <3>1 DEF Shape, List, TypeOK
    <3>2. CASE i # 1
      <4>1. PICK a \in 1 .. n : i = a + 1
        BY <1>11, <3>2
      <4>2. d_next'[s[a]] = d_next[s[a]]
        BY <1>1, <1>12 DEF TypeOK
      <4> QED BY <1>10, <4>1, <4>2 DEF Shape, List
    <3> QED BY <3>1, <3>2
  <2>5. \A q \in Disks : q \in Members' <=> \E i \in 1 .. n + 1 : z[i] = q
    <3> TAKE q \in Disks
    <3>1. q \in Members <=> \E i \in 1 .. n : s[i] = q
      BY DEF Shape, List
    <3>2. ASSUME q \in Members' PROVE \E i \in 1 .. n + 1 : z[i] = q
      <4>1. CASE q = p
        BY <1>10, <4>1
      <4>2. CASE q \in Members
        <5>1. PICK i \in 1 .. n : s[i] = q
          BY <3>1, <4>2
        <5>2. i + 1 \in 1 .. n + 1 /\ z[i + 1] = q
          BY <1>10, <5>1
        <5> QED BY <5>2
      <4> QED BY <1>3, <3>2, <4>1, <4>2
    <3>3. ASSUME NEW i \in 1 .. n + 1, z[i] = q PROVE q \in Members'
      <4>1. CASE i = 1
        BY <1>3, <1>10, <3>3, <4>1
      <4>2. CASE i # 1
        <5>1. PICK a \in 1 .. n : i = a + 1
          BY <1>11, <4>2
        <5>2. z[i] = s[a]
          BY <1>10, <5>1
        <5> QED BY <1>3, <1>12, <3>3, <5>2
      <4> QED BY <4>1, <4>2
    <3> QED BY <3>2, <3>3
  <2> QED BY <2>1, <2>2, <2>4, <2>5 DEF List, At
<1>14. Shape(n + 1, z)' /\ n + 1 \in Nat
  BY <1>8, <1>13 DEF Shape
<1> QED BY <1>4, <1>5, <1>6, <1>7, <1>8, <1>14

(* The list without its jth disk.                                          *)
LEMMA Removal ==
  ASSUME TypeOK, NEW n \in Nat, NEW s \in [1 .. n -> Disks], List(n, s), NEW j \in 1 .. n,
         Members' = Members \ {s[j]},
         \/ j = 1 /\ v_DiskList' = At(n, s, 2) /\ d_next' = d_next
         \/ j > 1 /\ v_DiskList' = v_DiskList
            /\ d_next' = [d_next EXCEPT ![s[j - 1]] = At(n, s, j + 1)]
  PROVE  n - 1 \in Nat /\ \E z \in [1 .. n - 1 -> Disks] : List(n - 1, z)'
<1> DEFINE z == [k \in 1 .. n - 1 |-> IF k < j THEN s[k] ELSE s[k + 1]]
<1>1. n - 1 \in Nat /\ z \in [1 .. n - 1 -> Disks]
  OBVIOUS
<1>2. \A k \in 1 .. n - 1 : (k < j => z[k] = s[k]) /\ (k >= j => z[k] = s[k + 1])
  OBVIOUS
<1> HIDE DEF z
<1>3. \A i, k \in 1 .. n : s[i] = s[k] => i = k
  BY DEF List
<1>4. \A i, k \in 1 .. n - 1 : z[i] = z[k] => i = k
  <2> SUFFICES ASSUME NEW i \in 1 .. n - 1, NEW k \in 1 .. n - 1, z[i] = z[k] PROVE i = k
    OBVIOUS
  <2>1. CASE i < j /\ k < j
    BY <1>2, <1>3, <2>1
  <2>2. CASE i < j /\ k >= j
    <3>1. i \in 1 .. n /\ k + 1 \in 1 .. n /\ s[i] = s[k + 1]
      BY <1>2, <2>2
    <3> QED BY <1>3, <2>2, <3>1
  <2>3. CASE i >= j /\ k < j
    <3>1. i + 1 \in 1 .. n /\ k \in 1 .. n /\ s[i + 1] = s[k]
      BY <1>2, <2>3
    <3> QED BY <1>3, <2>3, <3>1
  <2>4. CASE i >= j /\ k >= j
    <3>1. i + 1 \in 1 .. n /\ k + 1 \in 1 .. n /\ s[i + 1] = s[k + 1]
      BY <1>2, <2>4
    <3>2. i + 1 = k + 1
      BY <1>3, <3>1
    <3> QED BY <3>2
  <2> QED BY <2>1, <2>2, <2>3, <2>4
<1>5. \A k \in 1 .. n : At(n - 1, z, k) = IF k < j THEN s[k] ELSE At(n, s, k + 1)
  BY <1>2 DEF At
<1>6. v_DiskList' = At(n - 1, z, 1)
  BY <1>5 DEF List, At
<1>7. \A k \in 1 .. n - 1 : d_next'[z[k]] = At(n - 1, z, k + 1)
  <2> SUFFICES ASSUME NEW k \in 1 .. n - 1 PROVE d_next'[z[k]] = At(n - 1, z, k + 1)
    OBVIOUS
  <2>1. \A i \in 1 .. n : d_next[s[i]] = At(n, s, i + 1) /\ s[i] \in Disks
    BY DEF List
  <2>2. CASE k >= j
    <3>1. k + 1 \in 1 .. n /\ z[k] = s[k + 1] /\ At(n - 1, z, k + 1) = At(n, s, k + 2)
      BY <1>2, <1>5, <2>2
    <3>2. d_next'[s[k + 1]] = d_next[s[k + 1]]
      <4>1. CASE j > 1
        <5>1. j - 1 \in 1 .. n /\ j - 1 # k + 1
          BY <2>2, <4>1
        <5>2. s[j - 1] # s[k + 1]
          BY <1>3, <3>1, <5>1
        <5> QED BY <2>1, <3>1, <4>1, <5>1, <5>2 DEF TypeOK
      <4> QED BY <4>1
    <3> QED BY <2>1, <3>1, <3>2
  <2>3. CASE k < j - 1
    <3>1. k \in 1 .. n /\ z[k] = s[k] /\ At(n - 1, z, k + 1) = s[k + 1] /\ At(n, s, k + 1) = s[k + 1]
      BY <1>2, <1>5, <2>3 DEF At
    <3>2. j - 1 \in 1 .. n /\ s[j - 1] # s[k]
      BY <1>3, <2>3, <3>1
    <3>3. d_next'[s[k]] = d_next[s[k]]
      BY <2>1, <2>3, <3>1, <3>2 DEF TypeOK
    <3> QED BY <2>1, <3>1, <3>3
  <2>4. CASE k = j - 1
    <3>1. k \in 1 .. n /\ z[k] = s[k] /\ At(n - 1, z, k + 1) = At(n, s, j + 1) /\ j > 1
      BY <1>2, <1>5, <2>4
    <3> QED BY <2>1, <2>4, <3>1 DEF TypeOK
  <2> QED BY <2>2, <2>3, <2>4
<1>8. \A q \in Disks : q \in Members' <=> \E k \in 1 .. n - 1 : z[k] = q
  <2> TAKE q \in Disks
  <2>1. q \in Members <=> \E i \in 1 .. n : s[i] = q
    BY DEF List
  <2>2. ASSUME q \in Members' PROVE \E k \in 1 .. n - 1 : z[k] = q
    <3>1. PICK i \in 1 .. n : s[i] = q
      BY <2>1, <2>2
    <3>2. i # j
      BY <2>2, <3>1
    <3>3. CASE i < j
      <4>1. i \in 1 .. n - 1 /\ z[i] = s[i]
        BY <1>2, <3>3
      <4> QED BY <3>1, <4>1
    <3>4. CASE i > j
      <4>1. i - 1 \in 1 .. n - 1 /\ i - 1 >= j /\ z[i - 1] = s[(i - 1) + 1] /\ (i - 1) + 1 = i
        BY <1>2, <3>4
      <4> QED BY <3>1, <4>1
    <3> QED BY <3>2, <3>3, <3>4
  <2>3. ASSUME NEW k \in 1 .. n - 1, z[k] = q PROVE q \in Members'
    <3>1. CASE k < j
      <4>1. k \in 1 .. n /\ s[k] = q /\ k # j
        BY <1>2, <2>3, <3>1
      <4> QED BY <1>3, <2>1, <4>1
    <3>2. CASE k >= j
      <4>1. k + 1 \in 1 .. n /\ s[k + 1] = q /\ k + 1 # j
        BY <1>2, <2>3, <3>2
      <4> QED BY <1>3, <2>1, <4>1
    <3> QED BY <3>1, <3>2
  <2> QED BY <2>2, <2>3
<1> QED BY <1>1, <1>4, <1>6, <1>7, <1>8 DEF List, At

(* The disk being deactivated leaves the list ...                          *)
LEMMA UnlinkedStep ==
  ASSUME Orderly, Plain, NEW n \in Nat, NEW s \in [1 .. n -> Disks], Shape(n, s),
         NEW m \in Managers, pc[m] \in {"unlinking", "seek"}, pc' = [pc EXCEPT ![m] = "sleep"],
         NEW j \in 1 .. n, s[j] = pDisk[m], v_DiskCrit' = NoThread,
         UNCHANGED << pDisk, pd, left, card, heapVars >>,
         \/ j = 1 /\ v_DiskList' = At(n, s, 2) /\ d_next' = d_next
         \/ j > 1 /\ v_DiskList' = v_DiskList
            /\ d_next' = [d_next EXCEPT ![s[j - 1]] = At(n, s, j + 1)]
  PROVE  Plain' /\ \E l \in Nat : \E z \in [1 .. l -> Disks] : Shape(l, z)'
<1> USE DEF Plain
<1> DEFINE p == pDisk[m]
<1>1. /\ pc'[m] = "sleep" /\ m \in Threads /\ p \in Disks /\ pc[m] \in Inside \cap Walking
      /\ \A x \in Threads \ {m} : pc'[x] = pc[x]
      /\ UNCHANGED << pDisk, pd, left, card, live, active, handles >>
  BY Basics DEF TypeOK, heapVars, ManagerInv, Inside, Walking
<1>2. /\ Pending(Inside)' = {} /\ Pending(Outside)' = {p} /\ Pending(Inside \cup Outside)' = {p}
      /\ Pending({"free"}) = {}
      /\ Pending(Inside) = {p} /\ Pending(Outside) = {} /\ Pending(Inside \cup Outside) = {p}
  BY <1>1, PendingOne, PendingOneNext DEF Inside, Outside
<1>3. Members' = Members \ {p} /\ p \in Members
  BY <1>1, <1>2 DEF Members, HeapInv
<1>4. TypeOK'
  <2>1. v_DiskList' \in Disks \cup {NULL} /\ d_next' \in [Disks -> Disks \cup {NULL}]
    <3>1. At(n, s, 2) \in Disks \cup {NULL} /\ At(n, s, j + 1) \in Disks \cup {NULL}
      BY DEF At
    <3>2. PICK a, b \in Disks \cup {NULL} : a = At(n, s, 2) /\ b = At(n, s, j + 1)
      BY <3>1
    <3>3. v_DiskList' = a \/ v_DiskList' = v_DiskList
      BY <3>2
    <3>4. d_next' = d_next \/ d_next' = [d_next EXCEPT ![s[j - 1]] = b]
      BY <3>2
    <3>5. v_DiskList \in Disks \cup {NULL} /\ d_next \in [Disks -> Disks \cup {NULL}]
      BY DEF TypeOK
    <3> HIDE DEF Plain
    <3>6. d_next' \in [Disks -> Disks \cup {NULL}]
      <4>1. CASE d_next' = d_next
        BY <3>5, <4>1
      <4>2. CASE d_next' = [d_next EXCEPT ![s[j - 1]] = b]
        BY <3>5, <4>2
      <4> QED BY <3>4, <4>1, <4>2
    <3> QED BY <3>3, <3>5, <3>6
  <2> QED BY <1>1, <2>1 DEF TypeOK
<1>5. HeapInv'
  BY <1>1, <1>2, <1>3 DEF HeapInv, Members
<1>6. UserInv'
  <2>1. \A u \in Users : pc[u] # "idle" => pDisk[u] # p
    BY <1>1, PendingOne DEF UserInv, Leaving
  <2>2. \A u \in Users : pc[u] \in {"io", "batch"} => pDisk[u] \in Members'
    BY <1>3, <2>1 DEF UserInv
  <2> QED BY <1>1, <2>1, <2>2, UsersKept
<1>7. ManagerInv'
  BY <1>1 DEF ManagerInv, Orderly
<1>8. ListGuarded' /\ \A l \in Nat : \A y \in [1 .. l -> Disks] : WalkInv(l, y)' /\ SeekInv(l, y)'
  BY <1>1, NoWalks DEF Walking
<1>9. n - 1 \in Nat /\ \E z \in [1 .. n - 1 -> Disks] : List(n - 1, z)'
  BY <1>3, Removal DEF Shape
<1>10. \E l \in Nat : \E z \in [1 .. l -> Disks] : Shape(l, z)'
  BY <1>8, <1>9 DEF Shape
<1> QED BY <1>4, <1>5, <1>6, <1>7, <1>8, <1>10

(* ... or its predecessor is still to be found.                            *)
LEMMA SeekStep ==
  ASSUME Orderly, Plain, NEW n \in Nat, NEW s \in [1 .. n -> Disks], Shape(n, s),
         NEW m \in Managers, pc[m] \in {"unlinking", "seek"}, pc' = [pc EXCEPT ![m] = "seek"],
         NEW i \in 1 .. n, NEW j \in 1 .. n, s[j] = pDisk[m], i < j, pd' = [pd EXCEPT ![m] = s[i]],
         UNCHANGED << pDisk, left, listVars, v_DiskCrit, card, heapVars >>
  PROVE  Plain' /\ Shape(n, s)'
<1> USE DEF Plain
<1>1. /\ pc'[m] = "seek" /\ pd'[m] = s[i] /\ m \in Threads /\ pc[m] \in Walking
      /\ \A x \in Threads \ {m} : pc'[x] = pc[x] /\ pd'[x] = pd[x]
      /\ \A x \in Threads \ {m} : pc[x] \notin Walking
  BY Basics, Alone DEF TypeOK, Walking
<1>2. /\ Pending(Inside)' = Pending(Inside) /\ Pending(Outside)' = Pending(Outside)
      /\ Pending(Inside \cup Outside)' = Pending(Inside \cup Outside)
      /\ Pending({"free"})' = Pending({"free"})
  BY <1>1, PendingSame DEF Inside, Outside
<1>3. Members' = Members
  BY <1>2 DEF Members, heapVars
<1>4. TypeOK'
  BY <1>1 DEF TypeOK, listVars, heapVars
<1>5. HeapInv'
  BY <1>2, <1>3 DEF HeapInv, heapVars
<1>6. UserInv'
  <2>1. \A u \in Users : pc[u] # "idle" => pDisk[u] # pDisk[m]
    BY <1>1, PendingOne DEF UserInv, Leaving
  <2>2. \A u \in Users : pc[u] \in {"io", "batch"} => pDisk[u] \in Members'
    BY <1>3 DEF UserInv
  <2> QED BY <1>1, <2>1, <2>2, UsersKept
<1>7. ManagerInv'
  BY <1>1 DEF ManagerInv, Orderly, Inside
<1>8. ListGuarded'
  BY <1>1, GuardKept
<1>9. List(n, s)'
  BY <1>3, ListKept DEF Shape
<1>10. WalkInv(n, s)'
  BY <1>1 DEF WalkInv, Walking
<1>11. SeekInv(n, s)'
  <2> SUFFICES ASSUME NEW x \in Managers, pc'[x] = "seek"
               PROVE  \E a, b \in 1 .. n : pd'[x] = s[a] /\ s[b] = pDisk'[x] /\ a < b
    BY DEF SeekInv
  <2>1. x = m
    BY DEF Orderly
  <2> QED BY <1>1, <2>1
<1> QED BY <1>4, <1>5, <1>6, <1>7, <1>8, <1>9, <1>10, <1>11 DEF Shape

LEMMA UnlinkSteps ==
  ASSUME Orderly, Plain, NEW n \in Nat, NEW s \in [1 .. n -> Disks], Shape(n, s),
         NEW m \in Managers, UnlinkFirst(m) \/ UnlinkNext(m)
  PROVE  Plain' /\ \E l \in Nat : \E z \in [1 .. l -> Disks] : Shape(l, z)'
<1> USE DEF Plain
<1>1. /\ pc[m] \in {"unlinking", "seek"} /\ m \in Threads
      /\ UNCHANGED << pDisk, left, card, heapVars >>
  BY Basics DEF UnlinkFirst, UnlinkNext
<1>2. PICK j \in 1 .. n : s[j] = pDisk[m]
  <2>1. pDisk[m] \in Members /\ pDisk[m] \in Disks
    BY <1>1 DEF Members, Pending, Inside, ManagerInv
  <2> QED BY <2>1 DEF Shape, List
<1>3. CASE UnlinkFirst(m)
  <2>1. v_DiskList = s[1] /\ 1 \in 1 .. n
    BY <1>2 DEF Shape, List, At
  <2>2. CASE v_DiskList = pDisk[m]
    <3>1. j = 1
      BY <1>2, <2>1, <2>2 DEF Shape, List
    <3>2. d_next[pDisk[m]] = At(n, s, 2)
      BY <1>2, <3>1 DEF Shape, List
    <3> QED BY <1>1, <1>2, <1>3, <2>2, <3>1, <3>2, UnlinkedStep DEF UnlinkFirst, Goto
  <2>3. CASE v_DiskList # pDisk[m]
    <3>1. 1 < j
      BY <1>2, <2>1, <2>3
    <3>2. /\ pc' = [pc EXCEPT ![m] = "seek"] /\ pd' = [pd EXCEPT ![m] = s[1]]
          /\ UNCHANGED << listVars, v_DiskCrit >>
      BY <1>3, <2>1, <2>3 DEF UnlinkFirst, Goto, listVars
    <3>3. Plain' /\ Shape(n, s)'
      BY <1>1, <1>2, <2>1, <3>1, <3>2, SeekStep
    <3> QED BY <3>3
  <2> QED BY <2>2, <2>3
<1>4. CASE UnlinkNext(m)
  <2>1. PICK i \in 1 .. n, k \in 1 .. n : pd[m] = s[i] /\ s[k] = pDisk[m] /\ i < k
    BY <1>4 DEF UnlinkNext, Shape, SeekInv
  <2>2. i + 1 \in 1 .. n /\ i + 1 <= k /\ d_next[s[i]] = s[i + 1] /\ s[i + 1] \in Disks
    <3>1. i + 1 \in 1 .. n /\ i + 1 <= k
      BY <2>1
    <3> QED BY <3>1 DEF Shape, List, At
  <2>3. CASE s[i + 1] = pDisk[m]
    <3>1. k = i + 1 /\ k > 1 /\ k - 1 = i
      BY <2>1, <2>2, <2>3 DEF Shape, List
    <3>2. d_next[s[k]] = At(n, s, k + 1)
      BY DEF Shape, List
    <3>3. /\ d_next' = [d_next EXCEPT ![s[k - 1]] = At(n, s, k + 1)]
          /\ v_DiskCrit' = NoThread /\ pc' = [pc EXCEPT ![m] = "sleep"] /\ pd' = pd
          /\ v_DiskList' = v_DiskList
      BY <1>4, <2>1, <2>2, <2>3, <3>1, <3>2, Basics DEF UnlinkNext, Goto
    <3> QED BY <1>1, <2>1, <3>1, <3>3, UnlinkedStep
  <2>4. CASE s[i + 1] # pDisk[m]
    <3>1. i + 1 < k
      BY <2>1, <2>2, <2>4
    <3>2. /\ pc' = pc /\ pd' = [pd EXCEPT ![m] = s[i + 1]]
          /\ UNCHANGED << listVars, v_DiskCrit >>
      BY <1>4, <2>1, <2>2, <2>4, Basics DEF UnlinkNext, listVars
    <3>3. pc' = [pc EXCEPT ![m] = "seek"]
      BY <1>4, <3>2 DEF UnlinkNext, TypeOK
    <3>4. Plain' /\ Shape(n, s)'
      BY <1>1, <2>1, <2>2, <3>1, <3>2, <3>3, SeekStep
    <3> QED BY <3>4
  <2> QED BY <2>3, <2>4
<1> QED BY <1>3, <1>4
-----------------------------------------------------------------------------
LEMMA NextDskInv ==
  ASSUME Orderly, DskInv, [Next]_vars
  PROVE  DskInv'
<1>1. PICK n \in Nat : \E s \in [1 .. n -> Disks] : Shape(n, s)
  BY DEF DskInv
<1>2. PICK s \in [1 .. n -> Disks] : Shape(n, s)
  BY <1>1
<1>3. Plain
  BY DEF DskInv
<1> USE <1>2, <1>3
<1> SUFFICES Plain' /\ \E l \in Nat : \E z \in [1 .. l -> Disks] : Shape(l, z)'
  BY DEF DskInv
<1>4. ASSUME Plain' /\ Shape(n, s)'
      PROVE  Plain' /\ \E l \in Nat : \E z \in [1 .. l -> Disks] : Shape(l, z)'
  BY <1>4
<1>5. ASSUME NEW u \in Users, UserStep(u) \/ UserEnter(u)
      PROVE  Plain' /\ Shape(n, s)'
  <2>1. u \in Threads
    BY Basics
  <2> QED BY <1>5, <2>1, BatchStep, CheckSteps DEF UserStep, UserEnter
<1>6. ASSUME NEW u \in Users, NEW p \in Disks, NEW k \in 1 .. Batches, Call(u, p, k)
      PROVE  Plain' /\ Shape(n, s)'
  BY <1>6, CallStep
<1>7. ASSUME NEW m \in Managers,
             InitList(m) \/ ManagerStep(m) \/ ManagerEnter(m) \/ \E p \in Disks : Deinit(m, p)
      PROVE  Plain' /\ \E l \in Nat : \E z \in [1 .. l -> Disks] : Shape(l, z)'
  <2>1. m \in Threads
    BY Basics
  <2>2. CASE Link(m)
    BY <2>2, LinkStep
  <2>3. CASE UnlinkFirst(m) \/ UnlinkNext(m)
    BY <2>3, UnlinkSteps
  <2>4. CASE EnterToCheck(m) \/ CheckStep(m)
    BY <1>4, <2>1, <2>4, CheckSteps
  <2>5. CASE CreateDisk(m) \/ SetUp(m) \/ Free(m)
    BY <1>4, <2>5, CreateStep, SetUpStep, FreeStep
  <2>6. CASE \/ InitList(m) \/ EnterToLink(m) \/ EnterToUnlink(m) \/ Sleep(m)
             \/ EnterToDrain(m) \/ LeaveDrain(m) \/ DeleteCrit(m)
    BY <1>4, <2>6, ManagerQuietStep
  <2>7. CASE \E p \in Disks : Deinit(m, p)
    BY <1>4, <2>7, DeinitStep
  <2> QED BY <1>7, <2>2, <2>3, <2>4, <2>5, <2>6, <2>7 DEF ManagerStep, ManagerEnter
<1>8. ASSUME UNCHANGED vars
      PROVE  Plain' /\ Shape(n, s)'
  BY <1>8 DEF vars, walkVars, listVars, heapVars, Plain, TypeOK, HeapInv, UserInv, ManagerInv,
     ListGuarded, Members, Pending, Shape, List, WalkInv, SeekInv, At
<1> QED BY <1>4, <1>5, <1>6, <1>7, <1>8 DEF Next

LEMMA LeastNat ==
  ASSUME NEW T, T \subseteq Nat, T # {}
  PROVE  \E x \in T : \A y \in T : x <= y
<1> DEFINE R == OpToRel(<, Nat)
<1>1. IsWellFoundedOn(R, Nat)
  BY NatLessThanWellFounded
<1>2. \A x, y \in Nat : x < y => << x, y >> \in R
  BY DEF OpToRel
<1> HIDE DEF R
<1>3. PICK x \in T : \A y \in T : ~(<< y, x >> \in R)
  BY <1>1, WFMin
<1>4. \A y \in T : ~(y < x)
  BY <1>2, <1>3
<1> QED BY <1>3, <1>4

(* What can be reached from v_DiskList are the members: they are closed,   *)
(* and a closed set without one would have a first one it is without.      *)
LEMMA ListedMembers ==
  ASSUME TypeOK, HeapInv, NEW n \in Nat, NEW s \in [1 .. n -> Disks], List(n, s)
  PROVE  Listed = Members
<1>1. Members \subseteq Disks
  BY DEF TypeOK, HeapInv
<1>2. \A i \in 1 .. n : s[i] \in Members
  BY DEF List
<1>3. \A i \in 1 .. n + 1 : At(n, s, i) \in Members \cup {NULL}
  BY <1>2 DEF At
<1>4. Closed(Members)
  <2>1. ASSUME NEW p \in Members PROVE d_next[p] \in Members \cup {NULL}
    <3>1. PICK i \in 1 .. n : s[i] = p
      BY <1>1 DEF List
    <3> QED BY <1>3, <3>1 DEF List
  <2>2. v_DiskList \in Members \cup {NULL}
    BY <1>3 DEF List
  <2> QED BY <2>1, <2>2 DEF Closed
<1>5. ASSUME NEW X \in SUBSET Disks, Closed(X), NEW p \in Members PROVE p \in X
  <2> DEFINE T == {i \in 1 .. n : s[i] \notin X}
  <2>1. T = {}
    <3> SUFFICES ASSUME T # {} PROVE FALSE
      OBVIOUS
    <3>1. T \subseteq Nat /\ T # {}
      OBVIOUS
    <3>2. \E i \in T : \A k \in T : i <= k
      <4> HIDE DEF T
      <4> QED BY <3>1, LeastNat
    <3>3. PICK i \in 1 .. n : s[i] \notin X /\ \A k \in 1 .. n : s[k] \notin X => i <= k
      BY <3>2
    <3>4. CASE i = 1
      BY <3>3, <3>4, <1>5, Basics DEF List, At, Closed
    <3>5. CASE i > 1
      <4>1. i - 1 \in 1 .. n /\ s[i - 1] \in X /\ s[i] \in Disks /\ (i - 1) + 1 = i
        BY <3>3, <3>5
      <4>2. d_next[s[i - 1]] = s[i]
        BY <4>1 DEF List, At
      <4>3. s[i] \in X
        BY <1>5, <4>1, <4>2, Basics DEF Closed
      <4> QED BY <3>3, <4>3
    <3> QED BY <3>3, <3>4, <3>5
  <2>2. PICK i \in 1 .. n : s[i] = p
    BY <1>1 DEF List
  <2> QED BY <2>1, <2>2
<1> QED BY <1>1, <1>4, <1>5 DEF Listed

LEMMA SoundWhenInv ==
  ASSUME Orderly, DskInv
  PROVE  DisksSound
<1>1. PICK n \in Nat : \E s \in [1 .. n -> Disks] : Shape(n, s)
  BY DEF DskInv
<1>2. PICK s \in [1 .. n -> Disks] : Shape(n, s)
  BY <1>1
<1>3. Plain
  BY DEF DskInv
<1> USE <1>2, <1>3 DEF Plain
<1>4. Members \subseteq live /\ \A i \in 1 .. n : s[i] \in Members
  BY DEF HeapInv, Shape, List
<1>5. ASSUME NEW m \in Managers, pc[m] \in Inside \cup Outside
      PROVE  pDisk[m] \in live /\ (pc[m] # "free" => card[pDisk[m]] # "deleted")
  <2>1. pDisk[m] \in live
    BY <1>5 DEF HeapInv, Members, Pending
  <2>2. pc[m] # "free" => Pending({"free"}) = {}
    BY PendingOne
  <2> QED BY <2>1, <2>2 DEF HeapInv
<1>6. ASSUME NEW u \in Users, pc[u] \in {"io", "batch"}
      PROVE  pDisk[u] \in live /\ card[pDisk[u]] # "deleted"
  <2>1. Pending({"free"}) \subseteq Pending(Leaving)
    BY DEF Pending, Leaving
  <2> QED BY <1>4, <1>6, <2>1 DEF UserInv, HeapInv
<1>7. ASSUME NEW t \in Threads, pc[t] = "walk" PROVE pd[t] \in live \cup {NULL}
  <2>1. PICK i \in 1 .. n + 1 : pd[t] = At(n, s, i)
    BY <1>7 DEF Shape, WalkInv
  <2> QED BY <1>4, <2>1 DEF At
<1>8. ASSUME NEW m \in Managers, pc[m] = "seek" PROVE pd[m] \in live
  BY <1>4, <1>8 DEF Shape, SeekInv
<1>9. ASSUME NEW m \in Managers, pc[m] = "unlinking" PROVE v_DiskList \in live
  <2>1. pDisk[m] \in Members /\ pDisk[m] \in Disks
    BY <1>9 DEF Members, Pending, Inside, ManagerInv
  <2>2. 1 \in 1 .. n
    BY <2>1 DEF Shape, List
  <2> QED BY <1>4, <2>2 DEF Shape, List, At
<1>10. NoUseAfterFree
  <2> SUFFICES ASSUME NEW t \in Threads
               PROVE  /\ Touches(t) \subseteq live
                      /\ pc[t] \in {"io", "batch", "drain", "drained", "delete"}
                           => card[pDisk[t]] # "deleted"
    BY DEF NoUseAfterFree
  <2>1. CASE t \in Users
    <3>1. pc[t] \in {"idle", "check", "walk", "io", "batch"}
      BY <2>1 DEF UserInv
    <3> QED BY <1>6, <1>7, <2>1, <3>1 DEF Touches
  <2>2. CASE t \in Managers
    <3>1. pc[t] \in {"idle", "create"} \cup Inside \cup Outside
      BY <2>2 DEF ManagerInv, TypeOK, Inside, Outside
    <3>2. Touches(t) \subseteq live
      <4>1. CASE pc[t] \in {"idle", "create", "link", "check", "unlink", "sleep"}
        BY <4>1 DEF Touches
      <4>2. CASE pc[t] = "walk"
        BY <1>7, <4>2 DEF Touches
      <4>3. CASE pc[t] = "unlinking"
        BY <1>5, <1>9, <2>2, <4>3 DEF Touches, Inside
      <4>4. CASE pc[t] = "seek"
        BY <1>5, <1>8, <2>2, <4>4 DEF Touches, Inside
      <4>5. CASE pc[t] \in {"linking", "setup", "drain", "drained", "delete", "free"}
        BY <1>5, <2>2, <4>5 DEF Touches, Inside, Outside
      <4> QED BY <3>1, <4>1, <4>2, <4>3, <4>4, <4>5 DEF Inside, Outside
    <3>3. pc[t] \in {"io", "batch", "drain", "drained", "delete"} => card[pDisk[t]] # "deleted"
      BY <1>5, <2>2, <3>1 DEF Inside, Outside
    <3> QED BY <3>2, <3>3
  <2> QED BY <2>1, <2>2, Basics
<1>11. ListExact
  <2> SUFFICES ASSUME \A m \in Managers : pc[m] \notin {"linking", "unlinking", "seek"}
               PROVE  Listed = active \cup Pending({"setup", "check", "walk", "unlink"})
    BY DEF ListExact
  <2>1. Pending(Inside) = Pending({"setup", "check", "walk", "unlink"})
    BY DEF Pending, Inside
  <2> QED BY <2>1, ListedMembers DEF Shape, Members
<1> QED BY <1>10, <1>11 DEF DisksSound
-----------------------------------------------------------------------------
(* Every state is one in which the list is v_DiskList's, in one piece and  *)
(* without a loop, and every thread is where its label says.               *)
THEOREM Invariance == ASSUME Orderly PROVE Spec => []DskInv
BY InitDskInv, NextDskInv, PTL DEF Spec

(* The state is of the types the program gives it.                         *)
THEOREM TypeCorrect == ASSUME Orderly PROVE Spec => []TypeOK
<1>1. DskInv => TypeOK
  BY DEF DskInv, Plain
<1> QED BY <1>1, Invariance, PTL

(* No thread ever follows or uses a disk that is freed; the list is only   *)
(* touched by the owner of v_DiskCrit, though DSK_Init makes that one anew *)
(* for every first disk; and it holds exactly the disks that live          *)
(* (system.c:79-158, 279-283, diskio.c:246-270).                           *)
THEOREM DisksAreSound == ASSUME Orderly PROVE Spec => []DisksSound
BY SoundWhenInv, Invariance, PTL

(* IsValidDisk never refuses a disk that is active (system.c:96-123).      *)
THEOREM ActiveOnesAccepted == ASSUME Orderly PROVE Spec => ActiveAccepted
<1> DEFINE Accepted ==
      \A u \in Users : pc[u] = "walk" /\ pc'[u] = "idle" => pDisk[u] \notin active
<1>1. ASSUME Orderly, DskInv, [Next]_vars PROVE Accepted
  <2> SUFFICES ASSUME NEW u \in Users, pc[u] = "walk", pc'[u] = "idle"
               PROVE  pDisk[u] \notin active
    OBVIOUS
  <2>1. NotFound(u)
    <3>1. pc \in [Threads -> Labels] /\ u \in Threads
      BY <1>1, Basics DEF DskInv, Plain, TypeOK, Labels, Inside, Outside
    <3>2. pc' # pc
      OBVIOUS
    <3> QED BY SMTT(30), <1>1, <3>1, <3>2 DEF Next, UserStep, UserEnter, ManagerStep, ManagerEnter, CheckStep,
         Walk, Found, NotFound, LeaveBatch, EnterToCheck, EnterBatch, Call, InitList, CreateDisk,
         Link, SetUp, UnlinkFirst, UnlinkNext, Sleep, LeaveDrain, DeleteCrit, Free, EnterToLink,
         EnterToUnlink, EnterToDrain, Deinit, Goto, vars
  <2>2. PICK n \in Nat : \E s \in [1 .. n -> Disks] : Shape(n, s)
    BY <1>1 DEF DskInv
  <2>3. PICK s \in [1 .. n -> Disks] : Shape(n, s)
    BY <2>2
  <2> QED BY <1>1, <2>1, <2>3, Basics, CheckSteps DEF CheckStep, DskInv
<1>2. ASSUME Orderly PROVE DskInv /\ [Next]_vars => [Accepted]_vars
  BY <1>1, <1>2
<1>3. [][Accepted]_vars => ActiveAccepted
  BY PTL DEF ActiveAccepted
<1> QED BY <1>2, <1>3, Invariance, PTL DEF Spec
-----------------------------------------------------------------------------
(* Every buffer of the receive path is in one place, none in a deleted     *)
(* queue, NDIS has none after a stop and gets frames in order, for any     *)
(* finite set of buffers, around resets, power changes and halts           *)
(* (ParaNdis-Common.c:1486-1536, 2092-2330, 2805-2865).                    *)
THEOREM BuffersAreSound ==
  ASSUME IsFiniteSet(Buffers)
  PROVE  Receive!Spec => []BuffersSound
<1>1. Receive!IsFiniteSet(Buffers)
  BY DEF IsFiniteSet, Receive!IsFiniteSet
<1>2. Receive!Spec => []Receive!BuffersSound
  BY <1>1, Receive!BuffersAreSound
<1> QED BY <1>2, PTL DEF BuffersSound

(* A binding that is referenced is there, packets are with the virtual     *)
(* function only while it is open and bound, and a function that is up is  *)
(* in use, whoever comes last, for any number of bindings, packets and     *)
(* changes (ParaNdis_Protocol.cpp:277-437, 701-880, 916-1064, 1257-1279).  *)
THEOREM ProtocolIsSound == Protocol!Spec => []ProtocolSound
<1>1. Protocol!Spec => []Protocol!ProtocolSound
  BY Protocol!ProtocolIsSound
<1> QED BY <1>1, PTL DEF ProtocolSound
=============================================================================
