---------------------------- MODULE DskLifecycle -----------------------------
(***************************************************************************)
(* The stream interface of virtio_blk: drivers/virtio_blk/system.c and     *)
(* CloseDisk of diskio.c.  Threads of the device manager activate and      *)
(* deactivate disks; user threads call DSK_IOControl with the handles      *)
(* DSK_Init returned.  The disks form a linked list under v_DiskCrit, a    *)
(* handle is the address of its disk, and an address LocalFree got back    *)
(* may come out of LocalAlloc again.                                       *)
(*                                                                         *)
(* Inside DoDiskIO (module VirtioBlk) a call enters and leaves             *)
(* d_DiskCardCrit once for every batch; nothing else of it shows here.     *)
(***************************************************************************)
EXTENDS Integers

CONSTANTS
  Users, Managers, NoThread,
  Disks, NULL,     (* addresses LocalAlloc may return                       *)
  Batches,         (* the most batches a request is split into              *)
  InitFails,       (* InitVirtioBlk may fail, as it does on an empty slot   *)
  ManagerWaits,    (* DSK_Init and DSK_Deinit keep out of the way of calls: *)
                   (* see Using, Settled and NoLateWalk                     *)
  SleepLong        (* Sleep(50) lets every thread that can run get on to    *)
                   (* its next wait                                         *)

Threads == Users \cup Managers

ASSUME LifecycleAssumption ==
  /\ Users \cap Managers = {} /\ NoThread \notin Threads /\ NULL \notin Disks
  /\ "deleted" \notin Threads \cup {NoThread}
  /\ Batches \in Nat \ {0}
  /\ InitFails \in BOOLEAN /\ ManagerWaits \in BOOLEAN /\ SleepLong \in BOOLEAN

VARIABLES
  pc, pDisk, pd, left,   \* of a thread: the disk, the walk, batches to go
  v_DiskList, d_next,    \* the list
  v_DiskCrit, card,      \* owners of v_DiskCrit and of each d_DiskCardCrit
  live,                  \* allocated disks
  active, handles        \* disks the manager holds as active, handles given out

walkVars == << pDisk, pd, left >>
listVars == << v_DiskList, d_next >>
heapVars == << live, active, handles >>
vars == << pc, walkVars, listVars, v_DiskCrit, card, heapVars >>

Init ==
  /\ pc = [t \in Threads |-> "idle"]
  /\ pDisk = [t \in Threads |-> NULL]
  /\ pd = [t \in Threads |-> NULL]
  /\ left = [t \in Threads |-> 0]
  /\ v_DiskList = NULL
  /\ d_next = [p \in Disks |-> NULL]
  /\ v_DiskCrit = NoThread
  /\ card = [p \in Disks |-> "deleted"]
  /\ live = {} /\ active = {} /\ handles = {}

Goto(t, label) == pc' = [pc EXCEPT ![t] = label]

(* With ManagerWaits no disk is deactivated that a call is using, no disk  *)
(* is called that is being deactivated, and the first disk is activated    *)
(* while no call walks the empty list with the handle of a disk long gone. *)
Using(u, p) == pc[u] # "idle" /\ pDisk[u] = p
Settled(p) == \A m \in Managers : ~Using(m, p)
NoLateWalk == v_DiskList = NULL => \A u \in Users : pc[u] # "walk"
-----------------------------------------------------------------------------
(* DSK_Init sets up the list's critical section when the list is empty ... *)
InitList(m) ==
  /\ pc[m] = "idle" /\ (ManagerWaits => NoLateWalk)
  /\ v_DiskCrit' = IF v_DiskList = NULL THEN NoThread ELSE v_DiskCrit
  /\ Goto(m, "create")
  /\ UNCHANGED << walkVars, listVars, card, heapVars >>

(* ... allocates a disk, cleared, or gives up ...                          *)
CreateDisk(m) ==
  /\ pc[m] = "create"
  /\ \/ Goto(m, "idle") /\ UNCHANGED << pDisk, live, d_next, card >>
     \/ \E p \in Disks \ live :
          /\ live' = live \cup {p}
          /\ d_next' = [d_next EXCEPT ![p] = NULL]
          /\ card' = [card EXCEPT ![p] = NoThread]
          /\ pDisk' = [pDisk EXCEPT ![m] = p]
          /\ Goto(m, "link")
  /\ UNCHANGED << pd, left, v_DiskList, v_DiskCrit, active, handles >>

EnterToLink(m) ==
  /\ pc[m] = "link"
  /\ v_DiskCrit = NoThread /\ v_DiskCrit' = m
  /\ Goto(m, "linking")
  /\ UNCHANGED << walkVars, listVars, card, heapVars >>

LinkSwapped(m) ==   (* mutant: the head is set first *)
  /\ pc[m] = "linking"
  /\ v_DiskList' = pDisk[m]
  /\ d_next' = [d_next EXCEPT ![pDisk[m]] = v_DiskList']
  /\ v_DiskCrit' = NoThread
  /\ Goto(m, "setup")
  /\ UNCHANGED << walkVars, card, heapVars >>

Link(m) ==
  /\ pc[m] = "linking"
  /\ d_next' = [d_next EXCEPT ![pDisk[m]] = v_DiskList]
  /\ v_DiskList' = pDisk[m]
  /\ v_DiskCrit' = NoThread
  /\ Goto(m, "setup")
  /\ UNCHANGED << walkVars, card, heapVars >>

(* ... and sets the device up.  A disk whose device fails is freed as it   *)
(* is, in the list.                                                        *)
SetUp(m) ==
  /\ pc[m] = "setup"
  /\ \E ok \in {TRUE, ~InitFails} :
       IF ok
         THEN /\ active' = active \cup {pDisk[m]} /\ handles' = handles \cup {pDisk[m]}
              /\ UNCHANGED << live, card >>
         ELSE /\ live' = live \ {pDisk[m]}
              /\ card' = [card EXCEPT ![pDisk[m]] = "deleted"]
              /\ UNCHANGED << active, handles >>
  /\ Goto(m, "idle")
  /\ UNCHANGED << walkVars, listVars, v_DiskCrit >>
-----------------------------------------------------------------------------
(* DSK_IOControl is called, perhaps with the handle of a disk that is gone *)
(* or has made way for another.                                            *)
Call(u, p, n) ==
  /\ pc[u] = "idle"
  /\ p \in handles /\ (ManagerWaits => Settled(p))
  /\ pDisk' = [pDisk EXCEPT ![u] = p]
  /\ left' = [left EXCEPT ![u] = n]
  /\ Goto(u, "check")
  /\ UNCHANGED << pd, listVars, v_DiskCrit, card, heapVars >>

(* DSK_Deinit is called, and calls DSK_Close, which only checks.           *)
Deinit(m, p) ==
  /\ pc[m] = "idle"
  /\ p \in active /\ (ManagerWaits => \A u \in Users : ~Using(u, p))
  /\ active' = active \ {p}
  /\ pDisk' = [pDisk EXCEPT ![m] = p]
  /\ Goto(m, "check")
  /\ UNCHANGED << pd, left, listVars, v_DiskCrit, card, live, handles >>

(* IsValidDisk: a walk along the list.                                     *)
CheckSkipsFirst(t) ==   (* mutant: starts at the second disk *)
  /\ pc[t] = "check"
  /\ v_DiskCrit = NoThread /\ v_DiskCrit' = t
  /\ pd' = [pd EXCEPT ![t] = IF v_DiskList = NULL THEN NULL ELSE d_next[v_DiskList]]
  /\ Goto(t, "walk")
  /\ UNCHANGED << pDisk, left, listVars, card, heapVars >>

EnterToCheck(t) ==
  /\ pc[t] = "check"
  /\ v_DiskCrit = NoThread /\ v_DiskCrit' = t
  /\ pd' = [pd EXCEPT ![t] = v_DiskList]
  /\ Goto(t, "walk")
  /\ UNCHANGED << pDisk, left, listVars, card, heapVars >>

Walk(t) ==
  /\ pc[t] = "walk" /\ pd[t] \notin {NULL, pDisk[t]}
  /\ pd' = [pd EXCEPT ![t] = d_next[pd[t]]]
  /\ UNCHANGED << pc, pDisk, left, listVars, v_DiskCrit, card, heapVars >>

Found(t) ==
  /\ pc[t] = "walk" /\ pd[t] = pDisk[t]
  /\ v_DiskCrit' = NoThread
  /\ Goto(t, IF t \in Users THEN "io" ELSE "unlink")
  /\ UNCHANGED << walkVars, listVars, card, heapVars >>

(* A user gets ERROR_INVALID_HANDLE; DSK_Deinit goes on all the same.      *)
NotFound(t) ==
  /\ pc[t] = "walk" /\ pd[t] = NULL
  /\ v_DiskCrit' = NoThread
  /\ Goto(t, IF t \in Users THEN "idle" ELSE "unlink")
  /\ UNCHANGED << walkVars, listVars, card, heapVars >>

EnterBatch(u) ==
  /\ pc[u] = "io"
  /\ card[pDisk[u]] = NoThread
  /\ card' = [card EXCEPT ![pDisk[u]] = u]
  /\ Goto(u, "batch")
  /\ UNCHANGED << walkVars, listVars, v_DiskCrit, heapVars >>

LeaveBatch(u) ==
  /\ pc[u] = "batch"
  /\ card' = [card EXCEPT ![pDisk[u]] = NoThread]
  /\ left' = [left EXCEPT ![u] = @ - 1]
  /\ Goto(u, IF left[u] = 1 THEN "idle" ELSE "io")
  /\ UNCHANGED << pDisk, pd, listVars, v_DiskCrit, heapVars >>
-----------------------------------------------------------------------------
(* CloseDisk takes the disk out of the list ...                            *)
EnterToUnlink(m) ==
  /\ pc[m] = "unlink"
  /\ v_DiskCrit = NoThread /\ v_DiskCrit' = m
  /\ Goto(m, "unlinking")
  /\ UNCHANGED << walkVars, listVars, card, heapVars >>

UnlinkFirstSeeks(m) ==   (* mutant: the first disk is not looked at *)
  /\ pc[m] = "unlinking"
  /\ pd' = [pd EXCEPT ![m] = v_DiskList]
  /\ Goto(m, "seek")
  /\ UNCHANGED << v_DiskList, v_DiskCrit, pDisk, left, d_next, card, heapVars >>

UnlinkFirst(m) ==
  /\ pc[m] = "unlinking"
  /\ IF v_DiskList = pDisk[m]
       THEN /\ v_DiskList' = d_next[pDisk[m]]
            /\ v_DiskCrit' = NoThread
            /\ Goto(m, "sleep")
            /\ UNCHANGED pd
       ELSE /\ pd' = [pd EXCEPT ![m] = v_DiskList]
            /\ Goto(m, "seek")
            /\ UNCHANGED << v_DiskList, v_DiskCrit >>
  /\ UNCHANGED << pDisk, left, d_next, card, heapVars >>

UnlinkNext(m) ==
  LET next == d_next[pd[m]]
  IN /\ pc[m] = "seek"
     /\ IF next \in {pDisk[m], NULL}
          THEN /\ d_next' = [d_next EXCEPT ![pd[m]] = IF next = NULL THEN NULL ELSE d_next[next]]
               /\ v_DiskCrit' = NoThread /\ Goto(m, "sleep")
               /\ UNCHANGED pd
          ELSE /\ pd' = [pd EXCEPT ![m] = next]
               /\ UNCHANGED << d_next, v_DiskCrit, pc >>
     /\ UNCHANGED << pDisk, left, v_DiskList, card, heapVars >>

(* ... sleeps, goes through the disk's critical section once, deletes it   *)
(* and frees the disk.                                                     *)
Asleep(u) == pc[u] \in {"idle", "batch"} \/ (pc[u] = "io" /\ card[pDisk[u]] # NoThread)

Sleep(m) ==
  /\ pc[m] = "sleep"
  /\ SleepLong => \A u \in Users : Asleep(u)
  /\ Goto(m, "drain")
  /\ UNCHANGED << walkVars, listVars, v_DiskCrit, card, heapVars >>

EnterToDrain(m) ==
  /\ pc[m] = "drain"
  /\ card[pDisk[m]] = NoThread
  /\ card' = [card EXCEPT ![pDisk[m]] = m]
  /\ Goto(m, "drained")
  /\ UNCHANGED << walkVars, listVars, v_DiskCrit, heapVars >>

LeaveDrain(m) ==
  /\ pc[m] = "drained"
  /\ card' = [card EXCEPT ![pDisk[m]] = NoThread]
  /\ Goto(m, "delete")
  /\ UNCHANGED << walkVars, listVars, v_DiskCrit, heapVars >>

DeleteCrit(m) ==
  /\ pc[m] = "delete"
  /\ card' = [card EXCEPT ![pDisk[m]] = "deleted"]
  /\ Goto(m, "free")
  /\ UNCHANGED << walkVars, listVars, v_DiskCrit, heapVars >>

Free(m) ==
  /\ pc[m] = "free"
  /\ live' = live \ {pDisk[m]}
  /\ Goto(m, "idle")
  /\ UNCHANGED << walkVars, listVars, v_DiskCrit, card, active, handles >>
-----------------------------------------------------------------------------
CheckStep(t) == Walk(t) \/ Found(t) \/ NotFound(t)
UserStep(u) == CheckStep(u) \/ LeaveBatch(u)
ManagerStep(m) ==
  \/ CreateDisk(m) \/ Link(m) \/ SetUp(m) \/ CheckStep(m)
  \/ UnlinkFirst(m) \/ UnlinkNext(m) \/ Sleep(m) \/ LeaveDrain(m) \/ DeleteCrit(m) \/ Free(m)

(* Waits for a critical section.                                           *)
UserEnter(u) == EnterToCheck(u) \/ EnterBatch(u)
ManagerEnter(m) == EnterToLink(m) \/ EnterToCheck(m) \/ EnterToUnlink(m) \/ EnterToDrain(m)

Next ==
  \/ \E u \in Users :
       UserStep(u) \/ UserEnter(u) \/ \E p \in Disks, n \in 1 .. Batches : Call(u, p, n)
  \/ \E m \in Managers :
       InitList(m) \/ ManagerStep(m) \/ ManagerEnter(m) \/ \E p \in Disks : Deinit(m, p)

Spec == Init /\ [][Next]_vars

(* Threads run, critical sections are granted in turn, batches end (what   *)
(* VirtioBlk shows).  Nobody has to activate, call or deactivate.          *)
Fairness ==
  /\ \A u \in Users : WF_vars(UserStep(u)) /\ SF_vars(UserEnter(u))
  /\ \A m \in Managers : WF_vars(ManagerStep(m)) /\ SF_vars(ManagerEnter(m))

FairSpec == Spec /\ Fairness
-----------------------------------------------------------------------------
TypeOK ==
  /\ pc \in [Threads -> {"idle", "create", "link", "linking", "setup", "check", "walk", "io",
                         "batch", "unlink", "unlinking", "seek", "sleep", "drain", "drained",
                         "delete", "free"}]
  /\ pDisk \in [Threads -> Disks \cup {NULL}] /\ pd \in [Threads -> Disks \cup {NULL}]
  /\ left \in [Threads -> 0 .. Batches]
  /\ v_DiskList \in Disks \cup {NULL} /\ d_next \in [Disks -> Disks \cup {NULL}]
  /\ v_DiskCrit \in Threads \cup {NoThread}
  /\ card \in [Disks -> Threads \cup {NoThread, "deleted"}]
  /\ active \subseteq live /\ live \subseteq Disks /\ handles \subseteq Disks

(* The disks a thread's next step reads or writes.                         *)
Touches(t) ==
  CASE pc[t] = "walk" -> {pd[t]} \ {NULL, pDisk[t]}
    [] pc[t] = "unlinking" -> {v_DiskList, pDisk[t]}
    [] pc[t] = "seek" -> {pd[t], pDisk[t]}
    [] pc[t] \in {"linking", "setup", "io", "batch", "drain", "drained", "delete", "free"} ->
         {pDisk[t]}
    [] OTHER -> {}

(* No thread follows a pointer to a freed disk, nor the null pointer, and  *)
(* none uses a deleted critical section: system.c:113-119, diskio.c:247-    *)
(* 258, DoDiskIO.                                                          *)
NoUseAfterFree ==
  \A t \in Threads :
    /\ Touches(t) \subseteq live
    /\ pc[t] \in {"io", "batch", "drain", "drained", "delete"} => card[pDisk[t]] # "deleted"

(* The list: the least set that holds what v_DiskList points to and, with  *)
(* a disk, what its d_next points to.                                      *)
Closed(X) == v_DiskList \in X \cup {NULL} /\ \A p \in X : d_next[p] \in X \cup {NULL}
Listed == {p \in Disks : \A X \in SUBSET Disks : Closed(X) => p \in X}

Pending(labels) == {pDisk[m] : m \in {n \in Managers : pc[n] \in labels}}

(* v_DiskCrit does guard the list, though DSK_Init initialises it anew     *)
(* whenever it finds the list empty (system.c:141-143).                    *)
ListGuarded ==
  \A t \in Threads :
    pc[t] \in {"walk", "linking", "unlinking", "seek"} => v_DiskCrit = t

(* Whenever nobody changes the list, it holds exactly the disks that are   *)
(* active, being set up, or about to be unlinked: none is lost by an       *)
(* unlinking or linking next to it, none stays (system.c:79-83,            *)
(* diskio.c:246-260).                                                      *)
ListExact ==
  (\A m \in Managers : pc[m] \notin {"linking", "unlinking", "seek"})
    => Listed = active \cup Pending({"setup", "check", "walk", "unlink"})

(* An active disk is never refused (system.c:279-283).                     *)
ActiveAccepted ==
  [][\A u \in Users : pc[u] = "walk" /\ pc'[u] = "idle" => pDisk[u] \notin active]_vars

(* Every call and every activation and deactivation returns: nobody keeps  *)
(* a critical section, no walk goes round in circles.                      *)
Returns == \A t \in Threads : pc[t] # "idle" ~> pc[t] = "idle"

(* "IsValidDisk - verify that pDisk points to something in our list.       *)
(* Return TRUE if pDisk is valid" (system.c:96-98): what is in the list    *)
(* is a disk.                                                              *)
ListedIsValid == v_DiskCrit = NoThread => Listed \subseteq live

(* "Try to ensure this is the only thread holding the disk crit sec"       *)
(* (diskio.c:265): nobody else holds it when it is deleted.                *)
CritUnheldAtDelete ==
  \A m \in Managers : pc[m] = "delete" => card[pDisk[m]] \notin Users

(* No thread touches a disk that has been freed, and the list of disks is  *)
(* changed and followed only by the holder of its critical section, and is *)
(* exactly the disks that live (system.c:79-158, 279-283,                  *)
(* diskio.c:246-260).                                                      *)
DisksSound == NoUseAfterFree /\ ListGuarded /\ ListExact
=============================================================================
