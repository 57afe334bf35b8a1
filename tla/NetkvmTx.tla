------------------------------ MODULE NetkvmTx ------------------------------
(***************************************************************************)
(* The transmit path of the NDIS 6 adapter (CParaNdisTX, CNBL, CNB and     *)
(* CTXVirtQueue).  A net buffer list is mapped, queued, and its buffers    *)
(* are offered to the device one by one, by the sender that queued it or   *)
(* by the DPC, whichever has the lock; a buffer that comes back counts for *)
(* its list, and the list goes back to NDIS when all of them have.  It is  *)
(* the build that has its spin locks: on Windows CE they are compiled out. *)
(***************************************************************************)
EXTENDS Naturals, Sequences, FiniteSets, FiniteSetsExt

CONSTANTS
  NBLs,         \* the lists NDIS sends, each by a thread of its own
  Size,         \* the number of buffers of each
  Num,          \* of transmit descriptors, and of the queue's
  MayFail,      \* mappings and submissions may fail
  Events        \* what befalls the adapter, a subset of {"remove", "cancel"}

VARIABLES
  place,        \* of each list: where it is, see Places
  left,         \* m_Buffers: the buffers still to be offered
  detached,     \* m_MappedBuffersDetached
  buffersDone,  \* m_BuffersDone
  failed,       \* m_HaveFailedMappings
  ring, used,   \* the buffers of each list the device has, and has used
  m_SendQueue,
  m_DoKickOnNoBuffer, m_Killed,
  event,        \* interrupt at that many unseen used ones; 0: interrupts are off
  irq, dpcQueued, awake,
  m_DpcWaiting, m_Lock,
  kick,         \* SentOutSomeBuffers || !HaveBuffers, of who has the lock
  round,        \* of the DPC under the lock: 1 or 2
  todo,         \* of each thread: what it has to do
  nbToFree,     \* of each thread: how many buffers of which list
  completed,    \* of each thread: completedNBLs
  bSurprizeRemoved,
  events,       \* that may still come
  raced         \* lists on their way to the queue when it was drained

nblVars  == << place, left, detached, buffersDone, failed >>
devVars  == << ring, used, event, irq, awake >>
lockVars == << m_Lock, kick, round >>
listVars == << nbToFree, completed >>
envVars  == << bSurprizeRemoved, events, raced >>
vars == << nblVars, devVars, lockVars, listVars, envVars, m_SendQueue, m_DoKickOnNoBuffer,
           m_Killed, dpcQueued, m_DpcWaiting, todo >>

Threads == NBLs \cup {"dpc", "ctl"}
Places  == {"ndis", "mapping", "queue", "posting", "waiting", "gone", "dropped"}
None    == [n \in NBLs |-> 0]

Init ==
  /\ place = [n \in NBLs |-> "ndis"] /\ left = Size /\ detached = None /\ buffersDone = None
  /\ failed = [n \in NBLs |-> FALSE] /\ ring = None /\ used = None
  /\ m_SendQueue = << >> /\ m_DoKickOnNoBuffer = FALSE /\ m_Killed = FALSE
  /\ event = 1 /\ irq = FALSE /\ dpcQueued = FALSE /\ awake = FALSE
  /\ m_DpcWaiting = 0 /\ m_Lock = "free" /\ kick = FALSE /\ round = 1
  /\ todo = [t \in Threads |-> << >>]
  /\ nbToFree = [t \in Threads |-> None] /\ completed = [t \in Threads |-> {}]
  /\ bSurprizeRemoved = FALSE /\ events = Events /\ raced = {}
-----------------------------------------------------------------------------
At(t, op)   == todo[t] # << >> /\ Head(todo[t]) = op
Then(t, s)  == todo' = [todo EXCEPT ![t] = s \o Tail(@)]
When(c, s)  == IF c THEN s ELSE << >>
Total(f)    == FoldSet(LAMBDA n, sum : f[n] + sum, 0, NBLs)
Pending     == Total(used)
InUse       == Total(ring) + Pending
Possible    == ~bSurprizeRemoved       \* ParaNdis_IsTxRxPossible; the link is up

(* What may fail: the parsing of priority, buffers and offloads of a list; *)
(* the mapping of a buffer; its binding to a descriptor, headers copied    *)
(* and the checksums prepared; the descriptor's way into the queue.        *)
Succeeds         == IF MayFail THEN BOOLEAN ELSE {TRUE}
Prepare          == Succeeds
BindToDescriptor == Succeeds
Enqueue          == Succeeds

(* Send: the list is refused, or prepared and its buffers mapped, at once  *)
(* or in callbacks of the system; the last to be mapped goes on.           *)
Send(n) ==
  /\ place[n] = "ndis" /\ ~bSurprizeRemoved
  /\ \/ FALSE \in Prepare /\ place' = [place EXCEPT ![n] = "gone"] /\ UNCHANGED todo
     \/ place' = [place EXCEPT ![n] = "mapping"]
        /\ todo' = [todo EXCEPT ![n] = << "map", "alive" >>]
  /\ UNCHANGED << left, detached, buffersDone, failed, devVars, lockVars, listVars, envVars,
                  m_SendQueue, m_DoKickOnNoBuffer, m_Killed, dpcQueued, m_DpcWaiting >>

StartMapping(n) ==
  /\ At(n, "map") /\ Then(n, << >>)
  /\ \E mapped \in Succeeds : failed' = [failed EXCEPT ![n] = ~mapped]
  /\ UNCHANGED << place, left, detached, buffersDone, devVars, lockVars, listVars, envVars,
                  m_SendQueue, m_DoKickOnNoBuffer, m_Killed, dpcQueued, m_DpcWaiting >>

(* DoPendingTasks of the sender, and of the DPC, which announces itself.   *)
SenderTasks == << "lock", "reclaim", "yield", "send", "kick", "unlock", "free" >>
DpcTasks    == << "announce", "lock", "reclaim", "arrived", "send", "restart", "kick", "again",
                  "unlock", "free" >>
SecondRound == << "reclaim", "send", "restart", "kick" >>

NBLMappingDone(n) ==
  /\ \/ At(n, "alive") /\ UNCHANGED m_SendQueue
        /\ IF ~failed[n] /\ ~m_Killed
             THEN Then(n, << "enqueue" >>) /\ UNCHANGED place
             ELSE Then(n, << >>) /\ place' = [place EXCEPT ![n] = "gone"]
     \/ At(n, "enqueue") /\ Then(n, << "dpc?" >>)
        /\ m_SendQueue' = Append(m_SendQueue, n) /\ place' = [place EXCEPT ![n] = "queue"]
     \/ At(n, "dpc?") /\ Then(n, When(m_DpcWaiting = 0, SenderTasks))
        /\ UNCHANGED << place, m_SendQueue >>
  /\ UNCHANGED << left, detached, buffersDone, failed, devVars, lockVars, listVars, envVars,
                  m_DoKickOnNoBuffer, m_Killed, dpcQueued, m_DpcWaiting >>
-----------------------------------------------------------------------------
Announce ==
  /\ \/ At("dpc", "announce") /\ m_DpcWaiting' = m_DpcWaiting + 1
     \/ At("dpc", "arrived") /\ m_DpcWaiting' = m_DpcWaiting - 1
  /\ Then("dpc", << >>)
  /\ UNCHANGED << nblVars, devVars, lockVars, listVars, envVars, m_SendQueue,
                  m_DoKickOnNoBuffer, m_Killed, dpcQueued >>

(* The lock, and the sender's second look at who waits for it.             *)
Locking(t) ==
  /\ \/ At(t, "lock") /\ m_Lock = "free" /\ m_Lock' = t /\ kick' = FALSE /\ round' = 1
        /\ Then(t, << >>)
     \/ At(t, "yield") /\ UNCHANGED lockVars
        /\ IF m_DpcWaiting = 0 THEN Then(t, << >>)
                               ELSE todo' = [todo EXCEPT ![t] = << "unlock", "free" >>]
     \/ At(t, "unlock") /\ m_Lock' = "free" /\ UNCHANGED << kick, round >> /\ Then(t, << >>)
  /\ UNCHANGED << nblVars, devVars, listVars, envVars, m_SendQueue, m_DoKickOnNoBuffer,
                  m_Killed, dpcQueued, m_DpcWaiting >>

(* ProcessTXCompletions: of a queue that is killed, all that are in use.   *)
Reclaimed(t, kill) ==
  LET gone == IF kill THEN [n \in NBLs |-> ring[n] + used[n]] ELSE used
  IN  /\ nbToFree' = [nbToFree EXCEPT ![t] = [n \in NBLs |-> @[n] + gone[n]]]
      /\ used' = None
      /\ ring' = IF kill THEN None ELSE ring
      /\ m_Killed' = (m_Killed \/ (kill /\ InUse > 0))
      /\ m_DoKickOnNoBuffer' = (m_DoKickOnNoBuffer \/ (~kill /\ Pending > 0))
      /\ event' = IF event > 0 THEN 1 ELSE 0

ProcessTXCompletions(t) ==
  /\ At(t, "reclaim") /\ Then(t, << >>) /\ Reclaimed(t, m_Killed)
  /\ UNCHANGED << nblVars, irq, awake, lockVars, completed, envVars, m_SendQueue, dpcQueued,
                  m_DpcWaiting >>

(* SubmitPacket that finds no descriptor: KickQueueOnOverflow, and the     *)
(* buffer stays in its list.                                               *)
NoPlaceInQueue(t) ==
  /\ At(t, "submit") /\ m_SendQueue # << >> /\ InUse = Num /\ Then(t, << >>) /\ kick' = TRUE
  /\ event' = (3 * InUse) \div 4 + 1
  /\ awake' = (awake \/ m_DoKickOnNoBuffer) /\ m_DoKickOnNoBuffer' = FALSE
  /\ UNCHANGED << nblVars, ring, used, irq, m_Lock, round, listVars, envVars, m_SendQueue,
                  m_Killed, dpcQueued, m_DpcWaiting >>

(* SendMapped: one buffer after the other, of the list at the head.  The   *)
(* last one takes the list off the queue.                                  *)
StartSending(t) ==
  /\ At(t, "send") /\ Then(t, When(Possible, << "submit" >>))
  /\ UNCHANGED << nblVars, devVars, lockVars, listVars, envVars, m_SendQueue,
                  m_DoKickOnNoBuffer, m_Killed, dpcQueued, m_DpcWaiting >>

SubmitPacket(t) ==
  /\ At(t, "submit") /\ m_SendQueue # << >> /\ InUse < Num
  /\ LET n == Head(m_SendQueue)
     IN  /\ left' = [left EXCEPT ![n] = @ - 1]
         /\ \/ /\ ring' = [ring EXCEPT ![n] = @ + 1] /\ detached' = [detached EXCEPT ![n] = @ + 1]
               /\ kick' = TRUE /\ UNCHANGED buffersDone
            \/ /\ FALSE \in BindToDescriptor \cup Enqueue /\ buffersDone' = [buffersDone EXCEPT ![n] = @ + 1]
               /\ UNCHANGED << ring, detached, kick >>
         /\ IF left[n] > 1
              THEN UNCHANGED << m_SendQueue, place, completed >>
              ELSE /\ m_SendQueue' = Tail(m_SendQueue) /\ place' = [place EXCEPT ![n] = "posting"]
                   /\ completed' = [completed EXCEPT ![t] = @ \cup {n}]
  /\ UNCHANGED << todo, failed, used, event, irq, awake, m_Lock, round, nbToFree, envVars,
                  m_DoKickOnNoBuffer, m_Killed, dpcQueued, m_DpcWaiting >>

NoMore(t) ==
  /\ At(t, "submit") /\ m_SendQueue = << >> /\ Then(t, << >>)
  /\ UNCHANGED << nblVars, devVars, lockVars, listVars, envVars, m_SendQueue,
                  m_DoKickOnNoBuffer, m_Killed, dpcQueued, m_DpcWaiting >>

(* RestartQueue: interrupts, unless something has come back meanwhile; the *)
(* DPC then makes a second round, and after that comes again.              *)
RestartQueue ==
  /\ \/ At("dpc", "restart") /\ UNCHANGED << round, dpcQueued >> /\ Then("dpc", << >>)
        /\ event' = IF Pending = 0 THEN 1 ELSE 0
     \/ At("dpc", "again") /\ UNCHANGED event
        /\ IF event > 0 THEN UNCHANGED << round, dpcQueued >> /\ Then("dpc", << >>)
           ELSE IF round = 1
             THEN round' = 2 /\ UNCHANGED dpcQueued /\ Then("dpc", Append(SecondRound, "again"))
             ELSE dpcQueued' = TRUE /\ UNCHANGED round /\ Then("dpc", << >>)
  /\ UNCHANGED << nblVars, ring, used, irq, awake, m_Lock, kick, listVars, envVars, m_SendQueue,
                  m_DoKickOnNoBuffer, m_Killed, m_DpcWaiting >>

Kick(t) ==
  /\ At(t, "kick") /\ Then(t, << >>) /\ awake' = (awake \/ kick) /\ kick' = FALSE
  /\ UNCHANGED << nblVars, ring, used, event, irq, m_Lock, round, listVars, envVars, m_SendQueue,
                  m_DoKickOnNoBuffer, m_Killed, dpcQueued, m_DpcWaiting >>
-----------------------------------------------------------------------------
(* PostProcessPendingTask: the buffers are given up one by one, in         *)
(* NBComplete's two steps; then the lists that are done leave, those of    *)
(* this thread's and those that wait.                                      *)
NBComplete(t) ==
  /\ \/ /\ At(t, "free") /\ nbToFree[t] # None
        /\ LET n == CHOOSE m \in NBLs : nbToFree[t][m] > 0
           IN  /\ buffersDone' = [buffersDone EXCEPT ![n] = @ + 1] /\ UNCHANGED << detached, nbToFree >>
        /\ todo' = [todo EXCEPT ![t] = << "release" >> \o @]
     \/ /\ At(t, "release") /\ Then(t, << >>)
        /\ LET n == CHOOSE m \in NBLs : nbToFree[t][m] > 0
           IN  /\ nbToFree' = [nbToFree EXCEPT ![t][n] = @ - 1]
               /\ detached' = [detached EXCEPT ![n] = @ - 1] /\ UNCHANGED buffersDone
        /\ todo' = [todo EXCEPT ![t] = << "free!" >> \o Tail(Tail(@))]
     \/ /\ At(t, "free!") /\ nbToFree[t] # None /\ todo' = [todo EXCEPT ![t] = << "free" >> \o Tail(@)]
        /\ UNCHANGED << buffersDone, detached, nbToFree >>
     \/ /\ At(t, "free") /\ nbToFree[t] = None /\ Then(t, When(completed[t] # {}, << "waiting" >>))
        /\ UNCHANGED << buffersDone, detached, nbToFree >>
     \/ /\ At(t, "free!") /\ nbToFree[t] = None /\ Then(t, << "waiting" >>)
        /\ UNCHANGED << buffersDone, detached, nbToFree >>
  /\ UNCHANGED << place, left, failed, devVars, lockVars, completed, envVars, m_SendQueue,
                  m_DoKickOnNoBuffer, m_Killed, dpcQueued, m_DpcWaiting >>

(* Mutant of the next: a list is done when its buffers are counted.        *)
DoneWhenCounted(n) == buffersDone[n] = Size[n]

IsSendDone(n) == buffersDone[n] = Size[n] /\ detached[n] = 0

ProcessWaitingList(t) ==
  /\ At(t, "waiting") /\ Then(t, << >>)
  /\ place' = [n \in NBLs |->
       IF place[n] = "waiting" \/ n \in completed[t]
         THEN IF IsSendDone(n) THEN "gone" ELSE "waiting"
         ELSE place[n]]
  /\ completed' = [completed EXCEPT ![t] = {}]
  /\ UNCHANGED << left, detached, buffersDone, failed, devVars, lockVars, nbToFree, envVars,
                  m_SendQueue, m_DoKickOnNoBuffer, m_Killed, dpcQueued, m_DpcWaiting >>
-----------------------------------------------------------------------------
(* The device, its interrupt and the DPC.                                  *)
Use(n) ==
  /\ awake /\ ring[n] > 0 /\ ~bSurprizeRemoved
  /\ ring' = [ring EXCEPT ![n] = @ - 1] /\ used' = [used EXCEPT ![n] = @ + 1]
  /\ irq' = (irq \/ event = Pending + 1)
  /\ UNCHANGED << nblVars, event, awake, lockVars, listVars, envVars, m_SendQueue,
                  m_DoKickOnNoBuffer, m_Killed, dpcQueued, m_DpcWaiting, todo >>
Sleep ==
  /\ awake /\ ring = None /\ awake' = FALSE
  /\ UNCHANGED << nblVars, ring, used, event, irq, lockVars, listVars, envVars, m_SendQueue,
                  m_DoKickOnNoBuffer, m_Killed, dpcQueued, m_DpcWaiting, todo >>
Interrupt ==
  /\ irq /\ irq' = FALSE /\ event' = 0 /\ dpcQueued' = TRUE
  /\ UNCHANGED << nblVars, ring, used, awake, lockVars, listVars, envVars, m_SendQueue,
                  m_DoKickOnNoBuffer, m_Killed, m_DpcWaiting, todo >>
DPC ==
  /\ dpcQueued /\ todo["dpc"] = << >> /\ dpcQueued' = FALSE
  /\ todo' = [todo EXCEPT !["dpc"] = DpcTasks]
  /\ UNCHANGED << nblVars, devVars, lockVars, listVars, envVars, m_SendQueue,
                  m_DoKickOnNoBuffer, m_Killed, m_DpcWaiting >>

(* What befalls the adapter: NDIS cancels, the device is pulled out.       *)
Event(e) ==
  /\ e \in events /\ todo["ctl"] = << >> /\ ~bSurprizeRemoved /\ events' = events \ {e}
  /\ UNCHANGED raced
  /\ \/ e = "cancel" /\ UNCHANGED bSurprizeRemoved
        /\ todo' = [todo EXCEPT !["ctl"] = << "lock", "cancel", "unlock" >>]
     \/ e = "remove" /\ bSurprizeRemoved' = TRUE
        /\ todo' = [todo EXCEPT !["ctl"] = << "lock", "kill", "unlock", "free" >>]
  /\ UNCHANGED << nblVars, devVars, lockVars, listVars, m_SendQueue, m_DoKickOnNoBuffer,
                  m_Killed, dpcQueued, m_DpcWaiting >>

Queued == {n \in NBLs : \E i \in DOMAIN m_SendQueue : m_SendQueue[i] = n}

(* Notify(SupriseRemoved): what the device has and what is queued.         *)
Remove ==
  /\ At("ctl", "kill") /\ Then("ctl", << >>) /\ Reclaimed("ctl", TRUE)
  /\ m_SendQueue' = << >> /\ completed' = [completed EXCEPT !["ctl"] = @ \cup Queued]
  /\ left' = [n \in NBLs |-> IF n \in Queued THEN 0 ELSE left[n]]
  /\ buffersDone' = [n \in NBLs |-> buffersDone[n] + IF n \in Queued THEN left[n] ELSE 0]
  /\ place' = [n \in NBLs |-> IF n \in Queued THEN "posting" ELSE place[n]]
  /\ raced' = {n \in NBLs : place[n] = "mapping"}
  /\ UNCHANGED << detached, failed, irq, awake, lockVars, bSurprizeRemoved, events, dpcQueued,
                  m_DpcWaiting >>

(* BuildCancelList empties the queue, and completes the lists that match   *)
(* and have no buffer with the device.                                     *)
CancelNBLs ==
  /\ At("ctl", "cancel") /\ Then("ctl", << >>) /\ m_SendQueue' = << >>
  /\ \E match \in SUBSET Queued :
       place' = [n \in NBLs |->
         IF n \notin Queued THEN place[n]
         ELSE IF n \in match /\ detached[n] = 0 THEN "gone" ELSE "dropped"]
  /\ left' = [n \in NBLs |-> IF place'[n] = "gone" THEN 0 ELSE left[n]]
  /\ UNCHANGED << detached, buffersDone, failed, devVars, lockVars, listVars, envVars,
                  m_DoKickOnNoBuffer, m_Killed, dpcQueued, m_DpcWaiting >>
-----------------------------------------------------------------------------
Next ==
  \/ \E n \in NBLs : Send(n) \/ StartMapping(n) \/ NBLMappingDone(n) \/ Use(n)
  \/ \E t \in Threads :
       \/ Locking(t) \/ ProcessTXCompletions(t) \/ StartSending(t) \/ SubmitPacket(t)
       \/ NoPlaceInQueue(t) \/ NoMore(t) \/ Kick(t) \/ NBComplete(t) \/ ProcessWaitingList(t)
  \/ Announce \/ RestartQueue \/ Remove \/ CancelNBLs
  \/ Sleep \/ Interrupt \/ DPC \/ \E e \in Events : Event(e)

Spec == Init /\ [][Next]_vars
-----------------------------------------------------------------------------
(* A list that went back to NDIS has no buffer anywhere, and no thread     *)
(* still has to count one for it: its holder is freed                      *)
(* (ParaNdis_TX.cpp:417-520, 693-719).                                     *)
GoneIsDone ==
  \A n \in NBLs : place[n] = "gone" =>
    /\ ring[n] = 0 /\ used[n] = 0 /\ detached[n] = 0 /\ n \notin Queued
    /\ \A t \in Threads : nbToFree[t][n] = 0 /\ n \notin completed[t]

(* Every buffer of a list is in one place, and what is detached is with    *)
(* the device or about to be given up (ParaNdis_TX.cpp:441-462, 615-691).  *)
ToFree(n)   == FoldSet(LAMBDA t, sum : nbToFree[t][n] + sum, 0, Threads)
Counted(n)  == Cardinality({t \in Threads : At(t, "release") /\ n = CHOOSE m \in NBLs : nbToFree[t][m] > 0})
EachOnce ==
  \A n \in NBLs : place[n] # "gone" =>
    /\ detached[n] = ring[n] + used[n] + ToFree(n)
    /\ Size[n] = left[n] + detached[n] + buffersDone[n] - Counted(n)
    /\ n \in Queued <=> place[n] = "queue"
    /\ place[n] \in {"posting", "waiting"} => left[n] = 0

(* When nobody has anything to do no list is left behind: every overflow   *)
(* had its interrupt, every sender that gave way had a DPC to follow, and  *)
(* the device was told.  But for what CancelNBLs drops, and for what was   *)
(* on its way to the queue when the device was pulled out                  *)
(* (ParaNdis_TX.cpp:417-440, 615-770, ParaNdis_VirtQueue.cpp:181).  *)
Quiet ==
  /\ \A t \in Threads : todo[t] = << >>
  /\ ~irq /\ ~dpcQueued /\ (awake => ring = None \/ bSurprizeRemoved)
NothingIsLeft ==
  Quiet => \A n \in NBLs : place[n] \in {"ndis", "gone", "dropped"} \/ n \in raced

(* All of these, of one instance.                                          *)
TxSound == GoneIsDone /\ EachOnce /\ NothingIsLeft
===============================================================================
