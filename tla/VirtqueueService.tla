--------------------------- MODULE VirtqueueService ---------------------------
(***************************************************************************)
(* What a virtqueue promises to the driver that uses it, whatever the      *)
(* layout of its ring: a buffer that is added is with the queue, the       *)
(* device uses each buffer once, in whatever order it likes, and get_buf   *)
(* returns them in that order, each once; when the device was stopped what *)
(* is still with the queue is given back by detach_unused_buf.             *)
(***************************************************************************)
EXTENDS Sequences, SequencesExt

CONSTANT Bufs

VARIABLES
  mine,         \* buffers the driver has
  given,        \* buffers the device may use
  used,         \* buffers it has used, in its order
  stopped       \* the device was reset, the queue not made anew

vars == << mine, given, used, stopped >>

Init == mine = Bufs /\ given = {} /\ used = << >> /\ stopped = FALSE

Add(b) ==
  /\ ~stopped /\ b \in mine
  /\ mine' = mine \ {b} /\ given' = given \cup {b} /\ UNCHANGED << used, stopped >>

Use(b) ==
  /\ ~stopped /\ b \in given
  /\ given' = given \ {b} /\ used' = Append(used, b) /\ UNCHANGED << mine, stopped >>

Get ==
  /\ ~stopped /\ used # << >>
  /\ mine' = mine \cup {Head(used)} /\ used' = Tail(used) /\ UNCHANGED << given, stopped >>

(* What the device has used and nobody got is given up.                    *)
Stop ==
  /\ ~stopped /\ stopped' = TRUE
  /\ given' = given \cup ToSet(used) /\ used' = << >> /\ UNCHANGED mine

Detach(b) ==
  /\ stopped /\ b \in given
  /\ given' = given \ {b} /\ mine' = mine \cup {b} /\ UNCHANGED << used, stopped >>

Renew == stopped /\ given = {} /\ stopped' = FALSE /\ UNCHANGED << mine, given, used >>

Next == Get \/ Stop \/ Renew \/ \E b \in Bufs : Add(b) \/ Use(b) \/ Detach(b)

Spec == Init /\ [][Next]_vars
=============================================================================
