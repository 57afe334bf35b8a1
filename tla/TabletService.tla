---------------------------- MODULE TabletService ----------------------------
(***************************************************************************)
(* What virtio_tablet promises the window system: the input events the     *)
(* device reports are handled once each and in order.                      *)
(***************************************************************************)
EXTENDS Integers, Sequences

CONSTANT Events

VARIABLES
  reported,   (* the events the device has put into buffers, in order      *)
  handled     (* the events process_event was called with, in order        *)

tvars == << reported, handled >>

Init == reported = << >> /\ handled = << >>

Report(e) == reported' = Append(reported, e) /\ UNCHANGED handled

Handle ==
  /\ Len(handled) < Len(reported)
  /\ handled' = Append(handled, reported[Len(handled) + 1])
  /\ UNCHANGED reported

Next == Handle \/ \E e \in Events : Report(e)

Spec == Init /\ [][Next]_tvars
=============================================================================
