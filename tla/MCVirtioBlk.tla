----------------------------- MODULE MCVirtioBlk -----------------------------
(* Instances of VirtioBlk.  Segment lengths are in units of a quarter      *)
(* sector; MAX_SG_BUF is 1, so a sector needs three or four descriptors    *)
(* and a ring of eight holds a batch of one or two sectors.                *)
EXTENDS VirtioBlk, TLC

Whole == << 4 >>
Split == << 1, 3 >>
Sg(write, start, secs, sgs, aligned) ==
  [write |-> write, start |-> start, secs |-> secs, sgs |-> sgs, aligned |-> aligned]

(* Two sectors, to read and to write, that fit one batch of a ring of      *)
(* eight; two that do not.                                                 *)
MCTwo == {Sg(FALSE, 0, << Whole, Split >>, 1, TRUE)}
MCStore == {Sg(TRUE, 0, << Whole, Split >>, 1, TRUE)}
MCApart == {Sg(FALSE, 0, << Split, Whole >>, 1, TRUE)}

(* One request to carry out; one for every reason to refuse one: write     *)
(* protection, too many SG entries, past the end of the disk, bytes that   *)
(* do not add up; and the empty request.                                   *)
MCAll == MCApart \cup
  {Sg(TRUE, 3, << Whole >>, 1, TRUE), Sg(TRUE, 0, << Whole >>, 2, TRUE),
   Sg(FALSE, 3, << Whole, Whole >>, 1, TRUE), Sg(FALSE, 0, << Whole >>, 1, FALSE),
   Sg(TRUE, 0, << >>, 0, TRUE)}

MCSymmetry == Permutations(Threads)
=============================================================================
