--------------------------- MODULE MCDskLifecycle ----------------------------
(* Instances of DskLifecycle: threads and addresses are interchangeable.   *)
EXTENDS DskLifecycle, TLC

MCSymmetry == Permutations(Users) \cup Permutations(Managers) \cup Permutations(Disks)
=============================================================================
