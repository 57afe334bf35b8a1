------------------------------ MODULE MCQueues -------------------------------
(* Queues, for model checking: what the calls of SendPackets bring, among  *)
(* it a packet that needs more than the FIFO has, and how many frames and  *)
(* packets there are.                                                      *)
EXTENDS Queues

MCBatches == {<< 1 >>, << 3 >>, << 2, 1 >>, << 4 >>}
MCLoads   == {<< 3, 1 >>, << 1, 2 >>, << 0, 3 >>}
=============================================================================
