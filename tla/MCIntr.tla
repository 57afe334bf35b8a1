------------------------------- MODULE MCIntr --------------------------------
(* Interrupts, for model checking: the payloads of two frames.             *)
EXTENDS Interrupts

MCPayloads == {<< >>, << 1 >>, << 0, 3 >>}
=============================================================================
