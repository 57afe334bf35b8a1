----------------------------- MODULE MCLifecycles -----------------------------
(***************************************************************************)
(* Lifecycles, for model checking: four packets of one call, of all kinds, *)
(* and two received buffers.                                               *)
(***************************************************************************)
EXTENDS Lifecycles

MCPackets == 1 .. 4

Packet(n, lso, fits) == [frags |-> n, lso |-> lso, fits |-> fits]

MCKind == << Packet(2, TRUE, FALSE), Packet(4, FALSE, TRUE), Packet(4, TRUE, TRUE),
             Packet(4, TRUE, FALSE) >>
=============================================================================
