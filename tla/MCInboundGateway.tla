-------------------------- MODULE MCInboundGateway --------------------------
(* Instances of InboundGateway for TLC: a trade, a settlement and one that *)
(* does not parse.                                                         *)
EXTENDS InboundGateway

CONSTANTS trade, settlement, junk, g1, g2

MCQueueOf == [m \in Message |-> IF m = trade THEN "trades" ELSE "settlements"]
=============================================================================
