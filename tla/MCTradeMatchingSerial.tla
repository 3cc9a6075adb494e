----------------------- MODULE MCTradeMatchingSerial -----------------------
(* Instances of TradeMatchingSerial for TLC, see MCTradeMatching. *)
EXTENDS TradeMatchingSerial

CONSTANTS imA, brA, imB, brB

MCSender == [t \in Trade |-> IF t \in {imA, imB} THEN "im" ELSE "br"]
MCBlock  == [t \in Trade |-> IF t \in {imA, brA} THEN "A" ELSE "B"]
MCTerms  == [t \in Trade |-> IF t = brB THEN "cheap" ELSE "dear"]
Twice    == [t \in Trade |-> IF t \in {imA, imB} THEN 2 ELSE 1]
=============================================================================
