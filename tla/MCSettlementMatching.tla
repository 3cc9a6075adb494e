------------------------ MODULE MCSettlementMatching ------------------------
(* Instances of SettlementMatching for TLC: allocation A, whose two sides   *)
(* agree, and allocation B, whose sides name different terms.              *)
EXTENDS SettlementMatching, TLC

CONSTANTS imA, brA, imB, brB   \* the sides: investment manager and broker

MCSender == [x \in Settlement |-> IF x \in {imA, imB} THEN "im" ELSE "br"]
MCDeal   == [x \in Settlement |-> IF x \in {imA, brA} THEN "A" ELSE "B"]
MCTerms  == [x \in Settlement |-> IF x = brB THEN "cheap" ELSE "dear"]

Once  == [x \in Settlement |-> 1]
Twice == [x \in Settlement |-> IF x \in {imA, imB} THEN 2 ELSE 1]

Symmetry == Permutations(Shard) \cup Permutations(Worker)
=============================================================================
