-------------------------- MODULE MCTradeMatching --------------------------
(* Instances of TradeMatching for TLC: block A, whose two sides agree, and *)
(* block B, whose sides name different terms.                              *)
EXTENDS TradeMatchingInv, TLC

CONSTANTS imA, brA, imB, brB   \* the sides: investment manager and broker
CONSTANTS s1, s2, w1, w2

MCSender == [t \in Trade |-> IF t \in {imA, imB} THEN "im" ELSE "br"]
MCBlock  == [t \in Trade |-> IF t \in {imA, brA} THEN "A" ELSE "B"]
MCTerms  == [t \in Trade |-> IF t = brB THEN "cheap" ELSE "dear"]

(* How often each side is delivered. *)
Once  == [t \in Trade |-> 1]

(* Neither shards nor workers are told apart by the code. *)
Symmetry == Permutations(Shard) \cup Permutations(Worker)
=============================================================================
