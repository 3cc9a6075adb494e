-------------------------- MODULE MCTradeSettling --------------------------
(* Instances of TradeSettling for TLC: the first allocation may come back   *)
(* mismatched, the others settle.                                          *)
EXTENDS TradeSettling, TLC

MCOutcome ==
  [t \in Trade |-> [a \in Alloc |->
     IF a = 1 THEN {"Settled", "Mismatched"} ELSE {"Settled"}]]

Symmetry == Permutations(Shard) \cup Permutations(Worker)
=============================================================================
