---------------------------- MODULE MCTradeCore ----------------------------
(* Instances of TradeCore for TLC: one block whose sides agree. *)
EXTENDS TradeCore, TLC

CONSTANTS im, br   \* the two sides

MCSender  == [t \in Trade |-> IF t = im THEN "im" ELSE "br"]
MCBlock   == [t \in Trade |-> "A"]
MCTerms   == [t \in Trade |-> "dear"]
MCOutcome == [t \in Trade |-> [a \in Alloc |-> {"Settled"}]]
Once      == [t \in Trade |-> 1]

Symmetry == Permutations(TradeShard) \cup Permutations(Worker)
=============================================================================
