----------------------------- MODULE TradeCore -----------------------------
(***************************************************************************)
(* The trade core matching service as it is deployed: CoreMatchingAppState *)
(* starts one KCL scheduler for trades and one for settlements in the same *)
(* JVM.  Both work on trade_message and put on the same egress stream, and *)
(* a halt of either takes the other one down.                              *)
(***************************************************************************)
EXTENDS TradeSettling

(* This module is the settlement side, and declares the trade side here.   *)
CONSTANTS
  NoTrade, Sender, Block, Terms, TradeShard, MaxBlocks, MaxCopies,
  MaxTradeSteal   \* stolen leases of trade shards

VARIABLES tlog, tckpt, towner, tbatch, tsteals, job

(* Both sides share row, pub, drops, up and crashes. *)
tradeSide == <<tlog, tckpt, towner, tbatch, tsteals, job>>
settlementSide == <<log, ckpt, owner, batch, steals, alloc, task>>
coreVars == <<vars, tradeSide>>

Matching == INSTANCE TradeMatching
  WITH Shard <- TradeShard, MaxSteal <- MaxTradeSteal, log <- tlog, ckpt <- tckpt,
       owner <- towner, batch <- tbatch, steals <- tsteals

(* The assumptions of TradeMatching. *)
ASSUME CoreAssumption ==
  /\ NoTrade \notin Trade /\ IsFiniteSet(TradeShard)
  /\ MaxCopies \in [Trade -> Nat]
  /\ MaxBlocks \in Nat /\ MaxTradeSteal \in Nat
  /\ \A t, u, v \in Trade :
       Matching!SameBlock(t, u) /\ Matching!SameBlock(t, v) => u = v

CoreInit ==
  /\ Matching!Init
  /\ ShardInit
  /\ alloc = [t \in Trade |-> [a \in Alloc |-> "Unmatched"]]
  /\ task = [w \in Worker |-> [s \in Shard |-> "update"]]

TradeArrives ==
  /\ \E t \in Trade, s \in TradeShard : Matching!ReceiveTrade(t, s)
  /\ UNCHANGED settlementSide

MatchingStep ==
  /\ \E w \in Worker, s \in TradeShard : Matching!WorkerStep(w, s)
  /\ UNCHANGED settlementSide

SettlementReturns ==
  /\ \E t \in Trade, a \in Alloc, s \in Shard : ReceiveSettlement(t, a, s)
  /\ UNCHANGED tradeSide

SettlingStep ==
  /\ \E w \in Worker, s \in Shard : WorkerStep(w, s)
  /\ UNCHANGED tradeSide

(* A crash and a restart are of the JVM, and so of both sides. *)
CrashBoth(w) == Matching!Crash(w) /\ UNCHANGED settlementSide
RestartBoth(w) == Matching!Restart(w) /\ Restart(w)

CoreNext ==
  \/ TradeArrives
  \/ MatchingStep
  \/ SettlementReturns
  \/ SettlingStep
  \/ \E w \in Worker :
       \/ CrashBoth(w)
       \/ RestartBoth(w)

CoreSpec == CoreInit /\ [][CoreNext]_coreVars

----------------------------------------------------------------------------
(* Properties. *)

(* A settled trade stays settled, as long as every record is delivered to  *)
(* one thread at a time (nothing is put twice, no lease moves away from a  *)
(* live worker), even across crashes.  With a stale thread it does not:    *)
(* its "update ... where id = :id" can set a settled trade back to MATCHED. *)
SettledIsFinal ==
  [][\A t \in Trade : row[t] = "SETTLED" => row'[t] = "SETTLED"]_row

(* A trade settles only when both sides of its block are stored as matched, *)
(* and the settled trade is published only after its verdict was.           *)
SettledIsMatched ==
  \A t \in Trade : row[t] = "SETTLED" =>
     /\ pub[t]["MATCHED"] = 1
     /\ \A u \in Trade : Matching!SameBlock(t, u) => row[u] \in {"MATCHED", "SETTLED"}
=============================================================================
