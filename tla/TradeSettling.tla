---------------------------- MODULE TradeSettling ----------------------------
(***************************************************************************)
(* Trade core matching, settlement side:                                   *)
(* kcl/SettlementKinesisStreamProcessor.java.  Settlements come back from  *)
(* the settlement application, one per allocation of a matched trade.  Each *)
(* updates its allocation, and the trade is saved as SETTLED and published *)
(* when all its allocations are.  The update, the read, the save and the   *)
(* push are separate, and threads of all workers run them concurrently.    *)
(***************************************************************************)
EXTENDS KinesisShards

CONSTANTS
  Trade,
  Alloc,       \* the allocations of a trade, by allocationID
  Outcome,     \* Outcome[t][a]: the statuses settlement matching may give it
  MaxReturns,  \* bound: how often one settlement is put on the stream
  MaxDrop      \* bound: records putRecords reports as failed

Status == {"NONE", "UNMATCHED", "MATCHED", "MISMATCHED", "SETTLED"}
AllocStatus == {"Unmatched", "Settled", "Mismatched"}
Result == {"Settled", "Mismatched"}
Settlement == [trade : Trade, alloc : Alloc, status : Result]

ASSUME SettlingAssumption ==
  /\ Outcome \in [Trade -> [Alloc -> SUBSET Result]]
  /\ MaxReturns \in Nat /\ MaxDrop \in Nat

(* A trade has an allocation: without one no settlement comes back for it. *)
ASSUME AllocAssumption == Alloc # {}

VARIABLES
  row,      \* row[t]: the status of t in trade_message, "NONE" without a row
  alloc,    \* alloc[t][a]: the status of an allocation in trade_allocation
  task,     \* task[w][s]: the step thread <<w, s>> is at
  pub,      \* pub[t][v]: how often t was put on the egress stream with status v
  drops     \* records putRecords dropped so far

vars == <<shardVars, workerVars, row, alloc, task, pub, drops>>

TypeOK ==
  /\ ShardTypeOK(Settlement)
  /\ row \in [Trade -> Status]
  /\ alloc \in [Trade -> [Alloc -> AllocStatus]]
  /\ task \in [Worker -> [Shard -> {"update", "read", "save", "push"}]]
  /\ pub \in [Trade -> [Status -> Nat]]
  /\ drops \in Nat

(* Trade matching has published the trades.  After a failover to a replica  *)
(* that lags behind, the row of one may not be there.                       *)
Init ==
  /\ ShardInit
  /\ row \in [Trade -> {"NONE", "MATCHED"}]
  /\ alloc = [t \in Trade |-> [a \in Alloc |-> "Unmatched"]]
  /\ task = [w \in Worker |-> [s \in Shard |-> "update"]]
  /\ pub = [t \in Trade |-> [v \in Status |-> IF v = "MATCHED" THEN 1 ELSE 0]]
  /\ drops = 0

----------------------------------------------------------------------------
At(w, s, pc) == Working(w, s) /\ task[w][s] = pc
Goto(w, s, pc) == task' = [task EXCEPT ![w][s] = pc]
Done(w, s) == NextRecord(w, s) /\ Goto(w, s, "update")

TradeOf(w, s) == Current(w, s).trade
AllSettled(t) == \A a \in Alloc : alloc[t][a] = "Settled"

Answer(t, a, v) == [trade |-> t, alloc |-> a, status |-> v]

(* The settlement application only answers for trades sent to it, and gives *)
(* a settlement one status, perhaps not for the first time.                *)
ReceiveSettlement(t, a, s) ==
  /\ pub[t]["MATCHED"] > 0
  /\ \E v \in Outcome[t][a] :
       /\ \A u \in Result \ {v} : Copies(Answer(t, a, u)) = 0
       /\ Copies(Answer(t, a, v)) < MaxReturns
       /\ Put(s, Answer(t, a, v))
  /\ UNCHANGED <<row, alloc, task, pub, drops>>

(* 2. doTradeSettling: one update statement, of no row for an unknown trade. *)
UpdateAllocation(w, s) ==
  /\ At(w, s, "update")
  /\ LET r == Current(w, s)
     IN alloc' = IF row[r.trade] = "NONE" THEN alloc
                 ELSE [alloc EXCEPT ![r.trade][r.alloc] = r.status]
  /\ Goto(w, s, "read")
  /\ StayAtRecord
  /\ UNCHANGED <<row, pub, drops>>

(* Mutants: a trade that is SETTLED already is left alone; no save(). *)
ReadUnsettled(w, s) ==
  /\ At(w, s, "read")
  /\ IF row[TradeOf(w, s)] = "MATCHED" /\ AllSettled(TradeOf(w, s))
       THEN Goto(w, s, "save") /\ StayAtRecord
       ELSE Done(w, s)
  /\ UNCHANGED <<row, alloc, pub, drops>>

ReadAndPush(w, s) ==
  /\ At(w, s, "read")
  /\ IF row[TradeOf(w, s)] # "NONE" /\ AllSettled(TradeOf(w, s))
       THEN Goto(w, s, "push") /\ StayAtRecord
       ELSE Done(w, s)
  /\ UNCHANGED <<row, alloc, pub, drops>>

(* 3. updateSettledTrade: read the trade with its allocations. *)
ReadTrade(w, s) ==
  /\ At(w, s, "read")
  /\ IF row[TradeOf(w, s)] # "NONE" /\ AllSettled(TradeOf(w, s))
       THEN Goto(w, s, "save") /\ StayAtRecord
       ELSE Done(w, s)
  /\ UNCHANGED <<row, alloc, pub, drops>>

(* save() merges the trade as it was read, its allocations with it. *)
SaveSettled(w, s) ==
  /\ At(w, s, "save")
  /\ row' = [row EXCEPT ![TradeOf(w, s)] = "SETTLED"]
  /\ alloc' = [alloc EXCEPT ![TradeOf(w, s)] = [a \in Alloc |-> "Settled"]]
  /\ Goto(w, s, "push")
  /\ StayAtRecord
  /\ UNCHANGED <<pub, drops>>

(* pushSettledUpstream: the trade as it was saved.  A record putRecords    *)
(* reports as failed is lost: the result is only logged.                   *)
PushSettled(w, s) ==
  /\ At(w, s, "push")
  /\ \/ pub' = [pub EXCEPT ![TradeOf(w, s)]["SETTLED"] = @ + 1] /\ UNCHANGED drops
     \/ drops < MaxDrop /\ drops' = drops + 1 /\ UNCHANGED pub
  /\ Done(w, s)
  /\ UNCHANGED <<row, alloc>>

Rest == UNCHANGED <<row, alloc, task, pub, drops>>

Checkpoint(w, s) == CheckpointBatch(w, s) /\ Rest
Take(w, s)  == TakeLease(w, s)  /\ Rest
Steal(w, s) == StealLease(w, s) /\ Rest
Fetch(w, s) == FetchBatch(w, s) /\ Rest
Crash(w)    == CrashWorker(w)   /\ Rest

Restart(w) ==
  /\ RestartWorker(w)
  /\ task' = [task EXCEPT ![w] = [s \in Shard |-> "update"]]
  /\ UNCHANGED <<row, alloc, pub, drops>>

ProcessRecord(w, s) ==
  \/ UpdateAllocation(w, s)
  \/ ReadTrade(w, s)
  \/ SaveSettled(w, s)
  \/ PushSettled(w, s)

WorkerStep(w, s) ==
  \/ Take(w, s)
  \/ Steal(w, s)
  \/ Fetch(w, s)
  \/ ProcessRecord(w, s)
  \/ Checkpoint(w, s)

Next ==
  \/ \E t \in Trade, a \in Alloc, s \in Shard : ReceiveSettlement(t, a, s)
  \/ \E w \in Worker, s \in Shard : WorkerStep(w, s)
  \/ \E w \in Worker :
       \/ Crash(w)
       \/ Restart(w)

Spec == Init /\ [][Next]_vars

----------------------------------------------------------------------------
(* Properties. *)

(* Egress hears of a settled trade only after the database does, and the   *)
(* database calls a trade settled only while all its allocations are, even *)
(* when threads interleave between the update, the read and the save.      *)
SettledIsComplete ==
  \A t \in Trade :
     /\ pub[t]["SETTLED"] > 0 => row[t] = "SETTLED"
     /\ row[t] = "SETTLED" => AllSettled(t)

(* The settlements of all allocations of t came back as settled. *)
Returned(t) == \A a \in Alloc : Copies(Answer(t, a, "Settled")) > 0

(* The last of concurrent settlements sees all the others: with the stream *)
(* drained and nothing dropped, a stored trade whose settlements all came  *)
(* back settled is SETTLED and was announced, whatever crashed in between  *)
(* and whatever a thread that lost its lease is still about to do.         *)
SettledIsAnnounced ==
  Drained /\ drops = 0 =>
    \A t \in Trade : row[t] # "NONE" /\ Returned(t) =>
       row[t] = "SETTLED" /\ pub[t]["SETTLED"] > 0
=============================================================================
