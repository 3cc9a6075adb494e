---------------------------- MODULE TradeEgress ----------------------------
(***************************************************************************)
(* Trade egress: services/KinesisStreamProcessor.java.  A batch of trades  *)
(* and negative acknowledgements (NACKs) from the core is stored trade by  *)
(* trade; then the settlements of its matched trades are stored and put on *)
(* the settlement stream, and an answer for each trade on the response     *)
(* stream; then the NACKs are stored and answered; then the batch is       *)
(* checkpointed.  A write that fails is only logged, a push that fails     *)
(* halts the JVM.                                                          *)
(***************************************************************************)
EXTENDS KinesisShards

CONSTANTS
  Trade,
  Nack,              \* the messages that were refused, by id
  Allocs,            \* how many allocations a trade has
  Limit,             \* what one putRecords call accepts, 500
  ResponseShard,     \* the shards of the two streams to the outbound gateway
  SettlementShard,
  MaxCopies,         \* bound: how often each record is put on the stream
  MaxRecords,        \* bound: records on the stream, repeated ones included
  MaxFail            \* bound: failed calls and lost records of a behaviour

Record == [id : Trade, status : {"MATCHED", "MISMATCHED", "SETTLED"}]
            \cup [id : Nack, status : {"NACK"}]
Settlement == [trade : Trade, alloc : 1..Allocs]

(* The constants are as the code has them. *)
EgressAssumption ==
  /\ Trade \cap Nack = {}
  /\ Allocs \in Nat \ {0} /\ Limit \in Nat
  /\ IsFiniteSet(ResponseShard)
  /\ MaxCopies \in [Record -> Nat]
  /\ MaxRecords \in Nat /\ MaxFail \in Nat

VARIABLES
  items,        \* the items of the two egress tables
  job,          \* job[w][s]: what thread <<w, s>> has collected and done
  responses,    \* responses[z]: the records of the response stream
  settlements,  \* settlements[z]: those of the settlement stream
  lost,         \* what putRecords reported as failed
  fails         \* failed calls and lost records so far

streams == <<responses, settlements, lost, fails>>
vars == <<shardVars, workerVars, items, job, streams>>

(* tried counts the settlements, or NACKs, whose write is behind the thread; *)
(* settled says that it has pushed the settlements.                          *)
Job == [trades : Seq(Record), nacks : Seq(Record), tried : Nat, settled : BOOLEAN]
NewJob == [trades |-> <<>>, nacks |-> <<>>, tried |-> 0, settled |-> FALSE]

TypeOK ==
  /\ ShardTypeOK(Record)
  /\ items \subseteq Record \cup Settlement
  /\ job \in [Worker -> [Shard -> Job]]
  /\ responses \in [ResponseShard -> Seq(Record)]
  /\ settlements \in [SettlementShard -> Seq(Settlement)]
  /\ lost \subseteq Record \cup Settlement
  /\ fails \in Nat

Init ==
  /\ ShardInit
  /\ items = {}
  /\ job = [w \in Worker |-> [s \in Shard |-> NewJob]]
  /\ responses = [z \in ResponseShard |-> <<>>]
  /\ settlements = [z \in SettlementShard |-> <<>>]
  /\ lost = {} /\ fails = 0

----------------------------------------------------------------------------
Fail == fails < MaxFail /\ fails' = fails + 1
Goto(w, s, next) == job' = [job EXCEPT ![w][s] = next]
Elements(q) == {q[i] : i \in DOMAIN q}

(* The core publishes the verdict of a trade and then that it is settled;  *)
(* ingestion publishes the NACKs.                                          *)
ReceiveRecord(r, s) ==
  /\ Copies(r) < MaxCopies[r]
  /\ Cardinality(UNION {{x} \X DOMAIN log[x] : x \in Shard}) < MaxRecords
  /\ r.status = "SETTLED" => Copies([r EXCEPT !.status = "MATCHED"]) > 0
  /\ r.status = "MATCHED" => Copies([r EXCEPT !.status = "MISMATCHED"]) = 0
  /\ r.status = "MISMATCHED" => Copies([r EXCEPT !.status = "MATCHED"]) = 0
  /\ Put(s, r)
  /\ UNCHANGED <<items, job, streams>>

(* The write of an item.  A trade or NACK has one, which is overwritten     *)
(* when its status is another one; a settlement is only written once.       *)
KeepFirst(r) ==   \* mutant: no item is overwritten
  items' = IF r \in Record /\ \E x \in items \cap Record : x.id = r.id
             THEN items ELSE items \cup {r}
Keep(r) ==
  items' = {x \in items : r \in Record /\ x \in Record => x.id # r.id} \cup {r}

(* persistTrades and persistSettlements: a write that fails, before or      *)
(* after it was applied, makes no difference to the thread.                 *)
Store(r) ==
  \/ Keep(r) /\ UNCHANGED fails
  \/ Fail /\ (Keep(r) \/ UNCHANGED items)

(* The trades of the batch are stored one by one ... *)
StoreTrade(w, s) ==
  /\ Working(w, s) /\ Current(w, s).id \in Trade
  /\ Store(Current(w, s))
  /\ Goto(w, s, [job[w][s] EXCEPT !.trades = Append(@, Current(w, s))])
  /\ NextRecord(w, s)
  /\ UNCHANGED <<responses, settlements, lost>>

(* ... and its NACKs are put aside. *)
CollectNack(w, s) ==
  /\ Working(w, s) /\ Current(w, s).id \in Nack
  /\ Goto(w, s, [job[w][s] EXCEPT !.nacks = Append(@, Current(w, s))])
  /\ NextRecord(w, s)
  /\ UNCHANGED <<items, streams>>

(* The elements of q at the positions S, in their order. *)
Selection(q, S) ==
  [j \in 1..Cardinality(S) |->
     q[CHOOSE i \in S : Cardinality({k \in S : k < i}) = j - 1]]

(* convertTradeMessageToSettlement, for all matched trades of q: one        *)
(* settlement for each allocation.                                          *)
SettlementList(q) ==
  LET matched == Selection(q, {i \in DOMAIN q : q[i].status = "MATCHED"})
  IN [i \in 1..(Len(matched) * Allocs) |->
        [trade |-> matched[((i - 1) \div Allocs) + 1].id, alloc |-> ((i - 1) % Allocs) + 1]]

(* The thread has q to push, and writes it first. *)
StoreNext(w, s, q) ==
  /\ job[w][s].tried < Len(q)
  /\ Store(q[job[w][s].tried + 1])
  /\ Goto(w, s, [job[w][s] EXCEPT !.tried = @ + 1])
  /\ StayAtRecord
  /\ UNCHANGED <<responses, settlements, lost>>

(* The shards of a stream after a putRecords of q without the records gone: *)
(* the random partition keys z send each of them to some shard.             *)
Extended(stream, q, z, gone) ==
  [x \in DOMAIN stream |-> stream[x] \o Selection(q, {i \in DOMAIN q \ gone : z[i] = x})]

(* One putRecords call of q.  Records it reports as failed are lost, since  *)
(* its result is only logged.  A call that fails, perhaps after the stream  *)
(* accepted it, or that has too many records for the service, halts the JVM. *)
Push(w, s, stream, q, next) ==
  IF Len(q) > Limit THEN Halt(w) /\ UNCHANGED <<stream, job, lost, fails>>
  ELSE \/ /\ \E z \in [DOMAIN q -> DOMAIN stream], gone \in SUBSET DOMAIN q :
               /\ fails' = fails + Cardinality(gone) /\ fails' <= MaxFail
               /\ lost' = lost \cup {q[i] : i \in gone}
               /\ stream' = Extended(stream, q, z, gone)
          /\ Goto(w, s, next) /\ StayAtRecord
       \/ /\ Fail
          /\ \/ UNCHANGED stream
             \/ \E z \in [DOMAIN q -> DOMAIN stream] : stream' = Extended(stream, q, z, {})
          /\ Halt(w) /\ UNCHANGED <<job, lost>>

(* egressTradeMessages, after the trades: the settlements of the matched   *)
(* ones are written and pushed, then the answers.                          *)
ToSettle(w, s) == SettlementList(job[w][s].trades)

StoreSettlement(w, s) ==
  /\ Finished(w, s) /\ ~job[w][s].settled
  /\ StoreNext(w, s, ToSettle(w, s))

PushUnwritten(w, s) ==   \* mutant: pushed before they are written
  /\ Finished(w, s) /\ ~job[w][s].settled /\ ToSettle(w, s) # <<>>
  /\ Push(w, s, settlements, ToSettle(w, s), [job[w][s] EXCEPT !.settled = TRUE])
  /\ UNCHANGED <<items, responses>>

PushSettlements(w, s) ==
  /\ Finished(w, s) /\ ~job[w][s].settled
  /\ ToSettle(w, s) # <<>> /\ job[w][s].tried = Len(ToSettle(w, s))
  /\ Push(w, s, settlements, ToSettle(w, s), [job[w][s] EXCEPT !.settled = TRUE])
  /\ UNCHANGED <<items, responses>>

(* Mutant: the answers do not wait for the settlements. *)
PushResponsesOnly(w, s) ==
  /\ Finished(w, s) /\ job[w][s].trades # <<>>
  /\ Push(w, s, responses, job[w][s].trades, [NewJob EXCEPT !.nacks = job[w][s].nacks])
  /\ UNCHANGED <<items, settlements>>

PushResponses(w, s) ==
  /\ Finished(w, s) /\ job[w][s].trades # <<>>
  /\ ToSettle(w, s) # <<>> => job[w][s].settled
  /\ Push(w, s, responses, job[w][s].trades, [NewJob EXCEPT !.nacks = job[w][s].nacks])
  /\ UNCHANGED <<items, settlements>>

(* egressNackMessages. *)
StoreNack(w, s) ==
  /\ Finished(w, s) /\ job[w][s].trades = <<>>
  /\ StoreNext(w, s, job[w][s].nacks)

PushNacks(w, s) ==
  /\ Finished(w, s) /\ job[w][s].trades = <<>> /\ job[w][s].nacks # <<>>
  /\ job[w][s].tried = Len(job[w][s].nacks)
  /\ Push(w, s, responses, job[w][s].nacks, NewJob)
  /\ UNCHANGED <<items, settlements>>

Rest == UNCHANGED <<items, job, streams>>

(* Mutant: the checkpoint comes before the NACKs. *)
CheckpointTrades(w, s) ==
  /\ job[w][s].trades = <<>> /\ CheckpointBatch(w, s)
  /\ Goto(w, s, NewJob) /\ UNCHANGED <<items, streams>>

Checkpoint(w, s) == job[w][s] = NewJob /\ CheckpointBatch(w, s) /\ Rest
Take(w, s)  == TakeLease(w, s)  /\ Rest
Steal(w, s) == StealLease(w, s) /\ Rest
Fetch(w, s) == FetchBatch(w, s) /\ Rest
Crash(w)    == CrashWorker(w)   /\ Rest

Restart(w) ==
  /\ RestartWorker(w)
  /\ job' = [job EXCEPT ![w] = [s \in Shard |-> NewJob]]
  /\ UNCHANGED <<items, streams>>

ProcessBatch(w, s) ==
  \/ StoreTrade(w, s)
  \/ CollectNack(w, s)
  \/ StoreSettlement(w, s)
  \/ PushSettlements(w, s)
  \/ PushResponses(w, s)
  \/ StoreNack(w, s)
  \/ PushNacks(w, s)

ThreadStep(w, s) == Fetch(w, s) \/ ProcessBatch(w, s) \/ Checkpoint(w, s)
WorkerStep(w, s) == Take(w, s) \/ Steal(w, s) \/ ThreadStep(w, s)

Next ==
  \/ \E r \in Record, s \in Shard : ReceiveRecord(r, s)
  \/ \E w \in Worker, s \in Shard : WorkerStep(w, s)
  \/ \E w \in Worker :
       \/ Crash(w)
       \/ Restart(w)

Spec == Init /\ [][Next]_vars

----------------------------------------------------------------------------
(* Properties. *)

Published(stream) == UNION {Elements(stream[z]) : z \in DOMAIN stream}
SettlementsOf(r) == [trade : {r.id}, alloc : 1..Allocs]

(* Egress takes a record off its stream only after its answer, and the     *)
(* settlements of a matched trade, are on theirs, however the calls of a   *)
(* batch fail, are repeated or are run by two workers at once; only what   *)
(* putRecords itself reported as failed is missing.                        *)
CheckpointedIsSent ==
  \A s \in Shard : \A i \in 1..ckpt[s] :
    LET r == log[s][i]
    IN /\ r \in Published(responses) \cup lost
       /\ r.status = "MATCHED" => SettlementsOf(r) \subseteq Published(settlements) \cup lost

(* Settlements and answers are two pushes, and a halt may come in between: *)
(* that never leaves a trade answered as matched and not sent to be        *)
(* settled.                                                                *)
MatchedIsSettled ==
  \A r \in Published(responses) : r.status = "MATCHED" =>
     SettlementsOf(r) \subseteq Published(settlements) \cup lost

(* The last record about t in a sequence, and those of all the shards. *)
LastOf(q, t) ==
  {q[i] : i \in {j \in DOMAIN q :
                   q[j].id = t /\ \A k \in DOMAIN q : q[k].id = t => k <= j}}
Latest(t) == UNION {LastOf(log[s], t) : s \in Shard}

(* The item of a trade may go back when a batch is delivered again, since  *)
(* the write only compares with another status, but not for good: with     *)
(* everything processed, it is the last record of some shard, unless a     *)
(* write failed or a thread ran on without its lease.                      *)
ItemIsRecent ==
  Drained /\ steals = 0 /\ fails = 0 =>
    \A t \in Trade : Latest(t) = {} \/ Latest(t) \cap items # {}
=============================================================================
