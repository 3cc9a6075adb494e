------------------------------ MODULE Ingestion ------------------------------
(***************************************************************************)
(* Trade ingestion: kcl/RecordProcessor.java.  A batch of raw messages is  *)
(* stored record by record, the trades in one table and the negative       *)
(* acknowledgements (NACKs) of the other messages in another; then the     *)
(* trades go to the core in calls of limited size, and the NACKs to egress *)
(* in one call; then the batch is checkpointed.                            *)
(***************************************************************************)
EXTENDS KinesisShards

CONSTANTS
  Message,     \* the raw messages, by id
  Valid,       \* those that parse and have all their fields
  Incomplete,  \* those that parse and lack a field; the others do not parse
  Limit,       \* what one putRecords call accepts, 500
  MaxCopies,   \* bound: how often a message is put on the stream
  MaxFail      \* bound: failed calls and dropped records of a behaviour

ASSUME IngestionAssumption ==
  /\ Valid \cup Incomplete \subseteq Message /\ Valid \cap Incomplete = {}
  /\ Limit \in Nat \ {0, 1}
  /\ MaxCopies \in Nat /\ MaxFail \in Nat

VARIABLES
  stored,   \* the messages with an item, in the trade or in the NACK table
  sent,     \* the messages put on the stream of the core or of egress
  job,      \* job[w][s]: the lists thread <<w, s>> has built so far
  dropped,  \* the messages putRecords accepted and reported as failed
  fails     \* failed calls and dropped records so far

vars == <<shardVars, workerVars, stored, sent, job, dropped, fails>>

Job == [trades : Seq(Message), nacks : Seq(Message)]
NewJob == [trades |-> <<>>, nacks |-> <<>>]

TypeOK ==
  /\ ShardTypeOK(Message)
  /\ stored \subseteq Message /\ sent \subseteq Message
  /\ job \in [Worker -> [Shard -> Job]]
  /\ dropped \subseteq Message /\ fails \in Nat

Init ==
  /\ ShardInit
  /\ stored = {} /\ sent = {}
  /\ job = [w \in Worker |-> [s \in Shard |-> NewJob]]
  /\ dropped = {} /\ fails = 0

----------------------------------------------------------------------------
Fail == fails < MaxFail /\ fails' = fails + 1
Goto(w, s, next) == job' = [job EXCEPT ![w][s] = next]
Collect(w, s, r) ==
  Goto(w, s, IF r \in Valid THEN [job[w][s] EXCEPT !.trades = Append(@, r)]
                            ELSE [job[w][s] EXCEPT !.nacks = Append(@, r)])

(* The gateway, or the reconciliation application, puts a raw message on   *)
(* the stream.                                                             *)
ReceiveMessage(m, s) ==
  /\ Copies(m) < MaxCopies
  /\ Put(s, m)
  /\ UNCHANGED <<stored, sent, job, dropped, fails>>

(* Mutant: the message is collected and its item never written. *)
StoreNothing(w, s) ==
  /\ Working(w, s)
  /\ Collect(w, s, Current(w, s))
  /\ NextRecord(w, s)
  /\ UNCHANGED <<stored, sent, dropped, fails>>

(* Mutant: an item that is there already is an error, and halts the JVM. *)
StoreOnce(w, s) ==
  /\ Working(w, s)
  /\ stored' = stored \cup {Current(w, s)}
  /\ IF Current(w, s) \in stored THEN Halt(w) /\ UNCHANGED job
     ELSE Collect(w, s, Current(w, s)) /\ NextRecord(w, s)
  /\ UNCHANGED <<sent, dropped, fails>>

(* persistTrade or persistNack.  The write is conditional: a message that  *)
(* has an item already is collected all the same.                          *)
StoreRecord(w, s) ==
  /\ Working(w, s)
  /\ stored' = stored \cup {Current(w, s)}
  /\ Collect(w, s, Current(w, s))
  /\ NextRecord(w, s)
  /\ UNCHANGED <<sent, dropped, fails>>

(* The write fails, perhaps after it was applied: the JVM halts, unless it *)
(* was the NACK of a message that does not parse.                          *)
FailStore(w, s) ==
  /\ Working(w, s) /\ Fail
  /\ stored' \in {stored, stored \cup {Current(w, s)}}
  /\ LET r == Current(w, s)
     IN IF r \in Valid \cup Incomplete
          THEN Halt(w) /\ UNCHANGED job
          ELSE Collect(w, s, r) /\ NextRecord(w, s)
  /\ UNCHANGED <<sent, dropped>>

Elements(q) == {q[i] : i \in DOMAIN q}

(* pushTradesUpstream counts to Limit with every trade it adds; the one it *)
(* finds the counter full at triggers the call, and is not added.          *)
FullCall(q) ==   \* mutant: no call for the rest
  SubSeq(q, 1, IF Len(q) < Limit THEN 0 ELSE Limit - 1)
FirstCall(q) == SubSeq(q, 1, IF Len(q) < Limit THEN Len(q) ELSE Limit - 1)
AfterCall(q) == SubSeq(q, Limit + 1, Len(q))

(* One putRecords call of the messages in q.  The records it reports as    *)
(* failed are lost: its result is only logged.                             *)
PutRecords(q) ==
  \E lost \in SUBSET Elements(q) :
    /\ fails' = fails + Cardinality(lost)
    /\ fails' <= MaxFail
    /\ dropped' = dropped \cup lost
    /\ sent' = sent \cup (Elements(q) \ lost)

(* The service refuses a call with too many records, which halts the JVM. *)
Push(w, q, next) ==
  IF Len(q) <= Limit
    THEN PutRecords(q) /\ next /\ StayAtRecord
    ELSE Halt(w) /\ UNCHANGED <<sent, dropped, fails, job>>

PushTrades(w, s) ==
  /\ Finished(w, s) /\ job[w][s].trades # <<>>
  /\ LET q == job[w][s].trades
     IN Push(w, FirstCall(q), Goto(w, s, [job[w][s] EXCEPT !.trades = AfterCall(q)]))
  /\ UNCHANGED stored

PushNacks(w, s) ==
  /\ Finished(w, s) /\ job[w][s].trades = <<>> /\ job[w][s].nacks # <<>>
  /\ Push(w, job[w][s].nacks, Goto(w, s, NewJob))
  /\ UNCHANGED stored

(* A call fails, perhaps after the stream accepted it: the JVM halts. *)
FailPush(w, s) ==
  /\ Finished(w, s) /\ job[w][s] # NewJob /\ Fail
  /\ LET q == IF job[w][s].trades # <<>> THEN FirstCall(job[w][s].trades)
                                         ELSE job[w][s].nacks
     IN sent' \in {sent, sent \cup Elements(q)}
  /\ Halt(w)
  /\ UNCHANGED <<stored, job, dropped>>

Rest == UNCHANGED <<stored, sent, job, dropped, fails>>

(* Mutant: the checkpoint does not wait for the pushes. *)
CheckpointEarly(w, s) == CheckpointBatch(w, s) /\ Rest

Checkpoint(w, s) == job[w][s] = NewJob /\ CheckpointBatch(w, s) /\ Rest
Take(w, s)  == TakeLease(w, s)  /\ Rest
Steal(w, s) == StealLease(w, s) /\ Rest
Fetch(w, s) == FetchBatch(w, s) /\ Rest
Crash(w)    == CrashWorker(w)   /\ Rest

Restart(w) ==
  /\ RestartWorker(w)
  /\ job' = [job EXCEPT ![w] = [s \in Shard |-> NewJob]]
  /\ UNCHANGED <<stored, sent, dropped, fails>>

ProcessBatch(w, s) ==
  \/ StoreRecord(w, s)
  \/ FailStore(w, s)
  \/ PushTrades(w, s)
  \/ PushNacks(w, s)
  \/ FailPush(w, s)

WorkerStep(w, s) ==
  \/ Take(w, s)
  \/ Steal(w, s)
  \/ Fetch(w, s)
  \/ ProcessBatch(w, s)
  \/ Checkpoint(w, s)

Next ==
  \/ \E m \in Message, s \in Shard : ReceiveMessage(m, s)
  \/ \E w \in Worker, s \in Shard : WorkerStep(w, s)
  \/ \E w \in Worker :
       \/ Crash(w)
       \/ Restart(w)

Spec == Init /\ [][Next]_vars

(* Threads that can run do run, a free lease is taken, a dead task is      *)
(* replaced; no failure is forced to happen.                               *)
FairSpec ==
  /\ Spec
  /\ \A w \in Worker, s \in Shard :
       /\ WF_vars(ProcessBatch(w, s))
       /\ WF_vars(Fetch(w, s))
       /\ WF_vars(Checkpoint(w, s))
  /\ \A s \in Shard : WF_vars(\E w \in Worker : Take(w, s))
  /\ \A w \in Worker : WF_vars(Restart(w))

----------------------------------------------------------------------------
(* Properties. *)

Checkpointed == UNION {{log[s][i] : i \in 1..ckpt[s]} : s \in Shard}

(* Ingestion stores a message before it forwards it, and before the        *)
(* checkpoint passes it, in every interleaving of crashes, failed writes   *)
(* and stale threads.  The promise leaves out messages that do not parse:  *)
(* a NACK of theirs that cannot be stored is sent all the same.            *)
Promised == Valid \cup Incomplete
Stage == INSTANCE StoreAndForward WITH
           Message <- Promised,
           kept  <- stored \cap Promised,
           sent  <- sent \cap Promised,
           taken <- Checkpointed \cap Promised
ImplementsStage == Stage!Spec

(* How much a checkpoint can lose: apart from the records putRecords      *)
(* reports as failed, at most one in Limit of the checkpointed records was *)
(* not forwarded (the one the call counter skips), however the batches are *)
(* cut, repeated or processed by two workers at once.                      *)
LossBound ==
  \A s \in Shard :
     Limit * Cardinality({i \in 1..ckpt[s] : log[s][i] \notin sent \cup dropped}) <= ckpt[s]

(* Every message on the stream is stored in the end, and its stream is     *)
(* drained: repeated batches, failed writes and crashes are no restart     *)
(* loop, provided no batch has more NACKs than one call accepts.           *)
EventuallyTaken == \A m \in Promised : Copies(m) > 0 ~> m \in stored /\ Drained
=============================================================================
