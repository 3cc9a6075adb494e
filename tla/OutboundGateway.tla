-------------------------- MODULE OutboundGateway --------------------------
(***************************************************************************)
(* A processor of the trade outbound gateway: KinesisStreamProcessor for   *)
(* answers, KinesisSettlementStreamProcessor for settlements.  A batch is  *)
(* stored message by message, and a write that fails is only logged; then  *)
(* the messages are sent to the queue of their receiver one by one, and a  *)
(* failure halts the JVM; then the batch is checkpointed.                  *)
(***************************************************************************)
EXTENDS KinesisShards

CONSTANTS
  Message,
  Replaces(_, _),   \* the item of a message overwrites that of another one
  MaxFail           \* bound: failed calls of a behaviour

VARIABLES
  items,   \* the items of the outbound table
  todo,    \* todo[w][s]: what thread <<w, s>> has stored and not yet sent
  queue,   \* the messages the broker was given, in their order
  fails    \* failed calls so far

TypeOK ==
  /\ ShardTypeOK(Message)
  /\ items \subseteq Message
  /\ todo \in [Worker -> [Shard -> Seq(Message)]]
  /\ queue \in Seq(Message)
  /\ fails \in Nat

Init ==
  /\ ShardInit
  /\ items = {} /\ queue = <<>> /\ fails = 0
  /\ todo = [w \in Worker |-> [s \in Shard |-> <<>>]]

----------------------------------------------------------------------------
Fail == fails < MaxFail /\ fails' = fails + 1
Goto(w, s, next) == todo' = [todo EXCEPT ![w][s] = next]

Keep(m) == items' = {x \in items : ~Replaces(m, x)} \cup {m}

(* Mutant: an item that is there already is an error, and halts the JVM. *)
StoreOnce(w, s) ==
  /\ Working(w, s)
  /\ Keep(Current(w, s))
  /\ IF Current(w, s) \in items THEN Halt(w) /\ UNCHANGED todo
     ELSE Goto(w, s, Append(todo[w][s], Current(w, s))) /\ NextRecord(w, s)
  /\ UNCHANGED <<queue, fails>>

(* persistMessages and persistSettlementMessage, one write. *)
StoreMessage(w, s) ==
  /\ Working(w, s)
  /\ \/ Keep(Current(w, s)) /\ UNCHANGED fails
     \/ Fail /\ (Keep(Current(w, s)) \/ UNCHANGED items)
  /\ Goto(w, s, Append(todo[w][s], Current(w, s)))
  /\ NextRecord(w, s)
  /\ UNCHANGED queue

(* Mutants: one list for all threads of a task; the reverse order. *)
SendOneList(w, s) ==
  /\ Finished(w, s) /\ todo[w][s] # <<>>
  /\ queue' = Append(queue, Head(todo[w][s]))
  /\ todo' = [todo EXCEPT ![w] = Tail(todo[w][s])]
  /\ StayAtRecord
  /\ UNCHANGED <<items, fails>>

SendLast(w, s) ==
  /\ Finished(w, s) /\ todo[w][s] # <<>>
  /\ LET n == Len(todo[w][s])
     IN /\ queue' = Append(queue, todo[w][s][n])
        /\ Goto(w, s, SubSeq(todo[w][s], 1, n - 1))
  /\ StayAtRecord
  /\ UNCHANGED <<items, fails>>

(* sendMessages, one message.  The broker may have it although the send    *)
(* fails.                                                                  *)
SendMessage(w, s) ==
  /\ Finished(w, s) /\ todo[w][s] # <<>>
  /\ \/ /\ queue' = Append(queue, Head(todo[w][s]))
        /\ Goto(w, s, Tail(todo[w][s]))
        /\ StayAtRecord /\ UNCHANGED fails
     \/ /\ Fail
        /\ queue' \in {queue, Append(queue, Head(todo[w][s]))}
        /\ Halt(w) /\ UNCHANGED todo
  /\ UNCHANGED items

Rest == UNCHANGED <<items, todo, queue, fails>>

Checkpoint(w, s) == todo[w][s] = <<>> /\ CheckpointBatch(w, s) /\ Rest
Take(w, s)  == TakeLease(w, s)  /\ Rest
Steal(w, s) == StealLease(w, s) /\ Rest
Fetch(w, s) == FetchBatch(w, s) /\ Rest
Crash(w)    == CrashWorker(w)   /\ Rest

Restart(w) ==
  /\ RestartWorker(w)
  /\ todo' = [todo EXCEPT ![w] = [s \in Shard |-> <<>>]]
  /\ UNCHANGED <<items, queue, fails>>

ProcessBatch(w, s) == StoreMessage(w, s) \/ SendMessage(w, s)

ThreadStep(w, s) == Fetch(w, s) \/ ProcessBatch(w, s) \/ Checkpoint(w, s)
WorkerStep(w, s) == Take(w, s) \/ Steal(w, s) \/ ThreadStep(w, s)
=============================================================================
