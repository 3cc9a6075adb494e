--------------------------- MODULE KinesisShards ---------------------------
(***************************************************************************)
(* The Kinesis stream and Kinesis Client Library (KCL) environment that    *)
(* every stream processor of the repository runs in: shards that keep      *)
(* their records, one checkpoint and one lease per shard, and workers (JVM *)
(* processes, one per ECS task) that process leased shards in batches, one *)
(* thread per shard.  The library is not in the repository; what is        *)
(* modelled is what processRecords relies on: records of a shard arrive in *)
(* order, a batch is delivered again until it is checkpointed, a lease can *)
(* move while its old holder is still inside processRecords, and           *)
(* Runtime.halt stops every thread of the JVM at once.                     *)
(*                                                                         *)
(* The modules of the processors EXTEND this one; the record types and the *)
(* work done for a record are theirs.                                      *)
(***************************************************************************)
EXTENDS Naturals, Sequences, FiniteSets

CONSTANTS
  Shard,      \* the shards of the stream
  Worker,     \* the ECS tasks (JVMs) that consume it
  NoWorker,   \* the holder of a lease nobody holds
  MaxCrash,   \* bound: spontaneous JVM crashes in a behaviour
  MaxSteal    \* bound: leases moved away from a live worker in a behaviour

ASSUME ShardAssumption  == IsFiniteSet(Shard)
ASSUME WorkerAssumption == NoWorker \notin Worker
ASSUME BoundAssumption  == MaxCrash \in Nat /\ MaxSteal \in Nat

VARIABLES
  log,        \* log[s]: the records put on shard s, never removed
  ckpt,       \* ckpt[s]: how many of them are checkpointed
  owner,      \* owner[s]: the worker that holds the lease of s
  batch,      \* batch[w][s]: the records thread <<w, s>> is processing
  steals,     \* leases moved away from a live worker so far
  up,         \* up[w]: the JVM of w is running
  crashes     \* spontaneous crashes so far

shardVars  == <<log, ckpt, owner, batch, steals>>
workerVars == <<up, crashes>>

(* A batch is the interval pos..end of its shard, pos being the next record *)
(* to process; pos > end when only the checkpoint is left.                  *)
NoBatch == [pos |-> 0, end |-> 0]

ShardTypeOK(Record) ==
  /\ log \in [Shard -> Seq(Record)]
  /\ ckpt \in [Shard -> Nat]
  /\ owner \in [Shard -> Worker \cup {NoWorker}]
  /\ batch \in [Worker -> [Shard -> [pos : Nat, end : Nat]]]
  /\ steals \in Nat
  /\ up \in [Worker -> BOOLEAN]
  /\ crashes \in Nat

ShardInit ==
  /\ log = [s \in Shard |-> <<>>]
  /\ ckpt = [s \in Shard |-> 0]
  /\ owner = [s \in Shard |-> NoWorker]
  /\ batch = [w \in Worker |-> [s \in Shard |-> NoBatch]]
  /\ steals = 0
  /\ up = [w \in Worker |-> TRUE]
  /\ crashes = 0

Idle(w, s) == batch[w][s].pos = 0

(* Thread <<w, s>> is inside the loop of processRecords, at record Current. *)
Working(w, s) == up[w] /\ ~Idle(w, s) /\ batch[w][s].pos <= batch[w][s].end

(* Thread <<w, s>> has left the loop and calls the checkpointer. *)
Finished(w, s) == up[w] /\ batch[w][s].pos > batch[w][s].end

Current(w, s) == log[s][batch[w][s].pos]

(* How often a record was put on the stream, over all shards. *)
Copies(r) ==
  Cardinality({x \in UNION {{s} \X DOMAIN log[s] : s \in Shard} :
                 log[x[1]][x[2]] = r})

(* The record r is on some shard. *)
OnStream(r) == \E s \in Shard : \E i \in 1..Len(log[s]) : log[s][i] = r

(* A producer's putRecords: random partition keys choose any shard. *)
Put(s, r) ==
  /\ log' = [log EXCEPT ![s] = Append(@, r)]
  /\ UNCHANGED <<ckpt, owner, batch, steals, workerVars>>

(* A worker takes a lease that nobody holds, or whose holder is dead. *)
TakeLease(w, s) ==
  /\ up[w] /\ Idle(w, s)
  /\ owner[s] \in Worker => ~up[owner[s]]
  /\ owner' = [owner EXCEPT ![s] = w]
  /\ UNCHANGED <<log, ckpt, batch, steals, workerVars>>

(* The lease of a live worker moves (balancing, or late heartbeats); the    *)
(* old thread goes on with the batch it has.                                *)
StealLease(w, s) ==
  /\ steals < MaxSteal
  /\ up[w] /\ Idle(w, s)
  /\ owner[s] \in Worker \ {w} /\ up[owner[s]]
  /\ owner' = [owner EXCEPT ![s] = w]
  /\ steals' = steals + 1
  /\ UNCHANGED <<log, ckpt, batch, workerVars>>

(* The scheduler hands the next records of a leased shard to its thread. *)
FetchBatch(w, s) ==
  /\ up[w] /\ owner[s] = w /\ Idle(w, s)
  /\ \E e \in (ckpt[s] + 1)..Len(log[s]) :
        batch' = [batch EXCEPT ![w][s] = [pos |-> ckpt[s] + 1, end |-> e]]
  /\ UNCHANGED <<log, ckpt, owner, steals, workerVars>>

(* The loop of processRecords goes on to the next record. *)
NextRecord(w, s) ==
  /\ batch' = [batch EXCEPT ![w][s] = [pos |-> @.pos + 1, end |-> @.end]]
  /\ UNCHANGED <<log, ckpt, owner, steals, workerVars>>

StayAtRecord == UNCHANGED <<shardVars, workerVars>>

(* Runtime.halt(1): every thread of the JVM stops where it is. *)
Halt(w) ==
  /\ up' = [up EXCEPT ![w] = FALSE]
  /\ UNCHANGED <<shardVars, crashes>>

(* The checkpoint at the end of the batch; without the lease it throws a    *)
(* ShutdownException, which the processors answer with Runtime.halt(1).     *)
CheckpointBatch(w, s) ==
  /\ Finished(w, s)
  /\ IF owner[s] = w
       THEN /\ ckpt' = [ckpt EXCEPT ![s] = batch[w][s].end]
            /\ batch' = [batch EXCEPT ![w][s] = NoBatch]
            /\ UNCHANGED <<log, owner, steals, workerVars>>
       ELSE Halt(w)

(* The JVM dies by itself: an OOM kill, a lost host, an unforeseen error. *)
CrashWorker(w) ==
  /\ up[w] /\ crashes < MaxCrash
  /\ up' = [up EXCEPT ![w] = FALSE]
  /\ crashes' = crashes + 1
  /\ UNCHANGED shardVars

(* ECS starts a new task in its place, which knows nothing of the old one.  *)
RestartWorker(w) ==
  /\ ~up[w]
  /\ up' = [up EXCEPT ![w] = TRUE]
  /\ batch' = [batch EXCEPT ![w] = [s \in Shard |-> NoBatch]]
  /\ owner' = [s \in Shard |-> IF owner[s] = w THEN NoWorker ELSE owner[s]]
  /\ UNCHANGED <<log, ckpt, steals, crashes>>

(* Nothing is left to do on the stream. *)
Drained == \A s \in Shard : ckpt[s] = Len(log[s])

(* The threads that have a batch in a running JVM. *)
Threads == {th \in Worker \X Shard : up[th[1]] /\ ~Idle(th[1], th[2])}
=============================================================================
