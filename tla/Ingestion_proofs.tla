-------------------------- MODULE Ingestion_proofs --------------------------
(***************************************************************************)
(* Proofs about Ingestion: its type invariant, that it implements          *)
(* StoreAndForward, and the bound on what it skips, for any messages,      *)
(* shards, workers, call size and bounds.                                  *)
(***************************************************************************)
EXTENDS Ingestion, FiniteSetTheorems, SequenceTheorems, TLAPS

(* A batch that was fetched lies within its shard, and the checkpoint of a  *)
(* thread that still has its lease has not overtaken it: so a checkpoint    *)
(* never goes back.                                                         *)
BatchOK ==
  \A w \in Worker, s \in Shard : ~Idle(w, s) =>
    /\ batch[w][s].pos <= batch[w][s].end + 1
    /\ batch[w][s].end <= Len(log[s])
    /\ owner[s] = w => ckpt[s] <= batch[w][s].end

(* Up to the checkpoint, and up to the record a thread is at, the promised  *)
(* messages of a shard are stored.                                          *)
StoredUpTo(s, n) ==
  \A i \in 1..n : log[s][i] \in Promised => log[s][i] \in stored

StoredOK ==
  \A s \in Shard :
    /\ ckpt[s] <= Len(log[s]) /\ StoredUpTo(s, ckpt[s])
    /\ \A w \in Worker, i \in 1..Len(log[s]) :
         i < batch[w][s].pos /\ log[s][i] \in Promised => log[s][i] \in stored

(* What a thread has collected is stored. *)
Kept(q, S) == \A i \in DOMAIN q : q[i] \in Promised => q[i] \in S

ListsOK ==
  \A w \in Worker, s \in Shard : Kept(job[w][s].trades, stored) /\ Kept(job[w][s].nacks, stored)

IInv == TypeOK /\ BatchOK /\ StoredOK /\ ListsOK

----------------------------------------------------------------------------
(* Lists. *)

(* A part of a list has nothing that the list has not. *)
LEMMA PartOfList ==
  ASSUME NEW S, NEW q \in Seq(S), NEW m \in 1..(Len(q) + 1), NEW n \in 0..Len(q)
  PROVE  /\ SubSeq(q, m, n) \in Seq(S)
         /\ \A i \in DOMAIN SubSeq(q, m, n) : \E j \in DOMAIN q : SubSeq(q, m, n)[i] = q[j]
  <1> DEFINE p == SubSeq(q, m, n)
  <1>1. \A i \in m..n : q[i] \in S
    OBVIOUS
  <1>2. /\ p \in Seq(S)
        /\ Len(p) = IF m <= n THEN n - m + 1 ELSE 0
        /\ \A i \in 1..(n - m + 1) : p[i] = q[m + i - 1]
    BY <1>1, SubSeqProperties
  <1>3. DOMAIN p = 1..Len(p) /\ DOMAIN q = 1..Len(q)
    BY <1>2
  <1>4. ASSUME NEW i \in DOMAIN p PROVE \E j \in DOMAIN q : p[i] = q[j]
    <2>1. i \in 1..(n - m + 1) /\ m + i - 1 \in 1..Len(q)
      BY <1>2, <1>3, <1>4
    <2> QED
      BY <1>2, <1>3, <2>1
  <1> QED
    BY <1>2, <1>4

(* The two parts of a list that pushTradesUpstream deals with. *)
LEMMA CallParts ==
  ASSUME NEW q \in Seq(Message)
  PROVE  /\ FirstCall(q) \in Seq(Message) /\ AfterCall(q) \in Seq(Message)
         /\ \A S : Kept(q, S) => Kept(FirstCall(q), S) /\ Kept(AfterCall(q), S)
  <1>1. Limit \in Nat /\ Limit > 1 /\ Len(q) \in Nat
    BY IngestionAssumption
  <1>2. /\ FirstCall(q) \in Seq(Message)
        /\ \A i \in DOMAIN FirstCall(q) : \E j \in DOMAIN q : FirstCall(q)[i] = q[j]
    <2> DEFINE n == IF Len(q) < Limit THEN Len(q) ELSE Limit - 1
    <2>1. n \in 0..Len(q) /\ 1 \in 1..(Len(q) + 1)
      BY <1>1
    <2>2. FirstCall(q) = SubSeq(q, 1, n)
      BY DEF FirstCall
    <2> HIDE DEF n
    <2> QED
      BY <2>1, <2>2, PartOfList
  <1>3. /\ AfterCall(q) \in Seq(Message)
        /\ \A i \in DOMAIN AfterCall(q) : \E j \in DOMAIN q : AfterCall(q)[i] = q[j]
    <2>1. CASE Limit <= Len(q)
      <3>1. Limit + 1 \in 1..(Len(q) + 1) /\ Len(q) \in 0..Len(q)
        BY <1>1, <2>1
      <3>2. AfterCall(q) = SubSeq(q, Limit + 1, Len(q))
        BY DEF AfterCall
      <3> DEFINE a == Limit + 1
                 b == Len(q)
      <3>3. a \in 1..(Len(q) + 1) /\ b \in 0..Len(q) /\ AfterCall(q) = SubSeq(q, a, b)
        BY <3>1, <3>2
      <3> HIDE DEF a, b
      <3>4. q \in Seq(Message) /\ b \in 0..Len(q) /\ a \in 1..(Len(q) + 1)
        BY <3>3
      <3>5. /\ SubSeq(q, a, b) \in Seq(Message)
            /\ \A i \in DOMAIN SubSeq(q, a, b) : \E j \in DOMAIN q : SubSeq(q, a, b)[i] = q[j]
        BY <3>4, PartOfList
      <3> QED
        BY <3>3, <3>5
    <2>2. CASE Limit > Len(q)
      <3>1. AfterCall(q) = <<>>
        BY <1>1, <2>2, SubSeqEmpty DEF AfterCall
      <3> QED
        BY <3>1
    <2> QED
      BY <1>1, <2>1, <2>2
  <1> QED
    BY <1>2, <1>3 DEF Kept

(* The elements of a list are finitely many messages. *)
LEMMA ElementsFinite ==
  ASSUME NEW q \in Seq(Message), NEW lost \in SUBSET Elements(q)
  PROVE  Elements(q) \subseteq Message /\ Cardinality(lost) \in Nat
  <1>1. IsFiniteSet(1..Len(q)) /\ DOMAIN q = 1..Len(q)
    BY FS_Interval
  <1>2. IsFiniteSet(Elements(q))
    <2>1. \E f : f \in Surjection(1..Len(q), Elements(q))
      <3>1. q \in Surjection(1..Len(q), Elements(q))
        BY <1>1 DEF Elements, Surjection
      <3> QED
        BY <3>1
    <2> QED
      BY <1>1, <2>1, FS_Surjection
  <1>3. IsFiniteSet(lost)
    BY <1>2, FS_Subset
  <1> QED
    BY <1>1, <1>3, FS_CardinalityType DEF Elements

----------------------------------------------------------------------------
(* What the steps of the stream do to an invariant state. *)

(* The record a thread is at is a message of its shard. *)
LEMMA CurrentType ==
  ASSUME TypeOK, BatchOK, NEW w \in Worker, NEW s \in Shard, Working(w, s)
  PROVE  /\ batch[w][s].pos \in 1..Len(log[s])
         /\ Current(w, s) \in Message
         /\ Current(w, s) = log[s][batch[w][s].pos]
  <1>1. /\ log[s] \in Seq(Message)
        /\ batch[w][s].pos \in Nat /\ batch[w][s].end \in Nat
    BY DEF TypeOK, ShardTypeOK
  <1>2. batch[w][s].pos \in 1..Len(log[s])
    BY <1>1 DEF BatchOK, Working, Idle
  <1> QED
    BY <1>1, <1>2 DEF Current

(* A step that leaves the stream alone, or stops a worker, or collects what *)
(* is stored, keeps the three parts that are about the stream.              *)
LEMMA StayKeeps ==
  ASSUME TypeOK, BatchOK, StoredOK, UNCHANGED shardVars, stored \subseteq stored'
  PROVE  BatchOK' /\ StoredOK'
  <1>1. BatchOK'
    BY DEF BatchOK, Idle, shardVars
  <1>2. StoredOK'
    BY DEF StoredOK, StoredUpTo, shardVars
  <1> QED
    BY <1>1, <1>2

(* A thread goes on to its next record once the one it was at is stored, if *)
(* it is a promised one.                                                    *)
LEMMA NextKeeps ==
  ASSUME TypeOK, BatchOK, StoredOK, NEW w \in Worker, NEW s \in Shard,
         Working(w, s), NextRecord(w, s), stored \subseteq stored',
         Current(w, s) \in Promised => Current(w, s) \in stored'
  PROVE  BatchOK' /\ StoredOK' /\ ShardTypeOK(Message)'
  <1>1. batch[w][s].pos \in Nat /\ batch[w][s].end \in Nat
    BY DEF TypeOK, ShardTypeOK
  <1>2. /\ UNCHANGED <<log, ckpt, owner, steals, workerVars>>
        /\ \A v \in Worker, r \in Shard :
             batch'[v][r] = IF v = w /\ r = s
                            THEN [pos |-> batch[w][s].pos + 1, end |-> batch[w][s].end]
                            ELSE batch[v][r]
    BY DEF NextRecord, TypeOK, ShardTypeOK
  <1>3. BatchOK'
    BY <1>1, <1>2 DEF BatchOK, Idle, Working
  <1>4. StoredOK'
    <2> SUFFICES ASSUME NEW r \in Shard
                 PROVE  /\ ckpt'[r] <= Len(log'[r]) /\ StoredUpTo(r, ckpt[r])'
                        /\ \A v \in Worker, i \in 1..Len(log'[r]) :
                             i < batch'[v][r].pos /\ log'[r][i] \in Promised
                               => log'[r][i] \in stored'
      BY <1>2 DEF StoredOK
    <2>1. ckpt'[r] <= Len(log'[r]) /\ StoredUpTo(r, ckpt[r])'
      BY <1>2 DEF StoredOK, StoredUpTo
    <2>2. ASSUME NEW v \in Worker, NEW i \in 1..Len(log'[r]),
                 i < batch'[v][r].pos, log'[r][i] \in Promised
          PROVE  log'[r][i] \in stored'
      <3>1. CASE i < batch[v][r].pos
        BY <1>2, <2>2, <3>1 DEF StoredOK
      <3>2. CASE ~(i < batch[v][r].pos)
        <4>1. v = w /\ r = s /\ i = batch[w][s].pos
          BY <1>1, <1>2, <2>2, <3>2
        <4> QED
          BY <1>2, <2>2, <4>1 DEF Current
      <3> QED
        BY <3>1, <3>2
    <2> QED
      BY <2>1, <2>2
  <1>5. ShardTypeOK(Message)'
    <2>1. batch' \in [Worker -> [Shard -> [pos : Nat, end : Nat]]]
      <3>1. [pos |-> batch[w][s].pos + 1, end |-> batch[w][s].end] \in [pos : Nat, end : Nat]
        BY <1>1
      <3> QED
        BY <3>1 DEF NextRecord, TypeOK, ShardTypeOK
    <2> QED
      BY <1>2, <2>1 DEF TypeOK, ShardTypeOK, workerVars
  <1> QED
    BY <1>3, <1>4, <1>5

(* A halted worker changes nothing but up. *)
LEMMA HaltType ==
  ASSUME TypeOK, NEW w \in Worker, Halt(w)
  PROVE  ShardTypeOK(Message)' /\ UNCHANGED shardVars
  BY DEF TypeOK, ShardTypeOK, Halt, shardVars

(* A list with a stored message more. *)
LEMMA CollectKeeps ==
  ASSUME TypeOK, ListsOK, NEW w \in Worker, NEW s \in Shard, NEW r \in Message,
         Collect(w, s, r), stored \subseteq stored', r \in Promised => r \in stored'
  PROVE  job' \in [Worker -> [Shard -> Job]] /\ ListsOK'
  <1> DEFINE next == IF r \in Valid THEN [job[w][s] EXCEPT !.trades = Append(@, r)]
                                    ELSE [job[w][s] EXCEPT !.nacks = Append(@, r)]
  <1>1. job[w][s] \in Job
    BY DEF TypeOK
  <1>2. ASSUME NEW q \in Seq(Message), Kept(q, stored)
        PROVE  Append(q, r) \in Seq(Message) /\ Kept(Append(q, r), stored')
    <2>1. /\ Append(q, r) \in Seq(Message) /\ Len(Append(q, r)) = Len(q) + 1
          /\ DOMAIN Append(q, r) = 1..(Len(q) + 1) /\ DOMAIN q = 1..Len(q)
          /\ \A i \in 1..Len(q) : Append(q, r)[i] = q[i]
          /\ Append(q, r)[Len(q) + 1] = r
      OBVIOUS
    <2>2. ASSUME NEW i \in DOMAIN Append(q, r), Append(q, r)[i] \in Promised
          PROVE  Append(q, r)[i] \in stored'
      <3>1. CASE i \in 1..Len(q)
        BY <1>2, <2>1, <2>2, <3>1 DEF Kept
      <3>2. CASE i = Len(q) + 1
        BY <2>1, <2>2, <3>2
      <3> QED
        BY <2>1, <3>1, <3>2
    <2> QED
      BY <2>1, <2>2 DEF Kept
  <1>3. /\ job[w][s].trades \in Seq(Message) /\ job[w][s].nacks \in Seq(Message)
        /\ Kept(job[w][s].trades, stored) /\ Kept(job[w][s].nacks, stored)
    BY <1>1 DEF Job, ListsOK
  <1>4. next \in Job /\ Kept(next.trades, stored') /\ Kept(next.nacks, stored')
    <2>1. /\ Append(job[w][s].trades, r) \in Seq(Message) /\ Kept(Append(job[w][s].trades, r), stored')
          /\ Append(job[w][s].nacks, r) \in Seq(Message) /\ Kept(Append(job[w][s].nacks, r), stored')
      BY <1>2, <1>3
    <2>2. Kept(job[w][s].trades, stored') /\ Kept(job[w][s].nacks, stored')
      BY <1>3 DEF Kept
    <2>3. CASE r \in Valid
      <3>1. next = [trades |-> Append(job[w][s].trades, r), nacks |-> job[w][s].nacks]
        BY <1>1, <2>3 DEF Job
      <3> HIDE DEF next
      <3> QED
        BY <1>3, <2>1, <2>2, <3>1 DEF Job
    <2>4. CASE r \notin Valid
      <3>1. next = [trades |-> job[w][s].trades, nacks |-> Append(job[w][s].nacks, r)]
        BY <1>1, <2>4 DEF Job
      <3> HIDE DEF next
      <3> QED
        BY <1>3, <2>1, <2>2, <3>1 DEF Job
    <2> QED
      BY <2>3, <2>4
  <1>5. job' = [job EXCEPT ![w][s] = next]
    BY DEF Collect, Goto
  <1> HIDE DEF next
  <1>6. job' \in [Worker -> [Shard -> Job]]
    BY <1>4, <1>5 DEF TypeOK
  <1>7. ListsOK'
    BY <1>4, <1>5 DEF ListsOK, Kept, TypeOK
  <1> QED
    BY <1>6, <1>7

----------------------------------------------------------------------------
(* The invariant holds at first and is kept by each action. *)

LEMMA InvInit == Init => IInv
  <1> SUFFICES ASSUME Init PROVE IInv
    OBVIOUS
  <1>1. NewJob \in Job /\ Kept(NewJob.trades, stored) /\ Kept(NewJob.nacks, stored)
    BY DEF NewJob, Job, Kept
  <1>2. TypeOK
    BY <1>1 DEF Init, TypeOK, ShardInit, ShardTypeOK, NoBatch
  <1>3. BatchOK /\ StoredOK
    BY DEF Init, ShardInit, BatchOK, StoredOK, StoredUpTo, Idle, NoBatch
  <1>4. ListsOK
    BY <1>1 DEF Init, ListsOK
  <1> QED
    BY <1>2, <1>3, <1>4 DEF IInv

LEMMA ReceiveKeeps ==
  ASSUME IInv, NEW m \in Message, NEW s \in Shard, ReceiveMessage(m, s)
  PROVE  IInv'
  <1>1. TypeOK /\ BatchOK /\ StoredOK /\ ListsOK
    BY DEF IInv
  <1>2. /\ UNCHANGED <<ckpt, owner, batch, steals, workerVars, stored, sent, job, dropped, fails>>
        /\ log' = [log EXCEPT ![s] = Append(@, m)]
    BY DEF ReceiveMessage, Put
  <1>3. TypeOK'
    BY <1>1, <1>2 DEF TypeOK, ShardTypeOK, workerVars
  <1>4. ASSUME NEW r \in Shard
        PROVE  /\ Len(log[r]) \in Nat /\ Len(log'[r]) \in Nat /\ Len(log[r]) <= Len(log'[r])
               /\ \A i \in 1..Len(log[r]) : log'[r][i] = log[r][i]
    BY <1>1, <1>2 DEF TypeOK, ShardTypeOK
  <1>5. BatchOK'
    <2> SUFFICES ASSUME NEW w \in Worker, NEW r \in Shard, ~Idle(w, r)
                 PROVE  /\ batch[w][r].pos <= batch[w][r].end + 1
                        /\ batch[w][r].end <= Len(log'[r])
                        /\ owner[r] = w => ckpt[r] <= batch[w][r].end
      BY <1>2 DEF BatchOK, Idle
    <2>1. batch[w][r].end \in Nat
      BY <1>1 DEF TypeOK, ShardTypeOK
    <2> QED
      BY <1>1, <1>4, <2>1 DEF BatchOK
  <1>6. StoredOK'
    <2> SUFFICES ASSUME NEW r \in Shard
                 PROVE  /\ ckpt[r] <= Len(log'[r])
                        /\ \A i \in 1..ckpt[r] : log'[r][i] \in Promised => log'[r][i] \in stored
                        /\ \A w \in Worker, i \in 1..Len(log'[r]) :
                             i < batch[w][r].pos /\ log'[r][i] \in Promised
                               => log'[r][i] \in stored
      BY <1>2 DEF StoredOK, StoredUpTo
    <2>1. ckpt[r] \in Nat
      BY <1>1 DEF TypeOK, ShardTypeOK
    <2>2. /\ ckpt[r] <= Len(log'[r])
          /\ \A i \in 1..ckpt[r] : log'[r][i] \in Promised => log'[r][i] \in stored
      BY <1>1, <1>4, <2>1 DEF StoredOK, StoredUpTo
    <2>3. ASSUME NEW w \in Worker, NEW i \in 1..Len(log'[r]),
                 i < batch[w][r].pos, log'[r][i] \in Promised
          PROVE  log'[r][i] \in stored
      <3>1. batch[w][r].pos \in Nat /\ batch[w][r].end \in Nat
        BY <1>1 DEF TypeOK, ShardTypeOK
      <3>2. ~Idle(w, r)
        BY <2>3, <3>1 DEF Idle
      <3>3. i \in 1..Len(log[r])
        BY <1>1, <1>4, <2>3, <3>1, <3>2 DEF BatchOK
      <3> QED
        BY <1>1, <1>4, <2>3, <3>3 DEF StoredOK
    <2> QED
      BY <2>2, <2>3
  <1>7. ListsOK'
    BY <1>1, <1>2 DEF ListsOK
  <1> QED
    BY <1>3, <1>5, <1>6, <1>7 DEF IInv

LEMMA LeaseKeeps ==
  ASSUME IInv, NEW w \in Worker, NEW s \in Shard, Take(w, s) \/ Steal(w, s)
  PROVE  IInv'
  <1>1. TypeOK /\ BatchOK /\ StoredOK /\ ListsOK
    BY DEF IInv
  <1>2. /\ UNCHANGED <<log, ckpt, batch, workerVars, stored, sent, job, dropped, fails>>
        /\ Idle(w, s) /\ owner' = [owner EXCEPT ![s] = w]
        /\ steals' \in Nat
    BY <1>1 DEF Take, TakeLease, Steal, StealLease, Rest, TypeOK, ShardTypeOK
  <1>3. TypeOK'
    BY <1>1, <1>2 DEF TypeOK, ShardTypeOK, workerVars
  <1>4. BatchOK'
    BY <1>1, <1>2 DEF BatchOK, Idle, TypeOK, ShardTypeOK
  <1>5. StoredOK' /\ ListsOK'
    BY <1>1, <1>2 DEF StoredOK, StoredUpTo, ListsOK
  <1> QED
    BY <1>3, <1>4, <1>5 DEF IInv

LEMMA FetchKeeps ==
  ASSUME IInv, NEW w \in Worker, NEW s \in Shard, Fetch(w, s)
  PROVE  IInv'
  <1>1. TypeOK /\ BatchOK /\ StoredOK /\ ListsOK
    BY DEF IInv
  <1>2. ckpt[s] \in Nat /\ Len(log[s]) \in Nat
    BY <1>1 DEF TypeOK, ShardTypeOK
  <1>3. PICK e \in (ckpt[s] + 1)..Len(log[s]) :
          batch' = [batch EXCEPT ![w][s] = [pos |-> ckpt[s] + 1, end |-> e]]
    BY DEF Fetch, FetchBatch
  <1>4. UNCHANGED <<log, ckpt, owner, steals, workerVars, stored, sent, job, dropped, fails>>
    BY DEF Fetch, FetchBatch, Rest
  <1>5. \A v \in Worker, r \in Shard :
          batch'[v][r] = IF v = w /\ r = s THEN [pos |-> ckpt[s] + 1, end |-> e]
                                           ELSE batch[v][r]
    BY <1>1, <1>3 DEF TypeOK, ShardTypeOK
  <1>6. TypeOK'
    <2>1. [pos |-> ckpt[s] + 1, end |-> e] \in [pos : Nat, end : Nat]
      BY <1>2
    <2>2. batch' \in [Worker -> [Shard -> [pos : Nat, end : Nat]]]
      BY <1>1, <1>3, <2>1 DEF TypeOK, ShardTypeOK
    <2> QED
      BY <1>1, <1>4, <2>2 DEF TypeOK, ShardTypeOK, workerVars
  <1>7. BatchOK'
    BY <1>1, <1>2, <1>4, <1>5 DEF BatchOK, Idle
  <1>8. StoredOK'
    <2>1. ASSUME NEW v \in Worker, NEW r \in Shard, NEW i \in 1..Len(log[r]),
                 i < batch'[v][r].pos, log[r][i] \in Promised
          PROVE  log[r][i] \in stored
      <3>1. CASE v = w /\ r = s
        <4>1. i \in 1..ckpt[s]
          BY <1>2, <1>5, <2>1, <3>1
        <4> QED
          BY <1>1, <2>1, <3>1, <4>1 DEF StoredOK, StoredUpTo
      <3>2. CASE ~(v = w /\ r = s)
        <4>1. i < batch[v][r].pos
          BY <1>5, <2>1, <3>2
        <4> QED
          BY <1>1, <2>1, <4>1 DEF StoredOK
      <3> QED
        BY <3>1, <3>2
    <2> QED
      BY <1>1, <1>4, <2>1 DEF StoredOK, StoredUpTo
  <1>9. ListsOK'
    BY <1>1, <1>4 DEF ListsOK
  <1> QED
    BY <1>6, <1>7, <1>8, <1>9 DEF IInv

LEMMA CheckpointFacts ==
  ASSUME TypeOK, BatchOK, StoredOK, NEW w \in Worker, NEW s \in Shard,
         Finished(w, s), owner[s] = w
  PROVE  /\ batch[w][s].end \in Nat /\ batch[w][s].end <= Len(log[s])
         /\ ckpt[s] <= batch[w][s].end /\ ckpt[s] \in Nat
         /\ StoredUpTo(s, batch[w][s].end)
  <1>1. /\ batch[w][s].pos \in Nat /\ batch[w][s].end \in Nat
        /\ ckpt[s] \in Nat /\ Len(log[s]) \in Nat
    BY DEF TypeOK, ShardTypeOK
  <1>2. ~Idle(w, s)
    BY <1>1 DEF Finished, Idle
  <1>3. batch[w][s].end <= Len(log[s]) /\ ckpt[s] <= batch[w][s].end
    BY <1>2 DEF BatchOK
  <1>4. ASSUME NEW i \in 1..batch[w][s].end, log[s][i] \in Promised
        PROVE  log[s][i] \in stored
    BY <1>1, <1>3, <1>4 DEF Finished, StoredOK
  <1> QED
    BY <1>1, <1>3, <1>4 DEF StoredUpTo

LEMMA CheckpointKeeps ==
  ASSUME IInv, NEW w \in Worker, NEW s \in Shard, Checkpoint(w, s)
  PROVE  IInv'
  <1>1. TypeOK /\ BatchOK /\ StoredOK /\ ListsOK
    BY DEF IInv
  <1>2. UNCHANGED <<stored, sent, job, dropped, fails>> /\ Finished(w, s)
    BY DEF Checkpoint, CheckpointBatch, Rest
  <1>3. ListsOK'
    BY <1>1, <1>2 DEF ListsOK
  <1>4. CASE owner[s] # w
    <2>1. Halt(w)
      BY <1>4 DEF Checkpoint, CheckpointBatch
    <2>2. ShardTypeOK(Message)' /\ UNCHANGED shardVars
      BY <1>1, <2>1, HaltType
    <2> QED
      BY <1>1, <1>2, <1>3, <2>2, StayKeeps DEF IInv, TypeOK
  <1>5. CASE owner[s] = w
    <2>1. /\ ckpt' = [ckpt EXCEPT ![s] = batch[w][s].end]
          /\ batch' = [batch EXCEPT ![w][s] = NoBatch]
          /\ UNCHANGED <<log, owner, steals, workerVars>>
      BY <1>5 DEF Checkpoint, CheckpointBatch
    <2>2. /\ batch[w][s].end \in Nat /\ batch[w][s].end <= Len(log[s])
          /\ StoredUpTo(s, batch[w][s].end)
      BY <1>1, <1>2, <1>5, CheckpointFacts
    <2>3. \A v \in Worker, r \in Shard :
            batch'[v][r] = IF v = w /\ r = s THEN NoBatch ELSE batch[v][r]
      BY <1>1, <2>1 DEF TypeOK, ShardTypeOK
    <2>4. \A r \in Shard : ckpt'[r] = IF r = s THEN batch[w][s].end ELSE ckpt[r]
      BY <1>1, <2>1 DEF TypeOK, ShardTypeOK
    <2>5. TypeOK'
      <3>1. batch' \in [Worker -> [Shard -> [pos : Nat, end : Nat]]]
        BY <1>1, <2>1 DEF TypeOK, ShardTypeOK, NoBatch
      <3>2. ckpt' \in [Shard -> Nat]
        BY <1>1, <2>1, <2>2 DEF TypeOK, ShardTypeOK
      <3> QED
        BY <1>1, <1>2, <2>1, <3>1, <3>2 DEF TypeOK, ShardTypeOK, workerVars
    <2>6. BatchOK'
      BY <1>1, <1>5, <2>1, <2>3, <2>4 DEF BatchOK, Idle, NoBatch
    <2>7. StoredOK'
      <3>1. ASSUME NEW v \in Worker, NEW r \in Shard, NEW i \in 1..Len(log[r]),
                   i < batch'[v][r].pos, log[r][i] \in Promised
            PROVE  log[r][i] \in stored
        <4>1. i < batch[v][r].pos
          BY <2>3, <3>1 DEF NoBatch
        <4> QED
          BY <1>1, <3>1, <4>1 DEF StoredOK
      <3>2. ASSUME NEW r \in Shard
            PROVE  ckpt'[r] <= Len(log[r]) /\ StoredUpTo(r, ckpt'[r])
        BY <1>1, <2>2, <2>4 DEF StoredOK
      <3> QED
        BY <1>2, <2>1, <3>1, <3>2 DEF StoredOK, StoredUpTo
    <2> QED
      BY <1>3, <2>5, <2>6, <2>7 DEF IInv
  <1> QED
    BY <1>4, <1>5

LEMMA CrashKeeps ==
  ASSUME IInv, NEW w \in Worker, Crash(w)
  PROVE  IInv'
  <1>1. TypeOK /\ BatchOK /\ StoredOK /\ ListsOK
    BY DEF IInv
  <1>2. UNCHANGED <<shardVars, stored, sent, job, dropped, fails>>
    BY DEF Crash, CrashWorker, Rest
  <1>3. TypeOK'
    BY <1>1, <1>2 DEF Crash, CrashWorker, TypeOK, ShardTypeOK, shardVars
  <1>4. ListsOK'
    BY <1>1, <1>2 DEF ListsOK
  <1> QED
    BY <1>1, <1>2, <1>3, <1>4, StayKeeps DEF IInv

LEMMA RestartKeeps ==
  ASSUME IInv, NEW w \in Worker, Restart(w)
  PROVE  IInv'
  <1>1. TypeOK /\ BatchOK /\ StoredOK /\ ListsOK
    BY DEF IInv
  <1>2. /\ up' = [up EXCEPT ![w] = TRUE]
        /\ batch' = [batch EXCEPT ![w] = [s \in Shard |-> NoBatch]]
        /\ owner' = [s \in Shard |-> IF owner[s] = w THEN NoWorker ELSE owner[s]]
        /\ job' = [job EXCEPT ![w] = [s \in Shard |-> NewJob]]
        /\ UNCHANGED <<log, ckpt, steals, crashes, stored, sent, dropped, fails>>
    BY DEF Restart, RestartWorker
  <1>3. NewJob \in Job /\ Kept(NewJob.trades, stored) /\ Kept(NewJob.nacks, stored)
    BY DEF NewJob, Job, Kept
  <1>4. TypeOK'
    <2>1. batch' \in [Worker -> [Shard -> [pos : Nat, end : Nat]]]
      BY <1>1, <1>2 DEF TypeOK, ShardTypeOK, NoBatch
    <2>2. job' \in [Worker -> [Shard -> Job]]
      BY <1>1, <1>2, <1>3 DEF TypeOK
    <2>3. owner' \in [Shard -> Worker \cup {NoWorker}] /\ up' \in [Worker -> BOOLEAN]
      BY <1>1, <1>2 DEF TypeOK, ShardTypeOK
    <2> QED
      BY <1>1, <1>2, <2>1, <2>2, <2>3 DEF TypeOK, ShardTypeOK
  <1>5. \A v \in Worker, r \in Shard :
          batch'[v][r] = IF v = w THEN NoBatch ELSE batch[v][r]
    BY <1>1, <1>2 DEF TypeOK, ShardTypeOK
  <1>6. BatchOK'
    BY <1>1, <1>2, <1>5, WorkerAssumption DEF BatchOK, Idle, NoBatch
  <1>7. StoredOK'
    <2>1. ASSUME NEW v \in Worker, NEW r \in Shard, NEW i \in 1..Len(log[r]),
                 i < batch'[v][r].pos, log[r][i] \in Promised
          PROVE  log[r][i] \in stored
      <3>1. i < batch[v][r].pos
        BY <1>5, <2>1 DEF NoBatch
      <3> QED
        BY <1>1, <2>1, <3>1 DEF StoredOK
    <2> QED
      BY <1>1, <1>2, <2>1 DEF StoredOK, StoredUpTo
  <1>8. ListsOK'
    BY <1>1, <1>2, <1>3 DEF ListsOK, TypeOK
  <1> QED
    BY <1>4, <1>6, <1>7, <1>8 DEF IInv

(* The lists of a thread, and the calls made of them, are kept messages. *)
LEMMA ListFacts ==
  ASSUME TypeOK, ListsOK, NEW w \in Worker, NEW s \in Shard
  PROVE  /\ job[w][s] \in Job
         /\ job[w][s].trades \in Seq(Message) /\ job[w][s].nacks \in Seq(Message)
         /\ Kept(job[w][s].trades, stored) /\ Kept(job[w][s].nacks, stored)
         /\ FirstCall(job[w][s].trades) \in Seq(Message)
         /\ AfterCall(job[w][s].trades) \in Seq(Message)
         /\ Kept(FirstCall(job[w][s].trades), stored)
         /\ Kept(AfterCall(job[w][s].trades), stored)
  <1>1. /\ job[w][s] \in Job
        /\ job[w][s].trades \in Seq(Message) /\ job[w][s].nacks \in Seq(Message)
        /\ Kept(job[w][s].trades, stored) /\ Kept(job[w][s].nacks, stored)
    BY DEF TypeOK, ListsOK, Job
  <1> QED
    BY <1>1, CallParts

(* What a step that stores or collects a record does: it stores nothing but *)
(* the record, and goes on only when a promised one is stored.              *)
LEMMA RecordFacts ==
  ASSUME TypeOK, BatchOK, NEW w \in Worker, NEW s \in Shard,
         StoreRecord(w, s) \/ FailStore(w, s)
  PROVE  /\ Working(w, s) /\ Current(w, s) \in Message
         /\ stored' = stored \/ stored' = stored \cup {Current(w, s)}
         /\ UNCHANGED <<sent, dropped>> /\ fails' \in Nat
         /\ \/ Halt(w) /\ UNCHANGED job
            \/ /\ Collect(w, s, Current(w, s)) /\ NextRecord(w, s)
               /\ Current(w, s) \in Promised => Current(w, s) \in stored'
  <1>1. Working(w, s) /\ Current(w, s) \in Message
    BY CurrentType DEF StoreRecord, FailStore
  <1>2. CASE StoreRecord(w, s)
    BY <1>1, <1>2 DEF StoreRecord, TypeOK
  <1>3. CASE FailStore(w, s)
    <2>1. Current(w, s) \notin Valid \cup Incomplete => Current(w, s) \notin Promised
      BY DEF Promised
    <2> QED
      BY <1>1, <1>3, <2>1 DEF FailStore, Fail, TypeOK
  <1> QED
    BY <1>2, <1>3

LEMMA RecordKeeps ==
  ASSUME IInv, NEW w \in Worker, NEW s \in Shard, StoreRecord(w, s) \/ FailStore(w, s)
  PROVE  IInv'
  <1>1. TypeOK /\ BatchOK /\ StoredOK /\ ListsOK
    BY DEF IInv
  <1>2. /\ Working(w, s) /\ Current(w, s) \in Message
        /\ stored \subseteq stored' /\ stored' \subseteq Message
        /\ UNCHANGED <<sent, dropped>> /\ fails' \in Nat
    BY <1>1, RecordFacts DEF TypeOK
  <1>3. CASE Halt(w) /\ UNCHANGED job
    <2>1. ShardTypeOK(Message)' /\ UNCHANGED shardVars
      BY <1>1, <1>3, HaltType
    <2>2. TypeOK'
      BY <1>1, <1>2, <1>3, <2>1 DEF TypeOK
    <2>3. ListsOK'
      BY <1>1, <1>2, <1>3 DEF ListsOK, Kept
    <2> QED
      BY <1>1, <1>2, <2>1, <2>2, <2>3, StayKeeps DEF IInv
  <1>4. CASE /\ Collect(w, s, Current(w, s)) /\ NextRecord(w, s)
             /\ Current(w, s) \in Promised => Current(w, s) \in stored'
    <2>1. BatchOK' /\ StoredOK' /\ ShardTypeOK(Message)'
      BY <1>1, <1>2, <1>4, NextKeeps
    <2>2. job' \in [Worker -> [Shard -> Job]] /\ ListsOK'
      BY <1>1, <1>2, <1>4, CollectKeeps
    <2>3. TypeOK'
      BY <1>1, <1>2, <2>1, <2>2 DEF TypeOK
    <2> QED
      BY <2>1, <2>2, <2>3 DEF IInv
  <1> QED
    BY <1>1, <1>3, <1>4, RecordFacts

(* What a step that makes a call does: it sends messages of the list, and   *)
(* leaves the stream alone.                                                 *)
LEMMA PushFacts ==
  ASSUME TypeOK, ListsOK, NEW w \in Worker, NEW s \in Shard,
         PushTrades(w, s) \/ PushNacks(w, s) \/ FailPush(w, s)
  PROVE  /\ UNCHANGED <<shardVars, stored>>
         /\ \E S \in SUBSET Message :
              S \cap Promised \subseteq stored /\ sent' = sent \cup S
         /\ dropped' \subseteq Message /\ fails' \in Nat
         /\ ShardTypeOK(Message)'
         /\ job' \in [Worker -> [Shard -> Job]] /\ ListsOK'
  <1> DEFINE trades == job[w][s].trades
             nacks  == job[w][s].nacks
  <1>1. /\ job[w][s] \in Job
        /\ trades \in Seq(Message) /\ nacks \in Seq(Message)
        /\ Kept(trades, stored) /\ Kept(nacks, stored)
        /\ FirstCall(trades) \in Seq(Message) /\ Kept(FirstCall(trades), stored)
        /\ AfterCall(trades) \in Seq(Message) /\ Kept(AfterCall(trades), stored)
    BY ListFacts
  <1>2. NewJob \in Job /\ Kept(NewJob.trades, stored) /\ Kept(NewJob.nacks, stored)
    BY DEF NewJob, Job, Kept
  <1>3. ASSUME NEW q \in Seq(Message), Kept(q, stored)
        PROVE  Elements(q) \subseteq Message /\ Elements(q) \cap Promised \subseteq stored
    BY <1>3, ElementsFinite DEF Elements, Kept
  <1>4. ASSUME UNCHANGED stored, NEW next \in Job,
               Kept(next.trades, stored), Kept(next.nacks, stored), Goto(w, s, next)
        PROVE  job' \in [Worker -> [Shard -> Job]] /\ ListsOK'
    BY <1>4 DEF Goto, TypeOK, ListsOK
  <1>5. ASSUME UNCHANGED stored, UNCHANGED job
        PROVE  job' \in [Worker -> [Shard -> Job]] /\ ListsOK'
    BY <1>5 DEF TypeOK, ListsOK
  <1>6. ASSUME NEW q \in Seq(Message), Kept(q, stored), UNCHANGED stored, NEW next \in Job,
               Kept(next.trades, stored), Kept(next.nacks, stored),
               Push(w, q, Goto(w, s, next))
        PROVE  /\ UNCHANGED shardVars
               /\ \E S \in SUBSET Message :
                    S \cap Promised \subseteq stored /\ sent' = sent \cup S
               /\ dropped' \subseteq Message /\ fails' \in Nat
               /\ ShardTypeOK(Message)'
               /\ job' \in [Worker -> [Shard -> Job]] /\ ListsOK'
    <2>1. CASE Len(q) <= Limit
      <3>1. PutRecords(q) /\ Goto(w, s, next) /\ StayAtRecord
        BY <1>6, <2>1 DEF Push
      <3>2. PICK lost \in SUBSET Elements(q) :
              /\ fails' = fails + Cardinality(lost)
              /\ dropped' = dropped \cup lost
              /\ sent' = sent \cup (Elements(q) \ lost)
        BY <3>1 DEF PutRecords
      <3>3. Elements(q) \subseteq Message /\ Cardinality(lost) \in Nat
        BY <1>6, ElementsFinite
      <3>4. dropped' \subseteq Message /\ fails' \in Nat
        BY <3>2, <3>3 DEF TypeOK
      <3>5. (Elements(q) \ lost) \in SUBSET Message /\ (Elements(q) \ lost) \cap Promised \subseteq stored
        BY <1>3, <1>6
      <3>6. UNCHANGED shardVars /\ ShardTypeOK(Message)'
        BY <3>1 DEF StayAtRecord, TypeOK, ShardTypeOK, shardVars, workerVars
      <3> QED
        BY <1>4, <1>6, <3>1, <3>2, <3>4, <3>5, <3>6
    <2>2. CASE Len(q) > Limit
      <3>1. Halt(w) /\ UNCHANGED <<sent, dropped, fails, job>>
        BY <1>6, <2>2, IngestionAssumption DEF Push
      <3>2. {} \in SUBSET Message /\ {} \cap Promised \subseteq stored /\ sent' = sent \cup {}
        BY <3>1
      <3>3. ShardTypeOK(Message)' /\ UNCHANGED shardVars
        BY <3>1, HaltType
      <3>4. job' \in [Worker -> [Shard -> Job]] /\ ListsOK'
        BY <1>5, <1>6, <3>1
      <3>5. dropped' \subseteq Message /\ fails' \in Nat
        BY <3>1 DEF TypeOK
      <3> QED
        BY <3>2, <3>3, <3>4, <3>5
    <2>3. Len(q) <= Limit \/ Len(q) > Limit
      BY <1>6, IngestionAssumption
    <2> QED
      BY <2>1, <2>2, <2>3
  <1>7. CASE PushTrades(w, s)
    <2> DEFINE next == [job[w][s] EXCEPT !.trades = AfterCall(trades)]
    <2>1. next = [trades |-> AfterCall(trades), nacks |-> nacks]
      BY <1>1 DEF Job
    <2>2. next \in Job /\ Kept(next.trades, stored) /\ Kept(next.nacks, stored)
      BY <1>1, <2>1 DEF Job
    <2>3. Push(w, FirstCall(trades), Goto(w, s, next)) /\ UNCHANGED stored
      BY <1>7 DEF PushTrades
    <2> HIDE DEF next, trades, nacks
    <2> QED
      BY <1>1, <1>6, <2>2, <2>3
  <1>8. CASE PushNacks(w, s)
    <2>1. Push(w, nacks, Goto(w, s, NewJob)) /\ UNCHANGED stored
      BY <1>8 DEF PushNacks
    <2> HIDE DEF trades, nacks
    <2> QED
      BY <1>1, <1>2, <1>6, <2>1
  <1>9. CASE FailPush(w, s)
    <2> DEFINE q == IF trades # <<>> THEN FirstCall(trades) ELSE nacks
    <2>1. q \in Seq(Message) /\ Kept(q, stored)
      BY <1>1
    <2>2. /\ sent' = sent \/ sent' = sent \cup Elements(q)
          /\ Halt(w) /\ UNCHANGED <<stored, job, dropped>> /\ fails' = fails + 1
      BY <1>9 DEF FailPush, Fail
    <2> HIDE DEF q
    <2>3. \E S \in SUBSET Message : S \cap Promised \subseteq stored /\ sent' = sent \cup S
      <3>1. CASE sent' = sent
        <4>1. sent' = sent \cup {}
          BY <3>1
        <4> QED
          BY <4>1
      <3>2. CASE sent' = sent \cup Elements(q)
        BY <1>3, <2>1, <3>2
      <3> QED
        BY <2>2, <3>1, <3>2
    <2> QED
      BY <1>5, <2>2, <2>3, HaltType DEF TypeOK
  <1> HIDE DEF trades, nacks
  <1> QED
    BY <1>6, <1>7, <1>8, <1>9 DEF PushTrades, PushNacks

LEMMA PushKeeps ==
  ASSUME IInv, NEW w \in Worker, NEW s \in Shard,
         PushTrades(w, s) \/ PushNacks(w, s) \/ FailPush(w, s)
  PROVE  IInv'
  <1>1. TypeOK /\ BatchOK /\ StoredOK /\ ListsOK
    BY DEF IInv
  <1>2. /\ UNCHANGED <<shardVars, stored>> /\ sent' \subseteq Message
        /\ dropped' \subseteq Message /\ fails' \in Nat
        /\ ShardTypeOK(Message)' /\ job' \in [Worker -> [Shard -> Job]] /\ ListsOK'
    BY <1>1, PushFacts DEF TypeOK
  <1>3. TypeOK'
    BY <1>1, <1>2 DEF TypeOK
  <1> QED
    BY <1>1, <1>2, <1>3, StayKeeps DEF IInv

LEMMA InvNext == IInv /\ [Next]_vars => IInv'
  <1> SUFFICES ASSUME IInv, [Next]_vars PROVE IInv'
    OBVIOUS
  <1>1. CASE UNCHANGED vars
    <2>1. TypeOK /\ BatchOK /\ StoredOK /\ ListsOK
      BY DEF IInv
    <2>2. TypeOK' /\ ListsOK'
      BY <1>1, <2>1 DEF TypeOK, ShardTypeOK, ListsOK, vars, shardVars, workerVars
    <2> QED
      BY <1>1, <2>1, <2>2, StayKeeps DEF IInv, vars
  <1>2. CASE Next
    BY <1>2, ReceiveKeeps, LeaseKeeps, FetchKeeps, RecordKeeps, PushKeeps, CheckpointKeeps,
       CrashKeeps, RestartKeeps DEF Next, WorkerStep, ProcessBatch
  <1> QED
    BY <1>1, <1>2

(* The invariant of the proofs holds in every reachable state. *)
THEOREM IngestionInvariance == Spec => []IInv
  <1> QED
    BY InvInit, InvNext, PTL DEF Spec

(* The lists, counters and the stream keep their types: each list is one of *)
(* messages, and the counters are counters.                                 *)
THEOREM IngestionTypeCorrect == Spec => []TypeOK
  <1>1. IInv => TypeOK
    BY DEF IInv
  <1> QED
    BY <1>1, IngestionInvariance, PTL

----------------------------------------------------------------------------
(* The refinement. *)

(* A step that leaves the three sets of the stage alone is a stutter. *)
LEMMA StepSilent ==
  ASSUME UNCHANGED <<stored, sent>>, Checkpointed' = Checkpointed
  PROVE  UNCHANGED Stage!vars
  BY DEF Stage!vars

(* What is checkpointed depends on the records up to the checkpoints. *)
LEMMA SameCheckpoints ==
  ASSUME TypeOK, StoredOK, UNCHANGED ckpt,
         \A s \in Shard : \A i \in 1..Len(log[s]) : log'[s][i] = log[s][i]
  PROVE  Checkpointed' = Checkpointed
  <1>1. ASSUME NEW s \in Shard, NEW i \in 1..ckpt[s] PROVE log'[s][i] = log[s][i]
    <2>1. i \in 1..Len(log[s])
      BY <1>1 DEF TypeOK, ShardTypeOK, StoredOK
    <2> QED
      BY <2>1
  <1> QED
    BY <1>1 DEF Checkpointed

(* Every step of ingestion is a step of StoreAndForward or a stutter. *)
LEMMA StepMaps ==
  ASSUME IInv, [Next]_vars
  PROVE  [Stage!Next]_Stage!vars
  <1>0. TypeOK /\ BatchOK /\ StoredOK /\ ListsOK
    BY DEF IInv
  <1>1. ASSUME UNCHANGED <<log, ckpt, stored, sent>> PROVE [Stage!Next]_Stage!vars
    BY <1>0, <1>1, SameCheckpoints, StepSilent
  <1>2. ASSUME NEW m \in Message, NEW s \in Shard, ReceiveMessage(m, s)
        PROVE  [Stage!Next]_Stage!vars
    <2>1. \A r \in Shard : \A i \in 1..Len(log[r]) : log'[r][i] = log[r][i]
      BY <1>0, <1>2 DEF ReceiveMessage, Put, TypeOK, ShardTypeOK
    <2>2. UNCHANGED <<ckpt, stored, sent>>
      BY <1>2 DEF ReceiveMessage, Put
    <2> QED
      BY <1>0, <2>1, <2>2, SameCheckpoints, StepSilent
  <1>3. ASSUME NEW w \in Worker, NEW s \in Shard, StoreRecord(w, s) \/ FailStore(w, s)
        PROVE  [Stage!Next]_Stage!vars
    <2> DEFINE r == Current(w, s)
    <2>1. /\ stored' = stored \/ stored' = stored \cup {r}
          /\ UNCHANGED <<log, ckpt, sent>>
      BY <1>0, <1>3, RecordFacts DEF Halt, NextRecord, shardVars
    <2>2. Checkpointed' = Checkpointed
      BY <1>0, <2>1, SameCheckpoints
    <2> HIDE DEF r
    <2>3. CASE stored' \cap Promised = stored \cap Promised
      BY <2>1, <2>2, <2>3 DEF Stage!vars
    <2>4. CASE stored' \cap Promised # stored \cap Promised
      <3>1. r \in Promised /\ stored' = stored \cup {r}
        BY <2>1, <2>4
      <3>2. Stage!Keep(r)
        BY <2>1, <2>2, <3>1 DEF Stage!Keep
      <3> QED
        BY <3>1, <3>2 DEF Stage!Next
    <2> QED
      BY <2>3, <2>4
  <1>4. ASSUME NEW w \in Worker, NEW s \in Shard,
               PushTrades(w, s) \/ PushNacks(w, s) \/ FailPush(w, s)
        PROVE  [Stage!Next]_Stage!vars
    <2>1. UNCHANGED <<shardVars, stored>>
      BY <1>0, <1>4, PushFacts
    <2>2. PICK S \in SUBSET Message : S \cap Promised \subseteq stored /\ sent' = sent \cup S
      BY <1>0, <1>4, PushFacts
    <2>3. Checkpointed' = Checkpointed
      BY <1>0, <2>1, SameCheckpoints DEF shardVars
    <2>4. Stage!Send(S \cap Promised)
      BY <2>1, <2>2, <2>3 DEF Stage!Send
    <2>5. S \cap Promised \in SUBSET Promised
      OBVIOUS
    <2> QED
      BY <2>4, <2>5 DEF Stage!Next
  <1>5. ASSUME NEW w \in Worker, NEW s \in Shard, Checkpoint(w, s)
        PROVE  [Stage!Next]_Stage!vars
    <2>1. UNCHANGED <<log, stored, sent>> /\ Finished(w, s)
      BY <1>5 DEF Checkpoint, CheckpointBatch, Rest, Halt, shardVars
    <2>2. CASE owner[s] # w
      BY <1>1, <1>5, <2>1, <2>2 DEF Checkpoint, CheckpointBatch, Halt, shardVars
    <2>3. CASE owner[s] = w
      <3> DEFINE S == {log[s][i] : i \in 1..batch[w][s].end} \cap Promised
      <3>1. /\ batch[w][s].end \in Nat /\ ckpt[s] \in Nat /\ ckpt[s] <= batch[w][s].end
            /\ StoredUpTo(s, batch[w][s].end)
        BY <1>0, <2>1, <2>3, CheckpointFacts
      <3>2. \A r \in Shard : ckpt'[r] = IF r = s THEN batch[w][s].end ELSE ckpt[r]
        BY <1>0, <1>5, <2>3 DEF Checkpoint, CheckpointBatch, TypeOK, ShardTypeOK
      <3>3. Checkpointed' = Checkpointed \cup {log[s][i] : i \in 1..batch[w][s].end}
        BY <2>1, <3>1, <3>2 DEF Checkpointed
      <3>4. Stage!Take(S)
        BY <2>1, <3>1, <3>3 DEF Stage!Take, StoredUpTo
      <3>5. S \in SUBSET Promised
        OBVIOUS
      <3> QED
        BY <3>4, <3>5 DEF Stage!Next
    <2> QED
      BY <2>2, <2>3
  <1>6. ASSUME NEW w \in Worker, Crash(w) \/ Restart(w)
        PROVE  [Stage!Next]_Stage!vars
    BY <1>1, <1>6 DEF Crash, CrashWorker, Rest, Restart, RestartWorker, shardVars
  <1>7. ASSUME NEW w \in Worker, NEW s \in Shard, Take(w, s) \/ Steal(w, s) \/ Fetch(w, s)
        PROVE  [Stage!Next]_Stage!vars
    BY <1>1, <1>7 DEF Take, TakeLease, Steal, StealLease, Fetch, FetchBatch, Rest
  <1>8. CASE UNCHANGED vars
    BY <1>1, <1>8 DEF vars, shardVars
  <1> QED
    BY <1>2, <1>3, <1>4, <1>5, <1>6, <1>7, <1>8 DEF Next, WorkerStep, ProcessBatch

(* What ingestion sends on, and what its checkpoints pass, is stored by     *)
(* then, in every interleaving of crashes, failed calls and stale threads.  *)
THEOREM IngestionImplementsStage == Spec => ImplementsStage
  <1>1. Init => Stage!Init
    <2>1. Init => Checkpointed = {}
      BY DEF Init, ShardInit, Checkpointed
    <2> QED
      BY <2>1 DEF Init, Stage!Init
  <1>2. IInv /\ [Next]_vars => [Stage!Next]_Stage!vars
    BY StepMaps
  <1> QED
    BY <1>1, <1>2, IngestionInvariance, PTL DEF Spec, ImplementsStage, Stage!Spec

----------------------------------------------------------------------------
(* How much is lost.  What a thread has passed of its shard is gone to a    *)
(* stream, waits in one of its lists, or is at one of the positions S that  *)
(* the calls skipped; and there are few of those, counted against the       *)
(* records passed that are no longer in the list.  (p has the positions of  *)
(* the list, by which a message that is on the shard twice counts twice.)   *)
Accounted(shard, n, trades, gone, S, p) ==
  /\ \A k \in DOMAIN trades : trades[k] = shard[p[k]]
  /\ \A i \in 1..n : i \in S \/ shard[i] \in gone \/ \E k \in DOMAIN trades : p[k] = i
  /\ Limit * Cardinality(S) + Len(trades) <= n

FewSkipped(shard, n, trades, gone) ==
  \E S \in SUBSET (1..n) : \E p \in [DOMAIN trades -> 1..n] : Accounted(shard, n, trades, gone, S, p)

Gone(w, s) == sent \cup dropped \cup Elements(job[w][s].nacks)

ThreadLoss(w, s) ==
  IF Idle(w, s) THEN job[w][s] = NewJob
  ELSE FewSkipped(log[s], batch[w][s].pos - 1, job[w][s].trades, Gone(w, s))

LossInv ==
  /\ LossBound
  /\ \A w \in Worker, s \in Shard : ThreadLoss(w, s)

(* Positions are finitely many. *)
LEMMA PositionsFinite ==
  ASSUME NEW n \in Nat, NEW S \in SUBSET (1..n)
  PROVE  IsFiniteSet(S) /\ Cardinality(S) \in Nat
  <1>1. IsFiniteSet(1..n)
    <2>1. 1 \in Int /\ n \in Int
      OBVIOUS
    <2> QED
      BY <2>1, FS_Interval
  <1>2. IsFiniteSet(S)
    BY <1>1, FS_Subset
  <1> QED
    BY <1>2, FS_CardinalityType

(* More may be gone, and the shard may be longer. *)
LEMMA SkippedStays ==
  ASSUME NEW n \in Nat, NEW shard, NEW longer, \A i \in 1..n : longer[i] = shard[i],
         NEW trades \in Seq(Message), NEW gone, NEW more, gone \subseteq more,
         FewSkipped(shard, n, trades, gone)
  PROVE  FewSkipped(longer, n, trades, more)
  <1> PICK S \in SUBSET (1..n) : \E p \in [DOMAIN trades -> 1..n] :
             Accounted(shard, n, trades, gone, S, p)
    BY DEF FewSkipped
  <1> PICK p \in [DOMAIN trades -> 1..n] : Accounted(shard, n, trades, gone, S, p)
    OBVIOUS
  <1>1. Accounted(longer, n, trades, more, S, p)
    BY DEF Accounted
  <1> QED
    BY <1>1 DEF FewSkipped

(* A trade that is passed joins the list. *)
LEMMA SkippedTrade ==
  ASSUME NEW n \in Nat, NEW shard, NEW trades \in Seq(Message), shard[n + 1] \in Message,
         NEW gone, FewSkipped(shard, n, trades, gone)
  PROVE  FewSkipped(shard, n + 1, Append(trades, shard[n + 1]), gone)
  <1> PICK S \in SUBSET (1..n) : \E p \in [DOMAIN trades -> 1..n] :
             Accounted(shard, n, trades, gone, S, p)
    BY DEF FewSkipped
  <1> PICK p \in [DOMAIN trades -> 1..n] : Accounted(shard, n, trades, gone, S, p)
    OBVIOUS
  <1> DEFINE m == Len(trades)
             more == Append(trades, shard[n + 1])
             q == [k \in 1..(m + 1) |-> IF k = m + 1 THEN n + 1 ELSE p[k]]
  <1>1. /\ m \in Nat /\ DOMAIN trades = 1..m /\ DOMAIN more = 1..(m + 1) /\ Len(more) = m + 1
        /\ more[m + 1] = shard[n + 1] /\ \A k \in 1..m : more[k] = trades[k]
    OBVIOUS
  <1>2. Cardinality(S) \in Nat
    BY PositionsFinite
  <1> HIDE DEF m, more
  <1>3. q \in [DOMAIN more -> 1..(n + 1)]
    BY <1>1
  <1>4. Accounted(shard, n + 1, more, gone, S, q)
    <2>1. \A k \in DOMAIN more : more[k] = shard[q[k]]
      <3>1. ASSUME NEW k \in 1..m PROVE more[k] = shard[q[k]]
        <4>1. k \in 1..(m + 1) /\ k # m + 1
          BY <1>1
        <4>2. q[k] = p[k]
          BY <4>1
        <4>3. trades[k] = shard[p[k]]
          BY <1>1 DEF Accounted
        <4> QED
          BY <1>1, <4>2, <4>3
      <3>2. m + 1 \in 1..(m + 1) /\ q[m + 1] = n + 1
        BY <1>1
      <3>3. \A k \in 1..(m + 1) : k = m + 1 \/ k \in 1..m
        BY <1>1
      <3> HIDE DEF q
      <3> QED
        BY <1>1, <3>1, <3>2, <3>3
    <2>2. ASSUME NEW i \in 1..(n + 1)
          PROVE  i \in S \/ shard[i] \in gone \/ \E k \in DOMAIN more : q[k] = i
      <3>1. CASE i = n + 1
        <4>1. m + 1 \in DOMAIN more /\ q[m + 1] = i
          BY <1>1, <3>1
        <4> QED
          BY <4>1
      <3>2. CASE i \in 1..n
        <4>1. \A k \in DOMAIN trades : k \in DOMAIN more /\ q[k] = p[k]
          BY <1>1
        <4> QED
          BY <3>2, <4>1 DEF Accounted
      <3>3. i = n + 1 \/ i \in 1..n
        OBVIOUS
      <3> QED
        BY <3>1, <3>2, <3>3
    <2>3. Limit * Cardinality(S) + Len(more) <= n + 1
      <3>1. Limit * Cardinality(S) \in Nat
        BY <1>2, IngestionAssumption
      <3> QED
        BY <1>1, <3>1 DEF Accounted, m
    <2> QED
      BY <2>1, <2>2, <2>3 DEF Accounted
  <1>5. S \in SUBSET (1..(n + 1))
    OBVIOUS
  <1> HIDE DEF q
  <1>6. FewSkipped(shard, n + 1, more, gone)
    BY <1>3, <1>4, <1>5 DEF FewSkipped
  <1> QED
    BY <1>6 DEF more

(* A NACK that is passed is among the NACKs. *)
LEMMA SkippedNack ==
  ASSUME NEW n \in Nat, NEW shard, NEW trades \in Seq(Message), NEW gone, NEW more,
         gone \subseteq more, shard[n + 1] \in more, FewSkipped(shard, n, trades, gone)
  PROVE  FewSkipped(shard, n + 1, trades, more)
  <1> PICK S \in SUBSET (1..n) : \E p \in [DOMAIN trades -> 1..n] :
             Accounted(shard, n, trades, gone, S, p)
    BY DEF FewSkipped
  <1> PICK p \in [DOMAIN trades -> 1..n] : Accounted(shard, n, trades, gone, S, p)
    OBVIOUS
  <1>1. S \in SUBSET (1..(n + 1)) /\ p \in [DOMAIN trades -> 1..(n + 1)] /\ Cardinality(S) \in Nat
    <2>1. Cardinality(S) \in Nat
      BY PositionsFinite
    <2>2. \A i \in 1..n : i \in 1..(n + 1)
      OBVIOUS
    <2> QED
      BY <2>1, <2>2
  <1>2. \A i \in 1..(n + 1) : i \in 1..n \/ i = n + 1
    OBVIOUS
  <1>3. Limit * Cardinality(S) + Len(trades) <= n + 1
    <2>1. Limit * Cardinality(S) \in Nat
      BY <1>1, IngestionAssumption
    <2> QED
      BY <2>1 DEF Accounted
  <1>4. Accounted(shard, n + 1, trades, more, S, p)
    BY <1>2, <1>3 DEF Accounted
  <1> QED
    BY <1>1, <1>4 DEF FewSkipped

(* A call takes Limit trades off the list and skips one of them. *)
LEMMA SkippedCall ==
  ASSUME NEW n \in Nat, NEW shard, NEW trades \in Seq(Message), NEW gone, NEW more,
         gone \subseteq more, Elements(FirstCall(trades)) \subseteq more,
         FewSkipped(shard, n, trades, gone)
  PROVE  FewSkipped(shard, n, AfterCall(trades), more)
  <1> PICK S \in SUBSET (1..n) : \E p \in [DOMAIN trades -> 1..n] :
             Accounted(shard, n, trades, gone, S, p)
    BY DEF FewSkipped
  <1> PICK p \in [DOMAIN trades -> 1..n] : Accounted(shard, n, trades, gone, S, p)
    OBVIOUS
  <1> DEFINE m == Len(trades)
  <1>1. /\ m \in Nat /\ DOMAIN trades = 1..m /\ Limit \in Nat /\ Limit > 1
        /\ \A k \in 1..m : trades[k] \in Message
    BY IngestionAssumption
  <1>2. IsFiniteSet(S) /\ Cardinality(S) \in Nat
    BY PositionsFinite
  <1>3. Limit * Cardinality(S) \in Nat /\ Limit * Cardinality(S) + m <= n
    BY <1>1, <1>2 DEF Accounted
  <1>4. CASE m < Limit
    <2>1. FirstCall(trades) = trades
      BY <1>4, SubSeqFull DEF FirstCall
    <2>2. AfterCall(trades) = <<>>
      BY <1>1, <1>4, SubSeqEmpty DEF AfterCall
    <2>3. \A k \in DOMAIN trades : trades[k] \in more
      BY <2>1 DEF Elements
    <2> DEFINE q == [k \in {} |-> 1]
    <2>4. DOMAIN <<>> = {} /\ Len(<<>>) = 0 /\ q \in [{} -> 1..n]
      OBVIOUS
    <2>5. Accounted(shard, n, <<>>, more, S, q)
      <3>1. \A i \in 1..n : i \in S \/ shard[i] \in more
        BY <2>3 DEF Accounted
      <3>2. Limit * Cardinality(S) + 0 <= n
        BY <1>1, <1>3
      <3> QED
        BY <2>4, <3>1, <3>2 DEF Accounted
    <2> QED
      BY <2>2, <2>4, <2>5 DEF FewSkipped
  <1>5. CASE m >= Limit
    <2> DEFINE first == FirstCall(trades)
               rest == AfterCall(trades)
               x == p[Limit]
               T == S \cup {x}
               q == [k \in 1..(m - Limit) |-> p[k + Limit]]
    <2>1. /\ Len(first) = Limit - 1 /\ DOMAIN first = 1..(Limit - 1)
          /\ \A k \in 1..(Limit - 1) : first[k] = trades[k]
      <3>1. first = SubSeq(trades, 1, Limit - 1)
        BY <1>1, <1>5 DEF FirstCall
      <3>2. \A k \in 1..(Limit - 1) : trades[k] \in Message
        BY <1>1, <1>5
      <3>3. /\ SubSeq(trades, 1, Limit - 1) \in Seq(Message)
            /\ Len(SubSeq(trades, 1, Limit - 1)) = Limit - 1
            /\ \A k \in 1..(Limit - 1) : SubSeq(trades, 1, Limit - 1)[k] = trades[1 + k - 1]
        BY <1>1, <3>2, SubSeqProperties
      <3>4. \A k \in 1..(Limit - 1) : 1 + k - 1 = k
        BY <1>1
      <3> HIDE DEF first
      <3> QED
        BY <3>1, <3>3, <3>4
    <2>2. /\ Len(rest) = m - Limit /\ DOMAIN rest = 1..(m - Limit)
          /\ \A k \in 1..(m - Limit) : rest[k] = trades[k + Limit]
      <3>1. \A k \in (Limit + 1)..m : trades[k] \in Message
        BY <1>1
      <3>2. /\ SubSeq(trades, Limit + 1, m) \in Seq(Message)
            /\ Len(SubSeq(trades, Limit + 1, m)) = IF Limit + 1 <= m THEN m - (Limit + 1) + 1 ELSE 0
            /\ \A k \in 1..(m - (Limit + 1) + 1) : SubSeq(trades, Limit + 1, m)[k] = trades[Limit + 1 + k - 1]
        BY <1>1, <3>1, SubSeqProperties
      <3>3. /\ m - (Limit + 1) + 1 = m - Limit /\ (IF Limit + 1 <= m THEN m - (Limit + 1) + 1 ELSE 0) = m - Limit
            /\ \A k \in 1..(m - Limit) : Limit + 1 + k - 1 = k + Limit
        <4> HIDE DEF m
        <4> QED
          BY <1>1, <1>5
      <3>4. rest = SubSeq(trades, Limit + 1, m)
        BY DEF AfterCall
      <3> HIDE DEF rest, m
      <3> QED
        BY <3>2, <3>3, <3>4
    <2>3. x \in 1..n /\ Limit \in 1..m
      BY <1>1, <1>5
    <2>4. T \in SUBSET (1..n) /\ Cardinality(T) \in Nat /\ Cardinality(T) <= Cardinality(S) + 1
      <3> HIDE DEF x
      <3>1. Cardinality(T) = IF x \in S THEN Cardinality(S) ELSE Cardinality(S) + 1
        BY <1>2, FS_AddElement
      <3> QED
        BY <1>2, <2>3, <3>1
    <2>5. q \in [DOMAIN rest -> 1..n]
      <3>1. \A k \in 1..(m - Limit) : k + Limit \in DOMAIN trades
        BY <1>1, <1>5
      <3> QED
        BY <2>2, <3>1
    <2>6. Accounted(shard, n, rest, more, T, q)
      <3>1. \A k \in DOMAIN rest : rest[k] = shard[q[k]]
        <4>1. \A k \in 1..(m - Limit) : k + Limit \in DOMAIN trades
          BY <1>1, <1>5
        <4> QED
          BY <2>2, <4>1 DEF Accounted
      <3>2. ASSUME NEW i \in 1..n, i \notin T, shard[i] \notin more
            PROVE  \E k \in DOMAIN rest : q[k] = i
        <4>1. PICK k \in 1..m : p[k] = i
          BY <1>1, <3>2 DEF Accounted
        <4>2. trades[k] = shard[i]
          BY <1>1, <4>1 DEF Accounted
        <4>3. ~(k \in 1..(Limit - 1))
          BY <2>1, <3>2, <4>2 DEF Elements
        <4>4. k # Limit
          BY <3>2, <4>1
        <4>5. k - Limit \in 1..(m - Limit) /\ (k - Limit) + Limit = k
          BY <1>1, <1>5, <4>3, <4>4
        <4>6. q[k - Limit] = i
          BY <4>1, <4>5
        <4> QED
          BY <2>2, <4>5, <4>6
      <3>3. Limit * Cardinality(T) + Len(rest) <= n
        <4>1. Limit * Cardinality(T) <= Limit * (Cardinality(S) + 1)
          BY <1>1, <1>2, <2>4, SMTT(30)
        <4>2. Limit * (Cardinality(S) + 1) = Limit * Cardinality(S) + Limit
          BY <1>1, <1>2, SMTT(30)
        <4>3. Limit * Cardinality(T) \in Nat
          BY <1>1, <2>4
        <4> HIDE DEF T, m, rest
        <4> QED
          BY <1>1, <1>3, <1>5, <2>2, <4>1, <4>2, <4>3
      <3> QED
        BY <3>1, <3>2, <3>3 DEF Accounted
    <2> HIDE DEF q, T, x
    <2> QED
      BY <2>4, <2>5, <2>6 DEF FewSkipped
  <1> QED
    BY <1>1, <1>4, <1>5

(* The bound of a whole shard is that of a thread with an empty list. *)
LEMMA SkippedBound ==
  ASSUME NEW n \in Nat, NEW shard, NEW gone
  PROVE  FewSkipped(shard, n, <<>>, gone)
           <=> Limit * Cardinality({i \in 1..n : shard[i] \notin gone}) <= n
  <1> DEFINE M == {i \in 1..n : shard[i] \notin gone}
  <1>1. /\ M \in SUBSET (1..n) /\ IsFiniteSet(M) /\ Cardinality(M) \in Nat /\ Limit \in Nat
        /\ DOMAIN <<>> = {} /\ Len(<<>>) = 0
    <2>1. M \in SUBSET (1..n)
      OBVIOUS
    <2>2. IsFiniteSet(M) /\ Cardinality(M) \in Nat
      <3> HIDE DEF M
      <3> QED
        BY <2>1, PositionsFinite
    <2> QED
      BY <2>1, <2>2, IngestionAssumption
  <1>2. ASSUME FewSkipped(shard, n, <<>>, gone) PROVE Limit * Cardinality(M) <= n
    <2> PICK S \in SUBSET (1..n) : \E p \in [DOMAIN <<>> -> 1..n] :
               Accounted(shard, n, <<>>, gone, S, p)
      BY <1>2 DEF FewSkipped
    <2>1. /\ \A i \in 1..n : i \in S \/ shard[i] \in gone
          /\ Limit * Cardinality(S) + Len(<<>>) <= n
      BY <1>1 DEF Accounted
    <2>2. IsFiniteSet(S) /\ Cardinality(S) \in Nat
      BY PositionsFinite
    <2>3. M \in SUBSET S
      BY <2>1
    <2>4. Cardinality(M) <= Cardinality(S)
      BY <2>2, <2>3, FS_Subset
    <2>5. Limit * Cardinality(M) <= Limit * Cardinality(S)
      <3> HIDE DEF M
      <3> QED
        BY <1>1, <2>2, <2>4, SMTT(30)
    <2>6. Limit * Cardinality(M) \in Nat /\ Limit * Cardinality(S) \in Nat
      BY <1>1, <2>2
    <2> HIDE DEF M
    <2> QED
      BY <1>1, <2>1, <2>5, <2>6
  <1>3. ASSUME Limit * Cardinality(M) <= n PROVE FewSkipped(shard, n, <<>>, gone)
    <2> DEFINE q == [k \in {} |-> 1]
    <2>1. q \in [DOMAIN <<>> -> 1..n]
      BY <1>1
    <2>2. Limit * Cardinality(M) + Len(<<>>) <= n
      <3>1. Limit * Cardinality(M) \in Nat
        BY <1>1
      <3> HIDE DEF M
      <3> QED
        BY <1>1, <1>3, <3>1
    <2>3. Accounted(shard, n, <<>>, gone, M, q)
      BY <1>1, <2>2 DEF Accounted
    <2> QED
      BY <1>1, <2>1, <2>3 DEF FewSkipped
  <1> QED
    BY <1>2, <1>3

(* The types by which the positions are positions. *)
LEMMA LossTypes ==
  ASSUME IInv
  PROVE  /\ \A s \in Shard : /\ log[s] \in Seq(Message) /\ Len(log[s]) \in Nat
                             /\ ckpt[s] \in Nat /\ ckpt[s] <= Len(log[s])
         /\ \A w \in Worker, s \in Shard :
              /\ batch[w][s].pos \in Nat /\ batch[w][s].end \in Nat
              /\ job[w][s] \in Job
              /\ job[w][s].trades \in Seq(Message) /\ job[w][s].nacks \in Seq(Message)
              /\ ~Idle(w, s) => /\ batch[w][s].pos - 1 \in Nat
                                /\ batch[w][s].pos <= batch[w][s].end + 1
                                /\ batch[w][s].end <= Len(log[s])
  <1>1. TypeOK /\ BatchOK /\ StoredOK /\ ListsOK
    BY DEF IInv
  <1>2. ASSUME NEW s \in Shard
        PROVE  /\ log[s] \in Seq(Message) /\ Len(log[s]) \in Nat
               /\ ckpt[s] \in Nat /\ ckpt[s] <= Len(log[s])
    BY <1>1 DEF TypeOK, ShardTypeOK, StoredOK
  <1>3. ASSUME NEW w \in Worker, NEW s \in Shard
        PROVE  /\ batch[w][s].pos \in Nat /\ batch[w][s].end \in Nat
               /\ job[w][s] \in Job
               /\ job[w][s].trades \in Seq(Message) /\ job[w][s].nacks \in Seq(Message)
    BY <1>1, ListFacts DEF TypeOK, ShardTypeOK
  <1>4. ASSUME NEW w \in Worker, NEW s \in Shard, ~Idle(w, s)
        PROVE  /\ batch[w][s].pos - 1 \in Nat
               /\ batch[w][s].pos <= batch[w][s].end + 1 /\ batch[w][s].end <= Len(log[s])
    <2>1. batch[w][s].pos \in Nat /\ batch[w][s].pos # 0
      BY <1>3, <1>4 DEF Idle
    <2> QED
      BY <1>1, <1>4, <2>1 DEF BatchOK
  <1> QED
    BY <1>2, <1>3, <1>4

(* A step that checkpoints nothing: more may be gone or on the shards, and  *)
(* each thread stays as it is or is said to be in order.                    *)
LEMMA LossStays ==
  ASSUME IInv, LossInv, sent \cup dropped \subseteq sent' \cup dropped', ckpt' = ckpt,
         \A s \in Shard : \A i \in 1..Len(log[s]) : log'[s][i] = log[s][i],
         \A w \in Worker, s \in Shard :
            \/ batch'[w][s] = batch[w][s] /\ job'[w][s] = job[w][s]
            \/ ThreadLoss(w, s)'
  PROVE  LossInv'
  <1>1. ASSUME NEW s \in Shard
        PROVE  Limit * Cardinality({i \in 1..ckpt[s] : log'[s][i] \notin sent' \cup dropped'}) <= ckpt[s]
    <2>1. ckpt[s] \in Nat /\ ckpt[s] <= Len(log[s]) /\ Len(log[s]) \in Nat
      BY LossTypes
    <2>2. \A i \in 1..ckpt[s] : log'[s][i] = log[s][i]
      BY <2>1
    <2>3. FewSkipped(log[s], ckpt[s], <<>>, sent \cup dropped)
      BY <2>1, SkippedBound DEF LossInv, ThreadLoss, LossBound
    <2>4. <<>> \in Seq(Message)
      OBVIOUS
    <2>5. FewSkipped(log'[s], ckpt[s], <<>>, sent' \cup dropped')
      BY <2>1, <2>2, <2>3, <2>4, SkippedStays
    <2> QED
      BY <2>1, <2>5, SkippedBound
  <1>2. ASSUME NEW w \in Worker, NEW s \in Shard PROVE ThreadLoss(w, s)'
    <2>1. CASE batch'[w][s] = batch[w][s] /\ job'[w][s] = job[w][s]
      <3>1. ThreadLoss(w, s)
        BY DEF LossInv, ThreadLoss
      <3>2. CASE Idle(w, s)
        <4>1. job[w][s] = NewJob
          BY <3>1, <3>2 DEF ThreadLoss
        <4>2. Idle(w, s)'
          BY <2>1, <3>2 DEF Idle
        <4> QED
          BY <2>1, <4>1, <4>2 DEF ThreadLoss
      <3>3. CASE ~Idle(w, s)
        <4> DEFINE n == batch[w][s].pos - 1
        <4>1. /\ n \in Nat /\ job[w][s].trades \in Seq(Message)
              /\ \A i \in 1..n : log'[s][i] = log[s][i]
          <5>1. /\ n \in Nat /\ n <= Len(log[s]) /\ Len(log[s]) \in Nat
                /\ job[w][s].trades \in Seq(Message)
            <6>1. /\ batch[w][s].pos \in Nat /\ batch[w][s].pos - 1 \in Nat
                  /\ batch[w][s].end \in Nat /\ Len(log[s]) \in Nat
                  /\ batch[w][s].pos <= batch[w][s].end + 1 /\ batch[w][s].end <= Len(log[s])
                  /\ job[w][s].trades \in Seq(Message)
              BY <3>3, LossTypes
            <6> QED
              BY <6>1
          <5> HIDE DEF n
          <5>2. ASSUME NEW i \in 1..n PROVE log'[s][i] = log[s][i]
            <6>1. i \in 1..Len(log[s])
              BY <5>1
            <6> QED
              BY <6>1
          <5> QED
            BY <5>1, <5>2
        <4>2. Gone(w, s) \subseteq Gone(w, s)'
          BY <2>1 DEF Gone
        <4>3. FewSkipped(log[s], n, job[w][s].trades, Gone(w, s))
          BY <3>1, <3>3 DEF ThreadLoss
        <4> HIDE DEF n
        <4>4. FewSkipped(log'[s], n, job[w][s].trades, Gone(w, s)')
          BY <4>1, <4>2, <4>3, SkippedStays
        <4>5. ~Idle(w, s)'
          BY <2>1, <3>3 DEF Idle
        <4>6. n = batch'[w][s].pos - 1 /\ job'[w][s] = job[w][s]
          BY <2>1 DEF n
        <4>7. FewSkipped(log'[s], batch'[w][s].pos - 1, job'[w][s].trades, Gone(w, s)')
          BY <4>4, <4>6
        <4> QED
          BY <4>5, <4>7 DEF ThreadLoss
      <3> QED
        BY <3>2, <3>3
    <2>2. CASE ThreadLoss(w, s)'
      BY <2>2
    <2> QED
      BY <2>1, <2>2
  <1> QED
    BY <1>1, <1>2 DEF LossInv, LossBound, ThreadLoss

(* Nothing that counts changes. *)
LEMMA LossSame ==
  ASSUME IInv, LossInv, UNCHANGED <<ckpt, log, batch, job>>,
         sent \cup dropped \subseteq sent' \cup dropped'
  PROVE  LossInv'
  BY LossStays

LEMMA LossReceive ==
  ASSUME IInv, LossInv, NEW m \in Message, NEW s \in Shard, ReceiveMessage(m, s)
  PROVE  LossInv'
  <1>1. /\ log' = [log EXCEPT ![s] = Append(@, m)]
        /\ UNCHANGED <<ckpt, batch, job, sent, dropped>>
    BY DEF ReceiveMessage, Put
  <1>2. log \in [Shard -> Seq(Message)]
    BY DEF IInv, TypeOK, ShardTypeOK
  <1>3. ASSUME NEW z \in Shard, NEW i \in 1..Len(log[z]) PROVE log'[z][i] = log[z][i]
    BY <1>1, <1>2
  <1> QED
    BY <1>1, <1>3, LossStays

LEMMA LossFetch ==
  ASSUME IInv, LossInv, NEW w \in Worker, NEW s \in Shard, Fetch(w, s)
  PROVE  LossInv'
  <1>1. /\ Idle(w, s) /\ UNCHANGED <<log, ckpt, job, sent, dropped>>
        /\ \E e \in (ckpt[s] + 1)..Len(log[s]) :
              batch' = [batch EXCEPT ![w][s] = [pos |-> ckpt[s] + 1, end |-> e]]
    BY DEF Fetch, FetchBatch, Rest
  <1>2. PICK e \in (ckpt[s] + 1)..Len(log[s]) :
              batch' = [batch EXCEPT ![w][s] = [pos |-> ckpt[s] + 1, end |-> e]]
    BY <1>1
  <1>3. batch \in [Worker -> [Shard -> [pos : Nat, end : Nat]]]
    BY DEF IInv, TypeOK, ShardTypeOK
  <1>4. /\ batch'[w][s] = [pos |-> ckpt[s] + 1, end |-> e]
        /\ \A x \in Worker, z \in Shard : ~(x = w /\ z = s) => batch'[x][z] = batch[x][z]
    BY <1>2, <1>3
  <1>5. ckpt[s] \in Nat
    BY LossTypes
  <1>6. ~Idle(w, s)' /\ batch'[w][s].pos - 1 = ckpt[s]
    BY <1>4, <1>5 DEF Idle
  <1>7. job'[w][s] = NewJob
    BY <1>1 DEF LossInv, ThreadLoss
  <1>8. job'[w][s].trades = <<>> /\ Gone(w, s)' = sent \cup dropped
    <2>1. Elements(<<>>) = {}
      BY DEF Elements
    <2> QED
      BY <1>1, <1>7, <2>1 DEF Gone, NewJob
  <1>9. FewSkipped(log[s], ckpt[s], <<>>, sent \cup dropped)
    BY <1>5, SkippedBound DEF LossInv, ThreadLoss, LossBound
  <1>10. ThreadLoss(w, s)'
    BY <1>1, <1>6, <1>8, <1>9 DEF ThreadLoss
  <1> QED
    BY <1>1, <1>4, <1>10, LossStays

LEMMA LossRecord ==
  ASSUME IInv, LossInv, NEW w \in Worker, NEW s \in Shard, StoreRecord(w, s) \/ FailStore(w, s)
  PROVE  LossInv'
  <1>1. TypeOK /\ BatchOK
    BY DEF IInv
  <1> PICK r : r = Current(w, s)
    OBVIOUS
  <1>2. /\ Working(w, s) /\ r \in Message /\ UNCHANGED <<sent, dropped>>
        /\ \/ Halt(w) /\ UNCHANGED job
           \/ Collect(w, s, r) /\ NextRecord(w, s)
    BY <1>1, RecordFacts
  <1>3. CASE Halt(w) /\ UNCHANGED job
    BY <1>2, <1>3, LossSame DEF Halt, shardVars
  <1>4. CASE Collect(w, s, r) /\ NextRecord(w, s)
    <2> DEFINE n == batch[w][s].pos - 1
               b == [pos |-> batch[w][s].pos + 1, end |-> batch[w][s].end]
               trades == job[w][s].trades
               nacks == job[w][s].nacks
               next == IF r \in Valid THEN [job[w][s] EXCEPT !.trades = Append(@, r)]
                                      ELSE [job[w][s] EXCEPT !.nacks = Append(@, r)]
    <2>1. UNCHANGED <<log, ckpt>> /\ batch' = [batch EXCEPT ![w][s] = b]
      BY <1>4 DEF NextRecord
    <2>2. job' = [job EXCEPT ![w][s] = next]
      BY <1>4 DEF Collect, Goto
    <2>3. ~Idle(w, s) /\ r = log[s][batch[w][s].pos]
      BY <1>2 DEF Working, Current
    <2>4. /\ batch[w][s].pos \in Nat /\ n \in Nat /\ n + 1 = batch[w][s].pos
          /\ job[w][s] \in Job /\ trades \in Seq(Message) /\ nacks \in Seq(Message)
      BY <2>3, LossTypes
    <2>5. FewSkipped(log[s], n, trades, Gone(w, s))
      BY <2>3 DEF LossInv, ThreadLoss
    <2>6. /\ batch \in [Worker -> [Shard -> [pos : Nat, end : Nat]]]
          /\ job \in [Worker -> [Shard -> Job]]
      BY <1>1 DEF TypeOK, ShardTypeOK
    <2> HIDE DEF b, next
    <2>7. /\ batch'[w][s] = b /\ job'[w][s] = next
          /\ \A x \in Worker, z \in Shard : ~(x = w /\ z = s) =>
               batch'[x][z] = batch[x][z] /\ job'[x][z] = job[x][z]
      BY <2>1, <2>2, <2>6
    <2>8. ~Idle(w, s)' /\ batch'[w][s].pos - 1 = n + 1
      BY <2>4, <2>7 DEF Idle, b
    <2> HIDE DEF n
    <2>9. log[s][n + 1] = r
      BY <2>3, <2>4
    <2>10. ThreadLoss(w, s)'
      <3>1. CASE r \in Valid
        <4>1. next.trades = Append(trades, r) /\ next.nacks = nacks
          BY <2>4, <3>1 DEF next, Job
        <4>2. Gone(w, s)' = Gone(w, s)
          BY <1>2, <2>7, <4>1 DEF Gone
        <4>3. FewSkipped(log[s], n + 1, Append(trades, r), Gone(w, s))
          BY <1>2, <2>4, <2>5, <2>9, SkippedTrade
        <4> QED
          BY <2>1, <2>7, <2>8, <4>1, <4>2, <4>3 DEF ThreadLoss
      <3>2. CASE r \notin Valid
        <4>1. next.trades = trades /\ next.nacks = Append(nacks, r)
          BY <2>4, <3>2 DEF next, Job
        <4>2. Elements(nacks) \subseteq Elements(Append(nacks, r)) /\ r \in Elements(Append(nacks, r))
          <5> HIDE DEF nacks
          <5>1. /\ DOMAIN Append(nacks, r) = 1..(Len(nacks) + 1) /\ DOMAIN nacks = 1..Len(nacks)
                /\ Len(nacks) \in Nat /\ Append(nacks, r)[Len(nacks) + 1] = r
                /\ \A i \in 1..Len(nacks) : Append(nacks, r)[i] = nacks[i]
            BY <1>2, <2>4
          <5>2. r \in Elements(Append(nacks, r))
            <6>1. Len(nacks) + 1 \in DOMAIN Append(nacks, r)
              BY <5>1
            <6> QED
              BY <5>1, <6>1 DEF Elements
          <5>3. ASSUME NEW i \in DOMAIN nacks PROVE nacks[i] \in Elements(Append(nacks, r))
            <6>1. i \in DOMAIN Append(nacks, r) /\ Append(nacks, r)[i] = nacks[i]
              BY <5>1
            <6> QED
              BY <6>1 DEF Elements
          <5> QED
            BY <5>2, <5>3 DEF Elements
        <4>3. Gone(w, s) \subseteq Gone(w, s)' /\ r \in Gone(w, s)'
          BY <1>2, <2>7, <4>1, <4>2 DEF Gone
        <4>4. FewSkipped(log[s], n + 1, trades, Gone(w, s)')
          BY <2>4, <2>5, <2>9, <4>3, SkippedNack
        <4> QED
          BY <2>1, <2>7, <2>8, <4>1, <4>4 DEF ThreadLoss
      <3> QED
        BY <3>1, <3>2
    <2> QED
      BY <1>2, <2>1, <2>7, <2>10, LossStays
  <1> QED
    BY <1>2, <1>3, <1>4

(* A call sends or drops what it was given, or stops the JVM. *)
LEMMA CallSends ==
  ASSUME NEW w, NEW q, NEW next, Push(w, q, next)
  PROVE  \/ /\ next /\ StayAtRecord
            /\ sent \cup dropped \subseteq sent' \cup dropped'
            /\ Elements(q) \subseteq sent' \cup dropped'
         \/ Halt(w) /\ UNCHANGED <<sent, dropped, job>>
  <1>1. CASE Len(q) <= Limit
    <2>1. PutRecords(q) /\ next /\ StayAtRecord
      BY <1>1 DEF Push
    <2>2. PICK lost \in SUBSET Elements(q) :
             dropped' = dropped \cup lost /\ sent' = sent \cup (Elements(q) \ lost)
      BY <2>1 DEF PutRecords
    <2> QED
      BY <2>1, <2>2
  <1>2. CASE ~(Len(q) <= Limit)
    BY <1>2 DEF Push
  <1> QED
    BY <1>1, <1>2

LEMMA LossPush ==
  ASSUME IInv, LossInv, NEW w \in Worker, NEW s \in Shard, PushTrades(w, s) \/ PushNacks(w, s)
  PROVE  LossInv'
  <1> DEFINE n == batch[w][s].pos - 1
             trades == job[w][s].trades
             nacks == job[w][s].nacks
  <1>1. TypeOK /\ up[w] /\ batch[w][s].pos > batch[w][s].end
    BY DEF IInv, PushTrades, PushNacks, Finished
  <1>2. ~Idle(w, s)
    BY <1>1, LossTypes DEF Idle
  <1>3. /\ n \in Nat /\ job[w][s] \in Job /\ trades \in Seq(Message) /\ nacks \in Seq(Message)
        /\ FewSkipped(log[s], n, trades, Gone(w, s))
    BY <1>2, LossTypes DEF LossInv, ThreadLoss
  <1>4. ASSUME UNCHANGED shardVars, sent \cup dropped \subseteq sent' \cup dropped',
               NEW next, Goto(w, s, next), NEW more, more = sent' \cup dropped' \cup Elements(next.nacks),
               FewSkipped(log[s], n, next.trades, more)
        PROVE  LossInv'
    <2>1. UNCHANGED <<log, ckpt, batch>> /\ job' = [job EXCEPT ![w][s] = next]
      BY <1>4 DEF shardVars, Goto
    <2>2. job \in [Worker -> [Shard -> Job]]
      BY <1>1 DEF TypeOK
    <2>3. /\ job'[w][s] = next
          /\ \A x \in Worker, z \in Shard : ~(x = w /\ z = s) => job'[x][z] = job[x][z]
      BY <2>1, <2>2
    <2>4. ThreadLoss(w, s)'
      BY <1>2, <1>4, <2>1, <2>3 DEF ThreadLoss, Gone, Idle
    <2> QED
      BY <1>4, <2>1, <2>3, <2>4, LossStays
  <1>5. ASSUME Halt(w), UNCHANGED <<sent, dropped, job>>
        PROVE  LossInv'
    BY <1>5, LossSame DEF Halt, shardVars
  <1>6. CASE PushTrades(w, s)
    <2> DEFINE next == [job[w][s] EXCEPT !.trades = AfterCall(trades)]
               more == sent' \cup dropped' \cup Elements(nacks)
    <2>1. Push(w, FirstCall(trades), Goto(w, s, next))
      BY <1>6 DEF PushTrades
    <2>2. next.trades = AfterCall(trades) /\ next.nacks = nacks
      BY <1>3 DEF Job
    <2> HIDE DEF next, trades, nacks
    <2>3. \/ /\ Goto(w, s, next) /\ StayAtRecord
             /\ sent \cup dropped \subseteq sent' \cup dropped'
             /\ Elements(FirstCall(trades)) \subseteq sent' \cup dropped'
          \/ Halt(w) /\ UNCHANGED <<sent, dropped, job>>
      BY <2>1, CallSends
    <2>4. CASE /\ Goto(w, s, next) /\ StayAtRecord
               /\ sent \cup dropped \subseteq sent' \cup dropped'
               /\ Elements(FirstCall(trades)) \subseteq sent' \cup dropped'
      <3>1. Gone(w, s) \subseteq more /\ Elements(FirstCall(trades)) \subseteq more
        BY <2>4 DEF Gone, nacks
      <3> HIDE DEF n, more
      <3>2. FewSkipped(log[s], n, AfterCall(trades), more)
        BY <1>3, <3>1, SkippedCall
      <3>3. more = sent' \cup dropped' \cup Elements(next.nacks)
        BY <2>2 DEF more
      <3> QED
        BY <1>4, <2>2, <2>4, <3>2, <3>3 DEF StayAtRecord
    <2> QED
      BY <1>5, <2>3, <2>4
  <1>7. CASE PushNacks(w, s)
    <2> DEFINE more == sent' \cup dropped'
    <2>1. Push(w, nacks, Goto(w, s, NewJob)) /\ trades = <<>>
      BY <1>7 DEF PushNacks
    <2>2. NewJob.trades = <<>> /\ Elements(NewJob.nacks) = {}
      BY DEF NewJob, Elements
    <2> HIDE DEF trades, nacks
    <2>3. \/ /\ Goto(w, s, NewJob) /\ StayAtRecord
             /\ sent \cup dropped \subseteq sent' \cup dropped'
             /\ Elements(nacks) \subseteq sent' \cup dropped'
          \/ Halt(w) /\ UNCHANGED <<sent, dropped, job>>
      BY <2>1, CallSends
    <2>4. CASE /\ Goto(w, s, NewJob) /\ StayAtRecord
               /\ sent \cup dropped \subseteq sent' \cup dropped'
               /\ Elements(nacks) \subseteq sent' \cup dropped'
      <3>1. Gone(w, s) \subseteq more
        BY <2>4 DEF Gone, nacks
      <3>2. more = sent' \cup dropped' \cup Elements(NewJob.nacks)
        BY <2>2
      <3> HIDE DEF n, more
      <3>3. FewSkipped(log[s], n, NewJob.trades, more)
        <4>1. n \in Nat /\ trades \in Seq(Message) /\ FewSkipped(log[s], n, trades, Gone(w, s))
          BY <1>3
        <4>2. \A i \in 1..n : log[s][i] = log[s][i]
          OBVIOUS
        <4>3. FewSkipped(log[s], n, trades, more)
          BY <3>1, <4>1, <4>2, SkippedStays
        <4> QED
          BY <2>1, <2>2, <4>3
      <3> QED
        BY <1>4, <2>4, <3>2, <3>3 DEF StayAtRecord
    <2> QED
      BY <1>5, <2>3, <2>4
  <1> QED
    BY <1>6, <1>7

(* The checkpoint of a thread with empty lists: what it counts as passed is *)
(* what the shard has checkpointed then.                                    *)
LEMMA LossCheckpoint ==
  ASSUME IInv, LossInv, NEW w \in Worker, NEW s \in Shard, Checkpoint(w, s)
  PROVE  LossInv'
  <1>1. job[w][s] = NewJob /\ CheckpointBatch(w, s) /\ UNCHANGED <<stored, sent, job, dropped, fails>>
    BY DEF Checkpoint, Rest
  <1>2. CASE owner[s] # w
    BY <1>1, <1>2, LossSame DEF CheckpointBatch, Halt, shardVars
  <1>3. CASE owner[s] = w
    <2> DEFINE e == batch[w][s].end
    <2>1. /\ ckpt' = [ckpt EXCEPT ![s] = e] /\ batch' = [batch EXCEPT ![w][s] = NoBatch]
          /\ UNCHANGED log /\ batch[w][s].pos > e
      BY <1>1, <1>3 DEF CheckpointBatch, Finished
    <2>2. /\ ckpt \in [Shard -> Nat] /\ batch \in [Worker -> [Shard -> [pos : Nat, end : Nat]]]
      BY DEF IInv, TypeOK, ShardTypeOK
    <2>3. ~Idle(w, s) /\ batch[w][s].pos - 1 = e /\ e \in Nat
      <3>1. ~Idle(w, s)
        BY <2>1, LossTypes DEF Idle
      <3> QED
        BY <2>1, <3>1, LossTypes
    <2> HIDE DEF e
    <2>4. /\ ckpt'[s] = e /\ \A z \in Shard : z # s => ckpt'[z] = ckpt[z]
          /\ batch'[w][s] = NoBatch
          /\ \A x \in Worker, z \in Shard : ~(x = w /\ z = s) => batch'[x][z] = batch[x][z]
      BY <2>1, <2>2
    <2>5. Limit * Cardinality({i \in 1..e : log[s][i] \notin sent \cup dropped}) <= e
      <3>1. NewJob.trades = <<>> /\ Elements(NewJob.nacks) = {}
        BY DEF NewJob, Elements
      <3>2. FewSkipped(log[s], e, <<>>, sent \cup dropped)
        <4>1. FewSkipped(log[s], batch[w][s].pos - 1, job[w][s].trades, Gone(w, s))
          BY <2>3 DEF LossInv, ThreadLoss
        <4>2. Gone(w, s) = sent \cup dropped
          BY <1>1, <3>1 DEF Gone
        <4> QED
          BY <1>1, <2>3, <3>1, <4>1, <4>2
      <3> QED
        BY <2>3, <3>2, SkippedBound
    <2>6. LossBound'
      <3> SUFFICES ASSUME NEW z \in Shard
                   PROVE  Limit * Cardinality({i \in 1..ckpt'[z] : log'[z][i] \notin sent' \cup dropped'})
                          <= ckpt'[z]
        BY DEF LossBound
      <3>1. log' = log /\ sent' = sent /\ dropped' = dropped
        BY <1>1, <2>1
      <3>2. CASE z = s
        <4>1. ckpt'[z] = e
          BY <2>4, <3>2
        <4> QED
          BY <2>5, <3>1, <3>2, <4>1
      <3>3. CASE z # s
        <4>1. ckpt'[z] = ckpt[z]
          BY <2>4, <3>3
        <4>2. Limit * Cardinality({i \in 1..ckpt[z] : log[z][i] \notin sent \cup dropped}) <= ckpt[z]
          BY DEF LossInv, LossBound
        <4> QED
          BY <3>1, <4>1, <4>2
      <3> QED
        BY <3>2, <3>3
    <2>7. ASSUME NEW x \in Worker, NEW z \in Shard PROVE ThreadLoss(x, z)'
      <3>1. CASE x = w /\ z = s
        BY <1>1, <2>4, <3>1 DEF ThreadLoss, Idle, NoBatch
      <3>2. CASE ~(x = w /\ z = s)
        <4>1. ThreadLoss(x, z)
          BY DEF LossInv, ThreadLoss
        <4> QED
          BY <1>1, <2>1, <2>4, <3>2, <4>1 DEF ThreadLoss, Idle, Gone
      <3> QED
        BY <3>1, <3>2
    <2> QED
      BY <2>6, <2>7 DEF LossInv, ThreadLoss
  <1> QED
    BY <1>2, <1>3

LEMMA LossRestart ==
  ASSUME IInv, LossInv, NEW w \in Worker, Restart(w)
  PROVE  LossInv'
  <1>1. /\ UNCHANGED <<log, ckpt, sent, dropped>>
        /\ batch' = [batch EXCEPT ![w] = [s \in Shard |-> NoBatch]]
        /\ job' = [job EXCEPT ![w] = [s \in Shard |-> NewJob]]
    BY DEF Restart, RestartWorker
  <1>2. /\ batch \in [Worker -> [Shard -> [pos : Nat, end : Nat]]]
        /\ job \in [Worker -> [Shard -> Job]]
    BY DEF IInv, TypeOK, ShardTypeOK
  <1>3. ASSUME NEW x \in Worker, NEW z \in Shard
        PROVE  \/ batch'[x][z] = batch[x][z] /\ job'[x][z] = job[x][z]
               \/ batch'[x][z] = NoBatch /\ job'[x][z] = NewJob
    BY <1>1, <1>2
  <1>4. ASSUME NEW x \in Worker, NEW z \in Shard,
               batch'[x][z] = NoBatch, job'[x][z] = NewJob
        PROVE  ThreadLoss(x, z)'
    BY <1>4 DEF ThreadLoss, Idle, NoBatch
  <1> QED
    BY <1>1, <1>3, <1>4, LossStays

LEMMA LossNext == IInv /\ LossInv /\ [Next]_vars => LossInv'
  <1> SUFFICES ASSUME IInv, LossInv, [Next]_vars PROVE LossInv'
    OBVIOUS
  <1>1. CASE UNCHANGED vars
    BY <1>1, LossSame DEF vars, shardVars
  <1>2. ASSUME NEW m \in Message, NEW s \in Shard, ReceiveMessage(m, s) PROVE LossInv'
    BY <1>2, LossReceive
  <1>3. ASSUME NEW w \in Worker, NEW s \in Shard, WorkerStep(w, s) PROVE LossInv'
    <2>1. CASE Take(w, s) \/ Steal(w, s)
      BY <2>1, LossSame DEF Take, Steal, TakeLease, StealLease, Rest
    <2>2. CASE FailPush(w, s)
      BY <2>2, LossSame DEF FailPush, Halt, shardVars
    <2> QED
      BY <1>3, <2>1, <2>2, LossFetch, LossRecord, LossPush, LossCheckpoint DEF WorkerStep, ProcessBatch
  <1>4. ASSUME NEW w \in Worker, Crash(w) PROVE LossInv'
    BY <1>4, LossSame DEF Crash, CrashWorker, Rest, shardVars
  <1>5. ASSUME NEW w \in Worker, Restart(w) PROVE LossInv'
    BY <1>5, LossRestart
  <1> QED
    BY <1>1, <1>2, <1>3, <1>4, <1>5 DEF Next

(* LossBound: of the checkpointed records of a shard, at most one in Limit  *)
(* was neither forwarded nor refused by putRecords: the one that the call   *)
(* counter of pushTradesUpstream skips, however batches are cut, repeated   *)
(* or run by two workers at once, and whatever comes twice.                 *)
THEOREM IngestionLossBound == Spec => []LossBound
  <1>1. Init => LossInv
    <2> SUFFICES ASSUME Init PROVE LossInv
      OBVIOUS
    <2>1. LossBound
      <3> SUFFICES ASSUME NEW s \in Shard
                   PROVE  Limit * Cardinality({i \in 1..ckpt[s] : log[s][i] \notin sent \cup dropped}) <= ckpt[s]
        BY DEF LossBound
      <3>1. ckpt[s] = 0
        BY DEF Init, ShardInit
      <3>2. {i \in 1..ckpt[s] : log[s][i] \notin sent \cup dropped} = {}
        BY <3>1
      <3>3. Cardinality({}) = 0 /\ Limit * 0 = 0
        BY FS_EmptySet, IngestionAssumption
      <3> QED
        BY <3>1, <3>2, <3>3
    <2>2. \A w \in Worker, s \in Shard : Idle(w, s) /\ job[w][s] = NewJob
      BY DEF Init, ShardInit, Idle, NoBatch
    <2> QED
      BY <2>1, <2>2 DEF LossInv, ThreadLoss
  <1>2. LossInv => LossBound
    BY DEF LossInv, ThreadLoss
  <1> QED
    BY <1>1, <1>2, IngestionInvariance, LossNext, PTL DEF Spec
=============================================================================
