------------------------ MODULE TradeMatching_proofs ------------------------
(***************************************************************************)
(* Proofs about TradeMatching, for every set of trades, shards and workers *)
(* and every bound.                                                        *)
(***************************************************************************)
EXTENDS TradeMatchingSerial, KinesisShards_proofs

(* The counters and the fields of the state keep their types. *)
LEMMA TypeInit == Init => TypeOK
  BY DEF Init, TypeOK, ShardInit, ShardTypeOK, NoBatch, NewJob, Job, Step, Status, Verdict

LEMMA TypeReceive ==
  ASSUME TypeOK, NEW t \in Trade, NEW s \in Shard, ReceiveTrade(t, s)
  PROVE  TypeOK'
  BY DEF TypeOK, ShardTypeOK, ReceiveTrade, Put, jobVars, workerVars

(* What the stream's own steps leave behind is well typed. *)
LEMMA TypeShard ==
  ASSUME TypeOK, NEW w \in Worker, NEW s \in Shard,
         Take(w, s) \/ Steal(w, s) \/ Fetch(w, s) \/ Checkpoint(w, s) \/ Crash(w)
  PROVE  TypeOK'
  BY ShardStepType DEF TypeOK, Take, Steal, Fetch, Checkpoint, Crash, jobVars

(* The record a thread is at is a trade. *)
LEMMA CurrentType ==
  ASSUME TypeOK, BatchOK, NEW w \in Worker, NEW s \in Shard, InLoop(w, s)
  PROVE  /\ batch[w][s].pos \in 1..Len(log[s])
         /\ Current(w, s) \in Trade
  <1>1. /\ log[s] \in Seq(Trade)
        /\ batch[w][s].pos \in Nat /\ batch[w][s].end \in Nat
    BY DEF TypeOK, ShardTypeOK
  <1>2. batch[w][s].pos \in 1..Len(log[s])
    BY <1>1 DEF BatchOK, InLoop
  <1>. QED BY <1>1, <1>2 DEF Current

(* A thread at some step is in the loop. *)
LEMMA AtInLoop ==
  ASSUME TypeOK, NEW w \in Worker, NEW s \in Shard, NEW pc, At(w, s, pc)
  PROVE  InLoop(w, s) /\ job[w][s].pc = pc /\ up[w]
  BY DEF At, Working, Idle, InLoop, TypeOK, ShardTypeOK

(* The two updates of a thread's own state that the statements are made of. *)
LEMMA GotoType ==
  ASSUME TypeOK, NEW w \in Worker, NEW s \in Shard, NEW next \in Job, Goto(w, s, next)
  PROVE  job' \in [Worker -> [Shard -> Job]]
  BY DEF TypeOK, Goto

LEMMA NewJobType == NewJob \in Job
  BY DEF NewJob, Job, Step

LEMMA DoneType ==
  ASSUME TypeOK, NEW w \in Worker, NEW s \in Shard, Done(w, s)
  PROVE  /\ job' \in [Worker -> [Shard -> Job]]
         /\ ShardTypeOK(Trade)'
  <1>1. job' \in [Worker -> [Shard -> Job]]
    BY GotoType, NewJobType DEF Done
  <1>2. ShardTypeOK(Trade)'
    <2>1. batch[w][s].pos + 1 \in Nat /\ batch[w][s].end \in Nat
      BY DEF TypeOK, ShardTypeOK
    <2>. QED BY <2>1 DEF TypeOK, ShardTypeOK, Done, NextRecord, workerVars
  <1>. QED BY <1>1, <1>2

LEMMA StayType ==
  ASSUME TypeOK, StayAtRecord
  PROVE  ShardTypeOK(Trade)'
  BY DEF TypeOK, ShardTypeOK, StayAtRecord, shardVars, workerVars

LEMMA HaltType ==
  ASSUME TypeOK, NEW w \in Worker, Halt(w)
  PROVE  ShardTypeOK(Trade)'
  BY DEF TypeOK, ShardTypeOK, Halt, shardVars

(* The statements of processRecords keep the types. *)
LEMMA TypeRecord ==
  ASSUME TypeOK, BatchOK, FoundOK, NEW w \in Worker, NEW s \in Shard,
         ProcessRecord(w, s)
  PROVE  TypeOK'
  <1>0. InLoop(w, s) /\ Current(w, s) \in Trade /\ job[w][s] \in Job
    <2>1. InLoop(w, s)
      BY AtInLoop DEF ProcessRecord, CheckExisting, SelectMatch, SelectMismatch,
                      MarkCounterpart, PersistTrade, PushPair
    <2>. QED BY <2>1, CurrentType DEF TypeOK
  <1>1. CASE CheckExisting(w, s)
    <2>1. [NewJob EXCEPT !.pc = "match"] \in Job
      BY DEF NewJob, Job, Step
    <2>. QED BY <1>1, <2>1, DoneType, GotoType, StayType DEF CheckExisting, TypeOK
  <1>2. CASE SelectMatch(w, s)
    <2>1. \E next \in Job : Goto(w, s, next)
      BY <1>0, <1>2 DEF SelectMatch, Job, Step, Verdict
    <2>. QED BY <1>2, <2>1, GotoType, StayType DEF SelectMatch, TypeOK
  <1>3. CASE SelectMismatch(w, s)
    <2>1. \E next \in Job : Goto(w, s, next)
      BY <1>0, <1>3 DEF SelectMismatch, Job, Step, Verdict
    <2>. QED BY <1>3, <2>1, GotoType, StayType DEF SelectMismatch, TypeOK
  <1>4. CASE MarkCounterpart(w, s)
    <2>1. [job[w][s] EXCEPT !.pc = "persist"] \in Job
      BY <1>0 DEF Job, Step
    <2>2. row' \in [Trade -> Status]
      BY <1>0, <1>4 DEF MarkCounterpart, TypeOK, Job, Status, Verdict
    <2>. QED BY <1>4, <2>1, <2>2, GotoType, StayType DEF MarkCounterpart, TypeOK
  <1>5. CASE PersistTrade(w, s)
    <2>1. [job[w][s] EXCEPT !.pc = "push"] \in Job
      BY <1>0 DEF Job, Step
    <2>2. row' \in [Trade -> Status]
      BY <1>0, <1>5 DEF PersistTrade, TypeOK, Job, Status, Verdict
    <2>. QED BY <1>5, <2>1, <2>2, GotoType, StayType, DoneType, HaltType
             DEF PersistTrade, TypeOK
  <1>6. CASE PushPair(w, s)
    <2>1. PICK lost \in SUBSET {Current(w, s), job[w][s].found} :
            /\ drops' = drops + Cardinality(lost)
            /\ pub' = [x \in Trade |->
                         IF x = Current(w, s) /\ x \notin lost
                           THEN Bump(pub[x], job[w][s].verdict)
                         ELSE IF x = job[w][s].found /\ x \notin lost
                           THEN Bump(pub[x], row[x])
                         ELSE pub[x]]
      BY <1>6 DEF PushPair
    <2>2. pub' \in [Trade -> [Status -> Nat]]
      <3>1. \A c \in [Status -> Nat], v \in Status : Bump(c, v) \in [Status -> Nat]
        BY DEF Bump
      <3>2. \A x \in Trade : pub[x] \in [Status -> Nat] /\ row[x] \in Status
        BY DEF TypeOK
      <3>3. job[w][s].verdict \in Status
        BY <1>0 DEF Job, Verdict, Status
      <3>. QED BY <2>1, <3>1, <3>2, <3>3
    <2>3. drops' \in Nat
      <3>1. IsFiniteSet({Current(w, s), job[w][s].found})
        <4>1. IsFiniteSet({Current(w, s)})
          BY FS_Singleton
        <4>2. IsFiniteSet({Current(w, s)} \cup {job[w][s].found})
          BY <4>1, FS_AddElement
        <4>3. {Current(w, s)} \cup {job[w][s].found} = {Current(w, s), job[w][s].found}
          OBVIOUS
        <4>. QED BY <4>2, <4>3
      <3>2. Cardinality(lost) \in Nat
        BY <3>1, FS_Subset, FS_CardinalityType
      <3>. QED BY <2>1, <3>2 DEF TypeOK
    <2>. QED BY <1>6, <2>2, <2>3, DoneType DEF PushPair, TypeOK
  <1>. QED BY <1>1, <1>2, <1>3, <1>4, <1>5, <1>6 DEF ProcessRecord

LEMMA TypeRestart ==
  ASSUME TypeOK, NEW w \in Worker, Restart(w)
  PROVE  TypeOK'
  BY NewJobType DEF TypeOK, ShardTypeOK, Restart, RestartWorker, NoBatch

----------------------------------------------------------------------------
(* What a step that does not move a batch leaves of BatchOK and StoredOK. *)
LEMMA StayKeeps ==
  ASSUME IInv, UNCHANGED <<log, ckpt, batch>>,
         \A t \in Trade : row[t] # "NONE" => row'[t] # "NONE",
         \A x \in Worker, z \in Shard : InLoop(x, z) \/ job'[x][z] = job[x][z]
  PROVE  BatchOK' /\ StoredOK'
  <1>1. BatchOK'
    BY DEF IInv, BatchOK, InLoop
  <1>2. StoredOK'
    <2>1. \A s \in Shard : log[s] \in Seq(Trade)
      BY DEF IInv, TypeOK, ShardTypeOK
    <2>2. \A s \in Shard : \A i \in 1..ckpt[s] : log[s][i] \in Trade
      BY <2>1 DEF IInv, StoredOK, TypeOK, ShardTypeOK
    <2>3. \A s \in Shard, w \in Worker : \A i \in 1..(batch[w][s].pos - 1) : log[s][i] \in Trade
      BY <2>1 DEF IInv, BatchOK, TypeOK, ShardTypeOK
    <2>. QED BY <2>2, <2>3 DEF IInv, StoredOK
  <1>. QED BY <1>1, <1>2

(* Going on to the next record once the current one is stored. *)
LEMMA NextKeeps ==
  ASSUME IInv, NEW w \in Worker, NEW s \in Shard, InLoop(w, s), Done(w, s),
         \A t \in Trade : row[t] # "NONE" => row'[t] # "NONE",
         row'[Current(w, s)] # "NONE"
  PROVE  BatchOK' /\ StoredOK'
  <1>1. /\ log' = log /\ ckpt' = ckpt
        /\ batch' = [batch EXCEPT ![w][s] = [pos |-> @.pos + 1, end |-> @.end]]
        /\ job' = [job EXCEPT ![w][s] = NewJob]
    BY DEF Done, NextRecord, Goto
  <1>2. /\ batch \in [Worker -> [Shard -> [pos : Nat, end : Nat]]]
        /\ job \in [Worker -> [Shard -> Job]]
        /\ log \in [Shard -> Seq(Trade)] /\ ckpt \in [Shard -> Nat]
    BY DEF IInv, TypeOK, ShardTypeOK
  <1>3. \A x \in Worker, z \in Shard :
          IF x = w /\ z = s
            THEN /\ batch'[x][z].pos = batch[x][z].pos + 1
                 /\ batch'[x][z].end = batch[x][z].end
                 /\ job'[x][z] = NewJob
            ELSE batch'[x][z] = batch[x][z] /\ job'[x][z] = job[x][z]
    BY <1>1, <1>2
  <1>4. BatchOK'
    BY <1>1, <1>2, <1>3 DEF IInv, BatchOK, InLoop
  <1>5. StoredOK'
    <2>1. \A z \in Shard : \A i \in 1..ckpt[z] : log[z][i] \in Trade
      BY <1>2 DEF IInv, StoredOK
    <2>2. \A z \in Shard, x \in Worker : \A i \in 1..(batch[x][z].pos - 1) : log[z][i] \in Trade
      <3>1. \A z \in Shard, x \in Worker :
              /\ batch[x][z].pos \in Nat /\ batch[x][z].end \in Nat
              /\ log[z] \in Seq(Trade)
              /\ batch[x][z].pos - 1 <= Len(log[z])
        <4>1. BatchOK
          BY DEF IInv
        <4>. SUFFICES ASSUME NEW z \in Shard, NEW x \in Worker
                      PROVE  /\ batch[x][z].pos \in Nat /\ batch[x][z].end \in Nat
                             /\ log[z] \in Seq(Trade)
                             /\ batch[x][z].pos - 1 <= Len(log[z])
          OBVIOUS
        <4>2. batch[x][z].pos \in Nat /\ batch[x][z].end \in Nat /\ log[z] \in Seq(Trade)
          BY <1>2
        <4>3. Len(log[z]) \in Nat
          BY <4>2
        <4>. QED BY <4>1, <4>2, <4>3 DEF BatchOK
      <3>2. ASSUME NEW z \in Shard, NEW x \in Worker, NEW i \in 1..(batch[x][z].pos - 1)
            PROVE  log[z][i] \in Trade
        <4>1. i \in 1..Len(log[z])
          BY <3>1
        <4>. QED BY <3>1, <4>1
      <3>. QED BY <3>2
    <2>3. \A z \in Shard, x \in Worker : \A i \in 1..(batch'[x][z].pos - 1) :
            row'[log[z][i]] # "NONE"
      <3>. TAKE z \in Shard, x \in Worker
      <3>. TAKE i \in 1..(batch'[x][z].pos - 1)
      <3>2. CASE i \in 1..(batch[x][z].pos - 1)
        BY <2>2, <3>2 DEF IInv, StoredOK
      <3>3. CASE i \notin 1..(batch[x][z].pos - 1)
        <4>1. batch[x][z].pos \in Nat /\ i \in Nat /\ i >= 1
          BY <1>2
        <4>2. x = w /\ z = s
          BY <1>3, <3>3
        <4>3. batch'[w][s].pos = batch[w][s].pos + 1
          BY <1>3
        <4>4. i = batch[w][s].pos
          BY <3>3, <4>1, <4>2, <4>3
        <4>. QED BY <4>2, <4>4 DEF Current
      <3>. QED BY <3>2, <3>3
    <2>. QED BY <1>1, <2>1, <2>3 DEF IInv, StoredOK
  <1>. QED BY <1>4, <1>5

(* A step that changes neither a row nor a published record, and after     *)
(* which every thread is either where it was or knows what it should, and  *)
(* is not about to push.                                                   *)
LEMMA QuietStep ==
  ASSUME IInv, row' = row, pub' = pub,
         \A x \in Worker, z \in Shard : InLoop(x, z)' =>
            \/ InLoop(x, z) /\ Current(x, z)' = Current(x, z) /\ job'[x][z] = job[x][z]
            \/ KnowsFound(x, z)' /\ job'[x][z].pc # "push"
  PROVE  FoundOK' /\ PushOK' /\ PubOK'
  <1>1. FoundOK'
    BY DEF IInv, FoundOK, KnowsFound
  <1>2. PushOK'
    <2>1. \A x \in Worker, z \in Shard : Pushing(x, z)' =>
            Pushing(x, z) /\ Current(x, z)' = Current(x, z) /\ job'[x][z] = job[x][z]
      BY DEF Pushing
    <2>. QED BY <2>1 DEF IInv, PushOK
  <1>3. PubOK'
    BY DEF IInv, PubOK
  <1>. QED BY <1>1, <1>2, <1>3

LEMMA StreamTypes ==
  ASSUME TypeOK
  PROVE  /\ \A z \in Shard : log[z] \in Seq(Trade) /\ Len(log[z]) \in Nat /\ ckpt[z] \in Nat
         /\ \A x \in Worker, z \in Shard : batch[x][z].pos \in Nat /\ batch[x][z].end \in Nat
  <1>1. \A z \in Shard : log[z] \in Seq(Trade)
    BY DEF TypeOK, ShardTypeOK
  <1>2. \A z \in Shard : Len(log[z]) \in Nat
    BY <1>1
  <1>. QED BY <1>1, <1>2 DEF TypeOK, ShardTypeOK

(* A new record at the end of a shard changes nothing for the threads. *)
LEMMA ReceiveKeeps ==
  ASSUME IInv, NEW t \in Trade, NEW s \in Shard, ReceiveTrade(t, s)
  PROVE  IInv'
  <1>1. TypeOK'
    BY TypeReceive DEF IInv
  <1>2. /\ log' = [log EXCEPT ![s] = Append(@, t)]
        /\ UNCHANGED <<ckpt, batch, row, job, pub>>
    BY DEF ReceiveTrade, Put, jobVars
  <1>3. \A z \in Shard :
          /\ Len(log'[z]) >= Len(log[z])
          /\ \A i \in 1..Len(log[z]) : log'[z][i] = log[z][i]
    <2>1. log[s] \in Seq(Trade) /\ log \in [Shard -> Seq(Trade)]
      BY DEF IInv, TypeOK, ShardTypeOK
    <2>2. /\ Len(Append(log[s], t)) = Len(log[s]) + 1
          /\ \A i \in 1..Len(log[s]) : Append(log[s], t)[i] = log[s][i]
      BY <2>1
    <2>3. log'[s] = Append(log[s], t) /\ \A z \in Shard \ {s} : log'[z] = log[z]
      BY <1>2, <2>1
    <2>4. Len(log[s]) \in Nat /\ \A z \in Shard : Len(log[z]) \in Nat
      BY StreamTypes DEF IInv
    <2>5. ASSUME NEW z \in Shard
          PROVE  /\ Len(log'[z]) >= Len(log[z])
                 /\ \A i \in 1..Len(log[z]) : log'[z][i] = log[z][i]
      <3>1. CASE z = s
        BY <2>2, <2>3, <2>4, <3>1
      <3>2. CASE z # s
        BY <2>3, <2>4, <3>2
      <3>. QED BY <3>1, <3>2
    <2>. QED BY <2>5
  <1>4. /\ \A z \in Shard : Len(log[z]) \in Nat /\ Len(log'[z]) \in Nat /\ ckpt[z] \in Nat
        /\ \A x \in Worker, z \in Shard : batch[x][z].pos \in Nat /\ batch[x][z].end \in Nat
    <2>1. \A z \in Shard : log'[z] \in Seq(Trade)
      BY <1>1 DEF TypeOK, ShardTypeOK
    <2>. QED BY <2>1, StreamTypes DEF IInv
  <1>5. BatchOK'
    BY <1>2, <1>3, <1>4 DEF IInv, BatchOK, InLoop
  <1>6. StoredOK'
    <2>1. \A z \in Shard : \A i \in 1..ckpt[z] : i \in 1..Len(log[z])
      BY <1>4 DEF IInv, StoredOK
    <2>2. \A z \in Shard, x \in Worker : \A i \in 1..(batch[x][z].pos - 1) :
            i \in 1..Len(log[z])
      BY <1>4 DEF IInv, BatchOK
    <2>3. \A z \in Shard : ckpt[z] <= Len(log'[z])
      BY <1>3, <1>4 DEF IInv, StoredOK
    <2>. QED BY <1>2, <1>3, <2>1, <2>2, <2>3 DEF IInv, StoredOK
  <1>7. FoundOK' /\ PushOK' /\ PubOK'
    <2>1. \A x \in Worker, z \in Shard : InLoop(x, z)' =>
            InLoop(x, z) /\ Current(x, z)' = Current(x, z)
      BY <1>2, <1>3, CurrentType DEF IInv, InLoop, Current
    <2>. QED BY <1>2, <2>1, QuietStep
  <1>. QED BY <1>1, <1>5, <1>6, <1>7 DEF IInv

(* Leases and crashes do not touch what the invariant speaks of. *)
LEMMA LeaseKeeps ==
  ASSUME IInv, NEW w \in Worker, NEW s \in Shard,
         Take(w, s) \/ Steal(w, s) \/ Crash(w)
  PROVE  IInv'
  <1>1. TypeOK'
    BY TypeShard DEF IInv
  <1>2. UNCHANGED <<log, ckpt, batch, row, job, pub>>
    BY DEF Take, TakeLease, Steal, StealLease, Crash, CrashWorker, jobVars, shardVars
  <1>3. BatchOK' /\ StoredOK'
    BY <1>2, StayKeeps
  <1>4. \A x \in Worker, z \in Shard : InLoop(x, z)' =>
          InLoop(x, z) /\ Current(x, z)' = Current(x, z)
    BY <1>2 DEF InLoop, Current
  <1>. QED BY <1>1, <1>2, <1>3, <1>4, QuietStep DEF IInv

(* A thread that fetches a batch starts with a fresh job, behind stored    *)
(* records only.                                                           *)
LEMMA FetchKeeps ==
  ASSUME IInv, NEW w \in Worker, NEW s \in Shard, Fetch(w, s)
  PROVE  IInv'
  <1>1. TypeOK'
    BY TypeShard DEF IInv
  <1>2. PICK e \in (ckpt[s] + 1)..Len(log[s]) :
          batch' = [batch EXCEPT ![w][s] = [pos |-> ckpt[s] + 1, end |-> e]]
    BY DEF Fetch, FetchBatch
  <1>3. UNCHANGED <<log, ckpt, row, job, pub>> /\ Idle(w, s)
    BY DEF Fetch, FetchBatch, jobVars
  <1>4. /\ ckpt[s] \in Nat /\ Len(log[s]) \in Nat /\ e \in Nat
        /\ ckpt[s] + 1 <= e /\ e <= Len(log[s])
        /\ batch \in [Worker -> [Shard -> [pos : Nat, end : Nat]]]
    <2>1. ckpt[s] \in Nat /\ Len(log[s]) \in Nat
      BY StreamTypes DEF IInv
    <2>2. batch \in [Worker -> [Shard -> [pos : Nat, end : Nat]]]
      BY DEF IInv, TypeOK, ShardTypeOK
    <2>. QED BY <2>1, <2>2
  <1>5. \A x \in Worker, z \in Shard :
          IF x = w /\ z = s
            THEN batch'[x][z].pos = ckpt[s] + 1 /\ batch'[x][z].end = e
            ELSE batch'[x][z] = batch[x][z]
    BY <1>2, <1>4
  <1>6. job[w][s] = NewJob
    BY <1>3, <1>4 DEF IInv, BatchOK, InLoop, Idle
  <1>7. BatchOK'
    <2>1. /\ batch'[w][s].pos = ckpt[s] + 1 /\ batch'[w][s].end = e
          /\ e <= Len(log[s]) /\ ckpt[s] + 1 <= e + 1
      BY <1>4, <1>5
    <2>2. SUFFICES ASSUME NEW x \in Worker, NEW z \in Shard
                   PROVE  /\ batch'[x][z].end <= Len(log[z])
                          /\ batch'[x][z].pos <= batch'[x][z].end + 1
                          /\ ~InLoop(x, z)' => job[x][z] = NewJob
      BY <1>3 DEF BatchOK
    <2>3. CASE x = w /\ z = s
      BY <1>6, <2>1, <2>3
    <2>4. CASE ~(x = w /\ z = s)
      <3>1. batch'[x][z] = batch[x][z]
        BY <1>5, <2>4
      <3>. QED BY <3>1 DEF IInv, BatchOK, InLoop
    <2>. QED BY <2>3, <2>4
  <1>8. StoredOK'
    <2>1. \A z \in Shard, x \in Worker : \A i \in 1..(batch'[x][z].pos - 1) :
            row[log[z][i]] # "NONE"
      <3>. TAKE z \in Shard, x \in Worker
      <3>1. CASE x = w /\ z = s
        <4>1. batch'[x][z].pos - 1 = ckpt[s]
          <5>1. batch'[x][z].pos = ckpt[s] + 1
            BY <1>5, <3>1
          <5>. QED BY <1>4, <5>1
        <4>. QED BY <3>1, <4>1 DEF IInv, StoredOK
      <3>2. CASE ~(x = w /\ z = s)
        BY <1>5, <3>2 DEF IInv, StoredOK
      <3>. QED BY <3>1, <3>2
    <2>. QED BY <1>3, <2>1 DEF IInv, StoredOK
  <1>9. FoundOK' /\ PushOK' /\ PubOK'
    <2>1. KnowsFound(w, s)' /\ job'[w][s].pc # "push"
      BY <1>3, <1>6 DEF KnowsFound, NewJob
    <2>2. \A x \in Worker, z \in Shard : ~(x = w /\ z = s) /\ InLoop(x, z)' =>
            InLoop(x, z) /\ Current(x, z)' = Current(x, z)
      BY <1>3, <1>5 DEF InLoop, Current
    <2>. QED BY <1>3, <2>1, <2>2, QuietStep
  <1>. QED BY <1>1, <1>7, <1>8, <1>9 DEF IInv

(* A checkpoint only covers what the thread has stored; without the lease  *)
(* the worker halts and nothing moves.                                     *)
LEMMA CheckpointKeeps ==
  ASSUME IInv, NEW w \in Worker, NEW s \in Shard, Checkpoint(w, s)
  PROVE  IInv'
  <1>1. TypeOK'
    BY TypeShard DEF IInv
  <1>2. UNCHANGED <<log, row, job, pub>>
    BY DEF Checkpoint, CheckpointBatch, Halt, jobVars, shardVars
  <1>3. CASE owner[s] # w
    <2>1. UNCHANGED <<ckpt, batch>>
      BY <1>3 DEF Checkpoint, CheckpointBatch, Halt, shardVars
    <2>2. BatchOK' /\ StoredOK'
      BY <1>2, <2>1, StayKeeps
    <2>3. \A x \in Worker, z \in Shard : InLoop(x, z)' =>
            InLoop(x, z) /\ Current(x, z)' = Current(x, z)
      BY <1>2, <2>1 DEF InLoop, Current
    <2>. QED BY <1>1, <1>2, <2>2, <2>3, QuietStep DEF IInv
  <1>4. CASE owner[s] = w
    <2>1. /\ ckpt' = [ckpt EXCEPT ![s] = batch[w][s].end]
          /\ batch' = [batch EXCEPT ![w][s] = NoBatch]
          /\ batch[w][s].pos > batch[w][s].end
      BY <1>4 DEF Checkpoint, CheckpointBatch, Finished
    <2>2. /\ batch \in [Worker -> [Shard -> [pos : Nat, end : Nat]]]
          /\ ckpt \in [Shard -> Nat]
      BY DEF IInv, TypeOK, ShardTypeOK
    <2>3. \A x \in Worker, z \in Shard :
            IF x = w /\ z = s THEN batch'[x][z] = NoBatch ELSE batch'[x][z] = batch[x][z]
      BY <2>1, <2>2
    <2>4. ~InLoop(w, s) /\ job[w][s] = NewJob
      BY <2>1, StreamTypes DEF IInv, BatchOK, InLoop
    <2>5. batch[w][s].end <= Len(log[s]) /\ batch[w][s].pos = batch[w][s].end + 1
      BY <2>1, StreamTypes DEF IInv, BatchOK
    <2>6. BatchOK'
      <3>1. SUFFICES ASSUME NEW x \in Worker, NEW z \in Shard
                     PROVE  /\ batch'[x][z].end <= Len(log[z])
                            /\ batch'[x][z].pos <= batch'[x][z].end + 1
                            /\ ~InLoop(x, z)' => job[x][z] = NewJob
        BY <1>2 DEF BatchOK
      <3>2. CASE x = w /\ z = s
        BY <2>3, <2>4, <3>2, StreamTypes DEF NoBatch, IInv
      <3>3. CASE ~(x = w /\ z = s)
        <4>1. batch'[x][z] = batch[x][z]
          BY <2>3, <3>3
        <4>. QED BY <4>1 DEF IInv, BatchOK, InLoop
      <3>. QED BY <3>2, <3>3
    <2>7. StoredOK'
      <3>1. \A z \in Shard : ckpt'[z] = IF z = s THEN batch[w][s].end ELSE ckpt[z]
        BY <2>1, <2>2
      <3>2. \A z \in Shard : ckpt'[z] <= Len(log[z])
        BY <2>5, <3>1 DEF IInv, StoredOK
      <3>3. \A z \in Shard : \A i \in 1..ckpt'[z] : row[log[z][i]] # "NONE"
        <4>. TAKE z \in Shard
        <4>1. CASE z = s
          <5>1. ckpt'[z] = batch[w][s].pos - 1
            BY <2>5, <3>1, <4>1, StreamTypes DEF IInv
          <5>. QED BY <4>1, <5>1 DEF IInv, StoredOK
        <4>2. CASE z # s
          BY <3>1, <4>2 DEF IInv, StoredOK
        <4>. QED BY <4>1, <4>2
      <3>4. \A z \in Shard, x \in Worker : \A i \in 1..(batch'[x][z].pos - 1) :
              row[log[z][i]] # "NONE"
        <4>. TAKE z \in Shard, x \in Worker
        <4>1. CASE x = w /\ z = s
          BY <2>3, <4>1 DEF NoBatch
        <4>2. CASE ~(x = w /\ z = s)
          BY <2>3, <4>2 DEF IInv, StoredOK
        <4>. QED BY <4>1, <4>2
      <3>. QED BY <1>2, <3>2, <3>3, <3>4 DEF StoredOK
    <2>8. \A x \in Worker, z \in Shard : InLoop(x, z)' =>
            InLoop(x, z) /\ Current(x, z)' = Current(x, z)
      BY <1>2, <2>3 DEF InLoop, Current, NoBatch
    <2>. QED BY <1>1, <1>2, <2>6, <2>7, <2>8, QuietStep DEF IInv
  <1>. QED BY <1>3, <1>4

(* The threads of a restarted worker know nothing. *)
LEMMA RestartKeeps ==
  ASSUME IInv, NEW w \in Worker, Restart(w)
  PROVE  IInv'
  <1>1. TypeOK'
    BY TypeRestart DEF IInv
  <1>2. /\ UNCHANGED <<log, ckpt, row, pub>>
        /\ batch' = [batch EXCEPT ![w] = [s \in Shard |-> NoBatch]]
        /\ job' = [job EXCEPT ![w] = [s \in Shard |-> NewJob]]
    BY DEF Restart, RestartWorker
  <1>3. \A x \in Worker, z \in Shard :
          IF x = w THEN batch'[x][z] = NoBatch /\ job'[x][z] = NewJob
                   ELSE batch'[x][z] = batch[x][z] /\ job'[x][z] = job[x][z]
    BY <1>2 DEF IInv, TypeOK, ShardTypeOK
  <1>4. \A x \in Worker, z \in Shard : InLoop(x, z)' =>
          /\ x # w /\ InLoop(x, z)
          /\ Current(x, z)' = Current(x, z) /\ job'[x][z] = job[x][z]
    BY <1>2, <1>3 DEF InLoop, Current, NoBatch
  <1>5. BatchOK'
    <2>1. SUFFICES ASSUME NEW x \in Worker, NEW z \in Shard
                   PROVE  /\ batch'[x][z].end <= Len(log[z])
                          /\ batch'[x][z].pos <= batch'[x][z].end + 1
                          /\ ~InLoop(x, z)' => job'[x][z] = NewJob
      BY <1>2 DEF BatchOK
    <2>2. CASE x = w
      BY <1>3, <2>2, StreamTypes DEF NoBatch, IInv
    <2>3. CASE x # w
      <3>1. batch'[x][z] = batch[x][z] /\ job'[x][z] = job[x][z]
        BY <1>3, <2>3
      <3>. QED BY <3>1 DEF IInv, BatchOK, InLoop
    <2>. QED BY <2>2, <2>3
  <1>6. StoredOK'
    <2>1. \A z \in Shard, x \in Worker : \A i \in 1..(batch'[x][z].pos - 1) :
            row[log[z][i]] # "NONE"
      <3>. TAKE z \in Shard, x \in Worker
      <3>1. CASE x = w
        BY <1>3, <3>1 DEF NoBatch
      <3>2. CASE x # w
        BY <1>3, <3>2 DEF IInv, StoredOK
      <3>. QED BY <3>1, <3>2
    <2>. QED BY <1>2, <2>1 DEF IInv, StoredOK
  <1>7. FoundOK' /\ PushOK' /\ PubOK'
    BY <1>2, <1>4, QuietStep
  <1>. QED BY <1>1, <1>5, <1>6, <1>7 DEF IInv

----------------------------------------------------------------------------
(* The counterpart is mutual, and there is only one.                       *)
LEMMA BlockSymmetric ==
  ASSUME NEW t \in Trade, NEW u \in Trade, SameBlock(t, u)
  PROVE  /\ SameBlock(u, t) /\ t # u
         /\ VerdictOf(t, u) = VerdictOf(u, t)
         /\ \A x \in Trade : SameBlock(t, x) => x = u
         /\ \A x \in Trade : SameBlock(x, t) => x = u
  <1>1. SameBlock(u, t) /\ t # u /\ VerdictOf(t, u) = VerdictOf(u, t)
    BY DEF SameBlock, VerdictOf
  <1>2. \A x \in Trade : SameBlock(x, t) => SameBlock(t, x)
    BY DEF SameBlock
  <1>. QED BY <1>1, <1>2, TwoSides

(* The other threads of a step that only goes on in one thread. *)
LEMMA GotoOthers ==
  ASSUME TypeOK, NEW w \in Worker, NEW s \in Shard, NEW next, Goto(w, s, next)
  PROVE  /\ job'[w][s] = next
         /\ \A x \in Worker, z \in Shard : ~(x = w /\ z = s) => job'[x][z] = job[x][z]
  BY DEF TypeOK, Goto

(* One thread's batch goes on, the others' stay. *)
LEMMA DoneOthers ==
  ASSUME TypeOK, NEW w \in Worker, NEW s \in Shard, Done(w, s)
  PROVE  /\ job'[w][s] = NewJob
         /\ UNCHANGED <<log, ckpt>>
         /\ \A x \in Worker, z \in Shard : ~(x = w /\ z = s) =>
              /\ job'[x][z] = job[x][z] /\ batch'[x][z] = batch[x][z]
              /\ InLoop(x, z)' = InLoop(x, z)
              /\ Current(x, z)' = Current(x, z)
  <1>1. job'[w][s] = NewJob
        /\ \A x \in Worker, z \in Shard : ~(x = w /\ z = s) => job'[x][z] = job[x][z]
    BY GotoOthers DEF Done
  <1>2. UNCHANGED <<log, ckpt>>
    BY DEF Done, NextRecord
  <1>3. \A x \in Worker, z \in Shard : ~(x = w /\ z = s) => batch'[x][z] = batch[x][z]
    BY DEF Done, NextRecord, TypeOK, ShardTypeOK
  <1>. QED BY <1>1, <1>2, <1>3 DEF InLoop, Current

LEMMA NewJobKnows ==
  ASSUME NEW w \in Worker, NEW s \in Shard, job'[w][s] = NewJob
  PROVE  KnowsFound(w, s)' /\ job'[w][s].pc # "push"
  BY DEF KnowsFound, NewJob

LEMMA CheckExistingKeeps ==
  ASSUME IInv, NEW w \in Worker, NEW s \in Shard, CheckExisting(w, s)
  PROVE  IInv'
  <1>1. TypeOK'
    BY TypeRecord DEF IInv, ProcessRecord
  <1>2. InLoop(w, s) /\ UNCHANGED <<row, pub>>
    BY AtInLoop DEF CheckExisting, IInv
  <1>3. CASE row[Current(w, s)] # "NONE"
    <2>1. Done(w, s)
      BY <1>3 DEF CheckExisting
    <2>2. BatchOK' /\ StoredOK'
      BY <1>2, <1>3, <2>1, NextKeeps
    <2>3. FoundOK' /\ PushOK' /\ PubOK'
      BY <1>2, <2>1, DoneOthers, NewJobKnows, QuietStep DEF IInv
    <2>. QED BY <1>1, <2>2, <2>3 DEF IInv
  <1>4. CASE row[Current(w, s)] = "NONE"
    <2>1. Goto(w, s, [NewJob EXCEPT !.pc = "match"]) /\ StayAtRecord
      BY <1>4 DEF CheckExisting
    <2>2. UNCHANGED <<log, ckpt, batch>>
      BY <2>1 DEF StayAtRecord, shardVars
    <2>3. BatchOK' /\ StoredOK'
      BY <1>2, <2>1, <2>2, GotoOthers, StayKeeps DEF IInv
    <2>4. KnowsFound(w, s)' /\ job'[w][s].pc # "push"
      BY <2>1, GotoOthers DEF KnowsFound, NewJob, IInv
    <2>5. \A x \in Worker, z \in Shard :
            InLoop(x, z)' = InLoop(x, z) /\ Current(x, z)' = Current(x, z)
      BY <2>2 DEF InLoop, Current
    <2>6. FoundOK' /\ PushOK' /\ PubOK'
      BY <1>2, <2>1, <2>4, <2>5, GotoOthers, QuietStep DEF IInv
    <2>. QED BY <1>1, <2>3, <2>6 DEF IInv
  <1>. QED BY <1>3, <1>4

(* A query finds the other side, stored as unmatched, or nothing. *)
LEMMA SelectKeeps ==
  ASSUME IInv, NEW w \in Worker, NEW s \in Shard,
         SelectMatch(w, s) \/ SelectMismatch(w, s)
  PROVE  IInv'
  <1>1. TypeOK'
    BY TypeRecord DEF IInv, ProcessRecord
  <1>2. /\ InLoop(w, s) /\ job[w][s].pc \in {"match", "mismatch"}
        /\ UNCHANGED <<row, pub>>
        /\ UNCHANGED <<log, ckpt, batch>>
    BY AtInLoop DEF SelectMatch, SelectMismatch, IInv, StayAtRecord, shardVars
  <1>3. Current(w, s) \in Trade /\ job[w][s] \in Job /\ job[w][s].found = NoTrade
        /\ job[w][s].verdict = "UNMATCHED"
    BY <1>2, CurrentType DEF IInv, TypeOK, FoundOK, KnowsFound
  <1>4. PICK next \in Job :
          /\ Goto(w, s, next)
          /\ \/ /\ next.pc \in {"mismatch", "persist"}
                /\ next.found = NoTrade /\ next.verdict = "UNMATCHED"
             \/ /\ next.pc = "mark" /\ next.found \in Trade
                /\ SameBlock(Current(w, s), next.found)
                /\ next.verdict = VerdictOf(Current(w, s), next.found)
                /\ row[next.found] = "UNMATCHED"
    <2>1. CASE SelectMatch(w, s)
      <3>1. CASE Goto(w, s, [job[w][s] EXCEPT !.pc = "mismatch"])
        <4>1. [job[w][s] EXCEPT !.pc = "mismatch"] \in Job
          BY <1>3 DEF Job, Step
        <4>2. /\ [job[w][s] EXCEPT !.pc = "mismatch"].pc = "mismatch"
              /\ [job[w][s] EXCEPT !.pc = "mismatch"].found = NoTrade
              /\ [job[w][s] EXCEPT !.pc = "mismatch"].verdict = "UNMATCHED"
          BY <1>3 DEF Job
        <4>. QED BY <3>1, <4>1, <4>2
      <3>2. CASE \E u \in Trade :
                   /\ Agrees(Current(w, s), u) /\ Unmatched(u)
                   /\ Goto(w, s, [pc |-> "mark", found |-> u, verdict |-> "MATCHED"])
        <4>1. PICK u \in Trade :
                /\ Agrees(Current(w, s), u) /\ Unmatched(u)
                /\ Goto(w, s, [pc |-> "mark", found |-> u, verdict |-> "MATCHED"])
          BY <3>2
        <4>2. [pc |-> "mark", found |-> u, verdict |-> "MATCHED"] \in Job
          BY DEF Job, Step, Verdict
        <4>. QED BY <4>1, <4>2 DEF Agrees, Unmatched, VerdictOf
      <3>. QED BY <2>1, <3>1, <3>2 DEF SelectMatch
    <2>2. CASE SelectMismatch(w, s)
      <3>1. CASE Goto(w, s, [job[w][s] EXCEPT !.pc = "persist"])
        <4>1. [job[w][s] EXCEPT !.pc = "persist"] \in Job
          BY <1>3 DEF Job, Step
        <4>2. /\ [job[w][s] EXCEPT !.pc = "persist"].pc = "persist"
              /\ [job[w][s] EXCEPT !.pc = "persist"].found = NoTrade
              /\ [job[w][s] EXCEPT !.pc = "persist"].verdict = "UNMATCHED"
          BY <1>3 DEF Job
        <4>. QED BY <3>1, <4>1, <4>2
      <3>2. CASE \E u \in Trade :
                   /\ Disagrees(Current(w, s), u) /\ Unmatched(u)
                   /\ Goto(w, s, [pc |-> "mark", found |-> u, verdict |-> "MISMATCHED"])
        <4>1. PICK u \in Trade :
                /\ Disagrees(Current(w, s), u) /\ Unmatched(u)
                /\ Goto(w, s, [pc |-> "mark", found |-> u, verdict |-> "MISMATCHED"])
          BY <3>2
        <4>2. [pc |-> "mark", found |-> u, verdict |-> "MISMATCHED"] \in Job
          BY DEF Job, Step, Verdict
        <4>. QED BY <4>1, <4>2 DEF Disagrees, Unmatched, VerdictOf
      <3>. QED BY <2>2, <3>1, <3>2 DEF SelectMismatch
    <2>. QED BY <2>1, <2>2
  <1>5. BatchOK' /\ StoredOK'
    BY <1>2, <1>4, GotoOthers, StayKeeps DEF IInv
  <1>6. \A x \in Worker, z \in Shard :
          InLoop(x, z)' = InLoop(x, z) /\ Current(x, z)' = Current(x, z)
    BY <1>2 DEF InLoop, Current
  <1>7. KnowsFound(w, s)' /\ job'[w][s].pc # "push"
    <2>1. job'[w][s] = next
      BY <1>4, GotoOthers DEF IInv
    <2>. QED BY <1>2, <1>4, <1>6, <2>1, TradeAssumption DEF KnowsFound, VerdictOf, SameBlock
  <1>8. FoundOK' /\ PushOK' /\ PubOK'
    BY <1>2, <1>4, <1>6, <1>7, GotoOthers, QuietStep DEF IInv
  <1>. QED BY <1>1, <1>5, <1>8 DEF IInv

(* A thread that has found a counterpart knows that the two are a block. *)
LEMMA FoundFacts ==
  ASSUME IInv, NEW x \in Worker, NEW z \in Shard, InLoop(x, z), job[x][z].found # NoTrade
  PROVE  /\ Current(x, z) \in Trade /\ job[x][z].found \in Trade
         /\ SameBlock(Current(x, z), job[x][z].found)
         /\ job[x][z].verdict = VerdictOf(Current(x, z), job[x][z].found)
         /\ job[x][z].verdict \in Verdict
         /\ row[job[x][z].found] # "NONE"
         /\ job[x][z].pc \in {"persist", "push"} => row[job[x][z].found] = job[x][z].verdict
  <1>1. Current(x, z) \in Trade /\ job[x][z].found \in Trade
    BY CurrentType DEF IInv, TypeOK, Job
  <1>2. KnowsFound(x, z)
    BY DEF IInv, FoundOK
  <1>. QED BY <1>1, <1>2 DEF KnowsFound, VerdictOf, Verdict

LEMMA PushingFacts ==
  ASSUME IInv, NEW x \in Worker, NEW z \in Shard, Pushing(x, z)
  PROVE  /\ InLoop(x, z) /\ job[x][z].found # NoTrade
         /\ row[Current(x, z)] = job[x][z].verdict
  BY DEF IInv, FoundOK, KnowsFound, PushOK, Pushing

(* Marking writes the verdict of the pair: whoever else relies on the row   *)
(* of the counterpart belongs to the same pair and expects the same value.  *)
LEMMA MarkKeeps ==
  ASSUME IInv, NEW w \in Worker, NEW s \in Shard, MarkCounterpart(w, s)
  PROVE  IInv'
  <1> DEFINE t == Current(w, s)
             u == job[w][s].found
             v == job[w][s].verdict
  <1>1. TypeOK'
    BY TypeRecord DEF IInv, ProcessRecord
  <1>2. /\ InLoop(w, s) /\ job[w][s].pc = "mark"
        /\ UNCHANGED <<log, ckpt, batch, pub>>
        /\ row' = [row EXCEPT ![u] = v]
        /\ Goto(w, s, [job[w][s] EXCEPT !.pc = "persist"])
    BY AtInLoop DEF MarkCounterpart, IInv, StayAtRecord, shardVars
  <1>3. u # NoTrade
    BY <1>2 DEF IInv, FoundOK, KnowsFound
  <1>4. /\ t \in Trade /\ u \in Trade /\ SameBlock(t, u)
        /\ v = VerdictOf(t, u) /\ v \in Verdict /\ row[u] # "NONE"
    BY <1>2, <1>3, FoundFacts
  <1>5. \A y \in Trade : row'[y] = IF y = u THEN v ELSE row[y]
    BY <1>2 DEF IInv, TypeOK
  <1>6. /\ \A y \in Trade : SameBlock(y, u) => y = t
        /\ \A y \in Trade : SameBlock(u, y) => y = t
        /\ VerdictOf(u, t) = v
    <2>1. SameBlock(u, t)
      BY <1>4, BlockSymmetric
    <2>. QED BY <1>4, <2>1, BlockSymmetric
  <1>7. BatchOK' /\ StoredOK'
    <2>1. \A y \in Trade : row[y] # "NONE" => row'[y] # "NONE"
      BY <1>4, <1>5 DEF Verdict
    <2>2. \A x \in Worker, z \in Shard : InLoop(x, z) \/ job'[x][z] = job[x][z]
      BY <1>2, GotoOthers DEF IInv
    <2>. QED BY <1>2, <2>1, <2>2, StayKeeps
  <1>8. /\ job'[w][s].pc = "persist" /\ job'[w][s].found = u /\ job'[w][s].verdict = v
        /\ \A x \in Worker, z \in Shard : ~(x = w /\ z = s) => job'[x][z] = job[x][z]
        /\ \A x \in Worker, z \in Shard :
             InLoop(x, z)' = InLoop(x, z) /\ Current(x, z)' = Current(x, z)
    <2>1. job'[w][s] = [job[w][s] EXCEPT !.pc = "persist"] /\ job[w][s] \in Job
      BY <1>2, GotoOthers DEF IInv, TypeOK
    <2>2. job'[w][s].pc = "persist" /\ job'[w][s].found = u /\ job'[w][s].verdict = v
      BY <2>1 DEF Job
    <2>3. \A x \in Worker, z \in Shard : ~(x = w /\ z = s) => job'[x][z] = job[x][z]
      BY <1>2, GotoOthers DEF IInv
    <2>. QED BY <1>2, <2>2, <2>3 DEF InLoop, Current
  <1>9. FoundOK'
    <2>1. SUFFICES ASSUME NEW x \in Worker, NEW z \in Shard, InLoop(x, z)
                   PROVE  KnowsFound(x, z)'
      BY <1>8 DEF FoundOK
    <2>2. CASE x = w /\ z = s
      BY <1>3, <1>4, <1>5, <1>8, <2>2 DEF KnowsFound, Verdict, VerdictOf, SameBlock
    <2>3. CASE ~(x = w /\ z = s) /\ job[x][z].found = NoTrade
      <3>1. KnowsFound(x, z)
        BY <2>1 DEF IInv, FoundOK
      <3>. QED BY <1>8, <2>3, <3>1 DEF KnowsFound
    <2>4. CASE ~(x = w /\ z = s) /\ job[x][z].found # NoTrade
      <3>1. KnowsFound(x, z)
        BY <2>1 DEF IInv, FoundOK
      <3>2. job[x][z].found = u => job[x][z].verdict = v
        BY <1>4, <1>6, <2>1, <2>4, FoundFacts
      <3>3. /\ job[x][z].found \in Trade
            /\ row'[job[x][z].found] # "NONE"
            /\ job[x][z].pc \in {"persist", "push"} =>
                 row'[job[x][z].found] = job[x][z].verdict
        BY <1>4, <1>5, <2>1, <2>4, <3>2, FoundFacts DEF Verdict
      <3>. QED BY <1>8, <2>4, <3>1, <3>3 DEF KnowsFound, SameBlock, VerdictOf
    <2>. QED BY <2>2, <2>3, <2>4
  <1>10. PushOK'
    <2>1. \A x \in Worker, z \in Shard : Pushing(x, z)' =>
            /\ Pushing(x, z) /\ job'[x][z] = job[x][z] /\ Current(x, z)' = Current(x, z)
      BY <1>8 DEF Pushing
    <2>2. \A x \in Worker, z \in Shard : Pushing(x, z) =>
            row'[Current(x, z)] = job[x][z].verdict
      <3>1. SUFFICES ASSUME NEW x \in Worker, NEW z \in Shard, Pushing(x, z)
                     PROVE  row'[Current(x, z)] = job[x][z].verdict
        OBVIOUS
      <3>2. /\ Current(x, z) \in Trade /\ job[x][z].found \in Trade
            /\ SameBlock(Current(x, z), job[x][z].found)
            /\ job[x][z].verdict = VerdictOf(Current(x, z), job[x][z].found)
            /\ row[Current(x, z)] = job[x][z].verdict
        BY <3>1, PushingFacts, FoundFacts
      <3>3. Current(x, z) = u => job[x][z].verdict = v
        BY <1>6, <3>2
      <3>. QED BY <1>5, <3>2, <3>3
    <2>. QED BY <1>2, <2>1, <2>2 DEF IInv, PushOK
  <1>11. PubOK'
    <2>1. \A y, y0 \in Trade, v0 \in Verdict :
            SameBlock(y, y0) /\ v0 = VerdictOf(y, y0) /\ row[y] = v0 /\ row[y0] = v0
              => row'[y] = v0 /\ row'[y0] = v0
      BY <1>4, <1>5, <1>6
    <2>. QED BY <1>2, <2>1 DEF IInv, PubOK, SameBlock, VerdictOf
  <1>. QED BY <1>1, <1>7, <1>9, <1>10, <1>11 DEF IInv

(* A trade without a row is nobody's counterpart, is not being pushed and  *)
(* was not published; neither was its other side.                          *)
LEMMA FreshTrade ==
  ASSUME IInv, NEW t \in Trade, row[t] = "NONE"
  PROVE  /\ \A x \in Worker, z \in Shard : InLoop(x, z) => job[x][z].found # t
         /\ \A x \in Worker, z \in Shard : Pushing(x, z) =>
              Current(x, z) # t /\ ~SameBlock(Current(x, z), t)
         /\ \A y \in Trade, v \in Verdict :
              y = t \/ SameBlock(y, t) => pub[y][v] = 0
  <1>1. \A x \in Worker, z \in Shard : InLoop(x, z) => job[x][z].found # t
    BY TradeAssumption, FoundFacts
  <1>2. SUFFICES ASSUME NEW x \in Worker, NEW z \in Shard, Pushing(x, z)
                 PROVE  Current(x, z) # t /\ ~SameBlock(Current(x, z), t)
    <2>1. \A y \in Trade, v \in Verdict : y = t \/ SameBlock(y, t) => ~(pub[y][v] > 0)
      <3>1. SUFFICES ASSUME NEW y \in Trade, NEW v \in Verdict, pub[y][v] > 0,
                            y = t \/ SameBlock(y, t)
                     PROVE  FALSE
        OBVIOUS
      <3>2. PICK u \in Trade : SameBlock(y, u) /\ row[y] = v /\ row[u] = v
        BY <3>1 DEF IInv, PubOK
      <3>3. row[t] = v
        BY <3>1, <3>2, TwoSides
      <3>. QED BY <3>3 DEF Verdict
    <2>2. \A y \in Trade, v \in Verdict : pub[y][v] \in Nat
      BY DEF IInv, TypeOK, Verdict, Status
    <2>. QED BY <1>1, <2>1, <2>2
  <1>3. /\ Current(x, z) \in Trade /\ job[x][z].found \in Trade
        /\ SameBlock(Current(x, z), job[x][z].found)
        /\ row[Current(x, z)] = job[x][z].verdict /\ job[x][z].verdict \in Verdict
        /\ job[x][z].found # t
    BY <1>1, <1>2, PushingFacts, FoundFacts
  <1>4. Current(x, z) # t
    BY <1>3 DEF Verdict
  <1>5. ~SameBlock(Current(x, z), t)
    BY <1>3, TwoSides
  <1>. QED BY <1>4, <1>5

(* A row that is inserted was in nobody's way: what other threads and the  *)
(* published records rely on stays.                                        *)
LEMMA InsertKeepsOthers ==
  ASSUME IInv, NEW t \in Trade, NEW v, row[t] = "NONE", v # "NONE",
         row' = [row EXCEPT ![t] = v]
  PROVE  /\ \A y \in Trade : row'[y] = IF y = t THEN v ELSE row[y]
         /\ \A y \in Trade : row[y] # "NONE" => row'[y] # "NONE"
         /\ \A x \in Worker, z \in Shard : InLoop(x, z) /\ job[x][z].found # NoTrade =>
              row'[job[x][z].found] = row[job[x][z].found]
         /\ \A x \in Worker, z \in Shard : Pushing(x, z) =>
              row'[Current(x, z)] = row[Current(x, z)]
         /\ pub' = pub => PubOK'
  <1>1. \A y \in Trade : row'[y] = IF y = t THEN v ELSE row[y]
    BY DEF IInv, TypeOK
  <1>2. \A x \in Worker, z \in Shard : InLoop(x, z) /\ job[x][z].found # NoTrade =>
          row'[job[x][z].found] = row[job[x][z].found]
    BY <1>1, FoundFacts
  <1>3. \A x \in Worker, z \in Shard : Pushing(x, z) =>
          row'[Current(x, z)] = row[Current(x, z)]
    BY <1>1, FreshTrade, PushingFacts, FoundFacts
  <1>4. pub' = pub => PubOK'
    <2>1. \A y, u \in Trade, k \in Verdict : row[y] = k /\ row[u] = k =>
            row'[y] = k /\ row'[u] = k
      BY <1>1 DEF Verdict
    <2>. QED BY <2>1 DEF IInv, PubOK, SameBlock, VerdictOf
  <1>. QED BY <1>1, <1>2, <1>3, <1>4

LEMMA PersistKeeps ==
  ASSUME IInv, NEW w \in Worker, NEW s \in Shard, PersistTrade(w, s)
  PROVE  IInv'
  <1> DEFINE t == Current(w, s)
             u == job[w][s].found
             v == job[w][s].verdict
  <1>1. TypeOK'
    BY TypeRecord DEF IInv, ProcessRecord
  <1>2. InLoop(w, s) /\ job[w][s].pc = "persist" /\ pub' = pub /\ t \in Trade
    BY AtInLoop, CurrentType DEF PersistTrade, IInv
  <1>3. CASE row[t] # "NONE"
    <2>1. UNCHANGED <<log, ckpt, batch, row, job>>
      BY <1>3 DEF PersistTrade, Halt, shardVars
    <2>2. BatchOK' /\ StoredOK'
      BY <2>1, StayKeeps
    <2>3. \A x \in Worker, z \in Shard :
            InLoop(x, z)' = InLoop(x, z) /\ Current(x, z)' = Current(x, z)
      BY <2>1 DEF InLoop, Current
    <2>. QED BY <1>1, <1>2, <2>1, <2>2, <2>3, QuietStep DEF IInv
  <1>4. CASE row[t] = "NONE" /\ u = NoTrade
    <2>1. Done(w, s) /\ row' = [row EXCEPT ![t] = v]
      BY <1>4 DEF PersistTrade
    <2>2. v # "NONE"
      BY <1>2, <1>4 DEF IInv, FoundOK, KnowsFound
    <2>3. BatchOK' /\ StoredOK'
      <3>1. \A y \in Trade : row'[y] = IF y = t THEN v ELSE row[y]
        BY <2>1 DEF IInv, TypeOK
      <3>2. /\ \A y \in Trade : row[y] # "NONE" => row'[y] # "NONE"
            /\ row'[t] # "NONE"
        BY <1>2, <2>2, <3>1
      <3>. QED BY <1>2, <2>1, <3>2, NextKeeps
    <2>4. FoundOK'
      <3>1. SUFFICES ASSUME NEW x \in Worker, NEW z \in Shard, InLoop(x, z)'
                     PROVE  KnowsFound(x, z)'
        BY DEF FoundOK
      <3>2. CASE x = w /\ z = s
        BY <2>1, <3>2, DoneOthers, NewJobKnows DEF IInv
      <3>3. CASE ~(x = w /\ z = s)
        <4>1. /\ InLoop(x, z) /\ Current(x, z)' = Current(x, z) /\ job'[x][z] = job[x][z]
          BY <2>1, <3>1, <3>3, DoneOthers DEF IInv
        <4>2. KnowsFound(x, z)
          BY <4>1 DEF IInv, FoundOK
        <4>3. job[x][z].found # NoTrade => row'[job[x][z].found] = row[job[x][z].found]
          BY <1>2, <1>4, <2>1, <2>2, <4>1, InsertKeepsOthers
        <4>. QED BY <4>1, <4>2, <4>3 DEF KnowsFound, SameBlock, VerdictOf
      <3>. QED BY <3>2, <3>3
    <2>5. PushOK'
      <3>1. \A x \in Worker, z \in Shard : Pushing(x, z)' =>
              /\ Pushing(x, z) /\ Current(x, z)' = Current(x, z)
              /\ job'[x][z] = job[x][z]
        BY <2>1, DoneOthers, NewJobKnows DEF IInv, Pushing
      <3>2. \A x \in Worker, z \in Shard : Pushing(x, z) =>
              row'[Current(x, z)] = row[Current(x, z)]
        BY <1>2, <1>4, <2>1, <2>2, InsertKeepsOthers
      <3>. QED BY <1>2, <3>1, <3>2 DEF IInv, PushOK
    <2>6. PubOK'
      BY <1>2, <1>4, <2>1, <2>2, InsertKeepsOthers
    <2>. QED BY <1>1, <2>3, <2>4, <2>5, <2>6 DEF IInv
  <1>5. CASE row[t] = "NONE" /\ u # NoTrade
    <2>1. /\ Goto(w, s, [job[w][s] EXCEPT !.pc = "push"])
          /\ UNCHANGED <<log, ckpt, batch>>
          /\ row' = [row EXCEPT ![t] = v]
      BY <1>5 DEF PersistTrade, StayAtRecord, shardVars
    <2>2. /\ u \in Trade /\ SameBlock(t, u) /\ v = VerdictOf(t, u) /\ v \in Verdict
          /\ row[u] = v /\ v # "NONE"
      BY <1>2, <1>5, FoundFacts DEF Verdict
    <2>3. /\ job'[w][s].pc = "push" /\ job'[w][s].found = u /\ job'[w][s].verdict = v
          /\ \A x \in Worker, z \in Shard : ~(x = w /\ z = s) => job'[x][z] = job[x][z]
          /\ \A x \in Worker, z \in Shard :
               InLoop(x, z)' = InLoop(x, z) /\ Current(x, z)' = Current(x, z)
      <3>1. job'[w][s] = [job[w][s] EXCEPT !.pc = "push"] /\ job[w][s] \in Job
        BY <2>1, GotoOthers DEF IInv, TypeOK
      <3>2. job'[w][s].pc = "push" /\ job'[w][s].found = u /\ job'[w][s].verdict = v
        BY <3>1 DEF Job
      <3>3. \A x \in Worker, z \in Shard : ~(x = w /\ z = s) => job'[x][z] = job[x][z]
        BY <2>1, GotoOthers DEF IInv
      <3>. QED BY <2>1, <3>2, <3>3 DEF InLoop, Current
    <2>4. BatchOK' /\ StoredOK'
      <3>1. \A y \in Trade : row[y] # "NONE" => row'[y] # "NONE"
        BY <1>2, <1>5, <2>1, <2>2, InsertKeepsOthers
      <3>2. \A x \in Worker, z \in Shard : InLoop(x, z) \/ job'[x][z] = job[x][z]
        BY <1>2, <2>3
      <3>. QED BY <2>1, <3>1, <3>2, StayKeeps
    <2>5. FoundOK'
      <3>1. SUFFICES ASSUME NEW x \in Worker, NEW z \in Shard, InLoop(x, z)
                     PROVE  KnowsFound(x, z)'
        BY <2>3 DEF FoundOK
      <3>2. KnowsFound(x, z)
        BY <3>1 DEF IInv, FoundOK
      <3>3. job[x][z].found # NoTrade => row'[job[x][z].found] = row[job[x][z].found]
        BY <1>2, <1>5, <2>1, <2>2, <3>1, InsertKeepsOthers
      <3>4. CASE x = w /\ z = s
        BY <1>2, <1>5, <2>2, <2>3, <3>2, <3>3, <3>4 DEF KnowsFound, SameBlock, VerdictOf
      <3>5. CASE ~(x = w /\ z = s)
        BY <2>3, <3>2, <3>3, <3>5 DEF KnowsFound, SameBlock, VerdictOf
      <3>. QED BY <3>4, <3>5
    <2>6. PushOK'
      <3>1. row'[t] = v
        BY <1>2, <2>1 DEF IInv, TypeOK
      <3>2. \A k \in Verdict : pub[t][k] = 0 /\ pub[u][k] = 0
        BY <1>2, <1>5, <2>2, FreshTrade, BlockSymmetric
      <3>3. \A x \in Worker, z \in Shard : Pushing(x, z) =>
              /\ ~(x = w /\ z = s)
              /\ Current(x, z) # t /\ Current(x, z) # u /\ t # job[x][z].found
              /\ row'[Current(x, z)] = job[x][z].verdict
        <4>. SUFFICES ASSUME NEW x \in Worker, NEW z \in Shard, Pushing(x, z)
                      PROVE  /\ ~(x = w /\ z = s)
                             /\ Current(x, z) # t /\ Current(x, z) # u
                             /\ t # job[x][z].found
                             /\ row'[Current(x, z)] = job[x][z].verdict
          OBVIOUS
        <4>1. ~(x = w /\ z = s)
          BY <1>2 DEF Pushing
        <4>2. Current(x, z) # t /\ ~SameBlock(Current(x, z), t) /\ job[x][z].found # t
          BY <1>2, <1>5, FreshTrade, PushingFacts
        <4>3. SameBlock(u, t)
          BY <1>2, <2>2, BlockSymmetric
        <4>4. row'[Current(x, z)] = job[x][z].verdict
          <5>1. Current(x, z) \in Trade /\ row[Current(x, z)] = job[x][z].verdict
            BY PushingFacts, FoundFacts
          <5>2. row' = [row EXCEPT ![t] = v] /\ row \in [Trade -> Status]
            BY <2>1 DEF IInv, TypeOK
          <5>. QED BY <4>2, <5>1, <5>2
        <4>. QED BY <4>1, <4>2, <4>3, <4>4
      <3>4. \A x \in Worker, z \in Shard : ~(x = w /\ z = s) /\ Pushing(x, z)' =>
              /\ Pushing(x, z) /\ job'[x][z] = job[x][z] /\ Current(x, z)' = Current(x, z)
        BY <2>3 DEF Pushing
      <3>5. SUFFICES ASSUME NEW x \in Worker, NEW z \in Shard, Pushing(x, z)'
                     PROVE  /\ row'[Current(x, z)'] = job'[x][z].verdict
                            /\ \A k \in Verdict : /\ pub[Current(x, z)'][k] = 0
                                                  /\ pub[job'[x][z].found][k] = 0
                            /\ \A a \in Worker, b \in Shard :
                                 Pushing(a, b)' /\ <<a, b>> # <<x, z>> =>
                                   /\ Current(a, b)' # Current(x, z)'
                                   /\ Current(a, b)' # job'[x][z].found
        BY <1>2 DEF PushOK
      <3>6. CASE x = w /\ z = s
        <4>1. Current(x, z)' = t /\ job'[x][z].found = u /\ job'[x][z].verdict = v
          BY <2>3, <3>6
        <4>2. \A a \in Worker, b \in Shard : Pushing(a, b)' /\ <<a, b>> # <<x, z>> =>
                Current(a, b)' # t /\ Current(a, b)' # u
          BY <3>3, <3>4, <3>6
        <4>. QED BY <3>1, <3>2, <4>1, <4>2
      <3>7. CASE ~(x = w /\ z = s)
        <4>1. Pushing(x, z) /\ job'[x][z] = job[x][z] /\ Current(x, z)' = Current(x, z)
          BY <3>4, <3>5, <3>7
        <4>2. Current(w, s)' = t
          BY <2>3
        <4>3. \A a \in Worker, b \in Shard : Pushing(a, b)' /\ <<a, b>> # <<x, z>> =>
                /\ Current(a, b)' # Current(x, z)
                /\ Current(a, b)' # job[x][z].found
          <5>. SUFFICES ASSUME NEW a \in Worker, NEW b \in Shard,
                               Pushing(a, b)', <<a, b>> # <<x, z>>
                        PROVE  /\ Current(a, b)' # Current(x, z)
                               /\ Current(a, b)' # job[x][z].found
            OBVIOUS
          <5>1. CASE a = w /\ b = s
            BY <3>3, <4>1, <4>2, <5>1
          <5>2. CASE ~(a = w /\ b = s)
            BY <3>4, <4>1, <5>2 DEF IInv, PushOK
          <5>. QED BY <5>1, <5>2
        <4>4. \A k \in Verdict : pub[Current(x, z)][k] = 0 /\ pub[job[x][z].found][k] = 0
          BY <4>1 DEF IInv, PushOK
        <4>. QED BY <3>3, <4>1, <4>3, <4>4
      <3>. QED BY <3>6, <3>7
    <2>7. PubOK'
      BY <1>2, <1>5, <2>1, <2>2, InsertKeepsOthers
    <2>. QED BY <1>1, <2>4, <2>5, <2>6, <2>7 DEF IInv
  <1>. QED BY <1>3, <1>4, <1>5

(* The push counts each side once, from nothing; no other thread speaks of *)
(* this pair.                                                              *)
LEMMA PushKeeps ==
  ASSUME IInv, NEW w \in Worker, NEW s \in Shard, PushPair(w, s)
  PROVE  IInv'
  <1> DEFINE t == Current(w, s)
             u == job[w][s].found
             v == job[w][s].verdict
  <1>1. TypeOK'
    BY TypeRecord DEF IInv, ProcessRecord
  <1>2. /\ Pushing(w, s) /\ InLoop(w, s) /\ job[w][s].pc = "push"
        /\ Done(w, s) /\ row' = row
    BY AtInLoop DEF PushPair, IInv, Pushing
  <1>3. /\ t \in Trade /\ u \in Trade /\ SameBlock(t, u)
        /\ v = VerdictOf(t, u) /\ v \in Verdict
        /\ row[t] = v /\ row[u] = v
    BY <1>2, PushingFacts, FoundFacts
  <1>4. PICK lost \in SUBSET {t, u} :
          pub' = [x \in Trade |->
                   IF x = t /\ x \notin lost THEN Bump(pub[x], v)
                   ELSE IF x = u /\ x \notin lost THEN Bump(pub[x], row[x])
                   ELSE pub[x]]
    BY DEF PushPair
  <1>5. \A y \in Trade : /\ y \notin {t, u} => pub'[y] = pub[y]
                         /\ y \in {t, u} => pub'[y] = pub[y] \/ pub'[y] = Bump(pub[y], v)
    BY <1>3, <1>4
  <1>6. BatchOK' /\ StoredOK'
    BY <1>2, <1>3, NextKeeps DEF Verdict
  <1>7. FoundOK'
    <2>1. SUFFICES ASSUME NEW x \in Worker, NEW z \in Shard, InLoop(x, z)'
                   PROVE  KnowsFound(x, z)'
      BY DEF FoundOK
    <2>2. CASE x = w /\ z = s
      BY <1>2, <2>2, DoneOthers, NewJobKnows DEF IInv
    <2>3. CASE ~(x = w /\ z = s)
      <3>1. InLoop(x, z) /\ Current(x, z)' = Current(x, z) /\ job'[x][z] = job[x][z]
        BY <1>2, <2>1, <2>3, DoneOthers DEF IInv
      <3>. QED BY <1>2, <3>1 DEF IInv, FoundOK, KnowsFound
    <2>. QED BY <2>2, <2>3
  <1>8. PushOK'
    <2>1. \A x \in Worker, z \in Shard : Pushing(x, z)' =>
            /\ Pushing(x, z) /\ Current(x, z)' = Current(x, z)
            /\ job'[x][z] = job[x][z] /\ ~(x = w /\ z = s)
      BY <1>2, DoneOthers, NewJobKnows DEF IInv, Pushing
    <2>2. \A x \in Worker, z \in Shard : Pushing(x, z) /\ ~(x = w /\ z = s) =>
            /\ Current(x, z) \in Trade \ {t, u}
            /\ job[x][z].found \in Trade \ {t, u}
      <3>1. SUFFICES ASSUME NEW x \in Worker, NEW z \in Shard, Pushing(x, z),
                            ~(x = w /\ z = s)
                     PROVE  /\ Current(x, z) \in Trade \ {t, u}
                            /\ job[x][z].found \in Trade \ {t, u}
        OBVIOUS
      <3>2. /\ Current(x, z) \in Trade /\ job[x][z].found \in Trade
            /\ SameBlock(Current(x, z), job[x][z].found)
        BY <3>1, PushingFacts, FoundFacts
      <3>3. Current(x, z) # t /\ Current(x, z) # u
        BY <1>2, <3>1 DEF IInv, PushOK
      <3>4. job[x][z].found # t /\ job[x][z].found # u
        BY <1>3, <3>2, <3>3, BlockSymmetric
      <3>. QED BY <3>2, <3>3, <3>4
    <2>3. \A x \in Worker, z \in Shard : Pushing(x, z) /\ ~(x = w /\ z = s) =>
            \A k \in Verdict : pub'[Current(x, z)][k] = 0 /\ pub'[job[x][z].found][k] = 0
      BY <1>5, <2>2 DEF IInv, PushOK
    <2>. QED BY <1>2, <2>1, <2>3 DEF IInv, PushOK
  <1>9. PubOK'
    <2>1. SUFFICES ASSUME NEW y \in Trade
                   PROVE  /\ pub'[y]["MATCHED"] + pub'[y]["MISMATCHED"] <= 1
                          /\ \A k \in Verdict : pub'[y][k] > 0 =>
                               \E x \in Trade : SameBlock(y, x) /\ k = VerdictOf(y, x)
                                                  /\ row[y] = k /\ row[x] = k
      BY <1>2 DEF PubOK, SameBlock, VerdictOf
    <2>2. CASE pub'[y] = pub[y]
      BY <2>2 DEF IInv, PubOK
    <2>3. CASE y \in {t, u} /\ pub'[y] = Bump(pub[y], v)
      <3>1. \A k \in Verdict : pub[y][k] = 0
        BY <1>2, <2>3 DEF IInv, PushOK
      <3>2. pub[y] \in [Status -> Nat] /\ v \in Status
        BY <1>3 DEF IInv, TypeOK, Verdict, Status
      <3>3. \A k \in Verdict : pub'[y][k] = IF k = v THEN 1 ELSE 0
        <4>1. \A k \in Verdict : k \in Status
          BY DEF Verdict, Status
        <4>. QED BY <2>3, <3>1, <3>2, <4>1 DEF Bump
      <3>4. pub'[y]["MATCHED"] + pub'[y]["MISMATCHED"] <= 1
        <4>1. /\ pub'[y]["MATCHED"] = IF "MATCHED" = v THEN 1 ELSE 0
              /\ pub'[y]["MISMATCHED"] = IF "MISMATCHED" = v THEN 1 ELSE 0
          BY <3>3 DEF Verdict
        <4>. QED BY <4>1
      <3>5. SameBlock(u, t) /\ VerdictOf(u, t) = v
        BY <1>3, BlockSymmetric
      <3>. QED BY <1>3, <2>3, <3>3, <3>4, <3>5
    <2>. QED BY <1>5, <2>2, <2>3
  <1>. QED BY <1>1, <1>6, <1>7, <1>8, <1>9 DEF IInv

----------------------------------------------------------------------------
LEMMA InvInit == Init => IInv
  <1>1. SUFFICES ASSUME Init PROVE IInv
    OBVIOUS
  <1>2. TypeOK
    BY <1>1, TypeInit
  <1>3. \A w \in Worker, s \in Shard :
          /\ batch[w][s] = NoBatch /\ job[w][s] = NewJob /\ ~InLoop(w, s)
    BY <1>1 DEF Init, ShardInit, InLoop, NoBatch
  <1>4. \A s \in Shard : Len(log[s]) = 0 /\ ckpt[s] = 0
    BY <1>1 DEF Init, ShardInit
  <1>5. BatchOK /\ StoredOK
    BY <1>3, <1>4 DEF BatchOK, StoredOK, NoBatch
  <1>6. FoundOK /\ PushOK
    BY <1>3 DEF FoundOK, PushOK, Pushing
  <1>7. PubOK
    BY <1>1 DEF Init, PubOK, Verdict, Status
  <1>. QED BY <1>2, <1>5, <1>6, <1>7 DEF IInv

LEMMA InvNext == IInv /\ [Next]_vars => IInv'
  <1> SUFFICES ASSUME IInv, [Next]_vars PROVE IInv'
    OBVIOUS
  <1>1. ASSUME NEW t \in Trade, NEW s \in Shard, ReceiveTrade(t, s) PROVE IInv'
    BY <1>1, ReceiveKeeps
  <1>2. ASSUME NEW w \in Worker, NEW s \in Shard,
               Take(w, s) \/ Steal(w, s) \/ Fetch(w, s) \/ Checkpoint(w, s)
        PROVE  IInv'
    BY <1>2, LeaseKeeps, FetchKeeps, CheckpointKeeps
  <1>3. ASSUME NEW w \in Worker, NEW s \in Shard, ProcessRecord(w, s) PROVE IInv'
    BY <1>3, CheckExistingKeeps, SelectKeeps, MarkKeeps, PersistKeeps, PushKeeps
       DEF ProcessRecord
  <1>4. ASSUME NEW w \in Worker, Crash(w) PROVE IInv'
    <2>1. UNCHANGED <<log, ckpt, batch, row, job, pub>> /\ TypeOK'
      BY <1>4 DEF Crash, CrashWorker, jobVars, shardVars, IInv, TypeOK, ShardTypeOK
    <2>2. BatchOK' /\ StoredOK'
      BY <2>1, StayKeeps
    <2>3. \A x \in Worker, z \in Shard : InLoop(x, z)' =>
            InLoop(x, z) /\ Current(x, z)' = Current(x, z)
      BY <2>1 DEF InLoop, Current
    <2>. QED BY <2>1, <2>2, <2>3, QuietStep DEF IInv
  <1>5. ASSUME NEW w \in Worker, Restart(w) PROVE IInv'
    BY <1>5, RestartKeeps
  <1>6. CASE UNCHANGED vars
    <2>1. UNCHANGED <<log, ckpt, batch, row, job, pub>> /\ TypeOK'
      BY <1>6 DEF vars, shardVars, workerVars, IInv, TypeOK, ShardTypeOK
    <2>2. BatchOK' /\ StoredOK'
      BY <2>1, StayKeeps
    <2>3. \A x \in Worker, z \in Shard : InLoop(x, z)' =>
            InLoop(x, z) /\ Current(x, z)' = Current(x, z)
      BY <2>1 DEF InLoop, Current
    <2>. QED BY <2>1, <2>2, <2>3, QuietStep DEF IInv
  <1>. QED BY <1>1, <1>2, <1>3, <1>4, <1>5, <1>6 DEF Next, WorkerStep

(* The invariant holds in every reachable state, for every set of trades,  *)
(* shards and workers and every number of copies, crashes, stolen leases   *)
(* and dropped records.                                                    *)
THEOREM Invariance == Spec => []IInv
  <1>1. Init => IInv
    BY InvInit
  <1>2. IInv /\ [Next]_vars => IInv'
    BY InvNext
  <1>. QED BY <1>1, <1>2, PTL DEF Spec

(* The state keeps its types. *)
THEOREM TypeCorrect == Spec => []TypeOK
  <1>1. IInv => TypeOK
    BY DEF IInv
  <1>. QED BY <1>1, Invariance, PTL

(* No trade is published with a verdict twice, by whatever interleaving of *)
(* threads, crashes, moved leases and repeated records.                    *)
THEOREM PublishedOnce == Spec => []NoDoublePublish
  <1>1. IInv => NoDoublePublish
    BY DEF IInv, PubOK, NoDoublePublish
  <1>. QED BY <1>1, Invariance, PTL

(* A verdict that was published is stored on both sides of the block.      *)
THEOREM PublishedStored == Spec => []PublishedIsDurable
  <1>1. IInv => PublishedIsDurable
    <2>1. SUFFICES ASSUME IInv, NEW t \in Trade, NEW v \in Verdict, pub[t][v] > 0,
                          NEW u \in Trade, u = t \/ SameBlock(t, u)
                   PROVE  row[u] \in {v, "SETTLED"}
      BY DEF PublishedIsDurable
    <2>2. PICK y \in Trade : SameBlock(t, y) /\ row[t] = v /\ row[y] = v
      BY <2>1 DEF IInv, PubOK
    <2>. QED BY <2>1, <2>2, TwoSides
  <1>. QED BY <1>1, Invariance, PTL

(* The checkpoint only ever covers stored trades: nothing is lost between  *)
(* the stream and the database.                                            *)
THEOREM CheckpointSafe == Spec => []CheckpointedIsStored
  <1>1. IInv => CheckpointedIsStored
    BY DEF IInv, StoredOK, CheckpointedIsStored
  <1>. QED BY <1>1, Invariance, PTL
----------------------------------------------------------------------------
LEMMA CurrentOnStream ==
  ASSUME IInv, NEW w \in Worker, NEW s \in Shard, InLoop(w, s)
  PROVE  Current(w, s) \in Trade /\ OnStream(Current(w, s))
  <1>1. batch[w][s].pos \in 1..Len(log[s]) /\ Current(w, s) \in Trade
    BY CurrentType DEF IInv
  <1>. QED BY <1>1 DEF OnStream, Current

(* A step that writes no row. *)
LEMMA JustStays ==
  ASSUME JustOK, row' = row, \A x : OnStream(x) => OnStream(x)'
  PROVE  JustOK'
  BY DEF JustOK

(* Steps of the stream and of a thread before it writes leave the log. *)
LEMMA JustSameLog ==
  ASSUME JustOK, row' = row, log' = log
  PROVE  JustOK'
  <1>1. \A x : OnStream(x) => OnStream(x)'
    BY DEF OnStream
  <1>. QED BY <1>1, JustStays

LEMMA JustMark ==
  ASSUME IInv, JustOK, NEW w \in Worker, NEW s \in Shard, MarkCounterpart(w, s)
  PROVE  JustOK'
  <1>. DEFINE t == Current(w, s)
              u == job[w][s].found
              v == job[w][s].verdict
  <1>1. /\ row' = [row EXCEPT ![u] = v]
        /\ log' = log
    BY DEF MarkCounterpart, StayAtRecord, shardVars
  <1>2. InLoop(w, s) /\ job[w][s].pc = "mark"
    BY AtInLoop DEF MarkCounterpart, IInv
  <1>3. t \in Trade /\ OnStream(t)
    BY <1>2, CurrentOnStream
  <1>4. u # NoTrade /\ SameBlock(t, u) /\ v = VerdictOf(t, u) /\ row[u] # "NONE"
    BY <1>2 DEF IInv, FoundOK, KnowsFound
  <1>5. u \in Trade
    BY <1>4 DEF IInv, TypeOK, Job
  <1>6. SameBlock(u, t) /\ v = VerdictOf(u, t)
    BY <1>3, <1>4, <1>5, BlockSymmetric
  <1>7. \A x \in Trade : row'[x] = IF x = u THEN v ELSE row[x]
    BY <1>1, <1>5 DEF IInv, TypeOK
  <1>8. \A x : OnStream(x)' <=> OnStream(x)
    BY <1>1 DEF OnStream
  <1>. QED BY <1>3, <1>4, <1>5, <1>6, <1>7, <1>8 DEF JustOK

LEMMA JustPersist ==
  ASSUME IInv, JustOK, NEW w \in Worker, NEW s \in Shard, PersistTrade(w, s)
  PROVE  JustOK'
  <1>. DEFINE t == Current(w, s)
              u == job[w][s].found
              v == job[w][s].verdict
  <1>1. log' = log
    BY DEF PersistTrade, Halt, StayAtRecord, Done, NextRecord, shardVars
  <1>2. InLoop(w, s)
    BY AtInLoop DEF PersistTrade, IInv
  <1>3. t \in Trade /\ OnStream(t)
    BY <1>2, CurrentOnStream
  <1>4. CASE row[t] # "NONE"
    BY <1>1, <1>4, JustSameLog DEF PersistTrade
  <1>5. CASE row[t] = "NONE"
    <2>1. row' = [row EXCEPT ![t] = v]
      BY <1>5 DEF PersistTrade
    <2>2. \A x \in Trade : row'[x] = IF x = t THEN v ELSE row[x]
      BY <1>3, <2>1 DEF IInv, TypeOK
    <2>3. v \in Verdict => u \in Trade /\ SameBlock(t, u) /\ OnStream(u) /\ v = VerdictOf(t, u)
      <3>1. v \in Verdict => u # NoTrade
        BY <1>2 DEF IInv, FoundOK, KnowsFound, Verdict
      <3>2. u # NoTrade => u \in Trade
        BY DEF IInv, TypeOK, Job
      <3>3. u # NoTrade => SameBlock(t, u) /\ v = VerdictOf(t, u) /\ row[u] # "NONE"
        BY <1>2 DEF IInv, FoundOK, KnowsFound
      <3>. QED BY <3>1, <3>2, <3>3 DEF JustOK
    <2>4. \A x : OnStream(x)' <=> OnStream(x)
      BY <1>1 DEF OnStream
    <2>. QED BY <1>3, <2>2, <2>3, <2>4 DEF JustOK
  <1>. QED BY <1>4, <1>5

LEMMA JustNext == IInv /\ JustOK /\ [Next]_vars => JustOK'
  <1>. SUFFICES ASSUME IInv, JustOK, [Next]_vars PROVE JustOK'
    OBVIOUS
  <1>1. ASSUME NEW t \in Trade, NEW s \in Shard, ReceiveTrade(t, s) PROVE JustOK'
    <2>1. \A x : OnStream(x) => OnStream(x)'
      BY <1>1, PutKeeps DEF ReceiveTrade, IInv, TypeOK
    <2>. QED BY <1>1, <2>1, JustStays DEF ReceiveTrade
  <1>2. ASSUME NEW w \in Worker, NEW s \in Shard,
               Take(w, s) \/ Steal(w, s) \/ Fetch(w, s) \/ Checkpoint(w, s)
        PROVE  JustOK'
    BY <1>2, JustSameLog
       DEF Take, Steal, Fetch, Checkpoint, TakeLease, StealLease, FetchBatch,
           CheckpointBatch, Halt, shardVars
  <1>3. ASSUME NEW w \in Worker, NEW s \in Shard, ProcessRecord(w, s) PROVE JustOK'
    <2>1. CASE CheckExisting(w, s) \/ SelectMatch(w, s) \/ SelectMismatch(w, s) \/ PushPair(w, s)
      BY <2>1, JustSameLog
         DEF CheckExisting, SelectMatch, SelectMismatch, PushPair, Done, NextRecord,
             StayAtRecord, shardVars
    <2>. QED BY <1>3, <2>1, JustMark, JustPersist DEF ProcessRecord
  <1>4. ASSUME NEW w \in Worker, Crash(w) \/ Restart(w) PROVE JustOK'
    BY <1>4, JustSameLog DEF Crash, CrashWorker, Restart, RestartWorker, shardVars
  <1>5. CASE UNCHANGED vars
    BY <1>5, JustSameLog DEF vars, shardVars
  <1>. QED BY <1>1, <1>2, <1>3, <1>4, <1>5 DEF Next, WorkerStep

(* A stored verdict is the right one: the other side was received, and the *)
(* verdict is MATCHED exactly when the terms of both agree, whichever      *)
(* thread wrote it and whatever was delivered or crashed in between.       *)
THEOREM VerdictJustified == Spec => []VerdictIsJustified
  <1>1. Init => JustOK
    BY DEF Init, JustOK, Verdict
  <1>2. IInv /\ JustOK => VerdictIsJustified
    <2>. SUFFICES ASSUME IInv, JustOK, NEW t \in Trade, row[t] \in Verdict
                  PROVE  \E u \in Trade :
                           /\ SameBlock(t, u) /\ Copies(u) > 0
                           /\ row[t] = "MATCHED" <=> Terms[t] = Terms[u]
      BY DEF VerdictIsJustified
    <2>1. PICK u \in Trade : SameBlock(t, u) /\ OnStream(u) /\ row[t] = VerdictOf(t, u)
      BY DEF JustOK
    <2>2. Copies(u) > 0
      BY <2>1, CopiesCount DEF IInv, TypeOK, ShardTypeOK
    <2>. QED BY <2>1, <2>2 DEF VerdictOf
  <1>. QED BY <1>1, <1>2, JustNext, Invariance, PTL DEF Spec

----------------------------------------------------------------------------
(* As long as nothing goes wrong.  A record is then in the hands of one    *)
(* thread, which nobody else disturbs.                                     *)

(* A thread in the loop has the lease of its shard and its record to       *)
(* itself, and the record has no row before the thread gives it one.       *)
LEMMA CalmThread ==
  ASSUME IInv, Calm, AllUp, OneHolder, NoRowYet,
         NEW w \in Worker, NEW s \in Shard, InLoop(w, s)
  PROVE  /\ up[w] /\ owner[s] = w /\ ckpt[s] < batch[w][s].pos
         /\ \A x \in Worker : ~Idle(x, s) => x = w
         /\ \A x \in Worker, z \in Shard :
              InLoop(x, z) /\ Current(x, z) = Current(w, s) => x = w /\ z = s
         /\ job[w][s].pc # "push" => row[Current(w, s)] = "NONE"
  <1>1. /\ up[w] /\ owner[s] = w /\ ckpt[s] < batch[w][s].pos
        /\ \A x \in Worker : ~Idle(x, s) => x = w
    BY DEF AllUp, OneHolder, InLoop, Idle
  <1>2. ASSUME NEW x \in Worker, NEW z \in Shard, InLoop(x, z),
               Current(x, z) = Current(w, s)
        PROVE  x = w /\ z = s
    <2>1. batch[w][s].pos \in 1..Len(log[s]) /\ batch[x][z].pos \in 1..Len(log[z])
      BY <1>2, CurrentType DEF IInv
    <2>2. z = s
      <3>1. log[z][batch[x][z].pos] = log[s][batch[w][s].pos]
        BY <1>2 DEF Current
      <3>2. \A i \in 1..Len(log[z]), k \in 1..Len(log[s]) : log[z][i] = log[s][k] => z = s
        BY DEF Calm
      <3>. QED BY <2>1, <3>1, <3>2
    <2>3. ~Idle(x, z)
      BY <1>2, StreamTypes DEF InLoop, Idle, IInv
    <2>. QED BY <1>1, <2>2, <2>3
  <1>3. ASSUME job[w][s].pc # "push" PROVE row[Current(w, s)] = "NONE"
    <2>1. batch[w][s].pos \in 1..Len(log[s])
      BY CurrentType DEF IInv
    <2>2. \A x \in Worker : x # w => batch[x][s].pos < batch[w][s].pos
      BY <1>1, <2>1 DEF Idle
    <2>3. Untouched(s, batch[w][s].pos)
      BY <1>1, <1>3, <2>2, StreamTypes DEF Untouched, IInv
    <2>. QED BY <2>1, <2>3 DEF NoRowYet, Current
  <1>. QED BY <1>1, <1>2, <1>3

(* A step that leaves the stream's counters as they are begins in a calm    *)
(* state if it ends in one.                                                *)
LEMMA CalmBefore ==
  ASSUME Calm', UNCHANGED <<log, crashes, steals, drops>>
  PROVE  Calm
  BY DEF Calm

(* What is published, or about to be, stays so in a step that takes no     *)
(* thread out of its pair.                                                 *)
LEMMA PairsStay ==
  ASSUME AllUp, AllUp', TypeOK, InPairs, row' = row, pub' = pub,
         \A x \in Worker, z \in Shard : InLoop(x, z) /\ job[x][z].pc \in {"persist", "push"} =>
            /\ InLoop(x, z)' /\ Current(x, z)' = Current(x, z)
            /\ job'[x][z] = job[x][z],
         TypeOK'
  PROVE  InPairs'
  <1>1. ASSUME NEW t \in Trade, NEW u \in Trade, Pairing(u, t) PROVE Pairing(u, t)'
    <2>1. PICK x \in Worker, z \in Shard :
            /\ At(x, z, "persist") \/ At(x, z, "push")
            /\ Current(x, z) = u /\ job[x][z].found = t
      BY <1>1 DEF Pairing
    <2>2. InLoop(x, z) /\ job[x][z].pc \in {"persist", "push"}
      BY <2>1, AtInLoop
    <2>3. InLoop(x, z)' /\ Current(x, z)' = u /\ job'[x][z] = job[x][z]
      BY <2>1, <2>2
    <2>4. Working(x, z)'
      BY <2>3 DEF AllUp, Working, Idle, InLoop, TypeOK, ShardTypeOK
    <2>5. At(x, z, "persist")' \/ At(x, z, "push")'
      BY <2>2, <2>3, <2>4 DEF At
    <2>. QED BY <2>1, <2>3, <2>5 DEF Pairing
  <1>2. SUFFICES ASSUME NEW t \in Trade, NEW u \in Trade PROVE Paired(t, u)'
    BY DEF InPairs
  <1>3. Paired(t, u)
    BY DEF InPairs
  <1>. QED BY <1>1, <1>3 DEF Paired, SameBlock

(* Records no thread is done with: a thread that goes on only makes them   *)
(* fewer.                                                                  *)
LEMMA UntouchedGoto ==
  ASSUME TypeOK, NEW w \in Worker, NEW s \in Shard, NEW next, Goto(w, s, next),
         UNCHANGED <<ckpt, batch>>, job[w][s].pc # "push"
  PROVE  \A z \in Shard, i \in Nat : Untouched(z, i)' => Untouched(z, i)
  <1>1. \A x \in Worker, z \in Shard : ~(x = w /\ z = s) => job'[x][z] = job[x][z]
    BY GotoOthers
  <1>. QED BY <1>1 DEF Untouched

LEMMA UntouchedDone ==
  ASSUME TypeOK, NEW w \in Worker, NEW s \in Shard, Done(w, s)
  PROVE  \A z \in Shard, i \in Nat :
           Untouched(z, i)' => Untouched(z, i) /\ ~(z = s /\ i = batch[w][s].pos)
  <1>1. /\ ckpt' = ckpt
        /\ \A x \in Worker, z \in Shard : ~(x = w /\ z = s) =>
             job'[x][z] = job[x][z] /\ batch'[x][z] = batch[x][z]
    BY DoneOthers
  <1>2. batch'[w][s].pos = batch[w][s].pos + 1 /\ batch[w][s].pos \in Nat
    BY DEF Done, NextRecord, TypeOK, ShardTypeOK
  <1>3. SUFFICES ASSUME NEW z \in Shard, NEW i \in Nat, Untouched(z, i)'
                 PROVE  Untouched(z, i) /\ ~(z = s /\ i = batch[w][s].pos)
    OBVIOUS
  <1>4. i > ckpt[z]
    BY <1>1, <1>3 DEF Untouched
  <1>5. z = s => batch[w][s].pos < i
    BY <1>2, <1>3 DEF Untouched
  <1>6. ASSUME NEW x \in Worker
        PROVE  batch[x][z].pos < i \/ (batch[x][z].pos = i /\ job[x][z].pc # "push")
    <2>1. CASE x = w /\ z = s
      BY <1>5, <2>1
    <2>2. CASE ~(x = w /\ z = s)
      BY <1>1, <1>3, <2>2 DEF Untouched
    <2>. QED BY <2>1, <2>2
  <1>. QED BY <1>2, <1>4, <1>5, <1>6 DEF Untouched

(* A new record is no trade's that was stored: that one would be on the    *)
(* stream twice.                                                           *)
LEMMA CalmReceive ==
  ASSUME IInv, IInv', JustOK, CalmOK, Calm', NEW t \in Trade, NEW s \in Shard,
         ReceiveTrade(t, s)
  PROVE  Orderly'
  <1>1. /\ log' = [log EXCEPT ![s] = Append(@, t)]
        /\ UNCHANGED <<ckpt, owner, batch, steals, up, crashes, row, pub, job, drops>>
    BY DEF ReceiveTrade, Put, workerVars, jobVars
  <1>2. \A z \in Shard : /\ Len(log'[z]) \in Nat /\ Len(log[z]) \in Nat /\ Len(log'[z]) >= Len(log[z])
                         /\ \A i \in 1..Len(log[z]) : log'[z][i] = log[z][i]
    BY PutKeeps, StreamTypes DEF ReceiveTrade, IInv, TypeOK
  <1>3. /\ Len(log'[s]) = Len(log[s]) + 1 /\ log'[s][Len(log[s]) + 1] = t
        /\ \A z \in Shard \ {s} : log'[z] = log[z]
    <2>1. log[s] \in Seq(Trade) /\ log \in [Shard -> Seq(Trade)]
      BY DEF IInv, TypeOK, ShardTypeOK
    <2>. QED BY <1>1, <2>1
  <1>4. Calm
    <2>1. \A z \in Shard : \A i \in 1..Len(log[z]) : i \in 1..Len(log'[z])
      BY <1>2
    <2>. QED BY <1>1, <1>2, <2>1 DEF Calm
  <1>5. Orderly
    BY <1>4 DEF CalmOK
  <1>6. AllUp' /\ OneHolder'
    BY <1>1, <1>5 DEF Orderly, AllUp, OneHolder, Idle
  <1>7. row[t] = "NONE"
    <2>1. SUFFICES ASSUME OnStream(t) PROVE FALSE
      BY DEF JustOK
    <2>2a. PICK z \in Shard : \E i \in 1..Len(log[z]) : log[z][i] = t
      BY <2>1 DEF OnStream
    <2>2. PICK i \in 1..Len(log[z]) : log[z][i] = t
      BY <2>2a
    <2>3. i \in 1..Len(log'[z]) /\ log'[z][i] = t
      BY <1>2, <2>2
    <2>4. Len(log[s]) + 1 \in 1..Len(log'[s])
      BY <1>2, <1>3
    <2>5. z = s /\ i = Len(log[s]) + 1
      BY <1>3, <2>3, <2>4 DEF Calm
    <2>. QED BY <1>2, <2>5
  <1>8. NoRowYet'
    <2>1. SUFFICES ASSUME NEW z \in Shard, NEW i \in 1..Len(log'[z]), Untouched(z, i)
                   PROVE  row[log'[z][i]] = "NONE"
      BY <1>1 DEF NoRowYet, Untouched
    <2>2. CASE i \in 1..Len(log[z])
      BY <1>2, <1>5, <2>1, <2>2 DEF Orderly, NoRowYet
    <2>3. CASE i \notin 1..Len(log[z])
      <3>1. z = s
        BY <1>3, <2>3
      <3>2. i = Len(log[s]) + 1
        BY <1>2, <1>3, <2>3, <3>1
      <3>. QED BY <1>3, <1>7, <3>1, <3>2
    <2>. QED BY <2>2, <2>3
  <1>9. InPairs'
    <2>1. \A x \in Worker, z \in Shard : InLoop(x, z) => InLoop(x, z)' /\ Current(x, z)' = Current(x, z)
      BY <1>1, <1>2, CurrentType DEF IInv, InLoop, Current
    <2>. QED BY <1>1, <1>5, <1>6, <2>1, PairsStay DEF Orderly, IInv
  <1>. QED BY <1>6, <1>8, <1>9 DEF Orderly

(* Nobody holds the lease that is taken, so nobody has a batch of it.      *)
LEMMA CalmTake ==
  ASSUME IInv, IInv', CalmOK, Calm', NEW w \in Worker, NEW s \in Shard, Take(w, s)
  PROVE  Orderly'
  <1>1. /\ owner[s] \in Worker => ~up[owner[s]]
        /\ owner' = [owner EXCEPT ![s] = w]
        /\ UNCHANGED <<log, ckpt, batch, steals, up, crashes, row, pub, job, drops>>
    BY DEF Take, TakeLease, workerVars, jobVars
  <1>2. Orderly
    BY <1>1, CalmBefore DEF CalmOK
  <1>3. owner[s] \notin Worker
    BY <1>1, <1>2 DEF Orderly, AllUp
  <1>4. AllUp' /\ NoRowYet'
    BY <1>1, <1>2 DEF Orderly, AllUp, NoRowYet, Untouched
  <1>5. OneHolder'
    <2>1. \A z \in Shard : z # s => owner'[z] = owner[z]
      BY <1>1 DEF IInv, TypeOK, ShardTypeOK
    <2>2. \A x \in Worker : Idle(x, s)
      BY <1>2, <1>3 DEF Orderly, OneHolder
    <2>. QED BY <1>1, <1>2, <2>1, <2>2 DEF Orderly, OneHolder, Idle
  <1>6. InPairs'
    <2>1. \A x \in Worker, z \in Shard : InLoop(x, z)' = InLoop(x, z) /\ Current(x, z)' = Current(x, z)
      BY <1>1 DEF InLoop, Current
    <2>. QED BY <1>1, <1>2, <1>4, <2>1, PairsStay DEF Orderly, IInv
  <1>. QED BY <1>4, <1>5, <1>6 DEF Orderly

LEMMA CalmFetch ==
  ASSUME IInv, IInv', CalmOK, Calm', NEW w \in Worker, NEW s \in Shard, Fetch(w, s)
  PROVE  Orderly'
  <1>1. /\ owner[s] = w /\ Idle(w, s)
        /\ UNCHANGED <<log, ckpt, owner, steals, up, crashes, row, pub, job, drops>>
    BY DEF Fetch, FetchBatch, workerVars, jobVars
  <1>2. Orderly
    BY <1>1, CalmBefore DEF CalmOK
  <1>3. /\ batch'[w][s].pos = ckpt[s] + 1 /\ batch[w][s].pos = 0
        /\ \A x \in Worker, z \in Shard : ~(x = w /\ z = s) => batch'[x][z] = batch[x][z]
    <2>1. PICK e \in (ckpt[s] + 1)..Len(log[s]) :
            batch' = [batch EXCEPT ![w][s] = [pos |-> ckpt[s] + 1, end |-> e]]
      BY DEF Fetch, FetchBatch
    <2>. QED BY <1>1, <2>1 DEF IInv, TypeOK, ShardTypeOK, Idle
  <1>4. AllUp'
    BY <1>1, <1>2 DEF Orderly, AllUp
  <1>5. OneHolder'
    <2>1. SUFFICES ASSUME NEW x \in Worker, NEW z \in Shard, ~Idle(x, z)'
                   PROVE  owner[z] = x /\ ckpt[z] < batch'[x][z].pos
      BY <1>1 DEF OneHolder
    <2>2. CASE x = w /\ z = s
      BY <1>1, <1>3, <2>2, StreamTypes DEF IInv
    <2>3. CASE ~(x = w /\ z = s)
      BY <1>2, <1>3, <2>1, <2>3 DEF Orderly, OneHolder, Idle
    <2>. QED BY <2>2, <2>3
  <1>6. NoRowYet'
    <2>1. SUFFICES ASSUME NEW z \in Shard, NEW i \in 1..Len(log[z]), Untouched(z, i)'
                   PROVE  Untouched(z, i)
      BY <1>1, <1>2 DEF Orderly, NoRowYet
    <2>2. i > ckpt[z] /\ ckpt[z] \in Nat /\ i \in Nat
      BY <1>1, <2>1, StreamTypes DEF Untouched, IInv
    <2>3. ASSUME NEW x \in Worker
          PROVE  batch[x][z].pos < i \/ (batch[x][z].pos = i /\ job[x][z].pc # "push")
      <3>1. CASE x = w /\ z = s
        BY <1>3, <2>2, <3>1
      <3>2. CASE ~(x = w /\ z = s)
        BY <1>1, <1>3, <2>1, <3>2 DEF Untouched
      <3>. QED BY <3>1, <3>2
    <2>. QED BY <2>2, <2>3 DEF Untouched
  <1>7. InPairs'
    <2>1. ~InLoop(w, s)
      BY <1>3 DEF InLoop
    <2>2. \A x \in Worker, z \in Shard : InLoop(x, z) => InLoop(x, z)' /\ Current(x, z)' = Current(x, z)
      BY <1>1, <1>3, <2>1 DEF InLoop, Current
    <2>. QED BY <1>1, <1>2, <1>4, <2>2, PairsStay DEF Orderly, IInv
  <1>. QED BY <1>4, <1>5, <1>6, <1>7 DEF Orderly

(* The lease is still there, so the checkpoint is written and nobody halts. *)
LEMMA CalmCheckpoint ==
  ASSUME IInv, IInv', CalmOK, Calm', NEW w \in Worker, NEW s \in Shard, Checkpoint(w, s)
  PROVE  Orderly'
  <1>1. /\ UNCHANGED <<log, owner, steals, crashes, row, pub, job, drops>>
        /\ batch[w][s].pos > batch[w][s].end
    BY DEF Checkpoint, CheckpointBatch, Finished, Halt, shardVars, workerVars, jobVars
  <1>2. Orderly
    BY <1>1, CalmBefore DEF CalmOK
  <1>3. /\ batch[w][s].pos = batch[w][s].end + 1 /\ ~Idle(w, s)
        /\ batch[w][s].pos \in Nat /\ batch[w][s].end \in Nat
    BY <1>1, StreamTypes DEF IInv, BatchOK, Idle
  <1>4. owner[s] = w /\ ckpt[s] < batch[w][s].pos
    BY <1>2, <1>3 DEF Orderly, OneHolder
  <1>5. /\ ckpt'[s] = batch[w][s].end
        /\ \A z \in Shard : z # s => ckpt'[z] = ckpt[z]
        /\ batch'[w][s].pos = 0
        /\ \A x \in Worker, z \in Shard : ~(x = w /\ z = s) => batch'[x][z] = batch[x][z]
        /\ up' = up
    <2>1. /\ ckpt' = [ckpt EXCEPT ![s] = batch[w][s].end]
          /\ batch' = [batch EXCEPT ![w][s] = NoBatch] /\ up' = up
      BY <1>4 DEF Checkpoint, CheckpointBatch, workerVars
    <2>2. /\ ckpt \in [Shard -> Nat]
          /\ batch \in [Worker -> [Shard -> [pos : Nat, end : Nat]]]
      BY DEF IInv, TypeOK, ShardTypeOK
    <2>3. ckpt'[s] = batch[w][s].end /\ \A z \in Shard : z # s => ckpt'[z] = ckpt[z]
      BY <2>1, <2>2
    <2>4. /\ batch'[w][s] = NoBatch
          /\ \A x \in Worker, z \in Shard : ~(x = w /\ z = s) => batch'[x][z] = batch[x][z]
      BY <2>1, <2>2
    <2>. QED BY <2>1, <2>3, <2>4 DEF NoBatch
  <1>6. AllUp'
    BY <1>2, <1>5 DEF Orderly, AllUp
  <1>7. OneHolder'
    <2>1. SUFFICES ASSUME NEW x \in Worker, NEW z \in Shard, ~Idle(x, z)'
                   PROVE  owner[z] = x /\ ckpt'[z] < batch'[x][z].pos
      BY <1>1 DEF OneHolder
    <2>2. ~(x = w /\ z = s)
      BY <1>5, <2>1 DEF Idle
    <2>3. batch'[x][z] = batch[x][z] /\ ~Idle(x, z)
      BY <1>5, <2>1, <2>2 DEF Idle
    <2>4. owner[z] = x /\ ckpt[z] < batch[x][z].pos
      BY <1>2, <2>3 DEF Orderly, OneHolder
    <2>5. z # s
      BY <1>4, <2>2, <2>4
    <2>. QED BY <1>5, <2>3, <2>4, <2>5
  <1>8. NoRowYet'
    <2>1. SUFFICES ASSUME NEW z \in Shard, NEW i \in 1..Len(log[z]), Untouched(z, i)'
                   PROVE  Untouched(z, i)
      BY <1>1, <1>2 DEF Orderly, NoRowYet
    <2>2. CASE z = s
      <3>1. i > batch[w][s].end /\ i \in Nat /\ ckpt[s] \in Nat
        BY <1>5, <2>1, <2>2, StreamTypes DEF Untouched, IInv
      <3>2. i > ckpt[s]
        BY <1>3, <1>4, <3>1
      <3>3. batch[w][s].pos <= i /\ job[w][s].pc # "push"
        <4>1. job[w][s] = NewJob
          BY <1>1, StreamTypes DEF IInv, BatchOK, InLoop
        <4>. QED BY <1>3, <3>1, <4>1 DEF NewJob
      <3>4. \A x \in Worker : x # w => batch[x][s].pos < i \/ (batch[x][s].pos = i /\ job[x][s].pc # "push")
        BY <1>1, <1>5, <2>1, <2>2 DEF Untouched
      <3>5. batch[w][s].pos < i \/ batch[w][s].pos = i
        BY <1>3, <3>1, <3>3
      <3>. QED BY <2>2, <3>2, <3>3, <3>4, <3>5 DEF Untouched
    <2>3. CASE z # s
      BY <1>1, <1>5, <2>1, <2>3 DEF Untouched
    <2>. QED BY <2>2, <2>3
  <1>9. InPairs'
    <2>1. ~InLoop(w, s)
      BY <1>3 DEF InLoop
    <2>2. \A x \in Worker, z \in Shard : InLoop(x, z) => InLoop(x, z)' /\ Current(x, z)' = Current(x, z)
      BY <1>1, <1>5, <2>1 DEF InLoop, Current
    <2>. QED BY <1>1, <1>2, <1>6, <2>2, PairsStay DEF Orderly, IInv
  <1>. QED BY <1>6, <1>7, <1>8, <1>9 DEF Orderly

(* A thread that goes on at its record, without writing a row. *)
LEMMA CalmGoto ==
  ASSUME IInv, IInv', CalmOK, Calm', NEW w \in Worker, NEW s \in Shard,
         InLoop(w, s), job[w][s].pc \in {"check", "match", "mismatch"},
         NEW next, Goto(w, s, next), StayAtRecord, UNCHANGED <<row, pub, drops>>
  PROVE  Orderly'
  <1>1. UNCHANGED <<log, ckpt, owner, batch, steals, up, crashes>>
    BY DEF StayAtRecord, shardVars, workerVars
  <1>2. Orderly
    BY <1>1, CalmBefore DEF CalmOK
  <1>3. AllUp' /\ OneHolder'
    BY <1>1, <1>2 DEF Orderly, AllUp, OneHolder, Idle
  <1>4. NoRowYet'
    <2>1. \A z \in Shard, i \in Nat : Untouched(z, i)' => Untouched(z, i)
      BY <1>1, UntouchedGoto DEF IInv
    <2>2. \A z \in Shard : \A i \in 1..Len(log[z]) : i \in Nat
      BY StreamTypes DEF IInv
    <2>. QED BY <1>1, <1>2, <2>1, <2>2 DEF Orderly, NoRowYet
  <1>5. InPairs'
    <2>1. \A x \in Worker, z \in Shard : ~(x = w /\ z = s) => job'[x][z] = job[x][z]
      BY GotoOthers DEF IInv
    <2>2. \A x \in Worker, z \in Shard :
            InLoop(x, z)' = InLoop(x, z) /\ Current(x, z)' = Current(x, z)
      BY <1>1 DEF InLoop, Current
    <2>. QED BY <1>2, <1>3, <2>1, <2>2, PairsStay DEF Orderly, IInv
  <1>. QED BY <1>3, <1>4, <1>5 DEF Orderly

LEMMA CalmQuery ==
  ASSUME IInv, IInv', CalmOK, Calm', NEW w \in Worker, NEW s \in Shard,
         CheckExisting(w, s) \/ SelectMatch(w, s) \/ SelectMismatch(w, s)
  PROVE  Orderly'
  <1>1. CASE CheckExisting(w, s)
    <2>1. InLoop(w, s) /\ job[w][s].pc = "check"
      BY <1>1, AtInLoop DEF CheckExisting, IInv
    <2>2. Calm
      BY <1>1, CalmBefore
         DEF CheckExisting, Done, NextRecord, StayAtRecord, shardVars, workerVars
    <2>3. row[Current(w, s)] = "NONE"
      BY <2>1, <2>2, CalmThread DEF CalmOK, Orderly
    <2>. QED BY <1>1, <2>1, <2>3, CalmGoto DEF CheckExisting
  <1>2. CASE SelectMatch(w, s) \/ SelectMismatch(w, s)
    <2>1. InLoop(w, s) /\ job[w][s].pc \in {"match", "mismatch"}
      BY <1>2, AtInLoop DEF SelectMatch, SelectMismatch, IInv
    <2>2. PICK next : Goto(w, s, next)
      BY <1>2 DEF SelectMatch, SelectMismatch
    <2>. QED BY <1>2, <2>1, <2>2, CalmGoto DEF SelectMatch, SelectMismatch
  <1>. QED BY <1>1, <1>2

(* Two threads that speak of the same block are at the same pair: in calm, *)
(* the pairs of other threads are other blocks.                            *)
PairedBy(x, z, t, u) ==
  InLoop(x, z) /\ job[x][z].pc \in {"persist", "push"} /\ Current(x, z) = u /\ job[x][z].found = t

LEMMA PairingBy ==
  ASSUME TypeOK, AllUp, NEW t \in Trade, NEW u \in Trade
  PROVE  Pairing(u, t) <=> \E x \in Worker, z \in Shard : PairedBy(x, z, t, u)
  <1>1. ASSUME Pairing(u, t) PROVE \E x \in Worker, z \in Shard : PairedBy(x, z, t, u)
    <2>1. PICK x \in Worker, z \in Shard :
            /\ At(x, z, "persist") \/ At(x, z, "push")
            /\ Current(x, z) = u /\ job[x][z].found = t
      BY <1>1 DEF Pairing
    <2>2. InLoop(x, z) /\ job[x][z].pc \in {"persist", "push"}
      BY <2>1, AtInLoop
    <2>. QED BY <2>1, <2>2 DEF PairedBy
  <1>2. ASSUME NEW x \in Worker, NEW z \in Shard, PairedBy(x, z, t, u) PROVE Pairing(u, t)
    <2>1. Working(x, z)
      BY <1>2 DEF PairedBy, AllUp, Working, Idle, InLoop, TypeOK, ShardTypeOK
    <2>2. At(x, z, "persist") \/ At(x, z, "push")
      BY <1>2, <2>1 DEF At, PairedBy
    <2>. QED BY <1>2, <2>2 DEF Pairing, PairedBy
  <1>. QED BY <1>1, <1>2

LEMMA PairedByNext ==
  ASSUME TypeOK', AllUp', NEW t \in Trade, NEW u \in Trade,
         NEW x \in Worker, NEW z \in Shard, PairedBy(x, z, t, u)'
  PROVE  Pairing(u, t)'
  <1>1. Working(x, z)'
    BY DEF PairedBy, AllUp, Working, Idle, InLoop, TypeOK, ShardTypeOK
  <1>2. At(x, z, "persist")' \/ At(x, z, "push")'
    BY <1>1 DEF At, PairedBy
  <1>. QED BY <1>2 DEF Pairing, PairedBy

(* A step of one thread leaves the blocks alone that are not its own.      *)
LEMMA OtherPairsStay ==
  ASSUME IInv, TypeOK', AllUp, AllUp', InPairs,
         NEW w \in Worker, NEW s \in Shard, NEW c \in Trade, NEW f \in Trade,
         InLoop(w, s), Current(w, s) = c,
         \A y \in Trade : y # c /\ y # f => row'[y] = row[y] /\ pub'[y] = pub[y],
         \A x \in Worker, z \in Shard : ~(x = w /\ z = s) /\ InLoop(x, z) =>
            InLoop(x, z)' /\ Current(x, z)' = Current(x, z) /\ job'[x][z] = job[x][z],
         NEW t \in Trade, NEW u \in Trade,
         t # c /\ t # f, u # c /\ u # f
  PROVE  Paired(t, u)'
  <1>1. /\ \A x \in Worker, z \in Shard : PairedBy(x, z, t, u) => PairedBy(x, z, t, u)'
        /\ \A x \in Worker, z \in Shard : PairedBy(x, z, u, t) => PairedBy(x, z, u, t)'
    BY DEF PairedBy
  <1>2. Pairing(u, t) => Pairing(u, t)'
    BY <1>1, PairingBy, PairedByNext DEF IInv
  <1>3. Pairing(t, u) => Pairing(t, u)'
    BY <1>1, PairingBy, PairedByNext DEF IInv
  <1>4. row'[t] = row[t] /\ pub'[t] = pub[t] /\ row'[u] = row[u] /\ pub'[u] = pub[u]
    OBVIOUS
  <1>5. Paired(t, u)
    BY DEF InPairs
  <1>. QED BY <1>2, <1>3, <1>4, <1>5 DEF Paired, SameBlock

(* Marking starts the pair: the counterpart has its verdict, the thread's  *)
(* own trade has no row yet.                                               *)
LEMMA CalmMark ==
  ASSUME IInv, IInv', CalmOK, Calm', NEW w \in Worker, NEW s \in Shard,
         MarkCounterpart(w, s)
  PROVE  Orderly'
  <1>. PICK c : c = Current(w, s)
    OBVIOUS
  <1>. PICK f : f = job[w][s].found
    OBVIOUS
  <1>. DEFINE v == job[w][s].verdict
  <1>1. /\ UNCHANGED <<log, ckpt, owner, batch, steals, up, crashes, pub, drops>>
        /\ InLoop(w, s) /\ job[w][s].pc = "mark"
        /\ row' = [row EXCEPT ![f] = v]
        /\ Goto(w, s, [job[w][s] EXCEPT !.pc = "persist"])
    BY AtInLoop DEF MarkCounterpart, StayAtRecord, shardVars, workerVars, IInv
  <1>2. Calm /\ Orderly
    BY <1>1, CalmBefore DEF CalmOK
  <1>3. /\ c \in Trade /\ f \in Trade /\ SameBlock(c, f) /\ SameBlock(f, c)
        /\ v \in Verdict /\ row[f] # "NONE"
    <2>1. f # NoTrade
      BY <1>1 DEF IInv, FoundOK, KnowsFound
    <2>. QED BY <1>1, <2>1, FoundFacts, BlockSymmetric
  <1>4. row[c] = "NONE"
    BY <1>1, <1>2, CalmThread DEF Orderly
  <1>5. \A y \in Trade : row'[y] = IF y = f THEN v ELSE row[y]
    BY <1>1 DEF IInv, TypeOK
  <1>6. /\ job'[w][s].pc = "persist" /\ job'[w][s].found = f
        /\ \A x \in Worker, z \in Shard : ~(x = w /\ z = s) => job'[x][z] = job[x][z]
    <2>1. job'[w][s] = [job[w][s] EXCEPT !.pc = "persist"] /\ job[w][s] \in Job
      BY <1>1, GotoOthers DEF IInv, TypeOK
    <2>2. job'[w][s].pc = "persist" /\ job'[w][s].found = f
      BY <2>1 DEF Job
    <2>. QED BY <1>1, <2>2, GotoOthers DEF IInv
  <1>7. AllUp' /\ OneHolder'
    BY <1>1, <1>2 DEF Orderly, AllUp, OneHolder, Idle
  <1>8. NoRowYet'
    <2>1. SUFFICES ASSUME NEW z \in Shard, NEW i \in 1..Len(log[z]), Untouched(z, i)'
                   PROVE  row'[log[z][i]] = "NONE"
      BY <1>1 DEF NoRowYet
    <2>2. Untouched(z, i) /\ log[z][i] \in Trade
      <3>1. i \in Nat /\ log[z] \in Seq(Trade)
        BY StreamTypes DEF IInv
      <3>2. Untouched(z, i)
        BY <1>1, <2>1, <3>1, UntouchedGoto DEF IInv
      <3>. QED BY <3>1, <3>2
    <2>3. row[log[z][i]] = "NONE"
      BY <1>2, <2>2 DEF Orderly, NoRowYet
    <2>. QED BY <1>3, <1>5, <2>2, <2>3
  <1>9. InPairs'
    <2>1. SUFFICES ASSUME NEW t \in Trade, NEW u \in Trade PROVE Paired(t, u)'
      BY DEF InPairs
    <2>2. Pairing(c, f)'
      <3>1. PairedBy(w, s, f, c)'
        BY <1>1, <1>6 DEF PairedBy, InLoop, Current
      <3>. QED BY <1>3, <1>7, <3>1, PairedByNext DEF IInv
    <2>3. CASE t = f
      BY <1>3, <2>2, <2>3, BlockSymmetric DEF Paired, SameBlock
    <2>4. CASE t = c
      BY <1>3, <1>4, <1>5, <2>4, BlockSymmetric DEF Paired, Verdict
    <2>5. CASE u \in {c, f} /\ t \notin {c, f}
      BY <1>3, <2>5, BlockSymmetric DEF Paired, SameBlock
    <2>6. CASE t \notin {c, f} /\ u \notin {c, f}
      <3>1. \A x \in Worker, z \in Shard :
              InLoop(x, z)' = InLoop(x, z) /\ Current(x, z)' = Current(x, z)
        BY <1>1 DEF InLoop, Current
      <3>. QED BY <1>1, <1>2, <1>3, <1>5, <1>6, <1>7, <2>6, <3>1, OtherPairsStay DEF Orderly, IInv
    <2>. QED BY <2>3, <2>4, <2>5, <2>6
  <1>. QED BY <1>7, <1>8, <1>9 DEF Orderly

(* The insert finds no row; a trade that is stored unmatched has a         *)
(* counterpart without a verdict, since nobody else could have paired it.  *)
LEMMA CalmPersist ==
  ASSUME IInv, IInv', CalmOK, Calm', NEW w \in Worker, NEW s \in Shard,
         PersistTrade(w, s)
  PROVE  Orderly'
  <1>. PICK c : c = Current(w, s)
    OBVIOUS
  <1>. PICK f : f = job[w][s].found
    OBVIOUS
  <1>. DEFINE v == job[w][s].verdict
  <1>1. /\ UNCHANGED <<log, ckpt, owner, steals, crashes, pub, drops>>
        /\ InLoop(w, s) /\ job[w][s].pc = "persist"
    BY AtInLoop DEF PersistTrade, Done, NextRecord, Halt, StayAtRecord, shardVars, workerVars, IInv
  <1>2. Calm /\ Orderly
    BY <1>1, CalmBefore DEF CalmOK
  <1>3. c \in Trade /\ row[c] = "NONE"
    BY <1>1, <1>2, CalmThread, CurrentType DEF Orderly, IInv
  <1>4. /\ row' = [row EXCEPT ![c] = v]
        /\ f = NoTrade => Done(w, s)
        /\ f # NoTrade => Goto(w, s, [job[w][s] EXCEPT !.pc = "push"]) /\ batch' = batch
        /\ up' = up
    BY <1>3 DEF PersistTrade, Done, NextRecord, StayAtRecord, shardVars, workerVars
  <1>5. \A y \in Trade : row'[y] = IF y = c THEN v ELSE row[y]
    BY <1>4 DEF IInv, TypeOK
  <1>6. /\ \A x \in Worker, z \in Shard : ~(x = w /\ z = s) =>
             /\ job'[x][z] = job[x][z] /\ batch'[x][z] = batch[x][z]
             /\ InLoop(x, z)' = InLoop(x, z) /\ Current(x, z)' = Current(x, z)
        /\ \A x \in Worker, z \in Shard : ~Idle(x, z)' =>
             ~Idle(x, z) /\ batch'[x][z].pos >= batch[x][z].pos
    <2>1. CASE f = NoTrade
      <3>1. batch' = [batch EXCEPT ![w][s] = [pos |-> @.pos + 1, end |-> @.end]]
        BY <1>4, <2>1 DEF Done, NextRecord
      <3>2. batch \in [Worker -> [Shard -> [pos : Nat, end : Nat]]]
        BY DEF IInv, TypeOK, ShardTypeOK
      <3>3. batch'[w][s].pos = batch[w][s].pos + 1
        BY <3>1, <3>2
      <3>4. \A x \in Worker, z \in Shard : ~(x = w /\ z = s) => batch'[x][z] = batch[x][z]
        BY <3>1, <3>2
      <3>5. \A x \in Worker, z \in Shard : ~Idle(x, z)' =>
               ~Idle(x, z) /\ batch'[x][z].pos >= batch[x][z].pos
        BY <1>1, <3>3, <3>4, StreamTypes DEF IInv, InLoop, Idle
      <3>. QED BY <1>4, <2>1, <3>5, DoneOthers DEF IInv
    <2>2. CASE f # NoTrade
      BY <1>1, <1>4, <2>2, GotoOthers, StreamTypes DEF IInv, InLoop, Current, Idle
    <2>. QED BY <2>1, <2>2
  <1>7. AllUp' /\ OneHolder'
    <2>1. AllUp'
      BY <1>2, <1>4 DEF Orderly, AllUp
    <2>2. SUFFICES ASSUME NEW x \in Worker, NEW z \in Shard, ~Idle(x, z)'
                   PROVE  owner[z] = x /\ ckpt[z] < batch'[x][z].pos
      BY <1>1, <2>1 DEF OneHolder
    <2>3. ~Idle(x, z) /\ batch'[x][z].pos >= batch[x][z].pos
      BY <1>6, <2>2
    <2>4. owner[z] = x /\ ckpt[z] < batch[x][z].pos
      BY <1>2, <2>3 DEF Orderly, OneHolder
    <2>5. ckpt[z] \in Nat /\ batch[x][z].pos \in Nat /\ batch'[x][z].pos \in Nat
      BY StreamTypes DEF IInv, TypeOK, ShardTypeOK
    <2>. QED BY <2>3, <2>4, <2>5
  <1>8. NoRowYet'
    <2>1. SUFFICES ASSUME NEW z \in Shard, NEW i \in 1..Len(log[z]), Untouched(z, i)'
                   PROVE  row'[log[z][i]] = "NONE"
      BY <1>1 DEF NoRowYet
    <2>2. i \in Nat /\ log[z] \in Seq(Trade) /\ log[z][i] \in Trade
          /\ batch[w][s].pos \in 1..Len(log[s])
      <3>1. i \in Nat /\ log[z] \in Seq(Trade)
        BY StreamTypes DEF IInv
      <3>. QED BY <1>1, <3>1, CurrentType DEF IInv
    <2>3. Untouched(z, i) /\ ~(z = s /\ i = batch[w][s].pos)
      <3>1. CASE f = NoTrade
        BY <1>4, <2>1, <2>2, <3>1, UntouchedDone DEF IInv
      <3>2. CASE f # NoTrade
        <4>1. Untouched(z, i)
          BY <1>1, <1>4, <2>1, <2>2, <3>2, UntouchedGoto DEF IInv
        <4>2. job'[w][s].pc = "push" /\ batch' = batch
          <5>1. job'[w][s] = [job[w][s] EXCEPT !.pc = "push"] /\ job[w][s] \in Job
            BY <1>4, <3>2, GotoOthers DEF IInv, TypeOK
          <5>. QED BY <1>4, <3>2, <5>1 DEF Job
        <4>. QED BY <2>1, <2>2, <4>1, <4>2 DEF Untouched
      <3>. QED BY <3>1, <3>2
    <2>4. log[z][i] # c
      BY <1>2, <2>2, <2>3 DEF Calm, Current
    <2>5. row[log[z][i]] = "NONE"
      BY <1>2, <2>3 DEF Orderly, NoRowYet
    <2>. QED BY <1>5, <2>2, <2>4, <2>5
  <1>9. InPairs'
    <2>1. SUFFICES ASSUME NEW t \in Trade, NEW u \in Trade, SameBlock(t, u) PROVE Paired(t, u)'
      BY DEF InPairs, Paired, SameBlock
    <2>2. CASE f = NoTrade
      <3>1. v = "UNMATCHED"
        <4>1. KnowsFound(w, s)
          BY <1>1 DEF IInv, FoundOK
        <4>. QED BY <1>1, <2>2, <4>1 DEF KnowsFound
      <3>2. CASE t = c
        BY <1>3, <1>5, <3>1, <3>2 DEF Paired, Verdict
      <3>3. CASE u = c
        <4>1. t # c /\ row'[t] = row[t]
          BY <1>5, <2>1, <3>3, BlockSymmetric
        <4>2. ~Pairing(c, t)
          <5>1. SUFFICES ASSUME NEW x \in Worker, NEW z \in Shard, PairedBy(x, z, t, c)
                         PROVE  FALSE
            BY <1>2, <1>3, PairingBy DEF Orderly, IInv
          <5>2. x = w /\ z = s
            BY <1>1, <1>2, <5>1, CalmThread DEF Orderly, PairedBy
          <5>. QED BY <2>2, <5>1, <5>2, TradeAssumption DEF PairedBy
        <4>3. Paired(t, c)
          BY <1>2, <1>3 DEF Orderly, InPairs
        <4>4. row[t] \notin Verdict
          BY <1>3, <2>1, <3>3, <4>2, <4>3 DEF Paired, Verdict
        <4>. QED BY <4>1, <4>4 DEF Paired
      <3>4. CASE t # c /\ u # c
        BY <1>1, <1>2, <1>3, <1>5, <1>6, <1>7, <3>4, OtherPairsStay DEF Orderly, IInv
      <3>. QED BY <3>2, <3>3, <3>4
    <2>3. CASE f # NoTrade
      <3>1. /\ f \in Trade /\ SameBlock(c, f) /\ SameBlock(f, c) /\ c # f
            /\ v \in Verdict /\ row[f] = v
        BY <1>1, <2>3, FoundFacts, BlockSymmetric
      <3>2. Pairing(c, f)'
        <4>1. job'[w][s] = [job[w][s] EXCEPT !.pc = "push"] /\ job[w][s] \in Job
          BY <1>4, <2>3, GotoOthers DEF IInv, TypeOK
        <4>2. job'[w][s].pc = "push" /\ job'[w][s].found = f
          BY <4>1 DEF Job
        <4>3. PairedBy(w, s, f, c)'
          BY <1>1, <1>4, <2>3, <4>2 DEF PairedBy, InLoop, Current
        <4>. QED BY <1>3, <1>7, <3>1, <4>3, PairedByNext DEF IInv
      <3>3. CASE t = f
        <4>1. u = c
          BY <1>3, <2>1, <3>1, <3>3, BlockSymmetric
        <4>. QED BY <3>2, <3>3, <4>1 DEF Paired
      <3>4. CASE t = c
        <4>1. u = f
          BY <1>3, <2>1, <3>1, <3>4, BlockSymmetric
        <4>. QED BY <1>3, <1>5, <3>1, <3>2, <3>4, <4>1 DEF Paired
      <3>5. CASE t \notin {c, f}
        <4>1. u \notin {c, f}
          BY <1>3, <2>1, <3>1, <3>5, BlockSymmetric
        <4>. QED BY <1>1, <1>2, <1>3, <1>5, <1>6, <1>7, <3>5, <4>1, OtherPairsStay DEF Orderly, IInv
      <3>. QED BY <3>3, <3>4, <3>5
    <2>. QED BY <2>2, <2>3
  <1>. QED BY <1>7, <1>8, <1>9 DEF Orderly

(* No record was dropped, so none is dropped now. *)
LEMMA NothingDropped ==
  ASSUME NEW x, NEW y, NEW lost \in SUBSET {x, y}, NEW n \in Nat, n + Cardinality(lost) = 0
  PROVE  n = 0 /\ lost = {}
  <1>1. IsFiniteSet({x, y})
    <2>1. IsFiniteSet({x}) /\ {x} \cup {y} = {x, y}
      BY FS_Singleton
    <2>. QED BY <2>1, FS_AddElement
  <1>2. IsFiniteSet(lost) /\ Cardinality(lost) \in Nat
    BY <1>1, FS_Subset, FS_CardinalityType
  <1>3. n = 0 /\ Cardinality(lost) = 0
    BY <1>2
  <1>. QED BY <1>2, <1>3, FS_EmptySet

(* The push ends the pair: both sides were sent, once. *)
LEMMA CalmPush ==
  ASSUME IInv, IInv', CalmOK, Calm', NEW w \in Worker, NEW s \in Shard, PushPair(w, s)
  PROVE  Orderly'
  <1>. PICK c : c = Current(w, s)
    OBVIOUS
  <1>. PICK f : f = job[w][s].found
    OBVIOUS
  <1>. DEFINE v == job[w][s].verdict
  <1>1. /\ UNCHANGED <<log, ckpt, owner, steals, up, crashes, row>>
        /\ InLoop(w, s) /\ job[w][s].pc = "push" /\ Pushing(w, s) /\ Done(w, s)
    BY AtInLoop DEF PushPair, Done, NextRecord, workerVars, IInv, Pushing
  <1>2. /\ c \in Trade /\ f \in Trade /\ SameBlock(c, f) /\ SameBlock(f, c) /\ c # f
        /\ v \in Verdict /\ row[c] = v /\ row[f] = v
        /\ \A k \in Verdict : pub[c][k] = 0 /\ pub[f][k] = 0
    <2>1. /\ c \in Trade /\ f \in Trade /\ SameBlock(c, f)
          /\ v \in Verdict /\ row[c] = v /\ row[f] = v
      BY <1>1, PushingFacts, FoundFacts
    <2>2. \A k \in Verdict : pub[c][k] = 0 /\ pub[f][k] = 0
      BY <1>1 DEF IInv, PushOK
    <2>. QED BY <2>1, <2>2, BlockSymmetric
  <1>3. PICK lost \in SUBSET {c, f} :
          /\ drops' = drops + Cardinality(lost)
          /\ pub' = [x \in Trade |->
                       IF x = c /\ x \notin lost THEN Bump(pub[x], v)
                       ELSE IF x = f /\ x \notin lost THEN Bump(pub[x], row[x])
                       ELSE pub[x]]
    BY DEF PushPair
  <1>4. drops = 0 /\ lost = {}
    <2>1. drops \in Nat /\ drops + Cardinality(lost) = 0
      BY <1>3 DEF IInv, TypeOK, Calm
    <2>. QED BY <2>1, NothingDropped
  <1>5. Calm /\ Orderly
    <2>1. UNCHANGED <<log, crashes, steals, drops>>
      BY <1>1, <1>4 DEF Calm
    <2>. QED BY <2>1, CalmBefore DEF CalmOK
  <1>6. /\ \A y \in Trade : y # c /\ y # f => pub'[y] = pub[y]
        /\ pub'[c][v] = 1 /\ pub'[f][v] = 1
    <2>1. pub'[c] = Bump(pub[c], v) /\ pub'[f] = Bump(pub[f], v)
      BY <1>2, <1>3, <1>4
    <2>2. pub[c] \in [Status -> Nat] /\ pub[f] \in [Status -> Nat] /\ v \in Status
      BY <1>2 DEF IInv, TypeOK, Verdict, Status
    <2>3. pub'[c][v] = 1 /\ pub'[f][v] = 1
      <3>1. pub[c][v] = 0 /\ pub[f][v] = 0
        BY <1>2
      <3>2. Bump(pub[c], v)[v] = pub[c][v] + 1 /\ Bump(pub[f], v)[v] = pub[f][v] + 1
        BY <2>2 DEF Bump
      <3>. QED BY <2>1, <3>1, <3>2
    <2>. QED BY <1>3, <2>3
  <1>7. /\ \A x \in Worker, z \in Shard : ~(x = w /\ z = s) =>
             /\ job'[x][z] = job[x][z] /\ batch'[x][z] = batch[x][z]
             /\ InLoop(x, z)' = InLoop(x, z) /\ Current(x, z)' = Current(x, z)
        /\ batch'[w][s].pos = batch[w][s].pos + 1
    <2>1. batch'[w][s].pos = batch[w][s].pos + 1
      BY <1>1 DEF IInv, Done, NextRecord, TypeOK, ShardTypeOK
    <2>. QED BY <1>1, <2>1, DoneOthers DEF IInv
  <1>8. AllUp' /\ OneHolder'
    <2>1. AllUp'
      BY <1>1, <1>5 DEF Orderly, AllUp
    <2>2. SUFFICES ASSUME NEW x \in Worker, NEW z \in Shard, ~Idle(x, z)'
                   PROVE  owner[z] = x /\ ckpt[z] < batch'[x][z].pos
      BY <1>1, <2>1 DEF OneHolder
    <2>3. CASE x = w /\ z = s
      <3>1. owner[s] = w /\ ckpt[s] < batch[w][s].pos
        BY <1>1, <1>5, CalmThread DEF Orderly
      <3>. QED BY <1>7, <2>3, <3>1, StreamTypes DEF IInv
    <2>4. CASE ~(x = w /\ z = s)
      BY <1>5, <1>7, <2>2, <2>4 DEF Orderly, OneHolder, Idle
    <2>. QED BY <2>3, <2>4
  <1>9. NoRowYet'
    <2>1. \A z \in Shard : \A i \in 1..Len(log[z]) : i \in Nat
      BY StreamTypes DEF IInv
    <2>2. \A z \in Shard, i \in Nat : Untouched(z, i)' => Untouched(z, i)
      BY <1>1, UntouchedDone DEF IInv
    <2>. QED BY <1>1, <1>5, <2>1, <2>2 DEF Orderly, NoRowYet
  <1>10. InPairs'
    <2>1. SUFFICES ASSUME NEW t \in Trade, NEW u \in Trade, SameBlock(t, u) PROVE Paired(t, u)'
      BY DEF InPairs, Paired, SameBlock
    <2>2. CASE t \in {c, f}
      <3>1. u \in {c, f} /\ row'[t] = v /\ row'[u] = v
        BY <1>1, <1>2, <2>1, <2>2, BlockSymmetric
      <3>. QED BY <1>6, <2>2, <3>1 DEF Paired
    <2>3. CASE t \notin {c, f}
      <3>1. u \notin {c, f}
        BY <1>2, <2>1, <2>3, BlockSymmetric
      <3>. QED BY <1>1, <1>2, <1>5, <1>6, <1>7, <1>8, <2>3, <3>1, OtherPairsStay DEF Orderly, IInv
    <2>. QED BY <2>2, <2>3
  <1>. QED BY <1>8, <1>9, <1>10 DEF Orderly

LEMMA CalmInit == Init => CalmOK
  <1>. SUFFICES ASSUME Init PROVE Orderly
    BY DEF CalmOK
  <1>1. AllUp /\ OneHolder
    BY DEF Init, ShardInit, AllUp, OneHolder, Idle, NoBatch
  <1>2. NoRowYet
    BY DEF Init, ShardInit, NoRowYet
  <1>3. InPairs
    BY DEF Init, InPairs, Paired, Verdict
  <1>. QED BY <1>1, <1>2, <1>3 DEF Orderly

LEMMA CalmNext == IInv /\ IInv' /\ JustOK /\ CalmOK /\ [Next]_vars => CalmOK'
  <1>. SUFFICES ASSUME IInv, IInv', JustOK, CalmOK, [Next]_vars, Calm' PROVE Orderly'
    BY DEF CalmOK
  <1>1. ASSUME NEW t \in Trade, NEW s \in Shard, ReceiveTrade(t, s) PROVE Orderly'
    BY <1>1, CalmReceive
  <1>2. ASSUME NEW w \in Worker, NEW s \in Shard, Steal(w, s) PROVE FALSE
    BY <1>2 DEF Steal, StealLease, Calm, IInv, TypeOK, ShardTypeOK
  <1>3. ASSUME NEW w \in Worker, NEW s \in Shard, WorkerStep(w, s) PROVE Orderly'
    BY <1>2, <1>3, CalmTake, CalmFetch, CalmCheckpoint, CalmQuery, CalmMark, CalmPersist, CalmPush
       DEF WorkerStep, ProcessRecord
  <1>4. ASSUME NEW w \in Worker, Crash(w) PROVE FALSE
    BY <1>4 DEF Crash, CrashWorker, Calm, IInv, TypeOK, ShardTypeOK
  <1>5. ASSUME NEW w \in Worker, Restart(w) PROVE FALSE
    <2>1. ~up[w] /\ UNCHANGED <<log, crashes, steals, drops>>
      BY <1>5 DEF Restart, RestartWorker
    <2>2. AllUp
      BY <2>1, CalmBefore DEF CalmOK, Orderly
    <2>. QED BY <2>1, <2>2 DEF AllUp
  <1>6. CASE UNCHANGED vars
    <2>1. UNCHANGED <<log, ckpt, owner, batch, steals, up, crashes, row, job, pub, drops>>
      BY <1>6 DEF vars, shardVars, workerVars
    <2>2. Orderly
      BY <2>1, CalmBefore DEF CalmOK
    <2>3. AllUp' /\ OneHolder' /\ NoRowYet'
      BY <2>1, <2>2 DEF Orderly, AllUp, OneHolder, Idle, NoRowYet, Untouched
    <2>4. InPairs'
      <3>1. \A x \in Worker, z \in Shard : InLoop(x, z)' = InLoop(x, z) /\ Current(x, z)' = Current(x, z)
        BY <2>1 DEF InLoop, Current
      <3>. QED BY <2>1, <2>2, <2>3, <3>1, PairsStay DEF Orderly, IInv
    <2>. QED BY <2>3, <2>4 DEF Orderly
  <1>. QED BY <1>1, <1>3, <1>4, <1>5, <1>6 DEF Next

(* The invariant with what holds as long as nothing goes wrong. *)
THEOREM FullInvariance == Spec => []FullInv
  <1>1. Init => JustOK /\ CalmOK
    BY CalmInit DEF Init, JustOK, Verdict
  <1>2. IInv /\ IInv' /\ JustOK /\ CalmOK /\ [Next]_vars => JustOK' /\ CalmOK'
    BY JustNext, CalmNext
  <1>3. IInv /\ JustOK /\ CalmOK => FullInv
    BY DEF FullInv
  <1>. QED BY <1>1, <1>2, <1>3, Invariance, PTL DEF Spec

(* A state that was not disturbed is calm: with one copy of each trade no  *)
(* two records of the stream are the same.                                 *)
LEMMA UndisturbedIsCalm ==
  ASSUME TypeOK, Undisturbed
  PROVE  Calm
  <1>1. SUFFICES ASSUME NEW s \in Shard, NEW z \in Shard, NEW i \in 1..Len(log[s]),
                        NEW k \in 1..Len(log[z]), log[s][i] = log[z][k]
                 PROVE  s = z /\ i = k
    BY DEF Calm, Undisturbed
  <1>2. log[s][i] \in Trade
    BY DEF TypeOK, ShardTypeOK
  <1>3. Copies(log[s][i]) <= 1
    BY <1>2 DEF Undisturbed
  <1>. QED BY <1>1, <1>3, OnePlace DEF TypeOK, ShardTypeOK

(* As long as no task crashes, no lease moves and no record comes twice or *)
(* is dropped, a verdict never stands alone: the other side has the same   *)
(* one, and both were sent, or a thread is still between the two.          *)
THEOREM PairsComplete == Spec => []VerdictsComeInPairs
  <1>1. FullInv => VerdictsComeInPairs
    BY UndisturbedIsCalm DEF FullInv, IInv, CalmOK, Orderly, InPairs, Paired, VerdictsComeInPairs
  <1>. QED BY <1>1, FullInvariance, PTL

----------------------------------------------------------------------------
(* With one shard, trade matching implements PairMatching up to the first   *)
(* crash or lease that moves.                                              *)
OneShard == \A s, z \in Shard : s = z

(* There is one thread in the loop. *)
LEMMA OneThread ==
  ASSUME IInv, OneShard, HasLease,
         NEW w \in Worker, NEW s \in Shard, InLoop(w, s),
         NEW x \in Worker, NEW z \in Shard, InLoop(x, z)
  PROVE  x = w /\ z = s
  <1>1. ~Idle(w, s) /\ ~Idle(x, z)
    BY StreamTypes DEF InLoop, Idle, IInv
  <1>. QED BY <1>1 DEF HasLease, OneShard

LEMMA SerialBefore ==
  ASSUME TypeOK, [Next]_vars, Serial'
  PROVE  Serial
  <1>0. crashes \in Nat /\ steals \in Nat
    BY DEF TypeOK, ShardTypeOK
  <1>1. ASSUME NEW t \in Trade, NEW s \in Shard, ReceiveTrade(t, s) PROVE Serial
    BY <1>1 DEF ReceiveTrade, Put, workerVars, Serial
  <1>2. ASSUME NEW w \in Worker, NEW s \in Shard,
               Take(w, s) \/ Steal(w, s) \/ Fetch(w, s) \/ Checkpoint(w, s)
        PROVE  Serial
    BY <1>0, <1>2
       DEF Take, Steal, Fetch, Checkpoint, TakeLease, StealLease, FetchBatch,
           CheckpointBatch, Halt, shardVars, workerVars, Serial
  <1>3. ASSUME NEW w \in Worker, NEW s \in Shard, ProcessRecord(w, s) PROVE Serial
    BY <1>3
       DEF ProcessRecord, CheckExisting, SelectMatch, SelectMismatch, MarkCounterpart,
           PersistTrade, PushPair, Done, NextRecord, Halt, StayAtRecord,
           shardVars, workerVars, Serial
  <1>4. ASSUME NEW w \in Worker, Crash(w) \/ Restart(w) PROVE Serial
    BY <1>0, <1>4 DEF Crash, CrashWorker, Restart, RestartWorker, shardVars, Serial
  <1>5. CASE UNCHANGED vars
    BY <1>5 DEF vars, shardVars, workerVars, Serial
  <1>. QED BY <1>1, <1>2, <1>3, <1>4, <1>5 DEF Next, WorkerStep

(* A step outside the loop: what a thread knows of the rows stays true.    *)
LEMMA SerialOutside ==
  ASSUME AllUp, HasLease, \A w \in Worker, s \in Shard : InLoop(w, s) => KnowsRows(w, s),
         row' = row, AllUp', HasLease',
         \A x \in Worker, z \in Shard : InLoop(x, z)' =>
            \/ InLoop(x, z) /\ Current(x, z)' = Current(x, z) /\ job'[x][z] = job[x][z]
            \/ job'[x][z] = NewJob
  PROVE  SerialOK'
  <1>1. SUFFICES ASSUME NEW x \in Worker, NEW z \in Shard, InLoop(x, z)' PROVE KnowsRows(x, z)'
    BY DEF SerialOK
  <1>2. CASE job'[x][z] = NewJob
    BY <1>2 DEF KnowsRows, NewJob
  <1>3. CASE InLoop(x, z) /\ Current(x, z)' = Current(x, z) /\ job'[x][z] = job[x][z]
    <2>1. KnowsRows(x, z)
      BY <1>3
    <2>. QED BY <1>3, <2>1 DEF KnowsRows, Unmatched, Agrees, SameBlock
  <1>. QED BY <1>1, <1>2, <1>3

(* A step of the only thread in the loop. *)
LEMMA SerialInside ==
  ASSUME IInv, OneShard, AllUp', HasLease, HasLease',
         NEW w \in Worker, NEW s \in Shard, InLoop(w, s), KnowsRows(w, s)' \/ ~InLoop(w, s)',
         \A x \in Worker, z \in Shard : ~(x = w /\ z = s) => InLoop(x, z)' = InLoop(x, z)
  PROVE  SerialOK'
  <1>1. SUFFICES ASSUME NEW x \in Worker, NEW z \in Shard, InLoop(x, z)' PROVE KnowsRows(x, z)'
    BY DEF SerialOK
  <1>2. x = w /\ z = s
    BY <1>1, OneThread
  <1>. QED BY <1>1, <1>2

(* Where the thread is after a record. *)
LEMMA DoneLease ==
  ASSUME TypeOK, AllUp, HasLease, NEW w \in Worker, NEW s \in Shard, InLoop(w, s), Done(w, s)
  PROVE  AllUp' /\ HasLease'
  <1>1. UNCHANGED <<owner, up>>
        /\ \A x \in Worker, z \in Shard : ~(x = w /\ z = s) => batch'[x][z] = batch[x][z]
    BY DoneOthers DEF Done, NextRecord, workerVars
  <1>2. ~Idle(w, s)
    BY DEF InLoop, Idle, TypeOK, ShardTypeOK
  <1>. QED BY <1>1, <1>2 DEF AllUp, HasLease, Idle

LEMMA StayLease ==
  ASSUME AllUp, HasLease, StayAtRecord
  PROVE  /\ AllUp' /\ HasLease'
         /\ \A x \in Worker, z \in Shard :
              InLoop(x, z)' = InLoop(x, z) /\ Current(x, z)' = Current(x, z)
  BY DEF AllUp, HasLease, Idle, InLoop, Current, StayAtRecord, shardVars, workerVars

LEMMA SerialQuery ==
  ASSUME IInv, OneShard, AllUp, HasLease, NEW w \in Worker, NEW s \in Shard,
         InLoop(w, s) => KnowsRows(w, s),
         CheckExisting(w, s) \/ SelectMatch(w, s) \/ SelectMismatch(w, s)
  PROVE  SerialOK'
  <1>. PICK c : c = Current(w, s)
    OBVIOUS
  <1>1. InLoop(w, s) /\ KnowsRows(w, s) /\ row' = row
    BY AtInLoop DEF CheckExisting, SelectMatch, SelectMismatch, IInv
  <1>2. c \in Trade /\ job[w][s] \in Job
    BY <1>1, CurrentType DEF IInv, TypeOK
  <1>3. CASE Done(w, s)
    <2>1. AllUp' /\ HasLease'
      BY <1>1, <1>3, DoneLease DEF IInv
    <2>2. KnowsRows(w, s)'
      BY <1>3, DoneOthers DEF IInv, KnowsRows, NewJob
    <2>. QED BY <1>1, <1>3, <2>1, <2>2, DoneOthers, SerialInside DEF IInv
  <1>4. CASE StayAtRecord
    <2>1. /\ AllUp' /\ HasLease'
          /\ \A x \in Worker, z \in Shard :
               InLoop(x, z)' = InLoop(x, z) /\ Current(x, z)' = Current(x, z)
      BY <1>4, StayLease
    <2>2. KnowsRows(w, s)'
      <3>1. CASE CheckExisting(w, s)
        <4>1. CASE row[c] = "NONE"
          <5>1. job'[w][s] = [NewJob EXCEPT !.pc = "match"]
            BY <3>1, <4>1, GotoOthers DEF CheckExisting, IInv
          <5>2. job'[w][s].pc = "match"
            BY <5>1 DEF NewJob
          <5>. QED BY <1>1, <2>1, <4>1, <5>2 DEF KnowsRows
        <4>2. CASE row[c] # "NONE"
          <5>1. job'[w][s] = NewJob
            BY <3>1, <4>2, DoneOthers DEF CheckExisting, IInv
          <5>. QED BY <5>1 DEF KnowsRows, NewJob
        <4>. QED BY <4>1, <4>2
      <3>2. CASE SelectMatch(w, s)
        <4>1. row[c] = "NONE" /\ job[w][s].found = NoTrade
          BY <1>1, <3>2, TradeAssumption DEF KnowsRows, SelectMatch, At, IInv, FoundOK, KnowsFound
        <4>2. CASE /\ \A u \in Trade : Agrees(c, u) => ~Unmatched(u)
                   /\ Goto(w, s, [job[w][s] EXCEPT !.pc = "mismatch"])
          <5>1. job'[w][s] = [job[w][s] EXCEPT !.pc = "mismatch"]
            BY <4>2, GotoOthers DEF IInv
          <5>2. job'[w][s].pc = "mismatch"
            BY <1>2, <5>1 DEF Job
          <5>. QED BY <1>1, <2>1, <4>1, <4>2, <5>2 DEF KnowsRows, Unmatched, Agrees, SameBlock
        <4>3. CASE \E u \in Trade :
                     /\ Agrees(c, u) /\ Unmatched(u)
                     /\ Goto(w, s, [pc |-> "mark", found |-> u, verdict |-> "MATCHED"])
          <5>1. PICK u \in Trade : /\ Unmatched(u)
                                   /\ Goto(w, s, [pc |-> "mark", found |-> u, verdict |-> "MATCHED"])
            BY <4>3
          <5>2. job'[w][s].pc = "mark" /\ job'[w][s].found = u
            BY <5>1, GotoOthers DEF IInv
          <5>. QED BY <1>1, <2>1, <4>1, <5>1, <5>2 DEF KnowsRows, Unmatched
        <4>. QED BY <3>2, <4>2, <4>3 DEF SelectMatch
      <3>3. CASE SelectMismatch(w, s)
        <4>1. row[c] = "NONE" /\ job[w][s].found = NoTrade
              /\ \A u \in Trade : Agrees(c, u) => ~Unmatched(u)
          BY <1>1, <3>3, TradeAssumption
             DEF KnowsRows, SelectMismatch, At, IInv, FoundOK, KnowsFound
        <4>2. CASE /\ \A u \in Trade : Disagrees(c, u) => ~Unmatched(u)
                   /\ Goto(w, s, [job[w][s] EXCEPT !.pc = "persist"])
          <5>1. job'[w][s] = [job[w][s] EXCEPT !.pc = "persist"]
            BY <4>2, GotoOthers DEF IInv
          <5>2. job'[w][s].pc = "persist" /\ job'[w][s].found = NoTrade
            BY <1>2, <4>1, <5>1 DEF Job
          <5>3. \A u \in Trade : SameBlock(c, u) => ~Unmatched(u)
            BY <4>1, <4>2 DEF Agrees, Disagrees
          <5>. QED BY <1>1, <2>1, <4>1, <5>2, <5>3 DEF KnowsRows, Unmatched, SameBlock
        <4>3. CASE \E u \in Trade :
                     /\ Disagrees(c, u) /\ Unmatched(u)
                     /\ Goto(w, s, [pc |-> "mark", found |-> u, verdict |-> "MISMATCHED"])
          <5>1. PICK u \in Trade : /\ Unmatched(u)
                                   /\ Goto(w, s, [pc |-> "mark", found |-> u, verdict |-> "MISMATCHED"])
            BY <4>3
          <5>2. job'[w][s].pc = "mark" /\ job'[w][s].found = u
            BY <5>1, GotoOthers DEF IInv
          <5>. QED BY <1>1, <2>1, <4>1, <5>1, <5>2 DEF KnowsRows, Unmatched
        <4>. QED BY <3>3, <4>2, <4>3 DEF SelectMismatch
      <3>. QED BY <3>1, <3>2, <3>3
    <2>. QED BY <1>1, <2>1, <2>2, SerialInside
  <1>. QED BY <1>3, <1>4 DEF CheckExisting, SelectMatch, SelectMismatch

LEMMA SerialMark ==
  ASSUME IInv, OneShard, AllUp, HasLease, NEW w \in Worker, NEW s \in Shard,
         InLoop(w, s) => KnowsRows(w, s), MarkCounterpart(w, s)
  PROVE  SerialOK'
  <1>. PICK c : c = Current(w, s)
    OBVIOUS
  <1>. PICK f : f = job[w][s].found
    OBVIOUS
  <1>1. /\ InLoop(w, s) /\ KnowsRows(w, s) /\ job[w][s].pc = "mark" /\ StayAtRecord
        /\ row' = [row EXCEPT ![f] = job[w][s].verdict]
        /\ job[w][s] \in Job /\ c \in Trade
    BY AtInLoop, CurrentType DEF MarkCounterpart, IInv, TypeOK
  <1>2. /\ AllUp' /\ HasLease'
        /\ \A x \in Worker, z \in Shard :
             InLoop(x, z)' = InLoop(x, z) /\ Current(x, z)' = Current(x, z)
    BY <1>1, StayLease
  <1>3. f # NoTrade /\ SameBlock(c, f) /\ f \in Trade
    <2>1. f # NoTrade
      BY <1>1 DEF IInv, FoundOK, KnowsFound
    <2>. QED BY <1>1, <2>1, FoundFacts
  <1>4. row'[c] = "NONE"
    <2>1. row[c] = "NONE" /\ c # f
      BY <1>1, <1>3, BlockSymmetric DEF KnowsRows
    <2>. QED BY <1>1, <2>1 DEF IInv, TypeOK
  <1>5. KnowsRows(w, s)'
    <2>1. job'[w][s] = [job[w][s] EXCEPT !.pc = "persist"]
      BY GotoOthers DEF MarkCounterpart, IInv
    <2>2. job'[w][s].pc = "persist" /\ job'[w][s].found = f
      BY <1>1, <2>1 DEF Job
    <2>. QED BY <1>2, <1>3, <1>4, <2>2 DEF KnowsRows
  <1>. QED BY <1>1, <1>2, <1>5, SerialInside

LEMMA SerialPersist ==
  ASSUME IInv, OneShard, AllUp, HasLease, NEW w \in Worker, NEW s \in Shard,
         InLoop(w, s) => KnowsRows(w, s), PersistTrade(w, s)
  PROVE  SerialOK'
  <1>1. /\ InLoop(w, s) /\ KnowsRows(w, s) /\ job[w][s].pc = "persist" /\ job[w][s] \in Job
        /\ row[Current(w, s)] = "NONE"
    BY AtInLoop DEF PersistTrade, IInv, TypeOK, KnowsRows
  <1>2. CASE job[w][s].found = NoTrade
    <2>1. Done(w, s)
      BY <1>1, <1>2 DEF PersistTrade
    <2>2. AllUp' /\ HasLease'
      BY <1>1, <2>1, DoneLease DEF IInv
    <2>3. KnowsRows(w, s)'
      BY <2>1, DoneOthers DEF IInv, KnowsRows, NewJob
    <2>. QED BY <1>1, <2>1, <2>2, <2>3, DoneOthers, SerialInside DEF IInv
  <1>3. CASE job[w][s].found # NoTrade
    <2>1. StayAtRecord /\ Goto(w, s, [job[w][s] EXCEPT !.pc = "push"])
      BY <1>1, <1>3 DEF PersistTrade
    <2>2. /\ AllUp' /\ HasLease'
          /\ \A x \in Worker, z \in Shard : InLoop(x, z)' = InLoop(x, z)
      BY <2>1, StayLease
    <2>3. KnowsRows(w, s)'
      <3>1. job'[w][s] = [job[w][s] EXCEPT !.pc = "push"]
        BY <2>1, GotoOthers DEF IInv
      <3>2. job'[w][s].pc = "push"
        BY <1>1, <3>1 DEF Job
      <3>. QED BY <3>2 DEF KnowsRows
    <2>. QED BY <1>1, <2>2, <2>3, SerialInside
  <1>. QED BY <1>2, <1>3

LEMMA SerialPush ==
  ASSUME IInv, OneShard, AllUp, HasLease, NEW w \in Worker, NEW s \in Shard, PushPair(w, s)
  PROVE  SerialOK'
  <1>1. InLoop(w, s) /\ Done(w, s)
    BY AtInLoop DEF PushPair, IInv
  <1>2. AllUp' /\ HasLease'
    BY <1>1, DoneLease DEF IInv
  <1>3. KnowsRows(w, s)'
    BY <1>1, DoneOthers DEF IInv, KnowsRows, NewJob
  <1>. QED BY <1>1, <1>2, <1>3, DoneOthers, SerialInside DEF IInv

LEMMA SerialNext ==
  ASSUME IInv, OneShard, SerialOK, [Next]_vars
  PROVE  SerialOK'
  <1>. SUFFICES ASSUME Serial' PROVE SerialOK'
    BY DEF SerialOK
  <1>0. /\ Serial /\ AllUp /\ HasLease
        /\ \A w \in Worker, s \in Shard : InLoop(w, s) => KnowsRows(w, s)
    BY SerialBefore DEF SerialOK, IInv
  <1>1. ASSUME NEW t \in Trade, NEW s \in Shard, ReceiveTrade(t, s) PROVE SerialOK'
    <2>1. UNCHANGED <<ckpt, owner, batch, up, row, job>>
      BY <1>1 DEF ReceiveTrade, Put, workerVars, jobVars
    <2>2. AllUp' /\ HasLease'
      BY <1>0, <2>1 DEF AllUp, HasLease, Idle
    <2>3. \A x \in Worker, z \in Shard : InLoop(x, z)' =>
            InLoop(x, z) /\ Current(x, z)' = Current(x, z) /\ job'[x][z] = job[x][z]
      <3>1. \A z \in Shard : \A i \in 1..Len(log[z]) : log'[z][i] = log[z][i]
        BY <1>1, PutKeeps DEF ReceiveTrade, IInv, TypeOK
      <3>. QED BY <2>1, <3>1, CurrentType DEF IInv, InLoop, Current
    <2>. QED BY <1>0, <2>1, <2>2, <2>3, SerialOutside
  <1>2. ASSUME NEW w \in Worker, NEW s \in Shard, Take(w, s) PROVE SerialOK'
    <2>1. /\ owner[s] \in Worker => ~up[owner[s]]
          /\ UNCHANGED <<log, batch, up, row, job>>
      BY <1>2 DEF Take, TakeLease, workerVars, jobVars
    <2>2. \A x \in Worker, z \in Shard : Idle(x, z)
      BY <1>0, <2>1 DEF AllUp, HasLease, OneShard
    <2>3. AllUp' /\ HasLease'
      BY <1>0, <2>1, <2>2 DEF AllUp, HasLease, Idle
    <2>. QED BY <1>0, <2>1, <2>3, SerialOutside DEF InLoop, Current
  <1>3. ASSUME NEW w \in Worker, NEW s \in Shard, Steal(w, s) PROVE FALSE
    BY <1>0, <1>3 DEF Steal, StealLease, Serial, IInv, TypeOK, ShardTypeOK
  <1>4. ASSUME NEW w \in Worker, NEW s \in Shard, Fetch(w, s) PROVE SerialOK'
    <2>1. /\ owner[s] = w /\ Idle(w, s) /\ UNCHANGED <<log, owner, up, row, job>>
          /\ \A x \in Worker, z \in Shard : ~(x = w /\ z = s) => batch'[x][z] = batch[x][z]
      BY <1>4 DEF Fetch, FetchBatch, workerVars, jobVars, IInv, TypeOK, ShardTypeOK
    <2>2. AllUp' /\ HasLease'
      BY <1>0, <2>1 DEF AllUp, HasLease, Idle
    <2>3. job'[w][s] = NewJob
      BY <2>1 DEF IInv, BatchOK, InLoop, Idle
    <2>. QED BY <1>0, <2>1, <2>2, <2>3, SerialOutside DEF InLoop, Current
  <1>5. ASSUME NEW w \in Worker, NEW s \in Shard, Checkpoint(w, s) PROVE SerialOK'
    <2>1. ~Idle(w, s) /\ UNCHANGED <<log, owner, row, job>>
      BY <1>5, StreamTypes
         DEF Checkpoint, CheckpointBatch, Finished, Halt, shardVars, jobVars, Idle, IInv, BatchOK
    <2>2. owner[s] = w
      BY <1>0, <2>1 DEF HasLease
    <2>3. up' = up /\ batch' = [batch EXCEPT ![w][s] = NoBatch]
      BY <1>5, <2>2 DEF Checkpoint, CheckpointBatch, workerVars
    <2>4. \A x \in Worker, z \in Shard :
            IF x = w /\ z = s THEN batch'[x][z] = NoBatch ELSE batch'[x][z] = batch[x][z]
      BY <2>3 DEF IInv, TypeOK, ShardTypeOK
    <2>5. AllUp' /\ HasLease'
      BY <1>0, <2>1, <2>3, <2>4 DEF AllUp, HasLease, Idle, NoBatch
    <2>6. \A x \in Worker, z \in Shard : InLoop(x, z)' =>
            InLoop(x, z) /\ Current(x, z)' = Current(x, z) /\ job'[x][z] = job[x][z]
      BY <2>1, <2>4 DEF InLoop, Current, NoBatch
    <2>. QED BY <1>0, <2>1, <2>5, <2>6, SerialOutside
  <1>6. ASSUME NEW w \in Worker, NEW s \in Shard, ProcessRecord(w, s) PROVE SerialOK'
    BY <1>0, <1>6, SerialQuery, SerialMark, SerialPersist, SerialPush DEF ProcessRecord
  <1>7. ASSUME NEW w \in Worker, Crash(w) PROVE FALSE
    BY <1>0, <1>7 DEF Crash, CrashWorker, Serial, IInv, TypeOK, ShardTypeOK
  <1>8. ASSUME NEW w \in Worker, Restart(w) PROVE FALSE
    BY <1>0, <1>8 DEF Restart, RestartWorker, AllUp
  <1>9. CASE UNCHANGED vars
    <2>1. UNCHANGED <<log, owner, batch, up, row, job>>
      BY <1>9 DEF vars, shardVars, workerVars
    <2>2. AllUp' /\ HasLease'
      BY <1>0, <2>1 DEF AllUp, HasLease, Idle
    <2>. QED BY <1>0, <2>1, <2>2, SerialOutside DEF InLoop, Current
  <1>. QED BY <1>1, <1>2, <1>3, <1>4, <1>5, <1>6, <1>7, <1>8, <1>9 DEF Next, WorkerStep

(* The state PairMatching is in, with one thread in the loop and with none. *)
BarBy(w, s) ==
  [t \in Trade |->
     IF job[w][s].pc = "push" /\ t = Current(w, s) THEN "NONE"
     ELSE IF job[w][s].pc \in {"persist", "push"} /\ t = job[w][s].found THEN "UNMATCHED"
     ELSE row[t]]

BarIs ==
  /\ (\A w \in Worker, s \in Shard : ~InLoop(w, s)) => statusBar = row
  /\ \A w \in Worker, s \in Shard : InLoop(w, s) => statusBar = BarBy(w, s)

LEMMA BarHolds == IInv /\ OneShard /\ AllUp /\ HasLease => BarIs
  <1>. SUFFICES ASSUME IInv, OneShard, AllUp, HasLease PROVE BarIs
    OBVIOUS
  <1>0. row = [t \in Trade |-> row[t]]
    BY DEF IInv, TypeOK
  <1>1. ASSUME NEW w \in Worker, NEW s \in Shard, InLoop(w, s)
        PROVE  \A pc : At(w, s, pc) <=> job[w][s].pc = pc
    BY <1>1, StreamTypes DEF At, Working, Idle, InLoop, AllUp, IInv
  <1>2. ASSUME \A w \in Worker, s \in Shard : ~InLoop(w, s) PROVE statusBar = row
    <2>1. \A w \in Worker, s \in Shard : \A pc : ~At(w, s, pc)
      BY <1>2, AtInLoop DEF IInv
    <2>2. \A t \in Trade : ~Handling(t, {"push"}) /\ ~FoundBy(t, {"persist", "push"})
      BY <2>1 DEF Handling, FoundBy
    <2>. QED BY <1>0, <2>2 DEF statusBar
  <1>3. ASSUME NEW w \in Worker, NEW s \in Shard, InLoop(w, s) PROVE statusBar = BarBy(w, s)
    <2>1. \A x \in Worker, z \in Shard : \A pc : At(x, z, pc) => x = w /\ z = s
      BY <1>3, AtInLoop, OneThread DEF IInv
    <2>2. \A t \in Trade :
            /\ Handling(t, {"push"}) <=> job[w][s].pc = "push" /\ t = Current(w, s)
            /\ FoundBy(t, {"persist", "push"}) <=>
                 job[w][s].pc \in {"persist", "push"} /\ t = job[w][s].found
      BY <1>1, <1>3, <2>1 DEF Handling, FoundBy
    <2>3. \A t \in Trade : ~(Handling(t, {"push"}) /\ FoundBy(t, {"persist", "push"}))
      <3>. SUFFICES ASSUME NEW t \in Trade, job[w][s].pc = "push",
                           t = Current(w, s), t = job[w][s].found
                    PROVE  FALSE
        BY <2>2
      <3>1. Pushing(w, s)
        BY <1>3 DEF Pushing
      <3>2. job[w][s].found # NoTrade
        BY <3>1, PushingFacts
      <3>3. SameBlock(t, t)
        BY <1>3, <3>2, FoundFacts
      <3>. QED BY <3>3 DEF SameBlock
    <2>. QED BY <2>2, <2>3 DEF statusBar, BarBy
  <1>. QED BY <1>2, <1>3 DEF BarIs

LEMMA BarNext ==
  ASSUME OneShard
  PROVE  IInv' /\ AllUp' /\ HasLease' => BarIs'
  <1>1. IInv /\ AllUp /\ HasLease => BarIs
    BY BarHolds
  <1>. QED BY <1>1, PTL

(* The step that a step of the thread is in PairMatching: none ...         *)
LEMMA BarQuery ==
  ASSUME IInv, BarIs, BarIs', NEW w \in Worker, NEW s \in Shard,
         InLoop(w, s), job[w][s].pc \in {"check", "match", "mismatch"},
         row' = row,
         \A x \in Worker, z \in Shard : ~(x = w /\ z = s) => ~InLoop(x, z)',
         InLoop(w, s)' => /\ Current(w, s)' = Current(w, s) \/ job'[w][s].pc = "check"
                          /\ job'[w][s].pc # "push"
                          /\ job'[w][s].pc = "persist" => job'[w][s].found = NoTrade
  PROVE  statusBar' = statusBar
  <1>0. row = [t \in Trade |-> row[t]]
    BY DEF IInv, TypeOK
  <1>1. statusBar = row
    BY <1>0 DEF BarIs, BarBy
  <1>2. CASE ~InLoop(w, s)'
    BY <1>1, <1>2 DEF BarIs
  <1>3. CASE InLoop(w, s)'
    <2>1. statusBar' = BarBy(w, s)'
      BY <1>3 DEF BarIs
    <2>2. BarBy(w, s)' = row
      BY <1>0, <1>3, TradeAssumption DEF BarBy
    <2>. QED BY <1>1, <2>1, <2>2
  <1>. QED BY <1>2, <1>3

(* A step outside the loop leaves the threads in it as they are. *)
LoopsStay ==
  \A x \in Worker, z \in Shard : InLoop(x, z) \/ InLoop(x, z)' =>
    \/ InLoop(x, z) /\ InLoop(x, z)' /\ job'[x][z] = job[x][z] /\ Current(x, z)' = Current(x, z)
    \/ ~InLoop(x, z) /\ job'[x][z] = NewJob

LEMMA ReceiveAround ==
  ASSUME IInv, NEW t \in Trade, NEW s \in Shard, ReceiveTrade(t, s)
  PROVE  row' = row /\ pub' = pub /\ LoopsStay
  <1>1. \A z \in Shard : \A i \in 1..Len(log[z]) : log'[z][i] = log[z][i]
    BY PutKeeps DEF ReceiveTrade, IInv, TypeOK
  <1>2. UNCHANGED <<row, pub, job, batch>>
    BY DEF ReceiveTrade, Put, workerVars, jobVars
  <1>3. \A x \in Worker, z \in Shard : InLoop(x, z) => Current(x, z)' = Current(x, z)
    BY <1>1, <1>2, CurrentType DEF IInv, Current
  <1>. QED BY <1>2, <1>3 DEF LoopsStay, InLoop

LEMMA StepAround ==
  ASSUME IInv, NEW w \in Worker, NEW s \in Shard,
         Take(w, s) \/ Steal(w, s) \/ Fetch(w, s) \/ Checkpoint(w, s)
  PROVE  row' = row /\ pub' = pub /\ LoopsStay
  <1>1. CASE Take(w, s) \/ Steal(w, s)
    <2>1. UNCHANGED <<row, pub, job, batch, log>>
      BY <1>1 DEF Take, TakeLease, Steal, StealLease, workerVars, jobVars
    <2>. QED BY <2>1 DEF LoopsStay, InLoop, Current
  <1>2. CASE Fetch(w, s)
    <2>1. /\ Idle(w, s) /\ UNCHANGED <<row, pub, job, log>>
          /\ \A x \in Worker, z \in Shard : ~(x = w /\ z = s) => batch'[x][z] = batch[x][z]
      BY <1>2 DEF Fetch, FetchBatch, workerVars, jobVars, IInv, TypeOK, ShardTypeOK
    <2>2. ~InLoop(w, s) /\ job'[w][s] = NewJob
      BY <2>1 DEF IInv, BatchOK, InLoop, Idle
    <2>. QED BY <2>1, <2>2 DEF LoopsStay, InLoop, Current
  <1>3. CASE Checkpoint(w, s)
    <2>1. /\ UNCHANGED <<row, pub, job, log>> /\ Finished(w, s)
          /\ batch' = [batch EXCEPT ![w][s] = NoBatch] \/ batch' = batch
      BY <1>3 DEF Checkpoint, CheckpointBatch, Halt, shardVars, workerVars, jobVars
    <2>2. ~InLoop(w, s) /\ job'[w][s] = NewJob
      BY <2>1, StreamTypes DEF Finished, InLoop, IInv, BatchOK
    <2>3. \A x \in Worker, z \in Shard : ~(x = w /\ z = s) => batch'[x][z] = batch[x][z]
      BY <2>1 DEF IInv, TypeOK, ShardTypeOK
    <2>. QED BY <2>1, <2>2, <2>3 DEF LoopsStay, InLoop, Current
  <1>. QED BY <1>1, <1>2, <1>3

LEMMA BarQuiet ==
  ASSUME IInv, IInv', BarIs, BarIs', row' = row, LoopsStay
  PROVE  statusBar' = statusBar
  <1>0. row = [t \in Trade |-> row[t]]
    BY DEF IInv, TypeOK
  <1>1. CASE \E w \in Worker, s \in Shard : InLoop(w, s)
    <2>1. PICK w \in Worker : \E s \in Shard : InLoop(w, s)
      BY <1>1
    <2>2. PICK s \in Shard : InLoop(w, s)
      BY <2>1
    <2>3. InLoop(w, s)' /\ job'[w][s] = job[w][s] /\ Current(w, s)' = Current(w, s)
      BY <2>2 DEF LoopsStay
    <2>4. BarBy(w, s)' = BarBy(w, s)
      BY <2>3 DEF BarBy
    <2>. QED BY <2>2, <2>3, <2>4 DEF BarIs
  <1>2. CASE \A w \in Worker, s \in Shard : ~InLoop(w, s)
    <2>1. statusBar = row
      BY <1>2 DEF BarIs
    <2>2. ASSUME NEW w \in Worker, NEW s \in Shard, InLoop(w, s)' PROVE BarBy(w, s)' = row
      <3>1. job'[w][s] = NewJob
        BY <1>2, <2>2 DEF LoopsStay
      <3>. QED BY <1>0, <3>1 DEF BarBy, NewJob
    <2>. QED BY <2>1, <2>2 DEF BarIs
  <1>. QED BY <1>1, <1>2

(* ... for marking the counterpart, which is unmatched until then ...      *)
LEMMA BarMark ==
  ASSUME IInv, BarIs, BarIs', NEW w \in Worker, NEW s \in Shard, KnowsRows(w, s),
         MarkCounterpart(w, s)
  PROVE  statusBar' = statusBar /\ pub' = pub
  <1>. PICK f : f = job[w][s].found
    OBVIOUS
  <1>1. /\ InLoop(w, s) /\ job[w][s].pc = "mark" /\ StayAtRecord
        /\ row' = [row EXCEPT ![f] = job[w][s].verdict]
        /\ job[w][s] \in Job /\ row \in [Trade -> Status]
        /\ job'[w][s] = [job[w][s] EXCEPT !.pc = "persist"]
    BY AtInLoop, GotoOthers DEF MarkCounterpart, IInv, TypeOK
  <1>2. row[f] = "UNMATCHED"
    BY <1>1 DEF KnowsRows, Unmatched
  <1>3. InLoop(w, s)' /\ job'[w][s].pc = "persist" /\ job'[w][s].found = f
    BY <1>1 DEF StayAtRecord, shardVars, InLoop, Job
  <1>4. \A t \in Trade : t # f => row'[t] = row[t]
    BY <1>1
  <1>5. BarBy(w, s)' = [t \in Trade |-> row[t]]
    BY <1>2, <1>3, <1>4 DEF BarBy
  <1>6. BarBy(w, s) = [t \in Trade |-> row[t]]
    BY <1>1 DEF BarBy
  <1>. QED BY <1>1, <1>3, <1>5, <1>6 DEF BarIs, MarkCounterpart

(* ... Wait for the insert of an unmatched trade, none for that of the later *)
(* side ...                                                                *)
LEMMA BarPersist ==
  ASSUME IInv, BarIs, BarIs', OneShard, HasLease,
         NEW w \in Worker, NEW s \in Shard, KnowsRows(w, s), PersistTrade(w, s)
  PROVE  [Abstract!Next]_Abstract!vars
  <1>. PICK c : c = Current(w, s)
    OBVIOUS
  <1>. PICK f : f = job[w][s].found
    OBVIOUS
  <1>1. /\ InLoop(w, s) /\ job[w][s].pc = "persist" /\ job[w][s] \in Job
        /\ row \in [Trade -> Status] /\ row[c] = "NONE" /\ c \in Trade
        /\ row' = [row EXCEPT ![c] = job[w][s].verdict] /\ pub' = pub
    BY AtInLoop, CurrentType DEF PersistTrade, IInv, TypeOK, KnowsRows
  <1>2. CASE f = NoTrade
    <2>1. Done(w, s) /\ job[w][s].verdict = "UNMATCHED"
      BY <1>1, <1>2 DEF PersistTrade, IInv, FoundOK, KnowsFound
    <2>2. BarBy(w, s) = row
      BY <1>1, <1>2, TradeAssumption DEF BarBy
    <2>3. statusBar = row
      BY <1>1, <2>2 DEF BarIs
    <2>4. \A x \in Worker, z \in Shard : InLoop(x, z)' => x = w /\ z = s
      BY <1>1, <2>1, DoneOthers, OneThread DEF IInv
    <2>5. row' = [t \in Trade |-> row'[t]]
      BY <1>1
    <2>6. job'[w][s].pc = "check"
      BY <2>1, DoneOthers DEF IInv, NewJob
    <2>7. BarBy(w, s)' = row'
      BY <2>5, <2>6 DEF BarBy
    <2>8. statusBar' = row'
      BY <2>4, <2>7 DEF BarIs
    <2>9. Abstract!Waiting(c) = {}
      BY <1>1, <1>2, <2>3 DEF KnowsRows, Abstract!Waiting, Abstract!Counterpart, SameBlock, Unmatched
    <2>10. Abstract!Wait(c)
      BY <1>1, <2>1, <2>3, <2>8, <2>9 DEF Abstract!Wait
    <2>. QED BY <1>1, <2>10 DEF Abstract!Next
  <1>3. CASE f # NoTrade
    <2>1. StayAtRecord /\ Goto(w, s, [job[w][s] EXCEPT !.pc = "push"])
      BY <1>1, <1>3 DEF PersistTrade
    <2>2. /\ InLoop(w, s)' /\ Current(w, s)' = c
          /\ job'[w][s] = [job[w][s] EXCEPT !.pc = "push"]
      BY <1>1, <2>1, GotoOthers DEF IInv, StayAtRecord, shardVars, InLoop, Current
    <2>3. job'[w][s].pc = "push" /\ job'[w][s].found = f
      BY <1>1, <2>2 DEF Job
    <2>4. \A t \in Trade : t # c => row'[t] = row[t]
      BY <1>1
    <2>5. c # f
      <3>1. SameBlock(c, f)
        BY <1>1, <1>3, FoundFacts
      <3>. QED BY <3>1 DEF SameBlock
    <2>6. BarBy(w, s)' = BarBy(w, s)
      BY <1>1, <2>2, <2>3, <2>4, <2>5 DEF BarBy
    <2>. QED BY <1>1, <2>2, <2>6 DEF BarIs, Abstract!vars
  <1>. QED BY <1>2, <1>3

(* ... and Pair for sending the pair.                                      *)
LEMMA BarPush ==
  ASSUME IInv, BarIs, BarIs', OneShard, HasLease, drops' = 0,
         NEW w \in Worker, NEW s \in Shard, PushPair(w, s)
  PROVE  [Abstract!Next]_Abstract!vars
  <1>. PICK c : c = Current(w, s)
    OBVIOUS
  <1>. PICK f : f = job[w][s].found
    OBVIOUS
  <1>. PICK v : v = job[w][s].verdict
    OBVIOUS
  <1>1. /\ InLoop(w, s) /\ job[w][s].pc = "push" /\ Pushing(w, s) /\ Done(w, s) /\ row' = row
    BY AtInLoop DEF PushPair, IInv, Pushing
  <1>2. /\ c \in Trade /\ f \in Trade /\ SameBlock(c, f) /\ c # f
        /\ v \in Verdict /\ v = VerdictOf(c, f) /\ row[c] = v /\ row[f] = v
        /\ row \in [Trade -> Status] /\ pub \in [Trade -> [Status -> Nat]]
    <2>1. /\ c \in Trade /\ f \in Trade /\ SameBlock(c, f) /\ v = VerdictOf(c, f)
          /\ v \in Verdict /\ row[c] = v /\ row[f] = v
      BY <1>1, PushingFacts, FoundFacts
    <2>. QED BY <2>1, BlockSymmetric DEF IInv, TypeOK
  <1>3. PICK lost \in SUBSET {c, f} :
          /\ drops' = drops + Cardinality(lost)
          /\ pub' = [x \in Trade |->
                       IF x = c /\ x \notin lost THEN Bump(pub[x], v)
                       ELSE IF x = f /\ x \notin lost THEN Bump(pub[x], row[x])
                       ELSE pub[x]]
    BY DEF PushPair
  <1>4. lost = {}
    BY <1>3, NothingDropped DEF IInv, TypeOK
  <1>5. pub' = [pub EXCEPT ![c][v] = @ + 1, ![f][v] = @ + 1]
    BY <1>2, <1>3, <1>4 DEF Bump
  <1>6. statusBar = [row EXCEPT ![c] = "NONE", ![f] = "UNMATCHED"]
    <2>1. BarBy(w, s) = [row EXCEPT ![c] = "NONE", ![f] = "UNMATCHED"]
      BY <1>1, <1>2 DEF BarBy
    <2>. QED BY <1>1, <2>1 DEF BarIs
  <1>7. statusBar' = row
    <2>1. \A x \in Worker, z \in Shard : InLoop(x, z)' => x = w /\ z = s
      BY <1>1, DoneOthers, OneThread DEF IInv
    <2>2. job'[w][s].pc = "check"
      BY <1>1, DoneOthers DEF IInv, NewJob
    <2>3. BarBy(w, s)' = row
      BY <1>1, <1>2, <2>2 DEF BarBy
    <2>. QED BY <1>1, <2>1, <2>3 DEF BarIs
  <1>8. statusBar' = [statusBar EXCEPT ![c] = v, ![f] = v]
    BY <1>2, <1>6, <1>7
  <1>9. f \in Abstract!Waiting(c) /\ statusBar[c] = "NONE" /\ Abstract!VerdictOf(c, f) = v
    BY <1>2, <1>6 DEF Abstract!Waiting, Abstract!Counterpart, Abstract!VerdictOf, SameBlock, VerdictOf
  <1>10. Abstract!Pair(c)
    BY <1>5, <1>8, <1>9 DEF Abstract!Pair
  <1>. QED BY <1>2, <1>10 DEF Abstract!Next

LEMMA BarProcess ==
  ASSUME IInv, BarIs, BarIs', OneShard, HasLease, drops' = 0,
         NEW w \in Worker, NEW s \in Shard, InLoop(w, s) => KnowsRows(w, s), ProcessRecord(w, s)
  PROVE  [Abstract!Next]_Abstract!vars
  <1>1. CASE CheckExisting(w, s) \/ SelectMatch(w, s) \/ SelectMismatch(w, s)
    <2>1. /\ InLoop(w, s) /\ row' = row /\ pub' = pub
          /\ job[w][s].pc \in {"check", "match", "mismatch"} /\ job[w][s] \in Job
      BY <1>1, AtInLoop DEF CheckExisting, SelectMatch, SelectMismatch, IInv, TypeOK
    <2>2. job[w][s].found = NoTrade
      BY <2>1 DEF IInv, FoundOK, KnowsFound
    <2>3. /\ \A x \in Worker, z \in Shard : ~(x = w /\ z = s) => ~InLoop(x, z)'
          /\ InLoop(w, s)' => /\ Current(w, s)' = Current(w, s) \/ job'[w][s].pc = "check"
                              /\ job'[w][s].pc # "push"
                              /\ job'[w][s].pc = "persist" => job'[w][s].found = NoTrade
      <3>1. CASE Done(w, s)
        BY <2>1, <3>1, DoneOthers, OneThread DEF IInv, NewJob
      <3>2. CASE StayAtRecord
        <4>1. \A x \in Worker, z \in Shard :
                InLoop(x, z)' = InLoop(x, z) /\ Current(x, z)' = Current(x, z)
          BY <3>2 DEF StayAtRecord, shardVars, InLoop, Current
        <4>2. \A n : Goto(w, s, n) => job'[w][s] = n
          BY GotoOthers DEF IInv
        <4>3. job'[w][s].pc # "push" /\ (job'[w][s].pc = "persist" => job'[w][s].found = NoTrade)
          <5>1. CASE CheckExisting(w, s)
            <6>1. job'[w][s] = NewJob \/ job'[w][s] = [NewJob EXCEPT !.pc = "match"]
              BY <4>2, <5>1 DEF CheckExisting, Done
            <6>. QED BY <6>1 DEF NewJob
          <5>2. CASE SelectMatch(w, s)
            <6>1. CASE Goto(w, s, [job[w][s] EXCEPT !.pc = "mismatch"])
              <7>1. job'[w][s] = [job[w][s] EXCEPT !.pc = "mismatch"]
                BY <4>2, <6>1
              <7>. QED BY <2>1, <2>2, <7>1 DEF Job
            <6>2. CASE \E u : Goto(w, s, [pc |-> "mark", found |-> u, verdict |-> "MATCHED"])
              <7>1. PICK u : job'[w][s] = [pc |-> "mark", found |-> u, verdict |-> "MATCHED"]
                BY <4>2, <6>2
              <7>. QED BY <7>1
            <6>. QED BY <5>2, <6>1, <6>2 DEF SelectMatch
          <5>3. CASE SelectMismatch(w, s)
            <6>1. CASE Goto(w, s, [job[w][s] EXCEPT !.pc = "persist"])
              <7>1. job'[w][s] = [job[w][s] EXCEPT !.pc = "persist"]
                BY <4>2, <6>1
              <7>. QED BY <2>1, <2>2, <7>1 DEF Job
            <6>2. CASE \E u : Goto(w, s, [pc |-> "mark", found |-> u, verdict |-> "MISMATCHED"])
              <7>1. PICK u : job'[w][s] = [pc |-> "mark", found |-> u, verdict |-> "MISMATCHED"]
                BY <4>2, <6>2
              <7>. QED BY <7>1
            <6>. QED BY <5>3, <6>1, <6>2 DEF SelectMismatch
          <5>. QED BY <1>1, <5>1, <5>2, <5>3
        <4>4. \A x \in Worker, z \in Shard : ~(x = w /\ z = s) => ~InLoop(x, z)
          BY <2>1, OneThread
        <4>. QED BY <4>1, <4>3, <4>4
      <3>. QED BY <1>1, <3>1, <3>2 DEF CheckExisting, SelectMatch, SelectMismatch
    <2>4. statusBar' = statusBar
      BY <2>1, <2>3, BarQuery
    <2>. QED BY <2>1, <2>4 DEF Abstract!vars
  <1>2. CASE MarkCounterpart(w, s)
    <2>1. KnowsRows(w, s)
      BY <1>2, AtInLoop DEF MarkCounterpart, IInv
    <2>. QED BY <1>2, <2>1, BarMark DEF Abstract!vars
  <1>3. CASE PersistTrade(w, s)
    <2>1. KnowsRows(w, s)
      BY <1>3, AtInLoop DEF PersistTrade, IInv
    <2>. QED BY <1>3, <2>1, BarPersist
  <1>4. CASE PushPair(w, s)
    BY <1>4, BarPush
  <1>. QED BY <1>1, <1>2, <1>3, <1>4 DEF ProcessRecord

LEMMA ZeroSum ==
  IInv' /\ crashes' + steals' + drops' = 0 => crashes' = 0 /\ steals' = 0 /\ drops' = 0
  <1>1. IInv' => crashes' \in Nat /\ steals' \in Nat /\ drops' \in Nat
    BY DEF IInv, TypeOK, ShardTypeOK
  <1>. QED BY <1>1

LEMMA BarStep ==
  ASSUME OneShard, IInv, IInv', SerialOK, SerialOK', BarIs, BarIs', [Next]_vars,
         crashes' + steals' + drops' = 0
  PROVE  [Abstract!Next]_Abstract!vars
  <1>1. crashes' = 0 /\ steals' = 0 /\ drops' = 0
    BY ZeroSum
  <1>2. /\ AllUp /\ HasLease
        /\ \A w \in Worker, s \in Shard : InLoop(w, s) => KnowsRows(w, s)
    BY <1>1, SerialBefore DEF SerialOK, Serial, IInv
  <1>3. ASSUME LoopsStay, row' = row, pub' = pub PROVE [Abstract!Next]_Abstract!vars
    BY <1>3, BarQuiet DEF Abstract!vars
  <1>4. ASSUME NEW t \in Trade, NEW s \in Shard, ReceiveTrade(t, s)
        PROVE  [Abstract!Next]_Abstract!vars
    BY <1>3, <1>4, ReceiveAround
  <1>5. ASSUME NEW w \in Worker, NEW s \in Shard, WorkerStep(w, s)
        PROVE  [Abstract!Next]_Abstract!vars
    <2>1. CASE ProcessRecord(w, s)
      BY <1>1, <1>2, <2>1, BarProcess
    <2>2. CASE Take(w, s) \/ Steal(w, s) \/ Fetch(w, s) \/ Checkpoint(w, s)
      BY <1>3, <2>2, StepAround
    <2>. QED BY <1>5, <2>1, <2>2 DEF WorkerStep
  <1>6. ASSUME NEW w \in Worker, Crash(w) PROVE FALSE
    BY <1>1, <1>6 DEF Crash, CrashWorker, IInv, TypeOK, ShardTypeOK
  <1>7. ASSUME NEW w \in Worker, Restart(w) PROVE FALSE
    BY <1>2, <1>7 DEF Restart, RestartWorker, AllUp
  <1>8. CASE UNCHANGED vars
    <2>1. row' = row /\ pub' = pub /\ LoopsStay
      BY <1>8 DEF vars, shardVars, LoopsStay, InLoop, Current
    <2>. QED BY <1>3, <2>1
  <1>. QED BY <1>4, <1>5, <1>6, <1>7, <1>8 DEF Next

(* One shard: up to the first crash, lease that moves or dropped record,   *)
(* trade matching implements PairMatching.                                 *)
THEOREM PairRefinement ==
  ASSUME OneShard
  PROVE  Spec => ImplementsPairMatching
  <1>1. Init => Abstract!Init /\ SerialOK
    <2>. SUFFICES ASSUME Init PROVE Abstract!Init /\ SerialOK
      OBVIOUS
    <2>1. /\ \A w \in Worker, s \in Shard : batch[w][s] = NoBatch
          /\ AllUp /\ row = [t \in Trade |-> "NONE"]
      BY DEF Init, ShardInit, AllUp
    <2>2. /\ \A w \in Worker, s \in Shard : Idle(w, s) /\ ~InLoop(w, s)
          /\ \A w \in Worker, s \in Shard : \A pc : ~At(w, s, pc)
      BY <2>1 DEF At, Working, Idle, InLoop, NoBatch
    <2>3. \A t \in Trade : ~Handling(t, {"push"}) /\ ~FoundBy(t, {"persist", "push"})
      BY <2>2 DEF Handling, FoundBy
    <2>4. statusBar = [t \in Trade |-> "NONE"]
      BY <2>1, <2>3 DEF statusBar
    <2>5. Abstract!Init
      BY <2>4 DEF Init, Abstract!Init, Status
    <2>. QED BY <2>1, <2>2, <2>5 DEF SerialOK, HasLease
  <1>2. IInv /\ SerialOK /\ [Next]_vars => SerialOK'
    BY SerialNext
  <1>3. /\ IInv /\ SerialOK /\ IInv' /\ SerialOK' /\ [Next]_vars
        => (crashes' + steals' + drops' = 0 => [Abstract!Next]_Abstract!vars)
    <2>. SUFFICES ASSUME IInv, SerialOK, IInv', SerialOK', [Next]_vars,
                         crashes' + steals' + drops' = 0
                  PROVE  [Abstract!Next]_Abstract!vars
      OBVIOUS
    <2>1. crashes' = 0 /\ steals' = 0
      BY ZeroSum
    <2>2. Serial /\ Serial'
      BY <2>1, SerialBefore DEF Serial, IInv
    <2>3. BarIs
      BY <2>2, BarHolds DEF SerialOK
    <2>4. BarIs'
      BY <2>2, BarNext DEF SerialOK
    <2>. QED BY <2>3, <2>4, BarStep
  <1>. QED BY <1>1, <1>2, <1>3, Invariance, PTL DEF Spec, ImplementsPairMatching

----------------------------------------------------------------------------
(* One thread at a time, when no record is put twice and no lease is stolen. *)
AtMostOnce == MaxSteal = 0 /\ \A t \in Trade : MaxCopies[t] <= 1

LEMMA AloneInit == Init => Alone
  <1>. SUFFICES ASSUME Init PROVE Alone
    OBVIOUS
  <1>1. \A s \in Shard : log[s] = <<>> /\ Len(log[s]) = 0
    BY DEF Init, ShardInit
  <1>2. \A w \in Worker, s \in Shard : batch[w][s].pos = 0 /\ job[w][s].pc = "check"
    BY DEF Init, ShardInit, NoBatch, NewJob
  <1>. QED BY <1>1, <1>2 DEF Alone, SinglePlace, LiveHolder, NotStoredYet, Deciding, Idle

(* A step that puts nothing, and after which whoever is still deciding was  *)
(* so before, on the same record.                                           *)
LEMMA AloneQuiet ==
  ASSUME Alone, log' = log, LiveHolder',
         \A x \in Worker, z \in Shard : Deciding(x, z)' =>
            \/ Deciding(x, z) /\ Current(x, z)' = Current(x, z)
                 /\ row'[Current(x, z)] = row[Current(x, z)]
            \/ row'[Current(x, z)'] = "NONE"
  PROVE  Alone'
  <1>1. SinglePlace'
    BY DEF Alone, SinglePlace
  <1>2. NotStoredYet'
    BY DEF Alone, NotStoredYet
  <1>. QED BY <1>1, <1>2 DEF Alone

LEMMA AloneReceive ==
  ASSUME AtMostOnce, IInv, Alone, NEW t \in Trade, NEW s \in Shard, ReceiveTrade(t, s)
  PROVE  Alone'
  <1>1. Put(s, t) /\ Copies(t) < MaxCopies[t] /\ UNCHANGED <<row, job>>
    BY DEF ReceiveTrade, jobVars
  <1>2. log' = [log EXCEPT ![s] = Append(@, t)] /\ UNCHANGED <<owner, batch, up>>
    BY <1>1 DEF Put, workerVars
  <1>3. TypeOK /\ BatchOK
    BY DEF IInv
  <1>4. \A z \in Shard : log[z] \in Seq(Trade) /\ Len(log[z]) \in Nat
    BY <1>3, StreamTypes
  <1>5. ~OnStream(t)
    <2>1. log \in [Shard -> Seq(Trade)]
      BY <1>3 DEF TypeOK, ShardTypeOK
    <2>2. Copies(t) \in Nat /\ (Copies(t) > 0 <=> OnStream(t))
      BY <2>1, CopiesCount
    <2>3. MaxCopies[t] \in Nat /\ MaxCopies[t] <= 1
      BY TradeAssumption DEF AtMostOnce
    <2>. QED BY <1>1, <2>2, <2>3
  <1>6. \A z \in Shard : \A i \in 1..Len(log'[z]) :
          \/ z = s /\ i = Len(log[s]) + 1 /\ log'[z][i] = t
          \/ i \in 1..Len(log[z]) /\ log'[z][i] = log[z][i]
    <2>. SUFFICES ASSUME NEW z \in Shard, NEW i \in 1..Len(log'[z])
                  PROVE  \/ z = s /\ i = Len(log[s]) + 1 /\ log'[z][i] = t
                         \/ i \in 1..Len(log[z]) /\ log'[z][i] = log[z][i]
      OBVIOUS
    <2>1. CASE z # s
      BY <1>2, <2>1, <1>3 DEF TypeOK, ShardTypeOK
    <2>2. CASE z = s
      <3>1. log'[s] = Append(log[s], t)
        BY <1>2, <1>3 DEF TypeOK, ShardTypeOK
      <3>. QED BY <1>4, <2>2, <3>1
    <2>. QED BY <2>1, <2>2
  <1>7. SinglePlace'
    <2>. SUFFICES ASSUME NEW y \in Shard, NEW z \in Shard,
                         NEW i \in 1..Len(log'[y]), NEW k \in 1..Len(log'[z]),
                         log'[y][i] = log'[z][k]
                  PROVE  y = z /\ i = k
      BY DEF SinglePlace
    <2>1. CASE i \in 1..Len(log[y]) /\ k \in 1..Len(log[z])
               /\ log'[y][i] = log[y][i] /\ log'[z][k] = log[z][k]
      <3>1. log[y][i] = log[z][k]
        BY <2>1
      <3>. QED BY <2>1, <3>1 DEF Alone, SinglePlace
    <2>2. CASE i \in 1..Len(log[y]) /\ log'[y][i] = log[y][i] /\ log'[z][k] = t
      BY <1>5, <2>2 DEF OnStream
    <2>3. CASE k \in 1..Len(log[z]) /\ log'[z][k] = log[z][k] /\ log'[y][i] = t
      BY <1>5, <2>3 DEF OnStream
    <2>. QED BY <1>6, <2>1, <2>2, <2>3
  <1>8. LiveHolder'
    BY <1>2 DEF Alone, LiveHolder, Idle
  <1>9. NotStoredYet'
    <2>1. \A x \in Worker, z \in Shard : Deciding(x, z)' => Deciding(x, z)
      BY <1>1, <1>2 DEF Deciding, InLoop
    <2>2. \A x \in Worker, z \in Shard : InLoop(x, z) => Current(x, z)' = Current(x, z)
      <3>. SUFFICES ASSUME NEW x \in Worker, NEW z \in Shard, InLoop(x, z)
                    PROVE  Current(x, z)' = Current(x, z)
        OBVIOUS
      <3>1. batch[x][z].pos \in 1..Len(log[z])
        BY <1>3, CurrentType
      <3>2. log'[z][batch[x][z].pos] = log[z][batch[x][z].pos]
        <4>. DEFINE i == batch[x][z].pos
        <4>1. i \in 1..Len(log[z])
          BY <3>1
        <4>. HIDE DEF i
        <4>2. log'[z][i] = log[z][i]
          <5>1. CASE z # s
            BY <1>2, <1>3, <5>1 DEF TypeOK, ShardTypeOK
          <5>2. CASE z = s
            <6>1. log'[s] = Append(log[s], t)
              BY <1>2, <1>3 DEF TypeOK, ShardTypeOK
            <6>. QED BY <1>4, <4>1, <5>2, <6>1
          <5>. QED BY <5>1, <5>2
        <4>. QED BY <4>2 DEF i
      <3>. QED BY <1>2, <3>2 DEF Current
    <2>. QED BY <1>1, <2>1, <2>2 DEF Alone, NotStoredYet, Deciding
  <1>. QED BY <1>7, <1>8, <1>9 DEF Alone

(* Leases and batches: a thread that begins has not checked anything. *)
LEMMA AloneStream ==
  ASSUME AtMostOnce, IInv, Alone, NEW w \in Worker, NEW s \in Shard,
         Take(w, s) \/ Steal(w, s) \/ Fetch(w, s) \/ Checkpoint(w, s)
  PROVE  Alone'
  <1>1. log' = log /\ UNCHANGED <<row, job>>
    BY DEF Take, Steal, Fetch, Checkpoint, TakeLease, StealLease, FetchBatch,
           CheckpointBatch, Halt, shardVars, jobVars
  <1>2. TypeOK /\ ShardTypeOK(Trade) /\ BatchOK /\ LiveHolder
    BY DEF IInv, TypeOK, Alone
  <1>3. CASE Take(w, s)
    <2>1. /\ up[w] /\ Idle(w, s) /\ (owner[s] \in Worker => ~up[owner[s]])
          /\ owner' = [owner EXCEPT ![s] = w] /\ UNCHANGED <<batch, up>>
      BY <1>3 DEF Take, TakeLease, workerVars
    <2>2. \A z \in Shard : owner'[z] = IF z = s THEN w ELSE owner[z]
      BY <1>2, <2>1 DEF ShardTypeOK
    <2>3. LiveHolder'
      BY <1>2, <2>1, <2>2 DEF LiveHolder, Idle
    <2>4. \A x \in Worker, z \in Shard : Deciding(x, z)' =>
            Deciding(x, z) /\ Current(x, z)' = Current(x, z)
      BY <1>1, <2>1 DEF Deciding, InLoop, Current
    <2>. QED BY <1>1, <2>3, <2>4, AloneQuiet
  <1>4. ~Steal(w, s)
    <2>1. steals \in Nat
      BY <1>2 DEF ShardTypeOK
    <2>. QED BY <2>1 DEF Steal, StealLease, AtMostOnce
  <1>5. CASE Fetch(w, s)
    <2>1. /\ owner[s] = w /\ Idle(w, s) /\ UNCHANGED <<owner, up>>
          /\ \A x \in Worker, z \in Shard : ~(x = w /\ z = s) => batch'[x][z] = batch[x][z]
      BY <1>2, <1>5 DEF Fetch, FetchBatch, workerVars, ShardTypeOK
    <2>2. LiveHolder'
      BY <1>2, <2>1 DEF LiveHolder, Idle
    <2>3. job[w][s].pc = "check"
      <3>1. ~InLoop(w, s)
        BY <2>1 DEF InLoop, Idle
      <3>. QED BY <1>2, <3>1 DEF BatchOK, NewJob
    <2>4. \A x \in Worker, z \in Shard : Deciding(x, z)' =>
            Deciding(x, z) /\ Current(x, z)' = Current(x, z)
      BY <1>1, <2>1, <2>3 DEF Deciding, InLoop, Current
    <2>. QED BY <1>1, <2>2, <2>4, AloneQuiet
  <1>6. CASE Checkpoint(w, s) /\ owner[s] = w
    <2>1. Finished(w, s) /\ batch' = [batch EXCEPT ![w][s] = NoBatch] /\ UNCHANGED <<owner, up>>
      BY <1>6 DEF Checkpoint, CheckpointBatch, workerVars
    <2>2. /\ batch'[w][s].pos = 0
          /\ \A x \in Worker, z \in Shard : ~(x = w /\ z = s) => batch'[x][z] = batch[x][z]
      BY <1>2, <2>1 DEF ShardTypeOK, NoBatch
    <2>3. LiveHolder'
      BY <1>2, <2>1, <2>2 DEF LiveHolder, Idle
    <2>4. \A x \in Worker, z \in Shard : Deciding(x, z)' =>
            Deciding(x, z) /\ Current(x, z)' = Current(x, z)
      BY <1>1, <2>1, <2>2 DEF Deciding, InLoop, Current
    <2>. QED BY <1>1, <2>3, <2>4, AloneQuiet
  <1>7. CASE Checkpoint(w, s) /\ owner[s] # w
    <2>1. Halt(w)
      BY <1>7 DEF Checkpoint, CheckpointBatch
    <2>2. UNCHANGED <<owner, batch>> /\ \A x \in Worker : up'[x] => up[x]
      BY <1>2, <2>1 DEF Halt, shardVars, ShardTypeOK
    <2>3. LiveHolder'
      BY <1>2, <2>2 DEF LiveHolder, Idle
    <2>4. \A x \in Worker, z \in Shard : Deciding(x, z)' =>
            Deciding(x, z) /\ Current(x, z)' = Current(x, z)
      BY <1>1, <2>2 DEF Deciding, InLoop, Current
    <2>. QED BY <1>1, <2>3, <2>4, AloneQuiet
  <1>. QED BY <1>3, <1>4, <1>5, <1>6, <1>7

(* The threads that a statement of thread <<w, s>> leaves alone. *)
LEMMA AloneAround ==
  ASSUME IInv, Alone, NEW w \in Worker, NEW s \in Shard, InLoop(w, s), up[w],
         \/ Done(w, s)
         \/ StayAtRecord /\ \E next : Goto(w, s, next)
         \/ Halt(w) /\ job' = job
  PROVE  /\ log' = log /\ LiveHolder'
         /\ \A x \in Worker, z \in Shard : ~(x = w /\ z = s) =>
              /\ Deciding(x, z)' => Deciding(x, z)
              /\ Current(x, z)' = Current(x, z)
              /\ Deciding(x, z) => Current(x, z) # Current(w, s)
  <1>1. TypeOK /\ ShardTypeOK(Trade) /\ BatchOK /\ LiveHolder /\ SinglePlace
    BY DEF IInv, TypeOK, Alone
  <1>2. ~Idle(w, s)
    BY StreamTypes, <1>1 DEF InLoop, Idle
  <1>3. /\ UNCHANGED <<log, owner>> /\ \A x \in Worker : up'[x] => up[x]
        /\ \A x \in Worker, z \in Shard : ~(x = w /\ z = s) =>
             batch'[x][z] = batch[x][z] /\ job'[x][z] = job[x][z]
    <2>1. CASE Done(w, s)
      <3>1. \A x \in Worker, z \in Shard : ~(x = w /\ z = s) =>
              batch'[x][z] = batch[x][z] /\ job'[x][z] = job[x][z]
        BY <1>1, <2>1, DoneOthers
      <3>2. UNCHANGED <<log, owner, up>>
        BY <2>1 DEF Done, NextRecord, workerVars
      <3>. QED BY <3>1, <3>2
    <2>2. CASE StayAtRecord /\ \E next : Goto(w, s, next)
      BY <1>1, <2>2, GotoOthers DEF StayAtRecord, shardVars, workerVars
    <2>3. CASE Halt(w) /\ job' = job
      BY <1>1, <2>3 DEF Halt, shardVars, ShardTypeOK
    <2>. QED BY <2>1, <2>2, <2>3
  <1>4. LiveHolder'
    BY <1>1, <1>2, <1>3 DEF LiveHolder, Idle
  <1>5. ASSUME NEW x \in Worker, NEW z \in Shard, ~(x = w /\ z = s)
        PROVE  /\ Deciding(x, z)' => Deciding(x, z)
               /\ Current(x, z)' = Current(x, z)
    BY <1>3, <1>5 DEF Deciding, InLoop, Current
  <1>6. ASSUME NEW x \in Worker, NEW z \in Shard, ~(x = w /\ z = s), Deciding(x, z)
        PROVE  Current(x, z) # Current(w, s)
    <2>1. InLoop(x, z) /\ up[x]
      BY <1>6 DEF Deciding
    <2>2. batch[x][z].pos \in 1..Len(log[z]) /\ batch[w][s].pos \in 1..Len(log[s])
      BY <1>1, <2>1, CurrentType
    <2>3. SUFFICES ASSUME Current(x, z) = Current(w, s) PROVE FALSE
      OBVIOUS
    <2>4. z = s
      <3>. DEFINE i == batch[x][z].pos
                  k == batch[w][s].pos
      <3>1. i \in 1..Len(log[z]) /\ k \in 1..Len(log[s]) /\ log[z][i] = log[s][k]
        BY <2>2, <2>3 DEF Current
      <3>. HIDE DEF i, k
      <3>. QED BY <1>1, <3>1 DEF SinglePlace
    <2>5. ~Idle(x, z)
      BY <2>2 DEF Idle
    <2>. QED BY <1>1, <1>2, <1>6, <2>1, <2>4, <2>5 DEF LiveHolder
  <1>. QED BY <1>3, <1>4, <1>5, <1>6

(* The counterpart that is marked has a row, the inserted trade is nobody   *)
(* else's: a thread that is deciding sees neither.                          *)
LEMMA AloneRecord ==
  ASSUME IInv, Alone, NEW w \in Worker, NEW s \in Shard, ProcessRecord(w, s)
  PROVE  Alone'
  <1>. DEFINE t == Current(w, s)
  <1>1. InLoop(w, s) /\ up[w] /\ TypeOK /\ BatchOK
    BY AtInLoop DEF ProcessRecord, CheckExisting, SelectMatch, SelectMismatch,
       MarkCounterpart, PersistTrade, PushPair, IInv
  <1>2. \A x \in Worker, z \in Shard : Deciding(x, z) => row[Current(x, z)] = "NONE"
    BY DEF Alone, NotStoredYet
  <1>3. CASE CheckExisting(w, s)
    <2>1. CASE row[t] # "NONE"
      <3>1. Done(w, s) /\ row' = row
        BY <1>3, <2>1 DEF CheckExisting
      <3>2. job'[w][s].pc = "check"
        BY <1>1, <3>1, DoneOthers DEF NewJob
      <3>. QED BY <1>1, <1>2, <3>1, <3>2, AloneAround, AloneQuiet DEF Deciding
    <2>2. CASE row[t] = "NONE"
      <3>1. Goto(w, s, [NewJob EXCEPT !.pc = "match"]) /\ StayAtRecord /\ row' = row
        BY <1>3, <2>2 DEF CheckExisting
      <3>2. Current(w, s)' = t
        BY <3>1 DEF StayAtRecord, shardVars, Current
      <3>. QED BY <1>1, <1>2, <2>2, <3>1, <3>2, AloneAround, AloneQuiet
    <2>. QED BY <2>1, <2>2
  <1>4. CASE SelectMatch(w, s) \/ SelectMismatch(w, s)
    <2>1. StayAtRecord /\ row' = row /\ (\E next : Goto(w, s, next))
      BY <1>4 DEF SelectMatch, SelectMismatch
    <2>2. Deciding(w, s)
      BY <1>1, <1>4 DEF SelectMatch, SelectMismatch, At, Deciding
    <2>3. Current(w, s)' = t
      BY <2>1 DEF StayAtRecord, shardVars, Current
    <2>. QED BY <1>1, <1>2, <2>1, <2>2, <2>3, AloneAround, AloneQuiet
  <1>5. CASE MarkCounterpart(w, s)
    <2>. DEFINE u == job[w][s].found
    <2>1. /\ StayAtRecord /\ (\E next : Goto(w, s, next)) /\ job[w][s].pc = "mark"
          /\ row' = [row EXCEPT ![u] = job[w][s].verdict]
      BY <1>5 DEF MarkCounterpart, At
    <2>2. KnowsFound(w, s)
      BY <1>1 DEF IInv, FoundOK
    <2>3. row[u] # "NONE"
      BY <2>1, <2>2 DEF KnowsFound
    <2>4. \A x \in Worker, z \in Shard : Deciding(x, z) =>
            row'[Current(x, z)] = row[Current(x, z)]
      <3>1. \A x \in Worker, z \in Shard : Deciding(x, z) => Current(x, z) # u
        BY <1>2, <2>3
      <3>2. \A x \in Worker, z \in Shard : Deciding(x, z) => Current(x, z) \in Trade
        BY <1>1, CurrentType DEF Deciding
      <3>3. row \in [Trade -> Status]
        BY <1>1 DEF TypeOK
      <3>. QED BY <2>1, <3>1, <3>2, <3>3
    <2>5. Deciding(w, s) /\ Current(w, s)' = t
      BY <1>1, <2>1 DEF Deciding, StayAtRecord, shardVars, Current
    <2>. QED BY <1>1, <2>1, <2>4, <2>5, AloneAround, AloneQuiet
  <1>6. CASE PersistTrade(w, s)
    <2>1. CASE row[t] # "NONE"
      <3>1. Halt(w) /\ UNCHANGED <<row, job>>
        BY <1>6, <2>1 DEF PersistTrade
      <3>2. ~up'[w]
        BY <1>1, <3>1 DEF Halt, TypeOK, ShardTypeOK
      <3>. QED BY <1>1, <1>2, <3>1, <3>2, AloneAround, AloneQuiet DEF Deciding
    <2>2. CASE row[t] = "NONE"
      <3>1. /\ row' = [row EXCEPT ![t] = job[w][s].verdict]
            /\ \/ Done(w, s)
               \/ Goto(w, s, [job[w][s] EXCEPT !.pc = "push"]) /\ StayAtRecord
        BY <1>6, <2>2 DEF PersistTrade
      <3>2. ~Deciding(w, s)'
        <4>1. CASE Done(w, s)
          BY <1>1, <4>1, DoneOthers DEF Deciding, NewJob
        <4>2. CASE Goto(w, s, [job[w][s] EXCEPT !.pc = "push"])
          BY <1>1, <4>2, GotoOthers DEF Deciding, TypeOK, Job
        <4>. QED BY <3>1, <4>1, <4>2
      <3>3. \A x \in Worker, z \in Shard : ~(x = w /\ z = s) /\ Deciding(x, z) =>
              row'[Current(x, z)] = row[Current(x, z)]
        <4>1. \A x \in Worker, z \in Shard : Deciding(x, z) => Current(x, z) \in Trade
          BY <1>1, CurrentType DEF Deciding
        <4>2. \A x \in Worker, z \in Shard : ~(x = w /\ z = s) /\ Deciding(x, z) =>
                Current(x, z) # t
          BY <1>1, <3>1, AloneAround
        <4>3. row \in [Trade -> Status]
          BY <1>1 DEF TypeOK
        <4>. QED BY <3>1, <4>1, <4>2, <4>3
      <3>. QED BY <1>1, <3>1, <3>2, <3>3, AloneAround, AloneQuiet
    <2>. QED BY <2>1, <2>2
  <1>7. CASE PushPair(w, s)
    <2>1. Done(w, s) /\ row' = row
      BY <1>7 DEF PushPair
    <2>2. job'[w][s].pc = "check"
      BY <1>1, <2>1, DoneOthers DEF NewJob
    <2>. QED BY <1>1, <1>2, <2>1, <2>2, AloneAround, AloneQuiet DEF Deciding
  <1>. QED BY <1>3, <1>4, <1>5, <1>6, <1>7 DEF ProcessRecord

LEMMA AloneRestart ==
  ASSUME IInv, Alone, NEW w \in Worker, Restart(w)
  PROVE  Alone'
  <1>1. /\ log' = log /\ row' = row
        /\ \A z \in Shard : owner'[z] = IF owner[z] = w THEN NoWorker ELSE owner[z]
        /\ \A x \in Worker : x # w => up'[x] = up[x]
        /\ \A x \in Worker, z \in Shard : x # w =>
             batch'[x][z] = batch[x][z] /\ job'[x][z] = job[x][z]
        /\ \A z \in Shard : batch'[w][z].pos = 0 /\ job'[w][z].pc = "check"
    BY DEF Restart, RestartWorker, NoBatch, NewJob, IInv, TypeOK, ShardTypeOK
  <1>2. LiveHolder'
    BY <1>1 DEF Alone, LiveHolder, Idle
  <1>3. \A x \in Worker, z \in Shard : Deciding(x, z)' =>
          Deciding(x, z) /\ Current(x, z)' = Current(x, z)
    BY <1>1 DEF Deciding, InLoop, Current
  <1>. QED BY <1>1, <1>2, <1>3, AloneQuiet

(* A step outside the trade side, or a crash, that at most takes a worker   *)
(* down.                                                                    *)
LEMMA AloneOutside ==
  ASSUME Alone, UNCHANGED <<log, owner, batch, row, job>>,
         \A x \in Worker : up'[x] => up[x]
  PROVE  Alone'
  <1>1. LiveHolder'
    BY DEF Alone, LiveHolder, Idle
  <1>2. \A x \in Worker, z \in Shard : Deciding(x, z)' =>
          Deciding(x, z) /\ Current(x, z)' = Current(x, z)
    BY DEF Deciding, InLoop, Current
  <1>. QED BY <1>1, <1>2, AloneQuiet

LEMMA AloneNext ==
  ASSUME AtMostOnce, IInv, Alone, [Next]_vars
  PROVE  Alone'
  <1>1. ASSUME NEW w \in Worker, Crash(w) PROVE Alone'
    <2>1. UNCHANGED <<log, owner, batch, row, job>> /\ \A x \in Worker : up'[x] => up[x]
      BY <1>1 DEF Crash, CrashWorker, jobVars, shardVars, IInv, TypeOK, ShardTypeOK
    <2>. QED BY <2>1, AloneOutside
  <1>2. CASE UNCHANGED vars
    <2>1. UNCHANGED <<log, owner, batch, row, job, up>>
      BY <1>2 DEF vars, shardVars, workerVars
    <2>. QED BY <2>1, AloneOutside
  <1>. QED BY <1>1, <1>2, AloneReceive, AloneStream, AloneRecord, AloneRestart
          DEF Next, WorkerStep

(* So the counterpart of a thread that is about to mark was not published:  *)
(* a published verdict would have the thread's own trade stored.            *)
LEMMA MarkedIsUnsent ==
  ASSUME IInv, Alone, NEW w \in Worker, NEW s \in Shard, At(w, s, "mark")
  PROVE  /\ job[w][s].found \in Trade
         /\ \A v \in Verdict : pub[job[w][s].found][v] = 0
  <1>. DEFINE t == Current(w, s)
              u == job[w][s].found
  <1>1. InLoop(w, s) /\ job[w][s].pc = "mark" /\ up[w]
    BY AtInLoop DEF IInv
  <1>2. u # NoTrade
    BY <1>1 DEF IInv, FoundOK, KnowsFound
  <1>3. t \in Trade /\ u \in Trade /\ SameBlock(t, u)
    BY <1>1, <1>2, FoundFacts
  <1>4. row[t] = "NONE"
    BY <1>1 DEF Alone, NotStoredYet, Deciding
  <1>5. ASSUME NEW v \in Verdict, pub[u][v] > 0 PROVE FALSE
    <2>1. PICK x \in Trade : SameBlock(u, x) /\ row[x] = v
      BY <1>3, <1>5 DEF IInv, PubOK
    <2>2. x = t
      BY <1>3, <2>1, BlockSymmetric
    <2>. QED BY <1>4, <2>1, <2>2 DEF Verdict
  <1>6. \A v \in Verdict : pub[u][v] \in Nat
    BY <1>3 DEF IInv, TypeOK, Verdict, Status
  <1>. QED BY <1>3, <1>5, <1>6
=============================================================================
