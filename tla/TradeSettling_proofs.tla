------------------------ MODULE TradeSettling_proofs ------------------------
(***************************************************************************)
(* Proofs about TradeSettling, for every set of trades, allocations,       *)
(* shards and workers and every bound: a trade is settled, and announced,  *)
(* only while all its allocations are.  And about TradeCore, where trades  *)
(* are matched at the same time: a settled trade is matched, and stays so. *)
(***************************************************************************)
EXTENDS TradeCore, KinesisShards_proofs

(* A batch lies within its shard, and a thread between the update and the   *)
(* push is in the loop.                                                     *)
BatchOK ==
  \A w \in Worker, s \in Shard :
    /\ batch[w][s].end <= Len(log[s])
    /\ task[w][s] # "update" => batch[w][s].pos \in 1..batch[w][s].end

(* A settlement has one status for good, however often it comes back, and   *)
(* an allocation is settled only because its settlement came back so: no    *)
(* update that is still to come can take a settled allocation back.         *)
AnswersOK ==
  \A t \in Trade, a \in Alloc :
    /\ \A u, v \in Result :
         OnStream(Answer(t, a, u)) /\ OnStream(Answer(t, a, v)) => u = v
    /\ alloc[t][a] = "Settled" => OnStream(Answer(t, a, "Settled"))

(* A thread that has read all allocations as settled can rely on it. *)
TaskOK ==
  \A w \in Worker, s \in Shard :
    /\ task[w][s] = "save" => row[TradeOf(w, s)] # "NONE" /\ AllSettled(TradeOf(w, s))
    /\ task[w][s] = "push" => row[TradeOf(w, s)] = "SETTLED"

SInv == TypeOK /\ BatchOK /\ AnswersOK /\ TaskOK /\ SettledIsComplete

----------------------------------------------------------------------------
LEMMA SettlingInit == Init => SInv
  <1>. SUFFICES ASSUME Init PROVE SInv
    OBVIOUS
  <1>1. TypeOK
    BY ShardInitType DEF Init, TypeOK, Status, AllocStatus
  <1>2. \A s \in Shard : log[s] = <<>> /\ Len(log[s]) = 0
    BY DEF Init, ShardInit
  <1>3. BatchOK
    BY <1>2 DEF Init, ShardInit, BatchOK, NoBatch
  <1>4. AnswersOK
    <2>1. \A r : ~OnStream(r)
      BY <1>2 DEF OnStream
    <2>. QED BY <2>1 DEF Init, AnswersOK
  <1>5. TaskOK /\ SettledIsComplete
    BY DEF Init, TaskOK, SettledIsComplete, Status
  <1>. QED BY <1>1, <1>3, <1>4, <1>5 DEF SInv

(* What a thread in the loop is at: a settlement that is on the stream. *)
LEMMA SettlementAt ==
  ASSUME TypeOK, NEW w \in Worker, NEW s \in Shard,
         batch[w][s].end <= Len(log[s]), batch[w][s].pos \in 1..batch[w][s].end
  PROVE  /\ Current(w, s) \in Settlement
         /\ Current(w, s) = Answer(Current(w, s).trade, Current(w, s).alloc,
                                   Current(w, s).status)
         /\ OnStream(Current(w, s))
  <1>1. /\ log[s] \in Seq(Settlement) /\ Len(log[s]) \in Nat
        /\ batch[w][s].pos \in Nat /\ batch[w][s].end \in Nat
    BY ShardFieldTypes DEF TypeOK
  <1>2. batch[w][s].pos \in 1..Len(log[s])
    BY <1>1
  <1>3. Current(w, s) \in Settlement
    BY <1>1, <1>2 DEF Current
  <1>. QED BY <1>2, <1>3 DEF Current, OnStream, Settlement, Answer

LEMMA AtSettlement ==
  ASSUME TypeOK, BatchOK, NEW w \in Worker, NEW s \in Shard, NEW pc, At(w, s, pc)
  PROVE  /\ batch[w][s].pos \in 1..batch[w][s].end
         /\ task[w][s] = pc
         /\ Current(w, s) \in Settlement
         /\ Current(w, s) = Answer(Current(w, s).trade, Current(w, s).alloc,
                                   Current(w, s).status)
         /\ OnStream(Current(w, s))
         /\ TradeOf(w, s) \in Trade
  <1>1. batch[w][s].pos \in 1..batch[w][s].end /\ batch[w][s].end <= Len(log[s])
    BY ShardFieldTypes DEF At, Working, Idle, TypeOK, BatchOK
  <1>. QED BY <1>1, SettlementAt DEF At, TradeOf, Settlement

(* A thread that stays where it was, or starts at "update", says of the rows *)
(* what it said.                                                            *)
LEMMA TaskKeeps ==
  ASSUME TaskOK, log' = log, UNCHANGED <<row, alloc>>,
         \A w \in Worker, s \in Shard :
            \/ task'[w][s] = "update"
            \/ task'[w][s] = task[w][s] /\ batch'[w][s] = batch[w][s]
  PROVE  TaskOK'
  <1>. SUFFICES ASSUME NEW w \in Worker, NEW s \in Shard
                PROVE  /\ task'[w][s] = "save" =>
                            row'[TradeOf(w, s)'] # "NONE" /\ AllSettled(TradeOf(w, s))'
                       /\ task'[w][s] = "push" => row'[TradeOf(w, s)'] = "SETTLED"
    BY DEF TaskOK
  <1>1. CASE task'[w][s] = "update"
    BY <1>1
  <1>2. CASE task'[w][s] = task[w][s] /\ batch'[w][s] = batch[w][s]
    <2>1. TradeOf(w, s)' = TradeOf(w, s)
      BY <1>2 DEF TradeOf, Current
    <2>2. AllSettled(TradeOf(w, s))' <=> AllSettled(TradeOf(w, s))
      BY <2>1 DEF AllSettled
    <2>. QED BY <1>2, <2>1, <2>2 DEF TaskOK
  <1>. QED BY <1>1, <1>2

(* The steps of the stream itself move no settlement to another status: a   *)
(* thread is where it was, or starts at "update".                           *)
LEMMA StreamStep ==
  ASSUME SInv, TypeOK', BatchOK', log' = log,
         UNCHANGED <<row, alloc, pub>>,
         \A w \in Worker, s \in Shard :
            \/ task'[w][s] = "update"
            \/ task'[w][s] = task[w][s] /\ batch'[w][s] = batch[w][s]
  PROVE  SInv'
  <1>1. AnswersOK'
    BY DEF SInv, AnswersOK, OnStream, Answer
  <1>2. TaskOK'
    BY TaskKeeps DEF SInv
  <1>3. SettledIsComplete'
    BY DEF SInv, SettledIsComplete, AllSettled
  <1>. QED BY <1>1, <1>2, <1>3 DEF SInv

(* A thread that goes on to its next record. *)
LEMMA DoneBatch ==
  ASSUME TypeOK, BatchOK, NEW w \in Worker, NEW s \in Shard, Done(w, s)
  PROVE  /\ BatchOK' /\ log' = log
         /\ \A x \in Worker, z \in Shard :
              IF x = w /\ z = s THEN task'[x][z] = "update"
              ELSE task'[x][z] = task[x][z] /\ batch'[x][z] = batch[x][z]
  <1>1. /\ log' = log
        /\ batch' = [batch EXCEPT ![w][s] = [pos |-> @.pos + 1, end |-> @.end]]
        /\ task' = [task EXCEPT ![w][s] = "update"]
    BY DEF Done, NextRecord, Goto
  <1>2. \A x \in Worker, z \in Shard :
          IF x = w /\ z = s
            THEN task'[x][z] = "update" /\ batch'[x][z].end = batch[x][z].end
            ELSE task'[x][z] = task[x][z] /\ batch'[x][z] = batch[x][z]
    BY <1>1 DEF TypeOK, ShardTypeOK
  <1>3. BatchOK'
    BY <1>1, <1>2 DEF BatchOK
  <1>. QED BY <1>1, <1>2, <1>3

LEMMA DoneTypes ==
  ASSUME TypeOK, NEW w \in Worker, NEW s \in Shard, Done(w, s)
  PROVE  /\ ShardTypeOK(Settlement)'
         /\ task' \in [Worker -> [Shard -> {"update", "read", "save", "push"}]]
  BY ShardStepType DEF Done, Goto, TypeOK

(* A thread that stays at its record. *)
LEMMA StayBatch ==
  ASSUME TypeOK, BatchOK, NEW w \in Worker, NEW s \in Shard, NEW pc,
         batch[w][s].pos \in 1..batch[w][s].end, StayAtRecord, Goto(w, s, pc)
  PROVE  /\ BatchOK' /\ log' = log /\ batch' = batch
         /\ task'[w][s] = pc
         /\ \A x \in Worker, z \in Shard : ~(x = w /\ z = s) => task'[x][z] = task[x][z]
  <1>1. log' = log /\ batch' = batch /\ task' = [task EXCEPT ![w][s] = pc]
    BY DEF StayAtRecord, shardVars, Goto
  <1>2. /\ task'[w][s] = pc
        /\ \A x \in Worker, z \in Shard : ~(x = w /\ z = s) => task'[x][z] = task[x][z]
    BY <1>1 DEF TypeOK
  <1>. QED BY <1>1, <1>2 DEF BatchOK

LEMMA StayTypes ==
  ASSUME TypeOK, NEW w \in Worker, NEW s \in Shard,
         NEW pc \in {"update", "read", "save", "push"}, StayAtRecord, Goto(w, s, pc)
  PROVE  /\ ShardTypeOK(Settlement)'
         /\ task' \in [Worker -> [Shard -> {"update", "read", "save", "push"}]]
  BY ShardStepType DEF Goto, TypeOK

----------------------------------------------------------------------------
(* One lemma per action. *)

(* What a new settlement does to the types and to the batches. *)
LEMMA ReceiveTypes ==
  ASSUME TypeOK, BatchOK, NEW t \in Trade, NEW a \in Alloc, NEW s \in Shard,
         NEW v \in Outcome[t][a], Put(s, Answer(t, a, v)),
         UNCHANGED <<row, alloc, task, pub, drops>>
  PROVE  /\ Answer(t, a, v) \in Settlement /\ v \in Result
         /\ TypeOK' /\ BatchOK'
         /\ \A z \in Shard : /\ Len(log'[z]) \in Nat /\ Len(log'[z]) >= Len(log[z])
                             /\ \A i \in 1..Len(log[z]) : log'[z][i] = log[z][i]
         /\ \A x : OnStream(x)' <=> OnStream(x) \/ x = Answer(t, a, v)
  <1>1. v \in Result /\ Answer(t, a, v) \in Settlement
    BY SettlingAssumption DEF Answer, Settlement
  <1>2. UNCHANGED <<ckpt, batch>> /\ ShardTypeOK(Settlement)
    BY DEF Put, TypeOK
  <1>3. ShardTypeOK(Settlement)'
    BY <1>1, <1>2, PutType
  <1>4. TypeOK'
    BY <1>3 DEF TypeOK
  <1>5. /\ \A z \in Shard : /\ Len(log'[z]) \in Nat /\ Len(log'[z]) >= Len(log[z])
                            /\ \A i \in 1..Len(log[z]) : log'[z][i] = log[z][i]
        /\ \A x : OnStream(x)' <=> OnStream(x) \/ x = Answer(t, a, v)
    BY <1>1, <1>2, PutKeeps
  <1>6. /\ \A z \in Shard : Len(log[z]) \in Nat
        /\ \A x \in Worker, z \in Shard : batch[x][z].pos \in Nat /\ batch[x][z].end \in Nat
    BY <1>2, ShardFieldTypes
  <1>7. BatchOK'
    BY <1>2, <1>5, <1>6 DEF BatchOK
  <1>. QED BY <1>1, <1>4, <1>5, <1>7

(* Settlement matching gives a settlement one status: a record that comes   *)
(* a second time has the status of the first.                               *)
LEMMA ReceiveKeeps ==
  ASSUME SInv, NEW t \in Trade, NEW a \in Alloc, NEW s \in Shard,
         ReceiveSettlement(t, a, s)
  PROVE  SInv'
  <1>1. PICK v \in Outcome[t][a] :
          /\ \A u \in Result \ {v} : Copies(Answer(t, a, u)) = 0
          /\ Put(s, Answer(t, a, v))
    BY DEF ReceiveSettlement
  <1>3. UNCHANGED <<row, alloc, task, pub, drops>> /\ UNCHANGED <<ckpt, batch>>
    BY <1>1 DEF ReceiveSettlement, Put
  <1>4. ShardTypeOK(Settlement)
    BY DEF SInv, TypeOK
  <1>6. /\ \A z \in Shard : /\ Len(log'[z]) \in Nat /\ Len(log'[z]) >= Len(log[z])
                            /\ \A i \in 1..Len(log[z]) : log'[z][i] = log[z][i]
        /\ \A x : OnStream(x)' <=> OnStream(x) \/ x = Answer(t, a, v)
        /\ v \in Result /\ TypeOK' /\ BatchOK'
    BY <1>1, <1>3, ReceiveTypes DEF SInv
  <1>7. /\ \A z \in Shard : Len(log[z]) \in Nat
        /\ \A x \in Worker, z \in Shard : batch[x][z].pos \in Nat /\ batch[x][z].end \in Nat
    BY <1>4, ShardFieldTypes
  <1>9. AnswersOK'
    <2>1. \A u \in Result \ {v} : ~OnStream(Answer(t, a, u))
      BY <1>1, <1>4, CopiesCount DEF ShardTypeOK
    <2>2. \A b \in Trade, c \in Alloc, u \in Result :
            Answer(b, c, u) = Answer(t, a, v) => b = t /\ c = a /\ u = v
      BY DEF Answer
    <2>3. ASSUME NEW b \in Trade, NEW c \in Alloc, NEW x \in Result, NEW y \in Result,
                 OnStream(Answer(b, c, x))', OnStream(Answer(b, c, y))'
          PROVE  x = y
      <3>1. /\ OnStream(Answer(b, c, x)) \/ Answer(b, c, x) = Answer(t, a, v)
            /\ OnStream(Answer(b, c, y)) \/ Answer(b, c, y) = Answer(t, a, v)
        BY <1>6, <2>3 DEF Answer
      <3>2. CASE b = t /\ c = a
        BY <2>1, <2>2, <3>1, <3>2
      <3>3. CASE ~(b = t /\ c = a)
        BY <2>2, <3>1, <3>3 DEF SInv, AnswersOK
      <3>. QED BY <3>2, <3>3
    <2>4. ASSUME NEW b \in Trade, NEW c \in Alloc, alloc'[b][c] = "Settled"
          PROVE  OnStream(Answer(b, c, "Settled"))'
      <3>1. OnStream(Answer(b, c, "Settled"))
        BY <1>3, <2>4 DEF SInv, AnswersOK
      <3>. QED BY <1>6, <3>1 DEF Answer
    <2>. QED BY <2>3, <2>4 DEF AnswersOK, Answer
  <1>10. TaskOK'
    <2>1. \A x \in Worker, z \in Shard : task[x][z] # "update" =>
            Current(x, z)' = Current(x, z)
      <3>. SUFFICES ASSUME NEW x \in Worker, NEW z \in Shard, task[x][z] # "update"
                    PROVE  Current(x, z)' = Current(x, z)
        OBVIOUS
      <3>1. batch[x][z].pos \in 1..Len(log[z])
        BY <1>7 DEF SInv, BatchOK
      <3>. QED BY <1>3, <1>6, <3>1 DEF Current
    <2>. QED BY <1>3, <2>1 DEF SInv, TaskOK, TradeOf, AllSettled
  <1>11. SettledIsComplete'
    BY <1>3 DEF SInv, SettledIsComplete, AllSettled
  <1>. QED BY <1>6, <1>9, <1>10, <1>11 DEF SInv

(* The heart of the argument: the update of a trade whose allocations are   *)
(* all settled writes "Settled" again.                                      *)
LEMMA UpdateKeeps ==
  ASSUME SInv, NEW w \in Worker, NEW s \in Shard, UpdateAllocation(w, s)
  PROVE  SInv'
  <1>. DEFINE r == Current(w, s)
  <1>1. /\ batch[w][s].pos \in 1..batch[w][s].end /\ task[w][s] = "update"
        /\ r \in Settlement /\ r = Answer(r.trade, r.alloc, r.status) /\ OnStream(r)
    BY AtSettlement DEF UpdateAllocation, SInv
  <1>2. r.trade \in Trade /\ r.alloc \in Alloc /\ r.status \in Result
    BY <1>1 DEF Settlement
  <1>3. /\ UNCHANGED <<row, pub, drops>> /\ StayAtRecord /\ Goto(w, s, "read")
        /\ alloc' = IF row[r.trade] = "NONE" THEN alloc
                    ELSE [alloc EXCEPT ![r.trade][r.alloc] = r.status]
    BY DEF UpdateAllocation
  <1>4. /\ BatchOK' /\ log' = log /\ batch' = batch /\ task'[w][s] = "read"
        /\ \A x \in Worker, z \in Shard : ~(x = w /\ z = s) => task'[x][z] = task[x][z]
    BY <1>1, <1>3, StayBatch DEF SInv
  <1>5. TypeOK'
    <2>1. alloc' \in [Trade -> [Alloc -> AllocStatus]]
      <3>1. r.status \in AllocStatus
        BY <1>2 DEF Result, AllocStatus
      <3>. QED BY <1>2, <1>3, <3>1 DEF SInv, TypeOK
    <2>. QED BY <1>3, <2>1, StayTypes DEF SInv, TypeOK
  <1>6. \A t \in Trade, a \in Alloc :
          alloc'[t][a] = alloc[t][a] \/ (t = r.trade /\ a = r.alloc /\ alloc'[t][a] = r.status)
    BY <1>2, <1>3 DEF SInv, TypeOK
  <1>7. \A x : OnStream(x)' <=> OnStream(x)
    BY <1>4 DEF OnStream
  <1>8. AnswersOK'
    BY <1>1, <1>6, <1>7 DEF SInv, AnswersOK, Answer
  <1>9. \A t \in Trade : AllSettled(t) => AllSettled(t)'
    <2>. SUFFICES ASSUME NEW t \in Trade, AllSettled(t), NEW a \in Alloc
                  PROVE  alloc'[t][a] = "Settled"
      BY DEF AllSettled
    <2>1. alloc[t][a] = "Settled" /\ OnStream(Answer(t, a, "Settled"))
      BY DEF AllSettled, SInv, AnswersOK
    <2>2. CASE t = r.trade /\ a = r.alloc /\ alloc'[t][a] = r.status
      <3>1. "Settled" \in Result
        BY DEF Result
      <3>. QED BY <1>1, <1>2, <2>1, <2>2, <3>1 DEF SInv, AnswersOK
    <2>. QED BY <1>6, <2>1, <2>2
  <1>10. TaskOK'
    <2>. SUFFICES ASSUME NEW x \in Worker, NEW z \in Shard
                  PROVE  /\ task'[x][z] = "save" => /\ row'[TradeOf(x, z)'] # "NONE"
                                                     /\ AllSettled(TradeOf(x, z))'
                         /\ task'[x][z] = "push" => row'[TradeOf(x, z)'] = "SETTLED"
      BY DEF TaskOK
    <2>1. TradeOf(x, z)' = TradeOf(x, z)
      BY <1>4 DEF TradeOf, Current
    <2>2. task'[x][z] \in {"save", "push"} => task'[x][z] = task[x][z]
      BY <1>4
    <2>3. task[x][z] = "save" => TradeOf(x, z) \in Trade
      BY SettlementAt DEF SInv, BatchOK, TradeOf, Settlement
    <2>. QED BY <1>3, <1>9, <2>1, <2>2, <2>3 DEF SInv, TaskOK, AllSettled
  <1>11. SettledIsComplete'
    BY <1>3, <1>9 DEF SInv, SettledIsComplete
  <1>. QED BY <1>4, <1>5, <1>8, <1>10, <1>11 DEF SInv

LEMMA ReadKeeps ==
  ASSUME SInv, NEW w \in Worker, NEW s \in Shard, ReadTrade(w, s)
  PROVE  SInv'
  <1>1. /\ batch[w][s].pos \in 1..batch[w][s].end /\ TradeOf(w, s) \in Trade
        /\ UNCHANGED <<row, alloc, pub, drops>>
    BY AtSettlement DEF ReadTrade, SInv
  <1>2. CASE Done(w, s)
    <2>1. TypeOK'
      BY <1>1, <1>2, DoneTypes DEF SInv, TypeOK
    <2>. QED BY <1>1, <1>2, <2>1, DoneBatch, StreamStep DEF SInv
  <1>3. CASE /\ row[TradeOf(w, s)] # "NONE" /\ AllSettled(TradeOf(w, s))
             /\ Goto(w, s, "save") /\ StayAtRecord
    <2>1. TypeOK'
      BY <1>1, <1>3, StayTypes DEF SInv, TypeOK
    <2>2. /\ BatchOK' /\ log' = log /\ batch' = batch /\ task'[w][s] = "save"
          /\ \A x \in Worker, z \in Shard : ~(x = w /\ z = s) => task'[x][z] = task[x][z]
      BY <1>1, <1>3, StayBatch DEF SInv
    <2>3. AnswersOK'
      BY <1>1, <2>2 DEF SInv, AnswersOK, OnStream, Answer
    <2>4. TaskOK'
      <3>1. \A x \in Worker, z \in Shard : TradeOf(x, z)' = TradeOf(x, z)
        BY <2>2 DEF TradeOf, Current
      <3>2. ASSUME NEW x \in Worker, NEW z \in Shard
            PROVE  /\ task'[x][z] = "save" => /\ row[TradeOf(x, z)] # "NONE"
                                              /\ AllSettled(TradeOf(x, z))
                   /\ task'[x][z] = "push" => row[TradeOf(x, z)] = "SETTLED"
        BY <1>3, <2>2 DEF SInv, TaskOK
      <3>3. row' = row
        BY <1>1
      <3>4. \A x \in Worker, z \in Shard : AllSettled(TradeOf(x, z))' <=> AllSettled(TradeOf(x, z))
        BY <3>1, <1>1 DEF AllSettled
      <3>. QED BY <3>1, <3>2, <3>3, <3>4 DEF TaskOK
    <2>5. SettledIsComplete'
      BY <1>1 DEF SInv, SettledIsComplete, AllSettled
    <2>. QED BY <2>1, <2>2, <2>3, <2>4, <2>5 DEF SInv
  <1>. QED BY <1>2, <1>3 DEF ReadTrade

LEMMA SaveKeeps ==
  ASSUME SInv, NEW w \in Worker, NEW s \in Shard, SaveSettled(w, s)
  PROVE  SInv'
  <1>. DEFINE t == TradeOf(w, s)
  <1>1. batch[w][s].pos \in 1..batch[w][s].end /\ t \in Trade /\ task[w][s] = "save"
    BY AtSettlement DEF SaveSettled, SInv
  <1>2. /\ row' = [row EXCEPT ![t] = "SETTLED"]
        /\ alloc' = [alloc EXCEPT ![t] = [a \in Alloc |-> "Settled"]]
        /\ Goto(w, s, "push") /\ StayAtRecord /\ UNCHANGED <<pub, drops>>
    BY DEF SaveSettled
  <1>3. \A a \in Alloc : alloc[t][a] = "Settled"
    BY <1>1 DEF SInv, TaskOK, AllSettled
  <1>4. \A u \in Trade, a \in Alloc : alloc'[u][a] = alloc[u][a]
    BY <1>1, <1>2, <1>3 DEF SInv, TypeOK
  <1>5. \A u \in Trade : row'[u] = row[u] \/ (u = t /\ row'[u] = "SETTLED")
    BY <1>1, <1>2 DEF SInv, TypeOK
  <1>6. TypeOK'
    <2>1. row' \in [Trade -> Status]
      BY <1>1, <1>2 DEF SInv, TypeOK, Status
    <2>2. alloc' \in [Trade -> [Alloc -> AllocStatus]]
      BY <1>1, <1>2 DEF SInv, TypeOK, AllocStatus
    <2>. QED BY <1>2, <2>1, <2>2, StayTypes DEF SInv, TypeOK
  <1>7. /\ BatchOK' /\ log' = log /\ batch' = batch /\ task'[w][s] = "push"
        /\ \A x \in Worker, z \in Shard : ~(x = w /\ z = s) => task'[x][z] = task[x][z]
    BY <1>1, <1>2, StayBatch DEF SInv
  <1>8. AnswersOK'
    BY <1>4, <1>7 DEF SInv, AnswersOK, OnStream, Answer
  <1>9. TaskOK'
    <2>. SUFFICES ASSUME NEW x \in Worker, NEW z \in Shard
                  PROVE  /\ task'[x][z] = "save" => /\ row'[TradeOf(x, z)'] # "NONE"
                                                     /\ AllSettled(TradeOf(x, z))'
                         /\ task'[x][z] = "push" => row'[TradeOf(x, z)'] = "SETTLED"
      BY DEF TaskOK
    <2>1. TradeOf(x, z)' = TradeOf(x, z)
      BY <1>7 DEF TradeOf, Current
    <2>2. CASE x = w /\ z = s
      BY <1>1, <1>2, <1>7, <2>1, <2>2 DEF SInv, TypeOK
    <2>3. CASE ~(x = w /\ z = s)
      <3>1. task'[x][z] = task[x][z]
        BY <1>7, <2>3
      <3>2. task[x][z] # "update" => TradeOf(x, z) \in Trade
        BY SettlementAt DEF SInv, BatchOK, TradeOf, Settlement
      <3>. QED BY <1>4, <1>5, <2>1, <3>1, <3>2 DEF SInv, TaskOK, AllSettled
    <2>. QED BY <2>2, <2>3
  <1>10. SettledIsComplete'
    BY <1>2, <1>3, <1>4, <1>5 DEF SInv, SettledIsComplete, AllSettled
  <1>. QED BY <1>6, <1>7, <1>8, <1>9, <1>10 DEF SInv

LEMMA PushKeeps ==
  ASSUME SInv, NEW w \in Worker, NEW s \in Shard, PushSettled(w, s)
  PROVE  SInv'
  <1>. DEFINE t == TradeOf(w, s)
  <1>1. /\ batch[w][s].pos \in 1..batch[w][s].end /\ t \in Trade /\ task[w][s] = "push"
        /\ Done(w, s) /\ UNCHANGED <<row, alloc>>
    BY AtSettlement DEF PushSettled, SInv
  <1>2. row[t] = "SETTLED"
    BY <1>1 DEF SInv, TaskOK
  <1>3. /\ pub' \in [Trade -> [Status -> Nat]] /\ drops' \in Nat
        /\ \A u \in Trade : u # t => pub'[u] = pub[u]
    <2>1. /\ pub \in [Trade -> [Status -> Nat]] /\ drops \in Nat /\ "SETTLED" \in Status
          /\ \/ pub' = [pub EXCEPT ![t]["SETTLED"] = @ + 1] /\ drops' = drops
             \/ drops' = drops + 1 /\ pub' = pub
      BY DEF PushSettled, SInv, TypeOK, Status
    <2>2. CASE pub' = [pub EXCEPT ![t]["SETTLED"] = @ + 1] /\ drops' = drops
      <3>1. [pub[t] EXCEPT !["SETTLED"] = @ + 1] \in [Status -> Nat]
        BY <1>1, <2>1
      <3>. QED BY <1>1, <2>1, <2>2, <3>1
    <2>3. CASE drops' = drops + 1 /\ pub' = pub
      BY <2>1, <2>3
    <2>. QED BY <2>1, <2>2, <2>3
  <1>4. TypeOK'
    BY <1>1, <1>3, DoneTypes DEF SInv, TypeOK
  <1>5. /\ BatchOK' /\ log' = log
        /\ \A x \in Worker, z \in Shard :
             \/ task'[x][z] = "update"
             \/ task'[x][z] = task[x][z] /\ batch'[x][z] = batch[x][z]
    BY <1>1, DoneBatch DEF SInv
  <1>6. AnswersOK'
    BY <1>1, <1>5 DEF SInv, AnswersOK, OnStream, Answer
  <1>7. TaskOK'
    BY <1>1, <1>5, TaskKeeps DEF SInv
  <1>8. SettledIsComplete'
    BY <1>1, <1>2, <1>3 DEF SInv, SettledIsComplete, AllSettled
  <1>. QED BY <1>4, <1>5, <1>6, <1>7, <1>8 DEF SInv

(* Leases, batches, checkpoints and crashes, on the threads of one worker. *)
LEMMA ShardTypes ==
  ASSUME TypeOK, BatchOK, NEW w \in Worker, NEW s \in Shard,
         Take(w, s) \/ Steal(w, s) \/ Fetch(w, s) \/ Checkpoint(w, s) \/ Crash(w)
  PROVE  /\ TypeOK' /\ BatchOK' /\ UNCHANGED <<log, row, alloc, task, pub, drops>>
         /\ \A x \in Worker, z \in Shard :
              \/ task'[x][z] = "update"
              \/ task'[x][z] = task[x][z] /\ batch'[x][z] = batch[x][z]
  <1>1. TypeOK'
    BY ShardStepType DEF TypeOK, Take, Steal, Fetch, Checkpoint, Crash, Rest
  <1>2. UNCHANGED <<log, row, alloc, task, pub, drops>>
    BY DEF Take, Steal, Fetch, Checkpoint, Crash, Rest, TakeLease, StealLease, FetchBatch,
           CheckpointBatch, CrashWorker, Halt, shardVars
  <1>3. /\ \A x \in Worker, z \in Shard : task[x][z] # "update" => batch'[x][z] = batch[x][z]
        /\ \A x \in Worker, z \in Shard : batch'[x][z].end <= Len(log[z])
    <2>1. CASE batch' = batch
      BY <2>1 DEF BatchOK
    <2>2. CASE Fetch(w, s)
      <3>1. PICK e \in (ckpt[s] + 1)..Len(log[s]) :
              batch' = [batch EXCEPT ![w][s] = [pos |-> ckpt[s] + 1, end |-> e]]
        BY <2>2 DEF Fetch, FetchBatch
      <3>2. batch[w][s].pos = 0 /\ task[w][s] = "update"
        BY <2>2, ShardFieldTypes DEF TypeOK, BatchOK, Fetch, FetchBatch, Idle
      <3>3. e <= Len(log[s])
        BY ShardFieldTypes DEF TypeOK
      <3>. QED BY <3>1, <3>2, <3>3 DEF TypeOK, ShardTypeOK, BatchOK
    <2>3. CASE Checkpoint(w, s) /\ owner[s] = w
      <3>1. batch' = [batch EXCEPT ![w][s] = NoBatch]
        BY <2>3 DEF Checkpoint, CheckpointBatch
      <3>2. task[w][s] = "update"
        BY <2>3, ShardFieldTypes
           DEF TypeOK, BatchOK, Checkpoint, CheckpointBatch, Finished
      <3>3. NoBatch.end = 0 /\ Len(log[s]) >= 0
        BY ShardFieldTypes DEF TypeOK, NoBatch
      <3>. QED BY <3>1, <3>2, <3>3 DEF TypeOK, ShardTypeOK, BatchOK
    <2>. QED BY <2>1, <2>2, <2>3 DEF Take, Steal, Checkpoint, Crash, TakeLease, StealLease,
                CheckpointBatch, CrashWorker, Halt, shardVars
  <1>4. BatchOK'
    BY <1>2, <1>3 DEF BatchOK
  <1>. QED BY <1>1, <1>2, <1>3, <1>4

LEMMA ShardKeeps ==
  ASSUME SInv, NEW w \in Worker, NEW s \in Shard,
         Take(w, s) \/ Steal(w, s) \/ Fetch(w, s) \/ Checkpoint(w, s) \/ Crash(w)
  PROVE  SInv'
  BY ShardTypes, StreamStep DEF SInv

LEMMA RestartTypes ==
  ASSUME TypeOK, BatchOK, NEW w \in Worker, Restart(w)
  PROVE  /\ TypeOK' /\ BatchOK' /\ UNCHANGED <<log, row, alloc, pub, drops>>
         /\ \A x \in Worker, z \in Shard :
              \/ task'[x][z] = "update"
              \/ task'[x][z] = task[x][z] /\ batch'[x][z] = batch[x][z]
  <1>1. /\ log' = log /\ UNCHANGED <<row, alloc, pub, drops>>
        /\ batch' = [batch EXCEPT ![w] = [s \in Shard |-> NoBatch]]
        /\ task' = [task EXCEPT ![w] = [s \in Shard |-> "update"]]
    BY DEF Restart, RestartWorker
  <1>2. TypeOK'
    <2>1. ShardTypeOK(Settlement)'
      BY DEF Restart, RestartWorker, TypeOK, ShardTypeOK, NoBatch
    <2>. QED BY <1>1, <2>1 DEF TypeOK
  <1>3. \A x \in Worker, z \in Shard :
          IF x = w THEN task'[x][z] = "update" /\ batch'[x][z].end = 0
          ELSE task'[x][z] = task[x][z] /\ batch'[x][z] = batch[x][z]
    BY <1>1 DEF TypeOK, ShardTypeOK, NoBatch
  <1>4. BatchOK'
    <2>1. \A z \in Shard : Len(log[z]) >= 0
      BY ShardFieldTypes DEF TypeOK
    <2>. QED BY <1>1, <1>3, <2>1 DEF BatchOK
  <1>. QED BY <1>1, <1>2, <1>3, <1>4

LEMMA RestartKeeps ==
  ASSUME SInv, NEW w \in Worker, Restart(w)
  PROVE  SInv'
  BY RestartTypes, StreamStep DEF SInv

----------------------------------------------------------------------------
LEMMA SettlingStutter ==
  ASSUME SInv, UNCHANGED vars
  PROVE  SInv'
  <1>1. TypeOK'
    BY DEF SInv, vars, shardVars, workerVars, TypeOK, ShardTypeOK
  <1>2. BatchOK'
    BY DEF SInv, vars, shardVars, BatchOK
  <1>3. UNCHANGED <<log, batch, row, alloc, task, pub>>
    BY DEF vars, shardVars
  <1>. QED BY <1>1, <1>2, <1>3, StreamStep

LEMMA SettlingNext == SInv /\ [Next]_vars => SInv'
  <1>. SUFFICES ASSUME SInv, [Next]_vars PROVE SInv'
    OBVIOUS
  <1>1. ASSUME NEW t \in Trade, NEW a \in Alloc, NEW s \in Shard, ReceiveSettlement(t, a, s)
        PROVE  SInv'
    BY <1>1, ReceiveKeeps
  <1>2. ASSUME NEW w \in Worker, NEW s \in Shard, WorkerStep(w, s)
        PROVE  SInv'
    BY <1>2, ShardKeeps, UpdateKeeps, ReadKeeps, SaveKeeps, PushKeeps
       DEF WorkerStep, ProcessRecord
  <1>3. ASSUME NEW w \in Worker, Crash(w)
        PROVE  SInv'
    <2>1. UNCHANGED <<log, batch, row, alloc, task, pub, drops>>
      BY <1>3 DEF Crash, CrashWorker, Rest, shardVars
    <2>2. TypeOK'
      BY <1>3 DEF Crash, CrashWorker, Rest, shardVars, SInv, TypeOK, ShardTypeOK
    <2>3. BatchOK'
      BY <2>1 DEF SInv, BatchOK
    <2>. QED BY <2>1, <2>2, <2>3, StreamStep
  <1>4. ASSUME NEW w \in Worker, Restart(w)
        PROVE  SInv'
    BY <1>4, RestartKeeps
  <1>5. CASE UNCHANGED vars
    BY <1>5, SettlingStutter
  <1>. QED BY <1>1, <1>2, <1>3, <1>4, <1>5 DEF Next

(* Every state of the settlement side satisfies the invariant. *)
THEOREM SettlingInvariance == Spec => []SInv
  BY SettlingInit, SettlingNext, PTL DEF Spec

(* SettlementKinesisStreamProcessor's rows, allocations, threads and        *)
(* counters keep their types.                                               *)
THEOREM SettlingTypeCorrect == Spec => []TypeOK
  <1>1. SInv => TypeOK
    BY DEF SInv
  <1>. QED BY <1>1, SettlingInvariance, PTL

(* updateSettledTrade and pushSettledUpstream: egress hears of a settled    *)
(* trade only after the database does, and a trade is stored as settled     *)
(* only while all its allocations are, however the update, the read, the    *)
(* save and the push of the threads of all workers interleave.              *)
THEOREM SettlingComplete == Spec => []SettledIsComplete
  <1>1. SInv => SettledIsComplete
    BY DEF SInv
  <1>. QED BY <1>1, SettlingInvariance, PTL

----------------------------------------------------------------------------
(* Why no settled trade is missed.  A record is reached once a thread has   *)
(* updated its allocation; ahead when it will be read yet: neither the      *)
(* checkpoint nor any thread has gone past it.                              *)
Reached(s, i) ==
  \/ i <= ckpt[s]
  \/ \E w \in Worker : \/ i < batch[w][s].pos
                       \/ i = batch[w][s].pos /\ task[w][s] # "update"

Ahead(s, i) == i > ckpt[s] /\ \A w \in Worker : batch[w][s].pos <= i

Announced(t) == row[t] = "SETTLED" /\ pub[t]["SETTLED"] > 0

ReachOK ==
  /\ \A s \in Shard : ckpt[s] <= Len(log[s])
  /\ \A w \in Worker, s \in Shard : batch[w][s].pos <= batch[w][s].end + 1

Recorded(r) == row[r.trade] = "NONE" \/ alloc[r.trade][r.alloc] = r.status

UpdatedOK ==
  \A s \in Shard : \A i \in 1..Len(log[s]) : Reached(s, i) => Recorded(log[s][i])

(* Once all allocations are settled, the record that settled the last one   *)
(* is ahead of every thread until one of them announces the trade.          *)
PendingOK ==
  drops = 0 => \A t \in Trade : row[t] # "NONE" /\ AllSettled(t) =>
     \/ Announced(t)
     \/ \E s \in Shard : \E i \in 1..Len(log[s]) : log[s][i].trade = t /\ Ahead(s, i)

AInv == SInv /\ ReachOK /\ UpdatedOK /\ PendingOK

(* The numbers and records that the arguments below compare. *)
LEMMA SettlingNumbers ==
  ASSUME TypeOK
  PROVE  /\ \A s \in Shard : ckpt[s] \in Nat /\ Len(log[s]) \in Nat
         /\ \A s \in Shard : \A i \in 1..Len(log[s]) :
              log[s][i] \in Settlement /\ OnStream(log[s][i])
         /\ \A w \in Worker, s \in Shard : batch[w][s].pos \in Nat /\ batch[w][s].end \in Nat
  <1>1. ShardTypeOK(Settlement)
    BY DEF TypeOK
  <1>2. /\ \A s \in Shard : log[s] \in Seq(Settlement) /\ Len(log[s]) \in Nat /\ ckpt[s] \in Nat
        /\ \A w \in Worker, s \in Shard : batch[w][s].pos \in Nat /\ batch[w][s].end \in Nat
    BY <1>1, ShardFieldTypes
  <1>3. \A s \in Shard : \A i \in 1..Len(log[s]) : log[s][i] \in Settlement
    BY <1>2
  <1>. QED BY <1>2, <1>3 DEF OnStream

LEMMA AnnounceInit == Init => AInv
  <1>. SUFFICES ASSUME Init PROVE AInv
    OBVIOUS
  <1>1. \A s \in Shard : log[s] = <<>> /\ Len(log[s]) = 0 /\ ckpt[s] = 0
    BY DEF Init, ShardInit
  <1>2. ReachOK
    BY <1>1 DEF Init, ShardInit, ReachOK, NoBatch
  <1>3. UpdatedOK
    BY <1>1 DEF UpdatedOK
  <1>4. PendingOK
    BY AllocAssumption DEF Init, PendingOK, AllSettled
  <1>. QED BY <1>2, <1>3, <1>4, SettlingInit DEF AInv

(* What a step on an unchanged log has to show: what was recorded stays so, *)
(* and a record it reaches is recorded.                                     *)
LEMMA UpdatedStep ==
  ASSUME TypeOK, UpdatedOK, log' = log,
         \A r \in Settlement : OnStream(r) /\ Recorded(r) => Recorded(r)',
         \A s \in Shard : \A i \in 1..Len(log[s]) :
           Reached(s, i)' => Reached(s, i) \/ Recorded(log[s][i])'
  PROVE  UpdatedOK'
  <1>. SUFFICES ASSUME NEW s \in Shard, NEW i \in 1..Len(log[s]), Reached(s, i)'
                PROVE  Recorded(log[s][i])'
    BY DEF UpdatedOK, Recorded
  <1>. QED BY SettlingNumbers DEF UpdatedOK

(* And for every settled trade: it is announced now, or it was settled      *)
(* before and a record of it that was ahead still is.                       *)
LEMMA PendingStep ==
  ASSUME PendingOK, log' = log, drops' = 0 => drops = 0,
         ASSUME NEW t \in Trade, drops' = 0, row'[t] # "NONE", AllSettled(t)'
         PROVE  \/ Announced(t)'
                \/ \E s \in Shard : \E i \in 1..Len(log[s]) :
                     log[s][i].trade = t /\ Ahead(s, i)'
                \/ /\ row[t] # "NONE" /\ AllSettled(t) /\ ~Announced(t)
                   /\ \A s \in Shard : \A i \in 1..Len(log[s]) :
                        log[s][i].trade = t /\ Ahead(s, i) => Ahead(s, i)'
  PROVE  PendingOK'
  <1>. SUFFICES ASSUME NEW t \in Trade, drops' = 0, row'[t] # "NONE", AllSettled(t)'
                PROVE  \/ Announced(t)'
                       \/ \E s \in Shard : \E i \in 1..Len(log[s]) :
                            log[s][i].trade = t /\ Ahead(s, i)'
    BY DEF PendingOK
  <1>. QED BY DEF PendingOK

(* A step that changes neither rows, allocations nor announcements. *)
LEMMA QuietKeeps ==
  ASSUME AInv, SInv', ReachOK', log' = log, UNCHANGED <<row, alloc, pub, drops>>,
         \A s \in Shard : \A i \in 1..Len(log[s]) :
           /\ Reached(s, i)' => Reached(s, i)
           /\ Ahead(s, i) /\ log[s][i].trade \in Trade /\ row[log[s][i].trade] # "NONE"
                /\ AllSettled(log[s][i].trade) => Ahead(s, i)'
  PROVE  AInv'
  <1>1. UpdatedOK'
    BY UpdatedStep DEF AInv, SInv, Recorded
  <1>2. PendingOK'
    BY PendingStep DEF AInv, AllSettled, Announced
  <1>. QED BY <1>1, <1>2 DEF AInv

LEMMA ReceiveAnnounce ==
  ASSUME AInv, NEW t \in Trade, NEW a \in Alloc, NEW s \in Shard,
         ReceiveSettlement(t, a, s)
  PROVE  AInv'
  <1>1. SInv'
    BY ReceiveKeeps DEF AInv
  <1>2. PICK v \in Outcome[t][a] : Put(s, Answer(t, a, v))
    BY DEF ReceiveSettlement
  <1>3. Answer(t, a, v) \in Settlement /\ ShardTypeOK(Settlement)
    BY SettlingAssumption DEF Answer, Settlement, AInv, SInv, TypeOK
  <1>4. UNCHANGED <<row, alloc, task, pub, drops, ckpt, batch>>
    BY <1>2 DEF ReceiveSettlement, Put
  <1>5. \A z \in Shard : /\ Len(log'[z]) \in Nat /\ Len(log'[z]) >= Len(log[z])
                         /\ \A i \in 1..Len(log[z]) : log'[z][i] = log[z][i]
    BY <1>2, <1>3, PutKeeps
  <1>6. /\ \A z \in Shard : ckpt[z] \in Nat /\ Len(log[z]) \in Nat
        /\ \A w \in Worker, z \in Shard : batch[w][z].pos \in Nat /\ batch[w][z].end \in Nat
    BY SettlingNumbers DEF AInv, SInv
  <1>7. ReachOK'
    BY <1>4, <1>5, <1>6 DEF AInv, ReachOK
  <1>8. UpdatedOK'
    <2>. SUFFICES ASSUME NEW z \in Shard, NEW i \in 1..Len(log'[z]), Reached(z, i)'
                  PROVE  Recorded(log[z][i])'
      BY DEF UpdatedOK
    <2>1. Reached(z, i)
      BY <1>4 DEF Reached
    <2>2. i \in 1..Len(log[z])
      <3>1. i \in Nat /\ i >= 1
        BY <1>5
      <3>2. i <= Len(log[z])
        BY <1>6, <2>1, <3>1 DEF AInv, SInv, ReachOK, BatchOK, Reached
      <3>. QED BY <1>6, <3>1, <3>2
    <2>3. Recorded(log[z][i]) /\ log'[z][i] = log[z][i]
      BY <1>5, <2>1, <2>2 DEF AInv, UpdatedOK
    <2>. QED BY <1>4, <2>3 DEF Recorded
  <1>9. PendingOK'
    <2>. SUFFICES ASSUME drops = 0, NEW b \in Trade, row[b] # "NONE", AllSettled(b)
                  PROVE  \/ Announced(b)'
                         \/ \E z \in Shard : \E i \in 1..Len(log'[z]) :
                              log'[z][i].trade = b /\ Ahead(z, i)'
      BY <1>4 DEF PendingOK, AllSettled
    <2>1. CASE Announced(b)
      BY <1>4, <2>1 DEF Announced
    <2>2. CASE ~Announced(b)
      <3>1. PICK z \in Shard : \E i \in 1..Len(log[z]) : log[z][i].trade = b /\ Ahead(z, i)
        BY <2>2 DEF AInv, PendingOK
      <3>2. PICK i \in 1..Len(log[z]) : log[z][i].trade = b /\ Ahead(z, i)
        BY <3>1
      <3>3. i \in 1..Len(log'[z]) /\ log'[z][i].trade = b
        BY <1>5, <1>6, <3>2
      <3>. QED BY <1>4, <3>2, <3>3 DEF Ahead
    <2>. QED BY <2>1, <2>2
  <1>. QED BY <1>1, <1>7, <1>8, <1>9 DEF AInv

(* The update that settles the last allocation is of a record no thread and *)
(* no checkpoint has passed: one that was passed is recorded already.       *)
LEMMA UpdateAnnounce ==
  ASSUME AInv, NEW w \in Worker, NEW s \in Shard, UpdateAllocation(w, s)
  PROVE  AInv'
  <1>. DEFINE r == Current(w, s)
              p == batch[w][s].pos
  <1>0. SInv /\ TypeOK /\ BatchOK /\ SInv'
    BY UpdateKeeps DEF AInv, SInv
  <1>1. /\ p \in 1..batch[w][s].end /\ task[w][s] = "update"
        /\ r \in Settlement /\ r = Answer(r.trade, r.alloc, r.status) /\ OnStream(r)
    BY <1>0, AtSettlement DEF UpdateAllocation
  <1>2. r.trade \in Trade /\ r.alloc \in Alloc /\ r.status \in Result
    BY <1>1 DEF Settlement
  <1>3. /\ UNCHANGED <<row, pub, drops>> /\ StayAtRecord /\ Goto(w, s, "read")
        /\ alloc' = IF row[r.trade] = "NONE" THEN alloc
                    ELSE [alloc EXCEPT ![r.trade][r.alloc] = r.status]
    BY DEF UpdateAllocation
  <1>4. /\ UNCHANGED <<log, ckpt, batch>>
        /\ \A x \in Worker, z \in Shard : ~(x = w /\ z = s) => task'[x][z] = task[x][z]
    BY <1>0, <1>1, <1>3, StayBatch DEF StayAtRecord, shardVars
  <1>5. ReachOK'
    BY <1>4 DEF AInv, ReachOK
  <1>6. \A t \in Trade, a \in Alloc :
          alloc'[t][a] = IF row[r.trade] # "NONE" /\ t = r.trade /\ a = r.alloc
                           THEN r.status ELSE alloc[t][a]
    BY <1>0, <1>2, <1>3 DEF TypeOK
  <1>7. log[s][p] = r /\ p \in 1..Len(log[s])
    BY <1>0, <1>1, SettlingNumbers DEF Current, BatchOK
  <1>8. UpdatedOK'
    <2>1. ASSUME NEW q \in Settlement, OnStream(q), Recorded(q) PROVE Recorded(q)'
      <3>1. /\ q = Answer(q.trade, q.alloc, q.status)
            /\ q.trade \in Trade /\ q.alloc \in Alloc /\ q.status \in Result
        BY DEF Settlement, Answer
      <3>2. q.trade = r.trade /\ q.alloc = r.alloc => q.status = r.status
        BY <1>0, <1>1, <1>2, <2>1, <3>1 DEF SInv, AnswersOK
      <3>. QED BY <1>3, <1>6, <2>1, <3>1, <3>2 DEF Recorded
    <2>2. row'[r.trade] = "NONE" \/ alloc'[r.trade][r.alloc] = r.status
      BY <1>2, <1>3, <1>6
    <2>3. ASSUME NEW z \in Shard, NEW i \in 1..Len(log[z]), Reached(z, i)'
          PROVE  Reached(z, i) \/ Recorded(log[z][i])'
      <3>1. CASE z = s /\ i = p
        BY <1>4, <1>7, <2>2, <3>1 DEF Recorded
      <3>2. CASE ~(z = s /\ i = p)
        BY <1>4, <2>3, <3>2 DEF Reached
      <3>. QED BY <3>1, <3>2
    <2>. QED BY <1>0, <1>4, <2>1, <2>3, UpdatedStep DEF AInv
  <1>9. PendingOK'
    <2>1. ASSUME NEW t \in Trade, drops' = 0, row'[t] # "NONE", AllSettled(t)'
          PROVE  \/ Announced(t)'
                 \/ \E z \in Shard : \E i \in 1..Len(log[z]) :
                      log[z][i].trade = t /\ Ahead(z, i)'
                 \/ /\ row[t] # "NONE" /\ AllSettled(t) /\ ~Announced(t)
                    /\ \A z \in Shard : \A i \in 1..Len(log[z]) :
                         log[z][i].trade = t /\ Ahead(z, i) => Ahead(z, i)'
      <3>1. \A z \in Shard : \A i : Ahead(z, i)' <=> Ahead(z, i)
        BY <1>4 DEF Ahead
      <3>2. CASE AllSettled(t)
        BY <1>3, <2>1, <3>1, <3>2 DEF Announced
      <3>3. CASE ~AllSettled(t)
        <4>1. /\ t = r.trade /\ row[r.trade] # "NONE"
              /\ alloc[r.trade][r.alloc] # r.status
          BY <1>2, <1>6, <2>1, <3>3 DEF AllSettled
        <4>2. ~Reached(s, p)
          BY <1>7, <4>1 DEF AInv, UpdatedOK, Recorded
        <4>3. Ahead(s, p)
          BY <1>0, <1>7, <4>2, SettlingNumbers DEF Reached, Ahead
        <4>. QED BY <1>7, <3>1, <4>1, <4>3
      <3>. QED BY <3>2, <3>3
    <2>. QED BY <1>3, <1>4, <2>1, PendingStep DEF AInv
  <1>. QED BY <1>0, <1>5, <1>8, <1>9 DEF AInv

(* A thread that goes on to the next record has passed the one it was at. *)
LEMMA PassRecord ==
  ASSUME AInv, NEW w \in Worker, NEW s \in Shard, Done(w, s),
         batch[w][s].pos \in 1..batch[w][s].end, task[w][s] # "update"
  PROVE  /\ ReachOK' /\ log' = log
         /\ \A z \in Shard : \A i \in 1..Len(log[z]) : Reached(z, i)' => Reached(z, i)
         /\ \A z \in Shard : \A i \in 1..Len(log[z]) :
              Ahead(z, i) /\ ~(z = s /\ i = batch[w][s].pos) => Ahead(z, i)'
  <1>1. /\ UNCHANGED <<log, ckpt>>
        /\ batch' = [batch EXCEPT ![w][s] = [pos |-> @.pos + 1, end |-> @.end]]
        /\ task' = [task EXCEPT ![w][s] = "update"]
    BY DEF Done, NextRecord, Goto
  <1>2. \A x \in Worker, z \in Shard :
          IF x = w /\ z = s
            THEN /\ task'[x][z] = "update" /\ batch'[x][z].end = batch[x][z].end
                 /\ batch'[x][z].pos = batch[x][z].pos + 1
            ELSE task'[x][z] = task[x][z] /\ batch'[x][z] = batch[x][z]
    BY <1>1 DEF AInv, SInv, TypeOK, ShardTypeOK
  <1>3. /\ \A z \in Shard : ckpt[z] \in Nat /\ Len(log[z]) \in Nat
        /\ \A x \in Worker, z \in Shard : batch[x][z].pos \in Nat /\ batch[x][z].end \in Nat
    BY SettlingNumbers DEF AInv, SInv
  <1>4. ReachOK'
    BY <1>1, <1>2, <1>3 DEF AInv, ReachOK
  <1>5. ASSUME NEW z \in Shard, NEW i \in 1..Len(log[z]), Reached(z, i)' PROVE Reached(z, i)
    <2>1. i \in Nat
      BY <1>3
    <2>. QED BY <1>1, <1>2, <1>3, <1>5, <2>1 DEF Reached
  <1>6. ASSUME NEW z \in Shard, NEW i \in 1..Len(log[z]), Ahead(z, i),
               ~(z = s /\ i = batch[w][s].pos)
        PROVE  Ahead(z, i)'
    <2>1. i \in Nat
      BY <1>3
    <2>. QED BY <1>1, <1>2, <1>3, <1>6, <2>1 DEF Ahead
  <1>. QED BY <1>1, <1>4, <1>5, <1>6

(* A thread that stays at a record it has updated. *)
LEMMA StayAtReached ==
  ASSUME AInv, NEW w \in Worker, NEW s \in Shard, NEW pc, StayAtRecord, Goto(w, s, pc),
         task[w][s] # "update", pc # "update"
  PROVE  /\ ReachOK' /\ log' = log
         /\ \A z \in Shard : \A i : Reached(z, i)' => Reached(z, i)
         /\ \A z \in Shard : \A i : Ahead(z, i)' <=> Ahead(z, i)
  <1>1. UNCHANGED <<log, ckpt, batch>> /\ task' = [task EXCEPT ![w][s] = pc]
    BY DEF StayAtRecord, shardVars, Goto
  <1>2. \A x \in Worker, z \in Shard : task'[x][z] # "update" => task[x][z] # "update"
    BY <1>1 DEF AInv, SInv, TypeOK
  <1>. QED BY <1>1, <1>2 DEF AInv, ReachOK, Reached, Ahead

LEMMA ReadAnnounce ==
  ASSUME AInv, NEW w \in Worker, NEW s \in Shard, ReadTrade(w, s)
  PROVE  AInv'
  <1>1. /\ batch[w][s].pos \in 1..batch[w][s].end /\ task[w][s] = "read"
        /\ UNCHANGED <<row, alloc, pub, drops>>
    BY AtSettlement DEF ReadTrade, AInv, SInv
  <1>2. SInv'
    BY ReadKeeps DEF AInv
  <1>3. CASE Done(w, s) /\ ~(row[TradeOf(w, s)] # "NONE" /\ AllSettled(TradeOf(w, s)))
    <2>1. \A z \in Shard : \A i \in 1..Len(log[z]) :
            /\ Reached(z, i)' => Reached(z, i)
            /\ Ahead(z, i) /\ ~(z = s /\ i = batch[w][s].pos) => Ahead(z, i)'
      BY <1>1, <1>3, PassRecord
    <2>2. log[s][batch[w][s].pos].trade = TradeOf(w, s)
      BY DEF TradeOf, Current
    <2>. QED BY <1>1, <1>2, <1>3, <2>1, <2>2, PassRecord, QuietKeeps
  <1>4. CASE Goto(w, s, "save") /\ StayAtRecord
    BY <1>1, <1>2, <1>4, StayAtReached, QuietKeeps
  <1>. QED BY <1>3, <1>4 DEF ReadTrade

LEMMA SaveAnnounce ==
  ASSUME AInv, NEW w \in Worker, NEW s \in Shard, SaveSettled(w, s)
  PROVE  AInv'
  <1>. DEFINE t == TradeOf(w, s)
  <1>0. SInv /\ TypeOK /\ SInv'
    BY SaveKeeps DEF AInv, SInv
  <1>1. t \in Trade /\ task[w][s] = "save"
    BY AtSettlement DEF SaveSettled, AInv, SInv
  <1>2. /\ row' = [row EXCEPT ![t] = "SETTLED"]
        /\ alloc' = [alloc EXCEPT ![t] = [a \in Alloc |-> "Settled"]]
        /\ Goto(w, s, "push") /\ StayAtRecord /\ UNCHANGED <<pub, drops>>
    BY DEF SaveSettled
  <1>3. \A a \in Alloc : alloc[t][a] = "Settled"
    BY <1>0, <1>1 DEF SInv, TaskOK, AllSettled
  <1>4. \A u \in Trade, a \in Alloc : alloc'[u][a] = alloc[u][a]
    BY <1>0, <1>1, <1>2, <1>3 DEF TypeOK
  <1>5. \A u \in Trade : row'[u] = IF u = t THEN "SETTLED" ELSE row[u]
    BY <1>0, <1>1, <1>2 DEF TypeOK
  <1>6. /\ ReachOK' /\ log' = log
        /\ \A z \in Shard : \A i : Reached(z, i)' => Reached(z, i)
        /\ \A z \in Shard : \A i : Ahead(z, i)' <=> Ahead(z, i)
    BY <1>1, <1>2, StayAtReached
  <1>7. row[t] # "NONE"
    BY <1>0, <1>1 DEF SInv, TaskOK
  <1>8. UpdatedOK'
    <2>1. ASSUME NEW q \in Settlement, Recorded(q) PROVE Recorded(q)'
      BY <1>4, <1>5, <1>7, <2>1 DEF Recorded, Settlement
    <2>. QED BY <1>0, <1>6, <2>1, UpdatedStep DEF AInv
  <1>9. PendingOK'
    <2>1. ASSUME NEW u \in Trade, drops' = 0, row'[u] # "NONE", AllSettled(u)'
          PROVE  Announced(u)' \/ (row[u] # "NONE" /\ AllSettled(u) /\ ~Announced(u))
      BY <1>2, <1>4, <1>5, <1>7, <2>1 DEF Announced, AllSettled
    <2>. QED BY <1>2, <1>6, <2>1, PendingStep DEF AInv
  <1>. QED BY <1>0, <1>6, <1>8, <1>9 DEF AInv

LEMMA PushAnnounce ==
  ASSUME AInv, NEW w \in Worker, NEW s \in Shard, PushSettled(w, s)
  PROVE  AInv'
  <1>. DEFINE t == TradeOf(w, s)
  <1>0. SInv /\ TypeOK /\ SInv'
    BY PushKeeps DEF AInv, SInv
  <1>1. /\ batch[w][s].pos \in 1..batch[w][s].end /\ t \in Trade /\ task[w][s] = "push"
        /\ Done(w, s) /\ UNCHANGED <<row, alloc>> /\ row[t] = "SETTLED"
    BY <1>0, AtSettlement DEF PushSettled, SInv, TaskOK
  <1>2. /\ ReachOK' /\ log' = log
        /\ \A z \in Shard : \A i \in 1..Len(log[z]) :
             /\ Reached(z, i)' => Reached(z, i)
             /\ Ahead(z, i) /\ ~(z = s /\ i = batch[w][s].pos) => Ahead(z, i)'
    BY <1>1, PassRecord
  <1>3. UpdatedOK'
    BY <1>0, <1>1, <1>2, UpdatedStep DEF AInv, Recorded
  <1>4. log[s][batch[w][s].pos].trade = t
    BY DEF TradeOf, Current
  <1>5. PendingOK'
    <2>1. CASE pub' = [pub EXCEPT ![t]["SETTLED"] = @ + 1] /\ drops' = drops
      <3>1. pub'[t]["SETTLED"] > 0 /\ \A u \in Trade : u # t => pub'[u] = pub[u]
        BY <1>0, <1>1, <2>1 DEF TypeOK, Status
      <3>2. ASSUME NEW u \in Trade, drops' = 0, row'[u] # "NONE", AllSettled(u)'
            PROVE  \/ Announced(u)'
                   \/ /\ row[u] # "NONE" /\ AllSettled(u) /\ ~Announced(u)
                      /\ \A z \in Shard : \A i \in 1..Len(log[z]) :
                           log[z][i].trade = u /\ Ahead(z, i) => Ahead(z, i)'
        <4>1. CASE u = t
          BY <1>1, <3>1, <4>1 DEF Announced
        <4>2. CASE u # t
          BY <1>1, <1>2, <1>4, <3>1, <3>2, <4>2 DEF Announced, AllSettled
        <4>. QED BY <4>1, <4>2
      <3>. QED BY <1>2, <2>1, <3>2, PendingStep DEF AInv
    <2>2. CASE drops' = drops + 1
      <3>1. drops' # 0
        BY <1>0, <2>2 DEF TypeOK
      <3>. QED BY <3>1 DEF PendingOK
    <2>. QED BY <2>1, <2>2 DEF PushSettled
  <1>. QED BY <1>0, <1>2, <1>3, <1>5 DEF AInv

(* Leases and crashes move nothing; a new batch starts after the checkpoint *)
(* and a checkpoint ends where its thread has been.                         *)
LEMMA ShardAnnounce ==
  ASSUME AInv, NEW w \in Worker, NEW s \in Shard,
         Take(w, s) \/ Steal(w, s) \/ Fetch(w, s) \/ Checkpoint(w, s) \/ Crash(w)
  PROVE  AInv'
  <1>0. SInv /\ TypeOK /\ SInv'
    BY ShardKeeps DEF AInv, SInv
  <1>1. UNCHANGED <<log, row, alloc, task, pub, drops>>
    BY DEF Take, Steal, Fetch, Checkpoint, Crash, Rest, TakeLease, StealLease, FetchBatch,
           CheckpointBatch, CrashWorker, Halt, shardVars
  <1>2. /\ \A z \in Shard : ckpt[z] \in Nat /\ Len(log[z]) \in Nat
        /\ \A x \in Worker, z \in Shard : batch[x][z].pos \in Nat /\ batch[x][z].end \in Nat
        /\ batch \in [Worker -> [Shard -> [pos : Nat, end : Nat]]]
        /\ ckpt \in [Shard -> Nat]
    BY <1>0, SettlingNumbers DEF TypeOK, ShardTypeOK
  <1>3. \A z \in Shard : \A i \in 1..Len(log[z]) : i \in Nat
    BY <1>2
  <1>4. CASE UNCHANGED <<ckpt, batch>>
    <2>1. ReachOK'
      BY <1>1, <1>4 DEF AInv, ReachOK
    <2>2. \A z \in Shard : \A i : (Reached(z, i)' <=> Reached(z, i)) /\ (Ahead(z, i)' <=> Ahead(z, i))
      BY <1>1, <1>4 DEF Reached, Ahead
    <2>. QED BY <1>0, <1>1, <2>1, <2>2, QuietKeeps
  <1>5. CASE Fetch(w, s)
    <2>1. PICK e \in (ckpt[s] + 1)..Len(log[s]) :
            batch' = [batch EXCEPT ![w][s] = [pos |-> ckpt[s] + 1, end |-> e]]
      BY <1>5 DEF Fetch, FetchBatch
    <2>2. ckpt' = ckpt /\ batch[w][s].pos = 0 /\ task[w][s] = "update"
      BY <1>0, <1>5, <1>2 DEF SInv, BatchOK, Fetch, FetchBatch, Idle
    <2>3. \A x \in Worker, z \in Shard :
            IF x = w /\ z = s THEN batch'[x][z].pos = ckpt[s] + 1 /\ batch'[x][z].end = e
            ELSE batch'[x][z] = batch[x][z]
      BY <1>2, <2>1
    <2>4. e \in Nat /\ ckpt[s] + 1 <= e
      BY <1>2
    <2>5. ReachOK'
      <3>1. \A z \in Shard : ckpt'[z] <= Len(log'[z])
        BY <1>1, <2>2 DEF AInv, ReachOK
      <3>2. ASSUME NEW x \in Worker, NEW z \in Shard
            PROVE  batch'[x][z].pos <= batch'[x][z].end + 1
        <4>1. CASE x = w /\ z = s
          <5>1. batch'[x][z].pos = ckpt[s] + 1 /\ batch'[x][z].end = e
            BY <2>3, <4>1
          <5>. QED BY <1>2, <2>4, <5>1
        <4>2. CASE ~(x = w /\ z = s)
          BY <2>3, <4>2 DEF AInv, ReachOK
        <4>. QED BY <4>1, <4>2
      <3>. QED BY <3>1, <3>2 DEF ReachOK
    <2>6. ASSUME NEW z \in Shard, NEW i \in 1..Len(log[z]), Reached(z, i)' PROVE Reached(z, i)
      <3>1. i \in Nat /\ ckpt[z] \in Nat
        BY <1>2
      <3>2. CASE i <= ckpt'[z]
        BY <2>2, <3>2 DEF Reached
      <3>3. ASSUME NEW x \in Worker,
                   i < batch'[x][z].pos \/ (i = batch'[x][z].pos /\ task'[x][z] # "update")
            PROVE  Reached(z, i)
        <4>1. CASE x = w /\ z = s
          <5>1. batch'[x][z].pos = ckpt[z] + 1 /\ task'[x][z] = "update"
            BY <1>1, <2>2, <2>3, <4>1
          <5>2. i <= ckpt[z]
            BY <3>1, <3>3, <5>1
          <5>. QED BY <5>2 DEF Reached
        <4>2. CASE ~(x = w /\ z = s)
          BY <1>1, <2>3, <3>3, <4>2 DEF Reached
        <4>. QED BY <4>1, <4>2
      <3>. QED BY <2>6, <3>2, <3>3 DEF Reached
    <2>7. ASSUME NEW z \in Shard, NEW i \in 1..Len(log[z]), Ahead(z, i) PROVE Ahead(z, i)'
      <3>1. i \in Nat /\ ckpt[z] \in Nat /\ ckpt[z] + 1 <= i
        BY <1>2, <2>7 DEF Ahead
      <3>2. ASSUME NEW x \in Worker PROVE batch'[x][z].pos <= i
        BY <2>3, <2>7, <3>1 DEF Ahead
      <3>. QED BY <2>2, <2>7, <3>2 DEF Ahead
    <2>. QED BY <1>0, <1>1, <2>5, <2>6, <2>7, QuietKeeps
  <1>6. CASE Checkpoint(w, s) /\ owner[s] = w
    <2>1. /\ batch' = [batch EXCEPT ![w][s] = NoBatch]
          /\ ckpt' = [ckpt EXCEPT ![s] = batch[w][s].end]
          /\ batch[w][s].pos > batch[w][s].end
      BY <1>6 DEF Checkpoint, CheckpointBatch, Finished
    <2>2. /\ \A z \in Shard : ckpt'[z] = IF z = s THEN batch[w][s].end ELSE ckpt[z]
          /\ \A x \in Worker, z \in Shard :
               IF x = w /\ z = s THEN batch'[x][z].pos = 0 /\ batch'[x][z].end = 0
               ELSE batch'[x][z] = batch[x][z]
      BY <1>2, <2>1 DEF NoBatch
    <2>3. ReachOK'
      <3>1. batch[w][s].end <= Len(log[s])
        BY <1>0 DEF SInv, BatchOK
      <3>2. \A z \in Shard : ckpt'[z] <= Len(log'[z])
        BY <1>1, <2>2, <3>1 DEF AInv, ReachOK
      <3>3. \A x \in Worker, z \in Shard : batch'[x][z].pos <= batch'[x][z].end + 1
        BY <2>2 DEF AInv, ReachOK
      <3>. QED BY <3>2, <3>3 DEF ReachOK
    <2>4. ASSUME NEW z \in Shard, NEW i \in 1..Len(log[z]), Reached(z, i)' PROVE Reached(z, i)
      BY <1>1, <1>2, <1>3, <2>1, <2>2, <2>4 DEF Reached
    <2>5. ASSUME NEW z \in Shard, NEW i \in 1..Len(log[z]), Ahead(z, i) PROVE Ahead(z, i)'
      BY <1>2, <1>3, <2>1, <2>2, <2>5 DEF Ahead
    <2>. QED BY <1>0, <1>1, <2>3, <2>4, <2>5, QuietKeeps
  <1>. QED BY <1>4, <1>5, <1>6 DEF Take, Steal, Checkpoint, Crash, TakeLease, StealLease,
              CheckpointBatch, CrashWorker, Halt, shardVars

LEMMA RestartAnnounce ==
  ASSUME AInv, NEW w \in Worker, Restart(w)
  PROVE  AInv'
  <1>1. /\ UNCHANGED <<log, ckpt, row, alloc, pub, drops>>
        /\ batch' = [batch EXCEPT ![w] = [s \in Shard |-> NoBatch]]
        /\ task' = [task EXCEPT ![w] = [s \in Shard |-> "update"]]
    BY DEF Restart, RestartWorker
  <1>2. /\ \A z \in Shard : ckpt[z] \in Nat /\ Len(log[z]) \in Nat
        /\ \A x \in Worker, z \in Shard : batch[x][z].pos \in Nat /\ batch[x][z].end \in Nat
    BY SettlingNumbers DEF AInv, SInv
  <1>3. \A x \in Worker, z \in Shard :
          IF x = w THEN task'[x][z] = "update" /\ batch'[x][z].pos = 0 /\ batch'[x][z].end = 0
          ELSE task'[x][z] = task[x][z] /\ batch'[x][z] = batch[x][z]
    BY <1>1 DEF AInv, SInv, TypeOK, ShardTypeOK, NoBatch
  <1>4. ReachOK'
    BY <1>1, <1>2, <1>3 DEF AInv, ReachOK
  <1>5. \A z \in Shard : \A i \in 1..Len(log[z]) : i \in Nat /\ i >= 1
    BY <1>2
  <1>6. \A z \in Shard : \A i \in 1..Len(log[z]) : Reached(z, i)' => Reached(z, i)
    BY <1>1, <1>3, <1>5 DEF Reached
  <1>7. \A z \in Shard : \A i \in 1..Len(log[z]) : Ahead(z, i) => Ahead(z, i)'
    BY <1>1, <1>3, <1>5 DEF Ahead
  <1>. QED BY <1>1, <1>4, <1>6, <1>7, RestartKeeps, QuietKeeps DEF AInv

LEMMA AnnounceNext == AInv /\ [Next]_vars => AInv'
  <1>. SUFFICES ASSUME AInv, [Next]_vars PROVE AInv'
    OBVIOUS
  <1>1. ASSUME NEW t \in Trade, NEW a \in Alloc, NEW s \in Shard, ReceiveSettlement(t, a, s)
        PROVE  AInv'
    BY <1>1, ReceiveAnnounce
  <1>2. ASSUME NEW w \in Worker, NEW s \in Shard, WorkerStep(w, s)
        PROVE  AInv'
    BY <1>2, ShardAnnounce, UpdateAnnounce, ReadAnnounce, SaveAnnounce, PushAnnounce
       DEF WorkerStep, ProcessRecord
  <1>3. CASE (\E w \in Worker : Crash(w)) \/ UNCHANGED vars
    <2>1. UNCHANGED <<log, ckpt, batch, row, alloc, task, pub, drops>> /\ SInv'
      BY <1>3, SettlingNext DEF Crash, CrashWorker, Rest, vars, shardVars, AInv
    <2>2. ReachOK'
      BY <2>1 DEF AInv, ReachOK
    <2>3. \A z \in Shard : \A i : (Reached(z, i)' <=> Reached(z, i)) /\ (Ahead(z, i)' <=> Ahead(z, i))
      BY <2>1 DEF Reached, Ahead
    <2>. QED BY <2>1, <2>2, <2>3, QuietKeeps
  <1>4. ASSUME NEW w \in Worker, Restart(w)
        PROVE  AInv'
    BY <1>4, RestartAnnounce
  <1>. QED BY <1>1, <1>2, <1>3, <1>4 DEF Next

(* No settled trade is forgotten: when every record on the settlement       *)
(* stream is checkpointed and no record of the push was refused, each       *)
(* stored trade whose settlements all came back settled is SETTLED and was  *)
(* announced, whatever crashed, was delivered again or lost its lease.      *)
THEOREM SettlingAnnounced == Spec => []SettledIsAnnounced
  <1>1. AInv => SettledIsAnnounced
    <2>. SUFFICES ASSUME AInv, Drained, drops = 0, NEW t \in Trade, row[t] # "NONE", Returned(t)
                  PROVE  Announced(t)
      BY DEF SettledIsAnnounced, Announced
    <2>1. AllSettled(t)
      <3>. SUFFICES ASSUME NEW a \in Alloc PROVE alloc[t][a] = "Settled"
        BY DEF AllSettled
      <3>1. OnStream(Answer(t, a, "Settled"))
        BY CopiesCount DEF AInv, SInv, TypeOK, ShardTypeOK, Returned
      <3>2. PICK s \in Shard : \E i \in 1..Len(log[s]) : log[s][i] = Answer(t, a, "Settled")
        BY <3>1 DEF OnStream
      <3>3. PICK i \in 1..Len(log[s]) : log[s][i] = Answer(t, a, "Settled")
        BY <3>2
      <3>4. Reached(s, i)
        BY SettlingNumbers DEF AInv, SInv, Drained, Reached
      <3>5. Recorded(Answer(t, a, "Settled"))
        BY <3>3, <3>4 DEF AInv, UpdatedOK
      <3>. QED BY <3>5 DEF Recorded, Answer
    <2>2. \A s \in Shard : \A i \in 1..Len(log[s]) : ~Ahead(s, i)
      BY SettlingNumbers DEF AInv, SInv, Drained, Ahead
    <2>. QED BY <2>1, <2>2 DEF AInv, PendingOK
  <1>. QED BY <1>1, AnnounceInit, AnnounceNext, PTL DEF Spec

----------------------------------------------------------------------------
(* Both sides together: the service of TradeCore, of which TradeSettling is *)
(* the settlement side.                                                     *)

(* The trade side alone would have a settled trade as matched, and would    *)
(* have announced no settled one: seen so, every step of the service is one *)
(* of TradeMatching or leaves what its invariant speaks of as it is.        *)
rowBar == [t \in Trade |-> IF row[t] = "SETTLED" THEN "MATCHED" ELSE row[t]]
pubBar == [t \in Trade |-> [pub[t] EXCEPT !["SETTLED"] = 0]]

Bar == INSTANCE TradeMatching_proofs
  WITH Shard <- TradeShard, MaxSteal <- MaxTradeSteal, log <- tlog, ckpt <- tckpt,
       owner <- towner, batch <- tbatch, steals <- tsteals, row <- rowBar, pub <- pubBar

(* A settlement comes back for a trade that was published as matched, and   *)
(* only such a trade is settled.                                            *)
ReturnOK ==
  /\ \A s \in Shard : \A i \in 1..Len(log[s]) : pub[log[s][i].trade]["MATCHED"] > 0
  /\ \A t \in Trade : row[t] = "SETTLED" => pub[t]["MATCHED"] > 0

CoreInv == Bar!IInv /\ TypeOK /\ BatchOK /\ ReturnOK

(* The assumptions of TradeMatching hold of the trade side's constants. *)
LEMMA BarInvariant ==
  /\ Bar!Init => Bar!IInv
  /\ Bar!IInv /\ [Bar!Next]_(Bar!vars) => Bar!IInv'
  /\ Bar!Init => Bar!Alone
  /\ Bar!AtMostOnce /\ Bar!IInv /\ Bar!Alone /\ [Bar!Next]_(Bar!vars) => Bar!Alone'
  /\ Bar!Alone /\ UNCHANGED tradeSide /\ rowBar' = rowBar
       /\ (\A x \in Worker : up'[x] => up[x]) => Bar!Alone'
  /\ \A w \in Worker, s \in TradeShard :
       Bar!IInv /\ Bar!Alone /\ Bar!At(w, s, "mark") =>
         job[w][s].found \in Trade /\ pubBar[job[w][s].found]["MATCHED"] = 0
  <1>1. \A t, u : Bar!SameBlock(t, u) <=> Matching!SameBlock(t, u)
    BY DEF Bar!SameBlock, Matching!SameBlock
  <1>2. Bar!IsFiniteSet(TradeShard)
    BY CoreAssumption DEF IsFiniteSet, Bar!IsFiniteSet
  <1>3. NoTrade \notin Trade /\ MaxCopies \in [Trade -> Nat] /\ MaxBlocks \in Nat /\ MaxDrop \in Nat
    BY CoreAssumption, WorkerAssumption, BoundAssumption, SettlingAssumption
  <1>4. NoWorker \notin Worker /\ MaxCrash \in Nat /\ MaxTradeSteal \in Nat
    BY CoreAssumption, WorkerAssumption, BoundAssumption, SettlingAssumption
  <1>5. \A t, u, v \in Trade : Bar!SameBlock(t, u) /\ Bar!SameBlock(t, v) => u = v
    BY <1>1, CoreAssumption
  <1>6. Bar!Init => Bar!IInv
    BY <1>2, <1>3, <1>4, <1>5, Bar!InvInit
  <1>7. Bar!IInv /\ [Bar!Next]_(Bar!vars) => Bar!IInv'
    BY <1>2, <1>3, <1>4, <1>5, Bar!InvNext
  <1>8. Bar!Init => Bar!Alone
    BY <1>2, <1>3, <1>4, <1>5, Bar!AloneInit
  <1>9. Bar!AtMostOnce /\ Bar!IInv /\ Bar!Alone /\ [Bar!Next]_(Bar!vars) => Bar!Alone'
    BY <1>2, <1>3, <1>4, <1>5, Bar!AloneNext
  <1>10. ASSUME Bar!IInv, Bar!Alone, NEW w \in Worker, NEW s \in TradeShard,
                Bar!At(w, s, "mark")
         PROVE  job[w][s].found \in Trade /\ pubBar[job[w][s].found]["MATCHED"] = 0
    BY <1>2, <1>3, <1>4, <1>5, <1>10, Bar!MarkedIsUnsent DEF Bar!Verdict
  <1>11. ASSUME Bar!Alone, UNCHANGED tradeSide, rowBar' = rowBar,
                \A x \in Worker : up'[x] => up[x]
         PROVE  Bar!Alone'
    <2>1. tlog' = tlog /\ towner' = towner /\ tbatch' = tbatch /\ job' = job
      BY <1>11 DEF tradeSide
    <2>. QED BY <1>2, <1>3, <1>4, <1>5, <1>11, <2>1, Bar!AloneOutside
  <1>. QED BY <1>6, <1>7, <1>8, <1>9, <1>10, <1>11

(* The trade side's threads are those of the module it is seen as. *)
LEMMA SameThread ==
  ASSUME NEW w, NEW s
  PROVE  /\ \A pc : Matching!At(w, s, pc) <=> Bar!At(w, s, pc)
         /\ Matching!Current(w, s) = Bar!Current(w, s)
         /\ \A next : Matching!Goto(w, s, next) <=> Bar!Goto(w, s, next)
         /\ Matching!Done(w, s) <=> Bar!Done(w, s)
         /\ Matching!StayAtRecord <=> Bar!StayAtRecord
         /\ Matching!Halt(w) <=> Bar!Halt(w)
         /\ Matching!NewJob = Bar!NewJob
  <1>1. \A pc : Matching!At(w, s, pc) <=> Bar!At(w, s, pc)
    BY DEF Matching!At, Bar!At, Matching!Working, Bar!Working,
           Matching!Idle, Bar!Idle
  <1>2. Matching!Current(w, s) = Bar!Current(w, s)
    BY DEF Matching!Current, Bar!Current
  <1>3. \A next : Matching!Goto(w, s, next) <=> Bar!Goto(w, s, next)
    BY DEF Matching!Goto, Bar!Goto
  <1>4. Matching!NewJob = Bar!NewJob
    BY DEF Matching!NewJob, Bar!NewJob
  <1>5. Matching!NextRecord(w, s) <=> Bar!NextRecord(w, s)
    BY DEF Matching!NextRecord, Bar!NextRecord, Matching!workerVars, Bar!workerVars
  <1>6. Matching!Done(w, s) <=> Bar!Done(w, s)
    BY <1>3, <1>4, <1>5 DEF Matching!Done, Bar!Done
  <1>7. Matching!StayAtRecord <=> Bar!StayAtRecord
    BY DEF Matching!StayAtRecord, Bar!StayAtRecord, Matching!shardVars, Bar!shardVars,
           Matching!workerVars, Bar!workerVars
  <1>8. Matching!Halt(w) <=> Bar!Halt(w)
    BY DEF Matching!Halt, Bar!Halt, Matching!shardVars, Bar!shardVars
  <1>. QED BY <1>1, <1>2, <1>3, <1>4, <1>6, <1>7, <1>8

LEMMA RowSeen ==
  ASSUME TypeOK, NEW t \in Trade
  PROVE  /\ rowBar[t] = "NONE" <=> row[t] = "NONE"
         /\ rowBar[t] = "UNMATCHED" <=> row[t] = "UNMATCHED"
         /\ rowBar[t] = "MATCHED" <=> row[t] \in {"MATCHED", "SETTLED"}
         /\ row[t] # "SETTLED" => rowBar[t] = row[t]
         /\ pubBar[t] = [pub[t] EXCEPT !["SETTLED"] = 0]
         /\ \A v \in Status \ {"SETTLED"} : pubBar[t][v] = pub[t][v]
  BY DEF rowBar, pubBar, TypeOK, Status

----------------------------------------------------------------------------
(* The steps of the trade side, one lemma per statement: each is the step   *)
(* of TradeMatching of the same name.                                       *)

(* What a step of the trade side has to show besides. *)
TradeKeeps ==
  /\ row' \in [Trade -> Status] /\ \A t \in Trade : row'[t] = "SETTLED" => row[t] = "SETTLED"
  /\ pub' \in [Trade -> [Status -> Nat]]
  /\ \A t \in Trade : pub[t]["MATCHED"] > 0 => pub'[t]["MATCHED"] > 0

LEMMA TradeQuiet ==
  ASSUME TypeOK, UNCHANGED <<row, pub>>
  PROVE  TradeKeeps /\ rowBar' = rowBar /\ pubBar' = pubBar
  BY DEF TypeOK, TradeKeeps, rowBar, pubBar

(* The thread of the trade side is in the loop, at a trade. *)
LEMMA TradeAt ==
  ASSUME Bar!IInv, NEW w \in Worker, NEW s \in TradeShard, NEW pc, Bar!At(w, s, pc)
  PROVE  /\ Bar!InLoop(w, s) /\ job[w][s].pc = pc
         /\ Bar!Current(w, s) \in Trade
         /\ job[w][s] \in Bar!Job
  <1>1. Bar!TypeOK /\ Bar!BatchOK
    BY DEF Bar!IInv
  <1>2. tbatch[w][s].pos \in Nat /\ tbatch[w][s].end \in Nat /\ job[w][s] \in Bar!Job
    BY <1>1 DEF Bar!TypeOK, Bar!ShardTypeOK
  <1>3. Bar!InLoop(w, s) /\ job[w][s].pc = pc
    BY <1>2 DEF Bar!At, Bar!Working, Bar!Idle, Bar!InLoop
  <1>4. tlog[s] \in Seq(Trade) /\ Len(tlog[s]) \in Nat
    BY <1>1 DEF Bar!TypeOK, Bar!ShardTypeOK
  <1>5. tbatch[w][s].pos \in 1..Len(tlog[s])
    BY <1>1, <1>2, <1>3, <1>4 DEF Bar!BatchOK, Bar!InLoop
  <1>. QED BY <1>2, <1>3, <1>4, <1>5 DEF Bar!Current

LEMMA TradeReceived ==
  ASSUME CoreInv, NEW t \in Trade, NEW s \in TradeShard, Matching!ReceiveTrade(t, s)
  PROVE  Bar!ReceiveTrade(t, s) /\ TradeKeeps
  <1>1. UNCHANGED <<row, pub, job, drops>>
    BY DEF Matching!ReceiveTrade, Matching!jobVars
  <1>2. TradeKeeps /\ rowBar' = rowBar /\ pubBar' = pubBar
    BY <1>1, TradeQuiet DEF CoreInv
  <1>3. \A u : Matching!Copies(u) = Bar!Copies(u)
    BY DEF Matching!Copies, Bar!Copies, Matching!Cardinality, Bar!Cardinality
  <1>4. Matching!Put(s, t) <=> Bar!Put(s, t)
    BY DEF Matching!Put, Bar!Put, Matching!workerVars, Bar!workerVars
  <1>5. /\ Bar!Copies(t) < MaxCopies[t]
        /\ Bar!Cardinality({Block[u] : u \in {v \in Trade : v = t \/ Bar!Copies(v) > 0}})
             <= MaxBlocks
    BY <1>3 DEF Matching!ReceiveTrade, Matching!Cardinality, Bar!Cardinality
  <1>6. Bar!Put(s, t)
    BY <1>4 DEF Matching!ReceiveTrade
  <1>. QED BY <1>1, <1>2, <1>5, <1>6 DEF Bar!ReceiveTrade, Bar!jobVars

(* Leases, batches and checkpoints. *)
LEMMA TradeStream ==
  ASSUME CoreInv, NEW w \in Worker, NEW s \in TradeShard,
         \/ Matching!Take(w, s) \/ Matching!Steal(w, s)
         \/ Matching!Fetch(w, s) \/ Matching!Checkpoint(w, s)
  PROVE  Bar!WorkerStep(w, s) /\ TradeKeeps
  <1>1. UNCHANGED <<row, pub, job, drops>>
    BY DEF Matching!Take, Matching!Steal, Matching!Fetch,
           Matching!Checkpoint, Matching!jobVars
  <1>2. TradeKeeps /\ rowBar' = rowBar /\ pubBar' = pubBar
    BY <1>1, TradeQuiet DEF CoreInv
  <1>3. CASE Matching!Take(w, s)
    <2>1. Bar!TakeLease(w, s)
      BY <1>3 DEF Matching!Take, Matching!TakeLease, Bar!TakeLease,
         Matching!Idle, Bar!Idle, Matching!workerVars, Bar!workerVars
    <2>. QED BY <1>1, <1>2, <2>1 DEF Bar!Take, Bar!jobVars, Bar!WorkerStep
  <1>4. CASE Matching!Steal(w, s)
    <2>1. Bar!StealLease(w, s)
      BY <1>4 DEF Matching!Steal, Matching!StealLease, Bar!StealLease,
         Matching!Idle, Bar!Idle, Matching!workerVars, Bar!workerVars
    <2>. QED BY <1>1, <1>2, <2>1 DEF Bar!Steal, Bar!jobVars, Bar!WorkerStep
  <1>5. CASE Matching!Fetch(w, s)
    <2>1. Bar!FetchBatch(w, s)
      BY <1>5 DEF Matching!Fetch, Matching!FetchBatch, Bar!FetchBatch,
         Matching!Idle, Bar!Idle, Matching!workerVars, Bar!workerVars
    <2>. QED BY <1>1, <1>2, <2>1 DEF Bar!Fetch, Bar!jobVars, Bar!WorkerStep
  <1>6. CASE Matching!Checkpoint(w, s)
    <2>1. Bar!CheckpointBatch(w, s)
      BY <1>6, SameThread DEF Matching!Checkpoint, Matching!CheckpointBatch,
         Bar!CheckpointBatch, Matching!Finished, Bar!Finished, Matching!NoBatch,
         Bar!NoBatch, Matching!workerVars, Bar!workerVars
    <2>. QED BY <1>1, <1>2, <2>1 DEF Bar!Checkpoint, Bar!jobVars, Bar!WorkerStep
  <1>. QED BY <1>3, <1>4, <1>5, <1>6

(* The queries: what they look for reads the same in a settled row. *)
LEMMA TradeQuery ==
  ASSUME CoreInv, NEW w \in Worker, NEW s \in TradeShard,
         \/ Matching!CheckExisting(w, s)
         \/ Matching!SelectMatch(w, s)
         \/ Matching!SelectMismatch(w, s)
  PROVE  Bar!WorkerStep(w, s) /\ TradeKeeps
  <1>1. UNCHANGED <<row, pub, drops>>
    BY DEF Matching!CheckExisting, Matching!SelectMatch, Matching!SelectMismatch
  <1>2. TradeKeeps /\ rowBar' = rowBar /\ pubBar' = pubBar
    BY <1>1, TradeQuiet DEF CoreInv
  <1>3. CASE Matching!CheckExisting(w, s)
    <2>1. Bar!At(w, s, "check")
      BY <1>3, SameThread DEF Matching!CheckExisting
    <2>2. rowBar[Bar!Current(w, s)] = "NONE" <=> row[Bar!Current(w, s)] = "NONE"
      BY <2>1, TradeAt, RowSeen DEF CoreInv
    <2>3. Bar!CheckExisting(w, s)
      BY <1>1, <1>2, <1>3, <2>1, <2>2, SameThread
         DEF Matching!CheckExisting, Bar!CheckExisting
    <2>. QED BY <1>2, <2>3 DEF Bar!WorkerStep, Bar!ProcessRecord
  <1>4. \A u \in Trade : Matching!Unmatched(u) <=> Bar!Unmatched(u)
    BY RowSeen DEF CoreInv, Matching!Unmatched, Bar!Unmatched
  <1>5. CASE Matching!SelectMatch(w, s)
    <2>1. \A u : Matching!Agrees(Matching!Current(w, s), u) <=>
                 Bar!Agrees(Bar!Current(w, s), u)
      BY SameThread DEF Matching!Agrees, Bar!Agrees, Matching!SameBlock, Bar!SameBlock
    <2>2. {u \in Trade : Matching!Agrees(Matching!Current(w, s), u) /\ Matching!Unmatched(u)}
          = {u \in Trade : Bar!Agrees(Bar!Current(w, s), u) /\ Bar!Unmatched(u)}
      BY <1>4, <2>1
    <2>3. Bar!SelectMatch(w, s)
      BY <1>1, <1>2, <1>5, <2>2, SameThread DEF Matching!SelectMatch, Bar!SelectMatch
    <2>. QED BY <1>2, <2>3 DEF Bar!WorkerStep, Bar!ProcessRecord
  <1>6. CASE Matching!SelectMismatch(w, s)
    <2>1. \A u : Matching!Disagrees(Matching!Current(w, s), u) <=>
                 Bar!Disagrees(Bar!Current(w, s), u)
      BY SameThread
         DEF Matching!Disagrees, Bar!Disagrees, Matching!SameBlock, Bar!SameBlock
    <2>2. {u \in Trade : Matching!Disagrees(Matching!Current(w, s), u) /\ Matching!Unmatched(u)}
          = {u \in Trade : Bar!Disagrees(Bar!Current(w, s), u) /\ Bar!Unmatched(u)}
      BY <1>4, <2>1
    <2>3. Bar!SelectMismatch(w, s)
      BY <1>1, <1>2, <1>6, <2>2, SameThread DEF Matching!SelectMismatch, Bar!SelectMismatch
    <2>. QED BY <1>2, <2>3 DEF Bar!WorkerStep, Bar!ProcessRecord
  <1>. QED BY <1>3, <1>5, <1>6

(* UPDATE_MATCHED_TRADE: a settled counterpart goes back to the verdict, as *)
(* which TradeMatching saw it all along.                                    *)
LEMMA TradeMark ==
  ASSUME CoreInv, NEW w \in Worker, NEW s \in TradeShard, Matching!MarkCounterpart(w, s)
  PROVE  Bar!WorkerStep(w, s) /\ TradeKeeps
  <1>. DEFINE j == job[w][s]
  <1>1. /\ Bar!At(w, s, "mark") /\ UNCHANGED <<pub, drops>> /\ Bar!StayAtRecord
        /\ row' = [row EXCEPT ![j.found] = j.verdict]
        /\ Bar!Goto(w, s, [j EXCEPT !.pc = "persist"])
    BY SameThread DEF Matching!MarkCounterpart
  <1>2. Bar!InLoop(w, s) /\ j.pc = "mark" /\ j \in Bar!Job
    BY <1>1, TradeAt DEF CoreInv
  <1>3. j.found \in Trade /\ j.verdict \in Status \ {"SETTLED"}
    <2>1. Bar!KnowsFound(w, s)
      BY <1>2 DEF CoreInv, Bar!IInv, Bar!FoundOK
    <2>2. j.found # NoTrade
      BY <1>2, <2>1 DEF Bar!KnowsFound
    <2>. QED BY <1>2, <2>2 DEF Bar!Job, Bar!Verdict, Status
  <1>4. row \in [Trade -> Status] /\ pub \in [Trade -> [Status -> Nat]]
    BY DEF CoreInv, TypeOK
  <1>5. TradeKeeps
    BY <1>1, <1>3, <1>4 DEF TradeKeeps
  <1>6. rowBar' = [rowBar EXCEPT ![j.found] = j.verdict] /\ pubBar' = pubBar
    BY <1>1, <1>3, <1>4 DEF rowBar, pubBar
  <1>. QED BY <1>1, <1>5, <1>6 DEF Bar!MarkCounterpart, Bar!WorkerStep, Bar!ProcessRecord

(* persistSingleTrade: the trade has no row, so it was not settled. *)
LEMMA TradePersist ==
  ASSUME CoreInv, NEW w \in Worker, NEW s \in TradeShard, Matching!PersistTrade(w, s)
  PROVE  Bar!WorkerStep(w, s) /\ TradeKeeps
  <1>. DEFINE j == job[w][s]
              t == Bar!Current(w, s)
  <1>1. Bar!At(w, s, "persist") /\ UNCHANGED <<pub, drops>>
    BY SameThread DEF Matching!PersistTrade
  <1>2. t \in Trade /\ j \in Bar!Job
    BY <1>1, TradeAt DEF CoreInv
  <1>3. row \in [Trade -> Status] /\ pub \in [Trade -> [Status -> Nat]]
    BY DEF CoreInv, TypeOK
  <1>4. rowBar[t] = "NONE" <=> row[t] = "NONE"
    BY <1>2, RowSeen DEF CoreInv
  <1>5. CASE row[t] # "NONE"
    <2>1. Bar!Halt(w) /\ UNCHANGED <<row, job>>
      BY <1>5, SameThread DEF Matching!PersistTrade
    <2>2. TradeKeeps /\ rowBar' = rowBar /\ pubBar' = pubBar
      BY <1>1, <2>1, TradeQuiet DEF CoreInv
    <2>3. Bar!PersistTrade(w, s)
      BY <1>1, <1>4, <1>5, <2>1, <2>2 DEF Bar!PersistTrade
    <2>. QED BY <2>2, <2>3 DEF Bar!WorkerStep, Bar!ProcessRecord
  <1>6. CASE row[t] = "NONE"
    <2>1. /\ row' = [row EXCEPT ![t] = j.verdict]
          /\ IF j.found = NoTrade THEN Bar!Done(w, s)
             ELSE Bar!Goto(w, s, [j EXCEPT !.pc = "push"]) /\ Bar!StayAtRecord
      BY <1>6, SameThread DEF Matching!PersistTrade
    <2>2. j.verdict \in Status \ {"SETTLED"}
      BY <1>2 DEF Bar!Job, Bar!Verdict, Status
    <2>3. TradeKeeps
      BY <1>1, <1>2, <1>3, <2>1, <2>2 DEF TradeKeeps
    <2>4. rowBar' = [rowBar EXCEPT ![t] = j.verdict] /\ pubBar' = pubBar
      BY <1>1, <1>2, <1>3, <2>1, <2>2 DEF rowBar, pubBar
    <2>5. Bar!PersistTrade(w, s)
      BY <1>1, <1>4, <1>6, <2>1, <2>4 DEF Bar!PersistTrade
    <2>. QED BY <2>3, <2>5 DEF Bar!WorkerStep, Bar!ProcessRecord
  <1>. QED BY <1>5, <1>6

(* getTradeByID and the push: neither trade was published before, so the    *)
(* counterpart is read with the verdict, not as settled.                    *)
LEMMA TradePush ==
  ASSUME CoreInv, NEW w \in Worker, NEW s \in TradeShard, Matching!PushPair(w, s)
  PROVE  Bar!WorkerStep(w, s) /\ TradeKeeps
  <1>. DEFINE j == job[w][s]
              t == Bar!Current(w, s)
              u == j.found
  <1>1. Bar!At(w, s, "push") /\ Bar!Done(w, s) /\ row' = row
    BY SameThread DEF Matching!PushPair
  <1>2. PICK lost \in SUBSET {t, u} :
          /\ drops' = drops + Matching!Cardinality(lost)
          /\ drops' <= MaxDrop
          /\ pub' = [x \in Trade |->
                       IF x = t /\ x \notin lost THEN Matching!Bump(pub[x], j.verdict)
                       ELSE IF x = u /\ x \notin lost THEN Matching!Bump(pub[x], row[x])
                       ELSE pub[x]]
    BY SameThread DEF Matching!PushPair
  <1>3. t \in Trade /\ Bar!InLoop(w, s) /\ j.pc = "push" /\ j \in Bar!Job
    BY <1>1, TradeAt DEF CoreInv
  <1>4. j.verdict \in Status \ {"SETTLED"}
    BY <1>3 DEF Bar!Job, Bar!Verdict, Status
  <1>5. u \in Trade
    <2>1. Bar!KnowsFound(w, s)
      BY <1>3 DEF CoreInv, Bar!IInv, Bar!FoundOK
    <2>2. u # NoTrade
      BY <1>3, <2>1 DEF Bar!KnowsFound
    <2>. QED BY <1>3, <2>2 DEF Bar!Job
  <1>6. row \in [Trade -> Status] /\ pub \in [Trade -> [Status -> Nat]]
    BY DEF CoreInv, TypeOK
  <1>7. row[u] # "SETTLED"
    <2>1. \A v \in Bar!Verdict : pubBar[u][v] = 0
      BY <1>3 DEF CoreInv, Bar!IInv, Bar!PushOK, Bar!Pushing
    <2>2. pub[u]["MATCHED"] = 0
      BY <1>5, <2>1, RowSeen DEF CoreInv, Bar!Verdict, Status
    <2>. QED BY <1>5, <2>2 DEF CoreInv, ReturnOK
  <1>8. \A x \in Trade, v \in Status \ {"SETTLED"} :
          /\ Matching!Bump(pub[x], v) \in [Status -> Nat]
          /\ Matching!Bump(pub[x], v)["MATCHED"] >= pub[x]["MATCHED"]
          /\ [Matching!Bump(pub[x], v) EXCEPT !["SETTLED"] = 0] = Bar!Bump(pubBar[x], v)
    <2>. SUFFICES ASSUME NEW x \in Trade, NEW v \in Status \ {"SETTLED"}
                  PROVE  /\ Matching!Bump(pub[x], v) \in [Status -> Nat]
                         /\ Matching!Bump(pub[x], v)["MATCHED"] >= pub[x]["MATCHED"]
                         /\ [Matching!Bump(pub[x], v) EXCEPT !["SETTLED"] = 0]
                              = Bar!Bump(pubBar[x], v)
      OBVIOUS
    <2>1. Matching!Bump(pub[x], v) = [pub[x] EXCEPT ![v] = @ + 1]
      BY DEF Matching!Bump
    <2>2. Bar!Bump(pubBar[x], v) = [[pub[x] EXCEPT !["SETTLED"] = 0] EXCEPT ![v] = @ + 1]
      BY RowSeen DEF CoreInv, Bar!Bump
    <2>3. pub[x] \in [Status -> Nat] /\ "MATCHED" \in Status
      BY <1>6 DEF Status
    <2>4. [pub[x] EXCEPT ![v] = @ + 1] \in [Status -> Nat]
      BY <2>3
    <2>5. [pub[x] EXCEPT ![v] = @ + 1]["MATCHED"] >= pub[x]["MATCHED"]
      BY <2>3
    <2>6. [[pub[x] EXCEPT ![v] = @ + 1] EXCEPT !["SETTLED"] = 0]
            = [[pub[x] EXCEPT !["SETTLED"] = 0] EXCEPT ![v] = @ + 1]
      BY <2>3
    <2>. QED BY <2>1, <2>2, <2>4, <2>5, <2>6
  <1>9. \A x \in Trade :
          \/ pub'[x] = pub[x]
          \/ \E v \in Status \ {"SETTLED"} : pub'[x] = Matching!Bump(pub[x], v)
    BY <1>2, <1>4, <1>5, <1>6, <1>7
  <1>10. TradeKeeps
    <2>1. pub' \in [Trade -> [Status -> Nat]]
      BY <1>2, <1>6, <1>8, <1>9
    <2>2. \A x \in Trade : pub[x]["MATCHED"] > 0 => pub'[x]["MATCHED"] > 0
      <3>1. \A x \in Trade : pub[x]["MATCHED"] \in Nat /\ pub'[x]["MATCHED"] \in Nat
        BY <1>6, <2>1 DEF Status
      <3>2. ASSUME NEW x \in Trade PROVE pub'[x]["MATCHED"] >= pub[x]["MATCHED"]
        <4>1. CASE pub'[x] = pub[x]
          BY <3>1, <4>1
        <4>2. CASE pub'[x] # pub[x]
          <5>1. PICK v \in Status \ {"SETTLED"} : pub'[x] = Matching!Bump(pub[x], v)
            BY <1>9, <4>2
          <5>2. Matching!Bump(pub[x], v)["MATCHED"] >= pub[x]["MATCHED"]
            BY <1>8
          <5>. QED BY <5>1, <5>2
        <4>. QED BY <4>1, <4>2
      <3>. QED BY <3>1, <3>2
    <2>. QED BY <1>1, <1>6, <2>1, <2>2 DEF TradeKeeps
  <1>11. rowBar' = rowBar /\ rowBar[u] = row[u]
    BY <1>1, <1>5, <1>7 DEF rowBar
  <1>12. pubBar' = [x \in Trade |->
                      IF x = t /\ x \notin lost THEN Bar!Bump(pubBar[x], j.verdict)
                      ELSE IF x = u /\ x \notin lost THEN Bar!Bump(pubBar[x], rowBar[x])
                      ELSE pubBar[x]]
    <2>1. pubBar' = [x \in Trade |-> [pub'[x] EXCEPT !["SETTLED"] = 0]]
      BY DEF pubBar
    <2>2. ASSUME NEW x \in Trade
          PROVE  [pub'[x] EXCEPT !["SETTLED"] = 0] =
                   IF x = t /\ x \notin lost THEN Bar!Bump(pubBar[x], j.verdict)
                   ELSE IF x = u /\ x \notin lost THEN Bar!Bump(pubBar[x], rowBar[x])
                   ELSE pubBar[x]
      <3>1. pubBar[x] = [pub[x] EXCEPT !["SETTLED"] = 0]
        BY RowSeen DEF CoreInv
      <3>2. CASE x = t /\ x \notin lost
        BY <1>2, <1>4, <1>8, <3>2
      <3>3. CASE ~(x = t /\ x \notin lost) /\ x = u /\ x \notin lost
        <4>1. rowBar[x] = row[x] /\ row[x] \in Status \ {"SETTLED"}
          BY <1>6, <1>7, <1>11, <3>3
        <4>. QED BY <1>2, <1>8, <3>3, <4>1
      <3>4. CASE ~(x = t /\ x \notin lost) /\ ~(x = u /\ x \notin lost)
        BY <1>2, <3>1, <3>4
      <3>. QED BY <3>2, <3>3, <3>4
    <2>. QED BY <2>1, <2>2
  <1>13. drops' = drops + Bar!Cardinality(lost)
    BY <1>2 DEF Matching!Cardinality, Bar!Cardinality
  <1>14. Bar!PushPair(w, s)
    BY <1>1, <1>2, <1>11, <1>12, <1>13 DEF Bar!PushPair
  <1>. QED BY <1>10, <1>14 DEF Bar!WorkerStep, Bar!ProcessRecord

(* All steps of a thread of the trade side. *)
LEMMA TradeStep ==
  ASSUME CoreInv, NEW w \in Worker, NEW s \in TradeShard, Matching!WorkerStep(w, s)
  PROVE  Bar!WorkerStep(w, s) /\ TradeKeeps
  BY TradeStream, TradeQuery, TradeMark, TradePersist, TradePush
     DEF Matching!WorkerStep, Matching!ProcessRecord

----------------------------------------------------------------------------
(* The steps of the settlement side.  TradeMatching sees none of them: a    *)
(* halt, a crash or a dropped record changes nothing its invariant uses.    *)
LEMMA TradeUnmoved ==
  ASSUME Bar!IInv, UNCHANGED tradeSide, UNCHANGED <<rowBar, pubBar>>,
         up' \in [Worker -> BOOLEAN], crashes' \in Nat, drops' \in Nat
  PROVE  Bar!IInv'
  <1>1. /\ tlog' = tlog /\ tckpt' = tckpt /\ towner' = towner /\ tbatch' = tbatch
        /\ tsteals' = tsteals /\ job' = job /\ rowBar' = rowBar /\ pubBar' = pubBar
    BY DEF tradeSide
  <1>2. Bar!TypeOK'
    BY <1>1 DEF Bar!IInv, Bar!TypeOK, Bar!ShardTypeOK
  <1>3. Bar!BatchOK'
    BY <1>1 DEF Bar!IInv, Bar!BatchOK, Bar!InLoop
  <1>4. Bar!StoredOK'
    BY <1>1 DEF Bar!IInv, Bar!StoredOK
  <1>8. ASSUME NEW x \in Worker, NEW z \in TradeShard
        PROVE  /\ Bar!InLoop(x, z)' <=> Bar!InLoop(x, z)
               /\ Bar!Pushing(x, z)' <=> Bar!Pushing(x, z)
               /\ Bar!Current(x, z)' = Bar!Current(x, z)
               /\ Bar!KnowsFound(x, z)' <=> Bar!KnowsFound(x, z)
    <2>1. Bar!InLoop(x, z)' <=> Bar!InLoop(x, z)
      BY <1>1 DEF Bar!InLoop
    <2>2. Bar!Current(x, z)' = Bar!Current(x, z)
      BY <1>1 DEF Bar!Current
    <2>3. Bar!Pushing(x, z)' <=> Bar!Pushing(x, z)
      BY <1>1, <2>1 DEF Bar!Pushing
    <2>4. Bar!KnowsFound(x, z)' <=> Bar!KnowsFound(x, z)
      BY <1>1, <2>2 DEF Bar!KnowsFound, Bar!SameBlock, Bar!VerdictOf
    <2>. QED BY <2>1, <2>2, <2>3, <2>4
  <1>5. Bar!FoundOK'
    BY <1>8 DEF Bar!IInv, Bar!FoundOK
  <1>6. Bar!PushOK'
    BY <1>1, <1>8 DEF Bar!IInv, Bar!PushOK
  <1>7. Bar!PubOK'
    BY <1>1 DEF Bar!IInv, Bar!PubOK, Bar!SameBlock, Bar!VerdictOf
  <1>. QED BY <1>2, <1>3, <1>4, <1>5, <1>6, <1>7 DEF Bar!IInv

(* And the other way round: a step of the trade side moves no settlement.   *)
LEMMA SettlementUnmoved ==
  ASSUME CoreInv, UNCHANGED settlementSide, TradeKeeps, Bar!IInv'
  PROVE  CoreInv'
  <1>1. /\ UNCHANGED <<log, ckpt, owner, batch, steals, alloc, task>>
    BY DEF settlementSide
  <1>2. up' \in [Worker -> BOOLEAN] /\ crashes' \in Nat /\ drops' \in Nat
    BY DEF Bar!IInv, Bar!TypeOK, Bar!ShardTypeOK
  <1>3. TypeOK'
    BY <1>1, <1>2 DEF CoreInv, TypeOK, ShardTypeOK, TradeKeeps
  <1>4. BatchOK'
    BY <1>1 DEF CoreInv, BatchOK
  <1>5. ReturnOK'
    <2>1. \A z \in Shard : \A i \in 1..Len(log[z]) : log[z][i].trade \in Trade
      BY SettlingNumbers DEF CoreInv, Settlement
    <2>2. ASSUME NEW z \in Shard, NEW i \in 1..Len(log[z])
          PROVE  pub'[log[z][i].trade]["MATCHED"] > 0
      BY <2>1, <2>2 DEF CoreInv, ReturnOK, TradeKeeps
    <2>3. \A t \in Trade : row'[t] = "SETTLED" => pub'[t]["MATCHED"] > 0
      BY DEF CoreInv, ReturnOK, TradeKeeps
    <2>. QED BY <1>1, <2>2, <2>3 DEF ReturnOK
  <1>. QED BY <1>3, <1>4, <1>5 DEF CoreInv

(* What the statements for one settlement do to rows and counters. *)
LEMMA RecordTypes ==
  ASSUME TypeOK, BatchOK, NEW w \in Worker, NEW s \in Shard, ProcessRecord(w, s)
  PROVE  /\ TypeOK' /\ BatchOK' /\ log' = log
         /\ \/ row' = row
            \/ /\ At(w, s, "save") /\ row' = [row EXCEPT ![TradeOf(w, s)] = "SETTLED"]
         /\ \/ pub' = pub
            \/ /\ At(w, s, "push")
               /\ pub' = [pub EXCEPT ![TradeOf(w, s)]["SETTLED"] = @ + 1]
  <1>1. CASE UpdateAllocation(w, s)
    <2>. DEFINE r == Current(w, s)
    <2>1. /\ batch[w][s].pos \in 1..batch[w][s].end /\ r \in Settlement
          /\ StayAtRecord /\ Goto(w, s, "read") /\ UNCHANGED <<row, pub, drops>>
      BY <1>1, AtSettlement DEF UpdateAllocation
    <2>2. r.trade \in Trade /\ r.alloc \in Alloc /\ r.status \in AllocStatus
      BY <2>1 DEF Settlement, Result, AllocStatus
    <2>3. alloc' \in [Trade -> [Alloc -> AllocStatus]]
      BY <1>1, <2>2 DEF UpdateAllocation, TypeOK
    <2>4. TypeOK'
      BY <2>1, <2>3, StayTypes DEF TypeOK
    <2>. QED BY <2>1, <2>4, StayBatch
  <1>2. CASE ReadTrade(w, s)
    <2>1. /\ batch[w][s].pos \in 1..batch[w][s].end /\ UNCHANGED <<row, alloc, pub, drops>>
      BY <1>2, AtSettlement DEF ReadTrade
    <2>2. CASE Done(w, s)
      <3>1. TypeOK'
        BY <2>1, <2>2, DoneTypes DEF TypeOK
      <3>. QED BY <2>1, <2>2, <3>1, DoneBatch
    <2>3. CASE Goto(w, s, "save") /\ StayAtRecord
      <3>1. TypeOK'
        BY <2>1, <2>3, StayTypes DEF TypeOK
      <3>. QED BY <2>1, <2>3, <3>1, StayBatch
    <2>. QED BY <1>2, <2>2, <2>3 DEF ReadTrade
  <1>3. CASE SaveSettled(w, s)
    <2>. DEFINE t == TradeOf(w, s)
    <2>1. /\ batch[w][s].pos \in 1..batch[w][s].end /\ t \in Trade /\ At(w, s, "save")
          /\ row' = [row EXCEPT ![t] = "SETTLED"]
          /\ alloc' = [alloc EXCEPT ![t] = [a \in Alloc |-> "Settled"]]
          /\ StayAtRecord /\ Goto(w, s, "push") /\ UNCHANGED <<pub, drops>>
      BY <1>3, AtSettlement DEF SaveSettled
    <2>2. row' \in [Trade -> Status] /\ alloc' \in [Trade -> [Alloc -> AllocStatus]]
      BY <2>1 DEF TypeOK, Status, AllocStatus
    <2>3. TypeOK'
      BY <2>1, <2>2, StayTypes DEF TypeOK
    <2>. QED BY <2>1, <2>3, StayBatch
  <1>4. CASE PushSettled(w, s)
    <2>. DEFINE t == TradeOf(w, s)
    <2>1. /\ t \in Trade /\ At(w, s, "push") /\ Done(w, s) /\ UNCHANGED <<row, alloc>>
          /\ \/ pub' = [pub EXCEPT ![t]["SETTLED"] = @ + 1] /\ drops' = drops
             \/ drops' = drops + 1 /\ pub' = pub
      BY <1>4, AtSettlement DEF PushSettled
    <2>2. pub \in [Trade -> [Status -> Nat]] /\ drops \in Nat /\ "SETTLED" \in Status
      BY DEF TypeOK, Status
    <2>3. [pub[t] EXCEPT !["SETTLED"] = @ + 1] \in [Status -> Nat]
      BY <2>1, <2>2
    <2>4. pub' \in [Trade -> [Status -> Nat]]
      BY <2>1, <2>2, <2>3
    <2>5. drops' \in Nat
      BY <2>1, <2>2
    <2>6. TypeOK'
      BY <2>1, <2>4, <2>5, DoneTypes DEF TypeOK
    <2>. QED BY <2>1, <2>6, DoneBatch
  <1>. QED BY <1>1, <1>2, <1>3, <1>4 DEF ProcessRecord

(* A trade that a settlement came back for is stored as matched, and so is  *)
(* the other side of its block.                                             *)
LEMMA ReturnedIsMatched ==
  ASSUME CoreInv, NEW t \in Trade, pub[t]["MATCHED"] > 0
  PROVE  /\ pub[t]["MATCHED"] = 1 /\ row[t] \in {"MATCHED", "SETTLED"}
         /\ \E u \in Trade : Bar!SameBlock(t, u) /\ row[u] \in {"MATCHED", "SETTLED"}
  <1>1. TypeOK /\ Bar!PubOK
    BY DEF CoreInv, Bar!IInv
  <1>2. pubBar[t]["MATCHED"] = pub[t]["MATCHED"] /\ pubBar[t]["MISMATCHED"] = pub[t]["MISMATCHED"]
    BY <1>1, RowSeen DEF Status
  <1>3. pub[t]["MATCHED"] \in Nat /\ pub[t]["MISMATCHED"] \in Nat
    BY <1>1 DEF TypeOK, Status
  <1>4. pub[t]["MATCHED"] = 1
    BY <1>1, <1>2, <1>3 DEF Bar!PubOK
  <1>5. PICK u \in Trade : Bar!SameBlock(t, u) /\ rowBar[t] = "MATCHED" /\ rowBar[u] = "MATCHED"
    BY <1>1, <1>2 DEF Bar!PubOK, Bar!Verdict
  <1>. QED BY <1>1, <1>4, <1>5, RowSeen

(* A step of the settlement side keeps the invariant when it keeps its own  *)
(* part of it and settles and announces no trade but a matched one.         *)
LEMMA SettlementKeeps ==
  ASSUME CoreInv, UNCHANGED tradeSide, TypeOK', BatchOK', ReturnOK',
         \A t \in Trade : /\ rowBar'[t] = rowBar[t]
                          /\ pubBar'[t] = pubBar[t]
  PROVE  CoreInv' /\ rowBar' = rowBar
  <1>1. rowBar' = rowBar
    <2>1. rowBar' = [t \in Trade |-> rowBar'[t]] /\ rowBar = [t \in Trade |-> rowBar[t]]
      BY DEF rowBar
    <2>. QED BY <2>1
  <1>2. pubBar' = pubBar
    <2>1. pubBar' = [t \in Trade |-> pubBar'[t]] /\ pubBar = [t \in Trade |-> pubBar[t]]
      BY DEF pubBar
    <2>. QED BY <2>1
  <1>3. up' \in [Worker -> BOOLEAN] /\ crashes' \in Nat /\ drops' \in Nat
    BY DEF TypeOK, ShardTypeOK
  <1>4. Bar!IInv'
    BY <1>1, <1>2, <1>3, TradeUnmoved DEF CoreInv
  <1>. QED BY <1>1, <1>4 DEF CoreInv

LEMMA CoreReceive ==
  ASSUME CoreInv, UNCHANGED tradeSide, NEW t \in Trade, NEW a \in Alloc, NEW s \in Shard,
         ReceiveSettlement(t, a, s)
  PROVE  CoreInv' /\ rowBar' = rowBar
  <1>1. PICK v \in Outcome[t][a] : Put(s, Answer(t, a, v))
    BY DEF ReceiveSettlement
  <1>2. pub[t]["MATCHED"] > 0 /\ UNCHANGED <<row, alloc, task, pub, drops>>
    BY DEF ReceiveSettlement
  <1>3. /\ Answer(t, a, v) \in Settlement /\ TypeOK' /\ BatchOK'
    BY <1>1, <1>2, ReceiveTypes DEF CoreInv
  <1>4. ReturnOK'
    <2>1. log[s] \in Seq(Settlement) /\ log \in [Shard -> Seq(Settlement)]
      BY ShardFieldTypes DEF CoreInv, TypeOK, ShardTypeOK
    <2>2. log' = [log EXCEPT ![s] = Append(@, Answer(t, a, v))]
      BY <1>1 DEF Put
    <2>3. ASSUME NEW z \in Shard, NEW i \in 1..Len(log'[z])
          PROVE  pub[log'[z][i].trade]["MATCHED"] > 0
      <3>1. CASE z = s
        <4>1. \/ i \in 1..Len(log[s]) /\ log'[z][i] = log[s][i]
              \/ log'[z][i] = Answer(t, a, v)
          BY <1>3, <2>1, <2>2, <2>3, <3>1
        <4>. QED BY <1>2, <4>1 DEF CoreInv, ReturnOK, Answer
      <3>2. CASE z # s
        BY <2>1, <2>2, <2>3, <3>2 DEF CoreInv, ReturnOK
      <3>. QED BY <3>1, <3>2
    <2>. QED BY <1>2, <2>3 DEF CoreInv, ReturnOK
  <1>5. rowBar' = rowBar /\ pubBar' = pubBar
    BY <1>2 DEF rowBar, pubBar
  <1>. QED BY <1>3, <1>4, <1>5, SettlementKeeps

LEMMA CoreStream ==
  ASSUME CoreInv, UNCHANGED tradeSide, NEW w \in Worker, NEW s \in Shard,
         Take(w, s) \/ Steal(w, s) \/ Fetch(w, s) \/ Checkpoint(w, s)
  PROVE  CoreInv' /\ rowBar' = rowBar
  <1>1. TypeOK' /\ BatchOK' /\ UNCHANGED <<log, row, alloc, task, pub, drops>>
    BY ShardTypes DEF CoreInv
  <1>2. ReturnOK'
    BY <1>1 DEF CoreInv, ReturnOK
  <1>3. rowBar' = rowBar /\ pubBar' = pubBar
    BY <1>1 DEF rowBar, pubBar
  <1>. QED BY <1>1, <1>2, <1>3, SettlementKeeps

LEMMA CoreRecord ==
  ASSUME CoreInv, UNCHANGED tradeSide, NEW w \in Worker, NEW s \in Shard,
         ProcessRecord(w, s)
  PROVE  CoreInv' /\ rowBar' = rowBar
  <1>. DEFINE t == TradeOf(w, s)
  <1>1. TypeOK /\ BatchOK /\ ReturnOK
    BY DEF CoreInv
  <1>2. TypeOK' /\ BatchOK' /\ log' = log
    BY <1>1, RecordTypes
  <1>3. ASSUME NEW pc, At(w, s, pc)
        PROVE  t \in Trade /\ pub[t]["MATCHED"] > 0 /\ rowBar[t] = "MATCHED"
    <2>1. t \in Trade /\ batch[w][s].pos \in 1..batch[w][s].end
      BY <1>1, <1>3, AtSettlement
    <2>2. batch[w][s].pos \in 1..Len(log[s])
      BY <1>1, <2>1, SettlingNumbers DEF BatchOK
    <2>3. pub[t]["MATCHED"] > 0
      BY <1>1, <2>2 DEF ReturnOK, TradeOf, Current
    <2>. QED BY <1>1, <2>1, <2>3, ReturnedIsMatched, RowSeen
  <1>4. row \in [Trade -> Status] /\ pub \in [Trade -> [Status -> Nat]] /\ "SETTLED" \in Status
    BY <1>1 DEF TypeOK, Status
  <1>5. /\ \A u \in Trade : rowBar'[u] = rowBar[u]
        /\ \A u \in Trade : row'[u] = "SETTLED" =>
              row[u] = "SETTLED" \/ pub[u]["MATCHED"] > 0
    <2>1. CASE row' = row
      BY <2>1 DEF rowBar
    <2>2. CASE At(w, s, "save") /\ row' = [row EXCEPT ![t] = "SETTLED"]
      BY <1>3, <1>4, <2>2 DEF rowBar
    <2>. QED BY <1>1, <2>1, <2>2, RecordTypes
  <1>6. /\ \A u \in Trade : pubBar'[u] = pubBar[u]
        /\ \A u \in Trade : pub'[u]["MATCHED"] = pub[u]["MATCHED"]
    <2>1. CASE pub' = pub
      BY <2>1 DEF pubBar
    <2>2. CASE At(w, s, "push") /\ pub' = [pub EXCEPT ![t]["SETTLED"] = @ + 1]
      <3>1. \A u \in Trade : pub'[u] = IF u = t THEN [pub[t] EXCEPT !["SETTLED"] = @ + 1]
                                       ELSE pub[u]
        BY <1>3, <1>4, <2>2
      <3>2. /\ [[pub[t] EXCEPT !["SETTLED"] = @ + 1] EXCEPT !["SETTLED"] = 0]
                 = [pub[t] EXCEPT !["SETTLED"] = 0]
            /\ [pub[t] EXCEPT !["SETTLED"] = @ + 1]["MATCHED"] = pub[t]["MATCHED"]
        BY <1>3, <1>4, <2>2 DEF Status
      <3>3. \A u \in Trade : pubBar'[u] = [pub'[u] EXCEPT !["SETTLED"] = 0]
        BY DEF pubBar
      <3>4. \A u \in Trade : pubBar[u] = [pub[u] EXCEPT !["SETTLED"] = 0]
        BY DEF pubBar
      <3>5. ASSUME NEW u \in Trade
            PROVE  pubBar'[u] = pubBar[u] /\ pub'[u]["MATCHED"] = pub[u]["MATCHED"]
        <4>1. CASE u = t
          <5>1. pub'[u] = [pub[t] EXCEPT !["SETTLED"] = @ + 1]
            BY <3>1, <4>1
          <5>. QED BY <3>2, <3>3, <3>4, <4>1, <5>1
        <4>2. CASE u # t
          BY <3>1, <3>3, <3>4, <4>2
        <4>. QED BY <4>1, <4>2
      <3>. QED BY <3>5
    <2>. QED BY <1>1, <2>1, <2>2, RecordTypes
  <1>7. ReturnOK'
    <2>1. \A z \in Shard : \A i \in 1..Len(log[z]) : log[z][i].trade \in Trade
      BY <1>1, SettlingNumbers DEF Settlement
    <2>. QED BY <1>1, <1>2, <1>5, <1>6, <2>1 DEF ReturnOK
  <1>. QED BY <1>2, <1>5, <1>6, <1>7, SettlementKeeps

(* A crash and a restart are of both sides at once. *)
LEMMA CoreCrash ==
  ASSUME CoreInv, NEW w \in Worker, CrashBoth(w)
  PROVE  CoreInv' /\ Bar!Crash(w)
  <1>1. UNCHANGED <<row, pub, job, drops>> /\ UNCHANGED settlementSide
    BY DEF CrashBoth, Matching!Crash, Matching!jobVars
  <1>2. TradeKeeps /\ rowBar' = rowBar /\ pubBar' = pubBar
    BY <1>1, TradeQuiet DEF CoreInv
  <1>3. Bar!Crash(w)
    BY <1>1, <1>2 DEF CrashBoth, Matching!Crash, Matching!CrashWorker,
       Bar!Crash, Bar!CrashWorker, Bar!jobVars, Matching!shardVars, Bar!shardVars
  <1>4. Bar!IInv'
    BY <1>3, BarInvariant DEF CoreInv, Bar!Next
  <1>. QED BY <1>1, <1>2, <1>3, <1>4, SettlementUnmoved

LEMMA CoreRestart ==
  ASSUME CoreInv, NEW w \in Worker, RestartBoth(w)
  PROVE  CoreInv' /\ Bar!Restart(w)
  <1>1. Restart(w) /\ Matching!Restart(w)
    BY DEF RestartBoth
  <1>2. TypeOK' /\ BatchOK' /\ UNCHANGED <<log, row, alloc, pub, drops>>
    BY <1>1, RestartTypes DEF CoreInv
  <1>3. rowBar' = rowBar /\ pubBar' = pubBar
    BY <1>2 DEF rowBar, pubBar
  <1>4. Bar!Restart(w)
    BY <1>1, <1>2, <1>3 DEF Matching!Restart, Matching!RestartWorker,
       Bar!Restart, Bar!RestartWorker, Matching!NoBatch, Bar!NoBatch,
       Matching!NewJob, Bar!NewJob
  <1>5. Bar!IInv'
    BY <1>4, BarInvariant DEF CoreInv, Bar!Next
  <1>6. ReturnOK'
    BY <1>2 DEF CoreInv, ReturnOK
  <1>. QED BY <1>2, <1>4, <1>5, <1>6 DEF CoreInv

LEMMA CoreInvInit ==
  ASSUME CoreInit
  PROVE  CoreInv /\ Bar!Init
  <1>1. /\ row = [t \in Trade |-> "NONE"] /\ pub = [t \in Trade |-> [v \in Status |-> 0]]
        /\ Matching!Init
    BY DEF CoreInit, Matching!Init, Matching!Status, Status
  <1>2. rowBar = [t \in Trade |-> "NONE"] /\ pubBar = [t \in Trade |-> [v \in Status |-> 0]]
    BY <1>1 DEF rowBar, pubBar, Status
  <1>3. Bar!Init
    BY <1>1, <1>2 DEF Matching!Init, Bar!Init, Matching!ShardInit, Bar!ShardInit,
       Matching!NoBatch, Bar!NoBatch, Matching!NewJob, Bar!NewJob, Bar!Status, Status
  <1>4. Bar!IInv
    BY <1>3, BarInvariant
  <1>5. ShardInit
    BY <1>1 DEF CoreInit, Matching!Init, Matching!ShardInit, ShardInit,
       NoBatch
  <1>6. TypeOK
    <2>1. ShardTypeOK(Settlement)
      BY <1>5, ShardInitType
    <2>2. alloc \in [Trade -> [Alloc -> AllocStatus]] /\ drops \in Nat
      BY DEF CoreInit, Matching!Init, AllocStatus
    <2>3. task \in [Worker -> [Shard -> {"update", "read", "save", "push"}]]
      BY DEF CoreInit
    <2>4. row \in [Trade -> Status] /\ pub \in [Trade -> [Status -> Nat]]
      BY <1>1 DEF Status
    <2>. QED BY <2>1, <2>2, <2>3, <2>4 DEF TypeOK
  <1>7. \A s \in Shard : log[s] = <<>> /\ Len(log[s]) = 0
    BY <1>5 DEF ShardInit
  <1>8. BatchOK
    BY <1>5, <1>7 DEF CoreInit, ShardInit, BatchOK, NoBatch
  <1>9. ReturnOK
    BY <1>1, <1>7 DEF ReturnOK
  <1>. QED BY <1>3, <1>4, <1>6, <1>8, <1>9 DEF CoreInv

LEMMA CoreInvNext ==
  ASSUME CoreInv, [CoreNext]_coreVars
  PROVE  CoreInv'
  <1>1. CASE TradeArrives
    <2>1. PICK t \in Trade, s \in TradeShard : Matching!ReceiveTrade(t, s)
      BY <1>1 DEF TradeArrives
    <2>2. Bar!ReceiveTrade(t, s) /\ TradeKeeps
      BY <2>1, TradeReceived
    <2>3. Bar!IInv'
      BY <2>2, BarInvariant DEF CoreInv, Bar!Next
    <2>. QED BY <1>1, <2>2, <2>3, SettlementUnmoved DEF TradeArrives
  <1>2. CASE MatchingStep
    <2>1. PICK w \in Worker, s \in TradeShard : Matching!WorkerStep(w, s)
      BY <1>2 DEF MatchingStep
    <2>2. Bar!WorkerStep(w, s) /\ TradeKeeps
      BY <2>1, TradeStep
    <2>3. Bar!IInv'
      BY <2>2, BarInvariant DEF CoreInv, Bar!Next
    <2>. QED BY <1>2, <2>2, <2>3, SettlementUnmoved DEF MatchingStep
  <1>3. CASE SettlementReturns
    BY <1>3, CoreReceive DEF SettlementReturns
  <1>4. CASE SettlingStep
    <2>1. PICK w \in Worker, s \in Shard : WorkerStep(w, s)
      BY <1>4 DEF SettlingStep
    <2>2. UNCHANGED tradeSide
      BY <1>4 DEF SettlingStep
    <2>. QED BY <2>1, <2>2, CoreStream, CoreRecord DEF WorkerStep
  <1>5. ASSUME NEW w \in Worker, CrashBoth(w) PROVE CoreInv'
    BY <1>5, CoreCrash
  <1>6. ASSUME NEW w \in Worker, RestartBoth(w) PROVE CoreInv'
    BY <1>6, CoreRestart
  <1>7. CASE UNCHANGED coreVars
    <2>1. /\ UNCHANGED tradeSide
          /\ UNCHANGED <<row, pub, drops, up, crashes>>
          /\ UNCHANGED <<log, ckpt, owner, batch, steals, alloc, task>>
      BY <1>7 DEF coreVars, vars, shardVars, workerVars
    <2>2. TypeOK' /\ BatchOK' /\ ReturnOK'
      BY <2>1 DEF CoreInv, TypeOK, ShardTypeOK, BatchOK, ReturnOK
    <2>3. rowBar' = rowBar /\ pubBar' = pubBar
      BY <2>1 DEF rowBar, pubBar
    <2>. QED BY <2>1, <2>2, <2>3, SettlementKeeps
  <1>. QED BY <1>1, <1>2, <1>3, <1>4, <1>5, <1>6, <1>7 DEF CoreNext

(* Every state of the service satisfies the invariant of both sides. *)
THEOREM CoreInvariance ==
  CoreSpec => []CoreInv
  <1>1. CoreInit => CoreInv
    BY CoreInvInit
  <1>2. CoreInv /\ [CoreNext]_coreVars => CoreInv'
    BY CoreInvNext
  <1>. QED BY <1>1, <1>2, PTL DEF CoreSpec

(* CoreMatchingAppState with both of its KCL schedulers, whatever crashes,  *)
(* moves or is delivered again on either side: a trade is SETTLED only once *)
(* it was published as matched, and only while the other side of its block  *)
(* is stored as matched or settled itself.                                  *)
THEOREM CoreSettledIsMatched ==
  CoreSpec => []SettledIsMatched
  <1>1. ASSUME CoreInv PROVE SettledIsMatched
    <2>. SUFFICES ASSUME NEW t \in Trade, row[t] = "SETTLED"
                  PROVE  /\ pub[t]["MATCHED"] = 1
                         /\ \A u \in Trade : Matching!SameBlock(t, u) =>
                              row[u] \in {"MATCHED", "SETTLED"}
      BY DEF SettledIsMatched
    <2>1. pub[t]["MATCHED"] > 0
      BY <1>1 DEF CoreInv, ReturnOK
    <2>2. PICK v \in Trade : Bar!SameBlock(t, v) /\ row[v] \in {"MATCHED", "SETTLED"}
      BY <1>1, <2>1, ReturnedIsMatched
    <2>3. ASSUME NEW u \in Trade, Matching!SameBlock(t, u) PROVE u = v
      BY <2>2, <2>3, CoreAssumption DEF Bar!SameBlock, Matching!SameBlock
    <2>. QED BY <1>1, <2>1, <2>2, <2>3, ReturnedIsMatched
  <1>. QED BY <1>1, CoreInvariance, PTL

----------------------------------------------------------------------------
(* Why a settled trade stays settled.  Only the update of a counterpart     *)
(* could take it back; while one thread at a time has a record, that update *)
(* comes before the counterpart is published, and so before it can settle.  *)
LEMMA CoreAlone ==
  ASSUME Bar!AtMostOnce, CoreInv, Bar!Alone, [CoreNext]_coreVars
  PROVE  Bar!Alone'
  <1>1. [Bar!Next]_(Bar!vars) => Bar!Alone'
    BY BarInvariant DEF CoreInv
  <1>2. CASE TradeArrives
    BY <1>1, <1>2, TradeReceived DEF TradeArrives, Bar!Next
  <1>3. CASE MatchingStep
    BY <1>1, <1>3, TradeStep DEF MatchingStep, Bar!Next
  <1>4. ASSUME UNCHANGED tradeSide, rowBar' = rowBar, \A x \in Worker : up'[x] => up[x]
        PROVE  Bar!Alone'
    BY <1>4, BarInvariant
  <1>5. CASE SettlementReturns
    <2>1. PICK t \in Trade, a \in Alloc, s \in Shard : ReceiveSettlement(t, a, s)
      BY <1>5 DEF SettlementReturns
    <2>2. UNCHANGED tradeSide
      BY <1>5 DEF SettlementReturns
    <2>3. up' = up
      BY <2>1 DEF ReceiveSettlement, Put, workerVars
    <2>. QED BY <1>4, <2>1, <2>2, <2>3, CoreReceive
  <1>6. CASE SettlingStep
    <2>1. PICK w \in Worker, s \in Shard : WorkerStep(w, s)
      BY <1>6 DEF SettlingStep
    <2>2. UNCHANGED tradeSide
      BY <1>6 DEF SettlingStep
    <2>3. up \in [Worker -> BOOLEAN]
      BY DEF CoreInv, TypeOK, ShardTypeOK
    <2>4. up' = up \/ up' = [up EXCEPT ![w] = FALSE]
      BY <2>1 DEF WorkerStep, Take, TakeLease, Steal, StealLease, Fetch, FetchBatch,
         Checkpoint, CheckpointBatch, Halt, ProcessRecord, UpdateAllocation, ReadTrade,
         SaveSettled, PushSettled, Done, NextRecord, StayAtRecord, workerVars
    <2>5. \A x \in Worker : up'[x] => up[x]
      BY <2>3, <2>4
    <2>. QED BY <1>4, <2>1, <2>2, <2>5, CoreStream, CoreRecord DEF WorkerStep
  <1>7. ASSUME NEW w \in Worker, CrashBoth(w) \/ RestartBoth(w) PROVE Bar!Alone'
    BY <1>1, <1>7, CoreCrash, CoreRestart DEF Bar!Next
  <1>8. CASE UNCHANGED coreVars
    <2>1. UNCHANGED tradeSide /\ UNCHANGED <<row, up>>
      BY <1>8 DEF coreVars, vars, shardVars, workerVars, tradeSide
    <2>2. rowBar' = rowBar
      BY <2>1 DEF rowBar
    <2>. QED BY <1>4, <2>1, <2>2
  <1>. QED BY <1>2, <1>3, <1>5, <1>6, <1>7, <1>8 DEF CoreNext

(* A step of the trade side settles nothing and, while one thread at a time *)
(* has a record, unsettles nothing.                                         *)
LEMMA TradeLeavesSettled ==
  ASSUME CoreInv, Bar!Alone, NEW w \in Worker, NEW s \in TradeShard,
         Matching!WorkerStep(w, s), NEW t \in Trade, row[t] = "SETTLED"
  PROVE  row'[t] = "SETTLED"
  <1>1. row \in [Trade -> Status]
    BY DEF CoreInv, TypeOK
  <1>2. CASE row' = row
    BY <1>2
  <1>3. CASE Matching!MarkCounterpart(w, s)
    <2>. DEFINE u == job[w][s].found
    <2>1. Bar!At(w, s, "mark") /\ row' = [row EXCEPT ![u] = job[w][s].verdict]
      BY <1>3, SameThread DEF Matching!MarkCounterpart
    <2>2. u \in Trade /\ pubBar[u]["MATCHED"] = 0
      BY <2>1, BarInvariant DEF CoreInv
    <2>3. pub[u]["MATCHED"] = 0
      BY <2>2, RowSeen DEF CoreInv, Status
    <2>4. row[u] # "SETTLED"
      BY <2>2, <2>3 DEF CoreInv, ReturnOK
    <2>. QED BY <1>1, <2>1, <2>2, <2>4
  <1>4. CASE Matching!PersistTrade(w, s)
    <2>1. \/ row' = row
          \/ /\ row[Matching!Current(w, s)] = "NONE"
             /\ \E v : row' = [row EXCEPT ![Matching!Current(w, s)] = v]
      BY <1>4 DEF Matching!PersistTrade
    <2>. QED BY <1>1, <2>1
  <1>. QED BY <1>2, <1>3, <1>4 DEF Matching!WorkerStep, Matching!ProcessRecord,
              Matching!Take, Matching!Steal, Matching!Fetch,
              Matching!Checkpoint, Matching!CheckExisting, Matching!SelectMatch,
              Matching!SelectMismatch, Matching!PushPair

LEMMA SettledStays ==
  ASSUME CoreInv, Bar!Alone, [CoreNext]_coreVars,
         NEW t \in Trade, row[t] = "SETTLED"
  PROVE  row'[t] = "SETTLED"
  <1>1. TypeOK /\ BatchOK
    BY DEF CoreInv
  <1>2. CASE row' = row
    BY <1>2
  <1>3. CASE MatchingStep
    BY <1>3, TradeLeavesSettled DEF MatchingStep
  <1>4. CASE SettlingStep
    <2>1. PICK w \in Worker, s \in Shard : WorkerStep(w, s)
      BY <1>4 DEF SettlingStep
    <2>2. row' = row \/ row' = [row EXCEPT ![TradeOf(w, s)] = "SETTLED"]
      BY <1>1, <2>1, RecordTypes
         DEF WorkerStep, Take, Steal, Fetch, Checkpoint, Rest
    <2>. QED BY <1>1, <2>2 DEF TypeOK
  <1>5. CASE TradeArrives
    BY <1>2, <1>5 DEF TradeArrives, Matching!ReceiveTrade
  <1>6. CASE SettlementReturns
    BY <1>2, <1>6 DEF SettlementReturns, ReceiveSettlement
  <1>7. ASSUME NEW w \in Worker, CrashBoth(w) \/ RestartBoth(w) PROVE row' = row
    BY <1>7 DEF CrashBoth, RestartBoth, Matching!Crash, Matching!Restart
  <1>8. CASE UNCHANGED coreVars
    BY <1>2, <1>8 DEF coreVars, vars
  <1>. QED BY <1>2, <1>3, <1>4, <1>5, <1>6, <1>7, <1>8 DEF CoreNext

(* updateSettledTrade against UPDATE_MATCHED_TRADE: when no trade is put    *)
(* twice and no lease of a trade shard moves away from a live worker, a     *)
(* settled trade stays settled, across crashes and restarts of either side, *)
(* stolen leases of settlement shards and settlements that come twice.      *)
THEOREM CoreSettledIsFinal ==
  ASSUME MaxTradeSteal = 0, \A t \in Trade : MaxCopies[t] <= 1
  PROVE  CoreSpec => SettledIsFinal
  <1>1. Bar!AtMostOnce
    BY DEF Bar!AtMostOnce
  <1>2. CoreInit => Bar!Alone
    <2>1. CoreInit => Bar!Init
      BY CoreInvInit
    <2>. QED BY <2>1, BarInvariant
  <1>3. CoreInv /\ Bar!Alone /\ [CoreNext]_coreVars => Bar!Alone'
    BY <1>1, CoreAlone
  <1>4. CoreInv /\ Bar!Alone /\ [CoreNext]_coreVars =>
          [\A t \in Trade : row[t] = "SETTLED" => row'[t] = "SETTLED"]_row
    BY SettledStays
  <1>. QED BY <1>2, <1>3, <1>4, CoreInvariance, PTL DEF CoreSpec, SettledIsFinal
=============================================================================
