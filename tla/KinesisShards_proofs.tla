------------------------ MODULE KinesisShards_proofs ------------------------
(***************************************************************************)
(* Lemmas about KinesisShards that the proofs about its processors cite:   *)
(* the steps of the stream keep its types, whatever the records are, and a *)
(* record that was counted is there.                                       *)
(***************************************************************************)
EXTENDS KinesisShards, FiniteSetTheorems, TLAPS

LEMMA ShardFieldTypes ==
  ASSUME NEW R, ShardTypeOK(R)
  PROVE  /\ \A s \in Shard : log[s] \in Seq(R) /\ Len(log[s]) \in Nat /\ ckpt[s] \in Nat
         /\ \A w \in Worker, s \in Shard : batch[w][s].pos \in Nat /\ batch[w][s].end \in Nat
  <1>1. \A s \in Shard : log[s] \in Seq(R)
    BY DEF ShardTypeOK
  <1>2. \A s \in Shard : Len(log[s]) \in Nat
    BY <1>1
  <1>. QED BY <1>1, <1>2 DEF ShardTypeOK

(* The stream starts well typed. *)
LEMMA ShardInitType ==
  ASSUME NEW R, ShardInit
  PROVE  ShardTypeOK(R)
  <1>1. <<>> \in Seq(R)
    OBVIOUS
  <1>. QED BY <1>1 DEF ShardInit, ShardTypeOK, NoBatch

(* A new record, of the right type, keeps the types. *)
LEMMA PutType ==
  ASSUME NEW R, ShardTypeOK(R), NEW s \in Shard, NEW r \in R, Put(s, r)
  PROVE  ShardTypeOK(R)'
  BY DEF ShardTypeOK, Put, workerVars

(* So do leases, batches, checkpoints, crashes and restarts. *)
LEMMA ShardStepType ==
  ASSUME NEW R, ShardTypeOK(R), NEW w \in Worker, NEW s \in Shard,
         \/ TakeLease(w, s) \/ StealLease(w, s) \/ FetchBatch(w, s)
         \/ CheckpointBatch(w, s) \/ CrashWorker(w) \/ RestartWorker(w)
         \/ NextRecord(w, s) \/ StayAtRecord \/ Halt(w)
  PROVE  ShardTypeOK(R)'
  <1>1. CASE TakeLease(w, s)
    BY <1>1 DEF ShardTypeOK, TakeLease, workerVars
  <1>2. CASE StealLease(w, s)
    BY <1>2 DEF ShardTypeOK, StealLease, workerVars
  <1>3. CASE FetchBatch(w, s)
    <2>1. PICK e \in (ckpt[s] + 1)..Len(log[s]) :
            batch' = [batch EXCEPT ![w][s] = [pos |-> ckpt[s] + 1, end |-> e]]
      BY <1>3 DEF FetchBatch
    <2>2. [pos |-> ckpt[s] + 1, end |-> e] \in [pos : Nat, end : Nat]
      BY ShardFieldTypes
    <2>3. batch' \in [Worker -> [Shard -> [pos : Nat, end : Nat]]]
      BY <2>1, <2>2 DEF ShardTypeOK
    <2>. QED BY <1>3, <2>3 DEF ShardTypeOK, FetchBatch, workerVars
  <1>4. CASE CheckpointBatch(w, s)
    <2>1. CASE owner[s] = w
      <3>1. batch[w][s].end \in Nat /\ NoBatch \in [pos : Nat, end : Nat]
        BY DEF ShardTypeOK, NoBatch
      <3>2. ckpt' \in [Shard -> Nat]
        BY <1>4, <2>1, <3>1 DEF ShardTypeOK, CheckpointBatch
      <3>3. batch' \in [Worker -> [Shard -> [pos : Nat, end : Nat]]]
        <4>1. batch' = [batch EXCEPT ![w][s] = NoBatch]
          BY <1>4, <2>1 DEF CheckpointBatch
        <4>2. batch \in [Worker -> [Shard -> [pos : Nat, end : Nat]]]
          BY DEF ShardTypeOK
        <4>. QED BY <3>1, <4>1, <4>2
      <3>. QED BY <1>4, <2>1, <3>2, <3>3 DEF ShardTypeOK, CheckpointBatch, workerVars
    <2>2. CASE owner[s] # w
      BY <1>4, <2>2 DEF ShardTypeOK, CheckpointBatch, Halt, shardVars
    <2>. QED BY <2>1, <2>2
  <1>5. CASE CrashWorker(w)
    BY <1>5 DEF ShardTypeOK, CrashWorker, shardVars
  <1>6. CASE RestartWorker(w)
    BY <1>6 DEF ShardTypeOK, RestartWorker, NoBatch
  <1>7. CASE NextRecord(w, s)
    <2>1. [pos |-> batch[w][s].pos + 1, end |-> batch[w][s].end] \in [pos : Nat, end : Nat]
      BY ShardFieldTypes
    <2>2. batch' = [batch EXCEPT ![w][s] =
                     [pos |-> batch[w][s].pos + 1, end |-> batch[w][s].end]]
      BY <1>7 DEF NextRecord, ShardTypeOK
    <2>3. batch' \in [Worker -> [Shard -> [pos : Nat, end : Nat]]]
      BY <2>1, <2>2 DEF ShardTypeOK
    <2>. QED BY <1>7, <2>3 DEF ShardTypeOK, NextRecord, workerVars
  <1>8. CASE StayAtRecord
    BY <1>8 DEF ShardTypeOK, StayAtRecord, shardVars, workerVars
  <1>9. CASE Halt(w)
    BY <1>9 DEF ShardTypeOK, Halt, shardVars
  <1>. QED BY <1>1, <1>2, <1>3, <1>4, <1>5, <1>6, <1>7, <1>8, <1>9

(* Copies counts a finite set: the shards are finitely many, and so are    *)
(* the records of each.                                                    *)
LEMMA CopiesFinite ==
  ASSUME NEW R, log \in [Shard -> Seq(R)], NEW r
  PROVE  IsFiniteSet({x \in UNION {{s} \X DOMAIN log[s] : s \in Shard} : log[x[1]][x[2]] = r})
  <1>. DEFINE cell == [s \in Shard |-> {s} \X DOMAIN log[s]]
              cells == {{s} \X DOMAIN log[s] : s \in Shard}
  <1>1. \A s \in Shard : log[s] \in Seq(R) /\ DOMAIN log[s] = 1..Len(log[s])
                         /\ Len(log[s]) \in Nat
    OBVIOUS
  <1>2. IsFiniteSet(cells)
    <2>1. cell \in Surjection(Shard, cells)
      BY DEF Surjection
    <2>. QED BY <2>1, ShardAssumption, FS_Surjection
  <1>3. \A c \in cells : IsFiniteSet(c)
    <2>. SUFFICES ASSUME NEW s \in Shard PROVE IsFiniteSet({s} \X DOMAIN log[s])
      OBVIOUS
    <2>1. IsFiniteSet({s})
      BY FS_Singleton
    <2>2. IsFiniteSet(DOMAIN log[s])
      <3>1. 1 \in Int /\ Len(log[s]) \in Int
        BY <1>1
      <3>2. IsFiniteSet(1..Len(log[s]))
        BY <3>1, FS_Interval
      <3>. QED BY <1>1, <3>2
    <2>. QED BY <2>1, <2>2, FS_Product
  <1>4. IsFiniteSet(UNION cells)
    BY <1>2, <1>3, FS_UNION
  <1>. QED BY <1>4, FS_Subset

(* It is 0 exactly when r was never put. *)
LEMMA CopiesCount ==
  ASSUME NEW R, log \in [Shard -> Seq(R)], NEW r
  PROVE  Copies(r) \in Nat /\ (Copies(r) > 0 <=> OnStream(r))
  <1>. DEFINE cells == {{s} \X DOMAIN log[s] : s \in Shard}
              hits == {x \in UNION cells : log[x[1]][x[2]] = r}
  <1>1. \A s \in Shard : DOMAIN log[s] = 1..Len(log[s])
    OBVIOUS
  <1>2. Cardinality(hits) \in Nat /\ (Cardinality(hits) = 0 <=> hits = {})
    BY CopiesFinite, FS_CardinalityType, FS_EmptySet
  <1>3. hits # {} <=> OnStream(r)
    <2>1. ASSUME NEW x \in hits PROVE OnStream(r)
      <3>1. PICK s \in Shard : x \in {s} \X DOMAIN log[s]
        OBVIOUS
      <3>2. x[1] = s /\ x[2] \in 1..Len(log[s]) /\ log[x[1]][x[2]] = r
        BY <1>1, <3>1
      <3>. QED BY <3>2 DEF OnStream
    <2>2. ASSUME NEW s \in Shard, NEW i \in 1..Len(log[s]), log[s][i] = r
          PROVE  <<s, i>> \in hits
      BY <1>1, <2>2
    <2>. QED BY <2>1, <2>2 DEF OnStream
  <1>4. Copies(r) = Cardinality(hits)
    BY DEF Copies
  <1>. QED BY <1>2, <1>3, <1>4

(* A record that is on the stream once is at one place. *)
LEMMA OnePlace ==
  ASSUME NEW R, log \in [Shard -> Seq(R)], NEW s \in Shard, NEW z \in Shard,
         NEW i \in 1..Len(log[s]), NEW k \in 1..Len(log[z]),
         log[s][i] = log[z][k], Copies(log[s][i]) <= 1
  PROVE  s = z /\ i = k
  <1>. DEFINE r == log[s][i]
              hits == {x \in UNION {{y} \X DOMAIN log[y] : y \in Shard} : log[x[1]][x[2]] = r}
  <1>1. IsFiniteSet(hits) /\ Copies(r) = Cardinality(hits)
    BY CopiesFinite DEF Copies
  <1>2. <<s, i>> \in hits /\ <<z, k>> \in hits
    <2>1. DOMAIN log[s] = 1..Len(log[s]) /\ DOMAIN log[z] = 1..Len(log[z])
      OBVIOUS
    <2>. QED BY <2>1
  <1>3. SUFFICES ASSUME <<s, i>> # <<z, k>> PROVE FALSE
    OBVIOUS
  <1>4. IsFiniteSet({<<s, i>>}) /\ Cardinality({<<s, i>>}) = 1
    BY FS_Singleton
  <1>5. Cardinality({<<s, i>>} \cup {<<z, k>>}) = 2 /\ IsFiniteSet({<<s, i>>} \cup {<<z, k>>})
    <2>. DEFINE one == {<<s, i>>}
                other == <<z, k>>
    <2>1. other \notin one
      BY <1>3
    <2>2. IsFiniteSet(one) /\ Cardinality(one) = 1
      BY <1>4
    <2>. HIDE DEF one, other
    <2>3. Cardinality(one \cup {other}) = 2 /\ IsFiniteSet(one \cup {other})
      BY <2>1, <2>2, FS_AddElement
    <2>. QED BY <2>3 DEF one, other
  <1>6. {<<s, i>>} \cup {<<z, k>>} \subseteq hits
    BY <1>2
  <1>7. Cardinality(hits) >= 2 /\ Cardinality(hits) \in Nat
    BY <1>1, <1>5, <1>6, FS_Subset, FS_CardinalityType
  <1>. QED BY <1>1, <1>7

(* What is on the stream stays there, and a record put is there. *)
LEMMA PutKeeps ==
  ASSUME NEW R, ShardTypeOK(R), NEW s \in Shard, NEW r \in R, Put(s, r)
  PROVE  /\ \A z \in Shard : /\ Len(log'[z]) \in Nat /\ Len(log'[z]) >= Len(log[z])
                             /\ \A i \in 1..Len(log[z]) : log'[z][i] = log[z][i]
         /\ \A x : OnStream(x)' <=> OnStream(x) \/ x = r
  <1>1. log[s] \in Seq(R) /\ log \in [Shard -> Seq(R)] /\ Len(log[s]) \in Nat
    BY ShardFieldTypes DEF ShardTypeOK
  <1>2. log'[s] = Append(log[s], r) /\ \A z \in Shard \ {s} : log'[z] = log[z]
    BY <1>1 DEF Put
  <1>3. /\ Len(log'[s]) = Len(log[s]) + 1
        /\ \A i \in 1..Len(log[s]) : log'[s][i] = log[s][i]
        /\ log'[s][Len(log[s]) + 1] = r
    BY <1>1, <1>2
  <1>4. \A z \in Shard : Len(log[z]) \in Nat
    BY ShardFieldTypes
  <1>5. \A z \in Shard : /\ Len(log'[z]) \in Nat /\ Len(log'[z]) >= Len(log[z])
                         /\ \A i \in 1..Len(log[z]) : log'[z][i] = log[z][i]
    BY <1>1, <1>2, <1>3, <1>4
  <1>6. ASSUME NEW x, OnStream(x) PROVE OnStream(x)'
    <2>1. PICK z \in Shard : \E i \in 1..Len(log[z]) : log[z][i] = x
      BY <1>6 DEF OnStream
    <2>2. PICK i \in 1..Len(log[z]) : log[z][i] = x
      BY <2>1
    <2>3. i \in 1..Len(log'[z]) /\ log'[z][i] = x
      BY <1>4, <1>5, <2>2
    <2>. QED BY <2>3 DEF OnStream
  <1>7. OnStream(r)'
    <2>1. Len(log[s]) + 1 \in 1..Len(log'[s])
      BY <1>1, <1>3
    <2>. QED BY <1>3, <2>1 DEF OnStream
  <1>8. ASSUME NEW x, OnStream(x)' PROVE OnStream(x) \/ x = r
    <2>1. PICK z \in Shard : \E i \in 1..Len(log'[z]) : log'[z][i] = x
      BY <1>8 DEF OnStream
    <2>2. PICK i \in 1..Len(log'[z]) : log'[z][i] = x
      BY <2>1
    <2>3. CASE z = s /\ i = Len(log[s]) + 1
      BY <1>3, <2>2, <2>3
    <2>4. CASE ~(z = s /\ i = Len(log[s]) + 1)
      <3>1. i \in 1..Len(log[z]) /\ log[z][i] = x
        <4>1. CASE z = s
          <5>1. i \in Nat /\ 1 <= i /\ i <= Len(log[s]) + 1 /\ i # Len(log[s]) + 1
            BY <1>1, <1>3, <2>2, <2>4, <4>1
          <5>2. i \in 1..Len(log[s])
            BY <1>1, <5>1
          <5>. QED BY <1>3, <2>2, <4>1, <5>2
        <4>2. CASE z # s
          BY <1>2, <2>2, <4>2
        <4>. QED BY <4>1, <4>2
      <3>. QED BY <3>1 DEF OnStream
    <2>. QED BY <2>3, <2>4
  <1>. QED BY <1>5, <1>6, <1>7, <1>8
=============================================================================
