------------------------- MODULE SettlementMatching -------------------------
(***************************************************************************)
(* Settlement core matching: processor/KinesisStreamProcessor.java and     *)
(* service/SettlementService.java.  Unlike trade matching, a settlement is *)
(* stored before its pair is looked for, and the pair is updated in one    *)
(* transaction; but no failure halts the JVM.  An exception that leaves    *)
(* handleSettlement leaves processRecords too: the KCL logs it, skips the  *)
(* rest of the batch and goes on with the next one, whose checkpoint then  *)
(* passes what was skipped.                                                *)
(***************************************************************************)
EXTENDS KinesisShards

CONSTANTS
  Settlement,     \* the settlements, one per side of an allocation
  NoSettlement,   \* "no pair found"
  Sender,         \* Sender[x]: sender_id
  Deal,           \* Deal[x]: im, broker, trade and allocation id
  Terms,          \* Terms[x]: all that areMatchingSettlements compares
  MaxDeals,       \* bound: the allocations that are settled
  MaxCopies,      \* bound: MaxCopies[x], how often x is put on the stream
  MaxFail,        \* bound: failed calls of the database or the stream
  MaxDraw         \* bound: settlements left unmatched at random

Status  == {"NONE", "Unmatched", "Settled", "Mismatched"}
Verdict == {"Settled", "Mismatched"}

(* The other side of the same allocation: what findSettlementPair selects  *)
(* by, given that the two sides of an allocation have ids of their own.    *)
Twin(x, y) == Sender[x] # Sender[y] /\ Deal[x] = Deal[y]

(* areMatchingSettlements, as handleSettlementPair uses it. *)
VerdictOf(x, y) == IF Terms[x] = Terms[y] THEN "Settled" ELSE "Mismatched"

ASSUME SettlementAssumption ==
  /\ NoSettlement \notin Settlement
  /\ MaxCopies \in [Settlement -> Nat]
  /\ MaxDeals \in Nat /\ MaxFail \in Nat /\ MaxDraw \in Nat

(* An allocation has two sides, and a side has one id. *)
ASSUME TwoSides ==
  \A x, y, z \in Settlement : Twin(x, y) /\ Twin(x, z) => y = z

VARIABLES
  row,     \* row[x]: the status in settlement_message, "NONE" without a row
  job,     \* job[w][s]: the local state of thread <<w, s>> for its record
  pub,     \* pub[x][v]: how often x was put on the egress stream with status v
  fails,   \* failed calls so far
  draws    \* settlements left unmatched at random so far

vars == <<shardVars, workerVars, row, job, pub, fails, draws>>

(* "lapsed": the object in memory has a database id that no row has. *)
Step == {"persist", "find", "update", "push", "skipped"}
Job == [pc : Step, pair : Settlement \cup {NoSettlement}, lapsed : BOOLEAN]
NewJob == [pc |-> "persist", pair |-> NoSettlement, lapsed |-> FALSE]

TypeOK ==
  /\ ShardTypeOK(Settlement)
  /\ row \in [Settlement -> Status]
  /\ job \in [Worker -> [Shard -> Job]]
  /\ pub \in [Settlement -> [Verdict -> Nat]]
  /\ fails \in Nat
  /\ draws \in Nat

Init ==
  /\ ShardInit
  /\ row = [x \in Settlement |-> "NONE"]
  /\ job = [w \in Worker |-> [s \in Shard |-> NewJob]]
  /\ pub = [x \in Settlement |-> [v \in Verdict |-> 0]]
  /\ fails = 0
  /\ draws = 0

----------------------------------------------------------------------------
At(w, s, pc) == Working(w, s) /\ job[w][s].pc = pc
Goto(w, s, next) == job' = [job EXCEPT ![w][s] = next] /\ StayAtRecord
Done(w, s) == job' = [job EXCEPT ![w][s] = NewJob] /\ NextRecord(w, s)

(* A call fails; the DAO's have been retried before it does. *)
Fail == fails < MaxFail /\ fails' = fails + 1

(* An exception leaves processRecords: the rest of the batch is skipped. *)
SkipBatch(w, s) ==
  /\ batch' = [batch EXCEPT ![w][s].pos = batch[w][s].end + 1]
  /\ job' = [job EXCEPT ![w][s] = [NewJob EXCEPT !.pc = "skipped"]]
  /\ UNCHANGED <<log, ckpt, owner, steals, workerVars>>

(* Ingestion, or the reconciliation application, puts a settlement on the  *)
(* stream, perhaps not for the first time.                                 *)
ReceiveSettlement(x, s) ==
  /\ Copies(x) < MaxCopies[x]
  /\ Cardinality({Deal[y] : y \in {z \in Settlement : z = x \/ Copies(z) > 0}}) <= MaxDeals
  /\ Put(s, x)
  /\ UNCHANGED <<row, job, pub, fails, draws>>

(* A settlement comes with the status of its allocation. *)
ArrivalStatus == "Unmatched"

(* Mutants: no unique id; nothing is committed. *)
PersistAgain(w, s) ==
  /\ At(w, s, "persist")
  /\ row' = [row EXCEPT ![Current(w, s)] = IF @ = "NONE" THEN ArrivalStatus ELSE @]
  /\ Goto(w, s, [NewJob EXCEPT !.pc = "find"])
  /\ UNCHANGED <<pub, fails, draws>>

PersistUncommitted(w, s) ==
  /\ At(w, s, "persist")
  /\ IF row[Current(w, s)] # "NONE" THEN Done(w, s)
     ELSE Goto(w, s, [NewJob EXCEPT !.pc = "find"])
  /\ UNCHANGED <<row, pub, fails, draws>>

(* persistSettlement: the unique id turns a second insert into an early    *)
(* return.  When the commit fails, the retry merges a new row, and the      *)
(* object keeps the id of the first attempt.                               *)
Persist(w, s) ==
  /\ At(w, s, "persist")
  /\ LET x == Current(w, s)
     IN \/ row[x] # "NONE" /\ Done(w, s) /\ UNCHANGED <<row, fails>>
        \/ /\ row[x] = "NONE"
           /\ row' = [row EXCEPT ![x] = ArrivalStatus]
           /\ \/ /\ Goto(w, s, [NewJob EXCEPT !.pc = "find"])
                 /\ UNCHANGED fails
              \/ /\ Fail
                 /\ Goto(w, s, [NewJob EXCEPT !.pc = "find", !.lapsed = TRUE])
  /\ UNCHANGED <<pub, draws>>

(* All attempts fail.  The last one may have been committed unnoticed. *)
FailPersist(w, s) ==
  /\ At(w, s, "persist")
  /\ Fail
  /\ LET x == Current(w, s)
     IN \/ UNCHANGED row
        \/ row[x] = "NONE" /\ row' = [row EXCEPT ![x] = ArrivalStatus]
  /\ SkipBatch(w, s)
  /\ UNCHANGED <<pub, draws>>

(* Mutant: the query compares the terms too. *)
EqualPairs(x) ==
  {y \in Settlement : Twin(x, y) /\ Terms[x] = Terms[y] /\ row[y] \notin {"NONE", "Settled"}}

(* What findSettlementPair returns. *)
Pairs(x) == {y \in Settlement : Twin(x, y) /\ row[y] \notin {"NONE", "Settled"}}

(* Mutant: the pair is pushed, and not updated. *)
FindAndPush(w, s) ==
  /\ At(w, s, "find")
  /\ LET x == Current(w, s)
     IN IF Pairs(x) = {} THEN Done(w, s)
        ELSE \E y \in Pairs(x) :
               Goto(w, s, [job[w][s] EXCEPT !.pc = "push", !.pair = y])
  /\ UNCHANGED <<row, pub, fails, draws>>

(* The look-up of the pair, unless the draw says otherwise.  With none, or *)
(* when the call fails, the settlement stays unmatched.                    *)
FindPair(w, s) ==
  /\ At(w, s, "find")
  /\ LET x == Current(w, s)
     IN \/ draws < MaxDraw /\ draws' = draws + 1 /\ Done(w, s) /\ UNCHANGED fails
        \/ Fail /\ Done(w, s) /\ UNCHANGED draws
        \/ /\ IF Pairs(x) = {} THEN Done(w, s)
              ELSE \E y \in Pairs(x) :
                     Goto(w, s, [job[w][s] EXCEPT !.pc = "update", !.pair = y])
           /\ UNCHANGED <<fails, draws>>
  /\ UNCHANGED <<row, pub>>

(* Mutant: only the new settlement is updated. *)
UpdateOne(w, s) ==
  /\ At(w, s, "update")
  /\ LET x == Current(w, s)
     IN row' = [row EXCEPT ![x] = VerdictOf(x, job[w][s].pair)]
  /\ Goto(w, s, [job[w][s] EXCEPT !.pc = "push"])
  /\ UNCHANGED <<pub, fails, draws>>

(* updateSettlements: both rows in one transaction.  A failure is logged,  *)
(* and it always fails when the settlement would be inserted again.        *)
UpdatePair(w, s) ==
  /\ At(w, s, "update")
  /\ LET x == Current(w, s)
         y == job[w][s].pair
     IN \/ /\ ~job[w][s].lapsed
           /\ row' = [row EXCEPT ![x] = VerdictOf(x, y), ![y] = VerdictOf(x, y)]
           /\ UNCHANGED fails
        \/ job[w][s].lapsed /\ UNCHANGED <<row, fails>>
        \/ Fail /\ UNCHANGED row
  /\ Goto(w, s, [job[w][s] EXCEPT !.pc = "push"])
  /\ UNCHANGED <<pub, draws>>

(* The settlements of S are put on the egress stream as they are in memory. *)
Publish(S, v) ==
  pub' = [x \in Settlement |-> IF x \in S THEN [pub[x] EXCEPT ![v] = @ + 1] ELSE pub[x]]

(* pushSettlementsToEgress; a record that putRecords reports as failed is  *)
(* lost, and a missing client is only logged.                              *)
PushPair(w, s) ==
  /\ At(w, s, "push")
  /\ LET x == Current(w, s)
         y == job[w][s].pair
     IN \/ Publish({x, y}, VerdictOf(x, y)) /\ UNCHANGED fails
        \/ Fail /\ \E S \in {{}, {x}, {y}} : Publish(S, VerdictOf(x, y))
  /\ Done(w, s)
  /\ UNCHANGED <<row, draws>>

(* The join of putRecords throws, whether or not the stream has the pair. *)
FailPush(w, s) ==
  /\ At(w, s, "push")
  /\ Fail
  /\ LET x == Current(w, s)
         y == job[w][s].pair
     IN \E S \in {{}, {x, y}} : Publish(S, VerdictOf(x, y))
  /\ SkipBatch(w, s)
  /\ UNCHANGED <<row, draws>>

Rest == UNCHANGED <<row, pub, fails, draws>>

Checkpoint(w, s) ==
  /\ job[w][s].pc # "skipped"
  /\ CheckpointBatch(w, s)
  /\ Rest /\ UNCHANGED job

(* After a skipped batch the KCL reads on from its own position ... *)
FetchNext(w, s) ==
  /\ up[w] /\ job[w][s].pc = "skipped" /\ owner[s] = w
  /\ \E e \in (batch[w][s].end + 1)..Len(log[s]) :
        batch' = [batch EXCEPT ![w][s].end = e]
  /\ job' = [job EXCEPT ![w][s] = NewJob]
  /\ UNCHANGED <<log, ckpt, owner, steals, workerVars>>
  /\ Rest

(* ... unless the lease is lost, and with it that position. *)
LoseLease(w, s) ==
  /\ up[w] /\ job[w][s].pc = "skipped" /\ owner[s] # w
  /\ batch' = [batch EXCEPT ![w][s] = NoBatch]
  /\ job' = [job EXCEPT ![w][s] = NewJob]
  /\ UNCHANGED <<log, ckpt, owner, steals, workerVars>>
  /\ Rest

Take(w, s)  == TakeLease(w, s)  /\ Rest /\ UNCHANGED job
Steal(w, s) == StealLease(w, s) /\ Rest /\ UNCHANGED job
Fetch(w, s) == FetchBatch(w, s) /\ Rest /\ UNCHANGED job
Crash(w)    == CrashWorker(w)   /\ Rest /\ UNCHANGED job

Restart(w) ==
  /\ RestartWorker(w)
  /\ job' = [job EXCEPT ![w] = [s \in Shard |-> NewJob]]
  /\ Rest

ProcessRecord(w, s) ==
  \/ Persist(w, s)
  \/ FailPersist(w, s)
  \/ FindPair(w, s)
  \/ UpdatePair(w, s)
  \/ PushPair(w, s)
  \/ FailPush(w, s)

Next ==
  \/ \E x \in Settlement, s \in Shard : ReceiveSettlement(x, s)
  \/ \E w \in Worker, s \in Shard :
       \/ Take(w, s)
       \/ Steal(w, s)
       \/ Fetch(w, s)
       \/ ProcessRecord(w, s)
       \/ Checkpoint(w, s)
       \/ FetchNext(w, s)
       \/ LoseLease(w, s)
  \/ \E w \in Worker :
       \/ Crash(w)
       \/ Restart(w)

Spec == Init /\ [][Next]_vars

----------------------------------------------------------------------------
(* Properties. *)

(* Both sides of an allocation have found each other in the database: they  *)
(* are stored with the same verdict or neither has one, in spite of threads *)
(* that update the pair concurrently, failed updates and crashes.          *)
TwinsAgree ==
  \A x, y \in Settlement : Twin(x, y) /\ row[x] \in Verdict => row[y] = row[x]

(* Both sides may find each other, so a settlement may be sent twice; it is *)
(* never sent a third time, whatever is delivered again or fails.          *)
SentTwiceAtMost ==
  \A x \in Settlement : pub[x]["Settled"] + pub[x]["Mismatched"] <= 2

(* As long as no call fails, egress only hears of a verdict that is stored *)
(* for both sides.                                                         *)
SentIsStored ==
  fails = 0 => \A x, y \in Settlement : \A v \in Verdict :
     Twin(x, y) /\ pub[x][v] > 0 => row[x] = v /\ row[y] = v

(* The checkpoint never passes a settlement that is not stored. *)
CheckpointedIsStored ==
  \A s \in Shard : \A i \in 1..ckpt[s] : row[log[s][i]] # "NONE"

(* A checkpoint passes a settlement that is not stored only when a call     *)
(* failed and its batch was skipped, never for a crash or a moved lease.   *)
OnlySkippedIsLost == fails = 0 => CheckpointedIsStored

(* No worker crashed, no lease moved, no call failed, nothing was drawn.   *)
Undisturbed == crashes = 0 /\ steals = 0 /\ fails = 0 /\ draws = 0

(* No pair is missed: when both sides of an allocation were received and   *)
(* the stream is drained, both are stored with the verdict their terms     *)
(* call for, and both were sent.                                           *)
PairIsSent ==
  Undisturbed /\ Drained /\ Threads = {} =>
    \A x, y \in Settlement :
       Twin(x, y) /\ Copies(x) > 0 /\ Copies(y) > 0 =>
         row[x] = VerdictOf(x, y) /\ pub[x][row[x]] > 0
=============================================================================
