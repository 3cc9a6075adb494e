--------------------------- MODULE TradeMatching ---------------------------
(***************************************************************************)
(* Trade core matching, trade side: kcl/KinesisStreamProcessor.java with   *)
(* the services and the DAO it calls.  A trade record is looked up, matched *)
(* against the unmatched trades in Aurora, stored, and published with its  *)
(* counterpart to the egress stream.  None of it is one transaction: each  *)
(* statement that reaches the database or the stream is an action, and the *)
(* statements of the threads of all workers interleave.                    *)
(*                                                                         *)
(* A trade is known by its uuid (sender-im-broker-tradeID).  Of its other  *)
(* columns only what MATCH_SQL and MISMATCH_SQL compare is kept.           *)
(***************************************************************************)
EXTENDS KinesisShards

CONSTANTS
  Trade,       \* the trade messages
  NoTrade,     \* "no trade found"
  Sender,      \* Sender[t]: sender_id
  Block,       \* Block[t]: im, broker, trade id, indicator and the two dates
  Terms,       \* Terms[t]: security, price and quantity
  MaxBlocks,   \* bound: the blocks that are traded
  MaxCopies,   \* bound: MaxCopies[t], how often t is put on the stream
  MaxDrop      \* bound: records putRecords reports as failed

Status == {"NONE", "UNMATCHED", "MATCHED", "MISMATCHED", "SETTLED"}
Verdict == {"MATCHED", "MISMATCHED"}

(* The two sides of a block trade: the join condition both queries share. *)
SameBlock(t, u) == Sender[t] # Sender[u] /\ Block[t] = Block[u]
Agrees(t, u)    == SameBlock(t, u) /\ Terms[t] = Terms[u]
DisagreesAnyTerms(t, u) == SameBlock(t, u)   \* mutant: MISMATCH_SQL without the terms
Disagrees(t, u) == SameBlock(t, u) /\ Terms[t] # Terms[u]

ASSUME TradeAssumption ==
  /\ NoTrade \notin Trade
  /\ MaxCopies \in [Trade -> Nat]
  /\ MaxBlocks \in Nat /\ MaxDrop \in Nat

(* A block trade has two sides, the investment manager's and the broker's, *)
(* and a side has one uuid.                                                *)
ASSUME TwoSides ==
  \A t, u, v \in Trade : SameBlock(t, u) /\ SameBlock(t, v) => u = v

VARIABLES
  row,      \* row[t]: the status of t in trade_message, "NONE" without a row
  job,      \* job[w][s]: the local state of thread <<w, s>> for its record
  pub,      \* pub[t][v]: how often t was put on the egress stream with status v
  drops     \* records putRecords dropped so far

jobVars == <<job, drops>>
vars == <<shardVars, workerVars, row, job, pub, drops>>

Step == {"check", "match", "mismatch", "mark", "persist", "push"}
Job == [pc : Step, found : Trade \cup {NoTrade}, verdict : Verdict \cup {"UNMATCHED"}]
NewJob == [pc |-> "check", found |-> NoTrade, verdict |-> "UNMATCHED"]

TypeOK ==
  /\ ShardTypeOK(Trade)
  /\ row \in [Trade -> Status]
  /\ job \in [Worker -> [Shard -> Job]]
  /\ pub \in [Trade -> [Status -> Nat]]
  /\ drops \in Nat

Init ==
  /\ ShardInit
  /\ row = [t \in Trade |-> "NONE"]
  /\ job = [w \in Worker |-> [s \in Shard |-> NewJob]]
  /\ pub = [t \in Trade |-> [v \in Status |-> 0]]
  /\ drops = 0

----------------------------------------------------------------------------
(* The statements of processRecords for one record. *)

At(w, s, pc) == Working(w, s) /\ job[w][s].pc = pc

Goto(w, s, next) == job' = [job EXCEPT ![w][s] = next]

(* The record is done with: the loop takes the next one. *)
Done(w, s) == NextRecord(w, s) /\ Goto(w, s, NewJob)

(* Ingestion, or the reconciliation application for it, puts a trade on the *)
(* stream, perhaps not for the first time.                                  *)
ReceiveTrade(t, s) ==
  /\ Copies(t) < MaxCopies[t]
  /\ Cardinality({Block[u] : u \in {v \in Trade : v = t \/ Copies(v) > 0}}) <= MaxBlocks
  /\ Put(s, t)
  /\ UNCHANGED <<row, pub, jobVars>>

(* Mutant: a record delivered again is matched and stored again. *)
CheckNothing(w, s) ==
  /\ At(w, s, "check")
  /\ Goto(w, s, [NewJob EXCEPT !.pc = "match"])
  /\ StayAtRecord
  /\ UNCHANGED <<row, pub, drops>>

(* 1. A trade that has a row is skipped. *)
CheckExisting(w, s) ==
  /\ At(w, s, "check")
  /\ IF row[Current(w, s)] # "NONE"
       THEN Done(w, s)
       ELSE /\ Goto(w, s, [NewJob EXCEPT !.pc = "match"])
            /\ StayAtRecord
  /\ UNCHANGED <<row, pub, drops>>

Unmatched(u) == row[u] = "UNMATCHED"

(* Mutant: the counterpart is found and never updated. *)
SelectUnmarked(w, s) ==
  /\ At(w, s, "match")
  /\ LET hits == {u \in Trade : Agrees(Current(w, s), u) /\ Unmatched(u)}
     IN  \/ /\ hits = {}
            /\ Goto(w, s, [job[w][s] EXCEPT !.pc = "mismatch"])
         \/ \E u \in hits :
              Goto(w, s, [pc |-> "persist", found |-> u, verdict |-> "MATCHED"])
  /\ StayAtRecord
  /\ UNCHANGED <<row, pub, drops>>

(* 2. MATCH_SQL: an unmatched trade of the other side with the same terms. *)
SelectMatch(w, s) ==
  /\ At(w, s, "match")
  /\ LET hits == {u \in Trade : Agrees(Current(w, s), u) /\ Unmatched(u)}
     IN  \/ /\ hits = {}
            /\ Goto(w, s, [job[w][s] EXCEPT !.pc = "mismatch"])
         \/ \E u \in hits :
              Goto(w, s, [pc |-> "mark", found |-> u, verdict |-> "MATCHED"])
  /\ StayAtRecord
  /\ UNCHANGED <<row, pub, drops>>

(* Mutant: a trade with no counterpart is not stored. *)
ForgetUnmatched(w, s) ==
  /\ At(w, s, "mismatch")
  /\ LET hits == {u \in Trade : Disagrees(Current(w, s), u) /\ Unmatched(u)}
     IN  \/ hits = {} /\ Done(w, s)
         \/ \E u \in hits :
              /\ Goto(w, s, [pc |-> "mark", found |-> u, verdict |-> "MISMATCHED"])
              /\ StayAtRecord
  /\ UNCHANGED <<row, pub, drops>>

(* 3. MISMATCH_SQL: an unmatched trade of the other side with other terms. *)
SelectMismatch(w, s) ==
  /\ At(w, s, "mismatch")
  /\ LET hits == {u \in Trade : Disagrees(Current(w, s), u) /\ Unmatched(u)}
     IN  \/ /\ hits = {}
            /\ Goto(w, s, [job[w][s] EXCEPT !.pc = "persist"])
         \/ \E u \in hits :
              Goto(w, s, [pc |-> "mark", found |-> u, verdict |-> "MISMATCHED"])
  /\ StayAtRecord
  /\ UNCHANGED <<row, pub, drops>>

(* UPDATE_MATCHED_TRADE / UPDATE_MISMATCHED_TRADE: "where id = :id" alone, *)
(* whatever the status of that row is by now.                              *)
MarkCounterpart(w, s) ==
  /\ At(w, s, "mark")
  /\ row' = [row EXCEPT ![job[w][s].found] = job[w][s].verdict]
  /\ Goto(w, s, [job[w][s] EXCEPT !.pc = "persist"])
  /\ StayAtRecord
  /\ UNCHANGED <<pub, drops>>

(* Mutant: no unique uuid, save() writes over the row there is. *)
PersistAgain(w, s) ==
  /\ At(w, s, "persist")
  /\ row' = [row EXCEPT ![Current(w, s)] = job[w][s].verdict]
  /\ IF job[w][s].found = NoTrade
       THEN Done(w, s)
       ELSE Goto(w, s, [job[w][s] EXCEPT !.pc = "push"]) /\ StayAtRecord
  /\ UNCHANGED <<pub, drops>>

(* Mutant: the later side keeps the status UNMATCHED parseMessage gave it. *)
PersistUnmatched(w, s) ==
  /\ At(w, s, "persist")
  /\ row[Current(w, s)] = "NONE"
  /\ row' = [row EXCEPT ![Current(w, s)] = "UNMATCHED"]
  /\ IF job[w][s].found = NoTrade
       THEN Done(w, s)
       ELSE Goto(w, s, [job[w][s] EXCEPT !.pc = "push"]) /\ StayAtRecord
  /\ UNCHANGED <<pub, drops>>

(* persistSingleTrade: insert the trade with the verdict.  The unique uuid *)
(* makes a second insert a TradePersistException, a hard exit.             *)
PersistTrade(w, s) ==
  /\ At(w, s, "persist")
  /\ LET t == Current(w, s)
     IN IF row[t] # "NONE"
          THEN Halt(w) /\ UNCHANGED <<row, job>>
          ELSE /\ row' = [row EXCEPT ![t] = job[w][s].verdict]
               /\ IF job[w][s].found = NoTrade
                    THEN Done(w, s)
                    ELSE /\ Goto(w, s, [job[w][s] EXCEPT !.pc = "push"])
                         /\ StayAtRecord
  /\ UNCHANGED <<pub, drops>>

Bump(counts, status) == [counts EXCEPT ![status] = @ + 1]

(* Mutants: only the new trade is sent; the pair is sent before the        *)
(* counterpart is marked for good.                                         *)
PushOneSide(w, s) ==
  /\ At(w, s, "push")
  /\ LET t == Current(w, s)
     IN pub' = [pub EXCEPT ![t] = Bump(@, job[w][s].verdict)]
  /\ Done(w, s)
  /\ UNCHANGED <<row, drops>>

PushThenMark(w, s) ==
  /\ At(w, s, "push")
  /\ LET t == Current(w, s)
         u == job[w][s].found
     IN pub' = [pub EXCEPT ![t] = Bump(@, job[w][s].verdict), ![u] = Bump(@, row[u])]
  /\ Goto(w, s, [job[w][s] EXCEPT !.pc = "mark"])
  /\ StayAtRecord
  /\ UNCHANGED <<row, drops>>

(* getTradeByID and produceTradeMessageToKinesis: the trade with its       *)
(* verdict, the counterpart as its row is read (read and push are one step: *)
(* the row cannot change in between, as u is not settled before it is sent *)
(* and every thread that found u has this verdict).  The records           *)
(* putRecords reports as failed are lost: the result is only logged.       *)
PushPair(w, s) ==
  /\ At(w, s, "push")
  /\ LET t == Current(w, s)
         u == job[w][s].found
     IN \E lost \in SUBSET {t, u} :
          /\ drops' = drops + Cardinality(lost)
          /\ drops' <= MaxDrop
          /\ pub' = [x \in Trade |->
                       IF x = t /\ x \notin lost THEN Bump(pub[x], job[w][s].verdict)
                       ELSE IF x = u /\ x \notin lost THEN Bump(pub[x], row[x])
                       ELSE pub[x]]
  /\ Done(w, s)
  /\ UNCHANGED row

(* 5. The block is finished: checkpoint, or halt. *)
Checkpoint(w, s) == CheckpointBatch(w, s) /\ UNCHANGED <<row, pub, jobVars>>

Take(w, s)  == TakeLease(w, s)   /\ UNCHANGED <<row, pub, jobVars>>
Steal(w, s) == StealLease(w, s)  /\ UNCHANGED <<row, pub, jobVars>>
Fetch(w, s) == FetchBatch(w, s)  /\ UNCHANGED <<row, pub, jobVars>>
Crash(w)    == CrashWorker(w)    /\ UNCHANGED <<row, pub, jobVars>>

Restart(w) ==
  /\ RestartWorker(w)
  /\ job' = [job EXCEPT ![w] = [s \in Shard |-> NewJob]]
  /\ UNCHANGED <<row, pub, drops>>

ProcessRecord(w, s) ==
  \/ CheckExisting(w, s)
  \/ SelectMatch(w, s)
  \/ SelectMismatch(w, s)
  \/ MarkCounterpart(w, s)
  \/ PersistTrade(w, s)
  \/ PushPair(w, s)

WorkerStep(w, s) ==
  \/ Take(w, s)
  \/ Steal(w, s)
  \/ Fetch(w, s)
  \/ ProcessRecord(w, s)
  \/ Checkpoint(w, s)

Next ==
  \/ \E t \in Trade, s \in Shard : ReceiveTrade(t, s)
  \/ \E w \in Worker, s \in Shard : WorkerStep(w, s)
  \/ \E w \in Worker :
       \/ Crash(w)
       \/ Restart(w)

Spec == Init /\ [][Next]_vars

(* Threads that can run do run, a free lease is taken, a dead task is      *)
(* replaced.  Nothing forces a record to arrive, a lease to be stolen or a *)
(* worker to crash.                                                        *)
FairSpec ==
  /\ Spec
  /\ \A w \in Worker, s \in Shard :
       /\ WF_vars(ProcessRecord(w, s))
       /\ WF_vars(Fetch(w, s))
       /\ WF_vars(Checkpoint(w, s))
  /\ \A s \in Shard : WF_vars(\E w \in Worker : Take(w, s))
  /\ \A w \in Worker : WF_vars(Restart(w))

----------------------------------------------------------------------------
(* Properties. *)

(* A trade is published with a verdict at most once, however often its      *)
(* records are delivered, whichever side is the later one, and whatever     *)
(* crashes or loses its lease in between: the insert of the later side is   *)
(* the only step that leads to a push, and the unique uuid lets it happen   *)
(* once per pair.                                                           *)
NoDoublePublish ==
  \A t \in Trade : pub[t]["MATCHED"] + pub[t]["MISMATCHED"] <= 1

(* Egress never holds a verdict the database does not: once a trade was    *)
(* published with a verdict, both sides have a row with that verdict, or a *)
(* settled one, although the three statements that lead there are not one  *)
(* transaction and a stale thread may write the counterpart again.         *)
PublishedIsDurable ==
  \A t \in Trade, v \in Verdict : pub[t][v] > 0 =>
     \A u \in Trade : u = t \/ SameBlock(t, u) => row[u] \in {v, "SETTLED"}

(* The checkpoint never passes a record that is not stored: a crash, a     *)
(* moved lease or a failed insert loses no trade.                          *)
CheckpointedIsStored ==
  \A s \in Shard : \A i \in 1..ckpt[s] : row[log[s][i]] # "NONE"

(* A stored verdict is the right one: the other side was received, and its *)
(* terms are the same exactly when the verdict is MATCHED.                 *)
VerdictIsJustified ==
  \A t \in Trade : row[t] \in Verdict =>
     \E u \in Trade : /\ SameBlock(t, u) /\ Copies(u) > 0
                      /\ row[t] = "MATCHED" <=> Terms[t] = Terms[u]

(* Somebody is between marking the stored trade t and storing u. *)
Pairing(u, t) ==
  \E w \in Worker, s \in Shard :
     /\ At(w, s, "persist") \/ At(w, s, "push")
     /\ Current(w, s) = u /\ job[w][s].found = t

(* No worker crashed, no lease moved and no record came twice so far. *)
Undisturbed == crashes = 0 /\ steals = 0 /\ drops = 0 /\ \A t \in Trade : Copies(t) <= 1

(* As long as nothing goes wrong, the two sides of a block are given the   *)
(* same verdict and both are sent: a verdict without its twin, or unsent,  *)
(* is always still in progress.                                            *)
VerdictsComeInPairs ==
  Undisturbed => \A t, u \in Trade : SameBlock(t, u) /\ row[t] \in Verdict =>
     \/ Pairing(u, t)
     \/ /\ row[u] = row[t]
        /\ Pairing(t, u) \/ (pub[t][row[t]] = 1 /\ pub[u][row[t]] = 1)

(* No pair of counterparts stays unmatched in the database. *)
NoMissedMatch ==
  \A t, u \in Trade :
     SameBlock(t, u) => ~(row[t] = "UNMATCHED" /\ row[u] = "UNMATCHED")

(* The stream is drained in the end and stays so, whatever crashed: the    *)
(* hard exits of the processor never become a restart loop.  (Drained, and *)
(* with CheckpointedIsStored, every trade on the stream is stored.)        *)
EventuallyDrained == <>[](Drained /\ Threads = {})
=============================================================================
