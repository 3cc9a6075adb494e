-------------------------- MODULE TradeDeliveryInv --------------------------
(***************************************************************************)
(* The inductive invariant of TradeDelivery, by which TradeDelivery_proofs *)
(* proves its safety properties: what each thread of egress and of the     *)
(* gateway has in its lists, which records somebody still has to write or  *)
(* to send, and what stands last in each list, stream and queue.           *)
(***************************************************************************)
EXTENDS TradeDelivery

(* The settlements of a matched trade are on their stream, or were refused. *)
Settles(r) == r.status = "MATCHED" => SettlementsOf(r) \subseteq Published(settlements) \cup lost
Sent(r) == r \in Published(responses) \cup lost /\ Settles(r)

(* A batch lies within its shard, and a thread without one has no job.  A   *)
(* thread past the push of the settlements has left the loop, so that no    *)
(* trade joins those whose settlements it has pushed.  What a thread has    *)
(* passed is in one of its lists, or sent; only NACKs are put aside.        *)
ThreadOK(w, s) ==
  /\ batch[w][s].end <= Len(log[s]) /\ batch[w][s].pos <= batch[w][s].end + 1
  /\ Idle(w, s) => job[w][s] = NewJob
  /\ job[w][s].settled => /\ batch[w][s].pos > batch[w][s].end
                          /\ \A r \in Elements(job[w][s].trades) : Settles(r)
  /\ \A i \in 1..Len(log[s]) : i < batch[w][s].pos =>
       \/ log[s][i] \in Elements(job[w][s].trades) \cup Elements(job[w][s].nacks)
       \/ Sent(log[s][i])
  /\ \A r \in Elements(job[w][s].nacks) : r.status = "NACK"

(* A checkpoint lies within its shard, and what is before it was sent. *)
CheckpointOK == CheckpointedIsSent /\ \A s \in Shard : ckpt[s] <= Len(log[s])

EInv ==
  /\ TypeOK
  /\ \A w \in Worker, s \in Shard : ThreadOK(w, s)
  /\ CheckpointOK
  /\ MatchedIsSettled

----------------------------------------------------------------------------
(* Until a write fails: what was pushed, and what a thread has written of  *)
(* what it is going to push, has its item.                                 *)
HasItem(r) == \E x \in items \cap Record : x.id = r.id

ThreadWrites(w, s) ==
  LET j == job[w][s]
  IN  /\ \A r \in Elements(j.trades) : HasItem(r)
      /\ ~j.settled =>
           \A i \in 1..Len(ToSettle(w, s)) : i <= j.tried => ToSettle(w, s)[i] \in items
      /\ j.trades = <<>> =>
           \A i \in 1..Len(j.nacks) : i <= j.tried => HasItem(j.nacks[i])
      /\ batch[w][s].pos <= batch[w][s].end => j.tried = 0

PushedIsStored ==
  /\ Published(settlements) \subseteq items
  /\ \A r \in Published(responses) : HasItem(r)

WritesOK == fails = 0 => PushedIsStored /\ \A w \in Worker, s \in Shard : ThreadWrites(w, s)

(* Until a write fails, each trade behind a thread or a checkpoint has its *)
(* item; until a lease moves, a shard is in the hands of the worker that    *)
(* has its lease; and the item of a trade is the last record of a shard, or *)
(* the records about it that come after it there still wait for a thread.  *)
PassedHasItem ==
  \A s \in Shard : \A i \in 1..Len(log[s]) :
     /\ log[s][i].id \in Trade
     /\ i <= ckpt[s] \/ \E w \in Worker : i < batch[w][s].pos
     => HasItem(log[s][i])

OneHolder ==
  \A w \in Worker, s \in Shard :
     up[w] /\ ~Idle(w, s) => owner[s] = w /\ ckpt[s] < batch[w][s].pos

Waits(s, k) ==
  /\ ckpt[s] < k
  /\ \A w \in Worker : up[w] /\ ~Idle(w, s) => batch[w][s].pos <= k

LastOrWaits(x) ==
  \E s \in Shard : \E i \in 1..Len(log[s]) :
     /\ log[s][i] = x
     /\ \A k \in 1..Len(log[s]) : k > i /\ log[s][k].id = x.id => Waits(s, k)

RecentOK ==
  /\ fails = 0 => PassedHasItem
  /\ steals = 0 => OneHolder
  /\ fails = 0 /\ steals = 0 => \A x \in items \cap Record : x.id \in Trade => LastOrWaits(x)

----------------------------------------------------------------------------
(* What a gateway thread with batch b has passed of its shard is in its    *)
(* list or in the queue, and what the checkpoint n has passed in the queue. *)
ThreadPasses(shard, b, todo, queue) ==
  /\ b.end <= Len(shard) /\ b.pos <= b.end + 1
  /\ b.pos = 0 => todo = <<>>
  /\ \A i \in 1..Len(shard) : i < b.pos => shard[i] \in Elements(todo) \cup Elements(queue)

ShardPassed(shard, n, queue) ==
  n <= Len(shard) /\ \A i \in 1..n : shard[i] \in Elements(queue)

AnswersOK ==
  \A z \in ResponseShard :
     /\ ShardPassed(responses[z], rckpt[z], answers)
     /\ \A g \in GatewayTask : ThreadPasses(responses[z], rbatch[g][z], rtodo[g][z], answers)

SettlementsOK ==
  \A z \in SettlementShard :
     /\ ShardPassed(settlements[z], sckpt[z], sent)
     /\ \A g \in GatewayTask : ThreadPasses(settlements[z], sbatch[g][z], stodo[g][z], sent)

(* Until a write fails, what is sent or listed has its item. *)
HasAnswer(r) == \E x \in ritems : x.id = r.id

AnswersStored ==
  /\ \A r \in Elements(answers) : HasAnswer(r)
  /\ \A g \in GatewayTask, z \in ResponseShard : \A r \in Elements(rtodo[g][z]) : HasAnswer(r)

SettlementsStored ==
  /\ Elements(sent) \subseteq sitems
  /\ \A g \in GatewayTask, z \in SettlementShard : Elements(stodo[g][z]) \subseteq sitems

GatewayWritesOK == fails = 0 => AnswersStored /\ SettlementsStored

DeliveryInv ==
  DeliveryTypeOK /\ EInv /\ WritesOK /\ RecentOK /\ AnswersOK /\ SettlementsOK /\ GatewayWritesOK

----------------------------------------------------------------------------
(* Why the last answer is a recent one.  A record x of a shard is the last *)
(* about its trade or NACK before position n, or but for the positions W.  *)
LastBefore(shard, n, x) ==
  \E i \in 1..Len(shard) :
     /\ i < n /\ shard[i] = x
     /\ \A k \in 1..Len(shard) : i < k /\ k < n => shard[k].id # x.id

LastBut(shard, W, x) ==
  \E i \in 1..Len(shard) :
     /\ shard[i] = x
     /\ \A k \in 1..Len(shard) : i < k /\ shard[k].id = x.id => k \in W

(* A thread's list of trades ends with the last it passed about each.      *)
EndsRecent(q, shard, n) == \A t \in Trade : \A x \in LastOf(q, t) : LastBefore(shard, n, x)
ListsAreRecent ==
  \A w \in Worker, s \in Shard : EndsRecent(job[w][s].trades, log[s], batch[w][s].pos)

(* The records of s that are not checkpointed, and that a thread that has  *)
(* passed them has in its list: their answers are still to be pushed.      *)
Unsent(s) ==
  {k \in 1..Len(log[s]) :
     /\ ckpt[s] < k
     /\ \A w \in Worker : up[w] /\ ~Idle(w, s) /\ k < batch[w][s].pos =>
          log[s][k] \in Elements(job[w][s].trades)}

SentLast(x) == \E s \in Shard : LastBut(log[s], Unsent(s), x)
OneResponseShard == \A y, z \in ResponseShard : y = z

ResponsesAreRecent ==
  steals = 0 /\ lost = {} /\ OneResponseShard =>
    \A z \in ResponseShard, t \in Trade : \A x \in LastOf(responses[z], t) : SentLast(x)

EgressIsRecent == ListsAreRecent /\ ResponsesAreRecent

(* A list of the gateway is the end of what its thread has passed, and      *)
(* starts behind the checkpoint while no lease moves.                       *)
Start(b, t) == b.pos - Len(t)
EndOf(shard, b, t) ==
  /\ b.pos # 0 => Start(b, t) >= 1
  /\ \A i \in 1..Len(t) : t[i] = shard[Start(b, t) + i - 1]

ListsAreEnds ==
  \A g \in GatewayTask, z \in ResponseShard : EndOf(responses[z], rbatch[g][z], rtodo[g][z])

OneAnswerer ==
  \A g \in GatewayTask, z \in ResponseShard :
     gup[g] /\ rbatch[g][z].pos # 0 =>
       rowner[z] = g /\ rckpt[z] < Start(rbatch[g][z], rtodo[g][z])

(* The answers of z that wait for a thread to send them, or to write them. *)
Unanswered(z) ==
  {k \in 1..Len(responses[z]) :
     /\ rckpt[z] < k
     /\ \A g \in GatewayTask :
          gup[g] /\ rbatch[g][z].pos # 0 => Start(rbatch[g][z], rtodo[g][z]) <= k}
Unwritten(z) ==
  {k \in 1..Len(responses[z]) :
     /\ rckpt[z] < k
     /\ \A g \in GatewayTask : gup[g] /\ rbatch[g][z].pos # 0 => rbatch[g][z].pos <= k}

AnsweredLast(x) == \E z \in ResponseShard : LastBut(responses[z], Unanswered(z), x)
WrittenLast(x) == \E z \in ResponseShard : LastBut(responses[z], Unwritten(z), x)

GatewayIsRecent ==
  /\ ListsAreEnds
  /\ steals = 0 => OneAnswerer
  /\ steals = 0 => \A t \in Trade : \A x \in LastOf(answers, t) : AnsweredLast(x)
  /\ steals = 0 /\ fails = 0 => \A x \in ritems : WrittenLast(x)

RecentInv == DeliveryInv /\ EgressIsRecent /\ GatewayIsRecent
=============================================================================
