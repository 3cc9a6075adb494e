--------------------------- MODULE TradeDelivery ---------------------------
(***************************************************************************)
(* The way out of trade matching: trade egress, the two streams it feeds,  *)
(* and the trade outbound gateway, whose tasks run one KCL scheduler for   *)
(* the answers and one for the settlements in the same JVM and hand both   *)
(* to the brokers.                                                         *)
(***************************************************************************)
EXTENDS TradeEgress

CONSTANT GatewayTask

(* Crashes, moved leases and failed calls are counted for all of them.     *)
VARIABLES
  rckpt, rowner, rbatch, ritems, rtodo,   \* the gateway's side of responses
  answers,                                \* the queue of the clients
  sckpt, sowner, sbatch, sitems, stodo,   \* its side of settlements
  sent,                                   \* the settlement queue
  gup                                     \* the tasks of the gateway

egressSide == <<log, ckpt, owner, batch, up, items, job>>
answerSide == <<rckpt, rowner, rbatch, ritems, rtodo, answers>>
settlementSide == <<sckpt, sowner, sbatch, sitems, stodo, sent>>
deliveryVars == <<vars, answerSide, settlementSide, gup>>

ASSUME DeliveryAssumption == EgressAssumption

SameId(m, x) == x.id = m.id
Never(m, x) == FALSE

(* The outbound tables: an answer replaces one for the same trade, a        *)
(* settlement that is there stays.                                          *)
Answers == INSTANCE OutboundGateway
  WITH Message <- Record, Replaces <- SameId,
       Shard <- ResponseShard, Worker <- GatewayTask,
       log <- responses, ckpt <- rckpt, owner <- rowner, batch <- rbatch,
       up <- gup, items <- ritems, todo <- rtodo, queue <- answers

Settlements == INSTANCE OutboundGateway
  WITH Message <- Settlement, Replaces <- Never,
       Shard <- SettlementShard, Worker <- GatewayTask,
       log <- settlements, ckpt <- sckpt, owner <- sowner, batch <- sbatch,
       up <- gup, items <- sitems, todo <- stodo, queue <- sent

DeliveryTypeOK == TypeOK /\ Answers!TypeOK /\ Settlements!TypeOK

DeliveryInit ==
  Init /\ Answers!Init /\ Settlements!Init

OfEgress(A) == A /\ UNCHANGED <<answerSide, settlementSide, gup>>
OfAnswers(A) == A /\ UNCHANGED <<lost, egressSide, settlements, settlementSide>>
OfSettlements(A) == A /\ UNCHANGED <<lost, egressSide, responses, answerSide>>

RecordArrives == OfEgress(\E r \in Record, s \in Shard : ReceiveRecord(r, s))
EgressStep == OfEgress(\E w \in Worker, s \in Shard : WorkerStep(w, s))
AnswerStep ==
  OfAnswers(\E g \in GatewayTask, z \in ResponseShard : Answers!WorkerStep(g, z))
SettlementStep ==
  OfSettlements(\E g \in GatewayTask, z \in SettlementShard : Settlements!WorkerStep(g, z))

CrashEgress(w)   == OfEgress(Crash(w))
RestartEgress(w) == OfEgress(Restart(w))

(* A crash, a halt and a restart are of the JVM, and so of both schedulers. *)
CrashGateway(g) == OfAnswers(Answers!Crash(g))
RestartGateway(g) ==
  Answers!Restart(g) /\ Settlements!Restart(g) /\ UNCHANGED <<lost, egressSide>>

DeliveryNext ==
  \/ RecordArrives
  \/ EgressStep
  \/ AnswerStep
  \/ SettlementStep
  \/ \E w \in Worker : CrashEgress(w) \/ RestartEgress(w)
  \/ \E g \in GatewayTask : CrashGateway(g) \/ RestartGateway(g)

DeliverySpec == DeliveryInit /\ [][DeliveryNext]_deliveryVars

(* The system does not stop while a thread has a batch, a lease is free, or *)
(* a task is dead: nothing more is assumed, and nothing of any one thread.  *)
GoOn ==
  \/ OfEgress(\E w \in Worker, s \in Shard :
                Take(w, s) \/ ThreadStep(w, s))
  \/ OfAnswers(\E g \in GatewayTask, z \in ResponseShard :
                Answers!Take(g, z) \/ Answers!ThreadStep(g, z))
  \/ OfSettlements(\E g \in GatewayTask, z \in SettlementShard :
                Settlements!Take(g, z) \/ Settlements!ThreadStep(g, z))
  \/ \E w \in Worker : RestartEgress(w)
  \/ \E g \in GatewayTask : RestartGateway(g)

DeliveryFairSpec == DeliverySpec /\ WF_deliveryVars(GoOn)
----------------------------------------------------------------------------
(* Properties. *)

Answered == Elements(answers)
Ordered  == Elements(sent)
Delivered(r) ==
  /\ r \in Answered \cup lost
  /\ r.status = "MATCHED" => SettlementsOf(r) \subseteq Ordered \cup lost

(* What the checkpoints c of a stream have not passed. *)
Ahead(stream, c) ==
  UNION {{stream[z][i] : i \in (c[z] + 1)..Len(stream[z])} : z \in DOMAIN stream}

(* A record that egress is done with has its answer and its settlements in *)
(* the queues, or the gateway is going to deliver them, whatever fails,    *)
(* crashes or runs twice on the way: no checkpoint is ahead of the push or *)
(* the send behind it.                                                     *)
NothingIsLost ==
  \A s \in Shard : \A i \in 1..ckpt[s] :
    LET r == log[s][i]
    IN /\ r \in Answered \cup lost \cup Ahead(responses, rckpt)
       /\ r.status = "MATCHED" => SettlementsOf(r)
                                   \subseteq Ordered \cup lost \cup Ahead(settlements, sckpt)

(* Until a call fails, egress and the gateway have stored what they pass   *)
(* on, in spite of the list being written and pushed in separate loops.    *)
SentIsStored ==
  fails = 0 =>
    /\ Published(settlements) \subseteq items /\ Ordered \subseteq sitems
    /\ \A r \in Published(responses) : \E x \in items \cap Record : x.id = r.id
    /\ \A r \in Answered : \E x \in ritems : x.id = r.id

(* With everything delivered, the last answer a client got about a trade   *)
(* is the last record of some shard, however often answers are repeated by *)
(* crashes on the way, and so is the item of the outbound table if no call *)
(* failed.  It takes one shard for the answers: with more of them they     *)
(* reach the client in any order.                                          *)
Quiet == Drained /\ Answers!Drained /\ Settlements!Drained
AnswerIsRecent ==
  Quiet /\ steals = 0 /\ lost = {} /\ Cardinality(ResponseShard) = 1 =>
    \A t \in Trade : Latest(t) # {} =>
       /\ LastOf(answers, t) \subseteq Latest(t)
       /\ fails = 0 => LastOf(answers, t) \subseteq ritems

(* Every record on the stream of egress has its answer and its settlements *)
(* in the queues in the end: halts, repeated batches and items that are    *)
(* there already are no restart loop.                                      *)
EventuallyDelivered == []<>(\A s \in Shard : \A r \in Elements(log[s]) : Delivered(r))
=============================================================================
