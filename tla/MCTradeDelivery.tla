-------------------------- MODULE MCTradeDelivery --------------------------
(* Instances of TradeDelivery for TLC: the verdict of a trade, that it is  *)
(* settled, and a NACK, of which two are put on the stream.                *)
EXTENDS TradeDeliveryInv

CONSTANTS t1, n1, w1, w2, g1, g2

MCCopies == [r \in Record |-> IF r.status = "MISMATCHED" THEN 0 ELSE 1]

(* One crash, moved lease or failed call per behaviour. *)
OneFault == crashes + steals + fails <= 1

(* Before that, the first task has all leases: the tasks are alike. *)
FirstTask ==
  crashes + steals + fails = 0 =>
    /\ \A s \in Shard : owner[s] # w2
    /\ \A z \in ResponseShard : rowner[z] # g2
    /\ \A z \in SettlementShard : sowner[z] # g2

(* The gateway starts when egress is done, with its tasks up and its leases *)
(* held.  It only reads streams that are appended to, and may fetch any     *)
(* part of them: it can do nothing earlier that it cannot do then.          *)
Staged ==
  \/ \A z \in ResponseShard : rowner[z] = NoWorker
       /\ \A x \in SettlementShard : sowner[x] = NoWorker
  \/ /\ Drained /\ Threads = {}
     /\ \A s \in Shard : owner[s] # NoWorker
     /\ \A w \in Worker : up[w]
=============================================================================
