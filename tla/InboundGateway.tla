--------------------------- MODULE InboundGateway ---------------------------
(***************************************************************************)
(* The trade inbound gateway: jms/Receiver.java (trades) and               *)
(* jms/SettlementReceiver.java (settlements that come back), which move    *)
(* messages from the queues of the broker to a safe store and from there   *)
(* to Kinesis, and utils/RegionStateManager.java, which starts and stops   *)
(* both of them with the routing control of the region.                    *)
(*                                                                         *)
(* The broker is external (ActiveMQ, INDIVIDUAL_ACKNOWLEDGE): a message a  *)
(* task has received and not acknowledged is delivered again only when the *)
(* session of the task closes.                                             *)
(***************************************************************************)
EXTENDS Naturals

CONSTANTS
  Message,     \* the messages of all queues, by correlation id
  NoMessage,   \* what an idle thread works on
  Unreadable,  \* those the settlement receiver cannot parse
  Queue,       \* the queues, each with one listener thread per task
  QueueOf,     \* QueueOf[m]: the queue m is sent to
  Guarded,     \* the queues whose receiver stops all listeners when it
               \* cannot save: DynamoDBConnectionException is only thrown
               \* by RawMessage.save
  Task,        \* the ECS tasks of the gateway
  MaxFail,     \* bound: failed calls in a behaviour
  MaxCrash,    \* bound: crashed tasks in a behaviour
  MaxSwitch    \* bound: changes of the routing control in a behaviour

Place == {"none", "queued", "acked"}

ASSUME GatewayAssumption ==
  /\ NoMessage \notin Message /\ Unreadable \subseteq Message
  /\ QueueOf \in [Message -> Queue] /\ Guarded \subseteq Queue
  /\ Task \cap Place = {}
  /\ MaxFail \in Nat /\ MaxCrash \in Nat /\ MaxSwitch \in Nat

VARIABLES
  place,     \* place[m]: not sent, queued, acknowledged, or held by a task
  raw,       \* the messages in the safe store
  pushed,    \* the messages on the stream of ingestion
  receipt,   \* receipt[g][q]: what the thread of queue q of task g does
  mode,      \* mode[g]: the listeners of task g, see below
  control,   \* the routing control of the region is ON
  fails, crashes, switches

receiptVars == <<place, raw, pushed, receipt>>
counters    == <<fails, crashes, switches>>
vars        == <<receiptVars, mode, control, counters>>

(* activeState is TRUE in the modes "listening" and "stopped"; in the      *)
(* latter a failed save stopped the listeners, which activeState does not  *)
(* tell.  "closing": the region state manager waits for the shutdown of    *)
(* the containers.  "down": the task does not run.                         *)
Mode    == {"down", "passive", "listening", "stopped", "closing"}
Idle    == [pc |-> "idle", msg |-> NoMessage]
Receipt == [pc : {"idle", "save", "ack", "push"}, msg : Message \cup {NoMessage}]

TypeOK ==
  /\ place \in [Message -> Place \cup Task]
  /\ raw \subseteq Message /\ pushed \subseteq Message
  /\ receipt \in [Task -> [Queue -> Receipt]]
  /\ mode \in [Task -> Mode]
  /\ control \in BOOLEAN
  /\ fails \in Nat /\ crashes \in Nat /\ switches \in Nat

Init ==
  /\ place = [m \in Message |-> "none"]
  /\ raw = {} /\ pushed = {}
  /\ receipt = [g \in Task |-> [q \in Queue |-> Idle]]
  /\ mode = [g \in Task |-> "passive"]
  /\ control = FALSE
  /\ fails = 0 /\ crashes = 0 /\ switches = 0

----------------------------------------------------------------------------
(* The broker and the routing control. *)

Arrive(m) ==
  /\ place[m] = "none"
  /\ place' = [place EXCEPT ![m] = "queued"]
  /\ UNCHANGED <<raw, pushed, receipt, mode, control, counters>>

Switch ==
  /\ switches < MaxSwitch
  /\ switches' = switches + 1
  /\ control' = ~control
  /\ UNCHANGED <<receiptVars, mode, fails, crashes>>

(* The session of task g for the messages in S closes: what it holds goes  *)
(* back to the queue.                                                      *)
Return(g, S) ==
  place' = [m \in Message |-> IF m \in S /\ place[m] = g THEN "queued" ELSE place[m]]

----------------------------------------------------------------------------
(* The receivers. *)

Fail == fails < MaxFail /\ fails' = fails + 1

At(g, q, pc) == mode[g] # "down" /\ receipt[g][q].pc = pc
Msg(g, q)    == receipt[g][q].msg

Goto(g, q, pc) == receipt' = [receipt EXCEPT ![g][q].pc = pc]
Finish(g, q)   == receipt' = [receipt EXCEPT ![g][q] = Idle]

StayListening == UNCHANGED <<mode, control, crashes, switches>>

(* A message that does not parse is logged, and stays unacknowledged. *)
Receive(g, q) ==
  /\ mode[g] = "listening" /\ receipt[g][q] = Idle
  /\ \E m \in Message :
       /\ QueueOf[m] = q /\ place[m] = "queued"
       /\ place' = [place EXCEPT ![m] = g]
       /\ IF m \in Unreadable
            THEN UNCHANGED receipt
            ELSE receipt' = [receipt EXCEPT ![g][q] = [pc |-> "save", msg |-> m]]
  /\ UNCHANGED <<raw, pushed, fails>> /\ StayListening

AckFirst(g, q) ==   \* mutant: the message is acknowledged, and then saved
  /\ At(g, q, "save")
  /\ IF place[Msg(g, q)] = g
       THEN place' = [place EXCEPT ![Msg(g, q)] = "acked"] /\ UNCHANGED <<raw, receipt>>
       ELSE raw' = raw \cup {Msg(g, q)} /\ Goto(g, q, "ack") /\ UNCHANGED place
  /\ UNCHANGED <<pushed, fails>> /\ StayListening

(* The write is conditional: an item that exists already is no error. *)
Save(g, q) ==
  /\ At(g, q, "save")
  /\ raw' = raw \cup {Msg(g, q)}
  /\ Goto(g, q, "ack")
  /\ UNCHANGED <<place, pushed, fails>> /\ StayListening

(* The write fails, perhaps after it was applied.  The message stays       *)
(* unacknowledged, and the receiver of a guarded queue stops all listeners *)
(* of the task.                                                            *)
FailSave(g, q) ==
  /\ At(g, q, "save") /\ Fail
  /\ raw' \in {raw, raw \cup {Msg(g, q)}}
  /\ Finish(g, q)
  /\ mode' = IF q \in Guarded /\ mode[g] = "listening"
               THEN [mode EXCEPT ![g] = "stopped"] ELSE mode
  /\ UNCHANGED <<place, pushed, control, crashes, switches>>

Ack(g, q) ==
  /\ At(g, q, "ack")
  /\ place' = [place EXCEPT ![Msg(g, q)] = "acked"]
  /\ Goto(g, q, "push")
  /\ UNCHANGED <<raw, pushed, fails>> /\ StayListening

(* The broker does not get the acknowledgement.  Either the call throws    *)
(* and the receiver stops there, or it is lost after the call.             *)
FailAck(g, q) ==
  /\ At(g, q, "ack") /\ Fail
  /\ Finish(g, q) \/ Goto(g, q, "push")
  /\ UNCHANGED <<place, raw, pushed>> /\ StayListening

Push(g, q) ==
  /\ At(g, q, "push")
  /\ pushed' = pushed \cup {Msg(g, q)}
  /\ Finish(g, q)
  /\ UNCHANGED <<place, raw, fails>> /\ StayListening

(* putRecord fails, perhaps after it was applied: logged, not repeated. *)
FailPush(g, q) ==
  /\ At(g, q, "push") /\ Fail
  /\ pushed' \in {pushed, pushed \cup {Msg(g, q)}}
  /\ Finish(g, q)
  /\ UNCHANGED <<place, raw>> /\ StayListening

----------------------------------------------------------------------------
(* checkRegionState, once a second. *)

PollOnly(g) ==   \* mutant: the listeners are initialized and not started
  /\ mode[g] = "passive" /\ control
  /\ UNCHANGED vars

PollOn(g) ==
  /\ mode[g] = "passive" /\ control
  /\ mode' = [mode EXCEPT ![g] = "listening"]
  /\ UNCHANGED <<receiptVars, control, counters>>

PollOffListening(g) ==   \* mutant: stopped listeners are taken for shut down
  /\ mode[g] = "listening"
  /\ (~control /\ UNCHANGED fails) \/ Fail
  /\ mode' = [mode EXCEPT ![g] = "closing"]
  /\ UNCHANGED <<receiptVars, control, crashes, switches>>

(* The control is OFF, or none of the cluster endpoints answers. *)
PollOff(g) ==
  /\ mode[g] \in {"listening", "stopped"}
  /\ (~control /\ UNCHANGED fails) \/ Fail
  /\ mode' = [mode EXCEPT ![g] = "closing"]
  /\ UNCHANGED <<receiptVars, control, crashes, switches>>

(* The container of queue q shuts down once its thread is done, and closes *)
(* its session.                                                            *)
CloseSession(g, q) ==
  LET S == {m \in Message : QueueOf[m] = q}
  IN /\ mode[g] = "closing" /\ receipt[g][q] = Idle
     /\ \E m \in S : place[m] = g
     /\ Return(g, S)
     /\ UNCHANGED <<raw, pushed, receipt, mode, control, counters>>

ClosedEarly(g) ==   \* mutant: nobody waits for the threads
  /\ mode[g] = "closing"
  /\ mode' = [mode EXCEPT ![g] = "passive"]
  /\ UNCHANGED <<receiptVars, control, counters>>

Closed(g) ==
  /\ mode[g] = "closing"
  /\ receipt[g] = [q \in Queue |-> Idle]
  /\ \A m \in Message : place[m] # g
  /\ mode' = [mode EXCEPT ![g] = "passive"]
  /\ UNCHANGED <<receiptVars, control, counters>>

Crash(g) ==
  /\ mode[g] # "down" /\ crashes < MaxCrash
  /\ crashes' = crashes + 1
  /\ mode' = [mode EXCEPT ![g] = "down"]
  /\ receipt' = [receipt EXCEPT ![g] = [q \in Queue |-> Idle]]
  /\ Return(g, Message)
  /\ UNCHANGED <<raw, pushed, control, fails, switches>>

Restart(g) ==
  /\ mode[g] = "down"
  /\ mode' = [mode EXCEPT ![g] = "passive"]
  /\ UNCHANGED <<receiptVars, control, counters>>

ReceiveMessage(g, q) ==
  \/ Receive(g, q)
  \/ Save(g, q)
  \/ FailSave(g, q)
  \/ Ack(g, q)
  \/ FailAck(g, q)
  \/ Push(g, q)
  \/ FailPush(g, q)

CheckRegionState(g) ==
  \/ PollOn(g)
  \/ PollOff(g)
  \/ \E q \in Queue : CloseSession(g, q)
  \/ Closed(g)

Next ==
  \/ \E m \in Message : Arrive(m)
  \/ Switch
  \/ \E g \in Task :
       \/ \E q \in Queue : ReceiveMessage(g, q)
       \/ CheckRegionState(g)
       \/ Crash(g)
       \/ Restart(g)

Spec == Init /\ [][Next]_vars

(* The threads and the region state manager of a running task do run, and  *)
(* a dead task is replaced; no message has to arrive and nothing has to    *)
(* fail.                                                                   *)
FairSpec ==
  /\ Spec
  /\ \A g \in Task :
       /\ \A q \in Queue : WF_vars(ReceiveMessage(g, q))
       /\ WF_vars(CheckRegionState(g))
       /\ WF_vars(Restart(g))

----------------------------------------------------------------------------
(* Properties. *)

(* The gateway acknowledges a message, and pushes it, only after it is in  *)
(* the safe store, whatever fails, crashes or is delivered again: what the *)
(* swallowed Kinesis failure loses can be replayed from there.             *)
Stage == INSTANCE StoreAndForward WITH
           kept <- raw, sent <- pushed,
           taken <- {m \in Message : place[m] = "acked"}
ImplementsStage == Stage!Spec

(* What task g, or the broker for it, still has to finish. *)
Busy(g) ==
  \/ mode[g] \notin {"down", "passive"}
  \/ \E q \in Queue : receipt[g][q] # Idle
  \/ \E m \in Message : place[m] = g

(* A passive task is quiet: when the region state manager is done with the *)
(* shutdown, no thread of the task is inside a receiver and no message is  *)
(* held back.  The rotation switches the other region on trusting this.    *)
PassiveIsQuiet == \A g \in Task : mode[g] \in {"down", "passive"} => ~Busy(g)

(* When the routing control stays off, every task becomes quiet for good,  *)
(* also one whose listeners a failed save has stopped.                     *)
TurnsQuiet == <>[]~control => <>[](\A g \in Task : ~Busy(g))

(* Only three things keep a readable message from the safe store: the      *)
(* control is off; a failed save stopped the listeners of a task, which    *)
(* the region state manager takes for listening; or a receiver failed and  *)
(* left it unacknowledged in a session that stays open.                    *)
LeftBehind(m) ==
  \E g \in Task : place[m] = g /\ \A q \in Queue : Msg(g, q) # m
StoredInTheEnd ==
  \A m \in Message \ Unreadable :
     place[m] = "queued" ~> \/ m \in raw
                            \/ ~control
                            \/ \E g \in Task : mode[g] = "stopped"
                            \/ LeftBehind(m)
=============================================================================
