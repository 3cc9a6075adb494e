------------------------------ MODULE Draining ------------------------------
(***************************************************************************)
(* What the waits of a rotation (TYPE = App Rotation) see.  The messages of *)
(* an application go through the queues, streams and stores of a region,    *)
(* while the runbook looks at these places one after another: in the region *)
(* it leaves before it switches the services off, and in the region it      *)
(* enters after each reconciliation.  The controls and the database are the *)
(* subject of Rotation; with TYPE = DR none of these steps waits.           *)
(***************************************************************************)
EXTENDS Integers, Sequences, Regions

VARIABLES
  application, \* the application that is rotated
  half,        \* "leaving" the old region, or "entering" the new one
  point,       \* the step of this half of the runbook
  inflight,    \* the places of the region that hold messages: of a store, some
               \* that the other region has not
  listening,   \* whether the inbound gateway takes messages off its queues
  working,     \* whether the core matching service takes records off its streams
  looked,      \* how many places the looks have passed since they began, or
               \* since the last reconciliation
  turn,        \* reconciliations started, or tried
  replaying,   \* those that still run
  blind,       \* a look has passed a place that held something
  overtaken    \* a place was passed before the gateway or a reconciliation put
               \* something there

placeVars == <<inflight, blind, overtaken>>
stepVars == <<point, looked, turn>>
controlled == <<listening, working>>
drainVars == <<application, half, placeVars, stepVars, controlled, replaying>>

MqQueue == {"trades", "settlements"}

StreamPlace == {"ingress-trade", "core-trade", "egress-trade", "out-trade",
                "ingress-settlement", "core-settlement", "egress-settlement", "out-settlement"}

(* The loops over wait_for_stream, then those over wait_for_replication,    *)
(* then the one of wait_for_aurora_to_replicate.                            *)
LookOrderCoreFirst(a) ==   \* mutant: the settlement streams in the other order
  IF a = "trade-matching"
  THEN <<"ingress-trade", "core-trade", "egress-trade", "out-trade",
         "core-settlement", "ingress-settlement", "egress-settlement", "out-settlement",
         "in-trade-table", "ingress-trade-table", "egress-trade-table", "out-trade-table",
         "in-settlement-table", "ingress-settlement-table", "egress-settlement-table",
         "out-settlement-table", "aurora">>
  ELSE <<"core-settlement", "ingress-settlement", "egress-settlement", "out-settlement",
         "in-settlement-table", "ingress-settlement-table", "egress-settlement-table",
         "out-settlement-table", "aurora">>

LookOrder(a) ==
  IF a = "trade-matching"
  THEN <<"ingress-trade", "core-trade", "egress-trade", "out-trade",
         "ingress-settlement", "core-settlement", "egress-settlement", "out-settlement",
         "in-trade-table", "ingress-trade-table", "egress-trade-table", "out-trade-table",
         "in-settlement-table", "ingress-settlement-table", "egress-settlement-table",
         "out-settlement-table", "aurora">>
  ELSE <<"ingress-settlement", "core-settlement", "egress-settlement", "out-settlement",
         "in-settlement-table", "ingress-settlement-table", "egress-settlement-table",
         "out-settlement-table", "aurora">>

StreamLooks(a) == IF a = "trade-matching" THEN 8 ELSE 4

Looks(a, h) == IF h = "leaving" THEN Len(LookOrder(a)) ELSE StreamLooks(a)

Passed(a, n) == {LookOrder(a)[i] : i \in 1..n}

(* Where the service that takes a message off a place puts what follows     *)
(* from it: what it received in its store, the rest on the next streams.    *)
TradeFeeds(p) ==
  CASE p = "trades" -> {"in-trade-table", "ingress-trade"}
    [] p = "settlements" -> {"in-settlement-table", "ingress-settlement"}
    [] p = "ingress-trade" -> {"ingress-trade-table", "core-trade", "egress-trade"}
    [] p = "ingress-settlement" -> {"ingress-settlement-table", "core-settlement"}
    [] p \in {"core-trade", "core-settlement"} -> {"aurora", "egress-trade"}
    [] p = "egress-trade" -> {"egress-trade-table", "egress-settlement-table",
                              "out-trade", "out-settlement"}
    [] p = "out-trade" -> {"out-trade-table"}
    [] p = "out-settlement" -> {"out-settlement-table"}
    [] OTHER -> {}

SettlementFeeds(p) ==
  CASE p = "settlements" -> {"in-settlement-table", "ingress-settlement"}
    [] p = "ingress-settlement" -> {"ingress-settlement-table", "core-settlement",
                                    "egress-settlement"}
    [] p = "core-settlement" -> {"aurora", "egress-settlement"}
    [] p = "egress-settlement" -> {"egress-settlement-table", "out-settlement"}
    [] p = "out-settlement" -> {"out-settlement-table"}
    [] OTHER -> {}

Feeds(a, p) == IF a = "trade-matching" THEN TradeFeeds(p) ELSE SettlementFeeds(p)

(* The streams that the k-th reconciliation of the runbook puts records on. *)
Replays(a, k) ==
  IF a = "trade-matching"
  THEN CASE k = 1 -> {"ingress-trade"}
         [] k = 2 -> {"core-trade"}
         [] k = 3 -> {"egress-trade"}
         [] k = 4 -> {"out-trade", "out-settlement"}
         [] OTHER -> {}
  ELSE CASE k = 1 -> {"ingress-settlement"}
         [] k = 2 -> {"core-settlement"}
         [] k = 3 -> {"egress-settlement"}
         [] k = 4 -> {"out-settlement"}
         [] OTHER -> {}

QueueControlOn == IF half = "leaving" THEN point \in {"WaitForMQ", "Look", "QueueOff"}
                                      ELSE point = "done"
AppControlOn == half = "leaving" => point # "done"

DrainInit ==
  /\ application \in App
  /\ \/ half = "leaving" /\ point = "WaitForMQ" /\ listening = TRUE /\ working = TRUE
     \/ half = "entering" /\ point = "Reconcile" /\ listening = FALSE /\ working \in BOOLEAN
  /\ inflight = {} /\ blind = FALSE /\ overtaken = FALSE
  /\ looked = 0 /\ turn = 0 /\ replaying = {}

----------------------------------------------------------------------------
(* The runbook. *)

StepTo(from, to) ==
  /\ point = from /\ point' = to
  /\ UNCHANGED <<application, half, placeVars, looked, turn, controlled, replaying>>

(* The script asks CloudWatch for the size of one queue, trades, in         *)
(* milliseconds: there is no such datum, no data add up to zero, and the    *)
(* wait is over whatever the queues hold.                                   *)
WaitForMQ == StepTo("WaitForMQ", "Look")

(* The metric of one place adds up to zero: nothing has been there for a    *)
(* minute, or nobody took it, or the datum is late.                         *)
Look ==
  /\ point = "Look"
  /\ looked' = looked + 1
  /\ blind' = (blind \/ LookOrder(application)[looked'] \in inflight)
  /\ point' = IF looked' < Looks(application, half) THEN "Look"
           ELSE IF half = "leaving" THEN "QueueOff" ELSE "Reconcile"
  /\ UNCHANGED <<application, half, inflight, overtaken, turn, controlled, replaying>>

TurnQueueOff == StepTo("QueueOff", "AppOff")
TurnAppOff   == StepTo("AppOff", "done")
TurnQueueOn  == StepTo("QueueOn", "done")

(* A reconciliation task is started, or fails to start, which is logged. *)
StartTask ==
  /\ point = "Reconcile" /\ point' = "Sleep"
  /\ turn' = turn + 1
  /\ replaying' \in {replaying, replaying \cup {turn'}}
  /\ UNCHANGED <<application, half, placeVars, looked, controlled>>

(* The step named Wait For ... Reconciliation To Complete sleeps for 45     *)
(* seconds; a look at all streams follows it, after the fifth the opening.  *)
Sleep ==
  /\ point = "Sleep"
  /\ IF turn < 5
     THEN point' = "Look" /\ looked' = 0 /\ blind' = FALSE /\ overtaken' = FALSE
     ELSE point' = "QueueOn" /\ UNCHANGED <<looked, blind, overtaken>>
  /\ UNCHANGED <<application, half, inflight, turn, controlled, replaying>>

----------------------------------------------------------------------------
(* The services, the reconciliations and the clients. *)

RunbookSame == UNCHANGED <<application, half, stepVars>>

(* What arrives at places that have been passed overtakes the looks. *)
Overtakes(places) ==
  overtaken' = (overtaken \/ places \cap Passed(application, looked) # {})

(* Something is taken off a place, or all that is there, and goes on. *)
Take(p, out) ==
  /\ p \in inflight /\ out \subseteq Feeds(application, p)
  /\ \E stays \in {{}, {p}} : inflight' = (inflight \ {p}) \cup out \cup stays

Arrive(q) ==
  /\ q \in (IF application = "trade-matching" THEN MqQueue ELSE {"settlements"})
  /\ inflight' = inflight \cup {q}
  /\ RunbookSame /\ UNCHANGED <<blind, overtaken, controlled, replaying>>

Receive(q) ==
  /\ q \in MqQueue /\ listening
  /\ \E out \in SUBSET Feeds(application, q) : Take(q, out) /\ Overtakes(out)
  /\ RunbookSame /\ UNCHANGED <<blind, controlled, replaying>>

Process(s) ==
  /\ s \in StreamPlace
  /\ s \in {"core-trade", "core-settlement"} => working
  /\ \E out \in SUBSET Feeds(application, s) : Take(s, out)
  /\ RunbookSame /\ UNCHANGED <<blind, overtaken, controlled, replaying>>

Replicate(t) ==
  /\ t \notin MqQueue \cup StreamPlace /\ Take(t, {})
  /\ RunbookSame /\ UNCHANGED <<blind, overtaken, controlled, replaying>>

Replay(k) ==
  /\ k \in replaying
  /\ \E out \in SUBSET Replays(application, k) :
       inflight' = inflight \cup out /\ Overtakes(out)
  /\ RunbookSame /\ UNCHANGED <<blind, controlled, replaying>>

TaskOver(k) ==
  /\ k \in replaying /\ replaying' = replaying \ {k}
  /\ RunbookSame /\ UNCHANGED <<placeVars, controlled>>

(* The region state managers of the two services poll their controls. *)
PollQueueControl ==
  /\ listening' = QueueControlOn
  /\ RunbookSame /\ UNCHANGED <<placeVars, working, replaying>>

PollAppControl ==
  /\ working' = AppControlOn
  /\ RunbookSame /\ UNCHANGED <<placeVars, listening, replaying>>

DrainNext ==
  \/ WaitForMQ \/ Look \/ TurnQueueOff \/ TurnAppOff
  \/ StartTask \/ Sleep \/ TurnQueueOn
  \/ \E q \in MqQueue : Arrive(q) \/ Receive(q)
  \/ \E s \in StreamPlace : Process(s)
  \/ \E t \in inflight : Replicate(t)
  \/ \E k \in replaying : Replay(k) \/ TaskOver(k)
  \/ PollQueueControl \/ PollAppControl

DrainSpec == DrainInit /\ [][DrainNext]_drainVars

----------------------------------------------------------------------------
(* Properties. *)

(* What fills again behind the looks whatever the gateway does: core        *)
(* matching answers the settlements, whose streams are looked at last, on   *)
(* the egress stream of the trades, and egress goes on from there.          *)
Refilled(a) ==
  IF a = "trade-matching"
  THEN {"egress-trade", "out-trade", "out-settlement", "egress-trade-table",
        "egress-settlement-table", "out-trade-table", "out-settlement-table"}
  ELSE {}

(* The looks of a wait follow the way of the messages: a place that was     *)
(* empty when it was looked at is empty at the end, so that what core       *)
(* matching had to do is done and is in the other region, unless a look     *)
(* passed a place that was not empty, or the gateway or a reconciliation    *)
(* put something behind it, or the place is one of Refilled.                *)
SeenStaysEmpty ==
  ~blind /\ ~overtaken =>
    Passed(application, looked) \cap inflight \subseteq Refilled(application)
=============================================================================
