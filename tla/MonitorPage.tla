---------------------------- MODULE MonitorPage ----------------------------
(***************************************************************************)
(* TMApplicationMonitor and SMApplicationMonitor: whether the resources of  *)
(* an application are ready, healthy and replicated.  Three calls are sent  *)
(* at once, at mount and on Refresh, and nobody awaits them.  Both regions  *)
(* are drawn from the same three answers.                                   *)
(*                                                                         *)
(* What the API answers for an aspect is a status per part; a version of    *)
(* the resource is modelled as the set of parts that are not known good.    *)
(***************************************************************************)
EXTENDS ApiCalls

Aspect == {"ready", "health", "replication"}

Ready(app)       == <<"ready", app>>
Health           == <<"health">>
Replication(app) == <<"replication", app>>

Resource(app, aspect) ==
  CASE aspect = "ready" -> Ready(app)
    [] aspect = "health" -> Health
    [] aspect = "replication" -> Replication(app)

(* The hooks appReady, appHealth and appReplication are named by aspect. *)
MonitorHooks == Aspect

(* getAllRequests of the two pages. *)
TradeAsks ==
  {Ask(Resource("trade-matching", a), Whole(a)) : a \in Aspect}
SettlementAsks ==
  {Ask(Resource("settlement", a), Whole(a)) : a \in Aspect}

----------------------------------------------------------------------------
(* A card shows, under the name of a region, indicators of some parts.      *)

Tile(region, aspect, part) == [region |-> region, aspect |-> aspect, part |-> part]

(* A broker or a stream: only its service has a status. *)
ServiceTile(region, service) == {Tile(region, "health", <<service>>)}

Stores(region, stage, kinds) ==
  {Tile(region, a, <<stage, "dynamodb", k>>) : a \in {"ready", "replication"}, k \in kinds}
  \cup ServiceTile(region, "dynamodb")

Database(region) ==
  {Tile(region, a, <<"matching", "rds">>) : a \in {"ready", "replication"}}
  \cup ServiceTile(region, "rds")

Tasks(region, stage, suffix) ==
  {Tile(region, "ready", <<stage, "ecs", suffix>>)} \cup ServiceTile(region, "ecs")

Kinds == {"trade", "settlement"}

TradeInboundPrimary ==
  ServiceTile(East, "mq") \cup Stores(East, "inbound", Kinds)
  \cup Tasks(East, "inbound", "primary")
TradeIngestionPrimary ==
  ServiceTile(East, "kinesis") \cup Stores(East, "ingestion", Kinds)
  \cup Tasks(East, "ingestion", "primary")
TradeMatchingPrimary ==
  ServiceTile(East, "kinesis") \cup Database(East) \cup Tasks(East, "matching", "primary")
TradeEgressPrimary ==
  ServiceTile(East, "kinesis") \cup Stores(East, "egress", Kinds)
  \cup Tasks(East, "egress", "primary")
TradeOutboundPrimary ==
  ServiceTile(East, "kinesis") \cup Stores(East, "outbound", Kinds)
  \cup Tasks(East, "outbound", "primary") \cup ServiceTile(East, "mq")

TradeInboundSecondary ==
  ServiceTile(West, "mq") \cup Stores(West, "inbound", Kinds)
  \cup Tasks(West, "inbound", "secondary")
TradeIngestionSecondary ==
  ServiceTile(West, "kinesis") \cup Stores(West, "ingestion", Kinds)
  \cup Tasks(West, "ingestion", "secondary")
TradeMatchingSecondary ==
  ServiceTile(West, "kinesis") \cup Database(West) \cup Tasks(West, "matching", "secondary")
TradeEgressSecondary ==
  ServiceTile(West, "kinesis") \cup Stores(West, "egress", Kinds)
  \cup Tasks(West, "egress", "secondary")
TradeOutboundSecondary ==
  ServiceTile(West, "kinesis") \cup Stores(West, "outbound", Kinds)
  \cup Tasks(West, "outbound", "secondary") \cup ServiceTile(West, "mq")

SettlementInboundPrimary ==
  ServiceTile(East, "mq") \cup Stores(East, "inbound", {"settlement"})
  \cup Tasks(East, "inbound", "primary")
SettlementIngestionPrimary ==
  ServiceTile(East, "kinesis") \cup Stores(East, "ingestion", {"settlement"})
  \cup Tasks(East, "ingestion", "primary")
SettlementMatchingPrimary ==
  ServiceTile(East, "kinesis") \cup Database(East) \cup Tasks(East, "matching", "primary")
SettlementEgressPrimary ==
  ServiceTile(East, "kinesis") \cup Stores(East, "egress", {"settlement"})
  \cup Tasks(East, "egress", "primary")
SettlementOutboundPrimary ==
  ServiceTile(East, "kinesis") \cup Stores(East, "outbound", {"settlement"})
  \cup Tasks(East, "outbound", "primary") \cup ServiceTile(East, "mq")

SettlementInboundSecondary ==
  ServiceTile(West, "mq") \cup Stores(West, "inbound", {"settlement"})
  \cup Tasks(West, "inbound", "secondary")
SettlementIngestionSecondary ==
  ServiceTile(West, "kinesis") \cup Stores(West, "ingestion", {"settlement"})
  \cup Tasks(West, "ingestion", "secondary")
SettlementMatchingSecondary ==
  ServiceTile(West, "kinesis") \cup Database(West) \cup Tasks(West, "matching", "secondary")
SettlementEgressSecondary ==
  ServiceTile(West, "kinesis") \cup Stores(West, "egress", {"settlement"})
  \cup Tasks(West, "egress", "secondary")
SettlementOutboundSecondary ==
  ServiceTile(West, "kinesis") \cup Stores(West, "outbound", {"settlement"})
  \cup Tasks(West, "outbound", "secondary") \cup ServiceTile(West, "mq")

TradeTiles ==
  TradeInboundPrimary \cup TradeIngestionPrimary \cup TradeMatchingPrimary
  \cup TradeEgressPrimary \cup TradeOutboundPrimary
  \cup TradeInboundSecondary \cup TradeIngestionSecondary \cup TradeMatchingSecondary
  \cup TradeEgressSecondary \cup TradeOutboundSecondary

SettlementTiles ==
  SettlementInboundPrimary \cup SettlementIngestionPrimary
  \cup SettlementMatchingPrimary \cup SettlementEgressPrimary
  \cup SettlementOutboundPrimary
  \cup SettlementInboundSecondary \cup SettlementIngestionSecondary
  \cup SettlementMatchingSecondary \cup SettlementEgressSecondary
  \cup SettlementOutboundSecondary

----------------------------------------------------------------------------
(* renderReady, renderHealth, renderReplication: "?" stands for any status  *)
(* the page has no sign for.  The settlement page looks for the words       *)
(* UNHEALTHY and DELAYED, which the API never uses.                         *)
HasNegative(app, aspect) == app = "trade-matching" \/ aspect = "ready"

Sign(app, aspect, good) ==
  IF ~Set(aspect) THEN "?"
  ELSE IF good THEN "positive"
  ELSE IF HasNegative(app, aspect) THEN "negative"
  ELSE "?"

TileSign(app, t) == Sign(app, t.aspect, t.part \notin Held(t.aspect))

(* The parts a summary of the API looks at. *)
Stages == {"inbound", "ingestion", "egress", "outbound"}
KindsOf(app) == IF app = "trade-matching" THEN Kinds ELSE {"settlement"}

ReadySummaryPrimary(app) ==   \* mutant: the summary looks at one region only
  Stages \X {"dynamodb"} \X KindsOf(app)
  \cup (Stages \cup {"matching"}) \X {"ecs"} \X {"primary"}
  \cup {<<"matching", "rds">>}

ReadySummary(app) ==
  Stages \X {"dynamodb"} \X KindsOf(app)
  \cup (Stages \cup {"matching"}) \X {"ecs"} \X {"primary", "secondary"}
  \cup {<<"matching", "rds">>}
HealthSummary == {<<s>> : s \in {"mq", "kinesis", "dynamodb", "rds", "ecs"}}
ReplicationSummary(app) ==
  Stages \X {"dynamodb"} \X KindsOf(app) \cup {<<"matching", "rds">>}

SummaryParts(app, aspect) ==
  CASE aspect = "ready" -> ReadySummary(app)
    [] aspect = "health" -> HealthSummary
    [] aspect = "replication" -> ReplicationSummary(app)

(* The three indicators in the first row of the page. *)
SummarySign(app, aspect) ==
  Sign(app, aspect, SummaryParts(app, aspect) \cap Held(aspect) = {})

----------------------------------------------------------------------------
(* Refresh. *)
RefreshMonitor ==
  /\ FreeLoads # {}
  /\ \/ /\ page = "tm-monitor"
        /\ calls' = calls \cup Concurrent(NewLoad, TradeAsks)
     \/ /\ page = "sm-monitor"
        /\ calls' = calls \cup Concurrent(NewLoad, SettlementAsks)
  /\ UNCHANGED <<hist, failed, page, hook, opened, chosen>>

DeliverMonitor(c) == page \in {"tm-monitor", "sm-monitor"} /\ DeliverOne(c)

----------------------------------------------------------------------------
Suffix(region) == IF region = East THEN "primary" ELSE "secondary"

(* A positive indicator: the part was good at some time since the page was  *)
(* opened, and it is a part of the region and application it stands under.  *)
TileWasTrue(app, t) ==
  TileSign(app, t) = "positive" =>
    /\ \E bad \in SinceOpened(Resource(app, t.aspect)) : t.part \notin bad
    /\ Len(t.part) = 3 /\ t.part[2] = "ecs" => t.part[3] = Suffix(t.region)

(* A summary is positive only when every indicator below it is.             *)
SummaryCovers(app, tiles) ==
  \A t \in tiles :
    SummarySign(app, t.aspect) = "positive" => TileSign(app, t) = "positive"
=============================================================================
