--------------------------- MODULE ChaosTesting ---------------------------
(***************************************************************************)
(* The chaos page and the buttons of the admin page, with the handlers of   *)
(* the API behind them.  A row of the page says which application,          *)
(* component and fault it is about; its Execute button names an experiment, *)
(* its Recover button, where it has one, what is started or allowed again.  *)
(* The tables below hold both columns, so that what a row announces can be  *)
(* compared with what its buttons do.                                       *)
(***************************************************************************)
EXTENDS Workloads

CONSTANTS
  OfferedRows,  \* the rows whose buttons are used
  MaxClicks     \* bound: clicks in a behaviour

VARIABLES
  clicks,      \* clicks so far
  harmed,      \* harmed[row]: what the landed experiments of the row took
  recovered    \* rows whose last event was a Recover that was carried out

chaosVars == <<workVars, clicks, harmed, recovered>>

Nothing == <<>>

(* A row: the announced application, target, fault and scope; the tag of    *)
(* the experiment that Execute starts; and what Recover asks for.           *)
Row(app, target, fault, scope, tag, back) ==
  [app |-> app, target |-> target, fault |-> fault, scope |-> scope,
   tag |-> tag, back |-> back]

(* The five rows of a section, one per component. *)
Rows(app, prefix, fault, scope) ==
  {Row(app, c, fault, scope, <<prefix, c, fault, scope>>, Nothing) : c \in Component}

RowsWithRecover(app, prefix, fault, scope) ==
  {Row(app, c, fault, scope, <<prefix, c, fault, scope>>, <<app, c>>) : c \in Component}

AccessRow(app, service, tag, back) ==
  {Row(app, service, "access", "all", tag, back)}

(* The sections of Trade Matching, from the top of the page. *)
TradeStopAllTasks    == RowsWithRecover("trade-matching", "tm", "tasks", "all")
TradeStopOneTask     == RowsWithRecover("trade-matching", "tm", "tasks", "one")
TradeStopAllHosts    == Rows("trade-matching", "tm", "stop", "all")
TradeStopOneHost     == Rows("trade-matching", "tm", "stop", "one")
TradeTerminateAll    == Rows("trade-matching", "tm", "terminate", "all")
TradeTerminateOne    == Rows("trade-matching", "tm", "terminate", "one")
TradeStressAll       == Rows("trade-matching", "tm", "stress", "all")
TradeStressOne       == Rows("trade-matching", "tm", "stress", "one")
TradeKinesisAccess   ==
  AccessRow("trade-matching", "kinesis-streams", <<"tm", "kinesis-streams", "access", "all">>,
            <<"trade-matching", "kinesis-streams">>)
TradeDynamoDBAccess  ==
  AccessRow("trade-matching", "dynamodb", <<"tm", "dynamodb", "access", "all">>,
            <<"trade-matching", "dynamodb">>)
TradeAuroraAccess    ==
  AccessRow("trade-matching", "rds", <<"tm", "rds", "access", "all">>,
            <<"trade-matching", "rds">>)

SettlementStopAllTasksTrade ==   \* mutant: the prefix is not changed in the copy
  RowsWithRecover("settlement", "tm", "tasks", "all")

(* The sections of Settlement. *)
SettlementStopAllTasks  == RowsWithRecover("settlement", "sm", "tasks", "all")
SettlementStopOneTask   == RowsWithRecover("settlement", "sm", "tasks", "one")
SettlementStopAllHosts  == Rows("settlement", "sm", "stop", "all")
SettlementStopOneHost   == Rows("settlement", "sm", "stop", "one")
SettlementTerminateAll  == Rows("settlement", "sm", "terminate", "all")
SettlementTerminateOne  == Rows("settlement", "sm", "terminate", "one")
SettlementStressAll     == Rows("settlement", "sm", "stress", "all")
SettlementStressOne     == Rows("settlement", "sm", "stress", "one")
SettlementKinesisAccess ==
  AccessRow("settlement", "kinesis-streams", <<"sm", "kinesis-streams", "access", "all">>,
            <<"settlement", "kinesis-streams">>)
SettlementDynamoDBAccess ==
  AccessRow("settlement", "dynamodb", <<"sm", "dynamodb", "access", "all">>,
            <<"settlement", "dynamodb">>)
(* Execute starts the experiment of the other application. *)
SettlementAuroraAccess  ==
  AccessRow("settlement", "rds", <<"tm", "rds", "access", "all">>, <<"settlement", "rds">>)

PageRows ==
  TradeStopAllTasks \cup TradeStopOneTask \cup TradeStopAllHosts \cup TradeStopOneHost
  \cup TradeTerminateAll \cup TradeTerminateOne \cup TradeStressAll \cup TradeStressOne
  \cup TradeKinesisAccess \cup TradeDynamoDBAccess \cup TradeAuroraAccess
  \cup SettlementStopAllTasks \cup SettlementStopOneTask \cup SettlementStopAllHosts
  \cup SettlementStopOneHost \cup SettlementTerminateAll \cup SettlementTerminateOne
  \cup SettlementStressAll \cup SettlementStressOne \cup SettlementKinesisAccess
  \cup SettlementDynamoDBAccess \cup SettlementAuroraAccess

ASSUME OfferedRowsAssumption == OfferedRows \subseteq PageRows
ASSUME ClicksAssumption == MaxClicks \in Nat

(* The experiment templates by tag.  Those of Trade Matching that stop      *)
(* hosts are made from the template that terminates them; a group loses the *)
(* host and its tasks either way.                                           *)
Experiment(tag) ==
  [app |-> IF tag[1] = "tm" THEN "trade-matching" ELSE "settlement",
   target |-> tag[2],
   fault |-> IF tag[1] = "tm" /\ tag[3] = "stop" THEN "terminate" ELSE tag[3],
   scope |-> tag[4]]

ChaosInit ==
  /\ WorkloadsInit
  /\ clicks = 0
  /\ harmed = [row \in OfferedRows |-> {}]
  /\ recovered = {}

Click == clicks < MaxClicks /\ clicks' = clicks + 1

(* executeExperiment, run_experiment: the experiment is started, not        *)
(* waited for.                                                              *)
Execute(row) ==
  /\ Click
  /\ pending' = pending \cup {row}
  /\ recovered' = recovered \ {row}
  /\ UNCHANGED <<own, extra, hosts, stress, denied, harmed>>

(* The experiment acts on the group, or the endpoint, that its template     *)
(* selects in the primary region.                                          *)
Act(row) ==
  LET e == Experiment(row.tag)
      g == <<East, e.app, e.target>>
  IN  \/ e.fault = "access" /\ Deny(<<e.app, e.target>>, row)
      \/ e.fault = "tasks" /\ g \in Deployed /\ ActOnTasks(g, e.scope)
      \/ e.fault \in {"stop", "terminate"} /\ g \in Deployed /\ ActOnHosts(g, e.scope)
      \/ e.fault = "stress" /\ g \in Deployed /\ ActOnCpu(g)

(* What a step takes from the containers and endpoints, and how much. *)
Harm(app, target, kind, lost) ==
  [app |-> app, target |-> target, kind |-> kind, lost |-> lost]

Harms ==
  {Harm(g[2], g[3], "tasks", Running(g) - own'[g] - extra'[g]) :
     g \in {x \in Deployed : own'[x] + extra'[x] < Running(x)}}
  \cup {Harm(g[2], g[3], "hosts", hosts[g] - hosts'[g]) :
     g \in {x \in Deployed : hosts'[x] < hosts[x]}}
  \cup {Harm(g[2], g[3], "stress", 0) : g \in stress' \ stress}
  \cup {Harm(e[1], e[2], "access", 0) : e \in {x \in Endpoint : denied'[x] # denied[x]}}

Land(row) ==
  /\ row \in pending
  /\ pending' = pending \ {row}
  /\ Act(row)
  /\ harmed' = [harmed EXCEPT ![row] = @ \cup Harms]
  /\ recovered' = recovered \ {row}
  /\ UNCHANGED clicks

(* The experiment fails, finds no target or is stopped by its alarm. *)
Drop(row) ==
  /\ row \in pending
  /\ pending' = pending \ {row}
  /\ UNCHANGED <<own, extra, hosts, stress, denied, clicks, harmed, recovered>>

(* recoverAppComponent, start_tasks: one more task on the first host; with  *)
(* no host the handler raises and nothing is started.                       *)
RecoverComponent(row) ==
  LET g == <<East, row.back[1], row.back[2]>>
  IN  /\ row.back # Nothing /\ row.fault = "tasks"
      /\ g \in Deployed
      /\ Click
      /\ IF hosts[g] > 0
         THEN /\ StartTasks({g})
              /\ recovered' = recovered \cup {row}
         ELSE UNCHANGED <<own, extra, hosts, stress, denied, recovered>>
      /\ UNCHANGED <<pending, harmed>>

(* recoverVPCAccess, enable_vpc_endpoint: done before the API answers.      *)
RecoverAccess(row) ==
  /\ row.back # Nothing /\ row.fault = "access"
  /\ Click
  /\ Allow(row.back)
  /\ recovered' = recovered \cup {row}
  /\ UNCHANGED <<pending, harmed>>

(* The groups that a Start button of the admin page is about; no generator  *)
(* is started in the secondary region.                                      *)
GroupsOf(region, app) ==
  {g \in Deployed : g[1] = region /\ g[2] = app
                    /\ ~(region = West /\ g[3] = "generator")}

(* start_tasks goes through the list and gives up at the first group that   *)
(* has no host.                                                             *)
StartApplication(region, app) ==
  LET groups == GroupsOf(region, app)
      able   == {g \in groups : hosts[g] > 0}
  IN  /\ groups # {}
      /\ Click
      /\ \E S \in SUBSET able :
           /\ able = groups => S = groups
           /\ StartTasks(S)
      /\ UNCHANGED <<pending, harmed, recovered>>

(* stop_all_tasks_in_region stops every task of both applications, and      *)
(* gives up at the first that cannot be stopped.                            *)
StopApplications(region) ==
  /\ Click
  /\ \E S \in SUBSET {g \in Deployed : g[1] = region} :
       /\ own' = [g \in Deployed |-> IF g \in S THEN 0 ELSE own[g]]
       /\ extra' = [g \in Deployed |-> IF g \in S THEN 0 ELSE extra[g]]
  /\ UNCHANGED <<hosts, stress, denied, pending, harmed, recovered>>

Repair(g) ==
  /\ ScheduleTask(g) \/ ReplaceHost(g) \/ Calm(g)
  /\ UNCHANGED <<clicks, harmed, recovered>>

ChaosNext ==
  \/ \E row \in OfferedRows :
       \/ Execute(row)
       \/ Land(row)
       \/ Drop(row)
       \/ RecoverComponent(row)
       \/ RecoverAccess(row)
  \/ \E region \in Region, app \in App : StartApplication(region, app)
  \/ \E region \in Region : StopApplications(region)
  \/ \E g \in Deployed : Repair(g)

ChaosSpec == ChaosInit /\ [][ChaosNext]_chaosVars

----------------------------------------------------------------------------
(* Properties. *)

(* Nothing runs beyond its bounds, and only rows of the page are pending.   *)
ChaosTypeOK ==
  /\ WorkloadsTypeOK(OfferedRows)
  /\ clicks \in 0..MaxClicks
  /\ recovered \subseteq OfferedRows

(* One row is at odds with itself: Aurora of Settlement, whose Execute and  *)
(* Recover are about different applications.                                *)
AtOdds(row) == row.app = "settlement" /\ row.target = "rds"

(* A fault on hosts takes tasks along; "one" is one task, or one host.      *)
Announces(row, harm) ==
  /\ harm.app = row.app /\ harm.target = row.target
  /\ CASE row.fault = "tasks" -> harm.kind = "tasks" /\ (row.scope = "one" => harm.lost = 1)
       [] row.fault \in {"stop", "terminate"} ->
            \/ harm.kind = "hosts" /\ (row.scope = "one" => harm.lost = 1)
            \/ harm.kind = "tasks"
       [] OTHER -> harm.kind = row.fault

(* Any other row keeps its word, however experiments land late and clicks   *)
(* on it and on other rows interleave: what its experiments take is of the  *)
(* application, target and extent that it announces, and once its Recover   *)
(* is carried out no endpoint stays denied on its account.                  *)
RowsKeepTheirWord ==
  \A row \in OfferedRows : ~AtOdds(row) =>
    /\ \A harm \in harmed[row] : Announces(row, harm)
    /\ row \in recovered => \A e \in Endpoint : row \notin denied[e]
=============================================================================
