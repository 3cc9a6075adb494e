---------------------------- MODULE MCDashboard ----------------------------
(* An instance of Dashboard for TLC: for every page the resources of one    *)
(* application or step, both regions where the page asks for them.          *)
EXTENDS Dashboard

Counted    == States("trade-matching")
Primary    == Controls("trade-matching", East)
Secondary  == Controls("trade-matching", West)
Lag        == Replication("settlement")
Step       == Recon(<<"tmIngress", "Core", "Trade">>)
TradeReady == Ready("trade-matching")
Run1       == ExecutionOf("e1")

MCFollowed ==
  {Counted, Primary, Secondary, Step, TradeReady, Lag, Executions, Run1}

MCInitial ==
  [r \in MCFollowed |->
     CASE r = Counted -> [g \in Region |-> IF g = East THEN 2 ELSE 1]
       [] r = Primary -> Scope
       [] r \in {Secondary, TradeReady} -> {}
       [] r = Lag -> {<<"egress", "dynamodb", "settlement">>}
       [] r = Step -> 2
       [] r = Executions -> {"e1"}
       [] r = Run1 -> "InProgress"]

MCChanges ==
  [r \in MCFollowed |->
     CASE r = Counted -> {[g \in Region |-> 3]}
       [] r = Primary -> {{}}
       [] r = Secondary -> {Scope}
       [] r = TradeReady -> {{<<"inbound", "ecs", "secondary">>}}
       [] r = Run1 -> {"Failed"}
       [] r = Step -> {0}
       [] OTHER -> {}]
=============================================================================
