------------------------------ MODULE Regions ------------------------------
(***************************************************************************)
(* What the dashboard, its API, the runbooks and the experiments name: the  *)
(* two regions, the two applications, and the scopes of routing controls.   *)
(***************************************************************************)
East == "us-east-1"
West == "us-west-2"
Region == {East, West}
App == {"trade-matching", "settlement"}
Scope == {"dns", "queue", "app"}
=============================================================================
