--------------------------- MODULE RunbookButtons ---------------------------
(***************************************************************************)
(* The buttons of the dashboard that start an SSM automation, page by page. *)
(* A button calls executeRunbook with a document, an application, a type    *)
(* and a mode, and never with a direction: the runbook finds that out by    *)
(* itself.  A row of the test pages also says what is expected of the run;  *)
(* its demands are the steps and outcomes it lists, named as in Rotation.   *)
(***************************************************************************)
EXTENDS Regions

Managed  == "approtation-Runbook-Managed-Failover"
Detach   == "approtation-Runbook-Detach-And-Promote"
Scenario == "Scenario-001"

AppRotation == "App Rotation"

Button(document, app, type, demands) ==
  [document |-> document, app |-> app, type |-> type, demands |-> demands]

(* ApplicationState: Rotate and DR of both applications. *)
StateButtons ==
  {Button(Managed, app, AppRotation, {}) : app \in {"trade-matching", "settlement"}}
  \cup {Button(Detach, app, "DR", {}) : app \in {"trade-matching", "settlement"}}

(* A use case that rotates: quiesce the inbound channels, see that all      *)
(* queues are drained, shut the application down, rotate it, start it, and  *)
(* reconcile.                                                               *)
RotationDemands == {"quiesced", "drained", "stopped", "moved", "started", "reconciled"}

(* A use case that recovers: start the application in the other region with *)
(* the external entry points disabled until it is in sync.                  *)
RecoveryDemands == {"moved", "started", "closed"}

(* AcceptanceTesting, two directions a pair: both rows of a pair make the   *)
(* same call.                                                               *)
UseCases12 == {Button(Managed, "settlement", AppRotation, RotationDemands)}
UseCases34 == {Button(Detach, "settlement", "DR", RecoveryDemands)}
UseCases56 == {Button(Managed, "trade-matching", AppRotation, RotationDemands)}
UseCases78 == {Button(Detach, "trade-matching", "DR", RecoveryDemands)}

(* IntegrationTesting: no message is lost, and the data of the queues and   *)
(* stores is available in the other region.                                 *)
ScenarioDemands == {"drained", "moved", "started"}

(* The rows in groups of three; the buttons of all but two are disabled.    *)
Scenarios1to3 ==
  {Button(Scenario, "settlement", AppRotation, ScenarioDemands),
   Button(Scenario, "trade-matching", AppRotation, ScenarioDemands)}
Scenarios4to6   == {}
Scenarios7to9   == {}
Scenarios10to12 == {}
Scenarios13to15 == {}
Scenarios16to17 == {}

Buttons ==
  StateButtons \cup UseCases12 \cup UseCases34 \cup UseCases56 \cup UseCases78
  \cup Scenarios1to3 \cup Scenarios4to6 \cup Scenarios7to9 \cup Scenarios10to12
  \cup Scenarios13to15 \cup Scenarios16to17
=============================================================================
