----------------------------- MODULE ReconPage -----------------------------
(***************************************************************************)
(* ApplicationRecon: how many messages each stage of the pipeline has that  *)
(* the next one has not.  Nothing is loaded at mount; Refresh sends one     *)
(* call per step at once, and nobody awaits them.  The panels of the two    *)
(* regions are drawn from the same hooks.                                   *)
(***************************************************************************)
EXTENDS ApiCalls

Recon(step) == <<"recon", step>>

(* A step compares a stage with the next one for one kind of message;       *)
(* getAllRequests sends its answer to the hook of the same name, which is   *)
(* the step here.                                                           *)
TradeSteps ==
  { <<"tmInbound", "Ingress", "Trade">>,  <<"tmInbound", "Ingress", "Settlement">>,
    <<"tmIngress", "Core", "Trade">>,     <<"tmIngress", "Core", "Settlement">>,
    <<"tmCore", "Egress", "Trade">>,      <<"tmCore", "Egress", "Settlement">>,
    <<"tmEgress", "Outbound", "Trade">>,  <<"tmEgress", "Outbound", "Settlement">>,
    <<"tmOutbound", "SmInbound", "Settlement">> }

SettlementSteps ==
  { <<"smInbound", "Ingress", "Settlement">>, <<"smIngress", "Core", "Settlement">>,
    <<"smCore", "Egress", "Settlement">>,     <<"smEgress", "Outbound", "Settlement">>,
    <<"smOutbound", "TmInbound", "Settlement">> }

ReconHooks == TradeSteps \cup SettlementSteps
ReconAsks == {Ask(Recon(step), Whole(step)) : step \in ReconHooks}

----------------------------------------------------------------------------
(* What the panels show: next to the name of a stage, the difference        *)
(* between it and the stage after it.                                       *)
Differences(region, stage, next, kinds) ==
  {[region |-> region, step |-> <<stage, next, k>>, hook |-> <<stage, next, k>>] :
     k \in kinds}

Both == {"Trade", "Settlement"}

(* The cards Inbound Gateway, Ingestion and Matching of trade matching. *)
TradeDifferences(region) ==
  Differences(region, "tmInbound", "Ingress", Both)
  \cup Differences(region, "tmIngress", "Core", Both)
  \cup Differences(region, "tmCore", "Egress", Both)

(* The cards Egress and Outbound Gateway. *)
TradeOutDifferences(region) ==
  Differences(region, "tmEgress", "Outbound", Both)
  \cup Differences(region, "tmOutbound", "SmInbound", {"Settlement"})

SettlementDifferences(region) ==
  Differences(region, "smInbound", "Ingress", {"Settlement"})
  \cup Differences(region, "smIngress", "Core", {"Settlement"})
  \cup Differences(region, "smCore", "Egress", {"Settlement"})
  \cup Differences(region, "smEgress", "Outbound", {"Settlement"})
  \cup Differences(region, "smOutbound", "TmInbound", {"Settlement"})

TradePrimaryDifferences      == TradeDifferences(East)
TradePrimaryOut              == TradeOutDifferences(East)
SettlementPrimaryDifferences == SettlementDifferences(East)
TradeSecondaryDifferences      == TradeDifferences(West)
TradeSecondaryOut              == TradeOutDifferences(West)
SettlementSecondaryDifferences == SettlementDifferences(West)

ReconCells ==
  TradePrimaryDifferences \cup TradePrimaryOut \cup SettlementPrimaryDifferences
  \cup TradeSecondaryDifferences \cup TradeSecondaryOut
  \cup SettlementSecondaryDifferences

(* The API has no branch for TM-CORE-EGRESS-S, and answers 0 to it.         *)
NotReconciled == <<"tmCore", "Egress", "Settlement">>

(* The number shown, -1 for none: the API also answers 0 when it cannot     *)
(* look, because the global cluster is not available.                       *)
Missing(c) ==
  IF ~Set(c.hook) THEN hook[c.hook].at
  ELSE IF hook[c.hook].res = Recon(NotReconciled) THEN 0
  ELSE Held(c.hook)

----------------------------------------------------------------------------
(* Refresh. *)
RefreshRecon ==
  /\ page = "recon" /\ FreeLoads # {}
  /\ calls' = calls \cup Concurrent(NewLoad, ReconAsks)
  /\ UNCHANGED <<hist, failed, page, hook, opened, chosen>>

DeliverRecon(c) == page = "recon" /\ DeliverOne(c)

----------------------------------------------------------------------------
(* A number of missing messages was the number between those two stages at  *)
(* some time since the page was opened; a 0 need not be.                    *)
DifferenceWasTrue(c) ==
  Missing(c) > 0 => Missing(c) \in SinceOpened(Recon(c.step))
=============================================================================
