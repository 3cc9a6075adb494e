----------------------------- MODULE StatePage -----------------------------
(***************************************************************************)
(* ApplicationState: the page that shows, for both applications and both    *)
(* regions, which routing controls are on and how much every store holds.   *)
(* It asks for all of it at mount and again every three seconds, whether    *)
(* or not the previous round has ended.                                     *)
(***************************************************************************)
EXTENDS ApiCalls

States(app) == <<"states", app>>
Controls(app, region) == <<"controls", app, region>>

StateHooks ==
  {"tradeMatchingPrimaryState", "tradeMatchingSecondaryState",
   "settlementPrimaryState", "settlementSecondaryState",
   "tradeMatchingPrimaryControls", "tradeMatchingSecondaryControls",
   "settlementPrimaryControls", "settlementSecondaryControls"}

(* Both hooks of an application from one answer: get_app_state picks the    *)
(* entry of a region.                                                       *)
Split(primary, secondary) ==
  [h \in {primary, secondary} |-> IF h = primary THEN East ELSE West]

(* getAllRequests, in the order in which it awaits. *)
StateAsks ==
  << Ask(States("trade-matching"),
         Split("tradeMatchingPrimaryState", "tradeMatchingSecondaryState")),
     Ask(States("settlement"),
         Split("settlementPrimaryState", "settlementSecondaryState")),
     Ask(Controls("trade-matching", East), Whole("tradeMatchingPrimaryControls")),
     Ask(Controls("trade-matching", West), Whole("tradeMatchingSecondaryControls")),
     Ask(Controls("settlement", East), Whole("settlementPrimaryControls")),
     Ask(Controls("settlement", West), Whole("settlementSecondaryControls")) >>

----------------------------------------------------------------------------
(* What the four panels show: icons and counts under the name of an         *)
(* application and a region, each drawn from a hook.                        *)

Icons(app, region, h) ==
  [app : {app}, region : {region}, shows : Scope, hook : {h}]

Counts(app, region, h, counters) ==
  [app : {app}, region : {region}, shows : counters, hook : {h}]

TradeStores      == {"inbound_trade", "inbound_settlement",
                     "ingestion_trade", "ingestion_settlement"}
TradeResults     == {"matching", "matching_settled", "matching_matched",
                     "matching_mismatched", "matching_unmatched",
                     "egress_trade", "egress_settlement",
                     "outbound_trade", "outbound_settlement"}
SettlementStores == {"inbound_settlement", "ingestion_settlement"}
SettlementResults == {"matching", "matching_matched", "matching_mismatched",
                      "matching_unmatched", "egress_settlement",
                      "outbound_settlement"}

TradePrimaryTop ==
  Icons("trade-matching", East, "tradeMatchingPrimaryControls")
  \cup Counts("trade-matching", East, "tradeMatchingPrimaryState", TradeStores)
TradePrimaryRest ==
  Counts("trade-matching", East, "tradeMatchingPrimaryState", TradeResults)

SettlementPrimaryTop ==
  Icons("settlement", East, "settlementPrimaryControls")
  \cup Counts("settlement", East, "settlementPrimaryState", SettlementStores)
SettlementPrimaryRest ==
  Counts("settlement", East, "settlementPrimaryState", SettlementResults)

TradeSecondaryTopCopied ==   \* mutant: the hook of the other region, copied along
  Icons("trade-matching", West, "tradeMatchingPrimaryControls")
  \cup Counts("trade-matching", West, "tradeMatchingSecondaryState", TradeStores)

TradeSecondaryTop ==
  Icons("trade-matching", West, "tradeMatchingSecondaryControls")
  \cup Counts("trade-matching", West, "tradeMatchingSecondaryState", TradeStores)
TradeSecondaryRest ==
  Counts("trade-matching", West, "tradeMatchingSecondaryState", TradeResults)

SettlementSecondaryTop ==
  Icons("settlement", West, "settlementSecondaryControls")
  \cup Counts("settlement", West, "settlementSecondaryState", SettlementStores)
SettlementSecondaryRest ==
  Counts("settlement", West, "settlementSecondaryState", SettlementResults)

StateCells ==
  TradePrimaryTop \cup TradePrimaryRest
  \cup SettlementPrimaryTop \cup SettlementPrimaryRest
  \cup TradeSecondaryTop \cup TradeSecondaryRest
  \cup SettlementSecondaryTop \cup SettlementSecondaryRest

(* An icon is drawn lit for "On" and dark for anything else. *)
Lit(c) == Set(c.hook) /\ c.shows \in Held(c.hook)

(* A count is that of the entry the hook kept, and 0 without one. *)
Count(c) == IF Set(c.hook) THEN Held(c.hook)[hook[c.hook].part] ELSE 0

----------------------------------------------------------------------------
(* The interval fires: another round, beside those still under way. *)
Tick ==
  /\ page = "state" /\ FreeLoads # {}
  /\ calls' = calls \cup Awaited(NewLoad, StateAsks, 1)
  /\ UNCHANGED <<hist, failed, page, hook, opened, chosen>>

DeliverState(c) == page = "state" /\ DeliverAwaited(c, StateAsks)

----------------------------------------------------------------------------
(* What cell c claims was the case at some time since the page was opened.  *)
StateCellWasTrue(c) ==
  IF c.shows \in Scope
  THEN Lit(c) => \E on \in SinceOpened(Controls(c.app, c.region)) : c.shows \in on
  ELSE Count(c) > 0 =>
         \E n \in SinceOpened(States(c.app)) : n[c.region] = Count(c)

(* The page shows what is the case. *)
StateIsCurrent ==
  \A c \in StateCells :
    IF c.shows \in Scope
    THEN LET res == Controls(c.app, c.region) IN
         res \in Followed => (Lit(c) <=> c.shows \in hist[res][Now(res)])
    ELSE LET res == States(c.app) IN
         res \in Followed => Count(c) = hist[res][Now(res)][c.region]
=============================================================================
