----------------------------- MODULE Dashboard -----------------------------
(***************************************************************************)
(* The dashboard as the operator uses it: the routes of App, one mounted    *)
(* page, navigation that unmounts it with its hooks, its interval and its   *)
(* unanswered calls, and the redux store that outlives it.  The pages that  *)
(* show something are StatePage, ReconPage, MonitorPage (twice) and         *)
(* ExecutionPages; the others only have buttons.                            *)
(***************************************************************************)
EXTENDS StatePage, ReconPage, MonitorPage, ExecutionPages

(* The routes of App. *)
Page == {"home", "state", "executions", "view", "admin", "recon",
         "tm-monitor", "sm-monitor", "acceptance", "integration", "chaos"}

HooksOf(p) ==
  CASE p = "state" -> StateHooks
    [] p = "executions" -> TableHooks
    [] p = "view" -> ViewHooks
    [] p = "recon" -> ReconHooks
    [] p \in {"tm-monitor", "sm-monitor"} -> MonitorHooks
    [] OTHER -> {}

(* The resources a page reads. *)
ReadBy(p) ==
  CASE p = "state" -> {StateAsks[i].res : i \in DOMAIN StateAsks}
    [] p = "executions" -> {a.res : a \in TableAsks}
    [] p = "view" -> {a.res : a \in ViewAsks(chosen)}
    [] p = "recon" -> {a.res : a \in ReconAsks}
    [] p = "tm-monitor" -> {a.res : a \in TradeAsks}
    [] p = "sm-monitor" -> {a.res : a \in SettlementAsks}
    [] OTHER -> {}

(* What the useEffect of a page loads when it is mounted. *)
FirstLoad(p, load) ==
  CASE p = "state" -> Awaited(load, StateAsks, 1)
    [] p = "executions" -> Concurrent(load, TableAsks)
    [] p = "view" -> Concurrent(load, ViewAsks(chosen))
    [] p = "tm-monitor" -> Concurrent(load, TradeAsks)
    [] p = "sm-monitor" -> Concurrent(load, SettlementAsks)
    [] OTHER -> {}

DashboardInit ==
  /\ hist = [r \in Followed |-> <<Initial[r]>>]
  /\ failed = 0
  /\ page = "home"
  /\ hook = <<>>
  /\ opened = <<>>
  /\ calls = {}
  /\ chosen = NoExecution

OpenWithHooks(p) ==   \* mutant: the hooks of the old page stay
  /\ p # page
  /\ page' = p
  /\ opened' = [r \in ReadBy(p) \cap Followed |-> Now(r)]
  /\ calls' = FirstLoad(p, AnyOf(Load))
  /\ UNCHANGED <<hist, failed, chosen, hook>>

(* Navigation: the old page is unmounted, and answers to it are ignored.    *)
Open(p) ==
  /\ p # page
  /\ page' = p
  /\ hook' = [h \in HooksOf(p) |-> BlankHook]
  /\ opened' = [r \in ReadBy(p) \cap Followed |-> Now(r)]
  /\ calls' = FirstLoad(p, AnyOf(Load))
  /\ UNCHANGED <<hist, failed, chosen>>

Deliver(c) ==
  \/ DeliverState(c)
  \/ DeliverRecon(c)
  \/ DeliverMonitor(c)
  \/ DeliverExecution(c)

DashboardNext ==
  \/ \E p \in Page : Open(p)
  \/ \E r \in Followed : Change(r)
  \/ \E c \in calls :
       \/ Serve(c)
       \/ ServeUnknown(c)
       \/ Fail(c)
       \/ Deliver(c)
  \/ Tick
  \/ TickView
  \/ SelectExecution
  \/ SelectStep
  \/ RefreshRecon
  \/ RefreshMonitor

DashboardSpec == DashboardInit /\ [][DashboardNext]_callVars

(* The browser fires the interval of the mounted page and runs the handlers *)
(* of answers, and the API answers: none of this depends on the operator.   *)
Goes(load) == \E c \in calls : c.load = load /\ (Serve(c) \/ Deliver(c))

Fairness ==
  /\ WF_callVars(Tick \/ TickView)
  /\ \A load \in Load : WF_callVars(Goes(load))

DashboardFairSpec == DashboardSpec /\ Fairness

----------------------------------------------------------------------------
(* Properties. *)

(* Every hook belongs to the mounted page, and holds a version its resource *)
(* really had.                                                              *)
DashboardTypeOK ==
  /\ CallTypeOK(Page, HooksOf(page))
  /\ chosen = NoExecution \/ \E s \in DOMAIN hist[Executions] : chosen \in hist[Executions][s]

(* Whatever the pages claim (a lit icon, a count of messages, a positive    *)
(* indicator, a difference, the steps of an execution) was the case for     *)
(* the application, region and part it stands under at some time since the  *)
(* page was opened: no answer meant for another panel, an earlier page or   *)
(* another execution gets on the screen, in whatever order they arrive.     *)
ShownWasTrue ==
  CASE page = "state" -> \A c \in StateCells : StateCellWasTrue(c)
    [] page = "recon" -> \A c \in ReconCells : DifferenceWasTrue(c)
    [] page = "tm-monitor" -> \A t \in TradeTiles : TileWasTrue("trade-matching", t)
    [] page = "sm-monitor" -> \A t \in SettlementTiles : TileWasTrue("settlement", t)
    [] page = "view" -> ViewWasTrue
    [] OTHER -> TRUE

(* The first row of a monitor never reassures where an indicator below it   *)
(* does not: the API's summary looks at every part that the page draws.     *)
SummaryIsSafe ==
  /\ page = "tm-monitor" => SummaryCovers("trade-matching", TradeTiles)
  /\ page = "sm-monitor" => SummaryCovers("settlement", SettlementTiles)

(* A page that polls catches up: left open, the state page and the view of  *)
(* a listed execution show what is the case for good once the backend is at *)
(* rest, although rounds overlap, and answers overtake each other or fail.  *)
PollingCatchesUp ==
  /\ <>[](page = "state") => <>[](page = "state" /\ StateIsCurrent)
  /\ <>[](page = "view" /\ chosen # NoExecution) => <>[](page = "view" /\ ViewIsCurrent)
=============================================================================
