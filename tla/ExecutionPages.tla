--------------------------- MODULE ExecutionPages ---------------------------
(***************************************************************************)
(* ExecutionTable, which lists the automation executions once, when it is   *)
(* mounted, and ExecutionView, which shows the execution whose id the redux *)
(* store holds and asks for it again every five seconds.  The store is all  *)
(* that passes from one page to the other.                                  *)
(***************************************************************************)
EXTENDS ApiCalls

Executions == <<"executions">>
ExecutionOf(id) == <<"execution", id>>

(* The store holds an empty id until a row was selected. *)
NoExecution == ""

TableHooks == {"executions"}
ViewHooks  == {"executionDetail", "selectedExecutionStep"}

TableAsks == {Ask(Executions, Whole("executions"))}
ViewAsks(id) == {Ask(ExecutionOf(id), Whole("executionDetail"))}

(* The rows of the table. *)
ListedRows == IF Set("executions") THEN Held("executions") ELSE {}

(* handleSelectionChange and the link of a row dispatch storeExecutionId.   *)
SelectExecution ==
  /\ page = "executions"
  /\ \E id \in ListedRows : chosen' = id
  /\ UNCHANGED <<hist, failed, page, hook, opened, calls>>

(* handleSelectionChange of the view keeps the step as it is listed then.   *)
(* The interval is to fetch it anew, but its closure is that of the mount,  *)
(* when no step was selected: the pane stays as it is.                      *)
SelectStep ==
  /\ page = "view" /\ Set("executionDetail")
  /\ hook' = [hook EXCEPT !["selectedExecutionStep"] = hook["executionDetail"]]
  /\ UNCHANGED <<hist, failed, page, opened, calls, chosen>>

TickViewOnce ==   \* mutant: the interval ends with the first answer
  /\ page = "view" /\ FreeLoads # {} /\ ~Set("executionDetail")
  /\ calls' = calls \cup Concurrent(NewLoad, ViewAsks(chosen))
  /\ UNCHANGED <<hist, failed, page, hook, opened, chosen>>

(* The interval of the view; the id is the one of the mount. *)
TickView ==
  /\ page = "view" /\ FreeLoads # {}
  /\ calls' = calls \cup Concurrent(NewLoad, ViewAsks(chosen))
  /\ UNCHANGED <<hist, failed, page, hook, opened, chosen>>

DeliverExecution(c) == page \in {"executions", "view"} /\ DeliverOne(c)

----------------------------------------------------------------------------
(* The steps on the page, and the step in the pane below them, are those    *)
(* the selected execution had at some time since the page was opened.       *)
ViewWasTrue ==
  \A h \in ViewHooks : Set(h) =>
    /\ hook[h].res = ExecutionOf(chosen)
    /\ Held(h) \in SinceOpened(ExecutionOf(chosen))

(* The list of steps is current; the pane need not be. *)
ViewIsCurrent ==
  ExecutionOf(chosen) \in Followed =>
    /\ Set("executionDetail")
    /\ Held("executionDetail") = hist[ExecutionOf(chosen)][Now(ExecutionOf(chosen))]
=============================================================================
