------------------------------ MODULE Rotation ------------------------------
(***************************************************************************)
(* The rotation of one application between the regions: the automation      *)
(* documents, the scripts of their steps, the routing controls they switch  *)
(* and the global database they move; and dbrotation, the function that     *)
(* makes the writer follow the controls.  What the steps that wait for      *)
(* queues, streams and stores look at is the subject of Draining.  Nothing  *)
(* keeps two executions from running at once, an execution may end at any   *)
(* step, and nobody resumes one: the operator presses again.                *)
(***************************************************************************)
EXTENDS Integers, RunbookButtons

CONSTANTS
  Execution,  \* the executions there may be (bound: their number)
  Offered,    \* the buttons of the application that are used
  MaxDisturb  \* bound: disturbances (see disturbed)

ASSUME ExecutionAssumption == Execution \subseteq Nat
ASSUME OfferedAssumption == Offered \subseteq Buttons
ASSUME RotationBounds == MaxDisturb \in Nat

VARIABLES
  control,     \* control[r][s]: the routing control of scope s in region r
  writer,      \* the region of the writer of the global cluster in the secret
  moving,      \* where a failover under way moves it, or "nowhere"
  paired,      \* whether the cluster has a reader: "yes", "no" or "joining",
               \* or "renamed" when it has one again, under another name
  host,        \* the region of the endpoint in the database secret
  uses,        \* uses[r]: the host with which the core tasks of r started
  intent,      \* the region that dbrotation found intended, or "none"
  pc,          \* pc[e]: the step of execution e
  button,      \* button[e]: the button that started it
  active,      \* active[e]: ACTIVE_REGION, as GetRegions put it out
  disturbed,   \* executions started while another one ran, updates that only
               \* seemed to succeed, and resets on an old intent
  unclear,     \* an execution ended early, or the controls were Off at first
  stray        \* GetRegions took a region for active that has not the writer

controlVars == <<control>>
databaseVars == <<writer, moving, paired, host, uses, intent>>
ghosts == <<unclear, stray>>
vars == <<controlVars, databaseVars, pc, button, active, disturbed, ghosts>>

Other(r) == IF r = East THEN West ELSE East
passive(e) == Other(active[e])

Step == {"GetRegions", "DnsOff", "Drain", "QueueOff", "AppOff", "Database", "Promote",
         "Attach", "WaitAvailable", "UpdateSecret", "RestartECS", "AppOn", "Reconcile",
         "QueueOn", "DnsOn"}
PC == Step \cup {"idle", "done", "failed"}

Unpressed == Button("none", "none", "none", {})

Busy == {e \in Execution : pc[e] \in Step}

(* All controls are Off after the deployment, until East is switched on. *)
Init ==
  /\ \E open \in SUBSET {East} :
       /\ control = [r \in Region |-> [s \in Scope |-> IF r \in open THEN "On" ELSE "Off"]]
       /\ unclear = (open = {})
  /\ writer = East /\ moving = "nowhere" /\ paired = "yes"
  /\ host = East /\ uses = [r \in Region |-> East] /\ intent = "none"
  /\ pc = [e \in Execution |-> "idle"]
  /\ button = [e \in Execution |-> Unpressed]
  /\ active = [e \in Execution |-> East]
  /\ disturbed = 0
  /\ stray = FALSE

Goto(e, from, to) == pc[e] = from /\ pc' = [pc EXCEPT ![e] = to]

Disturb == disturbed < MaxDisturb /\ disturbed' = disturbed + 1
Undisturbed == disturbed = 0

(* execute_run_book starts an execution and does not look for others. *)
Press(e, b) ==
  /\ \A f \in Execution : pc[f] = "idle" => e <= f
  /\ Goto(e, "idle", "GetRegions")
  /\ button' = [button EXCEPT ![e] = b]
  /\ IF Busy = {} THEN UNCHANGED disturbed ELSE Disturb
  /\ UNCHANGED <<controlVars, databaseVars, active, ghosts>>

Headed == IF moving = "nowhere" THEN writer ELSE moving

GetRegionsFixed(e) ==   \* mutant: East counts as active whatever the controls say
  /\ Goto(e, "GetRegions", "DnsOff")
  /\ active' = [active EXCEPT ![e] = East]
  /\ stray' = (stray \/ East # Headed)
  /\ UNCHANGED <<controlVars, databaseVars, button, disturbed, unclear>>

(* get_regions: East is active if its dns control is on, otherwise West is. *)
GetRegions(e) ==
  /\ Goto(e, "GetRegions", "DnsOff")
  /\ LET found == IF control[East]["dns"] = "On" THEN East ELSE West
     IN  /\ active' = [active EXCEPT ![e] = found]
         /\ stray' = (stray \/ found # Headed)
  /\ UNCHANGED <<controlVars, databaseVars, button, disturbed, unclear>>

(* update_arc_control: when no endpoint takes the update, that is printed.  *)
Switch(r, scope, state) ==
  \/ /\ control' = [control EXCEPT ![r][scope] = state]
     /\ UNCHANGED disturbed
  \/ Disturb /\ UNCHANGED controlVars

SwitchStep(e, from, to, r, scope, state) ==
  /\ Goto(e, from, to)
  /\ Switch(r, scope, state)
  /\ UNCHANGED <<databaseVars, button, active, ghosts>>

QueueOffOnly(e) ==   \* mutant: the application is left on in the old region
  SwitchStep(e, "QueueOff", "Database", active[e], "queue", "Off")

DnsOff(e)   == SwitchStep(e, "DnsOff", "Drain", active[e], "dns", "Off")
QueueOff(e) == SwitchStep(e, "QueueOff", "AppOff", active[e], "queue", "Off")

AppOff(e)   == SwitchStep(e, "AppOff", "Database", active[e], "app", "Off")
AppOn(e)    == SwitchStep(e, "AppOn", "Reconcile", passive(e), "app", "On")
QueueOn(e)  == SwitchStep(e, "QueueOn", "DnsOn", passive(e), "queue", "On")
DnsOn(e)    == SwitchStep(e, "DnsOn", "done", passive(e), "dns", "On")

(* The waits for queues, streams and stores, and the rounds of              *)
(* reconciliation with theirs: they take their time and switch nothing.     *)
TimeStep(e, from, to) ==
  /\ Goto(e, from, to)
  /\ UNCHANGED <<controlVars, databaseVars, button, active, disturbed, ghosts>>

Drain(e)     == TimeStep(e, "Drain", "QueueOff")
Reconcile(e) == TimeStep(e, "Reconcile", "QueueOn")

DatabaseStep(e, from, to) ==
  /\ Goto(e, from, to)
  /\ UNCHANGED <<controlVars, button, active, disturbed, ghosts>>

(* rotate_aurora_global_database: the reader becomes the target of a        *)
(* failover; it is refused while another one is under way.                  *)
Failover(e) ==
  /\ button[e].document # Detach
  /\ DatabaseStep(e, "Database", "WaitAvailable")
  /\ moving = "nowhere" /\ paired \in {"yes", "renamed"}
  /\ moving' = Other(writer)
  /\ UNCHANGED <<writer, paired, host, uses, intent>>

(* detach_and_promote_aurora: the reader leaves the global cluster, ...     *)
Detached(e) ==
  /\ button[e].document = Detach
  /\ DatabaseStep(e, "Database", "Promote")
  /\ moving = "nowhere" /\ paired \in {"yes", "renamed"}
  /\ paired' = "no"
  /\ UNCHANGED <<writer, moving, host, uses, intent>>

(* ... it becomes the writer of a new one, which the secret now names, ...  *)
Promote(e) ==
  /\ DatabaseStep(e, "Promote", "Attach")
  /\ writer' = Other(writer)
  /\ UNCHANGED <<moving, paired, host, uses, intent>>

(* ... and a new cluster in the old region is to join it. *)
Attach(e) ==
  /\ DatabaseStep(e, "Attach", "WaitAvailable")
  /\ paired' = "joining"
  /\ UNCHANGED <<writer, moving, host, uses, intent>>

WaitAvailableAtOnce(e) ==   \* mutant: what was started is not waited for
  /\ DatabaseStep(e, "WaitAvailable", "UpdateSecret")
  /\ UNCHANGED databaseVars

WaitAvailable(e) ==
  /\ DatabaseStep(e, "WaitAvailable", "UpdateSecret")
  /\ moving = "nowhere"
  /\ UNCHANGED databaseVars

UpdateSecret(e) ==
  /\ DatabaseStep(e, "UpdateSecret", "RestartECS")
  /\ host' = writer
  /\ UNCHANGED <<writer, moving, paired, uses, intent>>

(* restart_ecs_service, and the sleep after it: the core tasks of the       *)
(* passive region are stopped and started.                                  *)
RestartECS(e) ==
  /\ DatabaseStep(e, "RestartECS", "AppOn")
  /\ uses' = [uses EXCEPT ![passive(e)] = host]
  /\ UNCHANGED <<writer, moving, paired, host, intent>>

(* A script raises, or its ten minutes are over: the automation aborts, and *)
(* what it has done stays done.                                             *)
Abort(e) ==
  /\ pc[e] \in Step
  /\ pc' = [pc EXCEPT ![e] = "failed"]
  /\ unclear' = TRUE
  /\ UNCHANGED <<controlVars, databaseVars, button, active, disturbed, stray>>

RunStep(e) ==
  \/ GetRegions(e)
  \/ DnsOff(e) \/ Drain(e) \/ QueueOff(e) \/ AppOff(e)
  \/ Failover(e) \/ Detached(e) \/ Promote(e) \/ Attach(e)
  \/ WaitAvailable(e) \/ UpdateSecret(e) \/ RestartECS(e)
  \/ AppOn(e) \/ Reconcile(e) \/ QueueOn(e) \/ DnsOn(e)

(* dbrotation acts on what it reads: first the app controls, of which       *)
(* exactly one has to be On, ...                                            *)
Intended(r) == control[r]["app"] = "On" /\ control[Other(r)]["app"] = "Off"

ReadIntent(r) ==
  /\ intent = "none" /\ Intended(r)
  /\ intent' = r
  /\ UNCHANGED <<controlVars, writer, moving, paired, host, uses>>
  /\ UNCHANGED <<pc, button, active, disturbed, ghosts>>

(* ... then the members of the global cluster with the original name.       *)
SwitchWriter ==
  /\ intent # "none" /\ intent' = "none"
  /\ IF writer # intent /\ moving = "nowhere" /\ paired = "yes"
     THEN /\ moving' = intent
          /\ IF Intended(intent) THEN UNCHANGED disturbed ELSE Disturb
     ELSE UNCHANGED <<moving, disturbed>>
  /\ UNCHANGED <<controlVars, writer, paired, host, uses>>
  /\ UNCHANGED <<pc, button, active, ghosts>>

World == <<controlVars, pc, button, active, disturbed, ghosts>>

(* The failover is over. *)
Moved ==
  /\ moving # "nowhere"
  /\ writer' = moving /\ moving' = "nowhere"
  /\ UNCHANGED <<World, paired, host, uses, intent>>

Joined ==
  /\ paired = "joining" /\ paired' = "renamed"
  /\ UNCHANGED <<World, writer, moving, host, uses, intent>>

(* ECS starts the core tasks of a region again, with the secret of the day. *)
Respawn(r) ==
  /\ uses' = [uses EXCEPT ![r] = host]
  /\ UNCHANGED <<World, writer, moving, paired, host, intent>>

Next ==
  \/ \E e \in Execution :
       \/ \E b \in Offered : Press(e, b)
       \/ RunStep(e)
       \/ Abort(e)
  \/ \E r \in Region : ReadIntent(r)
  \/ SwitchWriter
  \/ \E r \in Region : Respawn(r)
  \/ Moved
  \/ Joined

Spec == Init /\ [][Next]_vars

----------------------------------------------------------------------------
(* Properties. *)

(* Every step is one of the documents', and every button one of the pages'. *)
TypeOK ==
  /\ control \in [Region -> [Scope -> {"On", "Off"}]]
  /\ writer \in Region /\ host \in Region /\ uses \in [Region -> Region]
  /\ moving \in Region \cup {"nowhere"}
  /\ paired \in {"yes", "no", "joining", "renamed"}
  /\ intent \in Region \cup {"none"}
  /\ pc \in [Execution -> PC]
  /\ button \in [Execution -> Offered \cup {Unpressed}]
  /\ active \in [Execution -> Region]
  /\ disturbed \in 0..MaxDisturb
  /\ unclear \in BOOLEAN /\ stray \in BOOLEAN

AllOff(r) == \A s \in Scope : control[r][s] = "Off"

(* As long as executions do not overlap and every update takes effect, at   *)
(* most one region serves, and it is opened from the inside out (clients    *)
(* are sent where the gateway listens, and the gateway listens where the    *)
(* services run), wherever executions end early and whatever is pressed     *)
(* afterwards.                                                              *)
OneRegionServes ==
  Undisturbed =>
    /\ \E r \in Region : AllOff(r)
    /\ \A r \in Region :
         /\ control[r]["dns"] = "On" => control[r]["queue"] = "On"
         /\ control[r]["queue"] = "On" => control[r]["app"] = "On"

(* Clients are sent to the region of the writer, whose tasks use it: a run  *)
(* moves the database and the traffic to the same place, and dbrotation     *)
(* does not interfere, unless GetRegions took the wrong region for active,  *)
(* which happens only after a run that ended early or while no control has  *)
(* ever been On.                                                            *)
WriterFollows ==
  Undisturbed =>
    /\ ~stray => \A r \in Region :
         control[r]["dns"] = "On" => writer = r /\ host = r /\ uses[r] = r
    /\ stray => unclear

(* The steps at which a demand of a row has to be met, and what meets it.   *)
(* The demands about messages, drained and reconciled, are not among them:  *)
(* SeenStaysEmpty of Draining says how much of them comes true.             *)
FromDatabase == {"Database", "Promote", "Attach", "WaitAvailable"}
FromRestart  == {"AppOn", "Reconcile", "QueueOn", "DnsOn"}
FromSecret   == {"UpdateSecret", "RestartECS"} \cup FromRestart
Inward       == {"quiesced", "stopped", "moved", "started", "closed"}

Due(demand) ==
  CASE demand = "quiesced" -> {"Drain", "QueueOff", "AppOff"} \cup FromDatabase \cup FromSecret
    [] demand = "stopped" -> FromDatabase \cup FromSecret
    [] demand = "moved" -> FromSecret
    [] demand = "started" -> FromRestart \ {"AppOn"}
    [] demand = "closed" -> FromRestart \ {"DnsOn"}

Met(e, demand) ==
  CASE demand = "quiesced" -> control[active[e]]["dns"] = "Off"
    [] demand = "stopped" -> AllOff(active[e])
    [] demand = "moved" -> writer = passive(e)
    [] demand = "started" -> control[passive(e)]["app"] = "On" /\ uses[passive(e)] = writer
    [] demand = "closed" -> control[passive(e)]["dns"] = "Off" /\ control[passive(e)]["queue"] = "Off"

(* What the rows of the acceptance and integration pages announce of the    *)
(* controls, the database and the tasks comes true in every undisturbed     *)
(* execution that took the right region for active: clients are turned away *)
(* and the application is shut down before the database moves, the writer   *)
(* has moved before the application is started with it, and in a recovery   *)
(* no external entry is open before the application runs.                   *)
DemandsAreMet ==
  Undisturbed /\ ~stray =>
    \A e \in Busy : \A demand \in button[e].demands \cap Inward :
      pc[e] \in Due(demand) => Met(e, demand)
=============================================================================
