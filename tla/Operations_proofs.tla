------------------------- MODULE Operations_proofs -------------------------
(***************************************************************************)
(* Proofs about what the operator works with.  Rotation: its type           *)
(* invariant, that at most one region serves, that the writer is where the  *)
(* clients are sent, and that a run keeps what its row demands, for any     *)
(* executions, buttons and bounds.  Draining: that what a look has passed   *)
(* stays empty, however many messages there are.  ChaosTesting: that the    *)
(* rows of the page keep their word, for any deployment and clicks.         *)
(* Dashboard: that what the pages show was the case, and that the first row *)
(* of a monitor does not reassure too much, for any resources and loads.    *)
(***************************************************************************)
EXTENDS Rotation, Draining, ChaosTesting, Dashboard, TLAPS

----------------------------------------------------------------------------
(* Rotation. *)

(* The steps of a run after GetRegions, after clients are turned away, with *)
(* the queue and then the application Off, and with the application On in   *)
(* the other region.                                                        *)
Started    == Step \ {"GetRegions"}
Quiesced   == Started \ {"DnsOff"}
Unheard    == Quiesced \ {"Drain", "QueueOff"}
Stopped    == Unheard \ {"AppOff"}
Reopened   == {"Reconcile", "QueueOn", "DnsOn"}
Unmoved    == {"DnsOff", "Drain", "QueueOff", "AppOff", "Database", "Promote"}
Moving     == {"Attach", "WaitAvailable"}

(* No two runs are busy, and what a run has switched stays as it is until   *)
(* the run is over.                                                         *)
ControlInv ==
  /\ \A e, f \in Busy : e = f
  /\ \A e \in Execution :
       /\ pc[e] \in Started => control[passive(e)]["dns"] = "Off"
       /\ pc[e] \in Quiesced => control[active[e]]["dns"] = "Off"
       /\ pc[e] \in Unheard => control[active[e]]["queue"] = "Off"
       /\ pc[e] \in Stopped => control[active[e]]["app"] = "Off"
       /\ pc[e] \in Reopened => control[passive(e)]["app"] = "On"
       /\ pc[e] = "DnsOn" => control[passive(e)]["queue"] = "On"
  /\ \E r \in Region : AllOff(r)
  /\ \A r \in Region :
       /\ control[r]["dns"] = "On" => control[r]["queue"] = "On"
       /\ control[r]["queue"] = "On" => control[r]["app"] = "On"

(* An application is On only where the writer is or goes, and clients are   *)
(* sent only where it is and is used.                                       *)
PlaceInv ==
  \A r \in Region :
    /\ control[r]["app"] = "On" => Headed = r
    /\ control[r]["dns"] = "On" =>
         moving = "nowhere" /\ writer = r /\ host = r /\ uses[r] = r

(* Where the writer, the secret and the tasks are at each step of a run. *)
MoveInv ==
  \A e \in Execution :
    /\ pc[e] \in Unmoved => Headed = active[e]
    /\ pc[e] = "Promote" => moving = "nowhere"
    /\ pc[e] \in Moving => Headed = passive(e)
    /\ pc[e] \in FromSecret => moving = "nowhere" /\ writer = passive(e)
    /\ pc[e] \in {"RestartECS"} \cup FromRestart => host = passive(e)
    /\ pc[e] \in FromRestart => uses[passive(e)] = passive(e)

(* The gateway of the other region is not opened before the last steps. *)
ClosedInv ==
  \A e \in Execution :
    pc[e] \in FromDatabase \cup (FromSecret \ {"DnsOn"}) => control[passive(e)]["queue"] = "Off"

(* As long as no run ends early, a control is On whenever none is busy, so  *)
(* that the next run finds the right region.                                *)
UnclearInv ==
  ~unclear => /\ ~stray
              /\ (\A e \in Execution : pc[e] \notin Started) =>
                   \E r \in Region : control[r]["dns"] = "On"

RightInv == PlaceInv /\ MoveInv /\ ClosedInv

IInv ==
  /\ TypeOK
  /\ Undisturbed =>
       /\ ControlInv
       /\ UnclearInv
       /\ ~stray => RightInv

(* The regions, and the other one of each. *)
LEMMA RegionFacts ==
  /\ East \in Region /\ West \in Region /\ East # West
  /\ "nowhere" \notin Region /\ "none" \notin Region
  /\ \A r \in Region :
       /\ Other(r) \in Region /\ Other(r) # r /\ Other(Other(r)) = r
       /\ \A q \in Region : q # r => q = Other(r)
  BY DEF East, West, Region, Other

(* The initial states satisfy the invariant. *)
LEMMA InitInv == Init => IInv
  <1> SUFFICES ASSUME Init PROVE IInv
    OBVIOUS
  <1>1. TypeOK
    <2>1. PICK open \in SUBSET {East} :
            /\ control = [r \in Region |-> [s \in Scope |-> IF r \in open THEN "On" ELSE "Off"]]
            /\ unclear = (open = {})
      BY DEF Init
    <2>2. control \in [Region -> [Scope -> {"On", "Off"}]] /\ unclear \in BOOLEAN
      BY <2>1
    <2>4. /\ writer \in Region /\ host \in Region /\ uses \in [Region -> Region]
          /\ moving \in Region \cup {"nowhere"}
          /\ paired \in {"yes", "no", "joining", "renamed"}
          /\ intent \in Region \cup {"none"}
      BY RegionFacts DEF Init
    <2>5. /\ pc \in [Execution -> PC]
          /\ button \in [Execution -> Offered \cup {Unpressed}]
          /\ active \in [Execution -> Region]
      BY RegionFacts DEF Init, PC
    <2>6. disturbed \in 0..MaxDisturb
      BY RotationBounds DEF Init
    <2>7. stray \in BOOLEAN
      BY Zenon DEF Init
    <2> QED
      BY <2>2, <2>4, <2>5, <2>6, <2>7 DEF TypeOK
  <1>3. \A e \in Execution : pc[e] = "idle"
    BY DEF Init
  <1>4. PICK open \in SUBSET {East} :
          /\ control = [r \in Region |-> [s \in Scope |-> IF r \in open THEN "On" ELSE "Off"]]
          /\ unclear = (open = {})
    BY DEF Init
  <1>5. ControlInv
    <2>1. AllOff(West)
      BY <1>4, RegionFacts DEF AllOff
    <2>2. \A r \in Region : /\ control[r]["dns"] = "On" => control[r]["queue"] = "On"
                            /\ control[r]["queue"] = "On" => control[r]["app"] = "On"
      BY <1>4 DEF Scope
    <2> QED
      BY <1>3, <2>1, <2>2, RegionFacts
         DEF ControlInv, Busy, Step, Started, Quiesced, Unheard, Stopped, Reopened, Scope
  <1>7. UnclearInv
    <2>1. CASE open = {}
      <3>1. unclear
        BY <1>4, <2>1, Zenon
      <3> QED
        BY <3>1 DEF UnclearInv
    <2>2. CASE open # {}
      <3>1. control[East]["dns"] = "On"
        BY <1>4, <2>2, RegionFacts DEF Scope
      <3>2. ~stray
        BY Zenon DEF Init
      <3> QED
        BY <3>1, <3>2, RegionFacts DEF UnclearInv
    <2> QED
      BY <2>1, <2>2
  <1>8. PlaceInv
    BY <1>4, RegionFacts DEF PlaceInv, Init, Headed, Scope
  <1>9. MoveInv /\ ClosedInv
    BY <1>3 DEF MoveInv, ClosedInv, Unmoved, Moving, FromDatabase, FromSecret, FromRestart
  <1> QED
    BY <1>1, <1>5, <1>7, <1>8, <1>9 DEF IInv, RightInv

(* A step of an execution changes no other one's. *)
LEMMA GotoFacts ==
  ASSUME TypeOK, NEW e \in Execution, NEW from, NEW to, Goto(e, from, to)
  PROVE  /\ pc[e] = from
         /\ \A f \in Execution : pc'[f] = IF f = e THEN to ELSE pc[f]
         /\ to \in PC => pc' \in [Execution -> PC]
  BY DEF TypeOK, Goto

(* A disturbance is counted, and one that is not counted did not happen. *)
LEMMA DisturbFacts ==
  ASSUME TypeOK, Disturb
  PROVE  disturbed' \in 0..MaxDisturb /\ ~Undisturbed'
  BY RotationBounds DEF TypeOK, Disturb, Undisturbed

(* An undisturbed update takes effect on one control. *)
LEMMA SwitchFacts ==
  ASSUME TypeOK, NEW r \in Region, NEW s \in Scope, NEW st \in {"On", "Off"},
         Switch(r, s, st)
  PROVE  /\ control' \in [Region -> [Scope -> {"On", "Off"}]]
         /\ disturbed' \in 0..MaxDisturb
         /\ Undisturbed' =>
              /\ Undisturbed
              /\ \A q \in Region, t \in Scope :
                   control'[q][t] = IF q = r /\ t = s THEN st ELSE control[q][t]
  <1>1. CASE Disturb /\ UNCHANGED controlVars
    BY <1>1, DisturbFacts DEF TypeOK, controlVars
  <1>2. CASE control' = [control EXCEPT ![r][s] = st] /\ UNCHANGED disturbed
    BY <1>2 DEF TypeOK, Undisturbed
  <1> QED
    BY <1>1, <1>2 DEF Switch

(* The type invariant is kept by every step. *)
LEMMA TypeStep == TypeOK /\ [Next]_vars => TypeOK'
  <1> SUFFICES ASSUME TypeOK, [Next]_vars PROVE TypeOK'
    OBVIOUS
  <1> USE RegionFacts
  <1>1. ASSUME NEW e \in Execution, NEW b \in Offered, Press(e, b) PROVE TypeOK'
    <2>1. disturbed' \in 0..MaxDisturb
      <3>1. CASE Busy = {}
        BY <1>1, <3>1 DEF Press, TypeOK
      <3>2. CASE Busy # {}
        BY <1>1, <3>2, DisturbFacts DEF Press
      <3> QED
        BY <3>1, <3>2
    <2>2. pc' \in [Execution -> PC] /\ button' \in [Execution -> Offered \cup {Unpressed}]
      BY <1>1 DEF Press, Goto, TypeOK, PC, Step
    <2> QED
      BY <1>1, <2>1, <2>2 DEF Press, TypeOK, controlVars, databaseVars, ghosts
  <1>2. ASSUME NEW e \in Execution, GetRegions(e) PROVE TypeOK'
    <2>1. pc' \in [Execution -> PC] /\ active' \in [Execution -> Region]
      BY <1>2 DEF GetRegions, Goto, TypeOK, PC, Step
    <2>2. stray' \in BOOLEAN
      BY <1>2, Zenon DEF GetRegions
    <2> QED
      BY <1>2, <2>1, <2>2 DEF GetRegions, TypeOK, controlVars, databaseVars
  <1>3. ASSUME NEW e \in Execution, NEW from, NEW to \in Step \cup {"done"},
               NEW r \in Region, NEW s \in Scope, NEW st \in {"On", "Off"},
               SwitchStep(e, from, to, r, s, st)
        PROVE  TypeOK'
    <2>1. control' \in [Region -> [Scope -> {"On", "Off"}]] /\ disturbed' \in 0..MaxDisturb
      BY <1>3, SwitchFacts DEF SwitchStep
    <2>2. pc' \in [Execution -> PC]
      BY <1>3, GotoFacts DEF SwitchStep, PC
    <2> QED
      BY <1>3, <2>1, <2>2 DEF SwitchStep, TypeOK, databaseVars, ghosts
  <1>4. ASSUME NEW e \in Execution, Drain(e) \/ Reconcile(e) PROVE TypeOK'
    <2>1. PICK from \in Step, to \in Step : TimeStep(e, from, to)
      BY <1>4 DEF Drain, Reconcile, Step
    <2>2. pc' \in [Execution -> PC]
      BY <2>1, GotoFacts DEF TimeStep, PC
    <2> QED
      BY <2>1, <2>2 DEF TimeStep, TypeOK, controlVars, databaseVars, ghosts
  <1>5. ASSUME NEW e \in Execution, NEW from \in Step, NEW to \in Step,
               DatabaseStep(e, from, to),
               writer' \in Region, moving' \in Region \cup {"nowhere"},
               paired' \in {"yes", "no", "joining", "renamed"}, host' \in Region,
               uses' \in [Region -> Region], UNCHANGED intent
        PROVE  TypeOK'
    <2>1. pc' \in [Execution -> PC]
      BY <1>5, GotoFacts DEF DatabaseStep, PC
    <2> QED
      BY <1>5, <2>1 DEF DatabaseStep, TypeOK, controlVars, ghosts
  <1>6. ASSUME NEW e \in Execution, Abort(e) PROVE TypeOK'
    BY <1>6 DEF Abort, TypeOK, PC, controlVars, databaseVars
  <1>7. ASSUME NEW e \in Execution, RunStep(e) PROVE TypeOK'
    <2>1. active[e] \in Region /\ passive(e) \in Region
      BY DEF TypeOK, passive
    <2>2. ASSUME DnsOff(e) \/ QueueOff(e) \/ AppOff(e) PROVE TypeOK'
      BY <1>3, <2>1, <2>2 DEF DnsOff, QueueOff, AppOff, Scope, Step
    <2>3. ASSUME AppOn(e) \/ QueueOn(e) \/ DnsOn(e) PROVE TypeOK'
      BY <1>3, <2>1, <2>3 DEF AppOn, QueueOn, DnsOn, Scope, Step
    <2>4. ASSUME Failover(e) \/ Detached(e) \/ Promote(e) \/ Attach(e)
                 \/ WaitAvailable(e) \/ UpdateSecret(e) \/ RestartECS(e)
          PROVE  TypeOK'
      <3>1. PICK from \in Step, to \in Step : DatabaseStep(e, from, to)
        BY <2>4 DEF Failover, Detached, Promote, Attach, WaitAvailable, UpdateSecret,
                    RestartECS, Step
      <3>2. /\ writer' \in Region /\ moving' \in Region \cup {"nowhere"}
            /\ paired' \in {"yes", "no", "joining", "renamed"} /\ host' \in Region
            /\ UNCHANGED intent
        BY <2>4 DEF Failover, Detached, Promote, Attach, WaitAvailable, UpdateSecret,
                    RestartECS, databaseVars, TypeOK
      <3>3. uses' \in [Region -> Region]
        BY <2>4 DEF Failover, Detached, Promote, Attach, WaitAvailable, UpdateSecret,
                    RestartECS, databaseVars, TypeOK
      <3> QED
        BY <1>5, <3>1, <3>2, <3>3
    <2> QED
      BY <1>2, <1>4, <1>7, <2>2, <2>3, <2>4 DEF RunStep
  <1>8. ASSUME NEW r \in Region, ReadIntent(r) PROVE TypeOK'
    BY <1>8 DEF ReadIntent, TypeOK, controlVars, ghosts
  <1>9. ASSUME SwitchWriter PROVE TypeOK'
    <2>1. disturbed' \in 0..MaxDisturb
      <3>1. CASE Disturb
        BY <3>1, DisturbFacts
      <3>2. CASE UNCHANGED disturbed
        BY <3>2 DEF TypeOK
      <3> QED
        BY <1>9, <3>1, <3>2 DEF SwitchWriter
    <2>2. intent' \in Region \cup {"none"} /\ moving' \in Region \cup {"nowhere"}
      BY <1>9 DEF SwitchWriter, TypeOK
    <2> QED
      BY <1>9, <2>1, <2>2 DEF SwitchWriter, TypeOK, controlVars, ghosts
  <1>10. ASSUME UNCHANGED <<World, intent>>,
                writer' \in Region, moving' \in Region \cup {"nowhere"},
                paired' \in {"yes", "no", "joining", "renamed"}, host' \in Region,
                uses' \in [Region -> Region]
         PROVE  TypeOK'
    BY <1>10 DEF World, TypeOK, controlVars, ghosts
  <1>11. ASSUME Moved \/ Joined \/ \E r \in Region : Respawn(r) PROVE TypeOK'
    <2>1. UNCHANGED <<World, intent>>
      BY <1>11 DEF Moved, Joined, Respawn
    <2>2. /\ writer' \in Region /\ moving' \in Region \cup {"nowhere"}
          /\ paired' \in {"yes", "no", "joining", "renamed"} /\ host' \in Region
      BY <1>11 DEF Moved, Joined, Respawn, TypeOK
    <2>3. uses' \in [Region -> Region]
      BY <1>11 DEF Moved, Joined, Respawn, TypeOK
    <2> QED
      BY <1>10, <2>1, <2>2, <2>3
  <1>12. ASSUME UNCHANGED vars PROVE TypeOK'
    BY <1>12 DEF vars, TypeOK, controlVars, databaseVars, ghosts
  <1> QED
    BY <1>1, <1>6, <1>7, <1>8, <1>9, <1>11, <1>12 DEF Next

(* A disturbance is never taken back, nor is a wrong region. *)
LEMMA GhostStep ==
  ASSUME TypeOK, [Next]_vars
  PROVE  (Undisturbed' => Undisturbed) /\ (~stray' => ~stray)
  <1>1. disturbed' = disturbed \/ Disturb
    <2>1. ASSUME NEW e \in Execution, RunStep(e) PROVE disturbed' = disturbed \/ Disturb
      <3>1. CASE \/ DnsOff(e) \/ QueueOff(e) \/ AppOff(e)
                 \/ AppOn(e) \/ QueueOn(e) \/ DnsOn(e)
        BY <3>1 DEF DnsOff, QueueOff, AppOff, AppOn, QueueOn, DnsOn, SwitchStep, Switch
      <3>2. CASE Drain(e) \/ Reconcile(e)
        BY <3>2 DEF Drain, Reconcile, TimeStep
      <3>3. CASE \/ Failover(e) \/ Detached(e) \/ Promote(e) \/ Attach(e)
                 \/ WaitAvailable(e) \/ UpdateSecret(e) \/ RestartECS(e)
        BY <3>3 DEF Failover, Detached, Promote, Attach, WaitAvailable, UpdateSecret, RestartECS,
                    DatabaseStep
      <3>4. CASE GetRegions(e)
        BY <3>4 DEF GetRegions
      <3> QED
        BY <2>1, <3>1, <3>2, <3>3, <3>4 DEF RunStep
    <2>2. ASSUME NEW e \in Execution, (\E b \in Offered : Press(e, b)) \/ Abort(e)
          PROVE  disturbed' = disturbed \/ Disturb
      BY <2>2 DEF Press, Abort
    <2>3. ASSUME NEW r \in Region, ReadIntent(r) \/ Respawn(r)
          PROVE  disturbed' = disturbed
      BY <2>3 DEF ReadIntent, Respawn, World
    <2>4. CASE SwitchWriter
      BY <2>4 DEF SwitchWriter
    <2>5. CASE Moved \/ Joined \/ UNCHANGED vars
      BY <2>5 DEF Moved, Joined, World, vars
    <2> QED
      BY <2>1, <2>2, <2>3, <2>4, <2>5 DEF Next
  <1>2. Undisturbed' => Undisturbed
    BY <1>1, DisturbFacts DEF Undisturbed
  <1>3. stray' = stray \/ \E e \in Execution : GetRegions(e)
    BY DEF Next, RunStep, Press, DnsOff, QueueOff, AppOff, AppOn, QueueOn, DnsOn,
           SwitchStep, Drain, Reconcile, TimeStep, Failover, Detached, Promote, Attach,
           WaitAvailable, UpdateSecret, RestartECS, DatabaseStep, Abort, ReadIntent,
           SwitchWriter, Moved, Joined, Respawn, World, ghosts, vars
  <1>4. ~stray' => ~stray
    BY <1>3, Zenon DEF GetRegions
  <1> QED
    BY <1>2, <1>4

(* While nothing is disturbed the run that makes a step is the only one. *)
LEMMA RunFacts ==
  ASSUME TypeOK, ControlInv, NEW e \in Execution, NEW from \in Step, NEW to, Goto(e, from, to)
  PROVE  /\ pc[e] = from
         /\ \A f \in Execution : pc'[f] = IF f = e THEN to ELSE pc[f]
         /\ \A f, g \in Busy' : f = g
         /\ \A f \in Execution : f # e => pc'[f] \notin Step
  <1>1. pc[e] = from /\ \A f \in Execution : pc'[f] = IF f = e THEN to ELSE pc[f]
    BY GotoFacts
  <1>2. \A f \in Execution : f # e => pc[f] \notin Step
    BY <1>1 DEF ControlInv, Busy
  <1> QED
    BY <1>1, <1>2 DEF Busy

(* The same for a step that switches a control. *)
LEMMA RunSwitchFacts ==
  ASSUME TypeOK, ControlInv, Undisturbed', NEW e \in Execution, NEW from \in Step, NEW to,
         NEW r \in Region, NEW c \in Scope, NEW st \in {"On", "Off"},
         SwitchStep(e, from, to, r, c, st)
  PROVE  /\ pc[e] = from /\ active' = active
         /\ \A f \in Execution : pc'[f] = IF f = e THEN to ELSE pc[f]
         /\ \A f, g \in Busy' : f = g
         /\ \A f \in Execution : f # e => pc'[f] \notin Step
         /\ \A q \in Region, t \in Scope :
              control'[q][t] = IF q = r /\ t = c THEN st ELSE control[q][t]
  <1>1. Goto(e, from, to) /\ Switch(r, c, st) /\ active' = active
    BY DEF SwitchStep
  <1>2. \A q \in Region, t \in Scope :
          control'[q][t] = IF q = r /\ t = c THEN st ELSE control[q][t]
    BY <1>1, SwitchFacts
  <1> QED
    BY <1>1, <1>2, RunFacts

(* A run closes one region before it opens the other one, and nothing else  *)
(* switches a control.                                                      *)
LEMMA ControlStep ==
  ASSUME TypeOK, TypeOK', Undisturbed, Undisturbed', ControlInv, [Next]_vars
  PROVE  ControlInv'
  <1> USE RegionFacts
  <1> USE DEF Started, Quiesced, Unheard, Stopped, Reopened, Step
  <1>1. ASSUME UNCHANGED <<pc, active, control>> PROVE ControlInv'
    BY <1>1 DEF ControlInv, Busy, passive, AllOff
  <1>2. ASSUME NEW e \in Execution, NEW b \in Offered, Press(e, b) PROVE ControlInv'
    <2>1. Busy = {}
      BY <1>2, DisturbFacts DEF Press
    <2>2. Goto(e, "idle", "GetRegions") /\ UNCHANGED <<active, control>>
      BY <1>2 DEF Press, controlVars
    <2>3. \A f \in Execution : pc'[f] = IF f = e THEN "GetRegions" ELSE pc[f]
      BY <2>2, GotoFacts
    <2>4. \A f, g \in Busy' : f = g
      BY <2>1, <2>3 DEF Busy
    <2> QED
      BY <2>2, <2>3, <2>4 DEF ControlInv, passive, AllOff
  <1>3. ASSUME NEW e \in Execution, NEW from \in Step, NEW to \in Step \cup {"failed"},
               Goto(e, from, to), UNCHANGED <<active, control>>,
               to \in Started => from \in Started, to \in Quiesced => from \in Quiesced,
               to \in Unheard => from \in Unheard, to \in Stopped => from \in Stopped,
               to \in Reopened => from \in Reopened, to # "DnsOn"
        PROVE  ControlInv'
    <2>1. /\ pc[e] = from
          /\ \A f \in Execution : pc'[f] = IF f = e THEN to ELSE pc[f]
          /\ \A f, g \in Busy' : f = g
      BY <1>3, RunFacts
    <2> QED
      BY <1>3, <2>1 DEF ControlInv, passive, AllOff
  <1>4. ASSUME NEW e \in Execution, GetRegions(e) PROVE ControlInv'
    <2>1. /\ pc[e] = "GetRegions"
          /\ \A f \in Execution : pc'[f] = IF f = e THEN "DnsOff" ELSE pc[f]
          /\ \A f, g \in Busy' : f = g
          /\ \A f \in Execution : f # e => pc'[f] \notin Step
      BY <1>4, RunFacts DEF GetRegions
    <2>2. /\ control' = control
          /\ active'[e] = IF control[East]["dns"] = "On" THEN East ELSE West
      BY <1>4 DEF GetRegions, controlVars, TypeOK
    <2>3. control[Other(active'[e])]["dns"] = "Off"
      <3>1. CASE control[East]["dns"] = "On"
        <4>1. ~AllOff(East)
          BY <3>1 DEF AllOff, Scope
        <4>2. AllOff(West)
          BY <4>1 DEF ControlInv, Region
        <4> QED
          BY <2>2, <3>1, <4>2 DEF AllOff, Scope, Other
      <3>2. CASE control[East]["dns"] # "On"
        BY <2>2, <3>2 DEF Other, TypeOK, Scope
      <3> QED
        BY <3>1, <3>2
    <2> QED
      BY <2>1, <2>2, <2>3 DEF ControlInv, passive, AllOff
  <1>5. ASSUME NEW e \in Execution, DnsOff(e) PROVE ControlInv'
    <2>1. active[e] \in Region /\ passive(e) \in Region /\ passive(e) # active[e]
      BY DEF TypeOK, passive
    <2>2. /\ pc[e] = "DnsOff" /\ active' = active
          /\ \A f \in Execution : pc'[f] = IF f = e THEN "Drain" ELSE pc[f]
          /\ \A f, g \in Busy' : f = g
          /\ \A f \in Execution : f # e => pc'[f] \notin Step
          /\ \A q \in Region, t \in Scope :
               control'[q][t] = IF q = active[e] /\ t = "dns" THEN "Off" ELSE control[q][t]
      BY <1>5, <2>1, RunSwitchFacts DEF DnsOff, Scope
    <2>3. \E r \in Region : AllOff(r)'
      BY <2>2 DEF ControlInv, AllOff, Scope
    <2> QED
      BY <2>1, <2>2, <2>3 DEF ControlInv, passive, Scope
  <1>6. ASSUME NEW e \in Execution, QueueOff(e) PROVE ControlInv'
    <2>1. active[e] \in Region /\ passive(e) \in Region /\ passive(e) # active[e]
      BY DEF TypeOK, passive
    <2>2. /\ pc[e] = "QueueOff" /\ active' = active
          /\ \A f \in Execution : pc'[f] = IF f = e THEN "AppOff" ELSE pc[f]
          /\ \A f, g \in Busy' : f = g
          /\ \A f \in Execution : f # e => pc'[f] \notin Step
          /\ \A q \in Region, t \in Scope :
               control'[q][t] = IF q = active[e] /\ t = "queue" THEN "Off" ELSE control[q][t]
      BY <1>6, <2>1, RunSwitchFacts DEF QueueOff, Scope
    <2>3. \E r \in Region : AllOff(r)'
      BY <2>2 DEF ControlInv, AllOff, Scope
    <2> QED
      BY <2>1, <2>2, <2>3 DEF ControlInv, passive, Scope
  <1>7. ASSUME NEW e \in Execution, AppOff(e) PROVE ControlInv'
    <2>1. active[e] \in Region /\ passive(e) \in Region /\ passive(e) # active[e]
      BY DEF TypeOK, passive
    <2>2. /\ pc[e] = "AppOff" /\ active' = active
          /\ \A f \in Execution : pc'[f] = IF f = e THEN "Database" ELSE pc[f]
          /\ \A f, g \in Busy' : f = g
          /\ \A f \in Execution : f # e => pc'[f] \notin Step
          /\ \A q \in Region, t \in Scope :
               control'[q][t] = IF q = active[e] /\ t = "app" THEN "Off" ELSE control[q][t]
      BY <1>7, <2>1, RunSwitchFacts DEF AppOff, Scope
    <2>3. \E r \in Region : AllOff(r)'
      BY <2>2 DEF ControlInv, AllOff, Scope
    <2> QED
      BY <2>1, <2>2, <2>3 DEF ControlInv, passive, Scope
  <1>8. ASSUME NEW e \in Execution, AppOn(e) PROVE ControlInv'
    <2>1. active[e] \in Region /\ passive(e) \in Region /\ passive(e) # active[e]
      BY DEF TypeOK, passive
    <2>2. /\ pc[e] = "AppOn" /\ active' = active
          /\ \A f \in Execution : pc'[f] = IF f = e THEN "Reconcile" ELSE pc[f]
          /\ \A f, g \in Busy' : f = g
          /\ \A f \in Execution : f # e => pc'[f] \notin Step
          /\ \A q \in Region, t \in Scope :
               control'[q][t] = IF q = passive(e) /\ t = "app" THEN "On" ELSE control[q][t]
      BY <1>8, <2>1, RunSwitchFacts DEF AppOn, Scope
    <2>3. AllOff(active[e])'
      BY <2>1, <2>2 DEF ControlInv, AllOff, Scope
    <2> QED
      BY <2>1, <2>2, <2>3 DEF ControlInv, passive, Scope
  <1>9. ASSUME NEW e \in Execution, QueueOn(e) PROVE ControlInv'
    <2>1. active[e] \in Region /\ passive(e) \in Region /\ passive(e) # active[e]
      BY DEF TypeOK, passive
    <2>2. /\ pc[e] = "QueueOn" /\ active' = active
          /\ \A f \in Execution : pc'[f] = IF f = e THEN "DnsOn" ELSE pc[f]
          /\ \A f, g \in Busy' : f = g
          /\ \A f \in Execution : f # e => pc'[f] \notin Step
          /\ \A q \in Region, t \in Scope :
               control'[q][t] = IF q = passive(e) /\ t = "queue" THEN "On" ELSE control[q][t]
      BY <1>9, <2>1, RunSwitchFacts DEF QueueOn, Scope
    <2>3. AllOff(active[e])'
      BY <2>1, <2>2 DEF ControlInv, AllOff, Scope
    <2> QED
      BY <2>1, <2>2, <2>3 DEF ControlInv, passive, Scope
  <1>10. ASSUME NEW e \in Execution, DnsOn(e) PROVE ControlInv'
    <2>1. active[e] \in Region /\ passive(e) \in Region /\ passive(e) # active[e]
      BY DEF TypeOK, passive
    <2>2. /\ pc[e] = "DnsOn" /\ active' = active
          /\ \A f \in Execution : pc'[f] = IF f = e THEN "done" ELSE pc[f]
          /\ \A f, g \in Busy' : f = g
          /\ \A f \in Execution : f # e => pc'[f] \notin Step
          /\ \A q \in Region, t \in Scope :
               control'[q][t] = IF q = passive(e) /\ t = "dns" THEN "On" ELSE control[q][t]
      <3>1. /\ Goto(e, "DnsOn", "done") /\ Switch(passive(e), "dns", "On")
            /\ active' = active
        BY <1>10 DEF DnsOn, SwitchStep
      <3>2. \A q \in Region, t \in Scope :
              control'[q][t] = IF q = passive(e) /\ t = "dns" THEN "On" ELSE control[q][t]
        BY <2>1, <3>1, SwitchFacts DEF Scope
      <3>3. pc[e] = "DnsOn" /\ \A f \in Execution : pc'[f] = IF f = e THEN "done" ELSE pc[f]
        BY <3>1, GotoFacts
      <3>4. \A f \in Execution : f # e => pc[f] \notin Step
        BY <3>3 DEF ControlInv, Busy
      <3> QED
        BY <3>1, <3>2, <3>3, <3>4 DEF Busy
    <2>3. AllOff(active[e])'
      <3>1. \A s \in Scope : control[active[e]][s] = "Off"
        BY <2>2 DEF ControlInv, Scope
      <3> QED
        BY <2>1, <2>2, <3>1 DEF AllOff
    <2> QED
      BY <2>1, <2>2, <2>3 DEF ControlInv, passive, Scope
  <1>11. ASSUME NEW e \in Execution, Drain(e) \/ Reconcile(e) PROVE ControlInv'
    BY <1>3, <1>11 DEF Drain, Reconcile, TimeStep, controlVars
  <1>12. ASSUME NEW e \in Execution,
                Failover(e) \/ Detached(e) \/ Promote(e) \/ Attach(e) \/ WaitAvailable(e)
                \/ UpdateSecret(e) \/ RestartECS(e)
         PROVE  ControlInv'
    BY <1>3, <1>12
       DEF Failover, Detached, Promote, Attach, WaitAvailable, UpdateSecret, RestartECS,
           DatabaseStep, controlVars
  <1>13. ASSUME NEW e \in Execution, Abort(e) PROVE ControlInv'
    <2>1. pc[e] \in Step /\ Goto(e, pc[e], "failed") /\ UNCHANGED <<active, control>>
      BY <1>13 DEF Abort, Goto, controlVars
    <2> QED
      BY <1>3, <2>1
  <1>14. ASSUME \/ SwitchWriter \/ Moved \/ Joined
                \/ \E r \in Region : ReadIntent(r) \/ Respawn(r)
                \/ UNCHANGED vars
         PROVE  ControlInv'
    BY <1>1, <1>14
       DEF SwitchWriter, Moved, Joined, ReadIntent, Respawn, World, controlVars, vars
  <1> QED
    BY <1>2, <1>4, <1>5, <1>6, <1>7, <1>8, <1>9, <1>10, <1>11, <1>12, <1>13, <1>14
       DEF Next, RunStep

(* While no run has taken the wrong region, the writer is moved only while  *)
(* both regions are closed, and only to the region opened next.             *)
LEMMA PlaceStep ==
  ASSUME TypeOK, TypeOK', Undisturbed, Undisturbed', ~stray, ~stray', ControlInv,
         PlaceInv, MoveInv, [Next]_vars
  PROVE  PlaceInv' /\ MoveInv'
  <1> USE RegionFacts
  <1> USE DEF Started, Quiesced, Unheard, Stopped, Reopened, Step, Unmoved, Moving,
              FromSecret, FromRestart
  <1>1. ASSUME NEW e \in Execution, NEW from, NEW to, Goto(e, from, to),
               UNCHANGED <<active, databaseVars>>, to # "Promote",
               to \in Unmoved => from \in Unmoved, to \in Moving => from \in Moving,
               to \in FromSecret => from \in FromSecret,
               to \in {"RestartECS"} \cup FromRestart => from \in {"RestartECS"} \cup FromRestart,
               to \in FromRestart => from \in FromRestart
        PROVE  MoveInv'
    <2>1. pc[e] = from /\ \A f \in Execution : pc'[f] = IF f = e THEN to ELSE pc[f]
      BY <1>1, GotoFacts
    <2> QED
      BY <1>1, <2>1 DEF MoveInv, Headed, passive, databaseVars
  <1>2. ASSUME UNCHANGED <<control, databaseVars>> PROVE PlaceInv'
    BY <1>2 DEF PlaceInv, Headed, databaseVars
  <1>3. ASSUME NEW e \in Execution, NEW b \in Offered, Press(e, b) PROVE PlaceInv' /\ MoveInv'
    BY <1>1, <1>2, <1>3 DEF Press, controlVars
  <1>4. ASSUME NEW e \in Execution, GetRegions(e) PROVE PlaceInv' /\ MoveInv'
    <2>1. \A f \in Execution : pc'[f] = IF f = e THEN "DnsOff" ELSE pc[f]
      BY <1>4, GotoFacts DEF GetRegions
    <2>2. \A f \in Execution : f # e => active'[f] = active[f]
      BY <1>4 DEF GetRegions, TypeOK
    <2>3. active'[e] = Headed
      <3> DEFINE found == IF control[East]["dns"] = "On" THEN East ELSE West
      <3>1. stray' = (stray \/ found # Headed) /\ active' = [active EXCEPT ![e] = found]
        BY <1>4 DEF GetRegions
      <3> HIDE DEF found
      <3>2. found = Headed
        BY <3>1, Zenon
      <3> QED
        BY <3>1, <3>2 DEF TypeOK
    <2>4. UNCHANGED <<control, databaseVars>>
      BY <1>4 DEF GetRegions, controlVars
    <2>5. MoveInv'
      BY <2>1, <2>2, <2>3, <2>4 DEF MoveInv, Headed, passive, databaseVars
    <2> QED
      BY <1>2, <2>4, <2>5
  <1>5. ASSUME NEW e \in Execution, DnsOff(e) \/ QueueOff(e) \/ AppOff(e)
        PROVE  PlaceInv' /\ MoveInv'
    <2>1. PICK c \in Scope, from \in Step, to \in Step :
            SwitchStep(e, from, to, active[e], c, "Off") /\ from \in Unmoved /\ to \in Unmoved
            /\ to # "Promote"
      BY <1>5 DEF DnsOff, QueueOff, AppOff, Scope
    <2>2. active[e] \in Region
      BY DEF TypeOK
    <2>3. UNCHANGED <<active, databaseVars>> /\ Goto(e, from, to)
      BY <2>1 DEF SwitchStep
    <2>4. \A q \in Region, t \in Scope :
            control'[q][t] = IF q = active[e] /\ t = c THEN "Off" ELSE control[q][t]
      <3>1. Switch(active[e], c, "Off")
        BY <2>1 DEF SwitchStep
      <3> QED
        BY <2>2, <3>1, SwitchFacts
    <2>5. PlaceInv'
      BY <2>3, <2>4 DEF PlaceInv, Headed, databaseVars, Scope
    <2>6. MoveInv'
      BY <1>1, <2>1, <2>3
    <2> QED
      BY <2>5, <2>6
  <1>6. ASSUME NEW e \in Execution, AppOn(e) \/ QueueOn(e) \/ DnsOn(e)
        PROVE  PlaceInv' /\ MoveInv'
    <2>1. PICK c \in Scope, from \in Step, to \in PC :
            SwitchStep(e, from, to, passive(e), c, "On") /\ from \in FromRestart
            /\ to \in FromRestart \cup {"done"}
      BY <1>6 DEF AppOn, QueueOn, DnsOn, Scope, PC, Step, FromRestart
    <2>2. passive(e) \in Region
      BY DEF TypeOK, passive
    <2>3. UNCHANGED <<active, databaseVars>> /\ Goto(e, from, to)
      BY <2>1 DEF SwitchStep
    <2>4. \A q \in Region, t \in Scope :
            control'[q][t] = IF q = passive(e) /\ t = c THEN "On" ELSE control[q][t]
      <3>1. Switch(passive(e), c, "On")
        BY <2>1 DEF SwitchStep
      <3> QED
        BY <2>2, <3>1, SwitchFacts
    <2>5. moving = "nowhere" /\ writer = passive(e) /\ host = passive(e) /\ uses[passive(e)] = passive(e)
      BY <2>1, <2>3 DEF MoveInv, Goto
    <2>6. PlaceInv'
      BY <2>2, <2>3, <2>4, <2>5 DEF PlaceInv, Headed, databaseVars, Scope
    <2>7. MoveInv'
      BY <1>1, <2>1, <2>3
    <2> QED
      BY <2>6, <2>7
  <1>7. ASSUME NEW e \in Execution, Drain(e) \/ Reconcile(e) PROVE PlaceInv' /\ MoveInv'
    BY <1>1, <1>2, <1>7 DEF Drain, Reconcile, TimeStep, controlVars
  <1>9. ASSUME NEW e \in Execution, Abort(e) PROVE PlaceInv' /\ MoveInv'
    <2>1. Goto(e, pc[e], "failed") /\ UNCHANGED <<control, active, databaseVars>>
      BY <1>9 DEF Abort, Goto, controlVars
    <2> QED
      BY <1>1, <1>2, <2>1
  <1>10. ASSUME NEW e \in Execution, NEW from \in Step, NEW to, DatabaseStep(e, from, to)
         PROVE  /\ pc[e] = from /\ UNCHANGED <<control, active>>
                /\ \A f \in Execution : pc'[f] = IF f = e THEN to ELSE pc[f]
                /\ \A f \in Execution : f # e => pc'[f] \notin Step
                /\ active[e] \in Region /\ passive(e) \in Region
                /\ passive(e) # active[e] /\ passive(e) = Other(active[e])
    <2>1. Goto(e, from, to) /\ UNCHANGED <<control, active>>
      BY <1>10 DEF DatabaseStep, controlVars
    <2> QED
      BY <2>1, RunFacts DEF TypeOK, passive
  <1>11. ASSUME NEW e \in Execution, pc[e] \in Stopped \ Reopened
         PROVE  \A r \in Region : control[r]["dns"] # "On"
    <2>1. active[e] \in Region /\ passive(e) = Other(active[e])
      BY DEF TypeOK, passive
    <2> QED
      BY <1>11, <2>1 DEF ControlInv
  <1>12. ASSUME NEW e \in Execution, pc[e] \in {"Database", "Promote"}
         PROVE  \A r \in Region : control[r]["app"] # "On"
    <2>1. active[e] \in Region /\ control[active[e]]["app"] = "Off" /\ Headed = active[e]
      BY <1>12 DEF TypeOK, ControlInv, MoveInv
    <2> QED
      BY <2>1 DEF PlaceInv
  <1>13. ASSUME NEW e \in Execution, Failover(e) PROVE PlaceInv' /\ MoveInv'
    <2>1. DatabaseStep(e, "Database", "WaitAvailable")
      BY <1>13 DEF Failover
    <2>2. /\ pc[e] = "Database" /\ UNCHANGED <<control, active>>
          /\ \A f \in Execution : pc'[f] = IF f = e THEN "WaitAvailable" ELSE pc[f]
          /\ \A f \in Execution : f # e => pc'[f] \notin Step
          /\ active[e] \in Region /\ passive(e) = Other(active[e])
      BY <1>10, <2>1
    <2>3. /\ moving = "nowhere" /\ moving' = Other(writer) /\ writer' = writer
          /\ writer = active[e]
      BY <1>13, <2>2 DEF Failover, MoveInv, Headed
    <2>4. Headed' = passive(e)
      BY <2>2, <2>3 DEF Headed
    <2>5. PlaceInv'
      BY <1>11, <1>12, <2>2 DEF PlaceInv
    <2>6. MoveInv'
      BY <2>2, <2>4 DEF MoveInv, passive
    <2> QED
      BY <2>5, <2>6
  <1>14. ASSUME NEW e \in Execution, Detached(e) PROVE PlaceInv' /\ MoveInv'
    <2>1. DatabaseStep(e, "Database", "Promote") /\ UNCHANGED <<writer, moving, host, uses>>
          /\ moving = "nowhere"
      BY <1>14 DEF Detached
    <2>2. /\ pc[e] = "Database" /\ UNCHANGED <<control, active>>
          /\ \A f \in Execution : pc'[f] = IF f = e THEN "Promote" ELSE pc[f]
      BY <1>10, <2>1
    <2>3. PlaceInv'
      BY <2>1, <2>2 DEF PlaceInv, Headed
    <2>4. MoveInv'
      BY <2>1, <2>2 DEF MoveInv, Headed, passive
    <2> QED
      BY <2>3, <2>4
  <1>15. ASSUME NEW e \in Execution, Promote(e) PROVE PlaceInv' /\ MoveInv'
    <2>1. DatabaseStep(e, "Promote", "Attach") /\ moving' = moving /\ writer' = Other(writer)
      BY <1>15 DEF Promote
    <2>2. /\ pc[e] = "Promote" /\ UNCHANGED <<control, active>>
          /\ \A f \in Execution : pc'[f] = IF f = e THEN "Attach" ELSE pc[f]
          /\ \A f \in Execution : f # e => pc'[f] \notin Step
          /\ active[e] \in Region /\ passive(e) = Other(active[e])
      BY <1>10, <2>1
    <2>3. Headed' = passive(e)
      BY <2>1, <2>2 DEF MoveInv, Headed
    <2>4. PlaceInv'
      BY <1>11, <1>12, <2>2 DEF PlaceInv
    <2>5. MoveInv'
      BY <2>2, <2>3 DEF MoveInv, passive
    <2> QED
      BY <2>4, <2>5
  <1>16. ASSUME NEW e \in Execution, Attach(e) PROVE PlaceInv' /\ MoveInv'
    <2>1. DatabaseStep(e, "Attach", "WaitAvailable") /\ UNCHANGED <<writer, moving, host, uses>>
      BY <1>16 DEF Attach
    <2>2. /\ pc[e] = "Attach" /\ UNCHANGED <<control, active>>
          /\ \A f \in Execution : pc'[f] = IF f = e THEN "WaitAvailable" ELSE pc[f]
      BY <1>10, <2>1
    <2>3. PlaceInv'
      BY <2>1, <2>2 DEF PlaceInv, Headed
    <2>4. MoveInv'
      BY <2>1, <2>2 DEF MoveInv, Headed, passive
    <2> QED
      BY <2>3, <2>4
  <1>17. ASSUME NEW e \in Execution, WaitAvailable(e) PROVE PlaceInv' /\ MoveInv'
    <2>1. /\ DatabaseStep(e, "WaitAvailable", "UpdateSecret") /\ moving = "nowhere"
          /\ UNCHANGED <<writer, moving, host, uses>>
      BY <1>17 DEF WaitAvailable, databaseVars
    <2>2. /\ pc[e] = "WaitAvailable" /\ UNCHANGED <<control, active>>
          /\ \A f \in Execution : pc'[f] = IF f = e THEN "UpdateSecret" ELSE pc[f]
      BY <1>10, <2>1
    <2>3. PlaceInv'
      BY <2>1, <2>2 DEF PlaceInv, Headed
    <2>4. MoveInv'
      BY <2>1, <2>2 DEF MoveInv, Headed, passive
    <2> QED
      BY <2>3, <2>4
  <1>18. ASSUME NEW e \in Execution, UpdateSecret(e) PROVE PlaceInv' /\ MoveInv'
    <2>1. /\ DatabaseStep(e, "UpdateSecret", "RestartECS") /\ host' = writer
          /\ UNCHANGED <<writer, moving, uses>>
      BY <1>18 DEF UpdateSecret
    <2>2. /\ pc[e] = "UpdateSecret" /\ UNCHANGED <<control, active>>
          /\ \A f \in Execution : pc'[f] = IF f = e THEN "RestartECS" ELSE pc[f]
          /\ \A f \in Execution : f # e => pc'[f] \notin Step
      BY <1>10, <2>1
    <2>3. PlaceInv'
      BY <1>11, <2>1, <2>2 DEF PlaceInv, Headed
    <2>4. MoveInv'
      BY <2>1, <2>2 DEF MoveInv, Headed, passive
    <2> QED
      BY <2>3, <2>4
  <1>19. ASSUME NEW e \in Execution, RestartECS(e) PROVE PlaceInv' /\ MoveInv'
    <2>1. /\ DatabaseStep(e, "RestartECS", "AppOn") /\ UNCHANGED <<writer, moving, host>>
          /\ uses' = [uses EXCEPT ![passive(e)] = host]
      BY <1>19 DEF RestartECS
    <2>2. /\ pc[e] = "RestartECS" /\ UNCHANGED <<control, active>>
          /\ \A f \in Execution : pc'[f] = IF f = e THEN "AppOn" ELSE pc[f]
          /\ \A f \in Execution : f # e => pc'[f] \notin Step
          /\ passive(e) \in Region
      BY <1>10, <2>1
    <2>3. uses'[passive(e)] = passive(e)
      BY <2>1, <2>2 DEF MoveInv, TypeOK
    <2>4. PlaceInv'
      BY <1>11, <2>1, <2>2 DEF PlaceInv, Headed
    <2>5. MoveInv'
      BY <2>1, <2>2, <2>3 DEF MoveInv, Headed, passive
    <2> QED
      BY <2>4, <2>5
  <1>20. ASSUME UNCHANGED <<pc, active, control, writer, moving, host, uses>>
         PROVE  PlaceInv' /\ MoveInv'
    BY <1>20 DEF PlaceInv, MoveInv, Headed, passive
  <1>21. ASSUME SwitchWriter PROVE PlaceInv' /\ MoveInv'
    <2>1. moving' = moving
      <3> SUFFICES ASSUME intent # "none", writer # intent, moving = "nowhere",
                          Intended(intent) \/ Disturb
                   PROVE  FALSE
        BY <1>21 DEF SwitchWriter
      <3>1. intent \in Region /\ control[intent]["app"] = "On"
        BY DisturbFacts DEF Intended, TypeOK
      <3>2. Headed = intent
        BY <3>1 DEF PlaceInv
      <3> QED
        BY <3>2 DEF Headed
    <2> QED
      BY <1>20, <1>21, <2>1 DEF SwitchWriter, controlVars
  <1>22. ASSUME Moved PROVE PlaceInv' /\ MoveInv'
    <2>1. /\ moving # "nowhere" /\ writer' = moving /\ moving' = "nowhere"
          /\ UNCHANGED <<pc, active, control, host, uses>>
      BY <1>22 DEF Moved, World, controlVars
    <2>2. Headed' = Headed
      BY <2>1 DEF Headed
    <2>3. PlaceInv'
      BY <2>1, <2>2 DEF PlaceInv
    <2>4. MoveInv'
      BY <2>1, <2>2 DEF MoveInv, passive
    <2> QED
      BY <2>3, <2>4
  <1>23. ASSUME NEW r \in Region, Respawn(r) PROVE PlaceInv' /\ MoveInv'
    <2>1. /\ uses' = [uses EXCEPT ![r] = host]
          /\ UNCHANGED <<pc, active, control, writer, moving, host>>
      BY <1>23 DEF Respawn, World, controlVars
    <2>2. \A q \in Region : uses'[q] = IF q = r THEN host ELSE uses[q]
      BY <2>1 DEF TypeOK
    <2>3. PlaceInv'
      BY <2>1, <2>2 DEF PlaceInv, Headed
    <2>4. \A f \in Execution : passive(f) \in Region
      BY DEF passive, TypeOK
    <2>5. MoveInv'
      BY <2>1, <2>2, <2>4 DEF MoveInv, Headed, passive
    <2> QED
      BY <2>3, <2>5
  <1>24. ASSUME Joined \/ (\E r \in Region : ReadIntent(r)) \/ UNCHANGED vars
         PROVE  PlaceInv' /\ MoveInv'
    BY <1>20, <1>24 DEF Joined, ReadIntent, World, controlVars, databaseVars, vars
  <1> QED
    BY <1>3, <1>4, <1>5, <1>6, <1>7, <1>9, <1>13, <1>14, <1>15, <1>16, <1>17, <1>18,
       <1>19, <1>21, <1>22, <1>23, <1>24 DEF Next, RunStep

(* The gateway of the other region is closed when the database is moved,    *)
(* because no application ran there, and is opened only at the end.         *)
LEMMA ClosedStep ==
  ASSUME TypeOK, TypeOK', Undisturbed, Undisturbed', ControlInv, PlaceInv, MoveInv, ClosedInv,
         [Next]_vars
  PROVE  ClosedInv'
  <1> USE RegionFacts
  <1> DEFINE Closed == FromDatabase \cup (FromSecret \ {"DnsOn"})
  <1> USE DEF Step, FromDatabase, FromSecret, FromRestart
  <1>1. ASSUME UNCHANGED <<pc, active, control>> PROVE ClosedInv'
    BY <1>1 DEF ClosedInv, passive
  <1>2. ASSUME NEW e \in Execution, NEW from, NEW to, Goto(e, from, to),
               to \in Closed => from \in Closed, UNCHANGED active,
               to \in Closed => UNCHANGED control
                                \/ control'[passive(e)]["queue"] = control[passive(e)]["queue"],
               UNCHANGED control \/ from \in Step
        PROVE  ClosedInv'
    <2>1. pc[e] = from /\ \A f \in Execution : pc'[f] = IF f = e THEN to ELSE pc[f]
      BY <1>2, GotoFacts
    <2>2. CASE UNCHANGED control
      BY <1>2, <2>1, <2>2 DEF ClosedInv, passive
    <2>3. CASE from \in Step
      <3>1. \A f \in Execution : f # e => pc'[f] \notin Step
        BY <1>2, <2>3, RunFacts
      <3> QED
        BY <1>2, <2>1, <3>1 DEF ClosedInv, passive
    <2> QED
      BY <1>2, <2>2, <2>3
  <1>3. ASSUME NEW e \in Execution, NEW b \in Offered, Press(e, b) PROVE ClosedInv'
    BY <1>2, <1>3 DEF Press, controlVars
  <1>4. ASSUME NEW e \in Execution, GetRegions(e) PROVE ClosedInv'
    <2>1. \A f \in Execution : pc'[f] = IF f = e THEN "DnsOff" ELSE pc[f]
      BY <1>4, GotoFacts DEF GetRegions
    <2>2. \A f \in Execution : f # e => active'[f] = active[f]
      BY <1>4 DEF GetRegions, TypeOK
    <2>3. UNCHANGED control
      BY <1>4 DEF GetRegions, controlVars
    <2> QED
      BY <2>1, <2>2, <2>3 DEF ClosedInv, passive
  <1>5. ASSUME NEW e \in Execution, DnsOff(e) \/ QueueOff(e) \/ QueueOn(e) \/ DnsOn(e)
        PROVE  ClosedInv'
    <2>1. PICK from \in {"DnsOff", "QueueOff", "QueueOn", "DnsOn"},
               to \in {"Drain", "AppOff", "DnsOn", "done"} :
            Goto(e, from, to) /\ UNCHANGED active
      BY <1>5 DEF DnsOff, QueueOff, QueueOn, DnsOn, SwitchStep
    <2> QED
      BY <1>2, <2>1
  <1>6. ASSUME NEW e \in Execution, AppOff(e) PROVE ClosedInv'
    <2>1. active[e] \in Region /\ passive(e) \in Region /\ passive(e) # active[e]
      BY DEF TypeOK, passive
    <2>2. /\ pc[e] = "AppOff" /\ active' = active
          /\ \A f \in Execution : pc'[f] = IF f = e THEN "Database" ELSE pc[f]
          /\ \A f \in Execution : f # e => pc'[f] \notin Step
      BY <1>6, RunFacts DEF AppOff, SwitchStep
    <2>3. control'[passive(e)]["queue"] = control[passive(e)]["queue"]
      BY <1>6, <2>1, SwitchFacts DEF AppOff, SwitchStep, Scope
    <2>4. control[passive(e)]["app"] # "On"
      BY <2>1, <2>2 DEF PlaceInv, MoveInv, Unmoved
    <2>5. control[passive(e)]["queue"] = "Off"
      BY <2>1, <2>4 DEF ControlInv, TypeOK, Scope
    <2> QED
      BY <2>2, <2>3, <2>5 DEF ClosedInv, passive
  <1>7. ASSUME NEW e \in Execution, AppOn(e) PROVE ClosedInv'
    <2>1. passive(e) \in Region
      BY DEF TypeOK, passive
    <2>2. control'[passive(e)]["queue"] = control[passive(e)]["queue"]
      BY <1>7, <2>1, SwitchFacts DEF AppOn, SwitchStep, Scope
    <2> QED
      BY <1>2, <1>7, <2>2 DEF AppOn, SwitchStep
  <1>8. ASSUME NEW e \in Execution, Drain(e) \/ Reconcile(e) PROVE ClosedInv'
    BY <1>2, <1>8 DEF Drain, Reconcile, TimeStep, controlVars
  <1>9. ASSUME NEW e \in Execution, Failover(e) \/ Detached(e)
        PROVE  ClosedInv'
    BY <1>2, <1>9 DEF Failover, Detached, DatabaseStep, controlVars
  <1>10. ASSUME NEW e \in Execution,
                Promote(e) \/ Attach(e) \/ WaitAvailable(e) \/ UpdateSecret(e) \/ RestartECS(e)
         PROVE  ClosedInv'
    BY <1>2, <1>10
       DEF Promote, Attach, WaitAvailable, UpdateSecret, RestartECS, DatabaseStep, controlVars
  <1>11. ASSUME NEW e \in Execution, Abort(e) PROVE ClosedInv'
    <2>1. Goto(e, pc[e], "failed") /\ UNCHANGED <<control, active>>
      BY <1>11 DEF Abort, Goto, controlVars
    <2> QED
      BY <1>2, <2>1
  <1>12. ASSUME \/ SwitchWriter \/ Moved \/ Joined
                \/ \E r \in Region : ReadIntent(r) \/ Respawn(r)
                \/ UNCHANGED vars
         PROVE  ClosedInv'
    BY <1>1, <1>12
       DEF SwitchWriter, Moved, Joined, ReadIntent, Respawn, World, controlVars, vars
  <1> QED
    BY <1>3, <1>4, <1>5, <1>6, <1>7, <1>8, <1>9, <1>10, <1>11, <1>12 DEF Next, RunStep

(* A run that finds a control On finds the region of the writer. *)
LEMMA UnclearStep ==
  ASSUME TypeOK, TypeOK', Undisturbed, Undisturbed', ControlInv, UnclearInv,
         ~stray => PlaceInv, [Next]_vars
  PROVE  UnclearInv'
  <1> USE RegionFacts
  <1> USE DEF Started, Step
  <1>1. ASSUME UNCHANGED <<stray, unclear, control>>,
               \A e \in Execution : pc[e] \in Started => pc'[e] \in Started
        PROVE  UnclearInv'
    BY <1>1 DEF UnclearInv
  <1>2. ASSUME NEW e \in Execution, pc'[e] \in Started, UNCHANGED <<stray, unclear>>
        PROVE  UnclearInv'
    BY <1>2 DEF UnclearInv
  <1>3. ASSUME NEW e \in Execution, NEW b \in Offered, Press(e, b) PROVE UnclearInv'
    <2>1. pc[e] = "idle" /\ \A f \in Execution : pc'[f] = IF f = e THEN "GetRegions" ELSE pc[f]
      BY <1>3, GotoFacts DEF Press
    <2>2. UNCHANGED <<stray, unclear, control>>
      BY <1>3 DEF Press, ghosts, controlVars
    <2> QED
      BY <1>1, <2>1, <2>2
  <1>4. ASSUME NEW e \in Execution, GetRegions(e) PROVE UnclearInv'
    <2> DEFINE found == IF control[East]["dns"] = "On" THEN East ELSE West
    <2>1. /\ pc[e] = "GetRegions" /\ pc'[e] = "DnsOff"
          /\ unclear' = unclear /\ stray' = (stray \/ found # Headed)
      BY <1>4, GotoFacts DEF GetRegions
    <2>2. ASSUME ~unclear PROVE ~stray /\ found = Headed
      <3>1. ~stray /\ PlaceInv
        BY <2>2 DEF UnclearInv
      <3>2. \A f \in Execution : f # e => pc[f] \notin Step
        BY <2>1 DEF ControlInv, Busy
      <3>3. PICK r \in Region : control[r]["dns"] = "On"
        BY <2>1, <2>2, <3>2 DEF UnclearInv
      <3>4. \A q \in Region : control[q]["dns"] = "On" => Headed = q
        BY <3>1 DEF PlaceInv, ControlInv
      <3>5. CASE control[East]["dns"] = "On"
        BY <3>1, <3>4, <3>5
      <3>6. CASE control[East]["dns"] # "On"
        <4>1. r = West
          BY <3>3, <3>6 DEF Region
        <4> QED
          BY <3>1, <3>3, <3>4, <3>6, <4>1
      <3> QED
        BY <3>5, <3>6
    <2> HIDE DEF found
    <2>3. ~unclear' => ~stray'
      BY <2>1, <2>2, Zenon
    <2> QED
      BY <2>1, <2>3 DEF UnclearInv
  <1>5. ASSUME NEW e \in Execution,
               DnsOff(e) \/ QueueOff(e) \/ AppOff(e) \/ AppOn(e) \/ QueueOn(e)
        PROVE  UnclearInv'
    <2>1. PICK to \in Started : \E from \in Step : Goto(e, from, to)
      BY <1>5 DEF DnsOff, QueueOff, AppOff, AppOn, QueueOn, SwitchStep
    <2>2. pc'[e] \in Started
      BY <2>1, GotoFacts
    <2>3. UNCHANGED <<stray, unclear>>
      BY <1>5 DEF DnsOff, QueueOff, AppOff, AppOn, QueueOn, SwitchStep, ghosts
    <2> QED
      BY <1>2, <2>2, <2>3
  <1>6. ASSUME NEW e \in Execution, DnsOn(e) PROVE UnclearInv'
    <2>1. passive(e) \in Region
      BY DEF TypeOK, passive
    <2>2. control'[passive(e)]["dns"] = "On"
      BY <1>6, <2>1, SwitchFacts DEF DnsOn, SwitchStep, Scope
    <2>3. UNCHANGED <<stray, unclear>>
      BY <1>6 DEF DnsOn, SwitchStep, ghosts
    <2> QED
      BY <2>1, <2>2, <2>3 DEF UnclearInv
  <1>7. ASSUME NEW e \in Execution, Drain(e) \/ Reconcile(e) PROVE UnclearInv'
    <2>1. PICK to \in Started : \E from \in Step : Goto(e, from, to)
      BY <1>7 DEF Drain, Reconcile, TimeStep
    <2>2. pc'[e] \in Started
      BY <2>1, GotoFacts
    <2>3. UNCHANGED <<stray, unclear>>
      BY <1>7 DEF Drain, Reconcile, TimeStep, ghosts
    <2> QED
      BY <1>2, <2>2, <2>3
  <1>8. ASSUME NEW e \in Execution,
               Failover(e) \/ Detached(e) \/ Promote(e) \/ Attach(e) \/ WaitAvailable(e)
               \/ UpdateSecret(e) \/ RestartECS(e)
        PROVE  UnclearInv'
    <2>1. PICK to \in Started : \E from \in Step : Goto(e, from, to)
      BY <1>8 DEF Failover, Detached, Promote, Attach, WaitAvailable, UpdateSecret, RestartECS,
                  DatabaseStep
    <2>2. pc'[e] \in Started
      BY <2>1, GotoFacts
    <2>3. UNCHANGED <<stray, unclear>>
      BY <1>8 DEF Failover, Detached, Promote, Attach, WaitAvailable, UpdateSecret, RestartECS,
                  DatabaseStep, ghosts
    <2> QED
      BY <1>2, <2>2, <2>3
  <1>9. ASSUME NEW e \in Execution, Abort(e) PROVE UnclearInv'
    BY <1>9 DEF Abort, UnclearInv
  <1>10. ASSUME \/ SwitchWriter \/ Moved \/ Joined
                \/ \E r \in Region : ReadIntent(r) \/ Respawn(r)
                \/ UNCHANGED vars
         PROVE  UnclearInv'
    BY <1>1, <1>10
       DEF SwitchWriter, Moved, Joined, ReadIntent, Respawn, World, controlVars, ghosts, vars
  <1> QED
    BY <1>3, <1>4, <1>5, <1>6, <1>7, <1>8, <1>9, <1>10 DEF Next, RunStep

(* Every step keeps the inductive invariant. *)
LEMMA StepInv == IInv /\ [Next]_vars => IInv'
  <1> SUFFICES ASSUME IInv, [Next]_vars PROVE IInv'
    OBVIOUS
  <1>1. TypeOK /\ TypeOK'
    BY TypeStep DEF IInv
  <1>2. ASSUME Undisturbed' PROVE Undisturbed /\ ControlInv /\ ControlInv' /\ UnclearInv'
    <2>1. Undisturbed
      BY <1>1, <1>2, GhostStep
    <2>2. ControlInv /\ UnclearInv /\ (~stray => PlaceInv)
      BY <2>1 DEF IInv, RightInv
    <2> QED
      BY <1>1, <1>2, <2>1, <2>2, ControlStep, UnclearStep
  <1>3. ASSUME Undisturbed', ~stray' PROVE RightInv'
    <2>1. ~stray
      BY <1>1, <1>3, GhostStep
    <2>2. RightInv
      BY <1>2, <1>3, <2>1 DEF IInv
    <2> QED
      BY <1>1, <1>2, <1>3, <2>1, <2>2, PlaceStep, ClosedStep DEF RightInv
  <1> QED
    BY <1>1, <1>2, <1>3 DEF IInv

(* The inductive invariant holds in every reachable state. *)
LEMMA Invariance == Spec => []IInv
  <1>1. Init => IInv
    BY InitInv
  <1>2. IInv /\ [Next]_vars => IInv'
    BY StepInv
  <1> QED
    BY <1>1, <1>2, PTL DEF Spec

(* The type invariant of Rotation. *)
THEOREM RotationTypeCorrect == Spec => []TypeOK
  <1>1. IInv => TypeOK
    BY DEF IInv
  <1> QED
    BY <1>1, Invariance, PTL

(* At most one region serves, opened from the inside out, as long as        *)
(* executions do not overlap and updates take effect, wherever they end.    *)
THEOREM RotationOneRegionServes == Spec => []OneRegionServes
  <1>1. IInv => OneRegionServes
    BY DEF IInv, ControlInv, OneRegionServes
  <1> QED
    BY <1>1, Invariance, PTL

(* Clients are sent to the region of the writer, whose tasks use it, unless *)
(* a run took the wrong region for active, which needs one that ended early *)
(* or controls that were all Off.                                           *)
THEOREM RotationWriterFollows == Spec => []WriterFollows
  <1>1. IInv => WriterFollows
    BY DEF IInv, RightInv, PlaceInv, UnclearInv, WriterFollows
  <1> QED
    BY <1>1, Invariance, PTL

(* Every demand of a row is met at the steps at which it is due. *)
LEMMA DemandMet ==
  ASSUME IInv, Undisturbed, ~stray, NEW e \in Busy, NEW demand \in Inward,
         pc[e] \in Due(demand)
  PROVE  Met(e, demand)
  <1> USE RegionFacts
  <1> USE DEF Started, Quiesced, Unheard, Stopped, Reopened, Step, Moving,
              FromDatabase, FromSecret, FromRestart
  <1>1. e \in Execution /\ TypeOK /\ ControlInv /\ MoveInv /\ ClosedInv
    BY DEF IInv, RightInv, Busy
  <1>2. active[e] \in Region /\ passive(e) \in Region
    BY <1>1 DEF TypeOK, passive
  <1>3. CASE demand = "quiesced"
    BY <1>1, <1>3 DEF ControlInv, Due, Met
  <1>4. CASE demand = "stopped"
    BY <1>1, <1>2, <1>4 DEF ControlInv, AllOff, Scope, Due, Met
  <1>5. CASE demand = "moved"
    BY <1>1, <1>5 DEF MoveInv, Due, Met
  <1>6. CASE demand = "started"
    BY <1>1, <1>6 DEF ControlInv, MoveInv, Due, Met
  <1>7. CASE demand = "closed"
    BY <1>1, <1>7 DEF ControlInv, ClosedInv, Due, Met
  <1> QED
    BY <1>3, <1>4, <1>5, <1>6, <1>7 DEF Inward

(* What the rows of the test pages announce of controls, database and tasks *)
(* comes true in every undisturbed run that took the right region for       *)
(* active.                                                                  *)
THEOREM RotationDemandsAreMet == Spec => []DemandsAreMet
  <1>1. IInv => DemandsAreMet
    BY DemandMet DEF DemandsAreMet
  <1> QED
    BY <1>1, Invariance, PTL

----------------------------------------------------------------------------
(* Draining. *)

(* How far the looks have come. *)
LooksInv ==
  /\ application \in App /\ half \in {"leaving", "entering"}
  /\ looked \in 0..Looks(application, half)
  /\ point = "Look" => looked < Looks(application, half)
  /\ point = "WaitForMQ" => looked = 0

DrainInv == LooksInv /\ SeenStaysEmpty

(* How many looks there are; a wait for streams is a part of them. *)
LEMMA LookFacts ==
  ASSUME NEW a \in App, NEW h
  PROVE  Looks(a, h) \in Nat \ {0} /\ Looks(a, h) <= Len(LookOrder(a))
  BY DEF App, Looks, StreamLooks, LookOrder

LEMMA LookCount ==
  /\ Len(LookOrder("trade-matching")) = 17
  /\ Len(LookOrder("settlement")) = 9
  BY DEF LookOrder

(* A service that puts something on a place that does not refill is looked  *)
(* at before that place, and does not refill either.                        *)
LEMMA TradeOrder ==
  ASSUME NEW i \in 1..17, NEW s \in StreamPlace,
         LookOrder("trade-matching")[i] \in TradeFeeds(s) \ Refilled("trade-matching")
  PROVE  /\ s \notin Refilled("trade-matching")
         /\ \E j \in 1..(i - 1) : LookOrder("trade-matching")[j] = s
  <1> DEFINE order == LookOrder("trade-matching")
  <1>1. /\ order[1] = "ingress-trade" /\ order[2] = "core-trade"
        /\ order[3] = "egress-trade" /\ order[4] = "out-trade"
        /\ order[5] = "ingress-settlement" /\ order[6] = "core-settlement"
        /\ order[7] = "egress-settlement" /\ order[8] = "out-settlement"
        /\ order[9] = "in-trade-table" /\ order[10] = "ingress-trade-table"
        /\ order[11] = "egress-trade-table" /\ order[12] = "out-trade-table"
        /\ order[13] = "in-settlement-table" /\ order[14] = "ingress-settlement-table"
        /\ order[15] = "egress-settlement-table" /\ order[16] = "out-settlement-table"
        /\ order[17] = "aurora"
    BY DEF LookOrder
  <1>2. order[i] \in TradeFeeds(s) \ Refilled("trade-matching")
    OBVIOUS
  <1> HIDE DEF order
  <1>3. CASE s = "ingress-trade"
    <2>1. order[i] \in {"ingress-trade-table", "core-trade"}
      BY <1>2, <1>3 DEF TradeFeeds, Refilled
    <2>2. 1 < i
      BY <1>1, <2>1
    <2> QED
      BY <1>1, <1>3, <2>2 DEF order, Refilled
  <1>4. CASE s = "ingress-settlement"
    <2>1. order[i] \in {"ingress-settlement-table", "core-settlement"}
      BY <1>2, <1>4 DEF TradeFeeds
    <2>2. 5 < i
      BY <1>1, <2>1
    <2> QED
      BY <1>1, <1>4, <2>2 DEF order, Refilled
  <1>5. CASE s \in {"core-trade", "core-settlement"}
    <2>1. order[i] = "aurora"
      BY <1>2, <1>5 DEF TradeFeeds, Refilled
    <2>2. 6 < i
      BY <1>1, <2>1
    <2> QED
      BY <1>1, <1>5, <2>2 DEF order, Refilled
  <1>6. CASE s \in {"egress-trade", "out-trade", "egress-settlement", "out-settlement"}
    BY <1>2, <1>6 DEF TradeFeeds, Refilled
  <1> QED
    BY <1>3, <1>4, <1>5, <1>6 DEF StreamPlace

LEMMA SettlementOrder ==
  ASSUME NEW i \in 1..9, NEW s \in StreamPlace,
         LookOrder("settlement")[i] \in SettlementFeeds(s)
  PROVE  \E j \in 1..(i - 1) : LookOrder("settlement")[j] = s
  <1> DEFINE order == LookOrder("settlement")
  <1>1. /\ order[1] = "ingress-settlement" /\ order[2] = "core-settlement"
        /\ order[3] = "egress-settlement" /\ order[4] = "out-settlement"
        /\ order[5] = "in-settlement-table" /\ order[6] = "ingress-settlement-table"
        /\ order[7] = "egress-settlement-table" /\ order[8] = "out-settlement-table"
        /\ order[9] = "aurora"
    BY DEF LookOrder
  <1>2. order[i] \in SettlementFeeds(s)
    OBVIOUS
  <1> HIDE DEF order
  <1>3. CASE s = "ingress-settlement"
    <2>1. 1 < i
      BY <1>1, <1>2, <1>3 DEF SettlementFeeds
    <2> QED
      BY <1>1, <1>3, <2>1 DEF order
  <1>4. CASE s = "core-settlement"
    <2>1. 2 < i
      BY <1>1, <1>2, <1>4 DEF SettlementFeeds
    <2> QED
      BY <1>1, <1>4, <2>1 DEF order
  <1>5. CASE s = "egress-settlement"
    <2>1. 3 < i
      BY <1>1, <1>2, <1>5 DEF SettlementFeeds
    <2> QED
      BY <1>1, <1>5, <2>1 DEF order
  <1>6. CASE s = "out-settlement"
    <2>1. 4 < i
      BY <1>1, <1>2, <1>6 DEF SettlementFeeds
    <2> QED
      BY <1>1, <1>6, <2>1 DEF order
  <1>7. CASE s \in {"ingress-trade", "core-trade", "egress-trade", "out-trade"}
    BY <1>2, <1>7 DEF SettlementFeeds
  <1> QED
    BY <1>3, <1>4, <1>5, <1>6, <1>7 DEF StreamPlace

(* So what fills a place that has been passed has been passed itself. *)
LEMMA OrderFacts ==
  ASSUME NEW a \in App, NEW n \in 0..Len(LookOrder(a)), NEW s \in StreamPlace,
         NEW p \in Passed(a, n) \cap Feeds(a, s), p \notin Refilled(a)
  PROVE  s \in Passed(a, n) /\ s \notin Refilled(a)
  <1>1. n \in Nat
    BY LookCount DEF App
  <1>2. PICK i \in 1..n : LookOrder(a)[i] = p
    BY DEF Passed
  <1>3. s \notin Refilled(a) /\ \E j \in 1..(i - 1) : LookOrder(a)[j] = s
    <2>1. CASE a = "trade-matching"
      <3>1. i \in 1..17
        <4>1. Len(LookOrder(a)) = 17
          BY <2>1, LookCount
        <4> QED
          BY <4>1
      <3>2. LookOrder("trade-matching")[i] \in TradeFeeds(s) \ Refilled("trade-matching")
        BY <1>2, <2>1 DEF Feeds
      <3> QED
        BY <2>1, <3>1, <3>2, TradeOrder
    <2>2. CASE a = "settlement"
      <3>1. i \in 1..9
        <4>1. Len(LookOrder(a)) = 9
          BY <2>2, LookCount
        <4> QED
          BY <4>1
      <3>2. LookOrder("settlement")[i] \in SettlementFeeds(s)
        BY <1>2, <2>2 DEF Feeds
      <3>3. Refilled(a) = {}
        BY <2>2 DEF Refilled
      <3> QED
        BY <2>2, <3>1, <3>2, <3>3, SettlementOrder
    <2> QED
      BY <2>1, <2>2 DEF App
  <1>4. PICK j \in 1..(i - 1) : LookOrder(a)[j] = s
    BY <1>3
  <1>5. j \in 1..n
    BY <1>1
  <1> QED
    BY <1>3, <1>4, <1>5 DEF Passed

(* No look is at a queue. *)
LEMMA NoQueuePassed ==
  ASSUME NEW a \in App, NEW n \in 0..Len(LookOrder(a)), NEW q \in MqQueue
  PROVE  q \notin Passed(a, n)
  <1> SUFFICES ASSUME NEW i \in 1..n PROVE LookOrder(a)[i] # q
    BY DEF Passed
  <1>1. CASE a = "trade-matching"
    <2>1. i \in 1..17
      <3>1. Len(LookOrder(a)) = 17
        BY <1>1, LookCount
      <3> QED
        BY <3>1
    <2> QED
      BY <1>1, <2>1 DEF LookOrder, MqQueue
  <1>2. CASE a = "settlement"
    <2>1. i \in 1..9
      <3>1. Len(LookOrder(a)) = 9
        BY <1>2, LookCount
      <3> QED
        BY <3>1
    <2> QED
      BY <1>2, <2>1 DEF LookOrder, MqQueue
  <1> QED
    BY <1>1, <1>2 DEF App

(* The looks stay within their order. *)
LEMMA LooksStep == LooksInv /\ [DrainNext]_drainVars => LooksInv'
  <1> SUFFICES ASSUME LooksInv, [DrainNext]_drainVars PROVE LooksInv'
    OBVIOUS
  <1>1. Looks(application, half) \in Nat \ {0}
    BY LookFacts DEF LooksInv
  <1>2. ASSUME UNCHANGED <<application, half, stepVars>> PROVE LooksInv'
    BY <1>2 DEF LooksInv, stepVars
  <1>3. CASE WaitForMQ
    BY <1>1, <1>3 DEF WaitForMQ, StepTo, LooksInv
  <1>4. CASE Look
    BY <1>1, <1>4 DEF Look, LooksInv
  <1>5. CASE TurnQueueOff \/ TurnAppOff \/ TurnQueueOn
    BY <1>5 DEF TurnQueueOff, TurnAppOff, TurnQueueOn, StepTo, LooksInv
  <1>6. CASE StartTask
    BY <1>6 DEF StartTask, LooksInv
  <1>7. CASE Sleep
    BY <1>1, <1>7 DEF Sleep, LooksInv
  <1>8. CASE \/ \E q \in MqQueue : Arrive(q) \/ Receive(q)
             \/ \E s \in StreamPlace : Process(s)
             \/ \E t \in inflight : Replicate(t)
             \/ \E k \in replaying : Replay(k) \/ TaskOver(k)
             \/ PollQueueControl \/ PollAppControl
    BY <1>2, <1>8 DEF Arrive, Receive, Process, Replicate, Replay, TaskOver,
                      PollQueueControl, PollAppControl, RunbookSame
  <1>9. CASE UNCHANGED drainVars
    BY <1>2, <1>9 DEF drainVars
  <1> QED
    BY <1>3, <1>4, <1>5, <1>6, <1>7, <1>8, <1>9 DEF DrainNext

(* A place that is passed and was empty stays empty.                        *)
LEMMA SeenStep == DrainInv /\ [DrainNext]_drainVars => SeenStaysEmpty'
  <1> SUFFICES ASSUME DrainInv, [DrainNext]_drainVars PROVE SeenStaysEmpty'
    OBVIOUS
  <1> USE DEF DrainInv
  <1>1. /\ application \in App
        /\ looked \in 0..Len(LookOrder(application))
    BY LookFacts DEF LooksInv
  <1>2. ASSUME UNCHANGED <<application, looked, inflight, blind, overtaken>>
        PROVE  SeenStaysEmpty'
    BY <1>2 DEF SeenStaysEmpty, Passed
  <1>3. CASE WaitForMQ \/ TurnQueueOff \/ TurnAppOff \/ TurnQueueOn \/ StartTask
    BY <1>2, <1>3 DEF WaitForMQ, TurnQueueOff, TurnAppOff, TurnQueueOn, StepTo,
                      StartTask, placeVars
  <1>4. CASE Look
    <2>1. /\ looked' = looked + 1 /\ UNCHANGED <<application, inflight, overtaken>>
          /\ blind' = (blind \/ LookOrder(application)[looked + 1] \in inflight)
      BY <1>4 DEF Look
    <2>2. Passed(application, looked')
            = Passed(application, looked) \cup {LookOrder(application)[looked + 1]}
      BY <1>1, <2>1 DEF Passed
    <2> QED
      BY <2>1, <2>2 DEF SeenStaysEmpty, Passed
  <1>5. CASE Sleep
    <2>1. CASE turn < 5
      <3>1. looked' = 0
        BY <1>5, <2>1 DEF Sleep
      <3>2. Passed(application', looked') = {}
        BY <3>1 DEF Passed
      <3> QED
        BY <3>2 DEF SeenStaysEmpty, Passed
    <2>2. CASE ~(turn < 5)
      BY <1>2, <1>5, <2>2 DEF Sleep
    <2> QED
      BY <2>1, <2>2
  <1>6. ASSUME NEW q \in MqQueue, Arrive(q)
        PROVE  SeenStaysEmpty'
    <2>1. /\ inflight' \subseteq inflight \cup {q}
          /\ RunbookSame /\ UNCHANGED <<blind, overtaken>>
      BY <1>6 DEF Arrive
    <2>2. q \notin Passed(application, looked)
      BY <1>1, NoQueuePassed
    <2> QED
      BY <2>1, <2>2 DEF SeenStaysEmpty, RunbookSame, stepVars, Passed
  <1>7. ASSUME NEW out, Overtakes(out), RunbookSame, UNCHANGED blind,
               inflight' \subseteq inflight \cup out
        PROVE  SeenStaysEmpty'
    BY <1>7 DEF SeenStaysEmpty, Overtakes, RunbookSame, stepVars, Passed
  <1>8. ASSUME NEW q \in MqQueue, Receive(q)
        PROVE  SeenStaysEmpty'
    BY <1>7, <1>8 DEF Receive, Take
  <1>9. ASSUME NEW s \in StreamPlace, Process(s)
        PROVE  SeenStaysEmpty'
    <2>1. PICK out \in SUBSET Feeds(application, s) : Take(s, out)
      BY <1>9 DEF Process
    <2>2. s \in inflight /\ inflight' \subseteq inflight \cup out
      BY <2>1 DEF Take
    <2>3. RunbookSame /\ UNCHANGED <<blind, overtaken>>
      BY <1>9 DEF Process
    <2>4. ASSUME ~blind, ~overtaken, NEW p \in Passed(application, looked) \cap inflight',
                 p \notin Refilled(application)
          PROVE  FALSE
      <3>1. p \notin inflight
        BY <2>4 DEF SeenStaysEmpty
      <3>2. p \in Feeds(application, s)
        BY <2>2, <3>1
      <3>3. s \in Passed(application, looked) /\ s \notin Refilled(application)
        BY <1>1, <2>4, <3>2, OrderFacts
      <3> QED
        BY <2>2, <2>4, <3>3 DEF SeenStaysEmpty
    <2> QED
      BY <2>3, <2>4 DEF SeenStaysEmpty, RunbookSame, stepVars, Passed
  <1>10. ASSUME NEW t \in inflight, Replicate(t)
         PROVE  SeenStaysEmpty'
    BY <1>10 DEF Replicate, Take, SeenStaysEmpty, RunbookSame, stepVars, Passed
  <1>11. ASSUME NEW k \in replaying, Replay(k)
         PROVE  SeenStaysEmpty'
    BY <1>7, <1>11 DEF Replay
  <1>12. ASSUME NEW k \in replaying, TaskOver(k)
         PROVE  SeenStaysEmpty'
    BY <1>2, <1>12 DEF TaskOver, RunbookSame, stepVars, placeVars
  <1>13. CASE PollQueueControl \/ PollAppControl
    BY <1>2, <1>13 DEF PollQueueControl, PollAppControl, RunbookSame, stepVars, placeVars
  <1>14. CASE UNCHANGED drainVars
    BY <1>2, <1>14 DEF drainVars, stepVars, placeVars
  <1> QED
    BY <1>3, <1>4, <1>5, <1>6, <1>8, <1>9, <1>10, <1>11, <1>12, <1>13, <1>14
       DEF DrainNext

(* However many messages there are, wherever they wait, and whatever of     *)
(* what a message brings about is left out: a place of either application   *)
(* that a look found empty stays empty until the looks are over, unless the *)
(* gateway or a reconciliation fills it, or it is one that core matching    *)
(* refills for the settlements.                                             *)
THEOREM DrainingSeenStaysEmpty == DrainSpec => []SeenStaysEmpty
  <1>1. DrainInit => DrainInv
    <2> SUFFICES ASSUME DrainInit PROVE DrainInv
      OBVIOUS
    <2>1. looked = 0 /\ inflight = {} /\ point \in {"WaitForMQ", "Reconcile"}
          /\ application \in App /\ half \in {"leaving", "entering"}
      BY DEF DrainInit
    <2>2. Looks(application, half) \in Nat \ {0}
      BY <2>1, LookFacts
    <2>3. LooksInv
      BY <2>1, <2>2 DEF LooksInv
    <2> QED
      BY <2>1, <2>3 DEF DrainInv, SeenStaysEmpty
  <1>2. DrainInv /\ [DrainNext]_drainVars => DrainInv'
    BY LooksStep, SeenStep DEF DrainInv
  <1>3. DrainInv => SeenStaysEmpty
    BY DEF DrainInv
  <1> QED
    BY <1>1, <1>2, <1>3, PTL DEF DrainSpec


----------------------------------------------------------------------------
(* The chaos page. *)

(* The experiment of a row is what the row announces; the experiments of    *)
(* Trade Matching that stop hosts terminate them.                           *)
Faithful(row) ==
  /\ Experiment(row.tag).app = row.app
  /\ Experiment(row.tag).target = row.target
  /\ Experiment(row.tag).scope = row.scope
  /\ \/ Experiment(row.tag).fault = row.fault
     \/ row.fault = "stop" /\ Experiment(row.tag).fault = "terminate"

(* Whose prefix a tag starts with. *)
AppOf(prefix) == IF prefix = "tm" THEN "trade-matching" ELSE "settlement"

(* A section of containers starts the experiments it announces.             *)
LEMMA SectionIsFaithful ==
  ASSUME NEW prefix, NEW fault, NEW scope, fault # "access",
         NEW row \in Rows(AppOf(prefix), prefix, fault, scope)
                     \cup RowsWithRecover(AppOf(prefix), prefix, fault, scope)
  PROVE  row.fault # "access" /\ Faithful(row)
  <1>1. PICK c \in Component :
          /\ row.app = AppOf(prefix) /\ row.target = c
          /\ row.fault = fault /\ row.scope = scope
          /\ row.tag = <<prefix, c, fault, scope>>
    BY DEF Rows, RowsWithRecover, Row
  <1> DEFINE tag == <<prefix, c, fault, scope>>
  <1>2. tag[1] = prefix /\ tag[2] = c /\ tag[3] = fault /\ tag[4] = scope
    OBVIOUS
  <1> HIDE DEF tag
  <1>3. row.tag = tag
    BY <1>1 DEF tag
  <1> QED
    BY <1>1, <1>2, <1>3 DEF Faithful, Experiment, AppOf

(* What the page is about: a row that denies access recovers the endpoint   *)
(* it names, only such a row starts an experiment that denies, and every    *)
(* row that is not at odds with itself starts what it announces.            *)
LEMMA PageFacts ==
  ASSUME NEW row \in PageRows
  PROVE  /\ row.fault = "access" => row.back = <<row.app, row.target>>
         /\ Experiment(row.tag).fault = "access" => row.fault = "access"
         /\ ~AtOdds(row) => Faithful(row)
  <1> DEFINE Goal(x) ==
        /\ x.fault = "access" => x.back = <<x.app, x.target>>
        /\ Experiment(x.tag).fault = "access" => x.fault = "access"
        /\ ~AtOdds(x) => Faithful(x)
  <1>1. AppOf("tm") = "trade-matching" /\ AppOf("sm") = "settlement"
    BY DEF AppOf
  <1>2. ASSUME NEW x, x.fault # "access", Faithful(x)
        PROVE  Goal(x)
    BY <1>2 DEF Faithful
  <1>3. \A x \in TradeStopAllTasks \cup TradeStopOneTask \cup TradeStopAllHosts
                 \cup TradeStopOneHost \cup TradeTerminateAll \cup TradeTerminateOne
                 \cup TradeStressAll \cup TradeStressOne : Goal(x)
    <2> SUFFICES ASSUME NEW x \in TradeStopAllTasks \cup TradeStopOneTask
                                  \cup TradeStopAllHosts \cup TradeStopOneHost
                                  \cup TradeTerminateAll \cup TradeTerminateOne
                                  \cup TradeStressAll \cup TradeStressOne
                 PROVE  x.fault # "access" /\ Faithful(x)
      BY <1>2
    <2>1. \E fault \in {"tasks", "stop", "terminate", "stress"}, scope \in {"all", "one"} :
            x \in Rows(AppOf("tm"), "tm", fault, scope)
                  \cup RowsWithRecover(AppOf("tm"), "tm", fault, scope)
      BY <1>1 DEF TradeStopAllTasks, TradeStopOneTask, TradeStopAllHosts, TradeStopOneHost,
                  TradeTerminateAll, TradeTerminateOne, TradeStressAll, TradeStressOne
    <2> QED
      BY <2>1, SectionIsFaithful
  <1>4. \A x \in SettlementStopAllTasks \cup SettlementStopOneTask \cup SettlementStopAllHosts
                 \cup SettlementStopOneHost \cup SettlementTerminateAll
                 \cup SettlementTerminateOne \cup SettlementStressAll
                 \cup SettlementStressOne : Goal(x)
    <2> SUFFICES ASSUME NEW x \in SettlementStopAllTasks \cup SettlementStopOneTask
                                  \cup SettlementStopAllHosts \cup SettlementStopOneHost
                                  \cup SettlementTerminateAll \cup SettlementTerminateOne
                                  \cup SettlementStressAll \cup SettlementStressOne
                 PROVE  x.fault # "access" /\ Faithful(x)
      BY <1>2
    <2>1. \E fault \in {"tasks", "stop", "terminate", "stress"}, scope \in {"all", "one"} :
            x \in Rows(AppOf("sm"), "sm", fault, scope)
                  \cup RowsWithRecover(AppOf("sm"), "sm", fault, scope)
      BY <1>1 DEF SettlementStopAllTasks, SettlementStopOneTask, SettlementStopAllHosts,
                  SettlementStopOneHost, SettlementTerminateAll, SettlementTerminateOne,
                  SettlementStressAll, SettlementStressOne
    <2> QED
      BY <2>1, SectionIsFaithful
  <1>5. ASSUME NEW app, NEW service, NEW prefix,
               NEW x \in AccessRow(app, service, <<prefix, service, "access", "all">>,
                                   <<app, service>>),
               app = AppOf(prefix) \/ (app = "settlement" /\ service = "rds")
        PROVE  Goal(x)
    <2> DEFINE tag == <<prefix, service, "access", "all">>
    <2>1. tag[1] = prefix /\ tag[2] = service /\ tag[3] = "access" /\ tag[4] = "all"
      OBVIOUS
    <2> HIDE DEF tag
    <2>2. /\ x.app = app /\ x.target = service /\ x.fault = "access" /\ x.scope = "all"
          /\ x.tag = tag /\ x.back = <<app, service>>
      BY <1>5 DEF AccessRow, Row, tag
    <2>3. ~AtOdds(x) => app = AppOf(prefix)
      BY <1>5, <2>2 DEF AtOdds
    <2>4. ~AtOdds(x) => Faithful(x)
      BY <2>1, <2>2, <2>3 DEF Faithful, Experiment, AppOf
    <2> QED
      BY <2>2, <2>4
  <1>6. \A x \in TradeKinesisAccess \cup TradeDynamoDBAccess \cup TradeAuroraAccess : Goal(x)
    BY <1>1, <1>5 DEF TradeKinesisAccess, TradeDynamoDBAccess, TradeAuroraAccess
  <1>7. \A x \in SettlementKinesisAccess \cup SettlementDynamoDBAccess
                 \cup SettlementAuroraAccess : Goal(x)
    BY <1>1, <1>5 DEF SettlementKinesisAccess, SettlementDynamoDBAccess, SettlementAuroraAccess
  <1> HIDE DEF Goal
  <1>8. Goal(row)
    BY <1>3, <1>4, <1>6, <1>7 DEF PageRows
  <1> QED
    BY <1>8 DEF Goal

(* An endpoint is denied on account of rows that deny access, and, unless   *)
(* the row is at odds with itself, on the endpoint that it recovers.        *)
DenialInv ==
  \A row \in OfferedRows, x \in Endpoint :
    row \in denied[x] => /\ row.fault = "access"
                         /\ ~AtOdds(row) => x = row.back

ChaosInv ==
  /\ ChaosTypeOK
  /\ DOMAIN harmed = OfferedRows
  /\ DenialInv
  /\ RowsKeepTheirWord

LEMMA ChaosStarts == ChaosInit => ChaosInv
  <1> SUFFICES ASSUME ChaosInit
               PROVE  ChaosInv
    OBVIOUS
  <1> USE DeployedAssumption, DesiredAssumption, OfferedRowsAssumption, ClicksAssumption
  <1>1. ChaosTypeOK
    BY DEF ChaosInit, WorkloadsInit, ChaosTypeOK, WorkloadsTypeOK, Nobody
  <1>2. \A x \in Endpoint : denied[x] = {}
    BY DEF ChaosInit, WorkloadsInit, Nobody
  <1> QED
    BY <1>1, <1>2 DEF ChaosInit, ChaosInv, DenialInv, RowsKeepTheirWord

(* What a step of the containers keeps: the types of Workloads.             *)
LEMMA StopTasksKeepsTypes ==
  ASSUME ChaosTypeOK, NEW g \in Deployed, NEW n \in Nat, StopTasks(g, n)
  PROVE  /\ own' \in [Deployed -> Nat] /\ \A h \in Deployed : own'[h] <= Desired[h]
         /\ extra' \in [Deployed -> 0..MaxExtra]
         /\ own'[g] + extra'[g] = Running(g) - n
         /\ \A h \in Deployed \ {g} : own'[h] = own[h] /\ extra'[h] = extra[h]
  <1> USE DesiredAssumption
  <1>1. PICK a \in 0..n :
          /\ a <= own[g] /\ n - a <= extra[g]
          /\ own' = [own EXCEPT ![g] = @ - a]
          /\ extra' = [extra EXCEPT ![g] = @ - (n - a)]
    BY DEF StopTasks
  <1>2. /\ own \in [Deployed -> Nat] /\ \A h \in Deployed : own[h] <= Desired[h]
        /\ extra \in [Deployed -> 0..MaxExtra]
        /\ Desired \in [Deployed -> Nat] /\ MaxExtra \in Nat
    BY DEF ChaosTypeOK, WorkloadsTypeOK
  <1>3. /\ own'[g] = own[g] - a /\ extra'[g] = extra[g] - (n - a)
        /\ \A h \in Deployed \ {g} : own'[h] = own[h] /\ extra'[h] = extra[h]
    BY <1>1, <1>2
  <1>4. /\ own[g] - a \in Nat /\ own[g] - a <= Desired[g]
        /\ extra[g] - (n - a) \in 0..MaxExtra
    BY <1>1, <1>2
  <1>5. own' \in [Deployed -> Nat] /\ \A h \in Deployed : own'[h] <= Desired[h]
    BY <1>1, <1>2, <1>3, <1>4
  <1>6. extra' \in [Deployed -> 0..MaxExtra]
    BY <1>1, <1>2, <1>4
  <1>7. own'[g] + extra'[g] = Running(g) - n
    BY <1>1, <1>2, <1>3 DEF Running
  <1> QED
    BY <1>3, <1>5, <1>6, <1>7

(* Where Harms finds something. *)
LEMMA HarmsOf ==
  ASSUME NEW harm \in Harms
  PROVE  \/ \E h \in Deployed :
              /\ own'[h] + extra'[h] < Running(h)
              /\ harm = Harm(h[2], h[3], "tasks", Running(h) - own'[h] - extra'[h])
         \/ \E h \in Deployed :
              /\ hosts'[h] < hosts[h]
              /\ harm = Harm(h[2], h[3], "hosts", hosts[h] - hosts'[h])
         \/ \E h \in stress' \ stress : harm = Harm(h[2], h[3], "stress", 0)
         \/ \E x \in Endpoint :
              denied'[x] # denied[x] /\ harm = Harm(x[1], x[2], "access", 0)
  BY DEF Harms

(* What an experiment does, by the part of the containers that it changes.  *)
LEMMA ActKeepsTypes ==
  ASSUME ChaosTypeOK, NEW row \in OfferedRows, Act(row)
  PROVE  /\ own' \in [Deployed -> Nat] /\ \A g \in Deployed : own'[g] <= Desired[g]
         /\ hosts' \in [Deployed -> Nat] /\ \A g \in Deployed : hosts'[g] <= Desired[g]
         /\ extra' \in [Deployed -> 0..MaxExtra]
         /\ stress' \subseteq Deployed
         /\ denied' \in [Endpoint -> SUBSET OfferedRows]
         /\ \A x \in Endpoint : denied'[x] # denied[x] =>
              /\ Experiment(row.tag).fault = "access"
              /\ x = <<Experiment(row.tag).app, Experiment(row.tag).target>>
              /\ denied'[x] = denied[x] \cup {row}
         /\ \A harm \in Harms :
              LET e == Experiment(row.tag)
              IN  /\ harm.app = e.app /\ harm.target = e.target
                  /\ \/ e.fault = "access" /\ harm.kind = "access"
                     \/ /\ e.fault = "tasks" /\ harm.kind = "tasks"
                        /\ e.scope = "one" => harm.lost = 1
                     \/ /\ e.fault \in {"stop", "terminate"}
                        /\ \/ harm.kind = "hosts" /\ (e.scope = "one" => harm.lost = 1)
                           \/ harm.kind = "tasks"
                     \/ e.fault = "stress" /\ harm.kind = "stress"
  <1> USE DesiredAssumption
  <1> DEFINE e == Experiment(row.tag)
             g == <<East, e.app, e.target>>
  <1>0. g[2] = e.app /\ g[3] = e.target
    OBVIOUS
  <1>1. /\ own \in [Deployed -> Nat] /\ \A h \in Deployed : own[h] <= Desired[h]
        /\ hosts \in [Deployed -> Nat] /\ \A h \in Deployed : hosts[h] <= Desired[h]
        /\ extra \in [Deployed -> 0..MaxExtra]
        /\ stress \subseteq Deployed
        /\ denied \in [Endpoint -> SUBSET OfferedRows]
        /\ Desired \in [Deployed -> Nat] /\ MaxExtra \in Nat
    BY DEF ChaosTypeOK, WorkloadsTypeOK
  <1> HIDE DEF e
  <1>2. CASE e.fault = "access" /\ Deny(<<e.app, e.target>>, row)
    <2> DEFINE y == <<e.app, e.target>>
    <2>1. y[1] = e.app /\ y[2] = e.target
      OBVIOUS
    <2> HIDE DEF y
    <2>2. /\ denied' = [denied EXCEPT ![y] = @ \cup {row}]
          /\ own' = own /\ extra' = extra /\ hosts' = hosts /\ stress' = stress
      BY <1>2 DEF Deny, y
    <2>3. \A x \in Endpoint : denied'[x] # denied[x] =>
            x = y /\ denied'[x] = denied[x] \cup {row}
      BY <1>1, <2>2
    <2>4. denied' \in [Endpoint -> SUBSET OfferedRows]
      BY <1>1, <2>2
    <2>5. \A harm \in Harms : harm.app = e.app /\ harm.target = e.target /\ harm.kind = "access"
      <3> TAKE harm \in Harms
      <3>1. PICK x \in Endpoint :
              denied'[x] # denied[x] /\ harm = Harm(x[1], x[2], "access", 0)
        <4>1. \A h \in Deployed : /\ ~(own'[h] + extra'[h] < Running(h))
                                 /\ ~(hosts'[h] < hosts[h])
          BY <1>1, <2>2 DEF Running
        <4> QED
          BY <2>2, <4>1, HarmsOf
      <3> QED
        BY <2>1, <2>3, <3>1 DEF Harm
    <2> QED
      BY <1>1, <1>2, <2>2, <2>3, <2>4, <2>5 DEF e, y
  <1>3. CASE e.fault = "tasks" /\ g \in Deployed /\ ActOnTasks(g, e.scope)
    <2> DEFINE n == IF e.scope = "all" \/ Running(g) = 0 THEN Running(g) ELSE 1
    <2>1. Running(g) \in Nat
      BY <1>1, <1>3 DEF Running
    <2>2. n \in Nat /\ (e.scope = "one" /\ Running(g) # 0 => n = 1)
      BY <2>1
    <2>3. StopTasks(g, n) /\ hosts' = hosts /\ stress' = stress /\ denied' = denied
      BY <1>3 DEF ActOnTasks
    <2> HIDE DEF n, g
    <2>4. /\ own' \in [Deployed -> Nat] /\ \A h \in Deployed : own'[h] <= Desired[h]
          /\ extra' \in [Deployed -> 0..MaxExtra]
          /\ own'[g] + extra'[g] = Running(g) - n
          /\ \A h \in Deployed \ {g} : own'[h] = own[h] /\ extra'[h] = extra[h]
      BY <1>3, <2>2, <2>3, StopTasksKeepsTypes
    <2>5. \A harm \in Harms : /\ harm.app = e.app /\ harm.target = e.target
                              /\ harm.kind = "tasks"
                              /\ e.scope = "one" => harm.lost = 1
      <3> TAKE harm \in Harms
      <3>1. PICK h \in Deployed :
              /\ own'[h] + extra'[h] < Running(h)
              /\ harm = Harm(h[2], h[3], "tasks", Running(h) - own'[h] - extra'[h])
        BY <1>1, <2>3, HarmsOf
      <3>2. h = g
        BY <1>1, <2>4, <3>1 DEF Running
      <3>3. Running(g) - own'[g] - extra'[g] = n /\ Running(g) # 0
        BY <1>3, <2>1, <2>2, <2>4, <3>1, <3>2
      <3> QED
        BY <1>0, <2>2, <3>1, <3>2, <3>3 DEF Harm
    <2> QED
      BY <1>1, <1>3, <2>3, <2>4, <2>5 DEF e
  <1>4. CASE e.fault \in {"stop", "terminate"} /\ g \in Deployed /\ ActOnHosts(g, e.scope)
    <2> DEFINE lost == IF e.scope = "all" THEN hosts[g] ELSE 1
    <2>1. /\ hosts[g] > 0 /\ hosts' = [hosts EXCEPT ![g] = @ - lost]
          /\ stress' = stress /\ denied' = denied
          /\ \E n \in 0..Running(g) : StopTasks(g, n)
      BY <1>4 DEF ActOnHosts
    <2>2. Running(g) \in Nat
      BY <1>1, <1>4 DEF Running
    <2>3. PICK n \in Nat : StopTasks(g, n)
      BY <2>1, <2>2
    <2>4. lost \in 1..hosts[g] /\ (e.scope = "one" => lost = 1)
      BY <1>1, <1>4, <2>1
    <2> HIDE DEF lost, g
    <2>5. /\ own' \in [Deployed -> Nat] /\ \A h \in Deployed : own'[h] <= Desired[h]
          /\ extra' \in [Deployed -> 0..MaxExtra]
          /\ \A h \in Deployed \ {g} : own'[h] = own[h] /\ extra'[h] = extra[h]
      BY <1>4, <2>3, StopTasksKeepsTypes
    <2>6. hosts'[g] = hosts[g] - lost /\ \A h \in Deployed \ {g} : hosts'[h] = hosts[h]
      BY <1>1, <1>4, <2>1
    <2>7. hosts' \in [Deployed -> Nat] /\ \A h \in Deployed : hosts'[h] <= Desired[h]
      <3>1. hosts[g] - lost \in Nat /\ hosts[g] - lost <= Desired[g]
        BY <1>1, <1>4, <2>4
      <3> QED
        BY <1>1, <2>1, <2>6, <3>1
    <2>8. \A harm \in Harms : /\ harm.app = e.app /\ harm.target = e.target
                              /\ \/ harm.kind = "hosts" /\ (e.scope = "one" => harm.lost = 1)
                                 \/ harm.kind = "tasks"
      <3> TAKE harm \in Harms
      <3>1. CASE \E h \in Deployed :
                   /\ own'[h] + extra'[h] < Running(h)
                   /\ harm = Harm(h[2], h[3], "tasks", Running(h) - own'[h] - extra'[h])
        <4>1. PICK h \in Deployed :
                /\ own'[h] + extra'[h] < Running(h)
                /\ harm = Harm(h[2], h[3], "tasks", Running(h) - own'[h] - extra'[h])
          BY <3>1
        <4>2. h = g
          BY <1>1, <2>5, <4>1 DEF Running
        <4> QED
          BY <1>0, <4>1, <4>2 DEF Harm
      <3>2. CASE \E h \in Deployed :
                   /\ hosts'[h] < hosts[h]
                   /\ harm = Harm(h[2], h[3], "hosts", hosts[h] - hosts'[h])
        <4>1. PICK h \in Deployed :
                /\ hosts'[h] < hosts[h]
                /\ harm = Harm(h[2], h[3], "hosts", hosts[h] - hosts'[h])
          BY <3>2
        <4>2. h = g
          BY <1>1, <2>6, <4>1
        <4>3. hosts[g] - hosts'[g] = lost
          BY <1>1, <1>4, <2>4, <2>6
        <4> QED
          BY <1>0, <2>4, <4>1, <4>2, <4>3 DEF Harm
      <3> QED
        BY <2>1, <3>1, <3>2, HarmsOf
    <2> QED
      BY <1>1, <1>4, <2>1, <2>5, <2>7, <2>8 DEF e
  <1>5. CASE e.fault = "stress" /\ g \in Deployed /\ ActOnCpu(g)
    <2>1. /\ stress' = stress \cup {g} /\ own' = own /\ extra' = extra /\ hosts' = hosts
          /\ denied' = denied
      BY <1>5 DEF ActOnCpu
    <2> HIDE DEF g
    <2>2. \A harm \in Harms : harm.app = e.app /\ harm.target = e.target /\ harm.kind = "stress"
      <3> TAKE harm \in Harms
      <3>1. harm = Harm(g[2], g[3], "stress", 0)
        BY <1>1, <2>1, HarmsOf DEF Running
      <3> QED
        BY <1>0, <3>1 DEF Harm
    <2> QED
      BY <1>1, <1>5, <2>1, <2>2 DEF e
  <1> QED
    BY <1>2, <1>3, <1>4, <1>5 DEF Act, e

(* What the experiment of a faithful row takes is what the row announces.   *)
LEMMA LandedAsAnnounced ==
  ASSUME ChaosTypeOK, NEW row \in OfferedRows, ~AtOdds(row), Act(row), NEW harm \in Harms
  PROVE  Announces(row, harm)
  <1> DEFINE e == Experiment(row.tag)
  <1>1. /\ e.app = row.app /\ e.target = row.target /\ e.scope = row.scope
        /\ e.fault = row.fault \/ (row.fault = "stop" /\ e.fault = "terminate")
    BY OfferedRowsAssumption, PageFacts DEF Faithful
  <1>2. /\ harm.app = e.app /\ harm.target = e.target
        /\ \/ e.fault = "access" /\ harm.kind = "access"
           \/ /\ e.fault = "tasks" /\ harm.kind = "tasks"
              /\ e.scope = "one" => harm.lost = 1
           \/ /\ e.fault \in {"stop", "terminate"}
              /\ \/ harm.kind = "hosts" /\ (e.scope = "one" => harm.lost = 1)
                 \/ harm.kind = "tasks"
           \/ e.fault = "stress" /\ harm.kind = "stress"
    BY ActKeepsTypes
  <1> HIDE DEF e
  <1> QED
    BY <1>1, <1>2 DEF Announces

(* Tasks that are started by hand keep the types and deny nothing.          *)
LEMMA StartTasksKeepsTypes ==
  ASSUME ChaosTypeOK, NEW S \in SUBSET Deployed, StartTasks(S)
  PROVE  /\ extra' \in [Deployed -> 0..MaxExtra]
         /\ UNCHANGED <<own, hosts, stress, denied>>
  <1>1. extra \in [Deployed -> 0..MaxExtra] /\ MaxExtra \in Nat
    BY DesiredAssumption DEF ChaosTypeOK, WorkloadsTypeOK
  <1> QED
    BY <1>1 DEF StartTasks

LEMMA ChaosTypeStep ==
  ASSUME ChaosTypeOK, ChaosNext
  PROVE  ChaosTypeOK'
  <1> USE DesiredAssumption, ClicksAssumption
  <1>1. /\ own \in [Deployed -> Nat] /\ \A h \in Deployed : own[h] <= Desired[h]
        /\ hosts \in [Deployed -> Nat] /\ \A h \in Deployed : hosts[h] <= Desired[h]
        /\ extra \in [Deployed -> 0..MaxExtra]
        /\ stress \subseteq Deployed
        /\ denied \in [Endpoint -> SUBSET OfferedRows]
        /\ pending \subseteq OfferedRows
        /\ clicks \in 0..MaxClicks
        /\ recovered \subseteq OfferedRows
    BY DEF ChaosTypeOK, WorkloadsTypeOK
  <1>2. Click => clicks' \in 0..MaxClicks
    BY <1>1 DEF Click
  <1>3. ASSUME NEW row \in OfferedRows, Execute(row)
        PROVE  ChaosTypeOK'
    BY <1>1, <1>2, <1>3 DEF Execute, ChaosTypeOK, WorkloadsTypeOK
  <1>4. ASSUME NEW row \in OfferedRows, Land(row)
        PROVE  ChaosTypeOK'
    <2>1. Act(row)
      BY <1>4 DEF Land
    <2>2. /\ own' \in [Deployed -> Nat] /\ \A g \in Deployed : own'[g] <= Desired[g]
          /\ hosts' \in [Deployed -> Nat] /\ \A g \in Deployed : hosts'[g] <= Desired[g]
          /\ extra' \in [Deployed -> 0..MaxExtra]
          /\ stress' \subseteq Deployed
          /\ denied' \in [Endpoint -> SUBSET OfferedRows]
      BY <2>1, ActKeepsTypes
    <2>3. /\ pending' \subseteq OfferedRows /\ recovered' \subseteq OfferedRows
          /\ clicks' = clicks
      BY <1>1, <1>4 DEF Land
    <2> QED
      BY <1>1, <2>2, <2>3 DEF ChaosTypeOK, WorkloadsTypeOK
  <1>5. ASSUME NEW row \in OfferedRows, Drop(row)
        PROVE  ChaosTypeOK'
    BY <1>1, <1>5 DEF Drop, ChaosTypeOK, WorkloadsTypeOK
  <1>6. ASSUME NEW row \in OfferedRows, RecoverComponent(row)
        PROVE  ChaosTypeOK'
    <2> DEFINE g == <<East, row.back[1], row.back[2]>>
    <2>1. /\ g \in Deployed /\ Click /\ pending' = pending
          /\ \/ StartTasks({g}) /\ recovered' = recovered \cup {row}
             \/ UNCHANGED <<own, extra, hosts, stress, denied, recovered>>
      BY <1>6 DEF RecoverComponent
    <2> HIDE DEF g
    <2>2. /\ extra' \in [Deployed -> 0..MaxExtra]
          /\ UNCHANGED <<own, hosts, stress, denied>>
      BY <1>1, <2>1, StartTasksKeepsTypes
    <2> QED
      BY <1>1, <1>2, <2>1, <2>2 DEF ChaosTypeOK, WorkloadsTypeOK
  <1>7. ASSUME NEW row \in OfferedRows, RecoverAccess(row)
        PROVE  ChaosTypeOK'
    <2>1. denied' = [denied EXCEPT ![row.back] = {}]
      BY <1>7 DEF RecoverAccess, Allow
    <2>2. denied' \in [Endpoint -> SUBSET OfferedRows]
      BY <1>1, <2>1
    <2> QED
      BY <1>1, <1>2, <1>7, <2>2 DEF RecoverAccess, Allow, ChaosTypeOK, WorkloadsTypeOK
  <1>8. ASSUME NEW region \in Region, NEW app \in App, StartApplication(region, app)
        PROVE  ChaosTypeOK'
    <2>1. PICK S \in SUBSET Deployed : StartTasks(S)
      BY <1>8 DEF StartApplication, GroupsOf
    <2>2. /\ extra' \in [Deployed -> 0..MaxExtra]
          /\ UNCHANGED <<own, hosts, stress, denied>>
      BY <2>1, StartTasksKeepsTypes
    <2>3. Click /\ UNCHANGED <<pending, harmed, recovered>>
      BY <1>8 DEF StartApplication
    <2> QED
      BY <1>1, <1>2, <2>2, <2>3 DEF ChaosTypeOK, WorkloadsTypeOK
  <1>9. ASSUME NEW region \in Region, StopApplications(region)
        PROVE  ChaosTypeOK'
    <2>1. PICK S \in SUBSET Deployed :
            /\ own' = [g \in Deployed |-> IF g \in S THEN 0 ELSE own[g]]
            /\ extra' = [g \in Deployed |-> IF g \in S THEN 0 ELSE extra[g]]
      BY <1>9 DEF StopApplications
    <2>2. /\ own' \in [Deployed -> Nat] /\ \A g \in Deployed : own'[g] <= Desired[g]
          /\ extra' \in [Deployed -> 0..MaxExtra]
      BY <1>1, <2>1
    <2>3. Click /\ UNCHANGED <<hosts, stress, denied, pending, harmed, recovered>>
      BY <1>9 DEF StopApplications
    <2> QED
      BY <1>1, <1>2, <2>2, <2>3 DEF ChaosTypeOK, WorkloadsTypeOK
  <1>10. ASSUME NEW g \in Deployed, Repair(g)
         PROVE  ChaosTypeOK'
    <2>1. UNCHANGED <<clicks, recovered>>
      BY <1>10 DEF Repair
    <2>2. CASE ScheduleTask(g)
      BY <1>1, <2>1, <2>2 DEF ScheduleTask, ChaosTypeOK, WorkloadsTypeOK
    <2>3. CASE ReplaceHost(g)
      BY <1>1, <2>1, <2>3 DEF ReplaceHost, ChaosTypeOK, WorkloadsTypeOK
    <2>4. CASE Calm(g)
      BY <1>1, <2>1, <2>4 DEF Calm, ChaosTypeOK, WorkloadsTypeOK
    <2> QED
      BY <1>10, <2>2, <2>3, <2>4 DEF Repair
  <1> QED
    BY <1>3, <1>4, <1>5, <1>6, <1>7, <1>8, <1>9, <1>10 DEF ChaosNext

(* Both halves of the promise only change when an experiment lands or a     *)
(* Recover is carried out.                                                  *)
LEMMA ChaosStep ==
  ASSUME ChaosInv, ChaosNext
  PROVE  ChaosInv'
  <1> USE OfferedRowsAssumption
  <1>1. /\ ChaosTypeOK /\ DOMAIN harmed = OfferedRows /\ DenialInv /\ RowsKeepTheirWord
        /\ denied \in [Endpoint -> SUBSET OfferedRows]
    BY DEF ChaosInv, ChaosTypeOK, WorkloadsTypeOK
  <1>2. ChaosTypeOK'
    BY <1>1, ChaosTypeStep
  <1>3. ASSUME UNCHANGED <<denied, harmed>>, recovered' \subseteq recovered
        PROVE  ChaosInv'
    BY <1>1, <1>2, <1>3 DEF ChaosInv, DenialInv, RowsKeepTheirWord
  <1>4. ASSUME NEW row \in OfferedRows, Land(row)
        PROVE  ChaosInv'
    <2>1. /\ Act(row) /\ harmed' = [harmed EXCEPT ![row] = @ \cup Harms]
          /\ recovered' = recovered \ {row}
      BY <1>4 DEF Land
    <2>2. \A x \in Endpoint : denied'[x] # denied[x] =>
            /\ Experiment(row.tag).fault = "access"
            /\ x = <<Experiment(row.tag).app, Experiment(row.tag).target>>
            /\ denied'[x] = denied[x] \cup {row}
      BY <1>1, <2>1, ActKeepsTypes
    <2>3. /\ row.fault = "access" => row.back = <<row.app, row.target>>
          /\ Experiment(row.tag).fault = "access" => row.fault = "access"
          /\ ~AtOdds(row) => /\ Experiment(row.tag).app = row.app
                             /\ Experiment(row.tag).target = row.target
      BY PageFacts DEF Faithful
    <2>4. DenialInv'
      <3> SUFFICES ASSUME NEW other \in OfferedRows, NEW x \in Endpoint, other \in denied'[x],
                          other \notin denied[x]
                   PROVE  /\ other.fault = "access"
                          /\ ~AtOdds(other) => x = other.back
        BY <1>1 DEF DenialInv, AtOdds
      <3>1. other = row
        BY <2>2
      <3> QED
        BY <2>2, <2>3, <3>1
    <2>5. /\ DOMAIN harmed' = OfferedRows
          /\ harmed'[row] = harmed[row] \cup Harms
          /\ \A other \in OfferedRows \ {row} : harmed'[other] = harmed[other]
      BY <1>1, <2>1
    <2>6. RowsKeepTheirWord'
      <3> SUFFICES ASSUME NEW other \in OfferedRows, ~AtOdds(other)
                   PROVE  /\ \A harm \in harmed'[other] : Announces(other, harm)
                          /\ other \in recovered' => \A x \in Endpoint : other \notin denied'[x]
        BY DEF RowsKeepTheirWord, AtOdds, Announces
      <3>1. /\ \A harm \in harmed[other] : Announces(other, harm)
            /\ other \in recovered => \A x \in Endpoint : other \notin denied[x]
        BY <1>1 DEF RowsKeepTheirWord
      <3>2. \A harm \in harmed'[other] : Announces(other, harm)
        <4>1. CASE other = row
          BY <1>1, <2>1, <2>5, <3>1, <4>1, LandedAsAnnounced
        <4>2. CASE other # row
          BY <2>5, <3>1, <4>2
        <4> QED
          BY <4>1, <4>2
      <3>3. other \in recovered' => other \in recovered /\ other # row
        BY <2>1
      <3>4. \A x \in Endpoint : other # row /\ other \in denied'[x] => other \in denied[x]
        BY <2>2
      <3> QED
        BY <3>1, <3>2, <3>3, <3>4
    <2> QED
      BY <1>2, <2>4, <2>5, <2>6 DEF ChaosInv
  <1>5. ASSUME NEW row \in OfferedRows, RecoverComponent(row)
        PROVE  ChaosInv'
    <2> DEFINE g == <<East, row.back[1], row.back[2]>>
    <2>1. /\ row.fault = "tasks" /\ harmed' = harmed
          /\ \/ StartTasks({g}) /\ recovered' = recovered \cup {row}
             \/ UNCHANGED <<own, extra, hosts, stress, denied, recovered>>
      BY <1>5 DEF RecoverComponent
    <2>2. denied' = denied /\ recovered' \subseteq recovered \cup {row}
      BY <2>1 DEF StartTasks
    <2>3. \A x \in Endpoint : row \notin denied[x]
      BY <1>1, <2>1 DEF DenialInv
    <2> QED
      BY <1>1, <1>2, <2>1, <2>2, <2>3 DEF ChaosInv, DenialInv, RowsKeepTheirWord
  <1>6. ASSUME NEW row \in OfferedRows, RecoverAccess(row)
        PROVE  ChaosInv'
    <2>1. /\ row.fault = "access" /\ denied' = [denied EXCEPT ![row.back] = {}]
          /\ recovered' = recovered \cup {row} /\ harmed' = harmed
      BY <1>6 DEF RecoverAccess, Allow
    <2>2. \A x \in Endpoint : denied'[x] = IF x = row.back THEN {} ELSE denied[x]
      BY <1>1, <2>1
    <2>3. DenialInv'
      BY <1>1, <2>2 DEF DenialInv
    <2>4. ~AtOdds(row) => \A x \in Endpoint : row \notin denied'[x]
      BY <2>2, <1>1 DEF DenialInv
    <2>5. \A other \in OfferedRows, x \in Endpoint : other \in denied'[x] => other \in denied[x]
      BY <2>2
    <2>6. RowsKeepTheirWord'
      BY <1>1, <2>1, <2>4, <2>5 DEF RowsKeepTheirWord
    <2> QED
      BY <1>1, <1>2, <2>1, <2>3, <2>6 DEF ChaosInv
  <1>7. ASSUME NEW row \in OfferedRows, Execute(row) \/ Drop(row)
        PROVE  ChaosInv'
    BY <1>3, <1>7 DEF Execute, Drop
  <1>8. ASSUME NEW region \in Region, NEW app \in App, StartApplication(region, app)
        PROVE  ChaosInv'
    <2>1. PICK S : StartTasks(S)
      BY <1>8 DEF StartApplication
    <2> QED
      BY <1>3, <1>8, <2>1 DEF StartApplication, StartTasks
  <1>9. ASSUME NEW region \in Region, StopApplications(region)
        PROVE  ChaosInv'
    BY <1>3, <1>9 DEF StopApplications
  <1>10. ASSUME NEW g \in Deployed, Repair(g)
         PROVE  ChaosInv'
    BY <1>3, <1>10 DEF Repair, ScheduleTask, ReplaceHost, Calm
  <1> QED
    BY <1>4, <1>5, <1>6, <1>7, <1>8, <1>9, <1>10 DEF ChaosNext

LEMMA ChaosInvariance == ChaosSpec => []ChaosInv
  <1>1. ChaosInv /\ UNCHANGED chaosVars => ChaosInv'
    BY DEF ChaosInv, chaosVars, workVars, ChaosTypeOK, WorkloadsTypeOK, Running, DenialInv,
           RowsKeepTheirWord
  <1> QED
    BY <1>1, ChaosStarts, ChaosStep, PTL DEF ChaosSpec

(* Tasks, hosts and endpoints keep within their bounds, and only rows of    *)
(* the page are pending or recovered, for every deployment of the groups.   *)
THEOREM ChaosTypeCorrect == ChaosSpec => []ChaosTypeOK
  <1>1. ChaosInv => ChaosTypeOK
    BY DEF ChaosInv
  <1> QED
    BY <1>1, ChaosInvariance, PTL

(* Whatever rows are offered, however often they are clicked and however    *)
(* late their experiments land, every row but the one of Aurora of          *)
(* Settlement takes what it announces, and its Recover gives an endpoint    *)
(* back.                                                                    *)
THEOREM ChaosRowsKeepTheirWord == ChaosSpec => []RowsKeepTheirWord
  <1>1. ChaosInv => RowsKeepTheirWord
    BY DEF ChaosInv
  <1> QED
    BY <1>1, ChaosInvariance, PTL

----------------------------------------------------------------------------
(* The pages of the dashboard. *)

(* What page p asks for while the store holds id. *)
Asks(p, id) ==
  CASE p = "state" -> {StateAsks[i] : i \in DOMAIN StateAsks}
    [] p = "executions" -> TableAsks
    [] p = "view" -> ViewAsks(id)
    [] p = "recon" -> ReconAsks
    [] p = "tm-monitor" -> TradeAsks
    [] p = "sm-monitor" -> SettlementAsks
    [] OTHER -> {}

CallRecord ==
  [load : Load, res : Followed, sets : {a.sets : a \in Asks(page, chosen)}, place : Nat,
   phase : {"sent", "answered", "failed"}, got : Int]

(* The backend has a history of every followed resource. *)
HistInv ==
  /\ DOMAIN hist = Followed
  /\ \A r \in Followed : hist[r] \in Seq({Initial[r]} \cup Changes[r]) /\ Now(r) > 0

(* The mount saw a version of everything the page reads. *)
OpenedInv ==
  /\ DOMAIN opened = {a.res : a \in Asks(page, chosen)} \cap Followed
  /\ \A r \in DOMAIN opened : opened[r] \in 1..Now(r)

(* A version of res that an answer may carry: none, or one since the mount. *)
Fresh(res, at) == at = Unknown \/ (at > 0 /\ at \in opened[res]..Now(res))

(* A call is one that the page asks for, and its answer is not older than   *)
(* the page.                                                                *)
CallInv ==
  \A c \in calls :
    /\ c \in CallRecord
    /\ \E a \in Asks(page, chosen) : c.res = a.res /\ c.sets = a.sets
    /\ c.phase = "answered" => Fresh(c.res, c.got)

(* A hook holds what a call of the page set it to; in the view, the pane    *)
(* may have it from the list of steps.                                      *)
HookInv ==
  /\ DOMAIN hook = HooksOf(page)
  /\ \A h \in DOMAIN hook :
       \/ hook[h] = BlankHook
       \/ /\ hook[h].res \in Followed
          /\ Fresh(hook[h].res, hook[h].at)
          /\ \E a \in Asks(page, chosen) :
               /\ hook[h].res = a.res
               /\ page = "view" \/ (h \in DOMAIN a.sets /\ hook[h].part = a.sets[h])

(* The store holds an execution that was listed. *)
ChosenInv ==
  \/ chosen = NoExecution
  \/ /\ Executions \in Followed
     /\ \E s \in DOMAIN hist[Executions] : chosen \in hist[Executions][s]

DashboardInv ==
  /\ page \in Page
  /\ failed \in 0..MaxFail
  /\ HistInv
  /\ OpenedInv
  /\ CallInv
  /\ HookInv
  /\ ChosenInv

(* The asks of the state page are a sequence. *)
LEMMA StateAsksFacts ==
  DOMAIN StateAsks = 1..Len(StateAsks) /\ Len(StateAsks) = 6
  BY DEF StateAsks

LEMMA AskFacts ==
  ASSUME NEW res, NEW sets
  PROVE  Ask(res, sets).res = res /\ Ask(res, sets).sets = sets
  BY DEF Ask

(* What the state page asks for, hook by hook.                              *)
LEMMA StateAskSets ==
  ASSUME NEW a \in Asks("state", chosen)
  PROVE  /\ DOMAIN a.sets \subseteq StateHooks
         /\ "tradeMatchingPrimaryState" \in DOMAIN a.sets =>
              a.res = States("trade-matching") /\ a.sets["tradeMatchingPrimaryState"] = East
         /\ "tradeMatchingSecondaryState" \in DOMAIN a.sets =>
              a.res = States("trade-matching") /\ a.sets["tradeMatchingSecondaryState"] = West
         /\ "settlementPrimaryState" \in DOMAIN a.sets =>
              a.res = States("settlement") /\ a.sets["settlementPrimaryState"] = East
         /\ "settlementSecondaryState" \in DOMAIN a.sets =>
              a.res = States("settlement") /\ a.sets["settlementSecondaryState"] = West
         /\ "tradeMatchingPrimaryControls" \in DOMAIN a.sets =>
              a.res = Controls("trade-matching", East)
         /\ "tradeMatchingSecondaryControls" \in DOMAIN a.sets =>
              a.res = Controls("trade-matching", West)
         /\ "settlementPrimaryControls" \in DOMAIN a.sets =>
              a.res = Controls("settlement", East)
         /\ "settlementSecondaryControls" \in DOMAIN a.sets =>
              a.res = Controls("settlement", West)
  <1>1. PICK i \in 1..6 : a = StateAsks[i]
    BY StateAsksFacts DEF Asks
  <1>2. CASE i = 1
    <2>1. /\ a.res = States("trade-matching")
          /\ a.sets = Split("tradeMatchingPrimaryState", "tradeMatchingSecondaryState")
      BY <1>1, <1>2, AskFacts DEF StateAsks
    <2>2. /\ DOMAIN a.sets = {"tradeMatchingPrimaryState", "tradeMatchingSecondaryState"}
          /\ a.sets["tradeMatchingPrimaryState"] = East
          /\ a.sets["tradeMatchingSecondaryState"] = West
      BY <2>1 DEF Split
    <2> QED
      BY <2>1, <2>2 DEF StateHooks
  <1>3. CASE i = 2
    <2>1. /\ a.res = States("settlement")
          /\ a.sets = Split("settlementPrimaryState", "settlementSecondaryState")
      BY <1>1, <1>3, AskFacts DEF StateAsks
    <2>2. /\ DOMAIN a.sets = {"settlementPrimaryState", "settlementSecondaryState"}
          /\ a.sets["settlementPrimaryState"] = East
          /\ a.sets["settlementSecondaryState"] = West
      BY <2>1 DEF Split
    <2> QED
      BY <2>1, <2>2 DEF StateHooks
  <1>4. CASE i = 3
    <2>1. /\ a.res = Controls("trade-matching", East)
          /\ a.sets = Whole("tradeMatchingPrimaryControls")
      BY <1>1, <1>4, AskFacts DEF StateAsks
    <2>2. DOMAIN a.sets = {"tradeMatchingPrimaryControls"}
      BY <2>1 DEF Whole
    <2> QED
      BY <2>1, <2>2 DEF StateHooks
  <1>5. CASE i = 4
    <2>1. /\ a.res = Controls("trade-matching", West)
          /\ a.sets = Whole("tradeMatchingSecondaryControls")
      BY <1>1, <1>5, AskFacts DEF StateAsks
    <2>2. DOMAIN a.sets = {"tradeMatchingSecondaryControls"}
      BY <2>1 DEF Whole
    <2> QED
      BY <2>1, <2>2 DEF StateHooks
  <1>6. CASE i = 5
    <2>1. /\ a.res = Controls("settlement", East)
          /\ a.sets = Whole("settlementPrimaryControls")
      BY <1>1, <1>6, AskFacts DEF StateAsks
    <2>2. DOMAIN a.sets = {"settlementPrimaryControls"}
      BY <2>1 DEF Whole
    <2> QED
      BY <2>1, <2>2 DEF StateHooks
  <1>7. CASE i = 6
    <2>1. /\ a.res = Controls("settlement", West)
          /\ a.sets = Whole("settlementSecondaryControls")
      BY <1>1, <1>7, AskFacts DEF StateAsks
    <2>2. DOMAIN a.sets = {"settlementSecondaryControls"}
      BY <2>1 DEF Whole
    <2> QED
      BY <2>1, <2>2 DEF StateHooks
  <1> QED
    BY <1>2, <1>3, <1>4, <1>5, <1>6, <1>7

(* A monitor sets the hook of an aspect from what it asks about the aspect. *)
LEMMA MonitorAskSets ==
  ASSUME NEW app, NEW a \in {Ask(Resource(app, x), Whole(x)) : x \in Aspect}
  PROVE  /\ DOMAIN a.sets \subseteq MonitorHooks
         /\ \A h \in DOMAIN a.sets : a.res = Resource(app, h)
  <1>1. PICK x \in Aspect : a = Ask(Resource(app, x), Whole(x))
    OBVIOUS
  <1>2. a.res = Resource(app, x) /\ a.sets = Whole(x)
    BY <1>1, AskFacts
  <1>3. DOMAIN a.sets = {x}
    BY <1>2 DEF Whole
  <1> QED
    BY <1>2, <1>3 DEF MonitorHooks

LEMMA ReconAskSets ==
  ASSUME NEW a \in ReconAsks
  PROVE  /\ DOMAIN a.sets \subseteq ReconHooks
         /\ \A h \in DOMAIN a.sets : a.res = Recon(h)
  <1>1. PICK x \in ReconHooks : a = Ask(Recon(x), Whole(x))
    BY DEF ReconAsks
  <1>2. a.res = Recon(x) /\ a.sets = Whole(x)
    BY <1>1, AskFacts
  <1>3. DOMAIN a.sets = {x}
    BY <1>2 DEF Whole
  <1> QED
    BY <1>2, <1>3

(* A page reads what it asks for, and sets hooks that it has.               *)
LEMMA AsksFacts ==
  ASSUME NEW p \in Page
  PROVE  /\ ReadBy(p) = {a.res : a \in Asks(p, chosen)}
         /\ \A id : \A a \in Asks(p, id) : DOMAIN a.sets \subseteq HooksOf(p)
  <1>1. ReadBy(p) = {a.res : a \in Asks(p, chosen)}
    <2>1. CASE p = "state"
      BY <2>1 DEF ReadBy, Asks
    <2>2. CASE p # "state"
      BY <2>2 DEF ReadBy, Asks
    <2> QED
      BY <2>1, <2>2
  <1>2. ASSUME NEW id, NEW a \in Asks(p, id)
        PROVE  DOMAIN a.sets \subseteq HooksOf(p)
    <2>1. CASE p = "state"
      <3>1. a \in Asks("state", chosen) /\ HooksOf(p) = StateHooks
        BY <1>2, <2>1 DEF Asks, HooksOf
      <3> QED
        BY <3>1, StateAskSets
    <2>2. CASE p = "executions"
      BY <1>2, <2>2 DEF Asks, TableAsks, Ask, Whole, HooksOf, TableHooks
    <2>3. CASE p = "view"
      BY <1>2, <2>3 DEF Asks, ViewAsks, Ask, Whole, HooksOf, ViewHooks
    <2>4. CASE p = "recon"
      <3>1. a \in ReconAsks /\ HooksOf(p) = ReconHooks
        BY <1>2, <2>4 DEF Asks, HooksOf
      <3> QED
        BY <3>1, ReconAskSets
    <2>5. CASE p = "tm-monitor"
      <3>1. a \in TradeAsks /\ HooksOf(p) = MonitorHooks
        BY <1>2, <2>5 DEF Asks, HooksOf
      <3> QED
        BY <3>1, MonitorAskSets DEF TradeAsks
    <2>6. CASE p = "sm-monitor"
      <3>1. a \in SettlementAsks /\ HooksOf(p) = MonitorHooks
        BY <1>2, <2>6 DEF Asks, HooksOf
      <3> QED
        BY <3>1, MonitorAskSets DEF SettlementAsks
    <2>7. CASE p \notin {"state", "executions", "view", "recon", "tm-monitor", "sm-monitor"}
      BY <1>2, <2>7 DEF Asks
    <2> QED
      BY <2>1, <2>2, <2>3, <2>4, <2>5, <2>6, <2>7
  <1> QED
    BY <1>1, <1>2

(* Calls that were just sent. *)
Sent(c, load, asks) ==
  \E a \in asks, place \in Nat : a.res \in Followed /\ c = Call(load, a, place)

LEMMA AwaitedSent ==
  ASSUME NEW load, NEW first \in Nat \ {0}, NEW c \in Awaited(load, StateAsks, first)
  PROVE  Sent(c, load, {StateAsks[i] : i \in DOMAIN StateAsks})
  BY StateAsksFacts DEF Awaited, Sent

LEMMA ConcurrentSent ==
  ASSUME NEW load, NEW asks, NEW c \in Concurrent(load, asks)
  PROVE  Sent(c, load, asks)
  BY DEF Concurrent, Sent

LEMMA FirstLoadSent ==
  ASSUME NEW p \in Page, NEW load, NEW c \in FirstLoad(p, load)
  PROVE  Sent(c, load, Asks(p, chosen))
  <1>1. CASE p = "state"
    BY <1>1, AwaitedSent DEF FirstLoad, Asks
  <1>2. CASE p = "executions"
    BY <1>2, ConcurrentSent DEF FirstLoad, Asks
  <1>3. CASE p = "view"
    BY <1>3, ConcurrentSent DEF FirstLoad, Asks
  <1>4. CASE p = "tm-monitor"
    BY <1>4, ConcurrentSent DEF FirstLoad, Asks
  <1>5. CASE p = "sm-monitor"
    BY <1>5, ConcurrentSent DEF FirstLoad, Asks
  <1>6. CASE p \notin {"state", "executions", "view", "tm-monitor", "sm-monitor"}
    BY <1>6 DEF FirstLoad
  <1> QED
    BY <1>1, <1>2, <1>3, <1>4, <1>5, <1>6

(* A call that was just sent is as CallInv demands. *)
LEMMA SentCall ==
  ASSUME NEW load \in Load, NEW asks, NEW c, Sent(c, load, asks)
  PROVE  /\ c \in [load : Load, res : Followed, sets : {a.sets : a \in asks}, place : Nat,
                   phase : {"sent", "answered", "failed"}, got : Int]
         /\ \E a \in asks : c.res = a.res /\ c.sets = a.sets
         /\ c.phase = "sent"
  <1>1. PICK a \in asks, place \in Nat : a.res \in Followed /\ c = Call(load, a, place)
    BY DEF Sent
  <1>2. c = [load |-> load, res |-> a.res, sets |-> a.sets, place |-> place,
             phase |-> "sent", got |-> -1]
    BY <1>1 DEF Call, Blank
  <1> QED
    BY <1>1, <1>2

LEMMA LoadFacts ==
  /\ AnyOf(Load) \in Load
  /\ FreeLoads # {} => NewLoad \in Load
  BY LoadAssumption DEF AnyOf, NewLoad, FreeLoads

(* The table of executions is the one page that chooses; what it asks for   *)
(* does not depend on the choice.                                           *)
LEMMA AsksOfTable ==
  ASSUME NEW p, p # "view", NEW id, NEW other
  PROVE  Asks(p, id) = Asks(p, other)
  BY DEF Asks

LEMMA DashboardStarts == DashboardInit => DashboardInv
  <1> SUFFICES ASSUME DashboardInit
               PROVE  DashboardInv
    OBVIOUS
  <1>1. page \in Page /\ failed \in 0..MaxFail
    BY CallBounds DEF DashboardInit, Page
  <1>2. HistInv
    BY DEF DashboardInit, HistInv, Now
  <1>3. Asks(page, chosen) = {} /\ HooksOf(page) = {}
    BY DEF DashboardInit, Asks, HooksOf
  <1>4. DOMAIN hook = {} /\ DOMAIN opened = {} /\ calls = {}
    BY DEF DashboardInit
  <1>5. OpenedInv /\ CallInv /\ HookInv
    BY <1>3, <1>4 DEF OpenedInv, CallInv, HookInv
  <1> QED
    BY <1>1, <1>2, <1>5 DEF DashboardInv, DashboardInit, ChosenInv

LEMMA OpenStep ==
  ASSUME DashboardInv, NEW p \in Page, Open(p)
  PROVE  DashboardInv'
  <1>1. /\ page' = p
        /\ hook' = [h \in HooksOf(p) |-> BlankHook]
        /\ opened' = [r \in ReadBy(p) \cap Followed |-> Now(r)]
        /\ calls' = FirstLoad(p, AnyOf(Load))
        /\ hist' = hist /\ failed' = failed /\ chosen' = chosen
    BY DEF Open
  <1>2. HistInv /\ HistInv' /\ ChosenInv'
    BY <1>1 DEF DashboardInv, HistInv, ChosenInv, Now
  <1>3. OpenedInv'
    <2>1. ASSUME NEW r \in ReadBy(p) \cap Followed
          PROVE  Now(r) \in 1..Now(r) /\ Now(r)' = Now(r)
      <3>1. hist[r] \in Seq({Initial[r]} \cup Changes[r]) /\ Len(hist[r]) > 0
        BY <1>2 DEF HistInv, Now
      <3>2. Len(hist[r]) \in Nat
        BY <3>1
      <3> QED
        BY <1>1, <3>1, <3>2 DEF Now
    <2> QED
      BY <1>1, <2>1, AsksFacts DEF OpenedInv
  <1>4. CallInv'
    <2> SUFFICES ASSUME NEW c \in calls'
                 PROVE  /\ c \in CallRecord'
                        /\ \E a \in Asks(p, chosen) : c.res = a.res /\ c.sets = a.sets
                        /\ c.phase = "sent"
      BY <1>1 DEF CallInv
    <2>1. Sent(c, AnyOf(Load), Asks(p, chosen))
      BY <1>1, FirstLoadSent
    <2> QED
      BY <1>1, <2>1, SentCall, LoadFacts DEF CallRecord
  <1>5. HookInv'
    <2>1. HooksOf(page)' = HooksOf(p)
      BY <1>1 DEF HooksOf
    <2> QED
      BY <1>1, <2>1 DEF HookInv
  <1> QED
    BY <1>1, <1>2, <1>3, <1>4, <1>5 DEF DashboardInv

(* The backend only gets newer.                                             *)
LEMMA ChangeStep ==
  ASSUME DashboardInv, NEW r \in Followed, Change(r)
  PROVE  DashboardInv'
  <1>1. PICK v \in Changes[r] : hist' = [hist EXCEPT ![r] = Append(@, v)]
    BY DEF Change
  <1>2. UNCHANGED <<failed, page, hook, opened, calls, chosen>>
    BY DEF Change
  <1>3. HistInv
    BY DEF DashboardInv
  <1>4. /\ DOMAIN hist' = Followed
        /\ hist'[r] = Append(hist[r], v)
        /\ \A x \in Followed \ {r} : hist'[x] = hist[x]
    BY <1>1, <1>3 DEF HistInv
  <1>5. /\ hist[r] \in Seq({Initial[r]} \cup Changes[r]) /\ Len(hist[r]) > 0
        /\ v \in {Initial[r]} \cup Changes[r]
    BY <1>3 DEF HistInv, Now
  <1>6. /\ hist'[r] \in Seq({Initial[r]} \cup Changes[r])
        /\ Len(hist'[r]) = Len(hist[r]) + 1
        /\ \A s \in DOMAIN hist[r] : s \in DOMAIN hist'[r] /\ hist'[r][s] = hist[r][s]
    BY <1>4, <1>5
  <1>7. \A x \in Followed : /\ Now(x) \in Nat /\ Now(x)' \in Nat /\ Now(x) <= Now(x)'
                            /\ \A s \in DOMAIN hist[x] :
                                 s \in DOMAIN hist'[x] /\ hist'[x][s] = hist[x][s]
    BY <1>3, <1>4, <1>5, <1>6 DEF HistInv, Now
  <1>8. HistInv'
    BY <1>3, <1>4, <1>6 DEF HistInv, Now
  <1>9. OpenedInv'
    BY <1>2, <1>7 DEF DashboardInv, OpenedInv
  <1>10. \A x \in Followed : \A at : Fresh(x, at) /\ x \in DOMAIN opened => Fresh(x, at)'
    BY <1>2, <1>7 DEF Fresh, DashboardInv, OpenedInv
  <1>11. CallInv'
    <2>1. CallRecord' = CallRecord
      BY <1>2 DEF CallRecord
    <2>2. \A c \in calls : c.res \in Followed /\ c.res \in DOMAIN opened
      BY DEF DashboardInv, CallInv, CallRecord, OpenedInv
    <2> QED
      BY <1>2, <1>10, <2>1, <2>2 DEF DashboardInv, CallInv
  <1>12. HookInv'
    <2>1. HooksOf(page)' = HooksOf(page)
      BY <1>2 DEF HooksOf
    <2>2. \A h \in DOMAIN hook : hook[h] # BlankHook =>
            hook[h].res \in Followed /\ hook[h].res \in DOMAIN opened
      BY DEF DashboardInv, HookInv, OpenedInv
    <2> QED
      BY <1>2, <1>10, <2>1, <2>2 DEF DashboardInv, HookInv
  <1>13. ChosenInv'
    BY <1>2, <1>7 DEF DashboardInv, ChosenInv
  <1> QED
    BY <1>2, <1>8, <1>9, <1>11, <1>12, <1>13 DEF DashboardInv

(* What is left of the invariant when a step only touches the calls and the *)
(* hooks of the mounted page.                                               *)
LEMMA PageStep ==
  ASSUME DashboardInv, UNCHANGED <<hist, page, opened, chosen>>, failed' \in 0..MaxFail,
         \A c \in calls' : \/ c \in calls
                           \/ /\ c \in CallRecord
                              /\ \E a \in Asks(page, chosen) : c.res = a.res /\ c.sets = a.sets
                              /\ c.phase = "answered" => Fresh(c.res, c.got),
         DOMAIN hook' = DOMAIN hook,
         \A h \in DOMAIN hook :
           \/ hook'[h] = hook[h]
           \/ hook'[h] = BlankHook
           \/ /\ hook'[h].res \in Followed
              /\ Fresh(hook'[h].res, hook'[h].at)
              /\ \E a \in Asks(page, chosen) :
                   /\ hook'[h].res = a.res
                   /\ page = "view" \/ (h \in DOMAIN a.sets /\ hook'[h].part = a.sets[h])
  PROVE  DashboardInv'
  <1>1. /\ page' \in Page /\ failed' \in 0..MaxFail /\ HistInv' /\ OpenedInv' /\ ChosenInv'
    BY DEF DashboardInv, HistInv, OpenedInv, ChosenInv, Now
  <1>2. /\ CallRecord' = CallRecord
        /\ \A res, at : Fresh(res, at)' <=> Fresh(res, at)
    BY DEF CallRecord, Fresh, Now
  <1>3. CallInv'
    BY <1>2 DEF DashboardInv, CallInv
  <1>4. HooksOf(page)' = HooksOf(page)
    BY DEF HooksOf
  <1>5. HookInv'
    BY <1>2, <1>4 DEF DashboardInv, HookInv
  <1> QED
    BY <1>1, <1>3, <1>5 DEF DashboardInv

(* The API answers, or the fetch fails.                                     *)
LEMMA AnswerStep ==
  ASSUME DashboardInv, NEW c \in calls, Serve(c) \/ ServeUnknown(c) \/ Fail(c)
  PROVE  DashboardInv'
  <1>1. /\ c \in CallRecord
        /\ \E a \in Asks(page, chosen) : c.res = a.res /\ c.sets = a.sets
        /\ c.res \in DOMAIN opened /\ failed \in 0..MaxFail
    BY DEF DashboardInv, CallInv, CallRecord, OpenedInv
  <1>2. Now(c.res) \in Nat /\ Now(c.res) > 0 /\ opened[c.res] \in 1..Now(c.res)
    BY <1>1 DEF DashboardInv, HistInv, OpenedInv, Now
  <1>3. Fresh(c.res, Now(c.res)) /\ Fresh(c.res, Unknown)
    BY <1>2 DEF Fresh
  <1>4. UNCHANGED <<hist, page, hook, opened, chosen>> /\ failed' \in 0..MaxFail
    BY <1>1, CallBounds DEF Serve, ServeUnknown, Fail
  <1>5. ASSUME NEW got \in Int, NEW phase \in {"answered", "failed"},
               phase = "answered" => Fresh(c.res, got),
               NEW d, d = [c EXCEPT !.phase = phase, !.got = got]
        PROVE  /\ d \in CallRecord
               /\ \E a \in Asks(page, chosen) : d.res = a.res /\ d.sets = a.sets
               /\ d.phase = "answered" => Fresh(d.res, d.got)
    <2>1. d.res = c.res /\ d.sets = c.sets /\ d.phase = phase /\ d.got = got
      BY <1>1, <1>5 DEF CallRecord
    <2>2. d \in CallRecord
      BY <1>1, <1>5 DEF CallRecord
    <2> QED
      BY <1>1, <1>5, <2>1, <2>2
  <1>6. ASSUME NEW got \in Int, NEW phase \in {"answered", "failed"},
               phase = "answered" => Fresh(c.res, got),
               calls' = (calls \ {c}) \cup {[c EXCEPT !.phase = phase, !.got = got]}
        PROVE  DashboardInv'
    BY <1>4, <1>5, <1>6, PageStep
  <1>7. CASE Serve(c)
    <2> DEFINE now == Now(c.res)
    <2>1. calls' = (calls \ {c}) \cup {[c EXCEPT !.phase = "answered", !.got = now]}
      BY <1>7 DEF Serve
    <2>2. now \in Int /\ Fresh(c.res, now)
      BY <1>2, <1>3
    <2> HIDE DEF now
    <2> QED
      BY <1>6, <2>1, <2>2
  <1>8. CASE ServeUnknown(c)
    <2>1. calls' = (calls \ {c}) \cup {[c EXCEPT !.phase = "answered", !.got = Unknown]}
      BY <1>8 DEF ServeUnknown
    <2>2. Unknown \in Int
      BY DEF Unknown
    <2> QED
      BY <1>3, <1>6, <2>1, <2>2
  <1>9. CASE Fail(c)
    <2>1. c.got \in Int
      BY <1>1 DEF CallRecord
    <2>2. [c EXCEPT !.phase = "failed"] = [c EXCEPT !.phase = "failed", !.got = c.got]
      BY <1>1 DEF CallRecord
    <2> QED
      BY <1>6, <1>9, <2>1, <2>2 DEF Fail
  <1> QED
    BY <1>7, <1>8, <1>9

(* The .then of a call sets hooks of the page that called.                  *)
LEMMA SetHooksStep ==
  ASSUME DashboardInv, NEW c \in calls, SetHooks(c),
         UNCHANGED <<hist, failed, page, opened, chosen>>,
         \A d \in calls' \ calls : \E load \in Load : Sent(d, load, Asks(page, chosen))
  PROVE  DashboardInv'
  <1>1. /\ \E a \in Asks(page, chosen) : c.res = a.res /\ c.sets = a.sets
        /\ c.phase = "answered" => Fresh(c.res, c.got)
        /\ c.res \in Followed
    BY DEF DashboardInv, CallInv, CallRecord
  <1>2. /\ DOMAIN hook' = DOMAIN hook
        /\ \A h \in DOMAIN hook :
             hook'[h] = IF c.phase = "answered" /\ h \in DOMAIN c.sets
                        THEN [res |-> c.res, part |-> c.sets[h], at |-> c.got]
                        ELSE hook[h]
    BY DEF SetHooks
  <1>3. ASSUME NEW h \in DOMAIN hook, hook'[h] # hook[h]
        PROVE  /\ hook'[h].res \in Followed
               /\ Fresh(hook'[h].res, hook'[h].at)
               /\ \E a \in Asks(page, chosen) :
                    hook'[h].res = a.res /\ h \in DOMAIN a.sets /\ hook'[h].part = a.sets[h]
    <2>1. /\ hook'[h].res = c.res /\ hook'[h].part = c.sets[h] /\ hook'[h].at = c.got
          /\ c.phase = "answered" /\ h \in DOMAIN c.sets
      BY <1>2, <1>3
    <2> QED
      BY <1>1, <2>1
  <1>4. \A d \in calls' : \/ d \in calls
                          \/ /\ d \in CallRecord
                             /\ \E a \in Asks(page, chosen) : d.res = a.res /\ d.sets = a.sets
                             /\ d.phase = "answered" => Fresh(d.res, d.got)
    BY SentCall DEF CallRecord
  <1>5. failed' \in 0..MaxFail
    BY DEF DashboardInv
  <1> QED
    BY <1>2, <1>3, <1>4, <1>5, PageStep

LEMMA DeliverStep ==
  ASSUME DashboardInv, NEW c \in calls, Deliver(c)
  PROVE  DashboardInv'
  <1>1. CASE DeliverState(c)
    <2>1. /\ page = "state" /\ c.place > 0 /\ SetHooks(c)
          /\ calls' = (calls \ {c}) \cup Awaited(c.load, StateAsks, c.place + 1)
          /\ UNCHANGED <<hist, failed, page, opened, chosen>>
      BY <1>1 DEF DeliverState, DeliverAwaited
    <2>2. c.load \in Load /\ c.place + 1 \in Nat \ {0}
      BY <2>1 DEF DashboardInv, CallInv, CallRecord
    <2>3. Asks(page, chosen) = {StateAsks[i] : i \in DOMAIN StateAsks}
      BY <2>1 DEF Asks
    <2>4. \A d \in calls' \ calls : Sent(d, c.load, Asks(page, chosen))
      BY <2>1, <2>2, <2>3, AwaitedSent
    <2> QED
      BY <2>1, <2>2, <2>4, SetHooksStep
  <1>2. CASE DeliverRecon(c) \/ DeliverMonitor(c) \/ DeliverExecution(c)
    <2>1. /\ SetHooks(c) /\ calls' \subseteq calls
          /\ UNCHANGED <<hist, failed, page, opened, chosen>>
      BY <1>2 DEF DeliverRecon, DeliverMonitor, DeliverExecution, DeliverOne
    <2> QED
      BY <2>1, SetHooksStep
  <1> QED
    BY <1>1, <1>2 DEF Deliver

(* Another round of calls of the mounted page.                              *)
LEMMA RoundStep ==
  ASSUME DashboardInv, Tick \/ TickView \/ RefreshRecon \/ RefreshMonitor
  PROVE  DashboardInv'
  <1>1. /\ FreeLoads # {} /\ UNCHANGED <<hist, failed, page, hook, opened, chosen>>
        /\ \A d \in calls' \ calls : Sent(d, NewLoad, Asks(page, chosen))
    <2>1. CASE Tick
      BY <2>1, AwaitedSent DEF Tick, Asks
    <2>2. CASE TickView
      BY <2>2, ConcurrentSent DEF TickView, Asks
    <2>3. CASE RefreshRecon
      BY <2>3, ConcurrentSent DEF RefreshRecon, Asks
    <2>4. CASE RefreshMonitor
      BY <2>4, ConcurrentSent DEF RefreshMonitor, Asks
    <2> QED
      BY <2>1, <2>2, <2>3, <2>4
  <1>2. \A d \in calls' : \/ d \in calls
                          \/ /\ d \in CallRecord
                             /\ \E a \in Asks(page, chosen) : d.res = a.res /\ d.sets = a.sets
                             /\ d.phase = "answered" => Fresh(d.res, d.got)
    BY <1>1, LoadFacts, SentCall DEF CallRecord
  <1>3. failed' \in 0..MaxFail
    BY <1>1 DEF DashboardInv
  <1> QED
    BY <1>1, <1>2, <1>3, PageStep

(* What a hook that was set holds: a version, since the mount, of a         *)
(* resource that the page asks for.                                         *)
LEMMA SetHookFacts ==
  ASSUME DashboardInv, NEW h \in DOMAIN hook, Set(h)
  PROVE  /\ hook[h].res \in Followed
         /\ hook[h].at \in DOMAIN hist[hook[h].res]
         /\ Held(h) \in SinceOpened(hook[h].res)
         /\ \E a \in Asks(page, chosen) :
              /\ hook[h].res = a.res
              /\ page = "view" \/ (h \in DOMAIN a.sets /\ hook[h].part = a.sets[h])
  <1>1. hook[h] # BlankHook
    BY DEF Set, BlankHook, Blank
  <1>2. /\ hook[h].res \in Followed
        /\ Fresh(hook[h].res, hook[h].at)
        /\ \E a \in Asks(page, chosen) :
             /\ hook[h].res = a.res
             /\ page = "view" \/ (h \in DOMAIN a.sets /\ hook[h].part = a.sets[h])
    BY <1>1 DEF DashboardInv, HookInv
  <1> DEFINE res == hook[h].res
             at == hook[h].at
  <1>3. at > 0 /\ at \in opened[res]..Now(res)
    BY <1>2 DEF Set, Fresh, Unknown
  <1>4. res \in DOMAIN opened
    BY <1>2 DEF DashboardInv, OpenedInv
  <1>5. opened[res] \in 1..Now(res) /\ hist[res] \in Seq({Initial[res]} \cup Changes[res])
    BY <1>2, <1>4 DEF DashboardInv, OpenedInv, HistInv
  <1>6. at \in DOMAIN hist[res]
    BY <1>3, <1>5 DEF Now
  <1>7. Held(h) \in SinceOpened(res)
    BY <1>3 DEF Held, SinceOpened
  <1> QED
    BY <1>2, <1>6, <1>7

LEMMA SelectExecutionStep ==
  ASSUME DashboardInv, SelectExecution
  PROVE  DashboardInv'
  <1>1. /\ page = "executions" /\ chosen' \in ListedRows
        /\ UNCHANGED <<hist, failed, page, hook, opened, calls>>
    BY DEF SelectExecution
  <1>2. Asks(page, chosen)' = Asks(page, chosen)
    <2>1. Asks(page', chosen') = Asks(page, chosen)
      BY <1>1, AsksOfTable
    <2> QED
      BY <2>1 DEF Asks
  <1>3. Asks(page, chosen) = TableAsks /\ HooksOf(page) = TableHooks
    BY <1>1 DEF Asks, HooksOf
  <1>4. ChosenInv'
    <2>1. Set("executions") /\ chosen' \in Held("executions")
      BY <1>1 DEF ListedRows
    <2>2. "executions" \in DOMAIN hook
      BY <1>3 DEF DashboardInv, HookInv, TableHooks
    <2>3. /\ hook["executions"].res \in Followed
          /\ hook["executions"].at \in DOMAIN hist[hook["executions"].res]
          /\ \E a \in Asks(page, chosen) : hook["executions"].res = a.res
      BY <2>1, <2>2, SetHookFacts
    <2>4. hook["executions"].res = Executions
      BY <1>3, <2>3, AskFacts DEF TableAsks
    <2> QED
      BY <1>1, <2>1, <2>3, <2>4 DEF ChosenInv, Held
  <1>5. OpenedInv'
    BY <1>1, <1>2 DEF DashboardInv, OpenedInv, Now
  <1>6. CallInv'
    BY <1>1, <1>2 DEF DashboardInv, CallInv, CallRecord, Fresh, Now
  <1>7. HookInv'
    <2>1. HooksOf(page)' = HooksOf(page)
      BY <1>1 DEF HooksOf
    <2> QED
      BY <1>1, <1>2, <2>1 DEF DashboardInv, HookInv, Fresh, Now
  <1> QED
    BY <1>1, <1>4, <1>5, <1>6, <1>7 DEF DashboardInv, HistInv, Now

LEMMA SelectStepStep ==
  ASSUME DashboardInv, SelectStep
  PROVE  DashboardInv'
  <1>1. /\ page = "view"
        /\ hook' = [hook EXCEPT !["selectedExecutionStep"] = hook["executionDetail"]]
        /\ UNCHANGED <<hist, failed, page, opened, calls, chosen>>
    BY DEF SelectStep
  <1>2. DOMAIN hook = ViewHooks /\ "executionDetail" \in DOMAIN hook
    BY <1>1 DEF DashboardInv, HookInv, HooksOf, ViewHooks
  <1>3. \/ hook["executionDetail"] = BlankHook
        \/ /\ hook["executionDetail"].res \in Followed
           /\ Fresh(hook["executionDetail"].res, hook["executionDetail"].at)
           /\ \E a \in Asks(page, chosen) : hook["executionDetail"].res = a.res
    BY <1>2 DEF DashboardInv, HookInv
  <1>4. /\ DOMAIN hook' = DOMAIN hook
        /\ \A h \in DOMAIN hook : hook'[h] = hook[h] \/ hook'[h] = hook["executionDetail"]
    BY <1>1
  <1>5. failed' \in 0..MaxFail
    BY <1>1 DEF DashboardInv
  <1> QED
    BY <1>1, <1>3, <1>4, <1>5, PageStep

LEMMA DashboardInvariance == DashboardSpec => []DashboardInv
  <1>1. DashboardInv /\ DashboardNext => DashboardInv'
    BY OpenStep, ChangeStep, AnswerStep, DeliverStep, RoundStep, SelectExecutionStep,
       SelectStepStep DEF DashboardNext
  <1>2. DashboardInv /\ UNCHANGED callVars => DashboardInv'
    <2> SUFFICES ASSUME DashboardInv, UNCHANGED callVars
                 PROVE  DashboardInv'
      OBVIOUS
    <2> QED
      BY PageStep DEF callVars, DashboardInv
  <1> QED
    BY <1>1, <1>2, DashboardStarts, PTL DEF DashboardSpec

LEMMA TypeFromInvariant ==
  ASSUME DashboardInv
  PROVE  DashboardTypeOK
  <1>1. /\ page \in Page /\ failed \in 0..MaxFail /\ HistInv /\ OpenedInv /\ CallInv /\ HookInv
        /\ ChosenInv
    BY DEF DashboardInv
  <1>2. ASSUME NEW res \in Followed, NEW at, Fresh(res, at), res \in DOMAIN opened
        PROVE  at \in Unknown..Now(res)
    <2>1. opened[res] \in 1..Now(res) /\ Now(res) \in Nat
      BY <1>1, <1>2 DEF OpenedInv, HistInv, Now
    <2> QED
      BY <1>2, <2>1 DEF Fresh, Unknown
  <1>3. ASSUME NEW c \in calls
        PROVE  /\ c.load \in Load /\ c.res \in Followed
               /\ DOMAIN c.sets \subseteq DOMAIN hook
               /\ c.phase = "answered" => c.got \in Unknown..Now(c.res)
    <2>1. /\ c \in CallRecord
          /\ c.phase = "answered" => Fresh(c.res, c.got)
      BY <1>1 DEF CallInv
    <2>2. PICK a \in Asks(page, chosen) : c.res = a.res /\ c.sets = a.sets
      BY <1>1 DEF CallInv
    <2>3. c.load \in Load /\ c.res \in Followed
      BY <2>1 DEF CallRecord
    <2>4. c.res \in DOMAIN opened
      BY <1>1, <2>2, <2>3 DEF OpenedInv
    <2>5. DOMAIN c.sets \subseteq DOMAIN hook
      BY <1>1, <2>2, AsksFacts DEF HookInv
    <2> QED
      BY <1>2, <2>1, <2>3, <2>4, <2>5
  <1>4. ASSUME NEW h \in DOMAIN hook
        PROVE  \/ hook[h] = BlankHook
               \/ hook[h].res \in Followed /\ hook[h].at \in Unknown..Now(hook[h].res)
    <2> SUFFICES ASSUME hook[h] # BlankHook
                 PROVE  hook[h].res \in Followed /\ hook[h].at \in Unknown..Now(hook[h].res)
      OBVIOUS
    <2>1. /\ hook[h].res \in Followed /\ Fresh(hook[h].res, hook[h].at)
          /\ \E a \in Asks(page, chosen) : hook[h].res = a.res
      BY <1>1 DEF HookInv
    <2>2. hook[h].res \in DOMAIN opened
      BY <1>1, <2>1 DEF OpenedInv
    <2> QED
      BY <1>2, <2>1, <2>2
  <1>5. CallTypeOK(Page, HooksOf(page))
    BY <1>1, <1>3, <1>4 DEF CallTypeOK, HistInv, OpenedInv, HookInv
  <1> QED
    BY <1>1, <1>5 DEF DashboardTypeOK, ChosenInv

(* The hooks, calls and versions of the mounted page are of the resources   *)
(* it reads, whatever is followed and however calls fail or overlap.        *)
THEOREM DashboardTypeCorrect == DashboardSpec => []DashboardTypeOK
  <1>1. DashboardInv => DashboardTypeOK
    BY TypeFromInvariant
  <1> QED
    BY <1>1, DashboardInvariance, PTL

----------------------------------------------------------------------------
(* What the cells and tiles are about. *)

StateCellFact(c) ==
  /\ c.hook \in StateHooks
  /\ \A a \in Asks("state", chosen) : c.hook \in DOMAIN a.sets =>
       IF c.shows \in Scope
       THEN a.res = Controls(c.app, c.region)
       ELSE a.res = States(c.app) /\ a.sets[c.hook] = c.region

(* An icon or count is drawn from a hook that is only set from what the API *)
(* says about the application and region of the panel.                      *)
LEMMA StateCellFacts ==
  ASSUME NEW c \in StateCells
  PROVE  StateCellFact(c)
  <1>1. ASSUME NEW x \in TradePrimaryTop \cup TradePrimaryRest
        PROVE  StateCellFact(x)
    <2>1. /\ x.app = "trade-matching" /\ x.region = East
          /\ \/ x.shows \in Scope /\ x.hook = "tradeMatchingPrimaryControls"
             \/ x.shows \notin Scope /\ x.hook = "tradeMatchingPrimaryState"
      BY <1>1 DEF TradePrimaryTop, TradePrimaryRest, Icons, Counts, TradeStores, TradeResults,
                  Scope
    <2> QED
      BY <2>1, StateAskSets DEF StateCellFact, StateHooks
  <1>2. ASSUME NEW x \in SettlementPrimaryTop \cup SettlementPrimaryRest
        PROVE  StateCellFact(x)
    <2>1. /\ x.app = "settlement" /\ x.region = East
          /\ \/ x.shows \in Scope /\ x.hook = "settlementPrimaryControls"
             \/ x.shows \notin Scope /\ x.hook = "settlementPrimaryState"
      BY <1>2 DEF SettlementPrimaryTop, SettlementPrimaryRest, Icons, Counts, SettlementStores,
                  SettlementResults, Scope
    <2> QED
      BY <2>1, StateAskSets DEF StateCellFact, StateHooks
  <1>3. ASSUME NEW x \in TradeSecondaryTop \cup TradeSecondaryRest
        PROVE  StateCellFact(x)
    <2>1. /\ x.app = "trade-matching" /\ x.region = West
          /\ \/ x.shows \in Scope /\ x.hook = "tradeMatchingSecondaryControls"
             \/ x.shows \notin Scope /\ x.hook = "tradeMatchingSecondaryState"
      BY <1>3 DEF TradeSecondaryTop, TradeSecondaryRest, Icons, Counts, TradeStores,
                  TradeResults, Scope
    <2> QED
      BY <2>1, StateAskSets DEF StateCellFact, StateHooks
  <1>4. ASSUME NEW x \in SettlementSecondaryTop \cup SettlementSecondaryRest
        PROVE  StateCellFact(x)
    <2>1. /\ x.app = "settlement" /\ x.region = West
          /\ \/ x.shows \in Scope /\ x.hook = "settlementSecondaryControls"
             \/ x.shows \notin Scope /\ x.hook = "settlementSecondaryState"
      BY <1>4 DEF SettlementSecondaryTop, SettlementSecondaryRest, Icons, Counts,
                  SettlementStores, SettlementResults, Scope
    <2> QED
      BY <2>1, StateAskSets DEF StateCellFact, StateHooks
  <1> QED
    BY <1>1, <1>2, <1>3, <1>4 DEF StateCells

(* Each difference is drawn from the hook of its step. *)
LEMMA ReconCellFacts ==
  ASSUME NEW c \in ReconCells
  PROVE  c.hook = c.step /\ c.hook \in ReconHooks
  <1>1. ASSUME NEW region, NEW x \in TradeDifferences(region)
        PROVE  x.hook = x.step /\ x.hook \in ReconHooks
    BY <1>1 DEF TradeDifferences, Differences, Both, ReconHooks, TradeSteps
  <1>2. ASSUME NEW region, NEW x \in TradeOutDifferences(region)
        PROVE  x.hook = x.step /\ x.hook \in ReconHooks
    BY <1>2 DEF TradeOutDifferences, Differences, Both, ReconHooks, TradeSteps
  <1>3. ASSUME NEW region, NEW x \in SettlementDifferences(region)
        PROVE  x.hook = x.step /\ x.hook \in ReconHooks
    BY <1>3 DEF SettlementDifferences, Differences, ReconHooks, SettlementSteps
  <1> QED
    BY <1>1, <1>2, <1>3
    DEF ReconCells, TradePrimaryDifferences, TradePrimaryOut, SettlementPrimaryDifferences,
        TradeSecondaryDifferences, TradeSecondaryOut, SettlementSecondaryDifferences

(* An indicator is about a part that the summary of its aspect looks at,    *)
(* and one about tasks is about those of its region.                        *)
TileFact(app, t) ==
  /\ t.aspect \in Aspect
  /\ t.part \in SummaryParts(app, t.aspect)
  /\ Len(t.part) = 3 /\ t.part[2] = "ecs" => t.part[3] = Suffix(t.region)

LEMMA ServiceTileFacts ==
  ASSUME NEW app, NEW region, NEW service \in {"mq", "kinesis", "dynamodb", "rds", "ecs"},
         NEW t \in ServiceTile(region, service)
  PROVE  TileFact(app, t)
  <1>1. t.aspect = "health" /\ t.part = <<service>>
    BY DEF ServiceTile, Tile
  <1>2. Len(t.part) = 1
    BY <1>1
  <1> QED
    BY <1>1, <1>2 DEF TileFact, Aspect, SummaryParts, HealthSummary

LEMMA StoresFacts ==
  ASSUME NEW app, NEW region, NEW stage \in Stages, NEW kinds \in SUBSET KindsOf(app),
         NEW t \in Stores(region, stage, kinds)
  PROVE  TileFact(app, t)
  <1>1. CASE t \in ServiceTile(region, "dynamodb")
    BY <1>1, ServiceTileFacts
  <1>2. CASE t \notin ServiceTile(region, "dynamodb")
    <2>1. PICK x \in {"ready", "replication"}, k \in kinds :
            t.aspect = x /\ t.part = <<stage, "dynamodb", k>>
      BY <1>2 DEF Stores, Tile
    <2>2. t.part[2] = "dynamodb"
      BY <2>1
    <2>3. t.part \in Stages \X {"dynamodb"} \X KindsOf(app)
      BY <2>1
    <2> QED
      BY <2>1, <2>2, <2>3 DEF TileFact, Aspect, SummaryParts, ReadySummary, ReplicationSummary
  <1> QED
    BY <1>1, <1>2

LEMMA DatabaseFacts ==
  ASSUME NEW app, NEW region, NEW t \in Database(region)
  PROVE  TileFact(app, t)
  <1>1. CASE t \in ServiceTile(region, "rds")
    BY <1>1, ServiceTileFacts
  <1>2. CASE t \notin ServiceTile(region, "rds")
    <2>1. t.aspect \in {"ready", "replication"} /\ t.part = <<"matching", "rds">>
      BY <1>2 DEF Database, Tile
    <2>2. Len(t.part) = 2
      BY <2>1
    <2> QED
      BY <2>1, <2>2 DEF TileFact, Aspect, SummaryParts, ReadySummary, ReplicationSummary
  <1> QED
    BY <1>1, <1>2

LEMMA TasksFacts ==
  ASSUME NEW app, NEW region \in Region, NEW stage \in Stages \cup {"matching"},
         NEW t \in Tasks(region, stage, Suffix(region))
  PROVE  TileFact(app, t)
  <1>1. CASE t \in ServiceTile(region, "ecs")
    BY <1>1, ServiceTileFacts
  <1>2. CASE t \notin ServiceTile(region, "ecs")
    <2>1. t.region = region /\ t.aspect = "ready" /\ t.part = <<stage, "ecs", Suffix(region)>>
      BY <1>2 DEF Tasks, Tile
    <2>2. t.part[3] = Suffix(t.region)
      BY <2>1
    <2>3. t.part \in (Stages \cup {"matching"}) \X {"ecs"} \X {"primary", "secondary"}
      BY <2>1 DEF Suffix
    <2> QED
      BY <2>1, <2>2, <2>3 DEF TileFact, Aspect, SummaryParts, ReadySummary
  <1> QED
    BY <1>1, <1>2

LEMMA TradeTileFacts ==
  ASSUME NEW t \in TradeTiles
  PROVE  TileFact("trade-matching", t)
  <1>1. /\ East \in Region /\ West \in Region
        /\ Suffix(East) = "primary" /\ Suffix(West) = "secondary"
    BY DEF Region, East, West, Suffix
  <1>2. /\ Kinds \subseteq KindsOf("trade-matching")
        /\ {"inbound", "ingestion", "egress", "outbound"} \subseteq Stages
    BY DEF KindsOf, Kinds, Stages
  <1>3. ASSUME NEW x \in TradeInboundPrimary \cup TradeIngestionPrimary
                    \cup TradeMatchingPrimary
                    \cup TradeEgressPrimary \cup TradeOutboundPrimary
        PROVE  TileFact("trade-matching", x)
    <2>1. \/ \E service \in {"mq", "kinesis"} : x \in ServiceTile(East, service)
          \/ \E stage \in {"inbound", "ingestion", "egress", "outbound"} :
               x \in Stores(East, stage, Kinds)
          \/ x \in Database(East)
          \/ \E stage \in {"inbound", "ingestion", "matching", "egress", "outbound"} :
               x \in Tasks(East, stage, Suffix(East))
      BY <1>1, <1>3 DEF TradeInboundPrimary, TradeIngestionPrimary, TradeMatchingPrimary,
                     TradeEgressPrimary, TradeOutboundPrimary
    <2>2. CASE \E service \in {"mq", "kinesis"} : x \in ServiceTile(East, service)
      BY <2>2, ServiceTileFacts
    <2>3. CASE \E stage \in {"inbound", "ingestion", "egress", "outbound"} :
                 x \in Stores(East, stage, Kinds)
      BY <1>2, <2>3, StoresFacts
    <2>4. CASE x \in Database(East)
      BY <2>4, DatabaseFacts
    <2>5. CASE \E stage \in {"inbound", "ingestion", "matching", "egress", "outbound"} :
                 x \in Tasks(East, stage, Suffix(East))
      BY <1>1, <1>2, <2>5, TasksFacts
    <2> QED
      BY <2>1, <2>2, <2>3, <2>4, <2>5
  <1>4. ASSUME NEW x \in TradeInboundSecondary \cup TradeIngestionSecondary
                    \cup TradeMatchingSecondary
                    \cup TradeEgressSecondary \cup TradeOutboundSecondary
        PROVE  TileFact("trade-matching", x)
    <2>1. \/ \E service \in {"mq", "kinesis"} : x \in ServiceTile(West, service)
          \/ \E stage \in {"inbound", "ingestion", "egress", "outbound"} :
               x \in Stores(West, stage, Kinds)
          \/ x \in Database(West)
          \/ \E stage \in {"inbound", "ingestion", "matching", "egress", "outbound"} :
               x \in Tasks(West, stage, Suffix(West))
      BY <1>1, <1>4 DEF TradeInboundSecondary, TradeIngestionSecondary,
                     TradeMatchingSecondary,
                     TradeEgressSecondary, TradeOutboundSecondary
    <2>2. CASE \E service \in {"mq", "kinesis"} : x \in ServiceTile(West, service)
      BY <2>2, ServiceTileFacts
    <2>3. CASE \E stage \in {"inbound", "ingestion", "egress", "outbound"} :
                 x \in Stores(West, stage, Kinds)
      BY <1>2, <2>3, StoresFacts
    <2>4. CASE x \in Database(West)
      BY <2>4, DatabaseFacts
    <2>5. CASE \E stage \in {"inbound", "ingestion", "matching", "egress", "outbound"} :
                 x \in Tasks(West, stage, Suffix(West))
      BY <1>1, <1>2, <2>5, TasksFacts
    <2> QED
      BY <2>1, <2>2, <2>3, <2>4, <2>5
  <1> QED
    BY <1>3, <1>4 DEF TradeTiles

LEMMA SettlementTileFacts ==
  ASSUME NEW t \in SettlementTiles
  PROVE  TileFact("settlement", t)
  <1>1. /\ East \in Region /\ West \in Region
        /\ Suffix(East) = "primary" /\ Suffix(West) = "secondary"
    BY DEF Region, East, West, Suffix
  <1>2. /\ {"settlement"} \subseteq KindsOf("settlement")
        /\ {"inbound", "ingestion", "egress", "outbound"} \subseteq Stages
    BY DEF KindsOf, Kinds, Stages
  <1>3. ASSUME NEW x \in SettlementInboundPrimary \cup SettlementIngestionPrimary
                    \cup SettlementMatchingPrimary
                    \cup SettlementEgressPrimary \cup SettlementOutboundPrimary
        PROVE  TileFact("settlement", x)
    <2>1. \/ \E service \in {"mq", "kinesis"} : x \in ServiceTile(East, service)
          \/ \E stage \in {"inbound", "ingestion", "egress", "outbound"} :
               x \in Stores(East, stage, {"settlement"})
          \/ x \in Database(East)
          \/ \E stage \in {"inbound", "ingestion", "matching", "egress", "outbound"} :
               x \in Tasks(East, stage, Suffix(East))
      BY <1>1, <1>3 DEF SettlementInboundPrimary, SettlementIngestionPrimary,
                     SettlementMatchingPrimary,
                     SettlementEgressPrimary, SettlementOutboundPrimary
    <2>2. CASE \E service \in {"mq", "kinesis"} : x \in ServiceTile(East, service)
      BY <2>2, ServiceTileFacts
    <2>3. CASE \E stage \in {"inbound", "ingestion", "egress", "outbound"} :
                 x \in Stores(East, stage, {"settlement"})
      BY <1>2, <2>3, StoresFacts
    <2>4. CASE x \in Database(East)
      BY <2>4, DatabaseFacts
    <2>5. CASE \E stage \in {"inbound", "ingestion", "matching", "egress", "outbound"} :
                 x \in Tasks(East, stage, Suffix(East))
      BY <1>1, <1>2, <2>5, TasksFacts
    <2> QED
      BY <2>1, <2>2, <2>3, <2>4, <2>5
  <1>4. ASSUME NEW x \in SettlementInboundSecondary \cup SettlementIngestionSecondary
                    \cup SettlementMatchingSecondary
                    \cup SettlementEgressSecondary \cup SettlementOutboundSecondary
        PROVE  TileFact("settlement", x)
    <2>1. \/ \E service \in {"mq", "kinesis"} : x \in ServiceTile(West, service)
          \/ \E stage \in {"inbound", "ingestion", "egress", "outbound"} :
               x \in Stores(West, stage, {"settlement"})
          \/ x \in Database(West)
          \/ \E stage \in {"inbound", "ingestion", "matching", "egress", "outbound"} :
               x \in Tasks(West, stage, Suffix(West))
      BY <1>1, <1>4 DEF SettlementInboundSecondary, SettlementIngestionSecondary,
                     SettlementMatchingSecondary,
                     SettlementEgressSecondary, SettlementOutboundSecondary
    <2>2. CASE \E service \in {"mq", "kinesis"} : x \in ServiceTile(West, service)
      BY <2>2, ServiceTileFacts
    <2>3. CASE \E stage \in {"inbound", "ingestion", "egress", "outbound"} :
                 x \in Stores(West, stage, {"settlement"})
      BY <1>2, <2>3, StoresFacts
    <2>4. CASE x \in Database(West)
      BY <2>4, DatabaseFacts
    <2>5. CASE \E stage \in {"inbound", "ingestion", "matching", "egress", "outbound"} :
                 x \in Tasks(West, stage, Suffix(West))
      BY <1>1, <1>2, <2>5, TasksFacts
    <2> QED
      BY <2>1, <2>2, <2>3, <2>4, <2>5
  <1> QED
    BY <1>3, <1>4 DEF SettlementTiles

(* A page shows what its hooks hold, and they hold what it asked for.       *)
LEMMA ShownFromHooks ==
  ASSUME DashboardInv
  PROVE  ShownWasTrue
  <1>1. DOMAIN hook = HooksOf(page)
    BY DEF DashboardInv, HookInv
  <1>2. CASE page = "state"
    <2> SUFFICES ASSUME NEW c \in StateCells
                 PROVE  StateCellWasTrue(c)
      BY <1>2 DEF ShownWasTrue
    <2>1. StateCellFact(c) /\ c.hook \in DOMAIN hook
      BY <1>1, <1>2, StateCellFacts DEF StateCellFact, HooksOf
    <2>2. Set(c.hook) =>
            /\ Held(c.hook) \in SinceOpened(hook[c.hook].res)
            /\ IF c.shows \in Scope
               THEN hook[c.hook].res = Controls(c.app, c.region)
               ELSE hook[c.hook].res = States(c.app) /\ hook[c.hook].part = c.region
      BY <1>2, <2>1, SetHookFacts DEF StateCellFact
    <2>3. CASE c.shows \in Scope
      BY <2>2, <2>3 DEF StateCellWasTrue, Lit
    <2>4. CASE c.shows \notin Scope
      <3>1. Count(c) > 0 => Set(c.hook)
        BY DEF Count
      <3>2. Set(c.hook) => Count(c) = Held(c.hook)[c.region]
        BY <2>2, <2>4 DEF Count
      <3> QED
        BY <2>2, <2>4, <3>1, <3>2 DEF StateCellWasTrue
    <2> QED
      BY <2>3, <2>4
  <1>3. CASE page = "recon"
    <2> SUFFICES ASSUME NEW c \in ReconCells, Missing(c) > 0
                 PROVE  Missing(c) \in SinceOpened(Recon(c.step))
      BY <1>3 DEF ShownWasTrue, DifferenceWasTrue
    <2>1. c.hook = c.step /\ c.hook \in DOMAIN hook
      BY <1>1, <1>3, ReconCellFacts DEF HooksOf
    <2>2. Set(c.hook) /\ Missing(c) = Held(c.hook)
      BY DEF Missing, Set
    <2>3. PICK a \in ReconAsks : hook[c.hook].res = a.res /\ c.hook \in DOMAIN a.sets
      BY <1>3, <2>1, <2>2, SetHookFacts DEF Asks
    <2>4. hook[c.hook].res = Recon(c.step)
      BY <2>1, <2>3, ReconAskSets
    <2> QED
      BY <2>1, <2>2, <2>4, SetHookFacts
  <1>4. ASSUME NEW app, page \in {"tm-monitor", "sm-monitor"},
               Asks(page, chosen) = {Ask(Resource(app, x), Whole(x)) : x \in Aspect},
               NEW t, TileFact(app, t)
        PROVE  TileWasTrue(app, t)
    <2> SUFFICES ASSUME TileSign(app, t) = "positive"
                 PROVE  \E bad \in SinceOpened(Resource(app, t.aspect)) : t.part \notin bad
      BY <1>4 DEF TileWasTrue, TileFact
    <2>1. Set(t.aspect) /\ t.part \notin Held(t.aspect)
      BY DEF TileSign, Sign
    <2>2. t.aspect \in DOMAIN hook
      BY <1>1, <1>4 DEF TileFact, HooksOf, MonitorHooks
    <2>3. /\ Held(t.aspect) \in SinceOpened(hook[t.aspect].res)
          /\ \E a \in Asks(page, chosen) :
               hook[t.aspect].res = a.res /\ t.aspect \in DOMAIN a.sets
      BY <1>4, <2>1, <2>2, SetHookFacts
    <2>4. hook[t.aspect].res = Resource(app, t.aspect)
      BY <1>4, <2>3, MonitorAskSets
    <2> QED
      BY <2>1, <2>3, <2>4
  <1>5. CASE page = "tm-monitor"
    <2>1. Asks(page, chosen) = {Ask(Resource("trade-matching", x), Whole(x)) : x \in Aspect}
      BY <1>5 DEF Asks, TradeAsks
    <2>2. \A t \in TradeTiles : TileWasTrue("trade-matching", t)
      BY <1>4, <1>5, <2>1, TradeTileFacts
    <2> QED
      BY <1>5, <2>2 DEF ShownWasTrue
  <1>6. CASE page = "sm-monitor"
    <2>1. Asks(page, chosen) = {Ask(Resource("settlement", x), Whole(x)) : x \in Aspect}
      BY <1>6 DEF Asks, SettlementAsks
    <2>2. \A t \in SettlementTiles : TileWasTrue("settlement", t)
      BY <1>4, <1>6, <2>1, SettlementTileFacts
    <2> QED
      BY <1>6, <2>2 DEF ShownWasTrue
  <1>7. CASE page = "view"
    <2> SUFFICES ASSUME NEW h \in ViewHooks, Set(h)
                 PROVE  /\ hook[h].res = ExecutionOf(chosen)
                        /\ Held(h) \in SinceOpened(ExecutionOf(chosen))
      BY <1>7 DEF ShownWasTrue, ViewWasTrue
    <2>1. /\ h \in DOMAIN hook
          /\ Asks(page, chosen) = {Ask(ExecutionOf(chosen), Whole("executionDetail"))}
      BY <1>1, <1>7 DEF HooksOf, Asks, ViewAsks
    <2>2. hook[h].res = ExecutionOf(chosen)
      BY <2>1, SetHookFacts, AskFacts
    <2> QED
      BY <2>1, <2>2, SetHookFacts
  <1>8. CASE page \notin {"state", "recon", "tm-monitor", "sm-monitor", "view"}
    BY <1>8 DEF ShownWasTrue
  <1> QED
    BY <1>2, <1>3, <1>5, <1>6, <1>7, <1>8

(* Whatever a page claims was the case since it was opened, for the         *)
(* application, region, part or execution that it stands under: for every   *)
(* set of followed resources, every way they change, and any number of      *)
(* loads whose calls are answered in any order, fail or learn nothing.      *)
THEOREM DashboardShownWasTrue == DashboardSpec => []ShownWasTrue
  <1>1. DashboardInv => ShownWasTrue
    BY ShownFromHooks
  <1> QED
    BY <1>1, DashboardInvariance, PTL

(* The first row of a monitor is positive only when every indicator below   *)
(* it is: each of them is about a part that the summary of the API looks    *)
(* at, and both are read from the same answer.                              *)
THEOREM DashboardSummaryIsSafe == DashboardSpec => []SummaryIsSafe
  <1>1. ASSUME NEW app, NEW t, TileFact(app, t), SummarySign(app, t.aspect) = "positive"
        PROVE  TileSign(app, t) = "positive"
    BY <1>1 DEF TileFact, SummarySign, TileSign, Sign
  <1>2. SummaryCovers("trade-matching", TradeTiles)
    BY <1>1, TradeTileFacts DEF SummaryCovers
  <1>3. SummaryCovers("settlement", SettlementTiles)
    BY <1>1, SettlementTileFacts DEF SummaryCovers
  <1>4. SummaryIsSafe
    BY <1>2, <1>3 DEF SummaryIsSafe
  <1> QED
    BY <1>4, PTL
=============================================================================
