----------------------------- MODULE Workloads -----------------------------
(***************************************************************************)
(* The containers of both applications, and what acts on them from outside  *)
(* the dashboard: the ECS scheduler keeps every service at its desired      *)
(* count, the auto scaling group replaces hosts that stopped or were        *)
(* terminated, and the fault injection service runs an experiment some      *)
(* time after it was started.  A group is a component of an application in  *)
(* a region: a service, a cluster and a scaling group of its own.           *)
(***************************************************************************)
EXTENDS Integers, FiniteSets, Regions

CONSTANTS
  Deployed,   \* the groups there are: <<region, app, component>>
  Desired,    \* Desired[g]: tasks, and hosts, that a group should have
  MaxExtra    \* bound: standalone tasks of a group

Component == {"in-gateway", "ingress", "core-matching", "egress", "out-gateway"}
Service == {"kinesis-streams", "dynamodb", "rds"}

ASSUME DeployedAssumption == Deployed \subseteq Region \X App \X (Component \cup {"generator"})
ASSUME DesiredAssumption == Desired \in [Deployed -> Nat] /\ MaxExtra \in Nat

VARIABLES
  own,      \* own[g]: running tasks of the service of g
  extra,    \* extra[g]: running tasks of g that no service looks after
  hosts,    \* hosts[g]: active container instances of g
  stress,   \* the groups whose processors are kept busy
  denied,   \* denied[e]: who had endpoint e = <<app, service>> denied
  pending   \* experiments that were started and have not acted yet

workVars == <<own, extra, hosts, stress, denied, pending>>

Endpoint == App \X Service
Nobody == [e \in Endpoint |-> {}]

Running(g) == own[g] + extra[g]

WorkloadsInit ==
  /\ own = Desired
  /\ hosts = Desired
  /\ extra = [g \in Deployed |-> 0]
  /\ stress = {}
  /\ denied = Nobody
  /\ pending = {}

(* The scheduler starts a missing task of a service. *)
ScheduleTask(g) ==
  /\ own[g] < Desired[g] /\ hosts[g] > 0
  /\ own' = [own EXCEPT ![g] = @ + 1]
  /\ UNCHANGED <<extra, hosts, stress, denied, pending>>

(* The scaling group starts a missing host. *)
ReplaceHost(g) ==
  /\ hosts[g] < Desired[g]
  /\ hosts' = [hosts EXCEPT ![g] = @ + 1]
  /\ UNCHANGED <<own, extra, stress, denied, pending>>

(* The two minutes of CPU stress are over. *)
Calm(g) ==
  /\ g \in stress
  /\ stress' = stress \ {g}
  /\ UNCHANGED <<own, extra, hosts, denied, pending>>

(* n tasks of a group stop, whichever they are. *)
StopTasks(g, n) ==
  \E a \in 0..n :
    /\ a <= own[g] /\ n - a <= extra[g]
    /\ own' = [own EXCEPT ![g] = @ - a]
    /\ extra' = [extra EXCEPT ![g] = @ - (n - a)]

(* The actions of the experiment templates, on the group they select.       *)
ActOnTasks(g, scope) ==
  /\ LET n == IF scope = "all" \/ Running(g) = 0 THEN Running(g) ELSE 1
     IN  StopTasks(g, n)
  /\ UNCHANGED <<hosts, stress, denied>>

(* A host takes its tasks with it, whether it is stopped or terminated.     *)
ActOnHosts(g, scope) ==
  /\ hosts[g] > 0
  /\ LET lost == IF scope = "all" THEN hosts[g] ELSE 1
     IN  /\ hosts' = [hosts EXCEPT ![g] = @ - lost]
         /\ \E n \in 0..Running(g) :
              /\ hosts[g] = lost => n = Running(g)
              /\ StopTasks(g, n)
  /\ UNCHANGED <<stress, denied>>

ActOnCpu(g) ==
  /\ stress' = stress \cup {g}
  /\ UNCHANGED <<own, extra, hosts, denied>>

(* Disable-VPC-Endpoint: Allow becomes Deny in the policy of the endpoint.  *)
Deny(endpoint, who) ==
  /\ denied' = [denied EXCEPT ![endpoint] = @ \cup {who}]
  /\ UNCHANGED <<own, extra, hosts, stress>>

(* One more standalone task for every group of S.                          *)
StartTasks(S) ==
  /\ \A g \in S : extra[g] < MaxExtra
  /\ extra' = [g \in Deployed |-> IF g \in S THEN extra[g] + 1 ELSE extra[g]]
  /\ UNCHANGED <<own, hosts, stress, denied>>

(* ResetPolicy: the endpoint has the default policy again.                  *)
Allow(endpoint) ==
  /\ denied' = [denied EXCEPT ![endpoint] = {}]
  /\ UNCHANGED <<own, extra, hosts, stress>>

WorkloadsTypeOK(Row) ==
  /\ own \in [Deployed -> Nat] /\ \A g \in Deployed : own[g] <= Desired[g]
  /\ hosts \in [Deployed -> Nat] /\ \A g \in Deployed : hosts[g] <= Desired[g]
  /\ extra \in [Deployed -> 0..MaxExtra]
  /\ stress \subseteq Deployed
  /\ denied \in [Endpoint -> SUBSET Row]
  /\ pending \subseteq Row
=============================================================================
