# TLA+ models of the multi-region matching applications

This directory models and verifies the application of this repository: two
matching applications (trade matching, settlement matching) made of services that
pass messages through ActiveMQ queues and Kinesis streams, store them in DynamoDB
or Aurora PostgreSQL, and can be rotated from one region to another; the runbooks
that rotate them; and the dashboard from which an operator watches them, starts
the runbooks and disturbs the system on purpose.

All paths below are relative to the repository. The services are under
`apps/<service>/src/main/java/app/...`, the dashboard under
`infrastructure/dashboard/ui/src`, its API in `infrastructure/dashboard/api/src/api.py`,
the runbooks under `infrastructure/apps/common/rotation`.

## 1. Inventory

### The pipeline

    generator -> MQ -> trade inbound gateway -> Kinesis -> trade ingestion
      -> Kinesis -> trade core matching (Aurora) -> Kinesis -> trade egress (DynamoDB)
      -> Kinesis -> trade outbound gateway -> MQ -> settlement inbound gateway
      -> Kinesis -> settlement ingestion -> Kinesis -> settlement core matching (Aurora)
      -> Kinesis -> settlement egress -> Kinesis -> settlement outbound gateway -> MQ
      -> trade inbound gateway (settlement receiver) -> Kinesis -> trade ingestion
      (settlement processor) -> Kinesis -> trade core matching (settlement processor)
      -> SETTLED -> trade egress -> trade outbound gateway

Each stage stores what it received before it passes it on. In each region the
inbound gateways and the core matching services ask an ARC routing control, every
few seconds, whether their region is active; ingestion, egress and the outbound
gateways run in both. DynamoDB global tables and an Aurora global database replicate the
stores; the streams and queues are not replicated. A rotation runbook switches
the regions, and the reconciliation application then compares the stores of
neighbouring stages and puts what is missing on the streams again.

### Components

| Component | State | Operations | What is hard | What makes it correct |
|---|---|---|---|---|
| Kinesis and its client library (KCL), external | shards, checkpoints, leases | deliver a batch, checkpoint, move a lease | redelivery after a crash; an old thread that runs on without its lease | records of a shard in order, at least once |
| Trade core matching, trades (`trade_matching_core_matching`, `kcl/KinesisStreamProcessor`) | `trade_message`, `trade_allocation` | look up, match or mismatch, update the counterpart, insert, push both | five statements, no transaction; both sides at once; crash between statements | one justified verdict per pair, stored before sent, sent once; no trade lost |
| Trade core matching, settlements (`kcl/SettlementKinesisStreamProcessor`) | the same tables | update an allocation, read the trade, save SETTLED, push | the last settlements of a trade at once; the trade side at work on the same rows | SETTLED only when complete and matched, and then announced |
| Trade core matching, the service (`app/CoreMatchingAppState`) | the two schedulers | start, stop | both processors in one JVM: a halt of one stops the other | the two sides do not undo each other |
| Settlement core matching (`settlement_core_matching`) | `settlement_message` | persist, find the pair, update both, push both | both sides find each other; retries after a lost commit; an exception skips the rest of the batch | twins agree; bounded duplicates; no pair missed without a fault |
| Inbound gateways (`jms/Receiver`, `jms/SettlementReceiver`, settlement `processor/Receiver`) | raw message tables, the listener | save, acknowledge, push; stop the listener | crash between the three; a listener stopped behind the region manager's back | what is acknowledged is stored; what is stored is pushed or reconciled |
| Ingestion (trade and settlement) | trade, settlement and NACK tables | store each record, push the batch, NACK the rest | batches beyond 500, partial failures | all that is stored is pushed before the checkpoint |
| Egress (trade and settlement) | egress tables | conditional writes, settlements from matched trades, responses | replays that overwrite a later status; failed writes that are only logged; several pushes for one batch | nothing is answered as matched and not settled; the store knows what was sent; a status that goes back comes forward again |
| Outbound gateways | outbound tables | conditional writes, send to MQ | a halt in the middle of a batch, of both schedulers of a task | every response is sent at least once, the last one last |
| Region state managers (inbound gateways, core matching) | last state read | poll, start, stop | two regions poll at different times; no endpoint answers | the services of one region at most are at work after a rotation |
| Reconciliation (`reconciliation_app`) | audit table | compare two stores, replay the difference | replays what is still in flight; windows of days | after it ran, nothing stored upstream is missing downstream |
| Rotation runbooks (`infrastructure/apps/common/rotation`) | routing controls, the global database, its secret, the step reached | find the active region, switch controls, wait for drains, fail over or detach and promote, restart, reconcile | executions that end anywhere and are started again; a failover that is only started; updates that only seem to succeed; waits that look at one place after another while messages move | one region serves, with the writer in it; what was found empty stays empty |
| Database reset (`infrastructure/apps/common/dbrotation`) | none | read the controls, read the writer, start a switchover | it acts while a runbook runs | the writer follows the controls |
| Dashboard pages that show something (`components/State/Application*`, `*Monitor`, `Execution*`) | the hooks of the mounted page, the redux store | mount, poll, refresh, select, navigate away | overlapping rounds, answers that fail or overtake each other, panels copied from panels | what is shown was the case for what it stands under; polling catches up |
| Dashboard pages with buttons (`AcceptanceTesting`, `IntegrationTesting`, `ChaosTesting`, `ApplicationAdmin`) | a message | start an execution or an experiment, recover, start and stop tasks | rows copied from rows; the effect comes later than the click | the button does what its row says |
| Dashboard API (`api.py`) | none | query AWS for a page, summarise, start executions and experiments | summaries over many parts; default values on errors | the summary does not reassure wrongly |
| Chaos experiments (`infrastructure/apps/common/chaos`) | tasks, hosts, endpoint policies | stop, terminate, stress, deny | they act when the service gets to it | the application and part that was named, and no other |
| Generator, terraform | none that matters here | | | not modelled |

How they interact: a page calls the API, which reads the stores and routing
controls or starts an SSM execution or a FIS experiment; a runbook switches
routing controls, which the region state managers poll; the reconciliation is a
task that the runbook starts. Nothing on a page is pushed to it: it learns of
anything by asking.

`PROJECT.json` lists every component with its sources and status, and under
`hazards` each place where the code can go wrong in a way a test hardly reaches.

## 2. The modules

| Module | Models |
|---|---|
| `KinesisShards` | the stream and the KCL, as the processors use them: logs, checkpoints, leases, batches, halts, crashes, restarts |
| `TradeMatching` | `KinesisStreamProcessor.processRecords` and all it calls, one action per statement that reaches Aurora or the stream |
| `TradeMatchingInv` | its inductive invariants `IInv` and `FullInv`, and what `TradeCore` needs of it besides (`Alone`) |
| `KinesisShards_proofs` | lemmas about the stream and the steps of the KCL, used by the next two and by `TradeDelivery_proofs` |
| `TradeMatching_proofs`, `TradeSettling_proofs` | the TLAPS proofs about the two sides of the trade core; the second also about both together (`TradeCore`) |
| `PairMatching` | the abstract specification: a trade and its waiting counterpart get their verdict, and are sent, in one step |
| `TradeMatchingSerial` | the refinement mapping from `TradeMatching` to `PairMatching`, and the invariant behind it (`SerialOK`) |
| `TradeSettling` | `SettlementKinesisStreamProcessor` and `TradeMessageService.updateSettledTrade` |
| `TradeCore` | composition: extends `TradeSettling`, instantiates `TradeMatching`: both processors in each JVM, over the same rows and the same egress stream, with common crashes |
| `SettlementMatching` | `SettlementService.handleSettlement` of the settlement core, with the failures its error handling tells apart |
| `InboundGateway` | the trade inbound gateway: both JMS receivers, the broker they take from, and the region state manager that starts and stops them |
| `Ingestion` | `RecordProcessor` of trade ingestion: store record by record, push in limited calls, checkpoint |
| `StoreAndForward` | the abstract specification of a stage: passed on, or taken off its input, only when stored |
| `SettlementMatching_proofs`, `InboundGateway_proofs`, `Ingestion_proofs` | the TLAPS proofs about these stages |
| `TradeEgress` | trade egress: batches of trades and NACKs, its two tables, the settlement and the response stream |
| `OutboundGateway` | a processor of the trade outbound gateway: store message by message, send message by message |
| `TradeDelivery` | composition: extends `TradeEgress`, instantiates `OutboundGateway` twice: egress, the two streams, and the gateway tasks with a processor for each |
| `TradeDeliveryInv` | its inductive invariants `DeliveryInv` and `RecentInv` |
| `TradeDelivery_proofs` | the TLAPS proofs about egress and about the whole way out |
| `Regions` | the names that the dashboard, the runbooks and the experiments share: regions, applications, scopes of controls |
| `RunbookButtons` | the buttons that start a runbook: document, application, type, and what their row demands of the run |
| `Rotation` | both runbook documents step by step, the routing controls, the global database and its secret, and `dbrotation` |
| `Draining` | the messages of an application in a region, from the queues through the streams to the stores, and what the waits of a runbook see of them, with the reconciliations between the waits |
| `ApiCalls` | `get_resource`: calls that are sent, answered, failed and delivered in any order; hooks that hold the version an answer carried |
| `StatePage`, `ReconPage`, `MonitorPage`, `ExecutionPages` | what each page asks for and when, and every icon, count, tile, difference and row it draws from its hooks |
| `Dashboard` | composition: the routes, one mounted page, navigation, the store, the browser |
| `Workloads` | tasks, hosts, CPU stress and endpoint policies of the deployed groups, with the ECS scheduler and the scaling groups that repair them |
| `ChaosTesting` | every row of the chaos page with the experiment behind it, its Recover, and the start and stop buttons of the admin page |
| `Operations_proofs` | the TLAPS proofs about `Rotation`, `Draining`, `ChaosTesting` and `Dashboard` |
| `MC...` | instances for TLC |

Correspondence, for `TradeMatching` (the others are alike):

- `row[t]` is the status of the row with uuid `t` in `trade_message`, or
  `"NONE"`. `job[w][s]` is the local state of the thread that worker `w` has for
  shard `s`: the statement it is about to run (`pc`), the counterpart it found,
  the verdict. `pub[t][v]` counts how often `t` was put on the egress stream
  with status `v`. It is a history variable; the code does not read it.
- `CheckExisting`, `SelectMatch`, `SelectMismatch`, `MarkCounterpart`,
  `PersistTrade`, `PushPair`, `Checkpoint` are the statements of
  `processRecords` in their order (lines in `PROJECT.json`, `map`). Each of them
  autocommits in the code, so each is one atomic action. Parsing and logging in
  between change no shared state.
- `PersistTrade` of a uuid that has a row is the unique constraint of
  `v0002.sql`: `TradePersistException`, and `Runtime.halt(1)`.
- `MarkCounterpart` writes the row whatever its status is by now, as
  `update ... where id = :id` does.
- Records that `putRecords` reports as failed inside a successful response are
  lost (`drops`), because the response is only logged.

`TradeSettling` starts with trades that were matched and published; the row of
one may be missing, as on a replica that lags behind at a failover. In `TradeCore`
the real trade side stores and publishes them; `SettlingStep` and
`SettlementReturns` are the actions of `TradeSettling`, `MatchingStep` and
`TradeArrives` those of `TradeMatching`, and `CrashBoth` and `RestartBoth` are of the JVM. In `SettlementMatching`,
`Fail` bounds the failed calls: `FailPersist` and `FailPush` are exceptions that
leave `processRecords`, after which the KCL skips the rest of the batch
(`SkipBatch`, `FetchNext`); a failed `UpdatePair` is logged and the pair is
pushed all the same; `lapsed` is the entity that kept a database id from an
attempt whose commit failed.

In `InboundGateway`, `place[m]` says where a message is: in its queue, held by a
task that has not acknowledged it, or acknowledged. `receipt[g][q]` is the
listener thread of queue `q` in task `g`. `mode[g]` joins the two things the code
keeps apart: `activeState` of `RegionStateManager` (TRUE in `"listening"` and
`"stopped"`) and whether the listeners run; a failed save calls
`jmsListenerEndpointRegistry.stop()` and leaves `activeState` alone, which is
`"stopped"`. The sessions use `INDIVIDUAL_ACKNOWLEDGE`, so a message that was not
acknowledged comes back only when its session closes (`CloseSession`, `Crash`).
An acknowledgement may be lost after the call, since the client sends it
asynchronously (`FailAck`). Messages the broker has dispatched ahead to a task
count as queued. In `Ingestion`, `job[w][s]` holds the two lists a batch builds;
`FirstCall` and `AfterCall` cut the first as the counter of `pushTradesUpstream`
does, which skips the element it finds the counter full at. `dropped` is what
`putRecords` reported as failed.

In `TradeEgress`, `job[w][s]` is what a thread has of its batch: the trades it
has stored, the NACKs it has put aside, how many settlements (or NACKs) it has
tried to store, whether the settlements were pushed. `Store` is one `putItem`: if
it fails, applied or not, the thread goes on. `Push` is one `putRecords`: records
reported as failed go to `lost`, a call that fails, applied or not, halts the JVM,
as does one of more than `Limit` records. `OutboundGateway` is written once and
instantiated for answers, where the write replaces the item of the
same trade (`SameId`), and for settlements, where an item that is there stays (`Never`). In
`TradeDelivery` both instances have the same tasks (`gup`), as the application
starts two schedulers in one JVM, and their logs are the streams that egress
extends: `responses` and `settlements`. `answers` and `sent`, the `queue` of each
instance, are what the brokers were given; whoever reads them is not part of the model.

`Rotation` is one application. `control[r][s]` is a routing control; the three
scopes are what `update_arc_control` is called with. `pc[e]` is the step an
execution is at, named after what it does; a step of the document is one action,
since nothing else of the execution runs meanwhile, except that
`Detach-And-Promote` runs one script that is three actions (`Detached`, `Promote`,
`Attach`) because it may end in between. `Abort` ends an execution at any step and
undoes nothing. The waits and the rounds of reconciliation, which switch nothing, are
the two steps `Drain` and `Reconcile`. `writer` is the writer of the cluster that
the secret names; `moving` is the target of a failover under way, which
`failover_global_cluster` only starts. `uses[r]` is the host with which the core
tasks of `r` were started. `paired` tells whether there is a cluster to fail
over to, and `"renamed"` that it has no longer the name `dbrotation` looks up.
`unclear` and `stray` are history variables.

`Draining` is what those two steps do, for either application, in the region the runbook
leaves (`half = "leaving"`) or enters. `inflight` is the set of places, queues, streams
and tables, that hold something; `TradeFeeds` and `SettlementFeeds` say where the service
that takes a message off a place puts what follows from it, and a step of a service
(`Receive`, `Process`) takes something and puts any part of that. `LookOrder` is
the order of the loops in the three wait scripts, and `Look` one of them, for one place.
`WaitForMQ` is over at once: the script asks for the size of the queue `trades`
in milliseconds, and adds up no data. `blind` says that a look passed a place that was not
empty (the metrics are of the last minute, and none may be there), `overtaken` that
the gateway or a reconciliation put something on a place already passed. A reconciliation that
was started (`StartTask`) is in `replaying` until it ends, whatever the
runbook does. `listening` and `working` are what the region state managers last read.

`ApiCalls` keeps for each resource of the backend the sequence of its values, and
in a hook the version an answer had. So a page's claim ("East is active",
"3 messages at ingestion", "healthy") can be compared with what was the case since
the page was opened. `StatePage` awaits its calls one after the other and starts
a round every three seconds; the monitors send all at once, without waiting;
`ExecutionView` polls every five seconds. Each panel is an operator of its own
(`TradePrimaryTop`, `SettlementSecondaryRest`, ...), as in the code, where each
is a copy that can differ from the original. `MonitorPage` has a tile per card and part, and next to
it the API's summary over the list of parts in `api.py`.

`ChaosTesting` has an operator per section of the page, made of rows: the
experiment that Execute starts and what Recover is called with. `Experiment`
translates the name into what the terraform template does, so that a row's words
are compared with what the experiment takes (`harmed`). `Land` and `Drop` are
the fault injection service: it acts later, or not at all. `own` and `extra`
tell the tasks of an ECS service from the standalone ones that `start_tasks`
starts, which no scheduler replaces or removes.

Operators marked *mutant* are variants of the definition next to them with a
plausible bug. No action uses them. `PROJECT.json` (`mutants`) says which
property rejects which variant: it shows that the property depends on the code.

## 3. The runs

| Run | Instance | Shows |
|---|---|---|
| `trade_matching_faults` | 4 trades (one block that agrees, one that does not), 2 shards, 2 workers, 1 crash, 1 stolen lease | no verdict is published twice, before both rows have it, or for the wrong terms; no checkpoint passes a trade that is not stored; while nothing goes wrong verdicts come in pairs; `FullInv` holds |
| `trade_matching_live` | either of 2 blocks, one side put twice, 1 shard, 2 workers, crash and steal, fairness | up to the first crash, moved lease or dropped record `TradeMatching` implements `PairMatching`; whatever crashes, the stream drains: a halt is not repeated for ever |
| `trade_matching_missed` | 1 block, 2 shards, no fault | **violated**: both sides look before either is stored, and stay UNMATCHED |
| `trade_settling` | one trade with 2 allocations, one of which may come back mismatched, 2 shards, 2 workers, crash, steal, a dropped record | SETTLED is complete, stored before it is sent, and announced once all allocations came back |
| `trade_core` | 1 block, 2 trade shards, 1 settlement shard, 2 JVMs, 1 crash | a trade settles only after both sides are stored as matched and it was sent so, and stays settled |
| `settlement_matching` | 1 allocation settled, of one that agrees and one that differs, 2 shards, 2 workers, crash, steal, 1 failed call, 1 random draw | twins get one verdict; a settlement is sent twice at most; what is sent is stored unless a call failed; only a failed call loses a settlement; without faults every pair is sent |
| `inbound_gateway` | a trade, a settlement and a settlement that does not parse, 2 tasks, 2 failed calls, 1 crash, the control on and off | what is acknowledged or pushed is stored (`StoreAndForward`); a task that is switched off becomes quiet, with nothing held back, also after a failed save; a readable message is stored unless the control is off, a save stopped the listeners, or a failed receiver left it unacknowledged |
| `trade_ingestion` | 2 trades and a message that does not parse, calls of 2 records, 2 workers, 1 crash, 1 stolen lease, 1 failed call or dropped record, fairness | stored before forwarded and before the checkpoint (`StoreAndForward`); at most one in `Limit` checkpointed records was not forwarded; every message is stored and the stream is drained |
| `trade_delivery` | 2 records of: a trade is matched, it is settled, a message is refused; 1 shard per stream, 2 tasks of egress, 2 of the gateway, one fault of any kind, fairness | a checkpoint is never ahead of the push or the send it stands for; nothing is answered as matched without its settlements; what is passed on is stored until a call fails; items and answers end with a last record; `RecentInv` holds; everything is delivered in the end |
| `rotation` | trade matching, the rotate and the recover button of the acceptance page, three executions, `dbrotation` | as long as nothing disturbs a run (below): one region serves at most, opened from the inside out; clients are sent to the region of the writer, whose tasks use it; what the row announces of controls, database and tasks holds at the steps where it is due. And `Draining`, for either application, leaving a region or entering it, with at most three places that hold something: what a look of the waits has found empty stays empty, however the services go on, unless the gateway or a reconciliation fills it; the exception is what core matching of Trade Matching puts on the egress stream for a settlement, and what follows from that (`Refilled`) |
| `dashboard` | eight resources: counts and controls of one application, replication and readiness, a reconciliation step, the executions and one of them; two changes of the backend, one failed or empty answer, two loads at once; fairness | what the pages claim was the case since they were opened; a summary never reassures where a tile does not; left open, the polling pages show what is the case for good |
| `chaos` | one group of each application in the primary region and one in the secondary, all rows about them and about the endpoints, three clicks | a row's experiments take what it announces, and its Recover gives the endpoint back (one row excepted, see the findings) |

The violated run is a disagreement between the repository's own words and its
code. `PROJECT.json` (`findings`) quotes it, and others that reading the code
for a module brought up, without a run of their own: a verdict that a crash keeps from being
sent, a SETTLED trade set back by a thread without its lease, a batch that the
KCL skips after an exception, a row of the chaos page whose two buttons are about
different applications, a monitor that has no sign for unhealthy parts, a
difference of 0 that nobody computed, an active region that is guessed, a
reset that is less safe than its description, three about the waits of a runbook (below),
and three about egress: an
item that goes back from SETTLED to MATCHED, a failed write after which the trade is
sent on, and a batch beyond 500 that is refused for ever.

### Bounds, and why they are enough

- `MaxBlocks`, `MaxDeals`: which blocks or allocations take part. The code
  relates a trade only to the other side of its block, so more blocks add
  interleavings of threads and not of rows. With `MaxBlocks = 1` over two blocks
  TLC tries the one that agrees and the one that does not. That nothing depends
  on the number of blocks is proved for the properties of section 4.
- `MaxCopies`: how often a record is put on the stream. A second copy, from
  reconciliation, meets the same row as a redelivered one, so redelivery through
  crashes and stolen leases covers most of it; `trade_matching_live` puts one
  side twice.
- `MaxCrash`, `MaxSteal`, `MaxFail`, `MaxDraw`, `MaxDrop`: one fault of each
  kind. A halt that the code runs itself (`Runtime.halt`) is not bounded.
- `Limit`, the size of a `putRecords` call, is 2 in place of 500: with two
  trades in a batch the counter is full at the second. `trade_ingestion` has
  fewer NACKs than `Limit`; with more of them in a batch, the single call of
  `pushNacksToEgress` is refused, the JVM halts at each redelivery, and
  `EventuallyTaken` does not hold.
- `trade_delivery`: `MaxRecords = 2` is a batch, or two of them, in which one record
  follows another about the same trade, or a NACK a trade; `Allocs = 1`, since the
  settlements of a trade are handled alike; MISMATCHED is not offered, as egress
  treats it like SETTLED. The constraint `OneFault` leaves one crash, moved lease,
  failed call or lost record per behaviour, and `FirstTask` names the task that has
  the leases before it; the tasks are alike. `Staged` lets the gateway start when
  egress is done, its tasks up and its leases held: it reads streams that are only appended to, from its
  checkpoints, in parts of any size, so an earlier start lets it do nothing to
  its own tables and queues that it cannot do later. `NothingIsLost`, which looks at
  both, holds at each earlier moment because `Ahead` is then all that was pushed.
  `Limit` is above what a batch can need: beyond it the JVM halts at each delivery (see the findings), and
  `EventuallyDelivered` does not hold.
- `MaxSwitch`: the routing control goes on and off again; `MaxFail = 2` in
  `inbound_gateway` lets a failed save meet an unanswered poll.
- `Execution` of `Rotation` has three elements: one to end early or to overlap, one
  pressed afterwards, and one after that. `MaxDisturb = 1` is the first disturbance;
  the constraint `Undisturbed` of `Rotation.cfg` checks that state and goes no
  further, since the properties claim nothing of what follows it.
- `MaxPlaces = 3` in `rotation`: with a message at one place and one at another, what follows
  from one of them is at a third. A service takes from one place and puts on any part of those
  that it feeds, so a fourth place shows no step of another kind; the theorem of section 4 has no such
  bound. `MCRotation` checks `Rotation` and `Draining` side by side: a behaviour is of one of
  them (`within`), as they share no variable.
- `Followed` (the resources whose calls are followed) has one of every kind a
  page reads; calls about others do not touch the same hooks. `Load = {1, 2}`
  lets two rounds overlap; `MaxChange = 2` and `MaxFail = 1` let an answer be
  overtaken by a newer one, and be missing.
- `MaxClicks = 3` on the chaos page: Execute, Recover and a click on another row,
  in any order with the faults; `MaxExtra = 1` standalone task per group.
- Two shards and two workers are the least for concurrent threads, in one JVM
  and in two, and for a stale thread next to the new holder of its lease.
- Symmetry is used for shards and workers in the runs without liveness or
  refinement; the code does not tell them apart.
- `CHECK_DEADLOCK FALSE` because the producers are bounded: when every record is
  processed nothing is left to do. In `rotation` and `chaos` executions and
  clicks are bounded likewise, and a runbook is over at some time. `dashboard` checks for deadlock.

The proofs below need none of the bounds: `MaxCrash`, `MaxSteal` and the others
are arbitrary naturals there, and `Trade`, `Shard`, `Worker` arbitrary sets.

### Fairness

`FairSpec` assumes that a thread with a batch runs on, that the scheduler hands
records to the threads of leased shards, that a lease nobody holds is taken, and
that ECS restarts a dead task: weak fairness of `ProcessRecord`, `Fetch`,
`Checkpoint`, `Take` and `Restart` (`TradeDelivery`
assumes less, of no thread in particular: `GoOn`, the system does not stop while some
thread has a batch, a lease is free or a task is dead). That is what the operating system, the KCL's
loops and the ECS service scheduler (desired count) provide. In `InboundGateway`
it assumes that a listener thread and the polling thread of a running task run on
(`ReceiveMessage`, `CheckRegionState`), and the same of `Restart`. Nothing is assumed
of arrivals, crashes or stolen leases. In `Dashboard` it assumes that the browser
fires the interval of the mounted page (`Tick`, `TickView`) and that of each load
some call is answered or its handler run (`Goes`): the event loop and the time
limit of the API provide that. It assumes nothing of the operator, and nothing of
the success of a call.

### What `Rotation` claims only when undisturbed

`disturbed` counts what the code cannot notice, and the three properties claim
nothing afterwards: an execution started while another one runs (`api.py` does
not look), a control update that only seemed to succeed (an exception
that is printed), and a switchover that
`dbrotation` starts on controls that have changed since. They are actions of the
model, not left out of it. Executions that end early are not disturbances:
`OneRegionServes` holds across them. `WriterFollows` and `DemandsAreMet` need
`~stray`: when both dns controls are Off, as after such an end,
`get_regions.py` takes the second region for active, rightly or not.

Two demands of the rows are not among those of `DemandsAreMet` (`Inward`): that the
application is drained before it is shut down, and that all is replayed before it is opened. The
code does not establish them (see the findings and what follows).

### What the waits of a rotation do establish

`SeenStaysEmpty` is what is left of these two demands. The streams are looked at in the
order in which messages pass them, the tables after them, so that a place that was found
empty can only be filled from one that was found empty before, which had nothing to
fill it from. What it leaves out is named in it: a look that took a place for empty
that was not (`blind`); messages that the gateway, which listens until all waits are over,
or a reconciliation brings in behind a look (`overtaken`); and `Refilled`, for Trade
Matching: its streams for trades are looked at before those for settlements, but a
settlement that core matching processes may settle a trade, which goes on the egress
stream of the trades. For Settlement no place is exempt.

So three steps of the runbook promise more than they keep. `WaitForMQToDrain` asks
for the queue `trades`, for either application, in a unit that the metric does not have,
and is over at once; the queue `settlements`, the only one of Settlement, is not asked for.
`WaitForKinesisStreamsToBeProcessed1` may end with records on the egress stream of
the trades. And `WaitForInboundGatewayReconciliationToComplete` and its like sleep for 45
seconds, whether the task has ended or not. What is left behind in this way is on queues and
streams of the old region, which are not replicated.

### Assumptions on the data

`TwoSides`: a block (or an allocation) has one other side at most. The uuid is
made of sender, im, broker and trade id, each id of a trade is drawn at random,
and there are two senders for a block. If there were three, `queryForObject`
would throw on two rows and the service would halt on every redelivery; this is
listed as a hazard and not modelled.

## 4. Proofs

Each table lists theorems of one module; `PROJECT.json` (`theorems`) says what each
establishes. The sets of trades, workers and tasks, the shards and the numbers of
faults are arbitrary in all of them, but for the hypotheses that a table names.

`TradeMatching_proofs` proves for `TradeMatching`, for all values of the
constants that satisfy its assumptions (no null value is an element; the shards
are finitely many; the bounds are naturals; `TwoSides`):

| Theorem | Statement |
|---|---|
| `Invariance` | `Spec => []IInv` |
| `TypeCorrect` | `Spec => []TypeOK` |
| `PublishedOnce` | `Spec => []NoDoublePublish` |
| `PublishedStored` | `Spec => []PublishedIsDurable` |
| `CheckpointSafe` | `Spec => []CheckpointedIsStored` |
| `VerdictJustified` | `Spec => []VerdictIsJustified` |
| `FullInvariance` | `Spec => []FullInv` |
| `PairsComplete` | `Spec => []VerdictsComeInPairs` |
| `PairRefinement` | one shard: `Spec => ImplementsPairMatching`, the refinement |

`NoDoublePublish` is not inductive: whether a thread may push depends on what it
knows, which is in its `job`. `IInv` adds:

- `BatchOK`: a batch lies within its shard; a thread outside the loop has no job.
- `StoredOK`: up to the checkpoint, and up to the record a thread is at, all is
  stored. This is `CheckpointedIsStored` with the threads that will move the
  checkpoint.
- `FoundOK`: a counterpart that was found is the other side, is stored, and once
  marked keeps the verdict. It holds because a stored trade has one counterpart,
  so any other thread that writes that row writes the same verdict.
- `PushOK`: a thread about to push has inserted its trade itself, nobody has
  published this pair and nobody else is about to. The insert is where this is
  won: the unique uuid lets one thread through. If the other side's thread were
  also past its insert, each side would have been found, and so stored
  (`FoundOK`), before the other was inserted, which cannot be.
- `PubOK`: a published verdict is justified, alone, and stored on both sides.

The proof has one lemma per action; steps of the stream that leave rows and jobs
alone share `QuietStep`. `VerdictIsJustified` needs one thing more, `JustOK`: rows
are of trades that are on the stream. A thread that writes a verdict has one
side as its record and has read the row of the other.

`VerdictsComeInPairs` speaks of a behaviour without crashes, moved leases, dropped or
repeated records (`Calm`), and needs what such a behaviour keeps (`Orderly`): all tasks
are up, the thread that has a batch has the lease, and a record that no thread has
got past looking at has no row. So between the two writes of a pair nobody else
decides about either side, and a verdict that stands alone belongs to a thread that is
still in between (`Paired`). `FullInv` is `IInv` with these two; TLC checks it in
`trade_matching_faults`.

The refinement maps the trade that is being matched to absent, and its counterpart to
unmatched, until the push (`statusBar`). `SerialOK` has why that works: with one shard
and no fault there is one thread in the loop, what it has read of the rows is still so
when it writes, and its insert never meets a row. Repeated records are allowed. With two shards
it is false: that is the violated run.

`TradeSettling_proofs` proves for `TradeSettling`, from `SettlingAssumption`, the
assumptions on the stream and `AllocAssumption` (a trade has an allocation):

| Theorem | Statement |
|---|---|
| `SettlingInvariance` | `Spec => []SInv` |
| `SettlingTypeCorrect` | `Spec => []TypeOK` |
| `SettlingComplete` | `Spec => []SettledIsComplete` |
| `SettlingAnnounced` | `Spec => []SettledIsAnnounced` |

`SInv` rests on `AnswersOK`: a settlement comes back with one status, however often,
and an allocation is settled only if such a record is on the stream. So no update
takes a settled allocation back, and a thread that has read them all as settled
may save and push much later (`TaskOK`). `SettledIsAnnounced` says that the last
settlement sees the others. Its invariant looks at the records instead of the
threads: what a thread or the checkpoint has passed is recorded in its allocation
(`UpdatedOK`), and from the moment all allocations are settled until the trade is
announced, a record of the trade is ahead of every thread and of the checkpoint
(`PendingOK`). The record whose update settled the last allocation is one: its
thread has not read the trade yet, and whoever passes it finds the trade complete
and announces it. A crash takes a thread back to the checkpoint and leaves the record ahead.
Drained, nothing is ahead. Threads without a lease may still be at work then.

The same module proves for `TradeCore`, with `CoreAssumption` (that of both sides):

| Theorem | Statement |
|---|---|
| `CoreInvariance` | `CoreSpec => []CoreInv` |
| `CoreSettledIsMatched` | `CoreSpec => []SettledIsMatched` |
| `CoreSettledIsFinal` | no lease of a trade shard is stolen, no trade is put twice: `CoreSpec => SettledIsFinal` |

The proof does not repeat the one about `TradeMatching`; it uses it. Seen with SETTLED as
MATCHED and without the announcements of settled trades (`rowBar`, `pubBar`), every step of
the trade side in `TradeCore` is one of `TradeMatching`, and a step of the settlement
side changes nothing its `IInv` speaks of (`Bar!IInv` in `CoreInv`). `ReturnOK` adds that a settlement
comes back for a trade that was published as matched, which `IInv` makes a trade
stored as matched on both sides. Not all of `TradeMatching` survives this view: a thread
that looks for a counterpart sees a settled row as settled, where the view has it
matched, which is harmless since neither is unmatched. For `SettledIsFinal`, the one
write that could take SETTLED back is `MarkCounterpart`. `Alone` keeps it from doing so: a
record is at one place, the running thread with a batch of a shard has its lease,
and until it inserts its trade that has no row; so its counterpart
was not published yet, and cannot have been settled. Without the two hypotheses the theorem
is false (see the findings); crashes, restarts and stolen settlement leases are allowed.

`InboundGateway_proofs` proves for `InboundGateway`, from `GatewayAssumption`
(the null message is no message, tasks are not places of the broker, the bounds
are naturals):

| Theorem | Statement |
|---|---|
| `Invariance` | `Spec => []IInv` |
| `GatewayTypeCorrect` | `Spec => []TypeOK` |
| `GatewayQuiet` | `Spec => []PassiveIsQuiet` |
| `GatewayImplementsStage` | `Spec => Stage!Spec`, the refinement |

Its `IInv` adds to the type invariant what a thread knows: one past its save has
its message in the store (`HandledOK`). That is why an acknowledgement, which
only looks at the thread, is a `Take` of a stored message. `PassiveIsQuiet` is part
of `IInv` because a thread inside a receiver must not be in a passive task.
`StepMaps` is the step simulation, one step per action.

`Ingestion_proofs` proves for `Ingestion`, from `IngestionAssumption` (a call takes
two records at least, what is valid is not incomplete, the bounds are naturals):

| Theorem | Statement |
|---|---|
| `IngestionInvariance` | `Spec => []IInv` |
| `IngestionTypeCorrect` | `Spec => []TypeOK` |
| `IngestionImplementsStage` | `Spec => Stage!Spec`, the refinement |
| `IngestionLossBound` | `Spec => []LossBound` |

Its `IInv` adds `StoredOK` (up to the checkpoint, and up to the record a thread is at,
what was promised is stored), `ListsOK` (what a thread has collected for its
calls is stored, so that every call is a `Forward` of stored messages, however it
is cut) and `BatchOK`. The latter is needed for the abstract `Take`, which takes messages
off the input and never puts them back: a thread that still has its lease has
not been overtaken by the checkpoint, so no checkpoint goes back; a thread
without it halts instead of checkpointing.

`LossBound` counts. Its invariant (`FewSkipped`) gives every thread a set of positions that
its calls have skipped, and the list it has still to send the positions it came from, with
`Limit` times the skipped ones plus the length of the list at most the records passed. A
record joins the list: both sides grow by one. A call
that skips a record takes `Limit` off the list, and adds one position. At the checkpoint the list is
empty, and the positions are the loss. Positions are counted and not messages,
since a message may be on the stream twice.

`SettlementMatching_proofs` proves for `SettlementMatching`, from
`SettlementAssumption` and `TwoSides` (an allocation has two sides):

| Theorem | Statement |
|---|---|
| `SettlementInvariance` | `Spec => []IInv` |
| `SettlementTypeCorrect` | `Spec => []TypeOK` |
| `SettlementTwinsAgree` | `Spec => []TwinsAgree` |
| `SettlementSentTwiceAtMost` | `Spec => []SentTwiceAtMost` |
| `SettlementSentIsStored` | `Spec => []SentIsStored` |
| `SettlementOnlySkippedIsLost` | `Spec => []OnlySkippedIsLost` |
| `SettlementPairIsSent` | `Spec => []PairIsSent` |

Two threads may find each other's settlement here, so the argument is not that of
trade matching. It counts. A thread that has stored its settlement and is not
done has a claim on it, and the unique id makes that claim the only one there
ever is (`OneClaim`, `FoundOK`). A push gives up its claim, so how often a settlement
was sent is at most the claims on it and on its twin that are over (`CountOK`): two.
`VerdictOK` has the verdict the terms call for on both rows, as one transaction
writes both and every writer of that pair computes the same; `CleanOK` says that a
thread that pushes has updated its pair, unless a call failed. For
`OnlySkippedIsLost`, `StoredOK` says of a behaviour without a failed call that what
a thread or the checkpoint has left behind has a row.

`PairIsSent` says that without faults no pair is missed, although two threads may store
both sides at once, which is what trade matching gets wrong. While no lease moves, a
thread in a batch holds its lease and no JVM halts (`SteadyOK`); and two sides that are
both stored are `Attended`: without a verdict, some thread has stored one of them and is not
done, and it has yet to look or has found the other; with a verdict, some thread is about to push
it or has pushed it. The side that is stored second finds the first. Drained, no thread
is in a batch, so only what was pushed remains.

`TradeDelivery_proofs` proves for `TradeEgress` and `TradeDelivery`, from `EgressAssumption` (a
NACK is no trade, a trade has an allocation, the shards of the answers are finitely
many, the limits and bounds are naturals; in the run TLC checks the same as `DeliveryAssumption`):

| Theorem | Statement |
|---|---|
| `EgressTypeCorrect` | `Spec => []TypeOK` |
| `EgressCheckpointSafe` | `Spec => []CheckpointedIsSent` |
| `EgressMatchedIsSettled` | `Spec => []MatchedIsSettled` |
| `DeliveryInvariance` | `DeliverySpec => []DeliveryInv` |
| `DeliveryLosesNothing` | `DeliverySpec => []NothingIsLost` |
| `DeliveryStoresFirst` | `DeliverySpec => []SentIsStored` |
| `DeliveryMatchedIsSettled` | `DeliverySpec => []MatchedIsSettled` |
| `DeliveryItemIsRecent` | `DeliverySpec => []ItemIsRecent` |
| `RecentInvariance` | `DeliverySpec => []RecentInv` |
| `DeliveryAnswerIsRecent` | `DeliverySpec => []AnswerIsRecent` |

`EInv` is about what a thread has behind it (`ThreadOK`): every record that it passed
is in one of its lists or was sent, and one that has pushed the settlements has
left the loop, so that no trade joins those it has pushed them for. A push makes
what was sent grow (`Grows`), also when it halts the JVM, so that one thread does not
disturb what another one has sent. The settlements of a matched trade are in
the list the thread computes anew before each step (`SettlementListElements`, an
argument about division), so that the check for an empty list in front of the
first push is harmless. `MatchedIsSettled` then holds because only the thread
past the first push, or one with no matched trade, gets to the second.

`DeliveryInv` says the same of the gateway, once per stream: what a thread has passed is
in its list or in the queue, what the checkpoint has passed is in the queue (`AnswersOK`,
`SettlementsOK`). `NothingIsLost` follows from the two halves. For `SentIsStored`, what a
thread has in its lists and has tried to write has its item, until a call fails
(`WritesOK`, `GatewayWritesOK`). For `ItemIsRecent`, the item of a trade is the last record of
a shard about it, or the later ones there still wait for a thread (`LastOrWaits`): a crash that
sets the item back leaves them ahead of the checkpoint. While no lease moves, one live thread has
a shard at a time (`OneHolder`).

`AnswerIsRecent` looks at the end of the way, and `RecentInv` follows a record along it. A
list of trades ends, for each trade, with the last record its thread has passed about
it (`ListsAreRecent`). The last answer on the stream about a trade is the last record of a shard
but for records whose answers are still to be pushed (`Unsent`). A list of the gateway is
exactly the end of what its thread has passed of its stream (`ListsAreEnds`), so that what
is sent is sent in the stream's order, and the last of the queue is the last of
the stream but for what no thread has sent yet (`Unanswered`), and an item of the
outbound table likewise (`Unwritten`). Quiet, all three sets are empty. One shard of answers is
needed where a push extends it: only then is what is pushed last also the last answer.

`Operations_proofs` proves for `Rotation`, for all sets of executions and of offered
buttons and any bound on disturbances (`ExecutionAssumption`,
`OfferedAssumption`, `RotationBounds`):

| Theorem | Statement |
|---|---|
| `RotationTypeCorrect` | `Spec => []TypeOK` |
| `RotationOneRegionServes` | `Spec => []OneRegionServes` |
| `RotationWriterFollows` | `Spec => []WriterFollows` |
| `RotationDemandsAreMet` | `Spec => []DemandsAreMet` |

What a control says does not tell why: that the other region may be switched on
depends on the steps the execution has behind it. `IInv` adds:

- Undisturbed: `ControlInv`, no two executions are busy, and what one has
  switched stays switched until it is over; `UnclearInv`,
  a wrong region is found only after an early end or with all controls Off.
- Undisturbed and not `stray`: `PlaceInv`, an application is on only where the writer is or
  goes to; `MoveInv`, where writer, secret and tasks are at each step; `ClosedInv`,
  the gateway of the new region stays closed until the end.

`dbrotation` is harmless undisturbed because of
`PlaceInv`: where exactly one app control is On, the writer is there or goes there.

For `Draining` it proves, which has no constants, for any number of places in use:

| Theorem | Statement |
|---|---|
| `DrainingSeenStaysEmpty` | `DrainSpec => []SeenStaysEmpty` |

The property is nearly inductive; `DrainInv` adds how far the looks have come. The
argument is in the two lemmas about the order, `TradeOrder` and `SettlementOrder`: a
stream whose service puts something on a place that does not refill is looked at before that place
and does not refill either. So a step that fills a place that was passed takes a
message off another one that was passed and, by the invariant, held none. No look
is at a queue (`NoQueuePassed`), and the two ways in behind a look are what
`overtaken` records.

The same module proves for `ChaosTesting`, for every deployment of groups with any
desired counts, every set of offered rows and any number of clicks
(`DeployedAssumption`, `DesiredAssumption`, `OfferedRowsAssumption`, `ClicksAssumption`):

| Theorem | Statement |
|---|---|
| `ChaosTypeCorrect` | `ChaosSpec => []ChaosTypeOK` |
| `ChaosRowsKeepTheirWord` | `ChaosSpec => []RowsKeepTheirWord` |

It has a part about the page and one about behaviours. `PageFacts` goes through the
sections: every row but the one of Aurora of Settlement is `Faithful`, its experiment
has the application, target, extent and fault that the row announces. `ActKeepsTypes`
says what an experiment takes when it lands, in whatever state it finds the
group: from its own group or endpoint only, and one task or host if it is about
one. That a Recover gives the endpoint back needs to know whom an endpoint was denied for
(`DenialInv`): only rows that deny access, and only at the endpoint that they
recover. So the Recover of a row clears all it has caused, a Recover of another row never
leaves it denied anew, and an experiment that lands late takes the row out of `recovered`.
At the excepted row, `DenialInv` stops at its first half, and the proof shows why the
row has to be excepted: its experiment denies one endpoint and its Recover allows another.

And for `Dashboard`, for every set of followed resources, every way in which the
backend changes them, any number of concurrent loads and of failed calls
(`LoadAssumption`, there is a load; `CallBounds`):

| Theorem | Statement |
|---|---|
| `DashboardTypeCorrect` | `DashboardSpec => []DashboardTypeOK` |
| `DashboardShownWasTrue` | `DashboardSpec => []ShownWasTrue` |
| `DashboardSummaryIsSafe` | `DashboardSpec => []SummaryIsSafe` |

`DashboardInv` says where each thing a page has comes from. A call under way is one that the
mounted page asks for (`Asks`), and its answer is no version from before the mount
(`CallInv`, `Fresh`): navigation drops the calls of the old page, and the view asks for the execution
that was chosen when it was mounted, which no step changes while it is. A
hook holds what such a call set it to (`HookInv`); the pane of the view has it from the
list of steps. Versions stay, since the history of a resource only grows (`ChangeStep`).
`PageStep` collects what all steps on one page have in common. What remains is about
the tables: each icon and count is drawn from a hook that is only ever set for its application
and region (`StateCellFacts`), each difference from the hook of its step
(`ReconCellFacts`), and each indicator stands for a part that the summary of its aspect
looks at and, if it is about tasks, of its own region (`TileFact`). `SummaryIsSafe` is about these tables
alone: the first row and the indicators are drawn from the same three hooks.

Only model-checked:

- Liveness (`EventuallyDrained`, `PollingCatchesUp`, `TurnsQuiet`, `StoredInTheEnd`,
  `EventuallyTaken`, `EventuallyDelivered`): properties under fairness, and `ENABLED`, are
  beyond the prover. Every other property of a passing run is the statement of a theorem.

What holds under a hypothesis is stated with it: the refinement of `PairMatching` takes one shard,
`SettledIsFinal` no trade twice and no stolen trade lease, `AnswerIsRecent` one shard of answers. The
first two are false otherwise, in ways the findings and hazards describe; the third
because the answers of two shards reach the client in any order. The type invariants of the modules with a proof
are not checked by the runs as well, except within `FullInv` and `RecentInv`.

## 5. What is not modelled

- In the modelled services: records that do not parse (logged, no state), the
  throttling exceptions of `checkpoint()` that the processors do not catch,
  resharding, and the start and stop of the schedulers with the region.
- The random draw of `SettlementService` (some settlements are left unmatched on
  purpose) is a bounded nondeterministic choice; its probability is not modelled.
- Settlement egress and its outbound gateway, the settlement inbound gateway and
  settlement ingestion: further stages of the pattern that `InboundGateway`,
  `Ingestion`, `TradeEgress` and `OutboundGateway` model. `Draining` has what each of them
  takes its messages from and puts them on (`SettlementFeeds`). One of their
  own hazards is therefore open: a record that parses as nothing makes settlement
  egress add the previous negative acknowledgement again.
- Which records the reconciliation finds missing. It compares tables by ids of
  days and identifiers, in SQL and Python; `Draining` has the task, the streams it puts records on,
  and that nobody waits for it.
- The waits with TYPE = DR, which return at once. A runbook of that type has the steps of
  `Rotation`, and none of `Draining` but the reconciliations.
- Of the runbooks: `damage_maker`, which deletes rows for a test, and the sleeps, which are no
  guarantee. Of the API: its queries. A summary, a default value or an error is
  modelled where a page shows it.
- Of the dashboard: layout, messages, alerts and console output; the generator
  switches and the clearing of the databases. `ApplicationMonitor.tsx` is a copy
  that no route leads to. The home page has no state.
- The trade generator (random test data), terraform (provisioning), container scripts.

## 6. Where to go on

1. The settlement stages between `TradeDelivery` and `SettlementMatching`, and between
   `SettlementMatching` and `TradeSettling`, so that the round of a trade is one model.
2. `Reconciliation` over the stores of two neighbouring stages and the stream
   between them, to replace the set-valued `inflight` of `Draining` by records.
3. Proofs: `SettledIsAnnounced` for `TradeCore` instead of its settlement side alone.
