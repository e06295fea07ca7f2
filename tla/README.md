# Formal models of the Kessel Inventory consumer

TLA+ modules, TLC configurations and TLAPS proofs about the Go program in this
repository: a Kafka consumer group that replicates resource changes to Kessel
Inventory. Paths below are relative to the repository root (`src/` here).

## 1. The system

    Kafka broker + group coordinator
        |  Poll: messages, errors, statistics; rebalance callback; Close
        v
    consumer.Run -> New -> Consume -> ProcessMessage -> Retry -> client -> Kessel Inventory
        ^             |        |            (pure parsing and transforms)
        |             |        +-> OffsetStorage -> CommitStoredOffsets -> broker
        |             +-> MetricsCollector -> registry of the process -> :9000
    cmd/start.go: setup, a goroutine for Run, a select on signals and Run's result, shutdown()
    cmd/root.go: defaults, Clowder, flags, environment, file -> one struct of options
    cmd/readyz.go: one probe of Inventory's health service, another process

| Component | State it keeps | Operations | What makes it correct | Modules |
|---|---|---|---|---|
| Consumer loop, `consumer/consumer.go` (`Run`, `Consume`) | restarts; the Kafka client; a signal channel | start, poll, process, store, commit, stop, restart | at-least-once, in order per partition; a message that fails is read again, never passed by; the budgets end the process | `InventoryConsumer`, `Delivery` |
| Message processing, `ProcessMessage`, `parsers.go`, `transforms/hosts.go` | none | header checks, parsing, tombstone test, transforms, idempotency key | only messages meant to be skipped are skipped; a tombstone becomes a delete; a panic is a failure | `Messages` |
| `Retry` | attempts | call, NotFound handler, commit and backoff before the next attempt, give up | a nil error only after the request took effect; the replica polls in time | `InventoryConsumer`, `Backoff` |
| Offset storage, `CommitStoredOffsets` | `OffsetStorage` under `offsetMutex` | append, take and commit, restore | no offset lost, committed too early or twice at once | `InventoryConsumer`, `OffsetStore`, `OffsetCommits` |
| `RebalanceCallback`, `Shutdown` | `shutdownInProgress` | commit before the partitions go, close | clean handover, commits do not go back | `InventoryConsumer`, `OffsetStore` |
| start command, `cmd/start.go` | package variable `kic`, `quit`, `srvErrs` | set up, start or stand by, select, shut down | a signal or the end of Run ends the process, gracefully | `StartCommand`, `Settings` |
| Client, `internal/client` | a gRPC client | New, ReportResource, DeleteResource, IsEnabled | tokens only over TLS; what can come of a call | `Settings`, `InventoryConsumer` |
| Configuration, options, Clowder | viper, option structs | inject, bind, read, unmarshal, validate, complete | precedence; what the loop relies on is validated | `Settings` |
| readyz, `cmd/readyz.go` | none | one probe | asks what the consumer uses | `Settings` |
| Metrics, `metrics/` | instruments, the process's registry | New, Collect, Incr | every message is counted once; exporters do not pile up | `Metrics` |

Hard behaviour: a crash between a request and its commit; commits that fail,
or fail after they were applied; rebalances and evictions while a message is
being retried (the evicted replica does not know); requests whose answer is
lost, late or never given; three nested budgets; a signal seen by two readers;
a callback that runs inside `Close`; a list that is copied, cleared and merged
around an unlocked call; five sources of settings. `PROJECT.json` lists each
hazard with its line.

## 2. The modules

| Module | Models |
|---|---|
| `Messages` | a message reduced to what the code branches on, and `ProcessMessage` up to the request: reject, skip, report or delete; whether a report carries an idempotency key |
| `InventoryConsumer` | the core: any number of replicas of Run/Consume/Retry/Shutdown/RebalanceCallback, one broker, one group, Inventory |
| `Delivery` | what the group promises, with no replicas in it: messages are delivered in order, commits cover what was delivered |
| `OffsetStore` | one replica's `OffsetStorage` at the grain of `offsetMutex`, with the callback inside Poll and Close or on a goroutine of its own |
| `OffsetCommits` | storing and committing as seen from outside, which is how `InventoryConsumer` has it |
| `StartCommand` | `InventoryConsumer` inside the process of `cmd/start.go`: setup, standby, signals, the select, the shutdown of a consumer that was never set |
| `Metrics` | `InventoryConsumer` with the counters and exporters of `metrics/` |
| `Settings` | both commands from the start of the process to a consumer that starts or a probe that is answered |
| `Backoff` | the time one message may take, against `max.poll.interval.ms` |
| `RestartBudget`, `SkipRunbook` | `InventoryConsumer` with a history variable; with the operator's offset shift from the runbook |
| `MCInventoryConsumer` | the logs for TLC |
| `*_proofs` | theorems and proofs, a module per subject |

`Delivery` is to `InventoryConsumer` what `OffsetCommits` is to `OffsetStore`:
the abstract specification, named as a PROPERTY of a run through
`INSTANCE ... WITH`.

### `InventoryConsumer` and the code

* `pc[r]` is where the one goroutine of a replica is. librdkafka runs the
  rebalance callback inside `Poll` and `Close`, so the callback is part of the
  `polling` steps (`RevokePartitions`, `LoseAssignment`) and of `Close`.
* `retries`, `attempts`, `msg`, `shutdownInProgress` are the Go variables. An
  infinite budget (-1) does not keep its counter: it feeds the backoff only.
* `pending[r]` is `OffsetStorage` reduced to its last offset per partition: the
  broker applies a request's entries in order, so earlier ones do not matter.
  The empty list is `NothingStored`. Run `offsets` shows that the list, its
  copies and its merges come to this.
* `assigned`, `next`: the Kafka client. `next` moves when a message is stored,
  not when it is delivered; the loop never polls past a message it did not
  finish, so no behaviour is lost.
* `member`, `owner`, `committed`: the coordinator and the broker (external).
  Offsets are committed as the code commits them: the offset of the last
  processed message, so that message comes again after a restart.
* `resolved`, `inventory`: what took effect in Kessel Inventory. A report whose
  transaction id it has carried out before changes nothing.

Every handler is one action with all it does up to the next call that others
can come between: `PollMessage` (poll, parse, decide), `RequestFinishes` /
`RequestFails` (one call of the API with its outcome), `RequestHangs` (a call
that is never answered, carried out or not: the client sets no deadline),
`CommitBeforeRetry`, `StoreOffset`, `CommitBatch`, `CommitBeforeClose`,
`Close`, `CloseFails`, `StartConsumer`, `StartFails`, `RetriesSpent`,
`AttemptsSpent`, `StopPolling`, `PollNothing`. A commit either succeeds, fails
without effect, or fails after the broker applied it; the broker refuses a
replica that is no longer a member but does not ask who owns a partition.
`EvictMember`, `Crash` and `RestartProcess` are the environment.

The assignor is taken to be eager (the client's default; the code configures no
other). A stored commit of a replica evicted and admitted again is accepted.

### `OffsetStore` and the code

What a caller does while it holds the lock is one step (`TakeOffsets`,
`RestoreOffsets`, `StoreOffset`, `Shutdown`, `RevokedPartitions`), and the
broker's answer is one of its own (`CommitSucceeds`, `CommitFails`), since no
lock is held over the call. There are two callers, the loop and the callback.
Where `concurrent` is true they interleave freely, as `race_condition_test.go`
drives them; where it is false the callback runs while the loop is inside Poll
or Close, as in production, and partitions are assigned again afterwards. The
variable keeps its first value, so that one run covers both.

### `Settings` and the code

A layer is a function from the keys it names to values; a text option is empty
or the name of the layer that gave it. `InjectClowdAppConfig` writes into the
struct before the flags are bound, the flags point into it (`Execute`), and
`Unmarshal` writes what viper finds: the bound flag if that very flag was
given, else the environment, else the file, else what is in the struct. Then
`Validate` and `NewClient` for start, `Probe` and `Livez` for readyz. Both
commands bind client flags to the same keys, readyz last: `bound` says whose
flag viper has, and a client flag of start reaches the struct but not viper.
Assumed
of viper: the environment may name any key (`AutomaticEnv` restricts none), and
Unmarshal replaces a list. A flag's order on the command line does not matter.

### `Metrics` and the code

Every action of the loop is paired with the counters it touches: `CountPoll`,
`CountFailure`, `CountFinish`, `CountStore`, `CountCommit`. `NewCollector` adds
an exporter to the registry, which only goes with the process. Of the
statistics, `Collect` keeps the number of rebalances (added to a counter);
a report that is not JSON counts as a failed message (`CollectFails`).

## 3. What each run checks

Logs are two to five messages long. That is enough for a batch boundary, a
message after it and one before; the gap in `SingleLog` (compaction) makes a
boundary (offset 4) follow a hole.

| Run | Instance | Shows |
|---|---|---|
| `core_single` | 1 replica, 2 partitions, batch of 2, budgets 2/2, 2 failed commits, 2 disruptions; every kind of message; 178,000 states | `TypeOK`, `DeliveryInv`, `InOrder`, `OffsetsAccounted`, `ReplayBounded`, `CleanHandover` |
| `core_group` | 2 replicas, 1 partition, unlimited restarts, 1 failed commit, 1 hanging replica, 2 disruptions; 409,000 states | `NoLoss`, `InOrder`, `ReplayBounded`, `CommitsAdvance`, `CleanHandover`, `KeyedReportsAdvance` when a partition moves and the old owner goes on; `ImplementsDelivery` |
| `live` | 2 replicas, 1 partition, unlimited budgets, 1 failed commit, 1 hanging replica, 2 disruptions; a keyed report, a migrated host that was deleted, one passed over, a keyed report; 94,000 states | `InventoryCatchesUp`, `ImplementsFairDelivery` when one replica never gets its answer, or gets it late |
| `start_command` | the process with a message Inventory refuses, budgets 2/2, 1 failed commit, 1 hanging request, 2 disruptions, signals included; 4,900 states | `NoLoss`, `ProcessEnds`, `RunGivesUp` |
| `offsets` | callers concurrent or not, 2 partitions, 4 messages each, batch of 2, 1 failure in a row; 3,176,000 states | `TypeOK`, `StorageBounded`, `NothingForgotten`, `NoDoubleCommit`, `ImplementsCommits` |
| `metrics` | 1 replica, a message of each way to be counted, budgets 2/2, 1 failed commit, 1 hanging request, 1 disruption; 54,000 states | `EveryMessageCounted`, `ExportersBounded` |
| `settings` | files that differ from `.inventory-consumer.yaml` in up to 2 keys, up to 1 flag, up to 1 environment variable, every shape of Clowder's brokers; 2,467,000 states | `FirstLayerWins`, `StartsSound` |
| `backoff` | the default retries and backoff factor, but a maximum backoff of 1 s (default 30), so that the maximum bites; answers from 0 to `MaxRequest` = 92 s | `PollsInTime` |
| `restart_budget`, `skip_runbook`, `graceful_stop`, `rebalances_counted_once` | small instances | violated: see below |

Properties:

* `NoLoss` - every message up to a committed offset took effect or was skipped
  on purpose (`Excused`). `DeliveryInv` adds why: also what a replica has
  stored, has read past or is about to send is settled, stale offsets included.
* `InOrder` - a request is sent only when everything before it is settled.
* `ImplementsDelivery`, `ImplementsFairDelivery` - the same and more as one
  abstract machine; the fair one adds that every message is delivered.
* `KeyedReportsAdvance` - a late or repeated report that carries a transaction
  id never takes Inventory back. It is false of deletes and of migrated hosts,
  whose requests carry none: a replica evicted in a backoff sends an old one
  after the new owner's newer one, or a restart replays it. Nothing mends that:
  the newer report, sent again with an id that Inventory knows, changes nothing.
* `OffsetsAccounted` - what was finished is with the broker or in
  `OffsetStorage`, whatever commits fail (until a disruption).
* `ReplayBounded` - batch boundaries between the committed and the finished
  offset are at most the failed commits, and the one being committed. For a
  replica that is not alone this holds until both a commit failed and a
  disruption happened: then another one may keep offsets it could not commit
  when a partition was taken from it, and its next commit pulls the committed
  offset back any number of batches (`MayBePulledBack`).
* `CleanHandover`, `CommitsAdvance` - without a failed commit, a partition is
  handed over fully committed, and its committed offset never goes back.
* `NothingForgotten`, `NoDoubleCommit`, `StorageBounded`, `ImplementsCommits` -
  of the list: merging loses nothing, copies are disjoint, it grows with failed
  commits and not with messages, and from outside it is one-step commits. The
  last two are about a callback inside Poll and Close: beside the loop, the
  two send their lists in either order, and the loop fills the list while the
  callback sends.
* `EveryMessageCounted`, `ExportersBounded` - the counters add up to what was
  polled; exporters left behind stay within the restarts Run may make.
* `FirstLayerWins`, `StartsSound` - precedence, with the one exception the
  order of binding makes (client flags of start come last); and what validation guarantees
  to the consumer, the client and Kafka's authentication together.
* `PollsInTime` - which settings (`Patient`) keep a replica in its group
  however its requests fail, if each is answered within `MaxRequest`. That is an
  assumption: the client sets no deadline (`internal/client/client.go:78`).
* `InventoryCatchesUp` - for good, Inventory has the newest message of each
  partition, or was taken back, after it had it, by a request without
  transaction id that was repeated or late (`Overtaken`). The exception is
  needed: without it TLC finds the property violated on `LiveLog`, by two
  replicas and also by one that loses its membership once. Inventory's ignoring
  a known id is external, and a partition stands for one resource here.
* `RunGivesUp`, `ProcessEnds` - liveness: finite budgets end a replica that
  cannot get on, unless a request is never answered; a signal or the end of Run
  ends the process. Every Consume registers a channel that nothing unregisters
  (`consumer/consumer.go:199`), so a signal may also go where nobody reads it
  any more: RunE's own channel is what ends the process then.

Bounds: `MaxCommitFailures` (refusals to a member; a fenced replica fails every
time, and the counter saturates one above the bound), `MaxDisruptions` (start
and close errors, fatal errors and signals, rebalances, hangs, evictions of
running replicas, crashes), `MaxHangs`. Two disruptions and a failed commit let
every pair of failures meet while offsets are stored. In `OffsetStore`,
`MaxFailures` bounds failures in a row; two batches and two partitions let a
copy be merged in front of newer entries of both kinds.
`MaxChanges` in `Settings` bounds the file's departures; every defect of
precedence or validation needs at most two keys to show.

Deadlock is checked except where the system stops: a closed `OffsetStore`, a
command that has ended or started its consumer (`Settings`), and, in
`StartCommand` and `Metrics`, a process that hangs when no disruption is left to end it
or that has used its restarts.

Fairness (`FairSpec`): a goroutine takes its next step (`Loop`), the platform
restarts containers, the coordinator drops members that are gone or poll no
more (a hanging one) and hands partitions out, a poll notices a lost
assignment: weak fairness. A request that is tried again and again is answered
at last: strong fairness of `RequestFinishes`, the assumption behind
`operation-max-retries = -1`; it says nothing about a request Inventory
refuses, which never enables the action, nor about one that hangs. `StartSpec`
(`StartFairness`) assumes weak fairness of the select of RunE, of the goroutine
of Run, and of the coordinator; not that a request is answered, nor that a
container starts again.

Each property of a passing run has a mutant (`PROJECT.json`): an operator such as
`CheckIfCommit_OffByOne` that, put in place of the definition it is named
after, makes TLC find the property violated.

### Where the code and its documents or comments disagree

* `restart_budget`: `consumer-max-retries` is documented as retries *per
  message*; Run counts restarts over its life, and unrelated messages use the
  budget up together.
* `skip_runbook`: the committed offset is that of the last processed message;
  `--shift-by 1` therefore moves to the bad message, not past it.
* `graceful_stop`: RunE shuts down a zero `InventoryConsumer`; the nil Consumer
  panics, and a signal ends the process with its consumer still in the group
  and its last offsets uncommitted. No message is lost by it (`start_command`
  checks `NoLoss`); the partitions stay unread until the session times out.
* `rebalances_counted_once`: a cumulative statistic is added to a counter with
  every report (`metrics/GUIDELINES.md` owns it).

Seen while reading for the models, without a run of their own:

* `metrics/otel.go:18`: each restart of Run leaves an exporter in the default
  registry; two of them report the same `target_info`, for which Prometheus
  refuses to gather (`ExportersBounded` says how many there can be).
* `metrics/metricscollector.go:220`: a gauge keeps the series of every label
  value it was recorded with, so `state="up"`, by which the dashboard counts
  active consumers, outlives the state.
* `cmd/root.go:91`: a client flag given to start is overridden by the
  environment and the file (`FlagComesLast` in `FirstLayerWins`).
* `cmd/readyz.go:60`, `:70`: readyz ignores the port of the url and the
  insecure flag, although its help says it follows both.
* `consumer/consumer.go:346`, `:422`: deletes and the requests of migrated hosts
  carry no transaction id; one that is repeated or late takes Inventory back for
  good (`Overtaken`).
* `consumer/consumer.go:559`: the backoff grows linearly;
  `internal/client/GUIDELINES.md:83` calls it exponential.

## 4. What is proved

For every set of replicas and partitions, every log and every value of the
options:

| Module | Theorem | States |
|---|---|---|
| `InventoryConsumer_proofs` | `TypeCorrect` | `Spec => []TypeOK`, counters within their limits included |
| | `DeliverySafe`, `AtLeastOnce`, `SentInOrder` | `Spec => []DeliveryInv`, `[]NoLoss`, `[]InOrder` |
| | `Refines` | `Spec => ImplementsDelivery` |
| | `KeyedAdvance` | `Spec => KeyedReportsAdvance` |
| `Handover_proofs` | `FinishedStaysAccounted` | `Spec => []OffsetsAccounted` |
| | `CommitsOnlyAdvance`, `HandsOverClean` | `Spec => CommitsAdvance`, `Spec => CleanHandover` |
| `Replay_proofs` | `ReplayIsBounded` | `Spec => []ReplayBounded` |
| `StartCommand_proofs` | `NoLossInProcess` | `StartSpec => []NoLoss` |
| `Metrics_proofs` | `CountersAddUp` | `MetricsSpec => []EveryMessageCounted` |
| | `ExportersWithinBudget` | `MetricsSpec => []ExportersBounded` |
| `OffsetStore_proofs` | `StoreTypeCorrect` | `Spec => []TypeOK` |
| | `StoreForgetsNothing` | `Spec => []NothingForgotten`, callers concurrent or not |
| | `CommitsOnce` | `Spec => []NoDoubleCommit`, likewise |
| | `CommitsAreAtomic` | `Spec => ImplementsCommits` |
| | `StorageStaysBounded` | `Spec => []StorageBounded` |
| `Backoff_proofs` | `PollsBeforeEviction` | `Spec => []PollsInTime` |
| `Settings_proofs` | `StartBuildsSoundly` | `Spec => []StartsSound`, for files with any number of departures |
| | `FirstLayerDecides` | `Spec => []FirstLayerWins`, likewise |

`Handover_proofs` builds on `InventoryConsumer_proofs`, `Replay_proofs` on
both; `StartCommand_proofs` and `Metrics_proofs` take the consumer's steps from
the first.

Assumptions: `GroupAssumption` (no replica has the name of the absent owner),
`LogAssumption` (offsets are natural numbers, any may be missing; entries are
messages), `OptionsAssumption` (what `Options.Validate` requires: commit modulo
positive; any retry limit), `BoundsAssumption`, `OffsetAssumption`,
`ChangesAssumption`, `ReportsAssumption` (the bounds of the models are natural
numbers, of any size; `OffsetStore` takes finitely many partitions),
`BackoffAssumption` (options are integers, of any sign: nothing validates them;
answers take at most `MaxRequest`).

Arguments:

* Delivery. `TypeInv` makes `TypeOK` inductive: a replica that has a request in
  hand has a position, and one that is running has a restart left to count.
  `NoLoss` alone is not inductive: a commit copies `pending` to the broker, so
  the stored offsets must be settled too; `StoreOffset` makes a stored offset of
  a message only *just* finished, so all before it must be settled, which needs
  `next`; and `next` is set from `committed` by an assignment. `DeliveryInv` is
  the conjunction. What settles stays settled, and most steps only move offsets
  (`OffsetsMoveOnly`), forget positions (`ReadsOnOnly`) and put messages down
  (`HoldsOnOnly`), for which `DeliveryStays` is proved once; the rest is
  `DeliveryPoll`, `DeliveryFinish`, `DeliveryStore`.
* Refinement. A step of Inventory is `Deliver` or a stutter, a commit is
  `Commit` or a stutter (`EffectRefines`, `CommitRefines`). It needs, beyond
  `DeliveryInv`, that what waits for an answer is not excused (`SentInv`) and
  that what took effect did so in order (`EffectInv`), which also gives
  `KeyedAdvance`.
* Accounting. A commit writes all a replica stored, so another replica's stale
  offsets could uncover what this one finished. Until a disruption there are
  none: `AssignmentInv` says offsets are stored only of partitions the replica
  owns alone; `CoverInv` is the property, strengthened to every place.
* Handover. `HandoverInv` says the same of a group with crashes and evictions
  as long as no commit failed: a member has offsets stored only of partitions
  it owns, at or past the committed ones; a replica that is no member cannot
  commit, and trying counts as a failure.
* Replay. In a group, `FitsInv` counts the boundaries between the committed and
  the finished offset; it is kept by `CoverInv` until a disruption, and by
  `HandoverInv` until a failed commit. A replica on its own (`AloneInv`) may
  have all of them: after an eviction or a crash what is committed, stored and
  read next stand in any order, so the invariant bounds the boundaries between
  any two of the three. It needs that the message in hand is the one after the
  finished ones (`FollowInv`). The boundaries are counted as a finite set even
  in an endless log.
* Metrics. `CountInv`: the one message not yet counted is the one in hand, or
  the one whose batch is being committed, and nothing is in hand where the
  loop polls. `ExportersInv` ties exporters to the restarts of Run.
* The process. `StartSteps` reduces a step of `StartCommand` to steps of the
  consumer, a stop (`StopsSafely`), or a stutter of it.
* The list. `KeptInv`: what is stored, on its way or applied has no gaps below
  it. `DoubleInv`: concurrent callers never read a stored message again
  (`ConcurrentInv`); with the callback inside Poll and Close only one of the two
  commits, and nothing is stored while it does (`SerialInv`).
* The list from outside. While the callers take turns, one of the two copies and
  the list holds everything (`OutstandingIs`), so copying and putting back
  change nothing of the last offset per partition, and an answer of the broker
  is the commit. `LastOfAppend` says what storing one more does to it.
* The backlog. `BacklogInv`: since a commit was last tried each partition has
  stored less than `CommitModulo` offsets, and a failed commit pays for all that
  was stored before it, so reading again after an assignment costs nothing.
* Backoff. `ClockInv`: in attempt n + 1 the clock stands at no more than n rounds.
* Settings. `SettingsInv`: nothing writes the options once a command runs, so
  what `Validate` saw still holds when the client is made; SASL settings of
  Clowder are in the options only if it gave a protocol. `LayersInv` says what
  the struct holds in each phase; `UnmarshalLayers` is the step where file and
  environment come in between.

Only model-checked is liveness (`InventoryCatchesUp`, `ImplementsFairDelivery`,
`ProcessEnds`, `RunGivesUp`): it rests on fairness and ENABLED, which are out of
the prover's reach. The violated properties are TLC's counterexamples. Every
other property of a passing run has its theorem above.

## 5. Not modelled

* Overflow in the backoff (`BackoffFactor * attempts * 300` as a Duration in
  nanoseconds); it takes factors no configuration has.
* The content of requests besides the idempotency key: host mapping, reporter
  versions, workspace ids. The transforms copy fields.
* TLS, OIDC and the Kafka client themselves: a certificate or token works or
  does not; librdkafka's options that the program hands on unread.
* readyz's deadline (30 s, against the deployment's probe timeout of 5 s) is
  one way for a probe to fail. That the probe in a pod does not see the flags
  of start follows from its being another process.
* Statistics that `Collect` copies into gauges; the port that `ServeMetrics`
  may find taken (it prints and goes on).
* Logging, mocks, scripts, dashboards, deployment files: no state of the
  program.
* More than one topic: topics differ from partitions in nothing the code does,
  but for metric labels.
