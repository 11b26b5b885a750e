# TLA+ verification of argo-workflows-metrics

A Prometheus exporter that watches Argo workflows and their pods through
Kubernetes shared informers, keeps a cache of them, and publishes gauges and
counters computed from it. This directory holds TLA+ models of its core, the TLC
runs that check them and the theorems TLAPS proves about them. Paths below are
relative to the repository root.

Run a check with `tlc -workers 2 -config <cfg> <module>.tla`, a proof with
`tlapm <module>.tla`. The table of runs names the module and the cfg of each.

## Inventory

| Component | State | Operations | Talks to |
|---|---|---|---|
| workflow collector, `pkg/collector/workflow.go` | cache `workflows`, labels published last (`lastNamespaces`, `lastNamespacePhases`), the gauge vectors | `AddWorkflow`, `DeleteWorkflow`, `ReplaceWorkflows`, all ending in `updateAggregatedMetrics` | called by the informer under `reconcileMu`; scraped at any time |
| workflow informer, `pkg/informer/workflow.go` | work queue, `reconcileMu`, `stopCh`, queue depth gauge | handlers `onAdd`, `onUpdate`, `onDelete`; workers (`processNext`); `runFullReconcile`; `Start`, `Stop` | client-go's store and notifications in, collector out, health state |
| pod collector, `pkg/collector/pod.go` | cache `pods`, `restartCounters`, CPU counter | `AddPod`, `DeletePod` | called by the pod informer under its `reconcileMu` |
| pod informer, `pkg/informer/pod/pod.go` | as the workflow informer | as the workflow informer; its full reconcile only adds | as the workflow informer |
| health state, `pkg/health/state.go` | sync, leader and shutdown flags, last event times, gauges | `Mark...`, `IsLive`, `IsReady`, `Snapshot` | informers, leader election, HTTP handlers |
| sharding, `cmd/exporter/main.go` 309-378 | none (a pure function of flags and hostname) | `buildNamespaceMatcher`, `resolveShardIndex`, `namespaceShard` | both informers' `namespaceMatcher` |
| lifecycle and leader election, `cmd/exporter/main.go` 80-290 | context, lease, error channel | `main`, `runControllers`, `runLeaderElection` | everything |
| metrics declarations, HTTP handlers, rules, manifests, scripts | none | formatting, PromQL, YAML | - |

What is hard, and what makes each component correct:

- *Workflow collector.* A call changes dozens of series one by one, and a scrape,
  which takes no lock, sees any state in between. A series can only be deleted
  with the labels it was set with, so the collector must delete with the previous
  object and with what it published last time. Correct: between calls the
  aggregated gauges are the counts of the cache and no ghost series is left;
  within a call no gauge is ever set to a wrong value and no other workflow's
  series are disturbed; every call returns.
- *Workflow informer.* The handler goroutine, several workers and the full
  reconciler share the queue, `reconcileMu` and the gauge. Correct: with one
  worker it is a FIFO per workflow; an idle pipeline means a cache equal to the
  store; with the full reconciler the cache converges whatever was reordered;
  foreign namespaces never get in; a cancelled context ends every goroutine.
- *Pod collector and informer.* The same container status is delivered again and
  again (resync, full reconcile, late events), counters are shared by labels and
  never set back; the last termination and the restart count of a status are separate
  fields, and in back-off the first is ahead of the second. Correct: no restart is
  counted twice, every run that a restart has followed is counted, and nothing is kept
  of pods that are gone.
- *Health.* Gauges are set after the lock is released; readiness depends on
  boundaries of a grace period and a staleness threshold; the handlers take
  verdict and body from two snapshots. Correct: with no call under way the gauges
  are the state, silence is judged by what was really heard, and the body of an
  answer does not deny its verdict.
- *Sharding.* Correct: every namespace has exactly one owner.
- *Lifecycle.* Replicas are killed, restarted, cut off from the API server and
  terminated while the lease expires or is released; shutdown cancels a context and
  returns without waiting. Correct: no two replicas publish a namespace, every
  namespace finds a publisher again, and every shutdown ends.

The full list of hazards, each at its line and with the properties that cover it,
is `hazards` in `PROJECT.json`.

## Modules

### WorkflowCollector

State: the fields of the Go struct under their own names, `count` and `total`
(`argo_workflow_count`, `argo_workflow_status_total`; `NoSeries` where the vector
has no such label), and `detail`, the samples of all per-workflow families
together. A *sample* is a family, a key, a distinguishing label and a value.
`SamplesOf(wf)` is what `collectWorkflowSeries` sets for an object,
`DeletedSeries(wf)` what `deleteWorkflowSeries` deletes for it.

A call is a sequence of steps of its goroutine `c`:

| Action | Code |
|---|---|
| `AddWorkflow`, `DeleteWorkflow`, `ReplaceWorkflows` (each a `Begin`) | lock `reconcileMu`, install the cache under `c.mu` |
| `DropSeries`, `CollectSeries` | one object of `deleteWorkflowSeries`, `collectWorkflowSeries` |
| `Aggregate` | `updateAggregatedMetrics` up to the unlock of `c.mu` |
| `SetCount`, `DropCount`, `SetTotal`, `DropTotal` | one round of its four loops, in the loops' order |
| `Finish` | unlock `reconcileMu` |

The series of one object are dropped or collected in one step (a scrape that sees
half of one workflow's own series is not told apart). An object is abstracted to
what decides which series exist: phase, info labels, timestamps that are set,
whether its duration is positive, its node map (nil or not) and node phases.

### WorkflowInformer and KeyedFifo

A workflow is a version number, the collector its cache (`mirror`): a call of the
collector is atomic under `reconcileMu`, which `WorkflowCollector` justifies. The
cluster and client-go's shared informer are external: `Put`, `Remove` and
`Resync` change the store and append a notification to `pending`.

| Action | Code |
|---|---|
| `Handle` | `onAdd`/`onUpdate`/`onDelete` and `enqueue` up to `queue.Add` |
| `ReadLen`, `SetDepth` | `setQueueDepth`: read the length, then set the gauge |
| `Launch`, `GetShutdown` | the loop of `wait.UntilWithContext` around `runWorker` |
| `Get`, `Apply` | `processNext`: `queue.Get`; `handleWorkflowEvent` under `reconcileMu` |
| `List`, `Replace` | `runFullReconcile`: the list before the lock, the replacement under it |
| `Sync`, `Cancel`, `ShutDown`, `ZeroDepth`, `CloseStop` | `Start` and the three statements of `Stop` |

An event is a struct that holds a pointer to a fresh deep copy, so no two items of
the queue are equal and the queue never merges or serialises events of one
workflow: it is a plain sequence. The branches of `processNext` for malformed
items, nil objects and retries are left out because no handler enqueues such an
item.

`KeyedFifo` is the abstract specification: for every key the values of the store
reach the mirror one by one and in order; after closing, values may be lost.
`WorkflowInformerFifo` states the refinement mapping (the values in hand, in the
queue and pending, per key, are the lag) and `ImplementsFifo`; TLC's instances in
`MCWorkflowInformer` and the proofs both extend it.

### PodCollector and PodInformer

`PodCollector` has the collector's variables and its operations; each operation
is atomic under the pod informer's `reconcileMu`. A container's status is what
`collectPodMetrics` reads of it: the restart count (`restarts`), which run the
`LastTerminationState` tells of (`last`, 0 for nil) and whether that run took time
(`ran`). The two numbers are independent fields: runs count from 1, and after run N
the kubelet first reports a back-off, with `last = N` and `restarts = N - 1`, and then
the restart, with `last = N` and `restarts = N` (`StatusAssumption`). The CPU counter
of a label set is the *bag* of what was added to it, each a run together with the
restart count it came with (`Counted`), so that a run added twice, a restart counted
twice and a loss all show. The memory gauge is only ever deleted by the code and is
left out.

| Action | Code |
|---|---|
| `AddPod`, `CollectPodMetrics`, `NewlyTerminated` | `AddPod`, `collectPodMetrics` and its guard on the restart count |
| `DeletePod` | `DeletePod`, `deletePodMetrics` |
| `Handle`, `Get`, `Apply` | `onAdd`/`onUpdate`/`onDelete` with their filters, `queue.Get`, `handlePodEvent` |
| `List`, `LockReconcile`, `AddListed`, `UnlockReconcile` | `runFullReconcile`: list and filter, lock, one `AddPod` each, unlock |
| `Create`, `Report`, `Remove`, `Resync` | the cluster, through the shared informer (external) |

The full reconcile lists before it locks and adds pods one by one without ever
removing one. A pod appears with any statuses, as an informer may see it first when it
has been running for long; a `Report` brings any later status of a container, and may
skip those in between. `Ours` is the set of uids of pods with the workflow label in
matched namespaces: the handlers test the labels of each object, and a pod keeps its
labels for life here, but a name may be taken by a pod of ours and by a foreign one in
turn. With `WatchGaps` a relist may find a pod replaced by another of the same name,
which client-go reports as one update. Start, Stop and the queue depth are those of
the workflow informer and are not repeated.

### NamespaceSharding

The pure functions of `main.go` 309-378, under their names. A matcher is the set
of namespaces it accepts; the hash is a constant `Hash` into `0..Word - 1`, and
`namespaceShard` converts the total to a `uint32` as the code does. The number at
the end of the hostname is an argument (`suffix`).

### Exporter

Several replicas, each a record of where its goroutines are, a Lease, and the set
of replicas that do not reach the API server. It extends `NamespaceSharding`, from
which every replica takes its matcher; its informers are reduced to the moment
their cache syncs, as `WorkflowInformer` has the rest.

| Action | Code |
|---|---|
| `Start` | `main` up to the goroutines; refused flags (`Accepted`) end it before |
| `RunControllers`, `Sync` | `OnStartedLeading`/`runControllers`; `Start` of an informer up to its workers |
| `Terminate`, `ServerClosed`, `Cancel`, `Exit` | the signal and `MarkShuttingDown`, `server.Shutdown`, `cancel()`, the return of `main` |
| `Acquire`, `Renew`, `StopElecting`, `Release` | client-go's `LeaderElector.Run` with `ReleaseOnCancel` (external) |
| `OnStoppedLeading`, `ReturnOrFatalf` | the callback: `MarkLeader(false)` on every path; then, any time later, its return in a shutdown or `Fatalf` |
| `Unanswered`, `Kill`, `Cut`, `Heal`, `Tick` | the environment |

`Sync` does not ask whether the context is cancelled: `Start` waits on `stopCh`,
which only `Stop` closes. A goroutine other than `main` dies with the process, in
the middle of whatever it does.

### Health

One process: the fields under the lock (`state`), the gauges (`gauge` mirrors the
fields, `probed` is what the handlers set), the `Mark` calls under way, and
requests. `heard` is a history variable, the newest event stored by either
informer.

| Action | Code |
|---|---|
| `Call`, `Store`, `SetGauge` | a `Mark` function: `time.Now()`, the locked assignment, the gauge |
| `Receive`, `Judge`, `Respond` | a handler: `time.Now()`, the verdict on a snapshot, gauge and body from a second snapshot |

`MayCall` is the order in which the rest of the program makes the calls: with election
`MarkLeader(true)` before the informers start, and `MarkLeader(false)` at any time, as
`OnStoppedLeading` makes that call on every path, in a shutdown and when the lease is
lost. In the second case `Fatalf` follows, but requests are answered until then; the
model lets the process go on for as long as it likes. `GivenUp` says that the call
has begun. `Judge` takes the snapshot that counts; the gauge of its
verdict is set in `Respond`, any time later.

### Proofs

`WorkflowCollectorProofs`, `WorkflowInformerProofs`, `WorkflowInformerFifoProofs`,
`PodInformerProofs`, `NamespaceShardingProofs`, `ExporterProofs` and `HealthProofs`
extend the modules they are named after; `PodInformerOrderProofs` extends
`PodInformerProofs` with what needs the events to be in order.

## Runs

| Run | Module, cfg | Expect | Shows |
|---|---|---|---|
| collector | MCWorkflowCollector, WorkflowCollector.cfg | pass | all collector properties |
| informer_fifo | MCWorkflowInformer, WorkflowInformerFifo.cfg | pass | refinement of `KeyedFifo`; `MirrorWhenIdle` |
| informer_full | MCWorkflowInformer, WorkflowInformerFull.cfg | pass | type, namespace filter, convergence, shutdown |
| informer_stale_list | MCWorkflowInformer, WorkflowInformerStaleList.cfg | violation | the list of the full reconcile is taken before the lock |
| informer_depth | MCWorkflowInformer, WorkflowInformerDepth.cfg | violation | an older queue length is set last |
| pod_once | MCPodInformer, PodInformerOnce.cfg | pass | type and filter; no restart counted twice, no run more than twice |
| pod_events | MCPodInformer, PodInformerEvents.cfg | pass | runs that a restart followed counted, gone pods forgotten |
| pod_leak | MCPodInformer, PodInformerLeak.cfg | violation | the full reconcile brings a deleted pod back for ever |
| pod_shared | MCPodInformer, PodInformerShared.cfg | violation | deleting one pod discards the counter of another |
| exporter | MCExporter, Exporter.cfg | pass | nothing published twice, everything published again after faults, shutdowns end |
| exporter_available | MCExporter, ExporterAvailable.cfg | violation | with election the replicas are never all ready |
| health | MCHealth, Health.cfg | pass | gauges settle, silence is judged right, bodies agree with verdicts |

Every property of a passing run has a mutant in `PROJECT.json`: a plausible
mistake in the code, written next to the definition it replaces, that makes TLC
find the property violated.

### Properties that hold

- `AggregatesExact`, `NoGhostSeries`, `UntouchedStaysPublished`,
  `PublishedMovesToTruth`, `ReturnsToTruth` (collector; the last one is liveness:
  again and again the lock is free, with aggregates and series right).
- `MirrorWhenIdle`, `ImplementsFifo` with one worker and no full reconcile: the
  queue alone is exact. `EventuallyMirrors`, `EverythingStops`, `OnlyMatched`
  with two workers and the full reconcile: it repairs what is reordered.
- `RestartCountedOnce` under everything the informer can do: no restart count of a
  container adds to a counter twice, and a run is in it at most twice, the second time
  after its restart. `CountersOfStoredPods`, `LastRestartCounted` (the last run is in
  the counter if the container has been restarted since), `EventuallyForgotten` with
  one worker, no full reconcile and pods that have labels of their own.
- `ExclusivePublishing`: with election or shards, no namespace is published by two
  replicas at once, whatever is killed, terminated, cut off or unanswered, except
  by one that has given up or lost its lease and is about to end. It rests on the order of
  the shutdown (the server stops before the context is cancelled and the lease
  released), on the periods of the election, and on the partition by shards.
  `EveryNamespacePublished`, `ShutdownCompletes`: liveness after the last fault.
- `GaugesSettle`, `SilenceJudged`, `ReadyBodyAgrees` (health). Once `MarkLeader(false)`
  has begun, in a shutdown or between the loss of the lease and `Fatalf`, the leader
  gauge may contradict the state, as two goroutines mark it then, and an answer
  "ready" judged before may carry `is_leader=false`. Both properties exempt exactly
  that (`GivenUp`).

### What the violated runs show

Each refutes one sentence of the repository, quoted in `findings`:

- *informer_stale_list*: `runFullReconcile` (line 206) lists before it locks (223).
  An event handled in between is undone; the cache is wrong until the next full
  reconcile (10 minutes by default), which is what `EventuallyMirrors` still grants.
- *informer_depth*: `argo_exporter_queue_depth` may stay above 0 over an empty
  queue until the next event.
- *pod_leak*: the pod full reconcile has the same window, but never removes, so
  nothing repairs it: the pod, its counter and its restart counter stay.
- *pod_shared*: counters are labelled by workflow, node label and container.
  Pods with equal labels share one, and `deletePodMetrics` deletes it with the
  first of them.
- *exporter_available*: a follower answers `/readyz` with "not leader", so of the
  two replicas of `deploy/deployment.yaml` at most one is ever ready; with
  `maxUnavailable: 0` the Deployment does not become available, which
  `deploy/validate-phase1.sh` waits for.

Four more facts about the code met on the way have no run of their own. A container
that the collector first sees in back-off, with the last termination of run N and a
restart count of N - 1 above 0, has run N added, and added again after the restart,
when the status tells of the same run under a restart count of N (`pod.go` 82-103): the
CPU counter then holds that run twice, which `RestartCountedOnce` allows and
`pkg/metrics/metrics.go:103` ("Total CPU time consumed by containers in seconds") does
not expect. A container seen before its back-off has no such run: its back-off is
skipped at line 90, as its restart count is counted, until the restart. With
`-worker-count` above 1 two workers may apply two events of one workflow in the
other order, which only the full reconcile repairs (`EventuallyMirrors`). Only
`LastTerminationState` of a container is read, so the run of a container that
completes and is not restarted is not counted. And a pod that is replaced by
another of its name while the watch is down comes as one update, of which `onUpdate`
looks at the new object only: the restart counter of the old one stays.

## Bounds, and why they are enough

- *collector*: three workflows, two in one namespace and one in another, seven
  objects (no phase and nil nodes, running, failed, recreated with another uid and
  an empty node map), two callers, detail metrics on and off. A namespace can
  become empty and come back, a phase can lose its last workflow while its
  namespace keeps one, and a replaced object differs in each label that a deletion
  uses. There is no other bound: the state space is finite. Proved for any number.
- *informer*: `MaxVersion` versions per workflow in its life, `MaxInFlight` for
  resyncs, `MaxDepth` for queue lengths the gauge tells apart. `informer_fifo` and
  `informer_full` have one version, that is creation and deletion (and resyncs in
  the first) of two workflows, in the second one of a foreign namespace: two events of
  one key are what a race takes. That order is kept for workflows that are updated and recreated
  is proved, for any bound (`KeepsOrder`, `MirrorFollows`). `pending` and `queue` have
  no bound of their own.
- *pods*: one container. `pod_once` has a name that a pod of ours, a foreign pod and
  another pod of ours take in turn, by delete and add or by a watch gap (`Mixed`), and
  statuses from the start over a first restart and the back-off after it to a second
  restart (`BackOff`), so that run 2 comes with two restart counts. `pod_events` has a
  pod of ours beside a foreign one (`Foreign`), up to one restart with the back-offs
  before and after it, and runs that took no time (`OneRestart`). `MaxInFlight` bounds
  the events under way: 1 where workers and the full reconciler hold others, 3 where
  one worker handles them in order.
- *exporter*: two replicas, the smallest number that can overlap, with election or
  two shards, over three namespaces and the empty one (hashes 4, 7, 6 and 3 of a
  3-bit word: both shards, and the highest bit set), and command lines with an
  index out of range, with the same index twice (for which `ExclusivePublishing`
  promises nothing) and with election and shards together. Periods of 1, 2 and 4
  ticks stand for 5, 20 and 30 seconds: what counts is their order, and that the
  first two together are less than the third. `MaxFaults` is 3, so that a cut, a
  lost answer and a kill or termination of the other replica can meet.
  `exporter_available` needs no faults.
- *health*: a clock of 3, with a grace period of 2 and a threshold of 1, so that both
  boundaries are met and passed; two calls under way, `MarkLeader(false)` at any time
  (4.4 million states); one request, as requests
  share nothing but the gauges they set; the other configuration has no election
  and looks at no events.
- Deadlock is not checked in the informer and health runs: the exporter stops, a
  bounded cluster comes to rest, and a bounded clock ends.

## Fairness

Goroutines that can take a step do (weak fairness per goroutine: the handler,
every worker, the full reconciler, `Start`). The informer's cache syncs, since the
API server is taken to be up. `Apply` of the pod informer has strong fairness
because the full reconciler holds `reconcileMu` over several steps again and again
and Go's mutex hands over to a waiter that starves. Nothing is assumed of the
cluster, of resyncs, or that the context is ever cancelled. `EventuallyMirrors`
relies on the cluster coming to rest, which the bound on versions brings about,
and on the full reconcile being repeated, which `wait.UntilWithContext` does.

In `Exporter` the goroutines of a process run, the kubelet restarts a process that
has ended (so does the Deployment), a cut is healed and time passes. Kills, cuts,
terminations and lost answers are never required. Steps between two ticks take
no time: a process that is paused for longer than a lease is not modelled, and
for it no lease-based election gives `ExclusivePublishing`. client-go checks that
the renew deadline is above the retry period and the lease above the deadline, but
not `RetryPeriod + RenewDeadline < LeaseDuration`, which the defaults respect and
`ExporterAssumption` names. A replica that has lost its lease is exempt from
`ExclusivePublishing` (`GivenUp`) as client-go releases the lease before it calls
`OnStoppedLeading`, and that request has no deadline.

## What is proved

`WorkflowCollectorProofs`, for any namespaces, any objects of the type
`WorkflowType`, any finite set of keys and any number of callers:

- `TypeCorrect`: `TypeOK`.
- `AggregatesAreExact`, `GaugesMoveToTruth`: from `AggregateInv`. `AggregatesExact`
  itself is not inductive: it says nothing while a call runs. The strengthening
  adds that only the holder of the lock is inside a call (`LockInv`), that job lists
  are empty outside the series part (`JobInv`), that what is remembered is exactly
  what is published, or about to be (`RememberedInv`), and that a call that
  publishes has computed the counts of the current cache, and has so far changed
  only labels from its two sets, in the loops' order (`PublishInv`).
- `UntouchedArePublished`, `NoGhosts`: from `DetailInv`, which adds that the objects
  scheduled for collection are the cached ones (`WorkInv`), that a scheduled
  deletion covers everything published for an object that left the cache
  (`GhostInv`, over the lemma `SamplesCovered`: what is collected for an object is
  deleted by its own deletion), and that with detail metrics off there is nothing
  (`QuietInv`).

`WorkflowInformerProofs`, for any keys, workers and bounds:

- `TypeCorrect`: `TypeOK`.
- `ForeignKeptOut`: `OnlyMatched`, with and without the full reconcile. It is
  inductive with the types and `HandInv`: a worker about to apply has an event.
- `MirrorFollows`: `MirrorWhenIdle` for one worker and no full reconcile. The
  invariant `YoungestInv` says that the youngest value of a workflow anywhere in the
  order pending, queue, hand, mirror is the store's; an idle pipeline leaves only the
  mirror. Lemmas say what `Append` and `Tail` do to "the last event of k".

`WorkflowInformerFifoProofs`, for one worker, no full reconcile, any keys and bounds:

- `KeepsOrder`: the safety part of `ImplementsFifo`, `Fifo!Order`. Every step of the
  informer is one of `KeyedFifo` or a stutter: `Put`, `Remove` and `Resync` are
  `Change`, `Apply` is `Deliver`, `Cancel` is `Close`. `Handle` and `Get` move an event
  within the sequence hand, queue, pending without changing it, except that a foreign
  event, which says nothing of our keys, is dropped, and so is an event of ours once
  the queue shuts down: that is `Lose`, at the place the event had in the lag, and it
  needs `CancelledInv` (the queue shuts down only after the context is cancelled).
  The lag of a key is a recursive function of the events; its lemmas (`ValuesOfConcat`
  and what follows) are by induction over the length, which `Induction` derives from
  the well-foundedness of `<` with a set in place of a property.

`PodInformerProofs`, for any pods, owners, workers, full reconciles and watch gaps:

- `TypeCorrect`: `TypeOK`.
- `RestartsCountedOnce`: `RestartCountedOnce`. It is not inductive: that a restart
  about to be counted is not there yet follows from `RunsCounted`, by which the
  counter of a label set holds runs of its own container only, each restart count once
  and none above the restart counter of its pod; that a run is there at most twice
  follows from its number, which is its restart count or one more. As the restart
  counter is deleted together with the published counter, and never falls otherwise,
  no event that comes late or again finds a lower one.

`PodInformerOrderProofs`, for one worker, no full reconcile and no watch gaps (`InOrder`):

- `CountersForgotten`: `CountersOfStoredPods`. The invariant follows every pod through
  the pipeline: the events of a name are in the order of what happened (`OrderInv`)
  and none is ahead of the store (`EventsInv`); a pod in the collector is behind the
  events still to come (`HeldInv`), and if it is gone from the store its deletion is
  one of them; a restart counter belongs to a pod in the collector (`CountersInv`).
- `LastRestartsCounted`: `LastRestartCounted`, for pods of ours whose labels no other
  pod of ours has (`OwnersDistinct`). It adds that the newest state of a pod is in the
  collector or on its way (`ArrivesInv`) and that the last runs the collector knows of
  are in the counter once a restart has followed them (`SeriesInv`). Of a run in
  back-off it says nothing: its restart count may be counted already, and the code
  skips it.

  No hypothesis can go. With one of them dropped TLC finds `CountersOfStoredPods`
  violated once a pod may restart: by two workers, of which one lets a deletion
  overtake an addition; by the full reconcile, as in *pod_leak*; by a watch gap, where
  a pod's successor comes as an update without the deletion. *pod_shared* violates
  `LastRestartCounted` without `OwnersDistinct`.

`NamespaceShardingProofs`, for any namespaces, hash and word size:

- `ShardInRange`, `ExactlyOneReplica`: the replicas of a StatefulSet, whose hostnames
  end in 0 to total - 1, partition the namespaces, for every total that is no
  multiple of 2^32 (the conversion to `uint32` would divide by zero).
- `ShardsDisjoint`: two replicas with different indices, however they came by them,
  have no namespace in common.

`ExporterProofs`, for any replicas, command lines, namespaces, periods and faults:

- `TypeCorrect`: `TypeOK`.
- `PublishedOnce`: `ExclusivePublishing`. For shards it is `ShardsDisjoint`, of which
  `DistinctShards` is the hypothesis. For election it rests on `LeaseInv`: a replica
  that leads is the holder, and the lease is no older than what its elector has waited
  since the last renewal. The elector waits at most `RetryPeriod + RenewDeadline`,
  which is less than `LeaseDuration`, so that no other can find the lease expired; and
  a replica that publishes without leading has given up (its elector is between the
  end of its renewals and the end of `OnStoppedLeading`).

`HealthProofs`, for any configuration and bounds:

- `TypeCorrect`, `GaugesAgree`, `SilenceIsJudged`, `AnswerAgrees`: `TypeOK`,
  `GaugesSettle`, `SilenceJudged`, `ReadyBodyAgrees`, all from `HealthInv`. Its parts
  say that a gauge differs from its field only between the two halves of a call
  (`SyncedInv`, `LastInv`, `ShutdownInv`, `LeaderInv`), that `heard` is the newer of
  the two last events (`HeardInv`), and what a verdict still says about a state that
  has moved on (`ProbeInv`): a sync and a shutdown last, and so does giving up the
  lead. `LeaderInv` holds only until `MarkLeader(false)` begins, and `Led` says that
  the replica leads, needs not, or has begun that call. `GaugesAgree` and
  `AnswerAgrees` claim no more.

The assumptions are those the modules name; TLC evaluates them in every run.
`CollectorAssumption`, `InformerAssumption` and `NoEventAssumption` give the constants
their types; `ShardingAssumption` the range of the hash; `HealthAssumption` types, and
that "no request" is no Boolean; `StatusAssumption` that the last termination of a
status is of the run before the last restart or of the one after it, and that a
termination which is not there took no time; `PodInformerAssumption` types, that the
API server gives no uid twice, and that "no pod" and "no event" are none;
`ExporterAssumption` types and the two inequalities between the periods of the
election.

Only model-checked: liveness (`ReturnsToTruth`, `EventuallyMirrors`,
`EverythingStops`, `EventuallyForgotten`, `EveryNamespacePublished`,
`ShutdownCompletes`, and the fairness part of `ImplementsFifo`), which is out of the
prover's reach, as is `ENABLED`. Every invariant and every action property that a
passing run checks is stated by a theorem.

## Not modelled

Values of timestamps and durations, log lines, error counters, the counter of leader
transitions, reconcile duration histograms, malformed events; two steps within one
workflow's own series; containers that complete without a restart; a change of a pod's
workflow labels during its life, after which the handlers would ignore it, its
deletion included; a container whose last termination the kubelet loses when it
removes the dead container; two probes at a time, of which the one with the older
verdict may set its gauge last; failures to build a client or to listen, which end the
process before it publishes anything; the text of HTTP answers, the metric
declarations, PromQL rules, manifests and scripts; client-go (external, as the code
uses it). A change of `shard-total` while replicas run, during which the code makes no
promise (`deploy/sharding-mode.md` advises against it at peak hours), is not modelled
either: `Flags` are the same for all replicas.

## Plan

Composition of `WorkflowInformer` with `WorkflowCollector`, whose cache the `mirror`
is, in place of the atomic call, and from it the theorem that links the published
gauges to the store of the cluster.
