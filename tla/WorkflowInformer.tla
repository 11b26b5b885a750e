-------------------------- MODULE WorkflowInformer --------------------------
(***************************************************************************)
(* The workflow informer of pkg/informer/workflow.go: the event handlers   *)
(* put the changes of the shared informer's store on a work queue, worker  *)
(* goroutines apply them to the collector one at a time (reconcileMu), and *)
(* a full reconcile now and then replaces the collector's cache by a list  *)
(* of the store.  Start and Stop follow the context that main cancels.     *)
(*                                                                         *)
(* A workflow is abstracted to the version of its object; the collector to *)
(* its cache, here the mirror, since a call of it is atomic under the lock *)
(* (module WorkflowCollector).  The shared informer (store, pending) is    *)
(* client-go's.  An event always is a well-formed one of the three types,  *)
(* so the error branches of processNext and of the handlers never run.     *)
(***************************************************************************)
EXTENDS Naturals, Sequences

CONSTANTS
  Key,            \* workflows of the watched cluster
  Matched,        \* those in a namespace that namespaceMatcher accepts
  Worker,         \* worker goroutines, max(1, workerCount) of them
  FullReconcile,  \* fullReconcilePeriod > 0
  MaxVersion,     \* bound: versions of one workflow
  MaxInFlight,    \* bound: notifications and events under way when a resync starts
  MaxDepth,       \* bound: queue lengths the gauge tells apart
  Absent,         \* "no such workflow"
  NoEvent,        \* "no event in hand"
  NoReading,      \* "no queue length read"
  Handler         \* the goroutine that runs onAdd, onUpdate and onDelete

ASSUME InformerAssumption ==
  /\ Matched \subseteq Key
  /\ Worker # {}
  /\ FullReconcile \in BOOLEAN
  /\ MaxVersion \in Nat /\ MaxInFlight \in Nat /\ MaxDepth \in Nat
  /\ Absent \notin Nat
  /\ NoReading \notin Nat
  /\ Handler \notin Worker

Version == 1..MaxVersion
Value == Version \cup {Absent}
Event == [eventType : {"add", "update", "delete"}, key : Key, version : Version]

ASSUME NoEventAssumption == NoEvent \notin Event

VARIABLES
  store,       \* the shared informer's store
  version,     \* version[k]: the last version k had, 0 before the first
  pending,     \* notifications the shared informer still has to deliver
  handler,     \* where the handler goroutine is
  queue,       \* the work queue
  shutdown,    \* the queue is shutting down
  worker,      \* where each worker is
  hand,        \* the event a worker has got
  seen,        \* queue length read by setQueueDepth and not yet set
  depth,       \* argo_exporter_queue_depth
  reconciler,  \* where the full reconciler is
  snapshot,    \* what the full reconciler listed
  mirror,      \* the collector's cache
  stage,       \* where Start is
  ctxDone      \* the context is cancelled

clusterVars == <<store, version>>
handlerVars == <<pending, handler>>
queueVars == <<queue, shutdown>>
workerVars == <<worker, hand>>
gaugeVars == <<seen, depth>>
reconcilerVars == <<reconciler, snapshot>>
lifeVars == <<stage, ctxDone>>

vars == <<clusterVars, handlerVars, queueVars, workerVars, gaugeVars,
          reconcilerVars, mirror, lifeVars>>

Init ==
  /\ store = [k \in Key |-> Absent]
  /\ version = [k \in Key |-> 0]
  /\ pending = <<>>
  /\ handler = "idle"
  /\ queue = <<>>
  /\ shutdown = FALSE
  /\ worker = [w \in Worker |-> "launch"]
  /\ hand = [w \in Worker |-> NoEvent]
  /\ seen = [p \in Worker \cup {Handler} |-> NoReading]
  /\ depth = 0
  /\ reconciler = IF FullReconcile THEN "wait" ELSE "exit"
  /\ snapshot = [k \in Key |-> Absent]
  /\ mirror = [k \in Key |-> Absent]
  /\ stage = "syncing"
  /\ ctxDone = FALSE

\* A mistake: deletions handled like updates.
ValueOfNoDelete(e) == e.version

\* What a worker makes of an event: the cached value of its key afterwards.
ValueOf(e) == IF e.eventType = "delete" THEN Absent ELSE e.version

-----------------------------------------------------------------------------
(* The shared informer: its store changes and the handlers are notified,   *)
(* until stopCh is closed.                                                 *)

Notify(type, k, v) ==
  pending' = Append(pending, [eventType |-> type, key |-> k, version |-> v])

\* A workflow is created, again or for the first time, or updated.
Put(k) ==
  /\ stage # "stopped"
  /\ version[k] < MaxVersion
  /\ version' = [version EXCEPT ![k] = @ + 1]
  /\ store' = [store EXCEPT ![k] = version[k] + 1]
  /\ Notify(IF store[k] = Absent THEN "add" ELSE "update", k, version[k] + 1)
  /\ UNCHANGED <<handler, queueVars, workerVars, gaugeVars, reconcilerVars, mirror, lifeVars>>

\* A workflow is deleted; the notification carries the last object, which a
\* tombstone (DeletedFinalStateUnknown) does as well.
Remove(k) ==
  /\ stage # "stopped"
  /\ store[k] # Absent
  /\ store' = [store EXCEPT ![k] = Absent]
  /\ Notify("delete", k, store[k])
  /\ UNCHANGED <<version, handler, queueVars, workerVars, gaugeVars, reconcilerVars,
                 mirror, lifeVars>>

\* The resync period: a stored workflow is notified once more.
Resync(k) ==
  /\ stage # "stopped"
  /\ store[k] # Absent
  /\ Len(pending) + Len(queue) < MaxInFlight
  /\ Notify("update", k, store[k])
  /\ UNCHANGED <<clusterVars, handler, queueVars, workerVars, gaugeVars, reconcilerVars,
                 mirror, lifeVars>>

-----------------------------------------------------------------------------
(* The event handlers, called one at a time.                               *)

\* onAdd, onUpdate, onDelete up to queue.Add: an event of a namespace that is
\* not ours is ignored; a queue that shuts down ignores the event.
Handle ==
  /\ handler = "idle"
  /\ pending # <<>>
  /\ pending' = Tail(pending)
  /\ IF Head(pending).key \in Matched
     THEN /\ handler' = "depth"
          /\ queue' = IF shutdown THEN queue ELSE Append(queue, Head(pending))
     ELSE UNCHANGED <<handler, queue>>
  /\ UNCHANGED <<clusterVars, shutdown, workerVars, gaugeVars, reconcilerVars, mirror, lifeVars>>

-----------------------------------------------------------------------------
(* setQueueDepth: the length is read under the queue's lock, the gauge set *)
(* after it.                                                               *)

InDepth(p) == IF p = Handler THEN handler = "depth" ELSE worker[p] = "depth"

\* A mistake: not counting the event just taken or put, empty queue or not.
ReadLenLess(p) ==
  /\ InDepth(p)
  /\ seen[p] = NoReading
  /\ seen' = [seen EXCEPT ![p] = Len(queue) - 1]
  /\ UNCHANGED <<clusterVars, handlerVars, queueVars, workerVars, depth, reconcilerVars,
                 mirror, lifeVars>>

ReadLen(p) ==
  /\ InDepth(p)
  /\ seen[p] = NoReading
  /\ seen' = [seen EXCEPT ![p] = IF Len(queue) > MaxDepth THEN MaxDepth ELSE Len(queue)]
  /\ UNCHANGED <<clusterVars, handlerVars, queueVars, workerVars, depth, reconcilerVars,
                 mirror, lifeVars>>

SetDepth(p) ==
  /\ InDepth(p)
  /\ seen[p] # NoReading
  /\ depth' = seen[p]
  /\ seen' = [seen EXCEPT ![p] = NoReading]
  /\ IF p = Handler
     THEN handler' = "idle" /\ UNCHANGED worker
     ELSE worker' = [worker EXCEPT ![p] = "get"] /\ UNCHANGED handler
  /\ UNCHANGED <<clusterVars, pending, queueVars, hand, reconcilerVars, mirror, lifeVars>>

-----------------------------------------------------------------------------
(* The workers: UntilWithContext around runWorker around processNext.      *)

\* UntilWithContext looks at the context before each round.
Launch(w) ==
  /\ stage # "syncing"
  /\ worker[w] = "launch"
  /\ worker' = [worker EXCEPT ![w] = IF ctxDone THEN "exit" ELSE "get"]
  /\ UNCHANGED <<clusterVars, handlerVars, queueVars, hand, gaugeVars, reconcilerVars,
                 mirror, lifeVars>>

\* A mistake: serving the youngest event first.
GetYoungest(w) ==
  /\ worker[w] = "get"
  /\ queue # <<>>
  /\ hand' = [hand EXCEPT ![w] = queue[Len(queue)]]
  /\ queue' = SubSeq(queue, 1, Len(queue) - 1)
  /\ worker' = [worker EXCEPT ![w] = "apply"]
  /\ UNCHANGED <<clusterVars, handlerVars, shutdown, gaugeVars, reconcilerVars, mirror, lifeVars>>

\* queue.Get: the oldest event, also of a queue that shuts down.
Get(w) ==
  /\ worker[w] = "get"
  /\ queue # <<>>
  /\ hand' = [hand EXCEPT ![w] = Head(queue)]
  /\ queue' = Tail(queue)
  /\ worker' = [worker EXCEPT ![w] = "apply"]
  /\ UNCHANGED <<clusterVars, handlerVars, shutdown, gaugeVars, reconcilerVars, mirror, lifeVars>>

\* An empty queue that shuts down ends runWorker, and the next round is awaited.
GetShutdown(w) ==
  /\ worker[w] = "get"
  /\ queue = <<>>
  /\ shutdown
  /\ worker' = [worker EXCEPT ![w] = "launch"]
  /\ UNCHANGED <<clusterVars, handlerVars, queueVars, hand, gaugeVars, reconcilerVars,
                 mirror, lifeVars>>

\* handleWorkflowEvent under reconcileMu.
Apply(w) ==
  /\ worker[w] = "apply"
  /\ mirror' = [mirror EXCEPT ![hand[w].key] = ValueOf(hand[w])]
  /\ hand' = [hand EXCEPT ![w] = NoEvent]
  /\ worker' = [worker EXCEPT ![w] = "depth"]
  /\ UNCHANGED <<clusterVars, handlerVars, queueVars, gaugeVars, reconcilerVars, lifeVars>>

-----------------------------------------------------------------------------
(* The full reconciler: UntilWithContext around runFullReconcile.          *)

\* A mistake: listing the workflows of every namespace.
ListedAll == store

Listed == [k \in Key |-> IF k \in Matched THEN store[k] ELSE Absent]

\* The list of the store is taken before reconcileMu is.
List ==
  /\ stage # "syncing"
  /\ reconciler = "wait"
  /\ IF ctxDone
     THEN reconciler' = "exit" /\ UNCHANGED snapshot
     ELSE reconciler' = "replace" /\ snapshot' = Listed
  /\ UNCHANGED <<clusterVars, handlerVars, queueVars, workerVars, gaugeVars, mirror, lifeVars>>

\* A mistake: adding what is listed without removing what is not.
ReplaceMerging ==
  /\ reconciler = "replace"
  /\ mirror' = [k \in Key |-> IF snapshot[k] = Absent THEN mirror[k] ELSE snapshot[k]]
  /\ snapshot' = [k \in Key |-> Absent]
  /\ reconciler' = "wait"
  /\ UNCHANGED <<clusterVars, handlerVars, queueVars, workerVars, gaugeVars, lifeVars>>

Replace ==
  /\ reconciler = "replace"
  /\ mirror' = snapshot
  /\ snapshot' = [k \in Key |-> Absent]
  /\ reconciler' = "wait"
  /\ UNCHANGED <<clusterVars, handlerVars, queueVars, workerVars, gaugeVars, lifeVars>>

-----------------------------------------------------------------------------
(* Start and Stop.                                                         *)

\* The cache has synced: workers and reconciler are started.
Sync ==
  /\ stage = "syncing"
  /\ stage' = "running"
  /\ UNCHANGED <<clusterVars, handlerVars, queueVars, workerVars, gaugeVars, reconcilerVars,
                 mirror, ctxDone>>

\* main, or the leader election, cancels the context.
Cancel ==
  /\ ~ctxDone
  /\ ctxDone' = TRUE
  /\ UNCHANGED <<clusterVars, handlerVars, queueVars, workerVars, gaugeVars, reconcilerVars,
                 mirror, stage>>

\* A mistake: Stop without queue.ShutDown.
ShutDownNot ==
  /\ stage = "running"
  /\ ctxDone
  /\ stage' = "stopping"
  /\ UNCHANGED <<clusterVars, handlerVars, queueVars, workerVars, gaugeVars, reconcilerVars,
                 mirror, ctxDone>>

\* Stop, in three steps: queue.ShutDown, the gauge, stopCh.
ShutDown ==
  /\ stage = "running"
  /\ ctxDone
  /\ shutdown' = TRUE
  /\ stage' = "stopping"
  /\ UNCHANGED <<clusterVars, handlerVars, queue, workerVars, gaugeVars, reconcilerVars,
                 mirror, ctxDone>>

ZeroDepth ==
  /\ stage = "stopping"
  /\ depth' = 0
  /\ stage' = "zeroed"
  /\ UNCHANGED <<clusterVars, handlerVars, queueVars, workerVars, seen, reconcilerVars,
                 mirror, ctxDone>>

CloseStop ==
  /\ stage = "zeroed"
  /\ stage' = "stopped"
  /\ UNCHANGED <<clusterVars, handlerVars, queueVars, workerVars, gaugeVars, reconcilerVars,
                 mirror, ctxDone>>

-----------------------------------------------------------------------------
HandlerStep == Handle \/ ReadLen(Handler) \/ SetDepth(Handler)

WorkerStep(w) ==
  Launch(w) \/ Get(w) \/ GetShutdown(w) \/ Apply(w) \/ ReadLen(w) \/ SetDepth(w)

StartStep == ShutDown \/ ZeroDepth \/ CloseStop

Next ==
  \/ \E k \in Key : Put(k) \/ Remove(k) \/ Resync(k)
  \/ HandlerStep
  \/ \E w \in Worker : WorkerStep(w)
  \/ List \/ Replace
  \/ Sync \/ Cancel \/ StartStep

\* Goroutines that can run do run, and with the API server up the cache syncs.
\* Nothing is assumed of the cluster, nor that the context is ever cancelled.
Fairness ==
  /\ WF_vars(HandlerStep)
  /\ \A w \in Worker : WF_vars(WorkerStep(w))
  /\ WF_vars(List \/ Replace)
  /\ WF_vars(Sync)
  /\ WF_vars(StartStep)

Spec == Init /\ [][Next]_vars /\ Fairness

-----------------------------------------------------------------------------
(* Type invariant.                                                         *)
TypeOK ==
  /\ store \in [Key -> Value]
  /\ version \in [Key -> 0..MaxVersion]
  /\ pending \in Seq(Event)
  /\ handler \in {"idle", "depth"}
  /\ queue \in Seq(Event)
  /\ shutdown \in BOOLEAN
  /\ worker \in [Worker -> {"launch", "get", "apply", "depth", "exit"}]
  /\ hand \in [Worker -> Event \cup {NoEvent}]
  /\ seen \in [Worker \cup {Handler} -> Nat \cup {NoReading}]
  /\ depth \in Nat
  /\ reconciler \in {"wait", "replace", "exit"}
  /\ snapshot \in [Key -> Value]
  /\ mirror \in [Key -> Value]
  /\ stage \in {"syncing", "running", "stopping", "zeroed", "stopped"}
  /\ ctxDone \in BOOLEAN

NothingInFlight == pending = <<>> /\ queue = <<>> /\ \A w \in Worker : hand[w] = NoEvent

\* With no notification, event or snapshot under way the collector's cache is the
\* store's: "the total number of workflows in the cluster" is counted right.  (Once
\* the queue shuts down events are dropped and nothing is promised.)
MirrorWhenIdle ==
  (NothingInFlight /\ reconciler # "replace" /\ ~shutdown)
    => \A k \in Matched : mirror[k] = store[k]

\* Workflows of foreign namespaces reach neither the queue nor the collector, by
\* events or by a full reconcile.
OnlyMatched ==
  /\ \A i \in DOMAIN queue : queue[i].key \in Matched
  /\ \A w \in Worker : hand[w] # NoEvent => hand[w].key \in Matched
  /\ \A k \in Key \ Matched : mirror[k] = Absent /\ snapshot[k] = Absent

\* When nothing is under way and nobody is about to set it, the queue depth gauge
\* is 0: it "tracks current informer queue depth".
DepthWhenIdle ==
  (NothingInFlight /\ \A p \in Worker \cup {Handler} : ~InDepth(p)) => depth = 0

\* Whatever was reordered or overwritten on the way, with the full reconcile the
\* collector's cache ends up as the store's once the cluster stops changing, unless
\* the context is cancelled.  The bound on versions makes the cluster stop.
EventuallyMirrors == []~ctxDone => <>[](mirror = Listed)

\* A cancelled context ends Start and every goroutine it started, whatever is
\* queued or being applied at that moment.
EverythingStops ==
  (ctxDone /\ stage # "syncing")
    ~> (stage = "stopped" /\ reconciler = "exit" /\ \A w \in Worker : worker[w] = "exit")

=============================================================================
