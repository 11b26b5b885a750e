---------------------------- MODULE PodInformer ----------------------------
(***************************************************************************)
(* The pod informer of pkg/informer/pod/pod.go and the pod collector it    *)
(* feeds.  Handlers, queue, workers, Start and Stop are line for line      *)
(* those of the workflow informer; this module takes them without the      *)
(* queue depth gauge and the lifecycle, which WorkflowInformer models, and *)
(* adds what differs: which pods are ours, and a full reconcile that adds  *)
(* the listed pods to the collector but never removes one.                 *)
(***************************************************************************)
EXTENDS PodCollector, Sequences

CONSTANTS
  OwnerOf,        \* OwnerOf[u]: the labels of the pod with uid u
  UidsOf,         \* UidsOf[k]: uids that pods of key k take, one after the other
  Ours,           \* uids of pods with the workflow label in matched namespaces
  Worker,
  FullReconcile,  \* fullReconcilePeriod > 0
  WatchGaps,      \* the watch may miss a deletion when the pod is recreated meanwhile
  Status,         \* statuses of containers that the kubelet may report
  MaxInFlight,    \* bound: events under way
  NoEvent

Counts == {0} \cup {s.restarts : s \in Status}

PodType ==
  [key : PodKey, uid : Uid, owner : Owner \cup {NoOwner},
   status : UNION {[S -> Status] : S \in SUBSET Container}]
EventType == [eventType : {"add", "update", "delete"}, pod : PodType]

\* Runs of a container are numbered from 1 and a run ends before its restart: while run
\* n + 1 is going on, after n restarts, the last termination is that of run n; in
\* back-off, after run n + 1 and before its restart, it is that of run n + 1.
ASSUME StatusAssumption ==
  \A s \in Status :
    /\ s \in [restarts : Nat, last : Nat, ran : BOOLEAN]
    /\ s.last \in {s.restarts, s.restarts + 1} /\ (s.last = 0 => ~s.ran)

ASSUME PodInformerAssumption ==
  /\ Ours \subseteq Uid
  /\ OwnerOf \in [Uid -> Owner \cup {NoOwner}]
  /\ UidsOf \in [PodKey -> Seq(Uid)]
  /\ \A k, l \in PodKey : \A i \in 1..Len(UidsOf[k]), j \in 1..Len(UidsOf[l]) :
       UidsOf[k][i] = UidsOf[l][j] => k = l /\ i = j
  /\ FullReconcile \in BOOLEAN /\ WatchGaps \in BOOLEAN
  /\ MaxInFlight \in Nat
  /\ NoPod \notin PodType /\ NoEvent \notin EventType

VARIABLES
  store,       \* the shared informer's store
  used,        \* used[k]: how many uids pods of key k have had
  pending,     \* notifications the shared informer still has to deliver
  queue,       \* the work queue
  hand,        \* the event a worker has got
  reconciler,  \* where the full reconciler is; it holds reconcileMu while "adding"
  listed       \* pods it has listed and not yet added

clusterVars == <<store, used>>
pipeVars == <<pending, queue, hand>>
reconcilerVars == <<reconciler, listed>>

vars == <<collectorVars, clusterVars, pipeVars, reconcilerVars>>

Init ==
  /\ CollectorInit
  /\ store = [k \in PodKey |-> NoPod]
  /\ used = [k \in PodKey |-> 0]
  /\ pending = <<>>
  /\ queue = <<>>
  /\ hand = [w \in Worker |-> NoEvent]
  /\ reconciler = IF FullReconcile THEN "wait" ELSE "off"
  /\ listed = {}

-----------------------------------------------------------------------------
(* The cluster, through the shared informer.                               *)

Notify(type, p) ==
  /\ Len(pending) + Len(queue) < MaxInFlight
  /\ pending' = Append(pending, [eventType |-> type, pod |-> p])

NewPod(k, status) ==
  LET u == UidsOf[k][used[k] + 1]
  IN [key |-> k, uid |-> u, owner |-> OwnerOf[u], status |-> status]

\* A pod appears, to an informer that may see it late: its containers have any status.
\* With a watch gap it may take the place of another one of the same name: an update to
\* the handlers.
Create(k) ==
  /\ used[k] < Len(UidsOf[k])
  /\ store[k] = NoPod \/ WatchGaps
  /\ used' = [used EXCEPT ![k] = @ + 1]
  /\ \E S \in SUBSET Container : \E status \in [S -> Status] :
       /\ store' = [store EXCEPT ![k] = NewPod(k, status)]
       /\ Notify(IF store[k] = NoPod THEN "add" ELSE "update", NewPod(k, status))
  /\ UNCHANGED <<collectorVars, queue, hand, reconcilerVars>>

WithStatus(p, c, s) ==
  [p EXCEPT !.status = [x \in DOMAIN p.status \cup {c} |-> IF x = c THEN s ELSE p.status[x]]]

\* Status s is t or a later one of the same container.
Succeeds(s, t) ==
  /\ s.restarts >= t.restarts /\ s.last >= t.last
  /\ s.last = t.last => s.ran = t.ran

\* The kubelet reports that a container has started, is in back-off or is restarted; only
\* the latest status is reported, those before it may never be.
Report(k, c) ==
  /\ store[k] # NoPod
  /\ \E s \in Status :
       /\ c \in DOMAIN store[k].status =>
            s # store[k].status[c] /\ Succeeds(s, store[k].status[c])
       /\ store' = [store EXCEPT ![k] = WithStatus(store[k], c, s)]
       /\ Notify("update", WithStatus(store[k], c, s))
  /\ UNCHANGED <<collectorVars, used, queue, hand, reconcilerVars>>

Remove(k) ==
  /\ store[k] # NoPod
  /\ store' = [store EXCEPT ![k] = NoPod]
  /\ Notify("delete", store[k])
  /\ UNCHANGED <<collectorVars, used, queue, hand, reconcilerVars>>

Resync(k) ==
  /\ store[k] # NoPod
  /\ Notify("update", store[k])
  /\ UNCHANGED <<collectorVars, clusterVars, queue, hand, reconcilerVars>>

-----------------------------------------------------------------------------
\* onAdd, onUpdate, onDelete: only workflow pods of matched namespaces.
Handle ==
  /\ pending # <<>>
  /\ pending' = Tail(pending)
  /\ queue' = IF Head(pending).pod.uid \in Ours THEN Append(queue, Head(pending)) ELSE queue
  /\ UNCHANGED <<collectorVars, clusterVars, hand, reconcilerVars>>

Get(w) ==
  /\ hand[w] = NoEvent
  /\ queue # <<>>
  /\ hand' = [hand EXCEPT ![w] = Head(queue)]
  /\ queue' = Tail(queue)
  /\ UNCHANGED <<collectorVars, clusterVars, pending, reconcilerVars>>

\* handlePodEvent under reconcileMu.
Apply(w) ==
  /\ hand[w] # NoEvent
  /\ reconciler # "adding"
  /\ IF hand[w].eventType = "delete" THEN DeletePod(hand[w].pod) ELSE AddPod(hand[w].pod)
  /\ hand' = [hand EXCEPT ![w] = NoEvent]
  /\ UNCHANGED <<clusterVars, pending, queue, reconcilerVars>>

StoredPods == {store[k] : k \in PodKey} \ {NoPod}

\* A mistake: the label is not looked at.
ListEveryPod ==
  /\ reconciler = "wait"
  /\ reconciler' = "locking"
  /\ listed' = StoredPods
  /\ UNCHANGED <<collectorVars, clusterVars, pipeVars>>

\* runFullReconcile: list, take the lock, add the listed pods that are ours.
List ==
  /\ reconciler = "wait"
  /\ reconciler' = "locking"
  /\ listed' = {p \in StoredPods : p.uid \in Ours}
  /\ UNCHANGED <<collectorVars, clusterVars, pipeVars>>

LockReconcile ==
  /\ reconciler = "locking"
  /\ reconciler' = "adding"
  /\ UNCHANGED <<collectorVars, clusterVars, pipeVars, listed>>

AddListed ==
  /\ reconciler = "adding"
  /\ \E p \in listed :
       /\ AddPod(p)
       /\ listed' = listed \ {p}
  /\ UNCHANGED <<clusterVars, pipeVars, reconciler>>

UnlockReconcile ==
  /\ reconciler = "adding"
  /\ listed = {}
  /\ reconciler' = "wait"
  /\ UNCHANGED <<collectorVars, clusterVars, pipeVars, listed>>

-----------------------------------------------------------------------------
ReconcileStep == List \/ LockReconcile \/ AddListed \/ UnlockReconcile

Next ==
  \/ \E k \in PodKey :
       \/ Create(k) \/ Remove(k) \/ Resync(k)
       \/ \E c \in Container : Report(k, c)
  \/ Handle
  \/ \E w \in Worker : Get(w) \/ Apply(w)
  \/ ReconcileStep

\* As in WorkflowInformer; reconcileMu is a starvation-free mutex.
Fairness ==
  /\ WF_vars(Handle)
  /\ \A w \in Worker : WF_vars(Get(w)) /\ SF_vars(Apply(w))
  /\ WF_vars(ReconcileStep)

Spec == Init /\ [][Next]_vars /\ Fairness

-----------------------------------------------------------------------------
(* Type invariant.                                                         *)
TypeOK ==
  /\ collectContainerStats \in BOOLEAN
  /\ \A k \in PodKey : pods[k] # NoPod => pods[k].key = k /\ pods[k].uid \in Ours
  /\ restartCounters \in [StateKey -> Counts]
  /\ \A s \in Series : IsABag(cpu[s])
  /\ \A k \in PodKey : store[k] # NoPod => store[k].key = k
  /\ \A w \in Worker : hand[w] # NoEvent => hand[w].pod.uid \in Ours
  /\ reconciler \in {"off", "wait", "locking", "adding"}
  /\ \A p \in listed : p.uid \in Ours

\* In a published counter no restart count of a container counts twice, whatever is
\* resynced, reconciled, handled out of order or handled again after the pod was
\* deleted.  A run is in it at most twice: then it was first seen in back-off, and again
\* after the restart, with a restart count that is one higher.
RestartCountedOnce ==
  \A s \in Series : \A r, q \in BagToSet(cpu[s]) :
    /\ cpu[s][r] = 1
    /\ (r # q /\ r.uid = q.uid) => r.restart # q.restart
    /\ (r # q /\ r.uid = q.uid /\ r.run = q.run) => {r.restart, q.restart} = {r.run - 1, r.run}

NothingInFlight ==
  pending = <<>> /\ queue = <<>> /\ (\A w \in Worker : hand[w] = NoEvent) /\ listed = {}

\* With nothing under way, restart counters are kept only for pods that exist: the
\* map does not grow with the pods there have been.
CountersOfStoredPods ==
  NothingInFlight =>
    \A s \in StateKey : restartCounters[s] > 0
      => \E k \in PodKey : store[k] # NoPod /\ store[k].uid = s[1]

\* A pod that is gone for good is eventually forgotten by the collector.
EventuallyForgotten ==
  \A k \in PodKey : <>[](store[k] = NoPod) => <>[](pods[k] = NoPod)

\* With nothing under way, the last run of every container of a pod that exists is in
\* the published counter, if it took time and the container has been restarted since.
\* The run of a container in back-off need not be: its restart count may be counted.
LastRestartCounted ==
  (collectContainerStats /\ NothingInFlight) =>
    \A k \in PodKey :
      (store[k] # NoPod /\ store[k].uid \in Ours /\ store[k].owner # NoOwner) =>
        \A c \in DOMAIN store[k].status :
          LET s == store[k].status[c]
          IN (s.last \in 1..s.restarts /\ s.ran)
               => BagIn(Counted(store[k].uid, c, s), cpu[<<store[k].owner, c>>])
=============================================================================
