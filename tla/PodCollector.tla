---------------------------- MODULE PodCollector ----------------------------
(***************************************************************************)
(* The pod collector of pkg/collector/pod.go: a cache of pods, the restart *)
(* count up to which every container has been counted, and the CPU usage   *)
(* counters.  A counter's value is the sum of the durations of container   *)
(* runs; here it is the bag of those runs, so that counting one twice or   *)
(* losing one shows.  The empty bag is "no such series".                   *)
(*                                                                         *)
(* PodInformer calls the operations, each under its lock.                  *)
(***************************************************************************)
EXTENDS Naturals, Bags

CONSTANTS
  PodKey,     \* "namespace/name" of pods
  Uid,        \* uids; a uid is of one namespace and name for ever
  Container,  \* container names
  Owner,      \* (namespace, workflow label, node label) of a pod
  NoOwner,    \* the label of a pod whose workflow label is empty
  NoPod       \* "no entry in the map"

VARIABLES
  collectContainerStats,  \* the --enable-pod-container-metrics flag
  pods,                   \* [PodKey -> pod or NoPod]
  restartCounters,        \* [Uid \X Container -> Nat]; 0 is "no entry"
  cpu                     \* argo_workflow_container_cpu_usage_seconds_total

collectorVars == <<collectContainerStats, pods, restartCounters, cpu>>

StateKey == Uid \X Container
Series == Owner \X Container

(***************************************************************************)
(* A pod has a key, a uid, an owner and the statuses of some containers: a *)
(* function to records of the restart count, of which run of the container *)
(* the last termination state tells (from 1, and 0 where it is nil), and   *)
(* whether that run took any time.  What else a status says of the current *)
(* run the collector does not look at.  What is added to a counter is one  *)
(* run, under the restart count that came with it.                         *)
(***************************************************************************)
Counted(uid, c, s) == [uid |-> uid, container |-> c, run |-> s.last, restart |-> s.restarts]

CollectorInit ==
  /\ collectContainerStats \in BOOLEAN
  /\ pods = [k \in PodKey |-> NoPod]
  /\ restartCounters = [s \in StateKey |-> 0]
  /\ cpu = [s \in Series |-> EmptyBag]

\* A mistake: no look at the restart counter.
NewlyTerminatedAlways(p) == {c \in DOMAIN p.status : p.status[c].last > 0}

\* A mistake: one restart is taken for the count of a container that never failed.
NewlyTerminatedBeyondFirst(p) ==
  {c \in DOMAIN p.status :
     p.status[c].last > 0 /\ p.status[c].restarts > restartCounters[<<p.uid, c>>] + 1}

\* The containers whose last termination has not been counted yet.
NewlyTerminated(p) ==
  {c \in DOMAIN p.status :
     p.status[c].last > 0 /\ p.status[c].restarts > restartCounters[<<p.uid, c>>]}

\* What the collector adds to the counter of container c.
Usage(p, c) ==
  IF p.status[c].ran THEN SetToBag({Counted(p.uid, c, p.status[c])}) ELSE EmptyBag

\* collectPodMetrics
CollectPodMetrics(p) ==
  LET new == IF p.owner = NoOwner THEN {} ELSE NewlyTerminated(p)
  IN /\ restartCounters' = [s \in StateKey |->
          IF s[1] = p.uid /\ s[2] \in new THEN p.status[s[2]].restarts ELSE restartCounters[s]]
     /\ cpu' = [s \in Series |->
          IF s[1] = p.owner /\ s[2] \in new THEN cpu[s] (+) Usage(p, s[2]) ELSE cpu[s]]

AddPod(p) ==
  /\ UNCHANGED collectContainerStats
  /\ IF collectContainerStats
     THEN /\ pods' = [pods EXCEPT ![p.key] = p]
          /\ CollectPodMetrics(p)
     ELSE UNCHANGED <<pods, restartCounters, cpu>>

\* A mistake: the restart counters stay.
DeletePodKeepingCounters(p) ==
  /\ UNCHANGED <<collectContainerStats, restartCounters>>
  /\ IF collectContainerStats
     THEN /\ pods' = [pods EXCEPT ![p.key] = NoPod]
          /\ cpu' = [s \in Series |->
               IF s[1] = p.owner /\ s[2] \in DOMAIN p.status THEN EmptyBag ELSE cpu[s]]
     ELSE UNCHANGED <<pods, cpu>>

\* A mistake: the pod stays in the map.
DeletePodMetricsOnly(p) ==
  /\ UNCHANGED <<collectContainerStats, pods>>
  /\ IF collectContainerStats
     THEN /\ restartCounters' = [s \in StateKey |->
               IF s[1] = p.uid /\ s[2] \in DOMAIN p.status THEN 0 ELSE restartCounters[s]]
          /\ cpu' = [s \in Series |->
               IF s[1] = p.owner /\ s[2] \in DOMAIN p.status THEN EmptyBag ELSE cpu[s]]
     ELSE UNCHANGED <<restartCounters, cpu>>

\* DeletePod and deletePodMetrics: entries and series of the containers that the
\* deleted object reports.
DeletePod(p) ==
  /\ UNCHANGED collectContainerStats
  /\ IF collectContainerStats
     THEN /\ pods' = [pods EXCEPT ![p.key] = NoPod]
          /\ restartCounters' = [s \in StateKey |->
               IF s[1] = p.uid /\ s[2] \in DOMAIN p.status THEN 0 ELSE restartCounters[s]]
          /\ cpu' = [s \in Series |->
               IF s[1] = p.owner /\ s[2] \in DOMAIN p.status THEN EmptyBag ELSE cpu[s]]
     ELSE UNCHANGED <<pods, restartCounters, cpu>>
=============================================================================
