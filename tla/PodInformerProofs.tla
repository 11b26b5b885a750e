------------------------- MODULE PodInformerProofs -------------------------
(***************************************************************************)
(* Proofs about PodInformer, for any pods, containers, labels and workers, *)
(* with and without the full reconcile and gaps of the watch.              *)
(***************************************************************************)
EXTENDS PodInformer, TLAPS

\* Pods as the API server may report them: the labels never change.
Pod == {p \in PodType : p.owner = OwnerOf[p.uid]}
OurPod == {p \in Pod : p.uid \in Ours}

Event == {e \in EventType : e.pod \in Pod}
OurEvent == {e \in Event : e.pod.uid \in Ours}

ClusterInv ==
  /\ store \in [PodKey -> Pod \cup {NoPod}] /\ used \in [PodKey -> Nat]
  /\ \A k \in PodKey : store[k] # NoPod => store[k].key = k

PipeInv ==
  /\ pending \in Seq(Event) /\ queue \in Seq(OurEvent)
  /\ hand \in [Worker -> OurEvent \cup {NoEvent}]

ReconcilerInv ==
  reconciler \in {"off", "wait", "locking", "adding"} /\ listed \subseteq OurPod

(***************************************************************************)
(* The inductive invariant behind RestartCountedOnce: a published counter  *)
(* holds runs of one owner and container, each under a restart count of    *)
(* its own that is not beyond the restart counter of its pod, so that the  *)
(* restart to be counted next is not there yet.                            *)
(***************************************************************************)
CountOf(r, s) ==
  /\ r.uid \in Uid /\ r.container = s[2] /\ OwnerOf[r.uid] = s[1]
  /\ r.restart \in Nat /\ r.run \in Nat \ {0} /\ r.run \in {r.restart, r.restart + 1}

RunsCounted(s) ==
  /\ \A r \in DOMAIN cpu[s] :
       cpu[s][r] = 1 /\ CountOf(r, s) /\ r.restart <= restartCounters[<<r.uid, s[2]>>]
  /\ \A r, q \in DOMAIN cpu[s] : r.uid = q.uid /\ r.restart = q.restart => r = q

CollectorInv ==
  /\ collectContainerStats \in BOOLEAN
  /\ pods \in [PodKey -> OurPod \cup {NoPod}]
  /\ \A k \in PodKey : pods[k] # NoPod => pods[k].key = k
  /\ restartCounters \in [StateKey -> Counts]
  /\ \A s \in Series : IsABag(cpu[s]) /\ RunsCounted(s)

PodInv == ClusterInv /\ PipeInv /\ ReconcilerInv /\ CollectorInv

-----------------------------------------------------------------------------
(* Pods and events.                                                        *)

LEMMA NewPodIsPod ==
  ASSUME ClusterInv, NEW k \in PodKey, used[k] < Len(UidsOf[k]),
         NEW S \in SUBSET Container, NEW status \in [S -> Status]
  PROVE  NewPod(k, status) \in Pod /\ NewPod(k, status).key = k
<1> DEFINE u == UidsOf[k][used[k] + 1]
<1>1. u \in Uid
  BY PodInformerAssumption DEF ClusterInv
<1>2. OwnerOf[u] \in Owner \cup {NoOwner}
  BY <1>1, PodInformerAssumption
<1>3. status \in UNION {[R -> Status] : R \in SUBSET Container}
  OBVIOUS
<1> HIDE DEF u
<1>4. [key |-> k, uid |-> u, owner |-> OwnerOf[u], status |-> status] \in Pod
  BY <1>1, <1>2, <1>3 DEF Pod, PodType
<1>5. QED  BY <1>4 DEF NewPod, u

LEMMA WithStatusIsPod ==
  ASSUME NEW p \in Pod, NEW c \in Container, NEW s \in Status
  PROVE  /\ WithStatus(p, c, s) \in Pod /\ WithStatus(p, c, s).key = p.key
         /\ WithStatus(p, c, s).uid = p.uid
         /\ WithStatus(p, c, s).status =
              [x \in DOMAIN p.status \cup {c} |-> IF x = c THEN s ELSE p.status[x]]
<1> DEFINE t == [x \in DOMAIN p.status \cup {c} |-> IF x = c THEN s ELSE p.status[x]]
<1>1. PICK S \in SUBSET Container : p.status \in [S -> Status]
  BY DEF Pod, PodType
<1>2. t \in [S \cup {c} -> Status]
  BY <1>1
<1>3. t \in UNION {[R -> Status] : R \in SUBSET Container}
  BY <1>2
<1>4. WithStatus(p, c, s) = [p EXCEPT !.status = t]
  BY DEF WithStatus
<1> HIDE DEF t
<1>5. QED  BY <1>3, <1>4 DEF Pod, PodType, t

LEMMA StatusOfPod ==
  ASSUME NEW p \in Pod, NEW c \in DOMAIN p.status
  PROVE  /\ p.status[c] \in Status /\ c \in Container
         /\ p.status[c] = [restarts |-> p.status[c].restarts, last |-> p.status[c].last,
                           ran |-> p.status[c].ran]
         /\ p.status[c].restarts \in Nat /\ p.status[c].last \in Nat
         /\ p.status[c].last \in {p.status[c].restarts, p.status[c].restarts + 1}
         /\ p.status[c].ran \in BOOLEAN
<1>1. p.status[c] \in Status /\ c \in Container
  BY DEF Pod, PodType
<1>2. QED  BY <1>1, StatusAssumption

LEMMA CountsAreNat == Counts \subseteq Nat
  BY StatusAssumption DEF Counts

-----------------------------------------------------------------------------
(* The collector.                                                          *)

LEMMA AddedNone ==
  ASSUME NEW B, IsABag(B)
  PROVE  B (+) EmptyBag = B
  BY DEF IsABag, EmptyBag, SetToBag, (+)

\* A series without the restart that is to be counted gets it once.
LEMMA CountedKeeps ==
  ASSUME NEW s \in Series, IsABag(cpu[s]), RunsCounted(s),
         NEW p \in Pod, p.owner = s[1], NEW c \in DOMAIN p.status, c = s[2],
         p.status[c].last > 0,
         p.status[c].restarts > restartCounters[<<p.uid, c>>],
         restartCounters[<<p.uid, c>>] \in Nat
  PROVE  LET R == Counted(p.uid, c, p.status[c])
             B == cpu[s] (+) Usage(p, c)
         IN /\ IsABag(B)
            /\ CountOf(R, s) /\ R.uid = p.uid /\ R.restart = p.status[c].restarts
            /\ \A r \in DOMAIN B : B[r] = 1 /\ (r = R \/ r \in DOMAIN cpu[s])
            /\ \A r, q \in DOMAIN B : r.uid = q.uid /\ r.restart = q.restart => r = q
<1> DEFINE R == Counted(p.uid, c, p.status[c])
           B == cpu[s] (+) Usage(p, c)
<1>1. /\ p.status[c].restarts \in Nat /\ p.status[c].last \in Nat
      /\ p.status[c].last \in {p.status[c].restarts, p.status[c].restarts + 1}
  BY StatusOfPod
<1>2. CountOf(R, s) /\ R.uid = p.uid /\ R.restart = p.status[c].restarts
  <2>1. p.uid \in Uid /\ OwnerOf[p.uid] = s[1]
    BY DEF Pod, PodType
  <2>2. QED  BY <1>1, <2>1 DEF Counted, CountOf
<1>3. \A r \in DOMAIN cpu[s] : ~(r.uid = p.uid /\ r.restart = p.status[c].restarts)
  BY <1>1 DEF RunsCounted, CountOf
<1> HIDE DEF R
<1>4. CASE p.status[c].ran
  <2>1. B = cpu[s] (+) SetToBag({R})
    BY <1>4 DEF Usage, R
  <2> HIDE DEF B
  <2>2. R \notin DOMAIN cpu[s]
    BY <1>2, <1>3
  <2>3. /\ IsABag(B) /\ DOMAIN B = DOMAIN cpu[s] \cup {R} /\ B[R] = 1
        /\ \A x \in DOMAIN cpu[s] : B[x] = cpu[s][x]
    BY <2>1, <2>2 DEF IsABag, SetToBag, (+)
  <2>4. \A r \in DOMAIN B : B[r] = 1 /\ (r = R \/ r \in DOMAIN cpu[s])
    BY <2>3 DEF RunsCounted
  <2>5. ASSUME NEW r \in DOMAIN B, NEW q \in DOMAIN B, r.uid = q.uid, r.restart = q.restart
        PROVE  r = q
    BY <1>2, <1>3, <2>3, <2>5 DEF RunsCounted
  <2>6. QED  BY <1>2, <2>3, <2>4, <2>5 DEF B, R
<1>5. CASE ~p.status[c].ran
  <2>1. B = cpu[s]
    BY <1>5, AddedNone DEF Usage
  <2> HIDE DEF B
  <2>2. QED  BY <1>2, <2>1 DEF RunsCounted, B, R
<1>6. QED  BY <1>4, <1>5

LEMMA AddPodKeeps ==
  ASSUME CollectorInv, NEW p \in OurPod, AddPod(p)
  PROVE  CollectorInv'
<1>1. CASE ~collectContainerStats
  BY <1>1 DEF AddPod, CollectorInv, RunsCounted, CountOf
<1>2. CASE collectContainerStats
  <2> DEFINE new == IF p.owner = NoOwner THEN {} ELSE NewlyTerminated(p)
  <2>1. /\ pods' = [pods EXCEPT ![p.key] = p]
        /\ restartCounters' = [s \in StateKey |->
             IF s[1] = p.uid /\ s[2] \in new THEN p.status[s[2]].restarts ELSE restartCounters[s]]
        /\ cpu' = [s \in Series |->
             IF s[1] = p.owner /\ s[2] \in new THEN cpu[s] (+) Usage(p, s[2]) ELSE cpu[s]]
        /\ collectContainerStats' = collectContainerStats
    BY <1>2 DEF AddPod, CollectPodMetrics
  <2>2. p \in Pod /\ p.key \in PodKey /\ p.uid \in Uid /\ p.owner = OwnerOf[p.uid]
    BY DEF OurPod, Pod, PodType
  <2>3. \A c \in new : /\ c \in DOMAIN p.status /\ c \in Container
                       /\ p.status[c].restarts \in Counts /\ p.status[c].last > 0
                       /\ p.status[c].restarts > restartCounters[<<p.uid, c>>]
    BY <2>2, StatusOfPod DEF NewlyTerminated, Counts
  <2> HIDE DEF new
  <2>4. /\ pods' \in [PodKey -> OurPod \cup {NoPod}]
        /\ \A k \in PodKey : pods'[k] # NoPod => pods'[k].key = k
    BY <2>1, <2>2 DEF CollectorInv
  <2>5. restartCounters' \in [StateKey -> Counts]
    BY <2>1, <2>3 DEF CollectorInv
  <2>6. \A s \in StateKey : restartCounters[s] \in Nat /\ restartCounters'[s] \in Nat
    BY <2>5, CountsAreNat DEF CollectorInv
  <2>7. \A s \in StateKey : restartCounters[s] <= restartCounters'[s]
    <3> SUFFICES ASSUME NEW s \in StateKey PROVE restartCounters[s] <= restartCounters'[s]
      OBVIOUS
    <3>1. CASE s[1] = p.uid /\ s[2] \in new
      <4>1. s = <<p.uid, s[2]>>
        BY <3>1 DEF StateKey
      <4>2. restartCounters'[s] = p.status[s[2]].restarts
        BY <2>1, <3>1
      <4>3. QED  BY <2>3, <2>6, <3>1, <4>1, <4>2
    <3>2. CASE ~(s[1] = p.uid /\ s[2] \in new)
      BY <2>1, <2>6, <3>2
    <3>3. QED  BY <3>1, <3>2
  <2>8. ASSUME NEW s \in Series PROVE IsABag(cpu'[s]) /\ RunsCounted(s)'
    <3>1. s[1] \in Owner /\ s[2] \in Container /\ IsABag(cpu[s]) /\ RunsCounted(s)
      BY DEF Series, CollectorInv
    <3>2. \A r \in DOMAIN cpu[s] :
            CountOf(r, s) /\ r.restart <= restartCounters'[<<r.uid, s[2]>>]
      <4> SUFFICES ASSUME NEW r \in DOMAIN cpu[s]
                   PROVE  CountOf(r, s) /\ r.restart <= restartCounters'[<<r.uid, s[2]>>]
        OBVIOUS
      <4>1. CountOf(r, s) /\ r.restart <= restartCounters[<<r.uid, s[2]>>]
        BY <3>1 DEF RunsCounted
      <4>2. r.restart \in Nat /\ <<r.uid, s[2]>> \in StateKey
        BY <3>1, <4>1 DEF StateKey, CountOf
      <4>3. QED  BY <2>6, <2>7, <4>1, <4>2
    <3>3. CASE s[1] = p.owner /\ s[2] \in new
      <4> DEFINE c == s[2]
                 R == Counted(p.uid, c, p.status[c])
                 B == cpu[s] (+) Usage(p, c)
      <4>1. cpu'[s] = B
        BY <2>1, <3>3
      <4>2. <<p.uid, c>> \in StateKey
        BY <2>2, <3>1 DEF StateKey
      <4>3. /\ IsABag(B)
            /\ CountOf(R, s) /\ R.uid = p.uid /\ R.restart = p.status[c].restarts
            /\ \A r \in DOMAIN B : B[r] = 1 /\ (r = R \/ r \in DOMAIN cpu[s])
            /\ \A r, q \in DOMAIN B : r.uid = q.uid /\ r.restart = q.restart => r = q
        BY <2>2, <2>3, <2>6, <3>1, <3>3, <4>2, CountedKeeps
      <4>4. restartCounters'[<<p.uid, c>>] = p.status[c].restarts
        BY <2>1, <3>3, <4>2
      <4> HIDE DEF B, R
      <4>5. R.restart <= restartCounters'[<<R.uid, c>>]
        BY <4>2, <2>6, <4>3, <4>4
      <4>6. ASSUME NEW r \in DOMAIN cpu'[s]
            PROVE  /\ cpu'[s][r] = 1 /\ CountOf(r, s)
                   /\ r.restart <= restartCounters'[<<r.uid, s[2]>>]
        BY <3>2, <4>1, <4>3, <4>5
      <4>7. QED  BY <4>1, <4>3, <4>6 DEF RunsCounted, CountOf
    <3>4. CASE ~(s[1] = p.owner /\ s[2] \in new)
      <4>1. cpu'[s] = cpu[s]
        BY <2>1, <3>4
      <4>2. QED  BY <3>1, <3>2, <4>1 DEF RunsCounted, CountOf
    <3>5. QED  BY <3>3, <3>4
  <2>9. QED  BY <1>2, <2>1, <2>4, <2>5, <2>8 DEF CollectorInv
<1>3. QED  BY <1>1, <1>2

\* The counters that are deleted are those of the runs that leave the series.
LEMMA DeletePodKeeps ==
  ASSUME CollectorInv, NEW p \in OurPod, DeletePod(p)
  PROVE  CollectorInv'
<1>1. CASE ~collectContainerStats
  BY <1>1 DEF DeletePod, CollectorInv, RunsCounted, CountOf
<1>2. CASE collectContainerStats
  <2>1. /\ pods' = [pods EXCEPT ![p.key] = NoPod]
        /\ restartCounters' = [s \in StateKey |->
             IF s[1] = p.uid /\ s[2] \in DOMAIN p.status THEN 0 ELSE restartCounters[s]]
        /\ cpu' = [s \in Series |->
             IF s[1] = p.owner /\ s[2] \in DOMAIN p.status THEN EmptyBag ELSE cpu[s]]
        /\ collectContainerStats' = collectContainerStats
    BY <1>2 DEF DeletePod
  <2>2. p \in Pod /\ p.key \in PodKey /\ p.uid \in Uid /\ p.owner = OwnerOf[p.uid]
    BY DEF OurPod, Pod, PodType
  <2>3. /\ pods' \in [PodKey -> OurPod \cup {NoPod}]
        /\ \A k \in PodKey : pods'[k] # NoPod => pods'[k].key = k
    BY <2>1, <2>2 DEF CollectorInv
  <2>4. restartCounters' \in [StateKey -> Counts]
    BY <2>1 DEF CollectorInv, Counts
  <2>5. ASSUME NEW s \in Series PROVE IsABag(cpu'[s]) /\ RunsCounted(s)'
    <3>1. s[2] \in Container /\ IsABag(cpu[s]) /\ RunsCounted(s)
      BY DEF Series, CollectorInv
    <3>2. CASE s[1] = p.owner /\ s[2] \in DOMAIN p.status
      <4>1. cpu'[s] = EmptyBag
        BY <2>1, <3>2
      <4>2. QED  BY <4>1 DEF RunsCounted, IsABag, EmptyBag, SetToBag
    <3>3. CASE ~(s[1] = p.owner /\ s[2] \in DOMAIN p.status)
      <4>1. cpu'[s] = cpu[s]
        BY <2>1, <3>3
      <4>2. ASSUME NEW r \in DOMAIN cpu[s]
            PROVE  /\ cpu[s][r] = 1 /\ CountOf(r, s)
                   /\ r.restart <= restartCounters'[<<r.uid, s[2]>>]
        <5>1. /\ cpu[s][r] = 1 /\ CountOf(r, s)
              /\ r.restart <= restartCounters[<<r.uid, s[2]>>]
          BY <3>1 DEF RunsCounted
        <5>2. <<r.uid, s[2]>> \in StateKey
          BY <3>1, <5>1 DEF StateKey, CountOf
        <5>3. ~(r.uid = p.uid /\ s[2] \in DOMAIN p.status)
          BY <2>2, <3>3, <5>1 DEF CountOf
        <5>4. restartCounters'[<<r.uid, s[2]>>] = restartCounters[<<r.uid, s[2]>>]
          BY <2>1, <5>2, <5>3
        <5>5. QED  BY <5>1, <5>4
      <4>3. QED  BY <3>1, <4>1, <4>2 DEF RunsCounted, CountOf
    <3>4. QED  BY <3>2, <3>3
  <2>6. QED  BY <1>2, <2>1, <2>3, <2>4, <2>5 DEF CollectorInv
<1>3. QED  BY <1>1, <1>2

-----------------------------------------------------------------------------
(* The cluster and the pipeline.                                           *)

LEMMA Notifies ==
  ASSUME PipeInv, NEW type \in {"add", "update", "delete"}, NEW p \in Pod,
         Notify(type, p), UNCHANGED <<queue, hand>>
  PROVE  PipeInv'
<1>1. [eventType |-> type, pod |-> p] \in Event
  BY DEF Event, EventType, Pod
<1>2. QED  BY <1>1 DEF PipeInv, Notify

\* The pipeline alone moves.
LEMMA PipeMoves ==
  ASSUME PodInv, PipeInv', UNCHANGED <<collectorVars, clusterVars, reconcilerVars>>
  PROVE  PodInv'
  BY DEF PodInv, ClusterInv, ReconcilerInv, CollectorInv, RunsCounted, CountOf, collectorVars,
     clusterVars, reconcilerVars

LEMMA PodInit == Init => PodInv
<1> SUFFICES ASSUME Init PROVE PodInv
  OBVIOUS
<1>1. ClusterInv /\ PipeInv /\ ReconcilerInv
  BY PodInformerAssumption DEF Init, ClusterInv, PipeInv, ReconcilerInv
<1>2. CollectorInv
  BY PodInformerAssumption
  DEF Init, CollectorInit, CollectorInv, RunsCounted, CountOf, Counts, EmptyBag, SetToBag, IsABag
<1>3. QED  BY <1>1, <1>2 DEF PodInv

LEMMA PodNext == PodInv /\ [Next]_vars => PodInv'
<1> SUFFICES ASSUME PodInv, [Next]_vars PROVE PodInv'
  OBVIOUS
<1>1. ClusterInv /\ PipeInv /\ ReconcilerInv /\ CollectorInv
  BY DEF PodInv
<1>2. ASSUME NEW k \in PodKey, store[k] # NoPod
      PROVE  /\ store[k] \in Pod /\ store[k].key = k
             /\ \A c \in DOMAIN store[k].status : store[k].status[c] \in Status
  <2>1. store[k] \in Pod /\ store[k].key = k
    BY <1>1, <1>2 DEF ClusterInv
  <2>2. QED  BY <2>1, StatusOfPod
<1>3. ASSUME NEW k \in PodKey, Create(k) PROVE PodInv'
  <2>0. PICK S \in SUBSET Container : \E status \in [S -> Status] :
          /\ store' = [store EXCEPT ![k] = NewPod(k, status)]
          /\ Notify(IF store[k] = NoPod THEN "add" ELSE "update", NewPod(k, status))
    BY <1>3 DEF Create
  <2>1. PICK status \in [S -> Status] :
          /\ store' = [store EXCEPT ![k] = NewPod(k, status)]
          /\ Notify(IF store[k] = NoPod THEN "add" ELSE "update", NewPod(k, status))
    BY <2>0
  <2>2. NewPod(k, status) \in Pod /\ NewPod(k, status).key = k
    BY <1>1, <1>3, NewPodIsPod DEF Create
  <2>3. ClusterInv'
    BY <1>1, <1>3, <2>1, <2>2 DEF ClusterInv, Create
  <2>4. PipeInv'
    BY <1>1, <1>3, <2>1, <2>2, Notifies DEF Create
  <2>5. QED
    BY <1>1, <1>3, <2>3, <2>4
    DEF PodInv, ReconcilerInv, CollectorInv, RunsCounted, CountOf, Create, collectorVars, reconcilerVars
<1>4. ASSUME NEW k \in PodKey, NEW c \in Container, Report(k, c) PROVE PodInv'
  <2>1. PICK s \in Status :
          /\ store' = [store EXCEPT ![k] = WithStatus(store[k], c, s)]
          /\ Notify("update", WithStatus(store[k], c, s))
    BY <1>4 DEF Report
  <2>2. WithStatus(store[k], c, s) \in Pod /\ WithStatus(store[k], c, s).key = k
    <3>1. store[k] \in Pod /\ store[k].key = k
      BY <1>2, <1>4 DEF Report
    <3>2. /\ WithStatus(store[k], c, s) \in Pod
          /\ WithStatus(store[k], c, s).key = store[k].key
      BY <3>1, WithStatusIsPod, Zenon
    <3>3. QED  BY <3>1, <3>2
  <2>3. ClusterInv'
    BY <1>1, <1>4, <2>1, <2>2 DEF ClusterInv, Report
  <2>4. PipeInv'
    BY <1>1, <1>4, <2>1, <2>2, Notifies DEF Report
  <2>5. QED
    BY <1>1, <1>4, <2>3, <2>4
    DEF PodInv, ReconcilerInv, CollectorInv, RunsCounted, CountOf, Report, collectorVars,
    reconcilerVars
<1>5. ASSUME NEW k \in PodKey, Remove(k) PROVE PodInv'
  <2>1. ClusterInv'
    BY <1>1, <1>5 DEF ClusterInv, Remove
  <2>2. PipeInv'
    BY <1>1, <1>2, <1>5, Notifies DEF Remove
  <2>3. QED
    BY <1>1, <1>5, <2>1, <2>2
    DEF PodInv, ReconcilerInv, CollectorInv, RunsCounted, CountOf, Remove, collectorVars, reconcilerVars
<1>6. ASSUME NEW k \in PodKey, Resync(k) PROVE PodInv'
  BY <1>1, <1>2, <1>6, Notifies, PipeMoves DEF Resync
<1>7. CASE Handle
  <2>1. /\ Head(pending) \in Event /\ pending' \in Seq(Event)
        /\ queue' = IF Head(pending).pod.uid \in Ours THEN Append(queue, Head(pending)) ELSE queue
        /\ hand' = hand
    BY <1>1, <1>7 DEF Handle, PipeInv
  <2>2. queue' \in Seq(OurEvent)
    BY <1>1, <2>1 DEF PipeInv, OurEvent
  <2>3. QED  BY <1>1, <1>7, <2>1, <2>2, PipeMoves DEF Handle, PipeInv
<1>8. ASSUME NEW w \in Worker, Get(w) PROVE PodInv'
  <2>1. PipeInv'
    BY <1>1, <1>8 DEF Get, PipeInv
  <2>2. QED  BY <1>8, <2>1, PipeMoves DEF Get
<1>9. ASSUME NEW w \in Worker, Apply(w) PROVE PodInv'
  <2>1. hand[w].pod \in OurPod
    BY <1>1, <1>9 DEF Apply, PipeInv, OurEvent, Event, OurPod
  <2>2. CollectorInv'
    BY <1>1, <1>9, <2>1, AddPodKeeps, DeletePodKeeps DEF Apply
  <2>3. QED
    BY <1>1, <1>9, <2>2
    DEF Apply, PodInv, ClusterInv, PipeInv, ReconcilerInv, clusterVars, reconcilerVars
<1>10. CASE List
  <2>1. listed' \subseteq OurPod
    BY <1>1, <1>2, <1>10 DEF List, StoredPods, OurPod
  <2>2. QED
    BY <1>1, <1>10, <2>1
    DEF List, PodInv, ClusterInv, PipeInv, ReconcilerInv, CollectorInv, RunsCounted, CountOf,
    collectorVars, clusterVars, pipeVars
<1>11. CASE LockReconcile \/ UnlockReconcile
  BY <1>1, <1>11
  DEF LockReconcile, UnlockReconcile, PodInv, ClusterInv, PipeInv, ReconcilerInv, CollectorInv,
  RunsCounted, CountOf, collectorVars, clusterVars, pipeVars
<1>12. CASE AddListed
  <2>1. PICK p \in listed : AddPod(p) /\ listed' = listed \ {p}
    BY <1>12 DEF AddListed
  <2>2. CollectorInv'
    BY <1>1, <2>1, AddPodKeeps DEF ReconcilerInv
  <2>3. QED
    BY <1>1, <1>12, <2>1, <2>2
    DEF AddListed, PodInv, ClusterInv, PipeInv, ReconcilerInv, clusterVars, pipeVars
<1>13. CASE UNCHANGED vars
  BY <1>1, <1>13, PipeMoves DEF vars, pipeVars, PipeInv
<1>14. QED
  BY <1>3, <1>4, <1>5, <1>6, <1>7, <1>8, <1>9, <1>10, <1>11, <1>12, <1>13
  DEF Next, ReconcileStep

LEMMA Inductive == Spec => []PodInv
  BY PodInit, PodNext, PTL DEF Spec

-----------------------------------------------------------------------------
(* The theorems.                                                           *)

\* PodInformer, its type invariant: only pods that are ours reach the queue, the lister
\* and the collector, and the published counters stay bags.
THEOREM TypeCorrect == Spec => []TypeOK
<1>1. PodInv => TypeOK
  <2> SUFFICES ASSUME PodInv PROVE TypeOK
    OBVIOUS
  <2>1. \A k \in PodKey : pods[k] # NoPod => pods[k].key = k /\ pods[k].uid \in Ours
    BY DEF PodInv, CollectorInv, OurPod
  <2>2. \A w \in Worker : hand[w] # NoEvent => hand[w].pod.uid \in Ours
    BY DEF PodInv, PipeInv, OurEvent
  <2>3. \A p \in listed : p.uid \in Ours
    BY DEF PodInv, ReconcilerInv, OurPod
  <2>4. QED
    BY <2>1, <2>2, <2>3 DEF PodInv, CollectorInv, ClusterInv, ReconcilerInv, TypeOK
<1>2. QED  BY <1>1, Inductive, PTL

\* collectPodMetrics and deletePodMetrics: a restart count of a container is counted in
\* a published counter at most once, and a run of it at most twice, in back-off and
\* after the restart, with any number of workers, reconciles and watch gaps.
THEOREM RestartsCountedOnce == Spec => []RestartCountedOnce
<1>1. PodInv => RestartCountedOnce
  <2> SUFFICES ASSUME PodInv, NEW s \in Series, NEW r \in DOMAIN cpu[s], NEW q \in DOMAIN cpu[s]
               PROVE  /\ cpu[s][r] = 1
                      /\ (r # q /\ r.uid = q.uid) => r.restart # q.restart
                      /\ (r # q /\ r.uid = q.uid /\ r.run = q.run) =>
                           {r.restart, q.restart} = {r.run - 1, r.run}
    BY DEF RestartCountedOnce, BagToSet
  <2>1. RunsCounted(s)
    BY DEF PodInv, CollectorInv
  <2>2. cpu[s][r] = 1 /\ ((r # q /\ r.uid = q.uid) => r.restart # q.restart)
    BY <2>1 DEF RunsCounted
  <2>3. ASSUME r # q, r.uid = q.uid, r.run = q.run
        PROVE  {r.restart, q.restart} = {r.run - 1, r.run}
    <3>1. /\ r.restart \in Nat /\ r.run \in Nat /\ r.run \in {r.restart, r.restart + 1}
          /\ q.restart \in Nat /\ r.run \in {q.restart, q.restart + 1}
      BY <2>1, <2>3 DEF RunsCounted, CountOf
    <3>2. r.restart # q.restart
      BY <2>2, <2>3
    <3>3. (r.restart = r.run - 1 /\ q.restart = r.run) \/ (q.restart = r.run - 1 /\ r.restart = r.run)
      BY <3>1, <3>2
    <3>4. QED  BY <3>3
  <2>4. QED  BY <2>2, <2>3
<1>2. QED  BY <1>1, Inductive, PTL
=============================================================================
