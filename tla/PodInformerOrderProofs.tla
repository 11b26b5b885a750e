----------------------- MODULE PodInformerOrderProofs -----------------------
(***************************************************************************)
(* Proofs about PodInformer with one worker, no full reconcile and a watch *)
(* that misses no deletion: the collector then follows the events of every *)
(* pod in order.                                                           *)
(***************************************************************************)
EXTENDS PodInformerProofs

InOrder == (\E w : Worker = {w}) /\ ~FullReconcile /\ ~WatchGaps

\* Pods of ours with different names have the same labels only if they have none.
OwnersDistinct ==
  \A k, l \in PodKey : \A i \in 1..Len(UidsOf[k]), j \in 1..Len(UidsOf[l]) :
    /\ k # l /\ UidsOf[k][i] \in Ours /\ UidsOf[l][j] \in Ours
    /\ OwnerOf[UidsOf[k][i]] = OwnerOf[UidsOf[l][j]]
    => OwnerOf[UidsOf[k][i]] = NoOwner

(***************************************************************************)
(* The events on their way to the collector: in a worker's hand, queued,   *)
(* or pending if the handlers will let them pass.                          *)
(***************************************************************************)
InHand(e) == e # NoEvent /\ \E w \in Worker : hand[w] = e
InQueue(e) == \E i \in 1..Len(queue) : queue[i] = e
InPending(e) == e.pod.uid \in Ours /\ \E i \in 1..Len(pending) : pending[i] = e
Coming(e) == InHand(e) \/ InQueue(e) \/ InPending(e)

\* Event e will be applied before f.
Ahead(e, f) ==
  \/ InHand(e) /\ (InQueue(f) \/ InPending(f))
  \/ \E i, j \in 1..Len(queue) : i < j /\ queue[i] = e /\ queue[j] = f
  \/ InQueue(e) /\ InPending(f)
  \/ e.pod.uid \in Ours /\ f.pod.uid \in Ours /\
     \E i, j \in 1..Len(pending) : i < j /\ pending[i] = e /\ pending[j] = f

Deleted(e) == e.eventType = "delete"

\* The place of a pod among those of its name.
Nth(p) == CHOOSE i \in 1..Len(UidsOf[p.key]) : UidsOf[p.key][i] = p.uid

\* q is p or what has become of it.
Follows(q, p) ==
  q.uid = p.uid =>
    \A c \in DOMAIN p.status :
      c \in DOMAIN q.status /\ Succeeds(q.status[c], p.status[c])

\* Of two pods of a name, q is the later one.
Later(q, p) == Nth(p) <= Nth(q) /\ Follows(q, p)

\* A pod of a name that has been used.
Known(p) ==
  /\ p \in Pod
  /\ \E i \in 1..used[p.key] : i <= Len(UidsOf[p.key]) /\ p.uid = UidsOf[p.key][i]

Stored(p) == store[p.key] # NoPod /\ store[p.key].uid = p.uid

\* What keeps an entry of p from staying for ever.
WillGo(p) ==
  Stored(p) \/ \E d \in Event : Coming(d) /\ Deleted(d) /\ d.pod.key = p.key /\ d.pod.uid = p.uid

-----------------------------------------------------------------------------
StoreInv ==
  \A k \in PodKey : store[k] # NoPod =>
    Known(store[k]) /\ used[k] \in 1..Len(UidsOf[k]) /\ store[k].uid = UidsOf[k][used[k]]

\* Nothing on its way, nor in the collector, is ahead of the store.
BehindStore(p) == Known(p) /\ (store[p.key] # NoPod => Follows(store[p.key], p))

EventsInv ==
  \A e \in OurEvent : Coming(e) =>
    /\ BehindStore(e.pod)
    /\ Deleted(e) => ~Stored(e.pod)
    /\ ~Deleted(e) => WillGo(e.pod)

OrderInv ==
  \A e, f \in OurEvent : Ahead(e, f) /\ e.pod.key = f.pod.key =>
    /\ Later(f.pod, e.pod)
    /\ Deleted(e) => e.pod.uid # f.pod.uid

HeldInv ==
  \A k \in PodKey : pods[k] # NoPod =>
    /\ collectContainerStats
    /\ BehindStore(pods[k]) /\ WillGo(pods[k])
    /\ \A e \in OurEvent : Coming(e) /\ e.pod.key = k => Later(e.pod, pods[k])

\* The newest state of a pod is in the collector or on its way to it.
ArrivesInv ==
  \A k \in PodKey : collectContainerStats /\ store[k] # NoPod /\ store[k].uid \in Ours =>
    \/ pods[k] = store[k]
    \/ \E e \in OurEvent : Coming(e) /\ ~Deleted(e) /\ e.pod = store[k]

\* The restart counters are those of the pods in the collector.
CountersInv ==
  \A s \in StateKey : restartCounters[s] > 0 =>
    \E k \in PodKey : /\ pods[k] # NoPod /\ pods[k].uid = s[1] /\ pods[k].owner # NoOwner
                    /\ s[2] \in DOMAIN pods[k].status
                    /\ restartCounters[s] = pods[k].status[s[2]].restarts

\* Of the pods in the collector, the last restart of every container has been counted.
SeriesInv ==
  \A k \in PodKey : pods[k] # NoPod /\ pods[k].owner # NoOwner =>
    \A c \in DOMAIN pods[k].status : pods[k].status[c].last > 0 =>
      LET s == pods[k].status[c]
      IN /\ restartCounters[<<pods[k].uid, c>>] = s.restarts
         /\ s.last <= s.restarts /\ s.ran =>
              Counted(pods[k].uid, c, s) \in DOMAIN cpu[<<pods[k].owner, c>>]

-----------------------------------------------------------------------------
(* The pipeline.                                                           *)

LEMMA Shape ==
  ASSUME PipeInv
  PROVE  /\ \A e : Coming(e) => e \in OurEvent
         /\ \A e, f : Ahead(e, f) => Coming(e) /\ Coming(f)
  BY DEF PipeInv, Coming, Ahead, InHand, InQueue, InPending, OurEvent

LEMMA AfterNotify ==
  ASSUME PipeInv, NEW x \in Event, pending' = Append(pending, x), UNCHANGED <<queue, hand>>
  PROVE  /\ \A e : Coming(e)' <=> (Coming(e) \/ (e = x /\ x.pod.uid \in Ours))
         /\ \A e, f : Ahead(e, f)' => Ahead(e, f) \/ (f = x /\ x.pod.uid \in Ours /\ Coming(e))
<1>1. /\ pending \in Seq(Event) /\ Len(pending') = Len(pending) + 1
      /\ \A i \in 1..Len(pending') : pending'[i] = IF i <= Len(pending) THEN pending[i] ELSE x
  BY DEF PipeInv
<1>2. \A e : InPending(e)' <=> (InPending(e) \/ (e = x /\ x.pod.uid \in Ours))
  BY <1>1 DEF InPending
<1>3. \A e : (InHand(e)' <=> InHand(e)) /\ (InQueue(e)' <=> InQueue(e))
  BY DEF InHand, InQueue
<1>4. \A e : Coming(e)' <=> (Coming(e) \/ (e = x /\ x.pod.uid \in Ours))
  BY <1>2, <1>3 DEF Coming
<1>5. ASSUME NEW e, NEW f, Ahead(e, f)'
      PROVE  Ahead(e, f) \/ (f = x /\ x.pod.uid \in Ours /\ Coming(e))
  <2>1. CASE (InHand(e) /\ (InQueue(f) \/ InPending(f)))' \/ (InQueue(e) /\ InPending(f))'
    BY <1>2, <1>3, <2>1 DEF Ahead, Coming
  <2>2. CASE \E i, j \in 1..Len(queue) : i < j /\ queue[i] = e /\ queue[j] = f
    BY <2>2 DEF Ahead
  <2>3. CASE /\ e.pod.uid \in Ours /\ f.pod.uid \in Ours
             /\ \E i, j \in 1..Len(pending') : i < j /\ pending'[i] = e /\ pending'[j] = f
    <3>1. PICK i, j \in 1..Len(pending') : i < j /\ pending'[i] = e /\ pending'[j] = f
      BY <2>3
    <3>2. i \in 1..Len(pending) /\ pending[i] = e
      BY <1>1, <3>1
    <3>3. (j \in 1..Len(pending) /\ pending[j] = f) \/ f = x
      BY <1>1, <3>1
    <3>4. QED  BY <2>3, <3>1, <3>2, <3>3 DEF Ahead, Coming, InPending
  <2>4. QED  BY <1>5, <2>1, <2>2, <2>3 DEF Ahead
<1>6. QED  BY <1>4, <1>5

\* The handlers and the queue pass the events of our pods on, in order.
LEMMA AfterHandle ==
  ASSUME PipeInv, Handle
  PROVE  /\ \A e : Coming(e)' <=> Coming(e)
         /\ \A e, f : Ahead(e, f)' => Ahead(e, f)
<1> DEFINE x == Head(pending)
<1>1. /\ pending \in Seq(Event) /\ pending # <<>> /\ x = pending[1]
      /\ pending' = Tail(pending) /\ hand' = hand
      /\ queue' = IF x.pod.uid \in Ours THEN Append(queue, x) ELSE queue
  BY DEF PipeInv, Handle
<1>2. /\ Len(pending) \in Nat /\ Len(pending) > 0 /\ Len(pending') = Len(pending) - 1
      /\ \A i \in 1..Len(pending') : pending'[i] = pending[i + 1]
  BY <1>1
<1> HIDE DEF x
<1>3. queue \in Seq(OurEvent)
  BY DEF PipeInv
<1>4. x.pod.uid \in Ours =>
        /\ Len(queue') = Len(queue) + 1
        /\ \A i \in 1..Len(queue') : queue'[i] = IF i <= Len(queue) THEN queue[i] ELSE x
  BY <1>1, <1>3
<1>5. x.pod.uid \notin Ours => queue' = queue
  BY <1>1
<1>6. \A e : InHand(e)' <=> InHand(e)
  BY <1>1 DEF InHand
<1>7. \A e : InQueue(e)' <=> (InQueue(e) \/ (e = x /\ x.pod.uid \in Ours))
  BY <1>3, <1>4, <1>5 DEF InQueue
<1>8. \A e : InPending(e) <=> (InPending(e)' \/ (e = x /\ x.pod.uid \in Ours))
  <2> SUFFICES ASSUME NEW e PROVE InPending(e) <=> (InPending(e)' \/ (e = x /\ x.pod.uid \in Ours))
    OBVIOUS
  <2>1. ASSUME InPending(e) PROVE InPending(e)' \/ (e = x /\ x.pod.uid \in Ours)
    <3>1. PICK i \in 1..Len(pending) : pending[i] = e
      BY <2>1 DEF InPending
    <3>2. CASE i = 1
      BY <1>1, <2>1, <3>1, <3>2 DEF InPending
    <3>3. CASE i > 1
      <4>1. i - 1 \in 1..Len(pending') /\ pending'[i - 1] = e
        BY <1>2, <3>1, <3>3
      <4>2. QED  BY <2>1, <4>1 DEF InPending
    <3>4. QED  BY <3>2, <3>3
  <2>2. ASSUME InPending(e)' PROVE InPending(e)
    <3>1. PICK i \in 1..Len(pending') : pending'[i] = e
      BY <2>2 DEF InPending
    <3>2. i + 1 \in 1..Len(pending) /\ pending[i + 1] = e
      BY <1>2, <3>1
    <3>3. QED  BY <2>2, <3>2 DEF InPending
  <2>3. ASSUME e = x, x.pod.uid \in Ours PROVE InPending(e)
    BY <1>1, <1>2, <2>3 DEF InPending
  <2>4. QED  BY <2>1, <2>2, <2>3
<1>9. \A e : Coming(e)' <=> Coming(e)
  BY <1>6, <1>7, <1>8 DEF Coming
<1>10. ASSUME NEW e, NEW f, Ahead(e, f)' PROVE Ahead(e, f)
  <2>1. CASE (InHand(e) /\ (InQueue(f) \/ InPending(f)))'
    BY <1>6, <1>7, <1>8, <2>1 DEF Ahead
  <2>2. CASE \E i, j \in 1..Len(queue') : i < j /\ queue'[i] = e /\ queue'[j] = f
    <3>1. PICK i, j \in 1..Len(queue') : i < j /\ queue'[i] = e /\ queue'[j] = f
      BY <2>2
    <3>2. CASE x.pod.uid \in Ours
      <4>1. i \in 1..Len(queue) /\ queue[i] = e
        BY <1>3, <1>4, <3>1, <3>2
      <4>2. (j \in 1..Len(queue) /\ queue[j] = f) \/ f = x
        BY <1>3, <1>4, <3>1, <3>2
      <4>3. InPending(x)
        BY <1>8, <3>2
      <4>4. QED  BY <3>1, <4>1, <4>2, <4>3 DEF Ahead, InQueue
    <3>3. CASE x.pod.uid \notin Ours
      BY <1>5, <3>1, <3>3 DEF Ahead
    <3>4. QED  BY <3>2, <3>3
  <2>3. CASE (InQueue(e) /\ InPending(f))'
    <3>1. CASE InQueue(e)
      BY <1>8, <2>3, <3>1 DEF Ahead
    <3>2. CASE e = x /\ x.pod.uid \in Ours
      <4>1. PICK j \in 1..Len(pending') : pending'[j] = f
        BY <2>3 DEF InPending
      <4>2. j + 1 \in 1..Len(pending) /\ pending[j + 1] = f /\ 1 \in 1..Len(pending) /\ 1 < j + 1
        BY <1>2, <4>1
      <4>3. f.pod.uid \in Ours
        BY <2>3 DEF InPending
      <4>4. QED  BY <1>1, <3>2, <4>2, <4>3 DEF Ahead
    <3>3. QED  BY <1>7, <2>3, <3>1, <3>2
  <2>4. CASE /\ e.pod.uid \in Ours /\ f.pod.uid \in Ours
             /\ \E i, j \in 1..Len(pending') : i < j /\ pending'[i] = e /\ pending'[j] = f
    <3>1. PICK i, j \in 1..Len(pending') : i < j /\ pending'[i] = e /\ pending'[j] = f
      BY <2>4
    <3>2. /\ i + 1 \in 1..Len(pending) /\ pending[i + 1] = e
          /\ j + 1 \in 1..Len(pending) /\ pending[j + 1] = f /\ i + 1 < j + 1
      BY <1>2, <3>1
    <3>3. QED  BY <2>4, <3>2 DEF Ahead
  <2>5. QED  BY <1>10, <2>1, <2>2, <2>3, <2>4 DEF Ahead
<1>11. QED  BY <1>9, <1>10

LEMMA AfterGet ==
  ASSUME InOrder, PipeInv, NEW w \in Worker, Get(w)
  PROVE  /\ \A e : Coming(e)' <=> Coming(e)
         /\ \A e, f : Ahead(e, f)' => Ahead(e, f)
<1> DEFINE x == Head(queue)
<1>1. /\ queue \in Seq(OurEvent) /\ queue # <<>> /\ x = queue[1]
      /\ queue' = Tail(queue) /\ pending' = pending
      /\ hand' = [hand EXCEPT ![w] = x]
  BY DEF PipeInv, Get
<1>2. /\ Len(queue) \in Nat /\ Len(queue) > 0 /\ Len(queue') = Len(queue) - 1
      /\ \A i \in 1..Len(queue') : queue'[i] = queue[i + 1]
  BY <1>1
<1>3. x \in OurEvent
  BY <1>1
<1> HIDE DEF x
<1>4. x # NoEvent
  BY <1>3, PodInformerAssumption DEF OurEvent, Event
<1>5. /\ \A e : ~InHand(e)
      /\ \A e : InHand(e)' <=> e = x
  BY <1>1, <1>4 DEF InHand, InOrder, Get, PipeInv
<1>6. \A e : InPending(e)' <=> InPending(e)
  BY <1>1 DEF InPending
<1>7. \A e : InQueue(e) <=> (InQueue(e)' \/ e = x)
  <2> SUFFICES ASSUME NEW e PROVE InQueue(e) <=> (InQueue(e)' \/ e = x)
    OBVIOUS
  <2>1. ASSUME InQueue(e) PROVE InQueue(e)' \/ e = x
    <3>1. PICK i \in 1..Len(queue) : queue[i] = e
      BY <2>1 DEF InQueue
    <3>2. CASE i = 1
      BY <1>1, <3>1, <3>2
    <3>3. CASE i > 1
      <4>1. i - 1 \in 1..Len(queue') /\ queue'[i - 1] = e
        BY <1>2, <3>1, <3>3
      <4>2. QED  BY <4>1 DEF InQueue
    <3>4. QED  BY <3>2, <3>3
  <2>2. ASSUME InQueue(e)' PROVE InQueue(e)
    <3>1. PICK i \in 1..Len(queue') : queue'[i] = e
      BY <2>2 DEF InQueue
    <3>2. i + 1 \in 1..Len(queue) /\ queue[i + 1] = e
      BY <1>2, <3>1
    <3>3. QED  BY <3>2 DEF InQueue
  <2>3. InQueue(x)
    BY <1>1, <1>2 DEF InQueue
  <2>4. QED  BY <2>1, <2>2, <2>3
<1>8. \A e : Coming(e)' <=> Coming(e)
  BY <1>5, <1>6, <1>7 DEF Coming
<1>9. ASSUME NEW e, NEW f, Ahead(e, f)' PROVE Ahead(e, f)
  <2>1. CASE (InHand(e) /\ InQueue(f))'
    <3>1. e = x
      BY <1>5, <2>1
    <3>2. PICK j \in 1..Len(queue') : queue'[j] = f
      BY <2>1 DEF InQueue
    <3>3. j + 1 \in 1..Len(queue) /\ queue[j + 1] = f /\ 1 \in 1..Len(queue) /\ 1 < j + 1
      BY <1>2, <3>2
    <3>4. QED  BY <1>1, <3>1, <3>3 DEF Ahead
  <2>2. CASE (InHand(e) /\ InPending(f))'
    BY <1>5, <1>6, <1>7, <2>2 DEF Ahead
  <2>3. CASE \E i, j \in 1..Len(queue') : i < j /\ queue'[i] = e /\ queue'[j] = f
    <3>1. PICK i, j \in 1..Len(queue') : i < j /\ queue'[i] = e /\ queue'[j] = f
      BY <2>3
    <3>2. /\ i + 1 \in 1..Len(queue) /\ queue[i + 1] = e
          /\ j + 1 \in 1..Len(queue) /\ queue[j + 1] = f /\ i + 1 < j + 1
      BY <1>2, <3>1
    <3>3. QED  BY <3>2 DEF Ahead
  <2>4. CASE (InQueue(e) /\ InPending(f))'
    BY <1>6, <1>7, <2>4 DEF Ahead
  <2>5. CASE /\ e.pod.uid \in Ours /\ f.pod.uid \in Ours
             /\ \E i, j \in 1..Len(pending) : i < j /\ pending[i] = e /\ pending[j] = f
    BY <2>5 DEF Ahead
  <2>6. QED  BY <1>1, <1>9, <2>1, <2>2, <2>3, <2>4, <2>5 DEF Ahead
<1>10. QED  BY <1>8, <1>9

\* The event applied was ahead of all others.
LEMMA AfterApply ==
  ASSUME InOrder, PipeInv, NEW w \in Worker, Apply(w)
  PROVE  /\ hand[w] \in OurEvent /\ Coming(hand[w])
         /\ \A f : Coming(f)' => Coming(f) /\ Ahead(hand[w], f)
         /\ \A f : Coming(f) /\ f # hand[w] => Coming(f)' /\ Ahead(hand[w], f)
         /\ \A e, f : Ahead(e, f)' => Ahead(e, f)
<1>1. hand[w] # NoEvent /\ hand[w] \in OurEvent /\ InHand(hand[w])
  BY DEF Apply, PipeInv, InHand
<1>2. /\ \A e : ~InHand(e)'
      /\ \A e : InHand(e) => e = hand[w]
  BY DEF InOrder, Apply, InHand, PipeInv
<1>3. \A e : (InQueue(e)' <=> InQueue(e)) /\ (InPending(e)' <=> InPending(e))
  BY DEF Apply, InQueue, InPending
<1>4. \A f : InQueue(f) \/ InPending(f) => Ahead(hand[w], f)
  BY <1>1 DEF Ahead
<1>5. \A e, f : Ahead(e, f)' => Ahead(e, f)
  BY <1>2, <1>3 DEF Ahead, Apply
<1>6. QED  BY <1>1, <1>2, <1>3, <1>4, <1>5 DEF Coming

-----------------------------------------------------------------------------
(* Pods of a name, one after the other.                                    *)

LEMMA NthOfKnown ==
  ASSUME NEW p, p.key \in PodKey, NEW i \in 1..Len(UidsOf[p.key]), p.uid = UidsOf[p.key][i]
  PROVE  Nth(p) = i
<1>1. \A j \in 1..Len(UidsOf[p.key]) : UidsOf[p.key][j] = p.uid => j = i
  BY PodInformerAssumption
<1>2. QED  BY <1>1 DEF Nth

\* A place tells the uid, and no pod's is beyond the number of names used.
LEMMA KnownPlaces ==
  ASSUME ClusterInv, NEW p, Known(p)
  PROVE  /\ p.key \in PodKey /\ Nth(p) \in Nat /\ Nth(p) <= used[p.key]
         /\ Nth(p) \in 1..Len(UidsOf[p.key]) /\ p.uid = UidsOf[p.key][Nth(p)]
<1>1. p.key \in PodKey /\ used[p.key] \in Nat
  BY DEF Known, Pod, PodType, ClusterInv
<1>2. PICK i \in 1..used[p.key] : i <= Len(UidsOf[p.key]) /\ p.uid = UidsOf[p.key][i]
  BY DEF Known
<1>3. Len(UidsOf[p.key]) \in Nat
  BY <1>1, PodInformerAssumption
<1>4. i \in 1..Len(UidsOf[p.key])
  BY <1>1, <1>2, <1>3
<1>5. Nth(p) = i
  BY <1>1, <1>2, <1>4, NthOfKnown
<1>6. QED  BY <1>1, <1>2, <1>4, <1>5

LEMMA SamePlace ==
  ASSUME ClusterInv, NEW p, Known(p), NEW q, Known(q), p.key = q.key
  PROVE  Nth(p) = Nth(q) <=> p.uid = q.uid
  BY KnownPlaces DEF Nth

\* A uid is of one name.
LEMMA SameKey ==
  ASSUME ClusterInv, NEW p, Known(p), NEW q, Known(q), p.uid = q.uid
  PROVE  p.key = q.key
  BY KnownPlaces, PodInformerAssumption

LEMMA StoreIsLast ==
  ASSUME ClusterInv, StoreInv, NEW k \in PodKey, store[k] # NoPod
  PROVE  Known(store[k]) /\ store[k].key = k /\ Nth(store[k]) = used[k]
<1>1. /\ Known(store[k]) /\ store[k].key = k
      /\ used[k] \in 1..Len(UidsOf[k]) /\ store[k].uid = UidsOf[k][used[k]]
  BY DEF StoreInv, ClusterInv
<1>2. QED  BY <1>1, NthOfKnown

LEMMA FollowsItself ==
  ASSUME NEW p \in Pod
  PROVE  Follows(p, p)
<1>1. \A c \in DOMAIN p.status : p.status[c].restarts \in Nat /\ p.status[c].last \in Nat
  BY StatusOfPod
<1>2. QED  BY <1>1 DEF Follows, Succeeds

LEMMA FollowsTransitive ==
  ASSUME NEW p \in Pod, NEW q \in Pod, NEW r \in Pod, q.uid = p.uid \/ q.uid = r.uid,
         Follows(q, p), Follows(r, q)
  PROVE  Follows(r, p)
<1> SUFFICES ASSUME r.uid = p.uid, NEW c \in DOMAIN p.status
             PROVE  c \in DOMAIN r.status /\ Succeeds(r.status[c], p.status[c])
  BY DEF Follows
<1>1. c \in DOMAIN q.status /\ Succeeds(q.status[c], p.status[c])
  BY DEF Follows
<1>2. c \in DOMAIN r.status /\ Succeeds(r.status[c], q.status[c])
  BY <1>1 DEF Follows
<1>3. \A t \in {p, q, r} : t.status[c].restarts \in Nat /\ t.status[c].last \in Nat
  BY <1>1, <1>2, StatusOfPod
<1>4. QED  BY <1>1, <1>2, <1>3 DEF Succeeds

\* Two states of a pod that follow each other are the same.
LEMMA FollowsBack ==
  ASSUME NEW p \in Pod, NEW q \in Pod, p.key = q.key, p.uid = q.uid, Follows(q, p), Follows(p, q)
  PROVE  p = q
<1>1. DOMAIN p.status = DOMAIN q.status
  BY DEF Follows
<1>2. ASSUME NEW c \in DOMAIN p.status PROVE p.status[c] = q.status[c]
  <2>1. c \in DOMAIN q.status
    BY <1>1
  <2>2. \A t \in {p, q} :
          /\ t.status[c] = [restarts |-> t.status[c].restarts, last |-> t.status[c].last,
                            ran |-> t.status[c].ran]
          /\ t.status[c].restarts \in Nat /\ t.status[c].last \in Nat
    BY <2>1, StatusOfPod
  <2>3. /\ p.status[c].restarts = q.status[c].restarts /\ p.status[c].last = q.status[c].last
        /\ p.status[c].ran = q.status[c].ran
    BY <2>1, <2>2 DEF Follows, Succeeds
  <2>4. QED  BY <2>2, <2>3
<1>3. p.status = q.status
  BY <1>1, <1>2 DEF Pod, PodType
<1>4. p.owner = q.owner
  BY DEF Pod
<1>5. QED  BY <1>3, <1>4 DEF Pod, PodType

\* What the collector holds is ours.
LEMMA HeldIsOurs ==
  ASSUME PodInv, NEW k \in PodKey, pods[k] # NoPod
  PROVE  pods[k] \in Pod /\ pods[k].key = k /\ pods[k].uid \in Ours
  BY DEF PodInv, CollectorInv, OurPod

\* What is behind the store is behind a pod that is in the store.
LEMMA BehindPlace ==
  ASSUME ClusterInv, StoreInv, NEW p, BehindStore(p), store[p.key] # NoPod
  PROVE  Later(store[p.key], p)
  BY KnownPlaces, StoreIsLast DEF BehindStore, Later

-----------------------------------------------------------------------------
(* Steps of the cluster and of the pipeline.                               *)

Ordered == StoreInv /\ EventsInv /\ OrderInv /\ HeldInv /\ ArrivesInv

\* n follows what was in the store under the name k.
Advances(k, n) ==
  \A p : BehindStore(p) /\ p.key = k => Follows(n, p) /\ (Stored(p) <=> p.uid = n.uid)

\* Names are used up, and no pod that is known becomes unknown.
LEMMA KnownStays ==
  ASSUME ClusterInv, ClusterInv', \A k \in PodKey : used[k] <= used'[k], NEW p, Known(p)
  PROVE  Known(p)'
<1>1. p.key \in PodKey /\ used[p.key] \in Nat /\ used'[p.key] \in Nat /\ used[p.key] <= used'[p.key]
  BY DEF Known, Pod, PodType, ClusterInv
<1>2. PICK i \in 1..used[p.key] : i <= Len(UidsOf[p.key]) /\ p.uid = UidsOf[p.key][i]
  BY DEF Known
<1>3. i \in 1..used'[p.key]
  BY <1>1, <1>2
<1>4. QED  BY <1>2, <1>3 DEF Known

LEMMA NotifiedKeeps ==
  ASSUME PodInv, PodInv', Ordered,
         NEW k \in PodKey, NEW x \in Event, ~Deleted(x), x.pod.key = k,
         store' = [store EXCEPT ![k] = x.pod], pending' = Append(pending, x),
         UNCHANGED <<queue, hand, collectorVars>>,
         \A l \in PodKey : used[l] <= used'[l] /\ (l # k => used'[l] = used[l]),
         used'[k] \in 1..Len(UidsOf[k]), x.pod.uid = UidsOf[k][used'[k]],
         Advances(k, x.pod)
  PROVE  Ordered'
<1> DEFINE n == x.pod
<1>1. /\ n \in Pod /\ n # NoPod /\ store'[k] = n
      /\ \A l \in PodKey : l # k => store'[l] = store[l]
  BY PodInformerAssumption DEF Event, Pod, PodInv, ClusterInv
<1>2. ClusterInv /\ ClusterInv' /\ PipeInv
  BY DEF PodInv
<1>3. \A p : Known(p) => Known(p)'
  BY <1>2, KnownStays
<1>4. Known(n)'
  BY <1>1 DEF Known
<1>5. Nth(n) = used'[k]
  BY <1>1, NthOfKnown
<1>6. /\ \A e : Coming(e)' <=> (Coming(e) \/ (e = x /\ n.uid \in Ours))
      /\ \A e, f : Ahead(e, f)' => Ahead(e, f) \/ (f = x /\ n.uid \in Ours /\ Coming(e))
  BY <1>2, AfterNotify
<1>7. ASSUME NEW p, BehindStore(p)
      PROVE  /\ BehindStore(p)'
             /\ ~Stored(p) => ~Stored(p)'
             /\ WillGo(p) => WillGo(p)'
  <2>1. p.key \in PodKey /\ Known(p)'
    BY <1>3, <1>7 DEF BehindStore, Known, Pod, PodType
  <2>2. CASE p.key = k
    <3>1. Follows(n, p) /\ (Stored(p) <=> p.uid = n.uid)
      BY <1>7, <2>2 DEF Advances
    <3>2. Stored(p)' <=> p.uid = n.uid
      BY <1>1, <2>2 DEF Stored
    <3>3. BehindStore(p)'
      BY <1>1, <2>1, <2>2, <3>1 DEF BehindStore
    <3>4. QED  BY <1>6, <3>1, <3>2, <3>3 DEF WillGo
  <2>3. CASE p.key # k
    <3>1. Stored(p)' <=> Stored(p)
      BY <1>1, <2>1, <2>3 DEF Stored
    <3>2. BehindStore(p)'
      BY <1>1, <1>7, <2>1, <2>3 DEF BehindStore
    <3>3. QED  BY <1>6, <3>1, <3>2 DEF WillGo
  <2>4. QED  BY <2>2, <2>3
<1>8. BehindStore(n)' /\ Stored(n)' /\ WillGo(n)'
  BY <1>1, <1>4, FollowsItself DEF BehindStore, Stored, WillGo
<1>9. ASSUME NEW p, BehindStore(p), p.key = k PROVE Later(n, p)
  <2>1. Nth(p) \in Nat /\ Nth(p) <= used[k] /\ used[k] \in Nat /\ used'[k] \in Nat
    BY <1>2, <1>9, KnownPlaces DEF BehindStore, ClusterInv
  <2>2. QED  BY <1>5, <1>9, <2>1 DEF Later, Advances
<1>10. StoreInv'
  BY <1>1, <1>3, <1>4 DEF StoreInv, Ordered
<1>11. EventsInv'
  BY <1>6, <1>7, <1>8 DEF EventsInv, Ordered
<1>12. OrderInv'
  <2>1. ASSUME NEW e \in OurEvent, Coming(e), e.pod.key = k
        PROVE  Later(n, e.pod) /\ (Deleted(e) => e.pod.uid # n.uid)
    <3>1. BehindStore(e.pod) /\ (Deleted(e) => ~Stored(e.pod))
      BY <2>1 DEF Ordered, EventsInv
    <3>2. QED  BY <1>9, <2>1, <3>1 DEF Advances
  <2>2. QED  BY <1>6, <2>1 DEF OrderInv, Ordered
<1>13. HeldInv'
  <2>1. pods' = pods /\ collectContainerStats' = collectContainerStats
    BY DEF collectorVars
  <2>2. ASSUME NEW l \in PodKey, pods[l] # NoPod
        PROVE  /\ collectContainerStats /\ BehindStore(pods[l])' /\ WillGo(pods[l])'
               /\ \A e \in OurEvent : Coming(e)' /\ e.pod.key = l => Later(e.pod, pods[l])
    <3>1. /\ collectContainerStats /\ BehindStore(pods[l]) /\ WillGo(pods[l])
          /\ \A e \in OurEvent : Coming(e) /\ e.pod.key = l => Later(e.pod, pods[l])
      BY <2>2 DEF Ordered, HeldInv
    <3>2. pods[l].key = l
      BY <2>2, PodInformerAssumption DEF PodInv, CollectorInv
    <3>3. l = k => Later(n, pods[l])
      BY <1>9, <3>1, <3>2
    <3>4. BehindStore(pods[l])' /\ WillGo(pods[l])'
      BY <1>7, <2>1, <3>1 DEF BehindStore, WillGo, Known, Stored
    <3>5. QED  BY <1>6, <3>1, <3>3, <3>4
  <2>3. QED  BY <2>1, <2>2 DEF HeldInv
<1>14. ArrivesInv'
  <2>1. pods' = pods /\ collectContainerStats' = collectContainerStats
    BY DEF collectorVars
  <2>2. n.uid \in Ours => x \in OurEvent
    BY DEF OurEvent
  <2>3. ASSUME NEW l \in PodKey, collectContainerStats, store'[l] # NoPod, store'[l].uid \in Ours
        PROVE  \/ pods[l] = store'[l]
               \/ \E e \in OurEvent : Coming(e)' /\ ~Deleted(e) /\ e.pod = store'[l]
    <3>1. CASE l = k
      BY <1>1, <1>6, <2>2, <2>3, <3>1
    <3>2. CASE l # k
      <4>1. store'[l] = store[l]
        BY <1>1, <3>2, PodInformerAssumption
      <4>2. QED  BY <1>6, <2>3, <4>1 DEF ArrivesInv, Ordered
    <3>3. QED  BY <3>1, <3>2
  <2>4. QED  BY <2>1, <2>3 DEF ArrivesInv
<1>15. QED  BY <1>10, <1>11, <1>12, <1>13, <1>14 DEF Ordered

LEMMA RemovedKeeps ==
  ASSUME PodInv, PodInv', Ordered, NEW k \in PodKey, Remove(k)
  PROVE  Ordered'
<1>0. PICK p0 : p0 = store[k]
  OBVIOUS
<1> DEFINE x == [eventType |-> "delete", pod |-> p0]
<1>1. /\ p0 # NoPod /\ store'[k] = NoPod /\ pending' = Append(pending, x)
      /\ \A l \in PodKey : l # k => store'[l] = store[l]
      /\ UNCHANGED <<used, queue, hand, pods, collectContainerStats>>
  BY <1>0 DEF Remove, Notify, PodInv, ClusterInv, collectorVars
<1>2. ClusterInv /\ ClusterInv' /\ PipeInv /\ StoreInv
  BY DEF PodInv, Ordered
<1>3. Known(p0) /\ p0.key = k /\ p0 \in Pod
  BY <1>0, <1>1, <1>2, StoreIsLast DEF Known
<1>4. x \in Event /\ x.pod = p0 /\ Deleted(x)
  BY <1>3 DEF Event, EventType, Pod, Deleted
<1> HIDE DEF x
<1>5. /\ \A e : Coming(e)' <=> (Coming(e) \/ (e = x /\ p0.uid \in Ours))
      /\ \A e, f : Ahead(e, f)' => Ahead(e, f) \/ (f = x /\ p0.uid \in Ours /\ Coming(e))
  BY <1>1, <1>2, <1>3, <1>4, AfterNotify
<1>6. \A p : Known(p) => Known(p)'
  BY <1>1 DEF Known
<1>7. \A p : p.key = k => ~Stored(p)'
  BY <1>1 DEF Stored
<1>8. ASSUME NEW p, BehindStore(p)
      PROVE  /\ BehindStore(p)'
             /\ ~Stored(p) => ~Stored(p)'
             /\ p.uid \in Ours /\ WillGo(p) => WillGo(p)'
  <2>1. p.key \in PodKey /\ Known(p)'
    BY <1>6, <1>8 DEF BehindStore, Known, Pod, PodType
  <2>2. CASE p.key = k
    <3>1. BehindStore(p)'
      BY <1>1, <2>1, <2>2 DEF BehindStore
    <3>2. p.uid \in Ours /\ Stored(p) => WillGo(p)'
      BY <1>0, <1>3, <1>4, <1>5, <2>2 DEF Stored, WillGo
    <3>3. QED  BY <1>5, <1>7, <2>2, <3>1, <3>2 DEF WillGo
  <2>3. CASE p.key # k
    <3>1. Stored(p)' <=> Stored(p)
      BY <1>1, <2>1, <2>3 DEF Stored
    <3>2. BehindStore(p)'
      BY <1>1, <1>8, <2>1, <2>3 DEF BehindStore
    <3>3. QED  BY <1>5, <3>1, <3>2 DEF WillGo
  <2>4. QED  BY <2>2, <2>3
<1>9. BehindStore(p0)'
  BY <1>1, <1>3, <1>6 DEF BehindStore
<1>10. ASSUME NEW p, BehindStore(p), p.key = k PROVE Later(p0, p)
  BY <1>0, <1>1, <1>2, <1>10, BehindPlace
<1>11. StoreInv'
  BY <1>1, <1>2, <1>6 DEF StoreInv
<1>12. EventsInv'
  <2>1. ASSUME NEW e \in OurEvent, Coming(e)
        PROVE  /\ BehindStore(e.pod)'
               /\ Deleted(e) => ~Stored(e.pod)'
               /\ ~Deleted(e) => WillGo(e.pod)'
    <3>1. e.pod.uid \in Ours
      BY DEF OurEvent
    <3>2. QED  BY <1>8, <2>1, <3>1 DEF Ordered, EventsInv
  <2>2. QED  BY <1>3, <1>4, <1>5, <1>7, <1>9, <2>1 DEF EventsInv
<1>13. OrderInv'
  <2>1. ASSUME NEW e \in OurEvent, Coming(e), e.pod.key = k
        PROVE  Later(p0, e.pod) /\ (Deleted(e) => e.pod.uid # p0.uid)
    <3>1. BehindStore(e.pod) /\ (Deleted(e) => ~Stored(e.pod))
      BY <2>1 DEF Ordered, EventsInv
    <3>2. QED  BY <1>0, <1>1, <1>10, <2>1, <3>1 DEF Stored
  <2>2. QED  BY <1>3, <1>4, <1>5, <2>1 DEF OrderInv, Ordered
<1>14. HeldInv'
  <2>1. ASSUME NEW l \in PodKey, pods[l] # NoPod
        PROVE  /\ collectContainerStats /\ BehindStore(pods[l])' /\ WillGo(pods[l])'
               /\ \A e \in OurEvent : Coming(e)' /\ e.pod.key = l => Later(e.pod, pods[l])
    <3>0. PICK p : p = pods[l]
      OBVIOUS
    <3>1. /\ collectContainerStats /\ BehindStore(p) /\ WillGo(p)
          /\ \A e \in OurEvent : Coming(e) /\ e.pod.key = l => Later(e.pod, p)
      BY <2>1, <3>0 DEF Ordered, HeldInv
    <3>2. p.key = l /\ p.uid \in Ours
      BY <2>1, <3>0, HeldIsOurs
    <3>3. BehindStore(p)' /\ WillGo(p)'
      BY <1>8, <3>1, <3>2
    <3>4. \A e \in OurEvent : Coming(e)' /\ e.pod.key = l => Later(e.pod, p)
      <4>1. l = k => Later(p0, p)
        BY <1>10, <3>1, <3>2
      <4>2. QED  BY <1>3, <1>4, <1>5, <3>1, <4>1
    <3>5. p = pods'[l]
      BY <1>1, <3>0
    <3>6. QED  BY <3>0, <3>1, <3>3, <3>4, <3>5
  <2>2. QED  BY <1>1, <2>1 DEF HeldInv
<1>15. ArrivesInv'
  BY <1>1, <1>5, PodInformerAssumption DEF ArrivesInv, Ordered
<1>16. QED  BY <1>11, <1>12, <1>13, <1>14, <1>15 DEF Ordered

\* The pipeline alone moves.
LEMMA MovedKeeps ==
  ASSUME Ordered, UNCHANGED <<collectorVars, clusterVars>>,
         \A e : Coming(e)' <=> Coming(e), \A e, f : Ahead(e, f)' => Ahead(e, f)
  PROVE  Ordered'
<1>1. UNCHANGED <<collectContainerStats, pods, store, used>>
  BY DEF collectorVars, clusterVars
<1>2. \A p : /\ Known(p)' <=> Known(p)
             /\ Stored(p)' <=> Stored(p)
             /\ BehindStore(p)' <=> BehindStore(p)
             /\ WillGo(p)' <=> WillGo(p)
  BY <1>1 DEF Known, Stored, BehindStore, WillGo
<1>3. StoreInv' /\ ArrivesInv'
  BY <1>1, <1>2 DEF Ordered, StoreInv, ArrivesInv
<1>4. EventsInv'
  BY <1>2 DEF Ordered, EventsInv
<1>5. OrderInv'
  BY DEF Ordered, OrderInv
<1>6. HeldInv'
  <2>1. ASSUME NEW l \in PodKey, pods[l] # NoPod
        PROVE  BehindStore(pods[l])' /\ WillGo(pods[l])'
    BY <1>1, <2>1 DEF Ordered, HeldInv, BehindStore, WillGo, Known, Stored
  <2>2. QED  BY <1>1, <2>1 DEF Ordered, HeldInv
<1>7. QED  BY <1>3, <1>4, <1>5, <1>6 DEF Ordered

LEMMA CreatedKeeps ==
  ASSUME InOrder, PodInv, PodInv', Ordered, NEW k \in PodKey, Create(k)
  PROVE  Ordered'
<1>0. PICK S \in SUBSET Container : \E status \in [S -> Status] :
        /\ store' = [store EXCEPT ![k] = NewPod(k, status)]
        /\ Notify(IF store[k] = NoPod THEN "add" ELSE "update", NewPod(k, status))
  BY DEF Create
<1>1. PICK status \in [S -> Status] :
        /\ store' = [store EXCEPT ![k] = NewPod(k, status)]
        /\ Notify(IF store[k] = NoPod THEN "add" ELSE "update", NewPod(k, status))
  BY <1>0
<1>2. PICK n : n = NewPod(k, status)
  OBVIOUS
<1> DEFINE x == [eventType |-> "add", pod |-> n]
<1>3. /\ store[k] = NoPod /\ store' = [store EXCEPT ![k] = n] /\ pending' = Append(pending, x)
      /\ used[k] < Len(UidsOf[k]) /\ used' = [used EXCEPT ![k] = @ + 1]
      /\ UNCHANGED <<queue, hand, collectorVars>>
  BY <1>1, <1>2, PodInformerAssumption DEF InOrder, Create, Notify
<1>4. ClusterInv /\ used \in [PodKey -> Nat] /\ Len(UidsOf[k]) \in Nat
  BY PodInformerAssumption DEF PodInv, ClusterInv
<1>5. /\ used'[k] = used[k] + 1 /\ used'[k] \in 1..Len(UidsOf[k])
      /\ \A l \in PodKey : used[l] <= used'[l] /\ (l # k => used'[l] = used[l])
  BY <1>3, <1>4
<1>6. n \in Pod /\ n.key = k /\ n.uid = UidsOf[k][used'[k]]
  BY <1>2, <1>3, <1>4, <1>5, NewPodIsPod DEF NewPod
<1>7. Advances(k, n)
  <2>1. ASSUME NEW p, BehindStore(p), p.key = k PROVE ~Stored(p) /\ p.uid # n.uid
    <3>1. Nth(p) \in 1..Len(UidsOf[k]) /\ Nth(p) <= used[k] /\ p.uid = UidsOf[k][Nth(p)]
      BY <1>4, <2>1, KnownPlaces DEF BehindStore
    <3>2. UidsOf[k][Nth(p)] # UidsOf[k][used'[k]]
      BY <1>4, <1>5, <3>1, PodInformerAssumption
    <3>3. QED  BY <1>3, <1>6, <2>1, <3>1, <3>2 DEF Stored
  <2>2. QED  BY <2>1 DEF Advances, Follows
<1>8. x \in Event /\ x.pod = n /\ ~Deleted(x)
  BY <1>6 DEF Event, EventType, Pod, Deleted
<1> HIDE DEF x
<1>9. QED  BY <1>3, <1>5, <1>6, <1>7, <1>8, NotifiedKeeps

\* The store's pod is told of, as it was or with a later status.
LEMMA ReportedKeeps ==
  ASSUME PodInv, PodInv', Ordered, NEW k \in PodKey, store[k] # NoPod,
         NEW n \in Pod, n.key = k, n.uid = store[k].uid, Follows(n, store[k]),
         store' = [store EXCEPT ![k] = n], Notify("update", n),
         UNCHANGED <<used, queue, hand, collectorVars>>
  PROVE  Ordered'
<1> DEFINE x == [eventType |-> "update", pod |-> n]
<1>1. x \in Event /\ x.pod = n /\ ~Deleted(x) /\ pending' = Append(pending, x)
  BY DEF Event, EventType, Pod, Deleted, Notify
<1>2. ClusterInv /\ used \in [PodKey -> Nat]
  BY DEF PodInv, ClusterInv
<1>3. /\ Known(store[k]) /\ store[k] \in Pod
      /\ used[k] \in 1..Len(UidsOf[k]) /\ store[k].uid = UidsOf[k][used[k]]
  BY DEF Ordered, StoreInv, Known
<1>4. Advances(k, n)
  <2>1. ASSUME NEW p, BehindStore(p), p.key = k
        PROVE  Follows(n, p) /\ (Stored(p) <=> p.uid = n.uid)
    <3>1. p \in Pod /\ Follows(store[k], p)
      BY <2>1 DEF BehindStore, Known
    <3>2. Follows(n, p)
      BY <1>3, <3>1, FollowsTransitive
    <3>3. QED  BY <2>1, <3>2 DEF Stored
  <2>2. QED  BY <2>1 DEF Advances
<1> HIDE DEF x
<1>5. \A l \in PodKey : used[l] <= used'[l] /\ used'[l] = used[l]
  BY <1>2
<1>6. used'[k] \in 1..Len(UidsOf[k]) /\ n.uid = UidsOf[k][used'[k]]
  BY <1>3
<1>7. QED  BY <1>1, <1>4, <1>5, <1>6, NotifiedKeeps

LEMMA StatusKeeps ==
  ASSUME PodInv, PodInv', Ordered, NEW k \in PodKey, NEW c \in Container, Report(k, c)
  PROVE  Ordered'
<1>1. PICK p : p = store[k]
  OBVIOUS
<1>2. PICK s \in Status :
        /\ c \in DOMAIN p.status => Succeeds(s, p.status[c])
        /\ store' = [store EXCEPT ![k] = WithStatus(p, c, s)]
        /\ Notify("update", WithStatus(p, c, s))
  BY <1>1 DEF Report
<1>3. PICK n : n = WithStatus(p, c, s)
  OBVIOUS
<1>4. /\ p # NoPod /\ p \in Pod /\ p.key = k /\ Notify("update", n)
      /\ UNCHANGED <<used, queue, hand, collectorVars>>
  BY <1>1, <1>2, <1>3 DEF Report, PodInv, ClusterInv, Ordered, StoreInv
<1>5. /\ n \in Pod /\ n.key = k /\ n.uid = p.uid
      /\ n.status = [x \in DOMAIN p.status \cup {c} |-> IF x = c THEN s ELSE p.status[x]]
  BY <1>3, <1>4, WithStatusIsPod
<1>6. Follows(n, p)
  <2>1. \A d \in DOMAIN p.status : p.status[d].restarts \in Nat /\ p.status[d].last \in Nat
    BY <1>4, StatusOfPod
  <2>2. \A d \in DOMAIN p.status : Succeeds(p.status[d], p.status[d])
    BY <2>1 DEF Succeeds
  <2>3. \A d \in DOMAIN p.status : d \in DOMAIN n.status /\ Succeeds(n.status[d], p.status[d])
    BY <1>2, <1>5, <2>2
  <2>4. QED  BY <2>3 DEF Follows
<1>7. QED  BY <1>1, <1>2, <1>3, <1>4, <1>5, <1>6, ReportedKeeps

LEMMA ResyncedKeeps ==
  ASSUME PodInv, PodInv', Ordered, NEW k \in PodKey, Resync(k)
  PROVE  Ordered'
<1>1. PICK p : p = store[k]
  OBVIOUS
<1>2. /\ p # NoPod /\ p \in Pod /\ p.key = k /\ Known(p) /\ Notify("update", p)
      /\ UNCHANGED <<used, queue, hand, collectorVars, store>>
  BY <1>1 DEF Resync, PodInv, ClusterInv, Ordered, StoreInv, clusterVars
<1>3. store' = [store EXCEPT ![k] = p]
  BY <1>1, <1>2 DEF PodInv, ClusterInv
<1>4. Follows(p, p)
  BY <1>2, FollowsItself
<1>5. QED  BY <1>1, <1>2, <1>3, <1>4, ReportedKeeps

-----------------------------------------------------------------------------
(* The event applied.                                                      *)

\* What is held under the name of the event applied is of the same uid, and behind it.
LEMMA HeldIsApplied ==
  ASSUME InOrder, PodInv, Ordered, NEW w \in Worker, Apply(w),
         NEW e, e = hand[w], NEW p, p = pods[e.pod.key], p # NoPod
  PROVE  p.key = e.pod.key /\ p.uid = e.pod.uid /\ Follows(e.pod, p)
<1>1. ClusterInv /\ PipeInv /\ StoreInv
  BY DEF PodInv, Ordered
<1>2. e \in OurEvent /\ Coming(e) /\ e.pod.key \in PodKey
  BY <1>1, AfterApply DEF OurEvent, Event, Pod, PodType
<1>3. p.key = e.pod.key
  BY <1>2, PodInformerAssumption DEF PodInv, CollectorInv
<1>4. /\ BehindStore(p) /\ WillGo(p) /\ Later(e.pod, p)
      /\ BehindStore(e.pod)
  BY <1>2 DEF Ordered, HeldInv, EventsInv
<1>5. ASSUME p.uid # e.pod.uid PROVE FALSE
  <2>1. Nth(p) \in Nat /\ Nth(e.pod) \in Nat /\ Nth(p) < Nth(e.pod)
    <3>1. Nth(p) \in Nat /\ Nth(e.pod) \in Nat /\ Nth(p) <= Nth(e.pod)
      BY <1>1, <1>4, KnownPlaces DEF BehindStore, Later
    <3>2. Nth(p) # Nth(e.pod)
      BY <1>1, <1>3, <1>4, <1>5, SamePlace DEF BehindStore
    <3>3. QED  BY <3>1, <3>2
  <2>2. CASE Stored(p)
    <3>1. /\ p.key \in PodKey /\ store[p.key] # NoPod /\ store[p.key].uid = p.uid
          /\ Nth(e.pod) <= used[p.key]
      BY <1>1, <1>3, <1>4, <2>2, KnownPlaces DEF BehindStore, Stored
    <3>2. PICK q : q = store[p.key]
      OBVIOUS
    <3>3. Known(q) /\ q.key = p.key /\ Nth(q) = used[p.key]
      BY <1>1, <3>1, <3>2, StoreIsLast
    <3>4. Nth(q) = Nth(p)
      BY <1>1, <1>4, <3>1, <3>2, <3>3, SamePlace DEF BehindStore
    <3>5. QED  BY <2>1, <3>1, <3>3, <3>4
  <2>3. CASE \E d \in Event : Coming(d) /\ Deleted(d) /\ d.pod.key = p.key /\ d.pod.uid = p.uid
    <3>1. PICK d \in Event : Coming(d) /\ Deleted(d) /\ d.pod.key = p.key /\ d.pod.uid = p.uid
      BY <2>3
    <3>2. d \in OurEvent /\ Ahead(e, d)
      BY <1>1, <1>5, <3>1, Shape, AfterApply
    <3>3. Later(d.pod, e.pod) /\ Known(d.pod)
      BY <1>2, <1>3, <3>1, <3>2 DEF Ordered, OrderInv, EventsInv, BehindStore
    <3>4. Nth(d.pod) = Nth(p)
      BY <1>1, <1>4, <3>1, <3>3, SamePlace DEF BehindStore
    <3>5. QED  BY <2>1, <3>3, <3>4 DEF Later
  <2>4. QED  BY <1>4, <2>2, <2>3 DEF WillGo
<1>6. QED  BY <1>3, <1>4, <1>5 DEF Later

\* The event applied takes nothing that another pod waits for.
LEMMA AwaitsStill ==
  ASSUME InOrder, PipeInv, NEW w \in Worker, Apply(w), NEW p, WillGo(p),
         ~Deleted(hand[w]) \/ p.key # hand[w].pod.key \/ p.uid # hand[w].pod.uid
  PROVE  WillGo(p)'
<1>1. Stored(p)' <=> Stored(p)
  BY DEF Apply, clusterVars, Stored
<1>2. \A d : Coming(d) /\ d # hand[w] => Coming(d)'
  BY AfterApply
<1>3. QED  BY <1>1, <1>2 DEF WillGo

LEMMA AppliedPlaces ==
  ASSUME InOrder, PodInv, Ordered, NEW w \in Worker, Apply(w)
  PROVE  /\ StoreInv' /\ EventsInv' /\ OrderInv'
         /\ \A p : BehindStore(p)' <=> BehindStore(p)
<1>1. PICK e : e = hand[w]
  OBVIOUS
<1>2. PipeInv /\ UNCHANGED <<store, used>>
  BY DEF PodInv, Apply, clusterVars
<1>3. \A p : /\ Known(p)' <=> Known(p)
             /\ Stored(p)' <=> Stored(p)
             /\ BehindStore(p)' <=> BehindStore(p)
  BY <1>2 DEF Known, Stored, BehindStore
<1>4. /\ e \in OurEvent
      /\ \A f : Coming(f)' => Coming(f) /\ Ahead(e, f)
      /\ \A f, g : Ahead(f, g)' => Ahead(f, g)
  BY <1>1, <1>2, AfterApply
<1>5. StoreInv'
  BY <1>2, <1>3 DEF Ordered, StoreInv
<1>6. EventsInv'
  <2>1. ASSUME NEW f \in OurEvent, Coming(f)'
        PROVE  /\ BehindStore(f.pod)'
               /\ Deleted(f) => ~Stored(f.pod)'
               /\ ~Deleted(f) => WillGo(f.pod)'
    <3>1. Coming(f) /\ Ahead(e, f)
      BY <1>4, <2>1
    <3>2. /\ BehindStore(f.pod)
          /\ Deleted(f) => ~Stored(f.pod)
          /\ ~Deleted(f) => WillGo(f.pod)
      BY <3>1 DEF Ordered, EventsInv
    <3>3. Deleted(e) /\ e.pod.key = f.pod.key => e.pod.uid # f.pod.uid
      BY <1>4, <3>1 DEF Ordered, OrderInv
    <3>4. WillGo(f.pod) => WillGo(f.pod)'
      BY <1>1, <1>2, <3>3, AwaitsStill
    <3>5. QED  BY <1>3, <3>2, <3>4
  <2>2. QED  BY <2>1 DEF EventsInv
<1>7. OrderInv'
  BY <1>4 DEF Ordered, OrderInv
<1>8. QED  BY <1>3, <1>5, <1>6, <1>7

LEMMA OtherPodsStay ==
  ASSUME InOrder, PodInv, Ordered, NEW w \in Worker, Apply(w),
         NEW l \in PodKey, pods[l] # NoPod, pods'[l] = pods[l], l # hand[w].pod.key
  PROVE  /\ BehindStore(pods[l])' /\ WillGo(pods[l])'
         /\ \A f \in OurEvent : Coming(f)' /\ f.pod.key = l => Later(f.pod, pods'[l])
<1>1. PICK p : p = pods[l]
  OBVIOUS
<1>2. /\ BehindStore(p) /\ WillGo(p)
      /\ \A f \in OurEvent : Coming(f) /\ f.pod.key = l => Later(f.pod, p)
  BY <1>1 DEF Ordered, HeldInv
<1>3. p.key = l /\ PipeInv
  BY <1>1, PodInformerAssumption DEF PodInv, CollectorInv
<1>4. BehindStore(p)' /\ WillGo(p)'
  BY <1>2, <1>3, AppliedPlaces, AwaitsStill
<1>5. \A f : Coming(f)' => Coming(f)
  BY <1>3, AfterApply
<1>6. QED  BY <1>1, <1>2, <1>4, <1>5

LEMMA AddedKeeps ==
  ASSUME InOrder, PodInv, PodInv', Ordered, CountersInv, NEW w \in Worker, Apply(w),
         ~Deleted(hand[w]), collectContainerStats
  PROVE  Ordered' /\ CountersInv' /\ (SeriesInv => SeriesInv')
<1>1. PICK e : e = hand[w]
  OBVIOUS
<1>2. PICK q : q = e.pod
  OBVIOUS
<1>3. PICK k : k = q.key
  OBVIOUS
<1>4. PipeInv /\ ClusterInv /\ UNCHANGED <<store, used>>
  BY DEF PodInv, Apply, clusterVars
<1>5. /\ e \in OurEvent /\ Coming(e) /\ q.uid \in Ours /\ k \in PodKey /\ q \in Pod /\ q # NoPod
      /\ \A f : Coming(f)' => Coming(f) /\ Ahead(e, f)
      /\ \A f : Coming(f) /\ f # e => Coming(f)'
  <2>1. /\ e \in OurEvent /\ Coming(e)
        /\ \A f : Coming(f)' => Coming(f) /\ Ahead(e, f)
        /\ \A f : Coming(f) /\ f # e => Coming(f)'
    BY <1>1, <1>4, AfterApply
  <2>2. q \in Pod /\ q.uid \in Ours
    BY <1>2, <2>1 DEF OurEvent, Event
  <2>3. k \in PodKey /\ q # NoPod
    BY <1>3, <2>2, PodInformerAssumption DEF Pod, PodType
  <2>4. QED  BY <2>1, <2>2, <2>3
<1>6. AddPod(q)
  BY <1>1, <1>2 DEF Apply, Deleted
<1> DEFINE new == IF q.owner = NoOwner THEN {} ELSE NewlyTerminated(q)
<1>7. /\ pods' = [pods EXCEPT ![k] = q]
      /\ restartCounters' = [s \in StateKey |->
           IF s[1] = q.uid /\ s[2] \in new THEN q.status[s[2]].restarts ELSE restartCounters[s]]
      /\ cpu' = [s \in Series |->
           IF s[1] = q.owner /\ s[2] \in new THEN cpu[s] (+) Usage(q, s[2]) ELSE cpu[s]]
      /\ collectContainerStats'
  BY <1>3, <1>6 DEF AddPod, CollectPodMetrics
<1>8. /\ \A c \in new : /\ c \in DOMAIN q.status /\ q.owner # NoOwner
                        /\ q.status[c].last > 0
      /\ \A c \in DOMAIN q.status : c \notin new /\ q.status[c].last > 0 =>
           q.owner = NoOwner \/ ~(q.status[c].restarts > restartCounters[<<q.uid, c>>])
  BY DEF NewlyTerminated
<1> HIDE DEF new
<1>9. /\ pods'[k] = q
      /\ \A l \in PodKey : l # k => pods'[l] = pods[l]
  BY <1>5, <1>7, PodInformerAssumption DEF PodInv, CollectorInv
<1>10. BehindStore(q) /\ WillGo(q) /\ Known(q)
  BY <1>1, <1>2, <1>5 DEF Ordered, EventsInv, BehindStore
<1>11. ASSUME pods[k] # NoPod
       PROVE  pods[k].key = k /\ pods[k].uid = q.uid /\ Follows(q, pods[k])
  BY <1>1, <1>2, <1>3, <1>11, HeldIsApplied
<1>12. StoreInv' /\ EventsInv' /\ OrderInv'
  BY AppliedPlaces
<1>13. HeldInv'
  <2>1. BehindStore(q)' /\ WillGo(q)'
    BY <1>1, <1>4, <1>10, AppliedPlaces, AwaitsStill
  <2>2. \A f \in OurEvent : Coming(f)' /\ f.pod.key = k => Later(f.pod, q)
    BY <1>2, <1>3, <1>5 DEF Ordered, OrderInv
  <2>3. BehindStore(pods[k])' /\ WillGo(pods[k])'
    BY <1>9, <2>1
  <2>4. ASSUME NEW l \in PodKey, pods'[l] # NoPod, l # k
        PROVE  /\ BehindStore(pods[l])' /\ WillGo(pods[l])'
               /\ \A f \in OurEvent : Coming(f)' /\ f.pod.key = l => Later(f.pod, pods'[l])
    BY <1>1, <1>2, <1>3, <1>9, <2>4, OtherPodsStay
  <2>5. ASSUME NEW l \in PodKey, pods'[l] # NoPod
        PROVE  /\ BehindStore(pods[l])' /\ WillGo(pods[l])'
               /\ \A f \in OurEvent : Coming(f)' /\ f.pod.key = l => Later(f.pod, pods'[l])
    BY <1>9, <2>2, <2>3, <2>4, <2>5
  <2>6. QED  BY <1>7, <2>5 DEF HeldInv
<1>14. ArrivesInv'
  <2>1. ASSUME NEW l \in PodKey, store[l] # NoPod, store[l].uid \in Ours
        PROVE  pods'[l] = store[l] \/ \E f \in OurEvent : Coming(f)' /\ ~Deleted(f) /\ f.pod = store[l]
    <3>1. CASE pods[l] = store[l]
      <4>1. CASE l = k
        <5>1. store[k] \in Pod /\ store[k].key = k /\ store[k].uid = q.uid /\ Follows(q, store[k])
          BY <1>4, <1>5, <1>11, <2>1, <3>1, <4>1 DEF ClusterInv
        <5>2. Follows(store[k], q)
          BY <1>3, <1>10, <2>1, <4>1 DEF BehindStore
        <5>3. store[k] = q
          BY <1>3, <1>5, <5>1, <5>2, FollowsBack
        <5>4. QED  BY <1>9, <4>1, <5>3
      <4>2. QED  BY <1>9, <3>1, <4>1
    <3>2. CASE \E f \in OurEvent : Coming(f) /\ ~Deleted(f) /\ f.pod = store[l]
      <4>1. PICK f \in OurEvent : Coming(f) /\ ~Deleted(f) /\ f.pod = store[l]
        BY <3>2
      <4>2. CASE f = e
        <5>1. store[l].key = l
          BY <1>4, <2>1, PodInformerAssumption DEF ClusterInv
        <5>2. QED  BY <1>2, <1>3, <1>9, <4>1, <4>2, <5>1
      <4>3. QED  BY <1>5, <4>1, <4>2
    <3>3. QED  BY <2>1, <3>1, <3>2 DEF Ordered, ArrivesInv
  <2>2. QED  BY <1>4, <2>1 DEF ArrivesInv
<1>15. /\ q.uid \in Uid /\ q.owner = OwnerOf[q.uid]
       /\ \A c \in DOMAIN q.status : /\ c \in Container /\ <<q.uid, c>> \in StateKey
                                     /\ q.status[c].restarts \in Nat
                                     /\ q.status[c].last \in Nat
                                     /\ q.status[c].last \in {q.status[c].restarts,
                                                              q.status[c].restarts + 1}
                                     /\ restartCounters[<<q.uid, c>>] \in Nat
  <2>1. q.uid \in Uid /\ q.owner = OwnerOf[q.uid]
    BY <1>5 DEF Pod, PodType
  <2>2. ASSUME NEW c \in DOMAIN q.status
        PROVE  /\ c \in Container /\ <<q.uid, c>> \in StateKey
               /\ q.status[c].restarts \in Nat /\ q.status[c].last \in Nat
               /\ q.status[c].last \in {q.status[c].restarts, q.status[c].restarts + 1}
               /\ restartCounters[<<q.uid, c>>] \in Nat
    <3>1. c \in Container /\ <<q.uid, c>> \in StateKey
      BY <1>5, <2>1, StatusOfPod DEF StateKey
    <3>2. restartCounters[<<q.uid, c>>] \in Nat
      BY <3>1, CountsAreNat DEF PodInv, CollectorInv
    <3>3. QED  BY <1>5, <3>1, <3>2, StatusOfPod
  <2>3. QED  BY <2>1, <2>2
\* What was held of the pod's containers.
<1>16. ASSUME NEW c \in Container, NEW l \in PodKey, pods[l] # NoPod, pods[l].uid = q.uid,
              c \in DOMAIN pods[l].status
       PROVE  /\ l = k /\ c \in DOMAIN q.status /\ Succeeds(q.status[c], pods[l].status[c])
              /\ pods[l].status[c] = [restarts |-> pods[l].status[c].restarts,
                                      last |-> pods[l].status[c].last,
                                      ran |-> pods[l].status[c].ran]
              /\ pods[l].status[c].restarts \in Nat /\ pods[l].status[c].last \in Nat
              /\ pods[l].status[c].last \in {pods[l].status[c].restarts,
                                              pods[l].status[c].restarts + 1}
              /\ pods[l].owner = q.owner
  <2>1. PICK p : p = pods[l]
    OBVIOUS
  <2>2. Known(p) /\ p \in Pod /\ p.key = l
    BY <1>16, <2>1, PodInformerAssumption DEF Ordered, HeldInv, BehindStore, Known, PodInv, CollectorInv
  <2>3. l = k
    BY <1>3, <1>4, <1>10, <1>16, <2>1, <2>2, SameKey
  <2>4. /\ p.owner = q.owner
        /\ p.status[c] = [restarts |-> p.status[c].restarts, last |-> p.status[c].last,
                          ran |-> p.status[c].ran]
        /\ p.status[c].restarts \in Nat /\ p.status[c].last \in Nat
        /\ p.status[c].last \in {p.status[c].restarts, p.status[c].restarts + 1}
    <3>1. p.owner = q.owner
      BY <1>5, <1>16, <2>1, <2>2 DEF Pod
    <3>2. QED  BY <1>16, <2>1, <2>2, <3>1, StatusOfPod
  <2>5. Follows(q, p)
    BY <1>11, <1>16, <2>1, <2>3
  <2>6. QED  BY <1>16, <2>1, <2>3, <2>4, <2>5 DEF Follows
<1>17. \A l \in PodKey : l # k /\ pods[l] # NoPod => pods[l].uid # q.uid
  <2>1. ASSUME NEW l \in PodKey, l # k, pods[l] # NoPod, pods[l].uid = q.uid PROVE FALSE
    <3>1. PICK p : p = pods[l]
      OBVIOUS
    <3>2. Known(p) /\ p.key = l
      BY <2>1, <3>1, PodInformerAssumption DEF Ordered, HeldInv, BehindStore, PodInv, CollectorInv
    <3>3. QED  BY <1>3, <1>4, <1>10, <2>1, <3>1, <3>2, SameKey
  <2>2. QED  BY <2>1
<1>18. ASSUME NEW s \in StateKey, restartCounters'[s] > 0
       PROVE  \E l \in PodKey : /\ pods'[l] # NoPod /\ pods'[l].uid = s[1] /\ pods'[l].owner # NoOwner
                              /\ s[2] \in DOMAIN pods'[l].status
                              /\ restartCounters'[s] = pods'[l].status[s[2]].restarts
  <2>1. CASE s[1] = q.uid /\ s[2] \in new
    BY <1>5, <1>7, <1>8, <1>9, <2>1
  <2>2. CASE ~(s[1] = q.uid /\ s[2] \in new)
    <3>1. restartCounters'[s] = restartCounters[s] /\ restartCounters[s] \in Nat
      BY <1>7, <2>2, CountsAreNat DEF PodInv, CollectorInv
    <3>2. PICK l \in PodKey : /\ pods[l] # NoPod /\ pods[l].uid = s[1] /\ pods[l].owner # NoOwner
                            /\ s[2] \in DOMAIN pods[l].status
                            /\ restartCounters[s] = pods[l].status[s[2]].restarts
      BY <1>18, <3>1 DEF CountersInv
    <3>3. CASE l # k
      BY <1>9, <3>1, <3>2, <3>3
    <3>4. CASE l = k
      <4>1. s = <<q.uid, s[2]>> /\ s[2] \in Container /\ s[1] = q.uid
        BY <1>11, <3>2, <3>4 DEF StateKey
      <4>2. /\ s[2] \in DOMAIN q.status /\ restartCounters[s] <= q.status[s[2]].restarts
            /\ q.owner # NoOwner
        BY <1>16, <3>2, <4>1 DEF Succeeds
      <4>0. /\ q.status[s[2]].restarts \in Nat /\ q.status[s[2]].last \in Nat
            /\ q.status[s[2]].last \in {q.status[s[2]].restarts, q.status[s[2]].restarts + 1}
        BY <1>15, <4>2
      <4>3. q.status[s[2]].last > 0
        BY <1>18, <3>1, <4>0, <4>2
      <4>4. ~(q.status[s[2]].restarts > restartCounters[s])
        BY <1>8, <2>2, <4>1, <4>2, <4>3
      <4>5. q.status[s[2]].restarts = restartCounters[s]
        BY <3>1, <4>0, <4>2, <4>4
      <4>6. QED  BY <1>5, <1>9, <3>1, <3>4, <4>1, <4>2, <4>5
    <3>5. QED  BY <3>3, <3>4
  <2>3. QED  BY <2>1, <2>2
<1>19. \A s \in Series : DOMAIN cpu[s] \subseteq DOMAIN cpu'[s]
  BY <1>7 DEF (+)
<1>20. ASSUME SeriesInv,
              NEW l \in PodKey, pods'[l] # NoPod, pods'[l].owner # NoOwner,
              NEW c \in DOMAIN pods'[l].status, pods'[l].status[c].last > 0
       PROVE  LET s == pods'[l].status[c]
              IN /\ restartCounters'[<<pods'[l].uid, c>>] = s.restarts
                 /\ s.last <= s.restarts /\ s.ran =>
                      Counted(pods'[l].uid, c, s) \in DOMAIN cpu'[<<pods'[l].owner, c>>]
  <2>1. ASSUME NEW p, pods'[l] = p
        PROVE  p \in Pod /\ <<p.owner, c>> \in Series /\ <<p.uid, c>> \in StateKey
    <3>1. p \in Pod
      BY <1>20, <2>1 DEF PodInv, CollectorInv, OurPod
    <3>2. c \in Container /\ p.owner \in Owner /\ p.uid \in Uid
      BY <1>20, <2>1, <3>1, StatusOfPod DEF Pod, PodType
    <3>3. QED  BY <3>1, <3>2 DEF Series, StateKey
  <2>2. CASE l # k
    <3>1. pods'[l] = pods[l] /\ pods[l].uid # q.uid
      BY <1>9, <1>17, <1>20, <2>2
    <3>2. PICK s : s = pods[l].status[c]
      OBVIOUS
    <3>3. /\ restartCounters[<<pods[l].uid, c>>] = s.restarts
          /\ s.last <= s.restarts /\ s.ran =>
               Counted(pods[l].uid, c, s) \in DOMAIN cpu[<<pods[l].owner, c>>]
      BY <1>20, <3>1, <3>2 DEF SeriesInv
    <3>4. <<pods[l].owner, c>> \in Series /\ <<pods[l].uid, c>> \in StateKey
      BY <2>1, <3>1
    <3>5. restartCounters'[<<pods[l].uid, c>>] = restartCounters[<<pods[l].uid, c>>]
      BY <1>7, <3>1, <3>4
    <3>6. QED  BY <1>19, <3>1, <3>2, <3>3, <3>4, <3>5
  <2>3. CASE l = k /\ c \in new
    <3>1. pods'[l] = q /\ <<q.owner, c>> \in Series /\ <<q.uid, c>> \in StateKey
      BY <1>9, <2>1, <2>3
    <3>2. restartCounters'[<<q.uid, c>>] = q.status[c].restarts
      BY <1>7, <2>3, <3>1
    <3>3. cpu'[<<q.owner, c>>] = cpu[<<q.owner, c>>] (+) Usage(q, c)
      BY <1>7, <2>3, <3>1
    <3>4. q.status[c].ran => Counted(q.uid, c, q.status[c]) \in DOMAIN cpu'[<<q.owner, c>>]
      BY <3>3 DEF (+), Usage, SetToBag
    <3>5. QED  BY <3>1, <3>2, <3>4
  <2>4. CASE l = k /\ c \notin new
    <3>1. /\ pods'[l] = q /\ <<q.owner, c>> \in Series /\ <<q.uid, c>> \in StateKey
          /\ c \in DOMAIN q.status /\ q.owner # NoOwner /\ q.status[c].last > 0
      BY <1>9, <1>20, <2>1, <2>4
    <3>2. PICK s : s = q.status[c]
      OBVIOUS
    <3>3. /\ s.restarts \in Nat /\ s.last \in Nat /\ restartCounters[<<q.uid, c>>] \in Nat
          /\ s.last \in {s.restarts, s.restarts + 1}
      BY <1>15, <3>1, <3>2
    <3>4. restartCounters[<<q.uid, c>>] >= s.restarts
      BY <1>8, <2>4, <3>1, <3>2, <3>3
    <3>5. restartCounters'[<<q.uid, c>>] = restartCounters[<<q.uid, c>>]
      BY <1>7, <2>4, <3>1
    <3>6. CASE restartCounters[<<q.uid, c>>] = 0
      \* The container is in its first back-off: nothing to count.
      <4>1. s.restarts = 0
        BY <3>3, <3>4, <3>6
      <4>2. s.last > 0
        BY <3>1, <3>2
      <4>3. ~(s.last <= s.restarts)
        BY <3>3, <4>1, <4>2
      <4>4. QED  BY <3>1, <3>2, <3>5, <3>6, <4>1, <4>3
    <3>7. CASE restartCounters[<<q.uid, c>>] > 0
      <4>1. PICK j \in PodKey : /\ pods[j] # NoPod /\ pods[j].uid = q.uid
                                /\ pods[j].owner # NoOwner
                                /\ c \in DOMAIN pods[j].status
                                /\ restartCounters[<<q.uid, c>>] = pods[j].status[c].restarts
        BY <3>1, <3>7 DEF CountersInv
      <4>2. PICK t : t = pods[j].status[c]
        OBVIOUS
      <4>3. /\ j = k /\ pods[j].owner = q.owner /\ Succeeds(s, t)
            /\ t = [restarts |-> t.restarts, last |-> t.last, ran |-> t.ran]
            /\ t.restarts \in Nat /\ t.last \in Nat /\ t.last \in {t.restarts, t.restarts + 1}
        BY <1>15, <1>16, <3>1, <3>2, <4>1, <4>2
      <4>4. restartCounters[<<q.uid, c>>] = s.restarts /\ t.restarts = s.restarts
        BY <3>3, <3>4, <4>1, <4>2, <4>3 DEF Succeeds
      <4>5. ASSUME s.last <= s.restarts, s.ran
            PROVE  Counted(q.uid, c, s) \in DOMAIN cpu[<<q.owner, c>>]
        <5>1. s.last = s.restarts /\ t.last = s.last
          BY <3>3, <4>3, <4>4, <4>5 DEF Succeeds
        <5>2. t.ran = s.ran
          BY <4>3, <5>1 DEF Succeeds
        <5>3. t.last > 0 /\ t.last <= t.restarts /\ t.ran
          BY <3>1, <3>2, <4>4, <4>5, <5>1, <5>2
        <5>4. Counted(q.uid, c, t) \in DOMAIN cpu[<<q.owner, c>>]
          BY <1>20, <4>1, <4>2, <4>3, <5>3 DEF SeriesInv
        <5>5. QED  BY <4>4, <5>1, <5>4 DEF Counted
      <4>6. QED  BY <1>19, <3>1, <3>2, <3>5, <4>4, <4>5
    <3>8. QED  BY <3>3, <3>6, <3>7
  <2>5. QED  BY <2>2, <2>3, <2>4
<1>21. CountersInv'
  BY <1>18 DEF CountersInv
<1>22. SeriesInv => SeriesInv'
  BY <1>20 DEF SeriesInv
<1>23. QED  BY <1>12, <1>13, <1>14, <1>21, <1>22 DEF Ordered

LEMMA DeletedKeeps ==
  ASSUME InOrder, PodInv, PodInv', Ordered, CountersInv, NEW w \in Worker, Apply(w),
         Deleted(hand[w]), collectContainerStats
  PROVE  Ordered' /\ CountersInv' /\ (OwnersDistinct /\ SeriesInv => SeriesInv')
<1>1. PICK e : e = hand[w]
  OBVIOUS
<1>2. PICK q : q = e.pod
  OBVIOUS
<1>3. PICK k : k = q.key
  OBVIOUS
<1>4. PipeInv /\ ClusterInv /\ UNCHANGED <<store, used>>
  BY DEF PodInv, Apply, clusterVars
<1>5. /\ e \in OurEvent /\ Coming(e) /\ Deleted(e) /\ q.uid \in Ours /\ k \in PodKey /\ q \in Pod
      /\ \A f : Coming(f)' => Coming(f) /\ Ahead(e, f)
      /\ \A f : Coming(f) /\ f # e => Coming(f)'
  <2>1. /\ e \in OurEvent /\ Coming(e)
        /\ \A f : Coming(f)' => Coming(f) /\ Ahead(e, f)
        /\ \A f : Coming(f) /\ f # e => Coming(f)'
    BY <1>1, <1>4, AfterApply
  <2>2. q \in Pod /\ q.uid \in Ours /\ Deleted(e)
    BY <1>1, <1>2, <2>1 DEF OurEvent, Event
  <2>3. k \in PodKey
    BY <1>3, <2>2, PodInformerAssumption DEF Pod, PodType
  <2>4. QED  BY <2>1, <2>2, <2>3
<1>6. DeletePod(q)
  BY <1>1, <1>2 DEF Apply, Deleted
<1>7. /\ pods' = [pods EXCEPT ![k] = NoPod]
      /\ restartCounters' = [s \in StateKey |->
           IF s[1] = q.uid /\ s[2] \in DOMAIN q.status THEN 0 ELSE restartCounters[s]]
      /\ cpu' = [s \in Series |->
           IF s[1] = q.owner /\ s[2] \in DOMAIN q.status THEN EmptyBag ELSE cpu[s]]
      /\ collectContainerStats'
  BY <1>3, <1>6 DEF DeletePod
<1>8. /\ pods'[k] = NoPod
      /\ \A l \in PodKey : l # k => pods'[l] = pods[l]
  BY <1>5, <1>7, PodInformerAssumption DEF PodInv, CollectorInv
<1>9. Known(q) /\ ~Stored(q)
  BY <1>2, <1>5 DEF Ordered, EventsInv, BehindStore
<1>10. ASSUME pods[k] # NoPod
       PROVE  pods[k].key = k /\ pods[k].uid = q.uid /\ Follows(q, pods[k])
  BY <1>1, <1>2, <1>3, <1>10, HeldIsApplied
<1>11. StoreInv' /\ EventsInv' /\ OrderInv'
  BY AppliedPlaces
<1>12. HeldInv'
  <2>1. ASSUME NEW l \in PodKey, pods'[l] # NoPod
        PROVE  /\ BehindStore(pods[l])' /\ WillGo(pods[l])'
               /\ \A f \in OurEvent : Coming(f)' /\ f.pod.key = l => Later(f.pod, pods'[l])
    BY <1>1, <1>2, <1>3, <1>8, <2>1, OtherPodsStay
  <2>2. QED  BY <1>7, <2>1 DEF HeldInv
<1>13. ArrivesInv'
  <2>1. ASSUME NEW l \in PodKey, store[l] # NoPod, store[l].uid \in Ours
        PROVE  pods'[l] = store[l] \/ \E f \in OurEvent : Coming(f)' /\ ~Deleted(f) /\ f.pod = store[l]
    <3>1. CASE pods[l] = store[l]
      <4>1. l # k
        BY <1>3, <1>9, <1>10, <2>1, <3>1 DEF Stored
      <4>2. QED  BY <1>8, <3>1, <4>1
    <3>2. CASE \E f \in OurEvent : Coming(f) /\ ~Deleted(f) /\ f.pod = store[l]
      BY <1>5, <3>2
    <3>3. QED  BY <2>1, <3>1, <3>2 DEF Ordered, ArrivesInv
  <2>2. QED  BY <1>4, <2>1 DEF ArrivesInv
<1>14. q.uid \in Uid /\ q.owner = OwnerOf[q.uid]
  BY <1>5 DEF Pod, PodType
\* The other pods have other uids and, where they count, other labels.
<1>15. ASSUME OwnersDistinct, NEW l \in PodKey, l # k, pods[l] # NoPod
       PROVE  /\ pods[l] \in Pod /\ pods[l].uid # q.uid
              /\ pods[l].owner # NoOwner => pods[l].owner # q.owner
  <2>1. PICK p : p = pods[l]
    OBVIOUS
  <2>2. Known(p) /\ p \in Pod /\ p.key = l /\ p.uid \in Ours
    BY <1>15, <2>1, HeldIsOurs DEF Ordered, HeldInv, BehindStore
  <2>3. p.uid # q.uid
    BY <1>3, <1>4, <1>9, <1>15, <2>2, SameKey
  <2>4. /\ Nth(p) \in 1..Len(UidsOf[l]) /\ p.uid = UidsOf[l][Nth(p)]
        /\ Nth(q) \in 1..Len(UidsOf[k]) /\ q.uid = UidsOf[k][Nth(q)]
    BY <1>3, <1>4, <1>9, <2>2, KnownPlaces
  <2>5. OwnerOf[p.uid] = OwnerOf[q.uid] => OwnerOf[p.uid] = NoOwner
    BY <1>5, <1>15, <2>2, <2>4 DEF OwnersDistinct
  <2>6. QED  BY <1>14, <2>1, <2>2, <2>3, <2>5 DEF Pod
<1>16. ASSUME NEW s \in StateKey, restartCounters'[s] > 0
       PROVE  \E l \in PodKey : /\ pods'[l] # NoPod /\ pods'[l].uid = s[1] /\ pods'[l].owner # NoOwner
                              /\ s[2] \in DOMAIN pods'[l].status
                              /\ restartCounters'[s] = pods'[l].status[s[2]].restarts
  <2>1. restartCounters'[s] = restartCounters[s] /\ ~(s[1] = q.uid /\ s[2] \in DOMAIN q.status)
    BY <1>7, <1>16
  <2>2. PICK l \in PodKey : /\ pods[l] # NoPod /\ pods[l].uid = s[1] /\ pods[l].owner # NoOwner
                          /\ s[2] \in DOMAIN pods[l].status
                          /\ restartCounters[s] = pods[l].status[s[2]].restarts
    BY <1>16, <2>1 DEF CountersInv
  <2>3. l # k
    BY <1>10, <2>1, <2>2 DEF Follows
  <2>4. QED  BY <1>8, <2>1, <2>2, <2>3
<1>17. ASSUME OwnersDistinct, SeriesInv,
              NEW l \in PodKey, pods'[l] # NoPod, pods'[l].owner # NoOwner,
              NEW c \in DOMAIN pods'[l].status, pods'[l].status[c].last > 0
       PROVE  LET s == pods'[l].status[c]
              IN /\ restartCounters'[<<pods'[l].uid, c>>] = s.restarts
                 /\ s.last <= s.restarts /\ s.ran =>
                      Counted(pods'[l].uid, c, s) \in DOMAIN cpu'[<<pods'[l].owner, c>>]
  <2>1. PICK p : p = pods[l]
    OBVIOUS
  <2>2. /\ l # k /\ pods'[l] = p /\ p # NoPod /\ p.owner # NoOwner /\ c \in DOMAIN p.status
        /\ p.status[c].last > 0
    BY <1>8, <1>17, <2>1
  <2>3. p \in Pod /\ p.uid # q.uid /\ p.owner # q.owner
    BY <1>15, <1>17, <2>1, <2>2
  <2>4. <<p.owner, c>> \in Series /\ <<p.uid, c>> \in StateKey
    BY <2>2, <2>3, StatusOfPod DEF Pod, PodType, Series, StateKey
  <2>5. /\ restartCounters'[<<p.uid, c>>] = restartCounters[<<p.uid, c>>]
        /\ cpu'[<<p.owner, c>>] = cpu[<<p.owner, c>>]
    BY <1>7, <2>3, <2>4
  <2>6. PICK s : s = p.status[c]
    OBVIOUS
  <2>7. /\ restartCounters[<<p.uid, c>>] = s.restarts
        /\ s.last <= s.restarts /\ s.ran => Counted(p.uid, c, s) \in DOMAIN cpu[<<p.owner, c>>]
    BY <1>17, <2>1, <2>2, <2>6 DEF SeriesInv
  <2>8. QED  BY <2>2, <2>5, <2>6, <2>7
<1>18. CountersInv'
  BY <1>16 DEF CountersInv
<1>19. OwnersDistinct /\ SeriesInv => SeriesInv'
  BY <1>17 DEF SeriesInv
<1>20. QED  BY <1>11, <1>12, <1>13, <1>18, <1>19 DEF Ordered

\* Without --enable-pod-container-metrics the collector does nothing.
LEMMA DroppedKeeps ==
  ASSUME InOrder, PodInv, Ordered, CountersInv, NEW w \in Worker, Apply(w), ~collectContainerStats
  PROVE  Ordered' /\ CountersInv' /\ (SeriesInv => SeriesInv')
<1>1. UNCHANGED <<collectContainerStats, pods, restartCounters, cpu>>
  BY DEF Apply, AddPod, DeletePod
<1>2. StoreInv' /\ EventsInv' /\ OrderInv'
  BY AppliedPlaces
<1>3. HeldInv' /\ ArrivesInv'
  BY <1>1 DEF Ordered, HeldInv, ArrivesInv
<1>4. CountersInv' /\ (SeriesInv => SeriesInv')
  BY <1>1 DEF CountersInv, SeriesInv
<1>5. QED  BY <1>2, <1>3, <1>4 DEF Ordered

-----------------------------------------------------------------------------
(* The invariant.                                                          *)

Idle == reconciler = "off" /\ listed = {}

OrderedInv == PodInv /\ Ordered /\ CountersInv /\ Idle

CountedInv == OrderedInv /\ SeriesInv

LEMMA OrderedInit == InOrder /\ Init => CountedInv
<1> SUFFICES ASSUME InOrder, Init PROVE CountedInv
  OBVIOUS
<1>1. PodInv
  BY PodInit
<1>2. /\ pending = <<>> /\ queue = <<>> /\ hand = [w \in Worker |-> NoEvent]
      /\ store = [k \in PodKey |-> NoPod] /\ pods = [k \in PodKey |-> NoPod]
      /\ restartCounters = [s \in StateKey |-> 0]
  BY DEF Init, CollectorInit
<1>3. \A e : ~Coming(e)
  BY <1>2 DEF Coming, InHand, InQueue, InPending
<1>4. \A e, f : ~Ahead(e, f)
  BY <1>2 DEF Ahead, InHand, InQueue, InPending
<1>5. Ordered
  BY <1>2, <1>3, <1>4, PodInformerAssumption
  DEF Ordered, StoreInv, EventsInv, OrderInv, HeldInv, ArrivesInv
<1>6. CountersInv /\ SeriesInv
  BY <1>2, PodInformerAssumption DEF CountersInv, SeriesInv
<1>7. Idle
  BY DEF Init, InOrder, Idle
<1>8. QED  BY <1>1, <1>5, <1>6, <1>7 DEF OrderedInv, CountedInv

LEMMA OrderedNext == InOrder /\ OrderedInv /\ [Next]_vars => OrderedInv'
<1> SUFFICES ASSUME InOrder, OrderedInv, [Next]_vars PROVE OrderedInv'
  OBVIOUS
<1>1. PodInv /\ PodInv' /\ Ordered /\ CountersInv /\ Idle
  BY PodNext DEF OrderedInv
<1>2. UNCHANGED collectorVars => CountersInv'
  BY <1>1 DEF CountersInv, collectorVars
<1>3. ASSUME NEW k \in PodKey, Create(k) PROVE OrderedInv'
  BY <1>1, <1>2, <1>3, CreatedKeeps DEF Create, OrderedInv, Idle, reconcilerVars
<1>4. ASSUME NEW k \in PodKey, NEW c \in Container, Report(k, c) PROVE OrderedInv'
  BY <1>1, <1>2, <1>4, StatusKeeps DEF Report, OrderedInv, Idle, reconcilerVars
<1>5. ASSUME NEW k \in PodKey, Remove(k) PROVE OrderedInv'
  BY <1>1, <1>2, <1>5, RemovedKeeps DEF Remove, OrderedInv, Idle, reconcilerVars
<1>6. ASSUME NEW k \in PodKey, Resync(k) PROVE OrderedInv'
  BY <1>1, <1>2, <1>6, ResyncedKeeps DEF Resync, OrderedInv, Idle, reconcilerVars
<1>7. CASE Handle
  <2>1. Ordered'
    BY <1>1, <1>7, AfterHandle, MovedKeeps DEF PodInv, Handle
  <2>2. QED  BY <1>1, <1>2, <1>7, <2>1 DEF Handle, OrderedInv, Idle, reconcilerVars
<1>8. ASSUME NEW w \in Worker, Get(w) PROVE OrderedInv'
  <2>1. Ordered'
    BY <1>1, <1>8, AfterGet, MovedKeeps DEF PodInv, Get
  <2>2. QED  BY <1>1, <1>2, <1>8, <2>1 DEF Get, OrderedInv, Idle, reconcilerVars
<1>9. ASSUME NEW w \in Worker, Apply(w) PROVE OrderedInv'
  <2>1. Ordered' /\ CountersInv'
    BY <1>1, <1>9, AddedKeeps, DeletedKeeps, DroppedKeeps
  <2>2. QED  BY <1>1, <1>9, <2>1 DEF Apply, OrderedInv, Idle, reconcilerVars
<1>10. CASE ReconcileStep
  BY <1>1, <1>10 DEF ReconcileStep, List, LockReconcile, AddListed, UnlockReconcile, Idle
<1>11. CASE UNCHANGED vars
  <2>1. Ordered'
    <3>1. /\ UNCHANGED <<collectorVars, clusterVars>> /\ UNCHANGED <<pending, queue, hand>>
      BY <1>11 DEF vars, pipeVars
    <3>2. /\ \A e : Coming(e)' <=> Coming(e)
          /\ \A e, f : Ahead(e, f)' => Ahead(e, f)
      BY <3>1 DEF Coming, Ahead, InHand, InQueue, InPending
    <3>3. QED  BY <1>1, <3>1, <3>2, MovedKeeps
  <2>2. QED  BY <1>1, <1>2, <1>11, <2>1 DEF vars, OrderedInv, Idle, reconcilerVars
<1>12. QED
  BY <1>3, <1>4, <1>5, <1>6, <1>7, <1>8, <1>9, <1>10, <1>11 DEF Next

\* The series follow, if no two pods share one.
LEMMA CountedNext == InOrder /\ OwnersDistinct /\ CountedInv /\ [Next]_vars => CountedInv'
<1> SUFFICES ASSUME InOrder, OwnersDistinct, CountedInv, [Next]_vars PROVE CountedInv'
  OBVIOUS
<1>1. OrderedInv' /\ PodInv /\ PodInv' /\ Ordered /\ CountersInv /\ Idle /\ SeriesInv
  BY OrderedNext DEF OrderedInv, CountedInv
<1>2. CASE UNCHANGED collectorVars
  BY <1>1, <1>2 DEF CountedInv, SeriesInv, collectorVars
<1>3. ASSUME NEW w \in Worker, Apply(w) PROVE CountedInv'
  BY <1>1, <1>3, AddedKeeps, DeletedKeeps, DroppedKeeps DEF CountedInv
<1>4. (\E w \in Worker : Apply(w)) \/ UNCHANGED collectorVars
  BY <1>1
  DEF Next, Create, Remove, Resync, Report, Handle, Get, ReconcileStep,
  List, LockReconcile, AddListed, UnlockReconcile, Idle, vars
<1>5. QED  BY <1>2, <1>3, <1>4

LEMMA OrderedAlways == InOrder => (Spec => []OrderedInv)
<1> SUFFICES ASSUME InOrder PROVE Spec => []OrderedInv
  OBVIOUS
<1>1. Init => OrderedInv
  BY OrderedInit DEF CountedInv
<1>2. OrderedInv /\ [Next]_vars => OrderedInv'
  BY OrderedNext
<1>3. QED  BY <1>1, <1>2, PTL DEF Spec

LEMMA CountedAlways == InOrder /\ OwnersDistinct => (Spec => []CountedInv)
<1> SUFFICES ASSUME InOrder, OwnersDistinct PROVE Spec => []CountedInv
  OBVIOUS
<1>1. Init => CountedInv
  BY OrderedInit
<1>2. CountedInv /\ [Next]_vars => CountedInv'
  BY CountedNext
<1>3. QED  BY <1>1, <1>2, PTL DEF Spec

-----------------------------------------------------------------------------
(* The theorems.                                                           *)

LEMMA NothingComes ==
  ASSUME NothingInFlight
  PROVE  \A e : ~Coming(e)
  BY DEF NothingInFlight, Coming, InHand, InQueue, InPending

\* deletePodMetrics: when nothing is under way, the map of restart counters has entries of
\* pods that exist only, for any pods, containers and restarts.
THEOREM CountersForgotten == InOrder => (Spec => []CountersOfStoredPods)
<1>1. OrderedInv => CountersOfStoredPods
  <2> SUFFICES ASSUME OrderedInv, NothingInFlight, NEW s \in StateKey, restartCounters[s] > 0
               PROVE  \E k \in PodKey : store[k] # NoPod /\ store[k].uid = s[1]
    BY DEF CountersOfStoredPods
  <2>1. PICK k \in PodKey : pods[k] # NoPod /\ pods[k].uid = s[1]
    BY DEF OrderedInv, CountersInv
  <2>2. Stored(pods[k])
    BY <2>1, NothingComes DEF OrderedInv, Ordered, HeldInv, WillGo
  <2>3. pods[k].key \in PodKey
    BY <2>1, PodInformerAssumption DEF OrderedInv, PodInv, CollectorInv
  <2>4. QED  BY <2>1, <2>2, <2>3 DEF Stored
<1>2. QED  BY <1>1, OrderedAlways, PTL

\* collectPodMetrics behind the pod informer: when nothing is under way, the last run of
\* every container of a pod that exists is in the published counter, if it took time and
\* the container has been restarted since.
THEOREM LastRestartsCounted == InOrder /\ OwnersDistinct => (Spec => []LastRestartCounted)
<1>1. CountedInv => LastRestartCounted
  <2> SUFFICES ASSUME CountedInv, collectContainerStats, NothingInFlight, NEW k \in PodKey,
                      store[k] # NoPod, store[k].uid \in Ours, store[k].owner # NoOwner,
                      NEW c \in DOMAIN store[k].status,
                      store[k].status[c].last \in 1..store[k].status[c].restarts,
                      store[k].status[c].ran
               PROVE  BagIn(Counted(store[k].uid, c, store[k].status[c]),
                            cpu[<<store[k].owner, c>>])
    BY DEF LastRestartCounted
  <2>1. pods[k] = store[k]
    BY NothingComes DEF CountedInv, OrderedInv, Ordered, ArrivesInv
  <2>2. store[k].status[c].last > 0 /\ store[k].status[c].last <= store[k].status[c].restarts
    <3>1. store[k] \in Pod
      BY DEF CountedInv, OrderedInv, PodInv, ClusterInv
    <3>2. store[k].status[c].restarts \in Nat
      BY <3>1, StatusOfPod
    <3>3. QED  BY <3>2
  <2>3. Counted(store[k].uid, c, store[k].status[c]) \in DOMAIN cpu[<<store[k].owner, c>>]
    BY <2>1, <2>2 DEF CountedInv, SeriesInv
  <2>4. QED  BY <2>3 DEF BagIn, BagToSet
<1>2. QED  BY <1>1, CountedAlways, PTL
=============================================================================
