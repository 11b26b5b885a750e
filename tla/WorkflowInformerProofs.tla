----------------------- MODULE WorkflowInformerProofs -----------------------
(***************************************************************************)
(* Proofs about WorkflowInformer, for every set of workflows and every     *)
(* bound.                                                                  *)
(***************************************************************************)
EXTENDS WorkflowInformer, SequenceTheorems, TLAPS

(***************************************************************************)
(* The inductive invariant behind MirrorWhenIdle, for one worker and no    *)
(* full reconcile: the youngest value of a key under way, in the order     *)
(* pending, queue, hand, mirror, is the one the store has.                 *)
(***************************************************************************)
NoneOf(k, events) == \A i \in 1..Len(events) : events[i].key # k

\* The last event of k in events says v.
LastSays(k, events, v) ==
  \E i \in 1..Len(events) :
    /\ events[i].key = k
    /\ ValueOf(events[i]) = v
    /\ \A j \in 1..Len(events) : j > i => events[j].key # k

\* What the worker holds, or else the mirror, says v.
HandSays(k, v) ==
  IF \E w \in Worker : hand[w] # NoEvent /\ hand[w].key = k
  THEN \A w \in Worker : hand[w] # NoEvent => ValueOf(hand[w]) = v
  ELSE mirror[k] = v

YoungestInv ==
  ~shutdown =>
    \A k \in Matched :
      \/ LastSays(k, pending, store[k])
      \/ NoneOf(k, pending) /\ LastSays(k, queue, store[k])
      \/ NoneOf(k, pending) /\ NoneOf(k, queue) /\ HandSays(k, store[k])

\* A worker has an event exactly while it is about to apply it.
HandInv == \A w \in Worker : hand[w] # NoEvent <=> worker[w] = "apply"

\* Without a full reconcile period no full reconciler ever runs.
NoReconcilerInv == ~FullReconcile => reconciler = "exit"

TypeInv == TypeOK /\ HandInv /\ NoReconcilerInv

MirrorInv == TypeInv /\ YoungestInv

-----------------------------------------------------------------------------
(* What appending and removing an event does to NoneOf and LastSays.       *)

LEMMA AppendOwn ==
  ASSUME NEW events \in Seq(Event), NEW e \in Event, NEW v, ValueOf(e) = v
  PROVE  LastSays(e.key, Append(events, e), v)
<1>1. /\ Len(Append(events, e)) = Len(events) + 1
      /\ Append(events, e)[Len(events) + 1] = e
      /\ Len(events) \in Nat
  OBVIOUS
<1>2. QED  BY <1>1 DEF LastSays

LEMMA AppendOther ==
  ASSUME NEW events \in Seq(Event), NEW e \in Event, NEW k, e.key # k, NEW v
  PROVE  /\ NoneOf(k, events) => NoneOf(k, Append(events, e))
         /\ LastSays(k, events, v) => LastSays(k, Append(events, e), v)
<1> DEFINE longer == Append(events, e)
<1>1. /\ Len(longer) = Len(events) + 1
      /\ longer[Len(events) + 1] = e
      /\ Len(events) \in Nat
      /\ \A i \in 1..Len(events) : longer[i] = events[i]
  OBVIOUS
<1> HIDE DEF longer
<1>2. NoneOf(k, events) => NoneOf(k, longer)
  BY <1>1 DEF NoneOf
<1>3. LastSays(k, events, v) => LastSays(k, longer, v)
  BY <1>1 DEF LastSays
<1>4. QED  BY <1>2, <1>3 DEF longer

LEMMA TailEvents ==
  ASSUME NEW events \in Seq(Event), events # <<>>, NEW k, NEW v
  PROVE  /\ Head(events) \in Event
         /\ Tail(events) \in Seq(Event)
         /\ NoneOf(k, events) => Head(events).key # k /\ NoneOf(k, Tail(events))
         /\ LastSays(k, events, v) =>
              \/ LastSays(k, Tail(events), v)
              \/ /\ Head(events).key = k /\ ValueOf(Head(events)) = v
                 /\ NoneOf(k, Tail(events))
<1> DEFINE h == Head(events)
           rest == Tail(events)
<1>1. /\ h = events[1] /\ h \in Event /\ rest \in Seq(Event)
      /\ Len(events) \in Nat /\ Len(events) >= 1
      /\ Len(rest) = Len(events) - 1
      /\ \A i \in 1..Len(rest) : rest[i] = events[i + 1]
  OBVIOUS
<1> HIDE DEF h, rest
<1>2. ASSUME NoneOf(k, events) PROVE h.key # k /\ NoneOf(k, rest)
  BY <1>1, <1>2 DEF NoneOf
<1>3. ASSUME LastSays(k, events, v)
      PROVE  LastSays(k, rest, v) \/ (h.key = k /\ ValueOf(h) = v /\ NoneOf(k, rest))
  <2>1. PICK i \in 1..Len(events) :
          /\ events[i].key = k /\ ValueOf(events[i]) = v
          /\ \A j \in 1..Len(events) : j > i => events[j].key # k
    BY <1>3 DEF LastSays
  <2>2. CASE i = 1
    BY <1>1, <2>1, <2>2 DEF NoneOf
  <2>3. CASE i > 1
    <3>1. i - 1 \in 1..Len(rest) /\ rest[i - 1] = events[i]
      BY <1>1, <2>3
    <3>2. \A j \in 1..Len(rest) : j > i - 1 => rest[j].key # k
      BY <1>1, <2>1
    <3>3. QED  BY <2>1, <3>1, <3>2 DEF LastSays
  <2>4. QED  BY <2>2, <2>3
<1>4. QED  BY <1>1, <1>2, <1>3 DEF h, rest

-----------------------------------------------------------------------------
(* Types.                                                                  *)

LEMMA NotifyType ==
  ASSUME TypeOK, NEW type \in {"add", "update", "delete"}, NEW k \in Key, NEW v \in Version,
         Notify(type, k, v)
  PROVE  pending' \in Seq(Event)
  BY DEF TypeOK, Notify, Event

LEMMA TypeInit == Init => TypeInv
<1> SUFFICES ASSUME Init PROVE TypeInv
  OBVIOUS
<1>1. HandInv /\ NoReconcilerInv
  BY DEF Init, HandInv, NoReconcilerInv
<1>2. [k \in Key |-> Absent] \in [Key -> Value] /\ [k \in Key |-> 0] \in [Key -> 0..MaxVersion]
  BY InformerAssumption DEF Value
<1>3. pending \in Seq(Event) /\ queue \in Seq(Event)
  BY DEF Init
<1>4. TypeOK
  BY <1>2, <1>3, InformerAssumption DEF Init, TypeOK
<1>5. QED  BY <1>1, <1>4 DEF TypeInv

LEMMA TypeNext == TypeInv /\ [Next]_vars => TypeInv'
<1> SUFFICES ASSUME TypeInv, [Next]_vars PROVE TypeInv'
  OBVIOUS
<1> USE DEF TypeInv
<1>1. ASSUME NEW k \in Key, Put(k) PROVE TypeInv'
  <2>1. version[k] + 1 \in Version /\ version[k] + 1 \in 0..MaxVersion
    BY <1>1, InformerAssumption DEF Put, TypeOK, Version
  <2>2. pending' \in Seq(Event)
    BY <1>1, <2>1, NotifyType DEF Put
  <2>3. store' \in [Key -> Value] /\ version' \in [Key -> 0..MaxVersion]
    BY <1>1, <2>1 DEF Put, TypeOK, Value
  <2>4. UNCHANGED <<handler, queueVars, workerVars, gaugeVars, reconcilerVars, mirror, lifeVars>>
    BY <1>1 DEF Put
  <2>5. QED
    BY <2>2, <2>3, <2>4 DEF TypeOK, HandInv, NoReconcilerInv, queueVars, workerVars,
                            gaugeVars, reconcilerVars, lifeVars
<1>2. ASSUME NEW k \in Key, Remove(k) \/ Resync(k) PROVE TypeInv'
  <2>1. store[k] \in Version
    BY <1>2 DEF Remove, Resync, TypeOK, Value
  <2>2. pending' \in Seq(Event)
    BY <1>2, <2>1, NotifyType DEF Remove, Resync
  <2>3. store' \in [Key -> Value]
    BY <1>2 DEF Remove, Resync, TypeOK, Value, clusterVars
  <2>4. UNCHANGED <<version, handler, queueVars, workerVars, gaugeVars, reconcilerVars,
                    mirror, lifeVars>>
    BY <1>2 DEF Remove, Resync, clusterVars
  <2>5. QED
    BY <2>2, <2>3, <2>4 DEF TypeOK, HandInv, NoReconcilerInv, queueVars, workerVars,
                            gaugeVars, reconcilerVars, lifeVars
<1>3. CASE Handle
  <2>1. Head(pending) \in Event /\ pending' \in Seq(Event)
    BY <1>3, TailEvents DEF Handle, TypeOK
  <2>2. queue' = queue \/ queue' = Append(queue, Head(pending))
    BY <1>3 DEF Handle
  <2>3. queue \in Seq(Event) /\ Append(queue, Head(pending)) \in Seq(Event)
    BY <2>1 DEF TypeOK
  <2>4. handler' \in {"idle", "depth"}
    BY <1>3 DEF Handle, TypeOK
  <2>5. queue' \in Seq(Event) /\ handler' \in {"idle", "depth"}
    BY <2>2, <2>3, <2>4
  <2>6. UNCHANGED <<clusterVars, shutdown, workerVars, gaugeVars, reconcilerVars, mirror, lifeVars>>
    BY <1>3 DEF Handle
  <2>7. QED
    BY <2>1, <2>6, <2>5 DEF TypeOK, HandInv, NoReconcilerInv, clusterVars, workerVars,
                            gaugeVars, reconcilerVars, lifeVars
<1>4. ASSUME NEW p \in Worker \cup {Handler}, ReadLen(p) PROVE TypeInv'
  <2>1. seen' \in [Worker \cup {Handler} -> Nat \cup {NoReading}]
    BY <1>4, InformerAssumption DEF ReadLen, TypeOK
  <2>2. UNCHANGED <<clusterVars, handlerVars, queueVars, workerVars, depth, reconcilerVars,
                    mirror, lifeVars>>
    BY <1>4 DEF ReadLen
  <2>3. QED
    BY <2>1, <2>2 DEF TypeOK, HandInv, NoReconcilerInv, clusterVars, handlerVars, queueVars,
                      workerVars, reconcilerVars, lifeVars
<1>5. ASSUME NEW p \in Worker \cup {Handler}, SetDepth(p) PROVE TypeInv'
  <2>1. seen' \in [Worker \cup {Handler} -> Nat \cup {NoReading}] /\ depth' \in Nat
    BY <1>5 DEF SetDepth, TypeOK
  <2>2. handler' \in {"idle", "depth"}
        /\ worker' \in [Worker -> {"launch", "get", "apply", "depth", "exit"}]
    BY <1>5 DEF SetDepth, TypeOK
  <2>3. UNCHANGED <<clusterVars, pending, queueVars, hand, reconcilerVars, mirror, lifeVars>>
    BY <1>5 DEF SetDepth
  <2>4. HandInv'
    BY <1>5, <2>3 DEF SetDepth, InDepth, HandInv, TypeOK
  <2>5. QED
    BY <2>1, <2>2, <2>3, <2>4 DEF TypeOK, NoReconcilerInv, clusterVars, queueVars,
                                  reconcilerVars, lifeVars
<1>6. ASSUME NEW w \in Worker, Launch(w) \/ GetShutdown(w) PROVE TypeInv'
  <2>1. worker' \in [Worker -> {"launch", "get", "apply", "depth", "exit"}]
        /\ UNCHANGED hand
    BY <1>6 DEF Launch, GetShutdown, TypeOK
  <2>2. HandInv'
    BY <1>6, <2>1 DEF Launch, GetShutdown, HandInv, TypeOK
  <2>3. UNCHANGED <<clusterVars, handlerVars, queueVars, gaugeVars, reconcilerVars,
                    mirror, lifeVars>>
    BY <1>6 DEF Launch, GetShutdown
  <2>4. QED
    BY <2>1, <2>2, <2>3 DEF TypeOK, NoReconcilerInv, clusterVars, handlerVars, queueVars,
                            gaugeVars, reconcilerVars, lifeVars
<1>7. ASSUME NEW w \in Worker, Get(w) PROVE TypeInv'
  <2>1. Head(queue) \in Event /\ queue' \in Seq(Event)
    BY <1>7, TailEvents DEF Get, TypeOK
  <2>2. worker' \in [Worker -> {"launch", "get", "apply", "depth", "exit"}]
        /\ hand' \in [Worker -> Event \cup {NoEvent}]
    BY <1>7, <2>1 DEF Get, TypeOK
  <2>3. HandInv'
    BY <1>7, <2>1, <2>2, NoEventAssumption DEF Get, HandInv, TypeOK
  <2>4. UNCHANGED <<clusterVars, handlerVars, shutdown, gaugeVars, reconcilerVars,
                    mirror, lifeVars>>
    BY <1>7 DEF Get
  <2>5. QED
    BY <2>1, <2>2, <2>3, <2>4 DEF TypeOK, NoReconcilerInv, clusterVars, handlerVars,
                                  gaugeVars, reconcilerVars, lifeVars
<1>8. ASSUME NEW w \in Worker, Apply(w) PROVE TypeInv'
  <2>1. hand[w] \in Event
    BY <1>8 DEF Apply, HandInv, TypeOK
  <2>2. mirror' \in [Key -> Value]
    BY <1>8, <2>1 DEF Apply, TypeOK, ValueOf, Event, Value
  <2>3. worker' \in [Worker -> {"launch", "get", "apply", "depth", "exit"}]
        /\ hand' \in [Worker -> Event \cup {NoEvent}]
    BY <1>8 DEF Apply, TypeOK
  <2>4. HandInv'
    BY <1>8, <2>3 DEF Apply, HandInv, TypeOK
  <2>5. UNCHANGED <<clusterVars, handlerVars, queueVars, gaugeVars, reconcilerVars, lifeVars>>
    BY <1>8 DEF Apply
  <2>6. QED
    BY <2>2, <2>3, <2>4, <2>5 DEF TypeOK, NoReconcilerInv, clusterVars, handlerVars,
                                  queueVars, gaugeVars, reconcilerVars, lifeVars
<1>9. CASE List \/ Replace
  <2>1. Listed \in [Key -> Value] /\ [k \in Key |-> Absent] \in [Key -> Value]
    BY DEF Listed, TypeOK, Value
  <2>2. mirror' \in [Key -> Value] /\ snapshot' \in [Key -> Value]
        /\ reconciler' \in {"wait", "replace", "exit"}
    BY <1>9, <2>1 DEF List, Replace, TypeOK
  <2>3. NoReconcilerInv'
    BY <1>9 DEF List, Replace, NoReconcilerInv
  <2>4. UNCHANGED <<clusterVars, handlerVars, queueVars, workerVars, gaugeVars, lifeVars>>
    BY <1>9 DEF List, Replace
  <2>5. QED
    BY <2>2, <2>3, <2>4 DEF TypeOK, HandInv, clusterVars, handlerVars, queueVars, workerVars,
                            gaugeVars, lifeVars
<1>10. CASE Sync \/ Cancel \/ StartStep
  <2>1. /\ shutdown' \in BOOLEAN /\ depth' \in Nat /\ ctxDone' \in BOOLEAN
        /\ stage' \in {"syncing", "running", "stopping", "zeroed", "stopped"}
        /\ UNCHANGED <<clusterVars, handlerVars, queue, workerVars, seen, reconcilerVars, mirror>>
    <3>1. CASE Sync
      BY <3>1 DEF Sync, TypeOK, queueVars, gaugeVars
    <3>2. CASE Cancel
      BY <3>2 DEF Cancel, TypeOK, queueVars, gaugeVars
    <3>3. CASE ShutDown
      BY <3>3 DEF ShutDown, TypeOK, gaugeVars
    <3>4. CASE ZeroDepth
      BY <3>4 DEF ZeroDepth, TypeOK, queueVars
    <3>5. CASE CloseStop
      BY <3>5 DEF CloseStop, TypeOK, queueVars, gaugeVars
    <3>6. QED  BY <1>10, <3>1, <3>2, <3>3, <3>4, <3>5 DEF StartStep
  <2>2. QED
    BY <2>1 DEF TypeOK, HandInv, NoReconcilerInv, clusterVars, handlerVars, workerVars,
                reconcilerVars
<1>11. CASE UNCHANGED vars
  BY <1>11 DEF vars, TypeOK, HandInv, NoReconcilerInv, clusterVars, handlerVars, queueVars,
               workerVars, gaugeVars, reconcilerVars, lifeVars
<1>12. QED
  BY <1>1, <1>2, <1>3, <1>4, <1>5, <1>6, <1>7, <1>8, <1>9, <1>10, <1>11
  DEF Next, HandlerStep, WorkerStep

\* Every part of the pipeline keeps its type: what is queued and in hand are events,
\* and the worker applies no event it does not have.
THEOREM TypeCorrect == Spec => []TypeOK
<1>1. TypeInv => TypeOK
  BY DEF TypeInv
<1>2. QED  BY <1>1, TypeInit, TypeNext, PTL DEF Spec

-----------------------------------------------------------------------------
(* Foreign namespaces.                                                     *)

LEMMA OnlyMatchedInit == Init => OnlyMatched
  BY InformerAssumption DEF Init, OnlyMatched

LEMMA OnlyMatchedNext == TypeInv /\ OnlyMatched /\ [Next]_vars => OnlyMatched'
<1> SUFFICES ASSUME TypeInv, OnlyMatched, [Next]_vars PROVE OnlyMatched'
  OBVIOUS
<1> USE DEF TypeInv
<1>1. ASSUME UNCHANGED <<queue, hand, mirror, snapshot>> PROVE OnlyMatched'
  BY <1>1 DEF OnlyMatched
<1>2. CASE Handle
  <2>1. pending \in Seq(Event) /\ pending # <<>> /\ queue \in Seq(Event)
    BY <1>2 DEF Handle, TypeOK
  <2>2. Head(pending) \in Event
    BY <2>1, TailEvents
  <2>3. CASE queue' = queue
    BY <1>1, <1>2, <2>3 DEF Handle, workerVars, reconcilerVars
  <2>4. CASE queue' = Append(queue, Head(pending)) /\ Head(pending).key \in Matched
    <3>1. /\ DOMAIN queue = 1..Len(queue) /\ DOMAIN queue' = 1..Len(queue) + 1
          /\ \A i \in 1..Len(queue) : queue'[i] = queue[i]
          /\ queue'[Len(queue) + 1] = Head(pending) /\ Len(queue) \in Nat
      BY <2>1, <2>2, <2>4
    <3>2. \A i \in DOMAIN queue' : queue'[i].key \in Matched
      BY <2>4, <3>1 DEF OnlyMatched
    <3>3. QED  BY <1>2, <3>2 DEF Handle, OnlyMatched, workerVars, reconcilerVars
  <2>5. QED  BY <1>2, <2>3, <2>4 DEF Handle
<1>3. ASSUME NEW w \in Worker, Get(w) PROVE OnlyMatched'
  <2>1. queue \in Seq(Event) /\ queue # <<>> /\ queue' = Tail(queue)
    BY <1>3 DEF Get, TypeOK
  <2>2. /\ Head(queue) = queue[1] /\ 1 \in DOMAIN queue
        /\ \A i \in DOMAIN queue' : queue'[i] = queue[i + 1] /\ i + 1 \in DOMAIN queue
    BY <2>1
  <2>3. \A i \in DOMAIN queue' : queue'[i].key \in Matched
    BY <2>2 DEF OnlyMatched
  <2>4. hand' = [hand EXCEPT ![w] = Head(queue)] /\ Head(queue).key \in Matched
    BY <1>3, <2>2 DEF Get, OnlyMatched
  <2>5. \A v \in Worker : hand'[v] # NoEvent => hand'[v].key \in Matched
    BY <2>4 DEF OnlyMatched, TypeOK
  <2>6. QED  BY <1>3, <2>3, <2>5 DEF Get, OnlyMatched, reconcilerVars
<1>4. ASSUME NEW w \in Worker, Apply(w) PROVE OnlyMatched'
  <2>1. hand[w].key \in Matched
    BY <1>4 DEF Apply, HandInv, OnlyMatched
  <2>2. \A k \in Key \ Matched : mirror'[k] = mirror[k]
    BY <1>4, <2>1 DEF Apply, TypeOK
  <2>3. \A v \in Worker : hand'[v] # NoEvent => hand'[v].key \in Matched
    BY <1>4 DEF Apply, OnlyMatched, TypeOK
  <2>4. QED  BY <1>4, <2>2, <2>3 DEF Apply, OnlyMatched, queueVars, reconcilerVars
<1>5. CASE List
  <2>1. \A k \in Key \ Matched : Listed[k] = Absent
    BY DEF Listed
  <2>2. QED  BY <1>5, <2>1 DEF List, OnlyMatched, queueVars, workerVars
<1>6. CASE Replace
  BY <1>6 DEF Replace, OnlyMatched, queueVars, workerVars
<1>7. ASSUME NEW k \in Key, Put(k) \/ Remove(k) \/ Resync(k) PROVE OnlyMatched'
  BY <1>1, <1>7 DEF Put, Remove, Resync, queueVars, workerVars, reconcilerVars
<1>8. ASSUME NEW p, ReadLen(p) \/ SetDepth(p) PROVE OnlyMatched'
  BY <1>1, <1>8 DEF ReadLen, SetDepth, queueVars, workerVars, reconcilerVars
<1>9. ASSUME NEW w, Launch(w) \/ GetShutdown(w) PROVE OnlyMatched'
  BY <1>1, <1>9 DEF Launch, GetShutdown, queueVars, reconcilerVars
<1>10. CASE Sync \/ Cancel \/ StartStep
  BY <1>1, <1>10 DEF Sync, Cancel, StartStep, ShutDown, ZeroDepth, CloseStop, queueVars,
                     workerVars, reconcilerVars
<1>11. CASE UNCHANGED vars
  BY <1>1, <1>11 DEF vars, queueVars, workerVars, reconcilerVars
<1>12. QED
  BY <1>2, <1>3, <1>4, <1>5, <1>6, <1>7, <1>8, <1>9, <1>10, <1>11
  DEF Next, HandlerStep, WorkerStep

\* No workflow of a foreign namespace gets into the queue, a worker's hands, a list of
\* the full reconciler or the collector, for any namespaces and any number of workers.
THEOREM ForeignKeptOut == Spec => []OnlyMatched
  BY TypeInit, TypeNext, OnlyMatchedInit, OnlyMatchedNext, PTL DEF Spec

-----------------------------------------------------------------------------
(* The mirror, with one worker and no full reconcile.                      *)

LEMMA YoungestInit == Init => YoungestInv
<1> SUFFICES ASSUME Init, NEW k \in Key
             PROVE  NoneOf(k, pending) /\ NoneOf(k, queue) /\ HandSays(k, store[k])
  BY InformerAssumption DEF YoungestInv
<1>1. pending = <<>> /\ queue = <<>> /\ (\A w \in Worker : hand[w] = NoEvent)
      /\ mirror[k] = store[k]
  BY DEF Init
<1>2. NoneOf(k, pending) /\ NoneOf(k, queue)
  BY <1>1 DEF NoneOf
<1>3. HandSays(k, store[k])
  BY <1>1 DEF HandSays
<1>4. QED  BY <1>2, <1>3

\* A change of the store is notified with the value the store now has.
LEMMA YoungestChange ==
  ASSUME TypeOK, YoungestInv, NEW e \in Event,
         pending' = Append(pending, e),
         ValueOf(e) = store'[e.key],
         \A k \in Key : k # e.key => store'[k] = store[k],
         UNCHANGED <<queue, hand, mirror, shutdown>>
  PROVE  YoungestInv'
<1>1. SUFFICES ASSUME ~shutdown, NEW k \in Matched
               PROVE  \/ LastSays(k, pending', store'[k])
                      \/ NoneOf(k, pending') /\ LastSays(k, queue, store'[k])
                      \/ NoneOf(k, pending') /\ NoneOf(k, queue) /\ HandSays(k, store'[k])
  BY DEF YoungestInv, HandSays
<1>2. pending \in Seq(Event) /\ k \in Key
  BY InformerAssumption DEF TypeOK
<1>3. CASE k = e.key
  BY <1>2, <1>3, AppendOwn
<1>4. CASE k # e.key
  <2>1. store'[k] = store[k]
    BY <1>2, <1>4
  <2>2. /\ NoneOf(k, pending) => NoneOf(k, pending')
        /\ LastSays(k, pending, store[k]) => LastSays(k, pending', store[k])
    BY <1>2, <1>4, AppendOther
  <2>3. QED  BY <1>1, <2>1, <2>2 DEF YoungestInv
<1>5. QED  BY <1>3, <1>4

\* The oldest notification goes to the back of the queue, or is none of ours.
LEMMA YoungestHandle ==
  ASSUME TypeOK, YoungestInv, Handle
  PROVE  YoungestInv'
<1> DEFINE h == Head(pending)
<1>1. SUFFICES ASSUME ~shutdown, NEW k \in Matched
               PROVE  \/ LastSays(k, pending', store[k])
                      \/ NoneOf(k, pending') /\ LastSays(k, queue', store[k])
                      \/ NoneOf(k, pending') /\ NoneOf(k, queue') /\ HandSays(k, store[k])
  BY DEF YoungestInv, HandSays, Handle, clusterVars, workerVars
<1>2. pending \in Seq(Event) /\ pending # <<>> /\ queue \in Seq(Event) /\ pending' = Tail(pending)
  BY DEF TypeOK, Handle
<1>3. /\ h \in Event
      /\ NoneOf(k, pending) => h.key # k /\ NoneOf(k, pending')
      /\ LastSays(k, pending, store[k]) =>
           LastSays(k, pending', store[k])
           \/ (h.key = k /\ ValueOf(h) = store[k] /\ NoneOf(k, pending'))
  BY <1>2, TailEvents
<1>4. queue' = IF h.key \in Matched THEN Append(queue, h) ELSE queue
  BY <1>1 DEF Handle
<1> HIDE DEF h
<1>5. CASE h.key = k
  <2>1. queue' = Append(queue, h)
    BY <1>1, <1>4, <1>5
  <2>2. ~NoneOf(k, pending)
    BY <1>3, <1>5
  <2>3. LastSays(k, pending, store[k])
    BY <1>1, <2>2 DEF YoungestInv
  <2>4. ValueOf(h) = store[k] => LastSays(k, queue', store[k])
    BY <1>2, <1>3, <1>5, <2>1, AppendOwn
  <2>5. QED  BY <1>3, <2>3, <2>4
<1>6. CASE h.key # k
  <2>1. /\ NoneOf(k, queue) => NoneOf(k, queue')
        /\ LastSays(k, queue, store[k]) => LastSays(k, queue', store[k])
    BY <1>2, <1>3, <1>4, <1>6, AppendOther
  <2>2. QED  BY <1>1, <1>3, <1>6, <2>1 DEF YoungestInv
<1>7. QED  BY <1>5, <1>6

\* The only worker takes the oldest event of the queue.
LEMMA YoungestGet ==
  ASSUME TypeInv, YoungestInv, NEW w, Worker = {w}, Get(w)
  PROVE  YoungestInv'
<1> DEFINE h == Head(queue)
<1>1. SUFFICES ASSUME ~shutdown, NEW k \in Matched
               PROVE  \/ LastSays(k, pending, store[k])
                      \/ NoneOf(k, pending) /\ LastSays(k, queue', store[k])
                      \/ NoneOf(k, pending) /\ NoneOf(k, queue') /\ HandSays(k, store[k])'
  BY DEF YoungestInv, Get, clusterVars, handlerVars
<1>2. queue \in Seq(Event) /\ queue # <<>> /\ queue' = Tail(queue)
  BY DEF TypeInv, TypeOK, Get
<1>3. /\ h \in Event
      /\ NoneOf(k, queue) => h.key # k /\ NoneOf(k, queue')
      /\ LastSays(k, queue, store[k]) =>
           LastSays(k, queue', store[k])
           \/ (h.key = k /\ ValueOf(h) = store[k] /\ NoneOf(k, queue'))
  BY <1>2, TailEvents
<1>4. hand[w] = NoEvent /\ hand'[w] = h /\ h # NoEvent /\ mirror' = mirror /\ store' = store
  BY <1>3, NoEventAssumption DEF Get, TypeInv, TypeOK, HandInv, clusterVars
<1> HIDE DEF h
<1>5. HandSays(k, store[k]) => mirror[k] = store[k]
  BY <1>4 DEF HandSays
<1>6. (h.key = k /\ ValueOf(h) = store[k]) \/ (h.key # k /\ mirror[k] = store[k])
        => HandSays(k, store[k])'
  BY <1>4 DEF HandSays
<1>7. QED  BY <1>1, <1>3, <1>5, <1>6 DEF YoungestInv

\* The only worker applies the event it has.
LEMMA YoungestApply ==
  ASSUME TypeInv, YoungestInv, NEW w, Worker = {w}, Apply(w)
  PROVE  YoungestInv'
<1>1. SUFFICES ASSUME NEW k \in Matched, HandSays(k, store[k])
               PROVE  HandSays(k, store[k])'
  BY DEF YoungestInv, Apply, clusterVars, handlerVars, queueVars
<1>2. hand[w] # NoEvent /\ hand[w] \in Event /\ hand'[w] = NoEvent /\ store' = store
      /\ mirror' = [mirror EXCEPT ![hand[w].key] = ValueOf(hand[w])]
  BY DEF Apply, TypeInv, TypeOK, HandInv, clusterVars
<1>3. k \in Key /\ mirror \in [Key -> Value] /\ hand[w].key \in Key
  BY <1>2, InformerAssumption DEF TypeInv, TypeOK, Event
<1>4. mirror'[k] = store[k]
  BY <1>1, <1>2, <1>3 DEF HandSays
<1>5. QED  BY <1>2, <1>4 DEF HandSays

LEMMA MirrorNext ==
  ASSUME NEW w0, Worker = {w0}, ~FullReconcile
  PROVE  MirrorInv /\ [Next]_vars => MirrorInv'
<1> SUFFICES ASSUME MirrorInv, [Next]_vars PROVE YoungestInv'
  BY TypeNext DEF MirrorInv
<1> USE DEF MirrorInv, TypeInv
<1>1. ASSUME NEW k \in Key, Put(k) PROVE YoungestInv'
  <2> DEFINE e == [eventType |-> IF store[k] = Absent THEN "add" ELSE "update",
                   key |-> k, version |-> version[k] + 1]
  <2>1. version[k] + 1 \in Version
    BY <1>1, InformerAssumption DEF Put, TypeOK, Version
  <2>2. e \in Event /\ e.key = k /\ ValueOf(e) = version[k] + 1
    BY <2>1 DEF Event, ValueOf
  <2>3. pending' = Append(pending, e)
    BY <1>1 DEF Put, Notify
  <2>4. store'[k] = version[k] + 1 /\ \A j \in Key : j # k => store'[j] = store[j]
    BY <1>1 DEF Put, TypeOK
  <2>5. UNCHANGED <<queue, hand, mirror, shutdown>>
    BY <1>1 DEF Put, queueVars, workerVars
  <2> HIDE DEF e
  <2>6. QED  BY <2>2, <2>3, <2>4, <2>5, YoungestChange
<1>2. ASSUME NEW k \in Key, Remove(k) PROVE YoungestInv'
  <2> DEFINE e == [eventType |-> "delete", key |-> k, version |-> store[k]]
  <2>1. e \in Event /\ e.key = k /\ ValueOf(e) = Absent
    BY <1>2 DEF Event, ValueOf, Remove, TypeOK, Value
  <2>2. pending' = Append(pending, e)
    BY <1>2 DEF Remove, Notify
  <2>3. store'[k] = Absent /\ \A j \in Key : j # k => store'[j] = store[j]
    BY <1>2 DEF Remove, TypeOK
  <2>4. UNCHANGED <<queue, hand, mirror, shutdown>>
    BY <1>2 DEF Remove, queueVars, workerVars
  <2> HIDE DEF e
  <2>5. QED  BY <2>1, <2>2, <2>3, <2>4, YoungestChange
<1>3. ASSUME NEW k \in Key, Resync(k) PROVE YoungestInv'
  <2> DEFINE e == [eventType |-> "update", key |-> k, version |-> store[k]]
  <2>1. e \in Event /\ e.key = k /\ ValueOf(e) = store[k]
    BY <1>3 DEF Event, ValueOf, Resync, TypeOK, Value
  <2>2. pending' = Append(pending, e) /\ store' = store
    BY <1>3 DEF Resync, Notify, clusterVars
  <2>3. UNCHANGED <<queue, hand, mirror, shutdown>>
    BY <1>3 DEF Resync, queueVars, workerVars
  <2> HIDE DEF e
  <2>4. QED  BY <2>1, <2>2, <2>3, YoungestChange
<1>4. CASE Handle
  BY <1>4, YoungestHandle
<1>5. ASSUME NEW w \in Worker, Get(w) PROVE YoungestInv'
  BY <1>5, YoungestGet
<1>6. ASSUME NEW w \in Worker, Apply(w) PROVE YoungestInv'
  BY <1>6, YoungestApply
<1>7. ASSUME UNCHANGED <<store, pending, queue, hand, mirror>>, shutdown => shutdown'
      PROVE  YoungestInv'
  BY <1>7 DEF YoungestInv, HandSays
<1>8. ASSUME NEW p, ReadLen(p) \/ SetDepth(p) PROVE YoungestInv'
  BY <1>7, <1>8 DEF ReadLen, SetDepth, clusterVars, handlerVars, queueVars, workerVars
<1>9. ASSUME NEW w, Launch(w) \/ GetShutdown(w) PROVE YoungestInv'
  BY <1>7, <1>9 DEF Launch, GetShutdown, clusterVars, handlerVars, queueVars
<1>10. CASE List
  BY <1>7, <1>10 DEF List, clusterVars, handlerVars, queueVars, workerVars
<1>11. ~Replace
  BY DEF Replace, NoReconcilerInv
<1>12. CASE Sync \/ Cancel \/ StartStep
  BY <1>7, <1>12 DEF Sync, Cancel, StartStep, ShutDown, ZeroDepth, CloseStop, clusterVars,
                     handlerVars, queueVars, workerVars
<1>13. CASE UNCHANGED vars
  BY <1>7, <1>13 DEF vars, clusterVars, handlerVars, queueVars, workerVars
<1>14. QED
  BY <1>1, <1>2, <1>3, <1>4, <1>5, <1>6, <1>8, <1>9, <1>10, <1>11, <1>12, <1>13
  DEF Next, HandlerStep, WorkerStep

\* With one worker (the default and deployed count) and without the full reconcile
\* the collector's cache is the store's whenever nothing is under way.
THEOREM MirrorFollows ==
  ASSUME NEW w0, Worker = {w0}, ~FullReconcile
  PROVE  Spec => []MirrorWhenIdle
<1>1. Init => MirrorInv
  BY TypeInit, YoungestInit DEF MirrorInv
<1>2. MirrorInv => MirrorWhenIdle
  BY DEF MirrorInv, YoungestInv, MirrorWhenIdle, NothingInFlight, LastSays, HandSays
<1>3. MirrorInv /\ [Next]_vars => MirrorInv'
  BY MirrorNext
<1>4. QED  BY <1>1, <1>2, <1>3, PTL DEF Spec
=============================================================================
