---------------------------- MODULE HealthProofs ----------------------------
(***************************************************************************)
(* Proofs about Health, for any requests, flags, times and number of Mark  *)
(* calls under way.                                                        *)
(***************************************************************************)
EXTENDS Health, TLAPS

CallType == [mark : Mark, now : Nat, stored : BOOLEAN]
RequestType == [path : Path, now : Time, before : Time, verdict : BOOLEAN \cup {Nothing}]

Of(kind) == [kind |-> kind, informer |-> "none"]
OfInformer(kind, i) == [kind |-> kind, informer |-> i]

\* The call of m has stored, and has not set its gauge.
Stored(m) == \E c \in calls : c.mark = m /\ c.stored

TypeInv ==
  /\ config \in Config /\ clock \in 1..MaxTime
  /\ state \in StateType /\ gauge \in StateType
  /\ probed \in [Path -> BOOLEAN]
  /\ request \in [Request -> RequestType \cup {Nothing}]
  /\ calls \subseteq CallType /\ begun \subseteq Mark

\* One goroutine makes the calls of a mark.
CallsInv ==
  /\ \A c \in calls : c.now \in 1..clock
  /\ \A c, d \in calls : c.mark = d.mark => c = d
  /\ \A c \in calls : c.mark.kind # "event" => c.mark \in begun

(***************************************************************************)
(* How each gauge is behind its field: only between the two halves of a    *)
(* call.                                                                   *)
(***************************************************************************)
SyncedInv ==
  /\ gauge.synced \subseteq state.synced
  /\ \A i \in Informer :
       /\ i \in state.synced => i \in gauge.synced \/ Stored(OfInformer("synced", i))
       /\ Stored(OfInformer("synced", i)) => i \in state.synced

LastInv ==
  \A i \in Informer :
    /\ state.last[i] <= clock
    /\ gauge.last[i] = state.last[i] \/ Stored(OfInformer("event", i))
    /\ \A c \in calls : c.mark = OfInformer("event", i) =>
         IF c.stored THEN state.last[i] = c.now ELSE state.last[i] <= c.now

HeardInv == heard = maxTime(state.last["workflow"], state.last["pod"])

ShutdownInv ==
  /\ gauge.shuttingDown => state.shuttingDown
  /\ state.shuttingDown => gauge.shuttingDown \/ Stored(Of("shutdown"))
  /\ Stored(Of("shutdown")) => state.shuttingDown

\* Until MarkLeader(false) begins, MarkLeader(true) stands.
LeaderInv ==
  ~GivenUp =>
    /\ Stored(Of("leader")) => state.isLeader
    /\ gauge.isLeader # state.isLeader => Stored(Of("leader"))

\* The replica leads, needs not, or gives the lead up.
Led == ~config.leaderElect \/ state.isLeader \/ GivenUp

\* Verdicts outlive the snapshot they were made on, because a shutdown, a sync and the
\* giving up of the lead last.
ProbeInv ==
  /\ ~probed["healthz"] => state.shuttingDown
  /\ probed["readyz"] => state.synced = Informer
  /\ \A q \in Request : request[q] # Nothing =>
       /\ request[q].now <= clock /\ request[q].before <= request[q].now
       /\ request[q].before <= heard
       /\ request[q].path = "healthz" /\ request[q].verdict = FALSE => state.shuttingDown
       /\ request[q].path = "readyz" /\ request[q].verdict = TRUE => state.synced = Informer /\ Led

HealthInv ==
  TypeInv /\ CallsInv /\ SyncedInv /\ LastInv /\ HeardInv /\ ShutdownInv /\ LeaderInv /\ ProbeInv

-----------------------------------------------------------------------------
(* The marks, and what a Mark function does to the fields or the gauges.   *)

LEMMA MarksByKind ==
  /\ \A k \in Kind : Of(k) \in Mark /\ Of(k).kind = k
  /\ \A k \in {"synced", "event"}, i \in Informer :
       OfInformer(k, i) \in Mark /\ OfInformer(k, i).kind = k /\ OfInformer(k, i).informer = i
  /\ \A m \in Mark :
       \/ m.kind \in Kind /\ m = Of(m.kind)
       \/ /\ m.kind \in {"synced", "event"} /\ m.informer \in Informer
          /\ m = OfInformer(m.kind, m.informer)
  BY DEF Mark, Kind, Informer, Of, OfInformer

LEMMA FollowerMark == Marks("follower") = {Of("follower")}
  BY MarksByKind DEF Marks, Kind

LEMMA GivenUpMark == GivenUp <=> Of("follower") \in begun
  BY FollowerMark DEF GivenUp

LEMMA CallFacts ==
  ASSUME TypeInv, CallsInv, NEW c \in calls
  PROVE  /\ c \in CallType /\ c.mark \in Mark /\ c.stored \in BOOLEAN
         /\ c.now \in Time /\ c.now \in Nat /\ c.now <= clock
         /\ c.mark.kind \in Kind => c.mark = Of(c.mark.kind)
         /\ c.mark.kind \in {"synced", "event"} =>
              c.mark.informer \in Informer /\ c.mark = OfInformer(c.mark.kind, c.mark.informer)
<1>1. c \in CallType /\ c.now \in 1..clock
  BY DEF TypeInv, CallsInv
<1>2. c.mark \in Mark /\ c.stored \in BOOLEAN
  BY <1>1 DEF CallType
<1>3. c.now \in Time /\ c.now \in Nat /\ c.now <= clock
  BY <1>1, HealthAssumption DEF TypeInv, Time, Never
<1>4. QED  BY <1>1, <1>2, <1>3, MarksByKind DEF Kind

LEMMA MarkedFields ==
  ASSUME NEW s \in StateType, NEW c \in CallType, NEW t \in Time
  PROVE  /\ Marked(s, c, t) \in StateType
         /\ Marked(s, c, t).synced =
              IF c.mark.kind = "synced" THEN s.synced \cup {c.mark.informer} ELSE s.synced
         /\ \A i \in Informer : Marked(s, c, t).last[i] =
              IF c.mark.kind = "event" /\ c.mark.informer = i THEN t ELSE s.last[i]
         /\ Marked(s, c, t).shuttingDown = (s.shuttingDown \/ c.mark.kind = "shutdown")
         /\ Marked(s, c, t).isLeader =
              IF c.mark.kind \in {"leader", "follower"} THEN c.mark.kind = "leader" ELSE s.isLeader
<1>1. CASE c.mark.kind = "synced"
  <2>1. Marked(s, c, t) = [s EXCEPT !.synced = @ \cup {c.mark.informer}]
    BY <1>1 DEF Marked
  <2>2. c.mark.informer \in Informer
    BY <1>1, MarksByKind DEF CallType, Kind
  <2>3. QED  BY <1>1, <2>1, <2>2 DEF StateType
<1>2. CASE c.mark.kind = "event"
  <2>1. Marked(s, c, t) = [s EXCEPT !.last[c.mark.informer] = t]
    BY <1>2 DEF Marked
  <2>2. c.mark.informer \in Informer
    BY <1>2, MarksByKind DEF CallType, Kind
  <2>3. QED  BY <1>2, <2>1, <2>2 DEF StateType
<1>3. CASE c.mark.kind = "shutdown"
  <2>1. Marked(s, c, t) = [s EXCEPT !.shuttingDown = TRUE]
    BY <1>3 DEF Marked
  <2>2. QED  BY <1>3, <2>1 DEF StateType
<1>4. CASE c.mark.kind \in {"leader", "follower"}
  <2>1. Marked(s, c, t) = [s EXCEPT !.isLeader = (c.mark.kind = "leader")]
    BY <1>4 DEF Marked
  <2>2. QED  BY <1>4, <2>1 DEF StateType
<1>5. QED  BY <1>1, <1>2, <1>3, <1>4, MarksByKind DEF CallType, Kind
-----------------------------------------------------------------------------
(* Steps: a Mark function begins, stores, sets its gauge; or another step. *)

OtherStep ==
  /\ UNCHANGED <<config, state, gauge, calls, begun, heard>>
  /\ clock' = clock \/ (clock < MaxTime /\ clock' = clock + 1)

LEMMA StepCases ==
  ASSUME [Next]_vars
  PROVE  \/ \E m \in Mark : Call(m)
         \/ \E c \in calls : Store(c)
         \/ \E c \in calls : SetGauge(c)
         \/ OtherStep
<1>1. ASSUME NEW q \in Request, (\E path \in Path : Receive(q, path)) \/ Judge(q) \/ Respond(q)
      PROVE  OtherStep
  BY <1>1 DEF Receive, Judge, Respond, OtherStep
<1>2. CASE Tick \/ UNCHANGED vars
  BY <1>2 DEF Tick, vars, OtherStep
<1>3. QED  BY <1>1, <1>2 DEF Next

LEMMA AfterCall ==
  ASSUME TypeInv, CallsInv, NEW m \in Mark, Call(m)
  PROVE  /\ \A n : Stored(n)' <=> Stored(n)
         /\ \A n \in Mark : n.kind # "event" => (Done(n)' <=> Done(n))
<1> DEFINE c == [mark |-> m, now |-> clock, stored |-> FALSE]
<1>1. calls' = calls \cup {c} /\ c.mark = m /\ c.stored = FALSE
  BY DEF Call
<1>2. \A n : Stored(n)' <=> Stored(n)
  BY <1>1 DEF Stored
<1>3. m.kind # "event" => m \notin begun /\ begun' = begun \cup {m}
  BY DEF Call, MayCall
<1>4. m.kind = "event" => begun' = begun
  BY DEF Call
<1>5. ASSUME NEW n \in Mark, n.kind # "event" PROVE Done(n)' <=> Done(n)
  BY <1>1, <1>3, <1>4, <1>5 DEF Done
<1>6. QED  BY <1>2, <1>5

\* The call d that c has become.
LEMMA AfterStore ==
  ASSUME TypeInv, CallsInv, NEW c \in calls, Store(c)
  PROVE  /\ \A n : Stored(n)' <=> (Stored(n) \/ n = c.mark)
         /\ \A n : Done(n)' <=> Done(n)
         /\ \E d \in CallType : /\ calls' = (calls \ {c}) \cup {d}
                                /\ d.mark = c.mark /\ d.now = c.now /\ d.stored = TRUE
<1> DEFINE d == [c EXCEPT !.stored = TRUE]
<1>1. calls' = (calls \ {c}) \cup {d} /\ begun' = begun /\ c.stored = FALSE
  BY DEF Store, TypeInv, CallType
<1>2. d \in CallType /\ d.mark = c.mark /\ d.now = c.now /\ d.stored = TRUE
  BY DEF TypeInv, CallType
<1> HIDE DEF d
<1>3. \A n : Stored(n)' <=> (Stored(n) \/ n = c.mark)
  BY <1>1, <1>2 DEF Stored
<1>4. \A n : Done(n)' <=> Done(n)
  BY <1>1, <1>2 DEF Done
<1>5. QED  BY <1>1, <1>2, <1>3, <1>4

LEMMA AfterSetGauge ==
  ASSUME TypeInv, CallsInv, NEW c \in calls, SetGauge(c)
  PROVE  /\ Stored(c.mark)
         /\ \A n : Stored(n)' <=> (Stored(n) /\ n # c.mark)
         /\ \A n \in Mark : n.kind # "event" => (Done(n)' <=> (Done(n) \/ n = c.mark))
<1>1. calls' = calls \ {c} /\ begun' = begun /\ c.stored
  BY DEF SetGauge
<1>2. \A d \in calls : d.mark = c.mark => d = c
  BY DEF CallsInv
<1>3. c.mark.kind # "event" => c.mark \in begun
  BY DEF CallsInv
<1>4. Stored(c.mark)
  BY <1>1 DEF Stored
<1>5. \A n : Stored(n)' <=> (Stored(n) /\ n # c.mark)
  BY <1>1, <1>2 DEF Stored
<1>6. \A n \in Mark : n.kind # "event" => (Done(n)' <=> (Done(n) \/ n = c.mark))
  BY <1>1, <1>2, <1>3 DEF Done
<1>7. QED  BY <1>4, <1>5, <1>6

LEMMA StoredFields ==
  ASSUME TypeInv, CallsInv, NEW c \in calls, Store(c)
  PROVE  /\ state' \in StateType
         /\ state'.synced =
              IF c.mark.kind = "synced" THEN state.synced \cup {c.mark.informer} ELSE state.synced
         /\ \A i \in Informer : state'.last[i] =
              IF c.mark.kind = "event" /\ c.mark.informer = i THEN c.now ELSE state.last[i]
         /\ state'.shuttingDown = (state.shuttingDown \/ c.mark.kind = "shutdown")
         /\ state'.isLeader =
              IF c.mark.kind \in {"leader", "follower"} THEN c.mark.kind = "leader" ELSE state.isLeader
<1>1. state' = Marked(state, c, c.now)
  BY DEF Store
<1>2. state \in StateType /\ c \in CallType /\ c.now \in Time
  BY CallFacts DEF TypeInv
<1>3. QED  BY <1>1, <1>2, MarkedFields

LEMMA GaugeFields ==
  ASSUME TypeInv, CallsInv, NEW c \in calls, SetGauge(c)
  PROVE  /\ gauge' \in StateType
         /\ gauge'.synced =
              IF c.mark.kind = "synced" THEN gauge.synced \cup {c.mark.informer} ELSE gauge.synced
         /\ \A i \in Informer : gauge'.last[i] =
              IF c.mark.kind = "event" /\ c.mark.informer = i THEN c.now ELSE gauge.last[i]
         /\ gauge'.shuttingDown = (gauge.shuttingDown \/ c.mark.kind = "shutdown")
         /\ gauge'.isLeader =
              IF c.mark.kind \in {"leader", "follower"} THEN c.mark.kind = "leader" ELSE gauge.isLeader
<1>1. gauge' = Marked(gauge, c, c.now)
  BY DEF SetGauge
<1>2. gauge \in StateType /\ c \in CallType /\ c.now \in Time
  BY CallFacts DEF TypeInv
<1>3. QED  BY <1>1, <1>2, MarkedFields

LEMMA AfterOther ==
  ASSUME OtherStep
  PROVE  /\ \A n : Stored(n)' <=> Stored(n)
         /\ \A n : Done(n)' <=> Done(n)
  BY DEF OtherStep, Stored, Done

-----------------------------------------------------------------------------
(* Types and calls.                                                        *)

LEMMA TypeNext == TypeInv /\ CallsInv /\ HeardInv /\ [Next]_vars => TypeInv'
<1> SUFFICES ASSUME TypeInv, CallsInv, HeardInv, [Next]_vars PROVE TypeInv'
  OBVIOUS
<1> USE HealthAssumption
<1>1. ASSUME NEW m \in Mark, Call(m) PROVE TypeInv'
  <2>1. [mark |-> m, now |-> clock, stored |-> FALSE] \in CallType
    BY DEF TypeInv, CallType
  <2>2. begun' \subseteq Mark
    BY <1>1 DEF Call, TypeInv
  <2>3. QED  BY <1>1, <2>1, <2>2 DEF Call, TypeInv
<1>2. ASSUME NEW c \in calls, Store(c) PROVE TypeInv'
  <2>1. calls' \subseteq CallType
    BY <1>2, AfterStore DEF TypeInv
  <2>2. QED  BY <1>2, <2>1, StoredFields DEF Store, TypeInv
<1>3. ASSUME NEW c \in calls, SetGauge(c) PROVE TypeInv'
  BY <1>3, GaugeFields DEF SetGauge, TypeInv
<1>4. heard \in Time
  BY DEF HeardInv, TypeInv, StateType, Informer, maxTime
<1>5. ASSUME NEW q \in Request, NEW path \in Path, Receive(q, path) PROVE TypeInv'
  <2>1. request' \in [Request -> RequestType \cup {Nothing}]
    BY <1>4, <1>5 DEF Receive, TypeInv, RequestType, Time, Never
  <2>2. QED  BY <1>5, <2>1 DEF Receive, TypeInv
<1>6. ASSUME NEW q \in Request, Judge(q) PROVE TypeInv'
  <2> DEFINE v == IF request[q].path = "readyz" THEN IsReady(state, request[q].now) ELSE IsLive(state)
  <2>1. v \in BOOLEAN
    BY DEF IsReady, IsLive, TypeInv, StateType, InService
  <2>2. request[q] \in RequestType
    BY <1>6 DEF Judge, TypeInv
  <2>3. request' = [request EXCEPT ![q] = [request[q] EXCEPT !.verdict = v]]
    BY <1>6 DEF Judge
  <2> HIDE DEF v
  <2>4. [request[q] EXCEPT !.verdict = v] \in RequestType
    BY <2>1, <2>2 DEF RequestType
  <2>5. request' \in [Request -> RequestType \cup {Nothing}]
    BY <2>3, <2>4 DEF TypeInv
  <2>6. QED  BY <1>6, <2>5 DEF Judge, TypeInv
<1>7. ASSUME NEW q \in Request, Respond(q) PROVE TypeInv'
  <2>1. request[q].path \in Path /\ request[q].verdict \in BOOLEAN
    BY <1>7 DEF Respond, TypeInv, RequestType
  <2>2. QED  BY <1>7, <2>1 DEF Respond, TypeInv
<1>8. CASE Tick
  BY <1>8 DEF Tick, TypeInv
<1>9. CASE UNCHANGED vars
  BY <1>9 DEF vars, TypeInv
<1>10. QED  BY <1>1, <1>2, <1>3, <1>5, <1>6, <1>7, <1>8, <1>9 DEF Next

LEMMA CallsNext == TypeInv /\ CallsInv /\ [Next]_vars => CallsInv'
<1> SUFFICES ASSUME TypeInv, CallsInv, [Next]_vars PROVE CallsInv'
  OBVIOUS
<1>1. clock \in Nat \ {0}
  BY HealthAssumption DEF TypeInv
<1>2. ASSUME NEW m \in Mark, Call(m) PROVE CallsInv'
  <2> DEFINE c == [mark |-> m, now |-> clock, stored |-> FALSE]
  <2>1. calls' = calls \cup {c} /\ clock' = clock /\ c.mark = m /\ c.now = clock
    BY <1>2 DEF Call
  <2>2. \A d \in calls : d.mark # m
    BY <1>2 DEF Call, MayCall
  <2>3. m.kind # "event" => m \in begun'
    BY <1>2 DEF Call
  <2>4. begun \subseteq begun'
    BY <1>2 DEF Call
  <2> HIDE DEF c
  <2>5. QED  BY <1>1, <2>1, <2>2, <2>3, <2>4 DEF CallsInv
<1>3. ASSUME NEW c \in calls, Store(c) PROVE CallsInv'
  <2>1. PICK d \in CallType : /\ calls' = (calls \ {c}) \cup {d}
                              /\ d.mark = c.mark /\ d.now = c.now /\ d.stored = TRUE
    BY <1>3, AfterStore
  <2>2. begun' = begun /\ clock' = clock
    BY <1>3 DEF Store
  <2>3. QED  BY <2>1, <2>2 DEF CallsInv
<1>4. ASSUME NEW c \in calls, SetGauge(c) PROVE CallsInv'
  BY <1>4 DEF SetGauge, CallsInv
<1>5. CASE OtherStep
  <2>1. calls' = calls /\ begun' = begun /\ (clock' = clock \/ clock' = clock + 1)
    BY <1>5 DEF OtherStep
  <2>2. QED  BY <1>1, <2>1 DEF CallsInv
<1>6. QED  BY <1>2, <1>3, <1>4, <1>5, StepCases
-----------------------------------------------------------------------------
(* The fields and their gauges.                                            *)

LEMMA SyncedNext == TypeInv /\ CallsInv /\ SyncedInv /\ [Next]_vars => SyncedInv'
<1> SUFFICES ASSUME TypeInv, CallsInv, SyncedInv, [Next]_vars PROVE SyncedInv'
  OBVIOUS
<1>1. \A i \in Informer : /\ OfInformer("synced", i).kind = "synced"
                          /\ OfInformer("synced", i).informer = i
  BY MarksByKind
<1>2. \A c \in calls : /\ c \in CallType /\ c.now \in Time
                       /\ c.mark.kind = "synced" =>
                            c.mark.informer \in Informer /\ c.mark = OfInformer("synced", c.mark.informer)
  BY CallFacts
<1>3. ASSUME NEW m \in Mark, Call(m) PROVE SyncedInv'
  BY <1>3, AfterCall DEF SyncedInv, Call
<1>4. ASSUME NEW c \in calls, Store(c) PROVE SyncedInv'
  <2>1. /\ gauge' = gauge
        /\ state'.synced =
             IF c.mark.kind = "synced" THEN state.synced \cup {c.mark.informer} ELSE state.synced
    BY <1>4, StoredFields DEF Store
  <2>2. \A n : Stored(n)' <=> (Stored(n) \/ n = c.mark)
    BY <1>4, AfterStore
  <2>3. QED  BY <1>1, <1>2, <2>1, <2>2 DEF SyncedInv
<1>5. ASSUME NEW c \in calls, SetGauge(c) PROVE SyncedInv'
  <2>1. /\ state' = state
        /\ gauge'.synced =
             IF c.mark.kind = "synced" THEN gauge.synced \cup {c.mark.informer} ELSE gauge.synced
    BY <1>5, GaugeFields DEF SetGauge
  <2>2. Stored(c.mark) /\ \A n : Stored(n)' <=> (Stored(n) /\ n # c.mark)
    BY <1>5, AfterSetGauge
  <2>3. QED  BY <1>1, <1>2, <2>1, <2>2 DEF SyncedInv
<1>6. CASE OtherStep
  BY <1>6, AfterOther DEF SyncedInv, OtherStep
<1>7. QED  BY <1>3, <1>4, <1>5, <1>6, StepCases

LEMMA LastNext == TypeInv /\ CallsInv /\ LastInv /\ [Next]_vars => LastInv'
<1> SUFFICES ASSUME TypeInv, CallsInv, LastInv, [Next]_vars PROVE LastInv'
  OBVIOUS
<1> DEFINE event(i) == OfInformer("event", i)
<1>1. \A i \in Informer : event(i).kind = "event" /\ event(i).informer = i
  BY MarksByKind
<1> HIDE DEF event
<1>2. \A c \in calls : /\ c \in CallType /\ c.now \in Time /\ c.now \in Nat /\ c.now <= clock
                       /\ c.mark.kind = "event" =>
                            c.mark.informer \in Informer /\ c.mark = event(c.mark.informer)
  BY CallFacts DEF event
<1>3. /\ clock \in Nat
      /\ \A i \in Informer : state.last[i] \in Nat /\ gauge.last[i] \in Nat
  BY HealthAssumption DEF TypeInv, StateType, Time, Never
<1>4. \A i \in Informer :
        /\ state.last[i] <= clock
        /\ gauge.last[i] = state.last[i] \/ Stored(event(i))
        /\ \A c \in calls : c.mark = event(i) =>
             IF c.stored THEN state.last[i] = c.now ELSE state.last[i] <= c.now
  BY DEF LastInv, event
<1>5. ASSUME \A i \in Informer :
        /\ state'.last[i] <= clock'
        /\ gauge'.last[i] = state'.last[i] \/ Stored(event(i))'
        /\ \A c \in calls' : c.mark = event(i) =>
             IF c.stored THEN state'.last[i] = c.now ELSE state'.last[i] <= c.now
      PROVE LastInv'
  BY <1>5 DEF LastInv, event
<1>6. ASSUME NEW m \in Mark, Call(m) PROVE LastInv'
  <2> DEFINE c == [mark |-> m, now |-> clock, stored |-> FALSE]
  <2>1. /\ calls' = calls \cup {c} /\ c.now = clock /\ c.stored = FALSE
        /\ state' = state /\ gauge' = gauge /\ clock' = clock
    BY <1>6 DEF Call
  <2>2. \A n : Stored(n)' <=> Stored(n)
    BY <1>6, AfterCall
  <2> HIDE DEF c
  <2>3. QED  BY <1>3, <1>4, <1>5, <2>1, <2>2
<1>7. ASSUME NEW c \in calls, Store(c) PROVE LastInv'
  <2>1. PICK d \in CallType : /\ calls' = (calls \ {c}) \cup {d}
                              /\ d.mark = c.mark /\ d.now = c.now /\ d.stored = TRUE
    BY <1>7, AfterStore
  <2>2. gauge' = gauge /\ clock' = clock /\ c.stored = FALSE
    BY <1>2, <1>7 DEF Store, CallType
  <2>3. \A i \in Informer : state'.last[i] =
          IF c.mark.kind = "event" /\ c.mark.informer = i THEN c.now ELSE state.last[i]
    BY <1>7, StoredFields DEF Store
  <2>4. \A n : Stored(n)' <=> (Stored(n) \/ n = c.mark)
    BY <1>7, AfterStore
  <2>5. \A e \in calls : e.mark = c.mark => e = c
    BY DEF CallsInv
  <2>6. ASSUME NEW i \in Informer
        PROVE  /\ state'.last[i] <= clock'
               /\ gauge'.last[i] = state'.last[i] \/ Stored(event(i))'
               /\ \A e \in calls' : e.mark = event(i) =>
                    IF e.stored THEN state'.last[i] = e.now ELSE state'.last[i] <= e.now
    <3>1. CASE c.mark = event(i)
      <4>1. state'.last[i] = c.now /\ Stored(event(i))'
        BY <1>1, <2>3, <2>4, <3>1
      <4>2. \A e \in calls' : e.mark = event(i) => e = d
        BY <2>1, <2>5, <3>1
      <4>3. QED  BY <1>2, <2>1, <2>2, <4>1, <4>2
    <3>2. CASE c.mark # event(i)
      <4>1. state'.last[i] = state.last[i]
        BY <1>2, <2>3, <3>2
      <4>2. \A e \in calls' : e.mark = event(i) => e \in calls
        BY <2>1, <3>2
      <4>3. QED  BY <1>4, <2>2, <2>4, <4>1, <4>2
    <3>3. QED  BY <3>1, <3>2
  <2>7. QED  BY <1>5, <2>6
<1>8. ASSUME NEW c \in calls, SetGauge(c) PROVE LastInv'
  <2>1. state' = state /\ clock' = clock /\ calls' \subseteq calls /\ c.stored
    BY <1>8 DEF SetGauge
  <2>2. \A i \in Informer : gauge'.last[i] =
          IF c.mark.kind = "event" /\ c.mark.informer = i THEN c.now ELSE gauge.last[i]
    BY <1>8, GaugeFields DEF SetGauge
  <2>3. \A n : Stored(n)' <=> (Stored(n) /\ n # c.mark)
    BY <1>8, AfterSetGauge
  <2>4. \A i \in Informer : gauge'.last[i] = state'.last[i] \/ Stored(event(i))'
    BY <1>1, <1>2, <1>4, <2>1, <2>2, <2>3
  <2>5. QED  BY <1>4, <1>5, <2>1, <2>4
<1>9. CASE OtherStep
  <2>1. /\ state' = state /\ gauge' = gauge /\ calls' = calls
        /\ clock' = clock \/ clock' = clock + 1
    BY <1>9 DEF OtherStep
  <2>2. \A n : Stored(n)' <=> Stored(n)
    BY <1>9, AfterOther
  <2>3. QED  BY <1>3, <1>4, <1>5, <2>1, <2>2
<1>10. QED  BY <1>6, <1>7, <1>8, <1>9, StepCases

\* No event is stored out of order, so the newest time stored is that of the fields.
LEMMA HeardNext ==
  TypeInv /\ CallsInv /\ LastInv /\ HeardInv /\ [Next]_vars => HeardInv' /\ heard <= heard'
<1> SUFFICES ASSUME TypeInv, CallsInv, LastInv, HeardInv, [Next]_vars
             PROVE  HeardInv' /\ heard <= heard'
  OBVIOUS
<1>1. \A i \in Informer : state.last[i] \in Nat
  BY DEF TypeInv, StateType, Time, Never
<1>2. heard \in Nat
  BY <1>1 DEF HeardInv, Informer, maxTime
<1>3. ASSUME UNCHANGED <<state, heard>> PROVE HeardInv' /\ heard <= heard'
  BY <1>2, <1>3 DEF HeardInv
<1>4. ASSUME NEW c \in calls, Store(c) PROVE HeardInv' /\ heard <= heard'
  <2>1. c \in CallType /\ c.now \in Time /\ c.now \in Nat /\ ~c.stored
    BY <1>4, CallFacts DEF Store
  <2>2. \A i \in Informer : state'.last[i] =
          IF c.mark.kind = "event" /\ c.mark.informer = i THEN c.now ELSE state.last[i]
    BY <1>4, StoredFields
  <2>3. heard' = IF c.mark.kind = "event" /\ c.now > heard THEN c.now ELSE heard
    BY <1>4 DEF Store
  <2>4. c.mark.kind = "event" =>
          c.mark.informer \in Informer /\ state.last[c.mark.informer] <= c.now
    BY <2>1, MarksByKind DEF CallType, LastInv, Kind
  <2>5. QED  BY <1>1, <1>2, <2>1, <2>2, <2>3, <2>4 DEF HeardInv, Informer, maxTime
<1>5. QED  BY <1>3, <1>4, StepCases DEF Call, SetGauge, OtherStep

LEMMA ShutdownNext == TypeInv /\ CallsInv /\ ShutdownInv /\ [Next]_vars => ShutdownInv'
<1> SUFFICES ASSUME TypeInv, CallsInv, ShutdownInv, [Next]_vars PROVE ShutdownInv'
  OBVIOUS
<1> DEFINE m == Of("shutdown")
<1>1. m \in Mark /\ m.kind = "shutdown"
  BY MarksByKind DEF Kind
<1>2. \A c \in calls : /\ c \in CallType /\ c.now \in Time
                       /\ c.mark.kind = "shutdown" => c.mark = m
  BY CallFacts DEF Kind
<1>3. (state.shuttingDown \in BOOLEAN) /\ (gauge.shuttingDown \in BOOLEAN)
  BY DEF TypeInv, StateType
<1>4. /\ gauge.shuttingDown => state.shuttingDown
      /\ state.shuttingDown => gauge.shuttingDown \/ Stored(m)
      /\ Stored(m) => state.shuttingDown
  BY DEF ShutdownInv
<1>5. ASSUME /\ gauge'.shuttingDown => state'.shuttingDown
             /\ state'.shuttingDown => gauge'.shuttingDown \/ Stored(m)'
             /\ Stored(m)' => state'.shuttingDown
      PROVE  ShutdownInv'
  BY <1>5 DEF ShutdownInv, m
<1> HIDE DEF m
<1>6. ASSUME NEW n \in Mark, Call(n) PROVE ShutdownInv'
  <2>1. state' = state /\ gauge' = gauge
    BY <1>6 DEF Call
  <2>2. Stored(m)' <=> Stored(m)
    BY <1>6, AfterCall
  <2>3. QED  BY <1>4, <1>5, <2>1, <2>2
<1>7. ASSUME NEW c \in calls, Store(c) PROVE ShutdownInv'
  <2>1. gauge' = gauge /\ state'.shuttingDown = (state.shuttingDown \/ c.mark.kind = "shutdown")
    BY <1>7, StoredFields DEF Store
  <2>2. Stored(m)' <=> (Stored(m) \/ m = c.mark)
    BY <1>7, AfterStore
  <2>3. QED  BY <1>1, <1>2, <1>3, <1>4, <1>5, <2>1, <2>2
<1>8. ASSUME NEW c \in calls, SetGauge(c) PROVE ShutdownInv'
  <2>1. state' = state /\ gauge'.shuttingDown = (gauge.shuttingDown \/ c.mark.kind = "shutdown")
    BY <1>8, GaugeFields DEF SetGauge
  <2>2. Stored(c.mark) /\ (Stored(m)' <=> (Stored(m) /\ m # c.mark))
    BY <1>8, AfterSetGauge
  <2>3. QED  BY <1>1, <1>2, <1>3, <1>4, <1>5, <2>1, <2>2
<1>9. CASE OtherStep
  BY <1>4, <1>5, <1>9, AfterOther DEF OtherStep
<1>10. QED  BY <1>6, <1>7, <1>8, <1>9, StepCases

LEMMA LeaderNext == TypeInv /\ CallsInv /\ LeaderInv /\ [Next]_vars => LeaderInv'
<1> SUFFICES ASSUME TypeInv, CallsInv, LeaderInv, [Next]_vars PROVE LeaderInv'
  OBVIOUS
<1> DEFINE l == Of("leader")
           f == Of("follower")
<1>1. /\ l \in Mark /\ l.kind = "leader"
      /\ f \in Mark /\ f.kind = "follower"
      /\ \A m \in Mark : (m.kind = "leader" => m = l) /\ (m.kind = "follower" => m = f)
  BY MarksByKind DEF Kind
<1>2. state.isLeader \in BOOLEAN /\ gauge.isLeader \in BOOLEAN
  BY DEF TypeInv, StateType
<1>3. f \notin begun =>
        /\ Stored(l) => state.isLeader
        /\ gauge.isLeader # state.isLeader => Stored(l)
  BY GivenUpMark DEF LeaderInv
<1>4. ASSUME f \notin begun' =>
               /\ Stored(l)' => state'.isLeader
               /\ gauge'.isLeader # state'.isLeader => Stored(l)'
      PROVE  LeaderInv'
  <2>1. GivenUp' <=> f \in begun'
    BY FollowerMark DEF GivenUp
  <2>2. QED  BY <1>4, <2>1 DEF LeaderInv
<1> HIDE DEF l, f
<1>5. ASSUME NEW m \in Mark, Call(m) PROVE LeaderInv'
  <2>1. UNCHANGED <<state, gauge>> /\ begun \subseteq begun'
    BY <1>5 DEF Call
  <2>2. Stored(l)' <=> Stored(l)
    BY <1>5, AfterCall
  <2>3. QED  BY <1>3, <1>4, <2>1, <2>2
<1>6. ASSUME NEW c \in calls, Store(c) PROVE LeaderInv'
  <2>1. gauge' = gauge /\ begun' = begun
    BY <1>6 DEF Store
  <2>2. Stored(l)' <=> (Stored(l) \/ l = c.mark)
    BY <1>6, AfterStore
  <2>3. state'.isLeader =
          IF c.mark.kind \in {"leader", "follower"} THEN c.mark.kind = "leader" ELSE state.isLeader
    BY <1>6, StoredFields
  <2>4. c.mark \in Mark /\ (c.mark.kind = "follower" => f \in begun)
    BY <1>1, CallFacts DEF CallsInv
  <2>5. QED  BY <1>1, <1>2, <1>3, <1>4, <2>1, <2>2, <2>3, <2>4
<1>7. ASSUME NEW c \in calls, SetGauge(c) PROVE LeaderInv'
  <2>1. state' = state /\ begun' = begun
    BY <1>7 DEF SetGauge
  <2>2. Stored(c.mark) /\ (Stored(l)' <=> (Stored(l) /\ l # c.mark))
    BY <1>7, AfterSetGauge
  <2>3. gauge'.isLeader =
          IF c.mark.kind \in {"leader", "follower"} THEN c.mark.kind = "leader" ELSE gauge.isLeader
    BY <1>7, GaugeFields
  <2>4. /\ c.mark.kind = "leader" <=> c.mark = l
        /\ c.mark.kind = "follower" => f \in begun
    BY <1>1, CallFacts DEF CallsInv
  <2>5. QED  BY <1>2, <1>3, <1>4, <2>1, <2>2, <2>3, <2>4
<1>8. CASE OtherStep
  BY <1>3, <1>4, <1>8, AfterOther DEF OtherStep
<1>9. QED  BY <1>5, <1>6, <1>7, <1>8, StepCases

-----------------------------------------------------------------------------
(* The requests.                                                           *)

\* A shutdown and a sync last, and only what gives the lead up ends it.
LEMMA StateGrows ==
  ASSUME TypeInv, CallsInv, [Next]_vars
  PROVE  /\ state.shuttingDown => state'.shuttingDown
         /\ state.synced = Informer => state'.synced = Informer
         /\ Led => Led'
<1>1. ASSUME NEW c \in calls, Store(c)
      PROVE  /\ state.shuttingDown => state'.shuttingDown
             /\ state.synced = Informer => state'.synced = Informer
             /\ Led => Led'
  <2>1. c.mark.kind = "synced" => c.mark.informer \in Informer
    BY CallFacts
  <2>2. c.mark.kind = "follower" => GivenUp
    BY CallFacts, GivenUpMark DEF CallsInv, Kind
  <2>3. config' = config /\ begun' = begun
    BY <1>1 DEF Store
  <2>4. state'.isLeader =
          IF c.mark.kind \in {"leader", "follower"} THEN c.mark.kind = "leader" ELSE state.isLeader
    BY <1>1, StoredFields
  <2>5. Led => Led'
    BY <2>2, <2>3, <2>4 DEF Led, GivenUp
  <2>6. QED  BY <1>1, <2>1, <2>5, StoredFields
<1>2. ASSUME UNCHANGED <<config, state>>, begun \subseteq begun' PROVE Led => Led'
  BY <1>2 DEF Led, GivenUp
<1>3. QED  BY <1>1, <1>2, StepCases DEF Call, SetGauge, OtherStep

LEMMA ProbeNext ==
  TypeInv /\ CallsInv /\ LastInv /\ HeardInv /\ ProbeInv /\ [Next]_vars => ProbeInv'
<1> SUFFICES ASSUME TypeInv, CallsInv, LastInv, HeardInv, ProbeInv, [Next]_vars PROVE ProbeInv'
  OBVIOUS
<1> DEFINE RequestOK(x) ==
             /\ x.now <= clock /\ x.before <= x.now /\ x.before <= heard
             /\ x.path = "healthz" /\ x.verdict = FALSE => state.shuttingDown
             /\ x.path = "readyz" /\ x.verdict = TRUE => state.synced = Informer /\ Led
           Probed ==
             /\ ~probed["healthz"] => state.shuttingDown
             /\ probed["readyz"] => state.synced = Informer
<1>1. heard \in Nat /\ heard <= clock /\ clock \in Nat
  BY HealthAssumption DEF TypeInv, StateType, Time, Never, LastInv, HeardInv, Informer, maxTime
<1>2. /\ heard <= heard' /\ heard' \in Nat
      /\ clock' = clock \/ clock' = clock + 1
      /\ state.shuttingDown => state'.shuttingDown
      /\ state.synced = Informer => state'.synced = Informer
      /\ Led => Led'
  <2>1. clock' = clock \/ clock' = clock + 1
    BY StepCases DEF Call, Store, SetGauge, OtherStep
  <2>2. heard' \in Nat
    BY <1>1, CallFacts, StepCases DEF Call, Store, SetGauge, OtherStep
  <2>3. QED  BY <2>1, <2>2, StateGrows, HeardNext
<1>3. \A x \in RequestType : RequestOK(x) =>
        /\ x.now <= clock' /\ x.before <= x.now /\ x.before <= heard'
        /\ x.path = "healthz" /\ x.verdict = FALSE => state'.shuttingDown
        /\ x.path = "readyz" /\ x.verdict = TRUE => state'.synced = Informer /\ Led'
  BY <1>1, <1>2 DEF RequestType, Time, Never
<1>4. \A q \in Request : request[q] # Nothing => request[q] \in RequestType /\ RequestOK(request[q])
  BY DEF TypeInv, ProbeInv
<1>5. Probed
  BY DEF ProbeInv
<1>6. ASSUME \A q \in Request : request'[q] # Nothing =>
               request'[q] = request[q] \/ (request'[q] \in RequestType /\ RequestOK(request'[q])),
             probed' = probed \/ Probed'
      PROVE  ProbeInv'
  <2>1. \A q \in Request : request'[q] # Nothing => request'[q] \in RequestType /\ RequestOK(request'[q])
    BY <1>4, <1>6
  <2> HIDE DEF RequestOK
  <2>2. \A q \in Request : request'[q] # Nothing =>
          /\ request'[q].now <= clock' /\ request'[q].before <= request'[q].now
          /\ request'[q].before <= heard'
          /\ request'[q].path = "healthz" /\ request'[q].verdict = FALSE => state'.shuttingDown
          /\ request'[q].path = "readyz" /\ request'[q].verdict = TRUE => state'.synced = Informer /\ Led'
    BY <1>3, <2>1
  <2>3. Probed'
    BY <1>2, <1>5, <1>6
  <2>4. QED  BY <2>2, <2>3 DEF ProbeInv
<1> HIDE DEF RequestOK
<1>7. ASSUME UNCHANGED <<request, probed>> PROVE ProbeInv'
  BY <1>6, <1>7
<1>8. ASSUME NEW q \in Request, NEW path \in Path, Receive(q, path) PROVE ProbeInv'
  <2> DEFINE x == IF path = "readyz"
                  THEN [path |-> path, now |-> clock, before |-> heard, verdict |-> Nothing]
                  ELSE [path |-> path, now |-> Never, before |-> Never, verdict |-> Nothing]
  <2>1. request' = [request EXCEPT ![q] = x] /\ probed' = probed
    BY <1>8 DEF Receive
  <2>2. x \in RequestType
    BY <1>1, HealthAssumption DEF TypeInv, RequestType, Time, Never
  <2>3. RequestOK(x)
    <3>1. x.now \in {clock, Never} /\ x.before \in {heard, Never} /\ x.verdict = Nothing
      OBVIOUS
    <3>2. x.now <= clock /\ x.before <= x.now /\ x.before <= heard
      BY <1>1 DEF Never
    <3>3. x.verdict # TRUE /\ x.verdict # FALSE
      BY <3>1, HealthAssumption
    <3>4. QED  BY <3>2, <3>3 DEF RequestOK
  <2> HIDE DEF x
  <2>4. QED  BY <1>6, <2>1, <2>2, <2>3 DEF TypeInv
<1>9. ASSUME NEW q \in Request, Judge(q) PROVE ProbeInv'
  <2> DEFINE v == IF request[q].path = "readyz" THEN IsReady(state, request[q].now) ELSE IsLive(state)
             x == [request[q] EXCEPT !.verdict = v]
  <2>1. request[q] # Nothing
    BY <1>9 DEF Judge
  <2>2. request[q] \in RequestType /\ RequestOK(request[q])
    BY <1>4, <2>1
  <2>3. v \in BOOLEAN
    BY DEF IsReady, IsLive, InService, TypeInv, StateType
  <2>4. /\ request[q].path = "healthz" /\ v = FALSE => state.shuttingDown
        /\ request[q].path = "readyz" /\ v = TRUE => state.synced = Informer /\ Led
    BY DEF IsLive, IsReady, InService, Led
  <2>5. request' = [request EXCEPT ![q] = x] /\ probed' = probed
    BY <1>9 DEF Judge
  <2> HIDE DEF v
  <2>6. /\ x \in RequestType /\ x.now = request[q].now /\ x.before = request[q].before
        /\ x.path = request[q].path /\ x.verdict = v
    BY <2>2, <2>3 DEF RequestType
  <2> HIDE DEF x
  <2>7. RequestOK(x)
    BY <2>2, <2>4, <2>6 DEF RequestOK
  <2>8. QED  BY <1>6, <2>5, <2>6, <2>7 DEF TypeInv
<1>10. ASSUME NEW q \in Request, Respond(q) PROVE ProbeInv'
  <2> DEFINE path == request[q].path
             v == request[q].verdict
  <2>1. request[q] # Nothing /\ v # Nothing
    BY <1>10 DEF Respond
  <2>2. path \in Path /\ v \in BOOLEAN
    BY <1>4, <2>1 DEF RequestType
  <2>3. /\ path = "healthz" /\ v = FALSE => state.shuttingDown
        /\ path = "readyz" /\ v = TRUE => state.synced = Informer
    BY <1>4, <2>1 DEF RequestOK
  <2>4. /\ probed' = [probed EXCEPT ![path] = v] /\ state' = state
        /\ request' = [request EXCEPT ![q] = Nothing]
    BY <1>10 DEF Respond
  <2> HIDE DEF path, v
  <2>5. Probed'
    BY <1>5, <2>2, <2>3, <2>4 DEF TypeInv, Path
  <2>6. QED  BY <1>6, <2>4, <2>5 DEF TypeInv
<1>11. QED
  BY <1>7, <1>8, <1>9, <1>10 DEF Next, Call, Store, SetGauge, Tick, vars

-----------------------------------------------------------------------------
(* The theorems.                                                           *)

LEMMA HealthInit == Init => HealthInv
<1> SUFFICES ASSUME Init PROVE HealthInv
  OBVIOUS
<1> USE HealthAssumption DEF Init
<1>1. Unmarked \in StateType
  BY DEF Unmarked, StateType, Time, Never
<1>2. TypeInv
  BY <1>1 DEF TypeInv, startedAt
<1>3. CallsInv /\ SyncedInv /\ ShutdownInv
  BY DEF CallsInv, SyncedInv, ShutdownInv, Unmarked, Stored, Done
<1>4. LastInv /\ HeardInv
  BY DEF LastInv, HeardInv, Unmarked, startedAt, Never, Informer, maxTime
<1>5. LeaderInv
  BY DEF LeaderInv, Unmarked, Stored, Done, Never
<1>6. ProbeInv
  BY DEF ProbeInv, Path
<1>7. QED  BY <1>2, <1>3, <1>4, <1>5, <1>6 DEF HealthInv

LEMMA Inductive == Spec => []HealthInv
<1>1. HealthInv /\ [Next]_vars => HealthInv'
  BY TypeNext, CallsNext, SyncedNext, LastNext, HeardNext, ShutdownNext, LeaderNext, ProbeNext
  DEF HealthInv
<1>2. QED  BY <1>1, HealthInit, PTL DEF Spec

\* Health, its type invariant: the clock and the times keep their ranges, no request
\* sees an event later than itself, and no two calls of a mark overlap.
THEOREM TypeCorrect == Spec => []TypeOK
<1>1. ASSUME HealthInv PROVE TypeOK
  <2>1. heard \in 0..clock /\ clock \in Time
    BY <1>1, HealthAssumption
    DEF HealthInv, TypeInv, StateType, Time, Never, LastInv, HeardInv, Informer, maxTime
  <2>2. \A c \in calls : c.mark \in Mark /\ c.now \in 1..clock /\ c.stored \in BOOLEAN
    BY <1>1 DEF HealthInv, TypeInv, CallsInv, CallType
  <2>3. \A q \in Request : request[q] # Nothing =>
          request[q].now \in 0..clock /\ request[q].before \in 0..request[q].now
    BY <1>1, <2>1 DEF HealthInv, TypeInv, ProbeInv, RequestType, Time, Never
  <2>4. QED  BY <1>1, <2>1, <2>2, <2>3 DEF HealthInv, TypeInv, CallsInv, TypeOK
<1>2. QED  BY <1>1, Inductive, PTL

\* The Mark functions set the gauge after the unlock: whatever their interleaving, the
\* gauges are the fields once no call is under way, and the gauges of the handlers
\* never claim what has not been so.
THEOREM GaugesAgree == Spec => []GaugesSettle
<1>1. ASSUME HealthInv PROVE GaugesSettle
  <2> SUFFICES ASSUME calls = {}
               PROVE  /\ gauge.synced = state.synced /\ gauge.last = state.last
                      /\ gauge.shuttingDown = state.shuttingDown
                      /\ gauge.isLeader # state.isLeader => GivenUp
                      /\ ~probed["healthz"] => state.shuttingDown
                      /\ probed["readyz"] => state.synced = Informer
    BY DEF GaugesSettle
  <2>1. \A m : ~Stored(m)
    BY DEF Stored
  <2>2. state \in StateType /\ gauge \in StateType
    BY <1>1 DEF HealthInv, TypeInv
  <2>3. gauge.synced = state.synced
    BY <1>1, <2>1, <2>2 DEF HealthInv, SyncedInv, StateType
  <2>4. gauge.last = state.last
    <3>1. \A i \in Informer : gauge.last[i] = state.last[i]
      BY <1>1, <2>1 DEF HealthInv, LastInv
    <3>2. gauge.last \in [Informer -> Time] /\ state.last \in [Informer -> Time]
      BY <2>2 DEF StateType
    <3>3. QED  BY <3>1, <3>2
  <2>5. gauge.shuttingDown = state.shuttingDown
    BY <1>1, <2>1, <2>2 DEF HealthInv, ShutdownInv, StateType
  <2>6. gauge.isLeader # state.isLeader => GivenUp
    BY <1>1, <2>1 DEF HealthInv, LeaderInv
  <2>7. QED  BY <1>1, <2>3, <2>4, <2>5, <2>6 DEF HealthInv, ProbeInv
<1>2. QED  BY <1>1, Inductive, PTL

\* IsReady and the Mark functions of events: the verdict on silence is right for what
\* either informer has really marked, although the times are read before they are
\* stored and the request's own time before the verdict.
THEOREM SilenceIsJudged == Spec => SilenceJudged
<1>1. ASSUME HealthInv, NEW q \in Request, Judge(q), request[q].path = "readyz", InService(state)
      PROVE  LET silence(last) == request[q].now - last
                 judging == config.staleThreshold > 0 /\ silence(startedAt) >= config.startupGrace
             IN IF request'[q].verdict
                THEN (judging /\ heard # Never) => silence(heard) <= config.staleThreshold
                ELSE judging /\ silence(request[q].before) > config.staleThreshold
  <2>1. request[q] # Nothing /\ request[q] \in RequestType
    BY <1>1 DEF Judge, HealthInv, TypeInv
  <2>2. request[q].now \in Nat /\ request[q].before \in Nat /\ request[q].before <= heard
    BY <1>1, <2>1 DEF HealthInv, ProbeInv, RequestType, Time, Never
  <2>3. heard = maxTime(state.last["workflow"], state.last["pod"]) /\ heard \in Nat
    BY <1>1 DEF HealthInv, HeardInv, TypeInv, StateType, Time, Never, Informer, maxTime
  <2>4. request'[q].verdict = IsReady(state, request[q].now)
    BY <1>1, <2>1 DEF Judge, HealthInv, TypeInv, RequestType
  <2>5. IsReady(state, request[q].now) <=> ~IsStale(state, request[q].now)
    BY <1>1 DEF IsReady
  <2>6. IsStale(state, request[q].now) <=>
          /\ config.staleThreshold > 0 /\ request[q].now - startedAt >= config.startupGrace
          /\ heard # Never /\ request[q].now - heard > config.staleThreshold
    BY <2>3 DEF IsStale
  <2>7. config.staleThreshold \in Int /\ config.startupGrace \in Nat
    BY <1>1, HealthAssumption DEF HealthInv, TypeInv
  <2>8. QED  BY <2>2, <2>3, <2>4, <2>5, <2>6, <2>7 DEF startedAt
<1>2. HealthInv /\ [Next]_vars =>
        [\A q \in Request :
           (Judge(q) /\ request[q].path = "readyz" /\ InService(state)) =>
             LET silence(last) == request[q].now - last
                 judging == config.staleThreshold > 0 /\ silence(startedAt) >= config.startupGrace
             IN IF request'[q].verdict
                THEN (judging /\ heard # Never) => silence(heard) <= config.staleThreshold
                ELSE judging /\ silence(request[q].before) > config.staleThreshold]_vars
  BY <1>1
<1>3. QED  BY <1>2, Inductive, PTL DEF Spec, SilenceJudged

\* readyzHandler takes two snapshots: a verdict "ready" of the first never comes with a
\* body, of the second, that says an informer is not synced, and with one that denies the
\* lead only from a process that has given it up.
THEOREM AnswerAgrees == Spec => ReadyBodyAgrees
<1>1. ASSUME HealthInv, NEW q \in Request, Respond(q), request[q].path = "readyz",
             request[q].verdict
      PROVE  /\ state.synced = Informer
             /\ config.leaderElect => state.isLeader \/ GivenUp
  <2>1. request[q] # Nothing /\ request[q] \in RequestType /\ request[q].verdict # Nothing
    BY <1>1 DEF Respond, HealthInv, TypeInv
  <2>2. request[q].verdict = TRUE
    BY <1>1, <2>1 DEF RequestType
  <2>3. state.synced = Informer /\ Led
    BY <1>1, <2>1, <2>2 DEF HealthInv, ProbeInv
  <2>4. QED  BY <2>3 DEF Led
<1>2. HealthInv /\ [Next]_vars =>
        [\A q \in Request :
           (Respond(q) /\ request[q].path = "readyz" /\ request[q].verdict) =>
             /\ state.synced = Informer
             /\ config.leaderElect => state.isLeader \/ GivenUp]_vars
  BY <1>1
<1>3. QED  BY <1>2, Inductive, PTL DEF Spec, ReadyBodyAgrees
=============================================================================
