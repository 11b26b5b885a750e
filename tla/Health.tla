------------------------------- MODULE Health -------------------------------
(***************************************************************************)
(* The health state of pkg/health/state.go within one process: goroutines  *)
(* mark it, each call storing under the lock first and setting its gauge   *)
(* after the unlock, and the handlers of /healthz and /readyz in           *)
(* cmd/exporter/main.go judge one snapshot of it and report another.       *)
(***************************************************************************)
EXTENDS Integers, FiniteSets

CONSTANTS
  Request,  \* goroutines of the HTTP server
  Config,   \* flags: leaderElect, startupGrace, staleThreshold
  MaxTime,  \* bound: how far the clock goes
  MaxCalls, \* bound: Mark calls under way at a time
  Nothing   \* "no request", "not yet"

Informer == {"workflow", "pod"}
startedAt == 1
Never == 0     \* the zero time of an informer without events
Time == Never..MaxTime
Path == {"healthz", "readyz"}

ASSUME HealthAssumption ==
  /\ MaxTime \in Nat \ {0} /\ MaxCalls \in Nat
  /\ Nothing \notin BOOLEAN
  /\ \A c \in Config :
       c.leaderElect \in BOOLEAN /\ c.startupGrace \in Nat /\ c.staleThreshold \in Int

VARIABLES
  config,
  clock,
  state,    \* the fields under the lock
  gauge,    \* the gauges that mirror them
  probed,   \* argo_exporter_ready and argo_exporter_alive
  calls,    \* Mark calls under way
  begun,    \* Mark calls of the kinds made once that have begun
  request,  \* request[q]: what a request has seen so far
  heard     \* history: the newest event marked by either informer

vars == <<config, clock, state, gauge, probed, calls, begun, request, heard>>

Unmarked ==
  [synced |-> {}, last |-> [i \in Informer |-> Never], isLeader |-> FALSE, shuttingDown |-> FALSE]

\* NewState
Init ==
  /\ config \in Config
  /\ clock = startedAt
  /\ state = Unmarked
  /\ gauge = Unmarked
  /\ probed = [path \in Path |-> path = "healthz"]
  /\ calls = {}
  /\ begun = {}
  /\ request = [q \in Request |-> Nothing]
  /\ heard = Never

-----------------------------------------------------------------------------
(* The Mark functions.                                                     *)

Kind == {"leader", "follower", "shutdown"}
Mark == [kind : Kind, informer : {"none"}] \cup [kind : {"synced", "event"}, informer : Informer]

Marks(kind) == {m \in Mark : m.kind = kind}

Done(m) == m \in begun /\ \A c \in calls : c.mark # m

\* When the exporter makes a call: controllers start after MarkLeader(true), in
\* OnStartedLeading or in main; OnStoppedLeading calls MarkLeader(false) on every path,
\* after a shutdown or when the lease is lost.  A lost lease ends the process after that
\* call; here it may go on for a while.  One goroutine makes the calls of one informer's
\* events, and one each of the others, once.
MayCall(m) ==
  /\ \A c \in calls : c.mark # m
  /\ m.kind # "event" => m \notin begun
  /\ m.kind \in {"event", "synced"} => \A l \in Marks("leader") : Done(l)
  /\ m.kind = "follower" => config.leaderElect

Marked(s, c, time) ==
  CASE c.mark.kind = "synced" -> [s EXCEPT !.synced = @ \cup {c.mark.informer}]
    [] c.mark.kind = "event" -> [s EXCEPT !.last[c.mark.informer] = time]
    [] c.mark.kind = "shutdown" -> [s EXCEPT !.shuttingDown = TRUE]
    [] OTHER -> [s EXCEPT !.isLeader = (c.mark.kind = "leader")]

\* A Mark function begins; an event takes its time here.
Call(m) ==
  /\ MayCall(m) /\ Cardinality(calls) < MaxCalls
  /\ calls' = calls \cup {[mark |-> m, now |-> clock, stored |-> FALSE]}
  /\ begun' = IF m.kind = "event" THEN begun ELSE begun \cup {m}
  /\ UNCHANGED <<config, clock, state, gauge, probed, request, heard>>

Store(c) ==
  /\ ~c.stored
  /\ state' = Marked(state, c, c.now)
  /\ calls' = (calls \ {c}) \cup {[c EXCEPT !.stored = TRUE]}
  /\ heard' = IF c.mark.kind = "event" /\ c.now > heard THEN c.now ELSE heard
  /\ UNCHANGED <<config, clock, gauge, probed, begun, request>>

\* A mistake: the gauge takes the time anew.
SetGaugeNow(c) ==
  /\ c.stored
  /\ gauge' = Marked(gauge, c, clock)
  /\ calls' = calls \ {c}
  /\ UNCHANGED <<config, clock, state, probed, begun, request, heard>>

SetGauge(c) ==
  /\ c.stored
  /\ gauge' = Marked(gauge, c, c.now)
  /\ calls' = calls \ {c}
  /\ UNCHANGED <<config, clock, state, probed, begun, request, heard>>

-----------------------------------------------------------------------------
(* The verdicts, on a snapshot s at time now.                              *)

IsLive(s) == ~s.shuttingDown

\* A mistake: the earlier of the two.
minTime(a, b) == IF a > b THEN b ELSE a

maxTime(a, b) == IF a > b THEN a ELSE b

\* No events for longer than the threshold, after the grace period.
IsStale(s, now) ==
  LET lastEvent == maxTime(s.last["workflow"], s.last["pod"])
  IN /\ config.staleThreshold > 0
     /\ now - startedAt >= config.startupGrace
     /\ lastEvent # Never
     /\ now - lastEvent > config.staleThreshold

\* What readiness asks for, apart from events.
InService(s) ==
  ~s.shuttingDown /\ (s.isLeader \/ ~config.leaderElect) /\ s.synced = Informer

\* A mistake: the pod informer's sync is not asked for.
IsReadyWithoutPods(s, now) ==
  InService([s EXCEPT !.synced = IF "workflow" \in @ THEN Informer ELSE @]) /\ ~IsStale(s, now)

IsReady(s, now) == InService(s) /\ ~IsStale(s, now)

-----------------------------------------------------------------------------
(* healthzHandler and readyzHandler.                                       *)

\* time.Now(), which IsLive does not look at, and what had been heard by then.
Receive(q, path) ==
  /\ request[q] = Nothing
  /\ request' = [request EXCEPT ![q] =
       IF path = "readyz"
       THEN [path |-> path, now |-> clock, before |-> heard, verdict |-> Nothing]
       ELSE [path |-> path, now |-> Never, before |-> Never, verdict |-> Nothing]]
  /\ UNCHANGED <<config, clock, state, gauge, probed, calls, begun, heard>>

\* IsReady or IsLive, on the first snapshot.
Judge(q) ==
  /\ request[q] # Nothing /\ request[q].verdict = Nothing
  /\ request' = [request EXCEPT ![q].verdict =
       IF request[q].path = "readyz" THEN IsReady(state, request[q].now) ELSE IsLive(state)]
  /\ UNCHANGED <<config, clock, state, gauge, probed, calls, begun, heard>>

\* A mistake: the answer does not wait for the verdict.
RespondEarly(q) ==
  /\ request[q] # Nothing
  /\ probed' = [probed EXCEPT ![request[q].path] = request[q].verdict]
  /\ request' = [request EXCEPT ![q] = Nothing]
  /\ UNCHANGED <<config, clock, state, gauge, calls, begun, heard>>

\* The verdict's gauge, then the second snapshot: the body of the answer is the state
\* as it is in this step.
Respond(q) ==
  /\ request[q] # Nothing /\ request[q].verdict # Nothing
  /\ probed' = [probed EXCEPT ![request[q].path] = request[q].verdict]
  /\ request' = [request EXCEPT ![q] = Nothing]
  /\ UNCHANGED <<config, clock, state, gauge, calls, begun, heard>>

Tick ==
  /\ clock < MaxTime
  /\ clock' = clock + 1
  /\ UNCHANGED <<config, state, gauge, probed, calls, begun, request, heard>>

Next ==
  \/ \E m \in Mark : Call(m)
  \/ \E c \in calls : Store(c) \/ SetGauge(c)
  \/ \E q \in Request :
       (\E path \in Path : Receive(q, path)) \/ Judge(q) \/ Respond(q)
  \/ Tick

Spec == Init /\ [][Next]_vars
-----------------------------------------------------------------------------
(* Type invariant.                                                         *)
StateType ==
  [synced : SUBSET Informer, last : [Informer -> Time], isLeader : BOOLEAN, shuttingDown : BOOLEAN]

TypeOK ==
  /\ config \in Config
  /\ clock \in Time /\ heard \in 0..clock
  /\ state \in StateType /\ gauge \in StateType
  /\ probed \in [Path -> BOOLEAN]
  /\ \A c \in calls : c.mark \in Mark /\ c.now \in 1..clock /\ c.stored \in BOOLEAN
  /\ \A c, d \in calls : c.mark = d.mark => c = d
  /\ begun \subseteq Mark
  /\ \A q \in Request : request[q] # Nothing =>
       request[q].now \in 0..clock /\ request[q].before \in 0..request[q].now

\* MarkLeader(false) has begun: the process gives up the lead for good.
GivenUp == Marks("follower") \subseteq begun

\* When no Mark call is under way, the gauges of the sync flags, the last events and
\* the shutdown are the fields, and so is that of the leader until the lead is given up:
\* then two goroutines may mark it, and set the gauge in the wrong order.  The gauges
\* that requests set lag behind the state, but the replica never counts as dead before
\* a shutdown, nor as ready before its informers are synced.
GaugesSettle ==
  calls = {} =>
    /\ gauge.synced = state.synced /\ gauge.last = state.last
    /\ gauge.shuttingDown = state.shuttingDown
    /\ gauge.isLeader # state.isLeader => GivenUp
    /\ ~probed["healthz"] => state.shuttingDown
    /\ probed["readyz"] => state.synced = Informer

\* The verdict on silence is right for what was really heard, of either informer:
\* a replica in service is called not ready only when nothing was marked within the
\* threshold before the request, and ready, after the grace period, only when the last
\* event marked by the time of the verdict is no older than the threshold.
SilenceJudged ==
  [][\A q \in Request :
       (Judge(q) /\ request[q].path = "readyz" /\ InService(state)) =>
         LET silence(last) == request[q].now - last
             judging == config.staleThreshold > 0 /\ silence(startedAt) >= config.startupGrace
         IN IF request'[q].verdict
            THEN (judging /\ heard # Never) => silence(heard) <= config.staleThreshold
            ELSE judging /\ silence(request[q].before) > config.staleThreshold]_vars

\* An answer "ready" never comes with a body that says an informer is not synced, and
\* with one that denies the lead only from a process that has given it up, after a
\* verdict on an older snapshot, and so is about to end.
ReadyBodyAgrees ==
  [][\A q \in Request :
       (Respond(q) /\ request[q].path = "readyz" /\ request[q].verdict) =>
         /\ state.synced = Informer
         /\ config.leaderElect => state.isLeader \/ GivenUp]_vars
=============================================================================
