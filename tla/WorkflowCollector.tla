------------------------- MODULE WorkflowCollector -------------------------
(***************************************************************************)
(* The workflow collector of pkg/collector/workflow.go: a cache of the     *)
(* last object seen of every workflow, and the Prometheus series computed  *)
(* from it.  Workers and the full reconciler of the informer call it, each *)
(* call holding the informer's reconcileMu; a scrape holds no lock and may *)
(* see the series between any two steps of a call.                         *)
(*                                                                         *)
(* A gauge vector is a total function whose value is NoSeries where the    *)
(* vector has no series for that label; the per-workflow vectors together  *)
(* are one set of samples.                                                 *)
(***************************************************************************)
EXTENDS Naturals, FiniteSets

CONSTANTS
  Namespace,       \* namespaces
  Key,             \* "namespace/name" of the workflows, the keys of the cache
  NamespaceOf,     \* NamespaceOf[k] is the namespace part of key k
  Phase,           \* phases an object may carry, the empty phase included
  Objects,         \* workflow objects the callers may be handed, see WorkflowType
  Caller,          \* goroutines that call the collector
  NoWorkflow,      \* "no entry in the map"
  NoSeries,        \* "no series with this label"
  NoCaller         \* "reconcileMu is free"

\* The phases that always have a status_phase series (pkg/collector/phases.go).
workflowPhases == {"Pending", "Running", "Succeeded", "Failed", "Error"}

timeFamilies == {"created_time", "started_time", "finished_time"}

(***************************************************************************)
(* What an object must provide: its key, the labels of its info series,    *)
(* its phase, the timestamps that are set, whether its duration is         *)
(* positive when it is collected, whether its node map is there at all     *)
(* (hasNodes: not nil) and the phase of each of its nodes.  The values of  *)
(* timestamps and durations are abstracted to 1.                           *)
(***************************************************************************)
WorkflowType(wf) ==
  /\ wf.key \in Key
  /\ wf.phase \in Phase
  /\ wf.times \subseteq timeFamilies
  /\ wf.ran \in BOOLEAN
  /\ wf.hasNodes \in BOOLEAN
  /\ IsFiniteSet(DOMAIN wf.nodes)

ASSUME CollectorAssumption ==
  /\ IsFiniteSet(Key)
  /\ NamespaceOf \in [Key -> Namespace]
  /\ \A wf \in Objects : WorkflowType(wf)
  /\ NoWorkflow \notin Objects
  /\ NoSeries \notin Nat
  /\ NoCaller \notin Caller

VARIABLES
  collectDetails,      \* the --enable-workflow-detail-metrics flag, fixed at construction
  workflows,           \* the cache: [Key -> Objects or NoWorkflow]
  lastNamespaces,      \* namespaces published by the last aggregation
  lastNamespacePhases, \* <<namespace, phase>> pairs published by the last aggregation
  count,               \* argo_workflow_count
  total,               \* argo_workflow_status_total
  detail,              \* samples of the per-workflow families
  mu,                  \* reconcileMu: its holder or NoCaller
  pc,                  \* pc[c]: where call c is
  job,                 \* job[c]: objects whose series are still to delete and to collect
  agg                  \* agg[c]: what c's aggregation computed and still has to publish

vars == <<collectDetails, workflows, lastNamespaces, lastNamespacePhases,
          count, total, detail, mu, pc, job, agg>>

cacheVars == <<workflows, lastNamespaces, lastNamespacePhases>>
gaugeVars == <<count, total>>

-----------------------------------------------------------------------------
(* The per-workflow series.                                                *)

Sample(family, wf, label, value) ==
  [family |-> family, key |-> wf.key, label |-> label, value |-> value]

NodePhases(wf) == {wf.nodes[n] : n \in DOMAIN wf.nodes}

\* collectNodeMetrics: nothing for a workflow whose node map is nil.
NodeSamples(wf) ==
  IF ~wf.hasNodes
  THEN {}
  ELSE {Sample("node_total", wf, "", Cardinality(DOMAIN wf.nodes))}
       \cup {Sample("node_phase", wf, p,
                    Cardinality({n \in DOMAIN wf.nodes : wf.nodes[n] = p})) :
             p \in NodePhases(wf)}

\* collectWorkflowSeries: every sample the collector sets for one object.
SamplesOf(wf) ==
  {Sample("status_phase", wf, p, IF p = wf.phase THEN 1 ELSE 0) : p \in workflowPhases}
  \cup {Sample("info", wf, wf.info, 1)}
  \cup {Sample(f, wf, "", 1) : f \in wf.times}
  \cup (IF wf.ran THEN {Sample("duration", wf, wf.phase, 1)} ELSE {})
  \cup NodeSamples(wf)

\* deleteWorkflowSeries: the <<family, label>> pairs it deletes for an object,
\* computed from that object's own phase, info labels and nodes.
DeletedSeries(wf) ==
  {<<"status_phase", p>> : p \in workflowPhases}
  \cup {<<"info", wf.info>>}
  \cup {<<f, "">> : f \in timeFamilies}
  \cup {<<"duration", wf.phase>>}
  \cup {<<"node_total", "">>}
  \cup (IF wf.hasNodes THEN {<<"node_phase", p>> : p \in NodePhases(wf)} ELSE {})

SameSeries(s, t) == s.family = t.family /\ s.key = t.key /\ s.label = t.label

Without(samples, wf) ==
  {s \in samples : ~(s.key = wf.key /\ <<s.family, s.label>> \in DeletedSeries(wf))}

With(samples, wf) ==
  {s \in samples : \A t \in SamplesOf(wf) : ~SameSeries(s, t)} \cup SamplesOf(wf)

-----------------------------------------------------------------------------
(* The aggregation, as a function of the cache.                            *)

Cached(w) == {w[k] : k \in Key} \ {NoWorkflow}

CountOf(w, ns) ==
  Cardinality({k \in Key : w[k] # NoWorkflow /\ NamespaceOf[k] = ns})

TotalOf(w, ns, p) ==
  Cardinality({k \in Key : w[k] # NoWorkflow /\ NamespaceOf[k] = ns /\ w[k].phase = p})

NamespacePhase == Namespace \X Phase

currentNamespaces(w) == {ns \in Namespace : CountOf(w, ns) > 0}
currentNamespacePhases(w) == {np \in NamespacePhase : TotalOf(w, np[1], np[2]) > 0}

diffNamespaces(previous, current) == previous \ current

\* A mistake: no phase is stale in a namespace that has no workflow left.
diffNamespacePhasesOfCurrent(previous, current) ==
  {np \in previous \ current : \E other \in current : other[1] = np[1]}

diffNamespacePhases(previous, current) == previous \ current

\* The value of a gauge that is published when the count behind it is positive.
Gauge(n) == IF n > 0 THEN n ELSE NoSeries

-----------------------------------------------------------------------------
NoJob == [drop |-> {}, add |-> {}]

NoAggregate ==
  [counts |-> [ns \in Namespace |-> 0], totals |-> [np \in NamespacePhase |-> 0],
   staleNamespaces |-> {}, staleNamespacePhases |-> {}]

Init ==
  /\ collectDetails \in BOOLEAN
  /\ workflows = [k \in Key |-> NoWorkflow]
  /\ lastNamespaces = {}
  /\ lastNamespacePhases = {}
  /\ count = [ns \in Namespace |-> NoSeries]
  /\ total = [np \in NamespacePhase |-> NoSeries]
  /\ detail = {}
  /\ mu = NoCaller
  /\ pc = [c \in Caller |-> "idle"]
  /\ job = [c \in Caller |-> NoJob]
  /\ agg = [c \in Caller |-> NoAggregate]

\* A mistake: the caller does not take reconcileMu.
BeginUnlocked(c, cache, drop, add) ==
  /\ pc[c] = "idle"
  /\ mu' = c
  /\ workflows' = cache
  /\ pc' = [pc EXCEPT ![c] = "series"]
  /\ job' = [job EXCEPT ![c] = IF collectDetails THEN [drop |-> drop, add |-> add] ELSE NoJob]
  /\ UNCHANGED <<collectDetails, lastNamespaces, lastNamespacePhases, count, total, detail, agg>>

\* Every operation: take reconcileMu, install the new cache, and go on to the
\* series.  With detail metrics off the per-workflow series are not touched.
Begin(c, cache, drop, add) ==
  /\ pc[c] = "idle"
  /\ mu = NoCaller
  /\ mu' = c
  /\ workflows' = cache
  /\ pc' = [pc EXCEPT ![c] = "series"]
  /\ job' = [job EXCEPT ![c] = IF collectDetails THEN [drop |-> drop, add |-> add] ELSE NoJob]
  /\ UNCHANGED <<collectDetails, lastNamespaces, lastNamespacePhases, count, total, detail, agg>>

\* Two mistakes: deleting the series computed from the new object, and deleting
\* those of the previous object without asking whether there is one.
AddWorkflowDropsNew(c, wf) ==
  Begin(c, [workflows EXCEPT ![wf.key] = wf],
        IF workflows[wf.key] = NoWorkflow THEN {} ELSE {wf}, {wf})

AddWorkflowNoNilCheck(c, wf) ==
  Begin(c, [workflows EXCEPT ![wf.key] = wf], {workflows[wf.key]}, {wf})

\* AddWorkflow: the series of the previous object of that key go, the new
\* object's series come.
AddWorkflow(c, wf) ==
  Begin(c, [workflows EXCEPT ![wf.key] = wf], {workflows[wf.key]} \ {NoWorkflow}, {wf})

\* DeleteWorkflow: the target is the cached object, or the given one if none is cached.
DeleteWorkflow(c, wf) ==
  LET target == IF workflows[wf.key] # NoWorkflow THEN workflows[wf.key] ELSE wf
  IN Begin(c, [workflows EXCEPT ![wf.key] = NoWorkflow], {target}, {})

\* ReplaceWorkflows: a new map, given by the list of the informer's store.
ReplaceWorkflows(c, next) ==
  Begin(c, next, Cached(workflows), Cached(next))

DropSeries(c) ==
  /\ pc[c] = "series"
  /\ \E wf \in job[c].drop :
       /\ detail' = Without(detail, wf)
       /\ job' = [job EXCEPT ![c].drop = @ \ {wf}]
  /\ UNCHANGED <<collectDetails, cacheVars, gaugeVars, mu, pc, agg>>

\* A mistake: collecting before all deletions are done.
CollectSeriesEarly(c) ==
  /\ pc[c] = "series"
  /\ \E wf \in job[c].add :
       /\ detail' = With(detail, wf)
       /\ job' = [job EXCEPT ![c].add = @ \ {wf}]
  /\ UNCHANGED <<collectDetails, cacheVars, gaugeVars, mu, pc, agg>>

CollectSeries(c) ==
  /\ pc[c] = "series"
  /\ job[c].drop = {}
  /\ \E wf \in job[c].add :
       /\ detail' = With(detail, wf)
       /\ job' = [job EXCEPT ![c].add = @ \ {wf}]
  /\ UNCHANGED <<collectDetails, cacheVars, gaugeVars, mu, pc, agg>>

\* updateAggregatedMetrics up to the release of c.mu: count the cache, find the
\* labels published last time that have no workflow now, remember today's labels.
Aggregate(c) ==
  /\ pc[c] = "series"
  /\ job[c] = NoJob
  /\ agg' = [agg EXCEPT ![c] =
       [counts |-> [ns \in Namespace |-> CountOf(workflows, ns)],
        totals |-> [np \in NamespacePhase |-> TotalOf(workflows, np[1], np[2])],
        staleNamespaces |-> diffNamespaces(lastNamespaces, currentNamespaces(workflows)),
        staleNamespacePhases |->
          diffNamespacePhases(lastNamespacePhases, currentNamespacePhases(workflows))]]
  /\ lastNamespaces' = currentNamespaces(workflows)
  /\ lastNamespacePhases' = currentNamespacePhases(workflows)
  /\ pc' = [pc EXCEPT ![c] = "publish"]
  /\ UNCHANGED <<collectDetails, workflows, gaugeVars, detail, mu, job>>

(***************************************************************************)
(* The rest of updateAggregatedMetrics publishes in four loops: set the    *)
(* counts, delete the stale counts, set the totals, delete the stale       *)
(* totals.  Setting a gauge to the value it has is not a step.             *)
(***************************************************************************)
CountsSet(c) ==
  \A ns \in Namespace : agg[c].counts[ns] > 0 => count[ns] = agg[c].counts[ns]

CountsPublished(c) ==
  CountsSet(c) /\ \A ns \in agg[c].staleNamespaces : count[ns] = NoSeries

TotalsSet(c) ==
  \A np \in NamespacePhase : agg[c].totals[np] > 0 => total[np] = agg[c].totals[np]

TotalsPublished(c) ==
  TotalsSet(c) /\ \A np \in agg[c].staleNamespacePhases : total[np] = NoSeries

SetCount(c, ns) ==
  /\ pc[c] = "publish"
  /\ agg[c].counts[ns] > 0
  /\ count[ns] # agg[c].counts[ns]
  /\ count' = [count EXCEPT ![ns] = agg[c].counts[ns]]
  /\ UNCHANGED <<collectDetails, cacheVars, total, detail, mu, pc, job, agg>>

DropCount(c, ns) ==
  /\ pc[c] = "publish"
  /\ CountsSet(c)
  /\ ns \in agg[c].staleNamespaces
  /\ count[ns] # NoSeries
  /\ count' = [count EXCEPT ![ns] = NoSeries]
  /\ UNCHANGED <<collectDetails, cacheVars, total, detail, mu, pc, job, agg>>

SetTotal(c, np) ==
  /\ pc[c] = "publish"
  /\ CountsPublished(c)
  /\ agg[c].totals[np] > 0
  /\ total[np] # agg[c].totals[np]
  /\ total' = [total EXCEPT ![np] = agg[c].totals[np]]
  /\ UNCHANGED <<collectDetails, cacheVars, count, detail, mu, pc, job, agg>>

DropTotal(c, np) ==
  /\ pc[c] = "publish"
  /\ CountsPublished(c)
  /\ TotalsSet(c)
  /\ np \in agg[c].staleNamespacePhases
  /\ total[np] # NoSeries
  /\ total' = [total EXCEPT ![np] = NoSeries]
  /\ UNCHANGED <<collectDetails, cacheVars, count, detail, mu, pc, job, agg>>

\* A mistake: returning without the unlock.
FinishLocked(c) ==
  /\ pc[c] = "publish"
  /\ CountsPublished(c)
  /\ TotalsPublished(c)
  /\ pc' = [pc EXCEPT ![c] = "idle"]
  /\ agg' = [agg EXCEPT ![c] = NoAggregate]
  /\ UNCHANGED <<collectDetails, cacheVars, gaugeVars, detail, mu, job>>

\* The call returns and reconcileMu is released.
Finish(c) ==
  /\ pc[c] = "publish"
  /\ CountsPublished(c)
  /\ TotalsPublished(c)
  /\ mu' = NoCaller
  /\ pc' = [pc EXCEPT ![c] = "idle"]
  /\ agg' = [agg EXCEPT ![c] = NoAggregate]
  /\ UNCHANGED <<collectDetails, cacheVars, gaugeVars, detail, job>>

\* The steps of a call that holds the lock.
Step(c) ==
  \/ DropSeries(c)
  \/ CollectSeries(c)
  \/ Aggregate(c)
  \/ \E ns \in Namespace : SetCount(c, ns) \/ DropCount(c, ns)
  \/ \E np \in NamespacePhase : SetTotal(c, np) \/ DropTotal(c, np)
  \/ Finish(c)

\* What the informer may list: at most one object per key.
Lists == {w \in [Key -> Objects \cup {NoWorkflow}] :
            \A k \in Key : w[k] # NoWorkflow => w[k].key = k}

Next ==
  \E c \in Caller :
    \/ \E wf \in Objects : AddWorkflow(c, wf) \/ DeleteWorkflow(c, wf)
    \/ \E next \in Lists : ReplaceWorkflows(c, next)
    \/ Step(c)

\* A goroutine inside a call is runnable all along and reaches the unlock.
Fairness == \A c \in Caller : WF_vars(Step(c))

Spec == Init /\ [][Next]_vars /\ Fairness
-----------------------------------------------------------------------------
(* Type invariant: the cache maps a key only to an object of that key, and *)
(* every published sample is one the collector computes for some object.   *)
TypeOK ==
  /\ collectDetails \in BOOLEAN
  /\ workflows \in Lists
  /\ lastNamespaces \subseteq Namespace
  /\ lastNamespacePhases \subseteq NamespacePhase
  /\ count \in [Namespace -> Nat \cup {NoSeries}]
  /\ total \in [NamespacePhase -> Nat \cup {NoSeries}]
  /\ detail \subseteq UNION {SamplesOf(wf) : wf \in Objects}
  /\ mu \in Caller \cup {NoCaller}
  /\ pc \in [Caller -> {"idle", "series", "publish"}]
  /\ job \in [Caller -> [drop : SUBSET Objects, add : SUBSET Objects]]
  /\ agg \in [Caller -> [counts : [Namespace -> Nat], totals : [NamespacePhase -> Nat],
                         staleNamespaces : SUBSET Namespace,
                         staleNamespacePhases : SUBSET NamespacePhase]]

\* Whenever no call is under way the aggregated gauges are exactly the counts of
\* the cache: the value for every label with a workflow behind it, no series for
\* every other label.  The code gets there from what it published last time
\* (lastNamespaces, lastNamespacePhases), over any history of calls.
AggregatesExact ==
  mu = NoCaller =>
    /\ \A ns \in Namespace : count[ns] = Gauge(CountOf(workflows, ns))
    /\ \A np \in NamespacePhase : total[np] = Gauge(TotalOf(workflows, np[1], np[2]))

\* A workflow whose series no running call is about to collect anew is fully
\* published: a call never disturbs the series of the workflows it is not about,
\* not even in the middle, where a scrape can see it.
UntouchedStaysPublished ==
  collectDetails =>
    \A k \in Key :
      (workflows[k] # NoWorkflow /\ \A c \in Caller : workflows[k] \notin job[c].add)
        => SamplesOf(workflows[k]) \subseteq detail

\* Every published sample is one of a cached workflow, as that workflow is now,
\* or of an object whose deletion a running call still has scheduled.  Between
\* calls no series of a former phase, uid, node phase or workflow is left.
NoGhostSeries ==
  \A s \in detail :
    \/ \E wf \in Cached(workflows) : s \in SamplesOf(wf)
    \/ \E c \in Caller : \E wf \in job[c].drop : s \in SamplesOf(wf)

\* An aggregated gauge is only ever changed to the value right for the cache as
\* it is at that moment: no series flickers through an intermediate value, and
\* none is deleted while a workflow stands behind it.
PublishedMovesToTruth ==
  [][/\ \A ns \in Namespace :
          count'[ns] # count[ns] => count'[ns] = Gauge(CountOf(workflows, ns))
     /\ \A np \in NamespacePhase :
          total'[np] # total[np] => total'[np] = Gauge(TotalOf(workflows, np[1], np[2]))]_vars

\* Again and again the published series are exactly those of the cache and the lock is
\* free: whatever a call takes away (ReplaceWorkflows first deletes the series of every
\* workflow) is back in the end, every loop ends and every call returns.
ReturnsToTruth ==
  []<>(/\ mu = NoCaller
       /\ AggregatesExact
       /\ detail = UNION {SamplesOf(wf) : wf \in IF collectDetails THEN Cached(workflows) ELSE {}})
=============================================================================
