---------------------- MODULE WorkflowCollectorProofs ----------------------
(***************************************************************************)
(* Proofs about WorkflowCollector, for every set of keys, objects and      *)
(* callers.                                                                *)
(***************************************************************************)
EXTENDS WorkflowCollector, FiniteSetTheorems, TLAPS

(***************************************************************************)
(* The inductive invariant behind AggregatesExact.                         *)
(***************************************************************************)
\* The lock is held by the one call that is under way.
LockInv == \A c \in Caller : pc[c] # "idle" <=> mu = c

\* A call has series work only before it aggregates.
JobInv == \A c \in Caller : pc[c] # "series" => job[c] = NoJob

\* Between publications every published label is remembered.
RememberedInv ==
  (\A c \in Caller : pc[c] # "publish") =>
    /\ \A ns \in Namespace : count[ns] # NoSeries => ns \in lastNamespaces
    /\ \A np \in NamespacePhase : total[np] # NoSeries => np \in lastNamespacePhases

\* What a publishing call computed is still right for the cache, its stale labels
\* are not current ones, and no published label is outside the two.
PublishInv ==
  \A c \in Caller : pc[c] = "publish" =>
    /\ agg[c].counts = [ns \in Namespace |-> CountOf(workflows, ns)]
    /\ agg[c].totals = [np \in NamespacePhase |-> TotalOf(workflows, np[1], np[2])]
    /\ lastNamespaces = currentNamespaces(workflows)
    /\ lastNamespacePhases = currentNamespacePhases(workflows)
    /\ agg[c].staleNamespaces \cap lastNamespaces = {}
    /\ agg[c].staleNamespacePhases \cap lastNamespacePhases = {}
    /\ \A ns \in Namespace :
         count[ns] # NoSeries => ns \in lastNamespaces \cup agg[c].staleNamespaces
    /\ \A np \in NamespacePhase :
         total[np] # NoSeries => np \in lastNamespacePhases \cup agg[c].staleNamespacePhases

AggregateInv ==
  TypeOK /\ LockInv /\ JobInv /\ RememberedInv /\ PublishInv /\ AggregatesExact

(***************************************************************************)
(* The inductive invariant behind UntouchedStaysPublished, NoGhostSeries.  *)
(***************************************************************************)
\* What is still to collect is cached, and what is still to delete has the key
\* of no workflow whose series stand.
WorkInv ==
  \A c \in Caller :
    /\ job[c].add \subseteq Cached(workflows)
    /\ \A wf \in job[c].drop : \A k \in Key :
         (workflows[k] # NoWorkflow /\ workflows[k] \notin job[c].add) => k # wf.key

\* NoGhostSeries, and a workflow still to collect publishes nothing yet but
\* through the object scheduled for deletion.
GhostInv ==
  \A s \in detail :
    \/ \E wf \in Cached(workflows) :
         s \in SamplesOf(wf) /\ \A c \in Caller : wf \notin job[c].add
    \/ \E c \in Caller : \E wf \in job[c].drop : s \in SamplesOf(wf)

QuietInv == ~collectDetails => detail = {} /\ \A c \in Caller : job[c] = NoJob

DetailInv ==
  TypeOK /\ LockInv /\ JobInv /\ WorkInv /\ UntouchedStaysPublished /\ GhostInv /\ QuietInv

-----------------------------------------------------------------------------

\* The counts of the aggregation are natural numbers, whatever the cache.
LEMMA CountsAreNat ==
  ASSUME NEW w, NEW ns, NEW p
  PROVE  CountOf(w, ns) \in Nat /\ TotalOf(w, ns, p) \in Nat
<1>1. IsFiniteSet({k \in Key : w[k] # NoWorkflow /\ NamespaceOf[k] = ns})
  BY FS_Subset, CollectorAssumption
<1>2. IsFiniteSet({k \in Key : w[k] # NoWorkflow /\ NamespaceOf[k] = ns /\ w[k].phase = p})
  BY FS_Subset, CollectorAssumption
<1>3. QED  BY <1>1, <1>2, FS_CardinalityType DEF CountOf, TotalOf

\* A cached entry is an object of its key.
LEMMA CachedObjects ==
  ASSUME NEW w \in Lists
  PROVE  /\ Cached(w) \subseteq Objects
         /\ \A k \in Key : w[k] # NoWorkflow => w[k] \in Cached(w) /\ w[k].key = k
         /\ \A wf \in Cached(w) : wf.key \in Key /\ w[wf.key] = wf
  BY CollectorAssumption DEF Cached, Lists, WorkflowType

\* The series deleted for an object cover every series collected for it, and all
\* of them carry the object's key (deleteWorkflowSeries against
\* collectWorkflowSeries).
LEMMA SamplesCovered ==
  ASSUME NEW wf \in Objects, NEW s \in SamplesOf(wf)
  PROVE  s.key = wf.key /\ <<s.family, s.label>> \in DeletedSeries(wf)
<1>1. wf.times \subseteq timeFamilies
  BY CollectorAssumption DEF WorkflowType
<1>2. ASSUME NEW p \in workflowPhases, NEW v, s = Sample("status_phase", wf, p, v)
      PROVE  s.key = wf.key /\ <<s.family, s.label>> \in DeletedSeries(wf)
  BY <1>2 DEF Sample, DeletedSeries
<1>3. CASE s = Sample("info", wf, wf.info, 1)
  BY <1>3 DEF Sample, DeletedSeries
<1>4. ASSUME NEW f \in wf.times, s = Sample(f, wf, "", 1)
      PROVE  s.key = wf.key /\ <<s.family, s.label>> \in DeletedSeries(wf)
  <2>1. <<f, "">> \in DeletedSeries(wf)
    BY <1>1 DEF DeletedSeries
  <2>2. s.key = wf.key /\ s.family = f /\ s.label = ""
    BY <1>4 DEF Sample
  <2>3. QED  BY <2>1, <2>2
<1>5. CASE s = Sample("duration", wf, wf.phase, 1)
  BY <1>5 DEF Sample, DeletedSeries
<1>6. CASE s \in NodeSamples(wf)
  <2>1. CASE s = Sample("node_total", wf, "", Cardinality(DOMAIN wf.nodes))
    BY <2>1 DEF Sample, DeletedSeries
  <2>2. ASSUME wf.hasNodes, NEW p \in NodePhases(wf), NEW v,
               s = Sample("node_phase", wf, p, v)
        PROVE  s.key = wf.key /\ <<s.family, s.label>> \in DeletedSeries(wf)
    BY <2>2 DEF Sample, DeletedSeries
  <2>3. QED  BY <1>6, <2>1, <2>2 DEF NodeSamples
<1>7. QED  BY <1>2, <1>3, <1>4, <1>5, <1>6 DEF SamplesOf

\* The cache every operation installs is again one object per key.
LEMMA InstalledCaches ==
  ASSUME workflows \in Lists, NEW wf \in Objects
  PROVE  /\ [workflows EXCEPT ![wf.key] = wf] \in Lists
         /\ [workflows EXCEPT ![wf.key] = NoWorkflow] \in Lists
         /\ {workflows[wf.key]} \ {NoWorkflow} \subseteq Objects
  BY CollectorAssumption DEF Lists, WorkflowType

-----------------------------------------------------------------------------
LEMMA TypeInit == Init => TypeOK
  BY DEF Init, TypeOK, Lists, NoJob, NoAggregate

LEMMA TypeBegin ==
  ASSUME TypeOK, NEW c \in Caller, NEW cache \in Lists,
         NEW drop \in SUBSET Objects, NEW add \in SUBSET Objects,
         Begin(c, cache, drop, add)
  PROVE  TypeOK'
  BY DEF TypeOK, Begin, NoJob, Lists, NamespacePhase, SamplesOf

LEMMA TypeNext == TypeOK /\ [Next]_vars => TypeOK'
<1> SUFFICES ASSUME TypeOK, [Next]_vars PROVE TypeOK'
  OBVIOUS
<1>1. ASSUME NEW c \in Caller, NEW wf \in Objects, AddWorkflow(c, wf)
      PROVE TypeOK'
  <2>1. workflows \in Lists
    BY DEF TypeOK
  <2>2. /\ [workflows EXCEPT ![wf.key] = wf] \in Lists
        /\ {workflows[wf.key]} \ {NoWorkflow} \in SUBSET Objects
        /\ {wf} \in SUBSET Objects
    BY <2>1, InstalledCaches
  <2>3. Begin(c, [workflows EXCEPT ![wf.key] = wf], {workflows[wf.key]} \ {NoWorkflow}, {wf})
    BY <1>1 DEF AddWorkflow
  <2>4. QED  BY <2>2, <2>3, TypeBegin
<1>2. ASSUME NEW c \in Caller, NEW wf \in Objects, DeleteWorkflow(c, wf)
      PROVE TypeOK'
  <2>1. workflows \in Lists
    BY DEF TypeOK
  <2>2. PICK target \in Objects :
          Begin(c, [workflows EXCEPT ![wf.key] = NoWorkflow], {target}, {})
    BY <1>2, <2>1, InstalledCaches DEF DeleteWorkflow
  <2>3. /\ [workflows EXCEPT ![wf.key] = NoWorkflow] \in Lists
        /\ {target} \in SUBSET Objects
        /\ {} \in SUBSET Objects
    BY <2>1, InstalledCaches
  <2>4. QED  BY <2>2, <2>3, TypeBegin
<1>3. ASSUME NEW c \in Caller, NEW next \in Lists, ReplaceWorkflows(c, next)
      PROVE TypeOK'
  <2>1. Cached(workflows) \in SUBSET Objects /\ Cached(next) \in SUBSET Objects
    BY CachedObjects DEF TypeOK
  <2>2. QED  BY <1>3, <2>1, TypeBegin DEF ReplaceWorkflows
<1>4. ASSUME NEW c \in Caller, DropSeries(c) PROVE TypeOK'
  <2>1. PICK wf \in job[c].drop : detail' = Without(detail, wf)
                                  /\ job' = [job EXCEPT ![c].drop = @ \ {wf}]
    BY <1>4 DEF DropSeries
  <2>2. detail' \subseteq detail
    BY <2>1 DEF Without
  <2>3. job' \in [Caller -> [drop : SUBSET Objects, add : SUBSET Objects]]
    BY <2>1 DEF TypeOK
  <2>4. QED  BY <1>4, <2>2, <2>3 DEF TypeOK, DropSeries, cacheVars, gaugeVars, Lists,
                                     SamplesOf, NamespacePhase
<1>5. ASSUME NEW c \in Caller, CollectSeries(c) PROVE TypeOK'
  <2>1. PICK wf \in job[c].add : detail' = With(detail, wf)
                                 /\ job' = [job EXCEPT ![c].add = @ \ {wf}]
    BY <1>5 DEF CollectSeries
  <2>2. wf \in Objects
    BY <2>1 DEF TypeOK
  <2>3. detail' \subseteq UNION {SamplesOf(o) : o \in Objects}
    BY <2>1, <2>2 DEF With, TypeOK
  <2>4. job' \in [Caller -> [drop : SUBSET Objects, add : SUBSET Objects]]
    BY <2>1 DEF TypeOK
  <2>5. QED  BY <1>5, <2>3, <2>4 DEF TypeOK, CollectSeries, cacheVars, gaugeVars
<1>6. ASSUME NEW c \in Caller, Aggregate(c) PROVE TypeOK'
  <2>1. agg'[c] \in [counts : [Namespace -> Nat], totals : [NamespacePhase -> Nat],
                     staleNamespaces : SUBSET Namespace,
                     staleNamespacePhases : SUBSET NamespacePhase]
    BY <1>6, CountsAreNat DEF Aggregate, TypeOK, diffNamespaces, diffNamespacePhases
  <2>2. QED  BY <1>6, <2>1 DEF Aggregate, TypeOK, gaugeVars, currentNamespaces,
                               currentNamespacePhases
<1>7. ASSUME NEW c \in Caller, NEW ns \in Namespace, SetCount(c, ns) \/ DropCount(c, ns)
      PROVE TypeOK'
  BY <1>7 DEF SetCount, DropCount, TypeOK, cacheVars
<1>8. ASSUME NEW c \in Caller, NEW np \in NamespacePhase, SetTotal(c, np) \/ DropTotal(c, np)
      PROVE TypeOK'
  <2>1. agg[c].totals[np] \in Nat
    BY DEF TypeOK
  <2>2. total' \in [NamespacePhase -> Nat \cup {NoSeries}]
    BY <1>8, <2>1 DEF SetTotal, DropTotal, TypeOK
  <2>3. UNCHANGED <<collectDetails, cacheVars, count, detail, mu, pc, job, agg>>
    BY <1>8 DEF SetTotal, DropTotal
  <2>4. QED  BY <2>2, <2>3 DEF TypeOK, cacheVars
<1>9. ASSUME NEW c \in Caller, Finish(c) PROVE TypeOK'
  BY <1>9 DEF Finish, TypeOK, cacheVars, gaugeVars, NoAggregate
<1>10. CASE UNCHANGED vars
  BY <1>10 DEF TypeOK, vars
<1>11. QED
  BY <1>1, <1>2, <1>3, <1>4, <1>5, <1>6, <1>7, <1>8, <1>9, <1>10 DEF Next, Step

\* The cache maps each key to an object of that key, and every published sample
\* is one the collector computes for some object.
THEOREM TypeCorrect == Spec => []TypeOK
<1>1. QED  BY TypeInit, TypeNext, PTL DEF Spec

-----------------------------------------------------------------------------
(* The lock and the shape of a call.                                       *)

LEMMA LockInit == Init => LockInv /\ JobInv
  BY CollectorAssumption DEF Init, LockInv, JobInv

LEMMA LockBegin ==
  ASSUME TypeOK, LockInv, JobInv, NEW c \in Caller, NEW cache, NEW drop, NEW add,
         Begin(c, cache, drop, add)
  PROVE  LockInv' /\ JobInv'
  BY CollectorAssumption DEF TypeOK, LockInv, JobInv, Begin

\* Some operation begins: the three operations differ in the cache they install
\* and in the series work they schedule.
Begins(c) ==
  \/ \E wf \in Objects : AddWorkflow(c, wf) \/ DeleteWorkflow(c, wf)
  \/ \E next \in Lists : ReplaceWorkflows(c, next)

LEMMA BeginsBegin ==
  ASSUME NEW c \in Caller, Begins(c)
  PROVE  \E cache, drop, add : Begin(c, cache, drop, add)
<1>1. CASE \E wf \in Objects : AddWorkflow(c, wf)
  BY <1>1 DEF AddWorkflow
<1>2. CASE \E wf \in Objects : DeleteWorkflow(c, wf)
  BY <1>2 DEF DeleteWorkflow
<1>3. CASE \E next \in Lists : ReplaceWorkflows(c, next)
  BY <1>3 DEF ReplaceWorkflows
<1>4. QED  BY <1>1, <1>2, <1>3 DEF Begins

LEMMA LockNext == TypeOK /\ LockInv /\ JobInv /\ [Next]_vars => LockInv' /\ JobInv'
<1> SUFFICES ASSUME TypeOK, LockInv, JobInv, [Next]_vars PROVE LockInv' /\ JobInv'
  OBVIOUS
<1>1. ASSUME NEW c \in Caller, Begins(c) PROVE LockInv' /\ JobInv'
  BY <1>1, BeginsBegin, LockBegin
<1>2. ASSUME NEW c \in Caller, DropSeries(c) \/ CollectSeries(c)
      PROVE LockInv' /\ JobInv'
  BY <1>2 DEF DropSeries, CollectSeries, LockInv, JobInv, TypeOK
<1>3. ASSUME NEW c \in Caller, Aggregate(c) PROVE LockInv' /\ JobInv'
  BY <1>3 DEF Aggregate, LockInv, JobInv, TypeOK
<1>4. ASSUME NEW c \in Caller, NEW ns \in Namespace, SetCount(c, ns) \/ DropCount(c, ns)
      PROVE LockInv' /\ JobInv'
  BY <1>4 DEF SetCount, DropCount, LockInv, JobInv
<1>5. ASSUME NEW c \in Caller, NEW np \in NamespacePhase, SetTotal(c, np) \/ DropTotal(c, np)
      PROVE LockInv' /\ JobInv'
  BY <1>5 DEF SetTotal, DropTotal, LockInv, JobInv
<1>6. ASSUME NEW c \in Caller, Finish(c) PROVE LockInv' /\ JobInv'
  BY <1>6, CollectorAssumption DEF Finish, LockInv, JobInv, TypeOK
<1>7. CASE UNCHANGED vars
  BY <1>7 DEF vars, LockInv, JobInv
<1>8. QED
  BY <1>1, <1>2, <1>3, <1>4, <1>5, <1>6, <1>7 DEF Next, Step, Begins

-----------------------------------------------------------------------------
(* The aggregated gauges.                                                  *)

LEMMA AggregateInit == Init => AggregateInv
<1>1. ASSUME Init, NEW ns \in Namespace, NEW p
      PROVE  CountOf(workflows, ns) = 0 /\ TotalOf(workflows, ns, p) = 0
  <2>1. /\ {k \in Key : workflows[k] # NoWorkflow /\ NamespaceOf[k] = ns} = {}
        /\ {k \in Key : workflows[k] # NoWorkflow /\ NamespaceOf[k] = ns
                        /\ workflows[k].phase = p} = {}
    BY <1>1 DEF Init
  <2>2. QED  BY <2>1, FS_EmptySet DEF CountOf, TotalOf
<1>2. Init => AggregatesExact
  <2>1. SUFFICES ASSUME Init
                 PROVE  /\ \A ns \in Namespace : count[ns] = Gauge(CountOf(workflows, ns))
                        /\ \A np \in NamespacePhase :
                             total[np] = Gauge(TotalOf(workflows, np[1], np[2]))
    BY DEF AggregatesExact
  <2>2. ASSUME NEW ns \in Namespace PROVE count[ns] = Gauge(CountOf(workflows, ns))
    BY <1>1, <2>1 DEF Init, Gauge
  <2>3. ASSUME NEW np \in NamespacePhase
        PROVE  total[np] = Gauge(TotalOf(workflows, np[1], np[2]))
    <3>1. np[1] \in Namespace
      BY DEF NamespacePhase
    <3>2. TotalOf(workflows, np[1], np[2]) = 0
      BY <1>1, <2>1, <3>1
    <3>3. total[np] = NoSeries
      BY <2>1 DEF Init
    <3>4. QED  BY <3>2, <3>3 DEF Gauge
  <2>4. QED  BY <2>2, <2>3
<1>3. QED  BY <1>2, TypeInit, LockInit DEF Init, AggregateInv, RememberedInv, PublishInv

\* The value a publishing call sets or deletes is the one right for the cache.
LEMMA PublishesTruth ==
  ASSUME AggregateInv, NEW c \in Caller, pc[c] = "publish"
  PROVE  /\ \A ns \in Namespace : 
              /\ agg[c].counts[ns] = CountOf(workflows, ns)
              /\ CountOf(workflows, ns) \in Nat
              /\ ns \in lastNamespaces <=> agg[c].counts[ns] > 0
              /\ ns \in agg[c].staleNamespaces => CountOf(workflows, ns) = 0
         /\ \A np \in NamespacePhase :
              /\ agg[c].totals[np] = TotalOf(workflows, np[1], np[2])
              /\ TotalOf(workflows, np[1], np[2]) \in Nat
              /\ np \in lastNamespacePhases <=> agg[c].totals[np] > 0
              /\ np \in agg[c].staleNamespacePhases => TotalOf(workflows, np[1], np[2]) = 0
<1> USE DEF AggregateInv, PublishInv
<1>1. ASSUME NEW ns \in Namespace
      PROVE  /\ agg[c].counts[ns] = CountOf(workflows, ns)
             /\ CountOf(workflows, ns) \in Nat
             /\ ns \in lastNamespaces <=> agg[c].counts[ns] > 0
             /\ ns \in agg[c].staleNamespaces => CountOf(workflows, ns) = 0
  <2>1. agg[c].counts[ns] = CountOf(workflows, ns)
    OBVIOUS
  <2>2. ns \in lastNamespaces <=> CountOf(workflows, ns) > 0
    BY DEF currentNamespaces
  <2>3. CountOf(workflows, ns) \in Nat
    BY CountsAreNat
  <2>4. ns \in agg[c].staleNamespaces => ns \notin lastNamespaces
    OBVIOUS
  <2>5. QED  BY <2>1, <2>2, <2>3, <2>4
<1>2. ASSUME NEW np \in NamespacePhase
      PROVE  /\ agg[c].totals[np] = TotalOf(workflows, np[1], np[2])
             /\ TotalOf(workflows, np[1], np[2]) \in Nat
             /\ np \in lastNamespacePhases <=> agg[c].totals[np] > 0
             /\ np \in agg[c].staleNamespacePhases => TotalOf(workflows, np[1], np[2]) = 0
  <2>1. agg[c].totals[np] = TotalOf(workflows, np[1], np[2])
    OBVIOUS
  <2>2. np \in lastNamespacePhases <=> TotalOf(workflows, np[1], np[2]) > 0
    BY DEF currentNamespacePhases
  <2>3. TotalOf(workflows, np[1], np[2]) \in Nat
    BY CountsAreNat
  <2>4. np \in agg[c].staleNamespacePhases => np \notin lastNamespacePhases
    OBVIOUS
  <2>5. QED  BY <2>1, <2>2, <2>3, <2>4
<1>3. QED  BY <1>1, <1>2

LEMMA AggregateNext == AggregateInv /\ [Next]_vars => AggregateInv'
<1> SUFFICES ASSUME AggregateInv, [Next]_vars
             PROVE RememberedInv' /\ PublishInv' /\ AggregatesExact'
  BY TypeNext, LockNext DEF AggregateInv
<1> USE DEF AggregateInv
<1>0. (LockInv /\ TypeOK)'
  BY TypeNext, LockNext
<1>1. ASSUME NEW c \in Caller, Begins(c)
      PROVE RememberedInv' /\ PublishInv' /\ AggregatesExact'
  <2>1. PICK cache, drop, add : Begin(c, cache, drop, add)
    BY <1>1, BeginsBegin
  <2>2. pc' = [pc EXCEPT ![c] = "series"] /\ mu' = c /\ mu = NoCaller
        /\ UNCHANGED <<lastNamespaces, lastNamespacePhases, count, total>>
    BY <2>1 DEF Begin
  <2>3. \A d \in Caller : pc[d] # "publish" /\ pc'[d] # "publish"
    BY <2>2, CollectorAssumption DEF LockInv, TypeOK
  <2>4. QED  BY <2>2, <2>3, CollectorAssumption
             DEF RememberedInv, PublishInv, AggregatesExact
<1>2. ASSUME NEW c \in Caller, DropSeries(c) \/ CollectSeries(c)
      PROVE RememberedInv' /\ PublishInv' /\ AggregatesExact'
  <2>1. UNCHANGED <<cacheVars, gaugeVars, mu, pc, agg>>
    BY <1>2 DEF DropSeries, CollectSeries
  <2>2. QED  BY <2>1 DEF RememberedInv, PublishInv, AggregatesExact, cacheVars, gaugeVars
<1>3. ASSUME NEW c \in Caller, Aggregate(c)
      PROVE RememberedInv' /\ PublishInv' /\ AggregatesExact'
  <2>1. mu = c /\ mu' = c /\ pc'[c] = "publish"
    BY <1>3 DEF Aggregate, LockInv, TypeOK
  <2>2. \A d \in Caller : d # c => pc[d] = "idle" /\ pc'[d] = "idle"
    BY <1>3, <2>1 DEF Aggregate, LockInv, TypeOK
  <2>3. pc[c] = "series"
    BY <1>3 DEF Aggregate
  <2>4. RememberedInv' /\ AggregatesExact'
    BY <2>1, CollectorAssumption DEF RememberedInv, AggregatesExact
  <2>5. /\ \A ns \in Namespace : count[ns] # NoSeries => ns \in lastNamespaces
        /\ \A np \in NamespacePhase : total[np] # NoSeries => np \in lastNamespacePhases
    BY <2>2, <2>3 DEF RememberedInv
  <2>6. /\ agg'[c].counts = [ns \in Namespace |-> CountOf(workflows, ns)]
        /\ agg'[c].totals = [np \in NamespacePhase |-> TotalOf(workflows, np[1], np[2])]
        /\ agg'[c].staleNamespaces = lastNamespaces \ currentNamespaces(workflows)
        /\ agg'[c].staleNamespacePhases =
             lastNamespacePhases \ currentNamespacePhases(workflows)
        /\ lastNamespaces' = currentNamespaces(workflows)
        /\ lastNamespacePhases' = currentNamespacePhases(workflows)
        /\ UNCHANGED <<workflows, count, total>>
    BY <1>3 DEF Aggregate, TypeOK, gaugeVars, diffNamespaces, diffNamespacePhases
  <2>7. PublishInv'
    BY <2>2, <2>5, <2>6 DEF PublishInv
  <2>8. QED  BY <2>4, <2>7
<1>4. ASSUME NEW c \in Caller, NEW ns \in Namespace, SetCount(c, ns) \/ DropCount(c, ns)
      PROVE RememberedInv' /\ PublishInv' /\ AggregatesExact'
  <2>1. pc[c] = "publish" /\ UNCHANGED <<workflows, lastNamespaces, lastNamespacePhases,
                                         total, mu, pc, agg>>
    BY <1>4 DEF SetCount, DropCount, cacheVars
  <2>2. \A x \in Namespace : count'[x] # NoSeries => count[x] # NoSeries \/ x \in lastNamespaces
    BY <1>4, <2>1, PublishesTruth DEF SetCount, DropCount, TypeOK
  <2>3. mu # NoCaller
    BY <2>1, CollectorAssumption DEF LockInv
  <2>4. RememberedInv' /\ AggregatesExact'
    BY <2>1, <2>3 DEF RememberedInv, AggregatesExact
  <2>5. PublishInv'
    BY <2>1, <2>2 DEF PublishInv
  <2>6. QED  BY <2>4, <2>5
<1>5. ASSUME NEW c \in Caller, NEW np \in NamespacePhase, SetTotal(c, np) \/ DropTotal(c, np)
      PROVE RememberedInv' /\ PublishInv' /\ AggregatesExact'
  <2>1. pc[c] = "publish" /\ UNCHANGED <<workflows, lastNamespaces, lastNamespacePhases,
                                         count, mu, pc, agg>>
    BY <1>5 DEF SetTotal, DropTotal, cacheVars
  <2>2. \A x \in NamespacePhase :
          total'[x] # NoSeries => total[x] # NoSeries \/ x \in lastNamespacePhases
    BY <1>5, <2>1, PublishesTruth DEF SetTotal, DropTotal, TypeOK
  <2>3. mu # NoCaller
    BY <2>1, CollectorAssumption DEF LockInv
  <2>4. RememberedInv' /\ AggregatesExact'
    BY <2>1, <2>3 DEF RememberedInv, AggregatesExact
  <2>5. PublishInv'
    BY <2>1, <2>2 DEF PublishInv
  <2>6. QED  BY <2>4, <2>5
<1>6. ASSUME NEW c \in Caller, Finish(c)
      PROVE RememberedInv' /\ PublishInv' /\ AggregatesExact'
  <2>1. pc[c] = "publish" /\ CountsPublished(c) /\ TotalsPublished(c)
        /\ UNCHANGED <<workflows, lastNamespaces, lastNamespacePhases, count, total>>
    BY <1>6 DEF Finish, cacheVars, gaugeVars
  <2>2. \A d \in Caller : pc'[d] = "idle"
    BY <1>6, <2>1 DEF Finish, LockInv, TypeOK
  <2>3. ASSUME NEW ns \in Namespace PROVE count[ns] = Gauge(CountOf(workflows, ns))
    <3>1. CASE agg[c].counts[ns] > 0
      BY <2>1, <3>1, PublishesTruth DEF CountsPublished, CountsSet, Gauge
    <3>2. CASE ~(agg[c].counts[ns] > 0)
      <4>1. ns \notin lastNamespaces /\ ~(CountOf(workflows, ns) > 0)
        BY <2>1, <3>2, PublishesTruth
      <4>2. count[ns] = NoSeries
        BY <2>1, <4>1 DEF CountsPublished, PublishInv
      <4>3. QED  BY <4>1, <4>2 DEF Gauge
    <3>3. QED  BY <3>1, <3>2
  <2>4. ASSUME NEW np \in NamespacePhase
        PROVE total[np] = Gauge(TotalOf(workflows, np[1], np[2]))
    <3>1. CASE agg[c].totals[np] > 0
      BY <2>1, <3>1, PublishesTruth DEF TotalsPublished, TotalsSet, Gauge
    <3>2. CASE ~(agg[c].totals[np] > 0)
      <4>1. np \notin lastNamespacePhases /\ ~(TotalOf(workflows, np[1], np[2]) > 0)
        BY <2>1, <3>2, PublishesTruth
      <4>2. total[np] = NoSeries
        BY <2>1, <4>1 DEF TotalsPublished, PublishInv
      <4>3. QED  BY <4>1, <4>2 DEF Gauge
    <3>3. QED  BY <3>1, <3>2
  <2>5. AggregatesExact'
    BY <2>1, <2>3, <2>4 DEF AggregatesExact
  <2>6. RememberedInv'
    BY <2>1, <2>3, <2>4, PublishesTruth DEF RememberedInv, Gauge
  <2>7. PublishInv'
    BY <2>2 DEF PublishInv
  <2>8. QED  BY <2>5, <2>6, <2>7
<1>7. CASE UNCHANGED vars
  BY <1>7 DEF vars, RememberedInv, PublishInv, AggregatesExact
<1>8. QED
  BY <1>1, <1>2, <1>3, <1>4, <1>5, <1>6, <1>7 DEF Next, Step, Begins

\* Whenever no call is under way, the aggregated gauges are exactly the counts of
\* the cache, whatever the history of calls.
THEOREM AggregatesAreExact == Spec => []AggregatesExact
<1>1. AggregateInv => AggregatesExact
  BY DEF AggregateInv
<1>2. QED  BY <1>1, AggregateInit, AggregateNext, PTL DEF Spec

\* One step changes an aggregated gauge only to the value right for the cache.
MovesToTruth ==
  /\ \A ns \in Namespace :
       count'[ns] # count[ns] => count'[ns] = Gauge(CountOf(workflows, ns))
  /\ \A np \in NamespacePhase :
       total'[np] # total[np] => total'[np] = Gauge(TotalOf(workflows, np[1], np[2]))

LEMMA MovesStep == AggregateInv /\ [Next]_vars => [MovesToTruth]_vars
<1> SUFFICES ASSUME AggregateInv, [Next]_vars PROVE MovesToTruth
  OBVIOUS
<1>1. ASSUME UNCHANGED gaugeVars PROVE MovesToTruth
  BY <1>1 DEF MovesToTruth, gaugeVars
<1>2. ASSUME NEW c \in Caller, NEW ns \in Namespace, SetCount(c, ns) \/ DropCount(c, ns)
      PROVE MovesToTruth
  <2>1. pc[c] = "publish" /\ total' = total
    BY <1>2 DEF SetCount, DropCount
  <2>2. count \in [Namespace -> Nat \cup {NoSeries}]
    BY DEF AggregateInv, TypeOK
  <2>3. CASE SetCount(c, ns)
    <3>1. CountOf(workflows, ns) > 0 /\ count' = [count EXCEPT ![ns] = CountOf(workflows, ns)]
      BY <2>1, <2>3, PublishesTruth DEF SetCount
    <3>2. QED  BY <2>1, <2>2, <3>1 DEF MovesToTruth, Gauge
  <2>4. CASE DropCount(c, ns)
    <3>1. CountOf(workflows, ns) = 0 /\ count' = [count EXCEPT ![ns] = NoSeries]
      BY <2>1, <2>4, PublishesTruth DEF DropCount
    <3>2. QED  BY <2>1, <2>2, <3>1 DEF MovesToTruth, Gauge
  <2>5. QED  BY <1>2, <2>3, <2>4
<1>3. ASSUME NEW c \in Caller, NEW np \in NamespacePhase, SetTotal(c, np) \/ DropTotal(c, np)
      PROVE MovesToTruth
  <2>1. pc[c] = "publish" /\ count' = count
    BY <1>3 DEF SetTotal, DropTotal
  <2>2. total \in [NamespacePhase -> Nat \cup {NoSeries}]
    BY DEF AggregateInv, TypeOK
  <2>3. CASE SetTotal(c, np)
    <3>1. TotalOf(workflows, np[1], np[2]) > 0
          /\ total' = [total EXCEPT ![np] = TotalOf(workflows, np[1], np[2])]
      BY <2>1, <2>3, PublishesTruth DEF SetTotal
    <3>2. QED  BY <2>1, <2>2, <3>1 DEF MovesToTruth, Gauge
  <2>4. CASE DropTotal(c, np)
    <3>1. TotalOf(workflows, np[1], np[2]) = 0 /\ total' = [total EXCEPT ![np] = NoSeries]
      BY <2>1, <2>4, PublishesTruth DEF DropTotal
    <3>2. QED  BY <2>1, <2>2, <3>1 DEF MovesToTruth, Gauge
  <2>5. QED  BY <1>3, <2>3, <2>4
<1>4. ASSUME NEW c \in Caller, Begins(c) PROVE UNCHANGED gaugeVars
  BY <1>4, BeginsBegin DEF Begin, gaugeVars
<1>5. ASSUME NEW c \in Caller, DropSeries(c) \/ CollectSeries(c) \/ Aggregate(c) \/ Finish(c)
      PROVE UNCHANGED gaugeVars
  BY <1>5 DEF DropSeries, CollectSeries, Aggregate, Finish
<1>6. CASE UNCHANGED vars
  BY <1>1, <1>6 DEF vars, gaugeVars
<1>7. QED
  BY <1>1, <1>2, <1>3, <1>4, <1>5, <1>6 DEF Next, Step, Begins

\* An aggregated gauge is only ever changed to the value right for the cache as it
\* is at that moment.
THEOREM GaugesMoveToTruth == Spec => PublishedMovesToTruth
<1>1. AggregateInv /\ [Next]_vars => [MovesToTruth]_vars
  BY MovesStep
<1>2. Spec => [][MovesToTruth]_vars
  BY <1>1, AggregateInit, AggregateNext, PTL DEF Spec
<1>3. QED  BY <1>2 DEF MovesToTruth, PublishedMovesToTruth

-----------------------------------------------------------------------------
(* The per-workflow series.                                                *)

LEMMA DetailInit == Init => DetailInv
  BY TypeInit, LockInit
  DEF Init, DetailInv, WorkInv, UntouchedStaysPublished, GhostInv, QuietInv, NoJob

\* Between calls exactly the samples of the cached workflows are published.
LEMMA RestDetail ==
  ASSUME DetailInv, mu = NoCaller
  PROVE  /\ \A c \in Caller : job[c] = NoJob
         /\ collectDetails => \A k \in Key :
              workflows[k] # NoWorkflow => SamplesOf(workflows[k]) \subseteq detail
         /\ \A s \in detail : \E wf \in Cached(workflows) : s \in SamplesOf(wf)
<1>1. \A c \in Caller : job[c] = NoJob
  BY CollectorAssumption DEF DetailInv, LockInv, JobInv, TypeOK
<1>2. QED  BY <1>1 DEF DetailInv, UntouchedStaysPublished, GhostInv, NoJob

\* A new call may install any cache that keeps the workflows it schedules nothing
\* for, and must schedule the deletion of every object that leaves the cache.
LEMMA DetailBegin ==
  ASSUME DetailInv, NEW c \in Caller, NEW cache \in Lists,
         NEW drop \in SUBSET Objects, NEW add \in SUBSET Objects,
         Begin(c, cache, drop, add),
         add \subseteq Cached(cache),
         \A wf \in Cached(workflows) : wf \in drop \/ (wf \in Cached(cache) /\ wf \notin add),
         \A k \in Key : (cache[k] # NoWorkflow /\ cache[k] \notin add)
                          => (cache[k] = workflows[k] /\ \A wf \in drop : k # wf.key)
  PROVE  WorkInv' /\ UntouchedStaysPublished' /\ GhostInv' /\ QuietInv'
<1>1. mu = NoCaller /\ workflows' = cache /\ UNCHANGED <<detail, collectDetails>>
  BY DEF Begin
<1>2. /\ \A d \in Caller : d # c => job'[d] = NoJob
      /\ job'[c] = IF collectDetails THEN [drop |-> drop, add |-> add] ELSE NoJob
  BY <1>1, RestDetail DEF Begin, DetailInv, TypeOK
<1>3. QuietInv'
  BY <1>1, <1>2 DEF QuietInv, DetailInv
<1>4. WorkInv'
  BY <1>1, <1>2 DEF WorkInv, NoJob
<1>5. UntouchedStaysPublished'
  BY <1>1, <1>2, RestDetail DEF UntouchedStaysPublished
<1>6. GhostInv'
  <2>1. SUFFICES ASSUME NEW s \in detail, collectDetails
                 PROVE  \/ \E wf \in Cached(cache) :
                             s \in SamplesOf(wf) /\ \A d \in Caller : wf \notin job'[d].add
                        \/ \E d \in Caller : \E wf \in job'[d].drop : s \in SamplesOf(wf)
    BY <1>1 DEF GhostInv, DetailInv, QuietInv
  <2>2. PICK wf \in Cached(workflows) : s \in SamplesOf(wf)
    BY <1>1, RestDetail
  <2>3. job'[c].drop = drop /\ job'[c].add = add
    BY <1>2, <2>1
  <2>4. CASE wf \in drop
    BY <2>2, <2>3, <2>4
  <2>5. CASE wf \in Cached(cache) /\ wf \notin add
    BY <1>2, <2>2, <2>3, <2>5 DEF NoJob
  <2>6. QED  BY <2>2, <2>4, <2>5
<1>7. QED  BY <1>3, <1>4, <1>5, <1>6

LEMMA DetailNext == DetailInv /\ [Next]_vars => DetailInv'
<1> SUFFICES ASSUME DetailInv, [Next]_vars
             PROVE WorkInv' /\ UntouchedStaysPublished' /\ GhostInv' /\ QuietInv'
  BY TypeNext, LockNext DEF DetailInv
<1> USE DEF DetailInv
<1>0. workflows \in Lists
  BY DEF TypeOK
<1>1. ASSUME NEW c \in Caller, NEW wf \in Objects, AddWorkflow(c, wf)
      PROVE WorkInv' /\ UntouchedStaysPublished' /\ GhostInv' /\ QuietInv'
  <2> DEFINE cache == [workflows EXCEPT ![wf.key] = wf]
             drop == {workflows[wf.key]} \ {NoWorkflow}
  <2>1. cache \in Lists /\ drop \in SUBSET Objects /\ {wf} \in SUBSET Objects
    BY <1>0, InstalledCaches
  <2>2. wf.key \in Key /\ wf # NoWorkflow
    BY CollectorAssumption DEF WorkflowType
  <2>3. cache[wf.key] = wf /\ \A k \in Key : k # wf.key => cache[k] = workflows[k]
    BY <1>0, <2>2 DEF Lists
  <2>4. {wf} \subseteq Cached(cache)
    BY <2>2, <2>3 DEF Cached
  <2>5. ASSUME NEW o \in Cached(workflows)
        PROVE  o \in drop \/ (o \in Cached(cache) /\ o \notin {wf})
    <3>1. o.key \in Key /\ workflows[o.key] = o /\ o # NoWorkflow
      BY <1>0, CachedObjects DEF Cached
    <3>2. CASE o.key = wf.key
      BY <3>1, <3>2
    <3>3. CASE o.key # wf.key
      BY <2>3, <3>1, <3>3 DEF Cached
    <3>4. QED  BY <3>2, <3>3
  <2>6. ASSUME NEW k \in Key, cache[k] # NoWorkflow, cache[k] \notin {wf}
        PROVE  cache[k] = workflows[k] /\ \A o \in drop : k # o.key
    BY <1>0, <2>2, <2>3, <2>6, CachedObjects
  <2>7. Begin(c, cache, drop, {wf})
    BY <1>1 DEF AddWorkflow
  <2> HIDE DEF cache, drop
  <2>8. QED  BY <2>1, <2>4, <2>5, <2>6, <2>7, DetailBegin
<1>2. ASSUME NEW c \in Caller, NEW wf \in Objects, DeleteWorkflow(c, wf)
      PROVE WorkInv' /\ UntouchedStaysPublished' /\ GhostInv' /\ QuietInv'
  <2> DEFINE cache == [workflows EXCEPT ![wf.key] = NoWorkflow]
             target == IF workflows[wf.key] # NoWorkflow THEN workflows[wf.key] ELSE wf
  <2>1. cache \in Lists /\ {target} \in SUBSET Objects /\ {} \in SUBSET Objects
    BY <1>0, InstalledCaches
  <2>2. wf.key \in Key
    BY CollectorAssumption DEF WorkflowType
  <2>3. cache[wf.key] = NoWorkflow /\ \A k \in Key : k # wf.key => cache[k] = workflows[k]
    BY <1>0, <2>2 DEF Lists
  <2>4. target.key = wf.key
    BY <1>0, <2>2, CachedObjects
  <2>5. ASSUME NEW o \in Cached(workflows)
        PROVE  o \in {target} \/ (o \in Cached(cache) /\ o \notin {})
    <3>1. o.key \in Key /\ workflows[o.key] = o /\ o # NoWorkflow
      BY <1>0, CachedObjects DEF Cached
    <3>2. CASE o.key = wf.key
      BY <3>1, <3>2
    <3>3. CASE o.key # wf.key
      BY <2>3, <3>1, <3>3 DEF Cached
    <3>4. QED  BY <3>2, <3>3
  <2>6. ASSUME NEW k \in Key, cache[k] # NoWorkflow, cache[k] \notin {}
        PROVE  cache[k] = workflows[k] /\ \A o \in {target} : k # o.key
    BY <2>3, <2>4, <2>6
  <2>7. Begin(c, cache, {target}, {})
    BY <1>2 DEF DeleteWorkflow
  <2>8. {} \subseteq Cached(cache)
    OBVIOUS
  <2> HIDE DEF cache, target
  <2>9. QED  BY <2>1, <2>5, <2>6, <2>7, <2>8, DetailBegin
<1>3. ASSUME NEW c \in Caller, NEW next \in Lists, ReplaceWorkflows(c, next)
      PROVE WorkInv' /\ UntouchedStaysPublished' /\ GhostInv' /\ QuietInv'
  <2>1. Cached(workflows) \in SUBSET Objects /\ Cached(next) \in SUBSET Objects
    BY <1>0, CachedObjects
  <2>2. \A k \in Key : next[k] # NoWorkflow => next[k] \in Cached(next)
    BY CachedObjects
  <2>3. Begin(c, next, Cached(workflows), Cached(next))
    BY <1>3 DEF ReplaceWorkflows
  <2>4. QED  BY <2>1, <2>2, <2>3, DetailBegin
<1>4. ASSUME NEW c \in Caller, DropSeries(c)
      PROVE WorkInv' /\ UntouchedStaysPublished' /\ GhostInv' /\ QuietInv'
  <2>1. PICK wf \in job[c].drop : detail' = Without(detail, wf)
                                  /\ job' = [job EXCEPT ![c].drop = @ \ {wf}]
    BY <1>4 DEF DropSeries
  <2>2. UNCHANGED <<collectDetails, workflows>>
    BY <1>4 DEF DropSeries, cacheVars
  <2>3. /\ \A d \in Caller : job'[d].add = job[d].add /\ job'[d].drop \subseteq job[d].drop
        /\ \A d \in Caller : \A o \in job[d].drop : o \in job'[d].drop \/ (d = c /\ o = wf)
    BY <2>1 DEF TypeOK
  <2>4. wf \in Objects /\ detail' \subseteq detail
    BY <2>1 DEF TypeOK, Without
  <2>5. WorkInv'
    BY <2>2, <2>3 DEF WorkInv
  <2>6. QuietInv'
    BY <2>1, <2>2 DEF QuietInv, NoJob
  <2>7. UntouchedStaysPublished'
    <3>1. SUFFICES ASSUME collectDetails, NEW k \in Key, workflows[k] # NoWorkflow,
                          \A d \in Caller : workflows[k] \notin job[d].add,
                          NEW s \in SamplesOf(workflows[k])
                   PROVE  s \in detail'
      BY <2>2, <2>3 DEF UntouchedStaysPublished
    <3>2. s \in detail
      BY <3>1 DEF UntouchedStaysPublished
    <3>3. s.key = k
      BY <1>0, <3>1, CachedObjects, SamplesCovered
    <3>4. k # wf.key
      BY <2>1, <3>1 DEF WorkInv
    <3>5. QED  BY <2>1, <3>2, <3>3, <3>4 DEF Without
  <2>8. GhostInv'
    <3>1. SUFFICES ASSUME NEW s \in detail'
                   PROVE  \/ \E o \in Cached(workflows) :
                               s \in SamplesOf(o) /\ \A d \in Caller : o \notin job'[d].add
                          \/ \E d \in Caller : \E o \in job'[d].drop : s \in SamplesOf(o)
      BY <2>2 DEF GhostInv
    <3>2. s \notin SamplesOf(wf)
      BY <2>1, <2>4, <3>1, SamplesCovered DEF Without
    <3>3. \/ \E o \in Cached(workflows) :
               s \in SamplesOf(o) /\ \A d \in Caller : o \notin job[d].add
          \/ \E d \in Caller : \E o \in job[d].drop : s \in SamplesOf(o)
      BY <2>4, <3>1 DEF GhostInv
    <3>4. QED  BY <2>3, <3>2, <3>3
  <2>9. QED  BY <2>5, <2>6, <2>7, <2>8
<1>5. ASSUME NEW c \in Caller, CollectSeries(c)
      PROVE WorkInv' /\ UntouchedStaysPublished' /\ GhostInv' /\ QuietInv'
  <2>1. PICK wf \in job[c].add : detail' = With(detail, wf)
                                 /\ job' = [job EXCEPT ![c].add = @ \ {wf}]
    BY <1>5 DEF CollectSeries
  <2>2. UNCHANGED <<collectDetails, workflows>> /\ pc[c] = "series" /\ job[c].drop = {}
    BY <1>5 DEF CollectSeries, cacheVars
  <2>3. /\ \A d \in Caller : job'[d].drop = job[d].drop /\ job'[d].add \subseteq job[d].add
        /\ \A d \in Caller : \A o \in job[d].add : o \in job'[d].add \/ (d = c /\ o = wf)
        /\ wf \notin job'[c].add
    BY <2>1 DEF TypeOK
  <2>4. wf \in Objects /\ wf \in Cached(workflows) /\ wf.key \in Key
        /\ workflows[wf.key] = wf
    BY <1>0, <2>1, CachedObjects DEF WorkInv
  <2>5. \A d \in Caller : d # c => job[d] = NoJob
    BY <2>2 DEF LockInv, JobInv
  <2>6. WorkInv'
    BY <2>2, <2>3, <2>5 DEF WorkInv, NoJob
  <2>7. QuietInv'
    BY <2>1, <2>2 DEF QuietInv, NoJob
  <2>8. UntouchedStaysPublished'
    <3>1. SUFFICES ASSUME collectDetails, NEW k \in Key, workflows[k] # NoWorkflow,
                          \A d \in Caller : workflows[k] \notin job'[d].add,
                          NEW s \in SamplesOf(workflows[k])
                   PROVE  s \in detail'
      BY <2>2 DEF UntouchedStaysPublished
    <3>2. CASE workflows[k] = wf
      BY <2>1, <3>1, <3>2 DEF With
    <3>3. CASE workflows[k] # wf
      <4>1. s \in detail
        BY <2>3, <3>1, <3>3 DEF UntouchedStaysPublished
      <4>2. s.key = k /\ k # wf.key
        <5>1. workflows[k] \in Objects /\ workflows[k].key = k
          BY <1>0, <3>1, CachedObjects
        <5>2. s.key = k
          BY <3>1, <5>1, SamplesCovered
        <5>3. k # wf.key
          BY <2>4, <3>3
        <5>4. QED  BY <5>2, <5>3
      <4>3. \A t \in SamplesOf(wf) : ~SameSeries(s, t)
        BY <2>4, <4>2, SamplesCovered DEF SameSeries
      <4>4. QED  BY <2>1, <4>1, <4>3 DEF With
    <3>4. QED  BY <3>2, <3>3
  <2>9. GhostInv'
    <3>1. SUFFICES ASSUME NEW s \in detail'
                   PROVE  \/ \E o \in Cached(workflows) :
                               s \in SamplesOf(o) /\ \A d \in Caller : o \notin job'[d].add
                          \/ \E d \in Caller : \E o \in job'[d].drop : s \in SamplesOf(o)
      BY <2>2 DEF GhostInv
    <3>2. CASE s \in SamplesOf(wf)
      BY <2>3, <2>4, <2>5, <3>2 DEF NoJob
    <3>3. CASE s \notin SamplesOf(wf)
      <4>1. s \in detail
        BY <2>1, <3>1, <3>3 DEF With
      <4>2. QED  BY <2>3, <4>1 DEF GhostInv
    <3>4. QED  BY <3>2, <3>3
  <2>10. QED  BY <2>6, <2>7, <2>8, <2>9
<1>6. ASSUME UNCHANGED <<collectDetails, workflows, detail, job>>
      PROVE WorkInv' /\ UntouchedStaysPublished' /\ GhostInv' /\ QuietInv'
  BY <1>6 DEF WorkInv, UntouchedStaysPublished, GhostInv, QuietInv
<1>7. ASSUME NEW c \in Caller,
             \/ Aggregate(c) \/ Finish(c)
             \/ \E ns \in Namespace : SetCount(c, ns) \/ DropCount(c, ns)
             \/ \E np \in NamespacePhase : SetTotal(c, np) \/ DropTotal(c, np)
      PROVE UNCHANGED <<collectDetails, workflows, detail, job>>
  BY <1>7 DEF Aggregate, Finish, SetCount, DropCount, SetTotal, DropTotal, cacheVars
<1>8. CASE UNCHANGED vars
  BY <1>6, <1>8 DEF vars
<1>9. QED
  BY <1>1, <1>2, <1>3, <1>4, <1>5, <1>6, <1>7, <1>8 DEF Next, Step

\* A call never disturbs the published series of the workflows it is not about.
THEOREM UntouchedArePublished == Spec => []UntouchedStaysPublished
<1>1. DetailInv => UntouchedStaysPublished
  BY DEF DetailInv
<1>2. QED  BY <1>1, DetailInit, DetailNext, PTL DEF Spec

\* Every published sample is one of a cached workflow or of an object whose
\* deletion a running call still has scheduled.
THEOREM NoGhosts == Spec => []NoGhostSeries
<1>1. DetailInv => NoGhostSeries
  BY DEF DetailInv, GhostInv, NoGhostSeries
<1>2. QED  BY <1>1, DetailInit, DetailNext, PTL DEF Spec
=============================================================================
