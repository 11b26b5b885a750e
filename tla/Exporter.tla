------------------------------ MODULE Exporter ------------------------------
(***************************************************************************)
(* The replicas of the exporter, as cmd/exporter/main.go runs them: either *)
(* one of them is elected through a Lease and publishes everything, or     *)
(* every replica publishes its shard of the namespaces.  A replica starts  *)
(* its informers when it leads (or at once, without election), serves      *)
(* scrapes until it is told to terminate, and dies when it loses the       *)
(* lease.  It may be killed, cut off from the API server, and restarted    *)
(* under the same hostname by the kubelet.                                 *)
(*                                                                         *)
(* The elector is client-go's; its actions are those of                    *)
(* leaderelection.LeaderElector.Run with ReleaseOnCancel.  Time passes in  *)
(* ticks; steps between ticks take no time.                                *)
(***************************************************************************)
EXTENDS NamespaceSharding

CONSTANTS
  Replica,        \* pods
  Suffix,         \* Suffix[r]: the number at the end of r's hostname
  Flags,          \* command lines: leaderElect, namespace, total, and index[r]
  Informer,       \* the informers: "workflow" and "pod"
  RetryPeriod, RenewDeadline, LeaseDuration,  \* of the election, in ticks
  MaxFaults,      \* bound: kills, terminations, cuts and lost answers
  Nobody          \* "the lease has no holder"

\* client-go refuses other periods, but for the sum, which the defaults respect
\* (5s + 20s < 30s): see ExclusivePublishing.
ASSUME ExporterAssumption ==
  /\ "workflow" \in Informer
  /\ \A f \in Flags :
       f.leaderElect \in BOOLEAN /\ f.total \in Int /\ f.index \in [Replica -> Int]
  /\ Nobody \notin Replica
  /\ RetryPeriod \in Nat \ {0} /\ RenewDeadline \in Nat /\ LeaseDuration \in Nat
  /\ RetryPeriod < RenewDeadline
  /\ RetryPeriod + RenewDeadline < LeaseDuration
  /\ MaxFaults \in Nat

VARIABLES
  flags,   \* the command line, the same for all replicas but for the index
  proc,    \* proc[r]: the process of r
  lease,   \* the Lease object: its holder, and ticks since it was last renewed
  cut,     \* replicas that do not reach the API server
  faults   \* faults so far

vars == <<flags, proc, lease, cut, faults>>

(***************************************************************************)
(* main: where main() is.  elect: where the elector is.  controllers:      *)
(* runControllers is not called, about to run, or runs.  synced: informers *)
(* whose cache has synced.  isLeader: the health state's.  waited: ticks   *)
(* since the elector last saw the lease renewed.                           *)
(***************************************************************************)
Down == [main |-> "down", elect |-> "off", controllers |-> "off", synced |-> {},
         isLeader |-> FALSE, waited |-> 0]

Init ==
  /\ flags \in Flags
  /\ proc = [r \in Replica |-> Down]
  /\ lease = [holder |-> Nobody, age |-> 0]
  /\ cut = {}
  /\ faults = 0

MatcherOf(r) == buildNamespaceMatcher(flags.namespace, flags.total, flags.index[r], Suffix[r])

\* A mistake: election and shards together.
AcceptedTogether(r) == MatcherOf(r) # Invalid

Accepted(r) ==
  /\ MatcherOf(r) # Invalid
  /\ ~(MatcherOf(r).mode = "shard" /\ flags.leaderElect)

-----------------------------------------------------------------------------
(* main and its goroutines.                                                *)

\* Flags that are refused end the process at once, which is no step.
Start(r) ==
  /\ proc[r].main = "down"
  /\ Accepted(r)
  /\ proc' = [proc EXCEPT ![r] =
       IF flags.leaderElect
       THEN [Down EXCEPT !.main = "up", !.elect = "acquiring"]
       ELSE [Down EXCEPT !.main = "up", !.isLeader = TRUE, !.controllers = "launched"]]
  /\ UNCHANGED <<flags, lease, cut, faults>>

\* OnStartedLeading, a goroutine of its own, or the goroutine of main.
RunControllers(r) ==
  /\ proc[r].controllers = "launched"
  /\ proc' = [proc EXCEPT ![r].controllers = "running", ![r].isLeader = TRUE]
  /\ UNCHANGED <<flags, lease, cut, faults>>

\* Start of an informer, up to Mark...Synced and the workers: it waits for the cache
\* whatever becomes of its context.
Sync(r, i) ==
  /\ proc[r].controllers = "running"
  /\ i \notin proc[r].synced
  /\ r \notin cut
  /\ proc' = [proc EXCEPT ![r].synced = @ \cup {i}]
  /\ UNCHANGED <<flags, lease, cut, faults>>

MainMoves(r, from, to) ==
  /\ proc[r].main = from
  /\ proc' = [proc EXCEPT ![r] = IF to = "down" THEN Down ELSE [@ EXCEPT !.main = to]]
  /\ UNCHANGED <<flags, lease, cut>>

\* SIGTERM: MarkShuttingDown, and Shutdown of the HTTP server begins.
Terminate(r) ==
  /\ MainMoves(r, "up", "draining")
  /\ faults < MaxFaults /\ faults' = faults + 1

\* Shutdown returns when no request is under way, or after its 10 seconds.
ServerClosed(r) == MainMoves(r, "draining", "closed") /\ UNCHANGED faults

Cancel(r) == MainMoves(r, "closed", "cancelled") /\ UNCHANGED faults

\* A mistake: main waits for Start of both informers to return.
ExitAfterInformers(r) ==
  /\ proc[r].synced = Informer
  /\ MainMoves(r, "cancelled", "down") /\ UNCHANGED faults

\* main returns; nobody waits for the informers or the elector.
Exit(r) == MainMoves(r, "cancelled", "down") /\ UNCHANGED faults

\* A mistake: the signal itself cancels the context.
CancelledBySignal(r) == proc[r].main \in {"draining", "closed", "cancelled"}

Cancelled(r) == proc[r].main = "cancelled"

-----------------------------------------------------------------------------
(* The elector.                                                            *)

\* The API server lets r write the lease, and the elector tries to.
CanHold(r) ==
  /\ r \notin cut
  /\ lease.holder \in {r, Nobody} \/ lease.age >= LeaseDuration

Acquire(r) ==
  /\ proc[r].elect = "acquiring" /\ ~Cancelled(r)
  /\ CanHold(r)
  /\ lease' = [holder |-> r, age |-> 0]
  /\ proc' = [proc EXCEPT ![r].elect = "leading", ![r].controllers = "launched"]
  /\ UNCHANGED <<flags, cut, faults>>

Renew(r) ==
  /\ proc[r].elect = "leading" /\ ~Cancelled(r)
  /\ proc[r].waited > 0
  /\ CanHold(r)
  /\ lease' = [holder |-> r, age |-> 0]
  /\ proc' = [proc EXCEPT ![r].waited = 0]
  /\ UNCHANGED <<flags, cut, faults>>

\* The lease is written but the answer gets lost.
Unanswered(r) ==
  /\ proc[r].elect \in {"acquiring", "leading"} /\ ~Cancelled(r)
  /\ CanHold(r)
  /\ lease' = [holder |-> r, age |-> 0]
  /\ faults < MaxFaults /\ faults' = faults + 1
  /\ UNCHANGED <<flags, proc, cut>>

\* Acquiring ends with the context, renewing also when a round of it has failed.
StopElecting(r) ==
  /\ \/ proc[r].elect \in {"acquiring", "leading"} /\ Cancelled(r)
     \/ proc[r].elect = "leading" /\ proc[r].waited >= RenewDeadline /\ ~CanHold(r)
  /\ proc' = [proc EXCEPT ![r].elect = IF @ = "leading" THEN "releasing" ELSE "stopping"]
  /\ UNCHANGED <<flags, lease, cut, faults>>

\* The release comes before the leader's context is cancelled and OnStoppedLeading runs.
Release(r) ==
  /\ proc[r].elect = "releasing"
  /\ lease' = IF lease.holder = r /\ r \notin cut THEN [lease EXCEPT !.holder = Nobody] ELSE lease
  /\ proc' = [proc EXCEPT ![r].elect = "stopping"]
  /\ UNCHANGED <<flags, cut, faults>>

\* MarkLeader(false), on every path.
OnStoppedLeading(r) ==
  /\ proc[r].elect = "stopping"
  /\ proc' = [proc EXCEPT ![r] = [@ EXCEPT !.elect = "stopped", !.isLeader = FALSE]]
  /\ UNCHANGED <<flags, lease, cut, faults>>

\* Its end, any time later: without a cancelled context the process ends ("Leadership
\* lost").
ReturnOrFatalf(r) ==
  /\ proc[r].elect = "stopped"
  /\ proc' = [proc EXCEPT ![r] = IF Cancelled(r) THEN [@ EXCEPT !.elect = "ended"] ELSE Down]
  /\ UNCHANGED <<flags, lease, cut, faults>>

-----------------------------------------------------------------------------
(* The environment: faults, and time.                                      *)

Kill(r) ==
  /\ proc[r].main # "down"
  /\ proc' = [proc EXCEPT ![r] = Down]
  /\ faults < MaxFaults /\ faults' = faults + 1
  /\ UNCHANGED <<flags, lease, cut>>

Cut(r) ==
  /\ cut' = cut \cup {r}
  /\ r \notin cut
  /\ faults < MaxFaults /\ faults' = faults + 1
  /\ UNCHANGED <<flags, proc, lease>>

Heal(r) ==
  /\ r \in cut
  /\ cut' = cut \ {r}
  /\ UNCHANGED <<flags, proc, lease, faults>>

\* A round of renewals starts at most RetryPeriod after the last success and gets
\* RenewDeadline: no elector waits longer.
Tick ==
  /\ \A r \in Replica : proc[r].elect = "leading" => proc[r].waited < RetryPeriod + RenewDeadline
  /\ proc' = [r \in Replica |->
       IF proc[r].elect = "leading" THEN [proc[r] EXCEPT !.waited = @ + 1] ELSE proc[r]]
  /\ lease' = [lease EXCEPT !.age = IF @ < LeaseDuration THEN @ + 1 ELSE @]
  /\ UNCHANGED <<flags, cut, faults>>

-----------------------------------------------------------------------------
MainStep(r) == Start(r) \/ ServerClosed(r) \/ Cancel(r) \/ Exit(r)

ControllerStep(r) == RunControllers(r) \/ \E i \in Informer : Sync(r, i)

ElectorStep(r) ==
  \/ Acquire(r) \/ Renew(r) \/ StopElecting(r) \/ Release(r)
  \/ OnStoppedLeading(r) \/ ReturnOrFatalf(r)

Next ==
  \/ \E r \in Replica :
       \/ MainStep(r) \/ ControllerStep(r) \/ ElectorStep(r)
       \/ Terminate(r) \/ Unanswered(r) \/ Kill(r) \/ Cut(r) \/ Heal(r)
  \/ Tick

\* The kubelet restarts a process that has ended, goroutines run, a cut is healed
\* and time passes.
Fairness ==
  /\ \A r \in Replica :
       WF_vars(MainStep(r)) /\ WF_vars(ControllerStep(r)) /\ WF_vars(ElectorStep(r))
  /\ WF_vars(\E r \in Replica : Heal(r))
  /\ WF_vars(Tick)

Spec == Init /\ [][Next]_vars /\ Fairness
-----------------------------------------------------------------------------
(* Type invariant; an elector runs only in a process that has no shard.    *)
TypeOK ==
  /\ flags \in Flags
  /\ proc \in [Replica ->
       [main : {"down", "up", "draining", "closed", "cancelled"},
        elect : {"off", "acquiring", "leading", "releasing", "stopping", "stopped", "ended"},
        controllers : {"off", "launched", "running"}, synced : SUBSET Informer,
        isLeader : BOOLEAN, waited : 0..RetryPeriod + RenewDeadline]]
  /\ \A r \in Replica : proc[r].main = "down" => proc[r] = Down
  /\ \A r \in Replica : proc[r].elect # "off" => MatcherOf(r).mode = "single"
  /\ lease \in [holder : Replica \cup {Nobody}, age : 0..LeaseDuration]
  /\ cut \subseteq Replica
  /\ faults \in 0..MaxFaults

\* Namespaces whose workflows a scrape of r reports: the server answers until its
\* Shutdown has returned, and the workers start once the cache is synced.
Published(r) ==
  IF proc[r].main \in {"up", "draining"} /\ "workflow" \in proc[r].synced
  THEN MatcherOf(r).matched
  ELSE {}

\* r has lost its lease and is about to end.
GivenUp(r) == proc[r].elect \in {"releasing", "stopping", "stopped"}

\* The replicas are shards, and those whose flags are accepted have different indices.
DistinctShards ==
  /\ flags.total > 1
  /\ \A r, s \in Replica :
       (r # s /\ Accepted(r) /\ Accepted(s)) => MatcherOf(r).index # MatcherOf(s).index

\* With election, or shards, no two replicas publish the same namespace, so that a
\* sum over replicas counts every workflow once, whatever is killed, terminated, cut
\* off or unanswered; but for a replica in its last steps after it lost the lease.
ExclusivePublishing ==
  (flags.leaderElect \/ DistinctShards) =>
    \A r, s \in Replica :
      (r # s /\ Published(r) \cap Published(s) # {}) => GivenUp(r) \/ GivenUp(s)

\* The flags are accepted, and with shards every index has a replica.
WellConfigured ==
  /\ \A r \in Replica : Accepted(r)
  /\ flags.leaderElect \/ {MatcherOf(r).index : r \in Replica} = 0..flags.total - 1

\* After the last fault every namespace is, and stays, published by some replica:
\* restart, election, expiry of a dead leader's lease and sync lead there.
EveryNamespacePublished ==
  <>[](WellConfigured =>
         \A ns \in baseMatcher(flags.namespace) \ {""} : \E r \in Replica : ns \in Published(r))

\* A shutdown that has begun ends, whether the replica leads, follows, still waits
\* for the sync of its caches or for the API server.
ShutdownCompletes ==
  \A r \in Replica : []<>(proc[r].main \in {"down", "up"})

\* What /readyz answers while events come in (module Health has the rest).
IsReady(r) ==
  /\ proc[r].main = "up"
  /\ ~flags.leaderElect \/ proc[r].isLeader
  /\ proc[r].synced = Informer

\* "kubectl wait --for=condition=Available": the Deployment has two replicas and
\* maxUnavailable 0, so both must be ready at the same time.
EventuallyAvailable == <>(\A r \in Replica : IsReady(r))
=============================================================================
