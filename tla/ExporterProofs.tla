--------------------------- MODULE ExporterProofs ---------------------------
(***************************************************************************)
(* Proofs about Exporter, for any replicas, command lines, hash and        *)
(* periods of the election.                                                *)
(***************************************************************************)
EXTENDS Exporter, NamespaceShardingProofs

ProcType ==
  [main : {"down", "up", "draining", "closed", "cancelled"},
   elect : {"off", "acquiring", "leading", "releasing", "stopping", "stopped", "ended"},
   controllers : {"off", "launched", "running"}, synced : SUBSET Informer,
   isLeader : BOOLEAN, waited : 0..RetryPeriod + RenewDeadline]

\* What holds of the process p of r alone.  With election it syncs its informers only
\* once it leads, and outlives its elector only while it is about to exit.
ProcOK(r, p) ==
  /\ p \in ProcType
  /\ p.main = "down" => p = Down
  /\ p.main # "down" => Accepted(r)
  /\ p.elect # "off" => MatcherOf(r).mode = "single"
  /\ flags.leaderElect =>
       /\ (p.controllers # "off" \/ p.synced # {}) =>
            p.elect \in {"leading", "releasing", "stopping", "stopped", "ended"}
       /\ p.elect = "ended" => p.main = "cancelled"

ProcsInv ==
  /\ flags \in Flags
  /\ proc \in [Replica -> ProcType]
  /\ \A r \in Replica : ProcOK(r, proc[r])

FaultsInv == cut \subseteq Replica /\ faults \in 0..MaxFaults

(***************************************************************************)
(* The inductive invariant behind ExclusivePublishing: a replica that      *)
(* leads holds the lease, and the lease is no older than what its elector  *)
(* has waited, so that nobody else may write it.                           *)
(***************************************************************************)
LeaseInv ==
  /\ lease \in [holder : Replica \cup {Nobody}, age : 0..LeaseDuration]
  /\ \A r \in Replica :
       proc[r].elect = "leading" => lease.holder = r /\ lease.age <= proc[r].waited

ExporterInv == ProcsInv /\ FaultsInv /\ LeaseInv

-----------------------------------------------------------------------------
(* The processes.                                                          *)

LEMMA DownIsOK == ASSUME NEW r \in Replica PROVE ProcOK(r, Down)
  BY ExporterAssumption DEF ProcOK, Down, ProcType

\* A step that replaces the process of one replica.
LEMMA ProcStep ==
  ASSUME ProcsInv, NEW r \in Replica, NEW p, ProcOK(r, p),
         proc' = [proc EXCEPT ![r] = p], flags' = flags
  PROVE  /\ ProcsInv'
         /\ proc'[r] = p
         /\ \A s \in Replica : s # r => proc'[s] = proc[s]
<1>1. p \in ProcType
  BY DEF ProcOK
<1>2. /\ proc' \in [Replica -> ProcType] /\ proc'[r] = p
      /\ \A s \in Replica : s # r => proc'[s] = proc[s]
  BY <1>1 DEF ProcsInv
<1>3. ASSUME NEW s \in Replica PROVE ProcOK(s, proc'[s])
  BY <1>2 DEF ProcsInv
<1>4. \A s \in Replica : ProcOK(s, proc[s])' <=> ProcOK(s, proc'[s])
  BY DEF ProcOK, Accepted, MatcherOf
<1>5. QED  BY <1>2, <1>3, <1>4 DEF ProcsInv

\* Flags that are accepted together with election leave one mode.
LEMMA ElectedIsSingle ==
  ASSUME ProcsInv, NEW r \in Replica, Accepted(r), flags.leaderElect
  PROVE  MatcherOf(r).mode = "single"
<1>1. flags.total \in Int /\ flags.index[r] \in Int
  BY ExporterAssumption DEF ProcsInv
<1> DEFINE total == flags.total
           index == flags.index[r]
<1>2. MatcherOf(r) = buildNamespaceMatcher(flags.namespace, total, index, Suffix[r])
  BY DEF MatcherOf
<1>3. MatcherOf(r) # Invalid /\ MatcherOf(r).mode # "shard"
  BY DEF Accepted
<1> HIDE DEF total, index
<1>4. CASE total < 1 \/ (total = 1 /\ index > 0)
  BY <1>1, <1>2, <1>3, <1>4 DEF buildNamespaceMatcher, total, index
<1>5. CASE total = 1 /\ index <= 0
  BY <1>1, <1>2, <1>5 DEF buildNamespaceMatcher, Matcher
<1>6. CASE total > 1
  BY <1>1, <1>2, <1>3, <1>6 DEF buildNamespaceMatcher, Matcher, total, index
<1>7. QED  BY <1>1, <1>4, <1>5, <1>6 DEF total, index

LEMMA ProcsInit == Init => ProcsInv
<1> SUFFICES ASSUME Init PROVE ProcsInv
  OBVIOUS
<1>1. flags \in Flags /\ proc = [r \in Replica |-> Down]
  BY DEF Init
<1>2. \A r \in Replica : ProcOK(r, proc[r])
  BY <1>1, DownIsOK
<1>3. QED  BY <1>1, <1>2 DEF ProcsInv, ProcOK

LEMMA ProcsNext == ProcsInv /\ [Next]_vars => ProcsInv'
<1> SUFFICES ASSUME ProcsInv, [Next]_vars PROVE ProcsInv'
  OBVIOUS
<1>1. ASSUME NEW r \in Replica, NEW p, ProcOK(r, p),
             proc' = [proc EXCEPT ![r] = p], flags' = flags
      PROVE  ProcsInv'
  BY <1>1, ProcStep
<1>2. ASSUME NEW r \in Replica PROVE ProcOK(r, proc[r])
  BY <1>2 DEF ProcsInv
<1>3. ASSUME NEW r \in Replica, Start(r) PROVE ProcsInv'
  <2>1. CASE flags.leaderElect
    <3> DEFINE p == [Down EXCEPT !.main = "up", !.elect = "acquiring"]
    <3>1. ProcOK(r, p)
      BY <1>3, <2>1, DownIsOK, ElectedIsSingle DEF Start, ProcOK, ProcType, Down
    <3>2. QED  BY <1>1, <1>3, <2>1, <3>1 DEF Start
  <2>2. CASE ~flags.leaderElect
    <3> DEFINE p == [Down EXCEPT !.main = "up", !.isLeader = TRUE, !.controllers = "launched"]
    <3>1. ProcOK(r, p)
      BY <1>3, <2>2, DownIsOK DEF Start, ProcOK, ProcType, Down
    <3>2. QED  BY <1>1, <1>3, <2>2, <3>1 DEF Start
  <2>3. QED  BY <2>1, <2>2
<1>4. ASSUME NEW r \in Replica, RunControllers(r) PROVE ProcsInv'
  <2> DEFINE p == [proc[r] EXCEPT !.controllers = "running", !.isLeader = TRUE]
  <2>1. ProcOK(r, p)
    <3>1. p \in ProcType
      BY <1>2 DEF ProcOK, ProcType
    <3>2. proc[r].main # "down" /\ proc[r].controllers # "off"
      BY <1>2, <1>4 DEF RunControllers, ProcOK, Down
    <3>3. p.main = proc[r].main /\ p.elect = proc[r].elect /\ p.synced = proc[r].synced
      BY <1>2 DEF ProcOK, ProcType
    <3>4. QED  BY <1>2, <3>1, <3>2, <3>3 DEF ProcOK
  <2>2. proc' = [proc EXCEPT ![r] = p]
    BY <1>4 DEF RunControllers
  <2>3. QED  BY <1>1, <1>4, <2>1, <2>2 DEF RunControllers
<1>5. ASSUME NEW r \in Replica, NEW i \in Informer, Sync(r, i) PROVE ProcsInv'
  <2> DEFINE p == [proc[r] EXCEPT !.synced = @ \cup {i}]
  <2>1. ProcOK(r, p)
    BY <1>2, <1>5 DEF Sync, ProcOK, ProcType, Down
  <2>2. proc' = [proc EXCEPT ![r] = p]
    BY <1>5 DEF Sync
  <2>3. QED  BY <1>1, <1>5, <2>1, <2>2 DEF Sync
<1>6. ASSUME NEW r \in Replica, NEW from, NEW to \in {"draining", "closed", "cancelled", "down"},
             MainMoves(r, from, to), from # "down", from # "cancelled" \/ to = "down"
      PROVE  ProcsInv'
  <2> DEFINE p == IF to = "down" THEN Down ELSE [proc[r] EXCEPT !.main = to]
  <2>1. ProcOK(r, p)
    BY <1>2, <1>6, DownIsOK DEF MainMoves, ProcOK, ProcType
  <2>2. proc' = [proc EXCEPT ![r] = p]
    BY <1>6 DEF MainMoves
  <2>3. QED  BY <1>1, <1>6, <2>1, <2>2 DEF MainMoves
<1>7. ASSUME NEW r \in Replica, Terminate(r) \/ ServerClosed(r) \/ Cancel(r) \/ Exit(r)
      PROVE  ProcsInv'
  BY <1>6, <1>7 DEF Terminate, ServerClosed, Cancel, Exit
<1>8. ASSUME NEW r \in Replica, Acquire(r) PROVE ProcsInv'
  <2> DEFINE p == [proc[r] EXCEPT !.elect = "leading", !.controllers = "launched"]
  <2>1. ProcOK(r, p)
    <3>1. p \in ProcType
      BY <1>2 DEF ProcOK, ProcType
    <3>2. proc[r].main # "down" /\ proc[r].elect = "acquiring"
      BY <1>2, <1>8 DEF Acquire, ProcOK, Down
    <3>3. p.main = proc[r].main /\ p.elect = "leading"
      BY <1>2 DEF ProcOK, ProcType
    <3>4. QED  BY <1>2, <3>1, <3>2, <3>3 DEF ProcOK
  <2>2. proc' = [proc EXCEPT ![r] = p]
    BY <1>8 DEF Acquire
  <2>3. QED  BY <1>1, <1>8, <2>1, <2>2 DEF Acquire
<1>9. ASSUME NEW r \in Replica, Renew(r) PROVE ProcsInv'
  <2> DEFINE p == [proc[r] EXCEPT !.waited = 0]
  <2>1. ProcOK(r, p)
    BY <1>2, <1>9, ExporterAssumption DEF Renew, ProcOK, ProcType, Down
  <2>2. proc' = [proc EXCEPT ![r] = p]
    BY <1>9 DEF Renew
  <2>3. QED  BY <1>1, <1>9, <2>1, <2>2 DEF Renew
<1>10. ASSUME NEW r \in Replica, StopElecting(r) PROVE ProcsInv'
  <2> DEFINE p == [proc[r] EXCEPT !.elect = IF @ = "leading" THEN "releasing" ELSE "stopping"]
  <2>1. ProcOK(r, p)
    BY <1>2, <1>10 DEF StopElecting, ProcOK, ProcType, Down
  <2>2. proc' = [proc EXCEPT ![r] = p]
    BY <1>10 DEF StopElecting
  <2>3. QED  BY <1>1, <1>10, <2>1, <2>2 DEF StopElecting
<1>11. ASSUME NEW r \in Replica, Release(r) PROVE ProcsInv'
  <2> DEFINE p == [proc[r] EXCEPT !.elect = "stopping"]
  <2>1. ProcOK(r, p)
    BY <1>2, <1>11 DEF Release, ProcOK, ProcType, Down
  <2>2. proc' = [proc EXCEPT ![r] = p]
    BY <1>11 DEF Release
  <2>3. QED  BY <1>1, <1>11, <2>1, <2>2 DEF Release
<1>12. ASSUME NEW r \in Replica, OnStoppedLeading(r) PROVE ProcsInv'
  <2> DEFINE p == [proc[r] EXCEPT !.elect = "stopped", !.isLeader = FALSE]
  <2>1. ProcOK(r, p)
    <3>1. p \in ProcType
      BY <1>2 DEF ProcOK, ProcType
    <3>2. proc[r].main # "down" /\ proc[r].elect = "stopping"
      BY <1>2, <1>12 DEF OnStoppedLeading, ProcOK, Down
    <3>3. /\ p.main = proc[r].main /\ p.elect = "stopped"
          /\ p.controllers = proc[r].controllers /\ p.synced = proc[r].synced
      BY <1>2 DEF ProcOK, ProcType
    <3>4. QED  BY <1>2, <3>1, <3>2, <3>3 DEF ProcOK
  <2>2. proc' = [proc EXCEPT ![r] = p]
    BY <1>12 DEF OnStoppedLeading
  <2>3. QED  BY <1>1, <1>12, <2>1, <2>2 DEF OnStoppedLeading
<1>13. ASSUME NEW r \in Replica, ReturnOrFatalf(r) PROVE ProcsInv'
  <2> DEFINE p == IF Cancelled(r) THEN [proc[r] EXCEPT !.elect = "ended"] ELSE Down
  <2>1. ProcOK(r, p)
    BY <1>2, <1>13, DownIsOK DEF ReturnOrFatalf, ProcOK, ProcType, Cancelled
  <2>2. proc' = [proc EXCEPT ![r] = p]
    BY <1>13 DEF ReturnOrFatalf
  <2>3. QED  BY <1>1, <1>13, <2>1, <2>2 DEF ReturnOrFatalf
<1>14. ASSUME NEW r \in Replica, Kill(r) PROVE ProcsInv'
  BY <1>1, <1>14, DownIsOK DEF Kill
<1>15. ASSUME UNCHANGED <<flags, proc>> PROVE ProcsInv'
  BY <1>15 DEF ProcsInv, ProcOK, Accepted, MatcherOf
<1>16. ASSUME NEW r \in Replica, Unanswered(r) \/ Cut(r) \/ Heal(r) PROVE ProcsInv'
  BY <1>15, <1>16 DEF Unanswered, Cut, Heal
<1>17. CASE Tick
  <2>1. flags' = flags
    BY <1>17 DEF Tick
  <2>2. ASSUME NEW r \in Replica PROVE ProcOK(r, proc'[r])
    <3>1. CASE proc[r].elect = "leading"
      <4> DEFINE p == [proc[r] EXCEPT !.waited = @ + 1]
      <4>1. proc'[r] = p
        BY <1>17, <3>1 DEF Tick
      <4>2. proc[r].waited < RetryPeriod + RenewDeadline
        BY <1>17, <3>1 DEF Tick
      <4>3. p \in ProcType
        BY <1>2, <4>2, ExporterAssumption DEF ProcOK, ProcType
      <4>4. ProcOK(r, p)
        BY <1>2, <3>1, <4>3 DEF ProcOK, ProcType, Down
      <4>5. QED  BY <4>1, <4>4
    <3>2. CASE proc[r].elect # "leading"
      BY <1>2, <1>17, <3>2 DEF Tick
    <3>3. QED  BY <3>1, <3>2
  <2>3. \A r \in Replica : ProcOK(r, proc[r])' <=> ProcOK(r, proc'[r])
    BY <2>1 DEF ProcOK, Accepted, MatcherOf
  <2>4. proc' \in [Replica -> ProcType]
    BY <1>17, <2>2 DEF Tick, ProcOK
  <2>5. QED  BY <2>1, <2>2, <2>3, <2>4 DEF ProcsInv
<1>18. CASE UNCHANGED vars
  BY <1>15, <1>18 DEF vars
<1>19. QED
  BY <1>3, <1>4, <1>5, <1>7, <1>8, <1>9, <1>10, <1>11, <1>12, <1>13, <1>14, <1>16, <1>17,
     <1>18
  DEF Next, MainStep, ControllerStep, ElectorStep

-----------------------------------------------------------------------------
(* The lease.                                                              *)

\* While a replica leads, its lease is too young for another one to write it.
LEMMA NoOtherLeads ==
  ASSUME ProcsInv, LeaseInv, NEW r \in Replica, CanHold(r),
         NEW s \in Replica, s # r
  PROVE  proc[s].elect # "leading"
<1> SUFFICES ASSUME proc[s].elect = "leading" PROVE FALSE
  OBVIOUS
<1>1. proc[s].waited \in 0..RetryPeriod + RenewDeadline
  BY DEF ProcsInv, ProcType
<1>2. lease.holder = s /\ lease.age \in Nat /\ lease.age <= proc[s].waited
  BY DEF LeaseInv
<1>3. lease.age >= LeaseDuration
  BY <1>2, ExporterAssumption DEF CanHold
<1>4. QED  BY <1>1, <1>2, <1>3, ExporterAssumption

LEMMA LeaseInit == Init => LeaseInv
  BY ExporterAssumption DEF Init, LeaseInv, Down

LEMMA LeaseNext == ProcsInv /\ LeaseInv /\ [Next]_vars => LeaseInv'
<1> SUFFICES ASSUME ProcsInv, LeaseInv, [Next]_vars PROVE LeaseInv'
  OBVIOUS
<1>1. ASSUME NEW r \in Replica, CanHold(r), lease' = [holder |-> r, age |-> 0],
             \A s \in Replica : s # r => proc'[s] = proc[s],
             proc'[r].waited \in Nat
      PROVE  LeaseInv'
  <2>1. lease' \in [holder : Replica \cup {Nobody}, age : 0..LeaseDuration]
    BY <1>1, ExporterAssumption
  <2>2. ASSUME NEW s \in Replica, proc'[s].elect = "leading" PROVE s = r
    BY <1>1, <2>2, NoOtherLeads
  <2>3. lease'.holder = r /\ lease'.age <= proc'[r].waited
    BY <1>1
  <2>4. QED  BY <2>1, <2>2, <2>3 DEF LeaseInv
<1>2. ASSUME NEW r \in Replica, UNCHANGED lease,
             \A s \in Replica : s # r => proc'[s] = proc[s],
             proc'[r].elect = "leading" =>
               proc[r].elect = "leading" /\ proc'[r].waited = proc[r].waited
      PROVE  LeaseInv'
  BY <1>2 DEF LeaseInv
<1>3. ASSUME NEW r \in Replica PROVE proc[r] \in ProcType
  BY <1>3 DEF ProcsInv
<1>4. ASSUME NEW r \in Replica, Acquire(r) \/ Renew(r) \/ Unanswered(r) PROVE LeaseInv'
  <2>1. \A s \in Replica : s # r => proc'[s] = proc[s]
    BY <1>4 DEF Acquire, Renew, Unanswered, ProcsInv
  <2>2. proc'[r].waited \in Nat
    BY <1>3, <1>4, ExporterAssumption DEF Acquire, Renew, Unanswered, ProcsInv, ProcType
  <2>3. CanHold(r) /\ lease' = [holder |-> r, age |-> 0]
    BY <1>4 DEF Acquire, Renew, Unanswered
  <2>4. QED  BY <1>1, <2>1, <2>2, <2>3
<1>5. ASSUME NEW r \in Replica, Start(r) PROVE LeaseInv'
  BY <1>2, <1>5 DEF Start, ProcsInv, Down
<1>6. ASSUME NEW r \in Replica, RunControllers(r) PROVE LeaseInv'
  BY <1>2, <1>3, <1>6 DEF RunControllers, ProcsInv, ProcType
<1>7. ASSUME NEW r \in Replica, NEW i \in Informer, Sync(r, i) PROVE LeaseInv'
  BY <1>2, <1>3, <1>7 DEF Sync, ProcsInv, ProcType
<1>8. ASSUME NEW r \in Replica, NEW from, NEW to, MainMoves(r, from, to) PROVE LeaseInv'
  BY <1>2, <1>3, <1>8 DEF MainMoves, ProcsInv, ProcType, Down
<1>9. ASSUME NEW r \in Replica, Terminate(r) \/ ServerClosed(r) \/ Cancel(r) \/ Exit(r)
      PROVE  LeaseInv'
  BY <1>8, <1>9 DEF Terminate, ServerClosed, Cancel, Exit
<1>10. ASSUME NEW r \in Replica, StopElecting(r) PROVE LeaseInv'
  BY <1>2, <1>3, <1>10 DEF StopElecting, ProcsInv, ProcType
<1>11. ASSUME NEW r \in Replica, Release(r) PROVE LeaseInv'
  <2>1. /\ proc[r].elect = "releasing" /\ proc'[r].elect = "stopping"
        /\ \A s \in Replica : s # r => proc'[s] = proc[s]
    BY <1>3, <1>11 DEF Release, ProcsInv, ProcType
  <2>2. CASE UNCHANGED lease
    BY <1>2, <2>1, <2>2
  <2>3. CASE lease.holder = r /\ lease' = [lease EXCEPT !.holder = Nobody]
    BY <2>1, <2>3 DEF LeaseInv
  <2>4. QED  BY <1>11, <2>2, <2>3 DEF Release
<1>12. ASSUME NEW r \in Replica, OnStoppedLeading(r) \/ ReturnOrFatalf(r) \/ Kill(r)
       PROVE  LeaseInv'
  <2>1. proc'[r].elect # "leading"
    <3>1. CASE Kill(r)
      BY <3>1 DEF Kill, ProcsInv, Down
    <3>2. CASE OnStoppedLeading(r)
      BY <1>3, <3>2 DEF OnStoppedLeading, ProcsInv, ProcType
    <3>3. CASE ReturnOrFatalf(r)
      <4>1. proc'[r] = Down \/ proc'[r] = [proc[r] EXCEPT !.elect = "ended"]
        BY <3>3 DEF ReturnOrFatalf, ProcsInv
      <4>2. Down.elect = "off"
        BY DEF Down
      <4>3. [proc[r] EXCEPT !.elect = "ended"].elect = "ended"
        BY <1>3 DEF ProcType
      <4>4. QED  BY <4>1, <4>2, <4>3
    <3>4. QED  BY <1>12, <3>1, <3>2, <3>3
  <2>2. UNCHANGED lease /\ \A s \in Replica : s # r => proc'[s] = proc[s]
    BY <1>12 DEF OnStoppedLeading, ReturnOrFatalf, Kill, ProcsInv
  <2>3. QED  BY <1>2, <2>1, <2>2
<1>13. ASSUME UNCHANGED <<proc, lease>> PROVE LeaseInv'
  BY <1>13 DEF LeaseInv
<1>14. ASSUME NEW r \in Replica, Cut(r) \/ Heal(r) PROVE LeaseInv'
  BY <1>13, <1>14 DEF Cut, Heal
<1>15. CASE Tick
  <2>1. /\ lease'.holder = lease.holder
        /\ lease'.age \in 0..LeaseDuration /\ lease'.age <= lease.age + 1
        /\ lease' \in [holder : Replica \cup {Nobody}, age : 0..LeaseDuration]
    BY <1>15, ExporterAssumption DEF Tick, LeaseInv
  <2>2. ASSUME NEW r \in Replica, proc'[r].elect = "leading"
        PROVE  lease'.holder = r /\ lease'.age <= proc'[r].waited
    <3>1. proc[r].elect = "leading" /\ proc'[r].waited = proc[r].waited + 1
      BY <1>3, <1>15, <2>2 DEF Tick, ProcType
    <3>2. lease.holder = r /\ lease.age <= proc[r].waited
      BY <3>1 DEF LeaseInv
    <3>3. lease.age \in Nat /\ proc[r].waited \in Nat
      BY <1>3, ExporterAssumption DEF LeaseInv, ProcType
    <3>4. QED  BY <2>1, <3>1, <3>2, <3>3
  <2>3. QED  BY <2>1, <2>2 DEF LeaseInv
<1>16. CASE UNCHANGED vars
  BY <1>13, <1>16 DEF vars
<1>17. QED
  BY <1>4, <1>5, <1>6, <1>7, <1>9, <1>10, <1>11, <1>12, <1>14, <1>15, <1>16
  DEF Next, MainStep, ControllerStep, ElectorStep

-----------------------------------------------------------------------------
(* The theorems.                                                           *)

LEMMA FaultsNext == FaultsInv /\ [Next]_vars => FaultsInv'
<1> SUFFICES ASSUME FaultsInv, [Next]_vars PROVE FaultsInv'
  OBVIOUS
<1>1. ASSUME faults < MaxFaults /\ faults' = faults + 1, UNCHANGED cut PROVE FaultsInv'
  BY <1>1, ExporterAssumption DEF FaultsInv
<1>2. ASSUME UNCHANGED <<cut, faults>> PROVE FaultsInv'
  BY <1>2 DEF FaultsInv
<1>3. ASSUME NEW r \in Replica, Terminate(r) \/ Unanswered(r) \/ Kill(r) PROVE FaultsInv'
  BY <1>1, <1>3 DEF Terminate, MainMoves, Unanswered, Kill
<1>4. ASSUME NEW r \in Replica, MainStep(r) \/ ControllerStep(r) \/ ElectorStep(r)
      PROVE  FaultsInv'
  BY <1>2, <1>4 DEF MainStep, ControllerStep, ElectorStep, Start, ServerClosed, Cancel, Exit,
     MainMoves, RunControllers, Sync, Acquire, Renew, StopElecting, Release, OnStoppedLeading,
     ReturnOrFatalf
<1>5. ASSUME NEW r \in Replica, Cut(r) \/ Heal(r) PROVE FaultsInv'
  BY <1>5, ExporterAssumption DEF Cut, Heal, FaultsInv
<1>6. CASE Tick \/ UNCHANGED vars
  BY <1>2, <1>6 DEF Tick, vars
<1>7. QED  BY <1>3, <1>4, <1>5, <1>6 DEF Next

\* ExporterInv is inductive.
LEMMA Inductive == Spec => []ExporterInv
<1>1. Init => FaultsInv
  BY ExporterAssumption DEF Init, FaultsInv
<1>2. Init => ExporterInv
  BY <1>1, ProcsInit, LeaseInit DEF ExporterInv
<1>3. ExporterInv /\ [Next]_vars => ExporterInv'
  BY ProcsNext, LeaseNext, FaultsNext DEF ExporterInv
<1>4. QED  BY <1>2, <1>3, PTL DEF Spec

\* Exporter, its type invariant: the processes, the lease and the faults keep their
\* types whatever is killed, and no shard ever runs an elector.
THEOREM TypeCorrect == Spec => []TypeOK
<1>1. ExporterInv => TypeOK
  BY DEF ExporterInv, ProcsInv, ProcOK, ProcType, FaultsInv, LeaseInv, TypeOK
<1>2. QED  BY <1>1, Inductive, PTL

\* OnStartedLeading: with election only a replica that leads, or is about to end,
\* publishes anything; so two that do not end both hold the lease.
LEMMA ElectedAlone ==
  ASSUME ExporterInv, flags.leaderElect, NEW r \in Replica, NEW s \in Replica,
         Published(r) # {}, Published(s) # {}, ~GivenUp(r), ~GivenUp(s)
  PROVE  r = s
<1>1. ASSUME NEW q \in Replica, Published(q) # {}, ~GivenUp(q) PROVE proc[q].elect = "leading"
  <2>1. proc[q].main \in {"up", "draining"} /\ proc[q].synced # {}
    BY <1>1 DEF Published
  <2>2. proc[q].elect \in {"leading", "releasing", "stopping", "stopped"}
    BY <2>1 DEF ExporterInv, ProcsInv, ProcOK
  <2>3. QED  BY <1>1, <2>2 DEF GivenUp
<1>2. QED  BY <1>1 DEF ExporterInv, LeaseInv

\* main and the elector: nobody's workflows are published twice.  The lease excludes a
\* second leader because renewing ends, RetryPeriod + RenewDeadline after the last
\* success, before LeaseDuration; shards exclude each other by their index.
THEOREM PublishedOnce == Spec => []ExclusivePublishing
<1>1. ASSUME ExporterInv PROVE ExclusivePublishing
  <2> SUFFICES ASSUME flags.leaderElect \/ DistinctShards,
                      NEW r \in Replica, NEW s \in Replica, r # s,
                      Published(r) \cap Published(s) # {}
               PROVE  GivenUp(r) \/ GivenUp(s)
    BY DEF ExclusivePublishing
  <2>1. Published(r) # {} /\ Published(s) # {}
    OBVIOUS
  <2>2. CASE flags.leaderElect
    BY <1>1, <2>1, <2>2, ElectedAlone
  <2>3. CASE DistinctShards
    <3>1. ASSUME NEW q \in Replica, Published(q) # {}
          PROVE  Accepted(q) /\ MatcherOf(q) # Invalid /\ Published(q) = MatcherOf(q).matched
      BY <1>1, <3>1 DEF Published, ExporterInv, ProcsInv, ProcOK, Accepted
    <3>2. MatcherOf(r).index # MatcherOf(s).index
      BY <2>1, <2>3, <3>1 DEF DistinctShards
    <3>3. /\ flags.total \in Nat /\ flags.total > 1
          /\ flags.index[r] \in Int /\ flags.index[s] \in Int
      BY <1>1, <2>3, ExporterAssumption DEF DistinctShards, ExporterInv, ProcsInv
    <3>4. MatcherOf(r).matched \cap MatcherOf(s).matched = {}
      <4> DEFINE ns == flags.namespace
                 total == flags.total
                 c1 == flags.index[r]
                 c2 == flags.index[s]
                 m1 == buildNamespaceMatcher(ns, total, c1, Suffix[r])
                 m2 == buildNamespaceMatcher(ns, total, c2, Suffix[s])
      <4>1. (m1 # Invalid /\ m2 # Invalid /\ m1.index # m2.index) => m1.matched \cap m2.matched = {}
        BY <3>3, ShardsDisjoint
      <4>2. MatcherOf(r) = m1 /\ MatcherOf(s) = m2
        BY DEF MatcherOf
      <4>3. QED  BY <2>1, <3>1, <3>2, <4>1, <4>2
    <3>5. QED  BY <2>1, <3>1, <3>4
  <2>4. QED  BY <2>2, <2>3
<1>2. QED  BY <1>1, Inductive, PTL
=============================================================================
