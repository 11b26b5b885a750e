--------------------------- MODULE MCPodInformer ---------------------------
(***************************************************************************)
(* Instances of PodInformer for TLC.                                       *)
(***************************************************************************)
EXTENDS PodInformer, TLC

CONSTANTS main, w1, w2

MainOnly == {main}

\* A pod that may be recreated under its name: two uids, the same labels.
RecreatedKey == {"p"}
RecreatedUid == {"u1", "u2"}
RecreatedOurs == RecreatedUid
RecreatedUidsOf == "p" :> <<"u1", "u2">>
RecreatedOwner == {"wf"}
RecreatedOwnerOf == [u \in RecreatedUid |-> "wf"]

\* A pod p that is ours and a pod x that is no workflow pod.
ForeignKey == {"p", "x"}
ForeignUid == {"u1", "x1"}
ForeignOurs == {"u1"}
ForeignUidsOf == ("p" :> <<"u1">>) @@ ("x" :> <<"x1">>)
ForeignOwner == {"wf"}
ForeignOwnerOf == [u \in ForeignUid |-> IF u = "x1" THEN NoOwner ELSE "wf"]

\* A name that pods of ours and another pod take in turn.
MixedKey == {"p"}
MixedUid == {"u1", "x1", "u2"}
MixedOurs == {"u1", "u2"}
MixedUidsOf == "p" :> <<"u1", "x1", "u2">>
MixedOwner == {"wf"}
MixedOwnerOf == [u \in MixedUid |-> IF u = "x1" THEN NoOwner ELSE "wf"]

\* Two pods of one workflow that have the same labels: the node label is not set.
SharedKey == {"p", "q"}
SharedUid == {"u1", "v1"}
SharedOurs == SharedUid
SharedUidsOf == ("p" :> <<"u1">>) @@ ("q" :> <<"v1">>)
SharedOwner == {"wf"}
SharedOwnerOf == [u \in SharedUid |-> "wf"]

OneWorker == {w1}
TwoWorkers == {w1, w2}
WorkerSymmetry == Permutations(TwoWorkers)

\* Statuses of containers: up to one restart; and from a first to a second restart with
\* the back-off between them, in which the same run is the last to have ended.
OneRestart ==
  {s \in [restarts : 0..1, last : 0..2, ran : BOOLEAN] :
     s.last \in {s.restarts, s.restarts + 1} /\ (s.last = 0 => ~s.ran)}
BackOff ==
  {[restarts |-> 0, last |-> 0, ran |-> FALSE]} \cup
  {[restarts |-> n[1], last |-> n[2], ran |-> TRUE] : n \in {<<1, 1>>, <<1, 2>>, <<2, 2>>}}
=============================================================================
