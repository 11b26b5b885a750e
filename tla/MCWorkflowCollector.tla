------------------------ MODULE MCWorkflowCollector ------------------------
(***************************************************************************)
(* Instances of WorkflowCollector for TLC: two workflows in namespace "A"  *)
(* and one in "B".  The objects of a1 cover a life and a rebirth: just     *)
(* created (no phase, nil nodes), running with nodes, failed with other    *)
(* node phases, and recreated under another uid.                           *)
(***************************************************************************)
EXTENDS WorkflowCollector, TLC

CONSTANTS c1, c2

Obj(key, phase, times, ran, info, hasNodes, nodes) ==
  [key |-> key, phase |-> phase, times |-> times, ran |-> ran, info |-> info,
   hasNodes |-> hasNodes, nodes |-> nodes]

noNodes == [n \in {} |-> ""]

MCNamespace == {"A", "B"}
MCKey == {"a1", "a2", "b1"}
MCNamespaceOf == [k \in MCKey |-> IF k = "b1" THEN "B" ELSE "A"]
MCPhase == {"", "Running", "Failed"}

MCObjects ==
  {Obj("a1", "", {"created_time"}, FALSE, "uid1", FALSE, noNodes),
   Obj("a1", "Running", {"created_time", "started_time"}, TRUE, "uid1", TRUE,
       [n \in {1, 2} |-> "Running"]),
   Obj("a1", "Failed", timeFamilies, TRUE, "uid1", TRUE,
       (1 :> "Succeeded") @@ (2 :> "Failed")),
   Obj("a1", "Running", {"created_time", "started_time"}, FALSE, "uid2", TRUE, noNodes),
   Obj("a2", "Running", {"created_time", "started_time"}, TRUE, "uid3", TRUE,
       [n \in {1} |-> "Running"]),
   Obj("a2", "Failed", timeFamilies, FALSE, "uid3", FALSE, noNodes),
   Obj("b1", "Failed", timeFamilies, TRUE, "uid4", TRUE, [n \in {1} |-> "Failed"])}

MCCaller == {c1, c2}
=============================================================================
