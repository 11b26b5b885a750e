----------------------------- MODULE MCExporter -----------------------------
(***************************************************************************)
(* Instances of Exporter for TLC: two replicas with hostnames that end in  *)
(* 0 and 1, three namespaces over two shards.                              *)
(***************************************************************************)
EXTENDS Exporter

MCNamespace == {"a", "b", "c", ""}
MCHash == [ns \in MCNamespace |-> CASE ns = "a" -> 4 [] ns = "b" -> 7 [] ns = "c" -> 6 [] ns = "" -> 3]
MCReplica == {0, 1}
MCSuffix == [r \in MCReplica |-> r]
WorkflowOnly == {"workflow"}
BothInformers == {"workflow", "pod"}

CommandLine(leaderElect, total, i, j) ==
  [leaderElect |-> leaderElect, namespace |-> "", total |-> total,
   index |-> [r \in MCReplica |-> IF r = 0 THEN i ELSE j]]

Election == CommandLine(TRUE, 1, -1, -1)

\* Shards by hostname, by flag, with one index out of range or twice the same, and
\* with election, which is refused.
AllFlags ==
  {Election, CommandLine(FALSE, 2, -1, -1), CommandLine(FALSE, 2, 1, 0),
   CommandLine(FALSE, 2, 1, 3), CommandLine(FALSE, 2, 0, 0), CommandLine(TRUE, 2, -1, -1)}

ElectionOnly == {Election}
=============================================================================
