------------------------------ MODULE MCHealth ------------------------------
(* Instances of Health for TLC.                                            *)
EXTENDS Health

CONSTANTS q1

MCRequest == {q1}

\* With election and a grace period that ends with the first silence that is too long;
\* without election and with no look at events.
MCConfig ==
  {[leaderElect |-> TRUE, startupGrace |-> 2, staleThreshold |-> 1],
   [leaderElect |-> FALSE, startupGrace |-> 0, staleThreshold |-> 0]}
=============================================================================
