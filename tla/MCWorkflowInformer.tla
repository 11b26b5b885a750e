------------------------- MODULE MCWorkflowInformer -------------------------
(***************************************************************************)
(* Instances of WorkflowInformer for TLC, with the mapping to KeyedFifo.   *)
(***************************************************************************)
EXTENDS WorkflowInformerFifo

CONSTANTS k1, k2, x1, w1, w2

OneKey == {k1, x1}
TwoKeys == {k1, k2}
OneMatched == {k1}
OneWorker == {w1}
TwoWorkers == {w1, w2}
=============================================================================
