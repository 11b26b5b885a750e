------------------------ MODULE WorkflowInformerFifo ------------------------
(***************************************************************************)
(* The mapping under which WorkflowInformer, with one worker and no full   *)
(* reconcile, implements KeyedFifo.                                        *)
(***************************************************************************)
EXTENDS WorkflowInformer

InHand ==
  LET w == CHOOSE w \in Worker : TRUE
  IN IF hand[w] = NoEvent THEN <<>> ELSE <<hand[w]>>

\* What the events of k among the first n of events say, in their order.
SaidOf(k, events) ==
  LET said[n \in 0..Len(events)] ==
        IF n = 0 THEN <<>>
        ELSE IF events[n].key = k THEN Append(said[n - 1], ValueOf(events[n]))
        ELSE said[n - 1]
  IN said

ValuesOf(k, events) == SaidOf(k, events)[Len(events)]

\* The values of k under way, oldest first.
Lag(k) == ValuesOf(k, InHand \o queue \o pending)

\* One worker and no full reconcile deliver what KeyedFifo promises, for the
\* workflows of our namespaces.
Fifo == INSTANCE KeyedFifo WITH
          Key <- Matched,
          Value <- Version,
          store <- [k \in Matched |-> store[k]],
          lag <- [k \in Matched |-> Lag(k)],
          mirror <- [k \in Matched |-> mirror[k]],
          closed <- ctxDone

\* Every change of the store reaches the collector, per workflow in the order it
\* happened, none skipped, repeated or invented, until the shutdown; and it does
\* get there.
ImplementsFifo == Fifo!Spec
=============================================================================
