----------------------------- MODULE KeyedFifo -----------------------------
(***************************************************************************)
(* What an informer pipeline promises about the mirror it feeds: for every *)
(* key the values the store takes reach the mirror one by one, in order,   *)
(* none skipped and none twice.  Once the pipeline is closed, values may   *)
(* get lost, but the others still arrive in order.                         *)
(***************************************************************************)
EXTENDS Sequences, SequencesExt

CONSTANTS Key, Value, Absent

VARIABLES
  store,   \* what the cluster's cache says of each key
  lag,     \* lag[k]: values of k on their way, oldest first
  mirror,  \* what the collector says of each key
  closed   \* shutdown has begun

vars == <<store, lag, mirror, closed>>

Init ==
  /\ store = [k \in Key |-> Absent]
  /\ lag = [k \in Key |-> <<>>]
  /\ mirror = store
  /\ closed = FALSE

\* The store takes value v for k, or repeats the value it has.
Change(k, v) ==
  /\ store' = [store EXCEPT ![k] = v]
  /\ lag' = [lag EXCEPT ![k] = Append(@, v)]
  /\ UNCHANGED <<mirror, closed>>

Deliver(k) ==
  /\ lag[k] # <<>>
  /\ mirror' = [mirror EXCEPT ![k] = Head(lag[k])]
  /\ lag' = [lag EXCEPT ![k] = Tail(@)]
  /\ UNCHANGED <<store, closed>>

Close ==
  /\ closed' = TRUE
  /\ UNCHANGED <<store, lag, mirror>>

Lose(k) ==
  /\ closed
  /\ \E i \in DOMAIN lag[k] : lag' = [lag EXCEPT ![k] = RemoveAt(@, i)]
  /\ UNCHANGED <<store, mirror, closed>>

Next ==
  \/ \E k \in Key : (\E v \in Value \cup {Absent} : Change(k, v)) \/ Deliver(k) \/ Lose(k)
  \/ Close

\* In order, none skipped and none twice.
Order == Init /\ [][Next]_vars

\* And until the pipeline is closed, what is on its way arrives.
Spec == Order /\ \A k \in Key : WF_vars(~closed /\ Deliver(k))
=============================================================================
