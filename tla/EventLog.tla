------------------------------- MODULE EventLog -------------------------------
(***************************************************************************)
(* What the task activity queue promises of an event, without workers,     *)
(* locks, retries or failures: an event it accepts is pending until it is  *)
(* completed or failed, once; of either kind the last Keep are remembered, *)
(* and an event is not accepted again before it is forgotten.              *)
(***************************************************************************)
EXTENDS Naturals, Sequences

CONSTANTS Events, Keep

VARIABLES pending, completed, failed

Known == pending \cup {completed[k] : k \in DOMAIN completed}
                 \cup {failed[k] : k \in DOMAIN failed}

\* The list of the last Keep finished events, with e the newest.
Remember(list, e) ==
  IF Len(list) < Keep THEN Append(list, e) ELSE Append(Tail(list), e)

Accept(e) ==
  /\ e \notin Known
  /\ pending' = pending \cup {e}
  /\ UNCHANGED <<completed, failed>>

Finish(e) ==
  /\ e \in pending
  /\ pending' = pending \ {e}
  /\ \/ completed' = Remember(completed, e) /\ UNCHANGED failed
     \/ failed' = Remember(failed, e) /\ UNCHANGED completed

Init == pending = {} /\ completed = <<>> /\ failed = <<>>
Next == \E e \in Events : Accept(e) \/ Finish(e)
Spec == Init /\ [][Next]_<<pending, completed, failed>>
=============================================================================
