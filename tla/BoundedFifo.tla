---------------------------- MODULE BoundedFifo ----------------------------
(***************************************************************************)
(* A first-in first-out queue of at most Capacity values that refuses an   *)
(* operation it cannot perform and says so.                                *)
(***************************************************************************)
EXTENDS Integers, Sequences

CONSTANTS Values, Capacity

VARIABLES queue,  \* the values, oldest first
          ok      \* what the last operation returned

Init == queue = <<>> /\ ok = TRUE

Push(v) ==
  /\ ok' = (Len(queue) < Capacity)
  /\ queue' = IF Len(queue) < Capacity THEN Append(queue, v) ELSE queue

Pop ==
  /\ ok' = (queue # <<>>)
  /\ queue' = IF queue # <<>> THEN Tail(queue) ELSE queue

Next == Pop \/ \E v \in Values : Push(v)

Spec == Init /\ [][Next]_<<queue, ok>>
=============================================================================
