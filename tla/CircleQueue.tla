---------------------------- MODULE CircleQueue ----------------------------
(***************************************************************************)
(* template class CircleQueue, src/DataStructureAlgorithm/CircleQueue.cpp: *)
(* a ring of capacity_ + 1 slots, of which one is kept free so that a full *)
(* ring can be told from an empty one, and a separate counter size_.       *)
(* head_ and tail_ are ints, but data_.size() is a size_t, and so is every *)
(* expression that takes a remainder by it.                                *)
(***************************************************************************)
EXTENDS Integers, Sequences

CONSTANTS Values,     \* the type T
          Default,    \* T(), what resize puts in a slot
          Capacity,   \* the argument of the constructor
          WordBits    \* width of size_t

\* A negative capacity throws in the constructor: there is no queue then.
ASSUME QueueAssumption ==
  /\ Capacity \in Nat
  /\ Default \in Values
  /\ WordBits \in Nat

Slots == Capacity + 1

VARIABLES data, head, tail, size, ok   \* ok: what the last operation returned

vars == <<data, head, tail, size, ok>>

Init ==
  /\ data = [i \in 0..Capacity |-> Default]
  /\ head = 0
  /\ tail = 0
  /\ size = 0
  /\ ok = TRUE

Empty == tail = head

\* Not the code: two slots kept free, or an end that does not wrap around.
FullTooEarly == (tail + 2) % Slots = head
FullUnwrapped == tail + 1 = head
Full == (tail + 1) % Slots = head

Push(v) ==
  \/ /\ Full
     /\ ok' = FALSE
     /\ UNCHANGED <<data, head, tail, size>>
  \/ /\ ~Full
     /\ data' = [data EXCEPT ![tail] = v]
     /\ tail' = (tail + 1) % Slots
     /\ size' = size + 1
     /\ ok' = TRUE
     /\ UNCHANGED head

Pop ==
  \/ /\ Empty
     /\ ok' = FALSE
     /\ UNCHANGED <<data, head, tail, size>>
  \/ /\ ~Empty
     /\ head' = (head + 1) % Slots
     /\ size' = size - 1
     /\ ok' = TRUE
     /\ UNCHANGED <<data, tail>>

Next == Pop \/ \E v \in Values : Push(v)

Spec == Init /\ [][Next]_vars

-----------------------------------------------------------------------------
(* The operations that only read.                                          *)

front == data[head]

\* 2^k % Slots, without computing 2^k.
PowerMod[k \in 0..WordBits] ==
  IF k = 0 THEN 1 % Slots ELSE (2 * PowerMod[k - 1]) % Slots

\* The remainder of an int converted to size_t: -1 becomes 2^WordBits - 1.
WordMod(i) == IF i < 0 THEN (PowerMod[WordBits] + i) % Slots ELSE i % Slots

\* Not the code: tail_ is one past the newest value.
PastRear == data[tail]
rear == data[WordMod(tail - 1)]

-----------------------------------------------------------------------------

TypeOK ==
  /\ data \in [0..Capacity -> Values]
  /\ head \in 0..Capacity
  /\ tail \in 0..Capacity
  /\ size \in 0..Capacity
  /\ ok \in BOOLEAN

\* The values held, oldest first.
Contents == [i \in 1..size |-> data[(head + i - 1) % Slots]]

\* The counter and the two indices, updated separately, tell the same story
\* whatever the operations did, refusals and wraparound included.
SizeMatchesIndices ==
  /\ size = (tail - head) % Slots
  /\ Empty <=> size = 0
  /\ Full <=> size = Capacity

\* front() is the oldest value and rear() the newest, also when tail_ has just
\* wrapped around to 0 if capacity_ + 1 is a power of two: only then does the
\* conversion of tail_ - 1 = -1 to size_t do no harm.
EndsAreRight ==
  size > 0 =>
    /\ front = Contents[1]
    /\ tail > 0 \/ PowerMod[WordBits] = 0 => rear = Contents[size]

Fifo == INSTANCE BoundedFifo WITH queue <- Contents

\* The ring is a FIFO of Capacity values, and its return values say whether
\* the operation took place.
ImplementsFifo == Fifo!Spec
=============================================================================
