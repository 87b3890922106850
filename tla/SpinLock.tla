------------------------------ MODULE SpinLock ------------------------------
(***************************************************************************)
(* The spin lock of src/MemoryModel/SpinLock.cpp and the threads of Test_f *)
(* that take it around a counter that is not atomic.                       *)
(*                                                                         *)
(* Memory order is part of the model: every thread has its own view of the *)
(* counter out, and only a release of the flag followed by an acquire of   *)
(* it carries a view from one thread to another.  A thread that            *)
(* increments without such a chain increments a stale value.               *)
(***************************************************************************)
EXTENDS Integers, Sequences

CONSTANTS
  Threads,      \* the arguments of f
  Rounds,       \* 40: iterations of f
  LineLength,   \* 40: numbers per line of output
  HasTest       \* __cpp_lib_atomic_flag_test: spin on a read

ASSUME SpinAssumption ==
  /\ Rounds \in Nat
  /\ LineLength \in Nat \ {0}
  /\ HasTest \in BOOLEAN

VARIABLES
  pc,        \* where each thread is
  round,     \* cnt of each thread
  flag,      \* lock is set
  flagView,  \* the view of out released with the flag
  view,      \* each thread's view of out
  printed    \* what went to std::cout: thread, and whether a newline followed

vars == <<pc, round, flag, flagView, view, printed>>

Init ==
  /\ pc = [t \in Threads |-> "lock"]
  /\ round = [t \in Threads |-> 0]
  /\ flag = FALSE
  /\ flagView = 0
  /\ view = [t \in Threads |-> 0]
  /\ printed = <<>>

-----------------------------------------------------------------------------
(* The choices of the code, each beside what a mistake would make of it;   *)
(* nothing but a check of the properties uses the latter.                  *)

\* The result of test_and_set says who has the lock.
WonAnyway == TRUE
Won == ~flag

\* What memory_order_acquire lets thread t see: what the flag carries.
AcquiredRelaxed(t) == view[t]
Acquired(t) == flagView

\* What memory_order_release leaves with the flag.
ReleasedRelaxed(t) == flagView
Released(t) == view[t]

\* The flag after clear().
NotCleared == flag
Cleared == FALSE

\* cnt after a round.
CountedUp(n) == n + 1

-----------------------------------------------------------------------------

\* test_and_set(acquire): a read-modify-write, so it reads the last value of
\* the flag and with it what the last clear released, whether it was set.
TestAndSet(t) ==
  /\ pc[t] = "lock"
  /\ round[t] < Rounds
  /\ flag' = TRUE
  /\ view' = [view EXCEPT ![t] = Acquired(t)]
  /\ pc' = [pc EXCEPT ![t] = IF Won THEN "print"
                             ELSE IF HasTest THEN "spin" ELSE "lock"]
  /\ UNCHANGED <<round, flagView, printed>>

\* test(relaxed) brings no view.  It may be told FALSE late, when another
\* thread has the lock again: that is this step, taken when it was FALSE,
\* followed by a pause.
Spin(t) ==
  /\ pc[t] = "spin"
  /\ ~flag
  /\ pc' = [pc EXCEPT ![t] = "lock"]
  /\ UNCHANGED <<round, flag, flagView, view, printed>>

\* ++out and the output.
Count(t) ==
  /\ pc[t] = "print"
  /\ view' = [view EXCEPT ![t] = @ + 1]
  /\ printed' = Append(printed, [thread |-> t,
                                 newline |-> (view[t] + 1) % LineLength = 0])
  /\ pc' = [pc EXCEPT ![t] = "unlock"]
  /\ UNCHANGED <<round, flag, flagView>>

\* clear(release).
Clear(t) ==
  /\ pc[t] = "unlock"
  /\ flag' = Cleared
  /\ flagView' = Released(t)
  /\ round' = [round EXCEPT ![t] = CountedUp(@)]
  /\ pc' = [pc EXCEPT ![t] = IF CountedUp(round[t]) < Rounds THEN "lock" ELSE "done"]
  /\ UNCHANGED <<view, printed>>

Step(t) == TestAndSet(t) \/ Spin(t) \/ Count(t) \/ Clear(t)

Next == \E t \in Threads : Step(t)

Spec == Init /\ [][Next]_vars

\* Threads run; nothing makes a contended test_and_set succeed.
FairSpec == Spec /\ \A t \in Threads : WF_vars(Step(t))

-----------------------------------------------------------------------------

TypeOK ==
  /\ pc \in [Threads -> {"lock", "spin", "print", "unlock", "done"}]
  /\ round \in [Threads -> Nat]
  /\ flag \in BOOLEAN
  /\ flagView \in Nat
  /\ view \in [Threads -> Nat]
  /\ printed \in Seq([thread : Threads, newline : BOOLEAN])

InCritical(t) == pc[t] \in {"print", "unlock"}

\* At most one thread is between the acquisition and the release.
MutualExclusion ==
  /\ \A s, t \in Threads : InCritical(s) /\ InCritical(t) => s = t
  /\ flag <=> \E t \in Threads : InCritical(t)

\* The holder of the lock sees every increment, so none is lost although out
\* is not atomic: acquire and release on the flag are enough.
NoLostIncrement ==
  /\ \A t \in Threads : InCritical(t) => view[t] = Len(printed)
  /\ ~flag => flagView = Len(printed)

\* The output comes in lines of LineLength numbers.
LinesAreFull ==
  \A n \in 1..Len(printed) : printed[n].newline <=> n % LineLength = 0

\* Every thread gets the lock as often as it asks, since all rounds end.
AllFinish == <>(\A t \in Threads : round[t] = Rounds)
=============================================================================
