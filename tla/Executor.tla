------------------------------ MODULE Executor ------------------------------
(***************************************************************************)
(* What a thread pool promises to the code that hands it work, without     *)
(* threads, locks or condition variables: accepted tasks are started in    *)
(* the order of their acceptance, each once; once the pool is closed only  *)
(* a task that is still running can have another one accepted; and the     *)
(* pool retires when, and only when, everything it accepted has finished.  *)
(***************************************************************************)
EXTENDS Integers, Sequences, FiniteSets

CONSTANT Tasks          \* the units of work

VARIABLES queue,        \* accepted and not yet started, oldest first
          running,      \* the tasks being executed
          finished,     \* the tasks that have been executed
          closed,       \* no more work is taken from outside
          retired       \* the pool is gone

evars == <<queue, running, finished, closed, retired>>

Queued == {queue[i] : i \in 1..Len(queue)}

Init ==
  /\ queue = <<>>
  /\ running = {}
  /\ finished = {}
  /\ closed = FALSE
  /\ retired = FALSE

Accept(t) ==
  /\ ~retired
  /\ closed => running # {}
  /\ t \notin Queued \cup running \cup finished
  /\ queue' = Append(queue, t)
  /\ UNCHANGED <<running, finished, closed, retired>>

Start ==
  /\ queue # <<>>
  /\ queue' = Tail(queue)
  /\ running' = running \cup {Head(queue)}
  /\ UNCHANGED <<finished, closed, retired>>

Finish(t) ==
  /\ t \in running
  /\ running' = running \ {t}
  /\ finished' = finished \cup {t}
  /\ UNCHANGED <<queue, closed, retired>>

Close ==
  /\ ~closed
  /\ closed' = TRUE
  /\ UNCHANGED <<queue, running, finished, retired>>

Retire ==
  /\ closed
  /\ queue = <<>>
  /\ running = {}
  /\ retired' = TRUE
  /\ UNCHANGED <<queue, running, finished, closed>>

Next ==
  \/ \E t \in Tasks : Accept(t) \/ Finish(t)
  \/ Start
  \/ Close
  \/ Retire

Spec == Init /\ [][Next]_evars

\* Work that has been accepted is started, and work that has been started
\* ends. Nothing obliges the owner to close the pool.
FairSpec ==
  /\ Spec
  /\ WF_evars(Start)
  /\ \A t \in Tasks : WF_evars(Finish(t))
=============================================================================
