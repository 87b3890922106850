----------------------------- MODULE IoContext -----------------------------
(***************************************************************************)
(* The examples of net/example that run handlers on an asio::io_context:   *)
(* asio_strand.cc (two timers, two threads and a strand), the two programs *)
(* with one timer, async_bind_args_timer.cc and                            *)
(* async_with_class_member_func.cc, and thread/multi_thread_io_context.cc  *)
(* (functions posted for several threads).                                 *)
(*                                                                         *)
(* A thread that has not begun is one that has not taken a handler: run()  *)
(* returns at once when there is nothing left. The console, printed, has   *)
(* the numbers that the timers print.                                      *)
(***************************************************************************)
EXTENDS Integers, Sequences

CONSTANTS
  Main, Second,     \* the threads of asio_strand.cc
  Workers,          \* those of multi_thread_io_context.cc: 4
  Timer1, Timer2,
  Idle,             \* no handler
  StrandLimit,      \* of count_ in asio_strand.cc: 10
  TimerLimit,       \* of count_ with one timer: 5
  Posted            \* how many functions are posted: 10

ASSUME IoAssumption ==
  /\ Main # Second /\ Timer1 # Timer2
  /\ {Timer1, Timer2, Idle} \cap Nat = {} /\ Idle \notin {Timer1, Timer2}
  /\ StrandLimit \in Nat /\ TimerLimit \in Nat /\ Posted \in Nat
  /\ Workers # {}

VARIABLES
  program,    \* the one that runs: strand | timer | post; none: none of them
  tpc,        \* where each thread is
  handler,    \* what it runs: a timer's or the number of a function, or Idle
  loaded,     \* count_ as ++count_ has read it, 0 when it is written
  waiting,    \* timers that have not expired
  ready,      \* handlers that may run, in their order
  count_,
  printed,
  ran         \* how often each function has run

ioVars == <<program, tpc, handler, loaded, waiting, ready, count_, printed, ran>>

Timers == {Timer1, Timer2}
Threads == {Main, Second} \cup Workers

\* Those that call run() in a program. (In the third one, main joins.)
Runners(p) ==
  CASE p = "strand" -> {Main, Second}
    [] p = "timer"  -> {Main}
    [] p = "post"   -> Workers
    [] OTHER        -> {}

IoInit ==
  /\ program \in {"none", "strand", "timer", "post"}
  /\ tpc = [t \in Threads |-> IF t \in Runners(program) THEN "run" ELSE "none"]
  /\ handler = [t \in Threads |-> Idle]
  /\ loaded = [t \in Threads |-> 0]
  /\ waiting = CASE program = "strand" -> Timers
                 [] program = "timer"  -> {Timer1}
                 [] OTHER              -> {}
  /\ ready = IF program = "post" THEN [i \in 1..Posted |-> i] ELSE <<>>
  /\ count_ = 0 /\ printed = <<>>
  /\ ran = [i \in 1..Posted |-> 0]

Limit == IF program = "strand" THEN StrandLimit ELSE TimerLimit

Executing(t) == handler[t] # Idle

Goes(t, to) == tpc' = [tpc EXCEPT ![t] = to]

\* The handler is over.
GoesOn(t) == Goes(t, "run") /\ handler' = [handler EXCEPT ![t] = Idle]

-----------------------------------------------------------------------------
(* The io_context and its threads.                                         *)

Expire(timer) ==
  /\ timer \in waiting
  /\ waiting' = waiting \ {timer}
  /\ ready' = Append(ready, timer)
  /\ UNCHANGED <<program, tpc, handler, loaded, count_, printed, ran>>

\* A handler that is bound to the strand waits for the one that runs; not
\* the code: it is not bound.
Unbound(p) == TRUE
StrandFree(p) == p # "strand" \/ \A t \in Threads : ~Executing(t)

Take(t) ==
  /\ tpc[t] = "run" /\ ready # <<>>
  /\ StrandFree(program)
  /\ handler' = [handler EXCEPT ![t] = Head(ready)]
  /\ ready' = Tail(ready)
  /\ Goes(t, IF Head(ready) \in Timers THEN "test" ELSE "work")
  /\ UNCHANGED <<program, loaded, waiting, count_, printed, ran>>

\* run() returns when no handler is left, waiting or running.
Return(t) ==
  /\ tpc[t] = "run"
  /\ waiting = {} /\ ready = <<>> /\ \A o \in Threads : ~Executing(o)
  /\ Goes(t, "returned")
  /\ UNCHANGED <<program, handler, loaded, waiting, ready, count_, printed, ran>>

-----------------------------------------------------------------------------
(* The handlers. Print1 and Print2, Print and print: a line is printed,    *)
(* count_ is read and written, and the timer waits again.                  *)

Test(t) ==
  /\ tpc[t] = "test"
  /\ IF count_ < Limit THEN Goes(t, "print") /\ UNCHANGED handler ELSE GoesOn(t)
  /\ UNCHANGED <<program, loaded, waiting, ready, count_, printed, ran>>

PrintLine(t) ==
  /\ tpc[t] = "print"
  /\ printed' = Append(printed, count_)
  /\ Goes(t, "load")
  /\ UNCHANGED <<program, handler, loaded, waiting, ready, count_, ran>>

Load(t) ==
  /\ tpc[t] = "load"
  /\ loaded' = [loaded EXCEPT ![t] = count_]
  /\ Goes(t, "store")
  /\ UNCHANGED <<program, handler, waiting, ready, count_, printed, ran>>

Store(t) ==
  /\ tpc[t] = "store"
  /\ count_' = loaded[t] + 1
  /\ loaded' = [loaded EXCEPT ![t] = 0]
  /\ Goes(t, "wait")
  /\ UNCHANGED <<program, handler, waiting, ready, printed, ran>>

\* expires_at and async_wait
WaitAgain(t) ==
  /\ tpc[t] = "wait"
  /\ waiting' = waiting \cup {handler[t]}
  /\ GoesOn(t)
  /\ UNCHANGED <<program, loaded, ready, count_, printed, ran>>

working_func(t) ==
  /\ tpc[t] = "work"
  /\ ran' = [ran EXCEPT ![handler[t]] = @ + 1]
  /\ GoesOn(t)
  /\ UNCHANGED <<program, loaded, waiting, ready, count_, printed>>

ThreadStep(t) ==
  Take(t) \/ Return(t) \/ Test(t) \/ PrintLine(t) \/ Load(t) \/ Store(t)
    \/ WaitAgain(t) \/ working_func(t)

IoNext == (\E timer \in Timers : Expire(timer)) \/ (\E t \in Threads : ThreadStep(t))

\* As long as there is something to do, some of it is done: every behaviour
\* comes to an end, and it does not matter which.
IoFairness == WF_ioVars(IoNext)

-----------------------------------------------------------------------------

\* The type of every variable.
IoTypeOK ==
  /\ program \in {"none", "strand", "timer", "post"}
  /\ tpc \in [Threads -> {"none", "run", "test", "print", "load", "store", "wait",
                          "work", "returned"}]
  /\ handler \in [Threads -> Timers \cup 1..Posted \cup {Idle}]
  /\ loaded \in [Threads -> Nat] /\ waiting \subseteq Timers
  /\ ready \in Seq(Timers \cup 1..Posted)
  /\ count_ \in Nat /\ printed \in Seq(Nat) /\ ran \in [1..Posted -> Nat]

\* The threads are joined, and main goes on to its end.
AllReturned ==
  program # "none" /\ \A t \in Runners(program) : tpc[t] = "returned"

\* Two timers count with one variable on two threads, and no number is printed
\* twice or left out; the last one is that before the limit, however many
\* handlers were under way when it was reached. A posted function runs once.
NoCountLost ==
  /\ \A i \in DOMAIN printed : printed[i] = i - 1
  /\ Len(printed) <= Limit
  /\ \A i \in 1..Posted : ran[i] <= 1
  /\ AllReturned => IF program = "post" THEN \A i \in 1..Posted : ran[i] = 1
                                        ELSE count_ = Limit /\ Len(printed) = Limit
=============================================================================
