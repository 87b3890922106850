----------------------------- MODULE ThreadPool -----------------------------
(***************************************************************************)
(* class ThreadPool, src/ThreadPool/threadpool_v1.h: a queue of tasks, one *)
(* mutex, one condition variable, the worker threads, the threads that     *)
(* call commit_task (the Clients, and the workers themselves while they    *)
(* run a task that commits another) and the owner, which constructs and    *)
(* destroys the pool.  Each action is the code between two points where    *)
(* another thread can interfere: a read or write of the atomic stop_, a    *)
(* lock or unlock of mtx_, a wait or notify of cv_.                        *)
(*                                                                         *)
(* The program is assumed to respect the lifetime of the object: no client *)
(* is inside commit_task when the destructor starts, and none enters it    *)
(* afterwards.  A task that runs in the pool may commit at any time.       *)
(***************************************************************************)
EXTENDS Integers, Sequences, FiniteSets

CONSTANTS
  Clients,              \* threads outside the pool that commit tasks
  Tasks,                \* the tasks that may be committed
  Requested,            \* the argument numThreads of the constructor
  HardwareConcurrency,  \* std::thread::hardware_concurrency(), 0 if unknown
  MaxSpurious,          \* bound: spurious wakeups of cv_.wait
  NoThread,             \* the owner of a mutex that is free
  NoTask                \* the task of a thread that has none

\* numThreads_ of lines 20-21; the loop of line 59 starts none if it is <= 0.
NumThreads == IF Requested > HardwareConcurrency
              THEN HardwareConcurrency ELSE Requested

Workers == 1..NumThreads

Committers == Workers \cup Clients

ASSUME PoolAssumption ==
  /\ Requested \in Int
  /\ HardwareConcurrency \in Nat
  /\ MaxSpurious \in Nat
  /\ IsFiniteSet(Clients)
  /\ Clients \cap Workers = {}
  /\ NoThread \notin Committers
  /\ NoTask \notin Tasks

VARIABLES
  opc,       \* where the owner is
  wpc,       \* where each worker is
  cpc,       \* where each committer is inside commit_task
  arg,       \* the task a committer is committing
  current,   \* the local variable task of a worker
  tasks,     \* tasks_
  mtx,       \* the thread that holds mtx_
  waiting,   \* the workers blocked in cv_.wait
  stop,      \* stop_
  status,    \* what has become of each task and of its future
  spurious   \* spurious wakeups so far

vars == <<opc, wpc, cpc, arg, current, tasks, mtx, waiting, stop, status,
          spurious>>

Init ==
  /\ opc = "start"
  /\ wpc = [w \in Workers |-> "unborn"]
  /\ cpc = [c \in Committers |-> "idle"]
  /\ arg = [c \in Committers |-> NoTask]
  /\ current = [w \in Workers |-> NoTask]
  /\ tasks = <<>>
  /\ mtx = NoThread
  /\ waiting = {}
  /\ stop = FALSE
  /\ status = [t \in Tasks |-> "new"]
  /\ spurious = 0

-----------------------------------------------------------------------------
(* The decisions of the code.  Beside some of them stands what a mistake   *)
(* there would make of it; nothing but a check of the properties uses it.  *)

\* Whether a thread gets mtx_.
MutexFree == mtx = NoThread

\* The predicate of the wait.
PredicateWithoutStop == tasks # <<>>
Predicate == stop \/ tasks # <<>>

\* When a worker returns.
ReturnsOnStop == stop
MayReturn == stop /\ tasks = <<>>

\* tasks_ after emplace and after pop.
EmplacedInFront(t) == <<t>> \o tasks
EmplacedMovedFrom(t) == Append(tasks, NoTask)
Emplaced(t) == Append(tasks, t)

NotPopped == tasks
Popped == Tail(tasks)

\* The sets of workers notify_one may wake: any one that is blocked.
NotifiesIfFirst ==
  IF waiting = {} \/ Len(tasks) > 1 THEN {{}} ELSE {{w} : w \in waiting}
Notified == IF waiting = {} THEN {{}} ELSE {{w} : w \in waiting}

Wake(woken) ==
  /\ waiting' = waiting \ woken
  /\ wpc' = [w \in Workers |-> IF w \in woken THEN "lock" ELSE wpc[w]]

\* When the loop over pool_ is through.
FirstJoined == Workers # {} => \E w \in Workers : wpc[w] = "exited"
AllJoined == \A w \in Workers : wpc[w] = "exited"

\* What the destruction of tasks_ does to a task.
Abandoned(s) == IF s = "queued" THEN "broken" ELSE s

-----------------------------------------------------------------------------
(* The owner: constructor and destructor.                                  *)

StartWorker(w) ==
  /\ opc = "start"
  /\ wpc[w] = "unborn"
  /\ \A v \in Workers : v < w => wpc[v] # "unborn"
  /\ wpc' = [wpc EXCEPT ![w] = "lock"]
  /\ UNCHANGED <<opc, cpc, arg, current, tasks, mtx, waiting, stop, status,
                 spurious>>

Constructed ==
  /\ opc = "start"
  /\ \A w \in Workers : wpc[w] # "unborn"
  /\ opc' = "alive"
  /\ UNCHANGED <<wpc, cpc, arg, current, tasks, mtx, waiting, stop, status,
                 spurious>>

\* The destructor stores stop_ without holding mtx_.
SetStop ==
  /\ opc = "alive"
  /\ \A c \in Clients : cpc[c] = "idle"
  /\ stop' = TRUE
  /\ opc' = "notify"
  /\ UNCHANGED <<wpc, cpc, arg, current, tasks, mtx, waiting, status,
                 spurious>>

NotifyAll ==
  /\ opc = "notify"
  /\ Wake(waiting)
  /\ opc' = "join"
  /\ UNCHANGED <<cpc, arg, current, tasks, mtx, stop, status, spurious>>

\* Every join has returned; the members are destroyed, and with tasks_ the
\* tasks nobody took: their futures get broken_promise.
Join ==
  /\ opc = "join"
  /\ AllJoined
  /\ opc' = "destroyed"
  /\ tasks' = <<>>
  /\ status' = [t \in Tasks |-> Abandoned(status[t])]
  /\ UNCHANGED <<wpc, cpc, arg, current, mtx, waiting, stop, spurious>>

-----------------------------------------------------------------------------
(* A worker: the lambda of start().                                        *)

\* The constructor of unique_lock, or the relock at the end of a wait.
Acquire(w) ==
  /\ wpc[w] = "lock"
  /\ MutexFree
  /\ mtx' = w
  /\ wpc' = [wpc EXCEPT ![w] = "test"]
  /\ UNCHANGED <<opc, cpc, arg, current, tasks, waiting, stop, status,
                 spurious>>

Test(w) ==
  /\ wpc[w] = "test"
  /\ wpc' = [wpc EXCEPT ![w] = IF Predicate THEN "decide" ELSE "block"]
  /\ UNCHANGED <<opc, cpc, arg, current, tasks, mtx, waiting, stop, status,
                 spurious>>

\* The wait unlocks mtx_ and blocks, in one step.
Block(w) ==
  /\ wpc[w] = "block"
  /\ mtx' = NoThread
  /\ waiting' = waiting \cup {w}
  /\ wpc' = [wpc EXCEPT ![w] = "wait"]
  /\ UNCHANGED <<opc, cpc, arg, current, tasks, stop, status, spurious>>

SpuriousWake(w) ==
  /\ wpc[w] = "wait"
  /\ spurious < MaxSpurious
  /\ spurious' = spurious + 1
  /\ waiting' = waiting \ {w}
  /\ wpc' = [wpc EXCEPT ![w] = "lock"]
  /\ UNCHANGED <<opc, cpc, arg, current, tasks, mtx, stop, status>>

Exit(w) ==
  /\ wpc[w] = "decide"
  /\ MayReturn
  /\ mtx' = NoThread
  /\ wpc' = [wpc EXCEPT ![w] = "exited"]
  /\ UNCHANGED <<opc, cpc, arg, current, tasks, waiting, stop, status,
                 spurious>>

Take(w) ==
  /\ wpc[w] = "decide"
  /\ ~MayReturn
  /\ current' = [current EXCEPT ![w] = Head(tasks)]
  /\ status' = [status EXCEPT ![Head(tasks)] = "running"]
  /\ tasks' = Popped
  /\ mtx' = NoThread
  /\ wpc' = [wpc EXCEPT ![w] = "run"]
  /\ UNCHANGED <<opc, cpc, arg, waiting, stop, spurious>>

\* task() returns; whether the function returned or threw, its future is
\* ready, since packaged_task keeps the exception.
Finish(w) ==
  /\ wpc[w] = "run"
  /\ cpc[w] = "idle"
  /\ status' = [status EXCEPT ![current[w]] = "done"]
  /\ current' = [current EXCEPT ![w] = NoTask]
  /\ wpc' = [wpc EXCEPT ![w] = "lock"]
  /\ UNCHANGED <<opc, cpc, arg, tasks, mtx, waiting, stop, spurious>>

-----------------------------------------------------------------------------
(* commit_task.                                                            *)

\* Who may call it now: a client of the living pool, or a running task.
MayCommit(c) == IF c \in Workers THEN wpc[c] = "run" ELSE opc = "alive"

\* The unlocked test of stop_; the exception leaves no trace in the pool.
CheckStop(c, t) ==
  /\ MayCommit(c)
  /\ cpc[c] = "idle"
  /\ status[t] = "new"
  /\ \/ /\ stop
        /\ status' = [status EXCEPT ![t] = "refused"]
        /\ UNCHANGED <<cpc, arg>>
     \/ /\ ~stop
        /\ status' = [status EXCEPT ![t] = "offered"]
        /\ cpc' = [cpc EXCEPT ![c] = "lock"]
        /\ arg' = [arg EXCEPT ![c] = t]
  /\ UNCHANGED <<opc, wpc, current, tasks, mtx, waiting, stop, spurious>>

CommitLock(c) ==
  /\ cpc[c] = "lock"
  /\ MutexFree
  /\ mtx' = c
  /\ cpc' = [cpc EXCEPT ![c] = "emplace"]
  /\ UNCHANGED <<opc, wpc, arg, current, tasks, waiting, stop, status,
                 spurious>>

Emplace(c) ==
  /\ cpc[c] = "emplace"
  /\ tasks' = Emplaced(arg[c])
  /\ status' = [status EXCEPT ![arg[c]] = "queued"]
  /\ mtx' = NoThread
  /\ cpc' = [cpc EXCEPT ![c] = "notify"]
  /\ UNCHANGED <<opc, wpc, arg, current, waiting, stop, spurious>>

\* notify_one, after the mutex is released, wakes any one blocked worker.
NotifyOne(c) ==
  /\ cpc[c] = "notify"
  /\ \E woken \in Notified : Wake(woken)
  /\ cpc' = [cpc EXCEPT ![c] = "idle"]
  /\ arg' = [arg EXCEPT ![c] = NoTask]
  /\ UNCHANGED <<opc, current, tasks, mtx, stop, status, spurious>>

-----------------------------------------------------------------------------

Owner == Constructed \/ SetStop \/ NotifyAll \/ Join

Worker(w) ==
  \/ StartWorker(w)
  \/ Acquire(w)
  \/ Test(w)
  \/ Block(w)
  \/ SpuriousWake(w)
  \/ Exit(w)
  \/ Take(w)
  \/ Finish(w)

Commit(c) ==
  \/ \E t \in Tasks : CheckStop(c, t)
  \/ CommitLock(c)
  \/ Emplace(c)
  \/ NotifyOne(c)

Next ==
  \/ Owner
  \/ \E w \in Workers : Worker(w)
  \/ \E c \in Committers : Commit(c)

Spec == Init /\ [][Next]_vars

\* The scheduler runs every thread that can run, and tasks return.  Nobody
\* is obliged to commit or to destroy the pool or to wake without a cause.
Fairness ==
  /\ WF_vars(Constructed) /\ WF_vars(NotifyAll) /\ WF_vars(Join)
  /\ \A w \in Workers :
       /\ WF_vars(StartWorker(w))
       /\ WF_vars(Acquire(w))
       /\ WF_vars(Test(w))
       /\ WF_vars(Block(w))
       /\ WF_vars(Exit(w) \/ Take(w))
       /\ WF_vars(Finish(w))
  /\ \A c \in Committers :
       WF_vars(CommitLock(c) \/ Emplace(c) \/ NotifyOne(c))

FairSpec == Spec /\ Fairness

-----------------------------------------------------------------------------
(* Properties.                                                             *)

\* The type of every variable.
TypeOK ==
  /\ opc \in {"start", "alive", "notify", "join", "destroyed"}
  /\ wpc \in [Workers -> {"unborn", "lock", "test", "block", "wait",
                          "decide", "run", "exited"}]
  /\ cpc \in [Committers -> {"idle", "lock", "emplace", "notify"}]
  /\ arg \in [Committers -> Tasks \cup {NoTask}]
  /\ current \in [Workers -> Tasks \cup {NoTask}]
  /\ tasks \in Seq(Tasks)
  /\ mtx \in Committers \cup {NoThread}
  /\ waiting \in SUBSET Workers
  /\ stop \in BOOLEAN
  /\ status \in [Tasks -> {"new", "refused", "offered", "queued", "running",
                           "done", "broken"}]
  /\ spurious \in 0..MaxSpurious

\* The threads whose code lies between a lock and an unlock of mtx_.
InCritical(c) ==
  \/ c \in Workers /\ wpc[c] \in {"test", "block", "decide"}
  \/ cpc[c] = "emplace"

\* Mutual exclusion: a thread that looks at or changes tasks_ holds mtx_, and
\* no thread keeps mtx_ while it waits, runs a task or has returned.
LockInv == \A c \in Committers : InCritical(c) <=> mtx = c

\* A task sits in tasks_ exactly while it is queued, and in one place only;
\* it is in the hands of exactly one worker exactly while it runs.
EachTaskOnce ==
  /\ \A i, j \in 1..Len(tasks) : tasks[i] = tasks[j] => i = j
  /\ \A t \in Tasks :
       status[t] = "queued" <=> \E i \in 1..Len(tasks) : tasks[i] = t
  /\ \A v, w \in Workers :
       current[v] = current[w] /\ current[v] # NoTask => v = w
  /\ \A t \in Tasks :
       status[t] = "running" <=> \E w \in Workers : current[w] = t

\* The workers on their way to the test of the queue, and the notifications
\* still to be sent.
Awake == {w \in Workers : wpc[w] \in {"lock", "test", "decide"}}
Notifying == {c \in Committers : cpc[c] = "notify"}

\* One notify_one per task is enough, although it comes after the unlock and
\* may find nobody: as long as a worker sleeps, each queued task has a
\* worker on its way to it or a notification about to be sent.
NoSleeperMissed ==
  waiting # {} =>
    Len(tasks) <= Cardinality(Awake) + Cardinality(Notifying)

\* A pool with at least one thread leaves no task behind: once every worker
\* has returned the queue is empty and nobody is about to fill it, although
\* commit_task reads stop_ without the lock and running tasks may commit
\* during the destruction.
NothingLeftBehind ==
  Workers # {} /\ (\A w \in Workers : wpc[w] = "exited") =>
    \A t \in Tasks : status[t] \notin {"offered", "queued", "running"}

\* Whatever is unfinished when the pool is gone was queued in a pool that
\* never had a thread, and is reported to its future.
DestroyedSettlesFutures ==
  opc = "destroyed" =>
    \A t \in Tasks :
      /\ status[t] \in {"new", "refused", "done", "broken"}
      /\ status[t] = "broken" => Workers = {}

\* A destructor whose notify_all finds every worker awake, or waking it,
\* returns: tasks, late commits and the order of the joins cannot hang it.
ShutdownCompletes ==
  (opc = "join" /\ \A w \in Workers : wpc[w] \notin {"block", "wait"})
    ~> opc = "destroyed"

\* The comment of line 66: a worker must not stay blocked once stop_ is set.
NoWorkerBlockedByStop ==
  \A w \in Workers : stop /\ wpc[w] = "wait" ~> wpc[w] # "wait"

\* What a thread may be doing, given what the others and the data are: the
\* facts that, with TypeOK, LockInv and EachTaskOnce, are inductive.
ControlInv ==
  /\ waiting = {w \in Workers : wpc[w] = "wait"}
  /\ stop <=> opc \in {"notify", "join", "destroyed"}
  /\ opc # "start" => \A w \in Workers : wpc[w] # "unborn"
  /\ opc \notin {"start", "alive"} => \A c \in Clients : cpc[c] = "idle"
  /\ opc = "start" => \A c \in Clients : cpc[c] = "idle"
  /\ opc = "destroyed" => \A w \in Workers : wpc[w] = "exited"
  /\ \A w \in Workers :
       /\ wpc[w] = "decide" => stop \/ tasks # <<>>
       /\ wpc[w] = "exited" => stop
       /\ cpc[w] # "idle" => wpc[w] = "run"
       /\ current[w] # NoTask <=> wpc[w] = "run"

\* A task on its way into tasks_ is in the hands of one committer.
OfferInv ==
  /\ \A c \in Committers :
       cpc[c] \in {"lock", "emplace"} =>
         arg[c] \in Tasks /\ status[arg[c]] = "offered"
  /\ \A b, c \in Committers :
       /\ cpc[b] \in {"lock", "emplace"} /\ cpc[c] \in {"lock", "emplace"}
       /\ arg[b] = arg[c]
       => b = c
  /\ \A t \in Tasks : status[t] = "offered" =>
       \E c \in Committers : cpc[c] \in {"lock", "emplace"} /\ arg[c] = t

\* The last worker to return found tasks_ empty.
EmptyAfterLast ==
  Workers # {} /\ (\A w \in Workers : wpc[w] = "exited") => tasks = <<>>

IInv ==
  TypeOK /\ LockInv /\ EachTaskOnce /\ ControlInv /\ OfferInv /\ EmptyAfterLast

\* The pool as its users see it.
Abstract ==
  INSTANCE Executor WITH
    queue <- tasks,
    running <- {current[w] : w \in Workers} \ {NoTask},
    finished <- {t \in Tasks : status[t] = "done"},
    closed <- stop,
    retired <- opc = "destroyed"

\* The pool starts tasks in the order commit_task accepted them, each once,
\* and the destructor returns only when all have finished.
ImplementsExecutor == Abstract!Spec

\* ... and under fair scheduling it runs what it accepted.
ImplementsFairExecutor == Abstract!FairSpec
=============================================================================
