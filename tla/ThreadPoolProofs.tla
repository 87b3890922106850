-------------------------- MODULE ThreadPoolProofs --------------------------
(***************************************************************************)
(* Theorems of ThreadPool, for every number of clients, tasks and threads. *)
(* The argument: who holds mtx_ (LockInv), what each thread may be doing   *)
(* (ControlInv), where each task is (EachTaskOnce, OfferInv), and that the *)
(* last worker to return left tasks_ empty (EmptyAfterLast) are inductive  *)
(* together; one lemma per action, one step per conjunct.                  *)
(*                                                                         *)
(* Three results build on it: as long as a worker sleeps, the tasks in the *)
(* queue are no more than the workers on their way to it and the           *)
(* notifications to be sent; a pool that has been destroyed has settled    *)
(* every future; and a pool with at least one thread implements an         *)
(* Executor. (Without a thread it does not: the destructor throws the      *)
(* accepted tasks away.)                                                   *)
(***************************************************************************)
EXTENDS ThreadPool, FiniteSetTheorems, TLAPS

USE PoolAssumption

\* Workers are numbers, and none of them is the mark of a free mutex.
LEMMA WorkersAreInt == Workers \subseteq Int /\ \A w \in Workers : w # NoThread
BY DEF Workers, NumThreads, Committers

\* A pool whose constructor has not run satisfies the invariant.
LEMMA InitInv == Init => IInv
<1> USE DEF Init
<1>1. Init => TypeOK
  <2>1. SUFFICES ASSUME Init PROVE TypeOK
    OBVIOUS
  <2>2. /\ wpc \in [Workers -> {"unborn"}]
        /\ cpc \in [Committers -> {"idle"}]
        /\ status \in [Tasks -> {"new"}]
    BY <2>1
  <2>3. arg \in [Committers -> {NoTask}] /\ current \in [Workers -> {NoTask}]
    BY <2>1
  <2>4. tasks \in Seq(Tasks) /\ spurious \in 0..MaxSpurious
    BY <2>1
  <2>. QED BY <2>1, <2>2, <2>3, <2>4 DEF TypeOK
<1>2. Init => LockInv
  BY WorkersAreInt DEF LockInv, InCritical, Committers
<1>3. Init => EachTaskOnce
  BY DEF EachTaskOnce
<1>4. Init => ControlInv
  BY DEF ControlInv, Committers
<1>5. Init => OfferInv
  BY DEF OfferInv
<1>6. Init => EmptyAfterLast
  BY DEF EmptyAfterLast
<1>. QED BY <1>1, <1>2, <1>3, <1>4, <1>5, <1>6 DEF IInv

\* emplace_back of a thread keeps the invariant.
LEMMA StartWorkerInv ==
  ASSUME IInv, NEW w \in Workers, StartWorker(w)
  PROVE  IInv'
<1> USE DEF IInv, StartWorker
<1>1. TypeOK'
  BY DEF TypeOK
<1>2. LockInv'
  BY DEF LockInv, InCritical
<1>3. EachTaskOnce'
  BY DEF EachTaskOnce
<1>4. ControlInv'
  BY DEF ControlInv
<1>5. OfferInv'
  BY DEF OfferInv
<1>6. EmptyAfterLast'
  BY DEF EmptyAfterLast
<1>. QED BY <1>1, <1>2, <1>3, <1>4, <1>5, <1>6

\* The end of the constructor keeps the invariant.
LEMMA ConstructedInv ==
  ASSUME IInv, Constructed
  PROVE  IInv'
<1> USE DEF IInv, Constructed
<1>1. TypeOK'
  BY DEF TypeOK
<1>2. LockInv'
  BY DEF LockInv, InCritical
<1>3. EachTaskOnce'
  BY DEF EachTaskOnce
<1>4. ControlInv'
  BY DEF ControlInv
<1>5. OfferInv'
  BY DEF OfferInv
<1>6. EmptyAfterLast'
  BY DEF EmptyAfterLast
<1>. QED BY <1>1, <1>2, <1>3, <1>4, <1>5, <1>6

\* stop_ = true in the destructor keeps the invariant.
LEMMA SetStopInv ==
  ASSUME IInv, SetStop
  PROVE  IInv'
<1> USE DEF IInv, SetStop
<1>1. TypeOK'
  BY DEF TypeOK
<1>2. LockInv'
  BY DEF LockInv, InCritical
<1>3. EachTaskOnce'
  BY DEF EachTaskOnce
<1>4. ControlInv'
  BY DEF ControlInv
<1>5. OfferInv'
  BY DEF OfferInv
<1>6. EmptyAfterLast'
  BY DEF EmptyAfterLast
<1>. QED BY <1>1, <1>2, <1>3, <1>4, <1>5, <1>6

\* notify_all in the destructor keeps the invariant.
LEMMA NotifyAllInv ==
  ASSUME IInv, NotifyAll
  PROVE  IInv'
<1> USE DEF IInv, NotifyAll, Wake
<1>1. TypeOK'
  BY DEF TypeOK
<1>2. LockInv'
  BY DEF LockInv, InCritical, ControlInv
<1>3. EachTaskOnce'
  BY DEF EachTaskOnce
<1>4. ControlInv'
  BY DEF ControlInv
<1>5. OfferInv'
  BY DEF OfferInv
<1>6. EmptyAfterLast'
  BY DEF EmptyAfterLast
<1>. QED BY <1>1, <1>2, <1>3, <1>4, <1>5, <1>6

\* The end of the destructor keeps the invariant.
LEMMA JoinInv ==
  ASSUME IInv, Join
  PROVE  IInv'
<1> USE DEF IInv, Join, AllJoined, Abandoned
<1>1. TypeOK'
  BY DEF TypeOK
<1>2. LockInv'
  BY DEF LockInv, InCritical
<1>3. EachTaskOnce'
  BY DEF EachTaskOnce
<1>4. ControlInv'
  BY DEF ControlInv
<1>5. OfferInv'
  BY DEF OfferInv
<1>6. EmptyAfterLast'
  BY DEF EmptyAfterLast
<1>. QED BY <1>1, <1>2, <1>3, <1>4, <1>5, <1>6

\* A worker that locks mtx_ keeps the invariant.
LEMMA AcquireInv ==
  ASSUME IInv, NEW w \in Workers, Acquire(w)
  PROVE  IInv'
<1> USE DEF IInv, Acquire, MutexFree
<1>1. TypeOK'
  BY DEF TypeOK, Committers
<1>2. LockInv'
  BY DEF TypeOK, LockInv, InCritical
<1>3. EachTaskOnce'
  BY DEF EachTaskOnce
<1>4. ControlInv'
  BY DEF ControlInv
<1>5. OfferInv'
  BY DEF OfferInv
<1>6. EmptyAfterLast'
  BY DEF EmptyAfterLast
<1>. QED BY <1>1, <1>2, <1>3, <1>4, <1>5, <1>6

\* The predicate of the wait keeps the invariant.
LEMMA TestInv ==
  ASSUME IInv, NEW w \in Workers, Test(w)
  PROVE  IInv'
<1> USE DEF IInv, Test, Predicate
<1>1. TypeOK'
  BY DEF TypeOK
<1>2. LockInv'
  BY DEF LockInv, InCritical
<1>3. EachTaskOnce'
  BY DEF EachTaskOnce
<1>4. ControlInv'
  BY DEF ControlInv
<1>5. OfferInv'
  BY DEF OfferInv
<1>6. EmptyAfterLast'
  BY DEF EmptyAfterLast
<1>. QED BY <1>1, <1>2, <1>3, <1>4, <1>5, <1>6

\* The unlock and block of the wait keep the invariant.
LEMMA BlockInv ==
  ASSUME IInv, NEW w \in Workers, Block(w)
  PROVE  IInv'
<1> USE DEF IInv, Block
<1>1. TypeOK'
  BY DEF TypeOK
<1>2. LockInv'
  BY DEF TypeOK, LockInv, InCritical, ControlInv, Committers
<1>3. EachTaskOnce'
  BY DEF EachTaskOnce
<1>4. ControlInv'
  BY DEF TypeOK, ControlInv
<1>5. OfferInv'
  BY DEF OfferInv
<1>6. EmptyAfterLast'
  BY DEF EmptyAfterLast
<1>. QED BY <1>1, <1>2, <1>3, <1>4, <1>5, <1>6

\* A spurious wakeup keeps the invariant.
LEMMA SpuriousWakeInv ==
  ASSUME IInv, NEW w \in Workers, SpuriousWake(w)
  PROVE  IInv'
<1> USE DEF IInv, SpuriousWake
<1>1. TypeOK'
  BY DEF TypeOK
<1>2. LockInv'
  BY DEF LockInv, InCritical
<1>3. EachTaskOnce'
  BY DEF EachTaskOnce
<1>4. ControlInv'
  BY DEF TypeOK, ControlInv
<1>5. OfferInv'
  BY DEF OfferInv
<1>6. EmptyAfterLast'
  BY DEF EmptyAfterLast
<1>. QED BY <1>1, <1>2, <1>3, <1>4, <1>5, <1>6

\* A worker that returns keeps the invariant.
LEMMA ExitInv ==
  ASSUME IInv, NEW w \in Workers, Exit(w)
  PROVE  IInv'
<1> USE DEF IInv, Exit, MayReturn
<1>1. TypeOK'
  BY DEF TypeOK
<1>2. LockInv'
  BY DEF TypeOK, LockInv, InCritical, ControlInv, Committers
<1>3. EachTaskOnce'
  BY DEF EachTaskOnce
<1>4. ControlInv'
  BY DEF ControlInv
<1>5. OfferInv'
  BY DEF OfferInv
<1>6. EmptyAfterLast'
  BY DEF EmptyAfterLast
<1>. QED BY <1>1, <1>2, <1>3, <1>4, <1>5, <1>6

\* front and pop keep the invariant.
LEMMA TakeInv ==
  ASSUME IInv, NEW w \in Workers, Take(w)
  PROVE  IInv'
<1> USE DEF IInv, Take, MayReturn, Popped
<1>1. TypeOK'
  BY DEF TypeOK, ControlInv
<1>2. LockInv'
  BY DEF TypeOK, LockInv, InCritical, ControlInv, Committers
<1>. DEFINE h == Head(tasks)
<1>a. /\ tasks # <<>> /\ h \in Tasks /\ status[h] = "queued"
      /\ tasks[1] = h
      /\ Len(tasks') = Len(tasks) - 1
      /\ \A i \in 1..Len(tasks') : tasks'[i] = tasks[i + 1]
  BY DEF TypeOK, ControlInv, EachTaskOnce
<1>b. /\ current[w] = NoTask
      /\ \A v \in Workers : current'[v] = IF v = w THEN h ELSE current[v]
      /\ \A t \in Tasks : status'[t] = IF t = h THEN "running" ELSE status[t]
  BY DEF TypeOK, ControlInv
<1>c. \A v \in Workers : current[v] # h
  BY <1>a DEF EachTaskOnce, TypeOK
<1>h. \A i \in 1..Len(tasks') : i + 1 \in 1..Len(tasks) /\ i + 1 # 1
  <2>1. Len(tasks) \in Nat
    BY DEF TypeOK
  <2>. QED BY <1>a, <2>1
<1>d. \A i, j \in 1..Len(tasks') : tasks'[i] = tasks'[j] => i = j
  <2>1. SUFFICES ASSUME NEW i \in 1..Len(tasks'), NEW j \in 1..Len(tasks'),
                        tasks[i + 1] = tasks[j + 1]
                 PROVE  i = j
    BY <1>a
  <2>2. i + 1 \in 1..Len(tasks) /\ j + 1 \in 1..Len(tasks)
    BY <1>h
  <2>. QED BY <2>1, <2>2 DEF EachTaskOnce
<1>e. \A t \in Tasks : status'[t] = "queued" <=>
                         \E i \in 1..Len(tasks') : tasks'[i] = t
  <2>1. SUFFICES ASSUME NEW t \in Tasks
                 PROVE  status'[t] = "queued" <=>
                          \E i \in 1..Len(tasks') : tasks[i + 1] = t
    BY <1>a
  <2>2. CASE t = h
    <3>2. 1 \in 1..Len(tasks)
      BY <1>a DEF TypeOK
    <3>. QED BY <2>2, <3>2, <1>a, <1>b, <1>h DEF EachTaskOnce
  <2>3. CASE t # h
    <3>1. ASSUME NEW i \in 1..Len(tasks), tasks[i] = t
          PROVE  \E j \in 1..Len(tasks') : tasks[j + 1] = t
      <4>1. i # 1
        BY <3>1, <2>3, <1>a
      <4>2. Len(tasks) \in Nat /\ i \in Nat
        BY DEF TypeOK
      <4>3. i - 1 \in 1..Len(tasks') /\ (i - 1) + 1 = i
        BY <4>1, <4>2, <1>a
      <4>. QED BY <4>3, <3>1
    <3>. QED BY <2>3, <3>1, <1>b, <1>h DEF EachTaskOnce
  <2>. QED BY <2>2, <2>3
<1>f. \A u, v \in Workers :
        current'[u] = current'[v] /\ current'[u] # NoTask => u = v
  BY <1>a, <1>b, <1>c DEF EachTaskOnce
<1>g. \A t \in Tasks : status'[t] = "running" <=>
                         \E v \in Workers : current'[v] = t
  BY <1>a, <1>b, <1>c DEF EachTaskOnce
<1>3. EachTaskOnce'
  BY <1>d, <1>e, <1>f, <1>g DEF EachTaskOnce
<1>4. ControlInv'
  BY DEF TypeOK, LockInv, InCritical, ControlInv, Committers
<1>5. OfferInv'
  BY DEF EachTaskOnce, ControlInv, OfferInv
<1>6. EmptyAfterLast'
  BY DEF EmptyAfterLast
<1>. QED BY <1>1, <1>2, <1>3, <1>4, <1>5, <1>6

\* The end of a task keeps the invariant.
LEMMA FinishInv ==
  ASSUME IInv, NEW w \in Workers, Finish(w)
  PROVE  IInv'
<1> USE DEF IInv, Finish
<1>1. TypeOK'
  BY DEF TypeOK
<1>2. LockInv'
  BY DEF LockInv, InCritical
<1>3. EachTaskOnce'
  BY DEF TypeOK, EachTaskOnce
<1>4. ControlInv'
  BY DEF TypeOK, ControlInv
<1>5. OfferInv'
  BY DEF EachTaskOnce, OfferInv
<1>6. EmptyAfterLast'
  BY DEF EmptyAfterLast
<1>. QED BY <1>1, <1>2, <1>3, <1>4, <1>5, <1>6

\* The test of stop_ in commit_task keeps the invariant.
LEMMA CheckStopInv ==
  ASSUME IInv, NEW c \in Committers, NEW t \in Tasks, CheckStop(c, t)
  PROVE  IInv'
<1> USE DEF IInv, CheckStop
<1>1. TypeOK'
  <2>1. cpc' \in [Committers -> {"idle", "lock", "emplace", "notify"}]
    BY DEF TypeOK
  <2>2. arg' \in [Committers -> Tasks \cup {NoTask}]
    BY DEF TypeOK
  <2>3. status' \in [Tasks -> {"new", "refused", "offered", "queued",
                               "running", "done", "broken"}]
    BY DEF TypeOK
  <2>. QED BY <2>1, <2>2, <2>3 DEF TypeOK
<1>2. LockInv'
  BY DEF TypeOK, LockInv, InCritical
<1>3. EachTaskOnce'
  BY DEF TypeOK, EachTaskOnce
<1>4. ControlInv'
  <2>1. \A b \in Committers : cpc'[b] # cpc[b] => b = c /\ ~stop
    BY DEF TypeOK
  <2>. QED BY <2>1 DEF ControlInv, Committers, MayCommit
<1>5. OfferInv'
  <2>1. CASE stop
    BY <2>1 DEF TypeOK, OfferInv, ControlInv
  <2>2. CASE ~stop
    BY <2>2, SMTT(20) DEF TypeOK, OfferInv
  <2>. QED BY <2>1, <2>2
<1>6. EmptyAfterLast'
  BY DEF EmptyAfterLast
<1>. QED BY <1>1, <1>2, <1>3, <1>4, <1>5, <1>6

\* The lock in commit_task keeps the invariant.
LEMMA CommitLockInv ==
  ASSUME IInv, NEW c \in Committers, CommitLock(c)
  PROVE  IInv'
<1> USE DEF IInv, CommitLock, MutexFree
<1>1. TypeOK'
  BY DEF TypeOK
<1>2. LockInv'
  BY DEF TypeOK, LockInv, InCritical
<1>3. EachTaskOnce'
  BY DEF EachTaskOnce
<1>4. ControlInv'
  BY DEF ControlInv
<1>5. OfferInv'
  BY DEF OfferInv
<1>6. EmptyAfterLast'
  BY DEF EmptyAfterLast
<1>. QED BY <1>1, <1>2, <1>3, <1>4, <1>5, <1>6

\* emplace keeps the invariant: the task was in nobody else's hands.
LEMMA EmplaceInv ==
  ASSUME IInv, NEW c \in Committers, Emplace(c)
  PROVE  IInv'
<1> USE DEF IInv, Emplace, Emplaced
<1>1. TypeOK'
  BY DEF TypeOK, OfferInv
<1>2. LockInv'
  BY DEF TypeOK, LockInv, InCritical, ControlInv
<1>a. /\ arg[c] \in Tasks /\ status[arg[c]] = "offered"
      /\ Len(tasks') = Len(tasks) + 1
      /\ \A i \in 1..Len(tasks) : tasks'[i] = tasks[i]
      /\ tasks'[Len(tasks) + 1] = arg[c]
      /\ Len(tasks) \in Nat
  BY DEF TypeOK, OfferInv
<1>b. \A i \in 1..Len(tasks) : tasks[i] # arg[c]
  BY <1>a DEF EachTaskOnce
<1>c. \A i \in 1..Len(tasks') : i \in 1..Len(tasks) \/ i = Len(tasks) + 1
  BY <1>a
<1>d. \A i, j \in 1..Len(tasks') : tasks'[i] = tasks'[j] => i = j
  BY <1>a, <1>b, <1>c DEF EachTaskOnce
<1>e. ASSUME NEW t \in Tasks
      PROVE  status'[t] = "queued" <=> \E i \in 1..Len(tasks') : tasks'[i] = t
  <2>1. CASE t = arg[c]
    BY <2>1, <1>a DEF TypeOK
  <2>2. CASE t # arg[c]
    <3>1. \A i \in 1..Len(tasks) : i \in 1..Len(tasks')
      BY <1>a
    <3>. QED BY <2>2, <3>1, <1>a, <1>c DEF TypeOK, EachTaskOnce
  <2>. QED BY <2>1, <2>2
<1>3. EachTaskOnce'
  BY <1>a, <1>d, <1>e DEF EachTaskOnce, TypeOK
<1>4. ControlInv'
  BY DEF ControlInv
<1>5. OfferInv'
  BY DEF TypeOK, OfferInv
<1>6. EmptyAfterLast'
  <2>1. CASE c \in Workers
    BY <2>1 DEF ControlInv, EmptyAfterLast
  <2>2. CASE c \in Clients
    BY <2>2 DEF ControlInv, EmptyAfterLast
  <2>. QED BY <2>1, <2>2 DEF Committers
<1>. QED BY <1>1, <1>2, <1>3, <1>4, <1>5, <1>6

\* notify_one keeps the invariant.
LEMMA NotifyOneInv ==
  ASSUME IInv, NEW c \in Committers, NotifyOne(c)
  PROVE  IInv'
<1> USE DEF IInv, NotifyOne, Notified, Wake
<1>1. TypeOK'
  BY DEF TypeOK, LockInv, EachTaskOnce
<1>2. LockInv'
  BY DEF TypeOK, LockInv, InCritical, ControlInv
<1>3. EachTaskOnce'
  BY DEF EachTaskOnce
<1>a. waiting' = {v \in Workers : wpc'[v] = "wait"}
  BY DEF TypeOK, ControlInv
<1>b. \A v \in Workers : wpc'[v] # wpc[v] => wpc[v] = "wait" /\ wpc'[v] = "lock"
  BY DEF TypeOK, ControlInv
<1>c. \A b \in Committers : cpc'[b] = IF b = c THEN "idle" ELSE cpc[b]
  BY DEF TypeOK
<1>4. ControlInv'
  BY <1>a, <1>b, <1>c DEF TypeOK, ControlInv, Committers
<1>5. OfferInv'
  BY DEF OfferInv
<1>6. EmptyAfterLast'
  BY DEF TypeOK, EmptyAfterLast
<1>. QED BY <1>1, <1>2, <1>3, <1>4, <1>5, <1>6

-----------------------------------------------------------------------------

\* Every step keeps the invariant.
LEMMA NextInv == IInv /\ [Next]_vars => IInv'
<1> SUFFICES ASSUME IInv, [Next]_vars PROVE IInv'
  OBVIOUS
<1>1. CASE Owner
  BY <1>1, ConstructedInv, SetStopInv, NotifyAllInv, JoinInv DEF Owner
<1>2. ASSUME NEW w \in Workers, Worker(w) PROVE IInv'
  BY <1>2, StartWorkerInv, AcquireInv, TestInv, BlockInv, SpuriousWakeInv,
     ExitInv, TakeInv, FinishInv DEF Worker
<1>3. ASSUME NEW c \in Committers, Commit(c) PROVE IInv'
  BY <1>3, CheckStopInv, CommitLockInv, EmplaceInv, NotifyOneInv DEF Commit
<1>4. CASE UNCHANGED vars
  BY <1>4 DEF vars, IInv, TypeOK, LockInv, InCritical, EachTaskOnce,
     ControlInv, OfferInv, EmptyAfterLast
<1>. QED BY <1>1, <1>2, <1>3, <1>4 DEF Next

\* The inductive invariant.
THEOREM Invariance == Spec => []IInv
BY InitInv, NextInv, PTL DEF Spec

\* Every variable keeps its type.
THEOREM TypeCorrect == Spec => []TypeOK
<1>1. IInv => TypeOK
  BY DEF IInv
<1>. QED BY <1>1, Invariance, PTL

\* tasks_ is only looked at and changed by the holder of mtx_.
THEOREM MutualExclusion == Spec => []LockInv
<1>1. IInv => LockInv
  BY DEF IInv
<1>. QED BY <1>1, Invariance, PTL

\* No task is lost, duplicated or run by two workers.
THEOREM EachTaskOnceAlways == Spec => []EachTaskOnce
<1>1. IInv => EachTaskOnce
  BY DEF IInv
<1>. QED BY <1>1, Invariance, PTL

\* A pool with a thread leaves no accepted task behind, whatever commits
\* race with its destruction.
THEOREM NothingIsLeftBehind == Spec => []NothingLeftBehind
<1>1. IInv => NothingLeftBehind
  <2> SUFFICES ASSUME IInv, Workers # {},
                      \A w \in Workers : wpc[w] = "exited",
                      NEW t \in Tasks
               PROVE  status[t] \notin {"offered", "queued", "running"}
    BY DEF NothingLeftBehind
  <2>1. \A c \in Committers : cpc[c] = "idle"
    BY DEF IInv, ControlInv, Committers
  <2>2. status[t] # "offered"
    BY <2>1 DEF IInv, OfferInv
  <2>3. status[t] # "queued"
    BY DEF IInv, EmptyAfterLast, EachTaskOnce
  <2>4. status[t] # "running"
    BY DEF IInv, ControlInv, EachTaskOnce, TypeOK
  <2>. QED BY <2>2, <2>3, <2>4
<1>. QED BY <1>1, Invariance, PTL

-----------------------------------------------------------------------------
(* No notification is missed. The bound is kept by every step but one, which *)
(* needs that a worker about to block has the mutex and saw an empty queue. *)

\* A worker that is about to block holds mtx_, and nothing was put into the
\* queue since it looked.
BlockedSawEmpty == \A w \in Workers : wpc[w] = "block" => tasks = <<>>

WakeupInv == BlockedSawEmpty /\ NoSleeperMissed

\* Threads are finitely many, so those awake and those notifying can be
\* counted.
LEMMA FiniteThreads ==
  /\ Awake \in SUBSET Workers /\ IsFiniteSet(Workers)
  /\ Notifying \in SUBSET Committers /\ IsFiniteSet(Committers)
<1>1. NumThreads \in Int
  BY PoolAssumption DEF NumThreads
<1>2. IsFiniteSet(Workers)
  BY <1>1, FS_Interval DEF Workers
<1>3. IsFiniteSet(Committers)
  BY <1>2, PoolAssumption, FS_Union DEF Committers
<1>. QED BY <1>2, <1>3 DEF Awake, Notifying

\* The two numbers ...
LEMMA Countable ==
  /\ IsFiniteSet(Awake) /\ Cardinality(Awake) \in Nat
  /\ IsFiniteSet(Notifying) /\ Cardinality(Notifying) \in Nat
BY FiniteThreads, FS_Subset, FS_CardinalityType

\* ... and the same after a step.
LEMMA CountableNext ==
  /\ IsFiniteSet(Awake') /\ Cardinality(Awake') \in Nat
  /\ IsFiniteSet(Notifying') /\ Cardinality(Notifying') \in Nat
<1>1. Awake' \in SUBSET Workers /\ Notifying' \in SUBSET Committers
  BY DEF Awake, Notifying
<1>. QED BY <1>1, FiniteThreads, FS_Subset, FS_CardinalityType

\* A step that takes nobody from those awake or notifying, puts nothing into
\* the queue and no first worker to sleep keeps the bound.
LEMMA StillEnough ==
  ASSUME IInv, IInv', NoSleeperMissed,
         waiting' # {} => waiting # {},
         Len(tasks') <= Len(tasks),
         Awake \subseteq Awake', Notifying \subseteq Notifying'
  PROVE  NoSleeperMissed'
<1>1. Cardinality(Awake) <= Cardinality(Awake')
  BY CountableNext, FS_Subset
<1>2. Cardinality(Notifying) <= Cardinality(Notifying')
  BY CountableNext, FS_Subset
<1>3. Len(tasks) \in Nat /\ Len(tasks') \in Nat
  BY DEF IInv, TypeOK
<1>. QED BY <1>1, <1>2, <1>3, Countable, CountableNext DEF NoSleeperMissed

\* An empty queue needs nobody.
LEMMA NothingQueued ==
  ASSUME tasks' = <<>>
  PROVE  NoSleeperMissed'
BY CountableNext DEF NoSleeperMissed

\* The owner keeps the bound.
LEMMA OwnerWakeup ==
  ASSUME IInv, IInv', WakeupInv, Owner
  PROVE  WakeupInv'
<1> USE DEF WakeupInv
<1>1. CASE Constructed \/ SetStop
  <2>1. /\ Awake' = Awake /\ Notifying' = Notifying
        /\ waiting' = waiting /\ tasks' = tasks /\ wpc' = wpc
    BY <1>1 DEF Constructed, SetStop, Awake, Notifying
  <2>2. Len(tasks') <= Len(tasks)
    BY <2>1 DEF IInv, TypeOK
  <2>. QED BY <2>1, <2>2, StillEnough DEF BlockedSawEmpty
<1>2. CASE NotifyAll
  <2>1. waiting' = {} /\ tasks' = tasks
    BY <1>2 DEF NotifyAll, Wake
  <2>2. \A w \in Workers : wpc'[w] = "block" => wpc[w] = "block"
    BY <1>2 DEF NotifyAll, Wake
  <2>. QED BY <2>1, <2>2 DEF NoSleeperMissed, BlockedSawEmpty
<1>3. CASE Join
  BY <1>3, NothingQueued DEF Join, BlockedSawEmpty
<1>. QED BY <1>1, <1>2, <1>3 DEF Owner

\* A worker keeps the bound: it goes to sleep or returns only when it has seen
\* an empty queue, and when it takes a task there is one less.
LEMMA WorkerWakeup ==
  ASSUME IInv, IInv', WakeupInv, NEW w \in Workers, Worker(w)
  PROVE  WakeupInv'
<1> USE DEF WakeupInv
<1>t. wpc \in [Workers -> {"unborn", "lock", "test", "block", "wait",
                           "decide", "run", "exited"}]
      /\ tasks \in Seq(Tasks) /\ Len(tasks) \in Nat
  BY DEF IInv, TypeOK
<1>1. CASE StartWorker(w) \/ Acquire(w) \/ SpuriousWake(w) \/ Finish(w)
  <2>1. /\ Notifying' = Notifying /\ tasks' = tasks
        /\ waiting' \subseteq waiting
    BY <1>1 DEF StartWorker, Acquire, SpuriousWake, Finish, Notifying
  <2>2. /\ \A v \in Workers : v # w => wpc'[v] = wpc[v]
        /\ wpc'[w] \in {"lock", "test"}
    BY <1>1, <1>t DEF StartWorker, Acquire, SpuriousWake, Finish
  <2>3. Awake \subseteq Awake'
    BY <2>2 DEF Awake
  <2>4. BlockedSawEmpty'
    BY <2>1, <2>2 DEF BlockedSawEmpty
  <2>. QED BY <1>t, <2>1, <2>3, <2>4, StillEnough
<1>2. CASE Test(w)
  <2>1. /\ Notifying' = Notifying /\ tasks' = tasks /\ waiting' = waiting
        /\ \A v \in Workers : v # w => wpc'[v] = wpc[v]
    BY <1>2, <1>t DEF Test, Notifying
  <2>2. CASE Predicate
    <3>1. wpc'[w] = "decide"
      BY <1>2, <1>t, <2>2 DEF Test
    <3>2. Awake \subseteq Awake'
      BY <2>1, <3>1 DEF Awake
    <3>. QED BY <1>t, <2>1, <3>1, <3>2, StillEnough DEF BlockedSawEmpty
  <2>3. CASE ~Predicate
    BY <2>1, <2>3, NothingQueued DEF Predicate, BlockedSawEmpty
  <2>. QED BY <2>2, <2>3
<1>3. CASE Block(w)
  <2>1. tasks = <<>> /\ tasks' = tasks
    BY <1>3 DEF Block, BlockedSawEmpty
  <2>. QED BY <2>1, NothingQueued DEF BlockedSawEmpty
<1>4. CASE Exit(w)
  <2>1. tasks = <<>> /\ tasks' = tasks
    BY <1>4 DEF Exit, MayReturn
  <2>. QED BY <2>1, NothingQueued DEF BlockedSawEmpty
<1>5. CASE Take(w)
  <2>1. /\ Notifying' = Notifying /\ waiting' = waiting
        /\ tasks # <<>> /\ tasks' = Tail(tasks)
        /\ w \in Awake
    BY <1>5 DEF Take, MayReturn, Popped, Notifying, Awake, IInv, ControlInv
  <2>2. \A v \in Workers : wpc'[v] = IF v = w THEN "run" ELSE wpc[v]
    BY <1>5, <1>t DEF Take
  <2>3. Awake' = Awake \ {w}
    BY <2>2 DEF Awake
  <2>4. Cardinality(Awake') = Cardinality(Awake) - 1
    BY <2>1, <2>3, Countable, FS_RemoveElement
  <2>5. Len(tasks') = Len(tasks) - 1
    BY <1>t, <2>1
  <2>6. NoSleeperMissed'
    BY <1>t, <2>1, <2>4, <2>5, Countable DEF NoSleeperMissed
  <2>7. BlockedSawEmpty'
    BY <2>1, <2>2 DEF BlockedSawEmpty
  <2>. QED BY <2>6, <2>7
<1>. QED BY <1>1, <1>2, <1>3, <1>4, <1>5 DEF Worker

\* A committer keeps the bound: with each task it puts into the queue it owes a
\* notification, and a notification wakes a worker if one sleeps.
LEMMA CommitWakeup ==
  ASSUME IInv, IInv', WakeupInv, NEW c \in Committers, Commit(c)
  PROVE  WakeupInv'
<1> USE DEF WakeupInv
<1>t. /\ cpc \in [Committers -> {"idle", "lock", "emplace", "notify"}]
      /\ wpc \in [Workers -> {"unborn", "lock", "test", "block", "wait",
                              "decide", "run", "exited"}]
      /\ tasks \in Seq(Tasks) /\ Len(tasks) \in Nat
  BY DEF IInv, TypeOK
<1>1. ASSUME NEW t \in Tasks, CheckStop(c, t) PROVE WakeupInv'
  <2>1. wpc' = wpc /\ tasks' = tasks /\ waiting' = waiting /\ Awake' = Awake
    BY <1>1 DEF CheckStop, Awake
  <2>2. \A b \in Committers : cpc[b] = "notify" => cpc'[b] = "notify"
    BY <1>1, <1>t DEF CheckStop
  <2>3. Notifying \subseteq Notifying'
    BY <2>2 DEF Notifying
  <2>. QED BY <1>t, <2>1, <2>3, StillEnough DEF BlockedSawEmpty
<1>2. CASE CommitLock(c)
  <2>1. wpc' = wpc /\ tasks' = tasks /\ waiting' = waiting /\ Awake' = Awake
    BY <1>2 DEF CommitLock, Awake
  <2>2. \A b \in Committers : cpc[b] = "notify" => cpc'[b] = "notify"
    BY <1>2, <1>t DEF CommitLock
  <2>3. Notifying \subseteq Notifying'
    BY <2>2 DEF Notifying
  <2>. QED BY <1>t, <2>1, <2>3, StillEnough DEF BlockedSawEmpty
<1>3. CASE Emplace(c)
  <2>1. /\ wpc' = wpc /\ waiting' = waiting /\ Awake' = Awake
        /\ cpc[c] = "emplace" /\ Len(tasks') = Len(tasks) + 1
    BY <1>3, <1>t DEF Emplace, Emplaced, Awake, IInv, OfferInv
  <2>2. \A b \in Committers : cpc'[b] = IF b = c THEN "notify" ELSE cpc[b]
    BY <1>3, <1>t DEF Emplace
  <2>3. Notifying' = Notifying \cup {c} /\ c \notin Notifying
    BY <2>1, <2>2 DEF Notifying
  <2>4. Cardinality(Notifying') = Cardinality(Notifying) + 1
    BY <2>3, Countable, FS_AddElement
  <2>5. NoSleeperMissed'
    BY <1>t, <2>1, <2>4, Countable DEF NoSleeperMissed
  <2>6. \A w \in Workers : wpc[w] # "block"
    BY <2>1 DEF IInv, LockInv, InCritical, ControlInv, Committers
  <2>7. BlockedSawEmpty'
    BY <2>1, <2>6 DEF BlockedSawEmpty
  <2>. QED BY <2>5, <2>7
<1>4. CASE NotifyOne(c)
  <2>1. PICK woken \in Notified : Wake(woken)
    BY <1>4 DEF NotifyOne
  <2>2. /\ cpc[c] = "notify" /\ tasks' = tasks
        /\ waiting' = waiting \ woken
        /\ \A v \in Workers : wpc'[v] = IF v \in woken THEN "lock" ELSE wpc[v]
    BY <1>4, <2>1 DEF NotifyOne, Wake
  <2>3. BlockedSawEmpty'
    BY <2>2 DEF BlockedSawEmpty
  <2>4. NoSleeperMissed'
    <3>1. CASE waiting = {}
      BY <2>2, <3>1 DEF NoSleeperMissed
    <3>2. CASE waiting # {}
      <4>1. PICK w \in waiting : woken = {w}
        BY <2>1, <3>2 DEF Notified
      <4>2. w \in Workers /\ wpc[w] = "wait"
        BY <4>1 DEF IInv, ControlInv
      <4>3. Awake' = Awake \cup {w} /\ w \notin Awake
        BY <2>2, <4>1, <4>2 DEF Awake
      <4>4. Cardinality(Awake') = Cardinality(Awake) + 1
        BY <4>3, Countable, FS_AddElement
      <4>5. \A b \in Committers : cpc'[b] = IF b = c THEN "idle" ELSE cpc[b]
        BY <1>4, <1>t DEF NotifyOne
      <4>6. Notifying' = Notifying \ {c} /\ c \in Notifying
        BY <2>2, <4>5 DEF Notifying
      <4>7. Cardinality(Notifying') = Cardinality(Notifying) - 1
        BY <4>6, Countable, FS_RemoveElement
      <4>. QED BY <1>t, <2>2, <3>2, <4>4, <4>7, Countable DEF NoSleeperMissed
    <3>. QED BY <3>1, <3>2
  <2>. QED BY <2>3, <2>4
<1>. QED BY <1>1, <1>2, <1>3, <1>4 DEF Commit

-----------------------------------------------------------------------------

\* One notify_one per task is enough: whatever the interleaving, no worker
\* sleeps while more tasks are queued than others are about to see to.
THEOREM NoSleeperIsMissed == Spec => []NoSleeperMissed
<1>1. Init => WakeupInv
  <2>1. Init => waiting = {} /\ tasks = <<>>
    BY DEF Init
  <2>. QED BY <2>1 DEF WakeupInv, NoSleeperMissed, BlockedSawEmpty
<1>2. IInv /\ IInv' /\ WakeupInv /\ [Next]_vars => WakeupInv'
  <2> SUFFICES ASSUME IInv, IInv', WakeupInv, [Next]_vars PROVE WakeupInv'
    OBVIOUS
  <2>1. CASE UNCHANGED vars
    BY <2>1 DEF vars, WakeupInv, NoSleeperMissed, BlockedSawEmpty, Awake,
       Notifying
  <2>. QED BY <2>1, OwnerWakeup, WorkerWakeup, CommitWakeup DEF Next
<1>3. WakeupInv => NoSleeperMissed
  BY DEF WakeupInv
<1>. QED BY <1>1, <1>2, <1>3, Invariance, PTL DEF Spec

-----------------------------------------------------------------------------
(* What is left behind by a pool that has been destroyed.                  *)

\* Once the pool is destroyed its queue is empty, and only the destructor of
\* a pool without threads breaks a promise.
DestroyedInv ==
  /\ opc = "destroyed" => tasks = <<>>
  /\ \A t \in Tasks : status[t] = "broken" => opc = "destroyed" /\ Workers = {}

\* When the joins are through and there was a thread to join, no task is left.
LEMMA NothingToAbandon ==
  ASSUME IInv, Workers # {}, \A w \in Workers : wpc[w] = "exited"
  PROVE  /\ tasks = <<>>
         /\ \A t \in Tasks : status[t] # "queued"
         /\ \A w \in Workers : current[w] = NoTask
BY DEF IInv, EmptyAfterLast, EachTaskOnce, ControlInv, TypeOK

\* Every step keeps DestroyedInv: nobody is left to fill the queue.
LEMMA DestroyedStep ==
  ASSUME IInv, DestroyedInv, [Next]_vars
  PROVE  DestroyedInv'
<1> USE DEF DestroyedInv
<1>s. status \in [Tasks -> {"new", "refused", "offered", "queued", "running",
                            "done", "broken"}]
  BY DEF IInv, TypeOK
<1>d. opc = "destroyed" =>
        /\ \A w \in Workers : wpc[w] = "exited"
        /\ \A c \in Committers : cpc[c] = "idle"
  BY DEF IInv, ControlInv, Committers
<1>1. CASE Join
  <2>1. CASE Workers = {}
    BY <1>1, <2>1, <1>s DEF Join
  <2>2. CASE Workers # {}
    <3>1. \A t \in Tasks : status[t] # "queued"
      BY <1>1, <2>2, NothingToAbandon DEF Join, AllJoined
    <3>2. \A t \in Tasks : status'[t] = status[t]
      BY <1>1, <3>1 DEF Join, Abandoned
    <3>. QED BY <1>1, <3>2 DEF Join
  <2>. QED BY <2>1, <2>2
<1>2. CASE Constructed \/ SetStop \/ NotifyAll
  BY <1>2 DEF Constructed, SetStop, NotifyAll, Wake
<1>3. ASSUME NEW w \in Workers, Worker(w) PROVE DestroyedInv'
  <2>1. wpc[w] # "exited" /\ opc' = opc
    BY <1>3 DEF Worker, StartWorker, Acquire, Test, Block, SpuriousWake, Exit,
       Take, Finish
  <2>2. opc # "destroyed"
    BY <2>1, <1>d
  <2>3. \A t \in Tasks : status'[t] = "broken" => status[t] = "broken"
    BY <1>3, <1>s DEF Worker, StartWorker, Acquire, Test, Block, SpuriousWake,
       Exit, Take, Finish
  <2>. QED BY <2>1, <2>2, <2>3
<1>4. ASSUME NEW c \in Committers, Commit(c) PROVE DestroyedInv'
  <2>1. opc' = opc
    BY <1>4 DEF Commit, CheckStop, CommitLock, Emplace, NotifyOne
  <2>2. \A t \in Tasks : status'[t] = "broken" => status[t] = "broken"
    BY <1>4, <1>s DEF Commit, CheckStop, CommitLock, Emplace, NotifyOne
  <2>3. opc = "destroyed" => tasks' = tasks
    BY <1>4, <1>d DEF Commit, CheckStop, CommitLock, Emplace, NotifyOne
  <2>. QED BY <2>1, <2>2, <2>3
<1>5. CASE UNCHANGED vars
  BY <1>5 DEF vars
<1>. QED BY <1>1, <1>2, <1>3, <1>4, <1>5 DEF Next, Owner

\* With IInv, what is needed about the pool that is gone.
THEOREM DestroyedInvariance == Spec => []DestroyedInv
<1>1. Init => DestroyedInv
  BY DEF Init, DestroyedInv
<1>2. IInv /\ DestroyedInv /\ [Next]_vars => DestroyedInv'
  BY DestroyedStep
<1>. QED BY <1>1, <1>2, Invariance, PTL DEF Spec

\* When the destructor has returned each task was never accepted, refused,
\* done, or, in a pool without threads only, reported as broken.
THEOREM FuturesAreSettled == Spec => []DestroyedSettlesFutures
<1>1. IInv /\ DestroyedInv => DestroyedSettlesFutures
  <2> SUFFICES ASSUME IInv, DestroyedInv, opc = "destroyed", NEW t \in Tasks
               PROVE  /\ status[t] \in {"new", "refused", "done", "broken"}
                      /\ status[t] = "broken" => Workers = {}
    BY DEF DestroyedSettlesFutures
  <2>1. \A c \in Committers : cpc[c] = "idle"
    BY DEF IInv, ControlInv, Committers
  <2>2. status[t] # "offered"
    BY <2>1 DEF IInv, OfferInv
  <2>3. status[t] # "queued"
    BY DEF IInv, EachTaskOnce, DestroyedInv
  <2>4. status[t] # "running"
    <3>1. \A w \in Workers : current[w] = NoTask
      BY DEF IInv, ControlInv
    <3>. QED BY <3>1, PoolAssumption DEF IInv, EachTaskOnce
  <2>. QED BY <2>2, <2>3, <2>4 DEF IInv, TypeOK, DestroyedInv
<1>. QED BY <1>1, Invariance, DestroyedInvariance, PTL

-----------------------------------------------------------------------------
(* The refinement: tasks_ is the queue, the tasks in the workers' hands are *)
(* running, those whose futures are ready have finished.                   *)

Running == {current[w] : w \in Workers} \ {NoTask}
Finished == {t \in Tasks : status[t] = "done"}
Retired == opc = "destroyed"

absVars == <<tasks, Running, Finished, stop, Retired>>

\* A new pool is an executor that has nothing to do.
LEMMA InitRefines == Init => Abstract!Init
BY DEF Init, Abstract!Init

\* The running tasks are those whose status says so.
LEMMA RunningStatus ==
  ASSUME IInv
  PROVE  Running = {t \in Tasks : status[t] = "running"}
BY PoolAssumption DEF IInv, EachTaskOnce, TypeOK, Running

\* The same after a step.
LEMMA RunningStatusNext ==
  ASSUME IInv'
  PROVE  Running' = {t \in Tasks : status'[t] = "running"}
BY PoolAssumption DEF IInv, EachTaskOnce, TypeOK, Running

\* The steps a user does not see: they leave the queue, stop_ and the tasks
\* that run or are done as they are.
LEMMA StutterRefines ==
  ASSUME IInv, IInv', tasks' = tasks, stop' = stop, Retired' = Retired,
         \A t \in Tasks : status'[t] = status[t] \/
           (status[t] = "new" /\ status'[t] \in {"refused", "offered"})
  PROVE  UNCHANGED absVars
<1>1. Running' = Running
  BY RunningStatus, RunningStatusNext
<1>2. Finished' = Finished
  BY DEF Finished
<1>. QED BY <1>1, <1>2 DEF absVars

\* Storing stop_ closes the executor.
LEMMA SetStopRefines ==
  ASSUME IInv, IInv', SetStop
  PROVE  Abstract!Close
<1>1. ~stop /\ stop' /\ tasks' = tasks /\ current' = current /\ status' = status
  BY DEF SetStop, IInv, ControlInv
<1>2. ~Retired /\ ~Retired'
  BY DEF SetStop, Retired
<1>. QED BY <1>1, <1>2 DEF Abstract!Close, Retired

\* The end of the destructor retires it: nothing is queued or running.
LEMMA JoinRefines ==
  ASSUME IInv, IInv', Workers # {}, Join
  PROVE  Abstract!Retire
<1>1. /\ tasks = <<>>
      /\ \A t \in Tasks : status[t] # "queued"
      /\ \A w \in Workers : current[w] = NoTask
  BY NothingToAbandon DEF Join, AllJoined
<1>2. stop
  BY DEF Join, IInv, ControlInv
<1>3. \A t \in Tasks : status'[t] = status[t]
  BY <1>1 DEF Join, Abandoned
<1>4. tasks' = tasks /\ current' = current /\ stop' = stop /\ opc' = "destroyed"
  BY <1>1 DEF Join
<1>. QED BY <1>1, <1>2, <1>3, <1>4 DEF Abstract!Retire

\* front and pop start the oldest task.
LEMMA TakeRefines ==
  ASSUME IInv, IInv', NEW w \in Workers, Take(w)
  PROVE  Abstract!Start
<1>. DEFINE h == Head(tasks)
<1>1. /\ tasks # <<>> /\ tasks' = Tail(tasks) /\ h \in Tasks
      /\ stop' = stop /\ opc' = opc
      /\ \A t \in Tasks : status'[t] = IF t = h THEN "running" ELSE status[t]
  BY DEF Take, MayReturn, Popped, IInv, TypeOK, ControlInv
<1>2. Running' = Running \cup {h}
  BY <1>1, RunningStatus, RunningStatusNext
<1>3. status[h] = "queued"
  BY <1>1 DEF IInv, EachTaskOnce, TypeOK
<1>4. Finished' = Finished
  BY <1>1, <1>3 DEF Finished
<1>. QED BY <1>1, <1>2, <1>4 DEF Abstract!Start, Running, Finished

\* A task that returns has finished.
LEMMA FinishRefines ==
  ASSUME IInv, IInv', NEW w \in Workers, Finish(w)
  PROVE  \E t \in Tasks : Abstract!Finish(t)
<1>. DEFINE t == current[w]
<1>1. t \in Tasks /\ status[t] = "running"
  BY DEF Finish, IInv, TypeOK, ControlInv, EachTaskOnce
<1>2. /\ tasks' = tasks /\ stop' = stop /\ opc' = opc
      /\ \A s \in Tasks : status'[s] = IF s = t THEN "done" ELSE status[s]
  BY <1>1 DEF Finish, IInv, TypeOK
<1>3. t \in Running /\ Running' = Running \ {t}
  BY <1>1, <1>2, RunningStatus, RunningStatusNext
<1>4. Finished' = Finished \cup {t}
  BY <1>1, <1>2 DEF Finished
<1>. QED BY <1>1, <1>2, <1>3, <1>4 DEF Abstract!Finish, Running, Finished

\* emplace accepts a task; after the closing only a running task gets there.
LEMMA EmplaceRefines ==
  ASSUME IInv, IInv', NEW c \in Committers, Emplace(c)
  PROVE  \E t \in Tasks : Abstract!Accept(t)
<1>. DEFINE t == arg[c]
<1>1. t \in Tasks /\ status[t] = "offered"
  BY DEF Emplace, IInv, OfferInv
<1>2. /\ tasks' = Append(tasks, t) /\ stop' = stop /\ opc' = opc
      /\ \A s \in Tasks : status'[s] = IF s = t THEN "queued" ELSE status[s]
  BY <1>1 DEF Emplace, Emplaced, IInv, TypeOK
<1>3. Running' = Running /\ Finished' = Finished
  BY <1>1, <1>2, RunningStatus, RunningStatusNext DEF Finished
<1>4. t \notin Abstract!Queued \cup Running \cup Finished
  BY <1>1, RunningStatus DEF Abstract!Queued, Finished, IInv, EachTaskOnce
<1>5. opc # "destroyed"
  BY DEF Emplace, IInv, ControlInv, Committers
<1>6. stop => Running # {}
  <2>1. SUFFICES ASSUME stop PROVE Running # {}
    OBVIOUS
  <2>2. c \in Workers
    BY <2>1 DEF Emplace, IInv, ControlInv, Committers, TypeOK
  <2>3. current[c] # NoTask
    BY <2>2 DEF Emplace, IInv, ControlInv
  <2>. QED BY <2>2, <2>3 DEF Running
<1>. QED BY <1>1, <1>2, <1>3, <1>4, <1>5, <1>6
         DEF Abstract!Accept, Running, Finished

\* Every step of a pool with threads is a step of an executor, or none.
LEMMA StepRefines ==
  ASSUME IInv, IInv', Workers # {}, [Next]_vars
  PROVE  [Abstract!Next]_absVars
<1>1. CASE Constructed \/ NotifyAll
  BY <1>1, StutterRefines DEF Constructed, NotifyAll, Wake, Retired
<1>2. CASE SetStop
  BY <1>2, SetStopRefines DEF Abstract!Next
<1>3. CASE Join
  BY <1>3, JoinRefines DEF Abstract!Next
<1>4. ASSUME NEW w \in Workers, Worker(w) PROVE [Abstract!Next]_absVars
  <2>1. CASE Take(w)
    BY <2>1, TakeRefines DEF Abstract!Next
  <2>2. CASE Finish(w)
    BY <2>2, FinishRefines DEF Abstract!Next
  <2>3. CASE StartWorker(w) \/ Acquire(w) \/ Test(w) \/ Block(w)
             \/ SpuriousWake(w) \/ Exit(w)
    BY <2>3, StutterRefines DEF StartWorker, Acquire, Test, Block, SpuriousWake,
       Exit, Retired
  <2>. QED BY <1>4, <2>1, <2>2, <2>3 DEF Worker
<1>5. ASSUME NEW c \in Committers, Commit(c) PROVE [Abstract!Next]_absVars
  <2>1. ASSUME NEW t \in Tasks, CheckStop(c, t) PROVE UNCHANGED absVars
    <3>1. \A s \in Tasks : status'[s] = status[s] \/
            (status[s] = "new" /\ status'[s] \in {"refused", "offered"})
      BY <2>1 DEF CheckStop, IInv, TypeOK
    <3>. QED BY <2>1, <3>1, StutterRefines DEF CheckStop, Retired
  <2>2. CASE Emplace(c)
    BY <2>2, EmplaceRefines DEF Abstract!Next
  <2>3. CASE CommitLock(c) \/ NotifyOne(c)
    BY <2>3, StutterRefines DEF CommitLock, NotifyOne, Retired
  <2>. QED BY <1>5, <2>1, <2>2, <2>3 DEF Commit
<1>6. CASE UNCHANGED vars
  BY <1>6 DEF vars, absVars, Running, Finished, Retired
<1>. QED BY <1>1, <1>2, <1>3, <1>4, <1>5, <1>6 DEF Next, Owner

\* A pool with threads starts tasks in the order commit_task accepted them,
\* each once, and retires only when everything accepted has finished.
THEOREM Implementation ==
  ASSUME Workers # {}
  PROVE  Spec => ImplementsExecutor
<1>1. IInv /\ IInv' /\ [Next]_vars => [Abstract!Next]_absVars
  BY StepRefines
<1>. QED
  BY <1>1, InitRefines, Invariance, PTL
     DEF Spec, ImplementsExecutor, Abstract!Spec, Abstract!evars, absVars,
         Running, Finished, Retired
=============================================================================
