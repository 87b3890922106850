--------------------------- MODULE SpinLockProofs ---------------------------
(***************************************************************************)
(* The lock excludes, and its acquire/release pair makes a plain counter   *)
(* exact, for every number of threads and rounds.                          *)
(***************************************************************************)
EXTENDS SpinLock, TLAPS

USE SpinAssumption

Inv == TypeOK /\ MutualExclusion /\ NoLostIncrement /\ LinesAreFull

\* Before the threads start, the invariant holds.
LEMMA InitInv == Init => Inv
<1> SUFFICES ASSUME Init PROVE Inv
  OBVIOUS
<1>1. /\ pc \in [Threads -> {"lock"}]
      /\ round \in [Threads -> {0}] /\ view \in [Threads -> {0}]
      /\ printed \in Seq([thread : Threads, newline : BOOLEAN])
  BY DEF Init
<1>2. TypeOK
  BY <1>1 DEF Init, TypeOK
<1>3. MutualExclusion
  BY DEF Init, MutualExclusion, InCritical
<1>4. NoLostIncrement /\ LinesAreFull
  BY DEF Init, NoLostIncrement, LinesAreFull, InCritical
<1>. QED BY <1>2, <1>3, <1>4 DEF Inv

\* test_and_set, whether it wins or not, keeps the invariant.
LEMMA TestAndSetInv ==
  ASSUME Inv, NEW t \in Threads, TestAndSet(t)
  PROVE  Inv'
<1> USE DEF TestAndSet, Inv, Won, Acquired
<1>1. TypeOK'
  BY DEF TypeOK
<1>2. MutualExclusion'
  BY DEF TypeOK, MutualExclusion, InCritical
<1>3. NoLostIncrement'
  BY DEF TypeOK, MutualExclusion, NoLostIncrement, InCritical
<1>4. LinesAreFull'
  BY DEF LinesAreFull
<1>. QED BY <1>1, <1>2, <1>3, <1>4

\* test keeps the invariant.
LEMMA SpinInv ==
  ASSUME Inv, NEW t \in Threads, Spin(t)
  PROVE  Inv'
<1> USE DEF Spin, Inv
<1>1. TypeOK'
  BY DEF TypeOK
<1>2. MutualExclusion'
  BY DEF TypeOK, MutualExclusion, InCritical
<1>3. NoLostIncrement'
  BY DEF TypeOK, NoLostIncrement, InCritical
<1>4. LinesAreFull'
  BY DEF LinesAreFull
<1>. QED BY <1>1, <1>2, <1>3, <1>4

\* The new number is view[t] + 1, and view[t] is what has been printed.
LEMMA CountInv ==
  ASSUME Inv, NEW t \in Threads, Count(t)
  PROVE  Inv'
<1> USE DEF Count, Inv
<1>1. InCritical(t) /\ view[t] = Len(printed) /\ flag
  BY DEF InCritical, NoLostIncrement, MutualExclusion
<1>2. TypeOK'
  BY DEF TypeOK
<1>3. MutualExclusion'
  BY DEF TypeOK, MutualExclusion, InCritical
<1>4. /\ Len(printed') = Len(printed) + 1
      /\ \A n \in 1..Len(printed) : printed'[n] = printed[n]
      /\ printed'[Len(printed) + 1].newline
           = ((Len(printed) + 1) % LineLength = 0)
  BY <1>1 DEF TypeOK
<1>5. NoLostIncrement'
  BY <1>1, <1>4 DEF TypeOK, MutualExclusion, NoLostIncrement, InCritical
<1>6. LinesAreFull'
  <2> SUFFICES ASSUME NEW n \in 1..Len(printed')
               PROVE  printed'[n].newline <=> n % LineLength = 0
    BY DEF LinesAreFull
  <2>1. Len(printed) \in Nat
    BY DEF TypeOK
  <2>2. CASE n \in 1..Len(printed)
    BY <1>4, <2>2 DEF LinesAreFull
  <2>3. CASE n = Len(printed) + 1
    BY <1>4, <2>3
  <2>. QED BY <1>4, <2>1, <2>2, <2>3
<1>. QED BY <1>2, <1>3, <1>5, <1>6

\* clear keeps the invariant and hands the view over.
LEMMA ClearInv ==
  ASSUME Inv, NEW t \in Threads, Clear(t)
  PROVE  Inv'
<1> USE DEF Clear, Inv, Cleared, Released, CountedUp
<1>1. TypeOK'
  <2>1. pc' \in [Threads -> {"lock", "spin", "print", "unlock", "done"}]
    BY DEF TypeOK
  <2>2. round' \in [Threads -> Nat]
    <3>1. round[t] + 1 \in Nat
      BY DEF TypeOK
    <3>. QED BY <3>1 DEF TypeOK
  <2>3. flag' \in BOOLEAN /\ flagView' \in Nat
    BY DEF TypeOK
  <2>. QED BY <2>1, <2>2, <2>3 DEF TypeOK
<1>2. MutualExclusion'
  BY DEF TypeOK, MutualExclusion, InCritical
<1>3. NoLostIncrement'
  BY DEF TypeOK, MutualExclusion, NoLostIncrement, InCritical
<1>4. LinesAreFull'
  BY DEF LinesAreFull
<1>. QED BY <1>1, <1>2, <1>3, <1>4

\* The inductive invariant.
THEOREM Invariance == Spec => []Inv
<1>1. Inv /\ [Next]_vars => Inv'
  <2>1. CASE UNCHANGED vars
    BY <2>1 DEF vars, Inv, TypeOK, MutualExclusion, NoLostIncrement,
       LinesAreFull, InCritical
  <2>. QED BY <2>1, TestAndSetInv, SpinInv, CountInv, ClearInv DEF Next, Step
<1>. QED BY <1>1, InitInv, PTL DEF Spec

\* At most one thread holds the lock.
THEOREM LockExcludes == Spec => []MutualExclusion
<1>1. Inv => MutualExclusion
  BY DEF Inv
<1>. QED BY <1>1, Invariance, PTL

\* Acquire and release on the flag make the plain counter exact.
THEOREM CounterIsExact == Spec => []NoLostIncrement
<1>1. Inv => NoLostIncrement
  BY DEF Inv
<1>. QED BY <1>1, Invariance, PTL

\* So the output is in lines of LineLength numbers.
THEOREM OutputIsInLines == Spec => []LinesAreFull
<1>1. Inv => LinesAreFull
  BY DEF Inv
<1>. QED BY <1>1, Invariance, PTL
=============================================================================
