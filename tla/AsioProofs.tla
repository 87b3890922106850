----------------------------- MODULE AsioProofs -----------------------------
(***************************************************************************)
(* The safety of the examples of net/example, for every number of clients, *)
(* viewers, receivers, threads and functions, and every length and bound.  *)
(*                                                                         *)
(* One invariant per example; none looks at another's variables:           *)
(*   IoInv         a handler is in one place, and of those that count      *)
(*                 one runs at a time                                      *)
(*   DaytimeInv    an accept has one time, and it is for one connection    *)
(*   MulticastInv  what is on its way was sent, and was not printed yet    *)
(*   TcpInv        the five queues between a line and what is read are one *)
(*   UdpInv        a request is in the air, at the server or answered,     *)
(*                 one of these as long as nothing has been doubled        *)
(*                                                                         *)
(* The theorems at the end put them together: a step of one example leaves *)
(* the variables of the others alone.                                      *)
(***************************************************************************)
EXTENDS AsioExamples, SequenceTheorems, TLAPS

-----------------------------------------------------------------------------
(* Sequences, position by position.                                        *)

\* Head and tail of a sequence.
LEMMA Fronts ==
  ASSUME NEW S, NEW s \in Seq(S), s # <<>>
  PROVE  /\ Head(s) = s[1] /\ Head(s) \in S
         /\ 1 \in DOMAIN s /\ Len(s) \in Nat \ {0}
         /\ Tail(s) \in Seq(S) /\ Len(Tail(s)) = Len(s) - 1
         /\ \A i \in DOMAIN Tail(s) : i + 1 \in DOMAIN s /\ Tail(s)[i] = s[i + 1]
         /\ DOMAIN Tail(s) = 1..Len(s) - 1 /\ DOMAIN s = 1..Len(s)
<1>1. Len(s) \in Nat /\ DOMAIN s = 1..Len(s) /\ Len(s) # 0
  BY LenProperties, EmptySeq
<1>2. /\ Head(s) = s[1] /\ Tail(s) \in Seq(S) /\ Len(Tail(s)) = Len(s) - 1
      /\ \A i \in 1..Len(Tail(s)) : Tail(s)[i] = s[i + 1]
  BY HeadTailProperties
<1>3. DOMAIN Tail(s) = 1..Len(s) - 1
  BY <1>1, <1>2, LenProperties
<1>. QED BY <1>1, <1>2, <1>3, ElementOfSeq

\* A sequence with one more element.
LEMMA Appended ==
  ASSUME NEW S, NEW s \in Seq(S), NEW e \in S
  PROVE  /\ Append(s, e) \in Seq(S) /\ Len(Append(s, e)) = Len(s) + 1
         /\ Len(s) \in Nat /\ DOMAIN s = 1..Len(s)
         /\ DOMAIN Append(s, e) = 1..Len(s) + 1
         /\ \A i \in DOMAIN s : Append(s, e)[i] = s[i]
         /\ Append(s, e)[Len(s) + 1] = e
<1>1. Len(s) \in Nat /\ DOMAIN s = 1..Len(s)
  BY LenProperties
<1>2. Append(s, e) \in Seq(S) /\ Len(Append(s, e)) = Len(s) + 1
  BY AppendProperties
<1>3. DOMAIN Append(s, e) = 1..Len(s) + 1
  BY <1>2, LenProperties
<1>. QED BY <1>1, <1>2, <1>3, AppendProperties

Elements(s) == {s[i] : i \in DOMAIN s}

\* s has the numbers that follow n.
Follow(s, n) == \A i \in DOMAIN s : s[i] = n + i

\* The first n elements of a sequence and the others.
LEMMA Cut ==
  ASSUME NEW S, NEW s \in Seq(S), NEW n \in 1..Len(s)
  PROVE  /\ n \in Nat /\ Len(s) \in Nat /\ DOMAIN s = 1..Len(s)
         /\ SubSeq(s, 1, n) \in Seq(S) /\ Len(SubSeq(s, 1, n)) = n
         /\ DOMAIN SubSeq(s, 1, n) = 1..n
         /\ \A i \in 1..n : SubSeq(s, 1, n)[i] = s[i]
         /\ SubSeq(s, n + 1, Len(s)) \in Seq(S)
         /\ Len(SubSeq(s, n + 1, Len(s))) = Len(s) - n
         /\ DOMAIN SubSeq(s, n + 1, Len(s)) = 1..Len(s) - n
         /\ \A i \in 1..Len(s) - n : SubSeq(s, n + 1, Len(s))[i] = s[n + i]
<1>1. /\ n \in Nat /\ Len(s) \in Nat /\ DOMAIN s = 1..Len(s)
      /\ \A i \in 1..Len(s) : s[i] \in S
  BY LenProperties, ElementOfSeq
<1>2. /\ SubSeq(s, 1, n) \in Seq(S) /\ Len(SubSeq(s, 1, n)) = n
      /\ \A i \in 1..n : SubSeq(s, 1, n)[i] = s[i]
  <2>1. /\ SubSeq(s, 1, n) \in Seq(S)
        /\ Len(SubSeq(s, 1, n)) = IF 1 <= n THEN n - 1 + 1 ELSE 0
        /\ \A i \in 1..n - 1 + 1 : SubSeq(s, 1, n)[i] = s[1 + i - 1]
    BY <1>1, SubSeqProperties, 1 \in Int
  <2>. QED BY <1>1, <2>1
<1>3. /\ SubSeq(s, n + 1, Len(s)) \in Seq(S)
      /\ Len(SubSeq(s, n + 1, Len(s))) = Len(s) - n
      /\ \A i \in 1..Len(s) - n : SubSeq(s, n + 1, Len(s))[i] = s[n + i]
  <2> DEFINE m == n + 1
  <2>1. m \in Int /\ Len(s) \in Int /\ \A i \in m..Len(s) : s[i] \in S
    BY <1>1
  <2>2. /\ SubSeq(s, m, Len(s)) \in Seq(S)
        /\ Len(SubSeq(s, m, Len(s))) = IF m <= Len(s) THEN Len(s) - m + 1 ELSE 0
        /\ \A i \in 1..Len(s) - m + 1 : SubSeq(s, m, Len(s))[i] = s[m + i - 1]
    <3> HIDE DEF m
    <3>. QED BY <2>1, SubSeqProperties
  <2>3. /\ Len(s) - m + 1 = Len(s) - n
        /\ (IF m <= Len(s) THEN Len(s) - m + 1 ELSE 0) = Len(s) - n
        /\ \A i \in 1..Len(s) - n : m + i - 1 = n + i
    <3>1. n \in Nat /\ Len(s) \in Nat /\ n <= Len(s) /\ m = n + 1
      BY <1>1
    <3> HIDE DEF m
    <3>. QED BY ONLY <3>1
  <2>. QED BY <2>2, <2>3
<1>. QED BY <1>1, <1>2, <1>3, LenProperties

\* Two sequences, one after the other.
LEMMA Joined ==
  ASSUME NEW S, NEW s \in Seq(S), NEW t \in Seq(S)
  PROVE  /\ s \o t \in Seq(S) /\ Len(s \o t) = Len(s) + Len(t)
         /\ Len(s) \in Nat /\ Len(t) \in Nat
         /\ DOMAIN s = 1..Len(s) /\ DOMAIN t = 1..Len(t)
         /\ DOMAIN (s \o t) = 1..Len(s) + Len(t)
         /\ \A i \in DOMAIN s : (s \o t)[i] = s[i]
         /\ \A i \in DOMAIN (s \o t) : i \in DOMAIN s
              \/ (i - Len(s) \in DOMAIN t /\ (s \o t)[i] = t[i - Len(s)])
<1>1. /\ Len(s) \in Nat /\ Len(t) \in Nat
      /\ DOMAIN s = 1..Len(s) /\ DOMAIN t = 1..Len(t)
  BY LenProperties
<1>2. /\ s \o t \in Seq(S) /\ Len(s \o t) = Len(s) + Len(t)
      /\ \A i \in 1..Len(s) + Len(t) :
           (s \o t)[i] = IF i <= Len(s) THEN s[i] ELSE t[i - Len(s)]
  BY ConcatProperties
<1>3. DOMAIN (s \o t) = 1..Len(s) + Len(t)
  BY <1>2, LenProperties
<1>4. \A i \in DOMAIN s : (s \o t)[i] = s[i]
  BY <1>1, <1>2
<1>5. \A i \in DOMAIN (s \o t) : i \in DOMAIN s
        \/ (i - Len(s) \in DOMAIN t /\ (s \o t)[i] = t[i - Len(s)])
  BY <1>1, <1>2, <1>3
<1>. QED BY <1>1, <1>2, <1>3, <1>4, <1>5

\* Some elements from the front of s are moved to the end of t: the sequences
\* have the elements they had, and if t went on in s it still does.
LEMMA Moved ==
  ASSUME NEW S, NEW s \in Seq(S), NEW t \in Seq(S), NEW n \in 1..Len(s)
  PROVE  LET front == t \o SubSeq(s, 1, n)
             rest == SubSeq(s, n + 1, Len(s))
         IN  /\ front \in Seq(S) /\ rest \in Seq(S)
             /\ Len(s) \in Nat /\ Len(t) \in Nat /\ n \in Nat
             /\ Len(front) = Len(t) + n /\ Len(rest) = Len(s) - n
             /\ Elements(front) \subseteq Elements(t) \cup Elements(s)
             /\ Elements(rest) \subseteq Elements(s)
             /\ \A k \in Nat :
                  /\ Follow(t, k) /\ Follow(s, k + Len(t)) => Follow(front, k)
                  /\ Follow(s, k) => Follow(rest, k + n)
<1> DEFINE
  head == SubSeq(s, 1, n)
  front == t \o head
  rest == SubSeq(s, n + 1, Len(s))
<1>1. /\ n \in Nat /\ Len(s) \in Nat /\ DOMAIN s = 1..Len(s)
      /\ head \in Seq(S) /\ Len(head) = n /\ DOMAIN head = 1..n
      /\ \A i \in 1..n : head[i] = s[i]
      /\ rest \in Seq(S) /\ Len(rest) = Len(s) - n
      /\ DOMAIN rest = 1..Len(s) - n
      /\ \A i \in 1..Len(s) - n : rest[i] = s[n + i]
  BY Cut
<1> HIDE DEF head, rest
<1>2. /\ t \o head \in Seq(S) /\ Len(t \o head) = Len(t) + Len(head)
      /\ Len(t) \in Nat /\ DOMAIN t = 1..Len(t)
      /\ \A i \in DOMAIN t : (t \o head)[i] = t[i]
      /\ \A i \in DOMAIN (t \o head) : i \in DOMAIN t
           \/ (i - Len(t) \in DOMAIN head /\ (t \o head)[i] = head[i - Len(t)])
      /\ DOMAIN (t \o head) = 1..Len(t) + Len(head)
  <2>1. head \in Seq(S)
    BY <1>1
  <2>. QED BY ONLY t \in Seq(S), <2>1, Joined
<1>3. /\ front \in Seq(S) /\ Len(front) = Len(t) + n
      /\ Len(t) \in Nat /\ DOMAIN t = 1..Len(t)
      /\ \A i \in DOMAIN t : front[i] = t[i]
      /\ \A i \in DOMAIN front : i \in DOMAIN t
           \/ (i - Len(t) \in DOMAIN head /\ front[i] = head[i - Len(t)])
      /\ DOMAIN front = 1..Len(t) + n
  BY <1>1, <1>2
<1> HIDE DEF front
<1>4. \A i \in DOMAIN front :
        \/ i \in DOMAIN t /\ front[i] = t[i]
        \/ i - Len(t) \in DOMAIN s /\ front[i] = s[i - Len(t)]
  <2>1. \A j \in DOMAIN head : j \in DOMAIN s /\ head[j] = s[j]
    BY <1>1
  <2>. QED BY ONLY <1>3, <2>1
<1>5. \A i \in DOMAIN rest : n + i \in DOMAIN s /\ rest[i] = s[n + i]
  BY <1>1
<1>6. /\ Elements(front) \subseteq Elements(t) \cup Elements(s)
      /\ Elements(rest) \subseteq Elements(s)
  BY <1>4, <1>5 DEF Elements
<1>7. ASSUME NEW k \in Nat, Follow(t, k), Follow(s, k + Len(t)) PROVE Follow(front, k)
  <2>1. ASSUME NEW i \in DOMAIN front PROVE front[i] = k + i
    <3>1. i \in Nat /\ Len(t) \in Nat /\ k \in Nat
      BY <1>1, <1>3
    <3>2. \A j \in DOMAIN s : s[j] = k + Len(t) + j
      BY <1>7 DEF Follow
    <3>3. \A j \in DOMAIN t : t[j] = k + j
      BY <1>7 DEF Follow
    <3>4. CASE i \in DOMAIN t /\ front[i] = t[i]
      BY <3>3, <3>4
    <3>5. CASE i - Len(t) \in DOMAIN s /\ front[i] = s[i - Len(t)]
      <4>1. front[i] = k + Len(t) + (i - Len(t))
        BY <3>2, <3>5
      <4>. QED BY ONLY <3>1, <4>1
    <3>. QED BY <1>4, <3>4, <3>5
  <2>. QED BY <2>1 DEF Follow
<1>8. ASSUME NEW k \in Nat, Follow(s, k) PROVE Follow(rest, k + n)
  <2>1. ASSUME NEW i \in DOMAIN rest PROVE rest[i] = (k + n) + i
    <3>1. i \in Nat /\ n \in Nat /\ k \in Nat
      BY <1>1
    <3>2. rest[i] = k + (n + i)
      BY <1>5, <1>8 DEF Follow
    <3>. QED BY ONLY <3>1, <3>2
  <2>. QED BY <2>1 DEF Follow
<1>. QED BY <1>1, <1>3, <1>6, <1>7, <1>8 DEF front, rest, head

-----------------------------------------------------------------------------
(* Handlers on an io_context: first the inductive invariant behind         *)
(* NoCountLost.                                                            *)

Counting == program \in {"strand", "timer"}

Queued(h) == \E i \in DOMAIN ready : ready[i] = h
Somewhere(h) == h \in waiting \/ Queued(h) \/ \E t \in Threads : handler[t] = h

\* What a thread does, it does with a handler of that kind, and a thread that
\* has returned has left nothing behind.
ThreadsInv ==
  \A t \in Threads :
    /\ tpc[t] \in {"none", "run", "returned"} => handler[t] = Idle
    /\ tpc[t] \in {"test", "print", "load", "store", "wait"} => handler[t] \in Timers
    /\ tpc[t] = "work" => handler[t] \in 1..Posted
    /\ t \notin Runners(program) => tpc[t] = "none"
    /\ tpc[t] = "returned" =>
         waiting = {} /\ ready = <<>> /\ \A o \in Threads : ~Executing(o)

\* A program has handlers of one kind, and counts in one of them at a time.
ProgramInv ==
  /\ program = "post" =>
       /\ waiting = {}
       /\ \A i \in DOMAIN ready : ready[i] \in 1..Posted
       /\ \A t \in Threads : handler[t] \notin Timers
  /\ program # "post" =>
       /\ \A i \in DOMAIN ready : ready[i] \in Timers
       /\ \A t \in Threads : handler[t] \in Timers \cup {Idle}
       /\ \A t, o \in Threads : Executing(t) /\ Executing(o) => t = o

\* A function is queued, in the hands of one thread, or has run.
PostedInv ==
  /\ \A i, j \in DOMAIN ready : ready[i] \in 1..Posted /\ ready[i] = ready[j] => i = j
  /\ \A t, o \in Threads : handler[t] \in 1..Posted /\ handler[t] = handler[o] => t = o
  /\ \A t \in Threads : handler[t] \in 1..Posted => ~Queued(handler[t])
  /\ \A n \in 1..Posted :
       /\ ran[n] <= 1
       /\ ran[n] = 1 => ~Somewhere(n)
       /\ program = "post" /\ ran[n] = 0 => Somewhere(n)

\* The numbers printed are those counted, and one more between the line and
\* the store; as long as the limit is not reached a timer will see to the next.
CountingInv ==
  /\ count_ <= Limit
  /\ \A t \in Threads :
       /\ tpc[t] \in {"print", "load", "store"} => count_ < Limit
       /\ tpc[t] = "store" => loaded[t] = count_
       /\ tpc[t] \in {"load", "store"} => Len(printed) = count_ + 1
  /\ (\A t \in Threads : tpc[t] \notin {"load", "store"}) => Len(printed) = count_
  /\ \A i \in DOMAIN printed : printed[i] = i - 1
  /\ Counting /\ count_ < Limit => Somewhere(Timer1)

IoInv == IoTypeOK /\ ThreadsInv /\ ProgramInv /\ PostedInv /\ CountingInv

\* The kinds of handlers are told apart.
LEMMA HandlerKinds ==
  /\ Timers \cap 1..Posted = {} /\ Idle \notin Timers /\ Idle \notin 1..Posted
  /\ Limit \in Nat
BY IoAssumption DEF Timers, Limit

\* The next handler is taken from the front of ready.
LEMMA TakeMoves ==
  ASSUME IoTypeOK, NEW t \in Threads, Take(t)
  PROVE  /\ ready # <<>> /\ 1 \in DOMAIN ready
         /\ ready[1] \in Timers \cup 1..Posted
         /\ handler' = [handler EXCEPT ![t] = ready[1]]
         /\ tpc' = [tpc EXCEPT ![t] = IF ready[1] \in Timers THEN "test" ELSE "work"]
         /\ Len(ready) \in Nat /\ DOMAIN ready = 1..Len(ready)
         /\ DOMAIN ready' = 1..Len(ready) - 1
         /\ ready' \in Seq(Timers \cup 1..Posted)
         /\ \A i \in DOMAIN ready' : i + 1 \in DOMAIN ready /\ ready'[i] = ready[i + 1]
         /\ tpc[t] = "run" /\ StrandFree(program)
         /\ UNCHANGED <<program, loaded, waiting, count_, printed, ran>>
<1>1. ready \in Seq(Timers \cup 1..Posted) /\ ready # <<>>
  BY DEF IoTypeOK, Take
<1>2. /\ Head(ready) = ready[1] /\ Head(ready) \in Timers \cup 1..Posted
      /\ 1 \in DOMAIN ready
      /\ Len(ready) \in Nat /\ DOMAIN ready = 1..Len(ready)
      /\ DOMAIN Tail(ready) = 1..Len(ready) - 1
      /\ Tail(ready) \in Seq(Timers \cup 1..Posted)
      /\ \A i \in DOMAIN Tail(ready) : i + 1 \in DOMAIN ready /\ Tail(ready)[i] = ready[i + 1]
  BY <1>1, Fronts
<1>3. /\ handler' = [handler EXCEPT ![t] = Head(ready)] /\ ready' = Tail(ready)
      /\ tpc' = [tpc EXCEPT ![t] = IF Head(ready) \in Timers THEN "test" ELSE "work"]
      /\ tpc[t] = "run" /\ StrandFree(program)
      /\ UNCHANGED <<program, loaded, waiting, count_, printed, ran>>
  BY DEF Take, Goes
<1>. QED BY <1>1, <1>2, <1>3

\* An expired timer is put at its end.
LEMMA ExpireMoves ==
  ASSUME IoTypeOK, NEW timer \in Timers, Expire(timer)
  PROVE  /\ timer \in waiting /\ waiting' = waiting \ {timer}
         /\ Len(ready) \in Nat /\ DOMAIN ready = 1..Len(ready)
         /\ DOMAIN ready' = 1..Len(ready) + 1
         /\ ready' \in Seq(Timers \cup 1..Posted)
         /\ \A i \in DOMAIN ready : ready'[i] = ready[i]
         /\ ready'[Len(ready) + 1] = timer
         /\ UNCHANGED <<program, tpc, handler, loaded, count_, printed, ran>>
BY Appended DEF Expire, IoTypeOK

\* A line is printed after those before.
LEMMA PrintMoves ==
  ASSUME IoTypeOK, NEW t \in Threads, PrintLine(t)
  PROVE  /\ tpc[t] = "print" /\ tpc' = [tpc EXCEPT ![t] = "load"]
         /\ Len(printed) \in Nat /\ DOMAIN printed = 1..Len(printed)
         /\ Len(printed') = Len(printed) + 1
         /\ DOMAIN printed' = 1..Len(printed) + 1
         /\ printed' \in Seq(Nat)
         /\ \A i \in DOMAIN printed : printed'[i] = printed[i]
         /\ printed'[Len(printed) + 1] = count_
         /\ UNCHANGED <<program, handler, loaded, waiting, ready, count_, ran>>
BY Appended DEF PrintLine, Goes, IoTypeOK

\* A step of a thread leaves the others where they are, with what they have.
LEMMA OthersStay ==
  ASSUME IoTypeOK, NEW t \in Threads, ThreadStep(t)
  PROVE  /\ program' = program
         /\ \A o \in Threads \ {t} : /\ tpc'[o] = tpc[o]
                                     /\ handler'[o] = handler[o]
                                     /\ loaded'[o] = loaded[o]
<1> USE DEF IoTypeOK, Goes, GoesOn
<1>1. CASE Take(t)
  BY <1>1, TakeMoves
<1>2. CASE Return(t)
  BY <1>2 DEF Return
<1>3. CASE Test(t)
  BY <1>3 DEF Test
<1>4. CASE PrintLine(t)
  BY <1>4, PrintMoves
<1>5. CASE Load(t)
  BY <1>5 DEF Load
<1>6. CASE Store(t)
  BY <1>6 DEF Store
<1>7. CASE WaitAgain(t)
  BY <1>7 DEF WaitAgain
<1>8. CASE working_func(t)
  BY <1>8 DEF working_func
<1>. QED BY <1>1, <1>2, <1>3, <1>4, <1>5, <1>6, <1>7, <1>8 DEF ThreadStep

\* What the steps do to the thread that takes them and to the rest.
LEMMA OwnMoves ==
  ASSUME IoTypeOK, NEW t \in Threads
  PROVE  /\ Take(t) => handler'[t] = ready[1] /\ tpc'[t] \in {"test", "work"}
                       /\ loaded'[t] = loaded[t]
         /\ Return(t) => /\ tpc'[t] = "returned"
                         /\ UNCHANGED <<handler, loaded, waiting, ready, count_,
                                        printed, ran>>
         /\ Test(t) => /\ tpc[t] = "test"
                       /\ \/ count_ < Limit /\ tpc'[t] = "print" /\ handler' = handler
                          \/ count_ >= Limit /\ tpc'[t] = "run" /\ handler'[t] = Idle
                       /\ UNCHANGED <<loaded, waiting, ready, count_, printed, ran>>
         /\ PrintLine(t) => /\ tpc[t] = "print" /\ tpc'[t] = "load"
                            /\ UNCHANGED <<handler, loaded, waiting, ready, count_, ran>>
         /\ Load(t) => /\ tpc[t] = "load" /\ tpc'[t] = "store" /\ loaded'[t] = count_
                       /\ UNCHANGED <<handler, waiting, ready, count_, printed, ran>>
         /\ Store(t) => /\ tpc[t] = "store" /\ tpc'[t] = "wait"
                        /\ count_' = loaded[t] + 1
                        /\ UNCHANGED <<handler, waiting, ready, printed, ran>>
         /\ WaitAgain(t) => /\ tpc[t] = "wait" /\ tpc'[t] = "run" /\ handler'[t] = Idle
                            /\ waiting' = waiting \cup {handler[t]}
                            /\ UNCHANGED <<loaded, ready, count_, printed, ran>>
         /\ working_func(t) => /\ tpc[t] = "work" /\ tpc'[t] = "run"
                               /\ handler'[t] = Idle
                               /\ UNCHANGED <<loaded, waiting, ready, count_, printed>>
<1> USE DEF IoTypeOK, Goes, GoesOn
<1>1. Take(t) => handler'[t] = ready[1] /\ tpc'[t] \in {"test", "work"}
                 /\ loaded'[t] = loaded[t]
  BY TakeMoves
<1>2. Return(t) => /\ tpc'[t] = "returned"
                   /\ UNCHANGED <<handler, loaded, waiting, ready, count_,
                                  printed, ran>>
  BY DEF Return
<1>3. Test(t) => /\ tpc[t] = "test"
                 /\ \/ count_ < Limit /\ tpc'[t] = "print" /\ handler' = handler
                    \/ count_ >= Limit /\ tpc'[t] = "run" /\ handler'[t] = Idle
                 /\ UNCHANGED <<loaded, waiting, ready, count_, printed, ran>>
  BY HandlerKinds DEF Test
<1>4. PrintLine(t) => /\ tpc[t] = "print" /\ tpc'[t] = "load"
                      /\ UNCHANGED <<handler, loaded, waiting, ready, count_, ran>>
  BY DEF PrintLine
<1>5. Load(t) => /\ tpc[t] = "load" /\ tpc'[t] = "store" /\ loaded'[t] = count_
                 /\ UNCHANGED <<handler, waiting, ready, count_, printed, ran>>
  BY DEF Load
<1>6. Store(t) => /\ tpc[t] = "store" /\ tpc'[t] = "wait"
                  /\ count_' = loaded[t] + 1
                  /\ UNCHANGED <<handler, waiting, ready, printed, ran>>
  BY DEF Store
<1>7. WaitAgain(t) => /\ tpc[t] = "wait" /\ tpc'[t] = "run" /\ handler'[t] = Idle
                      /\ waiting' = waiting \cup {handler[t]}
                      /\ UNCHANGED <<loaded, ready, count_, printed, ran>>
  BY DEF WaitAgain
<1>8. working_func(t) => /\ tpc[t] = "work" /\ tpc'[t] = "run"
                         /\ handler'[t] = Idle
                         /\ UNCHANGED <<loaded, waiting, ready, count_, printed>>
  BY DEF working_func
<1>. QED BY <1>1, <1>2, <1>3, <1>4, <1>5, <1>6, <1>7, <1>8

\* The variables keep their types.
LEMMA IoTypeStep ==
  ASSUME IoTypeOK, ThreadsInv, [IoNext]_ioVars
  PROVE  IoTypeOK'
<1> USE HandlerKinds DEF IoTypeOK, Goes, GoesOn
<1>1. ASSUME NEW timer \in Timers, Expire(timer) PROVE IoTypeOK'
  BY <1>1, ExpireMoves
<1>2. ASSUME NEW t \in Threads, ThreadStep(t) PROVE IoTypeOK'
  <2>1. CASE Take(t)
    BY <2>1, TakeMoves, ZenonT(40)
  <2>2. CASE Return(t)
    BY <2>2 DEF Return
  <2>3. CASE Test(t)
    BY <2>3 DEF Test
  <2>4. CASE PrintLine(t)
    BY <2>4, PrintMoves
  <2>5. CASE Load(t)
    BY <2>5 DEF Load
  <2>6. CASE Store(t)
    BY <2>6 DEF Store
  <2>7. CASE WaitAgain(t)
    BY <2>7 DEF WaitAgain, ThreadsInv
  <2>8. CASE working_func(t)
    BY <2>8 DEF working_func, ThreadsInv
  <2>. QED BY <1>2, <2>1, <2>2, <2>3, <2>4, <2>5, <2>6, <2>7, <2>8 DEF ThreadStep
<1>3. CASE UNCHANGED ioVars
  BY <1>3 DEF ioVars
<1>. QED BY <1>1, <1>2, <1>3 DEF IoNext

\* What each thread does fits what it has in its hands.
LEMMA ThreadsStep ==
  ASSUME IoTypeOK, ThreadsInv, [IoNext]_ioVars
  PROVE  ThreadsInv'
<1> USE HandlerKinds DEF IoTypeOK, ThreadsInv, Goes, GoesOn, Executing
<1>1. ASSUME NEW timer \in Timers, Expire(timer) PROVE ThreadsInv'
  BY <1>1, ExpireMoves
<1>2. ASSUME NEW t \in Threads, ThreadStep(t) PROVE ThreadsInv'
  <2>1. CASE Take(t)
    <3> USE <2>1, TakeMoves
    <3>1. \A o \in Threads : tpc[o] # "returned" /\ tpc'[o] # "returned"
      BY ZenonT(40)
    <3>2. \A o \in Threads \ {t} : tpc'[o] = tpc[o] /\ handler'[o] = handler[o]
      OBVIOUS
    <3>3. /\ handler'[t] = ready[1] /\ t \in Runners(program)
          /\ tpc'[t] = IF ready[1] \in Timers THEN "test" ELSE "work"
      OBVIOUS
    <3>. QED BY <3>1, <3>2, <3>3, SMTT(20)
  <2>2. CASE Return(t)
    BY <2>2 DEF Return
  <2>3. CASE Test(t)
    BY <2>3 DEF Test
  <2>4. CASE PrintLine(t)
    BY <2>4, PrintMoves, SMTT(20)
  <2>5. CASE Load(t)
    BY <2>5 DEF Load
  <2>6. CASE Store(t)
    BY <2>6 DEF Store
  <2>7. CASE WaitAgain(t)
    BY <2>7 DEF WaitAgain
  <2>8. CASE working_func(t)
    BY <2>8 DEF working_func
  <2>. QED BY <1>2, <2>1, <2>2, <2>3, <2>4, <2>5, <2>6, <2>7, <2>8 DEF ThreadStep
<1>3. CASE UNCHANGED ioVars
  BY <1>3 DEF ioVars
<1>. QED BY <1>1, <1>2, <1>3 DEF IoNext

\* The handlers stay of their kind, and those that count apart.
LEMMA ProgramStep ==
  ASSUME IoTypeOK, ThreadsInv, ProgramInv, [IoNext]_ioVars
  PROVE  ProgramInv'
<1> USE HandlerKinds DEF ProgramInv, Executing
<1>1. ASSUME NEW timer \in Timers, Expire(timer) PROVE ProgramInv'
  <2> USE <1>1, ExpireMoves
  <2>1. program # "post"
    OBVIOUS
  <2>2. \A i \in DOMAIN ready' : ready'[i] \in Timers
    BY <2>1
  <2>. QED BY <2>1, <2>2
<1>2. ASSUME NEW t \in Threads, ThreadStep(t) PROVE ProgramInv'
  <2> USE <1>2, OthersStay, OwnMoves
  <2>1. CASE Take(t)
    <3> USE <2>1, TakeMoves
    <3>1. ASSUME program # "post", NEW o \in Threads \ {t} PROVE ~Executing(o)
      <4>1. CASE program = "strand"
        BY <4>1 DEF StrandFree
      <4>2. CASE program # "strand"
        BY <3>1, <4>2 DEF ThreadsInv, Runners
      <4>. QED BY <4>1, <4>2
    <3>2. program = "post" => /\ waiting' = {}
                              /\ \A i \in DOMAIN ready' : ready'[i] \in 1..Posted
                              /\ \A o \in Threads : handler'[o] \notin Timers
      OBVIOUS
    <3>3. program # "post" => /\ \A i \in DOMAIN ready' : ready'[i] \in Timers
                              /\ \A o \in Threads : handler'[o] \in Timers \cup {Idle}
      OBVIOUS
    <3>4. program # "post" =>
            \A u, o \in Threads : handler'[u] # Idle /\ handler'[o] # Idle => u = o
      BY <3>1
    <3>. QED BY <3>2, <3>3, <3>4
  <2>2. CASE Return(t)
    BY <2>2
  <2>3. CASE Test(t)
    BY <2>3
  <2>4. CASE PrintLine(t)
    BY <2>4, PrintMoves
  <2>5. CASE Load(t)
    BY <2>5
  <2>6. CASE Store(t)
    BY <2>6
  <2>7. CASE WaitAgain(t)
    <3>1. handler[t] \in Timers /\ program # "post"
      BY <2>7 DEF ThreadsInv
    <3>. QED BY <2>7, <3>1
  <2>8. CASE working_func(t)
    BY <2>8
  <2>. QED BY <2>1, <2>2, <2>3, <2>4, <2>5, <2>6, <2>7, <2>8 DEF ThreadStep
<1>3. CASE UNCHANGED ioVars
  BY <1>3 DEF ioVars
<1>. QED BY <1>1, <1>2, <1>3 DEF IoNext

\* Each function is in one place, and counted when it has run.
LEMMA PostedStep ==
  ASSUME IoTypeOK, ThreadsInv, ProgramInv, PostedInv, [IoNext]_ioVars
  PROVE  PostedInv'
<1> USE HandlerKinds DEF PostedInv, Queued, Somewhere
<1>0. \A t \in Threads : handler[t] \in Timers \cup 1..Posted \cup {Idle}
  BY DEF IoTypeOK
<1>1. ASSUME NEW timer \in Timers, Expire(timer) PROVE PostedInv'
  <2> USE <1>1, ExpireMoves
  <2>1. \A n \in 1..Posted : (\E i \in DOMAIN ready' : ready'[i] = n)
                               <=> \E i \in DOMAIN ready : ready[i] = n
    OBVIOUS
  <2>2. \A i, j \in DOMAIN ready' : ready'[i] \in 1..Posted /\ ready'[i] = ready'[j] => i = j
    OBVIOUS
  <2>3. \A n \in 1..Posted : n \in waiting' <=> n \in waiting
    OBVIOUS
  <2>. QED BY <2>1, <2>2, <2>3
<1>2. ASSUME NEW t \in Threads, ThreadStep(t) PROVE PostedInv'
  <2> USE <1>2, OthersStay, OwnMoves
  <2>1. CASE Take(t)
    <3> USE <2>1, TakeMoves
    <3>1. handler[t] = Idle /\ handler'[t] = ready[1]
      BY DEF ThreadsInv
    <3>2. \A i, j \in DOMAIN ready' : ready'[i] \in 1..Posted /\ ready'[i] = ready'[j] => i = j
      OBVIOUS
    <3>3. ready[1] \in 1..Posted => \A i \in DOMAIN ready' : ready'[i] # ready[1]
      OBVIOUS
    <3>4. \A n : (\E i \in DOMAIN ready : ready[i] = n)
                   <=> n = ready[1] \/ \E i \in DOMAIN ready' : ready'[i] = n
      <4>1. \A i \in DOMAIN ready : i = 1 \/ i - 1 \in DOMAIN ready'
        OBVIOUS
      <4>2. \A i \in DOMAIN ready : i = 1 \/ ready[i] = ready'[i - 1]
        BY <4>1
      <4>. QED BY <4>1, <4>2
    <3>5. \A u, o \in Threads : handler'[u] \in 1..Posted /\ handler'[u] = handler'[o] => u = o
      BY <3>1
    <3>6. \A o \in Threads : handler'[o] \in 1..Posted =>
            ~\E i \in DOMAIN ready' : ready'[i] = handler'[o]
      BY <3>1, <3>3, <3>4
    <3>7. \A n \in 1..Posted : (\E o \in Threads : handler'[o] = n)
                                 <=> n = ready[1] \/ \E o \in Threads : handler[o] = n
      BY <3>1
    <3>8. \A n \in 1..Posted : Somewhere(n)' <=> Somewhere(n)
      BY <3>4, <3>7, Zenon
    <3>9. UNCHANGED <<ran, program>>
      OBVIOUS
    <3>10. \A n \in 1..Posted :
             /\ ran'[n] <= 1
             /\ ran'[n] = 1 => ~Somewhere(n)'
             /\ program' = "post" /\ ran'[n] = 0 => Somewhere(n)'
      BY ONLY PostedInv, <3>8, <3>9 DEF PostedInv
    <3>. QED BY ONLY <3>2, <3>5, <3>6, <3>10 DEF PostedInv, Queued
  <2>2. CASE Return(t)
    BY <2>2
  <2>3. CASE Test(t)
    <3>1. handler[t] \in Timers
      BY <2>3 DEF ThreadsInv
    <3>. QED BY <2>3, <3>1
  <2>4. CASE PrintLine(t)
    BY <2>4
  <2>5. CASE Load(t)
    BY <2>5
  <2>6. CASE Store(t)
    BY <2>6
  <2>7. CASE WaitAgain(t)
    <3>1. handler[t] \in Timers
      BY <2>7 DEF ThreadsInv
    <3>2. \A n \in 1..Posted : n \in waiting' <=> n \in waiting
      BY <2>7, <3>1
    <3>. QED BY <2>7, <3>1, <3>2
  <2>8. CASE working_func(t)
    <3>1. handler[t] \in 1..Posted
      BY <2>8 DEF ThreadsInv
    <3>2. ran' = [ran EXCEPT ![handler[t]] = @ + 1] /\ ran \in [1..Posted -> Nat]
      BY <2>8 DEF working_func, IoTypeOK
    <3>3. ran[handler[t]] = 0
      BY <3>1, <3>2
    <3>4. /\ ran'[handler[t]] = 1
          /\ \A n \in 1..Posted \ {handler[t]} : ran'[n] = ran[n]
      BY <3>1, <3>2, <3>3
    <3>5. \A n \in 1..Posted : n = handler[t] => ~Somewhere(n)'
      <4>1. handler[t] \notin waiting
        BY <3>1 DEF IoTypeOK
      <4>. QED BY <2>8, <3>1, <4>1
    <3>6. \A n \in 1..Posted : n # handler[t] => (Somewhere(n)' <=> Somewhere(n))
      BY <2>8
    <3>7. \A u, o \in Threads : handler'[u] \in 1..Posted /\ handler'[u] = handler'[o] => u = o
      BY <2>8
    <3>8. \A o \in Threads : handler'[o] \in 1..Posted =>
            ~\E i \in DOMAIN ready' : ready'[i] = handler'[o]
      BY <2>8
    <3>. QED BY <2>8, <3>4, <3>5, <3>6, <3>7, <3>8
  <2>. QED BY <2>1, <2>2, <2>3, <2>4, <2>5, <2>6, <2>7, <2>8 DEF ThreadStep
<1>3. CASE UNCHANGED ioVars
  BY <1>3 DEF ioVars
<1>. QED BY <1>1, <1>2, <1>3 DEF IoNext

\* A timer is waited for again, unless the limit is reached.
LEMMA TimerStays ==
  ASSUME IoTypeOK, ThreadsInv, [IoNext]_ioVars, Somewhere(Timer1)
  PROVE  Somewhere(Timer1)' \/ (count_ >= Limit /\ count_' = count_)
<1> USE HandlerKinds DEF Somewhere, Queued
<1>1. ASSUME NEW timer \in Timers, Expire(timer) PROVE Somewhere(Timer1)'
  <2> USE <1>1, ExpireMoves
  <2>1. CASE Timer1 \in waiting
    <3>1. Len(ready) + 1 \in DOMAIN ready'
      OBVIOUS
    <3>. QED BY <2>1, <3>1
  <2>2. CASE \E i \in DOMAIN ready : ready[i] = Timer1
    <3>1. DOMAIN ready \subseteq DOMAIN ready'
      OBVIOUS
    <3>. QED BY <2>2, <3>1
  <2>. QED BY <2>1, <2>2
<1>2. ASSUME NEW t \in Threads, ThreadStep(t)
      PROVE  Somewhere(Timer1)' \/ (count_ >= Limit /\ count_' = count_)
  <2> USE <1>2, OthersStay, OwnMoves
  <2>1. CASE Take(t)
    <3> USE <2>1, TakeMoves
    <3>1. handler[t] = Idle /\ handler'[t] = ready[1]
      BY DEF ThreadsInv
    <3>2. \A i \in DOMAIN ready : i = 1 \/ i - 1 \in DOMAIN ready'
      OBVIOUS
    <3>3. \A i \in DOMAIN ready : i = 1 \/ ready[i] = ready'[i - 1]
      BY <3>2
    <3>4. Timer1 # Idle
      BY DEF Timers
    <3>5. CASE Timer1 \in waiting
      BY <3>5
    <3>6. CASE \E i \in DOMAIN ready : ready[i] = Timer1
      <4>1. handler'[t] = Timer1 \/ \E i \in DOMAIN ready' : ready'[i] = Timer1
        BY ONLY <3>1, <3>2, <3>3, <3>6
      <4>. QED BY ONLY <4>1, t \in Threads DEF Somewhere, Queued
    <3>7. CASE \E o \in Threads : handler[o] = Timer1
      BY <3>1, <3>4, <3>7
    <3>. QED BY <3>5, <3>6, <3>7
  <2>2. CASE Return(t)
    BY <2>2
  <2>3. CASE Test(t)
    BY <2>3
  <2>4. CASE PrintLine(t)
    BY <2>4
  <2>5. CASE Load(t)
    BY <2>5
  <2>6. CASE Store(t)
    BY <2>6
  <2>7. CASE WaitAgain(t)
    BY <2>7
  <2>8. CASE working_func(t)
    <3>1. handler[t] # Timer1
      BY <2>8 DEF ThreadsInv, Timers
    <3>. QED BY <2>8, <3>1
  <2>. QED BY <2>1, <2>2, <2>3, <2>4, <2>5, <2>6, <2>7, <2>8 DEF ThreadStep
<1>3. CASE UNCHANGED ioVars
  BY <1>3 DEF ioVars
<1>. QED BY <1>1, <1>2, <1>3 DEF IoNext

\* A thread that counts is the only one.
LEMMA CountsAlone ==
  ASSUME IoTypeOK, ThreadsInv, ProgramInv, NEW t \in Threads,
         tpc[t] \in {"test", "print", "load", "store", "wait"},
         NEW o \in Threads \ {t}
  PROVE  tpc[o] \in {"none", "run", "returned"}
<1>1. handler[t] \in Timers /\ handler[t] # Idle
  BY HandlerKinds DEF ThreadsInv
<1>2. program # "post" /\ handler[o] = Idle
  BY <1>1 DEF ProgramInv, Executing
<1>. QED BY <1>2, HandlerKinds DEF ThreadsInv, IoTypeOK

\* No number is lost between the line and the store.
LEMMA CountingStep ==
  ASSUME IoTypeOK, ThreadsInv, ProgramInv, CountingInv, [IoNext]_ioVars
  PROVE  CountingInv'
<1> DEFINE
  Amid(t) == tpc[t] \in {"load", "store"}
  Numbers == \A i \in DOMAIN printed : printed[i] = i - 1
  Aware(t) ==
    /\ tpc[t] \in {"print", "load", "store"} => count_ < Limit
    /\ tpc[t] = "store" => loaded[t] = count_
    /\ Amid(t) => Len(printed) = count_ + 1
  Caught == (\A t \in Threads : ~Amid(t)) => Len(printed) = count_
\* How the numbers are counted, and that a timer is there, are shown apart.
<1>1. /\ count_ <= Limit /\ (\A t \in Threads : Aware(t)) /\ Caught /\ Numbers
      /\ count_ \in Nat
  BY DEF CountingInv, IoTypeOK
<1>2. SUFFICES /\ count_' <= Limit' /\ (\A t \in Threads : Aware(t)')
               /\ Caught' /\ Numbers'
  <2>1. program' = program
    BY OthersStay, ExpireMoves DEF IoNext, ioVars
  <2>2. Limit' = Limit /\ Counting' = Counting
    BY <2>1 DEF Limit, Counting
  <2>3. count_' < Limit' => count_ < Limit
    <3>1. count_ <= count_'
      <4>1. \A t \in Threads : ThreadStep(t) => count_ <= count_'
        BY <1>1, HandlerKinds, OwnMoves, TakeMoves DEF ThreadStep
      <4>. QED BY <1>1, <4>1, ExpireMoves DEF IoNext, ioVars
    <3>2. count_' \in Nat /\ count_ \in Nat /\ Limit \in Nat
      BY IoTypeStep, HandlerKinds DEF IoTypeOK
    <3>. QED BY ONLY <2>2, <3>1, <3>2
  <2>4. Counting' /\ count_' < Limit' => Somewhere(Timer1)'
    BY <1>1, <2>2, <2>3, TimerStays, HandlerKinds DEF CountingInv, Counting
  <2>. QED BY <2>4 DEF CountingInv
<1>3. ASSUME NEW timer \in Timers, Expire(timer)
      PROVE  /\ count_' <= Limit' /\ (\A t \in Threads : Aware(t)')
             /\ Caught' /\ Numbers'
  BY <1>1, <1>3, ExpireMoves DEF Limit
<1>4. ASSUME NEW t \in Threads, ThreadStep(t)
      PROVE  /\ count_' <= Limit' /\ (\A o \in Threads : Aware(o)')
             /\ Caught' /\ Numbers'
  <2>1. Limit' = Limit /\ Limit \in Nat
    BY <1>4, OthersStay, HandlerKinds DEF Limit
  <2> USE <1>1, <1>4, <2>1, OthersStay, OwnMoves
  <2>2. CASE Take(t)
    <3>1. /\ tpc[t] = "run" /\ tpc'[t] \in {"test", "work"}
          /\ UNCHANGED <<loaded, count_, printed>>
      BY <2>2, TakeMoves
    <3>2. \A o \in Threads : Amid(o)' <=> Amid(o)
      BY <3>1
    <3>3. \A o \in Threads : Aware(o)'
      BY <3>1
    <3>. QED BY <3>1, <3>2, <3>3
  <2>3. CASE Return(t)
    BY <2>3 DEF Return
  <2>4. CASE Test(t)
    BY <2>4
  <2>5. CASE PrintLine(t)
    <3>1. \A o \in Threads \ {t} : tpc[o] \in {"none", "run", "returned"}
      BY <2>5, CountsAlone
    <3>2. Len(printed) = count_
      BY <2>5, <3>1
    <3>3. /\ Len(printed') = count_ + 1 /\ count_' = count_ /\ tpc'[t] = "load"
          /\ count_ < Limit
      BY <2>5, <3>2, PrintMoves
    <3>4. Numbers'
      <4>1. /\ Len(printed) \in Nat /\ DOMAIN printed = 1..Len(printed)
            /\ DOMAIN printed' = 1..Len(printed) + 1
            /\ \A i \in DOMAIN printed : printed'[i] = printed[i]
            /\ printed'[Len(printed) + 1] = count_
        BY <2>5, PrintMoves
      <4>2. \A i \in DOMAIN printed : printed[i] = i - 1
        BY <1>1
      <4>3. \A i \in DOMAIN printed' : printed'[i] = i - 1
        BY ONLY <3>2, <4>1, <4>2
      <4>. QED BY <4>3
    <3>5. \A o \in Threads : Aware(o)'
      BY <3>1, <3>3
    <3>. QED BY <3>3, <3>4, <3>5
  <2>6. CASE Load(t)
    BY <2>6
  <2>7. CASE Store(t)
    <3>1. \A o \in Threads \ {t} : tpc[o] \in {"none", "run", "returned"}
      BY <2>7, CountsAlone
    <3>. QED BY <2>7, <3>1
  <2>8. CASE WaitAgain(t)
    BY <2>8
  <2>9. CASE working_func(t)
    BY <2>9
  <2>. QED BY <2>2, <2>3, <2>4, <2>5, <2>6, <2>7, <2>8, <2>9 DEF ThreadStep
<1>5. CASE UNCHANGED ioVars
  BY <1>1, <1>5 DEF ioVars, Limit
<1>. QED BY <1>3, <1>4, <1>5 DEF IoNext

\* The handlers' invariant holds at first ...
LEMMA IoInitInv == IoInit => IoInv
<1> SUFFICES ASSUME IoInit PROVE IoInv
  OBVIOUS
<1> USE HandlerKinds DEF IoInit
<1> DEFINE numbers == [i \in 1..Posted |-> i]
<1>1. numbers \in Seq(Timers \cup 1..Posted)
  <2>1. Posted \in Nat /\ numbers \in [1..Posted -> Timers \cup 1..Posted]
    BY IoAssumption
  <2>. QED BY ONLY <2>1, SeqDef
<1>2. ready \in Seq(Timers \cup 1..Posted)
  BY <1>1, EmptySeq
<1>3. IoTypeOK
  BY <1>2, EmptySeq DEF IoTypeOK, Timers
<1>4. ThreadsInv
  BY DEF ThreadsInv
<1>5. DOMAIN ready = (IF program = "post" THEN 1..Posted ELSE {})
      /\ \A i \in DOMAIN ready : ready[i] = i
  OBVIOUS
<1>6. ProgramInv
  BY <1>5 DEF ProgramInv, Executing
<1>7. PostedInv
  BY <1>5 DEF PostedInv, Somewhere, Queued
<1>8. CountingInv
  BY DEF CountingInv, Counting, Somewhere, Timers
<1>. QED BY <1>3, <1>4, <1>6, <1>7, <1>8 DEF IoInv

\* ... and always.
LEMMA IoInvStep == IoInv /\ [IoNext]_ioVars => IoInv'
BY IoTypeStep, ThreadsStep, ProgramStep, PostedStep, CountingStep DEF IoInv

\* When the threads have returned every handler has run.
LEMMA IoInvCounts == IoInv => NoCountLost
<1> SUFFICES ASSUME IoInv PROVE NoCountLost
  OBVIOUS
<1> USE HandlerKinds DEF IoInv
<1>1. \A i \in DOMAIN printed : printed[i] = i - 1
  BY DEF CountingInv
<1>2. Len(printed) <= Limit
  BY DEF CountingInv, IoTypeOK
<1>3. \A i \in 1..Posted : ran[i] <= 1
  BY DEF PostedInv
<1>4. ASSUME AllReturned
      PROVE  IF program = "post" THEN \A i \in 1..Posted : ran[i] = 1
             ELSE count_ = Limit /\ Len(printed) = Limit
  <2>1. PICK t \in Threads : tpc[t] = "returned"
    BY <1>4, IoAssumption DEF AllReturned, Runners, Threads, IoTypeOK
  <2>2. waiting = {} /\ ready = <<>> /\ \A o \in Threads : handler[o] = Idle
    BY <2>1 DEF ThreadsInv, Executing
  <2>3. \A h \in Timers \cup 1..Posted : ~Somewhere(h)
    BY <2>2 DEF Somewhere, Queued
  <2>4. CASE program = "post"
    <3>1. \A i \in 1..Posted : ran[i] \in Nat /\ ran[i] # 0
      BY <2>3, <2>4 DEF PostedInv, IoTypeOK
    <3>. QED BY <1>3, <2>4, <3>1
  <2>5. CASE program # "post"
    <3>1. Counting
      BY <1>4, <2>5 DEF AllReturned, Counting, IoTypeOK
    <3>2. count_ = Limit
      BY <2>3, <3>1 DEF CountingInv, IoTypeOK, Timers
    <3>3. \A o \in Threads : tpc[o] \notin {"load", "store"}
      BY <2>2 DEF ThreadsInv
    <3>. QED BY <2>5, <3>2, <3>3 DEF CountingInv
  <2>. QED BY <2>4, <2>5
<1>. QED BY <1>1, <1>2, <1>3, <1>4 DEF NoCountLost

-----------------------------------------------------------------------------
(* Daytime: the inductive invariant behind TimesAreWhole.                  *)

\* The times on their way to c or printed by it.
Stamps(c) == Elements(message_[c]) \cup Elements(stream[c]) \cup Elements(seen[c])

\* One time for each connection, and one connection for each time.
StampsInv ==
  \A c \in Viewers :
    /\ \A x \in Stamps(c) : x <= accepted
    /\ \A x, y \in Stamps(c) : x = y
    /\ \A d \in Viewers \ {c} : Stamps(c) \cap Stamps(d) = {}

\* Until a connection breaks the text is all there, at the server, on its way
\* or printed.
WholeInv ==
  \A c \in Viewers :
    /\ connection[c] \in {"none", "offered"} =>
         Len(message_[c]) = 0 /\ Len(stream[c]) = 0 /\ Len(seen[c]) = 0
    /\ connection[c] \in {"open", "closed"} =>
         Len(message_[c]) + Len(stream[c]) + Len(seen[c]) = DayLength
    /\ connection[c] = "closed" => Len(message_[c]) = 0
    /\ connection[c] = "reset" => Len(message_[c]) = 0 /\ Len(stream[c]) = 0
    /\ vpc[c] = "done" => Len(seen[c]) = DayLength
    /\ vpc[c] = "connect" => connection[c] = "none"

DaytimeInv == DaytimeTypeOK /\ StampsInv /\ WholeInv

\* The viewer prints some of what is on its way.
LEMMA ViewMoves ==
  ASSUME DaytimeTypeOK, NEW c \in Viewers, View(c)
  PROVE  /\ {stream', seen'} \subseteq [Viewers -> Seq(Nat)]
         /\ Elements(seen'[c]) \subseteq Elements(seen[c]) \cup Elements(stream[c])
         /\ Elements(stream'[c]) \subseteq Elements(stream[c])
         /\ \E n \in Nat \ {0} : /\ Len(seen'[c]) = Len(seen[c]) + n
                                 /\ Len(stream'[c]) = Len(stream[c]) - n
                                 /\ n <= Len(stream[c])
         /\ \A d \in Viewers \ {c} : seen'[d] = seen[d] /\ stream'[d] = stream[d]
         /\ vpc[c] = "read"
         /\ UNCHANGED <<daytime, vpc, connection, message_, accepted, faults>>
<1>1. PICK n \in 1..Len(stream[c]) :
        /\ seen' = [seen EXCEPT ![c] = @ \o SubSeq(stream[c], 1, n)]
        /\ stream' = [stream EXCEPT ![c] = SubSeq(@, n + 1, Len(@))]
  BY DEF View
<1>2. stream[c] \in Seq(Nat) /\ seen[c] \in Seq(Nat)
  BY DEF DaytimeTypeOK
<1> DEFINE
  front == seen[c] \o SubSeq(stream[c], 1, n)
  rest == SubSeq(stream[c], n + 1, Len(stream[c]))
<1>3. /\ front \in Seq(Nat) /\ rest \in Seq(Nat)
      /\ Len(stream[c]) \in Nat /\ n \in Nat
      /\ Len(front) = Len(seen[c]) + n /\ Len(rest) = Len(stream[c]) - n
      /\ Elements(front) \subseteq Elements(seen[c]) \cup Elements(stream[c])
      /\ Elements(rest) \subseteq Elements(stream[c])
  <2> DEFINE s == stream[c] t == seen[c]
  <2>1. s \in Seq(Nat) /\ t \in Seq(Nat) /\ n \in 1..Len(s)
    BY <1>2
  <2> HIDE DEF s, t
  <2>2. LET f == t \o SubSeq(s, 1, n)
            r == SubSeq(s, n + 1, Len(s))
        IN  /\ f \in Seq(Nat) /\ r \in Seq(Nat)
            /\ Len(s) \in Nat /\ n \in Nat
            /\ Len(f) = Len(t) + n /\ Len(r) = Len(s) - n
            /\ Elements(f) \subseteq Elements(t) \cup Elements(s)
            /\ Elements(r) \subseteq Elements(s)
    BY ONLY <2>1, Moved, SMTT(20)
  <2>. QED BY <2>2 DEF s, t
<1>4. seen' = [seen EXCEPT ![c] = front] /\ stream' = [stream EXCEPT ![c] = rest]
  BY <1>1
<1> HIDE DEF front, rest
<1>5. /\ seen'[c] = front /\ stream'[c] = rest
      /\ \A d \in Viewers \ {c} : seen'[d] = seen[d] /\ stream'[d] = stream[d]
      /\ seen' \in [Viewers -> Seq(Nat)] /\ stream' \in [Viewers -> Seq(Nat)]
  BY <1>3, <1>4 DEF DaytimeTypeOK
<1>6. n # 0 /\ n <= Len(stream[c])
  BY <1>3
<1>. QED BY <1>3, <1>5, <1>6 DEF View

\* The server sends some of what it has still to write.
LEMMA SendMoves ==
  ASSUME DaytimeTypeOK, NEW c \in Viewers, SendSome(c)
  PROVE  /\ {stream', message_'} \subseteq [Viewers -> Seq(Nat)]
         /\ Elements(stream'[c]) \subseteq Elements(stream[c]) \cup Elements(message_[c])
         /\ Elements(message_'[c]) \subseteq Elements(message_[c])
         /\ \E n \in Nat \ {0} : /\ Len(stream'[c]) = Len(stream[c]) + n
                                 /\ Len(message_'[c]) = Len(message_[c]) - n
                                 /\ n <= Len(message_[c])
         /\ Len(stream'[c]) <= DayBuffer
         /\ \A d \in Viewers \ {c} : message_'[d] = message_[d] /\ stream'[d] = stream[d]
         /\ connection[c] = "open"
         /\ UNCHANGED <<daytime, vpc, connection, seen, accepted, faults>>
<1>1. PICK n \in 1..Len(message_[c]) :
        /\ Len(stream[c]) + n <= DayBuffer
        /\ stream' = [stream EXCEPT ![c] = @ \o SubSeq(message_[c], 1, n)]
        /\ message_' = [message_ EXCEPT ![c] = SubSeq(@, n + 1, Len(@))]
  BY DEF SendSome
<1>2. stream[c] \in Seq(Nat) /\ message_[c] \in Seq(Nat)
  BY DEF DaytimeTypeOK
<1> DEFINE
  front == stream[c] \o SubSeq(message_[c], 1, n)
  rest == SubSeq(message_[c], n + 1, Len(message_[c]))
<1>3. /\ front \in Seq(Nat) /\ rest \in Seq(Nat)
      /\ Len(message_[c]) \in Nat /\ n \in Nat
      /\ Len(front) = Len(stream[c]) + n /\ Len(rest) = Len(message_[c]) - n
      /\ Elements(front) \subseteq Elements(stream[c]) \cup Elements(message_[c])
      /\ Elements(rest) \subseteq Elements(message_[c])
  BY <1>2, Moved, SMTT(20)
<1>4. stream' = [stream EXCEPT ![c] = front] /\ message_' = [message_ EXCEPT ![c] = rest]
  BY <1>1
<1> HIDE DEF front, rest
<1>5. /\ stream'[c] = front /\ message_'[c] = rest
      /\ \A d \in Viewers \ {c} : stream'[d] = stream[d] /\ message_'[d] = message_[d]
      /\ stream' \in [Viewers -> Seq(Nat)] /\ message_' \in [Viewers -> Seq(Nat)]
  BY <1>3, <1>4 DEF DaytimeTypeOK
<1>6. n # 0 /\ n <= Len(message_[c])
  BY <1>3
<1>. QED BY <1>1, <1>3, <1>5, <1>6 DEF SendSome, Writing

\* A time as it is written: DayLength bytes that all show it.
LEMMA DaytimeString ==
  ASSUME NEW now \in Nat
  PROVE  /\ make_daytime_string(now) \in Seq(Nat)
         /\ Len(make_daytime_string(now)) = DayLength
         /\ Elements(make_daytime_string(now)) \subseteq {now}
<1>1. DayLength \in Nat
  BY DaytimeAssumption
<1>2. make_daytime_string(now) \in [1..DayLength -> Nat]
  BY DEF make_daytime_string
<1>3. make_daytime_string(now) \in Seq(Nat)
  BY ONLY <1>1, <1>2, SeqDef
<1>4. DOMAIN make_daytime_string(now) = 1..DayLength
  BY <1>2
<1>5. Len(make_daytime_string(now)) = DayLength
  BY <1>1, <1>3, <1>4, LenProperties
<1>. QED BY <1>3, <1>5 DEF Elements, make_daytime_string

\* What the accept of a connection changes.
LEMMA AcceptMoves ==
  ASSUME DaytimeTypeOK, NEW c \in Viewers, AcceptViewer(c)
  PROVE  /\ message_' \in [Viewers -> Seq(Nat)]
         /\ accepted' = accepted + 1
         /\ Elements(message_'[c]) \subseteq {accepted + 1}
         /\ Len(message_'[c]) = DayLength
         /\ \A d \in Viewers \ {c} : /\ message_'[d] = message_[d]
                                     /\ connection'[d] = connection[d]
         /\ connection[c] = "offered" /\ connection'[c] = "open"
         /\ connection' \in [Viewers -> {"none", "offered", "open", "closed", "reset"}]
         /\ UNCHANGED <<daytime, vpc, stream, seen, faults>>
<1>1. accepted' = accepted + 1 /\ accepted + 1 \in Nat
  BY DEF AcceptViewer, DaytimeTypeOK
<1> DEFINE text == make_daytime_string(accepted + 1)
<1>2. text \in Seq(Nat) /\ Len(text) = DayLength /\ Elements(text) \subseteq {accepted + 1}
  BY <1>1, DaytimeString
<1>3. message_' = [message_ EXCEPT ![c] = text]
  BY <1>1 DEF AcceptViewer
<1> HIDE DEF text
<1>. QED BY <1>1, <1>2, <1>3 DEF AcceptViewer, DaytimeTypeOK

\* The types of the variables are kept.
LEMMA DaytimeTypeStep ==
  ASSUME DaytimeTypeOK, [DaytimeNext]_daytimeVars
  PROVE  DaytimeTypeOK'
<1> USE DaytimeAssumption
<1>1. ASSUME NEW c \in Viewers, Offer(c) PROVE DaytimeTypeOK'
  BY <1>1 DEF DaytimeTypeOK, Offer
<1>2. ASSUME NEW c \in Viewers, View(c) PROVE DaytimeTypeOK'
  <2>1. Len(stream'[c]) <= Len(stream[c]) /\ Len(stream[c]) \in Nat
    BY <1>2, ViewMoves, LenProperties DEF DaytimeTypeOK
  <2>2. \A d \in Viewers : Len(stream'[d]) <= DayBuffer
    <3>1. \A d \in Viewers : Len(stream[d]) <= DayBuffer /\ Len(stream[d]) \in Nat
      BY LenProperties DEF DaytimeTypeOK
    <3>2. Len(stream'[c]) <= DayBuffer
      <4>1. stream'[c] \in Seq(Nat)
        BY <1>2, ViewMoves
      <4>2. Len(stream'[c]) \in Nat
        BY <4>1, LenProperties
      <4>. QED BY ONLY <2>1, <3>1, <4>2, DayBuffer \in Nat, c \in Viewers
    <3>. QED BY <1>2, <3>1, <3>2, ViewMoves
  <2>. QED BY <1>2, <2>2, ViewMoves DEF DaytimeTypeOK
<1>3. ASSUME NEW c \in Viewers, EndView(c) PROVE DaytimeTypeOK'
  BY <1>3 DEF DaytimeTypeOK, EndView
<1>4. ASSUME NEW c \in Viewers, AcceptViewer(c) PROVE DaytimeTypeOK'
  BY <1>4, AcceptMoves DEF DaytimeTypeOK
<1>5. CASE AcceptError
  BY <1>5 DEF DaytimeTypeOK, AcceptError
<1>6. ASSUME NEW c \in Viewers, SendSome(c) PROVE DaytimeTypeOK'
  BY <1>6, SendMoves DEF DaytimeTypeOK
<1>7. ASSUME NEW c \in Viewers, CloseViewer(c) PROVE DaytimeTypeOK'
  BY <1>7 DEF DaytimeTypeOK, CloseViewer
<1>8. ASSUME NEW c \in Viewers, BreakConnection(c) PROVE DaytimeTypeOK'
  BY <1>8, EmptySeq DEF DaytimeTypeOK, BreakConnection
<1>9. CASE UNCHANGED daytimeVars
  BY <1>9 DEF DaytimeTypeOK, daytimeVars
<1>. QED BY <1>1, <1>2, <1>3, <1>4, <1>5, <1>6, <1>7, <1>8, <1>9
         DEF DaytimeNext, DaytimeProgress

\* An empty sequence has no elements.
LEMMA NoElements ==
  ASSUME NEW S, NEW s \in Seq(S)
  PROVE  /\ Elements(s) \subseteq S
         /\ Len(s) = 0 => Elements(s) = {}
BY LenProperties, ElementOfSeq DEF Elements

\* A time is printed by the client only for which it was asked.
LEMMA StampsStep ==
  ASSUME DaytimeInv, [DaytimeNext]_daytimeVars
  PROVE  StampsInv'
<1> DEFINE
  New(c) == Elements(message_'[c]) \cup Elements(stream'[c]) \cup Elements(seen'[c])
<1>1. \A c \in Viewers : Stamps(c)' = New(c)
  BY DEF Stamps, Elements
<1>2. /\ accepted \in Nat
      /\ \A c \in Viewers : Stamps(c) \subseteq Nat
      /\ \A c \in Viewers :
           /\ \A x \in Stamps(c) : x <= accepted
           /\ \A x, y \in Stamps(c) : x = y
           /\ \A d \in Viewers \ {c} : Stamps(c) \cap Stamps(d) = {}
  BY NoElements DEF DaytimeInv, DaytimeTypeOK, StampsInv, Stamps
<1>3. SUFFICES /\ \A c \in Viewers :
                    /\ \A x \in New(c) : x <= accepted'
                    /\ \A x, y \in New(c) : x = y
                    /\ \A d \in Viewers \ {c} : New(c) \cap New(d) = {}
  BY <1>1 DEF StampsInv
<1>4. CASE accepted' = accepted /\ \A c \in Viewers : New(c) \subseteq Stamps(c)
  <2> HIDE DEF New
  <2>. QED BY <1>2, <1>4
<1>5. ASSUME NEW c \in Viewers, AcceptViewer(c)
      PROVE  \A d \in Viewers :
               /\ \A x \in New(d) : x <= accepted'
               /\ \A x, y \in New(d) : x = y
               /\ \A e \in Viewers \ {d} : New(d) \cap New(e) = {}
  <2>1. /\ Len(stream[c]) = 0 /\ stream[c] \in Seq(Nat)
        /\ Len(seen[c]) = 0 /\ seen[c] \in Seq(Nat)
    BY <1>5, AcceptMoves DEF DaytimeInv, WholeInv, DaytimeTypeOK
  <2>2. Elements(stream[c]) = {} /\ Elements(seen[c]) = {}
    BY <2>1, NoElements
  <2>3. New(c) \subseteq {accepted + 1} /\ accepted' = accepted + 1
    BY <1>5, <2>2, AcceptMoves DEF DaytimeInv
  <2>4. \A d \in Viewers \ {c} : New(d) = Stamps(d)
    BY <1>5, AcceptMoves DEF DaytimeInv, Stamps
  <2> HIDE DEF New
  <2>. QED BY <1>2, <2>3, <2>4
<1>6. ASSUME NEW c \in Viewers, View(c)
      PROVE  accepted' = accepted /\ \A d \in Viewers : New(d) \subseteq Stamps(d)
  BY <1>6, ViewMoves DEF DaytimeInv, Stamps
<1>7. ASSUME NEW c \in Viewers, SendSome(c)
      PROVE  accepted' = accepted /\ \A d \in Viewers : New(d) \subseteq Stamps(d)
  BY <1>7, SendMoves DEF DaytimeInv, Stamps
<1>8. ASSUME NEW c \in Viewers, BreakConnection(c)
      PROVE  accepted' = accepted /\ \A d \in Viewers : New(d) \subseteq Stamps(d)
  <2>1. Elements(<<>>) = {}
    BY DEF Elements
  <2>2. \A d \in Viewers : /\ message_'[d] = message_[d] \/ message_'[d] = <<>>
                           /\ stream'[d] = stream[d] \/ stream'[d] = <<>>
                           /\ seen'[d] = seen[d]
    BY <1>8 DEF BreakConnection, DaytimeInv, DaytimeTypeOK
  <2>. QED BY <1>8, <2>1, <2>2 DEF Stamps, BreakConnection
<1>9. ASSUME UNCHANGED <<message_, stream, seen, accepted>>
      PROVE  accepted' = accepted /\ \A d \in Viewers : New(d) \subseteq Stamps(d)
  BY <1>9 DEF Stamps
<1>10. CASE \E c \in Viewers : Offer(c) \/ EndView(c) \/ CloseViewer(c)
  BY <1>4, <1>9, <1>10 DEF Offer, EndView, CloseViewer
<1>11. CASE AcceptError \/ UNCHANGED daytimeVars
  BY <1>4, <1>9, <1>11 DEF AcceptError, daytimeVars
<1> HIDE DEF New
<1>. QED BY <1>4, <1>5, <1>6, <1>7, <1>8, <1>10, <1>11 DEF DaytimeNext, DaytimeProgress

\* No byte of a time is lost on the way.
LEMMA WholeStep ==
  ASSUME DaytimeInv, [DaytimeNext]_daytimeVars
  PROVE  WholeInv'
<1> DEFINE
  Whole(at, there, m, s, p) ==
    /\ there \in {"none", "offered"} => m = 0 /\ s = 0 /\ p = 0
    /\ there \in {"open", "closed"} => m + s + p = DayLength
    /\ there = "closed" => m = 0
    /\ there = "reset" => m = 0 /\ s = 0
    /\ at = "done" => p = DayLength
    /\ at = "connect" => there = "none"
  Now(c) == Whole(vpc[c], connection[c], Len(message_[c]), Len(stream[c]), Len(seen[c]))
  Then(c) == Whole(vpc'[c], connection'[c], Len(message_'[c]), Len(stream'[c]), Len(seen'[c]))
  Same(c) == /\ vpc'[c] = vpc[c] /\ connection'[c] = connection[c]
             /\ message_'[c] = message_[c] /\ stream'[c] = stream[c]
             /\ seen'[c] = seen[c]
<1>1. \A c \in Viewers : Now(c)
  BY DEF DaytimeInv, WholeInv
<1>2. SUFFICES \A c \in Viewers : Then(c)
  BY DEF WholeInv
<1>3. /\ DayLength \in Nat /\ DaytimeTypeOK
      /\ \A c \in Viewers : /\ Len(message_[c]) \in Nat /\ Len(stream[c]) \in Nat
                            /\ Len(seen[c]) \in Nat
      /\ Len(<<>>) = 0
  BY DaytimeAssumption, LenProperties, EmptySeq DEF DaytimeInv, DaytimeTypeOK
<1>4. \A c \in Viewers : Same(c) => Then(c)
  BY <1>1
<1>5. ASSUME NEW at, NEW there, NEW m \in Nat, NEW s \in Nat, NEW p \in Nat,
             Whole(at, there, m, s, p)
      PROVE  /\ \A n \in 1..s : at = "read" => Whole(at, there, m, s - n, p + n)
             /\ \A n \in 1..m : there = "open" => Whole(at, there, m - n, s + n, p)
             /\ there = "offered" => Whole(at, "open", DayLength, s, p)
  BY <1>3, <1>5
<1>6. ASSUME NEW c \in Viewers, Offer(c) PROVE Then(c) /\ \A d \in Viewers \ {c} : Same(d)
  BY <1>1, <1>3, <1>6 DEF Offer, DaytimeTypeOK
<1>7. ASSUME NEW c \in Viewers, View(c) PROVE Then(c) /\ \A d \in Viewers \ {c} : Same(d)
  <2> HIDE DEF Whole
  <2>1. PICK n \in Nat \ {0} : /\ Len(seen'[c]) = Len(seen[c]) + n
                               /\ Len(stream'[c]) = Len(stream[c]) - n
                               /\ n <= Len(stream[c])
    BY <1>3, <1>7, ViewMoves
  <2>2. n \in 1..Len(stream[c])
    BY <1>3, <2>1
  <2>3. Whole(vpc[c], connection[c], Len(message_[c]), Len(stream[c]) - n, Len(seen[c]) + n)
    BY <1>1, <1>3, <1>5, <1>7, <2>2, ViewMoves
  <2>. QED BY <1>3, <1>7, <2>1, <2>3, ViewMoves
<1>8. ASSUME NEW c \in Viewers, EndView(c) PROVE Then(c) /\ \A d \in Viewers \ {c} : Same(d)
  BY <1>1, <1>3, <1>8 DEF EndView, DaytimeTypeOK
<1>9. ASSUME NEW c \in Viewers, AcceptViewer(c)
      PROVE  Then(c) /\ \A d \in Viewers \ {c} : Same(d)
  <2> HIDE DEF Whole
  <2>1. Whole(vpc[c], "open", DayLength, Len(stream[c]), Len(seen[c]))
    BY <1>1, <1>3, <1>5, <1>9, AcceptMoves
  <2>. QED BY <1>3, <1>9, <2>1, AcceptMoves
<1>10. ASSUME NEW c \in Viewers, SendSome(c) PROVE Then(c) /\ \A d \in Viewers \ {c} : Same(d)
  <2> HIDE DEF Whole
  <2>1. PICK n \in Nat \ {0} : /\ Len(stream'[c]) = Len(stream[c]) + n
                               /\ Len(message_'[c]) = Len(message_[c]) - n
                               /\ n <= Len(message_[c])
    BY <1>3, <1>10, SendMoves
  <2>2. n \in 1..Len(message_[c])
    BY <1>3, <2>1
  <2>3. Whole(vpc[c], connection[c], Len(message_[c]) - n, Len(stream[c]) + n, Len(seen[c]))
    BY <1>1, <1>3, <1>5, <1>10, <2>2, SendMoves
  <2>. QED BY <1>3, <1>10, <2>1, <2>3, SendMoves
<1>11. ASSUME NEW c \in Viewers, CloseViewer(c)
       PROVE  Then(c) /\ \A d \in Viewers \ {c} : Same(d)
  BY <1>1, <1>3, <1>11 DEF CloseViewer, Writing, Released, DaytimeTypeOK
<1>12. ASSUME NEW c \in Viewers, BreakConnection(c)
       PROVE  Then(c) /\ \A d \in Viewers \ {c} : Same(d)
  BY <1>1, <1>3, <1>12 DEF BreakConnection, DaytimeTypeOK
<1>13. CASE AcceptError
  BY <1>1, <1>3, <1>13 DEF AcceptError, DaytimeTypeOK
<1>14. CASE UNCHANGED daytimeVars
  BY <1>4, <1>14 DEF daytimeVars
<1> HIDE DEF Then, Same
<1>. QED BY <1>4, <1>6, <1>7, <1>8, <1>9, <1>10, <1>11, <1>12, <1>13, <1>14
         DEF DaytimeNext, DaytimeProgress

\* The invariant holds at first, always, and gives the property.
LEMMA DaytimeInvariance ==
  /\ DaytimeInit => DaytimeInv
  /\ DaytimeInv /\ [DaytimeNext]_daytimeVars => DaytimeInv'
  /\ DaytimeInv => TimesAreWhole
<1>1. ASSUME DaytimeInit PROVE DaytimeInv
  <2>1. DaytimeTypeOK
    BY <1>1, DaytimeAssumption, EmptySeq DEF DaytimeInit, DaytimeTypeOK
  <2>2. \A c \in Viewers : Stamps(c) = {}
    BY <1>1 DEF DaytimeInit, Stamps, Elements
  <2>3. WholeInv
    BY <1>1, EmptySeq DEF DaytimeInit, WholeInv
  <2>. QED BY <2>1, <2>2, <2>3 DEF DaytimeInv, StampsInv
<1>2. DaytimeInv /\ [DaytimeNext]_daytimeVars => DaytimeInv'
  BY DaytimeTypeStep, StampsStep, WholeStep DEF DaytimeInv
<1>3. ASSUME DaytimeInv PROVE TimesAreWhole
  <2>1. \A c \in Viewers : \A i \in DOMAIN seen[c] : seen[c][i] \in Stamps(c)
    BY DEF Stamps, Elements
  <2>2. \A c \in Viewers :
          /\ \A x, y \in Stamps(c) : x = y
          /\ \A d \in Viewers \ {c} : Stamps(c) \cap Stamps(d) = {}
    BY <1>3 DEF DaytimeInv, StampsInv
  <2>3. \A c \in Viewers : vpc[c] = "done" => Len(seen[c]) = DayLength
    BY <1>3 DEF DaytimeInv, WholeInv
  <2>. QED BY <2>1, <2>2, <2>3 DEF TimesAreWhole
<1>. QED BY <1>1, <1>2, <1>3

-----------------------------------------------------------------------------
(* Multicast: the inductive invariant behind MessagesOnce.                 *)

\* The messages that r has printed or may yet receive were sent, and each is
\* in one place only unless the network has doubled one.
HeardInv ==
  \A r \in Receivers :
    /\ \A n \in air[r] \cup Elements(heard[r]) :
         n < message_count_ /\ (mpc = "send" => n < Message)
    /\ doubled = 0 =>
         /\ \A i, j \in DOMAIN heard[r] : heard[r][i] = heard[r][j] => i = j
         /\ \A i \in DOMAIN heard[r] : heard[r][i] \notin air[r]

SenderInv ==
  /\ mpc # "none" => message_count_ # 0
  /\ mpc = "wait" => message_count_ < max_message_count
  /\ mpc = "stopped" /\ errors = 0 => message_count_ = max_message_count

MulticastInv == MulticastTypeOK /\ HeardInv /\ SenderInv

\* What Receive does to the one receiver.
LEMMA ReceiveMoves ==
  ASSUME MulticastTypeOK, NEW r \in Receivers, Receive(r)
  PROVE  \E n \in air[r] :
           /\ n \in Nat
           /\ heard'[r] \in Seq(Nat)
           /\ Len(heard[r]) \in Nat /\ DOMAIN heard[r] = 1..Len(heard[r])
           /\ DOMAIN heard'[r] = 1..Len(heard[r]) + 1
           /\ \A i \in DOMAIN heard[r] : heard'[r][i] = heard[r][i]
           /\ heard'[r][Len(heard[r]) + 1] = n
           /\ \/ air'[r] = air[r] \ {n} /\ doubled' = doubled
              \/ air'[r] = air[r] /\ doubled < MaxDoubled /\ doubled' = doubled + 1
           /\ \A o \in Receivers \ {r} : air'[o] = air[o] /\ heard'[o] = heard[o]
           /\ DOMAIN air' = Receivers /\ DOMAIN heard' = Receivers
<1>1. PICK n \in air[r] :
        /\ heard' = [heard EXCEPT ![r] = Append(@, n)]
        /\ \/ air' = [air EXCEPT ![r] = @ \ {n}] /\ UNCHANGED doubled
           \/ doubled < MaxDoubled /\ doubled' = doubled + 1 /\ UNCHANGED air
  BY DEF Receive
<1>2. n \in Nat /\ heard[r] \in Seq(Nat)
  BY DEF MulticastTypeOK
<1>3. heard'[r] = Append(heard[r], n)
  BY <1>1 DEF MulticastTypeOK
<1>4. /\ \/ air'[r] = air[r] \ {n} /\ doubled' = doubled
         \/ air'[r] = air[r] /\ doubled < MaxDoubled /\ doubled' = doubled + 1
      /\ \A o \in Receivers \ {r} : air'[o] = air[o] /\ heard'[o] = heard[o]
      /\ DOMAIN air' = Receivers /\ DOMAIN heard' = Receivers
  BY <1>1 DEF MulticastTypeOK
<1>. QED BY <1>2, <1>3, <1>4, Appended

\* The types of the variables are kept.
LEMMA MulticastTypeStep ==
  ASSUME MulticastTypeOK, SenderInv, [MulticastNext]_multicastVars
  PROVE  MulticastTypeOK'
<1> USE MulticastAssumption
<1>1. CASE Sent
  <2>1. PICK reached \in SUBSET Receivers :
          air' = [r \in Receivers |-> IF r \in reached THEN air[r] \cup {Message}
                                      ELSE air[r]]
    BY <1>1 DEF Sent
  <2>2. Message \in Nat
    BY <1>1 DEF MulticastTypeOK, SenderInv, Message, Sent
  <2>3. air' \in [Receivers -> SUBSET Nat]
    BY <2>1, <2>2 DEF MulticastTypeOK
  <2>. QED BY <1>1, <2>3 DEF MulticastTypeOK, Sent
<1>2. CASE SendError
  BY <1>2 DEF MulticastTypeOK, SendError
<1>3. CASE Timeout
  BY <1>3 DEF MulticastTypeOK, Timeout, SenderInv
<1>4. ASSUME NEW r \in Receivers, Receive(r) PROVE MulticastTypeOK'
  <2>1. PICK n \in air[r] :
          /\ heard' = [heard EXCEPT ![r] = Append(@, n)]
          /\ \/ air' = [air EXCEPT ![r] = @ \ {n}] /\ UNCHANGED doubled
             \/ doubled < MaxDoubled /\ doubled' = doubled + 1 /\ UNCHANGED air
    BY <1>4 DEF Receive
  <2>2. Append(heard[r], n) \in Seq(Nat)
    BY Appended DEF MulticastTypeOK
  <2>3. heard' \in [Receivers -> Seq(Nat)]
    BY <2>1, <2>2 DEF MulticastTypeOK
  <2>4. air[r] \ {n} \in SUBSET Nat
    BY DEF MulticastTypeOK
  <2>5. air' \in [Receivers -> SUBSET Nat]
    BY <2>1, <2>4 DEF MulticastTypeOK
  <2>6. doubled' \in 0..MaxDoubled
    BY <2>1 DEF MulticastTypeOK
  <2>. QED BY <1>4, <2>3, <2>5, <2>6 DEF MulticastTypeOK, Receive
<1>5. ASSUME NEW r \in Receivers, ReceiveError(r) PROVE MulticastTypeOK'
  BY <1>5 DEF MulticastTypeOK, ReceiveError
<1>6. CASE UNCHANGED multicastVars
  BY <1>6 DEF MulticastTypeOK, multicastVars
<1>. QED BY <1>1, <1>2, <1>3, <1>4, <1>5, <1>6 DEF MulticastNext

\* No receiver can get a message that was not sent, or one twice.
LEMMA HeardStep ==
  ASSUME MulticastTypeOK, HeardInv, SenderInv, [MulticastNext]_multicastVars
  PROVE  HeardInv'
<1> DEFINE
  Old(r, n) == n < message_count_ /\ (mpc = "send" => n < Message)
  Distinct(s) == \A i, j \in DOMAIN s : s[i] = s[j] => i = j
<1>1. /\ \A r \in Receivers :
           /\ \A n \in air[r] : Old(r, n)
           /\ \A i \in DOMAIN heard[r] : Old(r, heard[r][i])
           /\ doubled = 0 => /\ Distinct(heard[r])
                             /\ \A i \in DOMAIN heard[r] : heard[r][i] \notin air[r]
      /\ message_count_ \in Nat /\ doubled \in Nat
      /\ \A r \in Receivers : /\ air[r] \subseteq Nat
                              /\ \A i \in DOMAIN heard[r] : heard[r][i] \in Nat
  BY MulticastAssumption, ElementOfSeq, LenProperties DEF HeardInv, MulticastTypeOK, Elements
<1>2. SUFFICES
        \A r \in Receivers :
           /\ \A n \in air'[r] : Old(r, n)'
           /\ \A i \in DOMAIN heard'[r] :
                heard'[r][i] < message_count_' /\ (mpc' = "send" => heard'[r][i] < Message')
           /\ doubled' = 0 => /\ \A i, j \in DOMAIN heard'[r] :
                                   heard'[r][i] = heard'[r][j] => i = j
                              /\ \A i \in DOMAIN heard'[r] : heard'[r][i] \notin air'[r]
  BY DEF HeardInv, Elements
<1> USE DEF Message
<1>3. CASE Sent
  <2>1. PICK reached \in SUBSET Receivers :
          air' = [r \in Receivers |-> IF r \in reached THEN air[r] \cup {Message}
                                      ELSE air[r]]
    BY <1>3 DEF Sent
  <2>2. /\ mpc = "send" /\ mpc' # "send" /\ heard' = heard
        /\ message_count_' = message_count_ /\ doubled' = doubled
    BY <1>3 DEF Sent
  <2>3. \A r \in Receivers : \A n \in air'[r] : n \in air[r] \/ n = Message
    BY <2>1
  <2>. QED BY <1>1, <2>2, <2>3
<1>4. CASE SendError
  BY <1>1, <1>4 DEF SendError
<1>5. CASE Timeout
  BY <1>1, <1>5 DEF Timeout
<1>6. ASSUME NEW r \in Receivers, Receive(r),
             NEW o \in Receivers
      PROVE  /\ \A n \in air'[o] : Old(o, n)'
             /\ \A i \in DOMAIN heard'[o] :
                  heard'[o][i] < message_count_' /\ (mpc' = "send" => heard'[o][i] < Message')
             /\ doubled' = 0 => /\ \A i, j \in DOMAIN heard'[o] :
                                     heard'[o][i] = heard'[o][j] => i = j
                                /\ \A i \in DOMAIN heard'[o] : heard'[o][i] \notin air'[o]
  <2>1. PICK n \in air[r] :
           /\ n \in Nat
           /\ heard'[r] \in Seq(Nat)
           /\ Len(heard[r]) \in Nat /\ DOMAIN heard[r] = 1..Len(heard[r])
           /\ DOMAIN heard'[r] = 1..Len(heard[r]) + 1
           /\ \A i \in DOMAIN heard[r] : heard'[r][i] = heard[r][i]
           /\ heard'[r][Len(heard[r]) + 1] = n
           /\ \/ air'[r] = air[r] \ {n} /\ doubled' = doubled
              \/ air'[r] = air[r] /\ doubled < MaxDoubled /\ doubled' = doubled + 1
           /\ \A q \in Receivers \ {r} : air'[q] = air[q] /\ heard'[q] = heard[q]
    BY <1>6, ReceiveMoves
  <2>2. mpc' = mpc /\ message_count_' = message_count_
    BY <1>6 DEF Receive
  <2>3. doubled' = 0 => doubled = 0 /\ air'[r] = air[r] \ {n}
    BY <1>1, <2>1
  <2>4. CASE o = r
    <3>1. \A i \in DOMAIN heard'[r] : i \in DOMAIN heard[r] \/ i = Len(heard[r]) + 1
      BY <2>1
    <3>2. /\ \A m \in air'[r] : Old(r, m)'
          /\ \A i \in DOMAIN heard'[r] :
               heard'[r][i] < message_count_' /\ (mpc' = "send" => heard'[r][i] < Message')
      BY <1>1, <2>1, <2>2, <3>1
    <3>3. ASSUME doubled' = 0
          PROVE  /\ \A i, j \in DOMAIN heard'[r] : heard'[r][i] = heard'[r][j] => i = j
                 /\ \A i \in DOMAIN heard'[r] : heard'[r][i] \notin air'[r]
      <4>1. /\ \A i, j \in DOMAIN heard[r] : heard[r][i] = heard[r][j] => i = j
            /\ \A i \in DOMAIN heard[r] : heard[r][i] \notin air[r]
            /\ air'[r] = air[r] \ {n}
        BY <1>1, <2>3, <3>3
      <4>2. \A i \in DOMAIN heard[r] : heard'[r][i] = heard[r][i] /\ heard[r][i] # n
        BY <2>1, <4>1
      <4>3. heard'[r][Len(heard[r]) + 1] = n
        BY <2>1
      <4>. QED BY ONLY <3>1, <4>1, <4>2, <4>3
    <3>. QED BY <2>4, <3>2, <3>3
  <2>5. CASE o # r
    BY <1>1, <2>1, <2>2, <2>3, <2>5
  <2>. QED BY <2>4, <2>5
<1>7. ASSUME NEW r \in Receivers, ReceiveError(r)
      PROVE  UNCHANGED <<air, heard, doubled, mpc, message_count_>>
  BY <1>7 DEF ReceiveError
<1>8. CASE UNCHANGED multicastVars
  BY <1>1, <1>8 DEF multicastVars
<1>. QED BY <1>1, <1>3, <1>4, <1>5, <1>6, <1>7, <1>8 DEF MulticastNext

\* The sender stops at its last message, or after an error.
LEMMA SenderStep ==
  ASSUME MulticastTypeOK, SenderInv, [MulticastNext]_multicastVars
  PROVE  SenderInv'
<1> USE MulticastAssumption DEF MulticastTypeOK, SenderInv
<1>1. CASE Sent
  BY <1>1 DEF Sent
<1>2. CASE SendError
  BY <1>2 DEF SendError
<1>3. CASE Timeout
  BY <1>3 DEF Timeout
<1>4. ASSUME NEW r \in Receivers, Receive(r) PROVE SenderInv'
  BY <1>4 DEF Receive
<1>5. ASSUME NEW r \in Receivers, ReceiveError(r) PROVE SenderInv'
  BY <1>5 DEF ReceiveError
<1>6. CASE UNCHANGED multicastVars
  BY <1>6 DEF multicastVars
<1>. QED BY <1>1, <1>2, <1>3, <1>4, <1>5, <1>6 DEF MulticastNext

\* The invariant holds at first, always, and gives the property.
LEMMA MulticastInvariance ==
  /\ MulticastInit => MulticastInv
  /\ MulticastInv /\ [MulticastNext]_multicastVars => MulticastInv'
  /\ MulticastInv => MessagesOnce
<1>1. MulticastInit => MulticastInv
  BY MulticastAssumption, EmptySeq
  DEF MulticastInit, MulticastInv, MulticastTypeOK, HeardInv, SenderInv, Elements
<1>2. MulticastInv /\ [MulticastNext]_multicastVars => MulticastInv'
  BY MulticastTypeStep, HeardStep, SenderStep DEF MulticastInv
<1>3. ASSUME MulticastInv PROVE MessagesOnce
  <2>1. \A r \in Receivers : \A i \in DOMAIN heard[r] :
          heard[r][i] \in Nat /\ heard[r][i] < message_count_
    BY <1>3, ElementOfSeq, LenProperties DEF MulticastInv, MulticastTypeOK, HeardInv, Elements
  <2>2. \A r \in Receivers : \A i \in DOMAIN heard[r] :
          heard[r][i] \in 0..max_message_count - 1
    BY <1>3, <2>1, MulticastAssumption DEF MulticastInv, MulticastTypeOK
  <2>. QED BY <1>3, <2>2 DEF MulticastInv, HeardInv, SenderInv, MessagesOnce
<1>. QED BY <1>1, <1>2, <1>3

-----------------------------------------------------------------------------
(* Echo over TCP: the inductive invariant behind BytesInOrder.             *)

\* The five queues between a client's lines and what it has read are one.
Chain(g, d, a, u, w, n) ==
  /\ Len(g) + Len(d) + Len(a) + Len(u) + Len(w) = n
  /\ Follow(g, 0)
  /\ Follow(d, Len(g))
  /\ Follow(a, Len(g) + Len(d))
  /\ Follow(u, Len(g) + Len(d) + Len(a))
  /\ Follow(w, Len(g) + Len(d) + Len(a) + Len(u))

\* When the connection breaks, what has been read is still its beginning.
BytesInv ==
  \A c \in TcpClients :
    /\ Follow(got[c], 0)
    /\ Len(got[c]) + Len(down[c]) + Len(data_[c]) + Len(up[c]) + Len(to_send[c])
         <= sent[c]
    /\ ~Broken(c) => Chain(got[c], down[c], data_[c], up[c], to_send[c], sent[c])

\* A client types when it has written everything, a session reads when it has.
TurnsInv ==
  \A c \in TcpClients :
    /\ cpc[c] \in {"none", "connect", "input", "read"} => Len(to_send[c]) = 0
    /\ spc[c] \in {"none", "read"} => Len(data_[c]) = 0
    /\ cpc[c] \in {"none", "connect"} => link[c] = "none"

TcpInv == TcpTypeOK /\ BytesInv /\ TurnsInv

\* What a read or a write of at most n bytes moves.
LEMMA Limits ==
  ASSUME NEW n \in Nat, NEW s \in Seq(Nat), Len(s) <= SocketBuffer
  PROVE  /\ \A k \in Writable(n, s) : k \in 1..n /\ Len(s) + k <= SocketBuffer
         /\ \A k \in Readable(n, s) : k \in 1..Len(s) /\ k <= n
<1>1. Len(s) \in Nat /\ SocketBuffer \in Nat
  BY TcpAssumption, LenProperties
<1>2. ASSUME NEW a \in Nat, NEW b \in Nat PROVE Min({a, b}) \in {a, b} /\ Min({a, b}) <= a /\ Min({a, b}) <= b
  <2>1. \E x \in {a, b} : \A y \in {a, b} : x <= y
    BY <1>2
  <2>2. Min({a, b}) \in {a, b} /\ \A y \in {a, b} : Min({a, b}) <= y
    BY <2>1 DEF Min
  <2>. QED BY <2>2
<1>3. SocketBuffer - Len(s) \in Nat
  BY <1>1
<1>4. ASSUME NEW k \in Writable(n, s) PROVE k \in 1..n /\ Len(s) + k <= SocketBuffer
  <2> DEFINE m == SocketBuffer - Len(s)
  <2>1. m \in Nat /\ Len(s) + m = SocketBuffer
    BY <1>1, <1>3
  <2>2. k \in 1..Min({n, m})
    BY <1>4 DEF Writable
  <2> HIDE DEF m
  <2>3. Min({n, m}) \in Nat /\ Min({n, m}) <= n /\ Min({n, m}) <= m
    BY <1>2, <2>1
  <2>4. k \in Nat /\ k # 0 /\ k <= n /\ k <= m
    BY <2>1, <2>2, <2>3
  <2>. QED BY <1>1, <2>1, <2>4
<1>5. ASSUME NEW k \in Readable(n, s) PROVE k \in 1..Len(s) /\ k <= n
  <2>1. k \in 1..Min({n, Len(s)})
    BY <1>5 DEF Readable
  <2>2. Min({n, Len(s)}) \in Nat /\ Min({n, Len(s)}) <= n /\ Min({n, Len(s)}) <= Len(s)
    BY <1>1, <1>2
  <2>. QED BY <1>1, <2>1, <2>2
<1>. QED BY <1>4, <1>5

\* Some of s has been moved from its front to the end of t.
Shift(s, t, s2, t2) ==
  \E n \in 1..Len(s) :
    /\ s2 \in Seq(Nat) /\ t2 \in Seq(Nat)
    /\ Len(t2) = Len(t) + n /\ Len(s2) = Len(s) - n
    /\ \A k \in Nat : Follow(t, k) /\ Follow(s, k + Len(t))
                        => Follow(t2, k) /\ Follow(s2, k + Len(t2))

\* That is what reads and writes do.
LEMMA ShiftTaken ==
  ASSUME NEW s \in Seq(Nat), NEW t \in Seq(Nat), NEW n \in 1..Len(s)
  PROVE  /\ Shift(s, t, Left(n, s), t \o Taken(n, s))
         /\ Len(t \o Taken(n, s)) = Len(t) + n
         /\ Len(Left(n, s)) <= Len(s)
         /\ Left(n, s) \in Seq(Nat) /\ t \o Taken(n, s) \in Seq(Nat)
<1> DEFINE front == t \o Taken(n, s) rest == Left(n, s)
<1>1. /\ front \in Seq(Nat) /\ rest \in Seq(Nat)
      /\ Len(s) \in Nat /\ Len(t) \in Nat /\ n \in Nat
      /\ Len(front) = Len(t) + n /\ Len(rest) = Len(s) - n
      /\ \A k \in Nat :
           /\ Follow(t, k) /\ Follow(s, k + Len(t)) => Follow(front, k)
           /\ Follow(s, k) => Follow(rest, k + n)
  BY Moved DEF Taken, Left
<1> HIDE DEF front, rest
<1>2. ASSUME NEW k \in Nat, Follow(t, k), Follow(s, k + Len(t))
      PROVE  Follow(front, k) /\ Follow(rest, k + Len(front))
  <2>1. k + Len(t) \in Nat /\ k + Len(t) + n = k + Len(front)
    BY <1>1
  <2>. QED BY <1>1, <1>2, <2>1
<1>3. Len(rest) <= Len(s)
  BY <1>1
<1>4. Shift(s, t, rest, front)
  BY <1>1, <1>2 DEF Shift
<1>. QED BY <1>1, <1>3, <1>4 DEF front, rest

\* A shift within the chain leaves it a chain.
LEMMA ChainShifts ==
  ASSUME NEW g \in Seq(Nat), NEW d \in Seq(Nat), NEW a \in Seq(Nat),
         NEW u \in Seq(Nat), NEW w \in Seq(Nat), NEW n \in Nat,
         Chain(g, d, a, u, w, n), NEW s, NEW t
  PROVE  /\ Shift(d, g, s, t) => Chain(t, s, a, u, w, n)
         /\ Shift(a, d, s, t) => Chain(g, t, s, u, w, n)
         /\ Shift(u, a, s, t) => Chain(g, d, t, s, w, n)
         /\ Shift(w, u, s, t) => Chain(g, d, a, t, s, n)
<1> DEFINE lg == Len(g) ld == Len(d) la == Len(a) lu == Len(u) lw == Len(w)
           ls == Len(s) lt == Len(t)
<1>1. /\ lg \in Nat /\ ld \in Nat /\ la \in Nat /\ lu \in Nat /\ lw \in Nat
  BY LenProperties
<1>2. /\ lg + ld + la + lu + lw = n
      /\ Follow(g, 0) /\ Follow(d, lg) /\ Follow(a, lg + ld)
      /\ Follow(u, lg + ld + la) /\ Follow(w, lg + ld + la + lu)
  BY DEF Chain
<1>3. \A k \in Nat : k + 0 = k /\ 0 + k = k
  OBVIOUS
<1> HIDE DEF lg, ld, la, lu, lw, ls, lt
<1>4. ASSUME Shift(d, g, s, t) PROVE Chain(t, s, a, u, w, n)
  <2>1. /\ lt \in Nat /\ ls \in Nat /\ lt + ls = lg + ld
        /\ Follow(t, 0) /\ Follow(s, lt)
    <3>1. PICK m \in 1..ld :
            /\ s \in Seq(Nat) /\ t \in Seq(Nat)
            /\ lt = lg + m /\ ls = ld - m
            /\ \A k \in Nat : Follow(g, k) /\ Follow(d, k + lg)
                                => Follow(t, k) /\ Follow(s, k + lt)
      BY <1>4 DEF Shift, lt, ls, lg, ld
    <3>2. Follow(t, 0) /\ Follow(s, 0 + lt)
      BY <1>1, <1>2, <1>3, <3>1
    <3>3. lt \in Nat /\ ls \in Nat /\ lt + ls = lg + ld
      BY <1>1, <3>1
    <3>. QED BY <1>3, <3>2, <3>3
  <2>2. /\ lt + ls + la + lu + lw = n
        /\ Follow(a, lt + ls) /\ Follow(u, lt + ls + la) /\ Follow(w, lt + ls + la + lu)
    BY <1>2, <2>1
  <2>. QED BY <2>1, <2>2 DEF Chain, lt, ls, la, lu, lw
<1>5. ASSUME Shift(a, d, s, t) PROVE Chain(g, t, s, u, w, n)
  <2>1. /\ lt \in Nat /\ ls \in Nat /\ lg + lt + ls = lg + ld + la
        /\ Follow(t, lg) /\ Follow(s, lg + lt)
    <3>1. PICK m \in 1..la :
            /\ s \in Seq(Nat) /\ t \in Seq(Nat)
            /\ lt = ld + m /\ ls = la - m
            /\ \A k \in Nat : Follow(d, k) /\ Follow(a, k + ld)
                                => Follow(t, k) /\ Follow(s, k + lt)
      BY <1>5 DEF Shift, lt, ls, la, ld
    <3>2. lt \in Nat /\ ls \in Nat /\ lg + lt + ls = lg + ld + la
      BY <1>1, <3>1
    <3>. QED BY <1>1, <1>2, <3>1, <3>2
  <2>2. /\ lg + lt + ls + lu + lw = n
        /\ Follow(u, lg + lt + ls) /\ Follow(w, lg + lt + ls + lu)
    BY <1>2, <2>1
  <2>. QED BY <1>2, <2>1, <2>2 DEF Chain, lt, ls, lg, lu, lw
<1>6. ASSUME Shift(u, a, s, t) PROVE Chain(g, d, t, s, w, n)
  <2>1. /\ lt \in Nat /\ ls \in Nat /\ lg + ld + lt + ls = lg + ld + la + lu
        /\ Follow(t, lg + ld) /\ Follow(s, lg + ld + lt)
    <3>1. PICK m \in 1..lu :
            /\ s \in Seq(Nat) /\ t \in Seq(Nat)
            /\ lt = la + m /\ ls = lu - m
            /\ \A k \in Nat : Follow(a, k) /\ Follow(u, k + la)
                                => Follow(t, k) /\ Follow(s, k + lt)
      BY <1>6 DEF Shift, lt, ls, la, lu
    <3>2. lt \in Nat /\ ls \in Nat /\ lg + ld + lt + ls = lg + ld + la + lu
          /\ lg + ld \in Nat
      BY <1>1, <3>1
    <3>. QED BY <1>2, <3>1, <3>2
  <2>2. lg + ld + lt + ls + lw = n /\ Follow(w, lg + ld + lt + ls)
    BY <1>2, <2>1
  <2>. QED BY <1>2, <2>1, <2>2 DEF Chain, lt, ls, lg, ld, lw
<1>7. ASSUME Shift(w, u, s, t) PROVE Chain(g, d, a, t, s, n)
  <2>1. PICK m \in 1..lw :
          /\ s \in Seq(Nat) /\ t \in Seq(Nat)
          /\ lt = lu + m /\ ls = lw - m
          /\ \A k \in Nat : Follow(u, k) /\ Follow(w, k + lu)
                              => Follow(t, k) /\ Follow(s, k + lt)
    BY <1>7 DEF Shift, lt, ls, lw, lu
  <2>2. /\ lt \in Nat /\ ls \in Nat /\ lg + ld + la + lt + ls = lg + ld + la + lu + lw
        /\ lg + ld + la \in Nat
    BY <1>1, <2>1
  <2>3. Follow(t, lg + ld + la) /\ Follow(s, lg + ld + la + lt)
    BY <1>2, <2>1, <2>2
  <2>. QED BY <1>2, <2>2, <2>3 DEF Chain, lt, ls, lg, ld, la
<1>. QED BY <1>4, <1>5, <1>6, <1>7

\* What moves in each action that moves bytes, and that the queues have room.
LEMMA WriteShifts ==
  ASSUME TcpTypeOK, NEW c \in TcpClients, Write(c)
  PROVE  /\ ~Broken(c) /\ cpc[c] = "write"
         /\ \/ /\ Len(to_send[c]) = 0 /\ cpc'[c] = "read"
               /\ UNCHANGED <<to_send, up>>
            \/ /\ Shift(to_send[c], up[c], to_send'[c], up'[c])
               /\ Len(up'[c]) <= SocketBuffer
               /\ \A o \in TcpClients \ {c} : to_send'[o] = to_send[o] /\ up'[o] = up[o]
               /\ {to_send', up'} \subseteq [TcpClients -> Seq(Nat)]
               /\ cpc'[c] = IF Len(to_send'[c]) = 0 THEN "read" ELSE "write"
         /\ cpc' \in [TcpClients -> {"none", "connect", "input", "write", "read",
                                     "done", "closed"}]
         /\ \A o \in TcpClients \ {c} : cpc'[o] = cpc[o]
         /\ UNCHANGED <<sent, got, lines, link, down, spc, data_, server>>
<1>1. to_send[c] \in Seq(Nat) /\ up[c] \in Seq(Nat) /\ Len(up[c]) <= SocketBuffer
      /\ Len(to_send[c]) \in Nat
  BY LenProperties DEF TcpTypeOK
<1>2. CASE /\ to_send[c] = <<>> /\ cpc' = [cpc EXCEPT ![c] = "read"]
           /\ UNCHANGED <<to_send, up>>
  BY <1>2, EmptySeq DEF Write, TcpTypeOK, sessionVars
<1>3. CASE ~(/\ to_send[c] = <<>> /\ cpc' = [cpc EXCEPT ![c] = "read"]
             /\ UNCHANGED <<to_send, up>>)
  <2>1. PICK n \in Writable(Len(to_send[c]), up[c]) :
          /\ up' = [up EXCEPT ![c] = @ \o Taken(n, to_send[c])]
          /\ to_send' = [to_send EXCEPT ![c] = Left(n, @)]
          /\ cpc' = IF to_send'[c] = <<>> THEN [cpc EXCEPT ![c] = "read"] ELSE cpc
    BY <1>3 DEF Write
  <2>2. n \in 1..Len(to_send[c]) /\ Len(up[c]) + n <= SocketBuffer
    BY <1>1, Limits
  <2> DEFINE front == up[c] \o Taken(n, to_send[c]) rest == Left(n, to_send[c])
  <2>3. Shift(to_send[c], up[c], rest, front) /\ Len(front) = Len(up[c]) + n
        /\ rest \in Seq(Nat) /\ front \in Seq(Nat)
    BY <1>1, <2>2, ShiftTaken
  <2> HIDE DEF front, rest
  <2>4. /\ up' = [up EXCEPT ![c] = front] /\ to_send' = [to_send EXCEPT ![c] = rest]
    BY <2>1 DEF front, rest
  <2>5. /\ up'[c] = front /\ to_send'[c] = rest
        /\ \A o \in TcpClients \ {c} : to_send'[o] = to_send[o] /\ up'[o] = up[o]
        /\ up' \in [TcpClients -> Seq(Nat)] /\ to_send' \in [TcpClients -> Seq(Nat)]
    BY <2>3, <2>4 DEF TcpTypeOK
  <2>6. rest = <<>> <=> Len(rest) = 0
    BY <2>3, EmptySeq
  <2>7. /\ cpc'[c] = IF Len(rest) = 0 THEN "read" ELSE "write"
        /\ cpc' \in [TcpClients -> {"none", "connect", "input", "write", "read",
                                    "done", "closed"}]
        /\ \A o \in TcpClients \ {c} : cpc'[o] = cpc[o]
    BY <2>1, <2>5, <2>6 DEF TcpTypeOK, Write
  <2>. QED BY <2>2, <2>3, <2>5, <2>7 DEF Write, sessionVars
<1>. QED BY <1>2, <1>3

\* The readings of both kinds of clients.
LEMMA ReadShifts ==
  ASSUME TcpTypeOK, NEW c \in TcpClients, AsyncRead(c) \/ BlockingRead(c),
         Len(got[c]) <= sent[c]
  PROVE  /\ ~Broken(c) /\ cpc[c] = "read" /\ cpc'[c] \in {"input", "read"}
         /\ Shift(down[c], got[c], down'[c], got'[c])
         /\ Len(down'[c]) <= SocketBuffer
         /\ \A o \in TcpClients \ {c} : /\ down'[o] = down[o] /\ got'[o] = got[o]
                                        /\ cpc'[o] = cpc[o]
         /\ {down', got'} \subseteq [TcpClients -> Seq(Nat)]
         /\ cpc' \in [TcpClients -> {"none", "connect", "input", "write", "read",
                                     "done", "closed"}]
         /\ UNCHANGED <<to_send, sent, lines, link, up, spc, data_, server>>
<1>1. got[c] \in Seq(Nat) /\ down[c] \in Seq(Nat) /\ Len(down[c]) <= SocketBuffer
  BY DEF TcpTypeOK
<1>2. MaxLength \in Nat /\ Outstanding(c) \in Nat /\ SocketBuffer \in Nat
  <2>1. sent[c] \in Nat /\ Len(got[c]) \in Nat
    BY <1>1, LenProperties DEF TcpTypeOK
  <2>. QED BY <2>1, TcpAssumption DEF Outstanding
<1>3. PICK n \in Nat :
        /\ n \in 1..Len(down[c])
        /\ got' = [got EXCEPT ![c] = @ \o Taken(n, down[c])]
        /\ down' = [down EXCEPT ![c] = Left(n, @)]
  <2>1. \E n \in Readable(MaxLength, down[c]) \cup Readable(Outstanding(c), down[c]) :
          /\ got' = [got EXCEPT ![c] = @ \o Taken(n, down[c])]
          /\ down' = [down EXCEPT ![c] = Left(n, @)]
    BY DEF AsyncRead, BlockingRead
  <2>2. \A n \in Readable(MaxLength, down[c]) \cup Readable(Outstanding(c), down[c]) :
          n \in 1..Len(down[c]) /\ n \in Nat
    BY <1>1, <1>2, Limits
  <2>. QED BY <2>1, <2>2
<1> DEFINE front == got[c] \o Taken(n, down[c]) rest == Left(n, down[c])
<1>4. Shift(down[c], got[c], rest, front) /\ Len(rest) <= Len(down[c])
      /\ rest \in Seq(Nat) /\ front \in Seq(Nat)
  BY <1>1, <1>3, ShiftTaken
<1> HIDE DEF front, rest
<1>5. got' = [got EXCEPT ![c] = front] /\ down' = [down EXCEPT ![c] = rest]
  BY <1>3 DEF front, rest
<1>6. /\ got'[c] = front /\ down'[c] = rest
      /\ \A o \in TcpClients \ {c} : down'[o] = down[o] /\ got'[o] = got[o]
      /\ got' \in [TcpClients -> Seq(Nat)] /\ down' \in [TcpClients -> Seq(Nat)]
  BY <1>4, <1>5 DEF TcpTypeOK
<1>7. Len(rest) <= SocketBuffer
  <2>1. Len(rest) \in Nat /\ Len(down[c]) \in Nat
    BY <1>1, <1>4, LenProperties
  <2>. QED BY <1>1, <1>2, <1>4, <2>1
<1>8. /\ ~Broken(c) /\ cpc[c] = "read" /\ cpc'[c] \in {"input", "read"}
      /\ \A o \in TcpClients \ {c} : cpc'[o] = cpc[o]
      /\ cpc' \in [TcpClients -> {"none", "connect", "input", "write", "read",
                                  "done", "closed"}]
  BY DEF AsyncRead, BlockingRead, TcpTypeOK
<1>. QED BY <1>4, <1>6, <1>7, <1>8 DEF AsyncRead, BlockingRead, sessionVars

\* A session reads when it has nothing to write.
LEMMA SessionReadShifts ==
  ASSUME TcpTypeOK, NEW c \in TcpClients, SessionRead(c), Len(data_[c]) = 0
  PROVE  /\ ~Broken(c) /\ spc[c] = "read" /\ spc'[c] = "write"
         /\ Shift(up[c], data_[c], up'[c], data_'[c])
         /\ Len(up'[c]) <= SocketBuffer /\ Len(data_'[c]) <= MaxLength
         /\ \A o \in TcpClients \ {c} : /\ up'[o] = up[o] /\ data_'[o] = data_[o]
                                        /\ spc'[o] = spc[o]
         /\ {up', data_'} \subseteq [TcpClients -> Seq(Nat)]
         /\ spc' \in [TcpClients -> {"none", "read", "write", "gone"}]
         /\ UNCHANGED <<cpc, to_send, sent, got, lines, link, down, server>>
<1>1. /\ up[c] \in Seq(Nat) /\ Len(up[c]) <= SocketBuffer /\ data_[c] = <<>>
      /\ data_[c] \in Seq(Nat)
  BY EmptySeq DEF TcpTypeOK
<1>2. MaxLength \in Nat /\ SocketBuffer \in Nat
  BY TcpAssumption
<1>3. PICK n \in Readable(MaxLength, up[c]) :
        /\ data_' = [data_ EXCEPT ![c] = Taken(n, up[c])]
        /\ up' = [up EXCEPT ![c] = Left(n, @)]
  BY DEF SessionRead, ReadLimit
<1>4. n \in 1..Len(up[c]) /\ n <= MaxLength
  BY <1>1, <1>2, <1>3, Limits
<1> DEFINE front == data_[c] \o Taken(n, up[c]) rest == Left(n, up[c])
<1>5. /\ Shift(up[c], data_[c], rest, front) /\ Len(rest) <= Len(up[c])
      /\ Len(front) = Len(data_[c]) + n
      /\ rest \in Seq(Nat) /\ front \in Seq(Nat)
  BY <1>1, <1>4, ShiftTaken
<1>6. front = Taken(n, up[c])
  <2>1. Taken(n, up[c]) \in Seq(Nat)
    BY <1>1, <1>4, Cut DEF Taken
  <2>. QED BY <1>1, <2>1, ConcatEmptySeq
<1> HIDE DEF front, rest
<1>7. data_' = [data_ EXCEPT ![c] = front] /\ up' = [up EXCEPT ![c] = rest]
  BY <1>3, <1>6 DEF rest
<1>8. /\ data_'[c] = front /\ up'[c] = rest
      /\ \A o \in TcpClients \ {c} : up'[o] = up[o] /\ data_'[o] = data_[o]
      /\ up' \in [TcpClients -> Seq(Nat)] /\ data_' \in [TcpClients -> Seq(Nat)]
  BY <1>5, <1>7 DEF TcpTypeOK
<1>9. Len(rest) <= SocketBuffer /\ Len(front) <= MaxLength
  <2>1. Len(rest) \in Nat /\ Len(up[c]) \in Nat
    BY <1>1, <1>5, LenProperties
  <2>2. Len(rest) <= SocketBuffer
    BY <1>1, <1>2, <1>5, <2>1
  <2>3. Len(front) = n
    BY <1>4, <1>5
  <2>. QED BY <1>4, <2>2, <2>3
<1>10. /\ ~Broken(c) /\ spc[c] = "read" /\ spc'[c] = "write"
       /\ \A o \in TcpClients \ {c} : spc'[o] = spc[o]
       /\ spc' \in [TcpClients -> {"none", "read", "write", "gone"}]
  BY DEF SessionRead, TcpTypeOK, Broken
<1>. QED BY <1>5, <1>8, <1>9, <1>10 DEF SessionRead, clientVars

\* And writes until it has none.
LEMMA SessionWriteShifts ==
  ASSUME TcpTypeOK, NEW c \in TcpClients, SessionWrite(c)
  PROVE  /\ ~Broken(c) /\ spc[c] = "write"
         /\ spc'[c] = IF Len(data_'[c]) = 0 THEN "read" ELSE "write"
         /\ Shift(data_[c], down[c], data_'[c], down'[c])
         /\ Len(down'[c]) <= SocketBuffer /\ Len(data_'[c]) <= MaxLength
         /\ \A o \in TcpClients \ {c} : /\ down'[o] = down[o] /\ data_'[o] = data_[o]
                                        /\ spc'[o] = spc[o]
         /\ {down', data_'} \subseteq [TcpClients -> Seq(Nat)]
         /\ spc' \in [TcpClients -> {"none", "read", "write", "gone"}]
         /\ UNCHANGED <<cpc, to_send, sent, got, lines, link, up, server>>
<1>1. /\ data_[c] \in Seq(Nat) /\ Len(data_[c]) <= MaxLength /\ Len(data_[c]) \in Nat
      /\ down[c] \in Seq(Nat) /\ Len(down[c]) <= SocketBuffer
  BY LenProperties DEF TcpTypeOK
<1>2. PICK n \in Writable(Len(data_[c]), down[c]) :
        /\ down' = [down EXCEPT ![c] = @ \o Taken(n, data_[c])]
        /\ data_' = [data_ EXCEPT ![c] = Left(n, @)]
  BY DEF SessionWrite
<1>3. n \in 1..Len(data_[c]) /\ Len(down[c]) + n <= SocketBuffer
  BY <1>1, <1>2, Limits
<1> DEFINE front == down[c] \o Taken(n, data_[c]) rest == Left(n, data_[c])
<1>4. /\ Shift(data_[c], down[c], rest, front) /\ Len(rest) <= Len(data_[c])
      /\ Len(front) = Len(down[c]) + n
      /\ rest \in Seq(Nat) /\ front \in Seq(Nat)
  BY <1>1, <1>3, ShiftTaken
<1> HIDE DEF front, rest
<1>5. down' = [down EXCEPT ![c] = front] /\ data_' = [data_ EXCEPT ![c] = rest]
  BY <1>2 DEF front, rest
<1>6. /\ down'[c] = front /\ data_'[c] = rest
      /\ \A o \in TcpClients \ {c} : down'[o] = down[o] /\ data_'[o] = data_[o]
      /\ down' \in [TcpClients -> Seq(Nat)] /\ data_' \in [TcpClients -> Seq(Nat)]
  BY <1>4, <1>5 DEF TcpTypeOK
<1>7. Len(front) <= SocketBuffer /\ Len(rest) <= MaxLength
  <2>1. Len(rest) \in Nat /\ MaxLength \in Nat
    BY <1>4, LenProperties, TcpAssumption
  <2>. QED BY <1>1, <1>3, <1>4, <2>1
<1>8. rest = <<>> <=> Len(rest) = 0
  BY <1>4, EmptySeq
<1>9. /\ ~Broken(c) /\ spc[c] = "write"
      /\ spc'[c] = IF Len(rest) = 0 THEN "read" ELSE "write"
      /\ \A o \in TcpClients \ {c} : spc'[o] = spc[o]
      /\ spc' \in [TcpClients -> {"none", "read", "write", "gone"}]
  BY <1>6, <1>8 DEF SessionWrite, AfterWrite, TcpTypeOK, Broken
<1>. QED BY <1>4, <1>6, <1>7, <1>9 DEF SessionWrite, clientVars

\* A line continues what was sent before.
LEMMA InputMoves ==
  ASSUME TcpTypeOK, NEW c \in TcpClients, Input(c)
  PROVE  /\ \E n \in Nat : /\ Len(to_send'[c]) = n /\ sent'[c] = sent[c] + n
                           /\ Follow(to_send'[c], sent[c])
         /\ to_send' \in [TcpClients -> Seq(Nat)] /\ sent' \in [TcpClients -> Nat]
         /\ lines' \in [TcpClients -> 0..MaxLines]
         /\ cpc[c] = "input" /\ cpc'[c] = "write"
         /\ cpc' \in [TcpClients -> {"none", "connect", "input", "write", "read",
                                     "done", "closed"}]
         /\ \A o \in TcpClients \ {c} : /\ to_send'[o] = to_send[o] /\ sent'[o] = sent[o]
                                        /\ cpc'[o] = cpc[o]
         /\ UNCHANGED <<got, link, up, down, spc, data_, server>>
<1>1. PICK n \in { RequestLength(c, m) : m \in MessageLengths } :
        /\ to_send' = [to_send EXCEPT ![c] = [b \in 1..n |-> sent[c] + b]]
        /\ sent' = [sent EXCEPT ![c] = @ + n]
  BY DEF Input
<1>2. n \in Nat
  <2>1. PICK m \in MessageLengths : n = RequestLength(c, m)
    BY <1>1
  <2>2. m \in Nat /\ MaxLength - 1 \in Nat
    BY TcpAssumption
  <2>3. Min({m, MaxLength - 1}) \in Nat
    <3> DEFINE k == MaxLength - 1
    <3>1. k \in Nat
      BY <2>2
    <3> HIDE DEF k
    <3>2. \E x \in {m, k} : \A y \in {m, k} : x <= y
      BY <2>2, <3>1
    <3>3. Min({m, k}) \in {m, k}
      BY <3>2 DEF Min
    <3>. QED BY <2>2, <3>1, <3>3 DEF k
  <2>. QED BY <2>1, <2>2, <2>3 DEF RequestLength
<1> DEFINE line == [b \in 1..n |-> sent[c] + b]
<1>3. sent[c] \in Nat
  BY DEF TcpTypeOK
<1>4. line \in Seq(Nat) /\ Len(line) = n /\ Follow(line, sent[c])
  <2>1. line \in [1..n -> Nat]
    BY <1>2, <1>3
  <2>2. line \in Seq(Nat)
    BY ONLY <1>2, <2>1, SeqDef
  <2>3. DOMAIN line = 1..n
    BY <2>1
  <2>4. Len(line) = n
    BY <1>2, <2>2, <2>3, LenProperties
  <2>. QED BY <2>2, <2>4 DEF Follow
<1>5. to_send' = [to_send EXCEPT ![c] = line]
  BY <1>1
<1> HIDE DEF line
<1>6. /\ to_send'[c] = line /\ to_send' \in [TcpClients -> Seq(Nat)]
      /\ \A o \in TcpClients \ {c} : to_send'[o] = to_send[o]
  BY <1>4, <1>5 DEF TcpTypeOK
<1>7. /\ sent'[c] = sent[c] + n /\ sent' \in [TcpClients -> Nat]
      /\ \A o \in TcpClients \ {c} : sent'[o] = sent[o]
  BY <1>1, <1>2 DEF TcpTypeOK
<1>8. lines' \in [TcpClients -> 0..MaxLines]
  BY TcpAssumption DEF Input, TcpTypeOK
<1>9. /\ cpc[c] = "input" /\ cpc'[c] = "write"
      /\ cpc' \in [TcpClients -> {"none", "connect", "input", "write", "read",
                                  "done", "closed"}]
      /\ \A o \in TcpClients \ {c} : cpc'[o] = cpc[o]
  BY DEF Input, TcpTypeOK
<1>. QED BY <1>2, <1>4, <1>6, <1>7, <1>8, <1>9 DEF Input, sessionVars

\* What the premises of these lemmas ask for.
LEMMA TcpFacts ==
  ASSUME TcpInv, NEW c \in TcpClients
  PROVE  /\ Len(got[c]) \in Nat /\ Len(down[c]) \in Nat /\ Len(data_[c]) \in Nat
         /\ Len(up[c]) \in Nat /\ Len(to_send[c]) \in Nat /\ sent[c] \in Nat
         /\ got[c] \in Seq(Nat) /\ down[c] \in Seq(Nat) /\ data_[c] \in Seq(Nat)
         /\ up[c] \in Seq(Nat) /\ to_send[c] \in Seq(Nat)
         /\ Len(got[c]) <= sent[c]
         /\ spc[c] = "read" => Len(data_[c]) = 0
<1>1. /\ got[c] \in Seq(Nat) /\ down[c] \in Seq(Nat) /\ data_[c] \in Seq(Nat)
      /\ up[c] \in Seq(Nat) /\ to_send[c] \in Seq(Nat) /\ sent[c] \in Nat
  BY DEF TcpInv, TcpTypeOK
<1>2. /\ Len(got[c]) \in Nat /\ Len(down[c]) \in Nat /\ Len(data_[c]) \in Nat
      /\ Len(up[c]) \in Nat /\ Len(to_send[c]) \in Nat
  BY <1>1, LenProperties
<1>3. Len(got[c]) + Len(down[c]) + Len(data_[c]) + Len(up[c]) + Len(to_send[c]) <= sent[c]
  BY DEF TcpInv, BytesInv
<1>4. Len(got[c]) <= sent[c]
  <2>1. \A g, d, a, u, w, n \in Nat : g + d + a + u + w <= n => g <= n
    OBVIOUS
  <2>. QED BY <1>1, <1>2, <1>3, <2>1
<1>. QED BY <1>1, <1>2, <1>4 DEF TcpInv, TurnsInv

\* The types of the variables are kept.
LEMMA TcpTypeStep ==
  ASSUME TcpInv, [TcpNext]_tcpVars
  PROVE  TcpTypeOK'
<1> USE DEF clientVars, sessionVars
<1>1. TcpTypeOK /\ MaxLength \in Nat /\ SocketBuffer \in Nat
      /\ \A c \in TcpClients : /\ Len(got[c]) <= sent[c]
                               /\ spc[c] = "read" => Len(data_[c]) = 0
  BY TcpFacts, TcpAssumption DEF TcpInv
<1>2. \A c \in TcpClients : Len(up[c]) <= SocketBuffer /\ Len(down[c]) <= SocketBuffer
                            /\ Len(data_[c]) <= MaxLength
  BY <1>1 DEF TcpTypeOK
<1> DEFINE Bytes == [TcpClients -> Seq(Nat)]
<1>0. /\ to_send \in Bytes /\ got \in Bytes /\ up \in Bytes /\ down \in Bytes
      /\ data_ \in Bytes
  BY <1>1 DEF TcpTypeOK
<1>3. ASSUME NEW c \in TcpClients, Connect(c) PROVE TcpTypeOK'
  BY <1>1, <1>3 DEF TcpTypeOK, Connect
<1>4. ASSUME NEW c \in TcpClients, Input(c) PROVE TcpTypeOK'
  <2>1. {to_send', got', up', down', data_'} \subseteq [TcpClients -> Seq(Nat)]
    <3>1. to_send' \in Bytes /\ UNCHANGED <<got, up, down, data_>>
      BY <1>1, <1>4, InputMoves
    <3>. QED BY ONLY <1>0, <3>1
  <2>2. UNCHANGED <<up, down, data_, link, spc, server>>
    BY <1>1, <1>4, InputMoves
  <2>. QED BY <1>1, <1>4, <2>1, <2>2, InputMoves DEF TcpTypeOK
<1>5. ASSUME NEW c \in TcpClients, Write(c) PROVE TcpTypeOK'
  <2>1. CASE UNCHANGED <<to_send, up>>
    BY <1>1, <1>5, <2>1, WriteShifts, SMTT(20) DEF TcpTypeOK
  <2>2. CASE ~UNCHANGED <<to_send, up>>
    <3>1. \A o \in TcpClients : Len(up'[o]) <= SocketBuffer
      BY <1>1, <1>2, <1>5, <2>2, WriteShifts
    <3>2. {to_send', up'} \subseteq [TcpClients -> Seq(Nat)]
      BY <1>1, <1>5, <2>2, WriteShifts
    <3>3. {to_send', got', up', down', data_'} \subseteq [TcpClients -> Seq(Nat)]
      <4>1. UNCHANGED <<got, down, data_>>
        BY <1>1, <1>5, WriteShifts
      <4>. QED BY ONLY <1>0, <3>2, <4>1
    <3>4. UNCHANGED <<sent, lines, link, down, spc, data_, server>>
      BY <1>1, <1>5, WriteShifts
    <3>. QED BY <1>1, <1>2, <1>5, <3>1, <3>3, <3>4, WriteShifts DEF TcpTypeOK
  <2>. QED BY <2>1, <2>2
<1>6. ASSUME NEW c \in TcpClients, AsyncRead(c) \/ BlockingRead(c) PROVE TcpTypeOK'
  <2>1. \A o \in TcpClients : Len(down'[o]) <= SocketBuffer
    BY <1>1, <1>2, <1>6, ReadShifts
  <2>. QED BY <1>1, <1>6, <2>1, ReadShifts, SMTT(20) DEF TcpTypeOK
<1>7. ASSUME NEW c \in TcpClients, Leave(c) PROVE TcpTypeOK'
  BY <1>1, <1>7 DEF TcpTypeOK, Leave
<1>8. ASSUME NEW c \in TcpClients, ClientFails(c) PROVE TcpTypeOK'
  BY <1>1, <1>8 DEF TcpTypeOK, ClientFails
<1>9. ASSUME NEW c \in TcpClients, Accept(c) \/ AcceptFails(c) \/ SessionEnds(c)
      PROVE  TcpTypeOK'
  <2>1. /\ spc' \in [TcpClients -> {"none", "read", "write", "gone"}]
        /\ UNCHANGED <<cpc, to_send, sent, got, lines, link, up, down, data_, server>>
    BY <1>1, <1>9 DEF TcpTypeOK, Accept, AcceptFails, SessionEnds
  <2>. QED BY <1>1, <2>1 DEF TcpTypeOK
<1>10. ASSUME NEW c \in TcpClients, AcceptThrows(c) PROVE TcpTypeOK'
  BY <1>1, <1>10 DEF TcpTypeOK, AcceptThrows
<1>11. ASSUME NEW c \in TcpClients, SessionRead(c) PROVE TcpTypeOK'
  <2>1. Len(data_[c]) = 0
    BY <1>1, <1>11 DEF SessionRead
  <2>2. \A o \in TcpClients : Len(up'[o]) <= SocketBuffer /\ Len(data_'[o]) <= MaxLength
    BY <1>1, <1>2, <1>11, <2>1, SessionReadShifts
  <2>. QED BY <1>1, <1>11, <2>1, <2>2, SessionReadShifts DEF TcpTypeOK
<1>12. ASSUME NEW c \in TcpClients, SessionWrite(c) PROVE TcpTypeOK'
  <2>1. \A o \in TcpClients : Len(down'[o]) <= SocketBuffer /\ Len(data_'[o]) <= MaxLength
    BY <1>1, <1>2, <1>12, SessionWriteShifts
  <2>2. {to_send', got', up', down', data_'} \subseteq [TcpClients -> Seq(Nat)]
    <3>1. {down', data_'} \subseteq Bytes /\ UNCHANGED <<got, up, to_send>>
      BY <1>1, <1>12, SessionWriteShifts
    <3>. QED BY ONLY <1>0, <3>1
  <2>3. /\ UNCHANGED <<cpc, sent, lines, link, up, server>>
        /\ spc' \in [TcpClients -> {"none", "read", "write", "gone"}]
    BY <1>1, <1>12, SessionWriteShifts
  <2>. QED BY <1>1, <1>2, <2>1, <2>2, <2>3 DEF TcpTypeOK
<1>13. ASSUME NEW c \in TcpClients, Reset(c) PROVE TcpTypeOK'
  <2>1. <<>> \in Seq(Nat) /\ Len(<<>>) = 0
    BY EmptySeq
  <2>. QED BY <1>1, <1>13, <2>1 DEF TcpTypeOK, Reset
<1>14. CASE UNCHANGED tcpVars
  BY <1>1, <1>14 DEF TcpTypeOK, tcpVars
<1>. QED BY <1>3, <1>4, <1>5, <1>6, <1>7, <1>8, <1>9, <1>10, <1>11, <1>12, <1>13, <1>14
         DEF TcpNext, ClientStep, SessionStep

\* Who has nothing left to write goes on.
LEMMA TurnsStep ==
  ASSUME TcpInv, [TcpNext]_tcpVars
  PROVE  TurnsInv'
<1> USE DEF clientVars, sessionVars
<1> DEFINE
  Turn(at, w, s, a, l) ==
    /\ at \in {"none", "connect", "input", "read"} => w = 0
    /\ s \in {"none", "read"} => a = 0
    /\ at \in {"none", "connect"} => l = "none"
  Now(c) == Turn(cpc[c], Len(to_send[c]), spc[c], Len(data_[c]), link[c])
  Then(c) == Turn(cpc'[c], Len(to_send'[c]), spc'[c], Len(data_'[c]), link'[c])
  Same(c) == /\ cpc'[c] = cpc[c] /\ to_send'[c] = to_send[c] /\ spc'[c] = spc[c]
             /\ data_'[c] = data_[c] /\ link'[c] = link[c]
<1>1. TcpTypeOK /\ \A c \in TcpClients : /\ Len(got[c]) <= sent[c]
                                         /\ spc[c] = "read" => Len(data_[c]) = 0
  BY TcpFacts DEF TcpInv
<1>2. \A c \in TcpClients : Now(c)
  BY DEF TcpInv, TurnsInv
<1>3. SUFFICES \A c \in TcpClients : Then(c)
  BY DEF TurnsInv
<1>4. \A c \in TcpClients : Same(c) => Then(c)
  BY <1>2
<1>5. ASSUME NEW c \in TcpClients, Connect(c)
      PROVE  Then(c) /\ \A o \in TcpClients \ {c} : Same(o)
  BY <1>1, <1>2, <1>5 DEF TcpTypeOK, Connect
<1>6. ASSUME NEW c \in TcpClients, Input(c)
      PROVE  Then(c) /\ \A o \in TcpClients \ {c} : Same(o)
  BY <1>1, <1>2, <1>6, InputMoves
<1>7. ASSUME NEW c \in TcpClients, Write(c)
      PROVE  Then(c) /\ \A o \in TcpClients \ {c} : Same(o)
  BY <1>1, <1>2, <1>7, WriteShifts
<1>8. ASSUME NEW c \in TcpClients, AsyncRead(c) \/ BlockingRead(c)
      PROVE  Then(c) /\ \A o \in TcpClients \ {c} : Same(o)
  BY <1>1, <1>2, <1>8, ReadShifts
<1>9. ASSUME NEW c \in TcpClients, Leave(c) \/ ClientFails(c)
      PROVE  Then(c) /\ \A o \in TcpClients \ {c} : Same(o)
  BY <1>1, <1>2, <1>9 DEF TcpTypeOK, Leave, ClientFails
<1>10. ASSUME NEW c \in TcpClients, Accept(c) \/ AcceptFails(c) \/ SessionEnds(c)
       PROVE  Then(c) /\ \A o \in TcpClients \ {c} : Same(o)
  BY <1>1, <1>2, <1>10 DEF TcpTypeOK, Accept, AcceptFails, SessionEnds
<1>11. ASSUME NEW c \in TcpClients, AcceptThrows(c) PROVE \A o \in TcpClients : Then(o)
  BY <1>1, <1>2, <1>11 DEF TcpTypeOK, AcceptThrows
<1>12. ASSUME NEW c \in TcpClients, SessionRead(c)
       PROVE  Then(c) /\ \A o \in TcpClients \ {c} : Same(o)
  <2>1. Len(data_[c]) = 0
    BY <1>1, <1>12 DEF SessionRead
  <2>. QED BY <1>1, <1>2, <1>12, <2>1, SessionReadShifts
<1>13. ASSUME NEW c \in TcpClients, SessionWrite(c)
       PROVE  Then(c) /\ \A o \in TcpClients \ {c} : Same(o)
  BY <1>1, <1>2, <1>13, SessionWriteShifts
<1>14. ASSUME NEW c \in TcpClients, Reset(c)
       PROVE  Then(c) /\ \A o \in TcpClients \ {c} : Same(o)
  BY <1>1, <1>2, <1>14 DEF TcpTypeOK, Reset
<1>15. CASE UNCHANGED tcpVars
  BY <1>4, <1>15 DEF tcpVars
<1> HIDE DEF Then, Same
<1>. QED BY <1>4, <1>5, <1>6, <1>7, <1>8, <1>9, <1>10, <1>11, <1>12, <1>13, <1>14, <1>15
         DEF TcpNext, ClientStep, SessionStep

\* In every step the bytes of each client stay in their order.
LEMMA BytesStep ==
  ASSUME TcpInv, [TcpNext]_tcpVars
  PROVE  BytesInv'
<1> USE DEF clientVars, sessionVars
<1> DEFINE
  Sum(g, d, a, u, w) == Len(g) + Len(d) + Len(a) + Len(u) + Len(w)
  Fine(g, d, a, u, w, n, l) ==
    /\ Follow(g, 0)
    /\ Sum(g, d, a, u, w) <= n
    /\ l # "reset" => Chain(g, d, a, u, w, n)
  Now(c) == Fine(got[c], down[c], data_[c], up[c], to_send[c], sent[c], link[c])
  Then(c) == Fine(got'[c], down'[c], data_'[c], up'[c], to_send'[c], sent'[c], link'[c])
  Same(c) == /\ got'[c] = got[c] /\ down'[c] = down[c] /\ data_'[c] = data_[c]
             /\ up'[c] = up[c] /\ to_send'[c] = to_send[c] /\ sent'[c] = sent[c]
             /\ link'[c] = link[c]
<1>1. TcpTypeOK /\ \A c \in TcpClients :
        /\ Len(got[c]) \in Nat /\ Len(down[c]) \in Nat /\ Len(data_[c]) \in Nat
        /\ Len(up[c]) \in Nat /\ Len(to_send[c]) \in Nat /\ sent[c] \in Nat
        /\ got[c] \in Seq(Nat) /\ down[c] \in Seq(Nat) /\ data_[c] \in Seq(Nat)
        /\ up[c] \in Seq(Nat) /\ to_send[c] \in Seq(Nat)
        /\ Len(got[c]) <= sent[c]
        /\ spc[c] = "read" => Len(data_[c]) = 0
        /\ cpc[c] \in {"none", "connect", "input", "read"} => Len(to_send[c]) = 0
        /\ cpc[c] \in {"none", "connect"} => link[c] = "none"
  BY TcpFacts DEF TcpInv, TurnsInv
<1>2. \A c \in TcpClients : Now(c)
  BY DEF TcpInv, BytesInv, Broken
<1>3. SUFFICES \A c \in TcpClients : Then(c)
  BY DEF BytesInv, Broken
<1>4. \A c \in TcpClients : Same(c) => Then(c)
  <2> HIDE DEF Fine
  <2>. QED BY <1>2
\* A chain is as long as it should be.
<1>5. ASSUME NEW g, NEW d, NEW a, NEW u, NEW w, NEW n \in Nat, NEW l, Chain(g, d, a, u, w, n)
      PROVE  Fine(g, d, a, u, w, n, l)
  BY <1>5 DEF Chain
\* Shifts keep chains.
<1>6. ASSUME NEW c \in TcpClients, ~Broken(c), sent'[c] = sent[c], link'[c] = link[c],
             \/ /\ Shift(down[c], got[c], down'[c], got'[c])
                /\ UNCHANGED <<data_, up, to_send>>
             \/ /\ Shift(data_[c], down[c], data_'[c], down'[c])
                /\ UNCHANGED <<got, up, to_send>>
             \/ /\ Shift(up[c], data_[c], up'[c], data_'[c])
                /\ UNCHANGED <<got, down, to_send>>
             \/ /\ Shift(to_send[c], up[c], to_send'[c], up'[c])
                /\ UNCHANGED <<got, down, data_>>
      PROVE  Then(c)
  <2>1. Chain(got[c], down[c], data_[c], up[c], to_send[c], sent[c])
    BY <1>2, <1>6 DEF Broken
  <2>2. Chain(got'[c], down'[c], data_'[c], up'[c], to_send'[c], sent[c])
    <3>1. /\ got[c] \in Seq(Nat) /\ down[c] \in Seq(Nat) /\ data_[c] \in Seq(Nat)
          /\ up[c] \in Seq(Nat) /\ to_send[c] \in Seq(Nat) /\ sent[c] \in Nat
      BY <1>1
    <3>2. CASE /\ Shift(down[c], got[c], down'[c], got'[c])
               /\ UNCHANGED <<data_, up, to_send>>
      <4>1. Chain(got'[c], down'[c], data_[c], up[c], to_send[c], sent[c])
        BY ONLY <2>1, <3>1, <3>2, ChainShifts
      <4>. QED BY <3>2, <4>1
    <3>3. CASE /\ Shift(data_[c], down[c], data_'[c], down'[c])
               /\ UNCHANGED <<got, up, to_send>>
      <4>1. Chain(got[c], down'[c], data_'[c], up[c], to_send[c], sent[c])
        BY ONLY <2>1, <3>1, <3>3, ChainShifts
      <4>. QED BY <3>3, <4>1
    <3>4. CASE /\ Shift(up[c], data_[c], up'[c], data_'[c])
               /\ UNCHANGED <<got, down, to_send>>
      <4>1. Chain(got[c], down[c], data_'[c], up'[c], to_send[c], sent[c])
        BY ONLY <2>1, <3>1, <3>4, ChainShifts
      <4>. QED BY <3>4, <4>1
    <3>5. CASE /\ Shift(to_send[c], up[c], to_send'[c], up'[c])
               /\ UNCHANGED <<got, down, data_>>
      <4>1. Chain(got[c], down[c], data_[c], up'[c], to_send'[c], sent[c])
        BY ONLY <2>1, <3>1, <3>5, ChainShifts
      <4>. QED BY <3>5, <4>1
    <3>. QED BY <1>6, <3>2, <3>3, <3>4, <3>5
  <2>3. sent'[c] \in Nat /\ sent'[c] = sent[c]
    BY <1>1, <1>6
  <2> HIDE DEF Fine
  <2>. QED BY <1>5, <2>2, <2>3
<1>7. ASSUME NEW c \in TcpClients, Connect(c)
      PROVE  Then(c) /\ \A o \in TcpClients \ {c} : Same(o)
  <2>1. /\ link[c] # "reset" /\ UNCHANGED <<got, down, data_, up, to_send, sent>>
        /\ \A o \in TcpClients \ {c} : link'[o] = link[o]
    BY <1>1, <1>7 DEF Connect, TcpTypeOK
  <2>2. Chain(got[c], down[c], data_[c], up[c], to_send[c], sent[c])
    BY <1>2, <2>1
  <2>3. Then(c)
    <3> HIDE DEF Fine
    <3>. QED BY <1>1, <1>5, <2>1, <2>2
  <2>. QED BY <2>1, <2>3
<1>8. ASSUME NEW c \in TcpClients, Input(c)
      PROVE  Then(c) /\ \A o \in TcpClients \ {c} : Same(o)
  <2>1. PICK n \in Nat : /\ Len(to_send'[c]) = n /\ sent'[c] = sent[c] + n
                         /\ Follow(to_send'[c], sent[c])
    BY <1>1, <1>8, InputMoves
  <2>2. /\ Len(to_send[c]) = 0 /\ UNCHANGED <<got, down, data_, up, link>>
        /\ \A o \in TcpClients \ {c} : Same(o)
    BY <1>1, <1>8, InputMoves
  <2> DEFINE g == Len(got[c]) d == Len(down[c]) a == Len(data_[c]) u == Len(up[c])
             w == Len(to_send[c]) m == sent[c]
  <2>3. /\ g \in Nat /\ d \in Nat /\ a \in Nat /\ u \in Nat /\ w = 0 /\ m \in Nat
        /\ g + d + a + u + w <= m
    BY <1>1, <1>2, <2>2
  <2>4. link[c] # "reset" => g + d + a + u + w = m
    BY <1>2 DEF Chain
  <2> HIDE DEF g, d, a, u, w, m
  <2>5. /\ g + d + a + u + n <= m + n
        /\ link[c] # "reset" => g + d + a + u = m /\ g + d + a + u + n = m + n
    BY <2>3, <2>4
  <2>6. Sum(got'[c], down'[c], data_'[c], up'[c], to_send'[c]) <= sent'[c]
    BY <2>1, <2>2, <2>5 DEF g, d, a, u, m
  <2>7. link[c] # "reset" =>
          Chain(got'[c], down'[c], data_'[c], up'[c], to_send'[c], sent'[c])
    <3>1. SUFFICES ASSUME link[c] # "reset"
                   PROVE  Chain(got[c], down[c], data_[c], up[c], to_send'[c], sent'[c])
      BY <2>2
    <3>2. /\ Follow(got[c], 0) /\ Follow(down[c], g) /\ Follow(data_[c], g + d)
          /\ Follow(up[c], g + d + a)
      BY <1>2, <3>1 DEF Chain, g, d, a
    <3>3. Follow(to_send'[c], g + d + a + u)
      BY <2>1, <2>5, <3>1 DEF m
    <3>4. g + d + a + u + Len(to_send'[c]) = sent'[c]
      BY <2>1, <2>5, <3>1 DEF m
    <3>. QED BY <3>2, <3>3, <3>4 DEF Chain, g, d, a, u
  <2>8. Then(c)
    BY <1>2, <2>2, <2>6, <2>7
  <2>. QED BY <2>2, <2>8
<1>9. ASSUME NEW c \in TcpClients, Write(c)
      PROVE  Then(c) /\ \A o \in TcpClients \ {c} : Same(o)
  <2>1. \A o \in TcpClients \ {c} : Same(o)
    BY <1>1, <1>9, WriteShifts
  <2>2. \/ Same(c)
        \/ /\ ~Broken(c) /\ sent' = sent /\ link' = link
           /\ Shift(to_send[c], up[c], to_send'[c], up'[c])
           /\ UNCHANGED <<got, down, data_>>
    BY <1>1, <1>9, WriteShifts
  <2> HIDE DEF Then, Same
  <2>3. CASE Same(c)
    BY <1>4, <2>1, <2>3
  <2>4. CASE ~Same(c)
    BY <1>6, <2>1, <2>2, <2>4
  <2>. QED BY <2>3, <2>4
<1>10. ASSUME NEW c \in TcpClients, AsyncRead(c) \/ BlockingRead(c)
       PROVE  Then(c) /\ \A o \in TcpClients \ {c} : Same(o)
  <2>1. /\ ~Broken(c) /\ sent' = sent /\ link' = link
        /\ Shift(down[c], got[c], down'[c], got'[c]) /\ UNCHANGED <<data_, up, to_send>>
        /\ \A o \in TcpClients \ {c} : Same(o)
    BY <1>1, <1>10, ReadShifts
  <2> HIDE DEF Then, Same
  <2>. QED BY <1>6, <2>1
<1>11. ASSUME NEW c \in TcpClients, SessionRead(c)
       PROVE  Then(c) /\ \A o \in TcpClients \ {c} : Same(o)
  <2>1. Len(data_[c]) = 0
    BY <1>1, <1>11 DEF SessionRead
  <2>2. /\ ~Broken(c) /\ sent' = sent /\ link' = link
        /\ Shift(up[c], data_[c], up'[c], data_'[c]) /\ UNCHANGED <<got, down, to_send>>
        /\ \A o \in TcpClients \ {c} : Same(o)
    BY <1>1, <1>11, <2>1, SessionReadShifts
  <2> HIDE DEF Then, Same
  <2>. QED BY <1>6, <2>2
<1>12. ASSUME NEW c \in TcpClients, SessionWrite(c)
       PROVE  Then(c) /\ \A o \in TcpClients \ {c} : Same(o)
  <2>1. /\ ~Broken(c) /\ sent' = sent /\ link' = link
        /\ Shift(data_[c], down[c], data_'[c], down'[c]) /\ UNCHANGED <<got, up, to_send>>
        /\ \A o \in TcpClients \ {c} : Same(o)
    BY <1>1, <1>12, SessionWriteShifts
  <2> HIDE DEF Then, Same
  <2>. QED BY <1>6, <2>1
\* A client that leaves has read everything, whether or not the connection is
\* broken.
<1>13. ASSUME NEW c \in TcpClients, Leave(c)
       PROVE  Then(c) /\ \A o \in TcpClients \ {c} : Same(o)
  <2>1. /\ sent[c] - Len(got[c]) = 0
        /\ UNCHANGED <<to_send, sent, got, up, down, data_>>
        /\ \A o \in TcpClients \ {c} : Same(o)
    BY <1>1, <1>13 DEF Leave, Outstanding, TcpTypeOK
  <2> DEFINE g == Len(got[c]) d == Len(down[c]) a == Len(data_[c]) u == Len(up[c])
             w == Len(to_send[c])
  <2>2. /\ g \in Nat /\ d \in Nat /\ a \in Nat /\ u \in Nat /\ w \in Nat
        /\ g + d + a + u + w <= sent[c] /\ sent[c] - g = 0 /\ sent[c] \in Nat
    BY <1>1, <1>2, <2>1
  <2> HIDE DEF g, d, a, u, w
  <2>3. d = 0 /\ a = 0 /\ u = 0 /\ w = 0 /\ g + d + a + u + w = sent[c]
    BY <2>2
  <2>4. \A s \in Seq(Nat) : Len(s) = 0 => \A k : Follow(s, k)
    BY LenProperties DEF Follow
  <2>5. /\ \A k : /\ Follow(down[c], k) /\ Follow(data_[c], k)
                  /\ Follow(up[c], k) /\ Follow(to_send[c], k)
    BY <1>1, <2>3, <2>4 DEF d, a, u, w
  <2>6. Follow(got[c], 0)
    BY <1>2
  <2>7. Chain(got[c], down[c], data_[c], up[c], to_send[c], sent[c])
    BY <2>3, <2>5, <2>6 DEF Chain, g, d, a, u, w
  <2>8. Then(c)
    <3> HIDE DEF Fine
    <3>. QED BY <1>1, <1>5, <2>1, <2>7
  <2>. QED BY <2>1, <2>8
<1>14. ASSUME NEW c \in TcpClients,
              ClientFails(c) \/ Accept(c) \/ AcceptFails(c) \/ SessionEnds(c)
       PROVE  \A o \in TcpClients : Same(o)
  BY <1>14 DEF ClientFails, Accept, AcceptFails, SessionEnds
<1>15. ASSUME NEW c \in TcpClients, AcceptThrows(c) PROVE \A o \in TcpClients : Then(o)
  <2>1. \A o \in TcpClients :
          /\ link'[o] # "reset" => link'[o] = link[o]
          /\ got'[o] = got[o] /\ down'[o] = down[o] /\ data_'[o] = data_[o]
          /\ up'[o] = up[o] /\ to_send'[o] = to_send[o] /\ sent'[o] = sent[o]
    BY <1>1, <1>15 DEF AcceptThrows, TcpTypeOK
  <2>. QED BY <1>2, <2>1
<1>16. ASSUME NEW c \in TcpClients, Reset(c)
       PROVE  Then(c) /\ \A o \in TcpClients \ {c} : Same(o)
  <2>1. /\ link'[c] = "reset" /\ up'[c] = <<>> /\ down'[c] = <<>>
        /\ UNCHANGED <<got, data_, to_send, sent>>
        /\ \A o \in TcpClients \ {c} : Same(o)
    BY <1>1, <1>16 DEF Reset, TcpTypeOK
  <2>2. Len(<<>>) = 0 /\ Len(up'[c]) = 0 /\ Len(down'[c]) = 0
    BY <2>1, EmptySeq
  <2> DEFINE g == Len(got[c]) d == Len(down[c]) a == Len(data_[c]) u == Len(up[c])
             w == Len(to_send[c])
  <2>3. /\ g \in Nat /\ d \in Nat /\ a \in Nat /\ u \in Nat /\ w \in Nat
        /\ g + d + a + u + w <= sent[c] /\ sent[c] \in Nat
    BY <1>1, <1>2
  <2> HIDE DEF g, d, a, u, w
  <2>4. g + 0 + a + 0 + w <= sent[c]
    BY <2>3
  <2>5. Sum(got'[c], down'[c], data_'[c], up'[c], to_send'[c]) <= sent'[c]
    BY <2>1, <2>2, <2>4 DEF g, a, w
  <2>6. Follow(got'[c], 0)
    BY <1>2, <2>1
  <2>7. Then(c)
    BY <2>1, <2>5, <2>6
  <2>. QED BY <2>1, <2>7
<1>17. CASE UNCHANGED tcpVars
  BY <1>4, <1>17 DEF tcpVars
<1> HIDE DEF Then, Same
<1>. QED BY <1>4, <1>7, <1>8, <1>9, <1>10, <1>11, <1>12, <1>13, <1>14, <1>15, <1>16, <1>17
         DEF TcpNext, ClientStep, SessionStep

\* A sequence that another one follows.
LEMMA FollowJoined ==
  ASSUME NEW s \in Seq(Nat), NEW t \in Seq(Nat), NEW n \in Nat,
         Follow(s, n), Follow(t, n + Len(s))
  PROVE  /\ s \o t \in Seq(Nat) /\ Len(s \o t) = Len(s) + Len(t)
         /\ Follow(s \o t, n)
<1>1. /\ s \o t \in Seq(Nat) /\ Len(s \o t) = Len(s) + Len(t) /\ Len(s) \in Nat
      /\ DOMAIN s = 1..Len(s) /\ DOMAIN (s \o t) = 1..Len(s) + Len(t)
      /\ Len(t) \in Nat
      /\ \A i \in DOMAIN s : (s \o t)[i] = s[i]
      /\ \A i \in DOMAIN (s \o t) : i \in DOMAIN s
           \/ (i - Len(s) \in DOMAIN t /\ (s \o t)[i] = t[i - Len(s)])
  BY Joined
<1>2. ASSUME NEW i \in DOMAIN (s \o t) PROVE (s \o t)[i] = n + i
  <2>1. CASE i \in DOMAIN s
    BY <1>1, <2>1 DEF Follow
  <2>2. CASE i - Len(s) \in DOMAIN t /\ (s \o t)[i] = t[i - Len(s)]
    <3>1. t[i - Len(s)] = n + Len(s) + (i - Len(s))
      BY <2>2 DEF Follow
    <3>2. i \in Nat
      BY <1>1
    <3>. QED BY <1>1, <2>2, <3>1, <3>2
  <2>. QED BY <1>1, <2>1, <2>2
<1>. QED BY <1>1, <1>2 DEF Follow

\* The numbers from 1 on.
LEMMA FromOne ==
  ASSUME NEW s \in Seq(Nat), NEW n \in Nat, Follow(s, 0), Len(s) <= n
  PROVE  /\ IsPrefix(s, [b \in 1..n |-> b])
         /\ Len(s) = n => s = [b \in 1..n |-> b]
<1> DEFINE all == [b \in 1..n |-> b]
           m == Len(s)
<1>1. all \in Seq(Nat) /\ Len(all) = n
  <2>1. all \in [1..n -> Nat]
    OBVIOUS
  <2>2. all \in Seq(Nat)
    BY ONLY <2>1, SeqDef, n \in Nat
  <2>3. DOMAIN all = 1..n
    OBVIOUS
  <2>. QED BY <2>2, <2>3, LenProperties
<1>2. m \in Nat /\ m <= n /\ \A i \in 1..m : s[i] = i /\ all[i] = i
  BY LenProperties DEF Follow
<1>3. Len(s) = n => s = all
  <2> SUFFICES ASSUME m = n PROVE s = all
    OBVIOUS
  <2>1. \A i \in 1..m : s[i] = all[i]
    BY <1>2
  <2> HIDE DEF all
  <2>. QED BY <1>1, <2>1, SeqEqual
<1>4. IsPrefix(s, all)
  <2> HIDE DEF all, m
  <2>1. m \in Int /\ m <= n /\ 1 \in Int /\ m - 1 + 1 = m
        /\ (IF 1 <= m THEN m - 1 + 1 ELSE 0) = m
        /\ \A i \in 1..m : 1 + i - 1 = i /\ i \in 1..n
    BY <1>2
  <2>2. ASSUME NEW q \in Seq(Nat), m <= Len(q)
        PROVE  /\ SubSeq(q, 1, m) \in Seq(Nat) /\ Len(SubSeq(q, 1, m)) = m
               /\ \A i \in 1..m : SubSeq(q, 1, m)[i] = q[i]
    <3>1. \A i \in 1..m : q[i] \in Nat
      <4>1. Len(q) \in Nat /\ \A i \in 1..Len(q) : q[i] \in Nat
        BY LenProperties, ElementOfSeq
      <4>. QED BY <1>2, <2>2, <4>1
    <3>2. /\ SubSeq(q, 1, m) \in Seq(Nat)
          /\ Len(SubSeq(q, 1, m)) = IF 1 <= m THEN m - 1 + 1 ELSE 0
          /\ \A i \in 1..m - 1 + 1 : SubSeq(q, 1, m)[i] = q[1 + i - 1]
      BY <2>1, <3>1, SubSeqProperties
    <3>. QED BY <2>1, <3>2
  <2> DEFINE a == SubSeq(s, 1, m) b == SubSeq(all, 1, m)
  <2>3. a \in Seq(Nat) /\ Len(a) = m /\ \A i \in 1..m : a[i] = s[i]
    BY <2>2, <1>2 DEF m
  <2>4. b \in Seq(Nat) /\ Len(b) = m /\ \A i \in 1..m : b[i] = all[i]
    BY <1>1, <1>2, <2>2
  <2>5. Len(s) <= Len(all)
    BY <1>1, <1>2 DEF m
  <2> HIDE DEF a, b
  <2>6. a = b
    BY <1>2, <2>3, <2>4, SeqEqual
  <2>. QED BY <2>5, <2>6 DEF IsPrefix, a, b, m
<1>. QED BY <1>3, <1>4

\* The bytes between a client and itself, when they are a chain.
LEMMA ChainIsWhole ==
  ASSUME NEW g \in Seq(Nat), NEW d \in Seq(Nat), NEW a \in Seq(Nat),
         NEW u \in Seq(Nat), NEW w \in Seq(Nat), NEW n \in Nat,
         Chain(g, d, a, u, w, n)
  PROVE  g \o d \o a \o u \o w = [b \in 1..n |-> b]
<1> DEFINE gd == g \o d gda == gd \o a gdau == gda \o u gdauw == gdau \o w
<1>1. /\ Len(g) \in Nat /\ Len(d) \in Nat /\ Len(a) \in Nat /\ Len(u) \in Nat
      /\ Len(w) \in Nat
  BY LenProperties
<1>2. /\ Len(g) + Len(d) + Len(a) + Len(u) + Len(w) = n
      /\ Follow(g, 0) /\ Follow(d, Len(g)) /\ Follow(a, Len(g) + Len(d))
      /\ Follow(u, Len(g) + Len(d) + Len(a))
      /\ Follow(w, Len(g) + Len(d) + Len(a) + Len(u))
  BY DEF Chain
<1>3. \A k \in Nat : 0 + k = k
  OBVIOUS
<1>4. gd \in Seq(Nat) /\ Len(gd) = Len(g) + Len(d) /\ Follow(gd, 0)
  <2>1. 0 + Len(g) = Len(g)
    BY <1>1, <1>3
  <2>. QED BY <1>2, <2>1, FollowJoined
<1> HIDE DEF gd
<1>5. gda \in Seq(Nat) /\ Len(gda) = Len(g) + Len(d) + Len(a) /\ Follow(gda, 0)
  <2>1. 0 + Len(gd) = Len(g) + Len(d)
    BY <1>1, <1>4
  <2>2. Follow(a, 0 + Len(gd))
    BY ONLY <1>2, <2>1
  <2>3. /\ gd \o a \in Seq(Nat) /\ Len(gd \o a) = Len(gd) + Len(a)
        /\ Follow(gd \o a, 0)
    BY <1>4, <2>2, FollowJoined
  <2>. QED BY <1>2, <1>4, <2>3
<1> HIDE DEF gda
<1>6. gdau \in Seq(Nat) /\ Len(gdau) = Len(g) + Len(d) + Len(a) + Len(u) /\ Follow(gdau, 0)
  <2>1. 0 + Len(gda) = Len(g) + Len(d) + Len(a)
    BY <1>1, <1>5
  <2>2. Follow(u, 0 + Len(gda))
    BY ONLY <1>2, <2>1
  <2>3. /\ gda \o u \in Seq(Nat) /\ Len(gda \o u) = Len(gda) + Len(u)
        /\ Follow(gda \o u, 0)
    BY <1>5, <2>2, FollowJoined
  <2>. QED BY <1>2, <1>5, <2>3
<1> HIDE DEF gdau
<1>7. gdauw \in Seq(Nat) /\ Len(gdauw) = n /\ Follow(gdauw, 0)
  <2>1. 0 + Len(gdau) = Len(g) + Len(d) + Len(a) + Len(u)
    BY <1>1, <1>6
  <2>2. Follow(w, 0 + Len(gdau))
    BY ONLY <1>2, <2>1
  <2>3. /\ gdau \o w \in Seq(Nat) /\ Len(gdau \o w) = Len(gdau) + Len(w)
        /\ Follow(gdau \o w, 0)
    BY <1>6, <2>2, FollowJoined
  <2>. QED BY <1>2, <1>6, <2>3
<1> HIDE DEF gdauw
<1>8. gdauw = [b \in 1..n |-> b]
  <2>1. Len(gdauw) <= n
    BY <1>7
  <2>. QED BY ONLY <1>7, <2>1, n \in Nat, FromOne
<1>. QED BY <1>8 DEF gd, gda, gdau, gdauw

\* The echo over TCP keeps its invariant.
LEMMA TcpInvariance ==
  /\ TcpInit => TcpInv
  /\ TcpInv /\ [TcpNext]_tcpVars => TcpInv'
  /\ TcpInv => BytesInOrder
<1>1. ASSUME TcpInit PROVE TcpInv
  <2>1. <<>> \in Seq(Nat) /\ Len(<<>>) = 0 /\ \A k \in Nat : Follow(<<>>, k)
    BY EmptySeq DEF Follow
  <2>2. PICK at \in {"none", "connect"} : cpc = [c \in TcpClients |-> at]
    BY <1>1 DEF TcpInit
  <2>3. { to_send, got, up, down, data_ } \subseteq [TcpClients -> Seq(Nat)]
    BY <1>1, <2>1 DEF TcpInit
  <2>4. /\ cpc \in [TcpClients -> {"none", "connect", "input", "write", "read",
                                   "done", "closed"}]
        /\ sent \in [TcpClients -> Nat]
        /\ link \in [TcpClients -> {"none", "open", "reset", "closed"}]
        /\ spc \in [TcpClients -> {"none", "read", "write", "gone"}]
        /\ server \in {"running", "stopped"}
    BY <1>1, <2>2 DEF TcpInit
  <2>5. lines \in [TcpClients -> 0..MaxLines]
    BY <1>1, TcpAssumption DEF TcpInit
  <2>6. \A c \in TcpClients :
          /\ Len(up[c]) = 0 /\ Len(down[c]) = 0 /\ Len(data_[c]) = 0
          /\ Len(to_send[c]) = 0 /\ link[c] = "none"
    BY <1>1, <2>1 DEF TcpInit
  <2>7. TcpTypeOK
    BY <2>3, <2>4, <2>5, <2>6, TcpAssumption DEF TcpTypeOK
  <2>8. BytesInv
    <3>1. ASSUME NEW c \in TcpClients
          PROVE  /\ got[c] = <<>> /\ down[c] = <<>> /\ data_[c] = <<>>
                 /\ up[c] = <<>> /\ to_send[c] = <<>> /\ sent[c] = 0
      BY <1>1 DEF TcpInit
    <3>2. Chain(<<>>, <<>>, <<>>, <<>>, <<>>, 0)
      BY <2>1 DEF Chain
    <3>3. Len(<<>>) + Len(<<>>) + Len(<<>>) + Len(<<>>) + Len(<<>>) <= 0
      BY <2>1
    <3>. QED BY <2>1, <3>1, <3>2, <3>3 DEF BytesInv
  <2>9. TurnsInv
    BY <2>6 DEF TurnsInv
  <2>. QED BY <2>7, <2>8, <2>9 DEF TcpInv
<1>2. TcpInv /\ [TcpNext]_tcpVars => TcpInv'
  BY TcpTypeStep, BytesStep, TurnsStep DEF TcpInv
<1>3. ASSUME TcpInv PROVE BytesInOrder
  <2> SUFFICES ASSUME NEW c \in TcpClients
               PROVE  /\ IsPrefix(got[c], [b \in 1..sent[c] |-> b])
                      /\ ~Broken(c) => got[c] \o down[c] \o data_[c] \o up[c] \o to_send[c]
                                         = [b \in 1..sent[c] |-> b]
    BY DEF BytesInOrder
  <2>1. /\ got[c] \in Seq(Nat) /\ down[c] \in Seq(Nat) /\ data_[c] \in Seq(Nat)
        /\ up[c] \in Seq(Nat) /\ to_send[c] \in Seq(Nat)
        /\ sent[c] \in Nat /\ Len(got[c]) <= sent[c]
    BY <1>3, TcpFacts
  <2>2. Follow(got[c], 0)
    BY <1>3 DEF TcpInv, BytesInv
  <2>3. ~Broken(c) => Chain(got[c], down[c], data_[c], up[c], to_send[c], sent[c])
    BY <1>3 DEF TcpInv, BytesInv
  <2>4. IsPrefix(got[c], [b \in 1..sent[c] |-> b])
    BY <2>1, <2>2, FromOne
  <2>5. ~Broken(c) => got[c] \o down[c] \o data_[c] \o up[c] \o to_send[c]
                        = [b \in 1..sent[c] |-> b]
    BY <2>1, <2>3, ChainIsWhole
  <2>. QED BY <2>4, <2>5
<1>. QED BY <1>1, <1>2, <1>3

-----------------------------------------------------------------------------
(* Echo over UDP: the inductive invariant behind AnswersInTurn.            *)

\* A datagram is a request, or a reply to the client whose request it answers.
Addressed(d) ==
  \/ d.to = UdpServer /\ d.from \in UdpClients /\ d.text.from = d.from
  \/ /\ d.to \in UdpClients /\ d.from = UdpServer
     /\ IF kind = "async" THEN d.text.from = d.to ELSE d.text = Acknowledgement

\* The server has a request that it has not answered.
Answering == upc = "send"

RequestsInv ==
  /\ \A d \in BagToSet(net) :
       /\ Addressed(d)
       /\ d.text.from \in UdpClients => d.text.number <= requests[d.text.from]
  /\ Answering => /\ sender_endpoint_ \in UdpClients
                  /\ message.from = sender_endpoint_
                  /\ message.number <= requests[sender_endpoint_]

RepliesInv ==
  \A c \in UdpClients :
    /\ requests[c] = Len(replies[c]) + (IF ucpc[c] = "wait" THEN 1 ELSE 0)
    /\ \A k \in DOMAIN replies[c] :
         IF kind # "async" THEN replies[c][k] = Acknowledgement
         ELSE replies[c][k].from = c /\ replies[c][k].number <= k

\* Without copies the last request of a client that waits is in one place at
\* most, and nothing else is.
Current(text) ==
  ucpc[text.from] = "wait" /\ text.number = requests[text.from]

OneAtATime ==
  kind = "async" /\ copies = 0 =>
    /\ \A d \in BagToSet(net) :
         /\ net[d] = 1 /\ Current(d.text)
         /\ Answering => d.text.from # message.from
         /\ \A e \in BagToSet(net) : d.text.from = e.text.from => d = e
    /\ Answering => Current(message)
    /\ \A c \in UdpClients : \A k \in DOMAIN replies[c] : replies[c][k].number = k

UdpInv == UdpTypeOK /\ RequestsInv /\ RepliesInv /\ OneAtATime

\* Datagram d is put on the net, or taken from it.
Added(d) ==
  /\ IsABag(net') /\ BagToSet(net') = BagToSet(net) \cup {d}
  /\ \A e \in BagToSet(net) : e # d => net'[e] = net[e]
  /\ d \notin BagToSet(net) => net'[d] = 1
Removed(d) ==
  /\ IsABag(net') /\ BagToSet(net') \subseteq BagToSet(net)
  /\ \A e \in BagToSet(net') : e # d => net'[e] = net[e]
  /\ net[d] = 1 => d \notin BagToSet(net')

\* One more in a bag.
LEMMA BagAdds ==
  ASSUME NEW d, IsABag(net), net' = net (+) SetToBag({d})
  PROVE  Added(d)
<1>1. BagToSet(net') = BagToSet(net) \cup {d}
  BY DEF BagToSet, SetToBag, (+)
<1>2. \A e \in BagToSet(net) : net[e] \in Nat /\ net[e] > 0
  BY DEF IsABag, BagToSet
<1>3. /\ \A e \in BagToSet(net) : e # d => net'[e] = net[e]
      /\ d \notin BagToSet(net) => net'[d] = 1
      /\ \A e \in BagToSet(net') : net'[e] \in Nat /\ net'[e] > 0
  <2>1. \A e \in BagToSet(net) \cup {d} :
          net'[e] = (IF e \in BagToSet(net) THEN net[e] ELSE 0)
                    + (IF e \in {d} THEN 1 ELSE 0)
    BY DEF BagToSet, SetToBag, (+)
  <2>2. \A e \in BagToSet(net) : e # d => net'[e] = net[e]
    BY <1>2, <2>1
  <2>3. d \notin BagToSet(net) => net'[d] = 1
    BY <2>1
  <2>4. d \in BagToSet(net) => net'[d] = net[d] + 1
    BY <2>1
  <2>5. ASSUME NEW e \in BagToSet(net') PROVE net'[e] \in Nat /\ net'[e] > 0
    <3>1. CASE e # d
      BY <1>1, <1>2, <2>2, <3>1
    <3>2. CASE e = d /\ d \in BagToSet(net)
      <4>1. net[d] \in Nat /\ net'[d] = net[d] + 1
        BY <1>2, <2>4, <3>2
      <4>. QED BY <3>2, <4>1
    <3>3. CASE e = d /\ d \notin BagToSet(net)
      BY <2>3, <3>3
    <3>. QED BY <3>1, <3>2, <3>3
  <2>. QED BY <2>2, <2>3, <2>5
<1>4. IsABag(net')
  <2>1. net' = [e \in DOMAIN net' |-> net'[e]]
    BY DEF BagToSet, SetToBag, (+)
  <2>. QED BY <1>3, <2>1 DEF IsABag, BagToSet
<1>. QED BY <1>1, <1>3, <1>4 DEF Added

\* One less.
LEMMA BagRemoves ==
  ASSUME NEW d \in BagToSet(net), IsABag(net), net' = net (-) SetToBag({d})
  PROVE  Removed(d)
<1> DEFINE left == [e \in DOMAIN net |-> IF e = d THEN net[e] - 1 ELSE net[e]]
<1>1. net' = [e \in {x \in DOMAIN left : left[x] > 0} |-> left[e]]
  BY DEF SetToBag, (-)
<1>2. \A e \in DOMAIN net : net[e] \in Nat /\ net[e] > 0
  BY DEF IsABag
<1>3. \A e \in DOMAIN net' : /\ e \in DOMAIN net /\ net'[e] > 0
                             /\ net'[e] = IF e = d THEN net[e] - 1 ELSE net[e]
  BY <1>1
<1>4. IsABag(net')
  <2>1. \A e \in DOMAIN net' : net'[e] \in Nat /\ net'[e] > 0
    BY <1>2, <1>3
  <2>2. net' = [e \in DOMAIN net' |-> net'[e]]
    BY <1>1
  <2>. QED BY <2>1, <2>2 DEF IsABag
<1>5. net[d] = 1 => d \notin DOMAIN net'
  BY <1>3
<1>. QED BY <1>3, <1>4, <1>5 DEF Removed, BagToSet

\* The parts of a datagram.
LEMMA Parts ==
  /\ \A d \in Datagrams : /\ d.to \in UdpClients \cup {UdpServer}
                          /\ d.from \in UdpClients \cup {UdpServer}
                          /\ d.text \in Texts
  /\ \A t \in Texts : t.from \in UdpClients \cup {UdpServer} /\ t.number \in Nat
  /\ Acknowledgement \in Texts /\ Acknowledgement.from = UdpServer
BY DEF Datagrams, Texts, Acknowledgement, Text

\* A client's request.
LEMMA AskMoves ==
  ASSUME UdpTypeOK, NEW c \in UdpClients, Ask(c)
  PROVE  /\ \E d \in Datagrams :
              /\ Added(d)
              /\ d.to = UdpServer /\ d.from = c
              /\ d.text.from = c /\ d.text.number = requests[c] + 1
         /\ ucpc[c] = "input" /\ ucpc'[c] = "wait" /\ requests'[c] = requests[c] + 1
         /\ requests' \in [UdpClients -> 0..MaxRequests]
         /\ ucpc' \in [UdpClients -> {"none", "input", "wait", "done"}]
         /\ \A o \in UdpClients \ {c} : /\ ucpc'[o] = ucpc[o]
                                        /\ requests'[o] = requests[o]
         /\ UNCHANGED <<kind, replies, upc, message, sender_endpoint_, losses, copies>>
<1> DEFINE text == Text(c, requests[c] + 1)
           d == [to |-> UdpServer, from |-> c, text |-> text]
<1>1. /\ requests'[c] = requests[c] + 1 /\ requests' \in [UdpClients -> 0..MaxRequests]
      /\ requests[c] + 1 \in Nat
  BY UdpAssumption DEF Ask, UdpTypeOK
<1>2. text \in Texts /\ text.from = c /\ text.number = requests[c] + 1
  BY <1>1 DEF Text, Texts
<1>3. net' = net (+) SetToBag({d})
  BY <1>1 DEF Ask, Datagram
<1> HIDE DEF text
<1>4. d \in Datagrams /\ d.to = UdpServer /\ d.from = c /\ d.text = text
  BY <1>2 DEF Datagrams
<1> HIDE DEF d
<1>5. Added(d)
  BY <1>3, BagAdds DEF UdpTypeOK
<1>6. /\ ucpc[c] = "input" /\ ucpc'[c] = "wait"
      /\ ucpc' \in [UdpClients -> {"none", "input", "wait", "done"}]
      /\ \A o \in UdpClients \ {c} : /\ ucpc'[o] = ucpc[o]
                                     /\ requests'[o] = requests[o]
  BY DEF Ask, UdpTypeOK
<1>. QED BY <1>1, <1>2, <1>4, <1>5, <1>6 DEF Ask, udpServerVars

\* A client takes what is on the net for it.
LEMMA GetReplyMoves ==
  ASSUME UdpTypeOK, NEW c \in UdpClients, GetReply(c)
  PROVE  /\ \E d \in BagToSet(net) :
              /\ Removed(d) /\ d.to = c
              /\ Len(replies[c]) \in Nat
              /\ DOMAIN replies[c] = 1..Len(replies[c])
              /\ DOMAIN replies'[c] = 1..Len(replies[c]) + 1
              /\ Len(replies'[c]) = Len(replies[c]) + 1
              /\ \A k \in DOMAIN replies[c] : replies'[c][k] = replies[c][k]
              /\ replies'[c][Len(replies[c]) + 1] = d.text
         /\ replies' \in [UdpClients -> Seq(Texts)]
         /\ ucpc[c] = "wait" /\ ucpc'[c] \in {"input", "done"}
         /\ ucpc' \in [UdpClients -> {"none", "input", "wait", "done"}]
         /\ \A o \in UdpClients \ {c} : /\ ucpc'[o] = ucpc[o]
                                        /\ replies'[o] = replies[o]
         /\ UNCHANGED <<kind, requests, upc, message, sender_endpoint_, losses, copies>>
<1>1. PICK d \in InFlight(c) :
        /\ net' = net (-) SetToBag({d})
        /\ replies' = [replies EXCEPT ![c] = Append(@, d.text)]
  BY DEF GetReply
<1>2. d \in BagToSet(net) /\ d.to = c
  BY DEF InFlight
<1>3. Removed(d)
  BY <1>1, <1>2, BagRemoves DEF UdpTypeOK
<1>4. d.text \in Texts /\ replies[c] \in Seq(Texts)
  BY <1>2, Parts DEF UdpTypeOK
<1>5. /\ Len(replies[c]) \in Nat
      /\ DOMAIN replies[c] = 1..Len(replies[c])
      /\ DOMAIN Append(replies[c], d.text) = 1..Len(replies[c]) + 1
      /\ Len(Append(replies[c], d.text)) = Len(replies[c]) + 1
      /\ \A k \in DOMAIN replies[c] : Append(replies[c], d.text)[k] = replies[c][k]
      /\ Append(replies[c], d.text)[Len(replies[c]) + 1] = d.text
      /\ Append(replies[c], d.text) \in Seq(Texts)
  BY <1>4, Appended
<1>6. /\ replies'[c] = Append(replies[c], d.text)
      /\ \A o \in UdpClients \ {c} : replies'[o] = replies[o]
      /\ replies' \in [UdpClients -> Seq(Texts)]
  BY <1>1, <1>5 DEF UdpTypeOK
<1>7. /\ ucpc[c] = "wait" /\ ucpc'[c] \in {"input", "done"}
      /\ ucpc' \in [UdpClients -> {"none", "input", "wait", "done"}]
      /\ \A o \in UdpClients \ {c} : ucpc'[o] = ucpc[o]
  BY DEF GetReply, UdpTypeOK
<1>. QED BY <1>2, <1>3, <1>5, <1>6, <1>7 DEF GetReply, udpServerVars

\* The server takes what is on the net for it.
LEMMA RequestMoves ==
  ASSUME UdpTypeOK, ReceiveRequest
  PROVE  /\ \E d \in BagToSet(net) :
              /\ Removed(d) /\ d.to = UdpServer
              /\ message' = d.text /\ sender_endpoint_' = d.from
         /\ upc = "receive" /\ upc' = "send"
         /\ UNCHANGED <<kind, ucpc, requests, replies, losses, copies>>
<1>1. PICK d \in InFlight(UdpServer) :
        /\ net' = net (-) SetToBag({d})
        /\ message' = d.text /\ sender_endpoint_' = d.from
  BY DEF ReceiveRequest
<1>2. d \in BagToSet(net) /\ d.to = UdpServer
  BY DEF InFlight
<1>3. Removed(d)
  BY <1>1, <1>2, BagRemoves DEF UdpTypeOK
<1>. QED BY <1>1, <1>2, <1>3 DEF ReceiveRequest, udpClientVars

\* And replies.
LEMMA ReplyMoves ==
  ASSUME UdpTypeOK, SendReply
  PROVE  /\ \E d \in Datagrams :
              /\ Added(d)
              /\ d.to = sender_endpoint_ /\ d.from = UdpServer
              /\ d.text = IF kind = "async" THEN message ELSE Acknowledgement
         /\ upc = "send" /\ upc' = "receive"
         /\ UNCHANGED <<kind, ucpc, requests, replies, message, sender_endpoint_,
                        losses, copies>>
<1> DEFINE text == IF kind = "async" THEN message ELSE Acknowledgement
           d == [to |-> sender_endpoint_, from |-> UdpServer, text |-> text]
<1>1. text \in Texts
  BY Parts DEF UdpTypeOK
<1>2. net' = net (+) SetToBag({d})
  BY DEF SendReply, Datagram
<1>. HIDE DEF text
<1>3. d \in Datagrams /\ d.to = sender_endpoint_ /\ d.from = UdpServer /\ d.text = text
  BY <1>1 DEF Datagrams, UdpTypeOK
<1>. HIDE DEF d
<1>4. Added(d)
  BY <1>2, BagAdds DEF UdpTypeOK
<1>. QED BY <1>3, <1>4 DEF SendReply, udpClientVars, text

\* The net loses a datagram, or doubles one.
LEMMA NetMoves ==
  ASSUME UdpTypeOK
  PROVE  /\ Lose => /\ \E d \in BagToSet(net) : Removed(d)
                    /\ losses' \in 0..MaxLosses
                    /\ UNCHANGED <<kind, ucpc, requests, replies, upc, message,
                                   sender_endpoint_, copies>>
         /\ Copy => /\ \E d \in BagToSet(net) : Added(d)
                    /\ copies' \in 1..MaxCopies
                    /\ UNCHANGED <<kind, ucpc, requests, replies, upc, message,
                                   sender_endpoint_, losses>>
<1>1. ASSUME Lose PROVE \E d \in BagToSet(net) : Removed(d)
  BY <1>1, BagRemoves DEF Lose, UdpTypeOK
<1>2. ASSUME Copy PROVE \E d \in BagToSet(net) : Added(d)
  BY <1>2, BagAdds DEF Copy, UdpTypeOK
<1>3. Lose => losses' \in 0..MaxLosses
  BY UdpAssumption DEF Lose, UdpTypeOK
<1>4. Copy => copies' \in 1..MaxCopies
  BY UdpAssumption DEF Copy, UdpTypeOK
<1>. QED BY <1>1, <1>2, <1>3, <1>4 DEF Lose, Copy, udpClientVars, udpServerVars

\* The types of the variables are kept.
LEMMA UdpTypeStep ==
  ASSUME UdpTypeOK, [UdpNext]_udpVars
  PROVE  UdpTypeOK'
<1>1. \A d : /\ d \in Datagrams /\ Added(d) => BagToSet(net') \subseteq Datagrams
             /\ Removed(d) => BagToSet(net') \subseteq Datagrams
  BY DEF UdpTypeOK, Added, Removed
<1>2. ASSUME NEW c \in UdpClients, Ask(c) PROVE UdpTypeOK'
  <2>1. IsABag(net') /\ BagToSet(net') \subseteq Datagrams
    BY <1>1, <1>2, AskMoves DEF Added
  <2>. QED BY <1>2, <2>1, AskMoves DEF UdpTypeOK
<1>3. ASSUME NEW c \in UdpClients, GetReply(c) PROVE UdpTypeOK'
  <2>1. IsABag(net') /\ BagToSet(net') \subseteq Datagrams
    BY <1>1, <1>3, GetReplyMoves DEF Removed
  <2>. QED BY <1>3, <2>1, GetReplyMoves DEF UdpTypeOK
<1>4. CASE ReceiveRequest
  <2>1. /\ IsABag(net') /\ BagToSet(net') \subseteq Datagrams
        /\ message' \in Texts /\ sender_endpoint_' \in UdpClients \cup {UdpServer}
    BY <1>1, <1>4, RequestMoves, Parts DEF Removed, UdpTypeOK
  <2>. QED BY <1>4, <2>1, RequestMoves DEF UdpTypeOK
<1>5. CASE SendReply
  <2>1. IsABag(net') /\ BagToSet(net') \subseteq Datagrams
    BY <1>1, <1>5, ReplyMoves DEF Added
  <2>. QED BY <1>5, <2>1, ReplyMoves DEF UdpTypeOK
<1>6. CASE SendFails
  BY <1>6, UdpAssumption DEF UdpTypeOK, SendFails, udpClientVars
<1>7. CASE Lose
  <2>1. IsABag(net') /\ BagToSet(net') \subseteq Datagrams
    BY <1>1, <1>7, NetMoves DEF Removed
  <2>. QED BY <1>7, <2>1, NetMoves DEF UdpTypeOK
<1>8. CASE Copy
  <2>1. IsABag(net') /\ BagToSet(net') \subseteq Datagrams
    BY <1>1, <1>8, NetMoves DEF Added, UdpTypeOK
  <2>2. copies' \in 0..MaxCopies
    BY <1>8, NetMoves
  <2>. QED BY <1>8, <2>1, <2>2, NetMoves DEF UdpTypeOK
<1>9. CASE UNCHANGED udpVars
  BY <1>9 DEF UdpTypeOK, udpVars, udpClientVars, udpServerVars
<1>. QED BY <1>2, <1>3, <1>4, <1>5, <1>6, <1>7, <1>8, <1>9 DEF UdpNext, UdpServerStep

\* Requests and replies are addressed as they should be, and no client has
\* asked for less than is under way.
LEMMA RequestsStep ==
  ASSUME UdpTypeOK, RequestsInv, [UdpNext]_udpVars
  PROVE  RequestsInv'
<1> DEFINE
  Right(d) == /\ Addressed(d)
              /\ d.text.from \in UdpClients => d.text.number <= requests[d.text.from]
  Right2(d) ==
    /\ \/ d.to = UdpServer /\ d.from \in UdpClients /\ d.text.from = d.from
       \/ /\ d.to \in UdpClients /\ d.from = UdpServer
          /\ IF kind = "async" THEN d.text.from = d.to ELSE d.text = Acknowledgement
    /\ d.text.from \in UdpClients => d.text.number <= requests'[d.text.from]
  Taken2 == upc' = "send" => /\ sender_endpoint_' \in UdpClients
                             /\ message'.from = sender_endpoint_'
                             /\ message'.number <= requests'[sender_endpoint_']
<1>1. /\ \A d \in BagToSet(net) : d \in Datagrams /\ Right(d)
      /\ upc = "send" => /\ sender_endpoint_ \in UdpClients
                         /\ message.from = sender_endpoint_
                         /\ message.number <= requests[sender_endpoint_]
      /\ message.number \in Nat /\ UdpServer \notin UdpClients
      /\ \A c \in UdpClients : requests[c] \in Nat
      /\ \A d \in Datagrams : d.text.number \in Nat
  BY Parts, UdpAssumption DEF RequestsInv, UdpTypeOK, Answering
<1>2. kind' = kind
  BY AskMoves, GetReplyMoves, RequestMoves, ReplyMoves, NetMoves
  DEF UdpNext, UdpServerStep, SendFails, udpVars
<1>3. SUFFICES (\A d \in BagToSet(net') : Right2(d)) /\ Taken2
  BY <1>2 DEF RequestsInv, Addressed, Answering
<1>4. ASSUME requests' = requests
      PROVE  \A d \in BagToSet(net) : Right2(d)
  BY <1>1, <1>4 DEF Addressed
<1>5. ASSUME NEW c \in UdpClients, Ask(c)
      PROVE  (\A d \in BagToSet(net') : Right2(d)) /\ Taken2
  <2>1. PICK d \in Datagrams :
          /\ BagToSet(net') = BagToSet(net) \cup {d}
          /\ d.to = UdpServer /\ d.from = c
          /\ d.text.from = c /\ d.text.number = requests[c] + 1
    BY <1>5, AskMoves DEF Added
  <2>2. \A o \in UdpClients : requests[o] <= requests'[o] /\ requests'[o] \in Nat
    BY <1>1, <1>5, AskMoves
  <2>3. Right2(d)
    BY <1>1, <1>5, <2>1, AskMoves
  <2>4. \A e \in BagToSet(net) : Right2(e)
    <3>1. ASSUME NEW e \in BagToSet(net), e.text.from \in UdpClients
          PROVE  e.text.number <= requests'[e.text.from]
      BY <1>1, <2>2, <3>1
    <3>. QED BY <1>1, <3>1 DEF Addressed
  <2>5. Taken2
    <3>1. ASSUME upc = "send" PROVE message.number <= requests'[sender_endpoint_]
      BY <1>1, <2>2, <3>1
    <3>. QED BY <1>1, <1>5, <3>1, AskMoves
  <2>. QED BY <2>1, <2>3, <2>4, <2>5
<1>6. ASSUME NEW c \in UdpClients, GetReply(c)
      PROVE  (\A d \in BagToSet(net') : Right2(d)) /\ Taken2
  BY <1>1, <1>4, <1>6, GetReplyMoves DEF Removed
<1>7. CASE ReceiveRequest
  <2>1. PICK d \in BagToSet(net) :
          /\ BagToSet(net') \subseteq BagToSet(net) /\ d.to = UdpServer
          /\ message' = d.text /\ sender_endpoint_' = d.from
    BY <1>7, RequestMoves DEF Removed
  <2>2. requests' = requests
    BY <1>7, RequestMoves
  <2>3. d.from \in UdpClients /\ d.text.from = d.from
    BY <1>1, <2>1 DEF Addressed
  <2>4. Taken2
    BY <1>1, <2>1, <2>2, <2>3
  <2>. QED BY <1>4, <2>1, <2>2, <2>4
<1>8. CASE SendReply
  <2>1. PICK d \in Datagrams :
          /\ BagToSet(net') = BagToSet(net) \cup {d}
          /\ d.to = sender_endpoint_ /\ d.from = UdpServer
          /\ d.text = IF kind = "async" THEN message ELSE Acknowledgement
    BY <1>8, ReplyMoves DEF Added
  <2>2. requests' = requests /\ upc = "send" /\ upc' # "send"
    BY <1>8, ReplyMoves
  <2>3. Right2(d)
    BY <1>1, <2>1, <2>2, Parts
  <2>. QED BY <1>4, <2>1, <2>2, <2>3
<1>9. CASE SendFails
  BY <1>1, <1>4, <1>9 DEF SendFails, udpClientVars
<1>10. CASE Lose
  BY <1>1, <1>4, <1>10, NetMoves DEF Removed
<1>11. CASE Copy
  BY <1>1, <1>4, <1>11, NetMoves DEF Added
<1>12. CASE UNCHANGED udpVars
  BY <1>1, <1>4, <1>12 DEF udpVars, udpClientVars, udpServerVars
<1> HIDE DEF Right2, Taken2
<1>. QED BY <1>5, <1>6, <1>7, <1>8, <1>9, <1>10, <1>11, <1>12 DEF UdpNext, UdpServerStep

\* A client has asked once more than it has got replies while it waits.
LEMMA RepliesStep ==
  ASSUME UdpTypeOK, RequestsInv, RepliesInv, [UdpNext]_udpVars
  PROVE  RepliesInv'
<1> DEFINE
  Fits(k, c, text) == IF kind # "async" THEN text = Acknowledgement
                      ELSE text.from = c /\ text.number <= k
  Reply2(c) ==
    /\ requests'[c] = Len(replies'[c]) + (IF ucpc'[c] = "wait" THEN 1 ELSE 0)
    /\ \A k \in DOMAIN replies'[c] : Fits(k, c, replies'[c][k])
<1>1. /\ \A c \in UdpClients :
           /\ requests[c] = Len(replies[c]) + (IF ucpc[c] = "wait" THEN 1 ELSE 0)
           /\ \A k \in DOMAIN replies[c] : Fits(k, c, replies[c][k])
      /\ \A c \in UdpClients : requests[c] \in Nat /\ Len(replies[c]) \in Nat
  BY LenProperties DEF RepliesInv, UdpTypeOK
<1>2. kind' = kind
  BY AskMoves, GetReplyMoves, RequestMoves, ReplyMoves, NetMoves
  DEF UdpNext, UdpServerStep, SendFails, udpVars
<1>3. SUFFICES \A c \in UdpClients : Reply2(c)
  BY <1>2 DEF RepliesInv
<1>4. ASSUME UNCHANGED <<ucpc, requests, replies>> PROVE \A c \in UdpClients : Reply2(c)
  BY <1>1, <1>4
<1>5. ASSUME NEW c \in UdpClients, Ask(c) PROVE \A o \in UdpClients : Reply2(o)
  <2> HIDE DEF Fits
  <2>1. /\ ucpc[c] = "input" /\ ucpc'[c] = "wait" /\ requests'[c] = requests[c] + 1
        /\ \A o \in UdpClients \ {c} : ucpc'[o] = ucpc[o] /\ requests'[o] = requests[o]
        /\ replies' = replies
    BY <1>5, AskMoves
  <2>2. requests[c] = Len(replies[c]) /\ Len(replies[c]) \in Nat
    <3>1. /\ requests[c] = Len(replies[c]) + (IF ucpc[c] = "wait" THEN 1 ELSE 0)
          /\ ucpc[c] # "wait" /\ Len(replies[c]) \in Nat
      BY <1>1, <2>1
    <3>. QED BY <3>1
  <2>3. Reply2(c)
    BY <1>1, <2>1, <2>2
  <2>. QED BY <1>1, <2>1, <2>3
<1>6. ASSUME NEW c \in UdpClients, GetReply(c) PROVE \A o \in UdpClients : Reply2(o)
  <2>1. PICK d \in BagToSet(net) :
              /\ d.to = c
              /\ Len(replies[c]) \in Nat
              /\ DOMAIN replies[c] = 1..Len(replies[c])
              /\ DOMAIN replies'[c] = 1..Len(replies[c]) + 1
              /\ Len(replies'[c]) = Len(replies[c]) + 1
              /\ \A k \in DOMAIN replies[c] : replies'[c][k] = replies[c][k]
              /\ replies'[c][Len(replies[c]) + 1] = d.text
    BY <1>6, GetReplyMoves
  <2>2. /\ ucpc[c] = "wait" /\ ucpc'[c] # "wait" /\ requests' = requests
        /\ \A o \in UdpClients \ {c} : ucpc'[o] = ucpc[o] /\ replies'[o] = replies[o]
    BY <1>6, GetReplyMoves
  <2>3. requests[c] = Len(replies[c]) + 1
    BY <1>1, <2>2
  <2>4. Fits(Len(replies[c]) + 1, c, d.text)
    BY <2>1, <2>3, UdpAssumption DEF RequestsInv, Addressed
  <2>5. \A k \in DOMAIN replies'[c] : k \in DOMAIN replies[c] \/ k = Len(replies[c]) + 1
    BY <2>1
  <2> HIDE DEF Fits
  <2>6. \A k \in DOMAIN replies'[c] : Fits(k, c, replies'[c][k])
    BY <1>1, <2>1, <2>4, <2>5
  <2>7. Reply2(c)
    BY <2>1, <2>2, <2>3, <2>6
  <2>. QED BY <1>1, <2>2, <2>7
<1>7. ASSUME ReceiveRequest \/ SendReply \/ Lose \/ Copy
      PROVE  UNCHANGED <<ucpc, requests, replies>>
  BY <1>7, RequestMoves, ReplyMoves, NetMoves
<1>8. ASSUME SendFails \/ UNCHANGED udpVars PROVE UNCHANGED <<ucpc, requests, replies>>
  BY <1>8 DEF SendFails, udpVars, udpClientVars
<1> HIDE DEF Reply2
<1>. QED BY <1>4, <1>5, <1>6, <1>7, <1>8 DEF UdpNext, UdpServerStep

\* As long as nothing was copied a client has one request at a time.
LEMMA OneAtATimeStep ==
  ASSUME UdpInv, [UdpNext]_udpVars
  PROVE  OneAtATime'
<1> DEFINE
  Cur(text) == ucpc[text.from] = "wait" /\ text.number = requests[text.from]
  Cur2(text) == ucpc'[text.from] = "wait" /\ text.number = requests'[text.from]
  One2 ==
    /\ \A d \in BagToSet(net') :
         /\ net'[d] = 1 /\ Cur2(d.text)
         /\ upc' = "send" => d.text.from # message'.from
         /\ \A e \in BagToSet(net') : d.text.from = e.text.from => d = e
    /\ upc' = "send" => Cur2(message')
    /\ \A c \in UdpClients : \A k \in DOMAIN replies'[c] : replies'[c][k].number = k
<1>1. /\ kind' = kind /\ (copies' = 0 => copies = 0)
      /\ copies' = 0 => ~Copy
  <2>1. copies \in Nat
    BY UdpAssumption DEF UdpInv, UdpTypeOK
  <2>. QED BY <2>1, AskMoves, GetReplyMoves, RequestMoves, ReplyMoves, NetMoves
           DEF UdpInv, UdpNext, UdpServerStep, SendFails, udpVars
<1>2. SUFFICES ASSUME kind = "async", copies' = 0
               PROVE  One2
  BY <1>1 DEF OneAtATime, Current, Answering
<1>3. /\ \A d \in BagToSet(net) :
           /\ net[d] = 1 /\ Cur(d.text)
           /\ upc = "send" => d.text.from # message.from
           /\ \A e \in BagToSet(net) : d.text.from = e.text.from => d = e
      /\ upc = "send" => Cur(message)
      /\ \A c \in UdpClients : \A k \in DOMAIN replies[c] : replies[c][k].number = k
  BY <1>1, <1>2 DEF UdpInv, OneAtATime, Current, Answering
<1>4. /\ \A d \in BagToSet(net) : /\ d.text.from \in UdpClients
                                  /\ d.to \in UdpClients => d.text.from = d.to
      /\ upc = "send" => message.from \in UdpClients
  BY <1>2, UdpAssumption DEF UdpInv, RequestsInv, Addressed, Answering
<1>5. UdpTypeOK
  BY DEF UdpInv
<1>6. ASSUME UNCHANGED <<ucpc, requests, replies, upc, message>>,
             BagToSet(net') \subseteq BagToSet(net),
             \A e \in BagToSet(net') : net'[e] = net[e]
      PROVE  One2
  BY <1>3, <1>6
<1>7. ASSUME NEW c \in UdpClients, Ask(c) PROVE One2
  <2>1. PICK d \in Datagrams :
          Added(d) /\ d.text.from = c /\ d.text.number = requests[c] + 1
    BY <1>5, <1>7, AskMoves
  <2>2. /\ ucpc[c] = "input" /\ ucpc'[c] = "wait" /\ requests'[c] = requests[c] + 1
        /\ \A o \in UdpClients \ {c} : ucpc'[o] = ucpc[o] /\ requests'[o] = requests[o]
        /\ UNCHANGED <<replies, upc, message>>
    BY <1>5, <1>7, AskMoves
  <2>3. \A e \in BagToSet(net) : e.text.from # c /\ Cur2(e.text)
    BY <1>3, <1>4, <2>2
  <2>4. upc = "send" => message.from # c /\ Cur2(message)
    BY <1>3, <1>4, <2>2
  <2>5. d \notin BagToSet(net) /\ Cur2(d.text)
    BY <2>1, <2>2, <2>3
  <2>6. /\ BagToSet(net') = BagToSet(net) \cup {d} /\ net'[d] = 1
        /\ \A e \in BagToSet(net) : net'[e] = net[e]
    BY <2>1, <2>5 DEF Added
  <2> HIDE DEF Cur2, Cur
  <2>7. \A e \in BagToSet(net') :
          /\ net'[e] = 1 /\ Cur2(e.text)
          /\ upc' = "send" => e.text.from # message'.from
    BY <1>3, <2>1, <2>2, <2>3, <2>4, <2>5, <2>6
  <2>8. \A e, f \in BagToSet(net') : e.text.from = f.text.from => e = f
    BY <1>3, <2>1, <2>3, <2>6
  <2>. QED BY <1>3, <2>2, <2>4, <2>7, <2>8
<1>8. ASSUME NEW c \in UdpClients, GetReply(c) PROVE One2
  <2>1. PICK d \in BagToSet(net) :
              /\ Removed(d) /\ d.to = c
              /\ Len(replies[c]) \in Nat
              /\ DOMAIN replies[c] = 1..Len(replies[c])
              /\ DOMAIN replies'[c] = 1..Len(replies[c]) + 1
              /\ \A k \in DOMAIN replies[c] : replies'[c][k] = replies[c][k]
              /\ replies'[c][Len(replies[c]) + 1] = d.text
    BY <1>5, <1>8, GetReplyMoves
  <2>2. /\ \A o \in UdpClients \ {c} : ucpc'[o] = ucpc[o] /\ replies'[o] = replies[o]
        /\ ucpc[c] = "wait"
        /\ UNCHANGED <<requests, upc, message>>
    BY <1>5, <1>8, GetReplyMoves
  <2>3. d.text.from = c /\ d.text.number = requests[c]
    BY <1>3, <1>4, <2>1
  <2>4. requests[c] = Len(replies[c]) + 1
    BY <2>2 DEF UdpInv, RepliesInv
  <2>5. /\ BagToSet(net') \subseteq BagToSet(net) \ {d}
        /\ \A e \in BagToSet(net') : net'[e] = net[e]
    BY <1>3, <2>1 DEF Removed
  <2>6. \A e \in BagToSet(net') : e.text.from # c /\ Cur2(e.text)
    BY <1>3, <1>4, <2>2, <2>3, <2>5
  <2>7. upc = "send" => Cur2(message)
    BY <1>3, <1>4, <2>1, <2>2, <2>3
  <2>8. \A k \in DOMAIN replies'[c] : replies'[c][k].number = k
    <3>1. ASSUME NEW k \in DOMAIN replies'[c] PROVE replies'[c][k].number = k
      <4>1. k \in DOMAIN replies[c] \/ k = Len(replies[c]) + 1
        BY <2>1
      <4>2. CASE k \in DOMAIN replies[c]
        BY <1>3, <2>1, <4>2
      <4>3. CASE k = Len(replies[c]) + 1
        BY <2>1, <2>3, <2>4, <4>3
      <4>. QED BY <4>1, <4>2, <4>3
    <3>. QED BY <3>1
  <2> HIDE DEF Cur, Cur2
  <2>9. \A e \in BagToSet(net') :
          /\ net'[e] = 1
          /\ upc' = "send" => e.text.from # message'.from
          /\ \A f \in BagToSet(net') : e.text.from = f.text.from => e = f
    BY <1>3, <2>2, <2>5
  <2>. QED BY <1>3, <2>2, <2>6, <2>7, <2>8, <2>9
<1>9. CASE ReceiveRequest
  <2>1. PICK d \in BagToSet(net) : Removed(d) /\ message' = d.text
    BY <1>5, <1>9, RequestMoves
  <2>2. UNCHANGED <<ucpc, requests, replies>>
    BY <1>5, <1>9, RequestMoves
  <2>3. /\ BagToSet(net') \subseteq BagToSet(net) \ {d}
        /\ \A e \in BagToSet(net') : net'[e] = net[e]
    BY <1>3, <2>1 DEF Removed
  <2>4. /\ Cur2(message') /\ \A e \in BagToSet(net') : e.text.from # message'.from
    BY <1>3, <2>1, <2>2, <2>3
  <2>. QED BY <1>3, <2>2, <2>3, <2>4
<1>10. CASE SendReply
  <2>1. PICK d \in Datagrams : Added(d) /\ d.text = message
    BY <1>2, <1>5, <1>10, ReplyMoves
  <2>2. upc = "send" /\ upc' = "receive" /\ UNCHANGED <<ucpc, requests, replies>>
    BY <1>5, <1>10, ReplyMoves
  <2>3. \A e \in BagToSet(net) : e.text.from # d.text.from
    BY <1>3, <2>1, <2>2
  <2>4. /\ BagToSet(net') = BagToSet(net) \cup {d} /\ net'[d] = 1
        /\ \A e \in BagToSet(net) : net'[e] = net[e]
    BY <2>1, <2>3 DEF Added
  <2>5. Cur2(d.text) /\ \A e \in BagToSet(net) : Cur2(e.text)
    BY <1>3, <2>1, <2>2
  <2> HIDE DEF Cur, Cur2
  <2>6. \A e, f \in BagToSet(net') : e.text.from = f.text.from => e = f
    BY <1>3, <2>3, <2>4
  <2>7. \A e \in BagToSet(net') : net'[e] = 1 /\ Cur2(e.text)
    BY <1>3, <2>4, <2>5
  <2>. QED BY <1>3, <2>2, <2>6, <2>7
<1>11. CASE SendFails
  BY <1>3, <1>11 DEF SendFails, udpClientVars
<1>12. CASE Lose
  <2>1. PICK d \in BagToSet(net) : Removed(d)
    BY <1>5, <1>12, NetMoves
  <2>2. /\ BagToSet(net') \subseteq BagToSet(net)
        /\ \A e \in BagToSet(net') : net'[e] = net[e]
    BY <1>3, <2>1 DEF Removed
  <2>. QED BY <1>5, <1>6, <1>12, <2>2, NetMoves
<1>13. CASE UNCHANGED udpVars
  BY <1>6, <1>13 DEF udpVars, udpClientVars, udpServerVars
<1> HIDE DEF One2
<1>. QED BY <1>1, <1>2, <1>7, <1>8, <1>9, <1>10, <1>11, <1>12, <1>13
         DEF UdpNext, UdpServerStep

\* The invariant holds at first, always, and gives the property.
LEMMA UdpInvariance ==
  /\ UdpInit => UdpInv
  /\ UdpInv /\ [UdpNext]_udpVars => UdpInv'
  /\ UdpInv => AnswersInTurn
<1>1. ASSUME UdpInit PROVE UdpInv
  <2>1. IsABag(net) /\ BagToSet(net) = {}
    BY <1>1 DEF UdpInit, EmptyBag, SetToBag, IsABag, BagToSet
  <2>2. UdpTypeOK
    BY <1>1, <2>1, Parts, UdpAssumption, EmptySeq DEF UdpInit, UdpTypeOK
  <2>3. RequestsInv /\ OneAtATime
    BY <1>1, <2>1 DEF UdpInit, RequestsInv, OneAtATime, Answering
  <2>4. RepliesInv
    BY <1>1, EmptySeq DEF UdpInit, RepliesInv
  <2>. QED BY <2>2, <2>3, <2>4 DEF UdpInv
<1>2. UdpInv /\ [UdpNext]_udpVars => UdpInv'
  BY UdpTypeStep, RequestsStep, RepliesStep, OneAtATimeStep DEF UdpInv
<1>3. ASSUME UdpInv PROVE AnswersInTurn
  BY <1>3 DEF UdpInv, RepliesInv, OneAtATime, AnswersInTurn
<1>. QED BY <1>1, <1>2, <1>3

-----------------------------------------------------------------------------
\* What comes back over TCP and UDP is what was sent, and the times and the
\* messages are those of the server and of the sender, whole and in order: for
\* every number of clients, every length of a line and every size of the
\* buffers and of the sockets.
THEOREM RepliesMatch == Spec => []RepliesMatchRequests
<1> DEFINE Inv == TcpInv /\ UdpInv /\ DaytimeInv /\ MulticastInv /\ IoInv
<1>1. Init => Inv
  BY TcpInvariance, UdpInvariance, DaytimeInvariance, MulticastInvariance, IoInitInv
  DEF Init
<1>2. Inv /\ [Next]_vars => Inv'
  <2> SUFFICES ASSUME Inv, [Next]_vars PROVE Inv'
    OBVIOUS
  <2>1. /\ [TcpNext]_tcpVars /\ [UdpNext]_udpVars /\ [DaytimeNext]_daytimeVars
        /\ [MulticastNext]_multicastVars /\ [IoNext]_ioVars
    BY DEF Next, vars
  <2>. QED BY <2>1, TcpInvariance, UdpInvariance, DaytimeInvariance,
              MulticastInvariance, IoInvStep
<1>3. Inv => RepliesMatchRequests
  <2> SUFFICES ASSUME Inv PROVE RepliesMatchRequests
    OBVIOUS
  <2>1. TypeOK
    BY DEF TypeOK, TcpInv, UdpInv, DaytimeInv, MulticastInv, IoInv
  <2>2. BytesInOrder /\ AnswersInTurn /\ TimesAreWhole /\ MessagesOnce
    BY TcpInvariance, UdpInvariance, DaytimeInvariance, MulticastInvariance
  <2>. QED BY <2>1, <2>2 DEF RepliesMatchRequests
<1> HIDE DEF Inv
<1>. QED BY <1>1, <1>2, <1>3, PTL DEF Spec

\* What runs on an io_context loses no count and runs everything once, for
\* every number of threads and functions and every limit.
THEOREM NoCountIsLost == Spec => []NoCountLost
<1>1. Init => IoInv
  BY IoInitInv DEF Init
<1>2. IoInv /\ [Next]_vars => IoInv'
  BY IoInvStep DEF Next, vars
<1>. QED BY <1>1, <1>2, IoInvCounts, PTL DEF Spec
=============================================================================
