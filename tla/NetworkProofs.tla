---------------------------- MODULE NetworkProofs ----------------------------
(***************************************************************************)
(* The safety of the simulator for any number of datagrams, signals and    *)
(* clock ticks, by the inductive invariant IInv.                           *)
(*                                                                         *)
(* IInv says three things.  Where the threads and stop() are determines    *)
(* what may still happen (ControlStep, ThreadStep).  From the kernel to    *)
(* the processor the datagrams stand in a line ordered by arrival, and     *)
(* what the processor has decided on came before all of it (InLineStep,    *)
(* PastPrecedesStep): so a packet never returns to the line, and a packet  *)
(* newly past it is new to the places there (PastOnceStep).  And because   *)
(* the keys grow along the same line as long as the counter has not        *)
(* wrapped (KeyInvStep), the statistics can be added up (CountInvStep).    *)
(*                                                                         *)
(* Each of the lemmas has a case for each kind of step; what a step does,  *)
(* position by position of the sequences it changes, is stated once, in    *)
(* the lemmas named after actions (PushLine, WriteMoves, ...).             *)
(***************************************************************************)
EXTENDS NetworkSimulator, FiniteSetTheorems, SequenceTheorems, TLAPS

-----------------------------------------------------------------------------
(* The inductive invariant behind the safety properties.                   *)

\* What the threads and stop() are doing, given the object: a thread that
\* cannot be joined does not run, and a processor joined has left a closed
\* socket behind.
ThreadInv ==
  /\ "io" \notin joinable => ipc \in {"none", "exited"}
  /\ "proc" \notin joinable => ppc \in {"none", "exited"}
  /\ "proc" \notin joinable /\ ppc = "exited" => ~sockOpen
  /\ mpc \in {"start", "arm", "spawnIo", "spawnProc"} => ppc = "none"
  /\ mpc = "gone" => joinable = {}
  /\ \A f \in DOMAIN stopAt :
       stopAt[f] \in {"ioStop", "joinIo", "notify", "joinProc"} => ~sockOpen
  /\ ~sockOpen \/ ppc = "none" => writes = <<>>

\* The processor holds the mutex between its test of the queue and the wait.
WakeupInv ==
  /\ QueueNeverStranded
  /\ ppc = "block" => queue = <<>>

\* Both threads have the packet they are about to pass on, and what is due is
\* only known to the loop that sends it.
HandInv ==
  /\ ppc = "process" => hand # NoHand
  /\ ppc # "flushing" => due = {}
  /\ ipc = "push" => buffer # NoPacket

\* From the kernel to the processor packets stay in the order of arrival.
InLine ==
  /\ buffer <= arrived /\ hand.pkt <= arrived
  /\ buffer # NoPacket => hand.pkt < buffer
  /\ \A i, j \in DOMAIN inbox : i < j => inbox[i] < inbox[j]
  /\ \A i, j \in DOMAIN queue : i < j => queue[i].pkt < queue[j].pkt
  /\ \A j \in DOMAIN inbox :
       /\ inbox[j] <= arrived
       /\ buffer < inbox[j] /\ hand.pkt < inbox[j]
       /\ \A i \in DOMAIN queue : queue[i].pkt < inbox[j]
  /\ \A i \in DOMAIN queue :
       /\ queue[i].pkt <= arrived
       /\ hand.pkt < queue[i].pkt
       /\ buffer # NoPacket => queue[i].pkt < buffer

\* n is less than every packet in that line.
Precedes(n) ==
  /\ n <= arrived
  /\ hand # NoHand => n < hand.pkt
  /\ buffer # NoPacket => n < buffer
  /\ \A i \in DOMAIN queue : n < queue[i].pkt
  /\ \A i \in DOMAIN inbox : n < inbox[i]

\* What the processor has dealt with came before all that is in the line,
\* and it cannot have dealt with more packets than that.
Past == {r.pkt : r \in delayed} \cup {wire[i].pkt : i \in DOMAIN wire}
        \cup {writes[i] : i \in DOMAIN writes} \cup cancelled
PastPrecedes == \A n \in Past \cup {stats.received} : Precedes(n)

\* Past the processor no packet is in two places.
PastOnce ==
  /\ \A r, s \in delayed : r.pkt = s.pkt => r = s
  /\ \A i, j \in DOMAIN writes : writes[i] = writes[j] => i = j
  /\ \A i, j \in DOMAIN wire : wire[i].pkt = wire[j].pkt => i = j
  /\ \A i \in DOMAIN writes : writes[i] \notin cancelled
  /\ \A i \in DOMAIN wire :
       /\ wire[i].pkt \notin cancelled
       /\ \A j \in DOMAIN writes : wire[i].pkt # writes[j]
  /\ \A r \in delayed :
       /\ r.pkt \notin cancelled
       /\ \A i \in DOMAIN writes : r.pkt # writes[i]
       /\ \A i \in DOMAIN wire : r.pkt # wire[i].pkt

\* The counter has not wrapped while there may be a packet it will number.
CounterInv ==
  /\ arrived < MaxPackets => counter <= arrived
  /\ buffer # NoPacket => counter < buffer
  /\ \A j \in DOMAIN inbox : counter < inbox[j]

MorePackets == arrived < MaxPackets \/ buffer # NoPacket \/ inbox # <<>>

\* Keys increase along the line too, from the map to the counter.
KeysInLine ==
  /\ \A i, j \in DOMAIN queue : i < j => queue[i].key < queue[j].key
  /\ hand # NoHand =>
       /\ \A i \in DOMAIN queue : hand.key < queue[i].key
       /\ \A r \in delayed : r.key < hand.key
  /\ \A r \in delayed : \A i \in DOMAIN queue : r.key < queue[i].key
  /\ MorePackets =>
       /\ hand # NoHand => hand.key < counter
       /\ \A i \in DOMAIN queue : queue[i].key < counter
       /\ \A r \in delayed : r.key < counter

\* No key is given twice as long as there are no more packets than keys.
FewPackets == MaxPackets <= Wrap
KeyInv == FewPackets => CounterInv /\ KeysInLine

\* What the statistics say, and what bounds them.
Forwarded == Len(writes) + Len(wire) + Cardinality(cancelled)
CountInv ==
  /\ IsFiniteSet(delayed)
  /\ stats.received >= stats.dropped + Cardinality(delayed) + Forwarded
  /\ FewPackets =>
       stats.received = stats.dropped + Cardinality(delayed) + Forwarded
  /\ stats.sent + posted = Len(wire)
  /\ stats.reordered <= Forwarded
  /\ Cardinality(delayed) <= stats.delayed /\ stats.delayed <= stats.received

\* What waits to be sent has been found due.
DueInv == \A r \in due : r.at <= now

\* Nothing was sent out of order until a packet was delayed.
OrderKept ==
  stats.delayed = 0 =>
    \A i, j \in 1..Len(wire) : i < j => wire[i].pkt < wire[j].pkt

\* Before the first delay the deferred sends come after what was sent.
SendOrderInv ==
  stats.delayed = 0 =>
    /\ delayed = {}
    /\ OrderKept
    /\ \A i, j \in DOMAIN writes : i < j => writes[i] < writes[j]
    /\ \A i \in DOMAIN wire, j \in DOMAIN writes : wire[i].pkt < writes[j]

PacketInv ==
  /\ DataOK /\ InLine /\ PastPrecedes /\ PastOnce
  /\ KeyInv /\ CountInv /\ DueInv /\ SendOrderInv

IInv == ControlOK /\ ThreadInv /\ WakeupInv /\ HandInv /\ PacketInv

-----------------------------------------------------------------------------
USE SimulatorAssumption

\* The receive completes, with a datagram or without one.
Received == Receive \/ ReceiveNothing

\* What a packet goes through.
packetVars == <<arrived, inbox, buffer, counter, queue, hand, delayed, due,
                now, sendVars>>

\* The steps that do something to a packet or to the time; the others leave
\* all of that as it is.
LEMMA PacketSteps ==
  ASSUME [Next]_vars
  PROVE  \/ Tick \/ Arrive \/ (\E f \in {"handler", "dtor"} : StopClose(f))
         \/ Received \/ Handle \/ Push \/ WriteReady \/ Sent
         \/ Take \/ Drop \/ Delay \/ Forward \/ FlushStart \/ FlushOne
         \/ UNCHANGED packetVars
<1> USE DEF packetVars, ioVars, procVars, netVars, sendVars
<1>1. CASE UNCHANGED vars
  BY <1>1 DEF vars
<1>2. CASE MainThread
  BY <1>2 DEF MainThread, StartSet, StartArm, StartIo, StartProc, LoopExit,
     Destroy, Signal, Stop, StopTest, StopSet, StopIo, StopJoinIo, StopNotify,
     StopJoinProc
<1>3. CASE Io
  BY <1>3 DEF Io, Received, Notify, Rearm, IoExit
<1>4. CASE Processor
  BY <1>4 DEF Processor, ProcStep, Top, Lock, Test, Block, SpuriousWake, Break,
     FlushEnd
<1>. QED BY <1>1, <1>2, <1>3, <1>4 DEF Next

\* The places in stop() that the code can be at.
LEMMA StopTypeStep ==
  ASSUME StopOK, [Next]_vars
  PROVE  StopOK'
<1> USE DEF StopOK, mainVars
<1>1. CASE UNCHANGED stopAt
  BY <1>1
<1>2. CASE LoopExit \/ Signal
  BY <1>2 DEF LoopExit, Signal
<1>3. ASSUME NEW f \in {"handler", "dtor"}, Stop(f) PROVE StopOK'
  BY <1>3 DEF Stop, StopTest, StopSet, StopClose, StopIo, StopJoinIo,
     StopNotify, StopJoinProc, Stopping
<1>4. CASE Io \/ Processor
  BY <1>4, <1>1 DEF Io, Receive, ReceiveNothing, Completes, Handle, Push, Notify,
     Rearm, WriteReady, Sent, IoExit, Processor, ProcStep, Top, Lock, Test, Block,
     SpuriousWake, Break, Take, Drop, Delay, Forward, FlushStart, FlushOne, FlushEnd
<1>5. CASE StartSet \/ StartArm \/ StartIo \/ StartProc \/ Destroy
  BY <1>5, <1>1 DEF StartSet, StartArm, StartIo, StartProc, Destroy
<1>. QED BY <1>1, <1>2, <1>3, <1>4, <1>5 DEF Next, MainThread, Tick, Arrive, vars

\* The threads and the object keep their types.
LEMMA ControlStep ==
  ASSUME ControlOK, [Next]_vars
  PROVE  ControlOK'
<1> StopOK'
  BY StopTypeStep DEF ControlOK
<1> USE DEF ControlOK, ioVars, procVars, mainVars, sockVars
<1>1. CASE UNCHANGED vars
  BY <1>1 DEF vars
<1>2. CASE Tick
  BY <1>2 DEF Tick
<1>3. CASE Arrive
  BY <1>3 DEF Arrive
<1>4. CASE StartSet
  BY <1>4 DEF StartSet, Main
<1>5. CASE StartArm
  BY <1>5 DEF StartArm, Main
<1>6. CASE StartIo
  BY <1>6 DEF StartIo, Main
<1>7. CASE StartProc
  BY <1>7 DEF StartProc, Main
<1>8. CASE LoopExit
  BY <1>8 DEF LoopExit, Main
<1>9. CASE Destroy
  BY <1>9 DEF Destroy, Main
<1>10. CASE Signal
  <2>1. signals' \in 0..MaxSignals
    BY <1>10 DEF Signal
  <2>2. appRunning' \in BOOLEAN
    BY <1>10 DEF Signal
  <2>3. UNCHANGED <<mpc, running, joinable, ioVars, procVars, sockVars>>
    BY <1>10 DEF Signal
  <2>. QED BY <2>1, <2>2, <2>3
<1>11. ASSUME NEW f \in {"handler", "dtor"}, Stop(f) PROVE ControlOK'
  <2>1. CASE StopTest(f)
    BY <2>1 DEF StopTest, Stopping
  <2>2. CASE StopSet(f)
    <3>1. running' \in BOOLEAN /\ UNCHANGED <<mpc, signals, appRunning>>
      BY <2>2 DEF StopSet, Stopping
    <3>2. UNCHANGED <<joinable, ioVars, procVars, sockVars>>
      BY <2>2 DEF StopSet
    <3>. QED BY <3>1, <3>2
  <2>3. CASE StopClose(f)
    <3>1. sockOpen' \in BOOLEAN /\ UNCHANGED <<mpc, signals, appRunning>>
      BY <2>3 DEF StopClose, Stopping
    <3>2. UNCHANGED <<running, joinable, ioStopped, ioVars, procVars>>
      BY <2>3 DEF StopClose
    <3>. QED BY <3>1, <3>2
  <2>4. CASE StopIo(f)
    BY <2>4 DEF StopIo, Stopping
  <2>5. CASE StopJoinIo(f)
    BY <2>5 DEF StopJoinIo, Stopping
  <2>6. CASE StopNotify(f)
    BY <2>6 DEF StopNotify, Stopping, Woken
  <2>7. CASE StopJoinProc(f)
    BY <2>7 DEF StopJoinProc, Stopping, ProcJoined
  <2>. QED BY <1>11, <2>1, <2>2, <2>3, <2>4, <2>5, <2>6, <2>7 DEF Stop
<1>12. CASE Io
  <2>1. CASE Receive
    BY <2>1 DEF Receive, Completes, IoIdle
  <2>9. CASE ReceiveNothing
    BY <2>9 DEF ReceiveNothing, Completes, IoIdle
  <2>2. CASE Handle
    BY <2>2 DEF Handle, Handled
  <2>3. CASE Push
    BY <2>3 DEF Push, QueueUnlocked
  <2>4. CASE Notify
    BY <2>4 DEF Notify, Woken
  <2>5. CASE Rearm
    BY <2>5 DEF Rearm
  <2>6. CASE WriteReady
    BY <2>6 DEF WriteReady, IoIdle
  <2>7. CASE Sent
    BY <2>7 DEF Sent, IoIdle
  <2>8. CASE IoExit
    BY <2>8 DEF IoExit
  <2>. QED BY <1>12, <2>1, <2>2, <2>3, <2>4, <2>5, <2>6, <2>7, <2>8, <2>9 DEF Io
<1>13. CASE Processor
  <2>1. CASE Top
    BY <2>1 DEF Top, ProcStep
  <2>2. CASE Lock
    BY <2>2 DEF Lock, ProcStep
  <2>3. CASE Test
    BY <2>3 DEF Test, ProcStep, Predicate
  <2>4. CASE Block
    BY <2>4 DEF Block, ProcStep
  <2>5. CASE SpuriousWake
    BY <2>5 DEF SpuriousWake, ProcStep
  <2>6. CASE Break
    BY <2>6 DEF Break, ProcStep
  <2>7. CASE Take
    BY <2>7 DEF Take, ProcStep
  <2>8. CASE Drop
    BY <2>8 DEF Drop, ProcStep
  <2>9. CASE Delay
    BY <2>9 DEF Delay, ProcStep
  <2>10. CASE Forward
    BY <2>10 DEF Forward, ProcStep, SendPacket
  <2>11. CASE FlushStart
    BY <2>11 DEF FlushStart, ProcStep
  <2>12. CASE FlushOne
    BY <2>12 DEF FlushOne, ProcStep, SendPacket
  <2>13. CASE FlushEnd
    BY <2>13 DEF FlushEnd, ProcStep
  <2>. QED BY <1>13, <2>1, <2>2, <2>3, <2>4, <2>5, <2>6, <2>7, <2>8, <2>9, <2>10, <2>11, <2>12, <2>13 DEF Processor
<1>. QED BY <1>1, <1>2, <1>3, <1>4, <1>5, <1>6, <1>7, <1>8, <1>9, <1>10, <1>11, <1>12, <1>13
  DEF Next, MainThread

\* Neither outlives the other, and no notification is missed.
LEMMA ThreadStep ==
  ASSUME ControlOK, DataOK, ThreadInv, WakeupInv, HandInv, [Next]_vars
  PROVE  ThreadInv' /\ WakeupInv' /\ HandInv'
<1> USE DEF ControlOK, StopOK, ThreadInv, WakeupInv, HandInv,
            QueueNeverStranded, ioVars, procVars, netVars, mainVars, sendVars,
            sockVars
<1>1. CASE UNCHANGED vars
  BY <1>1 DEF vars
<1>2. CASE Tick
  BY <1>2 DEF Tick
<1>3. CASE Arrive
  BY <1>3 DEF Arrive
<1>4. CASE StartSet
  BY <1>4 DEF StartSet, Main
<1>5. CASE StartArm
  BY <1>5 DEF StartArm, Main
<1>6. CASE StartIo
  BY <1>6 DEF StartIo, Main
<1>7. CASE StartProc
  BY <1>7 DEF StartProc, Main
<1>8. CASE LoopExit
  BY <1>8 DEF LoopExit, Main
<1>9. CASE Destroy
  BY <1>9 DEF Destroy, Main
<1>10. CASE Signal
  BY <1>10 DEF Signal, Interrupted
<1>11. ASSUME NEW f \in {"handler", "dtor"}, Stop(f) PROVE ThreadInv' /\ WakeupInv' /\ HandInv'
  <2>1. CASE StopTest(f)
    BY <2>1 DEF StopTest, Stopping
  <2>2. CASE StopSet(f)
    BY <2>2 DEF StopSet, Stopping
  <2>3. CASE StopClose(f)
    BY <2>3 DEF StopClose, Stopping
  <2>4. CASE StopIo(f)
    BY <2>4 DEF StopIo, Stopping
  <2>5. CASE StopJoinIo(f)
    BY <2>5 DEF StopJoinIo, Stopping
  <2>6. CASE StopNotify(f)
    BY <2>6 DEF StopNotify, Stopping, Woken
  <2>7. CASE StopJoinProc(f)
    BY <2>7 DEF StopJoinProc, Stopping, ProcJoined
  <2>. QED BY <1>11, <2>1, <2>2, <2>3, <2>4, <2>5, <2>6, <2>7 DEF Stop
<1>12. CASE Io
  <2>1. CASE Receive
    BY <2>1 DEF Receive, Completes, IoIdle
  <2>9. CASE ReceiveNothing
    BY <2>9 DEF ReceiveNothing, Completes, IoIdle
  <2>2. CASE Handle
    BY <2>2 DEF Handle, Handled
  <2>3. CASE Push
    BY <2>3 DEF Push, QueueUnlocked
  <2>4. CASE Notify
    BY <2>4 DEF Notify, Woken
  <2>5. CASE Rearm
    BY <2>5 DEF Rearm
  <2>6. CASE WriteReady
    BY <2>6 DEF WriteReady, IoIdle
  <2>7. CASE Sent
    BY <2>7 DEF Sent, IoIdle
  <2>8. CASE IoExit
    BY <2>8 DEF IoExit
  <2>. QED BY <1>12, <2>1, <2>2, <2>3, <2>4, <2>5, <2>6, <2>7, <2>8, <2>9 DEF Io
<1>13. CASE Processor
  <2>1. CASE Top
    BY <2>1 DEF Top, ProcStep
  <2>2. CASE Lock
    BY <2>2 DEF Lock, ProcStep
  <2>3. CASE Test
    BY <2>3 DEF Test, ProcStep, Predicate
  <2>4. CASE Block
    BY <2>4 DEF Block, ProcStep
  <2>5. CASE SpuriousWake
    BY <2>5 DEF SpuriousWake, ProcStep
  <2>6. CASE Break
    BY <2>6 DEF Break, ProcStep
  <2>7. CASE Take
    <3>1. Head(queue) \in Entries
      BY <2>7 DEF Take, DataOK
    <3>2. hand' # NoHand
      BY <2>7, <3>1 DEF Take, Entries, NoHand, Packets, NoPacket
    <3>. QED BY <2>7, <3>2 DEF Take, ProcStep, Erased
  <2>8. CASE Drop
    BY <2>8 DEF Drop, ProcStep
  <2>9. CASE Delay
    BY <2>9 DEF Delay, ProcStep
  <2>10. CASE Forward
    BY <2>10 DEF Forward, ProcStep, SendPacket
  <2>11. CASE FlushStart
    BY <2>11 DEF FlushStart, ProcStep
  <2>12. CASE FlushOne
    BY <2>12 DEF FlushOne, ProcStep, SendPacket
  <2>13. CASE FlushEnd
    BY <2>13 DEF FlushEnd, ProcStep
  <2>. QED BY <1>13, <2>1, <2>2, <2>3, <2>4, <2>5, <2>6, <2>7, <2>8, <2>9, <2>10, <2>11, <2>12, <2>13 DEF Processor
<1>. QED BY <1>1, <1>2, <1>3, <1>4, <1>5, <1>6, <1>7, <1>8, <1>9, <1>10, <1>11, <1>12, <1>13
  DEF Next, MainThread
-----------------------------------------------------------------------------
(* The types of the data.                                                  *)

\* Counting keeps the type of the statistics.
LEMMA CountingTypes ==
  ASSUME NEW s \in Statistics
  PROVE  /\ \A n \in Nat : /\ [s EXCEPT !.received = @ + n] \in Statistics
                           /\ [s EXCEPT !.reordered = @ + n] \in Statistics
         /\ [s EXCEPT !.received = @ + 1] \in Statistics
         /\ [s EXCEPT !.sent = @ + 1] \in Statistics
         /\ [s EXCEPT !.dropped = @ + 1] \in Statistics
         /\ [s EXCEPT !.delayed = @ + 1] \in Statistics
BY DEF Statistics

\* What is sent is a datagram.
LEMMA DatagramTypes ==
  ASSUME NEW p \in Packets, NEW intact \in BOOLEAN
  PROVE  [pkt |-> p, intact |-> intact] \in Datagrams
BY DEF Datagrams

\* send_packet with a packet keeps the types of what it changes.
LEMMA SendPacketTypes ==
  ASSUME DataOK, NEW p \in Packets, NEW counted \in Statistics,
         SendPacket(p, counted)
  PROVE  /\ wire' \in Seq(Datagrams)
         /\ writes' \in Seq(Packets)
         /\ posted' \in Nat
         /\ cancelled' \in SUBSET Packets
         /\ stats' \in Statistics
<1>1. stats' \in Statistics
  <2>1. PICK reorder \in ReorderOutcomes :
          stats' = [counted EXCEPT !.reordered = @ + (IF reorder THEN 1 ELSE 0)]
    BY DEF SendPacket
  <2>2. (IF reorder THEN 1 ELSE 0) \in Nat
    OBVIOUS
  <2>. QED BY <2>1, <2>2, CountingTypes
<1>2. \/ cancelled' = cancelled \cup {p} /\ UNCHANGED <<wire, writes, posted>>
      \/ /\ wire' = Append(wire, [pkt |-> p, intact |-> TRUE])
         /\ posted' = posted + 1
         /\ UNCHANGED <<writes, cancelled>>
      \/ writes' = Append(writes, p) /\ UNCHANGED <<wire, posted, cancelled>>
  BY DEF SendPacket
<1>3. /\ wire \in Seq(Datagrams) /\ writes \in Seq(Packets)
      /\ posted \in Nat /\ cancelled \in SUBSET Packets
  BY DEF DataOK
<1>4. Append(wire, [pkt |-> p, intact |-> TRUE]) \in Seq(Datagrams)
  <2>1. [pkt |-> p, intact |-> TRUE] \in Datagrams
    BY DatagramTypes
  <2>. QED BY <1>3, <2>1, AppendProperties
<1>5. Append(writes, p) \in Seq(Packets)
  BY <1>3, AppendProperties
<1>6. wire' \in Seq(Datagrams)
  BY <1>2, <1>3, <1>4
<1>7. posted' \in Nat
  BY <1>2, <1>3
<1>8. writes' \in Seq(Packets)
  BY <1>2, <1>3, <1>5
<1>9. cancelled' \in SUBSET Packets
  BY <1>2, <1>3
<1>. QED BY <1>1, <1>6, <1>7, <1>8, <1>9

\* A packet is in the hands of the processor when it decides.
LEMMA HandIsEntry ==
  ASSUME DataOK, HandInv, ppc = "process"
  PROVE  hand \in Entries /\ hand.pkt \in Packets /\ hand.key \in 0..Wrap - 1
BY DEF DataOK, HandInv, Entries

\* Each step keeps the types of what packets go through.
LEMMA DataStep ==
  ASSUME DataOK, HandInv, [Next]_vars
  PROVE  DataOK'
<1> USE DEF DataOK, sendVars, netVars, ioVars, procVars, mainVars
<1>1. CASE Tick
  BY <1>1 DEF Tick
<1>2. CASE Arrive
  <2>1. arrived' \in Packets
    BY <1>2 DEF Arrive, Packets
  <2>. QED BY <1>2, <2>1, AppendProperties DEF Arrive
<1>3. ASSUME NEW f \in {"handler", "dtor"}, StopClose(f) PROVE DataOK'
  <2>1. ToSet(writes) \subseteq Packets
    BY ElementOfSeq DEF ToSet
  <2>. QED BY <1>3, <2>1, EmptySeq DEF StopClose
<1>4. CASE Received
  <2>1. CASE Receive
    <3>1. Head(inbox) \in Packets /\ Tail(inbox) \in Seq(Packets)
      BY <2>1, HeadTailProperties DEF Receive
    <3>. QED BY <2>1, <3>1 DEF Receive, Completes
  <2>2. CASE ReceiveNothing
    BY <2>2 DEF ReceiveNothing, Completes
  <2>. QED BY <1>4, <2>1, <2>2 DEF Received
<1>5. CASE Handle
  BY <1>5 DEF Handle
<1>6. CASE Push
  <2>1. [pkt |-> buffer, key |-> counter] \in Entries
    BY <1>6 DEF Push, HandInv, Entries
  <2>2. queue' \in Seq(Entries)
    BY <1>6, <2>1, AppendProperties DEF Push, Pushed
  <2>3. counter' \in 0..Wrap - 1
    BY <1>6 DEF Push, NextSequence
  <2>. QED BY <1>6, <2>2, <2>3 DEF Push
<1>7. CASE WriteReady
  <2>1. writes' \in Seq(Packets) /\ Head(writes) \in Packets
    BY <1>7, HeadTailProperties DEF WriteReady
  <2>2. wire' \in Seq(Datagrams)
    <3>1. CASE wire' = wire
      BY <3>1
    <3>2. ASSUME NEW intact \in BOOLEAN,
                 wire' = Append(wire, [pkt |-> Head(writes), intact |-> intact])
          PROVE  wire' \in Seq(Datagrams)
      BY <2>1, <3>2, AppendProperties, DatagramTypes
    <3>. QED BY <1>7, <3>1, <3>2 DEF WriteReady
  <2>3. cancelled' \in SUBSET Packets /\ posted' \in Nat
    BY <1>7, <2>1 DEF WriteReady
  <2>. QED BY <1>7, <2>1, <2>2, <2>3 DEF WriteReady
<1>8. CASE Sent
  <2>1. stats' \in Statistics
    BY <1>8, CountingTypes DEF Sent
  <2>2. posted' \in Nat
    BY <1>8 DEF Sent
  <2>. QED BY <1>8, <2>1, <2>2 DEF Sent
<1>9. CASE Take
  <2>1. queue' \in Seq(Entries) /\ hand' \in Entries
    BY <1>9, HeadTailProperties DEF Take, Erased
  <2>. QED BY <1>9, <2>1 DEF Take, ProcStep
<1>10. Counted \in Statistics
  BY CountingTypes DEF Counted
<1>11. CASE Drop
  BY <1>10, <1>11, CountingTypes DEF Drop, ProcStep
<1>12. CASE Delay
  <2>1. stats' \in Statistics
    BY <1>10, <1>12, CountingTypes DEF Delay
  <2>2. delayed' \subseteq DelayedPackets
    <3>1. hand.key \in 0..Wrap - 1 /\ hand.pkt \in Packets
      BY <1>12, HandIsEntry DEF Delay, ProcStep
    <3>2. \A d \in Delays : now + d \in Nat
      OBVIOUS
    <3>3. \A d \in Delays : [key |-> hand.key, pkt |-> hand.pkt, at |-> now + d]
                             \in DelayedPackets
      BY <3>1, <3>2 DEF DelayedPackets
    <3>. QED BY <1>12, <3>3 DEF Delay
  <2>3. due' = {}
    BY <1>12 DEF Delay, HandInv, ProcStep
  <2>. QED BY <1>12, <2>1, <2>2, <2>3 DEF Delay, ProcStep
<1>13. CASE Forward
  BY <1>10, <1>13, HandIsEntry, SendPacketTypes DEF Forward, ProcStep
<1>14. CASE FlushStart
  BY <1>14 DEF FlushStart, Due, ProcStep
<1>15. CASE FlushOne
  <2>1. PICK r \in due : /\ due' = due \ {r}
                         /\ delayed' = delayed \ {r}
                         /\ SendPacket(r.pkt, stats)
    BY <1>15 DEF FlushOne
  <2>2. r.pkt \in Packets
    BY DEF DelayedPackets
  <2>. QED BY <1>15, <2>1, <2>2, SendPacketTypes DEF FlushOne, ProcStep
<1>16. CASE UNCHANGED packetVars
  BY <1>16 DEF packetVars
<1>. QED BY <1>1, <1>2, <1>3, <1>4, <1>5, <1>6, <1>7, <1>8, <1>9, <1>11,
            <1>12, <1>13, <1>14, <1>15, <1>16, PacketSteps
-----------------------------------------------------------------------------
(* The line of packets from the kernel to the processor.                   *)

lineVars == <<arrived, inbox, buffer, queue, hand>>

\* The processor has decided what becomes of the packet in its hands.
Decided ==
  /\ ppc = "process" /\ hand' = NoHand
  /\ UNCHANGED <<arrived, inbox, buffer, queue, counter>>

\* The handler of a receive drops the datagram, as the simulator stops.
Ignored == Handle /\ buffer' = NoPacket

\* The steps that touch the line, or the counter behind it.
LEMMA LineSteps ==
  ASSUME [Next]_vars
  PROVE  \/ Arrive \/ Received \/ Ignored \/ Push \/ Take \/ Decided
         \/ \E f \in {"handler", "dtor"} : StopClose(f)
         \/ UNCHANGED <<lineVars, counter>>
<1> USE DEF lineVars, ioVars, procVars, netVars
<1>1. CASE Tick \/ WriteReady \/ Sent \/ FlushStart \/ FlushOne
  BY <1>1 DEF Tick, WriteReady, Sent, FlushStart, FlushOne, ProcStep
<1>2. CASE Drop \/ Delay \/ Forward
  BY <1>2 DEF Drop, Delay, Forward, Decided, ProcStep
<1>3. CASE Handle
  BY <1>3 DEF Handle, Ignored
<1>. QED BY <1>1, <1>2, <1>3, PacketSteps DEF packetVars

\* What head and tail of a sequence are, position by position.
LEMMA Fronts ==
  ASSUME NEW S, NEW s \in Seq(S), s # <<>>
  PROVE  /\ Head(s) = s[1] /\ Head(s) \in S
         /\ 1 \in DOMAIN s /\ Len(s) \in Nat \ {0}
         /\ Tail(s) \in Seq(S) /\ Len(Tail(s)) = Len(s) - 1
         /\ \A i \in DOMAIN Tail(s) : i + 1 \in DOMAIN s /\ Tail(s)[i] = s[i + 1]
         /\ DOMAIN Tail(s) = 1..Len(s) - 1 /\ DOMAIN s = 1..Len(s)
<1>1. Len(s) \in Nat /\ DOMAIN s = 1..Len(s) /\ Len(s) # 0
  BY LenProperties, EmptySeq
<1>2. /\ Head(s) = s[1] /\ Tail(s) \in Seq(S) /\ Len(Tail(s)) = Len(s) - 1
      /\ \A i \in 1..Len(Tail(s)) : Tail(s)[i] = s[i + 1]
  BY HeadTailProperties
<1>3. DOMAIN Tail(s) = 1..Len(s) - 1
  BY <1>1, <1>2, LenProperties
<1>. QED BY <1>1, <1>2, <1>3, ElementOfSeq

\* And what appending to one gives.
LEMMA Appended ==
  ASSUME NEW S, NEW s \in Seq(S), NEW e \in S
  PROVE  /\ Append(s, e) \in Seq(S) /\ Len(Append(s, e)) = Len(s) + 1
         /\ Len(s) \in Nat /\ DOMAIN s = 1..Len(s)
         /\ DOMAIN Append(s, e) = 1..Len(s) + 1
         /\ \A i \in DOMAIN s : Append(s, e)[i] = s[i]
         /\ Append(s, e)[Len(s) + 1] = e
<1>1. Len(s) \in Nat /\ DOMAIN s = 1..Len(s)
  BY LenProperties
<1>2. Append(s, e) \in Seq(S) /\ Len(Append(s, e)) = Len(s) + 1
  BY AppendProperties
<1>3. DOMAIN Append(s, e) = 1..Len(s) + 1
  BY <1>2, LenProperties
<1>. QED BY <1>1, <1>2, <1>3, AppendProperties

\* Packets are numbers, and none of those in a queue is 0.
LEMMA LineTypes ==
  ASSUME DataOK
  PROVE  /\ arrived \in Nat /\ buffer \in Nat /\ hand.pkt \in Nat
         /\ hand # NoHand => hand.pkt \in Nat \ {0} /\ hand.key \in Nat
         /\ \A i \in DOMAIN inbox : inbox[i] \in Nat \ {0}
         /\ \A i \in DOMAIN queue :
              queue[i].pkt \in Nat \ {0} /\ queue[i].key \in Nat
         /\ counter \in Nat /\ NoHand.pkt = 0 /\ NoPacket = 0
<1>1. arrived \in Nat /\ buffer \in Nat /\ counter \in Nat
  BY DEF DataOK, Packets, NoPacket
<1>2. hand.pkt \in Nat /\ (hand # NoHand => hand.pkt \in Nat \ {0} /\ hand.key \in Nat)
  BY DEF DataOK, Entries, Packets, NoHand, NoPacket
<1>3. \A i \in DOMAIN inbox : inbox[i] \in Nat \ {0}
  BY ElementOfSeq, LenProperties DEF DataOK, Packets
<1>4. \A i \in DOMAIN queue : queue[i] \in Entries
  BY ElementOfSeq, LenProperties DEF DataOK
<1>. QED BY <1>1, <1>2, <1>3, <1>4 DEF Entries, Packets, NoHand, NoPacket

\* The steps along the line, position by position.
LEMMA ArriveLine ==
  ASSUME DataOK, Arrive
  PROVE  /\ arrived' = arrived + 1 /\ arrived < MaxPackets
         /\ UNCHANGED <<buffer, hand, queue, counter, delayed>>
         /\ Len(inbox) \in Nat /\ DOMAIN inbox = 1..Len(inbox)
         /\ DOMAIN inbox' = 1..Len(inbox) + 1
         /\ \A i \in DOMAIN inbox : inbox'[i] = inbox[i]
         /\ inbox'[Len(inbox) + 1] = arrived'
<1>1. /\ arrived' = arrived + 1
      /\ UNCHANGED <<buffer, hand, queue, counter, delayed>>
      /\ inbox' = Append(inbox, arrived') /\ arrived < MaxPackets
  BY DEF Arrive, ioVars, procVars
<1>2. arrived' \in Packets
  BY <1>1 DEF Packets, DataOK
<1>. QED BY <1>1, <1>2, Appended DEF DataOK

\* A receive takes the first of them, or nothing.
LEMMA ReceiveLine ==
  ASSUME DataOK, Received
  PROVE  /\ UNCHANGED <<arrived, hand, queue, counter, delayed>>
         /\ \/ /\ inbox # <<>> /\ 1 \in DOMAIN inbox /\ buffer' = inbox[1]
               /\ Len(inbox) \in Nat /\ DOMAIN inbox = 1..Len(inbox)
               /\ DOMAIN inbox' = 1..Len(inbox) - 1
               /\ \A i \in DOMAIN inbox' :
                    i + 1 \in DOMAIN inbox /\ inbox'[i] = inbox[i + 1]
            \/ buffer' = NoPacket /\ UNCHANGED inbox
<1>1. UNCHANGED <<arrived, hand, queue, counter, delayed>>
  BY DEF Received, Receive, ReceiveNothing, Completes, procVars
<1>2. CASE inbox # <<>> /\ buffer' = Head(inbox) /\ inbox' = Tail(inbox)
  BY <1>1, <1>2, Fronts DEF DataOK
<1>3. CASE buffer' = NoPacket /\ UNCHANGED inbox
  BY <1>1, <1>3
<1>. QED BY <1>2, <1>3 DEF Received, Receive, ReceiveNothing, Completes

\* handle_receive numbers a packet and puts it into the queue.
LEMMA PushLine ==
  ASSUME DataOK, HandInv, Push
  PROVE  /\ UNCHANGED <<arrived, inbox, hand, delayed>>
         /\ buffer # NoPacket /\ buffer' = NoPacket
         /\ counter' = (counter + 1) % Wrap
         /\ Len(queue) \in Nat /\ DOMAIN queue = 1..Len(queue)
         /\ DOMAIN queue' = 1..Len(queue) + 1
         /\ \A i \in DOMAIN queue : queue'[i] = queue[i]
         /\ queue'[Len(queue) + 1] = [pkt |-> buffer, key |-> counter]
<1>1. /\ buffer # NoPacket /\ buffer' = NoPacket
      /\ queue' = Append(queue, [pkt |-> buffer, key |-> counter])
      /\ counter' = (counter + 1) % Wrap
      /\ UNCHANGED <<arrived, inbox, hand, delayed>>
  BY DEF Push, Pushed, NextSequence, HandInv, procVars, netVars
<1>2. [pkt |-> buffer, key |-> counter] \in Entries
  BY <1>1 DEF DataOK, Entries
<1>. QED BY <1>1, <1>2, Appended DEF DataOK

\* The processor takes the first one.
LEMMA TakeLine ==
  ASSUME DataOK, Take
  PROVE  /\ UNCHANGED <<arrived, inbox, buffer, counter, delayed>>
         /\ 1 \in DOMAIN queue /\ hand' = queue[1]
         /\ Len(queue) \in Nat /\ DOMAIN queue = 1..Len(queue)
         /\ DOMAIN queue' = 1..Len(queue) - 1
         /\ \A i \in DOMAIN queue' :
              i + 1 \in DOMAIN queue /\ queue'[i] = queue[i + 1]
<1>1. /\ queue # <<>> /\ hand' = Head(queue) /\ queue' = Tail(queue)
      /\ UNCHANGED <<arrived, inbox, buffer, counter, delayed>>
  BY DEF Take, Erased, ProcStep, ioVars, netVars
<1>. QED BY <1>1, Fronts DEF DataOK

\* Each step along the line keeps the packets in order.
LEMMA InLineStep ==
  ASSUME DataOK, HandInv, InLine, [Next]_vars
  PROVE  InLine'
<1> USE LineTypes DEF InLine
<1>1. CASE Arrive
  <2> USE <1>1, ArriveLine
  <2>1. \A i, j \in DOMAIN inbox' : i < j => inbox'[i] < inbox'[j]
    OBVIOUS
  <2>2. \A j \in DOMAIN inbox' :
          /\ inbox'[j] <= arrived' /\ buffer < inbox'[j] /\ hand.pkt < inbox'[j]
          /\ \A i \in DOMAIN queue : queue[i].pkt < inbox'[j]
    OBVIOUS
  <2>. QED BY <2>1, <2>2
<1>2. ASSUME NEW f \in {"handler", "dtor"}, StopClose(f) PROVE InLine'
  BY <1>2 DEF StopClose, ioVars, procVars
<1>3. CASE Received
  BY <1>3, ReceiveLine, SMTT(20)
<1>4. CASE Ignored
  BY <1>4 DEF Ignored, Handle, procVars, netVars
<1>5. CASE Push
  <2> USE <1>5, PushLine
  <2>1. \A i, j \in DOMAIN queue' : i < j => queue'[i].pkt < queue'[j].pkt
    BY SMTT(20)
  <2>2. \A i \in DOMAIN queue' :
          queue'[i].pkt <= arrived /\ hand.pkt < queue'[i].pkt
    OBVIOUS
  <2>3. \A i \in DOMAIN queue', j \in DOMAIN inbox : queue'[i].pkt < inbox[j]
    OBVIOUS
  <2>. QED BY <2>1, <2>2, <2>3
<1>6. CASE Take
  <2>1. /\ \A i, j \in DOMAIN queue : i < j => queue[i].pkt < queue[j].pkt
        /\ \A i \in DOMAIN queue :
             /\ queue[i].pkt <= arrived
             /\ buffer # NoPacket => queue[i].pkt < buffer
             /\ \A j \in DOMAIN inbox : queue[i].pkt < inbox[j]
    OBVIOUS
  <2>2. /\ UNCHANGED <<arrived, inbox, buffer>>
        /\ hand' = queue[1] /\ 1 \in DOMAIN queue
        /\ \A i \in DOMAIN queue' :
             /\ i \in Nat /\ 1 < i + 1
             /\ i + 1 \in DOMAIN queue /\ queue'[i] = queue[i + 1]
    BY <1>6, TakeLine
  <2>3. \A i, j \in DOMAIN queue' : i < j => queue'[i].pkt < queue'[j].pkt
    <3> TAKE i, j \in DOMAIN queue'
    <3>1. i < j => i + 1 < j + 1
      BY ONLY <2>2
    <3>. QED BY ONLY <2>1, <2>2, <3>1
  <2>4. \A i \in DOMAIN queue' : /\ queue'[i].pkt <= arrived'
                                 /\ hand'.pkt < queue'[i].pkt
                                 /\ buffer' # NoPacket => queue'[i].pkt < buffer'
    BY ONLY <2>1, <2>2
  <2>5. \A i \in DOMAIN queue', j \in DOMAIN inbox' : queue'[i].pkt < inbox'[j]
    BY ONLY <2>1, <2>2
  <2>. QED BY <1>6, TakeLine, <2>3, <2>4, <2>5
<1>7. CASE Decided
  BY <1>7 DEF Decided
<1>8. CASE UNCHANGED <<lineVars, counter>>
  BY <1>8 DEF lineVars
<1>. QED BY <1>1, <1>2, <1>3, <1>4, <1>5, <1>6, <1>7, <1>8, LineSteps

\* What precedes the line precedes it after every step.
LEMMA PrecedesStep ==
  ASSUME DataOK, HandInv, [Next]_vars, NEW n \in Nat, Precedes(n)
  PROVE  Precedes(n)'
<1> USE LineTypes DEF Precedes
<1>1. CASE Arrive
  BY <1>1, ArriveLine
<1>2. ASSUME NEW f \in {"handler", "dtor"}, StopClose(f) PROVE Precedes(n)'
  BY <1>2 DEF StopClose, ioVars, procVars
<1>3. CASE Received
  BY <1>3, ReceiveLine
<1>4. CASE Ignored
  BY <1>4 DEF Ignored, Handle, procVars, netVars
<1>5. CASE Push
  BY <1>5, PushLine
<1>6. CASE Take
  BY <1>6, TakeLine
<1>7. CASE Decided
  BY <1>7 DEF Decided
<1>8. CASE UNCHANGED <<lineVars, counter>>
  BY <1>8 DEF lineVars
<1>. QED BY <1>1, <1>2, <1>3, <1>4, <1>5, <1>6, <1>7, <1>8, LineSteps

\* A packet leaves the hands of the processor before the rest of the line.
LEMMA HandPrecedes ==
  ASSUME DataOK, HandInv, InLine, Decided
  PROVE  /\ hand.pkt \in Packets /\ hand.key \in 0..Wrap - 1
         /\ \A n \in Nat : n <= hand.pkt => Precedes(n)'
         /\ \A n \in Nat : Precedes(n) => n < hand.pkt
<1>1. hand \in Entries /\ hand.pkt \in Packets /\ hand.key \in 0..Wrap - 1
  BY HandIsEntry DEF Decided
<1>2. ASSUME NEW n \in Nat, n <= hand.pkt PROVE Precedes(n)'
  BY <1>1, <1>2, LineTypes DEF InLine, Decided, Precedes
<1>3. \A n \in Nat : Precedes(n) => n < hand.pkt
  BY DEF Precedes, Decided, HandInv
<1>. QED BY <1>1, <1>2, <1>3

-----------------------------------------------------------------------------
(* What the steps of the processor and the reactor do past the line.       *)

\* stats_ after one or two of its counters have been incremented.
LEMMA CountedFields ==
  ASSUME DataOK
  PROVE  /\ Counted \in Statistics
         /\ Counted.received = stats.received + 1
         /\ Counted.sent = stats.sent /\ Counted.dropped = stats.dropped
         /\ Counted.delayed = stats.delayed
         /\ Counted.reordered = stats.reordered
         /\ stats.received \in Nat /\ stats.sent \in Nat
         /\ stats.dropped \in Nat /\ stats.delayed \in Nat
         /\ stats.reordered \in Nat
<1>1. stats \in Statistics
  BY DEF DataOK
<1>. QED BY <1>1 DEF Counted, Statistics

\* process_packet drops the packet,
LEMMA DropCounts ==
  ASSUME DataOK, Drop
  PROVE  /\ stats'.received = stats.received + 1
         /\ stats'.dropped = stats.dropped + 1
         /\ stats'.sent = stats.sent /\ stats'.delayed = stats.delayed
         /\ stats'.reordered = stats.reordered
         /\ UNCHANGED <<delayed, writes, wire, cancelled, posted>> /\ Decided
<1>1. UNCHANGED <<delayed, writes, wire, cancelled, posted>> /\ Decided
  BY DEF Drop, Decided, ProcStep, ioVars, netVars
<1>2. Counted \in Statistics /\ stats' = [Counted EXCEPT !.dropped = @ + 1]
  BY CountedFields DEF Drop
<1>3. /\ stats'.received = Counted.received
      /\ stats'.dropped = Counted.dropped + 1
      /\ stats'.sent = Counted.sent /\ stats'.delayed = Counted.delayed
      /\ stats'.reordered = Counted.reordered
  BY <1>2 DEF Statistics
<1>. QED BY <1>1, <1>3, CountedFields

\* or puts it into the delay map,
LEMMA DelayCounts ==
  ASSUME DataOK, Delay
  PROVE  /\ stats'.received = stats.received + 1
         /\ stats'.delayed = stats.delayed + 1
         /\ stats'.sent = stats.sent /\ stats'.dropped = stats.dropped
         /\ stats'.reordered = stats.reordered
         /\ UNCHANGED <<due, writes, wire, cancelled, posted>> /\ Decided
         /\ \E d \in Delays :
              delayed' = {r \in delayed : r.key # hand.key}
                \cup {[key |-> hand.key, pkt |-> hand.pkt, at |-> now + d]}
<1>1. UNCHANGED <<due, writes, wire, cancelled, posted>> /\ Decided
  BY DEF Delay, Decided, ProcStep, ioVars, netVars
<1>2. Counted \in Statistics /\ stats' = [Counted EXCEPT !.delayed = @ + 1]
  BY CountedFields DEF Delay
<1>3. /\ stats'.received = Counted.received
      /\ stats'.dropped = Counted.dropped
      /\ stats'.sent = Counted.sent /\ stats'.delayed = Counted.delayed + 1
      /\ stats'.reordered = Counted.reordered
  BY <1>2 DEF Statistics
<1>4. \E d \in Delays :
        delayed' = {r \in delayed : r.key # hand.key}
          \cup {[key |-> hand.key, pkt |-> hand.pkt, at |-> now + d]}
  BY DEF Delay
<1>. QED BY <1>1, <1>3, <1>4, CountedFields

\* send_packet puts p in one place and counts no more than that.
LEMMA SendPacketPuts ==
  ASSUME DataOK, NEW p \in Packets, NEW counted \in Statistics,
         SendPacket(p, counted)
  PROVE  /\ \/ cancelled' = cancelled \cup {p} /\ UNCHANGED <<wire, writes, posted>>
            \/ /\ writes = <<>> /\ posted' = posted + 1
               /\ Len(wire) \in Nat /\ DOMAIN wire = 1..Len(wire)
               /\ Len(wire') = Len(wire) + 1 /\ DOMAIN wire' = 1..Len(wire) + 1
               /\ \A i \in DOMAIN wire : wire'[i] = wire[i]
               /\ wire'[Len(wire) + 1].pkt = p
               /\ UNCHANGED <<writes, cancelled>>
            \/ /\ Len(writes) \in Nat /\ DOMAIN writes = 1..Len(writes)
               /\ Len(writes') = Len(writes) + 1
               /\ DOMAIN writes' = 1..Len(writes) + 1
               /\ \A i \in DOMAIN writes : writes'[i] = writes[i]
               /\ writes'[Len(writes) + 1] = p
               /\ UNCHANGED <<wire, cancelled, posted>>
         /\ stats'.received = counted.received /\ stats'.sent = counted.sent
         /\ stats'.dropped = counted.dropped /\ stats'.delayed = counted.delayed
         /\ stats'.reordered \in {counted.reordered, counted.reordered + 1}
<1>1. PICK reorder \in ReorderOutcomes :
        stats' = [counted EXCEPT !.reordered = @ + (IF reorder THEN 1 ELSE 0)]
  BY DEF SendPacket
<1>2. /\ stats'.received = counted.received /\ stats'.sent = counted.sent
      /\ stats'.dropped = counted.dropped /\ stats'.delayed = counted.delayed
      /\ stats'.reordered = counted.reordered + (IF reorder THEN 1 ELSE 0)
      /\ counted.reordered \in Nat
  BY <1>1 DEF Statistics
<1>3. CASE cancelled' = cancelled \cup {p} /\ UNCHANGED <<wire, writes, posted>>
  BY <1>2, <1>3
<1>4. CASE /\ writes = <<>> /\ posted' = posted + 1
           /\ wire' = Append(wire, [pkt |-> p, intact |-> TRUE])
           /\ UNCHANGED <<writes, cancelled>>
  <2>1. [pkt |-> p, intact |-> TRUE] \in Datagrams /\ wire \in Seq(Datagrams)
    BY DatagramTypes DEF DataOK
  <2>. QED BY <1>2, <1>4, <2>1, Appended
<1>5. CASE writes' = Append(writes, p) /\ UNCHANGED <<wire, cancelled, posted>>
  <2>1. writes \in Seq(Packets)
    BY DEF DataOK
  <2>. QED BY <1>2, <1>5, <2>1, Appended
<1>. QED BY <1>3, <1>4, <1>5 DEF SendPacket

\* or sends it.
LEMMA ForwardSends ==
  ASSUME DataOK, HandInv, Forward
  PROVE  /\ Decided /\ hand.pkt \in Packets /\ SendPacket(hand.pkt, Counted)
         /\ Counted \in Statistics /\ UNCHANGED <<delayed, due>>
BY HandIsEntry, CountedFields DEF Forward, Decided, ProcStep, ioVars, netVars

\* process_delayed_packets sends a packet that it found due.
LEMMA FlushOneSends ==
  ASSUME DataOK, FlushOne
  PROVE  /\ stats \in Statistics
         /\ \E r \in due : /\ r \in delayed /\ r.pkt \in Packets
                            /\ SendPacket(r.pkt, stats)
                            /\ delayed' = delayed \ {r} /\ due' = due \ {r}
<1>1. PICK r \in due : /\ due' = due \ {r} /\ delayed' = delayed \ {r}
                       /\ SendPacket(r.pkt, stats)
  BY DEF FlushOne
<1>2. stats \in Statistics /\ r \in delayed /\ r.pkt \in Packets
  BY DEF DataOK, DelayedPackets
<1>. QED BY <1>1, <1>2

\* The reactor performs the oldest of the deferred sends.
LEMMA WriteMoves ==
  ASSUME DataOK, WriteReady
  PROVE  /\ 1 \in DOMAIN writes
         /\ Len(writes) \in Nat /\ DOMAIN writes = 1..Len(writes)
         /\ Len(writes') = Len(writes) - 1 /\ DOMAIN writes' = 1..Len(writes) - 1
         /\ \A i \in DOMAIN writes' :
              i + 1 \in DOMAIN writes /\ writes'[i] = writes[i + 1]
         /\ \/ /\ Len(wire) \in Nat /\ DOMAIN wire = 1..Len(wire)
               /\ Len(wire') = Len(wire) + 1 /\ DOMAIN wire' = 1..Len(wire) + 1
               /\ \A i \in DOMAIN wire : wire'[i] = wire[i]
               /\ wire'[Len(wire) + 1].pkt = writes[1]
               /\ posted' = posted + 1 /\ cancelled' = cancelled
            \/ cancelled' = cancelled \cup {writes[1]} /\ UNCHANGED <<wire, posted>>
         /\ UNCHANGED <<delayed, due, stats>>
<1>2. /\ writes # <<>> /\ writes' = Tail(writes)
      /\ UNCHANGED <<delayed, due, stats>>
  BY DEF WriteReady, procVars
<1>3. writes \in Seq(Packets) /\ wire \in Seq(Datagrams)
  BY DEF DataOK
<1>4. /\ 1 \in DOMAIN writes /\ Head(writes) = writes[1]
      /\ Head(writes) \in Packets
      /\ Len(writes) \in Nat /\ DOMAIN writes = 1..Len(writes)
      /\ Len(writes') = Len(writes) - 1 /\ DOMAIN writes' = 1..Len(writes) - 1
      /\ \A i \in DOMAIN writes' :
           i + 1 \in DOMAIN writes /\ writes'[i] = writes[i + 1]
  BY <1>2, <1>3, Fronts
<1>5. ASSUME NEW intact \in BOOLEAN,
             wire' = Append(wire, [pkt |-> Head(writes), intact |-> intact])
      PROVE  /\ Len(wire) \in Nat /\ DOMAIN wire = 1..Len(wire)
             /\ Len(wire') = Len(wire) + 1 /\ DOMAIN wire' = 1..Len(wire) + 1
             /\ \A i \in DOMAIN wire : wire'[i] = wire[i]
             /\ wire'[Len(wire) + 1].pkt = writes[1]
  <2>1. [pkt |-> Head(writes), intact |-> intact] \in Datagrams
    BY <1>4, DatagramTypes
  <2>. QED BY <1>3, <1>4, <1>5, <2>1, Appended
<1>6. \/ /\ posted' = posted + 1 /\ cancelled' = cancelled
         /\ \E intact \in BOOLEAN :
              wire' = Append(wire, [pkt |-> Head(writes), intact |-> intact])
      \/ cancelled' = cancelled \cup {writes[1]} /\ UNCHANGED <<wire, posted>>
  BY <1>4 DEF WriteReady
<1>. QED BY <1>2, <1>4, <1>5, <1>6

\* close() fails all of them.
LEMMA CloseCancels ==
  ASSUME DataOK, NEW f \in {"handler", "dtor"}, StopClose(f)
  PROVE  /\ cancelled' = cancelled \cup {writes[i] : i \in DOMAIN writes}
         /\ writes' = <<>> /\ DOMAIN writes' = {} /\ Len(writes') = 0
         /\ UNCHANGED <<delayed, due, wire, posted, stats>>
BY DEF StopClose, ToSet, procVars

\* The other steps leave all of that alone.
pastVars == <<delayed, writes, wire, cancelled, stats>>

\* The steps that change what is past the line, or the statistics.
LEMMA PastSteps ==
  ASSUME [Next]_vars
  PROVE  \/ \E f \in {"handler", "dtor"} : StopClose(f)
         \/ WriteReady \/ Sent \/ Drop \/ Delay \/ Forward \/ FlushOne
         \/ UNCHANGED pastVars
<1> USE DEF pastVars, procVars, sendVars
<1>1. CASE Tick \/ Arrive \/ Received \/ Handle \/ Push
  BY <1>1 DEF Tick, Arrive, Received, Receive, ReceiveNothing, Completes,
     Handle, Push
<1>2. CASE Take \/ FlushStart
  BY <1>2 DEF Take, FlushStart
<1>. QED BY <1>1, <1>2, PacketSteps DEF packetVars

-----------------------------------------------------------------------------
(* Past the line: order and place.                                         *)

\* A packet that is past the line was so before, or was in the hands of the
\* processor.
LEMMA PastGrows ==
  ASSUME DataOK, HandInv, [Next]_vars, NEW n \in Past'
  PROVE  n \in Past \/ (Decided /\ n = hand.pkt)
<1> USE DEF Past
<1>1. ASSUME NEW f \in {"handler", "dtor"}, StopClose(f) PROVE n \in Past
  BY <1>1, CloseCancels
<1>2. CASE WriteReady
  BY <1>2, WriteMoves
<1>3. CASE Sent
  BY <1>3 DEF Sent, procVars
<1>4. CASE Drop
  BY <1>4, DropCounts
<1>5. CASE Delay
  BY <1>5, DelayCounts
<1>6. CASE Forward
  BY <1>6, ForwardSends, SendPacketPuts
<1>7. CASE FlushOne
  <2>1. PICK r \in due : /\ r \in delayed /\ r.pkt \in Packets
                         /\ SendPacket(r.pkt, stats)
                         /\ delayed' = delayed \ {r}
    BY <1>7, FlushOneSends
  <2>2. stats \in Statistics
    BY DEF DataOK
  <2>. QED BY <2>1, <2>2, SendPacketPuts
<1>8. CASE UNCHANGED pastVars
  BY <1>8 DEF pastVars
<1>. QED BY <1>1, <1>2, <1>3, <1>4, <1>5, <1>6, <1>7, <1>8, PastSteps

\* stats_.packets_received counts the decisions of the processor.
LEMMA ReceivedGrows ==
  ASSUME DataOK, HandInv, [Next]_vars
  PROVE  /\ stats.received \in Nat
         /\ \/ stats'.received = stats.received
            \/ Decided /\ stats'.received = stats.received + 1
<1>1. stats \in Statistics /\ stats.received \in Nat
  BY DEF DataOK, Statistics
<1>2. ASSUME NEW f \in {"handler", "dtor"}, StopClose(f)
      PROVE  stats'.received = stats.received
  BY <1>2 DEF StopClose
<1>3. CASE WriteReady
  BY <1>1, <1>3 DEF WriteReady
<1>4. CASE Sent
  BY <1>1, <1>4 DEF Sent, Statistics
<1>5. CASE Drop
  BY <1>1, <1>5, DropCounts
<1>6. CASE Delay
  BY <1>1, <1>6, DelayCounts
<1>7. CASE Forward
  BY <1>1, <1>7, ForwardSends, SendPacketPuts, CountedFields
<1>8. CASE FlushOne
  BY <1>1, <1>8, FlushOneSends, SendPacketPuts
<1>9. CASE UNCHANGED pastVars
  BY <1>1, <1>9 DEF pastVars
<1>. QED BY <1>1, <1>2, <1>3, <1>4, <1>5, <1>6, <1>7, <1>8, <1>9, PastSteps

\* What is past the line are packets.
LEMMA PastIsNat ==
  ASSUME DataOK
  PROVE  Past \subseteq Packets /\ Past \subseteq Nat
<1>1. \A i \in DOMAIN writes : writes[i] \in Packets
  BY ElementOfSeq, LenProperties DEF DataOK
<1>2. \A i \in DOMAIN wire : wire[i].pkt \in Packets
  <2>1. \A i \in DOMAIN wire : wire[i] \in Datagrams
    BY ElementOfSeq, LenProperties DEF DataOK
  <2>. QED BY <2>1 DEF Datagrams
<1>3. \A r \in delayed : r.pkt \in Packets
  BY DEF DataOK, DelayedPackets
<1>4. cancelled \subseteq Packets
  BY DEF DataOK
<1>5. Past \subseteq Packets
  BY <1>1, <1>2, <1>3, <1>4 DEF Past
<1>. QED BY <1>5 DEF Packets

\* What is past the line stays in front of it.
LEMMA PastPrecedesStep ==
  ASSUME DataOK, HandInv, InLine, PastPrecedes, [Next]_vars
  PROVE  PastPrecedes'
<1>1. ASSUME NEW n \in Past' PROVE Precedes(n)'
  <2>1. CASE n \in Past
    BY <2>1, PrecedesStep, PastIsNat DEF PastPrecedes
  <2>2. CASE Decided /\ n = hand.pkt
    <3>1. n \in Nat /\ n <= hand.pkt
      BY <2>2, HandPrecedes DEF Packets
    <3>. QED BY <2>2, <3>1, HandPrecedes
  <2>. QED BY <2>1, <2>2, PastGrows
<1>2. ASSUME NEW n \in Nat, n = stats'.received PROVE Precedes(n)'
  <2>1. CASE n = stats.received
    BY <2>1, PrecedesStep DEF PastPrecedes
  <2>2. CASE Decided /\ n = stats.received + 1
    <3>1. Precedes(stats.received) /\ stats.received \in Nat
      BY ReceivedGrows DEF PastPrecedes
    <3>2. stats.received < hand.pkt /\ hand.pkt \in Nat
      BY <2>2, <3>1, HandPrecedes DEF Packets
    <3>3. n <= hand.pkt
      BY <2>2, <3>1, <3>2
    <3>. QED BY <2>2, <3>3, HandPrecedes
  <2>. QED BY <1>2, <2>1, <2>2, ReceivedGrows
<1>3. stats'.received \in Nat
  BY ReceivedGrows
<1>. QED BY <1>1, <1>2, <1>3 DEF PastPrecedes

\* The packet in the hands of the processor is new to the places past it.
LEMMA HandIsNew ==
  ASSUME DataOK, HandInv, InLine, PastPrecedes, Decided
  PROVE  /\ \A r \in delayed : r.pkt # hand.pkt
         /\ \A i \in DOMAIN writes : writes[i] # hand.pkt
         /\ \A i \in DOMAIN wire : wire[i].pkt # hand.pkt
         /\ hand.pkt \notin cancelled
         /\ \A n \in Past : n < hand.pkt
<1>1. \A n \in Past : n < hand.pkt /\ n \in Nat
  BY HandPrecedes, PastIsNat DEF PastPrecedes
<1>2. hand.pkt \notin Past
  BY <1>1
<1>. QED BY <1>1, <1>2 DEF Past

\* No step puts a packet into a second place.
LEMMA PastOnceStep ==
  ASSUME DataOK, HandInv, InLine, PastPrecedes, PastOnce, [Next]_vars
  PROVE  PastOnce'
<1> USE DEF PastOnce
<1>1. Decided => /\ \A r \in delayed : r.pkt # hand.pkt
                 /\ \A i \in DOMAIN writes : writes[i] # hand.pkt
                 /\ \A i \in DOMAIN wire : wire[i].pkt # hand.pkt
                 /\ hand.pkt \notin cancelled
  BY HandIsNew
\* send_packet puts a packet that is in none of these places into one.
<1>2. ASSUME NEW p \in Packets, NEW counted \in Statistics,
             SendPacket(p, counted), delayed' \subseteq delayed,
             \A r \in delayed' : r.pkt # p,
             \A i \in DOMAIN writes : writes[i] # p,
             \A i \in DOMAIN wire : wire[i].pkt # p,
             p \notin cancelled
      PROVE  PastOnce'
  <2>1. CASE cancelled' = cancelled \cup {p} /\ UNCHANGED <<wire, writes>>
    BY <1>2, <2>1
  <2>2. CASE /\ Len(wire) \in Nat /\ DOMAIN wire = 1..Len(wire)
             /\ DOMAIN wire' = 1..Len(wire) + 1
             /\ \A i \in DOMAIN wire : wire'[i] = wire[i]
             /\ wire'[Len(wire) + 1].pkt = p
             /\ UNCHANGED <<writes, cancelled>>
    BY <1>2, <2>2
  <2>3. CASE /\ Len(writes) \in Nat /\ DOMAIN writes = 1..Len(writes)
             /\ DOMAIN writes' = 1..Len(writes) + 1
             /\ \A i \in DOMAIN writes : writes'[i] = writes[i]
             /\ writes'[Len(writes) + 1] = p
             /\ UNCHANGED <<wire, cancelled>>
    BY <1>2, <2>3
  <2>. QED BY <1>2, <2>1, <2>2, <2>3, SendPacketPuts
<1>3. ASSUME NEW f \in {"handler", "dtor"}, StopClose(f) PROVE PastOnce'
  BY <1>3, CloseCancels
<1>4. CASE WriteReady
  <2> USE <1>4, WriteMoves
  <2>1. \A i, j \in DOMAIN wire' : wire'[i].pkt = wire'[j].pkt => i = j
    <3>1. CASE wire' = wire
      BY <3>1
    <3>2. CASE /\ Len(wire) \in Nat /\ DOMAIN wire = 1..Len(wire)
               /\ DOMAIN wire' = 1..Len(wire) + 1
               /\ \A i \in DOMAIN wire : wire'[i] = wire[i]
               /\ wire'[Len(wire) + 1].pkt = writes[1]
      BY <3>2
    <3>. QED BY <3>1, <3>2
  <2>2. \A i, j \in DOMAIN writes' : writes'[i] = writes'[j] => i = j
    OBVIOUS
  <2>3. \A i \in DOMAIN wire', j \in DOMAIN writes' : wire'[i].pkt # writes'[j]
    OBVIOUS
  <2>4. \A i \in DOMAIN wire' : /\ wire'[i].pkt \notin cancelled'
                                /\ \A r \in delayed : r.pkt # wire'[i].pkt
    OBVIOUS
  <2>5. \A i \in DOMAIN writes' : /\ writes'[i] \notin cancelled'
                                  /\ \A r \in delayed : r.pkt # writes'[i]
    OBVIOUS
  <2>6. \A r \in delayed' : r.pkt \notin cancelled'
    OBVIOUS
  <2>. QED BY <2>1, <2>2, <2>3, <2>4, <2>5, <2>6
<1>5. CASE Sent
  BY <1>5 DEF Sent, procVars
<1>6. CASE Drop
  BY <1>6, DropCounts
<1>7. CASE Delay
  <2>1. PICK d \in Delays :
          delayed' = {r \in delayed : r.key # hand.key}
            \cup {[key |-> hand.key, pkt |-> hand.pkt, at |-> now + d]}
    BY <1>7, DelayCounts
  <2>2. Decided /\ UNCHANGED <<writes, wire, cancelled>>
    BY <1>7, DelayCounts
  <2>. QED BY <1>1, <2>1, <2>2
<1>8. CASE Forward
  BY <1>1, <1>2, <1>8, ForwardSends
<1>9. CASE FlushOne
  <2>1. PICK r \in due : /\ r \in delayed /\ r.pkt \in Packets
                         /\ SendPacket(r.pkt, stats)
                         /\ delayed' = delayed \ {r}
    BY <1>9, FlushOneSends
  <2>2. stats \in Statistics
    BY DEF DataOK
  <2>. QED BY <1>2, <2>1, <2>2
<1>10. CASE UNCHANGED pastVars
  BY <1>10 DEF pastVars
<1>. QED BY <1>3, <1>4, <1>5, <1>6, <1>7, <1>8, <1>9, <1>10, PastSteps
-----------------------------------------------------------------------------
(* Keys.                                                                   *)

\* Only a decision puts something into the delay map.
LEMMA DelayedGrows ==
  ASSUME DataOK, HandInv, [Next]_vars
  PROVE  \/ delayed' \subseteq delayed
         \/ /\ Decided
            /\ \A r \in delayed' : r \in delayed \/ r.key = hand.key
<1>1. ASSUME NEW f \in {"handler", "dtor"}, StopClose(f)
      PROVE  delayed' = delayed
  BY <1>1, CloseCancels
<1>2. CASE WriteReady
  BY <1>2, WriteMoves
<1>3. CASE Sent
  BY <1>3 DEF Sent, procVars
<1>4. CASE Drop
  BY <1>4, DropCounts
<1>5. CASE Delay
  BY <1>5, DelayCounts
<1>6. CASE Forward
  BY <1>6, ForwardSends
<1>7. CASE FlushOne
  BY <1>7, FlushOneSends
<1>8. CASE UNCHANGED pastVars
  BY <1>8 DEF pastVars
<1>. QED BY <1>1, <1>2, <1>3, <1>4, <1>5, <1>6, <1>7, <1>8, PastSteps

\* Keys are numbers.
LEMMA KeyTypes ==
  ASSUME DataOK
  PROVE  \A r \in delayed : r.key \in Nat
BY DEF DataOK, DelayedPackets

\* sequence_counter_++ of a number that is not the last one.
LEMMA NoWrap ==
  ASSUME NEW c \in Nat, NEW w \in Nat, c < w
  PROVE  c % w = c
OBVIOUS

\* sequence_counter_ stays behind the packets it will number ...
LEMMA CounterStep ==
  ASSUME DataOK, HandInv, InLine, FewPackets, CounterInv, [Next]_vars
  PROVE  CounterInv'
<1> USE LineTypes DEF CounterInv
<1>1. CASE Arrive
  BY <1>1, ArriveLine
<1>2. ASSUME NEW f \in {"handler", "dtor"}, StopClose(f) PROVE CounterInv'
  BY <1>2 DEF StopClose, ioVars
<1>3. CASE Received
  BY <1>3, ReceiveLine
<1>4. CASE Ignored
  BY <1>4 DEF Ignored, Handle, netVars
<1>5. CASE Push
  <2> USE <1>5, PushLine
  <2>1. arrived <= MaxPackets /\ MaxPackets <= Wrap /\ MaxPackets \in Nat
    BY DEF DataOK, FewPackets
  <2>2. counter + 1 <= buffer /\ buffer <= arrived
    BY DEF InLine
  <2>3. counter + 1 < Wrap => counter' = counter + 1
    <3>1. counter' = (counter + 1) % Wrap /\ counter + 1 \in Nat /\ Wrap \in Nat
      BY LineTypes
    <3>. QED BY ONLY <3>1, NoWrap
  <2>4. arrived < MaxPackets => counter' <= arrived
    BY <2>1, <2>2, <2>3
  <2>5. ASSUME NEW j \in DOMAIN inbox PROVE counter' < inbox[j]
    <3>1. buffer < inbox[j] /\ inbox[j] <= arrived
      BY DEF InLine
    <3>. QED BY <2>1, <2>2, <2>3, <3>1
  <2>. QED BY <2>4, <2>5
<1>6. CASE Take
  BY <1>6, TakeLine
<1>7. CASE Decided
  BY <1>7 DEF Decided
<1>8. CASE UNCHANGED <<lineVars, counter>>
  BY <1>8 DEF lineVars
<1>. QED BY <1>1, <1>2, <1>3, <1>4, <1>5, <1>6, <1>7, <1>8, LineSteps

\* ... so that every key it gives is greater than those before.
LEMMA KeysStep ==
  ASSUME DataOK, HandInv, InLine, FewPackets, CounterInv, KeysInLine,
         [Next]_vars
  PROVE  KeysInLine'
<1> USE LineTypes, KeyTypes DEF KeysInLine, MorePackets
<1>1. CASE Arrive
  BY <1>1, ArriveLine
<1>2. ASSUME NEW f \in {"handler", "dtor"}, StopClose(f) PROVE KeysInLine'
  BY <1>2 DEF StopClose, ioVars, procVars
<1>3. CASE Received
  BY <1>3, ReceiveLine
<1>4. CASE Ignored
  BY <1>4 DEF Ignored, Handle, procVars, netVars
<1>5. CASE Push
  <2> USE <1>5, PushLine
  <2>1. /\ \A i \in DOMAIN queue : queue[i].key < counter
        /\ \A r \in delayed : r.key < counter
        /\ hand # NoHand => hand.key < counter
    OBVIOUS
  <2>2. MorePackets' => counter' = counter + 1
    <3>1. arrived <= MaxPackets /\ MaxPackets <= Wrap /\ MaxPackets \in Nat
      BY DEF DataOK, FewPackets
    <3>2. counter + 1 <= buffer /\ buffer <= arrived
      BY DEF InLine, CounterInv
    <3>3. ASSUME inbox # <<>> PROVE buffer < arrived
      <4>1. 1 \in DOMAIN inbox
        BY <3>3, Fronts DEF DataOK
      <4>. QED BY <4>1 DEF InLine
    <3>4. MorePackets' => counter + 1 < Wrap
      BY <3>1, <3>2, <3>3
    <3>5. counter' = (counter + 1) % Wrap /\ counter + 1 \in Nat /\ Wrap \in Nat
      BY LineTypes
    <3>. QED BY ONLY <3>4, <3>5, NoWrap
  <2>3. \A i, j \in DOMAIN queue' : i < j => queue'[i].key < queue'[j].key
    BY <2>1
  <2>4. \A i \in DOMAIN queue' : hand # NoHand => hand.key < queue'[i].key
    BY <2>1, SMTT(20)
  <2>5. \A i \in DOMAIN queue', r \in delayed : r.key < queue'[i].key
    BY <2>1
  <2>6. MorePackets' => \A i \in DOMAIN queue' : queue'[i].key < counter'
    BY <2>1, <2>2, SMTT(20)
  <2>7. MorePackets' => /\ \A r \in delayed : r.key < counter'
                        /\ hand # NoHand => hand.key < counter'
    BY <2>1, <2>2
  <2>. QED BY <2>3, <2>4, <2>5, <2>6, <2>7
<1>6. CASE Take
  <2>1. /\ \A i, j \in DOMAIN queue : i < j => queue[i].key < queue[j].key
        /\ \A r \in delayed : \A i \in DOMAIN queue : r.key < queue[i].key
        /\ MorePackets => /\ \A i \in DOMAIN queue : queue[i].key < counter
                          /\ \A r \in delayed : r.key < counter
    OBVIOUS
  <2>2. /\ hand' = queue[1] /\ 1 \in DOMAIN queue
        /\ UNCHANGED <<counter, delayed>> /\ (MorePackets' => MorePackets)
        /\ \A i \in DOMAIN queue' :
             /\ i \in Nat /\ 1 < i + 1
             /\ i + 1 \in DOMAIN queue /\ queue'[i] = queue[i + 1]
    BY <1>6, TakeLine
  <2>3. \A i, j \in DOMAIN queue' : i < j => queue'[i].key < queue'[j].key
    <3> TAKE i, j \in DOMAIN queue'
    <3>1. i < j => i + 1 < j + 1
      BY ONLY <2>2
    <3>. QED BY ONLY <2>1, <2>2, <3>1
  <2>4. \A i \in DOMAIN queue' : hand'.key < queue'[i].key
    BY ONLY <2>1, <2>2
  <2>5. /\ \A r \in delayed' : r.key < hand'.key
        /\ \A r \in delayed' : \A i \in DOMAIN queue' : r.key < queue'[i].key
    BY ONLY <2>1, <2>2
  <2>6. MorePackets' => /\ hand'.key < counter'
                        /\ \A i \in DOMAIN queue' : queue'[i].key < counter'
                        /\ \A r \in delayed' : r.key < counter'
    BY ONLY <2>1, <2>2
  <2>. QED BY ONLY <2>3, <2>4, <2>5, <2>6 DEF KeysInLine, MorePackets
<1>7. CASE Decided
  <2>1. \A r \in delayed' : r \in delayed \/ r.key = hand.key
    BY DelayedGrows
  <2>2. hand # NoHand
    BY <1>7 DEF Decided, HandInv
  <2>. QED BY <1>7, <2>1, <2>2 DEF Decided
<1>8. CASE UNCHANGED <<lineVars, counter>>
  <2>1. ~Decided
    BY <1>8 DEF Decided, lineVars, HandInv
  <2>2. delayed' \subseteq delayed
    BY <2>1, DelayedGrows
  <2>. QED BY <1>8, <2>2 DEF lineVars
<1>. QED BY <1>1, <1>2, <1>3, <1>4, <1>5, <1>6, <1>7, <1>8, LineSteps

\* No key is given twice, given enough of them.
LEMMA KeyInvStep ==
  ASSUME DataOK, HandInv, InLine, KeyInv, [Next]_vars
  PROVE  KeyInv'
BY CounterStep, KeysStep DEF KeyInv, FewPackets
-----------------------------------------------------------------------------
(* The statistics.                                                         *)

\* The sends that failed can be counted.
LEMMA ForwardedIsNat ==
  ASSUME DataOK
  PROVE  /\ IsFiniteSet(cancelled) /\ Cardinality(cancelled) \in Nat
         /\ Len(writes) \in Nat /\ Len(wire) \in Nat /\ posted \in Nat
         /\ Forwarded \in Nat
<1>1. IsFiniteSet(Packets)
  BY FS_Interval DEF Packets
<1>2. cancelled \subseteq Packets
  BY DEF DataOK
<1>3. IsFiniteSet(cancelled) /\ Cardinality(cancelled) \in Nat
  BY <1>1, <1>2, FS_Subset, FS_CardinalityType
<1>4. Len(writes) \in Nat /\ Len(wire) \in Nat /\ posted \in Nat
  BY LenProperties DEF DataOK
<1>. QED BY <1>3, <1>4 DEF Forwarded

\* One more element.
LEMMA AddOne ==
  ASSUME NEW S, NEW x, IsFiniteSet(S), x \notin S
  PROVE  Cardinality(S \cup {x}) = Cardinality(S) + 1
BY FS_AddElement

\* send_packet with a packet that has not been sent forwards one more.
LEMMA SendPacketForwards ==
  ASSUME DataOK, NEW p \in Packets, NEW counted \in Statistics,
         SendPacket(p, counted), p \notin cancelled
  PROVE  /\ Forwarded' = Forwarded + 1
         /\ Len(wire') \in Nat /\ posted' \in Nat
         /\ Len(wire') + posted = Len(wire) + posted'
<1>1. Cardinality(cancelled \cup {p}) = Cardinality(cancelled) + 1
  BY ForwardedIsNat, AddOne
<1>2. CASE cancelled' = cancelled \cup {p} /\ UNCHANGED <<wire, writes, posted>>
  BY <1>1, <1>2, ForwardedIsNat DEF Forwarded
<1>3. CASE /\ posted' = posted + 1 /\ Len(wire') = Len(wire) + 1
           /\ UNCHANGED <<writes, cancelled>>
  BY <1>3, ForwardedIsNat DEF Forwarded
<1>4. CASE /\ Len(writes') = Len(writes) + 1
           /\ UNCHANGED <<wire, cancelled, posted>>
  BY <1>4, ForwardedIsNat DEF Forwarded
<1>. QED BY <1>2, <1>3, <1>4, SendPacketPuts

\* Two sets of their own are as large together as their sizes say.
LEMMA DisjointUnion ==
  ASSUME NEW S, NEW T, IsFiniteSet(S), IsFiniteSet(T), S \cap T = {}
  PROVE  Cardinality(S \cup T) = Cardinality(S) + Cardinality(T)
<1>1. Cardinality(S \cap T) = 0
  BY FS_EmptySet
<1>2. Cardinality(S) \in Nat /\ Cardinality(T) \in Nat
  BY FS_CardinalityType
<1>3. Cardinality(S \cup T) = Cardinality(S) + Cardinality(T) - Cardinality(S \cap T)
  BY ONLY FS_Union, IsFiniteSet(S), IsFiniteSet(T)
<1>. QED BY ONLY <1>1, <1>2, <1>3

\* close() fails each of the deferred sends once.
LEMMA CloseForwards ==
  ASSUME DataOK, PastOnce, NEW f \in {"handler", "dtor"}, StopClose(f)
  PROVE  Forwarded' = Forwarded
<1> DEFINE W == {writes[i] : i \in DOMAIN writes}
<1>1. Len(writes) \in Nat /\ DOMAIN writes = 1..Len(writes)
  BY LenProperties DEF DataOK
<1>2. IsFiniteSet(1..Len(writes)) /\ Cardinality(1..Len(writes)) = Len(writes)
  BY <1>1, FS_Interval, SMTT(20)
<1>3. [i \in 1..Len(writes) |-> writes[i]] \in Surjection(1..Len(writes), W)
  BY <1>1 DEF Surjection
<1>4. [i \in 1..Len(writes) |-> writes[i]] \in Injection(1..Len(writes), W)
  BY <1>1 DEF Injection, IsInjective, PastOnce
<1>5. IsFiniteSet(W) /\ Cardinality(W) = Len(writes)
  <2>1. [i \in 1..Len(writes) |-> writes[i]] \in Bijection(1..Len(writes), W)
    BY <1>3, <1>4 DEF Bijection
  <2>2. ExistsBijection(1..Len(writes), W)
    BY <2>1 DEF ExistsBijection
  <2>. QED BY ONLY <1>2, <2>2, FS_Bijection
<1>6. cancelled \cap W = {}
  BY DEF PastOnce
<1>7. Cardinality(cancelled \cup W) = Cardinality(cancelled) + Len(writes)
  BY ONLY <1>5, <1>6, ForwardedIsNat, DisjointUnion, DataOK
<1>8. cancelled' = cancelled \cup W /\ Len(writes') = 0 /\ wire' = wire
  BY CloseCancels
<1>. QED BY <1>7, <1>8, ForwardedIsNat DEF Forwarded

\* delayed_packets_[key] = ... adds an element, and with a key of its own
\* overwrites none.
LEMMA DelayAdds ==
  ASSUME DataOK, HandInv, InLine, PastPrecedes, KeyInv, IsFiniteSet(delayed),
         Delay
  PROVE  /\ IsFiniteSet(delayed')
         /\ Cardinality(delayed) \in Nat /\ Cardinality(delayed') \in Nat
         /\ Cardinality(delayed') <= Cardinality(delayed) + 1
         /\ FewPackets => /\ Cardinality(delayed') = Cardinality(delayed) + 1
                          /\ delayed \subseteq delayed'
<1> DEFINE kept == {r \in delayed : r.key # hand.key}
<1>1. PICK d \in Delays :
        delayed' = kept \cup {[key |-> hand.key, pkt |-> hand.pkt, at |-> now + d]}
  BY DelayCounts
<1> DEFINE new == [key |-> hand.key, pkt |-> hand.pkt, at |-> now + d]
<1>2. IsFiniteSet(kept) /\ Cardinality(kept) <= Cardinality(delayed)
  BY FS_Subset
<1>3. new \notin kept
  BY DelayCounts, HandIsNew
<1>4. IsFiniteSet(delayed') /\ Cardinality(delayed') = Cardinality(kept) + 1
  BY <1>1, <1>2, <1>3, FS_AddElement
<1>5. /\ Cardinality(delayed) \in Nat /\ Cardinality(kept) \in Nat
      /\ Cardinality(delayed') \in Nat
  BY <1>2, <1>4, FS_CardinalityType
<1>6. FewPackets => kept = delayed
  <2>1. SUFFICES ASSUME FewPackets PROVE \A r \in delayed : r.key # hand.key
    OBVIOUS
  <2>2. hand # NoHand /\ hand.key \in Nat
    BY DelayCounts, LineTypes DEF Decided, HandInv
  <2>. QED BY <2>1, <2>2, KeyTypes DEF KeyInv, KeysInLine
<1>. QED BY <1>1, <1>2, <1>4, <1>5, <1>6

\* The statistics count what is done with each packet, and no more.
LEMMA CountInvStep ==
  ASSUME DataOK, HandInv, InLine, PastPrecedes, PastOnce, KeyInv, CountInv,
         [Next]_vars
  PROVE  CountInv'
<1> DEFINE
  card == Cardinality(delayed)
  sends == Len(wire)
\* What CountInv says, in numbers; how the numbers change is left to the cases.
<1>1. /\ IsFiniteSet(delayed) /\ card \in Nat /\ Forwarded \in Nat
      /\ posted \in Nat /\ sends \in Nat
      /\ stats.received \in Nat /\ stats.sent \in Nat /\ stats.dropped \in Nat
      /\ stats.delayed \in Nat /\ stats.reordered \in Nat
  BY ForwardedIsNat, CountedFields, FS_CardinalityType DEF CountInv, FewPackets
<1>2. /\ stats.received >= stats.dropped + card + Forwarded
      /\ FewPackets => stats.received = stats.dropped + card + Forwarded
      /\ stats.sent + posted = sends
      /\ stats.reordered <= Forwarded
      /\ card <= stats.delayed /\ stats.delayed <= stats.received
  BY DEF CountInv, FewPackets
<1> HIDE DEF card, sends
<1>4. ASSUME NEW f \in {"handler", "dtor"}, StopClose(f) PROVE CountInv'
  <2>1. Forwarded' = Forwarded
    BY <1>4, CloseForwards
  <2>2. UNCHANGED <<delayed, wire, posted, stats>>
    BY <1>4, CloseCancels
  <2>. QED BY <1>1, <1>2, <2>1, <2>2 DEF CountInv, FewPackets, card, sends
<1>5. CASE WriteReady
  <2>1. /\ Len(writes') = Len(writes) - 1 /\ UNCHANGED <<delayed, stats>>
        /\ \/ /\ Len(wire') = Len(wire) + 1 /\ posted' = posted + 1
              /\ cancelled' = cancelled
           \/ /\ cancelled' = cancelled \cup {writes[1]}
              /\ UNCHANGED <<wire, posted>>
    BY <1>5, WriteMoves
  <2>2. Forwarded' = Forwarded
    <3>1. Cardinality(cancelled \cup {writes[1]}) = Cardinality(cancelled) + 1
      <4>1. writes[1] \notin cancelled
        BY <1>5, WriteMoves DEF PastOnce
      <4>2. IsFiniteSet(cancelled)
        BY ForwardedIsNat
      <4>3. \A x : x \notin cancelled
                    => Cardinality(cancelled \cup {x}) = Cardinality(cancelled) + 1
        BY <4>2, AddOne
      <4>. QED BY <4>1, <4>3
    <3>2. \/ /\ Len(wire') = Len(wire) + 1
             /\ Cardinality(cancelled') = Cardinality(cancelled)
          \/ /\ Len(wire') = Len(wire)
             /\ Cardinality(cancelled') = Cardinality(cancelled) + 1
      BY <2>1, <3>1
    <3>3. Len(writes') = Len(writes) - 1
      BY <2>1
    <3>4. /\ Len(writes) \in Nat /\ Len(wire) \in Nat
          /\ Cardinality(cancelled) \in Nat
      BY ForwardedIsNat
    <3>. QED BY ONLY <3>2, <3>3, <3>4 DEF Forwarded
  <2>3. /\ IsFiniteSet(delayed') /\ card' = card /\ stats'.sent = stats.sent
        /\ \/ posted' = posted + 1 /\ sends' = sends + 1
           \/ posted' = posted /\ sends' = sends
    BY <1>1, <2>1, <2>2 DEF card, sends
  <2>4. stats'.received >= stats'.dropped + card' + Forwarded'
    BY ONLY <1>1, <1>2, <2>1, <2>2, <2>3
  <2>5. FewPackets => stats'.received = stats'.dropped + card' + Forwarded'
    BY ONLY <1>1, <1>2, <2>1, <2>2, <2>3
  <2>6. stats'.sent + posted' = sends'
    BY ONLY <1>1, <1>2, <2>3
  <2>7. stats'.reordered <= Forwarded'
    BY ONLY <1>1, <1>2, <2>1, <2>2, <2>3
  <2>8. card' <= stats'.delayed /\ stats'.delayed <= stats'.received
    BY ONLY <1>1, <1>2, <2>1, <2>2, <2>3
  <2>. QED BY <2>3, <2>4, <2>5, <2>6, <2>7, <2>8
    DEF CountInv, FewPackets, card, sends
<1>6. CASE Sent
  <2>1. /\ stats'.sent = stats.sent + 1 /\ stats'.received = stats.received
        /\ stats'.dropped = stats.dropped /\ stats'.delayed = stats.delayed
        /\ stats'.reordered = stats.reordered
    <3>1. stats \in Statistics /\ stats' = [stats EXCEPT !.sent = @ + 1]
      BY <1>6 DEF DataOK, Sent
    <3>. QED BY ONLY <3>1 DEF Statistics
  <2>2. posted' = posted - 1 /\ UNCHANGED <<delayed, wire, writes, cancelled>>
    BY <1>6 DEF Sent, procVars
  <2>3. Forwarded' = Forwarded
    BY <2>2 DEF Forwarded
  <2>. QED BY <1>1, <1>2, <2>1, <2>2, <2>3
    DEF CountInv, FewPackets, card, sends
<1>7. CASE Drop
  <2>1. /\ stats'.received = stats.received + 1
        /\ stats'.dropped = stats.dropped + 1
        /\ stats'.sent = stats.sent /\ stats'.delayed = stats.delayed
        /\ stats'.reordered = stats.reordered
        /\ UNCHANGED <<delayed, writes, wire, cancelled, posted>>
    BY <1>7, DropCounts
  <2>2. Forwarded' = Forwarded
    BY <2>1 DEF Forwarded
  <2>3. /\ IsFiniteSet(delayed') /\ card' = card
        /\ stats'.sent = stats.sent /\ posted' = posted /\ sends' = sends
    BY <1>1, <2>1, <2>2 DEF card, sends
  <2>4. stats'.received >= stats'.dropped + card' + Forwarded'
    BY ONLY <1>1, <1>2, <2>1, <2>2, <2>3
  <2>5. FewPackets => stats'.received = stats'.dropped + card' + Forwarded'
    BY ONLY <1>1, <1>2, <2>1, <2>2, <2>3
  <2>6. stats'.sent + posted' = sends'
    BY ONLY <1>1, <1>2, <2>3
  <2>7. stats'.reordered <= Forwarded'
    BY ONLY <1>1, <1>2, <2>1, <2>2, <2>3
  <2>8. card' <= stats'.delayed /\ stats'.delayed <= stats'.received
    BY ONLY <1>1, <1>2, <2>1, <2>2, <2>3
  <2>. QED BY <2>3, <2>4, <2>5, <2>6, <2>7, <2>8
    DEF CountInv, FewPackets, card, sends
<1>8. CASE Delay
  <2>1. /\ stats'.received = stats.received + 1
        /\ stats'.delayed = stats.delayed + 1
        /\ stats'.sent = stats.sent /\ stats'.dropped = stats.dropped
        /\ stats'.reordered = stats.reordered
        /\ UNCHANGED <<writes, wire, cancelled, posted>>
    BY <1>8, DelayCounts
  <2>2. Forwarded' = Forwarded
    BY <2>1 DEF Forwarded
  <2>3. /\ IsFiniteSet(delayed') /\ card' \in Nat /\ card' <= card + 1
        /\ FewPackets => card' = card + 1
        /\ stats'.sent = stats.sent /\ posted' = posted /\ sends' = sends
    BY <1>1, <1>8, <2>1, DelayAdds DEF card, sends
  <2>4. stats'.received >= stats'.dropped + card' + Forwarded'
    BY ONLY <1>1, <1>2, <2>1, <2>2, <2>3
  <2>5. FewPackets => stats'.received = stats'.dropped + card' + Forwarded'
    BY ONLY <1>1, <1>2, <2>1, <2>2, <2>3
  <2>6. stats'.sent + posted' = sends'
    BY ONLY <1>1, <1>2, <2>3
  <2>7. stats'.reordered <= Forwarded'
    BY ONLY <1>1, <1>2, <2>1, <2>2, <2>3
  <2>8. card' <= stats'.delayed /\ stats'.delayed <= stats'.received
    BY ONLY <1>1, <1>2, <2>1, <2>2, <2>3
  <2>. QED BY <1>1, <2>3, <2>4, <2>5, <2>6, <2>7, <2>8
    DEF CountInv, FewPackets, card, sends
<1>9. CASE Forward
  <2>1. /\ hand.pkt \in Packets /\ SendPacket(hand.pkt, Counted)
        /\ Decided /\ Counted \in Statistics /\ delayed' = delayed
    BY <1>9, ForwardSends
  <2>2. /\ Forwarded' = Forwarded + 1 /\ sends' \in Nat /\ posted' \in Nat
        /\ sends' + posted = sends + posted' /\ card' = card
    BY <2>1, HandIsNew, SendPacketForwards DEF sends, card
  <2>3. /\ stats'.received = stats.received + 1
        /\ stats'.sent = stats.sent /\ stats'.dropped = stats.dropped
        /\ stats'.delayed = stats.delayed
        /\ stats'.reordered \in Nat /\ stats'.reordered <= stats.reordered + 1
    BY <1>1, <2>1, SendPacketPuts, CountedFields
  <2>4. stats'.received >= stats'.dropped + card' + Forwarded'
    BY ONLY <1>1, <1>2, <2>1, <2>2, <2>3
  <2>5. FewPackets => stats'.received = stats'.dropped + card' + Forwarded'
    BY ONLY <1>1, <1>2, <2>1, <2>2, <2>3
  <2>6. stats'.sent + posted' = sends'
    BY ONLY <1>1, <1>2, <2>1, <2>2, <2>3
  <2>7. stats'.reordered <= Forwarded'
    BY ONLY <1>1, <1>2, <2>1, <2>2, <2>3
  <2>8. card' <= stats'.delayed /\ stats'.delayed <= stats'.received
    BY ONLY <1>1, <1>2, <2>1, <2>2, <2>3
  <2>. QED BY <1>1, <2>1, <2>4, <2>5, <2>6, <2>7, <2>8
    DEF CountInv, FewPackets, card, sends
<1>10. CASE FlushOne
  <2>1. PICK r \in due : /\ r \in delayed /\ r.pkt \in Packets
                         /\ SendPacket(r.pkt, stats)
                         /\ delayed' = delayed \ {r}
    BY <1>10, FlushOneSends
  <2>2. r.pkt \notin cancelled /\ stats \in Statistics
    BY <2>1 DEF PastOnce, DataOK
  <2>3. /\ Forwarded' = Forwarded + 1 /\ sends' \in Nat /\ posted' \in Nat
        /\ sends' + posted = sends + posted'
    BY <2>1, <2>2, SendPacketForwards DEF sends
  <2>4. /\ stats'.received = stats.received
        /\ stats'.sent = stats.sent /\ stats'.dropped = stats.dropped
        /\ stats'.delayed = stats.delayed
        /\ stats'.reordered \in Nat /\ stats'.reordered <= stats.reordered + 1
    BY <1>1, <2>1, <2>2, SendPacketPuts
  <2>5. IsFiniteSet(delayed') /\ card' = card - 1
    BY <1>1, <2>1, FS_RemoveElement DEF card
  <2>6. stats'.received >= stats'.dropped + card' + Forwarded'
    BY <1>1, <1>2, <2>3, <2>4, <2>5
  <2>7. FewPackets => stats'.received = stats'.dropped + card' + Forwarded'
    BY <1>1, <1>2, <2>3, <2>4, <2>5
  <2>8. stats'.sent + posted' = sends'
    BY <1>1, <1>2, <2>3, <2>4, <2>5
  <2>9. stats'.reordered <= Forwarded'
    BY <1>1, <1>2, <2>3, <2>4, <2>5
  <2>10. card' <= stats'.delayed /\ stats'.delayed <= stats'.received
    BY <1>1, <1>2, <2>3, <2>4, <2>5
  <2>. QED BY <1>1, <2>5, <2>6, <2>7, <2>8, <2>9, <2>10
    DEF CountInv, FewPackets, card, sends
<1>11. CASE UNCHANGED pastVars /\ UNCHANGED posted
  BY <1>11 DEF CountInv, Forwarded, FewPackets, pastVars
<1>12. UNCHANGED pastVars =>
         UNCHANGED posted \/ Sent \/ WriteReady \/ Forward \/ FlushOne
  BY PacketSteps, CloseCancels, DropCounts, DelayCounts
    DEF packetVars, Tick, Arrive, Received, Receive, ReceiveNothing, Completes,
        Handle, Push, Take, FlushStart, sendVars
<1>. QED BY <1>4, <1>5, <1>6, <1>7, <1>8, <1>9, <1>10, <1>11, <1>12, PastSteps
-----------------------------------------------------------------------------
(* Time and order.                                                         *)

\* The clock only goes on.
LEMMA DueInvStep ==
  ASSUME DataOK, HandInv, DueInv, [Next]_vars
  PROVE  DueInv'
<1> USE DEF DueInv
<1>1. now \in Nat /\ due \subseteq DelayedPackets
  BY DEF DataOK
<1>2. \A r \in due : r.at \in Nat
  BY <1>1 DEF DelayedPackets
<1>3. CASE Tick
  BY <1>1, <1>2, <1>3 DEF Tick, procVars
<1>4. CASE FlushStart
  <2>1. now' = now /\ due' = Due
    BY <1>4 DEF FlushStart, ProcStep, netVars
  <2>2. \A r \in Due : r.at \in Nat
    BY DEF Due, DataOK, DelayedPackets
  <2>. QED BY <1>1, <2>1, <2>2 DEF Due
<1>5. CASE FlushOne
  BY <1>5 DEF FlushOne, ProcStep, netVars
<1>6. CASE UNCHANGED <<due, now>>
  BY <1>6
<1>7. CASE Arrive \/ Received \/ Handle \/ Push \/ WriteReady \/ Sent
  BY <1>6, <1>7 DEF Arrive, Received, Receive, ReceiveNothing, Completes, Handle,
     Push, WriteReady, Sent, netVars, procVars
<1>8. CASE Take \/ Drop \/ Delay \/ Forward
  BY <1>6, <1>8 DEF Take, Drop, Delay, Forward, ProcStep, netVars
<1>9. ASSUME NEW f \in {"handler", "dtor"}, StopClose(f) PROVE DueInv'
  BY <1>6, <1>9 DEF StopClose, procVars
<1>. QED BY <1>3, <1>4, <1>5, <1>6, <1>7, <1>8, <1>9, PacketSteps DEF packetVars

\* Before the first delay what is sent is sent in order.
LEMMA SendOrderStep ==
  ASSUME DataOK, HandInv, InLine, PastPrecedes, CountInv, SendOrderInv,
         [Next]_vars
  PROVE  SendOrderInv'
<1>1. /\ \A i \in DOMAIN wire : wire[i].pkt \in Nat
      /\ \A i \in DOMAIN writes : writes[i] \in Nat
      /\ DOMAIN wire = 1..Len(wire)
  BY PastIsNat, LenProperties DEF Past, DataOK
<1> DEFINE
  Goal ==
    /\ delayed' = {}
    /\ \A i, j \in DOMAIN wire' : i < j => wire'[i].pkt < wire'[j].pkt
    /\ \A i, j \in DOMAIN writes' : i < j => writes'[i] < writes'[j]
    /\ \A i \in DOMAIN wire', j \in DOMAIN writes' : wire'[i].pkt < writes'[j]
<1>2. SUFFICES
        ASSUME stats.delayed = 0 =>
                 /\ delayed = {}
                 /\ \A i, j \in DOMAIN wire : i < j => wire[i].pkt < wire[j].pkt
                 /\ \A i, j \in DOMAIN writes : i < j => writes[i] < writes[j]
                 /\ \A i \in DOMAIN wire, j \in DOMAIN writes : wire[i].pkt < writes[j],
               stats'.delayed = 0
        PROVE  Goal
  <2>1. DOMAIN wire' = 1..Len(wire')
    BY DataStep, LenProperties DEF DataOK
  <2>. QED BY <1>1, <2>1 DEF SendOrderInv, OrderKept
<1>3. ASSUME NEW f \in {"handler", "dtor"}, StopClose(f) PROVE Goal
  BY <1>2, <1>3, CloseCancels
<1>4. CASE WriteReady
  <2> USE <1>1, <1>2, <1>4, WriteMoves
  <2>2. \A i, j \in DOMAIN writes' : i < j => writes'[i] < writes'[j]
    OBVIOUS
  <2>4. CASE wire' = wire
    BY <2>2, <2>4
  <2>5. CASE /\ Len(wire) \in Nat /\ DOMAIN wire = 1..Len(wire)
             /\ DOMAIN wire' = 1..Len(wire) + 1
             /\ \A i \in DOMAIN wire : wire'[i] = wire[i]
             /\ wire'[Len(wire) + 1].pkt = writes[1]
    <3>1. \A i, j \in DOMAIN wire' : i < j => wire'[i].pkt < wire'[j].pkt
      BY <2>5
    <3>2. \A i \in DOMAIN wire', j \in DOMAIN writes' : wire'[i].pkt < writes'[j]
      BY <2>5, SMTT(20)
    <3>. QED BY <2>2, <3>1, <3>2
  <2>. QED BY <2>4, <2>5
<1>5. CASE Sent
  <2>1. stats \in Statistics /\ stats' = [stats EXCEPT !.sent = @ + 1]
    BY <1>5 DEF DataOK, Sent
  <2>2. stats'.delayed = stats.delayed
    BY ONLY <2>1 DEF Statistics
  <2>. QED BY <1>2, <1>5, <2>2 DEF Sent, procVars
<1>6. CASE Drop
  BY <1>2, <1>6, DropCounts
<1>7. CASE Delay
  <2>1. stats'.delayed = stats.delayed + 1 /\ stats.delayed \in Nat
    BY <1>7, DelayCounts, CountedFields
  <2>. QED BY <1>2, <2>1
\* send_packet with a packet that comes after all those past the line.
<1>8. CASE Forward
  <2>1. /\ Decided /\ hand.pkt \in Packets /\ SendPacket(hand.pkt, Counted)
        /\ Counted \in Statistics /\ delayed' = delayed
    BY <1>8, ForwardSends
  <2>2. stats.delayed = 0
    BY <1>2, <2>1, SendPacketPuts, CountedFields
  <2>3. /\ \A i \in DOMAIN wire : wire[i].pkt < hand.pkt
        /\ \A i \in DOMAIN writes : writes[i] < hand.pkt
        /\ hand.pkt \in Nat
    BY <2>1, HandIsNew DEF Past, Packets
  <2>4. CASE UNCHANGED <<wire, writes>>
    BY <1>2, <2>1, <2>2, <2>4
  <2>5. CASE /\ writes = <<>> /\ writes' = writes
             /\ Len(wire) \in Nat /\ DOMAIN wire' = 1..Len(wire) + 1
             /\ \A i \in DOMAIN wire : wire'[i] = wire[i]
             /\ wire'[Len(wire) + 1].pkt = hand.pkt
    BY <1>1, <1>2, <2>1, <2>2, <2>3, <2>5
  <2>6. CASE /\ wire' = wire /\ Len(writes) \in Nat
             /\ DOMAIN writes = 1..Len(writes)
             /\ DOMAIN writes' = 1..Len(writes) + 1
             /\ \A i \in DOMAIN writes : writes'[i] = writes[i]
             /\ writes'[Len(writes) + 1] = hand.pkt
    BY <1>1, <1>2, <2>1, <2>2, <2>3, <2>6, SMTT(20)
  <2>. QED BY <2>1, <2>4, <2>5, <2>6, SendPacketPuts
\* Nothing is due as long as nothing was delayed.
<1>9. CASE FlushOne
  <2>1. stats \in Statistics /\ \E r \in delayed : r.pkt \in Packets /\ SendPacket(r.pkt, stats)
    BY <1>9, FlushOneSends
  <2>2. stats'.delayed = stats.delayed
    BY <2>1, SendPacketPuts
  <2>. QED BY <1>2, <2>1, <2>2
<1>10. CASE UNCHANGED pastVars
  BY <1>2, <1>10 DEF pastVars
<1>. QED BY <1>3, <1>4, <1>5, <1>6, <1>7, <1>8, <1>9, <1>10, PastSteps
-----------------------------------------------------------------------------
(* The inductive invariant.                                                *)

\* It holds when the simulator is constructed ...
LEMMA InitInv == Init => IInv
<1> SUFFICES ASSUME Init PROVE IInv
  OBVIOUS
<1> USE DEF Init
<1>1. ControlOK /\ ThreadInv /\ WakeupInv /\ HandInv
  <2>1. StopOK
    BY DEF StopOK
  <2>2. ControlOK
    <3>1. /\ appRunning \in BOOLEAN /\ running \in BOOLEAN
          /\ sockOpen \in BOOLEAN /\ ioStopped \in BOOLEAN /\ armed \in BOOLEAN
      OBVIOUS
    <3>2. signals \in 0..MaxSignals /\ spurious \in 0..MaxSpurious
      OBVIOUS
    <3>3. mpc = "start" /\ ipc = "none" /\ ppc = "none" /\ joinable = {}
      OBVIOUS
    <3>. QED BY ONLY <2>1, <3>1, <3>2, <3>3 DEF ControlOK
  <2>3. ThreadInv
    BY DEF ThreadInv
  <2>. QED BY <2>2, <2>3 DEF WakeupInv, HandInv, QueueNeverStranded
<1>2. stats \in Statistics
  BY DEF Statistics
<1>3. DataOK
  BY <1>2, EmptySeq DEF DataOK
<1>4. /\ DOMAIN inbox = {} /\ DOMAIN queue = {} /\ DOMAIN wire = {}
      /\ DOMAIN writes = {} /\ Len(wire) = 0 /\ Len(writes) = 0
      /\ Cardinality(delayed) = 0 /\ Cardinality(cancelled) = 0
      /\ IsFiniteSet(delayed)
  BY FS_EmptySet
<1>5. Past = {}
  BY <1>4 DEF Past
<1>6. Precedes(0)
  BY <1>4 DEF Precedes, NoPacket
<1>7. InLine /\ PastPrecedes /\ PastOnce
  BY <1>4, <1>5, <1>6 DEF InLine, PastPrecedes, PastOnce, NoHand, NoPacket
<1>8. KeyInv
  BY <1>4 DEF KeyInv, CounterInv, KeysInLine
<1>9. Forwarded = 0
  BY <1>4 DEF Forwarded
<1>10. CountInv
  BY <1>4, <1>9 DEF CountInv
<1>11. DueInv /\ SendOrderInv
  BY <1>4 DEF DueInv, SendOrderInv, OrderKept
<1>. QED BY <1>1, <1>3, <1>7, <1>8, <1>10, <1>11 DEF IInv, PacketInv

\* ... and every step keeps it.
LEMMA NextInv == IInv /\ [Next]_vars => IInv'
<1> SUFFICES ASSUME IInv, [Next]_vars PROVE IInv'
  OBVIOUS
<1> USE DEF IInv, PacketInv
<1>1. ControlOK' /\ ThreadInv' /\ WakeupInv' /\ HandInv'
  BY ControlStep, ThreadStep
<1>2. DataOK' /\ InLine' /\ PastPrecedes' /\ PastOnce'
  BY DataStep, InLineStep, PastPrecedesStep, PastOnceStep
<1>3. KeyInv' /\ CountInv' /\ DueInv' /\ SendOrderInv'
  BY KeyInvStep, CountInvStep, DueInvStep, SendOrderStep
<1>. QED BY <1>1, <1>2, <1>3

\* So it holds in every state.
THEOREM Invariance == Spec => []IInv
BY InitInv, NextInv, PTL DEF Spec

-----------------------------------------------------------------------------
(* What follows from it.                                                   *)

\* Nothing is counted that has not arrived.
LEMMA CountsAreBounded ==
  ASSUME IInv
  PROVE  TypeOK
<1>1. ControlOK /\ DataOK /\ CountInv
  BY DEF IInv, PacketInv
<1>2. stats.received <= arrived /\ arrived <= MaxPackets /\ arrived \in Nat
  BY DEF IInv, PacketInv, PastPrecedes, Precedes, DataOK
<1>3. /\ Forwarded \in Nat /\ Len(wire) \in Nat /\ posted \in Nat
      /\ Len(wire) <= Forwarded
  BY <1>1, ForwardedIsNat DEF Forwarded
<1>4. /\ stats.received \in Nat /\ stats.sent \in Nat /\ stats.dropped \in Nat
      /\ stats.delayed \in Nat /\ stats.reordered \in Nat
  BY <1>1, CountedFields
<1>5. Cardinality(delayed) \in Nat
  BY <1>1, FS_CardinalityType DEF CountInv
<1>6. stats.received <= MaxPackets
  BY <1>2, <1>4
<1>7. Forwarded <= stats.received /\ stats.dropped <= stats.received
  BY <1>1, <1>3, <1>4, <1>5 DEF CountInv
<1>8. stats.sent <= Len(wire) /\ posted <= Len(wire)
  BY <1>1, <1>3, <1>4 DEF CountInv
<1>9. stats.reordered <= Forwarded /\ stats.delayed <= stats.received
  BY <1>1 DEF CountInv
<1>10. DOMAIN stats = {"received", "sent", "dropped", "delayed", "reordered"}
  BY <1>1 DEF DataOK, Statistics
<1>11. /\ posted \in 0..MaxPackets /\ stats.received \in 0..MaxPackets
       /\ stats.sent \in 0..MaxPackets /\ stats.dropped \in 0..MaxPackets
       /\ stats.delayed \in 0..MaxPackets /\ stats.reordered \in 0..MaxPackets
  BY <1>3, <1>4, <1>6, <1>7, <1>8, <1>9
<1>. QED BY <1>1, <1>10, <1>11 DEF TypeOK

\* The line orders the places before the processor's decision, and all of them
\* come after the places past it.
LEMMA PlacesAreDistinct ==
  ASSUME IInv, NEW p \in Packets
  PROVE  \A a, b \in Places(p) : a = b
<1>1. DataOK /\ InLine /\ PastPrecedes /\ PastOnce
  BY DEF IInv, PacketInv
<1> DEFINE
  AtInbox(a) == \E i \in DOMAIN inbox : inbox[i] = p /\ a = <<"inbox", i>>
  AtBuffer(a) == buffer = p /\ a = <<"buffer", p>>
  AtQueue(a) == \E i \in DOMAIN queue : queue[i].pkt = p /\ a = <<"queue", i>>
  AtHand(a) == hand.pkt = p /\ a = <<"hand", hand>>
  AtDelayed(a) == \E r \in delayed : r.pkt = p /\ a = <<"delayed", r>>
  AtWrites(a) == \E i \in DOMAIN writes : writes[i] = p /\ a = <<"writes", i>>
  AtWire(a) == \E i \in DOMAIN wire : wire[i].pkt = p /\ a = <<"wire", i>>
  AtCancelled(a) == p \in cancelled /\ a = <<"cancelled", p>>
  IsPast(a) == AtDelayed(a) \/ AtWrites(a) \/ AtWire(a) \/ AtCancelled(a)
<1>2. ASSUME NEW a \in Places(p)
      PROVE  AtInbox(a) \/ AtBuffer(a) \/ AtQueue(a) \/ AtHand(a) \/ IsPast(a)
  BY <1>2 DEF Places
<1>3. p \in Nat \ {0} /\ NoHand.pkt = 0 /\ NoPacket = 0
  BY DEF Packets, NoHand, NoPacket
<1>4. ASSUME NEW a, NEW b, AtInbox(a), AtInbox(b) PROVE a = b
  <2>1. \A i, j \in DOMAIN inbox : inbox[i] = inbox[j] => i = j
    <3>1. DOMAIN inbox \subseteq Int
      BY <1>1, LenProperties DEF DataOK
    <3>. QED BY <1>1, <3>1, LineTypes DEF InLine
  <2>. QED BY <1>4, <2>1
<1>5. ASSUME NEW a, NEW b, AtQueue(a), AtQueue(b) PROVE a = b
  <2>1. \A i, j \in DOMAIN queue : queue[i].pkt = queue[j].pkt => i = j
    <3>1. DOMAIN queue \subseteq Int
      BY <1>1, LenProperties DEF DataOK
    <3>. QED BY <1>1, <3>1, LineTypes DEF InLine
  <2>. QED BY <1>5, <2>1
<1>6. ASSUME NEW a, AtInbox(a), NEW b
      PROVE  ~AtBuffer(b) /\ ~AtQueue(b) /\ ~AtHand(b)
  BY <1>1, <1>3, <1>6, LineTypes DEF InLine
<1>7. ASSUME NEW a, AtBuffer(a), NEW b
      PROVE  ~AtQueue(b) /\ ~AtHand(b)
  BY <1>1, <1>3, <1>7, LineTypes DEF InLine
<1>8. ASSUME NEW a, AtQueue(a), NEW b
      PROVE  ~AtHand(b)
  BY <1>1, <1>3, <1>8, LineTypes DEF InLine
<1>9. ASSUME NEW a, IsPast(a), NEW b
      PROVE  ~AtInbox(b) /\ ~AtBuffer(b) /\ ~AtQueue(b) /\ ~AtHand(b)
  <2>1. p \in Past
    BY <1>9 DEF Past
  <2>2. Precedes(p)
    BY <1>1, <2>1 DEF PastPrecedes
  <2>. QED BY <1>1, <1>3, <2>2, LineTypes DEF Precedes
<1>10. ASSUME NEW a, NEW b, IsPast(a), IsPast(b) PROVE a = b
  BY <1>1, <1>10 DEF PastOnce
<1> HIDE DEF AtInbox, AtQueue, IsPast
<1>. QED BY <1>2, <1>4, <1>5, <1>6, <1>7, <1>8, <1>9, <1>10

\* Every variable has its type, and no counter exceeds the datagrams that
\* arrived.
THEOREM TypeCorrect == Spec => []TypeOK
BY Invariance, CountsAreBounded, PTL

\* A datagram is in at most one of the places between the socket and the wire,
\* also when sequence_counter_ has wrapped and keys are used again.
THEOREM NeverDuplicated == Spec => []NoDuplicates
<1>1. IInv => NoDuplicates
  BY PlacesAreDistinct DEF NoDuplicates
<1>. QED BY <1>1, Invariance, PTL

\* With fewer datagrams than keys the statistics also account for every packet
\* the processor took: none is lost in the delay map by another with its key.
THEOREM EachPacketOnceAlways ==
  ASSUME FewPackets
  PROVE  Spec => []EachPacketOnce
<1>1. IInv => EachPacketOnce
  <2>1. SUFFICES ASSUME IInv PROVE StatsAddUp
    BY PlacesAreDistinct, CountsAreBounded DEF EachPacketOnce, NoDuplicates
  <2>2. DataOK /\ CountInv
    BY <2>1 DEF IInv, PacketInv
  <2>3. /\ stats.dropped \in Nat /\ Cardinality(delayed) \in Nat
        /\ Len(writes) \in Nat /\ Len(wire) \in Nat
        /\ Cardinality(cancelled) \in Nat
    BY <2>2, CountedFields, ForwardedIsNat, FS_CardinalityType DEF CountInv
  <2>. QED BY <2>2, <2>3 DEF CountInv, Forwarded, StatsAddUp
<1>. QED BY <1>1, Invariance, PTL

\* The processor never sleeps on a packet that nobody is about to announce.
THEOREM QueueIsNeverStranded == Spec => []QueueNeverStranded
<1>1. IInv => QueueNeverStranded
  BY DEF IInv, WakeupInv
<1>. QED BY <1>1, Invariance, PTL

\* The pause of send_packet reorders nothing, however many packets are counted
\* as reordered: until one is put into the delay map all are sent in the order
\* of their arrival.
THEOREM OrderIsKept == Spec => []OrderKept
<1>1. IInv => OrderKept
  BY DEF IInv, PacketInv, SendOrderInv, OrderKept
<1>. QED BY <1>1, Invariance, PTL

\* With fewer datagrams than keys a packet leaves the delay map only when its
\* time has come.
THEOREM NeverSentEarly ==
  ASSUME FewPackets
  PROVE  Spec => NeverEarly
<1>1. IInv /\ [Next]_vars => [\A r \in delayed \ delayed' : now >= r.at]_vars
  <2>1. SUFFICES ASSUME IInv, [Next]_vars, NEW r \in delayed \ delayed'
                 PROVE  now >= r.at
    OBVIOUS
  <2>2. DataOK /\ HandInv /\ InLine /\ PastPrecedes /\ KeyInv /\ CountInv /\ DueInv
    BY <2>1 DEF IInv, PacketInv
  <2>3. now \in Nat /\ r.at \in Nat
    BY <2>2 DEF DataOK, DelayedPackets
  <2>4. CASE Delay
    BY <2>2, <2>4, DelayAdds DEF CountInv
  <2>5. CASE FlushOne
    BY <2>2, <2>3, <2>5, FlushOneSends DEF DueInv
  <2>6. ASSUME NEW f \in {"handler", "dtor"}, StopClose(f) PROVE FALSE
    BY <2>2, <2>6, CloseCancels
  <2>7. ~WriteReady /\ ~Sent /\ ~Drop /\ ~Forward
    BY <2>2, WriteMoves, DropCounts, ForwardSends DEF Sent, procVars
  <2>8. ~UNCHANGED pastVars
    BY DEF pastVars
  <2>. QED BY <2>1, <2>4, <2>5, <2>6, <2>7, <2>8, PastSteps
<1>. QED BY <1>1, Invariance, PTL DEF NeverEarly, Spec

\* After stop() nothing is sent or counted, whichever of its two callers came
\* first, and no thread outlives the object.
THEOREM StopIsSilent == Spec => StoppedIsSilent
<1> DEFINE
  Silent == /\ NoThreadOutlivesObject'
            /\ ~running /\ ioStopped /\ joinable = {} => UNCHANGED sendVars
<1>1. IInv /\ [Next]_vars => [Silent]_vars
  <2>1. SUFFICES ASSUME IInv, [Next]_vars PROVE Silent
    OBVIOUS
  <2>2. NoThreadOutlivesObject'
    BY <2>1, NextInv DEF IInv, ThreadInv, NoThreadOutlivesObject
  <2>3. ASSUME joinable = {} PROVE UNCHANGED sendVars
    <3>1. ipc \in {"none", "exited"} /\ ppc \in {"none", "exited"}
      BY <2>1, <2>3 DEF IInv, ThreadInv
    <3>2. writes = <<>>
      BY <2>1, <2>3, <3>1 DEF IInv, ThreadInv
    <3>3. ~Received /\ ~Handle /\ ~Push /\ ~WriteReady /\ ~Sent
      BY <3>1 DEF Received, Receive, ReceiveNothing, Completes, Handle, Push,
         WriteReady, Sent, IoIdle
    <3>4. ~Take /\ ~Drop /\ ~Delay /\ ~Forward /\ ~FlushStart /\ ~FlushOne
      BY <3>1 DEF Take, Drop, Delay, Forward, FlushStart, FlushOne, ProcStep
    <3>5. ASSUME NEW f \in {"handler", "dtor"}, StopClose(f)
          PROVE  UNCHANGED sendVars
      <4>1. ToSet(writes) = {}
        BY <3>2 DEF ToSet
      <4>. QED BY <3>2, <3>5, <4>1 DEF StopClose, sendVars
    <3>6. CASE Tick \/ Arrive
      BY <3>6 DEF Tick, Arrive
    <3>. QED BY <2>1, <3>3, <3>4, <3>5, <3>6, PacketSteps DEF packetVars
  <2>. QED BY <2>2, <2>3
<1>. QED BY <1>1, Invariance, PTL DEF StoppedIsSilent, Spec
=============================================================================
