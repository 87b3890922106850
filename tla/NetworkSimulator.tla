-------------------------- MODULE NetworkSimulator --------------------------
(***************************************************************************)
(* class NetworkSimulator and main.cpp, src/net/example/NetworkSimulator:  *)
(* a UDP proxy that drops, delays and "reorders" the datagrams it          *)
(* forwards.  Three threads take part: the main thread, which constructs,  *)
(* starts and destroys the simulator and on which the signal handler runs; *)
(* the io thread, which runs io_context_; and the processor thread.        *)
(*                                                                         *)
(* A datagram is its place in the order of arrival.  Randomness is a       *)
(* choice; time is a clock that ticks up to MaxTime.  Each call into asio  *)
(* is taken to be atomic; any receive and any send may fail.               *)
(***************************************************************************)
EXTENDS Integers, Sequences, FiniteSets, SequencesExt

CONSTANTS
  MaxPackets,       \* bound: datagrams that arrive
  MaxTime,          \* bound: the clock
  MaxSignals,       \* bound: SIGINT and SIGTERM
  MaxSpurious,      \* bound: spurious wakeups of packet_queue_cv_.wait
  DropOutcomes,     \* what should_drop_packet may return
  DelayOutcomes,    \* what should_delay_packet may return
  ReorderOutcomes,  \* what should_reorder_packet may return
  Delays,           \* what calculate_delay may return
  Wrap              \* 2^32: sequence_counter_ is a uint32_t

Packets == 1..MaxPackets

ASSUME SimulatorAssumption ==
  /\ MaxPackets \in Nat
  /\ MaxTime \in Nat
  /\ MaxSignals \in Nat
  /\ MaxSpurious \in Nat
  /\ Wrap \in Nat \ {0}
  /\ DropOutcomes \in SUBSET BOOLEAN
  /\ DelayOutcomes \in SUBSET BOOLEAN
  /\ ReorderOutcomes \in SUBSET BOOLEAN
  /\ Delays \in SUBSET Nat

NoPacket == 0
NoHand == [pkt |-> NoPacket, key |-> 0]

VARIABLES
  now,         \* steady_clock
  arrived,     \* datagrams that have reached the socket
  inbox,       \* the receive buffer of the kernel
  wire,        \* what has been sent: packet, and whether intact
  mpc,         \* where the main thread is
  stopAt,      \* where each activation of stop() is, by caller
  signals,     \* signals delivered
  appRunning,  \* running, of main.cpp
  running,     \* running_
  sockOpen,    \* socket_ is open
  ioStopped,   \* io_context_ is stopped
  armed,       \* an async_receive_from is outstanding
  writes,      \* outstanding async_send_to operations, oldest first
  posted,      \* completions of sends not yet handled
  cancelled,   \* packets whose send failed
  ipc,         \* where the io thread is
  buffer,      \* receive_buffer_, while a handler uses it
  counter,     \* sequence_counter_
  ppc,         \* where the processor thread is
  hand,        \* the packet the processor works on
  spurious,    \* spurious wakeups so far
  queue,       \* packet_queue_
  delayed,     \* delayed_packets_: key, packet and send_time
  due,         \* what process_delayed_packets has still to send
  joinable,    \* the std::thread members that are joinable
  stats        \* stats_

ioVars == <<ipc, buffer, counter, armed>>
procVars == <<ppc, hand, delayed, due, spurious>>
netVars == <<inbox, arrived, now>>
mainVars == <<mpc, stopAt, signals, appRunning, running, joinable>>
sendVars == <<wire, writes, posted, cancelled, stats>>
sockVars == <<sockOpen, ioStopped>>

vars == <<ioVars, procVars, netVars, mainVars, sendVars, sockVars, queue>>

Init ==
  /\ now = 0 /\ arrived = 0 /\ inbox = <<>> /\ wire = <<>>
  /\ mpc = "start"
  /\ stopAt = [f \in {"handler", "dtor"} |-> "idle"]
  /\ signals = 0
  /\ appRunning = TRUE
  /\ running = FALSE
  /\ sockOpen = TRUE
  /\ ioStopped = FALSE
  /\ armed = FALSE
  /\ writes = <<>> /\ posted = 0 /\ cancelled = {}
  /\ ipc = "none" /\ buffer = NoPacket /\ counter = 0
  /\ ppc = "none" /\ spurious = 0 /\ hand = NoHand
  /\ queue = <<>> /\ delayed = {} /\ due = {}
  /\ joinable = {}
  /\ stats = [received |-> 0, sent |-> 0, dropped |-> 0, delayed |-> 0,
              reordered |-> 0]

-----------------------------------------------------------------------------
(* The decisions of the code.  Beside some of them stands what a mistake   *)
(* there would make of it; nothing but a check of the properties uses it.  *)

\* packet_queue_mutex_ is free: the processor holds it from the test of the
\* predicate until it blocks or has taken a packet.
NoQueueMutex == TRUE
QueueUnlocked == ppc \notin {"test", "block", "take"}

\* packet_queue_ after push_back and after erase(begin()).
Pushed(entry) == Append(queue, entry)

NotErased == queue
Erased == Tail(queue)

\* sequence_counter_++.
NextSequence == (counter + 1) % Wrap

\* Where a notification of packet_queue_cv_ leaves the processor.
Woken == IF ppc = "wait" THEN "lock" ELSE ppc

\* The predicate of the wait.
PredicateWithoutStop == queue # <<>>
Predicate == queue # <<>> \/ ~running

\* Where handle_receive goes with what it was given.
FailureEnds == IF buffer = NoPacket THEN "run" ELSE "push"
Handled == IF buffer = NoPacket THEN "rearm" ELSE "push"

\* stats_.packets_received++.
Counted == [stats EXCEPT !.received = @ + 1]

\* What process_delayed_packets finds due.
DueOrNot == delayed
Due == {r \in delayed : now >= r.at}

\* processor_thread_.join() returns, or there is nothing to join.
ProcDetached == TRUE
ProcJoined == "proc" \in joinable => ppc = "exited"

-----------------------------------------------------------------------------
(* The environment: time and the network.                                  *)

Tick ==
  /\ now < MaxTime
  /\ now' = now + 1
  /\ UNCHANGED <<inbox, arrived, ioVars, procVars, mainVars, sendVars,
                 sockVars, queue>>

Arrive ==
  /\ arrived < MaxPackets
  /\ sockOpen
  /\ arrived' = arrived + 1
  /\ inbox' = Append(inbox, arrived')
  /\ UNCHANGED <<now, ioVars, procVars, mainVars, sendVars, sockVars, queue>>

-----------------------------------------------------------------------------
(* The main thread.  It stands still while the signal handler runs on it.  *)

Interrupted == stopAt["handler"] # "idle"

Main(from, to) == ~Interrupted /\ mpc = from /\ mpc' = to

\* start(): the test and the store of running_.
StartSet ==
  /\ Main("start", "arm")
  /\ running' = TRUE
  /\ UNCHANGED <<stopAt, signals, appRunning, joinable, ioVars, procVars,
                 netVars, sendVars, sockVars, queue>>

\* start_receive(), called by start().
StartArm ==
  /\ Main("arm", "spawnIo")
  /\ armed' = (armed \/ running)
  /\ UNCHANGED <<ipc, buffer, counter, stopAt, signals, appRunning, running,
                 joinable, procVars, netVars, sendVars, sockVars, queue>>

StartIo ==
  /\ Main("spawnIo", "spawnProc")
  /\ ipc' = "run"
  /\ joinable' = joinable \cup {"io"}
  /\ UNCHANGED <<buffer, counter, armed, stopAt, signals, appRunning, running,
                 procVars, netVars, sendVars, sockVars, queue>>

StartProc ==
  /\ Main("spawnProc", "loop")
  /\ ppc' = "top"
  /\ joinable' = joinable \cup {"proc"}
  /\ UNCHANGED <<hand, delayed, due, spurious, stopAt, signals, appRunning, running,
                 ioVars, netVars, sendVars, sockVars, queue>>

\* main() leaves its loop and returns; the simulator is destroyed.
LoopExit ==
  /\ Main("loop", "dtor")
  /\ ~appRunning
  /\ stopAt' = [stopAt EXCEPT !["dtor"] = "test"]
  /\ UNCHANGED <<signals, appRunning, running, joinable, ioVars, procVars,
                 netVars, sendVars, sockVars, queue>>

\* The members are destroyed; ~thread of a joinable thread calls terminate.
Destroy ==
  /\ Main("dtor", IF joinable = {} THEN "gone" ELSE "terminated")
  /\ stopAt["dtor"] = "idle"
  /\ UNCHANGED <<stopAt, signals, appRunning, running, joinable, ioVars,
                 procVars, netVars, sendVars, sockVars, queue>>

\* signal_handler interrupts the main thread.
Signal ==
  /\ signals < MaxSignals
  /\ ~Interrupted
  /\ mpc \notin {"gone", "terminated"}
  /\ signals' = signals + 1
  /\ appRunning' = FALSE
  /\ stopAt' = [stopAt EXCEPT !["handler"] = "test"]
  /\ UNCHANGED <<mpc, running, joinable, ioVars, procVars, netVars, sendVars,
                 sockVars, queue>>

-----------------------------------------------------------------------------
(* stop(), called by the signal handler or by the destructor.              *)

Stopping(f, from, to) ==
  /\ f = "dtor" => ~Interrupted
  /\ stopAt[f] = from
  /\ stopAt' = [stopAt EXCEPT ![f] = to]
  /\ UNCHANGED <<mpc, signals, appRunning>>

\* The test of running_ and the store are two steps: the handler may run
\* stop() to its end between those of the destructor.
StopTest(f) ==
  /\ Stopping(f, "test", IF running THEN "set" ELSE "idle")
  /\ UNCHANGED <<running, joinable, ioVars, procVars, netVars, sendVars,
                 sockVars, queue>>

StopSet(f) ==
  /\ Stopping(f, "set", "close")
  /\ running' = FALSE
  /\ UNCHANGED <<joinable, ioVars, procVars, netVars, sendVars, sockVars,
                 queue>>

\* socket_.close() fails what is outstanding on the socket.
StopClose(f) ==
  /\ Stopping(f, "close", "ioStop")
  /\ sockOpen' = FALSE
  /\ inbox' = <<>>
  /\ writes' = <<>>
  /\ cancelled' = cancelled \cup ToSet(writes)
  /\ UNCHANGED <<running, joinable, ioStopped, arrived, now, ioVars, procVars,
                 wire, posted, stats, queue>>

StopIo(f) ==
  /\ Stopping(f, "ioStop", "joinIo")
  /\ ioStopped' = TRUE
  /\ UNCHANGED <<running, joinable, sockOpen, ioVars, procVars, netVars,
                 sendVars, queue>>

StopJoinIo(f) ==
  /\ Stopping(f, "joinIo", "notify")
  /\ "io" \in joinable => ipc = "exited"
  /\ joinable' = joinable \ {"io"}
  /\ UNCHANGED <<running, ioVars, procVars, netVars, sendVars, sockVars,
                 queue>>

\* notify_all, without packet_queue_mutex_.
StopNotify(f) ==
  /\ Stopping(f, "notify", "joinProc")
  /\ ppc' = Woken
  /\ UNCHANGED <<hand, delayed, due, spurious, running, joinable, ioVars,
                 netVars, sendVars, sockVars, queue>>

StopJoinProc(f) ==
  /\ Stopping(f, "joinProc", "idle")
  /\ ProcJoined
  /\ joinable' = joinable \ {"proc"}
  /\ UNCHANGED <<running, ioVars, procVars, netVars, sendVars, sockVars,
                 queue>>

Stop(f) ==
  \/ StopTest(f)
  \/ StopSet(f)
  \/ StopClose(f)
  \/ StopIo(f)
  \/ StopJoinIo(f)
  \/ StopNotify(f)
  \/ StopJoinProc(f)

-----------------------------------------------------------------------------
(* The io thread.                                                          *)

IoIdle == ipc = "run" /\ ~ioStopped

\* The outstanding receive completes with p in the buffer.
Completes(p) ==
  /\ IoIdle
  /\ armed
  /\ armed' = FALSE
  /\ ipc' = "handle"
  /\ buffer' = p
  /\ UNCHANGED <<counter, arrived, now, procVars, mainVars, sendVars,
                 sockVars, queue>>

Receive ==
  /\ sockOpen
  /\ inbox # <<>>
  /\ Completes(Head(inbox))
  /\ inbox' = Tail(inbox)

\* With an error, the one of close() among others, or without a byte.
ReceiveNothing ==
  /\ Completes(NoPacket)
  /\ UNCHANGED inbox

\* handle_receive up to the lock.
Handle ==
  /\ ipc = "handle"
  /\ \/ /\ ~running
        /\ ipc' = "run"
        /\ buffer' = NoPacket
     \/ /\ running
        /\ ipc' = Handled
        /\ UNCHANGED buffer
  /\ UNCHANGED <<counter, armed, procVars, netVars, mainVars, sendVars,
                 sockVars, queue>>

\* The sequence number is the key a delayed packet will have.
Push ==
  /\ ipc = "push"
  /\ QueueUnlocked
  /\ queue' = Pushed([pkt |-> buffer, key |-> counter])
  /\ counter' = NextSequence
  /\ buffer' = NoPacket
  /\ ipc' = "notify"
  /\ UNCHANGED <<armed, procVars, netVars, mainVars, sendVars, sockVars>>

Notify ==
  /\ ipc = "notify"
  /\ ppc' = Woken
  /\ ipc' = "rearm"
  /\ UNCHANGED <<buffer, counter, armed, hand, delayed, due, spurious,
                 netVars, mainVars, sendVars, sockVars, queue>>

\* start_receive(), at the end of handle_receive.
Rearm ==
  /\ ipc = "rearm"
  /\ armed' = running
  /\ ipc' = "run"
  /\ UNCHANGED <<buffer, counter, procVars, netVars, mainVars, sendVars,
                 sockVars, queue>>

\* The reactor performs the oldest deferred send. asio::buffer(packet.data)
\* refers to the parameter of send_packet, gone since send_packet returned.
WriteReady ==
  /\ IoIdle
  /\ sockOpen
  /\ writes # <<>>
  /\ writes' = Tail(writes)
  /\ \/ /\ \E intact \in BOOLEAN :
             wire' = Append(wire, [pkt |-> Head(writes), intact |-> intact])
        /\ posted' = posted + 1
        /\ UNCHANGED cancelled
     \/ /\ cancelled' = cancelled \cup {Head(writes)}
        /\ UNCHANGED <<wire, posted>>
  /\ UNCHANGED <<stats, ioVars, procVars, netVars, mainVars, sockVars, queue>>

\* The completion handler of a send that succeeded; that of one that failed
\* only prints.
Sent ==
  /\ IoIdle
  /\ posted > 0
  /\ posted' = posted - 1
  /\ stats' = [stats EXCEPT !.sent = @ + 1]
  /\ UNCHANGED <<wire, writes, cancelled, ioVars, procVars, netVars, mainVars,
                 sockVars, queue>>

\* run() returns when the context is stopped or has nothing left to do,
\* and in the second case stops it.
IoExit ==
  /\ ipc = "run"
  /\ ioStopped \/ (~armed /\ writes = <<>> /\ posted = 0)
  /\ ipc' = "exited"
  /\ ioStopped' = TRUE
  /\ UNCHANGED <<buffer, counter, armed, sockOpen, procVars, netVars,
                 mainVars, sendVars, queue>>

Io == Receive \/ ReceiveNothing \/ Handle \/ Push \/ Notify \/ Rearm \/ WriteReady
      \/ Sent \/ IoExit

-----------------------------------------------------------------------------
(* The processor thread.                                                   *)

ProcStep(from, to) ==
  /\ ppc = from
  /\ ppc' = to
  /\ spurious' = spurious + (IF from = "wait" THEN 1 ELSE 0)
  /\ UNCHANGED <<ioVars, netVars, mainVars, sockVars>>

Top ==
  /\ ProcStep("top", IF running THEN "lock" ELSE "exited")
  /\ UNCHANGED <<hand, delayed, due, sendVars, queue>>

Lock ==
  /\ ProcStep("lock", "test")
  /\ UNCHANGED <<hand, delayed, due, sendVars, queue>>

Test ==
  /\ ProcStep("test", IF Predicate THEN "take" ELSE "block")
  /\ UNCHANGED <<hand, delayed, due, sendVars, queue>>

Block ==
  /\ ProcStep("block", "wait")
  /\ UNCHANGED <<hand, delayed, due, sendVars, queue>>

SpuriousWake ==
  /\ spurious < MaxSpurious
  /\ ProcStep("wait", "lock")
  /\ UNCHANGED <<hand, delayed, due, sendVars, queue>>

Break ==
  /\ ~running
  /\ ProcStep("take", "exited")
  /\ UNCHANGED <<hand, delayed, due, sendVars, queue>>

Take ==
  /\ running
  /\ queue # <<>>
  /\ ProcStep("take", "process")
  /\ hand' = Head(queue)
  /\ queue' = Erased
  /\ UNCHANGED <<delayed, due, sendVars>>

\* send_packet: async_send_to tries to send at once unless sends are
\* waiting, and otherwise queues the operation. Sent at once, a packet may
\* be refused, on an open socket too; on a closed one it always is.
SendPacket(p, counted) ==
  /\ \E reorder \in ReorderOutcomes :
       stats' = [counted EXCEPT !.reordered = @ + (IF reorder THEN 1 ELSE 0)]
  /\ \/ /\ ~sockOpen \/ writes = <<>>
        /\ cancelled' = cancelled \cup {p}
        /\ UNCHANGED <<wire, writes, posted>>
     \/ /\ sockOpen
        /\ writes = <<>>
        /\ wire' = Append(wire, [pkt |-> p, intact |-> TRUE])
        /\ posted' = posted + 1
        /\ UNCHANGED <<writes, cancelled>>
     \/ /\ sockOpen
        /\ writes' = Append(writes, p)
        /\ UNCHANGED <<wire, posted, cancelled>>

\* process_packet.
Drop ==
  /\ TRUE \in DropOutcomes
  /\ ProcStep("process", "flush")
  /\ stats' = [Counted EXCEPT !.dropped = @ + 1]
  /\ hand' = NoHand
  /\ UNCHANGED <<delayed, due, wire, writes, posted, cancelled, queue>>

Delay ==
  /\ FALSE \in DropOutcomes /\ TRUE \in DelayOutcomes
  /\ ProcStep("process", "flush")
  /\ stats' = [Counted EXCEPT !.delayed = @ + 1]
  /\ \E d \in Delays :
       delayed' = {r \in delayed : r.key # hand.key}
                  \cup {[key |-> hand.key, pkt |-> hand.pkt, at |-> now + d]}
  /\ hand' = NoHand
  /\ UNCHANGED <<due, wire, writes, posted, cancelled, queue>>

Forward ==
  /\ FALSE \in DropOutcomes /\ FALSE \in DelayOutcomes
  /\ ProcStep("process", "flush")
  /\ SendPacket(hand.pkt, Counted)
  /\ hand' = NoHand
  /\ UNCHANGED <<delayed, due, queue>>

\* process_delayed_packets reads the clock once.
FlushStart ==
  /\ ProcStep("flush", "flushing")
  /\ due' = Due
  /\ UNCHANGED <<hand, delayed, sendVars, queue>>

\* The map is unordered.
FlushOne ==
  /\ ProcStep("flushing", "flushing")
  /\ \E r \in due :
       /\ due' = due \ {r}
       /\ delayed' = delayed \ {r}
       /\ SendPacket(r.pkt, stats)
  /\ UNCHANGED <<hand, queue>>

FlushEnd ==
  /\ due = {}
  /\ ProcStep("flushing", "top")
  /\ UNCHANGED <<hand, delayed, due, sendVars, queue>>

Processor ==
  \/ Top \/ Lock \/ Test \/ Block \/ SpuriousWake \/ Break \/ Take
  \/ Drop \/ Delay \/ Forward
  \/ FlushStart \/ FlushOne \/ FlushEnd
-----------------------------------------------------------------------------

MainThread ==
  \/ StartSet \/ StartArm \/ StartIo \/ StartProc \/ LoopExit \/ Destroy
  \/ Signal
  \/ \E f \in {"handler", "dtor"} : Stop(f)

Next == Tick \/ Arrive \/ MainThread \/ Io \/ Processor

Spec == Init /\ [][Next]_vars

\* Every thread that can run does, and time passes; a datagram is received
\* in the end although receives fail in between. Nobody owes us a datagram,
\* a failure, a signal or a spurious wakeup.
FairSpec ==
  /\ Spec
  /\ WF_vars(Tick)
  /\ WF_vars(StartSet) /\ WF_vars(StartArm) /\ WF_vars(StartIo)
  /\ WF_vars(StartProc) /\ WF_vars(LoopExit) /\ WF_vars(Destroy)
  /\ \A f \in {"handler", "dtor"} : WF_vars(Stop(f))
  /\ SF_vars(Receive) /\ SF_vars(WriteReady) /\ SF_vars(Sent)
  /\ WF_vars(Handle \/ Push \/ Notify \/ Rearm \/ IoExit)
  /\ WF_vars(Top \/ Lock \/ Test \/ Block \/ Break \/ Take)
  /\ WF_vars(Drop \/ Delay \/ Forward \/ FlushStart \/ FlushOne \/ FlushEnd)

-----------------------------------------------------------------------------
(* Properties.                                                             *)

Entries == [pkt : Packets, key : 0..Wrap - 1]
DelayedPackets == [key : 0..Wrap - 1, pkt : Packets, at : Nat]
Datagrams == [pkt : Packets, intact : BOOLEAN]
Statistics == [received : Nat, sent : Nat, dropped : Nat, delayed : Nat,
               reordered : Nat]

\* The type of what says where the threads and the object are ...
StopOK ==
  stopAt \in [{"handler", "dtor"} -> {"idle", "test", "set", "close", "ioStop",
                                     "joinIo", "notify", "joinProc"}]

ControlOK ==
  /\ StopOK
  /\ mpc \in {"start", "arm", "spawnIo", "spawnProc", "loop", "dtor", "gone",
              "terminated"}
  /\ signals \in 0..MaxSignals
  /\ spurious \in 0..MaxSpurious
  /\ appRunning \in BOOLEAN /\ running \in BOOLEAN /\ sockOpen \in BOOLEAN
  /\ ioStopped \in BOOLEAN /\ armed \in BOOLEAN
  /\ ipc \in {"none", "run", "handle", "push", "notify", "rearm", "exited"}
  /\ ppc \in {"none", "top", "lock", "test", "block", "wait", "take",
              "process", "flush", "flushing", "exited"}
  /\ joinable \subseteq {"io", "proc"}

\* ... and of what packets go through, but for the bounds of what counts them.
DataOK ==
  /\ now \in 0..MaxTime
  /\ arrived \in 0..MaxPackets
  /\ inbox \in Seq(Packets)
  /\ wire \in Seq(Datagrams)
  /\ writes \in Seq(Packets)
  /\ posted \in Nat
  /\ cancelled \in SUBSET Packets
  /\ buffer \in Packets \cup {NoPacket}
  /\ counter \in 0..Wrap - 1
  /\ hand \in Entries \cup {NoHand}
  /\ queue \in Seq(Entries)
  /\ delayed \subseteq DelayedPackets
  /\ due \subseteq delayed
  /\ stats \in Statistics

\* The type of every variable.
TypeOK ==
  /\ ControlOK /\ DataOK
  /\ posted \in 0..MaxPackets
  /\ \A f \in DOMAIN stats : stats[f] \in 0..MaxPackets

\* Where packet p is, between the socket and the wire or past it.
Places(p) == UNION {
  {"inbox"} \X {i \in DOMAIN inbox : inbox[i] = p},
  {"buffer"} \X ({buffer} \cap {p}),
  {"queue"} \X {i \in DOMAIN queue : queue[i].pkt = p},
  {"hand"} \X {h \in {hand} : h.pkt = p},
  {"delayed"} \X {r \in delayed : r.pkt = p},
  {"writes"} \X {i \in DOMAIN writes : writes[i] = p},
  {"wire"} \X {i \in DOMAIN wire : wire[i].pkt = p},
  {"cancelled"} \X (cancelled \cap {p})}

\* No datagram is duplicated on its way through three threads, two queues
\* and a map: it is in one place at most.
NoDuplicates == \A p \in Packets : \A a, b \in Places(p) : a = b

\* The statistics account for every packet the processor took.
StatsAddUp ==
  /\ stats.received = stats.dropped + Cardinality(delayed) + Len(writes)
                      + Len(wire) + Cardinality(cancelled)
  /\ stats.sent + posted = Len(wire)
  /\ stats.delayed >= Cardinality(delayed)

\* Every packet is in one place, and counted there, by variables of their types.
EachPacketOnce == TypeOK /\ NoDuplicates /\ StatsAddUp

\* The processor does not sleep on a packet: the notification of every push
\* reaches it or finds it on its way to the test of the queue.
QueueNeverStranded == queue # <<>> /\ ppc = "wait" => ipc = "notify"

\* The threads use the members of the object: when it is gone, so are they.
NoThreadOutlivesObject ==
  mpc = "gone" => ipc \in {"none", "exited"} /\ ppc \in {"none", "exited"}

\* A packet leaves the delay map only when its time has come, although the
\* decision is taken with a clock read earlier.
NeverEarly == [][\A r \in delayed \ delayed' : now >= r.at]_vars

\* Once stop() has run to its end nothing is sent, dropped or counted any
\* more, also by a thread that an interrupted start() creates afterwards, and
\* none of the threads outlives the object.
StoppedIsSilent ==
  [][/\ NoThreadOutlivesObject'
     /\ ~running /\ ioStopped /\ joinable = {} => UNCHANGED sendVars]_vars

\* On its way from the socket to a decision or to the wire.
Underway(p) ==
  \/ p \in ToSet(inbox) \cup ToSet(writes) \cup {buffer, hand.pkt}
  \/ \E i \in DOMAIN queue : queue[i].pkt = p

\* While the simulator runs and no more datagrams come, each is received,
\* taken from the queue and dropped, put into the delay map or handed to the
\* socket: no notification, no handler and no deferred send is lost, and a
\* receive that failed is followed by another.
EveryDatagramHandled ==
  (\E p \in Packets : Underway(p)) ~> (~running \/ \A p \in Packets : ~Underway(p))

\* stop() returns, also when a signal runs it once more inside the one of
\* the destructor, unless its notify_all came between the test of the
\* predicate and the wait.
StopReturns ==
  \A f \in {"handler", "dtor"} :
    /\ stopAt[f] # "idle"
         ~> (stopAt[f] = "idle" \/ \E g \in DOMAIN stopAt : stopAt[g] = "joinProc")
    /\ stopAt[f] = "joinProc" /\ ppc \notin {"block", "wait"}
         ~> stopAt[f] = "idle"

\* README.md, line 110: a delayed packet is sent when its time has come, if
\* the send does not fail.
DelayedIsSent ==
  \A p \in Packets :
    (\E r \in delayed : r.pkt = p /\ now >= r.at)
      ~> ((\E i \in DOMAIN wire : wire[i].pkt = p) \/ p \in cancelled \/ ~running)

\* README.md, lines 10 and 103: a packet that is counted as reordered is sent
\* out of order. It is not on the wire before the one that waits behind it.
ReorderedIsOvertaken ==
  [][stats'.reordered > stats.reordered /\ queue # <<>> =>
       \A i \in DOMAIN wire' : wire'[i].pkt = hand.pkt =>
         \E j \in 1..i - 1 : wire'[j].pkt = Head(queue).pkt]_vars

\* main.cpp, line 15: a signal shuts the program down; it does not abort it.
NeverTerminated == mpc # "terminated"
=============================================================================
