# CppExample in TLA+

A verification development of the C++ programs in this repository: TLA+ modules
translated from the source, TLC configurations that check them on small
instances, and theorems about them that TLAPS proves for every value of the
constants. `PROJECT.json` lists, for machines, what this file says for readers:
the components, the runs, the lines each definition models, the hazards and the
theorems.

Contents: [the system](#1-the-system) · [the modules](#2-the-modules) ·
[the runs](#3-the-runs) · [fairness](#4-fairness) · [the proofs](#5-the-proofs) ·
[where code and documentation disagree](#6-where-code-and-documentation-disagree) ·
[what is not modelled](#7-what-is-not-modelled) · [the plan](#8-the-plan)

To check it: `tlc -config ThreadPool.cfg MCThreadPool` and likewise for the
other configurations, `tlapm ThreadPoolProofs.tla` and likewise for the other
modules whose name ends in Proofs.

## 1. The system

The repository is a collection of programs that do not call each other. What
they share is C++11 threads, callbacks from libraries (PortAudio, asio) and, in
the audio programs, a file. These are its components.

**ThreadPool** (`src/ThreadPool/threadpool_v1.h`). *State:* the queue `tasks_`
with its mutex and condition variable, the atomic `stop_`, the threads.
*Operations:* constructor and `start`, `commit_task`, the lambda each worker
runs, destructor. *Interaction:* clients and running tasks commit, workers take,
the owner destroys. *Hard:* everything is concurrent; `stop_` is stored and
tested outside the mutex, notifications come after the unlock. *Correct if:*
each task is executed once, in the order of the commits; no notification is
missed; the destructor leaves no future unsettled and returns.

**CircleQueue** (`src/DataStructureAlgorithm/CircleQueue.cpp`). *State:* a ring
of `capacity_ + 1` slots, two indices, a counter. *Operations:* `push`, `pop`,
`front`, `rear`, `empty`, `full`, `size`. *Hard:* wraparound, signed indices
against unsigned sizes, three variables with one meaning. *Correct if:* it is a
bounded FIFO whose return values and sizes are honest.

**Spin lock** (`src/MemoryModel/SpinLock.cpp`). *State:* an `atomic_flag`, a plain
counter. *Hard:* the memory order is the program. *Correct if:* threads exclude
each other and no increment is lost.

**NetworkSimulator** (`src/net/example/NetworkSimulator`): a UDP proxy that drops,
delays and is to reorder. *State:* a socket with an outstanding receive, a packet queue
with mutex and condition variable, a map of delayed packets, statistics,
`running_`, two threads. *Operations:* `start`, `stop`, `handle_receive`,
`process_packets`, `process_packet`, `process_delayed_packets`, `send_packet`, a
signal handler that calls `stop` on the main thread. *Hard:* three threads and a
signal; notifications without the mutex; sends that complete later. *Correct if:*
each datagram is in one place and counted once, nothing is sent early, threads do
not outlive the object, `stop` returns and nothing happens after it.

**ConfigManager** (same directory). *State:* a configuration built from arguments
and a file of text. *Hard:* conversions that truncate, cut or throw; merging.
*Correct if:* values stay in range, the last argument wins, and a file does what
it says.

**VadIterator** (`src/SpeechProcessing/silero-vad/example/silero-vad-example.cc`):
a state machine that turns probabilities of speech into segments. *State:*
`triggered`, three remembered positions, the open segment, the finished ones.
*Operations:* `predict`, `process`, `reset`. *Hard:* nine variables that must
agree over long sequences. *Correct if:* segments are ordered, hold all speech and
are separated at long pauses.

**Audio programs** (`src/portaudio-example/example`): `record-to-file` (callback,
main thread, signal handler, two queues, a streaming WAV writer), `play-wav`
(reader and callback), `paex_record` (two callbacks over one array). The WAV file
is also what the detector reads (`silero-vad/example/wav.h`). *Hard:* a condition
variable notified by a signal handler and a callback; the header's sizes; errors
at any step. *Correct if:* what is recorded is saved and played in order, Ctrl+C
ends the recording, memory outlives the callbacks.

**Echo servers and clients** (`src/net/example/echo`): TCP and UDP, asynchronous
and blocking. *State:* per connection what is in flight and in the buffers.
*Hard:* partial writes and reads, connections that break at any step, datagrams
lost or doubled. *Correct if:* what comes back is what was sent, and it comes.

**Examples of asio** (`src/net/example`): `daytime` over TCP (an asynchronous server whose
connections keep themselves alive by their handlers, and one that serves one client after the
other) and over UDP; `multicast`, a sender with a timer and receivers; `asio_strand`, two
timers that count with one variable on two threads, behind a strand; two programs with one
timer; functions posted for four threads. *Hard:* the lifetime of a connection, one buffer for
many sends, a counter that is not atomic. *Correct if:* each client gets the whole time at which
it was accepted and the end of the file, a group hears each message at most as often as the
network made it, no number is printed twice or left out, and every program with an end reaches it.

**Wav readers and writers** (`wav.h`, two copies with differences), **onnxruntime-utils** (numpy
files and helpers on tensors) and **Utils** (functions on strings). Sequential code that other
programs are to call. *State:* a file, if any. *Hard:* headers rewritten in place, chunks of any
size and order, products in an `int`, bytes that begin no character, empty parts at the end of a
text. *Correct if:* what is loaded is what was saved, or an error; no element, character or byte is
lost or moved.

The components that are left out are in [section 7](#7-what-is-not-modelled).

## 2. The modules

| Module | Models | Promise it implements |
|---|---|---|
| `ThreadPool` | `threadpool_v1.h` | `Executor` |
| `CircleQueue` | `CircleQueue.cpp` | `BoundedFifo` |
| `SpinLock` | `SpinLock.cpp` | |
| `NetworkSimulator` | `network_simulator.{h,cpp}`, `main.cpp` | |
| `ConfigManager` | `config_manager.cpp` | |
| `VadIterator` | `class VadIterator` | |
| `WavFile` | the file the writer makes and three readers of it | |
| `RecordToFile`, `PlayWav`, `PaexRecord` | the three audio programs | |
| `AudioPrograms` | composes them: record-to-file then play-wav on its file, or paex_record | |
| `RiffFile` | `WavWriter` and both `WavReader`s on files of any chunks | |
| `TcpEcho`, `UdpEcho` | the echo programs over TCP and over UDP, and daytime over UDP | |
| `Daytime`, `Multicast` | daytime over TCP; the sender and receivers of a group | |
| `IoContext` | timers, a strand and posted functions on the threads of an `io_context` | |
| `AsioExamples` | composes these five: one of the examples runs | |
| `StringUtil` | `Utils/StringUtil.cpp` | |
| `NpyFile` | saving, appending to and loading a numpy file | |
| `OnnxTensor` | shapes, strides, views, `Repeat`, `TopK` | |
| `Libraries` | composes the ring, the numpy file and the calls of functions: one is used | |
| `SequentialCode` | composes `Libraries`, `VadIterator` and `ConfigManager`: one is used | |

`MC...` modules give the constants their small values. Throughout, an action is
the code between two points at which somebody else can interfere; the variable
that says where a thread is (`pc`, `wpc`, `mpc`, `stopAt`, ...) takes the place of
the program counter.

Where a module has a section of *decisions*, each operator there is one condition
or assignment of the code, and beside some of them stands another that a likely
mistake would make of it (a dropped guard, a missing notification). `Next` uses
only the former; the latter serve to show that the properties can fail.

### ThreadPool and Executor

A worker goes `lock` → `test` (the predicate of the wait) → `block` → `wait` →
`lock` ..., or `test` → `decide` → `run` → `lock`, or `exited`. `Test` and `Block`
are two steps because `stop_` can change between them; blocking releases the mutex
in the same step, as `condition_variable::wait` does. `commit_task` is
`CheckStop` (the unlocked test), `CommitLock`, `Emplace`, `NotifyOne`; it is
performed by clients and by workers whose task commits another. The destructor is
`SetStop`, `NotifyAll`, `Join`; the joins are one step since nothing distinguishes
their order, and destroying the queue breaks the promises left in it. `status` says
what became of each task and so of its future.

Assumed of the program, since the class cannot protect itself: no client is inside
`commit_task` when the destructor starts. Tasks return (they may throw: the future
keeps the exception) and do not wait for other tasks.

`Executor` is a queue, the set of running tasks and the set of finished ones. With
`queue <- tasks` and `running` the tasks in the hands of workers it says what users
may rely on: tasks start in the order of the commits, each once; after the close
only a running task has another one accepted; the executor retires when all it
accepted is finished.

### CircleQueue and BoundedFifo

`push` and `pop` with their refusals; `front` and `rear` are operators. The
conversion of a negative `int` to `size_t` is computed (`WordMod`), since `rear()`
depends on it. `Contents` maps the ring to the abstract queue.

### SpinLock

Each thread has its own view of the counter. An acquire takes the view that the last
release left with the flag; an increment works on the thread's own view. With
weaker orders in place of these, views get stale and increments lost, which is what
`NoLostIncrement` excludes. `HasTest` chooses between the two forms of the inner
loop.

### NetworkSimulator

The main thread (`mpc`), up to two activations of `stop()` (`stopAt`, by the signal
handler and by the destructor; the handler interrupts the main thread and runs to
its end first), the io thread (`ipc`) and the processor (`ppc`). asio is external: a
receive completes with a datagram (`Receive`) or, at any time, with an error or without a byte
(`ReceiveNothing`), and `handle_receive` arms the socket again after each; a send is performed at
once if none is waiting, else deferred (`writes`), and its handler runs later
(`posted`); either may fail (`cancelled`), also while the socket is open; `run()` returns when stopped or out of work. Probabilities are sets of
outcomes. `sequence_counter_` wraps. The buffer that `send_packet` hands to asio is
its parameter: a send that is deferred reads it after the return, so its content may
be damaged (`intact`).

### ConfigManager

A text is a number with a suffix, a word, a word that has lost its last character, or
nothing, which is what the conversions (`stoi`, `parse_percentage`, erase of the
trailing character) tell apart; `StoiLimit` is 2^31 in the code, and `Characters` are
the words that consist of the one character they lose. `load_from_args` is one action per kind of argument,
`load_from_file` one per kind of line.

### VadIterator

A window's probability is speech, silence or between the thresholds. `heard` and
`cuts` record the history that the properties refer to; everything else is a
variable of the class. The actions are the branches of `predict` in their order.

### The audio programs

In `RecordToFile` the callback (`CallbackLock`, `CallbackPush`, `CallbackReturn`), the
handler and the main thread interleave; `file` is the header and the data of
`output.wav`. `PlayWav` reads what `RecordToFile` left, whether it ended well or not.
Samples are numbered in the order they were captured, so that order and loss show.
PortAudio is external: it calls back while a stream is active, and any call may fail.

### The echo programs

Bytes are numbered per client; a connection is two bounded queues of which a read or a
write takes any part. The session alternates `SessionRead` and `SessionWrite`; a
connection may break between any two steps, also before it is accepted
(`AcceptThrows`). UDP is a bag of datagrams that loses and doubles; the daytime server is a third
kind of server there, whose client asks once and ends.

### The other examples of asio

In `Daytime` the bytes of a text show the number of the accept that made it, so that a mixture of
two clients' texts would show. A connection closes when the last pointer to it goes, with the
handler of the write (`Released`), or with the scope of the synchronous loop. Connections break and
an accept fails: the asynchronous server passes over that, the other ends (`AcceptError`).

`Multicast` has the sender's counter and its pending operation (`mpc`: a send or a timer), and a set
of messages on its way to each receiver; which receivers a datagram reaches is chosen in `Sent`.

`IoContext` is a queue of ready handlers and the threads in `run()`. A handler of `Printer` is five steps
(`Test`, `PrintLine`, `Load`, `Store`, `WaitAgain`), since `++count_` reads and writes a plain variable;
`StrandFree` is the strand. A function that is posted is one step.

### The sequential code

`NpyFile` is a state machine over one file: bytes are numbered by the row they were saved in, a header's
byte is 0, and the length of a header is computed from the digits of the shape (`HeaderLength`), because
an append writes the new header over what is there. `StringUtil`, `OnnxTensor` and `RiffFile` are
operators, written from the code, next to what they are for: `RepeatIsTorchRepeat` is the indexing of
`torch.repeat`, `TopKIsStable` a sort, `CharactersAreWhole` relates the splitting to the test of the encoding,
`ReadersFindTheData` says what a well-formed file is. Where the code can throw, exit, crash or lose its way
the operator says which. `Libraries` calls them, one argument after the other.

`SequentialCode` puts `Libraries`, `VadIterator` and `ConfigManager` side by side; in a behaviour one of the
three is used (`used`), and the others stay as they began.

## 3. The runs

Every run is exhaustive within its bounds. `CHECK_DEADLOCK FALSE` is set where the
program may end.

| Run | Instance | States | What it shows |
|---|---|---|---|
| `ThreadPool` | 3 workers (4 requested, 3 cores), 2 clients, 3 tasks, 1 spurious wakeup | 166 731 | `EachTaskOnce`, `NoSleeperMissed`, `NothingLeftBehind`, `DestroyedSettlesFutures`; `ShutdownCompletes` and `ImplementsFairExecutor` under fairness |
| `SequentialCode` | ring of capacity 3, 3 values; numpy files of up to 13 rows; 3 865 texts, 73 shapes, 364 arrays, 5 153 files; up to ten windows of 2 samples; command lines of up to 4 arguments, files of up to 3 lines, numbers beyond an `int` | 336 625 | of the libraries `SizeMatchesIndices`, `EndsAreRight`, `ImplementsFifo`, `LoadedIsSaved`, `TextsStayWhole`, `TensorsKeepElements`, `WavesAreRead`; of the detector `MarksAgree`, `SegmentsInOrder`, `SpeechIsCovered`, `LongPausesSeparate`; of the configuration `LaterArgumentsWin`, `FileConfigUsable` |
| `SpinLock` | 3 threads, 2 rounds | 3 511 | `MutualExclusion`, `NoLostIncrement`, `AllFinish` |
| `Network` | 2 datagrams, 1 tick, 2 signals, 1 spurious wakeup, counter wraps at 2 | 1 336 364 | `EachPacketOnce`, `QueueNeverStranded`, `NeverEarly`, `StoppedIsSilent` |
| `NetworkLive` | 2 datagrams, 2 signals; all are forwarded | 82 148 | `EveryDatagramHandled` and `StopReturns` under fairness |
| `Audio` | buffers of 2 frames, 5 before the signal, 1 or 2 channels; arrays of 4 or 5 frames | 26 052 | `BuffersInOrder`, `RecordedIsPlayed`, `ArrayOutlivesCallbacks`, `RecordingEnds` |
| `AsioExamples` | an asynchronous and a blocking TCP client, 2 lines of 0, 2 or 7 bytes, sockets and buffers of 3, 1 reset; 2 UDP clients, 2 requests, 1 loss, 1 copy, 3 kinds of server; 2 daytime clients, texts of 3 bytes, 1 fault; 2 receivers, 2 messages, 1 doubled; strand to 10, timer to 5, 10 functions on 4 threads | 135 785 | `RepliesMatchRequests`, `NoCountLost`, `ExamplesComplete` |
| `ThreadPoolLostWakeup`, `NetworkDelayStuck`, `NetworkReorder`, `NetworkTerminate`, `ConfigFile` | see [section 6](#6-where-code-and-documentation-disagree) | | a violation each |

Every run of an invariant but `SpinLock` also checks the type of its variables: as `TypeOK`, `VadTypeOK` or `ConfigTypeOK`, or as the first part of
`EachPacketOnce`, `BuffersInOrder` or `RepliesMatchRequests`. `NetworkLive` does not, its states being those of `Network`
with other constants. (`TypeOK` of `SpinLock` is a part of the invariant
that is proved.) `StoppedIsSilent` has `NoThreadOutlivesObject` as a part, and `ExamplesComplete` has `EchoCompletes`
and `EveryoneIsServed`.

Why the bounds are enough:

* *ThreadPool*: a missed notification needs a sleeper, an awake worker that overtakes
  it and a committer; three workers and two clients are more than these. With
  three tasks one can be running, one queued and one on its way, and a running task
  can commit. What the bounds cannot say is proved for all (section 5).
* *SequentialCode*, the ring: with capacity 3 the ring is seen empty, full and in between at
  every position of its indices, also when they wrap. The refinement is proved for all
  capacities.
* *SequentialCode*, the libraries: a row of the numpy file is 10 bytes, and the tenth row, with which the header grows
  by a block of 16, is reached by appends of 1, 2 and 8 and by a creation alike, and also passed. Texts are all
  strings of up to three bytes of each class that the code distinguishes, and of four of the most interesting.
  An `int` has 5 bits (`IntLimit` is 16), so that products overflow with dimensions of up to 4; shapes have up to three
  dimensions, zeros and negative ones included. The files have any two other chunks before the data and one or none behind it, of even or
  odd size, each format and width, and headers that tell of more, less or no data.
* *Network*: a second datagram is what meets a packet in the queue, in the hand, in the
  map, or a deferred send; the counter wraps at 2, after the second datagram, so that the keys of
  the two differ as those of any two packets do that are less than 2^32 apart. Two delays (0 and 1) with
  one tick make packets due at once and later. Receives fail as often as they like, before and between
  the datagrams. Of two signals the first ends the loop of `main`, or interrupts `start`; the second comes after it,
  which is where it can interrupt the `stop()` of the destructor at each of its steps, between the test and the store of
  `running_` among them (no signal comes to the destructor otherwise, since only the handler ends the loop). That one of
  the two signals interrupts the handler of the other is not modelled. The two liveness properties have a run of
  their own, `NetworkLive`, in which packets are neither dropped nor delayed and no thread wakes of itself: what they
  are about is the io thread, the processor and `stop`, with failing receives and sends and both signals. A packet that is dropped
  is handled sooner, and one that is delayed may stay for ever (`NetworkDelayStuck`).
* *SequentialCode*, the configuration: what an argument does depends on it, its value and what came before; four
  arguments are two options with values in either order, or one swallowed as the value
  of another. Values lie on both sides of each limit, that of an `int`
  included (for which the instance takes 800 000), and some words have one character.
* *SequentialCode*, the detector: a segment is too long at the sixth of its windows, so that ten leave room for
  a cut and for pauses before and after it, or for several segments; the limits
  are chosen so that a pause can be shorter than the split, between it and the minimum,
  and longer.
* *Audio*: five buffers let the main thread be a whole drain behind; the array is a
  multiple of the buffer in one case and not in the other.
* *AsioExamples*: the line of 7 bytes is the longest that is sure to fit into two sockets and the
  rest (2·3 + 1). With a bound greater by one `EchoCompletes` fails: the bound in it is tight, and reached. A
  text of three bytes over a connection that holds two is written in parts; two clients suffice to be mixed up
  or to wait for each other; the limits of the counters and the threads are the code's own numbers.

The properties, by what they are about:

* **No loss, no duplication**: `EachTaskOnce`, `EachPacketOnce` (a packet in one of eight
  places, and the statistics account for all), `BuffersInOrder`, `NoCountLost`, `RepliesMatchRequests` (with its parts
  `BytesInOrder`, `AnswersInTurn`, `TimesAreWhole`, `MessagesOnce`), `LoadedIsSaved`, `TensorsKeepElements`, `TextsStayWhole`,
  `WavesAreRead`.
* **No missed wakeup**: `NoSleeperMissed` (as long as a worker sleeps, each queued task has
  a worker on its way or a notification about to be sent), `QueueNeverStranded`.
* **Ends**: `NothingLeftBehind`, `DestroyedSettlesFutures`, `StoppedIsSilent`,
  `ArrayOutlivesCallbacks`.
* **Order and time**: `NeverEarly`, `SegmentsInOrder`, `LaterArgumentsWin`.
* **Liveness**: `ShutdownCompletes`, `AllFinish`, `EveryDatagramHandled`, `StopReturns`,
  `RecordingEnds`, `ExamplesComplete`, and the fairness part of `ImplementsFairExecutor`.
* **Refinement**: `ImplementsFairExecutor`, `ImplementsFifo`.

`ShutdownCompletes` and `StopReturns` exclude the state in which the notification falls
between the test of the predicate and the wait: there the code really hangs (section 6).
In the same way `EchoCompletes` excludes what does not fit into the sockets.

## 4. Fairness

Weak fairness of each step of each thread says that the operating system runs every
thread that can run. It is not assumed of anything a person or the network decides: to
commit a task, to destroy the pool, to send a datagram or a signal, to type a line, to
press Ctrl+C, to wake spuriously, to fail.

* *ThreadPool, NetworkSimulator, RecordToFile*: a mutex is acquired under weak fairness
  only. That suffices because holders release it and the number of steps is bounded; no
  fairness of mutexes is assumed.
* *NetworkSimulator*: the io thread has separate conditions for a receive, a deferred send
  and a completion, since the reactor performs every operation that is ready. These three are
  strong: `run()` is not blocked for ever while one of them keeps becoming ready, but each is disabled while a handler
  runs, and receives that fail bring one handler after the other. A receive that only ever fails while a datagram waits is thereby
  excluded; nothing else is asked of failures. Time passes (`Tick`).
* *SpinLock*: weak fairness per thread. The lock itself starves nobody for ever, since
  every thread has finitely many rounds; `AllFinish` would not hold with endless rounds.
* *Audio*: the device delivers while the stream is active; that a stream fails is not
  required, except that a stream that never started reports an error when asked
  (`stream = "off" /\ StreamError`).
* *AsioExamples*: sockets move bytes and datagrams not lost arrive. Of the programs that end of themselves
  (daytime for those who have connected, the sender, the `io_context`) it is only assumed that as long as one of
  their steps is possible some step is taken (`DaytimeFairness`, `MulticastFairness`, `IoFairness`): each of them
  brings the end nearer, so that more is not needed. Nobody has to connect, and nothing has to break.
* *SequentialCode*: nothing is assumed; its only temporal property is a refinement without fairness.

Model runs without liveness use `Spec`.

## 5. The proofs

Eight modules hold theorems. All assume the named assumption on the constants
(`PoolAssumption`, `QueueAssumption`, `SpinAssumption`, `VadAssumption`, ...); the
assumptions say that sizes are numbers, that the set of clients is finite, that model values
differ, that an `io_context` has a thread that runs it (`Workers # {}`: the code creates four) and that a command line is a
sequence of texts (`InputsAssumption`), and what kind of arguments the libraries are given (`LibrariesAssumption`). Three theorems have a hypothesis besides: `Implementation`
of ThreadPoolProofs (a pool with at least one worker) and two of NetworkProofs, described there. Each inductive invariant stands in the module of its
proof (that of the pool in `ThreadPool`), and TLC has checked it on the instance of the component's run before it was
proved.

**ThreadPoolProofs.** `IInv`, defined in `ThreadPool`, is inductive: the type; `LockInv` (a
thread is between lock and unlock exactly if it holds the mutex); `EachTaskOnce`;
`ControlInv` (what a thread may be doing, given the data: `decide` only with the
predicate true, `exited` only after the stop, a worker commits only while it runs a task);
`OfferInv` (a task on its way is in the hands of one committer); `EmptyAfterLast` (the last
worker to return found the queue empty). None of these is inductive alone: that a queued
task is not running needs that the one offered is not queued, and so on. From it:
`TypeCorrect`, `MutualExclusion`, `EachTaskOnceAlways`, and `NothingIsLeftBehind`: the
argument is that a task committed after the stop comes from a worker that is still running
one, and that worker will look at the queue again.

`NoSleeperIsMissed` needs, besides `IInv`, that a worker about
to block saw an empty queue and holds the mutex, so that nothing has been put in since
(`BlockedSawEmpty`). The steps are compared by counting finite sets: `Emplace` adds a task
and a notification; `NotifyOne` trades its notification for an awake worker, if there is a
sleeper; `Take` takes a task and a worker away. `FuturesAreSettled` follows from the invariant that only the destructor
of a pool without workers breaks a promise; `Implementation` says that with at least one worker
every step of the pool is a step of `Executor` or a stutter. Without a worker it is not:
`Retire` needs an empty queue, and the destructor throws a full one away.

**NetworkProofs.** From the kernel (`inbox`) through `buffer` and `queue` to the processor's
`hand`, the datagrams stand in a line that is ordered by arrival (`InLine`), and what the processor has decided on
came before all of it (`PastPrecedes`). A packet never returns to the line and is new where it goes
(`PastOnce`): hence `NeverDuplicated` and `OrderIsKept`. The latter says that of the packets that were never in the map none
overtakes another, whatever `should_reorder_packet` returned: it holds of the code, and is the reason why the run
`NetworkReorder` fails. `ThreadInv` says what a thread that has been joined can no
longer do, hence `StopIsSilent`; `WakeupInv` relates the sleeping processor to
the notification under way, hence `QueueIsNeverStranded`. `EachPacketOnceAlways` and `NeverSentEarly` are
stated for `FewPackets`, that is `MaxPackets <= Wrap`: no more datagrams than the 2^32 values of
`sequence_counter_`. With more of them the counter comes round, and a packet that still waits
in the map is replaced by one that is given its key (line 147): it is lost before its time and the statistics do not know
of it. The other theorems need no such hypothesis.

**ConfigProofs.** Both configurations stay in range and that of the file fit for use (`ConfigInv`), so that
either may replace the other: `ConfigStaysInRange`, `FilesAreUsable`. For `LastOptionWins` the invariant `ReadInv` says
that there is a set of positions of `argv` (those the program has read as options, though no variable keeps
them) which is the reading of the arguments up to `i`, and whose last options have set their fields; while a file is
read it is the last option, so that nothing earlier counts. Every step extends the set or leaves it.

**VadIteratorProofs.** `TypeCorrect`, `NoStaleMark`, `SegmentsAreOrdered`, for every window, every
limit and every sequence of probabilities. `MarksAgree` and `SegmentsInOrder` need `Within`:
no finished segment ends after the samples seen, and the open one starts before them. `SpeechIsKept` follows
from `CoverInv`: there is no speech after `temp_end`, nor between `prev_end` and `next_start`, which is where
segments are cut. `PausesSeparate` follows from `PausesInv`: `temp_end` is where the pause at hand began, and a segment
that stays open over a long pause was too short when it began.

**AudioProofs.** `BuffersStayInOrder`, from `RecordInv`: the file, the main thread's queue and the callback's
queue are one line of buffers in the order of the callbacks, whatever the interleaving and whenever the signal
comes, and the file holds a whole number of them. `RecordingsArePlayed`, from the same invariant, `PlayInv` (what was played is the
beginning of what the reader made of the file, then silence) and `PaexInv` (where the main thread
of `paex_record` is says how far the array is filled or played). `ArrayIsThere`: no callback runs without the array, whatever
fails.

**AsioProofs.** One invariant per example. `TcpInv`: the five queues between what a client types and what it has
read are one sequence, and of a connection that broke what was read is still its beginning. `UdpInv`:
what is on its way belongs to a request that was made, and as long as nothing has been doubled the
last request of a client is in one place. `DaytimeInv`: each accept has its time, the text is all there until the
connection breaks. `MulticastInv`: what is on its way was sent, and is not printed as well. Together:
`RepliesMatch`. `IoInv`: of the handlers that count one runs at a time, and between its line and its store the
numbers printed are one ahead of `count_`; a posted function is queued, under way or has run, one of these: `NoCountIsLost`.

**LibrariesProofs.** The ring: `SizeIsRight`, `Refinement` and `EndsAreAlwaysRight`, for every capacity. `Inv` is the
type and `SizeMatchesIndices`; lemmas turn remainders into case distinctions. That 2^64 is or is not a multiple of the
number of slots is kept as the property says it (`PowerMod`), its value is left to TLC. `RingIsUsedAlone`: the
specification that composes the libraries implies that of the ring, so that these hold in it.

The others are about what recursive functions and folds compute, and so need inductions over data. The library's theorems
for that have a predicate as a parameter, which the provers here cannot instantiate. They are therefore stated again for
sets, which can: `Induction` (a set that has 0 and all successors has all numbers) follows from the
well-foundedness of `<`, and from it `Recursion`: a definition whose right-hand side, at an element, looks only at
elements of a smaller measure has a solution, so that the `CHOOSE` of a recursive function can be unfolded. From
these two come the lemmas on folds (`Product`, `FlattenSeq`), on division, and on loops over the positions of a text (`Loop`,
`Backwards`).

* `FileIsAsGiven` and `LoadedIsSavedAlways`: the file of cnpy, for every shape that `parse_npy_header` can read
  and any number of rows. The invariant `NpyIndInv` says that the header shows the rows, and that behind it stands
  what was given, as long as it is no longer than the first one and no vector was appended to longer rows;
  after either the file is shorter than its header says, for good, and the load throws.
* `CallsHaveArguments`: which arguments a call has; the functions keep nothing, so the rest is about them.
* `TensorsKeepElementsAlways`: for all shapes, axes, factors and arrays, with products that
  overflow. `ComputeStrides` has no value for a shape without dimensions, and what the property says of strides
  is about shapes with one (`StridesOfShape`). `Unsqueeze` and `View` by the algebra of products; `Repeat` by comparing, at each element of the output, the
  copied block with the division into indices by strides; `TopK` by an induction over the elements that have
  been pushed (the heap holds the best of them) and one over the heap that is drained.
* `WavesAreReadAlways`: for every list of chunks, by going through it up to the first chunk of data. A well-formed file is read
  rightly by both copies, but by that of `silero-vad` not if the data is empty and other chunks follow (`TakenForData`); of any other file of
  integers the numbers of the data come first and in their places (`WhatIsThere`, `WhatIsRead`), and what comes after them is undefined or
  made of bytes behind the chunk.
* `TextsStayWholeAlways`: for all texts. Each loop becomes a function of positions, or of positions and the width kept from
  before (`Cursors`), and the lemmas go through the text from its end: what is cut or split from a position on, put
  together or joined again, is the text from there on. The two tests of an encoding are one lemma (`Halves`).
  That joining words and splitting again gives them back is an induction over the words, with any text
  before them (`JoinAndSplit`).

Three things about the model were wrong or too weak and came out in these proofs: `Repeat` with a negative
factor and a negative count of copies multiplied the two, where the loops of the code run not at all; `DataOf` took
the numbers of all chunks of data, where both readers stop at the first; and the shape of a file needs a bound
(`NpyAssumption`): `fgets` takes no more than 255 bytes of a header and `stoi` no number that is not an `int`. `TopKIsStable`
now says what a stable sort is instead of calling one.

**SpinLockProofs.** `LockExcludes`, `CounterIsExact`, `OutputIsInLines`. The inductive invariant
says that the flag is set exactly while somebody is inside, that the holder's view is the
newest, and that the view left with a clear flag is.

With these every safety property that the passing runs check is proved. Only model-checked are
liveness, fairness and `ENABLED`, which are out of the prover's reach: `ShutdownCompletes`, `AllFinish`, `EveryDatagramHandled`,
`StopReturns`, `RecordingEnds`, `ExamplesComplete` and the fairness in `ImplementsFairExecutor`.

## 6. Where code and documentation disagree

Five runs end in a counterexample; `PROJECT.json` quotes the sentences of the repository.

1. **`ThreadPoolLostWakeup`** (`threadpool_v1.h:26`). The comment at line 66 says a worker must
   not be blocked when `stop_` is set. The destructor stores `stop_` and notifies without the
   mutex; a worker between the predicate and the wait misses both and the join never
   returns.
2. **`NetworkDelayStuck`** (`network_simulator.cpp:234`). A delayed packet is promised to be
   sent after its time, but the map is looked at only after another datagram was taken.
3. **`NetworkTerminate`** (`network_simulator.cpp:49`). A signal during `start()` stops what has
   not been created; a joinable thread is destroyed and the program aborts.
4. **`NetworkReorder`** (`network_simulator.cpp:165`). The simulator promises to send packets out of order
   (README.md:10 and 103 of the simulator). `send_packet` sleeps and then sends, on the one thread that sends: a packet that is
   counted as reordered is sent before all that wait behind it, only later.
5. **`ConfigFile`** (`config_manager.cpp:20`, `26`, `54`). Every line loses its last character, the flags are
   ignored and a blank line throws, so the repository's own example file cannot be loaded. Besides, each line is parsed into a
   configuration of its own, all of whose fields are taken: a line gives every field that it does not name its
   default back. The counterexample that TLC prints is one line with a character cut off; the other causes are in the model
   (`Merge`, `Taken`, `BlankLine`) and need no cut to bite.

Also met while modelling, and part of the models or of the wording of a property:

* *ThreadPool*: with `hardware_concurrency() == 0` there is no worker; what is committed is
  broken by the destructor (`DestroyedSettlesFutures` allows `broken` only then).
* *CircleQueue*: `rear()` after `tail_` has wrapped to 0 computes `(2^64 - 1) % slots`, right only
  if the number of slots is a power of two. With the 10 of the example, 11 slots, it
  reads slot 4 instead of slot 10. `EndsAreRight` is stated accordingly.
* *NetworkSimulator*: `running_` is stored and the processor notified without the mutex
  (lines 64 and 76), the same race as in the pool: Ctrl+C can hang (`StopReturns` excludes
  that moment). A deferred send reads a buffer that is gone (line 173, `intact`).
* *record-to-file*: samples that arrive between the last drain and the stop stay in
  `samples_queue` (line 105; `BuffersInOrder` counts them there). With two channels half the samples
  are copied (line 35) and the header counts the channels twice (`wav.h:47`), so
  `RecordedIsPlayed` compares readers for one channel only. When the stream does not start
  the program goes on (line 99).
* *play-wav* ignores a failing read (line 87) and plays one silent buffer more than needed; so
  does *paex_record* when the frames are a multiple of the buffer.
* *VadIterator*: speech without a pause is never cut, since the length is looked at only
  without speech (line 218); a segment too short to be one stays open at its pause and
  takes in the silence, and the last one is kept however short.
* *Echo*: a line longer than both sockets makes the asynchronous client and its session wait for
  each other; its single read per line makes replies drift; an empty line waits for ever. A
  connection that breaks before the accept handler asks for its endpoint ends the whole
  server. The UDP client waits for ever after a loss, and after a double every reply answers
  an earlier request.

* *onnxruntime-utils*: an append that gives the shape one more digit can make the header longer by a block, which
  is written over the first 16 bytes of the data (`cnpy.h:143`); the file then is too short and the load throws, so
  that the data is lost but not wrong (`LoadedIsSaved` says exactly when). The assertion of `cnpy.h:121`
  compares with `!=` where the message above it says the dimensions must not differ: a vector is appended to longer
  rows, which is in the model; for an array of more dimensions than the file's, which is not, the loop at lines 124-130 reads the shape of
  the file behind its end. `Unsqueeze` of a tensor is
  documented to share the ownership of the memory (`onnxruntime-tensor.cc:46`), but `CreateTensor` over memory
  that is there only borrows it. Products are accumulated in an `int`: what overflows is refused, not copied
  wrongly. `ComputeStrides` of a shape without dimensions writes `strides[-1]` (`onnxruntime-tensor.cc:72`); nothing in the repository
  calls it so, and no property speaks of it.
* *wav.h*: a file without a data chunk, or with a chunk of odd size before it, keeps `Open` in its loop; fewer than 8
  bits per sample or no channels divide by zero; a chunk of data shorter than its header says goes on in the chunks behind it, and at the end of the file
  gives undefined samples (the last one again, in the detector's copy). For the detector's copy a size of 0 stands for the rest of the
  file (`silero-vad/example/wav.h:83`), also when the data really is empty and other chunks follow. A `fmt` chunk of odd size loses the readers
  like any other. The comment on `num_samples_` (line 195, and line 223 of the other copy) says it counts the floats in the
  array; `Write` takes it for the number of frames (lines 169-173), and so does `WritersAreRead`. A caller that goes by the
  comment has `Write` read behind the array if there are two channels; no program of the repository uses `WavWriter`.
* *StringUtil*: a byte that begins no character keeps the width of the one before it (lines 117-136), and from 248 on
  an assertion fails; a text that `isUTF8` accepts has neither. `CheckEnglishChar` gives `isalpha` a negative `char` for such a byte
  (line 163), which is undefined; the model has the outcome of glibc, whose table says no.
* *daytime*: one failed accept ends the synchronous server. *multicast*: one failed send ends the sender
  early, one failed receive a receiver.

Hazards seen that no model covers: tasks that wait for the futures of other tasks can occupy every worker of the
pool (`threadpool_v1.h:77`); the socket of the simulator is used by three threads without
synchronisation (`network_simulator.cpp:172`); a negative `max_jitter` makes the bounds of a distribution
cross, which is undefined (`network_simulator.cpp:218`); the signal handler of the simulator
prints and joins threads, which a handler must not (`main.cpp:19`); `parse_percentage` calls `back()` on what may be an empty string
(`config_manager.cpp:291`); a sample rate below 1000 makes the detector's window empty and its
loop endless (`silero-vad-example.cc:329`).

## 7. What is not modelled

* Inside modelled components: the statistics, averages and logs that are only printed, and
  `get_stats`/`reset_stats` of the simulator;
  data races inside asio (each call is atomic here). The memory the asynchronous echo client
  leaks with its first connection is left out, see `TcpEcho`.
* *PortAudio demos* (`paex_saw`, `microphone`, `example`): generate a wave or list devices.
* *asio waits* (`timer/async_timer.cc`, `timer/sync_timer.cc`): wait once and print a line.
* Of *onnxruntime-utils*: archives of numpy files, whose code is commented out but for a function that
  nothing calls; elements of more than one byte. Of *Utils*: `gbkToUtf8`, which is a call of `iconv`, `IsAlpha` and the
  clock. Of *wav.h*: rounding to the width of a sample.
* *Mutex and atomic benchmark, toml and json examples, scripts*: no state of interest. Neural
  networks, PortAudio, asio and the C++ library appear as the choices they leave.

## 8. The plan

Modules were written in this order, the one with the most threads first: ThreadPool with
Executor, CircleQueue with BoundedFifo, SpinLock, NetworkSimulator, ConfigManager, VadIterator,
the audio programs, the echo programs; then the sequential libraries (StringUtil, NpyFile, OnnxTensor,
RiffFile) and the other examples of asio (Daytime, Multicast, IoContext). Modules to be proved about use no
`RECURSIVE` operator; `IInv` and its like are conjunctions of named parts.

What is left to model are `reset_stats` and `get_stats` of the simulator, if they get a caller, and the
remainders listed in section 7.

Proved are all safety properties of the runs. What is left to prove are `Daytime`, `Multicast` and `UdpEcho` as
implementations of abstract services, as the pool is of `Executor`.
