---------------------------- MODULE RecordToFile ----------------------------
(***************************************************************************)
(* portaudio-example/example/record-to-file.cc: the callback of PortAudio  *)
(* puts buffers of samples into samples_queue, the main thread moves them  *)
(* to its own queue and writes them, and the handler of SIGINT sets stop.  *)
(* The handler may run on any thread, between any two steps of the others. *)
(* stop is a plain bool; every read and write of it is taken to be atomic. *)
(***************************************************************************)
EXTENDS WavFile

CONSTANTS
  ChannelCounts,    \* what the argument nc may be
  FramesPerBuffer,  \* 64
  MaxBuffers,       \* bound: buffers captured before the signal
  MaxSpurious       \* bound: spurious wakeups of condition_variable.wait

ASSUME RecordAssumption ==
  /\ ChannelCounts \subseteq Nat \ {0}
  /\ FramesPerBuffer \in Nat \ {0}
  /\ MaxBuffers \in Nat
  /\ MaxSpurious \in Nat

VARIABLES
  NumChannel,
  rpc,            \* where the main thread is; none: the program is not run
  cpc,            \* where the callback is
  hpc,            \* where the handler is
  stream,         \* off | active | complete
  stop,
  captured,       \* buffers the device has delivered
  samples_queue,
  record_queue,
  total,          \* total_num_samples_ of the StreamWavWriter
  spurious        \* spurious wakeups so far

queues == <<samples_queue, record_queue>>
recordVars == <<NumChannel, rpc, cpc, hpc, stream, stop, captured, queues,
                total, spurious>>

RecordInit ==
  /\ NumChannel \in ChannelCounts
  /\ rpc \in {"none", "open"}
  /\ cpc = "idle"
  /\ hpc = "none"
  /\ stream = "off"
  /\ stop = FALSE
  /\ captured = 0
  /\ samples_queue = <<>> /\ record_queue = <<>>
  /\ total = 0 /\ spurious = 0
  /\ file = [header |-> Hole, data |-> <<>>]

-----------------------------------------------------------------------------
(* The decisions of the code. Beside some of them stands what a mistake    *)
(* there would make of it; nothing but a check of the properties uses it.  *)

\* The frames of buffer k have NumChannel samples each, numbered from 1 on;
\* the callback copies FramesPerBuffer samples, not frames.
Copied(k) ==
  LET first == (k - 1) * FramesPerBuffer * NumChannel
  IN  [s \in 1..FramesPerBuffer |-> first + s]

\* mutex is free.
MutexFree == rpc \notin {"test", "block", "drain"} /\ cpc \notin {"push", "return"}

\* What a notification makes of the main thread.
Notified == IF rpc = "wait" THEN "lock" ELSE rpc

\* What the notification of the callback makes of it; not the code: none
\* for the last buffer.
NotifiedUnlessStop == IF stop THEN rpc ELSE Notified
NotifiedByCallback == Notified

\* samples_queue after the move; not the code: buffers copied and left.
NotTaken == samples_queue
Taken == <<>>

\* total_num_samples_ after n more.
Counted(n) == total + n

-----------------------------------------------------------------------------
(* The callback. A buffer follows another while the stream is active.      *)

CallbackLock ==
  /\ stream = "active"
  /\ cpc = "idle"
  /\ captured < MaxBuffers \/ stop
  /\ MutexFree
  /\ cpc' = "push"
  /\ captured' = captured + 1
  /\ UNCHANGED <<file, NumChannel, rpc, hpc, stream, stop, queues, total,
                 spurious>>

CallbackPush ==
  /\ cpc = "push"
  /\ samples_queue' = Append(samples_queue, Copied(captured))
  /\ rpc' = NotifiedByCallback
  /\ cpc' = "return"
  /\ UNCHANGED <<file, NumChannel, hpc, stream, stop, captured, record_queue,
                 total, spurious>>

CallbackReturn ==
  /\ cpc = "return"
  /\ cpc' = "idle"
  /\ stream' = IF stop /\ stream = "active" THEN "complete" ELSE stream
  /\ UNCHANGED <<file, NumChannel, rpc, hpc, stop, captured, queues, total,
                 spurious>>

-----------------------------------------------------------------------------
(* The handler of SIGINT; a second signal would change nothing.            *)

HandlerStop ==
  /\ hpc = "none"
  /\ rpc \notin {"none", "done", "failed"}
  /\ hpc' = "notify"
  /\ stop' = TRUE
  /\ UNCHANGED <<file, NumChannel, rpc, cpc, stream, captured, queues, total,
                 spurious>>

HandlerNotify ==
  /\ hpc = "notify"
  /\ hpc' = "done"
  /\ rpc' = Notified
  /\ UNCHANGED <<file, NumChannel, cpc, stream, stop, captured, queues, total,
                 spurious>>

-----------------------------------------------------------------------------
(* The main thread.                                                        *)

Main(from, to) ==
  /\ rpc = from
  /\ rpc' = to
  /\ UNCHANGED <<NumChannel, cpc, hpc, stop, captured>>

\* PortAudio, the device or the stream cannot be had: exit(-1).
OpenFails ==
  /\ Main("open", "failed")
  /\ UNCHANGED <<file, stream, queues, total, spurious>>

Open ==
  /\ Main("open", "start")
  /\ UNCHANGED <<file, stream, queues, total, spurious>>

Start ==
  /\ Main("start", "loop")
  /\ stream' = "active"
  /\ UNCHANGED <<file, queues, total, spurious>>

\* Pa_StartStream fails: PortAudio is terminated, and the program goes on.
StartFails ==
  /\ Main("start", "loop")
  /\ UNCHANGED <<file, stream, queues, total, spurious>>

LoopTest ==
  /\ Main("loop", IF stop THEN "active" ELSE "lock")
  /\ UNCHANGED <<file, stream, queues, total, spurious>>

Lock ==
  /\ MutexFree
  /\ Main("lock", "test")
  /\ UNCHANGED <<file, stream, queues, total, spurious>>

\* The condition of the inner loop, at first and after every wait.
Test ==
  /\ Main("test", IF samples_queue = <<>> /\ ~stop THEN "block" ELSE "drain")
  /\ UNCHANGED <<file, stream, queues, total, spurious>>

Block ==
  /\ Main("block", "wait")
  /\ UNCHANGED <<file, stream, queues, total, spurious>>

SpuriousWake ==
  /\ Main("wait", "lock")
  /\ spurious < MaxSpurious
  /\ spurious' = spurious + 1
  /\ UNCHANGED <<file, stream, queues, total>>

Drain ==
  /\ Main("drain", "write")
  /\ record_queue' = record_queue \o samples_queue
  /\ samples_queue' = Taken
  /\ UNCHANGED <<file, stream, total, spurious>>

\* StreamWavWriter::Write.
Write ==
  /\ record_queue # <<>>
  /\ Main("write", "write")
  /\ file' = [file EXCEPT !.data = @ \o Head(record_queue)]
  /\ total' = Counted(Len(Head(record_queue)))
  /\ record_queue' = Tail(record_queue)
  /\ UNCHANGED <<stream, samples_queue, spurious>>

WriteEnds ==
  /\ record_queue = <<>>
  /\ Main("write", "loop")
  /\ UNCHANGED <<file, stream, queues, total, spurious>>

\* The stream ends when the callback returns paComplete.
CloseStream ==
  /\ stream = "complete"
  /\ Main("active", "close")
  /\ stream' = "off"
  /\ UNCHANGED <<file, queues, total, spurious>>

\* Pa_IsStreamActive returns an error, as it does if the stream never ran,
\* or Pa_CloseStream does: exit(-1), and the file keeps its hole.
StreamError ==
  /\ Main("active", "failed")
  /\ stream' = "off"
  /\ UNCHANGED <<file, queues, total, spurious>>

\* StreamWavWriter::Close.
CloseFile ==
  /\ Main("close", "done")
  /\ file' = [file EXCEPT !.header = WavHeader(total, NumChannel)]
  /\ UNCHANGED <<stream, queues, total, spurious>>

Callback == CallbackLock \/ CallbackPush \/ CallbackReturn

Recorder ==
  \/ OpenFails \/ Open \/ Start \/ StartFails
  \/ LoopTest \/ Lock \/ Test \/ Block \/ SpuriousWake \/ Drain
  \/ Write \/ WriteEnds
  \/ CloseStream \/ StreamError \/ CloseFile

RecordNext == Recorder \/ Callback \/ HandlerStop \/ HandlerNotify

\* The threads run and the device delivers; nobody need press Ctrl+C.
RecordFairness ==
  /\ WF_<<file, recordVars>>(Callback)
  /\ WF_<<file, recordVars>>(HandlerNotify)
  /\ WF_<<file, recordVars>>(Open \/ OpenFails \/ Start \/ StartFails)
  /\ WF_<<file, recordVars>>(LoopTest \/ Test \/ Block \/ Drain)
  /\ WF_<<file, recordVars>>(Lock)
  /\ WF_<<file, recordVars>>(Write \/ WriteEnds)
  /\ WF_<<file, recordVars>>(CloseStream \/ CloseFile)
  /\ WF_<<file, recordVars>>(stream = "off" /\ StreamError)
=============================================================================
