--------------------------- MODULE AudioPrograms ---------------------------
(***************************************************************************)
(* The two ways to record and to play: record-to-file and then play-wav on *)
(* the file it leaves, whether it ended well or with an error, and         *)
(* paex_record, which does both by itself.                                 *)
(***************************************************************************)
EXTENDS RecordToFile, PlayWav, PaexRecord

vars == <<file, recordVars, playVars, paexVars>>

\* One of the two is run.
Init ==
  /\ RecordInit /\ PlayInit /\ PaexInit
  /\ rpc = "none" <=> xpc # "none"

Record == RecordNext /\ UNCHANGED <<playVars, paexVars>>

Play ==
  /\ rpc \in {"done", "failed"}
  /\ PlayNext
  /\ UNCHANGED <<file, recordVars, paexVars>>

Paex == PaexNext /\ UNCHANGED <<file, recordVars, playVars>>

Next == Record \/ Play \/ Paex

Spec == Init /\ [][Next]_vars

FairSpec == Spec /\ RecordFairness /\ PaexFairness

-----------------------------------------------------------------------------
(* Properties.                                                             *)

\* The type of every variable.
TypeOK ==
  /\ file.data \in Seq(Nat \ {0})
  /\ file.header \in [riff : BOOLEAN, channels : {0} \cup ChannelCounts,
                      data_size : Nat]
  /\ NumChannel \in ChannelCounts
  /\ rpc \in {"none", "open", "start", "loop", "lock", "test", "block", "wait", "drain",
              "write", "active", "close", "done", "failed"}
  /\ cpc \in {"idle", "push", "return"}
  /\ hpc \in {"none", "notify", "done"}
  /\ stream \in {"off", "active", "complete"}
  /\ stop \in BOOLEAN
  /\ captured \in 0..MaxBuffers + 2
  /\ samples_queue \in Seq(Seq(Nat \ {0}))
  /\ record_queue \in Seq(Seq(Nat \ {0}))
  /\ total \in 0..(MaxBuffers + 2) * FramesPerBuffer
  /\ spurious \in 0..MaxSpurious
  /\ ppc \in {"start", "open", "playing", "done", "failed"}
  /\ pstream \in {"off", "active", "complete"}
  /\ audioBuffer \in Seq(Nat)
  /\ frameIndex \in 0..Len(audioBuffer)
  /\ played \in Seq(Nat)
  /\ \E frames \in TotalFrames :
       data \in [frameIndex : 0..frames, maxFrameIndex : {frames},
                recordedSamples : [1..frames -> Nat]]
  /\ array \in {"null", "live", "freed"}
  /\ xpc \in {"none", "start", "init", "recording", "recorded", "playing",
              "terminate", "free", "done"}
  /\ xstream \in {"off", "record", "play", "complete"}
  /\ delivered \in Seq(Nat)
  /\ recorded_raw \in Seq(Nat)
  /\ heard \in Seq(Nat)

\* How many buffers the callback has copied so far, what of them waits in the
\* two queues, and how many are in the file.
CopiedSoFar == captured - (IF cpc = "push" THEN 1 ELSE 0)
Waiting == record_queue \o samples_queue
Written == CopiedSoFar - Len(Waiting)

\* No buffer is lost, doubled or overtaken on its way through two queues and
\* a mutex into the file: the file holds the first ones, sample for sample, and
\* those that follow wait. What the file lacks at the end is in samples_queue.
\* And every variable has its type.
BuffersInOrder ==
  /\ TypeOK
  /\ Len(file.data) = Written * FramesPerBuffer
  /\ \A k \in 1..Written, s \in 1..FramesPerBuffer :
       file.data[(k - 1) * FramesPerBuffer + s] = Copied(k)[s]
  /\ \A i \in DOMAIN Waiting : Waiting[i] = Copied(Written + i)

\* What record-to-file wrote is what the two readers of the project get, if it has
\* one channel, and what play-wav plays, followed by silence, in any case.
WavIsPlayed ==
  /\ rpc = "done" /\ NumChannel = 1 =>
       ReadWavBuffer = file.data /\ DetectorInput = file.data
  /\ rpc = "done" /\ pstream = "complete" =>
       /\ IsPrefix(file.data, played)
       /\ \A s \in Len(file.data) + 1..Len(played) : played[s] = Silence
       /\ Len(played) <= NumChannel * Len(file.data) + PlayFrames

\* The same of paex_record: it records as many frames as fit, the first ones
\* delivered, saves the whole array and plays it to the end.
ArrayIsPlayed ==
  LET recorded == SubSeq(delivered, 1, data.maxFrameIndex)
  IN  /\ xpc = "recorded" =>
           /\ data.recordedSamples = recorded
           /\ recorded_raw \in {<<>>, recorded}
      /\ xpc = "playing" /\ xstream = "complete" =>
           /\ IsPrefix(recorded, heard)
           /\ \A s \in Len(recorded) + 1..Len(heard) : heard[s] = SAMPLE_SILENCE
           /\ Len(heard) <= Len(recorded) + PaexFrames

\* What is recorded is what is saved, read and played.
RecordedIsPlayed == WavIsPlayed /\ ArrayIsPlayed

\* The array lives as long as a callback may use it, whatever fails.
ArrayOutlivesCallbacks == xstream \in {"record", "play"} => array = "live"

\* Ctrl+C ends a recording: although the handler notifies without the mutex
\* and the main thread may be about to wait, the last buffer wakes it. And
\* paex_record ends by itself.
RecordingEnds ==
  /\ stop /\ stream = "active" ~> rpc \in {"done", "failed"}
  /\ xpc = "start" ~> xpc = "done"
=============================================================================
