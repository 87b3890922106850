----------------------------- MODULE PaexRecord -----------------------------
(***************************************************************************)
(* portaudio-example/example/paex_record.cc: the callback of one stream    *)
(* fills an array, the callback of a second one plays it. The main thread  *)
(* polls the streams and, on any error, goes to the label done, where      *)
(* PortAudio is terminated, streams and all, and the array freed.          *)
(* A frame is one number (NUM_CHANNELS is 1), 0 is SAMPLE_SILENCE.         *)
(***************************************************************************)
EXTENDS Integers, Sequences, SequencesExt

CONSTANTS
  TotalFrames,    \* what NUM_SECONDS * SAMPLE_RATE may be
  PaexFrames      \* FRAMES_PER_BUFFER, 512

ASSUME PaexAssumption ==
  /\ TotalFrames \subseteq Nat \ {0}
  /\ PaexFrames \in Nat \ {0}

VARIABLES
  data,           \* paTestData, shared by main thread and callbacks
  array,          \* the allocation behind recordedSamples: null | live | freed
  xpc,            \* where the main thread is; none: the program is not run
  xstream,        \* off | record | play | complete
  delivered,      \* the frames the device has handed to the callback
  recorded_raw,   \* the file
  heard           \* what has gone to the device

paexVars == <<data, array, xpc, xstream, delivered, recorded_raw, heard>>

SAMPLE_SILENCE == 0

PaexInit ==
  /\ \E frames \in TotalFrames :
       data = [frameIndex |-> 0, maxFrameIndex |-> frames,
               recordedSamples |-> [s \in 1..frames |-> SAMPLE_SILENCE]]
  /\ array = "null"
  /\ xpc \in {"none", "start"}
  /\ xstream = "off"
  /\ delivered = <<>> /\ recorded_raw = <<>> /\ heard = <<>>

-----------------------------------------------------------------------------
(* The callbacks, which share the rule for the last buffer: a buffer that  *)
(* just fits is not the last.                                              *)

paexFramesLeft == data.maxFrameIndex - data.frameIndex

FramesToCalc ==
  IF paexFramesLeft < PaexFrames THEN paexFramesLeft ELSE PaexFrames

\* What the callback returns makes of the stream.
StreamAfter(active) ==
  IF paexFramesLeft < PaexFrames THEN "complete" ELSE active

\* The device delivers the frames that follow, or no buffer at all.
InputBuffer ==
  { [s \in 1..PaexFrames |-> Len(delivered) + s],
    [s \in 1..PaexFrames |-> SAMPLE_SILENCE] }

recordCallback ==
  /\ xstream = "record"
  /\ \E input \in InputBuffer :
       /\ data' = [data EXCEPT
            !.recordedSamples = [s \in DOMAIN @ |->
              IF s \in data.frameIndex + 1..data.frameIndex + FramesToCalc
              THEN input[s - data.frameIndex] ELSE @[s]],
            !.frameIndex = @ + FramesToCalc]
       /\ delivered' = delivered \o input
  /\ xstream' = StreamAfter("record")
  /\ UNCHANGED <<array, xpc, recorded_raw, heard>>

playCallback ==
  /\ xstream = "play"
  /\ heard' = heard \o SubSeq(data.recordedSamples, data.frameIndex + 1,
                              data.frameIndex + FramesToCalc)
                    \o [s \in 1..PaexFrames - FramesToCalc |-> SAMPLE_SILENCE]
  /\ data' = [data EXCEPT !.frameIndex = @ + FramesToCalc]
  /\ xstream' = StreamAfter("play")
  /\ UNCHANGED <<array, xpc, delivered, recorded_raw>>

-----------------------------------------------------------------------------
(* The main thread.                                                        *)

\* The label done; not the code: one that comes after Pa_Terminate.
DoneTooLate == "free"
Done == "terminate"

Allocate ==
  /\ xpc = "start"
  /\ \/ array' = "live" /\ xpc' = "init"
     \/ array' = "null" /\ xpc' = Done
  /\ UNCHANGED <<data, xstream, delivered, recorded_raw, heard>>

\* Pa_Initialize to Pa_StartStream, for the input.
StartRecording ==
  /\ xpc = "init"
  /\ \/ xpc' = "recording" /\ xstream' = "record"
     \/ xpc' = Done /\ UNCHANGED xstream
  /\ UNCHANGED <<data, array, delivered, recorded_raw, heard>>

\* Pa_IsStreamActive is 0 and the stream closed; the array is written whole,
\* if the file can be opened, and frameIndex starts again.
Recorded ==
  /\ xpc = "recording"
  /\ xstream = "complete"
  /\ xstream' = "off"
  /\ recorded_raw' \in {recorded_raw, data.recordedSamples}
  /\ data' = [data EXCEPT !.frameIndex = 0]
  /\ xpc' = "recorded"
  /\ UNCHANGED <<array, delivered, heard>>

\* The default output device to Pa_StartStream, for the output.
StartPlayback ==
  /\ xpc = "recorded"
  /\ \/ xpc' = "playing" /\ xstream' = "play"
     \/ xpc' = Done /\ UNCHANGED xstream
  /\ UNCHANGED <<data, array, delivered, recorded_raw, heard>>

Played ==
  /\ xpc = "playing"
  /\ xstream = "complete"
  /\ xstream' = "off"
  /\ xpc' = Done
  /\ UNCHANGED <<data, array, delivered, recorded_raw, heard>>

\* Pa_IsStreamActive or Pa_CloseStream report an error: the program leaves
\* at once, and the callback may still run.
StreamFails ==
  /\ xpc \in {"recording", "playing"}
  /\ xpc' = Done
  /\ UNCHANGED <<data, array, xstream, delivered, recorded_raw, heard>>

\* Pa_Terminate closes the streams that are open.
Terminate ==
  /\ xpc = "terminate"
  /\ xpc' = "free"
  /\ xstream' = "off"
  /\ UNCHANGED <<data, array, delivered, recorded_raw, heard>>

Free ==
  /\ xpc = "free"
  /\ xpc' = "done"
  /\ array' = IF array = "live" THEN "freed" ELSE array
  /\ UNCHANGED <<data, xstream, delivered, recorded_raw, heard>>

PaexMain ==
  Allocate \/ StartRecording \/ Recorded \/ StartPlayback \/ Played
  \/ Terminate \/ Free

PaexCallback == recordCallback \/ playCallback

PaexNext == PaexMain \/ StreamFails \/ PaexCallback

\* The main thread runs and the device delivers; no stream need fail.
PaexFairness == WF_paexVars(PaexMain) /\ WF_paexVars(PaexCallback)
=============================================================================
