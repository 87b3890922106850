------------------------------ MODULE PlayWav ------------------------------
(***************************************************************************)
(* portaudio-example/example/play-wav.cc: the main thread reads a file,    *)
(* starts a stream and waits for its end; the callback of PortAudio copies *)
(* one buffer after the other from what was read. The program plays one    *)
(* channel, whatever the file has.                                         *)
(***************************************************************************)
EXTENDS WavFile

CONSTANT PlayFrames   \* FRAMES_PER_BUFFER, 512

ASSUME PlayAssumption == PlayFrames \in Nat \ {0}

VARIABLES
  ppc,          \* where the main thread is
  pstream,      \* off | active | complete
  audioBuffer,  \* what was read
  frameIndex,   \* frames the callback has handed out
  played        \* what has gone to the device

playVars == <<ppc, pstream, audioBuffer, frameIndex, played>>

PlayInit ==
  /\ ppc = "start"
  /\ pstream = "off"
  /\ audioBuffer = <<>>
  /\ frameIndex = 0
  /\ played = <<>>

\* The result of ReadWavBuffer is not looked at.
ReadFile ==
  /\ ppc = "start"
  /\ audioBuffer' = ReadWavBuffer
  /\ ppc' = "open"
  /\ UNCHANGED <<pstream, frameIndex, played>>

\* PortAudio, the device or the stream cannot be had: main() returns 1.
PlayFails ==
  /\ ppc = "open"
  /\ ppc' = "failed"
  /\ UNCHANGED <<pstream, audioBuffer, frameIndex, played>>

StartPlaying ==
  /\ ppc = "open"
  /\ ppc' = "playing"
  /\ pstream' = "active"
  /\ UNCHANGED <<audioBuffer, frameIndex, played>>

framesLeft == Len(audioBuffer) - frameIndex

LastBuffer == framesLeft < PlayFrames

\* The stream is told to go on if the buffer was full, even if nothing is
\* left; what is left of the last buffer is silence.
PlayCallback ==
  /\ pstream = "active"
  /\ \/ /\ ~LastBuffer
        /\ played' = played \o SubSeq(audioBuffer, frameIndex + 1,
                                      frameIndex + PlayFrames)
        /\ frameIndex' = frameIndex + PlayFrames
        /\ UNCHANGED pstream
     \/ /\ LastBuffer
        /\ played' = played \o SubSeq(audioBuffer, frameIndex + 1, Len(audioBuffer))
                            \o [s \in 1..PlayFrames - framesLeft |-> Silence]
        /\ pstream' = "complete"
        /\ UNCHANGED frameIndex
  /\ UNCHANGED <<ppc, audioBuffer>>

\* Pa_IsStreamActive says that the stream has ended ...
PlayEnds ==
  /\ ppc = "playing"
  /\ pstream = "complete"
  /\ ppc' = "done"
  /\ UNCHANGED <<pstream, audioBuffer, frameIndex, played>>

\* ... or reports an error; the stream is stopped and closed all the same.
PlayError ==
  /\ ppc = "playing"
  /\ ppc' = "done"
  /\ pstream' = "off"
  /\ UNCHANGED <<audioBuffer, frameIndex, played>>

PlayNext ==
  ReadFile \/ PlayFails \/ StartPlaying \/ PlayCallback \/ PlayEnds \/ PlayError
=============================================================================
