---------------------------- MODULE VadIterator ----------------------------
(***************************************************************************)
(* class VadIterator,                                                      *)
(* src/SpeechProcessing/silero-vad/example/silero-vad-example.cc: a voice  *)
(* activity detector that turns a stream of windows of audio, each with    *)
(* the probability a neural network gives it, into speech segments.        *)
(*                                                                         *)
(* A probability matters only by its class: speech (at least threshold),   *)
(* silence (below threshold - 0.15) or between. Positions are in samples.  *)
(***************************************************************************)
EXTENDS Integers, Sequences, FiniteSets

CONSTANTS
  Window,         \* window_size_samples
  MinSilence,     \* min_silence_samples
  SplitSilence,   \* min_silence_samples_at_max_speech: 98 ms
  MinSpeech,      \* min_speech_samples
  MaxSpeech,      \* max_speech_samples, above every length if infinite
  Lengths         \* how many samples the audio may have

ASSUME VadAssumption ==
  /\ Window \in Nat \ {0}
  /\ MinSilence \in Nat /\ SplitSilence \in Nat /\ MinSpeech \in Nat
  /\ MaxSpeech \in Int
  /\ Lengths \subseteq Nat

Classes == {"speech", "between", "silence"}

NoSegment == [start |-> -1, end |-> -1]

VARIABLES
  phase,            \* idle: no process() is active | loop: one is
  length,           \* audio_length_samples
  heard,            \* the class of each window given to predict
  cuts,             \* the windows at which a segment was found too long
  context,          \* the number of the window whose tail _context holds
  triggered, temp_end, current_sample, prev_end, next_start,
  speeches, current_speech

marks == <<temp_end, prev_end, next_start>>
segments == <<speeches, current_speech, triggered>>
audio == <<phase, length>>
vadVars == <<audio, heard, cuts, context, marks, current_sample, segments>>

\* reset_states, also called by reset().
reset_states ==
  /\ triggered' = FALSE
  /\ temp_end' = 0 /\ prev_end' = 0 /\ next_start' = 0
  /\ current_sample' = 0
  /\ speeches' = <<>>
  /\ current_speech' = NoSegment
  /\ context' = 0
  /\ heard' = <<>>
  /\ cuts' = {}

VadInit ==
  /\ phase = "idle" /\ length = 0 /\ heard = <<>> /\ cuts = {} /\ context = 0
  /\ triggered = FALSE
  /\ temp_end = 0 /\ prev_end = 0 /\ next_start = 0
  /\ current_sample = 0
  /\ speeches = <<>>
  /\ current_speech = NoSegment

-----------------------------------------------------------------------------
(* The decisions of the code. Beside some of them stands what a mistake    *)
(* there would make of it; nothing but a check of the properties uses it.  *)

\* The position after the window at hand, and the window's own.
Position == current_sample + Window
WindowStart == current_sample

\* Whether next_start is moved to the speech after a pause.
MovesIfBefore == prev_end < next_start
MovesNextStart == next_start < prev_end

\* Whether the open segment is too long.
TooLong == triggered /\ Position - current_speech.start > MaxSpeech

\* Where the pause that ends a segment began.
RestartedEnd == Position
EndOfSpeech == IF temp_end = 0 THEN Position ELSE temp_end

\* Whether the pause is long enough to end the segment, and the segment long
\* enough to be one.
PauseLong == Position - EndOfSpeech >= MinSilence
SpeechLong == EndOfSpeech - current_speech.start > MinSpeech

\* What the pause contributes to prev_end.
PauseSplits == Position - EndOfSpeech > SplitSilence

Closed(end) == Append(speeches, [current_speech EXCEPT !.end = end])

\* The positions of a segment are forgotten with it.
ForgetsPrevEnd == temp_end' = 0 /\ next_start' = 0 /\ UNCHANGED prev_end
ClearMarks == temp_end' = 0 /\ prev_end' = 0 /\ next_start' = 0

\* process() closes what is open when the audio ends.
OpenAnyway == current_speech.start >= -1
OpenAtEnd == current_speech.start >= 0

-----------------------------------------------------------------------------

\* process() starts on some audio.
Process ==
  /\ phase = "idle"
  /\ length' \in Lengths
  /\ phase' = "loop"
  /\ reset_states

\* predict is given a whole window; what remains of the audio is ignored.
MoreWindows == current_sample + Window <= length

Predict(class) ==
  /\ phase = "loop"
  /\ MoreWindows
  /\ current_sample' = Position
  /\ context' = Len(heard) + 1
  /\ heard' = Append(heard, class)
  /\ cuts' = IF class # "speech" /\ TooLong THEN cuts \cup {Len(heard) + 1} ELSE cuts
  /\ UNCHANGED audio

\* Speech opens a segment, or continues one after a pause.
Speech ==
  /\ Predict("speech")
  /\ temp_end' = 0
  /\ next_start' = IF temp_end # 0 /\ MovesNextStart
                   THEN WindowStart ELSE next_start
  /\ triggered' = TRUE
  /\ current_speech' = IF triggered THEN current_speech
                       ELSE [current_speech EXCEPT !.start = WindowStart]
  /\ UNCHANGED <<prev_end, speeches>>

\* Without speech a segment that is too long is cut at its last long pause
\* and goes on after it, if there was speech since ...
CutAtPause(class) ==
  /\ class # "speech"
  /\ TooLong
  /\ prev_end > 0
  /\ Predict(class)
  /\ speeches' = Closed(prev_end)
  /\ \/ /\ next_start < prev_end
        /\ triggered' = FALSE
        /\ current_speech' = NoSegment
     \/ /\ next_start >= prev_end
        /\ current_speech' = [NoSegment EXCEPT !.start = next_start]
        /\ UNCHANGED triggered
  /\ ClearMarks

\* ... and here, if it had none.
CutHere(class) ==
  /\ class # "speech"
  /\ TooLong
  /\ prev_end = 0
  /\ Predict(class)
  /\ speeches' = Closed(Position)
  /\ current_speech' = NoSegment
  /\ triggered' = FALSE
  /\ ClearMarks

\* Neither speech nor silence: no decision.
Between ==
  /\ ~TooLong
  /\ Predict("between")
  /\ UNCHANGED <<marks, segments>>

\* Silence outside a segment.
Quiet ==
  /\ ~triggered
  /\ Predict("silence")
  /\ UNCHANGED <<marks, segments>>

\* A pause that goes on, also because the segment before it is too short to
\* be one.
Pause ==
  /\ triggered /\ ~TooLong
  /\ ~(PauseLong /\ SpeechLong)
  /\ Predict("silence")
  /\ temp_end' = EndOfSpeech
  /\ prev_end' = IF PauseSplits THEN EndOfSpeech ELSE prev_end
  /\ current_speech' = IF PauseLong
                       THEN [current_speech EXCEPT !.end = EndOfSpeech]
                       ELSE current_speech
  /\ UNCHANGED <<next_start, speeches, triggered>>

\* The pause ends the segment.
SegmentEnds ==
  /\ triggered /\ ~TooLong
  /\ PauseLong /\ SpeechLong
  /\ Predict("silence")
  /\ speeches' = Closed(EndOfSpeech)
  /\ current_speech' = NoSegment
  /\ triggered' = FALSE
  /\ ClearMarks

\* The loop is over; an open segment extends to the end of the audio.
ProcessEnds ==
  /\ phase = "loop"
  /\ ~MoreWindows
  /\ phase' = "idle"
  /\ \/ /\ OpenAtEnd
        /\ speeches' = Closed(length)
        /\ current_speech' = NoSegment
        /\ triggered' = FALSE
        /\ ClearMarks
     \/ ~OpenAtEnd /\ UNCHANGED <<marks, segments>>
  /\ UNCHANGED <<length, heard, cuts, context, current_sample>>

Reset ==
  /\ phase = "idle"
  /\ reset_states
  /\ UNCHANGED audio

VadNext ==
  \/ Process
  \/ Speech
  \/ \E class \in Classes : CutAtPause(class) \/ CutHere(class)
  \/ Between
  \/ Quiet
  \/ Pause
  \/ SegmentEnds
  \/ ProcessEnds
  \/ Reset

VadSpec == VadInit /\ [][VadNext]_vadVars

-----------------------------------------------------------------------------
(* Properties.                                                             *)

\* The type of every variable; int and unsigned int stay positions in the
\* audio, or -1 in a segment that is not there.
VadTypeOK ==
  /\ phase \in {"idle", "loop"}
  /\ length \in Nat
  /\ heard \in Seq(Classes)
  /\ cuts \subseteq DOMAIN heard
  /\ context \in Nat
  /\ triggered \in BOOLEAN
  /\ temp_end \in Nat /\ prev_end \in Nat /\ next_start \in Nat
  /\ current_sample \in Nat
  /\ current_speech \in [start : Nat \cup {-1}, end : Nat \cup {-1}]
  /\ speeches \in Seq([start : Nat, end : Nat])

\* Three variables say whether a segment is open and three keep positions in
\* it; predict tests one and the end of process() another, and a stale one
\* would end a segment at a pause of an earlier one.
MarksAgree ==
  /\ triggered <=> current_speech.start >= 0
  /\ ~triggered => temp_end = 0 /\ prev_end = 0 /\ next_start = 0
  /\ \A mark \in {temp_end, prev_end, next_start} \ {0} :
       current_speech.start < mark /\ mark <= current_sample
  /\ current_sample = Window * Len(heard)
  /\ context = Len(heard)

\* Segments are not empty, follow each other, do not overlap, and lie in the
\* audio, however often one was cut; the open one comes after all of them.
SegmentsInOrder ==
  /\ \A n \in DOMAIN speeches :
       /\ speeches[n].start < speeches[n].end
       /\ speeches[n].end <= length
       /\ n > 1 => speeches[n - 1].end <= speeches[n].start
  /\ triggered /\ speeches # <<>> =>
       speeches[Len(speeches)].end <= current_speech.start

\* No speech is lost: every window of speech lies in a segment or in the
\* open one, also when a segment is cut at a pause before it.
SpeechIsCovered ==
  \A w \in DOMAIN heard : heard[w] = "speech" =>
    \/ triggered /\ current_speech.start <= Window * (w - 1)
    \/ \E n \in DOMAIN speeches :
         /\ speeches[n].start <= Window * (w - 1)
         /\ Window * w <= speeches[n].end

\* Window w is silent, and since the silent window p, the first one after
\* speech, nothing has ended or restarted the pause.
PauseAt(p, w) ==
  /\ p <= w /\ heard[p] = "silence" /\ heard[w] = "silence"
  /\ \A v \in p..w : heard[v] # "speech" /\ v \notin cuts
  /\ \E s \in 1..p - 1 :
       /\ heard[s] = "speech"
       /\ \A v \in s + 1..p - 1 : heard[v] = "between"

\* Long pauses separate segments: a pause of at least MinSilence is not
\* inside a segment, unless the speech before it was no longer than
\* MinSpeech. (A cut during the pause restarts the pause.)
LongPausesSeparate ==
  \A n \in DOMAIN speeches : \A p, w \in DOMAIN heard :
    /\ PauseAt(p, w)
    /\ Window * (w - p) >= MinSilence
    /\ speeches[n].start < Window * p
    /\ Window * w < speeches[n].end
    => Window * p - speeches[n].start <= MinSpeech
=============================================================================
