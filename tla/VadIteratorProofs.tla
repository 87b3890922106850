------------------------- MODULE VadIteratorProofs -------------------------
(***************************************************************************)
(* Theorems of VadIterator, for every window, every limit and every audio. *)
(*                                                                         *)
(* The variables of predict() agree and the segments are in order: neither *)
(* is inductive alone. That a segment opens after the one before needs     *)
(* that none ends after the window at hand, and that it does not end       *)
(* before it starts needs that no mark is older than it (Within).          *)
(*                                                                         *)
(* No speech is lost, since the marks at which a segment is cut have none  *)
(* after them (Unspoken). A long pause separates segments, since temp_end  *)
(* is where the pause at hand began (PauseKnown), and a segment that stays *)
(* open was too short when the pause began (OpenSeparates).                *)
(***************************************************************************)
EXTENDS VadIterator, SequenceTheorems, TLAPS

\* Positions are inside the part of the audio that predict() has seen.
Within ==
  /\ current_sample <= length
  /\ triggered => phase = "loop" /\ current_speech.start < current_sample
  /\ phase = "loop" =>
       \A n \in DOMAIN speeches : speeches[n].end <= current_sample

Inv == VadTypeOK /\ MarksAgree /\ SegmentsInOrder /\ Within

\* A new detector.
LEMMA InitInv == VadInit => Inv
<1> SUFFICES ASSUME VadInit PROVE Inv
  OBVIOUS
<1>1. VadTypeOK
  <2>1. NoSegment \in [start : Nat \cup {-1}, end : Nat \cup {-1}]
    BY DEF NoSegment
  <2>2. heard \in Seq(Classes) /\ speeches \in Seq([start : Nat, end : Nat])
    BY DEF VadInit
  <2>3. cuts \subseteq DOMAIN heard
    BY DEF VadInit
  <2>. QED BY <2>1, <2>2, <2>3 DEF VadInit, VadTypeOK
<1>2. MarksAgree
  BY VadAssumption DEF VadInit, MarksAgree, NoSegment
<1>3. SegmentsInOrder
  BY DEF VadInit, SegmentsInOrder
<1>4. Within
  BY DEF VadInit, Within
<1>. QED BY <1>1, <1>2, <1>3, <1>4 DEF Inv

\* reset_states, whatever the audio is.
LEMMA ResetInv ==
  ASSUME reset_states, phase' \in {"idle", "loop"}, length' \in Nat
  PROVE  Inv'
<1>1. VadTypeOK'
  <2>1. NoSegment \in [start : Nat \cup {-1}, end : Nat \cup {-1}]
    BY DEF NoSegment
  <2>2. heard' \in Seq(Classes) /\ speeches' \in Seq([start : Nat, end : Nat])
    BY DEF reset_states
  <2>3. cuts' \subseteq DOMAIN heard'
    BY DEF reset_states
  <2>. QED BY <2>1, <2>2, <2>3 DEF reset_states, VadTypeOK
<1>2. MarksAgree'
  BY VadAssumption DEF reset_states, MarksAgree, NoSegment
<1>3. SegmentsInOrder'
  BY DEF reset_states, SegmentsInOrder
<1>4. Within'
  BY DEF reset_states, Within
<1>. QED BY <1>1, <1>2, <1>3, <1>4 DEF Inv

\* What predict() does with every window.
LEMMA PredictFacts ==
  ASSUME Inv, NEW class \in Classes, Predict(class)
  PROVE  /\ phase = "loop" /\ phase' = "loop" /\ length' = length
         /\ current_sample \in Nat /\ length \in Nat
         /\ Position \in Nat /\ current_sample < Position /\ Position <= length
         /\ current_sample' = Position
         /\ heard' \in Seq(Classes) /\ cuts' \subseteq DOMAIN heard'
         /\ current_sample' = Window * Len(heard') /\ context' = Len(heard')
<1>1. /\ Window \in Nat /\ Window > 0
      /\ current_sample \in Nat /\ length \in Nat
  BY VadAssumption DEF Inv, VadTypeOK
<1>2. /\ phase = "loop" /\ phase' = "loop" /\ length' = length
      /\ current_sample' = Position /\ Position <= length
      /\ Position \in Nat /\ current_sample < Position
  BY <1>1 DEF Predict, MoreWindows, Position, audio
<1>3. /\ heard \in Seq(Classes) /\ cuts \subseteq DOMAIN heard
      /\ heard' = Append(heard, class)
  BY DEF Inv, VadTypeOK, Predict
<1>4. /\ heard' \in Seq(Classes) /\ Len(heard') = Len(heard) + 1
      /\ Len(heard) \in Nat
  BY <1>3
<1>5. cuts' \subseteq DOMAIN heard'
  BY <1>3, <1>4 DEF Predict
<1>6. current_sample' = Window * Len(heard')
  <2>1. current_sample = Window * Len(heard)
    BY DEF Inv, MarksAgree
  <2>2. Window * (Len(heard) + 1) = Window * Len(heard) + Window
    BY <1>1, <1>4
  <2>. QED BY <1>2, <1>4, <2>1, <2>2 DEF Position
<1>7. context' = Len(heard')
  BY <1>4 DEF Predict
<1>. QED BY <1>1, <1>2, <1>4, <1>5, <1>6, <1>7

\* The segments closed so far end somewhere.
LEMMA EndsAreNumbers ==
  ASSUME Inv
  PROVE  \A n \in DOMAIN speeches : speeches[n].end \in Nat
<1>1. speeches \in Seq([start : Nat, end : Nat])
  BY DEF Inv, VadTypeOK
<1>2. ASSUME NEW n \in DOMAIN speeches PROVE speeches[n].end \in Nat
  <2>1. n \in 1..Len(speeches)
    BY <1>1
  <2>2. speeches[n] \in [start : Nat, end : Nat]
    BY <1>1, <2>1, ElementOfSeq
  <2>. QED BY <2>2
<1>. QED BY <1>2

\* Closing the open segment at a later position inside the audio keeps the
\* order of the segments.
LEMMA ClosedInOrder ==
  ASSUME Inv, triggered, NEW end \in Nat,
         current_speech.start < end, end <= length, length' = length,
         speeches' = Closed(end)
  PROVE  /\ speeches' \in Seq([start : Nat, end : Nat])
         /\ speeches' # <<>> /\ speeches'[Len(speeches')].end = end
         /\ \A n \in DOMAIN speeches' : n < Len(speeches') => n \in DOMAIN speeches
                                          /\ speeches'[n] = speeches[n]
         /\ \A n \in DOMAIN speeches' :
              /\ speeches'[n].start < speeches'[n].end
              /\ speeches'[n].end <= length'
              /\ n > 1 => speeches'[n - 1].end <= speeches'[n].start
<1>. DEFINE new == [current_speech EXCEPT !.end = end]
<1>1. current_speech \in [start : Nat \cup {-1}, end : Nat \cup {-1}]
  BY DEF Inv, VadTypeOK
<1>2. current_speech.start \in Nat
  BY <1>1 DEF Inv, MarksAgree
<1>3. /\ new.start = current_speech.start /\ new.end = end
      /\ new \in [start : Nat, end : Nat]
  BY <1>1, <1>2
<1>. HIDE DEF new
<1>4. speeches \in Seq([start : Nat, end : Nat]) /\ speeches' = Append(speeches, new)
  BY DEF Inv, VadTypeOK, Closed, new
<1>5. /\ speeches' \in Seq([start : Nat, end : Nat])
      /\ Len(speeches) \in Nat /\ Len(speeches') = Len(speeches) + 1
      /\ DOMAIN speeches = 1..Len(speeches) /\ DOMAIN speeches' = 1..Len(speeches')
      /\ \A n \in 1..Len(speeches) : speeches'[n] = speeches[n]
      /\ speeches'[Len(speeches')] = new
  BY <1>3, <1>4
<1>6. ASSUME NEW n \in DOMAIN speeches'
      PROVE  /\ speeches'[n].start < speeches'[n].end
             /\ speeches'[n].end <= length'
             /\ n > 1 => speeches'[n - 1].end <= speeches'[n].start
  <2>1. CASE n = Len(speeches')
    <3>1. n > 1 => n - 1 = Len(speeches) /\ speeches # <<>> /\ n - 1 \in 1..Len(speeches)
      BY <2>1, <1>5
    <3>2. n > 1 => speeches'[n - 1].end <= current_speech.start
      BY <3>1, <1>5 DEF Inv, SegmentsInOrder
    <3>. QED BY <2>1, <3>2, <1>3, <1>5
  <2>2. CASE n # Len(speeches')
    <3>1. n \in DOMAIN speeches /\ (n > 1 => n - 1 \in 1..Len(speeches))
      BY <2>2, <1>5
    <3>. QED BY <3>1, <1>5 DEF Inv, SegmentsInOrder
  <2>. QED BY <2>1, <2>2
<1>. QED BY <1>3, <1>5, <1>6

\* A window that closes the open segment at a later position it has seen, and
\* leaves none open.
LEMMA ClosingInv ==
  ASSUME Inv, triggered, NEW class \in Classes, Predict(class),
         NEW end \in Nat, current_speech.start < end, end <= Position,
         speeches' = Closed(end), current_speech' = NoSegment,
         triggered' = FALSE, ClearMarks
  PROVE  Inv'
<1>1. /\ phase = "loop" /\ phase' = "loop" /\ length' = length
      /\ current_sample \in Nat /\ length \in Nat
      /\ Position \in Nat /\ current_sample < Position /\ Position <= length
      /\ current_sample' = Position
      /\ heard' \in Seq(Classes) /\ cuts' \subseteq DOMAIN heard'
      /\ current_sample' = Window * Len(heard') /\ context' = Len(heard')
  BY PredictFacts
<1>2. end <= length
  BY <1>1
<1>3. /\ speeches' \in Seq([start : Nat, end : Nat])
      /\ speeches' # <<>> /\ speeches'[Len(speeches')].end = end
      /\ \A n \in DOMAIN speeches' : n < Len(speeches') => n \in DOMAIN speeches
                                       /\ speeches'[n] = speeches[n]
      /\ \A n \in DOMAIN speeches' :
           /\ speeches'[n].start < speeches'[n].end
           /\ speeches'[n].end <= length'
           /\ n > 1 => speeches'[n - 1].end <= speeches'[n].start
  BY <1>1, <1>2, ClosedInOrder
<1>4. VadTypeOK'
  <2>1. NoSegment \in [start : Nat \cup {-1}, end : Nat \cup {-1}]
    BY DEF NoSegment
  <2>2. context' \in Nat
    BY <1>1
  <2>. QED BY <1>1, <1>3, <2>1, <2>2 DEF VadTypeOK, ClearMarks
<1>5. MarksAgree'
  BY <1>1 DEF MarksAgree, ClearMarks, NoSegment
<1>6. SegmentsInOrder'
  BY <1>3 DEF SegmentsInOrder
<1>7. Within'
  <2>1. ASSUME NEW n \in DOMAIN speeches' PROVE speeches'[n].end <= current_sample'
    <3>1. n \in 1..Len(speeches') /\ Len(speeches') \in Nat
      BY <1>3
    <3>2. CASE n = Len(speeches')
      BY <3>2, <1>1, <1>3
    <3>3. CASE n < Len(speeches')
      <4>1. n \in DOMAIN speeches /\ speeches'[n] = speeches[n]
        BY <3>3, <1>3
      <4>2. speeches[n].end <= current_sample
        BY <4>1, <1>1 DEF Inv, Within
      <4>3. speeches[n].end \in Nat
        BY <4>1, EndsAreNumbers
      <4>. QED BY <4>1, <4>2, <4>3, <1>1
    <3>. QED BY <3>1, <3>2, <3>3
  <2>. QED BY <2>1, <1>1 DEF Within
<1>. QED BY <1>4, <1>5, <1>6, <1>7 DEF Inv

\* A window that leaves the segments closed so far alone: what remains to be
\* shown is what it does with the open one and with the marks.
LEMMA KeepingInv ==
  ASSUME Inv, NEW class \in Classes, Predict(class), UNCHANGED speeches,
         triggered' \in BOOLEAN,
         temp_end' \in Nat, prev_end' \in Nat, next_start' \in Nat,
         current_speech' \in [start : Nat \cup {-1}, end : Nat \cup {-1}],
         triggered' <=> current_speech'.start >= 0,
         ~triggered' => temp_end' = 0 /\ prev_end' = 0 /\ next_start' = 0,
         \A mark \in {temp_end', prev_end', next_start'} \ {0} :
           current_speech'.start < mark /\ mark <= Position,
         triggered' => current_speech'.start <= current_sample,
         triggered' => \/ triggered /\ current_speech'.start = current_speech.start
                       \/ current_speech'.start = current_sample
  PROVE  Inv'
<1>1. /\ phase = "loop" /\ phase' = "loop" /\ length' = length
      /\ current_sample \in Nat /\ length \in Nat
      /\ Position \in Nat /\ current_sample < Position /\ Position <= length
      /\ current_sample' = Position
      /\ heard' \in Seq(Classes) /\ cuts' \subseteq DOMAIN heard'
      /\ current_sample' = Window * Len(heard') /\ context' = Len(heard')
  BY PredictFacts
<1>2. VadTypeOK'
  <2>1. context' \in Nat
    BY <1>1
  <2>. QED BY <1>1, <2>1 DEF VadTypeOK, Inv
<1>3. MarksAgree'
  BY <1>1 DEF MarksAgree
<1>4. \A n \in DOMAIN speeches : speeches[n].end \in Nat
                                /\ speeches[n].end <= current_sample
  BY <1>1, EndsAreNumbers DEF Inv, Within
<1>5. speeches # <<>> => Len(speeches) \in DOMAIN speeches
  BY DEF Inv, VadTypeOK
<1>6. SegmentsInOrder'
  BY <1>1, <1>4, <1>5 DEF Inv, SegmentsInOrder
<1>7. Within'
  BY <1>1, <1>4 DEF Within
<1>. QED BY <1>2, <1>3, <1>6, <1>7 DEF Inv

-----------------------------------------------------------------------------
(* The actions.                                                            *)

LEMMA SpeechInv == ASSUME Inv, Speech PROVE Inv'
<1>1. Predict("speech") /\ "speech" \in Classes
  BY DEF Speech, Classes
<1>2. /\ current_sample \in Nat /\ Position \in Nat /\ current_sample < Position
  BY <1>1, PredictFacts
<1>3. /\ temp_end \in Nat /\ prev_end \in Nat /\ next_start \in Nat
      /\ current_speech \in [start : Nat \cup {-1}, end : Nat \cup {-1}]
  BY DEF Inv, VadTypeOK
<1>4. next_start' \in {next_start, current_sample} /\ (~triggered => next_start' = next_start)
  BY DEF Speech, WindowStart, Inv, MarksAgree
<1>5. current_speech'.start = (IF triggered THEN current_speech.start ELSE current_sample)
  BY <1>3 DEF Speech, WindowStart
<1>6. current_speech' \in [start : Nat \cup {-1}, end : Nat \cup {-1}]
  BY <1>2, <1>3 DEF Speech, WindowStart
<1>7. current_speech'.start >= 0 /\ current_speech'.start <= current_sample
  BY <1>2, <1>5, <1>6 DEF Inv, MarksAgree, Within
<1>8. \A mark \in {temp_end', prev_end', next_start'} \ {0} :
        current_speech'.start < mark /\ mark <= Position
  <2>1. CASE triggered
    <3>1. current_speech'.start = current_speech.start /\ current_speech.start < current_sample
      BY <2>1, <1>5 DEF Inv, Within
    <3>2. temp_end' = 0 /\ prev_end' = prev_end
      BY DEF Speech
    <3>3. prev_end # 0 => current_speech.start < prev_end /\ prev_end <= current_sample
      BY <1>3 DEF Inv, MarksAgree
    <3>4. next_start # 0 => current_speech.start < next_start /\ next_start <= current_sample
      BY <1>3 DEF Inv, MarksAgree
    <3>. QED BY <1>2, <1>3, <1>4, <1>6, <3>1, <3>2, <3>3, <3>4
  <2>2. CASE ~triggered
    BY <2>2, <1>4 DEF Speech, Inv, MarksAgree
  <2>. QED BY <2>1, <2>2
<1>9. next_start' \in Nat
  BY <1>2, <1>3, <1>4
<1>. QED
  BY <1>1, <1>3, <1>5, <1>6, <1>7, <1>8, <1>9, KeepingInv DEF Speech

\* The window that closes at prev_end either leaves nothing open or goes on
\* from next_start, which a segment that is cut at prev_end cannot overlap.
LEMMA CutAtPauseInv ==
  ASSUME Inv, NEW class \in Classes, CutAtPause(class) PROVE Inv'
<1>1. Predict(class) /\ triggered /\ speeches' = Closed(prev_end) /\ ClearMarks
  BY DEF CutAtPause, TooLong
<1>2. /\ phase = "loop" /\ phase' = "loop" /\ length' = length
      /\ current_sample \in Nat /\ length \in Nat
      /\ Position \in Nat /\ current_sample < Position /\ Position <= length
      /\ current_sample' = Position
      /\ heard' \in Seq(Classes) /\ cuts' \subseteq DOMAIN heard'
      /\ current_sample' = Window * Len(heard') /\ context' = Len(heard')
  BY <1>1, PredictFacts
<1>3. /\ prev_end \in Nat /\ prev_end # 0 /\ next_start \in Nat
      /\ current_speech \in [start : Nat \cup {-1}, end : Nat \cup {-1}]
  BY DEF CutAtPause, Inv, VadTypeOK
<1>4. /\ current_speech.start < prev_end /\ prev_end <= current_sample
      /\ next_start # 0 => next_start <= current_sample
  BY <1>3 DEF Inv, MarksAgree
<1>5. prev_end <= Position /\ prev_end <= length
  BY <1>2, <1>3, <1>4
<1>6. CASE triggered' = FALSE /\ current_speech' = NoSegment
  BY <1>1, <1>3, <1>4, <1>5, <1>6, ClosingInv
<1>7. CASE /\ next_start >= prev_end
           /\ current_speech' = [NoSegment EXCEPT !.start = next_start]
           /\ triggered' = triggered
  <2>1. /\ speeches' \in Seq([start : Nat, end : Nat])
        /\ speeches' # <<>> /\ speeches'[Len(speeches')].end = prev_end
        /\ \A n \in DOMAIN speeches' : n < Len(speeches') => n \in DOMAIN speeches
                                         /\ speeches'[n] = speeches[n]
        /\ \A n \in DOMAIN speeches' :
             /\ speeches'[n].start < speeches'[n].end
             /\ speeches'[n].end <= length'
             /\ n > 1 => speeches'[n - 1].end <= speeches'[n].start
    BY <1>1, <1>2, <1>3, <1>4, <1>5, ClosedInOrder
  <2>2. /\ current_speech' \in [start : Nat \cup {-1}, end : Nat \cup {-1}]
        /\ current_speech'.start = next_start
    BY <1>3, <1>7 DEF NoSegment
  <2>3. next_start # 0 /\ next_start < Position
    BY <1>2, <1>3, <1>4, <1>7
  <2>4. VadTypeOK'
    <3>1. context' \in Nat
      BY <1>2
    <3>. QED BY <1>1, <1>2, <1>7, <2>1, <2>2, <3>1 DEF VadTypeOK, ClearMarks
  <2>5. MarksAgree'
    BY <1>1, <1>2, <1>3, <1>7, <2>2 DEF MarksAgree, ClearMarks
  <2>6. SegmentsInOrder'
    BY <1>7, <2>1, <2>2 DEF SegmentsInOrder
  <2>7. Within'
    <3>1. ASSUME NEW n \in DOMAIN speeches' PROVE speeches'[n].end <= current_sample'
      <4>1. n \in 1..Len(speeches') /\ Len(speeches') \in Nat
        BY <2>1
      <4>2. CASE n = Len(speeches')
        BY <4>2, <1>2, <1>5, <2>1
      <4>3. CASE n < Len(speeches')
        <5>1. n \in DOMAIN speeches /\ speeches'[n] = speeches[n]
          BY <4>3, <2>1
        <5>2. speeches[n].end <= current_sample /\ speeches[n].end \in Nat
          BY <5>1, <1>2, EndsAreNumbers DEF Inv, Within
        <5>. QED BY <5>1, <5>2, <1>2
      <4>. QED BY <4>1, <4>2, <4>3
    <3>. QED BY <3>1, <1>2, <2>2, <2>3 DEF Within
  <2>. QED BY <2>4, <2>5, <2>6, <2>7 DEF Inv
<1>. QED BY <1>6, <1>7 DEF CutAtPause

LEMMA CutHereInv ==
  ASSUME Inv, NEW class \in Classes, CutHere(class) PROVE Inv'
<1>1. /\ Predict(class) /\ triggered /\ speeches' = Closed(Position) /\ ClearMarks
      /\ current_speech' = NoSegment /\ triggered' = FALSE
  BY DEF CutHere, TooLong
<1>2. Position \in Nat /\ current_sample \in Nat /\ current_sample < Position
  BY <1>1, PredictFacts
<1>3. current_speech.start < Position
  <2>1. current_speech.start \in Nat \cup {-1}
    BY DEF Inv, VadTypeOK
  <2>. QED BY <1>1, <1>2, <2>1 DEF Inv, Within
<1>4. Position <= Position
  BY <1>2
<1>. QED BY <1>1, <1>2, <1>3, <1>4, ClosingInv, Zenon

\* Where a pause began lies in the open segment and is not its start.
LEMMA EndOfSpeechFacts ==
  ASSUME Inv, triggered, NEW class \in Classes, Predict(class)
  PROVE  /\ EndOfSpeech \in Nat /\ EndOfSpeech # 0
         /\ current_speech.start < EndOfSpeech /\ EndOfSpeech <= Position
<1>1. Position \in Nat /\ current_sample \in Nat /\ current_sample < Position
  BY PredictFacts
<1>2. current_speech.start \in Nat \cup {-1} /\ temp_end \in Nat
  BY DEF Inv, VadTypeOK
<1>3. current_speech.start < current_sample
  BY DEF Inv, Within
<1>4. temp_end # 0 => current_speech.start < temp_end /\ temp_end <= current_sample
  BY DEF Inv, MarksAgree
<1>. QED BY <1>1, <1>2, <1>3, <1>4 DEF EndOfSpeech

LEMMA SegmentEndsInv == ASSUME Inv, SegmentEnds PROVE Inv'
<1>1. /\ Predict("silence") /\ "silence" \in Classes
      /\ triggered /\ speeches' = Closed(EndOfSpeech) /\ ClearMarks
      /\ current_speech' = NoSegment /\ triggered' = FALSE
  BY DEF SegmentEnds, Classes
<1>. QED BY <1>1, EndOfSpeechFacts, ClosingInv

LEMMA PauseInv == ASSUME Inv, Pause PROVE Inv'
<1>1. Predict("silence") /\ "silence" \in Classes /\ triggered
  BY DEF Pause, Classes
<1>2. /\ EndOfSpeech \in Nat
      /\ current_speech.start < EndOfSpeech /\ EndOfSpeech <= Position
  BY <1>1, EndOfSpeechFacts
<1>3. Position \in Nat /\ current_sample \in Nat /\ current_sample < Position
  BY <1>1, PredictFacts
<1>4. /\ temp_end \in Nat /\ prev_end \in Nat /\ next_start \in Nat
      /\ current_speech \in [start : Nat \cup {-1}, end : Nat \cup {-1}]
  BY DEF Inv, VadTypeOK
<1>5. /\ temp_end' = EndOfSpeech /\ prev_end' \in {prev_end, EndOfSpeech}
      /\ next_start' = next_start /\ triggered' = triggered /\ speeches' = speeches
  BY DEF Pause
<1>6. /\ current_speech' \in [start : Nat \cup {-1}, end : Nat \cup {-1}]
      /\ current_speech'.start = current_speech.start
  BY <1>2, <1>4 DEF Pause
<1>7. /\ prev_end # 0 => current_speech.start < prev_end /\ prev_end <= current_sample
      /\ next_start # 0 => current_speech.start < next_start /\ next_start <= current_sample
  BY DEF Inv, MarksAgree
<1>8. \A mark \in {temp_end', prev_end', next_start'} \ {0} :
        current_speech'.start < mark /\ mark <= Position
  BY <1>2, <1>3, <1>4, <1>5, <1>6, <1>7
<1>9. current_speech.start >= 0 /\ current_speech.start <= current_sample
  BY <1>1, <1>3, <1>4 DEF Inv, MarksAgree, Within
<1>10. temp_end' \in Nat /\ prev_end' \in Nat /\ next_start' \in Nat
  BY <1>2, <1>4, <1>5
<1>. QED BY <1>1, <1>5, <1>6, <1>8, <1>9, <1>10, KeepingInv

\* Between and Quiet change neither marks nor segments.
LEMMA UndecidedInv ==
  ASSUME Inv, NEW class \in Classes, Predict(class), UNCHANGED <<marks, segments>>
  PROVE  Inv'
<1>1. Position \in Nat /\ current_sample \in Nat /\ current_sample < Position
  BY PredictFacts
<1>2. /\ temp_end' = temp_end /\ prev_end' = prev_end /\ next_start' = next_start
      /\ triggered' = triggered /\ speeches' = speeches /\ current_speech' = current_speech
  BY DEF marks, segments
<1>3. /\ temp_end \in Nat /\ prev_end \in Nat /\ next_start \in Nat
      /\ triggered \in BOOLEAN
      /\ current_speech \in [start : Nat \cup {-1}, end : Nat \cup {-1}]
  BY DEF Inv, VadTypeOK
<1>4. \A mark \in {temp_end, prev_end, next_start} \ {0} :
        current_speech.start < mark /\ mark <= Position
  <2>1. \A mark \in {temp_end, prev_end, next_start} \ {0} :
          current_speech.start < mark /\ mark <= current_sample /\ mark \in Nat
    BY <1>3 DEF Inv, MarksAgree
  <2>. QED BY <2>1, <1>1
<1>5. triggered => current_speech.start <= current_sample
  BY <1>1, <1>3 DEF Inv, Within
<1>6. /\ triggered <=> current_speech.start >= 0
      /\ ~triggered => temp_end = 0 /\ prev_end = 0 /\ next_start = 0
  BY DEF Inv, MarksAgree
<1>. QED BY <1>2, <1>3, <1>4, <1>5, <1>6, KeepingInv

LEMMA ProcessEndsInv == ASSUME Inv, ProcessEnds PROVE Inv'
<1>1. /\ phase = "loop" /\ phase' = "idle" /\ length' = length /\ heard' = heard
      /\ cuts' = cuts /\ context' = context /\ current_sample' = current_sample
  BY DEF ProcessEnds
<1>2. /\ length \in Nat /\ current_sample \in Nat /\ current_sample <= length
      /\ current_speech \in [start : Nat \cup {-1}, end : Nat \cup {-1}]
  BY DEF Inv, VadTypeOK, Within
<1>3. CASE ~OpenAtEnd /\ UNCHANGED <<marks, segments>>
  <2>1. ~triggered
    BY <1>3 DEF OpenAtEnd, Inv, MarksAgree
  <2>2. VadTypeOK'
    BY <1>1, <1>3 DEF Inv, VadTypeOK, marks, segments
  <2>3. MarksAgree'
    BY <1>1, <1>3 DEF Inv, MarksAgree, marks, segments
  <2>4. SegmentsInOrder'
    BY <1>1, <1>3 DEF Inv, SegmentsInOrder, marks, segments
  <2>5. Within'
    BY <1>1, <1>3, <2>1 DEF Inv, Within, marks, segments
  <2>. QED BY <2>2, <2>3, <2>4, <2>5 DEF Inv
<1>4. CASE /\ OpenAtEnd /\ speeches' = Closed(length) /\ current_speech' = NoSegment
           /\ triggered' = FALSE /\ ClearMarks
  <2>1. triggered /\ current_speech.start < length
    <3>1. triggered
      BY <1>4 DEF OpenAtEnd, Inv, MarksAgree
    <3>. QED BY <3>1, <1>2 DEF Inv, Within
  <2>2. /\ speeches' \in Seq([start : Nat, end : Nat])
        /\ \A n \in DOMAIN speeches' :
             /\ speeches'[n].start < speeches'[n].end
             /\ speeches'[n].end <= length'
             /\ n > 1 => speeches'[n - 1].end <= speeches'[n].start
    BY <1>1, <1>2, <1>4, <2>1, ClosedInOrder, SMTT(20)
  <2>3. VadTypeOK'
    <3>1. NoSegment \in [start : Nat \cup {-1}, end : Nat \cup {-1}]
      BY DEF NoSegment
    <3>. QED BY <1>1, <1>4, <2>2, <3>1 DEF Inv, VadTypeOK, ClearMarks
  <2>4. MarksAgree'
    BY <1>1, <1>4 DEF Inv, MarksAgree, ClearMarks, NoSegment
  <2>5. SegmentsInOrder'
    BY <1>4, <2>2 DEF SegmentsInOrder
  <2>6. Within'
    BY <1>1, <1>2, <1>4 DEF Within
  <2>. QED BY <2>3, <2>4, <2>5, <2>6 DEF Inv
<1>. QED BY <1>3, <1>4 DEF ProcessEnds

LEMMA NextInv == Inv /\ [VadNext]_vadVars => Inv'
<1> SUFFICES ASSUME Inv, [VadNext]_vadVars PROVE Inv'
  OBVIOUS
<1>0. phase \in {"idle", "loop"} /\ length \in Nat
  BY DEF Inv, VadTypeOK
<1>1. CASE Process
  <2>1. length' \in Nat
    BY <1>1, VadAssumption DEF Process
  <2>. QED BY <1>1, <2>1, ResetInv DEF Process
<1>2. CASE Speech
  BY <1>2, SpeechInv
<1>3. CASE \E class \in Classes : CutAtPause(class) \/ CutHere(class)
  BY <1>3, CutAtPauseInv, CutHereInv
<1>4. CASE Between
  BY <1>4, UndecidedInv DEF Between, Classes
<1>5. CASE Quiet
  BY <1>5, UndecidedInv DEF Quiet, Classes
<1>6. CASE Pause
  BY <1>6, PauseInv
<1>7. CASE SegmentEnds
  BY <1>7, SegmentEndsInv
<1>8. CASE ProcessEnds
  BY <1>8, ProcessEndsInv
<1>9. CASE Reset
  BY <1>0, <1>9, ResetInv DEF Reset, audio
<1>10. CASE UNCHANGED vadVars
  <2>1. /\ UNCHANGED <<phase, length, heard, cuts, context, temp_end, prev_end, next_start>>
        /\ UNCHANGED <<current_sample, speeches, current_speech, triggered>>
    BY <1>10 DEF vadVars, audio, marks, segments
  <2>2. VadTypeOK' /\ MarksAgree'
    BY <2>1 DEF Inv, VadTypeOK, MarksAgree
  <2>3. SegmentsInOrder' /\ Within'
    BY <2>1 DEF Inv, SegmentsInOrder, Within
  <2>. QED BY <2>2, <2>3 DEF Inv
<1>. QED
  BY <1>1, <1>2, <1>3, <1>4, <1>5, <1>6, <1>7, <1>8, <1>9, <1>10 DEF VadNext

LEMMA Invariance == VadSpec => []Inv
<1>. QED BY InitInv, NextInv, PTL DEF VadSpec

\* The variables of predict() keep their types, for every window, every limit
\* and every length of the audio.
THEOREM TypeCorrect == VadSpec => []VadTypeOK
<1>1. Inv => VadTypeOK
  BY DEF Inv
<1>. QED BY Invariance, <1>1, PTL

\* Whatever predict() is given, triggered, the open segment and the three
\* positions it remembers agree: none is left over from an earlier segment.
THEOREM NoStaleMark == VadSpec => []MarksAgree
<1>1. Inv => MarksAgree
  BY DEF Inv
<1>. QED BY Invariance, <1>1, PTL

\* The segments that predict() and process() report are not empty, do not
\* overlap, are in order and lie in the audio, however often one was cut.
THEOREM SegmentsAreOrdered == VadSpec => []SegmentsInOrder
<1>1. Inv => SegmentsInOrder
  BY DEF Inv
<1>. QED BY Invariance, <1>1, PTL

-----------------------------------------------------------------------------
(* No speech is lost.                                                      *)

\* Where window w begins and ends, and the windows of speech.
Begins(w) == Window * (w - 1)
Ends(w) == Window * w
Spoken == {w \in DOMAIN heard : heard[w] = "speech"}

InOpen(w) == triggered /\ current_speech.start <= Begins(w)
InClosed(w) ==
  \E n \in DOMAIN speeches : speeches[n].start <= Begins(w) /\ Ends(w) <= speeches[n].end

\* The marks say where there is no speech: none after temp_end, and none
\* between prev_end and next_start. That is why a segment may be cut there.
Unspoken ==
  /\ \A w \in Spoken :
       /\ temp_end # 0 => Ends(w) <= temp_end
       /\ prev_end # 0 => \/ Ends(w) <= prev_end
                          \/ prev_end <= next_start /\ next_start <= Begins(w)
  /\ prev_end # 0 /\ next_start < prev_end => temp_end # 0

CoverInv == Unspoken /\ \A w \in Spoken : InOpen(w) \/ InClosed(w)

\* Windows follow each other up to the current sample.
LEMMA Windows ==
  ASSUME Inv
  PROVE  /\ DOMAIN heard = 1..Len(heard) /\ Len(heard) \in Nat
         /\ \A w \in DOMAIN heard :
              /\ w \in Nat /\ Begins(w) \in Nat /\ Ends(w) \in Nat
              /\ Begins(w) < Ends(w) /\ Ends(w) <= current_sample
         /\ current_sample \in Nat
<1>1. /\ DOMAIN heard = 1..Len(heard) /\ Len(heard) \in Nat
      /\ current_sample = Window * Len(heard) /\ current_sample \in Nat
      /\ Window \in Nat /\ Window > 0
  BY VadAssumption DEF Inv, VadTypeOK, MarksAgree
<1>2. ASSUME NEW w \in 1..Len(heard)
      PROVE  /\ w \in Nat /\ Begins(w) \in Nat /\ Ends(w) \in Nat
             /\ Begins(w) < Ends(w) /\ Ends(w) <= current_sample
  <2>1. w \in Nat /\ w - 1 \in Nat /\ Len(heard) - w \in Nat
    BY <1>1
  <2>2. \A a, b \in Nat : a * b \in Nat
    OBVIOUS
  <2>3. Window * w \in Nat /\ Window * (w - 1) \in Nat
        /\ Window * (Len(heard) - w) \in Nat
    BY <1>1, <2>1, <2>2
  <2>4. /\ Window * w = Window * (w - 1) + Window
        /\ Window * Len(heard) = Window * w + Window * (Len(heard) - w)
    BY <1>1, <2>1
  <2>. QED BY <1>1, <2>1, <2>3, <2>4 DEF Begins, Ends
<1>. QED BY <1>1, <1>2

\* The window that predict() is given is the one after those.
LEMMA NextWindow ==
  ASSUME Inv, NEW class \in Classes, Predict(class)
  PROVE  LET last == Len(heard) + 1
         IN  /\ Begins(last) = current_sample /\ Ends(last) = Position
             /\ DOMAIN heard' = DOMAIN heard \cup {last} /\ last \notin DOMAIN heard
             /\ heard'[last] = class
             /\ \A w \in DOMAIN heard : heard'[w] = heard[w]
             /\ Spoken' = IF class = "speech" THEN Spoken \cup {last} ELSE Spoken
             /\ cuts' \subseteq cuts \cup {last} /\ cuts \subseteq cuts'
             /\ cuts \subseteq DOMAIN heard
             /\ class # "speech" /\ TooLong => last \in cuts'
<1> DEFINE last == Len(heard) + 1
<1>1. /\ heard \in Seq(Classes) /\ cuts \subseteq DOMAIN heard
      /\ heard' = Append(heard, class)
      /\ cuts' = IF class # "speech" /\ TooLong THEN cuts \cup {last} ELSE cuts
      /\ current_sample = Window * Len(heard) /\ Window \in Nat
  BY VadAssumption DEF Inv, VadTypeOK, MarksAgree, Predict
<1>2. /\ DOMAIN heard = 1..Len(heard) /\ DOMAIN heard' = 1..last
      /\ Len(heard) \in Nat /\ heard'[last] = class
      /\ \A w \in DOMAIN heard : heard'[w] = heard[w]
  BY <1>1
<1>3. Window * last = Window * Len(heard) + Window /\ last - 1 = Len(heard)
  BY <1>1, <1>2
<1>4. Begins(last) = current_sample /\ Ends(last) = Position
  BY <1>1, <1>3 DEF Begins, Ends, Position
<1>5. DOMAIN heard' = DOMAIN heard \cup {last} /\ last \notin DOMAIN heard
  BY <1>2
<1> HIDE DEF last
<1>6. Spoken' = IF class = "speech" THEN Spoken \cup {last} ELSE Spoken
  BY <1>2, <1>5 DEF Spoken
<1>. QED BY <1>1, <1>2, <1>4, <1>5, <1>6 DEF last

\* What a closed segment covers, and that the others cover what they did.
LEMMA ClosedCovers ==
  ASSUME Inv, NEW end \in Nat, speeches' = Closed(end)
  PROVE  \A w : /\ InClosed(w) => InClosed(w)'
                /\ InOpen(w) /\ Ends(w) <= end => InClosed(w)'
<1> DEFINE new == [current_speech EXCEPT !.end = end]
<1>1. /\ new.start = current_speech.start /\ new.end = end
      /\ current_speech.start \in Nat \cup {-1}
      /\ triggered => new \in [start : Nat, end : Nat]
  BY DEF Inv, VadTypeOK, MarksAgree
<1>2. speeches' = Append(speeches, new) /\ speeches \in Seq([start : Nat, end : Nat])
  BY DEF Closed, Inv, VadTypeOK
<1> HIDE DEF new
<1>3. /\ DOMAIN speeches = 1..Len(speeches) /\ Len(speeches) \in Nat
      /\ DOMAIN speeches' = 1..Len(speeches) + 1
      /\ \A n \in DOMAIN speeches : speeches'[n] = speeches[n] /\ n \in DOMAIN speeches'
      /\ Len(speeches) + 1 \in DOMAIN speeches' /\ speeches'[Len(speeches) + 1] = new
  BY <1>2
<1>4. ASSUME NEW w, InClosed(w) PROVE InClosed(w)'
  BY <1>3, <1>4 DEF InClosed, Begins, Ends
<1>5. ASSUME NEW w, InOpen(w), Ends(w) <= end PROVE InClosed(w)'
  BY <1>1, <1>3, <1>5 DEF InClosed, InOpen, Begins, Ends
<1>. QED BY <1>4, <1>5

\* It is inductive, action by action.
LEMMA CoverStep == Inv /\ CoverInv /\ [VadNext]_vadVars => CoverInv'
<1> SUFFICES ASSUME Inv, CoverInv, [VadNext]_vadVars PROVE CoverInv'
  OBVIOUS
<1> DEFINE last == Len(heard) + 1
<1>0. /\ temp_end \in Nat /\ prev_end \in Nat /\ next_start \in Nat
      /\ current_sample \in Nat /\ length \in Nat
      /\ prev_end <= current_sample /\ next_start <= current_sample
      /\ temp_end <= current_sample /\ current_sample <= length
      /\ \A w \in Spoken : /\ Begins(w) \in Nat /\ Ends(w) \in Nat
                           /\ Begins(w) < Ends(w) /\ Ends(w) <= current_sample
      /\ current_speech.start \in Nat \cup {-1}
      /\ triggered => current_speech.start < current_sample
  <2>1. /\ temp_end \in Nat /\ prev_end \in Nat /\ next_start \in Nat
        /\ current_sample \in Nat /\ length \in Nat
        /\ current_speech.start \in Nat \cup {-1}
    BY DEF Inv, VadTypeOK
  <2>2. \A m \in {temp_end, prev_end, next_start} : m <= current_sample
    BY <2>1 DEF Inv, MarksAgree
  <2>3. current_sample <= length /\ (triggered => current_speech.start < current_sample)
    BY DEF Inv, Within
  <2>. QED BY <2>1, <2>2, <2>3, Windows DEF Spoken
<1>1. ASSUME NEW class \in Classes, Predict(class)
      PROVE  /\ Position \in Nat /\ current_sample < Position
             /\ Begins(last) = current_sample /\ Ends(last) = Position
             /\ Spoken' = IF class = "speech" THEN Spoken \cup {last} ELSE Spoken
  BY <1>1, PredictFacts, NextWindow
<1>2. ASSUME NEW w \in Spoken PROVE InOpen(w) \/ InClosed(w)
  BY DEF CoverInv
<1>3. ASSUME UNCHANGED <<marks, segments>>, Spoken' = Spoken PROVE CoverInv'
  BY <1>3 DEF CoverInv, Unspoken, InOpen, InClosed, marks, segments, Begins, Ends
\* Segments that begin anew.
<1>4. ASSUME reset_states PROVE CoverInv'
  BY <1>4 DEF reset_states, CoverInv, Unspoken, Spoken
\* The segment is closed at a position up to which it has all speech.
<1>5. ASSUME NEW end \in Nat, speeches' = Closed(end), ClearMarks, Spoken' = Spoken,
             \A w \in Spoken : Ends(w) <= end \/ InOpen(w)'
      PROVE  CoverInv'
  <2>1. \A w \in Spoken : InOpen(w)' \/ InClosed(w)'
    BY <1>2, <1>5, ClosedCovers
  <2>2. Unspoken'
    BY <1>5 DEF Unspoken, ClearMarks
  <2>. QED BY <1>5, <2>1, <2>2 DEF CoverInv
<1>6. CASE Speech
  <2>1. Predict("speech") /\ "speech" \in Classes
    BY <1>6 DEF Speech, Classes
  <2>2. /\ Begins(last) = current_sample /\ Ends(last) = Position
        /\ Spoken' = Spoken \cup {last} /\ Position \in Nat /\ current_sample < Position
    BY <1>1, <2>1
  <2>3. /\ temp_end' = 0 /\ prev_end' = prev_end /\ speeches' = speeches
        /\ next_start' = IF temp_end # 0 /\ next_start < prev_end
                         THEN current_sample ELSE next_start
        /\ triggered' = TRUE
        /\ current_speech'.start = IF triggered THEN current_speech.start
                                   ELSE current_sample
    <3>1. current_speech \in [start : Nat \cup {-1}, end : Nat \cup {-1}]
      BY DEF Inv, VadTypeOK
    <3>. QED BY <1>6, <3>1 DEF Speech, MovesNextStart, WindowStart
  <2> HIDE DEF last
  <2>4. ASSUME NEW w, Begins(w) = current_sample PROVE InOpen(w)'
    <3>1. current_speech'.start <= current_sample
      BY <1>0, <2>3
    <3>. QED BY <2>3, <2>4, <3>1 DEF InOpen, Begins
  <2>5. \A w \in Spoken : InOpen(w)' \/ InClosed(w)'
    BY <1>2, <2>3 DEF InOpen, InClosed, Begins, Ends
  <2>6. prev_end # 0 => prev_end <= next_start'
    BY <1>0, <2>3 DEF CoverInv, Unspoken
  <2>7. prev_end # 0 => next_start' <= Begins(last)
    BY <1>0, <2>2, <2>3
  <2>8. \A w \in Spoken : prev_end # 0 =>
          \/ Ends(w) <= prev_end
          \/ prev_end <= next_start' /\ next_start' <= Begins(w)
    <3> SUFFICES ASSUME NEW w \in Spoken, prev_end # 0, ~(Ends(w) <= prev_end)
                 PROVE  next_start' <= Begins(w)
      BY <2>6
    <3>1. prev_end <= next_start /\ next_start <= Begins(w)
      BY DEF CoverInv, Unspoken
    <3>. QED BY <1>0, <2>3, <3>1
  <2>9. Unspoken'
    <3>1. \A w \in Spoken' : prev_end' # 0 =>
            \/ Ends(w) <= prev_end'
            \/ prev_end' <= next_start' /\ next_start' <= Begins(w)
      BY <2>2, <2>3, <2>6, <2>7, <2>8
    <3>2. prev_end' # 0 => ~(next_start' < prev_end')
      <4>1. next_start' \in Nat
        BY <1>0, <2>3
      <4>. QED BY <1>0, <2>3, <2>6, <4>1
    <3>. QED BY <2>3, <3>1, <3>2 DEF Unspoken, Begins, Ends
  <2>10. \A w \in Spoken' : InOpen(w)' \/ InClosed(w)'
    BY <2>2, <2>4, <2>5
  <2>. QED BY <2>9, <2>10 DEF CoverInv
<1>7. ASSUME NEW class \in Classes, CutAtPause(class) PROVE CoverInv'
  <2>1. /\ Spoken' = Spoken /\ ClearMarks /\ speeches' = Closed(prev_end) /\ prev_end # 0
    BY <1>0, <1>1, <1>7 DEF CutAtPause
  <2>2. CASE next_start < prev_end
    <3>1. \A w \in Spoken : Ends(w) <= prev_end
      BY <1>0, <2>1, <2>2 DEF CoverInv, Unspoken
    <3>. QED BY <1>0, <1>5, <2>1, <3>1
  <2>3. CASE ~(next_start < prev_end)
    <3>1. /\ triggered' = triggered /\ triggered
          /\ current_speech'.start = next_start
      BY <1>7, <2>3 DEF CutAtPause, NoSegment, TooLong
    <3>2. \A w \in Spoken : Ends(w) <= prev_end \/ InOpen(w)'
      BY <2>1, <3>1 DEF CoverInv, Unspoken, InOpen, Begins
    <3>. QED BY <1>0, <1>5, <2>1, <3>2
  <2>. QED BY <2>2, <2>3
<1>8. ASSUME NEW class \in Classes, CutHere(class) PROVE CoverInv'
  <2>1. /\ Spoken' = Spoken /\ ClearMarks /\ speeches' = Closed(Position)
        /\ Position \in Nat /\ current_sample < Position
    BY <1>1, <1>8 DEF CutHere
  <2>2. \A w \in Spoken : Ends(w) <= Position
    BY <1>0, <2>1
  <2>. QED BY <1>5, <2>1, <2>2
<1>9. CASE Between \/ Quiet
  BY <1>1, <1>3, <1>9 DEF Between, Quiet, Classes
<1>10. CASE Pause
  <2>1. Predict("silence") /\ "silence" \in Classes
    BY <1>10 DEF Pause, Classes
  <2>2. /\ Spoken' = Spoken /\ Position \in Nat /\ current_sample < Position
        /\ temp_end' = EndOfSpeech /\ prev_end' \in {prev_end, EndOfSpeech}
        /\ next_start' = next_start /\ triggered' = triggered /\ speeches' = speeches
    BY <1>1, <1>10, <2>1 DEF Pause
  <2>3. current_speech'.start = current_speech.start
    <3>1. current_speech \in [start : Nat \cup {-1}, end : Nat \cup {-1}]
      BY DEF Inv, VadTypeOK
    <3>. QED BY <1>10, <3>1 DEF Pause
  <2>4. /\ EndOfSpeech \in Nat /\ EndOfSpeech # 0
        /\ \A w \in Spoken : Ends(w) <= EndOfSpeech
    BY <1>0, <2>2 DEF EndOfSpeech, CoverInv, Unspoken
  <2>5. Unspoken'
    BY <2>2, <2>4 DEF CoverInv, Unspoken, Begins, Ends
  <2>6. \A w \in Spoken : InOpen(w)' \/ InClosed(w)'
    BY <1>2, <2>2, <2>3 DEF InOpen, InClosed, Begins, Ends
  <2>. QED BY <2>2, <2>5, <2>6 DEF CoverInv
<1>11. CASE SegmentEnds
  <2>1. Predict("silence") /\ "silence" \in Classes
    BY <1>11 DEF SegmentEnds, Classes
  <2>2. /\ Spoken' = Spoken /\ Position \in Nat /\ current_sample < Position
        /\ ClearMarks /\ speeches' = Closed(EndOfSpeech)
    BY <1>1, <1>11, <2>1 DEF SegmentEnds
  <2>3. /\ EndOfSpeech \in Nat
        /\ \A w \in Spoken : Ends(w) <= EndOfSpeech
    BY <1>0, <2>2 DEF EndOfSpeech, CoverInv, Unspoken
  <2>. QED BY <1>5, <2>2, <2>3
<1>12. CASE ProcessEnds
  <2>1. Spoken' = Spoken
    BY <1>12 DEF ProcessEnds, Spoken
  <2>2. CASE UNCHANGED <<marks, segments>>
    BY <1>3, <2>1, <2>2
  <2>3. CASE speeches' = Closed(length) /\ ClearMarks
    <3>1. \A w \in Spoken : Ends(w) <= length
      BY <1>0
    <3>. QED BY <1>0, <1>5, <2>1, <2>3, <3>1
  <2>. QED BY <1>12, <2>2, <2>3 DEF ProcessEnds
<1>13. CASE Process \/ Reset
  BY <1>4, <1>13 DEF Process, Reset
<1>14. CASE UNCHANGED vadVars
  BY <1>3, <1>14 DEF vadVars, Spoken
<1>. QED BY <1>6, <1>7, <1>8, <1>9, <1>10, <1>11, <1>12, <1>13, <1>14 DEF VadNext

\* Every window with speech lies in a segment, for every window, every limit
\* and every sequence of probabilities, however often segments are cut.
THEOREM SpeechIsKept == VadSpec => []SpeechIsCovered
<1>1. VadInit => CoverInv
  BY DEF VadInit, CoverInv, Unspoken, Spoken
<1>2. CoverInv => SpeechIsCovered
  BY DEF CoverInv, SpeechIsCovered, Spoken, InOpen, InClosed, Begins, Ends
<1>. QED BY Invariance, CoverStep, <1>1, <1>2, PTL DEF VadSpec

-----------------------------------------------------------------------------
(* Long pauses separate segments.                                          *)

\* Window p is the first silent one after speech.
FirstSilent(p) ==
  /\ heard[p] = "silence"
  /\ \E s \in 1..p - 1 : /\ heard[s] = "speech"
                         /\ \A v \in s + 1..p - 1 : heard[v] = "between"

\* The pause that began with window p lasts up to window w.
Lasts(p, w) == \A v \in p..w : heard[v] # "speech" /\ v \notin cuts

Long(p, w) == PauseAt(p, w) /\ Window * (w - p) >= MinSilence

\* temp_end knows whether a pause goes on and where it began.
PauseKnown ==
  triggered =>
    /\ \A s \in Spoken : (\A v \in s + 1..Len(heard) : heard[v] = "between")
                           => temp_end = 0
    /\ \A p \in DOMAIN heard : FirstSilent(p) /\ Lasts(p, Len(heard))
                                 => temp_end = Ends(p)

\* A long pause may be inside the open segment, after too little speech.
OpenSeparates ==
  triggered => \A p, w \in DOMAIN heard :
    Long(p, w) /\ current_speech.start < Ends(p)
      => Ends(p) - current_speech.start <= MinSpeech

PausesInv == PauseKnown /\ OpenSeparates /\ LongPausesSeparate

\* What was a pause before the window at hand is one afterwards, and a pause it
\* is part of began with it or was under way.
LEMMA PausesSeen ==
  ASSUME Inv, NEW class \in Classes, Predict(class),
         NEW n, n = Len(heard), NEW last, last = n + 1
  PROVE  /\ n \in Nat /\ Len(heard') = last
         /\ DOMAIN heard = 1..n /\ DOMAIN heard' = 1..last /\ heard'[last] = class
         /\ \A w \in 1..n : heard'[w] = heard[w]
         /\ Begins(last) = current_sample /\ Ends(last) = Position
         /\ Spoken' = IF class = "speech" THEN Spoken \cup {last} ELSE Spoken
         /\ \A p, w \in 1..n : Long(p, w)' <=> Long(p, w)
         /\ \A p \in 1..n : FirstSilent(p)' <=> FirstSilent(p)
         /\ \A p \in 1..n : ~Long(last, p)'
         /\ \A p \in 1..n : Lasts(p, last)' <=> /\ Lasts(p, n) /\ class # "speech"
                                                /\ last \notin cuts'
         /\ \A p \in 1..last : Long(p, last)' =>
              /\ class = "silence" /\ last \notin cuts'
              /\ FirstSilent(p)' /\ Lasts(p, last)'
              /\ Window * (last - p) >= MinSilence
         /\ class # "speech" /\ TooLong => last \in cuts'
<1>1. /\ DOMAIN heard = 1..n /\ n \in Nat /\ DOMAIN heard' = 1..last
      /\ heard'[last] = class /\ \A w \in 1..n : heard'[w] = heard[w]
      /\ \A v \in 1..n : v \in cuts' <=> v \in cuts
      /\ Begins(last) = current_sample /\ Ends(last) = Position
      /\ Spoken' = IF class = "speech" THEN Spoken \cup {last} ELSE Spoken
      /\ class # "speech" /\ TooLong => last \in cuts'
  <2> DEFINE l == Len(heard) + 1
  <2>1. /\ DOMAIN heard' = DOMAIN heard \cup {l} /\ heard'[l] = class
        /\ l \notin DOMAIN heard
        /\ \A w \in DOMAIN heard : heard'[w] = heard[w]
        /\ cuts' \subseteq cuts \cup {l} /\ cuts \subseteq cuts'
        /\ Begins(l) = current_sample /\ Ends(l) = Position
        /\ Spoken' = IF class = "speech" THEN Spoken \cup {l} ELSE Spoken
        /\ class # "speech" /\ TooLong => l \in cuts'
    BY NextWindow
  <2>2. l = last /\ DOMAIN heard = 1..n /\ n \in Nat
    BY Windows
  <2> HIDE DEF l
  <2>3. 1..last = 1..n \cup {last}
    BY <2>2
  <2>. QED BY <2>1, <2>2, <2>3
<1>2. \A p \in 1..n : FirstSilent(p)' <=> FirstSilent(p)
  BY <1>1 DEF FirstSilent
<1>3. \A p, w \in 1..n : Long(p, w)' <=> Long(p, w)
  <2> SUFFICES ASSUME NEW p \in 1..n, NEW w \in 1..n PROVE Long(p, w)' <=> Long(p, w)
    OBVIOUS
  <2>1. /\ \A v \in p..w : v \in 1..n /\ heard'[v] = heard[v] /\ (v \in cuts' <=> v \in cuts)
        /\ \A s \in 1..p - 1 : s \in 1..n /\ heard'[s] = heard[s]
        /\ \A s \in 1..p - 1 : \A v \in s + 1..p - 1 : v \in 1..n /\ heard'[v] = heard[v]
    BY <1>1
  <2>2. heard'[p] = heard[p] /\ heard'[w] = heard[w]
    BY <1>1
  <2>. QED BY ONLY <2>1, <2>2 DEF Long, PauseAt
<1>4. \A p \in 1..n : ~Long(last, p)'
  BY <1>1 DEF Long, PauseAt
<1>5. ASSUME NEW p \in 1..n
      PROVE  Lasts(p, last)' <=> Lasts(p, n) /\ class # "speech" /\ last \notin cuts'
  <2>1. p..last = p..n \cup {last} /\ \A v \in p..n : v \in 1..n
    BY <1>1
  <2>. QED BY <1>1, <2>1 DEF Lasts
<1>6. ASSUME NEW p \in 1..last, Long(p, last)'
      PROVE  /\ class = "silence" /\ last \notin cuts'
             /\ FirstSilent(p)' /\ Lasts(p, last)'
             /\ Window * (last - p) >= MinSilence
  <2>1. PauseAt(p, last)' /\ Window * (last - p) >= MinSilence
    BY <1>6 DEF Long
  <2>2. p <= last /\ last \in p..last
    BY <1>1
  <2>. QED BY <1>1, <2>1, <2>2 DEF PauseAt, FirstSilent, Lasts
<1>7. Len(heard') = last
  <2>1. heard' = Append(heard, class) /\ heard \in Seq(Classes)
    BY DEF Inv, VadTypeOK, Predict
  <2>. QED BY <2>1
<1>. QED BY <1>1, <1>2, <1>3, <1>4, <1>5, <1>6, <1>7

\* What is closed is what was open, and all but that was closed before.
LEMMA ClosedOnes ==
  ASSUME Inv, NEW end \in Nat, speeches' = Closed(end)
  PROVE  \A m \in DOMAIN speeches' :
           \/ m \in DOMAIN speeches /\ speeches'[m] = speeches[m]
           \/ speeches'[m].start = current_speech.start /\ speeches'[m].end = end
<1> DEFINE new == [current_speech EXCEPT !.end = end]
<1>1. new.start = current_speech.start /\ new.end = end
  BY DEF Inv, VadTypeOK
<1>2. speeches' = Append(speeches, new) /\ speeches \in Seq([start : Nat, end : Nat])
  BY DEF Closed, Inv, VadTypeOK
<1> HIDE DEF new
<1>3. /\ DOMAIN speeches = 1..Len(speeches) /\ Len(speeches) \in Nat
      /\ DOMAIN speeches' = 1..Len(speeches) + 1
      /\ \A m \in DOMAIN speeches : speeches'[m] = speeches[m]
      /\ speeches'[Len(speeches) + 1] = new
  BY <1>2
<1>. QED BY <1>1, <1>3

\* A long pause ends no later than the window at hand.
LEMMA ClosedBefore ==
  ASSUME Inv, phase = "loop"
  PROVE  \A m \in DOMAIN speeches : speeches[m].end \in Nat /\ speeches[m].end <= current_sample
BY EndsAreNumbers DEF Inv, Within

\* No action but Speech, CutAtPause, Pause and SegmentEnds is about pauses.
LEMMA PausesStep == Inv /\ PausesInv /\ [VadNext]_vadVars => PausesInv'
<1> SUFFICES ASSUME Inv, PausesInv, [VadNext]_vadVars PROVE PausesInv'
  OBVIOUS
<1>0. /\ temp_end \in Nat /\ prev_end \in Nat /\ next_start \in Nat
      /\ current_sample \in Nat /\ length \in Nat
      /\ current_speech.start \in Nat \cup {-1}
      /\ current_speech \in [start : Nat \cup {-1}, end : Nat \cup {-1}]
      /\ \A w \in DOMAIN heard : /\ Ends(w) \in Nat /\ Ends(w) # 0
                                 /\ Ends(w) <= current_sample
      /\ MinSpeech \in Nat /\ MinSilence \in Nat
  <2>1. /\ temp_end \in Nat /\ prev_end \in Nat /\ next_start \in Nat
        /\ current_sample \in Nat /\ length \in Nat
        /\ current_speech.start \in Nat \cup {-1}
        /\ current_speech \in [start : Nat \cup {-1}, end : Nat \cup {-1}]
    BY DEF Inv, VadTypeOK
  <2>2. \A w \in DOMAIN heard : /\ Ends(w) \in Nat /\ Ends(w) # 0
                                /\ Ends(w) <= current_sample
    BY Windows
  <2>. QED BY <2>1, <2>2, VadAssumption
\* What the properties say of pauses that have already been heard.
<1>1. \A p, w \in DOMAIN heard : Long(p, w) =>
        /\ triggered /\ current_speech.start < Ends(p)
             => Ends(p) - current_speech.start <= MinSpeech
        /\ \A m \in DOMAIN speeches :
             speeches[m].start < Ends(p) /\ Ends(w) < speeches[m].end
               => Ends(p) - speeches[m].start <= MinSpeech
  BY DEF PausesInv, OpenSeparates, LongPausesSeparate, Long, Ends
<1>2. ASSUME UNCHANGED <<heard, cuts, temp_end, triggered, speeches, current_speech>>
      PROVE  PausesInv'
  BY <1>2 DEF PausesInv, PauseKnown, OpenSeparates, LongPausesSeparate, Long, Ends,
              PauseAt, FirstSilent, Lasts, Spoken
<1>3. ASSUME reset_states PROVE PausesInv'
  BY <1>3 DEF reset_states, PausesInv, PauseKnown, OpenSeparates, LongPausesSeparate
<1> DEFINE
  OpenFine == triggered' => \A p, w \in DOMAIN heard' :
    Long(p, w)' /\ current_speech'.start < Ends(p)
      => Ends(p) - current_speech'.start <= MinSpeech
  ClosedFine == \A m \in DOMAIN speeches' : \A p, w \in DOMAIN heard' :
    Long(p, w)' /\ speeches'[m].start < Ends(p) /\ Ends(w) < speeches'[m].end
      => Ends(p) - speeches'[m].start <= MinSpeech
<1>4. ASSUME PauseKnown', OpenFine, ClosedFine PROVE PausesInv'
  BY <1>4 DEF PausesInv, OpenSeparates, LongPausesSeparate, Long, Ends
<1> HIDE DEF OpenFine, ClosedFine
\* Segments that stay closed have no pause of the window at hand in them.
<1>5. ASSUME NEW class \in Classes, Predict(class),
             NEW end \in Nat, end <= Position,
             \/ speeches' = speeches
             \/ speeches' = Closed(end) /\ triggered
      PROVE  ClosedFine
  <2>1. PICK n, last : n = Len(heard) /\ last = n + 1
    OBVIOUS
  <2>2. /\ DOMAIN heard = 1..n /\ DOMAIN heard' = 1..last /\ n \in Nat
        /\ Ends(last) = Position
        /\ \A p, w \in 1..n : Long(p, w)' <=> Long(p, w)
        /\ \A p \in 1..n : ~Long(last, p)'
    BY <1>5, <2>1, PausesSeen
  <2>3. /\ Position \in Nat /\ current_sample < Position
        /\ \A m \in DOMAIN speeches : speeches[m].end \in Nat /\ speeches[m].end <= Position
    <3>1. phase = "loop" /\ Position \in Nat /\ current_sample < Position
      BY <1>5, PredictFacts
    <3>. QED BY <1>0, <3>1, ClosedBefore
  <2> SUFFICES ASSUME NEW m \in DOMAIN speeches', NEW p \in 1..last, NEW w \in 1..last,
                      Long(p, w)', speeches'[m].start < Ends(p),
                      Ends(w) < speeches'[m].end
               PROVE  Ends(p) - speeches'[m].start <= MinSpeech
    BY <2>2 DEF ClosedFine
  <2>4. \/ m \in DOMAIN speeches /\ speeches'[m] = speeches[m]
        \/ /\ speeches'[m].start = current_speech.start /\ speeches'[m].end = end
           /\ triggered
    BY <1>5, ClosedOnes
  <2>5. w # last
    BY <1>5, <2>2, <2>3, <2>4
  <2>6. w \in 1..n /\ p \in 1..n
    BY <2>1, <2>2, <2>5
  <2>7. Long(p, w)
    BY <2>2, <2>6
  <2>. QED BY <1>1, <2>2, <2>4, <2>6, <2>7
\* Without an open segment there is no more to say.
<1>6. ASSUME ~triggered' PROVE PauseKnown' /\ OpenFine
  BY <1>6 DEF PauseKnown, OpenFine
<1>7. CASE Speech
  <2>1. Predict("speech") /\ "speech" \in Classes
    BY <1>7 DEF Speech, Classes
  <2>2. PICK n, last : n = Len(heard) /\ last = n + 1
    OBVIOUS
  <2>3. /\ DOMAIN heard = 1..n /\ DOMAIN heard' = 1..last /\ n \in Nat
        /\ Len(heard') = last /\ heard'[last] = "speech"
        /\ \A p, w \in 1..n : Long(p, w)' <=> Long(p, w)
        /\ \A p \in 1..n : ~Long(last, p)' /\ ~Lasts(p, last)'
        /\ \A p \in 1..last : ~Long(p, last)'
    BY <2>1, <2>2, PausesSeen
  <2>4. Position \in Nat
    BY <2>1, PredictFacts
  <2>5. /\ temp_end' = 0 /\ speeches' = speeches
        /\ current_speech'.start = IF triggered THEN current_speech.start
                                   ELSE current_sample
    BY <1>0, <1>7 DEF Speech, WindowStart
  <2>6. PauseKnown'
    <3>1. ~FirstSilent(last)'
      BY <2>3 DEF FirstSilent
    <3>2. \A p \in 1..last : p = last \/ p \in 1..n
      BY <2>2, <2>3
    <3>. QED BY <2>3, <2>5, <3>1, <3>2 DEF PauseKnown
  <2>7. OpenFine
    <3> SUFFICES ASSUME NEW p \in 1..last, NEW w \in 1..last,
                        Long(p, w)', current_speech'.start < Ends(p)
                 PROVE  Ends(p) - current_speech'.start <= MinSpeech
      BY <2>3 DEF OpenFine
    <3>1. w # last
      BY <2>3
    <3>2. w \in 1..n /\ p \in 1..n
      <4>1. \A x \in 1..last : x = last \/ x \in 1..n
        BY <2>2, <2>3
      <4>. QED BY <2>3, <3>1, <4>1
    <3>3. Long(p, w)
      BY <2>3, <3>2
    <3>4. triggered
      BY <1>0, <2>3, <2>5, <3>2
    <3>. QED BY <1>1, <2>3, <2>5, <3>2, <3>3, <3>4
  <2>8. Position <= Position
    BY <2>4
  <2>9. ClosedFine
    BY <1>5, <2>1, <2>4, <2>5, <2>8
  <2>. QED BY <1>4, <2>6, <2>7, <2>9
\* A cut ends the pause it is in; what goes on after it starts later.
<1>8. ASSUME NEW class \in Classes, CutAtPause(class) PROVE PausesInv'
  <2>1. /\ Predict(class) /\ class # "speech" /\ TooLong /\ triggered
        /\ speeches' = Closed(prev_end) /\ ClearMarks /\ prev_end # 0
    BY <1>0, <1>8 DEF CutAtPause, TooLong
  <2>2. PICK n, last : n = Len(heard) /\ last = n + 1
    OBVIOUS
  <2>3. /\ DOMAIN heard = 1..n /\ DOMAIN heard' = 1..last /\ n \in Nat
        /\ Len(heard') = last /\ last \in cuts'
        /\ \A p, w \in 1..n : Long(p, w)' <=> Long(p, w)
        /\ \A p \in 1..n : ~Long(last, p)' /\ ~Lasts(p, last)'
        /\ \A p \in 1..last : ~Long(p, last)'
    BY <2>1, <2>2, PausesSeen
  <2>4. /\ Position \in Nat /\ prev_end <= Position
        /\ current_speech.start < prev_end
    <3>1. Position \in Nat /\ current_sample < Position
      BY <2>1, PredictFacts
    <3>2. prev_end <= current_sample /\ current_speech.start < prev_end
      BY <1>0, <2>1 DEF Inv, MarksAgree
    <3>. QED BY <1>0, <3>1, <3>2
  <2>5. ClosedFine
    BY <1>0, <1>5, <2>1, <2>4
  <2>6. PauseKnown'
    <3>1. ~Lasts(last, last)'
      BY <2>3 DEF Lasts
    <3>2. \A p \in 1..last : ~Lasts(p, last)'
      BY <2>2, <2>3, <3>1
    <3>3. temp_end' = 0
      BY <2>1 DEF ClearMarks
    <3>. QED BY <2>3, <3>2, <3>3 DEF PauseKnown
  <2>7. CASE triggered'
    <3>1. current_speech'.start = next_start /\ prev_end <= next_start
      BY <1>0, <1>8, <2>7 DEF CutAtPause, NoSegment
    <3>2. OpenFine
      <4> SUFFICES ASSUME NEW p \in 1..last, NEW w \in 1..last,
                          Long(p, w)', next_start < Ends(p)
                   PROVE  Ends(p) - next_start <= MinSpeech
        BY <2>3, <3>1 DEF OpenFine
      <4>1. w # last
        BY <2>3
      <4>2. w \in 1..n /\ p \in 1..n
        <5>1. \A x \in 1..last : x = last \/ x \in 1..n
          BY <2>2, <2>3
        <5>. QED BY <2>3, <4>1, <5>1
      <4>3. Long(p, w) /\ Ends(p) \in Nat
        BY <1>0, <2>3, <4>2
      <4>4. current_speech.start < Ends(p)
        BY <1>0, <2>4, <3>1, <4>3
      <4>5. Ends(p) - current_speech.start <= MinSpeech
        BY <1>1, <2>1, <2>3, <4>2, <4>3, <4>4
      <4>. QED BY <1>0, <2>4, <3>1, <4>3, <4>5
    <3>. QED BY <1>4, <2>5, <2>6, <3>2
  <2>. QED BY <1>4, <1>6, <2>5, <2>6, <2>7
<1>9. ASSUME NEW class \in Classes, CutHere(class) PROVE PausesInv'
  <2>1. /\ Predict(class) /\ speeches' = Closed(Position) /\ ~triggered' /\ triggered
    BY <1>9 DEF CutHere, TooLong
  <2>2. Position \in Nat /\ Position <= Position
    BY <2>1, PredictFacts
  <2>. QED BY <1>4, <1>5, <1>6, <2>1, <2>2
<1>10. CASE Between
  <2>1. /\ Predict("between") /\ "between" \in Classes
        /\ temp_end' = temp_end /\ triggered' = triggered /\ speeches' = speeches
        /\ current_speech' = current_speech
    BY <1>10 DEF Between, Classes, marks, segments
  <2>2. PICK n, last : n = Len(heard) /\ last = n + 1
    OBVIOUS
  <2>3. /\ DOMAIN heard = 1..n /\ DOMAIN heard' = 1..last /\ n \in Nat
        /\ Len(heard') = last /\ heard'[last] = "between" /\ Spoken' = Spoken
        /\ \A w \in 1..n : heard'[w] = heard[w]
        /\ \A p, w \in 1..n : Long(p, w)' <=> Long(p, w)
        /\ \A p \in 1..n : ~Long(last, p)' /\ (Lasts(p, last)' => Lasts(p, n))
        /\ \A p \in 1..n : FirstSilent(p)' <=> FirstSilent(p)
        /\ \A p \in 1..last : ~Long(p, last)'
    BY <2>1, <2>2, PausesSeen
  <2>4. Position \in Nat /\ Position <= Position
    BY <2>1, PredictFacts
  <2>5. PauseKnown'
    <3>1. ~FirstSilent(last)'
      BY <2>3 DEF FirstSilent
    <3>2. \A s \in Spoken : (\A v \in s + 1..last : heard'[v] = "between")
                              => \A v \in s + 1..n : heard[v] = "between"
      <4>1. \A s \in Spoken : s \in 1..n
        BY <2>3 DEF Spoken
      <4>2. \A s \in 1..n : \A v \in s + 1..n : v \in s + 1..last /\ v \in 1..n
        BY <2>2, <2>3
      <4>. QED BY <2>3, <4>1, <4>2
    <3>3. triggered => /\ \A s \in Spoken : (\A v \in s + 1..n : heard[v] = "between")
                                              => temp_end = 0
                       /\ \A p \in 1..n : FirstSilent(p) /\ Lasts(p, n)
                                            => temp_end = Ends(p)
      BY <2>2, <2>3 DEF PausesInv, PauseKnown
    <3>4. \A p \in 1..last : p = last \/ p \in 1..n
      BY <2>2, <2>3
    <3>5. triggered' => \A p \in 1..last : FirstSilent(p)' /\ Lasts(p, last)'
                                             => temp_end' = Ends(p)
      BY <2>1, <2>3, <3>1, <3>3, <3>4
    <3>6. triggered' => \A s \in Spoken' :
            (\A v \in s + 1..last : heard'[v] = "between") => temp_end' = 0
      BY <2>1, <2>3, <3>2, <3>3
    <3>. QED BY <2>3, <3>5, <3>6 DEF PauseKnown, Ends
  <2>6. OpenFine
    <3> SUFFICES ASSUME triggered', NEW p \in 1..last, NEW w \in 1..last,
                        Long(p, w)', current_speech.start < Ends(p)
                 PROVE  Ends(p) - current_speech.start <= MinSpeech
      BY <2>1, <2>3 DEF OpenFine
    <3>1. w # last
      BY <2>3
    <3>2. w \in 1..n /\ p \in 1..n
      <4>1. \A x \in 1..last : x = last \/ x \in 1..n
        BY <2>2, <2>3
      <4>. QED BY <2>3, <3>1, <4>1
    <3>. QED BY <1>1, <2>1, <2>3, <3>2
  <2>7. ClosedFine
    BY <1>5, <2>1, <2>4
  <2>. QED BY <1>4, <2>5, <2>6, <2>7
<1>11. CASE Quiet
  <2>1. /\ Predict("silence") /\ "silence" \in Classes
        /\ ~triggered' /\ speeches' = speeches
    BY <1>11 DEF Quiet, Classes, segments
  <2>2. Position \in Nat /\ Position <= Position
    BY <2>1, PredictFacts
  <2>. QED BY <1>4, <1>5, <1>6, <2>1, <2>2
\* The pause was known: it ends the segment if both are long.
<1>12. CASE Pause
  <2>1. /\ Predict("silence") /\ "silence" \in Classes /\ triggered /\ ~TooLong
        /\ temp_end' = EndOfSpeech /\ triggered' = triggered /\ speeches' = speeches
        /\ current_speech'.start = current_speech.start
        /\ ~(PauseLong /\ SpeechLong)
    BY <1>0, <1>12 DEF Pause, Classes
  <2>2. PICK n, last : n = Len(heard) /\ last = n + 1
    OBVIOUS
  <2>3. /\ DOMAIN heard = 1..n /\ DOMAIN heard' = 1..last /\ n \in Nat
        /\ Len(heard') = last /\ heard'[last] = "silence" /\ Spoken' = Spoken
        /\ \A w \in 1..n : heard'[w] = heard[w]
        /\ Ends(last) = Position
        /\ \A p, w \in 1..n : Long(p, w)' <=> Long(p, w)
        /\ \A p \in 1..n : ~Long(last, p)' /\ (Lasts(p, last)' => Lasts(p, n))
        /\ \A p \in 1..n : FirstSilent(p)' <=> FirstSilent(p)
        /\ \A p \in 1..last : Long(p, last)' =>
              FirstSilent(p)' /\ Lasts(p, last)' /\ Window * (last - p) >= MinSilence
    BY <2>1, <2>2, PausesSeen, ZenonT(40)
  <2>4. Position \in Nat /\ Position <= Position
    BY <2>1, PredictFacts
  <2>5. \A p \in 1..last : p = last \/ p \in 1..n
    BY <2>2, <2>3
  <2>6. ASSUME NEW p \in 1..last, FirstSilent(p)', Lasts(p, last)'
        PROVE  EndOfSpeech = Ends(p)
    <3>1. CASE p \in 1..n
      <4>1. temp_end = Ends(p)
        BY <2>1, <2>2, <2>3, <2>6, <3>1 DEF PausesInv, PauseKnown
      <4>. QED BY <1>0, <2>3, <3>1, <4>1 DEF EndOfSpeech
    <3>2. CASE p = last
      <4>1. PICK s \in 1..last - 1 : /\ heard'[s] = "speech"
                                     /\ \A v \in s + 1..last - 1 : heard'[v] = "between"
        BY <2>6, <3>2 DEF FirstSilent
      <4>2. last - 1 = n /\ s \in 1..n /\ \A v \in s + 1..n : v \in 1..n
        BY <2>2, <2>3, <4>1
      <4>3. s \in Spoken /\ \A v \in s + 1..n : heard[v] = "between"
        BY <2>3, <4>1, <4>2 DEF Spoken
      <4>4. temp_end = 0
        BY <2>1, <2>2, <4>3 DEF PausesInv, PauseKnown
      <4>. QED BY <2>3, <3>2, <4>4 DEF EndOfSpeech
    <3>. QED BY <2>5, <3>1, <3>2
  <2>7. PauseKnown'
    <3>1. \A s \in Spoken' : ~\A v \in s + 1..last : heard'[v] = "between"
      <4>1. \A s \in Spoken : s \in 1..n
        BY <2>3 DEF Spoken
      <4>2. \A s \in 1..n : last \in s + 1..last
        BY <2>2, <2>3
      <4>. QED BY <2>3, <4>1, <4>2
    <3>2. \A p \in 1..last : FirstSilent(p)' /\ Lasts(p, last)' => temp_end' = Ends(p)
      BY <2>1, <2>6
    <3>. QED BY <2>3, <3>1, <3>2 DEF PauseKnown, Ends
  <2>8. OpenFine
    <3> SUFFICES ASSUME NEW p \in 1..last, NEW w \in 1..last,
                        Long(p, w)', current_speech.start < Ends(p)
                 PROVE  Ends(p) - current_speech.start <= MinSpeech
      BY <2>1, <2>3 DEF OpenFine
    <3>1. CASE w = last
      <4>1. FirstSilent(p)' /\ Lasts(p, last)' /\ Window * (last - p) >= MinSilence
        BY <2>3, <3>1
      <4>2. EndOfSpeech = Ends(p)
        BY <2>6, <4>1
      <4>3. Position - EndOfSpeech = Window * (last - p)
        <5>1. Window \in Nat /\ last \in Nat /\ p \in Nat
          BY <2>2, <2>3, VadAssumption
        <5>2. Window * (last - p) = Window * last - Window * p
          BY <5>1
        <5>3. Position = Window * last /\ EndOfSpeech = Window * p
          BY <2>3, <2>5, <4>2 DEF Ends
        <5>. QED BY <5>2, <5>3
      <4>4. PauseLong
        BY <4>1, <4>3 DEF PauseLong
      <4>5. ~(Ends(p) - current_speech.start > MinSpeech)
        BY <2>1, <4>2, <4>4 DEF SpeechLong
      <4>6. Ends(p) \in Nat
        BY <1>0, <2>3, <2>4, <2>5
      <4>. QED BY <1>0, <4>5, <4>6
    <3>2. CASE w # last
      <4>1. w \in 1..n /\ p # last
        BY <2>3, <2>5, <3>2
      <4>2. p \in 1..n
        BY <2>5, <4>1
      <4>. QED BY <1>1, <2>1, <2>3, <4>1, <4>2
    <3>. QED BY <3>1, <3>2
  <2>9. ClosedFine
    BY <1>5, <2>1, <2>4
  <2>. QED BY <1>4, <2>7, <2>8, <2>9
<1>13. CASE SegmentEnds
  <2>1. /\ Predict("silence") /\ "silence" \in Classes /\ triggered
        /\ ~triggered' /\ speeches' = Closed(EndOfSpeech)
    BY <1>13 DEF SegmentEnds, Classes
  <2>2. EndOfSpeech \in Nat /\ EndOfSpeech <= Position
    BY <2>1, EndOfSpeechFacts
  <2>. QED BY <1>4, <1>5, <1>6, <2>1, <2>2
<1>14. CASE ProcessEnds
  <2>1. CASE ~OpenAtEnd /\ UNCHANGED <<marks, segments>>
    BY <1>2, <1>14, <2>1 DEF ProcessEnds, marks, segments
  <2>2. CASE OpenAtEnd /\ speeches' = Closed(length) /\ ~triggered'
    <3>1. triggered /\ heard' = heard /\ cuts' = cuts
      BY <1>14, <2>2 DEF ProcessEnds, OpenAtEnd, Inv, MarksAgree
    <3>2. \A p, w : Long(p, w)' <=> Long(p, w)
      BY <3>1 DEF Long, PauseAt
    <3>3. ClosedFine
      BY <1>0, <1>1, <2>2, <3>1, <3>2, ClosedOnes DEF ClosedFine
    <3>. QED BY <1>4, <1>6, <2>2, <3>3
  <2>. QED BY <1>14, <2>1, <2>2 DEF ProcessEnds
<1>15. CASE Process \/ Reset
  BY <1>3, <1>15 DEF Process, Reset
<1>16. CASE UNCHANGED vadVars
  BY <1>2, <1>16 DEF vadVars, marks, segments
<1>. QED BY <1>7, <1>8, <1>9, <1>10, <1>11, <1>12, <1>13, <1>14, <1>15, <1>16 DEF VadNext

\* A pause of at least MinSilence separates segments, unless the speech before
\* it was too short to be one, for every window, every limit and every sequence
\* of probabilities.
THEOREM PausesSeparate == VadSpec => []LongPausesSeparate
<1>1. VadInit => PausesInv
  BY DEF VadInit, PausesInv, PauseKnown, OpenSeparates, LongPausesSeparate
<1>2. PausesInv => LongPausesSeparate
  BY DEF PausesInv
<1>. QED BY Invariance, PausesStep, <1>1, <1>2, PTL DEF VadSpec
=============================================================================
