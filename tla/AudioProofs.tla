---------------------------- MODULE AudioProofs ----------------------------
(***************************************************************************)
(* Theorems of AudioPrograms, for every size of arrays and buffers, every  *)
(* number of channels and every length of a recording.                     *)
(*                                                                         *)
(* RecordInv: the file and the queues are one line of buffers, in the      *)
(* order of the callbacks, and the header is written last. PlayInv: what   *)
(* was played is the beginning of what was read, then silence. PaexInv:    *)
(* the array is there while callbacks run, and where the main thread is    *)
(* says how far the array has been filled and played.                      *)
(***************************************************************************)
EXTENDS AudioPrograms, SequenceTheorems, TLAPS

-----------------------------------------------------------------------------
(* Sequences, position by position, and buffers of a file.                 *)

\* Head and tail of a sequence.
LEMMA Fronts ==
  ASSUME NEW S, NEW s \in Seq(S), s # <<>>
  PROVE  /\ Head(s) = s[1] /\ Head(s) \in S
         /\ 1 \in DOMAIN s /\ Len(s) \in Nat \ {0}
         /\ Tail(s) \in Seq(S) /\ Len(Tail(s)) = Len(s) - 1
         /\ \A i \in DOMAIN Tail(s) : i + 1 \in DOMAIN s /\ Tail(s)[i] = s[i + 1]
         /\ DOMAIN Tail(s) = 1..Len(s) - 1 /\ DOMAIN s = 1..Len(s)
<1>1. Len(s) \in Nat /\ DOMAIN s = 1..Len(s) /\ Len(s) # 0
  BY LenProperties, EmptySeq
<1>2. /\ Head(s) = s[1] /\ Tail(s) \in Seq(S) /\ Len(Tail(s)) = Len(s) - 1
      /\ \A i \in 1..Len(Tail(s)) : Tail(s)[i] = s[i + 1]
  BY HeadTailProperties
<1>3. DOMAIN Tail(s) = 1..Len(s) - 1
  BY <1>1, <1>2, LenProperties
<1>. QED BY <1>1, <1>2, <1>3, ElementOfSeq

\* A sequence with one more element.
LEMMA Appended ==
  ASSUME NEW S, NEW s \in Seq(S), NEW e \in S
  PROVE  /\ Append(s, e) \in Seq(S) /\ Len(Append(s, e)) = Len(s) + 1
         /\ Len(s) \in Nat /\ DOMAIN s = 1..Len(s)
         /\ DOMAIN Append(s, e) = 1..Len(s) + 1
         /\ \A i \in DOMAIN s : Append(s, e)[i] = s[i]
         /\ Append(s, e)[Len(s) + 1] = e
<1>1. Len(s) \in Nat /\ DOMAIN s = 1..Len(s)
  BY LenProperties
<1>2. Append(s, e) \in Seq(S) /\ Len(Append(s, e)) = Len(s) + 1
  BY AppendProperties
<1>3. DOMAIN Append(s, e) = 1..Len(s) + 1
  BY <1>2, LenProperties
<1>. QED BY <1>1, <1>2, <1>3, AppendProperties

\* Two sequences, one after the other.
LEMMA Joined ==
  ASSUME NEW S, NEW s \in Seq(S), NEW t \in Seq(S)
  PROVE  /\ s \o t \in Seq(S) /\ Len(s \o t) = Len(s) + Len(t)
         /\ Len(s) \in Nat /\ Len(t) \in Nat
         /\ DOMAIN s = 1..Len(s) /\ DOMAIN t = 1..Len(t)
         /\ DOMAIN (s \o t) = 1..Len(s) + Len(t)
         /\ \A i \in DOMAIN s : (s \o t)[i] = s[i]
         /\ \A i \in DOMAIN (s \o t) : i \in DOMAIN s
              \/ (i - Len(s) \in DOMAIN t /\ (s \o t)[i] = t[i - Len(s)])
<1>1. /\ Len(s) \in Nat /\ Len(t) \in Nat
      /\ DOMAIN s = 1..Len(s) /\ DOMAIN t = 1..Len(t)
  BY LenProperties
<1>2. /\ s \o t \in Seq(S) /\ Len(s \o t) = Len(s) + Len(t)
      /\ \A i \in 1..Len(s) + Len(t) :
           (s \o t)[i] = IF i <= Len(s) THEN s[i] ELSE t[i - Len(s)]
  BY ConcatProperties
<1>3. DOMAIN (s \o t) = 1..Len(s) + Len(t)
  BY <1>2, LenProperties
<1>4. \A i \in DOMAIN s : (s \o t)[i] = s[i]
  BY <1>1, <1>2
<1>5. \A i \in DOMAIN (s \o t) : i \in DOMAIN s
        \/ (i - Len(s) \in DOMAIN t /\ (s \o t)[i] = t[i - Len(s)])
  BY <1>1, <1>2, <1>3
<1>. QED BY <1>1, <1>2, <1>3, <1>4, <1>5

\* A piece of a sequence.
LEMMA Piece ==
  ASSUME NEW S, NEW s \in Seq(S), NEW n \in Nat, NEW c \in Nat, n + c <= Len(s)
  PROVE  /\ SubSeq(s, n + 1, n + c) \in Seq(S)
         /\ Len(SubSeq(s, n + 1, n + c)) = c
         /\ DOMAIN SubSeq(s, n + 1, n + c) = 1..c
         /\ \A i \in 1..c : SubSeq(s, n + 1, n + c)[i] = s[n + i]
<1> DEFINE from == n + 1
           to == n + c
<1>1. /\ from \in Int /\ to \in Int /\ Len(s) \in Nat /\ DOMAIN s = 1..Len(s)
      /\ \A i \in 1..Len(s) : s[i] \in S
  BY LenProperties, ElementOfSeq
<1>2. /\ \A i \in from..to : i \in 1..Len(s)
      /\ (IF from <= to THEN to - from + 1 ELSE 0) = c /\ to - from + 1 = c
      /\ \A i \in 1..c : from + i - 1 = n + i
  BY <1>1
<1>3. \A i \in from..to : s[i] \in S
  BY <1>1, <1>2
<1> HIDE DEF from, to
<1>4. /\ SubSeq(s, from, to) \in Seq(S)
      /\ Len(SubSeq(s, from, to)) = IF from <= to THEN to - from + 1 ELSE 0
      /\ \A i \in 1..to - from + 1 : SubSeq(s, from, to)[i] = s[from + i - 1]
  BY <1>1, <1>3, SubSeqProperties
<1>5. DOMAIN SubSeq(s, from, to) = 1..Len(SubSeq(s, from, to))
  BY <1>4, LenProperties
<1>. QED BY <1>2, <1>4, <1>5 DEF from, to

\* The same element over and over.
LEMMA Pad ==
  ASSUME NEW S, NEW v \in S, NEW n \in Nat
  PROVE  /\ [i \in 1..n |-> v] \in Seq(S) /\ Len([i \in 1..n |-> v]) = n
         /\ \A i \in 1..n : [j \in 1..n |-> v][i] = v
<1> DEFINE pad == [i \in 1..n |-> v]
<1>1. pad \in [1..n -> S] /\ \A i \in 1..n : pad[i] = v
  OBVIOUS
<1> HIDE DEF pad
<1>2. pad \in Seq(S)
  BY <1>1 DEF SeqDef
<1>3. Len(pad) = n
  BY <1>1, <1>2, LenProperties
<1>. QED BY <1>1, <1>2, <1>3 DEF pad

\* The first n elements of t are those of s.
Agree(t, s, n) == \A i \in 1..n : t[i] = s[i]

\* What is played when c elements of s follow the n that were played.
LEMMA PlayedOn ==
  ASSUME NEW s \in Seq(Nat), NEW h \in Seq(Nat), NEW n \in Nat, NEW c \in Nat,
         n + c <= Len(s), Len(h) = n, Agree(h, s, n)
  PROVE  /\ h \o SubSeq(s, n + 1, n + c) \in Seq(Nat)
         /\ Len(h \o SubSeq(s, n + 1, n + c)) = n + c
         /\ Agree(h \o SubSeq(s, n + 1, n + c), s, n + c)
<1> DEFINE part == SubSeq(s, n + 1, n + c)
           full == h \o part
<1>1. /\ part \in Seq(Nat) /\ Len(part) = c
      /\ \A i \in 1..c : part[i] = s[n + i]
  BY Piece
<1> HIDE DEF part
<1>2. /\ full \in Seq(Nat) /\ Len(full) = n + c
      /\ \A i \in 1..n + c : full[i] = IF i <= n THEN h[i] ELSE part[i - n]
  BY <1>1, ConcatProperties, Zenon
<1> HIDE DEF full
<1>3. \A i \in 1..n + c : full[i] = s[i]
  <2> TAKE i \in 1..n + c
  <2>1. CASE i <= n
    BY <1>2, <2>1 DEF Agree
  <2>2. CASE ~(i <= n)
    <3>1. i - n \in 1..c /\ n + (i - n) = i
      BY <2>2
    <3>. QED BY <1>1, <1>2, <2>2, <3>1
  <2>. QED BY <2>1, <2>2
<1>. QED BY <1>2, <1>3 DEF part, full, Agree

\* Silence after it.
LEMMA Silenced ==
  ASSUME NEW full \in Seq(Nat), NEW p \in Nat
  PROVE  /\ full \o [i \in 1..p |-> 0] \in Seq(Nat)
         /\ Len(full \o [i \in 1..p |-> 0]) = Len(full) + p
         /\ \A i \in 1..Len(full) + p : (full \o [j \in 1..p |-> 0])[i]
              = IF i <= Len(full) THEN full[i] ELSE 0
<1> DEFINE pad == [i \in 1..p |-> 0]
           last == full \o pad
<1>1. pad \in Seq(Nat) /\ Len(pad) = p /\ \A i \in 1..p : pad[i] = 0
  BY Pad, 0 \in Nat
<1> HIDE DEF pad
<1>2. /\ last \in Seq(Nat) /\ Len(last) = Len(full) + p
      /\ \A i \in 1..Len(full) + p :
           last[i] = IF i <= Len(full) THEN full[i] ELSE pad[i - Len(full)]
  BY <1>1, ConcatProperties
<1>3. Len(full) \in Nat
  BY LenProperties
<1> HIDE DEF last
<1>4. ASSUME NEW i \in 1..Len(full) + p, ~(i <= Len(full)) PROVE last[i] = 0
  <2>1. i - Len(full) \in 1..p
    BY <1>3, <1>4
  <2>. QED BY <1>1, <1>2, <1>4, <2>1
<1>. QED BY <1>2, <1>4 DEF last, pad

\* A sequence that agrees with the first elements of a longer one is its prefix.
LEMMA Prefixed ==
  ASSUME NEW s \in Seq(Nat), NEW t \in Seq(Nat), Len(s) <= Len(t),
         \A i \in 1..Len(t) : i <= Len(s) => t[i] = s[i]
  PROVE  IsPrefix(s, t)
<1> DEFINE n == Len(s)
           front == SubSeq(t, 1, n)
<1>1. n \in Nat /\ Len(t) \in Nat /\ \A i \in 1..n : i \in 1..Len(t) /\ i <= n
  BY LenProperties
<1>2. /\ SubSeq(t, 0 + 1, 0 + n) \in Seq(Nat) /\ Len(SubSeq(t, 0 + 1, 0 + n)) = n
      /\ \A i \in 1..n : SubSeq(t, 0 + 1, 0 + n)[i] = t[0 + i]
  <2>1. t \in Seq(Nat) /\ 0 \in Nat /\ n \in Nat /\ 0 + n <= Len(t)
    BY <1>1
  <2> HIDE DEF n
  <2>. QED BY ONLY <2>1, Piece
<1>3. 0 + n = n /\ 0 + 1 = 1 /\ \A i \in 1..n : 0 + i = i
  BY <1>1
<1>4. front \in Seq(Nat) /\ Len(front) = n /\ \A i \in 1..n : front[i] = s[i]
  BY <1>1, <1>2, <1>3
<1> HIDE DEF front
<1>5. front = s
  BY <1>4, SeqEqual
<1>6. SubSeq(s, 1, n) = s
  BY SubSeqFull
<1>. QED BY <1>5, <1>6 DEF IsPrefix, front

\* Sizes of whole buffers.
LEMMA Sizes ==
  ASSUME NEW a \in Nat, NEW b \in Nat, NEW c \in Nat, a <= b
  PROVE  a * c \in Nat /\ a * c <= b * c /\ (a + 1) * c = a * c + c
<1>1. b - a \in Nat /\ b = a + (b - a)
  OBVIOUS
<1>2. \A m \in Nat : m * c \in Nat /\ (a + m) * c = a * c + m * c
  OBVIOUS
<1>. QED BY <1>1, <1>2

\* Sample s of buffer k, in a file of n whole buffers.
LEMMA Cells ==
  ASSUME NEW n \in Nat, NEW size \in Nat \ {0}, NEW k \in 1..n, NEW s \in 1..size
  PROVE  /\ (k - 1) * size + s \in 1..n * size
         /\ n * size \in Nat
<1>1. /\ k - 1 \in Nat /\ k \in Nat /\ n \in Nat /\ k <= n /\ size \in Nat
      /\ k - 1 <= k /\ s \in Nat /\ 1 <= s /\ s <= size /\ k - 1 + 1 = k
  OBVIOUS
<1>2. /\ (k - 1) * size \in Nat /\ k * size = (k - 1) * size + size
      /\ k * size <= n * size /\ n * size \in Nat
  BY <1>1, Sizes
<1> DEFINE before == (k - 1) * size
<1>3. before \in Nat /\ before + size <= n * size
  BY <1>2
<1> HIDE DEF before
<1>4. before + s \in 1..n * size
  BY <1>1, <1>2, <1>3
<1>. QED BY <1>2, <1>4 DEF before

-----------------------------------------------------------------------------
(* paex_record: the array.                                                 *)

\* What the main thread of paex_record has when it is where: streams are off
\* before the array is there and after PortAudio is terminated.
ArrayInv ==
  /\ xpc \in {"none", "start", "init", "recording", "recorded", "playing",
              "terminate", "free", "done"}
  /\ xpc \in {"none", "start"} => array = "null"
  /\ xpc \in {"none", "start", "init", "recorded", "free", "done"} =>
       xstream = "off"
  /\ xpc \in {"init", "recording", "recorded", "playing"} => array = "live"
  /\ xstream # "off" => array = "live"

\* A step of paex_record keeps it: the array is freed behind the label done
\* only, after PortAudio is terminated.
LEMMA PaexKeepsArray ==
  ASSUME ArrayInv, PaexNext
  PROVE  ArrayInv'
<1> USE DEF ArrayInv
<1>1. CASE Allocate \/ StartRecording
  BY <1>1 DEF Allocate, StartRecording, Done
<1>2. CASE Recorded \/ StartPlayback \/ Played
  BY <1>2 DEF Recorded, StartPlayback, Played, Done
<1>3. CASE StreamFails \/ Terminate \/ Free
  BY <1>3 DEF StreamFails, Terminate, Free, Done
<1>4. CASE PaexCallback
  BY <1>4 DEF PaexCallback, recordCallback, playCallback, StreamAfter
<1>. QED BY <1>1, <1>2, <1>3, <1>4 DEF PaexNext, PaexMain

\* The types of what the callbacks use.
PaexTypes ==
  /\ data \in [frameIndex : Nat, maxFrameIndex : TotalFrames,
              recordedSamples : Seq(Nat)]
  /\ data.frameIndex <= data.maxFrameIndex
  /\ Len(data.recordedSamples) = data.maxFrameIndex
  /\ delivered \in Seq(Nat) /\ recorded_raw \in Seq(Nat) /\ heard \in Seq(Nat)

\* The array has been filled with the first frames delivered.
Filled ==
  /\ data.maxFrameIndex <= Len(delivered)
  /\ \A s \in 1..data.maxFrameIndex : data.recordedSamples[s] = delivered[s]

\* Recording and playing, while the callback runs: frameIndex is how far it is.
Filling ==
  /\ Len(delivered) = data.frameIndex
  /\ \A s \in 1..data.frameIndex : data.recordedSamples[s] = delivered[s]

Playing ==
  /\ Len(heard) = data.frameIndex
  /\ \A s \in 1..data.frameIndex : heard[s] = data.recordedSamples[s]

\* The whole array has been played, and silence after it.
AllPlayed ==
  /\ data.maxFrameIndex <= Len(heard)
  /\ Len(heard) <= data.maxFrameIndex + PaexFrames
  /\ \A s \in 1..Len(heard) :
       heard[s] = IF s <= data.maxFrameIndex THEN data.recordedSamples[s]
                  ELSE SAMPLE_SILENCE

\* How far paex_record is, from where its main thread and its stream are.
ProgressInv ==
  /\ xpc \in {"none", "start", "init"} => data.frameIndex = 0 /\ delivered = <<>>
  /\ xpc \in {"none", "start", "init", "recording"} => recorded_raw = <<>>
  /\ xpc \in {"none", "start", "init", "recording", "recorded"} => heard = <<>>
  /\ xpc = "recording" => xstream \in {"record", "complete"}
  /\ xpc = "recorded" =>
       data.frameIndex = 0 /\ recorded_raw \in {<<>>, data.recordedSamples}
  /\ xpc = "playing" => xstream \in {"play", "complete"}
  /\ xstream = "record" => Filling
  /\ xpc = "recording" /\ xstream = "complete" => Filled
  /\ xpc \in {"recorded", "playing"} \/ xstream = "play" => Filled
  /\ xstream = "play" => Playing
  /\ xpc = "playing" /\ xstream = "complete" => AllPlayed
  /\ xstream \in {"off", "record", "play", "complete"}
  /\ array \in {"null", "live", "freed"}

PaexInv == PaexTypes /\ ArrayInv /\ ProgressInv

\* How much of the array the next buffer is.
LEMMA BufferFits ==
  ASSUME PaexTypes
  PROVE  /\ FramesToCalc \in Nat /\ FramesToCalc <= PaexFrames
         /\ data.frameIndex \in Nat /\ data.maxFrameIndex \in Nat \ {0}
         /\ data.frameIndex + FramesToCalc <= data.maxFrameIndex
         /\ paexFramesLeft < PaexFrames =>
              data.frameIndex + FramesToCalc = data.maxFrameIndex
         /\ ~(paexFramesLeft < PaexFrames) => FramesToCalc = PaexFrames
         /\ PaexFrames \in Nat \ {0}
<1>1. /\ data.frameIndex \in Nat /\ data.maxFrameIndex \in Nat \ {0}
      /\ data.frameIndex <= data.maxFrameIndex /\ PaexFrames \in Nat \ {0}
  BY PaexAssumption DEF PaexTypes
<1>. QED BY ONLY <1>1 DEF FramesToCalc, paexFramesLeft

\* One buffer recorded: the array is filled as far as the frames delivered reach.
LEMMA RecordedOn ==
  ASSUME PaexTypes, Filling, recordCallback
  PROVE  /\ PaexTypes'
         /\ paexFramesLeft < PaexFrames => Filled'
         /\ ~(paexFramesLeft < PaexFrames) => Filling'
<1> DEFINE
  index == data.frameIndex
  max == data.maxFrameIndex
  calc == FramesToCalc
  samples == data.recordedSamples
<1>1. PICK input \in InputBuffer :
        /\ data' = [data EXCEPT
             !.recordedSamples = [s \in DOMAIN @ |->
               IF s \in index + 1..index + calc THEN input[s - index] ELSE @[s]],
             !.frameIndex = @ + calc]
        /\ delivered' = delivered \o input
  BY DEF recordCallback
<1>2. UNCHANGED <<recorded_raw, heard>>
  BY DEF recordCallback
<1>3. /\ calc \in Nat /\ calc <= PaexFrames /\ index \in Nat /\ max \in Nat \ {0}
      /\ index + calc <= max /\ PaexFrames \in Nat \ {0}
      /\ paexFramesLeft < PaexFrames => index + calc = max
      /\ ~(paexFramesLeft < PaexFrames) => calc = PaexFrames
  BY BufferFits
<1>4. /\ samples \in Seq(Nat) /\ DOMAIN samples = 1..max
      /\ \A s \in 1..max : samples[s] \in Nat
      /\ delivered \in Seq(Nat) /\ max \in TotalFrames
  BY LenProperties, ElementOfSeq DEF PaexTypes
<1>5. Len(delivered) = index /\ \A s \in 1..index : samples[s] = delivered[s]
  BY DEF Filling
<1>6. input \in Seq(Nat) /\ Len(input) = PaexFrames
      /\ \A i \in 1..PaexFrames : input[i] \in Nat
  <2>1. input \in [1..PaexFrames -> Nat]
    BY <1>3, <1>5 DEF InputBuffer, SAMPLE_SILENCE
  <2>2. input \in Seq(Nat)
    BY ONLY <1>3, <2>1, SeqDef
  <2>. QED BY ONLY <1>3, <2>1, <2>2, LenProperties
<1>7. /\ delivered' \in Seq(Nat) /\ Len(delivered') = index + PaexFrames
      /\ \A i \in 1..index + PaexFrames :
           delivered'[i] = IF i <= index THEN delivered[i] ELSE input[i - index]
  <2>1. /\ delivered \o input \in Seq(Nat)
        /\ Len(delivered \o input) = Len(delivered) + Len(input)
        /\ \A i \in 1..Len(delivered) + Len(input) : (delivered \o input)[i]
             = IF i <= Len(delivered) THEN delivered[i] ELSE input[i - Len(delivered)]
    BY ONLY <1>4, <1>6, ConcatProperties
  <2>2. delivered' = delivered \o input
    BY <1>1
  <2> HIDE DEF index
  <2>. QED BY ONLY <1>5, <1>6, <2>1, <2>2
<1> DEFINE filled == [s \in 1..max |->
             IF s \in index + 1..index + calc THEN input[s - index] ELSE samples[s]]
<1>8. data' = [frameIndex |-> index + calc, maxFrameIndex |-> max,
               recordedSamples |-> filled]
  <2>1. data = [frameIndex |-> index, maxFrameIndex |-> max, recordedSamples |-> samples]
    BY DEF PaexTypes
  <2>. QED BY <1>1, <1>4, <2>1
<1>9. filled \in [1..max -> Nat]
  <2> SUFFICES ASSUME NEW s \in 1..max,
                      s \in index + 1..index + calc
               PROVE  input[s - index] \in Nat
    BY <1>4
  <2>1. s - index \in 1..PaexFrames
    BY <1>3
  <2>. QED BY <1>6, <2>1
<1>10. \A s \in 1..index + calc : filled[s] = delivered'[s]
  <2> TAKE s \in 1..index + calc
  <2>1. s \in 1..max /\ s \in 1..index + PaexFrames
    BY <1>3
  <2>2. CASE s <= index
    BY <1>3, <1>5, <1>7, <2>1, <2>2
  <2>3. CASE ~(s <= index)
    <3>1. s \in index + 1..index + calc
      BY <1>3, <2>3
    <3>2. filled[s] = input[s - index]
      BY <2>1, <3>1
    <3>3. delivered'[s] = input[s - index]
      BY <1>7, <2>1, <2>3
    <3>. QED BY <3>2, <3>3
  <2>. QED BY <2>2, <2>3
<1> HIDE DEF index, max, calc, samples, filled
<1>11. filled \in Seq(Nat) /\ Len(filled) = max
  <2>1. filled \in Seq(Nat)
    BY ONLY <1>3, <1>9, SeqDef
  <2>. QED BY ONLY <1>3, <1>9, <2>1, LenProperties
<1>12. PaexTypes'
  <2>1. /\ data' \in [frameIndex : Nat, maxFrameIndex : TotalFrames,
                     recordedSamples : Seq(Nat)]
        /\ data'.frameIndex <= data'.maxFrameIndex
        /\ Len(data'.recordedSamples) = data'.maxFrameIndex
    BY ONLY <1>3, <1>4, <1>8, <1>11
  <2>. QED BY <1>2, <1>7, <2>1 DEF PaexTypes
<1>13. paexFramesLeft < PaexFrames => Filled'
  BY <1>3, <1>7, <1>8, <1>10 DEF Filled
<1>14. ~(paexFramesLeft < PaexFrames) => Filling'
  BY <1>3, <1>7, <1>8, <1>10 DEF Filling
<1>. QED BY <1>12, <1>13, <1>14

\* One buffer played: the next frames of the array, and silence after the last.
LEMMA PaexPlayedOn ==
  ASSUME PaexTypes, Playing, playCallback
  PROVE  /\ PaexTypes' /\ UNCHANGED <<delivered, recorded_raw>>
         /\ data'.maxFrameIndex = data.maxFrameIndex
         /\ data'.recordedSamples = data.recordedSamples
         /\ paexFramesLeft < PaexFrames => AllPlayed'
         /\ ~(paexFramesLeft < PaexFrames) => Playing'
<1> DEFINE
  index == data.frameIndex
  max == data.maxFrameIndex
  calc == FramesToCalc
  samples == data.recordedSamples
  silence == PaexFrames - calc
<1>1. /\ heard' = heard \o SubSeq(samples, index + 1, index + calc)
                       \o [s \in 1..silence |-> 0]
      /\ data' = [data EXCEPT !.frameIndex = @ + calc]
      /\ UNCHANGED <<delivered, recorded_raw>>
  BY DEF playCallback, SAMPLE_SILENCE
<1>2. /\ calc \in Nat /\ calc <= PaexFrames /\ index \in Nat /\ max \in Nat \ {0}
      /\ index + calc <= max /\ PaexFrames \in Nat \ {0}
      /\ paexFramesLeft < PaexFrames => index + calc = max
      /\ ~(paexFramesLeft < PaexFrames) => calc = PaexFrames
  BY BufferFits
<1>3. /\ samples \in Seq(Nat) /\ Len(samples) = max /\ max \in TotalFrames
      /\ heard \in Seq(Nat) /\ delivered \in Seq(Nat) /\ recorded_raw \in Seq(Nat)
  BY DEF PaexTypes
<1>4. Len(heard) = index /\ \A s \in 1..index : heard[s] = samples[s]
  BY DEF Playing
<1>5. data' = [frameIndex |-> index + calc, maxFrameIndex |-> max,
               recordedSamples |-> samples]
  <2>1. data = [frameIndex |-> index, maxFrameIndex |-> max, recordedSamples |-> samples]
    BY DEF PaexTypes
  <2>. QED BY <1>1, <2>1
<1> HIDE DEF index, max, calc, samples
<1>6. silence \in Nat /\ index + calc + silence = index + PaexFrames
  BY <1>2
<1> HIDE DEF silence
<1>7. /\ heard' \in Seq(Nat) /\ Len(heard') = index + calc + silence
      /\ \A s \in 1..index + calc : heard'[s] = samples[s]
      /\ \A s \in 1..index + calc + silence : s > index + calc => heard'[s] = 0
  <2>1. /\ samples \in Seq(Nat) /\ heard \in Seq(Nat) /\ index \in Nat
        /\ calc \in Nat /\ silence \in Nat /\ index + calc <= Len(samples)
        /\ Len(heard) = index /\ Agree(heard, samples, index)
    BY <1>2, <1>3, <1>4, <1>6 DEF Agree
  <2>2. PICK full : full = heard \o SubSeq(samples, index + 1, index + calc)
    OBVIOUS
  <2>3. /\ full \in Seq(Nat) /\ Len(full) = index + calc
        /\ \A s \in 1..index + calc : full[s] = samples[s]
    <3>1. /\ heard \o SubSeq(samples, index + 1, index + calc) \in Seq(Nat)
          /\ Len(heard \o SubSeq(samples, index + 1, index + calc)) = index + calc
          /\ Agree(heard \o SubSeq(samples, index + 1, index + calc), samples,
                   index + calc)
      BY ONLY <2>1, PlayedOn
    <3>. QED BY ONLY <2>2, <3>1, Zenon DEF Agree
  <2>4. heard' = full \o [s \in 1..silence |-> 0]
    BY <1>1, <2>2
  <2>5. /\ heard' \in Seq(Nat) /\ Len(heard') = Len(full) + silence
        /\ \A s \in 1..Len(full) + silence :
             heard'[s] = IF s <= Len(full) THEN full[s] ELSE 0
    BY ONLY <2>1, <2>3, <2>4, Silenced
  <2>6. \A s \in 1..index + calc :
          s \in 1..index + calc + silence /\ s <= index + calc
    BY ONLY <2>1
  <2>. QED BY ONLY <2>1, <2>3, <2>5, <2>6, SMTT(20)
<1>8. PaexTypes'
  <2>1. /\ data' \in [frameIndex : Nat, maxFrameIndex : TotalFrames,
                     recordedSamples : Seq(Nat)]
        /\ data'.frameIndex <= data'.maxFrameIndex
        /\ Len(data'.recordedSamples) = data'.maxFrameIndex
    BY ONLY <1>2, <1>3, <1>5
  <2>. QED BY <1>1, <1>3, <1>7, <2>1 DEF PaexTypes
<1>9. ASSUME paexFramesLeft < PaexFrames PROVE AllPlayed'
  <2>1. index + calc = max /\ Len(heard') = max + silence /\ silence <= PaexFrames
    BY <1>2, <1>6, <1>7, <1>9
  <2>2. /\ max <= Len(heard') /\ Len(heard') <= max + PaexFrames
    BY <1>2, <1>6, <2>1
  <2>3. \A s \in 1..Len(heard') :
          heard'[s] = IF s <= max THEN samples[s] ELSE 0
    <3> TAKE s \in 1..Len(heard')
    <3>1. CASE s <= max
      BY <1>2, <1>7, <2>1, <3>1
    <3>2. CASE ~(s <= max)
      BY <1>2, <1>7, <2>1, <3>2
    <3>. QED BY <3>1, <3>2
  <2>. QED BY <1>5, <2>2, <2>3 DEF AllPlayed, SAMPLE_SILENCE
<1>10. ASSUME ~(paexFramesLeft < PaexFrames) PROVE Playing'
  <2>1. calc = PaexFrames /\ silence = 0 /\ Len(heard') = index + calc
    BY <1>2, <1>6, <1>7, <1>10
  <2>. QED BY <1>5, <1>7, <2>1 DEF Playing
<1>. QED BY <1>1, <1>5, <1>8, <1>9, <1>10 DEF max, samples

\* A step of paex_record keeps what is said of it.
LEMMA PaexStep ==
  ASSUME PaexInv, PaexNext
  PROVE  PaexInv'
<1> USE DEF PaexInv
<1>1. ArrayInv'
  BY PaexKeepsArray
<1>2. CASE Allocate \/ StartRecording \/ StartPlayback \/ Played \/ StreamFails
           \/ Terminate \/ Free
  <2>1. UNCHANGED <<data, delivered, recorded_raw, heard>>
    BY <1>2 DEF Allocate, StartRecording, StartPlayback, Played, StreamFails,
                Terminate, Free
  <2>2. PaexTypes'
    BY <2>1 DEF PaexTypes
  <2>3. /\ (Filled' <=> Filled) /\ (Filling' <=> Filling)
        /\ (Playing' <=> Playing) /\ (AllPlayed' <=> AllPlayed)
    BY <2>1 DEF Filled, Filling, Playing, AllPlayed
  <2>4. CASE Allocate
    BY <1>1, <2>1, <2>2, <2>3, <2>4 DEF Allocate, Done, ProgressInv
  <2>5. CASE StartRecording
    <3>1. data.frameIndex = 0 /\ delivered = <<>>
      BY <2>5 DEF StartRecording, ProgressInv
    <3>2. Filling
      BY <3>1 DEF Filling
    <3>. QED BY <1>1, <2>1, <2>2, <2>3, <2>5, <3>2
      DEF StartRecording, Done, ProgressInv
  <2>6. CASE StartPlayback
    <3>1. data.frameIndex = 0 /\ heard = <<>>
      BY <2>6 DEF StartPlayback, ProgressInv
    <3>2. Playing
      BY <3>1 DEF Playing
    <3>. QED BY <1>1, <2>1, <2>2, <2>3, <2>6, <3>2
      DEF StartPlayback, Done, ProgressInv
  <2>7. CASE Played \/ StreamFails
    BY <1>1, <2>1, <2>2, <2>3, <2>7 DEF Played, StreamFails, Done, ProgressInv
  <2>8. CASE Terminate \/ Free
    BY <1>1, <2>1, <2>2, <2>3, <2>8 DEF Terminate, Free, Done, ProgressInv
  <2>. QED BY <1>2, <2>4, <2>5, <2>6, <2>7, <2>8
<1>3. CASE Recorded
  <2>1. /\ data' = [data EXCEPT !.frameIndex = 0]
        /\ recorded_raw' \in {recorded_raw, data.recordedSamples}
        /\ UNCHANGED <<delivered, heard>>
        /\ Filled /\ recorded_raw = <<>> /\ heard = <<>>
    BY <1>3 DEF Recorded, ProgressInv
  <2>2. /\ data'.frameIndex = 0 /\ data'.maxFrameIndex = data.maxFrameIndex
        /\ data'.recordedSamples = data.recordedSamples
        /\ data' \in [frameIndex : Nat, maxFrameIndex : TotalFrames,
                     recordedSamples : Seq(Nat)]
    BY <2>1 DEF PaexTypes
  <2>3. data'.frameIndex <= data'.maxFrameIndex
    BY <2>2, PaexAssumption DEF PaexTypes
  <2>4. PaexTypes'
    BY <2>1, <2>2, <2>3 DEF PaexTypes
  <2>5. Filled'
    BY <2>1, <2>2 DEF Filled
  <2>. QED BY <1>1, <1>3, <2>1, <2>2, <2>4, <2>5 DEF Recorded, ProgressInv
<1>4. CASE recordCallback
  <2>1. Filling
    BY <1>4 DEF recordCallback, ProgressInv
  <2>2. /\ PaexTypes'
        /\ paexFramesLeft < PaexFrames => Filled'
        /\ ~(paexFramesLeft < PaexFrames) => Filling'
    BY <1>4, <2>1, RecordedOn
  <2>. QED BY <1>1, <1>4, <2>2 DEF recordCallback, StreamAfter, ProgressInv, ArrayInv
<1>5. CASE playCallback
  <2>1. Playing /\ Filled
    BY <1>5 DEF playCallback, ProgressInv
  <2>2. /\ PaexTypes' /\ UNCHANGED <<delivered, recorded_raw>>
        /\ data'.maxFrameIndex = data.maxFrameIndex
        /\ data'.recordedSamples = data.recordedSamples
        /\ paexFramesLeft < PaexFrames => AllPlayed'
        /\ ~(paexFramesLeft < PaexFrames) => Playing'
    BY <1>5, <2>1, PaexPlayedOn
  <2>3. Filled'
    BY <2>1, <2>2 DEF Filled
  <2>. QED BY <1>1, <1>5, <2>2, <2>3 DEF playCallback, StreamAfter, ProgressInv, ArrayInv
<1>. QED BY <1>2, <1>3, <1>4, <1>5 DEF PaexNext, PaexMain, PaexCallback

\* It begins so.
LEMMA PaexBegins ==
  ASSUME PaexInit
  PROVE  PaexInv
<1>1. PICK frames \in TotalFrames :
        data = [frameIndex |-> 0, maxFrameIndex |-> frames,
                recordedSamples |-> [s \in 1..frames |-> SAMPLE_SILENCE]]
  BY DEF PaexInit
<1>2. frames \in Nat
  BY PaexAssumption
<1>3. /\ [s \in 1..frames |-> 0] \in Seq(Nat)
      /\ Len([s \in 1..frames |-> 0]) = frames
  BY ONLY <1>2, Pad, 0 \in Nat
<1>4. PaexTypes
  <2>1. /\ data \in [frameIndex : Nat, maxFrameIndex : TotalFrames,
                    recordedSamples : Seq(Nat)]
        /\ data.frameIndex <= data.maxFrameIndex
        /\ Len(data.recordedSamples) = data.maxFrameIndex
    BY <1>1, <1>2, <1>3 DEF SAMPLE_SILENCE
  <2>2. <<>> \in Seq(Nat)
    OBVIOUS
  <2>. QED BY <2>1, <2>2 DEF PaexTypes, PaexInit
<1>5. ArrayInv
  BY DEF PaexInit, ArrayInv
<1>6. ProgressInv
  BY <1>1 DEF PaexInit, ProgressInv
<1>. QED BY <1>4, <1>5, <1>6 DEF PaexInv

\* Nothing else touches what paex_record has.
LEMMA PaexRests ==
  ASSUME PaexInv, UNCHANGED paexVars
  PROVE  PaexInv'
<1>1. UNCHANGED <<data, array, xpc, xstream, delivered, recorded_raw, heard>>
  BY DEF paexVars
<1>2. PaexTypes' /\ ArrayInv'
  BY <1>1 DEF PaexInv, PaexTypes, ArrayInv
<1>3. /\ (Filled' <=> Filled) /\ (Filling' <=> Filling)
      /\ (Playing' <=> Playing) /\ (AllPlayed' <=> AllPlayed)
  BY <1>1 DEF Filled, Filling, Playing, AllPlayed
<1>. QED BY <1>1, <1>2, <1>3 DEF PaexInv, ProgressInv

LEMMA PaexInvariance == Spec => []PaexInv
<1>1. Init => PaexInv
  BY PaexBegins DEF Init
<1>2. PaexInv /\ [Next]_vars => PaexInv'
  <2> SUFFICES ASSUME PaexInv, [Next]_vars PROVE PaexInv'
    OBVIOUS
  <2>1. CASE Paex
    BY <2>1, PaexStep DEF Paex
  <2>2. CASE UNCHANGED paexVars
    BY <2>2, PaexRests
  <2>. QED BY <2>1, <2>2 DEF Next, Record, Play, vars
<1>. QED BY <1>1, <1>2, PTL DEF Spec

\* The array recorded is the array played, in a state of which all that is true.
LEMMA PaexPlaysArray ==
  ASSUME PaexInv
  PROVE  ArrayIsPlayed
<1> DEFINE
  max == data.maxFrameIndex
  samples == data.recordedSamples
  recorded == SubSeq(delivered, 1, max)
<1>1. /\ max \in Nat /\ samples \in Seq(Nat) /\ Len(samples) = max
      /\ delivered \in Seq(Nat) /\ heard \in Seq(Nat)
  BY PaexAssumption DEF PaexInv, PaexTypes
<1>2. ASSUME Filled PROVE samples = recorded
  <2>1. max <= Len(delivered) /\ \A s \in 1..max : samples[s] = delivered[s]
    BY <1>2 DEF Filled
  <2> HIDE DEF max, samples
  <2>2. /\ recorded \in Seq(Nat) /\ Len(recorded) = max
        /\ \A i \in 1..max : recorded[i] = delivered[i]
    <3>1. /\ SubSeq(delivered, 0 + 1, 0 + max) \in Seq(Nat)
          /\ Len(SubSeq(delivered, 0 + 1, 0 + max)) = max
          /\ \A i \in 1..max : SubSeq(delivered, 0 + 1, 0 + max)[i] = delivered[0 + i]
      <4>1. delivered \in Seq(Nat) /\ 0 \in Nat /\ max \in Nat /\ 0 + max <= Len(delivered)
        BY <1>1, <2>1
      <4>. QED BY ONLY <4>1, Piece
    <3>2. 0 + max = max /\ \A i \in 1..max : 0 + i = i
      BY <1>1
    <3>. QED BY <3>1, <3>2
  <2> HIDE DEF recorded
  <2>. QED BY <1>1, <2>1, <2>2, SeqEqual
<1>3. xpc = "recorded" => samples = recorded /\ recorded_raw \in {<<>>, recorded}
  BY <1>2 DEF PaexInv, ProgressInv
<1>4. ASSUME xpc = "playing", xstream = "complete"
      PROVE  /\ IsPrefix(recorded, heard)
             /\ \A s \in Len(recorded) + 1..Len(heard) : heard[s] = SAMPLE_SILENCE
             /\ Len(heard) <= Len(recorded) + PaexFrames
  <2>1. samples = recorded /\ AllPlayed
    BY <1>2, <1>4 DEF PaexInv, ProgressInv
  <2> HIDE DEF recorded
  <2>2. /\ max <= Len(heard) /\ Len(heard) <= max + PaexFrames
        /\ \A s \in 1..Len(heard) :
             heard[s] = IF s <= max THEN recorded[s] ELSE SAMPLE_SILENCE
    BY <2>1 DEF AllPlayed
  <2>3. recorded \in Seq(Nat) /\ Len(recorded) = max
    BY <1>1, <2>1
  <2> HIDE DEF max, samples
  <2>4. IsPrefix(recorded, heard)
    BY <1>1, <2>2, <2>3, Prefixed
  <2>5. Len(heard) \in Nat
    BY <1>1, LenProperties
  <2>6. \A s \in max + 1..Len(heard) : s \in 1..Len(heard) /\ ~(s <= max)
    BY <1>1, <2>5
  <2>. QED BY <2>2, <2>3, <2>4, <2>6
<1>. QED BY <1>3, <1>4 DEF ArrayIsPlayed

-----------------------------------------------------------------------------
(* record-to-file: the buffers and the file.                               *)

Samples == Nat \ {0}

\* The types of what record-to-file uses, but for the bounds of its counters.
RecordTypes ==
  /\ file \in [header : [riff : BOOLEAN, channels : {0} \cup ChannelCounts,
                        data_size : Nat],
              data : Seq(Samples)]
  /\ NumChannel \in ChannelCounts
  /\ rpc \in {"none", "open", "start", "loop", "lock", "test", "block", "wait", "drain",
              "write", "active", "close", "done", "failed"}
  /\ cpc \in {"idle", "push", "return"}
  /\ hpc \in {"none", "notify", "done"}
  /\ stream \in {"off", "active", "complete"}
  /\ stop \in BOOLEAN
  /\ captured \in Nat
  /\ samples_queue \in Seq(Seq(Samples))
  /\ record_queue \in Seq(Seq(Samples))
  /\ total \in Nat
  /\ spurious \in 0..MaxSpurious

\* Nothing is captured before the stream runs, and at most one buffer after the
\* last that the bound allows, which sees stop and ends the stream.
CaptureInv ==
  /\ rpc \in {"none", "open", "start"} => captured = 0 /\ cpc = "idle" /\ stream = "off"
  /\ cpc # "idle" => captured > 0
  /\ captured <= MaxBuffers + 1
  /\ captured > MaxBuffers => stop /\ (cpc # "idle" \/ stream # "active")

\* n buffers are in the file, sample for sample, and those that wait follow.
InFile(n) ==
  /\ Len(file.data) = n * FramesPerBuffer
  /\ \A k \in 1..n : \A s \in 1..FramesPerBuffer :
       file.data[(k - 1) * FramesPerBuffer + s] = Copied(k)[s]
InQueues(n) == \A i \in DOMAIN Waiting : Waiting[i] = Copied(n + i)

\* The header is a hole until the file is closed, and says then what was counted.
HeaderInv ==
  /\ rpc # "done" => file.header = Hole
  /\ rpc = "done" => file.header = WavHeader(total, NumChannel)

RecordInv ==
  /\ RecordTypes
  /\ CaptureInv
  /\ Written \in Nat /\ InFile(Written) /\ InQueues(Written)
  /\ total = Len(file.data)
  /\ HeaderInv

\* A buffer copied is one of the right size.
LEMMA CopiedBuffer ==
  ASSUME NumChannel \in ChannelCounts, NEW k \in Nat \ {0}
  PROVE  /\ Copied(k) \in Seq(Samples) /\ Len(Copied(k)) = FramesPerBuffer
<1>1. FramesPerBuffer \in Nat /\ NumChannel \in Nat /\ k - 1 \in Nat
  BY RecordAssumption
<1>2. (k - 1) * FramesPerBuffer \in Nat
  BY ONLY <1>1
<1>3. (k - 1) * FramesPerBuffer * NumChannel \in Nat
  BY ONLY <1>1, <1>2
<1> DEFINE first == (k - 1) * FramesPerBuffer * NumChannel
<1>4. Copied(k) = [s \in 1..FramesPerBuffer |-> first + s]
  BY DEF Copied
<1> HIDE DEF first
<1>5. Copied(k) \in [1..FramesPerBuffer -> Samples]
  BY <1>3, <1>4 DEF first, Samples
<1>6. Copied(k) \in Seq(Samples)
  BY ONLY <1>1, <1>5, SeqDef
<1>. QED BY ONLY <1>1, <1>5, <1>6, LenProperties

\* A step that leaves the file, the queues and the count of buffers alone.
LEMMA NothingMoves ==
  ASSUME UNCHANGED <<file, NumChannel, queues, total>>, CopiedSoFar' = CopiedSoFar,
         RecordInv
  PROVE  /\ Written' \in Nat /\ InFile(Written)' /\ InQueues(Written)'
         /\ total' = Len(file'.data)
<1>1. UNCHANGED <<file, NumChannel, samples_queue, record_queue, total>>
  BY DEF queues
<1>2. Waiting' = Waiting /\ Written' = Written
  BY <1>1 DEF Waiting, Written
<1>3. \A k : Copied(k)' = Copied(k)
  BY <1>1 DEF Copied
<1>. QED BY <1>1, <1>2, <1>3 DEF RecordInv, InFile, InQueues, Copied

\* The steps that move no buffer.
Unmoved ==
  \/ OpenFails \/ Open \/ Start \/ StartFails
  \/ LoopTest \/ Lock \/ Test \/ Block \/ SpuriousWake
  \/ WriteEnds \/ CloseStream \/ StreamError
  \/ CallbackLock \/ CallbackReturn \/ HandlerStop \/ HandlerNotify

\* What a step leaves of the types.
LEMMA RecordTypesStep ==
  ASSUME RecordTypes, CaptureInv, total = Len(file.data), RecordNext
  PROVE  RecordTypes'
<1> USE DEF RecordTypes
<1>1. CASE OpenFails \/ Open \/ Start \/ StartFails \/ LoopTest \/ Lock \/ Test \/ Block
  BY <1>1 DEF OpenFails, Open, Start, StartFails, LoopTest, Lock, Test, Block, Main, queues
<1>2. CASE SpuriousWake
  BY <1>2, RecordAssumption DEF SpuriousWake, Main, queues
<1>3. CASE WriteEnds \/ CloseStream \/ StreamError
  BY <1>3 DEF WriteEnds, CloseStream, StreamError, Main, queues
<1>4. CASE HandlerStop \/ HandlerNotify
  BY <1>4 DEF HandlerStop, HandlerNotify, Notified, queues
<1>5. CASE CallbackLock \/ CallbackReturn
  BY <1>5 DEF CallbackLock, CallbackReturn, queues
<1>6. CASE CallbackPush
  <2>1. captured \in Nat \ {0}
    BY <1>6 DEF CallbackPush, CaptureInv
  <2>2. Copied(captured) \in Seq(Samples)
    BY <2>1, CopiedBuffer
  <2>3. samples_queue' \in Seq(Seq(Samples))
    BY <1>6, <2>2, AppendProperties DEF CallbackPush
  <2>. QED BY <1>6, <2>3 DEF CallbackPush, NotifiedByCallback, Notified, queues
<1>7. CASE Drain
  <2>1. record_queue' \in Seq(Seq(Samples)) /\ samples_queue' \in Seq(Seq(Samples))
    BY <1>7, ConcatProperties DEF Drain, Taken
  <2>. QED BY <1>7, <2>1 DEF Drain, Main
<1>8. CASE Write
  <2>1. /\ Head(record_queue) \in Seq(Samples)
        /\ Tail(record_queue) \in Seq(Seq(Samples))
    BY <1>8, HeadTailProperties DEF Write
  <2>2. /\ file.data \o Head(record_queue) \in Seq(Samples)
        /\ Len(Head(record_queue)) \in Nat
    BY <2>1, ConcatProperties, LenProperties
  <2>3. file' \in [header : [riff : BOOLEAN, channels : {0} \cup ChannelCounts,
                           data_size : Nat],
                 data : Seq(Samples)]
    BY <1>8, <2>2 DEF Write
  <2>4. total' \in Nat
    BY <1>8, <2>2 DEF Write, Counted
  <2>. QED BY <1>8, <2>1, <2>3, <2>4 DEF Write, Main
<1>9. CASE CloseFile
  <2>1. NumChannel \in Nat /\ total \in Nat
    BY RecordAssumption
  <2>2. total * NumChannel \in Nat
    BY ONLY <2>1
  <2>3. total * NumChannel * 2 \in Nat
    BY ONLY <2>2
  <2>4. WavHeader(total, NumChannel)
          \in [riff : BOOLEAN, channels : {0} \cup ChannelCounts, data_size : Nat]
    BY <2>3 DEF WavHeader, DataSize, BytesPerSample
  <2>5. file' \in [header : [riff : BOOLEAN, channels : {0} \cup ChannelCounts,
                           data_size : Nat],
                 data : Seq(Samples)]
    BY <1>9, <2>4 DEF CloseFile
  <2>. QED BY <1>9, <2>5 DEF CloseFile, Main, queues
<1>. QED BY <1>1, <1>2, <1>3, <1>4, <1>5, <1>6, <1>7, <1>8, <1>9
  DEF RecordNext, Recorder, Callback

\* What the device delivers stays bounded.
LEMMA CaptureStep ==
  ASSUME RecordTypes, CaptureInv, RecordNext
  PROVE  CaptureInv'
<1>. USE RecordAssumption DEF RecordTypes, CaptureInv
<1>1. CASE OpenFails \/ Open \/ Start \/ StartFails \/ LoopTest \/ Lock \/ Test \/ Block
  BY <1>1 DEF OpenFails, Open, Start, StartFails, LoopTest, Lock, Test, Block, Main
<1>2. CASE SpuriousWake \/ Drain \/ Write \/ WriteEnds \/ CloseFile
  BY <1>2 DEF SpuriousWake, Drain, Write, WriteEnds, CloseFile, Main
<1>3. CASE CloseStream \/ StreamError
  BY <1>3 DEF CloseStream, StreamError, Main
<1>4. CASE HandlerStop
  BY <1>4 DEF HandlerStop
<1>5. CASE HandlerNotify
  BY <1>5 DEF HandlerNotify, Notified
<1>6. CASE CallbackLock
  BY <1>6 DEF CallbackLock
<1>7. CASE CallbackPush
  BY <1>7 DEF CallbackPush, NotifiedByCallback, Notified
<1>8. CASE CallbackReturn
  BY <1>8 DEF CallbackReturn
<1>. QED BY <1>1, <1>2, <1>3, <1>4, <1>5, <1>6, <1>7, <1>8
  DEF RecordNext, Recorder, Callback

\* The callback pushes the buffer after those that wait.
LEMMA PushFlows ==
  ASSUME RecordInv, CallbackPush
  PROVE  /\ Written' = Written /\ InFile(Written)' /\ InQueues(Written)'
         /\ total' = Len(file'.data)
<1>1. /\ samples_queue' = Append(samples_queue, Copied(captured))
      /\ cpc = "push" /\ cpc' = "return"
      /\ UNCHANGED <<file, NumChannel, captured, record_queue, total>>
  BY DEF CallbackPush
<1>2. /\ captured \in Nat \ {0} /\ NumChannel \in ChannelCounts
      /\ samples_queue \in Seq(Seq(Samples)) /\ record_queue \in Seq(Seq(Samples))
      /\ Written \in Nat
  BY <1>1 DEF RecordInv, RecordTypes, CaptureInv
<1>3. Copied(captured) \in Seq(Samples)
  BY <1>2, CopiedBuffer
<1>4. PICK new : new = Copied(captured)
  OBVIOUS
<1>5. /\ Waiting \in Seq(Seq(Samples)) /\ Len(Waiting) \in Nat
      /\ DOMAIN Waiting = 1..Len(Waiting)
  BY <1>2, ConcatProperties, LenProperties DEF Waiting
<1>6. Waiting' = Append(Waiting, new)
  <2>1. samples_queue' = samples_queue \o <<new>> /\ <<new>> \in Seq(Seq(Samples))
    BY <1>1, <1>2, <1>3, <1>4, AppendIsConcat
  <2>2. Waiting' = record_queue \o (samples_queue \o <<new>>)
    BY <1>1, <2>1 DEF Waiting
  <2>3. Waiting' = Waiting \o <<new>>
    <3>1. record_queue \o (samples_queue \o <<new>>)
            = (record_queue \o samples_queue) \o <<new>>
      BY ONLY <1>2, <2>1, ConcatAssociative
    <3>. QED BY <2>2, <3>1 DEF Waiting
  <2>. QED BY <1>3, <1>4, <1>5, <2>3, AppendIsConcat
<1>7. /\ Len(Waiting') = Len(Waiting) + 1 /\ DOMAIN Waiting' = 1..Len(Waiting) + 1
      /\ \A i \in DOMAIN Waiting : Waiting'[i] = Waiting[i]
      /\ Waiting'[Len(Waiting) + 1] = new
  <2> HIDE DEF Waiting
  <2>. QED BY ONLY <1>3, <1>4, <1>5, <1>6, Appended
<1>8. CopiedSoFar = captured - 1 /\ CopiedSoFar' = captured
  BY <1>1, <1>2 DEF CopiedSoFar
<1>9. /\ Written + Len(Waiting) = captured - 1
      /\ Written' + (Len(Waiting) + 1) = captured
      /\ Written' = Written
  <2>1. Written = captured - 1 - Len(Waiting) /\ Written' = captured - Len(Waiting')
    BY <1>8 DEF Written
  <2>. QED BY ONLY <1>2, <1>5, <1>7, <2>1
<1>10. \A k : Copied(k)' = Copied(k)
  BY <1>1 DEF Copied
<1>11. InFile(Written)'
  BY <1>1, <1>9, <1>10 DEF RecordInv, InFile, Copied
<1>12. \A i \in 1..Len(Waiting) + 1 : Waiting'[i] = Copied(Written + i)
  <2> TAKE i \in 1..Len(Waiting) + 1
  <2>1. CASE i \in 1..Len(Waiting)
    BY <1>5, <1>7, <2>1 DEF RecordInv, InQueues
  <2>2. CASE i = Len(Waiting) + 1
    <3>1. Written + i = captured
      BY ONLY <1>2, <1>5, <1>9, <2>2
    <3>. QED BY <1>4, <1>7, <2>2, <3>1
  <2>3. i \in 1..Len(Waiting) \/ i = Len(Waiting) + 1
    BY <1>5
  <2>. QED BY <2>1, <2>2, <2>3
<1>13. InQueues(Written)'
  BY <1>1, <1>7, <1>9, <1>10, <1>12 DEF InQueues, Copied
<1>. QED BY <1>1, <1>9, <1>11, <1>13 DEF RecordInv

\* The main thread takes what is in samples_queue behind what it has.
LEMMA DrainFlows ==
  ASSUME RecordInv, Drain
  PROVE  /\ Written' = Written /\ InFile(Written)' /\ InQueues(Written)'
         /\ total' = Len(file'.data)
<1>1. /\ record_queue' = record_queue \o samples_queue /\ samples_queue' = <<>>
      /\ UNCHANGED <<file, NumChannel, captured, cpc, total>>
  BY DEF Drain, Taken, Main
<1>2. Waiting' = Waiting
  <2>1. /\ samples_queue \in Seq(Seq(Samples)) /\ record_queue \in Seq(Seq(Samples))
    BY DEF RecordInv, RecordTypes
  <2>2. Waiting \in Seq(Seq(Samples))
    BY <2>1, ConcatProperties DEF Waiting
  <2>. QED BY <1>1, <2>2, ConcatEmptySeq DEF Waiting
<1>3. CopiedSoFar' = CopiedSoFar /\ Written' = Written
  BY <1>1, <1>2 DEF CopiedSoFar, Written
<1>. QED BY <1>1, <1>2, <1>3 DEF RecordInv, InFile, InQueues, Copied

\* The main thread writes the first buffer that waits.
LEMMA WriteFlows ==
  ASSUME RecordInv, Write
  PROVE  /\ Written' \in Nat /\ InFile(Written)' /\ InQueues(Written)'
         /\ total' = Len(file'.data)
<1>1. /\ record_queue # <<>> /\ record_queue' = Tail(record_queue)
      /\ file' = [file EXCEPT !.data = @ \o Head(record_queue)]
      /\ total' = total + Len(Head(record_queue))
      /\ UNCHANGED <<samples_queue, NumChannel, captured, cpc>>
  BY DEF Write, Counted, Main
<1>2. /\ samples_queue \in Seq(Seq(Samples)) /\ record_queue \in Seq(Seq(Samples))
      /\ NumChannel \in ChannelCounts /\ Written \in Nat
      /\ file.data \in Seq(Samples) /\ FramesPerBuffer \in Nat \ {0}
      /\ total = Len(file.data) /\ captured \in Nat
  BY RecordAssumption DEF RecordInv, RecordTypes
<1> DEFINE first == Head(record_queue)
           rest == Tail(record_queue)
           n == Written
<1>3. /\ first = record_queue[1] /\ 1 \in DOMAIN record_queue
      /\ Len(record_queue) \in Nat \ {0}
      /\ rest \in Seq(Seq(Samples)) /\ Len(rest) = Len(record_queue) - 1
      /\ \A i \in 1..Len(rest) : rest[i] = record_queue[i + 1]
      /\ first \in Seq(Samples)
  <2>1. DOMAIN rest = 1..Len(rest)
    BY <1>1, <1>2, HeadTailProperties, LenProperties
  <2>. QED BY <1>1, <1>2, <2>1, Fronts
<1>4. /\ Len(Waiting) = Len(record_queue) + Len(samples_queue)
      /\ DOMAIN Waiting = 1..Len(Waiting)
      /\ Len(samples_queue) \in Nat
      /\ \A i \in 1..Len(Waiting) : Waiting[i] = IF i <= Len(record_queue)
           THEN record_queue[i] ELSE samples_queue[i - Len(record_queue)]
  <2>1. /\ record_queue \o samples_queue \in Seq(Seq(Samples))
        /\ Len(record_queue \o samples_queue) = Len(record_queue) + Len(samples_queue)
        /\ \A i \in 1..Len(record_queue) + Len(samples_queue) :
             (record_queue \o samples_queue)[i] = IF i <= Len(record_queue)
               THEN record_queue[i] ELSE samples_queue[i - Len(record_queue)]
    BY ONLY <1>2, ConcatProperties
  <2>2. Waiting = record_queue \o samples_queue
    BY DEF Waiting
  <2>3. /\ Waiting \in Seq(Seq(Samples))
        /\ Len(Waiting) = Len(record_queue) + Len(samples_queue)
        /\ \A i \in 1..Len(Waiting) : Waiting[i] = IF i <= Len(record_queue)
             THEN record_queue[i] ELSE samples_queue[i - Len(record_queue)]
    BY ONLY <2>1, <2>2
  <2>4. DOMAIN Waiting = 1..Len(Waiting) /\ Len(samples_queue) \in Nat
    BY ONLY <1>2, <2>3, LenProperties
  <2>. QED BY ONLY <2>3, <2>4
<1>5. /\ Len(Waiting') = Len(rest) + Len(samples_queue)
      /\ DOMAIN Waiting' = 1..Len(Waiting')
      /\ \A i \in 1..Len(Waiting') : Waiting'[i] = IF i <= Len(rest)
           THEN rest[i] ELSE samples_queue[i - Len(rest)]
  <2>1. Waiting' = rest \o samples_queue
    BY <1>1 DEF Waiting
  <2> HIDE DEF rest
  <2>2. /\ Waiting' \in Seq(Seq(Samples))
        /\ Len(Waiting') = Len(rest) + Len(samples_queue)
        /\ \A i \in 1..Len(rest) + Len(samples_queue) :
             Waiting'[i] = IF i <= Len(rest) THEN rest[i]
                           ELSE samples_queue[i - Len(rest)]
    <3>1. /\ rest \o samples_queue \in Seq(Seq(Samples))
          /\ Len(rest \o samples_queue) = Len(rest) + Len(samples_queue)
          /\ \A i \in 1..Len(rest) + Len(samples_queue) :
               (rest \o samples_queue)[i] = IF i <= Len(rest) THEN rest[i]
                                            ELSE samples_queue[i - Len(rest)]
      BY ONLY <1>2, <1>3, ConcatProperties
    <3>. QED BY ONLY <2>1, <3>1
  <2>3. DOMAIN Waiting' = 1..Len(Waiting')
    BY ONLY <2>2, LenProperties
  <2>. QED BY ONLY <2>2, <2>3
<1> HIDE DEF first, rest
<1>6. /\ Len(Waiting') = Len(Waiting) - 1 /\ Len(Waiting') \in Nat /\ Len(Waiting) \in Nat
      /\ \A i \in 1..Len(Waiting') :
           i + 1 \in 1..Len(Waiting) /\ Waiting'[i] = Waiting[i + 1]
  <2>1. Len(Waiting') = Len(Waiting) - 1 /\ Len(Waiting') \in Nat /\ Len(Waiting) \in Nat
    BY ONLY <1>3, <1>4, <1>5
  <2>2. ASSUME NEW i \in 1..Len(Waiting')
        PROVE  i + 1 \in 1..Len(Waiting) /\ Waiting'[i] = Waiting[i + 1]
    <3>1. i \in Nat /\ i + 1 \in 1..Len(Waiting)
      BY <2>1, <2>2
    <3>2. CASE i <= Len(rest)
      <4>1. i \in 1..Len(rest) /\ i + 1 <= Len(record_queue)
        BY <1>3, <2>2, <3>1, <3>2
      <4>. QED BY <1>3, <1>4, <1>5, <2>2, <3>1, <3>2, <4>1
    <3>3. CASE ~(i <= Len(rest))
      <4>1. /\ ~(i + 1 <= Len(record_queue))
            /\ i + 1 - Len(record_queue) = i - Len(rest)
        BY <1>3, <2>2, <3>1, <3>3
      <4>. QED BY <1>4, <1>5, <2>2, <3>1, <3>3, <4>1
    <3>. QED BY <3>1, <3>2, <3>3
  <2>. QED BY <2>1, <2>2
<1>7. Written' = n + 1
  <2>1. Written = CopiedSoFar - Len(Waiting) /\ Written' = CopiedSoFar' - Len(Waiting')
    BY DEF Written
  <2>2. CopiedSoFar' = CopiedSoFar /\ CopiedSoFar \in Int
    BY <1>1, <1>2 DEF CopiedSoFar
  <2>. QED BY ONLY <1>6, <2>1, <2>2
<1>8. \A k : Copied(k)' = Copied(k)
  BY <1>1 DEF Copied
<1>9. first = Copied(n + 1) /\ Len(first) = FramesPerBuffer
  <2>1. 1 \in 1..Len(Waiting) /\ Waiting[1] = first
    BY <1>3, <1>4, <1>6
  <2>2. first = Copied(n + 1)
    BY <1>4, <2>1 DEF RecordInv, InQueues
  <2>3. n + 1 \in Nat \ {0}
    BY <1>2
  <2>. QED BY <1>2, <2>2, <2>3, CopiedBuffer
<1>10. InQueues(Written)'
  <2>1. ASSUME NEW i \in 1..Len(Waiting') PROVE Waiting'[i] = Copied(n + 1 + i)
    <3>1. n + (i + 1) = n + 1 + i
      BY <1>2
    <3>. QED BY <1>4, <1>6, <3>1 DEF RecordInv, InQueues
  <2> HIDE DEF n
  <2>. QED BY <1>1, <1>5, <1>7, <1>8, <2>1 DEF InQueues, Copied
<1> DEFINE old == file.data
           new == old \o first
<1>11. file'.data = new
  BY <1>1 DEF first, RecordInv, RecordTypes
<1>12. /\ Len(old) = n * FramesPerBuffer /\ Len(old) \in Nat
       /\ \A k \in 1..n : \A s \in 1..FramesPerBuffer :
            old[(k - 1) * FramesPerBuffer + s] = Copied(k)[s]
  BY <1>2, LenProperties DEF RecordInv, InFile
<1> HIDE DEF old
<1>13. /\ Len(new) = Len(old) + FramesPerBuffer
       /\ \A i \in 1..Len(old) + FramesPerBuffer :
            new[i] = IF i <= Len(old) THEN old[i] ELSE first[i - Len(old)]
  <2>1. old \in Seq(Samples) /\ first \in Seq(Samples)
    BY <1>2, <1>3 DEF old
  <2>2. /\ Len(old \o first) = Len(old) + Len(first)
        /\ \A i \in 1..Len(old) + Len(first) :
             (old \o first)[i] = IF i <= Len(old) THEN old[i] ELSE first[i - Len(old)]
    BY ONLY <2>1, ConcatProperties
  <2>3. Len(first) = FramesPerBuffer /\ new = old \o first
    BY <1>9
  <2> HIDE DEF new
  <2>. QED BY ONLY <2>2, <2>3
<1> HIDE DEF new
<1>14. Len(new) = (n + 1) * FramesPerBuffer
  <2>1. (n + 1) * FramesPerBuffer = n * FramesPerBuffer + FramesPerBuffer
    BY <1>2, Sizes
  <2>. QED BY <1>12, <1>13, <2>1
<1>15. ASSUME NEW k \in 1..n + 1, NEW s \in 1..FramesPerBuffer
       PROVE  new[(k - 1) * FramesPerBuffer + s] = Copied(k)[s]
  <2>1. CASE k \in 1..n
    <3> DEFINE cell == (k - 1) * FramesPerBuffer + s
    <3>1. cell \in 1..Len(old)
      BY <1>2, <1>12, <2>1, Cells
    <3>2. old[cell] = Copied(k)[s]
      BY <1>12, <2>1
    <3> HIDE DEF cell
    <3>3. cell \in 1..Len(old) + FramesPerBuffer /\ cell <= Len(old)
      BY <1>2, <1>12, <3>1
    <3>4. new[cell] = Copied(k)[s]
      BY <1>13, <3>2, <3>3
    <3>. QED BY <3>4 DEF cell
  <2>2. CASE k = n + 1
    <3>1. (k - 1) * FramesPerBuffer + s = Len(old) + s
      <4>1. k - 1 = n
        BY <1>2, <2>2
      <4>. QED BY <1>12, <4>1
    <3>2. /\ Len(old) + s \in 1..Len(old) + FramesPerBuffer
          /\ ~(Len(old) + s <= Len(old)) /\ Len(old) + s - Len(old) = s
      BY <1>2, <1>12
    <3>3. new[Len(old) + s] = first[s]
      BY <1>13, <3>2
    <3>. QED BY <1>9, <2>2, <3>1, <3>3
  <2>3. k \in 1..n \/ k = n + 1
    BY <1>2
  <2>. QED BY <2>1, <2>2, <2>3
<1>16. InFile(Written)'
  <2> HIDE DEF n
  <2>1. Len(file'.data) = Written' * FramesPerBuffer
    BY <1>7, <1>11, <1>14
  <2>2. \A k \in 1..Written' : \A s \in 1..FramesPerBuffer :
          file'.data[(k - 1) * FramesPerBuffer + s] = Copied(k)[s]
    BY <1>7, <1>11, <1>15
  <2>. QED BY <1>1, <2>1, <2>2 DEF InFile, Copied
<1>17. total' = Len(file'.data)
  BY <1>1, <1>2, <1>9, <1>11, <1>13 DEF first, old
<1>18. Written' \in Nat
  BY <1>2, <1>7
<1>. QED BY <1>10, <1>16, <1>17, <1>18

\* A step of record-to-file keeps what is said of it.
LEMMA RecordStep ==
  ASSUME RecordInv, RecordNext
  PROVE  RecordInv'
<1>1. RecordTypes' /\ CaptureInv'
  BY RecordTypesStep, CaptureStep DEF RecordInv
<1>2. ASSUME Unmoved PROVE RecordInv'
  <2>1. UNCHANGED <<file, NumChannel, queues, total>>
    BY <1>2 DEF Unmoved, OpenFails, Open, Start, StartFails, LoopTest, Lock, Test, Block,
       SpuriousWake, WriteEnds, CloseStream, StreamError, CallbackLock, CallbackReturn,
       HandlerStop, HandlerNotify, Main
  <2>2. CopiedSoFar' = CopiedSoFar
    <3>1. captured \in Nat
      BY DEF RecordInv, RecordTypes
    <3>2. CASE CallbackLock
      BY <3>1, <3>2 DEF CallbackLock, CopiedSoFar
    <3>3. CASE CallbackReturn
      BY <3>1, <3>3 DEF CallbackReturn, CopiedSoFar
    <3>4. CASE UNCHANGED <<captured, cpc>>
      BY <3>4 DEF CopiedSoFar
    <3>. QED BY <1>2, <3>2, <3>3, <3>4
      DEF Unmoved, OpenFails, Open, Start, StartFails, LoopTest, Lock, Test, Block,
          SpuriousWake, WriteEnds, CloseStream, StreamError, HandlerStop, HandlerNotify, Main
  <2>3. (rpc' = "done") <=> (rpc = "done")
    BY <1>2 DEF Unmoved, OpenFails, Open, Start, StartFails, LoopTest, Lock, Test, Block,
       SpuriousWake, WriteEnds, CloseStream, StreamError, CallbackLock, CallbackReturn,
       HandlerStop, HandlerNotify, Notified, Main
  <2>4. HeaderInv'
    BY <2>1, <2>3 DEF RecordInv, HeaderInv, WavHeader, DataSize
  <2>. QED BY <1>1, <2>1, <2>2, <2>4, NothingMoves DEF RecordInv
<1>3. CASE CallbackPush
  <2>1. HeaderInv'
    BY <1>3 DEF CallbackPush, NotifiedByCallback, Notified, RecordInv, HeaderInv,
       WavHeader, DataSize
  <2>. QED BY <1>1, <1>3, <2>1, PushFlows DEF RecordInv
<1>4. CASE Drain
  <2>1. HeaderInv'
    BY <1>4 DEF Drain, Main, RecordInv, HeaderInv
  <2>. QED BY <1>1, <1>4, <2>1, DrainFlows DEF RecordInv
<1>5. CASE Write
  <2>1. file'.header = file.header /\ rpc = "write" /\ rpc' = "write"
    BY <1>5 DEF Write, Main, RecordInv, RecordTypes
  <2>2. HeaderInv'
    BY <2>1 DEF RecordInv, HeaderInv
  <2>. QED BY <1>1, <1>5, <2>2, WriteFlows DEF RecordInv
<1>6. CASE CloseFile
  <2>1. /\ file' = [file EXCEPT !.header = WavHeader(total, NumChannel)]
        /\ rpc' = "done" /\ UNCHANGED <<NumChannel, captured, cpc, queues, total>>
    BY <1>6 DEF CloseFile, Main
  <2>2. file'.data = file.data /\ file'.header = WavHeader(total, NumChannel)
    BY <2>1 DEF RecordInv, RecordTypes
  <2>3. HeaderInv'
    BY <2>1, <2>2 DEF HeaderInv, WavHeader, DataSize
  <2>4. /\ Waiting' = Waiting /\ CopiedSoFar' = CopiedSoFar /\ Written' = Written
        /\ \A k : Copied(k)' = Copied(k)
    BY <2>1 DEF Waiting, CopiedSoFar, Written, queues, Copied
  <2>. QED BY <1>1, <2>1, <2>2, <2>3, <2>4 DEF RecordInv, InFile, InQueues, Copied
<1>. QED BY <1>2, <1>3, <1>4, <1>5, <1>6
  DEF RecordNext, Recorder, Callback, Unmoved

\* It begins so, with an empty file.
LEMMA RecordBegins ==
  ASSUME RecordInit
  PROVE  RecordInv
<1> USE RecordAssumption DEF RecordInit
<1>1. RecordTypes
  <2>1. /\ <<>> \in Seq(Samples) /\ <<>> \in Seq(Seq(Samples))
    OBVIOUS
  <2>2. Hole \in [riff : BOOLEAN, channels : {0} \cup ChannelCounts, data_size : Nat]
    BY DEF Hole
  <2>3. file \in [header : [riff : BOOLEAN, channels : {0} \cup ChannelCounts,
                          data_size : Nat],
                data : Seq(Samples)]
    BY <2>1, <2>2
  <2>4. spurious \in 0..MaxSpurious /\ captured \in Nat /\ total \in Nat
    OBVIOUS
  <2>. QED BY <2>1, <2>3, <2>4 DEF RecordTypes
<1>2. CaptureInv
  BY DEF CaptureInv
<1>3. CopiedSoFar = 0 /\ Waiting = <<>> /\ Written = 0
  <2>1. CopiedSoFar = 0
    BY DEF CopiedSoFar
  <2>2. Waiting = <<>>
    BY DEF Waiting
  <2>3. Len(<<>>) = 0
    OBVIOUS
  <2>4. Written = CopiedSoFar - Len(Waiting)
    BY DEF Written
  <2>5. Len(Waiting) = 0
    BY ONLY <2>2, <2>3, Zenon
  <2>6. Written = 0
    BY ONLY <2>1, <2>4, <2>5
  <2>. QED BY ONLY <2>1, <2>2, <2>6, Zenon
<1>4. file.data = <<>> /\ file.header = Hole /\ 0 * FramesPerBuffer = 0 /\ Len(<<>>) = 0
  OBVIOUS
<1>. QED BY <1>1, <1>2, <1>3, <1>4 DEF RecordInv, InFile, InQueues, HeaderInv

\* The other programs read the file and leave it alone.
LEMMA RecordRests ==
  ASSUME RecordInv, UNCHANGED <<file, recordVars>>
  PROVE  RecordInv'
<1>1. UNCHANGED <<file, NumChannel, rpc, cpc, hpc, stream, stop, captured,
                  samples_queue, record_queue, total, spurious>>
  BY DEF recordVars, queues
<1>2. RecordTypes' /\ CaptureInv' /\ HeaderInv'
  BY <1>1 DEF RecordInv, RecordTypes, CaptureInv, HeaderInv, WavHeader, DataSize
<1>3. CopiedSoFar' = CopiedSoFar /\ UNCHANGED <<file, NumChannel, queues, total>>
  BY <1>1 DEF CopiedSoFar, queues
<1>. QED BY <1>2, <1>3, NothingMoves DEF RecordInv

LEMMA RecordInvariance == Spec => []RecordInv
<1>1. Init => RecordInv
  BY RecordBegins DEF Init
<1>2. RecordInv /\ [Next]_vars => RecordInv'
  <2> SUFFICES ASSUME RecordInv, [Next]_vars PROVE RecordInv'
    OBVIOUS
  <2>1. CASE Record
    BY <2>1, RecordStep DEF Record
  <2>2. CASE UNCHANGED <<file, recordVars>>
    BY <2>2, RecordRests
  <2>. QED BY <2>1, <2>2 DEF Next, Play, Paex, vars
<1>. QED BY <1>1, <1>2, PTL DEF Spec

-----------------------------------------------------------------------------
(* play-wav: what was read and what is played.                             *)

PlayTypes ==
  /\ ppc \in {"start", "open", "playing", "done", "failed"}
  /\ pstream \in {"off", "active", "complete"}
  /\ audioBuffer \in Seq(Nat)
  /\ frameIndex \in 0..Len(audioBuffer)
  /\ played \in Seq(Nat)

\* All that was read has been played, and silence after it.
PlayedOut ==
  /\ Len(audioBuffer) <= Len(played)
  /\ Len(played) <= Len(audioBuffer) + PlayFrames
  /\ \A s \in 1..Len(played) :
       played[s] = IF s <= Len(audioBuffer) THEN audioBuffer[s] ELSE Silence

PlayInv ==
  /\ PlayTypes
  /\ ppc # "start" => rpc \in {"done", "failed"} /\ audioBuffer = ReadWavBuffer
  /\ ppc \in {"start", "open", "failed"} =>
       pstream = "off" /\ frameIndex = 0 /\ played = <<>>
  /\ pstream = "active" =>
       Len(played) = frameIndex /\ Agree(played, audioBuffer, frameIndex)
  /\ pstream = "complete" => PlayedOut

\* What the readers make of n samples of the file.
LEMMA ReadSamples ==
  ASSUME file.data \in Seq(Samples), NEW n \in Nat, NEW pad \in Nat
  PROVE  /\ FirstSamples(n, pad) \in Seq(Nat) /\ Len(FirstSamples(n, pad)) = n
         /\ Len(file.data) \in Nat
         /\ \A s \in 1..n : FirstSamples(n, pad)[s]
              = IF s <= Len(file.data) THEN file.data[s] ELSE pad
<1> DEFINE old == file.data
<1>1. Len(old) \in Nat /\ \A s \in 1..Len(old) : old[s] \in Nat
  BY LenProperties, ElementOfSeq DEF Samples
<1> HIDE DEF old
<1> DEFINE f == [s \in 1..n |-> IF s <= Len(old) THEN old[s] ELSE pad]
<1>2. f \in [1..n -> Nat]
  BY <1>1
<1>3. \A s \in 1..n : f[s] = IF s <= Len(old) THEN old[s] ELSE pad
  OBVIOUS
<1>4. FirstSamples(n, pad) = f
  BY DEF FirstSamples, old
<1> HIDE DEF f
<1>5. f \in Seq(Nat)
  BY ONLY <1>2, n \in Nat, SeqDef
<1>6. Len(f) = n
  BY ONLY <1>2, <1>5, n \in Nat, LenProperties
<1>. QED BY <1>1, <1>3, <1>4, <1>5, <1>6 DEF old

\* ReadWavBuffer gives samples, whatever the header says.
LEMMA ReadIsSamples ==
  ASSUME RecordTypes
  PROVE  ReadWavBuffer \in Seq(Nat)
<1>1. /\ file.data \in Seq(Samples) /\ file.header.data_size \in Nat
      /\ file.header.data_size \div 2 \in Nat /\ Silence \in Nat
  BY DEF RecordTypes, Silence
<1>2. FirstSamples(file.header.data_size \div 2, Silence) \in Seq(Nat)
  BY <1>1, ReadSamples
<1>3. <<>> \in Seq(Nat)
  OBVIOUS
<1>. QED BY <1>2, <1>3 DEF ReadWavBuffer, BytesPerSample

\* One buffer played: the next samples read, and silence after the last.
LEMMA WavPlayedOn ==
  ASSUME PlayTypes, Len(played) = frameIndex, Agree(played, audioBuffer, frameIndex),
         PlayCallback
  PROVE  /\ PlayTypes' /\ UNCHANGED <<ppc, audioBuffer>>
         /\ pstream' \in {"active", "complete"}
         /\ pstream' = "active" =>
              Len(played') = frameIndex' /\ Agree(played, audioBuffer, frameIndex)'
         /\ pstream' = "complete" => PlayedOut'
<1> DEFINE size == Len(audioBuffer)
<1>1. /\ audioBuffer \in Seq(Nat) /\ played \in Seq(Nat) /\ size \in Nat
      /\ frameIndex \in Nat /\ frameIndex <= size /\ PlayFrames \in Nat \ {0}
      /\ Len(played) = frameIndex /\ Agree(played, audioBuffer, frameIndex)
      /\ UNCHANGED <<ppc, audioBuffer>>
  BY PlayAssumption, LenProperties DEF PlayTypes, PlayCallback
<1>2. CASE ~LastBuffer
  <2>1. /\ pstream' = "active" /\ frameIndex' = frameIndex + PlayFrames
        /\ played' = played \o SubSeq(audioBuffer, frameIndex + 1,
                                      frameIndex + PlayFrames)
    BY <1>2 DEF PlayCallback
  <2>2. frameIndex + PlayFrames <= size /\ frameIndex' \in Nat
    BY <1>1, <1>2, <2>1 DEF LastBuffer, framesLeft
  <2>3. PlayFrames \in Nat /\ frameIndex + PlayFrames <= Len(audioBuffer)
    BY <1>1, <2>2
  <2> HIDE DEF size
  <2>4. /\ played \o SubSeq(audioBuffer, frameIndex + 1, frameIndex + PlayFrames)
             \in Seq(Nat)
        /\ Len(played \o SubSeq(audioBuffer, frameIndex + 1, frameIndex + PlayFrames))
             = frameIndex + PlayFrames
        /\ Agree(played \o SubSeq(audioBuffer, frameIndex + 1, frameIndex + PlayFrames),
                 audioBuffer, frameIndex + PlayFrames)
    BY ONLY <1>1, <2>3, PlayedOn
  <2>5. PICK full : full = played \o SubSeq(audioBuffer, frameIndex + 1,
                                            frameIndex + PlayFrames)
    OBVIOUS
  <2>6. /\ full \in Seq(Nat) /\ Len(full) = frameIndex + PlayFrames
        /\ \A i \in 1..frameIndex + PlayFrames : full[i] = audioBuffer[i]
        /\ played' = full
    BY ONLY <2>1, <2>4, <2>5, Zenon DEF Agree
  <2>7. frameIndex' \in 0..Len(audioBuffer')
    BY <1>1, <2>1, <2>2, <2>3
  <2>8. PlayTypes'
    BY <1>1, <2>1, <2>6, <2>7 DEF PlayTypes
  <2>9. Len(played') = frameIndex' /\ Agree(played, audioBuffer, frameIndex)'
    BY <1>1, <2>1, <2>6 DEF Agree
  <2>. QED BY <1>1, <2>1, <2>8, <2>9
<1>3. CASE LastBuffer
  <2> DEFINE left == framesLeft
             silent == PlayFrames - left
  <2>1. /\ pstream' = "complete" /\ frameIndex' = frameIndex
        /\ played' = played \o SubSeq(audioBuffer, frameIndex + 1, Len(audioBuffer))
                            \o [s \in 1..silent |-> 0]
    BY <1>3 DEF PlayCallback, Silence
  <2>2. /\ left \in Nat /\ silent \in Nat /\ frameIndex + left = size
        /\ silent <= PlayFrames /\ frameIndex + left <= size
    BY <1>1, <1>3 DEF LastBuffer, framesLeft
  <2> HIDE DEF left, silent
  <2>3. /\ played \o SubSeq(audioBuffer, frameIndex + 1, frameIndex + left) \in Seq(Nat)
        /\ Len(played \o SubSeq(audioBuffer, frameIndex + 1, frameIndex + left))
             = frameIndex + left
        /\ Agree(played \o SubSeq(audioBuffer, frameIndex + 1, frameIndex + left),
                 audioBuffer, frameIndex + left)
    BY ONLY <1>1, <2>2, PlayedOn
  <2>4. PICK full : full = played \o SubSeq(audioBuffer, frameIndex + 1,
                                            Len(audioBuffer))
    OBVIOUS
  <2>5. /\ full \in Seq(Nat) /\ Len(full) = size
        /\ \A i \in 1..size : full[i] = audioBuffer[i]
    BY ONLY <2>2, <2>3, <2>4, Zenon DEF Agree, size
  <2>6. /\ played' \in Seq(Nat) /\ Len(played') = Len(full) + silent
        /\ \A s \in 1..Len(full) + silent :
             played'[s] = IF s <= Len(full) THEN full[s] ELSE 0
    <3>1. played' = full \o [s \in 1..silent |-> 0]
      BY ONLY <2>1, <2>4
    <3>. QED BY ONLY <2>2, <2>5, <3>1, Silenced
  <2>7. PlayTypes'
    BY <1>1, <2>1, <2>6 DEF PlayTypes
  <2> HIDE DEF size
  <2>8. /\ size <= Len(played') /\ Len(played') <= size + PlayFrames
        /\ \A s \in 1..Len(played') :
             played'[s] = IF s <= size THEN audioBuffer[s] ELSE 0
    BY ONLY <1>1, <2>2, <2>5, <2>6
  <2>. QED BY <1>1, <2>1, <2>7, <2>8 DEF PlayedOut, size, Silence
<1>. QED BY <1>2, <1>3

\* Once it is done, the recorder leaves the file alone.
LEMMA FileStays ==
  ASSUME rpc \in {"done", "failed"}, RecordNext
  PROVE  file' = file /\ rpc' = rpc
<1>1. ~Recorder
  BY DEF Recorder, OpenFails, Open, Start, StartFails, LoopTest, Lock, Test, Block,
     SpuriousWake, Drain, Write, WriteEnds, CloseStream, StreamError, CloseFile, Main
<1>2. Callback \/ HandlerStop \/ HandlerNotify
  BY <1>1 DEF RecordNext
<1>. QED BY <1>2 DEF Callback, CallbackLock, CallbackPush, CallbackReturn, HandlerStop,
     HandlerNotify, NotifiedByCallback, Notified

\* A step of play-wav keeps what is said of it.
LEMMA PlayStep ==
  ASSUME RecordTypes, PlayInv, Play
  PROVE  PlayInv'
<1>1. rpc \in {"done", "failed"} /\ UNCHANGED <<file, rpc>> /\ PlayNext
  BY DEF Play, recordVars
<1>2. ReadWavBuffer' = ReadWavBuffer
  BY <1>1 DEF ReadWavBuffer, FirstSamples
<1>3. CASE ReadFile
  <2>1. /\ audioBuffer' = ReadWavBuffer /\ ppc = "start" /\ ppc' = "open"
        /\ UNCHANGED <<pstream, frameIndex, played>>
    BY <1>3 DEF ReadFile
  <2>2. /\ pstream = "off" /\ frameIndex = 0 /\ played = <<>> /\ played \in Seq(Nat)
    BY <2>1 DEF PlayInv, PlayTypes
  <2>3. audioBuffer' \in Seq(Nat) /\ Len(audioBuffer') \in Nat
    BY <2>1, ReadIsSamples, LenProperties
  <2>4. PlayTypes'
    BY <2>1, <2>2, <2>3 DEF PlayTypes
  <2>. QED BY <1>1, <1>2, <2>1, <2>2, <2>4 DEF PlayInv
<1>4. CASE StartPlaying
  <2>1. /\ UNCHANGED <<audioBuffer, frameIndex, played>>
        /\ ppc = "open" /\ ppc' = "playing" /\ pstream' = "active"
    BY <1>4 DEF StartPlaying
  <2>2. frameIndex = 0 /\ played = <<>>
    BY <2>1 DEF PlayInv
  <2>3. PlayTypes'
    BY <2>1 DEF PlayInv, PlayTypes
  <2>4. Len(played) = frameIndex /\ Agree(played, audioBuffer, frameIndex)
    BY <2>2 DEF Agree
  <2>5. Len(played') = frameIndex' /\ Agree(played, audioBuffer, frameIndex)'
    BY <2>1, <2>4 DEF Agree
  <2>. QED BY <1>1, <1>2, <2>1, <2>3, <2>5 DEF PlayInv
<1>5. CASE PlayFails \/ PlayEnds \/ PlayError
  <2>1. /\ UNCHANGED <<audioBuffer, frameIndex, played>>
        /\ pstream' \in {pstream, "off"} /\ ppc # "start"
        /\ \/ ppc = "open" /\ ppc' = "failed" /\ pstream' = pstream
           \/ ppc = "playing" /\ ppc' = "done"
    BY <1>5 DEF PlayFails, PlayEnds, PlayError
  <2>2. PlayTypes'
    BY <2>1 DEF PlayInv, PlayTypes
  <2>3. /\ Agree(played, audioBuffer, frameIndex)' <=> Agree(played, audioBuffer, frameIndex)
        /\ PlayedOut' <=> PlayedOut
    BY <2>1 DEF Agree, PlayedOut
  <2>. QED BY <1>1, <1>2, <2>1, <2>2, <2>3 DEF PlayInv
<1>6. CASE PlayCallback
  <2>1. pstream = "active" /\ PlayTypes
    BY <1>6 DEF PlayCallback, PlayInv
  <2>2. Len(played) = frameIndex /\ Agree(played, audioBuffer, frameIndex)
    BY <2>1 DEF PlayInv
  <2>3. /\ PlayTypes' /\ UNCHANGED <<ppc, audioBuffer>>
        /\ pstream' \in {"active", "complete"}
        /\ pstream' = "active" =>
             Len(played') = frameIndex' /\ Agree(played, audioBuffer, frameIndex)'
        /\ pstream' = "complete" => PlayedOut'
    BY <1>6, <2>1, <2>2, WavPlayedOn
  <2>4. ppc \notin {"start", "open", "failed"}
    BY <2>1 DEF PlayInv
  <2>. QED BY <1>1, <1>2, <2>3, <2>4 DEF PlayInv
<1>. QED BY <1>1, <1>3, <1>4, <1>5, <1>6 DEF PlayNext

\* Nothing else touches what play-wav has.
LEMMA PlayRests ==
  ASSUME PlayInv, UNCHANGED playVars,
         rpc \in {"done", "failed"} => rpc' = rpc /\ file' = file
  PROVE  PlayInv'
<1>1. UNCHANGED <<ppc, pstream, audioBuffer, frameIndex, played>>
  BY DEF playVars
<1>2. rpc \in {"done", "failed"} => ReadWavBuffer' = ReadWavBuffer
  BY DEF ReadWavBuffer, FirstSamples
<1>3. PlayTypes'
  BY <1>1 DEF PlayInv, PlayTypes
<1>4. /\ Agree(played, audioBuffer, frameIndex)' <=> Agree(played, audioBuffer, frameIndex)
      /\ PlayedOut' <=> PlayedOut
  BY <1>1 DEF Agree, PlayedOut
<1>. QED BY <1>1, <1>2, <1>3, <1>4 DEF PlayInv

LEMMA PlayInvariance == Spec => []PlayInv
<1>1. Init => PlayInv
  <2> SUFFICES ASSUME Init PROVE PlayInv
    OBVIOUS
  <2>1. <<>> \in Seq(Nat) /\ Len(<<>>) = 0
    OBVIOUS
  <2>2. PlayTypes
    BY <2>1 DEF Init, PlayInit, PlayTypes
  <2>. QED BY <2>2 DEF Init, PlayInit, PlayInv
<1>2. RecordInv /\ PlayInv /\ [Next]_vars => PlayInv'
  <2> SUFFICES ASSUME RecordInv, PlayInv, [Next]_vars PROVE PlayInv'
    OBVIOUS
  <2>1. CASE Play
    BY <2>1, PlayStep DEF RecordInv
  <2>2. CASE Record
    BY <2>2, FileStays, PlayRests DEF Record
  <2>3. CASE Paex \/ UNCHANGED vars
    BY <2>3, PlayRests DEF Paex, vars, recordVars
  <2>. QED BY <2>1, <2>2, <2>3 DEF Next
<1>. QED BY <1>1, <1>2, RecordInvariance, PTL DEF Spec

-----------------------------------------------------------------------------
(* What follows.                                                           *)

\* Every variable has its type, and its bound.
LEMMA Types ==
  ASSUME RecordInv, PlayInv, PaexInv
  PROVE  TypeOK
<1>1. captured \in 0..MaxBuffers + 2
  BY RecordAssumption DEF RecordInv, RecordTypes, CaptureInv
<1>2. total \in 0..(MaxBuffers + 2) * FramesPerBuffer
  <2>1. /\ captured \in Nat /\ captured <= MaxBuffers + 2 /\ MaxBuffers + 2 \in Nat
        /\ Written \in Nat /\ FramesPerBuffer \in Nat
        /\ total = Written * FramesPerBuffer
    BY <1>1, RecordAssumption DEF RecordInv, InFile
  <2>2. Len(Waiting) \in Nat
    BY ConcatProperties, LenProperties DEF Waiting, RecordInv, RecordTypes
  <2>3. CopiedSoFar \in Int /\ CopiedSoFar <= captured
    BY <2>1 DEF CopiedSoFar
  <2>4. Written = CopiedSoFar - Len(Waiting)
    BY DEF Written
  <2>5. Written <= MaxBuffers + 2
    BY ONLY <2>1, <2>2, <2>3, <2>4
  <2> DEFINE most == MaxBuffers + 2
  <2>6. most \in Nat /\ Written <= most
    BY <2>1, <2>5
  <2> HIDE DEF most
  <2>7. Written * FramesPerBuffer \in Nat /\ Written * FramesPerBuffer <= most * FramesPerBuffer
    BY ONLY <2>1, <2>6, Sizes
  <2>. QED BY <2>1, <2>7 DEF most
<1>3. \E frames \in TotalFrames :
        data \in [frameIndex : 0..frames, maxFrameIndex : {frames},
                 recordedSamples : [1..frames -> Nat]]
  <2> DEFINE frames == data.maxFrameIndex
  <2>1. /\ frames \in TotalFrames /\ frames \in Nat
        /\ data.frameIndex \in 0..frames
        /\ data.recordedSamples \in Seq(Nat) /\ Len(data.recordedSamples) = frames
    BY PaexAssumption DEF PaexInv, PaexTypes
  <2>2. data.recordedSamples \in [1..frames -> Nat]
    BY <2>1, LenProperties
  <2>3. data = [frameIndex |-> data.frameIndex, maxFrameIndex |-> frames,
                recordedSamples |-> data.recordedSamples]
    BY DEF PaexInv, PaexTypes
  <2> HIDE DEF frames
  <2>4. data \in [frameIndex : 0..frames, maxFrameIndex : {frames},
                 recordedSamples : [1..frames -> Nat]]
    BY <2>1, <2>2, <2>3
  <2>. QED BY <2>1, <2>4
<1>4. /\ delivered \in Seq(Nat) /\ recorded_raw \in Seq(Nat) /\ heard \in Seq(Nat)
      /\ array \in {"null", "live", "freed"}
      /\ xpc \in {"none", "start", "init", "recording", "recorded", "playing",
                  "terminate", "free", "done"}
      /\ xstream \in {"off", "record", "play", "complete"}
  BY DEF PaexInv, PaexTypes, ArrayInv, ProgressInv
<1>5. /\ file.data \in Seq(Nat \ {0})
      /\ file.header \in [riff : BOOLEAN, channels : {0} \cup ChannelCounts,
                          data_size : Nat]
  BY DEF RecordInv, RecordTypes, Samples
<1>6. RecordTypes /\ PlayTypes
  BY DEF RecordInv, PlayInv
<1>. QED BY <1>1, <1>2, <1>3, <1>4, <1>5, <1>6
  DEF TypeOK, RecordTypes, PlayTypes, Samples

\* However many buffers are captured and whenever Ctrl+C comes, the file holds
\* the first buffers that the callback copied, sample for sample, and those that
\* follow wait in the queues in order.
THEOREM BuffersStayInOrder == Spec => []BuffersInOrder
<1>1. RecordInv /\ PlayInv /\ PaexInv => BuffersInOrder
  BY Types DEF BuffersInOrder, RecordInv, InFile, InQueues
<1>. QED BY <1>1, RecordInvariance, PlayInvariance, PaexInvariance, PTL

\* The header of a file that is done promises at least what is in it.
LEMMA HeaderTells ==
  ASSUME RecordInv, rpc = "done"
  PROVE  /\ NumChannel \in Nat \ {0} /\ Len(file.data) \in Nat
         /\ file.header.riff /\ file.header.channels = NumChannel
         /\ file.header.data_size = Len(file.data) * NumChannel * 2
         /\ file.header.data_size \div 2 = Len(file.data) * NumChannel
         /\ Len(file.data) * NumChannel \in Nat
         /\ Len(file.data) <= Len(file.data) * NumChannel
<1> DEFINE n == Len(file.data)
<1>1. NumChannel \in Nat \ {0} /\ n \in Nat
  BY RecordAssumption, LenProperties DEF RecordInv, RecordTypes
<1>2. file.header = [riff |-> TRUE, channels |-> NumChannel,
                     data_size |-> n * NumChannel * 2]
  BY DEF RecordInv, HeaderInv, WavHeader, DataSize, BytesPerSample
<1> HIDE DEF n
<1>3. 1 * n \in Nat /\ 1 * n <= NumChannel * n /\ 1 * n = n
  BY ONLY <1>1, Sizes
<1>4. NumChannel * n = n * NumChannel /\ n * NumChannel \in Nat
  BY ONLY <1>1
<1>5. \A m \in Nat : (m * 2) \div 2 = m
  OBVIOUS
<1>6. n <= n * NumChannel
  BY ONLY <1>1, <1>3, <1>4
<1>7. /\ file.header.riff /\ file.header.channels = NumChannel
      /\ file.header.data_size = n * NumChannel * 2
  BY ONLY <1>2
<1>8. file.header.data_size \div 2 = n * NumChannel
  <2> DEFINE all == n * NumChannel
             size == file.header.data_size
  <2>1. all \in Nat /\ size = all * 2
    BY <1>4, <1>7
  <2> HIDE DEF all, size
  <2>2. size \div 2 = all
    BY ONLY <1>5, <2>1
  <2>. QED BY <2>2 DEF all, size
<1>. QED BY ONLY <1>1, <1>4, <1>6, <1>7, <1>8, Zenon DEF n

\* The readers get what was written, and what was written is played.
LEMMA WavPlaysFile ==
  ASSUME RecordInv, PlayInv
  PROVE  WavIsPlayed
<1> DEFINE old == file.data
           n == Len(old)
<1>1. old \in Seq(Nat) /\ old \in Seq(Samples) /\ n \in Nat
  <2>1. old \in Seq(Samples)
    BY DEF RecordInv, RecordTypes
  <2>2. Samples \subseteq Nat
    BY DEF Samples
  <2>3. old \in Seq(Nat)
    BY ONLY <2>1, <2>2, SeqMonotonic
  <2>. QED BY <2>1, <2>3, LenProperties
<1>2. ASSUME rpc = "done", NumChannel = 1
      PROVE  ReadWavBuffer = old /\ DetectorInput = old
  <2>1. /\ file.header.riff /\ file.header.channels = 1
        /\ file.header.data_size \div 2 = n
        /\ file.header.data_size = n * 2
    BY <1>1, <1>2, HeaderTells
  <2>2. ASSUME NEW pad \in Nat PROVE FirstSamples(n, pad) = old
    <3> DEFINE first == FirstSamples(n, pad)
    <3>1. /\ first \in Seq(Nat) /\ Len(first) = n
          /\ \A s \in 1..n : first[s] = IF s <= n THEN old[s] ELSE pad
      BY <1>1, ReadSamples
    <3> HIDE DEF first, n
    <3>2. \A s \in 1..n : first[s] = old[s]
      BY <1>1, <3>1
    <3>3. Len(first) = Len(old)
      BY <3>1 DEF n
    <3> HIDE DEF old
    <3>. QED BY <1>1, <3>1, <3>2, <3>3, SeqEqual DEF first, n
  <2>3. ReadWavBuffer = FirstSamples(n, Silence) /\ Silence \in Nat
    BY <2>1 DEF ReadWavBuffer, BytesPerSample, Silence
  <2>4. DetectorInput = old
    <3> DEFINE pad == IF file.data = <<>> THEN Silence ELSE Last(file.data)
    <3>1. pad \in Nat
      <4>1. ASSUME old # <<>> PROVE old[Len(old)] \in Nat
        <5>1. Len(old) # 0
          BY <1>1, <4>1, EmptySeq
        <5>2. Len(old) \in 1..Len(old)
          BY <1>1, <5>1
        <5>. QED BY <1>1, <5>2, ElementOfSeq
      <4>. QED BY <4>1 DEF Silence, Last
    <3>2. (IF file.header.data_size = 0 THEN Len(file.data)
           ELSE file.header.data_size \div BytesPerSample) = n
      BY <2>1 DEF BytesPerSample
    <3>3. n \div file.header.channels = n
      <4>1. \A m \in Nat : m \div 1 = m
        OBVIOUS
      <4>. QED BY ONLY <1>1, <2>1, <4>1
    <3>4. DetectorInput = SubSeq(FirstSamples(n, pad), 1, n)
      BY <3>2, <3>3 DEF DetectorInput
    <3>5. FirstSamples(n, pad) = old
      BY <2>2, <3>1
    <3>6. SubSeq(old, 1, n) = old
      BY <1>1, SubSeqFull
    <3>. QED BY ONLY <3>4, <3>5, <3>6, Zenon
  <2>. QED BY <2>2, <2>3, <2>4
<1>3. ASSUME rpc = "done", pstream = "complete"
      PROVE  /\ IsPrefix(old, played)
             /\ \A s \in n + 1..Len(played) : played[s] = Silence
             /\ Len(played) <= NumChannel * n + PlayFrames
  <2> DEFINE all == n * NumChannel
  <2>1. /\ all \in Nat /\ n <= all /\ file.header.riff
        /\ file.header.data_size \div 2 = all /\ NumChannel \in Nat
    BY <1>3, HeaderTells
  <2>2. ppc # "start" /\ audioBuffer = ReadWavBuffer /\ PlayedOut /\ played \in Seq(Nat)
    BY <1>3 DEF PlayInv, PlayTypes
  <2>3. audioBuffer = FirstSamples(all, Silence) /\ Silence \in Nat
    BY <2>1, <2>2 DEF ReadWavBuffer, BytesPerSample, Silence
  <2> HIDE DEF all
  <2>4. /\ Len(audioBuffer) = all
        /\ \A s \in 1..all : audioBuffer[s] = IF s <= n THEN old[s] ELSE Silence
    BY <1>1, <2>1, <2>3, ReadSamples
  <2>5. /\ all <= Len(played) /\ Len(played) <= all + PlayFrames
        /\ \A s \in 1..Len(played) :
             played[s] = IF s <= all THEN audioBuffer[s] ELSE Silence
    BY <2>2, <2>4 DEF PlayedOut
  <2> HIDE DEF n
  <2>6. Len(played) \in Nat
    BY <2>2, LenProperties
  <2>7. \A s \in 1..Len(played) : played[s] = IF s <= n THEN old[s] ELSE Silence
    <3> TAKE s \in 1..Len(played)
    <3>1. CASE s <= all
      <4>1. s \in 1..all
        BY <2>1, <2>6, <3>1
      <4>. QED BY <2>4, <2>5, <3>1, <4>1
    <3>2. CASE ~(s <= all)
      <4>1. ~(s <= n)
        BY <1>1, <2>1, <2>6, <3>2
      <4>. QED BY <2>5, <3>2, <4>1
    <3>. QED BY <3>1, <3>2
  <2>8. IsPrefix(old, played)
    <3>1. Len(old) <= Len(played) /\ \A s \in 1..Len(played) : s <= Len(old) => played[s] = old[s]
      BY <1>1, <2>1, <2>5, <2>6, <2>7 DEF n
    <3> HIDE DEF old
    <3>. QED BY <1>1, <2>2, <3>1, Prefixed
  <2>9. \A s \in n + 1..Len(played) : s \in 1..Len(played) /\ ~(s <= n)
    BY <1>1, <2>6
  <2>10. NumChannel * n = all
    BY <1>1, <2>1 DEF all
  <2>. QED BY <2>5, <2>7, <2>8, <2>9, <2>10
<1>. QED BY <1>2, <1>3 DEF WavIsPlayed

\* What was recorded is what is saved, read and played, by either program, for
\* every length of the recording and of the array.
THEOREM RecordingsArePlayed == Spec => []RecordedIsPlayed
<1>1. RecordInv /\ PlayInv /\ PaexInv => RecordedIsPlayed
  BY WavPlaysFile, PaexPlaysArray DEF RecordedIsPlayed
<1>. QED BY <1>1, RecordInvariance, PlayInvariance, PaexInvariance, PTL

\* Whatever fails, no callback of paex_record runs without the array.
THEOREM ArrayIsThere == Spec => []ArrayOutlivesCallbacks
<1>1. PaexInv => ArrayOutlivesCallbacks
  BY DEF PaexInv, ArrayInv, ArrayOutlivesCallbacks
<1>. QED BY <1>1, PaexInvariance, PTL
=============================================================================
