----------------------------- MODULE RiffFile -----------------------------
(***************************************************************************)
(* Files in RIFF format and both copies of wav.h: the classes WavWriter    *)
(* and WavReader of portaudio-example/example and of                       *)
(* SpeechProcessing/silero-vad/example. (The file that record-to-file      *)
(* writes as it goes along, and its readers, are in WavFile.)              *)
(*                                                                         *)
(* A file is what its fmt chunk says and the chunks that follow. A chunk   *)
(* has a size, in bytes, and the numbers it really holds, of which the     *)
(* writer of a file may have stored fewer or more; only the first chunk of *)
(* data does. Between a chunk of odd size and the next is a byte of        *)
(* padding. Numbers of eight bits are signed, as all of this code takes    *)
(* them. A number that was not read is Undefined; one that is made of      *)
(* bytes behind the chunk, its padding or other chunks, is Foreign.        *)
(***************************************************************************)
EXTENDS Integers, Sequences, SequencesExt

Undefined == -1   \* an uninitialised variable; the numbers stored are from 0 on
Garbled == -2     \* what the bits of a number of another type are as an integer
Foreign == -3     \* what bytes that are not of the data are as a number

Chunk(id, size, numbers) == [id |-> id, size |-> size, numbers |-> numbers]

ChunkIds == {"data", "fact", "LIST", "other"}
WaveFiles ==
  [riff : BOOLEAN, fmt_size : Nat, format : Nat, channels : Nat, bit : Nat,
   chunks : Seq([id : ChunkIds, size : Nat, numbers : Seq(Nat)])]

\* The numbers that n reads leave, when there are fewer: each read is into a
\* variable of its own, or the variable keeps its value.
FreshReads(numbers, n) ==
  [i \in 1..n |-> IF i <= Len(numbers) THEN numbers[i] ELSE Undefined]
KeptReads(numbers, n) ==
  [i \in 1..n |-> IF i <= Len(numbers) THEN numbers[i]
                  ELSE IF numbers = <<>> THEN Undefined ELSE Last(numbers)]

\* What WavWriter::Write makes; for a width that it does not know it writes
\* the header only. It takes num_samples of each channel, past the array too.
WavWriter(numbers, num_samples, num_channel, bits_per_sample) ==
  LET data_size == num_samples * num_channel * (bits_per_sample \div 8)
  IN  [riff |-> TRUE, fmt_size |-> 16, format |-> 1, channels |-> num_channel,
       bit |-> bits_per_sample,
       chunks |-> <<Chunk("data", data_size,
                          IF bits_per_sample \in {8, 16, 32}
                          THEN FreshReads(numbers, num_samples * num_channel)
                          ELSE <<>>)>>]

\* Where the loop of WavReader::Open over the chunks ends: at the data chunk.
\* 0: it is lost. Without data it stays at the end of the file, where fread
\* changes nothing; after a chunk of odd size it does not skip the padding,
\* and takes other bytes for headers. Not the code: the loop takes the first
\* chunk for the data.
FirstChunk(chunks) == 1
DataChunk(chunks) ==
  LET at == SelectInSeq(chunks, LAMBDA c : c.id = "data" \/ c.size % 2 = 1)
  IN  IF at > 0 /\ chunks[at].id = "data" THEN at ELSE 0

\* The padding of a fmt chunk of odd size is not skipped either.
DataAt(f) == IF f.fmt_size % 2 = 1 THEN 0 ELSE DataChunk(f.chunks)

\* The bytes of a file behind what the chunk holds: of padding, of headers
\* and of other chunks.
BytesBehind(chunks, at) ==
  FoldLeft(LAMBDA acc, n : acc + n, 0,
           [i \in 1..Len(chunks) - at |->
              (chunks[at + i - 1].size % 2) + 8 + chunks[at + i].size])

\* What fread finds where the numbers are that a chunk holds, up to the end of
\* the file; the last number may be read in part only.
ToTheEnd(numbers, bytes, width) ==
  numbers \o [i \in 1..(bytes + width - 1) \div width |-> Foreign]

Returned(ret, num_samples, numbers, divisor) ==
  [ret |-> ret, num_samples |-> num_samples, numbers |-> numbers, divisor |-> divisor]
NotReturned(how) == Returned(how, 0, <<>>, 1)

\* Numbers that are read as integers.
AsIntegers(f, numbers) ==
  IF f.format = 1 THEN numbers ELSE [i \in DOMAIN numbers |-> Garbled]

\* Which of the two functions gives up on a file before it looks for data.
HeaderRefused(f, checksRiff) == (checksRiff /\ ~f.riff) \/ f.fmt_size < 16

\* A number of channels, or of bytes in a sample, by which nothing divides.
DividesByZero(f) == f.bit < 8 \/ f.channels = 0

\* portaudio-example
OpenRecorded(f) ==
  LET at == DataAt(f)
      width == f.bit \div 8
      num_data == f.chunks[at].size \div width
      there == ToTheEnd(AsIntegers(f, f.chunks[at].numbers), BytesBehind(f.chunks, at), width)
  IN  IF HeaderRefused(f, TRUE) THEN NotReturned("false")
      ELSE IF at = 0 THEN NotReturned("lost")
      ELSE IF DividesByZero(f) THEN NotReturned("crash")
      ELSE IF f.bit \notin {8, 16, 32} /\ num_data > 0 THEN NotReturned("exit")
      ELSE Returned("true", num_data \div f.channels, FreshReads(there, num_data), 1)

\* silero-vad: a data chunk of size 0 extends to the end of the file, numbers
\* are scaled unless they are floats, and a width that is not known leaves
\* the array as it was allocated.
OpenForDetection(f) ==
  LET at == DataAt(f)
      width == f.bit \div 8
      stored == f.chunks[at].numbers
      behind == BytesBehind(f.chunks, at)
      size == IF f.chunks[at].size = 0 THEN Len(stored) * width + behind ELSE f.chunks[at].size
      num_data == size \div width
      float == f.bit = 32 /\ f.format = 3
      there == IF float THEN ToTheEnd(stored, behind, width)
               ELSE IF f.bit \in {8, 16} \/ (f.bit = 32 /\ f.format = 1)
               THEN ToTheEnd(AsIntegers(f, stored), behind, width)
               ELSE <<>>
  IN  IF HeaderRefused(f, FALSE) THEN NotReturned("false")
      ELSE IF at = 0 THEN NotReturned("lost")
      ELSE IF DividesByZero(f) THEN NotReturned("crash")
      ELSE Returned("true", num_data \div f.channels,
                    KeptReads(there, num_data), IF float THEN 1 ELSE 32768)

-----------------------------------------------------------------------------
(* What they are for.                                                      *)

\* A file in which what the header says of the data is true, with chunks of
\* even size before them.
WellFormed(f) ==
  /\ f.riff /\ f.fmt_size >= 16 /\ f.fmt_size % 2 = 0 /\ f.channels > 0
  /\ f.bit \in {8, 16, 32} /\ f.format = 1
  /\ \E k \in DOMAIN f.chunks :
       /\ f.chunks[k].id = "data"
       /\ f.chunks[k].size = Len(f.chunks[k].numbers) * (f.bit \div 8)
       /\ \A j \in 1..k - 1 : f.chunks[j].id # "data" /\ f.chunks[j].size % 2 = 0

\* The numbers of the first chunk of data.
DataOf(f) ==
  LET at == SelectInSeq(f.chunks, LAMBDA c : c.id = "data")
  IN  IF at = 0 THEN <<>> ELSE f.chunks[at].numbers

\* The reader takes the rest of the file for the data.
TakenForData(f) == DataOf(f) = <<>> /\ BytesBehind(f.chunks, DataAt(f)) > 0

\* Both readers find the data of a well-formed file, whatever other chunks it
\* has, and differ by the scale only; but of a file without a number in which
\* chunks follow the data silero-vad returns those. Of any other file of
\* integers too both return the numbers of the data where they are: only
\* behind the last of them come undefined ones, those of other chunks, and
\* the last once more.
ReadersFindTheData(f) ==
  /\ WellFormed(f) =>
       /\ OpenRecorded(f) = Returned("true", Len(DataOf(f)) \div f.channels, DataOf(f), 1)
       /\ ~TakenForData(f) =>
            OpenForDetection(f) = [OpenRecorded(f) EXCEPT !.divisor = 32768]
  /\ \A r \in {OpenRecorded(f), OpenForDetection(f)} :
       r.ret = "true" /\ f.format = 1 /\ f.bit \in {8, 16, 32} =>
         \A i \in DOMAIN r.numbers :
           IF i <= Len(DataOf(f)) THEN r.numbers[i] = DataOf(f)[i]
           ELSE r.numbers[i] \in ToSet(DataOf(f)) \cup {Undefined, Foreign}

\* A file that a WavWriter made is read as it was written, all frames of all
\* channels.
WritersAreRead(numbers, num_samples, num_channel, bits_per_sample) ==
  bits_per_sample \in {8, 16, 32} =>
    LET f == WavWriter(numbers, num_samples, num_channel, bits_per_sample)
    IN  /\ ReadersFindTheData(f)
        /\ OpenRecorded(f).num_samples = num_samples
        /\ OpenRecorded(f).numbers = SubSeq(numbers, 1, num_samples * num_channel)
=============================================================================
