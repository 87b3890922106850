------------------------------ MODULE WavFile ------------------------------
(***************************************************************************)
(* The .wav file that record-to-file writes and that play-wav and the      *)
(* speech detector read: struct WavHeader and the readers and the writer   *)
(* of portaudio-example/example/wav.h, play-wav.cc and                     *)
(* SpeechProcessing/silero-vad/example/wav.h.                              *)
(*                                                                         *)
(* Samples are numbers, 0 is silence. Of the header only the fields are    *)
(* kept that decide what a reader does; a header that was never written is *)
(* a hole of zeros. The file has one fmt chunk of 16 bytes and one data    *)
(* chunk, as the writer makes it.                                          *)
(***************************************************************************)
EXTENDS Integers, Sequences, SequencesExt

VARIABLE file   \* output.wav: its header and its samples

Silence == 0
BytesPerSample == 2   \* BitsPerSample / 8, sizeof(SAMPLE)

Hole == [riff |-> FALSE, channels |-> 0, data_size |-> 0]

\* Not the code: sizes in samples.
SizeInSamples(num_samples, num_channel) == num_samples * num_channel
DataSize(num_samples, num_channel) ==
  num_samples * num_channel * BytesPerSample

WavHeader(num_samples, num_channel) ==
  [riff |-> TRUE, channels |-> num_channel,
   data_size |-> DataSize(num_samples, num_channel)]

\* The first n samples of the file; what is missing is pad.
FirstSamples(n, pad) ==
  [s \in 1..n |-> IF s <= Len(file.data) THEN file.data[s] ELSE pad]

\* play-wav: the buffer is as long as the header says and was zero before
\* the read; a file of another kind leaves it empty.
ReadWavBuffer ==
  IF file.header.riff
  THEN FirstSamples(file.header.data_size \div BytesPerSample, Silence)
  ELSE <<>>

\* WavReader::Open, which takes the rest of the file for a data chunk of size
\* 0 and reads the last sample again for every one that is missing, and the
\* loop of the detector's main() that copies num_samples() of them (scaled by
\* 1/32768, which keeps them apart); only for
\* a file with a header.
DetectorInput ==
  LET num_data == IF file.header.data_size = 0 THEN Len(file.data)
                  ELSE file.header.data_size \div BytesPerSample
      pad == IF file.data = <<>> THEN Silence ELSE Last(file.data)
  IN  SubSeq(FirstSamples(num_data, pad), 1, num_data \div file.header.channels)
=============================================================================
