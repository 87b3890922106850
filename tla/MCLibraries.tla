---------------------------- MODULE MCLibraries ----------------------------
(***************************************************************************)
(* Small rings, files and arguments for TLC.                               *)
(***************************************************************************)
EXTENDS Libraries
Seqs == INSTANCE SequencesExt

MCValues == 0..2

\* A file whose header grows with the tenth row.
MCColumns == <<1, 1, 1, 10>>
MCRowCounts == {1, 2, 8}

\* Letters, blanks, a newline, an apostrophe, a slash, and the first and other
\* bytes of longer characters.
MCTexts ==
  Seqs!SeqOf({97, 32, 9, 10, 39, 47, 128, 195, 228, 240, 255}, 3)
    \cup Seqs!TupleOf({97, 32, 47, 128, 195, 228, 240}, 4)

MCShapes == Seqs!SeqOf(-1..4, 2) \cup Seqs!TupleOf(1..3, 3) \cup {<<4, 4, 2>>, <<0, 2, 3>>, <<4, 4, 0>>}
MCAxes == -1..4
MCFactors == Seqs!SeqOf(-1..3, 2) \cup {<<1, 2, 1>>, <<3, 1, 1>>, <<1, 1, 2>>, <<1, 1, -1>>, <<2, 2, 1>>}

MCArrays == Seqs!SeqOf(0..2, 5)
MCKs == 1..4

MCData(bytes, numbers) ==
  [riff |-> TRUE, fmt_size |-> 16, format |-> 1, channels |-> 1, bit |-> 16,
   chunks |-> <<Chunk("data", bytes, numbers)>>]

\* Headers of all kinds over two numbers, with chunks before and after them;
\* and sizes that are and are not those of the numbers, other chunks behind.
MCWaves ==
  { [riff |-> r, fmt_size |-> z, format |-> m, channels |-> c, bit |-> b,
     chunks |-> before \o <<Chunk("data", 4, <<1, 2>>)>> \o after] :
       r \in BOOLEAN, z \in {14, 16, 17, 18}, m \in {1, 3}, c \in 0..2, b \in {4, 8, 16, 24, 32},
       before \in Seqs!SeqOf({Chunk("fact", 4, <<>>), Chunk("LIST", 5, <<>>)}, 2),
       after \in {<<>>, <<Chunk("data", 4, <<2, 0>>)>>} }
  \cup { [MCData(s, n) EXCEPT !.format = m, !.bit = b, !.chunks = @ \o after] :
           s \in {0, 3, 4, 6, 8}, n \in Seqs!SeqOf({1, 2}, 3), m \in {1, 3}, b \in {8, 16, 24, 32},
           after \in {<<>>, <<Chunk("LIST", 4, <<>>)>>,
                      <<Chunk("fact", 3, <<>>), Chunk("data", 2, <<0>>)>>} }
  \cup { [MCData(0, <<>>) EXCEPT !.chunks = <<Chunk("LIST", 4, <<>>)>>] }
MCWidths == {4, 8, 16, 24, 32}
=============================================================================
