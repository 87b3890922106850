------------------------------ MODULE NpyFile ------------------------------
(***************************************************************************)
(* A file of numpy's format that cnpy.h and cnpy.cc write, append to and   *)
(* load: npy_save, create_npy_header, parse_npy_header and npy_load, for   *)
(* elements of one byte. The header is a preamble and a text that shows    *)
(* the shape, padded to a multiple of 16 bytes; it is rewritten in place   *)
(* by an append, however long it has become. CMakeLists.txt chooses no     *)
(* type of build, so NDEBUG is not defined and the assertions are there.   *)
(* An array of more dimensions than the file's is never appended here: the *)
(* loop behind the inverted assertion would compare its last dimensions    *)
(* with what lies behind the end of a vector.                              *)
(***************************************************************************)
EXTENDS Integers, Sequences, SequencesExt

CONSTANTS
  Columns,    \* the shape of a row
  RowCounts,  \* how many rows a call saves
  MaxRows     \* bound: rows saved in all

VARIABLES
  npy,       \* the file: the shape in its header, and its bytes
  given,     \* what has been given to npy_save since the file was created
  numbered,  \* rows given to npy_save so far; the bytes of one are its number
  misshaped, \* a vector was appended to a file of several dimensions
  began      \* the length of the header with which the file was created

npyVars == <<npy, given, numbered, misshaped, began>>

MaxInt == 2147483647
HeaderByte == 0
NoFile == [shape |-> <<>>, bytes |-> <<>>]

NpyInit ==
  npy = NoFile /\ given = <<>> /\ numbered = 0 /\ misshaped = FALSE /\ began = 0

Elements(shape) == FoldLeft(LAMBDA acc, d : acc * d, 1, shape)

Digits[n \in Nat] == IF n < 10 THEN 1 ELSE 1 + Digits[n \div 10]

\* {'descr': '<i1', 'fortran_order': False, 'shape': (3, 2), }
Dictionary(shape) ==
  11 + 3 + 37 + FoldLeft(LAMBDA acc, d : acc + Digits[d] + 2, 0, shape) - 2
    + (IF Len(shape) = 1 THEN 1 ELSE 0) + 4

\* A text that needs no padding gets a whole block of it.
HeaderLength(shape) == 10 + Dictionary(shape) + (16 - ((10 + Dictionary(shape)) % 16))

\* fgets takes no more of a header than 255 bytes after the first 11, and stoi
\* no number that is not an int: a file has no more rows than that.
ASSUME NpyAssumption ==
  /\ Columns \in Seq(1..MaxInt)
  /\ RowCounts \subseteq Nat \ {0} /\ MaxRows \in 1..MaxInt
  /\ HeaderLength(<<MaxRows>> \o Columns) <= 11 + 255

\* fseek to the beginning and fwrite of a header.
WithHeader(bytes, shape) ==
  LET n == HeaderLength(shape)
  IN  [i \in 1..n |-> HeaderByte] \o SubSeq(bytes, n + 1, Len(bytes))

\* The bytes of n rows of the given size.
Rows(n, size) == [b \in 1..n * size |-> numbered + 1 + (b - 1) \div size]

\* fopen "wb", or mode "a" when there is no file yet.
Create(n) ==
  LET shape == <<n>> \o Columns
  IN  /\ npy' = [shape |-> shape,
                 bytes |-> WithHeader(<<>>, shape) \o Rows(n, Elements(Columns))]
      /\ given' = Rows(n, Elements(Columns))
      /\ misshaped' = FALSE
      /\ began' = HeaderLength(shape)
      /\ numbered' = numbered + n

\* Mode "a" on a file; the sizes are those of the dimensions from the second
\* on of what is appended.
AppendTo(n, sizes) ==
  LET shape == [npy.shape EXCEPT ![1] = @ + n]
      new == Rows(n, Elements(sizes))
  IN  /\ npy # NoFile
      /\ npy' = [shape |-> shape, bytes |-> WithHeader(npy.bytes, shape) \o new]
      /\ given' = given \o new
      /\ numbered' = numbered + n
      /\ UNCHANGED began

AppendRows(n) == AppendTo(n, Columns) /\ UNCHANGED misshaped

\* The assertion about misdimensioned data is the wrong way round: it holds
\* when the dimensions differ, and the data is written.
AppendVector(n) == Columns # <<>> /\ AppendTo(n, <<>>) /\ misshaped' = TRUE

NpyNext ==
  \E n \in RowCounts :
    /\ numbered + n <= MaxRows
    /\ Create(n) \/ AppendRows(n) \/ AppendVector(n)

-----------------------------------------------------------------------------
(* npy_load.                                                               *)

Body == SubSeq(npy.bytes, HeaderLength(npy.shape) + 1, Len(npy.bytes))

\* Not the code: a file that ends too early is taken as it is.
NeverShort(bytes, n) == FALSE
ReadFails(bytes, n) == Len(bytes) < n

LoadThrows == ReadFails(Body, Elements(npy.shape))
Loaded == SubSeq(Body, 1, Min({Elements(npy.shape), Len(Body)}))

\* What is loaded is what was saved, in order and nothing else, or nothing is
\* loaded; and that happens only when the digits of the shape have outgrown
\* the padding, so that the header was written over the first 16 elements, or
\* when a vector was appended to a file with more than one number in a row.
LoadedIsSaved ==
  npy # NoFile =>
    /\ ~LoadThrows => Loaded = given
    /\ LoadThrows <=> \/ HeaderLength(npy.shape) > began
                      \/ misshaped /\ Elements(Columns) > 1
=============================================================================
