----------------------------- MODULE Libraries -----------------------------
(***************************************************************************)
(* The sequential code of the repository that other programs are to call:  *)
(* the ring of CircleQueue.cpp, the files of cnpy, and functions whose     *)
(* result depends on their arguments only. One of them is used at a time.  *)
(***************************************************************************)
EXTENDS CircleQueue, NpyFile, StringUtil, OnnxTensor, RiffFile

CONSTANTS
  Texts,                          \* arguments of the string functions
  Shapes, Axes, Factors,          \* of the functions on shapes, and Repeat
  Arrays, Ks,                     \* of TopK
  Waves, Widths,                  \* of WavReader and WavWriter
  MaxExtra                        \* bound: elements that the shape does not tell of

ASSUME LibrariesAssumption ==
  /\ Texts \subseteq Seq(0..255)
  /\ Shapes \subseteq Seq(Int) /\ Axes \subseteq Int /\ Factors \subseteq Seq(Int)
  /\ Arrays \subseteq Seq(Nat) /\ Ks \subseteq Nat \ {0}
  /\ Waves \subseteq WaveFiles /\ Widths \subseteq Nat /\ MaxExtra \in Nat

VARIABLES library, call

libraryVars == <<vars, npyVars, library, call>>

NoCall == [fn |-> "none"]

LibraryInit ==
  /\ Init /\ NpyInit
  /\ library \in {"CircleQueue", "cnpy", "functions"}
  /\ call = NoCall

Text == \E s \in Texts : call' = [fn |-> "text", str |-> s]

\* Those that a tensor can have.
TensorShapes == { s \in Shapes : \A d \in DOMAIN s : s[d] >= 0 }

Shape ==
  \E s \in TensorShapes, o \in Shapes, a \in Axes :
    call' = [fn |-> "shape", shape |-> s, axis |-> a, other |-> o]

\* As many elements as the shape tells of, as the product in an int, or more.
RepeatTensor ==
  \E s \in TensorShapes, f \in Factors, extra \in 0..MaxExtra :
    \E n \in {Product(s) + extra} \cup (Nat \cap {Accumulated(s)}) :
      call' = [fn |-> "repeat", input |-> [i \in 1..n |-> i], shape |-> s, factors |-> f]

Best == \E v \in Arrays, k \in Ks : call' = [fn |-> "topk", values |-> v, k |-> k]

Read == \E f \in Waves : call' = [fn |-> "read", file |-> f]

WriteWave ==
  \E v \in Arrays, c \in {1, 2}, b \in Widths :
    call' = [fn |-> "write", values |-> v, channels |-> c, bits |-> b]

Call ==
  \/ call = NoCall /\ (Text \/ Shape \/ RepeatTensor \/ Best \/ Read \/ WriteWave)
  \/ call # NoCall /\ call' = NoCall

LibraryNext ==
  /\ UNCHANGED library
  /\ \/ library = "CircleQueue" /\ Next /\ UNCHANGED <<npyVars, call>>
     \/ library = "cnpy" /\ NpyNext /\ UNCHANGED <<vars, call>>
     \/ library = "functions" /\ Call /\ UNCHANGED <<vars, npyVars>>

LibrarySpec == LibraryInit /\ [][LibraryNext]_libraryVars

-----------------------------------------------------------------------------
(* Properties. Those of the ring are in CircleQueue, LoadedIsSaved is in   *)
(* NpyFile, and the others say what a call of a function gives.            *)

\* StringUtil: a text is the sum of its characters and of its parts.
TextsStayWhole ==
  call.fn = "text" => CharactersAreWhole(call.str) /\ PartsMakeTheWhole(call.str)

\* onnxruntime-tensor: no function on shapes and no copy loses an element or
\* puts it where it does not belong, overflow of the products included.
TensorsKeepElements ==
  /\ call.fn = "shape" => ShapesKeepElements(call.shape, call.axis, call.other)
  /\ call.fn = "repeat" => RepeatIsTorchRepeat(call.input, call.shape, call.factors)
  /\ call.fn = "topk" => TopKIsStable(call.values, call.k)

\* wav.h, both copies: the readers find what the writers and others wrote.
WavesAreRead ==
  /\ call.fn = "read" => ReadersFindTheData(call.file)
  /\ call.fn = "write" =>
       WritersAreRead(call.values, Len(call.values) \div call.channels, call.channels, call.bits)
=============================================================================
