---------------------------- MODULE StringUtil ----------------------------
(***************************************************************************)
(* The functions of Utils/StringUtil.cpp. A string is a sequence of bytes, *)
(* 0..255; a position counts from 1, and npos is one past the end. isalpha *)
(* is that of the C locale. Left out: gbkToUtf8, which is a call of iconv, *)
(* and IsAlpha.                                                            *)
(***************************************************************************)
EXTENDS Integers, Sequences, SequencesExt

Tab == 9
Space == 32
Apostrophe == 39
Slash == 47
Whitespace == {Tab, 10, 11, 12, 13, Space}
Letters == 65..90 \cup 97..122

\* The bytes of the character that c begins; 0 for one that begins none.
Width(c) ==
  CASE c < 128        -> 1
    [] c \in 192..223 -> 2
    [] c \in 224..239 -> 3
    [] c \in 240..247 -> 4
    [] OTHER          -> 0

Continues(c) == c \in 128..191

-----------------------------------------------------------------------------
(* The tests of an encoding.                                               *)

isUTF8(str) ==
  LET from[i \in Nat] ==
        LET n == Width(str[i])
        IN  i > Len(str) \/ /\ n > 0
                            /\ i + n - 1 <= Len(str)
                            /\ \A k \in i + 1..i + n - 1 : Continues(str[k])
                            /\ from[i + n]
  IN  from[1]

isGBK(str) ==
  LET from[i \in Nat] ==
        \/ i > Len(str)
        \/ str[i] < 128 /\ from[i + 1]
        \/ /\ str[i] >= 128
           /\ i < Len(str)
           /\ str[i + 1] \in (64..126) \cup (128..254)
           /\ from[i + 2]
  IN  from[1]

-----------------------------------------------------------------------------
(* Characters. The loops keep the width of the character before at a byte  *)
(* that begins none; SplitUTF8StringToChars asserts that it is none from   *)
(* 248 on. A cursor is a position and that width.                          *)

Cursors == (Nat \ {0}) \X (1..4)

After(str, cursor) ==
  LET width == Width(str[cursor[1]])
      bytes == IF width = 0 THEN cursor[2] ELSE width
  IN  <<cursor[1] + bytes, bytes>>

AssertHolds(str) ==
  LET from[c \in Cursors] ==
        c[1] > Len(str) \/ (str[c[1]] < 248 /\ from[After(str, c)])
  IN  from[<<1, 1>>]

SplitUTF8StringToChars(str) ==
  LET last(next) == IF next <= Len(str) THEN next - 1 ELSE Len(str)
      from[c \in Cursors] ==
        IF c[1] > Len(str) THEN <<>>
        ELSE <<SubSeq(str, c[1], last(After(str, c)[1]))>> \o from[After(str, c)]
  IN  from[<<1, 1>>]

UTF8StringLength(str) ==
  LET from[c \in Cursors] ==
        IF c[1] > Len(str) THEN 0 ELSE 1 + from[After(str, c)]
  IN  from[<<1, 1>>]

\* A byte from 128 on reaches isalpha as a negative char, for which C defines
\* nothing; the table of glibc has an entry there, and it is no letter.
CheckEnglishChar(ch) == Len(ch) = 1 /\ ch[1] \in Letters \cup {Apostrophe}

CheckEnglishWord(word) ==
  \A ch \in ToSet(SplitUTF8StringToChars(word)) : CheckEnglishChar(ch)

-----------------------------------------------------------------------------
(* Trimming, splitting and joining.                                        *)

Ltrim(str) ==
  SubSeq(str, SelectInSeq(str \o <<0>>, LAMBDA c : c \notin Whitespace), Len(str))
Rtrim(str) == SubSeq(str, 1, SelectLastInSeq(str, LAMBDA c : c \notin Whitespace))
Trim(str) == Rtrim(Ltrim(str))

FindFirstOf(full, delim, start) ==
  LET at == SelectInSubSeq(full, start, Len(full), LAMBDA c : c \in delim)
  IN  IF at = 0 THEN Len(full) + 1 ELSE at

\* Whether the part from start to found is kept; not the code: also what is
\* empty after the last delimiter.
KeptAtEnd(omit, start, found, end) == ~omit \/ found # start \/ start = end + 1
Kept(omit, start, found, end) == ~omit \/ (found # start /\ start # end + 1)

SplitStringToVector(full, delim, omit_empty_strings) ==
  LET from[start \in Nat \ {0}] ==
        LET found == FindFirstOf(full, delim, start)
            part == IF Kept(omit_empty_strings, start, found, Len(full))
                    THEN <<SubSeq(full, start, found - 1)>> ELSE <<>>
        IN  part \o IF found > Len(full) THEN <<>> ELSE from[found + 1]
  IN  from[1]

SplitString(str) == SplitStringToVector(Trim(str), {Space, Tab}, TRUE)

JoinString(c, strs) ==
  FlattenSeq([i \in DOMAIN strs |-> IF i < Len(strs) THEN strs[i] \o c ELSE strs[i]])

JoinPath(left, right) ==
  IF left # <<>> /\ Last(left) # Slash THEN left \o <<Slash>> \o right ELSE left \o right

-----------------------------------------------------------------------------
(* What they are for.                                                      *)

\* Cutting a text into characters loses no byte, and the characters of what
\* passes isUTF8 pass it one by one and are as many as were counted; a text
\* passes if and only if both halves do, provided the first does, and so for
\* isGBK; a word is English if every byte of it is.
CharactersAreWhole(str) ==
  /\ AssertHolds(str) =>
       /\ FlattenSeq(SplitUTF8StringToChars(str)) = str
       /\ CheckEnglishWord(str) <=> ToSet(str) \subseteq Letters \cup {Apostrophe}
  /\ isUTF8(str) =>
       LET chars == SplitUTF8StringToChars(str)
       IN  /\ AssertHolds(str)
           /\ Len(chars) = UTF8StringLength(str)
           /\ \A ch \in ToSet(chars) : isUTF8(ch) /\ Width(ch[1]) = Len(ch)
  /\ \A n \in DOMAIN str :
       LET left == SubSeq(str, 1, n)  right == SubSeq(str, n + 1, Len(str))
       IN  /\ isUTF8(left) => (isUTF8(str) <=> isUTF8(right))
           /\ isGBK(left) => (isGBK(str) <=> isGBK(right))

\* The parts that are not empty.
NonEmpty(parts) ==
  FlattenSeq([i \in DOMAIN parts |-> IF parts[i] = <<>> THEN <<>> ELSE <<parts[i]>>])

\* Splitting at one delimiter and joining are inverse; without empty parts
\* they are the others in their order; words are what is between blanks, and
\* joining them and splitting again gives them back; paths may be joined in
\* any order.
PartsMakeTheWhole(str) ==
  LET parts == SplitStringToVector(str, {Space}, FALSE)
      words == SplitString(str)
  IN  /\ JoinString(<<Space>>, parts) = str
      /\ SplitStringToVector(str, {Space}, TRUE) = NonEmpty(parts)
      /\ \A w \in ToSet(words) : w # <<>> /\ ToSet(w) \cap {Space, Tab} = {}
      /\ SplitString(JoinString(<<Space>>, words)) = words
      /\ \A a, b, c \in ToSet(parts) :
           JoinPath(JoinPath(a, b), c) = JoinPath(a, JoinPath(b, c))
=============================================================================
