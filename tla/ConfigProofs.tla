---------------------------- MODULE ConfigProofs ----------------------------
(***************************************************************************)
(* Theorems of ConfigManager, for every command line and every file.       *)
(*                                                                         *)
(* ConfigInv: both configurations have every field in its range, and the   *)
(* one load_from_file builds is fit for use; so whichever replaces the     *)
(* other, both stay in range. ReadInv: there is a set of positions, those  *)
(* the program has read as options, that is the reading of the arguments   *)
(* up to i, and the last options of it have set their fields. The          *)
(* positions need not be kept by the program: every step extends them.     *)
(***************************************************************************)
EXTENDS ConfigManager, SequenceTheorems, TLAPS

\* A configuration has the fields of the structure.
IsConfig(c) == c = [k \in Keys |-> c[k]]

\* The kinds of fields are different.
LEMMA Kinds ==
  \A k :
    /\ k \in RateKeys => k \notin TimeKeys \cup HostKeys \cup PortKeys \cup FlagKeys
    /\ k \in TimeKeys => k \notin RateKeys \cup HostKeys \cup PortKeys \cup FlagKeys
    /\ k \in HostKeys => k \notin RateKeys \cup TimeKeys \cup PortKeys \cup FlagKeys
    /\ k \in PortKeys => k \notin RateKeys \cup TimeKeys \cup HostKeys \cup FlagKeys
    /\ k \in FlagKeys => k \notin RateKeys \cup TimeKeys \cup HostKeys \cup PortKeys
BY DEF RateKeys, TimeKeys, HostKeys, PortKeys, FlagKeys

\* The defaults of the structure.
LEMMA DefaultValues ==
  /\ IsConfig(Defaults)
  /\ \A k \in RateKeys \cup TimeKeys : Defaults[k] = 0
  /\ \A k \in FlagKeys : Defaults[k] = TRUE
  /\ \A k \in PortKeys : Defaults[k] \in Ports /\ Defaults[k] > 0
<1>1. \A k \in PortKeys : Defaults[k] \in {8080, 8081}
  BY DEF Defaults, PortKeys
<1>2. {8080, 8081} \subseteq Ports \cap {n \in Int : n > 0}
  BY DEF Ports
<1>3. \A k \in PortKeys : Defaults[k] \in Ports /\ Defaults[k] > 0
  BY <1>1, <1>2
<1>4. IsConfig(Defaults)
  BY DEF Defaults, IsConfig, Keys, RateKeys, TimeKeys, HostKeys, PortKeys, FlagKeys
<1>5. /\ \A k \in RateKeys \cup TimeKeys : Defaults[k] = 0
      /\ \A k \in FlagKeys : Defaults[k] = TRUE
  BY DEF Defaults, RateKeys, TimeKeys, FlagKeys
<1>. QED BY <1>3, <1>4, <1>5

-----------------------------------------------------------------------------
(* What a conversion makes of a text.                                      *)

\* What a port becomes.
LEMMA PortInRange ==
  ASSUME NEW t, t[2] \in Int
  PROVE  AsPort(t) \in Ports
<1>1. ASSUME NEW n \in Int PROVE n % 65536 \in Ports
  BY DEF Ports
<1>. QED BY <1>1 DEF AsPort

\* What a flag becomes.
LEMMA FlagIsBoolean ==
  ASSUME NEW t
  PROVE  AsFlag(t) \in BOOLEAN
BY DEF AsFlag

\* Ports are natural numbers.
LEMMA PortsAreNat ==
  ASSUME NEW n \in Ports
  PROVE  n \in Int /\ n >= 0
BY DEF Ports

\* A value that does not throw is in the range of its field.
LEMMA ParsedInRange ==
  ASSUME NEW t, IsNum(t) => t[2] \in Int, NEW k \in Keys, ~Throws(k, t)
  PROVE  /\ k \in RateKeys => Parsed(k, t) \in 0..100
         /\ k \in TimeKeys => Parsed(k, t) \in Int
         /\ k \in PortKeys => Parsed(k, t) \in Ports
         /\ k \in FlagKeys => Parsed(k, t) \in BOOLEAN
<1>1. ASSUME k \in RateKeys PROVE Parsed(k, t) \in 0..100
  BY <1>1 DEF Parsed, parse_percentage
<1>2. ASSUME k \in TimeKeys PROVE Parsed(k, t) \in Int
  BY <1>2, Kinds DEF Parsed, parse_milliseconds, IsInt
<1>3. ASSUME k \in PortKeys PROVE Parsed(k, t) \in Ports
  <2>1. Parsed(k, t) = AsPort(t)
    BY <1>3, Kinds DEF Parsed
  <2>2. t[2] \in Int
    BY <1>3 DEF Throws, IsInt
  <2>. QED BY <2>1, <2>2, PortInRange
<1>4. ASSUME k \in FlagKeys PROVE Parsed(k, t) \in BOOLEAN
  <2>1. Parsed(k, t) = AsFlag(t)
    BY <1>4, Kinds, Zenon DEF Parsed
  <2>2. AsFlag(t) \in BOOLEAN
    BY FlagIsBoolean
  <2>. QED BY ONLY <2>1, <2>2, Zenon
<1>. QED BY <1>1, <1>2, <1>3, <1>4

\* What is left of a text that has lost its last character.
LEMMA ChopIsText ==
  ASSUME NEW t \in ArgumentTexts
  PROVE  IsNum(Chop(t)) => Chop(t)[2] \in Int
<1>1. CASE t \in {"word"} \X STRING
  BY <1>1 DEF Chop, IsNum
<1>2. CASE t \in {"num"} \X Int \X {"", "%", "ms"}
  <2>1. IsNum(t) /\ t[2] \in Int
    BY <1>2 DEF IsNum
  <2>2. \A n \in Int : IsNum(WithoutDigit(n)) => WithoutDigit(n)[2] \in Int
    BY DEF WithoutDigit, IsNum, Num, Word
  <2>3. CASE t[3] = ""
    BY <2>1, <2>2, <2>3 DEF Chop
  <2>4. CASE t[3] # ""
    BY <2>1, <2>4 DEF Chop, Num
  <2>. QED BY <2>3, <2>4
<1>. QED BY <1>1, <1>2 DEF ArgumentTexts

\* A text that is a number has a value.
LEMMA TextIsNumber ==
  ASSUME NEW t \in ArgumentTexts
  PROVE  IsNum(t) => t[2] \in Int
BY DEF ArgumentTexts, IsNum

-----------------------------------------------------------------------------
(* Configurations that are assigned to.                                    *)

\* One field of a configuration in range is assigned a value in range.
LEMMA AssignInRange ==
  ASSUME NEW c, IsConfig(c), InRange(c), NEW k \in Keys, NEW v,
         k \in RateKeys => v \in 0..100,
         k \in TimeKeys => v \in Int,
         k \in PortKeys => v \in Ports,
         k \in FlagKeys => v \in BOOLEAN,
         NEW d, d = [c EXCEPT ![k] = v]
  PROVE  IsConfig(d) /\ InRange(d)
<1>1. IsConfig(d)
  BY DEF IsConfig
<1>2. \A m \in Keys : d[m] = IF m = k THEN v ELSE c[m]
  BY DEF IsConfig
<1>3. \A m \in RateKeys : d[m] \in 0..100
  BY <1>2 DEF InRange, Keys
<1>4. \A m \in TimeKeys : d[m] \in Int
  BY <1>2 DEF InRange, Keys
<1>5. \A m \in PortKeys : d[m] \in Ports
  BY <1>2 DEF InRange, Keys
<1>6. \A m \in FlagKeys : d[m] \in BOOLEAN
  BY <1>2 DEF InRange, Keys
<1>. QED BY <1>1, <1>3, <1>4, <1>5, <1>6 DEF InRange

\* The defaults are in range.
LEMMA DefaultsInRange ==
  InRange(Defaults)
<1>1. /\ \A k \in RateKeys : Defaults[k] \in 0..100
      /\ \A k \in TimeKeys : Defaults[k] \in Int
  BY DefaultValues
<1>2. \A k \in PortKeys : Defaults[k] \in Ports
  BY DefaultValues
<1>3. \A k \in FlagKeys : Defaults[k] \in BOOLEAN
  BY DefaultValues
<1>. QED BY <1>1, <1>2, <1>3 DEF InRange

\* The configuration that one line of a file becomes is in range.
LEMMA LineInRange ==
  ASSUME NEW key, NEW t, IsNum(t) => t[2] \in Int,
         ~(t # <<"empty">> /\ Throws(key, t))
  PROVE  IsConfig(parse_config_line(key, t)) /\ InRange(parse_config_line(key, t))
<1>1. CASE key \in Keys /\ t # <<"empty">>
  <2>1. ~Throws(key, t)
    BY <1>1
  <2>2. /\ key \in RateKeys => Parsed(key, t) \in 0..100
        /\ key \in TimeKeys => Parsed(key, t) \in Int
        /\ key \in PortKeys => Parsed(key, t) \in Ports
        /\ key \in FlagKeys => Parsed(key, t) \in BOOLEAN
    BY <1>1, <2>1, ParsedInRange
  <2>3. parse_config_line(key, t) = [Defaults EXCEPT ![key] = Parsed(key, t)]
    BY <1>1 DEF parse_config_line
  <2>. QED BY <1>1, <2>2, <2>3, AssignInRange, DefaultValues, DefaultsInRange
<1>2. CASE ~(key \in Keys /\ t # <<"empty">>)
  <2>1. parse_config_line(key, t) = Defaults
    BY <1>2 DEF parse_config_line
  <2>. QED BY <2>1, DefaultValues, DefaultsInRange
<1>. QED BY <1>1, <1>2

\* A configuration fit for use, as FileConfigUsable says.
Usable(c) ==
  /\ \A k \in PortKeys : c[k] > 0
  /\ \A k \in TimeKeys : c[k] >= 0

\* What load_from_file takes from a line in range leaves its configuration in
\* range and usable: it takes no port 0 and no negative time.
LEMMA MergeInRange ==
  ASSUME NEW c, IsConfig(c), InRange(c), Usable(c),
         NEW l, InRange(l), NEW d, d = Merge(c, l)
  PROVE  IsConfig(d) /\ InRange(d) /\ Usable(d)
<1>1. IsConfig(d)
  BY DEF IsConfig, Merge
<1>2. ASSUME NEW k \in Keys PROVE d[k] = IF Taken(k, l[k]) THEN l[k] ELSE c[k]
  BY DEF Merge
<1>3. ASSUME NEW k \in RateKeys PROVE d[k] \in 0..100
  <2>1. l[k] \in 0..100 /\ c[k] \in 0..100
    BY DEF InRange
  <2>. QED BY ONLY <1>2, <2>1 DEF Keys
<1>4. ASSUME NEW k \in TimeKeys PROVE d[k] \in Int /\ d[k] >= 0
  <2>1. l[k] \in Int /\ c[k] \in Int /\ c[k] >= 0
    BY DEF InRange, Usable
  <2>2. k \in Keys /\ k \notin PortKeys /\ k \notin HostKeys
    BY Kinds DEF Keys
  <2>3. Taken(k, l[k]) => l[k] >= 0
    BY ONLY <2>2 DEF Taken
  <2>4. d[k] = l[k] \/ d[k] = c[k]
    BY <1>2, <2>2
  <2>5. (d[k] = l[k] /\ l[k] >= 0) \/ d[k] = c[k]
    BY <1>2, <2>2, <2>3
  <2>. QED BY ONLY <2>1, <2>5
<1>5. ASSUME NEW k \in PortKeys PROVE d[k] \in Ports /\ d[k] > 0
  <2>1. l[k] \in Ports /\ c[k] \in Ports /\ c[k] > 0
    BY DEF InRange, Usable
  <2>2. k \in Keys /\ k \notin RateKeys /\ k \notin TimeKeys /\ k \notin HostKeys
    BY Kinds DEF Keys
  <2>3. Taken(k, l[k]) => l[k] > 0
    BY ONLY <2>2 DEF Taken
  <2>5. (d[k] = l[k] /\ l[k] > 0) \/ d[k] = c[k]
    BY <1>2, <2>2, <2>3
  <2>. QED BY ONLY <2>1, <2>5
<1>6. ASSUME NEW k \in FlagKeys PROVE d[k] \in BOOLEAN
  <2>1. k \in Keys /\ l[k] \in BOOLEAN /\ c[k] \in BOOLEAN
    BY DEF InRange, Keys
  <2>2. d[k] = l[k] \/ d[k] = c[k]
    BY <1>2, <2>1, Zenon
  <2>. QED BY ONLY <2>1, <2>2, Zenon
<1>. QED BY <1>1, <1>3, <1>4, <1>5, <1>6 DEF InRange, Usable

-----------------------------------------------------------------------------
(* Every step.                                                             *)

\* The input, and the positions in it.
PlacesInv ==
  /\ argv \in Seq(ArgumentTexts)
  /\ file \in Seq(Lines)
  /\ i \in 1..Len(argv) + 1
  /\ j \in 1..Len(file) + 1
  /\ stage \in {"args", "file", "done", "exit", "thrown", "fileThrown"}

\* The configuration of the command line is in range, that of the file is
\* fit for use as well, whichever of them replaces the other.
ConfigInv ==
  /\ PlacesInv
  /\ IsConfig(config) /\ InRange(config)
  /\ IsConfig(fileConfig) /\ InRange(fileConfig) /\ Usable(fileConfig)

\* The defaults are fit for use.
LEMMA DefaultsUsable ==
  Usable(Defaults)
<1>1. \A k \in PortKeys : Defaults[k] > 0
  BY DefaultValues
<1>2. \A k \in TimeKeys : Defaults[k] >= 0
  BY DefaultValues
<1>. QED BY <1>1, <1>2 DEF Usable

\* The first state.
LEMMA InitConfigInv ==
  ConfigInit => ConfigInv
<1>. SUFFICES ASSUME ConfigInit PROVE ConfigInv
  OBVIOUS
<1>1. argv \in Seq(ArgumentTexts) /\ file \in Seq(Lines)
  BY InputsAssumption DEF ConfigInit
<1>2. Len(argv) \in Nat /\ Len(file) \in Nat
  BY <1>1, LenProperties
<1>3. PlacesInv
  BY <1>1, <1>2 DEF ConfigInit, PlacesInv
<1>4. config = Defaults /\ fileConfig = Defaults
  BY DEF ConfigInit
<1>. QED BY <1>3, <1>4, DefaultValues, DefaultsInRange, DefaultsUsable DEF ConfigInv

\* An option's value reaches the configuration through its conversion.
LEMMA SetValueStep ==
  ConfigInv /\ SetValue => ConfigInv'
<1>. SUFFICES ASSUME ConfigInv, SetValue PROVE ConfigInv'
  OBVIOUS
<1>1. PICK k \in Keys :
        IF Throws(k, argv[i + 1])
        THEN stage' = "thrown" /\ UNCHANGED <<config, i>>
        ELSE /\ config' = [config EXCEPT ![k] = Parsed(k, argv[i + 1])]
             /\ i' = AfterValue
             /\ UNCHANGED stage
  BY DEF SetValue
<1>2. UNCHANGED <<argv, file, fileConfig, j>> /\ i + 1 <= Len(argv) /\ stage = "args"
  BY DEF SetValue, AtArg, HasValue
<1>3. Len(argv) \in Nat /\ i \in Nat /\ i > 0
  BY LenProperties DEF ConfigInv, PlacesInv
<1>4. argv[i + 1] \in ArgumentTexts
  BY <1>2, <1>3, ElementOfSeq DEF ConfigInv, PlacesInv
<1>5. CASE Throws(k, argv[i + 1])
  <2>1. stage' = "thrown" /\ UNCHANGED <<config, i>>
    BY <1>1, <1>5
  <2>. QED BY <1>2, <2>1 DEF ConfigInv, PlacesInv
<1>6. CASE ~Throws(k, argv[i + 1])
  <2>. DEFINE v == Parsed(k, argv[i + 1])
  <2>1. config' = [config EXCEPT ![k] = v] /\ i' = i + 2 /\ UNCHANGED stage
    BY <1>1, <1>6 DEF AfterValue
  <2>2. /\ k \in RateKeys => v \in 0..100
        /\ k \in TimeKeys => v \in Int
        /\ k \in PortKeys => v \in Ports
        /\ k \in FlagKeys => v \in BOOLEAN
    BY <1>4, <1>6, TextIsNumber, ParsedInRange
  <2>. HIDE DEF v
  <2>3. IsConfig(config') /\ InRange(config')
    BY <2>1, <2>2, AssignInRange DEF ConfigInv
  <2>4. PlacesInv'
    BY <1>2, <1>3, <2>1 DEF ConfigInv, PlacesInv
  <2>. QED BY <1>2, <2>3, <2>4 DEF ConfigInv
<1>. QED BY <1>5, <1>6

\* An option without a value turns a flag off.
LEMMA SetFlagStep ==
  ConfigInv /\ SetFlag => ConfigInv'
<1>. SUFFICES ASSUME ConfigInv, SetFlag PROVE ConfigInv'
  OBVIOUS
<1>1. PICK k \in FlagKeys : config' = [config EXCEPT ![k] = FALSE]
  BY DEF SetFlag
<1>2. i <= Len(argv) /\ i' = i + 1 /\ UNCHANGED <<argv, file, fileConfig, j, stage>>
  BY DEF SetFlag, AtArg
<1>3. Len(argv) \in Nat
  BY LenProperties DEF ConfigInv, PlacesInv
<1>4. k \in Keys /\ k \notin RateKeys \cup TimeKeys \cup PortKeys
  BY Kinds DEF Keys
<1>5. IsConfig(config') /\ InRange(config')
  BY <1>1, <1>4, AssignInRange DEF ConfigInv
<1>6. PlacesInv'
  BY <1>2, <1>3 DEF ConfigInv, PlacesInv
<1>. QED BY <1>2, <1>5, <1>6 DEF ConfigInv

\* A line of the file reaches its configuration through the conversion of a
\* text that has lost its last character.
LEMMA SettingLineStep ==
  ConfigInv /\ SettingLine => ConfigInv'
<1>. SUFFICES ASSUME ConfigInv, SettingLine PROVE ConfigInv'
  OBVIOUS
<1>. DEFINE k == file[j].key
            t == Chop(file[j].text)
<1>1. /\ j <= Len(file) /\ stage = "file" /\ file[j].kind = "setting"
      /\ UNCHANGED <<argv, file, config, i>>
  BY DEF SettingLine, AtLine
<1>2. IF t # <<"empty">> /\ Throws(k, t)
      THEN stage' = "fileThrown" /\ UNCHANGED <<fileConfig, j>>
      ELSE /\ fileConfig' = AfterLine(k, t)
           /\ j' = j + 1
           /\ UNCHANGED stage
  BY DEF SettingLine
<1>3. Len(file) \in Nat /\ j \in 1..Len(file)
  BY <1>1, LenProperties DEF ConfigInv, PlacesInv
<1>4. file[j] \in Lines
  BY <1>3, ElementOfSeq DEF ConfigInv, PlacesInv
<1>5. file[j].text \in ArgumentTexts
  BY <1>1, <1>4 DEF Lines, Blank, Comment
<1>6. IsNum(t) => t[2] \in Int
  BY <1>5, ChopIsText
<1>. HIDE DEF k, t
<1>7. CASE t # <<"empty">> /\ Throws(k, t)
  <2>1. stage' = "fileThrown" /\ UNCHANGED <<fileConfig, j>>
    BY <1>2, <1>7
  <2>. QED BY <1>1, <2>1 DEF ConfigInv, PlacesInv
<1>8. CASE ~(t # <<"empty">> /\ Throws(k, t))
  <2>1. /\ fileConfig' = AfterLine(k, t)
        /\ j' = j + 1 /\ UNCHANGED stage
    BY <1>2, <1>8
  <2>5. \/ fileConfig' = fileConfig
        \/ fileConfig' = Merge(fileConfig, parse_config_line(k, t))
    BY <2>1 DEF AfterLine
  <2>2. IsConfig(parse_config_line(k, t)) /\ InRange(parse_config_line(k, t))
    BY <1>6, <1>8, LineInRange
  <2>3. IsConfig(fileConfig') /\ InRange(fileConfig') /\ Usable(fileConfig')
    BY <2>2, <2>5, MergeInRange DEF ConfigInv
  <2>4. PlacesInv'
    BY <1>1, <1>3, <2>1 DEF ConfigInv, PlacesInv
  <2>. QED BY <1>1, <2>3, <2>4 DEF ConfigInv
<1>. QED BY <1>7, <1>8

\* The other actions.
LEMMA OtherSteps ==
  ConfigInv /\ (\/ OpenFile \/ Dangling \/ ExitEarly \/ ArgsDone \/ BlankLine
                \/ CommentLine \/ FileDone \/ FileMissing \/ UNCHANGED configVars) => ConfigInv'
<1>. SUFFICES ASSUME ConfigInv PROVE
       (\/ OpenFile \/ Dangling \/ ExitEarly \/ ArgsDone \/ BlankLine
        \/ CommentLine \/ FileDone \/ FileMissing \/ UNCHANGED configVars) => ConfigInv'
  OBVIOUS
<1>. Len(argv) \in Nat /\ Len(file) \in Nat
  BY LenProperties DEF ConfigInv, PlacesInv
<1>1. CASE OpenFile
  <2>1. /\ i + 1 <= Len(argv) /\ i' = i + 2 /\ j' = 1 /\ stage' = "file"
        /\ fileConfig' = Defaults /\ UNCHANGED <<argv, file, config>>
    BY <1>1 DEF OpenFile, HasValue, AfterValue
  <2>2. PlacesInv'
    BY <2>1 DEF ConfigInv, PlacesInv
  <2>. QED BY <2>1, <2>2, DefaultValues, DefaultsInRange, DefaultsUsable DEF ConfigInv
<1>2. CASE Dangling
  BY <1>2 DEF Dangling, AtArg, ConfigInv, PlacesInv
<1>3. CASE ExitEarly
  BY <1>3 DEF ExitEarly, ConfigInv, PlacesInv
<1>4. CASE ArgsDone
  BY <1>4 DEF ArgsDone, ConfigInv, PlacesInv
<1>5. CASE BlankLine
  BY <1>5 DEF BlankLine, ConfigInv, PlacesInv
<1>6. CASE CommentLine
  BY <1>6 DEF CommentLine, AtLine, ConfigInv, PlacesInv
<1>7. CASE FileDone
  BY <1>7 DEF FileDone, ConfigInv, PlacesInv
<1>8. CASE FileMissing
  <2>1. PlacesInv'
    BY <1>8 DEF FileMissing, ConfigInv, PlacesInv
  <2>2. config' = Defaults /\ UNCHANGED fileConfig
    BY <1>8 DEF FileMissing
  <2>. QED BY <2>1, <2>2, DefaultValues, DefaultsInRange DEF ConfigInv
<1>9. CASE UNCHANGED configVars
  BY <1>9 DEF configVars, ConfigInv, PlacesInv
<1>. QED BY <1>1, <1>2, <1>3, <1>4, <1>5, <1>6, <1>7, <1>8, <1>9

\* ConfigInv is inductive.
LEMMA ConfigAlways ==
  ConfigSpec => []ConfigInv
<1>1. ConfigInv /\ [ConfigNext]_configVars => ConfigInv'
  BY SetValueStep, SetFlagStep, SettingLineStep, OtherSteps DEF ConfigNext
<1>. QED BY InitConfigInv, <1>1, PTL DEF ConfigSpec

-----------------------------------------------------------------------------
(* Which arguments are options. The program reads argv from left to right; *)
(* the positions it has read as options are a witness for                  *)
(* LaterArgumentsWin.                                                      *)

\* The positions at, all before n, are those read as options so far; the
\* options that set a field last have set it. While a file is read it is the
\* last of them.
ReadBy(at, n) ==
  /\ i = n
  /\ at \in SUBSET (1..n - 1)
  /\ IsReading(at, n - 1)
  /\ n <= Len(argv) => IsNext(at, n) /\ (n - 1 \in at => IsFlag(n - 1))
  /\ LastWins(at)
  /\ stage = "file" => n - 2 \in at /\ Loads(n - 2) /\ (\A m \in at : m <= n - 2)
  /\ stage = "done" => n = Len(argv) + 1

ReadInv == stage \in {"args", "file", "done"} => \E at, n : ReadBy(at, n)

\* An option is read: it joins the positions read.
LEMMA ReadingGrows ==
  ASSUME NEW p \in Nat, p > 0, NEW at \in SUBSET (1..p - 1),
         IsReading(at, p - 1), IsNext(at, p), NEW s, s = at \cup {p}
  PROVE  s \in SUBSET (1..p) /\ IsReading(s, p)
<1>1. s \in SUBSET (1..p)
  OBVIOUS
<1>2. ASSUME NEW m \in 1..p PROVE m \in s <=> IsNext(s, m)
  <2>1. m - 1 # p /\ m - 2 # p
    OBVIOUS
  <2>2. IsNext(s, m) <=> IsNext(at, m)
    BY <2>1 DEF IsNext
  <2>3. CASE m = p
    BY <2>2, <2>3
  <2>4. CASE m # p
    <3>1. m \in 1..p - 1
      BY <2>4
    <3>2. m \in at <=> IsNext(at, m)
      BY <3>1 DEF IsReading
    <3>. QED BY <2>2, <2>4, <3>2
  <2>. QED BY <2>3, <2>4
<1>. QED BY <1>1, <1>2 DEF IsReading

\* The argument after an option that takes a value is none.
LEMMA ReadingSkips ==
  ASSUME NEW p \in Nat, p > 0, NEW at \in SUBSET (1..p - 1),
         IsReading(at, p - 1), IsNext(at, p), NEW s, s = at \cup {p},
         ~IsFlag(p), p - 1 \in at => IsFlag(p - 1)
  PROVE  IsReading(s, p + 1) /\ IsNext(s, p + 2)
<1>1. IsReading(s, p) /\ s \in SUBSET (1..p)
  BY ReadingGrows
<1>2. ~IsNext(s, p + 1)
  <2>1. p + 1 # 1 /\ (p + 1) - 1 = p /\ (p + 1) - 2 = p - 1 /\ p - 1 # p
    OBVIOUS
  <2>. QED BY <2>1 DEF IsNext
<1>3. p + 1 \notin s
  BY <1>1
<1>4. ASSUME NEW m \in 1..p + 1 PROVE m \in s <=> IsNext(s, m)
  <2>1. m = p + 1 \/ m \in 1..p
    OBVIOUS
  <2>. QED BY <1>1, <1>2, <1>3, <2>1 DEF IsReading
<1>5. IsNext(s, p + 2)
  <2>1. (p + 2) - 2 = p
    OBVIOUS
  <2>. QED BY <2>1 DEF IsNext
<1>. QED BY <1>4, <1>5 DEF IsReading

\* What is said of the arguments stays true while they do not change.
LEMMA SameSets ==
  ASSUME argv' = argv, NEW n, NEW k
  PROVE  Sets(n, k)' <=> Sets(n, k)
BY DEF Sets, Option

\* The same, of the files.
LEMMA SameLoads ==
  ASSUME argv' = argv, NEW n
  PROVE  Loads(n)' <=> Loads(n)
BY DEF Loads

\* The same, of the options without a value.
LEMMA SameNext ==
  ASSUME argv' = argv, NEW at, NEW n
  PROVE  IsNext(at, n)' <=> IsNext(at, n)
BY DEF IsNext, IsFlag, IsOption, Option

\* The same, of the positions read.
LEMMA SameReading ==
  ASSUME argv' = argv, NEW at, NEW n
  PROVE  IsReading(at, n)' <=> IsReading(at, n)
BY SameNext, Zenon DEF IsReading

\* An option is for one field, and one that loads a file is for none.
LEMMA OneOption ==
  ASSUME NEW n
  PROVE  /\ \A k, m \in Keys : Sets(n, k) /\ Sets(n, m) => k = m
         /\ \A k \in Keys : Sets(n, k) => ~IsFlag(n) /\ ~Loads(n) /\ k \notin FlagKeys
         /\ Loads(n) => ~IsFlag(n)
<1>1. ASSUME NEW k \in Keys, NEW m \in Keys, Sets(n, k), Sets(n, m) PROVE k = m
  BY <1>1 DEF Sets, Option, ValueOptions
<1>2. ASSUME NEW k \in Keys, Sets(n, k) PROVE ~Loads(n)
  BY <1>2 DEF Sets, Option, ValueOptions, Loads, Word
<1>3. ASSUME NEW k \in Keys, Sets(n, k) PROVE ~IsFlag(n)
  BY <1>3 DEF Sets, IsFlag, IsOption, Option, ValueOptions, FlagOptions
<1>4. ASSUME NEW k \in Keys, Sets(n, k) PROVE k \notin FlagKeys
  BY <1>4 DEF Sets, Option, ValueOptions, FlagKeys
<1>5. ASSUME Loads(n) PROVE ~IsFlag(n)
  BY <1>5 DEF Loads, IsFlag, IsOption, Option, FlagOptions, Word
<1>. QED BY <1>1, <1>2, <1>3, <1>4, <1>5, Zenon

\* The option at p is read. It sets its field, if it has one, and keeps the
\* fields that are set; an option that loads a file is later than all of them.
LEMMA WinsAfterOption ==
  ASSUME argv' = argv, NEW p \in Nat, NEW at \in SUBSET (1..p - 1), LastWins(at),
         NEW s, s = at \cup {p},
         \A k \in Keys : Sets(p, k) => config'[k] = Parsed(k, argv[p + 1]),
         \A k \in Keys, n \in at :
           Sets(n, k) /\ ~Sets(p, k) /\ ~Loads(p) => config'[k] = config[k]
  PROVE  LastWins(s)'
<1>. SUFFICES ASSUME NEW k \in Keys, NEW n \in s, Sets(n, k)',
                     ~(\E m \in s : m > n /\ (Sets(m, k)' \/ Loads(m)'))
              PROVE  config'[k] = Parsed(k, argv'[n + 1])
  BY DEF LastWins
<1>1. Sets(n, k)
  BY SameSets
<1>2. ASSUME NEW m \in s, m > n PROVE ~Sets(m, k) /\ ~Loads(m)
  <2>1. ~Sets(m, k)' /\ ~Loads(m)'
    BY <1>2
  <2>2. ~Sets(m, k)
    BY <2>1, SameSets
  <2>3. ~Loads(m)
    BY <2>1, SameLoads
  <2>. QED BY <2>2, <2>3
<1>3. CASE n = p
  BY <1>1, <1>3
<1>4. CASE n # p
  <2>1. n \in at /\ n \in Nat /\ p > n /\ p \in s
    <3>1. n \in at /\ p \in s
      BY <1>4
    <3>2. n \in 1..p - 1
      BY <3>1
    <3>. QED BY ONLY <3>1, <3>2, p \in Nat
  <2>2. ~Sets(p, k) /\ ~Loads(p)
    BY <1>2, <2>1
  <2>3. ASSUME NEW m \in at, m > n PROVE ~(Sets(m, k) \/ Loads(m))
    BY <1>2, <2>3
  <2>4. config[k] = Parsed(k, argv[n + 1])
    BY <1>1, <2>1, <2>3 DEF LastWins
  <2>5. config'[k] = config[k]
    BY <1>1, <2>1, <2>2
  <2>. QED BY <2>4, <2>5
<1>. QED BY <1>3, <1>4

\* While the last option is a file, no field depends on an earlier one.
LEMMA WinsUnderFile ==
  ASSUME argv' = argv, NEW p \in Nat, NEW at, p \in at, Loads(p),
         \A n \in at : n \in Nat /\ n <= p
  PROVE  LastWins(at)'
<1>. SUFFICES ASSUME NEW k \in Keys, NEW n \in at, Sets(n, k)',
                     ~(\E m \in at : m > n /\ (Sets(m, k)' \/ Loads(m)'))
              PROVE  FALSE
  BY DEF LastWins
<1>1. Loads(p)'
  BY SameLoads
<1>2. n = p
  BY <1>1
<1>3. Sets(n, k)
  BY SameSets
<1>. QED BY <1>2, <1>3, OneOption

\* The first state: nothing was read.
LEMMA ReadInit ==
  ConfigInit => ReadInv
<1>. SUFFICES ASSUME ConfigInit PROVE ReadBy({}, 1)
  BY DEF ReadInv
<1>1. i = 1 /\ stage = "args"
  BY DEF ConfigInit
<1>2. IsReading({}, 1 - 1) /\ IsNext({}, 1) /\ LastWins({})
  BY <1>1 DEF IsReading, IsNext, LastWins
<1>. QED BY <1>1, <1>2 DEF ReadBy

\* An option at p is read; q is the next position.
LEMMA OptionRead ==
  ASSUME ConfigInv, argv' = argv, NEW at, NEW p, ReadBy(at, p), p <= Len(argv),
         NEW s, s = at \cup {p}, LastWins(s)', NEW q, i' = q,
         \/ q = p + 1 /\ (IsFlag(p) \/ q = Len(argv) + 1) /\ stage' # "file"
         \/ q = p + 2 /\ ~IsFlag(p) /\ (stage' = "file" => Loads(p)),
         stage' # "done"
  PROVE  ReadBy(s, q)'
<1>1. p \in Nat /\ p > 0 /\ Len(argv) \in Nat
  BY LenProperties DEF ConfigInv, PlacesInv, ReadBy
<1>2. /\ at \in SUBSET (1..p - 1) /\ IsReading(at, p - 1) /\ IsNext(at, p)
      /\ p - 1 \in at => IsFlag(p - 1)
  BY DEF ReadBy
<1>3. s \in SUBSET (1..p) /\ IsReading(s, p)
  BY <1>1, <1>2, ReadingGrows
<1>4. CASE q = p + 1 /\ (IsFlag(p) \/ q = Len(argv) + 1) /\ stage' # "file"
  <2>1. q - 1 = p /\ q \in Nat /\ q # 1
    BY <1>1, <1>4
  <2>2. IsReading(s, p)'
    BY <1>3, SameReading
  <2>3. q <= Len(argv) => IsFlag(p)
    BY <1>1, <1>4
  <2>4. q <= Len(argv) => IsNext(s, q)
    BY <2>1, <2>3 DEF IsNext
  <2>5. q <= Len(argv) => IsNext(s, q)'
    BY <2>4, SameNext
  <2>6. q <= Len(argv) => IsFlag(p)'
    BY <2>3 DEF IsFlag, IsOption, Option
  <2>. QED BY ONLY <1>3, <1>4, <2>1, <2>2, <2>5, <2>6, argv' = argv, LastWins(s)',
                   i' = q, stage' # "done" DEF ReadBy
<1>5. CASE q = p + 2 /\ ~IsFlag(p) /\ (stage' = "file" => Loads(p))
  <2>0. PICK r : r = p + 1
    OBVIOUS
  <2>1. q - 1 = r /\ q - 2 = p /\ q \in Nat /\ r \notin s
    BY <1>1, <1>3, <1>5, <2>0
  <2>2. IsReading(s, r) /\ IsNext(s, q)
    BY <1>1, <1>2, <1>5, <2>0, ReadingSkips
  <2>3. IsReading(s, r)'
    BY <2>2, SameReading
  <2>4. IsNext(s, q)'
    BY <2>2, SameNext
  <2>5. stage' = "file" => Loads(p)'
    BY <1>5, SameLoads
  <2>6. \A m \in s : m <= p
    BY <1>1, <1>3
  <2>7. s \in SUBSET (1..r)
    BY <1>1, <1>3, <2>0
  <2>8. p \in s
    OBVIOUS
  <2>. QED BY ONLY <2>1, <2>3, <2>4, <2>5, <2>6, <2>7, <2>8, argv' = argv, LastWins(s)',
                   i' = q, stage' # "done" DEF ReadBy
<1>. QED BY <1>4, <1>5

\* Nothing is read: the positions stay the same.
LEMMA NothingRead ==
  ASSUME argv' = argv, NEW at, NEW n, ReadBy(at, n), i' = n, LastWins(at)',
         stage' = "file" => stage = "file",
         stage' = "done" => n = Len(argv) + 1
  PROVE  ReadBy(at, n)'
<1>1. IsReading(at, n - 1)'
  <2>1. PICK r : r = n - 1
    OBVIOUS
  <2>2. IsReading(at, r)
    BY <2>1 DEF ReadBy
  <2>3. IsReading(at, r)'
    BY <2>2, SameReading
  <2>. QED BY <2>1, <2>3
<1>2. n <= Len(argv) => IsNext(at, n)' /\ (n - 1 \in at => IsFlag(n - 1)')
  <2>1. ASSUME n <= Len(argv) PROVE IsNext(at, n)'
    BY <2>1, SameNext DEF ReadBy
  <2>2. ASSUME n <= Len(argv), n - 1 \in at PROVE IsFlag(n - 1)'
    <3>1. IsFlag(n - 1)
      BY <2>2 DEF ReadBy
    <3>. QED BY <3>1 DEF IsFlag, IsOption, Option
  <2>. QED BY <2>1, <2>2
<1>3. ASSUME stage' = "file"
      PROVE  n - 2 \in at /\ Loads(n - 2)' /\ (\A m \in at : m <= n - 2)
  <2>1. n - 2 \in at /\ Loads(n - 2) /\ (\A m \in at : m <= n - 2)
    BY <1>3 DEF ReadBy
  <2>. QED BY <2>1 DEF Loads
<1>4. at \in SUBSET (1..n - 1)
  BY DEF ReadBy
<1>. QED BY ONLY <1>1, <1>2, <1>3, <1>4, argv' = argv, i' = n, LastWins(at)',
                 stage' = "done" => n = Len(argv) + 1 DEF ReadBy

\* An option that takes a value sets its field and no other.
LEMMA SetValueReads ==
  ConfigInv /\ ReadInv /\ SetValue => ReadInv'
<1>. SUFFICES ASSUME ConfigInv, ReadInv, SetValue, stage' \in {"args", "file", "done"}
              PROVE  \E at, n : ReadBy(at, n)'
  BY DEF ReadInv
<1>1. PICK k \in Keys :
        /\ Option(argv[i], ValueOptions, k)
        /\ IF Throws(k, argv[i + 1])
           THEN stage' = "thrown" /\ UNCHANGED <<config, i>>
           ELSE /\ config' = [config EXCEPT ![k] = Parsed(k, argv[i + 1])]
                /\ i' = AfterValue
                /\ UNCHANGED stage
  BY DEF SetValue
<1>2. /\ config' = [config EXCEPT ![k] = Parsed(k, argv[i + 1])]
      /\ i' = i + 2 /\ stage' = "args" /\ stage = "args"
      /\ argv' = argv /\ i + 1 <= Len(argv)
  BY <1>1 DEF SetValue, AtArg, HasValue, AfterValue
<1>3. PICK at, p : ReadBy(at, p)
  BY <1>2 DEF ReadInv
<1>4. p = i /\ p \in Nat /\ Len(argv) \in Nat /\ p > 0 /\ at \in SUBSET (1..p - 1)
  BY <1>3, LenProperties DEF ReadBy, ConfigInv, PlacesInv
<1>5. Sets(p, k)
  BY <1>1, <1>2, <1>4 DEF Sets
<1>6. PICK s : s = at \cup {p}
  OBVIOUS
<1>7. PICK q : q = p + 2
  OBVIOUS
<1>8. ASSUME NEW m \in Keys, Sets(p, m) PROVE config'[m] = Parsed(m, argv[p + 1])
  <2>1. m = k
    BY <1>5, <1>8, OneOption
  <2>2. config'[k] = Parsed(k, argv[p + 1])
    BY <1>2, <1>4 DEF ConfigInv, IsConfig
  <2>. QED BY <2>1, <2>2
<1>9. ASSUME NEW m \in Keys, ~Sets(p, m) PROVE config'[m] = config[m]
  <2>1. m # k
    BY <1>5, <1>9
  <2>. QED BY <1>2, <2>1 DEF ConfigInv, IsConfig
<1>10. LastWins(s)'
  <2>1. LastWins(at)
    BY <1>3 DEF ReadBy
  <2>. QED BY <1>2, <1>4, <1>6, <1>8, <1>9, <2>1, WinsAfterOption
<1>11. ~IsFlag(p)
  BY <1>5, OneOption
<1>12. ReadBy(s, q)'
  <2>1. p <= Len(argv)
    BY <1>2, <1>4
  <2>2. i' = q
    BY <1>2, <1>4, <1>7
  <2>. QED BY <1>2, <1>3, <1>6, <1>7, <1>10, <1>11, <2>1, <2>2, OptionRead
<1>. QED BY <1>12

\* An option without a value sets a flag, which no option with a value sets.
LEMMA SetFlagReads ==
  ConfigInv /\ ReadInv /\ SetFlag => ReadInv'
<1>. SUFFICES ASSUME ConfigInv, ReadInv, SetFlag
              PROVE  \E at, n : ReadBy(at, n)'
  BY DEF ReadInv
<1>1. PICK k \in FlagKeys :
        Option(argv[i], FlagOptions, k) /\ config' = [config EXCEPT ![k] = FALSE]
  BY DEF SetFlag
<1>2. i' = i + 1 /\ stage' = "args" /\ stage = "args" /\ argv' = argv /\ i <= Len(argv)
  BY DEF SetFlag, AtArg
<1>3. PICK at, p : ReadBy(at, p)
  BY <1>2 DEF ReadInv
<1>4. p = i /\ p \in Nat /\ at \in SUBSET (1..p - 1)
  BY <1>3 DEF ReadBy, ConfigInv, PlacesInv
<1>5. k \in Keys
  BY DEF Keys
<1>6. PICK s : s = at \cup {p}
  OBVIOUS
<1>7. PICK q : q = p + 1
  OBVIOUS
<1>8. IsFlag(p)
  BY <1>1, <1>4, <1>5 DEF IsFlag, IsOption
<1>9. ASSUME NEW m \in Keys, NEW n \in at, Sets(n, m) PROVE config'[m] = config[m]
  <2>1. m # k
    BY <1>9, OneOption
  <2>. QED BY <1>1, <2>1 DEF ConfigInv, IsConfig
<1>10. LastWins(s)'
  <2>1. LastWins(at)
    BY <1>3 DEF ReadBy
  <2>2. \A m \in Keys : ~Sets(p, m)
    BY <1>8, OneOption
  <2>. QED BY <1>2, <1>4, <1>6, <1>9, <2>1, <2>2, WinsAfterOption
<1>11. ReadBy(s, q)'
  <2>1. p <= Len(argv) /\ i' = q
    BY <1>2, <1>4, <1>7
  <2>. QED BY <1>2, <1>3, <1>6, <1>7, <1>8, <1>10, <2>1, OptionRead
<1>. QED BY <1>11

\* A file is the last option from when it is opened, and nothing earlier
\* counts any more.
LEMMA OpenFileReads ==
  ConfigInv /\ ReadInv /\ OpenFile => ReadInv'
<1>. SUFFICES ASSUME ConfigInv, ReadInv, OpenFile
              PROVE  \E at, n : ReadBy(at, n)'
  BY DEF ReadInv
<1>1. /\ argv[i] \in {Word("--config"), Word("-c")}
      /\ i' = i + 2 /\ stage' = "file" /\ stage = "args" /\ argv' = argv
      /\ i + 1 <= Len(argv) /\ config' = config
  BY DEF OpenFile, AtArg, HasValue, AfterValue
<1>2. PICK at, p : ReadBy(at, p)
  BY <1>1 DEF ReadInv
<1>3. p = i /\ p \in Nat /\ p > 0 /\ Len(argv) \in Nat /\ at \in SUBSET (1..p - 1)
  BY <1>2, LenProperties DEF ReadBy, ConfigInv, PlacesInv
<1>4. PICK s : s = at \cup {p}
  OBVIOUS
<1>5. PICK q : q = p + 2
  OBVIOUS
<1>6. Loads(p)
  BY <1>1, <1>3 DEF Loads
<1>7. ~IsFlag(p) /\ \A m \in Keys : ~Sets(p, m)
  BY <1>6, OneOption
<1>8. LastWins(s)'
  <2>1. LastWins(at)
    BY <1>2 DEF ReadBy
  <2>. QED BY <1>1, <1>3, <1>4, <1>6, <1>7, <2>1, WinsAfterOption
<1>9. ReadBy(s, q)'
  <2>1. p <= Len(argv) /\ i' = q
    BY <1>1, <1>3, <1>5
  <2>. QED BY <1>1, <1>2, <1>4, <1>5, <1>6, <1>7, <1>8, <2>1, OptionRead
<1>. QED BY <1>9

\* An option without its value comes last and does nothing.
LEMMA DanglingReads ==
  ConfigInv /\ ReadInv /\ Dangling => ReadInv'
<1>. SUFFICES ASSUME ConfigInv, ReadInv, Dangling
              PROVE  \E at, n : ReadBy(at, n)'
  BY DEF ReadInv
<1>1. /\ i' = i + 1 /\ stage' = "args" /\ stage = "args" /\ argv' = argv
      /\ i <= Len(argv) /\ ~(i + 1 <= Len(argv)) /\ config' = config
  BY DEF Dangling, AtArg, HasValue
<1>2. PICK at, p : ReadBy(at, p)
  BY <1>1 DEF ReadInv
<1>3. p = i /\ p \in Nat /\ p > 0 /\ Len(argv) \in Nat /\ at \in SUBSET (1..p - 1)
  BY <1>2, LenProperties DEF ReadBy, ConfigInv, PlacesInv
<1>4. PICK s : s = at \cup {p}
  OBVIOUS
<1>5. PICK q : q = p + 1
  OBVIOUS
<1>6. q = Len(argv) + 1 /\ p <= Len(argv) /\ i' = q
  BY <1>1, <1>3, <1>5
<1>7. \A m \in Keys : ~Sets(p, m)
  <2>1. p \notin 1..Len(argv) - 1
    BY <1>3, <1>5, <1>6
  <2>. QED BY <2>1 DEF Sets
<1>8. LastWins(s)'
  <2>1. LastWins(at)
    BY <1>2 DEF ReadBy
  <2>. QED BY <1>1, <1>3, <1>4, <1>7, <2>1, WinsAfterOption
<1>9. ReadBy(s, q)'
  BY <1>1, <1>2, <1>4, <1>5, <1>6, <1>8, OptionRead
<1>. QED BY <1>9

\* The configuration is replaced by that of a file, which is the last option.
LEMMA FileReads ==
  ConfigInv /\ ReadInv /\ (FileDone \/ FileMissing) => ReadInv'
<1>. SUFFICES ASSUME ConfigInv, ReadInv, FileDone \/ FileMissing
              PROVE  \E at, n : ReadBy(at, n)'
  BY DEF ReadInv
<1>1. stage = "file" /\ stage' = "args" /\ i' = i /\ argv' = argv
  BY DEF FileDone, FileMissing
<1>2. PICK at, n : ReadBy(at, n)
  BY <1>1 DEF ReadInv
<1>3. /\ n = i /\ n \in Nat /\ at \in SUBSET (1..n - 1)
      /\ n - 2 \in at /\ Loads(n - 2) /\ (\A m \in at : m <= n - 2)
  BY <1>1, <1>2 DEF ReadBy, ConfigInv, PlacesInv
<1>4. PICK p : p = n - 2
  OBVIOUS
<1>5. p \in at /\ Loads(p) /\ (\A m \in at : m \in Nat /\ m <= p)
  BY <1>3, <1>4
<1>6. p \in Nat
  BY <1>5
<1>7. LastWins(at)'
  BY <1>1, <1>5, <1>6, WinsUnderFile
<1>8. ReadBy(at, n)'
  <2>1. i' = n /\ stage' # "file" /\ stage' # "done"
    BY <1>1, <1>3
  <2>. QED BY <1>1, <1>2, <1>7, <2>1, NothingRead
<1>. QED BY <1>8

\* The other actions read nothing and leave the configuration.
LEMMA OthersRead ==
  ConfigInv /\ ReadInv /\ (\/ ExitEarly \/ ArgsDone \/ BlankLine
                           \/ CommentLine \/ SettingLine \/ UNCHANGED configVars) => ReadInv'
<1>. SUFFICES ASSUME ConfigInv, ReadInv, stage' \in {"args", "file", "done"},
                     \/ ExitEarly \/ ArgsDone \/ BlankLine
                     \/ CommentLine \/ SettingLine \/ UNCHANGED configVars
              PROVE  \E at, n : ReadBy(at, n)'
  BY DEF ReadInv
<1>1. /\ argv' = argv /\ i' = i /\ config' = config
      /\ stage' = stage \/ (stage = "args" /\ stage' = "done" /\ i > Len(argv))
  BY DEF ExitEarly, ArgsDone, BlankLine, CommentLine, SettingLine, configVars
<1>2. PICK at, n : ReadBy(at, n)
  BY <1>1 DEF ReadInv
<1>3. n = i /\ i \in 1..Len(argv) + 1 /\ Len(argv) \in Nat
  BY <1>2, LenProperties DEF ReadBy, ConfigInv, PlacesInv
<1>4. stage' = "done" => n = Len(argv) + 1
  <2>1. CASE stage' = stage
    BY <1>2, <2>1 DEF ReadBy
  <2>2. CASE i > Len(argv)
    BY <1>3, <2>2
  <2>. QED BY <1>1, <2>1, <2>2
<1>5. LastWins(at)'
  BY <1>1, <1>2 DEF ReadBy, LastWins, Sets, Loads, Option
<1>6. ReadBy(at, n)'
  <2>1. stage' = "file" => stage = "file"
    BY <1>1
  <2>. QED BY <1>1, <1>2, <1>3, <1>4, <1>5, <2>1, NothingRead
<1>. QED BY <1>6

\* ReadInv is inductive.
LEMMA ReadAlways ==
  ConfigSpec => []ReadInv
<1>1. ConfigInv /\ ReadInv /\ [ConfigNext]_configVars => ReadInv'
  BY SetValueReads, SetFlagReads, OpenFileReads, DanglingReads, FileReads, OthersRead DEF ConfigNext
<1>. QED BY ConfigAlways, ReadInit, <1>1, PTL DEF ConfigSpec

-----------------------------------------------------------------------------
(* What follows.                                                           *)

\* Whatever the command line and the file, a rate is a percentage and a port
\* has 16 bits: parse_percentage, parse_milliseconds and stoi let nothing else
\* through, and what load_from_file returns may replace the configuration.
THEOREM ConfigStaysInRange ==
  ConfigSpec => []ConfigTypeOK
<1>1. ConfigInv => ConfigTypeOK
  BY DEF ConfigInv, PlacesInv, ConfigTypeOK
<1>. QED BY ConfigAlways, <1>1, PTL

\* load_from_file takes no port 0 and no negative time, whatever the lines.
THEOREM FilesAreUsable ==
  ConfigSpec => []FileConfigUsable
<1>1. ConfigInv => FileConfigUsable
  BY DEF ConfigInv, Usable, FileConfigUsable
<1>. QED BY ConfigAlways, <1>1, PTL

\* The options of the command line are read from left to right, a value is
\* never read as an option, and the last option for a field, with no file
\* after it, decides what the field is, through its conversion.
THEOREM LastOptionWins ==
  ConfigSpec => []LaterArgumentsWin
<1>1. ConfigInv /\ ReadInv => LaterArgumentsWin
  <2>. SUFFICES ASSUME ConfigInv, ReadInv, stage = "done"
                PROVE  \E at \in SUBSET DOMAIN argv :
                         IsReading(at, Len(argv)) /\ LastWins(at)
    BY DEF LaterArgumentsWin
  <2>1. PICK at, n : ReadBy(at, n)
    BY DEF ReadInv
  <2>2. n - 1 = Len(argv) /\ DOMAIN argv = 1..Len(argv)
    BY <2>1, LenProperties DEF ReadBy, ConfigInv, PlacesInv
  <2>3. at \in SUBSET (1..n - 1) /\ IsReading(at, n - 1) /\ LastWins(at)
    BY <2>1 DEF ReadBy
  <2>. QED BY <2>2, <2>3
<1>. QED BY ConfigAlways, ReadAlways, <1>1, PTL

=============================================================================
