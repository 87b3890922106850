--------------------------- MODULE ConfigManager ---------------------------
(***************************************************************************)
(* class ConfigManager, src/net/example/NetworkSimulator: the command line *)
(* of the simulator and the configuration file it may name.                *)
(*                                                                         *)
(* A piece of text is a number with what follows it, a word, a word that   *)
(* has lost its last character, or nothing:                                *)
(*   <<"num", n, suffix>>   <<"word", w>>   <<"cut", w>>   <<"empty">>     *)
(* Rates are percentages. A line of the file is blank, a comment, or a     *)
(* setting key=text; a setting without '=' has key "none".                 *)
(***************************************************************************)
EXTENDS Integers, Sequences

CONSTANTS
  Inputs,       \* pairs: a command line, the lines of the file it names
  StoiLimit,    \* one more than the greatest int
  Characters    \* words of one character

RateKeys == {"packet_loss_rate", "delay_rate", "jitter_rate", "reorder_rate"}
TimeKeys == {"base_delay", "max_jitter"}
HostKeys == {"listen_host", "target_host"}
PortKeys == {"listen_port", "target_port"}
FlagKeys == {"enable_logging", "enable_statistics"}
Keys == RateKeys \cup TimeKeys \cup HostKeys \cup PortKeys \cup FlagKeys

\* struct NetworkConfig.
Defaults ==
  [listen_host |-> "0.0.0.0", listen_port |-> 8080,
   target_host |-> "127.0.0.1", target_port |-> 8081,
   packet_loss_rate |-> 0, delay_rate |-> 0, jitter_rate |-> 0, reorder_rate |-> 0,
   base_delay |-> 0, max_jitter |-> 0,
   enable_logging |-> TRUE, enable_statistics |-> TRUE]

Word(w) == <<"word", w>>
Num(n, suffix) == <<"num", n, suffix>>
IsNum(t) == t[1] = "num"

-----------------------------------------------------------------------------
(* Conversions.                                                            *)

\* What std::stoi reads: a number, if it is an int.
IsInt(t) == IsNum(t) /\ t[2] \in -StoiLimit..StoiLimit - 1

\* A number without its last digit; of one digit the sign is left, if any.
WithoutDigit(n) ==
  IF n >= 10 THEN Num(n \div 10, "")
  ELSE IF n >= 0 THEN <<"empty">>
  ELSE IF n > -10 THEN Word("-") ELSE Num(-((-n) \div 10), "")

\* line.erase(line.find_last_not_of(" \t")) removes the last character that
\* is not blank, along with the blanks after it.
Chop(t) ==
  IF ~IsNum(t) THEN IF t[2] \in Characters THEN <<"empty">> ELSE <<"cut", t[2]>>
  ELSE IF t[3] = "" THEN WithoutDigit(t[2])
  ELSE Num(t[2], IF t[3] = "ms" THEN "m" ELSE "")

\* std::stoi ignores what follows the digits; without them, or with too many, it
\* throws.
Throws(k, t) == k \in PortKeys /\ ~IsInt(t)

\* Not the code: no std::max and std::min.
unclamped_percentage(t) == IF IsNum(t) THEN t[2] ELSE 0

parse_percentage(t) ==
  IF ~IsNum(t) THEN 0
  ELSE IF t[2] < 0 THEN 0 ELSE IF t[2] > 100 THEN 100 ELSE t[2]

parse_milliseconds(t) == IF IsInt(t) THEN t[2] ELSE 0

\* A port is a uint16_t.
Ports == {n \in Nat : n < 65536}
AsPort(t) == t[2] % 65536
AsFlag(t) == t \in {Word("true"), Num(1, "")}

\* What field k becomes when it is assigned text t.
Parsed(k, t) ==
  IF k \in RateKeys THEN parse_percentage(t)
  ELSE IF k \in TimeKeys THEN parse_milliseconds(t)
  ELSE IF k \in PortKeys THEN AsPort(t)
  ELSE IF k \in HostKeys THEN (IF t[1] = "word" THEN t[2] ELSE "other")
  ELSE AsFlag(t)

\* parse_config_line; "key=" has one part, not two.
parse_config_line(key, t) ==
  IF key \in Keys /\ t # <<"empty">>
  THEN [Defaults EXCEPT ![key] = Parsed(key, t)]
  ELSE Defaults

\* Not the code: fields taken without a look at them.
TakenAlways(k, v) == k \notin FlagKeys

\* The fields load_from_file takes from the configuration of one line.
Taken(k, v) ==
  \/ k \in RateKeys \cup TimeKeys /\ v >= 0
  \/ k \in PortKeys /\ v > 0
  \/ k \in HostKeys /\ v # ""

Merge(config, lineConfig) ==
  [k \in Keys |-> IF Taken(k, lineConfig[k]) THEN lineConfig[k] ELSE config[k]]

Blank == [kind |-> "blank"]
Comment == [kind |-> "comment"]
Setting(k, t) == [kind |-> "setting", key |-> k, text |-> t]

\* What an argument, or the value of a line, may be.
ArgumentTexts == ({"num"} \X Int \X {"", "%", "ms"}) \cup ({"word"} \X STRING)
Lines == {Blank, Comment} \cup [kind : {"setting"}, key : STRING, text : ArgumentTexts]

ASSUME InputsAssumption ==
  /\ \A input \in Inputs : input[1] \in Seq(ArgumentTexts) /\ input[2] \in Seq(Lines)
  /\ StoiLimit \in Nat /\ Characters \subseteq STRING

\* save_to_file.
Saved(config) ==
  LET rate(k) == Setting(k, Num(config[k], "%"))
      time(k) == Setting(k, Num(config[k], "ms"))
      host(k) == Setting(k, Word(config[k]))
      port(k) == Setting(k, Num(config[k], ""))
      flag(k) == Setting(k, Word(IF config[k] THEN "true" ELSE "false"))
  IN  <<Comment, Comment, Blank, Comment,
        host("listen_host"), port("listen_port"),
        host("target_host"), port("target_port"), Blank, Comment,
        rate("packet_loss_rate"), rate("delay_rate"), rate("jitter_rate"),
        rate("reorder_rate"), time("base_delay"), time("max_jitter"),
        Blank, Comment, flag("enable_logging"), flag("enable_statistics")>>

\* config_example.txt has the lines save_to_file writes, with these values.
ExampleConfig ==
  [Defaults EXCEPT !["packet_loss_rate"] = 5, !["delay_rate"] = 10,
                   !["jitter_rate"] = 15, !["reorder_rate"] = 5,
                   !["base_delay"] = 50, !["max_jitter"] = 100]

-----------------------------------------------------------------------------

VARIABLES
  argv, file,    \* the input
  config,        \* the local variable of load_from_args
  fileConfig,    \* the local variable of load_from_file
  i,             \* the next argument
  j,             \* the next line
  stage          \* args | file | done | exit | thrown | fileThrown

configVars == <<argv, file, config, fileConfig, i, j, stage>>

ConfigInit ==
  /\ \E input \in Inputs : argv = input[1] /\ file = input[2]
  /\ config = Defaults
  /\ fileConfig = Defaults
  /\ i = 1
  /\ j = 1
  /\ stage = "args"

\* The options and the fields they set.
ValueOptions ==
  {<<"--listen-host", "listen_host">>, <<"--listen-port", "listen_port">>,
   <<"--target-host", "target_host">>, <<"--target-port", "target_port">>,
   <<"--packet-loss", "packet_loss_rate">>, <<"--delay-rate", "delay_rate">>,
   <<"--jitter-rate", "jitter_rate">>, <<"--reorder-rate", "reorder_rate">>,
   <<"--base-delay", "base_delay">>, <<"--max-jitter", "max_jitter">>}

FlagOptions ==
  {<<"--no-log", "enable_logging">>, <<"--no-stats", "enable_statistics">>}

Option(t, options, k) == t[1] = "word" /\ <<t[2], k>> \in options
IsOption(t, options) == \E k \in Keys : Option(t, options, k)

AtArg == stage = "args" /\ i <= Len(argv)

HasValue == i + 1 <= Len(argv)

\* argv[++i] and the ++i of the loop; not the code: argv[i + 1].
ValueReadTwice == i + 1
AfterValue == i + 2

\* The argument after an option is its value, whatever it looks like.
SetValue ==
  /\ AtArg
  /\ HasValue
  /\ \E k \in Keys :
       /\ Option(argv[i], ValueOptions, k)
       /\ IF Throws(k, argv[i + 1])
          THEN stage' = "thrown" /\ UNCHANGED <<config, i>>
          ELSE /\ config' = [config EXCEPT ![k] = Parsed(k, argv[i + 1])]
               /\ i' = AfterValue
               /\ UNCHANGED stage
  /\ UNCHANGED <<argv, file, fileConfig, j>>

SetFlag ==
  /\ AtArg
  /\ \E k \in FlagKeys :
       /\ Option(argv[i], FlagOptions, k)
       /\ config' = [config EXCEPT ![k] = FALSE]
  /\ i' = i + 1
  /\ UNCHANGED <<argv, file, fileConfig, j, stage>>

OpenFile ==
  /\ AtArg
  /\ argv[i] \in {Word("--config"), Word("-c")}
  /\ HasValue
  /\ fileConfig' = Defaults
  /\ j' = 1
  /\ i' = AfterValue
  /\ stage' = "file"
  /\ UNCHANGED <<argv, file, config>>

\* An option that needs a value and comes last is ignored.
Dangling ==
  /\ AtArg
  /\ \/ IsOption(argv[i], ValueOptions)
     \/ argv[i] \in {Word("--config"), Word("-c")}
  /\ ~HasValue
  /\ i' = i + 1
  /\ UNCHANGED <<argv, file, config, fileConfig, j, stage>>

\* --help and unknown arguments end the program.
ExitEarly ==
  /\ AtArg
  /\ ~IsOption(argv[i], ValueOptions)
  /\ ~IsOption(argv[i], FlagOptions)
  /\ argv[i] \notin {Word("--config"), Word("-c")}
  /\ stage' = "exit"
  /\ UNCHANGED <<argv, file, config, fileConfig, i, j>>

ArgsDone ==
  /\ stage = "args"
  /\ i > Len(argv)
  /\ stage' = "done"
  /\ UNCHANGED <<argv, file, config, fileConfig, i, j>>

AtLine(kind) == stage = "file" /\ j <= Len(file) /\ file[j].kind = kind

\* find_last_not_of returns npos, and erase(npos) throws out_of_range.
BlankLine ==
  /\ AtLine("blank")
  /\ stage' = "fileThrown"
  /\ UNCHANGED <<argv, file, config, fileConfig, i, j>>

CommentLine ==
  /\ AtLine("comment")
  /\ j' = j + 1
  /\ UNCHANGED <<argv, file, config, fileConfig, i, stage>>

\* A line of which nothing is left is skipped.
AfterLine(k, t) ==
  IF k = "none" /\ t = <<"empty">> THEN fileConfig
  ELSE Merge(fileConfig, parse_config_line(k, t))

SettingLine ==
  /\ AtLine("setting")
  /\ LET k == file[j].key
         t == Chop(file[j].text)
     IN  IF t # <<"empty">> /\ Throws(k, t)
         THEN stage' = "fileThrown" /\ UNCHANGED <<fileConfig, j>>
         ELSE /\ fileConfig' = AfterLine(k, t)
              /\ j' = j + 1
              /\ UNCHANGED stage
  /\ UNCHANGED <<argv, file, config, i>>

\* load_from_file returns; its result replaces everything set so far.
FileDone ==
  /\ stage = "file"
  /\ j > Len(file)
  /\ config' = fileConfig
  /\ stage' = "args"
  /\ UNCHANGED <<argv, file, fileConfig, i, j>>

\* A file that cannot be opened gives the defaults.
FileMissing ==
  /\ stage = "file"
  /\ j = 1
  /\ config' = Defaults
  /\ stage' = "args"
  /\ UNCHANGED <<argv, file, fileConfig, i, j>>

ConfigNext ==
  \/ SetValue \/ SetFlag \/ OpenFile \/ Dangling \/ ExitEarly \/ ArgsDone
  \/ BlankLine \/ CommentLine \/ SettingLine \/ FileDone \/ FileMissing

ConfigSpec == ConfigInit /\ [][ConfigNext]_configVars

-----------------------------------------------------------------------------
(* Properties.                                                             *)

InRange(c) ==
  /\ \A k \in RateKeys : c[k] \in 0..100
  /\ \A k \in PortKeys : c[k] \in Ports
  /\ \A k \in FlagKeys : c[k] \in BOOLEAN
  /\ \A k \in TimeKeys : c[k] \in Int

\* Rates stay percentages and ports 16 bits wide, whatever the input.
ConfigTypeOK ==
  /\ InRange(config) /\ InRange(fileConfig)
  /\ i \in 1..Len(argv) + 1
  /\ j \in 1..Len(file) + 1
  /\ stage \in {"args", "file", "done", "exit", "thrown", "fileThrown"}

\* Whatever lines a file has, loading it yields a usable configuration: no
\* port 0, no time in the past. (The command line promises neither.)
FileConfigUsable ==
  /\ \A k \in PortKeys : fileConfig[k] > 0
  /\ \A k \in TimeKeys : fileConfig[k] >= 0

IsFlag(n) == IsOption(argv[n], FlagOptions)

\* Position n is read as an option when those before it are the ones in at.
IsNext(at, n) ==
  \/ n = 1
  \/ n - 1 \in at /\ IsFlag(n - 1)
  \/ n - 2 \in at /\ ~IsFlag(n - 2)

\* Of the first n arguments, those at are read as options.
IsReading(at, n) == \A m \in 1..n : m \in at <=> IsNext(at, m)

Sets(n, k) == n \in 1..Len(argv) - 1 /\ Option(argv[n], ValueOptions, k)
Loads(n) == n \in 1..Len(argv) - 1 /\ argv[n] \in {Word("--config"), Word("-c")}

\* The last of the options at that set a field, and no file after it, wins.
LastWins(at) ==
  \A k \in Keys, n \in at :
    Sets(n, k) /\ ~(\E m \in at : m > n /\ (Sets(m, k) \/ Loads(m)))
      => config[k] = Parsed(k, argv[n + 1])

\* An option wins over every earlier option for the field and over every
\* earlier file; one before a --config is lost.
LaterArgumentsWin ==
  stage = "done" =>
    \E at \in SUBSET DOMAIN argv : IsReading(at, Len(argv)) /\ LastWins(at)

\* What a file asks for: of each field, what its last setting says.
Asked(k) ==
  LET at == {n \in DOMAIN file : file[n].kind = "setting" /\ file[n].key = k}
  IN  IF at = {} THEN Defaults[k]
      ELSE Parsed(k, file[CHOOSE n \in at : \A m \in at : m <= n].text)

\* README.md, lines 71-87: a file, such as config_example.txt, can be read,
\* and its settings take effect.
FileTakesEffect ==
  /\ stage = "fileThrown" =>
       \E n \in DOMAIN file :
         file[n].kind = "setting" /\ Throws(file[n].key, file[n].text)
  /\ stage = "file" /\ j > Len(file) => \A k \in Keys : fileConfig[k] = Asked(k)
=============================================================================
