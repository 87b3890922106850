-------------------------- MODULE MCConfigManager --------------------------
(***************************************************************************)
(* Command lines and files for TLC.                                        *)
(***************************************************************************)
EXTENDS ConfigManager, SequencesExt

MCTokens ==
  {Word("--packet-loss"), Word("--listen-port"), Word("--base-delay"),
   Word("--no-log"), Word("--config"), Word("--target-host"),
   Num(250, "%"), Num(70000, ""), Num(900000, ""), Num(-5, "")}

\* In place of 2^31: it lies between the ports and the numbers.
MCStoiLimit == 800000
MCCharacters == {"x", "h"}

\* Up to four arguments, and longer lines with a file in the middle.
MCArgvs == SeqOf(MCTokens, 4) \cup
  {<<Word("--packet-loss"), v, Word("--config"), Word("f"), o, w>> :
     v \in {Num(5, "%"), Num(250, "")},
     o \in {Word("--packet-loss"), Word("--listen-port"), Word("--help")},
     w \in {Num(7, ""), Num(65536, ""), Word("x")}}

MCLines ==
  {Comment, Blank,
   Setting("packet_loss_rate", Num(250, "%")), Setting("delay_rate", Num(5, "")),
   Setting("base_delay", Num(-50, "ms")), Setting("max_jitter", Num(-20, "")),
   Setting("base_delay", Num(900000, "ms")),
   Setting("listen_port", Num(655360, "")), Setting("target_port", Num(9, "")),
   Setting("target_port", Word("x")), Setting("none", Word("x")),
   Setting("none", Word("word")), Setting("target_host", Word("h")),
   Setting("target_host", Word("host"))}

MCShortArgvs ==
  {<<Word("-c"), Word("f")>>, <<Word("--no-log"), Word("--config"), Word("f")>>}

MCNoLines == {<<>>, <<Setting("packet_loss_rate", Num(5, "%"))>>}
MCFiles == SeqOf(MCLines, 3) \cup {Saved(Defaults)}

\* Many command lines with few files, and few with many.
MCInputs == (MCArgvs \X MCNoLines) \cup (MCShortArgvs \X MCFiles)

\* What the documentation shows: a rate and a delay, a port, a flag, and the
\* example file.
MCDocumentedFiles ==
  {<<Setting("packet_loss_rate", Num(5, "%")), Setting("base_delay", Num(50, "ms"))>>,
   <<Setting("listen_port", Num(9090, ""))>>,
   <<Setting("enable_logging", Word("false"))>>,
   Saved(ExampleConfig)}
MCDocumented == {<<Word("--config"), Word("f")>>} \X MCDocumentedFiles
=============================================================================
