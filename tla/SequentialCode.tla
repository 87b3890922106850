-------------------------- MODULE SequentialCode ---------------------------
(***************************************************************************)
(* What the repository has of sequential code, used one at a time: the     *)
(* libraries, the detector of speech, and the configuration of the network *)
(* simulator.                                                              *)
(***************************************************************************)
EXTENDS Libraries, VadIterator, ConfigManager

VARIABLE used

NotUsed == <<<<>>, <<>>>>

ASSUME SequentialAssumption == NotUsed \in Inputs

sequentialVars == <<libraryVars, vadVars, configVars, used>>

SequentialInit ==
  /\ LibraryInit /\ VadInit /\ ConfigInit
  /\ used \in {"libraries", "detector", "config"}
  /\ used # "libraries" => library = "functions"
  /\ used # "config" => <<argv, file>> = NotUsed

Library == LibraryNext /\ UNCHANGED <<vadVars, configVars>>
Detector == VadNext /\ UNCHANGED <<libraryVars, configVars>>
Configuration == ConfigNext /\ UNCHANGED <<libraryVars, vadVars>>

SequentialNext ==
  /\ UNCHANGED used
  /\ \/ used = "libraries" /\ Library
     \/ used = "detector" /\ Detector
     \/ used = "config" /\ Configuration

SequentialSpec == SequentialInit /\ [][SequentialNext]_sequentialVars
=============================================================================
