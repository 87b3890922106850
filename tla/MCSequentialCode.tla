------------------------- MODULE MCSequentialCode ---------------------------
(***************************************************************************)
(* The small instances of the sequential code for TLC.                     *)
(***************************************************************************)
EXTENDS SequentialCode, MCLibraries, MCVadIterator, MCConfigManager
=============================================================================
