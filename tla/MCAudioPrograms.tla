-------------------------- MODULE MCAudioPrograms ---------------------------
(***************************************************************************)
(* Small instances of AudioPrograms for TLC.                               *)
(***************************************************************************)
EXTENDS AudioPrograms

MCChannels == {1, 2}

\* One is a multiple of PaexFrames, one is not.
MCTotalFrames == {4, 5}
=============================================================================
