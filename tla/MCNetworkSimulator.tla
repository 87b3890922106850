------------------------ MODULE MCNetworkSimulator ------------------------
(***************************************************************************)
(* Small instances of NetworkSimulator for TLC.                            *)
(***************************************************************************)
EXTENDS NetworkSimulator

MCNever == {FALSE}
MCAlways == {TRUE}
MCSometimes == {TRUE, FALSE}
MCDelays == {0, 1}
=============================================================================
