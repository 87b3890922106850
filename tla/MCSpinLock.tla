----------------------------- MODULE MCSpinLock -----------------------------
(***************************************************************************)
(* A small instance of SpinLock for TLC.                                   *)
(***************************************************************************)
EXTENDS SpinLock

CONSTANTS n1, n2, n3
MCThreads == {n1, n2, n3}
=============================================================================
