--------------------------- MODULE MCVadIterator ---------------------------
(***************************************************************************)
(* Small instances of VadIterator for TLC.                                 *)
(***************************************************************************)
EXTENDS VadIterator

\* Nothing, less than a window, whole windows, windows and a remainder.
MCLengths == {0, 1, 8, 21}
=============================================================================
