-------------------------- MODULE MCAsioExamples --------------------------
(***************************************************************************)
(* Small instances of AsioExamples for TLC.                                *)
(***************************************************************************)
EXTENDS AsioExamples

CONSTANTS a, b, u1, u2, v1, v2, r1, r2, t1, t2, t3, t4

MCAsync == {a}
MCBlocking == {b}
MCUdpClients == {u1, u2}
MCViewers == {v1, v2}
MCReceivers == {r1, r2}
MCWorkers == {t1, t2, t3, t4}

\* Nothing, a part of a buffer, what just fits and what need not.
MCLengths == {0, 2, 7}
=============================================================================
