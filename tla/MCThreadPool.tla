--------------------------- MODULE MCThreadPool ---------------------------
(***************************************************************************)
(* Small instances of ThreadPool for TLC.                                  *)
(***************************************************************************)
EXTENDS ThreadPool

CONSTANTS c1, c2, t1, t2, t3

MCClients == {c1, c2}
MCOneClient == {c1}
MCTasks == {t1, t2, t3}
MCTwoTasks == {t1, t2}
=============================================================================
