--------------------------- MODULE MCTaskExecutor ---------------------------
(***************************************************************************)
(* A small instance of TaskExecutor: three tasks over limits of one, two   *)
(* and none, so that the limit is reached, lowered below the number of     *)
(* running tasks, raised and lifted.                                       *)
(***************************************************************************)
EXTENDS TaskExecutor

CONSTANTS t1, t2, t3, none

MCTask == {t1, t2, t3}
MCLimits == {1, 2, none}
=============================================================================
