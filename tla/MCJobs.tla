-------------------------------- MODULE MCJobs --------------------------------
(***************************************************************************)
(* Model checking of Jobs: two jobs, which may be submitted with a record  *)
(* or without, one worker whose processes run one job or two before they   *)
(* are replaced, one restart of the daemon, and two aborts or deletions by *)
(* the user at any moment.  Two jobs are enough for what one leaves behind *)
(* to reach the next.                                                      *)
(***************************************************************************)
EXTENDS Jobs
=============================================================================
