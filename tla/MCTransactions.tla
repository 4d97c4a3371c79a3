---------------------------- MODULE MCTransactions ----------------------------
(***************************************************************************)
(* Model checking of Transactions: two objects, two transactions of up to  *)
(* three changes, each with or without a job, and one transaction of       *)
(* another process.  Three changes of one object are the shortest run      *)
(* through every case of the publisher.                                    *)
(***************************************************************************)
EXTENDS Transactions, TLC

Symmetry == Permutations(Object)
=============================================================================
