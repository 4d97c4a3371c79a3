---------------------------- MODULE JobSubmission ----------------------------
(***************************************************************************)
(* What addJob and the hook after the commit promise the job worker: a job *)
(* is handed to the broker at most once, and when it is, its record is in  *)
(* the database already or will never be.  Transactions implements this;   *)
(* Jobs assumes no more of the processes that submit.                      *)
(***************************************************************************)
EXTENDS Naturals, Sequences

CONSTANT Job   \* job ids

VARIABLES
  status,    \* status of the job records, "NONE" where there is none
  queue,     \* jobs in the broker, to be delivered
  recorded,  \* jobs whose record was committed
  submitted  \* jobs handed to the broker

submissionVars == <<status, queue, recorded, submitted>>

Init ==
  /\ status = [j \in Job |-> "NONE"] /\ queue = <<>>
  /\ recorded = {} /\ submitted = {}

(* The transaction that added the job commits.                             *)
Record(j) ==
  /\ j \notin recorded \cup submitted
  /\ status' = [status EXCEPT ![j] = "PENDING"]
  /\ recorded' = recorded \cup {j}
  /\ UNCHANGED <<queue, submitted>>

(* The hook runs, after a commit or after a failed one.                    *)
Submit(j) ==
  /\ j \notin submitted
  /\ queue' = Append(queue, j)
  /\ submitted' = submitted \cup {j}
  /\ UNCHANGED <<status, recorded>>

Next == \E j \in Job : Record(j) \/ Submit(j)

Spec == Init /\ [][Next]_submissionVars
=============================================================================
