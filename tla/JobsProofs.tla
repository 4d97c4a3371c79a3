----------------------------- MODULE JobsProofs -----------------------------
(***************************************************************************)
(* Proofs about Jobs for any jobs, retries, restarts and acts of the user. *)
(*                                                                         *)
(* Delivered shows that a job is in the broker or in hand once at most, so *)
(* that its commits can be counted against the deliveries.  IInv follows   *)
(* one job through the three threads: where each may be (Places), that a   *)
(* thread runs with a record (Recorded), that what it says is about its    *)
(* own job (Own, Single) and true (Earned), and that nothing is aborted    *)
(* without an act of the user (Honest).  A job may find what an earlier    *)
(* one left in its process only if somebody aborted or deleted a job and   *)
(* the process runs more than one: Undisturbed excludes that.              *)
(*                                                                         *)
(* JobFinishes rests on fairness and is left to model checking.            *)
(***************************************************************************)
EXTENDS Jobs, TLAPS

(* What a thread puts into the queue.                                      *)
Outcome == [job : Job, kind : {"result", "error", "aborted"}]

(* The variables have their types; a thread that works may still commit.   *)
Types ==
  /\ status \in [Job -> Unready \cup Ready \cup {"NONE"}]
  /\ queue \in Seq(Job) /\ job \in Job \cup {NoJob}
  /\ pc \in {"idle", "prerun", "mark", "wait", "run", "terminating",
             "returned", "onfailure", "ack"}
  /\ runner \in {"none", "login", "work", "check", "commit", "committed",
                 "reported", "ended"}
  /\ aborter \in {"none", "watching", "noted", "done"}
  /\ interrupt \in BOOLEAN /\ aborting \in BOOLEAN
  /\ tries \in 0..MaxRetries
  /\ runner \in {"work", "check", "commit"} => tries >= 1
  /\ results \in Seq(Outcome) /\ outcome \in Outcome \cup {NoResult}
  /\ commits \in [Job -> Nat] /\ touched \subseteq Job
  /\ recorded \subseteq Job /\ submitted \subseteq Job
  /\ acts \in 0..MaxActs /\ restarts \in 0..MaxRestarts
  /\ max_jobs \in JobsPerWorker /\ served \in 0..(max_jobs - 1)
  /\ mute \subseteq Job

(* The threads are there while the main thread waits for them, and a       *)
(* process without a job has no outcome of an earlier one.                 *)
Places ==
  /\ pc = "idle" <=> job = NoJob
  /\ pc \in {"run", "terminating"} <=> runner # "none"
  /\ aborter # "none" => runner # "none"
  /\ interrupt => runner # "none"
  /\ pc = "idle" => outcome = NoResult /\ ~aborting

(* The fields of what is in the queue, or stands for nothing.              *)
LEMMA OutcomeFields ==
  /\ \A r \in Outcome : r.job \in Job
                      /\ r.kind \in {"result", "error", "aborted"}
  /\ NoResult.kind = "none" /\ NoResult.job = NoJob
BY DEF Outcome, NoResult

(* Types implies the type invariant.                                       *)
LEMMA TypesImply ==
  ASSUME Types
  PROVE  TypeOK
<1>1. \A i \in 1..Len(results) :
        results[i].job \in Job
        /\ results[i].kind \in {"result", "error", "aborted"}
  BY OutcomeFields DEF Types
<1>2. outcome.kind \in {"none", "result", "error", "aborted"}
  BY OutcomeFields DEF Types
<1> QED
  BY <1>1, <1>2 DEF Types, TypeOK

(* The variables at the start.                                             *)
LEMMA InitTypes == Init => Types /\ Places
<1> SUFFICES ASSUME Init PROVE Types /\ Places
  OBVIOUS
<1>1. /\ status \in [Job -> Unready \cup Ready \cup {"NONE"}]
      /\ queue \in Seq(Job) /\ results \in Seq(Outcome)
      /\ commits \in [Job -> Nat]
  BY DEF Init, Client!Init
<1>2. tries \in 0..MaxRetries /\ acts \in 0..MaxActs
      /\ restarts \in 0..MaxRestarts
  BY JobConstants DEF Init
<1>3. served \in 0..(max_jobs - 1)
  BY JobConstants DEF Init
<1> QED
  BY <1>1, <1>2, <1>3 DEF Init, Client!Init, Types, Places

(* The queue of a step that submits a job or delivers it again.            *)
LEMMA QueueFacts ==
  ASSUME NEW q \in Seq(Job), NEW j \in Job
  PROVE  /\ Append(q, j) \in Seq(Job) /\ Len(Append(q, j)) = Len(q) + 1
         /\ <<j>> \o q \in Seq(Job) /\ Len(<<j>> \o q) = Len(q) + 1
         /\ \A i \in 1..(Len(q) + 1) :
              /\ Append(q, j)[i] = IF i <= Len(q) THEN q[i] ELSE j
              /\ (<<j>> \o q)[i] = IF i = 1 THEN j ELSE q[i - 1]
OBVIOUS

(* The queue of a step that delivers a job.                                *)
LEMMA QueueHead ==
  ASSUME NEW q \in Seq(Job), q # <<>>
  PROVE  /\ Head(q) \in Job /\ Head(q) = q[1] /\ Len(q) >= 1
         /\ Tail(q) \in Seq(Job) /\ Len(Tail(q)) = Len(q) - 1
         /\ \A i \in 1..(Len(q) - 1) : Tail(q)[i] = q[i + 1]
OBVIOUS

(* The queue of results when a thread adds to it, ...                      *)
LEMMA ResultAppended ==
  ASSUME NEW kind \in {"result", "error", "aborted"},
         job \in Job, results \in Seq(Outcome)
  PROVE  LET r == Append(results, Result(kind)) IN
           /\ r \in Seq(Outcome) /\ r # <<>>
           /\ Len(r) = Len(results) + 1
           /\ r[Len(results) + 1] = Result(kind)
           /\ \A i \in 1..Len(results) : r[i] = results[i]
<1>1. Result(kind) \in Outcome
  BY DEF Result, Outcome
<1>2. ASSUME NEW S, NEW q \in Seq(S), NEW e \in S
      PROVE  /\ Append(q, e) \in Seq(S) /\ Append(q, e) # <<>>
             /\ Len(Append(q, e)) = Len(q) + 1
             /\ Append(q, e)[Len(q) + 1] = e
             /\ \A i \in 1..Len(q) : Append(q, e)[i] = q[i]
  OBVIOUS
<1> QED
  BY <1>1, <1>2

(* ... and when the main thread takes one.                                 *)
LEMMA ResultTaken ==
  ASSUME results \in Seq(Outcome), results # <<>>
  PROVE  /\ Head(results) \in Outcome /\ Head(results) = results[1]
         /\ 1 \in 1..Len(results)
         /\ Tail(results) \in Seq(Outcome)
         /\ \A i \in 1..Len(Tail(results)) :
              i + 1 \in 1..Len(results) /\ Tail(results)[i] = results[i + 1]
OBVIOUS

(* backend.update leaves records with a status.                            *)
LEMMA UpdateTypes ==
  ASSUME Types, job # NoJob, NEW new \in Unready \cup Ready, Update(new)
  PROVE  status' \in [Job -> Unready \cup Ready \cup {"NONE"}]
BY DEF Types, Update

(* The state of a process without a job.  One that runs a single job is    *)
(* a new one.                                                              *)
LEMMA Replaced ==
  ASSUME Types, NewProcess \/ Acknowledge
  PROVE  /\ Rest
         /\ pc' = "idle" /\ job' = NoJob /\ runner' = "none"
         /\ aborter' = "none" /\ interrupt' = FALSE /\ aborting' = FALSE
         /\ tries' \in 0..MaxRetries /\ outcome' = NoResult
         /\ results' = <<>> \/ (UNCHANGED results /\ Acknowledge)
         /\ NewProcess \/ max_jobs = 1 => results' = <<>>
         /\ results' \in Seq(Outcome)
         /\ max_jobs' = max_jobs /\ served' \in 0..(max_jobs' - 1)
<1>1. /\ max_jobs \in Nat \ {0} /\ served \in 0..(max_jobs - 1)
      /\ results \in Seq(Outcome) /\ MaxRetries \in Nat \ {0}
  BY JobConstants DEF Types
<1>2. Rest
  BY DEF NewProcess, Acknowledge
<1>3. CASE NewProcess
  BY <1>1, <1>3 DEF NewProcess, Rest
<1>4. CASE Acknowledge /\ served + 1 # max_jobs
  BY <1>1, <1>4 DEF Acknowledge, NewProcess, Rest
<1>5. Acknowledge /\ served + 1 = max_jobs => NewProcess
  BY DEF Acknowledge
<1> QED
  BY <1>3, <1>4, <1>5

(* The types and places after every step.                                  *)
LEMMA TypesStep ==
  ASSUME Types, Places, [Next]_vars
  PROVE  Types' /\ Places'
<1> USE JobConstants DEF Types, Places
<1> USE DEF clientVars, threadVars, userVars, processVars
<1>0. CASE Client!Next /\ UNCHANGED workerVars
  <2>1. PICK j \in Job : Client!Record(j) \/ Client!Submit(j)
    BY <1>0 DEF Client!Next
  <2>2. CASE Client!Record(j)
    BY <1>0, <2>2 DEF workerVars, Client!Record, Unready
  <2>3. CASE Client!Submit(j)
    BY <1>0, <2>3, QueueFacts DEF workerVars, Client!Submit
  <2> QED
    BY <2>1, <2>2, <2>3
<1>1. CASE Receive /\ UNCHANGED clientVars
  BY <1>1, QueueHead DEF Receive
<1>2. CASE PrerunCheck /\ UNCHANGED clientVars
  BY <1>2 DEF PrerunCheck
<1>3. CASE PrerunMark /\ UNCHANGED clientVars
  BY <1>3, UpdateTypes DEF PrerunMark, Unready, Ready
<1>4. CASE WaitForPendingJob /\ UNCHANGED clientVars
  BY <1>4 DEF WaitForPendingJob, StartThreads
<1>5. CASE Collect /\ UNCHANGED clientVars
  BY <1>5, ResultTaken DEF Collect
<1>6. CASE StoreOutcome /\ UNCHANGED clientVars
  BY <1>6, UpdateTypes DEF StoreOutcome, Unready, Ready
<1>7. CASE on_failure /\ UNCHANGED clientVars
  BY <1>7, UpdateTypes DEF on_failure, Unready, Ready
<1>8. CASE Acknowledge /\ UNCHANGED clientVars
  BY <1>8, Replaced DEF Acknowledge
<1>9. CASE Login /\ UNCHANGED clientVars
  BY <1>9 DEF Login
<1>10. CASE Work /\ UNCHANGED clientVars
  BY <1>10, ResultAppended DEF Work, EndRunner, EndMute, GoOn
<1>11. CASE CheckAborted /\ UNCHANGED clientVars
  BY <1>11, ResultAppended DEF CheckAborted, EndRunner, EndMute, GoOn
<1>12. CASE Commit /\ UNCHANGED clientVars
  BY <1>12 DEF Commit
<1>13. CASE CommitConflict /\ UNCHANGED clientVars
  <2>1. tries' = tries - 1 /\ tries >= 1 /\ tries' \in 0..MaxRetries
    BY <1>13 DEF CommitConflict
  <2>2. CASE tries > 1 /\ GoOn("work")
    BY <1>13, <2>1, <2>2 DEF CommitConflict, GoOn
  <2>3. CASE EndRunner("error")
    BY <1>13, <2>1, <2>3, ResultAppended DEF CommitConflict, EndRunner
  <2> QED
    BY <1>13, <2>2, <2>3 DEF CommitConflict
<1>14. CASE Report /\ UNCHANGED clientVars
  BY <1>14, ResultAppended DEF Report
<1>15. CASE Finally /\ UNCHANGED clientVars
  BY <1>15 DEF Finally
<1>16. CASE Interrupted /\ UNCHANGED clientVars
  BY <1>16, ResultAppended DEF Interrupted, EndRunner, EndMute, GoOn
<1>17. CASE NoteAborted /\ UNCHANGED clientVars
  BY <1>17 DEF NoteAborted
<1>18. CASE InterruptRunner /\ UNCHANGED clientVars
  BY <1>18 DEF InterruptRunner
<1>19. CASE WorkerLost /\ UNCHANGED clientVars
  BY <1>19, Replaced, UpdateTypes DEF WorkerLost, Unready, Ready
<1>20. CASE Terminate /\ UNCHANGED clientVars
  BY <1>20 DEF Terminate
<1>21. CASE Restart /\ UNCHANGED clientVars
  <2>1. job \in Job /\ queue' = <<job>> \o queue /\ NewProcess
    BY <1>21 DEF Restart
  <2>2. queue' \in Seq(Job)
    BY <2>1, QueueFacts
  <2>3. /\ pc' = "idle" /\ job' = NoJob /\ runner' = "none"
        /\ aborter' = "none" /\ interrupt' = FALSE /\ aborting' = FALSE
        /\ tries' \in 0..MaxRetries /\ outcome' = NoResult
        /\ results' \in Seq(Outcome)
        /\ max_jobs' = max_jobs /\ served' \in 0..(max_jobs' - 1)
    BY <2>1, Replaced
  <2>4. /\ restarts' \in 0..MaxRestarts
        /\ UNCHANGED <<status, mute, touched, acts, commits, recorded,
                       submitted>>
    BY <1>21 DEF Restart
  <2> QED
    BY <2>2, <2>3, <2>4
<1>22. CASE abort /\ UNCHANGED clientVars
  BY <1>22 DEF abort, Ready
<1>23. CASE deleteJob /\ UNCHANGED clientVars
  BY <1>23 DEF deleteJob
<1>24. CASE UNCHANGED vars
  BY <1>24 DEF vars, workerVars
<1> QED
  BY <1>0, <1>1, <1>2, <1>3, <1>4, <1>5, <1>6, <1>7, <1>8, <1>9, <1>10, <1>11,
     <1>12, <1>13, <1>14, <1>15, <1>16, <1>17, <1>18, <1>19, <1>20, <1>21,
     <1>22, <1>23, <1>24 DEF Next, WorkerNext, Main, Runner, Aborter

-----------------------------------------------------------------------------
(* A message of the job is in the broker.                                  *)
InQueue(j) == \E i \in 1..Len(queue) : queue[i] = j

(* A job is delivered, or about to be, only once at a time, and only if it *)
(* was submitted.                                                          *)
Tokens ==
  /\ \A i, k \in 1..Len(queue) : queue[i] = queue[k] => i = k
  /\ ~InQueue(job)
  /\ \A j \in Job : InQueue(j) => j \in submitted
  /\ job # NoJob => job \in submitted

(* The job in hand has not been committed since it was delivered.          *)
Early == \/ pc \in {"prerun", "mark", "wait"}
         \/ runner \in {"login", "work", "check", "commit"}

(* A job is committed once in each delivery, and delivered again by a      *)
(* restart only.                                                           *)
Bounded(j) ==
  /\ commits[j] <= 1 + restarts
  /\ j \notin submitted => commits[j] = 0
  /\ InQueue(j) \/ (job = j /\ Early) => commits[j] <= restarts

(* Steps by what they do to deliveries and commits.                        *)
Still == /\ UNCHANGED <<queue, job, submitted, commits, restarts>>
         /\ Early' => Early

(* The process waits, or there is a new one.                               *)
Replacing == /\ Rest
             /\ UNCHANGED <<queue, submitted, commits, restarts>>

(* Every step is one of these.                                             *)
LEMMA StepKinds ==
  ASSUME Types, Places, [Next]_vars
  PROVE  \/ \E j \in Job : Client!Submit(j) /\ UNCHANGED workerVars
         \/ Receive /\ UNCHANGED clientVars
         \/ Commit /\ UNCHANGED clientVars
         \/ Restart /\ UNCHANGED clientVars
         \/ Replacing \/ Still
<1> USE DEF clientVars, userVars, threadVars, processVars
<1>1. CASE Client!Next /\ UNCHANGED workerVars
  <2>1. PICK j \in Job : Client!Record(j) \/ Client!Submit(j)
    BY <1>1 DEF Client!Next
  <2>2. CASE Client!Record(j)
    BY <1>1, <2>2 DEF Client!Record, workerVars, Still, Early
  <2> QED
    BY <1>1, <2>1, <2>2
<1>2. CASE (Acknowledge \/ WorkerLost) /\ UNCHANGED clientVars
  BY <1>2 DEF Acknowledge, WorkerLost, Replacing, NewProcess
<1>3. CASE /\ \/ PrerunCheck \/ PrerunMark \/ WaitForPendingJob \/ Collect
              \/ StoreOutcome \/ on_failure \/ abort \/ deleteJob
              \/ Terminate \/ NoteAborted \/ InterruptRunner
           /\ UNCHANGED clientVars
  BY <1>3 DEF PrerunCheck, PrerunMark, WaitForPendingJob, StartThreads,
       Collect, StoreOutcome, on_failure, abort, deleteJob, Terminate,
       NoteAborted, InterruptRunner, Still, Early
<1>4. CASE /\ \/ Login \/ Work \/ CheckAborted \/ CommitConflict \/ Report
              \/ Finally \/ Interrupted
           /\ UNCHANGED clientVars
  BY <1>4 DEF Login, Work, CheckAborted, CommitConflict, Report, Finally,
       Interrupted, EndRunner, EndMute, GoOn, Still, Early
<1>5. CASE UNCHANGED vars
  BY <1>5 DEF vars, workerVars, Still, Early
<1> QED
  BY <1>1, <1>2, <1>3, <1>4, <1>5 DEF Next, WorkerNext, Main, Runner, Aborter

(* Deliveries are still single after every step.                           *)
LEMMA TokensStep ==
  ASSUME Types, Places, Tokens, [Next]_vars
  PROVE  Tokens'
<1> USE JobConstants DEF clientVars, userVars, threadVars, processVars
<1>0. queue \in Seq(Job) /\ job \in Job \cup {NoJob} /\ Len(queue) \in Nat
  BY DEF Types
<1>1. ASSUME NEW j \in Job, Client!Submit(j), UNCHANGED workerVars
      PROVE  Tokens'
  <2>1. /\ queue' = Append(queue, j) /\ submitted' = submitted \cup {j}
        /\ j \notin submitted /\ UNCHANGED job
    BY <1>1 DEF Client!Submit, workerVars
  <2>2. /\ Len(queue') = Len(queue) + 1
        /\ \A i \in 1..(Len(queue) + 1) :
             queue'[i] = IF i <= Len(queue) THEN queue[i] ELSE j
    BY <1>0, <2>1, QueueFacts
  <2>3. \A i \in 1..Len(queue) : queue[i] # j
    BY <2>1 DEF Tokens, InQueue
  <2>4. job # j
    BY <2>1 DEF Tokens
  <2> QED
    BY <1>0, <2>1, <2>2, <2>3, <2>4 DEF Tokens, InQueue
<1>2. CASE Receive /\ UNCHANGED clientVars
  <2>1. /\ queue # <<>> /\ job' = Head(queue) /\ queue' = Tail(queue)
        /\ UNCHANGED submitted
    BY <1>2 DEF Receive
  <2>2. /\ Len(queue') = Len(queue) - 1 /\ Len(queue) >= 1
        /\ \A i \in 1..(Len(queue) - 1) : queue'[i] = queue[i + 1]
        /\ job' = queue[1] /\ job' \in Job
    BY <1>0, <2>1, QueueHead
  <2> QED
    BY <1>0, <2>1, <2>2 DEF Tokens, InQueue
<1>3. CASE Restart /\ UNCHANGED clientVars
  <2>1. /\ queue' = <<job>> \o queue /\ job' = NoJob
        /\ UNCHANGED submitted /\ job \in Job
    BY <1>0, <1>3 DEF Restart, NewProcess, Rest, Places
  <2>2. /\ Len(queue') = Len(queue) + 1
        /\ \A i \in 1..(Len(queue) + 1) :
             queue'[i] = IF i = 1 THEN job ELSE queue[i - 1]
    BY <1>0, <2>1, QueueFacts
  <2>3. \A i \in 1..Len(queue) : queue[i] # job /\ queue[i] \in Job
    BY <1>0 DEF Tokens, InQueue
  <2> QED
    BY <1>0, <2>1, <2>2, <2>3 DEF Tokens, InQueue
<1>4. CASE Replacing
  <2>1. UNCHANGED <<queue, submitted>> /\ job' = NoJob
    BY <1>4 DEF Replacing, Rest
  <2>2. \A i \in 1..Len(queue) : queue[i] \in Job
    BY <1>0
  <2> QED
    BY <2>1, <2>2 DEF Tokens, InQueue
<1>5. CASE Still \/ (Commit /\ UNCHANGED clientVars)
  BY <1>5 DEF Still, Commit, Tokens, InQueue
<1> QED
  BY <1>1, <1>2, <1>3, <1>4, <1>5, StepKinds

(* A commit uses up the delivery; a restart grants another.                *)
LEMMA BoundedStep ==
  ASSUME Types, Places, Tokens, [Next]_vars, NEW j \in Job, Bounded(j)
  PROVE  Bounded(j)'
<1> USE JobConstants DEF clientVars, userVars, threadVars, processVars
<1>0. /\ queue \in Seq(Job) /\ job \in Job \cup {NoJob} /\ Len(queue) \in Nat
      /\ restarts \in Nat /\ commits \in [Job -> Nat] /\ commits[j] \in Nat
  BY DEF Types
<1>1. ASSUME NEW k \in Job, Client!Submit(k), UNCHANGED workerVars
      PROVE  Bounded(j)'
  <2>1. /\ queue' = Append(queue, k) /\ submitted' = submitted \cup {k}
        /\ k \notin submitted /\ UNCHANGED <<job, commits, restarts>>
        /\ Early' = Early
    BY <1>1 DEF Client!Submit, workerVars, Early
  <2>2. InQueue(j)' => InQueue(j) \/ j = k
    BY <1>0, <2>1, QueueFacts DEF InQueue
  <2> QED
    BY <1>0, <2>1, <2>2 DEF Bounded
<1>2. CASE Receive /\ UNCHANGED clientVars
  <2>1. /\ queue # <<>> /\ job' = Head(queue) /\ queue' = Tail(queue)
        /\ UNCHANGED <<submitted, commits, restarts>>
    BY <1>2 DEF Receive
  <2>2. (InQueue(j)' => InQueue(j)) /\ InQueue(job')
    BY <1>0, <2>1, QueueHead DEF InQueue
  <2>3. job' = j => InQueue(j)
    BY <2>2
  <2> QED
    BY <1>0, <2>1, <2>2, <2>3 DEF Bounded
<1>3. CASE Restart /\ UNCHANGED clientVars
  <2>1. /\ restarts' = restarts + 1 /\ UNCHANGED <<submitted, commits>>
    BY <1>3 DEF Restart
  <2> QED
    BY <1>0, <2>1 DEF Bounded
<1>4. CASE Replacing
  <2>1. /\ UNCHANGED <<queue, submitted, commits, restarts>>
        /\ ~Early' /\ InQueue(j)' = InQueue(j)
    BY <1>4 DEF Replacing, Rest, Early, InQueue
  <2> QED
    BY <1>0, <2>1 DEF Bounded
<1>5. CASE Commit /\ UNCHANGED clientVars
  <2>1. /\ commits' = [commits EXCEPT ![job] = @ + 1]
        /\ UNCHANGED <<queue, job, submitted, restarts>>
        /\ runner = "commit" /\ runner' = "committed" /\ UNCHANGED pc
    BY <1>5 DEF Commit
  <2>2. /\ job \in Job /\ Early /\ ~Early' /\ ~InQueue(job) /\ job \in submitted
    BY <1>0, <2>1 DEF Places, Tokens, Early
  <2>3. InQueue(j)' = InQueue(j)
    BY <2>1 DEF InQueue
  <2>4. CASE j = job
    BY <1>0, <2>1, <2>2, <2>3, <2>4 DEF Bounded
  <2>5. CASE j # job
    BY <1>0, <2>1, <2>2, <2>3, <2>5 DEF Bounded
  <2> QED
    BY <2>4, <2>5
<1>6. CASE Still
  <2>1. InQueue(j)' = InQueue(j)
    BY <1>6 DEF Still, InQueue
  <2> QED
    BY <1>6, <2>1 DEF Still, Bounded
<1> QED
  BY <1>1, <1>2, <1>3, <1>4, <1>5, <1>6, StepKinds

(* The invariant that bounds the commits.                                  *)
Delivered == Types /\ Places /\ Tokens /\ \A j \in Job : Bounded(j)

(* Nothing has been submitted at the start.                                *)
LEMMA InitDelivered == Init => Delivered
<1> SUFFICES ASSUME Init PROVE Tokens /\ \A j \in Job : Bounded(j)
  BY InitTypes DEF Delivered
<1> QED
  BY DEF Init, Client!Init, Tokens, Bounded, InQueue

(* For any number of jobs, restarts and aborts, a job's work is committed  *)
(* at most once for every time the broker delivered it.                    *)
THEOREM CommitsAreBounded == Spec => []CommitsBounded
<1>1. Delivered /\ [Next]_vars => Delivered'
  BY TypesStep, TokensStep, BoundedStep DEF Delivered
<1>2. Delivered => CommitsBounded
  BY DEF Delivered, Bounded, CommitsBounded
<1> QED
  BY <1>1, <1>2, InitDelivered, PTL DEF Spec

-----------------------------------------------------------------------------
(* The records are those of committed transactions; one that is not there  *)
(* was deleted.  A thread only runs with a record.                         *)
Recorded ==
  /\ \A j \in Job : status[j] # "NONE" => j \in recorded
  /\ \A j \in recorded : status[j] = "NONE" => j \in touched
  /\ runner # "none" => job \in recorded

(* What the results are after a thread's last words, or its report.        *)
LEMMA LastWord ==
  ASSUME Types, job \in Job, NEW kind \in {"result", "error", "aborted"},
         results' = Append(results, Result(kind))
  PROVE  /\ results' # <<>>
         /\ \A i \in 1..Len(results') :
              \/ i \in 1..Len(results) /\ results'[i] = results[i]
              \/ results'[i].job = job /\ results'[i].kind = kind
<1>1. /\ results' # <<>> /\ Len(results') = Len(results) + 1
      /\ results'[Len(results) + 1] = Result(kind)
      /\ \A i \in 1..Len(results) : results'[i] = results[i]
      /\ Len(results) \in Nat
  BY ResultAppended DEF Types
<1>2. Result(kind).job = job /\ Result(kind).kind = kind
  BY DEF Result
<1> QED
  BY <1>1, <1>2

(* Records appear by commits and go by deletions only.                     *)
LEMMA RecordedStep ==
  ASSUME Types, Places, Tokens, Recorded, [Next]_vars
  PROVE  Recorded'
<1> USE JobConstants, OutcomeFields DEF Types, Places, Recorded
<1> USE DEF clientVars, threadVars, userVars, processVars
<1>0. CASE Client!Next /\ UNCHANGED workerVars
  <2>1. PICK j \in Job : Client!Record(j) \/ Client!Submit(j)
    BY <1>0 DEF Client!Next
  <2> QED
    BY <1>0, <2>1 DEF workerVars, Client!Record, Client!Submit
<1>1. CASE Receive /\ UNCHANGED clientVars
  BY <1>1 DEF Receive
<1>2. CASE PrerunCheck /\ UNCHANGED clientVars
  BY <1>2 DEF PrerunCheck
<1>3. CASE PrerunMark /\ UNCHANGED clientVars
  BY <1>3 DEF PrerunMark, Update
<1>4. CASE WaitForPendingJob /\ UNCHANGED clientVars
  BY <1>4 DEF WaitForPendingJob, StartThreads
<1>5. CASE Collect /\ UNCHANGED clientVars
  BY <1>5, ResultTaken DEF Collect
<1>6. CASE StoreOutcome /\ UNCHANGED clientVars
  BY <1>6 DEF StoreOutcome, Update
<1>7. CASE on_failure /\ UNCHANGED clientVars
  BY <1>7 DEF on_failure, Update
<1>8. CASE Acknowledge /\ UNCHANGED clientVars
  BY <1>8, Replaced DEF Acknowledge
<1>9. CASE Login /\ UNCHANGED clientVars
  BY <1>9 DEF Login
<1>10. CASE Work /\ UNCHANGED clientVars
  <2>1. UNCHANGED <<status, recorded, touched, job>>
    BY <1>10 DEF Work
  <2>2. runner # "none"
    BY <1>10 DEF Work
  <2> QED
    BY <2>1, <2>2
<1>11. CASE CheckAborted /\ UNCHANGED clientVars
  <2>1. UNCHANGED <<status, recorded, touched, job>>
    BY <1>11 DEF CheckAborted
  <2>2. runner # "none"
    BY <1>11 DEF CheckAborted
  <2> QED
    BY <2>1, <2>2
<1>12. CASE Commit /\ UNCHANGED clientVars
  BY <1>12 DEF Commit
<1>13. CASE CommitConflict /\ UNCHANGED clientVars
  <2>1. UNCHANGED <<status, recorded, touched, job>>
    BY <1>13 DEF CommitConflict
  <2>2. runner # "none"
    BY <1>13 DEF CommitConflict
  <2> QED
    BY <2>1, <2>2
<1>14. CASE Report /\ UNCHANGED clientVars
  BY <1>14, ResultAppended DEF Report, Result
<1>15. CASE Finally /\ UNCHANGED clientVars
  BY <1>15 DEF Finally
<1>16. CASE Interrupted /\ UNCHANGED clientVars
  <2>1. UNCHANGED <<status, recorded, touched, job>>
    BY <1>16 DEF Interrupted
  <2>2. runner # "none"
    BY <1>16 DEF Interrupted
  <2> QED
    BY <2>1, <2>2
<1>17. CASE NoteAborted /\ UNCHANGED clientVars
  BY <1>17 DEF NoteAborted
<1>18. CASE InterruptRunner /\ UNCHANGED clientVars
  BY <1>18 DEF InterruptRunner
<1>19. CASE WorkerLost /\ UNCHANGED clientVars
  BY <1>19, Replaced DEF WorkerLost, Update
<1>20. CASE Terminate /\ UNCHANGED clientVars
  BY <1>20 DEF Terminate
<1>21. CASE Restart /\ UNCHANGED clientVars
  BY <1>21, Replaced DEF Restart
<1>22. CASE abort /\ UNCHANGED clientVars
  BY <1>22 DEF abort
<1>23. CASE deleteJob /\ UNCHANGED clientVars
  BY <1>23 DEF deleteJob
<1>24. CASE UNCHANGED vars
  BY <1>24 DEF vars, workerVars
<1> QED
  BY <1>0, <1>1, <1>2, <1>3, <1>4, <1>5, <1>6, <1>7, <1>8, <1>9, <1>10, <1>11,
     <1>12, <1>13, <1>14, <1>15, <1>16, <1>17, <1>18, <1>19, <1>20, <1>21,
     <1>22, <1>23, <1>24
     DEF Next, WorkerNext, Main, Runner, Aborter

(* What the user did is not undone, and the option does not change.        *)
LEMMA StillTouched ==
  ASSUME Types, [Next]_vars
  PROVE  touched \subseteq touched' /\ max_jobs' = max_jobs
<1> USE DEF clientVars, threadVars, userVars, processVars
<1>0. CASE Client!Next /\ UNCHANGED workerVars
  BY <1>0 DEF workerVars
<1>1. CASE abort \/ deleteJob
  BY <1>1 DEF abort, deleteJob
<1>2. CASE Acknowledge \/ WorkerLost \/ Restart
  BY <1>2, Replaced DEF Acknowledge, WorkerLost, Restart
<1>3. CASE \/ Receive \/ PrerunCheck \/ PrerunMark \/ WaitForPendingJob
           \/ Collect \/ StoreOutcome \/ on_failure \/ Terminate
  BY <1>3 DEF Receive, PrerunCheck, PrerunMark, WaitForPendingJob, Collect,
       StoreOutcome, on_failure, Terminate
<1>4. CASE Runner \/ Aborter
  BY <1>4 DEF Runner, Aborter, Login, Work, CheckAborted, Commit,
       CommitConflict, Report, Finally, Interrupted, NoteAborted,
       InterruptRunner
<1>5. CASE UNCHANGED vars
  BY <1>5 DEF vars, workerVars
<1> QED
  BY <1>0, <1>1, <1>2, <1>3, <1>4, <1>5 DEF Next, WorkerNext, Main

(* What the runner leaves alone on its way out.                            *)
RunnerFrame ==
  UNCHANGED <<status, recorded, submitted, pc, job, aborter, outcome, touched,
              commits, max_jobs>>

(* In a process that is not disturbed, results and the outcome are those   *)
(* of the job in hand, and none is left when the process takes a job.      *)
Own ==
  /\ \A i \in 1..Len(results) : results[i].job = job
  /\ outcome # NoResult => outcome.job = job
  /\ pc \in {"idle", "prerun", "mark", "wait"} => results = <<>>

(* While no user acts a job puts one result at most, as its runner ends,   *)
(* and takes it with it.                                                   *)
Single ==
  /\ pc \notin {"run", "terminating"} => results = <<>>
  /\ pc = "run" => \/ results = <<>>
                   \/ Len(results) = 1 /\ runner \in {"reported", "ended"}

(* A result was put there by a thread whose work was committed.            *)
Earned ==
  /\ runner \in {"committed", "reported"} => commits[job] > 0
  /\ runner = "reported" => results # <<>>
  /\ \A i \in 1..Len(results) :
       results[i].kind = "result" => commits[results[i].job] > 0
  /\ outcome.kind = "result" => commits[outcome.job] > 0

(* Without an act of the user nothing is aborted, and a thread that ends   *)
(* while it is waited for leaves a result, unless it died mute.            *)
Unharmed ==
  /\ aborting = FALSE /\ aborter \in {"none", "watching"}
  /\ pc = "run" => /\ interrupt = FALSE
                   /\ \A i \in 1..Len(results) : results[i].kind # "aborted"
                   /\ runner = "ended" => results # <<>> \/ job \in mute
  /\ outcome.kind # "aborted" /\ pc # "onfailure"
  /\ pc = "returned" /\ outcome = NoResult
       => job \notin recorded \/ job \in mute

(* So what the records say is true.                                        *)
Honest ==
  /\ \A j \in Job \ touched :
       /\ status[j] = "SUCCESS" => commits[j] > 0 \/ j \in mute
       /\ status[j] # "ABORTED"
  /\ job \notin touched => Unharmed

(* A process that runs more than one job has nothing left of the last one  *)
(* while no user acts, and the others are new for every job.               *)
LEMMA OwnStep ==
  ASSUME Types, Places, Own, touched = {} => Single, Undisturbed,
         [Next]_vars
  PROVE  Own'
<1> USE JobConstants, OutcomeFields DEF Types, Places, Own
<1> USE DEF clientVars, threadVars, userVars, processVars
<1>0. CASE Client!Next /\ UNCHANGED workerVars
  <2>1. PICK j \in Job : Client!Record(j) \/ Client!Submit(j)
    BY <1>0 DEF Client!Next
  <2> QED
    BY <1>0, <2>1 DEF workerVars, Client!Record, Client!Submit
<1>1. CASE Receive /\ UNCHANGED clientVars
  BY <1>1 DEF Receive
<1>2. CASE PrerunCheck /\ UNCHANGED clientVars
  BY <1>2 DEF PrerunCheck
<1>3. CASE PrerunMark /\ UNCHANGED clientVars
  BY <1>3 DEF PrerunMark, Update
<1>4. CASE WaitForPendingJob /\ UNCHANGED clientVars
  BY <1>4 DEF WaitForPendingJob, StartThreads
<1>5. CASE Collect /\ UNCHANGED clientVars
  BY <1>5, ResultTaken DEF Collect
<1>6. CASE StoreOutcome /\ UNCHANGED clientVars
  BY <1>6 DEF StoreOutcome, Update
<1>7. CASE on_failure /\ UNCHANGED clientVars
  BY <1>7 DEF on_failure, Update
<1>8. CASE Acknowledge /\ UNCHANGED clientVars
  <2>1. pc' = "idle" /\ outcome' = NoResult
    BY <1>8, Replaced
  <2>2. max_jobs = 1 => results' = <<>>
    BY <1>8, Replaced
  <2>3. touched = {} => results = <<>>
    BY <1>8 DEF Acknowledge, Single
  <2>4. results' = <<>>
    BY <1>8, <2>2, <2>3, Replaced DEF Undisturbed
  <2> QED
    BY <2>1, <2>4
<1>9. CASE Login /\ UNCHANGED clientVars
  BY <1>9 DEF Login
<1>10. CASE Work /\ UNCHANGED clientVars
  <2>1. RunnerFrame
    BY <1>10 DEF Work, RunnerFrame
  <2>2. CASE GoOn("check")
    BY <1>10, <2>1, <2>2 DEF Work, GoOn, RunnerFrame
  <2>3. CASE EndRunner("error")
    BY <1>10, <2>1, <2>3, LastWord DEF Work, EndRunner, RunnerFrame
  <2>4. CASE EndMute
    BY <1>10, <2>1, <2>4 DEF Work, EndMute, RunnerFrame
  <2> QED
    BY <1>10, <2>2, <2>3, <2>4 DEF Work
<1>11. CASE CheckAborted /\ UNCHANGED clientVars
  <2>1. RunnerFrame
    BY <1>11 DEF CheckAborted, RunnerFrame
  <2>2. CASE GoOn("commit")
    BY <1>11, <2>1, <2>2 DEF CheckAborted, GoOn, RunnerFrame
  <2>3. CASE EndRunner("aborted")
    BY <1>11, <2>1, <2>3, LastWord DEF CheckAborted, EndRunner, RunnerFrame
  <2>4. CASE EndMute
    BY <1>11, <2>1, <2>4 DEF CheckAborted, EndMute, RunnerFrame
  <2> QED
    BY <1>11, <2>2, <2>3, <2>4 DEF CheckAborted
<1>12. CASE Commit /\ UNCHANGED clientVars
  BY <1>12 DEF Commit
<1>13. CASE CommitConflict /\ UNCHANGED clientVars
  <2>1. RunnerFrame
    BY <1>13 DEF CommitConflict, RunnerFrame
  <2>2. CASE GoOn("work")
    BY <1>13, <2>1, <2>2 DEF CommitConflict, GoOn, RunnerFrame
  <2>3. CASE EndRunner("error")
    BY <1>13, <2>1, <2>3, LastWord DEF CommitConflict, EndRunner, RunnerFrame
  <2>4. CASE EndMute
    BY <1>13, <2>1, <2>4 DEF CommitConflict, EndMute, RunnerFrame
  <2> QED
    BY <1>13, <2>2, <2>3, <2>4 DEF CommitConflict
<1>14. CASE Report /\ UNCHANGED clientVars
  BY <1>14, LastWord DEF Report
<1>15. CASE Finally /\ UNCHANGED clientVars
  BY <1>15 DEF Finally
<1>16. CASE Interrupted /\ UNCHANGED clientVars
  <2>1. RunnerFrame
    BY <1>16 DEF Interrupted, RunnerFrame
  <2>2. CASE GoOn(runner)
    BY <1>16, <2>1, <2>2 DEF Interrupted, GoOn, RunnerFrame
  <2>3. CASE EndRunner("aborted")
    BY <1>16, <2>1, <2>3, LastWord DEF Interrupted, EndRunner, RunnerFrame
  <2>4. CASE EndMute
    BY <1>16, <2>1, <2>4 DEF Interrupted, EndMute, RunnerFrame
  <2> QED
    BY <1>16, <2>2, <2>3, <2>4 DEF Interrupted
<1>17. CASE NoteAborted /\ UNCHANGED clientVars
  BY <1>17 DEF NoteAborted
<1>18. CASE InterruptRunner /\ UNCHANGED clientVars
  BY <1>18 DEF InterruptRunner
<1>19. CASE WorkerLost /\ UNCHANGED clientVars
  <2>1. /\ job' = NoJob /\ runner' = "none" /\ aborter' = "none"
        /\ pc' = "idle" /\ interrupt' = FALSE /\ aborting' = FALSE
        /\ results' = <<>> /\ outcome' = NoResult
    BY <1>19, Replaced DEF WorkerLost
  <2> QED
    BY <1>19, <2>1 DEF WorkerLost, Update
<1>20. CASE Terminate /\ UNCHANGED clientVars
  BY <1>20 DEF Terminate
<1>21. CASE Restart /\ UNCHANGED clientVars
  <2>1. /\ job' = NoJob /\ runner' = "none" /\ aborter' = "none"
        /\ pc' = "idle" /\ interrupt' = FALSE /\ aborting' = FALSE
        /\ results' = <<>> /\ outcome' = NoResult
    BY <1>21, Replaced DEF Restart
  <2> QED
    BY <1>21, <2>1 DEF Restart
<1>22. CASE abort /\ UNCHANGED clientVars
  BY <1>22 DEF abort
<1>23. CASE deleteJob /\ UNCHANGED clientVars
  BY <1>23 DEF deleteJob
<1>24. CASE UNCHANGED vars
  BY <1>24 DEF vars, workerVars
<1> QED
  BY <1>0, <1>1, <1>2, <1>3, <1>4, <1>5, <1>6, <1>7, <1>8, <1>9, <1>10, <1>11,
     <1>12, <1>13, <1>14, <1>15, <1>16, <1>17, <1>18, <1>19, <1>20, <1>21,
     <1>22, <1>23, <1>24
     DEF Next, WorkerNext, Main, Runner, Aborter

(* Nothing but the interrupt of an abort adds a second result.             *)
LEMMA SingleStep ==
  ASSUME Types, Places, Own, Single, Unharmed, touched' = {}, [Next]_vars
  PROVE  Single'
<1> USE JobConstants, OutcomeFields
    DEF Types, Places, Own, Single, Unharmed
<1> USE DEF clientVars, threadVars, userVars, processVars
<1>0. CASE Client!Next /\ UNCHANGED workerVars
  <2>1. PICK j \in Job : Client!Record(j) \/ Client!Submit(j)
    BY <1>0 DEF Client!Next
  <2> QED
    BY <1>0, <2>1 DEF workerVars, Client!Record, Client!Submit
<1>1. CASE Receive /\ UNCHANGED clientVars
  BY <1>1 DEF Receive
<1>2. CASE PrerunCheck /\ UNCHANGED clientVars
  BY <1>2 DEF PrerunCheck
<1>3. CASE PrerunMark /\ UNCHANGED clientVars
  BY <1>3 DEF PrerunMark, Update
<1>4. CASE WaitForPendingJob /\ UNCHANGED clientVars
  BY <1>4 DEF WaitForPendingJob, StartThreads
<1>5. CASE Collect /\ UNCHANGED clientVars
  BY <1>5, ResultTaken DEF Collect
<1>6. CASE StoreOutcome /\ UNCHANGED clientVars
  BY <1>6 DEF StoreOutcome, Update
<1>7. CASE on_failure /\ UNCHANGED clientVars
  BY <1>7 DEF on_failure, Update
<1>8. CASE Acknowledge /\ UNCHANGED clientVars
  <2>1. /\ job' = NoJob /\ runner' = "none" /\ aborter' = "none"
        /\ pc' = "idle" /\ interrupt' = FALSE /\ aborting' = FALSE
        /\ outcome' = NoResult
    BY <1>8, Replaced
  <2>2. results' = <<>> \/ UNCHANGED results
    BY <1>8, Replaced
  <2>3. pc = "ack" /\ UNCHANGED <<status, commits, touched, mute, recorded>>
    BY <1>8 DEF Acknowledge
  <2> QED
    BY <2>1, <2>2, <2>3
<1>9. CASE Login /\ UNCHANGED clientVars
  BY <1>9 DEF Login
<1>10. CASE Work /\ UNCHANGED clientVars
  <2>1. RunnerFrame
    BY <1>10 DEF Work, RunnerFrame
  <2>2. CASE GoOn("check")
    BY <1>10, <2>1, <2>2 DEF Work, GoOn, RunnerFrame
  <2>3. CASE EndRunner("error")
    BY <1>10, <2>1, <2>3, LastWord DEF Work, EndRunner, RunnerFrame
  <2>4. CASE EndMute
    BY <1>10, <2>1, <2>4 DEF Work, EndMute, RunnerFrame
  <2> QED
    BY <1>10, <2>2, <2>3, <2>4 DEF Work
<1>11. CASE CheckAborted /\ UNCHANGED clientVars
  <2>1. RunnerFrame
    BY <1>11 DEF CheckAborted, RunnerFrame
  <2>2. CASE GoOn("commit")
    BY <1>11, <2>1, <2>2 DEF CheckAborted, GoOn, RunnerFrame
  <2>3. CASE EndRunner("aborted")
    BY <1>11, <2>1, <2>3, LastWord DEF CheckAborted, EndRunner, RunnerFrame
  <2>4. CASE EndMute
    BY <1>11, <2>1, <2>4 DEF CheckAborted, EndMute, RunnerFrame
  <2> QED
    BY <1>11, <2>2, <2>3, <2>4 DEF CheckAborted
<1>12. CASE Commit /\ UNCHANGED clientVars
  BY <1>12 DEF Commit
<1>13. CASE CommitConflict /\ UNCHANGED clientVars
  <2>1. RunnerFrame
    BY <1>13 DEF CommitConflict, RunnerFrame
  <2>2. CASE GoOn("work")
    BY <1>13, <2>1, <2>2 DEF CommitConflict, GoOn, RunnerFrame
  <2>3. CASE EndRunner("error")
    BY <1>13, <2>1, <2>3, LastWord DEF CommitConflict, EndRunner, RunnerFrame
  <2>4. CASE EndMute
    BY <1>13, <2>1, <2>4 DEF CommitConflict, EndMute, RunnerFrame
  <2> QED
    BY <1>13, <2>2, <2>3, <2>4 DEF CommitConflict
<1>14. CASE Report /\ UNCHANGED clientVars
  BY <1>14, LastWord DEF Report
<1>15. CASE Finally /\ UNCHANGED clientVars
  BY <1>15 DEF Finally
<1>16. CASE Interrupted /\ UNCHANGED clientVars
  <2>1. RunnerFrame
    BY <1>16 DEF Interrupted, RunnerFrame
  <2>2. CASE GoOn(runner)
    BY <1>16, <2>1, <2>2 DEF Interrupted, GoOn, RunnerFrame
  <2>3. CASE EndRunner("aborted")
    BY <1>16, <2>1, <2>3, LastWord DEF Interrupted, EndRunner, RunnerFrame
  <2>4. CASE EndMute
    BY <1>16, <2>1, <2>4 DEF Interrupted, EndMute, RunnerFrame
  <2> QED
    BY <1>16, <2>2, <2>3, <2>4 DEF Interrupted
<1>17. CASE NoteAborted /\ UNCHANGED clientVars
  BY <1>17 DEF NoteAborted
<1>18. CASE InterruptRunner /\ UNCHANGED clientVars
  BY <1>18 DEF InterruptRunner
<1>19. CASE WorkerLost /\ UNCHANGED clientVars
  <2>1. /\ job' = NoJob /\ runner' = "none" /\ aborter' = "none"
        /\ pc' = "idle" /\ interrupt' = FALSE /\ aborting' = FALSE
        /\ results' = <<>> /\ outcome' = NoResult
    BY <1>19, Replaced DEF WorkerLost
  <2> QED
    BY <1>19, <2>1 DEF WorkerLost, Update
<1>20. CASE Terminate /\ UNCHANGED clientVars
  BY <1>20 DEF Terminate
<1>21. CASE Restart /\ UNCHANGED clientVars
  <2>1. /\ job' = NoJob /\ runner' = "none" /\ aborter' = "none"
        /\ pc' = "idle" /\ interrupt' = FALSE /\ aborting' = FALSE
        /\ results' = <<>> /\ outcome' = NoResult
    BY <1>21, Replaced DEF Restart
  <2> QED
    BY <1>21, <2>1 DEF Restart
<1>22. CASE abort /\ UNCHANGED clientVars
  BY <1>22 DEF abort
<1>23. CASE deleteJob /\ UNCHANGED clientVars
  BY <1>23 DEF deleteJob
<1>24. CASE UNCHANGED vars
  BY <1>24 DEF vars, workerVars
<1> QED
  BY <1>0, <1>1, <1>2, <1>3, <1>4, <1>5, <1>6, <1>7, <1>8, <1>9, <1>10, <1>11,
     <1>12, <1>13, <1>14, <1>15, <1>16, <1>17, <1>18, <1>19, <1>20, <1>21,
     <1>22, <1>23, <1>24
     DEF Next, WorkerNext, Main, Runner, Aborter

(* Only the step after the commit speaks of a result.                      *)
LEMMA EarnedStep ==
  ASSUME Types, Places, Earned, [Next]_vars
  PROVE  Earned'
<1> USE JobConstants, OutcomeFields DEF Types, Places, Earned
<1> USE DEF clientVars, threadVars, userVars, processVars
<1>0. CASE Client!Next /\ UNCHANGED workerVars
  <2>1. PICK j \in Job : Client!Record(j) \/ Client!Submit(j)
    BY <1>0 DEF Client!Next
  <2> QED
    BY <1>0, <2>1 DEF workerVars, Client!Record, Client!Submit
<1>1. CASE Receive /\ UNCHANGED clientVars
  BY <1>1 DEF Receive
<1>2. CASE PrerunCheck /\ UNCHANGED clientVars
  BY <1>2 DEF PrerunCheck
<1>3. CASE PrerunMark /\ UNCHANGED clientVars
  BY <1>3 DEF PrerunMark, Update
<1>4. CASE WaitForPendingJob /\ UNCHANGED clientVars
  BY <1>4 DEF WaitForPendingJob, StartThreads
<1>5. CASE Collect /\ UNCHANGED clientVars
  BY <1>5, ResultTaken DEF Collect
<1>6. CASE StoreOutcome /\ UNCHANGED clientVars
  BY <1>6 DEF StoreOutcome, Update
<1>7. CASE on_failure /\ UNCHANGED clientVars
  BY <1>7 DEF on_failure, Update
<1>8. CASE Acknowledge /\ UNCHANGED clientVars
  <2>1. /\ job' = NoJob /\ runner' = "none" /\ aborter' = "none"
        /\ pc' = "idle" /\ interrupt' = FALSE /\ aborting' = FALSE
        /\ outcome' = NoResult
    BY <1>8, Replaced
  <2>2. results' = <<>> \/ UNCHANGED results
    BY <1>8, Replaced
  <2>3. pc = "ack" /\ UNCHANGED <<status, commits, touched, mute, recorded>>
    BY <1>8 DEF Acknowledge
  <2> QED
    BY <2>1, <2>2, <2>3
<1>9. CASE Login /\ UNCHANGED clientVars
  BY <1>9 DEF Login
<1>10. CASE Work /\ UNCHANGED clientVars
  <2>1. RunnerFrame
    BY <1>10 DEF Work, RunnerFrame
  <2>2. CASE GoOn("check")
    BY <1>10, <2>1, <2>2 DEF Work, GoOn, RunnerFrame
  <2>3. CASE EndRunner("error")
    BY <1>10, <2>1, <2>3, LastWord DEF Work, EndRunner, RunnerFrame
  <2>4. CASE EndMute
    BY <1>10, <2>1, <2>4 DEF Work, EndMute, RunnerFrame
  <2> QED
    BY <1>10, <2>2, <2>3, <2>4 DEF Work
<1>11. CASE CheckAborted /\ UNCHANGED clientVars
  <2>1. RunnerFrame
    BY <1>11 DEF CheckAborted, RunnerFrame
  <2>2. CASE GoOn("commit")
    BY <1>11, <2>1, <2>2 DEF CheckAborted, GoOn, RunnerFrame
  <2>3. CASE EndRunner("aborted")
    BY <1>11, <2>1, <2>3, LastWord DEF CheckAborted, EndRunner, RunnerFrame
  <2>4. CASE EndMute
    BY <1>11, <2>1, <2>4 DEF CheckAborted, EndMute, RunnerFrame
  <2> QED
    BY <1>11, <2>2, <2>3, <2>4 DEF CheckAborted
<1>12. CASE Commit /\ UNCHANGED clientVars
  BY <1>12 DEF Commit
<1>13. CASE CommitConflict /\ UNCHANGED clientVars
  <2>1. RunnerFrame
    BY <1>13 DEF CommitConflict, RunnerFrame
  <2>2. CASE GoOn("work")
    BY <1>13, <2>1, <2>2 DEF CommitConflict, GoOn, RunnerFrame
  <2>3. CASE EndRunner("error")
    BY <1>13, <2>1, <2>3, LastWord DEF CommitConflict, EndRunner, RunnerFrame
  <2>4. CASE EndMute
    BY <1>13, <2>1, <2>4 DEF CommitConflict, EndMute, RunnerFrame
  <2> QED
    BY <1>13, <2>2, <2>3, <2>4 DEF CommitConflict
<1>14. CASE Report /\ UNCHANGED clientVars
  BY <1>14, LastWord DEF Report
<1>15. CASE Finally /\ UNCHANGED clientVars
  BY <1>15 DEF Finally
<1>16. CASE Interrupted /\ UNCHANGED clientVars
  <2>1. RunnerFrame
    BY <1>16 DEF Interrupted, RunnerFrame
  <2>2. CASE GoOn(runner)
    BY <1>16, <2>1, <2>2 DEF Interrupted, GoOn, RunnerFrame
  <2>3. CASE EndRunner("aborted")
    BY <1>16, <2>1, <2>3, LastWord DEF Interrupted, EndRunner, RunnerFrame
  <2>4. CASE EndMute
    BY <1>16, <2>1, <2>4 DEF Interrupted, EndMute, RunnerFrame
  <2> QED
    BY <1>16, <2>2, <2>3, <2>4 DEF Interrupted
<1>17. CASE NoteAborted /\ UNCHANGED clientVars
  BY <1>17 DEF NoteAborted
<1>18. CASE InterruptRunner /\ UNCHANGED clientVars
  BY <1>18 DEF InterruptRunner
<1>19. CASE WorkerLost /\ UNCHANGED clientVars
  <2>1. /\ job' = NoJob /\ runner' = "none" /\ aborter' = "none"
        /\ pc' = "idle" /\ interrupt' = FALSE /\ aborting' = FALSE
        /\ results' = <<>> /\ outcome' = NoResult
    BY <1>19, Replaced DEF WorkerLost
  <2> QED
    BY <1>19, <2>1 DEF WorkerLost, Update
<1>20. CASE Terminate /\ UNCHANGED clientVars
  BY <1>20 DEF Terminate
<1>21. CASE Restart /\ UNCHANGED clientVars
  <2>1. /\ job' = NoJob /\ runner' = "none" /\ aborter' = "none"
        /\ pc' = "idle" /\ interrupt' = FALSE /\ aborting' = FALSE
        /\ results' = <<>> /\ outcome' = NoResult
    BY <1>21, Replaced DEF Restart
  <2> QED
    BY <1>21, <2>1 DEF Restart
<1>22. CASE abort /\ UNCHANGED clientVars
  BY <1>22 DEF abort
<1>23. CASE deleteJob /\ UNCHANGED clientVars
  BY <1>23 DEF deleteJob
<1>24. CASE UNCHANGED vars
  BY <1>24 DEF vars, workerVars
<1> QED
  BY <1>0, <1>1, <1>2, <1>3, <1>4, <1>5, <1>6, <1>7, <1>8, <1>9, <1>10, <1>11,
     <1>12, <1>13, <1>14, <1>15, <1>16, <1>17, <1>18, <1>19, <1>20, <1>21,
     <1>22, <1>23, <1>24
     DEF Next, WorkerNext, Main, Runner, Aborter

(* Without an act of the user the aborter stays quiet.                     *)
LEMMA HonestStep ==
  ASSUME Types, Places, Tokens, Recorded, Own, Earned, Honest, [Next]_vars
  PROVE  Honest'
<1> USE JobConstants, OutcomeFields
    DEF Types, Places, Tokens, Recorded, Own, Earned, Honest, Unharmed
<1> USE DEF clientVars, threadVars, userVars, processVars
<1>0. CASE Client!Next /\ UNCHANGED workerVars
  <2>1. PICK j \in Job : Client!Record(j) \/ Client!Submit(j)
    BY <1>0 DEF Client!Next
  <2> QED
    BY <1>0, <2>1 DEF workerVars, Client!Record, Client!Submit
<1>1. CASE Receive /\ UNCHANGED clientVars
  BY <1>1 DEF Receive
<1>2. CASE PrerunCheck /\ UNCHANGED clientVars
  BY <1>2 DEF PrerunCheck
<1>3. CASE PrerunMark /\ UNCHANGED clientVars
  BY <1>3 DEF PrerunMark, Update
<1>4. CASE WaitForPendingJob /\ UNCHANGED clientVars
  <2>1. /\ UNCHANGED <<job, touched, commits, status, recorded, aborting,
                       results, interrupt, mute>>
        /\ pc = "wait" /\ job \in Job
    BY <1>4 DEF WaitForPendingJob
  <2>2. CASE status[job] # "NONE"
    BY <1>4, <2>1, <2>2 DEF WaitForPendingJob, StartThreads
  <2>3. CASE status[job] = "NONE"
    <3>1. job \notin touched => job \notin recorded
      BY <2>3
    <3>2. /\ pc' = "returned" /\ outcome' = NoResult
          /\ UNCHANGED <<runner, aborter>>
      BY <1>4, <2>3 DEF WaitForPendingJob
    <3> QED
      BY <2>1, <3>1, <3>2
  <2> QED
    BY <2>2, <2>3
<1>5. CASE Collect /\ UNCHANGED clientVars
  BY <1>5, ResultTaken DEF Collect
<1>6. CASE StoreOutcome /\ UNCHANGED clientVars
  BY <1>6 DEF StoreOutcome, Update
<1>7. CASE on_failure /\ UNCHANGED clientVars
  BY <1>7 DEF on_failure, Update
<1>8. CASE Acknowledge /\ UNCHANGED clientVars
  <2>1. /\ job' = NoJob /\ runner' = "none" /\ aborter' = "none"
        /\ pc' = "idle" /\ interrupt' = FALSE /\ aborting' = FALSE
        /\ outcome' = NoResult
    BY <1>8, Replaced
  <2>2. results' = <<>> \/ UNCHANGED results
    BY <1>8, Replaced
  <2>3. pc = "ack" /\ UNCHANGED <<status, commits, touched, mute, recorded>>
    BY <1>8 DEF Acknowledge
  <2> QED
    BY <2>1, <2>2, <2>3
<1>9. CASE Login /\ UNCHANGED clientVars
  BY <1>9 DEF Login
<1>10. CASE Work /\ UNCHANGED clientVars
  <2>1. RunnerFrame
    BY <1>10 DEF Work, RunnerFrame
  <2>2. CASE GoOn("check")
    BY <1>10, <2>1, <2>2 DEF Work, GoOn, RunnerFrame
  <2>3. CASE EndRunner("error")
    BY <1>10, <2>1, <2>3, LastWord DEF Work, EndRunner, RunnerFrame
  <2>4. CASE EndMute
    BY <1>10, <2>1, <2>4 DEF Work, EndMute, RunnerFrame
  <2> QED
    BY <1>10, <2>2, <2>3, <2>4 DEF Work
<1>11. CASE CheckAborted /\ UNCHANGED clientVars
  <2>1. RunnerFrame
    BY <1>11 DEF CheckAborted, RunnerFrame
  <2>2. CASE ~aborting
    BY <1>11, <2>1, <2>2 DEF CheckAborted, GoOn, RunnerFrame
  <2>3. CASE aborting
    <3>1. job \in touched /\ mute' = mute
      BY <1>11, <2>3 DEF CheckAborted, EndRunner
    <3> QED
      BY <2>1, <3>1 DEF RunnerFrame
  <2> QED
    BY <2>2, <2>3
<1>12. CASE Commit /\ UNCHANGED clientVars
  BY <1>12 DEF Commit
<1>13. CASE CommitConflict /\ UNCHANGED clientVars
  <2>1. RunnerFrame
    BY <1>13 DEF CommitConflict, RunnerFrame
  <2>2. CASE GoOn("work")
    BY <1>13, <2>1, <2>2 DEF CommitConflict, GoOn, RunnerFrame
  <2>3. CASE EndRunner("error")
    BY <1>13, <2>1, <2>3, LastWord DEF CommitConflict, EndRunner, RunnerFrame
  <2>4. CASE EndMute
    BY <1>13, <2>1, <2>4 DEF CommitConflict, EndMute, RunnerFrame
  <2> QED
    BY <1>13, <2>2, <2>3, <2>4 DEF CommitConflict
<1>14. CASE Report /\ UNCHANGED clientVars
  BY <1>14, LastWord DEF Report
<1>15. CASE Finally /\ UNCHANGED clientVars
  BY <1>15 DEF Finally
<1>16. CASE Interrupted /\ UNCHANGED clientVars
  <2>1. RunnerFrame
    BY <1>16 DEF Interrupted, RunnerFrame
  <2>2. CASE GoOn(runner)
    BY <1>16, <2>1, <2>2 DEF Interrupted, GoOn, RunnerFrame
  <2>3. CASE EndRunner("aborted")
    BY <1>16, <2>1, <2>3, LastWord DEF Interrupted, EndRunner, RunnerFrame
  <2>4. CASE EndMute
    BY <1>16, <2>1, <2>4 DEF Interrupted, EndMute, RunnerFrame
  <2> QED
    BY <1>16, <2>2, <2>3, <2>4 DEF Interrupted
<1>17. CASE NoteAborted /\ UNCHANGED clientVars
  BY <1>17 DEF NoteAborted
<1>18. CASE InterruptRunner /\ UNCHANGED clientVars
  BY <1>18 DEF InterruptRunner
<1>19. CASE WorkerLost /\ UNCHANGED clientVars
  <2>1. /\ job' = NoJob /\ runner' = "none" /\ aborter' = "none"
        /\ pc' = "idle" /\ interrupt' = FALSE /\ aborting' = FALSE
        /\ results' = <<>> /\ outcome' = NoResult
    BY <1>19, Replaced DEF WorkerLost
  <2> QED
    BY <1>19, <2>1 DEF WorkerLost, Update
<1>20. CASE Terminate /\ UNCHANGED clientVars
  BY <1>20 DEF Terminate
<1>21. CASE Restart /\ UNCHANGED clientVars
  <2>1. /\ job' = NoJob /\ runner' = "none" /\ aborter' = "none"
        /\ pc' = "idle" /\ interrupt' = FALSE /\ aborting' = FALSE
        /\ results' = <<>> /\ outcome' = NoResult
    BY <1>21, Replaced DEF Restart
  <2> QED
    BY <1>21, <2>1 DEF Restart
<1>22. CASE abort /\ UNCHANGED clientVars
  BY <1>22 DEF abort
<1>23. CASE deleteJob /\ UNCHANGED clientVars
  BY <1>23 DEF deleteJob
<1>24. CASE UNCHANGED vars
  BY <1>24 DEF vars, workerVars
<1> QED
  BY <1>0, <1>1, <1>2, <1>3, <1>4, <1>5, <1>6, <1>7, <1>8, <1>9, <1>10, <1>11,
     <1>12, <1>13, <1>14, <1>15, <1>16, <1>17, <1>18, <1>19, <1>20, <1>21,
     <1>22, <1>23, <1>24
     DEF Next, WorkerNext, Main, Runner, Aborter

-----------------------------------------------------------------------------
(* The invariant of the other theorems.                                    *)
IInv ==
  /\ Types /\ Places /\ Tokens /\ Recorded /\ Earned
  /\ Undisturbed => Own /\ Honest
  /\ touched = {} => Single

(* Everything holds at the start.                                          *)
LEMMA InitIInv == Init => IInv
<1> SUFFICES ASSUME Init
             PROVE  Tokens /\ Recorded /\ Own /\ Single /\ Earned /\ Honest
  BY InitTypes DEF IInv
<1>1. Tokens
  BY InitDelivered DEF Delivered
<1> QED
  BY <1>1, OutcomeFields DEF Init, Client!Init, Recorded, Own, Single, Earned,
       Honest, Unharmed

(* The invariant is inductive.                                             *)
LEMMA Inductive == IInv /\ [Next]_vars => IInv'
<1> SUFFICES ASSUME IInv, [Next]_vars PROVE IInv'
  OBVIOUS
<1>1. Types' /\ Places' /\ Tokens' /\ Recorded' /\ Earned'
  BY TypesStep, TokensStep, RecordedStep, EarnedStep DEF IInv
<1>2. /\ touched \subseteq touched' /\ max_jobs' = max_jobs
  BY StillTouched DEF IInv
<1>3. ASSUME Undisturbed' PROVE Own' /\ Honest'
  <2>1. Undisturbed
    BY <1>2, <1>3 DEF Undisturbed
  <2> QED
    BY <2>1, OwnStep, HonestStep DEF IInv
<1>4. ASSUME touched' = {} PROVE Single'
  <2>1. touched = {}
    BY <1>2, <1>4
  <2>2. Own /\ Unharmed /\ Single
    BY <2>1 DEF IInv, Undisturbed, Honest
  <2> QED
    BY <1>4, <2>2, SingleStep DEF IInv
<1> QED
  BY <1>1, <1>3, <1>4 DEF IInv

(* Every variable keeps its type for any jobs and bounds: the commits a    *)
(* job may still try never go below zero, the process never serves more    *)
(* jobs than it may, and results are those of jobs.                        *)
THEOREM JobTypes == Spec => []TypeOK
<1>1. IInv => TypeOK
  BY TypesImply DEF IInv
<1> QED
  BY <1>1, InitIInv, Inductive, PTL DEF Spec

(* No thread runs for a job whose transaction did not commit.              *)
THEOREM OnlyCommittedRun == Spec => []RunsOnlyCommitted
<1>1. IInv => RunsOnlyCommitted
  BY DEF IInv, Recorded, RunsOnlyCommitted
<1> QED
  BY <1>1, InitIInv, Inductive, PTL DEF Spec

(* The outcome celery stores for a job comes from that job's own thread,   *)
(* however many jobs share the queue of results, while no user acts; and   *)
(* whatever users do, where every process runs one job.                    *)
THEOREM OutcomesAreOwn == Spec => []OwnResult
<1>1. IInv => OwnResult
  BY OutcomeFields DEF IInv, Own, OwnResult
<1> QED
  BY <1>1, InitIInv, Inductive, PTL DEF Spec

(* A job recorded as a success has committed its work, unless a user       *)
(* aborted or deleted it or its runner died without a result, whatever     *)
(* dies, conflicts or is delivered again.                                  *)
THEOREM SuccessIsDone == Spec => []SuccessMeansDone
<1>1. IInv => SuccessMeansDone
  BY DEF IInv, Honest, SuccessMeansDone
<1> QED
  BY <1>1, InitIInv, Inductive, PTL DEF Spec
=============================================================================
