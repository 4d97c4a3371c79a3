-------------------------------- MODULE Jobs --------------------------------
(***************************************************************************)
(* A worker of zenjobs (Products/Jobber/jobs.py, zenjobs.py): the main     *)
(* thread of the worker process, which takes a job from celery, and the    *)
(* two threads it starts for it, one that runs the job in a transaction    *)
(* and one that watches the job's record for an abort by the user.         *)
(*                                                                         *)
(* Of celery there is what the jobs rely on: a message is acknowledged     *)
(* when the outcome has been stored (acks_late); the broker, which is      *)
(* external, delivers it again if the daemon dies before.  A process runs  *)
(* as many jobs as --max-jobs-per-worker says and is replaced; what is     *)
(* left in its _result_queue meets the next of its jobs.  An abort raises  *)
(* JobAborted in the running thread between any two of its steps.  Left    *)
(* out: the log, whom the job runs as, the worker processes beside this    *)
(* one, which share only the records and the queue.  The processes that    *)
(* submit jobs do what JobSubmission says.                                 *)
(***************************************************************************)
EXTENDS Naturals, Sequences

CONSTANTS
  Job,          \* job ids
  NoJob,        \* no job
  MaxRetries,   \* times a job is run while it meets conflicts
  JobsPerWorker,\* values --max-jobs-per-worker may have
  MaxRestarts,  \* bound: deaths of the daemon
  MaxActs       \* bound: aborts and deletions by the user

ASSUME JobConstants ==
  NoJob \notin Job /\ MaxRetries \in Nat \ {0}
  /\ JobsPerWorker \subseteq Nat \ {0}
  /\ MaxRestarts \in Nat /\ MaxActs \in Nat

VARIABLES
  status,    \* status of the job records, "NONE" where there is none
  queue,     \* messages in the broker
  recorded,  \* jobs whose record was committed
  submitted, \* jobs handed to the broker
  pc,        \* where the main thread is
  job,       \* the job it has
  runner,    \* where _runner_thread is
  aborter,   \* where _aborter_thread is
  interrupt, \* JobAborted is on its way to the runner
  tries,     \* times the runner may still try
  aborting,  \* job is in _aborted_tasks
  results,   \* _result_queue
  outcome,   \* what run() gave celery
  max_jobs,  \* the option, which never changes
  served,    \* jobs the process is through with
  mute,      \* history: jobs whose runner once died without a result
  commits,   \* transactions of each job that were committed
  touched,   \* jobs the user aborted or deleted
  acts,      \* aborts and deletions so far
  restarts   \* deaths of the daemon so far

threadVars == <<pc, job, runner, aborter, interrupt, tries, aborting,
                results, outcome>>
processVars == <<max_jobs, served>>
userVars == <<touched, acts>>
clientVars == <<recorded, submitted>>
workerVars == <<threadVars, processVars, mute, userVars, commits, restarts>>
vars == <<status, queue, clientVars, workerVars>>

Client == INSTANCE JobSubmission

Unready == {"PENDING", "STARTED"}
Ready == {"SUCCESS", "FAILURE", "ABORTED"}
NoResult == [job |-> NoJob, kind |-> "none"]
Result(kind) == [job |-> job, kind |-> kind]

Init ==
  /\ Client!Init
  /\ pc = "idle" /\ job = NoJob
  /\ runner = "none" /\ aborter = "none" /\ interrupt = FALSE
  /\ tries = 0 /\ aborting = FALSE /\ results = <<>> /\ outcome = NoResult
  /\ max_jobs \in JobsPerWorker /\ served = 0 /\ mute = {}
  /\ commits = [j \in Job |-> 0] /\ restarts = 0
  /\ touched = {} /\ acts = 0

(* backend.update: without the record it gives up after some attempts and  *)
(* only logs it.                                                           *)
Update(new) ==
  status' = IF status[job] = "NONE" THEN status
            ELSE [status EXCEPT ![job] = new]

(* celery hands the next message to the process.                           *)
Receive ==
  /\ pc = "idle" /\ queue # <<>>
  /\ job' = Head(queue) /\ queue' = Tail(queue)
  /\ pc' = "prerun"
  /\ UNCHANGED <<status, runner, aborter, interrupt, tries, aborting, results,
                 outcome, processVars, mute, userVars, commits, restarts>>

(* task_prerun_handler reads the status and then, unless the job is        *)
(* already aborted, marks it as started: an abort between the two is lost. *)
PrerunCheck ==
  /\ pc = "prerun"
  /\ pc' = IF status[job] = "ABORTED" THEN "wait" ELSE "mark"
  /\ UNCHANGED <<status, queue, job, runner, aborter, interrupt, tries,
                 aborting, results, outcome, processVars, mute, userVars,
                 commits, restarts>>

PrerunMark ==
  /\ pc = "mark"
  /\ Update("STARTED")
  /\ pc' = "wait"
  /\ UNCHANGED <<queue, job, runner, aborter, interrupt, tries, aborting,
                 results, outcome, processVars, mute, userVars, commits,
                 restarts>>

StartThreads ==
  /\ pc' = "run" /\ runner' = "login" /\ aborter' = "watching"
  /\ UNCHANGED outcome

(* Mutant of WaitForPendingJob: it does not wait for the record.           *)
HastyWaitForPendingJob ==
  /\ pc = "wait"
  /\ StartThreads
  /\ UNCHANGED <<status, queue, job, interrupt, tries, aborting, results,
                 processVars, mute, userVars, commits, restarts>>

(* run: a job whose record does not appear in 30 seconds returns nothing,  *)
(* otherwise the threads are started.                                      *)
WaitForPendingJob ==
  /\ pc = "wait"
  /\ IF status[job] # "NONE" THEN StartThreads ELSE
       /\ pc' = "returned" /\ outcome' = NoResult
       /\ UNCHANGED <<runner, aborter>>
  /\ UNCHANGED <<status, queue, job, interrupt, tries, aborting, results,
                 processVars, mute, userVars, commits, restarts>>

-----------------------------------------------------------------------------
(* The runner, _do_run.  What goes wrong before its try block (the record  *)
(* is gone, its user cannot be found) ends the thread without a result.    *)
Login ==
  /\ runner = "login"
  /\ \/ status[job] # "NONE" /\ runner' = "work" /\ UNCHANGED mute
     \/ runner' = "ended" /\ mute' = mute \cup {job}
  /\ tries' = MaxRetries
  /\ UNCHANGED <<status, queue, pc, job, aborter, interrupt, aborting,
                 results, outcome, processVars, userVars, commits, restarts>>

(* Its last words: a result for the main thread and the clean-up, which    *)
(* takes the job from _aborted_tasks.                                      *)
EndRunner(kind) ==
  /\ results' = Append(results, Result(kind))
  /\ runner' = "ended" /\ aborting' = FALSE /\ UNCHANGED mute

(* The clean-up alone.  A runner interrupted before its try block does not *)
(* even that, but then nobody reads what is left in _aborted_tasks: this   *)
(* process does not get the job again.                                     *)
EndMute ==
  /\ runner' = "ended" /\ aborting' = FALSE
  /\ mute' = mute \cup {job} /\ UNCHANGED results

GoOn(to) == runner' = to /\ UNCHANGED <<results, aborting, mute>>

(* The job's own code ends, well, with an error, or by raising what is not *)
(* an Exception, such as SystemExit, which no handler catches.             *)
Work ==
  /\ runner = "work"
  /\ GoOn("check") \/ EndRunner("error") \/ EndMute
  /\ UNCHANGED <<status, queue, pc, job, aborter, interrupt, tries, outcome,
                 processVars, userVars, commits, restarts>>

CheckAborted ==
  /\ runner = "check"
  /\ IF aborting THEN EndRunner("aborted") ELSE GoOn("commit")
  /\ UNCHANGED <<status, queue, pc, job, aborter, interrupt, tries, outcome,
                 processVars, userVars, commits, restarts>>

Commit ==
  /\ runner = "commit"
  /\ commits' = [commits EXCEPT ![job] = @ + 1]
  /\ runner' = "committed"
  /\ UNCHANGED <<status, queue, pc, job, aborter, interrupt, tries, aborting,
                 results, outcome, processVars, mute, userVars, restarts>>

(* Mutant of CommitConflict: transact goes on for ever.                    *)
EndlessCommitConflict ==
  /\ runner \in {"work", "commit"}
  /\ tries' = tries - 1
  /\ GoOn("work")
  /\ UNCHANGED <<status, queue, pc, job, aborter, interrupt, outcome,
                 processVars, userVars, commits, restarts>>

(* Mutant of CommitConflict: a commit whose outcome is unknown is retried. *)
DoubtfulCommitConflict ==
  /\ runner = "commit"
  /\ tries' = tries - 1
  /\ commits' = [commits EXCEPT ![job] = @ + 1]
  /\ IF tries > 1 THEN GoOn("work") ELSE EndRunner("error")
  /\ UNCHANGED <<status, queue, pc, job, aborter, interrupt, outcome,
                 processVars, userVars, restarts>>

(* A conflict, when the job reads or when it commits: transact runs it     *)
(* again, or raises at the last try.  A commit that fails in another way   *)
(* is not tried again.                                                     *)
CommitConflict ==
  /\ runner \in {"work", "commit"}
  /\ tries' = tries - 1
  /\ \/ tries > 1 /\ GoOn("work")
     \/ (tries = 1 \/ runner = "commit") /\ EndRunner("error")
  /\ UNCHANGED <<status, queue, pc, job, aborter, interrupt, outcome,
                 processVars, userVars, commits, restarts>>

Report ==
  /\ runner = "committed"
  /\ results' = Append(results, Result("result"))
  /\ runner' = "reported"
  /\ UNCHANGED <<status, queue, pc, job, aborter, interrupt, tries, aborting,
                 outcome, processVars, mute, userVars, commits, restarts>>

(* Mutant of Finally: the clean-up puts the result once more.              *)
RepeatingFinally ==
  /\ runner = "reported"
  /\ EndRunner("result")
  /\ UNCHANGED <<status, queue, pc, job, aborter, interrupt, tries, outcome,
                 processVars, userVars, commits, restarts>>

Finally ==
  /\ runner = "reported"
  /\ runner' = "ended" /\ aborting' = FALSE
  /\ UNCHANGED <<status, queue, pc, job, aborter, interrupt, tries, results,
                 outcome, processVars, mute, userVars, commits, restarts>>

(* JobAborted is raised in the runner.  The job's own code may swallow it, *)
(* being an ordinary exception; it may hit the handler of an error already *)
(* raised, before the result is put; after the commit, and even after the  *)
(* result, the job still ends as aborted.                                  *)
Interrupted ==
  /\ interrupt /\ interrupt' = FALSE
  /\ \/ runner \in {"work", "ended"} /\ GoOn(runner)
     \/ runner \in {"login", "work", "check", "commit"} /\ EndMute
     \/ /\ runner \in {"work", "check", "commit", "committed", "reported"}
        /\ EndRunner("aborted")
  /\ UNCHANGED <<status, queue, pc, job, aborter, tries, outcome, processVars,
                 userVars, commits, restarts>>

-----------------------------------------------------------------------------
(* The aborter, _check_aborted: a job aborted or gone is first noted in    *)
(* _aborted_tasks, then its runner is interrupted.                         *)
NoteAborted ==
  /\ aborter = "watching" /\ status[job] \in {"ABORTED", "NONE"}
  /\ aborting' = TRUE /\ aborter' = "noted"
  /\ UNCHANGED <<status, queue, pc, job, runner, interrupt, tries, results,
                 outcome, processVars, mute, userVars, commits, restarts>>

InterruptRunner ==
  /\ aborter = "noted"
  /\ interrupt' = (runner # "ended") /\ aborter' = "done"
  /\ UNCHANGED <<status, queue, pc, job, runner, tries, aborting, results,
                 outcome, processVars, mute, userVars, commits, restarts>>

-----------------------------------------------------------------------------
(* Mutant of Collect: the runner is joined once and not waited for.        *)
HastyCollect ==
  /\ pc = "run"
  /\ outcome' = IF results = <<>> THEN NoResult ELSE Head(results)
  /\ results' = IF results = <<>> THEN results ELSE Tail(results)
  /\ pc' = "returned" /\ runner' = "none" /\ aborter' = "none"
  /\ interrupt' = FALSE
  /\ UNCHANGED <<status, queue, job, tries, aborting, processVars, mute,
                 userVars, commits, restarts>>

(* The main thread again.  It joins the runner, takes the first result,    *)
(* or None if there is none, and kills the aborter.                        *)
Collect ==
  /\ pc = "run" /\ runner = "ended"
  /\ outcome' = IF results = <<>> THEN NoResult ELSE Head(results)
  /\ results' = IF results = <<>> THEN results ELSE Tail(results)
  /\ pc' = "returned" /\ runner' = "none" /\ aborter' = "none"
  /\ interrupt' = FALSE
  /\ UNCHANGED <<status, queue, job, tries, aborting, processVars, mute,
                 userVars, commits, restarts>>

(* celery's tracer stores what run() returned or raised.                   *)
StoreOutcome ==
  /\ pc = "returned"
  /\ IF outcome.kind \in {"none", "result"}
     THEN Update("SUCCESS") /\ pc' = "ack"
     ELSE /\ Update("FAILURE")
          /\ pc' = IF outcome.kind = "aborted" THEN "onfailure" ELSE "ack"
  /\ UNCHANGED <<queue, job, runner, aborter, interrupt, tries, aborting,
                 results, outcome, processVars, mute, userVars, commits,
                 restarts>>

on_failure ==
  /\ pc = "onfailure"
  /\ Update("ABORTED")
  /\ pc' = "ack"
  /\ UNCHANGED <<queue, job, runner, aborter, interrupt, tries, aborting,
                 results, outcome, processVars, mute, userVars, commits,
                 restarts>>

(* The process waits for the next job.                                     *)
Rest ==
  /\ pc' = "idle" /\ job' = NoJob /\ runner' = "none" /\ aborter' = "none"
  /\ interrupt' = FALSE /\ tries' = 0
  /\ aborting' = FALSE /\ outcome' = NoResult
  /\ UNCHANGED max_jobs

(* Another process takes its place, with everything new.                   *)
NewProcess == Rest /\ results' = <<>> /\ served' = 0

(* The process lives on, with its class variables, unless it has run as    *)
(* many jobs as it may.                                                    *)
Acknowledge ==
  /\ pc = "ack"
  /\ IF served + 1 = max_jobs THEN NewProcess
     ELSE Rest /\ served' = served + 1 /\ UNCHANGED results
  /\ UNCHANGED <<status, queue, mute, userVars, commits, restarts>>

(* The process dies; celery stores a failure, acknowledges the message and *)
(* starts another process.                                                 *)
WorkerLost ==
  /\ pc # "idle"
  /\ Update("FAILURE")
  /\ NewProcess
  /\ UNCHANGED <<queue, mute, userVars, commits, restarts>>

(* _sigtermhandler interrupts the runner, waits for its end and lets the   *)
(* process die: the daemon is going down.                                  *)
Terminate ==
  /\ pc = "run" /\ restarts < MaxRestarts
  /\ pc' = "terminating"
  /\ interrupt' = (runner # "ended")
  /\ UNCHANGED <<status, queue, job, runner, aborter, tries, aborting,
                 results, outcome, processVars, mute, userVars, commits,
                 restarts>>

(* Mutant of Restart: messages are acknowledged when they are received.    *)
ForgetfulRestart ==
  /\ pc # "idle" /\ restarts < MaxRestarts
  /\ pc = "terminating" => runner = "ended"
  /\ restarts' = restarts + 1
  /\ NewProcess
  /\ UNCHANGED <<status, queue, mute, userVars, commits>>

(* The daemon dies, at once or after its processes, and comes back: the    *)
(* broker delivers again what was not acknowledged.                        *)
Restart ==
  /\ pc # "idle" /\ restarts < MaxRestarts
  /\ pc = "terminating" => runner = "ended"
  /\ queue' = <<job>> \o queue
  /\ restarts' = restarts + 1
  /\ NewProcess
  /\ UNCHANGED <<status, mute, userVars, commits>>

-----------------------------------------------------------------------------
(* JobRecord.abort, by a user: at once, whatever the job is doing.         *)
abort ==
  /\ acts < MaxActs
  /\ \E j \in Job :
       /\ status[j] # "NONE"
       /\ status' = [status EXCEPT ![j] = "ABORTED"]
       /\ touched' = touched \cup {j}
  /\ acts' = acts + 1
  /\ UNCHANGED <<queue, threadVars, processVars, mute, commits, restarts>>

(* JobManager.deleteJob, of a job that is finished or was just aborted.    *)
deleteJob ==
  /\ acts < MaxActs
  /\ \E j \in Job :
       /\ status[j] \in Ready
       /\ status' = [status EXCEPT ![j] = "NONE"]
       /\ touched' = touched \cup {j}
  /\ acts' = acts + 1
  /\ UNCHANGED <<queue, threadVars, processVars, mute, commits, restarts>>

Runner ==
  Login \/ Work \/ CheckAborted \/ Commit \/ CommitConflict \/ Report
  \/ Finally \/ Interrupted
Aborter == NoteAborted \/ InterruptRunner
Main ==
  Receive \/ PrerunCheck \/ PrerunMark \/ WaitForPendingJob \/ Collect
  \/ StoreOutcome \/ on_failure \/ Acknowledge
  \/ (pc = "terminating" /\ Restart)

WorkerNext ==
  Runner \/ Aborter \/ Main \/ WorkerLost \/ Terminate \/ Restart
  \/ abort \/ deleteJob

Next ==
  \/ Client!Next /\ UNCHANGED workerVars
  \/ WorkerNext /\ UNCHANGED clientVars

(* The threads and celery go on as long as they can: the main thread does  *)
(* not wait for ever for a free processor, nor does the job's own code run *)
(* for ever.  Users, clients and what kills a process may do nothing.      *)
Fairness ==
  /\ WF_vars(Main /\ UNCHANGED clientVars)
  /\ WF_vars(Runner /\ UNCHANGED clientVars)
  /\ WF_vars(Aborter /\ UNCHANGED clientVars)

Spec == Init /\ [][Next]_vars /\ Fairness

-----------------------------------------------------------------------------
TypeOK ==
  /\ status \in [Job -> Unready \cup Ready \cup {"NONE"}]
  /\ queue \in Seq(Job) /\ job \in Job \cup {NoJob}
  /\ pc \in {"idle", "prerun", "mark", "wait", "run", "terminating",
             "returned", "onfailure", "ack"}
  /\ runner \in {"none", "login", "work", "check", "commit", "committed",
                 "reported", "ended"}
  /\ aborter \in {"none", "watching", "noted", "done"}
  /\ interrupt \in BOOLEAN /\ aborting \in BOOLEAN
  /\ tries \in 0..MaxRetries
  /\ \A i \in 1..Len(results) :
       results[i].job \in Job /\ results[i].kind \in {"result", "error",
                                                      "aborted"}
  /\ outcome.kind \in {"none", "result", "error", "aborted"}
  /\ commits \in [Job -> Nat] /\ touched \subseteq Job
  /\ recorded \subseteq Job /\ submitted \subseteq Job
  /\ acts \in 0..MaxActs /\ restarts \in 0..MaxRestarts
  /\ max_jobs \in JobsPerWorker /\ served \in 0..(max_jobs - 1)
  /\ mute \subseteq Job

(* A process runs one job, or nobody aborts or deletes any.                *)
Undisturbed == max_jobs = 1 \/ touched = {}

(* A job recorded as a success did its work and committed it: no error,    *)
(* conflict, retry, lost process or second delivery passes for one.  It is *)
(* so for the jobs no user aborted or deleted, and but for a runner that   *)
(* dies without putting anything into the queue (before its try block, or  *)
(* by what is not an Exception): run() takes the empty queue for a job     *)
(* that returned None (_do_run, run).                                      *)
SuccessMeansDone ==
  Undisturbed =>
    \A j \in Job \ touched :
      status[j] = "SUCCESS" => commits[j] > 0 \/ j \in mute

(* The work of a job is committed once, and again at most for every        *)
(* restart that made the broker deliver it again.                          *)
CommitsBounded == \A j \in Job : commits[j] <= 1 + restarts

(* What celery stores for a job was put there by that job's own thread,    *)
(* although the jobs of a process share one _result_queue: the runner puts *)
(* one result at most, on all its ways out, and the main thread takes it   *)
(* before the next job comes.  Only the interrupt of an abort that comes   *)
(* after the result leaves a second one behind, which is the next job's if *)
(* the process runs another (_do_run, run).                                *)
OwnResult == Undisturbed /\ outcome.kind # "none" => outcome.job = job

(* No thread is started for a job whose transaction did not commit, though *)
(* the hook submits it to the broker all the same: without its record it   *)
(* is only waited for.                                                     *)
RunsOnlyCommitted == runner # "none" => job \in recorded

(* Every job handed to the broker is finished in the end, and its record,  *)
(* if there is one, says so: no abort, lost process or restart leaves the  *)
(* worker or the job hanging.                                              *)
JobFinishes ==
  \A j \in Job :
    (j \in {queue[i] : i \in 1..Len(queue)} \/ job = j)
      ~> (job # j /\ status[j] \in Ready \cup {"NONE"})
=============================================================================
