------------------------- MODULE CollectorScheduler -------------------------
(***************************************************************************)
(* The collector's task scheduler (Products/ZenCollector/scheduler.py):    *)
(* Scheduler, CallableTask, the LoopingCalls between them, and the bounded *)
(* executor they submit to.                                                *)
(*                                                                         *)
(* A member of Task is one task object, built for one version of a         *)
(* configuration and added once; the objects built for later versions of   *)
(* the same configuration have the same name.  All callbacks run on one    *)
(* reactor thread, so an action is one reactor callback.  Replacing a      *)
(* configuration removes the old object while it may be queued or running: *)
(* the object drains through the executor, is cleaned up by a periodic     *)
(* sweep, and the replacement's first run waits for that.                  *)
(*                                                                         *)
(* Left out: run statistics, and interval changes made by a running task.  *)
(* States of a task's own (CONNECTING, FETCH_DATA...) act as RUNNING.      *)
(***************************************************************************)
EXTENDS Naturals, Sequences, FiniteSets

CONSTANTS
  Task,       \* task objects
  Name,       \* task names
  Config,     \* configuration (device) ids
  NameOf,     \* the name of a task
  ConfigOf,   \* the configuration a task name belongs to
  IntervalOf, \* task.interval, in seconds
  MaxTasks,   \* options.maxTasks
  NoTask

ASSUME NameOfAssumption == NameOf \in [Task -> Name]
ASSUME ConfigOfAssumption == ConfigOf \in [Name -> Config]
ASSUME IntervalOfAssumption == IntervalOf \in [Task -> Nat \ {0}]
ASSUME MaxTasksAssumption == MaxTasks \in Nat \ {0}
ASSUME NoTaskAssumption == NoTask \notin Task

VARIABLES
  registered, \* _tasks and _loopingCalls: the task object under each name
  state,      \* task.state
  paused,     \* CallableTask.paused
  loop,       \* the interval of the task's LoopingCall, 0 while not running
  startTimers,\* tasks whose addTask left a pending _startTask call
  toCleanup,  \* _tasksToCleanup
  maxTasks,   \* the executor: its limit
  waiting,    \* the executor: tasks submitted and not started
  active,     \* the executor: tasks whose doTask has not finished
  phase,      \* the reactor's shutdown phase; after "after" nothing runs
  waitFor,    \* the cleanups the triggers "before" are waited for
  cleanups    \* history: calls of task.cleanup, 2 standing for several

execVars == <<maxTasks, waiting, active>>
shutdownVars == <<phase, waitFor>>
vars == <<registered, state, paused, loop, startTimers, toCleanup,
          maxTasks, waiting, active, phase, waitFor, cleanups>>

States == {"NEW", "IDLE", "QUEUED", "RUNNING", "PAUSED", "COMPLETED",
           "CLEANING", "SHUTDOWN"}
Phases == {"up", "before", "after"}

Executor == INSTANCE TaskPool WITH Limits <- {1, MaxTasks},
                                   limit <- maxTasks, Unlimited <- NoTask

Cfg(t) == ConfigOf[NameOf[t]]
IsRegistered(t) == registered[NameOf[t]] = t
OfConfig(c) == {t \in Task : IsRegistered(t) /\ Cfg(t) = c}
IsQueued(t) == \E i \in 1..Len(waiting) : waiting[i] = t
Cleaning == {t \in toCleanup : state[t] \in {"CLEANING", "SHUTDOWN"}}
Reactor == phase # "after"

Init ==
  /\ registered = [n \in Name |-> NoTask]
  /\ state = [t \in Task |-> "NEW"]
  /\ paused = [t \in Task |-> FALSE]
  /\ loop = [t \in Task |-> 0]
  /\ startTimers = {}
  /\ toCleanup = {}
  /\ Executor!Init /\ maxTasks = 1
  /\ phase = "up"
  /\ waitFor = {}
  /\ cleanups = [t \in Task |-> 0]

-----------------------------------------------------------------------------
(* Tasks come and go.                                                      *)

(* The daemon adds a new object under a free name (a name in use raises    *)
(* ValueError and changes nothing).                                        *)
addTask(t) ==
  /\ Reactor
  /\ state[t] = "NEW"
  /\ registered[NameOf[t]] = NoTask
  /\ registered' = [registered EXCEPT ![NameOf[t]] = t]
  /\ state' = [state EXCEPT ![t] = "IDLE"]
  /\ startTimers' = startTimers \cup {t}
  /\ UNCHANGED <<paused, loop, toCleanup, execVars, shutdownVars, cleanups>>

(* Mutant of Unregister: the names are freed without sending the objects   *)
(* to be cleaned up.                                                       *)
ForgetfulUnregister(doomed) ==
  /\ registered' = [n \in Name |-> IF registered[n] \in doomed THEN NoTask
                                   ELSE registered[n]]
  /\ loop' = [t \in Task |-> IF t \in doomed THEN 0 ELSE loop[t]]
  /\ UNCHANGED toCleanup

(* What removal by configuration, by completion and by shutdown share: the *)
(* looping calls stop, the names are free, the objects await cleaning.     *)
Unregister(doomed) ==
  /\ registered' = [n \in Name |-> IF registered[n] \in doomed THEN NoTask
                                   ELSE registered[n]]
  /\ loop' = [t \in Task |-> IF t \in doomed THEN 0 ELSE loop[t]]
  /\ toCleanup' = toCleanup \cup doomed

removeTasksForConfig(c) ==
  /\ Reactor
  /\ Unregister(OfConfig(c))
  /\ UNCHANGED <<state, paused, startTimers, execVars, shutdownVars, cleanups>>

(* The daemon raises the limit when its options are known.                 *)
setMaxTasks ==
  /\ Reactor
  /\ maxTasks' = MaxTasks
  /\ Executor!SetLimit
  /\ UNCHANGED <<registered, state, paused, loop, startTimers, toCleanup,
                 shutdownVars, cleanups>>

pauseTasksForConfig(c) ==
  /\ Reactor
  /\ paused' = [t \in Task |-> paused[t] \/ t \in OfConfig(c)]
  /\ UNCHANGED <<registered, state, loop, startTimers, toCleanup, execVars,
                 shutdownVars, cleanups>>

resumeTasksForConfig(c) ==
  /\ Reactor
  /\ paused' = [t \in Task |-> paused[t] /\ t \notin OfConfig(c)]
  /\ UNCHANGED <<registered, state, loop, startTimers, toCleanup, execVars,
                 shutdownVars, cleanups>>

-----------------------------------------------------------------------------
(* Periodic runs.                                                          *)

(* CallableTask.__call__: a task found idle is submitted, or marked PAUSED *)
(* if its configuration is paused; a task found in any other state is late *)
(* and misses this run.  A PAUSED task is idle again once not paused.      *)
Ready(t) == state[t] = "IDLE" \/ (state[t] = "PAUSED" /\ ~paused[t])

(* Mutant of call: a late task is submitted again.                         *)
EagerCall(t) ==
  \/ /\ ~paused[t]
     /\ state' = [state EXCEPT ![t] = "QUEUED"]
     /\ Executor!Submit(t)
  \/ /\ Ready(t)
     /\ paused[t]
     /\ state' = [state EXCEPT ![t] = "PAUSED"]
     /\ UNCHANGED execVars

(* Mutant of call: a PAUSED task stays so after it is resumed.             *)
StuckCall(t) ==
  \/ /\ state[t] = "IDLE"
     /\ ~paused[t]
     /\ state' = [state EXCEPT ![t] = "QUEUED"]
     /\ Executor!Submit(t)
  \/ /\ state[t] = "IDLE"
     /\ paused[t]
     /\ state' = [state EXCEPT ![t] = "PAUSED"]
     /\ UNCHANGED execVars
  \/ /\ state[t] # "IDLE"
     /\ UNCHANGED <<state, execVars>>

call(t) ==
  \/ /\ Ready(t)
     /\ ~paused[t]
     /\ state' = [state EXCEPT ![t] = "QUEUED"]
     /\ Executor!Submit(t)
  \/ /\ Ready(t)
     /\ paused[t]
     /\ state' = [state EXCEPT ![t] = "PAUSED"]
     /\ UNCHANGED execVars
  \/ /\ ~Ready(t)
     /\ UNCHANGED <<state, execVars>>

CleanupPending(c) == \E t \in toCleanup : Cfg(t) = c

(* Mutant of startTask: the replacement does not wait for the cleanup.     *)
ImpatientStartTask(t) ==
  LET u == registered[NameOf[t]] IN
  /\ Reactor
  /\ t \in startTimers
  /\ startTimers' = startTimers \ {t}
  /\ IF u = NoTask \/ (u # NoTask /\ loop[u] # 0)
     THEN UNCHANGED <<loop, state, execVars>>
     ELSE loop' = [loop EXCEPT ![u] = IntervalOf[t]] /\ call(u)
  /\ UNCHANGED <<registered, paused, toCleanup, shutdownVars, cleanups>>

(* Mutant of startTask: no new timer is set while a cleanup is pending.    *)
GivenUpStartTask(t) ==
  LET u == registered[NameOf[t]] IN
  /\ Reactor
  /\ t \in startTimers
  /\ startTimers' = startTimers \ {t}
  /\ IF u = NoTask \/ CleanupPending(Cfg(t)) \/ (u # NoTask /\ loop[u] # 0)
     THEN UNCHANGED <<loop, state, execVars>>
     ELSE loop' = [loop EXCEPT ![u] = IntervalOf[t]] /\ call(u)
  /\ UNCHANGED <<registered, paused, toCleanup, shutdownVars, cleanups>>

(* The _startTask call made by addTask(t) fires.  It carries the name, the *)
(* configuration and the interval of t, and starts the LoopingCall that it *)
(* finds under that name then; start runs the task at once.  While objects *)
(* of the configuration await cleaning it sets itself again instead.       *)
startTask(t) ==
  LET u == registered[NameOf[t]] IN
  /\ Reactor
  /\ t \in startTimers
  /\ \/ /\ \/ u = NoTask
           \/ u # NoTask /\ loop[u] # 0
        /\ startTimers' = startTimers \ {t}
        /\ UNCHANGED <<loop, state, execVars>>
     \/ /\ u # NoTask /\ loop[u] = 0
        /\ CleanupPending(Cfg(t))
        /\ UNCHANGED <<startTimers, loop, state, execVars>>
     \/ /\ u # NoTask /\ loop[u] = 0
        /\ ~CleanupPending(Cfg(t))
        /\ startTimers' = startTimers \ {t}
        /\ loop' = [loop EXCEPT ![u] = IntervalOf[t]]
        /\ call(u)
  /\ UNCHANGED <<registered, paused, toCleanup, shutdownVars, cleanups>>

(* The LoopingCall of t fires again.                                       *)
Tick(t) ==
  /\ Reactor
  /\ loop[t] # 0
  /\ call(t)
  /\ UNCHANGED <<registered, paused, loop, startTimers, toCleanup,
                 shutdownVars, cleanups>>

-----------------------------------------------------------------------------
(* One run.                                                                *)

(* _finished: a task is idle again unless it declared itself COMPLETED,    *)
(* which takes every task registered for its configuration away.           *)
Finished(t, completed) ==
  /\ state' = [state EXCEPT ![t] = IF completed THEN "COMPLETED" ELSE "IDLE"]
  /\ Unregister(IF completed THEN OfConfig(Cfg(t)) ELSE {})

(* The executor runs _doCall and doTask returns a pending deferred.        *)
RunTask ==
  /\ Reactor
  /\ Executor!Start
  /\ state' = [state EXCEPT ![Head(waiting)] = "RUNNING"]
  /\ UNCHANGED <<registered, paused, loop, startTimers, toCleanup,
                 shutdownVars, cleanups>>

(* The executor runs _doCall and doTask returns at once.                   *)
RunTaskThrough(completed) ==
  /\ Reactor
  /\ Executor!Pass
  /\ Finished(Head(waiting), completed)
  /\ UNCHANGED <<paused, startTimers, shutdownVars, cleanups>>

(* doTask's deferred fires, with a result or a failure.                    *)
TaskFinished(t, completed) ==
  /\ Reactor
  /\ Executor!Finish(t)
  /\ Finished(t, completed)
  /\ UNCHANGED <<paused, startTimers, shutdownVars, cleanups>>

-----------------------------------------------------------------------------
(* Cleaning up and shutting down.                                          *)

(* Mutant of Cleanable: a task may be cleaned while it waits to run.       *)
HastyCleanable(t) == state[t] \in {"IDLE", "PAUSED", "COMPLETED", "QUEUED"}

(* Mutant of Cleanable: completed tasks are not thought of.                *)
NarrowCleanable(t) == state[t] \in {"IDLE", "PAUSED"}

Cleanable(t) == state[t] \in {"IDLE", "PAUSED", "COMPLETED"}

(* cleanup is called on every task of dirty that is out of the executor;   *)
(* those in done finish at once, the rest return a deferred.               *)
Sweep(dirty, mark, done) ==
  LET todo == {t \in dirty : Cleanable(t)} IN
  /\ done \subseteq todo
  /\ state' = [t \in Task |-> IF t \in todo THEN mark ELSE state[t]]
  /\ cleanups' = [t \in Task |-> IF t \in todo /\ cleanups[t] < 2
                                 THEN cleanups[t] + 1 ELSE cleanups[t]]

(* The sweep made every CLEANUP_TASKS_INTERVAL seconds.                    *)
cleanupTasks(done) ==
  /\ Reactor
  /\ Sweep(toCleanup, IF phase = "up" THEN "CLEANING" ELSE "SHUTDOWN", done)
  /\ toCleanup' = toCleanup \ done
  /\ UNCHANGED <<registered, paused, loop, startTimers, execVars,
                 shutdownVars>>

(* Mutant of cleanupTaskComplete: the shutdown is not told.                *)
UntoldCleanupTaskComplete(t) ==
  /\ Reactor
  /\ t \in Cleaning
  /\ toCleanup' = toCleanup \ {t}
  /\ UNCHANGED <<registered, state, paused, loop, startTimers, execVars,
                 shutdownVars, cleanups>>

(* The deferred of a cleanup fires.                                        *)
cleanupTaskComplete(t) ==
  /\ Reactor
  /\ t \in Cleaning
  /\ toCleanup' = toCleanup \ {t}
  /\ waitFor' = waitFor \ {t}
  /\ UNCHANGED <<registered, state, paused, loop, startTimers, execVars,
                 phase, cleanups>>

(* The first trigger removes every task (none has a stopPhase of its own,  *)
(* so all belong to "before") and cleans those that are not at work.       *)
shutdownBefore(done) ==
  LET doomed == {t \in Task : IsRegistered(t)}
      dirty == toCleanup \cup doomed
  IN
  /\ phase = "up"
  /\ phase' = "before"
  /\ registered' = [n \in Name |-> NoTask]
  /\ loop' = [t \in Task |-> IF t \in doomed THEN 0 ELSE loop[t]]
  /\ Sweep(dirty, "SHUTDOWN", done)
  /\ toCleanup' = dirty \ done
  /\ waitFor' = {t \in dirty \ done : Cleanable(t)}
  /\ UNCHANGED <<paused, startTimers, execVars>>

(* Once those cleanups have finished the reactor runs the triggers "during" *)
(* and "after" in one go and stops: it awaits the deferreds of neither, and *)
(* the second finds nothing to clean that the first left.                  *)
shutdownLater(done) ==
  /\ phase = "before"
  /\ waitFor = {}
  /\ phase' = "after"
  /\ Sweep(toCleanup, "SHUTDOWN", done)
  /\ toCleanup' = toCleanup \ done
  /\ UNCHANGED <<registered, paused, loop, startTimers, execVars, waitFor>>

shutdown(done) == shutdownBefore(done) \/ shutdownLater(done)

Next ==
  \/ \E t \in Task : addTask(t) \/ startTask(t) \/ Tick(t)
  \/ \E c \in Config : \/ removeTasksForConfig(c)
                       \/ pauseTasksForConfig(c)
                       \/ resumeTasksForConfig(c)
  \/ setMaxTasks
  \/ RunTask
  \/ \E completed \in BOOLEAN : \/ RunTaskThrough(completed)
                                \/ \E t \in Task : TaskFinished(t, completed)
  \/ \E done \in SUBSET Task : cleanupTasks(done) \/ shutdown(done)
  \/ \E t \in Task : cleanupTaskComplete(t)

(* Timers fire, the executor starts what it may (TaskExecutor implements   *)
(* TaskPool), and the deferreds of doTask and cleanup fire in the end: the *)
(* protocols a task speaks time out.  Nothing obliges the daemon to add,   *)
(* remove, pause or resume anything.                                       *)
Fairness ==
  /\ \A t \in Task : WF_vars(startTask(t)) /\ WF_vars(Tick(t))
  /\ WF_vars(RunTask \/ \E completed \in BOOLEAN : RunTaskThrough(completed))
  /\ \A t \in Task : WF_vars(\E completed \in BOOLEAN : TaskFinished(t, completed))
  /\ WF_vars(\E done \in SUBSET Task : cleanupTasks(done))
  /\ \A t \in Task : WF_vars(cleanupTaskComplete(t))

Spec == Init /\ [][Next]_vars /\ Fairness

-----------------------------------------------------------------------------
(* Every variable has its type.                                            *)
TypeOK ==
  /\ registered \in [Name -> Task \cup {NoTask}]
  /\ state \in [Task -> States]
  /\ paused \in [Task -> BOOLEAN]
  /\ loop \in [Task -> Nat]
  /\ startTimers \subseteq Task
  /\ toCleanup \subseteq Task
  /\ maxTasks \in {1, MaxTasks}
  /\ waiting \in Seq(Task)
  /\ active \subseteq Task
  /\ phase \in Phases
  /\ waitFor \subseteq Cleaning
  /\ cleanups \in [Task -> 0..2]

(* A task object is in the executor at most once, whatever its looping     *)
(* call does meanwhile, and its state says where it is: the state is the   *)
(* only thing that keeps __call__ and the sweep away from a task at work.  *)
ExecutorStateAgrees ==
  /\ \A i, j \in 1..Len(waiting) : waiting[i] = waiting[j] => i = j
  /\ \A t \in Task : /\ IsQueued(t) <=> state[t] = "QUEUED"
                     /\ t \in active <=> state[t] = "RUNNING"

InExecutor(t) == IsQueued(t) \/ t \in active

(* Two versions of a task never overlap: a registered task is not          *)
(* submitted while an object of its configuration that was removed is      *)
(* still queued, running, or not cleaned up yet, and of the objects of one *)
(* name at most one is in the executor, registered or not.                 *)
NoOverlap ==
  \A t \in Task :
    InExecutor(t) =>
      /\ IsRegistered(t) => ~CleanupPending(Cfg(t))
      /\ \A u \in Task \ {t} : InExecutor(u) => NameOf[u] # NameOf[t]

(* cleanup is the last call a task object gets, and it gets it once: a     *)
(* task that was cleaned is not registered, not looping, not in the        *)
(* executor, and is not cleaned again.                                     *)
CleanupIsFinal ==
  \A t \in Task :
    cleanups[t] > 0 =>
      /\ cleanups[t] = 1
      /\ ~IsRegistered(t) /\ loop[t] = 0
      /\ ~IsQueued(t) /\ t \notin active

(* No task object is lost: one that was added is registered, or awaits its *)
(* cleanup, or has been cleaned up, and never two of these.                *)
TaskConserved ==
  \A t \in Task :
    /\ IsRegistered(t) => t \notin toCleanup
    /\ state[t] # "NEW" => IsRegistered(t) \/ t \in toCleanup \/ cleanups[t] > 0

(* The life of a task object, as the variables and the history tell it; an *)
(* object that none of them knows any more is lost.                        *)
LifeOf(t) ==
  CASE state[t] = "NEW" -> "new"
    [] IsRegistered(t) -> "scheduled"
    [] t \in Cleaning -> "cleaning"
    [] t \in toCleanup \ Cleaning -> "removed"
    [] OTHER -> IF cleanups[t] > 0 THEN "gone" ELSE "lost"

WorkOf(t) == IF IsQueued(t) THEN "queued"
             ELSE IF t \in active THEN "running" ELSE "out"

Life == INSTANCE TaskLife WITH life <- [t \in Task |-> LifeOf(t)],
                               work <- [t \in Task |-> WorkOf(t)]

(* Every task object has the life TaskLife promises, step by step: it is   *)
(* run only while it is scheduled, with no object of its configuration     *)
(* still to be cleaned, and is cleaned once, after its last run, whatever  *)
(* timers, looping calls, sweeps and the phases of a shutdown meet it.     *)
ImplementsTaskLife == Life!Spec

(* An object that was removed is cleaned up in the end, even if it was     *)
(* queued or running when it was removed.                                  *)
EventuallyCleaned ==
  \A t \in Task : t \in toCleanup ~> t \notin toCleanup \/ phase # "up"

(* An added task starts its periodic runs in the end (unless it is removed *)
(* or the daemon shuts down first): waiting for the cleanup of its         *)
(* predecessors, and the timers they left, do not lose it.                 *)
AddedTaskStarts ==
  \A t \in Task :
    IsRegistered(t) ~> loop[t] # 0 \/ ~IsRegistered(t) \/ phase # "up"

(* A task marked PAUSED is submitted again, or removed, once its           *)
(* configuration is resumed and not paused again.                          *)
ResumedTaskRuns ==
  \A t \in Task :
    [](state[t] = "PAUSED" /\ [](~paused[t]) =>
         <>(state[t] # "PAUSED" \/ phase # "up"))

(* The interface documents a task's interval as the frequency at which it  *)
(* is executed; nothing in this model changes an interval.                 *)
LoopUsesTaskInterval ==
  phase = "up" => \A t \in Task : loop[t] # 0 => loop[t] = IntervalOf[t]
=============================================================================
