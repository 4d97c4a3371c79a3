---------------------------- MODULE TaskExecutor ----------------------------
(***************************************************************************)
(* TwistedExecutor (Products/ZenUtils/Executor.py): runs up to _max        *)
(* callables at a time on the reactor.  Nothing starts a task directly:    *)
(* submit, setMax, the end of a task and the start of a task each leave a  *)
(* callLater(0, _runTask) behind, and each such call starts at most one    *)
(* task.  A call that finds nothing to do leaves no successor, so whether  *)
(* the queue drains depends on no timer being forgotten.                   *)
(*                                                                         *)
(* The pending zero-delay calls are all alike, so they are counted.  A     *)
(* task is an ExecutorTask; its identity may be used again once its        *)
(* deferred has fired.                                                     *)
(***************************************************************************)
EXTENDS Naturals, Sequences, FiniteSets

CONSTANTS
  Task,       \* ExecutorTask objects
  Limits,     \* the values setMax is called with, and the constructor's
  Unlimited,  \* None: no limit
  MaxTimers   \* bound: clients wait while this many calls are pending

ASSUME LimitsAssumption == Limits \subseteq (Nat \ {0}) \cup {Unlimited}
ASSUME UnlimitedAssumption == Unlimited \notin Nat
ASSUME MaxTimersAssumption == MaxTimers \in Nat

VARIABLES
  max,        \* _max
  running,    \* _running, a counter
  taskQueue,  \* _taskQueue
  inProgress, \* tasks called whose deferred has not fired
  timers      \* pending reactor.callLater(0, self._runTask)

vars == <<max, running, taskQueue, inProgress, timers>>

IsQueued(t) == \E i \in 1..Len(taskQueue) : taskQueue[i] = t

(* Mutant of CanRun: one task too many.                                    *)
LooseCanRun == taskQueue # <<>> /\ (max # Unlimited => running <= max)

CanRun == taskQueue # <<>> /\ (max # Unlimited => running < max)

Init ==
  /\ max \in Limits
  /\ running = 0
  /\ taskQueue = <<>>
  /\ inProgress = {}
  /\ timers = 0

(* Mutant of setMax: a raised limit wakes nobody.                          *)
SilentSetMax ==
  /\ max' \in Limits
  /\ UNCHANGED <<running, taskQueue, inProgress, timers>>

setMax ==
  /\ timers < MaxTimers
  /\ max' \in Limits
  /\ timers' = timers + 1
  /\ UNCHANGED <<running, taskQueue, inProgress>>

submit(t) ==
  /\ timers < MaxTimers
  /\ ~IsQueued(t)
  /\ t \notin inProgress
  /\ taskQueue' = Append(taskQueue, t)
  /\ timers' = timers + 1
  /\ UNCHANGED <<max, running, inProgress>>

(* Mutant of RunTaskAsync: the slot is not counted.                        *)
UncountedRunTask ==
  /\ timers > 0
  /\ CanRun
  /\ taskQueue' = Tail(taskQueue)
  /\ inProgress' = inProgress \cup {Head(taskQueue)}
  /\ UNCHANGED <<max, running, timers>>

(* The callable returned a deferred that has not fired: the call made by   *)
(* the timer is replaced by the one the start of a task makes.             *)
RunTaskAsync ==
  /\ timers > 0
  /\ CanRun
  /\ running' = running + 1
  /\ taskQueue' = Tail(taskQueue)
  /\ inProgress' = inProgress \cup {Head(taskQueue)}
  /\ UNCHANGED <<max, timers>>

(* The callable returned a value or raised: _taskFinished ran before       *)
(* _runTask made its own call, so two calls replace the one that fired.    *)
RunTaskSync ==
  /\ timers > 0
  /\ CanRun
  /\ taskQueue' = Tail(taskQueue)
  /\ timers' = timers + 1
  /\ UNCHANGED <<max, running, inProgress>>

RunNothing ==
  /\ timers > 0
  /\ ~CanRun
  /\ timers' = timers - 1
  /\ UNCHANGED <<max, running, taskQueue, inProgress>>

runTask == RunTaskAsync \/ RunTaskSync \/ RunNothing

(* Mutant of taskFinished: the slot is given back but nobody is woken.     *)
SilentTaskFinished(t) ==
  /\ t \in inProgress
  /\ inProgress' = inProgress \ {t}
  /\ running' = running - 1
  /\ UNCHANGED <<max, taskQueue, timers>>

(* Mutant of taskFinished: the slot is not given back.                     *)
LeakyTaskFinished(t) ==
  /\ t \in inProgress
  /\ inProgress' = inProgress \ {t}
  /\ timers' = timers + 1
  /\ UNCHANGED <<max, running, taskQueue>>

taskFinished(t) ==
  /\ t \in inProgress
  /\ inProgress' = inProgress \ {t}
  /\ running' = running - 1
  /\ timers' = timers + 1
  /\ UNCHANGED <<max, taskQueue>>

Next ==
  \/ setMax
  \/ runTask
  \/ \E t \in Task : submit(t) \/ taskFinished(t)

(* The reactor runs every zero-delay call in the end, and a submitted task *)
(* is a deferred that fires: clients' calls carry their own timeouts.      *)
Fairness ==
  /\ WF_vars(runTask)
  /\ \A t \in Task : WF_vars(taskFinished(t))

Spec == Init /\ [][Next]_vars /\ Fairness

-----------------------------------------------------------------------------
(* Every variable has its type.                                            *)
TypeOK ==
  /\ max \in Limits
  /\ running \in Nat
  /\ taskQueue \in Seq(Task)
  /\ inProgress \in SUBSET Task
  /\ timers \in Nat

(* The _running counter, which is what the limit is compared with and what *)
(* the daemon reports, is the number of tasks whose deferred is pending.   *)
SlotsExact == IsFiniteSet(inProgress) /\ running = Cardinality(inProgress)

(* No lost wake-up: a task that could start has a pending _runTask call    *)
(* to start it.  A _runTask that finds the limit reached gives up for      *)
(* good, so the end of a task and a raised limit must each make a new one. *)
NoLostWakeup == CanRun => timers > 0

(* The executor implements the abstract pool: the counter and the timers   *)
(* are invisible to its clients.                                           *)
Pool == INSTANCE TaskPool WITH limit <- max, waiting <- taskQueue,
                               active <- inProgress
ImplementsPool == Pool!Spec

(* Every submitted callable is called in the end.                          *)
EveryTaskStarts == \A t \in Task : IsQueued(t) ~> ~IsQueued(t)
=============================================================================
