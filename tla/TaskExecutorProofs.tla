------------------------- MODULE TaskExecutorProofs -------------------------
(***************************************************************************)
(* Proofs about TaskExecutor for every set of tasks and limits.            *)
(*                                                                         *)
(* The invariant is proved in three layers.  TypeOK stands alone.          *)
(* TasksDistinct says that a task occurs once in the executor, so that     *)
(* starting the head of the queue adds a new member to inProgress and      *)
(* SlotsExact can follow the counter.  NoLostWakeup needs only the types.  *)
(* That every step is a step of the abstract pool rests on SlotsExact: the *)
(* code compares a counter with the limit, the pool counts its tasks.      *)
(***************************************************************************)
EXTENDS TaskExecutor, FiniteSetTheorems, TLAPS

(* The queue of a step that starts its oldest task.                        *)
LEMMA TailOfQueue ==
  ASSUME NEW q \in Seq(Task), q # <<>>
  PROVE  /\ Head(q) = q[1]
         /\ Head(q) \in Task
         /\ Tail(q) \in Seq(Task)
         /\ Len(q) >= 1
         /\ Len(Tail(q)) = Len(q) - 1
         /\ \A i \in 1..Len(Tail(q)) : Tail(q)[i] = q[i + 1]
  OBVIOUS

(* The queue of a step that submits a task.                                *)
LEMMA AppendToQueue ==
  ASSUME NEW q \in Seq(Task), NEW t \in Task
  PROVE  /\ Append(q, t) \in Seq(Task)
         /\ Len(Append(q, t)) = Len(q) + 1
         /\ \A i \in 1..Len(q) : Append(q, t)[i] = q[i]
         /\ Append(q, t)[Len(q) + 1] = t
  OBVIOUS

(* No task is both queued and in progress, or queued twice.                *)
TasksDistinct ==
  /\ \A i, j \in 1..Len(taskQueue) : taskQueue[i] = taskQueue[j] => i = j
  /\ \A i \in 1..Len(taskQueue) : taskQueue[i] \notin inProgress

(* The counter and the timers stay natural numbers only because a task     *)
(* that finishes has been counted, so the type invariant is proved         *)
(* together with the exactness of the counter.                             *)
Slots == TypeOK /\ SlotsExact /\ TasksDistinct

LEMMA SlotsInit == Init => Slots
<1>1. IsFiniteSet({}) /\ Cardinality({}) = 0
  BY FS_EmptySet
<1> QED
  BY <1>1, LimitsAssumption DEF Init, Slots, TypeOK, SlotsExact, TasksDistinct

LEMMA SlotsSubmit ==
  ASSUME Slots, NEW t \in Task, submit(t)
  PROVE  Slots'
<1> USE DEF Slots
<1>1. TypeOK'
  BY DEF TypeOK, submit
<1>2. SlotsExact'
  BY DEF SlotsExact, submit
<1>3. TasksDistinct'
  <2>1. /\ taskQueue' = Append(taskQueue, t)
        /\ Len(taskQueue') = Len(taskQueue) + 1
        /\ \A i \in 1..Len(taskQueue) : taskQueue'[i] = taskQueue[i]
        /\ taskQueue'[Len(taskQueue) + 1] = t
    BY AppendToQueue DEF TypeOK, submit
  <2>2. \A i \in 1..Len(taskQueue) : taskQueue[i] # t
    BY DEF submit, IsQueued
  <2>3. t \notin inProgress /\ inProgress' = inProgress
    BY DEF submit
  <2>4. Len(taskQueue) \in Nat
    BY DEF TypeOK
  <2> QED
    BY <2>1, <2>2, <2>3, <2>4 DEF TasksDistinct
<1> QED
  BY <1>1, <1>2, <1>3

LEMMA SlotsRunTaskAsync ==
  ASSUME Slots, RunTaskAsync
  PROVE  Slots'
<1> USE DEF Slots
<1> DEFINE q == taskQueue
<1>1. /\ q \in Seq(Task) /\ q # <<>>
      /\ taskQueue' = Tail(q)
      /\ inProgress' = inProgress \cup {Head(q)}
      /\ running' = running + 1
  BY DEF RunTaskAsync, CanRun, TypeOK
<1>2. /\ Head(q) = q[1] /\ Head(q) \in Task
      /\ Tail(q) \in Seq(Task)
      /\ Len(q) >= 1 /\ Len(Tail(q)) = Len(q) - 1
      /\ \A i \in 1..Len(Tail(q)) : Tail(q)[i] = q[i + 1]
  BY <1>1, TailOfQueue
<1>3. Len(q) \in Nat
  BY <1>1
<1>4. TypeOK'
  BY <1>1, <1>2 DEF TypeOK, RunTaskAsync
<1>5. Head(q) \notin inProgress
  BY <1>2, <1>3 DEF TasksDistinct
<1>6. SlotsExact'
  BY <1>1, <1>5, FS_AddElement DEF SlotsExact
<1>7. TasksDistinct'
  BY <1>1, <1>2, <1>3 DEF TasksDistinct
<1> QED
  BY <1>4, <1>6, <1>7

LEMMA SlotsRunTaskSync ==
  ASSUME Slots, RunTaskSync
  PROVE  Slots'
<1> USE DEF Slots
<1> DEFINE q == taskQueue
<1>1. /\ q \in Seq(Task) /\ q # <<>>
      /\ taskQueue' = Tail(q)
      /\ inProgress' = inProgress
      /\ running' = running
  BY DEF RunTaskSync, CanRun, TypeOK
<1>2. /\ Tail(q) \in Seq(Task)
      /\ Len(q) >= 1 /\ Len(Tail(q)) = Len(q) - 1
      /\ \A i \in 1..Len(Tail(q)) : Tail(q)[i] = q[i + 1]
  BY <1>1, TailOfQueue
<1>3. Len(q) \in Nat
  BY <1>1
<1>4. TypeOK'
  BY <1>1, <1>2 DEF TypeOK, RunTaskSync
<1>5. SlotsExact'
  BY <1>1 DEF SlotsExact
<1>6. TasksDistinct'
  BY <1>1, <1>2, <1>3 DEF TasksDistinct
<1> QED
  BY <1>4, <1>5, <1>6

LEMMA SlotsTaskFinished ==
  ASSUME Slots, NEW t \in Task, taskFinished(t)
  PROVE  Slots'
<1> USE DEF Slots
<1>1. /\ t \in inProgress
      /\ inProgress' = inProgress \ {t}
      /\ running' = running - 1
      /\ taskQueue' = taskQueue
  BY DEF taskFinished
<1>2. /\ IsFiniteSet(inProgress \ {t})
      /\ Cardinality(inProgress \ {t}) = Cardinality(inProgress) - 1
  BY <1>1, FS_RemoveElement DEF SlotsExact
<1>3. SlotsExact'
  BY <1>1, <1>2 DEF SlotsExact
<1>4. running' \in Nat
  BY <1>1, <1>2, FS_CardinalityType DEF SlotsExact
<1>5. TypeOK'
  BY <1>1, <1>4 DEF TypeOK, taskFinished
<1>6. TasksDistinct'
  BY <1>1 DEF TasksDistinct
<1> QED
  BY <1>3, <1>5, <1>6

LEMMA SlotsNext == Slots /\ [Next]_vars => Slots'
<1> SUFFICES ASSUME Slots, [Next]_vars
             PROVE  Slots'
  OBVIOUS
<1>1. CASE setMax
  BY <1>1 DEF setMax, Slots, TypeOK, SlotsExact, TasksDistinct
<1>2. CASE RunTaskAsync
  BY <1>2, SlotsRunTaskAsync
<1>3. CASE RunTaskSync
  BY <1>3, SlotsRunTaskSync
<1>4. CASE RunNothing
  BY <1>4 DEF RunNothing, Slots, TypeOK, SlotsExact, TasksDistinct
<1>5. ASSUME NEW t \in Task, submit(t)
      PROVE  Slots'
  BY <1>5, SlotsSubmit
<1>6. ASSUME NEW t \in Task, taskFinished(t)
      PROVE  Slots'
  BY <1>6, SlotsTaskFinished
<1>7. CASE UNCHANGED vars
  BY <1>7 DEF vars, Slots, TypeOK, SlotsExact, TasksDistinct
<1> QED
  BY <1>1, <1>2, <1>3, <1>4, <1>5, <1>6, <1>7 DEF Next, runTask

LEMMA SlotsAlways == Spec => []Slots
<1> QED
  BY SlotsInit, SlotsNext, PTL DEF Spec

-----------------------------------------------------------------------------
(* Every variable keeps its type: in particular _running never goes        *)
(* negative, whatever the order of starts, ends and limit changes.         *)
THEOREM TypeCorrect == Spec => []TypeOK
<1>1. Slots => TypeOK
  BY DEF Slots
<1> QED
  BY <1>1, SlotsAlways, PTL

(* The counter compared with the limit is the number of tasks in progress. *)
THEOREM SlotsCorrect == Spec => []SlotsExact
<1>1. Slots => SlotsExact
  BY DEF Slots
<1> QED
  BY <1>1, SlotsAlways, PTL

LEMMA WakeupNext == TypeOK /\ NoLostWakeup /\ [Next]_vars => NoLostWakeup'
<1> SUFFICES ASSUME TypeOK, NoLostWakeup, [Next]_vars
             PROVE  NoLostWakeup'
  OBVIOUS
<1> USE DEF NoLostWakeup, CanRun, TypeOK
<1>1. CASE setMax
  BY <1>1 DEF setMax
<1>2. CASE RunTaskAsync
  BY <1>2 DEF RunTaskAsync
<1>3. CASE RunTaskSync
  BY <1>3 DEF RunTaskSync
<1>4. CASE RunNothing
  BY <1>4 DEF RunNothing
<1>5. ASSUME NEW t \in Task, submit(t)
      PROVE  NoLostWakeup'
  BY <1>5 DEF submit
<1>6. ASSUME NEW t \in Task, taskFinished(t)
      PROVE  NoLostWakeup'
  BY <1>6 DEF taskFinished
<1>7. CASE UNCHANGED vars
  BY <1>7 DEF vars
<1> QED
  BY <1>1, <1>2, <1>3, <1>4, <1>5, <1>6, <1>7 DEF Next, runTask

(* No wake-up is lost: whenever a queued task could start, a _runTask call *)
(* is pending.                                                             *)
THEOREM WakeupCorrect == Spec => []NoLostWakeup
<1>1. Init => NoLostWakeup
  BY DEF Init, NoLostWakeup, CanRun
<1> QED
  BY <1>1, WakeupNext, TypeCorrect, PTL DEF Spec

-----------------------------------------------------------------------------
(* The pool's module brings its own copy of Cardinality.                   *)
LEMMA PoolCardinality ==
  ASSUME NEW S
  PROVE  Pool!Cardinality(S) = Cardinality(S)
BY Zenon DEF Cardinality, Pool!Cardinality

LEMMA StepImplementsPool ==
  SlotsExact /\ [Next]_vars => [Pool!Next]_(Pool!poolVars)
<1> SUFFICES ASSUME SlotsExact, [Next]_vars
             PROVE  [Pool!Next]_(Pool!poolVars)
  OBVIOUS
<1>1. CASE setMax
  BY <1>1 DEF setMax, Pool!Next, Pool!SetLimit
<1>2. CASE RunTaskAsync
  <2>1. Pool!Start
    BY <1>2, PoolCardinality
       DEF RunTaskAsync, CanRun, Pool!Start, Pool!BelowLimit, SlotsExact
  <2> QED
    BY <2>1 DEF Pool!Next
<1>3. CASE RunTaskSync
  <2>1. Pool!Pass
    BY <1>3, PoolCardinality
       DEF RunTaskSync, CanRun, Pool!Pass, Pool!BelowLimit, SlotsExact
  <2> QED
    BY <2>1 DEF Pool!Next
<1>4. CASE RunNothing
  BY <1>4 DEF RunNothing, Pool!poolVars
<1>5. ASSUME NEW t \in Task, submit(t)
      PROVE  Pool!Next
  <2>1. Pool!Submit(t)
    BY <1>5 DEF submit, Pool!Submit
  <2> QED
    BY <2>1 DEF Pool!Next
<1>6. ASSUME NEW t \in Task, taskFinished(t)
      PROVE  Pool!Next
  <2>1. Pool!Finish(t)
    BY <1>6 DEF taskFinished, Pool!Finish
  <2> QED
    BY <2>1 DEF Pool!Next
<1>7. CASE UNCHANGED vars
  BY <1>7 DEF vars, Pool!poolVars
<1> QED
  BY <1>1, <1>2, <1>3, <1>4, <1>5, <1>6, <1>7 DEF Next, runTask

(* Every behaviour of the executor is one of the bounded pool: tasks start *)
(* in submission order and never beyond the limit in force.  (That the     *)
(* pool's fairness is met too is checked by TLC as ImplementsPool.)        *)
THEOREM PoolRefinement == Spec => Pool!SafetySpec
<1>1. Init => Pool!Init
  BY DEF Init, Pool!Init
<1> QED
  BY <1>1, StepImplementsPool, SlotsCorrect, PTL DEF Spec, Pool!SafetySpec
=============================================================================
