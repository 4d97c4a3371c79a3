---------------------- MODULE CollectorSchedulerProofs ----------------------
(***************************************************************************)
(* Proofs about CollectorScheduler for every set of tasks, names and       *)
(* configurations.                                                         *)
(*                                                                         *)
(* The properties the runs check are not inductive: that two versions of a *)
(* task do not overlap rests on the looping calls of registered tasks      *)
(* finding no cleanup pending (Loops), that a cleanup is final on the      *)
(* state saying how often a task was cleaned (Counted).  Inv, stated task  *)
(* by task, is.  One lemma for each kind of change the actions make shows  *)
(* that Inv is kept; every action is an instance of one of them.           *)
(*                                                                         *)
(* The refinement of TaskLife rests on Inv: it says which part of its life *)
(* each task is in (Lived, Worked), and, for a looping call, that nothing  *)
(* of the configuration is leaving.                                        *)
(***************************************************************************)
EXTENDS CollectorScheduler, TLAPS

QueuedTasks == {t \in Task : IsQueued(t)}
AtWork == QueuedTasks \cup active
Clean == {"CLEANING", "SHUTDOWN"}

(* No task is queued twice.                                                *)
Distinct == \A i, j \in 1..Len(waiting) : waiting[i] = waiting[j] => i = j

(* The state of a task says where in the executor it is.                   *)
Agree == \A t \in Task : /\ t \in QueuedTasks <=> state[t] = "QUEUED"
                         /\ t \in active <=> state[t] = "RUNNING"

(* An object is registered under its own name.                             *)
Names == \A n \in Name : registered[n] # NoTask => NameOf[registered[n]] = n

(* A task is cleaned when its state says so, once, and no longer           *)
(* registered then.                                                        *)
Counted == \A t \in Task : /\ cleanups[t] = IF state[t] \in Clean THEN 1 ELSE 0
                           /\ IsRegistered(t) => state[t] \notin Clean

(* What was never added is nowhere.                                        *)
Known == \A t \in Task : IsRegistered(t) \/ t \in toCleanup => state[t] # "NEW"

(* Looping calls and runs of a registered task find no cleanup pending.    *)
Loops ==
  \A t \in Task : loop[t] # 0 => IsRegistered(t) /\ ~CleanupPending(Cfg(t))
Fresh ==
  \A t \in Task : t \in AtWork /\ IsRegistered(t) => ~CleanupPending(Cfg(t))

(* No two versions of a task are in the executor.                          *)
Apart ==
  \A t, u \in Task :
    t \in AtWork /\ u \in AtWork /\ NameOf[t] = NameOf[u] => t = u

Placed == Names /\ Counted /\ Known /\ TaskConserved
Separate == Loops /\ Fresh /\ Apart
Inv == TypeOK /\ Distinct /\ Agree /\ Placed /\ Separate

-----------------------------------------------------------------------------
(* The queue.                                                              *)

LEMMA QueueKept ==
  ASSUME waiting' = waiting
  PROVE  QueuedTasks' = QueuedTasks /\ (Distinct => Distinct')
BY DEF QueuedTasks, IsQueued, Distinct

LEMMA QueueGrows ==
  ASSUME waiting \in Seq(Task), NEW t \in Task, waiting' = Append(waiting, t)
  PROVE  /\ waiting' \in Seq(Task)
         /\ QueuedTasks' = QueuedTasks \cup {t}
         /\ Distinct /\ t \notin QueuedTasks => Distinct'
<1>1. /\ waiting' \in Seq(Task)
      /\ Len(waiting') = Len(waiting) + 1
      /\ Len(waiting) \in Nat
      /\ \A i \in 1..Len(waiting) : waiting'[i] = waiting[i]
      /\ waiting'[Len(waiting) + 1] = t
  OBVIOUS
<1>2. ASSUME NEW u \in Task
      PROVE  IsQueued(u)' <=> IsQueued(u) \/ u = t
  <2>1. CASE u = t
    BY <1>1, <2>1 DEF IsQueued
  <2>2. CASE u # t
    BY <1>1, <2>2 DEF IsQueued
  <2> QED
    BY <2>1, <2>2
<1>3. QueuedTasks' = QueuedTasks \cup {t}
  BY <1>2 DEF QueuedTasks
<1>4. ASSUME Distinct, t \notin QueuedTasks
      PROVE  Distinct'
  <2>1. \A i \in 1..Len(waiting) : waiting[i] # t
    BY <1>4 DEF QueuedTasks, IsQueued
  <2> QED
    BY <1>1, <1>4, <2>1 DEF Distinct
<1> QED
  BY <1>1, <1>3, <1>4

LEMMA QueueShrinks ==
  ASSUME waiting \in Seq(Task), waiting # <<>>, waiting' = Tail(waiting),
         Distinct
  PROVE  /\ waiting' \in Seq(Task)
         /\ Head(waiting) \in QueuedTasks
         /\ QueuedTasks' = QueuedTasks \ {Head(waiting)}
         /\ Distinct'
<1>1. /\ waiting' \in Seq(Task)
      /\ Len(waiting) \in Nat /\ Len(waiting) >= 1
      /\ Len(waiting') = Len(waiting) - 1
      /\ Head(waiting) = waiting[1] /\ Head(waiting) \in Task
      /\ \A i \in 1..Len(waiting') : waiting'[i] = waiting[i + 1]
  OBVIOUS
<1>2. Head(waiting) \in QueuedTasks
  BY <1>1 DEF QueuedTasks, IsQueued
<1>3. ASSUME NEW u \in Task
      PROVE  IsQueued(u)' <=> IsQueued(u) /\ u # Head(waiting)
  <2>1. ASSUME IsQueued(u)'
        PROVE  IsQueued(u) /\ u # Head(waiting)
    <3>1. PICK i \in 1..Len(waiting') : waiting'[i] = u
      BY <2>1 DEF IsQueued
    <3>2. i + 1 \in 1..Len(waiting) /\ 1 \in 1..Len(waiting) /\ i + 1 # 1
      BY <1>1, <3>1
    <3>3. waiting[i + 1] = u /\ waiting[1] # u
      BY <1>1, <3>1, <3>2 DEF Distinct
    <3> QED
      BY <1>1, <3>2, <3>3 DEF IsQueued
  <2>2. ASSUME IsQueued(u), u # Head(waiting)
        PROVE  IsQueued(u)'
    <3>1. PICK i \in 1..Len(waiting) : waiting[i] = u
      BY <2>2 DEF IsQueued
    <3>2. i - 1 \in 1..Len(waiting') /\ waiting'[i - 1] = u
      BY <1>1, <2>2, <3>1
    <3> QED
      BY <3>2 DEF IsQueued
  <2> QED
    BY <2>1, <2>2
<1>4. QueuedTasks' = QueuedTasks \ {Head(waiting)}
  BY <1>3 DEF QueuedTasks
<1>5. Distinct'
  BY <1>1 DEF Distinct
<1> QED
  BY <1>1, <1>2, <1>4, <1>5

-----------------------------------------------------------------------------
(* The kinds of change.                                                    *)

(* Nothing the invariant is about changes.                                 *)
LEMMA Quiet ==
  ASSUME Inv, TypeOK',
         UNCHANGED <<registered, state, loop, toCleanup, waiting, active, cleanups>>
  PROVE  Inv'
<1>1. QueuedTasks' = QueuedTasks /\ Distinct'
  BY QueueKept DEF Inv
<1>2. Agree'
  BY <1>1 DEF Inv, Agree
<1>3. Placed'
  BY DEF Inv, Placed, Names, Counted, Known, TaskConserved, IsRegistered
<1>4. Separate'
  BY <1>1 DEF Inv, Separate, Loops, Fresh, Apart, AtWork, IsRegistered,
              CleanupPending, Cfg
<1> QED
  BY <1>1, <1>2, <1>3, <1>4 DEF Inv

(* A new object is registered.                                             *)
LEMMA Added ==
  ASSUME Inv, NEW t \in Task, addTask(t)
  PROVE  Inv'
<1>1. /\ state[t] = "NEW" /\ registered[NameOf[t]] = NoTask
      /\ registered' = [registered EXCEPT ![NameOf[t]] = t]
      /\ state' = [state EXCEPT ![t] = "IDLE"]
      /\ UNCHANGED <<paused, loop, toCleanup, maxTasks, waiting, active,
                     phase, waitFor, cleanups>>
      /\ startTimers' = startTimers \cup {t}
  BY DEF addTask, execVars, shutdownVars
<1>2. QueuedTasks' = QueuedTasks /\ Distinct'
  BY <1>1, QueueKept DEF Inv
<1>3. NameOf[t] \in Name /\ t # NoTask
  BY NameOfAssumption, NoTaskAssumption
<1>4. /\ registered \in [Name -> Task \cup {NoTask}]
      /\ state \in [Task -> States]
  BY DEF Inv, TypeOK
<1>5. \A u \in Task : IsRegistered(u)' <=> IsRegistered(u) \/ u = t
  BY <1>1, <1>3, <1>4, NameOfAssumption, NoTaskAssumption DEF IsRegistered
<1>6. /\ t \notin QueuedTasks /\ t \notin active /\ t \notin toCleanup
      /\ loop[t] = 0 /\ ~IsRegistered(t)
  BY <1>1 DEF Inv, Agree, Placed, Known, Separate, Loops
<1>7. TypeOK'
  <2>1. "IDLE" \in States
    BY DEF States
  <2>2. waitFor' \subseteq Cleaning'
    BY <1>1, <1>6, <1>4 DEF Inv, TypeOK, Cleaning
  <2> QED
    BY <1>1, <1>3, <2>1, <2>2 DEF Inv, TypeOK
<1>8. Agree'
  BY <1>1, <1>2, <1>4, <1>6 DEF Inv, Agree
<1>9. Placed'
  BY <1>1, <1>3, <1>4, <1>5, <1>6
     DEF Inv, Placed, Names, Counted, Clean, Known, TaskConserved
<1>10. Separate'
  BY <1>1, <1>2, <1>4, <1>5, <1>6
     DEF Inv, Separate, Loops, Fresh, Apart, AtWork, CleanupPending, Cfg
<1> QED
  BY <1>2, <1>7, <1>8, <1>9, <1>10 DEF Inv

(* A looping call runs the task: t is registered and no cleanup of its     *)
(* configuration is pending; the looping call may have been started now.   *)
LEMMA Called ==
  ASSUME Inv, NEW t \in Task, IsRegistered(t), ~CleanupPending(Cfg(t)), call(t),
         loop' \in [Task -> Nat],
         \A u \in Task : loop'[u] # 0 => loop[u] # 0 \/ u = t,
         startTimers' \subseteq Task,
         UNCHANGED <<registered, paused, toCleanup, phase, waitFor, cleanups>>
  PROVE  Inv'
<1>1. /\ state \in [Task -> States] /\ waiting \in Seq(Task)
      /\ waitFor \subseteq Cleaning /\ active \subseteq Task
      /\ toCleanup \subseteq Task
  BY DEF Inv, TypeOK
<1>2. /\ \A u \in Task : IsRegistered(u)' <=> IsRegistered(u)
      /\ \A c : CleanupPending(c)' <=> CleanupPending(c)
  BY DEF IsRegistered, CleanupPending, Cfg
<1>3. Loops'
  BY <1>2 DEF Inv, Separate, Loops, Cfg
<1>4. ASSUME Ready(t), ~paused[t], state' = [state EXCEPT ![t] = "QUEUED"],
             Executor!Submit(t)
      PROVE  Inv'
  <2>1. /\ waiting' = Append(waiting, t) /\ UNCHANGED <<maxTasks, active>>
        /\ state[t] \in {"IDLE", "PAUSED"}
    BY <1>4 DEF Executor!Submit, Ready
  <2>2. t \notin QueuedTasks /\ t \notin active
    BY <2>1 DEF Inv, Agree
  <2>3. /\ waiting' \in Seq(Task) /\ Distinct'
        /\ QueuedTasks' = QueuedTasks \cup {t}
    BY <1>1, <2>1, <2>2, QueueGrows DEF Inv
  <2>4. TypeOK'
    <3>1. waitFor' \subseteq Cleaning'
      BY <1>1, <1>4, <2>1 DEF Cleaning
    <3>2. state' \in [Task -> States]
      BY <1>1, <1>4 DEF States
    <3> QED
      BY <2>1, <2>3, <3>1, <3>2 DEF Inv, TypeOK
  <2>5. Agree'
    BY <1>1, <1>4, <2>1, <2>2, <2>3 DEF Inv, Agree
  <2>6. Placed'
    BY <1>1, <1>2, <1>4, <2>1
       DEF Inv, Placed, Names, Counted, Clean, Known, TaskConserved
  <2>7. Fresh'
    BY <1>2, <2>1, <2>3 DEF Inv, Separate, Fresh, AtWork, Cfg
  <2>8. Apart'
    <3>1. ASSUME NEW u \in Task, u \in AtWork, NameOf[u] = NameOf[t], u # t
          PROVE  FALSE
      <4>1. state[u] \in {"QUEUED", "RUNNING"}
        BY <3>1 DEF Inv, Agree, AtWork
      <4>2. ~IsRegistered(u)
        BY <3>1 DEF IsRegistered
      <4>3. cleanups[u] = 0
        BY <4>1 DEF Inv, Placed, Counted, Clean
      <4>4. u \in toCleanup
        BY <4>1, <4>2, <4>3 DEF Inv, Placed, TaskConserved
      <4> QED
        BY <3>1, <4>4 DEF CleanupPending, Cfg
    <3> QED
      BY <2>1, <2>3, <3>1 DEF Inv, Separate, Apart, AtWork
  <2> QED
    BY <1>3, <2>3, <2>4, <2>5, <2>6, <2>7, <2>8 DEF Inv, Separate
<1>5. ASSUME UNCHANGED <<maxTasks, waiting, active>>,
             \/ UNCHANGED state
             \/ Ready(t) /\ state' = [state EXCEPT ![t] = "PAUSED"]
      PROVE  Inv'
  <2>1. QueuedTasks' = QueuedTasks /\ Distinct'
    BY <1>5, QueueKept DEF Inv
  <2>2. TypeOK'
    <3>1. waitFor' \subseteq Cleaning'
      <4>1. \A u \in Cleaning : u \in Task /\ (Ready(t) => u # t)
        BY <1>1 DEF Cleaning, Ready
      <4>2. \A u \in Cleaning : state'[u] = state[u]
        BY <1>1, <1>5, <4>1
      <4> QED
        BY <1>1, <4>2 DEF Cleaning
    <3>2. state' \in [Task -> States]
      BY <1>1, <1>5 DEF States
    <3> QED
      BY <1>5, <3>1, <3>2 DEF Inv, TypeOK
  <2>3. Agree'
    BY <1>1, <1>5, <2>1 DEF Inv, Agree, Ready
  <2>4. Placed'
    BY <1>1, <1>2, <1>5
       DEF Inv, Placed, Names, Counted, Clean, Known, TaskConserved, Ready
  <2>5. Fresh' /\ Apart'
    BY <1>2, <1>5, <2>1 DEF Inv, Separate, Fresh, Apart, AtWork, Cfg
  <2> QED
    BY <1>3, <2>1, <2>2, <2>3, <2>4, <2>5 DEF Inv, Separate
<1> QED
  BY <1>4, <1>5 DEF call, execVars

(* The registered tasks of doomed leave the scheduler, and those that left *)
(* the executor by coming to the end of their run are idle or completed.   *)
Whole(doomed) ==
  /\ \A t \in doomed : t \in Task /\ IsRegistered(t)
  /\ \A t, u \in Task : t \in doomed /\ IsRegistered(u) /\ Cfg(u) = Cfg(t)
                          => u \in doomed

LEMMA WholeConfig ==
  ASSUME NEW c
  PROVE  Whole(OfConfig(c)) /\ Whole({})
BY DEF Whole, OfConfig

LEMMA WholeEverything == Whole({t \in Task : IsRegistered(t)})
BY DEF Whole

(* What becomes of the names and the looping calls.                        *)
LEMMA Freed ==
  ASSUME Inv, NEW doomed \in SUBSET Task, Whole(doomed),
         registered' = [n \in Name |-> IF registered[n] \in doomed THEN NoTask
                                       ELSE registered[n]],
         loop' = [t \in Task |-> IF t \in doomed THEN 0 ELSE loop[t]]
  PROVE  /\ registered' \in [Name -> Task \cup {NoTask}]
         /\ loop' \in [Task -> Nat]
         /\ Names'
         /\ \A t \in Task : IsRegistered(t)' <=> IsRegistered(t) /\ t \notin doomed
         /\ \A t \in Task : loop'[t] # 0 => loop[t] # 0 /\ t \notin doomed
<1>1. registered \in [Name -> Task \cup {NoTask}] /\ loop \in [Task -> Nat]
  BY DEF Inv, TypeOK
<1>2. /\ registered' \in [Name -> Task \cup {NoTask}]
      /\ loop' \in [Task -> Nat]
      /\ \A t \in Task : loop'[t] # 0 => loop[t] # 0 /\ t \notin doomed
  BY <1>1
<1>3. Names'
  BY <1>1 DEF Inv, Placed, Names
<1>4. \A t \in Task : IsRegistered(t)' <=> IsRegistered(t) /\ t \notin doomed
  BY <1>1, NameOfAssumption, NoTaskAssumption DEF IsRegistered
<1> QED
  BY <1>2, <1>3, <1>4

LEMMA LeftAndUnregistered ==
  ASSUME Inv, NEW doomed \in SUBSET Task, Whole(doomed), Unregister(doomed),
         NEW left \in SUBSET AtWork, NEW s \in {"IDLE", "COMPLETED"},
         state' = [t \in Task |-> IF t \in left THEN s ELSE state[t]],
         waiting' \in Seq(Task), Distinct',
         QueuedTasks' = QueuedTasks \ left, active' = active \ left,
         UNCHANGED <<paused, startTimers, maxTasks, phase, waitFor, cleanups>>
  PROVE  Inv'
<1>1. /\ state \in [Task -> States] /\ toCleanup \subseteq Task
      /\ waitFor \subseteq Cleaning /\ active \subseteq Task
      /\ toCleanup' = toCleanup \cup doomed
  BY DEF Inv, TypeOK, Unregister
<1>2. /\ registered' \in [Name -> Task \cup {NoTask}]
      /\ loop' \in [Task -> Nat]
      /\ Names'
      /\ \A t \in Task : IsRegistered(t)' <=> IsRegistered(t) /\ t \notin doomed
      /\ \A t \in Task : loop'[t] # 0 => loop[t] # 0 /\ t \notin doomed
  BY Freed DEF Unregister
<1>3. \A t \in left : t \in Task /\ state[t] \in {"QUEUED", "RUNNING"}
  BY <1>1 DEF Inv, Agree, AtWork, QueuedTasks
<1>4. \A t \in Task : IsRegistered(t)' /\ ~CleanupPending(Cfg(t))
                        => ~CleanupPending(Cfg(t))'
  BY <1>1, <1>2 DEF Whole, CleanupPending, Cfg
<1>5. TypeOK'
  <2>1. waitFor' \subseteq Cleaning'
    BY <1>1, <1>3 DEF Cleaning
  <2>2. state' \in [Task -> States]
    BY <1>1 DEF States
  <2> QED
    BY <1>1, <1>2, <2>1, <2>2 DEF Inv, TypeOK
<1>6. Agree'
  BY <1>3 DEF Inv, Agree, AtWork
<1>7. Counted' /\ Known'
  BY <1>1, <1>2, <1>3 DEF Inv, Placed, Counted, Clean, Known, Whole
<1>8. TaskConserved'
  BY <1>1, <1>2, <1>3, <1>7 DEF Inv, Placed, Known, TaskConserved
<1>9. Loops' /\ Fresh'
  BY <1>2, <1>4 DEF Inv, Separate, Loops, Fresh, AtWork
<1>10. Apart'
  BY DEF Inv, Separate, Apart, AtWork
<1> QED
  BY <1>2, <1>5, <1>6, <1>7, <1>8, <1>9, <1>10 DEF Inv, Placed, Separate

(* The executor starts a task that stays at work.                          *)
LEMMA Started ==
  ASSUME Inv, RunTask
  PROVE  Inv'
<1> DEFINE t == Head(waiting)
<1>1. /\ waiting # <<>> /\ waiting' = Tail(waiting)
      /\ active' = active \cup {t}
      /\ state' = [state EXCEPT ![t] = "RUNNING"]
      /\ UNCHANGED <<registered, paused, loop, startTimers, toCleanup, maxTasks,
                     phase, waitFor, cleanups>>
  BY DEF RunTask, Executor!Start, shutdownVars
<1>2. /\ state \in [Task -> States] /\ waiting \in Seq(Task)
      /\ waitFor \subseteq Cleaning /\ active \subseteq Task
      /\ toCleanup \subseteq Task
  BY DEF Inv, TypeOK
<1>3. /\ waiting' \in Seq(Task) /\ Distinct' /\ t \in QueuedTasks
      /\ QueuedTasks' = QueuedTasks \ {t}
  BY <1>1, <1>2, QueueShrinks DEF Inv
<1>4. t \in Task /\ state[t] = "QUEUED"
  BY <1>3 DEF Inv, Agree, QueuedTasks
<1> HIDE DEF t
<1>5. TypeOK'
  <2>1. waitFor' \subseteq Cleaning'
    BY <1>1, <1>2, <1>4 DEF Cleaning
  <2>2. state' \in [Task -> States]
    BY <1>1, <1>2, <1>4 DEF States
  <2> QED
    BY <1>1, <1>2, <1>3, <1>4, <2>1, <2>2 DEF Inv, TypeOK
<1>6. Agree'
  BY <1>1, <1>2, <1>3, <1>4 DEF Inv, Agree
<1>7. Placed'
  BY <1>1, <1>2, <1>4
     DEF Inv, Placed, Names, Counted, Clean, Known, TaskConserved, IsRegistered
<1>8. AtWork' = AtWork
  BY <1>1, <1>3 DEF AtWork
<1>9. Separate'
  BY <1>1, <1>8
     DEF Inv, Separate, Loops, Fresh, Apart, IsRegistered, CleanupPending, Cfg
<1> QED
  BY <1>3, <1>5, <1>6, <1>7, <1>9 DEF Inv

(* A sweep, with the removals of a shutdown before it.                     *)
LEMMA Swept ==
  ASSUME Inv, NEW doomed \in SUBSET Task, Whole(doomed),
         registered' = [n \in Name |-> IF registered[n] \in doomed THEN NoTask
                                       ELSE registered[n]],
         loop' = [t \in Task |-> IF t \in doomed THEN 0 ELSE loop[t]],
         NEW mark \in Clean, NEW done, Sweep(toCleanup \cup doomed, mark, done),
         toCleanup' = (toCleanup \cup doomed) \ done,
         \/ UNCHANGED waitFor
         \/ waitFor' = {t \in (toCleanup \cup doomed) \ done : Cleanable(t)},
         phase' \in Phases,
         UNCHANGED <<paused, startTimers, maxTasks, waiting, active>>
  PROVE  Inv'
<1> DEFINE dirty == toCleanup \cup doomed
           todo == {t \in dirty : Cleanable(t)}
<1>1. /\ state \in [Task -> States] /\ toCleanup \subseteq Task
      /\ waitFor \subseteq Cleaning /\ dirty \subseteq Task
      /\ cleanups \in [Task -> 0..2]
  BY DEF Inv, TypeOK
<1>2. /\ done \subseteq todo
      /\ state' = [t \in Task |-> IF t \in todo THEN mark ELSE state[t]]
      /\ cleanups' = [t \in Task |-> IF t \in todo /\ cleanups[t] < 2
                                     THEN cleanups[t] + 1 ELSE cleanups[t]]
      /\ toCleanup' = dirty \ done
  BY DEF Sweep
<1>3. /\ registered' \in [Name -> Task \cup {NoTask}]
      /\ loop' \in [Task -> Nat]
      /\ Names'
      /\ \A t \in Task : IsRegistered(t)' <=> IsRegistered(t) /\ t \notin doomed
      /\ \A t \in Task : loop'[t] # 0 => loop[t] # 0 /\ t \notin doomed
  BY Freed
<1>4. /\ QueuedTasks' = QueuedTasks /\ Distinct'
      /\ AtWork' = AtWork
  BY QueueKept DEF Inv, AtWork
<1>5. \A t \in todo : /\ t \in Task
                      /\ state[t] \in {"IDLE", "PAUSED", "COMPLETED"}
                      /\ ~IsRegistered(t)' /\ cleanups[t] = 0
  BY <1>1, <1>3 DEF Cleanable, Inv, Placed, TaskConserved, Counted, Clean
<1>6. TypeOK'
  <2>1. \A t \in Cleaning : t \notin todo
    BY <1>5 DEF Cleaning
  <2>2. waitFor' \subseteq Cleaning'
    BY <1>1, <1>2, <2>1 DEF Cleaning, Clean
  <2>3. state' \in [Task -> States]
    BY <1>1, <1>2 DEF States, Clean
  <2>4. cleanups' \in [Task -> 0..2]
    BY <1>1, <1>2
  <2> QED
    BY <1>1, <1>2, <1>3, <2>2, <2>3, <2>4 DEF Inv, TypeOK
<1>7. Agree'
  BY <1>2, <1>4, <1>5 DEF Inv, Agree, Clean
<1>8. Counted' /\ Known'
  BY <1>1, <1>2, <1>3, <1>5 DEF Inv, Placed, Counted, Clean, Known, Whole
<1>9. TaskConserved'
  BY <1>1, <1>2, <1>3, <1>5 DEF Inv, Placed, Known, TaskConserved, Clean, Counted
<1>10. \A t \in Task : IsRegistered(t)' /\ ~CleanupPending(Cfg(t))
                         => ~CleanupPending(Cfg(t))'
  BY <1>1, <1>2, <1>3 DEF Whole, CleanupPending, Cfg
<1>11. Separate'
  BY <1>3, <1>4, <1>10 DEF Inv, Separate, Loops, Fresh, Apart
<1> QED
  BY <1>3, <1>4, <1>6, <1>7, <1>8, <1>9, <1>11 DEF Inv, Placed

(* The deferred of a cleanup fires.                                        *)
LEMMA Cleaned ==
  ASSUME Inv, NEW t \in Task, cleanupTaskComplete(t)
  PROVE  Inv'
<1>1. /\ t \in Cleaning /\ toCleanup' = toCleanup \ {t}
      /\ waitFor' = waitFor \ {t}
      /\ UNCHANGED <<registered, state, paused, loop, startTimers, maxTasks,
                     waiting, active, phase, cleanups>>
  BY DEF cleanupTaskComplete, execVars
<1>2. QueuedTasks' = QueuedTasks /\ Distinct' /\ AtWork' = AtWork
  BY <1>1, QueueKept DEF Inv, AtWork
<1>3. TypeOK'
  <2>1. waitFor' \subseteq Cleaning'
    BY <1>1 DEF Inv, TypeOK, Cleaning
  <2> QED
    BY <1>1, <2>1 DEF Inv, TypeOK
<1>4. Agree'
  BY <1>1, <1>2 DEF Inv, Agree
<1>5. cleanups[t] > 0
  BY <1>1 DEF Inv, Placed, Counted, Clean, Cleaning
<1>6. Placed'
  BY <1>1, <1>5
     DEF Inv, Placed, Names, Counted, Known, TaskConserved, IsRegistered
<1>7. Separate'
  BY <1>1, <1>2
     DEF Inv, Separate, Loops, Fresh, Apart, IsRegistered, CleanupPending, Cfg
<1> QED
  BY <1>2, <1>3, <1>4, <1>6, <1>7 DEF Inv

-----------------------------------------------------------------------------
(* The actions.                                                            *)

LEMMA InvInit == Init => Inv
<1> SUFFICES ASSUME Init
             PROVE  Inv
  OBVIOUS
<1>1. /\ \A t \in Task : ~IsRegistered(t) /\ ~IsQueued(t)
      /\ waiting = <<>> /\ active = {}
  BY NameOfAssumption, NoTaskAssumption
     DEF Init, Executor!Init, IsRegistered, IsQueued
<1>2. TypeOK
  BY <1>1 DEF Init, TypeOK, States, Phases
<1>3. Distinct /\ Agree
  BY <1>1 DEF Init, Distinct, Agree, QueuedTasks
<1>4. Placed
  BY <1>1 DEF Init, Placed, Names, Counted, Clean, Known, TaskConserved
<1>5. Separate
  BY <1>1 DEF Init, Separate, Loops, Fresh, Apart, AtWork, QueuedTasks
<1> QED
  BY <1>2, <1>3, <1>4, <1>5 DEF Inv

LEMMA InvStartTask ==
  ASSUME Inv, NEW t \in Task, startTask(t)
  PROVE  Inv'
<1> DEFINE u == registered[NameOf[t]]
<1>1. /\ t \in startTimers
      /\ UNCHANGED <<registered, paused, toCleanup, phase, waitFor, cleanups>>
  BY DEF startTask, shutdownVars
<1>2. startTimers \subseteq Task /\ loop \in [Task -> Nat]
  BY DEF Inv, TypeOK
<1>3. ASSUME startTimers' \subseteq Task, UNCHANGED <<loop, state, execVars>>
      PROVE  Inv'
  <2>1. TypeOK'
    BY <1>1, <1>3 DEF Inv, TypeOK, execVars, Cleaning
  <2> QED
    BY <1>1, <1>3, <2>1, Quiet DEF execVars
<1>4. ASSUME u # NoTask, ~CleanupPending(Cfg(t)), startTimers' = startTimers \ {t},
             loop' = [loop EXCEPT ![u] = IntervalOf[t]], call(u)
      PROVE  Inv'
  <2>1. NameOf[t] \in Name /\ u \in Task /\ NameOf[u] = NameOf[t]
    BY <1>4, NameOfAssumption DEF Inv, TypeOK, Placed, Names
  <2>2. IsRegistered(u) /\ ~CleanupPending(Cfg(u))
    BY <1>4, <2>1 DEF IsRegistered, Cfg
  <2>3. loop' \in [Task -> Nat]
    BY <1>2, <1>4, <2>1, IntervalOfAssumption
  <2>4. \A v \in Task : loop'[v] # 0 => loop[v] # 0 \/ v = u
    BY <1>2, <1>4, <2>1
  <2> HIDE DEF u
  <2> QED
    BY <1>1, <1>2, <1>4, <2>1, <2>2, <2>3, <2>4, Called
<1> QED
  BY <1>2, <1>3, <1>4 DEF startTask

LEMMA InvTick ==
  ASSUME Inv, NEW t \in Task, Tick(t)
  PROVE  Inv'
<1>1. /\ loop[t] # 0 /\ call(t)
      /\ UNCHANGED <<registered, paused, loop, startTimers, toCleanup, phase,
                     waitFor, cleanups>>
  BY DEF Tick, shutdownVars
<1>2. IsRegistered(t) /\ ~CleanupPending(Cfg(t))
  BY <1>1 DEF Inv, Separate, Loops
<1>3. loop' \in [Task -> Nat] /\ startTimers' \subseteq Task
  BY <1>1 DEF Inv, TypeOK
<1> QED
  BY <1>1, <1>2, <1>3, Called

LEMMA InvRemoveTasksForConfig ==
  ASSUME Inv, NEW c, removeTasksForConfig(c)
  PROVE  Inv'
<1>1. /\ Unregister(OfConfig(c)) /\ OfConfig(c) \in SUBSET Task
      /\ UNCHANGED <<state, paused, startTimers, maxTasks, waiting, active,
                     phase, waitFor, cleanups>>
  BY DEF removeTasksForConfig, execVars, shutdownVars, OfConfig
<1>2. /\ QueuedTasks' = QueuedTasks \ {} /\ Distinct' /\ active' = active \ {}
      /\ waiting' \in Seq(Task)
  BY <1>1, QueueKept DEF Inv, TypeOK
<1>3. state' = [t \in Task |-> IF t \in {} THEN "IDLE" ELSE state[t]]
  BY <1>1 DEF Inv, TypeOK
<1>4. {} \in SUBSET AtWork
  OBVIOUS
<1> QED
  BY <1>1, <1>2, <1>3, <1>4, WholeConfig, LeftAndUnregistered

(* A run ends, whether the task had stayed at work or not.                 *)
LEMMA InvFinished ==
  ASSUME Inv, NEW t \in AtWork, NEW completed \in BOOLEAN, Finished(t, completed),
         waiting' \in Seq(Task), Distinct',
         QueuedTasks' = QueuedTasks \ {t}, active' = active \ {t},
         UNCHANGED <<paused, startTimers, maxTasks, phase, waitFor, cleanups>>
  PROVE  Inv'
<1> DEFINE doomed == IF completed THEN OfConfig(Cfg(t)) ELSE {}
           s == IF completed THEN "COMPLETED" ELSE "IDLE"
<1>1. /\ doomed \in SUBSET Task /\ s \in {"IDLE", "COMPLETED"}
      /\ {t} \in SUBSET AtWork
  BY DEF OfConfig
<1>2. Whole(doomed)
  BY WholeConfig
<1>3. /\ Unregister(doomed)
      /\ state' = [state EXCEPT ![t] = s]
  BY DEF Finished
<1>4. state' = [u \in Task |-> IF u \in {t} THEN s ELSE state[u]]
  BY <1>3 DEF Inv, TypeOK
<1> HIDE DEF doomed, s
<1> QED
  BY <1>1, <1>2, <1>3, <1>4, LeftAndUnregistered

LEMMA InvRunTaskThrough ==
  ASSUME Inv, NEW completed \in BOOLEAN, RunTaskThrough(completed)
  PROVE  Inv'
<1> DEFINE t == Head(waiting)
<1>1. /\ waiting # <<>> /\ waiting' = Tail(waiting) /\ Finished(t, completed)
      /\ UNCHANGED <<paused, startTimers, maxTasks, active, phase, waitFor, cleanups>>
  BY DEF RunTaskThrough, Executor!Pass, shutdownVars
<1>2. /\ waiting' \in Seq(Task) /\ Distinct' /\ t \in QueuedTasks
      /\ QueuedTasks' = QueuedTasks \ {t}
  BY <1>1, QueueShrinks DEF Inv, TypeOK
<1> HIDE DEF t
<1>3. t \in AtWork /\ t \notin active
  BY <1>2 DEF Inv, Agree, AtWork, QueuedTasks
<1>4. active' = active \ {t}
  BY <1>1, <1>3
<1> QED
  BY <1>1, <1>2, <1>3, <1>4, InvFinished

LEMMA InvTaskFinished ==
  ASSUME Inv, NEW t \in Task, NEW completed \in BOOLEAN, TaskFinished(t, completed)
  PROVE  Inv'
<1>1. /\ t \in active /\ active' = active \ {t} /\ Finished(t, completed)
      /\ UNCHANGED <<paused, startTimers, maxTasks, waiting, phase, waitFor, cleanups>>
  BY DEF TaskFinished, Executor!Finish, shutdownVars
<1>2. /\ QueuedTasks' = QueuedTasks /\ Distinct' /\ waiting' \in Seq(Task)
      /\ t \notin QueuedTasks
  BY <1>1, QueueKept DEF Inv, TypeOK, Agree
<1>3. t \in AtWork /\ QueuedTasks' = QueuedTasks \ {t}
  BY <1>1, <1>2 DEF AtWork
<1> QED
  BY <1>1, <1>2, <1>3, InvFinished

(* A sweep alone removes nothing.                                          *)
LEMMA InvSweep ==
  ASSUME Inv, NEW mark \in Clean, NEW done, Sweep(toCleanup, mark, done),
         toCleanup' = toCleanup \ done,
         phase' \in Phases,
         UNCHANGED <<registered, loop, paused, startTimers, maxTasks, waiting,
                     active, waitFor>>
  PROVE  Inv'
<1>1. /\ registered' = [n \in Name |-> IF registered[n] \in {} THEN NoTask
                                       ELSE registered[n]]
      /\ loop' = [t \in Task |-> IF t \in {} THEN 0 ELSE loop[t]]
  BY DEF Inv, TypeOK
<1>2. toCleanup \cup {} = toCleanup /\ {} \in SUBSET Task
  OBVIOUS
<1>3. Whole({})
  BY WholeConfig
<1> QED
  BY <1>1, <1>2, <1>3, Swept

LEMMA InvShutdown ==
  ASSUME Inv, NEW done, shutdown(done)
  PROVE  Inv'
<1>1. CASE shutdownBefore(done)
  <2> DEFINE doomed == {t \in Task : IsRegistered(t)}
  <2>1. registered' = [n \in Name |-> IF registered[n] \in doomed THEN NoTask
                                      ELSE registered[n]]
    <3>1. \A n \in Name : registered[n] # NoTask => registered[n] \in doomed
      BY DEF Inv, TypeOK, Placed, Names, IsRegistered
    <3> QED
      BY <1>1, <3>1 DEF shutdownBefore
  <2>2. Whole(doomed) /\ doomed \in SUBSET Task
    BY WholeEverything
  <2>3. /\ loop' = [t \in Task |-> IF t \in doomed THEN 0 ELSE loop[t]]
        /\ Sweep(toCleanup \cup doomed, "SHUTDOWN", done)
        /\ toCleanup' = (toCleanup \cup doomed) \ done
        /\ waitFor' = {t \in (toCleanup \cup doomed) \ done : Cleanable(t)}
        /\ phase' \in Phases
        /\ UNCHANGED <<paused, startTimers, maxTasks, waiting, active>>
    BY <1>1 DEF shutdownBefore, Phases, execVars
  <2>4. "SHUTDOWN" \in Clean
    BY DEF Clean
  <2> HIDE DEF doomed
  <2> QED
    BY <2>1, <2>2, <2>3, <2>4, Swept
<1>2. CASE shutdownLater(done)
  <2>1. /\ Sweep(toCleanup, "SHUTDOWN", done)
        /\ toCleanup' = toCleanup \ done
        /\ phase' \in Phases
        /\ UNCHANGED <<registered, loop, paused, startTimers, maxTasks, waiting,
                       active, waitFor>>
    BY <1>2 DEF shutdownLater, Phases, execVars
  <2>2. "SHUTDOWN" \in Clean
    BY DEF Clean
  <2> QED
    BY <2>1, <2>2, InvSweep
<1> QED
  BY <1>1, <1>2 DEF shutdown

LEMMA InvCleanupTasks ==
  ASSUME Inv, NEW done, cleanupTasks(done)
  PROVE  Inv'
<1> DEFINE mark == IF phase = "up" THEN "CLEANING" ELSE "SHUTDOWN"
<1>1. /\ Sweep(toCleanup, mark, done)
      /\ toCleanup' = toCleanup \ done
      /\ UNCHANGED <<registered, loop, paused, startTimers, maxTasks, waiting,
                     active, phase, waitFor>>
  BY DEF cleanupTasks, execVars, shutdownVars
<1>2. mark \in Clean /\ phase' \in Phases
  BY <1>1 DEF Clean, Inv, TypeOK
<1> HIDE DEF mark
<1> QED
  BY <1>1, <1>2, InvSweep

LEMMA InvQuietActions ==
  ASSUME Inv,
         \/ setMaxTasks
         \/ \E c \in Config : pauseTasksForConfig(c) \/ resumeTasksForConfig(c)
         \/ UNCHANGED vars
  PROVE  Inv'
<1> DEFINE Still ==
             /\ UNCHANGED <<registered, state, loop, startTimers, toCleanup, waiting,
                            active, phase, waitFor, cleanups>>
             /\ paused' \in [Task -> BOOLEAN]
             /\ maxTasks' \in {1, MaxTasks}
<1>1. Still
  <2>1. CASE setMaxTasks
    BY <2>1 DEF setMaxTasks, Executor!SetLimit, Inv, TypeOK, shutdownVars
  <2>2. ASSUME NEW c \in Config, pauseTasksForConfig(c) \/ resumeTasksForConfig(c)
        PROVE  Still
    BY <2>2 DEF pauseTasksForConfig, resumeTasksForConfig, Inv, TypeOK,
                execVars, shutdownVars
  <2>3. CASE UNCHANGED vars
    BY <2>3 DEF vars, Inv, TypeOK
  <2> QED
    BY <2>1, <2>2, <2>3
<1>2. TypeOK'
  BY <1>1 DEF Inv, TypeOK, Cleaning
<1> QED
  BY <1>1, <1>2, Quiet

LEMMA InvNext == Inv /\ [Next]_vars => Inv'
<1> SUFFICES ASSUME Inv, [Next]_vars
             PROVE  Inv'
  OBVIOUS
<1>1. ASSUME NEW t \in Task, addTask(t)
      PROVE  Inv'
  BY <1>1, Added
<1>2. ASSUME NEW t \in Task, startTask(t)
      PROVE  Inv'
  BY <1>2, InvStartTask
<1>3. ASSUME NEW t \in Task, Tick(t)
      PROVE  Inv'
  BY <1>3, InvTick
<1>4. ASSUME NEW c \in Config, removeTasksForConfig(c)
      PROVE  Inv'
  BY <1>4, InvRemoveTasksForConfig
<1>5. ASSUME NEW c \in Config, pauseTasksForConfig(c) \/ resumeTasksForConfig(c)
      PROVE  Inv'
  BY <1>5, InvQuietActions
<1>6. CASE setMaxTasks
  BY <1>6, InvQuietActions
<1>7. CASE RunTask
  BY <1>7, Started
<1>8. ASSUME NEW completed \in BOOLEAN, RunTaskThrough(completed)
      PROVE  Inv'
  BY <1>8, InvRunTaskThrough
<1>9. ASSUME NEW completed \in BOOLEAN, NEW t \in Task, TaskFinished(t, completed)
      PROVE  Inv'
  BY <1>9, InvTaskFinished
<1>10. ASSUME NEW done \in SUBSET Task, cleanupTasks(done)
       PROVE  Inv'
  BY <1>10, InvCleanupTasks
<1>11. ASSUME NEW done \in SUBSET Task, shutdown(done)
       PROVE  Inv'
  BY <1>11, InvShutdown
<1>12. ASSUME NEW t \in Task, cleanupTaskComplete(t)
       PROVE  Inv'
  BY <1>12, Cleaned
<1>13. CASE UNCHANGED vars
  BY <1>13, InvQuietActions
<1> QED
  BY <1>1, <1>2, <1>3, <1>4, <1>5, <1>6, <1>7, <1>8, <1>9, <1>10, <1>11, <1>12,
     <1>13 DEF Next

LEMMA InvAlways == Spec => []Inv
<1> QED
  BY InvInit, InvNext, PTL DEF Spec

-----------------------------------------------------------------------------
(* Every variable has its type; in particular the cleanups the reactor's   *)
(* shutdown waits for are always ones in course.                           *)
THEOREM SchedulerTypes == Spec => []TypeOK
<1>1. Inv => TypeOK
  BY DEF Inv
<1> QED
  BY <1>1, InvAlways, PTL

(* A task is in the executor at most once, and its state says where it is. *)
THEOREM StatesAgree == Spec => []ExecutorStateAgrees
<1>1. Inv => ExecutorStateAgrees
  BY DEF Inv, Distinct, Agree, QueuedTasks, ExecutorStateAgrees
<1> QED
  BY <1>1, InvAlways, PTL

(* Two versions of a task never overlap, however often a configuration is  *)
(* replaced while its tasks are queued, running or being cleaned.          *)
THEOREM VersionsApart == Spec => []NoOverlap
<1>1. Inv => NoOverlap
  <2>1. \A t \in Task : InExecutor(t) <=> t \in AtWork
    BY DEF InExecutor, AtWork, QueuedTasks
  <2> QED
    BY <2>1 DEF Inv, Separate, Fresh, Apart, NoOverlap
<1> QED
  BY <1>1, InvAlways, PTL

(* cleanup is called once on a task object and is the last call it gets.   *)
THEOREM CleanupOnceAndLast == Spec => []CleanupIsFinal
<1>1. Inv => CleanupIsFinal
  BY DEF Inv, Agree, QueuedTasks, Placed, Counted, Clean, Separate, Loops,
         CleanupIsFinal
<1> QED
  BY <1>1, InvAlways, PTL

(* No task object is lost between registration and cleanup.                *)
THEOREM NoTaskLost == Spec => []TaskConserved
<1>1. Inv => TaskConserved
  BY DEF Inv, Placed
<1> QED
  BY <1>1, InvAlways, PTL
-----------------------------------------------------------------------------
(* The refinement of TaskLife.                                             *)

(* In every state Inv allows, each task is in one part of its life, which  *)
(* the variables tell, and none is lost.                                   *)
Lived ==
  \A t \in Task :
    /\ LifeOf(t) = "new" <=> state[t] = "NEW"
    /\ LifeOf(t) = "scheduled" <=> IsRegistered(t)
    /\ LifeOf(t) = "removed" <=> t \in toCleanup /\ state[t] \notin Clean
    /\ LifeOf(t) = "cleaning" <=> t \in toCleanup /\ state[t] \in Clean
    /\ LifeOf(t) \in {"new", "scheduled", "removed", "cleaning", "gone"}

Worked ==
  \A t \in Task :
    /\ WorkOf(t) = "queued" <=> t \in QueuedTasks
    /\ WorkOf(t) = "running" <=> t \in active
    /\ WorkOf(t) \in {"queued", "running", "out"}
    /\ IsRegistered(t) \/ t \in toCleanup \/ t \in AtWork => state[t] # "NEW"

LEMMA LifeKnown == Inv => Lived /\ Worked
<1> SUFFICES ASSUME Inv
             PROVE  Lived /\ Worked
  OBVIOUS
<1>1. ASSUME NEW t \in Task
      PROVE  /\ t \in Cleaning <=> t \in toCleanup /\ state[t] \in Clean
             /\ IsRegistered(t) => state[t] # "NEW" /\ t \notin toCleanup
             /\ t \in toCleanup => state[t] # "NEW"
             /\ IsRegistered(t) \/ t \in toCleanup \/ state[t] = "NEW"
                  \/ cleanups[t] > 0
  BY DEF Inv, Placed, Known, TaskConserved, Cleaning, Clean
<1>2. Lived
  BY <1>1 DEF Lived, LifeOf, Clean
<1>3. Worked
  <2>1. ASSUME NEW t \in Task
        PROVE  /\ t \in QueuedTasks <=> IsQueued(t)
               /\ t \in QueuedTasks => t \notin active
               /\ t \in AtWork => state[t] # "NEW"
    BY DEF Inv, Agree, QueuedTasks, AtWork
  <2> QED
    BY <1>1, <2>1 DEF Worked, WorkOf
<1> QED
  BY <1>2, <1>3

(* What leaves a task where it is in its life, and in its work.            *)
LEMMA LifeKept ==
  ASSUME Lived, Lived', NEW t \in Task,
         state'[t] = "NEW" <=> state[t] = "NEW",
         state'[t] \in Clean <=> state[t] \in Clean,
         IsRegistered(t)' <=> IsRegistered(t),
         t \in toCleanup' <=> t \in toCleanup
  PROVE  LifeOf(t)' = LifeOf(t)
<1> DEFINE S == {"new", "scheduled", "removed", "cleaning", "gone"}
<1>1. LifeOf(t) \in S /\ LifeOf(t)' \in S
  BY DEF Lived
<1>2. /\ LifeOf(t)' = "new" <=> LifeOf(t) = "new"
      /\ LifeOf(t)' = "scheduled" <=> LifeOf(t) = "scheduled"
      /\ LifeOf(t)' = "removed" <=> LifeOf(t) = "removed"
      /\ LifeOf(t)' = "cleaning" <=> LifeOf(t) = "cleaning"
  BY DEF Lived, Clean
<1> QED
  BY <1>1, <1>2

LEMMA WorkKept ==
  ASSUME Worked, Worked', NEW t \in Task,
         t \in QueuedTasks' <=> t \in QueuedTasks,
         t \in active' <=> t \in active
  PROVE  WorkOf(t)' = WorkOf(t)
BY DEF Worked

(* The same for all tasks.                                                 *)
LEMMA WorksKept ==
  ASSUME Worked, Worked', UNCHANGED <<waiting, active>>
  PROVE  UNCHANGED [t \in Task |-> WorkOf(t)]
<1>1. QueuedTasks' = QueuedTasks
  BY QueueKept
<1> QED
  BY <1>1, WorkKept

LEMMA LifeStays ==
  ASSUME Lived /\ Worked, (Lived /\ Worked)',
         UNCHANGED <<registered, state, toCleanup, waiting, active>>
  PROVE  UNCHANGED Life!lifeVars
<1>1. \A t \in Task : LifeOf(t)' = LifeOf(t)
  BY LifeKept DEF IsRegistered
<1>2. UNCHANGED [t \in Task |-> LifeOf(t)]
  BY <1>1
<1> QED
  BY <1>2, WorksKept DEF Life!lifeVars

(* A new object is scheduled, the only one of its name.                    *)
LEMMA LifeAdded ==
  ASSUME Inv, Lived /\ Worked, (Lived /\ Worked)', NEW t \in Task, addTask(t)
  PROVE  Life!Add(t)
<1>1. /\ state[t] = "NEW" /\ registered[NameOf[t]] = NoTask
      /\ registered' = [registered EXCEPT ![NameOf[t]] = t]
      /\ state' = [state EXCEPT ![t] = "IDLE"]
      /\ UNCHANGED <<toCleanup, waiting, active>>
  BY DEF addTask, execVars
<1>2. /\ registered \in [Name -> Task \cup {NoTask}] /\ state \in [Task -> States]
      /\ NameOf[t] \in Name
  BY NameOfAssumption DEF Inv, TypeOK
<1>3. \A u \in Task : IsRegistered(u)' <=> IsRegistered(u) \/ u = t
  BY <1>1, <1>2, NameOfAssumption, NoTaskAssumption DEF IsRegistered
<1>4. LifeOf(t) = "new" /\ LifeOf(t)' = "scheduled"
  BY <1>1, <1>3 DEF Lived
<1>5. ASSUME NEW u \in Task, u # t
      PROVE  LifeOf(u)' = LifeOf(u)
  <2>1. state'[u] = state[u] /\ (IsRegistered(u)' <=> IsRegistered(u))
    BY <1>1, <1>2, <1>3, <1>5
  <2> QED
    BY <1>1, <2>1, LifeKept
<1>6. \A u \in Task : LifeOf(u) = "scheduled" => NameOf[u] # NameOf[t]
  BY <1>1, NoTaskAssumption DEF Lived, IsRegistered
<1>7. UNCHANGED [u \in Task |-> WorkOf(u)]
  BY <1>1, WorksKept
<1>8. [u \in Task |-> LifeOf(u)]'
        = [[u \in Task |-> LifeOf(u)] EXCEPT ![t] = "scheduled"]
  BY <1>4, <1>5
<1> QED
  BY <1>4, <1>6, <1>7, <1>8 DEF Life!Add

(* A looping call that runs its task submits one that is scheduled, while  *)
(* no object of the configuration is leaving.                              *)
LEMMA LifeCalled ==
  ASSUME Inv, Lived /\ Worked, (Lived /\ Worked)',
         NEW t \in Task, IsRegistered(t), ~CleanupPending(Cfg(t)), call(t),
         UNCHANGED <<registered, toCleanup>>
  PROVE  Life!Submit(t) \/ UNCHANGED Life!lifeVars
<1>1. /\ state \in [Task -> States] /\ waiting \in Seq(Task)
  BY DEF Inv, TypeOK
<1>2. \A u \in Task : IsRegistered(u)' <=> IsRegistered(u)
  BY DEF IsRegistered
<1>3. ASSUME NEW s \in {"QUEUED", "PAUSED"}, Ready(t),
             state' = [state EXCEPT ![t] = s]
      PROVE  UNCHANGED [u \in Task |-> LifeOf(u)]
  <2>1. ASSUME NEW u \in Task
        PROVE  LifeOf(u)' = LifeOf(u)
    <3>1. /\ state'[u] = "NEW" <=> state[u] = "NEW"
          /\ state'[u] \in Clean <=> state[u] \in Clean
      BY <1>1, <1>3 DEF Ready, Clean
    <3> QED
      BY <1>2, <3>1, LifeKept
  <2> QED
    BY <2>1
<1>4. ASSUME Ready(t), state' = [state EXCEPT ![t] = "QUEUED"], Executor!Submit(t)
      PROVE  Life!Submit(t)
  <2>1. waiting' = Append(waiting, t) /\ active' = active /\ t \notin AtWork
    BY <1>4 DEF Executor!Submit, Ready, Inv, Agree, AtWork
  <2>2. QueuedTasks' = QueuedTasks \cup {t}
    BY <1>1, <2>1, QueueGrows
  <2>3. WorkOf(t) = "out" /\ WorkOf(t)' = "queued"
    BY <2>1, <2>2 DEF Worked, AtWork
  <2>4. \A u \in Task : u # t => WorkOf(u)' = WorkOf(u)
    BY <2>1, <2>2, WorkKept
  <2>5. [u \in Task |-> WorkOf(u)]'
          = [[u \in Task |-> WorkOf(u)] EXCEPT ![t] = "queued"]
    BY <2>3, <2>4
  <2>6. LifeOf(t) = "scheduled"
    BY DEF Lived
  <2>7. ~Life!Leaving(Life!Cfg(t))
    <3>1. \A u \in Task : LifeOf(u) \in {"removed", "cleaning"} => u \in toCleanup
      BY DEF Lived
    <3> QED
      BY <3>1 DEF Life!Leaving, Life!Cfg, CleanupPending, Cfg
  <2> QED
    BY <1>3, <1>4, <2>3, <2>5, <2>6, <2>7 DEF Life!Submit
<1>5. ASSUME UNCHANGED <<waiting, active>>,
             \/ UNCHANGED state
             \/ Ready(t) /\ state' = [state EXCEPT ![t] = "PAUSED"]
      PROVE  UNCHANGED Life!lifeVars
  <2>1. UNCHANGED [u \in Task |-> WorkOf(u)]
    BY <1>5, WorksKept
  <2> QED
    BY <1>3, <1>5, <2>1, LifeStays DEF Life!lifeVars
<1> QED
  BY <1>4, <1>5 DEF call, execVars

(* The executor starts what is queued.                                     *)
LEMMA LifeStarted ==
  ASSUME Inv, Lived /\ Worked, (Lived /\ Worked)', RunTask,
         NEW t \in Task, t = Head(waiting)
  PROVE  Life!Start(t)
<1>1. /\ waiting # <<>> /\ waiting' = Tail(waiting)
      /\ active' = active \cup {t}
      /\ state' = [state EXCEPT ![t] = "RUNNING"]
      /\ UNCHANGED <<registered, toCleanup>>
  BY DEF RunTask, Executor!Start
<1>2. state \in [Task -> States] /\ waiting \in Seq(Task)
  BY DEF Inv, TypeOK
<1>3. t \in QueuedTasks /\ QueuedTasks' = QueuedTasks \ {t}
  BY <1>1, <1>2, QueueShrinks DEF Inv
<1>4. state[t] = "QUEUED"
  BY <1>3 DEF Inv, Agree, QueuedTasks
<1>5. ASSUME NEW u \in Task
      PROVE  LifeOf(u)' = LifeOf(u)
  <2>1. /\ state'[u] = "NEW" <=> state[u] = "NEW"
        /\ state'[u] \in Clean <=> state[u] \in Clean
    BY <1>1, <1>2, <1>4 DEF Clean
  <2> QED
    BY <1>1, <2>1, LifeKept DEF IsRegistered
<1>6. WorkOf(t) = "queued" /\ WorkOf(t)' = "running"
  BY <1>1, <1>3, <1>4 DEF Worked
<1>7. ASSUME NEW u \in Task, u # t
      PROVE  WorkOf(u)' = WorkOf(u)
  <2>1. /\ u \in QueuedTasks' <=> u \in QueuedTasks
        /\ u \in active' <=> u \in active
    BY <1>1, <1>3, <1>7
  <2> QED
    BY <2>1, WorkKept
<1>8. UNCHANGED [u \in Task |-> LifeOf(u)]
  BY <1>5
<1>9. [u \in Task |-> WorkOf(u)]'
        = [[u \in Task |-> WorkOf(u)] EXCEPT ![t] = "running"]
  BY <1>6, <1>7
<1> QED
  BY <1>6, <1>8, <1>9 DEF Life!Start

(* What becomes of the lives when doomed, registered tasks, leave the      *)
(* scheduler: nothing is cleaned up and nothing is added.                  *)
LEMMA LifeUnregistered ==
  ASSUME Inv, Lived, Lived', NEW doomed \in SUBSET Task, Whole(doomed),
         Unregister(doomed),
         \A t \in Task : /\ state'[t] = "NEW" <=> state[t] = "NEW"
                         /\ state'[t] \in Clean <=> state[t] \in Clean
  PROVE  [t \in Task |-> LifeOf(t)]' = Life!Without(doomed)
<1>1. /\ toCleanup' = toCleanup \cup doomed
      /\ \A t \in Task : IsRegistered(t)' <=> IsRegistered(t) /\ t \notin doomed
  BY Freed DEF Unregister
<1>2. ASSUME NEW t \in Task, t \in doomed
      PROVE  LifeOf(t)' = "removed"
  <2>1. IsRegistered(t) /\ state[t] \notin Clean
    BY <1>2 DEF Whole, Inv, Placed, Counted
  <2> QED
    BY <1>1, <1>2, <2>1 DEF Lived
<1>3. ASSUME NEW t \in Task, t \notin doomed
      PROVE  LifeOf(t)' = LifeOf(t)
  <2>1. /\ IsRegistered(t)' <=> IsRegistered(t)
        /\ t \in toCleanup' <=> t \in toCleanup
    BY <1>1, <1>3
  <2> QED
    BY <2>1, LifeKept
<1> QED
  BY <1>2, <1>3 DEF Life!Without

(* Those of a configuration that are scheduled are those registered.       *)
LEMMA LifeOfConfig ==
  ASSUME Lived, NEW c
  PROVE  Life!Scheduled(c) = OfConfig(c)
BY DEF Lived, Life!Scheduled, OfConfig, Life!Cfg, Cfg

LEMMA LifeRemoved ==
  ASSUME Inv, Lived /\ Worked, (Lived /\ Worked)', NEW c, removeTasksForConfig(c)
  PROVE  Life!Remove(c)
<1>1. /\ Unregister(OfConfig(c)) /\ OfConfig(c) \in SUBSET Task
      /\ UNCHANGED <<state, waiting, active>>
  BY DEF removeTasksForConfig, execVars, OfConfig
<1>2. [t \in Task |-> LifeOf(t)]' = Life!Without(OfConfig(c))
  BY <1>1, WholeConfig, LifeUnregistered
<1>3. UNCHANGED [t \in Task |-> WorkOf(t)]
  BY <1>1, WorksKept
<1> QED
  BY <1>2, <1>3, LifeOfConfig DEF Life!Remove

(* A run ends, whether the task had stayed at work or not.                 *)
LEMMA LifeEnded ==
  ASSUME Inv, Lived /\ Worked, (Lived /\ Worked)',
         NEW t \in AtWork, NEW completed \in BOOLEAN, Finished(t, completed),
         QueuedTasks' = QueuedTasks \ {t}, active' = active \ {t}
  PROVE  t \in Task /\ Life!End(t, completed)
<1> DEFINE doomed == IF completed THEN OfConfig(Cfg(t)) ELSE {}
           s == IF completed THEN "COMPLETED" ELSE "IDLE"
<1>1. /\ doomed \in SUBSET Task /\ s \in {"IDLE", "COMPLETED"} /\ Whole(doomed)
  BY WholeConfig DEF OfConfig
<1>2. Unregister(doomed) /\ state' = [state EXCEPT ![t] = s]
  BY DEF Finished
<1>3. t \in Task /\ state[t] \in {"QUEUED", "RUNNING"}
      /\ state \in [Task -> States]
  BY DEF Inv, TypeOK, Agree, AtWork, QueuedTasks
<1>4. doomed = IF completed THEN Life!Scheduled(Life!Cfg(t)) ELSE {}
  BY LifeOfConfig DEF Life!Cfg, Cfg
<1> HIDE DEF doomed, s
<1>5. \A u \in Task : /\ state'[u] = "NEW" <=> state[u] = "NEW"
                      /\ state'[u] \in Clean <=> state[u] \in Clean
  BY <1>1, <1>2, <1>3 DEF Clean
<1>6. [u \in Task |-> LifeOf(u)]' = Life!Without(doomed)
  BY <1>1, <1>2, <1>5, LifeUnregistered
<1>7. WorkOf(t) # "out" /\ WorkOf(t)' = "out"
  BY <1>3 DEF Worked, AtWork
<1>8. ASSUME NEW u \in Task, u # t
      PROVE  WorkOf(u)' = WorkOf(u)
  <2>1. /\ u \in QueuedTasks' <=> u \in QueuedTasks
        /\ u \in active' <=> u \in active
    BY <1>8
  <2> QED
    BY <2>1, WorkKept
<1>9. [u \in Task |-> WorkOf(u)]' = [[u \in Task |-> WorkOf(u)] EXCEPT ![t] = "out"]
  BY <1>7, <1>8
<1> QED
  BY <1>3, <1>4, <1>6, <1>7, <1>9 DEF Life!End

(* A sweep, with the removals of a shutdown before it: what is cleaned is  *)
(* what was removed and is out of the executor.                            *)
LEMMA LifeSwept ==
  ASSUME Inv, Lived /\ Worked, (Lived /\ Worked)',
         NEW doomed \in SUBSET Task, Whole(doomed),
         registered' = [n \in Name |-> IF registered[n] \in doomed THEN NoTask
                                       ELSE registered[n]],
         loop' = [t \in Task |-> IF t \in doomed THEN 0 ELSE loop[t]],
         NEW mark \in Clean, NEW done, Sweep(toCleanup \cup doomed, mark, done),
         toCleanup' = (toCleanup \cup doomed) \ done,
         UNCHANGED <<waiting, active>>
  PROVE  Life!Sweep(Life!Without(doomed), done)
<1> DEFINE dirty == toCleanup \cup doomed
           todo == {t \in dirty : Cleanable(t)}
           lives == Life!Without(doomed)
           idle == {t \in Task : lives[t] = "removed" /\ WorkOf(t) = "out"}
<1>1. /\ state \in [Task -> States] /\ toCleanup \subseteq Task
      /\ dirty \subseteq Task
  BY DEF Inv, TypeOK
<1>2. /\ done \subseteq todo
      /\ state' = [t \in Task |-> IF t \in todo THEN mark ELSE state[t]]
  BY DEF Sweep
<1>3. \A t \in Task : IsRegistered(t)' <=> IsRegistered(t) /\ t \notin doomed
  BY Freed
<1>4. \A t \in Task : lives[t] = IF t \in doomed THEN "removed" ELSE LifeOf(t)
  BY DEF Life!Without
<1>5. ASSUME NEW t \in Task
      PROVE  lives[t] = "removed" <=> t \in dirty /\ state[t] \notin Clean
  <2>1. t \in doomed => state[t] \notin Clean
    BY DEF Whole, Inv, Placed, Counted
  <2>2. LifeOf(t) = "removed" <=> t \in toCleanup /\ state[t] \notin Clean
    BY DEF Lived
  <2> QED
    BY <1>4, <2>1, <2>2
<1>6. ASSUME NEW t \in Task, t \in dirty
      PROVE  Cleanable(t) <=> state[t] \notin Clean /\ WorkOf(t) = "out"
  <2>1. /\ state[t] # "NEW" /\ state[t] \in States
        /\ WorkOf(t) = "out" <=> state[t] \notin {"QUEUED", "RUNNING"}
    BY <1>1, <1>6 DEF Whole, Worked, Inv, Agree
  <2> QED
    BY <2>1 DEF Cleanable, Clean, States
<1>7. todo = idle
  BY <1>1, <1>5, <1>6
<1> HIDE DEF dirty, todo, lives, idle
<1>8. ASSUME NEW t \in Task, t \in todo
      PROVE  LifeOf(t)' = IF t \in done THEN "gone" ELSE "cleaning"
  <2>1. /\ t \in dirty /\ state'[t] \in Clean /\ state'[t] # "NEW"
        /\ t \in toCleanup' <=> t \notin done
    BY <1>2, <1>8 DEF todo, dirty, Clean
  <2>2. ~IsRegistered(t)'
    BY <1>3, <2>1 DEF dirty, Inv, Placed, TaskConserved
  <2> QED
    BY <2>1, <2>2 DEF Lived
<1>9. ASSUME NEW t \in Task, t \notin todo
      PROVE  LifeOf(t)' = lives[t]
  <2>1. /\ state'[t] = state[t] /\ t \notin done
        /\ t \in toCleanup' <=> t \in toCleanup \/ t \in doomed
    BY <1>2, <1>9 DEF dirty
  <2>2. CASE t \in doomed
    <3>1. lives[t] = "removed" /\ state[t] \notin Clean
      BY <1>4, <1>5, <2>2
    <3> QED
      BY <2>1, <2>2, <3>1 DEF Lived
  <2>3. CASE t \notin doomed
    <3>1. /\ IsRegistered(t)' <=> IsRegistered(t)
          /\ t \in toCleanup' <=> t \in toCleanup
      BY <1>3, <2>1, <2>3
    <3>2. LifeOf(t)' = LifeOf(t)
      BY <2>1, <3>1, LifeKept
    <3> QED
      BY <1>4, <2>3, <3>2
  <2> QED
    BY <2>2, <2>3
<1>10. [t \in Task |-> LifeOf(t)]'
         = [t \in Task |-> IF t \in done THEN "gone"
                           ELSE IF t \in todo THEN "cleaning" ELSE lives[t]]
  BY <1>2, <1>8, <1>9
<1>11. UNCHANGED [t \in Task |-> WorkOf(t)]
  BY WorksKept
<1>12. idle = {t \in Task : /\ lives[t] = "removed"
                            /\ [u \in Task |-> WorkOf(u)][t] = "out"}
  BY DEF idle
<1> QED
  BY <1>2, <1>7, <1>10, <1>11, <1>12 DEF Life!Sweep, lives

(* A sweep alone removes nothing.                                          *)
LEMMA LifeCleanedUp ==
  ASSUME Inv, Lived /\ Worked, (Lived /\ Worked)',
         NEW mark \in Clean, NEW done, Sweep(toCleanup, mark, done),
         toCleanup' = toCleanup \ done,
         UNCHANGED <<registered, loop, waiting, active>>
  PROVE  Life!CleanUp(done)
<1>1. /\ registered' = [n \in Name |-> IF registered[n] \in {} THEN NoTask
                                       ELSE registered[n]]
      /\ loop' = [t \in Task |-> IF t \in {} THEN 0 ELSE loop[t]]
  BY DEF Inv, TypeOK
<1>2. toCleanup \cup {} = toCleanup /\ {} \in SUBSET Task
  OBVIOUS
<1>3. Whole({})
  BY WholeConfig
<1>4. Life!Sweep(Life!Without({}), done)
  BY <1>1, <1>2, <1>3, LifeSwept
<1>5. Life!Without({}) = [t \in Task |-> LifeOf(t)]
  BY DEF Life!Without
<1> QED
  BY <1>4, <1>5 DEF Life!CleanUp

(* A shutdown sweeps twice, the first time after removing all.             *)
LEMMA LifeShutdown ==
  ASSUME Inv, Lived /\ Worked, (Lived /\ Worked)', NEW done, shutdown(done)
  PROVE  Life!Shutdown(done) \/ Life!CleanUp(done)
<1>0. "SHUTDOWN" \in Clean
  BY DEF Clean
<1>1. CASE shutdownBefore(done)
  <2> DEFINE doomed == {t \in Task : IsRegistered(t)}
  <2>1. registered' = [n \in Name |-> IF registered[n] \in doomed THEN NoTask
                                      ELSE registered[n]]
    <3>1. \A n \in Name : registered[n] # NoTask => registered[n] \in doomed
      BY DEF Inv, TypeOK, Placed, Names, IsRegistered
    <3> QED
      BY <1>1, <3>1 DEF shutdownBefore
  <2>2. Whole(doomed) /\ doomed \in SUBSET Task
    BY WholeEverything
  <2>3. /\ loop' = [t \in Task |-> IF t \in doomed THEN 0 ELSE loop[t]]
        /\ Sweep(toCleanup \cup doomed, "SHUTDOWN", done)
        /\ toCleanup' = (toCleanup \cup doomed) \ done
        /\ UNCHANGED <<waiting, active>>
    BY <1>1 DEF shutdownBefore, execVars
  <2>4. doomed = {t \in Task : [u \in Task |-> LifeOf(u)][t] = "scheduled"}
    BY DEF Lived
  <2> HIDE DEF doomed
  <2>5. Life!Sweep(Life!Without(doomed), done)
    BY <1>0, <2>1, <2>2, <2>3, LifeSwept
  <2> QED
    BY <2>4, <2>5 DEF Life!Shutdown
<1>2. CASE shutdownLater(done)
  BY <1>0, <1>2, LifeCleanedUp DEF shutdownLater, execVars
<1> QED
  BY <1>1, <1>2 DEF shutdown

(* The deferred of a cleanup fires.                                        *)
LEMMA LifeCleaned ==
  ASSUME Inv, Lived /\ Worked, (Lived /\ Worked)', NEW t \in Task,
         cleanupTaskComplete(t)
  PROVE  Life!CleanedUp(t)
<1>1. /\ t \in Cleaning /\ toCleanup' = toCleanup \ {t}
      /\ UNCHANGED <<registered, state, waiting, active>>
  BY DEF cleanupTaskComplete, execVars
<1>2. \A u \in Task : IsRegistered(u)' <=> IsRegistered(u)
  BY <1>1 DEF IsRegistered
<1>3. t \in toCleanup /\ state[t] \in Clean /\ ~IsRegistered(t)
  BY <1>1 DEF Cleaning, Clean, Inv, Placed, TaskConserved
<1>4. LifeOf(t) = "cleaning" /\ LifeOf(t)' = "gone"
  BY <1>1, <1>2, <1>3 DEF Lived, Clean
<1>5. ASSUME NEW u \in Task, u # t
      PROVE  LifeOf(u)' = LifeOf(u)
  <2>1. u \in toCleanup' <=> u \in toCleanup
    BY <1>1, <1>5
  <2> QED
    BY <1>1, <1>2, <2>1, LifeKept
<1>6. [u \in Task |-> LifeOf(u)]'
        = [[u \in Task |-> LifeOf(u)] EXCEPT ![t] = "gone"]
  BY <1>4, <1>5
<1> QED
  BY <1>1, <1>4, <1>6, WorksKept DEF Life!CleanedUp

LEMMA LifeInit == Init => Life!Init
<1> SUFFICES ASSUME Init
             PROVE  Life!Init
  OBVIOUS
<1>1. \A t \in Task : LifeOf(t) = "new"
  <2>1. \A t \in Task : state[t] = "NEW"
    BY DEF Init
  <2> QED
    BY <2>1, InvInit, LifeKnown DEF Lived
<1>2. \A t \in Task : WorkOf(t) = "out"
  BY DEF Init, Executor!Init, WorkOf, IsQueued
<1> QED
  BY <1>1, <1>2 DEF Life!Init

LEMMA LifeStartTask ==
  ASSUME Inv, Lived /\ Worked, (Lived /\ Worked)', NEW t \in Task, startTask(t)
  PROVE  \/ \E u \in Task : Life!Submit(u)
         \/ UNCHANGED Life!lifeVars
<1> DEFINE u == registered[NameOf[t]]
<1>1. UNCHANGED <<registered, toCleanup>>
  BY DEF startTask
<1>2. CASE UNCHANGED <<loop, state, execVars>>
  BY <1>1, <1>2, LifeStays DEF execVars
<1>3. ASSUME u # NoTask, ~CleanupPending(Cfg(t)), call(u)
      PROVE  \/ \E v \in Task : Life!Submit(v)
             \/ UNCHANGED Life!lifeVars
  <2>1. /\ NameOf[t] \in Name /\ u \in Task /\ NameOf[u] = NameOf[t]
    BY <1>3, NameOfAssumption DEF Inv, TypeOK, Placed, Names
  <2>2. IsRegistered(u) /\ ~CleanupPending(Cfg(u))
    BY <1>3, <2>1 DEF IsRegistered, Cfg
  <2> HIDE DEF u
  <2>3. PICK v \in Task : v = u
    BY <2>1
  <2>4. IsRegistered(v) /\ ~CleanupPending(Cfg(v)) /\ call(v)
    BY <1>3, <2>2, <2>3
  <2> QED
    BY <1>1, <2>4, LifeCalled
<1> QED
  BY <1>2, <1>3 DEF startTask

LEMMA LifeTick ==
  ASSUME Inv, Lived /\ Worked, (Lived /\ Worked)', NEW t \in Task, Tick(t)
  PROVE  Life!Submit(t) \/ UNCHANGED Life!lifeVars
<1>1. loop[t] # 0 /\ call(t) /\ UNCHANGED <<registered, toCleanup>>
  BY DEF Tick
<1>2. IsRegistered(t) /\ ~CleanupPending(Cfg(t))
  BY <1>1 DEF Inv, Separate, Loops
<1> QED
  BY <1>1, <1>2, LifeCalled

(* A run that is over at once, and one that stayed at work, end.           *)
LEMMA LifeRunEnds ==
  ASSUME Inv, Lived /\ Worked, (Lived /\ Worked)', NEW completed \in BOOLEAN,
         \/ RunTaskThrough(completed)
         \/ \E t \in Task : TaskFinished(t, completed)
  PROVE  \E t \in Task : Life!End(t, completed)
<1>1. CASE RunTaskThrough(completed)
  <2>1. PICK t : t = Head(waiting)
    OBVIOUS
  <2>2. /\ waiting # <<>> /\ waiting' = Tail(waiting)
        /\ active' = active /\ Finished(t, completed)
    BY <1>1, <2>1 DEF RunTaskThrough, Executor!Pass
  <2>3. t \in QueuedTasks /\ QueuedTasks' = QueuedTasks \ {t}
    BY <2>1, <2>2, QueueShrinks DEF Inv, TypeOK
  <2>4. t \in AtWork /\ active' = active \ {t}
    BY <2>2, <2>3 DEF Inv, Agree, AtWork, QueuedTasks
  <2> QED
    BY <2>2, <2>3, <2>4, LifeEnded
<1>2. ASSUME NEW t \in Task, TaskFinished(t, completed)
      PROVE  \E u \in Task : Life!End(u, completed)
  <2>1. /\ t \in active /\ active' = active \ {t} /\ waiting' = waiting
        /\ Finished(t, completed)
    BY <1>2 DEF TaskFinished, Executor!Finish
  <2>2. t \in AtWork /\ QueuedTasks' = QueuedTasks /\ t \notin QueuedTasks
    BY <2>1, QueueKept DEF Inv, Agree, AtWork
  <2>3. QueuedTasks' = QueuedTasks \ {t}
    BY <2>2
  <2> QED
    BY <2>1, <2>2, <2>3, LifeEnded
<1> QED
  BY <1>1, <1>2

LEMMA StepImplementsTaskLife ==
  Inv /\ Lived /\ Worked /\ (Lived /\ Worked)' /\ [Next]_vars
    => [Life!Next]_(Life!lifeVars)
<1> SUFFICES ASSUME Inv, Lived /\ Worked, (Lived /\ Worked)', [Next]_vars
             PROVE  Life!Next \/ UNCHANGED Life!lifeVars
  OBVIOUS
<1>1. ASSUME NEW t \in Task, addTask(t)
      PROVE  Life!Next
  <2>1. Life!Add(t)
    BY <1>1, LifeAdded
  <2> QED
    BY <2>1 DEF Life!Next
<1>2. ASSUME NEW t \in Task, startTask(t)
      PROVE  Life!Next \/ UNCHANGED Life!lifeVars
  <2>1. (\E u \in Task : Life!Submit(u)) \/ UNCHANGED Life!lifeVars
    BY <1>2, LifeStartTask
  <2> QED
    BY <2>1 DEF Life!Next
<1>3. ASSUME NEW t \in Task, Tick(t)
      PROVE  Life!Next \/ UNCHANGED Life!lifeVars
  <2>1. Life!Submit(t) \/ UNCHANGED Life!lifeVars
    BY <1>3, LifeTick
  <2> QED
    BY <2>1 DEF Life!Next
<1>4. ASSUME NEW c \in Config, removeTasksForConfig(c)
      PROVE  Life!Next
  <2>1. Life!Remove(c)
    BY <1>4, LifeRemoved
  <2> QED
    BY <2>1 DEF Life!Next
<1>5. ASSUME NEW c \in Config, pauseTasksForConfig(c) \/ resumeTasksForConfig(c)
      PROVE  UNCHANGED Life!lifeVars
  BY <1>5, LifeStays DEF pauseTasksForConfig, resumeTasksForConfig, execVars
<1>6. CASE setMaxTasks
  <2>1. UNCHANGED Life!lifeVars
    BY <1>6, LifeStays DEF setMaxTasks, Executor!SetLimit
  <2> QED
    BY <2>1
<1>7. CASE RunTask
  <2>1. Head(waiting) \in Task
    <3>1. waiting \in Seq(Task) /\ waiting # <<>>
      BY <1>7 DEF RunTask, Executor!Start, Inv, TypeOK
    <3> QED
      BY <3>1
  <2>2. PICK t \in Task : t = Head(waiting)
    BY <2>1
  <2>3. Life!Start(t)
    BY <1>7, <2>2, LifeStarted
  <2> QED
    BY <2>3 DEF Life!Next
<1>8. ASSUME NEW completed \in BOOLEAN,
             \/ RunTaskThrough(completed)
             \/ \E t \in Task : TaskFinished(t, completed)
      PROVE  Life!Next
  <2>1. \E t \in Task : Life!End(t, completed)
    BY <1>8, LifeRunEnds
  <2> QED
    BY <2>1 DEF Life!Next
<1>9. ASSUME NEW done \in SUBSET Task, cleanupTasks(done)
      PROVE  Life!Next
  <2> DEFINE mark == IF phase = "up" THEN "CLEANING" ELSE "SHUTDOWN"
  <2>1. /\ Sweep(toCleanup, mark, done)
        /\ toCleanup' = toCleanup \ done
        /\ UNCHANGED <<registered, loop, waiting, active>>
        /\ mark \in Clean
    BY <1>9 DEF cleanupTasks, execVars, Clean
  <2> HIDE DEF mark
  <2>2. PICK m \in Clean : m = mark
    BY <2>1
  <2>3. Life!CleanUp(done)
    BY <2>1, <2>2, LifeCleanedUp
  <2> QED
    BY <2>3 DEF Life!Next
<1>10. ASSUME NEW done \in SUBSET Task, shutdown(done)
       PROVE  Life!Next
  <2>1. Life!Shutdown(done) \/ Life!CleanUp(done)
    BY <1>10, LifeShutdown
  <2> QED
    BY <2>1 DEF Life!Next
<1>11. ASSUME NEW t \in Task, cleanupTaskComplete(t)
       PROVE  Life!Next
  <2>1. Life!CleanedUp(t)
    BY <1>11, LifeCleaned
  <2> QED
    BY <2>1 DEF Life!Next
<1>12. CASE UNCHANGED vars
  <2>1. UNCHANGED Life!lifeVars
    BY <1>12, LifeStays DEF vars
  <2> QED
    BY <2>1
<1> QED
  BY <1>1, <1>2, <1>3, <1>4, <1>5, <1>6, <1>7, <1>8, <1>9, <1>10, <1>11, <1>12
     DEF Next

(* Every task object has the life TaskLife promises: it runs only while it *)
(* is scheduled and nothing of its configuration is leaving, once at a     *)
(* time, and is cleaned up once, after its last run, for any tasks, names, *)
(* configurations and limits.                                              *)
THEOREM TaskLifeRefinement == Spec => ImplementsTaskLife
<1>1. Spec => [](Inv /\ Lived /\ Worked)
  BY InvAlways, LifeKnown, PTL
<1>2. Inv /\ Lived /\ Worked /\ (Lived /\ Worked)' /\ [Next]_vars
        => [Life!Next]_(Life!lifeVars)
  BY StepImplementsTaskLife
<1>3. [](Inv /\ Lived /\ Worked) /\ [][Next]_vars => [][Life!Next]_(Life!lifeVars)
  BY <1>2, PTL
<1> QED
  BY <1>1, <1>3, LifeInit, PTL DEF Spec, ImplementsTaskLife, Life!Spec
=============================================================================
