------------------------------ MODULE TaskPool ------------------------------
(***************************************************************************)
(* What a bounded executor promises its clients: tasks wait in submission  *)
(* order and start, oldest first, whenever fewer tasks are active than the *)
(* limit allows.  It says nothing about timers or counters: TaskExecutor   *)
(* is shown to implement it, and CollectorScheduler is built on it.        *)
(***************************************************************************)
EXTENDS Naturals, Sequences, FiniteSets

CONSTANTS
  Task,       \* what is submitted: a call the executor makes once
  Limits,     \* the values the limit may take
  Unlimited   \* the limit that never bites

VARIABLES
  limit,      \* how many tasks may be active together
  waiting,    \* tasks submitted and not started, oldest first
  active      \* tasks started and not finished

poolVars == <<limit, waiting, active>>

BelowLimit == limit # Unlimited => Cardinality(active) < limit

Init ==
  /\ limit \in Limits
  /\ waiting = <<>>
  /\ active = {}

Submit(t) ==
  /\ waiting' = Append(waiting, t)
  /\ UNCHANGED <<limit, active>>

(* The oldest waiting task starts and stays active.                        *)
Start ==
  /\ waiting # <<>>
  /\ BelowLimit
  /\ waiting' = Tail(waiting)
  /\ active' = active \cup {Head(waiting)}
  /\ UNCHANGED limit

(* The oldest waiting task runs to its end at once.                        *)
Pass ==
  /\ waiting # <<>>
  /\ BelowLimit
  /\ waiting' = Tail(waiting)
  /\ UNCHANGED <<limit, active>>

Finish(t) ==
  /\ t \in active
  /\ active' = active \ {t}
  /\ UNCHANGED <<limit, waiting>>

SetLimit ==
  /\ limit' \in Limits
  /\ UNCHANGED <<waiting, active>>

Next ==
  \/ \E t \in Task : Submit(t) \/ Finish(t)
  \/ Start
  \/ Pass
  \/ SetLimit

SafetySpec == Init /\ [][Next]_poolVars

Spec ==
  /\ SafetySpec
  /\ WF_poolVars(Start \/ Pass)
  /\ \A t \in Task : WF_poolVars(Finish(t))
=============================================================================
