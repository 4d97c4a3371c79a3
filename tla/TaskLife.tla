------------------------------ MODULE TaskLife ------------------------------
(***************************************************************************)
(* What the collector's scheduler promises whoever writes a task: the life *)
(* of a task object.  Once added it is scheduled, the only object of its   *)
(* name; it runs again and again, once at a time, while it is scheduled,   *)
(* but never while an object of its configuration waits for its cleanup or *)
(* is being cleaned; once removed it is not run again; then, and only when *)
(* its last run has ended, it is cleaned up, once.  Of timers, looping     *)
(* calls, pauses and the limit of the executor it says nothing.            *)
(* CollectorScheduler is shown to implement it.                            *)
(***************************************************************************)

CONSTANTS
  Task,    \* task objects
  Config,  \* configuration ids
  NameOf,  \* the name of a task
  ConfigOf \* the configuration a task name belongs to

VARIABLES
  life,    \* how far each task object has come in its life
  work     \* whether it is out of the executor, queued there, or running

lifeVars == <<life, work>>

Init ==
  /\ life = [t \in Task |-> "new"]
  /\ work = [t \in Task |-> "out"]

Cfg(t) == ConfigOf[NameOf[t]]
Scheduled(c) == {t \in Task : life[t] = "scheduled" /\ Cfg(t) = c}
Leaving(c) == \E t \in Task : life[t] \in {"removed", "cleaning"} /\ Cfg(t) = c

(* The lives once those in doomed are removed.                             *)
Without(doomed) == [t \in Task |-> IF t \in doomed THEN "removed" ELSE life[t]]

Add(t) ==
  /\ life[t] = "new"
  /\ \A u \in Task : life[u] = "scheduled" => NameOf[u] # NameOf[t]
  /\ life' = [life EXCEPT ![t] = "scheduled"]
  /\ UNCHANGED work

Submit(t) ==
  /\ life[t] = "scheduled" /\ ~Leaving(Cfg(t))
  /\ work[t] = "out"
  /\ work' = [work EXCEPT ![t] = "queued"]
  /\ UNCHANGED life

Start(t) ==
  /\ work[t] = "queued"
  /\ work' = [work EXCEPT ![t] = "running"]
  /\ UNCHANGED life

(* A run ends, or is over as soon as it starts; a task that says it is     *)
(* completed takes what is scheduled for its configuration with it.        *)
End(t, completed) ==
  /\ work[t] # "out"
  /\ work' = [work EXCEPT ![t] = "out"]
  /\ life' = Without(IF completed THEN Scheduled(Cfg(t)) ELSE {})

Remove(c) ==
  /\ life' = Without(Scheduled(c))
  /\ UNCHANGED work

(* Of the given lives, all that are removed and out of the executor are    *)
(* cleaned up: those in done at once.                                      *)
Sweep(lives, done) ==
  LET todo == {t \in Task : lives[t] = "removed" /\ work[t] = "out"} IN
  /\ done \subseteq todo
  /\ life' = [t \in Task |-> IF t \in done THEN "gone"
                             ELSE IF t \in todo THEN "cleaning" ELSE lives[t]]
  /\ UNCHANGED work

CleanUp(done) == Sweep(life, done)

Shutdown(done) ==
  Sweep(Without({t \in Task : life[t] = "scheduled"}), done)

CleanedUp(t) ==
  /\ life[t] = "cleaning"
  /\ life' = [life EXCEPT ![t] = "gone"]
  /\ UNCHANGED work

Next ==
  \/ \E t \in Task : Add(t) \/ Submit(t) \/ Start(t) \/ CleanedUp(t)
  \/ \E t \in Task, completed \in BOOLEAN : End(t, completed)
  \/ \E c \in Config : Remove(c)
  \/ \E done \in SUBSET Task : CleanUp(done) \/ Shutdown(done)

Spec == Init /\ [][Next]_lifeVars
=============================================================================
