---------------------------- MODULE CallService ----------------------------
(***************************************************************************)
(* What ZenHub promises the collectors that call it: a call waits, is run  *)
(* and is answered, each of it once.  Calls of a method are begun in the   *)
(* order they arrived in.  A call that was begun is never begun again,     *)
(* whatever becomes of it, and none is answered before.  Of workers, lists *)
(* and connections it says nothing.  HubWorkers is shown to implement it.  *)
(***************************************************************************)
EXTENDS Naturals, Sequences

CONSTANT Method  \* methods of a call that have a list of their own

VARIABLES
  method,   \* the methods of the calls so far, which are numbered
  waiting,  \* the calls that were not begun
  running,  \* the calls that are run
  answered  \* the calls whose caller has the answer, or an error

callVars == <<method, waiting, running, answered>>

Init == method = <<>> /\ waiting = {} /\ running = {} /\ answered = {}

(* Of the calls some are begun, perhaps none: of each method the oldest.   *)
Begin(calls, meth) ==
  /\ \E begun \in SUBSET calls :
       /\ \A a \in begun, b \in calls \ begun : meth[a] = meth[b] => a < b
       /\ waiting' = calls \ begun
       /\ running' = running \cup begun
  /\ UNCHANGED answered

Call(m) ==
  /\ method' = Append(method, m)
  /\ Begin(waiting \cup {Len(method) + 1}, Append(method, m))

Start == Begin(waiting, method) /\ UNCHANGED method

Answer(c) ==
  /\ c \in running
  /\ running' = running \ {c}
  /\ answered' = answered \cup {c}
  /\ UNCHANGED <<method, waiting>>

Next ==
  \/ \E m \in Method : Call(m)
  \/ Start
  \/ \E c \in running : Answer(c)

Spec == Init /\ [][Next]_callVars
=============================================================================
