--------------------------- MODULE Procrastinator ---------------------------
(***************************************************************************)
(* Procrastinate (Products/ZenHub/services/Procrastinator.py): devices     *)
(* whose configuration has changed wait until five seconds have gone by    *)
(* without another change, then they are pushed one by one, a timer apart. *)
(*                                                                         *)
(* Left out: stop, which nothing in the tree calls.                        *)
(***************************************************************************)
EXTENDS Naturals

CONSTANT Device   \* the devices of a hub service

VARIABLES
  waiting,  \* devices: changed, not pushed yet
  later,    \* timer: the stored call of _doNow, which doLater postpones
  nows      \* the other calls of _doNow on their way, 0.05 seconds apart

waitVars == <<waiting, later, nows>>

Init == waiting = {} /\ later = FALSE /\ nows = 0

(* doLater, for each of a set of devices.                                  *)
doLater(devices) ==
  /\ waiting' = waiting \cup devices
  /\ later' = (later \/ devices # {})
  /\ UNCHANGED nows

(* Mutant of doNow: the rest waits for the next change.                    *)
SingleDoNow(device, raises) ==
  /\ waiting' = waiting \ device
  /\ \/ later /\ later' = FALSE /\ nows' = nows
     \/ nows > 0 /\ nows' = nows - 1 /\ UNCHANGED later

(* _doNow, called by one of the timers.  It pushes a device, if any is     *)
(* left, and sets a timer for the rest, unless the push raises.            *)
doNow(device, raises) ==
  /\ waiting' = waiting \ device
  /\ LET more == IF device = {} \/ raises \/ waiting' = {} THEN 0 ELSE 1
     IN \/ later /\ later' = FALSE /\ nows' = nows + more
        \/ nows > 0 /\ nows' = nows - 1 + more /\ UNCHANGED later

Due(device) == IF waiting = {} THEN device = {}
               ELSE \E d \in waiting : device = {d}

Next ==
  \/ \E devices \in SUBSET Device : doLater(devices)
  \/ \E device \in SUBSET Device : Due(device) /\ doNow(device, FALSE)

Spec == Init /\ [][Next]_waitVars

-----------------------------------------------------------------------------
TypeOK == waiting \subseteq Device /\ later \in BOOLEAN /\ nows \in Nat

(* While pushes do not raise, a device that waits always has a timer that  *)
(* will come for it.                                                       *)
TimerPending == waiting # {} => later \/ nows > 0
=============================================================================
