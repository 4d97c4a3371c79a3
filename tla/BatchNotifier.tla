---------------------------- MODULE BatchNotifier ----------------------------
(***************************************************************************)
(* BatchNotifier (Products/ZenHub/notify.py): when a device class changes, *)
(* its devices are gone through in batches, a timer apart, and the service *)
(* is told of each.  Items wait in a queue; the current one holds a        *)
(* generator, which first looks for the devices when it is first advanced. *)
(*                                                                         *)
(* The items of the one class modelled are alike, so the queue is their    *)
(* number.  Left out: stop and whenEmpty, which only tests call, and what  *)
(* happens when a service's own function raises: it is logged.             *)
(***************************************************************************)
EXTENDS Naturals, FiniteSets

CONSTANTS
  Device,     \* the devices of the class
  BatchSize   \* _BATCH_SIZE

VARIABLES
  queued,   \* items in _queue
  current,  \* _current_item: "none", "new", or "begun"
  rest,     \* devices the generator of a begun item still has
  timers    \* calls of _callback on their way

batchVars == <<queued, current, rest, timers>>

Init == queued = 0 /\ current = "none" /\ rest = {} /\ timers = 0

(* A queued item of the class is used, unless it is filtered; otherwise a  *)
(* new one is queued, with a timer if nothing else is in course.           *)
notify_subdevices ==
  /\ \/ queued > 0 /\ UNCHANGED <<queued, timers>>
     \/ /\ queued' = queued + 1
        /\ timers' = IF queued = 0 /\ current = "none"
                     THEN timers + 1 ELSE timers
  /\ UNCHANGED <<current, rest>>

(* Mutant of Continue: only the next item gets a timer, not the begun one. *)
SilentContinue(item, left, waiting) ==
  /\ current' = item /\ rest' = left /\ queued' = waiting
  /\ timers' = IF item = "new" THEN timers ELSE timers - 1

(* The timer that came is used up; there is another while an item is left. *)
Continue(item, left, waiting) ==
  /\ current' = item /\ rest' = left /\ queued' = waiting
  /\ timers' = IF item = "none" THEN timers - 1 ELSE timers

(* _callback: the service is told of a batch of the devices.  The item is  *)
(* exhausted when fewer are found than a batch holds, or when the          *)
(* generator raises, and the next one is taken from the queue.             *)
callback(devices, batch, raises) ==
  /\ timers > 0 /\ (current # "none" \/ queued > 0)
  /\ LET waiting == IF current = "none" THEN queued - 1 ELSE queued
         found == IF current = "begun" THEN rest ELSE devices
         item == IF waiting > 0 THEN "new" ELSE "none"
     IN /\ batch \subseteq found /\ Cardinality(batch) <= BatchSize
        /\ \/ /\ Cardinality(batch) = BatchSize
              /\ Continue("begun", found \ batch, waiting)
           \/ /\ Cardinality(batch) < BatchSize
              /\ batch = found \/ raises
              /\ Continue(item, {}, IF waiting > 0 THEN waiting - 1 ELSE 0)

Next ==
  \/ notify_subdevices
  \/ \E devices, batch \in SUBSET Device, raises \in BOOLEAN :
       callback(devices, batch, raises)

Spec == Init /\ [][Next]_batchVars

-----------------------------------------------------------------------------
TypeOK ==
  /\ queued \in Nat /\ timers \in Nat
  /\ current \in {"none", "new", "begun"} /\ rest \subseteq Device

(* Work is pending if and only if exactly one timer will come for it, over *)
(* generators that raise and items switched; two would make two batches at *)
(* once, none would leave the queue for ever.                              *)
OneTimer == timers = IF queued = 0 /\ current = "none" THEN 0 ELSE 1
=============================================================================
