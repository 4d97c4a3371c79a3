------------------------ MODULE MCEventQueueManager ------------------------
(* Instances of EventQueueManager for TLC.                                 *)
EXTENDS EventQueueManager

CONSTANTS interface, disk, cpu

MCClass == {interface, disk, cpu}
MCQueueOf == [k \in MCClass |-> IF k = cpu THEN "perf" ELSE "event"]
MCTwoClasses == {interface, cpu}
MCTwoQueueOf == [k \in MCTwoClasses |-> IF k = cpu THEN "perf" ELSE "event"]
MCOneClass == {interface}
MCOneQueueOf == [k \in MCOneClass |-> "event"]

Opts(dedup, allow, interval, len, size) ==
  [deduplicate_events |-> dedup, allowduplicateclears |-> allow,
   duplicateclearinterval |-> interval, maxqueuelen |-> len,
   eventflushchunksize |-> size]

(* The defaults with each kind of queue, chunks smaller than the queues,   *)
(* and clears let through every second time or always.                     *)
MCOptions == {Opts(FALSE, FALSE, 0, 2, 2), Opts(TRUE, FALSE, 0, 2, 2),
              Opts(FALSE, TRUE, 2, 2, 1), Opts(FALSE, TRUE, 0, 3, 2)}

MCDefault == {Opts(FALSE, FALSE, 0, 1, 2)}
MCDeduplicating == {Opts(TRUE, TRUE, 0, 3, 2)}
=============================================================================
