---------------------------- MODULE EventQueues -----------------------------
(***************************************************************************)
(* The bounded queues a collector keeps its events in until ZenHub takes   *)
(* them (Products/ZenHub/PBDaemon.py: DequeEventQueue, DeDupingEventQueue) *)
(* as operators on values.                                                 *)
(*                                                                         *)
(* An event is of a class (what a clear clears: device, component, key and *)
(* event class), is a problem or a clear, carries the count of the         *)
(* occurrences merged into it (an event without a count field counts one), *)
(* and the number of its latest occurrence.  A queue is a sequence, oldest *)
(* entry first.  The de-duplicating queue is an OrderedDict: its entries   *)
(* also carry the key they were stored under, which is the fingerprint the *)
(* event had at that time.                                                 *)
(***************************************************************************)
EXTENDS Integers, Sequences, FiniteSets, SequencesExt

(* The default fingerprint covers every field of the event but its times,  *)
(* so it covers the count: merging changes an event's fingerprint, and an  *)
(* entry that is stored again after that gets another key.                 *)
Fingerprint(e) == <<e.class, e.clear, e.count>>

Entry(class, clear, arrival) ==
  [class |-> class, clear |-> clear, count |-> 1, last |-> arrival,
   key |-> <<class, clear, 1>>]

HasKey(queue, key) == \E i \in DOMAIN queue : queue[i].key = key
PlaceOf(queue, key) == CHOOSE i \in DOMAIN queue : queue[i].key = key

(* The oldest entry is dropped when a queue of maxlen entries grows.       *)
Pushed(queue, e, maxlen) ==
  IF Len(queue) = maxlen
  THEN [queue |-> Append(Tail(queue), e), discarded |-> <<Head(queue)>>]
  ELSE [queue |-> Append(queue, e), discarded |-> <<>>]

(* Mutant of Appended: the newest event is dropped instead of the oldest.  *)
RefusingAppended(queue, e, maxlen, dedup) ==
  IF Len(queue) = maxlen
  THEN [queue |-> queue, discarded |-> <<e>>]
  ELSE [queue |-> Append(queue, e), discarded |-> <<>>]

(* append: an event whose fingerprint is in the de-duplicating queue takes *)
(* over the count of that entry and its key, and goes to the end.          *)
Appended(queue, e, maxlen, dedup) ==
  IF dedup /\ HasKey(queue, e.key)
  THEN LET old == PlaceOf(queue, e.key)
       IN  [queue |-> Append(RemoveAt(queue, old),
                             [e EXCEPT !.count = queue[old].count + 1]),
            discarded |-> <<>>]
  ELSE Pushed(queue, e, maxlen)

(* An event stored in an OrderedDict: a key that is there keeps its place. *)
Stored(dict, e) ==
  LET entry == [e EXCEPT !.key = Fingerprint(e)]
  IN  IF HasKey(dict, entry.key)
      THEN [dict EXCEPT ![PlaceOf(dict, entry.key)] = entry]
      ELSE Append(dict, entry)

(* An event put back is merged into the entry with its fingerprint in the  *)
(* de-duplicating queue, which counts one more, or is to be added.         *)
Merged(to, e) ==
  IF HasKey(to.queue, Fingerprint(e))
  THEN [to EXCEPT !.queue[PlaceOf(to.queue, Fingerprint(e))].count = @ + 1]
  ELSE [to EXCEPT !.events_to_add = Append(@, e)]

(* Mutant of Restored: the events go to the end of the queue.              *)
ReorderingRestored(queue, events, maxlen, dedup) ==
  LET room == maxlen - Len(queue)
      excess == IF Len(events) > room THEN Len(events) - room ELSE 0
  IN  [queue |-> queue \o SubSeq(events, excess + 1, Len(events)),
       discarded |-> SubSeq(events, 1, excess)]

(* Mutant of Restored: one event more than fits is put back.               *)
OverfullRestored(queue, events, maxlen, dedup) ==
  LET room == maxlen - Len(queue) + 1
      excess == IF Len(events) > room THEN Len(events) - room ELSE 0
  IN  [queue |-> SubSeq(events, excess + 1, Len(events)) \o queue,
       discarded |-> SubSeq(events, 1, excess)]

(* extendleft: the events, in order, are put before the queue, less those *)
(* the de-duplicating queue merges; the oldest that do not fit are dropped.*)
Restored(queue, events, maxlen, dedup) ==
  LET merged ==
        IF dedup
        THEN FoldLeft(Merged, [queue |-> queue, events_to_add |-> <<>>], events)
        ELSE [queue |-> queue, events_to_add |-> events]
      toAdd == merged.events_to_add
      available == maxlen - Len(queue)
      excess == IF Len(toAdd) > available THEN Len(toAdd) - available ELSE 0
      kept == SubSeq(toAdd, excess + 1, Len(toAdd))
  IN  [queue |-> (IF dedup THEN FoldLeft(Stored, <<>>, kept) ELSE kept)
                   \o merged.queue,
       discarded |-> SubSeq(toAdd, 1, excess)]

(* The occurrences a sequence of events stands for.                        *)
Occurrences(events) == FoldLeft(LAMBDA n, e : n + e.count, 0, events)
=============================================================================
