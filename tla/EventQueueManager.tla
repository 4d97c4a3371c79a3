------------------------- MODULE EventQueueManager --------------------------
(***************************************************************************)
(* How a collector daemon gets its events to ZenHub (Products/ZenHub/      *)
(* PBDaemon.py: EventQueueManager, pushEvents, _stopPbDaemon).             *)
(*                                                                         *)
(* Events are queued by class of queue; repeated clears are suppressed; a  *)
(* push swaps the queues for new ones and sends the old ones in chunks,    *)
(* waiting for the hub's answer to each, while the daemon goes on queueing;*)
(* a chunk that fails puts everything not yet acknowledged back in front   *)
(* of what was queued meanwhile.  Stopping the daemon flushes once more.   *)
(*                                                                         *)
(* The heartbeat (one at most, sent first, never put back) only takes a    *)
(* place in the first chunk of a push.  Event transformers, which drop     *)
(* events before they reach the queues, are left out.                      *)
(***************************************************************************)
EXTENDS EventQueues

CONSTANTS
  Class,       \* what a clear clears
  QueueOf,     \* the queue the events of a class go to: "perf" or "event"
  Options,     \* the command line options the daemon may have
  MaxEvents,   \* bound: events the daemon generates before its stop event
  MaxFailures  \* bound: calls to the hub that fail and connections lost

Queues == {"perf", "event"}

ASSUME QueueOfAssumption == QueueOf \in [Class -> Queues]
ASSUME OptionsAssumption ==
  Options \subseteq [deduplicate_events: BOOLEAN,
                     allowduplicateclears: BOOLEAN,
                     duplicateclearinterval: Nat,
                     maxqueuelen: Nat \ {0},
                     eventflushchunksize: Nat \ {0}]

VARIABLES
  options,    \* the options, which never change
  queue,      \* event_queue and perf_event_queue
  prev,       \* the swapped queues, less what was taken from them
  chunk,      \* the events of the call to the hub in course
  pushing,    \* _pushEventsDeferred is set
  clearCount, \* clear_events_count: a function on the classes it holds
  discarded_events, \* the counter, with what was moved to self.counters
  connected,  \* services has the hub's EventService
  life,       \* "up", "stopping" (self.stopped is set) or "stopped"
  flushQueued,\* _stopPbDaemon put a push behind the one in course
  failures,   \* history: failures of calls and connections
  arrived,    \* history: events generated
  occurrences,\* history: by fate, "accepted" (not suppressed), "delivered"
              \* (the hub acknowledged them) and "lost" (discarded), and the
              \* entries they were discarded in, "dropped"
  latest,     \* history: whether the latest event of a class is a clear
  hubLatest,  \* history: the same of the events the hub has seen
  stopMark    \* history: the events up to this one must be flushed, 0: none

queueVars == <<queue, clearCount, discarded_events>>
pushVars == <<prev, chunk, pushing>>
stopVars == <<life, flushQueued, stopMark>>
vars == <<options, queueVars, pushVars, connected, stopVars, failures,
          arrived, occurrences, latest, hubLatest>>

Empty == [q \in Queues |-> <<>>]
Pending(q) == chunk[q] \o prev[q] \o queue[q]
PendingEvents == Pending("perf") \o Pending("event")

Init ==
  /\ options \in Options
  /\ queue = Empty /\ prev = Empty /\ chunk = Empty
  /\ pushing = FALSE
  /\ clearCount = <<>>
  /\ discarded_events = 0
  /\ connected = TRUE
  /\ life = "up" /\ flushQueued = FALSE
  /\ failures = 0 /\ arrived = 0
  /\ occurrences = [accepted |-> 0, delivered |-> 0, lost |-> 0,
                    dropped |-> 0]
  /\ latest = [k \in Class |-> FALSE]
  /\ hubLatest = [k \in Class |-> FALSE]
  /\ stopMark = 0

-----------------------------------------------------------------------------
(* Clear suppression.                                                      *)

CountsClears ==
  ~options.allowduplicateclears \/ options.duplicateclearinterval > 0

current_count(k) == IF k \in DOMAIN clearCount THEN clearCount[k] ELSE 0

Suppressed(k, clear) ==
  /\ clear
  /\ \/ ~options.allowduplicateclears /\ current_count(k) # 0
     \/ /\ options.duplicateclearinterval > 0
        /\ current_count(k) % options.duplicateclearinterval # 0

(* Mutant of Counted: a problem does not end the run of clears before it.  *)
StickyCounted(k, clear) ==
  IF CountsClears /\ clear
  THEN [j \in DOMAIN clearCount \cup {k} |->
          IF j = k THEN current_count(k) + 1 ELSE clearCount[j]]
  ELSE clearCount

(* clear_events_count when an event arrives.                               *)
Counted(k, clear) ==
  IF ~CountsClears THEN clearCount
  ELSE IF clear THEN [j \in DOMAIN clearCount \cup {k} |->
                        IF j = k THEN current_count(k) + 1 ELSE clearCount[j]]
       ELSE Restrict(clearCount, DOMAIN clearCount \ {k})

(* _removeDiscardedEventFromClearState for each of the discarded events.   *)
Forgotten(counts, discarded) ==
  LET Clears(k) == {i \in DOMAIN discarded :
                      discarded[i].clear /\ discarded[i].class = k}
  IN  IF ~options.allowduplicateclears /\ options.duplicateclearinterval = 0
      THEN [k \in DOMAIN counts |-> counts[k] - Cardinality(Clears(k))]
      ELSE counts

(* Mutant of Added: what an overflow discards is not counted.              *)
UncountedAdded(k, clear) ==
  /\ arrived' = arrived + 1
  /\ latest' = [latest EXCEPT ![k] = clear]
  /\ discarded_events' = discarded_events
  /\ IF Suppressed(k, clear)
     THEN clearCount' = Counted(k, clear) /\ occurrences' = occurrences
     ELSE LET new == Appended(queue[QueueOf[k]], Entry(k, clear, arrived + 1),
                              options.maxqueuelen, options.deduplicate_events)
          IN  /\ clearCount' = Forgotten(Counted(k, clear), new.discarded)
              /\ occurrences' =
                   [occurrences EXCEPT !.accepted = @ + 1,
                                       !.lost = @ + Occurrences(new.discarded),
                                       !.dropped = @ + Len(new.discarded)]

(* _addEvent                                                               *)
Added(k, clear) ==
  /\ arrived' = arrived + 1
  /\ latest' = [latest EXCEPT ![k] = clear]
  /\ IF Suppressed(k, clear)
     THEN /\ clearCount' = Counted(k, clear)
          /\ occurrences' = occurrences
          /\ discarded_events' = discarded_events
     ELSE LET new == Appended(queue[QueueOf[k]], Entry(k, clear, arrived + 1),
                              options.maxqueuelen, options.deduplicate_events)
          IN  /\ clearCount' = Forgotten(Counted(k, clear), new.discarded)
              /\ discarded_events' = discarded_events + Len(new.discarded)
              /\ occurrences' =
                   [occurrences EXCEPT !.accepted = @ + 1,
                                       !.lost = @ + Occurrences(new.discarded),
                                       !.dropped = @ + Len(new.discarded)]

(* The queues after _addEvent.                                             *)
QueuesWith(k, clear) ==
  IF Suppressed(k, clear) THEN queue
  ELSE [queue EXCEPT ![QueueOf[k]] =
          Appended(@, Entry(k, clear, arrived + 1), options.maxqueuelen,
                   options.deduplicate_events).queue]

addEvent(k, clear) ==
  /\ life # "stopped"
  /\ arrived < MaxEvents
  /\ Added(k, clear)
  /\ queue' = QueuesWith(k, clear)
  /\ UNCHANGED <<options, pushVars, connected, stopVars, failures, hubLatest>>

-----------------------------------------------------------------------------
(* Pushing.                                                                *)

(* chunk_events: the heartbeat, then performance events, then the others.  *)
Chunked(queues, heartbeats) ==
  LET size == options.eventflushchunksize - heartbeats
      Least(m, n) == IF m < n THEN m ELSE n
      perf == Least(size, Len(queues["perf"]))
      taken == [perf |-> perf,
                event |-> Least(size - perf, Len(queues["event"]))]
  IN  [chunk |-> [q \in Queues |-> SubSeq(queues[q], 1, taken[q])],
       rest |-> [q \in Queues |->
                   SubSeq(queues[q], taken[q] + 1, Len(queues[q]))]]

(* Swap the queues and send the first chunk, if there is anything to send. *)
StartPush(queues) ==
  \E heartbeats \in 0..1 :
    LET first == Chunked(queues, heartbeats)
    IN  /\ queue' = Empty
        /\ chunk' = first.chunk
        /\ prev' = first.rest
        /\ pushing' = (heartbeats > 0 \/ queues # Empty)

(* pushEventsLoop has the daemon push from time to time.                   *)
pushEvents ==
  /\ life # "stopped" /\ ~pushing /\ connected
  /\ StartPush(queue)
  /\ UNCHANGED <<options, clearCount, discarded_events, connected, stopVars,
                 failures, arrived, occurrences, latest, hubLatest>>

(* The hub goes through a chunk in order.                                  *)
HubSees ==
  LET At(k) == {i \in DOMAIN chunk[QueueOf[k]] : chunk[QueueOf[k]][i].class = k}
  IN  [k \in Class |-> IF At(k) = {} THEN hubLatest[k]
                       ELSE chunk[QueueOf[k]][Max(At(k))].clear]

(* Mutant of EndPush: _pushEventsDeferred is not reset.                    *)
StuckEndPush(queues) ==
  /\ flushQueued' = FALSE
  /\ queue' = queues /\ chunk' = Empty /\ prev' = Empty
  /\ pushing' = TRUE
  /\ UNCHANGED life

(* Mutant of EndPush: the Deferred is forgotten without being called back. *)
UncalledEndPush(queues) ==
  /\ flushQueued' = FALSE
  /\ queue' = queues /\ chunk' = Empty /\ prev' = Empty
  /\ pushing' = FALSE
  /\ UNCHANGED life

(* The push in course is over and leaves the queues as given: its Deferred *)
(* is called back and the push the daemon's stop put behind it is made.    *)
EndPush(queues) ==
  /\ flushQueued' = FALSE
  /\ IF flushQueued
     THEN StartPush(queues) /\ UNCHANGED life
     ELSE /\ queue' = queues /\ chunk' = Empty /\ prev' = Empty
          /\ pushing' = FALSE
          /\ life' = IF life = "stopping" THEN "stopped" ELSE life

sendEventsAnswered ==
  /\ pushing
  /\ hubLatest' = HubSees
  /\ occurrences' = [occurrences EXCEPT !.delivered =
                       @ + Occurrences(chunk["perf"] \o chunk["event"])]
  /\ IF prev = Empty
     THEN EndPush(queue)
     ELSE /\ chunk' = Chunked(prev, 0).chunk
          /\ prev' = Chunked(prev, 0).rest
          /\ UNCHANGED <<queue, pushing, life, flushQueued>>
  /\ UNCHANGED <<options, clearCount, discarded_events, connected, stopMark,
                 failures, arrived, latest>>

(* Events put back in the queues, with those that did not fit.             *)
PutBack(queues, events) ==
  [q \in Queues |-> Restored(queues[q], events[q], options.maxqueuelen,
                             options.deduplicate_events)]

Dropped(back) == back["perf"].discarded \o back["event"].discarded

(* A call fails: the hub answers with an error, or the connection is lost, *)
(* which the calls in course are told before 'EventService' is removed     *)
(* from services, so that a push behind this one fails at once.  The hub   *)
(* may or may not have gone through the events.                            *)
sendEventsFailed ==
  /\ pushing /\ failures < MaxFailures
  /\ failures' = failures + 1
  /\ connected' \in BOOLEAN
  /\ hubLatest' \in {hubLatest, HubSees}
  /\ LET back == PutBack(queue, [q \in Queues |-> chunk[q] \o prev[q]])
         restored == [q \in Queues |-> back[q].queue]
         again == PutBack(Empty, restored)
     IN  /\ discarded_events' = discarded_events + Len(Dropped(back))
         /\ occurrences' =
              [occurrences EXCEPT !.lost = @ + Occurrences(Dropped(back)),
                                  !.dropped = @ + Len(Dropped(back))]
         /\ clearCount' = Forgotten(clearCount, Dropped(back))
         /\ IF connected' THEN EndPush(restored)
            ELSE /\ queue' = IF flushQueued
                             THEN [q \in Queues |-> again[q].queue]
                             ELSE restored
                 /\ chunk' = Empty /\ prev' = Empty /\ pushing' = FALSE
                 /\ flushQueued' = FALSE
                 /\ life' = IF life = "stopping" THEN "stopped" ELSE life
         /\ stopMark' = IF connected' /\ flushQueued THEN stopMark ELSE 0
  /\ UNCHANGED <<options, arrived, latest>>

(* The connection is lost with no call in course; it comes back later.     *)
connectionLost ==
  /\ connected /\ ~pushing /\ life # "stopped" /\ failures < MaxFailures
  /\ connected' = FALSE
  /\ failures' = failures + 1
  /\ UNCHANGED <<options, queueVars, pushVars, stopVars, arrived, occurrences,
                 latest, hubLatest>>

gotPerspective ==
  /\ ~connected /\ life # "stopped"
  /\ connected' = TRUE
  /\ UNCHANGED <<options, queueVars, pushVars, stopVars, failures, arrived,
                 occurrences, latest, hubLatest>>

-----------------------------------------------------------------------------
(* Stopping.                                                               *)

(* The stop event is a problem in the event queue.                         *)
StopClasses == {k \in Class : QueueOf[k] = "event"}

(* Mutant of stopConnected: no push is put behind the one in course.       *)
UnflushedStop ==
  \E k \in StopClasses :
    /\ life = "up" /\ connected
    /\ Added(k, FALSE)
    /\ stopMark' = arrived + 1
    /\ life' = "stopping"
    /\ flushQueued' = FALSE
    /\ IF pushing THEN queue' = QueuesWith(k, FALSE) /\ UNCHANGED pushVars
                  ELSE StartPush(QueuesWith(k, FALSE))
    /\ UNCHANGED <<options, connected, failures, hubLatest>>

(* _stopPbDaemon, on the reactor's shutdown.                               *)
stopConnected ==
  \E k \in StopClasses :
    /\ life = "up" /\ connected
    /\ Added(k, FALSE)
    /\ stopMark' = arrived + 1
    /\ life' = "stopping"
    /\ flushQueued' = pushing
    /\ IF pushing THEN queue' = QueuesWith(k, FALSE) /\ UNCHANGED pushVars
                  ELSE StartPush(QueuesWith(k, FALSE))
    /\ UNCHANGED <<options, connected, failures, hubLatest>>

stopDisconnected ==
  /\ life = "up" /\ ~connected
  /\ life' = "stopped"
  /\ UNCHANGED <<options, queueVars, pushVars, connected, flushQueued, stopMark,
                 failures, arrived, occurrences, latest, hubLatest>>

Next ==
  \/ \E k \in Class, clear \in BOOLEAN : addEvent(k, clear)
  \/ pushEvents
  \/ sendEventsAnswered
  \/ sendEventsFailed
  \/ connectionLost
  \/ gotPerspective
  \/ stopConnected
  \/ stopDisconnected

(* The timer of pushEventsLoop is always set, calls are answered or fail   *)
(* with the connection, and the client factory goes on reconnecting.       *)
Fairness ==
  /\ WF_vars(pushEvents /\ queue # Empty)
  /\ WF_vars(sendEventsAnswered)
  /\ WF_vars(gotPerspective)

Spec == Init /\ [][Next]_vars /\ Fairness

-----------------------------------------------------------------------------
(* Properties.                                                             *)

Total == occurrences["delivered"] + Occurrences(PendingEvents)
           + occurrences["lost"]

(* Neither queue outgrows maxqueuelen, whatever a failed push puts back in *)
(* it, and something is taken from the queues only while a push is on.     *)
TypeOK ==
  /\ \A q \in Queues : /\ Len(queue[q]) <= options.maxqueuelen
                       /\ Len(chunk[q] \o prev[q]) <= options.maxqueuelen
                       /\ \A i \in DOMAIN Pending(q) :
                            QueueOf[Pending(q)[i].class] = q
  /\ DOMAIN clearCount \subseteq Class
  /\ life \in {"up", "stopping", "stopped"}
  /\ ~pushing => prev = Empty /\ chunk = Empty /\ ~flushQueued
                 /\ life # "stopping"
  /\ pushing => connected

(* No silent loss: every occurrence the daemon accepted is with the hub,   *)
(* still to be sent, or was discarded, and the daemon's own counter of     *)
(* discarded events holds every entry that an overflow or a failed push    *)
(* threw away: without de-duplication it makes up for exactly what is      *)
(* missing.  With de-duplication an entry stands for several occurrences   *)
(* and merging may forget some, but counts none twice (_addEvent,          *)
(* sendEvents, extendleft).                                                *)
Conservation ==
  /\ Total <= occurrences["accepted"]
  /\ discarded_events = occurrences["dropped"]
  /\ ~options.deduplicate_events =>
       /\ Total = occurrences["accepted"]
       /\ occurrences["lost"] = discarded_events

(* A failed push does not reorder what it puts back: the hub is sent the   *)
(* events of a queue in the order they arrived in (sendEvents, extendleft).*)
ArrivalOrder ==
  ~options.deduplicate_events =>
    \A q \in Queues : \A i, j \in DOMAIN Pending(q) :
      i < j => Pending(q)[i].last < Pending(q)[j].last

(* Suppressing clears never leaves the hub with a problem the daemon saw   *)
(* cleared, as long as no event was discarded: once nothing of a class is  *)
(* pending, the hub's last word on it is the daemon's.                     *)
HubReflectsLatest ==
  ~options.deduplicate_events /\ discarded_events = 0 =>
    \A k \in Class :
      (\A i \in DOMAIN PendingEvents : PendingEvents[i].class # k) =>
        hubLatest[k] = latest[k]

(* A daemon that stops while connected leaves nothing behind that was      *)
(* queued before its stop event, nor the stop event: when a push was on,   *)
(* the one queued behind it makes up even for an error in the first        *)
(* (_stopPbDaemon).                                                        *)
StopFlushes ==
  life = "stopped" /\ stopMark > 0 =>
    \A i \in DOMAIN PendingEvents : PendingEvents[i].last > stopMark

(* Once calls no longer fail, a daemon that goes on running gets all its   *)
(* events to the hub (pushEventsLoop, pushEvents' guard on the push in     *)
(* course).                                                                *)
EventsReachHub == []<>(PendingEvents = <<>> \/ life # "up")

(* The reactor's shutdown, which waits for _stopPbDaemon, is not held up.  *)
StopCompletes == life = "stopping" ~> life = "stopped"

(* What the comment on _removeDiscardedEventFromClearState promises: no    *)
(* clear is dropped as a duplicate unless the hub knows the class cleared  *)
(* or is about to be told.  The code does not keep it.                     *)
DroppedClearsAreKnown ==
  \A k \in Class :
    LET mine == {i \in DOMAIN PendingEvents : PendingEvents[i].class = k}
    IN  Suppressed(k, TRUE) =>
          IF mine = {} THEN hubLatest[k] ELSE PendingEvents[Max(mine)].clear

(* What DeDupingEventQueue says it does: an event with the fingerprint of  *)
(* another adds to its count, and what does not fit is returned, so that   *)
(* every occurrence stays accounted for.  The code does not keep it, even  *)
(* while the daemon runs.                                                  *)
MergingKeepsCount == life = "up" => Total = occurrences["accepted"]
=============================================================================
