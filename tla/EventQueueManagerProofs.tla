----------------------- MODULE EventQueueManagerProofs ----------------------
(***************************************************************************)
(* Proofs about EventQueueManager for any classes of events, options and   *)
(* bounds.                                                                 *)
(*                                                                         *)
(* What is pending in a queue is the chunk, the rest of the push and the   *)
(* queue in this order; lemmas say what each step leaves pending, and from *)
(* it follow, with and without de-duplication, that events keep to their   *)
(* queues (Routed) and that their occurrences are accounted for (Ledger).  *)
(* StopFlushes also holds in both cases: once the push behind the stop has *)
(* begun, all that is queued came after it (Flushed).  The other two are   *)
(* promises without de-duplication: the order of what is pending (Plain)   *)
(* and what the hub will know when it has all of it (Informed).            *)
(***************************************************************************)
EXTENDS EventQueueManager, SequenceFolds

(* Events that came after number n, and any events.                        *)
Later(n) == [class : Class, clear : BOOLEAN, count : Nat \ {0},
             last : {m \in Nat : m > n}, key : Class \X BOOLEAN \X Nat]
Event == Later(0)

(* A list in the order of arrival, of events up to number n, each of which *)
(* stands for one occurrence.                                              *)
Ordered(s, n) ==
  /\ \A i, j \in 1..Len(s) : i < j => s[i].last < s[j].last
  /\ \A i \in 1..Len(s) : s[i].last <= n /\ s[i].count = 1

(* A list says nothing of a class; its last word on it; when a hub that    *)
(* knows h has gone through it, it knows v.                                *)
Silent(s, k) == \A i \in 1..Len(s) : s[i].class # k
LastWord(s, k, i) ==
  s[i].class = k /\ \A j \in 1..Len(s) : j > i => s[j].class # k
Ends(s, k, v, h) ==
  \/ Silent(s, k) /\ h = v
  \/ \E i \in 1..Len(s) : LastWord(s, k, i) /\ s[i].clear = v

(* The variables that say what the daemon is doing.                        *)
Control ==
  /\ options \in Options
  /\ life \in {"up", "stopping", "stopped"}
  /\ pushing \in BOOLEAN /\ flushQueued \in BOOLEAN
  /\ arrived \in Nat /\ stopMark \in Nat /\ stopMark <= arrived
  /\ life = "up" => stopMark = 0 /\ ~flushQueued
  /\ life = "stopped" => ~pushing /\ ~flushQueued
  /\ pushing => connected
  /\ ~pushing => chunk = Empty /\ prev = Empty

(* Behind the push that flushes there are only events after the stop.      *)
Flushed ==
  stopMark > 0 /\ ~flushQueued =>
    queue \in [Queues -> Seq(Later(stopMark))]

(* The queues are bounded, and so is what a push took from each.           *)
Lists ==
  /\ queue \in [Queues -> Seq(Event)]
  /\ prev \in [Queues -> Seq(Event)] /\ chunk \in [Queues -> Seq(Event)]
  /\ \A q \in Queues : Len(queue[q]) <= options.maxqueuelen

(* Every event is in the queue of its class.                               *)
OfQueue(q) == {e \in Event : QueueOf[e.class] = q}
Routed ==
  /\ Lists
  /\ \A q \in Queues : /\ Len(chunk[q] \o prev[q]) <= options.maxqueuelen
                       /\ Pending(q) \in Seq(OfQueue(q))

(* A daemon that is stopping is pushing, and the push behind the one in    *)
(* course has the stop event to send.                                      *)
Stopping ==
  /\ life = "stopping" => pushing
  /\ flushQueued => queue["event"] # <<>>

(* Without de-duplication the events are in order.                         *)
Plain ==
  ~options.deduplicate_events =>
    \A q \in Queues : Ordered(Pending(q), arrived)

(* Until something is discarded the hub will know what the daemon knows,   *)
(* and a class that has a count of clears is clear.                        *)
Counts(counts, clears) ==
  /\ ~CountsClears => DOMAIN counts = {}
  /\ \A k \in Class \cap DOMAIN counts :
       counts[k] \in Int /\ (counts[k] # 0 => clears[k])
Informed ==
  ~options.deduplicate_events =>
    /\ discarded_events \in Nat
    /\ discarded_events = 0 =>
         /\ latest \in [Class -> BOOLEAN]
         /\ Counts(clearCount, latest)
         /\ \A k \in Class :
              Ends(Pending(QueueOf[k]), k, latest[k], hubLatest[k])

(* The clears counted are of classes; every occurrence is accounted for.   *)
Books == [accepted : Nat, delivered : Nat, lost : Nat, dropped : Nat]
Ledger ==
  /\ DOMAIN clearCount \subseteq Class
  /\ occurrences \in Books
  /\ discarded_events \in Nat
  /\ Conservation

IInv == Control /\ Flushed /\ Routed /\ Stopping /\ Plain /\ Informed
          /\ Ledger

-----------------------------------------------------------------------------
(* The options have their types.                                           *)
LEMMA OptionTypes ==
  ASSUME NEW o \in Options
  PROVE  /\ o.deduplicate_events \in BOOLEAN
         /\ o.allowduplicateclears \in BOOLEAN
         /\ o.duplicateclearinterval \in Nat
         /\ o.maxqueuelen \in Nat \ {0} /\ o.eventflushchunksize \in Nat \ {0}
BY OptionsAssumption

(* An event's fields.                                                      *)
LEMMA EventFields ==
  ASSUME NEW n \in Nat, NEW e \in Later(n)
  PROVE  /\ e.class \in Class /\ e.clear \in BOOLEAN
         /\ e.count \in Nat \ {0} /\ Fingerprint(e) \in Class \X BOOLEAN \X Nat
         /\ e.last \in Nat /\ e.last > n /\ e \in Event
         /\ \A c \in Nat \ {0} : [e EXCEPT !.count = c] \in Later(n)
         /\ [e EXCEPT !.key = Fingerprint(e)] \in Later(n)
BY DEF Later, Event, Fingerprint

(* An event counts, and has a number.                                      *)
LEMMA CountIs == \A e \in Event : e.count \in Nat \ {0} /\ e.last \in Nat
BY DEF Event, Later

(* A new event.                                                            *)
LEMMA NewEntry ==
  ASSUME NEW k \in Class, NEW c \in BOOLEAN, NEW n \in Nat, NEW m \in Nat,
         n > m
  PROVE  Entry(k, c, n) \in Later(m) /\ Entry(k, c, n).class = k
         /\ Entry(k, c, n).clear = c /\ Entry(k, c, n).last = n
         /\ Entry(k, c, n).count = 1
BY DEF Entry, Later

-----------------------------------------------------------------------------
(* What is left when the oldest events are taken is still in order, ...    *)
LEMMA OrderedRest ==
  ASSUME NEW a \in Seq(Event), NEW b \in Seq(Event), NEW n \in Nat,
         Ordered(a \o b, n)
  PROVE  Ordered(b, n)
<1>1. \A i, j \in 1..Len(b) :
        Len(a) + i \in 1..Len(a \o b) /\ (a \o b)[Len(a) + i] = b[i]
        /\ (i < j => Len(a) + i < Len(a) + j)
  BY Joined
<1> QED
  BY <1>1 DEF Ordered

(* ... as it is when one in the middle goes, ...                           *)
LEMMA OrderedWithout ==
  ASSUME NEW a \in Seq(Event), NEW b \in Seq(Event), NEW n \in Nat,
         b # <<>>, Ordered(a \o b, n)
  PROVE  Ordered(a \o Tail(b), n)
<1> DEFINE c == a \o Tail(b)
           f(i) == IF i <= Len(a) THEN i ELSE i + 1
<1>1. /\ Tail(b) \in Seq(Event) /\ Len(Tail(b)) = Len(b) - 1
      /\ \A i \in 1..Len(Tail(b)) : Tail(b)[i] = b[i + 1]
      /\ Len(a) \in Nat /\ Len(b) \in Nat
  BY HeadTailProperties
<1>2. ASSUME NEW i \in 1..Len(c)
      PROVE  f(i) \in 1..Len(a \o b) /\ c[i] = (a \o b)[f(i)] /\ i \in Nat
  <2>1. CASE i \in 1..Len(a) /\ c[i] = a[i]
    BY <1>1, <2>1, Joined
  <2>2. CASE i > Len(a) /\ i - Len(a) \in 1..Len(Tail(b))
             /\ c[i] = Tail(b)[i - Len(a)]
    <3>1. /\ f(i) = Len(a) + ((i - Len(a)) + 1)
          /\ (i - Len(a)) + 1 \in 1..Len(b)
      BY <1>1, <2>2
    <3>2. (a \o b)[Len(a) + ((i - Len(a)) + 1)] = b[(i - Len(a)) + 1]
          /\ Len(a) + ((i - Len(a)) + 1) \in 1..Len(a \o b)
      BY <3>1, Joined
    <3>3. Tail(b)[i - Len(a)] = b[(i - Len(a)) + 1]
      BY <1>1, <2>2
    <3> QED
      BY <2>2, <3>1, <3>2, <3>3
  <2> QED
    BY <1>1, <2>1, <2>2, Joined
<1>3. ASSUME NEW i \in 1..Len(c), NEW j \in 1..Len(c), i < j
      PROVE  f(i) < f(j)
  <2>1. i \in Nat /\ j \in Nat
    BY <1>2
  <2> QED
    BY <1>1, <1>3, <2>1
<1> HIDE DEF c, f
<1>4. ASSUME NEW i \in 1..Len(c) PROVE c[i].last <= n /\ c[i].count = 1
  <2>1. \A j \in 1..Len(a \o b) : /\ (a \o b)[j].last <= n
                                 /\ (a \o b)[j].count = 1
    BY DEF Ordered
  <2> QED
    BY <1>2, <2>1
<1>5. \A i, j \in 1..Len(c) : i < j => c[i].last < c[j].last
  BY <1>2, <1>3 DEF Ordered
<1>6. Ordered(c, n)
  BY <1>4, <1>5 DEF Ordered
<1> QED
  BY <1>6 DEF c

(* ... and when a newer one comes.                                         *)
LEMMA OrderedNext ==
  ASSUME NEW s \in Seq(Event), NEW n \in Nat, NEW e \in Event,
         e.last = n + 1, e.count = 1, Ordered(s, n)
  PROVE  Ordered(Append(s, e), n + 1)
<1> DEFINE t == Append(s, e)
<1>1. /\ Len(t) = Len(s) + 1 /\ Len(s) \in Nat /\ t[Len(s) + 1] = e
      /\ \A i \in 1..Len(s) : t[i] = s[i]
  BY AppendProperties
<1>2. \A i \in 1..Len(s) : s[i].last \in Nat
  BY CountIs
<1> HIDE DEF t
<1>3. ASSUME NEW i \in 1..Len(t), NEW j \in 1..Len(t), i < j
      PROVE  t[i].last < t[j].last
  <2>1. i \in 1..Len(s)
    BY <1>1, <1>3
  <2>2. CASE j \in 1..Len(s)
    BY <1>1, <1>3, <2>1, <2>2 DEF Ordered
  <2>3. CASE j = Len(s) + 1
    <3>1. t[i].last <= n /\ t[i].last \in Nat /\ t[j].last = n + 1
      BY <1>1, <1>2, <2>1, <2>3 DEF Ordered
    <3> QED
      BY <3>1
  <2> QED
    BY <1>1, <2>2, <2>3
<1>4. ASSUME NEW i \in 1..Len(t) PROVE t[i].last <= n + 1 /\ t[i].count = 1
  <2>1. CASE i \in 1..Len(s)
    <3>1. t[i].last <= n /\ t[i].last \in Nat /\ t[i].count = 1
      BY <1>1, <1>2, <2>1 DEF Ordered
    <3> QED
      BY <3>1
  <2>2. CASE i = Len(s) + 1
    BY <1>1, <2>2
  <2> QED
    BY <1>1, <2>1, <2>2
<1>5. Ordered(t, n + 1)
  BY <1>3, <1>4 DEF Ordered
<1> QED
  BY <1>5 DEF t

(* A list in order up to n is in order up to n + 1.                        *)
LEMMA OrderedStill ==
  ASSUME NEW s \in Seq(Event), NEW n \in Nat, Ordered(s, n)
  PROVE  Ordered(s, n + 1)
<1>1. \A i \in 1..Len(s) : s[i].last \in Nat
  BY CountIs
<1> QED
  BY <1>1 DEF Ordered

(* The empty list is in order, and changes nothing in what the hub knows.  *)
LEMMA NothingOrdered ==
  /\ \A n : Ordered(<<>>, n)
  /\ \A k, v : Ends(<<>>, k, v, v)
BY DEF Ordered, Ends, Silent

(* The last word of a list with a new event at its end.                    *)
LEMMA EndsNext ==
  ASSUME NEW s \in Seq(Event), NEW e \in Event, NEW k \in Class,
         NEW v, NEW h, Ends(s, k, v, h) \/ e.class = k
  PROVE  Ends(Append(s, e), k, IF e.class = k THEN e.clear ELSE v, h)
<1> DEFINE t == Append(s, e)
<1>1. /\ Len(t) = Len(s) + 1 /\ Len(s) \in Nat /\ t[Len(s) + 1] = e
      /\ \A i \in 1..Len(s) : t[i] = s[i]
  BY AppendProperties
<1> HIDE DEF t
<1>2. CASE e.class = k
  <2>1. LastWord(t, k, Len(s) + 1) /\ Len(s) + 1 \in 1..Len(t)
    BY <1>1, <1>2 DEF LastWord
  <2> QED
    BY <1>1, <1>2, <2>1 DEF Ends, t
<1>3. CASE e.class # k
  <2>1. Ends(s, k, v, h)
    BY <1>3
  <2>2. CASE Silent(s, k) /\ h = v
    <3>1. Silent(t, k)
      BY <1>1, <1>3, <2>2 DEF Silent
    <3> QED
      BY <1>3, <2>2, <3>1 DEF Ends, t
  <2>3. ASSUME NEW i \in 1..Len(s), LastWord(s, k, i), s[i].clear = v
        PROVE  Ends(t, k, v, h)
    <3>1. LastWord(t, k, i) /\ t[i].clear = v /\ i \in 1..Len(t)
      BY <1>1, <1>3, <2>3 DEF LastWord
    <3> QED
      BY <3>1 DEF Ends
  <2> QED
    BY <1>3, <2>1, <2>2, <2>3 DEF Ends, t
<1> QED
  BY <1>2, <1>3

(* A list of two parts is silent if both are.                              *)
LEMMA SilentParts ==
  ASSUME NEW a \in Seq(Event), NEW b \in Seq(Event), NEW k,
         Silent(a \o b, k)
  PROVE  Silent(a, k) /\ Silent(b, k)
<1>1. \A i \in 1..Len(a) : (a \o b)[i] = a[i] /\ i \in 1..Len(a \o b)
  BY Joined
<1>2. \A i \in 1..Len(b) : (a \o b)[Len(a) + i] = b[i]
                           /\ Len(a) + i \in 1..Len(a \o b)
  BY Joined
<1> QED
  BY <1>1, <1>2 DEF Silent

(* When the hub has seen the chunk of a list, the rest is still to come:   *)
(* what it knows of a class then, given that Max is the place of the last  *)
(* word of the chunk, is what HubSees says.                                *)
LEMMA EndsSeen ==
  ASSUME NEW a \in Seq(Event), NEW b \in Seq(Event), NEW k, NEW v, NEW h,
         NEW w, Ends(a \o b, k, v, h),
         Silent(a, k) => w = h,
         \A i \in 1..Len(a) : LastWord(a, k, i) => w = a[i].clear
  PROVE  Ends(b, k, v, w)
<1> DEFINE s == a \o b
<1>1. CASE Silent(s, k) /\ h = v
  <2>1. Silent(a, k) /\ Silent(b, k)
    BY <1>1, SilentParts
  <2> QED
    BY <1>1, <2>1 DEF Ends
<1>2. ASSUME NEW i \in 1..Len(s), LastWord(s, k, i), s[i].clear = v
      PROVE  Ends(b, k, v, w)
  <2>1. CASE i \in 1..Len(a) /\ s[i] = a[i]
    <3>1. LastWord(a, k, i)
      BY <1>2, <2>1, Joined DEF LastWord
    <3>2. ASSUME NEW j \in 1..Len(b) PROVE b[j].class # k
      <4>1. /\ Len(a) + j \in 1..Len(s) /\ s[Len(a) + j] = b[j]
            /\ Len(a) \in Nat
        BY Joined
      <4>2. Len(a) + j > i
        BY <2>1, <4>1
      <4> QED
        BY <1>2, <4>1, <4>2 DEF LastWord
    <3> QED
      BY <1>2, <2>1, <3>1, <3>2 DEF Ends, Silent
  <2>2. CASE i > Len(a) /\ i - Len(a) \in 1..Len(b) /\ s[i] = b[i - Len(a)]
    <3>1. ASSUME NEW j \in 1..Len(b), j > i - Len(a) PROVE b[j].class # k
      <4>1. /\ Len(a) + j \in 1..Len(s) /\ s[Len(a) + j] = b[j]
            /\ Len(a) \in Nat
        BY Joined
      <4>2. Len(a) + j > i
        BY <3>1, <4>1
      <4> QED
        BY <1>2, <4>1, <4>2 DEF LastWord
    <3>2. LastWord(b, k, i - Len(a)) /\ b[i - Len(a)].clear = v
      BY <1>2, <2>2, <3>1 DEF LastWord
    <3> QED
      BY <2>2, <3>2 DEF Ends
  <2> QED
    BY <2>1, <2>2, Joined
<1> QED
  BY <1>1, <1>2 DEF Ends

(* A hub that has gone through a part of a list, and is sent all of it     *)
(* again, knows the same in the end.                                       *)
LEMMA EndsAgain ==
  ASSUME NEW a \in Seq(Event), NEW b \in Seq(Event), NEW k, NEW v, NEW h,
         NEW w, Ends(a \o b, k, v, h), Silent(a, k) => w = h
  PROVE  Ends(a \o b, k, v, w)
<1>1. CASE Silent(a \o b, k)
  <2>1. Silent(a, k)
    BY <1>1, SilentParts
  <2> QED
    BY <1>1, <2>1 DEF Ends, Silent
<1>2. CASE ~Silent(a \o b, k)
  BY <1>2 DEF Ends
<1> QED
  BY <1>1, <1>2

(* The largest of a set of numbers.                                        *)
LEMMA MaxIs ==
  ASSUME NEW S \in SUBSET Nat, NEW i \in S, \A j \in S : j <= i
  PROVE  Max(S) = i
<1>1. Max(S) \in S /\ \A j \in S : Max(S) >= j
  <2>1. \A j \in S : i >= j
    OBVIOUS
  <2> QED
    BY <2>1 DEF Max
<1>2. Max(S) >= i /\ Max(S) <= i /\ Max(S) \in Nat
  BY <1>1
<1> HIDE DEF Max
<1> QED
  BY <1>2


-----------------------------------------------------------------------------
(* HubSees is the last word of the chunk on a class, or what was known.    *)
LEMMA WhatHubSees ==
  ASSUME NEW k \in Class, chunk[QueueOf[k]] \in Seq(Event)
  PROVE  /\ Silent(chunk[QueueOf[k]], k) => HubSees[k] = hubLatest[k]
         /\ \A i \in 1..Len(chunk[QueueOf[k]]) :
              LastWord(chunk[QueueOf[k]], k, i) =>
                HubSees[k] = chunk[QueueOf[k]][i].clear
<1> DEFINE a == chunk[QueueOf[k]]
           S == {i \in DOMAIN a : a[i].class = k}
<1>1. DOMAIN a = 1..Len(a) /\ Len(a) \in Nat
  OBVIOUS
<1>2. HubSees[k] = IF S = {} THEN hubLatest[k] ELSE a[Max(S)].clear
  BY DEF HubSees
<1> HIDE DEF a
<1>3. Silent(a, k) => S = {}
  BY <1>1 DEF Silent
<1>4. ASSUME NEW i \in 1..Len(a), LastWord(a, k, i)
      PROVE  S # {} /\ Max(S) = i
  <2>1. S \in SUBSET Nat /\ i \in S
    BY <1>1, <1>4 DEF LastWord
  <2>2. \A j \in S : j <= i
    BY <1>1, <1>4 DEF LastWord
  <2> HIDE DEF S
  <2> QED
    BY <2>1, <2>2, MaxIs
<1> QED
  BY <1>2, <1>3, <1>4 DEF a

(* A chunk and the rest make up the queues it was taken from.              *)
LEMMA ChunkAndRest ==
  ASSUME NEW E, NEW queues \in [Queues -> Seq(E)], NEW h \in 0..1,
         options \in Options
  PROVE  /\ Chunked(queues, h).chunk \in [Queues -> Seq(E)]
         /\ Chunked(queues, h).rest \in [Queues -> Seq(E)]
         /\ \A q \in Queues :
              Chunked(queues, h).chunk[q] \o Chunked(queues, h).rest[q]
                = queues[q]
<1> DEFINE size == options.eventflushchunksize - h
           Least(m, n) == IF m < n THEN m ELSE n
           perf == Least(size, Len(queues["perf"]))
           taken == [perf |-> perf,
                     event |-> Least(size - perf, Len(queues["event"]))]
<1>1. options.eventflushchunksize \in Nat \ {0}
  BY OptionTypes
<1>2. size \in Nat
  BY <1>1
<1>3. /\ queues["perf"] \in Seq(E) /\ queues["event"] \in Seq(E)
      /\ Len(queues["perf"]) \in Nat /\ Len(queues["event"]) \in Nat
  BY DEF Queues
<1> HIDE DEF size
<1>4. perf \in 0..Len(queues["perf"]) /\ size - perf \in Nat
  BY <1>2, <1>3
<1>5. \A q \in Queues : taken[q] \in 0..Len(queues[q])
  BY <1>2, <1>3, <1>4 DEF Queues
<1> HIDE DEF taken
<1>6. /\ Chunked(queues, h).chunk
           = [q \in Queues |-> SubSeq(queues[q], 1, taken[q])]
      /\ Chunked(queues, h).rest
           = [q \in Queues |-> SubSeq(queues[q], taken[q] + 1, Len(queues[q]))]
  BY DEF Chunked, taken, size
<1>7. ASSUME NEW q \in Queues
      PROVE  /\ Chunked(queues, h).chunk[q] \in Seq(E)
             /\ Chunked(queues, h).rest[q] \in Seq(E)
             /\ Chunked(queues, h).chunk[q] \o Chunked(queues, h).rest[q]
                  = queues[q]
  <2> DEFINE s == queues[q]
             n == taken[q]
  <2>1. s \in Seq(E) /\ n \in 0..Len(s)
    BY <1>5
  <2>2. /\ Chunked(queues, h).chunk[q] = SubSeq(s, 1, n)
        /\ Chunked(queues, h).rest[q] = SubSeq(s, n + 1, Len(s))
    BY <1>6
  <2> HIDE DEF s, n
  <2>3. /\ SubSeq(s, 1, n) \in Seq(E) /\ SubSeq(s, n + 1, Len(s)) \in Seq(E)
        /\ SubSeq(s, 1, n) \o SubSeq(s, n + 1, Len(s)) = s
    BY <2>1, Cut
  <2> QED
    BY <2>2, <2>3 DEF s
<1> QED
  BY <1>6, <1>7

(* Nothing is taken from empty queues.                                     *)
LEMMA NothingTaken ==
  ASSUME NEW h \in 0..1, options \in Options
  PROVE  Chunked(Empty, h).chunk = Empty /\ Chunked(Empty, h).rest = Empty
<1> DEFINE c == Chunked(Empty, h).chunk
           r == Chunked(Empty, h).rest
<1>1. Empty \in [Queues -> Seq(Nat)]
  BY DEF Empty
<1>2. /\ c \in [Queues -> Seq(Nat)] /\ r \in [Queues -> Seq(Nat)]
      /\ \A q \in Queues : c[q] \o r[q] = Empty[q]
  BY <1>1, ChunkAndRest
<1> HIDE DEF c, r
<1>3. ASSUME NEW q \in Queues PROVE c[q] = <<>> /\ r[q] = <<>>
  <2>1. /\ Len(c[q]) \in Nat /\ Len(r[q]) \in Nat
        /\ Len(c[q]) + Len(r[q]) = Len(c[q] \o r[q])
    BY <1>2, Joined
  <2>2. Len(c[q] \o r[q]) = 0
    BY <1>2 DEF Empty
  <2> DEFINE m == Len(c[q])
             n == Len(r[q])
  <2>3. m \in Nat /\ n \in Nat /\ m + n = 0
    BY <2>1, <2>2
  <2> HIDE DEF m, n
  <2>4. m = 0 /\ n = 0
    BY <2>3
  <2> QED
    BY <1>2, <2>4, EmptySeq DEF m, n
<1> QED
  BY <1>2, <1>3 DEF Empty, c, r

(* A push that starts has what was in the queues.                          *)
LEMMA StartPushMoves ==
  ASSUME NEW E, NEW queues \in [Queues -> Seq(E)], options \in Options,
         StartPush(queues)
  PROVE  /\ queue' = Empty /\ pushing' \in BOOLEAN
         /\ prev' \in [Queues -> Seq(E)] /\ chunk' \in [Queues -> Seq(E)]
         /\ \A q \in Queues : chunk'[q] \o prev'[q] = queues[q]
         /\ ~pushing' => chunk' = Empty /\ prev' = Empty
<1>1. PICK h \in 0..1 :
        /\ queue' = Empty
        /\ chunk' = Chunked(queues, h).chunk
        /\ prev' = Chunked(queues, h).rest
        /\ pushing' = (h > 0 \/ queues # Empty)
  BY DEF StartPush
<1>2. /\ prev' \in [Queues -> Seq(E)] /\ chunk' \in [Queues -> Seq(E)]
      /\ \A q \in Queues : chunk'[q] \o prev'[q] = queues[q]
  BY <1>1, ChunkAndRest
<1>3. ~pushing' => chunk' = Empty /\ prev' = Empty
  BY <1>1, NothingTaken
<1> QED
  BY <1>1, <1>2, <1>3

(* Whether a push starts or one ends, what is pending is what the queues   *)
(* are to have.                                                            *)
Holds(queues) ==
  /\ queue' \in [Queues -> Seq(Event)] /\ prev' \in [Queues -> Seq(Event)]
  /\ chunk' \in [Queues -> Seq(Event)]
  /\ \A q \in Queues : /\ Len(queue'[q]) <= Len(queues[q])
                       /\ Pending(q)' = queues[q]

(* A push that starts, ...                                                 *)
LEMMA StartPushHolds ==
  ASSUME NEW queues \in [Queues -> Seq(Event)], options \in Options,
         StartPush(queues)
  PROVE  Holds(queues)
<1>1. /\ queue' = Empty
      /\ prev' \in [Queues -> Seq(Event)] /\ chunk' \in [Queues -> Seq(Event)]
      /\ \A q \in Queues : chunk'[q] \o prev'[q] = queues[q]
  BY StartPushMoves
<1>2. ASSUME NEW q \in Queues
      PROVE  Len(queue'[q]) <= Len(queues[q]) /\ Pending(q)' = queues[q]
  <2>1. queue'[q] = <<>> /\ queues[q] \in Seq(Event) /\ Len(queues[q]) \in Nat
    BY <1>1 DEF Empty
  <2>2. queues[q] \o <<>> = queues[q] /\ Len(<<>>) = 0
    BY <2>1, Nothing
  <2> QED
    BY <1>1, <2>1, <2>2 DEF Pending
<1>3. queue' \in [Queues -> Seq(Event)]
  BY <1>1 DEF Empty
<1> QED
  BY <1>1, <1>2, <1>3 DEF Holds

(* ... a push that ends with none behind it, ...                           *)
LEMMA RestHolds ==
  ASSUME NEW queues \in [Queues -> Seq(Event)],
         queue' = queues, chunk' = Empty, prev' = Empty
  PROVE  Holds(queues)
<1>1. ASSUME NEW q \in Queues
      PROVE  Len(queue'[q]) <= Len(queues[q]) /\ Pending(q)' = queues[q]
  <2>1. /\ chunk'[q] = <<>> /\ prev'[q] = <<>> /\ queue'[q] = queues[q]
        /\ queues[q] \in Seq(Event) /\ Len(queues[q]) \in Nat
    BY DEF Empty
  <2>2. <<>> \o <<>> = <<>> /\ <<>> \o queues[q] = queues[q]
    BY <2>1, Nothing
  <2> QED
    BY <2>1, <2>2 DEF Pending
<1> QED
  BY <1>1 DEF Holds, Empty

(* ... and a push that ends, whatever is behind it.                        *)
LEMMA EndPushHolds ==
  ASSUME NEW queues \in [Queues -> Seq(Event)], options \in Options,
         EndPush(queues)
  PROVE  Holds(queues)
<1>1. CASE flushQueued
  BY <1>1, StartPushHolds DEF EndPush
<1>2. CASE ~flushQueued
  BY <1>2, RestHolds DEF EndPush
<1> QED
  BY <1>1, <1>2

-----------------------------------------------------------------------------
(* Appending to the last of two lists put together.                        *)
LEMMA AppendedAfter ==
  ASSUME NEW a \in Seq(Event), NEW b \in Seq(Event), NEW e \in Event
  PROVE  a \o Append(b, e) = Append(a \o b, e)
<1>1. /\ Append(b, e) = b \o <<e>> /\ a \o b \in Seq(Event)
      /\ <<e>> \in Seq(Event)
  BY AppendIsConcat, Joined
<1>2. Append(a \o b, e) = (a \o b) \o <<e>>
  BY <1>1, AppendIsConcat
<1> QED
  BY <1>1, <1>2, Associative

(* Counting occurrences.                                                   *)
Adding == [p \in Nat \X Event |-> p[1] + p[2].count]

(* Occurrences is the fold of that step.                                   *)
LEMMA OccurrencesFold ==
  ASSUME NEW s \in Seq(Event)
  PROVE  Occurrences(s) = Folded(Adding, 0, s)
<1> DEFINE Is(f) == f = [t \in SUBSET DOMAIN s |->
                           IF t = {} THEN 0
                           ELSE f[t \ {Max(t)}] + s[Max(t)].count]
           it == CHOOSE f : Is(f)
<1>1. DOMAIN s = 1..Len(s) /\ Len(s) \in Nat /\ \A k \in 1..Len(s) : s[k] \in Event
  OBVIOUS
<1>2. /\ Adding \in [Nat \X Event -> Nat]
      /\ \A m \in Nat : \A e \in Event : Adding[<<m, e>>] = m + e.count
  BY CountIs DEF Adding
<1>3. PICK g \in [SUBSET DOMAIN s -> Nat] :
        Table(Adding, 0, s, g) /\ Run(Nat, Adding, 0, s, g)
  BY <1>2, FoldedTable
<1>4. ASSUME NEW t \in SUBSET DOMAIN s, t # {}
      PROVE  Max(t) \in DOMAIN s
  <2>1. t \in SUBSET (0..Len(s))
    BY <1>1
  <2> QED
    BY <1>1, <1>4, <2>1, Greatest
<1>5. Is(g)
  <2>1. \A t \in SUBSET DOMAIN s :
          g[t] = IF t = {} THEN 0 ELSE g[t \ {Max(t)}] + s[Max(t)].count
    BY <1>1, <1>2, <1>3, <1>4 DEF Table
  <2> QED
    BY <2>1, Zenon
<1> HIDE DEF Is
<1>6. Is(it)
  BY <1>5
<1>7. Occurrences(s) = it[DOMAIN s]
  BY DEF Occurrences, FoldLeft, MapThenFoldSet, Is
<1> HIDE DEF it
<1>8. \A t \in SUBSET DOMAIN s :
        it[t] = IF t = {} THEN 0 ELSE it[t \ {Max(t)}] + s[Max(t)].count
  BY <1>6, Zenon DEF Is
<1>9. it[{}] = 0
  BY <1>8
<1>10. ASSUME NEW k \in 1..Len(s), it[1..(k - 1)] = g[1..(k - 1)]
       PROVE  it[1..k] = g[1..k]
  <2>1. /\ 1..k \in SUBSET DOMAIN s /\ 1..k # {} /\ Max(1..k) = k
        /\ (1..k) \ {k} = 1..(k - 1)
    BY <1>1, FirstPlaces
  <2>2. it[1..k] = it[1..(k - 1)] + s[k].count
    BY <1>8, <2>1
  <2>3. g[1..k] = Adding[<<g[1..(k - 1)], s[k]>>] /\ g[1..(k - 1)] \in Nat
    BY <1>1, <1>3 DEF Run
  <2> QED
    BY <1>1, <1>2, <1>10, <2>2, <2>3
<1>11. it[DOMAIN s] = Folded(Adding, 0, s)
  <2>1. Follows(it, g, Len(s))
    BY <1>10 DEF Follows
  <2> QED
    BY <1>3, <1>9, <2>1, SameRun
<1> QED
  BY <1>7, <1>11

(* A list stands for a number of occurrences, the empty list for none.     *)
LEMMA OccurrencesAre ==
  ASSUME NEW s \in Seq(Event)
  PROVE  Occurrences(<<>>) = 0 /\ Occurrences(s) \in Nat
<1>1. Adding \in [Nat \X Event -> Nat]
  BY CountIs DEF Adding
<1>2. <<>> \in Seq(Event)
  OBVIOUS
<1>3. /\ Occurrences(s) = Folded(Adding, 0, s)
      /\ Occurrences(<<>>) = Folded(Adding, 0, <<>>)
  BY <1>2, OccurrencesFold
<1>4. Folded(Adding, 0, <<>>) = 0 /\ Folded(Adding, 0, s) \in Nat
  BY <1>1, FoldedValue
<1> QED
  BY <1>3, <1>4

(* The occurrences of a list with one event more.                          *)
LEMMA OccurrencesNext ==
  ASSUME NEW s \in Seq(Event), NEW e \in Event
  PROVE  Occurrences(Append(s, e)) = Occurrences(s) + e.count
<1>1. /\ Adding \in [Nat \X Event -> Nat]
      /\ \A m \in Nat : \A f \in Event : Adding[<<m, f>>] = m + f.count
  BY CountIs DEF Adding
<1>2. Append(s, e) \in Seq(Event)
  OBVIOUS
<1>3. /\ Occurrences(s) = Folded(Adding, 0, s)
      /\ Occurrences(Append(s, e)) = Folded(Adding, 0, Append(s, e))
  BY <1>2, OccurrencesFold
<1>4. Folded(Adding, 0, Append(s, e)) = Adding[<<Folded(Adding, 0, s), e>>]
  <2>1. Adding \in [Nat \X Event -> Nat] /\ 0 \in Nat
    BY <1>1
  <2>2. FoldsLast(Adding, 0, s, e)
    BY <2>1, FoldedNext
  <2> QED
    BY <2>2 DEF FoldsLast
<1>5. Occurrences(s) \in Nat
  BY OccurrencesAre
<1> QED
  BY <1>1, <1>3, <1>4, <1>5

(* The occurrences of two lists put together.                              *)
LEMMA OccurrencesJoined ==
  ASSUME NEW a \in Seq(Event), NEW b \in Seq(Event)
  PROVE  /\ Occurrences(a \o b) = Occurrences(a) + Occurrences(b)
         /\ Occurrences(a) \in Nat /\ Occurrences(b) \in Nat
<1> DEFINE S == {t \in Seq(Event) :
                   Occurrences(a \o t) = Occurrences(a) + Occurrences(t)}
<1>1. <<>> \in S
  <2>1. a \o <<>> = a /\ <<>> \in Seq(Event)
    BY Nothing
  <2>2. Occurrences(<<>>) = 0 /\ Occurrences(a) \in Nat
    BY OccurrencesAre
  <2> QED
    BY <2>1, <2>2
<1>2. ASSUME NEW t \in Seq(Event), NEW e \in Event, t \in S
      PROVE  Append(t, e) \in S
  <2>1. /\ a \o Append(t, e) = Append(a \o t, e) /\ a \o t \in Seq(Event)
        /\ Append(t, e) \in Seq(Event)
    BY AppendedAfter, Joined
  <2>2. /\ Occurrences(Append(a \o t, e)) = Occurrences(a \o t) + e.count
        /\ Occurrences(Append(t, e)) = Occurrences(t) + e.count
    BY <2>1, OccurrencesNext
  <2>3. Occurrences(a \o t) = Occurrences(a) + Occurrences(t)
    BY <1>2
  <2>4. Occurrences(a) \in Nat /\ Occurrences(t) \in Nat /\ e.count \in Nat
    BY OccurrencesAre, CountIs
  <2>5. Occurrences(a \o Append(t, e))
          = Occurrences(a) + Occurrences(Append(t, e))
    BY <2>1, <2>2, <2>3, <2>4
  <2> QED
    BY <2>1, <2>5
<1> HIDE DEF S
<1>3. b \in S
  BY <1>1, <1>2, ListInduction
<1> QED
  BY <1>3, OccurrencesAre DEF S

(* A list of events that stand for one occurrence each.                    *)
Singles(s) == \A i \in 1..Len(s) : s[i].count = 1
LEMMA OccurrencesOfSingles ==
  ASSUME NEW s \in Seq(Event), Singles(s)
  PROVE  Occurrences(s) = Len(s)
<1> DEFINE S == {t \in Seq(Event) : Singles(t) => Occurrences(t) = Len(t)}
<1>1. <<>> \in S
  <2>1. Len(<<>>) = 0 /\ <<>> \in Seq(Event)
    OBVIOUS
  <2> QED
    BY <2>1, OccurrencesAre
<1>2. ASSUME NEW t \in Seq(Event), NEW e \in Event, t \in S
      PROVE  Append(t, e) \in S
  <2>1. /\ Append(t, e) \in Seq(Event) /\ Len(Append(t, e)) = Len(t) + 1
        /\ Len(t) \in Nat /\ Append(t, e)[Len(t) + 1] = e
        /\ \A i \in 1..Len(t) : Append(t, e)[i] = t[i]
    BY AppendProperties
  <2>2. ASSUME Singles(Append(t, e))
        PROVE  Occurrences(Append(t, e)) = Len(Append(t, e))
    <3>1. Singles(t) /\ e.count = 1
      BY <2>1, <2>2 DEF Singles
    <3>2. Occurrences(t) = Len(t)
      BY <1>2, <3>1
    <3>3. Occurrences(Append(t, e)) = Occurrences(t) + e.count
      BY OccurrencesNext
    <3> QED
      BY <2>1, <3>1, <3>2, <3>3
  <2> QED
    BY <2>1, <2>2
<1> HIDE DEF S
<1>3. s \in S
  BY <1>1, <1>2, ListInduction
<1> QED
  BY <1>3 DEF S

(* A list cut before and after one of its events.                          *)
LEMMA CutAround ==
  ASSUME NEW s \in Seq(Event), NEW i \in 1..Len(s)
  PROVE  /\ SubSeq(s, 1, i - 1) \in Seq(Event)
         /\ SubSeq(s, i + 1, Len(s)) \in Seq(Event)
         /\ Occurrences(s) = (Occurrences(SubSeq(s, 1, i - 1)) + s[i].count)
                                + Occurrences(SubSeq(s, i + 1, Len(s)))
<1> DEFINE a == SubSeq(s, 1, i - 1)
           c == SubSeq(s, i + 1, Len(s))
           p == SubSeq(s, 1, i)
<1>1. i \in 0..Len(s) /\ i \in Nat /\ Len(s) \in Nat /\ s[i] \in Event
  OBVIOUS
<1>2. p \in Seq(Event) /\ c \in Seq(Event) /\ p \o c = s
  BY <1>1, Cut
<1>3. p = Append(a, s[i]) /\ a \in Seq(Event)
  <2>1. /\ a \in Seq(Event) /\ Len(a) = i - 1
        /\ \A j \in 1..(i - 1) : a[j] = s[j]
    BY <1>1
  <2>2. Len(p) = i /\ \A j \in 1..i : p[j] = s[j]
    BY <1>1
  <2> HIDE DEF a, p
  <2>3. /\ Append(a, s[i]) \in Seq(Event) /\ Len(Append(a, s[i])) = i
        /\ \A j \in 1..i : Append(a, s[i])[j] = s[j]
    BY <1>1, <2>1, AppendProperties
  <2> QED
    BY <1>2, <2>1, <2>2, <2>3, SeqEqual
<1> HIDE DEF a, c, p
<1>4. Occurrences(s) = Occurrences(p) + Occurrences(c)
  BY <1>2, OccurrencesJoined
<1>5. Occurrences(p) = Occurrences(a) + s[i].count
  BY <1>1, <1>3, OccurrencesNext
<1> QED
  BY <1>2, <1>3, <1>4, <1>5 DEF a, c

(* A list without one of its events.                                       *)
LEMMA OccurrencesWithout ==
  ASSUME NEW E \in SUBSET Event, NEW s \in Seq(E), NEW i \in 1..Len(s)
  PROVE  /\ RemoveAt(s, i) \in Seq(E) /\ Len(RemoveAt(s, i)) = Len(s) - 1
         /\ Occurrences(s) = Occurrences(RemoveAt(s, i)) + s[i].count
<1> DEFINE a == SubSeq(s, 1, i - 1)
           c == SubSeq(s, i + 1, Len(s))
<1>0. s \in Seq(Event) /\ s[i] \in Event
  OBVIOUS
<1>1. /\ a \in Seq(E) /\ c \in Seq(E) /\ Len(a) = i - 1
      /\ Len(c) = Len(s) - i
  <2>1. i \in Nat /\ Len(s) \in Nat /\ i <= Len(s)
    OBVIOUS
  <2> QED
    BY <2>1
<1>2. Occurrences(s) = (Occurrences(a) + s[i].count) + Occurrences(c)
  BY <1>0, CutAround
<1>3. RemoveAt(s, i) = a \o c
  BY DEF RemoveAt
<1> HIDE DEF a, c
<1>4. a \in Seq(Event) /\ c \in Seq(Event)
  BY <1>1
<1>5. /\ a \o c \in Seq(E) /\ Len(a \o c) = Len(a) + Len(c)
  BY <1>1, Joined
<1>6. /\ Occurrences(a \o c) = Occurrences(a) + Occurrences(c)
      /\ Occurrences(a) \in Nat /\ Occurrences(c) \in Nat
  BY <1>4, OccurrencesJoined
<1>7. s[i].count \in Nat
  BY <1>0, CountIs
<1>8. Len(RemoveAt(s, i)) = Len(s) - 1
  <2>1. Len(s) \in Nat /\ i \in Nat
    OBVIOUS
  <2> QED
    BY <1>1, <1>3, <1>5, <2>1
<1> QED
  BY <1>2, <1>3, <1>5, <1>6, <1>7, <1>8

(* A list with another event in the place of one.                          *)
LEMMA OccurrencesReplaced ==
  ASSUME NEW E \in SUBSET Event, NEW s \in Seq(E), NEW i \in 1..Len(s),
         NEW e \in E
  PROVE  /\ [s EXCEPT ![i] = e] \in Seq(E)
         /\ Len([s EXCEPT ![i] = e]) = Len(s)
         /\ Occurrences([s EXCEPT ![i] = e]) + s[i].count
              = Occurrences(s) + e.count
<1> DEFINE r == [s EXCEPT ![i] = e]
<1>0. s \in Seq(Event) /\ s[i] \in Event /\ e \in Event
  OBVIOUS
<1>1. /\ r \in Seq(E) /\ Len(r) = Len(s) /\ r[i] = e
      /\ \A j \in 1..Len(s) : j # i => r[j] = s[j]
  BY ExceptSeq
<1> HIDE DEF r
<1>2. r \in Seq(Event) /\ i \in 1..Len(r)
  BY <1>1
<1>3. SubSeq(r, 1, i - 1) = SubSeq(s, 1, i - 1)
  <2>1. i \in Nat /\ Len(s) \in Nat /\ i <= Len(s)
    OBVIOUS
  <2>2. /\ SubSeq(r, 1, i - 1) \in Seq(Event)
        /\ Len(SubSeq(r, 1, i - 1)) = i - 1
        /\ \A j \in 1..(i - 1) : SubSeq(r, 1, i - 1)[j] = r[j]
    BY <1>1, <1>2, <2>1
  <2>3. /\ SubSeq(s, 1, i - 1) \in Seq(Event)
        /\ Len(SubSeq(s, 1, i - 1)) = i - 1
        /\ \A j \in 1..(i - 1) : SubSeq(s, 1, i - 1)[j] = s[j]
    BY <1>0, <2>1
  <2>4. \A j \in 1..(i - 1) : r[j] = s[j]
    BY <1>1, <2>1
  <2> QED
    BY <2>2, <2>3, <2>4, SeqEqual
<1>4. SubSeq(r, i + 1, Len(r)) = SubSeq(s, i + 1, Len(s))
  <2>1. i \in Nat /\ Len(s) \in Nat /\ i <= Len(s)
    OBVIOUS
  <2>2. /\ SubSeq(r, i + 1, Len(s)) \in Seq(Event)
        /\ Len(SubSeq(r, i + 1, Len(s))) = Len(s) - i
        /\ \A j \in 1..(Len(s) - i) : SubSeq(r, i + 1, Len(s))[j] = r[i + j]
    BY <1>1, <1>2, <2>1
  <2>3. /\ SubSeq(s, i + 1, Len(s)) \in Seq(Event)
        /\ Len(SubSeq(s, i + 1, Len(s))) = Len(s) - i
        /\ \A j \in 1..(Len(s) - i) : SubSeq(s, i + 1, Len(s))[j] = s[i + j]
    BY <1>0, <2>1
  <2>4. ASSUME NEW j \in 1..(Len(s) - i) PROVE r[i + j] = s[i + j]
    <3>1. i + j \in 1..Len(s) /\ i + j # i
      BY <2>1
    <3> QED
      BY <1>1, <3>1
  <2>5. SubSeq(r, i + 1, Len(s)) = SubSeq(s, i + 1, Len(s))
    BY <2>2, <2>3, <2>4, SeqEqual
  <2> QED
    BY <1>1, <2>5
<1> DEFINE a == SubSeq(s, 1, i - 1)
           c == SubSeq(s, i + 1, Len(s))
<1>5. /\ Occurrences(s) = (Occurrences(a) + s[i].count) + Occurrences(c)
      /\ Occurrences(r) = (Occurrences(a) + e.count) + Occurrences(c)
      /\ a \in Seq(Event) /\ c \in Seq(Event)
  BY <1>0, <1>1, <1>2, <1>3, <1>4, CutAround
<1> HIDE DEF a, c
<1>6. /\ Occurrences(a) \in Nat /\ Occurrences(c) \in Nat
      /\ s[i].count \in Nat /\ e.count \in Nat
  BY <1>0, <1>5, OccurrencesAre, CountIs
<1> QED
  BY <1>1, <1>5, <1>6 DEF r

-----------------------------------------------------------------------------
(* A set of events in which an event may be merged or stored.              *)
Closed(E) ==
  /\ E \subseteq Event
  /\ \A e \in E : /\ [e EXCEPT !.key = Fingerprint(e)] \in E
                  /\ \A c \in Nat \ {0} : [e EXCEPT !.count = c] \in E

(* Events that came later than n are one.                                  *)
LEMMA LaterClosed ==
  ASSUME NEW n \in Nat
  PROVE  Closed(Later(n))
BY EventFields DEF Closed

(* So are the events of a queue.                                           *)
LEMMA OfQueueClosed ==
  ASSUME NEW q
  PROVE  Closed(OfQueue(q))
<1>1. ASSUME NEW e \in OfQueue(q)
      PROVE  /\ [e EXCEPT !.key = Fingerprint(e)] \in OfQueue(q)
             /\ \A c \in Nat \ {0} : [e EXCEPT !.count = c] \in OfQueue(q)
  <2>1. e \in Event /\ QueueOf[e.class] = q
    BY DEF OfQueue
  <2>2. /\ [e EXCEPT !.key = Fingerprint(e)] \in Event
        /\ \A c \in Nat \ {0} : [e EXCEPT !.count = c] \in Event
    BY <2>1, EventFields DEF Event
  <2>3. /\ [e EXCEPT !.key = Fingerprint(e)].class = e.class
        /\ \A c : [e EXCEPT !.count = c].class = e.class
    BY <2>1 DEF Event, Later
  <2> QED
    BY <2>1, <2>2, <2>3 DEF OfQueue
<1> QED
  BY <1>1 DEF Closed, OfQueue

(* The entry of a key that is in a queue.                                  *)
LEMMA PlaceIs ==
  ASSUME NEW E, NEW s \in Seq(E), NEW key, HasKey(s, key)
  PROVE  PlaceOf(s, key) \in 1..Len(s) /\ s[PlaceOf(s, key)] \in E
<1>1. PlaceOf(s, key) \in 1..Len(s)
  BY DEF HasKey, PlaceOf
<1> QED
  BY <1>1

(* The first element of a list and the rest.                               *)
LEMMA HeadIsFirst ==
  ASSUME NEW E, NEW s \in Seq(E), s # <<>>
  PROVE  s = <<Head(s)>> \o Tail(s)
<1>1. Len(s) \in Nat /\ 1 \in 0..Len(s)
  OBVIOUS
<1>2. SubSeq(s, 1, 1) \o SubSeq(s, 1 + 1, Len(s)) = s
  BY <1>1, Cut
<1>3. SubSeq(s, 1, 1) = <<Head(s)>>
  <2>1. /\ SubSeq(s, 1, 1) \in Seq(E) /\ Len(SubSeq(s, 1, 1)) = 1
        /\ SubSeq(s, 1, 1)[1] = s[1]
    BY <1>1
  <2>2. /\ <<Head(s)>> \in Seq(E) /\ Len(<<Head(s)>>) = 1
        /\ <<Head(s)>>[1] = s[1]
    BY <1>1
  <2> DEFINE a == SubSeq(s, 1, 1)
             b == <<Head(s)>>
  <2>3. a \in Seq(E) /\ b \in Seq(E) /\ Len(a) = 1 /\ Len(b) = 1
        /\ a[1] = b[1]
    BY <2>1, <2>2
  <2> HIDE DEF a, b
  <2>4. \A i \in 1..Len(a) : a[i] = b[i]
    BY <2>3
  <2>5. a = b
    BY <2>3, <2>4, SeqEqual
  <2> QED
    BY <2>5 DEF a, b
<1>4. SubSeq(s, 1 + 1, Len(s)) = Tail(s)
  <2> DEFINE a == SubSeq(s, 2, Len(s))
             b == Tail(s)
  <2>1. /\ a \in Seq(E) /\ Len(a) = Len(s) - 1
        /\ \A i \in 1..(Len(s) - 1) : a[i] = s[i + 1]
    <3>1. a \in Seq(E) /\ Len(a) = Len(s) - 1
      <4>1. /\ SubSeq(s, 1 + 1, Len(s)) \in Seq(E)
            /\ Len(SubSeq(s, 1 + 1, Len(s))) = Len(s) - 1
        BY <1>1, Cut
      <4> QED
        BY <4>1
    <3>2. ASSUME NEW i \in 1..(Len(s) - 1) PROVE a[i] = s[i + 1]
      BY <1>1
    <3> QED
      BY <3>1, <3>2
  <2>2. /\ b \in Seq(E) /\ Len(b) = Len(s) - 1
        /\ \A i \in 1..(Len(s) - 1) : b[i] = s[i + 1]
    BY <1>1
  <2> HIDE DEF a, b
  <2>3. a = b
    BY <2>1, <2>2, SeqEqual
  <2> QED
    BY <2>3 DEF a, b
<1> QED
  BY <1>2, <1>3, <1>4

(* Appending an event loses none, with or without de-duplication: it is    *)
(* merged with the entry it replaces, or the oldest event is discarded.    *)
LEMMA AppendedKeeps ==
  ASSUME NEW E, Closed(E), NEW s \in Seq(E), NEW e \in E, e.count = 1,
         NEW m \in Nat \ {0}, NEW d \in BOOLEAN
  PROVE  /\ Appended(s, e, m, d).queue \in Seq(E)
         /\ Appended(s, e, m, d).queue # <<>>
         /\ Appended(s, e, m, d).discarded \in Seq(E)
         /\ Len(s) <= m => Len(Appended(s, e, m, d).queue) <= m
         /\ Occurrences(Appended(s, e, m, d).queue)
              + Occurrences(Appended(s, e, m, d).discarded)
              = Occurrences(s) + 1
<1> DEFINE r == Appended(s, e, m, d)
<1>0. E \in SUBSET Event /\ s \in Seq(Event) /\ e \in Event /\ Len(s) \in Nat
  BY DEF Closed
<1>1. CASE d /\ HasKey(s, e.key)
  <2> DEFINE old == PlaceOf(s, e.key)
             f == [e EXCEPT !.count = s[old].count + 1]
             t == RemoveAt(s, old)
  <2>1. old \in 1..Len(s) /\ s[old] \in E
    BY <1>1, PlaceIs
  <2>2. r.queue = Append(t, f) /\ r.discarded = <<>>
    BY <1>1 DEF Appended
  <2> HIDE DEF old
  <2>3. s[old].count \in Nat \ {0}
    BY <1>0, <2>1, CountIs
  <2>4. f \in E
    <3>1. s[old].count + 1 \in Nat \ {0}
      BY <2>3
    <3> QED
      BY <3>1, Zenon DEF Closed
  <2>5. f.count = s[old].count + 1 /\ f \in Event
    BY <1>0, <2>4 DEF Event, Later
  <2> HIDE DEF f
  <2>6. /\ t \in Seq(E) /\ Len(t) = Len(s) - 1
        /\ Occurrences(s) = Occurrences(t) + s[old].count
    BY <1>0, <2>1, OccurrencesWithout
  <2> HIDE DEF t, r
  <2>7. t \in Seq(Event) /\ <<>> \in Seq(Event)
    BY <1>0, <2>6
  <2>8. /\ Append(t, f) \in Seq(E) /\ Append(t, f) # <<>>
        /\ Len(Append(t, f)) = Len(t) + 1
    BY <2>4, <2>6, AppendProperties
  <2>9. /\ Occurrences(Append(t, f)) = Occurrences(t) + f.count
        /\ Occurrences(<<>>) = 0 /\ Occurrences(t) \in Nat
        /\ Occurrences(s) \in Nat
    BY <1>0, <2>5, <2>7, OccurrencesNext, OccurrencesAre
  <2>10. Occurrences(r.queue) + Occurrences(r.discarded) = Occurrences(s) + 1
    BY <2>2, <2>3, <2>5, <2>6, <2>9
  <2>11. Len(r.queue) = Len(s)
    BY <1>0, <2>2, <2>6, <2>8
  <2> QED
    BY <2>2, <2>8, <2>10, <2>11 DEF r
<1>2. CASE ~(d /\ HasKey(s, e.key)) /\ Len(s) = m
  <2> DEFINE t == Tail(s)
  <2>1. r.queue = Append(t, e) /\ r.discarded = <<Head(s)>>
    BY <1>2 DEF Appended, Pushed
  <2>2. /\ s # <<>> /\ t \in Seq(E) /\ Len(t) = Len(s) - 1 /\ Head(s) \in E
        /\ s = <<Head(s)>> \o t
    <3>1. s # <<>>
      BY <1>0, <1>2
    <3> QED
      BY <3>1, HeadTailProperties, HeadIsFirst
  <2> HIDE DEF t, r
  <2>3. /\ <<Head(s)>> \in Seq(E) /\ <<Head(s)>> \in Seq(Event)
        /\ t \in Seq(Event)
    BY <1>0, <2>2
  <2>4. /\ Append(t, e) \in Seq(E) /\ Append(t, e) # <<>>
        /\ Len(Append(t, e)) = Len(t) + 1
    BY <2>2, AppendProperties
  <2>5. /\ Occurrences(<<Head(s)>> \o t)
             = Occurrences(<<Head(s)>>) + Occurrences(t)
        /\ Occurrences(<<Head(s)>>) \in Nat /\ Occurrences(t) \in Nat
    BY <2>3, OccurrencesJoined
  <2>6. Occurrences(Append(t, e)) = Occurrences(t) + 1
    BY <1>0, <2>3, OccurrencesNext
  <2>7. Occurrences(r.queue) + Occurrences(r.discarded) = Occurrences(s) + 1
    <3>1. Occurrences(s) = Occurrences(<<Head(s)>>) + Occurrences(t)
      BY <2>2, <2>5
    <3>2. /\ Occurrences(r.queue) = Occurrences(t) + 1
          /\ Occurrences(r.discarded) = Occurrences(<<Head(s)>>)
      BY <2>1, <2>6
    <3> HIDE DEF r
    <3> QED
      BY <2>5, <3>1, <3>2
  <2> QED
    BY <1>0, <2>1, <2>2, <2>3, <2>4, <2>7 DEF r
<1>3. CASE ~(d /\ HasKey(s, e.key)) /\ Len(s) # m
  <2>1. r.queue = Append(s, e) /\ r.discarded = <<>>
    BY <1>3 DEF Appended, Pushed
  <2> HIDE DEF r
  <2>2. /\ Append(s, e) \in Seq(E) /\ Append(s, e) # <<>>
        /\ Len(Append(s, e)) = Len(s) + 1 /\ <<>> \in Seq(E)
    BY AppendProperties
  <2>3. /\ Occurrences(Append(s, e)) = Occurrences(s) + 1
        /\ Occurrences(s) \in Nat /\ Occurrences(<<>>) = 0
    BY <1>0, OccurrencesNext, OccurrencesAre
  <2> QED
    BY <1>0, <1>3, <2>1, <2>2, <2>3 DEF r
<1> QED
  BY <1>1, <1>2, <1>3

(* A step of storing keeps the events, and may lose occurrences but not    *)
(* add any.                                                                *)
LEMMA StoredKeeps ==
  ASSUME NEW E, Closed(E), NEW s \in Seq(E), NEW e \in E
  PROVE  /\ Stored(s, e) \in Seq(E) /\ Len(Stored(s, e)) <= Len(s) + 1
         /\ Occurrences(Stored(s, e)) <= Occurrences(s) + e.count
<1> DEFINE f == [e EXCEPT !.key = Fingerprint(e)]
           i == PlaceOf(s, f.key)
<1>0. E \in SUBSET Event /\ s \in Seq(Event) /\ e \in Event /\ Len(s) \in Nat
  BY DEF Closed
<1>1. f \in E /\ f \in Event /\ f.count = e.count
  BY <1>0 DEF Closed, Event, Later
<1>2. e.count \in Nat /\ Occurrences(s) \in Nat
  BY <1>0, CountIs, OccurrencesAre
<1>3. CASE HasKey(s, f.key)
  <2>1. Stored(s, e) = [s EXCEPT ![i] = f]
    BY <1>3 DEF Stored
  <2>2. i \in 1..Len(s) /\ s[i] \in E
    BY <1>3, PlaceIs
  <2> HIDE DEF f, i
  <2>3. /\ [s EXCEPT ![i] = f] \in Seq(E)
        /\ Len([s EXCEPT ![i] = f]) = Len(s)
        /\ Occurrences([s EXCEPT ![i] = f]) + s[i].count
             = Occurrences(s) + f.count
    BY <1>0, <1>1, <2>2, OccurrencesReplaced
  <2>4. Occurrences([s EXCEPT ![i] = f]) \in Nat /\ s[i].count \in Nat
    <3>1. [s EXCEPT ![i] = f] \in Seq(Event) /\ s[i] \in Event
      BY <1>0, <2>2, <2>3
    <3> QED
      BY <3>1, CountIs, OccurrencesAre
  <2> QED
    BY <1>0, <1>1, <1>2, <2>1, <2>3, <2>4
<1>4. CASE ~HasKey(s, f.key)
  <2>1. Stored(s, e) = Append(s, f)
    BY <1>4 DEF Stored
  <2> HIDE DEF f
  <2>2. Append(s, f) \in Seq(E) /\ Len(Append(s, f)) = Len(s) + 1
    BY <1>1, AppendProperties
  <2>3. Occurrences(Append(s, f)) = Occurrences(s) + f.count
    BY <1>0, <1>1, OccurrencesNext
  <2> QED
    BY <1>0, <1>1, <1>2, <2>1, <2>2, <2>3
<1> QED
  BY <1>3, <1>4

(* A step of merging or setting aside what is put back: so does it, ...    *)
Merging(E) == [queue : Seq(E), events_to_add : Seq(E)]
LEMMA MergedKeeps ==
  ASSUME NEW E, Closed(E), NEW to \in Merging(E), NEW e \in E
  PROVE  /\ Merged(to, e) \in Merging(E)
         /\ Len(Merged(to, e).queue) = Len(to.queue)
         /\ Occurrences(Merged(to, e).queue)
              + Occurrences(Merged(to, e).events_to_add)
              <= (Occurrences(to.queue) + Occurrences(to.events_to_add))
                   + e.count
<1> DEFINE s == to.queue
           t == to.events_to_add
           i == PlaceOf(s, Fingerprint(e))
           r == Merged(to, e)
<1>0. /\ E \in SUBSET Event /\ e \in Event
      /\ s \in Seq(E) /\ t \in Seq(E) /\ s \in Seq(Event) /\ t \in Seq(Event)
  BY DEF Closed, Merging
<1>1. /\ e.count \in Nat \ {0}
      /\ Occurrences(s) \in Nat /\ Occurrences(t) \in Nat
  BY <1>0, CountIs, OccurrencesAre
<1>3. CASE HasKey(s, Fingerprint(e))
  <2> DEFINE f == [s[i] EXCEPT !.count = s[i].count + 1]
  <2>1. i \in 1..Len(s) /\ s[i] \in E
    BY <1>0, <1>3, PlaceIs
  <2>2. r = [to EXCEPT !.queue = [s EXCEPT ![i] = f]]
    BY <1>3 DEF Merged
  <2>3. r = [queue |-> [s EXCEPT ![i] = f], events_to_add |-> t]
    BY <2>2 DEF Merging
  <2> HIDE DEF i
  <2>4. s[i] \in Event /\ s[i].count \in Nat \ {0}
    BY <1>0, <2>1, CountIs
  <2>5. f \in E
    <3>1. s[i].count + 1 \in Nat \ {0}
      BY <2>4
    <3> QED
      BY <2>1, <3>1, Zenon DEF Closed
  <2>6. f.count = s[i].count + 1
    BY <2>4 DEF Event, Later
  <2> HIDE DEF f, s, t, r
  <2>7. /\ [s EXCEPT ![i] = f] \in Seq(E)
        /\ Len([s EXCEPT ![i] = f]) = Len(s)
        /\ Occurrences([s EXCEPT ![i] = f]) + s[i].count
             = Occurrences(s) + f.count
    BY <1>0, <2>1, <2>5, OccurrencesReplaced
  <2>8. Occurrences([s EXCEPT ![i] = f]) \in Nat
    <3>1. [s EXCEPT ![i] = f] \in Seq(Event)
      BY <1>0, <2>7
    <3> QED
      BY <3>1, OccurrencesAre
  <2>9. r \in Merging(E) /\ r.queue = [s EXCEPT ![i] = f]
        /\ r.events_to_add = t
    BY <1>0, <2>3, <2>7 DEF Merging
  <2>10. Occurrences([s EXCEPT ![i] = f]) = Occurrences(s) + 1
    BY <1>1, <2>4, <2>6, <2>7, <2>8
  <2> QED
    BY <1>1, <2>7, <2>9, <2>10 DEF s, t, r
<1>4. CASE ~HasKey(s, Fingerprint(e))
  <2>1. r = [to EXCEPT !.events_to_add = Append(t, e)]
    BY <1>4 DEF Merged
  <2>2. r = [queue |-> s, events_to_add |-> Append(t, e)]
    BY <2>1 DEF Merging
  <2> HIDE DEF s, t, r
  <2>3. Append(t, e) \in Seq(E)
    BY <1>0, AppendProperties
  <2>4. Occurrences(Append(t, e)) = Occurrences(t) + e.count
    BY <1>0, OccurrencesNext
  <2>5. r \in Merging(E) /\ r.queue = s /\ r.events_to_add = Append(t, e)
    BY <1>0, <2>2, <2>3 DEF Merging
  <2> QED
    BY <1>1, <2>4, <2>5 DEF s, t, r
<1> QED
  BY <1>3, <1>4

(* Storing as a function.                                                  *)
Storing(E) == [p \in Seq(E) \X E |-> Stored(p[1], p[2])]

(* Storing events one by one is the fold of that step.                     *)
LEMMA StoredFold ==
  ASSUME NEW E, Closed(E), NEW s \in Seq(E)
  PROVE  FoldLeft(Stored, <<>>, s) = Folded(Storing(E), <<>>, s)
<1> DEFINE Is(f) == f = [t \in SUBSET DOMAIN s |->
                           IF t = {} THEN <<>>
                           ELSE Stored(f[t \ {Max(t)}], s[Max(t)])]
           it == CHOOSE f : Is(f)
<1>1. DOMAIN s = 1..Len(s) /\ Len(s) \in Nat /\ \A k \in 1..Len(s) : s[k] \in E
  OBVIOUS
<1>2. /\ Storing(E) \in [Seq(E) \X E -> Seq(E)] /\ <<>> \in Seq(E)
      /\ \A v \in Seq(E) : \A e \in E : Storing(E)[<<v, e>>] = Stored(v, e)
  <2>1. \A v \in Seq(E) : \A e \in E : Stored(v, e) \in Seq(E)
    BY StoredKeeps
  <2> QED
    BY <2>1 DEF Storing
<1>3. PICK g \in [SUBSET DOMAIN s -> Seq(E)] :
        Table(Storing(E), <<>>, s, g) /\ Run(Seq(E), Storing(E), <<>>, s, g)
  BY <1>2, FoldedTable
<1>4. ASSUME NEW t \in SUBSET DOMAIN s, t # {}
      PROVE  Max(t) \in DOMAIN s
  <2>1. t \in SUBSET (0..Len(s))
    BY <1>1
  <2> QED
    BY <1>1, <1>4, <2>1, Greatest
<1>5. Is(g)
  <2>1. \A t \in SUBSET DOMAIN s :
          g[t] = IF t = {} THEN <<>>
                 ELSE Stored(g[t \ {Max(t)}], s[Max(t)])
    BY <1>1, <1>2, <1>3, <1>4 DEF Table
  <2> QED
    BY <2>1, Zenon
<1> HIDE DEF Is
<1>6. Is(it)
  BY <1>5
<1>7. FoldLeft(Stored, <<>>, s) = it[DOMAIN s]
  BY DEF FoldLeft, MapThenFoldSet, Is
<1> HIDE DEF it
<1>8. \A t \in SUBSET DOMAIN s :
        it[t] = IF t = {} THEN <<>>
                ELSE Stored(it[t \ {Max(t)}], s[Max(t)])
  BY <1>6, Zenon DEF Is
<1>9. it[{}] = <<>>
  BY <1>8
<1>10. ASSUME NEW k \in 1..Len(s), it[1..(k - 1)] = g[1..(k - 1)]
       PROVE  it[1..k] = g[1..k]
  <2>1. /\ 1..k \in SUBSET DOMAIN s /\ 1..k # {} /\ Max(1..k) = k
        /\ (1..k) \ {k} = 1..(k - 1)
    BY <1>1, FirstPlaces
  <2>2. it[1..k] = Stored(it[1..(k - 1)], s[k])
    BY <1>8, <2>1
  <2>3. g[1..k] = Storing(E)[<<g[1..(k - 1)], s[k]>>] /\ g[1..(k - 1)] \in Seq(E)
    BY <1>1, <1>3 DEF Run
  <2> QED
    BY <1>1, <1>2, <1>10, <2>2, <2>3
<1>11. it[DOMAIN s] = Folded(Storing(E), <<>>, s)
  <2>1. Follows(it, g, Len(s))
    BY <1>10 DEF Follows
  <2> QED
    BY <1>3, <1>9, <2>1, SameRun
<1> QED
  BY <1>7, <1>11

(* Storing events keeps no more than there are.                            *)
LEMMA AllStored ==
  ASSUME NEW E, Closed(E), NEW s \in Seq(E)
  PROVE  /\ FoldLeft(Stored, <<>>, s) \in Seq(E)
         /\ Len(FoldLeft(Stored, <<>>, s)) <= Len(s)
         /\ Occurrences(FoldLeft(Stored, <<>>, s)) <= Occurrences(s)
<1> DEFINE F(t) == Folded(Storing(E), <<>>, t)
           S == {t \in Seq(E) : /\ Len(F(t)) <= Len(t)
                                /\ Occurrences(F(t)) <= Occurrences(t)}
<1>1. /\ Storing(E) \in [Seq(E) \X E -> Seq(E)] /\ <<>> \in Seq(E)
      /\ \A v \in Seq(E) : \A e \in E : Storing(E)[<<v, e>>] = Stored(v, e)
  <2>1. \A v \in Seq(E) : \A e \in E : Stored(v, e) \in Seq(E)
    BY StoredKeeps
  <2> QED
    BY <2>1 DEF Storing
<1>2. F(<<>>) = <<>>
  BY <1>1, FoldedValue
<1>3. ASSUME NEW t \in Seq(E) PROVE F(t) \in Seq(E)
  BY <1>1, FoldedValue
<1>4. ASSUME NEW t \in Seq(E), NEW e \in E
      PROVE  F(Append(t, e)) = Stored(F(t), e)
  <2>1. FoldsLast(Storing(E), <<>>, t, e)
    BY <1>1, FoldedNext
  <2> QED
    BY <1>1, <1>3, <2>1 DEF FoldsLast
<1> HIDE DEF F
<1>5. E \in SUBSET Event
  BY DEF Closed
<1>6. <<>> \in S
  <2>1. Len(<<>>) = 0 /\ <<>> \in Seq(Event)
    OBVIOUS
  <2>2. Len(F(<<>>)) = 0 /\ F(<<>>) = <<>>
    BY <1>2, <2>1
  <2>3. Occurrences(<<>>) = 0
    BY <2>1, OccurrencesAre
  <2> QED
    BY <1>1, <2>1, <2>2, <2>3
<1>7. ASSUME NEW t \in Seq(E), NEW e \in E, t \in S PROVE Append(t, e) \in S
  <2>1. /\ Append(t, e) \in Seq(E) /\ Len(Append(t, e)) = Len(t) + 1
        /\ Len(t) \in Nat
    BY AppendProperties
  <2>2. F(t) \in Seq(E) /\ F(Append(t, e)) \in Seq(E)
    BY <1>3, <2>1
  <2>3. /\ Len(F(Append(t, e))) <= Len(F(t)) + 1
        /\ Occurrences(F(Append(t, e))) <= Occurrences(F(t)) + e.count
    BY <1>4, <2>2, StoredKeeps
  <2>4. /\ t \in Seq(Event) /\ e \in Event /\ F(t) \in Seq(Event)
        /\ F(Append(t, e)) \in Seq(Event)
    BY <1>5, <2>2
  <2>5. /\ Occurrences(F(t)) \in Nat /\ Occurrences(t) \in Nat
        /\ Occurrences(F(Append(t, e))) \in Nat /\ e.count \in Nat
        /\ Occurrences(Append(t, e)) = Occurrences(t) + e.count
    BY <2>4, OccurrencesAre, OccurrencesNext, CountIs
  <2>6. Len(F(t)) \in Nat /\ Len(F(Append(t, e))) \in Nat
    BY <2>2
  <2>7. Len(F(t)) <= Len(t) /\ Occurrences(F(t)) <= Occurrences(t)
    BY <1>7
  <2>8. Len(F(Append(t, e))) <= Len(Append(t, e))
    BY <2>1, <2>3, <2>6, <2>7
  <2>9. Occurrences(F(Append(t, e))) <= Occurrences(Append(t, e))
    BY <2>3, <2>5, <2>7
  <2> QED
    BY <2>1, <2>8, <2>9
<1> HIDE DEF S
<1>8. s \in S
  BY <1>6, <1>7, ListInduction
<1>9. FoldLeft(Stored, <<>>, s) = F(s)
  BY StoredFold DEF F
<1> QED
  BY <1>3, <1>8, <1>9 DEF S

(* Merging as a function, and from which it starts.                        *)
MergingStep(E) == [p \in Merging(E) \X E |-> Merged(p[1], p[2])]
Before(s) == [queue |-> s, events_to_add |-> <<>>]

(* Merging events one by one is the fold of that step.                     *)
LEMMA MergedFold ==
  ASSUME NEW E, Closed(E), NEW q \in Seq(E), NEW s \in Seq(E)
  PROVE  FoldLeft(Merged, Before(q), s) = Folded(MergingStep(E), Before(q), s)
<1> DEFINE Is(f) == f = [t \in SUBSET DOMAIN s |->
                           IF t = {} THEN Before(q)
                           ELSE Merged(f[t \ {Max(t)}], s[Max(t)])]
           it == CHOOSE f : Is(f)
<1>1. DOMAIN s = 1..Len(s) /\ Len(s) \in Nat /\ \A k \in 1..Len(s) : s[k] \in E
  OBVIOUS
<1>2. /\ MergingStep(E) \in [Merging(E) \X E -> Merging(E)] /\ Before(q) \in Merging(E)
      /\ \A v \in Merging(E) : \A e \in E : MergingStep(E)[<<v, e>>] = Merged(v, e)
  BY MergedKeeps DEF MergingStep, Merging, Before
<1>3. PICK g \in [SUBSET DOMAIN s -> Merging(E)] :
        Table(MergingStep(E), Before(q), s, g) /\ Run(Merging(E), MergingStep(E), Before(q), s, g)
  BY <1>2, FoldedTable
<1>4. ASSUME NEW t \in SUBSET DOMAIN s, t # {}
      PROVE  Max(t) \in DOMAIN s
  <2>1. t \in SUBSET (0..Len(s))
    BY <1>1
  <2> QED
    BY <1>1, <1>4, <2>1, Greatest
<1>5. Is(g)
  <2>1. \A t \in SUBSET DOMAIN s :
          g[t] = IF t = {} THEN Before(q)
                 ELSE Merged(g[t \ {Max(t)}], s[Max(t)])
    BY <1>1, <1>2, <1>3, <1>4 DEF Table
  <2> QED
    BY <2>1, Zenon
<1> HIDE DEF Is
<1>6. Is(it)
  BY <1>5
<1>7. FoldLeft(Merged, Before(q), s) = it[DOMAIN s]
  BY DEF FoldLeft, MapThenFoldSet, Is
<1> HIDE DEF it
<1>8. \A t \in SUBSET DOMAIN s :
        it[t] = IF t = {} THEN Before(q)
                ELSE Merged(it[t \ {Max(t)}], s[Max(t)])
  BY <1>6, Zenon DEF Is
<1>9. it[{}] = Before(q)
  BY <1>8
<1>10. ASSUME NEW k \in 1..Len(s), it[1..(k - 1)] = g[1..(k - 1)]
       PROVE  it[1..k] = g[1..k]
  <2>1. /\ 1..k \in SUBSET DOMAIN s /\ 1..k # {} /\ Max(1..k) = k
        /\ (1..k) \ {k} = 1..(k - 1)
    BY <1>1, FirstPlaces
  <2>2. it[1..k] = Merged(it[1..(k - 1)], s[k])
    BY <1>8, <2>1
  <2>3. g[1..k] = MergingStep(E)[<<g[1..(k - 1)], s[k]>>] /\ g[1..(k - 1)] \in Merging(E)
    BY <1>1, <1>3 DEF Run
  <2> QED
    BY <1>1, <1>2, <1>10, <2>2, <2>3
<1>11. it[DOMAIN s] = Folded(MergingStep(E), Before(q), s)
  <2>1. Follows(it, g, Len(s))
    BY <1>10 DEF Follows
  <2> QED
    BY <1>3, <1>9, <2>1, SameRun
<1> QED
  BY <1>7, <1>11

(* Merging events in a queue keeps its length, and sets aside the others.  *)
LEMMA AllMerged ==
  ASSUME NEW E, Closed(E), NEW q \in Seq(E), NEW s \in Seq(E)
  PROVE  /\ FoldLeft(Merged, Before(q), s) \in Merging(E)
         /\ Len(FoldLeft(Merged, Before(q), s).queue) = Len(q)
         /\ Occurrences(FoldLeft(Merged, Before(q), s).queue)
              + Occurrences(FoldLeft(Merged, Before(q), s).events_to_add)
              <= Occurrences(q) + Occurrences(s)
<1> DEFINE F(t) == Folded(MergingStep(E), Before(q), t)
           Held(t) == Occurrences(F(t).queue) + Occurrences(F(t).events_to_add)
           S == {t \in Seq(E) : /\ Len(F(t).queue) = Len(q)
                                /\ Held(t) <= Occurrences(q) + Occurrences(t)}
<1>1. /\ MergingStep(E) \in [Merging(E) \X E -> Merging(E)]
      /\ Before(q) \in Merging(E)
      /\ \A v \in Merging(E) : \A e \in E :
           MergingStep(E)[<<v, e>>] = Merged(v, e)
  BY MergedKeeps DEF MergingStep, Merging, Before
<1>2. F(<<>>) = Before(q)
  <2>1. /\ Folded(MergingStep(E), Before(q), <<>>) = Before(q)
        /\ Folded(MergingStep(E), Before(q), s) \in Merging(E)
    BY <1>1, FoldedValue
  <2> QED
    BY <2>1
<1>3. ASSUME NEW t \in Seq(E) PROVE F(t) \in Merging(E)
  BY <1>1, FoldedValue
<1>4. ASSUME NEW t \in Seq(E), NEW e \in E
      PROVE  F(Append(t, e)) = Merged(F(t), e)
  <2>1. FoldsLast(MergingStep(E), Before(q), t, e)
    BY <1>1, FoldedNext
  <2> QED
    BY <1>1, <1>3, <2>1 DEF FoldsLast
<1> HIDE DEF F
<1>5. E \in SUBSET Event /\ q \in Seq(Event)
  BY DEF Closed
<1>6. ASSUME NEW m \in Merging(E)
      PROVE  /\ Occurrences(m.queue) \in Nat
             /\ Occurrences(m.events_to_add) \in Nat
  <2>1. m.queue \in Seq(Event) /\ m.events_to_add \in Seq(Event)
    BY <1>5 DEF Merging
  <2> QED
    BY <2>1, OccurrencesAre
<1>7. <<>> \in S
  <2>1. <<>> \in Seq(E) /\ F(<<>>).queue = q /\ F(<<>>).events_to_add = <<>>
    BY <1>2 DEF Before
  <2>2. Occurrences(<<>>) = 0 /\ Occurrences(q) \in Nat
    BY <1>5, OccurrencesAre
  <2> QED
    BY <2>1, <2>2
<1>8. ASSUME NEW t \in Seq(E), NEW e \in E, t \in S PROVE Append(t, e) \in S
  <2>1. Append(t, e) \in Seq(E)
    BY AppendProperties
  <2>2. F(t) \in Merging(E) /\ F(Append(t, e)) \in Merging(E)
    BY <1>3, <2>1
  <2>3. /\ Len(F(Append(t, e)).queue) = Len(F(t).queue)
        /\ Held(Append(t, e)) <= Held(t) + e.count
    BY <1>4, <2>2, MergedKeeps
  <2>4. t \in Seq(Event) /\ e \in Event
    BY <1>5
  <2>5. /\ Occurrences(t) \in Nat /\ e.count \in Nat /\ Occurrences(q) \in Nat
        /\ Occurrences(Append(t, e)) = Occurrences(t) + e.count
    BY <1>5, <2>4, OccurrencesAre, OccurrencesNext, CountIs
  <2>6. Held(t) \in Nat /\ Held(Append(t, e)) \in Nat
    BY <1>6, <2>2
  <2> HIDE DEF Held
  <2>7. Len(F(t).queue) = Len(q) /\ Held(t) <= Occurrences(q) + Occurrences(t)
    BY <1>8
  <2>8. Held(Append(t, e)) <= Occurrences(q) + Occurrences(Append(t, e))
    BY <2>3, <2>5, <2>6, <2>7
  <2> QED
    BY <2>1, <2>3, <2>7, <2>8
<1> HIDE DEF S
<1>9. s \in S
  BY <1>7, <1>8, ListInduction
<1>10. FoldLeft(Merged, Before(q), s) = F(s)
  BY MergedFold DEF F
<1> QED
  BY <1>3, <1>9, <1>10 DEF S

(* What a failed push puts back: the queue keeps its bound and loses no    *)
(* entry; with de-duplication occurrences may get lost, without it none is *)
(* but those of the discarded events.                                      *)
LEMMA RestoredKeeps ==
  ASSUME NEW E, Closed(E), NEW q \in Seq(E), NEW s \in Seq(E), NEW m \in Nat,
         Len(q) <= m, NEW d \in BOOLEAN
  PROVE  /\ Restored(q, s, m, d).queue \in Seq(E)
         /\ Restored(q, s, m, d).discarded \in Seq(E)
         /\ Len(Restored(q, s, m, d).queue) <= m
         /\ q # <<>> => Restored(q, s, m, d).queue # <<>>
         /\ Occurrences(Restored(q, s, m, d).queue)
              + Occurrences(Restored(q, s, m, d).discarded)
              <= Occurrences(q) + Occurrences(s)
         /\ ~d => Occurrences(Restored(q, s, m, d).queue)
                    + Occurrences(Restored(q, s, m, d).discarded)
                    = Occurrences(q) + Occurrences(s)
<1> DEFINE r == Restored(q, s, m, d)
           merged == IF d THEN FoldLeft(Merged, Before(q), s)
                     ELSE [queue |-> q, events_to_add |-> s]
           a == merged.events_to_add
           p == merged.queue
           available == m - Len(q)
           n == IF Len(a) > available THEN Len(a) - available ELSE 0
           kept == SubSeq(a, n + 1, Len(a))
           stored == IF d THEN FoldLeft(Stored, <<>>, kept) ELSE kept
           gone == SubSeq(a, 1, n)
<1>0. /\ E \in SUBSET Event /\ q \in Seq(Event) /\ s \in Seq(Event)
      /\ Len(q) \in Nat /\ available \in Nat
  BY DEF Closed
<1>1. r.queue = stored \o p /\ r.discarded = gone
  BY DEF Restored, Before
<1>2. /\ p \in Seq(E) /\ a \in Seq(E) /\ Len(p) = Len(q)
      /\ Occurrences(p) + Occurrences(a) <= Occurrences(q) + Occurrences(s)
      /\ ~d => p = q /\ a = s
  <2>1. CASE d
    BY <2>1, AllMerged DEF Merging
  <2>2. CASE ~d
    <3>1. p = q /\ a = s
      BY <2>2
    <3>2. Occurrences(q) \in Nat /\ Occurrences(s) \in Nat
      BY <1>0, OccurrencesAre
    <3> HIDE DEF p, a
    <3> QED
      BY <2>2, <3>1, <3>2
  <2> QED
    BY <2>1, <2>2
<1> HIDE DEF r, a, p, available
<1>3. n \in 0..Len(a) /\ Len(a) - n <= available /\ Len(a) \in Nat
  <2>1. Len(a) \in Nat
    BY <1>2
  <2> QED
    BY <1>0, <2>1
<1> HIDE DEF n
<1>4. /\ gone \in Seq(E) /\ kept \in Seq(E) /\ Len(kept) = Len(a) - n
      /\ gone \o kept = a
  BY <1>2, <1>3, Cut
<1> HIDE DEF gone, kept
<1>5. /\ gone \in Seq(Event) /\ kept \in Seq(Event) /\ p \in Seq(Event)
      /\ Len(kept) \in Nat
  BY <1>0, <1>2, <1>4
<1>6. /\ stored \in Seq(E) /\ Len(stored) <= Len(kept)
      /\ Occurrences(stored) <= Occurrences(kept)
      /\ ~d => stored = kept
  <2>1. CASE d
    BY <1>4, <2>1, AllStored
  <2>2. CASE ~d
    <3>1. stored = kept
      BY <2>2
    <3>2. Occurrences(kept) \in Nat
      BY <1>5, OccurrencesAre
    <3> HIDE DEF stored
    <3> QED
      BY <1>4, <1>5, <2>2, <3>1, <3>2
  <2> QED
    BY <2>1, <2>2
<1> HIDE DEF stored
<1>7. stored \in Seq(Event)
  BY <1>0, <1>6
<1>8. stored \o p \in Seq(E) /\ Len(stored \o p) = Len(stored) + Len(p)
      /\ Len(stored) \in Nat /\ Len(p) \in Nat
  BY <1>2, <1>6, Joined
<1>9. Len(r.queue) <= m
  <2>1. Len(stored) <= available
    BY <1>0, <1>3, <1>4, <1>5, <1>6, <1>8
  <2> QED
    BY <1>0, <1>1, <1>2, <1>8, <2>1 DEF available
<1>10. q # <<>> => r.queue # <<>>
  <2>1. q # <<>> => Len(q) > 0
    OBVIOUS
  <2>2. Len(r.queue) = Len(stored) + Len(q)
    BY <1>1, <1>2, <1>8
  <2>3. q # <<>> => Len(r.queue) # 0
    BY <1>0, <1>8, <2>1, <2>2
  <2> QED
    BY <2>3
<1>11. /\ Occurrences(stored \o p) = Occurrences(stored) + Occurrences(p)
       /\ Occurrences(stored) \in Nat /\ Occurrences(p) \in Nat
  BY <1>5, <1>7, OccurrencesJoined
<1>12. /\ Occurrences(a) = Occurrences(gone) + Occurrences(kept)
       /\ Occurrences(gone) \in Nat /\ Occurrences(kept) \in Nat
  BY <1>4, <1>5, OccurrencesJoined
<1>13. Occurrences(q) \in Nat /\ Occurrences(s) \in Nat
  BY <1>0, OccurrencesAre
<1>14. Occurrences(r.queue) + Occurrences(r.discarded)
         <= Occurrences(q) + Occurrences(s)
  BY <1>1, <1>2, <1>6, <1>11, <1>12, <1>13
<1>15. ~d => Occurrences(r.queue) + Occurrences(r.discarded)
               = Occurrences(q) + Occurrences(s)
  <2> SUFFICES ASSUME ~d
               PROVE  Occurrences(r.queue) + Occurrences(r.discarded)
                        = Occurrences(q) + Occurrences(s)
    OBVIOUS
  <2>1. p = q /\ a = s /\ stored = kept
    BY <1>2, <1>6
  <2> QED
    BY <1>1, <1>11, <1>12, <1>13, <2>1
<1> QED
  BY <1>1, <1>4, <1>8, <1>9, <1>10, <1>14, <1>15 DEF r

-----------------------------------------------------------------------------
(* Without de-duplication, what a failed push puts back is all but the     *)
(* oldest events, as many as do not fit.                                   *)
Drops(s, t, m, n) ==
  /\ Restored(s, t, m, FALSE).queue = SubSeq(t, n + 1, Len(t)) \o s
  /\ Restored(s, t, m, FALSE).queue \in Seq(Event)
  /\ Restored(s, t, m, FALSE).discarded = SubSeq(t, 1, n)
  /\ Len(Restored(s, t, m, FALSE).queue) <= m
  /\ Len(t) + Len(s) <= m => n = 0
LEMMA WhatIsRestored ==
  ASSUME NEW s \in Seq(Event), NEW t \in Seq(Event), NEW m \in Nat,
         Len(s) <= m
  PROVE  \E n \in 0..Len(t) : Drops(s, t, m, n)
<1> DEFINE room == m - Len(s)
           n == IF Len(t) > room THEN Len(t) - room ELSE 0
<1>1. /\ Len(s) \in Nat /\ Len(t) \in Nat /\ room \in Nat
      /\ n \in 0..Len(t) /\ Len(t) - n <= room
      /\ Len(t) + Len(s) <= m => n = 0
  OBVIOUS
<1>2. /\ Restored(s, t, m, FALSE).queue = SubSeq(t, n + 1, Len(t)) \o s
      /\ Restored(s, t, m, FALSE).discarded = SubSeq(t, 1, n)
  BY DEF Restored
<1> HIDE DEF n
<1>3. /\ SubSeq(t, n + 1, Len(t)) \in Seq(Event)
      /\ Len(SubSeq(t, n + 1, Len(t))) = Len(t) - n
  BY <1>1, Cut
<1>4. /\ SubSeq(t, n + 1, Len(t)) \o s \in Seq(Event)
      /\ Len(SubSeq(t, n + 1, Len(t)) \o s) = (Len(t) - n) + Len(s)
  BY <1>3, Joined
<1>5. (Len(t) - n) + Len(s) <= m
  BY <1>1
<1>6. Drops(s, t, m, n)
  BY <1>1, <1>2, <1>4, <1>5 DEF Drops
<1> QED
  BY <1>1, <1>6

(* Lists that fit are put back in empty queues as they are.                *)
LEMMA WhatFitsIsRestored ==
  ASSUME NEW t \in Seq(Event), NEW m \in Nat, Len(t) <= m
  PROVE  Restored(<<>>, t, m, FALSE).queue = t
<1> DEFINE s == <<>>
<1>1. s \in Seq(Event) /\ Len(s) = 0 /\ Len(t) \in Nat /\ t \o s = t
  BY Nothing
<1> HIDE DEF s
<1>2. Len(s) <= m
  BY <1>1
<1>3. PICK n \in 0..Len(t) : Drops(s, t, m, n)
  BY <1>1, <1>2, WhatIsRestored
<1>4. n = 0 /\ n + 1 = 1 /\ SubSeq(t, 1, Len(t)) = t
  BY <1>1, <1>3 DEF Drops
<1>5. Restored(s, t, m, FALSE).queue = t
  BY <1>1, <1>3, <1>4 DEF Drops
<1> QED
  BY <1>5 DEF s

(* What is appended is of events that came later than n if the queue and   *)
(* the event are, with de-duplication or without.                          *)
LEMMA AppendedLater ==
  ASSUME NEW n \in Nat, NEW s \in Seq(Later(n)), NEW e \in Later(n),
         e.count = 1, NEW m \in Nat \ {0}, NEW d \in BOOLEAN
  PROVE  Appended(s, e, m, d).queue \in Seq(Later(n))
BY LaterClosed, AppendedKeeps

(* Without de-duplication, the event comes last; the oldest event goes if  *)
(* the queue is full.                                                      *)
LEMMA WhatIsAppended ==
  ASSUME NEW s \in Seq(Event), NEW e \in Event, NEW m \in Nat \ {0},
         Len(s) <= m
  PROVE  /\ Appended(s, e, m, FALSE).queue \in Seq(Event)
         /\ Len(Appended(s, e, m, FALSE).queue) <= m
         /\ \/ /\ s # <<>>
               /\ Appended(s, e, m, FALSE).queue = Append(Tail(s), e)
               /\ Len(Appended(s, e, m, FALSE).discarded) = 1
            \/ /\ Appended(s, e, m, FALSE).queue = Append(s, e)
               /\ Appended(s, e, m, FALSE).discarded = <<>>
<1>1. CASE Len(s) = m
  <2>1. /\ Appended(s, e, m, FALSE).queue = Append(Tail(s), e)
        /\ Appended(s, e, m, FALSE).discarded = <<Head(s)>>
    BY <1>1 DEF Appended, Pushed
  <2>2. s # <<>> /\ Tail(s) \in Seq(Event) /\ Len(Tail(s)) = Len(s) - 1
    BY <1>1, HeadTailProperties
  <2>3. /\ Append(Tail(s), e) \in Seq(Event)
        /\ Len(Append(Tail(s), e)) = Len(Tail(s)) + 1
    BY <2>2, AppendProperties
  <2>4. Len(<<Head(s)>>) = 1 /\ (Len(s) - 1) + 1 = m
    BY <1>1
  <2>5. Len(Append(Tail(s), e)) <= m
    BY <2>2, <2>3, <2>4
  <2>6. Len(Appended(s, e, m, FALSE).discarded) = 1
    BY <2>1, <2>4
  <2> QED
    BY <2>1, <2>2, <2>3, <2>5, <2>6
<1>2. CASE Len(s) # m
  <2>1. /\ Appended(s, e, m, FALSE).queue = Append(s, e)
        /\ Appended(s, e, m, FALSE).discarded = <<>>
    BY <1>2 DEF Appended, Pushed
  <2>2. Append(s, e) \in Seq(Event) /\ Len(Append(s, e)) = Len(s) + 1
    BY AppendProperties
  <2>3. Len(s) \in Nat /\ Len(s) + 1 <= m
    BY <1>2
  <2> QED
    BY <2>1, <2>2, <2>3
<1> QED
  BY <1>1, <1>2

-----------------------------------------------------------------------------
(* A push that starts empties the queues, and is over at once only if they *)
(* were empty.                                                             *)
LEMMA StartPushControl ==
  ASSUME NEW queues, options \in Options, StartPush(queues)
  PROVE  /\ queue' = Empty /\ pushing' \in BOOLEAN
         /\ queues # Empty => pushing'
         /\ ~pushing' => chunk' = Empty /\ prev' = Empty
<1>1. PICK h \in 0..1 :
        /\ queue' = Empty
        /\ chunk' = Chunked(queues, h).chunk
        /\ prev' = Chunked(queues, h).rest
        /\ pushing' = (h > 0 \/ queues # Empty)
  BY DEF StartPush
<1>2. ~pushing' => chunk' = Empty /\ prev' = Empty
  BY <1>1, NothingTaken
<1> QED
  BY <1>1, <1>2

(* A push that ends makes way for the one behind it, or rests.             *)
LEMMA EndPushControl ==
  ASSUME NEW queues, options \in Options, Control, EndPush(queues)
  PROVE  /\ pushing' \in BOOLEAN /\ flushQueued' = FALSE
         /\ ~pushing' => chunk' = Empty /\ prev' = Empty
         /\ flushQueued => /\ queue' = Empty /\ life' = life
                           /\ queues # Empty => pushing'
         /\ ~flushQueued => /\ queue' = queues /\ ~pushing'
                            /\ life' = IF life = "stopping" THEN "stopped"
                                                            ELSE life
<1>1. CASE flushQueued
  BY <1>1, StartPushControl DEF EndPush
<1>2. CASE ~flushQueued
  BY <1>2 DEF EndPush
<1> QED
  BY <1>1, <1>2

(* A stopping daemon stops when no push is behind the one that ends; it is *)
(* pushing until then, and only while connected.                           *)
LEMMA StepControl ==
  ASSUME Control, [Next]_vars
  PROVE  Control'
<1> USE DEF Control
<1>1. ASSUME NEW k \in Class, NEW clear \in BOOLEAN, addEvent(k, clear)
      PROVE  Control'
  BY <1>1 DEF addEvent, Added, pushVars, stopVars
<1>2. CASE pushEvents
  <2>1. /\ queue' = Empty /\ pushing' \in BOOLEAN
        /\ ~pushing' => chunk' = Empty /\ prev' = Empty
    BY <1>2, StartPushControl DEF pushEvents
  <2> QED
    BY <1>2, <2>1 DEF pushEvents, stopVars
<1>3. CASE sendEventsAnswered
  <2>1. CASE prev = Empty
    <3>1. EndPush(queue)
      BY <1>3, <2>1 DEF sendEventsAnswered
    <3>2. /\ pushing' \in BOOLEAN /\ flushQueued' = FALSE
          /\ ~pushing' => chunk' = Empty /\ prev' = Empty
          /\ flushQueued => life' = life
          /\ ~flushQueued => /\ ~pushing'
                             /\ life' = IF life = "stopping" THEN "stopped"
                                                             ELSE life
      BY <3>1, EndPushControl
    <3>3. /\ options' = options /\ connected' = connected /\ pushing
          /\ arrived' = arrived /\ stopMark' = stopMark
      BY <1>3 DEF sendEventsAnswered
    <3> QED
      BY <3>2, <3>3
  <2>2. CASE prev # Empty
    BY <1>3, <2>2 DEF sendEventsAnswered
  <2> QED
    BY <2>1, <2>2
<1>4. CASE sendEventsFailed
  <2>1. options' = options /\ pushing /\ arrived' = arrived
    BY <1>4 DEF sendEventsFailed
  <2>2. stopMark' = IF connected' /\ flushQueued THEN stopMark ELSE 0
    BY <1>4 DEF sendEventsFailed
  <2>3. CASE connected'
    <3>1. PICK restored : EndPush(restored)
      BY <1>4, <2>3 DEF sendEventsFailed
    <3>2. /\ pushing' \in BOOLEAN /\ flushQueued' = FALSE
          /\ ~pushing' => chunk' = Empty /\ prev' = Empty
          /\ flushQueued => life' = life
          /\ ~flushQueued => /\ ~pushing'
                             /\ life' = IF life = "stopping" THEN "stopped"
                                                             ELSE life
      BY <3>1, EndPushControl
    <3>3. /\ flushQueued => stopMark' = stopMark
          /\ ~flushQueued => stopMark' = 0
      BY <2>3, <2>2
    <3>4. (options \in Options /\ arrived \in Nat /\ stopMark \in Nat
              /\ stopMark <= arrived)'
      BY <2>1, <3>3
    <3>5. /\ life' \in {"up", "stopping", "stopped"}
          /\ (life = "up" => stopMark = 0 /\ ~flushQueued)'
          /\ (life = "stopped" => ~pushing /\ ~flushQueued)'
      BY <3>2, <3>3
    <3>6. (/\ pushing \in BOOLEAN /\ flushQueued \in BOOLEAN
           /\ pushing => connected
           /\ ~pushing => chunk = Empty /\ prev = Empty)'
      BY <2>3, <3>2
    <3> QED
      BY <3>4, <3>5, <3>6
  <2>4. CASE ~connected'
    <3>1. /\ chunk' = Empty /\ prev' = Empty /\ pushing' = FALSE
          /\ flushQueued' = FALSE
          /\ life' = IF life = "stopping" THEN "stopped" ELSE life
      BY <1>4, <2>4 DEF sendEventsFailed
    <3>2. stopMark' = 0
      BY <2>4, <2>2
    <3>3. life' \in {"up", "stopping", "stopped"}
      BY <3>1
    <3>4. (options \in Options /\ arrived \in Nat /\ stopMark \in Nat
              /\ stopMark <= arrived)'
      BY <2>1, <3>2
    <3>5. (/\ life = "up" => stopMark = 0 /\ ~flushQueued
           /\ life = "stopped" => ~pushing /\ ~flushQueued)'
      BY <3>1, <3>2
    <3>6. (/\ pushing \in BOOLEAN /\ flushQueued \in BOOLEAN
           /\ pushing => connected
           /\ ~pushing => chunk = Empty /\ prev = Empty)'
      BY <3>1
    <3> QED
      BY <3>3, <3>4, <3>5, <3>6
  <2> QED
    BY <2>3, <2>4
<1>5. CASE connectionLost
  BY <1>5 DEF connectionLost, pushVars, stopVars
<1>6. CASE gotPerspective
  BY <1>6 DEF gotPerspective, pushVars, stopVars
<1>7. CASE stopConnected
  <2>1. PICK k \in Class :
          /\ life = "up" /\ connected /\ life' = "stopping"
          /\ arrived' = arrived + 1 /\ stopMark' = arrived + 1
          /\ flushQueued' = pushing
          /\ IF pushing THEN UNCHANGED pushVars
                        ELSE StartPush(QueuesWith(k, FALSE))
          /\ options' = options /\ connected' = connected
    BY <1>7 DEF stopConnected, Added, StopClasses
  <2>2. CASE pushing
    BY <2>1, <2>2 DEF pushVars
  <2>3. CASE ~pushing
    <3>1. /\ pushing' \in BOOLEAN
          /\ ~pushing' => chunk' = Empty /\ prev' = Empty
      BY <2>1, <2>3, StartPushControl
    <3> QED
      BY <2>1, <2>3, <3>1
  <2> QED
    BY <2>2, <2>3
<1>8. CASE stopDisconnected
  BY <1>8 DEF stopDisconnected, queueVars, pushVars
<1>9. CASE UNCHANGED vars
  BY <1>9 DEF vars, pushVars, stopVars
<1> QED
  BY <1>1, <1>2, <1>3, <1>4, <1>5, <1>6, <1>7, <1>8, <1>9 DEF Next

(* Nothing is in new queues.                                               *)
LEMMA EmptyLists == \A E : Empty \in [Queues -> Seq(E)]
BY DEF Empty

(* A queue an event is added to has it after what it had.                  *)
LEMMA AddedLater ==
  ASSUME NEW n \in Nat, n <= arrived, Control,
         queue \in [Queues -> Seq(Later(n))],
         NEW k \in Class, NEW clear \in BOOLEAN
  PROVE  QueuesWith(k, clear) \in [Queues -> Seq(Later(n))]
<1> DEFINE q == QueueOf[k]
           e == Entry(k, clear, arrived + 1)
           new == Appended(queue[q], e, options.maxqueuelen,
                           options.deduplicate_events).queue
<1>1. /\ q \in Queues /\ queue[q] \in Seq(Later(n))
      /\ options.maxqueuelen \in Nat \ {0}
      /\ options.deduplicate_events \in BOOLEAN
  BY QueueOfAssumption, OptionTypes DEF Control
<1>2. arrived + 1 \in Nat /\ arrived + 1 > n
  BY DEF Control
<1>3. e \in Later(n) /\ e.count = 1
  BY <1>2, NewEntry
<1>4. QueuesWith(k, clear) \in {queue, [queue EXCEPT ![q] = new]}
  BY DEF QueuesWith
<1> HIDE DEF e
<1>5. new \in Seq(Later(n))
  BY <1>1, <1>3, AppendedLater
<1> HIDE DEF new, q
<1> QED
  BY <1>1, <1>4, <1>5

(* The queues are emptied when the stop, or the push behind it, begins its *)
(* push.                                                                   *)
LEMMA StepFlushed ==
  ASSUME Control, Flushed, [Next]_vars
  PROVE  Flushed'
<1>1. ASSUME NEW k \in Class, NEW clear \in BOOLEAN, addEvent(k, clear)
      PROVE  Flushed'
  <2>1. /\ queue' = QueuesWith(k, clear) /\ flushQueued' = flushQueued
        /\ stopMark' = stopMark
    BY <1>1 DEF addEvent, stopVars
  <2>2. stopMark > 0 /\ ~flushQueued =>
          QueuesWith(k, clear) \in [Queues -> Seq(Later(stopMark))]
    BY AddedLater DEF Control, Flushed
  <2> QED
    BY <2>1, <2>2 DEF Flushed
<1>2. CASE pushEvents
  <2>1. queue' = Empty
    BY <1>2, StartPushControl DEF pushEvents, Control
  <2> QED
    BY <2>1, EmptyLists DEF Flushed
<1>3. CASE sendEventsAnswered
  <2>1. stopMark' = stopMark
    BY <1>3 DEF sendEventsAnswered
  <2>2. CASE prev = Empty
    <3>1. /\ flushQueued => queue' = Empty
          /\ ~flushQueued => queue' = queue
      BY <1>3, <2>2, EndPushControl DEF sendEventsAnswered, Control
    <3> QED
      BY <2>1, <3>1, EmptyLists DEF Flushed
  <2>3. CASE prev # Empty
    BY <1>3, <2>1, <2>3 DEF sendEventsAnswered, Flushed
  <2> QED
    BY <2>2, <2>3
<1>4. CASE sendEventsFailed
  <2>1. CASE connected' /\ flushQueued
    <3>1. PICK restored : EndPush(restored)
      BY <1>4, <2>1 DEF sendEventsFailed
    <3>2. queue' = Empty
      BY <2>1, <3>1, EndPushControl DEF Control
    <3> QED
      BY <3>2, EmptyLists DEF Flushed
  <2>2. CASE ~(connected' /\ flushQueued)
    BY <1>4, <2>2 DEF sendEventsFailed, Flushed
  <2> QED
    BY <2>1, <2>2
<1>5. CASE connectionLost
  BY <1>5 DEF connectionLost, queueVars, stopVars, Flushed
<1>6. CASE gotPerspective
  BY <1>6 DEF gotPerspective, queueVars, stopVars, Flushed
<1>7. CASE stopConnected
  <2>1. PICK k \in Class :
          /\ flushQueued' = pushing
          /\ ~pushing => StartPush(QueuesWith(k, FALSE))
    BY <1>7 DEF stopConnected, StopClasses
  <2>2. ~pushing => queue' = Empty
    BY <2>1, StartPushControl DEF Control
  <2> QED
    BY <2>1, <2>2, EmptyLists DEF Flushed
<1>8. CASE stopDisconnected
  BY <1>8 DEF stopDisconnected, queueVars, Flushed
<1>9. CASE UNCHANGED vars
  BY <1>9 DEF vars, queueVars, stopVars, Flushed
<1> QED
  BY <1>1, <1>2, <1>3, <1>4, <1>5, <1>6, <1>7, <1>8, <1>9 DEF Next

-----------------------------------------------------------------------------
(* The lists that make up what is pending.                                 *)
LEMMA PendingLists ==
  ASSUME Lists, NEW q \in Queues
  PROVE  /\ chunk[q] \in Seq(Event) /\ prev[q] \in Seq(Event)
         /\ queue[q] \in Seq(Event) /\ Pending(q) \in Seq(Event)
         /\ chunk[q] \o prev[q] \in Seq(Event)
         /\ prev[q] \o queue[q] \in Seq(Event)
         /\ Pending(q) = (chunk[q] \o prev[q]) \o queue[q]
         /\ Pending(q) = chunk[q] \o (prev[q] \o queue[q])
<1>1. /\ chunk[q] \in Seq(Event) /\ prev[q] \in Seq(Event)
      /\ queue[q] \in Seq(Event)
  BY DEF Lists
<1>2. /\ chunk[q] \o prev[q] \in Seq(Event)
      /\ prev[q] \o queue[q] \in Seq(Event)
  BY <1>1, Joined
<1>3. (chunk[q] \o prev[q]) \o queue[q] = chunk[q] \o (prev[q] \o queue[q])
  <2> DEFINE a == chunk[q]
             b == prev[q]
             c == queue[q]
  <2>1. a \in Seq(Event) /\ b \in Seq(Event) /\ c \in Seq(Event)
    BY <1>1
  <2> HIDE DEF a, b, c
  <2>2. (a \o b) \o c = a \o (b \o c)
    BY <2>1, Associative
  <2> QED
    BY <2>2 DEF a, b, c
<1>4. (chunk[q] \o prev[q]) \o queue[q] \in Seq(Event)
  BY <1>1, <1>2, Joined
<1> QED
  BY <1>1, <1>2, <1>3, <1>4 DEF Pending

-----------------------------------------------------------------------------
(* Two lists put together are of elements of E only if both are.           *)
LEMMA Parts ==
  ASSUME NEW D, NEW a \in Seq(D), NEW b \in Seq(D), NEW E, a \o b \in Seq(E)
  PROVE  a \in Seq(E) /\ b \in Seq(E)
<1>1. \A i \in 1..Len(a) : (a \o b)[i] = a[i] /\ i \in 1..Len(a \o b)
  BY Joined
<1>2. \A i \in 1..Len(b) : (a \o b)[Len(a) + i] = b[i]
                           /\ Len(a) + i \in 1..Len(a \o b)
  BY Joined
<1>3. \A i \in 1..Len(a \o b) : (a \o b)[i] \in E
  BY ElementOfSeq
<1> QED
  BY <1>1, <1>2, <1>3

(* Queues that may be pushed.                                              *)
Within(queues) ==
  /\ queues \in [Queues -> Seq(Event)]
  /\ \A q \in Queues : /\ queues[q] \in Seq(OfQueue(q))
                       /\ Len(queues[q]) <= options.maxqueuelen

(* What is in a queue belongs in it.                                       *)
LEMMA PartsRouted ==
  ASSUME Routed
  PROVE  /\ Within(queue)
         /\ \A q \in Queues : /\ chunk[q] \o prev[q] \in Seq(OfQueue(q))
                              /\ prev[q] \o queue[q] \in Seq(OfQueue(q))
                              /\ prev[q] \in Seq(OfQueue(q))
<1>1. ASSUME NEW q \in Queues
      PROVE  /\ chunk[q] \o prev[q] \in Seq(OfQueue(q))
             /\ prev[q] \o queue[q] \in Seq(OfQueue(q))
             /\ prev[q] \in Seq(OfQueue(q)) /\ queue[q] \in Seq(OfQueue(q))
  <2>1. /\ chunk[q] \in Seq(Event) /\ prev[q] \in Seq(Event)
        /\ queue[q] \in Seq(Event)
        /\ chunk[q] \o prev[q] \in Seq(Event)
        /\ prev[q] \o queue[q] \in Seq(Event)
        /\ Pending(q) = (chunk[q] \o prev[q]) \o queue[q]
        /\ Pending(q) = chunk[q] \o (prev[q] \o queue[q])
    BY PendingLists DEF Routed
  <2>2. Pending(q) \in Seq(OfQueue(q))
    BY DEF Routed
  <2>3. /\ chunk[q] \o prev[q] \in Seq(OfQueue(q))
        /\ prev[q] \o queue[q] \in Seq(OfQueue(q))
    BY <2>1, <2>2, Parts
  <2> QED
    BY <2>1, <2>3, Parts
<1> QED
  BY <1>1 DEF Routed, Lists, Within

(* A push that starts has what it may have, ...                            *)
LEMMA StartPushRouted ==
  ASSUME NEW queues, Within(queues), options \in Options, options' = options,
         StartPush(queues)
  PROVE  Routed'
<1>1. /\ queue' = Empty /\ prev' \in [Queues -> Seq(Event)]
      /\ chunk' \in [Queues -> Seq(Event)]
      /\ \A q \in Queues : chunk'[q] \o prev'[q] = queues[q]
  BY StartPushMoves DEF Within
<1>2. \A q \in Queues : Pending(q)' = queues[q]
  BY StartPushHolds DEF Within, Holds
<1>3. options.maxqueuelen \in Nat
  BY OptionTypes
<1>4. Lists'
  BY <1>1, <1>3 DEF Lists, Empty
<1>5. ASSUME NEW q \in Queues
      PROVE  /\ Len(chunk'[q] \o prev'[q]) <= options'.maxqueuelen
             /\ Pending(q)' \in Seq(OfQueue(q))
  BY <1>1, <1>2 DEF Within
<1> QED
  BY <1>4, <1>5 DEF Routed

(* ... so has a daemon when a push ends with none behind it, ...           *)
LEMMA RestRouted ==
  ASSUME NEW queues, Within(queues), options \in Options, options' = options,
         queue' = queues, chunk' = Empty, prev' = Empty
  PROVE  Routed'
<1>1. \A q \in Queues : Pending(q)' = queues[q]
  BY RestHolds DEF Within, Holds
<1>2. Lists'
  BY EmptyLists DEF Lists, Within
<1>3. ASSUME NEW q \in Queues PROVE Len(chunk'[q] \o prev'[q]) = 0
  BY DEF Empty
<1>4. options.maxqueuelen \in Nat
  BY OptionTypes
<1>5. ASSUME NEW q \in Queues
      PROVE  /\ Len(chunk'[q] \o prev'[q]) <= options'.maxqueuelen
             /\ Pending(q)' \in Seq(OfQueue(q))
  BY <1>1, <1>3, <1>4 DEF Within
<1> QED
  BY <1>2, <1>5 DEF Routed

(* ... and whatever is behind it.                                          *)
LEMMA EndPushRouted ==
  ASSUME NEW queues, Within(queues), options \in Options, options' = options,
         EndPush(queues)
  PROVE  Routed'
<1>1. CASE flushQueued
  BY <1>1, StartPushRouted DEF EndPush
<1>2. CASE ~flushQueued
  BY <1>2, RestRouted DEF EndPush
<1> QED
  BY <1>1, <1>2

(* An event is added to the queue of its class, within its bound; if it is *)
(* not suppressed the queue is not empty.                                  *)
LEMMA AddedWithin ==
  ASSUME Control, Routed, NEW k \in Class, NEW clear \in BOOLEAN
  PROVE  /\ Within(QueuesWith(k, clear))
         /\ \A q \in Queues : queue[q] # <<>> =>
              QueuesWith(k, clear)[q] # <<>>
         /\ ~clear => QueuesWith(k, clear)[QueueOf[k]] # <<>>
<1> DEFINE p == QueueOf[k]
           e == Entry(k, clear, arrived + 1)
           m == options.maxqueuelen
           d == options.deduplicate_events
           new == Appended(queue[p], e, m, d).queue
<1>1. p \in Queues /\ m \in Nat \ {0} /\ d \in BOOLEAN
  BY QueueOfAssumption, OptionTypes DEF Control
<1>2. Within(queue)
  BY PartsRouted
<1>3. e \in OfQueue(p) /\ e.count = 1
  <2>1. arrived + 1 \in Nat /\ arrived + 1 > 0
    BY DEF Control
  <2>2. e \in Event /\ e.class = k /\ e.count = 1
    BY <2>1, NewEntry DEF Event
  <2> QED
    BY <2>2 DEF OfQueue
<1>4. /\ Suppressed(k, clear) => QueuesWith(k, clear) = queue
      /\ ~Suppressed(k, clear) =>
           QueuesWith(k, clear) = [queue EXCEPT ![p] = new]
  BY DEF QueuesWith
<1>5. ~clear => ~Suppressed(k, clear)
  BY DEF Suppressed
<1> HIDE DEF p, e, m, d
<1>6. /\ new \in Seq(OfQueue(p)) /\ new # <<>> /\ Len(new) <= m
  <2>1. queue[p] \in Seq(OfQueue(p)) /\ Len(queue[p]) <= m
    BY <1>1, <1>2 DEF Within, m
  <2> QED
    BY <1>1, <1>3, <2>1, OfQueueClosed, AppendedKeeps
<1>7. new \in Seq(Event)
  <2>1. OfQueue(p) \subseteq Event
    BY DEF OfQueue
  <2> HIDE DEF new
  <2> QED
    BY <1>6, <2>1
<1> HIDE DEF new
<1>8. Within([queue EXCEPT ![p] = new])
  BY <1>1, <1>2, <1>6, <1>7 DEF Within, m
<1>9. /\ [queue EXCEPT ![p] = new][p] # <<>>
      /\ \A q \in Queues : queue[q] # <<>> =>
           [queue EXCEPT ![p] = new][q] # <<>>
  BY <1>1, <1>2, <1>6 DEF Within
<1>10. CASE Suppressed(k, clear)
  BY <1>2, <1>4, <1>5, <1>10
<1>11. CASE ~Suppressed(k, clear)
  BY <1>4, <1>8, <1>9, <1>11 DEF p
<1> QED
  BY <1>10, <1>11

(* What a failed push puts back goes in the queues it was taken from.      *)
LEMMA PutBackWithin ==
  ASSUME options \in Options, NEW queues, Within(queues), NEW events,
         \A q \in Queues : events[q] \in Seq(OfQueue(q)),
         NEW back, back = [q \in Queues |-> PutBack(queues, events)[q].queue]
  PROVE  /\ Within(back)
         /\ \A q \in Queues : queues[q] # <<>> => back[q] # <<>>
<1>1. options.maxqueuelen \in Nat /\ options.deduplicate_events \in BOOLEAN
  BY OptionTypes
<1>2. ASSUME NEW q \in Queues
      PROVE  /\ back[q] \in Seq(OfQueue(q)) /\ back[q] \in Seq(Event)
             /\ Len(back[q]) <= options.maxqueuelen
             /\ queues[q] # <<>> => back[q] # <<>>
  <2>1. back[q] = Restored(queues[q], events[q], options.maxqueuelen,
                           options.deduplicate_events).queue
    BY DEF PutBack
  <2>2. /\ queues[q] \in Seq(OfQueue(q)) /\ events[q] \in Seq(OfQueue(q))
        /\ Len(queues[q]) <= options.maxqueuelen
    BY DEF Within
  <2> DEFINE m == options.maxqueuelen
             d == options.deduplicate_events
             r == Restored(queues[q], events[q], m, d).queue
  <2>3. m \in Nat /\ d \in BOOLEAN /\ Len(queues[q]) <= m /\ back[q] = r
    BY <1>1, <2>1, <2>2
  <2> HIDE DEF m, d
  <2>4. /\ r \in Seq(OfQueue(q)) /\ Len(r) <= m
        /\ queues[q] # <<>> => r # <<>>
    BY <2>2, <2>3, OfQueueClosed, RestoredKeeps
  <2>5. OfQueue(q) \subseteq Event
    BY DEF OfQueue
  <2> HIDE DEF r
  <2>6. r \in Seq(Event)
    BY <2>4, <2>5
  <2> QED
    BY <2>3, <2>4, <2>6 DEF m
<1> QED
  BY <1>2 DEF Within

(* The queues of a step.                                                   *)
LEMMA StepRouted ==
  ASSUME Control, Routed, Stopping, [Next]_vars
  PROVE  Routed' /\ Stopping'
<1>0. options \in Options /\ Within(queue) /\ Within(Empty)
  <2>1. options \in Options /\ options.maxqueuelen \in Nat
    BY OptionTypes DEF Control
  <2>2. \A q \in Queues : Empty[q] = <<>> /\ Len(Empty[q]) = 0
    BY DEF Empty
  <2>3. Within(Empty)
    BY <2>1, <2>2, EmptyLists DEF Within
  <2> QED
    BY <2>1, <2>3, PartsRouted
<1>1. ASSUME NEW k \in Class, NEW clear \in BOOLEAN, addEvent(k, clear)
      PROVE  Routed' /\ Stopping'
  <2>1. /\ queue' = QueuesWith(k, clear) /\ options' = options
        /\ UNCHANGED <<chunk, prev, pushing, life, flushQueued>>
    BY <1>1 DEF addEvent, pushVars, stopVars
  <2>2. /\ Within(queue')
        /\ \A q \in Queues : queue[q] # <<>> => queue'[q] # <<>>
    BY <2>1, AddedWithin
  <2>3. Stopping'
    BY <2>1, <2>2 DEF Stopping, Queues
  <2>4. Lists'
    BY <2>1, <2>2 DEF Lists, Routed, Within
  <2>5. ASSUME NEW q \in Queues PROVE Pending(q)' \in Seq(OfQueue(q))
    <3>1. chunk[q] \o prev[q] \in Seq(OfQueue(q))
      BY PartsRouted
    <3>2. queue'[q] \in Seq(OfQueue(q))
      BY <2>2 DEF Within
    <3>3. (chunk[q] \o prev[q]) \o queue'[q] \in Seq(OfQueue(q))
      BY <3>1, <3>2, Joined
    <3> QED
      BY <2>1, <3>3 DEF Pending
  <2> QED
    BY <2>1, <2>3, <2>4, <2>5 DEF Routed
<1>2. CASE pushEvents
  <2>1. /\ StartPush(queue) /\ options' = options /\ ~pushing
        /\ life' = life /\ flushQueued' = flushQueued
    BY <1>2 DEF pushEvents, stopVars
  <2>2. Routed'
    BY <1>0, <2>1, StartPushRouted
  <2>3. life # "stopping" /\ ~flushQueued
    BY <2>1 DEF Control, Stopping
  <2> QED
    BY <2>1, <2>2, <2>3 DEF Stopping
<1>3. CASE sendEventsAnswered
  <2>1. options' = options
    BY <1>3 DEF sendEventsAnswered
  <2>2. CASE prev = Empty
    <3>1. EndPush(queue)
      BY <1>3, <2>2 DEF sendEventsAnswered
    <3>2. Routed'
      BY <1>0, <2>1, <3>1, EndPushRouted
    <3>3. flushQueued => queue # Empty
      BY DEF Stopping, Empty, Queues
    <3>4. Stopping'
      BY <1>0, <3>1, <3>3, EndPushControl DEF Stopping
    <3> QED
      BY <3>2, <3>4
  <2>3. CASE prev # Empty
    <3>1. /\ chunk' = Chunked(prev, 0).chunk /\ prev' = Chunked(prev, 0).rest
          /\ UNCHANGED <<queue, pushing, life, flushQueued>>
      BY <1>3, <2>3 DEF sendEventsAnswered
    <3>2. /\ chunk' \in [Queues -> Seq(Event)]
          /\ prev' \in [Queues -> Seq(Event)]
          /\ \A q \in Queues : chunk'[q] \o prev'[q] = prev[q]
      <4>1. prev \in [Queues -> Seq(Event)] /\ 0 \in 0..1
        BY DEF Routed, Lists
      <4> QED
        BY <1>0, <3>1, <4>1, ChunkAndRest
    <3>3. Stopping' /\ Lists'
      BY <2>1, <3>1, <3>2 DEF Stopping, Lists, Routed
    <3>4. ASSUME NEW q \in Queues
          PROVE  /\ Len(chunk'[q] \o prev'[q]) <= options.maxqueuelen
                 /\ Pending(q)' \in Seq(OfQueue(q))
      <4>1. /\ chunk[q] \in Seq(Event) /\ prev[q] \in Seq(Event)
            /\ Len(chunk[q] \o prev[q]) <= options.maxqueuelen
        BY PendingLists DEF Routed
      <4>2. Len(prev[q]) <= options.maxqueuelen
        <5>1. /\ Len(chunk[q] \o prev[q]) = Len(chunk[q]) + Len(prev[q])
              /\ Len(chunk[q]) \in Nat /\ Len(prev[q]) \in Nat
          BY <4>1, Joined
        <5> DEFINE m == options.maxqueuelen
                   l == Len(chunk[q])
                   n == Len(prev[q])
        <5>2. m \in Nat /\ l \in Nat /\ n \in Nat /\ l + n <= m
          BY <1>0, <4>1, <5>1, OptionTypes
        <5> HIDE DEF m, l, n
        <5>3. n <= m
          BY <5>2
        <5> QED
          BY <5>3 DEF m, n
      <4>3. prev[q] \o queue[q] \in Seq(OfQueue(q))
        BY PartsRouted
      <4> QED
        BY <3>1, <3>2, <4>2, <4>3 DEF Pending
    <3> QED
      BY <2>1, <3>3, <3>4 DEF Routed
  <2> QED
    BY <2>2, <2>3
<1>4. CASE sendEventsFailed
  <2> DEFINE back == PutBack(queue, [q \in Queues |-> chunk[q] \o prev[q]])
             restored == [q \in Queues |-> back[q].queue]
             again == PutBack(Empty, restored)
             refilled == [q \in Queues |-> again[q].queue]
  <2>1. /\ options' = options
        /\ IF connected' THEN EndPush(restored)
           ELSE /\ queue' = IF flushQueued THEN refilled ELSE restored
                /\ chunk' = Empty /\ prev' = Empty /\ pushing' = FALSE
                /\ flushQueued' = FALSE
                /\ life' = IF life = "stopping" THEN "stopped" ELSE life
    BY <1>4 DEF sendEventsFailed
  <2>2. /\ Within(restored)
        /\ \A q \in Queues : queue[q] # <<>> => restored[q] # <<>>
    <3> DEFINE events == [q \in Queues |-> chunk[q] \o prev[q]]
    <3>1. \A q \in Queues : events[q] \in Seq(OfQueue(q))
      BY PartsRouted
    <3>2. restored = [q \in Queues |-> PutBack(queue, events)[q].queue]
      OBVIOUS
    <3> HIDE DEF events, restored
    <3> QED
      BY <1>0, <3>1, <3>2, PutBackWithin
  <2> HIDE DEF back, restored
  <2>3. Within(refilled)
    <3>1. \A q \in Queues : restored[q] \in Seq(OfQueue(q))
      BY <2>2 DEF Within
    <3> QED
      BY <1>0, <3>1, PutBackWithin
  <2> HIDE DEF refilled
  <2>4. CASE connected'
    <3>1. Routed'
      BY <1>0, <2>1, <2>2, <2>4, EndPushRouted
    <3>2. flushQueued => restored # Empty
      BY <2>2 DEF Stopping, Empty, Queues
    <3>3. Stopping'
      BY <1>0, <2>1, <2>4, <3>2, EndPushControl DEF Stopping
    <3> QED
      BY <3>1, <3>3
  <2>5. CASE ~connected'
    <3>1. Routed'
      BY <1>0, <2>1, <2>2, <2>3, <2>5, RestRouted
    <3> QED
      BY <2>1, <2>5, <3>1 DEF Stopping
  <2> QED
    BY <2>4, <2>5
<1>5. CASE stopConnected
  <2>1. PICK k \in Class :
          /\ QueueOf[k] = "event" /\ options' = options
          /\ life' = "stopping" /\ flushQueued' = pushing
          /\ IF pushing THEN queue' = QueuesWith(k, FALSE) /\ UNCHANGED pushVars
                        ELSE StartPush(QueuesWith(k, FALSE))
    BY <1>5 DEF stopConnected, StopClasses
  <2> DEFINE new == QueuesWith(k, FALSE)
  <2>2. Within(new) /\ new["event"] # <<>>
    BY <2>1, AddedWithin
  <2> HIDE DEF new
  <2>3. CASE pushing
    <3>1. queue' = new /\ UNCHANGED <<chunk, prev, pushing>>
      BY <2>1, <2>3 DEF new, pushVars
    <3>2. Lists'
      BY <2>1, <2>2, <3>1 DEF Lists, Routed, Within
    <3>3. ASSUME NEW q \in Queues PROVE Pending(q)' \in Seq(OfQueue(q))
      <4>1. chunk[q] \o prev[q] \in Seq(OfQueue(q))
        BY PartsRouted
      <4>2. new[q] \in Seq(OfQueue(q))
        BY <2>2 DEF Within
      <4>3. (chunk[q] \o prev[q]) \o new[q] \in Seq(OfQueue(q))
        BY <4>1, <4>2, Joined
      <4> QED
        BY <3>1, <4>3 DEF Pending
    <3>4. Routed'
      BY <2>1, <3>1, <3>2, <3>3 DEF Routed
    <3> QED
      BY <2>1, <2>2, <2>3, <3>1, <3>4 DEF Stopping
  <2>4. CASE ~pushing
    <3>1. StartPush(new) /\ new # Empty
      BY <2>1, <2>2, <2>4 DEF new, Empty, Queues
    <3>2. Routed'
      BY <1>0, <2>1, <2>2, <3>1, StartPushRouted
    <3>3. pushing'
      BY <1>0, <3>1, StartPushControl
    <3> QED
      BY <2>1, <2>4, <3>2, <3>3 DEF Stopping
  <2> QED
    BY <2>3, <2>4
<1>6. CASE connectionLost \/ gotPerspective \/ UNCHANGED vars
  <2>1. UNCHANGED <<options, queue, chunk, prev, pushing, life, flushQueued>>
    BY <1>6 DEF connectionLost, gotPerspective, vars, queueVars, pushVars,
                stopVars
  <2> QED
    BY <2>1 DEF Routed, Lists, Stopping, Pending
<1>7. CASE stopDisconnected
  <2>1. /\ UNCHANGED <<options, queue, chunk, prev, pushing, flushQueued>>
        /\ life' = "stopped"
    BY <1>7 DEF stopDisconnected, queueVars, pushVars
  <2> QED
    BY <2>1 DEF Routed, Lists, Stopping, Pending
<1> QED
  BY <1>1, <1>2, <1>3, <1>4, <1>5, <1>6, <1>7 DEF Next

-----------------------------------------------------------------------------
(* What is pending when an event has been added to the queues.             *)
Coming(k, clear, q) == (chunk[q] \o prev[q]) \o QueuesWith(k, clear)[q]

(* Nothing else is pending while no push is on.                            *)
LEMMA IdlePending ==
  ASSUME Control, ~pushing, NEW q \in Queues, NEW s \in Seq(Event)
  PROVE  (chunk[q] \o prev[q]) \o s = s
<1>1. chunk[q] = <<>> /\ prev[q] = <<>>
  BY DEF Control, Empty
<1>2. <<>> \o <<>> = <<>> /\ <<>> \o s = s
  BY Nothing
<1> QED
  BY <1>1, <1>2

(* What a step leaves pending.  An event is added while a push is on or    *)
(* before one that starts: it comes after what was in its queue.           *)
LEMMA AddedPending ==
  ASSUME Control, Routed, NEW k \in Class, NEW clear \in BOOLEAN,
         \/ queue' = QueuesWith(k, clear) /\ UNCHANGED pushVars
         \/ ~pushing /\ StartPush(QueuesWith(k, clear)),
         NEW q \in Queues
  PROVE  Pending(q)' = Coming(k, clear, q)
<1>1. CASE queue' = QueuesWith(k, clear) /\ UNCHANGED pushVars
  BY <1>1 DEF Pending, Coming, pushVars
<1>2. CASE ~pushing /\ StartPush(QueuesWith(k, clear))
  <2>1. QueuesWith(k, clear) \in [Queues -> Seq(Event)]
    BY AddedWithin DEF Within
  <2>2. Holds(QueuesWith(k, clear))
    BY <1>2, <2>1, StartPushHolds DEF Control
  <2>3. Coming(k, clear, q) = QueuesWith(k, clear)[q]
    BY <1>2, <2>1, IdlePending DEF Coming
  <2> QED
    BY <2>2, <2>3 DEF Holds
<1> QED
  BY <1>1, <1>2

(* A push that starts takes what was pending.                              *)
LEMMA PushedPending ==
  ASSUME Control, Routed, pushEvents, NEW q \in Queues
  PROVE  Pending(q)' = Pending(q)
<1>1. queue \in [Queues -> Seq(Event)] /\ ~pushing /\ StartPush(queue)
  BY DEF Routed, Lists, pushEvents
<1>2. Pending(q)' = queue[q]
  BY <1>1, StartPushHolds DEF Control, Holds
<1> QED
  BY <1>1, <1>2, IdlePending DEF Pending

(* When the hub has a chunk the rest is pending.                           *)
LEMMA AnsweredPending ==
  ASSUME Control, Routed, sendEventsAnswered, NEW q \in Queues
  PROVE  Pending(q)' = prev[q] \o queue[q]
<1>1. options \in Options
  BY DEF Control
<1>2. CASE prev = Empty
  <2>1. queue \in [Queues -> Seq(Event)] /\ EndPush(queue)
    BY <1>2 DEF Routed, Lists, sendEventsAnswered
  <2>2. Pending(q)' = queue[q] /\ queue[q] \in Seq(Event)
    BY <1>1, <2>1, EndPushHolds DEF Holds
  <2> QED
    BY <1>2, <2>2, Nothing DEF Empty
<1>3. CASE prev # Empty
  <2>1. /\ chunk' = Chunked(prev, 0).chunk
        /\ prev' = Chunked(prev, 0).rest /\ queue' = queue
    BY <1>3 DEF sendEventsAnswered
  <2>2. prev \in [Queues -> Seq(Event)] /\ 0 \in 0..1
    BY DEF Routed, Lists
  <2>3. Chunked(prev, 0).chunk[q] \o Chunked(prev, 0).rest[q] = prev[q]
    BY <1>1, <2>2, ChunkAndRest
  <2> QED
    BY <2>1, <2>3 DEF Pending
<1> QED
  BY <1>2, <1>3

(* A push that fails leaves what is put back; without de-duplication also  *)
(* when the push behind it fails at once.                                  *)
LEMMA FailedPending ==
  ASSUME Control, Routed, sendEventsFailed, NEW q \in Queues,
         NEW back, back = Restored(queue[q], chunk[q] \o prev[q],
                                   options.maxqueuelen,
                                   options.deduplicate_events)
  PROVE  /\ Pending(q)' \in Seq(Event)
         /\ Occurrences(Pending(q)') <= Occurrences(back.queue)
         /\ ~options.deduplicate_events => Pending(q)' = back.queue
<1> DEFINE all == PutBack(queue, [p \in Queues |-> chunk[p] \o prev[p]])
           restored == [p \in Queues |-> all[p].queue]
           again == PutBack(Empty, restored)
           refilled == [p \in Queues |-> again[p].queue]
           m == options.maxqueuelen
           d == options.deduplicate_events
<1>1. /\ options \in Options /\ m \in Nat /\ d \in BOOLEAN
  BY OptionTypes DEF Control
<1>2. \/ EndPush(restored)
      \/ /\ queue' = IF flushQueued THEN refilled ELSE restored
         /\ chunk' = Empty /\ prev' = Empty
  BY DEF sendEventsFailed
<1>3. Within(queue) /\ Within(Empty)
  <2>1. \A p \in Queues : Empty[p] = <<>> /\ Len(Empty[p]) = 0
    BY DEF Empty
  <2> QED
    BY <1>1, <2>1, PartsRouted, EmptyLists DEF Within
<1>4. Within(restored)
  <2> DEFINE events == [p \in Queues |-> chunk[p] \o prev[p]]
  <2>1. \A p \in Queues : events[p] \in Seq(OfQueue(p))
    BY PartsRouted
  <2>2. restored = [p \in Queues |-> PutBack(queue, events)[p].queue]
    OBVIOUS
  <2> HIDE DEF events, restored
  <2> QED
    BY <1>1, <1>3, <2>1, <2>2, PutBackWithin
<1>5. restored[q] = back.queue
  BY DEF PutBack
<1>6. refilled[q] = Restored(<<>>, restored[q], m, d).queue
  BY DEF PutBack, Empty
<1> HIDE DEF restored, all
<1>7. Within(refilled)
  <2>1. \A p \in Queues : restored[p] \in Seq(OfQueue(p))
    BY <1>4 DEF Within
  <2> QED
    BY <1>1, <1>3, <2>1, PutBackWithin
<1> HIDE DEF refilled, m, d
<1>8. \/ Pending(q)' = restored[q]
      \/ Pending(q)' = refilled[q]
  <2>1. ASSUME NEW queues \in {restored, refilled},
               \/ EndPush(queues)
               \/ queue' = queues /\ chunk' = Empty /\ prev' = Empty
        PROVE  Pending(q)' = queues[q]
    <3>1. queues \in [Queues -> Seq(Event)]
      BY <1>4, <1>7 DEF Within
    <3>2. Holds(queues)
      BY <1>1, <2>1, <3>1, EndPushHolds, RestHolds
    <3> QED
      BY <3>2 DEF Holds
  <2> QED
    BY <1>2, <2>1
<1>9. /\ restored[q] \in Seq(Event) /\ Len(restored[q]) <= m
      /\ refilled[q] \in Seq(Event)
  BY <1>4, <1>7 DEF Within, m
<1>10. /\ Occurrences(refilled[q]) <= Occurrences(restored[q])
       /\ ~d => refilled[q] = restored[q]
  <2> DEFINE again1 == Restored(<<>>, restored[q], m, d)
  <2>1. /\ Closed(Event) /\ <<>> \in Seq(Event) /\ Len(<<>>) <= m
        /\ Occurrences(<<>>) = 0 /\ Occurrences(restored[q]) \in Nat
    BY <1>1, <1>9, LaterClosed, OccurrencesAre DEF Event
  <2>2. /\ again1.queue \in Seq(Event) /\ again1.discarded \in Seq(Event)
        /\ Occurrences(again1.queue) + Occurrences(again1.discarded)
             <= Occurrences(<<>>) + Occurrences(restored[q])
    BY <1>1, <1>9, <2>1, RestoredKeeps
  <2>3. ~d => again1.queue = restored[q]
    BY <1>1, <1>9, WhatFitsIsRestored
  <2> HIDE DEF again1
  <2>4. Occurrences(again1.queue) \in Nat /\ Occurrences(again1.discarded) \in Nat
    BY <2>2, OccurrencesAre
  <2>5. Occurrences(again1.queue) <= Occurrences(restored[q])
    BY <2>1, <2>2, <2>4
  <2> QED
    BY <1>6, <2>3, <2>5 DEF again1
<1>11. Occurrences(restored[q]) <= Occurrences(restored[q])
  BY <1>9, OccurrencesAre
<1> QED
  BY <1>5, <1>8, <1>9, <1>10, <1>11 DEF d

-----------------------------------------------------------------------------
(* It is what was pending, with the event at its end unless it was         *)
(* suppressed, and less the oldest event of the queue if that was full.    *)
LEMMA WhatIsAdded ==
  ASSUME ~options.deduplicate_events, Control, Lists, discarded_events \in Nat,
         NEW k \in Class, NEW clear \in BOOLEAN, Added(k, clear)
  PROVE  /\ QueuesWith(k, clear) \in [Queues -> Seq(Event)]
         /\ \A q \in Queues :
              Len(QueuesWith(k, clear)[q]) <= options.maxqueuelen
         /\ \A q \in Queues \ {QueueOf[k]} : Coming(k, clear, q) = Pending(q)
         /\ \/ /\ Suppressed(k, clear)
               /\ Coming(k, clear, QueueOf[k]) = Pending(QueueOf[k])
               /\ discarded_events' = discarded_events
               /\ clearCount' = Counted(k, clear)
            \/ /\ queue[QueueOf[k]] # <<>>
               /\ Coming(k, clear, QueueOf[k])
                    = Append((chunk[QueueOf[k]] \o prev[QueueOf[k]])
                               \o Tail(queue[QueueOf[k]]),
                             Entry(k, clear, arrived + 1))
               /\ discarded_events' = discarded_events + 1
            \/ /\ Coming(k, clear, QueueOf[k])
                    = Append(Pending(QueueOf[k]), Entry(k, clear, arrived + 1))
               /\ discarded_events' = discarded_events
               /\ clearCount' = Forgotten(Counted(k, clear), <<>>)
<1> DEFINE p == QueueOf[k]
           e == Entry(k, clear, arrived + 1)
           m == options.maxqueuelen
           new == Appended(queue[p], e, m, FALSE)
<1>1. p \in Queues /\ m \in Nat \ {0} /\ options.deduplicate_events = FALSE
  BY QueueOfAssumption, OptionTypes DEF Control
<1>2. \A q \in Queues : queue[q] \in Seq(Event) /\ Len(queue[q]) <= m
  BY DEF Lists
<1>3. e \in Event
  BY NewEntry DEF Control, Event
<1>4. CASE Suppressed(k, clear)
  <2>1. QueuesWith(k, clear) = queue
    BY <1>4 DEF QueuesWith
  <2>2. \A q \in Queues : Coming(k, clear, q) = Pending(q)
    BY <2>1 DEF Coming, Pending
  <2>3. discarded_events' = discarded_events /\ clearCount' = Counted(k, clear)
    BY <1>4 DEF Added
  <2> QED
    BY <1>1, <1>2, <1>4, <2>1, <2>2, <2>3 DEF Lists
<1>5. CASE ~Suppressed(k, clear)
  <2>1. QueuesWith(k, clear) = [queue EXCEPT ![p] = new.queue]
    BY <1>1, <1>5 DEF QueuesWith
  <2>2. /\ clearCount' = Forgotten(Counted(k, clear), new.discarded)
        /\ discarded_events' = discarded_events + Len(new.discarded)
    BY <1>1, <1>5 DEF Added
  <2>3. queue[p] \in Seq(Event) /\ Len(queue[p]) <= m
    BY <1>1, <1>2
  <2> HIDE DEF e, m, p
  <2>4. /\ new.queue \in Seq(Event) /\ Len(new.queue) <= m
        /\ \/ /\ queue[p] # <<>>
              /\ new.queue = Append(Tail(queue[p]), e)
              /\ Len(new.discarded) = 1
           \/ /\ new.queue = Append(queue[p], e)
              /\ new.discarded = <<>>
    BY <1>1, <1>3, <2>3, WhatIsAppended
  <2> HIDE DEF new
  <2>5. /\ QueuesWith(k, clear) \in [Queues -> Seq(Event)]
        /\ QueuesWith(k, clear)[p] = new.queue
        /\ \A q \in Queues \ {p} : QueuesWith(k, clear)[q] = queue[q]
    BY <1>1, <2>1, <2>4 DEF Lists
  <2>6. \A q \in Queues : Len(QueuesWith(k, clear)[q]) <= m
    BY <1>2, <2>4, <2>5
  <2>7. \A q \in Queues \ {p} : Coming(k, clear, q) = Pending(q)
    BY <2>5 DEF Coming, Pending
  <2>8. /\ chunk[p] \o prev[p] \in Seq(Event) /\ queue[p] \in Seq(Event)
        /\ Pending(p) = (chunk[p] \o prev[p]) \o queue[p]
        /\ Coming(k, clear, p) = (chunk[p] \o prev[p]) \o new.queue
    BY <1>1, <2>5, PendingLists DEF Coming
  <2>9. CASE queue[p] # <<>> /\ new.queue = Append(Tail(queue[p]), e)
             /\ Len(new.discarded) = 1
    <3>1. Tail(queue[p]) \in Seq(Event)
      BY <2>8, <2>9, HeadTailProperties
    <3>2. Coming(k, clear, p)
            = Append((chunk[p] \o prev[p]) \o Tail(queue[p]), e)
      BY <1>3, <2>8, <2>9, <3>1, AppendedAfter
    <3>3. discarded_events' = discarded_events + 1
      BY <2>2, <2>9
    <3> QED
      BY <2>5, <2>6, <2>7, <2>9, <3>2, <3>3 DEF e, m, p
  <2>10. CASE new.queue = Append(queue[p], e) /\ new.discarded = <<>>
    <3>1. Coming(k, clear, p) = Append(Pending(p), e)
      BY <1>3, <2>8, <2>10, AppendedAfter
    <3>2. /\ discarded_events' = discarded_events
          /\ clearCount' = Forgotten(Counted(k, clear), <<>>)
      BY <2>2, <2>10
    <3> QED
      BY <2>5, <2>6, <2>7, <3>1, <3>2 DEF e, m, p
  <2> QED
    BY <2>4, <2>9, <2>10
<1> QED
  BY <1>4, <1>5

(* It is in the order of arrival.                                          *)
LEMMA AddedOrdered ==
  ASSUME ~options.deduplicate_events, Control, Lists, discarded_events \in Nat,
         \A q \in Queues : Ordered(Pending(q), arrived),
         NEW k \in Class, NEW clear \in BOOLEAN, Added(k, clear),
         NEW q \in Queues
  PROVE  Ordered(Coming(k, clear, q), arrived')
<1> DEFINE e == Entry(k, clear, arrived + 1)
           a == chunk[q] \o prev[q]
           b == queue[q]
<1>1. arrived' = arrived + 1 /\ arrived \in Nat
  BY DEF Added, Control
<1>2. e \in Event /\ e.last = arrived + 1 /\ e.count = 1
  BY <1>1, NewEntry DEF Event
<1>3. /\ a \in Seq(Event) /\ b \in Seq(Event)
      /\ Pending(q) \in Seq(Event) /\ Pending(q) = a \o b
      /\ Ordered(Pending(q), arrived)
  BY PendingLists
<1>4. \/ Coming(k, clear, q) = Pending(q)
      \/ b # <<>> /\ Coming(k, clear, q) = Append(a \o Tail(b), e)
      \/ Coming(k, clear, q) = Append(Pending(q), e)
  BY WhatIsAdded
<1> HIDE DEF a, b, e
<1>5. CASE Coming(k, clear, q) = Pending(q)
  BY <1>1, <1>3, <1>5, OrderedStill
<1>6. CASE b # <<>> /\ Coming(k, clear, q) = Append(a \o Tail(b), e)
  <2>1. Tail(b) \in Seq(Event)
    BY <1>3, <1>6, HeadTailProperties
  <2>2. a \o Tail(b) \in Seq(Event)
    BY <1>3, <2>1, Joined
  <2>3. Ordered(a \o Tail(b), arrived)
    BY <1>1, <1>3, <1>6, OrderedWithout
  <2>4. Ordered(Append(a \o Tail(b), e), arrived + 1)
    BY <1>1, <1>2, <2>2, <2>3, OrderedNext
  <2> QED
    BY <1>1, <1>6, <2>4
<1>7. CASE Coming(k, clear, q) = Append(Pending(q), e)
  BY <1>1, <1>2, <1>3, <1>7, OrderedNext
<1> QED
  BY <1>4, <1>5, <1>6, <1>7

(* Nothing that was not discarded is taken from the counts of clears.      *)
LEMMA NothingForgotten ==
  ASSUME NEW counts, NEW clears, Counts(counts, clears)
  PROVE  Counts(Forgotten(counts, <<>>), clears)
<1>1. \A k : {i \in DOMAIN <<>> : <<>>[i].clear /\ <<>>[i].class = k} = {}
  OBVIOUS
<1>2. Cardinality({}) = 0
  BY FS_EmptySet
<1>3. /\ DOMAIN Forgotten(counts, <<>>) = DOMAIN counts
      /\ \A k \in Class \cap DOMAIN counts :
           Forgotten(counts, <<>>)[k] \in {counts[k], counts[k] - 0}
  BY <1>1, <1>2 DEF Forgotten
<1>4. \A k \in Class \cap DOMAIN counts :
        Forgotten(counts, <<>>)[k] = counts[k]
  BY <1>3 DEF Counts
<1> QED
  BY <1>3, <1>4 DEF Counts

(* A class that counts clears is clear.                                    *)
LEMMA CountedClears ==
  ASSUME latest \in [Class -> BOOLEAN], Counts(clearCount, latest),
         NEW k \in Class, NEW clear \in BOOLEAN,
         NEW new, new = [latest EXCEPT ![k] = clear]
  PROVE  Counts(Counted(k, clear), new)
<1> DEFINE c == Counted(k, clear)
<1>1. \A j \in Class : new[j] = IF j = k THEN clear ELSE latest[j]
  OBVIOUS
<1>2. CASE ~CountsClears
  <2>1. c = clearCount /\ DOMAIN clearCount = {}
    BY <1>2 DEF Counted, Counts
  <2> QED
    BY <2>1 DEF Counts
<1>3. CASE CountsClears /\ clear = TRUE
  <2>1. c = [j \in DOMAIN clearCount \cup {k} |->
               IF j = k THEN current_count(k) + 1 ELSE clearCount[j]]
    BY <1>3 DEF Counted
  <2>2. current_count(k) \in Int
    BY DEF current_count, Counts
  <2> HIDE DEF c
  <2>3. ASSUME NEW j \in Class \cap DOMAIN c
        PROVE  c[j] \in Int /\ (c[j] # 0 => new[j])
    <3>1. CASE j = k
      <4>1. c[j] = current_count(k) + 1 /\ new[j] = TRUE
        BY <1>1, <1>3, <2>1, <3>1
      <4> QED
        BY <2>2, <4>1
    <3>2. CASE j # k
      <4>1. j \in Class \cap DOMAIN clearCount /\ c[j] = clearCount[j]
        BY <2>1, <3>2
      <4>2. new[j] = latest[j]
        BY <1>1, <3>2
      <4> QED
        BY <4>1, <4>2 DEF Counts
    <3> QED
      BY <3>1, <3>2
  <2>4. Counts(c, new)
    BY <1>3, <2>3 DEF Counts
  <2> QED
    BY <2>4 DEF c
<1>4. CASE CountsClears /\ clear = FALSE
  <2>1. c = [j \in DOMAIN clearCount \ {k} |-> clearCount[j]]
    BY <1>4 DEF Counted, Restrict
  <2> HIDE DEF c
  <2>2. ASSUME NEW j \in Class \cap DOMAIN c
        PROVE  c[j] \in Int /\ (c[j] # 0 => new[j])
    <3>1. /\ j \in Class \cap DOMAIN clearCount /\ j # k
          /\ c[j] = clearCount[j]
      BY <2>1
    <3>2. new[j] = latest[j]
      BY <1>1, <3>1
    <3> QED
      BY <3>1, <3>2 DEF Counts
  <2>3. Counts(c, new)
    BY <1>4, <2>2 DEF Counts
  <2> QED
    BY <2>3 DEF c
<1> QED
  BY <1>2, <1>3, <1>4

(* Only clears of a class that is clear are suppressed.                    *)
LEMMA SuppressedIsClear ==
  ASSUME options \in Options, Counts(clearCount, latest),
         NEW k \in Class, NEW clear \in BOOLEAN, Suppressed(k, clear)
  PROVE  clear = TRUE /\ latest[k]
<1> DEFINE n == options.duplicateclearinterval
<1>1. n \in Nat
  BY OptionTypes
<1>2. clear /\ (\/ current_count(k) # 0
                \/ n > 0 /\ current_count(k) % n # 0)
  BY DEF Suppressed
<1> HIDE DEF n
<1>3. n > 0 => 0 % n = 0
  BY <1>1
<1>4. clear = TRUE /\ current_count(k) # 0
  BY <1>2, <1>3
<1>5. k \in Class \cap DOMAIN clearCount /\ clearCount[k] # 0
  BY <1>4 DEF current_count
<1> QED
  BY <1>4, <1>5 DEF Counts

(* The hub will know of an event that was added when it has all that is    *)
(* pending, unless something was discarded.                                *)
LEMMA AddedInformed ==
  ASSUME ~options.deduplicate_events, Control, Lists, Informed,
         options' = options,
         NEW k \in Class, NEW clear \in BOOLEAN, Added(k, clear)
  PROVE  /\ discarded_events' \in Nat
         /\ discarded_events' = 0 =>
              /\ latest' \in [Class -> BOOLEAN]
              /\ Counts(clearCount, latest)'
              /\ \A c \in Class : Ends(Coming(k, clear, QueueOf[c]), c,
                                       latest'[c], hubLatest[c])
<1> DEFINE e == Entry(k, clear, arrived + 1)
           p == QueueOf[k]
<1>1. /\ p \in Queues /\ discarded_events \in Nat
      /\ e \in Event /\ e.class = k /\ e.clear = clear
  BY QueueOfAssumption, NewEntry DEF Control, Informed, Event
<1>2. /\ \A q \in Queues \ {p} : Coming(k, clear, q) = Pending(q)
      /\ \/ /\ Suppressed(k, clear)
            /\ Coming(k, clear, p) = Pending(p)
            /\ discarded_events' = discarded_events
            /\ clearCount' = Counted(k, clear)
         \/ discarded_events' = discarded_events + 1
         \/ /\ Coming(k, clear, p) = Append(Pending(p), e)
            /\ discarded_events' = discarded_events
            /\ clearCount' = Forgotten(Counted(k, clear), <<>>)
  BY <1>1, WhatIsAdded
<1> HIDE DEF e, p
<1>3. discarded_events' \in Nat
  BY <1>1, <1>2
<1>4. ASSUME discarded_events' = 0
      PROVE  /\ latest' \in [Class -> BOOLEAN]
             /\ Counts(clearCount, latest)'
             /\ \A c \in Class : Ends(Coming(k, clear, QueueOf[c]), c,
                                      latest'[c], hubLatest[c])
  <2>1. /\ discarded_events = 0
        /\ \/ /\ Suppressed(k, clear)
              /\ Coming(k, clear, p) = Pending(p)
              /\ clearCount' = Counted(k, clear)
           \/ /\ Coming(k, clear, p) = Append(Pending(p), e)
              /\ clearCount' = Forgotten(Counted(k, clear), <<>>)
    BY <1>1, <1>2, <1>4
  <2>2. /\ latest \in [Class -> BOOLEAN] /\ Counts(clearCount, latest)
        /\ \A c \in Class :
             Ends(Pending(QueueOf[c]), c, latest[c], hubLatest[c])
    BY <2>1 DEF Informed
  <2>3. /\ latest' = [latest EXCEPT ![k] = clear]
        /\ latest' \in [Class -> BOOLEAN]
        /\ \A c \in Class : latest'[c] = IF c = k THEN clear ELSE latest[c]
    BY <2>2 DEF Added
  <2>4. /\ Counts(Counted(k, clear), latest')
        /\ Suppressed(k, clear) => clear = TRUE /\ latest[k] = TRUE
    BY <2>2, <2>3, CountedClears, SuppressedIsClear DEF Control
  <2>5. Counts(clearCount', latest')
    BY <2>1, <2>4, NothingForgotten
  <2>6. Counts(clearCount, latest)'
    BY <2>5 DEF Counts, CountsClears
  <2>7. ASSUME NEW c \in Class
        PROVE  Ends(Coming(k, clear, QueueOf[c]), c, latest'[c], hubLatest[c])
    <3>1. /\ QueueOf[c] \in Queues /\ Pending(QueueOf[c]) \in Seq(Event)
          /\ Ends(Pending(QueueOf[c]), c, latest[c], hubLatest[c])
      BY <2>2, QueueOfAssumption, PendingLists
    <3>2. CASE QueueOf[c] # p
      <4>1. Coming(k, clear, QueueOf[c]) = Pending(QueueOf[c]) /\ c # k
        BY <1>2, <3>1, <3>2 DEF p
      <4> QED
        BY <2>3, <3>1, <4>1
    <3>3. CASE QueueOf[c] = p /\ Suppressed(k, clear)
               /\ Coming(k, clear, p) = Pending(p)
      <4>1. latest'[c] = latest[c]
        BY <2>3, <2>4, <3>3
      <4> QED
        BY <3>1, <3>3, <4>1
    <3>4. CASE QueueOf[c] = p /\ Coming(k, clear, p) = Append(Pending(p), e)
      <4>1. Ends(Append(Pending(p), e), c,
                 IF e.class = c THEN e.clear ELSE latest[c], hubLatest[c])
        BY <1>1, <3>1, <3>4, EndsNext
      <4>2. latest'[c] = IF e.class = c THEN e.clear ELSE latest[c]
        BY <1>1, <2>3
      <4> QED
        BY <3>4, <4>1, <4>2
    <3> QED
      BY <2>1, <3>2, <3>3, <3>4
  <2> QED
    BY <2>3, <2>6, <2>7
<1> QED
  BY <1>3, <1>4

-----------------------------------------------------------------------------
(* Informed holds again when L is what is pending and the hub will know    *)
(* all when it has it.                                                     *)
LEMMA InformedAgain ==
  ASSUME options' = options, NEW L,
         \A q \in Queues : Pending(q)' = L[q],
         discarded_events' \in Nat,
         discarded_events' = 0 =>
           /\ latest' \in [Class -> BOOLEAN]
           /\ Counts(clearCount, latest)'
           /\ \A c \in Class :
                Ends(L[QueueOf[c]], c, latest'[c], hubLatest'[c])
  PROVE  Informed'
<1>1. \A c \in Class : Pending(QueueOf[c])' = L[QueueOf[c]]
  BY QueueOfAssumption
<1> QED
  BY <1>1 DEF Informed, Ends, Silent, LastWord

(* An event is added, while a push is on or before one that starts.        *)
LEMMA AddStep ==
  ASSUME ~options.deduplicate_events, Control, Routed, Plain, Informed,
         options' = options, hubLatest' = hubLatest,
         NEW k \in Class, NEW clear \in BOOLEAN, Added(k, clear),
         \/ queue' = QueuesWith(k, clear) /\ UNCHANGED pushVars
         \/ ~pushing /\ StartPush(QueuesWith(k, clear))
  PROVE  Plain' /\ Informed'
<1> DEFINE L == [q \in Queues |-> Coming(k, clear, q)]
<1>1. /\ Lists /\ \A q \in Queues : Ordered(Pending(q), arrived)
      /\ discarded_events \in Nat
  BY DEF Routed, Plain, Informed
<1>2. \A q \in Queues : Pending(q)' = Coming(k, clear, q)
  BY AddedPending
<1>3. \A q \in Queues : Ordered(Coming(k, clear, q), arrived')
  BY <1>1, AddedOrdered
<1>4. Plain'
  BY <1>2, <1>3 DEF Plain, Ordered
<1>5. /\ discarded_events' \in Nat
      /\ discarded_events' = 0 =>
           /\ latest' \in [Class -> BOOLEAN]
           /\ Counts(clearCount, latest)'
           /\ \A c \in Class :
                Ends(L[QueueOf[c]], c, latest'[c], hubLatest'[c])
  BY <1>1, AddedInformed, QueueOfAssumption
<1>6. \A q \in Queues : Pending(q)' = L[q]
  BY <1>2
<1> HIDE DEF L
<1>7. Informed'
  BY <1>5, <1>6, InformedAgain
<1> QED
  BY <1>4, <1>7

(* A push takes what is pending, in its order.                             *)
LEMMA PushStep ==
  ASSUME ~options.deduplicate_events, Control, Routed, Plain, Informed,
         pushEvents
  PROVE  Plain' /\ Informed'
<1> DEFINE L == [q \in Queues |-> Pending(q)]
<1>1. /\ \A q \in Queues : Ordered(Pending(q), arrived)
      /\ options' = options /\ arrived' = arrived
      /\ discarded_events' = discarded_events /\ clearCount' = clearCount
      /\ latest' = latest /\ hubLatest' = hubLatest
  BY DEF Plain, pushEvents
<1>2. \A q \in Queues : Pending(q)' = L[q] /\ L[q] = Pending(q)
  BY PushedPending
<1> HIDE DEF L
<1>3. Plain'
  BY <1>1, <1>2 DEF Plain, Ordered
<1>4. /\ discarded_events' \in Nat
      /\ discarded_events' = 0 =>
           /\ latest' \in [Class -> BOOLEAN]
           /\ Counts(clearCount, latest)'
           /\ \A c \in Class :
                Ends(L[QueueOf[c]], c, latest'[c], hubLatest'[c])
  BY <1>1, <1>2, QueueOfAssumption DEF Informed, Counts, CountsClears
<1>5. Informed'
  BY <1>1, <1>2, <1>4, InformedAgain
<1> QED
  BY <1>3, <1>5

(* When the hub has gone through a chunk, the rest is pending.             *)
LEMMA AnswerStep ==
  ASSUME ~options.deduplicate_events, Control, Routed, Plain, Informed,
         sendEventsAnswered
  PROVE  Plain' /\ Informed'
<1> DEFINE L == [q \in Queues |-> prev[q] \o queue[q]]
<1>1. /\ Lists /\ \A q \in Queues : Ordered(Pending(q), arrived)
      /\ options' = options /\ arrived' = arrived /\ arrived \in Nat
      /\ discarded_events' = discarded_events /\ clearCount' = clearCount
      /\ latest' = latest /\ hubLatest' = HubSees
  BY DEF Routed, Plain, sendEventsAnswered, Control
<1>2. \A q \in Queues : L[q] = prev[q] \o queue[q]
  OBVIOUS
<1> HIDE DEF L
<1>3. \A q \in Queues : /\ chunk[q] \in Seq(Event) /\ L[q] \in Seq(Event)
                        /\ Pending(q) = chunk[q] \o L[q]
  BY <1>1, <1>2, PendingLists
<1>4. \A q \in Queues : Ordered(L[q], arrived')
  BY <1>1, <1>3, OrderedRest
<1>5. \A q \in Queues : Pending(q)' = L[q]
  BY <1>2, AnsweredPending
<1>6. Plain'
  BY <1>4, <1>5 DEF Plain, Ordered
<1>7. discarded_events' \in Nat
  BY <1>1 DEF Informed
<1>8. ASSUME discarded_events' = 0
      PROVE  /\ latest' \in [Class -> BOOLEAN]
             /\ Counts(clearCount, latest)'
             /\ \A c \in Class :
                  Ends(L[QueueOf[c]], c, latest'[c], hubLatest'[c])
  <2>1. /\ latest \in [Class -> BOOLEAN]
        /\ Counts(clearCount, latest)
        /\ \A c \in Class :
             Ends(Pending(QueueOf[c]), c, latest[c], hubLatest[c])
    BY <1>1, <1>8 DEF Informed
  <2>2. ASSUME NEW c \in Class
        PROVE  Ends(L[QueueOf[c]], c, latest'[c], hubLatest'[c])
    <3>1. /\ chunk[QueueOf[c]] \in Seq(Event) /\ L[QueueOf[c]] \in Seq(Event)
          /\ Ends(chunk[QueueOf[c]] \o L[QueueOf[c]], c, latest[c],
                  hubLatest[c])
      BY <1>3, <2>1, QueueOfAssumption
    <3>2. Ends(L[QueueOf[c]], c, latest[c], HubSees[c])
      BY <3>1, WhatHubSees, EndsSeen
    <3> QED
      BY <1>1, <3>2
  <2> QED
    BY <1>1, <2>1, <2>2 DEF Counts, CountsClears
<1>9. Informed'
  BY <1>1, <1>5, <1>7, <1>8, InformedAgain
<1> QED
  BY <1>6, <1>9

(* What a failed push puts back in a queue is the end of what is pending,  *)
(* and all of it if nothing is dropped.                                    *)
LEMMA BackInOrder ==
  ASSUME Lists, options \in Options, arrived \in Nat, NEW q \in Queues,
         Ordered(Pending(q), arrived),
         NEW r, r = Restored(queue[q], chunk[q] \o prev[q],
                             options.maxqueuelen, FALSE)
  PROVE  /\ Ordered(r.queue, arrived)
         /\ r.discarded \in Seq(Event)
         /\ Len(r.discarded) = 0 => r.queue = Pending(q)
         /\ Singles(r.discarded)
<1> DEFINE s == queue[q]
           t == chunk[q] \o prev[q]
           m == options.maxqueuelen
<1>1. /\ s \in Seq(Event) /\ t \in Seq(Event) /\ Len(s) <= m /\ m \in Nat
      /\ Pending(q) = t \o s
  BY OptionTypes, PendingLists DEF Lists
<1> HIDE DEF s, t, m
<1>2. PICK n \in 0..Len(t) : Drops(s, t, m, n)
  BY <1>1, WhatIsRestored
<1> DEFINE a == SubSeq(t, 1, n)
           b == SubSeq(t, n + 1, Len(t))
<1>3. /\ a \in Seq(Event) /\ Len(a) = n /\ b \in Seq(Event) /\ a \o b = t
  BY <1>1, Cut
<1>4. r.queue = b \o s /\ r.discarded = a /\ Len(r.queue) <= m
      /\ r.queue \in Seq(Event)
  BY <1>2 DEF Drops, s, t, m
<1> HIDE DEF a, b
<1>5. Pending(q) = a \o r.queue
  <2>1. a \in Seq(Event) /\ b \in Seq(Event) /\ s \in Seq(Event)
    BY <1>1, <1>3
  <2>2. (a \o b) \o s = a \o (b \o s)
    BY <2>1, Associative
  <2> QED
    BY <1>1, <1>3, <1>4, <2>2
<1>6. Ordered(r.queue, arrived)
  BY <1>3, <1>4, <1>5, OrderedRest
<1>6a. Singles(a)
  <2> DEFINE back == r.queue
  <2>1. a \in Seq(Event) /\ back \in Seq(Event)
    BY <1>3, <1>4
  <2> HIDE DEF back
  <2>2. \A i \in 1..Len(a) : /\ i \in 1..Len(a \o back)
                            /\ (a \o back)[i] = a[i]
    BY <2>1, Joined
  <2>3. \A i \in 1..Len(a) : /\ i \in 1..Len(a \o r.queue)
                            /\ (a \o r.queue)[i] = a[i]
    BY <2>2 DEF back
  <2> QED
    BY <1>5, <2>3 DEF Ordered, Singles
<1>7. ASSUME Len(a) = 0 PROVE r.queue = Pending(q)
  <2>1. a = <<>>
    BY <1>3, <1>7, EmptySeq
  <2> QED
    BY <1>4, <1>5, <2>1, Nothing
<1> QED
  BY <1>3, <1>4, <1>6, <1>7, <1>6a DEF m

(* A failed push puts back what the hub may or may not have gone through.  *)
LEMMA FailStep ==
  ASSUME ~options.deduplicate_events, Control, Routed, Plain, Informed,
         sendEventsFailed
  PROVE  Plain' /\ Informed'
<1> DEFINE back == PutBack(queue, [q \in Queues |-> chunk[q] \o prev[q]])
           restored == [q \in Queues |-> back[q].queue]
<1>1. /\ Lists /\ \A q \in Queues : Ordered(Pending(q), arrived)
      /\ options' = options /\ arrived' = arrived /\ arrived \in Nat
      /\ options \in Options
      /\ options.deduplicate_events = FALSE
      /\ latest' = latest /\ hubLatest' \in {hubLatest, HubSees}
      /\ discarded_events \in Nat
  BY OptionTypes DEF Routed, Plain, Informed, sendEventsFailed, Control
<1>2. /\ discarded_events' = discarded_events + Len(Dropped(back))
      /\ clearCount' = Forgotten(clearCount, Dropped(back))
  BY DEF sendEventsFailed
<1>3. \A q \in Queues :
        /\ back[q] = Restored(queue[q], chunk[q] \o prev[q],
                              options.maxqueuelen, FALSE)
        /\ restored[q] = back[q].queue
  BY <1>1 DEF PutBack
<1> HIDE DEF back, restored
<1>4. \A q \in Queues :
        /\ Ordered(restored[q], arrived)
        /\ back[q].discarded \in Seq(Event)
        /\ Len(back[q].discarded) = 0 => restored[q] = Pending(q)
  BY <1>1, <1>3, BackInOrder
<1>5. \A q \in Queues : Pending(q)' = restored[q]
  BY <1>1, <1>3, FailedPending
<1>6. Plain'
  BY <1>1, <1>4, <1>5 DEF Plain, Ordered
<1>7. /\ Dropped(back) = back["perf"].discarded \o back["event"].discarded
      /\ back["perf"].discarded \in Seq(Event)
      /\ back["event"].discarded \in Seq(Event)
  BY <1>4 DEF Dropped, Queues
<1>8. /\ Len(Dropped(back)) = Len(back["perf"].discarded)
                                + Len(back["event"].discarded)
      /\ Len(back["perf"].discarded) \in Nat
      /\ Len(back["event"].discarded) \in Nat
  BY <1>7, Joined
<1>9. /\ discarded_events' \in Nat
      /\ discarded_events' = 0 => /\ discarded_events = 0
                                 /\ Len(back["perf"].discarded) = 0
                                 /\ Len(back["event"].discarded) = 0
  <2> DEFINE m == Len(back["perf"].discarded)
             n == Len(back["event"].discarded)
  <2>1. /\ discarded_events' = discarded_events + (m + n)
        /\ m \in Nat /\ n \in Nat /\ discarded_events \in Nat
    BY <1>1, <1>2, <1>8
  <2> HIDE DEF m, n
  <2>2. discarded_events' \in Nat
    BY <2>1
  <2>3. discarded_events' = 0 => discarded_events = 0 /\ m = 0 /\ n = 0
    BY <2>1
  <2> QED
    BY <2>2, <2>3 DEF m, n
<1>10. ASSUME discarded_events' = 0
       PROVE  /\ latest' \in [Class -> BOOLEAN]
              /\ Counts(clearCount, latest)'
              /\ \A c \in Class :
                   Ends(restored[QueueOf[c]], c, latest'[c], hubLatest'[c])
  <2>1. /\ discarded_events = 0 /\ Len(back["perf"].discarded) = 0
        /\ Len(back["event"].discarded) = 0
    BY <1>9, <1>10
  <2>2. /\ latest \in [Class -> BOOLEAN] /\ Counts(clearCount, latest)
        /\ \A c \in Class :
             Ends(Pending(QueueOf[c]), c, latest[c], hubLatest[c])
    BY <1>1, <2>1 DEF Informed
  <2>3. Dropped(back) = <<>>
    <3>1. back["perf"].discarded = <<>> /\ back["event"].discarded = <<>>
      BY <1>7, <2>1, EmptySeq
    <3>2. <<>> \o <<>> = <<>>
      OBVIOUS
    <3> QED
      BY <1>7, <3>1, <3>2
  <2>4. Counts(clearCount', latest')
    BY <1>1, <1>2, <2>2, <2>3, NothingForgotten
  <2>5. \A q \in Queues : restored[q] = Pending(q)
    BY <1>4, <2>1 DEF Queues
  <2>6. ASSUME NEW c \in Class
        PROVE  Ends(restored[QueueOf[c]], c, latest'[c], hubLatest'[c])
    <3> DEFINE a == chunk[QueueOf[c]]
               b == prev[QueueOf[c]] \o queue[QueueOf[c]]
    <3>1. /\ a \in Seq(Event) /\ b \in Seq(Event)
          /\ Pending(QueueOf[c]) = a \o b
      BY <1>1, QueueOfAssumption, PendingLists
    <3>2. Silent(a, c) => hubLatest'[c] = hubLatest[c]
      BY <1>1, <3>1, WhatHubSees
    <3>3. Ends(Pending(QueueOf[c]), c, latest[c], hubLatest[c])
      BY <2>2
    <3> HIDE DEF a, b
    <3>4. Ends(a \o b, c, latest[c], hubLatest'[c])
      BY <3>1, <3>2, <3>3, EndsAgain
    <3> QED
      BY <1>1, <2>5, <3>1, <3>4, QueueOfAssumption
  <2> QED
    BY <1>1, <2>2, <2>4, <2>6 DEF Counts, CountsClears
<1>11. Informed'
  BY <1>1, <1>5, <1>9, <1>10, InformedAgain
<1> QED
  BY <1>6, <1>11

-----------------------------------------------------------------------------
(* Every step keeps Plain and Informed.                                    *)
LEMMA StepOrdered ==
  ASSUME Control, Routed, Plain, Informed, [Next]_vars
  PROVE  Plain' /\ Informed'
<1>1. options' = options
  BY DEF Next, vars, addEvent, pushEvents, sendEventsAnswered,
         sendEventsFailed, connectionLost, gotPerspective, stopConnected,
         stopDisconnected
<1>2. CASE options.deduplicate_events
  BY <1>1, <1>2 DEF Plain, Informed
<1>3. CASE ~options.deduplicate_events
  <2>1. ASSUME NEW k \in Class, NEW clear \in BOOLEAN, addEvent(k, clear)
        PROVE  Plain' /\ Informed'
    <3>1. /\ Added(k, clear) /\ queue' = QueuesWith(k, clear)
          /\ UNCHANGED pushVars /\ hubLatest' = hubLatest
      BY <2>1 DEF addEvent
    <3> QED
      BY <1>1, <1>3, <3>1, AddStep
  <2>2. CASE pushEvents
    BY <1>3, <2>2, PushStep
  <2>3. CASE sendEventsAnswered
    BY <1>3, <2>3, AnswerStep
  <2>4. CASE sendEventsFailed
    BY <1>3, <2>4, FailStep
  <2>5. CASE stopConnected
    <3>1. PICK k \in Class :
            /\ Added(k, FALSE) /\ hubLatest' = hubLatest
            /\ IF pushing
               THEN queue' = QueuesWith(k, FALSE) /\ UNCHANGED pushVars
               ELSE StartPush(QueuesWith(k, FALSE))
      BY <2>5 DEF stopConnected, StopClasses
    <3>2. \/ queue' = QueuesWith(k, FALSE) /\ UNCHANGED pushVars
          \/ ~pushing /\ StartPush(QueuesWith(k, FALSE))
      BY <3>1
    <3> QED
      BY <1>1, <1>3, <3>1, <3>2, AddStep
  <2>6. CASE connectionLost \/ gotPerspective \/ stopDisconnected
             \/ UNCHANGED vars
    <3> DEFINE L == [q \in Queues |-> Pending(q)]
    <3>1. UNCHANGED <<queueVars, pushVars, arrived, latest, hubLatest>>
      BY <2>6 DEF connectionLost, gotPerspective, stopDisconnected, vars
    <3>2. Plain'
      BY <1>1, <3>1 DEF Plain, Ordered, Pending, queueVars, pushVars
    <3>3. \A q \in Queues : Pending(q)' = L[q] /\ L[q] = Pending(q)
      BY <3>1 DEF Pending, queueVars, pushVars
    <3> HIDE DEF L
    <3>4. /\ discarded_events' \in Nat
          /\ discarded_events' = 0 =>
               /\ latest' \in [Class -> BOOLEAN]
               /\ Counts(clearCount, latest)'
               /\ \A c \in Class :
                    Ends(L[QueueOf[c]], c, latest'[c], hubLatest'[c])
      BY <1>1, <1>3, <3>1, <3>3, QueueOfAssumption
      DEF Informed, Counts, CountsClears, queueVars
    <3>5. Informed'
      BY <1>1, <3>3, <3>4, InformedAgain
    <3> QED
      BY <3>2, <3>5
  <2> QED
    BY <2>1, <2>2, <2>3, <2>4, <2>5, <2>6 DEF Next
<1> QED
  BY <1>2, <1>3

-----------------------------------------------------------------------------
(* Occurrences in both queues.                                             *)
Sum(queues) == Occurrences(queues["perf"]) + Occurrences(queues["event"])
PendingIn == [q \in Queues |-> Pending(q)]

(* The occurrences pending.                                                *)
LEMMA PendingSum ==
  ASSUME Routed
  PROVE  Occurrences(PendingEvents) = Sum(PendingIn) /\ Sum(PendingIn) \in Nat
<1>1. Pending("perf") \in Seq(Event) /\ Pending("event") \in Seq(Event)
  BY PendingLists DEF Routed, Queues
<1>2. Sum(PendingIn) = Occurrences(Pending("perf"))
                         + Occurrences(Pending("event"))
  BY DEF Sum, PendingIn, Queues
<1> QED
  BY <1>1, <1>2, OccurrencesJoined DEF PendingEvents

(* The occurrences pending after a step that leaves L.                     *)
LEMMA SumLeft ==
  ASSUME NEW L, \A q \in Queues : L[q] \in Seq(Event) /\ Pending(q)' = L[q]
  PROVE  Occurrences(PendingEvents)' = Sum(L) /\ Sum(L) \in Nat
<1>1. L["perf"] \in Seq(Event) /\ L["event"] \in Seq(Event)
  BY DEF Queues
<1>2. PendingEvents' = L["perf"] \o L["event"]
  BY DEF PendingEvents, Queues
<1>3. /\ Occurrences(L["perf"] \o L["event"])
           = Occurrences(L["perf"]) + Occurrences(L["event"])
      /\ Occurrences(L["perf"]) \in Nat /\ Occurrences(L["event"]) \in Nat
  BY <1>1, OccurrencesJoined
<1>4. Occurrences(PendingEvents)' = Occurrences(PendingEvents')
  OBVIOUS
<1> QED
  BY <1>2, <1>3, <1>4 DEF Sum

(* The books stay balanced when a step that accepts so many occurrences,   *)
(* delivers so many and loses so many, in as many events as it counts      *)
(* discarded, leaves L pending with what remains.  With de-duplication it  *)
(* may leave less; without it every event lost is an occurrence lost.      *)
LEMMA LedgerAgain ==
  ASSUME options \in Options, Routed, Ledger, options' = options, NEW L,
         \A q \in Queues : L[q] \in Seq(Event) /\ Pending(q)' = L[q],
         NEW in \in Nat, NEW out \in Nat, NEW lost \in Nat, NEW n \in Nat,
         ~options.deduplicate_events => n = lost,
         occurrences' \in Books,
         occurrences'["accepted"] = occurrences["accepted"] + in,
         occurrences'["delivered"] = occurrences["delivered"] + out,
         occurrences'["lost"] = occurrences["lost"] + lost,
         occurrences'["dropped"] = occurrences["dropped"] + n,
         discarded_events' = discarded_events + n,
         DOMAIN clearCount' \subseteq Class,
         Sum(L) + out + lost <= Sum(PendingIn) + in,
         ~options.deduplicate_events =>
           Sum(L) + out + lost = Sum(PendingIn) + in
  PROVE  Ledger'
<1> DEFINE a == occurrences["accepted"]
           d == occurrences["delivered"]
           l == occurrences["lost"]
           g == occurrences["dropped"]
           p == Sum(PendingIn)
           s == Sum(L)
<1>1. /\ a \in Nat /\ d \in Nat /\ l \in Nat /\ g \in Nat
      /\ discarded_events \in Nat
  BY DEF Ledger, Books
<1>2. p \in Nat /\ s \in Nat
  BY PendingSum, SumLeft
<1>3. /\ d + p + l <= a
      /\ ~options.deduplicate_events =>
           d + p + l = a /\ l = discarded_events
      /\ discarded_events = g
  BY PendingSum DEF Ledger, Conservation, Total
<1>4. Total' = (d + out) + s + (l + lost)
  <2>1. Total' = occurrences'["delivered"] + Occurrences(PendingEvents)'
                   + occurrences'["lost"]
    BY DEF Total
  <2> QED
    BY <2>1, SumLeft
<1>5. s + out + lost <= p + in
  OBVIOUS
<1>6. ~options.deduplicate_events => s + out + lost = p + in
  OBVIOUS
<1> HIDE DEF a, d, l, g, p, s
<1>7. (d + out) + s + (l + lost) <= a + in
  BY <1>1, <1>2, <1>3, <1>5
<1>8. ~options.deduplicate_events => (d + out) + s + (l + lost) = a + in
  BY <1>1, <1>2, <1>3, <1>6
<1>9. /\ discarded_events + n = g + n /\ discarded_events + n \in Nat
      /\ ~options.deduplicate_events => l + lost = discarded_events + n
  BY <1>1, <1>3
<1>10. Conservation'
  BY <1>4, <1>7, <1>8, <1>9 DEF Conservation, a, l, g
<1> QED
  BY <1>9, <1>10 DEF Ledger

(* Occurrences are accepted and lost, ...                                  *)
Accepting(o, a, l, g) ==
  [o EXCEPT !.accepted = a, !.lost = l, !.dropped = g]
LEMMA AcceptedBooks ==
  ASSUME NEW o \in Books, NEW a \in Nat, NEW l \in Nat, NEW g \in Nat
  PROVE  /\ Accepting(o, a, l, g) \in Books
         /\ Accepting(o, a, l, g)["accepted"] = a
         /\ Accepting(o, a, l, g)["lost"] = l
         /\ Accepting(o, a, l, g)["dropped"] = g
         /\ Accepting(o, a, l, g)["delivered"] = o["delivered"]
BY DEF Books, Accepting

(* ... delivered, ...                                                      *)
Delivering(o, d) == [o EXCEPT !.delivered = d]
LEMMA DeliveredBooks ==
  ASSUME NEW o \in Books, NEW d \in Nat
  PROVE  /\ Delivering(o, d) \in Books
         /\ Delivering(o, d)["accepted"] = o["accepted"]
         /\ Delivering(o, d)["lost"] = o["lost"]
         /\ Delivering(o, d)["dropped"] = o["dropped"]
         /\ Delivering(o, d)["delivered"] = d
BY DEF Books, Delivering

(* ... or lost.                                                            *)
Losing(o, l, g) == [o EXCEPT !.lost = l, !.dropped = g]
LEMMA LosingBooks ==
  ASSUME NEW o \in Books, NEW l \in Nat, NEW g \in Nat
  PROVE  /\ Losing(o, l, g) \in Books
         /\ Losing(o, l, g)["accepted"] = o["accepted"]
         /\ Losing(o, l, g)["delivered"] = o["delivered"]
         /\ Losing(o, l, g)["lost"] = l
         /\ Losing(o, l, g)["dropped"] = g
BY DEF Books, Losing

(* Clears are counted of classes.                                          *)
LEMMA CountedClasses ==
  ASSUME Ledger, NEW k \in Class, NEW clear
  PROVE  DOMAIN Counted(k, clear) \subseteq Class
<1>1. DOMAIN clearCount \subseteq Class
  BY DEF Ledger
<1>2. DOMAIN Counted(k, clear) \subseteq DOMAIN clearCount \cup {k}
  BY DEF Counted, Restrict
<1> QED
  BY <1>1, <1>2

(* Forgetting what was discarded keeps the classes that have a count.      *)
LEMMA ForgottenClasses ==
  ASSUME NEW counts, NEW discarded
  PROVE  DOMAIN Forgotten(counts, discarded) = DOMAIN counts
BY DEF Forgotten

(* An event is accepted unless it is suppressed, and the occurrences of    *)
(* the event it displaces are lost.                                        *)
LEMMA AddLedger ==
  ASSUME Control, Routed, Plain, Ledger, options' = options,
         NEW k \in Class, NEW clear \in BOOLEAN, Added(k, clear),
         \/ queue' = QueuesWith(k, clear) /\ UNCHANGED pushVars
         \/ ~pushing /\ StartPush(QueuesWith(k, clear))
  PROVE  Ledger'
<1> DEFINE p == QueueOf[k]
           e == Entry(k, clear, arrived + 1)
           m == options.maxqueuelen
           d == options.deduplicate_events
           new == Appended(queue[p], e, m, d)
           L == [q \in Queues |-> Coming(k, clear, q)]
<1>1. /\ p \in Queues /\ m \in Nat \ {0} /\ d \in BOOLEAN
      /\ options \in Options
  BY QueueOfAssumption, OptionTypes DEF Control
<1>2. /\ occurrences \in Books
      /\ discarded_events \in Nat
  BY DEF Ledger
<1>3. ASSUME NEW q \in Queues
      PROVE  /\ L[q] \in Seq(Event) /\ Pending(q)' = L[q]
             /\ chunk[q] \o prev[q] \in Seq(Event)
             /\ queue[q] \in Seq(Event)
             /\ Pending(q) = (chunk[q] \o prev[q]) \o queue[q]
             /\ L[q] = (chunk[q] \o prev[q]) \o QueuesWith(k, clear)[q]
  <2>1. /\ chunk[q] \o prev[q] \in Seq(Event) /\ queue[q] \in Seq(Event)
        /\ Pending(q) = (chunk[q] \o prev[q]) \o queue[q]
    BY PendingLists DEF Routed
  <2>2. QueuesWith(k, clear)[q] \in Seq(Event)
    BY AddedWithin DEF Within
  <2>3. L[q] \in Seq(Event)
    BY <2>1, <2>2, Joined DEF Coming
  <2>4. Pending(q)' = L[q]
    BY AddedPending
  <2> QED
    BY <2>1, <2>3, <2>4 DEF Coming
<1>4. /\ PendingIn["perf"] = Pending("perf")
      /\ PendingIn["event"] = Pending("event")
  BY DEF PendingIn, Queues
<1>5. "perf" \in Queues /\ "event" \in Queues /\ (p = "perf" \/ p = "event")
  BY <1>1 DEF Queues
<1> HIDE DEF L
<1>6. CASE Suppressed(k, clear)
  <2>1. /\ clearCount' = Counted(k, clear) /\ occurrences' = occurrences
        /\ discarded_events' = discarded_events
    BY <1>6 DEF Added
  <2>2. \A q \in Queues : L[q] = Pending(q)
    BY <1>3, <1>6 DEF QueuesWith
  <2>3. Sum(L) = Sum(PendingIn) /\ Sum(PendingIn) \in Nat
    BY <1>4, <1>5, <2>2, PendingSum DEF Sum
  <2>4. DOMAIN clearCount' \subseteq Class
    BY <2>1, CountedClasses
  <2> DEFINE zero == 0
  <2>5. /\ zero \in Nat
        /\ occurrences' \in Books
        /\ occurrences'["accepted"] = occurrences["accepted"] + zero
        /\ occurrences'["delivered"] = occurrences["delivered"] + zero
        /\ occurrences'["lost"] = occurrences["lost"] + zero
        /\ occurrences'["dropped"] = occurrences["dropped"] + zero
        /\ discarded_events' = discarded_events + zero
        /\ Sum(L) + zero + zero = Sum(PendingIn) + zero
        /\ Sum(L) + zero + zero <= Sum(PendingIn) + zero
    BY <1>2, <2>1, <2>3 DEF Books
  <2> HIDE DEF zero
  <2> QED
    BY <1>1, <1>2, <1>3, <2>1, <2>4, <2>5, LedgerAgain
<1>7. CASE ~Suppressed(k, clear)
  <2> DEFINE gone == new.discarded
             lost == Occurrences(gone)
             n == Len(gone)
  <2>1. /\ clearCount' = Forgotten(Counted(k, clear), gone)
        /\ discarded_events' = discarded_events + n
        /\ occurrences' = [occurrences EXCEPT !.accepted = @ + 1,
                                              !.lost = @ + lost,
                                              !.dropped = @ + n]
    BY <1>7 DEF Added
  <2>2. QueuesWith(k, clear) = [queue EXCEPT ![p] = new.queue]
    BY <1>7 DEF QueuesWith
  <2>3. e \in Event /\ e.count = 1
    <3>1. arrived + 1 \in Nat /\ arrived + 1 > 0
      BY DEF Control
    <3> QED
      BY <3>1, NewEntry DEF Event
  <2>4. queue[p] \in Seq(Event) /\ Closed(Event) /\ Len(queue[p]) <= m
    BY <1>1, <1>3, LaterClosed DEF Event, Routed, Lists
  <2>4a. ~d => Singles(queue[p])
    <3>1. ASSUME ~d PROVE Ordered((chunk[p] \o prev[p]) \o queue[p], arrived)
      BY <1>1, <1>3, <3>1 DEF Plain
    <3>2. arrived \in Nat
      BY DEF Control
    <3>3. ~d => Ordered(queue[p], arrived)
      BY <1>1, <1>3, <3>1, <3>2, OrderedRest
    <3> QED
      BY <3>3 DEF Ordered, Singles
  <2> HIDE DEF p, e, m, d
  <2>5. /\ new.queue \in Seq(Event) /\ gone \in Seq(Event)
        /\ Occurrences(new.queue) + lost = Occurrences(queue[p]) + 1
    BY <1>1, <2>3, <2>4, AppendedKeeps
  <2>5a. ~d => Singles(gone)
    <3>1. CASE gone = <<>>
      BY <3>1 DEF Singles
    <3>2. CASE ~d /\ gone = <<Head(queue[p])>> /\ queue[p] # <<>>
      BY <2>4, <2>4a, <3>2 DEF Singles
    <3>3. ~d => \/ gone = <<>>
                \/ gone = <<Head(queue[p])>> /\ queue[p] # <<>>
      BY <1>1, <2>4 DEF Appended, Pushed
    <3> HIDE DEF new, gone
    <3> QED
      BY <3>1, <3>2, <3>3
  <2> HIDE DEF new, gone
  <2>6. lost \in Nat /\ n \in Nat /\ (~d => n = lost)
    BY <2>5, <2>5a, OccurrencesAre, OccurrencesOfSingles
  <2>7. /\ L[p] = (chunk[p] \o prev[p]) \o new.queue
        /\ \A q \in Queues \ {p} : L[q] = Pending(q)
    <3>1. queue \in [Queues -> Seq(Event)]
      BY DEF Routed, Lists
    <3>2. /\ QueuesWith(k, clear)[p] = new.queue
          /\ \A q \in Queues \ {p} : QueuesWith(k, clear)[q] = queue[q]
      BY <1>1, <2>2, <3>1
    <3> QED
      BY <1>1, <1>3, <3>2
  <2>8. /\ Occurrences(L[p]) + lost = Occurrences(Pending(p)) + 1
        /\ Occurrences(L[p]) \in Nat /\ Occurrences(Pending(p)) \in Nat
    <3> DEFINE c == chunk[p] \o prev[p]
    <3>1. /\ c \in Seq(Event) /\ queue[p] \in Seq(Event)
          /\ Pending(p) = c \o queue[p] /\ L[p] = c \o new.queue
      BY <1>1, <1>3, <2>7
    <3> HIDE DEF c
    <3>2. /\ Occurrences(Pending(p)) = Occurrences(c) + Occurrences(queue[p])
          /\ Occurrences(L[p]) = Occurrences(c) + Occurrences(new.queue)
          /\ Occurrences(c) \in Nat /\ Occurrences(queue[p]) \in Nat
          /\ Occurrences(new.queue) \in Nat
      BY <2>5, <3>1, OccurrencesJoined
    <3> DEFINE x == Occurrences(c)
               y == Occurrences(queue[p])
               z == Occurrences(new.queue)
    <3>3. /\ x \in Nat /\ y \in Nat /\ z \in Nat /\ lost \in Nat
          /\ Occurrences(L[p]) = x + z /\ Occurrences(Pending(p)) = x + y
          /\ z + lost = y + 1
      BY <2>5, <2>6, <3>2
    <3> HIDE DEF lost, x, y, z
    <3> QED
      BY <3>3
  <2> HIDE DEF lost, n
  <2>9. Sum(L) + 0 + lost = Sum(PendingIn) + 1
    <3>1. /\ Occurrences(Pending("perf")) \in Nat
          /\ Occurrences(Pending("event")) \in Nat
      BY PendingLists, OccurrencesAre DEF Routed, Queues
    <3>2. CASE p = "perf"
      <4>1. L["event"] = Pending("event")
        BY <1>5, <2>7, <3>2
      <4> QED
        BY <1>4, <2>6, <2>8, <3>1, <3>2, <4>1 DEF Sum
    <3>3. CASE p = "event"
      <4>1. L["perf"] = Pending("perf")
        BY <1>5, <2>7, <3>3
      <4> QED
        BY <1>4, <2>6, <2>8, <3>1, <3>3, <4>1 DEF Sum
    <3> QED
      BY <1>5, <3>2, <3>3
  <2>10. DOMAIN clearCount' \subseteq Class
    BY <2>1, CountedClasses, ForgottenClasses
  <2>11. /\ occurrences' \in Books
         /\ occurrences'["accepted"] = occurrences["accepted"] + 1
         /\ occurrences'["delivered"] = occurrences["delivered"] + 0
         /\ occurrences'["lost"] = occurrences["lost"] + lost
         /\ occurrences'["dropped"] = occurrences["dropped"] + n
    <3> DEFINE a == occurrences["accepted"] + 1
               l == occurrences["lost"] + lost
               g == occurrences["dropped"] + n
    <3>1. /\ occurrences' = Accepting(occurrences, a, l, g)
          /\ a \in Nat /\ l \in Nat /\ g \in Nat
          /\ occurrences["delivered"] \in Nat
      <4>1. occurrences' = Accepting(occurrences, a, l, g)
        BY <2>1 DEF Accepting
      <4>2. /\ occurrences["accepted"] \in Nat /\ occurrences["lost"] \in Nat
            /\ occurrences["dropped"] \in Nat
            /\ occurrences["delivered"] \in Nat
        BY <1>2 DEF Books
      <4>3. a \in Nat /\ l \in Nat /\ g \in Nat
        BY <2>6, <4>2
      <4> QED
        BY <4>1, <4>2, <4>3
    <3> HIDE DEF a, l, g
    <3>2. /\ occurrences' \in Books
          /\ occurrences'["accepted"] = a /\ occurrences'["lost"] = l
          /\ occurrences'["dropped"] = g
          /\ occurrences'["delivered"] = occurrences["delivered"]
      <4>1. /\ occurrences \in Books /\ a \in Nat /\ l \in Nat
            /\ g \in Nat
        BY <1>2, <3>1
      <4>2. /\ Accepting(occurrences, a, l, g) \in Books
            /\ Accepting(occurrences, a, l, g)["accepted"] = a
            /\ Accepting(occurrences, a, l, g)["lost"] = l
            /\ Accepting(occurrences, a, l, g)["dropped"] = g
            /\ Accepting(occurrences, a, l, g)["delivered"]
                 = occurrences["delivered"]
        BY <4>1, AcceptedBooks
      <4> QED
        BY <3>1, <4>2
    <3> QED
      BY <3>1, <3>2 DEF a, l, g
  <2>12. Sum(L) + 0 + lost <= Sum(PendingIn) + 1
    BY <2>6, <2>9, PendingSum
  <2> DEFINE zero == 0
             one == 1
  <2>13. /\ zero \in Nat /\ one \in Nat
         /\ occurrences'["accepted"] = occurrences["accepted"] + one
         /\ occurrences'["delivered"] = occurrences["delivered"] + zero
         /\ Sum(L) + zero + lost = Sum(PendingIn) + one
         /\ Sum(L) + zero + lost <= Sum(PendingIn) + one
    BY <2>9, <2>11, <2>12
  <2> HIDE DEF zero, one
  <2> QED
    BY <1>1, <1>3, <2>1, <2>6, <2>10, <2>11, <2>13, LedgerAgain DEF d
<1> QED
  BY <1>6, <1>7

(* The hub's answer moves the chunk's occurrences to the delivered.        *)
LEMMA AnswerLedger ==
  ASSUME Control, Routed, Ledger, sendEventsAnswered
  PROVE  Ledger'
<1> DEFINE cp == Occurrences(chunk["perf"])
           ce == Occurrences(chunk["event"])
           out == Occurrences(chunk["perf"] \o chunk["event"])
           d == occurrences["delivered"] + out
           L == [q \in Queues |-> prev[q] \o queue[q]]
<1>1. /\ occurrences' = Delivering(occurrences, d)
      /\ discarded_events' = discarded_events /\ clearCount' = clearCount
      /\ options' = options
  BY DEF sendEventsAnswered, Delivering
<1>2. /\ occurrences \in Books /\ discarded_events \in Nat
      /\ DOMAIN clearCount \subseteq Class /\ options \in Options
  BY DEF Ledger, Control
<1>3. ASSUME NEW q \in Queues
      PROVE  /\ chunk[q] \in Seq(Event) /\ L[q] \in Seq(Event)
             /\ Pending(q) = chunk[q] \o L[q] /\ Pending(q)' = L[q]
  BY PendingLists, AnsweredPending DEF Routed
<1>4. /\ chunk["perf"] \in Seq(Event) /\ chunk["event"] \in Seq(Event)
      /\ L["perf"] \in Seq(Event) /\ L["event"] \in Seq(Event)
      /\ PendingIn["perf"] = chunk["perf"] \o L["perf"]
      /\ PendingIn["event"] = chunk["event"] \o L["event"]
  BY <1>3 DEF PendingIn, Queues
<1> HIDE DEF L
<1>5. /\ out = cp + ce /\ cp \in Nat /\ ce \in Nat
      /\ Occurrences(PendingIn["perf"]) = cp + Occurrences(L["perf"])
      /\ Occurrences(PendingIn["event"]) = ce + Occurrences(L["event"])
      /\ Occurrences(L["perf"]) \in Nat /\ Occurrences(L["event"]) \in Nat
  BY <1>4, OccurrencesJoined
<1>6. occurrences["delivered"] \in Nat
  BY <1>2 DEF Books
<1> HIDE DEF cp, ce, out
<1>7. Sum(L) + out = Sum(PendingIn) /\ out \in Nat /\ d \in Nat
      /\ Sum(L) \in Nat
  BY <1>5, <1>6 DEF Sum
<1>8. /\ occurrences' \in Books /\ occurrences'["delivered"] = d
      /\ occurrences'["accepted"] = occurrences["accepted"]
      /\ occurrences'["lost"] = occurrences["lost"]
      /\ occurrences'["dropped"] = occurrences["dropped"]
  <2> HIDE DEF d
  <2>1. /\ Delivering(occurrences, d) \in Books
        /\ Delivering(occurrences, d)["accepted"] = occurrences["accepted"]
        /\ Delivering(occurrences, d)["lost"] = occurrences["lost"]
        /\ Delivering(occurrences, d)["dropped"] = occurrences["dropped"]
        /\ Delivering(occurrences, d)["delivered"] = d
    BY <1>2, <1>7, DeliveredBooks
  <2> QED
    BY <1>1, <2>1
<1> DEFINE zero == 0
<1>9. /\ zero \in Nat
      /\ occurrences'["accepted"] = occurrences["accepted"] + zero
      /\ occurrences'["lost"] = occurrences["lost"] + zero
      /\ occurrences'["dropped"] = occurrences["dropped"] + zero
      /\ discarded_events' = discarded_events + zero
      /\ Sum(L) + out + zero = Sum(PendingIn) + zero
      /\ Sum(L) + out + zero <= Sum(PendingIn) + zero
  BY <1>1, <1>2, <1>7, <1>8 DEF Books
<1> HIDE DEF zero
<1> QED
  BY <1>1, <1>2, <1>3, <1>7, <1>8, <1>9, LedgerAgain

(* A push that fails loses what does not fit, and with de-duplication      *)
(* occurrences of events that are put back and merged.                     *)
LEMMA FailLedger ==
  ASSUME Control, Routed, Plain, Ledger, sendEventsFailed
  PROVE  Ledger'
<1> DEFINE m == options.maxqueuelen
           d == options.deduplicate_events
           back == PutBack(queue, [q \in Queues |-> chunk[q] \o prev[q]])
           gp == back["perf"].discarded
           ge == back["event"].discarded
           lost == Occurrences(gp) + Occurrences(ge)
           n == Len(gp) + Len(ge)
           l == occurrences["lost"] + lost
           g == occurrences["dropped"] + n
           L == [q \in Queues |-> Pending(q)']
<1>1. /\ options' = options
      /\ discarded_events' = discarded_events + Len(gp \o ge)
      /\ occurrences' = [occurrences EXCEPT !.lost = @ + Occurrences(gp \o ge),
                                            !.dropped = @ + Len(gp \o ge)]
      /\ clearCount' = Forgotten(clearCount, gp \o ge)
  BY DEF sendEventsFailed, Dropped
<1>2. /\ occurrences \in Books /\ discarded_events \in Nat
      /\ DOMAIN clearCount \subseteq Class
      /\ options \in Options /\ m \in Nat /\ d \in BOOLEAN
  BY OptionTypes DEF Ledger, Control
<1>3. \A q \in Queues :
        back[q] = Restored(queue[q], chunk[q] \o prev[q], m, d)
  BY DEF PutBack
<1> HIDE DEF back
<1>4. ASSUME NEW q \in Queues
      PROVE  /\ back[q].discarded \in Seq(Event)
             /\ L[q] \in Seq(Event) /\ Pending(q)' = L[q]
             /\ Occurrences(L[q]) \in Nat /\ Occurrences(PendingIn[q]) \in Nat
             /\ Occurrences(back[q].discarded) \in Nat
             /\ Occurrences(L[q]) + Occurrences(back[q].discarded)
                  <= Occurrences(PendingIn[q])
             /\ ~d => Occurrences(L[q]) + Occurrences(back[q].discarded)
                        = Occurrences(PendingIn[q])
             /\ ~d => Singles(back[q].discarded)
  <2>0. ASSUME ~d PROVE Singles(back[q].discarded)
    <3>1. Lists /\ arrived \in Nat /\ Ordered(Pending(q), arrived)
      BY <2>0 DEF Routed, Control, Plain
    <3>2. d = FALSE
      BY <1>2, <2>0
    <3>3. back[q] = Restored(queue[q], chunk[q] \o prev[q],
                             options.maxqueuelen, FALSE)
      BY <1>3, <3>2
    <3> QED
      BY <1>2, <3>1, <3>3, BackInOrder
  <2> DEFINE s == queue[q]
             c == chunk[q] \o prev[q]
             r == Restored(s, c, m, d)
             x == Occurrences(r.queue)
             y == Occurrences(r.discarded)
             z == Occurrences(s)
             w == Occurrences(c)
             v == Occurrences(L[q])
  <2>1. /\ s \in Seq(Event) /\ c \in Seq(Event) /\ PendingIn[q] = c \o s
        /\ Len(s) <= m /\ Closed(Event) /\ back[q] = r
    BY <1>3, PendingLists, LaterClosed DEF Routed, Lists, PendingIn, Event
  <2>2. L[q] = Pending(q)' /\ L[q] \in Seq(Event)
    BY FailedPending
  <2>3. v <= x /\ (~d => L[q] = r.queue)
    BY <2>2, FailedPending
  <2> HIDE DEF s, c, m, d
  <2>4. /\ r.queue \in Seq(Event) /\ r.discarded \in Seq(Event)
        /\ x + y <= z + w /\ (~d => x + y = z + w)
    BY <1>2, <2>1, RestoredKeeps
  <2>5. /\ Occurrences(PendingIn[q]) = w + z /\ z \in Nat /\ w \in Nat
    BY <2>1, OccurrencesJoined
  <2>6. x \in Nat /\ y \in Nat /\ v \in Nat
    BY <2>2, <2>4, OccurrencesAre
  <2>7. ~d => v = x
    BY <2>3
  <2> HIDE DEF L, r, x, y, z, w, v
  <2>8. v + y <= w + z
    BY <2>3, <2>4, <2>5, <2>6
  <2>9. ~d => v + y = w + z
    BY <2>4, <2>5, <2>6, <2>7
  <2> QED
    BY <2>1, <2>2, <2>4, <2>5, <2>6, <2>8, <2>9, <2>0 DEF v, y, d
<1>5. /\ gp \in Seq(Event) /\ ge \in Seq(Event)
      /\ Occurrences(gp) \in Nat /\ Occurrences(ge) \in Nat
      /\ Sum(L) + lost <= Sum(PendingIn)
      /\ ~d => Sum(L) + lost = Sum(PendingIn)
      /\ Sum(L) \in Nat /\ Sum(PendingIn) \in Nat
      /\ ~d => Singles(gp) /\ Singles(ge)
  <2> DEFINE lp == Occurrences(L["perf"])
             le == Occurrences(L["event"])
             pp == Occurrences(PendingIn["perf"])
             pe == Occurrences(PendingIn["event"])
             xp == Occurrences(gp)
             xe == Occurrences(ge)
  <2>1. /\ gp \in Seq(Event) /\ ge \in Seq(Event)
        /\ lp \in Nat /\ le \in Nat /\ pp \in Nat /\ pe \in Nat
        /\ xp \in Nat /\ xe \in Nat
        /\ lp + xp <= pp /\ le + xe <= pe
        /\ ~d => lp + xp = pp /\ le + xe = pe
        /\ ~d => Singles(gp) /\ Singles(ge)
    BY <1>4 DEF Queues
  <2>2. /\ Sum(L) = lp + le /\ Sum(PendingIn) = pp + pe /\ lost = xp + xe
    BY DEF Sum
  <2> HIDE DEF L, lp, le, pp, pe, xp, xe, lost, d, m
  <2>3. /\ Sum(L) + lost <= Sum(PendingIn)
        /\ Sum(L) \in Nat /\ Sum(PendingIn) \in Nat
    BY <2>1, <2>2
  <2>4. ~d => Sum(L) + lost = Sum(PendingIn)
    BY <2>1, <2>2
  <2>5. gp \in Seq(Event) /\ ge \in Seq(Event)
        /\ Occurrences(gp) \in Nat /\ Occurrences(ge) \in Nat
    BY <2>1 DEF xp, xe
  <2>6. ~d => Singles(gp) /\ Singles(ge)
    BY <2>1
  <2> HIDE DEF gp, ge
  <2> QED
    BY <2>3, <2>4, <2>5, <2>6
<1>6. /\ Occurrences(gp \o ge) = lost /\ Len(gp \o ge) = n
      /\ lost \in Nat /\ n \in Nat /\ (~d => n = lost)
  <2>1. /\ Occurrences(gp \o ge) = Occurrences(gp) + Occurrences(ge)
        /\ Len(gp \o ge) = Len(gp) + Len(ge)
        /\ Len(gp) \in Nat /\ Len(ge) \in Nat
    BY <1>5, OccurrencesJoined, Joined
  <2>2. ASSUME ~d PROVE Occurrences(gp) = Len(gp) /\ Occurrences(ge) = Len(ge)
    BY <1>5, <2>2, OccurrencesOfSingles
  <2>3. Occurrences(gp) \in Nat /\ Occurrences(ge) \in Nat
    BY <1>5
  <2> HIDE DEF d, gp, ge
  <2>4. lost \in Nat /\ n \in Nat
    BY <2>1, <2>3
  <2>5. ~d => n = lost
    BY <2>2
  <2>6. Occurrences(gp \o ge) = lost /\ Len(gp \o ge) = n
    BY <2>1
  <2> HIDE DEF lost, n
  <2> QED
    BY <2>4, <2>5, <2>6
<1> HIDE DEF lost, n, gp, ge, L
<1>7. /\ occurrences' \in Books
      /\ occurrences'["accepted"] = occurrences["accepted"]
      /\ occurrences'["delivered"] = occurrences["delivered"]
      /\ occurrences'["lost"] = l /\ occurrences'["dropped"] = g
  <2>1. l \in Nat /\ g \in Nat
    BY <1>2, <1>6 DEF Books
  <2>2. occurrences' = Losing(occurrences, l, g)
    BY <1>1, <1>6 DEF Losing
  <2> HIDE DEF l, g
  <2>3. /\ Losing(occurrences, l, g) \in Books
        /\ Losing(occurrences, l, g)["accepted"] = occurrences["accepted"]
        /\ Losing(occurrences, l, g)["delivered"] = occurrences["delivered"]
        /\ Losing(occurrences, l, g)["lost"] = l
        /\ Losing(occurrences, l, g)["dropped"] = g
    BY <1>2, <2>1, LosingBooks
  <2> QED
    BY <2>2, <2>3
<1>8. DOMAIN clearCount' \subseteq Class
  BY <1>1, <1>2, ForgottenClasses
<1> DEFINE zero == 0
<1>9. /\ zero \in Nat
      /\ occurrences'["accepted"] = occurrences["accepted"] + zero
      /\ occurrences'["delivered"] = occurrences["delivered"] + zero
      /\ occurrences'["lost"] = occurrences["lost"] + lost
      /\ occurrences'["dropped"] = occurrences["dropped"] + n
      /\ discarded_events' = discarded_events + n
      /\ Sum(L) + zero + lost <= Sum(PendingIn) + zero
      /\ ~options.deduplicate_events =>
           Sum(L) + zero + lost = Sum(PendingIn) + zero
  <2>1. /\ occurrences["accepted"] \in Nat /\ occurrences["delivered"] \in Nat
    BY <1>2 DEF Books
  <2>2. /\ Sum(L) + zero + lost = Sum(L) + lost
        /\ Sum(PendingIn) + zero = Sum(PendingIn)
    BY <1>5, <1>6
  <2>3. discarded_events' = discarded_events + n
    BY <1>1, <1>6
  <2> QED
    BY <1>5, <1>7, <2>1, <2>2, <2>3
<1> HIDE DEF zero
<1>10. \A q \in Queues : L[q] \in Seq(Event) /\ Pending(q)' = L[q]
  BY <1>4
<1> QED
  BY <1>1, <1>2, <1>6, <1>7, <1>8, <1>9, <1>10, LedgerAgain

(* Every step keeps the books.                                             *)
LEMMA StepLedger ==
  ASSUME Control, Routed, Plain, Ledger, [Next]_vars
  PROVE  Ledger'
<1>1. ASSUME NEW k \in Class, NEW clear \in BOOLEAN, addEvent(k, clear)
      PROVE  Ledger'
  <2>1. /\ Added(k, clear) /\ queue' = QueuesWith(k, clear)
        /\ UNCHANGED pushVars /\ options' = options
    BY <1>1 DEF addEvent
  <2> QED
    BY <2>1, AddLedger
<1>2. CASE stopConnected
  <2>1. PICK k \in Class :
          /\ Added(k, FALSE) /\ options' = options
          /\ IF pushing
             THEN queue' = QueuesWith(k, FALSE) /\ UNCHANGED pushVars
             ELSE StartPush(QueuesWith(k, FALSE))
    BY <1>2 DEF stopConnected, StopClasses
  <2>2. \/ queue' = QueuesWith(k, FALSE) /\ UNCHANGED pushVars
        \/ ~pushing /\ StartPush(QueuesWith(k, FALSE))
    BY <2>1
  <2> QED
    BY <2>1, <2>2, AddLedger
<1>3. CASE \/ pushEvents \/ connectionLost \/ gotPerspective
           \/ stopDisconnected \/ UNCHANGED vars
  <2>1. /\ UNCHANGED <<options, clearCount, occurrences, discarded_events>>
        /\ \A q \in Queues : Pending(q)' = Pending(q)
    <3>1. CASE pushEvents
      BY <3>1, PushedPending DEF pushEvents
    <3>2. CASE ~pushEvents
      BY <1>3, <3>2 DEF connectionLost, gotPerspective, stopDisconnected,
                        vars, queueVars, pushVars, Pending
    <3> QED
      BY <3>1, <3>2
  <2>2. PendingEvents' = PendingEvents
    BY <2>1 DEF PendingEvents, Queues
  <2>3. Occurrences(PendingEvents)' = Occurrences(PendingEvents')
    OBVIOUS
  <2>4. Total' = Total
    BY <2>1, <2>2, <2>3 DEF Total
  <2> QED
    BY <2>1, <2>4 DEF Ledger, Conservation
<1> QED
  BY <1>1, <1>2, <1>3, AnswerLedger, FailLedger DEF Next

-----------------------------------------------------------------------------
(* A daemon starts with nothing pending and nothing known.                 *)
LEMMA InitIInv ==
  ASSUME Init
  PROVE  IInv
<1>1. Control
  <2>1. /\ options \in Options /\ prev = Empty /\ chunk = Empty
        /\ pushing = FALSE /\ connected = TRUE
        /\ life = "up" /\ flushQueued = FALSE /\ arrived = 0 /\ stopMark = 0
    BY DEF Init
  <2>2. arrived \in Nat /\ stopMark \in Nat /\ stopMark <= arrived
    BY <2>1
  <2>3. /\ life \in {"up", "stopping", "stopped"} /\ life # "stopped"
        /\ pushing \in BOOLEAN /\ flushQueued \in BOOLEAN
        /\ ~pushing /\ ~flushQueued
    BY <2>1
  <2> QED
    BY <2>1, <2>2, <2>3, Zenon DEF Control
<1>2. Flushed
  BY <1>1 DEF Init, Flushed
<1>3. \A q \in Queues : Pending(q) = <<>>
  BY DEF Init, Pending, Empty
<1>4. Plain
  BY <1>3, NothingOrdered DEF Plain
<1>5. Informed
  <2>1. \A k \in Class : Ends(Pending(QueueOf[k]), k, latest[k], hubLatest[k])
    BY <1>3, NothingOrdered, QueueOfAssumption DEF Init
  <2>2. Counts(clearCount, latest)
    BY DEF Init, Counts
  <2> QED
    BY <2>1, <2>2 DEF Init, Informed
<1>6. Routed /\ Stopping
  <2>1. options.maxqueuelen \in Nat
    BY <1>1, OptionTypes DEF Control
  <2>2. Lists
    BY <2>1, EmptyLists DEF Init, Lists, Empty
  <2>3. \A q \in Queues : Len(chunk[q] \o prev[q]) = 0
    BY DEF Init, Empty
  <2>4. \A q : <<>> \in Seq(OfQueue(q))
    OBVIOUS
  <2>5. Routed
    <3>1. ASSUME NEW q \in Queues
          PROVE  /\ Len(chunk[q] \o prev[q]) <= options.maxqueuelen
                 /\ Pending(q) \in Seq(OfQueue(q))
      <4>1. Len(chunk[q] \o prev[q]) = 0
        BY <2>3
      <4>2. Pending(q) = <<>>
        BY <1>3
      <4> QED
        BY <2>1, <2>4, <4>1, <4>2
    <3> QED
      BY <2>2, <3>1 DEF Routed
  <2>6. Stopping
    BY DEF Init, Stopping
  <2> QED
    BY <2>5, <2>6
<1>7. Ledger
  <2>1. Pending("perf") = <<>> /\ Pending("event") = <<>>
    BY <1>3 DEF Queues
  <2>2. Occurrences(PendingEvents) = 0
    <3>1. <<>> \o <<>> = <<>> /\ <<>> \in Seq(Event)
      OBVIOUS
    <3> QED
      BY <2>1, <3>1, OccurrencesAre DEF PendingEvents
  <2>3. /\ clearCount = <<>> /\ discarded_events = 0
        /\ occurrences = [accepted |-> 0, delivered |-> 0, lost |-> 0,
                          dropped |-> 0]
    BY DEF Init
  <2>4. DOMAIN clearCount = {}
    BY <2>3
  <2> QED
    BY <2>2, <2>3, <2>4 DEF Ledger, Books, Conservation, Total
<1> QED
  BY <1>1, <1>2, <1>4, <1>5, <1>6, <1>7 DEF IInv

(* The inductive invariant: what the daemon is doing, what is flushed, the *)
(* order of what is pending, and what the hub will know when it has it.    *)
THEOREM Invariant == Spec => []IInv
<1>1. Init => IInv
  BY InitIInv
<1>2. IInv /\ [Next]_vars => IInv'
  BY StepControl, StepFlushed, StepRouted, StepOrdered, StepLedger DEF IInv
<1> QED
  BY <1>1, <1>2, PTL DEF Spec

-----------------------------------------------------------------------------
(* The events of a queue are sent in the order they arrived in, whatever   *)
(* failed pushes put back: without de-duplication it is that of the lists. *)
THEOREM EventsInOrder == Spec => []ArrivalOrder
<1>1. ASSUME IInv, ~options.deduplicate_events, NEW q \in Queues
      PROVE  \A i, j \in DOMAIN Pending(q) :
               i < j => Pending(q)[i].last < Pending(q)[j].last
  <2>1. Pending(q) \in Seq(Event) /\ Ordered(Pending(q), arrived)
    BY <1>1, PendingLists DEF IInv, Routed, Plain
  <2>2. DOMAIN Pending(q) = 1..Len(Pending(q))
    BY <2>1
  <2> QED
    BY <2>1, <2>2 DEF Ordered
<1>2. IInv => ArrivalOrder
  BY <1>1 DEF ArrivalOrder
<1> QED
  BY <1>2, Invariant, PTL

(* What is pending in a queue is among all that is pending.                *)
LEMMA AllPending ==
  ASSUME NEW E, NEW a \in Seq(E), NEW b \in Seq(E)
  PROVE  /\ DOMAIN (a \o b) = 1..Len(a \o b)
         /\ \A i \in 1..Len(a) : \E j \in DOMAIN (a \o b) : (a \o b)[j] = a[i]
         /\ \A i \in 1..Len(b) : \E j \in DOMAIN (a \o b) : (a \o b)[j] = b[i]
<1>1. a \o b \in Seq(E)
  BY Joined
<1>2. DOMAIN (a \o b) = 1..Len(a \o b)
  BY <1>1
<1>3. /\ \A i \in 1..Len(a) : (a \o b)[i] = a[i] /\ i \in 1..Len(a \o b)
      /\ \A i \in 1..Len(b) : (a \o b)[Len(a) + i] = b[i]
                              /\ Len(a) + i \in 1..Len(a \o b)
  BY Joined
<1> QED
  BY <1>2, <1>3

(* Suppressing clears never leaves the hub with a problem the daemon saw   *)
(* cleared, as long as no event was discarded: what is pending always ends *)
(* with what the hub is to know.                                           *)
THEOREM HubIsInformed == Spec => []HubReflectsLatest
<1>1. ASSUME IInv, ~options.deduplicate_events, discarded_events = 0,
             NEW k \in Class,
             \A i \in DOMAIN PendingEvents : PendingEvents[i].class # k
      PROVE  hubLatest[k] = latest[k]
  <2>1. /\ Pending("perf") \in Seq(Event) /\ Pending("event") \in Seq(Event)
        /\ QueueOf[k] \in Queues
    BY <1>1, PendingLists, QueueOfAssumption DEF IInv, Routed, Queues
  <2> DEFINE a == Pending("perf")
             b == Pending("event")
  <2> HIDE DEF a, b
  <2>2. Silent(a, k) /\ Silent(b, k)
    <3>1. /\ \A i \in 1..Len(a) : \E j \in DOMAIN (a \o b) : (a \o b)[j] = a[i]
          /\ \A i \in 1..Len(b) : \E j \in DOMAIN (a \o b) : (a \o b)[j] = b[i]
      BY <2>1, AllPending DEF a, b
    <3>2. \A j \in DOMAIN (a \o b) : (a \o b)[j].class # k
      BY <1>1 DEF PendingEvents, a, b
    <3> QED
      BY <3>1, <3>2 DEF Silent
  <2>3. Silent(Pending(QueueOf[k]), k)
    BY <2>1, <2>2 DEF Queues, a, b
  <2>4. Ends(Pending(QueueOf[k]), k, latest[k], hubLatest[k])
    BY <1>1 DEF IInv, Informed
  <2> QED
    BY <2>3, <2>4 DEF Ends, Silent, LastWord
<1>2. IInv => HubReflectsLatest
  BY <1>1 DEF HubReflectsLatest
<1> QED
  BY <1>2, Invariant, PTL

(* A daemon that stops while connected leaves nothing behind that was      *)
(* queued before its stop event: with or without de-duplication, the push  *)
(* behind the stop takes all that was queued, and must end first.          *)
THEOREM StopIsFlushed == Spec => []StopFlushes
<1>1. ASSUME IInv, life = "stopped", stopMark > 0,
             NEW i \in DOMAIN PendingEvents
      PROVE  PendingEvents[i].last > stopMark
  <2>1. /\ queue \in [Queues -> Seq(Later(stopMark))] /\ stopMark \in Nat
        /\ chunk = Empty /\ prev = Empty
    BY <1>1 DEF IInv, Control, Flushed
  <2>2. \A q \in Queues : Pending(q) = (<<>> \o <<>>) \o queue[q]
    BY <2>1 DEF Pending, Empty
  <2>3. \A q \in Queues : Pending(q) \in Seq(Later(stopMark))
    <3>1. ASSUME NEW s \in Seq(Later(stopMark))
          PROVE  (<<>> \o <<>>) \o s = s
      <4>1. <<>> \o <<>> = <<>> /\ <<>> \o s = s
        BY Nothing
      <4> QED
        BY <4>1
    <3> QED
      BY <2>1, <2>2, <3>1
  <2>4. PendingEvents \in Seq(Later(stopMark))
    <3>1. /\ Pending("perf") \in Seq(Later(stopMark))
          /\ Pending("event") \in Seq(Later(stopMark))
      BY <2>3 DEF Queues
    <3> QED
      BY <3>1, Joined DEF PendingEvents
  <2>5. PendingEvents[i] \in Later(stopMark)
    BY <2>4
  <2> QED
    BY <2>1, <2>5, EventFields
<1>2. IInv => StopFlushes
  BY <1>1 DEF StopFlushes
<1> QED
  BY <1>2, Invariant, PTL

(* Events stay in the queues of their classes and within maxqueuelen,      *)
(* whatever a failed push puts back, and a push that is not on holds none: *)
(* the type invariant is a part of the inductive one.                      *)
THEOREM QueuesBounded == Spec => []TypeOK
<1>1. ASSUME IInv, NEW q \in Queues
      PROVE  /\ Len(queue[q]) <= options.maxqueuelen
             /\ Len(chunk[q] \o prev[q]) <= options.maxqueuelen
             /\ \A i \in DOMAIN Pending(q) : QueueOf[Pending(q)[i].class] = q
  <2>1. Pending(q) \in Seq(OfQueue(q))
    BY <1>1 DEF IInv, Routed
  <2>2. \A i \in DOMAIN Pending(q) : Pending(q)[i] \in OfQueue(q)
    BY <2>1
  <2> QED
    BY <1>1, <2>2 DEF IInv, Routed, Lists, OfQueue
<1>2. IInv => TypeOK
  BY <1>1 DEF TypeOK, IInv, Control, Stopping, Ledger
<1> QED
  BY <1>2, Invariant, PTL

(* No silent loss: every occurrence the daemon accepted is with the hub,   *)
(* pending or discarded, and the daemon's counter has every event that an  *)
(* overflow or a failed push threw away: without de-duplication, what is   *)
(* missing is exactly what it counts, since no event stands for more than  *)
(* one occurrence; with it, none is counted twice.                         *)
THEOREM NothingLostSilently == Spec => []Conservation
<1>1. IInv => Conservation
  BY DEF IInv, Ledger
<1> QED
  BY <1>1, Invariant, PTL
=============================================================================
