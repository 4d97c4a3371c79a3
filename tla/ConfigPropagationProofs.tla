----------------------- MODULE ConfigPropagationProofs -----------------------
(***************************************************************************)
(* Proofs about ConfigPropagation, for any devices, any batch size and any *)
(* budget of changes and faults.                                           *)
(*                                                                         *)
(* IInv says of each device what the hub sees of it (Seen): what there is, *)
(* unless it is still to be polled for or the poll was ahead of the sync;  *)
(* and what is on its way to the collector (Kept): something that will be  *)
(* pushed from the present state of the model (Pending), or messages the   *)
(* last of which is right (Leads).  While a load is in course it says so   *)
(* of the devices the load did not cross, whose answer is right and whose  *)
(* messages behind the answer are, because at its end the suspicion of the *)
(* others is all that is left.                                             *)
(*                                                                         *)
(* Converges rests on fairness and is left to model checking.              *)
(***************************************************************************)
EXTENDS ConfigPropagation, TLAPS

(* The messages the hub sends; those about a device say what it is to be.  *)
Message == [kind : {"update"}, dev : Device, ver : Version]
             \cup [kind : {"delete"}, dev : Device, ver : {0}]
             \cup [kind : {"reconfigure", "configs"}]
About(m, d) == m.kind \in {"update", "delete"} /\ m.dev = d

(* The last message about a device in a list; there is none.               *)
Last(s, d, i) ==
  /\ i \in 1..Len(s) /\ About(s[i], d)
  /\ \A j \in 1..Len(s) : j > i => ~About(s[j], d)
None(s, d) == \A i \in 1..Len(s) : ~About(s[i], d)

(* The last message says v; so it does if it comes after an answer; a      *)
(* collector that has c has v when the list is delivered.                  *)
Says(s, d, v) == \A i \in 1..Len(s) : Last(s, d, i) => s[i].ver = v
SaysAfter(s, d, v) ==
  \A i, k \in 1..Len(s) :
    Last(s, d, i) /\ k < i /\ s[k].kind = "configs" => s[i].ver = v
Leads(s, d, v, c) == Says(s, d, v) /\ (None(s, d) => c = v)

(* The variables have their types, within what the budget allows: those of *)
(* the model, of the hub's timers, ...                                     *)
ModelOK ==
  /\ db \in [Device -> Object] /\ view \in [Device -> Object]
  /\ changes \in Nat /\ faults \in Nat
  /\ changes <= MaxChanges + 1 /\ changes + faults <= Budget
  /\ dirty \subseteq Oid /\ oids \subseteq Oid /\ reconfig \in BOOLEAN
  /\ polling \in BOOLEAN /\ missed \subseteq Device
WaitOK == Wait!TypeOK /\ (faults = 0 => Wait!TimerPending)
BatchOK == Batch!TypeOK /\ Batch!OneTimer

(* ... of the connection, with which the loader's call ends, and on which  *)
(* the one answer is that of a loader that waits for it, ...               *)
ChannelOK ==
  /\ connected \in BOOLEAN /\ channel \in Seq(Message)
  /\ ~connected => channel = <<>>
  /\ loader \in {"idle", "answering", "answered", "applying"}
  /\ loader \in {"answering", "answered"} => connected
  /\ \A i \in 1..Len(channel) :
       channel[i].kind = "configs" =>
         /\ loader = "answered"
         /\ \A j \in 1..Len(channel) : channel[j].kind = "configs" => j = i

(* ... and of the collector.                                               *)
LoadOK ==
  /\ registered \in BOOLEAN /\ rebuild \in BOOLEAN
  /\ answer \in [Device -> Version] /\ config \in [Device -> Version]
  /\ todo \subseteq Device
DoubtOK == suspect \subseteq Device /\ raced \subseteq Device

Types == ModelOK /\ WaitOK /\ BatchOK /\ ChannelOK /\ LoadOK /\ DoubtOK

(* What will still be pushed: the device, or its class while it is here.   *)
Told(d) == d \in dirty \cup oids \/ (d \in waiting /\ (later \/ nows > 0))
ClassTold(d) ==
  \/ Class \in dirty \cup oids
  \/ queued > 0 \/ current = "new" \/ (current = "begun" /\ d \in rest)
Pending(d) == Told(d) \/ (db[d].place = "here" /\ ClassTold(d))

(* The hub sees the device as it is, will poll for it, or has missed it:   *)
(* if it has just synced, only what was committed since.  A device it sees *)
(* deleted is.                                                             *)
Due(d) == d \in dirty \/ (Class \in dirty /\ db[d].place = "here")
Seen(d) ==
  /\ view[d] = db[d] \/ d \in missed \/ Due(d)
  /\ polling => view[d] = db[d] \/ d \in missed
  /\ view[d].place = "gone" => view[d] = db[d]

(* What is on its way to the collector is right, or something will follow  *)
(* it: for devices that are not suspect, unless a load is being applied    *)
(* that they crossed; for those it did not cross, after its answer and     *)
(* where it was applied.                                                   *)
Arrives(d) == Pending(d) \/ Leads(channel, d, Wanted(d), config[d])
Kept(d) ==
  /\ (loader # "applying" \/ d \notin raced) /\ d \notin suspect => Arrives(d)
  /\ loader # "idle" /\ d \notin raced => answer[d] = Wanted(d)
  /\ loader = "answered" /\ d \notin raced =>
       Pending(d) \/ SaysAfter(channel, d, Wanted(d))
  /\ loader = "applying" /\ d \notin raced =>
       /\ Pending(d) \/ Says(channel, d, Wanted(d))
       /\ d \notin todo /\ answer[d] # 0 => Arrives(d)

IInv == Types /\ \A d \in Device : Seen(d) /\ Kept(d)

-----------------------------------------------------------------------------
(* The fields of messages.                                                 *)
LEMMA MessageFields ==
  /\ \A m \in Message :
       /\ m.kind \in {"update", "delete", "reconfigure", "configs"}
       /\ m.kind \in {"update", "delete"} =>
            m.dev \in Device /\ m.ver \in Version
       /\ m.kind = "delete" => m.ver = 0
  /\ [kind |-> "reconfigure"] \in Message /\ [kind |-> "configs"] \in Message
  /\ \A d \in Device :
       /\ [kind |-> "delete", dev |-> d, ver |-> 0] \in Message
       /\ \A v \in Version :
            [kind |-> "update", dev |-> d, ver |-> v] \in Message
BY PropagationConstants DEF Message, Version

(* What sending and delivering do to a list.                               *)
LEMMA Appended ==
  ASSUME NEW s \in Seq(Message), NEW m \in Message
  PROVE  /\ Append(s, m) \in Seq(Message) /\ Len(Append(s, m)) = Len(s) + 1
         /\ Len(s) \in Nat /\ Append(s, m)[Len(s) + 1] = m
         /\ \A i \in 1..Len(s) : Append(s, m)[i] = s[i]
OBVIOUS

LEMMA Delivered ==
  ASSUME NEW s \in Seq(Message), s # <<>>
  PROVE  /\ Head(s) \in Message /\ Head(s) = s[1] /\ 1 \in 1..Len(s)
         /\ Tail(s) \in Seq(Message) /\ Len(Tail(s)) = Len(s) - 1
         /\ Len(s) \in Nat \ {0}
         /\ \A i \in 1..(Len(s) - 1) : Tail(s)[i] = s[i + 1]
OBVIOUS

(* A message that is not about a device changes nothing for it.            *)
LEMMA SentOther ==
  ASSUME NEW s \in Seq(Message), NEW m \in Message, NEW d \in Device,
         NEW v, NEW c, ~About(m, d)
  PROVE  /\ Says(s, d, v) => Says(Append(s, m), d, v)
         /\ SaysAfter(s, d, v) => SaysAfter(Append(s, m), d, v)
         /\ Leads(s, d, v, c) => Leads(Append(s, m), d, v, c)
<1> DEFINE t == Append(s, m)
<1>1. /\ Len(t) = Len(s) + 1 /\ Len(s) \in Nat /\ t[Len(s) + 1] = m
      /\ \A i \in 1..Len(s) : t[i] = s[i]
  BY Appended
<1> HIDE DEF t
<1>2. \A i : Last(t, d, i) => Last(s, d, i) /\ t[i] = s[i]
  BY <1>1 DEF Last
<1>3. None(t, d) => None(s, d)
  BY <1>1 DEF None
<1>4. Says(s, d, v) => Says(t, d, v)
  BY <1>2 DEF Says, Last
<1>5. SaysAfter(s, d, v) => SaysAfter(t, d, v)
  <2> SUFFICES ASSUME SaysAfter(s, d, v),
                      NEW i \in 1..Len(t), NEW k \in 1..Len(t),
                      Last(t, d, i), k < i, t[k].kind = "configs"
               PROVE  t[i].ver = v
    BY DEF SaysAfter
  <2>1. Last(s, d, i) /\ t[i] = s[i] /\ i \in 1..Len(s)
    BY <1>2 DEF Last
  <2>2. k \in 1..Len(s) /\ t[k] = s[k]
    BY <2>1, <1>1
  <2> QED
    BY <2>1, <2>2 DEF SaysAfter
<1> QED
  BY <1>3, <1>4, <1>5 DEF Leads, t

(* A message about a device is the last one.                               *)
LEMMA SentAbout ==
  ASSUME NEW s \in Seq(Message), NEW m \in Message, NEW d \in Device,
         NEW c, About(m, d)
  PROVE  /\ Says(Append(s, m), d, m.ver) /\ SaysAfter(Append(s, m), d, m.ver)
         /\ Leads(Append(s, m), d, m.ver, c)
<1> DEFINE t == Append(s, m)
<1>1. /\ Len(t) = Len(s) + 1 /\ Len(s) \in Nat /\ t[Len(s) + 1] = m
      /\ \A i \in 1..Len(s) : t[i] = s[i]
  BY Appended
<1> HIDE DEF t
<1>2. Len(s) + 1 \in 1..Len(t) /\ About(t[Len(s) + 1], d)
      /\ \A i \in 1..Len(t) : i = Len(s) + 1 \/ Len(s) + 1 > i
  BY <1>1
<1>3. \A i : Last(t, d, i) => t[i] = m
  BY <1>1, <1>2 DEF Last
<1>4. ~None(t, d)
  BY <1>2 DEF None
<1> QED
  BY <1>3, <1>4 DEF Says, SaysAfter, Leads, t

(* The first message is delivered: if it is about the device, what it says *)
(* is what the collector has.  What follows an answer follows it still, or *)
(* is all that is left.                                                    *)
LEMMA Taken ==
  ASSUME NEW s \in Seq(Message), s # <<>>, NEW d \in Device, NEW v, NEW c
  PROVE  /\ Says(s, d, v) => Says(Tail(s), d, v)
         /\ Leads(s, d, v, c) =>
              Leads(Tail(s), d, v,
                    IF About(Head(s), d) THEN Head(s).ver ELSE c)
         /\ SaysAfter(s, d, v) => SaysAfter(Tail(s), d, v)
         /\ SaysAfter(s, d, v) /\ Head(s).kind = "configs"
              => Says(Tail(s), d, v)
<1> DEFINE t == Tail(s)
<1>1. /\ Head(s) = s[1] /\ Len(t) = Len(s) - 1 /\ Len(s) \in Nat \ {0}
      /\ \A i \in 1..(Len(s) - 1) : t[i] = s[i + 1]
  BY Delivered
<1> HIDE DEF t
<1>2. /\ \A i \in 1..Len(t) :
           i + 1 \in 1..Len(s) /\ t[i] = s[i + 1] /\ 1 < i + 1
      /\ \A i \in 1..Len(t), j \in 1..Len(s) :
           j > i + 1 => j - 1 \in 1..Len(t) /\ t[j - 1] = s[j] /\ j - 1 > i
  BY <1>1
<1>3. \A i \in 1..Len(t) : Last(t, d, i) => Last(s, d, i + 1)
  BY <1>2 DEF Last
<1>4. Says(s, d, v) => Says(t, d, v)
  BY <1>2, <1>3 DEF Says
<1>5. SaysAfter(s, d, v) => SaysAfter(t, d, v)
  <2> SUFFICES ASSUME SaysAfter(s, d, v),
                      NEW i \in 1..Len(t), NEW k \in 1..Len(t),
                      Last(t, d, i), k < i, t[k].kind = "configs"
               PROVE  t[i].ver = v
    BY DEF SaysAfter
  <2>1. k + 1 < i + 1
    BY <1>1
  <2> QED
    BY <2>1, <1>2, <1>3 DEF SaysAfter
<1>6. SaysAfter(s, d, v) /\ Head(s).kind = "configs" => Says(t, d, v)
  <2> SUFFICES ASSUME SaysAfter(s, d, v), s[1].kind = "configs",
                      NEW i \in 1..Len(t), Last(t, d, i)
               PROVE  t[i].ver = v
    BY <1>1 DEF Says
  <2> QED
    BY <1>1, <1>2, <1>3 DEF SaysAfter
<1>7. None(t, d) /\ About(s[1], d) => Last(s, d, 1)
  <2> SUFFICES ASSUME None(t, d), About(s[1], d),
                      NEW j \in 1..Len(s), j > 1
               PROVE  ~About(s[j], d)
    BY <1>1 DEF Last
  <2>1. j - 1 \in 1..Len(t) /\ t[j - 1] = s[j]
    BY <1>1
  <2> QED
    BY <2>1 DEF None
<1>8. None(t, d) /\ ~About(s[1], d) => None(s, d)
  <2> SUFFICES ASSUME None(t, d), ~About(s[1], d), NEW j \in 1..Len(s)
               PROVE  ~About(s[j], d)
    BY DEF None
  <2>1. j = 1 \/ (j - 1 \in 1..Len(t) /\ t[j - 1] = s[j])
    BY <1>1
  <2> QED
    BY <2>1 DEF None
<1>9. Leads(s, d, v, c) =>
        Leads(t, d, v, IF About(Head(s), d) THEN Head(s).ver ELSE c)
  BY <1>1, <1>4, <1>7, <1>8 DEF Leads, Says
<1> QED
  BY <1>4, <1>5, <1>6, <1>9 DEF t

(* An empty list.                                                          *)
LEMMA NothingSent ==
  ASSUME NEW d, NEW v, NEW c
  PROVE  /\ Says(<<>>, d, v) /\ SaysAfter(<<>>, d, v)
         /\ Leads(<<>>, d, v, c) <=> c = v
<1>1. \A i : i \notin 1..Len(<<>>)
  OBVIOUS
<1> QED
  BY <1>1 DEF Says, SaysAfter, Leads, None

-----------------------------------------------------------------------------
(* Types is more than the type invariant.                                  *)
LEMMA TypesImply == Types => TypeOK
BY PropagationConstants
   DEF Types, ModelOK, WaitOK, BatchOK, ChannelOK, LoadOK, DoubtOK, TypeOK

(* The variables at the start.                                             *)
LEMMA InitTypes == Init => Types
<1> SUFFICES ASSUME Init PROVE Types
  OBVIOUS
<1>1. /\ [ver |-> 1, place |-> "here"] \in Object /\ 0 \in Version
      /\ [ver |-> 0, place |-> "away"] \in Object
  BY PropagationConstants DEF Object, Version
<1>2. Wait!TypeOK /\ Wait!TimerPending /\ Batch!TypeOK /\ Batch!OneTimer
  BY DEF Init, Wait!Init, Batch!Init, Wait!TypeOK, Wait!TimerPending,
         Batch!TypeOK, Batch!OneTimer
<1>3. /\ db \in [Device -> Object] /\ view \in [Device -> Object]
      /\ answer \in [Device -> Version] /\ config \in [Device -> Version]
  BY <1>1 DEF Init, NoAnswer
<1>4. /\ changes \in Nat /\ faults \in Nat
      /\ changes <= MaxChanges + 1 /\ changes + faults <= Budget
  BY PropagationConstants DEF Init
<1>5. channel \in Seq(Message) /\ \A i : i \notin 1..Len(channel)
  BY DEF Init
<1>6. /\ dirty \subseteq Oid /\ oids \subseteq Oid
      /\ reconfig \in BOOLEAN /\ connected \in BOOLEAN
      /\ rebuild \in BOOLEAN /\ registered \in BOOLEAN /\ connected
      /\ polling \in BOOLEAN /\ missed \subseteq Device
      /\ loader = "idle" /\ todo \subseteq Device
      /\ suspect \subseteq Device /\ raced \subseteq Device
  BY DEF Init
<1> QED
  BY <1>2, <1>3, <1>4, <1>5, <1>6 DEF Types, ModelOK, WaitOK, BatchOK,
     ChannelOK, LoadOK, DoubtOK

(* The objects that are dispatched, and the devices of them.               *)
LEMMA Objects ==
  /\ Device \subseteq Oid /\ Class \in Oid /\ Prefs \in Oid
  /\ \A S : Affected(S) \subseteq Device
BY DEF Oid, Affected

(* What the procrastinator's and the notifier's operations keep.           *)
LEMMA DoLaterTypes ==
  ASSUME WaitOK, NEW S \in SUBSET Device, Wait!doLater(S),
         faults' = 0 => faults = 0
  PROVE  WaitOK'
BY DEF WaitOK, Wait!TypeOK, Wait!TimerPending, Wait!doLater

LEMMA DoNowTypes ==
  ASSUME WaitOK, NEW S \in SUBSET Device, NEW r \in BOOLEAN,
         Wait!doNow(S, r), S = {} => waiting = {},
         faults' = 0 => faults = 0 /\ ~r
  PROVE  WaitOK'
<1> DEFINE more == IF S = {} \/ r \/ waiting' = {} THEN 0 ELSE 1
<1>1. /\ waiting' = waiting \ S
      /\ \/ later /\ later' = FALSE /\ nows' = nows + more
         \/ nows > 0 /\ nows' = nows - 1 + more /\ later' = later
  BY DEF Wait!doNow
<1>2. waiting \subseteq Device /\ later \in BOOLEAN /\ nows \in Nat
  BY DEF WaitOK, Wait!TypeOK
<1>3. more \in {0, 1} /\ (~r /\ waiting' # {} => more = 1)
  BY <1>1
<1> HIDE DEF more
<1>4. nows' \in Nat /\ (more = 1 => nows' > 0)
  BY <1>1, <1>2, <1>3
<1>5. waiting' \subseteq Device
  BY <1>1, <1>2
<1>6. later' \in BOOLEAN
  BY <1>1, <1>2
<1> QED
  BY <1>3, <1>4, <1>5, <1>6 DEF WaitOK, Wait!TypeOK, Wait!TimerPending

LEMMA NotifyTypes ==
  ASSUME BatchOK, Batch!notify_subdevices
  PROVE  BatchOK'
BY DEF BatchOK, Batch!TypeOK, Batch!OneTimer, Batch!notify_subdevices

LEMMA CallbackTypes ==
  ASSUME BatchOK, NEW S \in SUBSET Device, NEW T \in SUBSET Device,
         NEW r \in BOOLEAN, Batch!callback(S, T, r)
  PROVE  BatchOK'
BY DEF BatchOK, Batch!TypeOK, Batch!OneTimer, Batch!callback, Batch!Continue

(* A message of the service's goes into the channel, or is lost.           *)
LEMMA SendTypes ==
  ASSUME ChannelOK, NEW m \in Message, m.kind # "configs", Send(m),
         UNCHANGED <<connected, loader>>
  PROVE  ChannelOK'
<1>1. CASE connected
  <2>1. channel' = Append(channel, m)
    BY <1>1 DEF Send
  <2> DEFINE t == Append(channel, m)
  <2>2. /\ t \in Seq(Message) /\ Len(t) = Len(channel) + 1
        /\ Len(channel) \in Nat /\ t[Len(channel) + 1] = m
        /\ \A i \in 1..Len(channel) : t[i] = channel[i]
    BY Appended DEF ChannelOK
  <2> HIDE DEF t
  <2>3. \A i \in 1..Len(t) : t[i].kind = "configs" =>
          i \in 1..Len(channel) /\ channel[i].kind = "configs"
    BY <2>2
  <2> QED
    BY <1>1, <2>1, <2>2, <2>3 DEF ChannelOK, t
<1>2. CASE ~connected
  BY <1>2 DEF Send, ChannelOK
<1> QED
  BY <1>1, <1>2

(* What is doubted are devices.                                            *)
LEMMA DoubtTypes ==
  ASSUME DoubtOK, NEW S \in SUBSET Device
  PROVE  Doubt(S) \/ NoDoubt => DoubtOK'
BY DEF DoubtOK, Doubt, NoDoubt

(* A part none of whose variables is changed.                              *)
LEMMA Unchanged ==
  ASSUME Types
  PROVE  /\ UNCHANGED <<waitVars, faults>> => WaitOK'
         /\ UNCHANGED batchVars => BatchOK'
         /\ UNCHANGED <<connected, channel, loader>> => ChannelOK'
         /\ UNCHANGED <<registered, rebuild, answer, config, todo>> => LoadOK'
         /\ UNCHANGED <<db, changes, view, dirty, polling, oids, faults,
                         reconfig, missed>> => ModelOK'
<1>1. UNCHANGED <<waitVars, faults>> => WaitOK'
  BY DEF Types, WaitOK, Wait!TypeOK, Wait!TimerPending, waitVars
<1>2. UNCHANGED batchVars => BatchOK'
  BY DEF Types, BatchOK, Batch!TypeOK, Batch!OneTimer, batchVars
<1>3. UNCHANGED <<connected, channel, loader>> => ChannelOK'
  BY DEF Types, ChannelOK
<1>4. UNCHANGED <<registered, rebuild, answer, config, todo>> => LoadOK'
  BY DEF Types, LoadOK
<1>5. UNCHANGED <<db, changes, view, dirty, polling, oids, faults,
                  reconfig, missed>> => ModelOK'
  BY DEF Types, ModelOK
<1> QED
  BY <1>1, <1>2, <1>3, <1>4, <1>5

(* A step that may be a fault, while the procrastinator's timers or the    *)
(* hub are let alone.                                                      *)
LEMMA FaultTypes ==
  ASSUME Types, Fault \/ UNCHANGED faults
  PROVE  /\ UNCHANGED waitVars => WaitOK'
         /\ UNCHANGED <<db, changes, view, dirty, polling, oids, reconfig,
                         missed>> => ModelOK'
<1>1. CASE Fault
  <2>1. faults' \in Nat /\ faults' # 0 /\ changes + faults' <= Budget
    BY <1>1, PropagationConstants DEF Types, ModelOK, Fault
  <2> QED
    BY <2>1 DEF Types, ModelOK, WaitOK, Wait!TypeOK, waitVars
<1>2. CASE UNCHANGED faults
  BY <1>2, Unchanged
<1> QED
  BY <1>1, <1>2

(* A change of the model.                                                  *)
LEMMA ChangedTypes ==
  ASSUME Types, NEW new, NEW S \in SUBSET Oid, NEW cost \in {1, 2},
         Changed(new, S, cost),
         changes < MaxChanges => new \in [Device -> Object]
  PROVE  Types'
<1>1. ModelOK'
  <2>1. missed' \subseteq Device
    BY Objects DEF Changed, Types, ModelOK
  <2> QED
    BY <2>1, PropagationConstants DEF Changed, Types, ModelOK
<1>2. DoubtOK'
  BY Objects DEF Changed, Types, DoubtOK
<1>3. WaitOK' /\ BatchOK' /\ ChannelOK' /\ LoadOK'
  BY Unchanged DEF Changed, loadVars
<1> QED
  BY <1>1, <1>2, <1>3 DEF Types

LEMMA ModelTypes ==
  ASSUME Types, ChangeDevice \/ ChangeClass \/ ChangePrefs
  PROVE  Types'
<1>1. ModelOK /\ MaxChanges \in Nat
  BY PropagationConstants DEF Types
<1>2. CASE ChangeDevice
  <2>1. PICK d \in Movable, m \in Moves :
          Changed([db EXCEPT ![d] =
                     [ver |-> CASE m[2] = "here" -> changes + 2
                                [] m[2] = "gone" -> @.ver
                                [] OTHER -> 0,
                      place |-> m[2]]], {d}, 1)
    BY <1>2 DEF ChangeDevice
  <2> DEFINE v == CASE m[2] = "here" -> changes + 2
                    [] m[2] = "gone" -> db[d].ver
                    [] OTHER -> 0
  <2>2. d \in Device /\ {d} \subseteq Oid
    BY PropagationConstants, Objects
  <2>3. m[2] \in {"here", "near", "away", "gone"}
    BY DEF Moves
  <2>4. db[d].ver \in Version
    BY <1>1, <2>2 DEF ModelOK, Object
  <2>5. changes < MaxChanges =>
          v \in Version
    BY <1>1, <2>4 DEF ModelOK, Version
  <2> HIDE DEF v
  <2>6. Changed([db EXCEPT ![d] = [ver |-> v, place |-> m[2]]], {d}, 1)
    BY <2>1 DEF v
  <2>7. changes < MaxChanges =>
          [ver |-> v, place |-> m[2]] \in Object
    BY <2>3, <2>5 DEF Object
  <2>8. changes < MaxChanges =>
          [db EXCEPT ![d] = [ver |-> v, place |-> m[2]]] \in [Device -> Object]
    BY <1>1, <2>7 DEF ModelOK
  <2> QED
    BY <2>2, <2>6, <2>8, ChangedTypes
<1>3. CASE ChangeClass
  <2> DEFINE new == [d \in Device |-> IF db[d].place = "here"
                                      THEN [db[d] EXCEPT !.ver = changes + 2]
                                      ELSE db[d]]
  <2>1. changes < MaxChanges => changes + 2 \in Version
    BY <1>1 DEF ModelOK, Version
  <2>2. changes < MaxChanges => new \in [Device -> Object]
    BY <1>1, <2>1 DEF ModelOK, Object
  <2>3. Changed(new, {Class}, 2)
    BY <1>3 DEF ChangeClass
  <2> QED
    BY <2>2, <2>3, Objects, ChangedTypes
<1>4. CASE ChangePrefs
  <2>1. Changed(db, {Prefs}, 2)
    BY <1>4 DEF ChangePrefs
  <2> QED
    BY <1>1, <2>1, Objects, ChangedTypes DEF ModelOK
<1> QED
  BY <1>2, <1>3, <1>4

(* Syncs, polls and what becomes of what they found.                       *)
LEMMA PollTypes ==
  ASSUME Types, Sync \/ Poll \/ PausedPoll \/ UnsyncedPoll
  PROVE  Types'
<1>1. CASE Sync
  <2>1. ModelOK'
    BY <1>1 DEF Types, Sync, ModelOK
  <2>2. DoubtOK'
    BY <1>1, DoubtTypes DEF Types, Sync
  <2> QED
    BY <1>1, <2>1, <2>2, Unchanged DEF Types, Sync, loadVars
<1>2. CASE Poll
  <2>1. ModelOK'
    BY <1>2 DEF Types, Poll, ModelOK
  <2>2. DoubtOK'
    BY <1>2, DoubtTypes DEF Types, Poll
  <2> QED
    BY <1>2, <2>1, <2>2, Unchanged DEF Types, Poll, loadVars
<1>3. CASE PausedPoll
  <2>1. ModelOK'
    <3>1. faults' \in Nat /\ changes + faults' <= Budget
      BY <1>3, PropagationConstants DEF Types, PausedPoll, ModelOK, Fault
    <3> QED
      BY <1>3, <3>1 DEF Types, PausedPoll, ModelOK
  <2>2. DoubtOK'
    BY <1>3, DoubtTypes, Objects DEF Types, PausedPoll
  <2>3. WaitOK'
    BY <1>3, FaultTypes DEF PausedPoll
  <2> QED
    BY <1>3, <2>1, <2>2, <2>3, Unchanged DEF Types, PausedPoll, loadVars
<1>4. CASE UnsyncedPoll
  <2>1. missed' \subseteq Device
    BY <1>4, Objects DEF Types, ModelOK, UnsyncedPoll
  <2>2. ModelOK'
    <3>1. faults' \in Nat /\ changes + faults' <= Budget
      BY <1>4, PropagationConstants DEF Types, UnsyncedPoll, ModelOK, Fault
    <3> QED
      BY <1>4, <2>1, <3>1 DEF Types, UnsyncedPoll, ModelOK
  <2>3. DoubtOK'
    BY <1>4, DoubtTypes DEF Types, UnsyncedPoll
  <2>4. WaitOK'
    BY <1>4, FaultTypes DEF UnsyncedPoll
  <2> QED
    BY <1>4, <2>2, <2>3, <2>4, Unchanged DEF Types, UnsyncedPoll, loadVars
<1> QED
  BY <1>1, <1>2, <1>3, <1>4

LEMMA DispatchTypes ==
  ASSUME Types, Dispatch
  PROVE  Types'
<1>1. PICK o \in oids : oids' = oids \ {o} /\ dispatch(o)
  BY DEF Dispatch
<1>2. UNCHANGED <<db, changes, view, dirty, polling, connected, faults,
                  loadVars, config, missed>>
  BY DEF Dispatch
<1>3. LoadOK'
  BY <1>2, Unchanged DEF loadVars
<1>4. CASE o = Class
  <2>1. /\ Batch!notify_subdevices /\ NoDoubt
        /\ UNCHANGED <<waitVars, reconfig, channel>>
    BY <1>1, <1>4 DEF dispatch
  <2>2. BatchOK'
    BY <2>1, NotifyTypes DEF Types
  <2>3. ModelOK'
    BY <1>1, <1>2, <2>1 DEF Types, ModelOK
  <2>4. DoubtOK'
    BY <2>1, DoubtTypes DEF Types
  <2> QED
    BY <1>2, <1>3, <2>1, <2>2, <2>3, <2>4, Unchanged DEF Types, loadVars
<1>5. CASE o # Class /\ o = Prefs
  <2>1. /\ reconfig' = TRUE /\ NoDoubt
        /\ UNCHANGED <<waitVars, batchVars, channel>>
    BY <1>1, <1>5 DEF dispatch
  <2>2. ModelOK'
    BY <1>1, <1>2, <2>1 DEF Types, ModelOK
  <2>3. DoubtOK'
    BY <2>1, DoubtTypes DEF Types
  <2> QED
    BY <1>2, <1>3, <2>1, <2>2, <2>3, Unchanged DEF Types, loadVars
<1>6. CASE o # Class /\ o # Prefs
  <2>1. o \in Device
    BY <1>6 DEF Types, ModelOK, Oid
  <2>2. CASE view[o].place = "gone"
    <3>1. /\ Send([kind |-> "delete", dev |-> o, ver |-> 0])
          /\ NoDoubt \/ Doubt({o})
          /\ UNCHANGED <<waitVars, batchVars, reconfig>>
      BY <1>1, <1>6, <2>2 DEF dispatch
    <3>2. ChannelOK'
      BY <1>2, <2>1, <3>1, MessageFields, SendTypes DEF Types, loadVars
    <3>3. ModelOK'
      BY <1>1, <1>2, <3>1 DEF Types, ModelOK
    <3>4. DoubtOK'
      BY <2>1, <3>1, DoubtTypes DEF Types
    <3> QED
      BY <1>2, <1>3, <3>1, <3>2, <3>3, <3>4, Unchanged DEF Types
  <2>3. CASE view[o].place # "gone"
    <3>1. /\ Wait!doLater({o}) /\ NoDoubt
          /\ UNCHANGED <<batchVars, reconfig, channel>>
      BY <1>1, <1>6, <2>3 DEF dispatch
    <3>2. WaitOK'
      BY <1>2, <2>1, <3>1, DoLaterTypes DEF Types
    <3>3. ModelOK'
      BY <1>1, <1>2, <3>1 DEF Types, ModelOK
    <3>4. DoubtOK'
      BY <3>1, DoubtTypes DEF Types
    <3> QED
      BY <1>2, <1>3, <3>1, <3>2, <3>3, <3>4, Unchanged DEF Types, loadVars
  <2> QED
    BY <2>2, <2>3
<1> QED
  BY <1>4, <1>5, <1>6

LEMMA DispatchFailsTypes ==
  ASSUME Types, DispatchFails
  PROVE  Types'
<1>1. ModelOK'
  <2>1. faults' \in Nat /\ changes + faults' <= Budget
    BY PropagationConstants DEF Types, DispatchFails, ModelOK, Fault
  <2> QED
    BY <2>1 DEF Types, DispatchFails, ModelOK
<1>2. DoubtOK'
  BY DoubtTypes, Objects DEF Types, DispatchFails
<1>3. WaitOK'
  BY FaultTypes DEF DispatchFails
<1> QED
  BY <1>1, <1>2, <1>3, Unchanged DEF Types, DispatchFails, loadVars

(* The timers of the hub.                                                  *)
LEMMA CallbackStepTypes ==
  ASSUME Types, BatchCallback
  PROVE  Types'
<1> DEFINE devices == {d \in Device : view[d].place # "gone"}
<1>1. PICK batch \in SUBSET Device, raises \in BOOLEAN :
        /\ IF raises THEN Fault ELSE UNCHANGED faults
        /\ Batch!callback(devices, batch, raises)
        /\ Wait!doLater(batch)
        /\ IF raises THEN Doubt(Device) ELSE NoDoubt
        /\ UNCHANGED <<db, changes, view, dirty, polling, oids, reconfig,
                       connected, channel, loadVars, config, missed>>
  BY DEF BatchCallback
<1>2. PICK S \in SUBSET Device : S = devices
  OBVIOUS
<1>3. BatchOK'
  BY <1>1, <1>2, CallbackTypes DEF Types
<1>4. WaitOK'
  <2>1. faults' = 0 => faults = 0
    BY <1>1 DEF Types, ModelOK, Fault
  <2> QED
    BY <1>1, <2>1, DoLaterTypes DEF Types
<1>5. ModelOK'
  BY <1>1, FaultTypes
<1>6. DoubtOK'
  BY <1>1, DoubtTypes DEF Types
<1> QED
  BY <1>1, <1>3, <1>4, <1>5, <1>6, Unchanged DEF Types, loadVars

(* What may be pushed of a device are messages about it.                   *)
LEMMA PushesTypes ==
  ASSUME Types, NEW d \in Device, NEW b \in BOOLEAN, NEW m \in Pushes(d, b)
  PROVE  /\ m \in Message /\ m.kind # "configs" /\ About(m, d)
         /\ view[d].place = "here" /\ ~b => m.ver = view[d].ver
         /\ view[d].place = "near" => m.ver = 0
<1> DEFINE update == [kind |-> "update", dev |-> d, ver |-> view[d].ver]
           delete == [kind |-> "delete", dev |-> d, ver |-> 0]
<1>1. view[d].ver \in Version
  BY DEF Types, ModelOK, Object
<1>2. m \in {update, delete}
  BY DEF Pushes
<1>3. view[d].place = "here" /\ ~b => m = update
  BY DEF Pushes
<1>4. view[d].place = "near" => m = delete
  BY DEF Pushes
<1>5. m \in Message
  BY <1>1, <1>2, MessageFields
<1>6. m.kind \in {"update", "delete"} /\ m.dev = d
  BY <1>2
<1>7. update.ver = view[d].ver /\ delete.ver = 0
  OBVIOUS
<1> HIDE DEF update, delete
<1> QED
  BY <1>3, <1>4, <1>5, <1>6, <1>7 DEF About

LEMMA PushTypes ==
  ASSUME Types, Push \/ PushFails \/ PushNothing
  PROVE  Types'
<1>1. CASE Push
  <2>1. PICK d \in waiting, b \in BOOLEAN :
          /\ Fault \/ UNCHANGED faults
          /\ Wait!doNow({d}, FALSE)
          /\ IF Pushes(d, b) = {} THEN UNCHANGED channel
             ELSE \E m \in Pushes(d, b) : Send(m)
          /\ NoDoubt \/ Doubt({d})
    BY <1>1 DEF Push
  <2>2. UNCHANGED <<db, changes, view, dirty, polling, oids, batchVars,
                    reconfig, connected, loadVars, config, missed>>
    BY <1>1 DEF Push
  <2>3. d \in Device
    BY DEF Types, WaitOK, Wait!TypeOK
  <2>4. WaitOK'
    <3>1. faults' = 0 => faults = 0
      BY <2>1 DEF Types, ModelOK, Fault
    <3> QED
      BY <2>1, <2>3, <3>1, DoNowTypes DEF Types
  <2>5. ChannelOK'
    <3>1. CASE Pushes(d, b) = {}
      BY <2>1, <2>2, <3>1, Unchanged DEF loadVars
    <3>2. CASE Pushes(d, b) # {}
      BY <2>1, <2>2, <2>3, <3>2, PushesTypes, SendTypes DEF Types, loadVars
    <3> QED
      BY <3>1, <3>2
  <2>6. DoubtOK'
    BY <2>1, <2>3, DoubtTypes DEF Types
  <2>7. ModelOK'
    BY <2>1, <2>2, FaultTypes
  <2> QED
    BY <2>2, <2>4, <2>5, <2>6, <2>7, Unchanged DEF Types, loadVars
<1>2. CASE PushFails
  <2>1. PICK d \in waiting : Wait!doNow({d}, TRUE)
    BY <1>2 DEF PushFails
  <2>2. d \in Device /\ waiting \subseteq Device
    BY DEF Types, WaitOK, Wait!TypeOK
  <2>3. WaitOK'
    <3>1. faults' # 0
      BY <1>2 DEF Types, PushFails, ModelOK, Fault
    <3> QED
      BY <2>1, <2>2, <3>1, DoNowTypes DEF Types
  <2>4. ModelOK'
    BY <1>2, FaultTypes DEF PushFails
  <2>5. DoubtOK'
    BY <1>2, <2>2, DoubtTypes DEF Types, PushFails
  <2> QED
    BY <1>2, <2>3, <2>4, <2>5, Unchanged DEF Types, PushFails, loadVars
<1>3. CASE PushNothing
  <2>1. WaitOK'
    BY <1>3, DoNowTypes DEF Types, PushNothing
  <2>2. DoubtOK'
    BY <1>3, DoubtTypes DEF Types, PushNothing
  <2> QED
    BY <1>3, <2>1, <2>2, Unchanged DEF Types, PushNothing, loadVars
<1> QED
  BY <1>1, <1>2, <1>3

LEMMA ReconfigureTypes ==
  ASSUME Types, pushReconfigure
  PROVE  Types'
<1>1. ChannelOK'
  BY MessageFields, SendTypes DEF Types, pushReconfigure, loadVars
<1>2. ModelOK'
  BY DEF Types, pushReconfigure, ModelOK
<1>3. DoubtOK'
  BY DoubtTypes DEF Types, pushReconfigure
<1> QED
  BY <1>1, <1>2, <1>3, Unchanged DEF Types, pushReconfigure, loadVars

(* The connection.                                                         *)
LEMMA ConnectionTypes ==
  ASSUME Types, ConnectionLost \/ gotPerspective
  PROVE  Types'
<1>1. CASE ConnectionLost
  <2> DEFINE lost == {channel[i].dev :
                        i \in {k \in 1..Len(channel) :
                                 channel[k].kind \in {"update", "delete"}}}
  <2>1. lost \subseteq Device
    BY MessageFields DEF Types, ChannelOK
  <2>2. DoubtOK'
    BY <1>1, <2>1, DoubtTypes DEF Types, ConnectionLost
  <2>3. ModelOK'
    BY <1>1, FaultTypes DEF ConnectionLost, hubVars
  <2>4. WaitOK' /\ BatchOK'
    BY <1>1, FaultTypes, Unchanged DEF ConnectionLost, hubVars
  <2>5. ChannelOK'
    <3>1. channel' \in Seq(Message) /\ \A i : i \notin 1..Len(channel')
      BY <1>1 DEF ConnectionLost
    <3>2. loader' \in {"idle", "applying"}
      BY <1>1 DEF ConnectionLost, Types, ChannelOK
    <3> QED
      BY <1>1, <3>1, <3>2 DEF ConnectionLost, ChannelOK
  <2>6. LoadOK'
    <3>1. NoAnswer \in [Device -> Version]
      BY PropagationConstants DEF NoAnswer, Version
    <3>2. answer' \in {answer, NoAnswer} /\ registered' \in {FALSE, registered}
      BY <1>1 DEF ConnectionLost
    <3>3. registered' \in BOOLEAN
      BY <3>2 DEF Types, LoadOK
    <3> QED
      BY <1>1, <3>1, <3>2, <3>3 DEF ConnectionLost, Types, LoadOK
  <2> QED
    BY <2>2, <2>3, <2>4, <2>5, <2>6 DEF Types
<1>2. CASE gotPerspective
  <2>1. ChannelOK'
    BY <1>2 DEF Types, ChannelOK, gotPerspective, loadVars
  <2>2. DoubtOK'
    BY <1>2, DoubtTypes DEF Types, gotPerspective
  <2> QED
    BY <1>2, <2>1, <2>2, Unchanged DEF Types, gotPerspective, hubVars, loadVars
<1> QED
  BY <1>1, <1>2

(* What a worker finds.                                                    *)
LEMMA WantedType ==
  ASSUME Types
  PROVE  /\ \A d \in Device : Wanted(d) \in Version
         /\ \A broken : getDeviceConfigs(broken) \in [Device -> Version]
         /\ NoAnswer \in [Device -> Version]
BY PropagationConstants
   DEF Types, ModelOK, Object, Wanted, getDeviceConfigs, NoAnswer, Version

(* The load is started and answered.                                       *)
LEMMA LoadingTypes ==
  ASSUME Types, doTask \/ Answer
  PROVE  Types'
<1>1. CASE doTask
  <2>1. PICK broken \in SUBSET Device :
          /\ Fault \/ UNCHANGED faults
          /\ IF connected
             THEN loader' = "answering" /\ answer' = getDeviceConfigs(broken)
                  /\ UNCHANGED registered
             ELSE registered' = FALSE /\ UNCHANGED <<loader, answer>>
          /\ raced' = broken /\ UNCHANGED suspect
    BY <1>1 DEF doTask
  <2>2. UNCHANGED <<db, changes, hubVars, connected, channel, todo, rebuild,
                    config, missed>>
        /\ loader = "idle"
    BY <1>1 DEF doTask
  <2>3. DoubtOK'
    BY <2>1 DEF Types, DoubtOK
  <2>4. ChannelOK'
    BY <2>1, <2>2 DEF Types, ChannelOK
  <2>5. answer' \in [Device -> Version] /\ registered' \in BOOLEAN
    BY <2>1, WantedType DEF Types, LoadOK
  <2>6. LoadOK'
    BY <2>2, <2>5 DEF Types, LoadOK
  <2>7. ModelOK' /\ WaitOK'
    BY <2>1, <2>2, FaultTypes DEF hubVars
  <2> QED
    BY <2>2, <2>3, <2>4, <2>6, <2>7, Unchanged DEF Types, hubVars
<1>2. CASE Answer
  <2> DEFINE m == [kind |-> "configs"]
             t == Append(channel, m)
  <2>1. /\ t \in Seq(Message) /\ Len(t) = Len(channel) + 1
        /\ Len(channel) \in Nat /\ t[Len(channel) + 1] = m
        /\ \A i \in 1..Len(channel) : t[i] = channel[i]
    BY Appended, MessageFields DEF Types, ChannelOK
  <2>2. channel' = t /\ loader = "answering" /\ loader' = "answered"
    BY <1>2 DEF Answer
  <2> HIDE DEF t
  <2>3. \A i \in 1..Len(t) : t[i].kind = "configs" => i = Len(channel) + 1
    BY <2>1, <2>2 DEF Types, ChannelOK
  <2>4. ChannelOK'
    BY <1>2, <2>1, <2>2, <2>3 DEF Types, ChannelOK, Answer
  <2>5. DoubtOK'
    BY <1>2, DoubtTypes DEF Types, Answer
  <2> QED
    BY <1>2, <2>4, <2>5, Unchanged DEF Types, Answer, hubVars
<1> QED
  BY <1>1, <1>2

(* A message is delivered.  One that is not an answer changes only what    *)
(* the collector has; an answer ends the waiting of the loader.            *)
LEMMA DeliverEffect ==
  ASSUME Types, Deliver
  PROVE  /\ Head(channel).kind \in {"update", "delete"} =>
              /\ config' = [config EXCEPT ![Head(channel).dev]
                                            = Head(channel).ver]
              /\ UNCHANGED loadVars
         /\ Head(channel).kind = "reconfigure" =>
              UNCHANGED <<registered, loader, answer, todo, config>>
              /\ rebuild' = TRUE
         /\ Head(channel).kind = "configs" =>
              /\ loader' \in {"idle", "applying"}
              /\ todo' = {d \in Device : answer[d] # 0}
              /\ UNCHANGED <<registered, answer, rebuild, config>>
<1> DEFINE m == Head(channel)
<1>1. CASE m.kind = "update"
  BY <1>1 DEF Deliver, remote_updateDeviceConfig
<1>2. CASE m.kind = "delete"
  <2>1. config' = [config EXCEPT ![m.dev] = 0] /\ UNCHANGED loadVars
    BY <1>2 DEF Deliver, remote_deleteDevice
  <2>2. m.ver = 0
    BY <1>2, MessageFields, Delivered DEF Deliver, Types, ChannelOK
  <2> QED
    BY <1>2, <2>1, <2>2
<1>3. CASE m.kind = "reconfigure"
  BY <1>3 DEF Deliver, remote_notifyConfigChanged
<1>4. CASE m.kind = "configs"
  BY <1>4 DEF Deliver, processConfig
<1> QED
  BY <1>1, <1>2, <1>3, <1>4

LEMMA DeliverTypes ==
  ASSUME Types, Deliver
  PROVE  Types'
<1> DEFINE m == Head(channel)
           t == Tail(channel)
<1>1. /\ m \in Message /\ m = channel[1] /\ 1 \in 1..Len(channel)
      /\ t \in Seq(Message) /\ Len(t) = Len(channel) - 1
      /\ Len(channel) \in Nat \ {0}
      /\ \A i \in 1..(Len(channel) - 1) : t[i] = channel[i + 1]
  BY Delivered DEF Types, ChannelOK, Deliver
<1>2. channel' = t /\ NoDoubt
      /\ UNCHANGED <<db, changes, hubVars, connected, faults, missed>>
  BY DEF Deliver
<1>3. DoubtOK'
  BY <1>2, DoubtTypes DEF Types
<1>4. m.kind \in {"update", "delete", "reconfigure", "configs"}
  BY <1>1, MessageFields
<1> HIDE DEF m, t
<1>5. \A i \in 1..Len(t) :
        i + 1 \in 1..Len(channel) /\ t[i] = channel[i + 1]
  BY <1>1
<1>6. connected
  BY DEF Deliver, Types, ChannelOK
<1>7. \A i \in 1..Len(t) :
        t[i].kind = "configs" =>
          /\ loader = "answered"
          /\ \A j \in 1..Len(t) : t[j].kind = "configs" => j = i
  <2> SUFFICES ASSUME NEW i \in 1..Len(t), t[i].kind = "configs"
               PROVE  /\ loader = "answered"
                      /\ \A j \in 1..Len(t) : t[j].kind = "configs" => j = i
    OBVIOUS
  <2>1. loader = "answered"
        /\ \A j \in 1..Len(t) : t[j].kind = "configs" => j + 1 = i + 1
    BY <1>5 DEF Types, ChannelOK
  <2> QED
    BY <2>1
<1>8. CASE m.kind \in {"update", "delete"}
  <2>1. config' = [config EXCEPT ![m.dev] = m.ver] /\ UNCHANGED loadVars
    BY <1>8, DeliverEffect DEF m
  <2>2. LoadOK'
    BY <1>1, <1>8, <2>1, MessageFields DEF Types, LoadOK, loadVars
  <2>3. ChannelOK'
    BY <1>1, <1>2, <1>5, <1>6, <1>7, <2>1 DEF Types, ChannelOK, loadVars
  <2> QED
    BY <1>2, <1>3, <2>2, <2>3, Unchanged DEF Types, hubVars
<1>9. CASE m.kind = "reconfigure"
  <2>1. UNCHANGED <<registered, loader, answer, todo, config>>
        /\ rebuild' = TRUE
    BY <1>9, DeliverEffect DEF m
  <2>2. LoadOK'
    BY <2>1 DEF Types, LoadOK
  <2>3. ChannelOK'
    BY <1>1, <1>2, <1>5, <1>6, <1>7, <2>1 DEF Types, ChannelOK
  <2> QED
    BY <1>2, <1>3, <2>2, <2>3, Unchanged DEF Types, hubVars
<1>10. CASE m.kind = "configs"
  <2>1. /\ loader' \in {"idle", "applying"}
        /\ todo' = {d \in Device : answer[d] # 0}
        /\ UNCHANGED <<registered, answer, rebuild, config>>
    BY <1>10, DeliverEffect DEF m
  <2>2. LoadOK'
    BY <2>1 DEF Types, LoadOK
  <2>3. \A i \in 1..Len(t) : t[i].kind # "configs"
    BY <1>1, <1>5, <1>10 DEF Types, ChannelOK
  <2>4. ChannelOK'
    BY <1>1, <1>2, <1>6, <2>1, <2>3 DEF Types, ChannelOK
  <2> QED
    BY <1>2, <1>3, <2>2, <2>4, Unchanged DEF Types, hubVars
<1> QED
  BY <1>4, <1>8, <1>9, <1>10

(* The collector applies what it was sent.                                 *)
LEMMA ApplyTypes ==
  ASSUME Types, UpdateNext \/ purgeOmittedDevices \/ rebuildConfig
  PROVE  Types'
<1>1. CASE UpdateNext
  <2>1. PICK d \in todo : config' = [config EXCEPT ![d] = answer[d]]
                          /\ todo' = todo \ {d}
    BY <1>1 DEF UpdateNext
  <2>2. LoadOK'
    BY <1>1, <2>1 DEF Types, LoadOK, UpdateNext
  <2>3. DoubtOK'
    BY <1>1, DoubtTypes DEF Types, UpdateNext
  <2> QED
    BY <1>1, <2>2, <2>3, Unchanged DEF Types, UpdateNext, hubVars
<1>2. CASE purgeOmittedDevices
  <2>1. LoadOK'
    BY <1>2, WantedType, PropagationConstants
       DEF Types, LoadOK, purgeOmittedDevices, Version
  <2>2. DoubtOK'
    BY <1>2 DEF Types, DoubtOK, purgeOmittedDevices
  <2>3. ChannelOK'
    BY <1>2 DEF Types, ChannelOK, purgeOmittedDevices
  <2> QED
    BY <1>2, <2>1, <2>2, <2>3, Unchanged
       DEF Types, purgeOmittedDevices, hubVars
<1>3. CASE rebuildConfig
  <2>1. LoadOK'
    BY <1>3 DEF Types, LoadOK, rebuildConfig
  <2>2. DoubtOK'
    BY <1>3, DoubtTypes DEF Types, rebuildConfig
  <2> QED
    BY <1>3, <2>1, <2>2, Unchanged DEF Types, rebuildConfig, hubVars
<1> QED
  BY <1>1, <1>2, <1>3

(* What it was sent cannot be applied.                                     *)
LEMMA ApplyFailsTypes ==
  ASSUME Types, DeliverFails \/ LoadFails
  PROVE  Types'
<1>1. CASE DeliverFails
  <2> DEFINE m == Head(channel)
             t == Tail(channel)
  <2>1. /\ m \in Message /\ m = channel[1] /\ 1 \in 1..Len(channel)
        /\ t \in Seq(Message) /\ Len(t) = Len(channel) - 1
        /\ Len(channel) \in Nat \ {0}
        /\ \A i \in 1..(Len(channel) - 1) : t[i] = channel[i + 1]
    BY <1>1, Delivered DEF Types, ChannelOK, DeliverFails
  <2>2. /\ channel' = t /\ m.kind = "update" /\ Doubt({m.dev})
        /\ UNCHANGED <<db, changes, hubVars, connected, loadVars, missed>>
    BY <1>1 DEF DeliverFails
  <2>3. PICK v \in {0, m.ver} : config' = [config EXCEPT ![m.dev] = v]
    BY <1>1 DEF DeliverFails
  <2>4. m.dev \in Device /\ v \in Version
    BY <2>1, <2>2, <2>3, MessageFields, PropagationConstants DEF Version
  <2>5. connected
    BY <1>1 DEF DeliverFails, Types, ChannelOK
  <2> HIDE DEF m, t
  <2>6. DoubtOK'
    BY <2>2, <2>4, DoubtTypes DEF Types
  <2>7. LoadOK'
    BY <2>2, <2>3, <2>4 DEF Types, LoadOK, loadVars
  <2>8. \A i \in 1..Len(t) :
          i + 1 \in 1..Len(channel) /\ t[i] = channel[i + 1]
    BY <2>1
  <2>9. \A i \in 1..Len(t) :
          t[i].kind = "configs" =>
            /\ loader = "answered"
            /\ \A j \in 1..Len(t) : t[j].kind = "configs" => j = i
    <3> SUFFICES ASSUME NEW i \in 1..Len(t), t[i].kind = "configs"
                 PROVE  /\ loader = "answered"
                        /\ \A j \in 1..Len(t) : t[j].kind = "configs" => j = i
      OBVIOUS
    <3>1. loader = "answered"
          /\ \A j \in 1..Len(t) : t[j].kind = "configs" => j + 1 = i + 1
      BY <2>8 DEF Types, ChannelOK
    <3> QED
      BY <3>1
  <2>10. ChannelOK'
    BY <2>1, <2>2, <2>5, <2>9 DEF Types, ChannelOK, loadVars
  <2>11. ModelOK' /\ WaitOK'
    BY <1>1, <2>2, FaultTypes DEF DeliverFails, hubVars
  <2> QED
    BY <2>2, <2>6, <2>7, <2>10, <2>11, Unchanged DEF Types, hubVars
<1>2. CASE LoadFails
  <2>1. /\ loader \in {"answering", "applying"} /\ loader' = "idle"
        /\ answer' = NoAnswer /\ todo' = {} /\ raced' = {}
        /\ UNCHANGED <<db, changes, hubVars, connected, channel, registered,
                       rebuild, missed>>
    BY <1>2 DEF LoadFails
  <2>2. ModelOK' /\ WaitOK' /\ BatchOK'
    BY <1>2, <2>1, FaultTypes, Unchanged DEF LoadFails, hubVars
  <2>3. config' \in [Device -> Version] /\ suspect' \subseteq Device
    <3>1. CASE UNCHANGED <<config, suspect>>
      BY <3>1 DEF Types, LoadOK, DoubtOK
    <3>2. CASE ~UNCHANGED <<config, suspect>>
      <4>1. PICK d \in todo :
              /\ \E v \in {0, answer[d]} : config' = [config EXCEPT ![d] = v]
              /\ suspect' = suspect \cup raced \cup {d}
        BY <1>2, <3>2 DEF LoadFails
      <4>2. d \in Device /\ {0, answer[d]} \subseteq Version
        BY PropagationConstants DEF Types, LoadOK, Version
      <4> QED
        BY <4>1, <4>2 DEF Types, LoadOK, DoubtOK
    <3> QED
      BY <3>1, <3>2
  <2>4. LoadOK' /\ DoubtOK'
    BY <2>1, <2>3, WantedType DEF Types, LoadOK, DoubtOK
  <2>5. ChannelOK'
    BY <2>1 DEF Types, ChannelOK
  <2> QED
    BY <2>2, <2>4, <2>5 DEF Types
<1> QED
  BY <1>1, <1>2

(* Every step.                                                             *)
LEMMA NextTypes ==
  ASSUME Types, [Next]_vars
  PROVE  Types'
<1>1. CASE UNCHANGED vars
  <2>1. DoubtOK'
    BY <1>1 DEF Types, DoubtOK, vars
  <2> QED
    BY <1>1, <2>1, Unchanged DEF Types, vars, hubVars, loadVars
<1>2. CASE Next
  BY <1>2, ModelTypes, PollTypes, DispatchTypes, DispatchFailsTypes,
     CallbackStepTypes, PushTypes, ReconfigureTypes, ConnectionTypes,
     LoadingTypes, DeliverTypes, ApplyTypes, ApplyFailsTypes
     DEF Next, processQueue, Hub, Pushing, Collector, Loading
<1> QED
  BY <1>1, <1>2

(* Every variable of the propagation keeps its type, and whatever fails,   *)
(* the notifier has exactly one timer when it has work; while nothing      *)
(* failed, a device that waits for its push has a timer too.               *)
THEOREM PropagationTypes == Spec => []TypeOK
<1>1. Init => Types
  BY InitTypes
<1>2. Types /\ [Next]_vars => Types'
  BY NextTypes
<1>3. Types => TypeOK
  BY TypesImply
<1> QED
  BY <1>1, <1>2, <1>3, PTL DEF Spec

-----------------------------------------------------------------------------
(* The doubts of a step never lessen.                                      *)
LEMMA Doubts ==
  ASSUME NEW d \in Device
  PROVE  /\ NoDoubt => (d \in suspect <=> d \in suspect')
                       /\ (d \in raced <=> d \in raced')
         /\ \A S : Doubt(S) =>
              /\ d \in suspect => d \in suspect'
              /\ loader # "idle" /\ d \in raced => d \in raced'
              /\ d \in S => /\ d \in suspect'
                            /\ loader # "idle" => d \in raced'
BY DEF NoDoubt, Doubt

(* The doubts about a device only grow in a step, which leaves the device  *)
(* as it is and as pending as it was, or pending or doubted: then, if it   *)
(* crosses a load, that is noted too.                                      *)
Grown(d) ==
  /\ d \in suspect => d \in suspect'
  /\ loader # "idle" /\ d \in raced => d \in raced'
Same(d) == Wanted(d)' = Wanted(d) /\ (Pending(d) => Pending(d)')
Crossed(d) ==
  (Pending(d)' \/ d \in suspect') /\ (loader # "idle" => d \in raced')

(* A step that sends nothing.                                              *)
LEMMA Carried ==
  ASSUME NEW d \in Device, Kept(d), Grown(d), Same(d) \/ Crossed(d),
         UNCHANGED <<channel, loader, todo, answer, config>>
  PROVE  Kept(d)'
<1>1. CASE Same(d)
  <2>1. Arrives(d) => Arrives(d)'
    BY <1>1 DEF Arrives, Same
  <2> QED
    BY <1>1, <2>1 DEF Kept, Grown, Same
<1>2. CASE Crossed(d)
  BY <1>2 DEF Kept, Crossed, Grown, Arrives
<1> QED
  BY <1>1, <1>2

(* A step that sends a message, right or followed by another if it is      *)
(* about the device.                                                       *)
LEMMA Sent ==
  ASSUME ChannelOK, NEW d \in Device, Kept(d), Grown(d),
         NEW m \in Message, Send(m),
         UNCHANGED <<loader, todo, answer, config>>,
         \/ Same(d) /\ (connected => ~About(m, d))
         \/ /\ connected /\ About(m, d) /\ Wanted(d)' = Wanted(d)
            /\ Pending(d)' \/ m.ver = Wanted(d)
         \/ Crossed(d)
  PROVE  Kept(d)'
<1>1. CASE Crossed(d)
  BY <1>1 DEF Kept, Crossed, Grown, Arrives
<1>2. CASE ~connected /\ Same(d)
  BY <1>2, Carried DEF Send
<1>3. CASE connected /\ ~About(m, d) /\ Same(d)
  <2>1. channel' = Append(channel, m) /\ channel \in Seq(Message)
    BY <1>3 DEF Send, ChannelOK
  <2>2. Wanted(d)' = Wanted(d)
    BY <1>3 DEF Same
  <2>3. /\ Says(channel, d, Wanted(d)) => Says(channel', d, Wanted(d)')
        /\ SaysAfter(channel, d, Wanted(d))
             => SaysAfter(channel', d, Wanted(d)')
        /\ Leads(channel, d, Wanted(d), config[d])
             => Leads(channel', d, Wanted(d)', config'[d])
    BY <1>3, <2>1, <2>2, SentOther
  <2>4. Arrives(d) => Arrives(d)'
    BY <1>3, <2>3 DEF Arrives, Same
  <2> QED
    BY <1>3, <2>3, <2>4 DEF Kept, Grown, Same
<1>4. CASE /\ connected /\ About(m, d) /\ Wanted(d)' = Wanted(d)
           /\ Pending(d)' \/ m.ver = Wanted(d)
  <2>1. channel' = Append(channel, m) /\ channel \in Seq(Message)
    BY <1>4 DEF Send, ChannelOK
  <2>2. \/ Pending(d)'
        \/ /\ Says(channel', d, Wanted(d)')
           /\ SaysAfter(channel', d, Wanted(d)')
           /\ Leads(channel', d, Wanted(d)', config'[d])
    BY <1>4, <2>1, SentAbout
  <2>3. Arrives(d)'
    BY <2>2 DEF Arrives
  <2> QED
    BY <1>4, <2>2, <2>3 DEF Kept, Grown
<1> QED
  BY <1>1, <1>2, <1>3, <1>4

(* The hub sees what it saw, of what there is.                             *)
LEMMA SeenStill ==
  ASSUME NEW d \in Device, Seen(d),
         UNCHANGED <<db, view, dirty, polling, missed>>
  PROVE  Seen(d)'
BY DEF Seen, Due

(* At the start every device is suspect.                                   *)
LEMMA InitKept ==
  ASSUME Init, NEW d \in Device
  PROVE  Seen(d) /\ Kept(d)
BY DEF Init, Seen, Kept

(* A change of the model.                                                  *)
LEMMA ChangedKept ==
  ASSUME NEW d \in Device, Seen(d), Kept(d),
         NEW new, NEW S, NEW cost, Changed(new, S, cost),
         \/ new[d] = db[d] \/ (d \in S /\ db[d].place # "gone")
         \/ Class \in S /\ db[d].place = "here" /\ new[d].place = "here"
  PROVE  Seen(d)' /\ Kept(d)'
<1>1. /\ db' = new /\ dirty' = dirty \cup S
      /\ raced' = IF loader = "idle" THEN {} ELSE raced \cup Affected(S)
      /\ missed' = IF polling THEN missed \cup Affected(S) ELSE missed
      /\ UNCHANGED <<view, polling, oids, waitVars, batchVars, reconfig,
                     connected, channel, faults, loadVars, config, suspect>>
  BY DEF Changed
<1>2. Seen(d)'
  <2>1. d \in S \/ Class \in S => d \in Affected(S)
    BY DEF Affected
  <2>2. CASE new[d] = db[d]
    BY <1>1, <2>2 DEF Seen, Due
  <2>3. CASE new[d] # db[d]
    <3>1. /\ d \in Affected(S) /\ db[d].place # "gone"
          /\ d \in S \/ (Class \in S /\ new[d].place = "here")
      BY <2>1, <2>3
    <3>2. view[d].place # "gone"
      BY <3>1 DEF Seen
    <3> QED
      BY <1>1, <3>1, <3>2 DEF Seen, Due
  <2> QED
    BY <2>2, <2>3
<1>3. Grown(d)
  BY <1>1 DEF Grown
<1>4. new[d] = db[d] => Same(d)
  BY <1>1 DEF Same, Wanted, Pending, Told, ClassTold, waitVars, batchVars
<1>5. d \in S \/ (Class \in S /\ new[d].place = "here") => Crossed(d)
  <2>1. d \in S \/ Class \in S => d \in Affected(S)
    BY DEF Affected
  <2> QED
    BY <1>1, <2>1 DEF Crossed, Pending, Told, ClassTold
<1>6. Same(d) \/ Crossed(d)
  BY <1>4, <1>5
<1> QED
  BY <1>1, <1>2, <1>3, <1>6, Carried DEF loadVars

LEMMA ModelKept ==
  ASSUME NEW d \in Device, Seen(d), Kept(d), Types,
         ChangeDevice \/ ChangeClass \/ ChangePrefs
  PROVE  Seen(d)' /\ Kept(d)'
<1>1. CASE ChangeDevice
  <2>1. PICK c \in Movable, n \in Moves :
          /\ db[c].place = n[1]
          /\ Changed([db EXCEPT ![c] =
                        [ver |-> CASE n[2] = "here" -> changes + 2
                                   [] n[2] = "gone" -> @.ver
                                   [] OTHER -> 0,
                         place |-> n[2]]], {c}, 1)
    BY <1>1 DEF ChangeDevice
  <2> DEFINE e == [ver |-> CASE n[2] = "here" -> changes + 2
                             [] n[2] = "gone" -> db[c].ver
                             [] OTHER -> 0,
                   place |-> n[2]]
  <2> HIDE DEF e
  <2>2. Changed([db EXCEPT ![c] = e], {c}, 1)
    BY <2>1 DEF e
  <2>3. [db EXCEPT ![c] = e][d] = db[d] \/ (d = c /\ db[d].place # "gone")
    <3>1. db[c].place # "gone"
      BY <2>1 DEF Moves
    <3> QED
      BY <3>1 DEF Types, ModelOK
  <2> QED
    BY <2>2, <2>3, ChangedKept
<1>2. CASE ChangeClass
  <2> DEFINE new == [c \in Device |-> IF db[c].place = "here"
                                      THEN [db[c] EXCEPT !.ver = changes + 2]
                                      ELSE db[c]]
  <2>1. Changed(new, {Class}, 2)
    BY <1>2 DEF ChangeClass
  <2>2. new[d] = db[d] \/ (db[d].place = "here" /\ new[d].place = "here")
    BY DEF Types, ModelOK, Object
  <2> QED
    BY <2>1, <2>2, ChangedKept
<1>3. CASE ChangePrefs
  <2>1. Changed(db, {Prefs}, 2)
    BY <1>3 DEF ChangePrefs
  <2> QED
    BY <2>1, ChangedKept
<1> QED
  BY <1>1, <1>2, <1>3

LEMMA PollKept ==
  ASSUME NEW d \in Device, Seen(d), Kept(d),
         Sync \/ Poll \/ PausedPoll \/ UnsyncedPoll
  PROVE  Seen(d)' /\ Kept(d)'
<1>1. d \notin Affected(dirty) => d \notin dirty /\ Class \notin dirty
  BY DEF Affected
<1>2. CASE Sync
  <2>1. Seen(d)'
    BY <1>2 DEF Sync, Seen
  <2>2. Grown(d)
    BY <1>2, Doubts DEF Sync, Grown
  <2>3. Same(d)
    BY <1>2 DEF Sync, Same, Wanted, Pending, Told, ClassTold, waitVars,
                batchVars
  <2> QED
    BY <1>2, <2>1, <2>2, <2>3, Carried DEF Sync, loadVars
<1>3. CASE Poll
  <2>1. Seen(d)'
    BY <1>3 DEF Poll, Seen
  <2>2. Grown(d)
    BY <1>3, Doubts DEF Poll, Grown
  <2>3. Same(d)
    BY <1>3 DEF Poll, Same, Wanted, Pending, Told, ClassTold, waitVars,
                batchVars
  <2> QED
    BY <1>3, <2>1, <2>2, <2>3, Carried DEF Poll, loadVars
<1>4. CASE PausedPoll
  <2>1. Seen(d)'
    BY <1>4 DEF PausedPoll, Seen
  <2>2. Grown(d)
    BY <1>4, Doubts DEF PausedPoll, Grown
  <2>3. d \in Affected(dirty) => Crossed(d)
    BY <1>4, Doubts DEF PausedPoll, Crossed
  <2>4. d \notin dirty /\ Class \notin dirty => Same(d)
    BY <1>4 DEF PausedPoll, Same, Wanted, Pending, Told, ClassTold, waitVars,
                batchVars
  <2>5. Same(d) \/ Crossed(d)
    BY <1>1, <2>3, <2>4
  <2> QED
    BY <1>4, <2>1, <2>2, <2>5, Carried DEF PausedPoll, loadVars
<1>5. CASE UnsyncedPoll
  <2>1. Seen(d)'
    BY <1>1, <1>5 DEF UnsyncedPoll, Seen, Due
  <2>2. Grown(d)
    BY <1>5, Doubts DEF UnsyncedPoll, Grown
  <2>3. Same(d)
    BY <1>5 DEF UnsyncedPoll, Same, Wanted, Pending, Told, ClassTold,
                waitVars, batchVars
  <2> QED
    BY <1>5, <2>1, <2>2, <2>3, Carried DEF UnsyncedPoll, loadVars
<1> QED
  BY <1>2, <1>3, <1>4, <1>5

(* An object leaves the line, and what it asks for is begun.               *)
LEMMA DispatchKept ==
  ASSUME NEW d \in Device, Seen(d), Kept(d), Types, Dispatch
  PROVE  Seen(d)' /\ Kept(d)'
<1>1. PICK o \in oids : oids' = oids \ {o} /\ dispatch(o)
  BY DEF Dispatch
<1>2. UNCHANGED <<db, changes, view, dirty, polling, connected, faults,
                  loadVars, config, missed>>
  BY DEF Dispatch
<1>3. Seen(d)'
  BY <1>2, SeenStill
<1>4. d # Class /\ d # Prefs
  BY PropagationConstants
<1>5. CASE o = Class
  <2>1. /\ Batch!notify_subdevices /\ NoDoubt
        /\ UNCHANGED <<waitVars, reconfig, channel>>
    BY <1>1, <1>5 DEF dispatch
  <2>2. Grown(d)
    BY <2>1, Doubts DEF Grown
  <2>3. queued' > 0 /\ UNCHANGED <<current, rest>>
    BY <2>1 DEF Batch!notify_subdevices, Types, BatchOK, Batch!TypeOK
  <2>4. Same(d)
    BY <1>1, <1>2, <1>4, <1>5, <2>1, <2>3
       DEF Same, Wanted, Pending, Told, ClassTold, waitVars
  <2> QED
    BY <1>2, <1>3, <2>1, <2>2, <2>4, Carried DEF loadVars
<1>6. CASE o # Class /\ o = Prefs
  <2>1. NoDoubt /\ UNCHANGED <<waitVars, batchVars, channel>>
    BY <1>1, <1>6 DEF dispatch
  <2>2. Grown(d)
    BY <2>1, Doubts DEF Grown
  <2>3. Same(d)
    BY <1>1, <1>2, <1>4, <1>6, <2>1
       DEF Same, Wanted, Pending, Told, ClassTold, waitVars, batchVars
  <2> QED
    BY <1>2, <1>3, <2>1, <2>2, <2>3, Carried DEF loadVars
<1>7. CASE o # Class /\ o # Prefs /\ view[o].place = "gone"
  <2> DEFINE m == [kind |-> "delete", dev |-> o, ver |-> 0]
  <2>1. /\ Send(m) /\ (IF connected THEN NoDoubt ELSE Doubt({o}))
        /\ UNCHANGED <<waitVars, batchVars, reconfig>>
    BY <1>1, <1>7 DEF dispatch
  <2>2. o \in Device /\ m \in Message
    BY <1>7, MessageFields DEF Types, ModelOK, Oid
  <2>3. m.ver = 0 /\ (About(m, d) <=> o = d)
    BY DEF About
  <2> HIDE DEF m
  <2>4. Grown(d)
    BY <2>1, Doubts DEF Grown
  <2>5. Wanted(d)' = Wanted(d)
    BY <1>2 DEF Wanted
  <2>6. Pending(d) /\ o # d => Pending(d)'
    BY <1>1, <1>2, <1>7, <2>1
       DEF Pending, Told, ClassTold, waitVars, batchVars
  <2>7. CASE o # d
    BY <1>2, <1>3, <2>1, <2>2, <2>3, <2>4, <2>5, <2>6, <2>7, Sent
       DEF Types, Same, loadVars
  <2>8. CASE o = d /\ ~connected
    <3>1. Crossed(d)
      BY <2>1, <2>8, Doubts DEF Crossed
    <3> QED
      BY <1>2, <1>3, <2>1, <2>2, <2>4, <3>1, Sent DEF Types, loadVars
  <2>9. CASE o = d /\ connected
    <3>1. m.ver = Wanted(d)
      BY <1>7, <2>3, <2>9 DEF Seen, Wanted
    <3> QED
      BY <1>2, <1>3, <2>1, <2>2, <2>3, <2>4, <2>5, <2>9, <3>1, Sent
         DEF Types, loadVars
  <2> QED
    BY <2>7, <2>8, <2>9
<1>8. CASE o # Class /\ o # Prefs /\ view[o].place # "gone"
  <2>1. /\ Wait!doLater({o}) /\ NoDoubt
        /\ UNCHANGED <<batchVars, reconfig, channel>>
    BY <1>1, <1>8 DEF dispatch
  <2>2. Grown(d)
    BY <2>1, Doubts DEF Grown
  <2>3. waiting' = waiting \cup {o} /\ later'
    BY <2>1 DEF Wait!doLater
  <2>4. Same(d)
    BY <1>1, <1>2, <1>8, <2>1, <2>3
       DEF Same, Wanted, Pending, Told, ClassTold, batchVars
  <2> QED
    BY <1>2, <1>3, <2>1, <2>2, <2>4, Carried DEF loadVars
<1> QED
  BY <1>5, <1>6, <1>7, <1>8

LEMMA DispatchFailsKept ==
  ASSUME NEW d \in Device, Seen(d), Kept(d), DispatchFails
  PROVE  Seen(d)' /\ Kept(d)'
<1>1. Seen(d)'
  BY SeenStill DEF DispatchFails
<1>2. Grown(d)
  BY Doubts DEF DispatchFails, Grown
<1>3. d \in Affected(oids) => Crossed(d)
  BY Doubts DEF DispatchFails, Crossed
<1>4. d \notin Affected(oids) => d \notin oids /\ Class \notin oids
  BY DEF Affected
<1>5. d \notin oids /\ Class \notin oids => Same(d)
  BY DEF DispatchFails, Same, Wanted, Pending, Told, ClassTold, waitVars,
         batchVars
<1>6. Same(d) \/ Crossed(d)
  BY <1>3, <1>4, <1>5
<1> QED
  BY <1>1, <1>2, <1>6, Carried DEF DispatchFails, loadVars

(* A batch of the class's devices begins to wait; those left are pending.  *)
LEMMA CallbackKept ==
  ASSUME NEW d \in Device, Seen(d), Kept(d), Types, BatchCallback
  PROVE  Seen(d)' /\ Kept(d)'
<1> DEFINE devices == {e \in Device : view[e].place # "gone"}
<1>1. PICK batch \in SUBSET Device, raises \in BOOLEAN :
        /\ Batch!callback(devices, batch, raises)
        /\ Wait!doLater(batch)
        /\ IF raises THEN Doubt(Device) ELSE NoDoubt
        /\ UNCHANGED <<db, changes, view, dirty, polling, oids, reconfig,
                       connected, channel, loadVars, config, missed>>
  BY DEF BatchCallback
<1>2. Seen(d)'
  BY <1>1, SeenStill
<1>3. Grown(d)
  BY <1>1, Doubts DEF Grown
<1>4. /\ waiting' = waiting \cup batch /\ (later => later')
      /\ d \in batch => later'
      /\ nows' = nows
  BY <1>1 DEF Wait!doLater
<1>5. CASE raises
  <2>1. Crossed(d)
    BY <1>1, <1>5, Doubts DEF Crossed
  <2> QED
    BY <1>1, <1>2, <1>3, <2>1, Carried DEF loadVars
<1>6. CASE ~raises
  <2>1. Told(d) => Told(d)'
    BY <1>1, <1>4 DEF Told
  <2>2. d \in batch => Told(d)'
    BY <1>4 DEF Told
  <2>3. ASSUME db[d].place = "here", ClassTold(d),
               ~(d \in dirty \/ Class \in dirty \cup oids)
        PROVE  Pending(d)'
    <3>1. d \in devices
      BY <2>3 DEF Seen
    <3>2. queued > 0 \/ current = "new" \/ (current = "begun" /\ d \in rest)
      BY <2>3 DEF ClassTold
    <3> DEFINE n == IF current = "none" THEN queued - 1 ELSE queued
               found == IF current = "begun" THEN rest ELSE devices
               item == IF n > 0 THEN "new" ELSE "none"
               left == IF n > 0 THEN n - 1 ELSE 0
    <3>3. \/ Batch!Continue("begun", found \ batch, n)
          \/ batch = found
             /\ Batch!Continue(item, {}, left)
      BY <1>1, <1>6 DEF Batch!callback
    <3>4. d \in found \/ n > 0
      BY <3>1, <3>2
    <3>5. n > 0 => item = "new"
      OBVIOUS
    <3> HIDE DEF n, found, item, left
    <3>6. ASSUME Batch!Continue("begun", found \ batch, n)
          PROVE  Told(d)' \/ ClassTold(d)'
      <4>1. current' = "begun" /\ rest' = found \ batch /\ queued' = n
        BY <3>6 DEF Batch!Continue
      <4> QED
        BY <3>4, <4>1, <2>2 DEF ClassTold
    <3>7. ASSUME batch = found, Batch!Continue(item, {}, left)
          PROVE  Told(d)' \/ ClassTold(d)'
      <4>1. current' = item
        BY <3>7 DEF Batch!Continue
      <4> QED
        BY <3>4, <3>5, <3>7, <4>1, <2>2 DEF ClassTold
    <3>8. Told(d)' \/ ClassTold(d)'
      BY <3>3, <3>6, <3>7
    <3> QED
      BY <1>1, <2>3, <3>8 DEF Pending
  <2>4. ASSUME db[d].place = "here",
               d \in dirty \/ Class \in dirty \cup oids
        PROVE  Pending(d)'
    BY <1>1, <2>4 DEF Pending, Told, ClassTold
  <2>5. Pending(d) => Pending(d)'
    BY <2>1, <2>3, <2>4 DEF Pending
  <2>6. Same(d)
    BY <1>1, <2>5 DEF Same, Wanted
  <2> QED
    BY <1>1, <1>2, <1>3, <2>6, Carried DEF loadVars
<1> QED
  BY <1>5, <1>6

(* The rest wait on, with a timer, when one device is pushed.              *)
LEMMA DoNowWaits ==
  ASSUME NEW d \in Device, NEW c \in Device, c # d, WaitOK,
         Wait!doNow({c}, FALSE), UNCHANGED <<dirty, oids>>
  PROVE  Told(d) => Told(d)'
<1>1. d \in waiting => d \in waiting' /\ waiting' # {}
  BY DEF Wait!doNow
<1>2. waiting' # {} => nows' > 0
  BY DEF Wait!doNow, WaitOK, Wait!TypeOK
<1> QED
  BY <1>1, <1>2 DEF Told

LEMMA PushKept ==
  ASSUME NEW d \in Device, Seen(d), Kept(d), Types, Push
  PROVE  Seen(d)' /\ Kept(d)'
<1> DEFINE Right(c, b) == /\ connected /\ ~b /\ c \notin missed
                          /\ view[c].place \in {"here", "near"}
<1>1. PICK c \in waiting, b \in BOOLEAN :
        /\ Wait!doNow({c}, FALSE)
        /\ IF Pushes(c, b) = {} THEN UNCHANGED channel
           ELSE \E m \in Pushes(c, b) : Send(m)
        /\ IF Right(c, b) THEN NoDoubt ELSE Doubt({c})
  BY DEF Push
<1>2. UNCHANGED <<db, changes, view, dirty, polling, oids, batchVars,
                  reconfig, connected, loadVars, config, missed>>
  BY DEF Push
<1>3. c \in Device
  BY DEF Types, WaitOK, Wait!TypeOK
<1>4. Seen(d)'
  BY <1>2, SeenStill
<1>5. Grown(d)
  BY <1>1, Doubts DEF Grown
<1>6. Wanted(d)' = Wanted(d)
  BY <1>2 DEF Wanted
<1>7. /\ ClassTold(d) => ClassTold(d)'
      /\ d \in dirty \cup oids => Told(d)'
  BY <1>2 DEF ClassTold, Told, batchVars
<1>8. CASE c # d
  <2>1. Same(d)
    BY <1>1, <1>2, <1>3, <1>6, <1>7, <1>8, DoNowWaits
       DEF Same, Pending, Types
  <2>2. CASE Pushes(c, b) = {}
    BY <1>1, <1>2, <1>4, <1>5, <2>1, <2>2, Carried DEF loadVars
  <2>3. CASE Pushes(c, b) # {}
    <3>1. PICK m \in Pushes(c, b) : Send(m)
      BY <1>1, <2>3
    <3>2. m \in Message /\ ~About(m, d)
      BY <1>3, <1>8, PushesTypes DEF About
    <3> QED
      BY <1>2, <1>4, <1>5, <2>1, <3>1, <3>2, Sent DEF Types, loadVars
  <2> QED
    BY <2>2, <2>3
<1>9. CASE c = d /\ Right(d, b)
  <2>1. PICK m \in Pushes(d, b) : Send(m)
    BY <1>1, <1>9 DEF Pushes
  <2>2. /\ m \in Message /\ About(m, d)
        /\ view[d].place = "here" => m.ver = view[d].ver
        /\ view[d].place = "near" => m.ver = 0
    BY <1>9, <2>1, PushesTypes
  <2>3. CASE view[d] = db[d]
    <3>1. m.ver = Wanted(d)
      BY <1>9, <2>2, <2>3 DEF Wanted
    <3> QED
      BY <1>2, <1>4, <1>5, <1>6, <1>9, <2>1, <2>2, <3>1, Sent
         DEF Types, loadVars
  <2>4. CASE view[d] # db[d]
    <3>1. Pending(d)'
      BY <1>2, <1>7, <1>9, <2>4 DEF Seen, Due, Pending, ClassTold
    <3> QED
      BY <1>2, <1>4, <1>5, <1>6, <1>9, <2>1, <2>2, <3>1, Sent
         DEF Types, loadVars
  <2> QED
    BY <2>3, <2>4
<1>10. CASE c = d /\ ~Right(d, b)
  <2>1. Crossed(d)
    BY <1>1, <1>10, Doubts DEF Crossed
  <2>2. CASE Pushes(c, b) = {}
    BY <1>1, <1>2, <1>4, <1>5, <2>1, <2>2, Carried DEF loadVars
  <2>3. CASE Pushes(c, b) # {}
    <3>1. PICK m \in Pushes(c, b) : Send(m)
      BY <1>1, <2>3
    <3>2. m \in Message
      BY <1>3, PushesTypes
    <3> QED
      BY <1>2, <1>4, <1>5, <2>1, <3>1, <3>2, Sent DEF Types, loadVars
  <2> QED
    BY <2>2, <2>3
<1> QED
  BY <1>8, <1>9, <1>10

(* Pushes that raise, and timers that find nothing.                        *)
LEMMA NoPushKept ==
  ASSUME NEW d \in Device, Seen(d), Kept(d), Types, PushFails \/ PushNothing
  PROVE  Seen(d)' /\ Kept(d)'
<1>1. CASE PushFails
  <2>1. Seen(d)'
    BY <1>1, SeenStill DEF PushFails
  <2>2. Grown(d)
    BY <1>1, Doubts DEF PushFails, Grown
  <2>3. d \in waiting => Crossed(d)
    BY <1>1, Doubts DEF PushFails, Crossed
  <2>4. d \notin waiting => Same(d)
    BY <1>1 DEF PushFails, Same, Wanted, Pending, Told, ClassTold, batchVars
  <2>5. Same(d) \/ Crossed(d)
    BY <2>3, <2>4
  <2> QED
    BY <1>1, <2>1, <2>2, <2>5, Carried DEF PushFails, loadVars
<1>2. CASE PushNothing
  <2>1. Seen(d)'
    BY <1>2, SeenStill DEF PushNothing
  <2>2. Grown(d)
    BY <1>2, Doubts DEF PushNothing, Grown
  <2>3. Same(d)
    BY <1>2 DEF PushNothing, Same, Wanted, Pending, Told, ClassTold, batchVars
  <2> QED
    BY <1>2, <2>1, <2>2, <2>3, Carried DEF PushNothing, loadVars
<1> QED
  BY <1>1, <1>2

LEMMA ReconfigureKept ==
  ASSUME NEW d \in Device, Seen(d), Kept(d), Types, pushReconfigure
  PROVE  Seen(d)' /\ Kept(d)'
<1> DEFINE m == [kind |-> "reconfigure"]
<1>1. m \in Message /\ ~About(m, d)
  BY MessageFields DEF About
<1>2. Send(m) /\ UNCHANGED loadVars /\ UNCHANGED config
  BY DEF pushReconfigure
<1> HIDE DEF m
<1>3. Seen(d)'
  BY SeenStill DEF pushReconfigure
<1>4. Grown(d)
  BY Doubts DEF pushReconfigure, Grown
<1>5. Same(d)
  BY DEF pushReconfigure, Same, Wanted, Pending, Told, ClassTold, waitVars,
         batchVars
<1> QED
  BY <1>1, <1>2, <1>3, <1>4, <1>5, Sent DEF Types, loadVars

(* The connection is lost with what is on it; what was on it is doubted.   *)
LEMMA ConnectionKept ==
  ASSUME NEW d \in Device, Seen(d), Kept(d), Types,
         ConnectionLost \/ gotPerspective
  PROVE  Seen(d)' /\ Kept(d)'
<1>1. CASE ConnectionLost
  <2> DEFINE lost == {channel[i].dev :
                        i \in {k \in 1..Len(channel) :
                                 channel[k].kind \in {"update", "delete"}}}
  <2>1. /\ channel' = <<>> /\ Doubt(lost)
        /\ UNCHANGED <<db, hubVars, todo, config, missed>>
        /\ \/ /\ loader \in {"answering", "answered"} /\ loader' = "idle"
           \/ /\ loader \notin {"answering", "answered"}
              /\ UNCHANGED <<loader, answer>>
    BY <1>1 DEF ConnectionLost
  <2>2. Seen(d)'
    BY <2>1, SeenStill DEF hubVars
  <2>3. Wanted(d)' = Wanted(d) /\ (Pending(d) => Pending(d)')
    BY <2>1
       DEF Wanted, Pending, Told, ClassTold, hubVars, waitVars, batchVars
  <2>4. d \notin lost => None(channel, d)
    BY DEF None, About
  <2> HIDE DEF lost
  <2>5. CASE d \in lost
    <3>1. d \in suspect' /\ (loader # "idle" => d \in raced')
      BY <2>1, <2>5, Doubts
    <3> QED
      BY <2>1, <2>2, <3>1 DEF Kept, Types, ChannelOK
  <2>6. CASE None(channel, d)
    <3>1. /\ d \in suspect => d \in suspect'
          /\ loader # "idle" /\ d \in raced => d \in raced'
      BY <2>1, Doubts
    <3>2. Leads(channel, d, Wanted(d), config[d])
            => Leads(channel', d, Wanted(d)', config'[d])
      BY <2>1, <2>3, <2>6, NothingSent DEF Leads
    <3>3. Arrives(d) => Arrives(d)'
      BY <2>3, <3>2 DEF Arrives
    <3>4. Says(channel', d, Wanted(d)')
      BY <2>1, NothingSent
    <3> QED
      BY <2>1, <2>2, <2>3, <3>1, <3>3, <3>4 DEF Kept, Types, ChannelOK
  <2> QED
    BY <2>4, <2>5, <2>6
<1>2. CASE gotPerspective
  <2>1. Seen(d)'
    BY <1>2, SeenStill DEF gotPerspective, hubVars
  <2>2. Grown(d)
    BY <1>2, Doubts DEF gotPerspective, Grown
  <2>3. Same(d)
    BY <1>2 DEF gotPerspective, Same, Wanted, Pending, Told, ClassTold,
                hubVars, waitVars, batchVars
  <2> QED
    BY <1>2, <2>1, <2>2, <2>3, Carried DEF gotPerspective, loadVars
<1> QED
  BY <1>1, <1>2

(* What leaves the hub's part alone leaves a device as it is.              *)
LEMMA HubStill ==
  ASSUME NEW d \in Device, Seen(d), UNCHANGED <<db, hubVars, missed>>
  PROVE  Seen(d)' /\ Wanted(d)' = Wanted(d) /\ (Pending(d) <=> Pending(d)')
<1>1. Seen(d)'
  BY SeenStill DEF hubVars
<1>2. Wanted(d)' = Wanted(d) /\ (Pending(d) <=> Pending(d)')
  BY DEF Wanted, Pending, Told, ClassTold, hubVars, waitVars, batchVars
<1> QED
  BY <1>1, <1>2

(* A worker looks, and answers.                                            *)
LEMMA LoadingKept ==
  ASSUME NEW d \in Device, Seen(d), Kept(d), Types, doTask \/ Answer
  PROVE  Seen(d)' /\ Kept(d)'
<1>1. CASE doTask
  <2>1. /\ loader = "idle" /\ suspect' = suspect
        /\ UNCHANGED <<db, hubVars, channel, config, missed>>
        /\ \/ loader' = "answering" /\ answer' = getDeviceConfigs(raced')
           \/ loader' = "idle"
    BY <1>1 DEF doTask
  <2>2. Seen(d)' /\ Wanted(d)' = Wanted(d) /\ (Pending(d) <=> Pending(d)')
    BY <2>1, HubStill
  <2>3. answer' = getDeviceConfigs(raced') /\ d \notin raced'
          => answer'[d] = Wanted(d)
    BY DEF getDeviceConfigs
  <2>4. Arrives(d) => Arrives(d)'
    BY <2>1, <2>2 DEF Arrives
  <2> QED
    BY <2>1, <2>2, <2>3, <2>4 DEF Kept
<1>2. CASE Answer
  <2> DEFINE m == [kind |-> "configs"]
  <2>1. /\ loader = "answering" /\ loader' = "answered" /\ NoDoubt
        /\ channel' = Append(channel, m)
        /\ UNCHANGED <<db, hubVars, config, answer, missed>>
    BY <1>2 DEF Answer
  <2>2. Seen(d)' /\ Wanted(d)' = Wanted(d) /\ (Pending(d) <=> Pending(d)')
    BY <2>1, HubStill
  <2>3. m \in Message /\ ~About(m, d) /\ channel \in Seq(Message)
    BY MessageFields DEF About, Types, ChannelOK
  <2> HIDE DEF m
  <2>4. SaysAfter(channel, d, Wanted(d))
    BY <2>1 DEF Types, ChannelOK, SaysAfter
  <2>5. /\ SaysAfter(channel', d, Wanted(d)')
        /\ Leads(channel, d, Wanted(d), config[d])
             => Leads(channel', d, Wanted(d)', config'[d])
    BY <2>1, <2>2, <2>3, <2>4, SentOther
  <2>6. Arrives(d) => Arrives(d)'
    BY <2>2, <2>5 DEF Arrives
  <2>7. d \in suspect' <=> d \in suspect
    BY <2>1, Doubts
  <2>8. d \in raced' <=> d \in raced
    BY <2>1, Doubts
  <2> QED
    BY <2>1, <2>2, <2>5, <2>6, <2>7, <2>8 DEF Kept
<1> QED
  BY <1>1, <1>2

(* A message arrives.                                                      *)
LEMMA DeliverKept ==
  ASSUME NEW d \in Device, Seen(d), Kept(d), Types, Deliver
  PROVE  Seen(d)' /\ Kept(d)'
<1> DEFINE m == Head(channel)
<1>1. /\ channel # <<>> /\ channel' = Tail(channel) /\ NoDoubt
      /\ UNCHANGED <<db, hubVars, missed>>
  BY DEF Deliver
<1>2. Seen(d)' /\ Wanted(d)' = Wanted(d) /\ (Pending(d) <=> Pending(d)')
  BY <1>1, HubStill
<1>3. (d \in suspect' <=> d \in suspect) /\ (d \in raced' <=> d \in raced)
  BY <1>1, Doubts
<1>4. channel \in Seq(Message) /\ m \in Message /\ m = channel[1]
      /\ 1 \in 1..Len(channel)
  BY <1>1, Delivered DEF Types, ChannelOK
<1>5. /\ Says(channel, d, Wanted(d)) => Says(channel', d, Wanted(d)')
      /\ Leads(channel, d, Wanted(d), config[d])
           => Leads(channel', d, Wanted(d)',
                    IF About(m, d) THEN m.ver ELSE config[d])
      /\ SaysAfter(channel, d, Wanted(d))
           => SaysAfter(channel', d, Wanted(d)')
      /\ SaysAfter(channel, d, Wanted(d)) /\ m.kind = "configs"
           => Says(channel', d, Wanted(d)')
  BY <1>1, <1>2, <1>4, Taken
<1>6. m.kind \in {"update", "delete", "reconfigure", "configs"}
      /\ (m.kind \in {"update", "delete"} => m.dev \in Device)
  BY <1>4, MessageFields
<1>7. config'[d] = IF About(m, d) THEN m.ver ELSE config[d]
  <2>1. CASE m.kind \in {"update", "delete"}
    <3>1. config' = [config EXCEPT ![m.dev] = m.ver]
      BY <2>1, DeliverEffect
    <3> QED
      BY <1>6, <2>1, <3>1 DEF About, Types, LoadOK
  <2>2. CASE m.kind \in {"reconfigure", "configs"}
    BY <2>2, DeliverEffect DEF About
  <2> QED
    BY <1>6, <2>1, <2>2
<1>8. Arrives(d) => Arrives(d)'
  BY <1>2, <1>5, <1>7 DEF Arrives
<1>9. CASE m.kind # "configs"
  <2>1. UNCHANGED <<loader, todo, answer>>
    BY <1>6, <1>9, DeliverEffect DEF loadVars
  <2> QED
    BY <1>2, <1>3, <1>5, <1>8, <2>1 DEF Kept
<1>10. CASE m.kind = "configs"
  <2>1. /\ loader' \in {"idle", "applying"}
        /\ todo' = {e \in Device : answer[e] # 0} /\ answer' = answer
    BY <1>10, DeliverEffect
  <2>2. loader = "answered"
    BY <1>4, <1>10 DEF Types, ChannelOK
  <2>3. d \notin raced =>
          /\ answer'[d] = Wanted(d)'
          /\ Pending(d)' \/ Says(channel', d, Wanted(d)')
    BY <1>2, <1>5, <1>10, <2>1, <2>2 DEF Kept
  <2>4. d \notin todo' => answer'[d] = 0
    BY <2>1
  <2>5. d \notin suspect => Arrives(d)'
    BY <1>8, <2>2 DEF Kept
  <2> QED
    BY <1>2, <1>3, <2>1, <2>3, <2>4, <2>5 DEF Kept
<1> QED
  BY <1>9, <1>10

(* The collector applies the answer; at the end only the devices the load  *)
(* crossed are suspect.                                                    *)
LEMMA ApplyKept ==
  ASSUME NEW d \in Device, Seen(d), Kept(d), Types,
         UpdateNext \/ purgeOmittedDevices \/ rebuildConfig
  PROVE  Seen(d)' /\ Kept(d)'
<1>1. CASE UpdateNext
  <2>1. PICK c \in todo : /\ config' = [config EXCEPT ![c] = answer[c]]
                          /\ todo' = todo \ {c}
    BY <1>1 DEF UpdateNext
  <2>2. /\ loader = "applying" /\ NoDoubt
        /\ UNCHANGED <<db, hubVars, channel, loader, answer, missed>>
    BY <1>1 DEF UpdateNext
  <2>3. Seen(d)' /\ Wanted(d)' = Wanted(d) /\ (Pending(d) <=> Pending(d)')
    BY <2>2, HubStill
  <2>4. (d \in suspect' <=> d \in suspect) /\ (d \in raced' <=> d \in raced)
    BY <2>2, Doubts
  <2>5. config'[d] = IF d = c THEN answer[d] ELSE config[d]
    BY <2>1 DEF Types, LoadOK
  <2>6. ASSUME d \notin raced,
               d \notin suspect \/ (d \notin todo' /\ answer[d] # 0)
        PROVE  Arrives(d)'
    <3>1. CASE d = c
      <4>1. answer[d] = Wanted(d)
            /\ (Pending(d) \/ Says(channel, d, Wanted(d)))
        BY <2>2, <2>6 DEF Kept
      <4> QED
        BY <2>2, <2>3, <2>5, <3>1, <4>1 DEF Arrives, Leads
    <3>2. CASE d # c
      <4>1. Arrives(d)
        BY <2>1, <2>2, <2>6, <3>2 DEF Kept
      <4> QED
        BY <2>2, <2>3, <2>5, <3>2, <4>1 DEF Arrives
    <3> QED
      BY <3>1, <3>2
  <2> QED
    BY <2>2, <2>3, <2>4, <2>6 DEF Kept
<1>2. CASE purgeOmittedDevices
  <2>1. /\ loader = "applying" /\ todo = {} /\ loader' = "idle"
        /\ config' = [e \in Device |-> IF answer[e] = 0 THEN 0 ELSE config[e]]
        /\ suspect' = raced /\ UNCHANGED <<db, hubVars, channel, missed>>
    BY <1>2 DEF purgeOmittedDevices
  <2>2. Seen(d)' /\ Wanted(d)' = Wanted(d) /\ (Pending(d) <=> Pending(d)')
    BY <2>1, HubStill
  <2>3. ASSUME d \notin raced  PROVE Arrives(d)'
    <3>1. /\ answer[d] = Wanted(d)
          /\ Pending(d) \/ Says(channel, d, Wanted(d))
          /\ answer[d] # 0 => Arrives(d)
      BY <2>1, <2>3 DEF Kept
    <3>2. config'[d] = IF answer[d] = 0 THEN 0 ELSE config[d]
      BY <2>1
    <3>3. CASE answer[d] = 0
      BY <2>1, <2>2, <3>1, <3>2, <3>3 DEF Arrives, Leads
    <3>4. CASE answer[d] # 0
      BY <2>1, <2>2, <3>1, <3>2, <3>4 DEF Arrives
    <3> QED
      BY <3>3, <3>4
  <2> QED
    BY <2>1, <2>2, <2>3 DEF Kept
<1>3. CASE rebuildConfig
  <2>1. UNCHANGED <<db, hubVars, missed>>
    BY <1>3 DEF rebuildConfig
  <2>2. Seen(d)' /\ Same(d)
    BY <2>1, HubStill DEF Same
  <2>3. Grown(d)
    BY <1>3, Doubts DEF rebuildConfig, Grown
  <2> QED
    BY <1>3, <2>2, <2>3, Carried DEF rebuildConfig
<1> QED
  BY <1>1, <1>2, <1>3

(* What cannot be applied is doubted, and all that a load that fails       *)
(* crossed.                                                                *)
LEMMA ApplyFailsKept ==
  ASSUME NEW d \in Device, Seen(d), Kept(d), Types, DeliverFails \/ LoadFails
  PROVE  Seen(d)' /\ Kept(d)'
<1>1. CASE DeliverFails
  <2> DEFINE m == Head(channel)
  <2>1. /\ channel # <<>> /\ channel' = Tail(channel)
        /\ m.kind = "update" /\ Doubt({m.dev})
        /\ UNCHANGED <<db, hubVars, loadVars, missed>>
    BY <1>1 DEF DeliverFails
  <2>2. PICK v \in {0, m.ver} : config' = [config EXCEPT ![m.dev] = v]
    BY <1>1 DEF DeliverFails
  <2>3. Seen(d)' /\ Wanted(d)' = Wanted(d) /\ (Pending(d) <=> Pending(d)')
    BY <2>1, HubStill
  <2>4. Grown(d)
    BY <2>1, Doubts DEF Grown
  <2>5. CASE m.dev = d
    <3>1. d \in suspect' /\ (loader # "idle" => d \in raced')
      BY <2>1, <2>5, Doubts
    <3> QED
      BY <2>1, <2>3, <3>1 DEF Kept, loadVars
  <2>6. CASE m.dev # d
    <3>1. channel \in Seq(Message) /\ ~About(m, d)
      BY <2>6 DEF About, Types, ChannelOK
    <3>2. config'[d] = config[d]
      BY <2>2, <2>6 DEF Types, LoadOK
    <3>3. /\ Says(channel, d, Wanted(d)) => Says(channel', d, Wanted(d)')
          /\ Leads(channel, d, Wanted(d), config[d])
               => Leads(channel', d, Wanted(d)', config'[d])
          /\ SaysAfter(channel, d, Wanted(d))
               => SaysAfter(channel', d, Wanted(d)')
      BY <2>1, <2>3, <3>1, <3>2, Taken
    <3>4. Arrives(d) => Arrives(d)'
      BY <2>3, <3>3 DEF Arrives
    <3> QED
      BY <2>1, <2>3, <2>4, <3>3, <3>4 DEF Kept, Grown, loadVars
  <2> QED
    BY <2>5, <2>6
<1>2. CASE LoadFails
  <2>1. loader' = "idle" /\ UNCHANGED <<db, hubVars, channel, missed>>
    BY <1>2 DEF LoadFails
  <2>2. Seen(d)' /\ Wanted(d)' = Wanted(d) /\ (Pending(d) <=> Pending(d)')
    BY <2>1, HubStill
  <2>3. ASSUME d \notin suspect'
        PROVE  Arrives(d) /\ config'[d] = config[d]
    <3>1. CASE loader = "answering"
      BY <1>2, <2>3, <3>1 DEF LoadFails, Kept
    <3>2. CASE loader = "applying"
      <4>1. PICK c \in todo :
              /\ \E v \in {0, answer[c]} : config' = [config EXCEPT ![c] = v]
              /\ suspect' = suspect \cup raced \cup {c}
        BY <1>2, <3>2 DEF LoadFails
      <4>2. d \notin suspect /\ d \notin raced /\ d # c
        BY <2>3, <4>1
      <4> QED
        BY <4>1, <4>2 DEF Kept, Types, LoadOK
    <3> QED
      BY <1>2, <3>1, <3>2 DEF LoadFails
  <2>4. d \notin suspect' => Arrives(d)'
    BY <2>1, <2>2, <2>3 DEF Arrives
  <2> QED
    BY <2>1, <2>2, <2>4 DEF Kept
<1> QED
  BY <1>1, <1>2

(* Every step keeps the invariant.                                         *)
LEMMA NextKept ==
  ASSUME IInv, [Next]_vars
  PROVE  IInv'
<1>1. Types /\ Types'
  BY NextTypes DEF IInv
<1>2. ASSUME NEW d \in Device
      PROVE  Seen(d)' /\ Kept(d)'
  <2>1. Seen(d) /\ Kept(d)
    BY DEF IInv
  <2>2. CASE UNCHANGED vars
    <3>1. UNCHANGED <<db, hubVars, missed>>
      BY <2>2 DEF vars
    <3>2. Seen(d)' /\ Same(d)
      BY <2>1, <3>1, HubStill DEF Same
    <3>3. Grown(d)
      BY <2>2 DEF vars, Grown
    <3> QED
      BY <2>1, <2>2, <3>2, <3>3, Carried DEF vars, loadVars
  <2>3. CASE Next
    BY <1>1, <2>1, <2>3, ModelKept, PollKept, DispatchKept,
       DispatchFailsKept, CallbackKept, PushKept, NoPushKept,
       ReconfigureKept, ConnectionKept, LoadingKept, DeliverKept, ApplyKept,
       ApplyFailsKept
       DEF Next, processQueue, Hub, Pushing, Collector, Loading
  <2> QED
    BY <2>2, <2>3
<1> QED
  BY <1>1, <1>2 DEF IInv

(* For any devices and any course of changes, pushes, loads and faults:    *)
(* when nothing is on its way any more, the collector has the              *)
(* configuration of each device of which no push was lost, failed, crossed *)
(* a load, or was of an old version because the poll found a change the    *)
(* sync before it had not.                                                 *)
THEOREM PushesArrive == Spec => []PushesSuffice
<1>1. Init => IInv
  BY InitTypes, InitKept DEF IInv
<1>2. IInv /\ [Next]_vars => IInv'
  BY NextKept
<1>3. IInv => PushesSuffice
  <2> SUFFICES ASSUME IInv, Quiet, NEW d \in Device \ suspect
               PROVE  config[d] = Wanted(d)
    BY DEF PushesSuffice
  <2>1. Arrives(d)
    BY DEF IInv, Kept, Quiet
  <2>2. ~Pending(d)
    BY DEF Quiet, Pending, Told, ClassTold
  <2> QED
    BY <2>1, <2>2, NothingSent DEF Arrives, Quiet
<1> QED
  BY <1>1, <1>2, <1>3, PTL DEF Spec
=============================================================================
