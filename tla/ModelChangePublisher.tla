------------------------ MODULE ModelChangePublisher ------------------------
(***************************************************************************)
(* ModelChangePublisher (Products/ZenMessaging/queuemessaging/             *)
(* publisher.py): the changes of the model made so far in one transaction. *)
(*                                                                         *)
(* Subscribers call it for every object added to, removed from or changed  *)
(* in the model.  It keeps a list of the messages to build when the        *)
(* transaction commits and, by the guid of the object, what it has already *)
(* a message for; an addition cancels the removal it follows, and the      *)
(* other way round, in the sets and in the list.                           *)
(*                                                                         *)
(* An object stands for its guid.  Left out: the contents of the events    *)
(* and the counts of calls and of discarded messages, which are logged.    *)
(***************************************************************************)
EXTENDS Naturals, Sequences, SequencesExt

CONSTANT Object   \* objects of the model

VARIABLES
  added,     \* _addedGuids
  removed,   \* _removedGuids
  modified,  \* _modifiedGuids
  msgs,      \* _msgs: what to build, for which object
  moved      \* _events before the commit: objects with a MOVED event

publisherVars == <<added, removed, modified, msgs, moved>>

Kinds == {"ADDED", "REMOVED", "MODIFIED", "ADDRELATION", "REMOVERELATION"}
Message(kind, o) == [kind |-> kind, ob |-> o]

Init ==
  /\ added = {} /\ removed = {} /\ modified = {}
  /\ msgs = <<>> /\ moved = <<>>

(* A new publisher for the next transaction.                               *)
Reset ==
  /\ added' = {} /\ removed' = {} /\ modified' = {}
  /\ msgs' = <<>> /\ moved' = <<>>

First(m) == CHOOSE i \in 1..Len(msgs) :
              msgs[i] = m /\ \A j \in 1..(i - 1) : msgs[j] # m

(* Mutant of Without: the cancelled message stays in the list.             *)
KeptWithout(m) == msgs

(* list.remove, whose ValueError is ignored.                               *)
Without(m) == IF \E i \in 1..Len(msgs) : msgs[i] = m
              THEN RemoveAt(msgs, First(m)) ELSE msgs

publishAdd(o) ==
  /\ IF o \in added THEN UNCHANGED <<added, removed, msgs>> ELSE
       /\ msgs' = Append(IF o \in removed THEN Without(Message("REMOVED", o))
                         ELSE msgs, Message("ADDED", o))
       /\ added' = added \cup {o}
       /\ removed' = removed \ {o}
  /\ UNCHANGED <<modified, moved>>

publishRemove(o) ==
  /\ IF o \in removed THEN UNCHANGED <<added, removed, msgs>> ELSE
       /\ msgs' = Append(IF o \in added THEN Without(Message("ADDED", o))
                         ELSE msgs, Message("REMOVED", o))
       /\ removed' = removed \cup {o}
       /\ added' = added \ {o}
  /\ UNCHANGED <<modified, moved>>

publishModified(o) ==
  /\ IF o \in added \cup modified THEN UNCHANGED <<modified, msgs>> ELSE
       /\ msgs' = Append(msgs, Message("MODIFIED", o))
       /\ modified' = modified \cup {o}
  /\ UNCHANGED <<added, removed, moved>>

addToOrganizer(o) ==
  /\ msgs' = Append(msgs, Message("ADDRELATION", o))
  /\ UNCHANGED <<added, removed, modified, moved>>

removeFromOrganizer(o) ==
  /\ msgs' = Append(msgs, Message("REMOVERELATION", o))
  /\ UNCHANGED <<added, removed, modified, moved>>

(* The event is made at once; the message only fills it in.                *)
moveObject(o) ==
  /\ moved' = Append(moved, o)
  /\ UNCHANGED <<added, removed, modified, msgs>>

publish(o) ==
  \/ publishAdd(o) \/ publishRemove(o) \/ publishModified(o)
  \/ addToOrganizer(o) \/ removeFromOrganizer(o) \/ moveObject(o)

(* What the messages become at commit: an object modified before it was    *)
(* added is only added.                                                    *)
Built(sofar, m) == IF m.kind = "MODIFIED" /\ m.ob \in added
                   THEN sofar ELSE Append(sofar, m)

events == [i \in 1..Len(moved) |-> Message("MOVED", moved[i])]
            \o FoldLeft(Built, <<>>, msgs)

Next == \E o \in Object : publish(o)
Spec == Init /\ [][Next]_publisherVars

-----------------------------------------------------------------------------
TypeOK ==
  /\ added \subseteq Object /\ removed \subseteq Object
  /\ modified \subseteq Object
  /\ msgs \in Seq([kind : Kinds, ob : Object])
  /\ moved \in Seq(Object)

Verdicts(o) == {i \in 1..Len(msgs) :
                  msgs[i].ob = o /\ msgs[i].kind \in {"ADDED", "REMOVED"}}

(* What publishAdd and publishRemove promise over any sequence of calls:   *)
(* no object is both added and removed, an object that is either has       *)
(* exactly one ADDED or REMOVED message, the one the sets name, and other  *)
(* objects have none.                                                      *)
OneVerdict ==
  /\ added \cap removed = {}
  /\ \A o \in added : \E i \in 1..Len(msgs) :
       Verdicts(o) = {i} /\ msgs[i].kind = "ADDED"
  /\ \A o \in removed : \E i \in 1..Len(msgs) :
       Verdicts(o) = {i} /\ msgs[i].kind = "REMOVED"
  /\ \A o \in Object \ (added \cup removed) : Verdicts(o) = {}
=============================================================================
