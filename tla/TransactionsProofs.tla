------------------------- MODULE TransactionsProofs -------------------------
(***************************************************************************)
(* Proofs about Transactions for any objects and any bounds.               *)
(*                                                                         *)
(* VerdictsAgree rests on what list.remove does to a list that holds one   *)
(* final message (ADDED or REMOVED) of an object: that one goes, those of  *)
(* other objects move up.  OnlyCommittedIsTold needs to know where in its  *)
(* commit the process is (Control), and that the other process never       *)
(* writes what is there already (Contents).  SubmissionRefinement needs    *)
(* Control, and that the numbers of transactions are used once (Records).  *)
(*                                                                         *)
(* ConsumersAgree follows a change of an object to the consumer.  While    *)
(* the transaction is active, the sets of its publisher say what it made   *)
(* of the object (Changed); the events built of them tell it (Outgoing,    *)
(* in terms of Tells, which does not depend on their order); what the      *)
(* database voted on stays (NoConflict, StayGone), so that after its       *)
(* commit they tell the consumer what the database has (Late), and it      *)
(* believes that when it has heard them (HeardIsTold, by induction over    *)
(* the events).                                                            *)
(***************************************************************************)
EXTENDS Transactions, SequenceFolds

(* The messages a publisher has; those that are final for an object.       *)
Msg == [kind : Publisher!Kinds, ob : Object]
Final == {"ADDED", "REMOVED"}

(* The final messages of an object in a list; exactly one of a kind; none. *)
Finals(s, o) == {i \in 1..Len(s) : s[i].ob = o /\ s[i].kind \in Final}
One(s, o, k) == \E i \in 1..Len(s) : Finals(s, o) = {i} /\ s[i].kind = k
None(s, o) == Finals(s, o) = {}

(* A list has a message of a kind for an object.                           *)
Says(s, o, k) == \E i \in 1..Len(s) : s[i].ob = o /\ s[i].kind = k

(* A message that is not a final one of the object changes nothing for it. *)
LEMMA AppendOther ==
  ASSUME NEW s \in Seq(Msg), NEW e \in Msg, NEW o \in Object,
         e.ob # o \/ e.kind \notin Final
  PROVE  /\ \A k \in Final : One(s, o, k) => One(Append(s, e), o, k)
         /\ None(s, o) => None(Append(s, e), o)
<1>1. Finals(Append(s, e), o) = Finals(s, o)
  BY DEF Finals
<1> QED
  BY <1>1 DEF One, None

(* A final message of an object that had none is its only one.            *)
LEMMA AppendFinal ==
  ASSUME NEW s \in Seq(Msg), NEW o \in Object, NEW k \in Final, None(s, o)
  PROVE  One(Append(s, Publisher!Message(k, o)), o, k)
<1> DEFINE t == Append(s, Publisher!Message(k, o))
<1>1. Len(t) = Len(s) + 1 /\ Len(s) \in Nat
      /\ t[Len(s) + 1] = Publisher!Message(k, o)
      /\ \A i \in 1..Len(s) : t[i] = s[i]
  OBVIOUS
<1>2. Finals(t, o) = {Len(s) + 1}
  BY <1>1 DEF Finals, None, Publisher!Message
<1> QED
  BY <1>1, <1>2 DEF One, Publisher!Message

(* The parts of list.remove put together.                                  *)
LEMMA Concatenation ==
  ASSUME NEW a \in Seq(Msg), NEW b \in Seq(Msg)
  PROVE  /\ a \o b \in Seq(Msg) /\ Len(a \o b) = Len(a) + Len(b)
         /\ \A i \in 1..(Len(a) + Len(b)) :
              (a \o b)[i] = IF i <= Len(a) THEN a[i] ELSE b[i - Len(a)]
  OBVIOUS

(* list.remove of the one final message of an object.                      *)
LEMMA RemoveFinal ==
  ASSUME NEW s \in Seq(Msg), NEW n \in 1..Len(s), NEW o \in Object,
         Finals(s, o) = {n}
  PROVE  /\ RemoveAt(s, n) \in Seq(Msg)
         /\ None(RemoveAt(s, n), o)
         /\ \A p \in Object \ {o} :
              /\ \A k \in Final : One(s, p, k) => One(RemoveAt(s, n), p, k)
              /\ None(s, p) => None(RemoveAt(s, n), p)
         /\ \A p \in Object :
              Says(RemoveAt(s, n), p, "MODIFIED") <=> Says(s, p, "MODIFIED")
<1> DEFINE r == RemoveAt(s, n)
<1>1. /\ r \in Seq(Msg) /\ Len(r) = Len(s) - 1 /\ Len(s) \in Nat
      /\ \A i \in 1..Len(r) : r[i] = IF i < n THEN s[i] ELSE s[i + 1]
  <2> DEFINE a == SubSeq(s, 1, n - 1)
             b == SubSeq(s, n + 1, Len(s))
  <2>1. Len(s) \in Nat /\ n \in Nat /\ n - 1 <= Len(s) /\ n >= 1 /\ n <= Len(s)
    OBVIOUS
  <2>2. a \in Seq(Msg) /\ Len(a) = n - 1 /\ \A i \in 1..(n - 1) : a[i] = s[i]
    BY <2>1
  <2>3. b \in Seq(Msg) /\ Len(b) = Len(s) - n
        /\ \A i \in 1..(Len(s) - n) : b[i] = s[n + i]
    BY <2>1
  <2>4. r = a \o b
    BY DEF RemoveAt
  <2> HIDE DEF a, b, r
  <2>5. /\ a \o b \in Seq(Msg) /\ Len(a \o b) = Len(a) + Len(b)
        /\ \A i \in 1..(Len(a) + Len(b)) :
             (a \o b)[i] = IF i <= Len(a) THEN a[i] ELSE b[i - Len(a)]
    BY <2>2, <2>3, Concatenation
  <2>6. Len(r) = Len(s) - 1
    BY <2>1, <2>2, <2>3, <2>4, <2>5
  <2>7. ASSUME NEW i \in 1..Len(r)
        PROVE  r[i] = IF i < n THEN s[i] ELSE s[i + 1]
    <3>1. CASE i < n
      BY <2>1, <2>2, <2>3, <2>4, <2>5, <3>1
    <3>2. CASE i >= n
      <4>1. i - Len(a) \in 1..(Len(s) - n) /\ n + (i - Len(a)) = i + 1
        BY <2>1, <2>2, <2>6, <3>2
      <4>2. r[i] = b[i - Len(a)]
        BY <2>1, <2>2, <2>3, <2>4, <2>5, <3>2
      <4>3. b[i - Len(a)] = s[n + (i - Len(a))]
        BY <2>3, <4>1
      <4>4. ~(i < n)
        BY <2>1, <3>2
      <4> QED
        BY <4>1, <4>2, <4>3, <4>4
    <3> QED
      BY <2>1, <3>1, <3>2
  <2> QED
    BY <2>1, <2>4, <2>5, <2>6, <2>7
<1> HIDE DEF r
<1>2. None(r, o)
  <2>1. ASSUME NEW i \in Finals(r, o) PROVE FALSE
    <3>1. i \in 1..Len(r) /\ r[i].ob = o /\ r[i].kind \in Final
      BY <2>1 DEF Finals
    <3>2. CASE i < n
      BY <1>1, <3>1, <3>2 DEF Finals
    <3>3. CASE i >= n
      <4>1. i + 1 \in Finals(s, o)
        BY <1>1, <3>1, <3>3 DEF Finals
      <4> QED
        BY <4>1, <3>1, <3>3
    <3> QED
      BY <3>1, <3>2, <3>3
  <2> QED
    BY <2>1 DEF None
<1>3. ASSUME NEW p \in Object \ {o}, NEW k \in Final, One(s, p, k)
      PROVE  One(r, p, k)
  <2>1. PICK j \in 1..Len(s) : Finals(s, p) = {j} /\ s[j].kind = k
    BY <1>3 DEF One
  <2>2. s[j].ob = p /\ s[n].ob = o
    BY <2>1 DEF Finals
  <2> DEFINE q == IF j < n THEN j ELSE j - 1
  <2>3. q \in 1..Len(r) /\ r[q] = s[j]
    BY <1>1, <2>2
  <2>4. ASSUME NEW i \in 1..Len(r), r[i].ob = p, r[i].kind \in Final
        PROVE  i = q
    <3>1. (IF i < n THEN i ELSE i + 1) \in Finals(s, p)
      BY <1>1, <2>4 DEF Finals
    <3> QED
      BY <3>1, <2>1, <2>2
  <2>5. Finals(r, p) = {q}
    BY <2>1, <2>2, <2>3, <2>4 DEF Finals
  <2> QED
    BY <2>1, <2>3, <2>5 DEF One
<1>4. ASSUME NEW p \in Object \ {o}, None(s, p)
      PROVE  None(r, p)
  <2>1. ASSUME NEW i \in Finals(r, p) PROVE FALSE
    <3>1. (IF i < n THEN i ELSE i + 1) \in Finals(s, p)
      BY <1>1, <2>1 DEF Finals
    <3> QED
      BY <3>1, <1>4 DEF None
  <2> QED
    BY <2>1 DEF None
<1>5. ASSUME NEW p \in Object
      PROVE  Says(r, p, "MODIFIED") <=> Says(s, p, "MODIFIED")
  <2>1. s[n].kind # "MODIFIED"
    BY DEF Finals, Final
  <2>2. ASSUME Says(s, p, "MODIFIED") PROVE Says(r, p, "MODIFIED")
    <3>1. PICK j \in 1..Len(s) : s[j].ob = p /\ s[j].kind = "MODIFIED"
      BY <2>2 DEF Says
    <3> DEFINE q == IF j < n THEN j ELSE j - 1
    <3>2. q \in 1..Len(r) /\ r[q] = s[j]
      BY <1>1, <2>1, <3>1
    <3> QED
      BY <3>1, <3>2 DEF Says
  <2>3. ASSUME Says(r, p, "MODIFIED") PROVE Says(s, p, "MODIFIED")
    <3>1. PICK i \in 1..Len(r) : r[i].ob = p /\ r[i].kind = "MODIFIED"
      BY <2>3 DEF Says
    <3> DEFINE q == IF i < n THEN i ELSE i + 1
    <3>2. q \in 1..Len(s) /\ r[i] = s[q]
      BY <1>1, <3>1
    <3> QED
      BY <3>1, <3>2 DEF Says
  <2> QED
    BY <2>2, <2>3
<1> QED
  BY <1>1, <1>2, <1>3, <1>4, <1>5 DEF r

-----------------------------------------------------------------------------
(* The publisher's invariant, in terms of the list.                        *)
Agree ==
  /\ added \cap removed = {}
  /\ \A o \in added : One(msgs, o, "ADDED")
  /\ \A o \in removed : One(msgs, o, "REMOVED")
  /\ \A o \in Object \ (added \cup removed) : None(msgs, o)

Published == Publisher!TypeOK /\ Agree

(* It is the invariant the module states.                                  *)
LEMMA AgreeMeansOneVerdict == Agree <=> OneVerdict
BY DEF Agree, OneVerdict, Publisher!OneVerdict, Publisher!Verdicts, One, None,
       Finals, Final

(* A new publisher satisfies it.                                           *)
LEMMA Emptied ==
  ASSUME added = {}, removed = {}, modified = {}, msgs = <<>>, moved = <<>>
  PROVE  Published
BY DEF Published, Publisher!TypeOK, Agree, None, Finals

(* A message that says nothing final: the sets of publishAdd and           *)
(* publishRemove stay as they are.                                         *)
LEMMA AppendKeepsAgree ==
  ASSUME Published, NEW e \in Msg, e.kind \notin Final, 
         msgs' = Append(msgs, e), UNCHANGED <<added, removed>>
  PROVE  msgs' \in Seq(Msg) /\ Agree'
<1> USE DEF Published
<1>1. msgs \in Seq(Msg) /\ added \subseteq Object /\ removed \subseteq Object
  BY DEF Publisher!TypeOK, Msg
<1>2. msgs' \in Seq(Msg)
  BY <1>1
<1>3. ASSUME NEW o \in Object
      PROVE  /\ \A k \in Final : One(msgs, o, k) => One(msgs', o, k)
             /\ None(msgs, o) => None(msgs', o)
  BY <1>1, AppendOther
<1> QED
  BY <1>1, <1>2, <1>3 DEF Agree, Final

(* Without, for the final message of an object, leaves it none.            *)
LEMMA WithoutFinal ==
  ASSUME Published, NEW o \in Object, NEW k \in Final, One(msgs, o, k)
  PROVE  LET r == Publisher!Without(Publisher!Message(k, o)) IN
           /\ r \in Seq(Msg) /\ None(r, o)
           /\ \A p \in Object \ {o} :
                /\ \A l \in Final : One(msgs, p, l) => One(r, p, l)
                /\ None(msgs, p) => None(r, p)
           /\ \A p \in Object :
                Says(r, p, "MODIFIED") <=> Says(msgs, p, "MODIFIED")
<1> DEFINE m == Publisher!Message(k, o)
<1>1. msgs \in Seq(Msg)
  BY DEF Published, Publisher!TypeOK, Msg
<1>2. PICK n \in 1..Len(msgs) : Finals(msgs, o) = {n} /\ msgs[n].kind = k
  BY DEF One
<1>3. msgs[n] = m
  <2>1. msgs[n] \in Msg /\ msgs[n].ob = o
    BY <1>1, <1>2 DEF Finals
  <2> QED
    BY <2>1, <1>2 DEF Msg, Publisher!Message
<1>4. \A i \in 1..Len(msgs) : msgs[i] = m => i = n
  BY <1>2 DEF Finals, Publisher!Message
<1> HIDE DEF m
<1>5. Publisher!First(m) = n
  <2>1. \A j \in 1..(n - 1) : msgs[j] # m
    BY <1>1, <1>4
  <2> QED
    BY <1>3, <1>4, <2>1 DEF Publisher!First
<1>6. Publisher!Without(m) = RemoveAt(msgs, n)
  BY <1>3, <1>5 DEF Publisher!Without, Publisher!RemoveAt, RemoveAt
<1> QED
  BY <1>1, <1>2, <1>6, RemoveFinal DEF m

(* publishAdd and publishRemove: a final message takes the place of the    *)
(* one it cancels, if there is one.                                        *)
LEMMA FinalKeepsAgree ==
  ASSUME NEW r \in Seq(Msg), NEW o \in Object, NEW k \in Final,
         None(r, o)
  PROVE  LET t == Append(r, Publisher!Message(k, o)) IN
           /\ t \in Seq(Msg) /\ One(t, o, k)
           /\ \A p \in Object \ {o} :
                /\ \A l \in Final : One(r, p, l) => One(t, p, l)
                /\ None(r, p) => None(t, p)
<1> DEFINE e == Publisher!Message(k, o)
<1>1. e \in Msg /\ e.ob = o
  BY DEF Msg, Final, Publisher!Message, Publisher!Kinds
<1>2. Append(r, e) \in Seq(Msg)
  BY <1>1
<1>3. One(Append(r, e), o, k)
  BY AppendFinal
<1> HIDE DEF e
<1>4. ASSUME NEW p \in Object \ {o}
      PROVE  /\ \A l \in Final : One(r, p, l) => One(Append(r, e), p, l)
             /\ None(r, p) => None(Append(r, e), p)
  BY <1>1, AppendOther
<1> QED
  BY <1>2, <1>3, <1>4 DEF e

(* publishAdd: what the object was before makes no difference.             *)
LEMMA AddKeepsPublished ==
  ASSUME Published, NEW o \in Object, Publisher!publishAdd(o)
  PROVE  Published'
<1>0. /\ msgs \in Seq(Msg) /\ added \subseteq Object /\ removed \subseteq Object
      /\ modified \subseteq Object /\ moved \in Seq(Object)
  BY DEF Published, Publisher!TypeOK, Msg
<1>1. CASE o \in added
  BY <1>1 DEF Published, Publisher!publishAdd, Publisher!TypeOK, Agree, One,
              None, Finals
<1>2. CASE o \notin added
  <2> DEFINE r == IF o \in removed
                  THEN Publisher!Without(Publisher!Message("REMOVED", o))
                  ELSE msgs
  <2>1. /\ r \in Seq(Msg) /\ None(r, o)
        /\ \A p \in Object \ {o} :
             /\ \A l \in Final : One(msgs, p, l) => One(r, p, l)
             /\ None(msgs, p) => None(r, p)
    <3>1. CASE o \in removed
      <4>1. One(msgs, o, "REMOVED") /\ "REMOVED" \in Final
        BY <3>1 DEF Published, Agree, Final
      <4> QED
        BY <3>1, <4>1, WithoutFinal
    <3>2. CASE o \notin removed
      BY <1>0, <1>2, <3>2 DEF Published, Agree
    <3> QED
      BY <3>1, <3>2
  <2>2. /\ msgs' = Append(r, Publisher!Message("ADDED", o))
        /\ added' = added \cup {o} /\ removed' = removed \ {o}
        /\ UNCHANGED <<modified, moved>>
    BY <1>2 DEF Publisher!publishAdd
  <2> HIDE DEF r
  <2>3. "ADDED" \in Final
    BY DEF Final
  <2>4. /\ msgs' \in Seq(Msg) /\ One(msgs', o, "ADDED")
        /\ \A p \in Object \ {o} :
             /\ \A l \in Final : One(r, p, l) => One(msgs', p, l)
             /\ None(r, p) => None(msgs', p)
    BY <2>1, <2>2, <2>3, FinalKeepsAgree
  <2>5. Agree'
    BY <1>0, <2>1, <2>2, <2>4 DEF Published, Agree, Final
  <2> QED
    BY <1>0, <2>2, <2>4, <2>5 DEF Published, Publisher!TypeOK, Msg
<1> QED
  BY <1>1, <1>2

(* publishRemove, which mirrors it.                                        *)
LEMMA RemoveKeepsPublished ==
  ASSUME Published, NEW o \in Object, Publisher!publishRemove(o)
  PROVE  Published'
<1>0. /\ msgs \in Seq(Msg) /\ added \subseteq Object /\ removed \subseteq Object
      /\ modified \subseteq Object /\ moved \in Seq(Object)
  BY DEF Published, Publisher!TypeOK, Msg
<1>1. CASE o \in removed
  BY <1>1 DEF Published, Publisher!publishRemove, Publisher!TypeOK, Agree,
              One, None, Finals
<1>2. CASE o \notin removed
  <2> DEFINE r == IF o \in added
                  THEN Publisher!Without(Publisher!Message("ADDED", o))
                  ELSE msgs
  <2>1. /\ r \in Seq(Msg) /\ None(r, o)
        /\ \A p \in Object \ {o} :
             /\ \A l \in Final : One(msgs, p, l) => One(r, p, l)
             /\ None(msgs, p) => None(r, p)
    <3>1. CASE o \in added
      <4>1. One(msgs, o, "ADDED") /\ "ADDED" \in Final
        BY <3>1 DEF Published, Agree, Final
      <4> QED
        BY <3>1, <4>1, WithoutFinal
    <3>2. CASE o \notin added
      BY <1>0, <1>2, <3>2 DEF Published, Agree
    <3> QED
      BY <3>1, <3>2
  <2>2. /\ msgs' = Append(r, Publisher!Message("REMOVED", o))
        /\ removed' = removed \cup {o} /\ added' = added \ {o}
        /\ UNCHANGED <<modified, moved>>
    BY <1>2 DEF Publisher!publishRemove
  <2> HIDE DEF r
  <2>3. "REMOVED" \in Final
    BY DEF Final
  <2>4. /\ msgs' \in Seq(Msg) /\ One(msgs', o, "REMOVED")
        /\ \A p \in Object \ {o} :
             /\ \A l \in Final : One(r, p, l) => One(msgs', p, l)
             /\ None(r, p) => None(msgs', p)
    BY <2>1, <2>2, <2>3, FinalKeepsAgree
  <2>5. Agree'
    BY <1>0, <2>1, <2>2, <2>4 DEF Published, Agree, Final
  <2> QED
    BY <1>0, <2>2, <2>4, <2>5 DEF Published, Publisher!TypeOK, Msg
<1> QED
  BY <1>1, <1>2

(* The other calls append a message that is not final, or none.            *)
LEMMA OthersKeepPublished ==
  ASSUME Published, NEW o \in Object,
         \/ Publisher!publishModified(o) \/ Publisher!addToOrganizer(o)
         \/ Publisher!removeFromOrganizer(o) \/ Publisher!moveObject(o)
  PROVE  Published'
<1>0. /\ msgs \in Seq(Msg) /\ added \subseteq Object /\ removed \subseteq Object
      /\ modified \subseteq Object /\ moved \in Seq(Object)
  BY DEF Published, Publisher!TypeOK, Msg
<1>1. /\ modified' \subseteq Object /\ moved' \in Seq(Object)
      /\ UNCHANGED <<added, removed>>
  BY <1>0 DEF Publisher!publishModified, Publisher!addToOrganizer,
              Publisher!removeFromOrganizer, Publisher!moveObject
<1>2. \/ UNCHANGED msgs
      \/ \E k \in {"MODIFIED", "ADDRELATION", "REMOVERELATION"} :
           msgs' = Append(msgs, Publisher!Message(k, o))
  BY DEF Publisher!publishModified, Publisher!addToOrganizer,
         Publisher!removeFromOrganizer, Publisher!moveObject
<1>3. msgs' \in Seq(Msg) /\ Agree'
  <2>1. CASE UNCHANGED msgs
    BY <1>0, <1>1, <2>1 DEF Published, Agree, One, None, Finals
  <2>2. ASSUME NEW k \in {"MODIFIED", "ADDRELATION", "REMOVERELATION"},
               msgs' = Append(msgs, Publisher!Message(k, o))
        PROVE  msgs' \in Seq(Msg) /\ Agree'
    <3>1. /\ Publisher!Message(k, o) \in Msg
          /\ Publisher!Message(k, o).kind \notin Final
      BY DEF Msg, Final, Publisher!Message, Publisher!Kinds
    <3> QED
      BY <1>1, <2>2, <3>1, AppendKeepsAgree
  <2> QED
    BY <1>2, <2>1, <2>2
<1> QED
  BY <1>0, <1>1, <1>3 DEF Published, Publisher!TypeOK, Msg

(* The publisher of the next transaction.                                  *)
LEMMA ResetEmpties ==
  ASSUME Publisher!Reset
  PROVE  Published'
BY DEF Publisher!Reset, Published, Publisher!TypeOK, Agree, None, Finals

(* A step calls the publisher, replaces it or leaves it alone.             *)
LEMMA PublishedStep ==
  ASSUME Published, [Next]_vars
  PROVE  Published'
<1>1. CASE ChangeModel
  <2>1. PICK o \in Object :
          \/ Publisher!publishAdd(o) \/ Publisher!publishRemove(o)
          \/ Publisher!publishModified(o) \/ Publisher!addToOrganizer(o)
          \/ Publisher!removeFromOrganizer(o) \/ Publisher!moveObject(o)
    BY <1>1 DEF ChangeModel
  <2> QED
    BY <2>1, AddKeepsPublished, RemoveKeepsPublished, OthersKeepPublished
<1>2. CASE Publisher!Reset
  BY <1>2, ResetEmpties
<1>3. CASE UNCHANGED publisherVars
  BY <1>3 DEF publisherVars, Published, Publisher!TypeOK, Agree, One, None,
              Finals
<1>4. ChangeModel \/ Publisher!Reset \/ UNCHANGED publisherVars
  BY DEF Next, vars, Begin, addJob, abort, beforeCompletionHook, Prepare,
         PrepareFails, Rollback, FinishDatabase, FinishDatabaseFails,
         FinishedOne, FinishChannel, FinishChannelFails, afterCommitHook,
         Crash, OtherCommit
<1> QED
  BY <1>1, <1>2, <1>3, <1>4

(* publishAdd and publishRemove keep their promise in every transaction    *)
(* of every length, for any objects, whatever becomes of the transactions. *)
THEOREM VerdictsAgree == Spec => []OneVerdict
<1>1. Init => Published
  BY Emptied DEF Init, Publisher!Init
<1>2. Published /\ [Next]_vars => Published'
  BY PublishedStep
<1>3. Published => OneVerdict
  BY AgreeMeansOneVerdict DEF Published
<1> QED
  BY <1>1, <1>2, <1>3, PTL DEF Spec

-----------------------------------------------------------------------------
(* Contents that have been written: by this process up to its transaction, *)
(* or by the other one.                                                    *)
Issued == 0..tx \cup (MaxTransactions + 1)..(MaxTransactions + others)

(* The jobs in the broker's queue.                                         *)
Submitted == {queue[i] : i \in 1..Len(queue)}

(* Where the process is in its transaction, and what the database has of   *)
(* it then.                                                                *)
Control ==
  /\ phase \in {"idle", "active", "hooked", "finishing", "after"}
  /\ tx \in 0..MaxTransactions /\ (phase # "idle" => tx > 0)
  /\ others \in 0..MaxOthers /\ hook \in BOOLEAN
  /\ resources \in {commitOrder, <<"channel">>, <<>>}
  /\ phase = "finishing" <=> resources # <<>>
  /\ resources = <<"channel">> => tx \in committed

(* Everything this process and the database know has been written.         *)
Contents ==
  /\ base \in [Object -> Issued] /\ view \in [Object -> Issued]
  /\ db \in [Object -> Issued]

(* The order of the data managers, taken apart.                            *)
LEMMA Resources ==
  /\ Head(commitOrder) = "database" /\ Tail(commitOrder) = <<"channel">>
  /\ Len(commitOrder) = 2 /\ Len(<<"channel">>) = 1
  /\ Head(<<"channel">>) = "channel" /\ Tail(<<"channel">>) = <<>>
  /\ commitOrder # <<>> /\ <<"channel">> # <<>> /\ commitOrder # <<"channel">>
BY DEF commitOrder

(* The control state is right after every step.                            *)
LEMMA ControlStep ==
  ASSUME Control, [Next]_vars
  PROVE  Control'
<1> USE TransactionConstants, Resources DEF Control
<1>1. CASE Begin
  <2>1. resources = <<>> /\ resources' = <<>> /\ phase' = "active"
    BY <1>1 DEF Begin
  <2>2. tx' \in 0..MaxTransactions /\ tx' > 0
    BY <1>1 DEF Begin
  <2> QED
    BY <1>1, <2>1, <2>2 DEF Begin, sharedVars
<1>2. CASE ChangeModel
  BY <1>2 DEF ChangeModel, sharedVars
<1>3. CASE addJob
  BY <1>3 DEF addJob, sharedVars
<1>4. CASE abort
  BY <1>4 DEF abort, sharedVars
<1>5. CASE beforeCompletionHook
  BY <1>5 DEF beforeCompletionHook, sharedVars
<1>6. CASE Prepare
  BY <1>6 DEF Prepare, sharedVars
<1>7. CASE PrepareFails
  BY <1>7 DEF PrepareFails, Rollback, sharedVars
<1>8. CASE FinishDatabase
  <2>1. resources = commitOrder /\ phase = "finishing"
    BY <1>8 DEF FinishDatabase
  <2>2. resources' = <<"channel">> /\ phase' = "finishing"
        /\ tx \in committed'
    BY <1>8, <2>1 DEF FinishDatabase, FinishedOne, Store
  <2> QED
    BY <1>8, <2>1, <2>2 DEF FinishDatabase, FinishedOne
<1>9. CASE FinishDatabaseFails
  BY <1>9 DEF FinishDatabaseFails, Rollback, Store
<1>10. CASE FinishChannel
  BY <1>10 DEF FinishChannel, FinishedOne
<1>11. CASE FinishChannelFails
  BY <1>11 DEF FinishChannelFails, FinishedOne
<1>12. CASE afterCommitHook
  BY <1>12 DEF afterCommitHook
<1>13. CASE Crash
  BY <1>13 DEF Crash
<1>14. CASE OtherCommit
  BY <1>14 DEF OtherCommit, localVars
<1>15. CASE UNCHANGED vars
  BY <1>15 DEF vars, localVars, sharedVars
<1> QED
  BY <1>1, <1>2, <1>3, <1>4, <1>5, <1>6, <1>7, <1>8, <1>9, <1>10, <1>11,
     <1>12, <1>13, <1>14, <1>15 DEF Next

(* No step makes up a content.                                             *)
LEMMA ContentsStep ==
  ASSUME Control, Control', Contents, [Next]_vars
  PROVE  Contents'
<1> USE TransactionConstants DEF Control, Contents
<1>0. CASE Issued \subseteq Issued' /\ UNCHANGED <<base, view, db>>
  BY <1>0
<1>1. CASE Begin
  <2>1. Issued \subseteq Issued'
    BY <1>1 DEF Begin, sharedVars, Issued
  <2> QED
    BY <1>1, <2>1 DEF Begin, sharedVars
<1>2. CASE ChangeModel
  <2>1. Issued' = Issued /\ 0 \in Issued /\ tx \in Issued
    BY <1>2 DEF ChangeModel, sharedVars, Issued
  <2>2. PICK o \in Object :
          \/ view' = [view EXCEPT ![o] = tx] \/ view' = [view EXCEPT ![o] = 0]
          \/ view' = [view EXCEPT ![o] = IF @ = 0 THEN 0 ELSE tx]
          \/ UNCHANGED view
    BY <1>2 DEF ChangeModel
  <2> QED
    BY <1>2, <2>1, <2>2 DEF ChangeModel, sharedVars
<1>3. CASE FinishDatabase \/ FinishDatabaseFails
  <2>1. Issued' = Issued
    BY <1>3 DEF FinishDatabase, FinishDatabaseFails, FinishedOne, Rollback,
                Issued
  <2>2. /\ UNCHANGED <<base, view>>
        /\ \/ UNCHANGED db
           \/ db' = [o \in Object |-> IF o \in Written THEN view[o] ELSE db[o]]
    BY <1>3 DEF FinishDatabase, FinishDatabaseFails, FinishedOne, Rollback,
                Store
  <2> QED
    BY <2>1, <2>2
<1>4. CASE OtherCommit
  <2>1. PICK o \in Object, c \in {0, MaxTransactions + others + 1} :
          db' = [db EXCEPT ![o] = c]
    BY <1>4 DEF OtherCommit
  <2>2. Issued \subseteq Issued' /\ c \in Issued'
    BY <1>4 DEF OtherCommit, localVars, Issued
  <2> QED
    BY <1>4, <2>1, <2>2 DEF OtherCommit, localVars
<1>5. CASE UNCHANGED vars
  BY <1>5, <1>0 DEF vars, localVars, sharedVars, Issued
<1>6. CASE \/ addJob \/ abort \/ beforeCompletionHook \/ Prepare
           \/ PrepareFails \/ FinishChannel \/ FinishChannelFails
           \/ afterCommitHook \/ Crash
  BY <1>6, <1>0 DEF addJob, abort, beforeCompletionHook, Prepare, PrepareFails,
       Rollback, FinishedOne, FinishChannel, FinishChannelFails,
       afterCommitHook, Crash, sharedVars, Issued
<1> QED
  BY <1>1, <1>2, <1>3, <1>4, <1>5, <1>6 DEF Next

(* Both hold at the start.                                                 *)
LEMMA StartsInOrder == Init => Control /\ Contents
<1> SUFFICES ASSUME Init PROVE Control /\ Contents
  OBVIOUS
<1>1. Control
  <2>1. resources = <<>> /\ phase = "idle" /\ tx = 0 /\ others = 0 /\ hook = FALSE
    BY DEF Init
  <2>2. 0 \in 0..MaxTransactions /\ 0 \in 0..MaxOthers
    BY TransactionConstants
  <2> QED
    BY <2>1, <2>2, Resources DEF Control
<1>2. 0 \in Issued
  BY DEF Init, Issued
<1>3. Contents
  BY <1>2 DEF Init, Contents
<1> QED
  BY <1>1, <1>3

(* The consumer is told only by the channel, which comes after the         *)
(* database in the order of the data managers, or by the other process,    *)
(* which never writes a content that is there already.                     *)
LEMMA ToldStep ==
  ASSUME Control, Contents, [Next]_vars, told' # told
  PROVE  tx \in committed \/ db' # db
<1> USE TransactionConstants, Resources DEF Control, Contents
<1>1. CASE FinishChannel
  BY <1>1 DEF FinishChannel
<1>2. CASE OtherCommit
  <2>1. PICK o \in Object, c \in {0, MaxTransactions + others + 1} :
          db[o] # 0 /\ db' = [db EXCEPT ![o] = c]
    BY <1>2 DEF OtherCommit
  <2>2. db[o] # c
    BY <2>1 DEF Issued
  <2> QED
    BY <2>1, <2>2
<1>3. CASE ~FinishChannel /\ ~OtherCommit
  BY <1>3 DEF Next, vars, sharedVars, Begin, ChangeModel, addJob, abort,
       beforeCompletionHook, Prepare, PrepareFails, FinishDatabase,
       FinishDatabaseFails, FinishChannelFails, afterCommitHook, Crash
<1> QED
  BY <1>1, <1>2, <1>3

(* For any number of transactions and objects, model events tell of        *)
(* committed changes only.                                                 *)
THEOREM OnlyCommittedIsTold == Spec => ToldOnlyCommitted
<1>1. Control /\ Contents /\ [Next]_vars => Control' /\ Contents'
  BY ControlStep, ContentsStep
<1>2. Control /\ Contents /\ [Next]_vars
        => [told' # told => tx \in committed \/ db' # db]_vars
  BY ToldStep
<1> QED
  BY <1>1, <1>2, StartsInOrder, PTL DEF Spec, ToldOnlyCommitted

-----------------------------------------------------------------------------
(* A transaction's job has no record before the database commits, and is   *)
(* not in the broker before the transaction is over.                       *)
Records ==
  /\ status \in [Job -> Status] /\ queue \in Seq(Job)
  /\ \A j \in Job : j > tx => status[j] = "NONE" /\ j \notin Submitted
  /\ phase # "idle" => tx \notin Submitted
  /\ phase \in {"active", "hooked"} \/ resources = commitOrder
       => status[tx] = "NONE"

(* The steps of JobSubmission in a transaction.                            *)
LEMMA AppendSubmitted ==
  ASSUME NEW q \in Seq(Job), NEW j \in Job
  PROVE  /\ Append(q, j) \in Seq(Job)
         /\ {Append(q, j)[i] : i \in 1..Len(Append(q, j))}
               = {q[i] : i \in 1..Len(q)} \cup {j}
<1>1. /\ Append(q, j) \in Seq(Job) /\ Len(Append(q, j)) = Len(q) + 1
      /\ Len(q) \in Nat /\ Append(q, j)[Len(q) + 1] = j
      /\ \A i \in 1..Len(q) : Append(q, j)[i] = q[i]
  OBVIOUS
<1> QED
  BY <1>1

(* A transaction in course has a number a job can have.                    *)
LEMMA TransactionJob ==
  ASSUME Control, phase # "idle"
  PROVE  tx \in Job
BY TransactionConstants DEF Control, Job

(* Every step but these two leaves the records and the broker alone.       *)
LEMMA OtherSteps ==
  ASSUME [Next]_vars, ~FinishDatabase, ~FinishDatabaseFails, ~afterCommitHook
  PROVE  UNCHANGED <<status, queue>>
BY DEF Next, vars, sharedVars, Begin, ChangeModel, addJob, abort,
       beforeCompletionHook, Prepare, PrepareFails, FinishChannel,
       FinishChannelFails, Crash, OtherCommit

(* The database commits: the record of the job, if there is one, is new.   *)
LEMMA StoreRecords ==
  ASSUME Control, Records, FinishDatabase \/ FinishDatabaseFails
  PROVE  /\ tx \in Job /\ status[tx] = "NONE" /\ tx \notin Submitted
         /\ phase # "idle" /\ UNCHANGED <<queue, tx>>
         /\ \/ status' = [status EXCEPT ![tx] = "PENDING"] 
            \/ UNCHANGED status
         /\ phase' \in {"finishing", "after"} /\ resources' # commitOrder
<1>1. phase = "finishing" /\ Head(resources) = "database"
  BY DEF FinishDatabase, FinishDatabaseFails
<1>2. resources = commitOrder
  BY <1>1, Resources DEF Control
<1>3. tx \in Job
  BY <1>1, TransactionJob
<1>4. /\ UNCHANGED <<queue, tx>>
      /\ phase' \in {"finishing", "after"} /\ resources' # commitOrder
  BY <1>1, <1>2, Resources DEF FinishDatabase, FinishDatabaseFails,
       FinishedOne, Rollback
<1>5. status' = [status EXCEPT ![tx] = "PENDING"] \/ UNCHANGED status
  BY DEF FinishDatabase, FinishDatabaseFails, Store
<1> QED
  BY <1>1, <1>2, <1>3, <1>4, <1>5 DEF Records

(* Records after every step.                                               *)
LEMMA RecordsStep ==
  ASSUME Control, Records, [Next]_vars
  PROVE  Records'
<1>0. Submitted' = Submitted \/ queue' # queue
  BY DEF Submitted
<1>1. CASE FinishDatabase \/ FinishDatabaseFails
  <2>1. /\ tx \in Job /\ tx \notin Submitted
        /\ UNCHANGED <<queue, tx>> /\ Submitted' = Submitted
        /\ phase' \in {"finishing", "after"} /\ resources' # commitOrder
    BY <1>1, <1>0, StoreRecords
  <2>2. /\ status' \in [Job -> Status]
        /\ \A j \in Job : j # tx => status'[j] = status[j]
    BY <1>1, StoreRecords DEF Records, Status
  <2>3. \A j \in Job : j > tx => j # tx
    BY <2>1 DEF Job
  <2> QED
    BY <2>1, <2>2, <2>3 DEF Records
<1>2. CASE afterCommitHook
  <2>1. phase = "after" /\ phase' = "idle" /\ UNCHANGED <<status, tx, resources>>
        /\ (UNCHANGED queue \/ queue' = Append(queue, tx))
    BY <1>2 DEF afterCommitHook
  <2>2. tx \in Job
    BY <2>1, TransactionJob
  <2>3. queue' \in Seq(Job) /\ Submitted' \subseteq Submitted \cup {tx}
    BY <2>1, <2>2, AppendSubmitted DEF Records, Submitted
  <2>4. resources = <<>> /\ resources # commitOrder
    BY <2>1, Resources DEF Control
  <2>5. \A j \in Job : j > tx => j # tx
    BY <2>2 DEF Job
  <2> QED
    BY <2>1, <2>2, <2>3, <2>4, <2>5 DEF Records
<1>3. CASE Begin
  <2>1. /\ UNCHANGED <<status, queue, resources>> /\ tx' = tx + 1
        /\ phase = "idle" /\ tx' \in Job
    BY <1>3, TransactionConstants DEF Begin, sharedVars, Control, Job
  <2>2. tx' > tx /\ (\A j \in Job : j > tx' => j > tx)
    BY <2>1, TransactionConstants DEF Job, Control
  <2>3. resources # commitOrder
    BY <2>1, Resources DEF Control
  <2>4. Submitted' = Submitted
    BY <2>1, <1>0
  <2> QED
    BY <2>1, <2>2, <2>3, <2>4 DEF Records
<1>4. CASE ~FinishDatabase /\ ~FinishDatabaseFails /\ ~afterCommitHook /\ ~Begin
  <2>1. UNCHANGED <<status, queue>> /\ Submitted' = Submitted
    BY <1>0, <1>4, OtherSteps
  <2>2. UNCHANGED tx /\ (phase' # "idle" => phase # "idle")
    BY <1>4 DEF Next, vars, localVars, ChangeModel, addJob, abort,
         beforeCompletionHook, Prepare, PrepareFails, Rollback, FinishChannel,
         FinishChannelFails, FinishedOne, Crash, OtherCommit
  <2>3. phase' \in {"active", "hooked"} => phase \in {"active", "hooked"}
    BY <1>4 DEF Next, vars, localVars, ChangeModel, addJob, abort,
         beforeCompletionHook, Prepare, PrepareFails, Rollback, FinishChannel,
         FinishChannelFails, FinishedOne, Crash, OtherCommit
  <2>4. resources' = commitOrder
          => phase \in {"active", "hooked"} \/ resources = commitOrder
    <3>1. CASE FinishChannel \/ FinishChannelFails
      <4>1. Head(resources) = "channel" /\ resources' = Tail(resources)
            /\ phase = "finishing"
        BY <3>1 DEF FinishChannel, FinishChannelFails, FinishedOne
      <4> QED
        BY <4>1, Resources DEF Control
    <3>2. CASE ~FinishChannel /\ ~FinishChannelFails
      BY <1>4, <3>2, Resources DEF Next, vars, localVars, ChangeModel, addJob,
           abort, beforeCompletionHook, Prepare, PrepareFails, Rollback,
           Crash, OtherCommit
    <3> QED
      BY <3>1, <3>2
  <2> QED
    BY <2>1, <2>2, <2>3, <2>4 DEF Records
<1> QED
  BY <1>1, <1>2, <1>3, <1>4

(* Every step is one of JobSubmission's or leaves its variables alone.     *)
LEMMA StepImplementsSubmission ==
  ASSUME Control, Records, [Next]_vars
  PROVE  [Submission!Next]_Submission!submissionVars
<1> USE DEF Submission!submissionVars
<1>1. CASE FinishDatabase \/ FinishDatabaseFails
  <2>1. CASE UNCHANGED status
    BY <1>1, <2>1, StoreRecords
  <2>2. CASE status' = [status EXCEPT ![tx] = "PENDING"]
    <3>1. {j \in Job : status'[j] # "NONE"}
            = {j \in Job : status[j] # "NONE"} \cup {tx}
      BY <1>1, <2>2, StoreRecords DEF Records
    <3>2. PICK j \in Job : j = tx
      BY <1>1, StoreRecords
    <3>3. Submission!Record(j)
      BY <1>1, <2>2, <3>1, <3>2, StoreRecords
         DEF Submission!Record, Submitted
    <3> QED
      BY <3>3 DEF Submission!Next
  <2> QED
    BY <1>1, <2>1, <2>2, StoreRecords
<1>2. CASE afterCommitHook
  <2>1. phase = "after" /\ UNCHANGED status
        /\ (UNCHANGED queue \/ queue' = Append(queue, tx))
    BY <1>2 DEF afterCommitHook
  <2>2. tx \in Job /\ tx \notin Submitted
    BY <2>1, TransactionJob DEF Records
  <2>3. CASE UNCHANGED queue
    BY <2>1, <2>3
  <2>4. CASE queue' = Append(queue, tx)
    <3>1. PICK j \in Job : j = tx
      BY <2>2
    <3>2. Submission!Submit(j)
      BY <2>1, <2>2, <2>4, <3>1, AppendSubmitted
         DEF Submission!Submit, Submitted, Records
    <3> QED
      BY <3>2 DEF Submission!Next
  <2> QED
    BY <2>1, <2>3, <2>4
<1>3. CASE ~FinishDatabase /\ ~FinishDatabaseFails /\ ~afterCommitHook
  BY <1>3, OtherSteps
<1> QED
  BY <1>1, <1>2, <1>3

(* However many transactions, conflicts, failures and crashes there are,   *)
(* a job is submitted at most once and never before its record.            *)
THEOREM SubmissionRefinement == Spec => ImplementsSubmission
<1>1. Init => Records /\ Submission!Init
  <2> SUFFICES ASSUME Init PROVE Records /\ Submission!Init
    OBVIOUS
  <2>1. /\ status = [j \in Job |-> "NONE"] /\ queue = <<>> /\ phase = "idle"
        /\ resources # commitOrder
    BY Resources DEF Init
  <2>2. {j \in Job : status[j] # "NONE"} = {} /\ Submitted = {}
    BY <2>1 DEF Submitted
  <2> QED
    BY <2>1, <2>2 DEF Records, Status, Submission!Init, Submitted
<1>2. Control /\ Records /\ [Next]_vars => Control' /\ Records'
  BY ControlStep, RecordsStep
<1>3. Control /\ Records /\ [Next]_vars
        => [Submission!Next]_Submission!submissionVars
  BY StepImplementsSubmission
<1> QED
  BY <1>1, <1>2, <1>3, StartsInOrder, PTL
     DEF Spec, ImplementsSubmission, Submission!Spec

-----------------------------------------------------------------------------
(* The next two lemmas say that the folds of the model are those of a step *)
(* given as a function, which SequenceFolds speaks of.                     *)

(* What a consumer can know, and hearing an event as a function.           *)
Knowledge == [Object -> Content]
Hearing == [p \in Knowledge \X Event |-> Hear(p[1], p[2])]

(* An event changes what a consumer knows to contents.                     *)
LEMMA HearingIs ==
  /\ Hearing \in [Knowledge \X Event -> Knowledge]
  /\ \A known \in Knowledge : \A e \in Event :
       Hearing[<<known, e>>] = Hear(known, e)
<1>1. ASSUME NEW known \in Knowledge, NEW e \in Event
      PROVE  Hear(known, e) \in Knowledge
  <2>1. 0 \in Content /\ e.content \in Content /\ e.ob \in Object
    BY TransactionConstants DEF Content, Event
  <2> QED
    BY <2>1 DEF Hear, Knowledge
<1> QED
  BY <1>1 DEF Hearing

(* Hearing events one by one is the fold of that step.                     *)
LEMMA HeardFold ==
  ASSUME NEW known \in Knowledge, NEW s \in Seq(Event)
  PROVE  FoldLeft(Hear, known, s) = Folded(Hearing, known, s)
<1> DEFINE Is(f) == f = [t \in SUBSET DOMAIN s |->
                           IF t = {} THEN known
                           ELSE Hear(f[t \ {Max(t)}], s[Max(t)])]
           it == CHOOSE f : Is(f)
<1>1. /\ DOMAIN s = 1..Len(s) /\ Len(s) \in Nat
      /\ \A k \in 1..Len(s) : s[k] \in Event
  OBVIOUS
<1>2. PICK g \in [SUBSET DOMAIN s -> Knowledge] :
        Table(Hearing, known, s, g) /\ Run(Knowledge, Hearing, known, s, g)
  BY HearingIs, FoldedTable
<1>3. ASSUME NEW t \in SUBSET DOMAIN s, t # {}
      PROVE  Max(t) \in DOMAIN s
  <2>1. t \in SUBSET (0..Len(s))
    BY <1>1
  <2> QED
    BY <1>1, <1>3, <2>1, Greatest
<1>4. Is(g)
  <2>1. \A t \in SUBSET DOMAIN s :
          g[t] = IF t = {} THEN known
                 ELSE Hear(g[t \ {Max(t)}], s[Max(t)])
    BY <1>1, <1>2, <1>3, HearingIs DEF Table
  <2> QED
    BY <2>1, Zenon
<1> HIDE DEF Is
<1>5. Is(it)
  BY <1>4
<1>6. FoldLeft(Hear, known, s) = it[DOMAIN s]
  BY DEF FoldLeft, MapThenFoldSet, Is
<1> HIDE DEF it
<1>7. \A t \in SUBSET DOMAIN s :
        it[t] = IF t = {} THEN known
                ELSE Hear(it[t \ {Max(t)}], s[Max(t)])
  BY <1>5, Zenon DEF Is
<1>8. it[{}] = known
  BY <1>7
<1>9. ASSUME NEW k \in 1..Len(s), it[1..(k - 1)] = g[1..(k - 1)]
      PROVE  it[1..k] = g[1..k]
  <2>1. /\ 1..k \in SUBSET DOMAIN s /\ 1..k # {} /\ Max(1..k) = k
        /\ (1..k) \ {k} = 1..(k - 1)
    BY <1>1, FirstPlaces
  <2>2. it[1..k] = Hear(it[1..(k - 1)], s[k])
    BY <1>7, <2>1
  <2>3. /\ g[1..k] = Hearing[<<g[1..(k - 1)], s[k]>>]
        /\ g[1..(k - 1)] \in Knowledge
    BY <1>1, <1>2 DEF Run
  <2>4. Hearing[<<g[1..(k - 1)], s[k]>>] = Hear(g[1..(k - 1)], s[k])
    BY <1>1, <2>3, HearingIs
  <2> QED
    BY <1>9, <2>2, <2>3, <2>4
<1>10. it[DOMAIN s] = Folded(Hearing, known, s)
  <2>1. Follows(it, g, Len(s))
    BY <1>9 DEF Follows
  <2> QED
    BY <1>2, <1>8, <2>1, SameRun
<1> QED
  BY <1>6, <1>10

(* Building the events of the messages, as a function.                     *)
Building == [p \in Seq(Msg) \X Msg |-> Publisher!Built(p[1], p[2])]

(* It appends a message or leaves the events as they are.                  *)
LEMMA BuildingIs ==
  /\ Building \in [Seq(Msg) \X Msg -> Seq(Msg)]
  /\ \A sofar \in Seq(Msg) : \A m \in Msg :
       Building[<<sofar, m>>] = Publisher!Built(sofar, m)
<1>1. ASSUME NEW sofar \in Seq(Msg), NEW m \in Msg
      PROVE  Publisher!Built(sofar, m) \in Seq(Msg)
  BY DEF Publisher!Built
<1> QED
  BY <1>1 DEF Building

(* Building them one by one is the fold of that step.                      *)
LEMMA BuiltFold ==
  ASSUME NEW s \in Seq(Msg)
  PROVE  FoldLeft(Publisher!Built, <<>>, s) = Folded(Building, <<>>, s)
<1> DEFINE Is(f) == f = [t \in SUBSET DOMAIN s |->
                           IF t = {} THEN <<>>
                           ELSE Publisher!Built(f[t \ {Max(t)}], s[Max(t)])]
           it == CHOOSE f : Is(f)
<1>1. /\ DOMAIN s = 1..Len(s) /\ Len(s) \in Nat /\ <<>> \in Seq(Msg)
      /\ \A k \in 1..Len(s) : s[k] \in Msg
  OBVIOUS
<1>2. PICK g \in [SUBSET DOMAIN s -> Seq(Msg)] :
        Table(Building, <<>>, s, g) /\ Run(Seq(Msg), Building, <<>>, s, g)
  BY <1>1, BuildingIs, FoldedTable
<1>3. ASSUME NEW t \in SUBSET DOMAIN s, t # {}
      PROVE  Max(t) \in DOMAIN s
  <2>1. t \in SUBSET (0..Len(s))
    BY <1>1
  <2> QED
    BY <1>1, <1>3, <2>1, Greatest
<1>4. Is(g)
  <2>1. \A t \in SUBSET DOMAIN s :
          g[t] = IF t = {} THEN <<>>
                 ELSE Publisher!Built(g[t \ {Max(t)}], s[Max(t)])
    BY <1>1, <1>2, <1>3, BuildingIs DEF Table
  <2> QED
    BY <2>1, Zenon
<1> HIDE DEF Is
<1>5. Is(it)
  BY <1>4
<1>6. FoldLeft(Publisher!Built, <<>>, s) = it[DOMAIN s]
  BY DEF FoldLeft, MapThenFoldSet, Is
<1> HIDE DEF it
<1>7. \A t \in SUBSET DOMAIN s :
        it[t] = IF t = {} THEN <<>>
                ELSE Publisher!Built(it[t \ {Max(t)}], s[Max(t)])
  BY <1>5, Zenon DEF Is
<1>8. it[{}] = <<>>
  BY <1>7
<1>9. ASSUME NEW k \in 1..Len(s), it[1..(k - 1)] = g[1..(k - 1)]
      PROVE  it[1..k] = g[1..k]
  <2>1. /\ 1..k \in SUBSET DOMAIN s /\ 1..k # {} /\ Max(1..k) = k
        /\ (1..k) \ {k} = 1..(k - 1)
    BY <1>1, FirstPlaces
  <2>2. it[1..k] = Publisher!Built(it[1..(k - 1)], s[k])
    BY <1>7, <2>1
  <2>3. /\ g[1..k] = Building[<<g[1..(k - 1)], s[k]>>]
        /\ g[1..(k - 1)] \in Seq(Msg)
    BY <1>1, <1>2 DEF Run
  <2>4. Building[<<g[1..(k - 1)], s[k]>>]
          = Publisher!Built(g[1..(k - 1)], s[k])
    BY <1>1, <2>3, BuildingIs
  <2> QED
    BY <1>9, <2>2, <2>3, <2>4
<1>10. it[DOMAIN s] = Folded(Building, <<>>, s)
  <2>1. Follows(it, g, Len(s))
    BY <1>9 DEF Follows
  <2> QED
    BY <1>2, <1>8, <2>1, SameRun
<1> QED
  BY <1>6, <1>10

-----------------------------------------------------------------------------
(* The kinds of events that change what a consumer knows; a list has none  *)
(* for an object.                                                          *)
Telling == {"ADDED", "REMOVED", "MODIFIED"}
Silent(s, o) == \A k \in Telling : ~Says(s, o, k)

(* Events that tell a consumer that knows the content b of an object that  *)
(* it is w, in whatever order they come.                                   *)
Tells(s, o, b, w) ==
  /\ \A i \in 1..Len(s) :
       s[i].ob = o /\ s[i].kind \in {"ADDED", "MODIFIED"} => s[i].content = w
  /\ Says(s, o, "REMOVED") => w = 0
  /\ \/ b = w
     \/ Says(s, o, "ADDED")
     \/ Says(s, o, "REMOVED")
     \/ b # 0 /\ Says(s, o, "MODIFIED")

(* What one event does to the knowledge of an object.                      *)
LEMMA HearOne ==
  ASSUME NEW known \in Knowledge, NEW e \in Event, NEW o \in Object
  PROVE  Hear(known, e)[o] =
           IF e.ob # o THEN known[o]
           ELSE IF e.kind = "ADDED" THEN e.content
           ELSE IF e.kind = "REMOVED" THEN 0
           ELSE IF e.kind = "MODIFIED" /\ known[o] # 0 THEN e.content
           ELSE known[o]
<1>1. e.ob \in Object
  BY DEF Event
<1>2. CASE e.kind = "ADDED"
  BY <1>1, <1>2 DEF Hear, Knowledge
<1>3. CASE e.kind = "REMOVED"
  BY <1>1, <1>3 DEF Hear, Knowledge
<1>4. CASE e.kind = "MODIFIED" /\ known[e.ob] # 0
  BY <1>1, <1>4 DEF Hear, Knowledge
<1>5. CASE /\ e.kind # "ADDED" /\ e.kind # "REMOVED"
           /\ ~(e.kind = "MODIFIED" /\ known[e.ob] # 0)
  <2>1. Hear(known, e) = known
    BY <1>5, Zenon DEF Hear
  <2> QED
    BY <1>5, <2>1
<1> QED
  BY <1>2, <1>3, <1>4, <1>5

(* Such events do tell it.                                                 *)
LEMMA HeardIsTold ==
  ASSUME NEW known \in Knowledge, NEW s \in Seq(Event)
  PROVE  /\ FoldLeft(Hear, known, s) \in Knowledge
         /\ \A o \in Object : \A w : 
              Tells(s, o, known[o], w) => FoldLeft(Hear, known, s)[o] = w
<1>1. PICK g : Run(Knowledge, Hearing, known, s, g)
  BY HearingIs, FoldedTable
<1>2. /\ Len(s) \in Nat /\ DOMAIN s = 1..Len(s)
      /\ \A k \in 1..Len(s) : s[k] \in Event
  OBVIOUS
<1>3. FoldLeft(Hear, known, s) = g[1..Len(s)] /\ 1..0 = {}
  BY <1>1, <1>2, HeardFold DEF Run
<1>4. FoldLeft(Hear, known, s) \in Knowledge
  BY <1>1, <1>2, <1>3 DEF Run
<1>5. ASSUME NEW o \in Object, NEW w, Tells(s, o, known[o], w)
      PROVE  g[1..Len(s)][o] = w
  <2> DEFINE b == known[o]
             Unchanged(k) ==
               /\ g[1..k][o] = b
               /\ \A i \in 1..k : s[i].ob = o =>
                    /\ s[i].kind \notin {"ADDED", "REMOVED"}
                    /\ s[i].kind = "MODIFIED" => b = 0
             S == {k \in 0..Len(s) : g[1..k][o] = w \/ Unchanged(k)}
  <2>1. 0 \in S
    BY <1>1, <1>2, <1>3 DEF Run
  <2>2. ASSUME NEW k \in 1..Len(s), k - 1 \in S PROVE k \in S
    <3>1. /\ k \in 0..Len(s) /\ k - 1 \in 0..Len(s) /\ s[k] \in Event
          /\ 1..k = 1..(k - 1) \cup {k}
      BY <1>2
    <3>2. /\ g[1..k] = Hearing[<<g[1..(k - 1)], s[k]>>]
          /\ g[1..(k - 1)] \in Knowledge
      BY <1>1, <3>1 DEF Run
    <3>3. g[1..k] = Hear(g[1..(k - 1)], s[k])
      BY <3>1, <3>2, HearingIs
    <3>4. g[1..k][o] =
            IF s[k].ob # o THEN g[1..(k - 1)][o]
            ELSE IF s[k].kind = "ADDED" THEN s[k].content
            ELSE IF s[k].kind = "REMOVED" THEN 0
            ELSE IF s[k].kind = "MODIFIED" /\ g[1..(k - 1)][o] # 0
                 THEN s[k].content
            ELSE g[1..(k - 1)][o]
      BY <3>1, <3>2, <3>3, HearOne
    <3>5. /\ s[k].ob = o /\ s[k].kind \in {"ADDED", "MODIFIED"}
               => s[k].content = w
          /\ s[k].ob = o /\ s[k].kind = "REMOVED" => w = 0
      BY <1>5 DEF Tells, Says
    <3>6. CASE g[1..(k - 1)][o] = w
      BY <3>1, <3>4, <3>5, <3>6
    <3>7. CASE Unchanged(k - 1)
      <4>1. CASE s[k].ob = o /\ s[k].kind \in {"ADDED", "REMOVED"}
        BY <3>1, <3>4, <3>5, <4>1
      <4>2. CASE s[k].ob = o /\ s[k].kind = "MODIFIED" /\ b # 0
        BY <3>1, <3>4, <3>5, <3>7, <4>2
      <4>3. CASE /\ s[k].ob # o \/ s[k].kind \notin {"ADDED", "REMOVED"}
                 /\ s[k].ob = o /\ s[k].kind = "MODIFIED" => b = 0
        <5>1. g[1..k][o] = b
          BY <3>4, <3>7, <4>3
        <5>2. Unchanged(k)
          BY <3>1, <3>7, <4>3, <5>1
        <5> QED
          BY <3>1, <5>2
      <4> QED
        BY <4>1, <4>2, <4>3
    <3> QED
      BY <2>2, <3>6, <3>7
  <2> HIDE DEF S
  <2>3. Len(s) \in 0..Len(s)
    BY <1>2
  <2>4. Len(s) \in S
    BY <1>2, <2>1, <2>2, <2>3, Induction
  <2>5. CASE Unchanged(Len(s))
    BY <1>5, <2>5 DEF Tells, Says
  <2> QED
    BY <2>4, <2>5 DEF S
<1> QED
  BY <1>3, <1>4, <1>5

-----------------------------------------------------------------------------
(* What a list with one more element says.                                 *)
LEMMA AppendSays ==
  ASSUME NEW s \in Seq(Msg), NEW e \in Msg, NEW o, NEW k
  PROVE  Says(Append(s, e), o, k) <=> Says(s, o, k) \/ (e.ob = o /\ e.kind = k)
<1> DEFINE t == Append(s, e)
<1>1. /\ Len(t) = Len(s) + 1 /\ Len(s) \in Nat /\ t[Len(s) + 1] = e
      /\ \A i \in 1..Len(s) : t[i] = s[i]
  OBVIOUS
<1>2. 1..Len(t) = 1..Len(s) \cup {Len(s) + 1}
  BY <1>1
<1> HIDE DEF t
<1> QED
  BY <1>1, <1>2 DEF Says, t

(* What is left of the messages when the events are built of them.         *)
Speaks(built, s) ==
  \A o \in Object : \A k \in Telling :
    Says(built, o, k) <=> Says(s, o, k) /\ ~(k = "MODIFIED" /\ o \in added)

(* A modification of an object is dropped if there is an addition of it.   *)
LEMMA BuiltSpeaks ==
  ASSUME NEW s \in Seq(Msg)
  PROVE  /\ FoldLeft(Publisher!Built, <<>>, s) \in Seq(Msg)
         /\ Speaks(FoldLeft(Publisher!Built, <<>>, s), s)
<1> DEFINE F(t) == Folded(Building, <<>>, t)
           S == {t \in Seq(Msg) : Speaks(F(t), t)}
<1>1. /\ Building \in [Seq(Msg) \X Msg -> Seq(Msg)] /\ <<>> \in Seq(Msg)
      /\ \A sofar \in Seq(Msg) : \A m \in Msg :
           Building[<<sofar, m>>] = Publisher!Built(sofar, m)
  BY BuildingIs
<1>2. F(<<>>) = <<>>
  <2>1. /\ Folded(Building, <<>>, <<>>) = <<>>
        /\ Folded(Building, <<>>, s) \in Seq(Msg)
    BY <1>1, FoldedValue
  <2> QED
    BY <2>1
<1>3. ASSUME NEW t \in Seq(Msg) PROVE F(t) \in Seq(Msg)
  BY <1>1, FoldedValue
<1>4. ASSUME NEW t \in Seq(Msg), NEW e \in Msg
      PROVE  F(Append(t, e)) = Publisher!Built(F(t), e)
  <2>1. FoldsLast(Building, <<>>, t, e)
    BY <1>1, FoldedNext
  <2> QED
    BY <1>1, <1>3, <2>1 DEF FoldsLast
<1> HIDE DEF F
<1>5. <<>> \in S
  BY <1>1, <1>2 DEF Speaks, Says
<1>6. ASSUME NEW t \in Seq(Msg), NEW e \in Msg, t \in S
      PROVE  Append(t, e) \in S
  <2>1. Append(t, e) \in Seq(Msg) /\ F(t) \in Seq(Msg)
    BY <1>3
  <2>2. Speaks(F(t), t)
    BY <1>6
  <2>3. ASSUME NEW o \in Object, NEW k \in Telling
        PROVE  Says(F(Append(t, e)), o, k)
                 <=> Says(Append(t, e), o, k) /\ ~(k = "MODIFIED" /\ o \in added)
    <3>1. Says(Append(t, e), o, k)
            <=> Says(t, o, k) \/ (e.ob = o /\ e.kind = k)
      BY AppendSays
    <3>2. Says(Append(F(t), e), o, k)
            <=> Says(F(t), o, k) \/ (e.ob = o /\ e.kind = k)
      BY <2>1, AppendSays
    <3>3. Says(F(t), o, k) <=> Says(t, o, k) /\ ~(k = "MODIFIED" /\ o \in added)
      BY <2>2 DEF Speaks
    <3>4. CASE e.kind = "MODIFIED" /\ e.ob \in added
      <4>1. F(Append(t, e)) = F(t)
        BY <1>4, <3>4 DEF Publisher!Built
      <4> QED
        BY <3>1, <3>3, <3>4, <4>1
    <3>5. CASE ~(e.kind = "MODIFIED" /\ e.ob \in added)
      <4>1. F(Append(t, e)) = Append(F(t), e)
        BY <1>4, <3>5 DEF Publisher!Built
      <4> QED
        BY <3>1, <3>2, <3>3, <3>5, <4>1
    <3> QED
      BY <3>4, <3>5
  <2> QED
    BY <2>1, <2>3 DEF Speaks
<1> HIDE DEF S
<1>7. s \in S
  BY <1>5, <1>6, ListInduction
<1>8. FoldLeft(Publisher!Built, <<>>, s) = F(s)
  BY BuiltFold DEF F
<1> QED
  BY <1>3, <1>7, <1>8 DEF S

(* The messages of a transaction with the moves before them, which tell a  *)
(* consumer nothing.                                                       *)
Notice == [kind : Publisher!Kinds \cup {"MOVED"}, ob : Object]

(* What the events of a transaction say.                                   *)
LEMMA EventsSpeak ==
  ASSUME Published
  PROVE  Publisher!events \in Seq(Notice) /\ Speaks(Publisher!events, msgs)
<1> DEFINE a == [i \in 1..Len(moved) |-> Publisher!Message("MOVED", moved[i])]
           b == FoldLeft(Publisher!Built, <<>>, msgs)
<1>1. msgs \in Seq(Msg) /\ moved \in Seq(Object) /\ Msg \subseteq Notice
  BY DEF Published, Publisher!TypeOK, Msg, Notice
<1>2. /\ a \in Seq(Notice) /\ Len(a) = Len(moved)
      /\ \A i \in 1..Len(a) : a[i].kind = "MOVED"
  <2>1. /\ Len(moved) \in Nat
        /\ \A i \in 1..Len(moved) : Publisher!Message("MOVED", moved[i]) \in Notice
    BY <1>1 DEF Publisher!Message, Notice
  <2>2. a \in Seq(Notice) /\ Len(a) = Len(moved)
    BY <2>1
  <2>3. \A i \in 1..Len(a) : a[i] = Publisher!Message("MOVED", moved[i])
    BY <2>2
  <2> QED
    BY <2>2, <2>3 DEF Publisher!Message
<1>3. b \in Seq(Notice) /\ Speaks(b, msgs)
  <2>1. b \in Seq(Msg) /\ Speaks(b, msgs)
    BY <1>1, BuiltSpeaks
  <2> HIDE DEF b
  <2> QED
    BY <1>1, <2>1
<1>4. Publisher!events = a \o b
  BY DEF Publisher!events, Publisher!FoldLeft, FoldLeft,
         Publisher!MapThenFoldSet, MapThenFoldSet, Publisher!Max, Max
<1> HIDE DEF a, b
<1>5. /\ a \o b \in Seq(Notice) /\ Len(a) \in Nat
      /\ \A i \in 1..Len(b) : (a \o b)[Len(a) + i] = b[i]
                              /\ Len(a) + i \in 1..Len(a \o b)
      /\ \A i \in 1..Len(a \o b) :
              \/ i \in 1..Len(a) /\ (a \o b)[i] = a[i]
              \/ i > Len(a) /\ i - Len(a) \in 1..Len(b)
                 /\ (a \o b)[i] = b[i - Len(a)]
  BY <1>2, <1>3, Joined
<1>6. ASSUME NEW o \in Object, NEW k \in Telling
      PROVE  Says(a \o b, o, k) <=> Says(b, o, k)
  <2>1. k # "MOVED"
    BY DEF Telling
  <2>2. ASSUME Says(b, o, k) PROVE Says(a \o b, o, k)
    BY <1>5, <2>2 DEF Says
  <2>3. ASSUME Says(a \o b, o, k) PROVE Says(b, o, k)
    <3>1. PICK i \in 1..Len(a \o b) : (a \o b)[i].ob = o /\ (a \o b)[i].kind = k
      BY <2>3 DEF Says
    <3> QED
      BY <1>2, <1>5, <2>1, <3>1 DEF Says
  <2> QED
    BY <2>2, <2>3
<1> QED
  BY <1>3, <1>4, <1>5, <1>6 DEF Speaks

(* The events that beforeCompletionHook puts into the channel say it with  *)
(* the contents the objects have.                                          *)
LEMMA OutboxSpeaks ==
  ASSUME Published, view \in [Object -> Content], beforeCompletionHook
  PROVE  /\ outbox' \in Seq(Event) /\ Speaks(outbox', msgs)
         /\ \A i \in 1..Len(outbox') : outbox'[i].content = view[outbox'[i].ob]
<1> DEFINE e == Publisher!events
<1>1. e \in Seq(Notice) /\ Speaks(e, msgs)
  BY EventsSpeak
<1>2. outbox' = [i \in 1..Len(e) |-> [kind |-> e[i].kind, ob |-> e[i].ob,
                                      content |-> view[e[i].ob]]]
  BY DEF beforeCompletionHook
<1> HIDE DEF e
<1>3. /\ Len(e) \in Nat
      /\ \A i \in 1..Len(e) : [kind |-> e[i].kind, ob |-> e[i].ob,
                               content |-> view[e[i].ob]] \in Event
  <2>1. Len(e) \in Nat /\ \A i \in 1..Len(e) : e[i] \in Notice
    BY <1>1
  <2>2. ASSUME NEW n \in Notice
        PROVE  [kind |-> n.kind, ob |-> n.ob, content |-> view[n.ob]] \in Event
    <3>1. n.kind \in Publisher!Kinds \cup {"MOVED"} /\ n.ob \in Object
      BY DEF Notice
    <3>2. view[n.ob] \in Content
      BY <3>1
    <3> QED
      BY <3>1, <3>2 DEF Event
  <2> QED
    BY <2>1, <2>2
<1>4. outbox' \in Seq(Event) /\ Len(outbox') = Len(e)
  BY <1>2, <1>3
<1>5. \A i \in 1..Len(e) :
        /\ outbox'[i].kind = e[i].kind /\ outbox'[i].ob = e[i].ob
        /\ outbox'[i].content = view[e[i].ob]
  BY <1>2
<1>6. \A o \in Object : \A k \in Telling : Says(outbox', o, k) <=> Says(e, o, k)
  BY <1>4, <1>5 DEF Says
<1> QED
  BY <1>1, <1>4, <1>5, <1>6 DEF Speaks

-----------------------------------------------------------------------------
(* While a transaction makes its changes, the sets of its publisher say    *)
(* what became of each object.                                             *)
Changed ==
  phase = "active" =>
    \A o \in Object :
      /\ o \in added => view[o] = tx
      /\ o \in removed => view[o] = 0
      /\ o \notin added \cup removed =>
           view[o] = IF o \in modified /\ base[o] # 0 THEN tx ELSE base[o]
      /\ o \in modified <=> Says(msgs, o, "MODIFIED")
      /\ base[o] # tx

(* The database has not committed the changes that are in the channel.     *)
Unfinished == phase = "hooked" \/ resources = commitOrder

(* The events in the channel tell a consumer that knows what the           *)
(* transaction began with what it ends with; they are silent on objects    *)
(* it did not change, which others may.                                    *)
Outgoing ==
  Unfinished => \A o \in Object :
    /\ Tells(outbox, o, base[o], view[o])
    /\ view[o] = base[o] /\ base[o] # 0 => Silent(outbox, o)

(* What has been voted on stays so until the database finishes.            *)
NoConflict == resources = commitOrder => \A o \in Written : db[o] = base[o]

(* Another process changes only objects there are.                         *)
StayGone ==
  phase = "active" \/ Unfinished => \A o \in Object : base[o] = 0 => db[o] = 0

(* The consumer believes what is committed but while a commit waits in the *)
(* channel: then the events there will tell it.                            *)
Agreed == resources # <<"channel">> => \A o \in Object \ lost : told[o] = db[o]
Late == resources = <<"channel">> =>
          \A o \in Object \ lost : Tells(outbox, o, told[o], db[o])

(* The rest of the types.                                                  *)
Types ==
  /\ calls \in 0..MaxCalls /\ outbox \in Seq(Event)
  /\ outbox # <<>> => phase \in {"hooked", "finishing"}
  /\ told \in Knowledge /\ committed \subseteq 1..MaxTransactions
  /\ lost \subseteq Object

(* All of it.                                                              *)
IInv ==
  /\ Published /\ Control /\ Contents /\ Records /\ Types
  /\ Changed /\ Outgoing /\ NoConflict /\ StayGone /\ Agreed /\ Late

(* What has been written are contents.                                     *)
LEMMA IssuedIsContent ==
  ASSUME Control
  PROVE  Issued \subseteq Content /\ 0 \in Issued
BY TransactionConstants DEF Control, Issued, Content

(* Events that do not speak of an object tell nothing new of it.           *)
LEMMA SilentTells ==
  ASSUME NEW s, NEW o, NEW b, Silent(s, o)
  PROVE  Tells(s, o, b, b)
BY DEF Silent, Telling, Says, Tells

(* The objects of no event are those all events are silent on.             *)
LEMMA UnnamedIsSilent ==
  ASSUME NEW s, NEW o, o \notin Objects(s)
  PROVE  Silent(s, o)
BY DEF Objects, Silent, Says

(* Silence tells nothing else.                                             *)
LEMMA SilentSame ==
  ASSUME NEW s, NEW o, NEW b, NEW w, Silent(s, o), Tells(s, o, b, w)
  PROVE  b = w
BY DEF Silent, Telling, Tells

(* A call of the publisher leaves the modifications it has noted.          *)
LEMMA FinalKeepsModified ==
  ASSUME Published, NEW o \in Object,
         Publisher!publishAdd(o) \/ Publisher!publishRemove(o)
  PROVE  \A p \in Object :
           Says(msgs', p, "MODIFIED") <=> Says(msgs, p, "MODIFIED")
<1>0. msgs \in Seq(Msg)
  BY DEF Published, Publisher!TypeOK, Msg
<1>1. CASE UNCHANGED msgs
  BY <1>1, Zenon DEF Says
<1>2. ASSUME NEW r \in Seq(Msg), NEW k \in Final,
             msgs' = Append(r, Publisher!Message(k, o)),
             \A p \in Object : Says(r, p, "MODIFIED") <=> Says(msgs, p, "MODIFIED")
      PROVE  \A p \in Object :
               Says(msgs', p, "MODIFIED") <=> Says(msgs, p, "MODIFIED")
  <2> DEFINE e == Publisher!Message(k, o)
  <2>1. e \in Msg /\ e.kind # "MODIFIED"
    BY DEF Msg, Final, Publisher!Message, Publisher!Kinds
  <2> HIDE DEF e
  <2>2. ASSUME NEW p \in Object
        PROVE  Says(Append(r, e), p, "MODIFIED") <=> Says(r, p, "MODIFIED")
    BY <2>1, AppendSays
  <2> QED
    BY <1>2, <2>2 DEF e
<1>3. ASSUME NEW k \in Final, NEW l \in Final,
             msgs' = Append(IF One(msgs, o, l)
                            THEN Publisher!Without(Publisher!Message(l, o))
                            ELSE msgs, Publisher!Message(k, o))
      PROVE  \A p \in Object :
               Says(msgs', p, "MODIFIED") <=> Says(msgs, p, "MODIFIED")
  <2>1. CASE One(msgs, o, l)
    BY <1>2, <1>3, <2>1, WithoutFinal
  <2>2. CASE ~One(msgs, o, l)
    BY <1>0, <1>2, <1>3, <2>2
  <2> QED
    BY <2>1, <2>2
<1>4. /\ o \in added <=> One(msgs, o, "ADDED")
      /\ o \in removed <=> One(msgs, o, "REMOVED")
  <2>1. One(msgs, o, "ADDED") => ~One(msgs, o, "REMOVED") /\ ~None(msgs, o)
    BY DEF One, None
  <2>2. One(msgs, o, "REMOVED") => ~None(msgs, o)
    BY DEF One, None
  <2> QED
    BY <2>1, <2>2 DEF Published, Agree
<1>5. "ADDED" \in Final /\ "REMOVED" \in Final
  BY DEF Final
<1>6. CASE Publisher!publishAdd(o)
  <2>1. \/ UNCHANGED msgs
        \/ msgs' = Append(IF One(msgs, o, "REMOVED")
                          THEN Publisher!Without(Publisher!Message("REMOVED", o))
                          ELSE msgs, Publisher!Message("ADDED", o))
    BY <1>4, <1>6, Zenon DEF Publisher!publishAdd
  <2> QED
    BY <1>1, <1>3, <1>5, <2>1
<1>7. CASE Publisher!publishRemove(o)
  <2>1. \/ UNCHANGED msgs
        \/ msgs' = Append(IF One(msgs, o, "ADDED")
                          THEN Publisher!Without(Publisher!Message("ADDED", o))
                          ELSE msgs, Publisher!Message("REMOVED", o))
    BY <1>4, <1>7, Zenon DEF Publisher!publishRemove
  <2> QED
    BY <1>1, <1>3, <1>5, <2>1
<1> QED
  BY <1>6, <1>7

(* A modification is noted once, unless the object is being added.         *)
LEMMA ModifiedIsSaid ==
  ASSUME Published, NEW o \in Object, Publisher!publishModified(o),
         \A p \in Object : p \in modified <=> Says(msgs, p, "MODIFIED")
  PROVE  /\ UNCHANGED <<added, removed>>
         /\ \A p \in Object : p \in modified' <=> Says(msgs', p, "MODIFIED")
         /\ o \notin added => modified' = modified \cup {o}
         /\ o \in added => modified' = modified
<1>1. CASE o \in added \cup modified
  <2>1. UNCHANGED <<added, removed, modified, msgs>>
    BY <1>1 DEF Publisher!publishModified
  <2>2. \A p \in Object : Says(msgs', p, "MODIFIED") <=> Says(msgs, p, "MODIFIED")
    BY <2>1
  <2> QED
    BY <1>1, <2>1, <2>2
<1>2. CASE o \notin added \cup modified
  <2> DEFINE e == Publisher!Message("MODIFIED", o)
  <2>1. /\ UNCHANGED <<added, removed>> /\ modified' = modified \cup {o}
        /\ msgs' = Append(msgs, e)
    BY <1>2 DEF Publisher!publishModified
  <2>2. e \in Msg /\ msgs \in Seq(Msg) /\ e.ob = o /\ e.kind = "MODIFIED"
    BY DEF Published, Publisher!TypeOK, Msg, Publisher!Message, Publisher!Kinds
  <2> HIDE DEF e
  <2>3. \A p \in Object : Says(msgs', p, "MODIFIED")
                            <=> Says(msgs, p, "MODIFIED") \/ p = o
    BY <2>1, <2>2, AppendSays
  <2> QED
    BY <1>2, <2>1, <2>3
<1> QED
  BY <1>1, <1>2

(* The other calls change neither sets nor modifications.                  *)
LEMMA OrganizersSayNothing ==
  ASSUME Published, NEW o \in Object,
         \/ Publisher!addToOrganizer(o) \/ Publisher!removeFromOrganizer(o)
         \/ Publisher!moveObject(o)
  PROVE  /\ UNCHANGED <<added, removed, modified>>
         /\ \A p \in Object :
              Says(msgs', p, "MODIFIED") <=> Says(msgs, p, "MODIFIED")
<1>1. UNCHANGED <<added, removed, modified>>
  BY DEF Publisher!addToOrganizer, Publisher!removeFromOrganizer,
         Publisher!moveObject
<1>2. \/ UNCHANGED msgs
      \/ \E k \in {"ADDRELATION", "REMOVERELATION"} :
           msgs' = Append(msgs, Publisher!Message(k, o))
  BY DEF Publisher!addToOrganizer, Publisher!removeFromOrganizer,
         Publisher!moveObject
<1>3. CASE UNCHANGED msgs
  BY <1>1, <1>3
<1>4. ASSUME NEW k \in {"ADDRELATION", "REMOVERELATION"},
             msgs' = Append(msgs, Publisher!Message(k, o))
      PROVE  \A p \in Object :
               Says(msgs', p, "MODIFIED") <=> Says(msgs, p, "MODIFIED")
  <2> DEFINE e == Publisher!Message(k, o)
  <2>1. e \in Msg /\ msgs \in Seq(Msg) /\ e.kind # "MODIFIED"
    BY DEF Published, Publisher!TypeOK, Msg, Publisher!Message, Publisher!Kinds
  <2> HIDE DEF e
  <2>2. ASSUME NEW p \in Object
        PROVE  Says(Append(msgs, e), p, "MODIFIED") <=> Says(msgs, p, "MODIFIED")
    BY <2>1, AppendSays
  <2> QED
    BY <1>4, <2>2 DEF e
<1> QED
  BY <1>1, <1>2, <1>3, <1>4

(* A change of the model and the call that tells of it go together.        *)
LEMMA ChangeIsNoted ==
  ASSUME Published, Published', Control, Contents, Changed, ChangeModel
  PROVE  Changed'
<1>1. PICK o \in Object :
       \/ /\ Publisher!publishAdd(o)
          /\ view' = [view EXCEPT ![o] = tx]
       \/ /\ Publisher!publishRemove(o)
          /\ view' = [view EXCEPT ![o] = 0]
       \/ /\ Publisher!publishModified(o)
          /\ view' = [view EXCEPT ![o] = IF @ = 0 THEN 0 ELSE tx]
       \/ /\ view[o] # 0
          /\ \/ Publisher!addToOrganizer(o)
             \/ Publisher!removeFromOrganizer(o)
             \/ Publisher!moveObject(o)
          /\ UNCHANGED view
  BY DEF ChangeModel
<1>2. /\ phase = "active" /\ UNCHANGED <<tx, base>> /\ tx # 0
      /\ view \in [Object -> Issued]
  BY DEF ChangeModel, Control, Contents
<1>3. ASSUME NEW p \in Object
      PROVE  /\ p \in added => view[p] = tx
             /\ p \in removed => view[p] = 0
             /\ p \notin added \cup removed =>
                  view[p] = IF p \in modified /\ base[p] # 0 THEN tx
                            ELSE base[p]
             /\ p \in modified <=> Says(msgs, p, "MODIFIED")
             /\ base[p] # tx
  BY <1>2 DEF Changed
<1>4. \A p \in Object : p \in modified <=> Says(msgs, p, "MODIFIED")
  BY <1>3
<1>5. added \cap removed = {} /\ added' \cap removed' = {}
  BY DEF Published, Agree
<1>6. CASE Publisher!publishAdd(o) /\ view' = [view EXCEPT ![o] = tx]
  <2>1. /\ added' = added \cup {o} /\ removed' = removed \ {o}
        /\ modified' = modified
    BY <1>5, <1>6 DEF Publisher!publishAdd
  <2>2. \A p \in Object : p \in modified' <=> Says(msgs', p, "MODIFIED")
    BY <1>4, <1>6, <2>1, FinalKeepsModified
  <2>3. view'[o] = tx /\ \A p \in Object : p # o => view'[p] = view[p]
    BY <1>2, <1>6
  <2> QED
    BY <1>2, <1>3, <2>1, <2>2, <2>3 DEF Changed
<1>7. CASE Publisher!publishRemove(o) /\ view' = [view EXCEPT ![o] = 0]
  <2>1. /\ removed' = removed \cup {o} /\ added' = added \ {o}
        /\ modified' = modified
    BY <1>5, <1>7 DEF Publisher!publishRemove
  <2>2. \A p \in Object : p \in modified' <=> Says(msgs', p, "MODIFIED")
    BY <1>4, <1>7, <2>1, FinalKeepsModified
  <2>3. view'[o] = 0 /\ \A p \in Object : p # o => view'[p] = view[p]
    BY <1>2, <1>7
  <2> QED
    BY <1>2, <1>3, <2>1, <2>2, <2>3 DEF Changed
<1>8. CASE /\ Publisher!publishModified(o)
           /\ view' = [view EXCEPT ![o] = IF @ = 0 THEN 0 ELSE tx]
  <2>1. /\ UNCHANGED <<added, removed>>
        /\ \A p \in Object : p \in modified' <=> Says(msgs', p, "MODIFIED")
        /\ o \notin added => modified' = modified \cup {o}
        /\ o \in added => modified' = modified
    BY <1>4, <1>8, ModifiedIsSaid
  <2>2. /\ view'[o] = IF view[o] = 0 THEN 0 ELSE tx
        /\ \A p \in Object : p # o => view'[p] = view[p]
    BY <1>2, <1>8
  <2>3. \A p \in Object : p # o => (p \in modified' <=> p \in modified)
    BY <2>1
  <2>4. ASSUME NEW p \in Object
        PROVE  /\ p \in added' => view'[p] = tx'
               /\ p \in removed' => view'[p] = 0
               /\ p \notin added' \cup removed' =>
                    view'[p] = IF p \in modified' /\ base'[p] # 0 THEN tx'
                               ELSE base'[p]
    <3>1. CASE p # o
      BY <1>2, <1>3, <2>1, <2>2, <2>3, <3>1
    <3>2. CASE p = o
      BY <1>2, <1>3, <2>1, <2>2, <3>2
    <3> QED
      BY <3>1, <3>2
  <2> QED
    BY <1>2, <1>3, <2>1, <2>4 DEF Changed
<1>9. CASE /\ \/ Publisher!addToOrganizer(o)
              \/ Publisher!removeFromOrganizer(o)
              \/ Publisher!moveObject(o)
           /\ UNCHANGED view
  <2>1. /\ UNCHANGED <<added, removed, modified>>
        /\ \A p \in Object :
             Says(msgs', p, "MODIFIED") <=> Says(msgs, p, "MODIFIED")
    BY <1>9, OrganizersSayNothing
  <2> QED
    BY <1>2, <1>3, <1>9, <2>1 DEF Changed
<1> QED
  BY <1>1, <1>6, <1>7, <1>8, <1>9

(* The sets of the publisher after every step.                             *)
LEMMA ChangedStep ==
  ASSUME Published, Published', Control, Contents, Changed, [Next]_vars
  PROVE  Changed'
<1>1. CASE Begin
  <2>1. /\ added' = {} /\ removed' = {} /\ modified' = {} /\ msgs' = <<>>
        /\ view' = db /\ base' = db /\ tx' = tx + 1 /\ tx < MaxTransactions
    BY <1>1 DEF Begin, Publisher!Reset
  <2>2. \A o \in Object : db[o] # tx + 1
    BY <2>1, TransactionConstants DEF Control, Contents, Issued
  <2>3. \A o \in Object : ~Says(msgs', o, "MODIFIED")
    BY <2>1 DEF Says
  <2> QED
    BY <2>1, <2>2, <2>3 DEF Changed
<1>2. CASE ChangeModel
  BY <1>2, ChangeIsNoted
<1>3. CASE addJob \/ OtherCommit \/ UNCHANGED vars
  <2>1. UNCHANGED <<phase, added, removed, modified, msgs, view, base, tx>>
    BY <1>3 DEF addJob, OtherCommit, vars, publisherVars, localVars
  <2>2. \A o \in Object : Says(msgs', o, "MODIFIED") <=> Says(msgs, o, "MODIFIED")
    BY <2>1
  <2> QED
    BY <2>1, <2>2 DEF Changed
<1>4. CASE ~Begin /\ ~ChangeModel /\ ~addJob /\ ~OtherCommit /\ ~UNCHANGED vars
  <2>1. phase' # "active"
    BY <1>4 DEF Next, abort, beforeCompletionHook, Prepare, PrepareFails,
         Rollback, FinishDatabase, FinishDatabaseFails, FinishedOne,
         FinishChannel, FinishChannelFails, afterCommitHook, Crash
  <2> QED
    BY <2>1 DEF Changed
<1> QED
  BY <1>1, <1>2, <1>3, <1>4

-----------------------------------------------------------------------------
(* The hook before the commit builds events that tell what the transaction *)
(* changed, and nothing of what it did not.                                *)
LEMMA HookTells ==
  ASSUME Published, Control, Contents, Changed, beforeCompletionHook
  PROVE  /\ outbox' \in Seq(Event)
         /\ \A o \in Object :
              /\ Tells(outbox', o, base[o], view[o])
              /\ view[o] = base[o] /\ base[o] # 0 => Silent(outbox', o)
<1>1. view \in [Object -> Content] /\ view \in [Object -> Issued]
  BY IssuedIsContent DEF Contents
<1>2. /\ outbox' \in Seq(Event) /\ Speaks(outbox', msgs)
      /\ \A i \in 1..Len(outbox') : outbox'[i].content = view[outbox'[i].ob]
  BY <1>1, OutboxSpeaks
<1>3. phase = "active" /\ tx # 0
  BY DEF beforeCompletionHook, Control
<1>4. ASSUME NEW o \in Object
      PROVE  /\ Tells(outbox', o, base[o], view[o])
             /\ view[o] = base[o] /\ base[o] # 0 => Silent(outbox', o)
  <2>1. /\ Says(outbox', o, "ADDED") <=> Says(msgs, o, "ADDED")
        /\ Says(outbox', o, "REMOVED") <=> Says(msgs, o, "REMOVED")
        /\ Says(outbox', o, "MODIFIED")
             <=> Says(msgs, o, "MODIFIED") /\ o \notin added
    BY <1>2, Zenon DEF Speaks, Telling
  <2>2. /\ o \in added => view[o] = tx
        /\ o \in removed => view[o] = 0
        /\ o \notin added \cup removed =>
             view[o] = IF o \in modified /\ base[o] # 0 THEN tx ELSE base[o]
        /\ o \in modified <=> Says(msgs, o, "MODIFIED")
        /\ base[o] # tx
    BY <1>3 DEF Changed
  <2>3. /\ Says(msgs, o, "ADDED") <=> o \in added
        /\ Says(msgs, o, "REMOVED") <=> o \in removed
    <3>1. ASSUME NEW k \in Final, One(msgs, o, k)
          PROVE  \A l \in Final : Says(msgs, o, l) <=> l = k
      BY <3>1 DEF One, Finals, Says
    <3>2. None(msgs, o) => \A l \in Final : ~Says(msgs, o, l)
      BY DEF None, Finals, Says
    <3>3. CASE o \in added
      <4>1. One(msgs, o, "ADDED") /\ o \notin removed
        BY <3>3 DEF Published, Agree
      <4> QED
        BY <3>1, <3>3, <4>1 DEF Final
    <3>4. CASE o \in removed
      <4>1. One(msgs, o, "REMOVED") /\ o \notin added
        BY <3>4 DEF Published, Agree
      <4> QED
        BY <3>1, <3>4, <4>1 DEF Final
    <3>5. CASE o \notin added \cup removed
      <4>1. None(msgs, o)
        BY <3>5 DEF Published, Agree
      <4> QED
        BY <3>2, <3>5, <4>1 DEF Final
    <3> QED
      BY <3>3, <3>4, <3>5
  <2>4. \A i \in 1..Len(outbox') :
          outbox'[i].ob = o => outbox'[i].content = view[o]
    BY <1>2
  <2>5. Tells(outbox', o, base[o], view[o])
    BY <1>3, <2>1, <2>2, <2>3, <2>4 DEF Tells
  <2>6. ASSUME view[o] = base[o], base[o] # 0
        PROVE  Silent(outbox', o)
    BY <1>3, <2>1, <2>2, <2>3, <2>6 DEF Silent, Telling
  <2> QED
    BY <2>5, <2>6
<1> QED
  BY <1>2, <1>4

(* Steps that leave a transaction's events and what they are about alone.  *)
LEMMA OutgoingKept ==
  ASSUME Outgoing, UNCHANGED <<outbox, base, view>>, Unfinished' => Unfinished
  PROVE  Outgoing'
<1>1. ASSUME NEW o \in Object
      PROVE  /\ Tells(outbox', o, base'[o], view'[o])
                  <=> Tells(outbox, o, base[o], view[o])
             /\ Silent(outbox', o) <=> Silent(outbox, o)
  <2>1. outbox' = outbox /\ base' = base /\ view' = view
    OBVIOUS
  <2> QED
    BY <2>1
<1> QED
  BY <1>1 DEF Outgoing

(* What a transaction's events say after every step.                       *)
LEMMA OutgoingStep ==
  ASSUME Published, Control, Contents, Changed, Outgoing, [Next]_vars
  PROVE  Outgoing'
<1> USE Resources DEF Control
<1>1. CASE beforeCompletionHook
  <2>1. UNCHANGED <<base, view>>
    BY <1>1 DEF beforeCompletionHook
  <2>2. \A o \in Object :
          /\ Tells(outbox', o, base[o], view[o])
          /\ view[o] = base[o] /\ base[o] # 0 => Silent(outbox', o)
    BY <1>1, HookTells
  <2> QED
    BY <2>1, <2>2 DEF Outgoing
<1>2. CASE Prepare
  BY <1>2, OutgoingKept DEF Prepare, Unfinished
<1>3. CASE addJob \/ OtherCommit \/ UNCHANGED vars
  BY <1>3, OutgoingKept
     DEF addJob, OtherCommit, vars, localVars, Unfinished
<1>4. CASE \/ Begin \/ ChangeModel \/ abort \/ PrepareFails \/ FinishDatabase
           \/ FinishDatabaseFails \/ FinishChannel \/ FinishChannelFails
           \/ afterCommitHook \/ Crash
  <2>1. CASE Begin \/ ChangeModel \/ abort \/ afterCommitHook
    <3>1. phase' # "hooked" /\ UNCHANGED resources /\ phase # "finishing"
      BY <2>1 DEF Begin, ChangeModel, abort, afterCommitHook
    <3> QED
      BY <3>1 DEF Outgoing, Unfinished
  <2>2. CASE PrepareFails \/ FinishDatabaseFails \/ Crash
    <3>1. phase' # "hooked" /\ resources' = <<>>
      BY <2>2 DEF PrepareFails, FinishDatabaseFails, Rollback, Crash
    <3> QED
      BY <3>1 DEF Outgoing, Unfinished
  <2>3. CASE FinishDatabase \/ FinishChannel \/ FinishChannelFails
    <3>1. phase = "finishing" /\ resources' = Tail(resources)
          /\ phase' \in {"finishing", "after"}
      BY <2>3 DEF FinishDatabase, FinishChannel, FinishChannelFails,
                  FinishedOne
    <3>2. resources' # commitOrder
      BY <3>1
    <3> QED
      BY <3>1, <3>2 DEF Outgoing, Unfinished
  <2> QED
    BY <1>4, <2>1, <2>2, <2>3
<1> QED
  BY <1>1, <1>2, <1>3, <1>4 DEF Next

(* Until the database finishes, nobody changes what has been voted on.     *)
LEMMA NoConflictStep ==
  ASSUME Control, NoConflict, [Next]_vars
  PROVE  NoConflict'
<1> USE Resources DEF Control
<1>1. CASE Prepare
  <2>1. /\ \A o \in Written : db[o] = base[o]
        /\ UNCHANGED <<db, base, view>>
    BY <1>1 DEF Prepare, sharedVars
  <2>2. Written' = Written
    BY <2>1 DEF Written
  <2> QED
    BY <2>1, <2>2 DEF NoConflict
<1>2. CASE resources' = commitOrder /\ ~Prepare
  <2>1. UNCHANGED <<resources, db, base, view>>
    <3>1. CASE FinishDatabase \/ FinishChannel \/ FinishChannelFails
      BY <1>2, <3>1 DEF FinishDatabase, FinishChannel, FinishChannelFails,
                        FinishedOne
    <3>2. CASE PrepareFails \/ FinishDatabaseFails \/ Crash
      BY <1>2, <3>2 DEF PrepareFails, FinishDatabaseFails, Rollback, Crash
    <3>3. CASE Begin \/ ChangeModel
      BY <1>2, <3>3 DEF Begin, ChangeModel
    <3>4. CASE OtherCommit
      BY <1>2, <3>4 DEF OtherCommit, localVars
    <3>5. CASE \/ addJob \/ abort \/ beforeCompletionHook \/ afterCommitHook
               \/ UNCHANGED vars
      BY <3>5 DEF addJob, abort, beforeCompletionHook, afterCommitHook,
                  sharedVars, localVars, vars
    <3> QED
      BY <1>2, <3>1, <3>2, <3>3, <3>4, <3>5 DEF Next
  <2>2. Written' = Written
    BY <2>1 DEF Written
  <2> QED
    BY <2>1, <2>2 DEF NoConflict
<1> QED
  BY <1>1, <1>2 DEF NoConflict

(* An object that was not there when the transaction began is not there    *)
(* when it commits: only the transaction itself could make it.             *)
LEMMA StayGoneStep ==
  ASSUME Control, StayGone, [Next]_vars
  PROVE  StayGone'
<1> USE Resources DEF Control
<1>1. CASE Begin
  BY <1>1 DEF Begin, sharedVars, StayGone
<1>2. CASE OtherCommit
  <2>1. PICK o \in Object, c \in {0, MaxTransactions + others + 1} :
          db[o] # 0 /\ db' = [db EXCEPT ![o] = c]
    BY <1>2 DEF OtherCommit
  <2>2. UNCHANGED <<phase, resources, base>>
    BY <1>2 DEF OtherCommit, localVars
  <2>3. \A p \in Object : db[p] = 0 => db'[p] = 0
    BY <2>1
  <2> QED
    BY <2>2, <2>3 DEF StayGone, Unfinished
<1>3. CASE \/ ChangeModel \/ addJob \/ abort \/ beforeCompletionHook
           \/ Prepare \/ UNCHANGED vars
  <2>1. /\ UNCHANGED <<base, db>>
        /\ phase' = "active" \/ Unfinished' => phase = "active" \/ Unfinished
    BY <1>3 DEF ChangeModel, addJob, abort, beforeCompletionHook, Prepare,
                vars, localVars, sharedVars, Unfinished
  <2> QED
    BY <2>1 DEF StayGone
<1>4. CASE \/ PrepareFails \/ FinishDatabase \/ FinishDatabaseFails
           \/ FinishChannel \/ FinishChannelFails \/ afterCommitHook \/ Crash
  <2>1. CASE FinishDatabase \/ FinishChannel \/ FinishChannelFails
    <3>1. phase = "finishing" /\ resources' = Tail(resources)
          /\ phase' \in {"finishing", "after"}
      BY <2>1 DEF FinishDatabase, FinishChannel, FinishChannelFails,
                  FinishedOne
    <3>2. resources' # commitOrder
      BY <3>1
    <3> QED
      BY <3>1, <3>2 DEF StayGone, Unfinished
  <2>2. CASE PrepareFails \/ FinishDatabaseFails \/ Crash \/ afterCommitHook
    <3>1. phase' \in {"idle", "after"} /\ resources' # commitOrder
      BY <2>2 DEF PrepareFails, FinishDatabaseFails, Rollback, Crash,
                  afterCommitHook
    <3> QED
      BY <3>1 DEF StayGone, Unfinished
  <2> QED
    BY <1>4, <2>1, <2>2
<1> QED
  BY <1>1, <1>2, <1>3, <1>4 DEF Next

-----------------------------------------------------------------------------
(* What the consumer believes and what the database has, while the         *)
(* database has not finished: that of an object the transaction wrote is   *)
(* what it began with, so the events will tell it right; of one it did not *)
(* write the events tell nothing, or that it is not there.                 *)
LEMMA CommitLeavesLate ==
  ASSUME Outgoing, NoConflict, StayGone, Agreed, resources = commitOrder,
         NEW o \in Object \ lost
  PROVE  Tells(outbox, o, told[o], IF o \in Written THEN view[o] ELSE db[o])
<1>1. /\ Tells(outbox, o, base[o], view[o])
      /\ view[o] = base[o] /\ base[o] # 0 => Silent(outbox, o)
  BY DEF Outgoing, Unfinished
<1>2. told[o] = db[o]
  BY Resources DEF Agreed
<1>3. CASE o \in Written
  <2>1. db[o] = base[o]
    BY <1>3 DEF NoConflict
  <2> QED
    BY <1>1, <1>2, <1>3, <2>1
<1>4. CASE o \notin Written
  <2>1. view[o] = base[o]
    BY <1>4 DEF Written
  <2>2. CASE base[o] = 0
    <3>1. db[o] = 0
      BY <2>2 DEF StayGone, Unfinished
    <3> QED
      BY <1>1, <1>2, <1>4, <2>1, <2>2, <3>1
  <2>3. CASE base[o] # 0
    <3>1. Tells(outbox, o, db[o], db[o])
      BY <1>1, <2>1, <2>3, SilentTells
    <3> QED
      BY <1>2, <1>4, <3>1
  <2> QED
    BY <2>2, <2>3
<1> QED
  BY <1>3, <1>4

(* The database commits.                                                   *)
LEMMA FinishedDatabaseAgrees ==
  ASSUME Control, Contents, Outgoing, NoConflict, StayGone, Agreed,
         FinishDatabase
  PROVE  Agreed' /\ Late'
<1>1. resources = commitOrder
  BY Resources DEF FinishDatabase, Control
<1>2. resources' = <<"channel">>
  BY <1>1, Resources DEF FinishDatabase, FinishedOne
<1>3. /\ UNCHANGED <<outbox, told, lost>>
      /\ db' = [o \in Object |-> IF o \in Written THEN view[o] ELSE db[o]]
  BY DEF FinishDatabase, Store
<1>4. ASSUME NEW o \in Object \ lost
      PROVE  Tells(outbox', o, told'[o], db'[o])
  <2>1. Tells(outbox, o, told[o], IF o \in Written THEN view[o] ELSE db[o])
    BY <1>1, CommitLeavesLate
  <2>2. db'[o] = IF o \in Written THEN view[o] ELSE db[o]
    BY <1>3
  <2> HIDE DEF Tells, Written
  <2> QED
    BY <1>3, <2>1, <2>2
<1> QED
  BY <1>2, <1>3, <1>4 DEF Agreed, Late

(* Its commit raises, after or before it has done its work: the events of  *)
(* the objects that are not counted as lost told nothing.                  *)
LEMMA FailedDatabaseAgrees ==
  ASSUME Control, Contents, Outgoing, NoConflict, StayGone, Agreed,
         FinishDatabaseFails
  PROVE  Agreed' /\ Late'
<1>1. resources = commitOrder
  BY Resources DEF FinishDatabaseFails, Control
<1>2. resources' = <<>> /\ told' = told
  BY DEF FinishDatabaseFails, Rollback
<1>3. CASE UNCHANGED <<db, lost>>
  BY <1>1, <1>2, <1>3, Resources DEF Agreed, Late
<1>4. CASE /\ db' = [o \in Object |-> IF o \in Written THEN view[o] ELSE db[o]]
           /\ lost' = lost \cup Objects(outbox)
  <2>1. ASSUME NEW o \in Object \ lost'
        PROVE  told'[o] = db'[o]
    <3>1. o \in Object \ lost /\ Silent(outbox, o)
      BY <1>4, <2>1, UnnamedIsSilent
    <3>2. Tells(outbox, o, told[o], IF o \in Written THEN view[o] ELSE db[o])
      BY <1>1, <3>1, CommitLeavesLate
    <3>3. told[o] = IF o \in Written THEN view[o] ELSE db[o]
      BY <3>1, <3>2, SilentSame
    <3> HIDE DEF Written
    <3> QED
      BY <1>2, <1>4, <3>1, <3>3
  <2> QED
    BY <1>2, <2>1, Resources DEF Agreed, Late
<1> QED
  BY <1>3, <1>4 DEF FinishDatabaseFails, Store

(* The channel commits, fails, or the process dies before it could.        *)
LEMMA ChannelAgrees ==
  ASSUME Control, Contents, Types, Late, Agreed,
         FinishChannel \/ FinishChannelFails \/ Crash
  PROVE  Agreed' /\ Late'
<1> USE Resources DEF Control
<1>1. ASSUME resources = <<"channel">>, resources' = <<>>, UNCHANGED <<db, told>>,
             lost' = lost \cup Objects(outbox)
      PROVE  Agreed' /\ Late'
  <2>1. ASSUME NEW o \in Object \ lost'
        PROVE  told'[o] = db'[o]
    <3>1. o \in Object \ lost /\ Silent(outbox, o)
      BY <1>1, <2>1, UnnamedIsSilent
    <3>2. Tells(outbox, o, told[o], db[o])
      BY <1>1, <3>1 DEF Late
    <3> QED
      BY <1>1, <3>1, <3>2, SilentSame
  <2> QED
    BY <1>1, <2>1 DEF Agreed, Late
<1>2. CASE FinishChannel
  <2>1. /\ resources = <<"channel">> /\ resources' = <<>>
        /\ told' = FoldLeft(Hear, told, outbox) /\ UNCHANGED <<db, lost>>
    BY <1>2 DEF FinishChannel, FinishedOne
  <2>2. ASSUME NEW o \in Object \ lost
        PROVE  FoldLeft(Hear, told, outbox)[o] = db[o]
    <3>1. Tells(outbox, o, told[o], db[o])
      BY <2>1 DEF Late
    <3>2. told \in Knowledge /\ outbox \in Seq(Event)
      BY DEF Types
    <3> QED
      BY <3>1, <3>2, HeardIsTold
  <2> QED
    BY <2>1, <2>2 DEF Agreed, Late
<1>3. CASE FinishChannelFails
  BY <1>1, <1>3 DEF FinishChannelFails, FinishedOne
<1>4. CASE Crash
  <2>1. resources' = <<>> /\ UNCHANGED <<db, told>>
    BY <1>4 DEF Crash
  <2>2. CASE resources = <<"channel">>
    <3>1. lost' = lost \cup Objects(outbox)
      BY <1>4, <2>2 DEF Crash
    <3> QED
      BY <1>1, <2>1, <2>2, <3>1
  <2>3. CASE resources # <<"channel">>
    <3>1. lost \subseteq lost'
      BY <1>4 DEF Crash
    <3> QED
      BY <2>1, <2>3, <3>1 DEF Agreed, Late
  <2> QED
    BY <2>2, <2>3
<1> QED
  BY <1>2, <1>3, <1>4

(* The other process writes an object and tells of it.                     *)
LEMMA OtherAgrees ==
  ASSUME Contents, Types, Late, Agreed, OtherCommit
  PROVE  Agreed' /\ Late'
<1>1. PICK o \in Object, c \in {0, MaxTransactions + others + 1} :
        /\ db' = [db EXCEPT ![o] = c]
        /\ told' = [told EXCEPT ![o] = c]
        /\ lost' = IF resources = <<"channel">> /\ o \in Objects(outbox)
                   THEN lost \cup {o} ELSE lost
  BY DEF OtherCommit
<1>2. UNCHANGED <<resources, outbox>>
  BY DEF OtherCommit, localVars
<1>3. /\ db'[o] = c /\ told'[o] = c
      /\ \A p \in Object : p # o => db'[p] = db[p] /\ told'[p] = told[p]
  BY <1>1 DEF Contents, Types, Knowledge
<1>4. lost \subseteq lost'
  BY <1>1
<1>5. CASE resources # <<"channel">>
  BY <1>2, <1>3, <1>4, <1>5 DEF Agreed, Late
<1>6. CASE resources = <<"channel">>
  <2>1. ASSUME NEW p \in Object \ lost'
        PROVE  Tells(outbox', p, told'[p], db'[p])
    <3>1. CASE p = o
      <4>1. Silent(outbox, o)
        BY <1>1, <1>6, <2>1, <3>1, UnnamedIsSilent
      <4>2. Tells(outbox, o, c, c)
        BY <4>1, SilentTells
      <4> QED
        BY <1>2, <1>3, <3>1, <4>2
    <3>2. CASE p # o
      <4>1. Tells(outbox, p, told[p], db[p])
        BY <1>4, <1>6, <2>1 DEF Late
      <4> QED
        BY <1>2, <1>3, <3>2, <4>1
    <3> QED
      BY <3>1, <3>2
  <2> QED
    BY <1>2, <1>6, <2>1 DEF Agreed, Late
<1> QED
  BY <1>5, <1>6

(* What the consumer believes after every step.                            *)
LEMMA AgreedStep ==
  ASSUME Control, Contents, Types, Outgoing, NoConflict, StayGone, Agreed,
         Late, [Next]_vars
  PROVE  Agreed' /\ Late'
<1> USE Resources DEF Control
<1>1. CASE FinishDatabase
  BY <1>1, FinishedDatabaseAgrees
<1>2. CASE FinishDatabaseFails
  BY <1>2, FailedDatabaseAgrees
<1>3. CASE FinishChannel \/ FinishChannelFails \/ Crash
  BY <1>3, ChannelAgrees
<1>4. CASE OtherCommit
  BY <1>4, OtherAgrees
<1>5. CASE \/ Begin \/ ChangeModel \/ addJob \/ abort \/ beforeCompletionHook
           \/ Prepare \/ PrepareFails \/ afterCommitHook
  <2>1. /\ UNCHANGED <<db, told, lost>>
        /\ resources # <<"channel">> /\ resources' # <<"channel">>
    BY <1>5 DEF Begin, ChangeModel, addJob, abort, beforeCompletionHook,
         Prepare, PrepareFails, Rollback, afterCommitHook, sharedVars
  <2> QED
    BY <2>1 DEF Agreed, Late
<1>6. CASE UNCHANGED vars
  <2>1. UNCHANGED <<db, told, lost, resources, outbox>>
    BY <1>6 DEF vars, localVars, sharedVars
  <2>2. ASSUME NEW o \in Object \ lost
        PROVE  Tells(outbox', o, told'[o], db'[o])
                 <=> Tells(outbox, o, told[o], db[o])
    BY <2>1
  <2> QED
    BY <2>1, <2>2 DEF Agreed, Late
<1> QED
  BY <1>1, <1>2, <1>3, <1>4, <1>5, <1>6 DEF Next

-----------------------------------------------------------------------------
(* The objects of events are objects.                                      *)
LEMMA ObjectsOfEvents ==
  ASSUME Types
  PROVE  Objects(outbox) \subseteq Object
<1>1. \A i \in 1..Len(outbox) : outbox[i] \in Event
  BY DEF Types
<1>2. \A e \in Event : e.ob \in Object
  BY DEF Event
<1> QED
  BY <1>1, <1>2 DEF Objects

(* The types of the rest after every step.                                 *)
LEMMA TypesStep ==
  ASSUME Published, Control, Contents, Changed, Types, [Next]_vars
  PROVE  Types'
<1> USE TransactionConstants, Resources DEF Control
<1>0. <<>> \in Seq(Event)
  OBVIOUS
<1>1. CASE Begin
  <2>1. /\ phase = "idle" /\ calls' = 0 /\ UNCHANGED outbox
        /\ UNCHANGED <<told, committed, lost>>
    BY <1>1 DEF Begin, sharedVars
  <2>2. outbox = <<>>
    BY <2>1 DEF Types
  <2> QED
    BY <2>1, <2>2 DEF Types
<1>2. CASE ChangeModel
  <2>1. /\ calls' = calls + 1 /\ calls < MaxCalls
        /\ UNCHANGED <<phase, outbox, told, committed, lost>>
    BY <1>2 DEF ChangeModel, sharedVars
  <2> QED
    BY <2>1 DEF Types
<1>3. CASE addJob \/ UNCHANGED vars
  <2>1. UNCHANGED <<calls, phase, outbox, told, committed, lost>>
    BY <1>3 DEF addJob, sharedVars, vars, localVars
  <2> QED
    BY <2>1 DEF Types
<1>4. CASE abort \/ PrepareFails
  <2>1. outbox' = <<>> /\ UNCHANGED <<calls, told, committed, lost>>
    BY <1>4 DEF abort, PrepareFails, Rollback, sharedVars
  <2> QED
    BY <1>0, <2>1 DEF Types
<1>5. CASE beforeCompletionHook
  <2>1. phase' = "hooked" /\ UNCHANGED <<calls, told, committed, lost>>
    BY <1>5 DEF beforeCompletionHook, sharedVars
  <2>2. outbox' \in Seq(Event)
    BY <1>5, HookTells
  <2> QED
    BY <2>1, <2>2 DEF Types
<1>6. CASE Prepare
  <2>1. phase' = "finishing" /\ UNCHANGED <<calls, outbox, told, committed, lost>>
    BY <1>6 DEF Prepare, sharedVars
  <2> QED
    BY <2>1 DEF Types
<1>7. CASE FinishDatabase \/ FinishDatabaseFails
  <2>1. phase = "finishing" /\ tx \in 1..MaxTransactions /\ UNCHANGED calls
    BY <1>7 DEF FinishDatabase, FinishDatabaseFails, FinishedOne, Rollback
  <2>2. /\ UNCHANGED told
        /\ committed' \subseteq committed \cup {tx}
        /\ lost' \subseteq lost \cup Objects(outbox)
    BY <1>7 DEF FinishDatabase, FinishDatabaseFails, Store
  <2>3. \/ outbox' = outbox /\ phase' = "finishing"
        \/ outbox' = <<>>
    <3>1. CASE FinishDatabase
      <4>1. resources = commitOrder
        BY <3>1 DEF FinishDatabase
      <4>2. outbox' = outbox /\ phase' = IF Len(resources) = 1 THEN "after"
                                         ELSE phase
        BY <3>1 DEF FinishDatabase, FinishedOne
      <4>3. Len(resources) # 1
        BY <4>1
      <4> QED
        BY <2>1, <4>2, <4>3
    <3>2. CASE FinishDatabaseFails
      BY <3>2 DEF FinishDatabaseFails, Rollback
    <3> QED
      BY <1>7, <3>1, <3>2
  <2> QED
    BY <1>0, <2>1, <2>2, <2>3, ObjectsOfEvents DEF Types
<1>8. CASE FinishChannel
  <2>1. /\ told' = FoldLeft(Hear, told, outbox) /\ outbox' = <<>>
        /\ UNCHANGED <<calls, committed, lost>>
    BY <1>8 DEF FinishChannel, FinishedOne
  <2>2. told' \in Knowledge
    BY <2>1, HeardIsTold DEF Types
  <2> QED
    BY <1>0, <2>1, <2>2 DEF Types
<1>9. CASE FinishChannelFails \/ Crash
  <2>1. /\ outbox' = <<>> /\ lost' \subseteq lost \cup Objects(outbox)
        /\ UNCHANGED <<calls, told, committed>>
    BY <1>9 DEF FinishChannelFails, FinishedOne, Crash
  <2> QED
    BY <1>0, <2>1, ObjectsOfEvents DEF Types
<1>10. CASE afterCommitHook
  <2>1. /\ phase = "after" /\ UNCHANGED <<calls, outbox, told, committed, lost>>
    BY <1>10 DEF afterCommitHook
  <2>2. outbox = <<>>
    BY <2>1 DEF Types
  <2> QED
    BY <2>1, <2>2 DEF Types
<1>11. CASE OtherCommit
  <2>1. PICK o \in Object, c \in {0, MaxTransactions + others + 1} :
          /\ told' = [told EXCEPT ![o] = c]
          /\ lost' \subseteq lost \cup {o}
    BY <1>11 DEF OtherCommit
  <2>2. c \in Content /\ UNCHANGED <<calls, phase, outbox, committed>>
    BY <1>11 DEF OtherCommit, localVars, Content
  <2> QED
    BY <2>1, <2>2 DEF Types, Knowledge
<1> QED
  BY <1>1, <1>2, <1>3, <1>4, <1>5, <1>6, <1>7, <1>8, <1>9, <1>10, <1>11
     DEF Next

(* All of it at the start.                                                 *)
LEMMA IInvStarts == Init => IInv
<1> SUFFICES ASSUME Init PROVE IInv
  OBVIOUS
<1>1. Published
  BY Emptied DEF Init, Publisher!Init
<1>2. Control /\ Contents
  BY StartsInOrder
<1>3. Records
  <2>1. /\ status = [j \in Job |-> "NONE"] /\ queue = <<>> /\ phase = "idle"
        /\ resources # commitOrder
    BY Resources DEF Init
  <2> QED
    BY <2>1 DEF Records, Status, Submitted
<1>4. Types
  <2>1. 0 \in 0..MaxCalls /\ 0 \in Content /\ <<>> \in Seq(Event)
    BY TransactionConstants DEF Content
  <2> QED
    BY <2>1 DEF Init, Types, Knowledge
<1>5. Changed /\ Outgoing /\ NoConflict /\ StayGone /\ Agreed /\ Late
  BY Resources DEF Init, Changed, Outgoing, NoConflict, StayGone, Agreed, Late,
                   Unfinished
<1> QED
  BY <1>1, <1>2, <1>3, <1>4, <1>5 DEF IInv

(* The invariant of Transactions.                                          *)
THEOREM Invariant == Spec => []IInv
<1>1. IInv /\ [Next]_vars => IInv'
  <2> SUFFICES ASSUME IInv, [Next]_vars PROVE IInv'
    OBVIOUS
  <2> USE DEF IInv
  <2>1. Published'
    BY PublishedStep
  <2>2. Control'
    BY ControlStep
  <2>3. Contents' /\ Records' /\ Types' /\ Changed'
    BY <2>1, <2>2, ContentsStep, RecordsStep, TypesStep, ChangedStep
  <2>4. Outgoing' /\ NoConflict' /\ StayGone' /\ Agreed' /\ Late'
    BY OutgoingStep, NoConflictStep, StayGoneStep, AgreedStep
  <2> QED
    BY <2>1, <2>2, <2>3, <2>4
<1> QED
  BY <1>1, IInvStarts, PTL DEF Spec

(* Every variable keeps its type, the events in the channel and what the   *)
(* consumer has heard of them included, for any number of transactions.    *)
THEOREM TransactionTypes == Spec => []TypeOK
<1>1. IInv => TypeOK
  <2> SUFFICES ASSUME IInv PROVE TypeOK
    OBVIOUS
  <2> USE DEF IInv
  <2>1. /\ base \in [Object -> Content] /\ view \in [Object -> Content]
        /\ db \in [Object -> Content] /\ told \in [Object -> Content]
    BY IssuedIsContent DEF Contents, Types, Knowledge
  <2>2. /\ resources \in {commitOrder, Tail(commitOrder), <<>>}
        /\ (phase = "finishing") = (resources # <<>>)
    BY Resources DEF Control
  <2> QED
    BY <2>1, <2>2 DEF TypeOK, Published, Control, Records, Types
<1> QED
  BY <1>1, Invariant, PTL

(* However transactions conflict, fail or die, and whatever another        *)
(* process writes meanwhile: between commits the consumer of the model     *)
(* events believes of every object what the database has, unless the code  *)
(* itself has lost events of it or sent them too late.                     *)
THEOREM ConsumersAgree == Spec => []ConsumerAgrees
<1>1. IInv => ConsumerAgrees
  BY Resources DEF IInv, Control, Agreed, ConsumerAgrees
<1> QED
  BY <1>1, Invariant, PTL
=============================================================================
