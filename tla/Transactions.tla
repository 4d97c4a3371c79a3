---------------------------- MODULE Transactions ----------------------------
(***************************************************************************)
(* A process that changes the model: its transactions, as the two-phase    *)
(* commit of lib/python/transaction joins the database to the message      *)
(* channel of Products/ZenUtils/AmqpDataManager.py, with the hooks that    *)
(* Products/ZenMessaging/queuemessaging/publisher.py and                   *)
(* Products/Jobber/jobs.py put before and after the commit.                *)
(*                                                                         *)
(* An object's content is the number of the transaction that wrote it, 0   *)
(* while there is no such object; told is what a consumer of the model     *)
(* events believes.  A transaction adds at most one job, whose id is the   *)
(* transaction's number (ids are never used twice).  Another process       *)
(* writes the same objects, in one step each time: OtherCommit.  Left out: *)
(* savepoints, the batches of 5000 events, and the closing of the channel, *)
(* which the broker answers by dropping what was not committed.            *)
(***************************************************************************)
EXTENDS Naturals, Sequences, SequencesExt

CONSTANTS
  Object,           \* objects of the model
  MaxTransactions,  \* bound: transactions of this process
  MaxCalls,         \* bound: model changes in one transaction
  MaxOthers         \* bound: transactions of the other process

ASSUME TransactionConstants ==
  MaxTransactions \in Nat /\ MaxCalls \in Nat /\ MaxOthers \in Nat

VARIABLES
  added, removed, modified, msgs, moved,  \* the transaction's publisher
  phase,      \* where the process is in its transaction
  tx,         \* number of the transaction
  calls,      \* model changes made in it
  base,       \* what it saw when it began
  view,       \* what it sees now
  hook,       \* it has the after-commit hook of a job
  outbox,     \* events in the channel, not committed
  resources,  \* data managers that have not finished yet, in their order
  db,         \* committed contents
  told,       \* what the consumer was told
  committed,  \* transactions the database committed
  lost,       \* objects whose events were lost or overtaken
  others,     \* transactions of the other process
  status,     \* status of the job records, "NONE" where there is none
  queue       \* jobs submitted to the broker

publisherVars == <<added, removed, modified, msgs, moved>>
localVars == <<phase, tx, calls, base, view, hook, outbox, resources>>
sharedVars == <<db, told, committed, lost, others, status, queue>>
vars == <<publisherVars, localVars, sharedVars>>

Publisher == INSTANCE ModelChangePublisher

Content == 0..(MaxTransactions + MaxOthers)
Job == 1..MaxTransactions
Status == {"NONE", "PENDING", "STARTED", "SUCCESS", "FAILURE", "ABORTED"}

Init ==
  /\ Publisher!Init
  /\ phase = "idle" /\ tx = 0 /\ calls = 0
  /\ base = [o \in Object |-> 0] /\ view = base
  /\ hook = FALSE /\ outbox = <<>> /\ resources = <<>>
  /\ db = base /\ told = base /\ committed = {} /\ lost = {} /\ others = 0
  /\ status = [j \in Job |-> "NONE"] /\ queue = <<>>

Objects(events) == {events[i].ob : i \in 1..Len(events)}

(* The first call of getModelChangePublisher makes the publisher, which    *)
(* starts empty, and registers its hooks.                                  *)
Begin ==
  /\ phase = "idle" /\ tx < MaxTransactions
  /\ phase' = "active" /\ tx' = tx + 1 /\ calls' = 0
  /\ base' = db /\ view' = db /\ hook' = FALSE
  /\ Publisher!Reset
  /\ UNCHANGED <<outbox, resources, sharedVars>>

(* A change of the model with the call of the publisher it makes.  An      *)
(* object may be modified before it is added.                              *)
ChangeModel ==
  /\ phase = "active" /\ calls < MaxCalls
  /\ \E o \in Object :
       \/ /\ Publisher!publishAdd(o)
          /\ view' = [view EXCEPT ![o] = tx]
       \/ /\ Publisher!publishRemove(o)
          /\ view' = [view EXCEPT ![o] = 0]
       \/ /\ Publisher!publishModified(o)
          /\ view' = [view EXCEPT ![o] = IF @ = 0 THEN 0 ELSE tx]
       \/ /\ view[o] # 0
          /\ \/ Publisher!addToOrganizer(o)
             \/ Publisher!removeFromOrganizer(o)
             \/ Publisher!moveObject(o)
          /\ UNCHANGED view
  /\ calls' = calls + 1
  /\ UNCHANGED <<phase, tx, base, hook, outbox, resources, sharedVars>>

(* Mutant of addJob: the job is submitted at once, as celery does.         *)
HastyAddJob ==
  /\ phase = "active" /\ ~hook
  /\ hook' = TRUE
  /\ queue' = Append(queue, tx)
  /\ UNCHANGED <<publisherVars, phase, tx, calls, base, view, outbox,
                 resources, db, told, committed, lost, others, status>>

(* addJob: the record is made in the transaction, its task is submitted by *)
(* a hook after the commit.                                                *)
addJob ==
  /\ phase = "active" /\ ~hook
  /\ hook' = TRUE
  /\ UNCHANGED <<publisherVars, phase, tx, calls, base, view, outbox,
                 resources, sharedVars>>

(* The process gives the transaction up, or the hook before the commit     *)
(* raises, before or after it joined the channel to the transaction: the   *)
(* data managers abort, and no hook is called.                             *)
abort ==
  /\ phase \in {"active", "hooked"}
  /\ phase' = "idle" /\ hook' = FALSE /\ outbox' = <<>>
  /\ Publisher!Reset
  /\ UNCHANGED <<tx, calls, base, view, resources, sharedVars>>

(* Mutant of beforeCompletionHook: the publisher is read too late, when    *)
(* it has been cleared.                                                    *)
EmptyBeforeCompletionHook ==
  /\ phase = "active"
  /\ phase' = "hooked"
  /\ outbox' = <<>>
  /\ Publisher!Reset
  /\ UNCHANGED <<tx, calls, base, view, hook, resources, sharedVars>>

(* The events are built, with the contents the objects have now, and       *)
(* published in the channel's own transaction.                             *)
beforeCompletionHook ==
  /\ phase = "active"
  /\ phase' = "hooked"
  /\ outbox' = [i \in 1..Len(Publisher!events) |->
                  [kind |-> Publisher!events[i].kind,
                   ob |-> Publisher!events[i].ob,
                   content |-> view[Publisher!events[i].ob]]]
  /\ Publisher!Reset
  /\ UNCHANGED <<tx, calls, base, view, hook, resources, sharedVars>>

(* Mutant of commitOrder: without its sort key the channel goes first.     *)
ChannelFirst == <<"channel", "database">>

(* The data managers in the order of their sort keys: "~~~~~~~" is last.   *)
commitOrder == <<"database", "channel">>

Written == {o \in Object : view[o] # base[o]}

(* All data managers vote: the database refuses what another transaction   *)
(* wrote in the meantime.                                                  *)
Prepare ==
  /\ phase = "hooked"
  /\ \A o \in Written : db[o] = base[o]
  /\ phase' = "finishing" /\ resources' = commitOrder
  /\ UNCHANGED <<publisherVars, tx, calls, base, view, hook, outbox,
                 sharedVars>>

(* Mutant of Rollback: the data manager does not roll the channel back.    *)
KeepingRollback ==
  /\ phase' = "after" /\ resources' = <<>>
  /\ UNCHANGED <<publisherVars, outbox, tx, calls, base, view, hook>>

(* _cleanup: every data manager aborts, the hooks are called all the same. *)
Rollback ==
  /\ phase' = "after" /\ resources' = <<>> /\ outbox' = <<>>
  /\ UNCHANGED <<publisherVars, tx, calls, base, view, hook>>

(* A conflict, or any other error before the second phase.                 *)
PrepareFails ==
  /\ phase = "hooked"
  /\ Rollback
  /\ UNCHANGED sharedVars

(* What the database does when a transaction commits.                      *)
Store ==
  /\ db' = [o \in Object |-> IF o \in Written THEN view[o] ELSE db[o]]
  /\ committed' = committed \cup {tx}
  /\ status' = IF hook THEN [status EXCEPT ![tx] = "PENDING"] ELSE status

FinishedOne ==
  /\ resources' = Tail(resources)
  /\ phase' = IF Len(resources) = 1 THEN "after" ELSE phase
  /\ UNCHANGED <<publisherVars, tx, calls, base, view, hook>>

FinishDatabase ==
  /\ phase = "finishing" /\ Head(resources) = "database"
  /\ Store
  /\ FinishedOne
  /\ UNCHANGED <<outbox, told, lost, others, queue>>

(* The database's tpc_finish raises, with the work done or not.            *)
FinishDatabaseFails ==
  /\ phase = "finishing" /\ Head(resources) = "database"
  /\ \/ Store /\ lost' = lost \cup Objects(outbox)
     \/ UNCHANGED <<db, committed, status, lost>>
  /\ Rollback
  /\ UNCHANGED <<told, others, queue>>

(* A consumer of the model events: a change of an object it does not know  *)
(* says nothing to it.                                                     *)
Hear(known, e) ==
  CASE e.kind = "ADDED" -> [known EXCEPT ![e.ob] = e.content]
    [] e.kind = "REMOVED" -> [known EXCEPT ![e.ob] = 0]
    [] e.kind = "MODIFIED" /\ known[e.ob] # 0 ->
         [known EXCEPT ![e.ob] = e.content]
    [] OTHER -> known

FinishChannel ==
  /\ phase = "finishing" /\ Head(resources) = "channel"
  /\ told' = FoldLeft(Hear, told, outbox)
  /\ outbox' = <<>>
  /\ FinishedOne
  /\ UNCHANGED <<db, committed, lost, others, status, queue>>

(* tx_commit fails: the error is logged and the transaction is complete.   *)
FinishChannelFails ==
  /\ phase = "finishing" /\ Head(resources) = "channel"
  /\ lost' = lost \cup Objects(outbox)
  /\ outbox' = <<>>
  /\ FinishedOne
  /\ UNCHANGED <<db, told, committed, others, status, queue>>

(* The hook submits the job whatever became of the commit; if that fails   *)
(* the error is logged.  Then the process is free for another transaction, *)
(* the retry of this one if it had a conflict.                             *)
afterCommitHook ==
  /\ phase = "after"
  /\ \/ hook /\ queue' = Append(queue, tx)
     \/ UNCHANGED queue
  /\ phase' = "idle" /\ hook' = FALSE
  /\ UNCHANGED <<publisherVars, tx, calls, base, view, outbox, resources>>
  /\ UNCHANGED <<db, told, committed, lost, others, status>>

(* The process dies in its transaction and comes back.  The broker drops   *)
(* what the channel did not commit.                                        *)
Crash ==
  /\ phase # "idle"
  /\ phase' = "idle" /\ hook' = FALSE /\ outbox' = <<>> /\ resources' = <<>>
  /\ lost' = IF phase = "finishing" /\ tx \in committed
             THEN lost \cup Objects(outbox) ELSE lost
  /\ Publisher!Reset
  /\ UNCHANGED <<tx, calls, base, view, db, told, committed, others, status,
                 queue>>

(* The other process commits a change or the removal of an object and      *)
(* tells of it; the database lets one commit finish at a time.  When this  *)
(* process has committed to the database but not yet to the channel, its   *)
(* events of the object arrive after the newer one.                        *)
OtherCommit ==
  /\ others < MaxOthers
  /\ \E o \in Object, c \in {0, MaxTransactions + others + 1} :
       /\ db[o] # 0
       /\ db' = [db EXCEPT ![o] = c]
       /\ told' = [told EXCEPT ![o] = c]
       /\ lost' = IF resources = <<"channel">> /\ o \in Objects(outbox)
                  THEN lost \cup {o} ELSE lost
  /\ ~(phase = "finishing" /\ Head(resources) = "database")
  /\ others' = others + 1
  /\ UNCHANGED <<publisherVars, localVars, committed, status, queue>>

Next ==
  \/ Begin \/ ChangeModel \/ addJob \/ abort \/ beforeCompletionHook
  \/ Prepare \/ PrepareFails \/ FinishDatabase \/ FinishDatabaseFails
  \/ FinishChannel \/ FinishChannelFails \/ afterCommitHook
  \/ Crash \/ OtherCommit

Spec == Init /\ [][Next]_vars

-----------------------------------------------------------------------------
Event == [kind : Publisher!Kinds \cup {"MOVED"}, ob : Object,
          content : Content]

TypeOK ==
  /\ Publisher!TypeOK
  /\ phase \in {"idle", "active", "hooked", "finishing", "after"}
  /\ tx \in 0..MaxTransactions /\ calls \in 0..MaxCalls
  /\ others \in 0..MaxOthers
  /\ base \in [Object -> Content] /\ view \in [Object -> Content]
  /\ hook \in BOOLEAN /\ outbox \in Seq(Event)
  /\ resources \in {commitOrder, Tail(commitOrder), <<>>}
  /\ (phase = "finishing") = (resources # <<>>)
  /\ outbox # <<>> => phase \in {"hooked", "finishing"}
  /\ db \in [Object -> Content] /\ told \in [Object -> Content]
  /\ committed \subseteq 1..MaxTransactions /\ lost \subseteq Object
  /\ status \in [Job -> Status] /\ queue \in Seq(Job)

(* Between transactions the consumer believes what is committed, for all   *)
(* objects but those whose events the code itself admits to lose (an error *)
(* or a crash after the database has finished) or sends too late.          *)
ConsumerAgrees ==
  phase # "finishing" => \A o \in Object \ lost : told[o] = db[o]

(* The consumer is never told of a change before it is committed, or of    *)
(* one that never is: the channel finishes last, and what it held for a    *)
(* failed transaction is gone.                                             *)
ToldOnlyCommitted ==
  [][told' # told => tx \in committed \/ db' # db]_vars

(* publishAdd and publishRemove's own invariant, over any transaction.     *)
OneVerdict == Publisher!OneVerdict

(* The processes that submit jobs keep the promise of JobSubmission: once, *)
(* and never before the record, whatever fails.                            *)
Submission == INSTANCE JobSubmission WITH
  recorded <- {j \in Job : status[j] # "NONE"},
  submitted <- {queue[i] : i \in 1..Len(queue)}
ImplementsSubmission == Submission!Spec
=============================================================================
