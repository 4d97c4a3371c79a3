----------------------------- MODULE HubWorkers -----------------------------
(***************************************************************************)
(* How ZenHub hands the calls of its collectors to worker processes        *)
(* (Products/ZenHub/zenhub.py: _ZenHubWorklist, deferToWorker,             *)
(* giveWorkToWorkers, createWorker; WorkerSelection.py; zenhubworker.py).  *)
(*                                                                         *)
(* A call becomes a job in the list of its method; a job at the head of a  *)
(* list goes to an idle worker that may take it; its answer, or the loss   *)
(* of the worker's connection, answers the collector.  A worker that has   *)
(* served its limit of calls exits; the end of a process, which the hub    *)
(* may notice before or after the loss of its connection, starts another.  *)
(*                                                                         *)
(* Jobs are numbered as they arrive.  The timers that call                 *)
(* giveWorkToWorkers (a cyclic one is always set) are left out: it may be  *)
(* called at any time.  So are the hub's shutdown and the statistics.      *)
(***************************************************************************)
EXTENDS Integers, Sequences, FiniteSets, SequencesExt

CONSTANTS
  Worker,      \* names for worker processes; bounds those the hub knows
  NumWorkers,  \* options.workers
  WorkersReservedForEvents, \* the option as given
  CallLimit,   \* options.calllimit of the workers
  MaxJobs,     \* bound: calls the collectors make
  MaxCrashes   \* bound: workers and connections lost for no reason of ours

Methods == {"sendEvents", "applyDataMaps", "other"}

ASSUME NumbersAssumption ==
  /\ NumWorkers \in Nat \ {0} /\ CallLimit \in Nat \ {0}
  /\ WorkersReservedForEvents \in Nat
  /\ MaxJobs \in Nat /\ MaxCrashes \in Nat
ASSUME WorkerAssumption ==
  IsFiniteSet(Worker) /\ Cardinality(Worker) > NumWorkers

VARIABLES
  method,     \* the methods of the jobs so far
  workList,   \* the queued jobs of each method
  answered,   \* the jobs whose caller has its answer
  workers,    \* zenhub.workers, in the order they reported for work
  running,    \* the job of each busy worker
  processes,  \* worker_processes
  linked,     \* workers whose connection the hub has not seen closed
  stopping,   \* processes about to exit
  numCalls,   \* calls each process has served
  crashes,    \* history: losses so far
  shrunk      \* history: a worker has left zenhub.workers

poolVars == <<workers, processes, linked, stopping, numCalls, crashes, shrunk>>
vars == <<method, workList, answered, running, poolVars>>

Jobs == DOMAIN method
busy == DOMAIN running

(* Mutant of reserved: every worker may be reserved.                       *)
UnclampedReserved == WorkersReservedForEvents

(* No more than all workers but one are reserved.                          *)
reserved == IF WorkersReservedForEvents > NumWorkers - 1
            THEN NumWorkers - 1 ELSE WorkersReservedForEvents

(* The processes the hub starts with.                                      *)
Init ==
  /\ method = <<>> /\ answered = {}
  /\ workList = [m \in Methods |-> <<>>]
  /\ workers = <<>> /\ linked = {} /\ stopping = {}
  /\ running = <<>>
  /\ processes = CHOOSE P \in SUBSET Worker : Cardinality(P) = NumWorkers
  /\ numCalls = [w \in Worker |-> 0]
  /\ crashes = 0 /\ shrunk = FALSE

-----------------------------------------------------------------------------
(* Dispatching.                                                            *)

(* Mutant of Candidates: every idle worker takes any job.                  *)
AnyCandidates(m, engaged) ==
  {i \in DOMAIN workers : workers[i] \notin engaged}

(* Positions in zenhub.workers of those that may take a job: any idle one  *)
(* for events, those beyond the reserved ones for the rest.                *)
Candidates(m, engaged) ==
  {i \in DOMAIN workers : /\ workers[i] \notin engaged
                          /\ m # "sendEvents" => i > reserved}

(* The first of them gets the job, of applyDataMaps the last.              *)
Selected(i, m, engaged) ==
  /\ i \in Candidates(m, engaged)
  /\ \A j \in Candidates(m, engaged) :
       IF m = "applyDataMaps" THEN j <= i ELSE i <= j

(* The loop of giveWorkToWorkers: of the jobs it pops from the given lists *)
(* in any order, the k-th it can place is one of pops[k] and goes to the   *)
(* worker at at[k].  It goes on until all workers are busy or all jobs are *)
(* placed or set aside.  Those set aside go back in front of their list;   *)
(* as busy workers stay so, a list whose job was set aside gives no other. *)
(* callRemote does not fail within the loop: a worker whose broker is      *)
(* disconnected has left the list in the same callback, and the arguments  *)
(* are strings, which can be sent.                                         *)
Taken(pops, m, k) == Cardinality({i \in 1..k : pops[i] = m})
Engaged(at, k) == busy \cup {workers[at[i]] : i \in 1..k}

Placed(work, pops, at, n) ==
  /\ \A k \in 1..n :
       /\ Taken(pops, pops[k], k) <= Len(work[pops[k]])
       /\ Selected(at[k], pops[k], Engaged(at, k - 1))
  /\ \A m \in Methods : Taken(pops, m, n) < Len(work[m]) =>
                           Candidates(m, Engaged(at, n)) = {}

JobAt(work, pops, k) == work[pops[k]][Taken(pops, pops[k], k)]

GiveWork(work) ==
  \E n \in 0..Len(workers) :
    \E pops \in [1..n -> Methods], at \in [1..n -> DOMAIN workers] :
      /\ Placed(work, pops, at, n)
      /\ workList' = [m \in Methods |->
                        SubSeq(work[m], Taken(pops, m, n) + 1, Len(work[m]))]
      /\ running' = [w \in Engaged(at, n) |->
                       IF w \in busy THEN running[w]
                       ELSE JobAt(work, pops, CHOOSE k \in 1..n :
                                                workers[at[k]] = w)]

giveWorkToWorkers ==
  /\ GiveWork(workList)
  /\ UNCHANGED <<method, answered, poolVars>>

(* A collector's call arrives.                                             *)
deferToWorker(m) ==
  /\ Len(method) < MaxJobs
  /\ method' = Append(method, m)
  /\ GiveWork([workList EXCEPT ![m] = Append(@, Len(method) + 1)])
  /\ UNCHANGED <<answered, poolVars>>

-----------------------------------------------------------------------------
(* Workers.                                                                *)

perspective_reportingForWork(w) ==
  /\ w \in processes \ (linked \cup stopping)
  /\ workers' = Append(workers, w)
  /\ linked' = linked \cup {w}
  /\ UNCHANGED <<method, workList, answered, running, processes, stopping,
                 numCalls, crashes, shrunk>>

(* finished: the worker is free and the collector has its answer.          *)
Finished(w) ==
  /\ w \in busy
  /\ running' = Restrict(running, busy \ {w})
  /\ answered' = answered \cup {running[w]}

(* list.remove, of a worker that is in the list.                           *)
Position(w) == CHOOSE i \in DOMAIN workers : workers[i] = w
RemoveWorker(w) ==
  /\ workers' = IF w \in Range(workers) THEN RemoveAt(workers, Position(w))
                ELSE workers
  /\ shrunk' = (shrunk \/ w \in Range(workers))

(* A call is counted, and the process exits after its last one.            *)
Served(w) ==
  /\ numCalls' = [numCalls EXCEPT ![w] = @ + 1]
  /\ stopping' = IF numCalls[w] + 1 >= CallLimit
                 THEN stopping \cup ({w} \cap processes) ELSE stopping

(* Mutant of executed: the worker leaves the list but its process stays.   *)
UnstoppedExecuted(w) ==
  /\ Finished(w)
  /\ numCalls' = [numCalls EXCEPT ![w] = @ + 1]
  /\ stopping' = stopping
  /\ IF numCalls[w] + 1 >= CallLimit THEN RemoveWorker(w)
     ELSE UNCHANGED <<workers, shrunk>>
  /\ UNCHANGED <<method, workList, processes, linked, crashes>>

(* remote_execute returns; the result of the last call is wrapped in a     *)
(* LastCallReturnValue, which has the hub give the worker no more work.    *)
executed(w) ==
  /\ Finished(w)
  /\ Served(w)
  /\ IF numCalls[w] + 1 >= CallLimit THEN RemoveWorker(w)
     ELSE UNCHANGED <<workers, shrunk>>
  /\ UNCHANGED <<method, workList, processes, linked, crashes>>

(* remote_execute raises, before it counts the call or after: nothing is   *)
(* wrapped.                                                                *)
executeFailed(w) ==
  /\ Finished(w)
  /\ Served(w) \/ UNCHANGED <<numCalls, stopping>>
  /\ UNCHANGED <<method, workList, workers, processes, linked, crashes, shrunk>>

(* Mutant of connectionLost: the caller of the worker's job is not told.   *)
ForgetfulConnectionLost(w) ==
  /\ w \in linked
  /\ w \in processes \ stopping => crashes < MaxCrashes
  /\ crashes' = IF w \in processes \ stopping THEN crashes + 1 ELSE crashes
  /\ linked' = linked \ {w}
  /\ stopping' = stopping \cup ({w} \cap processes)
  /\ RemoveWorker(w)
  /\ running' = Restrict(running, busy \ {w})
  /\ UNCHANGED <<method, workList, answered, processes, numCalls>>

(* Mutant of connectionLost: the worker's job is put back to be run again. *)
RequeueingConnectionLost(w) ==
  /\ w \in linked
  /\ w \in processes \ stopping => crashes < MaxCrashes
  /\ crashes' = IF w \in processes \ stopping THEN crashes + 1 ELSE crashes
  /\ linked' = linked \ {w}
  /\ stopping' = stopping \cup ({w} \cap processes)
  /\ RemoveWorker(w)
  /\ running' = Restrict(running, busy \ {w})
  /\ workList' = [m \in Methods |-> IF w \in busy /\ method[running[w]] = m
                                    THEN <<running[w]>> \o workList[m]
                                    ELSE workList[m]]
  /\ UNCHANGED <<method, answered, processes, numCalls>>

(* The hub sees a worker's connection closed: the job it was running fails *)
(* and is not given to another.  A worker that loses the hub exits.        *)
connectionLost(w) ==
  /\ w \in linked
  /\ w \in processes \ stopping => crashes < MaxCrashes
  /\ crashes' = IF w \in processes \ stopping THEN crashes + 1 ELSE crashes
  /\ linked' = linked \ {w}
  /\ stopping' = stopping \cup ({w} \cap processes)
  /\ RemoveWorker(w)
  /\ IF w \in busy THEN Finished(w) ELSE UNCHANGED <<running, answered>>
  /\ UNCHANGED <<method, workList, processes, numCalls>>

(* Mutant of processEnded: the process that exits is not replaced.         *)
UnreplacedProcessEnded(w) ==
  /\ w \in processes
  /\ w \notin stopping => crashes < MaxCrashes
  /\ crashes' = IF w \notin stopping THEN crashes + 1 ELSE crashes
  /\ stopping' = stopping \ {w}
  /\ processes' = processes \ {w}
  /\ UNCHANGED <<method, workList, answered, running, workers, linked,
                 numCalls, shrunk>>

(* processEnded: the hub reaps a process and creates another.              *)
processEnded(w) ==
  /\ w \in processes
  /\ w \notin stopping => crashes < MaxCrashes
  /\ crashes' = IF w \notin stopping THEN crashes + 1 ELSE crashes
  /\ stopping' = stopping \ {w}
  /\ LET unused == Worker \ ((processes \ {w}) \cup linked)
         new == CHOOSE v \in unused : TRUE
     IN  /\ unused # {}
         /\ processes' = (processes \ {w}) \cup {new}
         /\ numCalls' = [numCalls EXCEPT ![new] = 0]
  /\ UNCHANGED <<method, workList, answered, running, workers, linked, shrunk>>

Next ==
  \/ \E m \in Methods : deferToWorker(m)
  \/ giveWorkToWorkers
  \/ \E w \in Worker : \/ perspective_reportingForWork(w)
                       \/ executed(w)
                       \/ executeFailed(w)
                       \/ connectionLost(w)
                       \/ processEnded(w)

(* The cyclic timer goes on, started workers report, calls return, and     *)
(* what has to exit or be noticed does and is.                             *)
Fairness ==
  /\ WF_vars(giveWorkToWorkers)
  /\ WF_vars(\E w \in Worker : perspective_reportingForWork(w))
  /\ WF_vars(\E w \in Worker : executed(w))
  /\ WF_vars(\E w \in Worker \ (processes \ stopping) : connectionLost(w))
  /\ WF_vars(\E w \in stopping : processEnded(w))

Spec == Init /\ [][Next]_vars /\ Fairness

-----------------------------------------------------------------------------
(* Properties.                                                             *)

Queued == UNION {Range(workList[m]) : m \in Methods}

(* The hub never runs more or fewer processes than it was told to, lists   *)
(* each worker once, and lists only those it has a connection to.          *)
TypeOK ==
  /\ Cardinality(processes) = NumWorkers
  /\ \A i, j \in DOMAIN workers : workers[i] = workers[j] => i = j
  /\ Range(workers) \subseteq linked
  /\ busy \subseteq linked
  /\ stopping \subseteq processes
  /\ crashes \in 0..MaxCrashes

(* Every job is queued once, or run by one worker, or answered: none gets  *)
(* lost or is run twice when workers come, go and crash.                   *)
JobsConserved ==
  /\ Jobs = Queued \cup Range(running) \cup answered
  /\ Queued \cap (Range(running) \cup answered) = {}
  /\ Range(running) \cap answered = {}
  /\ \A v, w \in busy : running[v] = running[w] => v = w

(* Jobs of a list are started in the order they arrived in, although the   *)
(* loop of giveWorkToWorkers takes those it cannot place off the list and  *)
(* puts them back.                                                         *)
StartedInOrder ==
  \A m \in Methods :
    /\ \A i, j \in DOMAIN workList[m] : i < j => workList[m][i] < workList[m][j]
    /\ \A n \in Range(workList[m]), j \in Jobs :
         method[j] = m /\ j \notin Queued => j < n

OtherJobs == {w \in busy : method[running[w]] # "sendEvents"}

(* Every call goes the way CallService promises, step by step: begun once, *)
(* in the order of its method, and never again, though its worker may fail *)
(* it, crash or lose its connection, and answered once, after it was begun.*)
Calls == INSTANCE CallService WITH Method <- Methods, waiting <- Queued,
                                   running <- Range(running)
ImplementsCallService == Calls!Spec

(* As long as no worker has left the list, as many of those in it as are   *)
(* reserved do no other jobs than events (WorkerSelection.py).             *)
ReservedUntilShrunk ==
  ~shrunk => Cardinality(OtherJobs) <= Max({0, Len(workers) - reserved})

(* What the option --workers-reserved-for-events says: that number of      *)
(* workers is kept for events, as soon as those in the list are those that *)
(* run.  The code reserves positions, and the list closes up when a worker *)
(* leaves it.                                                              *)
WorkersStayReserved ==
  Range(workers) \subseteq processes =>
    Cardinality(OtherJobs) <= NumWorkers - reserved

(* What the comment on LastCallReturnValue says: a worker that shuts down  *)
(* is not sent any more work.  A last call that raises is not wrapped.     *)
NoWorkWhileStopping == [][\A w \in stopping : w \in busy' => w \in busy]_vars

(* No call waits for ever, even those that only unreserved workers take:   *)
(* the calls being bounded, a time comes when all are answered.            *)
EveryCallAnswered == Jobs # answered ~> Jobs = answered

(* However workers come to an end, the pool is whole again.                *)
PoolRecovers == <>[](Len(workers) = NumWorkers)
=============================================================================
