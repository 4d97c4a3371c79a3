-------------------------- MODULE HubWorkersProofs --------------------------
(***************************************************************************)
(* Proofs about HubWorkers, for any workers, options and numbers of calls  *)
(* and crashes.                                                            *)
(*                                                                         *)
(* What giveWorkToWorkers does is in Given: jobs go from the front of      *)
(* their lists to different idle workers, none is left out or given twice. *)
(* It rests on counting: the jobs of a method among the first k the loop   *)
(* places are the first Taken of its list.  The inductive invariant, IInv, *)
(* puts the four invariants of the module together (Pool, Shared, Order    *)
(* and Reserve) with the lists holding jobs of their method in order.      *)
(* From Given and the invariant follows that HubWorkers implements         *)
(* CallService.                                                            *)
(*                                                                         *)
(* EveryCallAnswered and PoolRecovers rest on fairness and are left to     *)
(* model checking.                                                         *)
(***************************************************************************)
EXTENDS HubWorkers, FiniteSetTheorems, FunctionTheorems, TLAPS

(* Those among the first k jobs placed that are of method m.               *)
Of(pops, m, k) == {i \in 1..k : pops[i] = m}

Picks(pops, n) == n \in Nat /\ pops \in [1..n -> Methods]

(* Counting them ...                                                       *)
LEMMA TakenCount ==
  ASSUME NEW n, NEW pops, Picks(pops, n), NEW m,
         NEW k \in 0..n
  PROVE  /\ IsFiniteSet(Of(pops, m, k))
         /\ Taken(pops, m, k) = Cardinality(Of(pops, m, k))
         /\ Taken(pops, m, k) \in Nat
<1>0. n \in Nat /\ pops \in [1..n -> Methods]
  BY DEF Picks
<1>1. IsFiniteSet(1..k) /\ Of(pops, m, k) \in SUBSET (1..k)
  BY <1>0, FS_Interval DEF Of
<1>2. IsFiniteSet(Of(pops, m, k))
  BY <1>0, <1>1, FS_Subset
<1>3. Taken(pops, m, k) = Cardinality(Of(pops, m, k))
  BY <1>0 DEF Of, Taken
<1> QED
  BY <1>0, <1>2, <1>3, FS_CardinalityType

(* ... gives one more for each that is placed.                             *)
LEMMA TakenStep ==
  ASSUME NEW n, NEW pops, Picks(pops, n), NEW m
  PROVE  /\ Taken(pops, m, 0) = 0
         /\ \A k \in 1..n :
              Taken(pops, m, k) = IF pops[k] = m THEN Taken(pops, m, k - 1) + 1
                                                 ELSE Taken(pops, m, k - 1)
<1>0. n \in Nat /\ pops \in [1..n -> Methods]
  BY DEF Picks
<1>1. Taken(pops, m, 0) = 0
  <2>1. Of(pops, m, 0) = {} /\ 0 \in 0..n
    BY <1>0 DEF Of
  <2> QED
    BY <2>1, FS_EmptySet, TakenCount
<1>2. ASSUME NEW k \in 1..n
      PROVE  Taken(pops, m, k) = IF pops[k] = m THEN Taken(pops, m, k - 1) + 1
                                                ELSE Taken(pops, m, k - 1)
  <2>1. k - 1 \in 0..n /\ k \in 0..n /\ k \notin Of(pops, m, k - 1)
    BY <1>0 DEF Of
  <2>2. /\ Taken(pops, m, k) = Cardinality(Of(pops, m, k))
        /\ Taken(pops, m, k - 1) = Cardinality(Of(pops, m, k - 1))
        /\ IsFiniteSet(Of(pops, m, k - 1))
    BY <2>1, TakenCount
  <2>3. CASE pops[k] = m
    <3>1. Of(pops, m, k) = Of(pops, m, k - 1) \cup {k}
      BY <1>0, <2>3 DEF Of
    <3> QED
      BY <1>0, <2>1, <2>2, <2>3, <3>1, FS_AddElement
  <2>4. CASE pops[k] # m
    <3>1. Of(pops, m, k) = Of(pops, m, k - 1)
      BY <1>0, <2>4 DEF Of
    <3> QED
      BY <1>0, <2>2, <2>4, <3>1
  <2> QED
    BY <1>0, <2>3, <2>4
<1> QED
  BY <1>0, <1>1, <1>2

(* The count grows, and jobs of one method have different places.          *)
LEMMA TakenGrows ==
  ASSUME NEW n, NEW pops, Picks(pops, n), NEW m,
         NEW k \in 0..n, NEW l \in 0..n, k <= l
  PROVE  /\ Taken(pops, m, k) <= Taken(pops, m, l)
         /\ k < l /\ pops[l] = m => Taken(pops, m, k) < Taken(pops, m, l)
<1>0. n \in Nat /\ pops \in [1..n -> Methods]
  BY DEF Picks
<1>1. ASSUME NEW a \in 0..n, NEW b \in 0..n, a <= b
      PROVE  Taken(pops, m, a) <= Taken(pops, m, b)
  <2>1. Of(pops, m, a) \in SUBSET Of(pops, m, b)
    BY <1>0, <1>1 DEF Of
  <2>2. /\ IsFiniteSet(Of(pops, m, b))
        /\ Taken(pops, m, a) = Cardinality(Of(pops, m, a))
        /\ Taken(pops, m, b) = Cardinality(Of(pops, m, b))
    BY TakenCount
  <2> QED
    BY <1>0, <2>1, <2>2, FS_Subset
<1>2. ASSUME k < l, pops[l] = m
      PROVE  Taken(pops, m, k) < Taken(pops, m, l)
  <2>1. l - 1 \in 0..n /\ k <= l - 1 /\ l \in 1..n
    BY <1>0, <1>2
  <2>2. Taken(pops, m, l) = Taken(pops, m, l - 1) + 1
    BY <1>2, <2>1, TakenStep
  <2>3. Taken(pops, m, k) \in Nat /\ Taken(pops, m, l - 1) \in Nat
    BY <2>1, TakenCount
  <2>4. Taken(pops, m, k) <= Taken(pops, m, l - 1)
    BY <1>0, <1>1, <2>1
  <2> QED
    BY <1>0, <2>2, <2>3, <2>4
<1> QED
  BY <1>0, <1>1, <1>2

(* Every place up to the last is that of one of the jobs placed.           *)
LEMMA TakenCovers ==
  ASSUME NEW n, NEW pops, Picks(pops, n), NEW m,
         NEW c \in 1..Taken(pops, m, n)
  PROVE  \E k \in 1..n : pops[k] = m /\ Taken(pops, m, k) = c
<1>0. n \in Nat /\ pops \in [1..n -> Methods]
  BY DEF Picks
<1> DEFINE S == Of(pops, m, n)
           T == 1..Taken(pops, m, n)
           f == [k \in S |-> Taken(pops, m, k)]
<1>1. IsFiniteSet(S) /\ Taken(pops, m, n) = Cardinality(S)
      /\ Taken(pops, m, n) \in Nat
  <2>1. n \in 0..n
    BY <1>0
  <2> QED
    BY <2>1, TakenCount
<1>2. IsFiniteSet(T) /\ Cardinality(T) = Cardinality(S)
  BY <1>0, <1>1, FS_Interval
<1>3. ASSUME NEW k \in S PROVE Taken(pops, m, k) \in T
  <2>1. /\ k \in 1..n /\ k \in 0..n /\ n \in 0..n /\ 0 \in 0..n
        /\ 0 < k /\ k <= n /\ 0 <= k /\ pops[k] = m
    BY <1>0 DEF Of
  <2>2. Taken(pops, m, 0) = 0 /\ Taken(pops, m, k) \in Nat
    BY <2>1, TakenStep, TakenCount
  <2>3. Taken(pops, m, 0) < Taken(pops, m, k)
    BY <2>1, TakenGrows
  <2>4. Taken(pops, m, k) <= Taken(pops, m, n)
    BY <2>1, TakenGrows
  <2> QED
    BY <1>0, <1>1, <2>2, <2>3, <2>4
<1>4. ASSUME NEW k \in S, NEW l \in S, Taken(pops, m, k) = Taken(pops, m, l)
      PROVE  k = l
  <2>1. k \in 0..n /\ l \in 0..n /\ pops[k] = m /\ pops[l] = m
    BY <1>0 DEF Of
  <2>2. Taken(pops, m, k) \in Nat /\ Taken(pops, m, l) \in Nat
    BY <2>1, TakenCount
  <2>3. ~(k < l) /\ ~(l < k)
    BY <1>4, <2>1, <2>2, TakenGrows
  <2> QED
    BY <1>0, <2>1, <2>3
<1> HIDE DEF S, T
<1>5. f \in Injection(S, T)
  BY <1>0, <1>3, <1>4 DEF Injection, IsInjective
<1>6. f \in Surjection(S, T)
  BY <1>0, <1>1, <1>2, <1>5, FS_Injection
<1>7. PICK k \in S : f[k] = c
  BY <1>0, <1>6 DEF Surjection, T
<1> QED
  BY <1>0, <1>7 DEF S, Of

-----------------------------------------------------------------------------
(* A job is on a list; it waits on one of the lists; a worker has it.      *)
On(s, j) == \E i \in 1..Len(s) : s[i] = j
Waits(work, j) == \E m \in Methods : On(work[m], j)
Runs(j) == \E w \in busy : running[w] = j

(* The lists hold jobs of their method, in the order they arrived in.      *)
Lists(work, meth) ==
  /\ work \in [Methods -> Seq(Nat)]
  /\ \A m \in Methods : \A i \in 1..Len(work[m]) :
       work[m][i] \in 1..Len(meth) /\ meth[work[m][i]] = m
  /\ \A m \in Methods : \A i, j \in 1..Len(work[m]) :
       i < j => work[m][i] < work[m][j]

(* What is left of a list when its first jobs are taken.                   *)
LEMMA Left ==
  ASSUME NEW S, NEW s \in Seq(S), NEW c \in 0..Len(s)
  PROVE  /\ SubSeq(s, c + 1, Len(s)) \in Seq(S)
         /\ Len(SubSeq(s, c + 1, Len(s))) = Len(s) - c
         /\ \A i \in 1..(Len(s) - c) : SubSeq(s, c + 1, Len(s))[i] = s[c + i]
OBVIOUS

(* The jobs that are placed are there, and go to different idle workers    *)
(* that may take them.                                                     *)
LEMMA Places ==
  ASSUME NEW work, work \in [Methods -> Seq(Nat)], NEW n, NEW pops,
         Picks(pops, n), NEW at, Placed(work, pops, at, n)
  PROVE  /\ \A m \in Methods : Taken(pops, m, n) \in 0..Len(work[m])
         /\ \A k \in 1..n :
              /\ Taken(pops, pops[k], k) \in 1..Len(work[pops[k]])
              /\ Taken(pops, pops[k], k) <= Taken(pops, pops[k], n)
              /\ workers[at[k]] \notin busy
              /\ pops[k] # "sendEvents" => at[k] > reserved
         /\ \A k, l \in 1..n : workers[at[k]] = workers[at[l]] => k = l
<1>0. n \in Nat /\ pops \in [1..n -> Methods]
  BY DEF Picks
<1>1. ASSUME NEW k \in 1..n
      PROVE  /\ Taken(pops, pops[k], k) \in 1..Len(work[pops[k]])
             /\ Taken(pops, pops[k], k) <= Taken(pops, pops[k], n)
             /\ workers[at[k]] \notin Engaged(at, k - 1)
             /\ pops[k] # "sendEvents" => at[k] > reserved
  <2>1. /\ Taken(pops, pops[k], k) <= Len(work[pops[k]])
        /\ Selected(at[k], pops[k], Engaged(at, k - 1))
    BY <1>0 DEF Placed
  <2>2. k \in 0..n /\ n \in 0..n /\ 0 \in 0..n /\ 0 < k /\ k <= n
        /\ pops[k] \in Methods /\ Len(work[pops[k]]) \in Nat
    BY <1>0
  <2>3. Taken(pops, pops[k], k) \in Nat /\ Taken(pops, pops[k], 0) = 0
    BY <2>2, TakenCount, TakenStep
  <2>4. Taken(pops, pops[k], 0) < Taken(pops, pops[k], k)
    BY <2>2, TakenGrows
  <2>5. Taken(pops, pops[k], k) <= Taken(pops, pops[k], n)
    BY <2>2, TakenGrows
  <2> QED
    BY <1>0, <2>1, <2>2, <2>3, <2>4, <2>5 DEF Selected, Candidates
<1>2. ASSUME NEW m \in Methods
      PROVE  Taken(pops, m, n) \in 0..Len(work[m])
  <2>0. n \in 0..n /\ Len(work[m]) \in Nat
    BY <1>0
  <2>1. Taken(pops, m, n) \in Nat /\ Len(work[m]) \in Nat
    BY <2>0, TakenCount
  <2>2. CASE Taken(pops, m, n) = 0
    BY <1>0, <2>1, <2>2
  <2>3. CASE Taken(pops, m, n) # 0
    <3>1. Taken(pops, m, n) \in 1..Taken(pops, m, n)
      BY <1>0, <2>1, <2>3
    <3>2. PICK k \in 1..n : pops[k] = m /\ Taken(pops, m, k) = Taken(pops, m, n)
      BY <3>1, TakenCovers
    <3> QED
      BY <1>0, <1>1, <2>1, <3>2
  <2> QED
    BY <1>0, <2>2, <2>3
<1>3. ASSUME NEW k \in 1..n, NEW l \in 1..n, k < l
      PROVE  workers[at[k]] # workers[at[l]]
  <2>1. workers[at[k]] \in Engaged(at, l - 1)
    BY <1>0, <1>3 DEF Engaged
  <2> QED
    BY <1>0, <1>1, <2>1
<1>4. ASSUME NEW k \in 1..n PROVE workers[at[k]] \notin busy
  BY <1>0, <1>1 DEF Engaged
<1>5. \A k, l \in 1..n : k < l \/ l < k \/ k = l
  BY <1>0
<1> QED
  BY <1>0, <1>1, <1>2, <1>3, <1>4, <1>5

(* What giveWorkToWorkers does to the lists and the workers.  Idle workers *)
(* get jobs that waited, each a different one, that they may take; all     *)
(* others wait as they did, behind those given.                            *)
Given(work, meth) ==
  /\ Lists(workList', meth)
  /\ busy \subseteq busy'
  /\ \A w \in busy : running'[w] = running[w]
  /\ \A w \in busy' \ busy :
       /\ Waits(work, running'[w]) /\ ~Waits(workList', running'[w])
       /\ \E i \in DOMAIN workers :
            /\ workers[i] = w
            /\ meth[running'[w]] # "sendEvents" => i > reserved
  /\ \A v, w \in busy' \ busy : running'[v] = running'[w] => v = w
  /\ \A j : Waits(work, j) =>
       Waits(workList', j) \/ \E w \in busy' \ busy : running'[w] = j
  /\ \A m \in Methods : \A a, b :
       /\ On(workList'[m], b) => On(work[m], b)
       /\ On(work[m], a) /\ ~On(workList'[m], a) /\ On(workList'[m], b) => a < b

(* One way the loop may go.                                                *)
Step(work, pops, at, n) ==
  /\ Placed(work, pops, at, n)
  /\ workList' = [m \in Methods |->
                    SubSeq(work[m], Taken(pops, m, n) + 1, Len(work[m]))]
  /\ running' = [w \in Engaged(at, n) |->
                   IF w \in busy THEN running[w]
                   ELSE JobAt(work, pops, CHOOSE k \in 1..n :
                                            workers[at[k]] = w)]

(* Whichever way the loop goes, that is what it does.                      *)
LEMMA GiveWorkGives ==
  ASSUME NEW work, NEW meth, Lists(work, meth), GiveWork(work)
  PROVE  Given(work, meth)
<1>0. PICK n \in 0..Len(workers) :
        \E pops \in [1..n -> Methods], at \in [1..n -> DOMAIN workers] :
          Step(work, pops, at, n)
  BY DEF GiveWork, Step
<1>1. PICK pops \in [1..n -> Methods], at \in [1..n -> DOMAIN workers] :
        Step(work, pops, at, n)
  BY <1>0
<1> DEFINE T(m) == Taken(pops, m, n)
           P(k) == Taken(pops, pops[k], k)
           W(k) == workers[at[k]]
<1>2. work \in [Methods -> Seq(Nat)] /\ n \in Nat
  BY DEF Lists
<1>3. /\ \A m \in Methods : T(m) \in 0..Len(work[m])
      /\ \A k \in 1..n :
           /\ P(k) \in 1..Len(work[pops[k]]) /\ P(k) <= T(pops[k])
           /\ W(k) \notin busy
           /\ pops[k] # "sendEvents" => at[k] > reserved
      /\ \A k, l \in 1..n : W(k) = W(l) => k = l
  <2>1. Picks(pops, n) /\ Placed(work, pops, at, n)
    BY <1>1, <1>2 DEF Picks, Step
  <2> QED
    BY <1>2, <2>1, Places
<1>19. Picks(pops, n)
  BY <1>2 DEF Picks
<1>4. \A m \in Methods :
        /\ workList'[m] \in Seq(Nat) /\ Len(workList'[m]) = Len(work[m]) - T(m)
        /\ \A i \in 1..(Len(work[m]) - T(m)) :
             workList'[m][i] = work[m][T(m) + i]
  <2>1. ASSUME NEW m \in Methods
        PROVE  /\ workList'[m] \in Seq(Nat)
               /\ Len(workList'[m]) = Len(work[m]) - T(m)
               /\ \A i \in 1..(Len(work[m]) - T(m)) :
                    workList'[m][i] = work[m][T(m) + i]
    <3>1. workList'[m] = SubSeq(work[m], T(m) + 1, Len(work[m]))
      BY <1>1 DEF Step
    <3>2. work[m] \in Seq(Nat) /\ T(m) \in 0..Len(work[m])
      BY <1>2, <1>3
    <3> HIDE DEF T
    <3> QED
      BY <3>1, <3>2, Left
  <2> QED
    BY <2>1
<1>5. /\ busy' = busy \cup {W(k) : k \in 1..n}
      /\ \A w \in busy : running'[w] = running[w]
      /\ \A k \in 1..n : running'[W(k)] = work[pops[k]][P(k)]
  <2>1. busy' = Engaged(at, n)
    BY <1>1 DEF Step, busy
  <2>2. ASSUME NEW k \in 1..n PROVE running'[W(k)] = JobAt(work, pops, k)
    <3>1. (CHOOSE l \in 1..n : workers[at[l]] = W(k)) = k
      BY <1>3
    <3>2. W(k) \in Engaged(at, n) /\ W(k) \notin busy
      BY <1>3 DEF Engaged
    <3> QED
      BY <1>1, <3>1, <3>2 DEF Step
  <2>3. \A w \in busy : running'[w] = running[w]
    BY <1>1 DEF Engaged, Step
  <2> QED
    BY <2>1, <2>2, <2>3 DEF Engaged, JobAt
<1>6. \A m \in Methods : \A c \in 1..T(m) : \E k \in 1..n : pops[k] = m /\ P(k) = c
  BY <1>19, TakenCovers
<1>7. \A k, l \in 1..n : pops[k] = pops[l] /\ P(k) = P(l) => k = l
  <2>1. ASSUME NEW k \in 1..n, NEW l \in 1..n, k < l, pops[k] = pops[l]
        PROVE  P(k) # P(l)
    <3>1. k \in 0..n /\ l \in 0..n /\ k <= l
      BY <2>1
    <3>2. P(k) < P(l)
      BY <1>19, <2>1, <3>1, TakenGrows
    <3>3. P(k) \in Nat /\ P(l) \in Nat
      BY <1>3
    <3> QED
      BY <3>2, <3>3
  <2>2. \A k, l \in 1..n : k < l \/ l < k \/ k = l
    BY <1>2
  <2> QED
    BY <2>1, <2>2
<1> HIDE DEF T, P, W
<1>8. Lists(workList', meth)
  <2>1. workList' \in [Methods -> Seq(Nat)]
    BY <1>1, <1>4 DEF Step
  <2>2. ASSUME NEW m \in Methods, NEW i \in 1..Len(workList'[m])
        PROVE  /\ workList'[m][i] = work[m][T(m) + i]
               /\ T(m) + i \in 1..Len(work[m])
    BY <1>2, <1>3, <1>4
  <2>3. ASSUME NEW m \in Methods, NEW i \in 1..Len(workList'[m]),
               NEW j \in 1..Len(workList'[m]), i < j
        PROVE  workList'[m][i] < workList'[m][j]
    <3>1. T(m) + i < T(m) + j
      BY <1>3, <2>3
    <3> QED
      BY <2>2, <3>1 DEF Lists
  <2>4. ASSUME NEW m \in Methods, NEW i \in 1..Len(workList'[m])
        PROVE  workList'[m][i] \in 1..Len(meth) /\ meth[workList'[m][i]] = m
    <3>1. \A k \in 1..Len(work[m]) :
            work[m][k] \in 1..Len(meth) /\ meth[work[m][k]] = m
      BY DEF Lists
    <3>2. PICK k \in 1..Len(work[m]) : workList'[m][i] = work[m][k]
      BY <2>2
    <3> QED
      BY <3>1, <3>2
  <2> QED
    BY <2>1, <2>3, <2>4 DEF Lists
<1>9. ASSUME NEW m \in Methods, NEW b, On(workList'[m], b)
      PROVE  \E i \in 1..Len(work[m]) : i > T(m) /\ work[m][i] = b
  <2>1. PICK i \in 1..Len(workList'[m]) : workList'[m][i] = b
    BY <1>9 DEF On
  <2>2. T(m) + i \in 1..Len(work[m]) /\ T(m) + i > T(m)
    BY <1>2, <1>3, <1>4
  <2> QED
    BY <1>4, <2>1, <2>2
<1>10. ASSUME NEW m \in Methods, NEW a, On(work[m], a), ~On(workList'[m], a)
       PROVE  \E i \in 1..T(m) : work[m][i] = a
  <2>1. PICK i \in 1..Len(work[m]) : work[m][i] = a
    BY <1>10 DEF On
  <2>2. CASE i > T(m)
    <3>2. /\ T(m) \in Nat /\ Len(work[m]) \in Nat
          /\ Len(workList'[m]) = Len(work[m]) - T(m)
      BY <1>2, <1>3, <1>4
    <3>3. i - T(m) \in 1..(Len(work[m]) - T(m)) /\ T(m) + (i - T(m)) = i
      BY <2>2, <3>2
    <3>1. /\ i - T(m) \in 1..Len(workList'[m])
          /\ workList'[m][i - T(m)] = work[m][i]
      BY <1>4, <3>2, <3>3
    <3> QED
      BY <1>10, <2>1, <3>1 DEF On
  <2>3. CASE i <= T(m)
    BY <1>3, <2>1, <2>3
  <2> QED
    BY <1>3, <2>2, <2>3
<1>11. ASSUME NEW k \in 1..n
       PROVE  /\ pops[k] \in Methods
              /\ On(work[pops[k]], running'[W(k)])
              /\ ~Waits(workList', running'[W(k)])
              /\ meth[running'[W(k)]] = pops[k]
  <2>1. /\ pops[k] \in Methods /\ P(k) \in 1..Len(work[pops[k]])
        /\ P(k) <= T(pops[k]) /\ running'[W(k)] = work[pops[k]][P(k)]
    BY <1>3, <1>5
  <2>2. ASSUME NEW m \in Methods, On(workList'[m], running'[W(k)])
        PROVE  FALSE
    <3>1. PICK i \in 1..Len(work[m]) : i > T(m) /\ work[m][i] = running'[W(k)]
      BY <1>9, <2>2
    <3>2. m = pops[k]
      <4>1. meth[work[m][i]] = m
        BY DEF Lists
      <4>2. meth[work[pops[k]][P(k)]] = pops[k]
        BY <2>1 DEF Lists
      <4> QED
        BY <2>1, <3>1, <4>1, <4>2
    <3>3. P(k) < i
      BY <1>3, <2>1, <3>1, <3>2
    <3>4. work[m][P(k)] < work[m][i] /\ work[m][i] \in Nat
      BY <1>2, <2>1, <3>1, <3>2, <3>3 DEF Lists
    <3> QED
      BY <2>1, <3>1, <3>2, <3>4
  <2> QED
    BY <2>1, <2>2 DEF On, Waits, Lists
<1>12. ASSUME NEW w \in busy' \ busy PROVE \E k \in 1..n : w = W(k)
  BY <1>5
<1>13. ASSUME NEW w \in busy' \ busy
       PROVE  /\ Waits(work, running'[w]) /\ ~Waits(workList', running'[w])
              /\ \E i \in DOMAIN workers :
                   /\ workers[i] = w
                   /\ meth[running'[w]] # "sendEvents" => i > reserved
  <2>1. PICK k \in 1..n : w = W(k)
    BY <1>12
  <2>2. at[k] \in DOMAIN workers /\ workers[at[k]] = w
    BY <2>1 DEF W
  <2> QED
    BY <1>3, <1>11, <2>1, <2>2 DEF Waits
<1>14. ASSUME NEW v \in busy' \ busy, NEW w \in busy' \ busy,
              running'[v] = running'[w]
       PROVE  v = w
  <2>1. PICK k \in 1..n : v = W(k)
    BY <1>12
  <2>2. PICK l \in 1..n : w = W(l)
    BY <1>12
  <2>3. pops[k] = pops[l]
    BY <1>11, <1>14, <2>1, <2>2
  <2>4. /\ P(k) \in 1..Len(work[pops[k]]) /\ P(l) \in 1..Len(work[pops[k]])
        /\ work[pops[k]][P(k)] = work[pops[k]][P(l)] /\ pops[k] \in Methods
    BY <1>3, <1>5, <1>14, <2>1, <2>2, <2>3
  <2>5. ~(P(k) < P(l)) /\ ~(P(l) < P(k))
    <3>1. work[pops[k]][P(k)] \in Nat
      BY <1>2, <2>4
    <3>2. \A i, j \in 1..Len(work[pops[k]]) :
            i < j => work[pops[k]][i] < work[pops[k]][j]
      BY <2>4 DEF Lists
    <3> QED
      BY <2>4, <3>1, <3>2
  <2>6. P(k) = P(l)
    BY <2>4, <2>5
  <2> QED
    BY <1>7, <2>1, <2>2, <2>3, <2>6
<1>15. ASSUME NEW j, Waits(work, j), ~Waits(workList', j)
       PROVE  \E w \in busy' \ busy : running'[w] = j
  <2>1. PICK m \in Methods : On(work[m], j) /\ ~On(workList'[m], j)
    BY <1>15 DEF Waits
  <2>2. PICK i \in 1..T(m) : work[m][i] = j
    BY <1>10, <2>1
  <2>3. PICK k \in 1..n : pops[k] = m /\ P(k) = i
    BY <1>6, <2>2
  <2>4. W(k) \in busy' \ busy
    BY <1>3, <1>5
  <2> QED
    BY <1>5, <2>2, <2>3, <2>4
<1>16. ASSUME NEW m \in Methods, NEW a, NEW b,
              On(work[m], a), ~On(workList'[m], a), On(workList'[m], b)
       PROVE  a < b
  <2>1. PICK i \in 1..T(m) : work[m][i] = a
    BY <1>10, <1>16
  <2>2. PICK k \in 1..Len(work[m]) : k > T(m) /\ work[m][k] = b
    BY <1>9, <1>16
  <2>3. i \in 1..Len(work[m]) /\ i < k
    BY <1>3, <2>1, <2>2
  <2> QED
    BY <2>1, <2>2, <2>3 DEF Lists
<1>17. ASSUME NEW m \in Methods, NEW b, On(workList'[m], b)
       PROVE  On(work[m], b)
  BY <1>9, <1>17 DEF On
<1>18. busy \subseteq busy' /\ \A w \in busy : running'[w] = running[w]
  BY <1>5
<1> QED
  BY <1>8, <1>13, <1>14, <1>15, <1>16, <1>17, <1>18 DEF Given

-----------------------------------------------------------------------------
(* The pool: as many processes as there are to be, each worker listed once *)
(* and only while there is a connection to it.                             *)
Listed ==
  /\ workers \in Seq(Worker)
  /\ \A i, j \in 1..Len(workers) : workers[i] = workers[j] => i = j
  /\ \A i \in 1..Len(workers) : workers[i] \in linked
Pool ==
  /\ processes \subseteq Worker /\ Cardinality(processes) = NumWorkers
  /\ linked \subseteq Worker /\ busy \subseteq linked
  /\ stopping \subseteq processes
  /\ crashes \in 0..MaxCrashes /\ shrunk \in BOOLEAN

(* The jobs, of given lists and methods: each waits, runs or is answered.  *)
Shared(work, meth) ==
  /\ meth \in Seq(Methods) /\ Lists(work, meth)
  /\ \A w \in busy : running[w] \in 1..Len(meth) /\ running[w] \notin answered
  /\ answered \subseteq 1..Len(meth)
  /\ \A j \in 1..Len(meth) : Waits(work, j) \/ Runs(j) \/ j \in answered
  /\ \A j : Waits(work, j) => ~Runs(j) /\ j \notin answered
  /\ \A v, w \in busy : running[v] = running[w] => v = w

(* A job that waits is behind all of its method that do not.               *)
Order(work, meth) ==
  \A m \in Methods : \A n :
    On(work[m], n) => \A j \in 1..Len(meth) :
                        meth[j] = m /\ ~Waits(work, j) => j < n

(* While no worker has left, other jobs are run beyond the reserved ones.  *)
Reserve(meth) ==
  ~shrunk => \A w \in busy : meth[running[w]] # "sendEvents" =>
               \E i \in 1..Len(workers) : workers[i] = w /\ i > reserved

IInv == Listed /\ Pool /\ Shared(workList, method) /\ Order(workList, method)
        /\ Reserve(method)

(* Giving work keeps the jobs together and the reserved workers free.      *)
LEMMA GiveWorkKeeps ==
  ASSUME NEW work, NEW meth, Listed, Pool,
         Shared(work, meth), Order(work, meth), Reserve(meth),
         GiveWork(work), method' = meth, UNCHANGED <<answered, poolVars>>
  PROVE  IInv'
<1>1. Given(work, meth)
  BY GiveWorkGives DEF Shared
<1>2. Listed'
  BY DEF Listed, poolVars
<1>3. Pool'
  <2>1. busy' \subseteq linked
    <3>1. ASSUME NEW w \in busy' PROVE w \in linked
      <4>1. CASE w \in busy
        BY <4>1 DEF Pool
      <4>2. CASE w \notin busy
        BY <1>1, <4>2 DEF Given, Listed
      <4> QED
        BY <4>1, <4>2
    <3> QED
      BY <3>1
  <2> QED
    BY <2>1 DEF Pool, poolVars
<1>4. \A j : Waits(workList', j) => Waits(work, j)
  BY <1>1 DEF Given, Waits
<1>5. \A w \in busy' \ busy : /\ Waits(work, running'[w])
                              /\ ~Waits(workList', running'[w])
                              /\ running'[w] \in 1..Len(meth)
  BY <1>1 DEF Given, Waits, On, Shared, Lists
<1>6. \A w \in busy : w \in busy' /\ running'[w] = running[w]
  BY <1>1 DEF Given
<1>7. Shared(workList, method)'
  <2>1. meth \in Seq(Methods) /\ Lists(workList', meth)
        /\ answered \subseteq 1..Len(meth)
    BY <1>1 DEF Given, Shared
  <2>2. ASSUME NEW w \in busy'
        PROVE  running'[w] \in 1..Len(meth) /\ running'[w] \notin answered
    BY <1>5, <1>6 DEF Shared
  <2>3. ASSUME NEW j \in 1..Len(meth), ~Waits(workList', j), j \notin answered
        PROVE  \E w \in busy' : running'[w] = j
    <3>1. CASE Waits(work, j)
      BY <1>1, <2>3, <3>1 DEF Given
    <3>2. CASE Runs(j)
      BY <1>6, <3>2 DEF Runs
    <3> QED
      BY <2>3, <3>1, <3>2 DEF Shared
  <2>4. ASSUME NEW j, Waits(workList', j)
        PROVE  (\A w \in busy' : running'[w] # j) /\ j \notin answered
    BY <1>4, <1>5, <1>6, <2>4 DEF Shared, Runs
  <2>5. ASSUME NEW v \in busy', NEW w \in busy', running'[v] = running'[w]
        PROVE  v = w
    <3>1. CASE v \in busy /\ w \in busy
      BY <1>6, <2>5, <3>1 DEF Shared
    <3>2. CASE v \notin busy /\ w \notin busy
      BY <1>1, <2>5, <3>2 DEF Given
    <3>3. CASE v \in busy /\ w \notin busy
      BY <1>5, <1>6, <2>5, <3>3 DEF Shared, Runs
    <3>4. CASE v \notin busy /\ w \in busy
      BY <1>5, <1>6, <2>5, <3>4 DEF Shared, Runs
    <3> QED
      BY <3>1, <3>2, <3>3, <3>4
  <2> QED
    BY <2>1, <2>2, <2>3, <2>4, <2>5 DEF Shared, Runs
<1>8. Order(workList, method)'
  <2>1. ASSUME NEW m \in Methods, NEW n, On(workList'[m], n),
               NEW j \in 1..Len(meth), meth[j] = m, ~Waits(workList', j)
        PROVE  j < n
    <3>1. On(work[m], n)
      BY <1>1, <2>1 DEF Given
    <3>2. CASE ~Waits(work, j)
      BY <2>1, <3>1, <3>2 DEF Order
    <3>3. CASE Waits(work, j)
      <4>1. On(work[m], j)
        BY <2>1, <3>3 DEF Shared, Lists, Waits, On
      <4>2. ~On(workList'[m], j)
        BY <2>1 DEF Waits
      <4> QED
        BY <1>1, <2>1, <4>1, <4>2 DEF Given
    <3> QED
      BY <3>2, <3>3
  <2> QED
    BY <2>1 DEF Order
<1>9. Reserve(method)'
  <2>1. ASSUME ~shrunk, NEW w \in busy', meth[running'[w]] # "sendEvents"
        PROVE  \E i \in 1..Len(workers) : workers[i] = w /\ i > reserved
    <3>1. CASE w \in busy
      BY <1>6, <2>1, <3>1 DEF Reserve
    <3>2. CASE w \notin busy
      BY <1>1, <2>1, <3>2 DEF Given, Listed
    <3> QED
      BY <3>1, <3>2
  <2> QED
    BY <2>1 DEF Reserve, poolVars, reserved
<1> QED
  BY <1>2, <1>3, <1>7, <1>8, <1>9 DEF IInv

(* A job that arrives is the last of its list.                             *)
LEMMA Arrives ==
  ASSUME IInv, NEW m \in Methods
  PROVE  LET work == [workList EXCEPT ![m] = Append(@, Len(method) + 1)]
             meth == Append(method, m)
         IN  /\ Shared(work, meth) /\ Order(work, meth) /\ Reserve(meth)
             /\ \A j : Waits(work, j) <=>
                        Waits(workList, j) \/ j = Len(method) + 1
<1> DEFINE new == Len(method) + 1
           work == [workList EXCEPT ![m] = Append(@, new)]
           meth == Append(method, m)
<1>1. /\ method \in Seq(Methods) /\ workList \in [Methods -> Seq(Nat)]
      /\ Lists(workList, method) /\ Len(method) \in Nat /\ new \in Nat
  BY DEF IInv, Shared, Lists
<1>2. /\ meth \in Seq(Methods) /\ Len(meth) = new /\ meth[new] = m
      /\ \A j \in 1..Len(method) : meth[j] = method[j]
  BY <1>1
<1>3. /\ work \in [Methods -> Seq(Nat)]
      /\ Len(work[m]) = Len(workList[m]) + 1
      /\ work[m][Len(workList[m]) + 1] = new
      /\ \A i \in 1..Len(workList[m]) : work[m][i] = workList[m][i]
      /\ \A p \in Methods \ {m} : work[p] = workList[p]
  <2>1. workList[m] \in Seq(Nat) /\ work[m] = Append(workList[m], new)
    BY <1>1
  <2>2. /\ Append(workList[m], new) \in Seq(Nat)
        /\ Len(Append(workList[m], new)) = Len(workList[m]) + 1
        /\ Append(workList[m], new)[Len(workList[m]) + 1] = new
        /\ \A i \in 1..Len(workList[m]) :
             Append(workList[m], new)[i] = workList[m][i]
    BY <1>1, <2>1
  <2> QED
    BY <1>1, <2>1, <2>2
<1> HIDE DEF work, meth, new
<1>4. /\ \A p \in Methods : \A i \in 1..Len(workList[p]) :
           /\ workList[p][i] \in 1..Len(method)
           /\ method[workList[p][i]] = p
      /\ \A p \in Methods : Len(workList[p]) \in Nat
  BY <1>1 DEF Lists
<1>5. \A p \in Methods : \A i \in 1..Len(work[p]) :
        \/ i \in 1..Len(workList[p]) /\ work[p][i] = workList[p][i]
        \/ p = m /\ i = Len(workList[m]) + 1 /\ work[p][i] = new
  BY <1>3, <1>4
<1>6. Lists(work, meth)
  <2>1. ASSUME NEW p \in Methods, NEW i \in 1..Len(work[p])
        PROVE  work[p][i] \in 1..Len(meth) /\ meth[work[p][i]] = p
    <3>1. 1..Len(method) \subseteq 1..new /\ new \in 1..new
      BY <1>1 DEF new
    <3>2. CASE i \in 1..Len(workList[p]) /\ work[p][i] = workList[p][i]
      BY <1>2, <1>4, <3>1, <3>2
    <3>3. CASE p = m /\ i = Len(workList[m]) + 1 /\ work[p][i] = new
      BY <1>2, <3>1, <3>3
    <3> QED
      BY <1>5, <3>2, <3>3
  <2>2. ASSUME NEW p \in Methods, NEW i \in 1..Len(work[p]),
               NEW j \in 1..Len(work[p]), i < j
        PROVE  work[p][i] < work[p][j]
    <3>1. i \in 1..Len(workList[p]) /\ work[p][i] = workList[p][i]
      <4>1. CASE p = m
        <5>1. Len(workList[m]) \in Nat /\ Len(work[m]) = Len(workList[m]) + 1
          BY <1>3, <1>4
        <5>2. i \in 1..Len(workList[m])
          BY <2>2, <4>1, <5>1
        <5> QED
          BY <1>3, <4>1, <5>2
      <4>2. CASE p # m
        <5>1. work[p] = workList[p]
          BY <1>3, <4>2
        <5> QED
          BY <5>1
      <4> QED
        BY <4>1, <4>2
    <3>2. CASE j \in 1..Len(workList[p]) /\ work[p][j] = workList[p][j]
      BY <1>1, <2>2, <3>1, <3>2 DEF Lists
    <3>3. CASE work[p][j] = new
      <4>1. workList[p][i] \in 1..Len(method)
        BY <1>4, <3>1
      <4> QED
        BY <1>1, <3>1, <3>3, <4>1 DEF new
    <3> QED
      BY <1>5, <3>2, <3>3
  <2> QED
    BY <1>3, <2>1, <2>2 DEF Lists
<1>7. \A p \in Methods : \A j :
        On(work[p], j) <=> On(workList[p], j) \/ (p = m /\ j = new)
  <2>1. ASSUME NEW p \in Methods, NEW j, On(work[p], j)
        PROVE  On(workList[p], j) \/ (p = m /\ j = new)
    BY <1>5, <2>1 DEF On
  <2>2. ASSUME NEW p \in Methods, NEW j, On(workList[p], j)
        PROVE  On(work[p], j)
    <3>1. PICK i \in 1..Len(workList[p]) : workList[p][i] = j
      BY <2>2 DEF On
    <3>2. i \in 1..Len(work[p]) /\ work[p][i] = j
      <4>1. CASE p = m
        <5>1. Len(workList[m]) \in Nat /\ Len(work[m]) = Len(workList[m]) + 1
          BY <1>3, <1>4
        <5>2. i \in 1..Len(workList[m]) /\ i \in 1..Len(work[m])
          BY <3>1, <4>1, <5>1
        <5> QED
          BY <1>3, <3>1, <4>1, <5>2
      <4>2. CASE p # m
        <5>1. work[p] = workList[p]
          BY <1>3, <4>2
        <5> QED
          BY <3>1, <5>1
      <4> QED
        BY <4>1, <4>2
    <3> QED
      BY <3>2 DEF On
  <2>3. On(work[m], new)
    BY <1>3, <1>4 DEF On
  <2> QED
    BY <2>1, <2>2, <2>3
<1>8. \A j : Waits(work, j) <=> Waits(workList, j) \/ j = new
  BY <1>7 DEF Waits
<1>9. new \notin 1..Len(method) /\ 1..Len(meth) = 1..Len(method) \cup {new}
  BY <1>1, <1>2 DEF new
<1>10. Shared(work, meth)
  BY <1>2, <1>6, <1>8, <1>9 DEF IInv, Shared, Runs
<1>11. Order(work, meth)
  <2>1. ASSUME NEW p \in Methods, NEW n, On(work[p], n),
               NEW j \in 1..Len(meth), meth[j] = p, ~Waits(work, j)
        PROVE  j < n
    <3>1. j \in 1..Len(method) /\ method[j] = p /\ ~Waits(workList, j)
      BY <1>2, <1>8, <1>9, <2>1
    <3>2. CASE On(workList[p], n)
      BY <3>1, <3>2 DEF IInv, Order
    <3>3. CASE n = new
      BY <1>1, <3>1, <3>3 DEF new
    <3> QED
      BY <1>7, <2>1, <3>2, <3>3
  <2> QED
    BY <2>1 DEF Order
<1>12. Reserve(meth)
  <2>1. \A w \in busy : meth[running[w]] = method[running[w]]
    BY <1>2 DEF IInv, Shared
  <2> QED
    BY <2>1 DEF IInv, Reserve
<1> QED
  BY <1>8, <1>10, <1>11, <1>12 DEF work, meth, new

-----------------------------------------------------------------------------
(* RemoveWorker: the worker is in the list no more, the others still are.  *)
LEMMA Removes ==
  ASSUME Listed, shrunk \in BOOLEAN, NEW w, RemoveWorker(w)
  PROVE  /\ workers' \in Seq(Worker)
         /\ \A i, j \in 1..Len(workers') : workers'[i] = workers'[j] => i = j
         /\ \A i \in 1..Len(workers') :
              /\ workers'[i] # w
              /\ \E j \in 1..Len(workers) : workers'[i] = workers[j]
         /\ shrunk' \in BOOLEAN
         /\ ~shrunk' => ~shrunk /\ workers' = workers
<1>0. /\ workers \in Seq(Worker) /\ Len(workers) \in Nat
      /\ DOMAIN workers = 1..Len(workers)
      /\ \A i, j \in 1..Len(workers) : workers[i] = workers[j] => i = j
  BY DEF Listed
<1>1. CASE w \notin Range(workers)
  <2>1. \A i \in 1..Len(workers) : workers[i] # w
    BY <1>0, <1>1 DEF Range
  <2> QED
    BY <1>0, <1>1, <2>1 DEF RemoveWorker
<1>2. CASE w \in Range(workers)
  <2> DEFINE n == Position(w)
             a == SubSeq(workers, 1, n - 1)
             b == SubSeq(workers, n + 1, Len(workers))
             r == RemoveAt(workers, n)
  <2>1. n \in 1..Len(workers) /\ workers[n] = w
    <3>1. \E i \in DOMAIN workers : workers[i] = w
      BY <1>2 DEF Range
    <3> QED
      BY <1>0, <3>1 DEF Position
  <2> HIDE DEF n
  <2>0. /\ n \in Nat /\ n - 1 <= Len(workers) /\ n >= 1 /\ n <= Len(workers)
        /\ workers \in Seq(Worker) /\ Len(workers) \in Nat
    BY <1>0, <2>1
  <2>2. a \in Seq(Worker) /\ Len(a) = n - 1
        /\ \A i \in 1..(n - 1) : a[i] = workers[i]
    BY <1>0, <2>0, <2>1
  <2>3. b \in Seq(Worker) /\ Len(b) = Len(workers) - n
        /\ \A i \in 1..(Len(workers) - n) : b[i] = workers[n + i]
    <3>1. n \in 0..Len(workers)
      BY <2>0
    <3> QED
      BY <2>0, <3>1, Left
  <2>4. r = a \o b
    BY DEF RemoveAt
  <2>5. workers' = r /\ shrunk' = TRUE
    BY <1>2 DEF RemoveWorker, n
  <2> HIDE DEF a, b, r
  <2>6. /\ a \o b \in Seq(Worker) /\ Len(a \o b) = Len(a) + Len(b)
        /\ \A i \in 1..(Len(a) + Len(b)) :
             (a \o b)[i] = IF i <= Len(a) THEN a[i] ELSE b[i - Len(a)]
    BY <2>2, <2>3
  <2>7. r \in Seq(Worker) /\ Len(r) = Len(workers) - 1
    BY <1>0, <2>1, <2>2, <2>3, <2>4, <2>6
  <2>8. ASSUME NEW i \in 1..Len(r)
        PROVE  r[i] = workers[IF i < n THEN i ELSE i + 1]
    <3>1. CASE i < n
      BY <1>0, <2>1, <2>2, <2>3, <2>4, <2>6, <3>1
    <3>2. CASE i >= n
      <4>1. /\ i - Len(a) \in 1..(Len(workers) - n)
            /\ n + (i - Len(a)) = i + 1
        BY <1>0, <2>1, <2>2, <2>7, <3>2
      <4>2. r[i] = b[i - Len(a)]
        BY <1>0, <2>1, <2>2, <2>3, <2>4, <2>6, <3>2
      <4>3. b[i - Len(a)] = workers[n + (i - Len(a))]
        BY <2>3, <4>1
      <4>4. ~(i < n)
        BY <1>0, <2>1, <3>2
      <4> QED
        BY <4>1, <4>2, <4>3, <4>4
    <3> QED
      BY <1>0, <2>1, <3>1, <3>2
  <2> DEFINE from(i) == IF i < n THEN i ELSE i + 1
  <2>9. \A i \in 1..Len(r) : from(i) \in 1..Len(workers) /\ from(i) # n
    BY <1>0, <2>1, <2>7
  <2>10. \A i, j \in 1..Len(r) : from(i) = from(j) => i = j
    BY <1>0, <2>1, <2>7
  <2>11. \A i \in 1..Len(r) : r[i] = workers[from(i)]
    BY <2>8
  <2> HIDE DEF from
  <2>12. \A i, j \in 1..Len(r) : r[i] = r[j] => i = j
    BY <1>0, <2>9, <2>10, <2>11
  <2>13. \A i \in 1..Len(r) :
           r[i] # w /\ \E j \in 1..Len(workers) : r[i] = workers[j]
    BY <1>0, <2>1, <2>9, <2>11
  <2> QED
    BY <2>5, <2>7, <2>12, <2>13
<1> QED
  BY <1>1, <1>2

(* What becomes of jobs and lists when at most one worker gets free.       *)
Freeing ==
  /\ busy' \subseteq busy
  /\ \A w \in busy' : running'[w] = running[w]
  /\ Shared(workList, method)' /\ Order(workList, method)'
  /\ method' = method

(* Finished, and actions that leave the jobs alone: the jobs stay apart.   *)
LEMMA Frees ==
  ASSUME IInv, UNCHANGED <<method, workList>>,
         (\E w \in Worker : Finished(w)) \/ UNCHANGED <<running, answered>>
  PROVE  Freeing
<1>1. CASE UNCHANGED <<running, answered>>
  BY <1>1 DEF IInv, Freeing, busy, Shared, Order, Runs
<1>2. ASSUME NEW w \in Worker, Finished(w) PROVE Freeing
  <2>1. /\ w \in busy /\ busy' = busy \ {w}
        /\ \A v \in busy' : running'[v] = running[v]
        /\ answered' = answered \cup {running[w]}
    BY <1>2 DEF Finished, Restrict, busy
  <2>2. \A j : Runs(j) <=> (\E v \in busy' : running'[v] = j) \/ j = running[w]
    BY <2>1 DEF Runs
  <2>3. ~Waits(workList, running[w]) /\ running[w] \in 1..Len(method)
    BY <2>1 DEF IInv, Shared, Runs
  <2>4. Shared(workList, method)'
    <3>1. \A v \in busy' : running'[v] \in 1..Len(method) /\ running'[v] \notin answered'
      BY <2>1 DEF IInv, Shared
    <3>2. \A j \in 1..Len(method) :
            Waits(workList, j) \/ (\E v \in busy' : running'[v] = j) \/ j \in answered'
      BY <2>1, <2>2 DEF IInv, Shared
    <3>3. \A j : Waits(workList, j) =>
            ~(\E v \in busy' : running'[v] = j) /\ j \notin answered'
      BY <2>1, <2>2, <2>3 DEF IInv, Shared
    <3>4. \A u, v \in busy' : running'[u] = running'[v] => u = v
      BY <2>1 DEF IInv, Shared
    <3>5. answered' \subseteq 1..Len(method)
      BY <2>1, <2>3 DEF IInv, Shared
    <3> QED
      BY <3>1, <3>2, <3>3, <3>4, <3>5 DEF IInv, Shared, Runs
  <2>5. Order(workList, method)'
    BY DEF IInv, Order
  <2> QED
    BY <2>1, <2>4, <2>5 DEF Freeing
<1> QED
  BY <1>1, <1>2

(* Reserve is kept as long as workers stay where they are.                 *)
LEMMA ReserveKept ==
  ASSUME IInv, Freeing,
         ~shrunk' => /\ ~shrunk
                     /\ \A i \in 1..Len(workers) :
                          i \in 1..Len(workers') /\ workers'[i] = workers[i]
  PROVE  Reserve(method)'
<1>1. ASSUME ~shrunk', NEW w \in busy', method[running'[w]] # "sendEvents"
      PROVE  \E i \in 1..Len(workers') : workers'[i] = w /\ i > reserved
  <2>1. PICK i \in 1..Len(workers) : workers[i] = w /\ i > reserved
    BY <1>1 DEF Freeing, IInv, Reserve
  <2> QED
    BY <1>1, <2>1
<1> QED
  BY <1>1 DEF Freeing, Reserve, reserved

(* A worker reports for work: it was not in the list before.               *)
LEMMA Reporting ==
  ASSUME IInv, NEW w \in Worker, perspective_reportingForWork(w)
  PROVE  IInv'
<1>1. Freeing
  BY Frees DEF perspective_reportingForWork
<1>2. /\ workers \in Seq(Worker) /\ Len(workers) \in Nat
      /\ w \notin linked /\ linked' = linked \cup {w}
      /\ workers' = Append(workers, w)
  BY DEF IInv, Listed, perspective_reportingForWork
<1>3. /\ workers' \in Seq(Worker) /\ Len(workers') = Len(workers) + 1
      /\ workers'[Len(workers) + 1] = w
      /\ \A i \in 1..Len(workers) :
           i \in 1..Len(workers') /\ workers'[i] = workers[i]
  BY <1>2
<1>4. Listed'
  <2>1. \A i \in 1..Len(workers') : i \in 1..Len(workers) \/ i = Len(workers) + 1
    BY <1>2, <1>3
  <2>2. \A i \in 1..Len(workers) : workers'[i] \in linked
    BY <1>3 DEF IInv, Listed
  <2>3. \A i, j \in 1..Len(workers) : workers'[i] = workers'[j] => i = j
    BY <1>3 DEF IInv, Listed
  <2> QED
    BY <1>2, <1>3, <2>1, <2>2, <2>3 DEF Listed
<1>5. Pool'
  BY <1>2 DEF IInv, Pool, busy, perspective_reportingForWork
<1>6. Reserve(method)'
  BY <1>1, <1>3, ReserveKept DEF perspective_reportingForWork
<1> QED
  BY <1>1, <1>4, <1>5, <1>6 DEF IInv, Freeing

(* A call returns or raises: the worker is free, and perhaps leaves.       *)
LEMMA Returning ==
  ASSUME IInv, NEW w \in Worker, executed(w) \/ executeFailed(w)
  PROVE  IInv'
<1>1. Freeing
  BY Frees DEF executed, executeFailed
<1>2. /\ UNCHANGED <<processes, linked, crashes>>
      /\ stopping' \subseteq processes
      /\ RemoveWorker(w) \/ UNCHANGED <<workers, shrunk>>
  BY DEF executed, executeFailed, Served, IInv, Pool
<1>3. CASE RemoveWorker(w)
  <2>1. /\ workers' \in Seq(Worker)
        /\ \A i, j \in 1..Len(workers') : workers'[i] = workers'[j] => i = j
        /\ \A i \in 1..Len(workers') :
             \E j \in 1..Len(workers) : workers'[i] = workers[j]
        /\ shrunk' \in BOOLEAN
        /\ ~shrunk' => ~shrunk /\ workers' = workers
    BY <1>3, Removes DEF IInv, Pool
  <2>2. Listed'
    BY <1>2, <2>1 DEF IInv, Listed
  <2>3. Pool'
    BY <1>1, <1>2, <2>1 DEF IInv, Pool, Freeing
  <2>4. Reserve(method)'
    BY <1>1, <2>1, ReserveKept
  <2> QED
    BY <1>1, <2>2, <2>3, <2>4 DEF IInv, Freeing
<1>4. CASE UNCHANGED <<workers, shrunk>>
  <2>1. Listed'
    BY <1>2, <1>4 DEF IInv, Listed
  <2>2. Pool'
    BY <1>1, <1>2, <1>4 DEF IInv, Pool, Freeing
  <2>3. Reserve(method)'
    BY <1>1, <1>4, ReserveKept
  <2> QED
    BY <1>1, <2>1, <2>2, <2>3 DEF IInv, Freeing
<1> QED
  BY <1>2, <1>3, <1>4

(* connectionLost: the worker's job has failed and it leaves the list.     *)
LEMMA Losing ==
  ASSUME IInv, NEW w \in Worker, connectionLost(w)
  PROVE  IInv'
<1>1. Freeing
  BY Frees DEF connectionLost
<1>2. w \notin busy'
  BY DEF connectionLost, Finished, Restrict, busy
<1>3. /\ processes' = processes /\ linked' = linked \ {w}
      /\ stopping' \subseteq processes /\ RemoveWorker(w)
      /\ crashes' \in 0..MaxCrashes
  <2>1. crashes' \in 0..MaxCrashes
    BY NumbersAssumption DEF connectionLost, IInv, Pool
  <2> QED
    BY <2>1 DEF connectionLost, IInv, Pool
<1>4. /\ workers' \in Seq(Worker)
      /\ \A i, j \in 1..Len(workers') : workers'[i] = workers'[j] => i = j
      /\ \A i \in 1..Len(workers') :
           workers'[i] # w /\ \E j \in 1..Len(workers) : workers'[i] = workers[j]
      /\ shrunk' \in BOOLEAN
      /\ ~shrunk' => ~shrunk /\ workers' = workers
  BY <1>3, Removes DEF IInv, Pool
<1>5. Listed'
  BY <1>3, <1>4 DEF IInv, Listed
<1>6. Pool'
  BY <1>1, <1>2, <1>3, <1>4 DEF IInv, Pool, Freeing
<1>7. Reserve(method)'
  BY <1>1, <1>4, ReserveKept
<1> QED
  BY <1>1, <1>5, <1>6, <1>7 DEF IInv, Freeing

(* processEnded: another process takes the place of the one that ended.    *)
LEMMA Ending ==
  ASSUME IInv, NEW w \in Worker, processEnded(w)
  PROVE  IInv'
<1>1. Freeing
  BY Frees DEF processEnded
<1>2. PICK new \in Worker \ ((processes \ {w}) \cup linked) :
        processes' = (processes \ {w}) \cup {new}
  BY DEF processEnded
<1>3. Cardinality(processes') = NumWorkers /\ processes' \subseteq Worker
  <2>1. IsFiniteSet(processes) /\ Cardinality(processes) = NumWorkers
        /\ w \in processes
    BY WorkerAssumption, FS_Subset DEF IInv, Pool, processEnded
  <2>2. /\ IsFiniteSet(processes \ {w})
        /\ Cardinality(processes \ {w}) = NumWorkers - 1
    BY <2>1, FS_RemoveElement
  <2>3. Cardinality(processes') = NumWorkers - 1 + 1
    BY <1>2, <2>2, FS_AddElement
  <2> QED
    BY <1>2, <2>3, NumbersAssumption DEF IInv, Pool
<1>4. crashes' \in 0..MaxCrashes
  BY NumbersAssumption DEF processEnded, IInv, Pool
<1>5. Pool'
  BY <1>1, <1>2, <1>3, <1>4 DEF IInv, Pool, Freeing, processEnded
<1>6. Listed'
  BY DEF IInv, Listed, processEnded
<1>7. Reserve(method)'
  BY <1>1, ReserveKept DEF processEnded
<1> QED
  BY <1>1, <1>5, <1>6, <1>7 DEF IInv, Freeing

(* There are enough workers for the hub to begin with.                     *)
LEMMA EnoughWorkers ==
  \E P \in SUBSET Worker : Cardinality(P) = NumWorkers
<1>1. PICK f : f \in Bijection(1..Cardinality(Worker), Worker)
  BY WorkerAssumption, FS_CardinalityType DEF ExistsBijection
<1>2. Cardinality(Worker) \in Nat /\ NumWorkers \in Nat
      /\ NumWorkers < Cardinality(Worker)
  BY WorkerAssumption, NumbersAssumption, FS_CardinalityType
<1> DEFINE S == 1..NumWorkers
           P == {f[i] : i \in S}
           g == [i \in S |-> f[i]]
<1>3. S \subseteq 1..Cardinality(Worker)
  BY <1>2
<1>4. IsFiniteSet(S) /\ Cardinality(S) = NumWorkers
  BY <1>2, FS_Interval
<1> HIDE DEF S
<1>5. /\ f \in [1..Cardinality(Worker) -> Worker]
      /\ \A i, j \in 1..Cardinality(Worker) : f[i] = f[j] => i = j
  BY <1>1 DEF Bijection, Injection, IsInjective
<1>6. g \in Surjection(S, P)
  BY DEF Surjection
<1>7. g \in Injection(S, P)
  BY <1>3, <1>5 DEF Injection, IsInjective
<1> HIDE DEF g, P
<1>8. Cardinality(P) = NumWorkers
  BY <1>4, <1>6, <1>7, FS_Surjection
<1>9. P \in SUBSET Worker
  BY <1>3, <1>5 DEF P
<1> QED
  BY <1>8, <1>9

(* The initial state satisfies the invariant.                              *)
LEMMA InitIInv == Init => IInv
<1> SUFFICES ASSUME Init PROVE IInv
  OBVIOUS
<1>1. processes \in SUBSET Worker /\ Cardinality(processes) = NumWorkers
  BY EnoughWorkers DEF Init
<1>2. busy = {} /\ Len(method) = 0 /\ Len(workers) = 0
  BY DEF Init, busy
<1>3. \A m \in Methods : workList[m] = <<>>
  BY DEF Init
<1>4. Pool
  <2>1. /\ linked = {} /\ stopping = {} /\ crashes = 0 /\ shrunk = FALSE
        /\ 0 \in 0..MaxCrashes
    BY NumbersAssumption DEF Init
  <2> QED
    BY <1>1, <1>2, <2>1 DEF Pool
<1>5. Listed
  BY <1>2 DEF Init, Listed
<1>6. \A j : ~Waits(workList, j)
  BY <1>3 DEF Waits, On
<1>7. Lists(workList, method)
  BY <1>3 DEF Init, Lists
<1>8. Shared(workList, method)
  BY <1>2, <1>6, <1>7 DEF Init, Shared
<1>9. Order(workList, method)
  BY <1>3 DEF Order, On
<1>10. Reserve(method)
  BY <1>2 DEF Reserve
<1> QED
  BY <1>4, <1>5, <1>8, <1>9, <1>10 DEF IInv

(* Every step keeps the invariant.                                         *)
LEMMA NextIInv == IInv /\ [Next]_vars => IInv'
<1> SUFFICES ASSUME IInv, [Next]_vars PROVE IInv'
  OBVIOUS
<1>1. ASSUME NEW m \in Methods, deferToWorker(m) PROVE IInv'
  <2> DEFINE work == [workList EXCEPT ![m] = Append(@, Len(method) + 1)]
               meth == Append(method, m)
  <2>2. Shared(work, meth) /\ Order(work, meth) /\ Reserve(meth)
    BY Arrives
  <2>3. GiveWork(work) /\ method' = meth /\ UNCHANGED <<answered, poolVars>>
    BY <1>1 DEF deferToWorker
  <2> HIDE DEF work, meth
  <2> QED
    BY <2>2, <2>3, GiveWorkKeeps DEF IInv
<1>2. CASE giveWorkToWorkers
  BY <1>2, GiveWorkKeeps DEF giveWorkToWorkers, IInv
<1>3. CASE UNCHANGED vars
  BY <1>3 DEF vars, poolVars, IInv, Listed, Pool, Shared, Order, Reserve,
              busy, Runs, reserved
<1> QED
  BY <1>1, <1>2, <1>3, Reporting, Returning, Losing, Ending DEF Next

(* The inductive invariant holds always.                                   *)
THEOREM Invariant == Spec => []IInv
  BY InitIInv, NextIInv, PTL DEF Spec

-----------------------------------------------------------------------------
(* There are always as many processes as the option says, each worker is   *)
(* listed once and only while the hub has a connection to it.              *)
THEOREM PoolIntact == Spec => []TypeOK
<1>1. ASSUME IInv PROVE TypeOK
  <2>1. Range(workers) \subseteq linked
        /\ \A i, j \in DOMAIN workers : workers[i] = workers[j] => i = j
    BY <1>1 DEF IInv, Listed, Range
  <2> QED
    BY <1>1, <2>1 DEF IInv, Pool, TypeOK
<1> QED
  BY <1>1, Invariant, PTL

(* The queued jobs are those that wait on a list.                          *)
LEMMA QueuedWaits ==
  ASSUME IInv
  PROVE  \A j : j \in Queued <=> Waits(workList, j)
<1>1. \A m \in Methods : DOMAIN workList[m] = 1..Len(workList[m])
  BY DEF IInv, Shared, Lists
<1> QED
  BY <1>1 DEF Queued, Range, Waits, On

(* No job is lost, kept after its answer or given to two workers, however  *)
(* workers come, serve their limit of calls, exit and crash.               *)
THEOREM JobsAreConserved == Spec => []JobsConserved
<1>1. ASSUME IInv PROVE JobsConserved
  <2>1. Jobs = 1..Len(method)
    BY <1>1 DEF IInv, Shared, Jobs
  <2>2. \A j : j \in Queued <=> Waits(workList, j)
    BY <1>1, QueuedWaits
  <2>3. \A j : j \in Range(running) <=> Runs(j)
    BY DEF Range, Runs, busy
  <2>4. \A j : Waits(workList, j) => j \in 1..Len(method)
    BY <1>1 DEF IInv, Shared, Lists, Waits, On
  <2>5. \A j : Runs(j) => j \in 1..Len(method) /\ j \notin answered
    BY <1>1 DEF IInv, Shared, Runs
  <2>6. Jobs = Queued \cup Range(running) \cup answered
    BY <1>1, <2>1, <2>2, <2>3, <2>4, <2>5 DEF IInv, Shared
  <2> QED
    BY <1>1, <2>2, <2>3, <2>5, <2>6 DEF IInv, Shared, JobsConserved
<1> QED
  BY <1>1, Invariant, PTL

(* Jobs of a method are started in the order they arrived in, whatever     *)
(* jobs of others are set aside and put back meanwhile.                    *)
THEOREM JobsStartInOrder == Spec => []StartedInOrder
<1>1. ASSUME IInv PROVE StartedInOrder
  <2>1. \A j : j \in Queued <=> Waits(workList, j)
    BY <1>1, QueuedWaits
  <2>2. \A m \in Methods : DOMAIN workList[m] = 1..Len(workList[m])
    BY <1>1 DEF IInv, Shared, Lists
  <2>3. \A m \in Methods : \A i, j \in DOMAIN workList[m] :
          i < j => workList[m][i] < workList[m][j]
    <3>1. \A m \in Methods : \A i, j \in 1..Len(workList[m]) :
            i < j => workList[m][i] < workList[m][j]
      BY <1>1 DEF IInv, Shared, Lists
    <3> QED
      BY <2>2, <3>1
  <2>4. ASSUME NEW m \in Methods, NEW n \in Range(workList[m]), NEW j \in Jobs,
               method[j] = m, j \notin Queued
        PROVE  j < n
    <3>1. On(workList[m], n)
      BY <2>2 DEF Range, On
    <3>2. j \in 1..Len(method) /\ ~Waits(workList, j)
      BY <1>1, <2>1, <2>4 DEF IInv, Shared, Jobs
    <3> QED
      BY <1>1, <2>4, <3>1, <3>2 DEF IInv, Order
  <2> QED
    BY <2>3, <2>4 DEF StartedInOrder
<1> QED
  BY <1>1, Invariant, PTL

(* Until a worker leaves the list, those reserved of it run nothing but    *)
(* events, whatever the option asks for.                                   *)
THEOREM ReservationHolds == Spec => []ReservedUntilShrunk
<1>1. ASSUME IInv, ~shrunk
      PROVE  Cardinality(OtherJobs) <= Max({0, Len(workers) - reserved})
  <2> DEFINE S == (reserved + 1)..Len(workers)
             T == {workers[i] : i \in S}
             f == [i \in S |-> workers[i]]
             d == Len(workers) - reserved
  <2>1. reserved \in Nat /\ Len(workers) \in Nat
    BY <1>1, NumbersAssumption DEF reserved, IInv, Listed
  <2>2. IsFiniteSet(S)
        /\ Cardinality(S) = IF reserved + 1 > Len(workers) THEN 0
                            ELSE Len(workers) - (reserved + 1) + 1
    <3>1. reserved + 1 \in Int /\ Len(workers) \in Int
      BY <2>1
    <3> QED
      BY <3>1, FS_Interval
  <2>3. f \in Surjection(S, T)
    BY DEF Surjection
  <2>4. OtherJobs \in SUBSET T
    <3>1. ASSUME NEW w \in OtherJobs PROVE w \in T
      <4>1. PICK i \in 1..Len(workers) : workers[i] = w /\ i > reserved
        BY <1>1, <3>1 DEF OtherJobs, IInv, Reserve
      <4>2. i \in S
        BY <2>1, <4>1
      <4> QED
        BY <4>1, <4>2
    <3> QED
      BY <3>1
  <2> HIDE DEF S, T, f
  <2>5. IsFiniteSet(T) /\ Cardinality(T) <= Cardinality(S)
    BY <2>2, <2>3, FS_Surjection
  <2>6. Cardinality(OtherJobs) <= Cardinality(T) /\ IsFiniteSet(OtherJobs)
    BY <2>4, <2>5, FS_Subset
  <2>7. Cardinality(OtherJobs) \in Nat /\ Cardinality(T) \in Nat
    BY <2>5, <2>6, FS_CardinalityType
  <2>8. Max({0, d}) = IF d > 0 THEN d ELSE 0
    <3>1. \E x \in {0, d} : \A y \in {0, d} : x >= y
      BY <2>1
    <3>2. Max({0, d}) \in {0, d} /\ \A y \in {0, d} : Max({0, d}) >= y
      BY <3>1 DEF Max
    <3> QED
      BY <2>1, <3>2
  <2> QED
    BY <2>1, <2>2, <2>5, <2>6, <2>7, <2>8
<1>2. IInv => ReservedUntilShrunk
  BY <1>1 DEF ReservedUntilShrunk
<1> QED
  BY <1>2, Invariant, PTL

-----------------------------------------------------------------------------
(* The refinement of CallService.                                          *)

(* Its calls that wait are on a list, those that run have a worker.        *)
InCourse ==
  /\ \A j : j \in Queued <=> Waits(workList, j)
  /\ \A j : j \in Range(running) <=> Runs(j)

LEMMA InCourseKnown == IInv => InCourse
<1> SUFFICES ASSUME IInv PROVE InCourse
  OBVIOUS
<1>1. \A j : j \in Queued <=> Waits(workList, j)
  BY QueuedWaits
<1>2. \A j : j \in Range(running) <=> Runs(j)
  BY DEF Range, Runs, busy
<1> QED
  BY <1>1, <1>2 DEF InCourse

(* Giving work begins some of the calls, of each method the oldest.        *)
LEMMA GivenBegins ==
  ASSUME InCourse, InCourse', NEW work, NEW meth,
         Lists(work, meth), Given(work, meth),
         NEW calls, \A j : j \in calls <=> Waits(work, j),
         UNCHANGED answered
  PROVE  Calls!Begin(calls, meth)
<1> DEFINE begun == {j \in calls : ~Waits(workList', j)}
<1>1. \A j : Waits(workList', j) => Waits(work, j)
  BY DEF Given, Waits
<1>2. Queued' = calls \ begun
  BY <1>1 DEF InCourse, Waits
<1>3. Range(running)' = Range(running) \cup begun
  <2>1. ASSUME NEW j, j \in Range(running)' PROVE j \in Range(running) \cup begun
    <3>1. PICK w \in busy' : running'[w] = j
      BY <2>1 DEF InCourse, Runs
    <3>2. CASE w \in busy
      BY <3>1, <3>2 DEF Given, InCourse, Runs
    <3>3. CASE w \notin busy
      BY <3>1, <3>3 DEF Given
    <3> QED
      BY <3>2, <3>3
  <2>2. ASSUME NEW j, j \in Range(running) PROVE j \in Range(running)'
    BY <2>2 DEF Given, InCourse, Runs
  <2>3. ASSUME NEW j \in begun PROVE j \in Range(running)'
    BY <2>3 DEF Given, InCourse, Runs
  <2> QED
    BY <2>1, <2>2, <2>3
<1>4. ASSUME NEW a \in begun, NEW b \in calls \ begun, meth[a] = meth[b]
      PROVE  a < b
  <2>1. Waits(work, a) /\ ~Waits(workList', a) /\ Waits(workList', b)
    BY <1>4
  <2>2. PICK m \in Methods : On(work[m], a)
    BY <2>1 DEF Waits
  <2>3. PICK p \in Methods : On(workList'[p], b)
    BY <2>1 DEF Waits
  <2>4. meth[a] = m
    BY <2>2 DEF On, Lists
  <2>5. meth[b] = p
    BY <2>3 DEF On, Given, Lists
  <2>6. ~On(workList'[m], a) /\ On(workList'[m], b)
    BY <1>4, <2>1, <2>3, <2>4, <2>5 DEF Waits
  <2> QED
    BY <2>2, <2>6 DEF Given
<1>5. begun \in SUBSET calls
  OBVIOUS
<1> HIDE DEF begun
<1> QED
  BY <1>2, <1>3, <1>4, <1>5 DEF Calls!Begin

LEMMA Calling ==
  ASSUME IInv, InCourse, InCourse', NEW m \in Methods, deferToWorker(m)
  PROVE  Calls!Call(m)
<1> DEFINE work == [workList EXCEPT ![m] = Append(@, Len(method) + 1)]
           meth == Append(method, m)
           calls == Queued \cup {Len(method) + 1}
<1>1. /\ Shared(work, meth)
      /\ \A j : Waits(work, j) <=> Waits(workList, j) \/ j = Len(method) + 1
  BY Arrives
<1>2. GiveWork(work) /\ method' = meth /\ UNCHANGED answered
  BY DEF deferToWorker
<1>3. \A j : j \in calls <=> Waits(work, j)
  BY <1>1 DEF InCourse
<1>4. Lists(work, meth)
  BY <1>1 DEF Shared
<1> HIDE DEF work, meth, calls
<1>5. Given(work, meth)
  BY <1>2, <1>4, GiveWorkGives
<1>6. Calls!Begin(calls, meth)
  BY <1>2, <1>3, <1>4, <1>5, GivenBegins
<1> QED
  BY <1>2, <1>6 DEF Calls!Call, calls, meth

LEMMA Starting ==
  ASSUME IInv, InCourse, InCourse', giveWorkToWorkers
  PROVE  Calls!Start
<1>1. GiveWork(workList) /\ UNCHANGED <<method, answered>>
  BY DEF giveWorkToWorkers
<1>2. Lists(workList, method)
  BY DEF IInv, Shared
<1>3. Given(workList, method)
  BY <1>1, <1>2, GiveWorkGives
<1>4. \A j : j \in Queued <=> Waits(workList, j)
  BY DEF InCourse
<1>5. Calls!Begin(Queued, method)
  BY <1>1, <1>2, <1>3, <1>4, GivenBegins
<1> QED
  BY <1>1, <1>5 DEF Calls!Start

(* However a call ends, it is answered; no other one had its worker.       *)
LEMMA Answering ==
  ASSUME IInv, InCourse, InCourse', UNCHANGED <<method, workList>>,
         NEW w, Finished(w)
  PROVE  \E c \in Range(running) : Calls!Answer(c)
<1>1. /\ w \in busy /\ busy' = busy \ {w}
      /\ \A v \in busy' : running'[v] = running[v]
      /\ answered' = answered \cup {running[w]}
  BY DEF Finished, Restrict, busy
<1>2. Queued' = Queued
  BY DEF Queued
<1>3. running[w] \in Range(running)
  BY <1>1 DEF InCourse, Runs
<1>4. Range(running)' = Range(running) \ {running[w]}
  <2>1. \A u, v \in busy : running[u] = running[v] => u = v
    BY DEF IInv, Shared
  <2>2. \A j : Runs(j)' <=> Runs(j) /\ j # running[w]
    BY <1>1, <2>1 DEF Runs
  <2> QED
    BY <2>2 DEF InCourse
<1>5. PICK c : c = running[w]
  OBVIOUS
<1>6. Calls!Answer(c)
  BY <1>1, <1>2, <1>3, <1>4, <1>5 DEF Calls!Answer
<1> QED
  BY <1>3, <1>5, <1>6

LEMMA StepImplementsCallService ==
  IInv /\ InCourse /\ InCourse' /\ [Next]_vars => [Calls!Next]_(Calls!callVars)
<1> SUFFICES ASSUME IInv, InCourse, InCourse', [Next]_vars
             PROVE  Calls!Next \/ UNCHANGED Calls!callVars
  OBVIOUS
<1>1. ASSUME NEW m \in Methods, deferToWorker(m) PROVE Calls!Next
  <2>1. Calls!Call(m)
    BY <1>1, Calling
  <2> QED
    BY <2>1 DEF Calls!Next
<1>2. CASE giveWorkToWorkers
  <2>1. Calls!Start
    BY <1>2, Starting
  <2> QED
    BY <2>1 DEF Calls!Next
<1>3. ASSUME UNCHANGED <<method, workList, running, answered>>
      PROVE  UNCHANGED Calls!callVars
  BY <1>3 DEF Calls!callVars, Queued, Range
<1>4. ASSUME NEW w \in Worker, Finished(w), UNCHANGED <<method, workList>>
      PROVE  Calls!Next
  <2>1. \E c \in Range(running) : Calls!Answer(c)
    BY <1>4, Answering
  <2> QED
    BY <2>1 DEF Calls!Next
<1>5. ASSUME NEW w \in Worker,
             \/ perspective_reportingForWork(w) \/ executed(w)
             \/ executeFailed(w) \/ connectionLost(w) \/ processEnded(w)
      PROVE  Calls!Next \/ UNCHANGED Calls!callVars
  <2>1. /\ UNCHANGED <<method, workList>>
        /\ Finished(w) \/ UNCHANGED <<running, answered>>
    BY <1>5 DEF perspective_reportingForWork, executed, executeFailed,
                connectionLost, processEnded
  <2> QED
    BY <1>3, <1>4, <2>1
<1>6. CASE UNCHANGED vars
  BY <1>3, <1>6 DEF vars
<1> QED
  BY <1>1, <1>2, <1>5, <1>6 DEF Next

(* For any workers, options, failures and crashes, the hub is the service  *)
(* of CallService: each call is begun once, in the order of its method,    *)
(* and never again, and is answered once, after it was begun.              *)
THEOREM CallServiceRefinement == Spec => ImplementsCallService
<1>1. Init => Calls!Init
  <2> SUFFICES ASSUME Init PROVE Calls!Init
    OBVIOUS
  <2>1. InCourse /\ busy = {}
    BY InitIInv, InCourseKnown DEF Init, busy
  <2>2. \A j : ~Waits(workList, j)
    BY DEF Init, Waits, On
  <2>3. Queued = {} /\ Range(running) = {}
    BY <2>1, <2>2 DEF InCourse, Runs
  <2> QED
    BY <2>3 DEF Init, Calls!Init
<1>2. Spec => [](IInv /\ InCourse)
  BY Invariant, InCourseKnown, PTL
<1>3. IInv /\ InCourse /\ InCourse' /\ [Next]_vars
        => [Calls!Next]_(Calls!callVars)
  BY StepImplementsCallService
<1>4. [](IInv /\ InCourse) /\ [][Next]_vars => [][Calls!Next]_(Calls!callVars)
  BY <1>3, PTL
<1> QED
  BY <1>1, <1>2, <1>4, PTL DEF Spec, ImplementsCallService, Calls!Spec
=============================================================================
