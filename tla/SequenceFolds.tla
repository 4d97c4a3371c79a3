---------------------------- MODULE SequenceFolds ----------------------------
(***************************************************************************)
(* What a fold over a sequence computes, for sequences of any length.      *)
(*                                                                         *)
(* FoldLeft is defined by a recursive function on the sets of places of    *)
(* the sequence.  That there is such a function is shown here once, by     *)
(* induction on the number of places; a lemma about one fold then only has *)
(* to give the fold's step as a function.  Induction is over the elements  *)
(* of a set of numbers (Induction), and rests on a set of numbers having a *)
(* least element.                                                          *)
(***************************************************************************)
EXTENDS SequencesExt, FiniteSetTheorems, SequenceTheorems,
        WellFoundedInduction, TLAPS

(* A set of numbers has a least element.                                   *)
LEMMA LeastNumber ==
  ASSUME NEW T \in SUBSET Nat, T # {}
  PROVE  \E n \in T : \A m \in T : n <= m
<1> DEFINE R == {p \in Nat \X Nat : p[1] < p[2]}
<1>0. IsWellFoundedOn(R, Nat)
  BY NatLessThanWellFounded DEF OpToRel
<1> HIDE DEF R
<1>1. PICK n \in T : \A m \in T : ~(<<m, n>> \in R)
  BY <1>0, WFMin
<1>2. ASSUME NEW m \in T PROVE n <= m
  <2>1. ~(<<m, n>> \in R) /\ <<m, n>> \in Nat \X Nat
    BY <1>1
  <2>2. ~(m < n)
    BY <2>1 DEF R
  <2> QED
    BY <2>2
<1> QED
  BY <1>2

(* A set with 0, and with each number up to n whose predecessor is in it,  *)
(* has all the numbers up to n.                                            *)
LEMMA Induction ==
  ASSUME NEW n \in Nat, NEW S, 0 \in S, \A k \in 1..n : k - 1 \in S => k \in S
  PROVE  \A k \in 0..n : k \in S
<1> DEFINE T == {k \in 0..n : k \notin S}
<1>1. SUFFICES ASSUME T # {} PROVE FALSE
  OBVIOUS
<1>2. PICK k \in T : \A m \in T : k <= m
  <2>1. T \in SUBSET Nat
    OBVIOUS
  <2> HIDE DEF T
  <2> QED
    BY <1>1, <2>1, LeastNumber
<1>3. k \in 1..n /\ k - 1 \in 0..n /\ k \notin S
  BY <1>2
<1>4. k - 1 \notin T
  BY <1>2, <1>3
<1> QED
  BY <1>3, <1>4

(* A set of numbers with an upper bound has a greatest, which Max names.   *)
LEMMA Greatest ==
  ASSUME NEW n \in Nat, NEW t \in SUBSET (0..n), t # {}
  PROVE  Max(t) \in t /\ \A m \in t : m <= Max(t)
<1> DEFINE T == {n - m : m \in t}
<1>1. T \in SUBSET Nat /\ T # {}
  <2>1. \A m \in t : n - m \in Nat
    OBVIOUS
  <2>2. PICK m \in t : TRUE
    OBVIOUS
  <2>3. n - m \in T
    OBVIOUS
  <2> QED
    BY <2>1, <2>3
<1> HIDE DEF T
<1>2. PICK l \in T : \A m \in T : l <= m
  BY <1>1, LeastNumber
<1>3. PICK g \in t : l = n - g
  BY <1>2 DEF T
<1>4. ASSUME NEW m \in t PROVE g >= m
  <2>1. n - m \in T
    BY DEF T
  <2>2. l <= n - m
    BY <1>2, <2>1
  <2>3. m \in 0..n /\ g \in 0..n
    BY <1>3
  <2> QED
    BY <1>3, <2>2, <2>3
<1>5. Max(t) \in t /\ \A m \in t : Max(t) >= m
  BY <1>4 DEF Max
<1> HIDE DEF Max
<1>6. ASSUME NEW m \in t PROVE m <= Max(t)
  <2>1. Max(t) >= m /\ Max(t) \in 0..n /\ m \in 0..n
    BY <1>5
  <2> QED
    BY <2>1
<1> QED
  BY <1>5, <1>6

(* The first k numbers, without the last of them.                          *)
LEMMA FirstPlaces ==
  ASSUME NEW n \in Nat, NEW k \in 1..n
  PROVE  /\ 1..k \in SUBSET (1..n) /\ 1..k # {} /\ Max(1..k) = k
         /\ (1..k) \ {k} = 1..(k - 1)
<1>1. k \in Nat /\ k <= n /\ k \in 1..k /\ 1..k \in SUBSET (0..n)
  OBVIOUS
<1>2. Max(1..k) \in 1..k /\ k <= Max(1..k)
  BY <1>1, Greatest
<1> HIDE DEF Max
<1> QED
  BY <1>1, <1>2

-----------------------------------------------------------------------------
(* A function on the sets of the first n places that folds the step F over *)
(* them from left to right.                                                *)
Folds(F, b, n, g) ==
  \A t \in SUBSET (1..n) :
    g[t] = IF t = {} THEN b ELSE F[<<Max(t), g[t \ {Max(t)}]>>]

(* For every step there is one.                                            *)
LEMMA FoldExists ==
  ASSUME NEW V, NEW b \in V, NEW n \in Nat, NEW F \in [(1..n) \X V -> V]
  PROVE  \E g \in [SUBSET (1..n) -> V] : Folds(F, b, n, g)
<1> DEFINE S == {k \in 0..n : \E g \in [SUBSET (1..k) -> V] : Folds(F, b, k, g)}
<1> HIDE DEF Max
<1>1. 0 \in S
  <2> DEFINE g == [t \in SUBSET (1..0) |-> b]
  <2>1. g \in [SUBSET (1..0) -> V]
    OBVIOUS
  <2>2. Folds(F, b, 0, g)
    <3>1. \A t \in SUBSET (1..0) : t = {}
      OBVIOUS
    <3> QED
      BY <3>1 DEF Folds
  <2> HIDE DEF g
  <2>3. 0 \in 0..n
    OBVIOUS
  <2> QED
    BY <2>1, <2>2, <2>3, Zenon
<1>2. ASSUME NEW k \in 1..n, k - 1 \in S PROVE k \in S
  <2>0. k \in Nat /\ k - 1 \in Nat /\ 1..(k-1) \in SUBSET (1..k)
    OBVIOUS
  <2>1. PICK g \in [SUBSET (1..(k - 1)) -> V] : Folds(F, b, k - 1, g)
    BY <1>2
  <2> DEFINE h == [t \in SUBSET (1..k) |->
                     IF k \notin t THEN g[t] ELSE F[<<k, g[t \ {k}]>>]]
  <2>2. ASSUME NEW t \in SUBSET (1..k)
        PROVE  t \ {k} \in SUBSET (1..(k - 1)) /\ (k \notin t => t \ {k} = t)
    BY <2>0
  <2>3. ASSUME NEW t \in SUBSET (1..k)
        PROVE  h[t] \in V
               /\ h[t] = IF t = {} THEN b ELSE F[<<Max(t), h[t \ {Max(t)}]>>]
    <3>1. t \ {k} \in SUBSET (1..(k - 1)) /\ g[t \ {k}] \in V
          /\ (k \notin t => t \ {k} = t)
      BY <2>2
    <3>2. <<k, g[t \ {k}]>> \in (1..n) \X V
      BY <3>1
    <3>3. F[<<k, g[t \ {k}]>>] \in V
      BY <3>2
    <3>4. h[t] \in V
      BY <3>1, <3>3
    <3>5. CASE k \in t
      <4>1. t \in SUBSET (0..k) /\ t # {}
        BY <2>0, <3>5
      <4>2. Max(t) \in t /\ k <= Max(t)
        BY <2>0, <3>5, <4>1, Greatest
      <4>3. Max(t) = k
        <5>1. Max(t) \in 1..k
          BY <4>2
        <5> QED
          BY <2>0, <4>2, <5>1
      <4>4. h[t] = F[<<k, g[t \ {k}]>>]
        BY <3>5
      <4>5. h[t \ {k}] = g[t \ {k}]
        OBVIOUS
      <4> QED
        BY <3>4, <4>1, <4>3, <4>4, <4>5
    <3>6. CASE k \notin t
      <4>1. t \in SUBSET (1..(k - 1)) /\ h[t] = g[t]
        BY <3>1, <3>6
      <4>2. g[t] = IF t = {} THEN b ELSE F[<<Max(t), g[t \ {Max(t)}]>>]
        BY <2>1, <4>1 DEF Folds
      <4>3. h[t \ {Max(t)}] = g[t \ {Max(t)}]
        BY <3>6
      <4> QED
        BY <3>4, <4>1, <4>2, <4>3
    <3> QED
      BY <3>5, <3>6
  <2> HIDE DEF h
  <2>4. h \in [SUBSET (1..k) -> V]
    BY <2>3 DEF h
  <2>5. Folds(F, b, k, h)
    BY <2>3 DEF Folds
  <2> QED
    BY <2>4, <2>5
<1> HIDE DEF S
<1>3. n \in S
  BY <1>1, <1>2, Induction
<1> QED
  BY <1>3 DEF S

(* The values of a fold after each place, given the function on the sets   *)
(* of places.                                                              *)
LEMMA FoldSteps ==
  ASSUME NEW V, NEW b \in V, NEW n \in Nat, NEW F \in [(1..n) \X V -> V],
         NEW g, Folds(F, b, n, g)
  PROVE  /\ g[{}] = b
         /\ \A k \in 1..n : g[1..k] = F[<<k, g[1..(k - 1)]>>]
         /\ \A k \in 0..n : g[1..k] \in V
<1> HIDE DEF Max
<1>1. g[{}] = b /\ 1..0 = {}
  <2>1. {} \in SUBSET (1..n)
    OBVIOUS
  <2>2. g[{}] = b
    BY <2>1, Zenon DEF Folds
  <2>3. 1..0 = {}
    OBVIOUS
  <2> QED
    BY <2>2, <2>3
<1>2. ASSUME NEW k \in 1..n
      PROVE  g[1..k] = F[<<k, g[1..(k - 1)]>>]
  BY FirstPlaces DEF Folds
<1> DEFINE S == {k \in 0..n : g[1..k] \in V}
<1>3. 0 \in S
  BY <1>1
<1>4. ASSUME NEW k \in 1..n, k - 1 \in S PROVE k \in S
  <2>1. <<k, g[1..(k - 1)]>> \in (1..n) \X V /\ k \in 0..n
    BY <1>4
  <2> QED
    BY <1>2, <2>1
<1> HIDE DEF S
<1>5. \A k \in 0..n : k \in S
  BY <1>3, <1>4, Induction
<1> QED
  BY <1>1, <1>2, <1>5 DEF S

-----------------------------------------------------------------------------
(* The fold of a step that is given as a function.                         *)
Folded(G, b, s) == FoldLeft(LAMBDA x, e : G[<<x, e>>], b, s)

(* The function that folds a step over the places of a list.               *)
Table(G, b, s, g) ==
  \A t \in SUBSET DOMAIN s :
    g[t] = IF t = {} THEN b ELSE G[<<g[t \ {Max(t)}], s[Max(t)]>>]

(* Its values after each place, the last of which is that of the fold.     *)
Run(V, G, b, s, g) ==
  /\ g[{}] = b
  /\ \A k \in 1..Len(s) : g[1..k] = G[<<g[1..(k - 1)], s[k]>>]
  /\ \A k \in 0..Len(s) : g[1..k] \in V
  /\ Folded(G, b, s) = g[DOMAIN s]

(* There is one.                                                           *)
LEMMA FoldedTable ==
  ASSUME NEW V, NEW E, NEW b \in V, NEW G \in [V \X E -> V], NEW s \in Seq(E)
  PROVE  \E g \in [SUBSET DOMAIN s -> V] :
           Table(G, b, s, g) /\ Run(V, G, b, s, g)
<1> DEFINE n == Len(s)
           F == [p \in (1..n) \X V |-> G[<<p[2], s[p[1]]>>]]
           Is(f) == f = [t \in SUBSET DOMAIN s |->
                           IF t = {} THEN b
                           ELSE G[<<f[t \ {Max(t)}], s[Max(t)]>>]]
           it == CHOOSE f : Is(f)
<1> HIDE DEF Max
<1>1. n \in Nat /\ DOMAIN s = 1..n /\ \A k \in 1..n : s[k] \in E
  OBVIOUS
<1>2. F \in [(1..n) \X V -> V]
  BY <1>1
<1>3. \A k \in 1..n : \A v \in V : F[<<k, v>>] = G[<<v, s[k]>>]
  OBVIOUS
<1> HIDE DEF F, n
<1>4. PICK g \in [SUBSET (1..n) -> V] : Folds(F, b, n, g)
  BY <1>1, <1>2, FoldExists
<1>5. ASSUME NEW t \in SUBSET (1..n), t # {}
      PROVE  Max(t) \in 1..n
  <2>1. t \in SUBSET (0..n)
    OBVIOUS
  <2> QED
    BY <1>1, <1>5, <2>1, Greatest
<1>6. Table(G, b, s, g)
  BY <1>1, <1>3, <1>4, <1>5 DEF Table, Folds
<1>7. Is(g)
  BY <1>1, <1>6, Zenon DEF Table
<1> HIDE DEF Is
<1>8. Is(it)
  BY <1>7
<1>9. Table(G, b, s, it)
  <2>1. it = [t \in SUBSET DOMAIN s |->
                IF t = {} THEN b
                ELSE G[<<it[t \ {Max(t)}], s[Max(t)]>>]]
    BY <1>8 DEF Is
  <2> HIDE DEF it
  <2> QED
    BY <2>1, Zenon DEF Table
<1>10. Folded(G, b, s) = it[DOMAIN s]
  BY DEF Folded, FoldLeft, MapThenFoldSet, Is
<1> HIDE DEF it
<1>11. /\ g[{}] = b
       /\ \A k \in 1..n : g[1..k] = F[<<k, g[1..(k - 1)]>>]
       /\ \A k \in 0..n : g[1..k] \in V
  BY <1>1, <1>2, <1>4, FoldSteps
<1>12. \A k \in 1..n : g[1..k] = G[<<g[1..(k - 1)], s[k]>>]
  <2>1. \A k \in 1..n : k - 1 \in 0..n
    BY <1>1
  <2> QED
    BY <1>3, <1>11, <2>1
<1>13. \A k \in 0..n : it[1..k] = g[1..k]
  <2> DEFINE S == {k \in 0..n : it[1..k] = g[1..k]}
  <2>1. 0 \in S
    <3>1. {} \in SUBSET DOMAIN s /\ 1..0 = {} /\ 0 \in 0..n
      BY <1>1
    <3>2. it[{}] = b
      BY <1>9, <3>1, Zenon DEF Table
    <3> QED
      BY <1>11, <3>1, <3>2
  <2>2. ASSUME NEW k \in 1..n, k - 1 \in S PROVE k \in S
    <3>1. /\ 1..k \in SUBSET DOMAIN s /\ 1..k # {} /\ Max(1..k) = k
          /\ (1..k) \ {k} = 1..(k - 1)
      BY <1>1, FirstPlaces
    <3>2. it[1..k] = G[<<it[1..(k - 1)], s[k]>>]
      BY <1>9, <3>1, Zenon DEF Table
    <3> QED
      BY <1>1, <1>12, <2>2, <3>2
  <2> HIDE DEF S
  <2>3. \A k \in 0..n : k \in S
    BY <1>1, <2>1, <2>2, Induction
  <2> QED
    BY <2>3 DEF S
<1>14. Folded(G, b, s) = g[DOMAIN s]
  BY <1>1, <1>10, <1>13
<1> QED
  <2>1. Run(V, G, b, s, g)
    BY <1>11, <1>12, <1>14 DEF Run, n
  <2> QED
    BY <1>1, <1>6, <2>1

(* A function takes each step with another.                                *)
Follows(f, g, n) ==
  \A k \in 1..n : f[1..(k - 1)] = g[1..(k - 1)] => f[1..k] = g[1..k]

(* If the other is the fold's it ends with its value.                      *)
LEMMA SameRun ==
  ASSUME NEW V, NEW E, NEW b, NEW G, NEW s \in Seq(E), NEW g,
         Run(V, G, b, s, g), NEW f, f[{}] = b, Follows(f, g, Len(s))
  PROVE  f[DOMAIN s] = Folded(G, b, s)
<1> DEFINE n == Len(s)
           S == {k \in 0..n : f[1..k] = g[1..k]}
<1>1. n \in Nat /\ DOMAIN s = 1..n
  OBVIOUS
<1> HIDE DEF n
<1>2. 0 \in S
  <2>1. 1..0 = {} /\ 0 \in 0..n
    BY <1>1
  <2> QED
    BY <2>1 DEF Run
<1>3. ASSUME NEW k \in 1..n, k - 1 \in S PROVE k \in S
  BY <1>1, <1>3 DEF n, Follows
<1> HIDE DEF S
<1>4. n \in 0..n
  BY <1>1
<1>5. n \in S
  BY <1>1, <1>2, <1>3, <1>4, Induction
<1> QED
  BY <1>1, <1>5 DEF S, Run

(* A fold over the empty list is what it starts from.                      *)
LEMMA FoldedValue ==
  ASSUME NEW V, NEW E, NEW b \in V, NEW G \in [V \X E -> V], NEW s \in Seq(E)
  PROVE  Folded(G, b, <<>>) = b /\ Folded(G, b, s) \in V
<1>1. <<>> \in Seq(E) /\ DOMAIN <<>> = {}
  OBVIOUS
<1>2. PICK f : Run(V, G, b, <<>>, f)
  BY <1>1, FoldedTable
<1>3. PICK g : Run(V, G, b, s, g)
  BY FoldedTable
<1>4. DOMAIN s = 1..Len(s) /\ Len(s) \in 0..Len(s)
  OBVIOUS
<1> QED
  BY <1>1, <1>2, <1>3, <1>4 DEF Run

(* An element at the end of a list is folded last.                         *)
FoldsLast(G, b, s, e) ==
  Folded(G, b, Append(s, e)) = G[<<Folded(G, b, s), e>>]

(* It always is.                                                           *)
LEMMA FoldedNext ==
  ASSUME NEW V, NEW E, NEW b \in V, NEW G \in [V \X E -> V], NEW s \in Seq(E),
         NEW e \in E
  PROVE  FoldsLast(G, b, s, e)
<1> DEFINE n == Len(s)
           t == Append(s, e)
<1>1. /\ n \in Nat /\ DOMAIN s = 1..n
      /\ t \in Seq(E) /\ DOMAIN t = 1..(n + 1) /\ Len(t) = n + 1
      /\ t[n + 1] = e /\ \A k \in 1..n : t[k] = s[k]
  BY AppendProperties
<1> HIDE DEF t
<1>2. PICK g : Run(V, G, b, s, g)
  BY FoldedTable
<1>3. PICK h : Run(V, G, b, t, h)
  BY <1>1, FoldedTable
<1>4. h[{}] = b
  BY <1>3 DEF Run
<1>5. ASSUME NEW k \in 1..Len(s), h[1..(k - 1)] = g[1..(k - 1)]
      PROVE  h[1..k] = g[1..k]
  <2>1. k \in 1..(n + 1) /\ t[k] = s[k] /\ k \in 1..n
    BY <1>1
  <2>2. h[1..k] = G[<<h[1..(k - 1)], t[k]>>]
    BY <1>1, <1>3, <2>1 DEF Run
  <2>3. g[1..k] = G[<<g[1..(k - 1)], s[k]>>]
    BY <1>2 DEF Run
  <2> QED
    BY <1>5, <2>1, <2>2, <2>3
<1>6. h[DOMAIN s] = Folded(G, b, s)
  <2>1. Follows(h, g, Len(s))
    BY <1>5 DEF Follows
  <2> QED
    BY <1>2, <1>4, <2>1, SameRun
<1>7. n + 1 \in 1..(n + 1) /\ (n + 1) - 1 = n
  BY <1>1
<1>8. h[1..(n + 1)] = G[<<h[1..n], e>>]
  BY <1>1, <1>3, <1>7 DEF Run
<1> QED
  BY <1>1, <1>3, <1>6, <1>8 DEF Run, t, FoldsLast

(* A set with the empty list, and with each list that is one of its lists  *)
(* and one element more, has all lists.                                    *)
LEMMA ListInduction ==
  ASSUME NEW E, NEW S, <<>> \in S,
         \A t \in Seq(E) : \A e \in E : t \in S => Append(t, e) \in S,
         NEW s \in Seq(E)
  PROVE  s \in S
<1> DEFINE n == Len(s)
           T == {k \in 0..n : SubSeq(s, 1, k) \in S}
<1>1. n \in Nat /\ \A k \in 1..n : s[k] \in E
  OBVIOUS
<1>2. 0 \in T
  <2>1. SubSeq(s, 1, 0) = <<>> /\ 0 \in 0..n
    BY <1>1
  <2> HIDE DEF n
  <2> QED
    BY <2>1
<1>3. ASSUME NEW k \in 1..n, k - 1 \in T PROVE k \in T
  <2> DEFINE t == SubSeq(s, 1, k - 1)
  <2>1. k \in 0..n /\ k - 1 \in 0..n /\ k \in Nat
    BY <1>1
  <2>2. t \in Seq(E) /\ Len(t) = k - 1 /\ \A i \in 1..(k - 1) : t[i] = s[i]
    BY <2>1
  <2>3. SubSeq(s, 1, k) \in Seq(E) /\ Len(SubSeq(s, 1, k)) = k
        /\ \A i \in 1..k : SubSeq(s, 1, k)[i] = s[i]
    BY <2>1
  <2> HIDE DEF t
  <2>4. /\ Append(t, s[k]) \in Seq(E) /\ Len(Append(t, s[k])) = k
        /\ \A i \in 1..k : Append(t, s[k])[i] = s[i]
    BY <1>1, <2>1, <2>2, AppendProperties
  <2>5. SubSeq(s, 1, k) = Append(t, s[k])
    BY <2>3, <2>4, SeqEqual
  <2>6. Append(t, s[k]) \in S
    BY <1>1, <1>3, <2>2 DEF t
  <2> QED
    BY <2>1, <2>5, <2>6
<1> HIDE DEF T, n
<1>4. n \in 0..n
  BY <1>1
<1>5. n \in T
  BY <1>1, <1>2, <1>3, <1>4, Induction
<1>6. SubSeq(s, 1, Len(s)) = s
  OBVIOUS
<1> QED
  BY <1>5, <1>6 DEF T, n

-----------------------------------------------------------------------------
(* Two lists put together.                                                 *)
LEMMA Joined ==
  ASSUME NEW E, NEW a \in Seq(E), NEW b \in Seq(E)
  PROVE  /\ a \o b \in Seq(E) /\ Len(a \o b) = Len(a) + Len(b)
         /\ Len(a) \in Nat /\ Len(b) \in Nat
         /\ \A i \in 1..Len(a) : (a \o b)[i] = a[i] /\ i \in 1..Len(a \o b)
         /\ \A i \in 1..Len(b) : (a \o b)[Len(a) + i] = b[i]
                                 /\ Len(a) + i \in 1..Len(a \o b)
         /\ \A i \in 1..Len(a \o b) :
              \/ i \in 1..Len(a) /\ (a \o b)[i] = a[i]
              \/ i > Len(a) /\ i - Len(a) \in 1..Len(b)
                 /\ (a \o b)[i] = b[i - Len(a)]
<1>1. /\ a \o b \in Seq(E) /\ Len(a \o b) = Len(a) + Len(b)
      /\ Len(a) \in Nat /\ Len(b) \in Nat
      /\ \A i \in 1..Len(a) + Len(b) :
           (a \o b)[i] = IF i <= Len(a) THEN a[i] ELSE b[i - Len(a)]
  BY ConcatProperties
<1>2. ASSUME NEW i \in 1..Len(b)
      PROVE  (a \o b)[Len(a) + i] = b[i] /\ Len(a) + i \in 1..Len(a \o b)
  <2>1. /\ Len(a) + i \in 1..Len(a) + Len(b) /\ ~(Len(a) + i <= Len(a))
        /\ (Len(a) + i) - Len(a) = i
    BY <1>1
  <2> QED
    BY <1>1, <2>1
<1>3. ASSUME NEW i \in 1..Len(a \o b)
      PROVE  \/ i \in 1..Len(a) /\ (a \o b)[i] = a[i]
             \/ i > Len(a) /\ i - Len(a) \in 1..Len(b)
                /\ (a \o b)[i] = b[i - Len(a)]
  BY <1>1
<1> QED
  BY <1>1, <1>2, <1>3

(* The order in which lists are put together does not matter.              *)
LEMMA Associative ==
  ASSUME NEW E, NEW a \in Seq(E), NEW b \in Seq(E), NEW c \in Seq(E)
  PROVE  (a \o b) \o c = a \o (b \o c)
BY ConcatAssociative

(* The empty list.                                                         *)
LEMMA Nothing ==
  ASSUME NEW E, NEW a \in Seq(E)
  PROVE  <<>> \in Seq(E) /\ Len(<<>>) = 0 /\ <<>> \o a = a /\ a \o <<>> = a
BY ConcatEmptySeq, EmptySeq

(* A list cut in two.                                                      *)
LEMMA Cut ==
  ASSUME NEW E, NEW s \in Seq(E), NEW n \in 0..Len(s)
  PROVE  /\ SubSeq(s, 1, n) \in Seq(E) /\ Len(SubSeq(s, 1, n)) = n
         /\ SubSeq(s, n + 1, Len(s)) \in Seq(E)
         /\ Len(SubSeq(s, n + 1, Len(s))) = Len(s) - n
         /\ SubSeq(s, 1, n) \o SubSeq(s, n + 1, Len(s)) = s
<1> DEFINE a == SubSeq(s, 1, n)
           b == SubSeq(s, n + 1, Len(s))
<1>1. Len(s) \in Nat /\ n \in Nat /\ n <= Len(s)
  OBVIOUS
<1>2. a \in Seq(E) /\ Len(a) = n /\ \A i \in 1..Len(a) : a[i] = s[i]
  BY <1>1
<1>3. /\ b \in Seq(E) /\ Len(b) = Len(s) - n
      /\ \A i \in 1..Len(b) : b[i] = s[n + i]
  BY <1>1
<1> HIDE DEF a, b
<1>4. a \o b \in Seq(E) /\ Len(a \o b) = Len(s)
  BY <1>1, <1>2, <1>3, Joined
<1>5. ASSUME NEW i \in 1..Len(s) PROVE (a \o b)[i] = s[i]
  <2>1. /\ i \in 1..Len(a \o b)
        /\ \/ i \in 1..Len(a) /\ (a \o b)[i] = a[i]
           \/ i - Len(a) \in 1..Len(b) /\ (a \o b)[i] = b[i - Len(a)]
    BY <1>2, <1>3, <1>4, Joined
  <2>2. CASE i \in 1..Len(a) /\ (a \o b)[i] = a[i]
    BY <1>2, <2>2
  <2>3. CASE i - Len(a) \in 1..Len(b) /\ (a \o b)[i] = b[i - Len(a)]
    <3>1. b[i - Len(a)] = s[n + (i - Len(a))]
      BY <1>3, <2>3
    <3>2. n + (i - Len(a)) = i
      BY <1>1, <1>2
    <3> QED
      BY <2>3, <3>1, <3>2
  <2> QED
    BY <2>1, <2>2, <2>3
<1>6. a \o b = s
  BY <1>4, <1>5, SeqEqual
<1> QED
  BY <1>2, <1>3, <1>6 DEF a, b
==============================================================================
