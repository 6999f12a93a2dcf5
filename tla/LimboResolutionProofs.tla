------------------------ MODULE LimboResolutionProofs ------------------------
(***************************************************************************)
(* Proofs about LimboResolution.  The inductive invariant Inv says that    *)
(* the tracker is Good between two changes of a limbo document (its maps   *)
(* are inverse, its slots are used, a key in limbo is taken care of), that *)
(* no key is resolved for nobody, and that the references are the limbo    *)
(* documents of the views.  The loops of the model (starting resolutions,  *)
(* the changes of a view, the views) are unfolded into runs by LoopRuns    *)
(* and LoopInduction; each lemma ...Result says what one operator of the   *)
(* tracker does to a good tracker, and each lemma ...KeepsInv treats one   *)
(* action.                                                                 *)
(***************************************************************************)
EXTENDS LimboResolution, SequenceTheorems, FiniteSetTheorems, WellFoundedInduction, TLAPS

USE LimboAssumption

-----------------------------------------------------------------------------
(* The invariant. *)

\* The functions on some of the elements of D with values in R.
Maps(D, R) == UNION {[E -> R] : E \in SUBSET D}

Resolutions == [key : Keys, received : BOOLEAN, caughtUp : BOOLEAN]

Trackers ==
    [refs : SUBSET (Keys \X Targets), queue : Seq(Keys), byKey : Maps(Keys, Nat),
     byTarget : Maps(Nat, Resolutions), watched : SUBSET Nat, rejected : SUBSET Keys]

\* The maps of the active resolutions are inverse; a key waits once at most and not
\* while it is being resolved.
MapsInverse(e) ==
    /\ DOMAIN e.byTarget = e.watched
    /\ \A key \in DOMAIN e.byKey : e.byKey[key] \in e.watched
                                   /\ e.byTarget[e.byKey[key]].key = key
    /\ \A id \in e.watched : e.byTarget[id].key \in DOMAIN e.byKey
                             /\ e.byKey[e.byTarget[id].key] = id
    /\ \A i, j \in DOMAIN e.queue : e.queue[i] = e.queue[j] => i = j
    /\ \A i \in DOMAIN e.queue : e.queue[i] \notin DOMAIN e.byKey

Active(e) == Cardinality(DOMAIN e.byKey)

\* All slots that the queue could use are taken.
Pumped(e) ==
    /\ Active(e) <= MaxConcurrent
    /\ e.queue # <<>> => Active(e) = MaxConcurrent

\* The keys that are being resolved or wait for it.
Resolving(e) == DOMAIN e.byKey \cup ToSet(e.queue)

\* A key in limbo in some view is taken care of, or its listen was rejected.
Covered(e) == \A key \in Keys : Referenced(e, key) => key \in Resolving(e) \cup e.rejected

\* The keys that are resolved although no view has them in limbo.
Strays(e) == {key \in Resolving(e) : ~ Referenced(e, key)}

\* The states of the tracker between two changes of a limbo document.
Good == {e \in Trackers : MapsInverse(e) /\ Pumped(e) /\ Covered(e)}

\* The references are the limbo documents of the views, and a target without a view has none.
RefsAgree ==
    /\ \A key \in Keys, t \in Targets : <<key, t>> \in tracker.refs <=> key \in limbo[t]
    /\ \A t \in Targets \ listening : limbo[t] = {}

Inv ==
    /\ TypeOK
    /\ IsFiniteSet(listening)
    /\ tracker \in Good
    /\ Strays(tracker) = {}
    /\ RefsAgree

-----------------------------------------------------------------------------
(* Induction and loops. *)

\* A nonempty set of naturals has a least element.
LEMMA Least ==
    ASSUME NEW T \in SUBSET Nat, T # {}
    PROVE  \E n \in T : \A m \in T : ~ (m < n)
<1> DEFINE R == {ss \in Nat \X Nat : ss[1] < ss[2]}
<1>1. IsWellFoundedOn(R, Nat)
  BY NatLessThanWellFounded DEF OpToRel
<1>2. T \subseteq Nat
  OBVIOUS
<1> HIDE DEF R
<1>3. \E x \in T : \A y \in T : ~ (<<y, x>> \in R)
  BY <1>1, <1>2, WFMin, Zenon
<1> QED
  BY <1>3 DEF R

\* Induction over the steps of a loop.
LEMMA LoopInduction ==
    ASSUME NEW n \in Nat, NEW G \in SUBSET (0..n), 0 \in G,
           \A i \in 1..n : i - 1 \in G => i \in G
    PROVE  G = 0..n
<1> SUFFICES ASSUME (0..n) \ G # {}
             PROVE  FALSE
  OBVIOUS
<1>1. (0..n) \ G \in SUBSET Nat
  OBVIOUS
<1>2. PICK m \in (0..n) \ G : \A k \in (0..n) \ G : ~ (k < m)
  BY <1>1, Least
<1>3. m # 0 /\ m - 1 \in 0..n /\ m \in 1..n
  BY <1>2
<1>4. m - 1 \in G
  BY <1>2, <1>3
<1> QED
  BY <1>2, <1>3, <1>4

IsBody(F, n, S) == F \in [(1..n) \X S -> S]

IsRun(g, F, n, S, e) ==
    g \in [0..n -> S] /\ g[0] = e /\ \A i \in 1..n : g[i] = F[<<i, g[i - 1]>>]

\* A loop whose body F maps S to S has a run from every e of S.
LEMMA LoopRuns ==
    ASSUME NEW S, NEW e \in S, NEW n \in Nat, NEW F, IsBody(F, n, S)
    PROVE  \E g : IsRun(g, F, n, S, e)
<1> DEFINE Run(m, g) == g[0] = e /\ \A i \in 1..m : g[i] = F[<<i, g[i - 1]>>]
           G == {m \in 0..n : \E g \in [0..m -> S] : Run(m, g)}
<1> F \in [(1..n) \X S -> S]
  BY DEF IsBody
<1>1. 0 \in G
  <2> DEFINE g == [i \in 0..0 |-> e]
  <2>1. g \in [0..0 -> S] /\ Run(0, g)
    OBVIOUS
  <2>2. 0 \in 0..n
    OBVIOUS
  <2> HIDE DEF g, Run
  <2> QED
    BY <2>1, <2>2
<1>2. ASSUME NEW m \in 1..n, m - 1 \in G
      PROVE  m \in G
  <2>1. PICK g \in [0..(m - 1) -> S] : Run(m - 1, g)
    BY <1>2
  <2> DEFINE h == [i \in 0..m |-> IF i < m THEN g[i] ELSE F[<<m, g[m - 1]>>]]
  <2>2. m - 1 \in 0..(m - 1) /\ g[m - 1] \in S
    BY <2>1
  <2>3. F[<<m, g[m - 1]>>] \in S
    BY <2>2
  <2>4. h \in [0..m -> S]
    BY <2>3
  <2>5. h[0] = e
    BY <2>1
  <2>6. ASSUME NEW i \in 1..m
        PROVE  h[i] = F[<<i, h[i - 1]>>]
    <3>1. h[i - 1] = g[i - 1]
      OBVIOUS
    <3>2. CASE i = m
      <4>1. h[m] = F[<<m, g[m - 1]>>]
        OBVIOUS
      <4> HIDE DEF h
      <4> QED
        BY <3>1, <3>2, <4>1
    <3>3. CASE i < m
      <4>1. h[i] = g[i] /\ i \in 1..(m - 1)
        BY <3>3
      <4> QED
        BY <2>1, <3>1, <4>1
    <3> QED
      BY <3>2, <3>3
  <2> HIDE DEF h
  <2> QED
    BY <2>4, <2>5, <2>6
<1> HIDE DEF G
<1>3. G = 0..n
  <2>1. G \in SUBSET (0..n)
    BY DEF G
  <2> QED
    BY <1>1, <1>2, <2>1, LoopInduction
<1>4. n \in G
  BY <1>3
<1> QED
  BY <1>4 DEF G, IsRun

-----------------------------------------------------------------------------
(* The queue and the maps. *)

\* RandomAccessQueue::remove.
LEMMA DequeueResult ==
    ASSUME NEW q \in Seq(Keys), NEW key \in Keys,
           \A i, j \in DOMAIN q : q[i] = q[j] => i = j
    PROVE  /\ Dequeue(q, key) \in Seq(Keys)
           /\ ToSet(Dequeue(q, key)) = ToSet(q) \ {key}
           /\ \A i, j \in DOMAIN Dequeue(q, key) :
                  Dequeue(q, key)[i] = Dequeue(q, key)[j] => i = j
           /\ Len(Dequeue(q, key)) <= Len(q)
           /\ key \notin ToSet(q) => Dequeue(q, key) = q
<1>1. DOMAIN q = 1..Len(q) /\ Len(q) \in Nat
  OBVIOUS
<1>2. CASE ~ Contains(q, key)
  <2>1. key \notin ToSet(q)
    BY <1>1, <1>2 DEF Contains, ToSet
  <2>2. Dequeue(q, key) = q
    BY <1>2 DEF Dequeue
  <2> QED
    BY <1>1, <2>1, <2>2
<1>3. CASE Contains(q, key)
  <2> DEFINE p == CHOOSE i \in 1..Len(q) : q[i] = key
             d == [j \in 1..(Len(q) - 1) |-> IF j < p THEN q[j] ELSE q[j + 1]]
  <2>1. p \in 1..Len(q) /\ q[p] = key
    BY <1>3 DEF Contains
  <2>2. Dequeue(q, key) = RemoveAt(q, p)
    BY <1>3 DEF Dequeue
  <2> HIDE DEF p
  <2>3. RemoveAt(q, p) = d
    <3> DEFINE a == SubSeq(q, 1, p - 1)
               b == SubSeq(q, p + 1, Len(q))
    <3>1. a \in Seq(Keys) /\ Len(a) = p - 1 /\ \A j \in 1..(p - 1) : a[j] = q[j]
      BY <2>1
    <3>2. b \in Seq(Keys) /\ Len(b) = Len(q) - p /\ \A j \in 1..(Len(q) - p) : b[j] = q[p + j]
      BY <2>1
    <3> HIDE DEF a, b
    <3>3. a \o b \in Seq(Keys) /\ Len(a \o b) = Len(q) - 1
      <4>a. a \in Seq(Keys) /\ b \in Seq(Keys)
        BY <3>1, <3>2
      <4>1. a \o b \in Seq(Keys) /\ Len(a \o b) = Len(a) + Len(b)
        BY <4>a, ConcatProperties
      <4>2. Len(a) + Len(b) = Len(q) - 1
        BY <1>1, <2>1, <3>1, <3>2
      <4> QED
        BY <4>1, <4>2
    <3>4. ASSUME NEW j \in 1..(Len(q) - 1)
          PROVE  (a \o b)[j] = IF j < p THEN q[j] ELSE q[j + 1]
      <4>1. CASE j < p
        BY <2>1, <3>1, <3>2, <4>1
      <4>2. CASE ~ (j < p)
        <5>1. (a \o b)[j] = b[j - (p - 1)]
          BY <2>1, <3>1, <3>2, <4>2
        <5>2. j - (p - 1) \in 1..(Len(q) - p) /\ p + (j - (p - 1)) = j + 1
          BY <2>1, <4>2
        <5> QED
          BY <3>2, <4>2, <5>1, <5>2
      <4> QED
        BY <4>1, <4>2
    <3>5. a \o b = d
      <4>1. d \in Seq(Keys) /\ Len(d) = Len(q) - 1
        BY <1>1, <2>1
      <4>2. \A j \in 1..(Len(q) - 1) : (a \o b)[j] = d[j]
        BY <3>4
      <4> HIDE DEF d
      <4> QED
        BY <3>3, <4>1, <4>2, SeqEqual
    <3> QED
      BY <3>5 DEF RemoveAt, a, b
  <2>4. d \in Seq(Keys) /\ Len(d) = Len(q) - 1 /\ DOMAIN d = 1..(Len(q) - 1)
    BY <1>1, <2>1
  <2>5. \A i, j \in 1..(Len(q) - 1) : d[i] = d[j] => i = j
    BY <1>1, <2>1
  <2>6. \A j \in 1..(Len(q) - 1) : d[j] \in ToSet(q) \ {key}
    BY <1>1, <2>1 DEF ToSet
  <2>7. ASSUME NEW i \in 1..Len(q), q[i] # key
        PROVE  \E j \in 1..(Len(q) - 1) : d[j] = q[i]
    <3>1. CASE i < p
      <4>1. i \in 1..(Len(q) - 1) /\ d[i] = q[i]
        BY <2>1, <3>1
      <4> QED
        BY <4>1
    <3>2. CASE i > p
      <4>1. i - 1 \in 1..(Len(q) - 1) /\ d[i - 1] = q[i]
        BY <2>1, <3>2
      <4> QED
        BY <4>1
    <3> QED
      BY <2>1, <2>7, <3>1, <3>2
  <2> HIDE DEF d
  <2>8. ToSet(d) = ToSet(q) \ {key}
    <3>1. ToSet(d) \subseteq ToSet(q) \ {key}
      <4> SUFFICES ASSUME NEW j \in DOMAIN d
                   PROVE  d[j] \in ToSet(q) \ {key}
        BY DEF ToSet
      <4> QED
        BY <2>4, <2>6
    <3>2. ToSet(q) \ {key} \subseteq ToSet(d)
      <4> SUFFICES ASSUME NEW i \in DOMAIN q, q[i] # key
                   PROVE  q[i] \in ToSet(d)
        BY DEF ToSet
      <4>1. PICK j \in 1..(Len(q) - 1) : d[j] = q[i]
        BY <1>1, <2>7
      <4> QED
        BY <2>4, <4>1 DEF ToSet
    <3> QED
      BY <3>1, <3>2
  <2>9. key \in ToSet(q)
    BY <1>1, <2>1 DEF ToSet
  <2> QED
    BY <1>1, <2>2, <2>3, <2>4, <2>5, <2>8, <2>9
<1> QED
  BY <1>2, <1>3

\* There are as many watched limbo targets as active keys.
LEMMA WatchedFinite ==
    ASSUME NEW e \in Trackers, MapsInverse(e)
    PROVE  /\ IsFiniteSet(DOMAIN e.byKey) /\ IsFiniteSet(e.watched)
           /\ Active(e) \in Nat
           /\ Active(e) <= Cardinality(Keys)
           /\ Cardinality(e.watched) = Active(e)
<1> DEFINE D == DOMAIN e.byKey
<1>1. D \in SUBSET Keys /\ e.byKey \in [D -> Nat] /\ e.watched \in SUBSET Nat
  BY DEF Trackers, Maps
<1>2. \A key \in D : e.byKey[key] \in e.watched
  BY DEF MapsInverse
<1>3. \A id \in e.watched : \E key \in D : e.byKey[key] = id
  BY DEF MapsInverse
<1>4. \A j, k \in D : e.byKey[j] = e.byKey[k] => j = k
  BY DEF MapsInverse
<1>5. Active(e) = Cardinality(D)
  BY DEF Active
<1> HIDE DEF D
<1>6. IsFiniteSet(D) /\ Cardinality(D) <= Cardinality(Keys) /\ Cardinality(D) \in Nat
  BY <1>1, FS_Subset, FS_CardinalityType
<1>7. e.byKey \in [D -> e.watched]
  BY <1>1, <1>2
<1>8. e.byKey \in Surjection(D, e.watched) /\ e.byKey \in Injection(D, e.watched)
  BY <1>3, <1>4, <1>7 DEF Surjection, Injection, IsInjective
<1>9. IsFiniteSet(e.watched) /\ Cardinality(e.watched) = Cardinality(D)
  BY <1>6, <1>8, FS_Surjection, Zenon
<1> QED
  BY <1>5, <1>6, <1>9 DEF D

\* There is an id for one more resolution than there are keys.
LEMMA NextIdIsFree ==
    ASSUME NEW e \in Trackers, MapsInverse(e)
    PROVE  NextId(e) \in Nat /\ NextId(e) \notin e.watched
<1> DEFINE C == Cardinality(Keys)
<1>1. DOMAIN e.byTarget = e.watched
  BY DEF MapsInverse
<1>2. C \in Nat
  BY FS_CardinalityType
<1>3. IsFiniteSet(e.watched) /\ Cardinality(e.watched) <= C /\ Cardinality(e.watched) \in Nat
  BY <1>2, WatchedFinite
<1>4. Cardinality(1..(C + 1)) = C + 1
  BY <1>2, FS_Interval
<1>5. \E id \in 1..(C + 1) : id \notin e.watched
  <2> SUFFICES ASSUME 1..(C + 1) \in SUBSET e.watched
               PROVE  FALSE
    BY <1>2
  <2>1. Cardinality(1..(C + 1)) <= Cardinality(e.watched)
    BY <1>3, FS_Subset
  <2> HIDE DEF C
  <2> QED
    BY <1>2, <1>3, <1>4, <2>1
<1>6. NextId(e) \in 1..(C + 1) /\ NextId(e) \notin e.watched
  BY <1>1, <1>5 DEF NextId
<1> QED
  BY <1>2, <1>6

\* A tracker made of e by starting and stopping resolutions: views see no difference.
SameLimbo(f, e) == f.refs = e.refs /\ f.rejected = e.rejected /\ Resolving(f) = Resolving(e)

\* The first key of the queue becomes an active resolution.
LEMMA StartResolutionResult ==
    ASSUME NEW e \in Trackers, MapsInverse(e), e.queue # <<>>
    PROVE  LET f == StartResolution(e)
           IN  /\ f \in Trackers /\ MapsInverse(f) /\ SameLimbo(f, e)
               /\ Active(f) = Active(e) + 1
               /\ Len(f.queue) = Len(e.queue) - 1
<1> DEFINE id == NextId(e)
           key == Head(e.queue)
           new == [key |-> key, received |-> FALSE, caughtUp |-> FALSE]
           f == StartResolution(e)
           D == DOMAIN e.byKey
<1>1. f = [e EXCEPT !.queue = Tail(e.queue), !.byKey = Put(e.byKey, key, id),
                    !.byTarget = Put(e.byTarget, id, new), !.watched = e.watched \cup {id}]
  BY DEF StartResolution
<1>2. id \in Nat /\ id \notin e.watched
  BY NextIdIsFree
<1> HIDE DEF id
<1>3. e.queue \in Seq(Keys) /\ Len(e.queue) \in Nat /\ e.queue # <<>>
  BY DEF Trackers
<1>4. /\ key \in Keys /\ Tail(e.queue) \in Seq(Keys)
      /\ Len(Tail(e.queue)) = Len(e.queue) - 1 /\ Len(e.queue) > 0
      /\ DOMAIN e.queue = 1..Len(e.queue)
      /\ DOMAIN Tail(e.queue) = 1..(Len(e.queue) - 1)
      /\ \A i \in 1..(Len(e.queue) - 1) : Tail(e.queue)[i] = e.queue[i + 1]
      /\ key = e.queue[1]
  BY <1>3
<1>5. key \notin D
  BY <1>4 DEF MapsInverse
<1> HIDE DEF key
<1>6. new \in Resolutions
  BY <1>4 DEF Resolutions
<1>7. new.key = key
  OBVIOUS
<1> HIDE DEF new, f
<1>8. D \in SUBSET Keys /\ e.byKey \in [D -> Nat]
  BY DEF Trackers, Maps
<1>9. e.byTarget \in [e.watched -> Resolutions] /\ e.watched \in SUBSET Nat
  BY DEF Trackers, Maps, MapsInverse
<1>10. /\ f.queue = Tail(e.queue) /\ f.byKey = Put(e.byKey, key, id)
       /\ f.byTarget = Put(e.byTarget, id, new) /\ f.watched = e.watched \cup {id}
       /\ f.refs = e.refs /\ f.rejected = e.rejected
       /\ f = [refs |-> f.refs, queue |-> f.queue, byKey |-> f.byKey, byTarget |-> f.byTarget,
               watched |-> f.watched, rejected |-> f.rejected]
  BY <1>1 DEF Trackers
<1> DEFINE L == Len(e.queue)
<1>a. f.queue = Tail(e.queue)
  BY <1>10
<1>b. /\ L \in Nat /\ DOMAIN e.queue = 1..L /\ DOMAIN f.queue = 1..(L - 1)
      /\ \A i \in 1..(L - 1) : f.queue[i] = e.queue[i + 1]
  BY <1>3, <1>4, <1>a
<1> HIDE DEF L
<1>11. /\ f.byKey \in [D \cup {key} -> Nat]
       /\ DOMAIN f.byKey = D \cup {key}
       /\ f.byKey[key] = id /\ \A k \in D : f.byKey[k] = e.byKey[k]
  BY <1>2, <1>5, <1>8, <1>10 DEF Put
<1>12. /\ f.byTarget \in [e.watched \cup {id} -> Resolutions]
       /\ DOMAIN f.byTarget = e.watched \cup {id}
       /\ f.byTarget[id] = new /\ \A j \in e.watched : f.byTarget[j] = e.byTarget[j]
  BY <1>2, <1>6, <1>9, <1>10 DEF Put
<1>13. f \in Trackers
  <2>1. f.byKey \in Maps(Keys, Nat)
    BY <1>4, <1>8, <1>11 DEF Maps
  <2>2. f.byTarget \in Maps(Nat, Resolutions)
    BY <1>2, <1>9, <1>12 DEF Maps
  <2>3. f.watched \in SUBSET Nat
    BY <1>2, <1>9, <1>10
  <2>4. f.refs \in SUBSET (Keys \X Targets) /\ f.rejected \in SUBSET Keys
    BY <1>10 DEF Trackers
  <2>5. f.queue \in Seq(Keys)
    BY <1>4, <1>10
  <2> QED
    BY <1>10, <2>1, <2>2, <2>3, <2>4, <2>5 DEF Trackers
<1>14. MapsInverse(f)
  <2>1. DOMAIN f.byTarget = f.watched
    BY <1>10, <1>12
  <2>2. ASSUME NEW k \in DOMAIN f.byKey
        PROVE  f.byKey[k] \in f.watched /\ f.byTarget[f.byKey[k]].key = k
    <3>1. CASE k = key
      BY <1>7, <1>10, <1>11, <1>12, <3>1
    <3>2. CASE k \in D
      <4>1. e.byKey[k] \in e.watched /\ e.byTarget[e.byKey[k]].key = k
        BY <3>2 DEF MapsInverse
      <4> QED
        BY <1>10, <1>11, <1>12, <3>2, <4>1
    <3> QED
      BY <1>11, <2>2, <3>1, <3>2
  <2>3. ASSUME NEW j \in f.watched
        PROVE  f.byTarget[j].key \in DOMAIN f.byKey /\ f.byKey[f.byTarget[j].key] = j
    <3>1. CASE j = id
      BY <1>7, <1>11, <1>12, <3>1
    <3>2. CASE j \in e.watched
      <4>1. e.byTarget[j].key \in D /\ e.byKey[e.byTarget[j].key] = j
        BY <3>2 DEF MapsInverse
      <4> QED
        BY <1>11, <1>12, <3>2, <4>1
    <3> QED
      BY <1>10, <2>3, <3>1, <3>2
  <2>4. \A i, j \in DOMAIN e.queue : e.queue[i] = e.queue[j] => i = j
    BY DEF MapsInverse
  <2>5. \A i, j \in DOMAIN f.queue : f.queue[i] = f.queue[j] => i = j
    <3> SUFFICES ASSUME NEW i \in 1..(L - 1), NEW j \in 1..(L - 1),
                        e.queue[i + 1] = e.queue[j + 1]
                 PROVE  i = j
      BY <1>b
    <3>1. i + 1 \in DOMAIN e.queue /\ j + 1 \in DOMAIN e.queue
      BY <1>b
    <3>2. i + 1 = j + 1
      BY <2>4, <3>1
    <3> QED
      BY <1>b, <3>2
  <2>6. \A i \in DOMAIN e.queue : e.queue[i] \notin D
    BY DEF MapsInverse
  <2>7. \A i \in DOMAIN f.queue : f.queue[i] \notin D \cup {key}
    <3> SUFFICES ASSUME NEW i \in 1..(L - 1)
                 PROVE  e.queue[i + 1] \notin D \cup {key}
      BY <1>b
    <3>1. i + 1 \in DOMAIN e.queue /\ 1 \in DOMAIN e.queue /\ i + 1 # 1
      BY <1>b
    <3> QED
      BY <1>4, <2>4, <2>6, <3>1
  <2> QED
    BY <1>11, <2>1, <2>2, <2>3, <2>5, <2>7 DEF MapsInverse
<1>15. Resolving(f) = Resolving(e)
  <2>1. ToSet(e.queue) = ToSet(f.queue) \cup {key}
    <3>1. ToSet(f.queue) \subseteq ToSet(e.queue)
      <4> SUFFICES ASSUME NEW i \in 1..(L - 1)
                   PROVE  f.queue[i] \in ToSet(e.queue)
        BY <1>b DEF ToSet
      <4>1. i + 1 \in DOMAIN e.queue /\ f.queue[i] = e.queue[i + 1]
        BY <1>b
      <4> QED
        BY <4>1 DEF ToSet
    <3>2. key \in ToSet(e.queue)
      BY <1>3, <1>4 DEF ToSet
    <3>3. ASSUME NEW i \in 1..L, i # 1
          PROVE  e.queue[i] \in ToSet(f.queue)
      <4>1. i - 1 \in DOMAIN f.queue /\ f.queue[i - 1] = e.queue[i]
        BY <1>b, <3>3
      <4> QED
        BY <4>1 DEF ToSet
    <3>4. ToSet(e.queue) \subseteq ToSet(f.queue) \cup {key}
      BY <1>4, <1>b, <3>3 DEF ToSet
    <3> QED
      BY <3>1, <3>2, <3>4
  <2> QED
    BY <1>11, <2>1 DEF Resolving
<1>16. Active(f) = Active(e) + 1
  <2>1. IsFiniteSet(D)
    BY WatchedFinite
  <2> HIDE DEF D
  <2>2. Cardinality(D \cup {key}) = Cardinality(D) + 1
    BY <1>5, <2>1, FS_AddElement
  <2> QED
    BY <1>11, <2>2 DEF Active, D
<1> QED
  BY <1>4, <1>10, <1>13, <1>14, <1>15, <1>16 DEF SameLimbo, f

\* The loop of the pump when nothing or one key can be started.
LEMMA StartFew ==
    ASSUME NEW e
    PROVE  StartResolutions(e, 0) = e /\ StartResolutions(e, 1) = StartResolution(e)
<1> DEFINE Loop(n, h) == h = [i \in 0..n |-> IF i = 0 THEN e ELSE StartResolution(h[i - 1])]
           Run(n) == CHOOSE h : Loop(n, h)
<1>1. StartResolutions(e, 0) = Run(0)[0] /\ StartResolutions(e, 1) = Run(1)[1]
  BY DEF StartResolutions
<1>2. Loop(0, Run(0))
  <2> DEFINE g == [i \in 0..0 |-> e]
  <2>1. Loop(0, g)
    OBVIOUS
  <2> HIDE DEF g, Loop
  <2> QED
    BY <2>1
<1>3. Loop(1, Run(1))
  <2> DEFINE g == [i \in 0..1 |-> IF i = 0 THEN e ELSE StartResolution(e)]
  <2>1. Loop(1, g)
    <3>1. g[0] = e
      OBVIOUS
    <3>2. \A i \in 0..1 : g[i] = IF i = 0 THEN e ELSE StartResolution(g[i - 1])
      BY <3>1
    <3> QED
      BY <3>2
  <2> HIDE DEF g, Loop
  <2> QED
    BY <2>1
<1> DEFINE a == Run(0)
           b == Run(1)
<1>4. Loop(0, a) /\ Loop(1, b)
  BY <1>2, <1>3
<1> HIDE DEF Run, a, b
<1>5. a[0] = e
  BY <1>4
<1>6. b[0] = e /\ b[1] = StartResolution(b[0])
  BY <1>4
<1> QED
  BY <1>1, <1>5, <1>6 DEF a, b

\* The pump starts as many resolutions as there is room and keys for.
LEMMA PumpUnfolds ==
    ASSUME NEW e
    PROVE  PumpEnqueuedLimboResolutions(e) = StartResolutions(e, Startable(e, MaxConcurrent))
BY DEF PumpEnqueuedLimboResolutions, Let

\* A tracker of which at most one key can be started, as after one key came to the queue
\* or one resolution ended.
Unpumped(e) ==
    /\ e \in Trackers
    /\ MapsInverse(e)
    /\ Active(e) <= MaxConcurrent
    /\ Len(e.queue) <= 1 \/ Active(e) >= MaxConcurrent - 1

\* The pump uses the free slots and forgets no key.
LEMMA PumpResult ==
    ASSUME NEW e, Unpumped(e)
    PROVE  LET f == PumpEnqueuedLimboResolutions(e)
           IN  f \in Trackers /\ MapsInverse(f) /\ Pumped(f) /\ SameLimbo(f, e)
<1> DEFINE n == Startable(e, MaxConcurrent)
           f == PumpEnqueuedLimboResolutions(e)
<1>1. e \in Trackers /\ MapsInverse(e) /\ Active(e) <= MaxConcurrent
  BY DEF Unpumped
<1> DEFINE L == Len(e.queue)
           A == Active(e)
<1>2. e.queue \in Seq(Keys)
  BY <1>1 DEF Trackers
<1>a. L \in Nat /\ (e.queue = <<>> <=> L = 0)
  BY <1>2
<1>3. A \in Nat
  BY <1>1, WatchedFinite
<1>b. A <= MaxConcurrent /\ (L <= 1 \/ A >= MaxConcurrent - 1)
  BY DEF Unpumped
<1>4. n = IF MaxConcurrent - A < L THEN MaxConcurrent - A ELSE L
  BY DEF Startable, Active
<1>5. f = StartResolutions(e, n)
  BY PumpUnfolds
<1> HIDE DEF n, f, L, A
<1>6. CASE L = 0 \/ A = MaxConcurrent
  <2>1. n = 0
    BY <1>a, <1>b, <1>3, <1>4, <1>6
  <2>2. f = e
    BY <1>5, <2>1, StartFew
  <2>3. Pumped(e)
    BY <1>1, <1>a, <1>6 DEF Pumped, A
  <2> QED
    BY <1>1, <2>2, <2>3 DEF SameLimbo, f
<1>7. CASE L # 0 /\ A # MaxConcurrent
  <2>1. n = 1
    BY <1>a, <1>b, <1>3, <1>4, <1>7
  <2>2. f = StartResolution(e)
    BY <1>5, <2>1, StartFew
  <2>3. /\ f \in Trackers /\ MapsInverse(f) /\ SameLimbo(f, e)
        /\ Active(f) = A + 1
        /\ Len(f.queue) = L - 1
    BY <1>1, <1>a, <1>7, <2>2, StartResolutionResult DEF A, L
  <2>4. f.queue \in Seq(Keys)
    BY <2>3 DEF Trackers
  <2>5. f.queue = <<>> <=> Len(f.queue) = 0
    BY <2>4
  <2>6. A + 1 <= MaxConcurrent /\ (L - 1 # 0 => A + 1 = MaxConcurrent)
    BY <1>a, <1>b, <1>3, <1>7
  <2>7. Pumped(f)
    BY <2>3, <2>5, <2>6 DEF Pumped
  <2> QED
    BY <2>3, <2>7 DEF f
<1> QED
  BY <1>6, <1>7

\* After TrackLimboChange the key is resolved or waits.
LEMMA TrackResult ==
    ASSUME NEW e \in Trackers, MapsInverse(e), Pumped(e), NEW key \in Keys
    PROVE  LET f == TrackLimboChange(e, key)
           IN  /\ f \in Trackers /\ MapsInverse(f) /\ Pumped(f)
               /\ f.refs = e.refs /\ f.rejected = e.rejected
               /\ Resolving(f) = Resolving(e) \cup {key}
<1>1. e.queue \in Seq(Keys) /\ Len(e.queue) \in Nat /\ DOMAIN e.queue = 1..Len(e.queue)
  BY DEF Trackers
<1>2. CASE key \in DOMAIN e.byKey \/ Contains(e.queue, key)
  <2>1. key \in Resolving(e)
    BY <1>1, <1>2 DEF Resolving, Contains, ToSet
  <2>2. TrackLimboChange(e, key) = e
    BY <1>2 DEF TrackLimboChange
  <2> QED
    BY <2>1, <2>2
<1>3. CASE ~ (key \in DOMAIN e.byKey \/ Contains(e.queue, key))
  <2> DEFINE q == Append(e.queue, key)
             g == [e EXCEPT !.queue = q]
  <2>1. TrackLimboChange(e, key) = PumpEnqueuedLimboResolutions(g)
    BY <1>3 DEF TrackLimboChange
  <2>2. /\ q \in Seq(Keys) /\ Len(q) = Len(e.queue) + 1 /\ DOMAIN q = 1..(Len(e.queue) + 1)
        /\ \A i \in 1..Len(e.queue) : q[i] = e.queue[i]
        /\ q[Len(e.queue) + 1] = key
    BY <1>1
  <2> HIDE DEF q
  <2>3. g \in Trackers /\ g.queue = q /\ g.byKey = e.byKey /\ g.byTarget = e.byTarget
        /\ g.watched = e.watched /\ g.refs = e.refs /\ g.rejected = e.rejected
    BY <2>2 DEF Trackers
  <2> HIDE DEF g
  <2>4. \A i \in 1..Len(e.queue) : e.queue[i] # key
    BY <1>3 DEF Contains
  <2>5. \A i, j \in DOMAIN q : q[i] = q[j] => i = j
    <3> SUFFICES ASSUME NEW i \in 1..(Len(e.queue) + 1), NEW j \in 1..(Len(e.queue) + 1),
                        q[i] = q[j]
                 PROVE  i = j
      BY <2>2
    <3>1. \A k, l \in 1..Len(e.queue) : e.queue[k] = e.queue[l] => k = l
      BY <1>1 DEF MapsInverse
    <3>2. CASE i \in 1..Len(e.queue) /\ j \in 1..Len(e.queue)
      BY <2>2, <3>1, <3>2
    <3>3. CASE i = Len(e.queue) + 1 \/ j = Len(e.queue) + 1
      BY <1>1, <2>2, <2>4, <3>3
    <3> QED
      BY <1>1, <3>2, <3>3
  <2>6. \A i \in DOMAIN q : q[i] \notin DOMAIN e.byKey
    <3> SUFFICES ASSUME NEW i \in 1..(Len(e.queue) + 1)
                 PROVE  q[i] \notin DOMAIN e.byKey
      BY <2>2
    <3>1. CASE i \in 1..Len(e.queue)
      BY <1>1, <2>2, <3>1 DEF MapsInverse
    <3>2. CASE i = Len(e.queue) + 1
      BY <1>3, <2>2, <3>2
    <3> QED
      BY <1>1, <3>1, <3>2
  <2>7. MapsInverse(g)
    BY <2>3, <2>5, <2>6 DEF MapsInverse
  <2>8. Unpumped(g)
    <3>1. Active(g) = Active(e)
      BY <2>3 DEF Active
    <3>2. Active(e) <= MaxConcurrent /\ Active(e) \in Nat
      BY WatchedFinite DEF Pumped
    <3>3. Len(q) <= 1 \/ Active(e) = MaxConcurrent
      <4>1. CASE e.queue = <<>>
        BY <1>1, <2>2, <4>1
      <4>2. CASE e.queue # <<>>
        BY <4>2 DEF Pumped
      <4> QED
        BY <4>1, <4>2
    <3> QED
      BY <2>3, <2>7, <3>1, <3>2, <3>3 DEF Unpumped
  <2>9. ToSet(q) = ToSet(e.queue) \cup {key}
    <3>1. ToSet(q) \subseteq ToSet(e.queue) \cup {key}
      <4> SUFFICES ASSUME NEW i \in 1..(Len(e.queue) + 1)
                   PROVE  q[i] \in ToSet(e.queue) \cup {key}
        BY <2>2 DEF ToSet
      <4>1. i \in 1..Len(e.queue) \/ i = Len(e.queue) + 1
        BY <1>1
      <4> QED
        BY <1>1, <2>2, <4>1 DEF ToSet
    <3>2. ToSet(e.queue) \subseteq ToSet(q)
      <4> SUFFICES ASSUME NEW i \in 1..Len(e.queue)
                   PROVE  e.queue[i] \in ToSet(q)
        BY <1>1 DEF ToSet
      <4>1. i \in DOMAIN q /\ q[i] = e.queue[i]
        BY <1>1, <2>2
      <4> QED
        BY <4>1 DEF ToSet
    <3>3. key \in ToSet(q)
      <4>1. Len(e.queue) + 1 \in DOMAIN q
        BY <1>1, <2>2
      <4> QED
        BY <2>2, <4>1 DEF ToSet
    <3> QED
      BY <3>1, <3>2, <3>3
  <2>10. Resolving(g) = Resolving(e) \cup {key}
    BY <2>3, <2>9 DEF Resolving
  <2> QED
    BY <2>1, <2>3, <2>8, <2>10, PumpResult DEF SameLimbo
<1> QED
  BY <1>2, <1>3

\* The tracker e without the active resolution of a key.
Ended(e, key, rejected) ==
    [refs |-> e.refs, queue |-> e.queue, byKey |-> Erase(e.byKey, key),
     byTarget |-> Erase(e.byTarget, e.byKey[key]), watched |-> e.watched \ {e.byKey[key]},
     rejected |-> rejected]

CanEnd(e, key, R) ==
    /\ e \in Trackers /\ MapsInverse(e) /\ Pumped(e)
    /\ key \in DOMAIN e.byKey /\ R \in SUBSET Keys

HasEnded(g, e, key, R) ==
    /\ Unpumped(g)
    /\ g.refs = e.refs /\ g.rejected = R
    /\ Resolving(g) = Resolving(e) \ {key}

\* Ending one resolution frees one slot.
LEMMA EndedResult ==
    ASSUME NEW e, NEW key, NEW R, CanEnd(e, key, R)
    PROVE  HasEnded(Ended(e, key, R), e, key, R)
<1> e \in Trackers /\ MapsInverse(e) /\ Pumped(e) /\ key \in DOMAIN e.byKey /\ R \in SUBSET Keys
  BY DEF CanEnd
<1> DEFINE g == Ended(e, key, R)
           D == DOMAIN e.byKey
           id == e.byKey[key]
<1>1. /\ g.refs = e.refs /\ g.queue = e.queue /\ g.byKey = Erase(e.byKey, key)
      /\ g.byTarget = Erase(e.byTarget, id) /\ g.watched = e.watched \ {id} /\ g.rejected = R
      /\ g = [refs |-> g.refs, queue |-> g.queue, byKey |-> g.byKey, byTarget |-> g.byTarget,
              watched |-> g.watched, rejected |-> g.rejected]
  BY DEF Ended
<1> HIDE DEF g
<1>2. D \in SUBSET Keys /\ e.byKey \in [D -> Nat]
  BY DEF Trackers, Maps
<1>3. e.byTarget \in [e.watched -> Resolutions] /\ e.watched \in SUBSET Nat
  BY DEF Trackers, Maps, MapsInverse
<1>4. /\ \A k \in D : e.byKey[k] \in e.watched /\ e.byTarget[e.byKey[k]].key = k
      /\ \A j \in e.watched : e.byTarget[j].key \in D /\ e.byKey[e.byTarget[j].key] = j
      /\ \A i, j \in DOMAIN e.queue : e.queue[i] = e.queue[j] => i = j
      /\ \A i \in DOMAIN e.queue : e.queue[i] \notin D
  BY DEF MapsInverse
<1>5. key \in D /\ id \in e.watched /\ e.byTarget[id].key = key
  BY <1>4
<1>6. /\ g.byKey \in [D \ {key} -> Nat] /\ DOMAIN g.byKey = D \ {key}
      /\ \A k \in D \ {key} : g.byKey[k] = e.byKey[k]
  BY <1>1, <1>2 DEF Erase
<1>7. /\ g.byTarget \in [e.watched \ {id} -> Resolutions]
      /\ DOMAIN g.byTarget = e.watched \ {id}
      /\ \A j \in e.watched \ {id} : g.byTarget[j] = e.byTarget[j]
  BY <1>1, <1>3 DEF Erase
<1> HIDE DEF D, id
<1>8. g \in Trackers
  <2>1. g.byKey \in Maps(Keys, Nat)
    BY <1>2, <1>6 DEF Maps
  <2>2. g.byTarget \in Maps(Nat, Resolutions)
    BY <1>3, <1>7 DEF Maps
  <2>3. g.watched \in SUBSET Nat
    BY <1>1, <1>3
  <2>4. g.refs \in SUBSET (Keys \X Targets) /\ g.rejected \in SUBSET Keys /\ g.queue \in Seq(Keys)
    BY <1>1 DEF Trackers
  <2> QED
    BY <1>1, <2>1, <2>2, <2>3, <2>4 DEF Trackers
<1>9. MapsInverse(g)
  <2>1. DOMAIN g.byTarget = g.watched
    BY <1>1, <1>7
  <2>2. ASSUME NEW k \in DOMAIN g.byKey
        PROVE  g.byKey[k] \in g.watched /\ g.byTarget[g.byKey[k]].key = k
    <3>1. k \in D /\ k # key /\ g.byKey[k] = e.byKey[k]
      BY <1>6
    <3>2. e.byKey[k] \in e.watched /\ e.byTarget[e.byKey[k]].key = k
      BY <1>4, <3>1
    <3>3. e.byKey[k] # id
      BY <1>5, <3>1, <3>2
    <3> QED
      BY <1>1, <1>7, <3>1, <3>2, <3>3
  <2>3. ASSUME NEW j \in g.watched
        PROVE  g.byTarget[j].key \in DOMAIN g.byKey /\ g.byKey[g.byTarget[j].key] = j
    <3>1. j \in e.watched /\ j # id /\ g.byTarget[j] = e.byTarget[j]
      BY <1>1, <1>7
    <3>2. e.byTarget[j].key \in D /\ e.byKey[e.byTarget[j].key] = j
      BY <1>4, <3>1
    <3>3. e.byTarget[j].key # key
      BY <3>1, <3>2 DEF id
    <3> QED
      BY <1>6, <3>1, <3>2, <3>3
  <2> QED
    BY <1>1, <1>4, <1>6, <2>1, <2>2, <2>3 DEF MapsInverse
<1>10. Unpumped(g)
  <2>1. IsFiniteSet(D) /\ Cardinality(D) \in Nat /\ Cardinality(D) = Active(e)
    BY WatchedFinite DEF D, Active
  <2>2. Cardinality(D \ {key}) = Cardinality(D) - 1
    <3>1. Cardinality(D \ {key}) = IF key \in D THEN Cardinality(D) - 1 ELSE Cardinality(D)
      BY <2>1, FS_RemoveElement, Zenon
    <3> QED
      BY <1>5, <3>1
  <2>3. Active(g) = Active(e) - 1
    BY <1>6, <2>1, <2>2 DEF Active
  <2>4. Active(e) <= MaxConcurrent /\ (e.queue # <<>> => Active(e) = MaxConcurrent)
    BY DEF Pumped
  <2>5. Active(e) \in Nat
    BY <2>1
  <2>6. e.queue = <<>> => Len(g.queue) <= 1
    BY <1>1
  <2>7. Active(g) <= MaxConcurrent /\ (Len(g.queue) <= 1 \/ Active(g) >= MaxConcurrent - 1)
    BY <2>3, <2>4, <2>5, <2>6
  <2> QED
    BY <1>8, <1>9, <2>7 DEF Unpumped
<1>11. Resolving(g) = Resolving(e) \ {key}
  <2>1. key \notin ToSet(e.queue)
    BY <1>4, <1>5 DEF ToSet
  <2> QED
    BY <1>1, <1>6, <2>1 DEF Resolving, D
<1> QED
  BY <1>1, <1>10, <1>11 DEF g, HasEnded

\* RemoveLimboTarget takes the key out and lets the next one in.
LEMMA RemoveResult ==
    ASSUME NEW e \in Trackers, MapsInverse(e), Pumped(e), NEW key \in Keys
    PROVE  LET f == RemoveLimboTarget(e, key)
           IN  /\ f \in Trackers /\ MapsInverse(f) /\ Pumped(f)
               /\ f.refs = e.refs /\ f.rejected = e.rejected \ {key}
               /\ Resolving(f) = Resolving(e) \ {key}
<1> DEFINE q == Dequeue(e.queue, key)
           R == e.rejected \ {key}
<1>1. e.queue \in Seq(Keys) /\ R \in SUBSET Keys
  BY DEF Trackers
<1>2. /\ q \in Seq(Keys) /\ ToSet(q) = ToSet(e.queue) \ {key}
      /\ \A i, j \in DOMAIN q : q[i] = q[j] => i = j
      /\ Len(q) <= Len(e.queue)
      /\ key \notin ToSet(e.queue) => q = e.queue
  BY <1>1, DequeueResult DEF MapsInverse
<1>3. CASE key \in DOMAIN e.byKey
  <2>1. key \notin ToSet(e.queue)
    BY <1>3 DEF MapsInverse, ToSet
  <2>2. Forget(e, key) = Ended(e, key, R)
    <3>1. q = e.queue
      BY <1>2, <2>1
    <3>2. Forget(e, key) = [e EXCEPT !.queue = q, !.rejected = R,
                                     !.watched = e.watched \ {e.byKey[key]},
                                     !.byTarget = Erase(e.byTarget, e.byKey[key]),
                                     !.byKey = Erase(e.byKey, key)]
      BY <1>3 DEF Forget, Trackers
    <3> HIDE DEF q, R
    <3> QED
      BY <3>1, <3>2 DEF Ended, Trackers
  <2>3. RemoveLimboTarget(e, key) = PumpEnqueuedLimboResolutions(Ended(e, key, R))
    BY <1>3, <2>2 DEF RemoveLimboTarget
  <2> DEFINE g == Ended(e, key, R)
  <2>4. Unpumped(g) /\ g.refs = e.refs /\ g.rejected = R /\ Resolving(g) = Resolving(e) \ {key}
    <3>1. CanEnd(e, key, R)
      BY <1>1, <1>3 DEF CanEnd
    <3>2. HasEnded(g, e, key, R)
      BY <3>1, EndedResult
    <3> QED
      BY <3>2 DEF HasEnded
  <2> HIDE DEF g
  <2> QED
    BY <2>3, <2>4, PumpResult DEF SameLimbo, g
<1>4. CASE key \notin DOMAIN e.byKey
  <2> DEFINE g == [e EXCEPT !.queue = q, !.rejected = R]
  <2>1. RemoveLimboTarget(e, key) = g
    BY <1>4 DEF RemoveLimboTarget, Forget
  <2> HIDE DEF q, R
  <2>2. g \in Trackers /\ g.queue = q /\ g.byKey = e.byKey /\ g.byTarget = e.byTarget
        /\ g.watched = e.watched /\ g.refs = e.refs /\ g.rejected = R
    BY <1>1, <1>2 DEF Trackers
  <2> HIDE DEF g
  <2>3. MapsInverse(g)
    <3>1. \A i \in DOMAIN q : q[i] \notin DOMAIN e.byKey
      <4>1. \A i \in DOMAIN q : q[i] \in ToSet(e.queue)
        BY <1>2 DEF ToSet
      <4> QED
        BY <4>1 DEF ToSet, MapsInverse
    <3> QED
      BY <1>2, <2>2, <3>1 DEF MapsInverse
  <2>4. Pumped(g)
    <3>1. Active(g) = Active(e)
      BY <2>2 DEF Active
    <3>2. e.queue = <<>> => q = <<>>
      BY <1>1, <1>2
    <3> QED
      BY <2>2, <3>1, <3>2 DEF Pumped
  <2>5. Resolving(g) = Resolving(e) \ {key}
    BY <1>2, <1>4, <2>2 DEF Resolving
  <2> QED
    BY <2>1, <2>2, <2>3, <2>4, <2>5 DEF R
<1> QED
  BY <1>3, <1>4

-----------------------------------------------------------------------------
(* The references. *)

\* A reference is added: its key is resolved or waits.
LEMMA AddResult ==
    ASSUME NEW e \in Good, NEW key \in Keys, NEW t \in Targets
    PROVE  LET f == AddReference(e, key, t)
           IN  /\ f \in Good
               /\ f.refs = e.refs \cup {<<key, t>>}
               /\ Strays(f) \subseteq Strays(e) \ {key}
<1> DEFINE r == e.refs \cup {<<key, t>>}
           g == [e EXCEPT !.refs = r]
           f == TrackLimboChange(g, key)
<1>1. e \in Trackers /\ MapsInverse(e) /\ Pumped(e) /\ Covered(e)
  BY DEF Good
<1>2. AddReference(e, key, t) = f
  BY DEF AddReference
<1>3. r \in SUBSET (Keys \X Targets)
  BY <1>1 DEF Trackers
<1> HIDE DEF r
<1>4. g \in Trackers /\ g.queue = e.queue /\ g.byKey = e.byKey /\ g.byTarget = e.byTarget
      /\ g.watched = e.watched /\ g.refs = r /\ g.rejected = e.rejected
  BY <1>1, <1>3 DEF Trackers
<1> HIDE DEF g, f
<1>5. MapsInverse(g)
  BY <1>1, <1>4 DEF MapsInverse
<1>6. Pumped(g)
  BY <1>1, <1>4 DEF Pumped, Active
<1>7. Resolving(g) = Resolving(e)
  BY <1>4 DEF Resolving
<1>8. /\ f \in Trackers /\ MapsInverse(f) /\ Pumped(f)
      /\ f.refs = r /\ f.rejected = e.rejected
      /\ Resolving(f) = Resolving(e) \cup {key}
  BY <1>4, <1>5, <1>6, <1>7, TrackResult DEF f
<1>9. \A k : Referenced(f, k) <=> Referenced(e, k) \/ k = key
  <2>1. f.refs = e.refs \cup {<<key, t>>}
    BY <1>8 DEF r
  <2>2. <<key, t>> \in f.refs /\ <<key, t>>[1] = key
    BY <2>1
  <2>3. Referenced(f, key)
    BY <2>2 DEF Referenced
  <2>4. \A k : Referenced(e, k) => Referenced(f, k)
    BY <2>1 DEF Referenced
  <2>5. \A k : Referenced(f, k) => Referenced(e, k) \/ k = key
    BY <2>1 DEF Referenced
  <2> QED
    BY <2>3, <2>4, <2>5
<1>10. Covered(f)
  BY <1>1, <1>8, <1>9 DEF Covered
<1>11. Strays(f) \subseteq Strays(e) \ {key}
  BY <1>8, <1>9 DEF Strays
<1> QED
  BY <1>2, <1>8, <1>10, <1>11 DEF Good, r

\* A reference is removed: with the last one the resolution of its key ends.
LEMMA DropResult ==
    ASSUME NEW e \in Good, NEW key \in Keys, NEW t \in Targets
    PROVE  LET f == RemoveReference(e, key, t)
           IN  f \in Good /\ f.refs = e.refs \ {<<key, t>>} /\ Strays(f) \subseteq Strays(e) \ {key}
<1> DEFINE r == e.refs \ {<<key, t>>}
           g == [e EXCEPT !.refs = r]
           f == RemoveReference(e, key, t)
<1>1. e \in Trackers /\ MapsInverse(e) /\ Pumped(e) /\ Covered(e)
  BY DEF Good
<1>2. f = IF Referenced(g, key) THEN g ELSE RemoveLimboTarget(g, key)
  BY DEF RemoveReference
<1>3. r \in SUBSET (Keys \X Targets)
  BY <1>1 DEF Trackers
<1> HIDE DEF r
<1>4. g \in Trackers /\ g.queue = e.queue /\ g.byKey = e.byKey /\ g.byTarget = e.byTarget
      /\ g.watched = e.watched /\ g.refs = r /\ g.rejected = e.rejected
  BY <1>1, <1>3 DEF Trackers
<1> HIDE DEF g, f
<1>5. MapsInverse(g)
  BY <1>1, <1>4 DEF MapsInverse
<1>6. Pumped(g)
  BY <1>1, <1>4 DEF Pumped, Active
<1>7. Resolving(g) = Resolving(e)
  BY <1>4 DEF Resolving
<1>8. \A k : k # key => (Referenced(g, k) <=> Referenced(e, k))
  BY <1>4 DEF Referenced, r
<1>9. \A k : Referenced(g, k) => Referenced(e, k)
  BY <1>4 DEF Referenced, r
<1>10. CASE Referenced(g, key)
  <2>1. f = g
    BY <1>2, <1>10
  <2>2. Covered(g)
    BY <1>1, <1>4, <1>7, <1>9 DEF Covered
  <2>3. Strays(g) \subseteq Strays(e) \ {key}
    BY <1>7, <1>8, <1>10 DEF Strays
  <2> QED
    BY <1>4, <1>5, <1>6, <2>1, <2>2, <2>3 DEF Good, r, f
<1>11. CASE ~ Referenced(g, key)
  <2>1. /\ f \in Trackers /\ MapsInverse(f) /\ Pumped(f)
        /\ f.refs = r /\ f.rejected = e.rejected \ {key}
        /\ Resolving(f) = Resolving(e) \ {key}
    BY <1>2, <1>4, <1>5, <1>6, <1>7, <1>11, RemoveResult
  <2>2. \A k : Referenced(f, k) <=> Referenced(g, k)
    BY <1>4, <2>1 DEF Referenced
  <2>3. Covered(f)
    BY <1>1, <1>9, <1>11, <2>1, <2>2 DEF Covered
  <2>4. Strays(f) \subseteq Strays(e) \ {key}
    BY <1>8, <2>1, <2>2 DEF Strays
  <2> QED
    BY <2>1, <2>3, <2>4 DEF Good, r, f
<1> QED
  BY <1>10, <1>11

LimboDocumentChanges == [type : {"Added", "Removed"}, key : Keys]

\* ApplyLimboChange adds or removes a reference.
LEMMA ApplyUnfolds ==
    ASSUME NEW e, NEW t, NEW c
    PROVE  ApplyLimboChange(e, t, c) = IF c.type = "Added" THEN AddReference(e, c.key, t)
                                                           ELSE RemoveReference(e, c.key, t)
BY DEF ApplyLimboChange, Let

\* One change of a limbo document.
LEMMA ApplyResult ==
    ASSUME NEW e \in Good, NEW t \in Targets, NEW c \in LimboDocumentChanges
    PROVE  LET f == ApplyLimboChange(e, t, c)
           IN  /\ f \in Good
               /\ c.type = "Added" => f.refs = e.refs \cup {<<c.key, t>>}
               /\ c.type # "Added" => f.refs = e.refs \ {<<c.key, t>>}
               /\ Strays(f) \subseteq Strays(e) \ {c.key}
<1>1. c.key \in Keys
  BY DEF LimboDocumentChanges
<1>2. CASE c.type = "Added"
  <2>1. ApplyLimboChange(e, t, c) = AddReference(e, c.key, t)
    BY <1>2, ApplyUnfolds
  <2> DEFINE f == AddReference(e, c.key, t)
  <2>2. f \in Good /\ f.refs = e.refs \cup {<<c.key, t>>} /\ Strays(f) \subseteq Strays(e) \ {c.key}
    BY <1>1, AddResult
  <2> HIDE DEF f
  <2> QED
    BY <1>2, <2>1, <2>2 DEF f
<1>3. CASE c.type # "Added"
  <2>1. ApplyLimboChange(e, t, c) = RemoveReference(e, c.key, t)
    BY <1>3, ApplyUnfolds
  <2> DEFINE f == RemoveReference(e, c.key, t)
  <2>2. f \in Good /\ f.refs = e.refs \ {<<c.key, t>>} /\ Strays(f) \subseteq Strays(e) \ {c.key}
    BY <1>1, DropResult
  <2> HIDE DEF f
  <2> QED
    BY <1>3, <2>1, <2>2 DEF f
<1> QED
  BY <1>2, <1>3

\* The loop over the changes of a view runs through good trackers.
LEMMA UpdateRuns ==
    ASSUME NEW e \in Good, NEW t \in Targets, NEW s \in Seq(LimboDocumentChanges)
    PROVE  \E g \in [0..Len(s) -> Good] :
               /\ g[0] = e
               /\ \A i \in 1..Len(s) : g[i] = ApplyLimboChange(g[i - 1], t, s[i])
               /\ UpdateTrackedLimboDocuments(e, t, s) = g[Len(s)]
<1> DEFINE n == Len(s)
           F == [x \in (1..n) \X Good |-> ApplyLimboChange(x[2], t, s[x[1]])]
           Loop(h) == h = [i \in 0..n |-> IF i = 0 THEN e
                                          ELSE ApplyLimboChange(h[i - 1], t, s[i])]
           c == CHOOSE h : Loop(h)
<1>1. n \in Nat /\ \A i \in 1..n : s[i] \in LimboDocumentChanges
  OBVIOUS
<1>2. UpdateTrackedLimboDocuments(e, t, s) = c[n]
  BY DEF UpdateTrackedLimboDocuments
<1> HIDE DEF n
<1>3. ASSUME NEW i \in 1..n, NEW f \in Good
      PROVE  ApplyLimboChange(f, t, s[i]) \in Good
  BY <1>1, ApplyResult
<1>4. F \in [(1..n) \X Good -> Good]
  BY <1>3
<1>5. \A i \in 1..n, f \in Good : F[<<i, f>>] = ApplyLimboChange(f, t, s[i])
  OBVIOUS
<1> HIDE DEF F
<1>a. n \in Nat /\ e \in Good /\ IsBody(F, n, Good)
  BY <1>1, <1>4 DEF IsBody
<1>b. PICK g : IsRun(g, F, n, Good, e)
  BY <1>a, LoopRuns
<1>6. g \in [0..n -> Good] /\ g[0] = e /\ \A i \in 1..n : g[i] = F[<<i, g[i - 1]>>]
  BY <1>b DEF IsRun
<1>7. \A i \in 1..n : g[i] = ApplyLimboChange(g[i - 1], t, s[i])
  <2> SUFFICES ASSUME NEW i \in 1..n
               PROVE  g[i] = ApplyLimboChange(g[i - 1], t, s[i])
    OBVIOUS
  <2>1. g[i - 1] \in Good
    BY <1>1, <1>6
  <2> QED
    BY <1>5, <1>6, <2>1
<1>8. Loop(g)
  <2>1. \A i \in 0..n : g[i] = IF i = 0 THEN e ELSE ApplyLimboChange(g[i - 1], t, s[i])
    BY <1>1, <1>6, <1>7
  <2> QED
    BY <1>6, <2>1
<1>9. Loop(c)
  <2> HIDE DEF Loop
  <2> QED
    BY <1>8
<1> HIDE DEF c
<1>10. c[0] = e /\ (\A i \in 1..n : c[i] = ApplyLimboChange(c[i - 1], t, s[i])) /\ DOMAIN c = 0..n
  BY <1>1, <1>9
<1>11. \A i \in 0..n : c[i] \in Good
  <2> DEFINE G == {i \in 0..n : c[i] \in Good}
  <2>1. 0 \in G
    BY <1>1, <1>10
  <2>2. \A i \in 1..n : i - 1 \in G => i \in G
    BY <1>1, <1>3, <1>10
  <2>3. G \in SUBSET (0..n)
    OBVIOUS
  <2> HIDE DEF G
  <2>4. G = 0..n
    BY <1>1, <2>1, <2>2, <2>3, LoopInduction
  <2> QED
    BY <2>4 DEF G
<1>12. c \in [0..n -> Good]
  BY <1>9, <1>10, <1>11
<1> QED
  BY <1>2, <1>10, <1>12 DEF n

KeysOf(s) == {s[i].key : i \in 1..Len(s)}

\* The changes s add the keys in A and remove the others.
Adds(s, A) == \A i \in 1..Len(s) : s[i].type = "Added" <=> s[i].key \in A

\* From e to f the references of view t to the keys K became those in A, and no key of K
\* is resolved for nobody.
Updated(e, f, t, K, A) ==
    /\ f \in Good
    /\ \A r \in Keys \X Targets :
          r \in f.refs <=> IF r[2] = t /\ r[1] \in K THEN r[1] \in A ELSE r \in e.refs
    /\ Strays(f) \subseteq Strays(e) \ K

\* All changes of one view.
LEMMA UpdateResult ==
    ASSUME NEW e \in Good, NEW t \in Targets, NEW s \in Seq(LimboDocumentChanges), NEW A,
           Adds(s, A)
    PROVE  Updated(e, UpdateTrackedLimboDocuments(e, t, s), t, KeysOf(s), A)
<1> DEFINE n == Len(s)
           K(i) == {s[j].key : j \in 1..i}
           Refs(f, i) == \A r \in Keys \X Targets :
                   r \in f.refs <=> IF r[2] = t /\ r[1] \in K(i) THEN r[1] \in A ELSE r \in e.refs
           Done(f, i) == Refs(f, i) /\ Strays(f) \subseteq Strays(e) \ K(i)
<1>1. n \in Nat /\ \A i \in 1..n : s[i] \in LimboDocumentChanges
  OBVIOUS
<1>2. PICK g \in [0..n -> Good] :
               /\ g[0] = e
               /\ \A i \in 1..n : g[i] = ApplyLimboChange(g[i - 1], t, s[i])
               /\ UpdateTrackedLimboDocuments(e, t, s) = g[n]
  BY UpdateRuns
<1>3. \A i \in 1..n : s[i].type = "Added" <=> s[i].key \in A
  BY DEF Adds
<1> HIDE DEF n
<1>4. Done(g[0], 0)
  <2>1. K(0) = {}
    OBVIOUS
  <2> HIDE DEF K
  <2> QED
    BY <1>2, <2>1
<1>5. ASSUME NEW i \in 1..n, Done(g[i - 1], i - 1)
      PROVE  Done(g[i], i)
  <2> DEFINE k == s[i].key
             f == g[i - 1]
             h == g[i]
  <2>1. K(i) = K(i - 1) \cup {k}
    <3>1. 1..i = 1..(i - 1) \cup {i}
      BY <1>1
    <3> QED
      BY <3>1
  <2>2. f \in Good /\ h = ApplyLimboChange(f, t, s[i]) /\ s[i] \in LimboDocumentChanges
    BY <1>1, <1>2
  <2>3. /\ s[i].type = "Added" => h.refs = f.refs \cup {<<k, t>>}
        /\ s[i].type # "Added" => h.refs = f.refs \ {<<k, t>>}
        /\ Strays(h) \subseteq Strays(f) \ {k}
    BY <2>2, ApplyResult
  <2>4. Refs(f, i - 1) /\ Strays(f) \subseteq Strays(e) \ K(i - 1)
    BY <1>5
  <2>5. s[i].type = "Added" <=> k \in A
    BY <1>3
  <2> HIDE DEF K, k, f, h
  <2>6. Strays(h) \subseteq Strays(e) \ K(i)
    BY <2>1, <2>3, <2>4
  <2>7. ASSUME NEW r \in Keys \X Targets
        PROVE  r \in h.refs <=> IF r[2] = t /\ r[1] \in K(i) THEN r[1] \in A ELSE r \in e.refs
    <3>1. r \in f.refs <=> IF r[2] = t /\ r[1] \in K(i - 1) THEN r[1] \in A ELSE r \in e.refs
      BY <2>4
    <3>2. CASE r = <<k, t>>
      <4>1. r[1] = k /\ r[2] = t
        BY <3>2
      <4>2. r \in h.refs <=> k \in A
        BY <2>3, <2>5, <3>2
      <4> QED
        BY <2>1, <4>1, <4>2
    <3>3. CASE r # <<k, t>>
      <4>1. ~ (r[1] = k /\ r[2] = t)
        BY <3>3
      <4>2. r \in h.refs <=> r \in f.refs
        BY <2>3, <3>3
      <4> QED
        BY <2>1, <3>1, <4>1, <4>2
    <3> QED
      BY <3>2, <3>3
  <2> QED
    BY <2>6, <2>7 DEF h
<1>6. Done(g[n], n)
  <2> DEFINE G == {i \in 0..n : Done(g[i], i)}
  <2> HIDE DEF Done
  <2>1. 0 \in G
    BY <1>1, <1>4
  <2>2. ASSUME NEW i \in 1..n, i - 1 \in G
        PROVE  i \in G
    <3>1. Done(g[i - 1], i - 1)
      BY <2>2
    <3>2. Done(g[i], i)
      BY <1>5, <3>1
    <3> QED
      BY <1>1, <3>2
  <2>3. G \in SUBSET (0..n)
    OBVIOUS
  <2> HIDE DEF G
  <2>4. G = 0..n
    BY <1>1, <2>1, <2>2, <2>3, LoopInduction
  <2>5. n \in G
    BY <1>1, <2>4
  <2> QED
    BY <2>5 DEF G
<1>7. g[n] \in Good
  BY <1>1, <1>2
<1>8. KeysOf(s) = K(n)
  BY DEF KeysOf, n
<1> HIDE DEF K
<1> QED
  BY <1>2, <1>6, <1>7, <1>8 DEF Updated

-----------------------------------------------------------------------------
(* The changes of the views. *)

\* Of a finite set of numbers, each is the one with its number of smaller ones, and all
\* the numbers below the cardinality occur.
LEMMA Ranks ==
    ASSUME NEW K \in SUBSET Nat, IsFiniteSet(K)
    PROVE  LET Rank(k) == Cardinality({j \in K : j < k})
           IN  /\ \A k, l \in K : Rank(k) = Rank(l) => k = l
               /\ \A k \in K : Rank(k) + 1 \in 1..Cardinality(K)
               /\ \A i \in 1..Cardinality(K) : \E k \in K : Rank(k) = i - 1
<1> DEFINE Below(k) == {j \in K : j < k}
           Rank(k) == Cardinality(Below(k))
           n == Cardinality(K)
           R == [k \in K |-> Rank(k)]
<1>1. n \in Nat
  BY FS_CardinalityType
<1>2. ASSUME NEW k \in K
      PROVE  IsFiniteSet(Below(k)) /\ Rank(k) \in Nat /\ Rank(k) <= n - 1
  <2>1. IsFiniteSet(K \ {k}) /\ Cardinality(K \ {k}) = n - 1
    BY FS_RemoveElement
  <2>2. Below(k) \in SUBSET (K \ {k})
    OBVIOUS
  <2> HIDE DEF Below, n
  <2>3. IsFiniteSet(Below(k)) /\ Cardinality(Below(k)) <= Cardinality(K \ {k})
    BY <2>1, <2>2, FS_Subset
  <2>4. Cardinality(Below(k)) \in Nat
    BY <2>3, FS_CardinalityType
  <2> QED
    BY <2>1, <2>3, <2>4
<1>3. ASSUME NEW k \in K, NEW l \in K, k < l
      PROVE  Rank(k) < Rank(l)
  <2>a. k \in Nat /\ l \in Nat /\ ~ (k < k)
    OBVIOUS
  <2>b. ASSUME NEW j \in K, j < k
        PROVE  j < l
    <3>1. j \in Nat
      OBVIOUS
    <3> QED
      BY <1>3, <2>a, <2>b, <3>1
  <2>1. Below(k) \cup {k} \in SUBSET Below(l) /\ k \notin Below(k)
    BY <1>3, <2>a, <2>b
  <2> HIDE DEF Below
  <2>2. Cardinality(Below(k) \cup {k}) = Cardinality(Below(k)) + 1
    BY <1>2, <2>1, FS_AddElement
  <2>3. Cardinality(Below(k) \cup {k}) <= Cardinality(Below(l))
    BY <1>2, <2>1, FS_Subset
  <2>4. Cardinality(Below(k)) \in Nat /\ Cardinality(Below(l)) \in Nat
    BY <1>2
  <2> QED
    BY <2>2, <2>3, <2>4
<1>4. \A k, l \in K : Rank(k) = Rank(l) => k = l
  <2> SUFFICES ASSUME NEW k \in K, NEW l \in K, k # l
               PROVE  Rank(k) # Rank(l)
    OBVIOUS
  <2>1. k < l \/ l < k
    OBVIOUS
  <2>2. Rank(k) < Rank(l) \/ Rank(l) < Rank(k)
    BY <1>3, <2>1
  <2>3. Rank(k) \in Nat /\ Rank(l) \in Nat
    BY <1>2
  <2> HIDE DEF Rank
  <2> QED
    BY <2>2, <2>3
<1> HIDE DEF Rank, n
<1>a. ASSUME NEW k \in K
      PROVE  Rank(k) \in 0..(n - 1) /\ Rank(k) + 1 \in 1..n
  <2>1. Rank(k) \in Nat /\ Rank(k) <= n - 1
    BY <1>2
  <2> QED
    BY <1>1, <2>1
<1>5. R \in Injection(K, 0..(n - 1))
  <2>1. R \in [K -> 0..(n - 1)]
    BY <1>a
  <2>2. \A k, l \in K : R[k] = R[l] => k = l
    BY <1>4
  <2> QED
    BY <2>1, <2>2 DEF Injection, IsInjective
<1>6. IsFiniteSet(0..(n - 1)) /\ Cardinality(0..(n - 1)) = n
  BY <1>1, FS_Interval
<1>7. R \in Surjection(K, 0..(n - 1))
  <2>1. Cardinality(K) = Cardinality(0..(n - 1))
    BY <1>6 DEF n
  <2> HIDE DEF R
  <2> QED
    BY <1>5, <1>6, <2>1, FS_Injection
<1>8. ASSUME NEW i \in 1..n
      PROVE  \E k \in K : Rank(k) = i - 1
  <2>1. i - 1 \in 0..(n - 1)
    BY <1>1
  <2>2. PICK k \in K : R[k] = i - 1
    BY <1>7, <2>1 DEF Surjection
  <2> QED
    BY <2>2
<1>9. \A k \in K : Rank(k) + 1 \in 1..n
  BY <1>a
<1> QED
  BY <1>4, <1>8, <1>9 DEF Rank, n

\* Changes lists each key once, with its type.
LEMMA ChangesResult ==
    ASSUME NEW K \in SUBSET Keys, NEW type \in {"Added", "Removed"}
    PROVE  LET s == Changes(type, K)
           IN  /\ s \in Seq(LimboDocumentChanges)
               /\ Len(s) = Cardinality(K)
               /\ \A i \in 1..Len(s) : s[i].type = type
               /\ {s[i].key : i \in 1..Len(s)} = K
<1> DEFINE n == Cardinality(K)
           Rank(k) == Cardinality({j \in K : j < k})
           At(i) == CHOOSE k \in K : Rank(k) = i - 1
           s == Changes(type, K)
<1>1. IsFiniteSet(K) /\ n \in Nat /\ K \in SUBSET Nat
  BY FS_Subset, FS_CardinalityType
<1>2. /\ \A k, l \in K : Rank(k) = Rank(l) => k = l
      /\ \A k \in K : Rank(k) + 1 \in 1..n
      /\ \A i \in 1..n : \E k \in K : Rank(k) = i - 1
  BY <1>1, Ranks
<1>3. s = [i \in 1..n |-> [type |-> type, key |-> At(i)]]
  BY DEF Changes
<1>a. \A k \in K : Rank(k) \in Nat
  <2> SUFFICES ASSUME NEW k \in K
               PROVE  Rank(k) \in Nat
    OBVIOUS
  <2>1. {j \in K : j < k} \in SUBSET K
    OBVIOUS
  <2>2. IsFiniteSet({j \in K : j < k})
    BY <1>1, <2>1, FS_Subset
  <2> QED
    BY <2>2, FS_CardinalityType
<1> HIDE DEF n, Rank, s
<1>4. \A i \in 1..n : At(i) \in K /\ Rank(At(i)) = i - 1
  BY <1>2
<1>5. \A k \in K : At(Rank(k) + 1) = k
  <2> SUFFICES ASSUME NEW k \in K
               PROVE  At(Rank(k) + 1) = k
    OBVIOUS
  <2> DEFINE i == Rank(k) + 1
  <2>1. i \in 1..n /\ i - 1 = Rank(k)
    BY <1>a, <1>2
  <2> HIDE DEF i
  <2>2. At(i) \in K /\ Rank(At(i)) = Rank(k)
    BY <1>4, <2>1
  <2> HIDE DEF At
  <2>3. At(i) = k
    BY <1>2, <2>2
  <2> QED
    BY <2>3 DEF i
<1> HIDE DEF At
<1>6. \A i \in 1..n : s[i] = [type |-> type, key |-> At(i)]
  BY <1>3
<1>7. \A i \in 1..n : s[i] \in LimboDocumentChanges /\ s[i].type = type /\ s[i].key = At(i)
  <2> SUFFICES ASSUME NEW i \in 1..n
               PROVE  s[i] \in LimboDocumentChanges /\ s[i].type = type /\ s[i].key = At(i)
    OBVIOUS
  <2>1. s[i] = [type |-> type, key |-> At(i)] /\ At(i) \in Keys
    BY <1>4, <1>6
  <2> QED
    BY <2>1 DEF LimboDocumentChanges
<1>8. s \in Seq(LimboDocumentChanges) /\ Len(s) = n
  BY <1>1, <1>3, <1>7
<1>9. {s[i].key : i \in 1..n} = K
  <2>1. \A i \in 1..n : s[i].key \in K
    BY <1>4, <1>7
  <2>2. ASSUME NEW k \in K
        PROVE  \E i \in 1..n : s[i].key = k
    <3>1. Rank(k) + 1 \in 1..n
      BY <1>2
    <3>2. s[Rank(k) + 1].key = k
      BY <1>5, <1>7, <3>1
    <3> QED
      BY <3>1, <3>2
  <2> QED
    BY <2>1, <2>2
<1> QED
  BY <1>7, <1>8, <1>9 DEF n, s

\* LimboChanges removes what left limbo and adds what entered it.
LEMMA LimboChangesResult ==
    ASSUME NEW old \in SUBSET Keys, NEW new \in SUBSET Keys
    PROVE  LET s == LimboChanges(old, new)
           IN  /\ s \in Seq(LimboDocumentChanges)
               /\ \A i \in 1..Len(s) : s[i].type = "Added" <=> s[i].key \in new \ old
               /\ {s[i].key : i \in 1..Len(s)} = (old \ new) \cup (new \ old)
<1> DEFINE a == Changes("Removed", old \ new)
           b == Changes("Added", new \ old)
           s == a \o b
           m == Len(a)
           n == Len(b)
<1>1. /\ a \in Seq(LimboDocumentChanges)
      /\ \A i \in 1..m : a[i].type = "Removed"
      /\ {a[i].key : i \in 1..m} = old \ new
  BY ChangesResult
<1>2. /\ b \in Seq(LimboDocumentChanges)
      /\ \A i \in 1..n : b[i].type = "Added"
      /\ {b[i].key : i \in 1..n} = new \ old
  BY ChangesResult
<1>3. LimboChanges(old, new) = s
  BY DEF LimboChanges
<1> HIDE DEF a, b
<1>4. m \in Nat /\ n \in Nat
  BY <1>1, <1>2
<1>5. /\ s \in Seq(LimboDocumentChanges) /\ Len(s) = m + n
      /\ \A i \in 1..(m + n) : s[i] = IF i <= m THEN a[i] ELSE b[i - m]
  BY <1>1, <1>2, ConcatProperties
<1> HIDE DEF s, m, n
<1>6. \A i \in 1..m : i \in 1..(m + n) /\ s[i] = a[i]
  BY <1>4, <1>5
<1>7. \A i \in 1..n : m + i \in 1..(m + n) /\ s[m + i] = b[i]
  <2> SUFFICES ASSUME NEW i \in 1..n
               PROVE  m + i \in 1..(m + n) /\ s[m + i] = b[i]
    OBVIOUS
  <2>1. m + i \in 1..(m + n) /\ ~ (m + i <= m) /\ (m + i) - m = i
    BY <1>4
  <2> QED
    BY <1>5, <2>1
<1>8. \A i \in 1..(m + n) : (i \in 1..m /\ s[i] = a[i]) \/ (i - m \in 1..n /\ s[i] = b[i - m])
  BY <1>4, <1>5
<1>9. \A i \in 1..m : a[i].key \in old \ new
  BY <1>1
<1>10. \A i \in 1..n : b[i].key \in new \ old
  BY <1>2
<1>11. \A i \in 1..(m + n) : s[i].type = "Added" <=> s[i].key \in new \ old
  BY <1>1, <1>2, <1>8, <1>9, <1>10
<1>12. {s[i].key : i \in 1..(m + n)} = (old \ new) \cup (new \ old)
  <2>1. \A i \in 1..(m + n) : s[i].key \in (old \ new) \cup (new \ old)
    BY <1>8, <1>9, <1>10
  <2>2. ASSUME NEW k \in old \ new
        PROVE  \E i \in 1..(m + n) : s[i].key = k
    <3>1. PICK i \in 1..m : a[i].key = k
      BY <1>1
    <3> QED
      BY <1>6, <3>1
  <2>3. ASSUME NEW k \in new \ old
        PROVE  \E i \in 1..(m + n) : s[i].key = k
    <3>1. PICK i \in 1..n : b[i].key = k
      BY <1>2
    <3> QED
      BY <1>7, <3>1
  <2> QED
    BY <2>1, <2>2, <2>3
<1> QED
  BY <1>3, <1>5, <1>11, <1>12

\* The keys that enter or leave limbo in view t.
Moving(t, old, new) == (old[t] \ new[t]) \cup (new[t] \ old[t])

\* The limbo documents of t change from old[t] to new[t] in the tracker.
LEMMA TrackViewResult ==
    ASSUME NEW e \in Good, NEW t \in Targets,
           NEW old \in [Targets -> SUBSET Keys], NEW new \in [Targets -> SUBSET Keys]
    PROVE  Updated(e, TrackView(e, t, old, new), t, Moving(t, old, new), new[t] \ old[t])
<1> DEFINE s == LimboChanges(old[t], new[t])
           A == new[t] \ old[t]
<1>1. TrackView(e, t, old, new) = UpdateTrackedLimboDocuments(e, t, s)
  BY DEF TrackView, Let
<1>2. old[t] \in SUBSET Keys /\ new[t] \in SUBSET Keys
  OBVIOUS
<1>3. /\ s \in Seq(LimboDocumentChanges)
      /\ \A i \in 1..Len(s) : s[i].type = "Added" <=> s[i].key \in new[t] \ old[t]
      /\ {s[i].key : i \in 1..Len(s)} = (old[t] \ new[t]) \cup (new[t] \ old[t])
  BY <1>2, LimboChangesResult
<1> HIDE DEF s
<1>4. s \in Seq(LimboDocumentChanges) /\ Adds(s, A) /\ KeysOf(s) = Moving(t, old, new)
  BY <1>3 DEF Adds, KeysOf, Moving
<1> HIDE DEF A
<1>5. Updated(e, UpdateTrackedLimboDocuments(e, t, s), t, KeysOf(s), A)
  BY <1>4, UpdateResult
<1> QED
  BY <1>1, <1>4, <1>5 DEF A

\* The loop over the views.
ViewsRun(g, e, v, old, new) ==
    /\ g \in [0..Len(v) -> Good]
    /\ g[0] = e
    /\ \A i \in 1..Len(v) : g[i] = TrackView(g[i - 1], v[i], old, new)
    /\ TrackViews(e, v, old, new) = g[Len(v)]

\* The loop over the views runs through good trackers.
LEMMA TrackViewsRuns ==
    ASSUME NEW e \in Good, NEW v \in Seq(Targets),
           NEW old \in [Targets -> SUBSET Keys], NEW new \in [Targets -> SUBSET Keys]
    PROVE  \E g : ViewsRun(g, e, v, old, new)
<1> DEFINE n == Len(v)
           F == [x \in (1..n) \X Good |-> TrackView(x[2], v[x[1]], old, new)]
           Loop(h) == h = [i \in 0..n |-> IF i = 0 THEN e
                                          ELSE TrackView(h[i - 1], v[i], old, new)]
           c == CHOOSE h : Loop(h)
<1>1. n \in Nat /\ \A i \in 1..n : v[i] \in Targets
  OBVIOUS
<1>2. TrackViews(e, v, old, new) = c[n]
  BY DEF TrackViews
<1> HIDE DEF n
<1>3. ASSUME NEW i \in 1..n, NEW f \in Good
      PROVE  TrackView(f, v[i], old, new) \in Good
  <2>1. Updated(f, TrackView(f, v[i], old, new), v[i], Moving(v[i], old, new),
                new[v[i]] \ old[v[i]])
    BY <1>1, TrackViewResult
  <2> QED
    BY <2>1 DEF Updated
<1>4. F \in [(1..n) \X Good -> Good]
  BY <1>3
<1>5. \A i \in 1..n, f \in Good : F[<<i, f>>] = TrackView(f, v[i], old, new)
  OBVIOUS
<1> HIDE DEF F
<1>a. n \in Nat /\ e \in Good /\ IsBody(F, n, Good)
  BY <1>1, <1>4 DEF IsBody
<1>b. PICK g : IsRun(g, F, n, Good, e)
  BY <1>a, LoopRuns
<1>6. g \in [0..n -> Good] /\ g[0] = e /\ \A i \in 1..n : g[i] = F[<<i, g[i - 1]>>]
  BY <1>b DEF IsRun
<1>7. \A i \in 1..n : g[i] = TrackView(g[i - 1], v[i], old, new)
  <2> SUFFICES ASSUME NEW i \in 1..n
               PROVE  g[i] = TrackView(g[i - 1], v[i], old, new)
    OBVIOUS
  <2>1. g[i - 1] \in Good
    BY <1>1, <1>6
  <2> QED
    BY <1>5, <1>6, <2>1
<1>8. Loop(g)
  <2>1. \A i \in 0..n : g[i] = IF i = 0 THEN e ELSE TrackView(g[i - 1], v[i], old, new)
    BY <1>1, <1>6, <1>7
  <2> QED
    BY <1>6, <2>1
<1>9. Loop(c)
  <2> HIDE DEF Loop
  <2> QED
    BY <1>8
<1> HIDE DEF c
<1>10. c[0] = e /\ (\A i \in 1..n : c[i] = TrackView(c[i - 1], v[i], old, new)) /\ DOMAIN c = 0..n
  BY <1>1, <1>9
<1>11. \A i \in 0..n : c[i] \in Good
  <2> DEFINE G == {i \in 0..n : c[i] \in Good}
  <2>1. 0 \in G
    BY <1>1, <1>10
  <2>2. ASSUME NEW i \in 1..n, i - 1 \in G
        PROVE  i \in G
    <3>1. c[i - 1] \in Good
      BY <2>2
    <3>2. TrackView(c[i - 1], v[i], old, new) \in Good
      BY <1>3, <3>1
    <3>3. c[i] \in Good /\ i \in 0..n
      BY <1>1, <1>10, <3>2
    <3> QED
      BY <3>3
  <2>3. G \in SUBSET (0..n)
    OBVIOUS
  <2> HIDE DEF G
  <2>4. G = 0..n
    BY <1>1, <2>1, <2>2, <2>3, LoopInduction
  <2> QED
    BY <2>4 DEF G
<1>12. c \in [0..n -> Good]
  BY <1>9, <1>10, <1>11
<1>13. ViewsRun(c, e, v, old, new)
  BY <1>2, <1>10, <1>12 DEF n, ViewsRun
<1> QED
  BY <1>13

\* The references of the tracker e are the limbo documents l.
RefsAre(e, l) == \A key \in Keys, t \in Targets : <<key, t>> \in e.refs <=> key \in l[t]

\* When the views v are walked, the tracker follows them from the limbo documents old to
\* new, and nothing is resolved for nobody.
LEMMA TrackViewsResult ==
    ASSUME NEW e \in Good, Strays(e) = {}, NEW v \in Seq(Targets),
           NEW old \in [Targets -> SUBSET Keys], NEW new \in [Targets -> SUBSET Keys],
           RefsAre(e, old), \A t \in Targets \ ToSet(v) : new[t] = old[t]
    PROVE  LET f == TrackViews(e, v, old, new)
           IN  f \in Good /\ Strays(f) = {} /\ RefsAre(f, new)
<1> DEFINE n == Len(v)
           V(i) == {v[j] : j \in 1..i}
           Between(f, i) == \A key \in Keys, t \in Targets :
               <<key, t>> \in f.refs <=> key \in IF t \in V(i) THEN new[t] ELSE old[t]
           Done(f, i) == Strays(f) = {} /\ Between(f, i)
<1>1. n \in Nat /\ (\A i \in 1..n : v[i] \in Targets) /\ ToSet(v) = V(n)
  BY DEF ToSet
<1>2. PICK g \in [0..n -> Good] :
               /\ g[0] = e
               /\ \A i \in 1..n : g[i] = TrackView(g[i - 1], v[i], old, new)
               /\ TrackViews(e, v, old, new) = g[n]
  <2>1. PICK g : ViewsRun(g, e, v, old, new)
    BY TrackViewsRuns
  <2> QED
    BY <2>1 DEF ViewsRun
<1> HIDE DEF n
<1>4. Done(g[0], 0)
  <2>1. V(0) = {}
    OBVIOUS
  <2> HIDE DEF V
  <2> QED
    BY <1>2, <2>1 DEF RefsAre
<1>5. ASSUME NEW i \in 1..n, Done(g[i - 1], i - 1)
      PROVE  Done(g[i], i)
  <2> DEFINE u == v[i]
             f == g[i - 1]
             h == g[i]
             K == Moving(u, old, new)
  <2>1. V(i) = V(i - 1) \cup {u}
    <3>1. 1..i = 1..(i - 1) \cup {i}
      BY <1>1
    <3> QED
      BY <3>1
  <2>2. f \in Good /\ h = TrackView(f, u, old, new) /\ u \in Targets
    BY <1>1, <1>2
  <2>3. /\ Strays(h) \subseteq Strays(f)
        /\ \A r \in Keys \X Targets :
              r \in h.refs <=> IF r[2] = u /\ r[1] \in K THEN r[1] \in new[u] \ old[u]
                               ELSE r \in f.refs
    <3>1. Updated(f, TrackView(f, u, old, new), u, K, new[u] \ old[u])
      BY <2>2, TrackViewResult
    <3> HIDE DEF f, h, u, K
    <3> QED
      BY <2>2, <3>1 DEF Updated
  <2>4. Between(f, i - 1) /\ Strays(f) = {}
    BY <1>5
  <2> HIDE DEF V, u, f, h
  <2>5. ASSUME NEW key \in Keys, NEW t \in Targets
        PROVE  <<key, t>> \in h.refs <=> key \in IF t \in V(i) THEN new[t] ELSE old[t]
    <3>1. <<key, t>> \in f.refs <=> key \in IF t \in V(i - 1) THEN new[t] ELSE old[t]
      BY <2>4
    <3>2. <<key, t>> \in h.refs <=> IF t = u /\ key \in K THEN key \in new[u] \ old[u]
                                    ELSE <<key, t>> \in f.refs
      BY <2>3
    <3>3. CASE t = u
      <4>1. t \in V(i)
        BY <2>1, <3>3
      <4>2. key \in K <=> ~ (key \in new[t] <=> key \in old[t])
        BY <3>3 DEF Moving
      <4> HIDE DEF K
      <4>3. CASE key \in K
        BY <3>2, <3>3, <4>1, <4>2, <4>3
      <4>4. CASE key \notin K
        BY <3>1, <3>2, <3>3, <4>1, <4>2, <4>4
      <4> QED
        BY <4>3, <4>4
    <3>4. CASE t # u
      BY <2>1, <3>1, <3>2, <3>4
    <3> QED
      BY <3>3, <3>4
  <2> QED
    BY <2>3, <2>4, <2>5 DEF h
<1>6. Done(g[n], n)
  <2> DEFINE G == {i \in 0..n : Done(g[i], i)}
  <2> HIDE DEF Done
  <2>1. 0 \in G
    BY <1>1, <1>4
  <2>2. ASSUME NEW i \in 1..n, i - 1 \in G
        PROVE  i \in G
    <3>1. Done(g[i - 1], i - 1)
      BY <2>2
    <3>2. Done(g[i], i)
      BY <1>5, <3>1
    <3> QED
      BY <1>1, <3>2
  <2>3. G \in SUBSET (0..n)
    OBVIOUS
  <2> HIDE DEF G
  <2>4. G = 0..n
    BY <1>1, <2>1, <2>2, <2>3, LoopInduction
  <2>5. n \in G
    BY <1>1, <2>4
  <2> QED
    BY <2>5 DEF G
<1>7. g[n] \in Good
  BY <1>1, <1>2
<1>8. ASSUME NEW key \in Keys, NEW t \in Targets
      PROVE  <<key, t>> \in g[n].refs <=> key \in new[t]
  <2> HIDE DEF V
  <2>1. <<key, t>> \in g[n].refs <=> key \in IF t \in V(n) THEN new[t] ELSE old[t]
    BY <1>6
  <2>2. t \notin V(n) => new[t] = old[t]
    BY <1>1
  <2> QED
    BY <2>1, <2>2
<1> QED
  BY <1>2, <1>6, <1>7, <1>8 DEF RefsAre

-----------------------------------------------------------------------------
(* The steps that change the tracker. *)

\* The order in which the views are walked reaches each of them.
LEMMA ViewOrder ==
    ASSUME NEW S, IsFiniteSet(S)
    PROVE  SetToSeq(S) \in Seq(S) /\ ToSet(SetToSeq(S)) = S
<1> DEFINE n == Cardinality(S)
           f == SetToSeq(S)
           R == {f[a] : a \in 1..n}
<1>1. n \in Nat /\ ExistsBijection(1..n, S)
  BY FS_CardinalityType, Zenon
<1>2. \E g \in [1..n -> S] : IsInjective(g)
  BY <1>1 DEF ExistsBijection, Bijection, Injection
<1>3. f \in [1..n -> S] /\ IsInjective(f)
  BY <1>2 DEF SetToSeq
<1> HIDE DEF f
<1>4. ExistsBijection(1..n, R)
  <2>1. f \in [1..n -> R] /\ DOMAIN f = 1..n
    BY <1>3
  <2>2. f \in Bijection(1..n, R)
    BY <1>3, <2>1 DEF Bijection, Injection, Surjection
  <2> QED
    BY <2>2 DEF ExistsBijection
<1>5. Cardinality(R) = n
  <2>1. IsFiniteSet(1..n) /\ Cardinality(1..n) = n
    <3> HIDE DEF n
    <3> QED
      BY <1>1, FS_Interval
  <2> QED
    BY <1>4, <2>1, FS_Bijection, Zenon
<1>6. R \in SUBSET S
  BY <1>3
<1>7. R = S
  BY <1>5, <1>6, FS_Subset, Zenon
<1>8. f \in Seq(S) /\ DOMAIN f = 1..n
  <2> HIDE DEF n
  <2> QED
    BY <1>1, <1>3
<1> QED
  BY <1>3, <1>7, <1>8 DEF ToSet, f

\* The tracker e with other references and another progress of its resolutions.
With(e, refs, byTarget) == [e EXCEPT !.refs = refs, !.byTarget = byTarget]

SameKeys(e, byTarget) ==
    /\ byTarget \in [e.watched -> Resolutions]
    /\ \A id \in e.watched : byTarget[id].key = e.byTarget[id].key

\* Fewer references and other progress of the same resolutions leave a good tracker.
LEMMA WithResult ==
    ASSUME NEW e \in Good, NEW refs \in SUBSET e.refs, NEW byTarget, SameKeys(e, byTarget)
    PROVE  LET f == With(e, refs, byTarget)
           IN  /\ f \in Good
               /\ f.refs = refs
               /\ Resolving(f) = Resolving(e)
<1> DEFINE f == With(e, refs, byTarget)
<1> /\ byTarget \in [e.watched -> Resolutions]
    /\ \A id \in e.watched : byTarget[id].key = e.byTarget[id].key
  BY DEF SameKeys
<1>1. e \in Trackers /\ MapsInverse(e) /\ Pumped(e) /\ Covered(e)
  BY DEF Good
<1>2. e.watched \in SUBSET Nat /\ byTarget \in Maps(Nat, Resolutions)
  BY <1>1 DEF Trackers, Maps
<1>3. refs \in SUBSET (Keys \X Targets)
  BY <1>1 DEF Trackers
<1>4. /\ f \in Trackers /\ f.queue = e.queue /\ f.byKey = e.byKey /\ f.byTarget = byTarget
      /\ f.watched = e.watched /\ f.refs = refs /\ f.rejected = e.rejected
  BY <1>1, <1>2, <1>3 DEF Trackers, With
<1> HIDE DEF f
<1>5. MapsInverse(f)
  <2>1. DOMAIN f.byTarget = f.watched
    BY <1>4
  <2>2. \A key \in DOMAIN f.byKey : f.byKey[key] \in f.watched
                                    /\ f.byTarget[f.byKey[key]].key = key
    BY <1>1, <1>4 DEF MapsInverse
  <2>3. \A id \in f.watched : f.byTarget[id].key \in DOMAIN f.byKey
                              /\ f.byKey[f.byTarget[id].key] = id
    BY <1>1, <1>4 DEF MapsInverse
  <2>4. /\ \A i, j \in DOMAIN f.queue : f.queue[i] = f.queue[j] => i = j
        /\ \A i \in DOMAIN f.queue : f.queue[i] \notin DOMAIN f.byKey
    BY <1>1, <1>4 DEF MapsInverse
  <2> QED
    BY <2>1, <2>2, <2>3, <2>4 DEF MapsInverse
<1>6. Pumped(f)
  BY <1>1, <1>4 DEF Pumped, Active
<1>7. Resolving(f) = Resolving(e)
  BY <1>4 DEF Resolving
<1>8. Covered(f)
  <2>1. \A key : Referenced(f, key) => Referenced(e, key)
    BY <1>4 DEF Referenced
  <2> QED
    BY <1>1, <1>4, <1>7, <2>1 DEF Covered
<1> QED
  BY <1>4, <1>5, <1>6, <1>7, <1>8 DEF Good, f

\* What the rest of the invariant needs of a step.
TrackerInv ==
    /\ tracker \in Good
    /\ Strays(tracker) = {}
    /\ RefsAgree

\* Emitting snapshots keeps the tracker in step with the views.
LEMMA EmitResult ==
    ASSUME Inv, NEW reset, NEW e \in Good, Strays(e) = {}, e.refs = tracker.refs,
           EmitNewSnapshots(reset, e), UNCHANGED listening
    PROVE  /\ limbo' \in [Targets -> SUBSET Keys]
           /\ syncState' \in [Targets -> {"None", "Local", "Synced"}]
           /\ IsFiniteSet(listening)'
           /\ TrackerInv'
<1>1. /\ listening \subseteq Targets /\ IsFiniteSet(listening)
      /\ limbo \in [Targets -> SUBSET Keys]
      /\ syncState \in [Targets -> {"None", "Local", "Synced"}]
  BY DEF Inv, TypeOK
<1>2. \A t \in Targets : UpdateLimboDocuments(t) \in SUBSET Keys
  BY <1>1 DEF UpdateLimboDocuments, LimboDocuments
<1>3. /\ limbo' \in [Targets -> SUBSET Keys]
      /\ \A t \in Targets \ listening : limbo'[t] = limbo[t]
  BY <1>1, <1>2 DEF EmitNewSnapshots
<1>4. \A t \in Targets : SyncState(t, reset) \in {"Local", "Synced"}
  BY DEF SyncState
<1>5. syncState' \in [Targets -> {"None", "Local", "Synced"}]
  BY <1>1, <1>4 DEF EmitNewSnapshots
<1> DEFINE v == SetToSeq(listening)
<1>6. v \in Seq(Targets) /\ ToSet(v) = listening
  <2>1. v \in Seq(listening) /\ ToSet(v) = listening
    BY <1>1, ViewOrder
  <2> QED
    BY <1>1, <2>1
<1>7. tracker' = TrackViews(e, v, limbo, limbo')
  BY DEF EmitNewSnapshots
<1> HIDE DEF v
<1>8. RefsAre(e, limbo)
  BY DEF Inv, RefsAgree, RefsAre
<1>9. tracker' \in Good /\ Strays(tracker') = {} /\ RefsAre(tracker', limbo')
  BY <1>1, <1>3, <1>6, <1>7, <1>8, TrackViewsResult
<1>10. RefsAgree'
  <2>1. \A t \in Targets \ listening' : limbo'[t] = {}
    BY <1>3 DEF Inv, RefsAgree
  <2> QED
    BY <1>9, <2>1 DEF RefsAre, RefsAgree
<1>11. Strays(tracker)' = {}
  BY <1>9 DEF Strays, Resolving, Referenced
<1> QED
  BY <1>1, <1>3, <1>5, <1>9, <1>10, <1>11 DEF TrackerInv

\* Dropping a view removes what it references and what is then resolved for nobody.
LEMMA CleanupResult ==
    ASSUME NEW e \in Good, Strays(e) = {}, NEW t \in Targets
    PROVE  LET f == RemoveAndCleanupTarget(e, t)
           IN  /\ f \in Good
               /\ Strays(f) = {}
               /\ \A key \in Keys, u \in Targets :
                     <<key, u>> \in f.refs <=> <<key, u>> \in e.refs /\ u # t
<1> DEFINE refs == {r \in e.refs : r[2] # t}
           g == [e EXCEPT !.refs = refs]
           K == {key \in Keys : <<key, t>> \in e.refs}
           s == Changes("Removed", K)
           f == UpdateTrackedLimboDocuments(g, t, s)
<1>1. RemoveAndCleanupTarget(e, t) = f
  BY DEF RemoveAndCleanupTarget
<1>2. g \in Good /\ g.refs = refs /\ Resolving(g) = Resolving(e)
  <2> HIDE DEF refs
  <2>1. /\ e \in Trackers
        /\ e.byTarget \in [e.watched -> Resolutions]
    BY DEF Good, Trackers, Maps, MapsInverse
  <2>2. g = With(e, refs, e.byTarget)
    BY <2>1 DEF Trackers, With
  <2>3. refs \in SUBSET e.refs /\ SameKeys(e, e.byTarget)
    BY <2>1 DEF refs, SameKeys
  <2> HIDE DEF g
  <2> QED
    BY <2>2, <2>3, WithResult
<1>3. /\ s \in Seq(LimboDocumentChanges)
      /\ \A i \in 1..Len(s) : s[i].type = "Removed"
      /\ {s[i].key : i \in 1..Len(s)} = K
  <2>1. K \in SUBSET Keys
    OBVIOUS
  <2> HIDE DEF K
  <2> QED
    BY <2>1, ChangesResult
<1> HIDE DEF s
<1>4. Adds(s, {}) /\ KeysOf(s) = K
  BY <1>3 DEF Adds, KeysOf
<1> HIDE DEF g
<1>5. Updated(g, f, t, K, {})
  <2>1. Updated(g, f, t, KeysOf(s), {})
    <3> DEFINE A == {}
    <3> HIDE DEF A, f, K
    <3>1. Adds(s, A)
      BY <1>4 DEF A
    <3>2. Updated(g, UpdateTrackedLimboDocuments(g, t, s), t, KeysOf(s), A)
      BY <1>2, <1>3, <3>1, UpdateResult
    <3> QED
      BY <3>2 DEF A, f
  <2> QED
    BY <1>4, <2>1
<1> HIDE DEF f
<1>6. Strays(g) \subseteq K
  <2> SUFFICES ASSUME NEW key \in Resolving(g), ~ Referenced(g, key)
               PROVE  key \in K
    BY DEF Strays
  <2>1. Referenced(e, key)
    BY <1>2 DEF Strays
  <2>2. PICK r \in e.refs : r[1] = key
    BY <2>1 DEF Referenced
  <2>3. r \notin refs
    BY <1>2, <2>2 DEF Referenced
  <2>4. r[2] = t
    BY <2>3
  <2>5. r \in Keys \X Targets
    BY DEF Good, Trackers
  <2> QED
    BY <2>2, <2>4, <2>5
<1>7. f \in Good /\ Strays(f) = {}
  BY <1>5, <1>6 DEF Updated
<1>8. ASSUME NEW key \in Keys, NEW u \in Targets
      PROVE  <<key, u>> \in f.refs <=> <<key, u>> \in e.refs /\ u # t
  <2>1. <<key, u>> \in f.refs <=> IF u = t /\ key \in K THEN FALSE ELSE <<key, u>> \in g.refs
    <3> HIDE DEF K, refs
    <3>1. <<key, u>> \in Keys \X Targets /\ <<key, u>>[1] = key /\ <<key, u>>[2] = u
      OBVIOUS
    <3>2. \A r \in Keys \X Targets :
             r \in f.refs <=> IF r[2] = t /\ r[1] \in K THEN r[1] \in {} ELSE r \in g.refs
      BY <1>5 DEF Updated
    <3> QED
      BY <3>1, <3>2
  <2>2. <<key, u>> \in g.refs <=> <<key, u>> \in e.refs /\ u # t
    BY <1>2
  <2> QED
    BY <2>1, <2>2
<1> QED
  BY <1>1, <1>7, <1>8

\* A rejected limbo target leaves a good tracker: its key is marked, and the next key in
\* the queue gets its turn.
Rejected(e, id) ==
    LET key == e.byTarget[id].key
    IN  PumpEnqueuedLimboResolutions([e EXCEPT !.watched = @ \ {id},
                                               !.byKey = Erase(@, key),
                                               !.byTarget = Erase(@, id),
                                               !.rejected = @ \cup {key}])

\* The key of a rejected target is no longer resolved, and is marked.
LEMMA RejectedResult ==
    ASSUME NEW e \in Good, Strays(e) = {}, NEW id \in e.watched
    PROVE  LET f == Rejected(e, id)
           IN  f \in Good /\ Strays(f) = {} /\ f.refs = e.refs
<1> DEFINE key == e.byTarget[id].key
           R == e.rejected \cup {key}
           g == Ended(e, key, R)
           f == PumpEnqueuedLimboResolutions(g)
<1>1. e \in Trackers /\ MapsInverse(e) /\ Pumped(e) /\ Covered(e)
  BY DEF Good
<1>2. key \in DOMAIN e.byKey /\ e.byKey[key] = id
  BY <1>1 DEF MapsInverse
<1>3. DOMAIN e.byKey \in SUBSET Keys
  BY <1>1 DEF Trackers, Maps
<1>4. R \in SUBSET Keys
  BY <1>1, <1>2, <1>3 DEF Trackers
<1>5. Rejected(e, id) = f
  <2> DEFINE x == [e EXCEPT !.watched = e.watched \ {id}, !.byKey = Erase(e.byKey, key),
                            !.byTarget = Erase(e.byTarget, id), !.rejected = R]
  <2>1. Rejected(e, id) = PumpEnqueuedLimboResolutions(x)
    BY DEF Rejected
  <2>2. x = g
    <3> DEFINE k == Erase(e.byKey, key)
               b == Erase(e.byTarget, id)
               w == e.watched \ {id}
               y == [refs |-> e.refs, queue |-> e.queue, byKey |-> k, byTarget |-> b,
                     watched |-> w, rejected |-> R]
    <3>1. g = y
      BY <1>2 DEF Ended
    <3>2. x = y
      <4> HIDE DEF key, R, k, b, w
      <4> x = [e EXCEPT !.watched = w, !.byKey = k, !.byTarget = b, !.rejected = R]
        BY DEF k, b, w
      <4> HIDE DEF x
      <4> QED
        BY <1>1 DEF Trackers
    <3> HIDE DEF x, y, g
    <3> QED
      BY <3>1, <3>2
  <2> HIDE DEF x, g
  <2> QED
    BY <2>1, <2>2
<1> HIDE DEF key, R
<1>6. Unpumped(g) /\ g.refs = e.refs /\ g.rejected = R /\ Resolving(g) = Resolving(e) \ {key}
  <2>1. CanEnd(e, key, R)
    BY <1>1, <1>2, <1>4 DEF CanEnd
  <2>2. HasEnded(g, e, key, R)
    BY <2>1, EndedResult
  <2> QED
    BY <2>2 DEF HasEnded
<1> HIDE DEF g
<1>7. f \in Trackers /\ MapsInverse(f) /\ Pumped(f) /\ SameLimbo(f, g)
  BY <1>6, PumpResult
<1> HIDE DEF f
<1>8. f.refs = e.refs /\ f.rejected = R /\ Resolving(f) = Resolving(e) \ {key}
  BY <1>6, <1>7 DEF SameLimbo
<1>9. \A k : Referenced(f, k) <=> Referenced(e, k)
  BY <1>8 DEF Referenced
<1>10. Covered(f)
  <2> SUFFICES ASSUME NEW k \in Keys, Referenced(f, k)
               PROVE  k \in Resolving(f) \cup f.rejected
    BY DEF Covered
  <2>1. k \in Resolving(e) \cup e.rejected
    BY <1>1, <1>9 DEF Covered
  <2> QED
    BY <1>8, <2>1 DEF R
<1>11. Strays(f) = {}
  BY <1>8, <1>9 DEF Strays
<1> QED
  BY <1>5, <1>7, <1>8, <1>10, <1>11 DEF Good

\* What a watch event or the end of a stream does to the resolutions keeps their keys.
Progressed(e, byTarget) == [e EXCEPT !.byTarget = byTarget]

\* Progress of the resolutions leaves a good tracker.
LEMMA ProgressedResult ==
    ASSUME NEW e \in Good, Strays(e) = {}, NEW byTarget, SameKeys(e, byTarget)
    PROVE  LET f == Progressed(e, byTarget)
           IN  f \in Good /\ Strays(f) = {} /\ f.refs = e.refs
<1> DEFINE f == With(e, e.refs, byTarget)
<1>1. e.refs \in SUBSET e.refs
  OBVIOUS
<1>2. Progressed(e, byTarget) = f
  BY DEF Progressed, With, Good, Trackers
<1>3. f \in Good /\ f.refs = e.refs /\ Resolving(f) = Resolving(e)
  <2> DEFINE r == e.refs
  <2>1. r \in SUBSET e.refs
    OBVIOUS
  <2> HIDE DEF r
  <2>2. With(e, r, byTarget) \in Good /\ With(e, r, byTarget).refs = r
        /\ Resolving(With(e, r, byTarget)) = Resolving(e)
    BY <2>1, WithResult
  <2> QED
    BY <2>2 DEF r
<1> HIDE DEF f
<1>4. Strays(f) = {}
  BY <1>3 DEF Strays, Referenced
<1> QED
  BY <1>2, <1>3, <1>4

-----------------------------------------------------------------------------
(* The invariant is inductive. *)

\* A step that leaves the documents and the targets well typed and emits snapshots from a
\* good tracker.
LEMMA EmitKeepsInv ==
    ASSUME Inv, NEW reset, NEW e \in Good, Strays(e) = {}, e.refs = tracker.refs,
           EmitNewSnapshots(reset, e), UNCHANGED listening,
           server' \in [Keys -> DocStates], cached' \in [Keys -> DocStates],
           committed' \subseteq Keys, overlay' \subseteq Keys,
           synced' \in [Targets -> SUBSET Keys],
           current' \in [Targets -> BOOLEAN], caughtUp' \subseteq listening,
           budget' \in 0..Disturbances
    PROVE  Inv'
<1>1. /\ limbo' \in [Targets -> SUBSET Keys]
      /\ syncState' \in [Targets -> {"None", "Local", "Synced"}]
      /\ IsFiniteSet(listening)'
      /\ TrackerInv'
  BY EmitResult
<1>2. TypeOK'
  <2>1. listening' \subseteq Targets /\ caughtUp' \subseteq listening'
    BY DEF Inv, TypeOK
  <2>2. mutated' \in [Targets -> SUBSET Keys]
    BY DEF Inv, TypeOK, EmitNewSnapshots, MutatedKeys
  <2> QED
    BY <1>1, <2>1, <2>2 DEF TypeOK
<1> QED
  BY <1>1, <1>2 DEF Inv, TrackerInv

\* A global snapshot, with or without targets that are reset.
LEMMA ApplyRemoteEventKeepsInv ==
    ASSUME Inv, NEW ts \in SUBSET (listening \cup tracker.watched), NEW silent, NEW resets,
           budget' \in 0..Disturbances, ApplyRemoteEvent(ts, silent, resets)
    PROVE  Inv'
<1> DEFINE qs == (ts \cap Targets) \ resets
           ls == ts \cap tracker.watched
           b == [id \in DOMAIN tracker.byTarget |->
                    IF id \in ls THEN LimboTargetChange(tracker.byTarget[id])
                    ELSE tracker.byTarget[id]]
           e == Progressed(tracker, b)
<1>1. TypeOK /\ tracker \in Good /\ Strays(tracker) = {}
  BY DEF Inv
<1>2. /\ UNCHANGED <<server, overlay, listening>>
      /\ caughtUp' = qs
      /\ EmitNewSnapshots(resets, e)
  BY DEF ApplyRemoteEvent, Progressed
<1>a. committed' \subseteq committed
  BY DEF ApplyRemoteEvent
<1>3. cached' \in [Keys -> DocStates]
  BY <1>1 DEF ApplyRemoteEvent, TypeOK
<1>4. synced' \in [Targets -> SUBSET Keys]
  BY <1>1 DEF ApplyRemoteEvent, TypeOK, Result
<1>5. current' \in [Targets -> BOOLEAN]
  BY <1>1 DEF ApplyRemoteEvent, TypeOK
<1>6. /\ tracker \in Trackers /\ tracker.watched \in SUBSET Nat
      /\ DOMAIN tracker.byTarget = tracker.watched
      /\ tracker.byTarget \in [tracker.watched -> Resolutions]
  BY <1>1 DEF Good, Trackers, Maps, MapsInverse
<1>7. qs \subseteq listening
  BY <1>1, <1>6 DEF TypeOK
<1>8. ASSUME NEW r \in Resolutions
      PROVE  LimboTargetChange(r) \in Resolutions /\ LimboTargetChange(r).key = r.key
  BY DEF LimboTargetChange, Resolutions
<1>9. SameKeys(tracker, b)
  BY <1>6, <1>8 DEF SameKeys
<1> HIDE DEF b
<1>10. e \in Good /\ Strays(e) = {} /\ e.refs = tracker.refs
  BY <1>1, <1>9, ProgressedResult
<1> HIDE DEF e, qs
<1>11. server' \in [Keys -> DocStates] /\ overlay' \subseteq Keys /\ committed' \subseteq Keys
  BY <1>1, <1>2, <1>a DEF TypeOK
<1>12. caughtUp' \subseteq listening
  BY <1>2, <1>7
<1> QED
  BY <1>2, <1>3, <1>4, <1>5, <1>10, <1>11, <1>12, EmitKeepsInv

\* The end of the watch stream.
LEMMA StreamBreaksKeepsInv ==
    ASSUME Inv, NEW offline \in BOOLEAN, StreamBreaks(offline)
    PROVE  Inv'
<1> DEFINE b == [id \in DOMAIN tracker.byTarget |->
                    [tracker.byTarget[id] EXCEPT !.caughtUp = FALSE]]
<1>1. TypeOK /\ tracker \in Good /\ Strays(tracker) = {} /\ RefsAgree /\ IsFiniteSet(listening)
  BY DEF Inv
<1>2. tracker' = Progressed(tracker, b) /\ UNCHANGED <<listening, limbo>>
  BY DEF StreamBreaks, Progressed
<1>3. TypeOK'
  <2>1. budget' \in 0..Disturbances
    BY <1>1 DEF TypeOK, StreamBreaks, Disturb
  <2>2. caughtUp' = {} /\ UNCHANGED <<server, cached, committed, overlay, listening, synced,
                                      mutated, limbo>>
    BY DEF StreamBreaks
  <2>3. ApplyOnlineStateChange \/ UNCHANGED <<current, syncState>>
    BY DEF StreamBreaks
  <2>4. current' \in [Targets -> BOOLEAN] /\ syncState' \in [Targets -> {"None", "Local", "Synced"}]
    BY <1>1, <2>3 DEF TypeOK, ApplyOnlineStateChange
  <2> QED
    BY <1>1, <2>1, <2>2, <2>4 DEF TypeOK
<1>4. DOMAIN tracker.byTarget = tracker.watched
      /\ tracker.byTarget \in [tracker.watched -> Resolutions]
  BY <1>1 DEF Good, Trackers, Maps, MapsInverse
<1>5. SameKeys(tracker, b)
  BY <1>4 DEF SameKeys, Resolutions
<1> HIDE DEF b
<1>6. tracker' \in Good /\ Strays(tracker') = {} /\ tracker'.refs = tracker.refs
  BY <1>1, <1>2, <1>5, ProgressedResult
<1>7. RefsAgree'
  BY <1>1, <1>2, <1>6 DEF RefsAgree
<1>8. Strays(tracker)' = {}
  BY <1>6 DEF Strays, Resolving, Referenced
<1> QED
  BY <1>1, <1>2, <1>3, <1>6, <1>7, <1>8 DEF Inv

\* A view goes.
LEMMA DropViewKeepsInv ==
    ASSUME Inv, NEW t \in Targets, DropView(t), budget' \in 0..Disturbances
    PROVE  Inv'
<1>1. TypeOK /\ tracker \in Good /\ Strays(tracker) = {} /\ RefsAgree /\ IsFiniteSet(listening)
  BY DEF Inv
<1>2. TypeOK'
  BY <1>1 DEF DropView, TypeOK
<1>3. IsFiniteSet(listening)'
  <2>1. listening' \in SUBSET listening
    BY DEF DropView
  <2> QED
    BY <1>1, <2>1, FS_Subset
<1>4. tracker' = RemoveAndCleanupTarget(tracker, t)
  BY DEF DropView
<1>5. /\ tracker' \in Good /\ Strays(tracker') = {}
      /\ \A key \in Keys, u \in Targets :
            <<key, u>> \in tracker'.refs <=> <<key, u>> \in tracker.refs /\ u # t
  BY <1>1, <1>4, CleanupResult
<1>6. /\ limbo \in [Targets -> SUBSET Keys]
      /\ limbo' = [limbo EXCEPT ![t] = {}] /\ listening' = listening \ {t}
  BY <1>1 DEF DropView, TypeOK
<1>7. RefsAgree'
  <2>1. ASSUME NEW key \in Keys, NEW u \in Targets
        PROVE  <<key, u>> \in tracker'.refs <=> key \in limbo'[u]
    BY <1>1, <1>5, <1>6 DEF RefsAgree
  <2>2. \A u \in Targets \ listening' : limbo'[u] = {}
    BY <1>1, <1>6 DEF RefsAgree
  <2> QED
    BY <2>1, <2>2 DEF RefsAgree
<1>8. Strays(tracker)' = {}
  BY <1>5 DEF Strays, Resolving, Referenced
<1> QED
  BY <1>2, <1>3, <1>5, <1>7, <1>8 DEF Inv

\* A view comes; it has no limbo documents yet.
LEMMA ListenKeepsInv ==
    ASSUME Inv, NEW t \in Targets, Listen(t)
    PROVE  Inv'
<1>1. TypeOK /\ tracker \in Good /\ Strays(tracker) = {} /\ RefsAgree /\ IsFiniteSet(listening)
  BY DEF Inv
<1>2. TypeOK'
  <2>1. MutatedKeys(cached, committed, overlay, {}) \in SUBSET Keys
    BY DEF MutatedKeys
  <2> QED
    BY <1>1, <2>1 DEF Listen, TypeOK, Disturb
<1>3. IsFiniteSet(listening)'
  BY <1>1, FS_AddElement DEF Listen
<1>4. limbo[t] = {} /\ tracker' = tracker /\ limbo' = limbo /\ listening' = listening \cup {t}
  BY <1>1 DEF Listen, TypeOK, RefsAgree
<1>5. RefsAgree'
  BY <1>1, <1>4 DEF RefsAgree
<1>6. (tracker \in Good)' /\ Strays(tracker)' = {}
  BY <1>1, <1>4 DEF Strays, Resolving, Referenced
<1> QED
  BY <1>2, <1>3, <1>5, <1>6 DEF Inv

\* Without a change of the views or of the tracker.
LEMMA QuietKeepsInv ==
    ASSUME Inv, TypeOK', UNCHANGED <<listening, limbo, tracker>>
    PROVE  Inv'
BY DEF Inv, RefsAgree, Strays, Resolving, Referenced

\* The backend rejects a limbo target.
LEMMA HandleRejectedListenKeepsInv ==
    ASSUME Inv, NEW id \in tracker.watched, HandleRejectedListen(id)
    PROVE  Inv'
<1> DEFINE e == Rejected(tracker, id)
           key == tracker.byTarget[id].key
<1>1. TypeOK /\ tracker \in Good /\ Strays(tracker) = {}
  BY DEF Inv
<1>2. /\ EmitNewSnapshots({}, e)
      /\ cached' = [cached EXCEPT ![key] = "gone"] /\ committed' = committed \ {key}
      /\ UNCHANGED <<server, overlay, listening, synced, current, caughtUp>>
      /\ Disturb
  BY DEF HandleRejectedListen, Rejected
<1>3. e \in Good /\ Strays(e) = {} /\ e.refs = tracker.refs
  BY <1>1, RejectedResult
<1> HIDE DEF e, key
<1>4. /\ server' \in [Keys -> DocStates]
      /\ committed' \subseteq Keys /\ overlay' \subseteq Keys
      /\ synced' \in [Targets -> SUBSET Keys] /\ current' \in [Targets -> BOOLEAN]
      /\ caughtUp' \subseteq listening
  BY <1>1, <1>2 DEF TypeOK
<1>5. cached' \in [Keys -> DocStates]
  BY <1>1, <1>2 DEF TypeOK, DocStates
<1>6. budget' \in 0..Disturbances
  BY <1>1, <1>2 DEF TypeOK, Disturb
<1> QED
  BY <1>2, <1>3, <1>4, <1>5, <1>6, EmitKeepsInv

\* A local write and what becomes of it.
LEMMA WriteKeepsInv ==
    ASSUME Inv, NEW key \in Keys,
           WriteMutations(key) \/ HandleSuccessfulWrite(key) \/ HandleRejectedWrite(key)
    PROVE  Inv'
<1>1. TypeOK /\ tracker \in Good /\ Strays(tracker) = {}
  BY DEF Inv
<1>2. EmitNewSnapshots({}, tracker) /\ UNCHANGED <<listening, synced, current, caughtUp>>
  BY DEF WriteMutations, HandleSuccessfulWrite, HandleRejectedWrite
<1>3. /\ server' \in [Keys -> DocStates] /\ cached' \in [Keys -> DocStates]
      /\ committed' \subseteq Keys /\ overlay' \subseteq Keys /\ budget' \in 0..Disturbances
  <2>1. CASE WriteMutations(key)
    BY <1>1, <2>1 DEF WriteMutations, TypeOK, Disturb
  <2>2. CASE HandleSuccessfulWrite(key)
    BY <1>1, <2>2 DEF HandleSuccessfulWrite, TypeOK, DocStates
  <2>3. CASE HandleRejectedWrite(key)
    BY <1>1, <2>3 DEF HandleRejectedWrite, TypeOK
  <2> QED
    BY <2>1, <2>2, <2>3
<1>4. synced' \in [Targets -> SUBSET Keys] /\ current' \in [Targets -> BOOLEAN]
      /\ caughtUp' \subseteq listening
  BY <1>1, <1>2 DEF TypeOK
<1> QED
  BY <1>1, <1>2, <1>3, <1>4, EmitKeepsInv

\* The client starts with an empty tracker.
LEMMA InitEstablishesInv ==
    ASSUME Init
    PROVE  Inv
<1>1. TypeOK
  BY DEF Init, TypeOK, DocStates
<1>2. IsFiniteSet(listening)
  BY FS_EmptySet DEF Init
<1>3. tracker = NewTracker /\ limbo = [t \in Targets |-> {}]
  BY DEF Init
<1>4. /\ tracker.refs = {} /\ tracker.queue = <<>> /\ tracker.byKey = Empty
      /\ tracker.byTarget = Empty /\ tracker.watched = {} /\ tracker.rejected = {}
      /\ tracker = [refs |-> {}, queue |-> <<>>, byKey |-> Empty, byTarget |-> Empty,
                    watched |-> {}, rejected |-> {}]
  BY <1>3 DEF NewTracker
<1>5. DOMAIN Empty = {} /\ Empty \in [{} -> Nat] /\ Empty \in [{} -> Resolutions]
  BY DEF Empty
<1>6. tracker \in Trackers
  <2>1. Empty \in Maps(Keys, Nat) /\ Empty \in Maps(Nat, Resolutions)
    <3> HIDE DEF Empty
    <3> QED
      BY <1>5 DEF Maps
  <2> QED
    BY <1>4, <2>1 DEF Trackers
<1>7. MapsInverse(tracker)
  BY <1>4, <1>5 DEF MapsInverse
<1>8. Active(tracker) = 0
  BY <1>4, <1>5, FS_EmptySet DEF Active
<1>9. Pumped(tracker)
  BY <1>4, <1>8 DEF Pumped
<1>10. Covered(tracker)
  BY <1>4 DEF Covered, Referenced
<1>11. Strays(tracker) = {}
  <2>1. ToSet(<<>>) = {}
    BY DEF ToSet
  <2> QED
    BY <1>4, <1>5, <2>1 DEF Strays, Resolving
<1>12. RefsAgree
  BY <1>3, <1>4 DEF RefsAgree
<1> QED
  BY <1>1, <1>2, <1>6, <1>7, <1>9, <1>10, <1>11, <1>12 DEF Inv, Good

\* Every step keeps the invariant.
LEMMA NextKeepsInv ==
    ASSUME Inv, [Next]_vars
    PROVE  Inv'
<1>1. TypeOK /\ tracker.watched \in SUBSET Nat
  BY DEF Inv, Good, Trackers
<1>2. CASE RemoteEvent
  <2>1. PICK qs \in SUBSET listening, ls \in SUBSET tracker.watched :
            /\ UNCHANGED budget
            /\ \E silent \in SUBSET Dropped(qs) : ApplyRemoteEvent(qs \cup ls, silent, {})
    BY <1>2 DEF RemoteEvent
  <2>2. PICK silent \in SUBSET Dropped(qs) : ApplyRemoteEvent(qs \cup ls, silent, {})
    BY <2>1
  <2>3. qs \cup ls \in SUBSET (listening \cup tracker.watched)
    OBVIOUS
  <2>4. budget' \in 0..Disturbances
    BY <1>1, <2>1 DEF TypeOK
  <2> QED
    BY <2>2, <2>3, <2>4, ApplyRemoteEventKeepsInv
<1>3. ASSUME NEW t \in Targets, ExistenceFilterMismatch(t)
      PROVE  Inv'
  <2>1. ApplyRemoteEvent(caughtUp \cup CaughtUpLimbo, {}, {t}) /\ Disturb
    BY <1>3 DEF ExistenceFilterMismatch
  <2>2. caughtUp \cup CaughtUpLimbo \in SUBSET (listening \cup tracker.watched)
    BY <1>1 DEF TypeOK, CaughtUpLimbo
  <2>3. budget' \in 0..Disturbances
    BY <1>1, <2>1 DEF TypeOK, Disturb
  <2> QED
    BY <2>1, <2>2, <2>3, ApplyRemoteEventKeepsInv
<1>4. ASSUME NEW t \in Targets, Listen(t)
      PROVE  Inv'
  BY <1>4, ListenKeepsInv
<1>5. ASSUME NEW t \in Targets, StopListening(t)
      PROVE  Inv'
  <2>1. DropView(t) /\ budget' \in 0..Disturbances
    BY <1>1, <1>5 DEF StopListening, Disturb, TypeOK
  <2> QED
    BY <2>1, DropViewKeepsInv
<1>6. ASSUME NEW offline \in BOOLEAN, StreamBreaks(offline)
      PROVE  Inv'
  BY <1>6, StreamBreaksKeepsInv
<1>7. ASSUME NEW id \in tracker.watched, HandleRejectedListen(id)
      PROVE  Inv'
  BY <1>7, HandleRejectedListenKeepsInv
<1>8. ASSUME NEW key \in Keys, ServerChange(key)
      PROVE  Inv'
  <2>1. TypeOK' /\ UNCHANGED <<listening, limbo, tracker>>
    BY <1>1, <1>8 DEF TypeOK, ServerChange, Disturb
  <2> QED
    BY <2>1, QuietKeepsInv
<1>9. ASSUME NEW key \in Keys,
             WriteMutations(key) \/ HandleSuccessfulWrite(key) \/ HandleRejectedWrite(key)
      PROVE  Inv'
  BY <1>9, WriteKeepsInv
<1>10. CASE UNCHANGED vars
  <2>1. TypeOK' /\ UNCHANGED <<listening, limbo, tracker>>
    BY <1>1, <1>10 DEF TypeOK, vars
  <2> QED
    BY <2>1, QuietKeepsInv
<1> QED
  BY <1>2, <1>3, <1>4, <1>5, <1>6, <1>7, <1>8, <1>9, <1>10 DEF Next

-----------------------------------------------------------------------------
(* The theorems. *)

\* The invariant holds in every reachable state.
THEOREM InvHolds == Spec => []Inv
<1>1. Init => Inv
  BY InitEstablishesInv
<1>2. Inv /\ [Next]_vars => Inv'
  BY NextKeepsInv
<1> QED
  BY <1>1, <1>2, PTL DEF Spec

\* Every variable keeps its type: a view's keys and limbo documents are documents, and only
\* targets that are listened to are current on the watch stream.
THEOREM TypeCorrect == Spec => []TypeOK
<1>1. Inv => TypeOK
  BY DEF Inv
<1> QED
  BY <1>1, InvHolds, PTL

\* The number of watched limbo targets is the number of keys being resolved.
LEMMA WatchedPerKey ==
    ASSUME NEW e \in Trackers, MapsInverse(e)
    PROVE  Cardinality(e.watched) = Active(e)
<1> DEFINE D == DOMAIN e.byKey
           W == e.watched
<1>1. D \in SUBSET Keys /\ e.byKey \in [D -> Nat]
  BY DEF Trackers, Maps
<1>2. /\ \A k \in D : e.byKey[k] \in W /\ e.byTarget[e.byKey[k]].key = k
      /\ \A j \in W : e.byTarget[j].key \in D /\ e.byKey[e.byTarget[j].key] = j
  BY DEF MapsInverse
<1>3. IsFiniteSet(D)
  BY <1>1, FS_Subset
<1> HIDE DEF D, W
<1>4. e.byKey \in Bijection(D, W)
  <2>1. e.byKey \in [D -> W]
    BY <1>1, <1>2
  <2>2. \A a, b \in D : e.byKey[a] = e.byKey[b] => a = b
    BY <1>2
  <2>3. \A j \in W : \E k \in D : e.byKey[k] = j
    BY <1>2
  <2>4. DOMAIN e.byKey = D
    BY <1>1
  <2> QED
    BY <2>1, <2>2, <2>3, <2>4 DEF Bijection, Injection, Surjection, IsInjective
<1>5. ExistsBijection(D, W)
  BY <1>4 DEF ExistsBijection
<1> QED
  BY <1>3, <1>5, FS_Bijection, Zenon DEF Active, D, W

\* ResolutionsAgree: the two maps of active resolutions, RemoteStore's targets and the
\* queue agree, and the maximum is respected and used up while a key waits.
THEOREM ResolutionsAgreeHolds == Spec => []ResolutionsAgree
<1>1. Inv => ResolutionsAgree
  <2> SUFFICES ASSUME Inv
               PROVE  ResolutionsAgree
    OBVIOUS
  <2>1. tracker \in Trackers /\ MapsInverse(tracker) /\ Pumped(tracker)
    BY DEF Inv, Good
  <2>2. Cardinality(tracker.watched) = Active(tracker)
    BY <2>1, WatchedPerKey
  <2>3. /\ DOMAIN tracker.byTarget = tracker.watched
        /\ \A key \in DOMAIN tracker.byKey : tracker.byTarget[tracker.byKey[key]].key = key
    BY <2>1 DEF MapsInverse
  <2>4. DOMAIN tracker.byKey = {tracker.byTarget[id].key : id \in tracker.watched}
    BY <2>1 DEF MapsInverse
  <2>5. Cardinality(tracker.watched) <= MaxConcurrent
        /\ (tracker.queue # <<>> => Cardinality(tracker.watched) = MaxConcurrent)
    BY <2>1, <2>2 DEF Pumped
  <2>6. IsInjective(tracker.queue)
    BY <2>1 DEF MapsInverse, IsInjective
  <2>7. ToSet(tracker.queue) \cap DOMAIN tracker.byKey = {}
    BY <2>1 DEF MapsInverse, ToSet
  <2> QED
    BY <2>3, <2>4, <2>5, <2>6, <2>7 DEF ResolutionsAgree
<1> QED
  BY <1>1, InvHolds, PTL

\* NoStrayResolution: SyncEngine's references are the limbo documents of the views, and
\* nothing is resolved that no view has in limbo.
THEOREM NoStrayResolutionHolds == Spec => []NoStrayResolution
<1>1. Inv => NoStrayResolution
  <2> SUFFICES ASSUME Inv
               PROVE  NoStrayResolution
    OBVIOUS
  <2>1. tracker.refs \in SUBSET (Keys \X Targets) /\ Strays(tracker) = {}
    BY DEF Inv, Good, Trackers
  <2>2. \A key \in Keys, t \in Targets : <<key, t>> \in tracker.refs <=> key \in limbo[t]
    BY DEF Inv, RefsAgree
  <2>3. tracker.refs = {r \in Keys \X Targets : r[1] \in limbo[r[2]]}
    BY <2>1, <2>2
  <2>4. \A key \in DOMAIN tracker.byKey \cup ToSet(tracker.queue) : Referenced(tracker, key)
    BY <2>1 DEF Strays, Resolving
  <2> QED
    BY <2>3, <2>4 DEF NoStrayResolution
<1> QED
  BY <1>1, InvHolds, PTL

\* OnlyRejectionOrphans: a document in limbo is being resolved or waits for its turn,
\* unless its listen was rejected.
THEOREM OnlyRejectionOrphansHolds == Spec => []OnlyRejectionOrphans
<1>1. Inv => OnlyRejectionOrphans
  <2> SUFFICES ASSUME Inv, NEW t \in listening, NEW key \in limbo[t]
               PROVE  key \in DOMAIN tracker.byKey \cup ToSet(tracker.queue) \cup tracker.rejected
    BY DEF OnlyRejectionOrphans
  <2>1. t \in Targets /\ key \in Keys
    BY DEF Inv, TypeOK
  <2>2. <<key, t>> \in tracker.refs /\ <<key, t>>[1] = key
    BY <2>1 DEF Inv, RefsAgree
  <2>3. Referenced(tracker, key)
    BY <2>2 DEF Referenced
  <2>4. Covered(tracker)
    BY DEF Inv, Good
  <2> QED
    BY <2>1, <2>3, <2>4 DEF Covered, Resolving
<1> QED
  BY <1>1, InvHolds, PTL

=============================================================================
