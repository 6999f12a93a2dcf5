------------------------ MODULE WatchAggregatorProofs ------------------------
(***************************************************************************)
(* Proofs about the messages of the watch stream, for any targets and      *)
(* documents: types, that the aggregator counts the responses it is still  *)
(* owed exactly (ResponsesCounted), and that the keys of a target agree    *)
(* with the backend's at each snapshot (SnapshotsAgree).                   *)
(*                                                                         *)
(* The count alone is not inductive.  A response to an unlisten makes the  *)
(* aggregator forget a target, so it has to be shown that it never forgets *)
(* one that is listened to: after each unwatch of such a target a watch    *)
(* follows, among the requests or, as an answer, among the replies         *)
(* (Rewatched).  The targets that are watched anew when a snapshot is      *)
(* raised are then all known to the aggregator (Tracked), and the two      *)
(* responses that it adds for each are the two requests that are sent.     *)
(*                                                                         *)
(* For the keys, the state of a target is compared with the backend's      *)
(* watch as it was when the next reply was sent, not as it is now: the     *)
(* replies under way lead from the one to the other, a watch per reply     *)
(* (Explained, Heard).  A reply that is sent extends this history at one   *)
(* end, a reply that is taken shortens it at the other.                    *)
(***************************************************************************)
EXTENDS WatchAggregator, SequenceTheorems, FiniteSetTheorems, TLAPS

-----------------------------------------------------------------------------
(* The invariant. *)

\* The functions on some of the elements of D with values in R.
Maps(D, R) == UNION {[E -> R] : E \in SUBSET D}

TargetState ==
    [outstanding : Int, changes : Maps(Keys, {"Added", "Modified", "Removed"}),
     current : BOOLEAN, token : BOOLEAN, pending : BOOLEAN]

Watch == [told : SUBSET Keys, filter : BOOLEAN, current : BOOLEAN]

Requests ==
    [kind : {"watch"}, t : Targets, resume : BOOLEAN, keys : SUBSET Keys]
        \cup [kind : {"unwatch"}, t : Targets]

Replies ==
    UNION {[kind : {"Added", "Removed", "Error", "Current", "Reset"}, t : Targets],
           [kind : {"Doc", "Gone"}, t : Targets, key : Keys],
           [kind : {"Filter"}, t : Targets, count : Nat, bloom : SUBSET Keys],
           [kind : {"Snapshot"},
            truth : Maps(Targets, [keys : SUBSET Keys, current : BOOLEAN])]}

\* Every variable has the shape of the code's field, and every message that of the
\* protocol: the type invariant.
TypeOK ==
    /\ listening \in SUBSET Targets /\ IsFiniteSet(listening)
    /\ hasToken \in SUBSET Targets
    /\ keys \in [Targets -> SUBSET Keys]
    /\ current \in [Targets -> BOOLEAN]
    /\ states \in Maps(Targets, TargetState)
    /\ resets \in SUBSET Targets
    /\ open \in BOOLEAN
    /\ requests \in Seq(Requests)
    /\ replies \in Seq(Replies)
    /\ watch \in Maps(Targets, Watch)
    /\ results \in [Targets -> SUBSET Keys]
    /\ raced \in SUBSET Targets
    /\ spoiled \in SUBSET Targets
    /\ wrongKeys \in SUBSET Targets
    /\ early \in SUBSET Targets
    /\ used \in [{"listens", "changes", "faults"} -> Nat]

\* Nothing is under way without a stream.
ClosedMeansQuiet == ~open => requests = <<>> /\ replies = <<>>

\* The aggregator has a state for every target that is listened to.
Tracked == open => listening \ raced \subseteq DOMAIN states

IsWatch(r, t) == r.kind = "watch" /\ r.t = t
IsUnwatch(r, t) == r.kind = "unwatch" /\ r.t = t

\* After an unwatch of a target that is listened to comes a watch, sent or answered.
RewatchedRequests(t, reqs) ==
    \A i \in 1..Len(reqs) : IsUnwatch(reqs[i], t) =>
        \E j \in (i + 1)..Len(reqs) : IsWatch(reqs[j], t)

RewatchedReplies(t, reqs, reps) ==
    \A i \in 1..Len(reps) : reps[i].kind = "Removed" /\ reps[i].t = t =>
        \/ \E j \in (i + 1)..Len(reps) : reps[j].kind \in {"Added", "Error"} /\ reps[j].t = t
        \/ \E j \in 1..Len(reqs) : IsWatch(reqs[j], t)

Rewatched ==
    \A t \in listening \ raced :
        RewatchedRequests(t, requests) /\ RewatchedReplies(t, requests, replies)

\* The inductive invariant.
Inv ==
    /\ TypeOK
    /\ ClosedMeansQuiet
    /\ Tracked
    /\ Rewatched
    /\ ResponsesCounted

-----------------------------------------------------------------------------
(* Partial maps. *)

\* What it is to be in Maps.
LEMMA InMaps ==
    ASSUME NEW D, NEW R, NEW f
    PROVE  f \in Maps(D, R) <=> DOMAIN f \subseteq D /\ f \in [DOMAIN f -> R]
<1>1. f \in Maps(D, R) => DOMAIN f \subseteq D /\ f \in [DOMAIN f -> R]
  BY DEF Maps
<1>2. DOMAIN f \subseteq D /\ f \in [DOMAIN f -> R] => f \in Maps(D, R)
  BY DEF Maps
<1> QED
  BY <1>1, <1>2

\* The empty map.
LEMMA EmptyMap ==
    ASSUME NEW D, NEW R
    PROVE  Empty \in Maps(D, R) /\ DOMAIN Empty = {}
<1>1. DOMAIN Empty = {} /\ Empty \in [{} -> R]
  BY DEF Empty
<1> QED
  BY <1>1 DEF Maps

\* Dropping an entry.
LEMMA DropEntry ==
    ASSUME NEW f, NEW x, NEW R, f \in [DOMAIN f -> R]
    PROVE  /\ DOMAIN Drop(f, x) = DOMAIN f \ {x}
           /\ Drop(f, x) \in [DOMAIN f \ {x} -> R]
           /\ \A y \in DOMAIN f : y # x => Drop(f, x)[y] = f[y]
BY DEF Drop

-----------------------------------------------------------------------------
(* What the aggregator's operations do to the counts. *)

\* How many responses a map of target states awaits for a target.
Count(s, t) == IF t \in DOMAIN s THEN s[t].outstanding ELSE 0

\* r knows the targets of s, and awaits what s awaits.
SameCounts(s, r) ==
    /\ r \in Maps(Targets, TargetState)
    /\ DOMAIN s \subseteq DOMAIN r
    /\ \A u \in Targets : Count(r, u) = Count(s, u)

\* A fresh target state.
LEMMA NewStateType == NewTargetState \in TargetState /\ NewTargetState.outstanding = 0
<1>1. Empty \in Maps(Keys, {"Added", "Modified", "Removed"})
  BY EmptyMap
<1> QED
  BY <1>1 DEF NewTargetState, TargetState

\* Replacing the state of one target.
LEMMA ReplaceState ==
    ASSUME NEW s \in Maps(Targets, TargetState), NEW t \in DOMAIN s, NEW st \in TargetState
    PROVE  LET r == [s EXCEPT ![t] = st]
           IN  /\ r \in Maps(Targets, TargetState) /\ DOMAIN r = DOMAIN s
               /\ Count(r, t) = st.outstanding
               /\ \A u \in Targets : u # t => Count(r, u) = Count(s, u)
               /\ st.outstanding = s[t].outstanding => SameCounts(s, r)
<1> DEFINE r == [s EXCEPT ![t] = st]
<1>1. DOMAIN s \subseteq Targets /\ s \in [DOMAIN s -> TargetState]
  BY InMaps
<1>2. DOMAIN r = DOMAIN s /\ r \in [DOMAIN s -> TargetState] /\ r[t] = st
      /\ \A u \in DOMAIN s : u # t => r[u] = s[u]
  BY <1>1
<1> HIDE DEF r
<1>3. r \in Maps(Targets, TargetState)
  BY <1>1, <1>2, InMaps
<1>4. Count(r, t) = st.outstanding /\ \A u \in Targets : u # t => Count(r, u) = Count(s, u)
  BY <1>2 DEF Count
<1>5. st.outstanding = s[t].outstanding => SameCounts(s, r)
  BY <1>1, <1>2, <1>3, <1>4 DEF SameCounts, Count
<1> QED
  BY <1>2, <1>3, <1>4, <1>5 DEF r

\* EnsureTargetState adds a target that awaits nothing.
LEMMA EnsureResult ==
    ASSUME NEW s \in Maps(Targets, TargetState), NEW t \in Targets
    PROVE  /\ SameCounts(s, EnsureTargetState(s, t))
           /\ DOMAIN EnsureTargetState(s, t) = DOMAIN s \cup {t}
           /\ EnsureTargetState(s, t)[t] \in TargetState
           /\ EnsureTargetState(s, t)[t].outstanding = Count(s, t)
<1>1. DOMAIN s \subseteq Targets /\ s \in [DOMAIN s -> TargetState]
  BY InMaps
<1>2. CASE t \in DOMAIN s
  BY <1>1, <1>2 DEF EnsureTargetState, SameCounts, Count
<1>3. CASE t \notin DOMAIN s
  <2> DEFINE r == Put(s, t, NewTargetState)
  <2>1. /\ r \in Maps(Targets, TargetState)
        /\ DOMAIN r = DOMAIN s \cup {t} /\ r[t] = NewTargetState
        /\ \A y \in DOMAIN s : y # t => r[y] = s[y]
    <3>1. NewTargetState \in TargetState
      BY NewStateType
    <3>2. /\ DOMAIN r = DOMAIN s \cup {t} /\ r \in [DOMAIN s \cup {t} -> TargetState]
          /\ r[t] = NewTargetState /\ \A y \in DOMAIN s : y # t => r[y] = s[y]
      BY <1>1, <3>1 DEF Put
    <3> QED
      BY <1>1, <3>2, InMaps
  <2>2. EnsureTargetState(s, t) = r
    BY <1>3 DEF EnsureTargetState
  <2> HIDE DEF r
  <2>3. \A u \in Targets : Count(r, u) = Count(s, u)
    BY <2>1, <1>3, NewStateType DEF Count
  <2> QED
    BY <2>1, <2>2, <2>3, <1>3, NewStateType DEF SameCounts, Count
<1> QED
  BY <1>2, <1>3

\* SameCounts composes.
LEMMA SameCountsTrans ==
    ASSUME NEW s, NEW r, NEW q, SameCounts(s, r), SameCounts(r, q)
    PROVE  SameCounts(s, q)
BY DEF SameCounts

\* Counting one request more for a target.
LEMMA RecordResult ==
    ASSUME NEW s \in Maps(Targets, TargetState), NEW t \in Targets
    PROVE  LET r == RecordPendingTargetRequest(s, t)
           IN  /\ r \in Maps(Targets, TargetState)
               /\ DOMAIN r = DOMAIN s \cup {t}
               /\ Count(r, t) = Count(s, t) + 1
               /\ \A u \in Targets : u # t => Count(r, u) = Count(s, u)
<1> DEFINE e == EnsureTargetState(s, t)
           st == [e[t] EXCEPT !.outstanding = @ + 1]
<1>1. /\ SameCounts(s, e) /\ DOMAIN e = DOMAIN s \cup {t}
      /\ e[t] \in TargetState /\ e[t].outstanding = Count(s, t)
  BY EnsureResult
<1>2. RecordPendingTargetRequest(s, t) = [e EXCEPT ![t] = st]
  BY DEF RecordPendingTargetRequest
<1> HIDE DEF e
<1>3. st \in TargetState /\ st.outstanding = Count(s, t) + 1
  BY <1>1 DEF TargetState
<1>4. e \in Maps(Targets, TargetState) /\ t \in DOMAIN e
  BY <1>1 DEF SameCounts
<1> HIDE DEF st
<1>5. /\ [e EXCEPT ![t] = st] \in Maps(Targets, TargetState)
      /\ DOMAIN [e EXCEPT ![t] = st] = DOMAIN e
      /\ Count([e EXCEPT ![t] = st], t) = st.outstanding
      /\ \A u \in Targets : u # t => Count([e EXCEPT ![t] = st], u) = Count(e, u)
  BY <1>3, <1>4, ReplaceState
<1> QED
  BY <1>1, <1>2, <1>3, <1>5 DEF SameCounts

\* Counting one response less for a target.
LEMMA RespondResult ==
    ASSUME NEW s \in Maps(Targets, TargetState), NEW t \in Targets
    PROVE  LET r == Respond(s, t)
           IN  /\ r \in Maps(Targets, TargetState)
               /\ DOMAIN r = DOMAIN s \cup {t}
               /\ Count(r, t) = Count(s, t) - 1
               /\ \A u \in Targets : u # t => Count(r, u) = Count(s, u)
<1> DEFINE e == EnsureTargetState(s, t)
           st == [e[t] EXCEPT !.outstanding = @ - 1]
<1>1. /\ SameCounts(s, e) /\ DOMAIN e = DOMAIN s \cup {t}
      /\ e[t] \in TargetState /\ e[t].outstanding = Count(s, t)
  BY EnsureResult
<1>2. Respond(s, t) = [e EXCEPT ![t] = st]
  BY DEF Respond
<1> HIDE DEF e
<1>3. st \in TargetState /\ st.outstanding = Count(s, t) - 1
  BY <1>1 DEF TargetState
<1>4. e \in Maps(Targets, TargetState) /\ t \in DOMAIN e
  BY <1>1 DEF SameCounts
<1> HIDE DEF st
<1>5. /\ [e EXCEPT ![t] = st] \in Maps(Targets, TargetState)
      /\ DOMAIN [e EXCEPT ![t] = st] = DOMAIN e
      /\ Count([e EXCEPT ![t] = st], t) = st.outstanding
      /\ \A u \in Targets : u # t => Count([e EXCEPT ![t] = st], u) = Count(e, u)
  BY <1>3, <1>4, ReplaceState
<1> QED
  BY <1>1, <1>2, <1>3, <1>5 DEF SameCounts

\* HandleTargetChange for an acknowledged watch counts it.
LEMMA AddedResult ==
    ASSUME NEW s \in Maps(Targets, TargetState), NEW t \in Targets
    PROVE  LET r == HandleAdded(s, t)
           IN  /\ r \in Maps(Targets, TargetState)
               /\ DOMAIN r = DOMAIN s \cup {t}
               /\ Count(r, t) = Count(s, t) - 1
               /\ \A u \in Targets : u # t => Count(r, u) = Count(s, u)
<1> DEFINE r == Respond(s, t)
           st == ClearPendingChanges(r[t])
<1>1. /\ r \in Maps(Targets, TargetState)
      /\ DOMAIN r = DOMAIN s \cup {t}
      /\ Count(r, t) = Count(s, t) - 1
      /\ \A u \in Targets : u # t => Count(r, u) = Count(s, u)
  BY RespondResult
<1>2. HandleAdded(s, t) = IF IsPending(r, t) THEN r ELSE [r EXCEPT ![t] = st]
  BY DEF HandleAdded
<1> HIDE DEF r
<1>3. r[t] \in TargetState /\ t \in DOMAIN r
  BY <1>1, InMaps
<1>4. st \in TargetState /\ st.outstanding = r[t].outstanding
  <2>1. Empty \in Maps(Keys, {"Added", "Modified", "Removed"})
    BY EmptyMap
  <2> QED
    BY <1>3, <2>1 DEF TargetState, ClearPendingChanges
<1> HIDE DEF st
<1>5. SameCounts(r, [r EXCEPT ![t] = st]) /\ DOMAIN [r EXCEPT ![t] = st] = DOMAIN r
  BY <1>1, <1>3, <1>4, ReplaceState
<1> QED
  BY <1>1, <1>2, <1>5 DEF SameCounts

\* HandleTargetChange for an acknowledged unwatch counts it, and forgets the target only
\* if it awaits nothing more.
LEMMA RemovedResult ==
    ASSUME NEW s \in Maps(Targets, TargetState), NEW t \in Targets
    PROVE  LET r == HandleRemoved(s, t)
           IN  /\ r \in Maps(Targets, TargetState)
               /\ DOMAIN s \ {t} \subseteq DOMAIN r
               /\ Count(s, t) # 1 => t \in DOMAIN r
               /\ Count(r, t) = Count(s, t) - 1
               /\ \A u \in Targets : u # t => Count(r, u) = Count(s, u)
<1> DEFINE r == Respond(s, t)
<1>1. /\ r \in Maps(Targets, TargetState)
      /\ DOMAIN r = DOMAIN s \cup {t}
      /\ Count(r, t) = Count(s, t) - 1
      /\ \A u \in Targets : u # t => Count(r, u) = Count(s, u)
  BY RespondResult
<1>2. HandleRemoved(s, t) = IF IsPending(r, t) THEN r ELSE Drop(r, t)
  BY DEF HandleRemoved
<1> HIDE DEF r
<1>3. Count(s, t) \in Int
  <2>1. DOMAIN s \subseteq Targets /\ s \in [DOMAIN s -> TargetState]
    BY InMaps
  <2> QED
    BY <2>1 DEF Count, TargetState
<1>4. CASE IsPending(r, t)
  BY <1>1, <1>2, <1>4
<1>5. CASE ~ IsPending(r, t)
  <2>1. Count(r, t) = 0 /\ Count(s, t) = 1
    BY <1>1, <1>3, <1>5 DEF IsPending, Count
  <2>2. /\ Drop(r, t) \in Maps(Targets, TargetState)
        /\ DOMAIN Drop(r, t) = DOMAIN r \ {t}
        /\ \A y \in DOMAIN r : y # t => Drop(r, t)[y] = r[y]
    <3>1. DOMAIN r \subseteq Targets /\ r \in [DOMAIN r -> TargetState]
      BY <1>1, InMaps
    <3>2. /\ DOMAIN Drop(r, t) = DOMAIN r \ {t} /\ Drop(r, t) \in [DOMAIN r \ {t} -> TargetState]
          /\ \A y \in DOMAIN r : y # t => Drop(r, t)[y] = r[y]
      BY <3>1, DropEntry
    <3> QED
      BY <3>1, <3>2, InMaps
  <2>3. Count(Drop(r, t), t) = 0 /\ \A u \in Targets : u # t => Count(Drop(r, t), u) = Count(r, u)
    BY <2>2 DEF Count
  <2> QED
    BY <1>1, <1>2, <1>5, <2>1, <2>2, <2>3
<1> QED
  BY <1>4, <1>5

ChangeKinds == {"Added", "Modified", "Removed"}

\* Marking a target as changed, with other document changes, keeps the counts.
LEMMA MarkResult ==
    ASSUME NEW s \in Maps(Targets, TargetState), NEW t \in DOMAIN s,
           NEW c \in Maps(Keys, ChangeKinds)
    PROVE  SameCounts(s, [s EXCEPT ![t].pending = TRUE, ![t].changes = c])
<1> DEFINE st == [s[t] EXCEPT !.pending = TRUE, !.changes = c]
<1>1. DOMAIN s \subseteq Targets /\ s \in [DOMAIN s -> TargetState]
  BY InMaps
<1>2. [s EXCEPT ![t].pending = TRUE, ![t].changes = c] = [s EXCEPT ![t] = st]
  BY <1>1
<1>3. st \in TargetState /\ st.outstanding = s[t].outstanding
  BY <1>1 DEF TargetState, ChangeKinds
<1> HIDE DEF st
<1>4. SameCounts(s, [s EXCEPT ![t] = st])
  BY <1>3, ReplaceState
<1> QED
  BY <1>2, <1>4

\* The document changes of a target.
LEMMA ChangesType ==
    ASSUME NEW s \in Maps(Targets, TargetState), NEW t \in DOMAIN s
    PROVE  s[t].changes \in [DOMAIN s[t].changes -> ChangeKinds] /\ DOMAIN s[t].changes \subseteq Keys
<1>1. s[t] \in TargetState
  BY InMaps
<1>2. s[t].changes \in Maps(Keys, ChangeKinds)
  BY <1>1 DEF TargetState, ChangeKinds
<1> QED
  BY <1>2, InMaps

\* A document that entered a target changes no count.
LEMMA AddDocumentResult ==
    ASSUME NEW s \in Maps(Targets, TargetState), NEW t \in Targets, NEW key \in Keys
    PROVE  SameCounts(s, AddDocumentToTarget(s, t, key))
<1> DEFINE e == EnsureTargetState(s, t)
           kind == IF key \in keys[t] THEN "Modified" ELSE "Added"
           c == Put(e[t].changes, key, kind)
<1>1. SameCounts(s, e) /\ t \in DOMAIN e /\ e \in Maps(Targets, TargetState)
  BY EnsureResult DEF SameCounts
<1>2. AddDocumentToTarget(s, t, key)
        = IF ~ IsActiveTarget(s, t) THEN s ELSE [e EXCEPT ![t].pending = TRUE, ![t].changes = c]
  <2>1. e \in [DOMAIN e -> TargetState]
    BY <1>1, InMaps
  <2> HIDE DEF e
  <2>2. [e EXCEPT ![t].pending = TRUE, ![t].changes = Put(@, key, kind)]
          = [e EXCEPT ![t].pending = TRUE, ![t].changes = c]
    BY <1>1, <2>1 DEF TargetState
  <2> QED
    BY <2>2 DEF AddDocumentToTarget, e
<1> HIDE DEF e
<1>3. e[t].changes \in [DOMAIN e[t].changes -> ChangeKinds] /\ DOMAIN e[t].changes \subseteq Keys
  BY <1>1, ChangesType
<1>4. kind \in ChangeKinds
  BY DEF ChangeKinds
<1> HIDE DEF kind
<1>5. DOMAIN c \subseteq Keys /\ c \in [DOMAIN c -> ChangeKinds]
  BY <1>3, <1>4 DEF Put
<1> HIDE DEF c
<1>6. c \in Maps(Keys, ChangeKinds)
  BY <1>5, InMaps
<1>7. SameCounts(e, [e EXCEPT ![t].pending = TRUE, ![t].changes = c])
  BY <1>1, <1>6, MarkResult
<1>8. SameCounts(s, [e EXCEPT ![t].pending = TRUE, ![t].changes = c])
  BY <1>1, <1>7, SameCountsTrans
<1>9. SameCounts(s, s)
  BY DEF SameCounts
<1> QED
  BY <1>2, <1>8, <1>9

\* Nor does a document that left it.
LEMMA RemoveDocumentResult ==
    ASSUME NEW s \in Maps(Targets, TargetState), NEW t \in Targets, NEW key \in Keys
    PROVE  SameCounts(s, RemoveDocumentFromTarget(s, t, key))
<1> DEFINE e == EnsureTargetState(s, t)
           c == IF key \in keys[t] THEN Put(e[t].changes, key, "Removed")
                ELSE Drop(e[t].changes, key)
<1>1. SameCounts(s, e) /\ t \in DOMAIN e /\ e \in Maps(Targets, TargetState)
  BY EnsureResult DEF SameCounts
<1>2. RemoveDocumentFromTarget(s, t, key)
        = IF ~ IsActiveTarget(s, t) THEN s ELSE [e EXCEPT ![t].pending = TRUE, ![t].changes = c]
  <2>1. e \in [DOMAIN e -> TargetState]
    BY <1>1, InMaps
  <2> HIDE DEF e
  <2>2. [e EXCEPT ![t].pending = TRUE,
                  ![t].changes = IF key \in keys[t] THEN Put(@, key, "Removed") ELSE Drop(@, key)]
          = [e EXCEPT ![t].pending = TRUE, ![t].changes = c]
    BY <1>1, <2>1 DEF TargetState
  <2> QED
    BY <2>2 DEF RemoveDocumentFromTarget, e
<1> HIDE DEF e
<1>3. e[t].changes \in [DOMAIN e[t].changes -> ChangeKinds] /\ DOMAIN e[t].changes \subseteq Keys
  BY <1>1, ChangesType
<1>5. DOMAIN c \subseteq Keys /\ c \in [DOMAIN c -> ChangeKinds]
  <2>1. CASE key \in keys[t]
    <3>1. c = Put(e[t].changes, key, "Removed")
      BY <2>1
    <3> QED
      BY <1>3, <3>1 DEF Put, ChangeKinds
  <2>2. CASE key \notin keys[t]
    <3>1. c = Drop(e[t].changes, key)
      BY <2>2
    <3> QED
      BY <1>3, <3>1 DEF Drop
  <2> QED
    BY <2>1, <2>2
<1> HIDE DEF c
<1>6. c \in Maps(Keys, ChangeKinds)
  BY <1>5, InMaps
<1>7. SameCounts(e, [e EXCEPT ![t].pending = TRUE, ![t].changes = c])
  BY <1>1, <1>6, MarkResult
<1>8. SameCounts(s, [e EXCEPT ![t].pending = TRUE, ![t].changes = c])
  BY <1>1, <1>7, SameCountsTrans
<1>9. SameCounts(s, s)
  BY DEF SameCounts
<1> QED
  BY <1>2, <1>8, <1>9

\* Nor do the removals that an existence filter or a reset makes.
LEMMA RemoveAllResult ==
    ASSUME NEW s \in Maps(Targets, TargetState), NEW t \in DOMAIN s, NEW gone \in SUBSET Keys
    PROVE  SameCounts(s, RemoveAll(s, t, gone))
<1> DEFINE old == s[t].changes
           c == [k \in DOMAIN old \cup gone |-> IF k \in gone THEN "Removed" ELSE old[k]]
<1>1. s \in [DOMAIN s -> TargetState]
  BY InMaps
<1>2. old \in [DOMAIN old -> ChangeKinds] /\ DOMAIN old \subseteq Keys
  BY ChangesType
<1>3. RemoveAll(s, t, gone)
        = IF gone = {} \/ ~ IsActiveTarget(s, t) THEN s
          ELSE [s EXCEPT ![t].pending = TRUE, ![t].changes = c]
  <2>1. [s EXCEPT ![t].pending = TRUE,
                  ![t].changes = [k \in DOMAIN @ \cup gone |-> IF k \in gone THEN "Removed" ELSE @[k]]]
          = [s EXCEPT ![t].pending = TRUE, ![t].changes = c]
    BY <1>1 DEF TargetState
  <2> QED
    BY <2>1 DEF RemoveAll
<1>4. DOMAIN c \subseteq Keys /\ c \in [DOMAIN c -> ChangeKinds]
  <2> HIDE DEF old
  <2> QED
    BY <1>2 DEF ChangeKinds
<1> HIDE DEF c
<1>5. c \in Maps(Keys, ChangeKinds)
  BY <1>4, InMaps
<1>6. SameCounts(s, [s EXCEPT ![t].pending = TRUE, ![t].changes = c])
  BY <1>5, MarkResult
<1>7. SameCounts(s, s)
  BY DEF SameCounts
<1> QED
  BY <1>3, <1>6, <1>7

\* A target that is reset awaited nothing, as it was active.
LEMMA ResetResult ==
    ASSUME NEW s \in Maps(Targets, TargetState), NEW t \in DOMAIN s,
           Count(s, t) = 0, keys \in [Targets -> SUBSET Keys]
    PROVE  SameCounts(s, ResetTarget(s, t))
<1> DEFINE r == [s EXCEPT ![t] = NewTargetState]
<1>1. DOMAIN s \subseteq Targets /\ s[t].outstanding = 0
  BY InMaps DEF Count
<1>2. SameCounts(s, r) /\ DOMAIN r = DOMAIN s
  BY <1>1, NewStateType, ReplaceState
<1>3. ResetTarget(s, t) = RemoveAll(r, t, keys[t])
  BY DEF ResetTarget
<1> HIDE DEF r
<1>4. r \in Maps(Targets, TargetState) /\ t \in DOMAIN r
  BY <1>2 DEF SameCounts
<1>5. keys[t] \in SUBSET Keys
  BY <1>1
<1>6. SameCounts(r, RemoveAll(r, t, keys[t]))
  BY <1>4, <1>5, RemoveAllResult
<1> QED
  BY <1>2, <1>3, <1>6, SameCountsTrans

\* An active target awaits nothing.
LEMMA ActiveCount ==
    ASSUME NEW s, NEW t, IsActiveTarget(s, t)
    PROVE  Count(s, t) = 0 /\ t \in listening
BY DEF IsActiveTarget, IsPending, Count

\* CURRENT changes no count.
LEMMA CurrentResult ==
    ASSUME NEW s \in Maps(Targets, TargetState), NEW t \in Targets
    PROVE  SameCounts(s, HandleCurrent(s, t))
<1> DEFINE r == EnsureTargetState(s, t)
           st == [r[t] EXCEPT !.current = TRUE, !.token = TRUE, !.pending = TRUE]
<1>1. SameCounts(s, r) /\ t \in DOMAIN r /\ r \in Maps(Targets, TargetState)
  BY EnsureResult DEF SameCounts
<1>2. r \in [DOMAIN r -> TargetState]
  BY <1>1, InMaps
<1>3. HandleCurrent(s, t) = IF ~ IsActiveTarget(s, t) THEN r ELSE [r EXCEPT ![t] = st]
  <2> HIDE DEF r
  <2>1. [r EXCEPT ![t].current = TRUE, ![t].token = TRUE, ![t].pending = TRUE] = [r EXCEPT ![t] = st]
    BY <1>1, <1>2
  <2> QED
    BY <2>1 DEF HandleCurrent, r
<1> HIDE DEF r
<1>4. st \in TargetState /\ st.outstanding = r[t].outstanding
  BY <1>1, <1>2 DEF TargetState
<1> HIDE DEF st
<1>5. SameCounts(r, [r EXCEPT ![t] = st])
  BY <1>1, <1>4, ReplaceState
<1>6. SameCounts(s, [r EXCEPT ![t] = st])
  BY <1>1, <1>5, SameCountsTrans
<1> QED
  BY <1>1, <1>3, <1>6

\* RESET changes no count.
LEMMA HandleResetResult ==
    ASSUME NEW s \in Maps(Targets, TargetState), NEW t \in Targets,
           keys \in [Targets -> SUBSET Keys]
    PROVE  SameCounts(s, HandleReset(s, t))
<1> DEFINE r == EnsureTargetState(s, t)
<1>1. SameCounts(s, r) /\ t \in DOMAIN r /\ r \in Maps(Targets, TargetState)
  <2>1. SameCounts(s, r) /\ DOMAIN r = DOMAIN s \cup {t}
    BY EnsureResult
  <2> QED
    BY <2>1 DEF SameCounts
<1>2. HandleReset(s, t) = IF ~ IsActiveTarget(s, t) THEN r ELSE ResetTarget(r, t)
  BY DEF HandleReset
<1> HIDE DEF r
<1>3. ASSUME IsActiveTarget(s, t) PROVE SameCounts(s, ResetTarget(r, t))
  <2>1. Count(r, t) = 0
    BY <1>1, <1>3, ActiveCount DEF SameCounts
  <2>2. SameCounts(r, ResetTarget(r, t))
    BY <1>1, <2>1, ResetResult
  <2> QED
    BY <1>1, <2>2, SameCountsTrans
<1> QED
  BY <1>1, <1>2, <1>3

\* An existence filter changes no count, and resets at most an active target.
LEMMA FilterResult ==
    ASSUME NEW s \in Maps(Targets, TargetState), NEW t \in Targets, NEW count, NEW bloom,
           keys \in [Targets -> SUBSET Keys]
    PROVE  LET r == HandleExistenceFilter(s, t, count, bloom)
           IN  SameCounts(s, r[1]) /\ r[2] \subseteq {t}
<1> DEFINE e == EnsureTargetState(s, t)
           size == GetCurrentDocumentCountForTarget(e, t)
           gone == FilterRemovedDocuments(t, bloom)
           filtered == RemoveAll(e, t, gone)
           r == HandleExistenceFilter(s, t, count, bloom)
<1>1. SameCounts(s, e) /\ t \in DOMAIN e /\ e \in Maps(Targets, TargetState)
  <2>1. SameCounts(s, e) /\ DOMAIN e = DOMAIN s \cup {t}
    BY EnsureResult
  <2> QED
    BY <2>1 DEF SameCounts
<1>2. r = IF ~ IsActiveTarget(s, t) THEN <<s, {}>>
          ELSE IF size = count THEN <<e, {}>>
          ELSE IF size - Cardinality(gone) = count THEN <<filtered, {}>>
          ELSE <<ResetTarget(filtered, t), {t}>>
  BY DEF HandleExistenceFilter
<1>3. gone \in SUBSET Keys
  BY DEF FilterRemovedDocuments
<1> HIDE DEF e, size, gone, r
<1>4. SameCounts(e, filtered)
  BY <1>1, <1>3, RemoveAllResult
<1> HIDE DEF filtered
<1>5. SameCounts(s, filtered)
  BY <1>1, <1>4, SameCountsTrans
<1>6. ASSUME IsActiveTarget(s, t) PROVE SameCounts(s, ResetTarget(filtered, t))
  <2>1. Count(filtered, t) = 0 /\ t \in DOMAIN filtered /\ filtered \in Maps(Targets, TargetState)
    BY <1>1, <1>4, <1>5, <1>6, ActiveCount DEF SameCounts
  <2>2. SameCounts(filtered, ResetTarget(filtered, t))
    BY <2>1, ResetResult
  <2> QED
    BY <1>5, <2>2, SameCountsTrans
<1>7. SameCounts(s, s)
  BY DEF SameCounts
<1>8. SameCounts(s, r[1]) /\ r[2] \subseteq {t}
  <2>1. CASE ~ IsActiveTarget(s, t)
    BY <1>2, <1>7, <2>1
  <2>2. CASE IsActiveTarget(s, t) /\ size = count
    BY <1>1, <1>2, <2>2
  <2>3. CASE IsActiveTarget(s, t) /\ size # count /\ size - Cardinality(gone) = count
    BY <1>2, <1>5, <2>3
  <2>4. CASE IsActiveTarget(s, t) /\ size # count /\ size - Cardinality(gone) # count
    BY <1>2, <1>6, <2>4
  <2> QED
    BY <2>1, <2>2, <2>3, <2>4
<1> QED
  BY <1>8 DEF r

\* A snapshot without changes changes no count and knows the same targets.
LEMMA NoChangeResult ==
    ASSUME NEW s \in Maps(Targets, TargetState)
    PROVE  SameCounts(s, HandleNoChange(s)) /\ DOMAIN HandleNoChange(s) = DOMAIN s
<1>1. DOMAIN s \subseteq Targets /\ s \in [DOMAIN s -> TargetState]
  BY InMaps
<1> DEFINE marked(t) == [s[t] EXCEPT !.token = TRUE, !.pending = TRUE]
           r == [t \in DOMAIN s |-> IF IsActiveTarget(s, t) THEN marked(t) ELSE s[t]]
<1>2. \A t \in DOMAIN s : marked(t) \in TargetState /\ marked(t).outstanding = s[t].outstanding
  BY <1>1 DEF TargetState
<1>3. HandleNoChange(s) = r
  BY DEF HandleNoChange
<1> HIDE DEF marked
<1>4. DOMAIN r = DOMAIN s /\ r \in [DOMAIN s -> TargetState]
      /\ \A t \in DOMAIN s : r[t].outstanding = s[t].outstanding
  BY <1>1, <1>2
<1> HIDE DEF r
<1>5. r \in Maps(Targets, TargetState)
  BY <1>1, <1>4, InMaps
<1> QED
  BY <1>3, <1>4, <1>5 DEF SameCounts, Count

-----------------------------------------------------------------------------
(* Counting messages. *)

\* E are the positions of D but for the first one, moved down by one.
MovedDown(n, D, E) ==
    /\ n \in Nat /\ D \in SUBSET (1..(n + 1)) /\ E \in SUBSET (1..n)
    /\ \A i \in 1..n : i \in E <=> i + 1 \in D

LEMMA CountShift ==
    ASSUME NEW n, NEW D, NEW E, MovedDown(n, D, E)
    PROVE  /\ IsFiniteSet(D) /\ IsFiniteSet(E)
           /\ Cardinality(D) \in Nat /\ Cardinality(E) \in Nat
           /\ Cardinality(D) = Cardinality(E) + (IF 1 \in D THEN 1 ELSE 0)
<1> USE DEF MovedDown
<1> DEFINE f == [i \in E |-> i + 1]
<1>1. IsFiniteSet(1..(n + 1)) /\ IsFiniteSet(1..n)
  BY FS_Interval
<1>2. IsFiniteSet(D) /\ Cardinality(D) \in Nat
  BY <1>1, FS_Subset, FS_CardinalityType, Zenon
<1>3. IsFiniteSet(E) /\ Cardinality(E) \in Nat
  BY <1>1, FS_Subset, FS_CardinalityType, Zenon
<1>4. f \in Bijection(E, D \ {1})
  <2>1. f \in [E -> D \ {1}]
    OBVIOUS
  <2>2. \A a, b \in E : f[a] = f[b] => a = b
    OBVIOUS
  <2>3. \A d \in D \ {1} : \E a \in E : f[a] = d
    <3>1. TAKE d \in D \ {1}
    <3>2. d - 1 \in E /\ f[d - 1] = d
      OBVIOUS
    <3> QED
      BY <3>2
  <2>4. DOMAIN f = E
    OBVIOUS
  <2> HIDE DEF f
  <2> QED
    BY <2>1, <2>2, <2>3, <2>4 DEF Bijection, Injection, Surjection, IsInjective
<1>5. ExistsBijection(E, D \ {1})
  BY <1>4 DEF ExistsBijection
<1>6. Cardinality(D \ {1}) = Cardinality(E)
  BY <1>3, <1>5, FS_Bijection, Zenon
<1>7. Cardinality(D \ {1}) = IF 1 \in D THEN Cardinality(D) - 1 ELSE Cardinality(D)
  BY <1>2, FS_RemoveElement, Zenon
<1> QED
  BY <1>2, <1>3, <1>6, <1>7

\* A set of positions with or without one more.
LEMMA CountMore ==
    ASSUME NEW n \in Nat, NEW D \in SUBSET (1..n), NEW p \in BOOLEAN,
           NEW E, E = D \cup (IF p THEN {n + 1} ELSE {})
    PROVE  /\ IsFiniteSet(D) /\ IsFiniteSet(E)
           /\ Cardinality(D) \in Nat
           /\ Cardinality(E) = Cardinality(D) + (IF p THEN 1 ELSE 0)
<1>1. IsFiniteSet(1..n)
  BY FS_Interval
<1>2. IsFiniteSet(D) /\ Cardinality(D) \in Nat
  BY <1>1, FS_Subset, FS_CardinalityType, Zenon
<1>3. CASE p
  <2>1. E = D \cup {n + 1} /\ n + 1 \notin D
    BY <1>3
  <2>2. IsFiniteSet(D \cup {n + 1}) /\ Cardinality(D \cup {n + 1}) = Cardinality(D) + 1
    BY <1>2, <2>1, FS_AddElement, Zenon
  <2> QED
    BY <1>2, <1>3, <2>1, <2>2
<1>4. CASE ~ p
  BY <1>2, <1>4
<1> QED
  BY <1>3, <1>4

\* SetToSeq lists every element of a finite set exactly once.
LEMMA SetToSeqResult ==
    ASSUME NEW S, IsFiniteSet(S)
    PROVE  /\ Cardinality(S) \in Nat
           /\ SetToSeq(S) \in [1..Cardinality(S) -> S]
           /\ \A a, b \in 1..Cardinality(S) : SetToSeq(S)[a] = SetToSeq(S)[b] => a = b
           /\ \A x \in S : \E a \in 1..Cardinality(S) : SetToSeq(S)[a] = x
<1> DEFINE n == Cardinality(S)
           f == SetToSeq(S)
           R == {x \in S : \E a \in 1..n : f[a] = x}
<1>1. n \in Nat /\ ExistsBijection(1..n, S)
  BY FS_CardinalityType, Zenon
<1>2. \E g \in [1..n -> S] : IsInjective(g)
  BY <1>1 DEF ExistsBijection, Bijection, Injection
<1>3. f \in [1..n -> S] /\ IsInjective(f)
  BY <1>2 DEF SetToSeq
<1> HIDE DEF f
<1>4. \A a, b \in 1..n : f[a] = f[b] => a = b
  BY <1>3 DEF IsInjective
<1>5. ExistsBijection(1..n, R)
  <2>1. f \in [1..n -> R] /\ DOMAIN f = 1..n
    BY <1>3
  <2>2. f \in Bijection(1..n, R)
    BY <1>3, <2>1 DEF Bijection, Injection, Surjection
  <2> QED
    BY <2>2 DEF ExistsBijection
<1>6. IsFiniteSet(1..n) /\ Cardinality(1..n) = n
  <2> HIDE DEF n
  <2> QED
    BY <1>1, FS_Interval
<1>7. Cardinality(R) = n
  BY <1>5, <1>6, FS_Bijection, Zenon
<1>8. R \in SUBSET S
  OBVIOUS
<1>9. R = S
  BY <1>7, <1>8, FS_Subset, Zenon
<1> QED
  BY <1>1, <1>3, <1>4, <1>9 DEF f

\* The requests for a target, and the responses to it, that are under way.
Sent(t, reqs) == Cardinality({i \in DOMAIN reqs : reqs[i].t = t})
Answered(t, reps) == Cardinality({i \in DOMAIN reps : IsResponse(reps[i], t)})

\* Outstanding adds them.
LEMMA OutstandingSum ==
    ASSUME NEW t, NEW reqs, NEW reps
    PROVE  Outstanding(t, reqs, reps) = Sent(t, reqs) + Answered(t, reps)
BY DEF Outstanding, Sent, Answered

\* Nothing is under way.
LEMMA CountNone ==
    ASSUME NEW t
    PROVE  Sent(t, <<>>) = 0 /\ Answered(t, <<>>) = 0
<1>1. {i \in DOMAIN <<>> : <<>>[i].t = t} = {} /\ {i \in DOMAIN <<>> : IsResponse(<<>>[i], t)} = {}
  OBVIOUS
<1> QED
  BY <1>1, FS_EmptySet, Zenon DEF Sent, Answered

\* A request or a reply is added.
LEMMA SentAppend ==
    ASSUME NEW t, NEW reqs \in Seq(Requests), NEW r \in Requests
    PROVE  /\ Sent(t, reqs) \in Nat
           /\ Sent(t, Append(reqs, r)) = Sent(t, reqs) + (IF r.t = t THEN 1 ELSE 0)
<1> DEFINE n == Len(reqs)
           D == {i \in DOMAIN reqs : reqs[i].t = t}
           E == {i \in DOMAIN Append(reqs, r) : Append(reqs, r)[i].t = t}
           p == r.t = t
<1>1. n \in Nat /\ D \in SUBSET (1..n) /\ p \in BOOLEAN
  OBVIOUS
<1>2. E = D \cup (IF p THEN {n + 1} ELSE {})
  OBVIOUS
<1> HIDE DEF n, D, E, p
<1>3. Cardinality(D) \in Nat /\ Cardinality(E) = Cardinality(D) + (IF p THEN 1 ELSE 0)
  BY <1>1, <1>2, CountMore, Zenon
<1> QED
  BY <1>3 DEF Sent, D, E, p

LEMMA AnsweredAppend ==
    ASSUME NEW t, NEW reps \in Seq(Replies), NEW m \in Replies
    PROVE  /\ Answered(t, reps) \in Nat
           /\ Answered(t, Append(reps, m)) = Answered(t, reps) + (IF IsResponse(m, t) THEN 1 ELSE 0)
<1> DEFINE n == Len(reps)
           D == {i \in DOMAIN reps : IsResponse(reps[i], t)}
           E == {i \in DOMAIN Append(reps, m) : IsResponse(Append(reps, m)[i], t)}
           p == IsResponse(m, t)
<1>1. n \in Nat /\ D \in SUBSET (1..n) /\ p \in BOOLEAN
  BY DEF IsResponse
<1>2. E = D \cup (IF p THEN {n + 1} ELSE {})
  OBVIOUS
<1> HIDE DEF n, D, E, p
<1>3. Cardinality(D) \in Nat /\ Cardinality(E) = Cardinality(D) + (IF p THEN 1 ELSE 0)
  BY <1>1, <1>2, CountMore, Zenon
<1> QED
  BY <1>3 DEF Answered, D, E, p

\* The first request, or the first reply, is taken.
LEMMA SentTail ==
    ASSUME NEW t, NEW reqs \in Seq(Requests), reqs # <<>>
    PROVE  /\ Sent(t, Tail(reqs)) \in Nat
           /\ Sent(t, reqs) = Sent(t, Tail(reqs)) + (IF Head(reqs).t = t THEN 1 ELSE 0)
<1> DEFINE n == Len(reqs) - 1
           D == {i \in DOMAIN reqs : reqs[i].t = t}
           E == {i \in DOMAIN Tail(reqs) : Tail(reqs)[i].t = t}
<1>1. n \in Nat /\ Len(reqs) = n + 1 /\ Len(Tail(reqs)) = n /\ Head(reqs) = reqs[1]
      /\ DOMAIN Tail(reqs) = 1..n /\ DOMAIN reqs = 1..(n + 1)
      /\ \A i \in 1..n : Tail(reqs)[i] = reqs[i + 1]
  OBVIOUS
<1>2. MovedDown(n, D, E)
  <2> HIDE DEF n
  <2> QED
    BY <1>1 DEF MovedDown
<1>3. 1 \in D <=> Head(reqs).t = t
  <2> HIDE DEF n
  <2> QED
    BY <1>1
<1> HIDE DEF n, D, E
<1>4. Cardinality(E) \in Nat /\ Cardinality(D) = Cardinality(E) + (IF 1 \in D THEN 1 ELSE 0)
  BY <1>2, CountShift
<1> QED
  BY <1>3, <1>4 DEF Sent, D, E

LEMMA AnsweredTail ==
    ASSUME NEW t, NEW reps \in Seq(Replies), reps # <<>>
    PROVE  /\ Answered(t, Tail(reps)) \in Nat
           /\ Answered(t, reps)
                = Answered(t, Tail(reps)) + (IF IsResponse(Head(reps), t) THEN 1 ELSE 0)
<1> DEFINE n == Len(reps) - 1
           D == {i \in DOMAIN reps : IsResponse(reps[i], t)}
           E == {i \in DOMAIN Tail(reps) : IsResponse(Tail(reps)[i], t)}
<1>1. n \in Nat /\ Len(reps) = n + 1 /\ Len(Tail(reps)) = n /\ Head(reps) = reps[1]
      /\ DOMAIN Tail(reps) = 1..n /\ DOMAIN reps = 1..(n + 1)
      /\ \A i \in 1..n : Tail(reps)[i] = reps[i + 1]
  OBVIOUS
<1>2. MovedDown(n, D, E)
  <2> HIDE DEF n
  <2> QED
    BY <1>1 DEF MovedDown
<1>3. 1 \in D <=> IsResponse(Head(reps), t)
  <2> HIDE DEF n
  <2> QED
    BY <1>1
<1> HIDE DEF n, D, E
<1>4. Cardinality(E) \in Nat /\ Cardinality(D) = Cardinality(E) + (IF 1 \in D THEN 1 ELSE 0)
  BY <1>2, CountShift
<1> QED
  BY <1>3, <1>4 DEF Answered, D, E

\* A watch request is one, as is an unwatch request.
LEMMA RequestTypes ==
    ASSUME NEW t \in Targets, NEW token \in BOOLEAN, keys \in [Targets -> SUBSET Keys]
    PROVE  /\ WatchRequest(t, token) \in Requests /\ IsWatch(WatchRequest(t, token), t)
           /\ [WatchRequest(t, token) EXCEPT !.keys = {}] \in Requests
           /\ IsWatch([WatchRequest(t, token) EXCEPT !.keys = {}], t)
           /\ UnwatchRequest(t) \in Requests /\ IsUnwatch(UnwatchRequest(t), t)
BY DEF WatchRequest, UnwatchRequest, Requests, IsWatch, IsUnwatch

LEMMA ListenRequest ==
    ASSUME NEW t \in Targets, keys \in [Targets -> SUBSET Keys]
    PROVE  LET r == WatchRequest(t, t \in hasToken)
           IN  r \in Requests /\ IsWatch(r, t)
<1> DEFINE token == t \in hasToken
<1>1. token \in BOOLEAN
  OBVIOUS
<1> HIDE DEF token
<1>2. WatchRequest(t, token) \in Requests /\ IsWatch(WatchRequest(t, token), t)
  BY <1>1, RequestTypes
<1> QED
  BY <1>2 DEF token

\* The requests that a snapshot sends: two for each target that is watched anew.
LEMMA RewatchResult ==
    ASSUME NEW again \in SUBSET Targets, IsFiniteSet(again), keys \in [Targets -> SUBSET Keys]
    PROVE  LET n == Cardinality(again)
               q == RewatchRequests(again)
           IN  /\ n \in Nat
               /\ q \in Seq(Requests) /\ Len(q) = 2 * n
               /\ \A a \in 1..n : /\ IsUnwatch(q[2 * a - 1], SetToSeq(again)[a])
                                  /\ IsWatch(q[2 * a], SetToSeq(again)[a])
<1> DEFINE n == Cardinality(again)
           f == SetToSeq(again)
           q == RewatchRequests(again)
           w(t) == [WatchRequest(t, FALSE) EXCEPT !.keys = {}]
<1>1. n \in Nat /\ f \in [1..n -> again]
  BY SetToSeqResult, Zenon
<1>2. q = [i \in 1..(2 * n) |-> IF i % 2 = 1 THEN UnwatchRequest(f[(i + 1) \div 2])
                                ELSE w(f[(i + 1) \div 2])]
  BY DEF RewatchRequests
<1>3. \A t \in Targets : /\ w(t) \in Requests /\ IsWatch(w(t), t)
                         /\ UnwatchRequest(t) \in Requests /\ IsUnwatch(UnwatchRequest(t), t)
  BY RequestTypes
<1> HIDE DEF n, f, q, w
<1>4. \A i \in 1..(2 * n) : (i + 1) \div 2 \in 1..n
  BY <1>1
<1>5. \A i \in 1..(2 * n) : q[i] \in Requests
  BY <1>1, <1>2, <1>3, <1>4
<1>6. q \in Seq(Requests) /\ Len(q) = 2 * n
  BY <1>1, <1>2, <1>5
<1>7. ASSUME NEW a \in 1..n
      PROVE  IsUnwatch(q[2 * a - 1], f[a]) /\ IsWatch(q[2 * a], f[a])
  <2>1. 2 * a - 1 \in 1..(2 * n) /\ (2 * a - 1) % 2 = 1 /\ ((2 * a - 1) + 1) \div 2 = a
    BY <1>1
  <2>2. 2 * a \in 1..(2 * n) /\ (2 * a) % 2 # 1 /\ (2 * a + 1) \div 2 = a
    BY <1>1
  <2>3. q[2 * a - 1] = UnwatchRequest(f[a]) /\ q[2 * a] = w(f[a])
    BY <1>2, <2>1, <2>2
  <2>4. f[a] \in Targets
    BY <1>1
  <2> QED
    BY <1>3, <2>3, <2>4
<1> QED
  BY <1>1, <1>6, <1>7 DEF n, f, q

\* Two elements more.
LEMMA CountTwoMore ==
    ASSUME NEW D, IsFiniteSet(D), NEW x, NEW y, x \notin D, y \notin D, x # y
    PROVE  Cardinality((D \cup {x}) \cup {y}) = Cardinality(D) + 2
<1>1. IsFiniteSet(D \cup {x}) /\ Cardinality(D \cup {x}) = Cardinality(D) + 1
  BY FS_AddElement, Zenon
<1>2. y \notin D \cup {x}
  OBVIOUS
<1>3. Cardinality((D \cup {x}) \cup {y}) = Cardinality(D \cup {x}) + 1
  BY <1>1, <1>2, FS_AddElement, Zenon
<1>4. Cardinality(D) \in Nat
  BY FS_CardinalityType, Zenon
<1> QED
  BY <1>1, <1>3, <1>4

\* Half of a position, rounded up.
LEMMA HalfUp ==
    ASSUME NEW j \in Nat, NEW a \in Nat
    PROVE  (j + 1) \div 2 = a <=> j = 2 * a - 1 \/ j = 2 * a
OBVIOUS

LEMMA HalfIn ==
    ASSUME NEW n \in Nat, NEW j \in 1..(2 * n)
    PROVE  \E a \in 1..n : j = 2 * a - 1 \/ j = 2 * a
<1>1. (j + 1) \div 2 \in 1..n /\ (j = 2 * ((j + 1) \div 2) - 1 \/ j = 2 * ((j + 1) \div 2))
  OBVIOUS
<1> QED
  BY <1>1

\* The parts of a concatenation.
LEMMA Concatenated ==
    ASSUME NEW a \in Seq(Requests), NEW b \in Seq(Requests)
    PROVE  /\ Len(a) \in Nat /\ Len(a \o b) = Len(a) + Len(b)
           /\ \A i \in 1..Len(a) : (a \o b)[i] = a[i]
           /\ \A i \in 1..Len(b) : (a \o b)[Len(a) + i] = b[i]
OBVIOUS

\* The two requests are counted.
LEMMA SentRewatch ==
    ASSUME NEW again \in SUBSET Targets, IsFiniteSet(again), keys \in [Targets -> SUBSET Keys],
           NEW reqs \in Seq(Requests), NEW t
    PROVE  Sent(t, reqs \o RewatchRequests(again)) = Sent(t, reqs) + (IF t \in again THEN 2 ELSE 0)
<1> DEFINE n == Cardinality(again)
           f == SetToSeq(again)
           q == RewatchRequests(again)
           l == Len(reqs)
           D == {i \in DOMAIN reqs : reqs[i].t = t}
           E == {i \in DOMAIN (reqs \o q) : (reqs \o q)[i].t = t}
<1>1. /\ n \in Nat /\ q \in Seq(Requests) /\ Len(q) = 2 * n
      /\ \A a \in 1..n : IsUnwatch(q[2 * a - 1], f[a]) /\ IsWatch(q[2 * a], f[a])
  BY RewatchResult
<1>2. f \in [1..n -> again] /\ (\A a, b \in 1..n : f[a] = f[b] => a = b)
      /\ \A x \in again : \E a \in 1..n : f[a] = x
  BY SetToSeqResult, Zenon
<1>3. l \in Nat /\ D \in SUBSET (1..l)
  OBVIOUS
<1>4. IsFiniteSet(D) /\ Cardinality(D) \in Nat
  <2>1. IsFiniteSet(1..l)
    BY FS_Interval
  <2> QED
    BY <1>3, <2>1, FS_Subset, FS_CardinalityType, Zenon
<1> HIDE DEF n, f, q
<1>10. Sent(t, reqs) = Cardinality(D) /\ Sent(t, reqs \o q) = Cardinality(E)
  BY DEF Sent
<1>5. \A i \in 1..(2 * n) : (i + 1) \div 2 \in 1..n /\ q[i].t = f[(i + 1) \div 2]
  <2>1. TAKE i \in 1..(2 * n)
  <2>2. PICK a \in 1..n : i = 2 * a - 1 \/ i = 2 * a
    BY <1>1, HalfIn
  <2>3. (i + 1) \div 2 = a
    BY <2>2
  <2>4. q[i].t = f[a]
    BY <1>1, <2>2 DEF IsUnwatch, IsWatch
  <2> QED
    BY <2>3, <2>4
<1>6. \A i \in Nat : i \in E <=> i \in D \/ (i \in (l + 1)..(l + 2 * n) /\ q[i - l].t = t)
  BY <1>1, <1>3
<1>7. E \subseteq Nat /\ D \subseteq Nat
  BY <1>1, <1>3
<1> HIDE DEF l, D, E
<1>8. CASE t \notin again
  <2>1. \A i \in (l + 1)..(l + 2 * n) : q[i - l].t # t
    <3>1. TAKE i \in (l + 1)..(l + 2 * n)
    <3>2. i - l \in 1..(2 * n)
      BY <1>1, <1>3
    <3>3. q[i - l].t \in again
      BY <1>2, <1>5, <3>2
    <3> QED
      BY <1>8, <3>3
  <2>2. E = D
    BY <1>6, <1>7, <2>1
  <2> QED
    BY <1>4, <1>8, <1>10, <2>2 DEF q
<1>9. CASE t \in again
  <2>1. PICK a \in 1..n : f[a] = t
    BY <1>2, <1>9
  <2> DEFINE x == l + 2 * a - 1
             y == l + 2 * a
  <2>2. \A i \in (l + 1)..(l + 2 * n) : q[i - l].t = t <=> i = x \/ i = y
    <3>1. TAKE i \in (l + 1)..(l + 2 * n)
    <3>2. i - l \in 1..(2 * n)
      BY <1>1, <1>3
    <3>3. q[i - l].t = t <=> (i - l + 1) \div 2 = a
      BY <1>2, <1>5, <2>1, <3>2
    <3>4. (i - l + 1) \div 2 = a <=> i - l = 2 * a - 1 \/ i - l = 2 * a
      <4>1. i - l \in Nat /\ a \in Nat
        BY <1>1, <3>2
      <4> QED
        BY <4>1, HalfUp
    <3> QED
      BY <1>3, <3>3, <3>4
  <2>3. x \in (l + 1)..(l + 2 * n) /\ y \in (l + 1)..(l + 2 * n) /\ x # y /\ x \notin D /\ y \notin D
    BY <1>1, <1>3
  <2>4. E = (D \cup {x}) \cup {y}
    <3> HIDE DEF x, y
    <3>1. x \in Nat /\ y \in Nat
      BY <1>1, <1>3, <2>3
    <3> QED
      BY <1>6, <1>7, <2>2, <2>3, <3>1
  <2> HIDE DEF x, y
  <2>5. Cardinality(E) = Cardinality(D) + 2
    BY <1>4, <2>3, <2>4, CountTwoMore
  <2> QED
    BY <1>9, <1>10, <2>5 DEF q
<1> QED
  BY <1>8, <1>9

\* A sequence with one request for each element of a set, in the order of SetToSeq.
LEMMA SentListed ==
    ASSUME NEW S, IsFiniteSet(S), NEW reqs, DOMAIN reqs = 1..Cardinality(S),
           \A i \in 1..Cardinality(S) : reqs[i] \in Requests /\ reqs[i].t = SetToSeq(S)[i]
    PROVE  /\ \A t : Sent(t, reqs) = IF t \in S THEN 1 ELSE 0
           /\ reqs = [i \in 1..Cardinality(S) |-> reqs[i]] => reqs \in Seq(Requests)
<1> DEFINE n == Cardinality(S)
           f == SetToSeq(S)
           D(t) == {i \in DOMAIN reqs : reqs[i].t = t}
<1>1. n \in Nat /\ f \in [1..n -> S] /\ (\A a, b \in 1..n : f[a] = f[b] => a = b)
      /\ \A x \in S : \E a \in 1..n : f[a] = x
  BY SetToSeqResult, Zenon
<1>2. DOMAIN reqs = 1..n /\ \A i \in 1..n : reqs[i].t = f[i] /\ reqs[i] \in Requests
  OBVIOUS
<1> HIDE DEF n, f
<1>3. ASSUME NEW t PROVE Sent(t, reqs) = IF t \in S THEN 1 ELSE 0
  <2>1. CASE t \in S
    <3>1. PICK a \in 1..n : f[a] = t
      BY <1>1, <2>1
    <3>4. \A i \in 1..n : reqs[i].t = t <=> i = a
      BY <1>1, <1>2, <3>1
    <3>2. D(t) = {a}
      BY <1>2, <3>4, Zenon
    <3>3. Cardinality({a}) = 1
      BY FS_Singleton, Zenon
    <3> QED
      BY <2>1, <3>2, <3>3 DEF Sent
  <2>2. CASE t \notin S
    <3>2. \A i \in 1..n : reqs[i].t # t
      BY <1>1, <1>2, <2>2
    <3>1. D(t) = {}
      BY <1>2, <3>2, Zenon
    <3> QED
      BY <2>2, <3>1, FS_EmptySet DEF Sent
  <2> QED
    BY <2>1, <2>2
<1>4. reqs = [i \in 1..n |-> reqs[i]] => reqs \in Seq(Requests)
  BY <1>1, <1>2
<1> QED
  BY <1>3, <1>4 DEF n

\* The requests of a stream that opens: a watch for each target that is listened to.
LEMMA SentOpening ==
    ASSUME IsFiniteSet(listening), listening \in SUBSET Targets,
           keys \in [Targets -> SUBSET Keys]
    PROVE  LET reqs == [i \in 1..Cardinality(listening) |->
                           LET t == SetToSeq(listening)[i] IN WatchRequest(t, t \in hasToken)]
           IN  /\ reqs \in Seq(Requests)
               /\ \A i \in 1..Len(reqs) : reqs[i].kind = "watch"
               /\ \A t \in Targets : Sent(t, reqs) = IF t \in listening THEN 1 ELSE 0
<1> DEFINE n == Cardinality(listening)
           f == SetToSeq(listening)
           reqs == [i \in 1..n |-> WatchRequest(f[i], f[i] \in hasToken)]
<1>1. n \in Nat /\ f \in [1..n -> listening]
  BY SetToSeqResult, Zenon
<1> HIDE DEF n, f
<1>2. \A i \in 1..n : reqs[i] \in Requests /\ IsWatch(reqs[i], f[i])
  <2>1. TAKE i \in 1..n
  <2>2. f[i] \in Targets /\ (f[i] \in hasToken) \in BOOLEAN
    BY <1>1
  <2>3. reqs[i] = WatchRequest(f[i], f[i] \in hasToken)
    OBVIOUS
  <2> QED
    BY <2>2, <2>3, RequestTypes
<1>3. DOMAIN reqs = 1..n /\ reqs = [i \in 1..n |-> reqs[i]]
  OBVIOUS
<1> HIDE DEF reqs
<1>4. \A i \in 1..n : reqs[i] \in Requests /\ reqs[i].t = f[i] /\ reqs[i].kind = "watch"
  BY <1>2 DEF IsWatch
<1>5. /\ \A t : Sent(t, reqs) = IF t \in listening THEN 1 ELSE 0
      /\ reqs \in Seq(Requests)
  BY <1>3, <1>4, SentListed DEF n, f
<1>6. Len(reqs) = n
  BY <1>1, <1>3, <1>5
<1>7. /\ reqs \in Seq(Requests)
      /\ \A i \in 1..Len(reqs) : reqs[i].kind = "watch"
      /\ \A t \in Targets : Sent(t, reqs) = IF t \in listening THEN 1 ELSE 0
  BY <1>4, <1>5, <1>6
<1> QED
  BY <1>7 DEF reqs, n, f

-----------------------------------------------------------------------------
(* Every unwatch of a listened target is followed by a watch. *)

\* A request is added that is not an unwatch of u, or that is a watch of u.
LEMMA RewatchedAppend ==
    ASSUME NEW u, NEW reqs \in Seq(Requests), NEW r \in Requests, NEW reps
    PROVE  /\ RewatchedRequests(u, reqs) /\ ~ IsUnwatch(r, u)
                => RewatchedRequests(u, Append(reqs, r))
           /\ RewatchedReplies(u, reqs, reps) => RewatchedReplies(u, Append(reqs, r), reps)
           /\ IsWatch(r, u) => /\ RewatchedRequests(u, Append(reqs, r))
                               /\ RewatchedReplies(u, Append(reqs, r), reps)
<1> DEFINE q == Append(reqs, r)
           n == Len(reqs)
<1>1. n \in Nat /\ Len(q) = n + 1 /\ q[n + 1] = r /\ \A i \in 1..n : q[i] = reqs[i]
  OBVIOUS
<1> HIDE DEF q
<1>2. RewatchedRequests(u, reqs) /\ ~ IsUnwatch(r, u) => RewatchedRequests(u, q)
  BY <1>1 DEF RewatchedRequests
<1>3. RewatchedReplies(u, reqs, reps) => RewatchedReplies(u, q, reps)
  BY <1>1 DEF RewatchedReplies
<1>4. ASSUME IsWatch(r, u) PROVE RewatchedRequests(u, q) /\ RewatchedReplies(u, q, reps)
  <2>1. IsWatch(q[n + 1], u) /\ ~ IsUnwatch(q[n + 1], u) /\ n + 1 \in 1..Len(q)
    BY <1>1, <1>4 DEF IsWatch, IsUnwatch
  <2>2. RewatchedReplies(u, q, reps)
    BY <2>1 DEF RewatchedReplies
  <2>3. RewatchedRequests(u, q)
    <3>1. SUFFICES ASSUME NEW i \in 1..Len(q), IsUnwatch(q[i], u)
                   PROVE  \E j \in (i + 1)..Len(q) : IsWatch(q[j], u)
      BY DEF RewatchedRequests
    <3>2. n + 1 \in (i + 1)..Len(q)
      BY <1>1, <2>1, <3>1
    <3> QED
      BY <2>1, <3>2
  <2> QED
    BY <2>2, <2>3
<1> QED
  BY <1>2, <1>3, <1>4 DEF q

\* The requests of a snapshot are added.
LEMMA RewatchedAgain ==
    ASSUME NEW u, NEW reqs \in Seq(Requests), NEW reps,
           NEW again \in SUBSET Targets, IsFiniteSet(again), keys \in [Targets -> SUBSET Keys],
           RewatchedRequests(u, reqs), RewatchedReplies(u, reqs, reps)
    PROVE  /\ RewatchedRequests(u, reqs \o RewatchRequests(again))
           /\ RewatchedReplies(u, reqs \o RewatchRequests(again), reps)
<1> DEFINE n == Cardinality(again)
           f == SetToSeq(again)
           q == RewatchRequests(again)
           l == Len(reqs)
           p == reqs \o q
<1>1. /\ n \in Nat /\ q \in Seq(Requests) /\ Len(q) = 2 * n
      /\ \A a \in 1..n : IsUnwatch(q[2 * a - 1], f[a]) /\ IsWatch(q[2 * a], f[a])
  BY RewatchResult
<1> HIDE DEF n, f, q
<1>2. /\ l \in Nat /\ Len(p) = l + 2 * n
      /\ \A i \in 1..l : p[i] = reqs[i]
      /\ \A i \in 1..(2 * n) : p[l + i] = q[i]
  BY <1>1, Concatenated
<1> HIDE DEF p, l
<1>3. RewatchedReplies(u, p, reps)
  BY <1>1, <1>2 DEF RewatchedReplies, l
<1>4. RewatchedRequests(u, p)
  <2>1. SUFFICES ASSUME NEW i \in 1..Len(p), IsUnwatch(p[i], u)
                 PROVE  \E j \in (i + 1)..Len(p) : IsWatch(p[j], u)
    BY DEF RewatchedRequests
  <2>2. CASE i \in 1..l
    <3>1. PICK j \in (i + 1)..l : IsWatch(reqs[j], u)
      BY <1>2, <2>1, <2>2 DEF RewatchedRequests, l
    <3>2. j \in (i + 1)..Len(p) /\ p[j] = reqs[j]
      BY <1>1, <1>2, <2>2
    <3> QED
      BY <3>1, <3>2
  <2>3. CASE i \notin 1..l
    <3>1. i - l \in 1..(2 * n) /\ l + (i - l) = i
      BY <1>1, <1>2, <2>3
    <3>2. p[i] = q[i - l]
      BY <1>2, <3>1
    <3>3. PICK a \in 1..n : i - l = 2 * a - 1 \/ i - l = 2 * a
      BY <1>1, <3>1, HalfIn
    <3>4. i - l = 2 * a - 1
      BY <1>1, <2>1, <3>2, <3>3 DEF IsUnwatch, IsWatch
    <3>5. f[a] = u
      BY <1>1, <2>1, <3>2, <3>4 DEF IsUnwatch
    <3>6. 2 * a \in 1..(2 * n) /\ l + 2 * a \in (i + 1)..Len(p)
      BY <1>1, <1>2, <3>1, <3>4
    <3>7. IsWatch(p[l + 2 * a], u)
      BY <1>1, <1>2, <3>5, <3>6
    <3> QED
      BY <3>6, <3>7
  <2> QED
    BY <2>2, <2>3
<1> QED
  BY <1>3, <1>4 DEF p, q

\* The first request is answered.
LEMMA RewatchedServe ==
    ASSUME NEW u, NEW reqs \in Seq(Requests), reqs # <<>>,
           NEW reps \in Seq(Replies), NEW m \in Replies,
           RewatchedRequests(u, reqs), RewatchedReplies(u, reqs, reps),
           IsWatch(Head(reqs), u) => m.kind \in {"Added", "Error"} /\ m.t = u,
           m.kind = "Removed" /\ m.t = u => IsUnwatch(Head(reqs), u)
    PROVE  /\ RewatchedRequests(u, Tail(reqs))
           /\ RewatchedReplies(u, Tail(reqs), Append(reps, m))
<1> DEFINE q == Tail(reqs)
           n == Len(q)
           p == Append(reps, m)
           l == Len(reps)
<1>1. n \in Nat /\ Len(reqs) = n + 1 /\ Head(reqs) = reqs[1] /\ \A i \in 1..n : q[i] = reqs[i + 1]
  OBVIOUS
<1>2. l \in Nat /\ Len(p) = l + 1 /\ p[l + 1] = m /\ \A i \in 1..l : p[i] = reps[i]
  OBVIOUS
<1> HIDE DEF q, n, p, l
<1>3. ASSUME NEW i \in 1..Len(reqs), NEW j \in (i + 1)..Len(reqs), IsWatch(reqs[j], u)
      PROVE  j - 1 \in i..n /\ IsWatch(q[j - 1], u)
  <2>1. j - 1 \in 1..n /\ j - 1 \in i..n /\ (j - 1) + 1 = j
    BY <1>1
  <2> QED
    BY <1>1, <1>3, <2>1
<1>4. RewatchedRequests(u, q)
  <2>1. SUFFICES ASSUME NEW i \in 1..n, IsUnwatch(q[i], u)
                 PROVE  \E j \in (i + 1)..n : IsWatch(q[j], u)
    BY DEF RewatchedRequests, n
  <2>2. i + 1 \in 1..Len(reqs) /\ IsUnwatch(reqs[i + 1], u)
    BY <1>1, <2>1
  <2>3. PICK j \in (i + 2)..Len(reqs) : IsWatch(reqs[j], u)
    BY <2>2 DEF RewatchedRequests
  <2>4. j - 1 \in (i + 1)..n /\ IsWatch(q[j - 1], u)
    BY <1>3, <2>2, <2>3
  <2> QED
    BY <2>4
<1>5. RewatchedReplies(u, q, p)
  <2>1. SUFFICES ASSUME NEW i \in 1..Len(p), p[i].kind = "Removed" /\ p[i].t = u
                 PROVE  \/ \E j \in (i + 1)..Len(p) : p[j].kind \in {"Added", "Error"} /\ p[j].t = u
                        \/ \E j \in 1..Len(q) : IsWatch(q[j], u)
    BY DEF RewatchedReplies
  <2>2. CASE i = l + 1
    <3>1. IsUnwatch(reqs[1], u)
      BY <1>1, <1>2, <2>1, <2>2
    <3>2. PICK j \in 2..Len(reqs) : IsWatch(reqs[j], u)
      BY <1>1, <3>1 DEF RewatchedRequests
    <3>3. j - 1 \in 1..n /\ IsWatch(q[j - 1], u)
      BY <1>1, <1>3, <3>2
    <3> QED
      BY <3>3 DEF n
  <2>3. CASE i \in 1..l
    <3>1. reps[i].kind = "Removed" /\ reps[i].t = u
      BY <1>2, <2>1, <2>3
    <3>2. CASE \E j \in (i + 1)..l : reps[j].kind \in {"Added", "Error"} /\ reps[j].t = u
      <4>1. PICK j \in (i + 1)..l : reps[j].kind \in {"Added", "Error"} /\ reps[j].t = u
        BY <3>2
      <4>2. j \in (i + 1)..Len(p) /\ j \in 1..l /\ p[j] = reps[j]
        BY <1>2, <2>3
      <4> QED
        BY <4>1, <4>2
    <3>3. CASE \E j \in 1..Len(reqs) : IsWatch(reqs[j], u)
      <4>1. PICK j \in 1..Len(reqs) : IsWatch(reqs[j], u)
        BY <3>3
      <4>2. CASE j = 1
        <5>1. m.kind \in {"Added", "Error"} /\ m.t = u /\ l + 1 \in (i + 1)..Len(p)
          BY <1>1, <1>2, <2>3, <4>1, <4>2
        <5> QED
          BY <1>2, <5>1
      <4>3. CASE j # 1
        <5>1. j - 1 \in 1..n /\ (j - 1) + 1 = j
          BY <1>1, <4>3
        <5>2. IsWatch(q[j - 1], u)
          BY <1>1, <4>1, <5>1
        <5> QED
          BY <5>1, <5>2 DEF n
      <4> QED
        BY <4>2, <4>3
    <3> QED
      BY <3>1, <3>2, <3>3, <2>3 DEF RewatchedReplies, l
  <2> QED
    BY <1>2, <2>2, <2>3
<1> QED
  BY <1>4, <1>5 DEF q, p

\* A reply is added that answers no unwatch, or the first reply is taken.
LEMMA RewatchedReply ==
    ASSUME NEW u, NEW reqs, NEW reps \in Seq(Replies), RewatchedReplies(u, reqs, reps)
    PROVE  /\ \A m \in Replies : m.kind # "Removed" => RewatchedReplies(u, reqs, Append(reps, m))
           /\ reps # <<>> => RewatchedReplies(u, reqs, Tail(reps))
<1>1. ASSUME NEW m \in Replies, m.kind # "Removed"
      PROVE  RewatchedReplies(u, reqs, Append(reps, m))
  <2> DEFINE p == Append(reps, m)
             l == Len(reps)
  <2>1. l \in Nat /\ Len(p) = l + 1 /\ p[l + 1] = m /\ \A i \in 1..l : p[i] = reps[i]
    OBVIOUS
  <2> HIDE DEF p
  <2>2. RewatchedReplies(u, reqs, p)
    BY <1>1, <2>1 DEF RewatchedReplies
  <2> QED
    BY <2>2 DEF p
<1>2. ASSUME reps # <<>> PROVE RewatchedReplies(u, reqs, Tail(reps))
  <2> DEFINE p == Tail(reps)
             n == Len(p)
  <2>1. n \in Nat /\ Len(reps) = n + 1 /\ \A i \in 1..n : p[i] = reps[i + 1]
    BY <1>2
  <2> HIDE DEF p, n
  <2>2. SUFFICES ASSUME NEW i \in 1..n, p[i].kind = "Removed" /\ p[i].t = u
                 PROVE  \/ \E j \in (i + 1)..n : p[j].kind \in {"Added", "Error"} /\ p[j].t = u
                        \/ \E j \in 1..Len(reqs) : IsWatch(reqs[j], u)
    BY DEF RewatchedReplies, p, n
  <2>3. i + 1 \in 1..Len(reps) /\ reps[i + 1].kind = "Removed" /\ reps[i + 1].t = u
    BY <2>1, <2>2
  <2>4. ASSUME NEW j \in (i + 2)..Len(reps), reps[j].kind \in {"Added", "Error"} /\ reps[j].t = u
        PROVE  \E k \in (i + 1)..n : p[k].kind \in {"Added", "Error"} /\ p[k].t = u
    <3>1. j - 1 \in 1..n /\ j - 1 \in (i + 1)..n /\ (j - 1) + 1 = j
      BY <2>1
    <3>2. p[j - 1] = reps[j]
      BY <2>1, <3>1
    <3> QED
      BY <2>4, <3>1, <3>2
  <2>5. (i + 1) + 1 = i + 2
    OBVIOUS
  <2> QED
    BY <2>3, <2>4, <2>5 DEF RewatchedReplies
<1> QED
  BY <1>1, <1>2

\* Nothing is under way.
LEMMA RewatchedNone ==
    ASSUME NEW u
    PROVE  RewatchedRequests(u, <<>>) /\ RewatchedReplies(u, <<>>, <<>>)
BY DEF RewatchedRequests, RewatchedReplies

\* When an unwatch of a listened target is answered, another response is still to come.
LEMMA RemovedOwed ==
    ASSUME NEW u, NEW reqs \in Seq(Requests), NEW reps \in Seq(Replies), reps # <<>>,
           RewatchedReplies(u, reqs, reps), Head(reps).kind = "Removed", Head(reps).t = u
    PROVE  Sent(u, reqs) + Answered(u, Tail(reps)) # 0
<1> DEFINE D == {i \in DOMAIN reqs : reqs[i].t = u}
           E == {i \in DOMAIN Tail(reps) : IsResponse(Tail(reps)[i], u)}
           n == Len(Tail(reps))
<1>1. n \in Nat /\ Len(reps) = n + 1 /\ Head(reps) = reps[1] /\ DOMAIN Tail(reps) = 1..n
      /\ \A i \in 1..n : Tail(reps)[i] = reps[i + 1]
  OBVIOUS
<1>2. IsFiniteSet(D) /\ IsFiniteSet(E)
  <2>1. Len(reqs) \in Nat /\ D \in SUBSET (1..Len(reqs)) /\ E \in SUBSET (1..n)
    OBVIOUS
  <2>2. IsFiniteSet(1..Len(reqs)) /\ IsFiniteSet(1..n)
    BY <1>1, <2>1, FS_Interval
  <2> QED
    BY <2>1, <2>2, FS_Subset, Zenon
<1>3. Cardinality(D) \in Nat /\ Cardinality(E) \in Nat
  BY <1>2, FS_CardinalityType, Zenon
<1>4. D # {} \/ E # {}
  <2>1. \/ \E j \in 2..Len(reps) : reps[j].kind \in {"Added", "Error"} /\ reps[j].t = u
        \/ \E j \in 1..Len(reqs) : IsWatch(reqs[j], u)
    <3>1. 1 \in 1..Len(reps) /\ 1 + 1 = 2
      BY <1>1
    <3> QED
      BY <1>1, <3>1 DEF RewatchedReplies
  <2>2. ASSUME NEW j \in 2..Len(reps), reps[j].kind \in {"Added", "Error"} /\ reps[j].t = u
        PROVE  E # {}
    <3>1. j - 1 \in 1..n /\ (j - 1) + 1 = j
      BY <1>1
    <3>2. IsResponse(Tail(reps)[j - 1], u)
      BY <1>1, <2>2, <3>1 DEF IsResponse
    <3>3. j - 1 \in E
      BY <1>1, <3>1, <3>2
    <3> QED
      BY <3>3
  <2>3. ASSUME NEW j \in 1..Len(reqs), IsWatch(reqs[j], u) PROVE D # {}
    <3>1. j \in D
      BY <2>3 DEF IsWatch
    <3> QED
      BY <3>1
  <2> QED
    BY <2>1, <2>2, <2>3
<1>5. Cardinality(D) # 0 \/ Cardinality(E) # 0
  BY <1>2, <1>4, FS_EmptySet, Zenon
<1> HIDE DEF D, E
<1>6. Cardinality(D) + Cardinality(E) # 0
  BY <1>3, <1>5
<1> QED
  BY <1>6 DEF Sent, Answered, D, E

\* The counts are natural numbers.
LEMMA CountsNat ==
    ASSUME NEW t, NEW reqs \in Seq(Requests), NEW reps \in Seq(Replies)
    PROVE  Sent(t, reqs) \in Nat /\ Answered(t, reps) \in Nat
<1> DEFINE D == {i \in DOMAIN reqs : reqs[i].t = t}
           E == {i \in DOMAIN reps : IsResponse(reps[i], t)}
<1>1. Len(reqs) \in Nat /\ Len(reps) \in Nat /\ D \in SUBSET (1..Len(reqs)) /\ E \in SUBSET (1..Len(reps))
  OBVIOUS
<1>2. IsFiniteSet(1..Len(reqs)) /\ IsFiniteSet(1..Len(reps))
  BY <1>1, FS_Interval
<1>3. IsFiniteSet(D) /\ IsFiniteSet(E)
  BY <1>1, <1>2, FS_Subset, Zenon
<1> QED
  BY <1>3, FS_CardinalityType, Zenon DEF Sent, Answered

-----------------------------------------------------------------------------
(* Every step keeps the invariant. *)

\* Counting a disturbance.
LEMMA UseType ==
    ASSUME NEW kind \in {"listens", "changes", "faults"}, NEW max,
           used \in [{"listens", "changes", "faults"} -> Nat], Use(kind, max)
    PROVE  used' \in [{"listens", "changes", "faults"} -> Nat]
BY DEF Use

\* RemoteStore listens: the request is counted when it is sent.
LEMMA ListenStep ==
    ASSUME Inv, NEW t \in Targets, Listen(t)
    PROVE  Inv'
<1> USE DEF Inv
<1>1. TypeOK'
  <2>1. IsFiniteSet(listening')
    BY FS_AddElement, Zenon DEF TypeOK, Listen
  <2>2. used' \in [{"listens", "changes", "faults"} -> Nat]
    BY UseType DEF TypeOK, Listen
  <2>3. states' \in Maps(Targets, TargetState) /\ requests' \in Seq(Requests)
    <3>1. CASE open
      <4>1. WatchRequest(t, t \in hasToken) \in Requests
        BY ListenRequest DEF TypeOK
      <4>2. RecordPendingTargetRequest(states, t) \in Maps(Targets, TargetState)
        BY RecordResult DEF TypeOK
      <4>3. states' = RecordPendingTargetRequest(states, t)
            /\ requests' = Append(requests, WatchRequest(t, t \in hasToken))
        BY <3>1 DEF Listen
      <4>4. requests \in Seq(Requests)
        BY DEF TypeOK
      <4> QED
        BY <4>1, <4>2, <4>3, <4>4
    <3>2. CASE ~ open
      BY <3>2 DEF TypeOK, Listen
    <3> QED
      BY <3>1, <3>2
  <2> QED
    BY <2>1, <2>2, <2>3 DEF TypeOK, Listen, backend, history
<1>2. CASE ~ open
  <2>1. requests' = <<>> /\ replies' = <<>> /\ ~ open'
    BY <1>2 DEF Listen, ClosedMeansQuiet
  <2> QED
    BY <1>1, <2>1, RewatchedNone DEF ClosedMeansQuiet, Tracked, Rewatched, ResponsesCounted
<1>3. CASE open
  <2> DEFINE r == WatchRequest(t, t \in hasToken)
  <2>1. open' /\ replies' = replies /\ raced' = raced /\ listening' = listening \cup {t}
        /\ states' = RecordPendingTargetRequest(states, t) /\ requests' = Append(requests, r)
    BY <1>3 DEF Listen, history
  <2>2. r \in Requests /\ IsWatch(r, t)
    BY ListenRequest DEF TypeOK
  <2> HIDE DEF r
  <2>3. r.t = t /\ \A u : ~ IsUnwatch(r, u)
    BY <2>2 DEF IsWatch, IsUnwatch
  <2>4. /\ DOMAIN states' = DOMAIN states \cup {t}
        /\ Count(states', t) = Count(states, t) + 1
        /\ \A u \in Targets : u # t => Count(states', u) = Count(states, u)
    BY <2>1, RecordResult DEF TypeOK
  <2>5. Tracked'
    BY <1>3, <2>1, <2>4 DEF Tracked
  <2>6. Rewatched'
    <3>1. ASSUME NEW u \in listening' \ raced'
          PROVE  RewatchedRequests(u, requests') /\ RewatchedReplies(u, requests', replies')
      <4>1. CASE u = t
        BY <2>1, <2>2, <4>1, RewatchedAppend DEF TypeOK
      <4>2. CASE u # t
        <5>1. RewatchedRequests(u, requests) /\ RewatchedReplies(u, requests, replies)
          BY <2>1, <4>2 DEF Rewatched
        <5> QED
          BY <2>1, <2>2, <2>3, <5>1, RewatchedAppend DEF TypeOK
      <4> QED
        BY <4>1, <4>2
    <3> QED
      BY <3>1 DEF Rewatched
  <2>7. ResponsesCounted'
    <3>1. ASSUME NEW u \in Targets, u \notin raced
          PROVE  Count(states', u) = Outstanding(u, requests', replies')
      <4>1. Count(states, u) = Sent(u, requests) + Answered(u, replies)
        BY <1>3, <3>1, OutstandingSum DEF ResponsesCounted, Count
      <4>2. Sent(u, requests') = Sent(u, requests) + (IF u = t THEN 1 ELSE 0) /\ Sent(u, requests) \in Nat
        BY <2>1, <2>2, <2>3, SentAppend DEF TypeOK
      <4>3. Answered(u, replies) \in Nat
        BY CountsNat DEF TypeOK
      <4>4. Count(states', u) = Sent(u, requests') + Answered(u, replies')
        BY <2>1, <2>4, <4>1, <4>2, <4>3
      <4> QED
        BY <4>4, OutstandingSum
    <3> QED
      BY <2>1, <3>1 DEF ResponsesCounted, Count
  <2> QED
    BY <1>1, <2>1, <2>5, <2>6, <2>7 DEF ClosedMeansQuiet
<1> QED
  BY <1>2, <1>3

\* RemoteStore stops listening: likewise.
LEMMA StopListeningStep ==
    ASSUME Inv, NEW t \in Targets, StopListening(t)
    PROVE  Inv'
<1> USE DEF Inv
<1> DEFINE r == UnwatchRequest(t)
<1>1. r \in Requests /\ IsUnwatch(r, t)
  BY DEF UnwatchRequest, Requests, IsUnwatch
<1>2. TypeOK'
  <2>1. IsFiniteSet(listening')
    BY FS_RemoveElement, Zenon DEF TypeOK, StopListening
  <2>2. used' \in [{"listens", "changes", "faults"} -> Nat]
    BY UseType DEF TypeOK, StopListening
  <2>3. states' \in Maps(Targets, TargetState) /\ requests' \in Seq(Requests)
    <3>1. CASE open
      <4>1. RecordPendingTargetRequest(states, t) \in Maps(Targets, TargetState)
        BY RecordResult DEF TypeOK
      <4>2. states' = RecordPendingTargetRequest(states, t) /\ requests' = Append(requests, r)
        BY <3>1 DEF StopListening
      <4>3. requests \in Seq(Requests)
        BY DEF TypeOK
      <4> HIDE DEF r
      <4> QED
        BY <1>1, <4>1, <4>2, <4>3
    <3>2. CASE ~ open
      BY <3>2 DEF TypeOK, StopListening
    <3> QED
      BY <3>1, <3>2
  <2> QED
    BY <2>1, <2>2, <2>3 DEF TypeOK, StopListening, backend, history
<1>3. CASE ~ open
  <2>1. requests' = <<>> /\ replies' = <<>> /\ ~ open'
    BY <1>3 DEF StopListening, ClosedMeansQuiet
  <2> QED
    BY <1>2, <2>1, RewatchedNone DEF ClosedMeansQuiet, Tracked, Rewatched, ResponsesCounted
<1>4. CASE open
  <2>1. open' /\ replies' = replies /\ raced' = raced /\ listening' = listening \ {t}
        /\ states' = RecordPendingTargetRequest(states, t) /\ requests' = Append(requests, r)
    BY <1>4 DEF StopListening, history
  <2> HIDE DEF r
  <2>2. r.t = t
    BY <1>1 DEF IsUnwatch
  <2>3. /\ DOMAIN states' = DOMAIN states \cup {t}
        /\ Count(states', t) = Count(states, t) + 1
        /\ \A u \in Targets : u # t => Count(states', u) = Count(states, u)
    BY <2>1, RecordResult DEF TypeOK
  <2>4. Tracked'
    BY <1>4, <2>1, <2>3 DEF Tracked
  <2>5. Rewatched'
    <3>1. ASSUME NEW u \in listening' \ raced'
          PROVE  RewatchedRequests(u, requests') /\ RewatchedReplies(u, requests', replies')
      <4>1. RewatchedRequests(u, requests) /\ RewatchedReplies(u, requests, replies)
        BY <2>1 DEF Rewatched
      <4>2. ~ IsUnwatch(r, u)
        BY <2>1, <2>2 DEF IsUnwatch
      <4> QED
        BY <1>1, <2>1, <4>1, <4>2, RewatchedAppend DEF TypeOK
    <3> QED
      BY <3>1 DEF Rewatched
  <2>6. ResponsesCounted'
    <3>1. ASSUME NEW u \in Targets, u \notin raced
          PROVE  Count(states', u) = Outstanding(u, requests', replies')
      <4>1. Count(states, u) = Sent(u, requests) + Answered(u, replies)
        BY <1>4, <3>1, OutstandingSum DEF ResponsesCounted, Count
      <4>2. Sent(u, requests') = Sent(u, requests) + (IF u = t THEN 1 ELSE 0)
        BY <1>1, <2>1, <2>2, SentAppend DEF TypeOK
      <4>3. Sent(u, requests) \in Nat /\ Answered(u, replies) \in Nat
        BY CountsNat DEF TypeOK
      <4>4. Count(states', u) = Sent(u, requests') + Answered(u, replies')
        BY <2>1, <2>3, <4>1, <4>2, <4>3
      <4> QED
        BY <4>4, OutstandingSum
    <3> QED
      BY <2>1, <3>1 DEF ResponsesCounted, Count
  <2> QED
    BY <1>2, <2>1, <2>4, <2>5, <2>6 DEF ClosedMeansQuiet
<1> QED
  BY <1>3, <1>4

\* A stream opens: every target is watched once and awaits one response.
LEMMA OpenStep ==
    ASSUME Inv, OnWatchStreamOpen
    PROVE  Inv'
<1> USE DEF Inv
<1> DEFINE st == [NewTargetState EXCEPT !.outstanding = 1]
<1>1. ~ open /\ open' /\ replies' = <<>> /\ listening' = listening /\ raced' = raced
      /\ states' = [t \in listening |-> st]
  BY DEF OnWatchStreamOpen, ClosedMeansQuiet, history
<1>2. /\ requests' \in Seq(Requests)
      /\ \A i \in 1..Len(requests') : requests'[i].kind = "watch"
      /\ \A t \in Targets : Sent(t, requests') = IF t \in listening THEN 1 ELSE 0
  BY SentOpening DEF TypeOK, OnWatchStreamOpen
<1>3. st \in TargetState /\ st.outstanding = 1
  BY NewStateType DEF TargetState
<1> HIDE DEF st
<1>4. states' \in Maps(Targets, TargetState) /\ DOMAIN states' = listening
      /\ \A t : Count(states', t) = IF t \in listening THEN 1 ELSE 0
  <2>1. DOMAIN states' = listening /\ states' \in [listening -> TargetState]
        /\ \A t \in listening : states'[t].outstanding = 1
    BY <1>1, <1>3
  <2>2. states' \in Maps(Targets, TargetState)
    BY <2>1, InMaps DEF TypeOK
  <2> QED
    BY <2>1, <2>2 DEF Count
<1>5. TypeOK'
  BY <1>1, <1>2, <1>4 DEF TypeOK, OnWatchStreamOpen, backend, history
<1>6. Tracked'
  BY <1>1, <1>4 DEF Tracked
<1>7. Rewatched'
  BY <1>1, <1>2 DEF Rewatched, RewatchedRequests, RewatchedReplies, IsUnwatch
<1>8. ResponsesCounted'
  <2>1. ASSUME NEW u \in Targets PROVE Count(states', u) = Outstanding(u, requests', replies')
    BY <1>1, <1>2, <1>4, OutstandingSum, CountNone
  <2> QED
    BY <2>1 DEF ResponsesCounted, Count
<1> QED
  BY <1>1, <1>5, <1>6, <1>7, <1>8 DEF ClosedMeansQuiet

\* A stream breaks, and everything under way is lost with it.
LEMMA CloseStep ==
    ASSUME Inv, OnWatchStreamClose
    PROVE  Inv'
<1> USE DEF Inv
<1>1. ~ open' /\ requests' = <<>> /\ replies' = <<>>
  BY DEF OnWatchStreamClose
<1>2. Empty \in Maps(Targets, TargetState) /\ Empty \in Maps(Targets, Watch)
  BY EmptyMap
<1>3. used' \in [{"listens", "changes", "faults"} -> Nat]
  BY UseType DEF TypeOK, OnWatchStreamClose
<1>4. requests' \in Seq(Requests) /\ replies' \in Seq(Replies) /\ raced' = {} /\ resets' = {}
      /\ open' \in BOOLEAN /\ states' = Empty /\ watch' = Empty
  <2>1. <<>> \in Seq(Requests) /\ <<>> \in Seq(Replies)
    OBVIOUS
  <2> QED
    BY <2>1 DEF OnWatchStreamClose
<1>5. TypeOK'
  BY <1>2, <1>3, <1>4 DEF TypeOK, OnWatchStreamClose
<1> QED
  BY <1>1, <1>5, RewatchedNone DEF ClosedMeansQuiet, Tracked, Rewatched, ResponsesCounted

\* The backend answers its first request: what was to come as a request comes as a reply.
LEMMA ServeKeeps ==
    ASSUME Inv, requests # <<>>, NEW m \in Replies, UNCHANGED <<client, open, raced>>,
           requests' = Tail(requests), replies' = Append(replies, m), open,
           m.t = Head(requests).t, m.kind \in {"Added", "Removed", "Error"},
           m.kind = "Removed" <=> Head(requests).kind = "unwatch"
    PROVE  ClosedMeansQuiet' /\ Tracked' /\ Rewatched' /\ ResponsesCounted'
<1> USE DEF Inv
<1>1. UNCHANGED <<listening, states, open, raced>> /\ open'
  BY DEF client
<1>2. ClosedMeansQuiet' /\ Tracked'
  BY <1>1 DEF ClosedMeansQuiet, Tracked
<1>3. Head(requests) \in Requests
  BY DEF TypeOK
<1>4. Rewatched'
  <2>1. ASSUME NEW u \in listening \ raced
        PROVE  RewatchedRequests(u, requests') /\ RewatchedReplies(u, requests', replies')
    <3>1. RewatchedRequests(u, requests) /\ RewatchedReplies(u, requests, replies)
      BY DEF Rewatched
    <3>2. IsWatch(Head(requests), u) => m.kind \in {"Added", "Error"} /\ m.t = u
      BY DEF IsWatch
    <3>3. m.kind = "Removed" /\ m.t = u => IsUnwatch(Head(requests), u)
      BY DEF IsUnwatch
    <3>4. requests \in Seq(Requests) /\ replies \in Seq(Replies)
      BY DEF TypeOK
    <3> QED
      BY <3>1, <3>2, <3>3, <3>4, RewatchedServe
  <2> QED
    BY <1>1, <2>1 DEF Rewatched
<1>5. ResponsesCounted'
  <2>1. ASSUME NEW u \in Targets, u \notin raced
        PROVE  Outstanding(u, requests', replies') = Outstanding(u, requests, replies)
    <3>1. requests \in Seq(Requests) /\ replies \in Seq(Replies)
      BY DEF TypeOK
    <3>2. Sent(u, requests') \in Nat
          /\ Sent(u, requests) = Sent(u, requests') + (IF Head(requests).t = u THEN 1 ELSE 0)
      BY <3>1, SentTail
    <3>3. Answered(u, replies) \in Nat
          /\ Answered(u, replies') = Answered(u, replies) + (IF IsResponse(m, u) THEN 1 ELSE 0)
      BY <3>1, AnsweredAppend
    <3>4. IsResponse(m, u) <=> Head(requests).t = u
      BY DEF IsResponse
    <3>5. Sent(u, requests') + Answered(u, replies') = Sent(u, requests) + Answered(u, replies)
      BY <3>2, <3>3, <3>4
    <3> QED
      BY <3>5, OutstandingSum
  <2> QED
    BY <1>1, <2>1 DEF ResponsesCounted
<1> QED
  BY <1>2, <1>4, <1>5

\* The types when the backend answers its first request.
LEMMA ServeTypes ==
    ASSUME TypeOK, requests # <<>>, NEW m \in Replies, UNCHANGED <<client, open, results, history>>,
           requests' = Tail(requests), replies' = Append(replies, m),
           watch' \in Maps(Targets, Watch), used' \in [{"listens", "changes", "faults"} -> Nat]
    PROVE  TypeOK'
<1>1. requests' \in Seq(Requests) /\ replies' \in Seq(Replies)
  BY DEF TypeOK
<1> QED
  BY <1>1 DEF TypeOK, client, history

\* The backend begins a watch.
LEMMA ServeWatchStep ==
    ASSUME Inv, ServeWatch
    PROVE  Inv'
<1> DEFINE r == Head(requests)
           m == [kind |-> "Added", t |-> r.t]
<1>1. TypeOK /\ requests # <<>> /\ r.kind = "watch" /\ open /\ replies' = Append(replies, m)
      /\ requests' = Tail(requests) /\ UNCHANGED <<client, open, results, history, used>>
  BY DEF ServeWatch, Reply, Inv
<1>2. r \in Requests
  BY <1>1 DEF TypeOK
<1>3. PICK lost \in SUBSET (IF r.resume THEN r.keys \ results[r.t] ELSE {}) :
          watch' = Put(watch, r.t, [told |-> IF r.resume THEN r.keys \ lost ELSE {},
                                    filter |-> r.resume, current |-> FALSE])
  BY DEF ServeWatch
<1> HIDE DEF r
<1>4. r.t \in Targets /\ r.resume \in BOOLEAN /\ r.keys \in SUBSET Keys
  BY <1>1, <1>2 DEF Requests
<1>5. m \in Replies /\ m.t = r.t /\ m.kind = "Added"
  BY <1>4 DEF Replies
<1> HIDE DEF m
<1>6. watch' \in Maps(Targets, Watch)
  <2> DEFINE w == [told |-> IF r.resume THEN r.keys \ lost ELSE {},
                   filter |-> r.resume, current |-> FALSE]
  <2>1. w \in Watch
    BY <1>4 DEF Watch
  <2> HIDE DEF w
  <2>2. DOMAIN watch \subseteq Targets /\ watch \in [DOMAIN watch -> Watch]
    BY <1>1, InMaps DEF TypeOK
  <2>3. watch' = Put(watch, r.t, w)
    BY <1>3 DEF w
  <2>4. DOMAIN watch' = DOMAIN watch \cup {r.t} /\ watch' \in [DOMAIN watch' -> Watch]
    BY <2>1, <2>2, <2>3 DEF Put
  <2> QED
    BY <1>4, <2>2, <2>4, InMaps
<1>7. TypeOK'
  BY <1>1, <1>5, <1>6, ServeTypes DEF TypeOK
<1>8. ClosedMeansQuiet' /\ Tracked' /\ Rewatched' /\ ResponsesCounted'
  BY <1>1, <1>5, ServeKeeps DEF history, r
<1> QED
  BY <1>7, <1>8 DEF Inv

\* A watch of the backend ends.
LEMMA DropWatch ==
    ASSUME watch \in Maps(Targets, Watch), NEW t
    PROVE  Drop(watch, t) \in Maps(Targets, Watch)
<1>1. DOMAIN watch \subseteq Targets /\ watch \in [DOMAIN watch -> Watch]
  BY InMaps
<1>2. DOMAIN Drop(watch, t) \subseteq Targets /\ Drop(watch, t) \in [DOMAIN Drop(watch, t) -> Watch]
  BY <1>1 DEF Drop
<1> QED
  BY <1>2, InMaps

\* The backend ends a watch.
LEMMA ServeUnwatchStep ==
    ASSUME Inv, ServeUnwatch
    PROVE  Inv'
<1> DEFINE r == Head(requests)
           m == [kind |-> "Removed", t |-> r.t]
<1>1. TypeOK /\ requests # <<>> /\ r.kind = "unwatch" /\ open /\ replies' = Append(replies, m)
      /\ requests' = Tail(requests) /\ UNCHANGED <<client, open, results, history, used>>
      /\ watch' = Drop(watch, r.t)
  BY DEF ServeUnwatch, Reply, Inv
<1>2. r \in Requests
  BY <1>1 DEF TypeOK
<1> HIDE DEF r
<1>3. m \in Replies /\ m.t = r.t /\ m.kind = "Removed"
  <2>1. r.t \in Targets
    BY <1>2 DEF Requests
  <2> QED
    BY <2>1 DEF Replies
<1> HIDE DEF m
<1>4. watch' \in Maps(Targets, Watch)
  BY <1>1, DropWatch DEF TypeOK
<1>5. TypeOK'
  BY <1>1, <1>3, <1>4, ServeTypes DEF TypeOK
<1>6. ClosedMeansQuiet' /\ Tracked' /\ Rewatched' /\ ResponsesCounted'
  BY <1>1, <1>3, ServeKeeps DEF history, r
<1> QED
  BY <1>5, <1>6 DEF Inv

\* The backend refuses a watch.
LEMMA RejectWatchStep ==
    ASSUME Inv, RejectWatch
    PROVE  Inv'
<1> DEFINE r == Head(requests)
           m == [kind |-> "Error", t |-> r.t]
<1>1. TypeOK /\ requests # <<>> /\ r.kind = "watch" /\ open /\ replies' = Append(replies, m)
      /\ requests' = Tail(requests) /\ UNCHANGED <<client, open, results, history>>
      /\ watch' = Drop(watch, r.t)
  BY DEF RejectWatch, Reply, Inv
<1>2. r \in Requests
  BY <1>1 DEF TypeOK
<1> HIDE DEF r
<1>3. m \in Replies /\ m.t = r.t /\ m.kind = "Error"
  <2>1. r.t \in Targets
    BY <1>2 DEF Requests
  <2> QED
    BY <2>1 DEF Replies
<1> HIDE DEF m
<1>4. watch' \in Maps(Targets, Watch)
  BY <1>1, DropWatch DEF TypeOK
<1>5. used' \in [{"listens", "changes", "faults"} -> Nat]
  BY <1>1, UseType DEF TypeOK, RejectWatch
<1>6. TypeOK'
  BY <1>1, <1>3, <1>4, <1>5, ServeTypes DEF TypeOK
<1>7. ClosedMeansQuiet' /\ Tracked' /\ Rewatched' /\ ResponsesCounted'
  BY <1>1, <1>3, ServeKeeps DEF history, r
<1> QED
  BY <1>6, <1>7 DEF Inv

\* The backend sends something that answers no request.
LEMMA SendKeeps ==
    ASSUME Inv, NEW m \in Replies, UNCHANGED <<client, open, requests, results, history>>,
           replies' = Append(replies, m), open, m.kind \notin {"Added", "Removed", "Error"},
           watch' \in Maps(Targets, Watch), used' \in [{"listens", "changes", "faults"} -> Nat]
    PROVE  Inv'
<1> USE DEF Inv
<1>1. UNCHANGED <<listening, states, open, raced, requests>> /\ open'
  BY DEF client, history
<1>2. ClosedMeansQuiet' /\ Tracked'
  BY <1>1 DEF ClosedMeansQuiet, Tracked
<1>3. requests \in Seq(Requests) /\ replies \in Seq(Replies)
  BY DEF TypeOK
<1>4. Rewatched'
  <2>1. ASSUME NEW u \in listening \ raced
        PROVE  RewatchedRequests(u, requests) /\ RewatchedReplies(u, requests, replies')
    <3>1. RewatchedRequests(u, requests) /\ RewatchedReplies(u, requests, replies)
      BY DEF Rewatched
    <3> QED
      BY <1>3, <3>1, RewatchedReply
  <2> QED
    BY <1>1, <2>1 DEF Rewatched
<1>5. ResponsesCounted'
  <2>1. ASSUME NEW u \in Targets
        PROVE  Outstanding(u, requests, replies') = Outstanding(u, requests, replies)
    <3>1. ~ IsResponse(m, u)
      BY DEF IsResponse
    <3>2. Answered(u, replies) \in Nat
          /\ Answered(u, replies') = Answered(u, replies) + (IF IsResponse(m, u) THEN 1 ELSE 0)
      BY <1>3, AnsweredAppend
    <3>3. Answered(u, replies') = Answered(u, replies)
      BY <3>1, <3>2
    <3> QED
      BY <3>3, OutstandingSum
  <2> QED
    BY <1>1, <2>1 DEF ResponsesCounted
<1>6. TypeOK'
  <2>1. replies' \in Seq(Replies)
    BY <1>3
  <2> QED
    BY <2>1 DEF TypeOK, client, history
<1> QED
  BY <1>2, <1>4, <1>5, <1>6

\* The backend's watch of a target changes.
LEMMA ReplaceWatch ==
    ASSUME watch \in Maps(Targets, Watch), NEW t \in DOMAIN watch, NEW w \in Watch
    PROVE  [watch EXCEPT ![t] = w] \in Maps(Targets, Watch)
<1>1. DOMAIN watch \subseteq Targets /\ watch \in [DOMAIN watch -> Watch]
  BY InMaps
<1> DEFINE v == [watch EXCEPT ![t] = w]
<1>2. DOMAIN v = DOMAIN watch /\ v \in [DOMAIN watch -> Watch]
  BY <1>1
<1> HIDE DEF v
<1>3. v \in Maps(Targets, Watch)
  BY <1>1, <1>2, InMaps
<1> QED
  BY <1>3 DEF v

\* What it sends for a target.
LEMMA SendStep ==
    ASSUME Inv, NEW t \in DOMAIN watch, NEW w \in Watch, NEW m \in Replies, Send(t, w, m),
           m.kind \notin {"Added", "Removed", "Error"},
           used' \in [{"listens", "changes", "faults"} -> Nat]
    PROVE  Inv'
<1>1. open /\ replies' = Append(replies, m) /\ watch' = [watch EXCEPT ![t] = w]
      /\ UNCHANGED <<client, open, requests, results, history>>
  BY DEF Send, Reply
<1>2. watch' \in Maps(Targets, Watch)
  BY <1>1, ReplaceWatch DEF Inv, TypeOK
<1> QED
  BY <1>1, <1>2, SendKeeps

\* The backend sends a document, an existence filter or CURRENT.
LEMMA SendUpdateStep ==
    ASSUME Inv, SendUpdate
    PROVE  Inv'
<1>1. TypeOK /\ used' = used
  BY DEF Inv, SendUpdate
<1>2. used' \in [{"listens", "changes", "faults"} -> Nat]
  BY <1>1 DEF TypeOK
<1>3. DOMAIN watch \subseteq Targets /\ watch \in [DOMAIN watch -> Watch]
  BY <1>1, InMaps DEF TypeOK
<1>4. PICK t \in DOMAIN watch :
        LET w == watch[t]
        IN  \/ \E key \in results[t] \ w.told :
                   Send(t, [w EXCEPT !.told = @ \cup {key}], [kind |-> "Doc", t |-> t, key |-> key])
            \/ \E key \in w.told \ results[t] :
                   Send(t, [w EXCEPT !.told = @ \ {key}], [kind |-> "Gone", t |-> t, key |-> key])
            \/ /\ w.filter /\ w.told = results[t]
               /\ \E fp \in SUBSET (Keys \ results[t]) :
                      Send(t, [w EXCEPT !.filter = FALSE],
                           [kind |-> "Filter", t |-> t, count |-> Cardinality(results[t]),
                            bloom |-> results[t] \cup fp])
            \/ /\ ~w.filter /\ ~w.current /\ w.told = results[t]
               /\ Send(t, [w EXCEPT !.current = TRUE], [kind |-> "Current", t |-> t])
  BY DEF SendUpdate
<1> DEFINE w == watch[t]
<1>5. w \in Watch /\ t \in Targets /\ results[t] \in SUBSET Keys /\ w.told \in SUBSET Keys
  BY <1>1, <1>3 DEF TypeOK, Watch
<1> HIDE DEF w
<1>6. ASSUME NEW key \in results[t] \ w.told,
             Send(t, [w EXCEPT !.told = @ \cup {key}], [kind |-> "Doc", t |-> t, key |-> key])
      PROVE  Inv'
  <2> DEFINE v == [w EXCEPT !.told = @ \cup {key}]
             m == [kind |-> "Doc", t |-> t, key |-> key]
  <2>1. v \in Watch
    BY <1>5 DEF Watch
  <2>2. m \in Replies /\ m.kind = "Doc"
    BY <1>5 DEF Replies
  <2>3. Send(t, v, m)
    BY <1>6
  <2> HIDE DEF v, m
  <2> QED
    BY <1>2, <2>1, <2>2, <2>3, SendStep
<1>7. ASSUME NEW key \in w.told \ results[t],
             Send(t, [w EXCEPT !.told = @ \ {key}], [kind |-> "Gone", t |-> t, key |-> key])
      PROVE  Inv'
  <2> DEFINE v == [w EXCEPT !.told = @ \ {key}]
             m == [kind |-> "Gone", t |-> t, key |-> key]
  <2>1. v \in Watch
    BY <1>5 DEF Watch
  <2>2. m \in Replies /\ m.kind = "Gone"
    BY <1>5 DEF Replies
  <2>3. Send(t, v, m)
    BY <1>7
  <2> HIDE DEF v, m
  <2> QED
    BY <1>2, <2>1, <2>2, <2>3, SendStep
<1>8. ASSUME NEW fp \in SUBSET (Keys \ results[t]),
             Send(t, [w EXCEPT !.filter = FALSE],
                  [kind |-> "Filter", t |-> t, count |-> Cardinality(results[t]),
                   bloom |-> results[t] \cup fp])
      PROVE  Inv'
  <2> DEFINE v == [w EXCEPT !.filter = FALSE]
             n == Cardinality(results[t])
             m == [kind |-> "Filter", t |-> t, count |-> n, bloom |-> results[t] \cup fp]
  <2>1. v \in Watch
    BY <1>5 DEF Watch
  <2>2. n \in Nat
    BY <1>5, AggregatorAssumption, FS_Subset, FS_CardinalityType, Zenon
  <2>3. Send(t, v, m)
    BY <1>8
  <2> HIDE DEF v, n
  <2>4. m \in Replies /\ m.kind = "Filter"
    BY <1>5, <2>2 DEF Replies
  <2> HIDE DEF m
  <2> QED
    BY <1>2, <2>1, <2>3, <2>4, SendStep
<1>9. ASSUME Send(t, [w EXCEPT !.current = TRUE], [kind |-> "Current", t |-> t])
      PROVE  Inv'
  <2> DEFINE v == [w EXCEPT !.current = TRUE]
             m == [kind |-> "Current", t |-> t]
  <2>1. v \in Watch
    BY <1>5 DEF Watch
  <2>2. m \in Replies /\ m.kind = "Current"
    BY <1>5 DEF Replies
  <2>3. Send(t, v, m)
    BY <1>9
  <2> HIDE DEF v, m
  <2> QED
    BY <1>2, <2>1, <2>2, <2>3, SendStep
<1> QED
  BY <1>4, <1>6, <1>7, <1>8, <1>9, Zenon DEF w

\* The backend resets a target.
LEMMA SendResetStep ==
    ASSUME Inv, NEW t \in Targets, SendReset(t)
    PROVE  Inv'
<1> DEFINE w == [told |-> {}, filter |-> FALSE, current |-> FALSE]
           m == [kind |-> "Reset", t |-> t]
<1>1. w \in Watch
  BY DEF Watch
<1>2. m \in Replies /\ m.kind = "Reset"
  BY DEF Replies
<1>3. t \in DOMAIN watch /\ Send(t, w, m) /\ Use("faults", MaxFaults)
  BY DEF SendReset
<1>4. used' \in [{"listens", "changes", "faults"} -> Nat]
  BY <1>3, UseType DEF Inv, TypeOK
<1> HIDE DEF w, m
<1> QED
  BY <1>1, <1>2, <1>3, <1>4, SendStep

\* The backend sends a global snapshot.
LEMMA SendSnapshotStep ==
    ASSUME Inv, SendSnapshot
    PROVE  Inv'
<1> DEFINE truth == [t \in DOMAIN watch |-> [keys |-> watch[t].told, current |-> watch[t].current]]
           m == [kind |-> "Snapshot", truth |-> truth]
<1>1. TypeOK /\ watch' = watch /\ used' = used /\ replies' = Append(replies, m) /\ open
      /\ UNCHANGED <<client, open, requests, results, history>>
  BY DEF Inv, SendSnapshot, Reply, backend
<1>2. DOMAIN watch \subseteq Targets /\ watch \in [DOMAIN watch -> Watch]
  BY <1>1, InMaps DEF TypeOK
<1>3. truth \in Maps(Targets, [keys : SUBSET Keys, current : BOOLEAN])
  <2>1. \A t \in DOMAIN watch : watch[t].told \in SUBSET Keys /\ watch[t].current \in BOOLEAN
    BY <1>2 DEF Watch
  <2>2. DOMAIN truth = DOMAIN watch /\ truth \in [DOMAIN watch -> [keys : SUBSET Keys, current : BOOLEAN]]
    BY <2>1
  <2> HIDE DEF truth
  <2> QED
    BY <1>2, <2>2, InMaps
<1> HIDE DEF truth
<1>4. m \in Replies /\ m.kind = "Snapshot"
  BY <1>3 DEF Replies
<1>5. watch' \in Maps(Targets, Watch) /\ used' \in [{"listens", "changes", "faults"} -> Nat]
  BY <1>1 DEF TypeOK
<1> HIDE DEF m
<1> QED
  BY <1>1, <1>4, <1>5, SendKeeps

\* Nothing that the invariant mentions changes but for the types.
LEMMA SameMessages ==
    ASSUME Inv, TypeOK', UNCHANGED <<listening, states, open, raced, requests, replies>>
    PROVE  Inv'
BY DEF Inv, ClosedMeansQuiet, Tracked, Rewatched, ResponsesCounted

\* A result of the backend changes.
LEMMA ChangeResultsStep ==
    ASSUME Inv, NEW t \in Targets, ChangeResults(t)
    PROVE  Inv'
<1>1. TypeOK /\ UNCHANGED <<client, open, requests, replies, watch, history>>
  BY DEF Inv, ChangeResults
<1>2. used' \in [{"listens", "changes", "faults"} -> Nat]
  BY <1>1, UseType DEF TypeOK, ChangeResults
<1>3. results' \in [Targets -> SUBSET Keys]
  BY <1>1 DEF TypeOK, ChangeResults
<1>4. TypeOK'
  BY <1>1, <1>2, <1>3 DEF TypeOK, client, history
<1>5. UNCHANGED <<listening, states, open, raced, requests, replies>>
  BY <1>1 DEF client, history
<1> QED
  BY <1>4, <1>5, SameMessages

\* A reply is taken, and the count of the target that it answers goes down with it.
LEMMA TakeReply ==
    ASSUME Inv, TypeOK', open, open', replies # <<>>, replies' = Tail(replies),
           requests' = requests, listening' \subseteq listening, raced \subseteq raced', Tracked',
           \A u \in Targets \ raced' :
               Count(states', u)
                   = Count(states, u) - (IF IsResponse(Head(replies), u) THEN 1 ELSE 0)
    PROVE  Inv'
<1> USE DEF Inv
<1>1. requests \in Seq(Requests) /\ replies \in Seq(Replies)
  BY DEF TypeOK
<1>2. Rewatched'
  <2>1. ASSUME NEW u \in listening' \ raced'
        PROVE  RewatchedRequests(u, requests) /\ RewatchedReplies(u, requests, replies')
    <3>1. RewatchedRequests(u, requests) /\ RewatchedReplies(u, requests, replies)
      BY DEF Rewatched
    <3> QED
      BY <1>1, <3>1, RewatchedReply
  <2> QED
    BY <2>1 DEF Rewatched
<1>3. ResponsesCounted'
  <2>1. ASSUME NEW u \in Targets, u \notin raced'
        PROVE  Count(states', u) = Outstanding(u, requests', replies')
    <3>1. Count(states, u) = Sent(u, requests) + Answered(u, replies)
      BY <2>1, OutstandingSum DEF ResponsesCounted, Count
    <3>2. Sent(u, requests) \in Nat
      BY <1>1, CountsNat
    <3>3. Answered(u, replies') \in Nat
          /\ Answered(u, replies)
                = Answered(u, replies') + (IF IsResponse(Head(replies), u) THEN 1 ELSE 0)
      BY <1>1, AnsweredTail
    <3>4. Count(states', u)
            = Count(states, u) - (IF IsResponse(Head(replies), u) THEN 1 ELSE 0)
      BY <2>1
    <3>5. Count(states', u) = Sent(u, requests') + Answered(u, replies')
      BY <3>1, <3>2, <3>3, <3>4
    <3> QED
      BY <3>5, OutstandingSum
  <2> QED
    BY <2>1 DEF ResponsesCounted, Count
<1> QED
  BY <1>2, <1>3 DEF ClosedMeansQuiet

\* The types when the aggregator takes a reply.
LEMMA AggregateTypes ==
    ASSUME TypeOK, replies # <<>>, replies' = Tail(replies), UNCHANGED <<open, backend, used>>,
           NEW s \in Maps(Targets, TargetState), Aggregate(s)
    PROVE  TypeOK'
<1>1. replies' \in Seq(Replies)
  BY DEF TypeOK
<1>2. states' = s /\ UNCHANGED <<listening, hasToken, keys, current, resets, requests, history>>
  BY DEF Aggregate
<1> QED
  BY <1>1, <1>2 DEF TypeOK, backend, history

\* The messages that answer no request.
LEMMA UpdateReply ==
    ASSUME Inv, open, replies # <<>>, replies' = Tail(replies), UNCHANGED <<open, backend, used>>,
           Head(replies).kind \notin {"Added", "Removed", "Error"},
           NEW s, SameCounts(states, s), Aggregate(s)
    PROVE  Inv'
<1>1. s \in Maps(Targets, TargetState) /\ DOMAIN states \subseteq DOMAIN s
      /\ \A u \in Targets : Count(s, u) = Count(states, u)
  BY DEF SameCounts
<1>2. states' = s /\ UNCHANGED <<listening, requests, raced>> /\ TypeOK
  BY DEF Aggregate, history, Inv
<1>3. TypeOK'
  BY <1>1, <1>2, AggregateTypes
<1>4. Tracked'
  BY <1>1, <1>2 DEF Inv, Tracked
<1>5. \A u : ~ IsResponse(Head(replies), u)
  BY DEF IsResponse
<1>6. \A u \in Targets : Count(states, u) \in Int
  <2>1. DOMAIN states \subseteq Targets /\ states \in [DOMAIN states -> TargetState]
    BY <1>2, InMaps DEF TypeOK
  <2> QED
    BY <2>1 DEF Count, TargetState
<1>7. \A u \in Targets \ raced' :
          Count(states', u) = Count(states, u) - (IF IsResponse(Head(replies), u) THEN 1 ELSE 0)
  BY <1>1, <1>2, <1>5, <1>6
<1> QED
  BY <1>2, <1>3, <1>4, <1>7, TakeReply

\* An acknowledged watch.
LEMMA AddedReply ==
    ASSUME Inv, open, replies # <<>>, replies' = Tail(replies), UNCHANGED <<open, backend, used>>,
           Head(replies).kind = "Added", NEW t \in Targets, Head(replies).t = t,
           Aggregate(HandleAdded(states, t))
    PROVE  Inv'
<1>1. states \in Maps(Targets, TargetState) /\ TypeOK
  BY DEF Inv, TypeOK
<1> DEFINE s == HandleAdded(states, t)
<1>2. /\ s \in Maps(Targets, TargetState)
      /\ DOMAIN s = DOMAIN states \cup {t}
      /\ Count(s, t) = Count(states, t) - 1
      /\ \A u \in Targets : u # t => Count(s, u) = Count(states, u)
  BY <1>1, AddedResult
<1>3. states' = s /\ UNCHANGED <<listening, requests, raced>>
  BY DEF Aggregate, history
<1>4. Aggregate(s)
  OBVIOUS
<1> HIDE DEF s
<1>5. TypeOK'
  BY <1>1, <1>2, <1>4, AggregateTypes
<1>6. Tracked'
  BY <1>2, <1>3 DEF Inv, Tracked
<1>7. \A u \in Targets : Count(states, u) \in Int
  <2>1. DOMAIN states \subseteq Targets /\ states \in [DOMAIN states -> TargetState]
    BY <1>1, InMaps
  <2> QED
    BY <2>1 DEF Count, TargetState
<1>8. \A u : IsResponse(Head(replies), u) <=> u = t
  BY DEF IsResponse
<1>9. \A u \in Targets \ raced' :
          Count(states', u) = Count(states, u) - (IF IsResponse(Head(replies), u) THEN 1 ELSE 0)
  BY <1>2, <1>3, <1>7, <1>8
<1> QED
  BY <1>3, <1>5, <1>6, <1>9, TakeReply

\* An acknowledged unwatch: a target that is listened to is not forgotten.
LEMMA RemovedReply ==
    ASSUME Inv, open, replies # <<>>, replies' = Tail(replies), UNCHANGED <<open, backend, used>>,
           Head(replies).kind = "Removed", NEW t \in Targets, Head(replies).t = t,
           Aggregate(HandleRemoved(states, t))
    PROVE  Inv'
<1>1. states \in Maps(Targets, TargetState) /\ TypeOK
  BY DEF Inv, TypeOK
<1> DEFINE s == HandleRemoved(states, t)
<1>2. /\ s \in Maps(Targets, TargetState)
      /\ DOMAIN states \ {t} \subseteq DOMAIN s
      /\ Count(states, t) # 1 => t \in DOMAIN s
      /\ Count(s, t) = Count(states, t) - 1
      /\ \A u \in Targets : u # t => Count(s, u) = Count(states, u)
  BY <1>1, RemovedResult
<1>3. states' = s /\ UNCHANGED <<listening, requests, raced>>
  BY DEF Aggregate, history
<1>4. Aggregate(s)
  OBVIOUS
<1> HIDE DEF s
<1>5. TypeOK'
  BY <1>1, <1>2, <1>4, AggregateTypes
<1>6. \A u : IsResponse(Head(replies), u) <=> u = t
  BY DEF IsResponse
<1>7. ASSUME t \in listening \ raced PROVE t \in DOMAIN s
  <2>1. requests \in Seq(Requests) /\ replies \in Seq(Replies)
    BY <1>1 DEF TypeOK
  <2>2. RewatchedReplies(t, requests, replies)
    BY <1>7 DEF Inv, Rewatched
  <2>3. Sent(t, requests) + Answered(t, Tail(replies)) # 0
    BY <2>1, <2>2, RemovedOwed
  <2>4. Sent(t, requests) \in Nat
    BY <2>1, CountsNat
  <2>5. Answered(t, Tail(replies)) \in Nat /\ Answered(t, replies) = Answered(t, Tail(replies)) + 1
    BY <1>6, <2>1, AnsweredTail
  <2>6. Count(states, t) = Sent(t, requests) + Answered(t, replies)
    BY <1>7, OutstandingSum DEF Inv, ResponsesCounted, Count
  <2>7. Count(states, t) # 1
    BY <2>3, <2>4, <2>5, <2>6
  <2> QED
    BY <1>2, <2>7
<1>8. Tracked'
  BY <1>2, <1>3, <1>7 DEF Inv, Tracked
<1>9. \A u \in Targets : Count(states, u) \in Int
  <2>1. DOMAIN states \subseteq Targets /\ states \in [DOMAIN states -> TargetState]
    BY <1>1, InMaps
  <2> QED
    BY <2>1 DEF Count, TargetState
<1>10. \A u \in Targets \ raced' :
          Count(states', u) = Count(states, u) - (IF IsResponse(Head(replies), u) THEN 1 ELSE 0)
  BY <1>2, <1>3, <1>6, <1>9
<1> QED
  BY <1>3, <1>5, <1>8, <1>10, TakeReply

\* A rejected target is dropped; one that still had responses to come is raced.
LEMMA ErrorReply ==
    ASSUME Inv, open, replies # <<>>, replies' = Tail(replies), UNCHANGED <<open, backend, used>>,
           Head(replies).kind = "Error", NEW t \in Targets, Head(replies).t = t,
           ProcessTargetError(t)
    PROVE  Inv'
<1>1. TypeOK /\ states \in Maps(Targets, TargetState)
  BY DEF Inv, TypeOK
<1>2. DOMAIN states \subseteq Targets /\ states \in [DOMAIN states -> TargetState]
  BY <1>1, InMaps
<1>3. /\ DOMAIN Drop(states, t) = DOMAIN states \ {t}
      /\ Drop(states, t) \in [DOMAIN states \ {t} -> TargetState]
      /\ \A u \in DOMAIN states : u # t => Drop(states, t)[u] = states[u]
  BY <1>2 DEF Drop
<1>4. Drop(states, t) \in Maps(Targets, TargetState)
  BY <1>2, <1>3, InMaps
<1>5. Count(Drop(states, t), t) = 0
      /\ \A u \in Targets : u # t => Count(Drop(states, t), u) = Count(states, u)
  BY <1>3 DEF Count
<1>6. UNCHANGED <<hasToken, keys, current, resets, requests, spoiled, wrongKeys, early>>
      /\ (raced' = raced \/ raced' = raced \cup {t})
  BY DEF ProcessTargetError
<1>7. CASE t \in listening
  <2>1. listening' = listening \ {t} /\ states' = Drop(states, t)
    BY <1>7 DEF ProcessTargetError
  <2>2. IsFiniteSet(listening')
    BY <1>1, <2>1, FS_RemoveElement, Zenon DEF TypeOK
  <2>3. replies' \in Seq(Replies)
    BY <1>1 DEF TypeOK
  <2>4. TypeOK'
    BY <1>1, <1>4, <1>6, <2>1, <2>2, <2>3 DEF TypeOK, backend
  <2>5. Tracked'
    BY <1>3, <1>6, <2>1 DEF Inv, Tracked
  <2>6. ASSUME NEW u \in Targets \ raced'
        PROVE  Count(states', u)
                 = Count(states, u) - (IF IsResponse(Head(replies), u) THEN 1 ELSE 0)
    <3>1. CASE u # t
      <4>1. ~ IsResponse(Head(replies), u)
        BY <3>1 DEF IsResponse
      <4>2. Count(states, u) \in Int
        BY <1>2 DEF Count, TargetState
      <4> QED
        BY <1>5, <2>1, <3>1, <4>1, <4>2
    <3>2. CASE u = t
      <4>1. IsResponse(Head(replies), t)
        BY DEF IsResponse
      <4>2. requests \in Seq(Requests) /\ replies \in Seq(Replies)
        BY <1>1 DEF TypeOK
      <4>3. ~ (Outstanding(t, requests, Tail(replies)) > 0) /\ t \notin raced
        BY <2>6, <3>2 DEF ProcessTargetError
      <4>4. ~ (Sent(t, requests) + Answered(t, Tail(replies)) > 0)
        BY <4>3, OutstandingSum
      <4>5. Sent(t, requests) \in Nat
        BY <4>2, CountsNat
      <4>6. Answered(t, Tail(replies)) \in Nat /\ Answered(t, replies) = Answered(t, Tail(replies)) + 1
        BY <4>1, <4>2, AnsweredTail
      <4>7. Count(states, t) = Sent(t, requests) + Answered(t, replies)
        BY <4>3, OutstandingSum DEF Inv, ResponsesCounted, Count
      <4>8. Count(states, t) = 1
        BY <4>4, <4>5, <4>6, <4>7
      <4> QED
        BY <1>5, <2>1, <3>2, <4>1, <4>8
    <3> QED
      BY <3>1, <3>2
  <2> QED
    BY <1>6, <2>1, <2>4, <2>5, <2>6, TakeReply
<1>8. CASE t \notin listening
  <2>1. UNCHANGED <<listening, states>> /\ raced' = raced \cup {t}
    BY <1>8 DEF ProcessTargetError
  <2>2. replies' \in Seq(Replies)
    BY <1>1 DEF TypeOK
  <2>3. TypeOK'
    BY <1>1, <1>6, <2>1, <2>2 DEF TypeOK, backend
  <2>4. Tracked'
    BY <2>1 DEF Inv, Tracked
  <2>5. ASSUME NEW u \in Targets \ raced'
        PROVE  Count(states', u)
                 = Count(states, u) - (IF IsResponse(Head(replies), u) THEN 1 ELSE 0)
    <3>1. ~ IsResponse(Head(replies), u)
      BY <2>1 DEF IsResponse
    <3>2. Count(states, u) \in Int
      BY <1>2 DEF Count, TargetState
    <3> QED
      BY <2>1, <3>1, <3>2
  <2> QED
    BY <1>6, <2>1, <2>3, <2>4, <2>5, TakeReply
<1> QED
  BY <1>7, <1>8

\* An existence filter.
LEMMA FilterReply ==
    ASSUME Inv, open, replies # <<>>, replies' = Tail(replies), UNCHANGED <<open, backend, used>>,
           Head(replies).kind = "Filter", NEW t \in Targets, NEW count, NEW bloom,
           states' = HandleExistenceFilter(states, t, count, bloom)[1],
           resets' = resets \cup HandleExistenceFilter(states, t, count, bloom)[2],
           spoiled' = spoiled \cup CountedTwice(states, t, bloom),
           UNCHANGED <<listening, hasToken, keys, current, requests, raced, wrongKeys, early>>
    PROVE  Inv'
<1>1. TypeOK /\ states \in Maps(Targets, TargetState) /\ keys \in [Targets -> SUBSET Keys]
  BY DEF Inv, TypeOK
<1>2. SameCounts(states, states') /\ resets' \subseteq resets \cup {t}
  BY <1>1, FilterResult
<1>3. spoiled' \subseteq spoiled \cup {t}
  BY DEF CountedTwice
<1>4. states' \in Maps(Targets, TargetState) /\ DOMAIN states \subseteq DOMAIN states'
      /\ \A u \in Targets : Count(states', u) = Count(states, u)
  BY <1>2 DEF SameCounts
<1>5. replies' \in Seq(Replies)
  BY <1>1 DEF TypeOK
<1>6. TypeOK'
  BY <1>1, <1>2, <1>3, <1>4, <1>5 DEF TypeOK, backend
<1>7. Tracked'
  BY <1>4 DEF Inv, Tracked
<1>8. \A u : ~ IsResponse(Head(replies), u)
  BY DEF IsResponse
<1>9. \A u \in Targets : Count(states, u) \in Int
  <2>1. DOMAIN states \subseteq Targets /\ states \in [DOMAIN states -> TargetState]
    BY <1>1, InMaps
  <2> QED
    BY <2>1 DEF Count, TargetState
<1>10. \A u \in Targets \ raced' :
          Count(states', u) = Count(states, u) - (IF IsResponse(Head(replies), u) THEN 1 ELSE 0)
  BY <1>4, <1>8, <1>9
<1> QED
  BY <1>6, <1>7, <1>10, TakeReply

\* The target states after a snapshot.
AfterSnapshot(s, changed, again) ==
    LET cleared == [t \in DOMAIN s |-> IF t \in changed THEN ClearPendingChanges(s[t]) ELSE s[t]]
    IN  [t \in DOMAIN s |-> IF t \in again
                            THEN [cleared[t] EXCEPT !.outstanding = @ + 2]
                            ELSE cleared[t]]

\* The targets that are watched anew await two responses more.
LEMMA SnapshotStates ==
    ASSUME NEW s \in Maps(Targets, TargetState), NEW changed, NEW again
    PROVE  LET r == AfterSnapshot(s, changed, again)
           IN  /\ r \in Maps(Targets, TargetState) /\ DOMAIN r = DOMAIN s
               /\ \A u \in DOMAIN s :
                      Count(r, u) = Count(s, u) + (IF u \in again THEN 2 ELSE 0)
<1> DEFINE clear(t) == ClearPendingChanges(s[t])
           cleared == [t \in DOMAIN s |-> IF t \in changed THEN clear(t) ELSE s[t]]
           more(t) == [cleared[t] EXCEPT !.outstanding = @ + 2]
           r == [t \in DOMAIN s |-> IF t \in again THEN more(t) ELSE cleared[t]]
<1>1. DOMAIN s \subseteq Targets /\ s \in [DOMAIN s -> TargetState]
  BY InMaps
<1>2. Empty \in Maps(Keys, {"Added", "Modified", "Removed"})
  BY EmptyMap
<1>3. \A t \in DOMAIN s : clear(t) \in TargetState /\ clear(t).outstanding = s[t].outstanding
  BY <1>1, <1>2 DEF TargetState, ClearPendingChanges
<1> HIDE DEF clear
<1>4. \A t \in DOMAIN s : cleared[t] \in TargetState /\ cleared[t].outstanding = s[t].outstanding
  BY <1>1, <1>3
<1> HIDE DEF cleared
<1>5. \A t \in DOMAIN s : more(t) \in TargetState /\ more(t).outstanding = s[t].outstanding + 2
  BY <1>4 DEF TargetState
<1> HIDE DEF more
<1>6. \A t \in DOMAIN s : s[t].outstanding \in Int
  BY <1>1 DEF TargetState
<1>7. DOMAIN r = DOMAIN s /\ r \in [DOMAIN s -> TargetState]
  BY <1>4, <1>5
<1>8. \A t \in DOMAIN s : r[t].outstanding = s[t].outstanding + (IF t \in again THEN 2 ELSE 0)
  BY <1>4, <1>5, <1>6
<1> HIDE DEF r
<1>9. r \in Maps(Targets, TargetState)
  BY <1>1, <1>7, InMaps
<1>10. \A u \in DOMAIN s : Count(r, u) = Count(s, u) + (IF u \in again THEN 2 ELSE 0)
  BY <1>7, <1>8 DEF Count
<1> QED
  BY <1>7, <1>9, <1>10 DEF r, more, cleared, clear, AfterSnapshot

\* The types when a snapshot is raised.
LEMMA SnapshotTypes ==
    ASSUME TypeOK, replies # <<>>, replies' = Tail(replies), UNCHANGED <<open, backend, used>>,
           NEW s \in Maps(Targets, TargetState),
           NEW truth \in Maps(Targets, [keys : SUBSET Keys, current : BOOLEAN]),
           RaiseWatchSnapshot(s, truth)
    PROVE  TypeOK'
<1> DEFINE changed == ChangedTargets(s)
           again == resets \cap listening
           newKeys(t) == (keys[t] \cup AddedKeys(s[t])) \ RemovedKeys(s[t])
<1>1. DOMAIN s \subseteq Targets /\ s \in [DOMAIN s -> TargetState] /\ changed \subseteq DOMAIN s
  BY InMaps DEF ChangedTargets
<1>2. \A t \in DOMAIN s : AddedKeys(s[t]) \subseteq Keys
  <2>1. TAKE t \in DOMAIN s
  <2>2. DOMAIN s[t].changes \subseteq Keys
    BY ChangesType
  <2> QED
    BY <2>2 DEF AddedKeys
<1>3. again \in SUBSET Targets /\ IsFiniteSet(again)
  <2>1. again \in SUBSET listening
    OBVIOUS
  <2>2. IsFiniteSet(again)
    BY <2>1, FS_Subset, Zenon DEF TypeOK
  <2> QED
    BY <2>1, <2>2 DEF TypeOK
<1>4. keys' \in [Targets -> SUBSET Keys]
  <2>1. \A t \in changed : newKeys(t) \in SUBSET Keys
    BY <1>1, <1>2 DEF TypeOK
  <2>2. keys' = [t \in Targets |-> IF t \in changed THEN newKeys(t) ELSE keys[t]]
    BY DEF RaiseWatchSnapshot
  <2> HIDE DEF newKeys, changed
  <2> QED
    BY <2>1, <2>2 DEF TypeOK
<1>5. current' \in [Targets -> BOOLEAN]
  <2>1. \A t \in changed : s[t].current \in BOOLEAN
    BY <1>1 DEF TargetState
  <2>2. current' = [t \in Targets |-> IF t \in changed THEN s[t].current ELSE current[t]]
    BY DEF RaiseWatchSnapshot
  <2> HIDE DEF changed
  <2> QED
    BY <2>1, <2>2 DEF TypeOK
<1>6. states' \in Maps(Targets, TargetState)
  <2>1. states' = AfterSnapshot(s, changed, again)
    BY DEF RaiseWatchSnapshot, AfterSnapshot
  <2> QED
    BY <2>1, SnapshotStates
<1>7. requests' \in Seq(Requests)
  <2>1. RewatchRequests(again) \in Seq(Requests)
    BY <1>3, RewatchResult DEF TypeOK
  <2>2. requests' = requests \o RewatchRequests(again) /\ requests \in Seq(Requests)
    BY DEF RaiseWatchSnapshot, TypeOK
  <2> QED
    BY <2>1, <2>2
<1>8. hasToken' \in SUBSET Targets
  <2>1. hasToken' \subseteq hasToken \cup changed
    BY DEF RaiseWatchSnapshot
  <2> QED
    BY <1>1, <2>1 DEF TypeOK
<1>9. wrongKeys' \in SUBSET Targets /\ early' \in SUBSET Targets /\ spoiled' \in SUBSET Targets
  <2>1. DOMAIN truth \subseteq Targets
    BY InMaps
  <2>2. wrongKeys' \subseteq wrongKeys \cup DOMAIN truth /\ early' \subseteq early \cup DOMAIN truth
        /\ spoiled' \subseteq spoiled \cup again
    BY DEF RaiseWatchSnapshot
  <2> QED
    BY <1>3, <2>1, <2>2 DEF TypeOK
<1>10. replies' \in Seq(Replies)
  BY DEF TypeOK
<1>11. UNCHANGED <<listening, raced>> /\ resets' = {}
  BY DEF RaiseWatchSnapshot
<1> QED
  BY <1>4, <1>5, <1>6, <1>7, <1>8, <1>9, <1>10, <1>11 DEF TypeOK, backend

\* A snapshot is raised: what is watched anew is counted as it is requested.
LEMMA SnapshotReply ==
    ASSUME Inv, open, replies # <<>>, replies' = Tail(replies), UNCHANGED <<open, backend, used>>,
           Head(replies).kind = "Snapshot",
           NEW truth \in Maps(Targets, [keys : SUBSET Keys, current : BOOLEAN]),
           RaiseWatchSnapshot(HandleNoChange(states), truth)
    PROVE  Inv'
<1> DEFINE s == HandleNoChange(states)
           again == resets \cap listening
<1>1. TypeOK /\ states \in Maps(Targets, TargetState) /\ keys \in [Targets -> SUBSET Keys]
      /\ requests \in Seq(Requests) /\ replies \in Seq(Replies)
  BY DEF Inv, TypeOK
<1>2. SameCounts(states, s) /\ DOMAIN s = DOMAIN states
  BY <1>1, NoChangeResult
<1>3. s \in Maps(Targets, TargetState) /\ \A u \in Targets : Count(s, u) = Count(states, u)
  BY <1>2 DEF SameCounts
<1>4. RaiseWatchSnapshot(s, truth)
  OBVIOUS
<1> HIDE DEF s
<1>5. TypeOK'
  BY <1>1, <1>3, <1>4, SnapshotTypes
<1>6. again \in SUBSET Targets /\ IsFiniteSet(again)
  <2>1. again \in SUBSET listening
    OBVIOUS
  <2>2. IsFiniteSet(again)
    BY <1>1, <2>1, FS_Subset, Zenon DEF TypeOK
  <2> QED
    BY <1>1, <2>1, <2>2 DEF TypeOK
<1>7. UNCHANGED <<listening, raced>> /\ requests' = requests \o RewatchRequests(again)
  BY <1>4 DEF RaiseWatchSnapshot
<1>8. DOMAIN states' = DOMAIN s
      /\ \A u \in DOMAIN s : Count(states', u) = Count(s, u) + (IF u \in again THEN 2 ELSE 0)
  <2>1. states' = AfterSnapshot(s, ChangedTargets(s), again)
    BY <1>4 DEF RaiseWatchSnapshot, AfterSnapshot
  <2> QED
    BY <1>3, <2>1, SnapshotStates
<1>9. Tracked'
  BY <1>2, <1>7, <1>8 DEF Inv, Tracked
<1>10. Rewatched'
  <2>1. ASSUME NEW u \in listening \ raced
        PROVE  RewatchedRequests(u, requests') /\ RewatchedReplies(u, requests', replies')
    <3>1. RewatchedRequests(u, requests) /\ RewatchedReplies(u, requests, replies)
      BY DEF Inv, Rewatched
    <3>2. RewatchedReplies(u, requests, replies')
      BY <1>1, <3>1, RewatchedReply
    <3> HIDE DEF again
    <3> QED
      BY <1>1, <1>6, <1>7, <3>1, <3>2, RewatchedAgain
  <2> QED
    BY <1>7, <2>1 DEF Rewatched
<1>11. ResponsesCounted'
  <2>1. ASSUME NEW u \in Targets, u \notin raced
        PROVE  Count(states', u) = Outstanding(u, requests', replies')
    <3>1. Count(states, u) = Sent(u, requests) + Answered(u, replies)
      BY <2>1, OutstandingSum DEF Inv, ResponsesCounted, Count
    <3>2. Sent(u, requests) \in Nat
      BY <1>1, CountsNat
    <3>3. ~ IsResponse(Head(replies), u)
      BY DEF IsResponse
    <3>4. Answered(u, replies') \in Nat /\ Answered(u, replies) = Answered(u, replies')
      BY <1>1, <3>3, AnsweredTail
    <3>5. Sent(u, requests') = Sent(u, requests) + (IF u \in again THEN 2 ELSE 0)
      <4> HIDE DEF again
      <4> QED
        BY <1>1, <1>6, <1>7, SentRewatch
    <3>6. u \in again => u \in DOMAIN s
      BY <1>2, <2>1 DEF Inv, Tracked
    <3>7. u \notin DOMAIN s => Count(states', u) = 0 /\ Count(s, u) = 0
      BY <1>8 DEF Count
    <3> HIDE DEF again
    <3>8. Count(states', u) = Count(states, u) + (IF u \in again THEN 2 ELSE 0)
      BY <1>3, <1>8, <2>1, <3>6, <3>7
    <3>9. Count(states', u) = Sent(u, requests') + Answered(u, replies')
      BY <3>1, <3>2, <3>4, <3>5, <3>8
    <3> QED
      BY <3>9, OutstandingSum
  <2> QED
    BY <1>7, <2>1 DEF ResponsesCounted, Count
<1> QED
  BY <1>5, <1>9, <1>10, <1>11 DEF Inv, ClosedMeansQuiet

\* A message of the watch stream arrives.
LEMMA ChangeStep ==
    ASSUME Inv, OnWatchStreamChange
    PROVE  Inv'
<1> DEFINE m == Head(replies)
<1>1. open /\ replies # <<>> /\ replies' = Tail(replies) /\ UNCHANGED <<open, backend, used>>
  BY DEF OnWatchStreamChange
<1>2. m \in Replies /\ states \in Maps(Targets, TargetState) /\ keys \in [Targets -> SUBSET Keys]
  BY <1>1 DEF Inv, TypeOK
<1>3. m.kind # "Snapshot" => m.t \in Targets
  BY <1>2 DEF Replies
<1>4. m.kind \in {"Doc", "Gone"} => m.key \in Keys
  BY <1>2 DEF Replies
<1>5. m.kind = "Snapshot" => m.truth \in Maps(Targets, [keys : SUBSET Keys, current : BOOLEAN])
  BY <1>2 DEF Replies
<1>6. ASSUME m.kind = "Added", Aggregate(HandleAdded(states, m.t)) PROVE Inv'
  BY <1>1, <1>3, <1>6, AddedReply
<1>7. ASSUME m.kind = "Removed", Aggregate(HandleRemoved(states, m.t)) PROVE Inv'
  BY <1>1, <1>3, <1>7, RemovedReply
<1>8. ASSUME m.kind = "Current", Aggregate(HandleCurrent(states, m.t)) PROVE Inv'
  <2>1. SameCounts(states, HandleCurrent(states, m.t))
    BY <1>2, <1>3, <1>8, CurrentResult
  <2> QED
    BY <1>1, <1>8, <2>1, UpdateReply
<1>9. ASSUME m.kind = "Reset", Aggregate(HandleReset(states, m.t)) PROVE Inv'
  <2>1. SameCounts(states, HandleReset(states, m.t))
    BY <1>2, <1>3, <1>9, HandleResetResult
  <2> QED
    BY <1>1, <1>9, <2>1, UpdateReply
<1>10. ASSUME m.kind = "Doc", Aggregate(AddDocumentToTarget(states, m.t, m.key)) PROVE Inv'
  <2>1. SameCounts(states, AddDocumentToTarget(states, m.t, m.key))
    BY <1>2, <1>3, <1>4, <1>10, AddDocumentResult
  <2> QED
    BY <1>1, <1>10, <2>1, UpdateReply
<1>11. ASSUME m.kind = "Gone", Aggregate(RemoveDocumentFromTarget(states, m.t, m.key)) PROVE Inv'
  <2>1. SameCounts(states, RemoveDocumentFromTarget(states, m.t, m.key))
    BY <1>2, <1>3, <1>4, <1>11, RemoveDocumentResult
  <2> QED
    BY <1>1, <1>11, <2>1, UpdateReply
<1>12. ASSUME m.kind = "Filter",
              states' = HandleExistenceFilter(states, m.t, m.count, m.bloom)[1],
              resets' = resets \cup HandleExistenceFilter(states, m.t, m.count, m.bloom)[2],
              spoiled' = spoiled \cup CountedTwice(states, m.t, m.bloom),
              UNCHANGED <<listening, hasToken, keys, current, requests, raced, wrongKeys, early>>
       PROVE  Inv'
  BY <1>1, <1>3, <1>12, FilterReply
<1>13. ASSUME m.kind = "Error", ProcessTargetError(m.t) PROVE Inv'
  BY <1>1, <1>3, <1>13, ErrorReply
<1>14. ASSUME m.kind = "Snapshot", RaiseWatchSnapshot(HandleNoChange(states), m.truth) PROVE Inv'
  BY <1>1, <1>5, <1>14, SnapshotReply
<1> QED
  BY <1>6, <1>7, <1>8, <1>9, <1>10, <1>11, <1>12, <1>13, <1>14 DEF OnWatchStreamChange

-----------------------------------------------------------------------------
(* The theorems. *)

\* The invariant holds at first.
LEMMA InitInv == Init => Inv
<1> SUFFICES ASSUME Init PROVE Inv
  OBVIOUS
<1>1. Empty \in Maps(Targets, TargetState) /\ Empty \in Maps(Targets, Watch)
  BY EmptyMap
<1>2. IsFiniteSet({})
  BY FS_EmptySet
<1>3. <<>> \in Seq(Requests) /\ <<>> \in Seq(Replies)
  OBVIOUS
<1>4. TypeOK
  <2>1. used \in [{"listens", "changes", "faults"} -> Nat]
    <3>1. used = [k \in {"listens", "changes", "faults"} |-> 0]
      BY DEF Init
    <3> QED
      BY <3>1
  <2>2. keys \in [Targets -> SUBSET Keys] /\ current \in [Targets -> BOOLEAN]
        /\ results \in [Targets -> SUBSET Keys]
    BY DEF Init
  <2>3. /\ listening \in SUBSET Targets /\ hasToken \in SUBSET Targets /\ resets \in SUBSET Targets
        /\ open \in BOOLEAN /\ raced \in SUBSET Targets /\ spoiled \in SUBSET Targets
        /\ wrongKeys \in SUBSET Targets /\ early \in SUBSET Targets
    BY DEF Init
  <2>4. IsFiniteSet(listening) /\ states = Empty /\ watch = Empty /\ requests = <<>> /\ replies = <<>>
    BY <1>2 DEF Init
  <2> QED
    BY <1>1, <1>3, <2>1, <2>2, <2>3, <2>4 DEF TypeOK
<1> QED
  BY <1>4, RewatchedNone DEF Init, Inv, ClosedMeansQuiet, Tracked, Rewatched, ResponsesCounted

\* Every step keeps it.
LEMMA NextInv ==
    ASSUME Inv, [Next]_vars
    PROVE  Inv'
<1>1. ASSUME NEW t \in Targets, Listen(t) PROVE Inv'
  BY <1>1, ListenStep
<1>2. ASSUME NEW t \in Targets, StopListening(t) PROVE Inv'
  BY <1>2, StopListeningStep
<1>3. ASSUME NEW t \in Targets, SendReset(t) PROVE Inv'
  BY <1>3, SendResetStep
<1>4. ASSUME NEW t \in Targets, ChangeResults(t) PROVE Inv'
  BY <1>4, ChangeResultsStep
<1>5. CASE OnWatchStreamOpen
  BY <1>5, OpenStep
<1>6. CASE OnWatchStreamClose
  BY <1>6, CloseStep
<1>7. CASE OnWatchStreamChange
  BY <1>7, ChangeStep
<1>8. CASE ServeWatch
  BY <1>8, ServeWatchStep
<1>9. CASE ServeUnwatch
  BY <1>9, ServeUnwatchStep
<1>10. CASE RejectWatch
  BY <1>10, RejectWatchStep
<1>11. CASE SendUpdate
  BY <1>11, SendUpdateStep
<1>12. CASE SendSnapshot
  BY <1>12, SendSnapshotStep
<1>13. CASE UNCHANGED vars
  <2>1. TypeOK'
    BY <1>13 DEF Inv, TypeOK, vars, client, backend, history
  <2>2. UNCHANGED <<listening, states, open, raced, requests, replies>>
    BY <1>13 DEF vars, client, history
  <2> QED
    BY <2>1, <2>2, SameMessages
<1> QED
  BY <1>1, <1>2, <1>3, <1>4, <1>5, <1>6, <1>7, <1>8, <1>9, <1>10, <1>11, <1>12, <1>13 DEF Next

\* The inductive invariant holds throughout.
THEOREM InvHolds == Spec => []Inv
<1>1. Inv /\ [Next]_vars => Inv'
  BY NextInv
<1> QED
  BY <1>1, InitInv, PTL DEF Spec

\* Target states, requests and replies keep their types (target_states_, the messages of
\* WatchStream).
THEOREM TypeCorrect == Spec => []TypeOK
<1>1. Inv => TypeOK
  BY DEF Inv
<1> QED
  BY <1>1, InvHolds, PTL

\* Whatever is listened to, unlistened, rejected, reset or lost with a stream, the aggregator
\* awaits for a target exactly the responses that are under way for it
\* (RecordPendingTargetRequest, RecordTargetResponse, IsPending).
THEOREM ResponsesCountedHolds == Spec => []ResponsesCounted
<1>1. Inv => ResponsesCounted
  BY DEF Inv
<1> QED
  BY <1>1, InvHolds, PTL

-----------------------------------------------------------------------------
(* What the replies under way tell a target: the backend's view of it, reply by reply. *)

\* The backend sends CURRENT only after the existence filter.
GoodWatch == {w \in Watch : w.current => ~w.filter}

Fresh == [told |-> {}, filter |-> FALSE, current |-> FALSE]

\* The keys that a target has with the changes collected for it.
View(ks, st) == (ks \cup AddedKeys(st)) \ RemovedKeys(st)

\* The changes collected for a target agree with its keys, and with them it has what the
\* backend has told it; more only as long as an existence filter is to come.
Follows(ks, st, w) ==
    /\ AddedKeys(st) \cap ks = {} /\ RemovedKeys(st) \subseteq ks
    /\ w.told \subseteq View(ks, st)
    /\ ~w.filter => View(ks, st) = w.told
    /\ w.current => st.current

\* A watch that begins with the client's keys ks.
StartsFrom(ks, w) == w.told \subseteq ks /\ (~w.filter => w.told = ks) /\ ~w.current

\* The reply m says that the watch of t has gone from a to b.
Means(t, ks, m, a, b) ==
    IF m.kind = "Snapshot"
    THEN b = a /\ (t \in DOMAIN m.truth => m.truth[t] = [keys |-> a.told, current |-> a.current])
    ELSE IF m.t # t THEN b = a
    ELSE \/ m.kind = "Added" /\ StartsFrom(ks, b)
         \/ m.kind \in {"Removed", "Error"}
         \/ m.kind = "Current" /\ ~a.filter /\ b = [a EXCEPT !.current = TRUE]
         \/ m.kind = "Reset" /\ b = Fresh
         \/ m.kind = "Doc" /\ b = [a EXCEPT !.told = @ \cup {m.key}]
         \/ m.kind = "Gone" /\ b = [a EXCEPT !.told = @ \ {m.key}]
         \/ /\ m.kind = "Filter" /\ m.count = Cardinality(a.told) /\ a.told \subseteq m.bloom
            /\ b = [a EXCEPT !.filter = FALSE]

\* The replies lead from a watch that the state st follows, if the target is live, to the
\* watch w, if the backend has one.
Explained(t, ks, reps, live, st, watched, w) ==
    \E h \in [0..Len(reps) -> GoodWatch] :
        /\ \A i \in 1..Len(reps) : Means(t, ks, reps[i], h[i - 1], h[i])
        /\ watched => h[Len(reps)] = w
        /\ live => Follows(ks, st, h[0])

\* What may be sent as m.
Sendable(t, ks, m, watched, w, watching, v) ==
    \A a \in GoodWatch : (watched => a = w) =>
        \E b \in GoodWatch : Means(t, ks, m, a, b) /\ (watching => b = v)

\* A reply is sent.
LEMMA ExplainedSend ==
    ASSUME NEW t, NEW ks, NEW reps \in Seq(Replies), NEW m \in Replies, NEW live, NEW st,
           NEW watched, NEW w, NEW watching, NEW v,
           Explained(t, ks, reps, live, st, watched, w),
           Sendable(t, ks, m, watched, w, watching, v)
    PROVE  Explained(t, ks, Append(reps, m), live, st, watching, v)
<1> DEFINE n == Len(reps)
           more == Append(reps, m)
<1>1. n \in Nat /\ Len(more) = n + 1 /\ more[n + 1] = m /\ \A i \in 1..n : more[i] = reps[i]
  OBVIOUS
<1>2. PICK h \in [0..n -> GoodWatch] :
        /\ \A i \in 1..n : Means(t, ks, reps[i], h[i - 1], h[i])
        /\ watched => h[n] = w
        /\ live => Follows(ks, st, h[0])
  BY DEF Explained
<1> HIDE DEF n, more
<1>3. h[n] \in GoodWatch
  BY <1>1, <1>2
<1>4. PICK b \in GoodWatch : Means(t, ks, m, h[n], b) /\ (watching => b = v)
  BY <1>2, <1>3 DEF Sendable
<1> DEFINE g == [i \in 0..(n + 1) |-> IF i = n + 1 THEN b ELSE h[i]]
<1>5. g \in [0..(n + 1) -> GoodWatch] /\ g[n + 1] = b /\ \A i \in 0..n : g[i] = h[i]
  BY <1>1, <1>2
<1> HIDE DEF g
<1>6. ASSUME NEW i \in 1..(n + 1) PROVE Means(t, ks, more[i], g[i - 1], g[i])
  <2>1. CASE i = n + 1
    BY <1>1, <1>4, <1>5, <2>1
  <2>2. CASE i # n + 1
    <3>1. i \in 1..n /\ i \in 0..n /\ i - 1 \in 0..n
      BY <1>1, <2>2
    <3> QED
      BY <1>1, <1>2, <1>5, <3>1
  <2> QED
    BY <2>1, <2>2
<1>7. g[0] = h[0]
  BY <1>1, <1>5
<1>8. Explained(t, ks, more, live, st, watching, v)
  BY <1>1, <1>2, <1>4, <1>5, <1>6, <1>7 DEF Explained
<1> QED
  BY <1>8 DEF more

\* No watch of t is acknowledged by the replies.
NotAdded(t, reps) == \A i \in 1..Len(reps) : ~ (reps[i].kind = "Added" /\ reps[i].t = t)

\* Only an acknowledged watch depends on the client's keys.
LEMMA MeansKeys ==
    ASSUME NEW t, NEW ks, NEW ls, NEW m, NEW a, NEW b, Means(t, ks, m, a, b),
           ~ (m.kind = "Added" /\ m.t = t)
    PROVE  Means(t, ls, m, a, b)
BY DEF Means

\* What a target follows before the reply m, it follows after it.
Followed(t, ks, m, live, st, ls, alive, rt) ==
    \A a, b \in GoodWatch :
        Means(t, ks, m, a, b) /\ (live => Follows(ks, st, a)) /\ alive => Follows(ls, rt, b)

\* The first reply is taken.
LEMMA ExplainedTake ==
    ASSUME NEW t, NEW ks, NEW reps \in Seq(Replies), reps # <<>>, NEW live, NEW st,
           NEW watched, NEW w, NEW ls, NEW alive, NEW rt,
           Explained(t, ks, reps, live, st, watched, w),
           Followed(t, ks, Head(reps), live, st, ls, alive, rt),
           ls = ks \/ NotAdded(t, Tail(reps))
    PROVE  Explained(t, ls, Tail(reps), alive, rt, watched, w)
<1> DEFINE n == Len(reps) - 1
           rest == Tail(reps)
<1>1. n \in Nat /\ Len(reps) = n + 1 /\ Len(rest) = n /\ Head(reps) = reps[1]
      /\ \A i \in 1..n : rest[i] = reps[i + 1]
  OBVIOUS
<1>2. PICK h \in [0..(n + 1) -> GoodWatch] :
        /\ \A i \in 1..(n + 1) : Means(t, ks, reps[i], h[i - 1], h[i])
        /\ watched => h[n + 1] = w
        /\ live => Follows(ks, st, h[0])
  BY <1>1 DEF Explained
<1> HIDE DEF n, rest
<1> DEFINE g == [i \in 0..n |-> h[i + 1]]
<1>3. g \in [0..n -> GoodWatch] /\ \A i \in 0..n : g[i] = h[i + 1]
  BY <1>1, <1>2
<1> HIDE DEF g
<1>4. g[0] = h[1] /\ g[n] = h[n + 1]
  BY <1>1, <1>3
<1>5. alive => Follows(ls, rt, g[0])
  <2>1. Means(t, ks, Head(reps), h[0], h[1]) /\ h[0] \in GoodWatch /\ h[1] \in GoodWatch
    <3>1. 1 \in 1..(n + 1) /\ 0 \in 0..(n + 1) /\ 1 \in 0..(n + 1) /\ 1 - 1 = 0
      BY <1>1
    <3> QED
      BY <1>1, <1>2, <3>1
  <2> QED
    BY <1>2, <1>4, <2>1 DEF Followed
<1>6. ASSUME NEW i \in 1..n PROVE Means(t, ls, rest[i], g[i - 1], g[i])
  <2>1. i + 1 \in 1..(n + 1) /\ (i + 1) - 1 = i /\ i \in 0..n /\ i - 1 \in 0..n /\ (i - 1) + 1 = i
    BY <1>1
  <2>2. Means(t, ks, rest[i], h[i], h[i + 1])
    BY <1>1, <1>2, <2>1
  <2>3. Means(t, ks, rest[i], g[i - 1], g[i])
    BY <1>3, <2>1, <2>2
  <2>4. CASE ls = ks
    BY <2>3, <2>4
  <2>5. CASE NotAdded(t, Tail(reps))
    <3>1. ~ (rest[i].kind = "Added" /\ rest[i].t = t)
      BY <1>1, <2>5 DEF NotAdded, rest
    <3> QED
      BY <2>3, <3>1, MeansKeys
  <2> QED
    BY <2>4, <2>5
<1>7. Explained(t, ls, rest, alive, rt, watched, w)
  BY <1>1, <1>2, <1>3, <1>4, <1>5, <1>6 DEF Explained
<1> QED
  BY <1>7 DEF rest

\* A target that is live is live with the same state.
LEMMA ExplainedStill ==
    ASSUME NEW t, NEW ks, NEW reps, NEW live, NEW st, NEW watched, NEW w, NEW alive, NEW rt,
           Explained(t, ks, reps, live, st, watched, w), alive => live /\ rt = st
    PROVE  Explained(t, ks, reps, alive, rt, watched, w)
BY DEF Explained

\* No reply is under way, no target is live and no watch goes on.
LEMMA ExplainedNone ==
    ASSUME NEW t, NEW ks, NEW live, NEW st, NEW watched, NEW w, ~live, ~watched
    PROVE  Explained(t, ks, <<>>, live, st, watched, w)
<1> DEFINE h == [i \in 0..0 |-> Fresh]
<1>1. Fresh \in GoodWatch
  BY DEF Fresh, GoodWatch, Watch
<1>2. h \in [0..0 -> GoodWatch] /\ Len(<<>>) = 0 /\ 1..0 = {}
  BY <1>1
<1> HIDE DEF h
<1> QED
  BY <1>2 DEF Explained

-----------------------------------------------------------------------------
(* How each message keeps a target in step with the backend. *)

\* r differs from s in the state of t only.
SameBut(s, r, t) ==
    \A u : u # t => /\ u \in DOMAIN r <=> u \in DOMAIN s
                    /\ u \in DOMAIN s => r[u] = s[u]

\* SameBut composes.
LEMMA SameButTrans ==
    ASSUME NEW s, NEW r, NEW q, NEW t, SameBut(s, r, t), SameBut(r, q, t)
    PROVE  SameBut(s, q, t)
BY DEF SameBut

\* EnsureTargetState touches no other target, and keeps one that has a state.
LEMMA EnsureSame ==
    ASSUME NEW s, NEW t
    PROVE  SameBut(s, EnsureTargetState(s, t), t) /\ (t \in DOMAIN s => EnsureTargetState(s, t) = s)
BY DEF SameBut, EnsureTargetState, Put

\* The type of its result.
LEMMA EnsureTyped ==
    ASSUME NEW s \in Maps(Targets, TargetState), NEW t \in Targets
    PROVE  EnsureTargetState(s, t) \in Maps(Targets, TargetState) /\ t \in DOMAIN EnsureTargetState(s, t)
<1>1. /\ SameCounts(s, EnsureTargetState(s, t))
      /\ DOMAIN EnsureTargetState(s, t) = DOMAIN s \cup {t}
  BY EnsureResult
<1> QED
  BY <1>1 DEF SameCounts

\* An entry is replaced.
LEMMA ReplaceSame ==
    ASSUME NEW s, NEW t \in DOMAIN s, NEW st
    PROVE  SameBut(s, [s EXCEPT ![t] = st], t) /\ [s EXCEPT ![t] = st][t] = st
BY DEF SameBut

\* An entry is dropped.
LEMMA DropSame ==
    ASSUME NEW s, NEW t
    PROVE  SameBut(s, Drop(s, t), t) /\ t \notin DOMAIN Drop(s, t)
BY DEF SameBut, Drop

\* The changes of st are replaced by c.
Changed(st, rt, c) == rt.changes = c /\ rt.current = st.current

\* The changes c, with the removal of some keys.
WithRemoved(c, gone) == [k \in DOMAIN c \cup gone |-> IF k \in gone THEN "Removed" ELSE c[k]]

\* Marking a target as changed.
LEMMA MarkSame ==
    ASSUME NEW s \in Maps(Targets, TargetState), NEW t \in DOMAIN s, NEW c
    PROVE  LET r == [s EXCEPT ![t].pending = TRUE, ![t].changes = c]
           IN  SameBut(s, r, t) /\ Changed(s[t], r[t], c)
<1> DEFINE st == [s[t] EXCEPT !.pending = TRUE, !.changes = c]
           r == [s EXCEPT ![t] = st]
<1>1. s \in [DOMAIN s -> TargetState]
  BY InMaps
<1>2. [s EXCEPT ![t].pending = TRUE, ![t].changes = c] = r
  BY <1>1
<1>3. Changed(s[t], st, c)
  BY <1>1 DEF TargetState, Changed
<1> HIDE DEF st
<1>4. SameBut(s, r, t) /\ r[t] = st
  BY ReplaceSame
<1> QED
  BY <1>2, <1>3, <1>4

\* A document enters the view.
LEMMA FollowsDoc ==
    ASSUME NEW ks, NEW st, NEW rt, NEW key, NEW a \in GoodWatch, NEW b, Follows(ks, st, a),
           Changed(st, rt, Put(st.changes, key, IF key \in ks THEN "Modified" ELSE "Added")),
           b = [a EXCEPT !.told = @ \cup {key}]
    PROVE  Follows(ks, rt, b)
<1>1. b.told = a.told \cup {key} /\ b.filter = a.filter /\ b.current = a.current
  BY DEF GoodWatch, Watch
<1>2. AddedKeys(rt) = IF key \in ks THEN AddedKeys(st) \ {key} ELSE AddedKeys(st) \cup {key}
  BY DEF AddedKeys, Changed, Put
<1>3. RemovedKeys(rt) = RemovedKeys(st) \ {key}
  BY DEF RemovedKeys, Changed, Put
<1> DEFINE A == AddedKeys(st)
           R == RemovedKeys(st)
<1>4. A \cap ks = {} /\ R \subseteq ks
  BY DEF Follows
<1>5. AddedKeys(rt) \cap ks = {} /\ RemovedKeys(rt) \subseteq ks
  BY <1>2, <1>3, <1>4
<1>6. View(ks, rt) = View(ks, st) \cup {key}
  <2> HIDE DEF A, R
  <2>1. CASE key \in ks
    <3>1. (ks \cup (A \ {key})) \ (R \ {key}) = ((ks \cup A) \ R) \cup {key}
      BY <1>4, <2>1
    <3> QED
      BY <1>2, <1>3, <2>1, <3>1 DEF View, A, R
  <2>2. CASE key \notin ks
    <3>1. (ks \cup (A \cup {key})) \ (R \ {key}) = ((ks \cup A) \ R) \cup {key}
      BY <1>4, <2>2
    <3> QED
      BY <1>2, <1>3, <2>2, <3>1 DEF View, A, R
  <2> QED
    BY <2>1, <2>2
<1>7. rt.current = st.current
  BY DEF Changed
<1> QED
  BY <1>1, <1>5, <1>6, <1>7 DEF Follows

\* A document leaves it.
LEMMA FollowsGone ==
    ASSUME NEW ks, NEW st, NEW rt, NEW key, NEW a \in GoodWatch, NEW b, Follows(ks, st, a),
           Changed(st, rt, IF key \in ks THEN Put(st.changes, key, "Removed")
                           ELSE Drop(st.changes, key)),
           b = [a EXCEPT !.told = @ \ {key}]
    PROVE  Follows(ks, rt, b)
<1>1. b.told = a.told \ {key} /\ b.filter = a.filter /\ b.current = a.current
  BY DEF GoodWatch, Watch
<1> DEFINE A == AddedKeys(st)
           R == RemovedKeys(st)
<1>2. A \cap ks = {} /\ R \subseteq ks
  BY DEF Follows
<1>3. AddedKeys(rt) = A \ {key}
  <2>1. CASE key \in ks
    BY <2>1 DEF AddedKeys, Changed, Put
  <2>2. CASE key \notin ks
    BY <2>2 DEF AddedKeys, Changed, Drop
  <2> QED
    BY <2>1, <2>2
<1>4. RemovedKeys(rt) = IF key \in ks THEN R \cup {key} ELSE R
  <2>1. CASE key \in ks
    BY <2>1 DEF RemovedKeys, Changed, Put
  <2>2. CASE key \notin ks
    <3>1. RemovedKeys(rt) = R \ {key}
      BY <2>2 DEF RemovedKeys, Changed, Drop
    <3> QED
      BY <1>2, <2>2, <3>1
  <2> QED
    BY <2>1, <2>2
<1>5. AddedKeys(rt) \cap ks = {} /\ RemovedKeys(rt) \subseteq ks
  BY <1>2, <1>3, <1>4
<1>6. View(ks, rt) = View(ks, st) \ {key}
  <2> HIDE DEF A, R
  <2>1. CASE key \in ks
    <3>1. (ks \cup (A \ {key})) \ (R \cup {key}) = ((ks \cup A) \ R) \ {key}
      OBVIOUS
    <3> QED
      BY <1>3, <1>4, <2>1, <3>1 DEF View, A, R
  <2>2. CASE key \notin ks
    <3>1. (ks \cup (A \ {key})) \ R = ((ks \cup A) \ R) \ {key}
      BY <2>2
    <3> QED
      BY <1>3, <1>4, <2>2, <3>1 DEF View, A, R
  <2> QED
    BY <2>1, <2>2
<1>7. rt.current = st.current
  BY DEF Changed
<1> QED
  BY <1>1, <1>5, <1>6, <1>7 DEF Follows

\* CURRENT.
LEMMA FollowsCurrent ==
    ASSUME NEW ks, NEW st, NEW rt, NEW a \in GoodWatch, NEW b, Follows(ks, st, a),
           rt.changes = st.changes, rt.current, b = [a EXCEPT !.current = TRUE]
    PROVE  Follows(ks, rt, b)
<1>1. b.told = a.told /\ b.filter = a.filter
  BY DEF GoodWatch, Watch
<1>2. AddedKeys(rt) = AddedKeys(st) /\ RemovedKeys(rt) = RemovedKeys(st)
  BY DEF AddedKeys, RemovedKeys
<1> QED
  BY <1>1, <1>2 DEF Follows, View

\* No changes: a watch that starts from the client's keys is followed.
LEMMA FollowsStart ==
    ASSUME NEW ks, NEW rt, NEW b, rt.changes = Empty, StartsFrom(ks, b)
    PROVE  Follows(ks, rt, b)
<1>1. AddedKeys(rt) = {} /\ RemovedKeys(rt) = {}
  BY DEF AddedKeys, RemovedKeys, Empty
<1> QED
  BY <1>1 DEF Follows, View, StartsFrom

\* A reset takes away all keys.
LEMMA FollowsReset ==
    ASSUME NEW ks, NEW rt, rt.changes = [k \in ks |-> "Removed"]
    PROVE  Follows(ks, rt, Fresh)
<1>1. AddedKeys(rt) = {} /\ RemovedKeys(rt) = ks
  BY DEF AddedKeys, RemovedKeys
<1> QED
  BY <1>1 DEF Follows, View, Fresh

\* How many keys the view has: GetCurrentDocumentCountForTarget.
LEMMA ViewSize ==
    ASSUME NEW ks, IsFiniteSet(ks), NEW A, IsFiniteSet(A), NEW R, A \cap ks = {}, R \subseteq ks
    PROVE  /\ IsFiniteSet((ks \cup A) \ R)
           /\ Cardinality((ks \cup A) \ R) = Cardinality(ks) + Cardinality(A) - Cardinality(R)
<1> DEFINE S == ks \cup A
<1>1. IsFiniteSet(S) /\ Cardinality(S) = Cardinality(ks) + Cardinality(A) - Cardinality(ks \cap A)
  BY FS_Union, Zenon
<1>2. ks \cap A = {} /\ S \cap R = R
  OBVIOUS
<1>3. Cardinality(ks \cap A) = 0
  BY <1>2, FS_EmptySet, Zenon
<1>4. IsFiniteSet(S \ R) /\ Cardinality(S \ R) = Cardinality(S) - Cardinality(S \cap R)
  BY <1>1, FS_Difference, Zenon
<1>5. IsFiniteSet(R)
  BY FS_Subset, Zenon
<1>6. Cardinality(ks) \in Nat /\ Cardinality(A) \in Nat /\ Cardinality(R) \in Nat
  BY <1>5, FS_CardinalityType, Zenon
<1>7. Cardinality(S \cap R) = Cardinality(R)
  BY <1>2
<1> HIDE DEF S
<1>8. Cardinality(S \ R) = Cardinality(ks) + Cardinality(A) - Cardinality(R)
  BY <1>1, <1>3, <1>4, <1>6, <1>7
<1> QED
  BY <1>4, <1>8 DEF S

\* A view that is as large as what the backend told, and holds it, is the same.
LEMMA SameSize ==
    ASSUME NEW V, IsFiniteSet(V), NEW T, T \subseteq V, Cardinality(V) = Cardinality(T)
    PROVE  V = T
<1>1. T \in SUBSET V
  OBVIOUS
<1> QED
  BY <1>1, FS_Subset, Zenon

\* What the existence filter looks at.
LEMMA FilterSizes ==
    ASSUME NEW ks \in SUBSET Keys, NEW st, DOMAIN st.changes \subseteq Keys, NEW a, Follows(ks, st, a)
    PROVE  /\ IsFiniteSet(View(ks, st))
           /\ Cardinality(View(ks, st))
                = Cardinality(ks) + Cardinality(AddedKeys(st)) - Cardinality(RemovedKeys(st))
<1> DEFINE A == AddedKeys(st)
           R == RemovedKeys(st)
<1>1. A \subseteq Keys /\ A \cap ks = {} /\ R \subseteq ks
  BY DEF AddedKeys, Follows
<1>2. IsFiniteSet(ks) /\ IsFiniteSet(A)
  BY <1>1, AggregatorAssumption, FS_Subset, Zenon
<1> HIDE DEF A, R
<1>3. /\ IsFiniteSet((ks \cup A) \ R)
      /\ Cardinality((ks \cup A) \ R) = Cardinality(ks) + Cardinality(A) - Cardinality(R)
  BY <1>1, <1>2, ViewSize
<1> QED
  BY <1>3 DEF View, A, R

\* An existence filter that matches.
LEMMA FollowsMatch ==
    ASSUME NEW ks \in SUBSET Keys, NEW st, DOMAIN st.changes \subseteq Keys, NEW a \in GoodWatch,
           Follows(ks, st, a), Cardinality(ks) + Cardinality(AddedKeys(st))
                                   - Cardinality(RemovedKeys(st)) = Cardinality(a.told)
    PROVE  Follows(ks, st, [a EXCEPT !.filter = FALSE])
<1> DEFINE b == [a EXCEPT !.filter = FALSE]
<1>1. b.told = a.told /\ b.current = a.current
  BY DEF GoodWatch, Watch
<1>2. /\ IsFiniteSet(View(ks, st))
      /\ Cardinality(View(ks, st))
           = Cardinality(ks) + Cardinality(AddedKeys(st)) - Cardinality(RemovedKeys(st))
  BY FilterSizes
<1>3. Cardinality(View(ks, st)) = Cardinality(a.told)
  BY <1>2
<1>4. a.told \subseteq View(ks, st)
  BY DEF Follows
<1>5. View(ks, st) = a.told
  BY <1>2, <1>3, <1>4, SameSize, Zenon
<1> HIDE DEF b
<1>6. Follows(ks, st, b)
  BY <1>1, <1>5 DEF Follows
<1> QED
  BY <1>6 DEF b

\* One whose mismatch the Bloom filter explains: the documents that it names are removed.
LEMMA FollowsFiltered ==
    ASSUME NEW ks \in SUBSET Keys, NEW st, DOMAIN st.changes \subseteq Keys, NEW rt,
           NEW a \in GoodWatch, NEW bloom, NEW gone, gone = ks \ bloom, Follows(ks, st, a),
           a.told \subseteq bloom, RemovedKeys(st) \cap gone = {},
           Changed(st, rt, WithRemoved(st.changes, gone)),
           (Cardinality(ks) + Cardinality(AddedKeys(st)) - Cardinality(RemovedKeys(st)))
               - Cardinality(gone) = Cardinality(a.told)
    PROVE  Follows(ks, rt, [a EXCEPT !.filter = FALSE])
<1> DEFINE b == [a EXCEPT !.filter = FALSE]
           A == AddedKeys(st)
           R == RemovedKeys(st)
           V == View(ks, st)
<1>1. b.told = a.told /\ b.current = a.current
  BY DEF GoodWatch, Watch
<1>2. A \cap ks = {} /\ R \subseteq ks /\ gone \subseteq ks /\ a.told \subseteq V
  BY DEF Follows
<1>3. AddedKeys(rt) = A
  <2>1. AddedKeys(rt) = A \ gone
    BY DEF AddedKeys, Changed, WithRemoved
  <2> QED
    BY <1>2, <2>1
<1>4. RemovedKeys(rt) = R \cup gone
  BY DEF RemovedKeys, Changed, WithRemoved
<1>5. IsFiniteSet(V) /\ Cardinality(V) = Cardinality(ks) + Cardinality(A) - Cardinality(R)
  BY FilterSizes
<1>6. View(ks, rt) = V \ gone /\ V \cap gone = gone
  BY <1>2, <1>3, <1>4 DEF View
<1>7. IsFiniteSet(V \ gone) /\ Cardinality(V \ gone) = Cardinality(V) - Cardinality(gone)
  <2>1. IsFiniteSet(V \ gone) /\ Cardinality(V \ gone) = Cardinality(V) - Cardinality(V \cap gone)
    <3> HIDE DEF V
    <3> QED
      BY <1>5, FS_Difference, Zenon
  <2> QED
    BY <1>6, <2>1
<1>8. Cardinality(V \ gone) = Cardinality(a.told)
  BY <1>5, <1>7, Zenon
<1>9. a.told \subseteq V \ gone
  BY <1>2
<1>10. V \ gone = a.told
  BY <1>7, <1>8, <1>9, SameSize, Zenon
<1>11. rt.current = st.current
  BY DEF Changed
<1> HIDE DEF b
<1>12. Follows(ks, rt, b)
  BY <1>1, <1>2, <1>3, <1>4, <1>6, <1>10, <1>11 DEF Follows
<1> QED
  BY <1>12 DEF b

\* A document that enters a target.
LEMMA DocHandled ==
    ASSUME NEW s \in Maps(Targets, TargetState), NEW t \in Targets, NEW key \in Keys
    PROVE  LET r == AddDocumentToTarget(s, t, key)
               c == Put(s[t].changes, key, IF key \in keys[t] THEN "Modified" ELSE "Added")
           IN  SameBut(s, r, t) /\ (IsActiveTarget(s, t) /\ t \in DOMAIN s => Changed(s[t], r[t], c))
<1> DEFINE e == EnsureTargetState(s, t)
           kind == IF key \in keys[t] THEN "Modified" ELSE "Added"
           c == Put(e[t].changes, key, kind)
           r == [e EXCEPT ![t].pending = TRUE, ![t].changes = c]
<1>1. e \in Maps(Targets, TargetState) /\ t \in DOMAIN e
  BY EnsureTyped
<1>2. SameBut(s, e, t) /\ (t \in DOMAIN s => e = s)
  BY EnsureSame
<1>3. e \in [DOMAIN e -> TargetState]
  BY <1>1, InMaps
<1>4. AddDocumentToTarget(s, t, key) = IF ~ IsActiveTarget(s, t) THEN s ELSE r
  <2> HIDE DEF e
  <2>1. [e EXCEPT ![t].pending = TRUE, ![t].changes = Put(@, key, kind)]
          = [e EXCEPT ![t].pending = TRUE, ![t].changes = c]
    BY <1>1, <1>3 DEF TargetState
  <2> QED
    BY <2>1 DEF AddDocumentToTarget, e
<1> HIDE DEF e, c
<1>5. SameBut(e, r, t) /\ Changed(e[t], r[t], c)
  BY <1>1, MarkSame
<1> HIDE DEF r
<1>6. SameBut(s, s, t) /\ SameBut(s, r, t)
  BY <1>2, <1>5, SameButTrans DEF SameBut
<1> QED
  BY <1>2, <1>4, <1>5, <1>6 DEF c

\* A document that leaves it.
LEMMA GoneHandled ==
    ASSUME NEW s \in Maps(Targets, TargetState), NEW t \in Targets, NEW key \in Keys
    PROVE  LET r == RemoveDocumentFromTarget(s, t, key)
               c == IF key \in keys[t] THEN Put(s[t].changes, key, "Removed")
                    ELSE Drop(s[t].changes, key)
           IN  SameBut(s, r, t) /\ (IsActiveTarget(s, t) /\ t \in DOMAIN s => Changed(s[t], r[t], c))
<1> DEFINE e == EnsureTargetState(s, t)
           c == IF key \in keys[t] THEN Put(e[t].changes, key, "Removed")
                ELSE Drop(e[t].changes, key)
           r == [e EXCEPT ![t].pending = TRUE, ![t].changes = c]
<1>1. e \in Maps(Targets, TargetState) /\ t \in DOMAIN e
  BY EnsureTyped
<1>2. SameBut(s, e, t) /\ (t \in DOMAIN s => e = s)
  BY EnsureSame
<1>3. e \in [DOMAIN e -> TargetState]
  BY <1>1, InMaps
<1>4. RemoveDocumentFromTarget(s, t, key) = IF ~ IsActiveTarget(s, t) THEN s ELSE r
  <2> HIDE DEF e
  <2>1. [e EXCEPT ![t].pending = TRUE,
                  ![t].changes = IF key \in keys[t] THEN Put(@, key, "Removed") ELSE Drop(@, key)]
          = [e EXCEPT ![t].pending = TRUE, ![t].changes = c]
    BY <1>1, <1>3 DEF TargetState
  <2> QED
    BY <2>1 DEF RemoveDocumentFromTarget, e
<1> HIDE DEF e, c
<1>5. SameBut(e, r, t) /\ Changed(e[t], r[t], c)
  BY <1>1, MarkSame
<1> HIDE DEF r
<1>6. SameBut(s, s, t) /\ SameBut(s, r, t)
  BY <1>2, <1>5, SameButTrans DEF SameBut
<1> QED
  BY <1>2, <1>4, <1>5, <1>6 DEF c

\* The removals of an existence filter or a reset.
LEMMA RemoveAllHandled ==
    ASSUME NEW s \in Maps(Targets, TargetState), NEW t \in DOMAIN s, NEW gone
    PROVE  LET r == RemoveAll(s, t, gone)
               c == WithRemoved(s[t].changes, gone)
           IN  /\ SameBut(s, r, t)
               /\ gone = {} => r = s
               /\ IsActiveTarget(s, t) /\ gone # {} => Changed(s[t], r[t], c)
<1> DEFINE c == WithRemoved(s[t].changes, gone)
           r == [s EXCEPT ![t].pending = TRUE, ![t].changes = c]
<1>1. s \in [DOMAIN s -> TargetState]
  BY InMaps
<1>2. RemoveAll(s, t, gone) = IF gone = {} \/ ~ IsActiveTarget(s, t) THEN s ELSE r
  <2>1. [s EXCEPT ![t].pending = TRUE,
                  ![t].changes = [k \in DOMAIN @ \cup gone |-> IF k \in gone THEN "Removed" ELSE @[k]]]
          = [s EXCEPT ![t].pending = TRUE, ![t].changes = c]
    BY <1>1 DEF TargetState, WithRemoved
  <2> QED
    BY <2>1 DEF RemoveAll
<1> HIDE DEF c
<1>3. SameBut(s, r, t) /\ Changed(s[t], r[t], c)
  BY MarkSame
<1> HIDE DEF r
<1>4. SameBut(s, s, t)
  BY DEF SameBut
<1> QED
  BY <1>2, <1>3, <1>4 DEF c

\* The reset of an active target: all its keys are to be removed.
LEMMA ResetHandled ==
    ASSUME NEW s \in Maps(Targets, TargetState), NEW t \in DOMAIN s
    PROVE  /\ SameBut(s, ResetTarget(s, t), t)
           /\ t \in listening => ResetTarget(s, t)[t].changes = [k \in keys[t] |-> "Removed"]
<1> DEFINE r == [s EXCEPT ![t] = NewTargetState]
           q == RemoveAll(r, t, keys[t])
<1>1. r \in Maps(Targets, TargetState) /\ DOMAIN r = DOMAIN s
  BY NewStateType, ReplaceState
<1>2. SameBut(s, r, t) /\ r[t] = NewTargetState
  BY ReplaceSame
<1>3. ResetTarget(s, t) = q
  BY DEF ResetTarget
<1> HIDE DEF r
<1> DEFINE c == WithRemoved(r[t].changes, keys[t])
<1>4. /\ SameBut(r, q, t)
      /\ keys[t] = {} => q = r
      /\ IsActiveTarget(r, t) /\ keys[t] # {} => Changed(r[t], q[t], c)
  BY <1>1, RemoveAllHandled
<1>5. SameBut(s, q, t)
  BY <1>2, <1>4, SameButTrans
<1>6. ASSUME t \in listening PROVE q[t].changes = [k \in keys[t] |-> "Removed"]
  <2>1. r[t].changes = Empty /\ r[t].outstanding = 0
    BY <1>2 DEF NewTargetState
  <2>2. IsActiveTarget(r, t)
    BY <1>6, <2>1 DEF IsActiveTarget, IsPending
  <2>3. DOMAIN Empty = {}
    BY DEF Empty
  <2> HIDE DEF q
  <2>4. CASE keys[t] = {}
    <3>1. q[t].changes = Empty
      BY <1>4, <2>1, <2>4
    <3> QED
      BY <2>4, <3>1 DEF Empty
  <2>5. CASE keys[t] # {}
    <3>1. c = [k \in keys[t] |-> "Removed"]
      BY <2>1, <2>3 DEF WithRemoved
    <3> HIDE DEF c
    <3> QED
      BY <1>4, <2>2, <2>5, <3>1 DEF Changed
  <2> QED
    BY <2>4, <2>5
<1> QED
  BY <1>3, <1>5, <1>6

\* CURRENT.
LEMMA CurrentHandled ==
    ASSUME NEW s \in Maps(Targets, TargetState), NEW t \in Targets
    PROVE  LET r == HandleCurrent(s, t)
           IN  /\ SameBut(s, r, t)
               /\ IsActiveTarget(s, t) /\ t \in DOMAIN s
                      => r[t].changes = s[t].changes /\ r[t].current
<1> DEFINE e == EnsureTargetState(s, t)
           st == [e[t] EXCEPT !.current = TRUE, !.token = TRUE, !.pending = TRUE]
           r == [e EXCEPT ![t] = st]
<1>1. e \in Maps(Targets, TargetState) /\ t \in DOMAIN e
  BY EnsureTyped
<1>2. SameBut(s, e, t) /\ (t \in DOMAIN s => e = s)
  BY EnsureSame
<1>3. e \in [DOMAIN e -> TargetState]
  BY <1>1, InMaps
<1>4. HandleCurrent(s, t) = IF ~ IsActiveTarget(s, t) THEN e ELSE r
  <2> HIDE DEF e
  <2>1. [e EXCEPT ![t].current = TRUE, ![t].token = TRUE, ![t].pending = TRUE] = [e EXCEPT ![t] = st]
    BY <1>1, <1>3
  <2> QED
    BY <2>1 DEF HandleCurrent, e
<1> HIDE DEF e
<1>5. st.changes = e[t].changes /\ st.current
  BY <1>1, <1>3 DEF TargetState
<1> HIDE DEF st
<1>6. SameBut(e, r, t) /\ r[t] = st
  BY <1>1, ReplaceSame
<1> HIDE DEF r
<1>7. SameBut(s, r, t)
  BY <1>2, <1>6, SameButTrans
<1> QED
  BY <1>2, <1>4, <1>5, <1>6, <1>7

\* RESET.
LEMMA HandleResetHandled ==
    ASSUME NEW s \in Maps(Targets, TargetState), NEW t \in Targets
    PROVE  LET r == HandleReset(s, t)
           IN  /\ SameBut(s, r, t)
               /\ IsActiveTarget(s, t) => r[t].changes = [k \in keys[t] |-> "Removed"]
<1> DEFINE e == EnsureTargetState(s, t)
<1>1. e \in Maps(Targets, TargetState) /\ t \in DOMAIN e
  BY EnsureTyped
<1>2. SameBut(s, e, t)
  BY EnsureSame
<1>3. HandleReset(s, t) = IF ~ IsActiveTarget(s, t) THEN e ELSE ResetTarget(e, t)
  BY DEF HandleReset
<1> HIDE DEF e
<1>4. /\ SameBut(e, ResetTarget(e, t), t)
      /\ t \in listening => ResetTarget(e, t)[t].changes = [k \in keys[t] |-> "Removed"]
  BY <1>1, ResetHandled
<1>5. SameBut(s, ResetTarget(e, t), t)
  BY <1>2, <1>4, SameButTrans
<1> QED
  BY <1>2, <1>3, <1>4, <1>5 DEF IsActiveTarget

\* An existence filter touches no other target.
LEMMA FilterHandled ==
    ASSUME NEW s \in Maps(Targets, TargetState), NEW t \in Targets, NEW count, NEW bloom,
           keys \in [Targets -> SUBSET Keys]
    PROVE  SameBut(s, HandleExistenceFilter(s, t, count, bloom)[1], t)
<1> DEFINE e == EnsureTargetState(s, t)
           size == GetCurrentDocumentCountForTarget(e, t)
           gone == FilterRemovedDocuments(t, bloom)
           filtered == RemoveAll(e, t, gone)
           r == HandleExistenceFilter(s, t, count, bloom)
<1>1. e \in Maps(Targets, TargetState) /\ t \in DOMAIN e
  BY EnsureTyped
<1>2. SameBut(s, e, t)
  BY EnsureSame
<1>3. r = IF ~ IsActiveTarget(s, t) THEN <<s, {}>>
          ELSE IF size = count THEN <<e, {}>>
          ELSE IF size - Cardinality(gone) = count THEN <<filtered, {}>>
          ELSE <<ResetTarget(filtered, t), {t}>>
  BY DEF HandleExistenceFilter
<1>4. gone \in SUBSET Keys
  BY DEF FilterRemovedDocuments
<1> HIDE DEF e, size, gone, r
<1>5. SameBut(e, filtered, t) /\ SameCounts(e, filtered)
  BY <1>1, <1>4, RemoveAllHandled, RemoveAllResult
<1> HIDE DEF filtered
<1>6. filtered \in Maps(Targets, TargetState) /\ t \in DOMAIN filtered
  BY <1>1, <1>5 DEF SameCounts
<1>7. SameBut(filtered, ResetTarget(filtered, t), t)
  BY <1>6, ResetHandled
<1>8. SameBut(s, s, t) /\ SameBut(s, filtered, t)
  BY <1>2, <1>5, SameButTrans DEF SameBut
<1>9. SameBut(s, ResetTarget(filtered, t), t)
  BY <1>7, <1>8, SameButTrans
<1>10. SameBut(s, r[1], t)
  BY <1>2, <1>3, <1>8, <1>9
<1> QED
  BY <1>10 DEF r

\* The target still follows, unless it is reset or a removal was counted twice.
LEMMA FilterFollowed ==
    ASSUME NEW s \in Maps(Targets, TargetState), NEW t \in DOMAIN s, NEW count, NEW bloom,
           keys \in [Targets -> SUBSET Keys], IsActiveTarget(s, t),
           t \notin HandleExistenceFilter(s, t, count, bloom)[2],
           t \notin CountedTwice(s, t, bloom),
           NEW a \in GoodWatch, Follows(keys[t], s[t], a), count = Cardinality(a.told),
           a.told \subseteq bloom
    PROVE  Follows(keys[t], HandleExistenceFilter(s, t, count, bloom)[1][t],
                   [a EXCEPT !.filter = FALSE])
<1> DEFINE size == GetCurrentDocumentCountForTarget(s, t)
           gone == FilterRemovedDocuments(t, bloom)
           filtered == RemoveAll(s, t, gone)
           r == HandleExistenceFilter(s, t, count, bloom)
           b == [a EXCEPT !.filter = FALSE]
           ks == keys[t]
           st == s[t]
<1>1. EnsureTargetState(s, t) = s
  BY DEF EnsureTargetState
<1>2. r = IF size = count THEN <<s, {}>>
          ELSE IF size - Cardinality(gone) = count THEN <<filtered, {}>>
          ELSE <<ResetTarget(filtered, t), {t}>>
  BY <1>1 DEF HandleExistenceFilter
<1>3. size = Cardinality(ks) + Cardinality(AddedKeys(st)) - Cardinality(RemovedKeys(st))
  BY DEF GetCurrentDocumentCountForTarget
<1>4. gone = ks \ bloom /\ RemovedKeys(st) \cap gone = {}
  BY DEF FilterRemovedDocuments, CountedTwice
<1>5. ks \in SUBSET Keys /\ DOMAIN st.changes \subseteq Keys
  <2>1. t \in Targets
    BY InMaps
  <2> QED
    BY <2>1, ChangesType
<1>6. gone = {} => filtered = s
  BY RemoveAllHandled
<1>7. gone # {} => Changed(st, filtered[t], WithRemoved(st.changes, gone))
  BY RemoveAllHandled
<1>8. Follows(ks, st, a) /\ t \notin r[2]
  OBVIOUS
<1> HIDE DEF size, gone, filtered, r, ks, st
<1>9. CASE size = count
  <2>1. r[1] = s
    BY <1>2, <1>9
  <2>2. Follows(ks, st, [a EXCEPT !.filter = FALSE])
    <3>1. Cardinality(ks) + Cardinality(AddedKeys(st)) - Cardinality(RemovedKeys(st))
            = Cardinality(a.told)
      BY <1>3, <1>9
    <3> QED
      BY <1>5, <1>8, <3>1, FollowsMatch
  <2> QED
    BY <2>1, <2>2 DEF r, ks, st
<1>10. CASE size # count /\ size - Cardinality(gone) = count
  <2>1. r[1] = filtered
    BY <1>2, <1>10
  <2>2. Follows(ks, filtered[t], b)
    <3>1. CASE gone # {}
      <4>1. Changed(st, filtered[t], WithRemoved(st.changes, gone))
        BY <1>7, <3>1
      <4>2. (Cardinality(ks) + Cardinality(AddedKeys(st)) - Cardinality(RemovedKeys(st)))
              - Cardinality(gone) = Cardinality(a.told)
        BY <1>3, <1>10, Zenon
      <4> QED
        BY <1>4, <1>5, <1>8, <4>1, <4>2, FollowsFiltered
    <3>2. CASE gone = {}
      <4>1. /\ IsFiniteSet(View(ks, st))
            /\ Cardinality(View(ks, st))
                 = Cardinality(ks) + Cardinality(AddedKeys(st)) - Cardinality(RemovedKeys(st))
        BY <1>5, <1>8, FilterSizes
      <4>2. Cardinality(View(ks, st)) \in Nat /\ Cardinality({}) = 0
        BY <4>1, FS_CardinalityType, FS_EmptySet, Zenon
      <4>3. size = Cardinality(View(ks, st)) /\ Cardinality(gone) = 0
        BY <1>3, <3>2, <4>1, <4>2, Zenon
      <4>4. size \in Nat
        BY <4>2, <4>3
      <4> QED
        BY <1>10, <4>3, <4>4
    <3> QED
      BY <3>1, <3>2
  <2> QED
    BY <2>1, <2>2 DEF r, ks, st
<1>11. CASE size # count /\ size - Cardinality(gone) # count
  BY <1>2, <1>8, <1>11
<1> QED
  BY <1>9, <1>10, <1>11

-----------------------------------------------------------------------------
(* The inductive invariant for SnapshotsAgree. *)

\* The aggregator takes the messages of t, and is not about to watch it anew.
Live(t) ==
    /\ t \in listening /\ t \in DOMAIN states /\ states[t].outstanding = 0
    /\ t \notin resets

\* The replies under way lead from the state of each target to the backend's watch of it.
Heard ==
    open => \A t \in Targets \ (raced \cup spoiled) :
                Explained(t, keys[t], replies, Live(t), states[t], t \in DOMAIN watch, watch[t])

\* A target that has keys has a resume token.
TokensKept == \A t \in Targets \ spoiled : keys[t] # {} => t \in hasToken

\* A watch request tells the backend the keys that the target still has.
Fits(r, t, ks) == IsWatch(r, t) => IF r.resume THEN r.keys = ks ELSE ks = {}

RequestsFit ==
    \A t \in Targets \ (raced \cup spoiled) :
        \A i \in 1..Len(requests) : Fits(requests[i], t, keys[t])

\* Watches end with their stream.
UnwatchedWhenClosed == ~open => watch = Empty

Agreed ==
    /\ Heard
    /\ TokensKept
    /\ RequestsFit
    /\ UnwatchedWhenClosed
    /\ SnapshotsAgree

\* Requests are taken from the front.
TakesRequest == requests' = requests \/ (requests # <<>> /\ requests' = Tail(requests))

LEMMA TailFits ==
    ASSUME RequestsFit, requests \in Seq(Requests), TakesRequest, UNCHANGED keys,
           raced \subseteq raced', spoiled \subseteq spoiled'
    PROVE  RequestsFit'
<1>1. CASE requests' = requests
  BY <1>1 DEF RequestsFit
<1>2. CASE requests # <<>> /\ requests' = Tail(requests)
  <2>1. Len(requests') = Len(requests) - 1 /\ Len(requests) \in Nat
        /\ \A i \in 1..Len(requests') : requests'[i] = requests[i + 1]
    BY <1>2
  <2>2. \A i \in 1..Len(requests') : i + 1 \in 1..Len(requests)
    BY <2>1
  <2> QED
    BY <2>1, <2>2 DEF RequestsFit
<1> QED
  BY <1>1, <1>2 DEF TakesRequest

\* The backend sends a reply.
LEMMA SendAgreed ==
    ASSUME TypeOK, Agreed, open, NEW m \in Replies, replies' = Append(replies, m),
           UNCHANGED <<client, open, history>>,
           TakesRequest,
           \A u \in Targets \ (raced \cup spoiled) :
               Sendable(u, keys[u], m, u \in DOMAIN watch, watch[u], u \in DOMAIN watch', watch'[u])
    PROVE  Agreed'
<1>1. UNCHANGED <<listening, hasToken, keys, states, resets, raced, spoiled, wrongKeys>> /\ open'
      /\ replies \in Seq(Replies) /\ requests \in Seq(Requests)
  BY DEF client, history, TypeOK
<1>2. Heard'
  <2>1. ASSUME NEW u \in Targets, u \notin raced \cup spoiled
        PROVE  Explained(u, keys[u], replies', Live(u), states[u], u \in DOMAIN watch', watch'[u])
    <3>1. Explained(u, keys[u], replies, Live(u), states[u], u \in DOMAIN watch, watch[u])
      BY <2>1 DEF Agreed, Heard
    <3>2. Sendable(u, keys[u], m, u \in DOMAIN watch, watch[u], u \in DOMAIN watch', watch'[u])
      BY <2>1
    <3> QED
      BY <1>1, <3>1, <3>2, ExplainedSend
  <2>2. \A u : Live(u)' = Live(u)
    BY <1>1 DEF Live
  <2> QED
    BY <1>1, <2>1, <2>2 DEF Heard
<1>3. RequestsFit'
  BY <1>1, TailFits DEF Agreed
<1> QED
  BY <1>1, <1>2, <1>3 DEF Agreed, TokensKept, UnwatchedWhenClosed, SnapshotsAgree

\* What is sent for a target says nothing of another one.
LEMMA SendableOther ==
    ASSUME NEW u, NEW ks, NEW m, m.kind # "Snapshot", m.t # u, NEW watched, NEW w, NEW watching, NEW v,
           watching => watched /\ v = w
    PROVE  Sendable(u, ks, m, watched, w, watching, v)
BY DEF Sendable, Means

\* The first reply is taken, and is no snapshot.
LEMMA TakeAgreed ==
    ASSUME TypeOK, Agreed, open, open', replies # <<>>, replies' = Tail(replies),
           UNCHANGED <<keys, hasToken, requests, watch, wrongKeys>>,
           raced \subseteq raced', spoiled \subseteq spoiled',
           \A u \in Targets \ (raced' \cup spoiled') :
               Followed(u, keys[u], Head(replies), Live(u), states[u], keys[u], Live(u)', states'[u])
    PROVE  Agreed'
<1>1. replies \in Seq(Replies) /\ requests \in Seq(Requests)
  BY DEF TypeOK
<1>2. Heard'
  <2>1. ASSUME NEW u \in Targets, u \notin raced' \cup spoiled'
        PROVE  Explained(u, keys[u], replies', Live(u)', states'[u], u \in DOMAIN watch, watch[u])
    <3>1. Explained(u, keys[u], replies, Live(u), states[u], u \in DOMAIN watch, watch[u])
      BY <2>1 DEF Agreed, Heard
    <3>2. Followed(u, keys[u], Head(replies), Live(u), states[u], keys[u], Live(u)', states'[u])
      BY <2>1
    <3> QED
      BY <1>1, <3>1, <3>2, ExplainedTake
  <2> QED
    BY <2>1 DEF Heard
<1>3. RequestsFit'
  BY DEF Agreed, RequestsFit
<1> QED
  BY <1>2, <1>3 DEF Agreed, TokensKept, UnwatchedWhenClosed, SnapshotsAgree

\* It says nothing of another target.
LEMMA OtherFollowed ==
    ASSUME NEW m, m.kind # "Snapshot", NEW u, m.t # u, NEW t, t = m.t,
           SameBut(states, states', t), listening' \subseteq listening, resets \subseteq resets'
    PROVE  Followed(u, keys[u], m, Live(u), states[u], keys[u], Live(u)', states'[u])
<1>1. Live(u)' => Live(u) /\ states'[u] = states[u]
  BY DEF Live, SameBut
<1>2. \A a, b : Means(u, keys[u], m, a, b) => b = a
  BY DEF Means
<1> QED
  BY <1>1, <1>2 DEF Followed

-----------------------------------------------------------------------------
(* The backend's replies. *)

\* A watch begins: it starts from the keys that the request names.
LEMMA ServeWatchAgreed ==
    ASSUME TypeOK, Agreed, ServeWatch
    PROVE  Agreed'
<1> DEFINE r == Head(requests)
           m == [kind |-> "Added", t |-> r.t]
<1>1. requests # <<>> /\ r.kind = "watch" /\ open /\ replies' = Append(replies, m)
      /\ requests' = Tail(requests) /\ UNCHANGED <<client, open, history>>
  BY DEF ServeWatch, Reply
<1>2. r \in Requests /\ r = requests[1] /\ 1 \in 1..Len(requests)
  BY <1>1 DEF TypeOK
<1>3. PICK lost \in SUBSET (IF r.resume THEN r.keys \ results[r.t] ELSE {}) :
          watch' = Put(watch, r.t, [told |-> IF r.resume THEN r.keys \ lost ELSE {},
                                    filter |-> r.resume, current |-> FALSE])
  BY DEF ServeWatch
<1> DEFINE w == [told |-> IF r.resume THEN r.keys \ lost ELSE {},
                 filter |-> r.resume, current |-> FALSE]
<1>4. watch' = Put(watch, r.t, w)
  BY <1>3
<1>5. r.t \notin raced \cup spoiled => Fits(r, r.t, keys[r.t])
  <2>1. r.t \in Targets
    BY <1>2 DEF Requests
  <2> QED
    BY <1>2, <2>1 DEF Agreed, RequestsFit
<1> HIDE DEF r
<1>6. r.t \in Targets /\ r.resume \in BOOLEAN /\ r.keys \in SUBSET Keys
  BY <1>1, <1>2 DEF Requests
<1>7. m \in Replies /\ m.t = r.t /\ m.kind = "Added"
  BY <1>6 DEF Replies
<1> HIDE DEF m
<1>8. w.told = (IF r.resume THEN r.keys \ lost ELSE {}) /\ w.filter = r.resume /\ ~w.current
      /\ w \in GoodWatch
  BY <1>6 DEF GoodWatch, Watch
<1> HIDE DEF w
<1>9. ASSUME NEW u \in Targets, u \notin raced \cup spoiled
      PROVE  Sendable(u, keys[u], m, u \in DOMAIN watch, watch[u], u \in DOMAIN watch', watch'[u])
  <2>1. CASE u # r.t
    <3>1. u \in DOMAIN watch' => u \in DOMAIN watch /\ watch'[u] = watch[u]
      BY <1>4, <2>1 DEF Put
    <3> QED
      BY <1>7, <2>1, <3>1, SendableOther
  <2>2. CASE u = r.t
    <3>1. watch'[u] = w
      BY <1>4, <2>2 DEF Put
    <3>2. IF r.resume THEN r.keys = keys[u] ELSE keys[u] = {}
      BY <1>1, <1>5, <1>9, <2>2 DEF Fits, IsWatch
    <3>3. StartsFrom(keys[u], w)
      BY <1>6, <1>8, <3>2 DEF StartsFrom
    <3>4. \A a : Means(u, keys[u], m, a, w)
      BY <1>7, <2>2, <3>3 DEF Means
    <3> QED
      BY <1>8, <3>1, <3>4 DEF Sendable
  <2> QED
    BY <2>1, <2>2
<1> QED
  BY <1>1, <1>7, <1>9, SendAgreed DEF r, TakesRequest

\* A watch ends.
LEMMA EndWatchAgreed ==
    ASSUME TypeOK, Agreed, open, NEW m \in Replies, replies' = Append(replies, m),
           UNCHANGED <<client, open, history>>, requests # <<>>, requests' = Tail(requests),
           m.kind \in {"Removed", "Error"}, watch' = Drop(watch, m.t)
    PROVE  Agreed'
<1>1. ASSUME NEW u \in Targets
      PROVE  Sendable(u, keys[u], m, u \in DOMAIN watch, watch[u], u \in DOMAIN watch', watch'[u])
  <2>1. CASE u # m.t
    <3>1. u \in DOMAIN watch' => u \in DOMAIN watch /\ watch'[u] = watch[u]
      BY <2>1 DEF Drop
    <3> QED
      BY <2>1, <3>1, SendableOther
  <2>2. CASE u = m.t
    <3>1. u \notin DOMAIN watch'
      BY <2>2 DEF Drop
    <3>2. \A a : Means(u, keys[u], m, a, a)
      BY <2>2 DEF Means
    <3> QED
      BY <3>1, <3>2 DEF Sendable
  <2> QED
    BY <2>1, <2>2
<1> QED
  BY <1>1, SendAgreed DEF TakesRequest

\* An unwatch is answered.
LEMMA ServeUnwatchAgreed ==
    ASSUME TypeOK, Agreed, ServeUnwatch
    PROVE  Agreed'
<1> DEFINE r == Head(requests)
           m == [kind |-> "Removed", t |-> r.t]
<1>1. requests # <<>> /\ open /\ replies' = Append(replies, m)
      /\ requests' = Tail(requests) /\ UNCHANGED <<client, open, history>>
      /\ watch' = Drop(watch, r.t)
  BY DEF ServeUnwatch, Reply
<1>2. r \in Requests
  BY <1>1 DEF TypeOK
<1> HIDE DEF r
<1>3. r.t \in Targets
  BY <1>2 DEF Requests
<1>4. m \in Replies /\ m.t = r.t /\ m.kind = "Removed"
  BY <1>3 DEF Replies
<1> HIDE DEF m
<1> QED
  BY <1>1, <1>4, EndWatchAgreed

\* A watch is refused.
LEMMA RejectWatchAgreed ==
    ASSUME TypeOK, Agreed, RejectWatch
    PROVE  Agreed'
<1> DEFINE r == Head(requests)
           m == [kind |-> "Error", t |-> r.t]
<1>1. requests # <<>> /\ open /\ replies' = Append(replies, m)
      /\ requests' = Tail(requests) /\ UNCHANGED <<client, open, history>>
      /\ watch' = Drop(watch, r.t)
  BY DEF RejectWatch, Reply
<1>2. r \in Requests
  BY <1>1 DEF TypeOK
<1> HIDE DEF r
<1>3. r.t \in Targets
  BY <1>2 DEF Requests
<1>4. m \in Replies /\ m.t = r.t /\ m.kind = "Error"
  BY <1>3 DEF Replies
<1> HIDE DEF m
<1> QED
  BY <1>1, <1>4, EndWatchAgreed

\* A message for a target that is watched: it tells how the watch changed.
LEMMA SendToAgreed ==
    ASSUME TypeOK, Agreed, NEW t \in DOMAIN watch, NEW v, NEW m \in Replies, Send(t, v, m),
           m.kind # "Snapshot", m.t = t,
           watch[t] \in GoodWatch => v \in GoodWatch /\ \A ks : Means(t, ks, m, watch[t], v)
    PROVE  Agreed'
<1>1. open /\ replies' = Append(replies, m) /\ watch' = [watch EXCEPT ![t] = v]
      /\ UNCHANGED <<client, open, requests, results, history>>
  BY DEF Send, Reply
<1>2. ASSUME NEW u \in Targets
      PROVE  Sendable(u, keys[u], m, u \in DOMAIN watch, watch[u], u \in DOMAIN watch', watch'[u])
  <2>1. CASE u # t
    <3>1. u \in DOMAIN watch' => u \in DOMAIN watch /\ watch'[u] = watch[u]
      BY <1>1, <2>1
    <3> QED
      BY <2>1, <3>1, SendableOther
  <2>2. CASE u = t
    <3>1. u \in DOMAIN watch /\ watch'[u] = v
      BY <1>1, <2>2
    <3> QED
      BY <2>2, <3>1 DEF Sendable
  <2> QED
    BY <2>1, <2>2
<1>3. TakesRequest
  BY <1>1 DEF TakesRequest
<1> QED
  BY <1>1, <1>2, <1>3, SendAgreed

\* A document, an existence filter or CURRENT is sent.
LEMMA SendUpdateAgreed ==
    ASSUME TypeOK, Agreed, SendUpdate
    PROVE  Agreed'
<1>1. DOMAIN watch \subseteq Targets /\ watch \in [DOMAIN watch -> Watch]
  BY InMaps DEF TypeOK
<1>4. PICK t \in DOMAIN watch :
        LET w == watch[t]
        IN  \/ \E key \in results[t] \ w.told :
                   Send(t, [w EXCEPT !.told = @ \cup {key}], [kind |-> "Doc", t |-> t, key |-> key])
            \/ \E key \in w.told \ results[t] :
                   Send(t, [w EXCEPT !.told = @ \ {key}], [kind |-> "Gone", t |-> t, key |-> key])
            \/ /\ w.filter /\ w.told = results[t]
               /\ \E fp \in SUBSET (Keys \ results[t]) :
                      Send(t, [w EXCEPT !.filter = FALSE],
                           [kind |-> "Filter", t |-> t, count |-> Cardinality(results[t]),
                            bloom |-> results[t] \cup fp])
            \/ /\ ~w.filter /\ ~w.current /\ w.told = results[t]
               /\ Send(t, [w EXCEPT !.current = TRUE], [kind |-> "Current", t |-> t])
  BY DEF SendUpdate
<1> DEFINE w == watch[t]
<1>5. w \in Watch /\ t \in Targets /\ results[t] \in SUBSET Keys /\ w.told \in SUBSET Keys
  BY <1>1 DEF TypeOK, Watch
<1>6. ASSUME NEW v, NEW m \in Replies, Send(t, v, m), m.kind # "Snapshot", m.t = t,
             w \in GoodWatch => v \in GoodWatch /\ \A ks : Means(t, ks, m, w, v)
      PROVE  Agreed'
  BY <1>6, SendToAgreed
<1> HIDE DEF w
<1>7. ASSUME NEW key \in results[t] \ w.told,
             Send(t, [w EXCEPT !.told = @ \cup {key}], [kind |-> "Doc", t |-> t, key |-> key])
      PROVE  Agreed'
  <2> DEFINE v == [w EXCEPT !.told = @ \cup {key}]
             m == [kind |-> "Doc", t |-> t, key |-> key]
  <2>1. w \in GoodWatch => v \in GoodWatch
    BY <1>5 DEF GoodWatch, Watch
  <2>2. m \in Replies /\ m.kind = "Doc" /\ m.t = t /\ m.key = key
    BY <1>5 DEF Replies
  <2>3. Send(t, v, m)
    BY <1>7
  <2> HIDE DEF m
  <2>4. \A ks : Means(t, ks, m, w, v)
    BY <2>2 DEF Means
  <2> HIDE DEF v
  <2> QED
    BY <1>6, <2>1, <2>2, <2>3, <2>4
<1>8. ASSUME NEW key \in w.told \ results[t],
             Send(t, [w EXCEPT !.told = @ \ {key}], [kind |-> "Gone", t |-> t, key |-> key])
      PROVE  Agreed'
  <2> DEFINE v == [w EXCEPT !.told = @ \ {key}]
             m == [kind |-> "Gone", t |-> t, key |-> key]
  <2>1. w \in GoodWatch => v \in GoodWatch
    BY <1>5 DEF GoodWatch, Watch
  <2>2. m \in Replies /\ m.kind = "Gone" /\ m.t = t /\ m.key = key
    BY <1>5 DEF Replies
  <2>3. Send(t, v, m)
    BY <1>8
  <2> HIDE DEF m
  <2>4. \A ks : Means(t, ks, m, w, v)
    BY <2>2 DEF Means
  <2> HIDE DEF v
  <2> QED
    BY <1>6, <2>1, <2>2, <2>3, <2>4
<1>9. ASSUME w.told = results[t], NEW fp \in SUBSET (Keys \ results[t]),
             Send(t, [w EXCEPT !.filter = FALSE],
                  [kind |-> "Filter", t |-> t, count |-> Cardinality(results[t]),
                   bloom |-> results[t] \cup fp])
      PROVE  Agreed'
  <2> DEFINE v == [w EXCEPT !.filter = FALSE]
             n == Cardinality(results[t])
             m == [kind |-> "Filter", t |-> t, count |-> n, bloom |-> results[t] \cup fp]
  <2>1. w \in GoodWatch => v \in GoodWatch
    BY <1>5 DEF GoodWatch, Watch
  <2>2. n \in Nat /\ n = Cardinality(w.told)
    BY <1>5, <1>9, AggregatorAssumption, FS_Subset, FS_CardinalityType, Zenon
  <2>3. Send(t, v, m)
    BY <1>9
  <2> HIDE DEF n
  <2>4. m \in Replies /\ m.kind = "Filter" /\ m.t = t /\ m.count = n /\ m.bloom = results[t] \cup fp
    BY <1>5, <2>2 DEF Replies
  <2> HIDE DEF m
  <2>5. \A ks : Means(t, ks, m, w, v)
    BY <1>9, <2>2, <2>4 DEF Means
  <2> HIDE DEF v
  <2> QED
    BY <1>6, <2>1, <2>3, <2>4, <2>5
<1>10. ASSUME ~w.filter, Send(t, [w EXCEPT !.current = TRUE], [kind |-> "Current", t |-> t])
      PROVE  Agreed'
  <2> DEFINE v == [w EXCEPT !.current = TRUE]
             m == [kind |-> "Current", t |-> t]
  <2>1. v \in GoodWatch
    BY <1>5, <1>10 DEF GoodWatch, Watch
  <2>2. m \in Replies /\ m.kind = "Current" /\ m.t = t
    BY <1>5 DEF Replies
  <2>3. Send(t, v, m)
    BY <1>10
  <2> HIDE DEF m
  <2>4. \A ks : Means(t, ks, m, w, v)
    BY <1>10, <2>2 DEF Means
  <2> HIDE DEF v
  <2> QED
    BY <1>6, <2>1, <2>2, <2>3, <2>4
<1> QED
  BY <1>4, <1>7, <1>8, <1>9, <1>10, Zenon DEF w

\* RESET is sent.
LEMMA SendResetAgreed ==
    ASSUME TypeOK, Agreed, NEW t \in Targets, SendReset(t)
    PROVE  Agreed'
<1> DEFINE m == [kind |-> "Reset", t |-> t]
<1>1. Fresh \in GoodWatch
  BY DEF Fresh, GoodWatch, Watch
<1>2. m \in Replies /\ m.kind = "Reset" /\ m.t = t
  BY DEF Replies
<1>3. t \in DOMAIN watch /\ Send(t, Fresh, m)
  BY DEF SendReset, Fresh
<1> HIDE DEF m
<1>4. \A ks : Means(t, ks, m, watch[t], Fresh)
  BY <1>2 DEF Means
<1> QED
  BY <1>1, <1>2, <1>3, <1>4, SendToAgreed

\* A global snapshot tells what the backend has told its targets.
LEMMA SendSnapshotAgreed ==
    ASSUME TypeOK, Agreed, SendSnapshot
    PROVE  Agreed'
<1> DEFINE truth == [t \in DOMAIN watch |-> [keys |-> watch[t].told, current |-> watch[t].current]]
           m == [kind |-> "Snapshot", truth |-> truth]
<1>1. watch' = watch /\ replies' = Append(replies, m) /\ open
      /\ UNCHANGED <<client, open, requests, history>>
  BY DEF SendSnapshot, Reply, backend
<1>2. DOMAIN watch \subseteq Targets /\ watch \in [DOMAIN watch -> Watch]
  BY InMaps DEF TypeOK
<1>3. truth \in Maps(Targets, [keys : SUBSET Keys, current : BOOLEAN])
  <2>1. \A t \in DOMAIN watch : watch[t].told \in SUBSET Keys /\ watch[t].current \in BOOLEAN
    BY <1>2 DEF Watch
  <2>2. DOMAIN truth = DOMAIN watch /\ truth \in [DOMAIN watch -> [keys : SUBSET Keys, current : BOOLEAN]]
    BY <2>1
  <2> HIDE DEF truth
  <2> QED
    BY <1>2, <2>2, InMaps
<1>4. DOMAIN truth = DOMAIN watch
      /\ \A t \in DOMAIN watch : truth[t] = [keys |-> watch[t].told, current |-> watch[t].current]
  OBVIOUS
<1> HIDE DEF truth
<1>5. m \in Replies /\ m.kind = "Snapshot" /\ m.truth = truth
  BY <1>3 DEF Replies
<1> HIDE DEF m
<1>6. ASSUME NEW u \in Targets
      PROVE  Sendable(u, keys[u], m, u \in DOMAIN watch, watch[u], u \in DOMAIN watch', watch'[u])
  <2>1. ASSUME NEW a \in GoodWatch, u \in DOMAIN watch => a = watch[u]
        PROVE  Means(u, keys[u], m, a, a)
    BY <1>4, <1>5, <2>1 DEF Means
  <2> QED
    BY <1>1, <2>1 DEF Sendable
<1>7. TakesRequest
  BY <1>1 DEF TakesRequest
<1> QED
  BY <1>1, <1>5, <1>6, <1>7, SendAgreed

-----------------------------------------------------------------------------
(* The messages as the client takes them. *)

\* What the reply m for t tells, the state of t follows.
Keeps(t, m) ==
    \A a, b \in GoodWatch :
        Follows(keys[t], states[t], a) /\ Means(t, keys[t], m, a, b)
            => Follows(keys[t], states'[t], b)

\* A message that answers no request and raises no snapshot.
LEMMA UpdateAgreed ==
    ASSUME Inv, Agreed, open, open', replies # <<>>, replies' = Tail(replies), watch' = watch,
           NEW t, Head(replies).t = t, Head(replies).kind # "Snapshot",
           UNCHANGED <<listening, hasToken, keys, requests, raced, wrongKeys>>,
           resets \subseteq resets', spoiled \subseteq spoiled',
           SameBut(states, states', t), SameCounts(states, states'),
           Live(t) /\ Live(t)' /\ t \notin spoiled' => Keeps(t, Head(replies))
    PROVE  Agreed'
<1> DEFINE m == Head(replies)
<1>1. ASSUME NEW u \in Targets, u \notin raced' \cup spoiled'
      PROVE  Followed(u, keys[u], m, Live(u), states[u], keys[u], Live(u)', states'[u])
  <2>1. CASE u # t
    BY <2>1, OtherFollowed
  <2>2. CASE u = t
    <3>1. Live(t)' => Live(t)
      <4>1. Count(states', t) = Count(states, t)
        BY <1>1, <2>2 DEF SameCounts
      <4>2. t \in listening => t \in DOMAIN states
        BY <1>1, <2>2 DEF Inv, Tracked
      <4> QED
        BY <4>1, <4>2 DEF Live, Count
    <3>2. Live(t)' => Keeps(t, m)
      BY <1>1, <2>2, <3>1
    <3> QED
      BY <2>2, <3>1, <3>2 DEF Followed, Keeps
  <2> QED
    BY <2>1, <2>2
<1>2. TypeOK /\ UNCHANGED <<keys, hasToken, requests, watch, wrongKeys>> /\ raced \subseteq raced'
  BY DEF Inv
<1> QED
  BY <1>1, <1>2, TakeAgreed

\* A target that is live is active.
LEMMA LiveActive ==
    ASSUME NEW t, Live(t)
    PROVE  IsActiveTarget(states, t) /\ t \in DOMAIN states /\ t \in listening
BY DEF Live, IsActiveTarget, IsPending

\* What taking the first reply leaves alone.
TakesReply ==
    /\ open /\ replies # <<>> /\ replies' = Tail(replies)
    /\ UNCHANGED <<open, backend, used>>

\* The messages that change target states only.
LEMMA AggregateAgreed ==
    ASSUME Inv, Agreed, TakesReply, NEW s, Aggregate(s),
           NEW t, Head(replies).t = t, Head(replies).kind # "Snapshot",
           SameBut(states, s, t), SameCounts(states, s),
           Live(t) => Keeps(t, Head(replies))
    PROVE  Agreed'
<1>1. /\ states' = s /\ open /\ open' /\ replies # <<>> /\ replies' = Tail(replies) /\ watch' = watch
      /\ UNCHANGED <<listening, hasToken, keys, requests, raced, wrongKeys>>
      /\ resets \subseteq resets' /\ spoiled \subseteq spoiled'
  BY DEF TakesReply, Aggregate, backend, history
<1>2. SameBut(states, states', t) /\ SameCounts(states, states')
  BY <1>1
<1> QED
  BY <1>1, <1>2, UpdateAgreed

\* A document enters a target.
LEMMA DocAgreed ==
    ASSUME Inv, Agreed, TakesReply, NEW t \in Targets, NEW key \in Keys,
           Head(replies).kind = "Doc", Head(replies).t = t, Head(replies).key = key,
           Aggregate(AddDocumentToTarget(states, t, key))
    PROVE  Agreed'
<1> DEFINE s == AddDocumentToTarget(states, t, key)
           c == Put(states[t].changes, key, IF key \in keys[t] THEN "Modified" ELSE "Added")
<1>1. states \in Maps(Targets, TargetState)
  BY DEF Inv, TypeOK
<1>2. SameCounts(states, s)
  BY <1>1, AddDocumentResult
<1>3. SameBut(states, s, t)
      /\ (IsActiveTarget(states, t) /\ t \in DOMAIN states => Changed(states[t], s[t], c))
  BY <1>1, DocHandled
<1>4. states' = s /\ Aggregate(s)
  BY DEF Aggregate
<1> HIDE DEF s
<1>5. ASSUME Live(t) PROVE Keeps(t, Head(replies))
  <2>1. Changed(states[t], s[t], c)
    BY <1>3, <1>5, LiveActive
  <2>2. SUFFICES ASSUME NEW a \in GoodWatch, NEW b \in GoodWatch, Follows(keys[t], states[t], a),
                        Means(t, keys[t], Head(replies), a, b)
                 PROVE  Follows(keys[t], s[t], b)
    BY <1>4 DEF Keeps
  <2>3. b = [a EXCEPT !.told = @ \cup {key}]
    BY <2>2 DEF Means
  <2> QED
    BY <2>1, <2>2, <2>3, FollowsDoc
<1> QED
  BY <1>2, <1>3, <1>4, <1>5, AggregateAgreed

\* A document leaves it.
LEMMA GoneAgreed ==
    ASSUME Inv, Agreed, TakesReply, NEW t \in Targets, NEW key \in Keys,
           Head(replies).kind = "Gone", Head(replies).t = t, Head(replies).key = key,
           Aggregate(RemoveDocumentFromTarget(states, t, key))
    PROVE  Agreed'
<1> DEFINE s == RemoveDocumentFromTarget(states, t, key)
           c == IF key \in keys[t] THEN Put(states[t].changes, key, "Removed")
                ELSE Drop(states[t].changes, key)
<1>1. states \in Maps(Targets, TargetState)
  BY DEF Inv, TypeOK
<1>2. SameCounts(states, s)
  BY <1>1, RemoveDocumentResult
<1>3. SameBut(states, s, t)
      /\ (IsActiveTarget(states, t) /\ t \in DOMAIN states => Changed(states[t], s[t], c))
  BY <1>1, GoneHandled
<1>4. states' = s /\ Aggregate(s)
  BY DEF Aggregate
<1> HIDE DEF s
<1>5. ASSUME Live(t) PROVE Keeps(t, Head(replies))
  <2>1. Changed(states[t], s[t], c)
    BY <1>3, <1>5, LiveActive
  <2>2. SUFFICES ASSUME NEW a \in GoodWatch, NEW b \in GoodWatch, Follows(keys[t], states[t], a),
                        Means(t, keys[t], Head(replies), a, b)
                 PROVE  Follows(keys[t], s[t], b)
    BY <1>4 DEF Keeps
  <2>3. b = [a EXCEPT !.told = @ \ {key}]
    BY <2>2 DEF Means
  <2> QED
    BY <2>1, <2>2, <2>3, FollowsGone
<1> QED
  BY <1>2, <1>3, <1>4, <1>5, AggregateAgreed

\* CURRENT.
LEMMA CurrentAgreed ==
    ASSUME Inv, Agreed, TakesReply, NEW t \in Targets,
           Head(replies).kind = "Current", Head(replies).t = t, Aggregate(HandleCurrent(states, t))
    PROVE  Agreed'
<1> DEFINE s == HandleCurrent(states, t)
<1>1. states \in Maps(Targets, TargetState)
  BY DEF Inv, TypeOK
<1>2. SameCounts(states, s)
  BY <1>1, CurrentResult
<1>3. /\ SameBut(states, s, t)
      /\ IsActiveTarget(states, t) /\ t \in DOMAIN states
             => s[t].changes = states[t].changes /\ s[t].current
  BY <1>1, CurrentHandled
<1>4. states' = s /\ Aggregate(s)
  BY DEF Aggregate
<1> HIDE DEF s
<1>5. ASSUME Live(t) PROVE Keeps(t, Head(replies))
  <2>1. s[t].changes = states[t].changes /\ s[t].current
    BY <1>3, <1>5, LiveActive
  <2>2. SUFFICES ASSUME NEW a \in GoodWatch, NEW b \in GoodWatch, Follows(keys[t], states[t], a),
                        Means(t, keys[t], Head(replies), a, b)
                 PROVE  Follows(keys[t], s[t], b)
    BY <1>4 DEF Keeps
  <2>3. b = [a EXCEPT !.current = TRUE]
    BY <2>2 DEF Means
  <2> QED
    BY <2>1, <2>2, <2>3, FollowsCurrent
<1> QED
  BY <1>2, <1>3, <1>4, <1>5, AggregateAgreed

\* RESET.
LEMMA ResetAgreed ==
    ASSUME Inv, Agreed, TakesReply, NEW t \in Targets,
           Head(replies).kind = "Reset", Head(replies).t = t, Aggregate(HandleReset(states, t))
    PROVE  Agreed'
<1> DEFINE s == HandleReset(states, t)
<1>1. states \in Maps(Targets, TargetState) /\ keys \in [Targets -> SUBSET Keys]
  BY DEF Inv, TypeOK
<1>2. SameCounts(states, s)
  BY <1>1, HandleResetResult
<1>3. /\ SameBut(states, s, t)
      /\ IsActiveTarget(states, t) => s[t].changes = [k \in keys[t] |-> "Removed"]
  BY <1>1, HandleResetHandled
<1>4. states' = s /\ Aggregate(s)
  BY DEF Aggregate
<1> HIDE DEF s
<1>5. ASSUME Live(t) PROVE Keeps(t, Head(replies))
  <2>1. s[t].changes = [k \in keys[t] |-> "Removed"]
    BY <1>3, <1>5, LiveActive
  <2>2. SUFFICES ASSUME NEW a \in GoodWatch, NEW b \in GoodWatch, Follows(keys[t], states[t], a),
                        Means(t, keys[t], Head(replies), a, b)
                 PROVE  Follows(keys[t], s[t], b)
    BY <1>4 DEF Keeps
  <2>3. b = Fresh
    BY <2>2 DEF Means
  <2> QED
    BY <2>1, <2>3, FollowsReset
<1> QED
  BY <1>2, <1>3, <1>4, <1>5, AggregateAgreed

\* An existence filter.
LEMMA FilterAgreed ==
    ASSUME Inv, Agreed, TakesReply, NEW t \in Targets, NEW count, NEW bloom,
           Head(replies).kind = "Filter", Head(replies).t = t, Head(replies).count = count,
           Head(replies).bloom = bloom,
           states' = HandleExistenceFilter(states, t, count, bloom)[1],
           resets' = resets \cup HandleExistenceFilter(states, t, count, bloom)[2],
           spoiled' = spoiled \cup CountedTwice(states, t, bloom),
           UNCHANGED <<listening, hasToken, keys, current, requests, raced, wrongKeys, early>>
    PROVE  Agreed'
<1>1. states \in Maps(Targets, TargetState) /\ keys \in [Targets -> SUBSET Keys]
  BY DEF Inv, TypeOK
<1>2. SameCounts(states, states')
  BY <1>1, FilterResult
<1>3. SameBut(states, states', t)
  BY <1>1, FilterHandled
<1>4. open /\ open' /\ replies # <<>> /\ replies' = Tail(replies) /\ watch' = watch
      /\ resets \subseteq resets' /\ spoiled \subseteq spoiled'
  BY DEF TakesReply, backend
<1>5. ASSUME Live(t), Live(t)', t \notin spoiled' PROVE Keeps(t, Head(replies))
  <2>1. IsActiveTarget(states, t) /\ t \in DOMAIN states
    BY <1>5, LiveActive
  <2>2. t \notin HandleExistenceFilter(states, t, count, bloom)[2] /\ t \notin CountedTwice(states, t, bloom)
    BY <1>5 DEF Live
  <2>3. SUFFICES ASSUME NEW a \in GoodWatch, NEW b \in GoodWatch, Follows(keys[t], states[t], a),
                        Means(t, keys[t], Head(replies), a, b)
                 PROVE  Follows(keys[t], states'[t], b)
    BY DEF Keeps
  <2>4. count = Cardinality(a.told) /\ a.told \subseteq bloom /\ b = [a EXCEPT !.filter = FALSE]
    BY <2>3 DEF Means
  <2>5. Follows(keys[t], HandleExistenceFilter(states, t, count, bloom)[1][t], [a EXCEPT !.filter = FALSE])
    BY <1>1, <2>1, <2>2, <2>3, <2>4, FilterFollowed
  <2> QED
    BY <2>4, <2>5
<1>6. Head(replies).kind # "Snapshot" /\ UNCHANGED <<listening, hasToken, keys, requests, raced, wrongKeys>>
  OBVIOUS
<1> QED
  BY <1>2, <1>3, <1>4, <1>5, <1>6, UpdateAgreed

\* A response is counted for its target only.
LEMMA RespondSame ==
    ASSUME NEW s \in Maps(Targets, TargetState), NEW t \in Targets
    PROVE  SameBut(s, Respond(s, t), t)
<1> DEFINE e == EnsureTargetState(s, t)
           st == [e[t] EXCEPT !.outstanding = @ - 1]
<1>1. e \in Maps(Targets, TargetState) /\ t \in DOMAIN e
  BY EnsureTyped
<1>2. SameBut(s, e, t)
  BY EnsureSame
<1>3. Respond(s, t) = [e EXCEPT ![t] = st]
  BY DEF Respond
<1> HIDE DEF e, st
<1>4. SameBut(e, [e EXCEPT ![t] = st], t)
  BY <1>1, ReplaceSame
<1> QED
  BY <1>2, <1>3, <1>4, SameButTrans

\* An acknowledged watch that was the last response to come leaves no changes.
LEMMA AddedHandled ==
    ASSUME NEW s \in Maps(Targets, TargetState), NEW t \in Targets
    PROVE  LET r == HandleAdded(s, t)
           IN  /\ SameBut(s, r, t)
               /\ r[t].outstanding = 0 => r[t].changes = Empty
<1> DEFINE r == Respond(s, t)
           st == ClearPendingChanges(r[t])
           q == [r EXCEPT ![t] = st]
<1>1. r \in Maps(Targets, TargetState) /\ t \in DOMAIN r
  BY RespondResult
<1>2. SameBut(s, r, t)
  BY RespondSame
<1>3. HandleAdded(s, t) = IF IsPending(r, t) THEN r ELSE q
  BY DEF HandleAdded
<1> HIDE DEF r
<1>4. st.changes = Empty
  <2>1. r[t] \in TargetState
    BY <1>1, InMaps
  <2> QED
    BY <2>1 DEF ClearPendingChanges, TargetState
<1> HIDE DEF st
<1>5. SameBut(r, q, t) /\ q[t] = st
  BY <1>1, ReplaceSame
<1> HIDE DEF q
<1>6. SameBut(s, q, t)
  BY <1>2, <1>5, SameButTrans
<1>7. IsPending(r, t) => r[t].outstanding # 0
  BY DEF IsPending
<1> QED
  BY <1>2, <1>3, <1>4, <1>5, <1>6, <1>7

\* An acknowledged watch: when no other response is to come, the target starts from it.
LEMMA AddedAgreed ==
    ASSUME Inv, Agreed, TakesReply, NEW t \in Targets,
           Head(replies).kind = "Added", Head(replies).t = t, Aggregate(HandleAdded(states, t))
    PROVE  Agreed'
<1> DEFINE m == Head(replies)
<1>1. states \in Maps(Targets, TargetState) /\ TypeOK
  BY DEF Inv, TypeOK
<1>2. states' = HandleAdded(states, t) /\ open /\ open' /\ replies # <<>> /\ replies' = Tail(replies)
      /\ UNCHANGED <<listening, resets, hasToken, keys, requests, raced, spoiled, wrongKeys, watch>>
  BY DEF TakesReply, Aggregate, backend, history
<1>3. SameBut(states, states', t) /\ (states'[t].outstanding = 0 => states'[t].changes = Empty)
  BY <1>1, <1>2, AddedHandled
<1>4. ASSUME NEW u \in Targets
      PROVE  Followed(u, keys[u], m, Live(u), states[u], keys[u], Live(u)', states'[u])
  <2>1. CASE u # t
    BY <1>2, <1>3, <2>1, OtherFollowed
  <2>2. CASE u = t
    <3>1. SUFFICES ASSUME NEW a \in GoodWatch, NEW b \in GoodWatch, Means(t, keys[t], m, a, b), Live(t)'
                   PROVE  Follows(keys[t], states'[t], b)
      BY <2>2 DEF Followed
    <3>2. StartsFrom(keys[t], b)
      BY <3>1 DEF Means
    <3>3. states'[t].changes = Empty
      BY <1>3, <3>1 DEF Live
    <3> QED
      BY <3>2, <3>3, FollowsStart
  <2> QED
    BY <2>1, <2>2
<1>5. UNCHANGED <<keys, hasToken, requests, watch, wrongKeys>>
      /\ raced \subseteq raced' /\ spoiled \subseteq spoiled'
  BY <1>2
<1> QED
  BY <1>1, <1>2, <1>4, <1>5, TakeAgreed

\* An acknowledged unwatch never makes a target live: a watch is still to be acknowledged.
LEMMA RemovedAgreed ==
    ASSUME Inv, Inv', Agreed, TakesReply, NEW t \in Targets,
           Head(replies).kind = "Removed", Head(replies).t = t, Aggregate(HandleRemoved(states, t))
    PROVE  Agreed'
<1> DEFINE m == Head(replies)
<1>1. states \in Maps(Targets, TargetState) /\ TypeOK
  BY DEF Inv, TypeOK
<1>2. states' = HandleRemoved(states, t) /\ open /\ open' /\ replies # <<>> /\ replies' = Tail(replies)
      /\ UNCHANGED <<listening, resets, hasToken, keys, requests, raced, spoiled, wrongKeys, watch>>
  BY DEF TakesReply, Aggregate, backend, history
<1>3. SameBut(states, states', t)
  <2> DEFINE r == Respond(states, t)
  <2>1. SameBut(states, r, t)
    BY <1>1, RespondSame
  <2>2. states' = r \/ states' = Drop(r, t)
    BY <1>2 DEF HandleRemoved
  <2> HIDE DEF r
  <2>3. SameBut(r, Drop(r, t), t)
    BY DropSame
  <2>4. SameBut(states, Drop(r, t), t)
    BY <2>1, <2>3, SameButTrans
  <2> QED
    BY <2>1, <2>2, <2>4
<1>4. ASSUME t \notin raced PROVE ~ Live(t)'
  <2>1. SUFFICES ASSUME t \in listening PROVE Count(states', t) # 0
    BY <1>2 DEF Live, Count
  <2>2. requests \in Seq(Requests) /\ replies \in Seq(Replies)
    BY <1>1 DEF TypeOK
  <2>3. RewatchedReplies(t, requests, replies)
    BY <1>4, <2>1 DEF Inv, Rewatched
  <2>4. Sent(t, requests) + Answered(t, Tail(replies)) # 0
    BY <1>2, <2>2, <2>3, RemovedOwed
  <2>5. Count(states', t) = Outstanding(t, requests', replies')
    BY <1>2, <1>4 DEF Inv, ResponsesCounted, Count
  <2> QED
    BY <1>2, <2>4, <2>5, OutstandingSum
<1>5. ASSUME NEW u \in Targets, u \notin raced' \cup spoiled'
      PROVE  Followed(u, keys[u], m, Live(u), states[u], keys[u], Live(u)', states'[u])
  <2>1. CASE u # t
    BY <1>2, <1>3, <2>1, OtherFollowed
  <2>2. CASE u = t
    BY <1>2, <1>4, <1>5, <2>2 DEF Followed
  <2> QED
    BY <2>1, <2>2
<1>6. UNCHANGED <<keys, hasToken, requests, watch, wrongKeys>>
      /\ raced \subseteq raced' /\ spoiled \subseteq spoiled'
  BY <1>2
<1> QED
  BY <1>1, <1>2, <1>5, <1>6, TakeAgreed

\* A rejected target is not listened to any more.
LEMMA ErrorAgreed ==
    ASSUME Inv, Agreed, TakesReply, NEW t \in Targets,
           Head(replies).kind = "Error", Head(replies).t = t, ProcessTargetError(t)
    PROVE  Agreed'
<1> DEFINE m == Head(replies)
<1>1. TypeOK
  BY DEF Inv
<1>2. open /\ open' /\ replies # <<>> /\ replies' = Tail(replies)
      /\ UNCHANGED <<resets, hasToken, keys, requests, spoiled, wrongKeys, watch>>
      /\ raced \subseteq raced'
  BY DEF TakesReply, ProcessTargetError, backend
<1>3. listening' \subseteq listening /\ SameBut(states, states', t)
  <2>1. CASE t \in listening
    <3>1. listening' = listening \ {t} /\ states' = Drop(states, t)
      BY <2>1 DEF ProcessTargetError
    <3> QED
      BY <3>1, DropSame
  <2>2. CASE t \notin listening
    <3>1. listening' = listening /\ states' = states
      BY <2>2 DEF ProcessTargetError
    <3> QED
      BY <3>1 DEF SameBut
  <2> QED
    BY <2>1, <2>2
<1>4. ~ Live(t)'
  BY DEF Live, ProcessTargetError
<1>5. ASSUME NEW u \in Targets
      PROVE  Followed(u, keys[u], m, Live(u), states[u], keys[u], Live(u)', states'[u])
  <2>1. CASE u # t
    BY <1>2, <1>3, <2>1, OtherFollowed
  <2>2. CASE u = t
    BY <1>4, <2>2 DEF Followed
  <2> QED
    BY <2>1, <2>2
<1>6. UNCHANGED <<keys, hasToken, requests, watch, wrongKeys>>
      /\ raced \subseteq raced' /\ spoiled \subseteq spoiled'
  BY <1>2
<1> QED
  BY <1>1, <1>2, <1>5, <1>6, TakeAgreed

-----------------------------------------------------------------------------
(* Listening, and the stream. *)

\* The replies are explained as before if no target becomes live and those that are keep
\* their states.
LEMMA StillAgreed ==
    ASSUME Agreed, open, open', UNCHANGED <<keys, hasToken, replies, watch, raced, spoiled, wrongKeys>>,
           RequestsFit',
           \A u \in Targets \ (raced \cup spoiled) : Live(u)' => Live(u) /\ states'[u] = states[u]
    PROVE  Agreed'
<1>1. Heard'
  <2>1. ASSUME NEW u \in Targets, u \notin raced \cup spoiled
        PROVE  Explained(u, keys[u], replies, Live(u)', states'[u], u \in DOMAIN watch, watch[u])
    <3>1. Explained(u, keys[u], replies, Live(u), states[u], u \in DOMAIN watch, watch[u])
      BY <2>1 DEF Agreed, Heard
    <3>2. Live(u)' => Live(u) /\ states'[u] = states[u]
      BY <2>1
    <3> QED
      BY <3>1, <3>2, ExplainedStill
  <2> QED
    BY <2>1 DEF Heard
<1> QED
  BY <1>1 DEF Agreed, TokensKept, UnwatchedWhenClosed, SnapshotsAgree

\* Nothing changes but who is listened to, while there is no stream.
LEMMA ClosedAgreed ==
    ASSUME Agreed, ~open, ~open', requests' = <<>>,
           UNCHANGED <<keys, hasToken, watch, spoiled, wrongKeys>>
    PROVE  Agreed'
BY DEF Agreed, Heard, TokensKept, RequestsFit, UnwatchedWhenClosed, SnapshotsAgree

\* One more request.
LEMMA AppendFits ==
    ASSUME RequestsFit, requests \in Seq(Requests), NEW r \in Requests,
           requests' = Append(requests, r), UNCHANGED <<keys, raced, spoiled>>,
           \A u \in Targets \ (raced \cup spoiled) : Fits(r, u, keys[u])
    PROVE  RequestsFit'
<1>1. /\ Len(requests) \in Nat /\ Len(requests') = Len(requests) + 1
      /\ requests'[Len(requests) + 1] = r /\ \A i \in 1..Len(requests) : requests'[i] = requests[i]
  OBVIOUS
<1>2. ASSUME NEW u \in Targets \ (raced \cup spoiled), NEW i \in 1..Len(requests')
      PROVE  Fits(requests'[i], u, keys[u])
  <2>1. CASE i = Len(requests) + 1
    BY <1>1, <2>1
  <2>2. CASE i # Len(requests) + 1
    <3>1. i \in 1..Len(requests)
      BY <1>1, <2>2
    <3> QED
      BY <1>1, <3>1 DEF RequestsFit
  <2> QED
    BY <2>1, <2>2
<1> QED
  BY <1>2 DEF RequestsFit

\* Recording a request touches no other target.
LEMMA RecordSame ==
    ASSUME NEW s \in Maps(Targets, TargetState), NEW t \in Targets
    PROVE  SameBut(s, RecordPendingTargetRequest(s, t), t)
<1> DEFINE e == EnsureTargetState(s, t)
           st == [e[t] EXCEPT !.outstanding = @ + 1]
<1>1. e \in Maps(Targets, TargetState) /\ t \in DOMAIN e
  BY EnsureTyped
<1>2. SameBut(s, e, t)
  BY EnsureSame
<1>3. RecordPendingTargetRequest(s, t) = [e EXCEPT ![t] = st]
  BY DEF RecordPendingTargetRequest
<1> HIDE DEF e, st
<1>4. SameBut(e, [e EXCEPT ![t] = st], t)
  BY <1>1, ReplaceSame
<1> QED
  BY <1>2, <1>3, <1>4, SameButTrans

\* A request is recorded: its target is not live.
LEMMA RecordNotLive ==
    ASSUME Inv, open, NEW t \in Targets, states' = RecordPendingTargetRequest(states, t),
           listening' \ {t} = listening \ {t}, UNCHANGED resets,
           NEW u \in Targets, u \notin raced, Live(u)'
    PROVE  Live(u) /\ states'[u] = states[u]
<1>1. states \in Maps(Targets, TargetState) /\ requests \in Seq(Requests) /\ replies \in Seq(Replies)
  BY DEF Inv, TypeOK
<1>2. SameBut(states, states', t)
  BY <1>1, RecordSame
<1>3. CASE u # t
  BY <1>2, <1>3 DEF SameBut, Live
<1>4. CASE u = t
  <2>1. Count(states', t) = Count(states, t) + 1
    BY <1>1, RecordResult
  <2>2. Count(states, t) = Sent(t, requests) + Answered(t, replies)
    BY <1>4, OutstandingSum DEF Inv, ResponsesCounted, Count
  <2>3. Sent(t, requests) \in Nat /\ Answered(t, replies) \in Nat
    BY <1>1, CountsNat
  <2>4. Count(states', t) = 0
    BY <1>4 DEF Live, Count
  <2> QED
    BY <2>1, <2>2, <2>3, <2>4
<1> QED
  BY <1>3, <1>4

\* A watch request fits.
LEMMA WatchFits ==
    ASSUME TypeOK, TokensKept, NEW t \in Targets, NEW u \in Targets \ spoiled
    PROVE  Fits(WatchRequest(t, t \in hasToken), u, keys[u])
<1> DEFINE r == WatchRequest(t, t \in hasToken)
<1>1. r.t = t /\ r.resume = (t \in hasToken) /\ r.keys = keys[t]
  BY DEF WatchRequest
<1> HIDE DEF r
<1>2. IsWatch(r, u) => IF r.resume THEN r.keys = keys[u] ELSE keys[u] = {}
  BY <1>1 DEF IsWatch, TokensKept
<1> QED
  BY <1>2 DEF r, Fits

\* A listen.
LEMMA ListenAgreed ==
    ASSUME Inv, Agreed, NEW t \in Targets, Listen(t)
    PROVE  Agreed'
<1>1. UNCHANGED <<hasToken, keys, resets, open, replies, watch, raced, spoiled, wrongKeys>>
      /\ listening' = listening \cup {t} /\ TypeOK
  BY DEF Listen, backend, history, Inv
<1>2. CASE ~open
  <2>1. requests' = <<>>
    BY <1>2 DEF Listen, Inv, ClosedMeansQuiet
  <2> QED
    BY <1>1, <1>2, <2>1, ClosedAgreed
<1>3. CASE open
  <2> DEFINE r == WatchRequest(t, t \in hasToken)
  <2>1. states' = RecordPendingTargetRequest(states, t) /\ requests' = Append(requests, r)
    BY <1>3 DEF Listen
  <2>2. r \in Requests
    BY <1>1, ListenRequest DEF TypeOK
  <2>3. \A u \in Targets \ (raced \cup spoiled) : Fits(r, u, keys[u])
    BY <1>1, WatchFits DEF Agreed
  <2> HIDE DEF r
  <2>4. RequestsFit'
    BY <1>1, <2>1, <2>2, <2>3, AppendFits DEF Agreed, TypeOK
  <2>5. \A u \in Targets \ (raced \cup spoiled) : Live(u)' => Live(u) /\ states'[u] = states[u]
    BY <1>1, <1>3, <2>1, RecordNotLive
  <2> QED
    BY <1>1, <1>3, <2>4, <2>5, StillAgreed
<1> QED
  BY <1>2, <1>3

\* An unlisten.
LEMMA StopListeningAgreed ==
    ASSUME Inv, Agreed, NEW t \in Targets, StopListening(t)
    PROVE  Agreed'
<1>1. UNCHANGED <<hasToken, keys, resets, open, replies, watch, raced, spoiled, wrongKeys>>
      /\ listening' = listening \ {t} /\ TypeOK
  BY DEF StopListening, backend, history, Inv
<1>2. CASE ~open
  <2>1. requests' = <<>>
    BY <1>2 DEF StopListening, Inv, ClosedMeansQuiet
  <2> QED
    BY <1>1, <1>2, <2>1, ClosedAgreed
<1>3. CASE open
  <2> DEFINE r == UnwatchRequest(t)
  <2>1. states' = RecordPendingTargetRequest(states, t) /\ requests' = Append(requests, r)
    BY <1>3 DEF StopListening
  <2>2. r \in Requests /\ \A u : ~ IsWatch(r, u)
    BY DEF UnwatchRequest, Requests, IsWatch
  <2> HIDE DEF r
  <2>3. \A u \in Targets \ (raced \cup spoiled) : Fits(r, u, keys[u])
    BY <2>2 DEF Fits
  <2>4. RequestsFit'
    BY <1>1, <2>1, <2>2, <2>3, AppendFits DEF Agreed, TypeOK
  <2>5. \A u \in Targets \ (raced \cup spoiled) : Live(u)' => Live(u) /\ states'[u] = states[u]
    BY <1>1, <1>3, <2>1, RecordNotLive
  <2> QED
    BY <1>1, <1>3, <2>4, <2>5, StillAgreed
<1> QED
  BY <1>2, <1>3

\* A stream opens: the watches name the keys, and nothing is live yet.
LEMMA OpenAgreed ==
    ASSUME Inv, Agreed, OnWatchStreamOpen
    PROVE  Agreed'
<1> DEFINE n == Cardinality(listening)
           f == SetToSeq(listening)
<1>1. /\ UNCHANGED <<hasToken, keys, watch, raced, spoiled, wrongKeys>> /\ open'
      /\ replies' = <<>> /\ watch = Empty /\ TypeOK
      /\ states' = [t \in listening |-> [NewTargetState EXCEPT !.outstanding = 1]]
      /\ requests' = [i \in 1..n |-> WatchRequest(f[i], f[i] \in hasToken)]
  BY DEF OnWatchStreamOpen, Inv, ClosedMeansQuiet, Agreed, UnwatchedWhenClosed, backend, history
<1>2. \A u : ~ Live(u)'
  BY <1>1 DEF Live, NewTargetState
<1>3. Heard'
  <2>1. ASSUME NEW u \in Targets
        PROVE  Explained(u, keys'[u], <<>>, Live(u)', states'[u], u \in DOMAIN watch', watch'[u])
    <3>1. u \notin DOMAIN watch'
      BY <1>1 DEF Empty
    <3> QED
      BY <1>2, <3>1, ExplainedNone
  <2> QED
    BY <1>1, <2>1 DEF Heard
<1>4. RequestsFit'
  <2>1. n \in Nat /\ f \in [1..n -> listening]
    BY <1>1, SetToSeqResult, Zenon DEF TypeOK
  <2> HIDE DEF n, f
  <2>2. Len(requests') = n
    BY <1>1, <2>1
  <2>3. ASSUME NEW u \in Targets \ (raced \cup spoiled), NEW i \in 1..n
        PROVE  Fits(requests'[i], u, keys[u])
    <3>1. requests'[i] = WatchRequest(f[i], f[i] \in hasToken) /\ f[i] \in Targets
      BY <1>1, <2>1 DEF TypeOK
    <3> QED
      BY <1>1, <3>1, WatchFits DEF Agreed
  <2> QED
    BY <1>1, <2>2, <2>3 DEF RequestsFit
<1> QED
  BY <1>1, <1>3, <1>4 DEF Agreed, TokensKept, UnwatchedWhenClosed, SnapshotsAgree

\* A stream breaks.
LEMMA CloseAgreed ==
    ASSUME Agreed, OnWatchStreamClose
    PROVE  Agreed'
BY DEF OnWatchStreamClose, Agreed, Heard, TokensKept, RequestsFit, UnwatchedWhenClosed, SnapshotsAgree

\* Nothing that matters here changes.
LEMMA SameAgreed ==
    ASSUME Agreed, UNCHANGED <<client, open, requests, replies, watch, history>>
    PROVE  Agreed'
BY DEF client, history, Agreed, Heard, Live, TokensKept, RequestsFit, UnwatchedWhenClosed, SnapshotsAgree

-----------------------------------------------------------------------------
(* A global snapshot. *)

\* HandleNoChange marks every active target, and changes nothing else.
LEMMA NoChangeMarks ==
    ASSUME NEW s \in Maps(Targets, TargetState), NEW t \in DOMAIN s
    PROVE  LET r == HandleNoChange(s)
           IN  /\ r[t].changes = s[t].changes /\ r[t].current = s[t].current
               /\ r[t].outstanding = s[t].outstanding
               /\ IsActiveTarget(s, t) => r[t].pending /\ r[t].token
<1>1. s[t] \in TargetState
  BY InMaps
<1> DEFINE st == [s[t] EXCEPT !.token = TRUE, !.pending = TRUE]
<1>2. st.changes = s[t].changes /\ st.current = s[t].current /\ st.outstanding = s[t].outstanding
      /\ st.pending /\ st.token
  BY <1>1 DEF TargetState
<1>3. HandleNoChange(s)[t] = IF IsActiveTarget(s, t) THEN st ELSE s[t]
  BY DEF HandleNoChange
<1> HIDE DEF st
<1> QED
  BY <1>2, <1>3

\* So the changed targets are the active ones.
ActiveTargets == {t \in DOMAIN states : IsActiveTarget(states, t)}

LEMMA ChangedAreActive ==
    ASSUME states \in Maps(Targets, TargetState)
    PROVE  ChangedTargets(HandleNoChange(states)) = ActiveTargets
<1> DEFINE s == HandleNoChange(states)
<1>1. DOMAIN s = DOMAIN states
  BY NoChangeResult
<1>2. \A t \in DOMAIN states : /\ s[t].outstanding = states[t].outstanding
                               /\ IsActiveTarget(states, t) => s[t].pending
  BY NoChangeMarks
<1> HIDE DEF s
<1>3. \A t \in DOMAIN states : IsActiveTarget(s, t) <=> IsActiveTarget(states, t)
  BY <1>1, <1>2 DEF IsActiveTarget, IsPending
<1>4. ChangedTargets(s) = {t \in DOMAIN s : IsActiveTarget(s, t) /\ s[t].pending}
  BY DEF ChangedTargets
<1>5. ChangedTargets(s) = ActiveTargets
  BY <1>1, <1>2, <1>3, <1>4 DEF ActiveTargets
<1> QED
  BY <1>5 DEF s

\* The state of a target that is changed and not watched anew.
LEMMA AfterSnapshotState ==
    ASSUME NEW s \in Maps(Targets, TargetState), NEW changed, NEW again, NEW t \in DOMAIN s,
           t \in changed, t \notin again
    PROVE  LET r == AfterSnapshot(s, changed, again)
           IN  r[t].changes = Empty /\ r[t].current = s[t].current
<1>1. s[t] \in TargetState
  BY InMaps
<1>2. AfterSnapshot(s, changed, again)[t] = ClearPendingChanges(s[t])
  BY DEF AfterSnapshot
<1>3. ClearPendingChanges(s[t]).changes = Empty /\ ClearPendingChanges(s[t]).current = s[t].current
  BY <1>1 DEF ClearPendingChanges, TargetState
<1> QED
  BY <1>2, <1>3

\* What a snapshot does, told of the target states before it.
SnapshotDone(truth) ==
    LET again == resets \cap listening
    IN  /\ \A t \in Targets : keys'[t] = IF t \in ActiveTargets THEN View(keys[t], states[t])
                                         ELSE keys[t]
        /\ \A t \in ActiveTargets : current'[t] = states[t].current
        /\ hasToken' = (hasToken \cup ActiveTargets) \ again
        /\ DOMAIN states' = DOMAIN states
        /\ \A t \in ActiveTargets \ again :
               states'[t].changes = Empty /\ states'[t].current = states[t].current
        /\ \A t \in DOMAIN states :
               states'[t].outstanding = states[t].outstanding + (IF t \in again THEN 2 ELSE 0)
        /\ requests' = requests \o RewatchRequests(again)
        /\ \A t \in wrongKeys' : t \in wrongKeys
               \/ /\ t \in DOMAIN truth \cap listening /\ t \notin resets \cup raced
                  /\ ~IsPending(states, t)
                  /\ truth[t].current /\ ~(current'[t] /\ keys'[t] = truth[t].keys)
        /\ spoiled' = spoiled \cup {t \in again : keys'[t] # {}}
        /\ resets' = {} /\ UNCHANGED <<listening, raced>>

LEMMA SnapshotIsDone ==
    ASSUME TypeOK, NEW truth, RaiseWatchSnapshot(HandleNoChange(states), truth)
    PROVE  SnapshotDone(truth)
<1> DEFINE s == HandleNoChange(states)
           again == resets \cap listening
           changed == ChangedTargets(s)
<1>1. states \in Maps(Targets, TargetState) /\ DOMAIN states \subseteq Targets
  BY InMaps DEF TypeOK
<1>2. SameCounts(states, s) /\ DOMAIN s = DOMAIN states
  BY <1>1, NoChangeResult
<1>3. s \in Maps(Targets, TargetState)
  BY <1>2 DEF SameCounts
<1>4. \A t \in DOMAIN states :
          /\ s[t].changes = states[t].changes /\ s[t].current = states[t].current
          /\ s[t].outstanding = states[t].outstanding
          /\ IsActiveTarget(states, t) => s[t].pending /\ s[t].token
  BY <1>1, NoChangeMarks
<1>5. changed = ActiveTargets
  BY <1>1, ChangedAreActive
<1>6. RaiseWatchSnapshot(s, truth)
  OBVIOUS
<1> HIDE DEF s, changed
<1>7. ActiveTargets \subseteq DOMAIN states
  BY DEF ActiveTargets
<1>8. \A t \in DOMAIN states : AddedKeys(s[t]) = AddedKeys(states[t])
                               /\ RemovedKeys(s[t]) = RemovedKeys(states[t])
  BY <1>4 DEF AddedKeys, RemovedKeys
<1>9. \A t \in Targets : keys'[t] = IF t \in ActiveTargets THEN View(keys[t], states[t]) ELSE keys[t]
  <2>1. keys' = [t \in Targets |-> IF t \in changed
                                   THEN (keys[t] \cup AddedKeys(s[t])) \ RemovedKeys(s[t])
                                   ELSE keys[t]]
    BY <1>6 DEF RaiseWatchSnapshot, changed
  <2> QED
    BY <1>5, <1>7, <1>8, <2>1 DEF View
<1>10. \A t \in ActiveTargets : current'[t] = states[t].current
  <2>1. current' = [t \in Targets |-> IF t \in changed THEN s[t].current ELSE current[t]]
    BY <1>6 DEF RaiseWatchSnapshot, changed
  <2> QED
    BY <1>1, <1>4, <1>5, <1>7, <2>1
<1>11. hasToken' = (hasToken \cup ActiveTargets) \ again
  <2>1. hasToken' = (hasToken \cup {t \in changed : s[t].token}) \ again
    BY <1>6 DEF RaiseWatchSnapshot, changed
  <2>2. {t \in changed : s[t].token} = ActiveTargets
    BY <1>4, <1>5 DEF ActiveTargets
  <2> QED
    BY <2>1, <2>2
<1>12. states' = AfterSnapshot(s, changed, again)
  BY <1>6 DEF RaiseWatchSnapshot, AfterSnapshot, changed
<1>13. DOMAIN states' = DOMAIN states
       /\ \A t \in DOMAIN s : Count(states', t) = Count(s, t) + (IF t \in again THEN 2 ELSE 0)
  BY <1>2, <1>3, <1>12, SnapshotStates
<1>14. \A t \in DOMAIN states :
           states'[t].outstanding = states[t].outstanding + (IF t \in again THEN 2 ELSE 0)
  BY <1>2, <1>4, <1>13 DEF Count
<1>15. \A t \in ActiveTargets \ again :
           states'[t].changes = Empty /\ states'[t].current = states[t].current
  <2>1. TAKE t \in ActiveTargets \ again
  <2>2. t \in DOMAIN s /\ t \in changed /\ t \notin again
    BY <1>2, <1>5, <1>7
  <2>3. states'[t].changes = Empty /\ states'[t].current = s[t].current
    <3> HIDE DEF again
    <3> QED
      BY <1>3, <1>12, <2>2, AfterSnapshotState
  <2> QED
    BY <1>2, <1>4, <2>2, <2>3
<1>16. requests' = requests \o RewatchRequests(again)
       /\ spoiled' = spoiled \cup {t \in again : keys'[t] # {}}
       /\ resets' = {} /\ UNCHANGED <<listening, raced>>
  BY <1>6 DEF RaiseWatchSnapshot
<1>17. ASSUME NEW t \in wrongKeys', t \notin wrongKeys
       PROVE  /\ t \in DOMAIN truth \cap listening /\ t \notin resets \cup raced
              /\ ~IsPending(states, t)
              /\ truth[t].current /\ ~(current'[t] /\ keys'[t] = truth[t].keys)
  <2>1. wrongKeys' = wrongKeys \cup {u \in {v \in DOMAIN truth : IsActiveTarget(s, v)} \ (resets \cup raced) :
                            truth[u].current /\ ~(current'[u] /\ keys'[u] = truth[u].keys)}
    BY <1>6 DEF RaiseWatchSnapshot
  <2>2. t \in DOMAIN truth /\ IsActiveTarget(s, t) /\ t \notin resets \cup raced
        /\ truth[t].current /\ ~(current'[t] /\ keys'[t] = truth[t].keys)
    BY <1>17, <2>1
  <2>3. t \in listening /\ ~IsPending(s, t)
    BY <2>2 DEF IsActiveTarget
  <2>4. ~IsPending(states, t)
    BY <1>2, <1>4, <2>3 DEF IsPending
  <2> QED
    BY <2>2, <2>3, <2>4
<1> QED
  BY <1>9, <1>10, <1>11, <1>13, <1>14, <1>15, <1>16, <1>17 DEF SnapshotDone

\* Nothing is under way for a target that awaits nothing.
LEMMA NoneUnderWay ==
    ASSUME NEW t, NEW reqs \in Seq(Requests), NEW reps \in Seq(Replies),
           Sent(t, reqs) + Answered(t, reps) = 0
    PROVE  /\ \A i \in 1..Len(reqs) : reqs[i].t # t
           /\ \A i \in 1..Len(reps) : ~ IsResponse(reps[i], t)
<1> DEFINE D == {i \in DOMAIN reqs : reqs[i].t = t}
           E == {i \in DOMAIN reps : IsResponse(reps[i], t)}
<1>1. Sent(t, reqs) \in Nat /\ Answered(t, reps) \in Nat
  BY CountsNat
<1>2. Cardinality(D) = 0 /\ Cardinality(E) = 0
  <2>1. Sent(t, reqs) = 0 /\ Answered(t, reps) = 0
    BY <1>1
  <2> QED
    BY <2>1 DEF Sent, Answered
<1>3. Len(reqs) \in Nat /\ Len(reps) \in Nat /\ D \in SUBSET (1..Len(reqs)) /\ E \in SUBSET (1..Len(reps))
      /\ DOMAIN reqs = 1..Len(reqs) /\ DOMAIN reps = 1..Len(reps)
  OBVIOUS
<1>4. IsFiniteSet(1..Len(reqs)) /\ IsFiniteSet(1..Len(reps))
  BY <1>3, FS_Interval
<1>5. IsFiniteSet(D) /\ IsFiniteSet(E)
  BY <1>3, <1>4, FS_Subset, Zenon
<1>6. D = {} /\ E = {}
  BY <1>2, <1>5, FS_EmptySet, Zenon
<1> QED
  BY <1>3, <1>6

\* The watches that a snapshot requests are those of targets watched anew, without token.
LEMMA RewatchKinds ==
    ASSUME NEW again \in SUBSET Targets, IsFiniteSet(again), keys \in [Targets -> SUBSET Keys],
           NEW j \in 1..Len(RewatchRequests(again)), NEW u, IsWatch(RewatchRequests(again)[j], u)
    PROVE  u \in again /\ ~RewatchRequests(again)[j].resume
<1> DEFINE n == Cardinality(again)
           f == SetToSeq(again)
           q == RewatchRequests(again)
           w(t) == [WatchRequest(t, FALSE) EXCEPT !.keys = {}]
<1>1. n \in Nat /\ f \in [1..n -> again]
  BY SetToSeqResult, Zenon
<1>2. q = [i \in 1..(2 * n) |-> IF i % 2 = 1 THEN UnwatchRequest(f[(i + 1) \div 2])
                                ELSE w(f[(i + 1) \div 2])]
  BY DEF RewatchRequests
<1>3. \A t : w(t).t = t /\ w(t).kind = "watch" /\ w(t).resume = FALSE /\ UnwatchRequest(t).kind = "unwatch"
  BY DEF WatchRequest, UnwatchRequest
<1>4. j \in 1..Len(q) /\ IsWatch(q[j], u)
  OBVIOUS
<1> HIDE DEF n, f, q, w
<1>5. Len(q) = 2 * n
  BY <1>1, <1>2
<1>6. j \in 1..(2 * n) /\ (j + 1) \div 2 \in 1..n
  BY <1>1, <1>4, <1>5
<1> DEFINE t == f[(j + 1) \div 2]
<1>7. t \in again
  BY <1>1, <1>6
<1>8. q[j] = UnwatchRequest(t) \/ q[j] = w(t)
  BY <1>2, <1>6
<1> HIDE DEF t
<1>9. u \in again /\ ~q[j].resume
  BY <1>3, <1>4, <1>7, <1>8 DEF IsWatch
<1> QED
  BY <1>9 DEF q

\* The view becomes the keys, and the target still follows.
LEMMA FollowsSnapshot ==
    ASSUME NEW ks, NEW st, NEW rt, NEW a, Follows(ks, st, a), rt.changes = Empty,
           rt.current = st.current
    PROVE  Follows(View(ks, st), rt, a)
<1>1. AddedKeys(rt) = {} /\ RemovedKeys(rt) = {}
  BY DEF AddedKeys, RemovedKeys, Empty
<1> DEFINE V == View(ks, st)
<1>2. a.told \subseteq V /\ (~a.filter => V = a.told) /\ (a.current => st.current)
  BY DEF Follows
<1> HIDE DEF V
<1>3. View(V, rt) = V
  BY <1>1 DEF View
<1>4. Follows(V, rt, a)
  BY <1>1, <1>2, <1>3 DEF Follows
<1> QED
  BY <1>4 DEF V

\* A snapshot is raised.  A target that the backend calls current has no filter to come, so
\* that its view, which becomes its keys, is what the backend told it.
LEMMA SnapshotAgreed ==
    ASSUME Inv, Agreed, TakesReply, NEW truth, Head(replies).kind = "Snapshot",
           Head(replies).truth = truth, RaiseWatchSnapshot(HandleNoChange(states), truth)
    PROVE  Agreed'
<1> DEFINE m == Head(replies)
           again == resets \cap listening
<1>1. TypeOK /\ requests \in Seq(Requests) /\ replies \in Seq(Replies) /\ keys \in [Targets -> SUBSET Keys]
      /\ states \in Maps(Targets, TargetState)
  BY DEF Inv, TypeOK
<1>2. SnapshotDone(truth)
  BY <1>1, SnapshotIsDone
<1>3. open /\ open' /\ replies # <<>> /\ replies' = Tail(replies) /\ watch' = watch
  BY DEF TakesReply, backend
<1>4. UNCHANGED <<listening, raced>> /\ resets' = {} /\ spoiled \subseteq spoiled'
      /\ spoiled' = spoiled \cup {t \in again : keys'[t] # {}}
      /\ requests' = requests \o RewatchRequests(again)
      /\ \A t \in Targets : keys'[t] = IF t \in ActiveTargets THEN View(keys[t], states[t]) ELSE keys[t]
  BY <1>2 DEF SnapshotDone
<1>5. ASSUME NEW u \in Targets, u \notin raced, u \in ActiveTargets
      PROVE  /\ \A i \in 1..Len(requests) : requests[i].t # u
             /\ \A i \in 1..Len(replies) : ~ IsResponse(replies[i], u)
  <2>1. Count(states, u) = 0
    BY <1>5 DEF ActiveTargets, IsActiveTarget, IsPending, Count
  <2>2. Count(states, u) = Outstanding(u, requests, replies)
    BY <1>3, <1>5 DEF Inv, ResponsesCounted, Count
  <2>3. Sent(u, requests) + Answered(u, replies) = 0
    BY <2>1, <2>2, OutstandingSum
  <2> QED
    BY <1>1, <2>3, NoneUnderWay
<1>6. ASSUME NEW u \in Targets, u \notin raced, Live(u)'
      PROVE  Live(u) /\ u \in ActiveTargets \ again
  <2>1. u \in listening /\ u \in DOMAIN states /\ states'[u].outstanding = 0
        /\ states'[u].outstanding = states[u].outstanding + (IF u \in again THEN 2 ELSE 0)
    BY <1>2, <1>6 DEF Live, SnapshotDone
  <2>2. states[u].outstanding = Sent(u, requests) + Answered(u, replies)
    BY <1>3, <1>6, <2>1, OutstandingSum DEF Inv, ResponsesCounted
  <2>3. Sent(u, requests) \in Nat /\ Answered(u, replies) \in Nat
    BY <1>1, CountsNat
  <2> HIDE DEF again
  <2>4. u \notin again /\ states[u].outstanding = 0
    BY <2>1, <2>2, <2>3
  <2> QED
    BY <2>1, <2>4 DEF again, Live, ActiveTargets, IsActiveTarget, IsPending
<1>7. Heard'
  <2>1. ASSUME NEW u \in Targets, u \notin raced \cup spoiled'
        PROVE  Explained(u, keys'[u], replies', Live(u)', states'[u], u \in DOMAIN watch, watch[u])
    <3>1. Explained(u, keys[u], replies, Live(u), states[u], u \in DOMAIN watch, watch[u])
      BY <1>3, <1>4, <2>1 DEF Agreed, Heard
    <3>2. Followed(u, keys[u], m, Live(u), states[u], keys'[u], Live(u)', states'[u])
      <4>1. SUFFICES ASSUME NEW a \in GoodWatch, NEW b \in GoodWatch, Means(u, keys[u], m, a, b),
                            Live(u) => Follows(keys[u], states[u], a), Live(u)'
                     PROVE  Follows(keys'[u], states'[u], b)
        BY DEF Followed
      <4>2. b = a
        BY <4>1 DEF Means
      <4>3. Live(u) /\ u \in ActiveTargets \ again
        BY <1>6, <2>1, <4>1
      <4>4. keys'[u] = View(keys[u], states[u])
        BY <1>4, <4>3
      <4>5. states'[u].changes = Empty /\ states'[u].current = states[u].current
        BY <1>2, <4>3 DEF SnapshotDone
      <4>6. Follows(View(keys[u], states[u]), states'[u], a)
        BY <4>1, <4>3, <4>5, FollowsSnapshot
      <4> QED
        BY <4>2, <4>4, <4>6
    <3>3. keys'[u] = keys[u] \/ NotAdded(u, Tail(replies))
      <4>1. CASE u \notin ActiveTargets
        BY <1>4, <4>1
      <4>2. CASE u \in ActiveTargets
        <5>1. \A i \in 1..Len(replies) : ~ IsResponse(replies[i], u)
          BY <1>5, <2>1, <4>2
        <5>2. Len(Tail(replies)) = Len(replies) - 1 /\ Len(replies) \in Nat
              /\ \A i \in 1..Len(Tail(replies)) : Tail(replies)[i] = replies[i + 1]
          BY <1>1, <1>3
        <5>3. \A i \in 1..Len(Tail(replies)) : i + 1 \in 1..Len(replies)
          BY <5>2
        <5> QED
          BY <5>1, <5>2, <5>3 DEF NotAdded, IsResponse
      <4> QED
        BY <4>1, <4>2
    <3> QED
      BY <1>1, <1>3, <3>1, <3>2, <3>3, ExplainedTake
  <2> QED
    BY <1>3, <1>4, <2>1 DEF Heard
<1>8. RequestsFit'
  <2> DEFINE q == RewatchRequests(again)
  <2>1. again \in SUBSET Targets /\ IsFiniteSet(again)
    <3>1. again \in SUBSET listening
      OBVIOUS
    <3>2. IsFiniteSet(again)
      BY <1>1, <3>1, FS_Subset, Zenon DEF TypeOK
    <3> QED
      BY <1>1, <3>1, <3>2 DEF TypeOK
  <2>2. q \in Seq(Requests)
    <3> HIDE DEF again
    <3> QED
      BY <1>1, <2>1, RewatchResult
  <2>3. \A j \in 1..Len(q) : \A u : IsWatch(q[j], u) => u \in again /\ ~q[j].resume
    <3> HIDE DEF again
    <3> QED
      BY <1>1, <2>1, RewatchKinds
  <2>4. requests' = requests \o q
    BY <1>4
  <2> HIDE DEF q
  <2>5. /\ Len(requests) \in Nat /\ Len(requests \o q) = Len(requests) + Len(q) /\ Len(q) \in Nat
        /\ \A i \in 1..Len(requests) : (requests \o q)[i] = requests[i]
        /\ \A i \in 1..Len(q) : (requests \o q)[Len(requests) + i] = q[i]
    BY <1>1, <2>2, Concatenated
  <2>6. ASSUME NEW u \in Targets, u \notin raced \cup spoiled', NEW i \in 1..Len(requests')
        PROVE  Fits(requests'[i], u, keys'[u])
    <3>1. CASE i \in 1..Len(requests)
      <4>1. requests'[i] = requests[i]
        BY <2>4, <2>5, <3>1
      <4>2. Fits(requests[i], u, keys[u])
        BY <1>4, <2>6, <3>1 DEF Agreed, RequestsFit
      <4>3. CASE u \notin ActiveTargets
        BY <1>4, <4>1, <4>2, <4>3
      <4>4. CASE u \in ActiveTargets
        <5>1. requests[i].t # u
          BY <1>5, <2>6, <3>1, <4>4
        <5> QED
          BY <4>1, <5>1 DEF Fits, IsWatch
      <4> QED
        BY <4>3, <4>4
    <3>2. CASE i \notin 1..Len(requests)
      <4> DEFINE j == i - Len(requests)
      <4>1. j \in 1..Len(q) /\ i = Len(requests) + j
        BY <2>4, <2>5, <3>2
      <4> HIDE DEF j
      <4>2. requests'[i] = q[j]
        BY <2>4, <2>5, <4>1
      <4>3. IsWatch(q[j], u) => u \in again /\ ~q[j].resume
        BY <2>3, <4>1
      <4>4. u \in again => keys'[u] = {}
        BY <1>4, <2>6
      <4> QED
        BY <4>2, <4>3, <4>4 DEF Fits
    <3> QED
      BY <3>1, <3>2
  <2> QED
    BY <1>4, <2>6 DEF RequestsFit
<1>9. TokensKept'
  <2>1. ASSUME NEW u \in Targets, u \notin spoiled', keys'[u] # {} PROVE u \in hasToken'
    <3>1. u \notin again /\ u \notin spoiled
      BY <1>4, <2>1
    <3>2. hasToken' = (hasToken \cup ActiveTargets) \ again
      BY <1>2 DEF SnapshotDone
    <3>3. u \notin ActiveTargets => u \in hasToken
      BY <1>4, <2>1, <3>1 DEF Agreed, TokensKept
    <3> QED
      BY <3>1, <3>2, <3>3
  <2> QED
    BY <2>1 DEF TokensKept
<1>10. SnapshotsAgree'
  <2>1. SUFFICES ASSUME NEW u \in wrongKeys', u \notin spoiled' PROVE FALSE
    BY DEF SnapshotsAgree
  <2>2. u \notin wrongKeys
    BY <1>4, <2>1 DEF Agreed, SnapshotsAgree
  <2>3. /\ u \in DOMAIN truth \cap listening /\ u \notin resets \cup raced
        /\ ~IsPending(states, u)
        /\ truth[u].current /\ ~(current'[u] /\ keys'[u] = truth[u].keys)
    BY <1>2, <2>1, <2>2 DEF SnapshotDone
  <2>4. u \in Targets /\ u \in DOMAIN states /\ u \in ActiveTargets /\ Live(u)
    <3>1. u \in Targets /\ u \in DOMAIN states
      BY <1>1, <1>3, <2>3 DEF Inv, Tracked, TypeOK
    <3> QED
      BY <2>3, <3>1 DEF IsPending, ActiveTargets, IsActiveTarget, Live
  <2>5. PICK h \in [0..Len(replies) -> GoodWatch] :
          /\ \A i \in 1..Len(replies) : Means(u, keys[u], replies[i], h[i - 1], h[i])
          /\ Follows(keys[u], states[u], h[0])
    <3>1. Explained(u, keys[u], replies, Live(u), states[u], u \in DOMAIN watch, watch[u])
      BY <1>3, <1>4, <2>1, <2>3, <2>4 DEF Agreed, Heard
    <3> QED
      BY <2>4, <3>1 DEF Explained
  <2> DEFINE a == h[0]
  <2>6. Len(replies) \in Nat /\ 1 \in 1..Len(replies) /\ replies[1] = m
    BY <1>1, <1>3
  <2>7. Means(u, keys[u], m, a, h[1]) /\ a \in GoodWatch /\ Follows(keys[u], states[u], a)
    <3>1. 1 - 1 = 0 /\ 0 \in 0..Len(replies)
      BY <2>6
    <3> QED
      BY <2>5, <2>6, <3>1
  <2> HIDE DEF a
  <2>8. truth[u] = [keys |-> a.told, current |-> a.current]
    BY <2>3, <2>7 DEF Means
  <2>9. a.current /\ truth[u].keys = a.told
    BY <2>3, <2>8
  <2>10. ~a.filter
    BY <2>7, <2>9 DEF GoodWatch
  <2>11. View(keys[u], states[u]) = a.told /\ states[u].current
    BY <2>7, <2>9, <2>10 DEF Follows
  <2>12. current'[u] = states[u].current /\ keys'[u] = View(keys[u], states[u])
    BY <1>2, <1>4, <2>4 DEF SnapshotDone
  <2> QED
    BY <2>3, <2>9, <2>11, <2>12
<1>11. UnwatchedWhenClosed'
  BY <1>3 DEF UnwatchedWhenClosed
<1> QED
  BY <1>7, <1>8, <1>9, <1>10, <1>11 DEF Agreed

-----------------------------------------------------------------------------
(* The last theorem. *)

\* Every message.
LEMMA ChangeAgreed ==
    ASSUME Inv, Inv', Agreed, OnWatchStreamChange
    PROVE  Agreed'
<1> DEFINE m == Head(replies)
<1>1. TakesReply
  BY DEF OnWatchStreamChange, TakesReply
<1>2. m \in Replies
  BY <1>1 DEF Inv, TypeOK, TakesReply
<1>3. m.kind # "Snapshot" => m.t \in Targets
  BY <1>2 DEF Replies
<1>4. m.kind \in {"Doc", "Gone"} => m.key \in Keys
  BY <1>2 DEF Replies
<1>5. ASSUME m.kind = "Added", Aggregate(HandleAdded(states, m.t)) PROVE Agreed'
  BY <1>1, <1>3, <1>5, AddedAgreed
<1>7. ASSUME m.kind = "Removed", Aggregate(HandleRemoved(states, m.t)) PROVE Agreed'
  BY <1>1, <1>3, <1>7, RemovedAgreed
<1>8. ASSUME m.kind = "Current", Aggregate(HandleCurrent(states, m.t)) PROVE Agreed'
  BY <1>1, <1>3, <1>8, CurrentAgreed
<1>9. ASSUME m.kind = "Reset", Aggregate(HandleReset(states, m.t)) PROVE Agreed'
  BY <1>1, <1>3, <1>9, ResetAgreed
<1>10. ASSUME m.kind = "Doc", Aggregate(AddDocumentToTarget(states, m.t, m.key)) PROVE Agreed'
  BY <1>1, <1>3, <1>4, <1>10, DocAgreed
<1>11. ASSUME m.kind = "Gone", Aggregate(RemoveDocumentFromTarget(states, m.t, m.key)) PROVE Agreed'
  BY <1>1, <1>3, <1>4, <1>11, GoneAgreed
<1>12. ASSUME m.kind = "Filter",
              states' = HandleExistenceFilter(states, m.t, m.count, m.bloom)[1],
              resets' = resets \cup HandleExistenceFilter(states, m.t, m.count, m.bloom)[2],
              spoiled' = spoiled \cup CountedTwice(states, m.t, m.bloom),
              UNCHANGED <<listening, hasToken, keys, current, requests, raced, wrongKeys, early>>
       PROVE  Agreed'
  BY <1>1, <1>3, <1>12, FilterAgreed
<1>13. ASSUME m.kind = "Error", ProcessTargetError(m.t) PROVE Agreed'
  BY <1>1, <1>3, <1>13, ErrorAgreed
<1>14. ASSUME m.kind = "Snapshot", RaiseWatchSnapshot(HandleNoChange(states), m.truth) PROVE Agreed'
  BY <1>1, <1>14, SnapshotAgreed
<1> QED
  BY <1>5, <1>7, <1>8, <1>9, <1>10, <1>11, <1>12, <1>13, <1>14 DEF OnWatchStreamChange

\* At first.
LEMMA InitAgreed == Init => Agreed
BY DEF Init, Agreed, Heard, TokensKept, RequestsFit, UnwatchedWhenClosed, SnapshotsAgree

\* Every step.
LEMMA NextAgreed ==
    ASSUME Inv, Inv', Agreed, [Next]_vars
    PROVE  Agreed'
<1> TypeOK
  BY DEF Inv
<1>1. ASSUME NEW t \in Targets, Listen(t) PROVE Agreed'
  BY <1>1, ListenAgreed
<1>2. ASSUME NEW t \in Targets, StopListening(t) PROVE Agreed'
  BY <1>2, StopListeningAgreed
<1>3. ASSUME NEW t \in Targets, SendReset(t) PROVE Agreed'
  BY <1>3, SendResetAgreed
<1>4. ASSUME NEW t \in Targets, ChangeResults(t) PROVE Agreed'
  BY <1>4, SameAgreed DEF ChangeResults
<1>5. CASE OnWatchStreamOpen
  BY <1>5, OpenAgreed
<1>6. CASE OnWatchStreamClose
  BY <1>6, CloseAgreed
<1>7. CASE OnWatchStreamChange
  BY <1>7, ChangeAgreed
<1>8. CASE ServeWatch
  BY <1>8, ServeWatchAgreed
<1>9. CASE ServeUnwatch
  BY <1>9, ServeUnwatchAgreed
<1>10. CASE RejectWatch
  BY <1>10, RejectWatchAgreed
<1>11. CASE SendUpdate
  BY <1>11, SendUpdateAgreed
<1>12. CASE SendSnapshot
  BY <1>12, SendSnapshotAgreed
<1>13. CASE UNCHANGED vars
  <2>1. UNCHANGED <<client, open, requests, replies, watch, history>>
    BY <1>13 DEF vars, backend
  <2> QED
    BY <2>1, SameAgreed
<1> QED
  BY <1>1, <1>2, <1>3, <1>4, <1>5, <1>6, <1>7, <1>8, <1>9, <1>10, <1>11, <1>12, <1>13 DEF Next

\* However listens, unlistens, resets, rejections, broken streams and changes of the results
\* interleave, an active target that a global snapshot finds current at the backend is current
\* and has exactly the backend's keys, but for the targets that are about to be watched anew,
\* raced or spoiled (CreateRemoteEvent, HandleExistenceFilter, RaiseWatchSnapshot).
THEOREM SnapshotsAgreeHolds == Spec => []SnapshotsAgree
<1>1. Init => Agreed
  BY InitAgreed
<1>2. Inv /\ Inv' /\ Agreed /\ [Next]_vars => Agreed'
  BY NextAgreed
<1>3. Agreed => SnapshotsAgree
  BY DEF Agreed
<1> QED
  BY <1>1, <1>2, <1>3, InvHolds, PTL DEF Spec

=============================================================================
