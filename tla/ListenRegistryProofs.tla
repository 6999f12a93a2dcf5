------------------------- MODULE ListenRegistryProofs -------------------------
(***************************************************************************)
(* Proofs about ListenRegistry: its maps agree and no assertion fails, for *)
(* any number of listeners, queries and targets, as long as the listeners  *)
(* on one target have the same source; what holds without that condition.  *)
(***************************************************************************)
EXTENDS ListenRegistry, TLAPS

\* A query's listeners are listeners of that query: what makes the condition on the
\* sources of one target say something about the listeners of its queries.
ListenersOfQuery == \A q \in Queries : \A l \in listeners[q] : QueryOf[l] = q

\* ViewsAgree with the equalities of sets read element by element.
ViewsInv ==
    /\ TypeOK
    /\ ListenersOfQuery
    /\ failed \notin {"already listening", "query not found"}
    /\ failed = "none" =>
          /\ \A q \in Queries : q \in views <=> listeners[q] # {}
          /\ \A t \in Targets : \A q \in queriesByTarget[t] : q \in views /\ TargetOf[q] = t

\* The agreement of the maps, element by element.
MapsInv ==
    /\ failed = "none"
    /\ \A q \in views : q \in queriesByTarget[TargetOf[q]]
    /\ \A q \in views : TargetOf[q] \in allocated
    /\ \A t \in allocated : \E q \in views : TargetOf[q] = t
    /\ \A t \in Targets : t \in indexed <=> t \in allocated
    /\ \A q \in Queries : \A l \in listeners[q] :
          l \in RemoteListeners => TargetOf[q] \in listenTargets
    /\ \A t \in listenTargets : \E q \in Queries : \E l \in listeners[q] :
          l \in RemoteListeners /\ TargetOf[q] = t

USE RegistryAssumption DEF AllocateTarget, ReleaseTarget, OnError

-----------------------------------------------------------------------------

\* Init, which has no listener, establishes both invariants.
LEMMA InitRegistry == Init => ViewsInv /\ MapsInv
  <1> SUFFICES ASSUME Init PROVE ViewsInv /\ MapsInv
    OBVIOUS
  <1>1. TypeOK
    BY DEF Init, TypeOK, Failures
  <1>2. QED
    BY <1>1 DEF Init, ViewsInv, MapsInv, ListenersOfQuery

\* Every step leaves the calls well typed.
LEMMA CallsType ==
  ASSUME TypeOK, [Next]_vars
  PROVE  calls' \in Seq(Call)
<1>0. calls \in Seq(Call)
  BY DEF TypeOK
<1>1. ASSUME NEW l \in Listeners, ListenToQuery(l) \/ RemoveListener(l)
      PROVE  calls' \in Seq(Call)
  <2>1. [op |-> "add", listener |-> l] \in Call /\ [op |-> "remove", listener |-> l] \in Call
    BY DEF Call
  <2>2. \E c \in Call : calls' = Append(calls, c)
    BY <1>1, <2>1 DEF ListenToQuery, RemoveListener
  <2> QED
    BY <1>0, <2>2
<1>2. ASSUME NEW l \in Listeners, AddQueryListener(l) \/ RemoveQueryListener(l)
      PROVE  calls' \in Seq(Call)
  <2>1. calls' = Tail(calls) /\ calls # <<>>
    BY <1>2, Zenon DEF AddQueryListener, RemoveQueryListener
  <2> QED
    BY <1>0, <2>1
<1>3. ASSUME NEW t \in Targets, ProcessTargetError(t)
      PROVE  calls' \in Seq(Call)
  BY <1>0, <1>3, Zenon DEF ProcessTargetError
<1>4. CASE UNCHANGED vars
  BY <1>0, <1>4 DEF vars
<1> QED
  BY <1>1, <1>2, <1>3, <1>4 DEF Next

\* The user's calls touch none of the maps.
LEMMA UserCallsKeepMaps ==
  ASSUME NEW l \in Listeners, ListenToQuery(l) \/ RemoveListener(l)
  PROVE  /\ UNCHANGED <<listeners, views, indexed, queriesByTarget, allocated,
                        listenTargets, failed>>
         /\ errored' = errored \/ errored' = errored \ {l}
BY DEF ListenToQuery, RemoveListener, engine

-----------------------------------------------------------------------------
(* What holds whatever the sources of the listeners are. *)

\* Adding a listener keeps queries and views together: a query without listeners
\* has no view, so SyncEngine::Listen creates one.
LEMMA AddKeepsViews ==
  ASSUME ViewsInv, NEW l \in Listeners, AddQueryListener(l), calls' \in Seq(Call)
  PROVE  ViewsInv'
<1> DEFINE q == QueryOf[l]
<1>1. q \in Queries /\ TargetOf[q] \in Targets
  OBVIOUS
<1>2. /\ failed = "none"
      /\ errored' = errored
      /\ listeners' = [listeners EXCEPT ![q] = @ \cup {l}]
  BY DEF AddQueryListener
<1>3. \/ listeners[q] = {} /\ Listen(q, l \in RemoteListeners)
      \/ listeners[q] # {} /\ ListenToRemoteStore(q)
      \/ listeners[q] # {} /\ UNCHANGED <<engine, failed>>
  BY DEF AddQueryListener
<1>4. listeners' \in [Queries -> SUBSET Listeners] /\ ListenersOfQuery'
  BY <1>1, <1>2 DEF ViewsInv, TypeOK, ListenersOfQuery
<1>5. CASE listeners[q] = {} /\ Listen(q, l \in RemoteListeners)
  <2>1. q \notin views
    BY <1>1, <1>2, <1>5 DEF ViewsInv
  <2>2. CASE Fail("empty query list read")
    BY <1>2, <1>4, <2>2 DEF ViewsInv, TypeOK, Fail, engine, Failures
  <2>3. CASE ~ Fail("empty query list read")
    <3>1. /\ views' = views \cup {q}
          /\ indexed' = indexed \cup {TargetOf[q]}
          /\ queriesByTarget' = [queriesByTarget EXCEPT ![TargetOf[q]] = @ \cup {q}]
          /\ allocated' = allocated \cup {TargetOf[q]}
          /\ listenTargets' \in {listenTargets, listenTargets \cup {TargetOf[q]}}
          /\ failed' = failed
      BY <1>5, <2>1, <2>3 DEF Listen
    <3>2. TypeOK'
      BY <1>1, <1>2, <1>4, <3>1 DEF ViewsInv, TypeOK
    <3>3. \A p \in Queries : p \in views' <=> listeners'[p] # {}
      BY <1>1, <1>2, <3>1 DEF ViewsInv, TypeOK
    <3>4. \A t \in Targets : \A p \in queriesByTarget'[t] : p \in views' /\ TargetOf[p] = t
      BY <1>1, <1>2, <3>1 DEF ViewsInv, TypeOK
    <3> QED
      BY <1>2, <1>4, <3>1, <3>2, <3>3, <3>4 DEF ViewsInv
  <2> QED
    BY <2>2, <2>3
<1>6. CASE listeners[q] # {} /\ ListenToRemoteStore(q)
  <2>1. TypeOK'
    BY <1>1, <1>2, <1>4, <1>6 DEF ViewsInv, TypeOK, ListenToRemoteStore
  <2>2. \A p \in Queries : p \in views' <=> listeners'[p] # {}
    BY <1>1, <1>2, <1>6 DEF ViewsInv, TypeOK, ListenToRemoteStore
  <2> QED
    BY <1>2, <1>4, <1>6, <2>1, <2>2 DEF ViewsInv, ListenToRemoteStore
<1>7. CASE listeners[q] # {} /\ UNCHANGED <<engine, failed>>
  <2>1. TypeOK'
    BY <1>1, <1>2, <1>4, <1>7 DEF ViewsInv, TypeOK, engine
  <2>2. \A p \in Queries : p \in views' <=> listeners'[p] # {}
    BY <1>1, <1>2, <1>7 DEF ViewsInv, TypeOK, engine
  <2> QED
    BY <1>2, <1>4, <1>7, <2>1, <2>2 DEF ViewsInv, engine
<1> QED
  BY <1>3, <1>5, <1>6, <1>7

\* What StopListeningAndReleaseTarget does when it does not fail.
LEMMA StopEffect ==
  ASSUME TypeOK, NEW q \in Queries, NEW last \in BOOLEAN, NEW stop \in BOOLEAN,
         StopListeningAndReleaseTarget(q, last, stop), q \in views
  PROVE  \/ \E f \in {"target not watched", "target not allocated"} : Fail(f)
         \/ /\ views' = IF last THEN views \ {q} ELSE views
            /\ queriesByTarget' = [queriesByTarget EXCEPT ![TargetOf[q]] = @ \ {q}]
            /\ failed' = failed
            /\ indexed' \in SUBSET Targets
            /\ listenTargets' \in SUBSET Targets
            /\ allocated' \in SUBSET Targets
BY DEF StopListeningAndReleaseTarget, TypeOK

\* Removing a listener keeps queries and views together: a query that loses its
\* last listener loses its view.
LEMMA RemoveKeepsViews ==
  ASSUME ViewsInv, NEW l \in Listeners, RemoveQueryListener(l), calls' \in Seq(Call)
  PROVE  ViewsInv'
<1> DEFINE q == QueryOf[l]
           left == listeners[q] \ {l}
<1>1. q \in Queries /\ TargetOf[q] \in Targets
  OBVIOUS
<1>2. /\ failed = "none"
      /\ errored' = errored
      /\ listeners' = [listeners EXCEPT ![q] = left]
  BY DEF RemoveQueryListener
<1>3. \/ /\ listeners[q] # {} /\ left = {}
         /\ StopListeningAndReleaseTarget(q, TRUE, l \in RemoteListeners)
      \/ /\ listeners[q] # {} /\ left # {}
         /\ StopListeningAndReleaseTarget(q, FALSE, TRUE)
      \/ (listeners[q] = {} \/ left # {}) /\ UNCHANGED <<engine, failed>>
  BY DEF RemoveQueryListener
<1>4. listeners' \in [Queries -> SUBSET Listeners] /\ ListenersOfQuery'
  BY <1>1, <1>2 DEF ViewsInv, TypeOK, ListenersOfQuery
<1>5. CASE (listeners[q] = {} \/ left # {}) /\ UNCHANGED <<engine, failed>>
  <2>1. TypeOK'
    BY <1>1, <1>2, <1>4, <1>5 DEF ViewsInv, TypeOK, engine
  <2>2. \A p \in Queries : p \in views' <=> listeners'[p] # {}
    BY <1>1, <1>2, <1>5 DEF ViewsInv, TypeOK, engine
  <2> QED
    BY <1>2, <1>4, <1>5, <2>1, <2>2 DEF ViewsInv, engine
<1>6. ASSUME NEW last \in BOOLEAN, NEW stop \in BOOLEAN, listeners[q] # {},
             last <=> left = {}, StopListeningAndReleaseTarget(q, last, stop)
      PROVE  ViewsInv'
  <2>1. q \in views
    BY <1>1, <1>2, <1>6 DEF ViewsInv
  <2>2. ASSUME NEW f \in {"target not watched", "target not allocated"}, Fail(f)
        PROVE  ViewsInv'
    <3>1. TypeOK'
      BY <1>2, <1>4, <2>2 DEF ViewsInv, TypeOK, Fail, engine, Failures
    <3> QED
      BY <1>4, <2>2, <3>1 DEF ViewsInv, Fail
  <2>3. CASE /\ views' = IF last THEN views \ {q} ELSE views
             /\ queriesByTarget' = [queriesByTarget EXCEPT ![TargetOf[q]] = @ \ {q}]
             /\ failed' = failed
             /\ indexed' \in SUBSET Targets
             /\ listenTargets' \in SUBSET Targets
             /\ allocated' \in SUBSET Targets
    <3>1. TypeOK'
      BY <1>1, <1>2, <1>4, <2>3 DEF ViewsInv, TypeOK
    <3>2. \A p \in Queries : p \in views' <=> listeners'[p] # {}
      BY <1>1, <1>2, <1>6, <2>1, <2>3 DEF ViewsInv, TypeOK
    <3>3. \A t \in Targets : \A p \in queriesByTarget'[t] : p \in views' /\ TargetOf[p] = t
      BY <1>1, <1>2, <2>3 DEF ViewsInv, TypeOK
    <3> QED
      BY <1>2, <1>4, <2>3, <3>1, <3>2, <3>3 DEF ViewsInv
  <2>4. TypeOK
    BY DEF ViewsInv
  <2> QED
    BY <1>1, <1>6, <2>1, <2>2, <2>3, <2>4, StopEffect
<1>7. (l \in RemoteListeners) \in BOOLEAN
  OBVIOUS
<1> QED
  BY <1>3, <1>5, <1>6, <1>7

\* An error of the backend removes the views and the listeners of the same queries.
LEMMA ErrorKeepsViews ==
  ASSUME ViewsInv, NEW t \in Targets, ProcessTargetError(t), calls' \in Seq(Call)
  PROVE  ViewsInv'
<1>1. failed = "none"
  BY DEF ProcessTargetError
<1>2. ASSUME NEW f \in {"target not allocated", "target not indexed"},
             Fail(f), UNCHANGED <<listeners, errored>>
      PROVE  ViewsInv'
  BY <1>2 DEF ViewsInv, TypeOK, Fail, engine, Failures, ListenersOfQuery
<1>3. CASE /\ t \in allocated /\ t \in indexed
  <2>1. /\ listenTargets' = listenTargets \ {t}
        /\ allocated' = allocated \ {t}
        /\ views' = views \ queriesByTarget[t]
        /\ listeners' = [q \in Queries |->
                           IF q \in queriesByTarget[t] THEN {} ELSE listeners[q]]
        /\ indexed' = indexed \ {t}
        /\ queriesByTarget' = [queriesByTarget EXCEPT ![t] = {}]
        /\ failed' = failed
    BY <1>3 DEF ProcessTargetError
  <2>2. errored' \in SUBSET Listeners
    <3>1. errored' = errored \cup UNION {listeners[q] : q \in queriesByTarget[t]}
      BY <1>3 DEF ProcessTargetError
    <3>2. \A q \in queriesByTarget[t] : listeners[q] \subseteq Listeners
      BY DEF ViewsInv, TypeOK
    <3>3. UNION {listeners[q] : q \in queriesByTarget[t]} \subseteq Listeners
      BY <3>2
    <3> QED
      BY <3>1, <3>3 DEF ViewsInv, TypeOK
  <2>3. TypeOK'
    BY <2>1, <2>2 DEF ViewsInv, TypeOK
  <2>4. ListenersOfQuery'
    BY <2>1 DEF ViewsInv, TypeOK, ListenersOfQuery
  <2>5. \A q \in Queries : q \in views' <=> listeners'[q] # {}
    BY <1>1, <2>1 DEF ViewsInv, TypeOK
  <2>6. \A s \in Targets : \A q \in queriesByTarget'[s] : q \in views' /\ TargetOf[q] = s
    BY <1>1, <2>1 DEF ViewsInv, TypeOK
  <2> QED
    BY <1>1, <2>1, <2>3, <2>4, <2>5, <2>6 DEF ViewsInv
<1> QED
  BY <1>2, <1>3 DEF ProcessTargetError

\* Every step keeps queries and views together.
LEMMA NextViews == ViewsInv /\ [Next]_vars => ViewsInv'
<1> SUFFICES ASSUME ViewsInv, [Next]_vars PROVE ViewsInv'
  OBVIOUS
<1>1. calls' \in Seq(Call)
  BY CallsType DEF ViewsInv
<1>2. ASSUME NEW l \in Listeners, ListenToQuery(l) \/ RemoveListener(l)
      PROVE  ViewsInv'
  BY <1>1, <1>2, UserCallsKeepMaps DEF ViewsInv, TypeOK, ListenersOfQuery
<1>3. CASE UNCHANGED vars
  BY <1>3 DEF ViewsInv, TypeOK, ListenersOfQuery, vars, engine
<1> QED
  BY <1>1, <1>2, <1>3, AddKeepsViews, RemoveKeepsViews, ErrorKeepsViews DEF Next

\* In every reachable state, whatever the sources of the listeners, a query has
\* listeners exactly while it has a view, only views are indexed, and no assertion
\* about views fails (ViewsAgree).
THEOREM QueriesAndViews == Spec => []ViewsAgree
<1>1. ViewsInv => ViewsAgree
  BY DEF ViewsInv, ViewsAgree, TypeOK
<1> QED
  BY <1>1, InitRegistry, NextViews, PTL DEF Spec

\* The types of the registry hold in every reachable state.
THEOREM RegistryTypes == Spec => []TypeOK
<1>1. ViewsInv => TypeOK
  BY DEF ViewsInv
<1> QED
  BY <1>1, InitRegistry, NextViews, PTL DEF Spec

-----------------------------------------------------------------------------
(* What the condition on the sources adds. *)

\* With the same source on one target, the first listener decides for all: adding
\* one to a query that has listeners never changes whether the target is watched.
LEMMA AddKeepsMaps ==
  ASSUME UniformSources, ViewsInv, MapsInv, NEW l \in Listeners, AddQueryListener(l)
  PROVE  MapsInv'
<1> DEFINE q == QueryOf[l]
           t == TargetOf[q]
<1>1. q \in Queries /\ t \in Targets
  OBVIOUS
<1>2. /\ listeners' = [listeners EXCEPT ![q] = @ \cup {l}]
      /\ listeners \in [Queries -> SUBSET Listeners]
  BY DEF AddQueryListener, ViewsInv, TypeOK
<1>3. ~ MirrorQueryUndefined(t)
  BY <1>1 DEF MirrorQueryUndefined, MapsInv
<1>4. CASE listeners[q] = {}
  <2>1. q \notin views
    BY <1>1, <1>4 DEF ViewsInv, MapsInv
  <2>2. Listen(q, l \in RemoteListeners)
    BY <1>4 DEF AddQueryListener
  <2>3. /\ views' = views \cup {q}
        /\ indexed' = indexed \cup {t}
        /\ queriesByTarget' = [queriesByTarget EXCEPT ![t] = @ \cup {q}]
        /\ allocated' = allocated \cup {t}
        /\ listenTargets' = IF l \in RemoteListeners THEN listenTargets \cup {t}
                                                     ELSE listenTargets
        /\ failed' = failed
    BY <1>3, <2>1, <2>2 DEF Listen
  <2>4. /\ \A p \in views' : p \in queriesByTarget'[TargetOf[p]]
        /\ \A p \in views' : TargetOf[p] \in allocated'
        /\ \A s \in allocated' : \E p \in views' : TargetOf[p] = s
        /\ \A s \in Targets : s \in indexed' <=> s \in allocated'
    BY <1>1, <2>3 DEF MapsInv, ViewsInv, TypeOK
  <2>5. \A p \in Queries : \A m \in listeners'[p] :
           m \in RemoteListeners => TargetOf[p] \in listenTargets'
    BY <1>1, <1>2, <1>4, <2>3 DEF MapsInv
  <2>6. \A s \in listenTargets' : \E p \in Queries : \E m \in listeners'[p] :
           m \in RemoteListeners /\ TargetOf[p] = s
    BY <1>1, <1>2, <2>3 DEF MapsInv
  <2> QED
    BY <2>3, <2>4, <2>5, <2>6 DEF MapsInv
<1>5. CASE listeners[q] # {}
  <2>1. PICK m \in listeners[q] : TRUE
    BY <1>5
  <2>2. m \in Listeners /\ QueryOf[m] = q
    BY <1>1, <1>2, <2>1 DEF ViewsInv, ListenersOfQuery
  <2>3. l \in RemoteListeners <=> m \in RemoteListeners
    BY <2>2 DEF UniformSources
  <2>4. UNCHANGED <<engine, failed>>
    BY <1>5, <2>1, <2>3 DEF AddQueryListener, HasRemoteListeners
  <2>5. \A p \in Queries : \A k \in listeners'[p] :
           k \in RemoteListeners => TargetOf[p] \in listenTargets'
    BY <1>1, <1>2, <2>1, <2>3, <2>4 DEF MapsInv, engine
  <2>6. \A s \in listenTargets' : \E p \in Queries : \E k \in listeners'[p] :
           k \in RemoteListeners /\ TargetOf[p] = s
    BY <1>1, <1>2, <2>4 DEF MapsInv, engine
  <2> QED
    BY <2>4, <2>5, <2>6 DEF MapsInv, engine
<1> QED
  BY <1>4, <1>5

\* Removing a listener: either another one of the same source keeps the target, or
\* it was the last of the target and everything kept for the target goes.
LEMMA RemoveKeepsMaps ==
  ASSUME UniformSources, ViewsInv, MapsInv, NEW l \in Listeners, RemoveQueryListener(l)
  PROVE  MapsInv'
<1> DEFINE q == QueryOf[l]
           t == TargetOf[q]
           left == listeners[q] \ {l}
           rest == queriesByTarget[t] \ {q}
<1>1. q \in Queries /\ t \in Targets
  OBVIOUS
<1>2. /\ listeners' = [listeners EXCEPT ![q] = left]
      /\ listeners \in [Queries -> SUBSET Listeners]
  BY DEF RemoveQueryListener, ViewsInv, TypeOK
<1>3. \A p \in Queries : \A m \in listeners[p] : TargetOf[p] = t =>
         (m \in RemoteListeners <=> l \in RemoteListeners)
  <2> SUFFICES ASSUME NEW p \in Queries, NEW m \in listeners[p], TargetOf[p] = t
               PROVE  m \in RemoteListeners <=> l \in RemoteListeners
    OBVIOUS
  <2>1. m \in Listeners /\ QueryOf[m] = p
    BY <1>2 DEF ViewsInv, ListenersOfQuery
  <2> QED
    BY <2>1 DEF UniformSources
<1>4. CASE listeners[q] = {}
  <2>1. UNCHANGED <<engine, failed>>
    BY <1>4 DEF RemoveQueryListener
  <2>2. listeners' = listeners
    BY <1>1, <1>2, <1>4
  <2> QED
    BY <2>1, <2>2 DEF MapsInv, engine
<1>5. CASE left # {}
  <2>1. PICK m \in left : TRUE
    BY <1>5
  <2>2. l \in RemoteListeners => HasRemoteListeners(left)
    BY <1>1, <1>3, <2>1 DEF HasRemoteListeners
  <2>3. UNCHANGED <<engine, failed>>
    BY <1>5, <2>2 DEF RemoveQueryListener
  <2>4. \A p \in Queries : \A k \in listeners'[p] :
           k \in RemoteListeners => TargetOf[p] \in listenTargets'
    BY <1>1, <1>2, <2>3 DEF MapsInv, engine
  <2>5. ASSUME NEW s \in listenTargets'
        PROVE  \E p \in Queries : \E k \in listeners'[p] :
                  k \in RemoteListeners /\ TargetOf[p] = s
    <3>0. PICK p \in Queries : \E k \in listeners[p] :
                                 k \in RemoteListeners /\ TargetOf[p] = s
      BY <2>3 DEF MapsInv, engine
    <3>1. PICK k \in listeners[p] : k \in RemoteListeners /\ TargetOf[p] = s
      BY <3>0
    <3>2. CASE p # q
      BY <1>1, <1>2, <3>1, <3>2
    <3>3. CASE p = q
      BY <1>1, <1>2, <1>3, <2>1, <3>1, <3>3
    <3> QED
      BY <3>2, <3>3
  <2> QED
    BY <2>3, <2>4, <2>5 DEF MapsInv, engine
<1>6. CASE listeners[q] # {} /\ left = {}
  <2>1. q \in views /\ l \in listeners[q]
    BY <1>1, <1>6 DEF ViewsInv, MapsInv
  <2>2. StopListeningAndReleaseTarget(q, TRUE, l \in RemoteListeners)
    BY <1>6 DEF RemoveQueryListener
  <2>3. /\ l \in RemoteListeners => t \in listenTargets
        /\ t \in allocated
    BY <1>1, <2>1 DEF MapsInv
  <2>4. /\ views' = views \ {q}
        /\ indexed' = IF rest = {} THEN indexed \ {t} ELSE indexed \cup {t}
        /\ queriesByTarget' = [queriesByTarget EXCEPT ![t] = rest]
        /\ listenTargets' = IF rest = {} /\ l \in RemoteListeners THEN listenTargets \ {t}
                                                                  ELSE listenTargets
        /\ allocated' = IF rest = {} THEN allocated \ {t} ELSE allocated
        /\ failed' = failed
    BY <2>1, <2>2, <2>3 DEF StopListeningAndReleaseTarget
  <2>5. \A p \in views : TargetOf[p] = t /\ p # q => p \in rest
    BY DEF MapsInv
  <2>6. \A p \in rest : p \in Queries /\ p # q /\ p \in views /\ TargetOf[p] = t
    BY <1>1 DEF ViewsInv, MapsInv, TypeOK
  <2>7. views \subseteq Queries /\ queriesByTarget \in [Targets -> SUBSET Queries]
    BY DEF ViewsInv, TypeOK
  <2>8. \A p \in views' : p \in queriesByTarget'[TargetOf[p]]
    BY <1>1, <2>4, <2>7 DEF MapsInv
  <2>9. \A p \in views' : TargetOf[p] \in allocated'
    BY <2>4, <2>5 DEF MapsInv
  <2>10. \A s \in allocated' : \E p \in views' : TargetOf[p] = s
    BY <2>4, <2>6 DEF MapsInv
  <2>11. \A s \in Targets : s \in indexed' <=> s \in allocated'
    BY <2>3, <2>4 DEF MapsInv
  <2>12. \A p \in Queries : listeners[p] # {} => p \in views
    BY DEF ViewsInv, MapsInv
  <2>13. ASSUME NEW p \in Queries, NEW k \in listeners'[p], k \in RemoteListeners
         PROVE  TargetOf[p] \in listenTargets'
    <3>1. p # q /\ k \in listeners[p]
      BY <1>1, <1>2, <1>6, <2>13
    <3>2. TargetOf[p] \in listenTargets
      BY <2>13, <3>1 DEF MapsInv
    <3>3. TargetOf[p] = t => rest # {}
      BY <2>5, <2>12, <3>1
    <3> QED
      BY <2>4, <3>2, <3>3
  <2>14. ASSUME NEW s \in listenTargets'
         PROVE  \E p \in Queries : \E k \in listeners'[p] :
                   k \in RemoteListeners /\ TargetOf[p] = s
    <3>1. s \in listenTargets
      BY <2>4, <2>14
    <3>0. PICK p \in Queries : \E k \in listeners[p] :
                                 k \in RemoteListeners /\ TargetOf[p] = s
      BY <3>1 DEF MapsInv
    <3>2. PICK k \in listeners[p] : k \in RemoteListeners /\ TargetOf[p] = s
      BY <3>0
    <3>3. CASE p # q
      BY <1>1, <1>2, <3>2, <3>3
    <3>4. CASE p = q
      <4>1. l \in RemoteListeners /\ s = t
        BY <1>1, <1>3, <3>2, <3>4
      <4>2. PICK r \in rest : TRUE
        BY <2>4, <2>14, <4>1
      <4>3. r \in Queries /\ r # q /\ r \in views /\ TargetOf[r] = t
        BY <2>6, <4>2
      <4>4. PICK m \in listeners[r] : TRUE
        BY <4>3 DEF ViewsInv, MapsInv
      <4>5. m \in RemoteListeners
        BY <1>3, <4>1, <4>3, <4>4
      <4>6. m \in listeners'[r]
        BY <1>1, <1>2, <4>3, <4>4
      <4> QED
        BY <4>1, <4>3, <4>5, <4>6
    <3> QED
      BY <3>3, <3>4
  <2> QED
    BY <2>4, <2>8, <2>9, <2>10, <2>11, <2>13, <2>14 DEF MapsInv
<1> QED
  BY <1>4, <1>5, <1>6

\* An error of the backend takes the target, its queries and their listeners away.
LEMMA ErrorKeepsMaps ==
  ASSUME ViewsInv, MapsInv, NEW t \in Targets, ProcessTargetError(t)
  PROVE  MapsInv'
<1>1. t \in listenTargets /\ t \in allocated /\ t \in indexed
  <2>1. t \in listenTargets
    BY DEF ProcessTargetError
  <2>2. PICK q \in Queries : listeners[q] # {} /\ TargetOf[q] = t
    BY <2>1 DEF MapsInv
  <2>3. q \in views
    BY <2>2 DEF ViewsInv, MapsInv
  <2> QED
    BY <2>1, <2>2, <2>3 DEF MapsInv
<1>2. /\ listenTargets' = listenTargets \ {t}
      /\ allocated' = allocated \ {t}
      /\ views' = views \ queriesByTarget[t]
      /\ listeners' = [q \in Queries |->
                         IF q \in queriesByTarget[t] THEN {} ELSE listeners[q]]
      /\ indexed' = indexed \ {t}
      /\ queriesByTarget' = [queriesByTarget EXCEPT ![t] = {}]
      /\ failed' = failed
  BY <1>1 DEF ProcessTargetError
<1>3. views \subseteq Queries /\ queriesByTarget \in [Targets -> SUBSET Queries]
  BY DEF ViewsInv, TypeOK
<1>4. \A q \in Queries : listeners[q] # {} => q \in views
  BY DEF ViewsInv, MapsInv
<1>5. \A q \in queriesByTarget[t] : q \in views /\ TargetOf[q] = t
  BY DEF ViewsInv, MapsInv
<1>6. /\ \A q \in views' : q \in queriesByTarget'[TargetOf[q]]
      /\ \A q \in views' : TargetOf[q] \in allocated'
  BY <1>2, <1>3 DEF MapsInv
<1>7. \A s \in allocated' : \E q \in views' : TargetOf[q] = s
  BY <1>2, <1>5 DEF MapsInv
<1>8. \A s \in Targets : s \in indexed' <=> s \in allocated'
  BY <1>2 DEF MapsInv
<1>9. ASSUME NEW q \in Queries, NEW l \in listeners'[q], l \in RemoteListeners
      PROVE  TargetOf[q] \in listenTargets'
  <2>1. q \notin queriesByTarget[t] /\ l \in listeners[q]
    BY <1>2, <1>9
  <2>2. TargetOf[q] # t
    BY <1>4, <2>1 DEF MapsInv
  <2> QED
    BY <1>2, <1>9, <2>1, <2>2 DEF MapsInv
<1>10. ASSUME NEW s \in listenTargets'
       PROVE  \E q \in Queries : \E l \in listeners'[q] :
                 l \in RemoteListeners /\ TargetOf[q] = s
  <2>1. PICK q \in Queries : \E l \in listeners[q] :
                               l \in RemoteListeners /\ TargetOf[q] = s
    BY <1>2, <1>10 DEF MapsInv
  <2>2. q \notin queriesByTarget[t]
    BY <1>2, <1>5, <1>10, <2>1
  <2> QED
    BY <1>2, <2>1, <2>2
<1> QED
  BY <1>2, <1>6, <1>7, <1>8, <1>9, <1>10 DEF MapsInv

\* Every step keeps all maps in agreement.
LEMMA NextMaps ==
  ASSUME UniformSources
  PROVE  ViewsInv /\ MapsInv /\ [Next]_vars => ViewsInv' /\ MapsInv'
<1> SUFFICES ASSUME ViewsInv, MapsInv, [Next]_vars PROVE MapsInv'
  BY NextViews
<1>1. ASSUME NEW l \in Listeners, ListenToQuery(l) \/ RemoveListener(l)
      PROVE  MapsInv'
  BY <1>1, UserCallsKeepMaps DEF MapsInv
<1>2. CASE UNCHANGED vars
  BY <1>2 DEF MapsInv, vars, engine
<1> QED
  BY <1>1, <1>2, AddKeepsMaps, RemoveKeepsMaps, ErrorKeepsMaps DEF Next

\* The invariants read element by element give the agreement of the maps.
LEMMA MapsFromInv ==
  ASSUME ViewsInv, MapsInv
  PROVE  AssertionsHold /\ MapsAgree /\ WatchedForSomeone
<1>1. AssertionsHold
  BY DEF MapsInv, AssertionsHold
<1>2. views = {q \in Queries : listeners[q] # {}}
  BY DEF ViewsInv, MapsInv, TypeOK
<1>3. ASSUME NEW t \in Targets
      PROVE  queriesByTarget[t] = {q \in views : TargetOf[q] = t}
  BY DEF ViewsInv, MapsInv
<1>4. allocated = {TargetOf[q] : q \in views}
  BY DEF ViewsInv, MapsInv
<1>5. indexed = allocated
  BY DEF ViewsInv, MapsInv, TypeOK
<1>6. WatchedForSomeone
  <2> DEFINE R == {p \in Queries : HasRemoteListeners(listeners[p])}
  <2>1. \A p \in R : TargetOf[p] \in listenTargets
    BY DEF MapsInv, HasRemoteListeners
  <2>2. \A t \in listenTargets : \E p \in R : TargetOf[p] = t
    BY DEF MapsInv, HasRemoteListeners
  <2> HIDE DEF R
  <2>3. listenTargets = {TargetOf[p] : p \in R}
    BY <2>1, <2>2
  <2> QED
    BY <2>3 DEF R, WatchedForSomeone
<1> QED
  BY <1>1, <1>2, <1>3, <1>4, <1>5, <1>6 DEF MapsAgree

\* When the listeners on each target have the same source, no assertion of the
\* listen handlers fails in any behaviour.
THEOREM NoAssertionFails ==
  ASSUME UniformSources
  PROVE  Spec => []AssertionsHold
<1>1. ViewsInv /\ MapsInv => AssertionsHold
  BY MapsFromInv
<1> QED
  BY <1>1, InitRegistry, NextMaps, PTL DEF Spec

\* When the listeners on each target have the same source, the maps of the event
\* manager, the sync engine and the local store agree in every reachable state.
THEOREM MapsStayTogether ==
  ASSUME UniformSources
  PROVE  Spec => []MapsAgree
<1>1. ViewsInv /\ MapsInv => MapsAgree
  BY MapsFromInv
<1> QED
  BY <1>1, InitRegistry, NextMaps, PTL DEF Spec

\* When the listeners on each target have the same source, a target is watched
\* exactly while a registered listener wants the backend's data for it.
THEOREM WatchedExactlyWhenWanted ==
  ASSUME UniformSources
  PROVE  Spec => []WatchedForSomeone
<1>1. ViewsInv /\ MapsInv => WatchedForSomeone
  BY MapsFromInv
<1> QED
  BY <1>1, InitRegistry, NextMaps, PTL DEF Spec

\* When the listeners on each target have the same source, an error of the backend on
\* a target reaches every listener of its queries.
THEOREM ErrorsAreDelivered ==
  ASSUME UniformSources
  PROVE  Spec => ErrorsReachListeners
<1>1. ASSUME ViewsInv, MapsInv
      PROVE  \A t \in Targets :
                ProcessTargetError(t) =>
                    \A q \in Queries : TargetOf[q] = t => listeners[q] \subseteq errored'
  <2> SUFFICES ASSUME NEW t \in Targets, ProcessTargetError(t),
                      NEW q \in Queries, TargetOf[q] = t, NEW l \in listeners[q]
               PROVE  l \in errored'
    OBVIOUS
  <2>1. q \in views
    BY <1>1 DEF ViewsInv, MapsInv
  <2>2. q \in queriesByTarget[t] /\ t \in allocated /\ t \in indexed
    BY <1>1, <2>1 DEF MapsInv
  <2>3. errored' = errored \cup UNION {listeners[p] : p \in queriesByTarget[t]}
    BY <2>2 DEF ProcessTargetError
  <2> QED
    BY <2>2, <2>3
<1> QED
  BY <1>1, InitRegistry, NextMaps, PTL DEF Spec, ErrorsReachListeners

\* When the listeners on each target have the same source, a removal that comes after
\* an error took the listener away changes nothing.
THEOREM StaleRemovals ==
  ASSUME UniformSources
  PROVE  Spec => StaleRemovalIsNoOp
<1>1. ASSUME ViewsInv
      PROVE  \A l \in Listeners :
                RemoveQueryListener(l) /\ l \notin listeners[QueryOf[l]] =>
                    UNCHANGED <<listeners, engine, failed>>
  <2> SUFFICES ASSUME NEW l \in Listeners, RemoveQueryListener(l),
                      l \notin listeners[QueryOf[l]]
               PROVE  UNCHANGED <<listeners, engine, failed>>
    OBVIOUS
  <2> DEFINE q == QueryOf[l]
  <2>1. q \in Queries /\ listeners \in [Queries -> SUBSET Listeners]
    BY <1>1 DEF ViewsInv, TypeOK
  <2>2. listeners[q] \ {l} = listeners[q]
    OBVIOUS
  <2>3. listeners' = [listeners EXCEPT ![q] = listeners[q] \ {l}]
    BY DEF RemoveQueryListener
  <2>4. listeners' = listeners
    BY <2>1, <2>2, <2>3
  <2>5. \A m \in listeners[q] : m \in RemoteListeners <=> l \in RemoteListeners
    <3>1. \A m \in listeners[q] : m \in Listeners /\ QueryOf[m] = q
      BY <1>1, <2>1 DEF ViewsInv, ListenersOfQuery
    <3> QED
      BY <3>1 DEF UniformSources
  <2>6. listeners[q] # {} /\ l \in RemoteListeners => HasRemoteListeners(listeners[q])
    BY <2>5 DEF HasRemoteListeners
  <2>7. UNCHANGED <<engine, failed>>
    BY <2>2, <2>6 DEF RemoveQueryListener
  <2> QED
    BY <2>4, <2>7
<1> QED
  BY <1>1, InitRegistry, NextViews, PTL DEF Spec, StaleRemovalIsNoOp

=============================================================================
