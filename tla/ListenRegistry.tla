---------------------------- MODULE ListenRegistry ----------------------------
(***************************************************************************)
(* Who listens to what.  A snapshot listener is registered under its query *)
(* (EventManager::queries_); the first listener of a query creates a view  *)
(* (SyncEngine::query_views_by_query_, queries_by_target_) and allocates   *)
(* the query's target (LocalStore::target_data_by_target_); a listener     *)
(* that is not restricted to the cache also puts the target on the watch   *)
(* list (RemoteStore::listen_targets_).  Removing listeners undoes this,   *)
(* and so does an error of the backend on a target.  Several listeners     *)
(* share a query, and two queries (limit to first, limit to last) can      *)
(* share a target.                                                         *)
(*                                                                         *)
(* The user's calls are run by the worker queue in the order they were     *)
(* made; the backend's errors come in between.  What snapshots contain and *)
(* the limbo targets are not modelled here.                                *)
(***************************************************************************)
EXTENDS Naturals, Sequences, SequencesExt

CONSTANTS
    Listeners,          \* the QueryListener objects
    RemoteListeners,    \* those whose source is not the cache alone
    Queries,
    Targets,
    QueryOf,            \* the query of a listener
    TargetOf,           \* the target of a query
    MaxCalls            \* bound on the calls waiting in the worker queue

ASSUME RegistryAssumption ==
    /\ RemoteListeners \subseteq Listeners
    /\ QueryOf \in [Listeners -> Queries]
    /\ TargetOf \in [Queries -> Targets]
    /\ MaxCalls \in Nat

VARIABLES
    calls,              \* the user's calls the worker queue has not run yet
    listeners,          \* queries_: the listeners of each query
    views,              \* query_views_by_query_: the queries that have a view
    indexed,            \* the keys of queries_by_target_
    queriesByTarget,    \* queries_by_target_: the queries of each target
    allocated,          \* target_data_by_target_
    listenTargets,      \* listen_targets_
    errored,            \* the listeners whose OnError was called
    failed              \* the assertion that ended the process, or "none"

engine == <<views, indexed, queriesByTarget, allocated, listenTargets>>

vars == <<calls, listeners, engine, errored, failed>>

\* A call of the user: to add or to remove a listener.
Call == [op : {"add", "remove"}, listener : Listeners]

\* What can end the process.
Failures ==
    {"none", "already listening", "empty query list read", "query not found",
     "target not watched", "target not allocated", "target not indexed"}

\* A worker queue task that holds a listener keeps it alive.
Pending(op) == {l \in Listeners : \E i \in 1..Len(calls) :
                                      calls[i] = [op |-> op, listener |-> l]}

Registered == UNION {listeners[q] : q \in Queries}

HasRemoteListeners(ls) == ls \cap RemoteListeners # {}

Init ==
    /\ calls = <<>>
    /\ listeners = [q \in Queries |-> {}]
    /\ views = {}
    /\ indexed = {}
    /\ queriesByTarget = [t \in Targets |-> {}]
    /\ allocated = {}
    /\ listenTargets = {}
    /\ errored = {}
    /\ failed = "none"

-----------------------------------------------------------------------------
(* The user's side. *)

\* FirestoreClient::ListenToQuery with a new listener.
ListenToQuery(l) ==
    /\ failed = "none"
    /\ l \notin Registered \cup Pending("add") \cup Pending("remove")
    /\ Len(calls) < MaxCalls
    /\ calls' = Append(calls, [op |-> "add", listener |-> l])
    /\ errored' = errored \ {l}
    /\ UNCHANGED <<listeners, engine, failed>>

\* QueryListenerRegistration::Remove.  The registration holds its listener weakly:
\* it does nothing once the listener is gone, nor a second time.
RemoveListener(l) ==
    /\ failed = "none"
    /\ l \in Registered \cup Pending("add")
    /\ l \notin Pending("remove")
    /\ Len(calls) < MaxCalls
    /\ calls' = Append(calls, [op |-> "remove", listener |-> l])
    /\ UNCHANGED <<listeners, engine, errored, failed>>

-----------------------------------------------------------------------------
(* The worker queue. *)

Fail(assertion) == failed' = assertion /\ UNCHANGED engine

\* LocalStore::AllocateTarget and ReleaseTarget.  A target keeps its id.
AllocateTarget(t) == allocated' = allocated \cup {t}

ReleaseTarget(t) == allocated' = allocated \ {t}

\* SyncEngine::InitializeViewAndComputeSnapshot copies the sync state of the first
\* query indexed under the target.  When the target is a key with an empty list the
\* read is undefined: it may end the process or give some sync state.
MirrorQueryUndefined(t) == t \in indexed /\ queriesByTarget[t] = {}

\* Mutant: a query is indexed only when it is the first of its target.
MutListen(q, remote) ==
    LET t == TargetOf[q]
    IN  /\ views' = views \cup {q}
        /\ indexed' = indexed \cup {t}
        /\ queriesByTarget' = [queriesByTarget EXCEPT ![t] = IF @ = {} THEN {q} ELSE @]
        /\ allocated' = allocated \cup {t}
        /\ listenTargets' = IF remote THEN listenTargets \cup {t} ELSE listenTargets
        /\ UNCHANGED failed

\* SyncEngine::Listen.
Listen(q, remote) ==
    LET t == TargetOf[q]
    IN  IF q \in views
        THEN Fail("already listening")
        ELSE \/ MirrorQueryUndefined(t) /\ Fail("empty query list read")
             \/ /\ views' = views \cup {q}
                /\ indexed' = indexed \cup {t}
                /\ queriesByTarget' = [queriesByTarget EXCEPT ![t] = @ \cup {q}]
                /\ AllocateTarget(t)
                /\ listenTargets' = IF remote THEN listenTargets \cup {t}
                                              ELSE listenTargets
                /\ UNCHANGED failed

\* SyncEngine::ListenToRemoteStore.
ListenToRemoteStore(q) ==
    /\ AllocateTarget(TargetOf[q])
    /\ listenTargets' = listenTargets \cup {TargetOf[q]}
    /\ UNCHANGED <<views, indexed, queriesByTarget, failed>>

\* EventManager::AddQueryListener.
AddQueryListener(l) ==
    LET q      == QueryOf[l]
        remote == l \in RemoteListeners
    IN  /\ failed = "none"
        /\ calls # <<>>
        /\ Head(calls) = [op |-> "add", listener |-> l]
        /\ calls' = Tail(calls)
        /\ listeners' = [listeners EXCEPT ![q] = @ \cup {l}]
        /\ IF listeners[q] = {}
           THEN Listen(q, remote)
           ELSE IF remote /\ ~ HasRemoteListeners(listeners[q])
           THEN ListenToRemoteStore(q)
           ELSE UNCHANGED <<engine, failed>>
        /\ UNCHANGED errored

\* Mutant: the target is released although another query still uses it.
MutStopListeningAndReleaseTarget(q, lastListen, stopRemote) ==
    LET t == TargetOf[q]
    IN  IF t \notin listenTargets /\ stopRemote
        THEN Fail("target not watched")
        ELSE /\ views' = IF lastListen THEN views \ {q} ELSE views
             /\ queriesByTarget' = [queriesByTarget EXCEPT ![t] = @ \ {q}]
             /\ listenTargets' = IF stopRemote THEN listenTargets \ {t} ELSE listenTargets
             /\ allocated' = IF lastListen THEN allocated \ {t} ELSE allocated
             /\ UNCHANGED <<indexed, failed>>

\* SyncEngine::StopListeningAndReleaseTarget.
StopListeningAndReleaseTarget(q, lastListen, stopRemote) ==
    LET t    == TargetOf[q]
        rest == queriesByTarget[t] \ {q}
    IN  IF q \notin views
        THEN Fail("query not found")
        ELSE IF rest = {} /\ stopRemote /\ t \notin listenTargets
        THEN Fail("target not watched")
        ELSE IF rest = {} /\ lastListen /\ t \notin allocated
        THEN Fail("target not allocated")
        ELSE /\ views' = IF lastListen THEN views \ {q} ELSE views
             /\ indexed' = IF rest = {} /\ lastListen THEN indexed \ {t}
                                                      ELSE indexed \cup {t}
             /\ queriesByTarget' = [queriesByTarget EXCEPT ![t] = rest]
             /\ listenTargets' = IF rest = {} /\ stopRemote THEN listenTargets \ {t}
                                                           ELSE listenTargets
             /\ IF rest = {} /\ lastListen THEN ReleaseTarget(t) ELSE UNCHANGED allocated
             /\ UNCHANGED failed

\* Mutant: the watch is stopped without asking whether other listeners need it.
MutRemoveQueryListener(l) ==
    LET q    == QueryOf[l]
        left == listeners[q] \ {l}
    IN  /\ failed = "none"
        /\ calls # <<>>
        /\ Head(calls) = [op |-> "remove", listener |-> l]
        /\ calls' = Tail(calls)
        /\ listeners' = [listeners EXCEPT ![q] = left]
        /\ IF listeners[q] # {}
           THEN StopListeningAndReleaseTarget(q, left = {}, l \in RemoteListeners)
           ELSE UNCHANGED <<engine, failed>>
        /\ UNCHANGED errored

\* EventManager::RemoveQueryListener.
RemoveQueryListener(l) ==
    LET q      == QueryOf[l]
        left   == listeners[q] \ {l}
        remote == l \in RemoteListeners
    IN  /\ failed = "none"
        /\ calls # <<>>
        /\ Head(calls) = [op |-> "remove", listener |-> l]
        /\ calls' = Tail(calls)
        /\ listeners' = [listeners EXCEPT ![q] = left]
        /\ IF listeners[q] # {} /\ left = {}
           THEN StopListeningAndReleaseTarget(q, TRUE, remote)
           ELSE IF listeners[q] # {} /\ remote /\ ~ HasRemoteListeners(left)
           THEN StopListeningAndReleaseTarget(q, FALSE, TRUE)
           ELSE UNCHANGED <<engine, failed>>
        /\ UNCHANGED errored

\* EventManager::OnError for each of some queries: its listeners are told and dropped.
OnError(queries) ==
    /\ listeners' = [q \in Queries |-> IF q \in queries THEN {} ELSE listeners[q]]
    /\ errored' = errored \cup UNION {listeners[q] : q \in queries}

\* Mutant: only one query of the target is told and forgotten by the event manager.
MutProcessTargetError(t) ==
    LET q == CHOOSE p \in queriesByTarget[t] : TRUE
    IN  /\ failed = "none"
        /\ t \in listenTargets
        /\ queriesByTarget[t] # {}
        /\ listenTargets' = listenTargets \ {t}
        /\ allocated' = allocated \ {t}
        /\ views' = views \ queriesByTarget[t]
        /\ listeners' = [listeners EXCEPT ![q] = {}]
        /\ indexed' = indexed \ {t}
        /\ queriesByTarget' = [queriesByTarget EXCEPT ![t] = {}]
        /\ errored' = errored \cup listeners[q]
        /\ UNCHANGED <<calls, failed>>

\* The backend ends a watched target with an error: RemoteStore::ProcessTargetError,
\* SyncEngine::HandleRejectedListen and RemoveAndCleanupTarget, which tell the
\* listeners of every query of the target.
ProcessTargetError(t) ==
    /\ failed = "none"
    /\ t \in listenTargets
    /\ IF t \notin allocated
       THEN Fail("target not allocated") /\ UNCHANGED <<listeners, errored>>
       ELSE IF t \notin indexed
       THEN Fail("target not indexed") /\ UNCHANGED <<listeners, errored>>
       ELSE /\ listenTargets' = listenTargets \ {t}
            /\ ReleaseTarget(t)
            /\ views' = views \ queriesByTarget[t]
            /\ OnError(queriesByTarget[t])
            /\ indexed' = indexed \ {t}
            /\ queriesByTarget' = [queriesByTarget EXCEPT ![t] = {}]
            /\ UNCHANGED failed
    /\ UNCHANGED calls

Next ==
    \/ \E l \in Listeners :
          ListenToQuery(l) \/ RemoveListener(l)
          \/ AddQueryListener(l) \/ RemoveQueryListener(l)
    \/ \E t \in Targets : ProcessTargetError(t)

Spec == Init /\ [][Next]_vars

-----------------------------------------------------------------------------
(* Properties. *)

\* The types of the maps of the event manager, the sync engine and the two stores;
\* an assertion that fails is one of those the handlers make.
TypeOK ==
    /\ calls \in Seq(Call)
    /\ listeners \in [Queries -> SUBSET Listeners]
    /\ views \in SUBSET Queries
    /\ indexed \in SUBSET Targets
    /\ queriesByTarget \in [Targets -> SUBSET Queries]
    /\ allocated \in SUBSET Targets
    /\ listenTargets \in SUBSET Targets
    /\ errored \in SUBSET Listeners
    /\ failed \in Failures

\* No HARD_ASSERT of Listen, StopListening or ReleaseTarget ends the process,
\* whatever the user adds and removes while the backend fails targets.
AssertionsHold == failed = "none"

\* The event manager's queries and the sync engine's views never part, whatever the
\* sources: a query has listeners exactly while it has a view, only views are
\* indexed, and neither assertion about views can fail.
ViewsAgree ==
    /\ failed \notin {"already listening", "query not found"}
    /\ failed = "none" =>
          /\ views = {q \in Queries : listeners[q] # {}}
          /\ \A t \in Targets : queriesByTarget[t] \subseteq {q \in views : TargetOf[q] = t}

\* A target is watched exactly while a listener that wants the backend's data is
\* registered on one of its queries: none waits for data nobody asked for, and no
\* target is watched for nobody (Listen, ListenToRemoteStore, StopListening).
WatchedForSomeone ==
    listenTargets = {TargetOf[q] : q \in {p \in Queries : HasRemoteListeners(listeners[p])}}

\* A query has listeners exactly while it has a view that is indexed under its
\* target, and a target is allocated exactly while it has views: the maps of the
\* event manager, the sync engine and the local store agree.
MapsAgree ==
    /\ views = {q \in Queries : listeners[q] # {}}
    /\ \A t \in Targets : queriesByTarget[t] = {q \in views : TargetOf[q] = t}
    /\ allocated = {TargetOf[q] : q \in views}
    /\ indexed = allocated

\* When a watched target goes away by an error, every listener registered on one
\* of its queries is told (HandleRejectedListen, RemoveAndCleanupTarget).
ErrorsReachListeners ==
    [][\A t \in Targets :
          ProcessTargetError(t) =>
              \A q \in Queries : TargetOf[q] = t => listeners[q] \subseteq errored']_vars

\* Removing a listener that is not registered any more changes nothing
\* (EventManager::RemoveQueryListener).
StaleRemovalIsNoOp ==
    [][\A l \in Listeners :
          RemoveQueryListener(l) /\ l \notin listeners[QueryOf[l]] =>
              UNCHANGED <<listeners, engine, failed>>]_vars

\* The listeners on one target have the same source, as in an application that uses
\* cache listeners for queries of their own.
UniformSources ==
    \A l, m \in Listeners :
        TargetOf[QueryOf[l]] = TargetOf[QueryOf[m]] =>
            (l \in RemoteListeners <=> m \in RemoteListeners)

=============================================================================
