-------------------------- MODULE LimboResolution --------------------------
(***************************************************************************)
(* Limbo documents.  A view holds the cached documents that match its      *)
(* query.  When the backend says that the query's target is current and    *)
(* the target does not contain a document of the view, the cache and the   *)
(* backend disagree: the document is in limbo, the view is not synced, and *)
(* SyncEngine listens to the document alone to learn what became of it.    *)
(* At most MaxConcurrent such listens are open; the other keys wait in a   *)
(* queue.                                                                  *)
(*                                                                         *)
(* The module composes View, the limbo part of SyncEngine, and the part of *)
(* RemoteStore and LocalStore they use (listen_targets_, the document      *)
(* cache, the keys of a target).  The backend is external: it answers with *)
(* snapshots in which all current targets are consistent, and may drop a   *)
(* document from a target without sending its content.  One query per      *)
(* target: queries that share a target are the subject of ListenRegistry.  *)
(***************************************************************************)
EXTENDS Integers, Sequences, FiniteSets, SequencesExt

CONSTANTS
    Keys,           \* documents; numbers, as sets of keys are walked in key order
    Targets,        \* query targets, one query and one view each
    MaxConcurrent,  \* max_concurrent_limbo_resolutions_, 100 by default
    Disturbances    \* bound on what users, other clients and faults do in all

ASSUME LimboAssumption ==
    /\ Keys \subseteq Nat /\ IsFiniteSet(Keys)
    /\ Targets \cap Nat = {}
    /\ MaxConcurrent \in Nat \ {0}
    /\ Disturbances \in Nat

VARIABLES
    server,     \* the backend's documents
    cached,     \* the remote document cache
    committed,  \* the cached documents that come from an acknowledged write
                \* (has_committed_mutations), until the backend sends them
    overlay,    \* the keys with a local mutation; it makes the document match
    listening,  \* the targets with a view, watched by RemoteStore
    synced,     \* per target its keys: synced_documents_, and the target cache
    current,    \* per target, View::current_
    mutated,    \* per target, View::mutated_keys_: where the document that the view
                \* holds has local mutations
    limbo,      \* per target, View::limbo_documents_
    syncState,  \* per target, View::sync_state_
    tracker,    \* SyncEngine's limbo state and the limbo targets of listen_targets_
    caughtUp,   \* the query targets that are current on this watch stream
    budget      \* disturbances left

vars == <<server, cached, committed, overlay, listening, synced, current, mutated, limbo,
          syncState, tracker, caughtUp, budget>>

\* A document matches every query, or exists and matches none, or does not exist.
DocStates == {"in", "out", "gone"}

Empty == [x \in {} |-> x]

-----------------------------------------------------------------------------
(* The limbo state of SyncEngine, as functions of the tracker
     refs      limbo_document_refs_
     queue     enqueued_limbo_resolutions_
     byKey     active_limbo_targets_by_key_
     byTarget  active_limbo_resolutions_by_target_: its key and document_received, and
               whether the target is current on this watch stream
     watched   the limbo targets in RemoteStore's listen_targets_
     rejected  for the properties: keys whose listen was rejected, until their last
               reference goes                                                  *)

NewTracker == [refs |-> {}, queue |-> <<>>, byKey |-> Empty, byTarget |-> Empty, watched |-> {},
               rejected |-> {}]

Erase(f, x) == [y \in DOMAIN f \ {x} |-> f[y]]

Put(f, x, v) == [y \in DOMAIN f \cup {x} |-> IF y = x THEN v ELSE f[y]]

\* F(e), with e evaluated once.
Let(e, F(_)) == CHOOSE f \in {F(g) : g \in {e}} : TRUE

Referenced(e, key) == \E r \in e.refs : r[1] = key

\* The generator never repeats an id; here an id that nothing holds is used again.
NextId(e) == CHOOSE id \in 1..(Cardinality(Keys) + 1) : id \notin e.watched \cup DOMAIN e.byTarget

\* The key at the front of the queue gets a target of its own.
StartResolution(e) ==
    LET id  == NextId(e)
        key == Head(e.queue)
        new == [key |-> key, received |-> FALSE, caughtUp |-> FALSE]
    IN  [e EXCEPT !.queue = Tail(@),
                  !.byKey = Put(@, key, id),
                  !.byTarget = Put(@, id, new),
                  !.watched = @ \cup {id}]

\* How many resolutions can be started when max may be active.
Startable(e, max) ==
    LET room == max - Cardinality(DOMAIN e.byKey)
    IN  IF room < Len(e.queue) THEN room ELSE Len(e.queue)

StartResolutions(e, n) ==
    LET started[i \in 0..n] == IF i = 0 THEN e ELSE StartResolution(started[i - 1])
    IN  started[n]

\* Mutant: one resolution too many, as with <= for <.
MutPumpEnqueuedLimboResolutions(e) ==
    Let(e, LAMBDA f : StartResolutions(f, Startable(f, MaxConcurrent + 1)))

PumpEnqueuedLimboResolutions(e) ==
    Let(e, LAMBDA f : StartResolutions(f, Startable(f, MaxConcurrent)))

TrackLimboChange(e, key) ==
    IF key \in DOMAIN e.byKey \/ Contains(e.queue, key) THEN e
    ELSE PumpEnqueuedLimboResolutions([e EXCEPT !.queue = Append(@, key)])

\* A key is in the queue once at most.
Dequeue(queue, key) ==
    IF Contains(queue, key) THEN RemoveAt(queue, CHOOSE i \in 1..Len(queue) : queue[i] = key)
    ELSE queue

\* Without the key in the queue and without its resolution, if it is active.
Forget(e, key) ==
    LET dequeued == [e EXCEPT !.queue = Dequeue(@, key), !.rejected = @ \ {key}]
    IN  IF key \notin DOMAIN e.byKey THEN dequeued
        ELSE [dequeued EXCEPT !.watched = @ \ {e.byKey[key]},
                              !.byTarget = Erase(@, e.byKey[key]),
                              !.byKey = Erase(@, key)]

\* Mutant: the resolution that ends does not make room for the next.
MutRemoveLimboTarget(e, key) == Forget(e, key)

RemoveLimboTarget(e, key) ==
    IF key \notin DOMAIN e.byKey THEN Forget(e, key)
    ELSE PumpEnqueuedLimboResolutions(Forget(e, key))

\* Mutant: the resolution ends with the first reference that goes.
MutRemoveReference(e, key, t) == RemoveLimboTarget([e EXCEPT !.refs = @ \ {<<key, t>>}], key)

RemoveReference(e, key, t) ==
    LET f == [e EXCEPT !.refs = @ \ {<<key, t>>}]
    IN  IF Referenced(f, key) THEN f ELSE RemoveLimboTarget(f, key)

AddReference(e, key, t) ==
    TrackLimboChange([e EXCEPT !.refs = @ \cup {<<key, t>>}], key)

\* Changes of one type for a set of keys, in key order.
Changes(type, keys) ==
    [i \in 1..Cardinality(keys) |->
        [type |-> type,
         key  |-> CHOOSE k \in keys : Cardinality({j \in keys : j < k}) = i - 1]]

\* A view reports the removals first, then the additions.
LimboChanges(old, new) == Changes("Removed", old \ new) \o Changes("Added", new \ old)

ApplyLimboChange(e, t, change) ==
    Let(e, LAMBDA f : IF change.type = "Added" THEN AddReference(f, change.key, t)
                                               ELSE RemoveReference(f, change.key, t))

UpdateTrackedLimboDocuments(e, t, changes) ==
    LET updated[i \in 0..Len(changes)] ==
            IF i = 0 THEN e ELSE ApplyLimboChange(updated[i - 1], t, changes[i])
    IN  updated[Len(changes)]

\* Mutant: the resolutions of a dropped view go on.
MutRemoveAndCleanupTarget(e, t) == [e EXCEPT !.refs = {r \in @ : r[2] # t}]

\* All references of the target go first; then each of its keys is treated like a key that
\* left limbo.
RemoveAndCleanupTarget(e, t) ==
    UpdateTrackedLimboDocuments([e EXCEPT !.refs = {r \in @ : r[2] # t}], t,
                                Changes("Removed", {key \in Keys : <<key, t>> \in e.refs}))

-----------------------------------------------------------------------------
(* View. *)

\* The document as local mutations show it.
Local(docs, muts, key) == IF key \in muts THEN "in" ELSE docs[key]

\* ComputeDocumentChanges, as far as it decides which documents with local mutations the
\* view holds.  An acknowledged write does not replace the one it holds: whether or not the
\* values differ, the view waits for the backend to send the document.
MutatedKeys(docs, acknowledged, muts, held) ==
    {key \in Keys : Local(docs, muts, key) = "in" /\ key \in muts \cup (held \cap acknowledged)}

\* ShouldBeInLimbo, for all documents of a view that holds local mutations of held.
LimboDocuments(docs, muts, syncedKeys, held) ==
    {key \in Keys : Local(docs, muts, key) = "in" /\ key \notin syncedKeys /\ key \notin held}

UpdateLimboDocuments(t) ==
    IF current'[t] THEN LimboDocuments(cached', overlay', synced'[t], mutated'[t]) ELSE limbo[t]

\* The end of View::ApplyChanges.
SyncState(t, pendingReset) ==
    IF limbo'[t] = {} /\ current'[t] /\ t \notin pendingReset THEN "Synced" ELSE "Local"

TrackView(e, t, old, new) ==
    Let(LimboChanges(old[t], new[t]), LAMBDA changes : UpdateTrackedLimboDocuments(e, t, changes))

\* The limbo documents of the views change from old to new, one view after the other.
TrackViews(e, views, old, new) ==
    LET tracked[i \in 0..Len(views)] ==
            IF i = 0 THEN e ELSE TrackView(tracked[i - 1], views[i], old, new)
    IN  tracked[Len(views)]

\* EmitNewSnapshotsAndNotifyLocalStore, once the documents and the targets have changed:
\* every view looks at them and reports the limbo documents that came and went.  The views
\* are walked in some fixed order.
EmitNewSnapshots(pendingReset, e) ==
    /\ mutated' = [t \in Targets |-> IF t \in listening
                                     THEN MutatedKeys(cached', committed', overlay', mutated[t])
                                     ELSE mutated[t]]
    /\ limbo' = [t \in Targets |-> IF t \in listening \ pendingReset
                                   THEN UpdateLimboDocuments(t) ELSE limbo[t]]
    /\ syncState' = [t \in Targets |-> IF t \in listening
                                       THEN SyncState(t, pendingReset) ELSE syncState[t]]
    /\ tracker' = TrackViews(e, SetToSeq(listening), limbo, limbo')

-----------------------------------------------------------------------------
(* The backend, and the events of the watch stream it leads to. *)

Disturb == budget > 0 /\ budget' = budget - 1

\* Another client writes or deletes a document.
ServerChange(key) ==
    /\ Disturb
    /\ \E s \in DocStates \ {server[key]} : server' = [server EXCEPT ![key] = s]
    /\ UNCHANGED <<cached, committed, overlay, listening, synced, current, mutated, limbo,
                   syncState, tracker, caughtUp>>

Result == {key \in Keys : server[key] = "in"}

\* The documents that the targets qs no longer contain.
Dropped(qs) == UNION {synced[t] \ Result : t \in qs}

\* What an event in which the limbo target is current does to its resolution: the
\* document was added or modified, or it was removed or never came and a delete is inferred.
LimboTargetChange(r) == [r EXCEPT !.received = server[r.key] # "gone", !.caughtUp = TRUE]

\* The limbo targets that are current on this watch stream.
CaughtUpLimbo == {id \in tracker.watched : tracker.byTarget[id].caughtUp}

\* A global snapshot: the targets ts are current, of queries and of limbo documents.
\* silent are documents that leave a target without their content being sent; the cache
\* keeps them.  resets are targets whose existence filter did not match: their keys are
\* dropped, they are not current, and RemoteStore watches them anew.
ApplyRemoteEvent(ts, silent, resets) ==
    LET qs == (ts \cap Targets) \ resets
        ls == ts \cap tracker.watched
        looked == {tracker.byTarget[id].key : id \in ls}
        sent == (IF qs = {} THEN {} ELSE Result) \cup (Dropped(qs) \ silent) \cup looked
    IN  /\ UNCHANGED <<server, overlay, listening>>
        /\ caughtUp' = qs
        /\ cached' = [key \in Keys |-> IF key \in sent THEN server[key] ELSE cached[key]]
        /\ committed' = committed \ sent
        /\ synced' = [t \in Targets |-> IF t \in resets THEN {}
                                        ELSE IF t \in qs THEN Result ELSE synced[t]]
        /\ current' = [t \in Targets |-> t \notin resets /\ (t \in qs \/ current[t])]
        /\ EmitNewSnapshots(resets,
               [tracker EXCEPT !.byTarget =
                    [id \in DOMAIN @ |-> IF id \in ls THEN LimboTargetChange(@[id]) ELSE @[id]]])

RemoteEvent ==
    \E qs \in SUBSET listening, ls \in SUBSET tracker.watched :
        /\ caughtUp \subseteq qs /\ CaughtUpLimbo \subseteq ls
        /\ UNCHANGED budget
        /\ \E silent \in SUBSET Dropped(qs) : ApplyRemoteEvent(qs \cup ls, silent, {})

\* An existence filter counts fewer documents than the target has here, and no Bloom filter
\* settles which of them are gone.
ExistenceFilterMismatch(t) ==
    /\ Disturb
    /\ t \in listening
    /\ synced[t] \ Result # {}
    /\ ApplyRemoteEvent(caughtUp \cup CaughtUpLimbo, {}, {t})

\* What going offline does to the views; their limbo documents stay.
ApplyOnlineStateChange ==
    /\ current' = [t \in Targets |-> FALSE]
    /\ syncState' = [t \in Targets |->
                       IF t \in listening /\ current[t] THEN "Local" ELSE syncState[t]]

\* The stream breaks.  OnlineState becomes Offline at once or not at all; if it does,
\* HandleOnlineStateChange makes every view not current.
StreamBreaks(offline) ==
    /\ Disturb
    /\ caughtUp' = {}
    /\ tracker' = [tracker EXCEPT !.byTarget =
                       [id \in DOMAIN @ |-> [@[id] EXCEPT !.caughtUp = FALSE]]]
    /\ IF offline
       THEN ApplyOnlineStateChange
       ELSE UNCHANGED <<current, syncState>>
    /\ UNCHANGED <<server, cached, committed, overlay, listening, synced, mutated, limbo>>

-----------------------------------------------------------------------------
(* The listens. *)

\* A view starts from the documents as they are now and the stored keys of its target, and
\* is not current: its target has no other query to take a sync state from.
Listen(t) ==
    /\ Disturb
    /\ t \notin listening
    /\ listening' = listening \cup {t}
    /\ current' = [current EXCEPT ![t] = FALSE]
    /\ mutated' = [mutated EXCEPT ![t] = MutatedKeys(cached, committed, overlay, {})]
    /\ limbo' = [limbo EXCEPT ![t] = {}]
    /\ syncState' = [syncState EXCEPT ![t] = "Local"]
    /\ UNCHANGED <<server, cached, committed, overlay, synced, tracker, caughtUp>>

\* The view is gone, and with it what the model keeps of it.
DropView(t) ==
    /\ listening' = listening \ {t}
    /\ caughtUp' = caughtUp \ {t}
    /\ tracker' = RemoveAndCleanupTarget(tracker, t)
    /\ current' = [current EXCEPT ![t] = FALSE]
    /\ mutated' = [mutated EXCEPT ![t] = {}]
    /\ limbo' = [limbo EXCEPT ![t] = {}]
    /\ syncState' = [syncState EXCEPT ![t] = "None"]
    /\ UNCHANGED <<server, cached, committed, overlay, synced>>

\* StopListening by the user, or a listen that the backend rejects: to limbo documents
\* it is the same.
StopListening(t) ==
    /\ Disturb
    /\ t \in listening
    /\ DropView(t)

\* The backend rejects a limbo target.  RemoteStore has dropped it; the document is taken
\* for deleted.
HandleRejectedListen(id) ==
    /\ Disturb
    /\ id \in tracker.watched
    /\ LET key == tracker.byTarget[id].key
       IN  /\ cached' = [cached EXCEPT ![key] = "gone"]
           /\ committed' = committed \ {key}
           /\ UNCHANGED <<server, overlay, listening, synced, current, caughtUp>>
           /\ EmitNewSnapshots({}, PumpEnqueuedLimboResolutions(
                                       [tracker EXCEPT !.watched = @ \ {id},
                                                       !.byKey = Erase(@, key),
                                                       !.byTarget = Erase(@, id),
                                                       !.rejected = @ \cup {key}]))

-----------------------------------------------------------------------------
(* Local writes. *)

WriteMutations(key) ==
    /\ Disturb
    /\ key \notin overlay
    /\ overlay' = overlay \cup {key}
    /\ UNCHANGED <<server, cached, committed, listening, synced, current, caughtUp>>
    /\ EmitNewSnapshots({}, tracker)

\* The backend has applied the write, and the cache takes the acknowledged document.  The
\* views that show the write go on holding it as a local mutation.
HandleSuccessfulWrite(key) ==
    /\ key \in overlay
    /\ server' = [server EXCEPT ![key] = "in"]
    /\ cached' = [cached EXCEPT ![key] = "in"]
    /\ committed' = committed \cup {key}
    /\ overlay' = overlay \ {key}
    /\ UNCHANGED <<listening, synced, current, caughtUp, budget>>
    /\ EmitNewSnapshots({}, tracker)

HandleRejectedWrite(key) ==
    /\ key \in overlay
    /\ overlay' = overlay \ {key}
    /\ UNCHANGED <<server, cached, committed, listening, synced, current, caughtUp, budget>>
    /\ EmitNewSnapshots({}, tracker)

-----------------------------------------------------------------------------

\* The client starts on what an earlier run left: any cache and any keys.
Init ==
    /\ server \in [Keys -> {"in", "gone"}]
    /\ cached \in [Keys -> {"in", "gone"}]
    /\ synced \in [Targets -> SUBSET Keys]
    /\ \A t \in Targets : \A key \in synced[t] : cached[key] = "in"
    /\ committed = {}
    /\ overlay = {}
    /\ listening = {}
    /\ current = [t \in Targets |-> FALSE]
    /\ mutated = [t \in Targets |-> {}]
    /\ limbo = [t \in Targets |-> {}]
    /\ syncState = [t \in Targets |-> "None"]
    /\ tracker = NewTracker
    /\ caughtUp = {}
    /\ budget = Disturbances

Next ==
    \/ RemoteEvent
    \/ \E t \in Targets : ExistenceFilterMismatch(t) \/ Listen(t) \/ StopListening(t)
    \/ \E offline \in BOOLEAN : StreamBreaks(offline)
    \/ \E id \in tracker.watched : HandleRejectedListen(id)
    \/ \E key \in Keys : \/ ServerChange(key)
                         \/ WriteMutations(key)
                         \/ HandleSuccessfulWrite(key)
                         \/ HandleRejectedWrite(key)

Spec == Init /\ [][Next]_vars

\* The backend eventually brings every watched target up to date.
CatchUp == UNCHANGED budget /\ ApplyRemoteEvent(listening \cup tracker.watched, {}, {})

FairSpec == Spec /\ WF_vars(CatchUp)

-----------------------------------------------------------------------------
TypeOK ==
    /\ server \in [Keys -> DocStates]
    /\ cached \in [Keys -> DocStates]
    /\ committed \subseteq Keys
    /\ overlay \subseteq Keys
    /\ listening \subseteq Targets
    /\ synced \in [Targets -> SUBSET Keys]
    /\ current \in [Targets -> BOOLEAN]
    /\ mutated \in [Targets -> SUBSET Keys]
    /\ limbo \in [Targets -> SUBSET Keys]
    /\ syncState \in [Targets -> {"None", "Local", "Synced"}]
    /\ caughtUp \subseteq listening
    /\ budget \in 0..Disturbances

\* The two maps of active resolutions are inverse, RemoteStore watches exactly their
\* targets, never more than the maximum; a key waits only while the maximum is in use, at
\* most once, and not while it is being resolved (TrackLimboChange, Pump, RemoveLimboTarget).
ResolutionsAgree ==
    /\ DOMAIN tracker.byTarget = tracker.watched
    /\ DOMAIN tracker.byKey = {tracker.byTarget[id].key : id \in tracker.watched}
    /\ \A key \in DOMAIN tracker.byKey : tracker.byTarget[tracker.byKey[key]].key = key
    /\ Cardinality(tracker.watched) <= MaxConcurrent
    /\ tracker.queue # <<>> => Cardinality(tracker.watched) = MaxConcurrent
    /\ IsInjective(tracker.queue)
    /\ ToSet(tracker.queue) \cap DOMAIN tracker.byKey = {}

\* SyncEngine's references are the limbo documents of the views, and no resolution runs or
\* waits for a document that is not in limbo in any view (UpdateTrackedLimboDocuments,
\* RemoveAndCleanupTarget).
NoStrayResolution ==
    /\ tracker.refs = {r \in Keys \X Targets : r[1] \in limbo[r[2]]}
    /\ \A key \in DOMAIN tracker.byKey \cup ToSet(tracker.queue) : Referenced(tracker, key)

\* A document in limbo is being resolved or waits for its turn, unless its own listen was
\* rejected while the view that has it in limbo was not current (HandleRejectedListen).
OnlyRejectionOrphans ==
    \A t \in listening :
        limbo[t] \subseteq DOMAIN tracker.byKey \cup ToSet(tracker.queue) \cup tracker.rejected

\* A document in limbo in a current view is being resolved or waits for its turn.
LimboIsResolved ==
    \A t \in listening : current[t] =>
        limbo[t] \subseteq DOMAIN tracker.byKey \cup ToSet(tracker.queue)

\* A view that is listened to becomes synced, unless it is left with a document whose
\* listen was rejected (EmitNewSnapshotsAndNotifyLocalStore, View::ApplyChanges).
ViewsSettle ==
    \A t \in Targets :
        (t \in listening) ~> \/ t \notin listening
                             \/ syncState[t] = "Synced"
                             \/ limbo[t] \cap tracker.rejected # {}
=============================================================================
