-------------------------- MODULE WatchAggregator --------------------------
(***************************************************************************)
(* The watch stream's messages.  RemoteStore sends a request for every     *)
(* listen and unlisten; WatchChangeAggregator counts the responses it      *)
(* still owes to a target id, ignores what arrives for a target while any  *)
(* is outstanding, collects document changes per target, and turns them    *)
(* into a remote event when a global snapshot arrives.  An existence       *)
(* filter that contradicts the keys of a target makes RemoteStore watch    *)
(* the target anew from nothing.                                           *)
(*                                                                         *)
(* Requests and responses travel in order on a stream and are lost with    *)
(* it.  The backend is external: it acknowledges every request, sends the  *)
(* documents that enter and leave a target, an existence filter after a    *)
(* resume, CURRENT, and global snapshots at which its current targets are  *)
(* consistent.  Targets are collection queries; what the aggregator adds   *)
(* for a single document's target is in LimboResolution.                   *)
(***************************************************************************)
EXTENDS Integers, Sequences, FiniteSets, SequencesExt

CONSTANTS
    Targets,        \* target ids
    Keys,           \* documents
    MaxListens,     \* bound on the listens and unlistens
    MaxChanges,     \* bound on the changes to the backend's results
    MaxFaults,      \* bound on broken streams, rejected targets and resets
    MaxReplies      \* bound on the replies under way

ASSUME AggregatorAssumption ==
    /\ IsFiniteSet(Keys)
    /\ MaxListens \in Nat /\ MaxChanges \in Nat /\ MaxFaults \in Nat /\ MaxReplies \in Nat

VARIABLES
    listening,  \* the domain of listen_targets_
    hasToken,   \* the targets whose TargetData has a resume token
    keys,       \* per target, GetRemoteKeysForTarget
    current,    \* per target, whether its last TargetChange said current
    states,     \* target_states_
    resets,     \* pending_target_resets_
    open,       \* the watch stream is open
    requests,   \* under way to the backend
    replies,    \* under way to the client
    watch,      \* the backend's watches on this stream
    results,    \* the backend's keys of each target
    \* Kept for the properties:
    raced,      \* targets rejected while responses for them were outstanding
    spoiled,    \* targets whose filter mismatch may stay unrepaired
    wrongKeys,  \* targets whose keys a snapshot got wrong
    early,      \* targets a snapshot called current that the backend had not
    used        \* per kind of disturbance, how many there were

client == <<listening, hasToken, keys, current, states, resets>>
backend == <<watch, results>>
history == <<raced, spoiled, wrongKeys, early>>
vars == <<client, open, requests, replies, backend, history, used>>

Empty == [x \in {} |-> x]
Put(f, x, v) == [y \in DOMAIN f \cup {x} |-> IF y = x THEN v ELSE f[y]]
Drop(f, x) == [y \in DOMAIN f \ {x} |-> f[y]]

Use(kind, max) == used[kind] < max /\ used' = [used EXCEPT ![kind] = @ + 1]

-----------------------------------------------------------------------------
(* TargetState, and the aggregator's operations on target_states_. *)

NewTargetState ==
    [outstanding |-> 0, changes |-> Empty, current |-> FALSE, token |-> FALSE, pending |-> TRUE]

EnsureTargetState(s, t) == IF t \in DOMAIN s THEN s ELSE Put(s, t, NewTargetState)

IsPending(s, t) == t \in DOMAIN s /\ s[t].outstanding # 0

\* Mutant: the outstanding responses are not looked at.
MutIsActiveTarget(s, t) == t \in listening

IsActiveTarget(s, t) == ~IsPending(s, t) /\ t \in listening

RecordPendingTargetRequest(s, t) ==
    [EnsureTargetState(s, t) EXCEPT ![t].outstanding = @ + 1]

AddedKeys(st) == {k \in DOMAIN st.changes : st.changes[k] = "Added"}
RemovedKeys(st) == {k \in DOMAIN st.changes : st.changes[k] = "Removed"}

ClearPendingChanges(st) == [st EXCEPT !.changes = Empty, !.pending = FALSE]

AddDocumentToTarget(s, t, key) ==
    IF ~IsActiveTarget(s, t) THEN s
    ELSE [EnsureTargetState(s, t) EXCEPT
              ![t].pending = TRUE,
              ![t].changes = Put(@, key, IF key \in keys[t] THEN "Modified" ELSE "Added")]

RemoveDocumentFromTarget(s, t, key) ==
    IF ~IsActiveTarget(s, t) THEN s
    ELSE [EnsureTargetState(s, t) EXCEPT
              ![t].pending = TRUE,
              ![t].changes = IF key \in keys[t] THEN Put(@, key, "Removed") ELSE Drop(@, key)]

\* RemoveDocumentFromTarget for each of some keys of the target.
RemoveAll(s, t, gone) ==
    IF gone = {} \/ ~IsActiveTarget(s, t) THEN s
    ELSE [s EXCEPT ![t].pending = TRUE,
                   ![t].changes = [k \in DOMAIN @ \cup gone |->
                                      IF k \in gone THEN "Removed" ELSE @[k]]]

ResetTarget(s, t) == RemoveAll([s EXCEPT ![t] = NewTargetState], t, keys[t])

-----------------------------------------------------------------------------
(* The messages, as HandleTargetChange, HandleDocumentChange and HandleExistenceFilter
   treat them.                                                                  *)

Respond(s, t) == [EnsureTargetState(s, t) EXCEPT ![t].outstanding = @ - 1]

HandleAdded(s, t) ==
    LET r == Respond(s, t)
    IN  IF IsPending(r, t) THEN r ELSE [r EXCEPT ![t] = ClearPendingChanges(@)]

\* Mutant: the target is forgotten although it has been watched again.
MutHandleRemoved(s, t) == Drop(Respond(s, t), t)

HandleRemoved(s, t) ==
    LET r == Respond(s, t)
    IN  IF IsPending(r, t) THEN r ELSE Drop(r, t)

HandleCurrent(s, t) ==
    LET r == EnsureTargetState(s, t)
    IN  IF ~IsActiveTarget(s, t) THEN r
        ELSE [r EXCEPT ![t].current = TRUE, ![t].token = TRUE, ![t].pending = TRUE]

HandleReset(s, t) ==
    LET r == EnsureTargetState(s, t)
    IN  IF ~IsActiveTarget(s, t) THEN r ELSE ResetTarget(r, t)

GetCurrentDocumentCountForTarget(s, t) ==
    Cardinality(keys[t]) + Cardinality(AddedKeys(s[t])) - Cardinality(RemovedKeys(s[t]))

\* The keys of the target that the Bloom filter says are gone.
FilterRemovedDocuments(t, bloom) == keys[t] \ bloom

\* Mutant: the reset target is not watched anew.
MutHandleExistenceFilter(s, t, count, bloom) ==
    LET r == EnsureTargetState(s, t)
        size == GetCurrentDocumentCountForTarget(r, t)
        gone == FilterRemovedDocuments(t, bloom)
        filtered == RemoveAll(r, t, gone)
    IN  IF ~IsActiveTarget(s, t) THEN <<s, {}>>
        ELSE IF size = count THEN <<r, {}>>
        ELSE IF size - Cardinality(gone) = count THEN <<filtered, {}>>
        ELSE <<ResetTarget(filtered, t), {}>>

\* A mismatch that the Bloom filter explains is settled by removing the documents that
\* are not in it; otherwise the target is reset and watched anew.
HandleExistenceFilter(s, t, count, bloom) ==
    LET r == EnsureTargetState(s, t)
        size == GetCurrentDocumentCountForTarget(r, t)
        gone == FilterRemovedDocuments(t, bloom)
        filtered == RemoveAll(r, t, gone)
    IN  IF ~IsActiveTarget(s, t) THEN <<s, {}>>
        ELSE IF size = count THEN <<r, {}>>
        ELSE IF size - Cardinality(gone) = count THEN <<filtered, {}>>
        ELSE <<ResetTarget(filtered, t), {t}>>

\* The removals that the Bloom filter finds may include some that the backend has sent
\* already: the size then counts them twice.
CountedTwice(s, t, bloom) ==
    IF IsActiveTarget(s, t) /\ t \in DOMAIN s
          /\ RemovedKeys(s[t]) \cap FilterRemovedDocuments(t, bloom) # {}
    THEN {t} ELSE {}

-----------------------------------------------------------------------------
(* RemoteStore. *)

WatchRequest(t, token) == [kind |-> "watch", t |-> t, resume |-> token, keys |-> keys[t]]
UnwatchRequest(t) == [kind |-> "unwatch", t |-> t]

Listen(t) ==
    /\ t \notin listening
    /\ Use("listens", MaxListens)
    /\ listening' = listening \cup {t}
    /\ current' = [current EXCEPT ![t] = FALSE]
    /\ IF open
       THEN /\ states' = RecordPendingTargetRequest(states, t)
            /\ requests' = Append(requests, WatchRequest(t, t \in hasToken))
       ELSE UNCHANGED <<states, requests>>
    /\ UNCHANGED <<hasToken, keys, resets, open, replies, backend, history>>

StopListening(t) ==
    /\ t \in listening
    /\ Use("listens", MaxListens)
    /\ listening' = listening \ {t}
    /\ IF open
       THEN /\ states' = RecordPendingTargetRequest(states, t)
            /\ requests' = Append(requests, UnwatchRequest(t))
       ELSE UNCHANGED <<states, requests>>
    /\ UNCHANGED <<hasToken, keys, current, resets, open, replies, backend, history>>

\* StartWatchStream makes a new aggregator; OnWatchStreamOpen sends all watches.
OnWatchStreamOpen ==
    /\ ~open
    /\ listening # {}
    /\ open' = TRUE
    /\ states' = [t \in listening |-> [NewTargetState EXCEPT !.outstanding = 1]]
    /\ requests' = [i \in 1..Cardinality(listening) |->
                      LET t == SetToSeq(listening)[i] IN WatchRequest(t, t \in hasToken)]
    /\ UNCHANGED <<listening, hasToken, keys, current, resets, replies, backend, history, used>>

\* The stream and its messages are lost; CleanUpWatchStreamState drops the aggregator.
OnWatchStreamClose ==
    /\ open
    /\ Use("faults", MaxFaults)
    /\ open' = FALSE
    /\ states' = Empty
    /\ resets' = {}
    /\ requests' = <<>>
    /\ replies' = <<>>
    /\ watch' = Empty
    /\ raced' = {}
    /\ UNCHANGED <<listening, hasToken, keys, current, results, spoiled, wrongKeys, early>>

\* Each target is unwatched and then watched, one target after the other.
RewatchRequests(again) ==
    [i \in 1..(2 * Cardinality(again)) |->
        LET t == SetToSeq(again)[(i + 1) \div 2]
        IN  IF i % 2 = 1 THEN UnwatchRequest(t)
            ELSE [WatchRequest(t, FALSE) EXCEPT !.keys = {}]]

\* The targets of the event that CreateRemoteEvent makes; they are cleared.
ChangedTargets(s) == {t \in DOMAIN s : IsActiveTarget(s, t) /\ s[t].pending}

\* CreateRemoteEvent and RaiseWatchSnapshot, with what SyncEngine makes of the event: the
\* keys of the changed targets and their current flag.  A target whose filter did not match
\* is unwatched and watched without its token.
RaiseWatchSnapshot(s, truth) ==
    LET changed == ChangedTargets(s)
        again == resets \cap listening
        cleared == [t \in DOMAIN s |-> IF t \in changed THEN ClearPendingChanges(s[t]) ELSE s[t]]
        judged == {t \in DOMAIN truth : IsActiveTarget(s, t)} \ (resets \cup raced)
    IN  /\ keys' = [t \in Targets |-> IF t \in changed
                                      THEN (keys[t] \cup AddedKeys(s[t])) \ RemovedKeys(s[t])
                                      ELSE keys[t]]
        /\ current' = [t \in Targets |-> IF t \in changed THEN s[t].current ELSE current[t]]
        /\ hasToken' = (hasToken \cup {t \in changed : s[t].token}) \ again
        /\ resets' = {}
        /\ states' = [t \in DOMAIN s |-> IF t \in again
                                         THEN [cleared[t] EXCEPT !.outstanding = @ + 2]
                                         ELSE cleared[t]]
        /\ requests' = requests \o RewatchRequests(again)
        /\ wrongKeys' = wrongKeys \cup {t \in judged :
                            truth[t].current /\ ~(current'[t] /\ keys'[t] = truth[t].keys)}
        /\ early' = early \cup {t \in judged : current'[t] /\ ~truth[t].current}
        /\ spoiled' = spoiled \cup {t \in again : keys'[t] # {}}
        /\ UNCHANGED <<listening, raced>>

\* A global snapshot is a NoChange for all active targets, with a resume token.
HandleNoChange(s) ==
    [t \in DOMAIN s |-> IF IsActiveTarget(s, t)
                        THEN [s[t] EXCEPT !.token = TRUE, !.pending = TRUE] ELSE s[t]]

IsResponse(m, t) == m.kind \in {"Added", "Removed", "Error"} /\ m.t = t

\* The responses for t that are still to come.
Outstanding(t, reqs, reps) ==
    Cardinality({i \in DOMAIN reqs : reqs[i].t = t})
        + Cardinality({i \in DOMAIN reps : IsResponse(reps[i], t)})

\* A target that is still listened to is dropped with its state, whatever is outstanding;
\* for another one nothing is done, not even counted.
ProcessTargetError(t) ==
    /\ IF t \in listening
       THEN /\ listening' = listening \ {t}
            /\ states' = Drop(states, t)
       ELSE UNCHANGED <<listening, states>>
    /\ raced' = IF t \notin listening \/ Outstanding(t, requests, Tail(replies)) > 0
                THEN raced \cup {t} ELSE raced
    /\ UNCHANGED <<hasToken, keys, current, resets, requests, spoiled, wrongKeys, early>>

Aggregate(s) ==
    /\ states' = s
    /\ UNCHANGED <<listening, hasToken, keys, current, resets, requests, history>>

OnWatchStreamChange ==
    /\ open
    /\ replies # <<>>
    /\ replies' = Tail(replies)
    /\ LET m == Head(replies)
       IN  \/ m.kind = "Added" /\ Aggregate(HandleAdded(states, m.t))
           \/ m.kind = "Removed" /\ Aggregate(HandleRemoved(states, m.t))
           \/ m.kind = "Current" /\ Aggregate(HandleCurrent(states, m.t))
           \/ m.kind = "Reset" /\ Aggregate(HandleReset(states, m.t))
           \/ m.kind = "Doc" /\ Aggregate(AddDocumentToTarget(states, m.t, m.key))
           \/ m.kind = "Gone" /\ Aggregate(RemoveDocumentFromTarget(states, m.t, m.key))
           \/ /\ m.kind = "Filter"
              /\ LET r == HandleExistenceFilter(states, m.t, m.count, m.bloom)
                 IN  states' = r[1] /\ resets' = resets \cup r[2]
              /\ spoiled' = spoiled \cup CountedTwice(states, m.t, m.bloom)
              /\ UNCHANGED <<listening, hasToken, keys, current, requests, raced, wrongKeys, early>>
           \/ m.kind = "Error" /\ ProcessTargetError(m.t)
           \/ m.kind = "Snapshot" /\ RaiseWatchSnapshot(HandleNoChange(states), m.truth)
    /\ UNCHANGED <<open, backend, used>>

-----------------------------------------------------------------------------
(* The backend. *)

Reply(m) ==
    /\ open
    /\ Len(replies) < MaxReplies
    /\ replies' = Append(replies, m)

\* A resumed watch takes the client's keys as known, but may have lost the removal of
\* some; it is followed by an existence filter.
ServeWatch ==
    /\ requests # <<>> /\ Head(requests).kind = "watch"
    /\ LET r == Head(requests)
       IN  /\ Reply([kind |-> "Added", t |-> r.t])
           /\ \E lost \in SUBSET (IF r.resume THEN r.keys \ results[r.t] ELSE {}) :
                  watch' = Put(watch, r.t, [told |-> IF r.resume THEN r.keys \ lost ELSE {},
                                            filter |-> r.resume, current |-> FALSE])
    /\ requests' = Tail(requests)
    /\ UNCHANGED <<client, open, results, history, used>>

ServeUnwatch ==
    /\ requests # <<>> /\ Head(requests).kind = "unwatch"
    /\ Reply([kind |-> "Removed", t |-> Head(requests).t])
    /\ watch' = Drop(watch, Head(requests).t)
    /\ requests' = Tail(requests)
    /\ UNCHANGED <<client, open, results, history, used>>

\* A watch is refused at once.
RejectWatch ==
    /\ requests # <<>> /\ Head(requests).kind = "watch"
    /\ Use("faults", MaxFaults)
    /\ Reply([kind |-> "Error", t |-> Head(requests).t])
    /\ watch' = Drop(watch, Head(requests).t)
    /\ requests' = Tail(requests)
    /\ UNCHANGED <<client, open, results, history>>

\* What the backend sends for a target it watches.
Send(t, w, m) ==
    /\ Reply(m)
    /\ watch' = [watch EXCEPT ![t] = w]
    /\ UNCHANGED <<client, open, requests, results, history>>

SendUpdate ==
    /\ UNCHANGED used
    /\ \E t \in DOMAIN watch :
         LET w == watch[t]
         IN  \/ \E key \in results[t] \ w.told :
                    Send(t, [w EXCEPT !.told = @ \cup {key}], [kind |-> "Doc", t |-> t, key |-> key])
             \/ \E key \in w.told \ results[t] :
                    Send(t, [w EXCEPT !.told = @ \ {key}], [kind |-> "Gone", t |-> t, key |-> key])
             \/ /\ w.filter /\ w.told = results[t]
                /\ \E fp \in SUBSET (Keys \ results[t]) :
                       Send(t, [w EXCEPT !.filter = FALSE],
                            [kind |-> "Filter", t |-> t, count |-> Cardinality(results[t]),
                             bloom |-> results[t] \cup fp])
             \/ /\ ~w.filter /\ ~w.current /\ w.told = results[t]
                /\ Send(t, [w EXCEPT !.current = TRUE], [kind |-> "Current", t |-> t])

SendReset(t) ==
    /\ t \in DOMAIN watch
    /\ Use("faults", MaxFaults)
    /\ Send(t, [told |-> {}, filter |-> FALSE, current |-> FALSE], [kind |-> "Reset", t |-> t])

SendSnapshot ==
    /\ watch # Empty
    /\ \A t \in DOMAIN watch : watch[t].current => watch[t].told = results[t]
    /\ replies # <<>> => Last(replies).kind # "Snapshot"
    /\ Reply([kind |-> "Snapshot",
              truth |-> [t \in DOMAIN watch |-> [keys |-> watch[t].told,
                                                 current |-> watch[t].current]]])
    /\ UNCHANGED <<client, open, requests, backend, history, used>>

ChangeResults(t) ==
    /\ Use("changes", MaxChanges)
    /\ \E key \in Keys :
           results' = [results EXCEPT ![t] = IF key \in @ THEN @ \ {key} ELSE @ \cup {key}]
    /\ UNCHANGED <<client, open, requests, replies, watch, history>>

-----------------------------------------------------------------------------

Init ==
    /\ listening = {}
    /\ hasToken = {}
    /\ keys = [t \in Targets |-> {}]
    /\ current = [t \in Targets |-> FALSE]
    /\ states = Empty
    /\ resets = {}
    /\ open = FALSE
    /\ requests = <<>>
    /\ replies = <<>>
    /\ watch = Empty
    /\ results = [t \in Targets |-> Keys]
    /\ raced = {}
    /\ spoiled = {}
    /\ wrongKeys = {}
    /\ early = {}
    /\ used = [listens |-> 0, changes |-> 0, faults |-> 0]

Next ==
    \/ \E t \in Targets : Listen(t) \/ StopListening(t) \/ SendReset(t) \/ ChangeResults(t)
    \/ OnWatchStreamOpen
    \/ OnWatchStreamClose
    \/ OnWatchStreamChange
    \/ ServeWatch
    \/ ServeUnwatch
    \/ RejectWatch
    \/ SendUpdate
    \/ SendSnapshot

Spec == Init /\ [][Next]_vars

\* Streams are opened, messages arrive, and the backend goes on serving.
Fairness ==
    /\ WF_vars(OnWatchStreamOpen)
    /\ WF_vars(OnWatchStreamChange)
    /\ WF_vars(ServeWatch \/ ServeUnwatch)
    /\ WF_vars(SendUpdate)
    /\ WF_vars(SendSnapshot)

FairSpec == Spec /\ Fairness

-----------------------------------------------------------------------------
\* The aggregator awaits exactly the responses that are under way, so that it neither
\* takes a message of an earlier listen for one of the present listen nor ignores a
\* target for good; a rejection that meets an unlisten is excepted (IsPending).
ResponsesCounted ==
    open => \A t \in Targets \ raced :
        (IF t \in DOMAIN states THEN states[t].outstanding ELSE 0)
            = Outstanding(t, requests, replies)

\* When a global snapshot is raised, an active target that the backend calls current is
\* current and has exactly the keys that the backend gave it, unless it is about to be
\* watched anew (resets).  Three kinds of targets are excepted: one whose rejection met an
\* unlisten, until the stream closes (raced); one that was watched anew from nothing but
\* kept keys, as its reset was undone by an unlisten or by a document before the snapshot;
\* and one whose Bloom filter named a removal that had been received already (spoiled;
\* RaiseWatchSnapshot, ApplyBloomFilter).
SnapshotsAgree == wrongKeys \subseteq spoiled

\* A target is reported current only after the backend has said so for the present watch.
CurrentIsEarned == early = {}

\* A listened target comes to have the backend's keys and to be current, with the same
\* exceptions.
Converges ==
    \A t \in Targets :
        (t \in listening) ~> \/ t \notin listening
                             \/ t \in raced \cup spoiled
                             \/ current[t] /\ keys[t] = results[t]
=============================================================================
