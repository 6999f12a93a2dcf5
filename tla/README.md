# Verification of the Firestore client core in `book_room`

`book_room` is a Flutter application. Its repository holds generated glue (plugin
registrants for Android and iOS) and, under `src/ios/Pods`, the complete sources of the
libraries it is linked with. The application's own Dart code is not part of it. The
program logic it contains is the client core of Firestore, in C++ under
`ios/Pods/FirebaseFirestoreInternal/Firestore/core/src` (below: `core/src`), and that is
what this project models. gRPC, BoringSSL, abseil, leveldb and nanopb are third-party
libraries it stands on.

## 1. Inventory

All handlers of the core run one at a time on a worker queue (`util/async_queue.cc`), so
each is atomic. Around them interleave: calls of the user, timers (idle, backoff, online
state), credentials arriving from another thread, connectivity, gRPC completions, the
backend, and the death of the process, after which only leveldb survives.

| Component | State | Operations | What makes it correct |
|---|---|---|---|
| `SyncEngine` (`core/sync_engine.cc`) | views by query, queries by target, write callbacks per user, waiters for pending writes, limbo queue | listen, stop, write, remote event, rejected listen, write answered or refused, credential change | users are told the truth and once; maps agree with the event manager; waiters are answered |
| `EventManager` (`core/event_manager.cc`) | listeners per query, online state | add, remove, error, snapshots, online state | every listener hears of errors; a late removal is harmless |
| `RemoteStore` (`remote/remote_store.cc`) | watched targets, write pipeline, network switch | listen, stop listening, fill pipeline, stream open, close and message, enable, disable, restart | pipeline = front of the queue; a stream whenever one is needed |
| `Stream` (`remote/stream.cc`), `WriteStream`, `WatchStream` | state machine, backoff, idle and health timers, close count | start, resume with credentials, idle, stop, close with an error | no callback of an old stream acts on a new one; no stop while needed |
| `OnlineStateTracker` (`remote/online_state_tracker.cc`) | state, failures, timer | stream start, stream failure, update | state agrees with the stream; a hanging attempt is declared offline |
| `GrpcStream` (`remote/grpc_stream.cc`), `GrpcCompletion` | completions, buffered writes, whether the call is finished | read, write, last write, finish, shut down | no completion outlives its stream; a call has one read and one write at a time |
| `Datastore` (`remote/datastore.cc`) | active calls | commit, lookup; classify errors | an error is taken for permanent exactly when repeating is useless |
| `LocalStore`, `LevelDbMutationQueue` (`local/`) | durable queues of batches, next batch id, target map, documents, overlays | write, acknowledge, reject, user change, allocate and release a target | nothing lost; ids grow |
| `WatchChangeAggregator` (`remote/remote_event.cc`) | target states, outstanding responses, pending resets | target, document and existence filter changes, remote event | messages of an earlier listen are ignored; a snapshot has the backend's keys |
| `View` (`core/view.cc`), limbo resolution (`core/sync_engine.cc`) | synced documents, limbo documents, sync state; references, queue, active resolutions | apply changes, track, pump, remove | limbo slots bounded and reused; every limbo document is resolved |
| `Transaction`, `TransactionRunner` (`core/`) | versions read, mutations; attempts left, backoff | read, write, commit, retry | a commit rests on what was read; bounded attempts; a truthful result |
| `QueryListener` (`core/`) | last snapshot, online state | raise or hold back a snapshot | events in order |
| `LruGarbageCollector`, caches, `QueryEngine`, indexes (`local/`) | documents, targets, sequence numbers | collect, read, index | nothing in use is collected |
| `AsyncQueue` (`util/`) | mode, delayed operations | enqueue, delay, restricted mode | order, no execution after disposal |
| Bundles, credentials, `api/`, `model/`, heartbeats | | | not in the control modelled so far |

`PROJECT.json` lists all of them with their status, and under `hazards` what in this code
is hard to reach with a test, with the properties that would catch it.

How they interact: the user's call is enqueued; `SyncEngine` stores a write with
`LocalStore` and asks `RemoteStore` to fill its pipeline; `RemoteStore` starts a `Stream`,
whose callbacks come back to `RemoteStore`, which reports to `SyncEngine`, which tells the
user and updates `LocalStore`. A listener goes from `EventManager` to `SyncEngine` to
`LocalStore` and `RemoteStore`; errors of the backend take the way back. Whatever happens
to the watch stream goes to `OnlineStateTracker`.

## 2. Modules

| Module | Models | Used by |
|---|---|---|
| `WriteLog` | abstract: the log of a user's writes, decided in order and reported truthfully | instantiated by `WritePath`, `WriteLogProofs` |
| `WritePath` | the life of a write: queue, pipeline, write stream, backend, callbacks | `MCWritePath`, `WritePathProofs`, `WriteLogProofs` |
| `ListenRegistry` | who listens to what: event manager, sync engine, local store, watch list | `MCListenRegistry`, `ListenRegistryProofs` |
| `WatchConnection` | the watch stream, its timers, the network switch, the online state | `MCWatchConnection`, `WatchConnectionProofs` |
| `WatchAggregator` | the messages of the watch stream: RemoteStore and the aggregator against a backend | `MCWatchAggregator`, `WatchAggregatorProofs` |
| `LimboResolution` | views, limbo documents, their resolutions and the document cache | `MCLimboResolution`, `LimboResolutionProofs` |
| `StreamLifecycle` | `Stream` on top of `GrpcStream`, with the threads around them | `MCStreamLifecycle`, `StreamLifecycleProofs` |
| `Transactions` | `Transaction` and `TransactionRunner` against a backend | `MCTransactions`, `TransactionsProofs` |

The modules meet at the interfaces of the code. `WritePath` and `WatchConnection` take from
`StreamLifecycle` that nothing of a closed stream reaches its owner. `ListenRegistry` says
which targets are watched, `WatchConnection` when there is a stream for them,
`WatchAggregator` what the messages on it make of a target's keys, and `LimboResolution` what
the views make of those keys; each takes the level below by its effects.

Definitions whose name starts with `Mut` are deliberate bugs. They belong to no
specification; each shows that a property notices a plausible mistake.

### WritePath

State. `mutationQueue` (durable, per user), `nextBatchId`; `currentUser`,
`mutationCallbacks`, `pendingWritesCallbacks` of `SyncEngine`; `isNetworkEnabled` and
`writePipeline` of `RemoteStore`; `streamState`, `handshake`, `idleTimer` of the stream;
`requests`, `responses`, `serverStatus` on the wire and `abandoned`, requests of closed
streams the backend may still serve; `committed` and `rejected` by the backend; `toldOk`
and `toldError`, what users were told.

A batch is its owner, its batch id and the number of the user's write. The number is not in
the code: batch ids are reused once the queues are empty and reloaded, and the properties
have to tell writes apart.

Actions. `WriteMutations`, `RegisterPendingWritesCallback` (user); `ResumeStartWithCredentials`,
`BackoffElapsed`, `OnWriteStreamHandshakeComplete`, `OnWriteStreamMutationResult`,
`IdleTimeout`, `OnStreamFinish` (worker queue); `ConnectionLost`, `AuthFailure`,
`DisableNetwork`, `EnableNetwork`, `ConnectivityChange`, `HandleCredentialChange`, `Crash`,
`CrashAfterNotify` (environment); `AnswerHandshake`, `RefuseHandshake`, `Commit`, `Reject`,
`ServeAbandoned` (backend, external). Each client action is a whole handler:
`OnWriteStreamMutationResult` notifies the user, triggers waiters, removes the batch and
refills the pipeline, as the code does in one task. `CrashAfterNotify` is the one place
where a handler is cut: between telling the user and the leveldb transaction.

The backend serves the requests of a stream in order, answers each, and ends the stream
with the first refusal. `LossyFinish` says whether a status may overtake unread responses:
`GrpcStream` finishes the call when *any* operation fails and cancels a read that has not
been delivered, so a failing later write drops an earlier response. This needs a request
behind the refused one, hence the guard of `OnStreamFinish`.

Abstractions. The stream token is left out (the client stores it and does not put it on the
handshake). `Open` stands for `Open` and `Healthy`. `close_count_` is implicit: closing a
stream drops its messages. Status codes are three classes. Documents, overlays and local
views are left out of `LocalStore`'s transactions. Enabling an enabled network does nothing
to the write path and is no action here. The server never ends a stream with OK.

Refinement. `ImplementsLog` is `Log!Spec`, where `Log` instantiates `WriteLog` with the numbers
of the queued writes for `log`; batch ids, pipeline, streams and crashes disappear. Without
faults of gRPC (`LossyFinish = FALSE`) every step of `WritePath` is a step of the log or leaves
it alone: a user is told nothing but a decision of the backend, a write leaves the log only from
its front and decided, and the backend's decisions come in the order of the log although
streams are resent and abandoned requests are served late. A write whose owner was told OK by
a process that then died is the step `TellAndKeep`.

### ListenRegistry

State. `calls`, the user's calls not yet run; `listeners` (`queries_`), `views`
(`query_views_by_query_`), `indexed` and `queriesByTarget` (keys and contents of
`queries_by_target_`), `allocated` (`target_data_by_target_`), `listenTargets`
(`listen_targets_`), `errored`, and `failed`, the assertion that ended the process.

The user's call and its execution are separate actions (`ListenToQuery`/`AddQueryListener`,
`RemoveListener`/`RemoveQueryListener`), with the backend's `ProcessTargetError` in between.
A `HARD_ASSERT` that fails ends the process: nothing happens any more. Reading the first
element of an empty list of queries (`InitializeViewAndComputeSnapshot`) is undefined
behaviour: the model lets it end the process or go on.

Abstractions. Contents of snapshots and limbo targets are left out. A released target keeps
its id, as with leveldb persistence; memory persistence with eager collection may give it a
new one. Errors are reported for watched targets only, as `ProcessTargetError` skips others.

### WatchConnection

State. `listenTargets`, `isNetworkEnabled`, `streamState`, `idleTimer`, the `tracker` (state,
failures, timer, whether an assertion failed), `ok` and the counter of faults. The operations
of the tracker are functions from tracker to tracker, composed by the handlers of
`RemoteStore` the way the code calls them. The counter of failures goes on counting past the
maximum, as the code's does; only the bound on faults limits it. `OnWatchStreamChange` may drop
any set of targets with an error.

### WatchAggregator

State. `listening` and `hasToken` (`listen_targets_` and its resume tokens), `keys`
(`GetRemoteKeysForTarget`) and `current`, what the rest of the client has learnt of a target;
`states` (`target_states_`: outstanding responses, document changes, current, token, pending
changes) and `resets` (`pending_target_resets_`) of the aggregator; the stream with `requests`
and `replies` under way; `watch` and `results` of the backend.

Actions. `Listen`, `StopListening`, `OnWatchStreamOpen`, `OnWatchStreamClose`, and
`OnWatchStreamChange` with one disjunct per kind of message: `HandleAdded`, `HandleRemoved`,
`HandleCurrent`, `HandleReset`, documents that enter or leave, `HandleExistenceFilter` (with the
Bloom filter), `ProcessTargetError`, and the global snapshot that raises a remote event. The
backend acknowledges requests in order, may have lost removals when a watch is resumed, may
reject or reset a target, and sends a snapshot only when its current targets are consistent.

Ghosts. `wrongKeys` and `early` record at each snapshot what the client got wrong about the
targets the backend speaks of. Two sets mark the exceptions of the properties, each a place
where the protocol cannot or the code does not keep up:

- `raced`: a rejection that finds responses outstanding, because an unlisten was under way.
  `ProcessTargetError` ignores a target nobody listens to, or drops the state with its count;
  the count for that id is wrong until the stream closes (`remote_store.cc:366`).
- `spoiled`: a target that is watched from nothing while the client still has keys of it,
  because a document or an unlisten came between the filter and the snapshot
  (`remote_store.cc:329`), or whose Bloom filter named removals that had been received and are
  then counted twice (`remote_event.cc:340`).

Targets are collection queries. Contents of documents and snapshot versions are left out, and a
snapshot always carries a resume token. So the guard `snapshot_version >=
GetLastRemoteSnapshotVersion()` of `OnWatchStreamChange` (`remote_store.cc:292`) is not in the model:
the backend of the model sends its snapshots in the order of their versions, on one stream and
over streams. Nor is
`UpdateResumeToken` when a target is added or reset: the backend of the model sends tokens with
CURRENT and with snapshots only, and an empty token changes nothing.

### LimboResolution

State. `server` and `cached` documents (matching the queries, existing but not matching, gone),
`committed` (cached documents of an acknowledged write that the backend has not sent yet),
`overlay` (local writes), per target `synced`, `current`, `mutated`, `limbo` and `syncState` of its
view,
`tracker`, the record of `SyncEngine`'s four limbo structures and the limbo targets watched, and
`caughtUp`, the targets that are current on this stream.

Actions. `RemoteEvent` makes a set of targets current at the backend's state, with documents that
leave a target silently; `ExistenceFilterMismatch`, `StreamBreaks` (offline or not), `Listen`,
`StopListening`, `HandleRejectedListen`, `WriteMutations`, `HandleSuccessfulWrite`,
`HandleRejectedWrite`, `ServerChange`. Each ends in `EmitNewSnapshots`, which walks the views,
updates their limbo documents and applies the removals, then the additions, to the tracker one by
one, pumping the queue whenever a key comes or a slot is freed, as the code does. The loops are
recursive functions (`StartResolutions`, `UpdateTrackedLimboDocuments`, `TrackViews`).

A view that shows a local write goes on holding its own document when the write is acknowledged: if
the values differ it waits for Watch (`ShouldWaitForSyncedDocument`), if they are equal there is
nothing to change. `MutatedKeys` says for which keys the document that the view holds has local
mutations, and those are not in limbo (`ShouldBeInLimbo`); a view that starts after the
acknowledgement has no such document.

Abstractions. All queries match the same documents, so that one document is in limbo in two
views. An existence filter mismatches only when the target has a document here that the backend's
result does not; the documents sent just before the filter come with the next event instead.
Target ids are taken again once nothing holds them; the generator of the code only counts on. A
rejected query listen is a `StopListening`. `tracker.rejected` is a ghost: the keys whose own
listen was rejected while a view still refers to them.

### StreamLifecycle

State. `state`, `closeCount`, the three `timers`, the `base` and `delay` of the backoff in steps
of its factor; `credentials`, the requests the providers still owe an answer; `grpc`, the
`GrpcStream` with the completions it has out; `queue`, the operations the other threads have put
on the worker queue; `ok`, whether any assertion has failed or a destroyed stream was called;
`handshake`, whether a write stream has shaken hands (a watch stream does not); `failures`, a ghost.

Three threads: the worker (`StaleToken`, `ResumeStartWithCredentials`, `RefusedToken`,
`CancelledCompletion`, `OnStreamRead`, `UnreadableResponse`, `OnWrite`, `OperationFailed`,
`OnStreamFinish`, timers and the owner's calls), the credential providers (`ReceiveAuth`,
`ReceiveAppCheck`), and gRPC's polling thread (`Complete`). `GrpcStream`'s methods are functions
on the connection, so that a handler composes them in the order of its calls.
`FastFinishCompletionsBlocking` waits for gRPC: the model marks what is queued as cancelled and
drops what gRPC still has, since it would come back as a no-op before the call returns. A finish
never fails, and after a finish nothing succeeds, as gRPC promises. A server may end a call with
any status, OK included. Health check timer and idle timer are in the model; jitter and
`InvalidateToken` are not.

A response resets the backoff once it is parsed, but the response to a write stream's handshake
does not (`ErrorsAfterResponse`). `UnreadableResponse` has both failures of a response: one that
cannot be parsed leaves the backoff as it is, one that is parsed and cannot be decoded has reset it
(`watch_stream.cc:105`, `write_stream.cc:151`). So the errors in a row that `BackoffGrows` is about
are those with no parsed response between them but a handshake's. A write stream sends a last
write when it is stopped only after the handshake (`TearDown`).

### Transactions

State. Per transaction its `runner` (phase, attempts left, result) and `trans` (versions read,
mutations, written documents, write error); `version` and `clock` of the backend; `strays`,
commits the client has given up; `applied`, how often a commit of a transaction was applied.

Actions. `Transaction`, `BackoffElapsed`, `Lookup`, `Write` (set, update or delete), `FinishBlock`,
`FailBlock`, then `Commit`, `Refuse` or `LoseAnswer`, and `ServeStray`, which applies a lost
commit late. The user's block is any sequence of at most `MaxCalls` calls; it returns the errors it
gets. A block that swallows an error of a lookup is not modelled.

## 3. Runs

| Run | Bounds | Shows |
|---|---|---|
| `write_path` | 2 users, pipeline 2, 3 writes, 1 waiter, 1 abandoned stream, 2 faults, fairness; 200,744 states | all safety properties of the write path, its inductive invariant, the refinement of `WriteLog`, and that writes of a user who stays leave the queue |
| `write_overtaken` | 3 writes, no faults, overtaking statuses | *violation*: a committed write is reported as failed |
| `listen_uniform` | 4 listeners, 3 queries, 2 targets, 4 calls waiting; 7,071 states | all properties when the listeners of a target have one source |
| `listen_mixed` | 4 listeners, 2 on each of 2 queries of one target; 14,983 states | what holds for mixed sources |
| `listen_shared_target` | 2 listeners, 2 queries of one target | *violation* for mixed sources |
| `watch_fair` | 2 targets, 2 failures allowed, 4 faults, fairness; 397 states | assertions and online state; a client that needs the backend gets online |
| `stream` | 3 closes, 2 steps of backoff, 2 buffered writes, fairness, a watch or a write stream; 195,612 states | assertions, tokens, reads, backoff; every start and every failed call comes to an end |
| `transactions` | 2 transactions, 2 documents, 2 calls, 2 attempts, 1 lost answer; 2.2 million states | serializability of applied commits, truthful results, attempts |
| `limbo` | 2 documents, 2 views, 1 resolution at a time, 5 disturbances, fairness; 137,436 states | the limbo structures agree; views become synced |
| `limbo_orphaned` | 1 document, 2 views, 7 disturbances | *violation*: a limbo document nothing resolves |
| `aggregator` | 1 target, 2 documents, 3 listens, 2 changes, 2 faults, 2 replies under way, fairness; 472,909 states | responses counted, snapshots right, a listened target converges |
| `aggregator_current` | as before with one listen | *violation*: a target current too early |

Why the bounds are enough. Two users are needed for queues that do not belong to the
pipeline, and for ids continuing after the other user's. Three writes with a pipeline of two
leave one outside, so refills matter; two faults reach break and resend, and crash after a user
change. In `ListenRegistry` two listeners per query and two queries per target are the smallest
instance of sharing; in `WatchConnection` the second target tells the last target from another.
Three closes in `StreamLifecycle` let a token and a completion of a first call meet a second one
and its end; two steps of backoff tell growing from capped. Two transactions with two attempts
have a conflict, a retry and a second conflict; two documents give a read that is not written.
One resolution slot for two documents makes the queue matter, two views share a document. Three
listens in `WatchAggregator` are listen, unlisten, listen: the case the counting is for; target ids
do not interact except in the snapshot, where each is treated alone, so there is one.

Constants of bounds are named `Max...` or `Disturbances` and occur only in guards; the real limits
are `MaxPendingWrites` (10 in the code), `MaxWatchStreamFailures` (1; `watch_fair` takes 2 so that
counting below the maximum happens), `MaxConcurrent` (100), `MaxAttempts` (5) and `MaxBase`.

Deadlock is not checked where the system may come to rest: when all writes are decided, all
transactions done, the last stream closed or the bounds used up, or after a failed assertion.

Fairness. Weak fairness of the worker queue's tasks and timers: an enabled one runs. For
`WritesResolve` also of the backend: it answers a handshake and takes the next request of an
open stream; a connection that is started comes up or fails. `ComesOnline` assumes that
connections which are not refused come up and that the backend speaks on them. `StreamSettles`
assumes of the other threads only that the providers answer and that gRPC completes a finish, as
its interface promises; an idle stream is not assumed to be read or written. `ViewsSettle`
assumes that the backend at last makes all watched targets current at one snapshot (`CatchUp`),
`Converges` that streams are opened, messages delivered and the backend goes on sending. Faults
and changes by others are bounded, so they end. No fairness is assumed of the user.

### What the violations show

1. `write_overtaken`: `HandleWriteError` takes the front of the pipeline for the write that
   failed (`remote_store.cc:538`). If the response to an earlier write is still unread when a
   later gRPC write fails, `GrpcStream::OnOperationFailed` cancels the read and the status is
   blamed on a write that was committed.
2. `listen_shared_target`: a limit-to-first and a limit-to-last query share a target; after the
   remote one leaves, the target stays watched and outlives its allocation.
3. `limbo_orphaned`: a limbo listen is rejected while the view is not current (the client was
   offline and the target is not current on the new stream yet). The resolution is dropped and the
   document taken for deleted, but the view keeps the key in limbo. The document is put back by
   another client and reaches the cache through a second view, which is then left, and it leaves
   the query again; when the first view is current it sees no change of its limbo documents, and
   nothing resolves the key (`sync_engine.h:348-358` says a limbo document is enqueued or active).
   The second view has to go: while it stays it has the key in limbo too and resolves it. Seven
   disturbances are the least that reach it; with six TLC finds no such state.
   `OnlyRejectionOrphans` shows that a rejected listen is the only way.
4. `aggregator_current`: an acknowledged watch is to "reset any state that we had previously"
   (`remote_event.cc:161`), but `current_` stays, and a snapshot may call the target current before
   its documents have come.

### Known behaviour

Met while modelling, and not asked by a run of its own:

- When the last remote listener of a query leaves and a cache listener stays, the query is taken
  out of `queries_by_target_`; a new remote listener is watched but not indexed, and an error on the
  target reaches nobody (`sync_engine.cc:166`, `sync_engine.h:74`). `ErrorsReachListeners` is stated
  for one source per target.
- `RemoveQueryListener` is documented as a no-op if the listener is not found (`event_manager.h:61`)
  but looks for the query only. `StaleRemovalIsNoOp` is stated for one source per target.
- Dropping the last target during an attempt to connect cancels the online state timer, and
  listening again does not restart it (`remote_store.cc:188`).
- A watch stream that opens after its last target left, or loses its targets to errors, is never
  marked idle (`remote_store.cc:235`).

- A response that is parsed and cannot be decoded resets the backoff and then closes the stream: a
  stream that gets only such responses is restarted without delay (`watch_stream.cc:105`,
  `write_stream.cc:151`). `BackoffGrows` counts anew after such a response.
- After an acknowledgement a view holds its own document until Watch sends it, "as Watch will send us
  the same document again" (`view.cc:239`). If another client takes the document out of the query
  before that, and the target never had it, Watch sends nothing: the view keeps the document with
  pending writes and is synced. `LimboResolution` has these steps; no property excludes the outcome.
- The three cases behind `raced` and `spoiled` (section 2, WatchAggregator): a rejection that crosses an
  unlisten (`remote_store.cc:366`), a document or an unlisten between a filter mismatch and its
  snapshot (`remote_store.cc:329`), and a Bloom filter whose removals are counted against a size that
  counts earlier removals too (`remote_event.cc:340`). The model takes these steps, and the properties
  of the aggregator make exceptions of them: no run would notice if they got worse.

`listen_uniform` and the theorems under `UniformSources` show that the first two need listeners of
different sources on one target, as `listen_shared_target` does.

## 4. Proofs

`tlapm` checks the eight modules `...Proofs`. Each result holds for every value of the constants
that satisfies the named assumption of its module, which TLC evaluates on the runs. All invariants
were first checked by TLC, as invariants of an instance.

**WritePath** (`WritePathProofs`). Assumptions: `ConstantsAssumption` (there is a user, the pipeline
has room for a batch, bounds are naturals). `Inv` is inductive; its parts beyond the properties are
`IdsBounded` (an id never exceeds the number of writes: gives the bounds for the least-element
lemmas), `StreamConsistent` (handshake, stream state, messages and idle timer go together:
without it a close might leave responses behind) and `AnswersJustified` (an unread response is
of a committed write, a status of the next request: what makes `OkMeansCommitted` inductive).
The argument rests on three lemmas: `BatchesAdded` (on a pipeline that is the front of the
queue, the loop yields the longer front), `FillLiveStream` and `FillClosedStream` (what a refill
does on either kind of stream) and `HeadDecided` (removing the decided head keeps the queues).
Every action has a lemma `...KeepsInv`. `ErrorIsTrue` assumes `~ LossyFinish`, as
`write_overtaken` refutes it otherwise.

**Outcomes, order and refinement of the write path** (`WriteLogProofs`). `Inv` speaks of batch ids,
which are reused; what users are told and the order of decisions is about the writes themselves.
`LogInv`, inductive relative to `Inv`, says that the numbers of the writes grow along a queue and are
in one queue only, that a write with a callback has not been told, and what a waiter covers. Its
heart is `AbandonedInOrder`: wherever a request is, on the open stream or on one the client has given
up, each older write of the same user that is still queued is decided or ahead of it on that stream.
It is why a stream that is served late cannot decide writes out of order. The many actions do only
six things to the queues, the backend and the outcomes (`StepKinds`), and each property is proved for
the six: `OutcomeIsFinal`, `WaitersAreQueued`, `WaitersComplete`, `DecidedInOrder`. The same six map
to steps or stutters of `WriteLog`, which gives `ImplementsLog` under `~ LossyFinish`.

**ListenRegistry** (`ListenRegistryProofs`). Assumption: `RegistryAssumption`. `ViewsInv` is inductive
for all sources and gives `ViewsAgree` and `TypeOK` (type correctness is a theorem only, here and in
`WatchConnection`: the runs check no type invariant). Under `UniformSources` the maps determine each
other (`MapsInv`): the watch list is what the remote listeners want, the index is what the views say,
and so no assertion fails, errors are delivered and late removals do nothing.

**WatchConnection** (`WatchConnectionProofs`). Assumption: `WatchAssumption`. The conjunction `Inv` of
the properties is inductive; `TrackerInv` is the strengthening that makes the tracker's assertions
provable (the timer runs only in Unknown with a stream started; online means no failures).

**Transactions** (`TransactionsProofs`). Assumption: `TransactionsAssumption`; `MaxAttempts` may be 0,
when the code still runs the block once and the counter goes to -1 (`RunnerOK` has to say so; the
run has two attempts, so the theorem alone speaks of that case).
`ReadsStillValid` (serializability of what the backend applies) rests on `TransOK`: the first write
of a document that was read carries the version that was read as its precondition, and a document
that is only read gets a verify with it. A commit whose answer was lost keeps its reads
(`ReadsTested` of every stray), so it is tested when it is served late. `AppliedOK` counts the applied
commits against the answers that were lost and those still under way, which gives `TruthfulResult`.

**StreamLifecycle** (`StreamLifecycleProofs`). Assumption: `StreamAssumption`. Two arguments. Every
request for a token and every token on the queue is marked with a close count of at most the present
one, so a close makes all of them stale at once (`TokenInv`, giving `TokenPerStart`). And the
completions on the worker queue that are not cancelled are completions of the present call that it
still counts, one of each type at most (`LiveMatches`): a call that is torn down leaves none, which
is why no assertion fails and no destroyed stream is called. `BackoffInv` places the delay against
the errors in a row (those that no response has come between but a handshake's); in state Error the
last one is not accounted for yet.

**WatchAggregator** (`WatchAggregatorProofs`). Assumption: `AggregatorAssumption`, for any set of
targets (the run has one). `ResponsesCounted` is not inductive: the response to an unlisten makes the
aggregator forget a target, and if that were one that is listened to, the two responses of a
re-watch would go uncounted. `Rewatched` says that after each unwatch of a listened target a watch
follows, among the requests or as an answer among the replies; with it the aggregator never forgets
a listened target (`Tracked`). Messages are counted by the cardinality of their places in a sequence
(`CountShift`, `CountMore`, `SentRewatch`).

`SnapshotsAgree` compares the client's keys with what the backend had when it sent the snapshot, with
any number of replies in between. Its invariant, `Agreed`, is inductive relative to `Inv`. `Heard` says
that for each target there is a history of the backend's watch, one value per reply under way, which
ends with the watch as it is now, in which each reply is what its two neighbours say it is
(`Means`: a document enters the keys, a filter has the number of them, a snapshot has them and whether
they are current), and whose first value the aggregator's pending changes follow (`Follows`). A
reply that is sent extends the history at one end (`ExplainedSend`), one that is taken shortens it at
the other; what an existence filter removes, and when it resets the target instead, is decided from
the first value. While the aggregator is owed responses, or the target is about to be watched anew,
nothing is asked of its pending changes; the history begins anew with the ADDED of the next watch. That needs
`TokensKept` (a target with keys resumes) and `RequestsFit` (a watch request tells the keys that the
target still has when it is answered), as a watch that began with other keys would never be corrected,
and `UnwatchedWhenClosed`. The exceptions are those of the property: targets that are about to be
watched anew, `raced` and `spoiled`.

**LimboResolution** (`LimboResolutionProofs`). Assumption: `LimboAssumption`. The tracker changes in
nested loops (over the views, the limbo changes of each, the resolutions each change starts), and in
between it does not agree with the views. `Good` says what holds between any two changes: the maps
are inverse, the slots are used up while a key waits, and a referenced key is resolved, waits or was
rejected (`Covered`). `Updated` says what the changes of one view do: its references follow, no key of
a change is left as a stray. `LoopRuns` and `LoopInduction` carry both through the loops, and
`TrackViewsResult` puts them together: after the last view the references are the new limbo documents
and there is no stray. Dropping a view makes strays of its keys first and then removes them
(`CleanupResult`). `PumpResult` needs only that at most one resolution can be started
(`Unpumped`), which is what every caller leaves. `Inv` adds `RefsAgree`: a target without a view has
nothing in limbo.

Every invariant and safety action property of the passing runs, and the refinement of `WriteLog`, is
stated by a theorem. Only model-checked: liveness (`WritesResolve`, `ComesOnline`, `StreamSettles`,
`ViewsSettle`, `Converges`), which is out of the prover's reach.

## 5. Plan

Models next: `LocalCache` (documents, overlays and the queue through write, acknowledge,
reject, remote event and garbage collection), the events of `QueryListener`, `AsyncQueue` with
restricted mode and terminate.

## 6. Not modelled

Shutdown and terminate; aggregate queries and other unary RPCs; limits and orderings of views
and the contents of snapshots; which snapshots a `QueryListener` raises; bundles; indexes and query
evaluation; garbage collection; encodings; the memory persistence (its queue has the same
interface); invalidation of rejected tokens; for the owners of the streams, responses that cannot be
parsed and a backend that ends a needed stream with OK, which would trip an assertion of
`RemoteStore` (`StreamLifecycle` has both).
