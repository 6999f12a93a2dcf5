------------------------------ MODULE WritePath ------------------------------
(***************************************************************************)
(* The write path of the Firestore client: a user's write is stored in the *)
(* durable mutation queue of that user (LocalStore), at most               *)
(* MaxPendingWrites of the queue's first batches are copied into the write *)
(* pipeline (RemoteStore), sent over a stream that is opened, backed off,  *)
(* stopped when idle and restarted (Stream, WriteStream), answered in      *)
(* order by the backend, and the answer is correlated with the head of the *)
(* pipeline and reported to the user (SyncEngine).                         *)
(*                                                                         *)
(* Every client handler runs on one worker queue, so a handler is one      *)
(* atomic action.  What interleaves is the user, the timers, the           *)
(* credentials, the network, the backend and the death of the process.     *)
(***************************************************************************)
EXTENDS Integers, Sequences, FiniteSets, SequencesExt

CONSTANTS
    Users,              \* the signed-in users, each with its own mutation queue
    MaxPendingWrites,   \* kMaxPendingWrites, 10 in the code
    LossyFinish,        \* may a status overtake responses that are not yet read?
    MaxWrites,          \* bound on the writes issued
    MaxWaiters,         \* bound on the outstanding waitForPendingWrites calls
    MaxAbandoned,       \* bound on the closed streams the backend still serves
    MaxFaults           \* bound on the faults and interruptions

ASSUME ConstantsAssumption ==
    /\ Users # {}
    /\ MaxPendingWrites \in Nat \ {0}
    /\ LossyFinish \in BOOLEAN
    /\ MaxWrites \in Nat
    /\ MaxWaiters \in Nat
    /\ MaxAbandoned \in Nat
    /\ MaxFaults \in Nat

VARIABLES
    mutationQueue,      \* durable: the batches of each user, in batch id order
    nextBatchId,        \* next_batch_id_ of the current user's queue
    currentUser,        \* current_user_
    mutationCallbacks,  \* per user, the batches whose writer waits for an outcome
    pendingWritesCallbacks,  \* outstanding waitForPendingWrites calls
    isNetworkEnabled,   \* is_network_enabled_
    writePipeline,      \* write_pipeline_
    streamState,        \* state_ of the write stream
    handshake,          \* how far the handshake of the open stream has come
    idleTimer,          \* idleness_timer_ is running
    requests,           \* write requests on the stream the backend has not taken
    responses,          \* write responses on the stream the client has not read
    serverStatus,       \* the status the backend closed the stream with, if it did
    abandoned,          \* requests left on closed streams, still with the backend
    committed,          \* the writes the backend has committed
    rejected,           \* the writes the backend has refused for good
    toldOk,             \* the writes whose callback got OK
    toldError,          \* the writes whose callback got an error
    issued,             \* how many writes were issued; it also numbers them
    faults              \* how many faults have happened

store   == <<mutationQueue, nextBatchId>>
engine  == <<currentUser, mutationCallbacks, pendingWritesCallbacks>>
stream  == <<streamState, handshake, idleTimer>>
wire    == <<requests, responses, serverStatus, abandoned>>
backend == <<committed, rejected>>
outcome == <<toldOk, toldError>>

vars == <<store, engine, isNetworkEnabled, writePipeline, stream, wire, backend,
          outcome, issued, faults>>

(***************************************************************************)
(* A mutation batch: the owner of the queue it is in, its batch id and the *)
(* number of the user's write.  Batch ids are reused once the queues are   *)
(* empty and reloaded, so the number is what identifies a write.           *)
(***************************************************************************)
Batch == [user : Users, id : Nat, write : Nat]

Writes(batches) == {b.write : b \in batches}

StreamStates == {"Initial", "Starting", "Open", "Error", "Backoff"}

\* Open stands for the code's Open and Healthy, which differ only in whether a
\* rejected token is invalidated.
IsStarted(s) == s \in {"Starting", "Backoff", "Open"}

\* The classes of status codes the code tells apart.
Statuses == {"transient", "aborted", "permanent"}

IsPermanentError(status) == status \in {"permanent", "aborted"}

\* Mutant: an aborted stream is taken for the write's own failure.
MutIsPermanentWriteError(status) == IsPermanentError(status)

IsPermanentWriteError(status) == IsPermanentError(status) /\ status # "aborted"

-----------------------------------------------------------------------------
(* The mutation queue. *)

\* Batch ids continue after the largest id of ANY user's queue.
LoadNextBatchId(queues) ==
    1 + Max({0} \cup {b.id : b \in UNION {ToSet(queues[u]) : u \in Users}})

\* Mutant: the scan starts one id too far.
MutNextMutationBatchAfterBatchId(queue, id) ==
    Min({i \in 1..Len(queue) : queue[i].id > id + 1} \cup {Len(queue) + 1})

\* The position of the first batch after the given id, one past the end if none.
NextMutationBatchAfterBatchId(queue, id) ==
    Min({i \in 1..Len(queue) : queue[i].id > id} \cup {Len(queue) + 1})

\* Mutant: the wrong end of the queue is removed.
MutRemoveMutationBatch(queue, id) == RemoveAt(queue, Len(queue))

\* The queue without the batch of the given id.
RemoveMutationBatch(queue, id) ==
    RemoveAt(queue, CHOOSE i \in 1..Len(queue) : queue[i].id = id)

\* The queue with a new batch at its end, where its id puts it.
AddMutationBatch(queue, batch) == Append(queue, batch)

kBatchIdUnknown == -1

-----------------------------------------------------------------------------
(* The write pipeline and its stream. *)

\* Mutant: the loop starts from the front of the queue each time.
MutBatchesToAddAgain(pipeline, queue) ==
    LET room == MaxPendingWrites - Len(pipeline)
    IN  SubSeq(queue, 1, Min({Len(queue), room}))

\* Mutant: one batch more than fits.
MutBatchesToAddTooMany(pipeline, queue) ==
    LET last == IF pipeline = <<>> THEN kBatchIdUnknown
                                   ELSE pipeline[Len(pipeline)].id
        from == NextMutationBatchAfterBatchId(queue, last)
        room == MaxPendingWrites - Len(pipeline)
    IN  SubSeq(queue, from, Min({Len(queue), from + room}))

\* The batches the loop of FillWritePipeline adds to a pipeline: those after its
\* last one, while there is room.
BatchesToAdd(pipeline, queue) ==
    LET last == IF pipeline = <<>> THEN kBatchIdUnknown
                                   ELSE pipeline[Len(pipeline)].id
        from == NextMutationBatchAfterBatchId(queue, last)
        room == MaxPendingWrites - Len(pipeline)
    IN  SubSeq(queue, from, Min({Len(queue), from + room - 1}))

\* Stream::Start: after an error the start waits for the backoff.
Start(s) == IF s = "Error" THEN "Backoff" ELSE "Starting"

(***************************************************************************)
(* FillWritePipeline on a pipeline, a queue, a stream state, the requests  *)
(* already on the stream and the idle timer.  A batch that is added while  *)
(* the stream is open and shaken hands is sent at once, which cancels the  *)
(* idle timer; a pipeline that stays empty marks an open stream idle; a    *)
(* pipeline that needs a stream starts one.                                *)
(***************************************************************************)
FillWritePipeline(enabled, pipeline, queue, s, sent, idle) ==
    LET added   == IF enabled THEN BatchesToAdd(pipeline, queue) ELSE <<>>
        filled  == pipeline \o added
        sending == s = "Open" /\ handshake = "complete"
    IN  /\ writePipeline' = filled
        /\ requests' = IF sending THEN sent \o added ELSE sent
        /\ idleTimer' = \/ enabled /\ filled = <<>> /\ s = "Open"
                        \/ idle /\ ~ (sending /\ added # <<>>)
        /\ streamState' = IF enabled /\ filled # <<>> /\ ~ IsStarted(s)
                          THEN Start(s) ELSE s

\* Requests the backend has not taken when their stream goes away are lost, or
\* are still served later, when the client has long resent them.
AbandonRequests ==
    \/ UNCHANGED abandoned
    \/ /\ requests # <<>>
       /\ serverStatus = "none"
       /\ Cardinality(abandoned) < MaxAbandoned
       /\ abandoned' = abandoned \cup {requests}

\* Mutant: responses of the closed stream are still delivered.
MutResetStream ==
    /\ handshake' = "none"
    /\ UNCHANGED responses
    /\ serverStatus' = "none"
    /\ AbandonRequests

\* What Stream::Close forgets about the stream it closes.
ResetStream ==
    /\ handshake' = "none"
    /\ responses' = <<>>
    /\ serverStatus' = "none"
    /\ AbandonRequests

Fault == faults < MaxFaults /\ faults' = faults + 1

-----------------------------------------------------------------------------
Init ==
    /\ mutationQueue = [u \in Users |-> <<>>]
    /\ nextBatchId = 1
    /\ currentUser \in Users
    /\ mutationCallbacks = [u \in Users |-> {}]
    /\ pendingWritesCallbacks = {}
    /\ isNetworkEnabled = TRUE
    /\ writePipeline = <<>>
    /\ streamState = "Initial"
    /\ handshake = "none"
    /\ idleTimer = FALSE
    /\ requests = <<>>
    /\ responses = <<>>
    /\ serverStatus = "none"
    /\ abandoned = {}
    /\ committed = {}
    /\ rejected = {}
    /\ toldOk = {}
    /\ toldError = {}
    /\ issued = 0
    /\ faults = 0

-----------------------------------------------------------------------------
(* LocalStore: what its transactions do to the queues.  Documents, overlays and *)
(* targets are not modelled.                                                    *)

WriteLocally(batch) ==
    /\ mutationQueue' = [mutationQueue EXCEPT ![batch.user] = AddMutationBatch(@, batch)]
    /\ nextBatchId' = nextBatchId + 1

AcknowledgeBatch(id) ==
    mutationQueue' = [mutationQueue EXCEPT ![currentUser] = RemoveMutationBatch(@, id)]

RejectBatch(id) ==
    mutationQueue' = [mutationQueue EXCEPT ![currentUser] = RemoveMutationBatch(@, id)]

\* The queue of another user is started.
HandleUserChange == nextBatchId' = LoadNextBatchId(mutationQueue)

-----------------------------------------------------------------------------
(* The user. *)

\* SyncEngine::WriteMutations.  insert() keeps a callback already registered
\* under the same batch id.
WriteMutations ==
    LET u == currentUser
        b == [user |-> u, id |-> nextBatchId, write |-> issued + 1]
    IN  /\ issued < MaxWrites
        /\ issued' = issued + 1
        /\ WriteLocally(b)
        /\ mutationCallbacks' =
             IF \E c \in mutationCallbacks[u] : c.id = b.id
             THEN mutationCallbacks
             ELSE [mutationCallbacks EXCEPT ![u] = @ \cup {b}]
        /\ FillWritePipeline(isNetworkEnabled, writePipeline, mutationQueue'[u],
                             streamState, requests, idleTimer)
        /\ UNCHANGED <<currentUser, pendingWritesCallbacks, isNetworkEnabled,
                       handshake, responses, serverStatus, abandoned, backend,
                       outcome, faults>>

\* SyncEngine::RegisterPendingWritesCallback.  With no batch in the queue the
\* callback is called at once and nothing is kept.
RegisterPendingWritesCallback ==
    LET queue == mutationQueue[currentUser]
    IN  /\ queue # <<>>
        /\ Cardinality(pendingWritesCallbacks) < MaxWaiters
        /\ pendingWritesCallbacks' = pendingWritesCallbacks \cup
             {[id |-> queue[Len(queue)].id, writes |-> Writes(ToSet(queue))]}
        /\ UNCHANGED <<store, currentUser, mutationCallbacks, isNetworkEnabled,
                       writePipeline, stream, wire, backend, outcome, issued, faults>>

-----------------------------------------------------------------------------
(* The stream. *)

\* Stream::ResumeStartWithCredentials with a token: the stream opens without a
\* round trip and OnWriteStreamOpen sends the handshake.
ResumeStartWithCredentials ==
    /\ streamState = "Starting"
    /\ streamState' = "Open"
    /\ handshake' = "sent"
    /\ UNCHANGED <<store, engine, isNetworkEnabled, writePipeline, idleTimer, wire,
                   backend, outcome, issued, faults>>

\* The timer of Stream::BackoffAndTryRestarting fires.
BackoffElapsed ==
    /\ streamState = "Backoff"
    /\ streamState' = "Starting"
    /\ UNCHANGED <<store, engine, isNetworkEnabled, writePipeline, handshake,
                   idleTimer, wire, backend, outcome, issued, faults>>

\* Mutant: the pipeline is not sent again on a new stream.
MutOnWriteStreamHandshakeComplete ==
    /\ streamState = "Open"
    /\ handshake = "answered"
    /\ handshake' = "complete"
    /\ UNCHANGED <<store, engine, isNetworkEnabled, writePipeline, streamState,
                   idleTimer, wire, backend, outcome, issued, faults>>

\* The first response: OnWriteStreamHandshakeComplete sends the whole pipeline.
OnWriteStreamHandshakeComplete ==
    /\ streamState = "Open"
    /\ handshake = "answered"
    /\ handshake' = "complete"
    /\ requests' = requests \o writePipeline
    /\ idleTimer' = (idleTimer /\ writePipeline = <<>>)
    /\ UNCHANGED <<store, engine, isNetworkEnabled, writePipeline, streamState,
                   responses, serverStatus, abandoned, backend, outcome, issued, faults>>

\* Mutant: the callback is called and not erased.
MutNotifyUser(id, status) ==
    LET found == {c \in mutationCallbacks[currentUser] : c.id = id}
    IN  /\ UNCHANGED mutationCallbacks
        /\ toldOk' = IF status = "ok" THEN toldOk \cup Writes(found) ELSE toldOk
        /\ toldError' = IF status = "ok" THEN toldError
                                         ELSE toldError \cup Writes(found)

\* SyncEngine::NotifyUser: the callback under the batch's id gets the status.
NotifyUser(id, status) ==
    LET found == {c \in mutationCallbacks[currentUser] : c.id = id}
    IN  /\ mutationCallbacks' = [mutationCallbacks EXCEPT ![currentUser] = @ \ found]
        /\ toldOk' = IF status = "ok" THEN toldOk \cup Writes(found) ELSE toldOk
        /\ toldError' = IF status = "ok" THEN toldError
                                         ELSE toldError \cup Writes(found)

\* Mutant: waiters are called and not erased.
MutTriggerNever(id) == UNCHANGED pendingWritesCallbacks

\* Mutant: waiters for later batches are called too.
MutTriggerEarly(id) ==
    pendingWritesCallbacks' = {c \in pendingWritesCallbacks : c.id < id}

\* SyncEngine::TriggerPendingWriteCallbacks.
TriggerPendingWriteCallbacks(id) ==
    pendingWritesCallbacks' = {c \in pendingWritesCallbacks : c.id # id}

\* SyncEngine::HandleSuccessfulWrite: the user hears of it before the queue does.
HandleSuccessfulWrite(id) ==
    /\ NotifyUser(id, "ok")
    /\ TriggerPendingWriteCallbacks(id)
    /\ AcknowledgeBatch(id)

\* SyncEngine::HandleRejectedWrite: here the queue comes first.
HandleRejectedWrite(id) ==
    /\ RejectBatch(id)
    /\ NotifyUser(id, "error")
    /\ TriggerPendingWriteCallbacks(id)

\* A later response: OnWriteStreamMutationResult takes the head of the pipeline
\* for the write that was answered.
OnWriteStreamMutationResult ==
    LET batch == Head(writePipeline)
        u     == currentUser
    IN  /\ streamState = "Open"
        /\ handshake = "complete"
        /\ responses # <<>>
        /\ responses' = Tail(responses)
        /\ HandleSuccessfulWrite(batch.id)
        /\ FillWritePipeline(isNetworkEnabled, Tail(writePipeline), mutationQueue'[u],
                             streamState, requests, idleTimer)
        /\ UNCHANGED <<nextBatchId, currentUser, isNetworkEnabled, handshake,
                       serverStatus, abandoned, backend, issued, faults>>

\* The idle timer stops the stream.
IdleTimeout ==
    /\ idleTimer
    /\ idleTimer' = FALSE
    /\ streamState' = "Initial"
    /\ requests' = <<>>
    /\ ResetStream
    /\ UNCHANGED <<store, engine, isNetworkEnabled, writePipeline, backend, outcome,
                   issued, faults>>

\* OnWriteStreamClose with an error that leaves the pipeline alone: an error
\* before the handshake, or one that is not a write's own.
CloseAndRetry ==
    /\ streamState' = IF isNetworkEnabled /\ writePipeline # <<>>
                      THEN Start("Error") ELSE "Error"
    /\ idleTimer' = FALSE
    /\ requests' = <<>>
    /\ ResetStream
    /\ UNCHANGED <<store, engine, isNetworkEnabled, writePipeline, backend, outcome,
                   issued>>

\* OnWriteStreamClose with a permanent error after the handshake: HandleWriteError
\* takes the head of the pipeline for the write that failed.
HandleWriteError ==
    LET batch == Head(writePipeline)
        u     == currentUser
    IN  /\ HandleRejectedWrite(batch.id)
        /\ FillWritePipeline(isNetworkEnabled, Tail(writePipeline), mutationQueue'[u],
                             "Initial", <<>>, FALSE)
        /\ ResetStream
        /\ UNCHANGED <<nextBatchId, currentUser, isNetworkEnabled, backend, issued>>

OnWriteStreamClose(status) ==
    IF /\ writePipeline # <<>>
       /\ handshake = "complete"
       /\ IsPermanentWriteError(status)
    THEN HandleWriteError
    ELSE CloseAndRetry

\* The client learns the backend's status: when it has read every response, or,
\* if a request behind the refused one is still being written and that write fails
\* first, with responses unread (GrpcStream::OnOperationFailed cancels the read).
OnStreamFinish ==
    /\ streamState = "Open"
    /\ serverStatus # "none"
    /\ responses = <<>> \/ (LossyFinish /\ Len(requests) > 1)
    /\ OnWriteStreamClose(serverStatus)
    /\ UNCHANGED faults

\* The connection breaks, or the backend aborts the stream, at any moment.
ConnectionLost(status) ==
    /\ streamState = "Open"
    /\ status # "permanent"
    /\ OnWriteStreamClose(status)
    /\ Fault

\* Stream::ResumeStartWithCredentials with a failed token.
AuthFailure ==
    /\ streamState = "Starting"
    /\ CloseAndRetry
    /\ Fault

-----------------------------------------------------------------------------
(* The network switch, credentials and the process. *)

\* RemoteStore::DisableNetwork.
DisableNetwork ==
    /\ isNetworkEnabled
    /\ isNetworkEnabled' = FALSE
    /\ streamState' = IF IsStarted(streamState) THEN "Initial" ELSE streamState
    /\ writePipeline' = <<>>
    /\ idleTimer' = FALSE
    /\ requests' = <<>>
    /\ ResetStream
    /\ Fault
    /\ UNCHANGED <<store, engine, backend, outcome, issued>>

\* RemoteStore::EnableNetwork.
EnableNetwork ==
    /\ ~ isNetworkEnabled
    /\ isNetworkEnabled' = TRUE
    /\ FillWritePipeline(TRUE, writePipeline, mutationQueue[currentUser], streamState,
                         requests, idleTimer)
    /\ UNCHANGED <<store, engine, handshake, responses, serverStatus, abandoned,
                   backend, outcome, issued, faults>>

\* RemoteStore::RestartNetwork for the given user's queue: everything is torn
\* down, the backoff is forgotten and the pipeline filled again.
RestartNetwork(user) ==
    /\ isNetworkEnabled' = TRUE
    /\ ResetStream
    /\ FillWritePipeline(TRUE, <<>>, mutationQueue[user], "Initial", <<>>, FALSE)

\* The connectivity callback registered by RemoteStore::Start.
ConnectivityChange ==
    /\ isNetworkEnabled
    /\ RestartNetwork(currentUser)
    /\ Fault
    /\ UNCHANGED <<store, engine, backend, outcome, issued>>

\* SyncEngine::HandleCredentialChange, for another user or a new token of the
\* same one.
HandleCredentialChange(user) ==
    /\ currentUser' = user
    /\ IF user # currentUser
       THEN /\ pendingWritesCallbacks' = {}
            /\ HandleUserChange
       ELSE UNCHANGED <<pendingWritesCallbacks, nextBatchId>>
    /\ IF isNetworkEnabled
       THEN RestartNetwork(user)
       ELSE UNCHANGED <<isNetworkEnabled, writePipeline, stream, wire>>
    /\ Fault
    /\ UNCHANGED <<mutationQueue, mutationCallbacks, backend, outcome, issued>>

\* The process dies and starts again with some user signed in.  Only the queues
\* survive; the backend may still serve the requests of the old stream.
Restart(user) ==
    /\ currentUser' = user
    /\ mutationCallbacks' = [u \in Users |-> {}]
    /\ pendingWritesCallbacks' = {}
    /\ nextBatchId' = LoadNextBatchId(mutationQueue)
    /\ RestartNetwork(user)
    /\ Fault
    /\ UNCHANGED <<mutationQueue, backend, issued>>

Crash(user) == Restart(user) /\ UNCHANGED outcome

\* The process dies inside HandleSuccessfulWrite: the user has been told, the
\* batch is still in the queue.
CrashAfterNotify(user) ==
    /\ streamState = "Open"
    /\ handshake = "complete"
    /\ responses # <<>>
    /\ toldOk' = toldOk \cup Writes({c \in mutationCallbacks[currentUser] :
                                        c.id = Head(writePipeline).id})
    /\ Restart(user)
    /\ UNCHANGED toldError

-----------------------------------------------------------------------------
(* The backend (external). *)

\* The backend answers the handshake.
AnswerHandshake ==
    /\ handshake = "sent"
    /\ serverStatus = "none"
    /\ handshake' = "answered"
    /\ UNCHANGED <<store, engine, isNetworkEnabled, writePipeline, streamState,
                   idleTimer, wire, backend, outcome, issued, faults>>

\* The backend refuses the handshake for good.
RefuseHandshake ==
    /\ handshake = "sent"
    /\ serverStatus = "none"
    /\ serverStatus' = "permanent"
    /\ Fault
    /\ UNCHANGED <<store, engine, isNetworkEnabled, writePipeline, stream, requests,
                   responses, abandoned, backend, outcome, issued>>

\* The backend takes the next request of the stream and commits it.
Commit ==
    /\ requests # <<>>
    /\ serverStatus = "none"
    /\ committed' = committed \cup {Head(requests).write}
    /\ requests' = Tail(requests)
    /\ responses' = Append(responses, Head(requests))
    /\ UNCHANGED <<store, engine, isNetworkEnabled, writePipeline, stream, serverStatus,
                   abandoned, rejected, outcome, issued, faults>>

\* The backend refuses the next request and closes the stream: it serves nothing
\* behind it.
Reject ==
    /\ requests # <<>>
    /\ serverStatus = "none"
    /\ rejected' = rejected \cup {Head(requests).write}
    /\ serverStatus' = "permanent"
    /\ UNCHANGED <<store, engine, isNetworkEnabled, writePipeline, stream, requests,
                   responses, abandoned, committed, outcome, issued, faults>>

\* The backend serves a request of a stream the client has given up.
ServeAbandoned(left) ==
    /\ \/ /\ committed' = committed \cup {Head(left).write}
          /\ abandoned' = (abandoned \ {left}) \cup ({Tail(left)} \ {<<>>})
          /\ UNCHANGED rejected
       \/ /\ rejected' = rejected \cup {Head(left).write}
          /\ abandoned' = abandoned \ {left}
          /\ UNCHANGED committed
    /\ UNCHANGED <<store, engine, isNetworkEnabled, writePipeline, stream, requests,
                   responses, serverStatus, outcome, issued, faults>>

-----------------------------------------------------------------------------
Client ==
    \/ ResumeStartWithCredentials
    \/ BackoffElapsed
    \/ OnWriteStreamHandshakeComplete
    \/ OnWriteStreamMutationResult
    \/ IdleTimeout
    \/ OnStreamFinish

User ==
    \/ WriteMutations
    \/ RegisterPendingWritesCallback

Environment ==
    \/ \E status \in Statuses : ConnectionLost(status)
    \/ AuthFailure
    \/ DisableNetwork
    \/ EnableNetwork
    \/ ConnectivityChange
    \/ \E user \in Users : HandleCredentialChange(user)
    \/ \E user \in Users : Crash(user)
    \/ \E user \in Users : CrashAfterNotify(user)

Backend ==
    \/ AnswerHandshake
    \/ RefuseHandshake
    \/ Commit
    \/ Reject
    \/ \E left \in abandoned : ServeAbandoned(left)

Next == Client \/ User \/ Environment \/ Backend

Spec == Init /\ [][Next]_vars

\* Timers fire, credentials arrive, the worker queue runs its tasks, and an
\* enabled, reachable backend answers what it is sent.
Fairness ==
    /\ WF_vars(ResumeStartWithCredentials)
    /\ WF_vars(BackoffElapsed)
    /\ WF_vars(OnWriteStreamHandshakeComplete)
    /\ WF_vars(OnWriteStreamMutationResult)
    /\ WF_vars(OnStreamFinish)
    /\ WF_vars(AnswerHandshake)
    /\ WF_vars(Commit \/ Reject)

FairSpec == Spec /\ Fairness

-----------------------------------------------------------------------------
(* Properties. *)

\* Every variable has the shape of the code's field: the type invariant.
TypeOK ==
    /\ mutationQueue \in [Users -> Seq(Batch)]
    /\ nextBatchId \in Nat \ {0}
    /\ currentUser \in Users
    /\ mutationCallbacks \in [Users -> SUBSET Batch]
    /\ pendingWritesCallbacks \in SUBSET [id : Nat, writes : SUBSET Nat]
    /\ isNetworkEnabled \in BOOLEAN
    /\ writePipeline \in Seq(Batch)
    /\ streamState \in StreamStates
    /\ handshake \in {"none", "sent", "answered", "complete"}
    /\ idleTimer \in BOOLEAN
    /\ requests \in Seq(Batch)
    /\ responses \in Seq(Batch)
    /\ serverStatus \in {"none"} \cup Statuses
    /\ abandoned \in SUBSET (Seq(Batch) \ {<<>>})
    /\ committed \in SUBSET Nat
    /\ rejected \in SUBSET Nat
    /\ toldOk \in SUBSET Nat
    /\ toldError \in SUBSET Nat
    /\ issued \in Nat
    /\ faults \in Nat

\* The pipeline is the longest admissible prefix of the current user's queue: no
\* refill skips, repeats or reorders a batch or mixes in another user's, whatever
\* has happened to streams and users (FillWritePipeline, HandleCredentialChange).
PipelineIsQueueHead ==
    LET queue == mutationQueue[currentUser]
    IN  writePipeline = SubSeq(queue, 1, IF isNetworkEnabled
                                         THEN Min({Len(queue), MaxPendingWrites})
                                         ELSE 0)

\* A response carries no batch id: OnWriteStreamMutationResult and HandleWriteError
\* blame the head of the pipeline.  That is right because, once hands are shaken,
\* what the backend has answered and what it has yet to take is the pipeline.
ResponsesMatchPipeline ==
    handshake = "complete" => responses \o requests = writePipeline

\* A user is told OK only of a write the backend has committed, also when the
\* stream broke, the process died or batch ids were reused in between.
OkMeansCommitted == toldOk \subseteq committed

\* A user is told of an error only for a write the backend has refused.
ErrorMeansRejected == toldError \subseteq rejected

\* The outcome reported for a write is never taken back.
OutcomeIsFinal == toldOk \cap toldError = {}

Decided == committed \cup rejected

\* All the batches on their way to the backend, on the open stream or a closed one.
InFlight == UNION {ToSet(left) : left \in abandoned \cup {requests}}

\* The backend first decides a user's writes in the order they were written, also
\* when a stream the client has given up is served late, after a resend.
DecidedInOrder ==
    [][\A b \in InFlight :
          b.write \in Decided' \ Decided =>
              \A c \in ToSet(mutationQueue[b.user]) :
                  c.write < b.write => c.write \in Decided]_vars

\* A write is in its user's durable queue until the backend has decided it: no
\* restart, user change or refill loses one.
NothingLost ==
    \A w \in 1..issued :
        \/ w \in Decided
        \/ \E u \in Users : w \in Writes(ToSet(mutationQueue[u]))

Ascending(queue) ==
    \A i, j \in 1..Len(queue) : i < j => queue[i].id < queue[j].id

\* Batch ids grow along each queue, and the next one is beyond all of the current
\* user's: NextMutationBatchAfterBatchId relies on it.
BatchIdsGrow ==
    /\ \A u \in Users : Ascending(mutationQueue[u])
    /\ \A i \in 1..Len(mutationQueue[currentUser]) :
          mutationQueue[currentUser][i].id < nextBatchId

\* A callback waits under the id of the very batch it was registered for, which is
\* still queued: ids that are reused never hit an old callback.
CallbacksAreQueued ==
    \A u \in Users : mutationCallbacks[u] \subseteq ToSet(mutationQueue[u])

\* An outstanding waitForPendingWrites waits under the id of a batch that is still
\* in the current user's queue, so something will trigger it.
WaitersAreQueued ==
    \A c \in pendingWritesCallbacks :
        \E i \in 1..Len(mutationQueue[currentUser]) :
            mutationQueue[currentUser][i].id = c.id

\* The idle timer runs only on an open stream with nothing in the pipeline: Stop
\* never meets "Write stream was stopped gracefully while still needed".
IdleMeansDrained == idleTimer => streamState = "Open" /\ writePipeline = <<>>

\* A pipeline with work has a stream that is open or on its way: no error path,
\* refill or restart leaves writes without one.
PendingMeansStarted == writePipeline # <<>> => IsStarted(streamState)

\* waitForPendingWrites is answered OK (its callback goes away in a step that is
\* neither a user change nor a crash) only when every write that was pending at the
\* call has left the queue.
WaitersComplete ==
    [][faults' = faults =>
          \A c \in pendingWritesCallbacks \ pendingWritesCallbacks' :
              c.writes \cap Writes(ToSet(mutationQueue'[currentUser])) = {}]_vars

Log == INSTANCE WriteLog
    WITH log <- [u \in Users |-> [i \in DOMAIN mutationQueue[u] |-> mutationQueue[u][i].write]]

\* The write path implements the ordered, durable, truthful log of WriteLog: no
\* stream, pipeline, batch id, user change or crash shows through it, as long as no
\* status overtakes a response (LossyFinish is FALSE).
ImplementsLog == Log!Spec

\* Once the user stays signed in with the network enabled, each of its writes
\* leaves the queue: nothing waits for a stream, a timer or an answer that never comes.
WritesResolve ==
    \A u \in Users :
        <>[](isNetworkEnabled /\ currentUser = u) => <>[](mutationQueue[u] = <<>>)

-----------------------------------------------------------------------------
(* The inductive invariant: the parts that strengthen the properties above. *)

\* A batch id is at most the number of writes issued: ids are only ever reused.
IdsBounded ==
    /\ nextBatchId <= issued + 1
    /\ \A u \in Users : \A i \in 1..Len(mutationQueue[u]) : mutationQueue[u][i].id <= issued

\* How the stream, its handshake, its messages and its timer go together.
StreamConsistent ==
    /\ handshake = "none" <=> streamState # "Open"
    /\ IsStarted(streamState) => isNetworkEnabled
    /\ handshake # "complete" => requests = <<>> /\ responses = <<>>
    /\ idleTimer => handshake = "complete" /\ writePipeline = <<>>
    /\ serverStatus # "none" => handshake \in {"sent", "complete"}

\* An unread response is of a committed write; a status is about the next request.
AnswersJustified ==
    /\ \A i \in 1..Len(responses) : responses[i].write \in committed
    /\ serverStatus # "none" /\ handshake = "complete" =>
          requests # <<>> /\ Head(requests).write \in rejected

\* Errors are told truthfully when no status overtakes a response.
ErrorsJustified == ~ LossyFinish => ErrorMeansRejected

\* What is about the queues and the outcomes told.
StoreInv ==
    /\ BatchIdsGrow
    /\ IdsBounded
    /\ CallbacksAreQueued
    /\ OkMeansCommitted
    /\ ErrorsJustified
    /\ NothingLost

\* What is about the pipeline and its stream.
StreamInv ==
    /\ PipelineIsQueueHead
    /\ PendingMeansStarted
    /\ StreamConsistent
    /\ ResponsesMatchPipeline
    /\ AnswersJustified

Inv == TypeOK /\ StoreInv /\ StreamInv

=============================================================================
