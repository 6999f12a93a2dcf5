--------------------------- MODULE StreamLifecycle ---------------------------
(***************************************************************************)
(* The life of a stream: Stream with its credentials, timers and backoff,  *)
(* on top of GrpcStream with its completions.  WritePath and               *)
(* WatchConnection take from here that a stream that is closed is closed:  *)
(* neither a token asked for earlier nor an operation of the old call ever *)
(* reaches the stream's owner.                                             *)
(*                                                                         *)
(* Three threads meet.  Stream and GrpcStream run on the worker queue; the *)
(* providers of credentials and the thread that polls gRPC's completion    *)
(* queue only put operations on it.  The owner (RemoteStore) calls Start,  *)
(* Stop, Write, MarkIdle and InhibitBackoff whenever it may.               *)
(***************************************************************************)
EXTENDS Naturals, Sequences, FiniteSetsExt

CONSTANTS
    MaxBase,      \* the number of steps from no delay to kBackoffMaxDelay
    MaxCloses,    \* bound on the closes of the stream
    MaxBuffered   \* bound on the writes waiting in the BufferedWriter

ASSUME StreamAssumption ==
    /\ MaxBase \in Nat \ {0}
    /\ MaxCloses \in Nat
    /\ MaxBuffered \in Nat

VARIABLES
    state,        \* state_
    closeCount,   \* close_count_
    timers,       \* which of the backoff, idle and health check timers run
    base,         \* current_base_ of the backoff, in steps
    delay,        \* the delay the backoff timer was started with
    credentials,  \* the requests for credentials the providers still owe an answer
    grpc,         \* grpc_stream_, the GrpcStream
    queue,        \* the worker queue's operations from the other threads
    ok,           \* no assertion has failed, no destroyed stream was called
    failures,     \* errors in a row, since ExponentialBackoff::Reset
    handshake     \* handshake_complete_ of a WriteStream; a WatchStream has none

streamVars == <<state, closeCount, timers, base, delay, failures, handshake>>
vars == <<streamVars, credentials, grpc, queue, ok>>

States == {"Initial", "Starting", "Open", "Healthy", "Error", "Backoff"}

IsOpen == state \in {"Open", "Healthy"}

IsStarted == state \in {"Starting", "Backoff"} \/ IsOpen

Types == {"Read", "Write", "Finish"}

Handshakes == {"none", "awaited", "complete"}

Operations ==
    [kind : {"token"}, count : Nat, auth : {"ok", "error"}]
        \cup [kind : {"completion"}, call : Nat, type : Types, ok : BOOLEAN,
              cancelled : BOOLEAN]

\* A GrpcStream.  Its call is numbered by the close count at its creation, and it has
\* at most one completion of each type, as gRPC demands.
Calls == [call : Nat, completions : SUBSET Types, observer : BOOLEAN,
          finished : BOOLEAN, activeWrite : BOOLEAN, buffered : Nat]

NoCall == [call |-> 0, completions |-> {}, observer |-> FALSE, finished |-> TRUE,
           activeWrite |-> FALSE, buffered |-> 0]

-----------------------------------------------------------------------------
(* GrpcStream.  Its methods map a connection to the next one. *)

Connection == [grpc |-> grpc, queue |-> queue, ok |-> ok]

\* A second completion of a type would be an error of use of gRPC.
NewCompletion(c, type) ==
    [c EXCEPT !.grpc.completions = @ \cup {type},
              !.ok = @ /\ type \notin c.grpc.completions]

\* Mutant: completions that are already on the worker queue are left alone.
MutFastFinishCompletionsBlocking(c) == [c EXCEPT !.grpc.completions = {}]

\* What is on the worker queue becomes a no-op; what gRPC still has is waited for and
\* would come as a no-op.
FastFinishCompletionsBlocking(c) ==
    [c EXCEPT !.grpc.completions = {},
              !.queue = [i \in DOMAIN @ |->
                  IF @[i].kind = "completion" /\ @[i].call = c.grpc.call
                  THEN [@[i] EXCEPT !.cancelled = TRUE]
                  ELSE @[i]]]

\* Mutant: the finish is not enqueued.
MutFinishGrpcCall(c) ==
    FastFinishCompletionsBlocking(
        [c EXCEPT !.grpc.finished = TRUE, !.ok = @ /\ ~ c.grpc.finished])

FinishGrpcCall(c) ==
    NewCompletion(FastFinishCompletionsBlocking(
        [c EXCEPT !.grpc.finished = TRUE, !.ok = @ /\ ~ c.grpc.finished]), "Finish")

Shutdown(c) ==
    FastFinishCompletionsBlocking(
        IF c.grpc.completions # {} /\ ~ c.grpc.finished THEN FinishGrpcCall(c) ELSE c)

FinishImmediately(c) == [Shutdown(c) EXCEPT !.grpc.observer = FALSE]

\* MaybeWrite of what BufferedWriter::TryStartWrite returns.
TryStartWrite(c) ==
    IF c.grpc.buffered = 0 \/ c.grpc.activeWrite
    THEN c
    ELSE NewCompletion([c EXCEPT !.grpc.activeWrite = TRUE, !.grpc.buffered = @ - 1],
                       "Write")

EnqueueWrite(c) == TryStartWrite([c EXCEPT !.grpc.buffered = @ + 1])

DequeueNextWrite(c) == TryStartWrite([c EXCEPT !.grpc.activeWrite = FALSE])

\* WriteAndFinish tries a last write unless the call is finished.
WriteAndFinish(c) == FinishImmediately(IF c.grpc.finished THEN c ELSE EnqueueWrite(c))

OnOperationFailed(c) == IF c.grpc.finished THEN c ELSE FinishGrpcCall(c)

\* The destructor.
Destroy(c) == [c EXCEPT !.grpc = NoCall, !.ok = @ /\ c.grpc.completions = {}]

Connect(c) ==
    /\ grpc' = c.grpc
    /\ queue' = c.queue
    /\ ok' = c.ok

-----------------------------------------------------------------------------
(* ExponentialBackoff, in steps of its factor. *)

NoTimers == [backoff |-> FALSE, idle |-> FALSE, health |-> FALSE]

BackoffAndRun ==
    /\ timers' = [timers EXCEPT !.backoff = TRUE]
    /\ delay' = base
    /\ base' = Min({base + 1, MaxBase})

\* What the backoff is at, and what Reset makes of it.
Errors == [base |-> base, failures |-> failures]

NoErrors == [base |-> 0, failures |-> 0]

\* Mutant: the handshake is taken for a sign of health too.
MutErrorsAfterResponse ==
    IF handshake = "awaited" THEN [Errors EXCEPT !.base = 0] ELSE NoErrors

\* NotifyStreamResponse resets the backoff once a response is parsed, before it is decoded.
\* The response to the handshake of a write stream does not: a write may be what fails.
ErrorsAfterResponse == IF handshake = "awaited" THEN Errors ELSE NoErrors

-----------------------------------------------------------------------------
Init ==
    /\ state = "Initial"
    /\ closeCount = 0
    /\ timers = NoTimers
    /\ base = 0
    /\ delay = 0
    /\ credentials = {}
    /\ grpc = NoCall
    /\ queue = <<>>
    /\ ok = TRUE
    /\ failures = 0
    /\ handshake \in {"none", "awaited"}

(* Stream, called by its owner. *)

\* The request keeps the close count of the moment it was made.
RequestCredentials ==
    credentials' = credentials \cup
        {[count |-> closeCount, auth |-> "none", appCheck |-> FALSE]}

\* Stream::Start, and BackoffAndTryRestarting after an error.
Start ==
    /\ ~ IsStarted
    /\ closeCount < MaxCloses
    /\ \/ /\ state = "Error"
          /\ state' = "Backoff"
          /\ BackoffAndRun
          /\ UNCHANGED credentials
       \/ /\ state = "Initial"
          /\ state' = "Starting"
          /\ RequestCredentials
          /\ UNCHANGED <<timers, base, delay>>
    /\ UNCHANGED <<closeCount, grpc, queue, ok, failures, handshake>>

\* The operation of the backoff timer: the stream starts at once.
BackoffElapsed ==
    /\ timers.backoff
    /\ timers' = [timers EXCEPT !.backoff = FALSE]
    /\ ok' = (ok /\ state = "Backoff")
    /\ state' = "Starting"
    /\ RequestCredentials
    /\ UNCHANGED <<closeCount, base, delay, grpc, queue, failures, handshake>>

InhibitBackoff ==
    /\ ~ IsStarted
    /\ state' = "Initial"
    /\ base' = 0
    /\ failures' = 0
    /\ UNCHANGED <<closeCount, timers, delay, handshake, credentials, grpc, queue, ok>>

\* A write stream that has shaken hands sends a last, empty write.
TearDown(c) == IF handshake = "complete" THEN WriteAndFinish(c) ELSE FinishImmediately(c)

\* Mutant: the close count is not touched by a graceful stop.
MutClose(c, errors, status) ==
    LET torn == IF status = "ok" /\ c.grpc # NoCall THEN TearDown(c) ELSE c
        gone == Destroy(torn)
    IN  /\ timers' = NoTimers
        /\ closeCount' = IF status = "ok" THEN closeCount ELSE closeCount + 1
        /\ base' = IF status = "ok" THEN 0
                   ELSE IF status = "exhausted" THEN MaxBase ELSE errors.base
        /\ failures' = IF status = "ok" THEN 0 ELSE errors.failures + 1
        /\ state' = IF status = "ok" THEN "Initial" ELSE "Error"
        /\ handshake' = IF handshake = "none" THEN "none" ELSE "awaited"
        /\ Connect([gone EXCEPT !.ok = @ /\ IsStarted])
        /\ UNCHANGED <<delay, credentials>>

\* Stream::Close of a started stream, over the connection c and with the backoff at
\* errors.  A graceful close tears the call down; after an error the call has been shut
\* down already.
Close(c, errors, status) ==
    /\ timers' = NoTimers
    /\ closeCount' = closeCount + 1
    /\ IF status = "ok"
       THEN base' = 0 /\ failures' = 0
       ELSE /\ base' = IF status = "exhausted" THEN MaxBase ELSE errors.base
            /\ failures' = errors.failures + 1
    /\ LET torn == IF status = "ok" /\ c.grpc # NoCall THEN TearDown(c) ELSE c
           gone == Destroy(torn)
       IN  Connect([gone EXCEPT !.ok = @ /\ IsStarted])
    /\ state' = IF status = "ok" THEN "Initial" ELSE "Error"
    /\ handshake' = IF handshake = "none" THEN "none" ELSE "awaited"
    /\ UNCHANGED <<delay, credentials>>

\* Stream::Stop; on a stream that is not started it does nothing.
Stop == IsStarted /\ Close(Connection, Errors, "ok")

\* Stream::MarkIdle.
MarkIdle ==
    /\ IsOpen
    /\ timers' = [timers EXCEPT !.idle = TRUE]
    /\ UNCHANGED <<state, closeCount, base, delay, failures, handshake, credentials, grpc, queue,
                   ok>>

\* The operation of the idle timer.
IdleTimeout == timers.idle /\ Stop

\* The operation of the health check timer.
HealthCheck ==
    /\ timers.health
    /\ timers' = [timers EXCEPT !.health = FALSE]
    /\ state' = IF IsOpen THEN "Healthy" ELSE state
    /\ UNCHANGED <<closeCount, base, delay, failures, handshake, credentials, grpc, queue, ok>>

\* Stream::Write: also between a failed operation and the end of the call, when gRPC
\* will refuse what it is given.
Write ==
    /\ IsOpen
    /\ grpc.buffered < MaxBuffered
    /\ timers' = [timers EXCEPT !.idle = FALSE]
    /\ Connect(EnqueueWrite(Connection))
    /\ UNCHANGED <<state, closeCount, base, delay, failures, handshake, credentials>>

-----------------------------------------------------------------------------
(* The other threads. *)

\* A provider answers a request; with both answers in, the continuation of
\* RequestCredentials goes to the worker queue.
Receive(r, answered) ==
    IF answered.auth # "none" /\ answered.appCheck
    THEN /\ credentials' = credentials \ {r}
         /\ queue' = Append(queue, [kind |-> "token", count |-> r.count,
                                    auth |-> answered.auth])
    ELSE /\ credentials' = (credentials \ {r}) \cup {answered}
         /\ UNCHANGED queue

ReceiveAuth(r) ==
    /\ r.auth = "none"
    /\ \E auth \in {"ok", "error"} : Receive(r, [r EXCEPT !.auth = auth])
    /\ UNCHANGED <<streamVars, grpc, ok>>

ReceiveAppCheck(r) ==
    /\ ~ r.appCheck
    /\ Receive(r, [r EXCEPT !.appCheck = TRUE])
    /\ UNCHANGED <<streamVars, grpc, ok>>

\* The completions of the call that gRPC still has.
WithGrpc ==
    {type \in grpc.completions :
        ~ \E i \in DOMAIN queue :
            /\ queue[i].kind = "completion"
            /\ queue[i].call = grpc.call
            /\ queue[i].type = type
            /\ ~ queue[i].cancelled}

\* GrpcCompletion::Complete.  A finish never fails; after it nothing succeeds.
Complete(type, success) ==
    /\ type \in WithGrpc
    /\ type = "Finish" => success
    /\ success => type = "Finish" \/ ~ grpc.finished
    /\ queue' = Append(queue, [kind |-> "completion", call |-> grpc.call, type |-> type,
                               ok |-> success, cancelled |-> FALSE])
    /\ UNCHANGED <<streamVars, credentials, grpc, ok>>

-----------------------------------------------------------------------------
(* The worker queue. *)

NextIs(kind) == queue # <<>> /\ Head(queue).kind = kind

Dequeued == [Connection EXCEPT !.queue = Tail(@)]

\* The operation of a token that came too late does nothing.
StaleToken ==
    /\ NextIs("token")
    /\ Head(queue).count # closeCount
    /\ queue' = Tail(queue)
    /\ UNCHANGED <<streamVars, credentials, grpc, ok>>

\* Stream::ResumeStartWithCredentials with a token: the call is started with a read and
\* OnStreamStart opens the stream.
ResumeStartWithCredentials ==
    /\ NextIs("token")
    /\ Head(queue).count = closeCount
    /\ Head(queue).auth = "ok"
    /\ Connect(NewCompletion([grpc  |-> [NoCall EXCEPT !.call = closeCount,
                                                       !.observer = TRUE,
                                                       !.finished = FALSE],
                              queue |-> Tail(queue),
                              ok    |-> ok /\ state = "Starting"], "Read"))
    /\ state' = "Open"
    /\ timers' = [timers EXCEPT !.health = TRUE]
    /\ UNCHANGED <<closeCount, base, delay, failures, handshake, credentials>>

\* ... and without one.
RefusedToken ==
    /\ NextIs("token")
    /\ Head(queue).count = closeCount
    /\ Head(queue).auth = "error"
    /\ Close([Dequeued EXCEPT !.ok = @ /\ state = "Starting"], Errors, "error")

\* A completion that was cancelled has lost its callback.
CancelledCompletion ==
    /\ NextIs("completion")
    /\ Head(queue).cancelled
    /\ queue' = Tail(queue)
    /\ UNCHANGED <<streamVars, credentials, grpc, ok>>

\* The callback of a completion: its stream must still be there, and RemoveCompletion
\* must find it.
Removed(type) ==
    [Dequeued EXCEPT !.grpc.completions = @ \ {type},
                     !.ok = @ /\ Head(queue).call = grpc.call /\ type \in grpc.completions]

Completed(type, success) ==
    /\ NextIs("completion")
    /\ ~ Head(queue).cancelled
    /\ Head(queue).type = type
    /\ Head(queue).ok = success

\* NotifyStreamResponse of what was understood.
Respond ==
    /\ base' = ErrorsAfterResponse.base
    /\ failures' = ErrorsAfterResponse.failures
    /\ handshake' = IF handshake = "awaited" THEN "complete" ELSE handshake
    /\ UNCHANGED <<state, closeCount, timers, delay, credentials>>

\* Mutant: the owner gets the response and the next read is forgotten.
MutOnStreamRead ==
    /\ Completed("Read", TRUE)
    /\ grpc.observer
    /\ Connect([Removed("Read") EXCEPT !.ok = @ /\ IsStarted])
    /\ Respond

\* GrpcStream::OnRead and Stream::OnStreamRead with a response the owner understands.
OnStreamRead ==
    /\ Completed("Read", TRUE)
    /\ grpc.observer
    /\ Connect([NewCompletion(Removed("Read"), "Read") EXCEPT !.ok = @ /\ IsStarted])
    /\ Respond

\* ... with one that cannot be parsed, and with one that is parsed and cannot be decoded:
\* the backoff has been reset then.  Of the handshake's response nothing is decoded.
UnreadableResponse(parsed) ==
    /\ Completed("Read", TRUE)
    /\ grpc.observer
    /\ parsed => handshake # "awaited"
    /\ Close(FinishImmediately(NewCompletion(Removed("Read"), "Read")),
             IF parsed THEN ErrorsAfterResponse ELSE Errors, "error")

\* GrpcStream::OnWrite.
OnWrite ==
    /\ Completed("Write", TRUE)
    /\ grpc.observer
    /\ Connect(DequeueNextWrite(Removed("Write")))
    /\ UNCHANGED <<streamVars, credentials>>

\* GrpcStream::OnOperationFailed.
OperationFailed ==
    /\ \E type \in Types :
          /\ Completed(type, FALSE)
          /\ Connect(OnOperationFailed(Removed(type)))
    /\ UNCHANGED <<streamVars, credentials>>

\* The backend's status is in: FinishAndNotify and Stream::OnStreamFinish.
OnStreamFinish(status) ==
    /\ Completed("Finish", TRUE)
    /\ grpc.observer
    /\ Close(FinishImmediately(Removed("Finish")), Errors, status)

\* The connectivity monitor makes GrpcConnection finish every call and notify.
ConnectivityChange ==
    /\ grpc.observer
    /\ Close(FinishImmediately(Connection), Errors, "error")

-----------------------------------------------------------------------------
Worker ==
    \/ StaleToken \/ ResumeStartWithCredentials \/ RefusedToken
    \/ CancelledCompletion \/ OnStreamRead \/ OnWrite \/ OperationFailed
    \/ \E parsed \in BOOLEAN : UnreadableResponse(parsed)
    \/ \E status \in {"ok", "error", "exhausted"} : OnStreamFinish(status)

Next ==
    \/ Start \/ InhibitBackoff \/ Stop \/ MarkIdle \/ Write
    \/ BackoffElapsed \/ IdleTimeout \/ HealthCheck
    \/ \E r \in credentials : ReceiveAuth(r) \/ ReceiveAppCheck(r)
    \/ \E type \in Types, success \in BOOLEAN : Complete(type, success)
    \/ Worker
    \/ ConnectivityChange

Spec == Init /\ [][Next]_vars

\* The worker queue runs its operations, the backoff timer fires, the providers answer,
\* and gRPC completes a finish.
Fairness ==
    /\ WF_vars(Worker)
    /\ WF_vars(BackoffElapsed)
    /\ WF_vars(\E r \in credentials : ReceiveAuth(r) \/ ReceiveAppCheck(r))
    /\ WF_vars(Complete("Finish", TRUE))

FairSpec == Spec /\ Fairness

-----------------------------------------------------------------------------
(* Properties. *)

\* The type invariant.
TypeOK ==
    /\ state \in States
    /\ closeCount \in Nat
    /\ timers \in [backoff : BOOLEAN, idle : BOOLEAN, health : BOOLEAN]
    /\ base \in 0..MaxBase
    /\ delay \in 0..MaxBase
    /\ credentials \subseteq [count : Nat, auth : {"none", "ok", "error"}, appCheck : BOOLEAN]
    /\ grpc \in Calls
    /\ queue \in Seq(Operations)
    /\ ok \in BOOLEAN
    /\ failures \in Nat
    /\ handshake \in Handshakes

\* No assertion of Stream or GrpcStream fails, whatever the order in which tokens,
\* completions, timers and calls of the owner come: no token finds the stream in another
\* state than Starting, no completion runs after its stream is destroyed or twice, no
\* call is finished twice, has two reads or writes at a time or is destroyed with a
\* completion left.
AssertionsHold == ok

\* A start has exactly one request for credentials under way, with the close count of
\* now, and a stream that is not starting has none: a token asked for before a close can
\* never be taken for the token of the next start.
TokenPerStart ==
    LET current == {r \in credentials : r.count = closeCount}
        queued  == {i \in DOMAIN queue :
                       queue[i].kind = "token" /\ queue[i].count = closeCount}
    IN  Cardinality(current) + Cardinality(queued) = IF state = "Starting" THEN 1 ELSE 0

\* An open stream has a call that listens: there is a read with gRPC or on its way to
\* the worker, or else the finish that will close the stream.
OpenMeansListening ==
    /\ IsOpen <=> grpc.observer
    /\ IsOpen => grpc.call = closeCount /\ grpc.completions \cap {"Read", "Finish"} # {}
    /\ grpc.finished /\ grpc.observer => "Finish" \in grpc.completions

\* After errors in a row the stream waits longer each time: only the first restart is
\* immediate.  In a row means that between them no response was parsed but that to a
\* handshake: a write stream whose writes fail backs off although each of its calls shakes
\* hands.  A response that is parsed and cannot be decoded ends the row and begins one.
BackoffGrows == timers.backoff => delay >= Min({failures - 1, MaxBase})

\* A start comes to an end, and a call that failed closes its stream: the owner is always
\* told, with a stream that opens or a close.
StreamSettles ==
    /\ state \in {"Starting", "Backoff"} ~> state \notin {"Starting", "Backoff"}
    /\ (grpc.observer /\ grpc.finished) ~> ~ (grpc.observer /\ grpc.finished)

=============================================================================
